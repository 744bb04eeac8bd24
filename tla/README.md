# A TLA+ verification of the payment engine

This directory holds specifications of the Brospay payment engine service (NestJS, TypeScript), the TLC
configurations that check them on small instances, and proofs checked by TLAPS. Source paths below are relative
to `src/src/`.

The service stands between merchants, payment service providers (TSPs) and a wallet service. It owns the rows of
payments, payouts, refunds and batches and changes them from HTTP and gRPC requests, an hourly job and the
providers' webhooks. It holds **no lock and no database transaction across an `await`**: every handler reads a row,
waits for a provider or the wallet, and writes later, while any other handler may run. Most of what can go wrong with
the money follows from that, and that is what the models are about.

## 1. Inventory

| Component | State | Operations | Speaks to | What is hard | Modules |
|---|---|---|---|---|---|
| Payment intents (`modules/payment-intent`) | status, expiry | create, confirm at a TSP, cancel, view (cancels when expired), customer-intelligence save, process | TSP adapters, transactions, routing, customer resolution | stale reads: guard on the first read, save after an await | `PaymentLifecycle`, `Instructions` |
| Payment transactions (`modules/payment-transaction`) | status, external id, response type | create, update status, update intent, finalize, credit, notify, list, summarise | wallet (gRPC), communication service, merchant webhook | late and repeated reports, crash between the row's save and the credit | `PaymentLifecycle`, `Dashboards`, `Announcements` |
| Response codes (`common/response-codes.ts`) | a table | finality, settlement, intent status | used by both | agreement of several tables about one word | `ResponseCodes` |
| Payment webhooks (`webhooks/handlers`) | none of their own | Kingdom Bank, Sulifu Pay, Payaza notifications | transactions, intents, merchant | lookup ids that change, three spellings of every status | `ProviderReports`, `PaymentLifecycle` |
| Payouts (`modules/payout`) | status, wallet transaction id, block id | create, retry, poll, list, summarise | TSP adapters, wallet blocks | balance checked long before it is reserved, lost answers, retries | `Payouts`, `Instructions`, `Dashboards` |
| Payout webhooks (handlers and `webhooks/webhook.service.ts`) | none of their own | report of a payout | wallet, merchant | two orders of status and wallet, repeated debits | `Payouts` |
| Refunds (`modules/refund`, `webhooks/refund`) | status, wallet block, blocked amount | create, approve, reject, cancel, batch, process, webhook, hourly cancellation | wallet, TSP, transactions | idempotency check before insert, whole rows saved back, blocks that leak | `Refunds`, `RefundLedger` |
| Batch payouts (`modules/batch-payout`, `services/batch-payout-parser`) | status, parsed rows, totals | upload, confirm | wallet, payouts | confirmation twice, block before a step that throws | `Batches` |
| Settlements (`modules/settlement`, `webhooks/settlement`) | none persisted here | create, webhook | routing, TSP, wallet | balances as listed and as they are, words of the reports | `Settlements` |
| Circuit breaker, parallel processor (`adapters`) | state, counters, last failure | execute, onSuccess, onFailure; parallel calls, fallback | wrapped calls | concurrent trials, answers after the timeout | `CircuitBreaker`, `ParallelTsp` |
| Smart routing (`modules/smart-routing`) | decision cache | score, rank, choose, cache, override, emergency | monitoring, cache, configurations | a cached decision outlives what it was computed from | `RoutingScores`, `Routing` |
| TSP adapters and factory (`tsp`) | tokens, kept adapters | open, verify, status, transfer, refund | the providers | errors turned into answers, tables that must agree | `TspAdapters`, `Instructions`, `ProviderSettings` |
| TSP management (`modules/tsp-management`) | configuration rows | create, update, activate, set credentials | factory | whole rows saved back, adapters kept for ever | `ProviderSettings` |
| Customer resolution | none of its own | look up, create, retry | merchant service | check then create, retried creations | `CustomerResolution` |
| Fraud management (`fraud`) | cached profiles | analyse, decide, store the score | merchant service | a score that feeds on itself, read and stored by overlapping analyses | `FraudScreening` |
| Performance monitoring | metric rows | sweep, answer, real time | transactions, cache | overlapping sweeps, read then insert | `Monitoring` |
| Cache (`common/services/cache.service.ts`) | memory and Redis tiers | get, set, set with expiry, delete | Redis | lifetimes that add up, copies in several processes | `CacheTiers` |
| Kafka, communication client, merchant notices | connection flags | connect, publish, notify | broker, services | four audiences, three sources of one word | `Announcements` |
| Status gateway and stream (`modules/payment-status`) | rooms, open streams | subscribe, push, poll | browser | a push between the query and the subscription | `StatusPages` |
| Generic payment webhooks; encryption, logging, validation; health, guards, migrations | | | | | section 7 |

Properties that make each part right, in one line each:

- *Payments.* Credit only for received money, once; an intent says succeeded only if somebody paid for it; row, intent,
  wallet and merchant agree when nothing is in flight; nothing saved as a success is forgotten.
- *Payouts.* What leaves the wallet was paid by a provider; what returns to it was not; reserves never exceed the
  balance; `completed` means paid.
- *Refunds.* The wallet is debited, and anybody told, only of refunds carried out; nothing is refunded after a completed
  refund; row, block and provider agree; what nobody decides is cancelled.
- *Batches.* Payouts are covered by blocks; a batch in processing has them all; a second block has a cause.
- *Breaker and processor.* Counters count each call once; a breaker opens for cause; a payment the fallback takes up is
  open nowhere else.
- *Routing, configuration, cache.* Nothing switched off is used for longer than one life of a cached value; an adapter
  belongs to its environment.
- *Adapters and instructions.* What is heard of a provider happened; what is sent reaches the account it was meant for.
- *Customers and fraud.* A customer exists twice only for cause; who is declined stays declined.
- *Settlements.* The money goes to a provider that has it; the wallet hears what was acknowledged.
- *What merchants and customers see.* Figures add up and pages miss nothing unless rows change or share their time;
  topic, merchant and dashboard know how far the handling of a payment got.

The hazards behind these properties, each at its line, are in `PROJECT.json`.

## 2. Modules

| Module | Models | Correspondence |
|---|---|---|
| `ResponseCodes` | `common/response-codes.ts` | The table, section by section; `Settlement`, `IntentStatusFor` and `RowStatusFor` are the decisions taken from it; `Storable` is what the enum column of the row accepts |
| `ProviderReports` | the status maps of the three payment handlers | A report is a record of provider, word and the one further field that matters. The same word goes through four tables: row status, response code, the handler's own intent write, the merchant's event |
| `PaymentLifecycle`, `Payouts`, `Refunds` | the three services that move money, with their webhooks | below |
| `PayoutLedger`, `RefundLedger` | nothing in the code: what a merchant may rely on | provider's outcome, hold in the wallet, available balance; implemented by `Payouts` and `Refunds` |
| `CircuitBreaker`, `ParallelTsp` | `adapters/` | The breaker is pure operators on its counters; `ParallelTsp` has one breaker per provider and one record per payment: whom it waits for, what came back, what the fallback still has |
| `ProviderSettings` | TSP management and factory | configuration rows, editors that read and save a whole row, the factory's map of adapters, keyed as in the code |
| `CacheTiers` | the cache service | ages of the entry in Redis and in each process's memory; versions stand for values |
| `RoutingScores`, `Routing` | smart routing | scores in integers as the code computes them; requests that read the cache, compute and store, while time passes and providers come and go |
| `TspAdapters`, `Instructions` | the six adapters in use and what the services ask of them | words to statuses, per operation and provider; validation and destination of a transfer; forms, coins and account numbers |
| `CustomerResolution` | customer resolution | look up, create, retry, with answers that are lost |
| `FraudScreening` | fraud management | points per flag, the stored score, the cached profile |
| `Settlements` | settlement service and its webhooks | the caller's list of balances against the funds at the provider; reports, acknowledgements and what the wallet was told |
| `Dashboards` | listings, statistics and summaries of transactions, payouts, refunds | one reader that makes its queries one by one while rows are inserted and change |
| `Batches` | batch payouts and their parser | a file is a sequence of rows; confirmations in slots; blocks and payouts as sequences of amounts |
| `Monitoring` | performance monitoring | sweeps over configuration rows, metric rows per provider, the answers computed from them |
| `Announcements` | Kafka, communication client, merchant notices | one report after another through its notices; who failed to be reached is `unsure` |
| `StatusPages` | status gateway and SSE stream | versions of an intent, rooms, pushes, polls |
| `MCPaymentLifecycle`, `MCPayouts`, `MCRefunds`, `MCProviderAccess`, `MCMerchantServices` | instances for TLC | below |
| `Selections` | `Array.prototype.filter` | the elements of a sequence that are kept, in their order; used by routing, settlements, monitoring and dashboards |
| `PaymentLifecycleProofs`, `PayoutProofs`, `RefundProofs`, `ParallelTspProofs`, `ProviderAccessProofs`, `NotificationProofs`, `MerchantProofs`, `DataTheorems` | the theorems | section 5 |

**Slots.** A request or webhook in flight occupies a *slot*: `op[s]` is a record of the next step (`at`) and of the data
the handler carries in local variables across its awaits. What the code does between two awaits is one action. Two
slots give every interleaving of two handlers. A dying process or an unguarded exception empties the slot (`Abort`),
leaving what was already written.

**PaymentLifecycle.** `intent`, `txn` and `renamed` are columns (status, status, and whether `externalTransactionId` has
been replaced by Kingdom Bank's own id); `expired`, `tsp` and `intentOf` are the surroundings: time and the provider's
side of a payment; `saves`, `credits` and `notices` record history for the properties. A webhook of an accepted report
runs `claim` (Kingdom Bank), `load`, `save`, `intent`, `finalize`, `credit`, `notify`, `own`, `deliver`: the statements
of `processPaymentWebhook` and, inside it, `updateTransactionStatus` in order. Reports a handler answers with
`not_found` or `unchanged` are `HookIgnored`. Three facts about the database are part of the model because they decide
behaviour: the enum column `responseType` refuses five of the response types, so those saves throw; saving an intent
with a loaded list of transactions that lacks a newer row fails; `save` of a loaded row writes back columns it did not
mean to change. `processPayment` inserts a row without mandatory columns, so only its error path is reachable.

**Payouts.** `row` and `linked` are columns (status, and whether the reserve's id is stored), `block` is the wallet's
reserve, `tsp` the provider's side, `retryOf` which payout a payout retries, `told` what the merchant heard. A
creation runs `funds`, `open`, `insert`, `block`, `link` (or `refused`); a poll `ask`, `save`; a webhook `status`,
`wallet`, `tell`, or on the generic route `wallet`, `status`, `tell`. Every payout is one unit of the balance. The
wallet refuses an id it did not issue and a reserve already settled. Whether its ids happen to be `block_<payoutId>`,
the id the handlers fall back to, is not decided in this repository and is the constant `WalletNamesBlocks`; the
theorems hold either way.

**Refunds.** Every refund is for the whole of one payment of one unit; a refund *is* its request id, since the column is
unique. An operation carries the entity as it read it (`ent`: status, whether the block is linked, whether an amount is
blocked), and every `save(refund)` writes all three back, whatever has happened to the row meanwhile. A creation runs
`sum`, `insert`, `block`, `link`, and, if it does not need approval, goes on into `processWithTSP` (`adapter`, `ask`,
`keep` or `fail`, and the wallet's `release`, `giveback`, ...). The hourly job reads the expired refunds once (`list`)
and takes them one by one, each with the entity read at the start; an error of one does not stop the next. Batches go
through the same steps. A webhook runs `report`, `debit`, `debited`, `txn`. `asked`, `done` and `refused` count what the
provider was asked, carried out and turned down; `IdsEchoed` says whether it sends our id back, which the repository
does not decide.

**The parts around them.** `MCProviderAccess` and `MCMerchantServices` each hold several parts that share no state in the
code. Their product would only multiply the parts with each other, so a behaviour is one of a single part: the variable
`focus` is chosen at the start and the other parts stand still. This is the union of the parts' behaviours, and each
part keeps its own concurrency.

**The surroundings.** A provider decides a payment, payout or refund once. Its webhooks may be repeated, lost and
late, up to `MaxDeliveries`; a late report tells an earlier state. It never says paid of a payment that is not.
Signatures are taken as verified. The wallet settles a block once.

## 3. What is checked

The bounds are the instances below and the counters named with them; nothing else is bounded. Two slots (requests, runs,
editors, screeners) are enough for every race between two handlers, and no handler of this code looks at more than one
other; two payments, payouts or refunds are enough for interference through a shared intent, balance or payment. Slots
are interchangeable, and runs without liveness use that symmetry. Deadlock is not checked: with deliveries bounded and
payments used up, the system may stop.

| Run | Instance | Shows |
|---|---|---|
| `payment_interleavings` | one intent, two payments (Kingdom Bank, Payaza), two slots, all requests, late reports, faults | `TypeOK`; `SucceededNeedsPayment`: three writers of the intent status never say succeeded without money; `ProcessingHasPayment`: an intent closed to confirmation has a payment that can decide it; `CreditBacked`: no more credits than saves as success; `CreditNeedsPayment`; `SuccessNoticeBacked` |
| `payment_settles` | Kingdom Bank, two deliveries, two slots, all requests, fair, no faults | `EverySaveSettles`: no success is lost between row and wallet; `SuccessIsCredited`: credited and announced in the end |
| `payment_serial` | Sulifu Pay, one slot, all requests, reports in order, up to three times | `CreditedAtMostOnce`; `QuiescentAgreement` of row, wallet and merchant, and of the intent unless it expired and was viewed or processed, or was processed again |
| `payout_interleavings` | Payaza and Paytara payouts on a balance for one, two slots, polls, faults | `ImplementsLedger`: the refinement; `CompletedIsPaid` |
| `payout_serial` | three payouts (Payaza, Paytara, Sulifu Pay) on a balance for two, one request at a time, retries, two deliveries | `OpenIsReserved`, `BooksAgree` between status and reserve, `RetriedNotPaidTwice` |
| `payout_settles` | one payout, polls racing webhooks, fair | `LinkedReportSettles`: a report read with the reserve's id settles it |
| `refund_interleavings` | one refund, two operations at once, a balance of one, the provider asked up to twice, two deliveries, early reports, faults | `CompletedIsDone`: completed, announced and booked only when carried out; `ImplementsLedger` |
| `refund_serial` | two refunds of one payment, one operation at a time, two deliveries, fair, no faults | `BooksAgree` of row, block and provider; `NoRefundAfterCompleted`; `ExpiredIsDecided` by the hourly job |
| `provider_access` | the seven parts below | nine properties |
| `merchant_services` | the seven parts below | seven properties |

`provider_access`, part by part:

- *Parallel calls* (two payments, three providers of which one has no adapter, `MaxParallel` 1 so that the fallback
  is reached, thresholds 1, two requests per breaker): `BreakersCountRight`, `OpenedOnceByFallback`.
- *Configurations* (two rows of one provider, two environments, two editors, so that an edit moves a row while an
  adapter is made of it, and restarts): `AdapterOfItsEnvironment`. The adapter is kept under the key of the request,
  the row comes from the query; the property says that the two belong together and that the row was active since the
  process started.
- *Cache* (two processes, three units of life in Redis and two in memory, two values): `NothingReadTooLate`. Two
  processes are needed: the copy that is too old is the one the other process promoted.
- *Routing* (two providers, one key, two requests, decisions that live two units): `RoutesAreSound`: a provider
  switched off is chosen only as long as a cached decision lives, no candidate is listed twice, and of two equals the
  cheaper comes first.
- *Adapters, instructions*: every word, form, coin and account field, each once, countries of two and of three letters,
  the methods `fiat`, `crypto` and one of the customer's own: `AnswersAgree`, `InstructionsArrive`.
- *Customers* (two resolutions of one email, three retries): `DuplicatesExcused`; and with the parallel calls
  `EveryoneIsAnswered`: every payment and every resolution comes to an end.

`merchant_services`, part by part:

- *Fraud* (one customer, two screenings, four typical payments): `DeclinedForGood`.
- *Settlements* (two requests, which may be for one settlement, on four balances of at most one unit, three chains, five
  words): `SettlementsAreSound`.
- *Dashboards* (two merchants whose ids `parseInt` reads as one, three rows, pages of one): `FiguresHold`: a listing
  that is not disturbed is complete, a summary adds up over what it counted. Its queries are separate and rows change
  between them; rows saved together share their time, and the database answers them in any order. A reading of which
  nothing is said any more, because a row changed under it, is not followed on (`Outdated`, a bound of the instance).
- *Batches* (one batch, two confirmations, three rows out of nine kinds): `BatchesAreCovered`.
- *Monitoring* (two sweeps over a provider with two configurations): `MetricsAreSingle`.
- *Announcements* (two at once, a broker that fails, finalizations cut short): `AudiencesHear`: topic, merchant and
  dashboard, where nothing failed to reach them, each know the end of the payment as far as its handling got;
  customers are left out, and a credit that fails leaves the dashboard behind the topic (section 4).
- *Pages* (one page, two handlers, four writes): `PagesFollow`.

The last two runs name one property for each part. Each is the conjunction of a few named statements, at the end of the
part's module with a comment of their own; a counterexample names the state, and the conjunct is found by evaluating
them. The serial runs matter as much as the concurrent ones: they show which agreements hold when handlers do not overlap
and nothing fails, for the providers and kinds of request they name, and so which failures of section 4 come of the
overlap and which do not: an intent that is cancelled after its payment, or a refund made twice, needs no overlap.

**Fairness.** `FairSpec` adds weak fairness of `Advance(s)` for each slot: Node's event loop resumes every handler whose
awaited call has returned, and the fair runs have no faults, so calls return. Refunds add strong fairness of the hourly
job's reading: the job runs again and again, and although each request that takes the only slot disables it for a while,
it finds its turn. `CallsFairness` says that timers fire and that the processor goes on once its calls have ended, and
`CustomersFairness` that every call of the merchant service is answered or times out, both of which the code arranges
itself. Nothing is assumed of clients, providers or deliveries.

**Disagreements between the code and what it says**, each the violation of one property in a run of its own
(`PROJECT.json` quotes the lines):

- `finding_report_dropped`: Kingdom Bank's pending report renames the row the next report is looked up by.
- `finding_bank_payout_lost`: Kingdom Bank's payout reports are never matched, because the id cut out of the foreign id
  keeps the timestamp.

## 4. Where the positive results stop

Most properties of the serial runs fail once handlers overlap or calls fail. Some stronger statements are defined in the
modules though no run checks them; TLC finds each violated when it is added to the configuration named:

- `FinalStatusStable` (a property, in `payment_settles`): a late pending report moves a final row back, since
  `updateTransactionStatus` assigns whatever it is told (`payment-transaction.service.ts:393`), and a repeated success
  is then credited again.
- `OneOpenPayment` (`payment_interleavings`): two confirmations that both read `requires_payment_method`
  (`payment-intent.service.ts:396`) open two payments of one intent.
- `RefundReportNotCredited` (`payment_interleavings`): Payaza's words for returned money carry the code of success and
  reach the credit (`payaza-webhook.handler.ts:540`).
- `PayoutsCovered` (`payout_interleavings`): concurrent creations open payouts beyond the balance
  (`payout.service.ts:106`).
- `RefundedOnce` (`refund_serial`): two refunds of the whole payment can both be filed and carried out, one after the
  other as well, because the refundable amount counts completed refunds only (`refund.service.ts:247`).
- `CompletedNeverCanceled` (a property, in `payment_serial`): 'Cannot cancel a completed payment' is false with one
  request at a time. A view of an expired intent cancels it whatever its status (`payment-intent.service.ts:1836`),
  and so does its processing (`:667`); with two slots `cancelPaymentIntent` itself saves `canceled` over a `succeeded`
  written after its status check (`:1219`, `:1233`). That is why `QuiescentAgreement` names these intents.

`RetriedNotPaidTwice` fails with faults and polls: the adapters turn a network error of `verifyPayment` into the
answer `failed` (`payaza.adapter.ts:271`), `getPayoutStatus` stores it, the payout is retried, and the provider pays
both. `OpenIsReserved` and `BooksAgree` fail when two creations share the last unit of the balance. `EverySaveSettles`
needs the absence of faults: a crash after the save loses the credit, since a repeated report is then answered
`unchanged`.

`ImplementsLedger` speaks of the wallet. It says nothing of payouts a provider pays without any reserve, because the
answer was lost or the reserve refused, nor of blocks that are never released: a refund whose creation throws after the
block is saved as failed with the block in place (`refund.service.ts:308`), and a crash while the provider is asked
leaves the refund in `PROCESSING` for ever.

What the parts of the last two runs do that a reader may not expect, and that their properties leave room for:

- *Settlements.* Kingdom Bank's `TIMEOUT` is told to the wallet as `FAILED` (`settlement-webhook.service.ts:286`),
  although the transfer may be made; `ToldIsSo` excepts it. A transfer the provider declines is answered as success,
  in `PROCESSING`. Nothing is kept of a request, so that one for a settlement made before transfers again.
- *Listings.* Only `createdAt` orders the rows (`payout.service.ts:1236`, `batch-payout.service.ts:420`), and payouts
  of a batch are saved together: rows of one instant may be on two pages or on none, even while nothing changes.
- *Summaries.* `successfulTransactions` is a percentage (`payment-transaction.service.ts:1279`). The queries for
  success, failure and pending ask for `parseInt(merchantId)` (lines 1073, 1085, 1106) and the total for the id as it
  is, so that the figures of a merchant whose id is no plain number are those of two. The payouts' figures for the
  previous period are computed over all rows, since `where` on a cloned query replaces the dates
  (`payout.service.ts:1471`); the failure rate of a transaction summary without rows is no number
  (`payment-transaction.service.ts:1283`).
- *Fraud.* A stored score of 0 counts as 50; `isBlacklisted` is never read; a history or velocity that cannot be read is
  scored as none (`fraud-management.service.ts:497`, `:527`).
- *Routing.* The key of the decision cache has neither country nor environment: both kinds of request share a decision.
  Adapters are kept until the process ends: nothing calls `clearCache`.
- *Monitoring.* The rate counts payments in status `completed`, a word the column does not have
  (`performance-monitoring.service.ts:346`).
- *Pages.* The stream ends on `cancelled`, the row says `canceled` (`payment-status-sse.controller.ts:72`), so such a
  stream goes on until the page leaves.
- *Announcements.* `shouldUpdatePaymentIntent` never yields `failed`, so the branch "Create alerts for failed payments"
  (`payment-transaction.service.ts:788`) is dead, and the customer is mailed `payment_success` of a decline (line 761). A
  credit the wallet refuses throws (line 678) and is caught behind the notices (line 709): the topic has said
  `payment.succeeded`, dashboard and customer hear nothing of it and keep what they heard before.
- *Adapters.* What `refundPayment` answers as `refunded` the provider has only accepted (`payaza.adapter.ts:382`,
  `kingdom-bank.adapter.ts:336`, `stripe.adapter.ts:198`), and a lost answer is answered `failed`: of the first
  `AnswersAgree` says no more than that, of the second nothing.
- *Instructions.* Kingdom Bank's table of countries answers `IND` for any it does not list (`kingdom-bank.adapter.ts`,
  `mapCountryCode`). A country of three letters, which `payout.service.ts:622` lets pass, misses the branches for
  India, Canada and Europe, so that neither IFSC nor BIC is asked for; a coin charged under a method other than `fiat`
  and `crypto` goes out unmapped. Payouts may be refused though filled in as asked: the UPI form has no IFSC, the
  international one no routing number, and `USDT` is too long for the currency of the DTO.
- *Batches.* Duplicates are recognised by the amount as written, so "100" and "100.00" differ; `processPayouts` does
  nothing yet (`batch-payout.service.ts:542`).

## 5. What is proved

For all values of the constants, under the named assumptions on them in the modules (finite sets of payouts, slots,
confirmers, sweeps and resolutions, bounds in `Nat`, pages of at least one row, a provider for every payment, chains and
configuration rows that are sequences), TLAPS checks a theorem for **every safety property and every action property of
every passing run**, and both refinements. The properties are seldom inductive: they say what is true of the rows,
not why the handler about to write one may do so. Each proof therefore rests on an invariant about what every handler has
read and may still write; its preservation is one lemma per action.

`PaymentLifecycleProofs`
- `TypeCorrect`, `CreditsAreForReceivedMoney`, `SucceededIsPaid`, `ProcessingIsOpened`, `SuccessNoticesAreBacked`,
  `CreditsAreBacked`, `SavesAreSettled`: the type invariant, `CreditNeedsPayment`, `SucceededNeedsPayment`,
  `ProcessingHasPayment`, `SuccessNoticeBacked`, `CreditBacked` and `EverySaveSettles` of every behaviour of `Spec`.
  So every safety property of the concurrent payment runs is proved, for any number of slots and deliveries.
- The strengthening `IInv` carries the knowledge of each slot (`OpOK`): a handler past `load` carries a code of the
  table, one past `save` with a success has left a mark in `saves`, one at `credit` has a success, its payment belongs
  to its intent, and the provider has really said so, which stays true since a received payment is never un-received.
  The lemmas about `ResponseCodes` and `ProviderReports` are where the four tables meet: a code of type SUCCESS can
  only come from a word for paid or for returned.
- `CountOK` is the part that counts: credits asked for, plus the handlers on their way to the wallet (a cardinality), do
  not exceed the saves as success, and equal them without faults. `CountMoved` reduces a step of one slot to the
  change of that slot's share.
- `CreditedOnce` (`CreditedAtMostOnce`) has hypotheses, and each is needed: one slot, no faults, reports of the
  provider's present state (`Alone`), and no payment of Payaza (`NoChargebacks`), whose words for returned money are
  saved as a success and would be credited again. `OnceOK` says that an operation which may still save a success is
  about a payment that has none.
- `RecordsAgree` (`QuiescentAgreement`) holds under `Serial`: Sulifu Pay alone, one slot, every kind of request. The
  invariant says what the one handler still owes: `SettledOK`, a row saved as a success has its intent and its notice, or
  the handler is on its way there; `OnePaymentOK`, an intent has one payment unless it was processed again; `UntriedOK`,
  an intent open to confirmation has none, with the same exception; `PlansOK`, what the operation in flight read is
  still so. Two Kingdom Bank payments of one intent
  break the agreement even one after the other, so the theorem does not extend to them as it stands.

`PayoutProofs`
- `TypeCorrect` and `CompletedPayoutsArePaid` (`CompletedIsPaid`).
- `LedgerIsKept`: `Spec => ImplementsLedger`. The mapping takes the provider's word to the outcome (cancelled and failed
  are both unpaid), the wallet's reserve to the hold, and the balance less the reserves held, a cardinality, to the
  available amount. Each step is shown to be a step of the ledger or a stutter; the counting steps rest on lemmas about
  adding one element to and removing one from a finite set. It needs of the invariant that a report in flight is true
  of the provider's state (`OpsOK`), that a creation in flight owns its payout (`CreatorsOK`: two creations never block
  the same one), and that a row exists only for an opened payout (`OpenedOK`).
- `OpenPayoutsAreReserved` (`OpenIsReserved`), `PayoutBooksAgree` (`BooksAgree`) and `RetriesPayOnce`
  (`RetriedNotPaidTwice`) under `Serial`: one slot, no faults, no polls, for any payouts, providers and balance.
  `ProgressOK` says how far the one operation has come: the balance it found is still there, the payout it retries
  stays unpaid, and status and wallet agree in the order its route writes them; `CreatedOK`, that a creation leaves
  row, link and reserve.

`RefundProofs`
- `TypeCorrect`, `CompletedRefundsAreDone` (`CompletedIsDone`) and `LedgerIsKept` (`ImplementsLedger`). Since operations
  save back the whole entity they read, the invariant is about what every operation has read and may still write: an
  operation that will write completed, debit, or book the refund on the transaction does so for a refund carried
  out (`Knows`), and what is carried out stays so.
- `RefundBooksAgree` (`BooksAgree`) and `NoneAfterCompleted` (the action property `NoRefundAfterCompleted`) under
  `Serial`: one slot, no faults, reports that are final. `AgreesOK` relates row, block and provider of every refund
  nobody works on; `HandsOK` says for each stage what the operation in progress holds instead, including what the
  hourly job has listed and not yet come to; `OnceOK`, that a refund is with the provider once.

`ParallelTspProofs`
- `BreakersCount` (`BreakersCountRight`): every payment that waits for a provider is a request of its breaker that has
  not failed yet, so failures and waiting payments together do not exceed the requests; for any thresholds and orders.
- `FallbackOpensOnce` (`OpenedOnceByFallback`): while no call was given up, the record of a payment says who has
  opened it.

`ProviderAccessProofs`
- `AdaptersFit` (`AdapterOfItsEnvironment`): what a request for an adapter carries across its await is a row that was
  active for the pair in its key (`EditsOK`), and stays on record as such (`ActiveOnRecord`), however the table has
  changed since.
- `ReadsAreYoung` (`NothingReadTooLate`): each copy's age and remaining life add up to no more than the lives of the
  tiers it has passed through.
- `DuplicatesHaveCauses` (`DuplicatesExcused`): causes are counted long before the duplicate exists; the invariant
  counts the resolutions that will surely create as well, and those still looking while the email has no customer.
- `RoutesAreAlwaysSound` (`RoutesAreSound`): what a request computes with is listed and there (`ListedAreHere`), and
  the age of a decision in the cache bounds how long each of its providers can have been gone (`KeptAreYoung`). That
  no candidate is listed twice and the cheaper of two equals leads comes from lemmas about ranking any set of
  providers.
- `AnswersAlwaysAgree` (`AnswersAgree`): an order remembers having been paid and having come back, by a refund
  carried out as well (`OrderRemembers`), and the
  last poll was answered with what the adapter makes of a word (`PollIsOfOrder`). The tables enter through lemmas about
  any word, the ones a table does not list included.
- `InstructionsAlwaysArrive` (`InstructionsArrive`): that a transfer which passes validation is addressed to the
  account it names is proved for every country, currency and set of filled fields, that coins charged by fiat or
  crypto are collected as coins for every currency; the rest is a split over the forms there are.

`NotificationProofs`
- `PagesFollowTheIntent` (`PagesFollow`, an invariant and an action property): a page has at most one query, which has
  read nothing or what is no older than what it was told; what was pushed has been written.
- `AudiencesAlwaysHear` (`AudiencesHear`): what is left to tell an audience ends in the right word, and an audience
  nothing is left for has heard it (`RightWords`), the board's being that of the last report finalized to its end;
  nobody notifies before the first test of the link is over (`FirstCheckAwaited`).

`MerchantProofs`
- `BatchesAreAlwaysCovered` (`BatchesAreCovered`): what is blocked covers the payouts filed, those a confirmation past
  its block is about to file, and the fees of every block (`CoveredOK`); every block but one, the ones about to be
  made included, has a cause, a confirmation that overlapped or broke off (`BlocksOK`).
- `DeclinedCustomersStayDeclined` (`DeclinedForGood`): everything that still knows the score of a customer declined by an
  undisturbed analysis, the stored score, the cached profile and the analyses in progress, knows a high one
  (`DeclinedAreHigh`).
- `SettlementsAreAlwaysSound` (`SettlementsAreSound`): the provider chosen is the first of the chain whose listed balance
  covers the amount, and what was listed is still there unless another took it (`ChoicesRight`); nothing is reported
  before the transfer, and all the wallet is told was reported (`ReportsRight`).
- `MetricsStaySingle` (`MetricsAreSingle`): the rows of a provider and the sweeps about to insert one are one together
  until two sweeps raced (`RowsAllowed`, a cardinality), and a row that was found is still there (`FoundIsThere`).
- `FiguresAlwaysHold` (`FiguresHold`): the rows a listing was asked for and has not shown are still ahead of it
  (`Ahead`), an ascending one has shown the first rows there are (`FirstShown`), where no two rows share their time;
  and the figures read so far are those of the table until it changes (`FiguresCurrent`). It needs what sorting and
  filtering make of a table that has grown by one row.

`DataTheorems` holds what those proofs need of sums and filters: that a sum over a set splits at any element, that the
total of two sequences joined is the sum of their totals, what filtering keeps and in which order. The library states
induction with an operator as a parameter, which the installed provers cannot instantiate; here it is stated over a *set*
of numbers that holds 0 and with every number the next (`SetInduction`, from the well-foundedness of `<` on `Nat`), and a
recursive definition is reached through the table of its values.

Only model-checked: the four properties that need fairness, `SuccessIsCredited`, `LinkedReportSettles`,
`ExpiredIsDecided` and `EveryoneIsAnswered`, which are outside the prover's reach. The two findings of section 3 and
the failures of section 4 are counterexamples of TLC on the instances named there. The hypotheses `Alone` and `Serial`
are satisfied by the runs `payment_serial`, `payout_serial` and `refund_serial`, which check the same properties;
section 4 says what breaks each property once a hypothesis is dropped.

## 6. What could come next

- The agreement of the records for Kingdom Bank and Payaza, from the assumption of at most one payment per intent.
- The generic payment route as a further handler of `PaymentLifecycle`, once it can write at all (section 7).
- The analytics of payment methods, which no other part reads.

## 7. Not modelled

- *The generic payment webhooks* (`webhooks/webhook.service.ts`, Paytara, Razorpay, Stripe, PayU): the row is loaded
  with the relation `paymentIntent`, the entity calls it `intent`, so the query throws before anything is written.
- *Operations nothing reaches or that change nothing:* `processExpiredTransactions` compares for equality with the
  present moment and selects nothing; `handlePayoutWebhook` and `finalizePaymentIntentFromTransaction` of the intent
  service, which nothing calls, like `cleanupExpiredPaymentIntents` and `forceState` of the breaker.
- *Two more ways to file a row:* `createTransactionForMerchant`, which files a row at Razorpay under its own id without
  opening a payment anywhere, so that only the generic route could ever report on it; and `createManualPayment`, which
  files a transfer made by hand as a payout in `processing`, without a reserve, that no later operation matches.
- *Adapters of providers that are not in use* (Airpay, CredoPay, PayU clients and the retry of the base adapter); the
  constants bank metrics are filled with.
- *Plumbing:* HTTP, gRPC and Kafka transport, controllers, guards, signatures, encryption, logging, validation of
  request shapes, entities and migrations, health checks.
- *Amounts and currencies* other than units, except where a property is about them (fees of batches, scores, forms).

`PROJECT.json` lists every component with its status.
