-------------------------- MODULE PaymentLifecycle --------------------------
(***************************************************************************)
(* A payment from intent to merchant credit: payment-intent.service.ts,    *)
(* payment-transaction.service.ts and the three payment webhook handlers.  *)
(*                                                                         *)
(* Every request or webhook runs in a slot.  The code holds no lock and no *)
(* database transaction across an await, so whatever lies between two      *)
(* awaits is one action and any other slot may run in between.  A payment  *)
(* is one createPayment call accepted by a provider: tsp is the provider's *)
(* side of it, txn our payment_transactions row about it.                  *)
(***************************************************************************)
EXTENDS ProviderReports, Naturals, FiniteSets

CONSTANTS Intents,        \* payment intents
          Payments,       \* payments the providers may open for us
          Slots,          \* requests and webhooks in flight at once
          ProviderOf,     \* the provider that opens each payment
          MaxDeliveries,  \* bound: webhooks delivered for one payment
          Kinds,          \* the requests clients make in this instance
          FreshReports,   \* TRUE: a webhook tells the provider's state at its arrival
          Faults          \* TRUE: processes die, database and wallet calls fail

ASSUME ProviderAssumption == ProviderOf \in [Payments -> Providers]
ASSUME BoundAssumption    == MaxDeliveries \in Nat
ASSUME SlotAssumption     == IsFiniteSet(Slots)
ASSUME FlagAssumption     == FreshReports \in BOOLEAN /\ Faults \in BOOLEAN

VARIABLES
  intent,     \* intent[i]: status column of payment_intents, "none" before the row exists
  expired,    \* the intents whose expiresAt has passed
  txn,        \* txn[p]: status column of payment_transactions, "none" before the row exists
  renamed,    \* rows whose externalTransactionId is Kingdom Bank's own id
  tsp,        \* tsp[p]: "none", "open", "paid", "returned" at the provider
  intentOf,   \* intentOf[p]: the intent p was opened for, "none" before
  op,         \* op[s]: what slot s is in the middle of
  delivered,  \* delivered[p]: webhooks received for p
  saves,      \* history: saves[p] counts the row's saves as "success"
  credits,    \* history: credits[p] counts the wallet credits asked for p
  notices,    \* history: notices[p] is what merchant and customer were told of p
  reprocessed \* history, without faults only: the intents processPayment was asked for after a payment
              \* was opened for them

rows   == <<intent, txn, renamed>>
world  == <<expired, tsp, intentOf, delivered>>
record == <<saves, credits, notices, reprocessed>>
vars   == <<intent, expired, txn, renamed, tsp, intentOf, op, delivered, saves, credits, notices,
            reprocessed>>

AllKinds == {"confirm", "cancel", "view", "intelligence", "process"}
ASSUME KindAssumption == Kinds \subseteq AllKinds

Notices == {"payment.success", "payment.pending", "payment.failed",
            "mail.payment_success", "alert.payment_failure"}

NoReport == Report("none", "none", "none")

\* An operation in flight: the next step, its intent, payment and report, the rows
\* of the intent it loaded (cancel), and whether the row it loaded still bore our id.
Stages == {"tsp", "processing", "insert", "cancel", "view", "intelligence", "abandon",
           "error", "claim", "load", "save", "intent", "finalize", "credit", "notify",
           "own", "deliver"}
Idle == [at |-> "idle", i |-> "none", p |-> "none", r |-> NoReport, seen |-> {}, ours |-> TRUE]
Begin(s, at, i)  == op' = [op EXCEPT ![s] = [Idle EXCEPT !.at = at, !.i = i]]
Goto(s, at)      == op' = [op EXCEPT ![s].at = at]
End(s)           == op' = [op EXCEPT ![s] = Idle]

Operations == [at : Stages \cup {"idle"}, i : Intents \cup {"none"},
               p : Payments \cup {"none"}, r : Reports \cup {NoReport},
               seen : SUBSET Payments, ours : BOOLEAN]

RowsOf(i) == {p \in Payments : intentOf[p] = i /\ txn[p] # "none"}

TypeOK ==
  /\ intent \in [Intents -> IntentStatuses \cup {"none"}]
  /\ expired \subseteq Intents
  /\ txn \in [Payments -> RowStatuses \cup {"none"}]
  /\ renamed \subseteq Payments
  /\ tsp \in [Payments -> {"none", "open", "paid", "returned"}]
  /\ intentOf \in [Payments -> Intents \cup {"none"}]
  /\ op \in [Slots -> Operations]
  /\ delivered \in [Payments -> Nat]
  /\ saves \in [Payments -> Nat]
  /\ credits \in [Payments -> Nat]
  /\ notices \in [Payments -> SUBSET Notices]
  /\ reprocessed \subseteq Intents

Init ==
  /\ intent = [i \in Intents |-> "none"]
  /\ expired = {}
  /\ txn = [p \in Payments |-> "none"]
  /\ renamed = {}
  /\ tsp = [p \in Payments |-> "none"]
  /\ intentOf = [p \in Payments |-> "none"]
  /\ op = [s \in Slots |-> Idle]
  /\ delivered = [p \in Payments |-> 0]
  /\ saves = [p \in Payments |-> 0]
  /\ credits = [p \in Payments |-> 0]
  /\ notices = [p \in Payments |-> {}]
  /\ reprocessed = {}

----------------------------------------------------------------------------
(* The surroundings: time, the customer and the provider. *)

CreateIntent(i) ==
  /\ intent[i] = "none"
  /\ intent' = [intent EXCEPT ![i] = "requires_payment_method"]
  /\ UNCHANGED <<txn, renamed, world, op, record>>

Expire(i) ==
  /\ intent[i] # "none" /\ i \notin expired
  /\ expired' = expired \cup {i}
  /\ UNCHANGED <<rows, tsp, intentOf, delivered, op, record>>

Pay(p) ==
  /\ tsp[p] = "open"
  /\ tsp' = [tsp EXCEPT ![p] = "paid"]
  /\ UNCHANGED <<rows, expired, intentOf, delivered, op, record>>

Return(p) ==
  /\ tsp[p] = "paid"
  /\ tsp' = [tsp EXCEPT ![p] = "returned"]
  /\ UNCHANGED <<rows, expired, intentOf, delivered, op, record>>

----------------------------------------------------------------------------
(* confirmPaymentWithTSP: read the intent, open a payment, mark the intent,
   insert the row.  The guard is evaluated on the first read only. *)

\* Variant: the intent is marked before the provider has accepted the payment.
ConfirmReadAndMark(s, i) ==
  /\ "confirm" \in Kinds /\ op[s] = Idle
  /\ intent[i] = "requires_payment_method" /\ i \notin expired
  /\ intent' = [intent EXCEPT ![i] = "processing"]
  /\ Begin(s, "tsp", i)
  /\ UNCHANGED <<txn, renamed, world, record>>

ConfirmRead(s, i) ==
  /\ "confirm" \in Kinds /\ op[s] = Idle
  /\ intent[i] = "requires_payment_method" /\ i \notin expired
  /\ Begin(s, "tsp", i)
  /\ UNCHANGED <<rows, world, record>>

ConfirmOpen(s, p) ==
  /\ op[s].at = "tsp" /\ tsp[p] = "none"
  /\ tsp' = [tsp EXCEPT ![p] = "open"]
  /\ intentOf' = [intentOf EXCEPT ![p] = op[s].i]
  /\ op' = [op EXCEPT ![s] = [@ EXCEPT !.at = "processing", !.p = p]]
  /\ UNCHANGED <<rows, expired, delivered, record>>

ConfirmDeclined(s) ==
  /\ op[s].at = "tsp"
  /\ End(s)
  /\ UNCHANGED <<rows, world, record>>

ConfirmProcessing(s) ==
  /\ op[s].at = "processing"
  /\ intent' = [intent EXCEPT ![op[s].i] = "processing"]
  /\ Goto(s, "insert")
  /\ UNCHANGED <<txn, renamed, world, record>>

ConfirmInsert(s) ==
  /\ op[s].at = "insert"
  /\ txn' = [txn EXCEPT ![op[s].p] = "initiated"]
  /\ End(s)
  /\ UNCHANGED <<intent, renamed, world, record>>

----------------------------------------------------------------------------
(* cancelPaymentIntent saves the intent it read together with the list of its
   transactions; saving a list that lacks a row inserted meanwhile would null that
   row's not-null intent column, so the database refuses it. *)

\* Variant: the status check of the cancellation forgets the completed payments.
CancelReadUnchecked(s, i) ==
  /\ "cancel" \in Kinds /\ op[s] = Idle
  /\ intent[i] \notin {"none", "canceled"}
  /\ op' = [op EXCEPT ![s] = [Idle EXCEPT !.at = "cancel", !.i = i, !.seen = RowsOf(i)]]
  /\ UNCHANGED <<rows, world, record>>

CancelRead(s, i) ==
  /\ "cancel" \in Kinds /\ op[s] = Idle
  /\ intent[i] \notin {"none", "succeeded", "canceled"}
  /\ op' = [op EXCEPT ![s] = [Idle EXCEPT !.at = "cancel", !.i = i, !.seen = RowsOf(i)]]
  /\ UNCHANGED <<rows, world, record>>

CancelSave(s) ==
  /\ op[s].at = "cancel"
  /\ intent' = IF RowsOf(op[s].i) = op[s].seen
                 THEN [intent EXCEPT ![op[s].i] = "canceled"] ELSE intent
  /\ End(s)
  /\ UNCHANGED <<txn, renamed, world, record>>

(* getPublicPaymentIntentDetails cancels an intent it finds expired, whatever else
   the intent may be. *)

ViewRead(s, i) ==
  /\ "view" \in Kinds /\ op[s] = Idle
  /\ i \in expired /\ intent[i] # "canceled"
  /\ Begin(s, "view", i)
  /\ UNCHANGED <<rows, world, record>>

ViewSave(s) ==
  /\ op[s].at = "view"
  /\ intent' = [intent EXCEPT ![op[s].i] = "canceled"]
  /\ End(s)
  /\ UNCHANGED <<txn, renamed, world, record>>

(* updatePaymentIntentWithCustomerIntelligence: customer resolution and routing run
   between the read and the save, and the save spreads the row as it was read.  The
   guard also admits requires_confirmation, a status that no code writes. *)

\* Variant: the customer data is saved whatever the status.
IntelligenceReadUnchecked(s, i) ==
  /\ "intelligence" \in Kinds /\ op[s] = Idle
  /\ intent[i] # "none" /\ i \notin expired
  /\ Begin(s, "intelligence", i)
  /\ UNCHANGED <<rows, world, record>>

IntelligenceRead(s, i) ==
  /\ "intelligence" \in Kinds /\ op[s] = Idle
  /\ intent[i] = "requires_payment_method" /\ i \notin expired
  /\ Begin(s, "intelligence", i)
  /\ UNCHANGED <<rows, world, record>>

IntelligenceSave(s) ==
  /\ op[s].at = "intelligence"
  /\ intent' = [intent EXCEPT ![op[s].i] = "requires_payment_method"]
  /\ End(s)
  /\ UNCHANGED <<txn, renamed, world, record>>

(* processPayment: an expired intent is abandoned; otherwise the row it inserts lacks
   mandatory columns, so the insert throws and the catch block resets the intent. *)

ProcessRead(s, i) ==
  /\ "process" \in Kinds /\ op[s] = Idle
  /\ intent[i] # "none"
  /\ Begin(s, IF i \in expired THEN "abandon" ELSE "error", i)
  /\ reprocessed' = IF ~Faults /\ \E p \in Payments : intentOf[p] = i
                      THEN reprocessed \cup {i} ELSE reprocessed
  /\ UNCHANGED <<rows, world, saves, credits, notices>>

ProcessAbandon(s) ==
  /\ op[s].at = "abandon"
  /\ intent' = [intent EXCEPT ![op[s].i] = "canceled"]
  /\ End(s)
  /\ UNCHANGED <<txn, renamed, world, record>>

ProcessError(s) ==
  /\ op[s].at = "error"
  /\ \E status \in {IntentStatusFor(code) : code \in ErrorCodes} :
       intent' = [intent EXCEPT ![op[s].i] = status]
  /\ End(s)
  /\ UNCHANGED <<txn, renamed, world, record>>

----------------------------------------------------------------------------
(* Webhooks.  The handler looks the row up by the provider's reference, compares
   its status with the reported one, and only then starts to write. *)

\* What the provider may send about p now.  Its paid and returned words are always
\* true; a word about an open payment may arrive late unless FreshReports.
Tellable(p, r) ==
  /\ r.from = ProviderOf[p] /\ tsp[p] # "none" /\ delivered[p] < MaxDeliveries
  /\ SaysReturned(r) => tsp[p] = "returned"
  /\ SaysPaid(r) => tsp[p] \in {"paid", "returned"}
  /\ FreshReports => /\ SaysPaid(r) <=> tsp[p] = "paid"
                     /\ SaysReturned(r) <=> tsp[p] = "returned"

\* Variant: no comparison of the reported status with the stored one.
AcceptsAll(p, r) == txn[p] # "none"

\* Kingdom Bank is looked up by our id, which the first accepted report may replace.
Found(p, r)   == txn[p] # "none" /\ (r.from = "kingdom_bank" => p \notin renamed)
Accepts(p, r) == Found(p, r) /\ txn[p] # NewStatus(r)
Receive(p)    == delivered' = [delivered EXCEPT ![p] = @ + 1]
Tell(p, what) == notices' = [notices EXCEPT ![p] = @ \cup what]

\* not_found and unchanged are answered like any processed webhook.
HookIgnored(p, r) ==
  /\ Tellable(p, r) /\ ~Accepts(p, r)
  /\ Receive(p)
  /\ UNCHANGED <<rows, expired, tsp, intentOf, op, record>>

HookAccepted(s, p, r) ==
  /\ op[s] = Idle
  /\ Tellable(p, r) /\ Accepts(p, r)
  /\ Receive(p)
  /\ op' = [op EXCEPT ![s] =
       [Idle EXCEPT !.at = IF r.tag = "id" THEN "claim" ELSE "load",
                    !.i = intentOf[p], !.p = p, !.r = r]]
  /\ UNCHANGED <<rows, expired, tsp, intentOf, record>>

\* Kingdom Bank: the row takes the bank's transaction id as external id.
HookClaim(s) ==
  /\ op[s].at = "claim"
  /\ renamed' = renamed \cup {op[s].p}
  /\ Goto(s, "load")
  /\ UNCHANGED <<intent, txn, world, record>>

\* updateTransactionStatus reads the row; a code outside the table throws.
HookLoad(s) ==
  /\ op[s].at = "load"
  /\ op' = [op EXCEPT ![s] = IF CodeOf(op[s].r) \in KnownCodes
                               THEN [@ EXCEPT !.at = "save", !.ours = op[s].p \notin renamed]
                               ELSE Idle]
  /\ UNCHANGED <<rows, world, record>>

\* It saves the whole row: the external id goes back to what was read, and a type
\* the enum column does not know makes the database refuse the save.
HookSave(s) ==
  LET p == op[s].p  code == CodeOf(op[s].r) IN
  /\ op[s].at = "save"
  /\ IF Storable(code)
       THEN /\ txn' = [txn EXCEPT ![p] = RowStatusFor(TypeOf(code))]
            /\ renamed' = IF op[s].ours THEN renamed \ {p} ELSE renamed \cup {p}
            /\ saves' = IF TypeOf(code) = "SUCCESS" THEN [saves EXCEPT ![p] = @ + 1] ELSE saves
            /\ Goto(s, "intent")
       ELSE UNCHANGED <<txn, renamed, saves>> /\ End(s)
  /\ UNCHANGED <<intent, world, credits, notices, reprocessed>>

\* The status a step of slot s writes on its intent; "unchanged" leaves the intent alone.
WriteIntent(s, status) ==
  intent' = IF status = "unchanged" THEN intent ELSE [intent EXCEPT ![op[s].i] = status]

\* updatePaymentIntentFromTransaction swallows its errors.
HookIntent(s) ==
  LET code == CodeOf(op[s].r) IN
  /\ op[s].at = "intent"
  /\ WriteIntent(s, IntentStatusFor(code)) \/ (Faults /\ UNCHANGED intent)
  /\ Goto(s, IF IsFinal(code) THEN "finalize" ELSE "own")
  /\ UNCHANGED <<txn, renamed, world, record>>

\* Variant: an intent already in its final status needs no finalization.
HookFinalizeOnce(s) ==
  LET status == IntentStatusFor(CodeOf(op[s].r)) IN
  /\ op[s].at = "finalize"
  /\ WriteIntent(s, status)
  /\ Goto(s, IF intent[op[s].i] = status THEN "own" ELSE "credit")
  /\ UNCHANGED <<txn, renamed, world, record>>

\* Variant: the status update alone, the settlement left for somebody else.
HookFinalizeStatusOnly(s) ==
  /\ op[s].at = "finalize"
  /\ WriteIntent(s, IntentStatusFor(CodeOf(op[s].r)))
  /\ Goto(s, "notify")
  /\ UNCHANGED <<txn, renamed, world, record>>

\* finalizePaymentIntentFromTransaction writes the intent again, then settles; an
\* error anywhere in it is logged and the handler carries on.
HookFinalize(s) ==
  LET code == CodeOf(op[s].r) IN
  /\ op[s].at = "finalize"
  /\ \/ /\ WriteIntent(s, IntentStatusFor(code))
        /\ Goto(s, IF IntentStatusFor(code) = "unchanged" THEN "own"
                   ELSE IF Settlement(code) = "credit" THEN "credit"
                   ELSE "notify")
     \/ /\ Faults
        /\ UNCHANGED intent
        /\ Goto(s, "own")
  /\ UNCHANGED <<txn, renamed, world, record>>

\* Variant: a call without an answer is made again.
HookCreditRetried(s) ==
  LET p == op[s].p IN
  /\ op[s].at = "credit"
  /\ credits' = [credits EXCEPT ![p] = @ + 1]
  /\ Goto(s, "notify") \/ (Faults /\ credits[p] < 3 /\ UNCHANGED op)
  /\ UNCHANGED <<rows, world, saves, notices, reprocessed>>

\* ProcessPaymentWithFees; a failed call is not retried, a lost answer is a failure.
HookCredit(s) ==
  LET p == op[s].p IN
  /\ op[s].at = "credit"
  /\ \/ credits' = [credits EXCEPT ![p] = @ + 1] /\ Goto(s, "notify")
     \/ Faults /\ credits' \in {credits, [credits EXCEPT ![p] = @ + 1]} /\ Goto(s, "own")
  /\ UNCHANGED <<rows, world, saves, notices, reprocessed>>

\* sendPaymentCompletionNotifications tells the customer by the final intent status,
\* of which only "failed" makes it a failure; what cannot be sent is only logged.
Announcement(status) ==
  IF status = "failed" THEN {"alert.payment_failure"}
  ELSE IF status = "succeeded" THEN {"mail.payment_success", "payment.success"}
  ELSE {"mail.payment_success"}

HookNotify(s) ==
  LET due == Announcement(IntentStatusFor(CodeOf(op[s].r))) IN
  /\ op[s].at = "notify"
  /\ \E sent \in SUBSET due : (sent = due \/ Faults) /\ Tell(op[s].p, sent)
  /\ Goto(s, "own")
  /\ UNCHANGED <<rows, world, saves, credits, reprocessed>>

\* Back in the provider's handler: its own write on the intent.
HookOwn(s) ==
  /\ op[s].at = "own"
  /\ WriteIntent(s, OwnIntentWrite(op[s].r))
  /\ Goto(s, "deliver")
  /\ UNCHANGED <<txn, renamed, world, record>>

HookDeliver(s) ==
  /\ op[s].at = "deliver"
  /\ Tell(op[s].p, {MerchantEvent(op[s].r)})
  /\ End(s)
  /\ UNCHANGED <<rows, world, saves, credits, reprocessed>>

\* The process dies, or a call whose error is not swallowed fails: nothing of the
\* operation is kept but what it has already written.
Abort(s) ==
  /\ Faults /\ op[s] # Idle
  /\ End(s)
  /\ UNCHANGED <<rows, world, record>>

----------------------------------------------------------------------------
ConfirmStep(s) ==
  \/ \E p \in Payments : ConfirmOpen(s, p)
  \/ ConfirmDeclined(s) \/ ConfirmProcessing(s) \/ ConfirmInsert(s)

HookStep(s) ==
  \/ HookClaim(s) \/ HookLoad(s) \/ HookSave(s) \/ HookIntent(s) \/ HookFinalize(s)
  \/ HookCredit(s) \/ HookNotify(s) \/ HookOwn(s) \/ HookDeliver(s)

OtherStep(s) ==
  \/ CancelSave(s) \/ ViewSave(s) \/ IntelligenceSave(s)
  \/ ProcessAbandon(s) \/ ProcessError(s)

\* A step some slot is in the middle of: what the event loop runs without further input.
Advance(s) == ConfirmStep(s) \/ HookStep(s) \/ OtherStep(s)

Request(s, i) ==
  \/ ConfirmRead(s, i) \/ CancelRead(s, i) \/ ViewRead(s, i)
  \/ IntelligenceRead(s, i) \/ ProcessRead(s, i)

Next ==
  \/ \E i \in Intents : CreateIntent(i) \/ Expire(i)
  \/ \E p \in Payments : Pay(p) \/ Return(p)
  \/ \E s \in Slots, i \in Intents : Request(s, i)
  \/ \E p \in Payments, r \in Reports : HookIgnored(p, r)
  \/ \E s \in Slots, p \in Payments, r \in Reports : HookAccepted(s, p, r)
  \/ \E s \in Slots : Advance(s) \/ Abort(s)

Spec == Init /\ [][Next]_vars

\* The event loop resumes every operation that is waiting to continue.
FairSpec == Spec /\ \A s \in Slots : WF_vars(Advance(s))
----------------------------------------------------------------------------
(* What the life of a payment guarantees, however its operations interleave. *)

Received == {"paid", "returned"}

\* creditMerchantWallet is reached only behind a save of the row as "success", once
\* per save: no interleaving of handlers, lost call or crash asks for more credits.
CreditBacked == \A p \in Payments : credits[p] <= saves[p]

\* A merchant is credited only for money the provider really received: neither a
\* late report nor one about another payment of the same intent gets that far.
CreditNeedsPayment == \A p \in Payments : credits[p] > 0 => tsp[p] \in Received

\* An intent is never shown as succeeded unless a payment opened for it was paid,
\* whoever wrote the status: the transaction service twice or the handler itself.
SucceededNeedsPayment ==
  \A i \in Intents : intent[i] = "succeeded" =>
      \E p \in Payments : intentOf[p] = i /\ tsp[p] \in Received

\* An intent shown as processing has a payment at a provider that can still decide it;
\* an intent locked out of confirmation without one could never be paid.
ProcessingHasPayment ==
  \A i \in Intents : intent[i] = "processing" => \E p \in Payments : intentOf[p] = i

\* The merchant hears payment.success of a payment, by either of the two channels,
\* only after its row was saved as a success.
SuccessNoticeBacked ==
  \A p \in Payments : "payment.success" \in notices[p] => saves[p] > 0

\* The handlers of p between the row's save as success and the wallet call.
SettlesFor(o, p) ==
  o.p = p /\ o.at \in {"intent", "finalize", "credit"} /\ TypeOf(CodeOf(o.r)) = "SUCCESS"
Settling(p) == {s \in Slots : SettlesFor(op[s], p)}

\* Without faults no success gets lost on the way to the wallet: every save of a row
\* as success is settled or in the hands of a handler about to settle it.
EverySaveSettles ==
  ~Faults => \A p \in Payments : saves[p] = credits[p] + Cardinality(Settling(p))

\* One webhook at a time, in the order things happened at the provider, credits a
\* payment once however often it is repeated.
CreditedAtMostOnce == \A p \in Payments : credits[p] <= 1

\* With requests and webhooks one after another and no faults, the records of a settled
\* payment agree whenever nothing is in flight: the wallet was credited once, the merchant
\* has been told, and the intent is succeeded.  Two requests take the intent away from its
\* settled payment even so, and no other does: a view of an expired intent, or its processing,
\* cancels it (getPublicPaymentIntentDetails, abandonExpiredPaymentIntent), and processPayment
\* resets one that has not expired.
QuiescentAgreement ==
  (\A s \in Slots : op[s] = Idle) =>
      \A p \in Payments : txn[p] = "success" =>
          LET i == intentOf[p] IN
          /\ credits[p] = 1
          /\ "payment.success" \in notices[p]
          /\ \/ intent[i] = "succeeded"
             \/ i \in expired /\ intent[i] = "canceled"
             \/ i \in reprocessed

\* Every payment whose row reached success is credited and announced in the end.
SuccessIsCredited ==
  \A p \in Payments :
      saves[p] > 0 ~> (credits[p] > 0 /\ "payment.success" \in notices[p])

----------------------------------------------------------------------------
(* What comments, messages and answers in the code say, and the code does not do. *)

\* 'Cannot cancel a completed payment': a completed payment is never turned into a canceled
\* one.  cancelPaymentIntent saves over a success written since its read; and a view of an
\* expired intent, or processPayment, cancels a completed one with no other request about.
CompletedNeverCanceled ==
  [][\A i \in Intents : intent[i] = "succeeded" => intent'[i] # "canceled"]_vars

\* isFinalStatus, 'Whether this status is final (no more updates expected)': a row in
\* a final status keeps it.
FinalRows == {"success", "failed", "timeout", "abandoned", "cancelled", "refunded"}
FinalStatusStable ==
  [][\A p \in Payments : txn[p] \in FinalRows => txn'[p] = txn[p]]_vars

\* 'This payment is already being processed. Please wait for the current transaction
\* to complete.': an intent has one undecided payment at a time.
OneOpenPayment ==
  \A i \in Intents :
      Cardinality({p \in Payments : intentOf[p] = i
                                   /\ txn[p] \in {"none", "initiated", "processing"}}) <= 1

\* 'Negative for refunds': the report that a payment went back to the customer never
\* leads to the wallet call that credits it to the merchant.
RefundReportNotCredited ==
  \A s \in Slots : SaysReturned(op[s].r) => op[s].at # "credit"

\* 'Our ID for webhook matching': a row stays reachable under the id the provider was
\* given, so the report of a paid payment is taken up unless it is already recorded.
PaidReportMatched ==
  [][\A p \in Payments :
        /\ FreshReports /\ tsp[p] = "paid" /\ txn[p] \notin {"none", "success"}
        /\ delivered'[p] # delivered[p] /\ \A s \in Slots : op[s].p # p
        => op' # op]_vars
=============================================================================
