------------------------------- MODULE Payouts -------------------------------
(***************************************************************************)
(* Payouts from the merchant's wallet to a beneficiary: payout.service.ts  *)
(* and the payout half of the webhook handlers.  One merchant, one         *)
(* currency, every payout one unit of the balance.                         *)
(*                                                                         *)
(* As in PaymentLifecycle a request or webhook runs in a slot, and what    *)
(* lies between two awaits is one action.  tsp is the provider's side of a *)
(* payout, block the wallet's reserve for it, row our payouts row.         *)
(***************************************************************************)
EXTENDS Naturals, Sequences, FiniteSets

CONSTANTS Payouts,          \* payouts the providers may open for us
          Slots,            \* requests and webhooks in flight at once
          ProviderOf,       \* the provider that opens each payout
          Balance,          \* payouts the merchant's balance can pay
          MaxDeliveries,    \* bound: webhooks delivered for one payout
          Kinds,            \* the requests clients make in this instance
          WalletNamesBlocks, \* TRUE: the wallet's block ids are block_<payoutId>
          Faults            \* TRUE: processes die and remote calls fail

Providers == {"kingdom_bank", "sulifu_pay", "payaza", "paytara"}
AllKinds  == {"create", "retry", "poll"}

ASSUME PayoutProviderAssumption == ProviderOf \in [Payouts -> Providers]
ASSUME PayoutBoundAssumption    == Balance \in Nat /\ MaxDeliveries \in Nat
ASSUME PayoutFlagAssumption     == WalletNamesBlocks \in BOOLEAN /\ Faults \in BOOLEAN
ASSUME PayoutKindAssumption     == Kinds \subseteq AllKinds
ASSUME PayoutSetAssumption      == IsFiniteSet(Payouts) /\ "none" \notin Payouts

VARIABLES
  row,        \* row[o]: status column of payouts, "none" before the row exists
  linked,     \* the rows whose walletTransactionId and blockId columns are set
  tsp,        \* tsp[o]: "none", "open", "paid", "failed", "cancelled"
  block,      \* block[o]: "none", "active", "debited", "released"
  retryOf,    \* retryOf[o]: the payout o retries, "none" if it is a first try
  op,         \* op[s]: what slot s is in the middle of
  delivered,  \* delivered[o]: webhooks received for o
  told        \* history: told[o] is the set of statuses the merchant was told of o

books   == <<row, linked>>
outside == <<tsp, retryOf, delivered>>
vars    == <<row, linked, tsp, block, retryOf, op, delivered, told>>

RowStatuses == {"processing", "completed", "failed", "cancelled", "reversed"}

\* A step of an operation, its payout (a retry: the payout it retries, from), the
\* report or answer it carries, the status and link of the row as it was read.
Stages == {"funds", "open", "insert", "block", "refused", "link", "ask", "save",
           "status", "wallet", "tell"}
Words  == {"pending", "processing", "completed", "failed", "cancelled", "not_found", "none"}
Idle == [at |-> "idle", o |-> "none", from |-> "none", word |-> "none",
         status |-> "none", link |-> FALSE]
Operations == [at : Stages \cup {"idle"}, o : Payouts \cup {"none"},
               from : Payouts \cup {"none"}, word : Words,
               status : RowStatuses \cup {"none"}, link : BOOLEAN]
Goto(s, at) == op' = [op EXCEPT ![s].at = at]
End(s)      == op' = [op EXCEPT ![s] = Idle]

\* What the wallet reports as available_balance.
Held      == {o \in Payouts : block[o] \in {"active", "debited"}}
Available == Balance - Cardinality(Held)

TypeOK ==
  /\ row \in [Payouts -> RowStatuses \cup {"none"}]
  /\ linked \subseteq Payouts
  /\ tsp \in [Payouts -> {"none", "open", "paid", "failed", "cancelled"}]
  /\ block \in [Payouts -> {"none", "active", "debited", "released"}]
  /\ retryOf \in [Payouts -> Payouts \cup {"none"}]
  /\ op \in [Slots -> Operations]
  /\ delivered \in [Payouts -> Nat]
  /\ told \in [Payouts -> SUBSET RowStatuses]

Init ==
  /\ row = [o \in Payouts |-> "none"]
  /\ linked = {}
  /\ tsp = [o \in Payouts |-> "none"]
  /\ block = [o \in Payouts |-> "none"]
  /\ retryOf = [o \in Payouts |-> "none"]
  /\ op = [s \in Slots |-> Idle]
  /\ delivered = [o \in Payouts |-> 0]
  /\ told = [o \in Payouts |-> {}]

----------------------------------------------------------------------------
(* The provider decides an open payout, once; Sulifu does not cancel payouts. *)

Decide(o) ==
  /\ tsp[o] = "open"
  /\ \E w \in {"paid", "failed", "cancelled"} :
       /\ w = "cancelled" => ProviderOf[o] # "sulifu_pay"
       /\ tsp' = [tsp EXCEPT ![o] = w]
  /\ UNCHANGED <<books, block, retryOf, op, delivered, told>>

----------------------------------------------------------------------------
(* createPayout: look at the balance, open the payout at the provider, insert the
   row, reserve the amount, save the row again with the reserve's id. *)

CreateBegin(s) ==
  /\ "create" \in Kinds /\ op[s] = Idle
  /\ Goto(s, "funds")
  /\ UNCHANGED <<books, block, outside, told>>

\* Variant: a payout that has not come to an end may be retried.
RetryBeginUnfinished(s, o) ==
  /\ "retry" \in Kinds /\ op[s] = Idle
  /\ row[o] \in {"failed", "processing"}
  /\ op' = [op EXCEPT ![s] = [Idle EXCEPT !.at = "funds", !.from = o]]
  /\ UNCHANGED <<books, block, outside, told>>

\* retryPayout: a failed payout becomes a new payout; the old row keeps its status.
RetryBegin(s, o) ==
  /\ "retry" \in Kinds /\ op[s] = Idle
  /\ row[o] = "failed"
  /\ op' = [op EXCEPT ![s] = [Idle EXCEPT !.at = "funds", !.from = o]]
  /\ UNCHANGED <<books, block, outside, told>>

\* Variant: the balance is compared the wrong way round at zero.
CreateFundsAtLeastZero(s) ==
  /\ op[s].at = "funds"
  /\ IF Available >= 0 THEN Goto(s, "open") ELSE End(s)
  /\ UNCHANGED <<books, block, outside, told>>

\* The balance is read and compared; nothing is reserved yet.
CreateFunds(s) ==
  /\ op[s].at = "funds"
  /\ IF Available >= 1 THEN Goto(s, "open") ELSE End(s)
  /\ UNCHANGED <<books, block, outside, told>>

\* The adapter's answer is success, or a failure although the provider has opened the
\* payout: the adapters turn every exception into success: false.
CreateOpen(s, o) ==
  /\ op[s].at = "open" /\ tsp[o] = "none"
  /\ tsp' = [tsp EXCEPT ![o] = "open"]
  /\ retryOf' = [retryOf EXCEPT ![o] = op[s].from]
  /\ \/ op' = [op EXCEPT ![s] = [@ EXCEPT !.at = "insert", !.o = o]]
     \/ Faults /\ End(s)
  /\ UNCHANGED <<books, block, delivered, told>>

CreateDeclined(s) ==
  /\ op[s].at = "open"
  /\ End(s)
  /\ UNCHANGED <<books, block, outside, told>>

CreateInsert(s) ==
  /\ op[s].at = "insert"
  /\ row' = [row EXCEPT ![op[s].o] = "processing"]
  /\ Goto(s, "block")
  /\ UNCHANGED <<linked, block, outside, told>>

CreateBlock(s) ==
  /\ op[s].at = "block"
  /\ IF Available >= 1
     THEN block' = [block EXCEPT ![op[s].o] = "active"] /\ Goto(s, "link")
     ELSE Goto(s, "refused") /\ UNCHANGED block
  /\ UNCHANGED <<books, outside, told>>

CreateRefused(s) ==
  /\ op[s].at = "refused"
  /\ row' = [row EXCEPT ![op[s].o] = "failed"]
  /\ End(s)
  /\ UNCHANGED <<linked, block, outside, told>>

\* save(payout) writes every column that differs from the object inserted above,
\* the status included.
CreateLink(s) ==
  /\ op[s].at = "link"
  /\ row' = [row EXCEPT ![op[s].o] = "processing"]
  /\ linked' = linked \cup {op[s].o}
  /\ End(s)
  /\ UNCHANGED <<block, outside, told>>

----------------------------------------------------------------------------
(* getPayoutStatus: a row in processing is compared with the provider's answer. *)

\* verifyPayment per provider: Kingdom Bank is asked for an id it files elsewhere,
\* Sulifu's deposits are searched; any error becomes the answer "failed".
Answers(o) ==
  LET state == [open |-> "pending", paid |-> "completed",
                failed |-> "failed", cancelled |-> "cancelled"][tsp[o]]
      plain == [kingdom_bank |-> {"not_found"}, sulifu_pay |-> {"pending"},
                payaza  |-> IF tsp[o] = "open" THEN {"pending", "processing"} ELSE {state},
                paytara |-> {state}][ProviderOf[o]]
  IN IF Faults THEN plain \cup {"failed"} ELSE plain

\* Variant: an unknown answer counts as settled.
PollStatusOptimistic(word) == IF word \in {"failed", "cancelled"} THEN word ELSE "completed"

\* mapTspStatusToPayoutStatus.
PollStatus(word) ==
  IF word \in {"completed", "failed", "cancelled"} THEN word ELSE "processing"

PollRead(s, o) ==
  /\ "poll" \in Kinds /\ op[s] = Idle
  /\ row[o] = "processing"
  /\ op' = [op EXCEPT ![s] = [Idle EXCEPT !.at = "ask", !.o = o, !.link = o \in linked]]
  /\ UNCHANGED <<books, block, outside, told>>

PollAsk(s) ==
  /\ op[s].at = "ask"
  /\ \E word \in Answers(op[s].o) :
       IF word = "processing"
       THEN End(s)
       ELSE op' = [op EXCEPT ![s] = [@ EXCEPT !.at = "save", !.word = word]]
  /\ UNCHANGED <<books, block, outside, told>>

\* Variant: the provider's word is stored as it is.
PollSaveRaw(s) ==
  /\ op[s].at = "save"
  /\ row' = [row EXCEPT ![op[s].o] = op[s].word]
  /\ linked' = IF op[s].link THEN linked \cup {op[s].o} ELSE linked \ {op[s].o}
  /\ End(s)
  /\ UNCHANGED <<block, outside, told>>

\* The whole row goes back as it was read, with the mapped status.
PollSave(s) ==
  /\ op[s].at = "save"
  /\ row' = [row EXCEPT ![op[s].o] = PollStatus(op[s].word)]
  /\ linked' = IF op[s].link THEN linked \cup {op[s].o} ELSE linked \ {op[s].o}
  /\ End(s)
  /\ UNCHANGED <<block, outside, told>>

----------------------------------------------------------------------------
(* The webhooks.  Payaza, Sulifu and Kingdom Bank: status, wallet, merchant.
   The generic route, which Paytara uses: wallet, status, merchant. *)

\* A webhook tells the state at its arrival or, delivered late, an earlier one.
ReportWords(o) ==
  [none |-> {}, open |-> {"pending"}, paid |-> {"pending", "completed"},
   failed |-> {"pending", "failed"}, cancelled |-> {"pending", "cancelled"}][tsp[o]]

\* Kingdom Bank sends back foreignTransactionId, from which the handler takes
\* everything that follows "transfer_" as the payout's id.
ForeignId(o) == <<"transfer", o, "timestamp">>
Extracted(id) == Tail(id)
Matched(o) ==
  /\ row[o] # "none"
  /\ ProviderOf[o] = "kingdom_bank" => Extracted(ForeignId(o)) = <<o>>

WalletFirst(o) == ProviderOf[o] = "paytara"

\* The providers' status maps: a cancelled payout has failed, except on the Kingdom
\* Bank's own route.
NewStatus(o, word) ==
  IF word = "cancelled"
  THEN IF ProviderOf[o] = "kingdom_bank" THEN "cancelled" ELSE "failed"
  ELSE IF word \in {"completed", "failed"} THEN word ELSE "processing"

\* Variant: only the word "failed" releases the reserve.
SettlesByWord(o, word) == word \in {"completed", "failed"}

\* Whether the handler goes on to the wallet.
Settles(o, word) == NewStatus(o, word) \in {"completed", "failed"}

\* A report nobody takes up: no row under the id it carries.
HookIgnored(o) ==
  /\ tsp[o] # "none" /\ delivered[o] < MaxDeliveries /\ ~Matched(o)
  /\ delivered' = [delivered EXCEPT ![o] = @ + 1]
  /\ UNCHANGED <<books, tsp, block, retryOf, op, told>>

HookRead(s, o, word) ==
  /\ op[s] = Idle /\ delivered[o] < MaxDeliveries /\ Matched(o)
  /\ word \in ReportWords(o)
  /\ delivered' = [delivered EXCEPT ![o] = @ + 1]
  /\ op' = [op EXCEPT ![s] =
       [Idle EXCEPT !.at = IF ~WalletFirst(o) THEN "status"
                           ELSE IF Settles(o, word) THEN "wallet" ELSE "tell",
                    !.o = o, !.word = word, !.status = row[o], !.link = o \in linked]]
  /\ UNCHANGED <<books, tsp, block, retryOf, told>>

\* Variant: a report of the status the row already has is taken for a duplicate.
HookStatusOnce(s) ==
  LET o == op[s].o
      new == NewStatus(o, op[s].word)
  IN /\ op[s].at = "status"
     /\ IF row[o] = new THEN End(s) /\ UNCHANGED row
        ELSE /\ row' = [row EXCEPT ![o] = new]
             /\ Goto(s, IF Settles(o, op[s].word) /\ ~WalletFirst(o) THEN "wallet" ELSE "tell")
     /\ UNCHANGED <<linked, block, outside, told>>

HookStatus(s) ==
  LET o == op[s].o
  IN /\ op[s].at = "status"
     /\ row' = [row EXCEPT ![o] = NewStatus(o, op[s].word)]
     /\ Goto(s, IF Settles(o, op[s].word) /\ ~WalletFirst(o) THEN "wallet" ELSE "tell")
     /\ UNCHANGED <<linked, block, outside, told>>

\* Variant: the wallet call is chosen by the row, not by the report.
HookWalletByRow(s) ==
  LET o == op[s].o
      reached == block[o] = "active" /\ (op[s].link \/ (WalletNamesBlocks /\ ~WalletFirst(o)))
  IN /\ op[s].at = "wallet"
     /\ IF reached
        THEN /\ block' = [block EXCEPT ![o] =
                            IF row[o] = "completed" THEN "debited" ELSE "released"]
             /\ Goto(s, IF WalletFirst(o) THEN "status" ELSE "tell")
        ELSE End(s) /\ UNCHANGED block
     /\ UNCHANGED <<books, outside, told>>

\* DebitBlockedAmount or ReleaseBlockedAmount: the wallet refuses an id it did not
\* issue and a reserve that is settled, and the handler throws.
HookWallet(s) ==
  LET o == op[s].o
      reached == block[o] = "active" /\ (op[s].link \/ (WalletNamesBlocks /\ ~WalletFirst(o)))
  IN /\ op[s].at = "wallet"
     /\ IF reached
        THEN /\ block' = [block EXCEPT ![o] =
                            IF NewStatus(o, op[s].word) = "completed" THEN "debited" ELSE "released"]
             /\ Goto(s, IF WalletFirst(o) THEN "status" ELSE "tell")
        ELSE End(s) /\ UNCHANGED block
     /\ UNCHANGED <<books, outside, told>>

\* The generic route tells the status of the row as it was first read.
HookTell(s) ==
  LET o == op[s].o
      status == IF WalletFirst(o) THEN op[s].status ELSE NewStatus(o, op[s].word)
  IN /\ op[s].at = "tell"
     /\ \/ told' = [told EXCEPT ![o] = @ \cup {status}]
        \/ Faults /\ UNCHANGED told
     /\ End(s)
     /\ UNCHANGED <<books, block, outside>>

\* The process dies, or a call that is not guarded throws.
Abort(s) ==
  /\ Faults /\ op[s] # Idle
  /\ End(s)
  /\ UNCHANGED <<books, block, outside, told>>

----------------------------------------------------------------------------
CreateStep(s) ==
  \/ CreateFunds(s) \/ (\E o \in Payouts : CreateOpen(s, o)) \/ CreateDeclined(s)
  \/ CreateInsert(s) \/ CreateBlock(s) \/ CreateRefused(s) \/ CreateLink(s)

PollStep(s) == PollAsk(s) \/ PollSave(s)
HookStep(s) == HookStatus(s) \/ HookWallet(s) \/ HookTell(s)

\* A step some slot is in the middle of: what the event loop runs without further input.
Advance(s) == CreateStep(s) \/ PollStep(s) \/ HookStep(s)

Next ==
  \/ \E o \in Payouts : Decide(o) \/ HookIgnored(o)
  \/ \E s \in Slots : CreateBegin(s) \/ Advance(s) \/ Abort(s)
  \/ \E s \in Slots, o \in Payouts : RetryBegin(s, o) \/ PollRead(s, o)
  \/ \E s \in Slots, o \in Payouts, word \in Words : HookRead(s, o, word)

Spec == Init /\ [][Next]_vars

\* The event loop resumes every operation that is waiting to continue.
FairSpec == Spec /\ \A s \in Slots : WF_vars(Advance(s))
----------------------------------------------------------------------------
(* What payouts guarantee, however requests and webhooks interleave. *)

\* The ledger the merchant may rely on: reserves within the balance, nothing taken but
\* for a payout the provider paid, nothing given back but for one it did not pay, under
\* lost answers, crashes, late and repeated reports.
Outcome == [o \in Payouts |-> IF tsp[o] = "paid" THEN "paid"
                              ELSE IF tsp[o] \in {"failed", "cancelled"} THEN "unpaid"
                              ELSE "undecided"]
Ledger == INSTANCE PayoutLedger WITH outcome <- Outcome, hold <- block, available <- Available
ImplementsLedger == Ledger!LedgerSpec

\* The three writers of the status column (creation, polls, webhooks) never call a
\* payout completed that the provider has not paid, nor tell the merchant so.
CompletedIsPaid ==
  \A o \in Payouts : row[o] = "completed" \/ "completed" \in told[o] => tsp[o] = "paid"

\* With requests and webhooks one after another, a payout the provider may still pay,
\* or has paid, has its amount reserved or debited whenever nothing is in flight.
Quiet == \A s \in Slots : op[s] = Idle
OpenIsReserved ==
  Quiet => \A o \in Payouts : tsp[o] \in {"open", "paid"} => block[o] \in {"active", "debited"}

\* ... and the books agree: a completed payout is debited, a failed one released.
BooksAgree ==
  Quiet => \A o \in Payouts : /\ row[o] = "completed" => block[o] = "debited"
                              /\ row[o] = "failed"    => block[o] = "released"

\* ... and no payout is paid twice by being retried: retryPayout takes the word of the
\* status column, which webhooks, refused reserves and polls write.
RetriedNotPaidTwice ==
  \A o \in Payouts : retryOf[o] # "none" => ~(tsp[o] = "paid" /\ tsp[retryOf[o]] = "paid")

\* A handler that read the id of the reserve settles it, even when a poll or another
\* webhook has already written the status it reports.
LinkedReportSettles ==
  \A o \in Payouts :
    (\E s \in Slots : /\ op[s].at \in {"status", "wallet"} /\ op[s].o = o
                      /\ op[s].link /\ Settles(o, op[s].word))
      ~> block[o] \in {"debited", "released"}

----------------------------------------------------------------------------
(* What answers and API descriptions in the code say, and the code does not do. *)

\* 'Validates wallet balance': the payouts open or paid at the providers never exceed
\* the balance.
PayoutsCovered == Cardinality({o \in Payouts : tsp[o] \in {"open", "paid"}}) <= Balance

\* The report of a paid payout whose row waits for it is taken up.
PaidPayoutMatched ==
  [][\A o \in Payouts :
        /\ tsp[o] = "paid" /\ row[o] = "processing" /\ Quiet
        /\ delivered'[o] # delivered[o]
        => op' # op]_vars
=============================================================================
