------------------------------- MODULE Refunds -------------------------------
(***************************************************************************)
(* Refunds of a paid transaction: refund.service.ts, its hourly job and    *)
(* refund-webhook.controller.ts.  All refunds here are of one transaction  *)
(* of one unit, and createRefund always asks for all that is left of it,   *)
(* so every refund is for the whole unit.                                  *)
(*                                                                         *)
(* A refund stands for the request id that creates it: the column is       *)
(* unique.  As in Payouts an operation runs in a slot and what lies        *)
(* between two awaits is one action.  Every operation carries the refund   *)
(* as it read it (ent) and save(refund) writes all of it back.             *)
(***************************************************************************)
EXTENDS Naturals, FiniteSets

CONSTANTS Refunds,          \* refund requests clients may make of the transaction
          Slots,            \* operations in flight at once
          Balance,          \* refunds the merchant's balance can cover
          MaxAsked,         \* bound: refunds opened at the provider for one request
          MaxDeliveries,    \* bound: webhooks delivered for one refund
          IdsEchoed,        \* TRUE: the provider sends our refund id back
          FinalReportsOnly, \* TRUE: it reports a refund only once it is decided
          Faults            \* TRUE: processes die and remote calls fail

ASSUME RefundSetAssumption   == IsFiniteSet(Refunds) /\ "none" \notin Refunds
ASSUME RefundBoundAssumption == {Balance, MaxAsked, MaxDeliveries} \subseteq Nat
ASSUME RefundFlagAssumption  == {IdsEchoed, FinalReportsOnly, Faults} \subseteq BOOLEAN

VARIABLES
  txn,        \* status column of the transaction: "success" or "refunded"
  row,        \* row[r]: the columns of refunds this model tells apart
  expired,    \* the refunds whose autoCancelAt has passed
  asked,      \* asked[r]: refunds the provider has opened for r and not decided
  done,       \* done[r]: refunds it has carried out for r
  refused,    \* refused[r]: refunds it has turned down for r
  block,      \* block[r]: "none", "active", "debited", "released" at the wallet
  op,         \* op[s]: what slot s is in the middle of
  delivered,  \* delivered[r]: webhooks received for r
  told        \* history: the refunds the merchant and the customer heard are completed

provider == <<asked, done, refused>>
vars == <<txn, row, expired, asked, done, refused, block, op, delivered, told>>

RefundStatuses == {"pending_approval", "approved", "processing", "completed",
                   "failed", "rejected", "cancelled"}
\* status; link: walletBlockTransactionId is set; blocked: blockedAmount > 0.
Entities == [status : RefundStatuses, link : BOOLEAN, blocked : BOOLEAN]
NoRow    == [status |-> "none", link |-> FALSE, blocked |-> FALSE]

\* A step of an operation, its refund, its entity, and for the hourly job and for
\* batches the refunds still to do, as they were read (NoRow: to be created).
Stages == {"sum", "insert", "block", "link", "broken", "decide", "adapter", "ask", "keep",
           "fail", "declined", "release", "freed", "giveback", "given", "last",
           "report", "debit", "debited", "txn", "next"}
Idle == [at |-> "idle", r |-> "none", ent |-> NoRow, list |-> << >>]
Lists == UNION {[rs -> Entities \cup {NoRow}] : rs \in SUBSET Refunds}
Operations == [at : Stages \cup {"idle"}, r : Refunds \cup {"none"},
               ent : Entities \cup {NoRow}, list : Lists]

Goto(s, at) == op' = [op EXCEPT ![s].at = at]
\* The operation on one refund is over: the next of the list, or the end.
Rest(s) == IF DOMAIN op[s].list = {} THEN Idle
           ELSE [op[s] EXCEPT !.at = "next", !.r = "none", !.ent = NoRow]
End(s)  == op' = [op EXCEPT ![s] = Rest(s)]

\* save(refund), and going on with it.
Save(s) == row' = [row EXCEPT ![op[s].r] = op[s].ent]

Held      == {r \in Refunds : block[r] \in {"active", "debited"}}
Available == Balance - Cardinality(Held)

TypeOK ==
  /\ txn \in {"success", "refunded"}
  /\ row \in [Refunds -> Entities \cup {NoRow}]
  /\ expired \subseteq Refunds
  /\ {asked, done, refused} \subseteq [Refunds -> Nat]
  /\ block \in [Refunds -> {"none", "active", "debited", "released"}]
  /\ op \in [Slots -> Operations]
  /\ delivered \in [Refunds -> Nat]
  /\ told \subseteq Refunds

Init ==
  /\ txn = "success"
  /\ row = [r \in Refunds |-> NoRow]
  /\ expired = {}
  /\ asked = [r \in Refunds |-> 0]
  /\ done = asked
  /\ refused = asked
  /\ block = [r \in Refunds |-> "none"]
  /\ op = [s \in Slots |-> Idle]
  /\ delivered = asked
  /\ told = {}

----------------------------------------------------------------------------
(* The outside: two days pass, the provider decides, and a repeated report of the
   payment sets the transaction's status to success again. *)

Expire(r) ==
  /\ row[r] # NoRow /\ r \notin expired
  /\ expired' = expired \cup {r}
  /\ UNCHANGED <<txn, row, provider, block, op, delivered, told>>

Decide(r) ==
  /\ asked[r] > 0
  /\ asked' = [asked EXCEPT ![r] = @ - 1]
  /\ \/ done' = [done EXCEPT ![r] = @ + 1] /\ UNCHANGED refused
     \/ refused' = [refused EXCEPT ![r] = @ + 1] /\ UNCHANGED done
  /\ UNCHANGED <<txn, row, expired, block, op, delivered, told>>

PaymentReport ==
  /\ txn = "refunded"
  /\ txn' = "success"
  /\ UNCHANGED <<row, expired, provider, block, op, delivered, told>>

----------------------------------------------------------------------------
(* createRefund, alone or in a batch: look for an earlier request, check the
   transaction, sum what is refunded, insert, block, and save the block's id. *)

\* Whether createRefund goes past its first checks.
Refundable(r) == row[r] = NoRow /\ txn = "success"

CreateRead(s, r) ==
  /\ op[s] = Idle /\ Refundable(r)
  /\ op' = [op EXCEPT ![s] = [Idle EXCEPT !.at = "sum", !.r = r]]
  /\ UNCHANGED <<txn, row, expired, provider, block, delivered, told>>

\* createBatchRefund: the items one after another, whether or not they succeed.
BatchBegin(s) ==
  /\ op[s] = Idle
  /\ \E rs \in SUBSET {r \in Refunds : row[r] = NoRow} :
       /\ Cardinality(rs) > 1
       /\ op' = [op EXCEPT ![s] = [Idle EXCEPT !.at = "next", !.list = [r \in rs |-> NoRow]]]
  /\ UNCHANGED <<txn, row, expired, provider, block, delivered, told>>

\* Variant: what is already refunded is taken from the transaction's status alone.
CreateSumByStatus(s) ==
  /\ op[s].at = "sum"
  /\ Goto(s, "insert")
  /\ UNCHANGED <<txn, row, expired, provider, block, delivered, told>>

\* The sum of completed refunds leaves nothing to refund, or everything.
CreateSum(s) ==
  /\ op[s].at = "sum"
  /\ IF \E r \in Refunds : row[r].status = "completed" THEN End(s) ELSE Goto(s, "insert")
  /\ UNCHANGED <<txn, row, expired, provider, block, delivered, told>>

\* auto_refund_enabled decides the first status; an answer that fails means FALSE.
\* A second row with the request id is refused by the database.
CreateInsert(s) ==
  /\ op[s].at = "insert"
  /\ IF row[op[s].r] # NoRow THEN End(s) /\ UNCHANGED row
     ELSE \E status \in {"approved", "pending_approval"} :
            LET e == [NoRow EXCEPT !.status = status]
            IN /\ row' = [row EXCEPT ![op[s].r] = e]
               /\ op' = [op EXCEPT ![s].at = "block", ![s].ent = e]
  /\ UNCHANGED <<txn, expired, provider, block, delivered, told>>

\* BlockAmount; its answer may be lost.
CreateBlock(s) ==
  LET r == op[s].r
  IN /\ op[s].at = "block"
     /\ \/ /\ Available > 0 /\ block[r] = "none"
           /\ block' = [block EXCEPT ![r] = "active"]
           /\ \/ op' = [op EXCEPT ![s].at = "link", ![s].ent.link = TRUE,
                                  ![s].ent.blocked = TRUE]
              \/ Faults /\ Goto(s, "broken")
        \/ /\ Available = 0 \/ block[r] # "none" \/ Faults
           /\ Goto(s, "broken") /\ UNCHANGED block
     /\ UNCHANGED <<txn, row, expired, provider, delivered, told>>

\* The saved entity has the status it was inserted with.
CreateLink(s) ==
  /\ op[s].at = "link"
  /\ \/ /\ Save(s)
        /\ IF op[s].ent.status = "approved" THEN Goto(s, "adapter") ELSE End(s)
     \/ Faults /\ Goto(s, "broken") /\ UNCHANGED row
  /\ UNCHANGED <<txn, expired, provider, block, delivered, told>>

\* The catch of createRefund: failed, and nothing is released.
CreateBroken(s) ==
  /\ op[s].at = "broken"
  /\ row' = [row EXCEPT ![op[s].r] = [op[s].ent EXCEPT !.status = "failed"]]
  /\ End(s)
  /\ UNCHANGED <<txn, expired, provider, block, delivered, told>>

----------------------------------------------------------------------------
(* The administrator's decision, the merchant's cancellation, the hourly job: each
   reads the refund, checks its status and saves the refund it read. *)

ReadInto(s, r, status) ==
  op' = [op EXCEPT ![s] = [Idle EXCEPT !.at = "decide", !.r = r,
                                       !.ent = [row[r] EXCEPT !.status = status]]]

\* approveRefund, with either answer.
ApproveRead(s, r) ==
  /\ op[s] = Idle
  /\ row[r].status = "pending_approval"
  /\ \E status \in {"approved", "rejected"} : ReadInto(s, r, status)
  /\ UNCHANGED <<txn, row, expired, provider, block, delivered, told>>

\* Variant: a refund that is being processed may be cancelled too.
CancelReadProcessing(s, r) ==
  /\ op[s] = Idle
  /\ row[r].status \in {"pending_approval", "approved", "processing"}
  /\ ReadInto(s, r, "cancelled")
  /\ UNCHANGED <<txn, row, expired, provider, block, delivered, told>>

CancelRead(s, r) ==
  /\ op[s] = Idle
  /\ row[r].status \in {"pending_approval", "approved"}
  /\ ReadInto(s, r, "cancelled")
  /\ UNCHANGED <<txn, row, expired, provider, block, delivered, told>>

\* autoCancelExpiredRefunds reads every refund that waits for approval.
Waiting == {r \in Refunds : row[r].status = "pending_approval"}

JobRead(s) ==
  /\ op[s] = Idle
  /\ Waiting \cap expired # {}
  /\ op' = [op EXCEPT ![s] = [Idle EXCEPT !.at = "next", !.list = [r \in Waiting |-> row[r]]]]
  /\ UNCHANGED <<txn, row, expired, provider, block, delivered, told>>

\* Variant: the job stops at the first refund that may still wait.
NextItemStops(s, r) ==
  LET list == op[s].list
      rest == [q \in DOMAIN list \ {r} |-> list[q]]
      e    == list[r]
  IN /\ op[s].at = "next" /\ r \in DOMAIN list
     /\ op' = [op EXCEPT ![s] =
          IF e = NoRow /\ Refundable(r)
          THEN [Idle EXCEPT !.at = "sum", !.r = r, !.list = rest]
          ELSE IF e # NoRow /\ r \in expired
          THEN [Idle EXCEPT !.at = "decide", !.r = r, !.list = rest,
                            !.ent = [e EXCEPT !.status = "cancelled"]]
          ELSE Idle]
     /\ UNCHANGED <<txn, row, expired, provider, block, delivered, told>>

\* The next of the list: the next item of a batch, or the next refund the job has read,
\* whose status is not read again.
NextItem(s, r) ==
  LET list == op[s].list
      rest == [q \in DOMAIN list \ {r} |-> list[q]]
      e    == list[r]
  IN /\ op[s].at = "next" /\ r \in DOMAIN list
     /\ op' = [op EXCEPT ![s] =
          IF e = NoRow /\ Refundable(r)
          THEN [Idle EXCEPT !.at = "sum", !.r = r, !.list = rest]
          ELSE IF e # NoRow /\ r \in expired
          THEN [Idle EXCEPT !.at = "decide", !.r = r, !.list = rest,
                            !.ent = [e EXCEPT !.status = "cancelled"]]
          ELSE IF DOMAIN rest = {} THEN Idle ELSE [op[s] EXCEPT !.list = rest]]
     /\ UNCHANGED <<txn, row, expired, provider, block, delivered, told>>

DecisionSave(s) ==
  /\ op[s].at = "decide"
  /\ Save(s)
  /\ Goto(s, IF op[s].ent.status = "approved" THEN "adapter" ELSE "release")
  /\ UNCHANGED <<txn, expired, provider, block, delivered, told>>

----------------------------------------------------------------------------
(* processWithTSP: save processing, ask the provider, save the same entity again. *)

\* There is an adapter, or its configuration is missing or inactive.
TspBegin(s) ==
  /\ op[s].at = "adapter"
  /\ \/ LET e == [op[s].ent EXCEPT !.status = "processing"]
        IN /\ row' = [row EXCEPT ![op[s].r] = e]
           /\ op' = [op EXCEPT ![s].at = "ask", ![s].ent = e]
     \/ Goto(s, "fail") /\ UNCHANGED row
  /\ UNCHANGED <<txn, expired, provider, block, delivered, told>>

\* The adapters turn an exception into an answer without success.
TspAsk(s) ==
  LET r == op[s].r
  IN /\ op[s].at = "ask"
     /\ \/ /\ asked[r] + done[r] + refused[r] < MaxAsked
           /\ asked' = [asked EXCEPT ![r] = @ + 1]
           /\ Goto(s, "keep") \/ (Faults /\ Goto(s, "declined"))
        \/ Goto(s, "declined") /\ UNCHANGED asked
     /\ UNCHANGED <<txn, row, expired, done, refused, block, delivered, told>>

\* Variant: the amount is debited as soon as the provider has taken the refund.
TspKeepDebits(s) ==
  /\ op[s].at = "keep"
  /\ Save(s)
  /\ Goto(s, "debit")
  /\ UNCHANGED <<txn, expired, provider, block, delivered, told>>

\* The refund waits for the provider's report.
TspKeep(s) ==
  /\ op[s].at = "keep"
  /\ Save(s)
  /\ End(s)
  /\ UNCHANGED <<txn, expired, provider, block, delivered, told>>

\* The answer without success, and the catch for all that throws before it: both fail the
\* refund and release the block, and the first saves the entity once more at the end.
TspFail(s) ==
  /\ op[s].at \in {"fail", "declined"}
  /\ LET e == [op[s].ent EXCEPT !.status = "failed"]
     IN /\ row' = [row EXCEPT ![op[s].r] = e]
        /\ op' = [op EXCEPT ![s].at = IF @ = "fail" THEN "release" ELSE "giveback",
                            ![s].ent = e]
  /\ UNCHANGED <<txn, expired, provider, block, delivered, told>>

TspLast(s) ==
  /\ op[s].at = "last"
  /\ Save(s)
  /\ End(s)
  /\ UNCHANGED <<txn, expired, provider, block, delivered, told>>

----------------------------------------------------------------------------
(* unblockMerchantFunds: nothing without a block id; a refusal is only logged. *)

Release(s) ==
  LET r == op[s].r
  IN /\ op[s].at \in {"release", "giveback"}
     /\ \/ /\ op[s].ent.link /\ block[r] = "active"
           /\ block' = [block EXCEPT ![r] = "released"]
           /\ op' = [op EXCEPT ![s].at = IF @ = "release" THEN "freed" ELSE "given",
                               ![s].ent.blocked = FALSE]
        \/ /\ ~op[s].ent.link \/ block[r] # "active" \/ Faults
           /\ IF op[s].at = "release" THEN End(s) ELSE Goto(s, "last")
           /\ UNCHANGED block
     /\ UNCHANGED <<txn, row, expired, provider, delivered, told>>

Freed(s) ==
  /\ op[s].at \in {"freed", "given"}
  /\ Save(s)
  /\ IF op[s].at = "freed" THEN End(s) ELSE Goto(s, "last")
  /\ UNCHANGED <<txn, expired, provider, block, delivered, told>>

----------------------------------------------------------------------------
(* The refund webhooks. *)

\* A report tells what the provider has decided or, where it reports that too, that it
\* has not decided yet.
ReportWords(r) ==
  (IF done[r] > 0 THEN {"completed"} ELSE {}) \cup
  (IF refused[r] > 0 THEN {"failed"} ELSE {}) \cup
  (IF asked[r] > 0 /\ ~FinalReportsOnly THEN {"pending"} ELSE {})

\* Variant: the provider's word is stored as it is.
NewStatusRaw(word) == word

\* Variant: every report but a failure completes the refund.
NewStatusOptimistic(word) == IF word = "failed" THEN "failed" ELSE "completed"

\* Every route: a word for success completes, every other word fails the refund.
NewStatus(word) == IF word = "completed" THEN "completed" ELSE "failed"

\* A report that carries no id of ours, or of a refund that is not being processed.
HookIgnored(r) ==
  /\ delivered[r] < MaxDeliveries /\ ReportWords(r) # {}
  /\ ~IdsEchoed \/ row[r].status # "processing"
  /\ delivered' = [delivered EXCEPT ![r] = @ + 1]
  /\ UNCHANGED <<txn, row, expired, provider, block, op, told>>

HookRead(s, r) ==
  /\ op[s] = Idle /\ delivered[r] < MaxDeliveries
  /\ IdsEchoed /\ row[r].status = "processing"
  /\ \E word \in ReportWords(r) :
       op' = [op EXCEPT ![s] = [Idle EXCEPT !.at = "report", !.r = r,
                                  !.ent = [row[r] EXCEPT !.status = NewStatus(word)]]]
  /\ delivered' = [delivered EXCEPT ![r] = @ + 1]
  /\ UNCHANGED <<txn, row, expired, provider, block, told>>

HookSave(s) ==
  /\ op[s].at = "report"
  /\ Save(s)
  /\ Goto(s, IF op[s].ent.status = "completed" THEN "debit" ELSE "release")
  /\ UNCHANGED <<txn, expired, provider, block, delivered, told>>

\* unblockAndDebitMerchantWallet: as with the release, a refusal is only logged.
HookDebit(s) ==
  LET r == op[s].r
  IN /\ op[s].at = "debit"
     /\ \/ /\ op[s].ent.link /\ block[r] = "active"
           /\ block' = [block EXCEPT ![r] = "debited"]
           /\ op' = [op EXCEPT ![s].at = "debited", ![s].ent.blocked = FALSE]
        \/ /\ ~op[s].ent.link \/ block[r] # "active" \/ Faults
           /\ Goto(s, "txn") /\ UNCHANGED block
     /\ UNCHANGED <<txn, row, expired, provider, delivered, told>>

HookDebited(s) ==
  /\ op[s].at = "debited"
  /\ Save(s)
  /\ Goto(s, "txn")
  /\ UNCHANGED <<txn, expired, provider, block, delivered, told>>

\* The transaction becomes refunded; customer statistics and both notices follow.
HookTxn(s) ==
  /\ op[s].at = "txn"
  /\ txn' = "refunded"
  /\ told' = told \cup {op[s].r}
  /\ End(s)
  /\ UNCHANGED <<row, expired, provider, block, delivered>>

\* The process dies, or a database call throws where nothing catches it.
Abort(s) ==
  /\ Faults /\ op[s] # Idle
  /\ op' = [op EXCEPT ![s] = Idle]
  /\ UNCHANGED <<txn, row, expired, provider, block, delivered, told>>

----------------------------------------------------------------------------
CreateStep(s) == \/ CreateSum(s) \/ CreateInsert(s) \/ CreateBlock(s)
                 \/ CreateLink(s) \/ CreateBroken(s)
DecisionStep(s) == (\E r \in Refunds : NextItem(s, r)) \/ DecisionSave(s)
TspStep(s)    == TspBegin(s) \/ TspAsk(s) \/ TspKeep(s)
                 \/ TspFail(s) \/ TspLast(s)
WalletStep(s) == Release(s) \/ Freed(s)
HookStep(s)   == HookSave(s) \/ HookDebit(s) \/ HookDebited(s) \/ HookTxn(s)

Advance(s) == CreateStep(s) \/ DecisionStep(s) \/ TspStep(s) \/ WalletStep(s) \/ HookStep(s)

Next ==
  \/ PaymentReport
  \/ \E r \in Refunds : Expire(r) \/ Decide(r) \/ HookIgnored(r)
  \/ \E s \in Slots : BatchBegin(s) \/ JobRead(s) \/ Advance(s) \/ Abort(s)
  \/ \E s \in Slots, r \in Refunds :
       CreateRead(s, r) \/ ApproveRead(s, r) \/ CancelRead(s, r) \/ HookRead(s, r)

Spec == Init /\ [][Next]_vars

\* The event loop resumes every operation, and the hourly job runs again and again.
FairSpec == Spec /\ \A s \in Slots : WF_vars(Advance(s)) /\ SF_vars(JobRead(s))

----------------------------------------------------------------------------
(* What refunds guarantee, however requests, webhooks and the job interleave. *)

\* The ledger of the merchant's money: unblockAndDebitMerchantWallet runs only for a
\* report of a refund carried out, whatever has been approved, cancelled or written over.
DoneRefunds == {r \in Refunds : done[r] > 0}
Ledger == INSTANCE RefundLedger WITH done <- DoneRefunds, hold <- block, available <- Available
ImplementsLedger == Ledger!LedgerSpec

\* Customers and merchants hear that a refund is completed, and the row and the
\* transaction say so, only of a refund the provider has carried out, although three
\* operations write back rows read before a remote call.
CompletedIsDone ==
  /\ \A r \in Refunds : row[r].status = "completed" \/ r \in told => done[r] > 0
  /\ txn = "refunded" => DoneRefunds # {}

\* One operation at a time, without faults, every report final: when nothing is in
\* flight, the status column, the wallet and the provider agree on every refund.
Quiet == \A s \in Slots : op[s] = Idle
BooksAgree ==
  Quiet => \A r \in Refunds :
    CASE row[r].status \in {"pending_approval", "processing"} -> block[r] = "active"
      [] row[r].status = "completed" -> block[r] = "debited" /\ done[r] = 1
      [] OTHER -> block[r] \in {"none", "released"} /\ done[r] = 0

\* ... and no refund is created once one is completed, even when a repeated report of
\* the payment has set the transaction back to success.
NoRefundAfterCompleted ==
  [][\A r, q \in Refunds : row[r] = NoRow /\ row'[r] # NoRow => row[q].status # "completed"]_vars

\* A refund nobody decides within two days does not wait for ever.
ExpiredIsDecided ==
  \A r \in Refunds : r \in expired /\ row[r].status = "pending_approval"
                       ~> row[r].status # "pending_approval"

----------------------------------------------------------------------------
(* What an error message of the code says, and the code does not prevent. *)

\* "has already been fully refunded": the transaction is paid back at most once.
RefundedOnce == Cardinality(DoneRefunds) <= 1
=============================================================================
