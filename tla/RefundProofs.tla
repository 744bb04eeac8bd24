---------------------------- MODULE RefundProofs ----------------------------
(***************************************************************************)
(* Theorems of Refunds: for any set of requests, any number of operations  *)
(* at once, any balance, any interleaving and any faults.                  *)
(***************************************************************************)
EXTENDS Refunds, FiniteSetTheorems, TLAPS

----------------------------------------------------------------------------
(* The inductive invariant: an operation writes "completed", or debits, only for a
   refund the provider has carried out, however long ago it read the row. *)

Rowless == {"idle", "next", "sum", "insert"}
Paying  == {"debit", "debited", "txn"}

Knows(o) ==
  /\ o \in Operations
  /\ o.at \notin {"idle", "next"} => o.r \in Refunds
  /\ o.at \in Rowless => o.ent.status # "completed"
  /\ o.at \notin Rowless => o.ent \in Entities
  /\ o.at \in Paying \/ o.ent.status = "completed" => done[o.r] > 0
  /\ \A r \in DOMAIN o.list : o.list[r].status # "completed"

OpsOK == \A s \in Slots : Knows(op[s])

IInv == TypeOK /\ OpsOK /\ CompletedIsDone

----------------------------------------------------------------------------
(* Facts about the records and the reports. *)

LEMMA IdleFacts == Idle \in Operations /\ DOMAIN Idle.list = {} /\ Idle.ent.status # "completed"
<1>1. << >> \in [{} -> Entities \cup {NoRow}]
  BY SMT
<1>2. << >> \in Lists
  BY <1>1 DEF Lists
<1> QED
  BY <1>2 DEF Idle, Operations, NoRow

LEMMA ListFacts ==
  ASSUME NEW rs \in SUBSET Refunds, NEW list \in [rs -> Entities \cup {NoRow}]
  PROVE  list \in Lists
  BY DEF Lists

LEMMA ListType ==
  ASSUME NEW list \in Lists
  PROVE  /\ DOMAIN list \in SUBSET Refunds
         /\ list \in [DOMAIN list -> Entities \cup {NoRow}]
  BY DEF Lists

LEMMA EntFacts ==
  ASSUME NEW e \in Entities, NEW status \in RefundStatuses
  PROVE  /\ [e EXCEPT !.status = status] \in Entities
         /\ [e EXCEPT !.blocked = FALSE] \in Entities
         /\ [e EXCEPT !.link = TRUE, !.blocked = TRUE] \in Entities
         /\ [NoRow EXCEPT !.status = status] \in Entities
         /\ [e EXCEPT !.status = status].status = status
         /\ [NoRow EXCEPT !.status = status].status = status
         /\ [e EXCEPT !.blocked = FALSE].status = e.status
         /\ [e EXCEPT !.link = TRUE, !.blocked = TRUE].status = e.status
  BY DEF Entities, NoRow

\* A report completes a refund only where the provider has carried it out.
LEMMA ReportFacts ==
  ASSUME NEW r \in Refunds, NEW word \in ReportWords(r)
  PROVE  /\ NewStatus(word) \in {"completed", "failed"}
         /\ NewStatus(word) = "completed" => done[r] > 0
  BY DEF ReportWords, NewStatus

\* What the provider has carried out stays carried out.
Growing == \A r \in Refunds : done[r] > 0 => done'[r] > 0

LEMMA GrowingStep == TypeOK /\ [Next]_vars => Growing
<1> SUFFICES ASSUME TypeOK, [Next]_vars PROVE Growing
  OBVIOUS
<1>1. CASE \E r \in Refunds : Decide(r)
  BY <1>1 DEF Decide, TypeOK, Growing
<1>2. CASE UNCHANGED done
  BY <1>2 DEF Growing
<1> QED
  BY <1>1, <1>2, ZenonT(30)
     DEF Next, vars, provider, PaymentReport, Expire, HookIgnored, BatchBegin, JobRead, Advance, Abort,
         CreateRead, ApproveRead, CancelRead, HookRead, CreateStep, CreateSum, CreateInsert, CreateBlock,
         CreateLink, CreateBroken, DecisionStep, NextItem, DecisionSave, TspStep, TspBegin, TspAsk, TspKeep,
         TspFail, TspLast, WalletStep, Release, Freed, HookStep, HookSave, HookDebit, HookDebited, HookTxn


LEMMA KeptOp ==
  ASSUME Growing, NEW t \in Slots, Knows(op[t]), op'[t] = op[t]
  PROVE  Knows(op[t])'
<1>1. op[t].at \notin {"idle", "next"} => op[t].r \in Refunds
  BY DEF Knows
<1>2. op[t].at \in Paying \/ op[t].ent.status = "completed" => op[t].at \notin {"idle", "next"}
  BY DEF Knows, Paying, Rowless
<1> QED
  BY <1>1, <1>2 DEF Knows, Growing

\* The operation of a slot, with a step and an entity of its own.
LEMMA MovedOp ==
  ASSUME Growing, NEW t \in Slots, Knows(op[t]), op[t].at \notin {"idle", "next"},
         NEW at \in Stages \ Rowless, NEW e \in Entities,
         op'[t] = [op[t] EXCEPT !.at = at, !.ent = e],
         at \in Paying \/ e.status = "completed" => done[op[t].r] > 0
  PROVE  Knows(op[t])'
<1>1. op[t] \in Operations /\ op[t].r \in Refunds
  BY DEF Knows
<1>2. /\ op'[t] \in Operations /\ op'[t].at = at /\ op'[t].ent = e
      /\ op'[t].r = op[t].r /\ op'[t].list = op[t].list
  BY <1>1 DEF Operations, Rowless
<1>3. at \in Paying \/ e.status = "completed" => done'[op[t].r] > 0
  BY <1>1 DEF Growing
<1>4. \A r \in DOMAIN op[t].list : op[t].list[r].status # "completed"
  BY DEF Knows
<1> QED
  BY <1>1, <1>2, <1>3, <1>4 DEF Knows, Rowless

\* ... without one: it ends, or goes on to the next of its list.
LEMMA RowlessOp ==
  ASSUME NEW t \in Slots, op'[t] \in Operations, op'[t].at \in Rowless, op'[t].ent.status # "completed",
         op'[t].at \notin {"idle", "next"} => op'[t].r \in Refunds,
         \A r \in DOMAIN op'[t].list : op'[t].list[r].status # "completed"
  PROVE  Knows(op[t])'
  BY DEF Knows, Rowless, Paying

LEMMA IdleOp ==
  ASSUME NEW t \in Slots, op'[t] = Idle
  PROVE  Knows(op[t])'
<1>1. op'[t].at = "idle" /\ op'[t].list = Idle.list /\ op'[t].ent = Idle.ent
  BY DEF Idle
<1> QED
  BY <1>1, IdleFacts, RowlessOp DEF Rowless

LEMMA EndedOp ==
  ASSUME TypeOK, NEW t \in Slots, Knows(op[t]), End(t)
  PROVE  Knows(op[t])'
<1>1. op'[t] = Rest(t)
  BY DEF End, TypeOK
<1>2. CASE DOMAIN op[t].list = {}
  BY <1>1, <1>2, IdleOp DEF Rest
<1>3. CASE DOMAIN op[t].list # {}
  <2>1. op'[t] = [op[t] EXCEPT !.at = "next", !.r = "none", !.ent = NoRow]
    BY <1>1, <1>3 DEF Rest
  <2>2. op[t] \in Operations
    BY DEF Knows
  <2>3. /\ op'[t] \in Operations /\ op'[t].at = "next" /\ op'[t].ent = NoRow
        /\ op'[t].list = op[t].list
    BY <2>1, <2>2 DEF Operations, Stages
  <2>4. NoRow.status # "completed"
    BY DEF NoRow
  <2>5. \A r \in DOMAIN op[t].list : op[t].list[r].status # "completed"
    BY DEF Knows
  <2> QED
    BY <2>3, <2>4, <2>5, RowlessOp DEF Rowless
<1> QED
  BY <1>2, <1>3

\* A step to another stage, with the entity as it is.
LEMMA WentOn ==
  ASSUME TypeOK, Growing, NEW t \in Slots, Knows(op[t]), op[t].at \notin Rowless,
         NEW at \in Stages \ Rowless, Goto(t, at),
         at \in Paying => op[t].at \in Paying \/ op[t].ent.status = "completed"
  PROVE  Knows(op[t])'
<1>1. op[t] \in Operations /\ op[t].ent \in Entities /\ op[t].at \notin {"idle", "next"}
  BY DEF Knows, Rowless
<1>2. op'[t] = [op[t] EXCEPT !.at = at, !.ent = op[t].ent]
  BY <1>1 DEF Goto, TypeOK, Operations
<1>3. at \in Paying \/ op[t].ent.status = "completed" => done[op[t].r] > 0
  BY DEF Knows
<1> QED
  BY <1>1, <1>2, <1>3, MovedOp

LEMMA OpsStep == IInv /\ [Next]_vars => OpsOK'
<1> USE DEF provider
<1> SUFFICES ASSUME IInv, [Next]_vars, NEW t \in Slots PROVE Knows(op[t])'
  BY DEF OpsOK
<1>a. TypeOK /\ CompletedIsDone /\ Knows(op[t]) /\ Growing
  BY GrowingStep DEF IInv, OpsOK
<1>b. \A o : op' = [op EXCEPT ![t] = o] => op'[t] = o
  BY <1>a DEF TypeOK
<1>c. op[t] \in Operations
  BY <1>a DEF Knows
<1>1. ASSUME op'[t] = op[t] PROVE Knows(op[t])'
  BY <1>1, <1>a, KeptOp
<1>2. ASSUME NEW r \in Refunds, CreateRead(t, r) PROVE Knows(op[t])'
  <2>1. op'[t] = [Idle EXCEPT !.at = "sum", !.r = r]
    BY <1>2, <1>b DEF CreateRead
  <2>2. op'[t] \in Operations /\ op'[t].at = "sum" /\ op'[t].r = r /\ op'[t].ent = Idle.ent
        /\ op'[t].list = Idle.list
    BY <2>1, IdleFacts DEF Operations, Stages, Idle
  <2> QED
    BY <2>2, IdleFacts, RowlessOp DEF Rowless
<1>3. ASSUME BatchBegin(t) PROVE Knows(op[t])'
  <2>1. PICK rs \in SUBSET Refunds :
          op'[t] = [Idle EXCEPT !.at = "next", !.list = [r \in rs |-> NoRow]]
    BY <1>3, <1>b DEF BatchBegin
  <2>2. [r \in rs |-> NoRow] \in Lists
    BY ListFacts
  <2>3. op'[t] \in Operations /\ op'[t].at = "next" /\ op'[t].ent = Idle.ent
        /\ op'[t].list = [r \in rs |-> NoRow]
    BY <2>1, <2>2, IdleFacts DEF Operations, Stages, Idle
  <2>4. NoRow.status # "completed"
    BY DEF NoRow
  <2> QED
    BY <2>3, <2>4, IdleFacts, RowlessOp DEF Rowless
<1>4. ASSUME JobRead(t) PROVE Knows(op[t])'
  <2> DEFINE list == [r \in Waiting |-> row[r]]
  <2>1. op'[t] = [Idle EXCEPT !.at = "next", !.list = list]
    BY <1>4, <1>b DEF JobRead
  <2>2. list \in Lists
    BY <1>a, ListFacts DEF Waiting, TypeOK
  <2>3. op'[t] \in Operations /\ op'[t].at = "next" /\ op'[t].ent = Idle.ent /\ op'[t].list = list
    BY <2>1, <2>2, IdleFacts DEF Operations, Stages, Idle
  <2>4. \A r \in DOMAIN list : list[r].status # "completed"
    BY DEF Waiting
  <2> HIDE DEF list
  <2> QED
    BY <2>3, <2>4, IdleFacts, RowlessOp DEF Rowless
<1>5. ASSUME NEW r \in Refunds, NEW status \in RefundStatuses \ {"completed"}, row[r] \in Entities,
             ReadInto(t, r, status)
      PROVE  Knows(op[t])'
  <2> DEFINE e == [row[r] EXCEPT !.status = status]
  <2>1. e \in Entities /\ e.status # "completed"
    BY <1>5, EntFacts
  <2>2. op'[t] = [Idle EXCEPT !.at = "decide", !.r = r, !.ent = e]
    BY <1>5, <1>b DEF ReadInto
  <2>3. /\ op'[t] \in Operations /\ op'[t].at = "decide" /\ op'[t].r = r /\ op'[t].ent = e
        /\ op'[t].list = Idle.list
    BY <2>1, <2>2, IdleFacts DEF Operations, Stages, Idle
  <2> HIDE DEF e
  <2> QED
    BY <2>1, <2>3, IdleFacts DEF Knows, Rowless, Paying
<1>6. ASSUME NEW r \in Refunds, ApproveRead(t, r) \/ CancelRead(t, r) PROVE Knows(op[t])'
  <2>1. row[r] \in Entities
    BY <1>6, <1>a DEF ApproveRead, CancelRead, TypeOK, NoRow
  <2>2. \E status \in RefundStatuses \ {"completed"} : ReadInto(t, r, status)
    BY <1>6 DEF ApproveRead, CancelRead, RefundStatuses
  <2> QED
    BY <2>1, <2>2, <1>5
<1>7. ASSUME NEW r \in Refunds, HookRead(t, r) PROVE Knows(op[t])'
  <2>1. PICK word \in ReportWords(r) :
          op'[t] = [Idle EXCEPT !.at = "report", !.r = r, !.ent = [row[r] EXCEPT !.status = NewStatus(word)]]
    BY <1>7, <1>b DEF HookRead
  <2> DEFINE e == [row[r] EXCEPT !.status = NewStatus(word)]
  <2>2. row[r] \in Entities
    BY <1>7, <1>a DEF HookRead, TypeOK, NoRow
  <2>3. NewStatus(word) \in {"completed", "failed"} /\ (NewStatus(word) = "completed" => done[r] > 0)
    BY ReportFacts
  <2>4. e \in Entities /\ (e.status = "completed" => done[r] > 0)
    BY <2>2, <2>3, EntFacts DEF RefundStatuses
  <2>5. /\ op'[t] \in Operations /\ op'[t].at = "report" /\ op'[t].r = r /\ op'[t].ent = e
        /\ op'[t].list = Idle.list
    BY <2>1, <2>4, IdleFacts DEF Operations, Stages, Idle
  <2>6. done' = done
    BY <1>7 DEF HookRead
  <2> HIDE DEF e
  <2> QED
    BY <2>4, <2>5, <2>6, IdleFacts DEF Knows, Rowless, Paying
<1>8. ASSUME CreateStep(t) PROVE Knows(op[t])'
  <2>1. CASE CreateSum(t)
    <3>1. op[t].at = "sum" /\ (End(t) \/ Goto(t, "insert"))
      BY <2>1 DEF CreateSum
    <3>2. ASSUME Goto(t, "insert") PROVE Knows(op[t])'
      <4>1. op'[t] = [op[t] EXCEPT !.at = "insert"]
        BY <3>2, <1>a DEF Goto, TypeOK
      <4>2. /\ op'[t] \in Operations /\ op'[t].at = "insert" /\ op'[t].r = op[t].r
            /\ op'[t].ent = op[t].ent /\ op'[t].list = op[t].list
        BY <4>1, <1>c DEF Operations, Stages
      <4> QED
        BY <3>1, <4>2, <1>a, RowlessOp DEF Knows, Rowless
    <3> QED
      BY <3>1, <3>2, <1>a, EndedOp
  <2>2. CASE CreateInsert(t)
    <3>1. ASSUME NEW status \in {"approved", "pending_approval"},
                 op' = [op EXCEPT ![t].at = "block", ![t].ent = [NoRow EXCEPT !.status = status]]
          PROVE  Knows(op[t])'
      <4> DEFINE e == [NoRow EXCEPT !.status = status]
      <4>1. e \in Entities /\ e.status # "completed"
        BY EntFacts DEF Entities, NoRow, RefundStatuses
      <4>2. op'[t] = [op[t] EXCEPT !.at = "block", !.ent = e]
        BY <3>1, <1>a, <1>c DEF TypeOK, Operations
      <4> QED
        BY <2>2, <4>1, <4>2, <1>a, MovedOp, ZenonT(30) DEF CreateInsert, Stages, Rowless, Paying
    <3> QED
      BY <2>2, <3>1, <1>a, EndedOp DEF CreateInsert
  <2>3. CASE CreateBlock(t)
    <3>1. op[t].at = "block" /\ op[t].ent \in Entities
      BY <2>3, <1>a DEF CreateBlock, Knows, Rowless
    <3>2. ASSUME Goto(t, "broken") PROVE Knows(op[t])'
      BY <3>1, <3>2, <1>a, WentOn DEF Stages, Rowless, Paying
    <3>3. ASSUME op' = [op EXCEPT ![t].at = "link", ![t].ent.link = TRUE, ![t].ent.blocked = TRUE]
          PROVE  Knows(op[t])'
      <4> DEFINE e == [op[t].ent EXCEPT !.link = TRUE, !.blocked = TRUE]
      <4>1. e \in Entities /\ e.status = op[t].ent.status
        BY <3>1, EntFacts DEF RefundStatuses
      <4>2. op'[t] = [op[t] EXCEPT !.at = "link", !.ent = e]
        BY <3>3, <1>a, <1>c DEF TypeOK, Operations
      <4>3. e.status = "completed" => done[op[t].r] > 0
        BY <4>1, <1>a DEF Knows
      <4> HIDE DEF e
      <4> QED
        BY <3>1, <4>1, <4>2, <4>3, <1>a, MovedOp DEF Stages, Rowless, Paying
    <3> QED
      BY <2>3, <3>2, <3>3 DEF CreateBlock
  <2>4. CASE CreateLink(t)
    <3>1. op[t].at = "link"
      BY <2>4 DEF CreateLink
    <3>2. ASSUME NEW at \in {"adapter", "broken"}, Goto(t, at) PROVE Knows(op[t])'
      BY <3>1, <3>2, <1>a, WentOn DEF Stages, Rowless, Paying
    <3> QED
      BY <2>4, <3>2, <1>a, EndedOp DEF CreateLink
  <2>5. CASE CreateBroken(t)
    BY <2>5, <1>a, EndedOp DEF CreateBroken
  <2> QED
    BY <1>8, <2>1, <2>2, <2>3, <2>4, <2>5 DEF CreateStep
<1>9. ASSUME NEW r \in Refunds, NextItem(t, r) PROVE Knows(op[t])'
  <2> DEFINE list == op[t].list
             rest == [q \in DOMAIN list \ {r} |-> list[q]]
             e    == [list[r] EXCEPT !.status = "cancelled"]
  <2>1. r \in DOMAIN list /\ op[t].at = "next"
    BY <1>9 DEF NextItem
  <2>2. list \in Lists
    BY <1>c DEF Operations
  <2>3. DOMAIN list \in SUBSET Refunds /\ list \in [DOMAIN list -> Entities \cup {NoRow}]
    BY <2>2, ListType
  <2>4. \A q \in DOMAIN rest : rest[q].status # "completed"
    BY <1>a DEF Knows
  <2>5. DOMAIN list \ {r} \in SUBSET Refunds /\ rest \in [DOMAIN list \ {r} -> Entities \cup {NoRow}]
    BY <2>3
  <2>6. rest \in Lists
    BY <2>5, ListFacts
  <2>7. CASE op'[t] = [Idle EXCEPT !.at = "sum", !.r = r, !.list = rest]
    <3> HIDE DEF rest
    <3>1. /\ op'[t] \in Operations /\ op'[t].at = "sum" /\ op'[t].r = r /\ op'[t].ent = Idle.ent
          /\ op'[t].list = rest
      BY <2>7, <2>6, IdleFacts DEF Operations, Stages, Idle
    <3> QED
      BY <3>1, <2>4, IdleFacts, RowlessOp DEF Rowless
  <2>8. CASE list[r] # NoRow /\ op'[t] = [Idle EXCEPT !.at = "decide", !.r = r, !.list = rest, !.ent = e]
    <3>1. e \in Entities /\ e.status # "completed"
      <4>1. list[r] \in Entities
        BY <2>1, <2>3, <2>8
      <4> HIDE DEF list
      <4> QED
        BY <4>1, EntFacts DEF RefundStatuses
    <3> HIDE DEF rest, e
    <3>2. /\ op'[t] \in Operations /\ op'[t].at = "decide" /\ op'[t].r = r /\ op'[t].ent = e
          /\ op'[t].list = rest
      BY <2>8, <2>6, <3>1, IdleFacts DEF Operations, Stages, Idle
    <3> QED
      BY <3>1, <3>2, <2>4 DEF Knows, Rowless, Paying
  <2>9. CASE op'[t] = [op[t] EXCEPT !.list = rest]
    <3> HIDE DEF rest
    <3>1. /\ op'[t] \in Operations /\ op'[t].at = op[t].at /\ op'[t].r = op[t].r /\ op'[t].ent = op[t].ent
          /\ op'[t].list = rest
      BY <2>9, <2>6, <1>c DEF Operations
    <3> QED
      BY <3>1, <2>1, <2>4, <1>a, RowlessOp DEF Knows, Rowless
  <2>10. CASE op'[t] = Idle
    BY <2>10, IdleOp
  <2> QED
    BY <1>9, <1>b, <2>7, <2>8, <2>9, <2>10 DEF NextItem
<1>10. ASSUME DecisionSave(t) PROVE Knows(op[t])'
  <2>1. op[t].at = "decide" /\ \E at \in {"adapter", "release"} : Goto(t, at)
    BY <1>10 DEF DecisionSave
  <2> QED
    BY <2>1, <1>a, WentOn DEF Stages, Rowless, Paying
<1>11. ASSUME TspStep(t) PROVE Knows(op[t])'
  <2>1. op[t].at \notin Rowless /\ op[t].ent \in Entities
    BY <1>11, <1>a DEF TspStep, TspBegin, TspAsk, TspKeep, TspFail, TspLast, Rowless, Knows
  <2>2. ASSUME NEW at \in {"ask", "fail", "keep", "declined", "last"}, Goto(t, at) PROVE Knows(op[t])'
    BY <2>1, <2>2, <1>a, WentOn DEF Stages, Rowless, Paying
  <2>3. ASSUME NEW at \in {"ask", "release", "giveback"}, NEW e \in Entities, e.status # "completed",
               op'[t] = [op[t] EXCEPT !.at = at, !.ent = e]
        PROVE  Knows(op[t])'
    BY <2>1, <2>3, <1>a, MovedOp DEF Stages, Rowless, Paying
  <2>4. CASE TspBegin(t)
    <3> DEFINE e == [op[t].ent EXCEPT !.status = "processing"]
    <3>1. ASSUME op' = [op EXCEPT ![t].at = "ask", ![t].ent = e]
          PROVE  Knows(op[t])'
      <4>1. e \in Entities /\ e.status # "completed"
        BY <2>1, EntFacts DEF RefundStatuses
      <4>2. op'[t] = [op[t] EXCEPT !.at = "ask", !.ent = e]
        BY <3>1, <1>a, <1>c DEF TypeOK, Operations
      <4> HIDE DEF e
      <4> QED
        BY <4>1, <4>2, <2>3
    <3> QED
      BY <2>4, <2>2, <3>1 DEF TspBegin
  <2>5. CASE TspAsk(t)
    BY <2>5, <2>2 DEF TspAsk
  <2>6. CASE TspKeep(t) \/ TspLast(t)
    BY <2>6, <1>a, EndedOp DEF TspKeep, TspLast
  <2>7. CASE TspFail(t)
    <3> DEFINE e == [op[t].ent EXCEPT !.status = "failed"]
    <3>1. e \in Entities /\ e.status # "completed"
      BY <2>1, EntFacts DEF RefundStatuses
    <3>2. \E at \in {"release", "giveback"} : op'[t] = [op[t] EXCEPT !.at = at, !.ent = e]
      BY <2>7, <1>a, <1>c DEF TspFail, TypeOK, Operations
    <3> HIDE DEF e
    <3> QED
      BY <3>1, <3>2, <2>3
  <2> QED
    BY <1>11, <2>4, <2>5, <2>6, <2>7 DEF TspStep
<1>12. ASSUME NEW at \in {"freed", "given", "debited"}, op[t].at \notin Rowless,
              at = "debited" => op[t].at \in Paying,
              op'[t] = [op[t] EXCEPT !.at = at, !.ent = [op[t].ent EXCEPT !.blocked = FALSE]]
       PROVE  Knows(op[t])'
  <2> DEFINE e == [op[t].ent EXCEPT !.blocked = FALSE]
  <2>1. op[t].ent \in Entities
    BY <1>12, <1>a DEF Knows
  <2>2. e \in Entities /\ e.status = op[t].ent.status
    BY <2>1, EntFacts DEF RefundStatuses
  <2>3. op'[t] = [op[t] EXCEPT !.at = at, !.ent = e]
    BY <1>12
  <2>4. at \in Paying \/ e.status = "completed" => done[op[t].r] > 0
    BY <1>12, <2>2, <1>a DEF Knows, Paying
  <2> HIDE DEF e
  <2> QED
    BY <1>12, <2>2, <2>3, <2>4, <1>a, MovedOp DEF Stages, Rowless
<1>13. ASSUME WalletStep(t) PROVE Knows(op[t])'
  <2>1. op[t].at \in {"release", "giveback", "freed", "given"}
    BY <1>13 DEF WalletStep, Release, Freed
  <2>2. ASSUME Goto(t, "last") PROVE Knows(op[t])'
    BY <2>1, <2>2, <1>a, WentOn DEF Stages, Rowless, Paying
  <2>3. CASE Release(t)
    <3>1. ASSUME op' = [op EXCEPT ![t].at = IF @ = "release" THEN "freed" ELSE "given", ![t].ent.blocked = FALSE]
          PROVE  Knows(op[t])'
      <4>1. PICK at \in {"freed", "given"} :
              op'[t] = [op[t] EXCEPT !.at = at, !.ent = [op[t].ent EXCEPT !.blocked = FALSE]]
        BY <3>1, <1>a, <1>c DEF TypeOK, Operations
      <4> QED
        BY <4>1, <2>1, <1>12 DEF Rowless
    <3> QED
      BY <2>3, <2>2, <3>1, <1>a, EndedOp DEF Release
  <2>4. CASE Freed(t)
    BY <2>4, <2>2, <1>a, EndedOp DEF Freed
  <2> QED
    BY <1>13, <2>3, <2>4 DEF WalletStep
<1>14. ASSUME HookStep(t) PROVE Knows(op[t])'
  <2>1. CASE HookSave(t)
    <3>1. op[t].at = "report"
          /\ \/ op[t].ent.status = "completed" /\ Goto(t, "debit")
             \/ Goto(t, "release")
      BY <2>1 DEF HookSave
    <3> QED
      BY <3>1, <1>a, WentOn DEF Stages, Rowless, Paying
  <2>2. CASE HookDebit(t)
    <3>1. op[t].at = "debit"
      BY <2>2 DEF HookDebit
    <3>2. ASSUME Goto(t, "txn") PROVE Knows(op[t])'
      BY <3>1, <3>2, <1>a, WentOn DEF Stages, Rowless, Paying
    <3>3. ASSUME op' = [op EXCEPT ![t].at = "debited", ![t].ent.blocked = FALSE]
          PROVE  Knows(op[t])'
      <4>1. op'[t] = [op[t] EXCEPT !.at = "debited", !.ent = [op[t].ent EXCEPT !.blocked = FALSE]]
        BY <3>3, <1>a, <1>c DEF TypeOK, Operations
      <4> QED
        BY <4>1, <3>1, <1>12 DEF Rowless, Paying
    <3> QED
      BY <2>2, <3>2, <3>3 DEF HookDebit
  <2>3. CASE HookDebited(t)
    <3>1. op[t].at = "debited" /\ Goto(t, "txn")
      BY <2>3 DEF HookDebited
    <3> QED
      BY <3>1, <1>a, WentOn DEF Stages, Rowless, Paying
  <2>4. CASE HookTxn(t)
    BY <2>4, <1>a, EndedOp DEF HookTxn
  <2> QED
    BY <1>14, <2>1, <2>2, <2>3, <2>4 DEF HookStep
<1>15. ASSUME Abort(t) PROVE Knows(op[t])'
  BY <1>15, <1>b, IdleOp DEF Abort
<1> DEFINE Own(s) == \/ BatchBegin(s) \/ JobRead(s) \/ Advance(s) \/ Abort(s)
                     \/ \E r \in Refunds : CreateRead(s, r) \/ ApproveRead(s, r) \/ CancelRead(s, r) \/ HookRead(s, r)
<1>16. CASE Own(t)
  BY <1>16, <1>2, <1>3, <1>4, <1>6, <1>7, <1>8, <1>9, <1>10, <1>11, <1>13, <1>14, <1>15
     DEF Advance, DecisionStep
<1>17. ASSUME NEW s \in Slots, s # t, Own(s) PROVE op'[t] = op[t]
  BY <1>17, <1>a
     DEF TypeOK, BatchBegin, JobRead, Advance, Abort, CreateRead, ApproveRead, CancelRead, HookRead, ReadInto,
         CreateStep, CreateSum, CreateInsert, CreateBlock, CreateLink, CreateBroken, DecisionStep, NextItem,
         DecisionSave, TspStep, TspBegin, TspAsk, TspKeep, TspFail, TspLast, WalletStep, Release, Freed,
         HookStep, HookSave, HookDebit, HookDebited, HookTxn, Goto, End
<1>18. op' = op \/ \E s \in Slots : Own(s)
  BY DEF Next, vars, PaymentReport, Expire, Decide, HookIgnored
<1> QED
  BY <1>1, <1>16, <1>17, <1>18

\* The types of the columns: what is saved is the entity of an operation.
LEMMA TypeStep == IInv /\ [Next]_vars => TypeOK'
<1> USE DEF provider
<1> SUFFICES ASSUME IInv, [Next]_vars PROVE TypeOK'
  OBVIOUS
<1>a. TypeOK /\ OpsOK
  BY DEF IInv
<1>1. op' \in [Slots -> Operations]
  <2>1. \A s \in Slots : op'[s] \in Operations
    BY OpsStep DEF OpsOK, Knows
  <2>2. op' = op \/ \E s \in Slots : \E o : op' = [op EXCEPT ![s] = o]
    <3>1. ASSUME NEW s \in Slots, Advance(s) PROVE \E o : op' = [op EXCEPT ![s] = o]
      BY <3>1 DEF Advance, CreateStep, CreateSum, CreateInsert, CreateBlock, CreateLink, CreateBroken,
         DecisionStep, NextItem, DecisionSave, TspStep, TspBegin, TspAsk, TspKeep, TspFail, TspLast,
         WalletStep, Release, Freed, HookStep, HookSave, HookDebit, HookDebited, HookTxn, Goto, End
    <3>2. ASSUME NEW s \in Slots,
                 \/ BatchBegin(s) \/ JobRead(s) \/ Abort(s)
                 \/ \E r \in Refunds : CreateRead(s, r) \/ ApproveRead(s, r) \/ CancelRead(s, r) \/ HookRead(s, r)
          PROVE  \E o : op' = [op EXCEPT ![s] = o]
      BY <3>2 DEF BatchBegin, JobRead, Abort, CreateRead, ApproveRead, CancelRead, HookRead, ReadInto
    <3> QED
      BY <3>1, <3>2 DEF Next, vars, PaymentReport, Expire, Decide, HookIgnored
  <2> QED
    BY <1>a, <2>1, <2>2 DEF TypeOK
<1>2. row' \in [Refunds -> Entities \cup {NoRow}]
  <2>1. ASSUME NEW s \in Slots, Save(s) PROVE row' \in [Refunds -> Entities \cup {NoRow}]
    BY <2>1, <1>a DEF Save, TypeOK, Operations
  <2>2. ASSUME NEW r, NEW e \in Entities, row' = [row EXCEPT ![r] = e]
        PROVE  row' \in [Refunds -> Entities \cup {NoRow}]
    BY <2>2, <1>a DEF TypeOK
  <2>3. ASSUME NEW s \in Slots, CreateInsert(s) PROVE row' \in [Refunds -> Entities \cup {NoRow}]
    <3>1. \A status \in {"approved", "pending_approval"} : [NoRow EXCEPT !.status = status] \in Entities
      BY DEF Entities, NoRow, RefundStatuses
    <3>2. row' = row \/ \E e \in Entities : row' = [row EXCEPT ![op[s].r] = e]
      BY <2>3, <3>1 DEF CreateInsert
    <3> QED
      BY <3>2, <2>2, <1>a DEF TypeOK
  <2>4. ASSUME NEW s \in Slots, CreateBroken(s) \/ TspFail(s)
        PROVE  row' \in [Refunds -> Entities \cup {NoRow}]
    <3>1. op[s].ent \in Entities
      BY <2>4, <1>a DEF CreateBroken, TspFail, OpsOK, Knows, Rowless
    <3>2. [op[s].ent EXCEPT !.status = "failed"] \in Entities
      BY <3>1 DEF Entities, RefundStatuses
    <3>3. \E e \in Entities : row' = [row EXCEPT ![op[s].r] = e]
      BY <2>4, <3>2 DEF CreateBroken, TspFail
    <3> QED
      BY <3>3, <2>2
  <2>5. ASSUME NEW s \in Slots, TspBegin(s) PROVE row' \in [Refunds -> Entities \cup {NoRow}]
    <3>1. op[s].ent \in Entities
      BY <2>5, <1>a DEF TspBegin, OpsOK, Knows, Rowless
    <3>2. [op[s].ent EXCEPT !.status = "processing"] \in Entities
      BY <3>1 DEF Entities, RefundStatuses
    <3>3. row' = row \/ \E e \in Entities : row' = [row EXCEPT ![op[s].r] = e]
      BY <2>5, <3>2 DEF TspBegin
    <3> QED
      BY <3>3, <2>2, <1>a DEF TypeOK
  <2>7. CASE row' = row
    BY <2>7, <1>a DEF TypeOK
  <2>8. ASSUME NEW s \in Slots, Advance(s), row' # row
        PROVE  CreateInsert(s) \/ CreateBroken(s) \/ TspBegin(s) \/ TspFail(s) \/ Save(s)
    BY <2>8 DEF Advance, CreateStep, CreateSum, CreateBlock, CreateLink, DecisionStep, NextItem, DecisionSave,
         TspStep, TspAsk, TspKeep, TspLast, WalletStep, Release, Freed, HookStep, HookSave, HookDebit,
         HookDebited, HookTxn
  <2>9. row' = row \/ \E s \in Slots : Advance(s)
    BY DEF Next, vars, PaymentReport, Expire, Decide, HookIgnored, BatchBegin, JobRead, Abort, CreateRead,
         ApproveRead, CancelRead, HookRead
  <2> QED
    BY <2>1, <2>3, <2>4, <2>5, <2>7, <2>8, <2>9
<1>3. block' \in [Refunds -> {"none", "active", "debited", "released"}]
  <2>1. CASE \E s \in Slots : CreateBlock(s)
    BY <2>1, <1>a DEF CreateBlock, TypeOK
  <2>2. CASE \E s \in Slots : Release(s)
    BY <2>2, <1>a DEF Release, TypeOK
  <2>3. CASE \E s \in Slots : HookDebit(s)
    BY <2>3, <1>a DEF HookDebit, TypeOK
  <2>4. CASE block' = block
    BY <2>4, <1>a DEF TypeOK
  <2>5. ASSUME NEW s \in Slots, Advance(s), ~CreateBlock(s), ~Release(s), ~HookDebit(s) PROVE block' = block
    BY <2>5 DEF Advance, CreateStep, CreateSum, CreateInsert, CreateLink, CreateBroken, DecisionStep, NextItem,
       DecisionSave, TspStep, TspBegin, TspAsk, TspKeep, TspFail, TspLast, WalletStep, Freed, HookStep,
       HookSave, HookDebited, HookTxn
  <2> QED
    BY <2>1, <2>2, <2>3, <2>4, <2>5
       DEF Next, vars, PaymentReport, Expire, Decide, HookIgnored, BatchBegin, JobRead, Abort, CreateRead,
           ApproveRead, CancelRead, HookRead
<1>4. /\ txn' \in {"success", "refunded"} /\ expired' \subseteq Refunds
      /\ {asked', done', refused'} \subseteq [Refunds -> Nat] /\ delivered' \in [Refunds -> Nat]
  <2>1. CASE \E s \in Slots : TspAsk(s)
    BY <2>1, <1>a DEF TspAsk, TypeOK
  <2>2. CASE \E s \in Slots : HookTxn(s)
    BY <2>2, <1>a DEF HookTxn, TypeOK
  <2>3. CASE UNCHANGED <<txn, expired, asked, done, refused, delivered>>
    BY <2>3, <1>a DEF TypeOK
  <2>4. ASSUME NEW s \in Slots, Advance(s), ~TspAsk(s), ~HookTxn(s)
        PROVE  UNCHANGED <<txn, expired, asked, done, refused, delivered>>
    <3>1. CASE CreateStep(s) \/ DecisionStep(s)
      BY <3>1 DEF CreateStep, CreateSum, CreateInsert, CreateBlock, CreateLink, CreateBroken, DecisionStep,
         NextItem, DecisionSave
    <3>2. CASE TspStep(s)
      <4>1. TspBegin(s) \/ TspKeep(s) \/ TspFail(s) \/ TspLast(s)
        BY <2>4, <3>2 DEF TspStep
      <4>2. CASE TspBegin(s)
        BY <4>2 DEF TspBegin
      <4>3. CASE TspKeep(s) \/ TspLast(s)
        BY <4>3 DEF TspKeep, TspLast
      <4>4. CASE TspFail(s)
        BY <4>4 DEF TspFail
      <4> QED
        BY <4>1, <4>2, <4>3, <4>4
    <3>3. CASE WalletStep(s) \/ HookStep(s)
      BY <2>4, <3>3 DEF WalletStep, Release, Freed, HookStep, HookSave, HookDebit, HookDebited
    <3> QED
      BY <2>4, <3>1, <3>2, <3>3 DEF Advance
  <2>5. CASE \E r \in Refunds : Expire(r) \/ HookIgnored(r) \/ \E s \in Slots : HookRead(s, r)
    <3>1. CASE \E r \in Refunds : Expire(r)
      BY <3>1, <1>a DEF Expire, TypeOK
    <3>2. CASE \E r \in Refunds : HookIgnored(r) \/ \E s \in Slots : HookRead(s, r)
      <4>1. PICK r \in Refunds : delivered' = [delivered EXCEPT ![r] = @ + 1]
        BY <3>2 DEF HookIgnored, HookRead
      <4>2. delivered' \in [Refunds -> Nat]
        BY <4>1, <1>a DEF TypeOK
      <4>3. UNCHANGED <<txn, expired, asked, done, refused>>
        BY <3>2 DEF HookIgnored, HookRead
      <4> QED
        BY <4>2, <4>3, <1>a DEF TypeOK
    <3> QED
      BY <2>5, <3>1, <3>2
  <2>6. CASE \E r \in Refunds : Decide(r)
    BY <2>6, <1>a DEF Decide, TypeOK
  <2>7. CASE PaymentReport
    BY <2>7, <1>a DEF PaymentReport, TypeOK
  <2> QED
    BY <2>1, <2>2, <2>3, <2>4, <2>5, <2>6, <2>7
       DEF Next, vars, BatchBegin, JobRead, Abort, CreateRead, ApproveRead, CancelRead
<1>5. told' \subseteq Refunds
  <2>1. ASSUME NEW s \in Slots, HookTxn(s) PROVE told' \subseteq Refunds
    <3>1. op[s].r \in Refunds
      BY <2>1, <1>a DEF HookTxn, OpsOK, Knows
    <3> QED
      BY <2>1, <3>1, <1>a DEF HookTxn, TypeOK
  <2>2. told' = told \/ \E s \in Slots : HookTxn(s)
    <3>1. ASSUME NEW s \in Slots, Advance(s), ~HookTxn(s) PROVE told' = told
      BY <3>1 DEF Advance, CreateStep, CreateSum, CreateInsert, CreateBlock, CreateLink, CreateBroken,
         DecisionStep, NextItem, DecisionSave, TspStep, TspBegin, TspAsk, TspKeep, TspFail, TspLast,
         WalletStep, Release, Freed, HookStep, HookSave, HookDebit, HookDebited
    <3> QED
      BY <3>1 DEF Next, vars, PaymentReport, Expire, Decide, HookIgnored, BatchBegin, JobRead, Abort, CreateRead,
         ApproveRead, CancelRead, HookRead
  <2> QED
    BY <2>1, <2>2, <1>a DEF TypeOK
<1> QED
  BY <1>1, <1>2, <1>3, <1>4, <1>5 DEF TypeOK

----------------------------------------------------------------------------
(* Nothing is called completed before the provider has carried it out. *)

LEMMA CompletedStep == IInv /\ [Next]_vars => CompletedIsDone'
<1> USE DEF provider
<1> SUFFICES ASSUME IInv, [Next]_vars PROVE CompletedIsDone'
  OBVIOUS
<1>a. TypeOK /\ OpsOK /\ CompletedIsDone /\ Growing
  BY GrowingStep DEF IInv
<1>1. ASSUME NEW r \in Refunds, row'[r] # row[r], row'[r].status = "completed"
      PROVE  done'[r] > 0
  <2>1. ASSUME NEW z \in Slots, Advance(z) PROVE done'[r] > 0
    <3>1. \/ Save(z) /\ op[z].at \notin {"idle", "next"}
          \/ \E e : row' = [row EXCEPT ![op[z].r] = e] /\ e.status # "completed" /\ op[z].at \notin {"idle", "next"}
      <4>1. CASE CreateInsert(z)
        <5>1. \A status \in {"approved", "pending_approval"} : [NoRow EXCEPT !.status = status].status = status
          BY DEF NoRow
        <5> QED
          BY <4>1, <5>1, <1>1 DEF CreateInsert
      <4>2. CASE CreateBroken(z) \/ TspFail(z)
        <5>1. op[z].ent \in Entities /\ op[z].at \notin {"idle", "next"}
          BY <4>2, <1>a DEF CreateBroken, TspFail, OpsOK, Knows, Rowless
        <5>2. [op[z].ent EXCEPT !.status = "failed"].status = "failed"
          BY <5>1 DEF Entities
        <5> QED
          BY <4>2, <5>1, <5>2 DEF CreateBroken, TspFail
      <4>3. CASE TspBegin(z)
        <5>1. op[z].ent \in Entities /\ op[z].at \notin {"idle", "next"}
          BY <4>3, <1>a DEF TspBegin, OpsOK, Knows, Rowless
        <5>2. [op[z].ent EXCEPT !.status = "processing"].status = "processing"
          BY <5>1 DEF Entities
        <5> QED
          BY <4>3, <5>1, <5>2, <1>1 DEF TspBegin
      <4> QED
        BY <2>1, <4>1, <4>2, <4>3, <1>1
           DEF Advance, CreateStep, CreateSum, CreateBlock, CreateLink, DecisionStep, NextItem, DecisionSave,
               TspStep, TspAsk, TspKeep, TspLast, WalletStep, Release, Freed, HookStep, HookSave, HookDebit,
               HookDebited, HookTxn
    <3>2. op[z].r = r
      BY <3>1, <1>1, <1>a DEF Save, TypeOK
    <3>3. op[z].ent.status = "completed"
      BY <3>1, <3>2, <1>1, <1>a DEF Save, TypeOK
    <3> QED
      BY <3>2, <3>3, <1>a DEF OpsOK, Knows, Growing
  <2>2. row' = row \/ \E z \in Slots : Advance(z)
    BY DEF Next, vars, PaymentReport, Expire, Decide, HookIgnored, BatchBegin, JobRead, Abort, CreateRead,
       ApproveRead, CancelRead, HookRead
  <2> QED
    BY <1>1, <2>1, <2>2
<1>2. ASSUME NEW s \in Slots, HookTxn(s)
      PROVE  op[s].r \in Refunds /\ done'[op[s].r] > 0 /\ told' = told \cup {op[s].r}
  BY <1>2, <1>a DEF HookTxn, OpsOK, Knows, Paying, Growing
<1>3. \/ told' = told /\ (txn' = "refunded" => txn = "refunded")
      \/ \E s \in Slots : HookTxn(s)
  <2>1. ASSUME NEW s \in Slots, Advance(s), ~HookTxn(s) PROVE told' = told /\ txn' = txn
    BY <2>1 DEF Advance, CreateStep, CreateSum, CreateInsert, CreateBlock, CreateLink, CreateBroken,
       DecisionStep, NextItem, DecisionSave, TspStep, TspBegin, TspAsk, TspKeep, TspFail, TspLast,
       WalletStep, Release, Freed, HookStep, HookSave, HookDebit, HookDebited
  <2> QED
    BY <2>1 DEF Next, vars, PaymentReport, Expire, Decide, HookIgnored, BatchBegin, JobRead, Abort, CreateRead,
       ApproveRead, CancelRead, HookRead
<1>4. ASSUME NEW r \in Refunds, (row[r].status = "completed")' \/ r \in told' PROVE done'[r] > 0
  <2>1. CASE r \in told'
    BY <2>1, <1>2, <1>3, <1>a DEF CompletedIsDone, Growing
  <2>2. CASE row'[r].status = "completed" /\ row'[r] = row[r]
    BY <2>2, <1>a DEF CompletedIsDone, Growing
  <2>3. CASE row'[r].status = "completed" /\ row'[r] # row[r]
    BY <2>3, <1>1
  <2> QED
    BY <1>4, <2>1, <2>2, <2>3
<1>5. txn' = "refunded" => DoneRefunds' # {}
  BY <1>2, <1>3, <1>a DEF CompletedIsDone, DoneRefunds, Growing
<1> QED
  BY <1>4, <1>5 DEF CompletedIsDone

LEMMA InitIInv == Init => IInv
<1> SUFFICES ASSUME Init PROVE IInv
  OBVIOUS
<1>1. TypeOK
  BY IdleFacts DEF Init, TypeOK
<1>2. OpsOK
  <2>1. Idle.at = "idle" /\ Idle.list = << >>
    BY DEF Idle
  <2>2. Knows(Idle)
    BY <2>1, IdleFacts DEF Knows, Rowless, Paying
  <2> QED
    BY <2>2 DEF Init, OpsOK, Knows
<1>3. CompletedIsDone
  BY DEF Init, CompletedIsDone, NoRow
<1> QED
  BY <1>1, <1>2, <1>3 DEF IInv

LEMMA InductiveStep == IInv /\ [Next]_vars => IInv'
  BY TypeStep, OpsStep, CompletedStep DEF IInv

\* The invariant the theorems below are read off from.
THEOREM Inductive == Spec => []IInv
  BY InitIInv, InductiveStep, PTL DEF Spec

----------------------------------------------------------------------------
(* The theorems. *)

\* Type correctness: requests, decisions, the hourly job and webhooks write back no row that the
\* refunds table does not know, whatever rows they had read.
THEOREM TypeCorrect == Spec => []TypeOK
<1>1. IInv => TypeOK
  BY DEF IInv
<1> QED
  BY <1>1, Inductive, PTL

\* Nobody hears that a refund is completed, and neither its row nor the transaction says so, before
\* the provider has carried a refund out, whatever webhooks repeat and whichever process dies.
THEOREM CompletedRefundsAreDone == Spec => []CompletedIsDone
<1>1. IInv => CompletedIsDone
  BY DEF IInv
<1> QED
  BY <1>1, Inductive, PTL

----------------------------------------------------------------------------
(* The abstract ledger. *)

LEMMA HeldFacts == IsFiniteSet(Held) /\ Cardinality(Held) \in Nat
<1>1. Held \subseteq Refunds
  BY DEF Held
<1>2. IsFiniteSet(Held)
  BY <1>1, RefundSetAssumption, FS_Subset
<1> QED
  BY <1>2, FS_CardinalityType

LEMMA AvailableInt == Available \in Int
  BY HeldFacts, RefundBoundAssumption DEF Available

\* What the three steps of a block do to the balance that is left.
LEMMA BlockCounts ==
  ASSUME TypeOK, NEW r \in Refunds
  PROVE  /\ block[r] = "none" /\ block' = [block EXCEPT ![r] = "active"] => Available' = Available - 1
         /\ block[r] = "active" /\ block' = [block EXCEPT ![r] = "released"] => Available' = Available + 1
         /\ block[r] = "active" /\ block' = [block EXCEPT ![r] = "debited"] => Available' = Available
<1>1. ASSUME block[r] = "none", block' = [block EXCEPT ![r] = "active"] PROVE Available' = Available - 1
  <2>1. r \notin Held /\ Held' = Held \cup {r}
    BY <1>1 DEF Held, TypeOK
  <2>2. Cardinality(Held') = Cardinality(Held) + 1
    BY <2>1, HeldFacts, FS_AddElement
  <2> QED
    BY <2>2, HeldFacts, RefundBoundAssumption DEF Available
<1>2. ASSUME block[r] = "active", block' = [block EXCEPT ![r] = "released"] PROVE Available' = Available + 1
  <2>1. r \in Held /\ Held' = Held \ {r}
    BY <1>2 DEF Held, TypeOK
  <2>2. Cardinality(Held') = Cardinality(Held) - 1
    BY <2>1, HeldFacts, FS_RemoveElement
  <2> QED
    BY <2>2, HeldFacts, RefundBoundAssumption DEF Available
<1>3. ASSUME block[r] = "active", block' = [block EXCEPT ![r] = "debited"] PROVE Available' = Available
  <2>1. Held' = Held
    BY <1>3 DEF Held, TypeOK
  <2> QED
    BY <2>1 DEF Available
<1> QED
  BY <1>1, <1>2, <1>3

LEMMA LedgerStart == Init => Ledger!LedgerInit
<1> SUFFICES ASSUME Init PROVE Ledger!LedgerInit
  OBVIOUS
<1>1. Held = {} /\ DoneRefunds = {}
  BY DEF Init, Held, DoneRefunds
<1>2. Available = Balance
  BY <1>1, FS_EmptySet, RefundBoundAssumption DEF Available
<1> QED
  BY <1>1, <1>2 DEF Init, Ledger!LedgerInit

\* Every step of the service and its providers is a step of the ledger or none at all.
LEMMA LedgerStep == IInv /\ [Next]_vars => [Ledger!LedgerNext]_(Ledger!ledgerVars)
<1> USE DEF provider
<1> SUFFICES ASSUME IInv, [Next]_vars PROVE [Ledger!LedgerNext]_(Ledger!ledgerVars)
  OBVIOUS
<1>a. TypeOK /\ OpsOK
  BY DEF IInv
<1>1. CASE UNCHANGED <<done, block>>
  <2>1. DoneRefunds' = DoneRefunds /\ Held' = Held
    BY <1>1 DEF DoneRefunds, Held
  <2>2. Available' = Available
    BY <2>1 DEF Available
  <2> QED
    BY <1>1, <2>1, <2>2 DEF Ledger!ledgerVars
<1>2. ASSUME NEW r \in Refunds, Decide(r), done' # done
      PROVE  [Ledger!LedgerNext]_(Ledger!ledgerVars)
  <2>1. done' = [done EXCEPT ![r] = @ + 1] /\ block' = block
    BY <1>2 DEF Decide
  <2>2. DoneRefunds' = DoneRefunds \cup {r}
    BY <2>1, <1>a DEF DoneRefunds, TypeOK
  <2>3. Available' = Available
    BY <2>1 DEF Available, Held
  <2>4. CASE r \in DoneRefunds
    BY <2>1, <2>2, <2>3, <2>4 DEF Ledger!ledgerVars
  <2>5. CASE r \notin DoneRefunds
    BY <2>1, <2>2, <2>3, <2>5 DEF Ledger!LedgerNext, Ledger!CarryOut
  <2> QED
    BY <2>4, <2>5
<1>3. ASSUME NEW s \in Slots, CreateBlock(s), block' # block
      PROVE  Ledger!LedgerNext
  <2>1. /\ op[s].r \in Refunds /\ block[op[s].r] = "none" /\ Available > 0
        /\ block' = [block EXCEPT ![op[s].r] = "active"] /\ done' = done
    BY <1>3, <1>a DEF CreateBlock, OpsOK, Knows
  <2>2. Available' = Available - 1 /\ DoneRefunds' = DoneRefunds
    BY <2>1, <1>a, BlockCounts DEF DoneRefunds
  <2> QED
    BY <2>1, <2>2 DEF Ledger!LedgerNext, Ledger!Hold
<1>4. ASSUME NEW s \in Slots, Release(s), block' # block
      PROVE  Ledger!LedgerNext
  <2>1. /\ op[s].r \in Refunds /\ block[op[s].r] = "active"
        /\ block' = [block EXCEPT ![op[s].r] = "released"] /\ done' = done
    BY <1>4, <1>a DEF Release, OpsOK, Knows
  <2>2. Available' = Available + 1 /\ DoneRefunds' = DoneRefunds
    BY <2>1, <1>a, BlockCounts DEF DoneRefunds
  <2> QED
    BY <2>1, <2>2 DEF Ledger!LedgerNext, Ledger!GiveBack
<1>5. ASSUME NEW s \in Slots, HookDebit(s), block' # block
      PROVE  Ledger!LedgerNext
  <2>1. /\ op[s].r \in Refunds /\ block[op[s].r] = "active" /\ done[op[s].r] > 0
        /\ block' = [block EXCEPT ![op[s].r] = "debited"] /\ done' = done
    BY <1>5, <1>a DEF HookDebit, OpsOK, Knows, Paying
  <2>2. Available' = Available /\ DoneRefunds' = DoneRefunds /\ op[s].r \in DoneRefunds
    BY <2>1, <1>a, BlockCounts DEF DoneRefunds
  <2> QED
    BY <2>1, <2>2 DEF Ledger!LedgerNext, Ledger!Take
<1>6. ASSUME NEW s \in Slots, Advance(s), ~CreateBlock(s), ~Release(s), ~HookDebit(s)
      PROVE  UNCHANGED <<done, block>>
  BY <1>6 DEF Advance, CreateStep, CreateSum, CreateInsert, CreateLink, CreateBroken, DecisionStep, NextItem,
     DecisionSave, TspStep, TspBegin, TspAsk, TspKeep, TspFail, TspLast, WalletStep, Freed, HookStep,
     HookSave, HookDebited, HookTxn
<1>7. ASSUME NEW s \in Slots, CreateBlock(s) \/ Release(s) \/ HookDebit(s) PROVE done' = done
  BY <1>7 DEF CreateBlock, Release, HookDebit
<1>8. ASSUME NEW r \in Refunds, Decide(r) PROVE block' = block
  BY <1>8 DEF Decide
<1>9. \/ UNCHANGED <<done, block>>
      \/ \E r \in Refunds : Decide(r)
      \/ \E s \in Slots : Advance(s)
  BY DEF Next, vars, PaymentReport, Expire, HookIgnored, BatchBegin, JobRead, Abort, CreateRead, ApproveRead,
     CancelRead, HookRead
<1> QED
  BY <1>1, <1>2, <1>3, <1>4, <1>5, <1>6, <1>7, <1>8, <1>9

\* Refunds keep the merchant's ledger: the wallet blocks within the balance and settles each block
\* once, and takes the money only for a refund the provider has carried out, whichever of approval,
\* cancellation, hourly job and webhook writes over which.
THEOREM LedgerIsKept == Spec => ImplementsLedger
  BY LedgerStart, LedgerStep, Inductive, PTL DEF Spec, ImplementsLedger, Ledger!LedgerSpec

----------------------------------------------------------------------------
(* One operation at a time, nothing lost, every report final.  What the row, the wallet
   and the provider owe each other where nothing is in flight, and what an operation in
   progress holds in its hands instead. *)

Serial == Faults = FALSE /\ FinalReportsOnly = TRUE /\ \A s, t \in Slots : s = t

Ended == {"failed", "rejected", "cancelled"}

Undone(r) == asked[r] = 0 /\ done[r] = 0
Never(r)  == Undone(r) /\ refused[r] = 0
Once(r)   == asked[r] + done[r] + refused[r] <= 1

Agrees(r) ==
  /\ row[r].status # "approved"
  /\ row[r].status = "none" => block[r] = "none" /\ Never(r)
  /\ row[r].status = "pending_approval" => row[r].link /\ block[r] = "active" /\ Never(r)
  /\ row[r].status = "processing" => row[r].link /\ block[r] = "active"
  /\ row[r].status = "completed" => block[r] = "debited" /\ done[r] > 0
  /\ row[r].status \in Ended => block[r] \in {"none", "released"} /\ Undone(r)

\* From here on a block is active, settled, or was never made.
Unblocked == {"block", "broken"}
Reserved  == {"link", "adapter", "ask", "decide", "fail", "declined", "keep", "report", "debit",
              "release", "giveback"}
GivenBack == {"freed", "given", "last"}

Holds(at, r, e) ==
  /\ at \notin Rowless => row[r] # NoRow
  /\ at \in {"sum", "insert"} => row[r] = NoRow
  /\ at = "insert" => \A q \in Refunds : row[q].status # "completed"
  /\ at \in Unblocked => block[r] = "none"
  /\ at \in Reserved => e.link /\ block[r] = "active"
  /\ at \in GivenBack => block[r] = "released"
  /\ at \in {"debited", "txn"} => block[r] = "debited"
  /\ at \in {"block", "broken", "link", "adapter", "ask", "decide", "fail", "declined"} => Never(r)
  /\ at \in GivenBack \cup {"release", "giveback"} => Undone(r) /\ e.status \in Ended
  /\ at \in {"block", "link"} => e.status \in {"approved", "pending_approval"}
  /\ at = "decide" => e.status \in {"approved", "rejected", "cancelled"}
  /\ at \in {"ask", "keep"} => e.status = "processing"
  /\ at = "report" => e.status = "completed" \/ (e.status = "failed" /\ Undone(r))
  /\ at \in Paying => e.status = "completed"
  /\ at = "txn" => row[r].status = "completed"

InHand(o) == Holds(o.at, o.r, o.ent)

\* What the job has read, or a batch is to create, nobody else has touched.
ListTrue(o) ==
  \A q \in DOMAIN o.list : /\ q # o.r
                           /\ o.list[q] # NoRow => /\ o.list[q] = row[q]
                                                   /\ row[q].status = "pending_approval"

HandsOK  == \A s \in Slots : InHand(op[s]) /\ ListTrue(op[s])
AgreesOK == \A r \in Refunds : (\A s \in Slots : op[s].at \in Rowless \/ op[s].r # r) => Agrees(r)
OnceOK   == \A r \in Refunds : Once(r)

SInv == Serial /\ IInv /\ HandsOK /\ AgreesOK /\ OnceOK

SParts == HandsOK /\ AgreesOK /\ OnceOK

\* A step on behalf of refund r touches no other refund.
OnlyOf(r) ==
  \A q \in Refunds \ {r} : /\ row'[q] = row[q] /\ block'[q] = block[q]
                           /\ asked'[q] = asked[q] /\ done'[q] = done[q] /\ refused'[q] = refused[q]

LEMMA SameAgrees ==
  ASSUME NEW q \in Refunds, row'[q] = row[q], block'[q] = block[q],
         asked'[q] = asked[q], done'[q] = done[q], refused'[q] = refused[q]
  PROVE  /\ Agrees(q)' <=> Agrees(q)
         /\ Once(q)' <=> Once(q)
  BY DEF Agrees, Once, Never, Undone

\* The operation goes on, with a step and an entity that hold what the step needs.
LEMMA SerialWork ==
  ASSUME SInv, NEW s \in Slots, NEW r \in Refunds, op[s].r = r,
         NEW at \in Stages \ Rowless, NEW e \in Entities,
         op'[s] = [op[s] EXCEPT !.at = at, !.ent = e],
         OnlyOf(r), Once(r)', Holds(at, r, e)'
  PROVE  SParts'
<1>a. HandsOK /\ AgreesOK /\ OnceOK /\ Knows(op[s]) /\ \A t \in Slots : t = s
  BY DEF SInv, Serial, IInv, OpsOK
<1>b. op[s] \in Operations
  BY <1>a DEF Knows
<1>c. op'[s].at = at /\ op'[s].r = r /\ op'[s].ent = e /\ op'[s].list = op[s].list
  BY <1>b DEF Operations
<1>d. DOMAIN op[s].list \subseteq Refunds
  BY <1>b, ListType DEF Operations
<1>1. ListTrue(op[s])'
  <2>1. ListTrue(op[s]) /\ \A q \in DOMAIN op[s].list : q # r /\ row'[q] = row[q]
    BY <1>a, <1>d DEF HandsOK, ListTrue, OnlyOf
  <2> QED
    BY <2>1, <1>c DEF ListTrue
<1>2. HandsOK'
  BY <1>1, <1>a, <1>c DEF HandsOK, InHand
<1>3. AgreesOK'
  <2> SUFFICES ASSUME NEW q \in Refunds, q # r PROVE Agrees(q)'
    BY <1>c, <1>a DEF AgreesOK
  <2>1. Agrees(q)
    BY <1>a DEF AgreesOK
  <2> QED
    BY <2>1, SameAgrees DEF OnlyOf
<1>4. OnceOK'
  BY <1>a, SameAgrees DEF OnceOK, OnlyOf
<1> QED
  BY <1>2, <1>3, <1>4 DEF SParts

\* The operation is over, and its refund is in order.
LEMMA SerialEnd ==
  ASSUME SInv, NEW s \in Slots, NEW r \in Refunds, op[s].r = r, End(s), OnlyOf(r), Once(r)', Agrees(r)'
  PROVE  SParts'
<1>a. TypeOK /\ HandsOK /\ AgreesOK /\ OnceOK /\ Knows(op[s]) /\ \A t \in Slots : t = s
  BY DEF SInv, Serial, IInv, OpsOK
<1>b. op[s] \in Operations
  BY <1>a DEF Knows
<1>c. /\ op'[s].at \in {"idle", "next"} /\ op'[s].r = "none"
      /\ op'[s].list = op[s].list \/ DOMAIN op'[s].list = {}
  <2>1. op'[s] = Rest(s)
    BY <1>a DEF End, TypeOK
  <2>2. CASE DOMAIN op[s].list = {}
    BY <2>1, <2>2, IdleFacts DEF Rest, Idle
  <2>3. CASE DOMAIN op[s].list # {}
    BY <2>1, <2>3, <1>b DEF Rest, Operations
  <2> QED
    BY <2>2, <2>3
<1>d. DOMAIN op[s].list \subseteq Refunds
  BY <1>b, ListType DEF Operations
<1>1. ListTrue(op[s])'
  <2>1. ListTrue(op[s]) /\ \A q \in DOMAIN op[s].list : q # r /\ row'[q] = row[q] /\ q # "none"
    BY <1>a, <1>d, RefundSetAssumption DEF HandsOK, ListTrue, OnlyOf
  <2> QED
    BY <2>1, <1>c DEF ListTrue
<1>2. InHand(op[s])'
  BY <1>c DEF InHand, Holds, Rowless, Unblocked, Reserved, GivenBack, Paying
<1>3. HandsOK'
  BY <1>1, <1>2, <1>a DEF HandsOK
<1>4. AgreesOK'
  <2> SUFFICES ASSUME NEW q \in Refunds, q # r PROVE Agrees(q)'
    BY DEF AgreesOK
  <2>1. Agrees(q)
    BY <1>a DEF AgreesOK
  <2> QED
    BY <2>1, SameAgrees DEF OnlyOf
<1>5. OnceOK'
  BY <1>a, SameAgrees DEF OnceOK, OnlyOf
<1> QED
  BY <1>3, <1>4, <1>5 DEF SParts

\* An operation begins, or takes the next of its list: nothing but its record changes.
LEMMA SerialBegin ==
  ASSUME SInv, NEW s \in Slots, op[s].at \in Rowless, UNCHANGED <<row, block, provider>>,
         InHand(op[s])', ListTrue(op[s])'
  PROVE  SParts'
<1>a. HandsOK /\ AgreesOK /\ OnceOK /\ \A t \in Slots : t = s
  BY DEF SInv, Serial
<1>1. \A q \in Refunds : Agrees(q)' /\ Once(q)'
  BY <1>a, SameAgrees DEF AgreesOK, OnceOK, Rowless, provider
<1> QED
  BY <1>a, <1>1 DEF SParts, HandsOK, AgreesOK, OnceOK

LEMMA SerialOutside ==
  ASSUME SInv, op' = op, UNCHANGED <<row, block>>,
         UNCHANGED provider \/ \E r \in Refunds : Decide(r)
  PROVE  SParts'
<1>a. TypeOK /\ HandsOK /\ AgreesOK /\ OnceOK
  BY DEF SInv, IInv
<1>1. CASE UNCHANGED provider
  <2>1. \A q \in Refunds : (Agrees(q)' <=> Agrees(q)) /\ (Once(q)' <=> Once(q))
    BY <1>1, SameAgrees DEF provider
  <2> QED
    BY <2>1, <1>1, <1>a
       DEF SParts, HandsOK, AgreesOK, OnceOK, InHand, Holds, ListTrue, Never, Undone, provider
<1>2. ASSUME NEW r \in Refunds, Decide(r) PROVE SParts'
  <2>1. /\ asked[r] \in Nat /\ done[r] \in Nat /\ refused[r] \in Nat /\ asked[r] > 0
        /\ asked'[r] = asked[r] - 1
        /\ \/ done'[r] = done[r] + 1 /\ refused'[r] = refused[r]
           \/ refused'[r] = refused[r] + 1 /\ done'[r] = done[r]
    BY <1>2, <1>a DEF Decide, TypeOK
  <2>2. \A q \in Refunds \ {r} : asked'[q] = asked[q] /\ done'[q] = done[q] /\ refused'[q] = refused[q]
    BY <1>2, <1>a DEF Decide, TypeOK
  <2>3. ~Undone(r) /\ ~Never(r)
    BY <2>1 DEF Undone, Never
  <2>4. \A q \in Refunds : (Undone(q) => Undone(q)') /\ (Never(q) => Never(q)')
    BY <2>2, <2>3 DEF Undone, Never
  <2>5. HandsOK'
    <3> SUFFICES ASSUME NEW t \in Slots PROVE InHand(op[t])' /\ ListTrue(op[t])'
      BY DEF HandsOK
    <3>1. op[t].at \notin {"idle", "next"} => op[t].r \in Refunds
      BY DEF SInv, IInv, OpsOK, Knows
    <3> QED
      BY <3>1, <2>4, <1>a
         DEF HandsOK, InHand, Holds, ListTrue, Rowless, Unblocked, Reserved, GivenBack, Paying
  <2>6. AgreesOK'
    <3> SUFFICES ASSUME NEW q \in Refunds, Agrees(q) PROVE Agrees(q)'
      BY <1>a DEF AgreesOK
    <3>1. done[q] > 0 => done'[q] > 0
      BY <2>1, <2>2
    <3> QED
      BY <3>1, <2>4 DEF Agrees
  <2>7. Once(r)'
    BY <2>1, <1>a DEF OnceOK, Once
  <2>8. OnceOK'
    BY <2>2, <2>7, <1>a DEF OnceOK, Once
  <2> QED
    BY <2>5, <2>6, <2>8 DEF SParts
<1> QED
  BY <1>1, <1>2

\* What a proof about a step of slot s, at work on refund r with entity e, starts from.
LEMMA AtHand ==
  ASSUME SInv, NEW s \in Slots
  PROVE  /\ TypeOK /\ Faults = FALSE /\ FinalReportsOnly = TRUE
         /\ op[s] \in Operations /\ Holds(op[s].at, op[s].r, op[s].ent)
         /\ op[s].at \notin {"idle", "next"} => op[s].r \in Refunds
         /\ op[s].at \notin Rowless => op[s].ent \in Entities
         /\ op[s].at \in Rowless => AgreesOK /\ \A r \in Refunds : Agrees(r)
         /\ \A r \in Refunds : /\ Once(r) /\ row[r] \in Entities \cup {NoRow}
                               /\ asked[r] \in Nat /\ done[r] \in Nat /\ refused[r] \in Nat
<1>1. \A t \in Slots : t = s
  BY DEF SInv, Serial
<1>2. Knows(op[s]) /\ InHand(op[s]) /\ TypeOK
  BY DEF SInv, IInv, OpsOK, HandsOK
<1>3. op[s].at \in Rowless => AgreesOK /\ \A r \in Refunds : Agrees(r)
  BY <1>1 DEF SInv, AgreesOK
<1>4. Faults = FALSE /\ FinalReportsOnly = TRUE /\ OnceOK
  BY DEF SInv, Serial
<1>5. \A r \in Refunds : asked[r] \in Nat /\ done[r] \in Nat /\ refused[r] \in Nat
                         /\ row[r] \in Entities \cup {NoRow}
  BY <1>2 DEF TypeOK
<1> QED
  BY <1>2, <1>3, <1>4, <1>5 DEF Knows, InHand, OnceOK

\* A step that writes the row, or the block, of one refund only.
LEMMA Touches ==
  ASSUME TypeOK, NEW r \in Refunds, UNCHANGED provider,
         row' = row \/ \E x : row' = [row EXCEPT ![r] = x],
         block' = block \/ \E x : block' = [block EXCEPT ![r] = x]
  PROVE  OnlyOf(r) /\ (Once(r)' <=> Once(r)) /\ (Undone(r)' <=> Undone(r)) /\ (Never(r)' <=> Never(r))
<1>1. \A q \in Refunds \ {r} : row'[q] = row[q] /\ block'[q] = block[q]
  BY DEF TypeOK
<1> QED
  BY <1>1 DEF OnlyOf, Once, Undone, Never, provider

LEMMA Went ==
  ASSUME TypeOK, NEW s \in Slots, NEW at \in Stages, Goto(s, at)
  PROVE  op'[s] = [op[s] EXCEPT !.at = at, !.ent = op[s].ent]
<1>1. op[s] \in Operations
  BY DEF TypeOK
<1> QED
  BY <1>1 DEF Goto, TypeOK, Operations

LEMMA SerialSum == ASSUME SInv, NEW s \in Slots, CreateSum(s) PROVE SParts'
<1>a. TypeOK /\ op[s].at = "sum" /\ op[s].r \in Refunds /\ Agrees(op[s].r) /\ Once(op[s].r)
      /\ row[op[s].r] = NoRow /\ op[s] \in Operations
  BY AtHand DEF CreateSum, Rowless, Holds
<1>b. UNCHANGED <<row, block, provider>>
  BY DEF CreateSum, provider
<1>1. CASE End(s)
  BY <1>1, <1>a, <1>b, Touches, SameAgrees, SerialEnd DEF provider
<1>2. CASE Goto(s, "insert") /\ ~End(s)
  <2>1. op'[s].at = "insert" /\ op'[s].r = op[s].r /\ op'[s].list = op[s].list
    BY <1>2, <1>a DEF Goto, TypeOK, Operations
  <2>2. \A q \in Refunds : row[q].status # "completed"
    BY <1>2 DEF CreateSum
  <2>3. InHand(op[s])'
    BY <2>1, <2>2, <1>a, <1>b DEF InHand, Holds, Rowless, Unblocked, Reserved, GivenBack, Paying
  <2>4. ListTrue(op[s])'
    BY <2>1, <1>b DEF SInv, HandsOK, ListTrue
  <2> QED
    BY <2>3, <2>4, <1>a, <1>b, SerialBegin DEF Rowless
<1> QED
  BY <1>1, <1>2 DEF CreateSum

LEMMA SerialInsert ==
  ASSUME SInv, NEW s \in Slots, NEW r \in Refunds, op[s].r = r, CreateInsert(s)
  PROVE  SParts'
<1>a. /\ TypeOK /\ op[s].at = "insert" /\ Agrees(r) /\ Once(r)
      /\ row[r] = NoRow /\ op[s] \in Operations
  BY AtHand DEF CreateInsert, Rowless, Holds
<1>1. PICK status \in {"approved", "pending_approval"} :
        /\ row' = [row EXCEPT ![r] = [NoRow EXCEPT !.status = status]]
        /\ op' = [op EXCEPT ![s].at = "block", ![s].ent = [NoRow EXCEPT !.status = status]]
  BY <1>a DEF CreateInsert
<1> DEFINE e == [NoRow EXCEPT !.status = status]
<1>2. e \in Entities /\ e.status = status /\ e # NoRow
  BY DEF Entities, NoRow, RefundStatuses
<1>3. op'[s] = [op[s] EXCEPT !.at = "block", !.ent = e]
  BY <1>1, <1>a DEF TypeOK, Operations
<1>4. row' = [row EXCEPT ![r] = e] /\ UNCHANGED <<block, provider>>
  BY <1>1 DEF CreateInsert, provider
<1>5. block[r] = "none" /\ Never(r)
  BY <1>a DEF Agrees, NoRow
<1> HIDE DEF e
<1>6. OnlyOf(r) /\ Once(r)' /\ Never(r)'
  BY <1>4, <1>5, <1>a, Touches
<1>7. Holds("block", r, e)'
  BY <1>2, <1>4, <1>5, <1>6, <1>a DEF Holds, TypeOK, Rowless, Unblocked, Reserved, GivenBack, Paying
<1>8. "block" \in Stages \ Rowless
  BY DEF Stages, Rowless
<1> QED
  BY <1>2, <1>3, <1>6, <1>7, <1>8, <1>a, SerialWork

LEMMA SerialBlock ==
  ASSUME SInv, NEW s \in Slots, NEW r \in Refunds, NEW e \in Entities, op[s].r = r, op[s].ent = e,
         CreateBlock(s)
  PROVE  SParts'
<1>a. TypeOK /\ op[s].at = "block" /\ Holds("block", r, e) /\ Once(r) /\ op[s] \in Operations
      /\ Faults = FALSE
  BY AtHand DEF CreateBlock
<1>b. UNCHANGED <<row, provider>>
  BY DEF CreateBlock, provider
<1>1. CASE /\ block' = [block EXCEPT ![r] = "active"]
           /\ op' = [op EXCEPT ![s].at = "link", ![s].ent.link = TRUE, ![s].ent.blocked = TRUE]
  <2> DEFINE f == [e EXCEPT !.link = TRUE, !.blocked = TRUE]
  <2>1. f \in Entities /\ f.status = e.status /\ f.link
    BY EntFacts DEF Entities
  <2>2. op'[s] = [op[s] EXCEPT !.at = "link", !.ent = f]
    BY <1>1, <1>a DEF TypeOK, Operations
  <2>3. OnlyOf(r) /\ Once(r)' /\ Never(r)' /\ block'[r] = "active"
    BY <1>1, <1>a, <1>b, Touches DEF TypeOK, Holds
  <2> HIDE DEF f
  <2>4. Holds("link", r, f)'
    BY <2>1, <2>3, <1>a, <1>b DEF Holds, Rowless, Unblocked, Reserved, GivenBack, Paying
  <2> QED
    BY <2>1, <2>2, <2>3, <2>4, SerialWork DEF Stages, Rowless
<1>2. CASE block' = block /\ Goto(s, "broken")
  <2>1. op'[s] = [op[s] EXCEPT !.at = "broken", !.ent = e]
    BY <1>2, <1>a, Went DEF Stages
  <2>2. OnlyOf(r) /\ Once(r)' /\ Never(r)'
    BY <1>2, <1>a, <1>b, Touches DEF Holds
  <2>3. Holds("broken", r, e)'
    BY <2>2, <1>2, <1>a, <1>b DEF Holds, Rowless, Unblocked, Reserved, GivenBack, Paying
  <2> QED
    BY <2>1, <2>2, <2>3, SerialWork DEF Stages, Rowless
<1> QED
  BY <1>1, <1>2, <1>a DEF CreateBlock

\* A step that saves the entity it has, and what it may rely on; it goes on, or it ends.
LEMMA Saved ==
  ASSUME TypeOK, NEW r \in Refunds, NEW e \in Entities,
         row' = [row EXCEPT ![r] = e], UNCHANGED <<block, provider>>
  PROVE  /\ OnlyOf(r) /\ row'[r] = e /\ e # NoRow /\ block'[r] = block[r]
         /\ (Once(r)' <=> Once(r)) /\ (Undone(r)' <=> Undone(r)) /\ (Never(r)' <=> Never(r))
<1>1. row'[r] = e /\ block'[r] = block[r]
  BY DEF TypeOK
<1>2. e # NoRow
  BY DEF Entities, NoRow, RefundStatuses
<1> QED
  BY <1>1, <1>2, Touches

LEMMA SavedGo ==
  ASSUME SInv, NEW s \in Slots, NEW r \in Refunds, NEW e \in Entities, op[s].r = r, op[s].ent = e,
         row' = [row EXCEPT ![r] = e], UNCHANGED <<block, provider>>,
         NEW at \in Stages \ Rowless, Goto(s, at), Holds(at, r, e)'
  PROVE  SParts'
<1>1. TypeOK /\ Once(r)
  BY AtHand
<1>2. OnlyOf(r) /\ Once(r)'
  BY <1>1, Saved
<1> QED
  BY <1>1, <1>2, Went, SerialWork

LEMMA SavedEnd ==
  ASSUME SInv, NEW s \in Slots, NEW r \in Refunds, NEW e \in Entities, op[s].r = r, op[s].ent = e,
         row' = [row EXCEPT ![r] = e], UNCHANGED <<block, provider>>, End(s), Agrees(r)'
  PROVE  SParts'
<1>1. TypeOK /\ Once(r)
  BY AtHand
<1>2. OnlyOf(r) /\ Once(r)'
  BY <1>1, Saved
<1> QED
  BY <1>2, SerialEnd

LEMMA SerialLink ==
  ASSUME SInv, NEW s \in Slots, NEW r \in Refunds, NEW e \in Entities, op[s].r = r, op[s].ent = e,
         CreateLink(s) \/ DecisionSave(s) \/ TspKeep(s) \/ TspLast(s) \/ Freed(s) \/ HookSave(s)
         \/ HookDebited(s)
  PROVE  SParts'
<1>a. Holds(op[s].at, r, e) /\ Faults = FALSE
  BY AtHand
<1>b. row' = [row EXCEPT ![r] = e] /\ UNCHANGED <<block, provider>>
  BY <1>a DEF CreateLink, DecisionSave, TspKeep, TspLast, Freed, HookSave, HookDebited, Save, provider
<1>c. /\ row'[r] = e /\ e # NoRow /\ block'[r] = block[r]
      /\ (Undone(r) => Undone(r)') /\ (Never(r) => Never(r)')
  BY <1>b, AtHand, Saved
<1> USE DEF Rowless, Unblocked, Reserved, GivenBack, Paying
<1>1. CASE CreateLink(s)
  <2>1. e.link /\ block[r] = "active" /\ Never(r) /\ e.status \in {"approved", "pending_approval"}
    BY <1>1, <1>a DEF CreateLink, Holds
  <2>2. Holds("adapter", r, e)'
    BY <2>1, <1>c DEF Holds
  <2>3. e.status # "approved" => Agrees(r)'
    BY <2>1, <1>c DEF Agrees, Ended
  <2>4. Goto(s, "adapter") \/ (e.status # "approved" /\ End(s))
    BY <1>1, <1>a DEF CreateLink
  <2> QED
    BY <2>2, <2>3, <2>4, <1>b, SavedGo, SavedEnd DEF Stages
<1>2. CASE DecisionSave(s)
  <2>1. /\ e.link /\ block[r] = "active" /\ Never(r) /\ e.status \in {"approved", "rejected", "cancelled"}
        /\ Goto(s, IF e.status = "approved" THEN "adapter" ELSE "release")
    BY <1>2, <1>a DEF DecisionSave, Holds
  <2>2. e.status = "approved" => Holds("adapter", r, e)'
    BY <2>1, <1>c DEF Holds
  <2>3. e.status # "approved" => Holds("release", r, e)'
    BY <2>1, <1>c DEF Holds, Ended, Never
  <2> QED
    BY <2>1, <2>2, <2>3, <1>b, SavedGo, SavedEnd DEF Stages
<1>3. CASE TspKeep(s)
  <2>1. e.link /\ block[r] = "active" /\ e.status = "processing" /\ End(s)
    BY <1>3, <1>a DEF TspKeep, Holds
  <2>2. Agrees(r)'
    BY <2>1, <1>c DEF Agrees, Ended
  <2> QED
    BY <2>1, <2>2, <1>b, SavedEnd
<1>4. CASE TspLast(s) \/ Freed(s)
  <2>1. block[r] = "released" /\ Undone(r) /\ e.status \in Ended /\ (End(s) \/ Goto(s, "last"))
    BY <1>4, <1>a DEF TspLast, Freed, Holds
  <2>2. Agrees(r)'
    BY <2>1, <1>c DEF Agrees, Ended
  <2>3. Holds("last", r, e)'
    BY <2>1, <1>c DEF Holds
  <2> QED
    BY <2>1, <2>2, <2>3, <1>b, SavedGo, SavedEnd DEF Stages
<1>5. CASE HookSave(s)
  <2>1. /\ e.link /\ block[r] = "active"
        /\ e.status = "completed" \/ (e.status = "failed" /\ Undone(r))
        /\ Goto(s, IF e.status = "completed" THEN "debit" ELSE "release")
    BY <1>5, <1>a DEF HookSave, Holds
  <2>2. e.status = "completed" => Holds("debit", r, e)'
    BY <2>1, <1>c DEF Holds
  <2>3. e.status # "completed" => Holds("release", r, e)'
    BY <2>1, <1>c DEF Holds, Ended
  <2> QED
    BY <2>1, <2>2, <2>3, <1>b, SavedGo, SavedEnd DEF Stages
<1>6. CASE HookDebited(s)
  <2>1. block[r] = "debited" /\ e.status = "completed" /\ Goto(s, "txn")
    BY <1>6, <1>a DEF HookDebited, Holds
  <2>2. Holds("txn", r, e)'
    BY <2>1, <1>c DEF Holds
  <2> QED
    BY <2>1, <2>2, <1>b, SavedGo DEF Stages
<1> QED
  BY <1>1, <1>2, <1>3, <1>4, <1>5, <1>6

LEMMA SerialTsp ==
  ASSUME SInv, NEW s \in Slots, NEW r \in Refunds, NEW e \in Entities, op[s].r = r, op[s].ent = e,
         CreateBroken(s) \/ TspBegin(s) \/ TspAsk(s) \/ TspFail(s)
  PROVE  SParts'
<1> USE DEF Rowless, Unblocked, Reserved, GivenBack, Paying
<1>a. Holds(op[s].at, r, e) /\ Faults = FALSE /\ TypeOK /\ Once(r) /\ op[s] \in Operations
  BY AtHand
<1>1. CASE CreateBroken(s)
  <2> DEFINE f == [e EXCEPT !.status = "failed"]
  <2>1. f.status = "failed"
    BY DEF Entities
  <2>2. row' = [row EXCEPT ![r] = f] /\ UNCHANGED <<block, provider>> /\ End(s)
    BY <1>1 DEF CreateBroken, provider
  <2>3. block[r] = "none" /\ Never(r)
    BY <1>1, <1>a DEF CreateBroken, Holds
  <2> HIDE DEF f
  <2>4. OnlyOf(r) /\ Once(r)' /\ Undone(r)' /\ row'[r] = f
    BY <2>2, <2>3, <1>a, Touches DEF Never, TypeOK
  <2>5. Agrees(r)'
    BY <2>1, <2>2, <2>3, <2>4 DEF Agrees, Ended
  <2> QED
    BY <2>2, <2>4, <2>5, SerialEnd
<1>2. CASE TspBegin(s)
  <2>a. op[s].at = "adapter" /\ e.link /\ block[r] = "active" /\ Never(r) /\ row[r] # NoRow
        /\ UNCHANGED <<block, provider>>
    BY <1>2, <1>a DEF TspBegin, Holds, provider
  <2> DEFINE f == [e EXCEPT !.status = "processing"]
  <2>1. CASE row' = [row EXCEPT ![r] = f] /\ op' = [op EXCEPT ![s].at = "ask", ![s].ent = f]
    <3>1. f \in Entities /\ f.status = "processing" /\ f.link /\ f # NoRow
      BY <2>a DEF Entities, NoRow, RefundStatuses
    <3>2. op'[s] = [op[s] EXCEPT !.at = "ask", !.ent = f]
      BY <2>1, <1>a DEF TypeOK, Operations
    <3> HIDE DEF f
    <3>3. OnlyOf(r) /\ Once(r)' /\ Never(r)' /\ row'[r] = f
      BY <2>1, <2>a, <1>a, Touches DEF TypeOK
    <3>4. Holds("ask", r, f)'
      BY <3>1, <3>3, <2>a DEF Holds
    <3> QED
      BY <3>1, <3>2, <3>3, <3>4, SerialWork DEF Stages
  <2>2. CASE row' = row /\ Goto(s, "fail")
    <3>1. op'[s] = [op[s] EXCEPT !.at = "fail", !.ent = e]
      BY <2>2, <1>a, Went DEF Stages
    <3>2. OnlyOf(r) /\ Once(r)' /\ Never(r)'
      BY <2>2, <2>a, <1>a, Touches
    <3>3. Holds("fail", r, e)'
      BY <3>2, <2>2, <2>a DEF Holds
    <3> QED
      BY <3>1, <3>2, <3>3, SerialWork DEF Stages
  <2> QED
    BY <1>2, <2>1, <2>2 DEF TspBegin
<1>3. CASE TspAsk(s)
  <2>a. /\ op[s].at = "ask" /\ e.link /\ block[r] = "active" /\ Never(r) /\ row[r] # NoRow
        /\ e.status = "processing" /\ UNCHANGED <<row, block, done, refused>>
    BY <1>3, <1>a DEF TspAsk, Holds
  <2>1. CASE asked' = [asked EXCEPT ![r] = @ + 1] /\ Goto(s, "keep")
    <3>1. op'[s] = [op[s] EXCEPT !.at = "keep", !.ent = e]
      BY <2>1, <1>a, Went DEF Stages
    <3>2. OnlyOf(r)
      BY <2>1, <2>a, <1>a DEF OnlyOf, TypeOK
    <3>3. asked'[r] = 1 /\ done'[r] = 0 /\ refused'[r] = 0
      BY <2>1, <2>a, <1>a DEF Never, Undone, TypeOK
    <3>4. Once(r)'
      BY <3>3 DEF Once
    <3>5. Holds("keep", r, e)'
      BY <2>a DEF Holds
    <3> QED
      BY <3>1, <3>2, <3>4, <3>5, SerialWork DEF Stages
  <2>2. CASE asked' = asked /\ Goto(s, "declined")
    <3>1. op'[s] = [op[s] EXCEPT !.at = "declined", !.ent = e]
      BY <2>2, <1>a, Went DEF Stages
    <3>2. OnlyOf(r) /\ Once(r)' /\ Never(r)'
      BY <2>2, <2>a, <1>a, Touches DEF provider
    <3>3. Holds("declined", r, e)'
      BY <3>2, <2>a DEF Holds
    <3> QED
      BY <3>1, <3>2, <3>3, SerialWork DEF Stages
  <2> QED
    BY <1>3, <2>1, <2>2, <1>a DEF TspAsk
<1>4. CASE TspFail(s)
  <2>a. /\ op[s].at \in {"fail", "declined"} /\ e.link /\ block[r] = "active" /\ Never(r)
        /\ UNCHANGED <<block, provider>>
    BY <1>4, <1>a DEF TspFail, Holds, provider
  <2> DEFINE f == [e EXCEPT !.status = "failed"]
  <2>1. f \in Entities /\ f.status = "failed" /\ f.link /\ f # NoRow
    BY <2>a DEF Entities, NoRow, RefundStatuses
  <2>2. row' = [row EXCEPT ![r] = f]
    BY <1>4 DEF TspFail
  <2>3. PICK at \in {"release", "giveback"} : op'[s] = [op[s] EXCEPT !.at = at, !.ent = f]
    BY <1>4, <1>a DEF TspFail, TypeOK, Operations
  <2> HIDE DEF f
  <2>4. OnlyOf(r) /\ Once(r)' /\ Undone(r)' /\ row'[r] = f
    BY <2>2, <2>a, <1>a, Touches DEF Never, TypeOK
  <2>5. Holds(at, r, f)'
    BY <2>1, <2>4, <2>a DEF Holds, Ended
  <2> QED
    BY <2>1, <2>3, <2>4, <2>5, SerialWork DEF Stages
<1> QED
  BY <1>1, <1>2, <1>3, <1>4

LEMMA SerialWallet ==
  ASSUME SInv, NEW s \in Slots, NEW r \in Refunds, NEW e \in Entities, op[s].r = r, op[s].ent = e,
         Release(s) \/ HookDebit(s) \/ HookTxn(s)
  PROVE  SParts'
<1> USE DEF Rowless, Unblocked, Reserved, GivenBack, Paying
<1>a. /\ Holds(op[s].at, r, e) /\ Faults = FALSE /\ TypeOK /\ Once(r) /\ op[s] \in Operations
      /\ UNCHANGED <<row, provider>> /\ row[r] # NoRow
  BY AtHand DEF Release, HookDebit, HookTxn, Holds, provider
<1> DEFINE f == [e EXCEPT !.blocked = FALSE]
<1>b. f \in Entities /\ f.status = e.status
  BY DEF Entities
<1> HIDE DEF f
<1>1. CASE Release(s)
  <2>a. op[s].at \in {"release", "giveback"} /\ e.link /\ block[r] = "active" /\ Undone(r) /\ e.status \in Ended
    BY <1>1, <1>a DEF Release, Holds
  <2>1. block' = [block EXCEPT ![r] = "released"]
    BY <1>1, <2>a, <1>a DEF Release
  <2>2. PICK at \in {"freed", "given"} : op'[s] = [op[s] EXCEPT !.at = at, !.ent = f]
    BY <1>1, <2>a, <1>a DEF Release, TypeOK, Operations, f
  <2>3. OnlyOf(r) /\ Once(r)' /\ Undone(r)' /\ block'[r] = "released"
    BY <2>1, <2>a, <1>a, Touches DEF TypeOK
  <2>4. Holds(at, r, f)'
    BY <1>b, <2>3, <2>a, <1>a DEF Holds
  <2> QED
    BY <1>b, <2>2, <2>3, <2>4, SerialWork DEF Stages
<1>2. CASE HookDebit(s)
  <2>a. op[s].at = "debit" /\ e.link /\ block[r] = "active" /\ e.status = "completed"
    BY <1>2, <1>a DEF HookDebit, Holds
  <2>1. block' = [block EXCEPT ![r] = "debited"]
    BY <1>2, <2>a, <1>a DEF HookDebit
  <2>2. op'[s] = [op[s] EXCEPT !.at = "debited", !.ent = f]
    BY <1>2, <2>a, <1>a DEF HookDebit, TypeOK, Operations, f
  <2>3. OnlyOf(r) /\ Once(r)' /\ block'[r] = "debited"
    BY <2>1, <1>a, Touches DEF TypeOK
  <2>4. Holds("debited", r, f)'
    BY <1>b, <2>3, <2>a, <1>a DEF Holds
  <2> QED
    BY <1>b, <2>2, <2>3, <2>4, SerialWork DEF Stages
<1>3. CASE HookTxn(s)
  <2>a. op[s].at = "txn" /\ block' = block /\ block[r] = "debited" /\ row[r].status = "completed" /\ End(s)
    BY <1>3, <1>a DEF HookTxn, Holds
  <2>1. done[r] > 0
    BY <2>a DEF SInv, IInv, OpsOK, Knows
  <2>2. Agrees(r)'
    BY <2>a, <2>1, <1>a DEF Agrees, Ended, provider
  <2>3. OnlyOf(r) /\ Once(r)'
    BY <2>a, <1>a, Touches
  <2> QED
    BY <2>a, <2>2, <2>3, SerialEnd
<1> QED
  BY <1>1, <1>2, <1>3

\* Requests, decisions, the job and webhooks begin on a row that is in order.
LEMMA SerialRead ==
  ASSUME SInv, NEW s \in Slots, NEW r \in Refunds,
         CreateRead(s, r) \/ ApproveRead(s, r) \/ CancelRead(s, r) \/ HookRead(s, r)
  PROVE  SParts'
<1> USE DEF Rowless, Unblocked, Reserved, GivenBack, Paying
<1>a. /\ op[s] = Idle /\ op[s].at = "idle" /\ UNCHANGED <<row, block, provider>>
      /\ TypeOK /\ Agrees(r) /\ Once(r) /\ row[r] \in Entities \cup {NoRow}
      /\ asked[r] \in Nat /\ done[r] \in Nat /\ refused[r] \in Nat /\ FinalReportsOnly = TRUE
  <2>1. op[s] = Idle /\ UNCHANGED <<row, block, provider>>
    BY DEF CreateRead, ApproveRead, CancelRead, HookRead
  <2>2. op[s].at = "idle"
    BY <2>1 DEF Idle
  <2> QED
    BY <2>1, <2>2, AtHand
<1>b. \A o : DOMAIN o.list = {} /\ op'[s] = o => ListTrue(op[s])'
  BY DEF ListTrue
<1>1. CASE CreateRead(s, r)
  <2>1. op'[s] = [Idle EXCEPT !.at = "sum", !.r = r]
    BY <1>1, <1>a DEF CreateRead, TypeOK
  <2>2. op'[s].at = "sum" /\ op'[s].r = r /\ DOMAIN op'[s].list = {}
    BY <2>1, IdleFacts DEF Idle
  <2>3. InHand(op[s])'
    BY <1>1, <2>2, <1>a DEF InHand, Holds, CreateRead, Refundable
  <2> QED
    BY <2>2, <2>3, <1>a, <1>b, SerialBegin
<1>2. ASSUME NEW status \in {"approved", "rejected", "cancelled"}, row[r].status = "pending_approval",
             ReadInto(s, r, status)
      PROVE  SParts'
  <2>1. row[r] \in Entities /\ row[r] # NoRow
    BY <1>2, <1>a DEF NoRow
  <2>e. PICK e : e = [row[r] EXCEPT !.status = status]
    OBVIOUS
  <2>2. e.status = status /\ e.link = row[r].link
    BY <2>1, <2>e DEF Entities
  <2>3. op'[s] = [Idle EXCEPT !.at = "decide", !.r = r, !.ent = e]
    BY <1>2, <1>a, <2>e DEF ReadInto, TypeOK
  <2>4. op'[s].at = "decide" /\ op'[s].r = r /\ op'[s].ent = e /\ DOMAIN op'[s].list = {}
    BY <2>3, IdleFacts DEF Idle
  <2>5. row[r].link /\ block[r] = "active" /\ Never(r)
    BY <1>2, <1>a DEF Agrees
  <2>6. Never(r)'
    BY <2>5, <1>a DEF Never, Undone, provider
  <2>7. Holds("decide", r, e)'
    BY <2>1, <2>2, <2>5, <2>6, <1>2, <1>a DEF Holds
  <2>8. InHand(op[s])'
    BY <2>4, <2>7 DEF InHand
  <2> QED
    BY <2>4, <2>8, <1>a, <1>b, SerialBegin
<1>3. CASE ApproveRead(s, r)
  BY <1>3, <1>2 DEF ApproveRead
<1>4. CASE CancelRead(s, r)
  BY <1>4, <1>2, <1>a DEF CancelRead, Agrees
<1>5. CASE HookRead(s, r)
  <2>1. PICK word \in ReportWords(r) :
          op' = [op EXCEPT ![s] = [Idle EXCEPT !.at = "report", !.r = r,
                                     !.ent = [row[r] EXCEPT !.status = NewStatus(word)]]]
    BY <1>5 DEF HookRead
  <2>e. PICK e : e = [row[r] EXCEPT !.status = NewStatus(word)]
    OBVIOUS
  <2>2. row[r] \in Entities /\ row[r] # NoRow /\ row[r].status = "processing"
    <3>1. row[r].status = "processing"
      BY <1>5 DEF HookRead
    <3> QED
      BY <3>1, <1>a DEF NoRow
  <2>3. e.status = NewStatus(word) /\ e.link = row[r].link
    BY <2>2, <2>e DEF Entities
  <2>4. op'[s].at = "report" /\ op'[s].r = r /\ op'[s].ent = e /\ DOMAIN op'[s].list = {}
    BY <2>1, <2>e, <1>a, IdleFacts DEF Idle, TypeOK
  <2>5. \/ NewStatus(word) = "completed"
        \/ NewStatus(word) = "failed" /\ refused[r] > 0
    BY <1>a DEF NewStatus, ReportWords
  <2>6. refused[r] > 0 => asked[r] = 0 /\ done[r] = 0
    BY <1>a DEF Once
  <2>7. refused[r] > 0 => Undone(r)'
    BY <2>6, <1>a DEF Undone, provider
  <2>8. row[r].link /\ block[r] = "active"
    BY <2>2, <1>a DEF Agrees
  <2>9. Holds("report", r, e)'
    BY <2>2, <2>3, <2>5, <2>7, <2>8, <1>a DEF Holds
  <2>10. InHand(op[s])'
    BY <2>4, <2>9 DEF InHand
  <2> QED
    BY <2>4, <2>10, <1>a, <1>b, SerialBegin
<1> QED
  BY <1>1, <1>3, <1>4, <1>5

LEMMA SerialList ==
  ASSUME SInv, NEW s \in Slots, BatchBegin(s) \/ JobRead(s)
  PROVE  SParts'
<1> USE DEF Rowless, Unblocked, Reserved, GivenBack, Paying
<1>a. op[s] = Idle /\ op[s].at = "idle" /\ UNCHANGED <<row, block, provider>> /\ TypeOK
  <2>1. op[s] = Idle /\ UNCHANGED <<row, block, provider>>
    BY DEF BatchBegin, JobRead
  <2>2. op[s].at = "idle"
    BY <2>1 DEF Idle
  <2> QED
    BY <2>1, <2>2, AtHand
<1>1. /\ op'[s].at = "next" /\ op'[s].r = "none" /\ DOMAIN op'[s].list \subseteq Refunds
      /\ \A q \in DOMAIN op'[s].list :
           \/ op'[s].list[q] = NoRow
           \/ op'[s].list[q] = row[q] /\ row[q].status = "pending_approval"
  <2>1. CASE BatchBegin(s)
    <3>1. PICK rs \in SUBSET Refunds :
            op' = [op EXCEPT ![s] = [Idle EXCEPT !.at = "next", !.list = [r \in rs |-> NoRow]]]
      BY <2>1 DEF BatchBegin
    <3>2. op'[s].at = "next" /\ op'[s].r = "none" /\ op'[s].list = [r \in rs |-> NoRow]
      BY <3>1, <1>a DEF TypeOK, Idle
    <3> QED
      BY <3>2
  <2>2. CASE JobRead(s)
    <3>1. op'[s].at = "next" /\ op'[s].r = "none" /\ op'[s].list = [r \in Waiting |-> row[r]]
      BY <2>2, <1>a DEF JobRead, TypeOK, Idle
    <3>2. Waiting \in SUBSET Refunds /\ \A q \in Waiting : row[q].status = "pending_approval"
      BY DEF Waiting
    <3> QED
      BY <3>1, <3>2
  <2> QED
    BY <2>1, <2>2
<1>3. InHand(op[s])'
  BY <1>1 DEF InHand, Holds
<1>4. ListTrue(op[s])'
  BY <1>1, <1>a, RefundSetAssumption DEF ListTrue
<1> QED
  BY <1>3, <1>4, <1>a, SerialBegin

LEMMA SerialNext ==
  ASSUME SInv, NEW s \in Slots, NEW r \in Refunds, NextItem(s, r)
  PROVE  SParts'
<1> USE DEF Rowless, Unblocked, Reserved, GivenBack, Paying
<1>a. op[s].at = "next" /\ r \in DOMAIN op[s].list /\ UNCHANGED <<row, block, provider>>
      /\ TypeOK /\ Agrees(r) /\ row[r] \in Entities \cup {NoRow} /\ op[s] \in Operations
  BY AtHand DEF NextItem
<1>b. ListTrue(op[s]) /\ InHand(op[s])
  BY DEF SInv, HandsOK
<1>c. PICK rest : rest = [q \in DOMAIN op[s].list \ {r} |-> op[s].list[q]]
  OBVIOUS
<1>d. PICK e : e = [op[s].list[r] EXCEPT !.status = "cancelled"]
  OBVIOUS
<1>e. \A q \in DOMAIN rest : /\ q # r /\ q # op[s].r
                             /\ rest[q] # NoRow => rest[q] = row[q] /\ row[q].status = "pending_approval"
  BY <1>b, <1>c DEF ListTrue
<1>1. \/ op'[s] = [Idle EXCEPT !.at = "sum", !.r = r, !.list = rest] /\ Refundable(r)
      \/ /\ op'[s] = [Idle EXCEPT !.at = "decide", !.r = r, !.list = rest, !.ent = e]
         /\ op[s].list[r] # NoRow
      \/ op'[s] = Idle
      \/ op'[s] = [op[s] EXCEPT !.list = rest]
  BY <1>a, <1>c, <1>d DEF NextItem, TypeOK
<1>2. CASE op'[s] = [Idle EXCEPT !.at = "sum", !.r = r, !.list = rest] /\ Refundable(r)
  <2>1. op'[s].at = "sum" /\ op'[s].r = r /\ op'[s].list = rest
    BY <1>2 DEF Idle
  <2>2. InHand(op[s])'
    BY <1>2, <2>1, <1>a DEF InHand, Holds, Refundable
  <2>3. ListTrue(op[s])'
    BY <2>1, <1>a, <1>e DEF ListTrue
  <2> QED
    BY <2>2, <2>3, <1>a, SerialBegin
<1>3. CASE /\ op'[s] = [Idle EXCEPT !.at = "decide", !.r = r, !.list = rest, !.ent = e]
           /\ op[s].list[r] # NoRow
  <2>1. op'[s].at = "decide" /\ op'[s].r = r /\ op'[s].list = rest /\ op'[s].ent = e
    BY <1>3 DEF Idle
  <2>2. op[s].list[r] = row[r] /\ row[r].status = "pending_approval" /\ row[r] # NoRow
    BY <1>3, <1>a, <1>b DEF ListTrue
  <2>3. row[r] \in Entities
    BY <2>2, <1>a
  <2>4. e.status = "cancelled" /\ e.link = row[r].link
    BY <2>2, <2>3, <1>d DEF Entities, RefundStatuses
  <2>5. row[r].link /\ block[r] = "active" /\ Never(r)
    BY <2>2, <1>a DEF Agrees
  <2>6. Never(r)'
    BY <2>5, <1>a DEF Never, Undone, provider
  <2>7. Holds("decide", r, e)'
    BY <2>2, <2>4, <2>5, <2>6, <1>a DEF Holds
  <2>8. InHand(op[s])'
    BY <2>1, <2>7 DEF InHand
  <2>9. ListTrue(op[s])'
    BY <2>1, <1>a, <1>e DEF ListTrue
  <2> QED
    BY <2>8, <2>9, <1>a, SerialBegin
<1>4. CASE op'[s] = Idle
  <2>1. op'[s].at = "idle" /\ DOMAIN op'[s].list = {}
    BY <1>4, IdleFacts DEF Idle
  <2> QED
    BY <2>1, <1>a, SerialBegin DEF InHand, Holds, ListTrue
<1>5. CASE op'[s] = [op[s] EXCEPT !.list = rest]
  <2>1. op'[s].at = "next" /\ op'[s].r = op[s].r /\ op'[s].list = rest
    BY <1>5, <1>a DEF Operations
  <2>2. ListTrue(op[s])'
    BY <2>1, <1>a, <1>e DEF ListTrue
  <2>3. InHand(op[s])'
    BY <2>1 DEF InHand, Holds
  <2> QED
    BY <2>2, <2>3, <1>a, SerialBegin
<1> QED
  BY <1>1, <1>2, <1>3, <1>4, <1>5

\* Every step that some slot is in the middle of.
LEMMA SerialAdvance ==
  ASSUME SInv, NEW s \in Slots, Advance(s)
  PROVE  SParts'
<1>1. CASE \E r \in Refunds : NextItem(s, r)
  BY <1>1, SerialNext
<1>2. CASE CreateSum(s)
  BY <1>2, SerialSum
<1>3. CASE CreateInsert(s)
  <2>1. op[s].r \in Refunds
    BY <1>3, AtHand DEF CreateInsert
  <2> QED
    BY <2>1, <1>3, SerialInsert
<1>4. CASE ~CreateSum(s) /\ ~CreateInsert(s) /\ ~\E r \in Refunds : NextItem(s, r)
  <2>1. op[s].at \notin Rowless
    BY <1>4 DEF Advance, CreateStep, CreateBlock, CreateLink, CreateBroken, DecisionStep, DecisionSave,
       TspStep, TspBegin, TspAsk, TspKeep, TspFail, TspLast, WalletStep, Release, Freed,
       HookStep, HookSave, HookDebit, HookDebited, HookTxn, Rowless
  <2>2. op[s].r \in Refunds /\ op[s].ent \in Entities
    BY <2>1, AtHand DEF Rowless
  <2> QED
    BY <2>2, <1>4, SerialBlock, SerialLink, SerialTsp, SerialWallet
       DEF Advance, CreateStep, DecisionStep, TspStep, WalletStep, HookStep
<1> QED
  BY <1>1, <1>2, <1>3, <1>4

LEMMA SerialStep == SInv /\ [Next]_vars => SInv'
<1> SUFFICES ASSUME SInv, [Next]_vars PROVE SInv'
  OBVIOUS
<1>a. IInv' /\ Serial'
  BY InductiveStep DEF SInv, Serial
<1>1. CASE PaymentReport \/ \E r \in Refunds : Expire(r) \/ Decide(r) \/ HookIgnored(r)
  <2>1. /\ op' = op /\ UNCHANGED <<row, block>>
        /\ UNCHANGED provider \/ \E r \in Refunds : Decide(r)
    BY <1>1 DEF PaymentReport, Expire, Decide, HookIgnored
  <2> QED
    BY <2>1, <1>a, SerialOutside DEF SInv, SParts
<1>2. CASE UNCHANGED vars
  <2>1. op' = op /\ UNCHANGED <<row, block>> /\ UNCHANGED provider
    BY <1>2 DEF vars, provider
  <2> QED
    BY <2>1, <1>a, SerialOutside DEF SInv, SParts
<1>3. ASSUME NEW s \in Slots, BatchBegin(s) \/ JobRead(s) PROVE SInv'
  BY <1>3, <1>a, SerialList DEF SInv, SParts
<1>4. ASSUME NEW s \in Slots, Advance(s) PROVE SInv'
  BY <1>4, <1>a, SerialAdvance DEF SInv, SParts
<1>5. ASSUME NEW s \in Slots PROVE ~Abort(s)
  BY DEF Abort, SInv, Serial
<1>6. ASSUME NEW s \in Slots, NEW r \in Refunds,
             CreateRead(s, r) \/ ApproveRead(s, r) \/ CancelRead(s, r) \/ HookRead(s, r)
      PROVE  SInv'
  BY <1>6, <1>a, SerialRead DEF SInv, SParts
<1> QED
  BY <1>1, <1>2, <1>3, <1>4, <1>5, <1>6 DEF Next

LEMMA SerialInit == Serial /\ Init => SInv
<1> SUFFICES ASSUME Serial, Init PROVE SInv
  OBVIOUS
<1>1. \A s \in Slots : op[s].at = "idle" /\ DOMAIN op[s].list = {}
  BY IdleFacts DEF Init, Idle
<1>2. HandsOK
  BY <1>1 DEF HandsOK, InHand, Holds, ListTrue, Rowless, Unblocked, Reserved, GivenBack, Paying
<1>3. AgreesOK
  BY DEF Init, AgreesOK, Agrees, NoRow, Ended, Never, Undone
<1>4. OnceOK
  BY DEF Init, OnceOK, Once
<1> QED
  BY <1>2, <1>3, <1>4, InitIInv DEF SInv

LEMMA SerialInductive == Serial /\ Spec => []SInv
  BY SerialInit, SerialStep, PTL DEF Spec

\* One operation at a time, with nothing lost and every report final: whenever nothing is in
\* flight, the status column, the wallet's block and the provider agree on every refund, also when
\* the operation that wrote the row had read it from a list or before a remote call.
THEOREM RefundBooksAgree == Serial /\ Spec => []BooksAgree
<1>1. SInv => BooksAgree
  <2> SUFFICES ASSUME SInv, Quiet, NEW r \in Refunds
               PROVE  CASE row[r].status \in {"pending_approval", "processing"} -> block[r] = "active"
                        [] row[r].status = "completed" -> block[r] = "debited" /\ done[r] = 1
                        [] OTHER -> block[r] \in {"none", "released"} /\ done[r] = 0
    BY DEF BooksAgree
  <2>1. \A s \in Slots : op[s].at = "idle"
    BY DEF Quiet, Idle
  <2>2. Agrees(r) /\ Once(r)
    BY <2>1 DEF SInv, AgreesOK, OnceOK, Rowless
  <2>3. row[r] \in Entities \cup {NoRow}
    BY DEF SInv, IInv, TypeOK
  <2>4. row[r].status \in RefundStatuses \cup {"none"}
    BY <2>3 DEF Entities, NoRow
  <2>5. asked[r] \in Nat /\ done[r] \in Nat /\ refused[r] \in Nat
    BY DEF SInv, IInv, TypeOK
  <2>6. done[r] > 0 => done[r] = 1
    BY <2>2, <2>5 DEF Once
  <2> QED
    BY <2>2, <2>4, <2>6 DEF Agrees, Never, Undone, Ended, RefundStatuses
<1> QED
  BY <1>1, SerialInductive, PTL

\* ... and no refund is created once one is completed: createRefund sums what has been completed, and
\* nothing comes between the sum and the row.
THEOREM NoneAfterCompleted == Serial /\ Spec => NoRefundAfterCompleted
<1> DEFINE Late == \A r, q \in Refunds : row[r] = NoRow /\ row'[r] # NoRow => row[q].status # "completed"
<1>1. SInv /\ [Next]_vars => [Late]_vars
  <2> SUFFICES ASSUME SInv, [Next]_vars, NEW r \in Refunds, NEW q \in Refunds,
                      row[r] = NoRow, row'[r] # NoRow
               PROVE  row[q].status # "completed"
    OBVIOUS
  <2>1. PICK s \in Slots : Advance(s)
    BY DEF Next, vars, PaymentReport, Expire, Decide, HookIgnored, BatchBegin, JobRead, Abort, CreateRead,
       ApproveRead, CancelRead, HookRead
  <2>2. TypeOK /\ Holds(op[s].at, op[s].r, op[s].ent)
    BY AtHand
  <2>3. CASE op[s].at \in Rowless
    <3>1. row' = row \/ op[s].at = "insert"
      BY <2>1, <2>3
         DEF Advance, CreateStep, CreateSum, CreateBlock, CreateLink, CreateInsert, CreateBroken,
             DecisionStep, NextItem, DecisionSave, TspStep, TspBegin, TspAsk, TspKeep, TspFail, TspLast,
             WalletStep, Release, Freed, HookStep, HookSave, HookDebit, HookDebited, HookTxn, Rowless
    <3> QED
      BY <3>1, <2>2 DEF Holds
  <2>4. CASE op[s].at \notin Rowless
    <3>1. row' = row \/ \E x : row' = [row EXCEPT ![op[s].r] = x]
      BY <2>1
         DEF Advance, CreateStep, CreateSum, CreateBlock, CreateLink, CreateInsert, CreateBroken,
             DecisionStep, NextItem, DecisionSave, TspStep, TspBegin, TspAsk, TspKeep, TspFail, TspLast,
             WalletStep, Release, Freed, HookStep, HookSave, HookDebit, HookDebited, HookTxn, Save
    <3>2. op[s].r = r
      BY <3>1, <2>2 DEF TypeOK
    <3> QED
      BY <3>2, <2>2, <2>4 DEF Holds
  <2> QED
    BY <2>3, <2>4
<1> QED
  BY <1>1, SerialInductive, PTL DEF Spec, NoRefundAfterCompleted
=============================================================================
