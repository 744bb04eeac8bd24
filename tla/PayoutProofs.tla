---------------------------- MODULE PayoutProofs ----------------------------
(***************************************************************************)
(* Theorems of Payouts: for any number of payouts and slots, any           *)
(* assignment of providers, any balance, any interleaving and any faults.  *)
(***************************************************************************)
EXTENDS Payouts, FiniteSetTheorems, TLAPS

----------------------------------------------------------------------------
(* The inductive invariant: what an operation carries about the provider is final,
   so it is still true when it is used; a payout is created by one slot only. *)

OpenStages    == Stages \ {"funds", "open"}
HookStages    == {"status", "wallet", "tell"}
CreatorStages == {"insert", "block"}

Unpaid(o) == tsp[o] \in {"failed", "cancelled"}

\* What a slot's operation knows of its payout.
Knows(r) ==
  /\ r.at \in OpenStages => r.o \in Payouts /\ tsp[r.o] # "none"
  /\ r.at \in HookStages \cup {"save"} => (r.word = "completed" => tsp[r.o] = "paid")
  /\ r.at \in HookStages =>
       /\ r.status # "none"
       /\ r.word \in {"failed", "cancelled"} => Unpaid(r.o)
       /\ r.status = "completed" => tsp[r.o] = "paid"
  /\ r.at = "wallet" => Settles(r.o, r.word)

OpsOK == \A s \in Slots : Knows(op[s])

CreatorsOK ==
  \A s \in Slots : op[s].at \in CreatorStages =>
     /\ block[op[s].o] = "none"
     /\ \A t \in Slots : t # s /\ op[t].at \in CreatorStages => op[t].o # op[s].o

OpenedOK == \A o \in Payouts : row[o] # "none" \/ block[o] # "none" => tsp[o] # "none"

IInv == TypeOK /\ OpsOK /\ CreatorsOK /\ OpenedOK /\ CompletedIsPaid

----------------------------------------------------------------------------
(* What the operators of the handlers answer. *)

LEMMA NewStatusFacts ==
  \A o, word :
     /\ NewStatus(o, word) \in RowStatuses
     /\ NewStatus(o, word) = "completed" => word = "completed"
     /\ NewStatus(o, word) = "failed" => word \in {"failed", "cancelled"}
  BY DEF NewStatus, RowStatuses

LEMMA PollStatusFacts ==
  \A word : /\ PollStatus(word) \in RowStatuses
            /\ PollStatus(word) = "completed" => word = "completed"
  BY DEF PollStatus, RowStatuses

\* Reports and answers of an open payout tell no more than the provider has decided.
LEMMA ReportFacts ==
  ASSUME TypeOK, NEW o \in Payouts, NEW word \in ReportWords(o)
  PROVE  /\ word = "completed" => tsp[o] = "paid"
         /\ word \in {"failed", "cancelled"} => Unpaid(o)
         /\ word \in Words /\ tsp[o] # "none"
<1>1. tsp[o] \in {"none", "open", "paid", "failed", "cancelled"}
  BY DEF TypeOK
<1> QED
  BY <1>1 DEF ReportWords, Unpaid, Words

LEMMA AnswerFacts ==
  ASSUME TypeOK, NEW o \in Payouts, tsp[o] # "none", NEW word \in Answers(o)
  PROVE  /\ word = "completed" => tsp[o] = "paid"
         /\ word \in Words
<1>1. tsp[o] \in {"open", "paid", "failed", "cancelled"}
  BY DEF TypeOK
<1>2. ProviderOf[o] \in {"kingdom_bank", "sulifu_pay", "payaza", "paytara"}
  BY PayoutProviderAssumption DEF Providers
<1> QED
  BY <1>1, <1>2 DEF Answers, Words

\* What the provider has decided stays.
Growing ==
  \A o \in Payouts : /\ tsp[o] # "none" => tsp'[o] # "none"
                     /\ tsp[o] \in {"paid", "failed", "cancelled"} => tsp'[o] = tsp[o]

LEMMA GrowingStep == TypeOK /\ [Next]_vars => Growing
<1> SUFFICES ASSUME TypeOK, [Next]_vars PROVE Growing
  OBVIOUS
<1>1. CASE \E d \in Payouts : Decide(d)
  BY <1>1 DEF Decide, TypeOK, Growing
<1>2. CASE \E s \in Slots, d \in Payouts : CreateOpen(s, d)
  BY <1>2 DEF CreateOpen, TypeOK, Growing
<1>3. CASE UNCHANGED tsp
  BY <1>3 DEF Growing
<1> QED
  BY <1>1, <1>2, <1>3 DEF Next, vars, outside, HookIgnored, CreateBegin, Advance, Abort,
     RetryBegin, PollRead, HookRead, CreateStep, CreateFunds, CreateDeclined, CreateInsert,
     CreateBlock, CreateRefused, CreateLink, PollStep, PollAsk, PollSave, HookStep,
     HookStatus, HookWallet, HookTell

----------------------------------------------------------------------------
(* Knowledge stays true. *)

LEMMA KeptOp ==
  ASSUME Growing, NEW t \in Slots, Knows(op[t]), op'[t] = op[t]
  PROVE  Knows(op[t])'
<1>1. CASE op[t].at \in OpenStages
  BY <1>1 DEF Growing, Knows, Unpaid, Settles, NewStatus, OpenStages, HookStages, Stages
<1>2. CASE op[t].at \notin OpenStages
  BY <1>2 DEF Knows, OpenStages, HookStages, Stages
<1> QED
  BY <1>1, <1>2

LEMMA EarlyOp ==
  ASSUME NEW t \in Slots, op'[t].at \in {"idle", "funds", "open"}
  PROVE  Knows(op[t])'
  BY DEF Knows, OpenStages, HookStages, Stages

\* An operation that moves on with the payout, word and status it has.
LEMMA MovedOp ==
  ASSUME Growing, TypeOK, NEW t \in Slots, Knows(op[t]), op[t].at \in OpenStages,
         NEW at \in OpenStages, Goto(t, at),
         at \in HookStages => op[t].at \in HookStages,
         at # "save", at = "wallet" => Settles(op[t].o, op[t].word)
  PROVE  Knows(op[t])'
<1>1. /\ op'[t].at = at /\ op'[t].o = op[t].o /\ op'[t].word = op[t].word
      /\ op'[t].status = op[t].status
  BY DEF Goto, TypeOK, Operations
<1>2. op[t].o \in Payouts /\ tsp'[op[t].o] # "none"
  BY DEF Knows, Growing
<1>3. at \in HookStages =>
         /\ op[t].word = "completed" => tsp'[op[t].o] = "paid"
         /\ op[t].word \in {"failed", "cancelled"} => tsp'[op[t].o] \in {"failed", "cancelled"}
         /\ op[t].status = "completed" => tsp'[op[t].o] = "paid"
  BY DEF Knows, Growing, Unpaid
<1> QED
  BY <1>1, <1>2, <1>3 DEF Knows, Unpaid, Settles, NewStatus, HookStages

LEMMA OpsStep == IInv /\ [Next]_vars => OpsOK'
<1> USE DEF books, outside
<1> SUFFICES ASSUME IInv, [Next]_vars, NEW t \in Slots PROVE Knows(op[t])'
  BY DEF OpsOK
<1>a. TypeOK /\ OpsOK /\ OpenedOK /\ CompletedIsPaid /\ Knows(op[t]) /\ Growing
  BY GrowingStep DEF IInv, OpsOK
<1>1. ASSUME op'[t] = op[t] PROVE Knows(op[t])'
  BY <1>1, <1>a, KeptOp
<1>2. ASSUME op'[t] = Idle PROVE Knows(op[t])'
  BY <1>2, EarlyOp DEF Idle
<1>3. ASSUME NEW o \in Payouts, Decide(o) \/ HookIgnored(o)
      PROVE  Knows(op[t])'
  BY <1>1, <1>3 DEF Decide, HookIgnored
<1>4. ASSUME NEW s \in Slots, CreateBegin(s) \/ \E o \in Payouts : RetryBegin(s, o)
      PROVE  Knows(op[t])'
  <2>1. CASE t = s
    <3>1. op'[t].at = "funds"
      BY <2>1, <1>4, <1>a, ZenonT(30) DEF CreateBegin, RetryBegin, Goto, Idle, TypeOK, Operations
    <3> QED
      BY <3>1, EarlyOp
  <2>2. CASE t # s
    BY <2>2, <1>4, <1>a, <1>1 DEF CreateBegin, RetryBegin, Goto, TypeOK
  <2> QED
    BY <2>1, <2>2
<1>5. ASSUME NEW s \in Slots, CreateStep(s)
      PROVE  Knows(op[t])'
  <2>1. CASE t # s
    BY <2>1, <1>5, <1>a, <1>1
       DEF CreateStep, CreateFunds, CreateOpen, CreateDeclined, CreateInsert, CreateBlock,
           CreateRefused, CreateLink, Goto, End, TypeOK
  <2>2. CASE t = s
    <3>1. CASE CreateFunds(s)
      BY <3>1, <2>2, <1>a, <1>2, EarlyOp DEF CreateFunds, Goto, End, TypeOK, Operations
    <3>2. ASSUME NEW o \in Payouts, CreateOpen(s, o)
          PROVE  Knows(op[t])'
      <4>1. CASE End(s)
        BY <4>1, <2>2, <1>a, <1>2 DEF End, TypeOK
      <4>2. CASE op' = [op EXCEPT ![s] = [@ EXCEPT !.at = "insert", !.o = o]]
        <5>1. op'[t].at = "insert" /\ op'[t].o = o
          BY <4>2, <2>2, <1>a DEF TypeOK, Operations
        <5>2. tsp'[o] # "none"
          BY <3>2, <1>a DEF CreateOpen, TypeOK
        <5> QED
          BY <5>1, <5>2 DEF Knows, HookStages
      <4> QED
        BY <3>2, <4>1, <4>2 DEF CreateOpen
    <3>3. CASE CreateDeclined(s) \/ CreateRefused(s) \/ CreateLink(s)
      BY <3>3, <2>2, <1>a, <1>2 DEF CreateDeclined, CreateRefused, CreateLink, End, TypeOK
    <3>4. CASE CreateInsert(s)
      <4>1. op[s].at = "insert" /\ Goto(s, "block")
        BY <3>4 DEF CreateInsert
      <4> QED
        BY <4>1, <2>2, <1>a, MovedOp DEF OpenStages, HookStages, Stages
    <3>5. CASE CreateBlock(s)
      <4>1. op[s].at = "block" /\ (Goto(s, "link") \/ Goto(s, "refused"))
        BY <3>5 DEF CreateBlock
      <4> QED
        BY <4>1, <2>2, <1>a, MovedOp DEF OpenStages, HookStages, Stages
    <3> QED
      BY <1>5, <3>1, <3>2, <3>3, <3>4, <3>5 DEF CreateStep
  <2> QED
    BY <2>1, <2>2
<1>6. ASSUME NEW s \in Slots, NEW o \in Payouts, PollRead(s, o)
      PROVE  Knows(op[t])'
  <2>1. CASE t = s
    <3>1. op'[t].at = "ask" /\ op'[t].o = o
      BY <2>1, <1>6, <1>a DEF PollRead, TypeOK, Idle
    <3>2. tsp[o] # "none" /\ tsp' = tsp
      BY <1>6, <1>a DEF PollRead, OpenedOK
    <3> QED
      BY <3>1, <3>2 DEF Knows, HookStages
  <2>2. CASE t # s
    BY <2>2, <1>6, <1>a, <1>1 DEF PollRead, TypeOK
  <2> QED
    BY <2>1, <2>2
<1>7. ASSUME NEW s \in Slots, PollStep(s)
      PROVE  Knows(op[t])'
  <2>1. CASE t # s
    BY <2>1, <1>7, <1>a, <1>1 DEF PollStep, PollAsk, PollSave, End, TypeOK
  <2>2. CASE t = s /\ End(s)
    BY <2>2, <1>a, <1>2 DEF End, TypeOK
  <2>3. CASE t = s /\ PollAsk(s) /\ ~End(s)
    <3>1. op[s].o \in Payouts /\ tsp[op[s].o] # "none"
      BY <2>3, <1>a DEF PollAsk, Knows, OpenStages, Stages
    <3>2. PICK word \in Answers(op[s].o) :
            op' = [op EXCEPT ![s] = [@ EXCEPT !.at = "save", !.word = word]]
      BY <2>3 DEF PollAsk
    <3>3. word = "completed" => tsp[op[s].o] = "paid"
      BY <3>1, <1>a, AnswerFacts
    <3>4. op'[t].at = "save" /\ op'[t].o = op[t].o /\ op'[t].word = word
      BY <3>2, <2>3, <1>a DEF TypeOK, Operations
    <3>5. tsp' = tsp
      BY <2>3 DEF PollAsk
    <3> QED
      BY <3>1, <3>3, <3>4, <3>5, <2>3 DEF Knows, HookStages
  <2> QED
    BY <1>7, <2>1, <2>2, <2>3 DEF PollStep, PollSave
<1>8. ASSUME NEW s \in Slots, NEW o \in Payouts, NEW word \in Words, HookRead(s, o, word)
      PROVE  Knows(op[t])'
  <2>1. CASE t = s
    <3>1. /\ op'[t].at \in HookStages /\ op'[t].o = o /\ op'[t].word = word
          /\ op'[t].status = row[o]
          /\ op'[t].at = "wallet" => Settles(o, word)
      BY <2>1, <1>8, <1>a DEF HookRead, HookStages, TypeOK, Idle
    <3>2. /\ word = "completed" => tsp[o] = "paid"
          /\ word \in {"failed", "cancelled"} => Unpaid(o)
          /\ tsp[o] # "none"
          /\ row[o] = "completed" => tsp[o] = "paid"
          /\ row[o] # "none"
          /\ tsp' = tsp
      BY <1>8, <1>a, ReportFacts DEF HookRead, Matched, CompletedIsPaid
    <3> QED
      BY <3>1, <3>2 DEF Knows, Unpaid, Settles, NewStatus, HookStages
  <2>2. CASE t # s
    BY <2>2, <1>8, <1>a, <1>1 DEF HookRead, TypeOK
  <2> QED
    BY <2>1, <2>2
<1>9. ASSUME NEW s \in Slots, HookStep(s)
      PROVE  Knows(op[t])'
  <2>1. CASE t # s
    BY <2>1, <1>9, <1>a, <1>1 DEF HookStep, HookStatus, HookWallet, HookTell, Goto, End, TypeOK
  <2>2. CASE t = s /\ End(s)
    BY <2>2, <1>a, <1>2 DEF End, TypeOK
  <2>3. CASE t = s /\ HookStatus(s)
    <3>1. /\ op[s].at = "status"
          /\ \/ Goto(s, "wallet") /\ Settles(op[s].o, op[s].word)
             \/ Goto(s, "tell")
      BY <2>3 DEF HookStatus
    <3> QED
      BY <3>1, <2>3, <1>a, MovedOp DEF OpenStages, HookStages, Stages
  <2>4. CASE t = s /\ HookWallet(s) /\ ~End(s)
    <3>1. op[s].at = "wallet" /\ (Goto(s, "status") \/ Goto(s, "tell"))
      BY <2>4 DEF HookWallet
    <3> QED
      BY <3>1, <2>4, <1>a, MovedOp DEF OpenStages, HookStages, Stages
  <2> QED
    BY <1>9, <2>1, <2>2, <2>3, <2>4 DEF HookStep, HookTell
<1>10. ASSUME NEW s \in Slots, Abort(s)
       PROVE  Knows(op[t])'
  BY <1>10, <1>a, <1>1, <1>2 DEF Abort, End, TypeOK
<1>11. CASE UNCHANGED vars
  BY <1>11, <1>1 DEF vars
<1> QED
  BY <1>3, <1>4, <1>5, <1>6, <1>7, <1>8, <1>9, <1>10, <1>11 DEF Next, Advance
----------------------------------------------------------------------------
(* Type correctness of a step. *)

LEMMA GotoType ==
  ASSUME TypeOK, NEW s \in Slots, NEW at \in Stages, Goto(s, at)
  PROVE  op' \in [Slots -> Operations]
  BY DEF TypeOK, Goto, Operations

LEMMA EndType ==
  ASSUME TypeOK, NEW s \in Slots, End(s)
  PROVE  op' \in [Slots -> Operations]
<1>1. Idle \in Operations
  BY DEF Idle, Operations, Words
<1> QED
  BY <1>1 DEF TypeOK, End

LEMMA TypeStep == IInv /\ [Next]_vars => TypeOK'
<1> USE DEF books, outside
<1> SUFFICES ASSUME IInv, [Next]_vars PROVE TypeOK'
  OBVIOUS
<1>a. TypeOK /\ OpsOK
  BY DEF IInv
<1>1. ASSUME NEW o \in Payouts, Decide(o) \/ HookIgnored(o)
      PROVE  TypeOK'
  <2>1. CASE Decide(o)
    BY <2>1, <1>a DEF Decide, TypeOK
  <2>2. CASE HookIgnored(o)
    <3>1. delivered' \in [Payouts -> Nat]
      BY <2>2, <1>a DEF HookIgnored, TypeOK
    <3> QED
      BY <3>1, <2>2, <1>a DEF HookIgnored, TypeOK
  <2> QED
    BY <1>1, <2>1, <2>2
<1>2. ASSUME NEW s \in Slots, CreateBegin(s)
      PROVE  TypeOK'
  <2>1. op' \in [Slots -> Operations]
    BY <1>2, <1>a, GotoType DEF CreateBegin, Stages
  <2> QED
    BY <2>1, <1>2, <1>a DEF CreateBegin, TypeOK
<1>3. ASSUME NEW s \in Slots, NEW o \in Payouts, RetryBegin(s, o)
      PROVE  TypeOK'
  <2>1. [Idle EXCEPT !.at = "funds", !.from = o] \in Operations
    BY DEF Idle, Operations, Stages, Words
  <2> QED
    BY <2>1, <1>3, <1>a DEF RetryBegin, TypeOK
<1>4. ASSUME NEW s \in Slots, CreateStep(s)
      PROVE  TypeOK'
  <2>1. CASE CreateFunds(s)
    <3>1. op' \in [Slots -> Operations]
      BY <2>1, <1>a, GotoType, EndType DEF CreateFunds, Stages
    <3> QED
      BY <3>1, <2>1, <1>a DEF CreateFunds, TypeOK
  <2>2. ASSUME NEW o \in Payouts, CreateOpen(s, o)
        PROVE  TypeOK'
    <3>1. op[s] \in Operations /\ op[s].from \in Payouts \cup {"none"}
      BY <1>a DEF TypeOK, Operations
    <3>2. [op[s] EXCEPT !.at = "insert", !.o = o] \in Operations
      BY <3>1 DEF Operations, Stages
    <3>3. op' \in [Slots -> Operations]
      BY <2>2, <3>2, <1>a, EndType DEF CreateOpen, TypeOK
    <3> QED
      BY <3>1, <3>3, <2>2, <1>a DEF CreateOpen, TypeOK
  <2>3. CASE CreateDeclined(s)
    <3>1. op' \in [Slots -> Operations]
      BY <2>3, <1>a, EndType DEF CreateDeclined
    <3> QED
      BY <3>1, <2>3, <1>a DEF CreateDeclined, TypeOK
  <2>4. CASE CreateInsert(s)
    <3>1. op' \in [Slots -> Operations]
      BY <2>4, <1>a, GotoType DEF CreateInsert, Stages
    <3> QED
      BY <3>1, <2>4, <1>a DEF CreateInsert, TypeOK, RowStatuses
  <2>5. CASE CreateBlock(s)
    <3>1. op' \in [Slots -> Operations]
      BY <2>5, <1>a, GotoType DEF CreateBlock, Stages
    <3> QED
      BY <3>1, <2>5, <1>a DEF CreateBlock, TypeOK
  <2>6. CASE CreateRefused(s)
    <3>1. op' \in [Slots -> Operations]
      BY <2>6, <1>a, EndType DEF CreateRefused
    <3> QED
      BY <3>1, <2>6, <1>a DEF CreateRefused, TypeOK, RowStatuses
  <2>7. CASE CreateLink(s)
    <3>1. op' \in [Slots -> Operations] /\ op[s].o \in Payouts
      BY <2>7, <1>a, EndType DEF CreateLink, OpsOK, Knows, OpenStages, Stages
    <3> QED
      BY <3>1, <2>7, <1>a DEF CreateLink, TypeOK, RowStatuses
  <2> QED
    BY <1>4, <2>1, <2>2, <2>3, <2>4, <2>5, <2>6, <2>7 DEF CreateStep
<1>5. ASSUME NEW s \in Slots, NEW o \in Payouts, PollRead(s, o)
      PROVE  TypeOK'
  <2>1. \A b \in BOOLEAN : [Idle EXCEPT !.at = "ask", !.o = o, !.link = b] \in Operations
    BY DEF Idle, Operations, Stages, Words
  <2>2. PICK b \in BOOLEAN : op' = [op EXCEPT ![s] = [Idle EXCEPT !.at = "ask", !.o = o, !.link = b]]
    <3>1. (o \in linked) \in BOOLEAN
      OBVIOUS
    <3> QED
      BY <3>1, <1>5, Zenon DEF PollRead
  <2> QED
    BY <2>1, <2>2, <1>5, <1>a DEF PollRead, TypeOK
<1>6. ASSUME NEW s \in Slots, PollStep(s)
      PROVE  TypeOK'
  <2>1. CASE PollAsk(s)
    <3>1. op[s].o \in Payouts /\ tsp[op[s].o] # "none" /\ op[s] \in Operations
      BY <2>1, <1>a DEF PollAsk, OpsOK, Knows, OpenStages, Stages, TypeOK
    <3>2. \A word \in Answers(op[s].o) :
             [op[s] EXCEPT !.at = "save", !.word = word] \in Operations
      BY <3>1, <1>a, AnswerFacts DEF Operations, Stages
    <3>3. op' \in [Slots -> Operations]
      BY <2>1, <3>2, <1>a, EndType DEF PollAsk, TypeOK
    <3> QED
      BY <3>3, <2>1, <1>a DEF PollAsk, TypeOK
  <2>2. CASE PollSave(s)
    <3>1. op' \in [Slots -> Operations] /\ op[s].o \in Payouts
      BY <2>2, <1>a, EndType DEF PollSave, OpsOK, Knows, OpenStages, Stages
    <3>2. PollStatus(op[s].word) \in RowStatuses
      BY PollStatusFacts
    <3> QED
      BY <3>1, <3>2, <2>2, <1>a DEF PollSave, TypeOK
  <2> QED
    BY <1>6, <2>1, <2>2 DEF PollStep
<1>7. ASSUME NEW s \in Slots, NEW o \in Payouts, NEW word \in Words, HookRead(s, o, word)
      PROVE  TypeOK'
  <2>1. PICK at \in HookStages, b \in BOOLEAN :
          op' = [op EXCEPT ![s] = [Idle EXCEPT !.at = at, !.o = o, !.word = word,
                                               !.status = row[o], !.link = b]]
    <3> DEFINE at == IF ~WalletFirst(o) THEN "status"
                     ELSE IF Settles(o, word) THEN "wallet" ELSE "tell"
    <3>1. at \in HookStages /\ (o \in linked) \in BOOLEAN
      BY DEF HookStages
    <3>2. op' = [op EXCEPT ![s] = [Idle EXCEPT !.at = at, !.o = o, !.word = word,
                                               !.status = row[o], !.link = o \in linked]]
      BY <1>7, Zenon DEF HookRead
    <3> HIDE DEF at
    <3> QED
      BY <3>1, <3>2, Zenon
  <2>2. row[o] \in RowStatuses \cup {"none"}
    BY <1>a DEF TypeOK
  <2>3. [Idle EXCEPT !.at = at, !.o = o, !.word = word,
                     !.status = row[o], !.link = b] \in Operations
    BY <2>2 DEF Idle, Operations, Stages, HookStages
  <2>4. delivered' \in [Payouts -> Nat]
    BY <1>7, <1>a DEF HookRead, TypeOK
  <2> QED
    BY <2>1, <2>3, <2>4, <1>7, <1>a DEF HookRead, TypeOK
<1>8. ASSUME NEW s \in Slots, HookStep(s)
      PROVE  TypeOK'
  <2>1. CASE HookStatus(s)
    <3>1. op' \in [Slots -> Operations]
      BY <2>1, <1>a, GotoType DEF HookStatus, Stages
    <3>2. NewStatus(op[s].o, op[s].word) \in RowStatuses
      BY NewStatusFacts
    <3> QED
      BY <3>1, <3>2, <2>1, <1>a DEF HookStatus, TypeOK
  <2>2. CASE HookWallet(s)
    <3>1. op' \in [Slots -> Operations]
      BY <2>2, <1>a, GotoType, EndType DEF HookWallet, Stages
    <3>2. PICK b \in {"debited", "released"} : block' \in {block, [block EXCEPT ![op[s].o] = b]}
      BY <2>2 DEF HookWallet
    <3>3. UNCHANGED <<row, linked, tsp, retryOf, delivered, told>>
      BY <2>2 DEF HookWallet
    <3>4. block' \in [Payouts -> {"none", "active", "debited", "released"}]
      BY <3>2, <1>a DEF TypeOK
    <3> QED
      BY <3>1, <3>3, <3>4, <1>a DEF TypeOK
  <2>3. CASE HookTell(s)
    <3>1. op' \in [Slots -> Operations]
      BY <2>3, <1>a, EndType DEF HookTell
    <3>4. op[s].o \in Payouts /\ op[s].status \in RowStatuses
      BY <2>3, <1>a DEF HookTell, OpsOK, Knows, OpenStages, HookStages, Stages, TypeOK, Operations
    <3>2. NewStatus(op[s].o, op[s].word) \in RowStatuses
      BY NewStatusFacts
    <3>3. \A status \in RowStatuses :
             [told EXCEPT ![op[s].o] = @ \cup {status}] \in [Payouts -> SUBSET RowStatuses]
      BY <3>4, <1>a DEF TypeOK
    <3>5. told' \in [Payouts -> SUBSET RowStatuses]
      BY <3>2, <3>3, <3>4, <2>3, <1>a DEF HookTell, TypeOK
    <3>6. UNCHANGED <<row, linked, tsp, block, retryOf, delivered>>
      BY <2>3 DEF HookTell
    <3> QED
      BY <3>1, <3>5, <3>6, <1>a DEF TypeOK
  <2> QED
    BY <1>8, <2>1, <2>2, <2>3 DEF HookStep
<1>9. ASSUME NEW s \in Slots, Abort(s)
      PROVE  TypeOK'
  BY <1>9, <1>a, EndType DEF Abort, TypeOK
<1>10. CASE UNCHANGED vars
  BY <1>10, <1>a DEF vars, TypeOK
<1> QED
  BY <1>1, <1>2, <1>3, <1>4, <1>5, <1>6, <1>7, <1>8, <1>9, <1>10 DEF Next, Advance
----------------------------------------------------------------------------
(* One creator per payout, and nothing known of a payout before it is opened. *)

LEMMA CreatorsStep == IInv /\ [Next]_vars => CreatorsOK'
<1> USE DEF books, outside
<1> SUFFICES ASSUME IInv, [Next]_vars PROVE CreatorsOK'
  OBVIOUS
<1>a. TypeOK /\ OpsOK /\ CreatorsOK /\ OpenedOK
  BY DEF IInv
\* A step that brings no slot into the creator's stages and reserves nothing.
<1>1. ASSUME block' = block,
             \A t \in Slots : op'[t].at \in CreatorStages =>
                                op[t].at \in CreatorStages /\ op'[t].o = op[t].o
      PROVE  CreatorsOK'
  BY <1>1, <1>a DEF CreatorsOK
<1>2. ASSUME NEW o \in Payouts, Decide(o) \/ HookIgnored(o)
      PROVE  CreatorsOK'
  BY <1>1, <1>2 DEF Decide, HookIgnored
<1>3. ASSUME NEW s \in Slots, CreateBegin(s) \/ \E o \in Payouts : RetryBegin(s, o) \/ PollRead(s, o)
      PROVE  CreatorsOK'
  <2>1. block' = block
    BY <1>3 DEF CreateBegin, RetryBegin, PollRead
  <2>2. op'[s].at \in {"funds", "ask"}
    <3>1. CASE CreateBegin(s)
      BY <3>1, <1>a DEF CreateBegin, Goto, TypeOK, Operations
    <3>2. CASE \E o \in Payouts : RetryBegin(s, o)
      BY <3>2, <1>a DEF RetryBegin, Idle, TypeOK
    <3>3. CASE \E o \in Payouts : PollRead(s, o)
      BY <3>3, <1>a DEF PollRead, Idle, TypeOK
    <3> QED
      BY <1>3, <3>1, <3>2, <3>3
  <2>3. \A t \in Slots : t # s => op'[t] = op[t]
    <3>1. CASE CreateBegin(s)
      BY <3>1, <1>a DEF CreateBegin, Goto, TypeOK
    <3>2. CASE \E o \in Payouts : RetryBegin(s, o) \/ PollRead(s, o)
      BY <3>2, <1>a DEF RetryBegin, PollRead, TypeOK
    <3> QED
      BY <1>3, <3>1, <3>2
  <2>4. \A t \in Slots : op'[t].at \in CreatorStages =>
                           op[t].at \in CreatorStages /\ op'[t].o = op[t].o
    BY <2>2, <2>3 DEF CreatorStages
  <2> QED
    BY <2>1, <2>4, <1>1
<1>4. ASSUME NEW s \in Slots, NEW o \in Payouts, NEW word \in Words, HookRead(s, o, word)
      PROVE  CreatorsOK'
  BY <1>1, <1>4, <1>a DEF HookRead, Idle, TypeOK, Operations, CreatorStages
<1>5. ASSUME NEW s \in Slots, PollStep(s) \/ Abort(s)
      PROVE  CreatorsOK'
  <2>1. block' = block
    BY <1>5 DEF PollStep, PollAsk, PollSave, Abort
  <2>2. op'[s].at \in {"idle", "save"}
    <3>1. CASE End(s)
      BY <3>1, <1>a DEF End, Idle, TypeOK
    <3>2. CASE PollAsk(s) /\ ~End(s)
      <4>1. PICK word \in Answers(op[s].o) :
              op' = [op EXCEPT ![s] = [@ EXCEPT !.at = "save", !.word = word]]
        BY <3>2 DEF PollAsk
      <4> QED
        BY <4>1, <1>a DEF TypeOK, Operations
    <3> QED
      BY <1>5, <3>1, <3>2 DEF PollStep, PollSave, Abort
  <2>3. \A t \in Slots : t # s => op'[t] = op[t]
    BY <1>5, <1>a DEF PollStep, PollAsk, PollSave, Abort, End, TypeOK
  <2>4. \A t \in Slots : op'[t].at \in CreatorStages =>
                           op[t].at \in CreatorStages /\ op'[t].o = op[t].o
    BY <2>2, <2>3 DEF CreatorStages
  <2> QED
    BY <2>1, <2>4, <1>1
<1>6. ASSUME NEW s \in Slots,
             \/ CreateFunds(s) \/ CreateDeclined(s) \/ CreateInsert(s)
             \/ CreateRefused(s) \/ CreateLink(s)
      PROVE  CreatorsOK'
  <2>1. block' = block
    BY <1>6 DEF CreateFunds, CreateDeclined, CreateInsert, CreateRefused, CreateLink
  <2>2. \A t \in Slots : op'[t].at \in CreatorStages =>
                           op[t].at \in CreatorStages /\ op'[t].o = op[t].o
    BY <1>6, <1>a
       DEF CreateFunds, CreateDeclined, CreateInsert, CreateRefused, CreateLink, Goto, End, Idle,
           TypeOK, Operations, CreatorStages
  <2> QED
    BY <2>1, <2>2, <1>1
<1>7. ASSUME NEW s \in Slots, NEW o \in Payouts, CreateOpen(s, o)
      PROVE  CreatorsOK'
  <2>1. block' = block /\ block[o] = "none" /\ tsp[o] = "none"
    BY <1>7, <1>a DEF CreateOpen, OpenedOK
  <2>2. \A t \in Slots : op[t].at \in CreatorStages => op[t].o # o
    BY <2>1, <1>a DEF OpsOK, Knows, OpenStages, CreatorStages, Stages
  <2>3. \A t \in Slots : t # s => op'[t] = op[t]
    BY <1>7, <1>a DEF CreateOpen, End, TypeOK
  <2>4. op'[s].at \in CreatorStages => op'[s].o = o
    <3>1. CASE End(s)
      BY <3>1, <1>a DEF End, Idle, TypeOK, CreatorStages
    <3>2. CASE op' = [op EXCEPT ![s] = [@ EXCEPT !.at = "insert", !.o = o]]
      BY <3>2, <1>a DEF TypeOK, Operations
    <3> QED
      BY <1>7, <3>1, <3>2 DEF CreateOpen
  <2> QED
    BY <2>1, <2>2, <2>3, <2>4, <1>a DEF CreatorsOK
<1>8. ASSUME NEW s \in Slots, CreateBlock(s)
      PROVE  CreatorsOK'
  <2>1. op[s].at \in CreatorStages /\ op'[s].at \notin CreatorStages
    BY <1>8, <1>a DEF CreateBlock, Goto, TypeOK, Operations, CreatorStages
  <2>2. \A t \in Slots : t # s => op'[t] = op[t]
    BY <1>8, <1>a DEF CreateBlock, Goto, TypeOK
  <2>3. \A o \in Payouts : o # op[s].o => block'[o] = block[o]
    BY <1>8, <1>a DEF CreateBlock, TypeOK
  <2>4. \A t \in Slots : t # s /\ op[t].at \in CreatorStages => op[t].o # op[s].o
    BY <2>1, <1>a DEF CreatorsOK
  <2>5. \A t \in Slots : op[t].at \in CreatorStages => op[t].o \in Payouts
    BY <1>a DEF OpsOK, Knows, OpenStages, CreatorStages, Stages
  <2> QED
    BY <2>1, <2>2, <2>3, <2>4, <2>5, <1>a DEF CreatorsOK
<1>9. ASSUME NEW s \in Slots, HookStatus(s) \/ HookTell(s)
      PROVE  CreatorsOK'
  BY <1>1, <1>9, <1>a
     DEF HookStatus, HookTell, Goto, End, Idle, TypeOK, Operations, CreatorStages
<1>10. ASSUME NEW s \in Slots, HookWallet(s)
       PROVE  CreatorsOK'
  <2>1. \A t \in Slots : op'[t].at \in CreatorStages =>
                           op[t].at \in CreatorStages /\ op'[t].o = op[t].o
    BY <1>10, <1>a DEF HookWallet, Goto, End, Idle, TypeOK, Operations, CreatorStages
  <2>2. \A o \in Payouts : block[o] = "none" => block'[o] = "none"
    BY <1>10, <1>a DEF HookWallet, TypeOK
  <2>3. \A t \in Slots : op[t].at \in CreatorStages => op[t].o \in Payouts
    BY <1>a DEF OpsOK, Knows, OpenStages, CreatorStages, Stages
  <2> QED
    BY <2>1, <2>2, <2>3, <1>a DEF CreatorsOK
<1>11. CASE UNCHANGED vars
  BY <1>11, <1>1 DEF vars
<1> QED
  BY <1>2, <1>3, <1>4, <1>5, <1>6, <1>7, <1>8, <1>9, <1>10, <1>11
     DEF Next, Advance, CreateStep, HookStep
LEMMA OpenedStep == IInv /\ [Next]_vars => OpenedOK'
<1> USE DEF books, outside
<1> SUFFICES ASSUME IInv, [Next]_vars, NEW o \in Payouts, tsp'[o] = "none"
             PROVE  row'[o] = "none" /\ block'[o] = "none"
  BY DEF OpenedOK
<1>a. TypeOK /\ OpsOK /\ OpenedOK /\ Growing
  BY GrowingStep DEF IInv
<1>b. tsp[o] = "none" /\ row[o] = "none" /\ block[o] = "none"
  BY <1>a DEF Growing, OpenedOK
<1>c. \A s \in Slots : op[s].at \in OpenStages => op[s].o \in Payouts /\ op[s].o # o
  BY <1>a, <1>b DEF OpsOK, Knows
<1>1. ASSUME NEW s \in Slots, CreateStep(s)
      PROVE  row'[o] = "none" /\ block'[o] = "none"
  BY <1>1, <1>a, <1>b, <1>c
     DEF CreateStep, CreateFunds, CreateOpen, CreateDeclined, CreateInsert, CreateBlock,
         CreateRefused, CreateLink, OpenStages, Stages, TypeOK
<1>2. ASSUME NEW s \in Slots, PollStep(s)
      PROVE  row'[o] = "none" /\ block'[o] = "none"
  BY <1>2, <1>a, <1>b, <1>c DEF PollStep, PollAsk, PollSave, OpenStages, Stages, TypeOK
<1>3. ASSUME NEW s \in Slots, HookStep(s)
      PROVE  row'[o] = "none" /\ block'[o] = "none"
  BY <1>3, <1>a, <1>b, <1>c
     DEF HookStep, HookStatus, HookWallet, HookTell, OpenStages, Stages, TypeOK
<1>4. CASE UNCHANGED <<row, block>>
  BY <1>4, <1>b
<1> QED
  BY <1>1, <1>2, <1>3, <1>4
     DEF Next, Advance, vars, Decide, HookIgnored, CreateBegin, Abort, RetryBegin, PollRead, HookRead

LEMMA PaidStep == IInv /\ [Next]_vars => CompletedIsPaid'
<1> USE DEF books, outside
<1> SUFFICES ASSUME IInv, [Next]_vars, NEW o \in Payouts,
                    row'[o] = "completed" \/ "completed" \in told'[o]
             PROVE  tsp'[o] = "paid"
  BY DEF CompletedIsPaid
<1>a. TypeOK /\ OpsOK /\ CompletedIsPaid /\ Growing
  BY GrowingStep DEF IInv
<1>1. CASE tsp[o] = "paid"
  BY <1>1, <1>a DEF Growing
<1>2. CASE UNCHANGED <<row, told>>
  BY <1>1, <1>2, <1>a DEF CompletedIsPaid
<1>3. ASSUME NEW s \in Slots, CreateStep(s)
      PROVE  row'[o] = row[o] \/ row'[o] # "completed"
  BY <1>3, <1>a
     DEF CreateStep, CreateFunds, CreateOpen, CreateDeclined, CreateInsert, CreateBlock,
         CreateRefused, CreateLink, TypeOK
<1>4. ASSUME NEW s \in Slots, CreateStep(s)
      PROVE  told' = told
  BY <1>4
     DEF CreateStep, CreateFunds, CreateOpen, CreateDeclined, CreateInsert, CreateBlock,
         CreateRefused, CreateLink
<1>5. ASSUME NEW s \in Slots, PollSave(s), row[o] # "completed", row'[o] = "completed"
      PROVE  tsp[o] = "paid"
  <2>1. op[s].o = o /\ PollStatus(op[s].word) = "completed"
    BY <1>5, <1>a DEF PollSave, TypeOK
  <2>2. op[s].word = "completed"
    BY <2>1, PollStatusFacts
  <2> QED
    BY <2>1, <2>2, <1>5, <1>a DEF PollSave, OpsOK, Knows
<1>6. ASSUME NEW s \in Slots, HookStatus(s), row[o] # "completed", row'[o] = "completed"
      PROVE  tsp[o] = "paid"
  <2>1. op[s].o = o /\ NewStatus(o, op[s].word) = "completed"
    BY <1>6, <1>a DEF HookStatus, TypeOK
  <2>2. op[s].word = "completed"
    BY <2>1, NewStatusFacts
  <2> QED
    BY <2>1, <2>2, <1>6, <1>a DEF HookStatus, OpsOK, Knows, HookStages
<1>7. ASSUME NEW s \in Slots, HookTell(s), "completed" \notin told[o], "completed" \in told'[o]
      PROVE  tsp[o] = "paid"
  <2> DEFINE status == IF WalletFirst(op[s].o) THEN op[s].status
                       ELSE NewStatus(op[s].o, op[s].word)
  <2>1. op[s].o = o /\ status = "completed"
    <3>1. told' \in {told, [told EXCEPT ![op[s].o] = @ \cup {status}]}
      BY <1>7 DEF HookTell
    <3> HIDE DEF status
    <3> QED
      BY <3>1, <1>7, <1>a DEF TypeOK
  <2>2. op[s].status = "completed" \/ op[s].word = "completed"
    BY <2>1, NewStatusFacts
  <2> QED
    BY <2>1, <2>2, <1>7, <1>a DEF HookTell, OpsOK, Knows, HookStages
<1>8. ASSUME NEW s \in Slots, Advance(s)
      PROVE  tsp'[o] = "paid"
  <2>1. CASE CreateStep(s)
    BY <2>1, <1>1, <1>3, <1>4, <1>a DEF CompletedIsPaid
  <2>2. CASE PollSave(s)
    BY <2>2, <1>1, <1>5, <1>a DEF PollSave, CompletedIsPaid
  <2>3. CASE HookStatus(s)
    BY <2>3, <1>1, <1>6, <1>a DEF HookStatus, CompletedIsPaid
  <2>4. CASE HookTell(s)
    BY <2>4, <1>1, <1>7, <1>a DEF HookTell, CompletedIsPaid
  <2> QED
    BY <1>8, <2>1, <2>2, <2>3, <2>4, <1>2
       DEF Advance, PollStep, HookStep, PollAsk, HookWallet
<1> QED
  BY <1>2, <1>8
     DEF Next, vars, Decide, HookIgnored, CreateBegin, Abort, RetryBegin, PollRead, HookRead

LEMMA InitIInv == Init => IInv
<1> SUFFICES ASSUME Init PROVE IInv
  OBVIOUS
<1>1. TypeOK
  BY DEF Init, TypeOK, Idle, Operations, Words
<1>2. OpsOK /\ CreatorsOK
  BY DEF Init, OpsOK, CreatorsOK, CreatorStages, Knows, Idle, OpenStages, HookStages, Stages
<1>3. OpenedOK /\ CompletedIsPaid
  BY DEF Init, OpenedOK, CompletedIsPaid
<1> QED
  BY <1>1, <1>2, <1>3 DEF IInv

LEMMA InductiveStep == IInv /\ [Next]_vars => IInv'
  BY TypeStep, OpsStep, CreatorsStep, OpenedStep, PaidStep DEF IInv

\* The invariant the theorems below are read off from.
THEOREM Inductive == Spec => []IInv
  BY InitIInv, InductiveStep, PTL DEF Spec

----------------------------------------------------------------------------
(* The theorems. *)

\* Type correctness: no interleaving of creations, polls and webhooks writes a status the
\* payouts table does not know, or settles a reserve in a way the wallet does not.
THEOREM TypeCorrect == Spec => []TypeOK
<1>1. IInv => TypeOK
  BY DEF IInv
<1> QED
  BY <1>1, Inductive, PTL

\* No writer of the status column, late or repeated as its report may be, calls a payout
\* completed, or tells the merchant so, that the provider has not paid.
THEOREM CompletedPayoutsArePaid == Spec => []CompletedIsPaid
<1>1. IInv => CompletedIsPaid
  BY DEF IInv
<1> QED
  BY <1>1, Inductive, PTL
----------------------------------------------------------------------------
(* The abstract ledger. *)

LEMMA HeldFacts == IsFiniteSet(Held) /\ Cardinality(Held) \in Nat
<1>1. Held \subseteq Payouts
  BY DEF Held
<1>2. IsFiniteSet(Held)
  BY <1>1, PayoutSetAssumption, FS_Subset
<1> QED
  BY <1>2, FS_CardinalityType

LEMMA AvailableInt == Available \in Int
  BY HeldFacts, PayoutBoundAssumption DEF Available

LEMMA ReserveCounts ==
  ASSUME TypeOK, NEW o \in Payouts, block[o] = "none", block' = [block EXCEPT ![o] = "active"]
  PROVE  Available' = Available - 1
<1>1. o \notin Held /\ Held' = Held \cup {o}
  BY DEF Held, TypeOK
<1>2. Cardinality(Held') = Cardinality(Held) + 1
  BY <1>1, HeldFacts, FS_AddElement
<1> QED
  BY <1>2, HeldFacts, PayoutBoundAssumption DEF Available

LEMMA ReleaseCounts ==
  ASSUME TypeOK, NEW o \in Payouts, block[o] = "active", block' = [block EXCEPT ![o] = "released"]
  PROVE  Available' = Available + 1
<1>1. o \in Held /\ Held' = Held \ {o}
  BY DEF Held, TypeOK
<1>2. Cardinality(Held') = Cardinality(Held) - 1
  BY <1>1, HeldFacts, FS_RemoveElement
<1> QED
  BY <1>2, HeldFacts, PayoutBoundAssumption DEF Available

LEMMA DebitCounts ==
  ASSUME TypeOK, NEW o \in Payouts, block[o] = "active", block' = [block EXCEPT ![o] = "debited"]
  PROVE  Available' = Available
<1>1. Held' = Held
  BY DEF Held, TypeOK
<1> QED
  BY <1>1 DEF Available

LEMMA LedgerStart == Init => Ledger!LedgerInit
<1> SUFFICES ASSUME Init PROVE Ledger!LedgerInit
  OBVIOUS
<1>1. Held = {}
  BY DEF Init, Held
<1>2. Available = Balance
  BY <1>1, FS_EmptySet, PayoutBoundAssumption DEF Available
<1>3. Outcome = [o \in Payouts |-> "undecided"]
  BY DEF Init, Outcome
<1> QED
  BY <1>2, <1>3 DEF Init, Ledger!LedgerInit

\* Every step of the service and its providers is a step of the ledger or none at all.
LEMMA LedgerStep == IInv /\ [Next]_vars => [Ledger!LedgerNext]_(Ledger!ledgerVars)
<1> USE DEF books, outside
<1> SUFFICES ASSUME IInv, [Next]_vars PROVE [Ledger!LedgerNext]_(Ledger!ledgerVars)
  OBVIOUS
<1>a. TypeOK /\ OpsOK /\ CreatorsOK
  BY DEF IInv
<1>1. CASE UNCHANGED <<tsp, block>>
  <2>1. Outcome' = Outcome /\ Held' = Held
    BY <1>1 DEF Outcome, Held
  <2>2. Available' = Available
    BY <2>1 DEF Available
  <2> QED
    BY <1>1, <2>1, <2>2 DEF Ledger!ledgerVars
<1>2. ASSUME NEW o \in Payouts, Decide(o)
      PROVE  Ledger!LedgerNext
  <2>1. PICK w \in {"paid", "failed", "cancelled"} : tsp' = [tsp EXCEPT ![o] = w]
    BY <1>2 DEF Decide
  <2>2. Outcome[o] = "undecided"
    BY <1>2 DEF Decide, Outcome
  <2>3. \E u \in {"paid", "unpaid"} : Outcome' = [Outcome EXCEPT ![o] = u]
    <3>1. CASE w = "paid"
      <4>1. Outcome' = [Outcome EXCEPT ![o] = "paid"]
        BY <2>1, <3>1, <1>a DEF Outcome, TypeOK
      <4> QED
        BY <4>1
    <3>2. CASE w # "paid"
      <4>1. Outcome' = [Outcome EXCEPT ![o] = "unpaid"]
        BY <2>1, <3>2, <1>a DEF Outcome, TypeOK
      <4> QED
        BY <4>1
    <3> QED
      BY <3>1, <3>2
  <2>4. block' = block /\ Available' = Available
    BY <1>2 DEF Decide, Available, Held
  <2> QED
    BY <2>2, <2>3, <2>4 DEF Ledger!LedgerNext, Ledger!Decide
<1>3. ASSUME NEW s \in Slots, NEW o \in Payouts, CreateOpen(s, o)
      PROVE  UNCHANGED Ledger!ledgerVars
  <2>1. Outcome' = Outcome
    BY <1>3, <1>a DEF CreateOpen, Outcome, TypeOK
  <2>2. block' = block /\ Available' = Available
    BY <1>3 DEF CreateOpen, Available, Held
  <2> QED
    BY <2>1, <2>2 DEF Ledger!ledgerVars
<1>4. ASSUME NEW s \in Slots, CreateBlock(s), block' # block
      PROVE  Ledger!LedgerNext
  <2> DEFINE o == op[s].o
  <2>1. o \in Payouts /\ block[o] = "none"
    BY <1>4, <1>a DEF CreateBlock, OpsOK, CreatorsOK, CreatorStages, Knows, OpenStages, Stages
  <2>2. block' = [block EXCEPT ![o] = "active"] /\ Available > 0 /\ tsp' = tsp
    BY <1>4, AvailableInt DEF CreateBlock
  <2>3. Available' = Available - 1
    BY <2>1, <2>2, <1>a, ReserveCounts
  <2>4. Outcome' = Outcome
    BY <2>2 DEF Outcome
  <2> QED
    BY <2>1, <2>2, <2>3, <2>4 DEF Ledger!LedgerNext, Ledger!Reserve
<1>5. ASSUME NEW s \in Slots, HookWallet(s), block' # block
      PROVE  Ledger!LedgerNext
  <2> DEFINE o == op[s].o
             new == NewStatus(o, op[s].word)
  <2>1. o \in Payouts /\ Settles(o, op[s].word)
    BY <1>5, <1>a DEF HookWallet, OpsOK, Knows, OpenStages, Stages
  <2>2. /\ block[o] = "active" /\ tsp' = tsp
        /\ block' = [block EXCEPT ![o] = IF new = "completed" THEN "debited" ELSE "released"]
    BY <1>5 DEF HookWallet
  <2>3. Outcome' = Outcome
    BY <2>2 DEF Outcome
  <2>4. CASE new = "completed"
    <3>1. tsp[o] = "paid"
      BY <2>4, <1>5, <1>a, NewStatusFacts DEF HookWallet, OpsOK, Knows, HookStages
    <3>2. Outcome[o] = "paid"
      BY <2>1, <3>1 DEF Outcome
    <3>3. block' = [block EXCEPT ![o] = "debited"]
      BY <2>2, <2>4
    <3>4. Available' = Available
      BY <2>1, <2>2, <3>3, <1>a, DebitCounts
    <3> QED
      BY <2>1, <2>2, <2>3, <3>2, <3>3, <3>4 DEF Ledger!LedgerNext, Ledger!Take
  <2>5. CASE new # "completed"
    <3>1. op[s].word \in {"failed", "cancelled"}
      BY <2>1, <2>5, NewStatusFacts DEF Settles
    <3>2. Unpaid(o)
      BY <3>1, <1>5, <1>a DEF HookWallet, OpsOK, Knows, HookStages
    <3>3. Outcome[o] = "unpaid"
      BY <2>1, <3>2 DEF Outcome, Unpaid
    <3>4. block' = [block EXCEPT ![o] = "released"]
      BY <2>2, <2>5
    <3>5. Available' = Available + 1
      BY <2>1, <2>2, <3>4, <1>a, ReleaseCounts
    <3> QED
      BY <2>1, <2>2, <2>3, <3>3, <3>4, <3>5 DEF Ledger!LedgerNext, Ledger!GiveBack
  <2> QED
    BY <2>4, <2>5
<1>6. ASSUME NEW s \in Slots, Advance(s), ~UNCHANGED <<tsp, block>>
      PROVE  \/ \E o \in Payouts : CreateOpen(s, o)
             \/ CreateBlock(s) /\ block' # block
             \/ HookWallet(s) /\ block' # block
  BY <1>6
     DEF Advance, CreateStep, PollStep, HookStep, CreateFunds, CreateDeclined, CreateInsert,
         CreateBlock, CreateRefused, CreateLink, PollAsk, PollSave, HookStatus, HookWallet, HookTell
<1>7. \/ UNCHANGED <<tsp, block>>
      \/ \E o \in Payouts : Decide(o)
      \/ \E s \in Slots : Advance(s) /\ ~UNCHANGED <<tsp, block>>
  BY DEF Next, vars, HookIgnored, CreateBegin, Abort, RetryBegin, PollRead, HookRead
<1> QED
  BY <1>1, <1>2, <1>3, <1>4, <1>5, <1>6, <1>7

\* Payouts keep the merchant's ledger: whatever answers get lost, whichever processes die
\* and however webhooks and polls interleave, the wallet is debited only for a payout the
\* provider paid and gets back only what was reserved for one it did not pay.
THEOREM LedgerIsKept == Spec => ImplementsLedger
  BY LedgerStart, LedgerStep, Inductive, PTL DEF Spec, ImplementsLedger, Ledger!LedgerSpec
----------------------------------------------------------------------------
(* Requests and webhooks one after another: one slot, nothing lost, no polls.  What
   the books owe each other at rest, and how far an operation in progress has come. *)

Serial == Faults = FALSE /\ "poll" \notin Kinds /\ \A s, t \in Slots : s = t

AtStage(stages, o) == \E s \in Slots : op[s].at \in stages /\ op[s].o = o

\* The row is settled before its reserve: every route but the generic one.
Unsettled(o) == AtStage({"wallet"}, o) /\ ~WalletFirst(o)

\* How far the one operation has come: the balance it found is still there, a retried
\* payout stays unpaid, a webhook has the reserve's id, status and wallet agree in turn.
Progress(r) ==
  /\ r.at \notin {"refused", "ask", "save"}
  /\ r.at \in {"open", "insert", "block"} => Available >= 1
  /\ r.at \in {"funds", "open"} /\ r.from # "none" => r.from \in Payouts /\ Unpaid(r.from)
  /\ r.at = "block" => row[r.o] = "processing"
  /\ r.at = "link" => block[r.o] = "active" /\ row[r.o] = "processing"
  /\ r.at \in HookStages => r.link /\ r.o \in linked
  /\ r.at = "wallet" /\ ~WalletFirst(r.o) => row[r.o] = NewStatus(r.o, r.word)
  /\ r.at = "status" /\ WalletFirst(r.o) =>
       /\ Settles(r.o, r.word)
       /\ block[r.o] = IF NewStatus(r.o, r.word) = "completed" THEN "debited" ELSE "released"

ProgressOK == \A s \in Slots : Progress(op[s])

\* Once the creation is over, the payout has its row, the link and a reserve.
CreatedOK ==
  \A o \in Payouts : tsp[o] # "none" /\ ~AtStage(CreatorStages \cup {"link"}, o) =>
     row[o] # "none" /\ o \in linked /\ block[o] # "none"

ReservesOK ==
  \A o \in Payouts :
     /\ block[o] = "debited"  => tsp[o] = "paid"
     /\ block[o] = "released" => Unpaid(o)

AgreeOK ==
  \A o \in Payouts : ~Unsettled(o) =>
     /\ row[o] = "completed" => block[o] = "debited"
     /\ row[o] = "failed"    => block[o] = "released"

RetriesOK == \A o \in Payouts : retryOf[o] # "none" => Unpaid(retryOf[o])

SInv == Serial /\ IInv /\ ProgressOK /\ CreatedOK /\ ReservesOK /\ AgreeOK /\ RetriesOK

LEMMA OneSlot ==
  ASSUME Serial, NEW s \in Slots
  PROVE  \A stages, o : /\ AtStage(stages, o) <=> op[s].at \in stages /\ op[s].o = o
                        /\ AtStage(stages, o)' <=> op'[s].at \in stages /\ op'[s].o = o
  BY DEF AtStage, Serial

\* A reserve and a retried payout keep what the provider decided.
LEMMA DecidedStays ==
  ASSUME Growing, TypeOK
  PROVE  /\ \A o \in Payouts : Unpaid(o) => Unpaid(o)'
         /\ \A o \in Payouts : tsp[o] = "paid" => tsp'[o] = "paid"
  BY DEF Growing, Unpaid

\* What the merchant can still reserve depends on the reserves alone.
LEMMA SameReserves == ASSUME block' = block PROVE Available' = Available
  BY DEF Available, Held

\* The five parts, and what a proof about a step of slot s starts from.
SParts == ProgressOK /\ CreatedOK /\ ReservesOK /\ AgreeOK /\ RetriesOK

LEMMA SerialQuiet ==
  ASSUME SInv, Growing, UNCHANGED <<row, linked, block, retryOf, op>>,
         \A o \in Payouts : tsp'[o] # "none" => tsp[o] # "none"
  PROVE  SParts'
<1>a. TypeOK /\ ProgressOK /\ CreatedOK /\ ReservesOK /\ AgreeOK /\ RetriesOK /\ OpsOK
  BY DEF SInv, IInv
<1>b. \A stages, o : AtStage(stages, o)' <=> AtStage(stages, o)
  BY DEF AtStage
<1>1. ProgressOK'
  <2> SUFFICES ASSUME NEW t \in Slots PROVE Progress(op[t])'
    BY DEF ProgressOK
  <2>1. Progress(op[t]) /\ op'[t] = op[t] /\ Available' = Available
    BY <1>a, SameReserves DEF ProgressOK
  <2>2. op[t].from \in Payouts /\ Unpaid(op[t].from) => Unpaid(op[t].from)'
    BY <1>a, DecidedStays
  <2> QED
    BY <2>1, <2>2 DEF Progress, WalletFirst, NewStatus, Settles
<1>2. CreatedOK'
  BY <1>a, <1>b DEF CreatedOK
<1>3. ReservesOK'
  BY <1>a, DecidedStays DEF ReservesOK
<1>4. AgreeOK'
  BY <1>a, <1>b DEF AgreeOK, Unsettled, WalletFirst
<1>5. RetriesOK'
  BY <1>a, DecidedStays DEF RetriesOK, TypeOK
<1> QED
  BY <1>1, <1>2, <1>3, <1>4, <1>5 DEF SParts

LEMMA SerialBegin ==
  ASSUME SInv, NEW s \in Slots,
         CreateBegin(s) \/ (\E o \in Payouts : RetryBegin(s, o)) \/ CreateFunds(s) \/ CreateDeclined(s)
  PROVE  SParts'
<1> USE DEF books, outside
<1>a. /\ TypeOK /\ ProgressOK /\ CreatedOK /\ ReservesOK /\ AgreeOK /\ RetriesOK /\ OpsOK
      /\ Progress(op[s]) /\ \A t \in Slots : t = s
  BY DEF SInv, IInv, ProgressOK, Serial
<1>b. UNCHANGED <<row, linked, block, retryOf, tsp>>
  BY DEF CreateBegin, RetryBegin, CreateFunds, CreateDeclined
<1>c. \A o : /\ ~AtStage(CreatorStages \cup {"link"}, o) /\ ~AtStage(CreatorStages \cup {"link"}, o)'
             /\ ~AtStage({"wallet"}, o) /\ ~AtStage({"wallet"}, o)'
  <2>1. op[s].at \in {"idle", "funds", "open"}
    <3>1. op[s] = Idle \/ op[s].at = "funds" \/ op[s].at = "open"
      BY DEF CreateBegin, RetryBegin, CreateFunds, CreateDeclined
    <3> QED
      BY <3>1 DEF Idle
  <2>2. op'[s].at \in {"idle", "funds", "open"}
    <3>1. CASE CreateBegin(s) \/ CreateFunds(s) \/ CreateDeclined(s)
      BY <3>1, <1>a DEF CreateBegin, CreateFunds, CreateDeclined, Goto, End, Idle, TypeOK, Operations
    <3>2. CASE \E o \in Payouts : RetryBegin(s, o)
      BY <3>2, <1>a DEF RetryBegin, Idle, TypeOK, Operations
    <3> QED
      BY <3>1, <3>2
  <2> QED
    BY <2>1, <2>2, OneSlot DEF SInv, CreatorStages
<1>1. ProgressOK'
  <2>1. CASE CreateBegin(s)
    <3>1. op'[s].at = "funds" /\ op'[s].from = "none"
      BY <2>1, <1>a DEF CreateBegin, Goto, Idle, TypeOK, Operations
    <3> QED
      BY <3>1, <1>a DEF ProgressOK, Progress, HookStages
  <2>2. ASSUME NEW o \in Payouts, RetryBegin(s, o) PROVE ProgressOK'
    <3>1. op'[s].at = "funds" /\ op'[s].from = o
      BY <2>2, <1>a DEF RetryBegin, Idle, TypeOK, Operations
    <3>2. block[o] = "released"
      BY <2>2, <1>c, <1>a DEF RetryBegin, AgreeOK, Unsettled
    <3>3. Unpaid(o)'
      BY <3>2, <1>a, <1>b DEF ReservesOK, Unpaid
    <3> QED
      BY <3>1, <3>3, <1>a DEF ProgressOK, Progress, HookStages
  <2>3. CASE CreateFunds(s) \/ CreateDeclined(s)
    <3>1. op'[s] = Idle \/ (/\ op[s].at = "funds" /\ op'[s].at = "open" /\ Available >= 1
                            /\ op'[s].from = op[s].from)
      BY <2>3, <1>a DEF CreateFunds, CreateDeclined, Goto, End, TypeOK, Operations
    <3>2. Available' = Available
      BY <1>b, SameReserves
    <3> QED
      BY <3>1, <3>2, <1>a, <1>b DEF ProgressOK, Progress, HookStages, Idle, Unpaid
  <2> QED
    BY <2>1, <2>2, <2>3
<1>2. CreatedOK' /\ ReservesOK' /\ AgreeOK' /\ RetriesOK'
  BY <1>a, <1>b, <1>c DEF CreatedOK, ReservesOK, AgreeOK, RetriesOK, Unsettled, Unpaid
<1> QED
  BY <1>1, <1>2 DEF SParts

LEMMA SerialOpen ==
  ASSUME SInv, NEW s \in Slots, NEW o \in Payouts, CreateOpen(s, o)
  PROVE  SParts'
<1>a. /\ TypeOK /\ ProgressOK /\ CreatedOK /\ ReservesOK /\ AgreeOK /\ RetriesOK /\ OpsOK
      /\ Progress(op[s]) /\ \A t \in Slots : t = s
  BY DEF SInv, IInv, ProgressOK, Serial
<1>b. /\ UNCHANGED <<row, linked, block>> /\ tsp[o] = "none" /\ tsp' = [tsp EXCEPT ![o] = "open"]
      /\ retryOf' = [retryOf EXCEPT ![o] = op[s].from] /\ op[s].at = "open"
  BY DEF CreateOpen, books
<1>c. op'[s].at = "insert" /\ op'[s].o = o
  <2>1. op' = [op EXCEPT ![s] = [@ EXCEPT !.at = "insert", !.o = o]]
    BY DEF CreateOpen, SInv, Serial
  <2> QED
    BY <2>1, <1>a DEF TypeOK, Operations
<1>d. \A q \in Payouts : /\ Unpaid(q) => Unpaid(q)'
                         /\ tsp[q] = "paid" => tsp'[q] = "paid"
  BY <1>a, <1>b DEF Unpaid, TypeOK
<1>e. \A q : /\ ~AtStage(CreatorStages \cup {"link"}, q)
             /\ AtStage(CreatorStages \cup {"link"}, q)' <=> o = q
             /\ ~AtStage({"wallet"}, q) /\ ~AtStage({"wallet"}, q)'
  BY <1>b, <1>c, OneSlot DEF SInv, CreatorStages
<1>1. ProgressOK'
  <2>1. Available' >= 1
    BY <1>a, <1>b, SameReserves DEF Progress
  <2> QED
    BY <2>1, <1>a, <1>c DEF ProgressOK, Progress, HookStages
<1>2. CreatedOK'
  BY <1>a, <1>b, <1>e DEF CreatedOK, TypeOK
<1>3. ReservesOK' /\ AgreeOK'
  BY <1>a, <1>b, <1>d, <1>e DEF ReservesOK, AgreeOK, Unsettled
<1>4. RetriesOK'
  <2>1. op[s].from # "none" => op[s].from \in Payouts /\ Unpaid(op[s].from)
    BY <1>a, <1>b DEF Progress
  <2> QED
    BY <2>1, <1>a, <1>b, <1>d DEF RetriesOK, TypeOK
<1> QED
  BY <1>1, <1>2, <1>3, <1>4 DEF SParts

LEMMA SerialInsert ==
  ASSUME SInv, NEW s \in Slots, CreateInsert(s) \/ CreateBlock(s) \/ CreateLink(s)
  PROVE  SParts'
<1> USE DEF books, outside
<1> DEFINE o == op[s].o
<1>a. /\ TypeOK /\ ProgressOK /\ CreatedOK /\ ReservesOK /\ AgreeOK /\ RetriesOK /\ OpsOK
      /\ Progress(op[s]) /\ \A t \in Slots : t = s
  BY DEF SInv, IInv, ProgressOK, Serial
<1>b. /\ UNCHANGED <<tsp, retryOf>> /\ op[s].at \in CreatorStages \cup {"link"} /\ o \in Payouts
      /\ op'[s].at \in {"block", "link", "idle"} /\ (op'[s].at # "idle" => op'[s].o = o)
  <2>1. UNCHANGED <<tsp, retryOf>> /\ op[s].at \in CreatorStages \cup {"link"}
    BY DEF CreateInsert, CreateBlock, CreateLink, CreatorStages
  <2>2. o \in Payouts
    BY <2>1, <1>a DEF OpsOK, Knows, CreatorStages, OpenStages, Stages
  <2>3. op'[s].at \in {"block", "link", "idle"} /\ (op'[s].at # "idle" => op'[s].o = o)
    BY <1>a DEF CreateInsert, CreateBlock, CreateLink, Goto, End, Idle, TypeOK, Operations, Progress
  <2> QED
    BY <2>1, <2>2, <2>3
<1>c. \A q : /\ AtStage(CreatorStages \cup {"link"}, q) <=> q = o
             /\ op'[s].at # "idle" => (AtStage(CreatorStages \cup {"link"}, q)' <=> q = o)
             /\ ~AtStage({"wallet"}, q) /\ ~AtStage({"wallet"}, q)'
  BY <1>b, OneSlot DEF SInv, CreatorStages
<1>1. CASE CreateInsert(s)
  <2>1. /\ row' = [row EXCEPT ![o] = "processing"] /\ UNCHANGED <<linked, block>>
        /\ op'[s].at = "block" /\ op'[s].o = o
    BY <1>1, <1>a DEF CreateInsert, Goto, TypeOK, Operations
  <2>2. Available' >= 1
    BY <1>1, <2>1, <1>a, SameReserves DEF Progress, CreateInsert
  <2>3. ProgressOK'
    BY <2>1, <2>2, <1>a, <1>b DEF ProgressOK, Progress, HookStages, TypeOK
  <2>4. CreatedOK' /\ ReservesOK' /\ RetriesOK'
    BY <2>1, <1>a, <1>b, <1>c DEF CreatedOK, ReservesOK, RetriesOK, Unpaid, TypeOK
  <2>5. AgreeOK'
    BY <2>1, <1>a, <1>c DEF AgreeOK, Unsettled, TypeOK
  <2> QED
    BY <2>3, <2>4, <2>5 DEF SParts
<1>2. CASE CreateBlock(s)
  <2>1. /\ UNCHANGED <<row, linked>> /\ block' = [block EXCEPT ![o] = "active"]
        /\ op'[s].at = "link" /\ op'[s].o = o /\ row[o] = "processing"
    BY <1>2, <1>a DEF CreateBlock, Goto, TypeOK, Operations, Progress
  <2>2. block[o] = "none"
    BY <1>2 DEF SInv, IInv, CreatorsOK, CreatorStages, CreateBlock
  <2>3. ProgressOK'
    BY <2>1, <1>a, <1>b DEF ProgressOK, Progress, HookStages, TypeOK
  <2>4. CreatedOK' /\ ReservesOK' /\ RetriesOK'
    BY <2>1, <1>a, <1>b, <1>c DEF CreatedOK, ReservesOK, RetriesOK, Unpaid, TypeOK
  <2>5. AgreeOK'
    BY <2>1, <2>2, <1>a, <1>c DEF AgreeOK, Unsettled, TypeOK
  <2> QED
    BY <2>3, <2>4, <2>5 DEF SParts
<1>3. CASE CreateLink(s)
  <2>1. /\ row' = [row EXCEPT ![o] = "processing"] /\ linked' = linked \cup {o}
        /\ UNCHANGED block /\ op'[s] = Idle /\ block[o] = "active"
    BY <1>3, <1>a DEF CreateLink, End, TypeOK, Progress
  <2>2. ProgressOK'
    BY <2>1, <1>a DEF ProgressOK, Progress, HookStages, Idle
  <2>3. CreatedOK' /\ ReservesOK' /\ RetriesOK'
    BY <2>1, <1>a, <1>b, <1>c DEF CreatedOK, ReservesOK, RetriesOK, Unpaid, TypeOK
  <2>4. AgreeOK'
    BY <2>1, <1>a, <1>c DEF AgreeOK, Unsettled, TypeOK
  <2> QED
    BY <2>2, <2>3, <2>4 DEF SParts
<1> QED
  BY <1>1, <1>2, <1>3

LEMMA SerialReport ==
  ASSUME SInv, NEW s \in Slots, NEW o \in Payouts, NEW word \in Words, HookRead(s, o, word)
  PROVE  SParts'
<1> USE DEF books
<1>a. /\ TypeOK /\ ProgressOK /\ CreatedOK /\ ReservesOK /\ AgreeOK /\ RetriesOK /\ OpenedOK
      /\ \A t \in Slots : t = s
  BY DEF SInv, IInv, Serial
<1>b. /\ UNCHANGED <<row, linked, block, retryOf, tsp>> /\ row[o] # "none" /\ op[s] = Idle
      /\ op'[s].o = o /\ op'[s].word = word /\ op'[s].link = (o \in linked)
      /\ op'[s].at = IF ~WalletFirst(o) THEN "status"
                     ELSE IF Settles(o, word) THEN "wallet" ELSE "tell"
  BY <1>a DEF HookRead, Matched, Idle, TypeOK
<1>c. \A q : /\ ~AtStage(CreatorStages \cup {"link"}, q) /\ ~AtStage(CreatorStages \cup {"link"}, q)'
             /\ ~AtStage({"wallet"}, q)
             /\ AtStage({"wallet"}, q)' => q = o /\ WalletFirst(o)
  BY <1>b, OneSlot DEF SInv, CreatorStages, Idle
<1>1. o \in linked
  BY <1>a, <1>b, <1>c DEF CreatedOK, OpenedOK
<1>2. ProgressOK'
  BY <1>1, <1>a, <1>b DEF ProgressOK, Progress, HookStages, WalletFirst
<1>3. CreatedOK' /\ ReservesOK' /\ RetriesOK'
  BY <1>a, <1>b, <1>c DEF CreatedOK, ReservesOK, RetriesOK, Unpaid
<1>4. AgreeOK'
  BY <1>a, <1>b, <1>c DEF AgreeOK, Unsettled
<1> QED
  BY <1>2, <1>3, <1>4 DEF SParts

LEMMA SerialHook ==
  ASSUME SInv, NEW s \in Slots, HookStep(s)
  PROVE  SParts'
<1> USE DEF books, outside
<1> DEFINE o == op[s].o
           new == NewStatus(o, op[s].word)
<1>a. /\ TypeOK /\ ProgressOK /\ CreatedOK /\ ReservesOK /\ AgreeOK /\ RetriesOK /\ OpsOK
      /\ Progress(op[s]) /\ Knows(op[s]) /\ \A t \in Slots : t = s
  BY DEF SInv, IInv, ProgressOK, OpsOK, Serial
<1>b. /\ UNCHANGED <<tsp, retryOf, linked>> /\ op[s].at \in HookStages /\ o \in Payouts
      /\ o \in linked /\ op[s].link
      /\ new = "completed" => tsp[o] = "paid"
      /\ new = "failed" => Unpaid(o)
  <2>1. UNCHANGED <<tsp, retryOf, linked>> /\ op[s].at \in HookStages
    BY DEF HookStep, HookStatus, HookWallet, HookTell, HookStages
  <2>2. o \in Payouts /\ o \in linked /\ op[s].link
    BY <2>1, <1>a DEF Knows, Progress, HookStages, OpenStages, Stages
  <2>3. /\ new = "completed" => tsp[o] = "paid"
        /\ new = "failed" => Unpaid(o)
    BY <2>1, <1>a, NewStatusFacts DEF Knows
  <2> QED
    BY <2>1, <2>2, <2>3
<1>c. row[o] # "none" /\ block[o] # "none"
  <2>1. tsp[o] # "none" /\ ~AtStage(CreatorStages \cup {"link"}, o)
    BY <1>b, <1>a, OneSlot DEF SInv, Knows, HookStages, OpenStages, CreatorStages, Stages
  <2> QED
    BY <2>1, <1>a, <1>b DEF CreatedOK
<1>d. op'[s].at \in {"idle", "status", "wallet", "tell"} /\ (op'[s].at # "idle" => op'[s].o = o)
  BY <1>a DEF HookStep, HookStatus, HookWallet, HookTell, Goto, End, Idle, TypeOK, Operations
<1>e. \A q : /\ ~AtStage(CreatorStages \cup {"link"}, q) /\ ~AtStage(CreatorStages \cup {"link"}, q)'
             /\ Unsettled(q) <=> op[s].at = "wallet" /\ q = o /\ ~WalletFirst(o)
             /\ Unsettled(q)' <=> op'[s].at = "wallet" /\ q = o /\ ~WalletFirst(o)
  BY <1>b, <1>d, OneSlot DEF SInv, CreatorStages, HookStages, Unsettled, WalletFirst
<1>f. new \in RowStatuses /\ (Settles(o, op[s].word) <=> new \in {"completed", "failed"})
  BY NewStatusFacts DEF Settles
<1>1. CASE HookStatus(s)
  <2>1. /\ row' = [row EXCEPT ![o] = new] /\ block' = block
        /\ op'[s].at = (IF Settles(o, op[s].word) /\ ~WalletFirst(o) THEN "wallet" ELSE "tell")
        /\ op'[s].o = o /\ op'[s].word = op[s].word /\ op'[s].link = op[s].link
    BY <1>1, <1>a DEF HookStatus, Goto, TypeOK, Operations
  <2> HIDE DEF o, new
  <2>2. ProgressOK'
    <3>1. row'[o] = new /\ NewStatus(op'[s].o, op'[s].word) = new
      BY <2>1, <1>a, <1>b DEF TypeOK, new
    <3> QED
      BY <2>1, <3>1, <1>a, <1>b DEF ProgressOK, Progress, HookStages, WalletFirst
  <2>3. CreatedOK' /\ ReservesOK' /\ RetriesOK'
    BY <2>1, <1>a, <1>b, <1>c, <1>e, <1>f, ZenonT(30)
       DEF CreatedOK, ReservesOK, RetriesOK, Unpaid, TypeOK, RowStatuses
  <2>4. WalletFirst(o) => Settles(o, op[s].word) /\
           block[o] = IF new = "completed" THEN "debited" ELSE "released"
    BY <1>1, <1>a DEF Progress, HookStatus, o, new
  <2>5. AgreeOK'
    BY <2>1, <2>4, <1>a, <1>b, <1>e, <1>f DEF AgreeOK, TypeOK
  <2> QED
    BY <2>2, <2>3, <2>5 DEF SParts
<1>2. CASE HookWallet(s)
  <2>1. /\ row' = row /\ op[s].at = "wallet" /\ new \in {"completed", "failed"}
        /\ ~WalletFirst(o) => row[o] = new
    BY <1>2, <1>a, <1>f DEF HookWallet, Knows, Progress
  <2>2. CASE block[o] = "active"
    <3>1. /\ block' = [block EXCEPT ![o] = IF new = "completed" THEN "debited" ELSE "released"]
          /\ op'[s].at = (IF WalletFirst(o) THEN "status" ELSE "tell")
          /\ op'[s].o = o /\ op'[s].word = op[s].word /\ op'[s].link = op[s].link
      <4>1. /\ block' = [block EXCEPT ![o] = IF new = "completed" THEN "debited" ELSE "released"]
            /\ Goto(s, IF WalletFirst(o) THEN "status" ELSE "tell")
        BY <2>2, <1>2, <1>b DEF HookWallet
      <4> QED
        BY <4>1, <1>a DEF Goto, TypeOK, Operations
    <3> HIDE DEF o, new
    <3>2. ProgressOK'
      <4>1. /\ block'[o] = IF new = "completed" THEN "debited" ELSE "released"
            /\ NewStatus(op'[s].o, op'[s].word) = new /\ Settles(op'[s].o, op'[s].word)
        BY <2>1, <3>1, <1>a, <1>b, <1>f DEF TypeOK, Settles, new
      <4> QED
        BY <3>1, <4>1, <1>a, <1>b DEF ProgressOK, Progress, HookStages, WalletFirst, Settles
    <3>3. CreatedOK' /\ ReservesOK' /\ RetriesOK'
      BY <2>1, <3>1, <1>a, <1>b, <1>c, <1>e, ZenonT(30) DEF CreatedOK, ReservesOK, RetriesOK, Unpaid, TypeOK
    <3>4. AgreeOK'
      BY <2>1, <2>2, <3>1, <1>a, <1>b, <1>e DEF AgreeOK, TypeOK
    <3> QED
      BY <3>2, <3>3, <3>4 DEF SParts
  <2>3. CASE block[o] # "active"
    <3>1. block' = block /\ op'[s] = Idle
      BY <2>3, <1>2, <1>a DEF HookWallet, End, TypeOK
    <3> HIDE DEF o, new
    <3>2. ProgressOK'
      BY <3>1, <1>a DEF ProgressOK, Progress, HookStages, Idle
    <3>3. CreatedOK' /\ ReservesOK' /\ RetriesOK'
      BY <2>1, <3>1, <1>a, <1>b, <1>c, <1>e DEF CreatedOK, ReservesOK, RetriesOK, Unpaid
    <3>4. block[o] = IF new = "completed" THEN "debited" ELSE "released"
      BY <2>1, <2>3, <1>a, <1>b, <1>c DEF ReservesOK, Unpaid, TypeOK
    <3>5. AgreeOK'
      BY <2>1, <3>1, <3>4, <1>a, <1>e DEF AgreeOK
    <3> QED
      BY <3>2, <3>3, <3>5 DEF SParts
  <2> QED
    BY <2>2, <2>3
<1>3. CASE HookTell(s)
  <2>1. UNCHANGED <<row, block>> /\ op'[s] = Idle /\ op[s].at = "tell"
    BY <1>3, <1>a DEF HookTell, End, TypeOK
  <2>2. ProgressOK'
    BY <2>1, <1>a DEF ProgressOK, Progress, HookStages, Idle
  <2>3. CreatedOK' /\ ReservesOK' /\ RetriesOK'
    BY <2>1, <1>a, <1>b, <1>e DEF CreatedOK, ReservesOK, RetriesOK, Unpaid
  <2>4. AgreeOK'
    BY <2>1, <1>a, <1>e DEF AgreeOK
  <2> QED
    BY <2>2, <2>3, <2>4 DEF SParts
<1> QED
  BY <1>1, <1>2, <1>3 DEF HookStep

LEMMA SerialStep == SInv /\ [Next]_vars => SInv'
<1> USE DEF books, outside
<1> SUFFICES ASSUME SInv, [Next]_vars PROVE SInv'
  OBVIOUS
<1>a. IInv /\ IInv' /\ Growing /\ TypeOK
  BY InductiveStep, GrowingStep DEF SInv, IInv
<1>b. Serial /\ Serial' /\ ProgressOK
  BY DEF SInv, Serial
<1>1. ASSUME NEW o \in Payouts, Decide(o) \/ HookIgnored(o) PROVE SParts'
  <2>1. UNCHANGED <<row, linked, block, retryOf, op>>
    BY <1>1 DEF Decide, HookIgnored
  <2>2. \A q \in Payouts : tsp'[q] # "none" => tsp[q] # "none"
    BY <1>1, <1>a DEF Decide, HookIgnored, TypeOK
  <2> QED
    BY <2>1, <2>2, <1>a, SerialQuiet
<1>2. ASSUME UNCHANGED vars PROVE SParts'
  <2>1. UNCHANGED <<row, linked, block, retryOf, op>> /\ tsp' = tsp
    BY <1>2 DEF vars
  <2> QED
    BY <2>1, <1>a, SerialQuiet
<1>3. ASSUME NEW s \in Slots, Advance(s) PROVE SParts'
  <2>1. ~CreateRefused(s) /\ ~PollStep(s)
    BY <1>b DEF CreateRefused, PollStep, PollAsk, PollSave, ProgressOK, Progress
  <2> QED
    BY <1>3, <2>1, SerialBegin, SerialOpen, SerialInsert, SerialHook DEF Advance, CreateStep
<1>4. ASSUME NEW s \in Slots PROVE ~Abort(s) /\ \A o \in Payouts : ~PollRead(s, o)
  BY <1>b DEF Abort, PollRead, Serial
<1>5. ASSUME NEW s \in Slots, CreateBegin(s) \/ \E o \in Payouts : RetryBegin(s, o)
      PROVE  SParts'
  BY <1>5, SerialBegin
<1>6. ASSUME NEW s \in Slots, NEW o \in Payouts, NEW word \in Words, HookRead(s, o, word)
      PROVE  SParts'
  BY <1>6, SerialReport
<1>7. SParts'
  BY <1>1, <1>2, <1>3, <1>4, <1>5, <1>6 DEF Next
<1> QED
  BY <1>a, <1>b, <1>7 DEF SInv, SParts

LEMMA SerialInit == Serial /\ Init => SInv
<1> SUFFICES ASSUME Serial, Init PROVE SInv
  OBVIOUS
<1>1. ProgressOK
  BY DEF Init, ProgressOK, Progress, Idle, HookStages
<1>2. CreatedOK /\ ReservesOK /\ AgreeOK /\ RetriesOK
  BY DEF Init, CreatedOK, ReservesOK, AgreeOK, RetriesOK
<1> QED
  BY <1>1, <1>2, InitIInv DEF SInv

LEMMA SerialInductive == Serial /\ Spec => []SInv
  BY SerialInit, SerialStep, PTL DEF Spec

\* With requests and webhooks one after another and nothing lost, whatever the provider may
\* still pay, or has paid, has its amount reserved or debited whenever nothing is in flight.
THEOREM OpenPayoutsAreReserved == Serial /\ Spec => []OpenIsReserved
<1>1. SInv => OpenIsReserved
  <2> SUFFICES ASSUME SInv, Quiet, NEW o \in Payouts, tsp[o] \in {"open", "paid"}
               PROVE  block[o] \in {"active", "debited"}
    BY DEF OpenIsReserved
  <2>1. block[o] # "none"
    BY DEF SInv, CreatedOK, AtStage, Quiet, Idle, CreatorStages
  <2>2. block[o] # "released"
    BY DEF SInv, ReservesOK, Unpaid
  <2> QED
    BY <2>1, <2>2 DEF SInv, IInv, TypeOK
<1> QED
  BY <1>1, SerialInductive, PTL

\* ... the books agree with the wallet: completed is debited, failed is released.
THEOREM PayoutBooksAgree == Serial /\ Spec => []BooksAgree
<1>1. SInv => BooksAgree
  BY DEF SInv, AgreeOK, Unsettled, AtStage, BooksAgree, Quiet, Idle
<1> QED
  BY <1>1, SerialInductive, PTL

\* ... and a payout is retried only once its provider can no longer pay it, so that the
\* beneficiary is never paid by both.
THEOREM RetriesPayOnce == Serial /\ Spec => []RetriedNotPaidTwice
<1>1. SInv => RetriedNotPaidTwice
  BY DEF SInv, RetriesOK, RetriedNotPaidTwice, Unpaid
<1> QED
  BY <1>1, SerialInductive, PTL
=============================================================================
