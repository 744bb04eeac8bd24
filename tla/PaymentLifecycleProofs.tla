----------------------- MODULE PaymentLifecycleProofs -----------------------
(***************************************************************************)
(* Theorems of PaymentLifecycle: for any number of intents, payments and   *)
(* slots, any assignment of providers, any interleaving and any faults.    *)
(***************************************************************************)
EXTENDS PaymentLifecycle, FiniteSetTheorems, TLAPS

----------------------------------------------------------------------------
(* The code table. *)

\* The types of the codes a report or an error can carry.
LEMMA TypesOfCodes ==
  /\ TypeOf("0") = "SUCCESS" /\ TypeOf("1088") = "PENDING"
  /\ TypeOf("1030") = "ABANDONED" /\ TypeOf("1043") = "CANCELLED"
  /\ \A code \in CodesOfType.FAILED : TypeOf(code) = "FAILED"
  /\ \A code \in CodesOfType.TIMEOUT : TypeOf(code) = "TIMEOUT"
  BY DEF TypeOf, ResponseTypes, CodesOfType,
      SuccessCodes, PendingCodes, BankDeclines, SystemErrors, UserActions, FraudCodes,
      RefundCodes, RuleViolations, TimeoutCodes, Compliance

LEMMA TypeOfKnown == \A code \in KnownCodes : TypeOf(code) \in ResponseTypes
  BY DEF TypeOf, KnownCodes

\* What the response codes can write on an intent, and when it is "succeeded".
LEMMA IntentStatusFacts ==
  \A code : /\ IntentStatusFor(code) \in IntentStatuses \cup {"unchanged"}
            /\ IntentStatusFor(code) = "succeeded" =>
                 code \in KnownCodes /\ TypeOf(code) = "SUCCESS"
<1>1. SUFFICES ASSUME NEW code, code \in KnownCodes, TypeOf(code) # "FAILED"
               PROVE  /\ IntentStatusOfType[TypeOf(code)] \in IntentStatuses \cup {"unchanged"}
                      /\ IntentStatusOfType[TypeOf(code)] = "succeeded" => TypeOf(code) = "SUCCESS"
  BY DEF IntentStatusFor, IntentStatuses
<1> DEFINE t == TypeOf(code)
<1>2. t \in {"SUCCESS", "PENDING", "WAITING_BANK", "WAITING_CUSTOMER", "REQUIRES_ACTION",
            "FAILED", "TIMEOUT", "ABANDONED", "CANCELLED", "EXPIRED", "REFUNDED"}
  BY <1>1, TypeOfKnown DEF ResponseTypes, CodesOfType,
      SuccessCodes, PendingCodes, BankDeclines, SystemErrors, UserActions, FraudCodes,
      RefundCodes, RuleViolations, TimeoutCodes, Compliance
<1>3. t # "FAILED"
  BY <1>1
<1> HIDE DEF t
<1>4. /\ IntentStatusOfType[t] \in IntentStatuses \cup {"unchanged"}
      /\ IntentStatusOfType[t] = "succeeded" => t = "SUCCESS"
  BY <1>2, <1>3 DEF IntentStatusOfType, IntentStatuses
<1> QED
  BY <1>4 DEF t

LEMMA ErrorStatus ==
  \A code \in ErrorCodes : IntentStatusFor(code) \in {"requires_payment_method", "canceled"}
<1>1. ErrorCodes \subseteq CodesOfType.FAILED \cup CodesOfType.TIMEOUT
  BY DEF ErrorCodes, CodesOfType,
      SuccessCodes, PendingCodes, BankDeclines, SystemErrors, UserActions, FraudCodes,
      RefundCodes, RuleViolations, TimeoutCodes, Compliance
<1> QED
  BY <1>1, TypesOfCodes DEF IntentStatusFor, IntentStatusOfType

LEMMA OwnIntentWriteFacts ==
  \A r : /\ OwnIntentWrite(r) \in {"succeeded", "canceled", "requires_payment_method", "unchanged"}
         /\ OwnIntentWrite(r) = "succeeded" => SaysPaid(r)
  BY DEF OwnIntentWrite

LEMMA RowStatusType == \A type : RowStatusFor(type) \in RowStatuses
  BY DEF RowStatusFor, RowStatuses, RowStatusOfType

LEMMA SettlementFacts ==
  \A code : Settlement(code) = "credit" => code \in KnownCodes /\ TypeOf(code) = "SUCCESS"
  BY DEF Settlement

LEMMA MerchantEventFacts ==
  \A r : /\ MerchantEvent(r) \in Notices
         /\ MerchantEvent(r) = "payment.success" => SaysPaid(r)
  BY DEF MerchantEvent, Notices

LEMMA AnnouncementFacts ==
  \A status : /\ Announcement(status) \subseteq Notices
              /\ "payment.success" \in Announcement(status) => status = "succeeded"
  BY DEF Announcement, Notices

\* A code in the table is a success exactly when the report speaks of money received.
LEMMA SuccessReports ==
  \A r \in Reports :
     CodeOf(r) \in KnownCodes =>
        /\ SaysPaid(r) => TypeOf(CodeOf(r)) = "SUCCESS"
        /\ TypeOf(CodeOf(r)) = "SUCCESS" => SaysPaid(r) \/ SaysReturned(r)
<1>1. "00" \notin KnownCodes
  BY DEF KnownCodes, ResponseTypes, CodesOfType,
      SuccessCodes, PendingCodes, BankDeclines, SystemErrors, UserActions, FraudCodes,
      RefundCodes, RuleViolations, TimeoutCodes, Compliance
<1>2. \A r \in KingdomBankReports :
        /\ SaysPaid(r) <=> CodeOf(r) = "0"
        /\ CodeOf(r) \in {"0", "1088", "1009", "1030"}
  BY DEF KingdomBankReports, Report, SaysPaid, CodeOf, KingdomBankCode
<1>3. \A r \in SulifuReports :
        /\ SaysPaid(r) <=> CodeOf(r) = "0"
        /\ CodeOf(r) \in {"0", "1088", "1009"}
  BY DEF SulifuReports, Report, SaysPaid, CodeOf, SulifuCode
<1>4. \A r \in PayazaReports : CodeOf(r) # "00" =>
        /\ SaysPaid(r) => CodeOf(r) = "0"
        /\ CodeOf(r) = "0" => SaysPaid(r) \/ SaysReturned(r)
        /\ CodeOf(r) \in {"0", "1088", "1000", "1043"}
  BY DEF PayazaReports, PayazaWords, Report, SaysPaid, SaysReturned, CodeOf, PayazaCode
<1>5. TypeOf("1009") = "FAILED" /\ TypeOf("1000") = "FAILED"
  BY TypesOfCodes DEF CodesOfType,
      SuccessCodes, PendingCodes, BankDeclines, SystemErrors, UserActions, FraudCodes,
      RefundCodes, RuleViolations, TimeoutCodes, Compliance
<1> QED
  BY <1>1, <1>2, <1>3, <1>4, <1>5, TypesOfCodes DEF Reports

----------------------------------------------------------------------------
(* The inductive invariant.  What an operation in flight remembers is still true of
   the world although it read it several steps ago: a payment once opened stays with
   its intent, money once received stays known as received, a save stays counted. *)

HookStages   == {"claim", "load", "save", "intent", "finalize", "credit", "notify",
                 "own", "deliver"}
LoadedStages == HookStages \ {"claim", "load"}
SavedStages  == LoadedStages \ {"save"}

Opened(i) == \E p \in Payments : intentOf[p] = i /\ tsp[p] # "none"
Paid(i)   == \E p \in Payments : intentOf[p] = i /\ tsp[p] \in Received

\* What an operation knows of the payment it is about.
OpOK(o) ==
  /\ o.at # "idle" => o.i \in Intents
  /\ o.at \in {"processing", "insert"} \cup HookStages =>
       o.p \in Payments /\ tsp[o.p] # "none" /\ intentOf[o.p] = o.i
  /\ o.at \in HookStages =>
       /\ o.r \in Reports
       /\ SaysPaid(o.r) \/ SaysReturned(o.r) => tsp[o.p] \in Received
  /\ o.at \in LoadedStages => CodeOf(o.r) \in KnownCodes
  /\ o.at \in SavedStages /\ TypeOf(CodeOf(o.r)) = "SUCCESS" => saves[o.p] > 0
  /\ o.at = "credit" => TypeOf(CodeOf(o.r)) = "SUCCESS"

OpsOK    == \A s \in Slots : OpOK(op[s])
LinkOK   == \A p \in Payments : tsp[p] # "none" => intentOf[p] \in Intents
IntentOK == \A i \in Intents : /\ intent[i] = "succeeded" => Paid(i)
                               /\ intent[i] = "processing" => Opened(i)
LedgerOK == \A p \in Payments : /\ credits[p] > 0 => tsp[p] \in Received
                                /\ "payment.success" \in notices[p] => saves[p] > 0

\* Credits asked for and credits still to come do not exceed the saves as success; a
\* credit is lost only by a fault.
CountOK == \A p \in Payments :
  /\ credits[p] + Cardinality(Settling(p)) <= saves[p]
  /\ ~Faults => credits[p] + Cardinality(Settling(p)) = saves[p]

IInv == TypeOK /\ OpsOK /\ LinkOK /\ IntentOK /\ LedgerOK /\ CountOK

----------------------------------------------------------------------------
(* Type correctness of a step. *)

LEMMA BeginType ==
  ASSUME NEW s \in Slots, NEW at \in Stages, NEW i \in Intents,
         op \in [Slots -> Operations], Begin(s, at, i)
  PROVE  op' \in [Slots -> Operations]
  BY DEF Begin, Idle, Operations

LEMMA GotoType ==
  ASSUME NEW s \in Slots, NEW at \in Stages, op \in [Slots -> Operations], Goto(s, at)
  PROVE  op' \in [Slots -> Operations]
  BY DEF Goto, Operations

LEMMA EndType ==
  ASSUME NEW s \in Slots, op \in [Slots -> Operations], End(s)
  PROVE  op' \in [Slots -> Operations]
  BY DEF End, Idle, Operations

LEMMA WriteIntentType ==
  ASSUME NEW s \in Slots, NEW status \in IntentStatuses \cup {"unchanged"},
         intent \in [Intents -> IntentStatuses \cup {"none"}],
         op[s].i \in Intents, WriteIntent(s, status)
  PROVE  intent' \in [Intents -> IntentStatuses \cup {"none"}]
  BY DEF WriteIntent

LEMMA TellType ==
  ASSUME NEW p \in Payments, NEW what \in SUBSET Notices,
         notices \in [Payments -> SUBSET Notices], Tell(p, what)
  PROVE  notices' \in [Payments -> SUBSET Notices]
  BY DEF Tell

LEMMA IntentWriteType ==
  ASSUME TypeOK, op' \in [Slots -> Operations], intent' \in [Intents -> IntentStatuses \cup {"none"}],
         UNCHANGED <<txn, renamed, world, record>>
  PROVE  TypeOK'
  BY DEF TypeOK, world, record

LEMMA TypeStep == IInv /\ [Next]_vars => TypeOK'
<1> USE DEF rows, world, record
<1> SUFFICES ASSUME IInv, [Next]_vars PROVE TypeOK'
  OBVIOUS
<1>a. TypeOK /\ OpsOK /\ LinkOK
  BY DEF IInv
<1>1. ASSUME NEW i \in Intents, CreateIntent(i) \/ Expire(i)
      PROVE  TypeOK'
  BY <1>1, <1>a DEF TypeOK, CreateIntent, Expire, IntentStatuses
<1>2. ASSUME NEW p \in Payments, Pay(p) \/ Return(p)
      PROVE  TypeOK'
  BY <1>2, <1>a DEF TypeOK, Pay, Return
<1>3. ASSUME NEW s \in Slots, NEW i \in Intents, Request(s, i)
      PROVE  TypeOK'
  <2>1. op' \in [Slots -> Operations]
    <3>1. CASE CancelRead(s, i)
      BY <3>1, <1>a DEF CancelRead, TypeOK, Operations, Idle, Stages, RowsOf
    <3>2. CASE ~CancelRead(s, i)
      <4>1. \/ Begin(s, "tsp", i) \/ Begin(s, "view", i) \/ Begin(s, "intelligence", i)
            \/ Begin(s, "abandon", i) \/ Begin(s, "error", i)
        BY <3>2, <1>3 DEF Request, ConfirmRead, ViewRead, IntelligenceRead, ProcessRead
      <4> QED
        BY <4>1, <1>a, BeginType DEF TypeOK, Stages
    <3> QED
      BY <3>1, <3>2
  <2>2. UNCHANGED <<rows, world, saves, credits, notices>> /\ reprocessed' \subseteq reprocessed \cup {i}
    BY <1>3 DEF Request, ConfirmRead, CancelRead, ViewRead, IntelligenceRead, ProcessRead
  <2> QED
    BY <2>1, <2>2, <1>a DEF TypeOK
<1>4. ASSUME NEW p \in Payments, NEW r \in Reports, HookIgnored(p, r)
      PROVE  TypeOK'
  BY <1>4, <1>a DEF HookIgnored, Receive, TypeOK
<1>5. ASSUME NEW s \in Slots, NEW p \in Payments, NEW r \in Reports, HookAccepted(s, p, r)
      PROVE  TypeOK'
  <2>1. op' \in [Slots -> Operations]
    BY <1>5, <1>a DEF HookAccepted, Tellable, TypeOK, LinkOK, Operations, Idle, Stages
  <2> QED
    BY <2>1, <1>5, <1>a DEF HookAccepted, Receive, TypeOK
<1>6. ASSUME NEW s \in Slots, Abort(s)
      PROVE  TypeOK'
  BY <1>6, <1>a, EndType DEF Abort, TypeOK
<1>7. ASSUME NEW s \in Slots, ConfirmStep(s)
      PROVE  TypeOK'
  <2>1. ASSUME NEW p \in Payments, ConfirmOpen(s, p)
        PROVE  TypeOK'
    <3>1. op' \in [Slots -> Operations]
      <4>1. op[s] \in Operations
        BY <1>a DEF TypeOK
      <4>2. [op[s] EXCEPT !.at = "processing", !.p = p] \in Operations
        BY <4>1 DEF Operations, Stages
      <4> QED
        BY <2>1, <4>2, <1>a DEF ConfirmOpen, TypeOK
    <3>2. op[s].i \in Intents
      BY <2>1, <1>a DEF ConfirmOpen, OpsOK, OpOK
    <3>3. /\ tsp' \in [Payments -> {"none", "open", "paid", "returned"}]
          /\ intentOf' \in [Payments -> Intents \cup {"none"}]
      BY <2>1, <3>2, <1>a DEF ConfirmOpen, TypeOK
    <3>4. UNCHANGED <<rows, expired, delivered, record>>
      BY <2>1 DEF ConfirmOpen
    <3> QED
      BY <3>1, <3>3, <3>4, <1>a DEF TypeOK
  <2>2. CASE ConfirmDeclined(s)
    BY <2>2, <1>a, EndType DEF ConfirmDeclined, TypeOK
  <2>3. CASE ConfirmProcessing(s)
    BY <2>3, <1>a, GotoType DEF ConfirmProcessing, TypeOK, OpsOK, OpOK, IntentStatuses, Stages
  <2>4. CASE ConfirmInsert(s)
    BY <2>4, <1>a, EndType DEF ConfirmInsert, TypeOK, OpsOK, OpOK, RowStatuses
  <2> QED
    BY <2>1, <2>2, <2>3, <2>4, <1>7 DEF ConfirmStep
<1>8. ASSUME NEW s \in Slots, OtherStep(s)
      PROVE  TypeOK'
  <2>1. op' \in [Slots -> Operations]
    BY <1>8, <1>a, EndType
       DEF OtherStep, CancelSave, ViewSave, IntelligenceSave, ProcessAbandon, ProcessError, TypeOK
  <2>2. intent' \in [Intents -> IntentStatuses \cup {"none"}]
    BY <1>8, <1>a, ErrorStatus
       DEF OtherStep, CancelSave, ViewSave, IntelligenceSave, ProcessAbandon, ProcessError,
           TypeOK, OpsOK, OpOK, IntentStatuses
  <2>3. UNCHANGED <<txn, renamed, world, record>>
    BY <1>8 DEF OtherStep, CancelSave, ViewSave, IntelligenceSave, ProcessAbandon, ProcessError
  <2> QED
    BY <2>1, <2>2, <2>3, <1>a DEF TypeOK
<1>9. ASSUME NEW s \in Slots, HookStep(s)
      PROVE  TypeOK'
  <2>0. ASSUME op[s].at \in HookStages
        PROVE  op[s].p \in Payments /\ op[s].i \in Intents /\ op[s].r \in Reports
    BY <2>0, <1>a DEF OpsOK, OpOK, HookStages
  <2>w. ASSUME op[s].at \in HookStages,
               NEW status \in IntentStatuses \cup {"unchanged"}, WriteIntent(s, status)
        PROVE  intent' \in [Intents -> IntentStatuses \cup {"none"}]
    BY <2>w, <2>0, <1>a, WriteIntentType DEF TypeOK
  <2>1. op' \in [Slots -> Operations]
    <3>1. CASE HookLoad(s)
      <4>1. op[s] \in Operations
        BY <1>a DEF TypeOK
      <4>2. /\ [op[s] EXCEPT !.at = "save", !.ours = op[s].p \notin renamed] \in Operations
            /\ Idle \in Operations
        BY <4>1 DEF Operations, Stages, Idle
      <4> QED
        BY <3>1, <4>2, <1>a DEF HookLoad, TypeOK
    <3>2. CASE ~HookLoad(s)
      <4>1. \/ Goto(s, "load") \/ Goto(s, "intent") \/ Goto(s, "finalize") \/ Goto(s, "credit")
            \/ Goto(s, "notify") \/ Goto(s, "own") \/ Goto(s, "deliver") \/ End(s)
        BY <3>2, <1>9 DEF HookStep, HookClaim, HookSave, HookIntent, HookFinalize, HookCredit,
                          HookNotify, HookOwn, HookDeliver
      <4> QED
        BY <4>1, <1>a, GotoType, EndType DEF TypeOK, Stages
    <3> QED
      BY <3>1, <3>2
  <2>2. CASE HookClaim(s) \/ HookLoad(s)
    BY <2>1, <2>2, <2>0, <1>a DEF HookClaim, HookLoad, HookStages, TypeOK
  <2>3. CASE HookSave(s)
    BY <2>1, <2>3, <2>0, <1>a, RowStatusType DEF HookSave, HookStages, TypeOK
  <2>4. CASE HookIntent(s) \/ HookFinalize(s) \/ HookOwn(s)
    <3>1. OwnIntentWrite(op[s].r) \in IntentStatuses \cup {"unchanged"}
      BY OwnIntentWriteFacts DEF IntentStatuses
    <3>2. intent' \in [Intents -> IntentStatuses \cup {"none"}]
      BY <2>4, <2>w, <3>1, <1>a, IntentStatusFacts
         DEF HookIntent, HookFinalize, HookOwn, HookStages, TypeOK
    <3>3. UNCHANGED <<txn, renamed, world, record>>
      BY <2>4 DEF HookIntent, HookFinalize, HookOwn
    <3> QED
      BY <2>1, <3>2, <3>3, <1>a, IntentWriteType
  <2>5. CASE HookCredit(s)
    BY <2>1, <2>5, <2>0, <1>a DEF HookCredit, HookStages, TypeOK
  <2>6. CASE HookNotify(s) \/ HookDeliver(s)
    <3>1. \E what \in SUBSET Notices : Tell(op[s].p, what)
      <4>1. CASE HookNotify(s)
        BY <4>1, AnnouncementFacts DEF HookNotify
      <4>2. CASE HookDeliver(s)
        BY <4>2, MerchantEventFacts DEF HookDeliver, Notices
      <4> QED
        BY <2>6, <4>1, <4>2
    <3>2. notices' \in [Payments -> SUBSET Notices]
      BY <2>6, <3>1, <2>0, <1>a, TellType DEF HookNotify, HookDeliver, HookStages, TypeOK
    <3>3. UNCHANGED <<rows, world, saves, credits, reprocessed>>
      BY <2>6 DEF HookNotify, HookDeliver
    <3> QED
      BY <2>1, <3>2, <3>3, <1>a DEF TypeOK
  <2> QED
    BY <2>2, <2>3, <2>4, <2>5, <2>6, <1>9 DEF HookStep
<1>10. CASE UNCHANGED vars
  BY <1>10, <1>a DEF TypeOK, vars
<1> QED
  BY <1>1, <1>2, <1>3, <1>4, <1>5, <1>6, <1>7, <1>8, <1>9, <1>10 DEF Next, Advance

----------------------------------------------------------------------------
(* The provider's side and the save counter only grow, so what an operation knows
   stays true while other operations run. *)

Growing ==
  \A p \in Payments :
     /\ tsp[p] # "none" => tsp'[p] # "none" /\ intentOf'[p] = intentOf[p]
     /\ tsp[p] \in Received => tsp'[p] \in Received
     /\ saves[p] > 0 => saves'[p] > 0

LEMMA GrowingStep == TypeOK /\ [Next]_vars => Growing
<1> USE DEF rows, world, record
<1> SUFFICES ASSUME TypeOK, [Next]_vars PROVE Growing
  OBVIOUS
<1>1. ASSUME UNCHANGED <<tsp, intentOf, saves>>
      PROVE  Growing
  BY <1>1 DEF Growing
<1>2. ASSUME NEW p \in Payments, Pay(p) \/ Return(p)
      PROVE  Growing
  BY <1>2 DEF Pay, Return, Growing, Received, TypeOK
<1>3. ASSUME NEW s \in Slots, NEW p \in Payments, ConfirmOpen(s, p)
      PROVE  Growing
  BY <1>3 DEF ConfirmOpen, Growing, Received, TypeOK
<1>4. ASSUME NEW s \in Slots, HookSave(s)
      PROVE  Growing
  <2>1. saves' \in {saves, [saves EXCEPT ![op[s].p] = @ + 1]}
    BY <1>4 DEF HookSave
  <2>2. UNCHANGED <<tsp, intentOf>>
    BY <1>4 DEF HookSave
  <2> QED
    BY <2>1, <2>2 DEF Growing, TypeOK
<1>5. ASSUME NEW s \in Slots, HookStep(s), ~HookSave(s)
      PROVE  UNCHANGED <<tsp, intentOf, saves>>
  BY <1>5 DEF HookStep, HookClaim, HookLoad, HookIntent, HookFinalize, HookCredit, HookNotify,
              HookOwn, HookDeliver
<1>6. ASSUME NEW s \in Slots,
             ConfirmDeclined(s) \/ ConfirmProcessing(s) \/ ConfirmInsert(s) \/ OtherStep(s) \/ Abort(s)
      PROVE  UNCHANGED <<tsp, intentOf, saves>>
  BY <1>6 DEF ConfirmDeclined, ConfirmProcessing, ConfirmInsert, OtherStep, CancelSave, ViewSave,
              IntelligenceSave, ProcessAbandon, ProcessError, Abort
<1>7. ASSUME NEW s \in Slots, NEW i \in Intents, Request(s, i)
      PROVE  UNCHANGED <<tsp, intentOf, saves>>
  BY <1>7 DEF Request, ConfirmRead, CancelRead, ViewRead, IntelligenceRead, ProcessRead
<1>8. ASSUME NEW p \in Payments, NEW r \in Reports,
             HookIgnored(p, r) \/ \E s \in Slots : HookAccepted(s, p, r)
      PROVE  UNCHANGED <<tsp, intentOf, saves>>
  BY <1>8 DEF HookIgnored, HookAccepted
<1>9. ASSUME NEW i \in Intents, CreateIntent(i) \/ Expire(i)
      PROVE  UNCHANGED <<tsp, intentOf, saves>>
  BY <1>9 DEF CreateIntent, Expire
<1>10. CASE UNCHANGED vars
  BY <1>10, <1>1 DEF vars
<1> QED
  BY <1>1, <1>2, <1>3, <1>4, <1>5, <1>6, <1>7, <1>8, <1>9, <1>10 DEF Next, Advance, ConfirmStep

\* Only a confirmation opens a payment.
LEMMA PaymentOpens ==
  ASSUME TypeOK, [Next]_vars, NEW p \in Payments, tsp[p] = "none", tsp'[p] # "none"
  PROVE  \E s \in Slots : ConfirmOpen(s, p)
<1> USE DEF rows, world, record
<1>1. ASSUME NEW q \in Payments, Pay(q) \/ Return(q)
      PROVE  tsp'[p] = "none"
  BY <1>1 DEF Pay, Return, TypeOK
<1>2. ASSUME NEW s \in Slots, NEW q \in Payments, ConfirmOpen(s, q), q # p
      PROVE  tsp'[p] = "none"
  BY <1>2 DEF ConfirmOpen, TypeOK
<1>3. ASSUME NEW s \in Slots, HookStep(s) \/ OtherStep(s) \/ Abort(s)
      PROVE  tsp' = tsp
  BY <1>3 DEF HookStep, HookClaim, HookLoad, HookSave, HookIntent, HookFinalize, HookCredit,
              HookNotify, HookOwn, HookDeliver, OtherStep, CancelSave, ViewSave,
              IntelligenceSave, ProcessAbandon, ProcessError, Abort
<1>4. ASSUME NEW s \in Slots, ConfirmDeclined(s) \/ ConfirmProcessing(s) \/ ConfirmInsert(s)
      PROVE  tsp' = tsp
  BY <1>4 DEF ConfirmDeclined, ConfirmProcessing, ConfirmInsert
<1>5. ASSUME NEW s \in Slots, NEW i \in Intents, Request(s, i)
      PROVE  tsp' = tsp
  BY <1>5 DEF Request, ConfirmRead, CancelRead, ViewRead, IntelligenceRead, ProcessRead
<1>6. ASSUME NEW q \in Payments, NEW r \in Reports,
             HookIgnored(q, r) \/ \E s \in Slots : HookAccepted(s, q, r)
      PROVE  tsp' = tsp
  BY <1>6 DEF HookIgnored, HookAccepted
<1>7. ASSUME NEW i \in Intents, CreateIntent(i) \/ Expire(i)
      PROVE  tsp' = tsp
  BY <1>7 DEF CreateIntent, Expire
<1> QED
  BY <1>1, <1>2, <1>3, <1>4, <1>5, <1>6, <1>7 DEF Next, Advance, ConfirmStep, vars

LEMMA KeptOp ==
  ASSUME Growing, NEW t \in Slots, OpOK(op[t]), op'[t] = op[t]
  PROVE  OpOK(op[t])'
  BY DEF Growing, OpOK, HookStages, LoadedStages, SavedStages

LEMMA EndedOp ==
  ASSUME NEW t \in Slots, op'[t] = Idle
  PROVE  OpOK(op[t])'
  BY DEF OpOK, Idle, HookStages, LoadedStages, SavedStages

\* A handler that moves on to its next stage takes along what it knows.
LEMMA MovedOp ==
  ASSUME Growing, TypeOK, NEW t \in Slots, OpOK(op[t]), op[t].at \in HookStages,
         NEW at \in HookStages, Goto(t, at),
         at \in LoadedStages => CodeOf(op[t].r) \in KnownCodes,
         at \in SavedStages /\ TypeOf(CodeOf(op[t].r)) = "SUCCESS" => saves'[op[t].p] > 0,
         at = "credit" => TypeOf(CodeOf(op[t].r)) = "SUCCESS"
  PROVE  OpOK(op[t])'
<1>1. /\ op'[t].at = at /\ op'[t].i = op[t].i /\ op'[t].p = op[t].p /\ op'[t].r = op[t].r
  BY DEF Goto, TypeOK, Operations
<1>2. /\ op[t].i \in Intents /\ op[t].p \in Payments /\ op[t].r \in Reports
      /\ tsp'[op[t].p] # "none" /\ intentOf'[op[t].p] = op[t].i
      /\ SaysPaid(op[t].r) \/ SaysReturned(op[t].r) => tsp'[op[t].p] \in Received
  BY DEF OpOK, Growing, HookStages
<1> QED
  BY <1>1, <1>2 DEF OpOK, HookStages, LoadedStages, SavedStages

LEMMA OpsStep == IInv /\ [Next]_vars => OpsOK'
<1> USE DEF rows, world, record
<1> SUFFICES ASSUME IInv, [Next]_vars, NEW t \in Slots PROVE OpOK(op[t])'
  BY DEF OpsOK
<1>a. TypeOK /\ OpsOK /\ LinkOK /\ OpOK(op[t]) /\ Growing
  BY GrowingStep DEF IInv, OpsOK
<1>1. ASSUME op'[t] = op[t] PROVE OpOK(op[t])'
  BY <1>1, <1>a, KeptOp
<1>2. ASSUME op'[t] = Idle PROVE OpOK(op[t])'
  BY <1>2, EndedOp
<1>3. ASSUME NEW i \in Intents, CreateIntent(i) \/ Expire(i)
      PROVE  OpOK(op[t])'
  BY <1>1, <1>3 DEF CreateIntent, Expire
<1>4. ASSUME NEW p \in Payments, Pay(p) \/ Return(p)
      PROVE  OpOK(op[t])'
  BY <1>1, <1>4 DEF Pay, Return
<1>5. ASSUME NEW s \in Slots, NEW i \in Intents, Request(s, i)
      PROVE  OpOK(op[t])'
  <2>1. \E at \in {"tsp", "cancel", "view", "intelligence", "abandon", "error"} :
          op'[s].at = at /\ op'[s].i = i
    BY <1>5, <1>a, ZenonT(30)
       DEF Request, ConfirmRead, CancelRead, ViewRead, IntelligenceRead, ProcessRead, Begin, Idle,
           TypeOK
  <2>2. CASE t = s
    BY <2>1, <2>2 DEF OpOK, HookStages, LoadedStages, SavedStages
  <2>3. CASE t # s
    BY <2>3, <1>5, <1>a, <1>1
       DEF Request, ConfirmRead, CancelRead, ViewRead, IntelligenceRead, ProcessRead, Begin, TypeOK
  <2> QED
    BY <2>2, <2>3
<1>6. ASSUME NEW p \in Payments, NEW r \in Reports, HookIgnored(p, r)
      PROVE  OpOK(op[t])'
  BY <1>1, <1>6 DEF HookIgnored
<1>7. ASSUME NEW s \in Slots, NEW p \in Payments, NEW r \in Reports, HookAccepted(s, p, r)
      PROVE  OpOK(op[t])'
  <2>1. CASE t = s
    <3>1. /\ op'[t].at \in {"claim", "load"} /\ op'[t].i = intentOf[p]
          /\ op'[t].p = p /\ op'[t].r = r
      BY <2>1, <1>7, <1>a DEF HookAccepted, TypeOK, Idle
    <3>2. /\ tsp[p] # "none" /\ intentOf[p] \in Intents
          /\ SaysPaid(r) \/ SaysReturned(r) => tsp[p] \in Received
          /\ UNCHANGED <<tsp, intentOf, saves>>
      BY <1>7, <1>a DEF HookAccepted, Tellable, LinkOK, Received
    <3> QED
      BY <3>1, <3>2 DEF OpOK, HookStages, LoadedStages, SavedStages
  <2>2. CASE t # s
    BY <2>2, <1>7, <1>a, <1>1 DEF HookAccepted, TypeOK
  <2> QED
    BY <2>1, <2>2
<1>8. ASSUME NEW s \in Slots, Advance(s) \/ Abort(s)
      PROVE  OpOK(op[t])'
  <2>1. CASE t # s
    <3>1. op'[t] = op[t]
      BY <2>1, <1>8, <1>a
         DEF Advance, Abort, ConfirmStep, ConfirmOpen, ConfirmDeclined, ConfirmProcessing,
             ConfirmInsert, OtherStep, CancelSave, ViewSave, IntelligenceSave, ProcessAbandon,
             ProcessError, HookStep, HookClaim, HookLoad, HookSave, HookIntent, HookFinalize,
             HookCredit, HookNotify, HookOwn, HookDeliver, Goto, End, TypeOK
    <3> QED
      BY <3>1, <1>1
  <2>2. CASE t = s /\ End(s)
    BY <2>2, <1>2, <1>a DEF End, TypeOK
  <2>3. ASSUME t = s, NEW p \in Payments, ConfirmOpen(s, p)
        PROVE  OpOK(op[t])'
    BY <2>3, <1>a DEF ConfirmOpen, TypeOK, OpsOK, OpOK, HookStages, LoadedStages, SavedStages
  <2>4. CASE t = s /\ ConfirmProcessing(s)
    BY <2>4, <1>a
       DEF ConfirmProcessing, Goto, TypeOK, OpOK, HookStages, LoadedStages, SavedStages
  <2>5. CASE t = s /\ HookClaim(s)
    BY <2>5, <1>a, MovedOp DEF HookClaim, HookStages, LoadedStages, SavedStages
  <2>6. CASE t = s /\ HookLoad(s)
    BY <2>6, <1>2, <1>a
       DEF HookLoad, TypeOK, OpOK, HookStages, LoadedStages, SavedStages
  <2>7. CASE t = s /\ HookSave(s) /\ ~End(s)
    <3>1. op[s].at = "save" /\ Goto(s, "intent")
      BY <2>7 DEF HookSave
    <3>2. op[s].p \in Payments /\ CodeOf(op[s].r) \in KnownCodes
      BY <2>7, <3>1, <1>a DEF OpOK, HookStages, LoadedStages
    <3>3. TypeOf(CodeOf(op[s].r)) = "SUCCESS" => saves' = [saves EXCEPT ![op[s].p] = @ + 1]
      BY <2>7 DEF HookSave
    <3>4. TypeOf(CodeOf(op[s].r)) = "SUCCESS" => saves'[op[s].p] > 0
      BY <3>2, <3>3, <1>a DEF TypeOK
    <3> QED
      BY <2>7, <3>1, <3>2, <3>4, <1>a, MovedOp DEF HookStages, LoadedStages, SavedStages
  <2>8. ASSUME t = s, op[s].at \in SavedStages, NEW at \in SavedStages, Goto(s, at),
               at = "credit" => TypeOf(CodeOf(op[s].r)) = "SUCCESS"
        PROVE  OpOK(op[t])'
    <3>1. op[s].p \in Payments /\ CodeOf(op[s].r) \in KnownCodes
      BY <2>8, <1>a DEF OpOK, HookStages, LoadedStages, SavedStages
    <3>2. TypeOf(CodeOf(op[s].r)) = "SUCCESS" => saves'[op[s].p] > 0
      BY <2>8, <3>1, <1>a DEF OpOK, Growing
    <3>3. at \in HookStages /\ op[s].at \in HookStages
      BY <2>8 DEF HookStages, LoadedStages, SavedStages
    <3> QED
      BY <2>8, <3>1, <3>2, <3>3, <1>a, MovedOp
  <2>9. ASSUME HookIntent(s) \/ HookFinalize(s) \/ HookCredit(s) \/ HookNotify(s) \/ HookOwn(s)
        PROVE  /\ op[s].at \in SavedStages
               /\ \E at \in SavedStages :
                    Goto(s, at) /\ (at = "credit" => TypeOf(CodeOf(op[s].r)) = "SUCCESS")
    <3>1. \/ Goto(s, "finalize") \/ Goto(s, "notify") \/ Goto(s, "own") \/ Goto(s, "deliver")
          \/ Goto(s, "credit") /\ TypeOf(CodeOf(op[s].r)) = "SUCCESS"
      BY <2>9, SettlementFacts DEF HookIntent, HookFinalize, HookCredit, HookNotify, HookOwn
    <3>2. op[s].at \in {"intent", "finalize", "credit", "notify", "own"}
      BY <2>9 DEF HookIntent, HookFinalize, HookCredit, HookNotify, HookOwn
    <3> QED
      BY <3>1, <3>2 DEF HookStages, LoadedStages, SavedStages
  <2>10. ASSUME ConfirmDeclined(s) \/ ConfirmInsert(s) \/ OtherStep(s) \/ HookDeliver(s) \/ Abort(s)
         PROVE  End(s)
    BY <2>10
       DEF ConfirmDeclined, ConfirmInsert, OtherStep, CancelSave, ViewSave, IntelligenceSave,
           ProcessAbandon, ProcessError, HookDeliver, Abort
  <2> QED
    BY <2>1, <2>2, <2>3, <2>4, <2>5, <2>6, <2>7, <2>8, <2>9, <2>10, <1>8
       DEF Advance, ConfirmStep, HookStep
<1>9. CASE UNCHANGED vars
  BY <1>9, <1>1 DEF vars
<1> QED
  BY <1>3, <1>4, <1>5, <1>6, <1>7, <1>8, <1>9 DEF Next

----------------------------------------------------------------------------
(* The remaining parts of the invariant. *)

LEMMA LinkStep == IInv /\ [Next]_vars => LinkOK'
<1> SUFFICES ASSUME IInv, [Next]_vars, NEW p \in Payments, tsp'[p] # "none"
             PROVE  intentOf'[p] \in Intents
  BY DEF LinkOK
<1>a. TypeOK /\ OpsOK /\ LinkOK /\ Growing
  BY GrowingStep DEF IInv
<1>1. CASE tsp[p] # "none"
  BY <1>1, <1>a DEF LinkOK, Growing
<1>2. CASE tsp[p] = "none"
  <2>1. \E s \in Slots : ConfirmOpen(s, p)
    BY <1>2, <1>a, PaymentOpens
  <2> QED
    BY <2>1, <1>a DEF ConfirmOpen, TypeOK, OpsOK, OpOK
<1> QED
  BY <1>1, <1>2

\* A status written on an intent is justified if it is justified as a value.
LEMMA IntentWritten ==
  ASSUME TypeOK, IntentOK, Growing,
         NEW i \in Intents, NEW status \in IntentStatuses,
         intent' \in {intent, [intent EXCEPT ![i] = status]},
         status = "succeeded" => Paid(i), status = "processing" => Opened(i)
  PROVE  IntentOK'
<1>1. \A j \in Intents : (Paid(j) => Paid(j)') /\ (Opened(j) => Opened(j)')
  BY DEF Growing, Paid, Opened, Received
<1>2. \A j \in Intents : intent'[j] = intent[j] \/ (j = i /\ intent'[j] = status)
  BY DEF TypeOK
<1> QED
  BY <1>1, <1>2 DEF IntentOK

LEMMA IntentKept ==
  ASSUME IntentOK, Growing, intent' = intent
  PROVE  IntentOK'
<1>1. \A j \in Intents : (Paid(j) => Paid(j)') /\ (Opened(j) => Opened(j)')
  BY DEF Growing, Paid, Opened, Received
<1> QED
  BY <1>1 DEF IntentOK

LEMMA IntentStep == IInv /\ [Next]_vars => IntentOK'
<1> USE DEF rows, world, record
<1> SUFFICES ASSUME IInv, [Next]_vars PROVE IntentOK'
  OBVIOUS
<1>a. TypeOK /\ OpsOK /\ LinkOK /\ IntentOK /\ Growing
  BY GrowingStep DEF IInv
<1>b. ASSUME intent' = intent PROVE IntentOK'
  BY <1>b, <1>a, IntentKept
<1>1. ASSUME NEW i \in Intents, CreateIntent(i) \/ Expire(i)
      PROVE  IntentOK'
  <2>1. intent' \in {intent, [intent EXCEPT ![i] = "requires_payment_method"]}
    BY <1>1 DEF CreateIntent, Expire
  <2> QED
    BY <2>1, <1>a, IntentWritten DEF IntentStatuses
<1>2. ASSUME NEW p \in Payments, Pay(p) \/ Return(p)
      PROVE  IntentOK'
  BY <1>2, <1>b DEF Pay, Return
<1>3. ASSUME NEW s \in Slots, NEW i \in Intents, Request(s, i)
      PROVE  IntentOK'
  BY <1>3, <1>b DEF Request, ConfirmRead, CancelRead, ViewRead, IntelligenceRead, ProcessRead
<1>4. ASSUME NEW p \in Payments, NEW r \in Reports,
             HookIgnored(p, r) \/ \E s \in Slots : HookAccepted(s, p, r)
      PROVE  IntentOK'
  BY <1>4, <1>b DEF HookIgnored, HookAccepted
<1>5. ASSUME NEW s \in Slots, ConfirmStep(s) \/ Abort(s)
      PROVE  IntentOK'
  <2>1. CASE ConfirmProcessing(s)
    <3>1. op[s].i \in Intents /\ Opened(op[s].i)
      BY <2>1, <1>a DEF ConfirmProcessing, OpsOK, OpOK, Opened
    <3>2. intent' = [intent EXCEPT ![op[s].i] = "processing"]
      BY <2>1 DEF ConfirmProcessing
    <3> QED
      BY <3>1, <3>2, <1>a, IntentWritten DEF IntentStatuses
  <2>2. CASE ~ConfirmProcessing(s)
    BY <2>2, <1>5, <1>b DEF ConfirmStep, ConfirmOpen, ConfirmDeclined, ConfirmInsert, Abort
  <2> QED
    BY <2>1, <2>2
<1>6. ASSUME NEW s \in Slots, OtherStep(s)
      PROVE  IntentOK'
  <2>1. op[s].i \in Intents
    BY <1>6, <1>a DEF OtherStep, CancelSave, ViewSave, IntelligenceSave, ProcessAbandon, ProcessError,
                      OpsOK, OpOK
  <2>2. \E status \in {"requires_payment_method", "canceled"} :
          intent' \in {intent, [intent EXCEPT ![op[s].i] = status]}
    BY <1>6, ErrorStatus
       DEF OtherStep, CancelSave, ViewSave, IntelligenceSave, ProcessAbandon, ProcessError
  <2> QED
    BY <2>1, <2>2, <1>a, IntentWritten DEF IntentStatuses
<1>7. ASSUME NEW s \in Slots, HookStep(s)
      PROVE  IntentOK'
  <2>1. CASE HookIntent(s) \/ HookFinalize(s) \/ HookOwn(s)
    <3>1. /\ op[s].i \in Intents /\ Opened(op[s].i) /\ op[s].r \in Reports
          /\ CodeOf(op[s].r) \in KnownCodes
          /\ SaysPaid(op[s].r) \/ SaysReturned(op[s].r) => Paid(op[s].i)
      BY <2>1, <1>a DEF HookIntent, HookFinalize, HookOwn, OpsOK, OpOK, HookStages, LoadedStages,
                        Opened, Paid
    <3>2. \E status \in IntentStatuses :
            /\ intent' \in {intent, [intent EXCEPT ![op[s].i] = status]}
            /\ status = "succeeded" => Paid(op[s].i)
      <4>1. CASE HookOwn(s)
        <5>1. \/ intent' = intent
              \/ intent' = [intent EXCEPT ![op[s].i] = OwnIntentWrite(op[s].r)]
                 /\ OwnIntentWrite(op[s].r) # "unchanged"
          BY <4>1 DEF HookOwn, WriteIntent
        <5> QED
          BY <5>1, <3>1, OwnIntentWriteFacts DEF IntentStatuses
      <4>2. CASE HookIntent(s) \/ HookFinalize(s)
        <5> DEFINE status == IntentStatusFor(CodeOf(op[s].r))
        <5>1. \/ intent' = intent
              \/ intent' = [intent EXCEPT ![op[s].i] = status] /\ status # "unchanged"
          BY <4>2 DEF HookIntent, HookFinalize, WriteIntent
        <5>2. /\ status \in IntentStatuses \cup {"unchanged"}
              /\ status = "succeeded" => TypeOf(CodeOf(op[s].r)) = "SUCCESS"
          BY IntentStatusFacts
        <5>3. status = "succeeded" => Paid(op[s].i)
          BY <5>2, <3>1, SuccessReports
        <5> HIDE DEF status
        <5> QED
          BY <5>1, <5>2, <5>3 DEF IntentStatuses
      <4> QED
        BY <2>1, <4>1, <4>2
    <3> QED
      BY <3>1, <3>2, <1>a, IntentWritten
  <2>2. CASE ~(HookIntent(s) \/ HookFinalize(s) \/ HookOwn(s))
    BY <2>2, <1>7, <1>b
       DEF HookStep, HookClaim, HookLoad, HookSave, HookCredit, HookNotify, HookDeliver
  <2> QED
    BY <2>1, <2>2
<1>8. CASE UNCHANGED vars
  BY <1>8, <1>b DEF vars
<1> QED
  BY <1>1, <1>2, <1>3, <1>4, <1>5, <1>6, <1>7, <1>8 DEF Next, Advance

LEMMA LedgerKept ==
  ASSUME LedgerOK, Growing, UNCHANGED <<credits, notices>>
  PROVE  LedgerOK'
  BY DEF LedgerOK, Growing

LEMMA LedgerStep == IInv /\ [Next]_vars => LedgerOK'
<1> USE DEF rows, world, record
<1> SUFFICES ASSUME IInv, [Next]_vars PROVE LedgerOK'
  OBVIOUS
<1>a. TypeOK /\ OpsOK /\ LedgerOK /\ Growing
  BY GrowingStep DEF IInv
<1>b. ASSUME UNCHANGED <<credits, notices>> PROVE LedgerOK'
  BY <1>b, <1>a, LedgerKept
<1>1. ASSUME NEW i \in Intents, CreateIntent(i) \/ Expire(i)
      PROVE  LedgerOK'
  BY <1>1, <1>b DEF CreateIntent, Expire
<1>2. ASSUME NEW p \in Payments, Pay(p) \/ Return(p)
      PROVE  LedgerOK'
  BY <1>2, <1>b DEF Pay, Return
<1>3. ASSUME NEW s \in Slots, NEW i \in Intents, Request(s, i)
      PROVE  LedgerOK'
  BY <1>3, <1>b DEF Request, ConfirmRead, CancelRead, ViewRead, IntelligenceRead, ProcessRead
<1>4. ASSUME NEW p \in Payments, NEW r \in Reports,
             HookIgnored(p, r) \/ \E s \in Slots : HookAccepted(s, p, r)
      PROVE  LedgerOK'
  BY <1>4, <1>b DEF HookIgnored, HookAccepted
<1>5. ASSUME NEW s \in Slots, ConfirmStep(s) \/ OtherStep(s) \/ Abort(s)
      PROVE  LedgerOK'
  BY <1>5, <1>b
     DEF ConfirmStep, ConfirmOpen, ConfirmDeclined, ConfirmProcessing, ConfirmInsert, Abort,
         OtherStep, CancelSave, ViewSave, IntelligenceSave, ProcessAbandon, ProcessError
<1>6. ASSUME NEW s \in Slots, HookStep(s)
      PROVE  LedgerOK'
  <2>0. ASSUME op[s].at \in HookStages
        PROVE  /\ op[s].p \in Payments /\ op[s].r \in Reports
               /\ SaysPaid(op[s].r) \/ SaysReturned(op[s].r) => tsp[op[s].p] \in Received
    BY <2>0, <1>a DEF OpsOK, OpOK, HookStages
  <2>1. CASE HookCredit(s)
    <3>1. /\ op[s].at \in HookStages /\ CodeOf(op[s].r) \in KnownCodes
          /\ TypeOf(CodeOf(op[s].r)) = "SUCCESS"
      BY <2>1, <1>a DEF HookCredit, HookStages, LoadedStages, OpsOK, OpOK
    <3>2. tsp[op[s].p] \in Received
      BY <3>1, <2>0, SuccessReports
    <3>3. /\ credits' \in {credits, [credits EXCEPT ![op[s].p] = @ + 1]}
          /\ UNCHANGED <<tsp, saves, notices>>
      BY <2>1 DEF HookCredit
    <3> QED
      BY <3>1, <3>2, <3>3, <2>0, <1>a DEF LedgerOK, TypeOK
  <2>2. CASE HookNotify(s) \/ HookDeliver(s)
    <3>1. /\ op[s].at \in HookStages /\ CodeOf(op[s].r) \in KnownCodes
          /\ TypeOf(CodeOf(op[s].r)) = "SUCCESS" => saves[op[s].p] > 0
      BY <2>2, <1>a DEF HookNotify, HookDeliver, HookStages, LoadedStages, SavedStages, OpsOK, OpOK
    <3>2. \E what \in SUBSET Notices :
            /\ notices' = [notices EXCEPT ![op[s].p] = @ \cup what]
            /\ "payment.success" \in what => TypeOf(CodeOf(op[s].r)) = "SUCCESS"
      <4>1. CASE HookDeliver(s)
        <5>1. /\ MerchantEvent(op[s].r) \in Notices
              /\ MerchantEvent(op[s].r) = "payment.success" => TypeOf(CodeOf(op[s].r)) = "SUCCESS"
          BY <3>1, <2>0, MerchantEventFacts, SuccessReports
        <5> DEFINE what == {MerchantEvent(op[s].r)}
        <5>2. notices' = [notices EXCEPT ![op[s].p] = @ \cup what]
          BY <4>1 DEF HookDeliver, Tell
        <5>3. /\ what \in SUBSET Notices
              /\ "payment.success" \in what => TypeOf(CodeOf(op[s].r)) = "SUCCESS"
          BY <5>1
        <5> HIDE DEF what
        <5> QED
          BY <5>2, <5>3
      <4>2. CASE HookNotify(s)
        <5> DEFINE status == IntentStatusFor(CodeOf(op[s].r))
        <5>1. PICK what \in SUBSET Announcement(status) :
                notices' = [notices EXCEPT ![op[s].p] = @ \cup what]
          BY <4>2 DEF HookNotify, Tell
        <5>2. what \in SUBSET Notices /\ ("payment.success" \in what => status = "succeeded")
          BY AnnouncementFacts
        <5>3. status = "succeeded" => TypeOf(CodeOf(op[s].r)) = "SUCCESS"
          BY IntentStatusFacts
        <5> HIDE DEF status
        <5> QED
          BY <5>1, <5>2, <5>3
      <4> QED
        BY <2>2, <4>1, <4>2
    <3>3. UNCHANGED <<tsp, saves, credits>>
      BY <2>2 DEF HookNotify, HookDeliver
    <3> QED
      BY <3>1, <3>2, <3>3, <2>0, <1>a DEF LedgerOK, TypeOK
  <2>3. CASE ~(HookCredit(s) \/ HookNotify(s) \/ HookDeliver(s))
    BY <2>3, <1>6, <1>b
       DEF HookStep, HookClaim, HookLoad, HookSave, HookIntent, HookFinalize, HookOwn
  <2> QED
    BY <2>1, <2>2, <2>3
<1>7. CASE UNCHANGED vars
  BY <1>7, <1>b DEF vars
<1> QED
  BY <1>1, <1>2, <1>3, <1>4, <1>5, <1>6, <1>7 DEF Next, Advance

----------------------------------------------------------------------------
(* The handlers on their way to the wallet, counted. *)

LEMMA SettlingFacts ==
  ASSUME NEW p
  PROVE  IsFiniteSet(Settling(p)) /\ Cardinality(Settling(p)) \in Nat
<1>1. Settling(p) \subseteq Slots
  BY DEF Settling
<1>2. IsFiniteSet(Settling(p))
  BY <1>1, SlotAssumption, FS_Subset
<1> QED
  BY <1>2, FS_CardinalityType

\* How many of the handlers settling p are the one in slot s.
Share(o, p) == IF SettlesFor(o, p) THEN 1 ELSE 0

LEMMA SettlingSplit ==
  ASSUME NEW p, NEW s \in Slots
  PROVE  Cardinality(Settling(p)) = Cardinality(Settling(p) \ {s}) + Share(op[s], p)
<1>1. s \in Settling(p) <=> SettlesFor(op[s], p)
  BY DEF Settling
<1>2. CASE SettlesFor(op[s], p)
  <2>1. Cardinality(Settling(p) \ {s}) = Cardinality(Settling(p)) - 1
    BY <1>1, <1>2, SettlingFacts, FS_RemoveElement
  <2> QED
    BY <2>1, <1>2, SettlingFacts DEF Share
<1>3. CASE ~SettlesFor(op[s], p)
  <2>1. Settling(p) \ {s} = Settling(p)
    BY <1>1, <1>3
  <2> QED
    BY <2>1, <1>3, SettlingFacts DEF Share
<1> QED
  BY <1>2, <1>3

LEMMA CountMoved ==
  ASSUME TypeOK, CountOK, NEW s \in Slots, NEW x, op' = [op EXCEPT ![s] = x],
         saves' \in [Payments -> Nat], credits' \in [Payments -> Nat],
         \A p \in Payments :
           /\ credits'[p] + Share(x, p) + saves[p] <= saves'[p] + credits[p] + Share(op[s], p)
           /\ ~Faults =>
                credits'[p] + Share(x, p) + saves[p] = saves'[p] + credits[p] + Share(op[s], p)
  PROVE  CountOK'
<1> SUFFICES ASSUME NEW p \in Payments
             PROVE  /\ credits'[p] + Cardinality(Settling(p))' <= saves'[p]
                    /\ ~Faults => credits'[p] + Cardinality(Settling(p))' = saves'[p]
  BY DEF CountOK
<1>1. op'[s] = x /\ \A t \in Slots \ {s} : op'[t] = op[t]
  BY DEF TypeOK
<1>2. Settling(p)' \ {s} = Settling(p) \ {s}
  BY <1>1 DEF Settling
<1>3. Settling(p)' = (Settling(p) \ {s}) \cup (IF SettlesFor(x, p) THEN {s} ELSE {})
  BY <1>1, <1>2 DEF Settling
<1>4. Cardinality(Settling(p))' = Cardinality(Settling(p) \ {s}) + Share(x, p)
  <2>1. IsFiniteSet(Settling(p) \ {s}) /\ Cardinality(Settling(p) \ {s}) \in Nat
    BY SettlingFacts, FS_Subset, FS_CardinalityType
  <2>2. CASE SettlesFor(x, p)
    <3>1. Settling(p)' = (Settling(p) \ {s}) \cup {s} /\ s \notin Settling(p) \ {s}
      BY <2>2, <1>3
    <3>2. Cardinality((Settling(p) \ {s}) \cup {s}) = Cardinality(Settling(p) \ {s}) + 1
      BY <2>1, <3>1, FS_AddElement
    <3> QED
      BY <3>1, <3>2, <2>2 DEF Share
  <2>3. CASE ~SettlesFor(x, p)
    <3>1. Settling(p)' = Settling(p) \ {s}
      BY <2>3, <1>3
    <3> QED
      BY <3>1, <2>1, <2>3 DEF Share
  <2> QED
    BY <2>2, <2>3
<1>5. /\ Cardinality(Settling(p)) = Cardinality(Settling(p) \ {s}) + Share(op[s], p)
      /\ Cardinality(Settling(p) \ {s}) \in Nat
  BY SettlingSplit, SettlingFacts, FS_Subset, FS_CardinalityType
<1>6. /\ credits[p] \in Nat /\ saves[p] \in Nat /\ credits'[p] \in Nat /\ saves'[p] \in Nat
      /\ Share(x, p) \in Nat /\ Share(op[s], p) \in Nat
  BY DEF TypeOK, Share
<1>7. /\ credits[p] + Cardinality(Settling(p)) <= saves[p]
      /\ ~Faults => credits[p] + Cardinality(Settling(p)) = saves[p]
  BY DEF CountOK
<1>8. /\ credits'[p] + Share(x, p) + saves[p] <= saves'[p] + credits[p] + Share(op[s], p)
      /\ ~Faults =>
           credits'[p] + Share(x, p) + saves[p] = saves'[p] + credits[p] + Share(op[s], p)
  OBVIOUS
<1> QED
  BY <1>4, <1>5, <1>6, <1>7, <1>8

\* A step of an operation that is not on its way to the wallet, and stays so.
LEMMA CountAside ==
  ASSUME TypeOK, CountOK, NEW s \in Slots, NEW x, op' = [op EXCEPT ![s] = x],
         UNCHANGED <<saves, credits>>,
         \A p \in Payments : Share(x, p) = Share(op[s], p)
  PROVE  CountOK'
<1>1. \A p \in Payments : /\ credits[p] \in Nat /\ saves[p] \in Nat
                          /\ Share(x, p) \in Nat /\ Share(op[s], p) \in Nat
  BY DEF TypeOK, Share
<1>2. saves' \in [Payments -> Nat] /\ credits' \in [Payments -> Nat]
  BY DEF TypeOK
<1>3. ASSUME NEW p \in Payments
      PROVE  /\ credits'[p] + Share(x, p) + saves[p] <= saves'[p] + credits[p] + Share(op[s], p)
             /\ ~Faults =>
                  credits'[p] + Share(x, p) + saves[p] = saves'[p] + credits[p] + Share(op[s], p)
  <2>1. Share(x, p) = Share(op[s], p) /\ credits'[p] = credits[p] /\ saves'[p] = saves[p]
    OBVIOUS
  <2> QED
    BY <2>1, <1>1
<1> QED
  BY <1>2, <1>3, CountMoved

LEMMA CountKept ==
  ASSUME CountOK, UNCHANGED <<op, saves, credits>>
  PROVE  CountOK'
  BY DEF CountOK, Settling

LEMMA SuccessMoves ==
  \A code \in KnownCodes : TypeOf(code) = "SUCCESS" =>
     IsFinal(code) /\ IntentStatusFor(code) = "succeeded" /\ Settlement(code) = "credit"
  BY DEF IsFinal, OpenTypes, IntentStatusFor, IntentStatusOfType, Settlement, AffectsSettlement

LEMMA MovedShare ==
  ASSUME NEW s \in Slots, TypeOK, NEW at \in Stages, Goto(s, at)
  PROVE  \E x : /\ op' = [op EXCEPT ![s] = x] /\ x.at = at /\ x.p = op[s].p /\ x.r = op[s].r
<1>1. op[s] \in Operations
  BY DEF TypeOK
<1>2. [op[s] EXCEPT !.at = at].at = at /\ [op[s] EXCEPT !.at = at].p = op[s].p
      /\ [op[s] EXCEPT !.at = at].r = op[s].r
  BY <1>1 DEF Operations
<1> QED
  BY <1>2 DEF Goto

LEMMA CountStep == IInv /\ [Next]_vars => CountOK'
<1> USE DEF rows, world, record
<1> SUFFICES ASSUME IInv, [Next]_vars PROVE CountOK'
  OBVIOUS
<1>a. TypeOK /\ TypeOK' /\ OpsOK /\ CountOK
  BY TypeStep DEF IInv
<1>b. /\ saves \in [Payments -> Nat] /\ credits \in [Payments -> Nat]
      /\ saves' \in [Payments -> Nat] /\ credits' \in [Payments -> Nat]
  BY <1>a DEF TypeOK
\* Nothing settles before or after.
<1>c. ASSUME NEW s \in Slots, NEW x, op' = [op EXCEPT ![s] = x], UNCHANGED <<saves, credits>>,
             op[s].at \notin {"intent", "finalize", "credit"},
             x.at \notin {"intent", "finalize", "credit"}
      PROVE  CountOK'
  <2>1. \A p \in Payments : Share(x, p) = Share(op[s], p)
    BY <1>c DEF Share, SettlesFor
  <2> QED
    BY <1>c, <2>1, <1>a, CountAside
<1>1. ASSUME UNCHANGED <<op, saves, credits>>
      PROVE  CountOK'
  BY <1>1, <1>a, CountKept
<1>2. ASSUME NEW s \in Slots, NEW i \in Intents, Request(s, i)
      PROVE  CountOK'
  <2>1. op[s].at = "idle" /\ UNCHANGED <<saves, credits>>
    BY <1>2 DEF Request, ConfirmRead, CancelRead, ViewRead, IntelligenceRead, ProcessRead, Idle
  <2>2. \E x : op' = [op EXCEPT ![s] = x]
               /\ x.at \in {"tsp", "cancel", "view", "intelligence", "abandon", "error"}
    <3>1. CASE CancelRead(s, i)
      <4> DEFINE x == [Idle EXCEPT !.at = "cancel", !.i = i, !.seen = RowsOf(i)]
      <4>1. op' = [op EXCEPT ![s] = x] /\ x.at = "cancel"
        BY <3>1 DEF CancelRead, Idle
      <4> QED
        BY <4>1
    <3>2. CASE ~CancelRead(s, i)
      <4>1. PICK at \in {"tsp", "view", "intelligence", "abandon", "error"} : Begin(s, at, i)
        BY <3>2, <1>2 DEF Request, ConfirmRead, ViewRead, IntelligenceRead, ProcessRead
      <4> DEFINE x == [Idle EXCEPT !.at = at, !.i = i]
      <4>2. op' = [op EXCEPT ![s] = x] /\ x.at = at
        BY <4>1 DEF Begin, Idle
      <4> QED
        BY <4>2
    <3> QED
      BY <3>1, <3>2
  <2> QED
    BY <2>1, <2>2, <1>c
<1>3. ASSUME NEW s \in Slots, NEW p \in Payments, NEW r \in Reports, HookAccepted(s, p, r)
      PROVE  CountOK'
  <2>1. op[s].at = "idle" /\ UNCHANGED <<saves, credits>>
    BY <1>3 DEF HookAccepted, Idle
  <2>2. \E x : op' = [op EXCEPT ![s] = x] /\ x.at \in {"claim", "load"}
    <3> DEFINE x == [Idle EXCEPT !.at = IF r.tag = "id" THEN "claim" ELSE "load",
                                 !.i = intentOf[p], !.p = p, !.r = r]
    <3>1. op' = [op EXCEPT ![s] = x]
      BY <1>3 DEF HookAccepted
    <3>2. x.at \in {"claim", "load"}
      BY DEF Idle
    <3> QED
      BY <3>1, <3>2
  <2> QED
    BY <2>1, <2>2, <1>c
<1>4. ASSUME NEW s \in Slots, Abort(s)
      PROVE  CountOK'
  <2>1. Faults /\ op' = [op EXCEPT ![s] = Idle] /\ UNCHANGED <<saves, credits>>
    BY <1>4 DEF Abort, End
  <2>2. ASSUME NEW p \in Payments
        PROVE  credits'[p] + Share(Idle, p) + saves[p] <= saves'[p] + credits[p] + Share(op[s], p)
    <3>1. Share(Idle, p) = 0 /\ Share(op[s], p) \in {0, 1}
      BY DEF Share, SettlesFor, Idle
    <3>2. /\ credits'[p] = credits[p] /\ saves'[p] = saves[p]
          /\ credits[p] \in Nat /\ saves[p] \in Nat
      BY <2>1, <1>b
    <3> QED
      BY <3>1, <3>2
  <2> QED
    BY <2>1, <2>2, <1>a, <1>b, CountMoved
<1>5. ASSUME NEW s \in Slots, ConfirmStep(s) \/ OtherStep(s)
      PROVE  CountOK'
  <2>1. /\ op[s].at \notin {"intent", "finalize", "credit"}
        /\ UNCHANGED <<saves, credits>>
    BY <1>5 DEF ConfirmStep, ConfirmOpen, ConfirmDeclined, ConfirmProcessing, ConfirmInsert,
                OtherStep, CancelSave, ViewSave, IntelligenceSave, ProcessAbandon, ProcessError
  <2>2. CASE ConfirmProcessing(s)
    <3>1. \E x : op' = [op EXCEPT ![s] = x] /\ x.at = "insert"
      BY <2>2, <1>a, MovedShare DEF ConfirmProcessing, Stages
    <3> QED
      BY <3>1, <2>1, <1>c
  <2>3. ASSUME NEW p \in Payments, ConfirmOpen(s, p)
        PROVE  CountOK'
    <3>1. \E x : op' = [op EXCEPT ![s] = x] /\ x.at = "processing"
      <4> DEFINE x == [op[s] EXCEPT !.at = "processing", !.p = p]
      <4>1. op' = [op EXCEPT ![s] = x]
        BY <2>3 DEF ConfirmOpen
      <4>2. x.at = "processing"
        BY <1>a DEF TypeOK, Operations
      <4> QED
        BY <4>1, <4>2
    <3> QED
      BY <3>1, <2>1, <1>c
  <2>4. CASE ConfirmDeclined(s) \/ ConfirmInsert(s) \/ OtherStep(s)
    <3>1. op' = [op EXCEPT ![s] = Idle]
      BY <2>4 DEF ConfirmDeclined, ConfirmInsert, OtherStep, CancelSave, ViewSave,
                  IntelligenceSave, ProcessAbandon, ProcessError, End
    <3>2. Idle.at \notin {"intent", "finalize", "credit"}
      BY DEF Idle
    <3> QED
      BY <3>1, <3>2, <2>1, <1>c
  <2> QED
    BY <1>5, <2>2, <2>3, <2>4 DEF ConfirmStep
<1>6. ASSUME NEW s \in Slots, HookStep(s)
      PROVE  CountOK'
  <2>a. ASSUME op[s].at \in HookStages
        PROVE  /\ op[s].p \in Payments
               /\ op[s].at \in LoadedStages => CodeOf(op[s].r) \in KnownCodes
    BY <2>a, <1>a DEF OpsOK, OpOK
  <2>1. CASE HookClaim(s) \/ HookLoad(s) \/ HookNotify(s) \/ HookOwn(s) \/ HookDeliver(s)
    <3>1. /\ op[s].at \notin {"intent", "finalize", "credit"}
          /\ UNCHANGED <<saves, credits>>
      BY <2>1 DEF HookClaim, HookLoad, HookNotify, HookOwn, HookDeliver
    <3>2. \E x : op' = [op EXCEPT ![s] = x] /\ x.at \notin {"intent", "finalize", "credit"}
      <4>1. CASE HookClaim(s) \/ HookNotify(s) \/ HookOwn(s)
        <5>1. \E at \in {"load", "own", "deliver"} : Goto(s, at)
          BY <4>1 DEF HookClaim, HookNotify, HookOwn
        <5> QED
          BY <5>1, <1>a, MovedShare DEF Stages
      <4>2. CASE HookDeliver(s)
        <5>1. op' = [op EXCEPT ![s] = Idle] /\ Idle.at = "idle"
          BY <4>2 DEF HookDeliver, End, Idle
        <5> QED
          BY <5>1
      <4>3. CASE HookLoad(s)
        <5>1. CASE CodeOf(op[s].r) \in KnownCodes
          <6> DEFINE x == [op[s] EXCEPT !.at = "save", !.ours = op[s].p \notin renamed]
          <6>1. op' = [op EXCEPT ![s] = x]
            BY <4>3, <5>1 DEF HookLoad
          <6>2. x.at = "save"
            BY <1>a DEF TypeOK, Operations
          <6> QED
            BY <6>1, <6>2
        <5>2. CASE CodeOf(op[s].r) \notin KnownCodes
          <6>1. op' = [op EXCEPT ![s] = Idle] /\ Idle.at = "idle"
            BY <4>3, <5>2 DEF HookLoad, Idle
          <6> QED
            BY <6>1
        <5> QED
          BY <5>1, <5>2
      <4> QED
        BY <2>1, <4>1, <4>2, <4>3
    <3> QED
      BY <3>1, <3>2, <1>c
  <2>2. CASE HookSave(s)
    <3>0. op[s].at = "save" /\ op[s].p \in Payments
      BY <2>2, <2>a DEF HookSave, HookStages
    <3>1. CASE End(s) /\ UNCHANGED saves
      <4>1. /\ op' = [op EXCEPT ![s] = Idle] /\ UNCHANGED <<saves, credits>>
            /\ Idle.at \notin {"intent", "finalize", "credit"}
        BY <2>2, <3>1 DEF HookSave, End, Idle
      <4> QED
        BY <4>1, <3>0, <1>c
    <3>2. CASE Goto(s, "intent") /\ Storable(CodeOf(op[s].r))
      <4>1. PICK x : op' = [op EXCEPT ![s] = x] /\ x.at = "intent" /\ x.p = op[s].p
                     /\ x.r = op[s].r
        BY <3>2, <1>a, MovedShare DEF Stages
      <4>2. credits' = credits
        BY <2>2 DEF HookSave
      <4>3. saves' = IF TypeOf(CodeOf(op[s].r)) = "SUCCESS"
                     THEN [saves EXCEPT ![op[s].p] = @ + 1] ELSE saves
        BY <2>2, <3>2 DEF HookSave
      <4>4. ASSUME NEW p \in Payments
            PROVE  credits'[p] + Share(x, p) + saves[p] = saves'[p] + credits[p] + Share(op[s], p)
        <5>1. Share(op[s], p) = 0
          BY <3>0 DEF Share, SettlesFor
        <5>2. saves'[p] = saves[p] + Share(x, p)
          <6>1. CASE TypeOf(CodeOf(op[s].r)) = "SUCCESS" /\ p = op[s].p
            BY <6>1, <4>1, <4>3, <1>b DEF Share, SettlesFor
          <6>2. CASE ~(TypeOf(CodeOf(op[s].r)) = "SUCCESS" /\ p = op[s].p)
            <7>1. Share(x, p) = 0
              BY <6>2, <4>1 DEF Share, SettlesFor
            <7>2. saves'[p] = saves[p]
              BY <6>2, <4>3, <1>b
            <7> QED
              BY <7>1, <7>2, <1>b
          <6> QED
            BY <6>1, <6>2
        <5>3. Share(x, p) \in Nat
          BY DEF Share
        <5> QED
          BY <5>1, <5>2, <5>3, <4>2, <1>b
      <4>5. ASSUME NEW p \in Payments
            PROVE  credits'[p] + Share(x, p) + saves[p] <= saves'[p] + credits[p] + Share(op[s], p)
        <5>1. Share(x, p) \in Nat /\ Share(op[s], p) \in Nat
          BY DEF Share
        <5> QED
          BY <5>1, <4>4, <1>b
      <4> QED
        BY <4>1, <4>4, <4>5, <1>a, <1>b, CountMoved
    <3> QED
      BY <2>2, <3>1, <3>2 DEF HookSave
  <2>3. CASE HookIntent(s) \/ (HookFinalize(s) /\ ~(Faults /\ Goto(s, "own")))
    <3>1. /\ op[s].at \in {"intent", "finalize"} /\ UNCHANGED <<saves, credits>>
          /\ CodeOf(op[s].r) \in KnownCodes
      BY <2>3, <2>a DEF HookIntent, HookFinalize, HookStages, LoadedStages
    <3>2. \E at \in {"finalize", "credit", "notify", "own"} :
            /\ Goto(s, at)
            /\ TypeOf(CodeOf(op[s].r)) = "SUCCESS" => at \in {"finalize", "credit"}
      <4>1. CASE HookIntent(s)
        BY <4>1, <3>1, SuccessMoves DEF HookIntent
      <4>2. CASE ~HookIntent(s)
        <5>1. \/ Goto(s, "own") /\ IntentStatusFor(CodeOf(op[s].r)) = "unchanged"
              \/ Goto(s, "credit")
              \/ Goto(s, "notify") /\ Settlement(CodeOf(op[s].r)) # "credit"
          BY <2>3, <4>2 DEF HookFinalize
        <5> QED
          BY <5>1, <3>1, SuccessMoves
      <4> QED
        BY <4>1, <4>2
    <3>3. PICK x : /\ op' = [op EXCEPT ![s] = x] /\ x.p = op[s].p /\ x.r = op[s].r
                   /\ x.at \in {"finalize", "credit", "notify", "own"}
                   /\ TypeOf(CodeOf(op[s].r)) = "SUCCESS" => x.at \in {"finalize", "credit"}
      BY <3>2, <1>a, MovedShare DEF Stages
    <3>4. \A p \in Payments : Share(x, p) = Share(op[s], p)
      BY <3>1, <3>3 DEF Share, SettlesFor
    <3> QED
      BY <3>1, <3>3, <3>4, <1>a, CountAside
  <2>4. CASE HookFinalize(s) /\ Faults /\ Goto(s, "own")
    <3>1. UNCHANGED <<saves, credits>>
      BY <2>4 DEF HookFinalize
    <3>2. PICK x : op' = [op EXCEPT ![s] = x] /\ x.at = "own"
      BY <2>4, <1>a, MovedShare DEF Stages
    <3>3. ASSUME NEW p \in Payments
          PROVE  credits'[p] + Share(x, p) + saves[p] <= saves'[p] + credits[p] + Share(op[s], p)
      <4>1. Share(x, p) = 0 /\ Share(op[s], p) \in {0, 1}
        BY <3>2 DEF Share, SettlesFor
      <4>2. /\ credits'[p] = credits[p] /\ saves'[p] = saves[p]
            /\ credits[p] \in Nat /\ saves[p] \in Nat
        BY <3>1, <1>b
      <4> QED
        BY <4>1, <4>2
    <3> QED
      BY <2>4, <3>2, <3>3, <1>a, <1>b, CountMoved
  <2>5. CASE HookCredit(s)
    <3>1. /\ op[s].at = "credit" /\ op[s].p \in Payments /\ saves' = saves
          /\ TypeOf(CodeOf(op[s].r)) = "SUCCESS"
      BY <2>5, <2>a, <1>a DEF HookCredit, HookStages, OpsOK, OpOK
    <3>2. PICK x : op' = [op EXCEPT ![s] = x] /\ x.at \in {"notify", "own"}
      BY <2>5, <1>a, MovedShare DEF HookCredit, Stages
    <3>3. /\ credits' \in {credits, [credits EXCEPT ![op[s].p] = @ + 1]}
          /\ ~Faults => credits' = [credits EXCEPT ![op[s].p] = @ + 1]
      BY <2>5 DEF HookCredit
    <3>4. ASSUME NEW p \in Payments
          PROVE  /\ credits'[p] + Share(x, p) + saves[p] <= saves'[p] + credits[p] + Share(op[s], p)
                 /\ ~Faults => credits'[p] + Share(x, p) + saves[p]
                                 = saves'[p] + credits[p] + Share(op[s], p)
      <4>1. Share(x, p) = 0 /\ Share(op[s], p) = IF p = op[s].p THEN 1 ELSE 0
        BY <3>1, <3>2 DEF Share, SettlesFor
      <4>2. CASE p = op[s].p
        <5>1. /\ credits'[p] \in {credits[p], credits[p] + 1}
              /\ ~Faults => credits'[p] = credits[p] + 1
          BY <4>2, <3>3, <1>b
        <5> QED
          BY <5>1, <4>1, <4>2, <3>1, <1>b
      <4>3. CASE p # op[s].p
        <5>1. credits'[p] = credits[p]
          BY <4>3, <3>3, <1>b
        <5> QED
          BY <5>1, <4>1, <4>3, <3>1, <1>b
      <4> QED
        BY <4>2, <4>3
    <3> QED
      BY <3>2, <3>4, <1>a, <1>b, CountMoved
  <2> QED
    BY <1>6, <2>1, <2>2, <2>3, <2>4, <2>5 DEF HookStep
<1>7. ASSUME NEW i \in Intents, CreateIntent(i) \/ Expire(i)
      PROVE  CountOK'
  BY <1>7, <1>1 DEF CreateIntent, Expire
<1>8. ASSUME NEW p \in Payments,
             Pay(p) \/ Return(p) \/ \E r \in Reports : HookIgnored(p, r)
      PROVE  CountOK'
  BY <1>8, <1>1 DEF Pay, Return, HookIgnored
<1>9. CASE UNCHANGED vars
  BY <1>9, <1>1 DEF vars
<1> QED
  BY <1>2, <1>3, <1>4, <1>5, <1>6, <1>7, <1>8, <1>9 DEF Next, Advance

LEMMA InitIInv == Init => IInv
<1> SUFFICES ASSUME Init PROVE IInv
  OBVIOUS
<1>1. TypeOK
  BY DEF Init, TypeOK, Idle, Operations
<1>2. OpsOK
  BY DEF Init, OpsOK, OpOK, Idle, HookStages, LoadedStages, SavedStages
<1>3. LinkOK /\ IntentOK /\ LedgerOK
  BY DEF Init, LinkOK, IntentOK, LedgerOK
<1>4. CountOK
  <2>1. \A p \in Payments : Settling(p) = {}
    BY DEF Init, Settling, SettlesFor, Idle
  <2>2. \A p \in Payments : Cardinality(Settling(p)) = 0
    BY <2>1, FS_EmptySet
  <2> QED
    BY <2>2 DEF Init, CountOK
<1> QED
  BY <1>1, <1>2, <1>3, <1>4 DEF IInv

LEMMA InductiveStep == IInv /\ [Next]_vars => IInv'
  BY TypeStep, OpsStep, LinkStep, IntentStep, LedgerStep, CountStep DEF IInv

\* The invariant every theorem below is read off from.
THEOREM Inductive == Spec => []IInv
  BY InductiveStep, InitIInv, PTL DEF Spec

----------------------------------------------------------------------------
(* The theorems. *)

\* Type correctness: no sequence of requests, webhooks and failures writes a status the
\* columns of payment_intents and payment_transactions do not know.
THEOREM TypeCorrect == Spec => []TypeOK
<1>1. IInv => TypeOK
  BY DEF IInv
<1> QED
  BY <1>1, Inductive, PTL

\* creditMerchantWallet is only ever reached for a payment whose money the provider has
\* received, with any number of handlers, late reports and crashes.
THEOREM CreditsAreForReceivedMoney == Spec => []CreditNeedsPayment
<1>1. IInv => CreditNeedsPayment
  BY DEF IInv, LedgerOK, CreditNeedsPayment
<1> QED
  BY <1>1, Inductive, PTL

\* An intent is shown as succeeded only if one of its payments was paid, whichever of the
\* three writers of the status wrote last.
THEOREM SucceededIsPaid == Spec => []SucceededNeedsPayment
<1>1. IInv => SucceededNeedsPayment
  BY DEF IInv, IntentOK, Paid, SucceededNeedsPayment
<1> QED
  BY <1>1, Inductive, PTL

\* An intent locked in "processing" has a payment at a provider.
THEOREM ProcessingIsOpened == Spec => []ProcessingHasPayment
<1>1. IInv => ProcessingHasPayment
  BY DEF IInv, IntentOK, Opened, ProcessingHasPayment
<1> QED
  BY <1>1, Inductive, PTL

\* payment.success reaches the merchant only of a payment whose row was saved as a success.
THEOREM SuccessNoticesAreBacked == Spec => []SuccessNoticeBacked
<1>1. IInv => SuccessNoticeBacked
  BY DEF IInv, LedgerOK, SuccessNoticeBacked
<1> QED
  BY <1>1, Inductive, PTL

\* The wallet is never asked for more credits than the row was saved as a success,
\* whatever is repeated, retried by a provider, lost or cut short.
THEOREM CreditsAreBacked == Spec => []CreditBacked
<1>1. IInv => CreditBacked
  <2> SUFFICES ASSUME IInv, NEW p \in Payments PROVE credits[p] <= saves[p]
    BY DEF CreditBacked
  <2>1. /\ credits[p] + Cardinality(Settling(p)) <= saves[p]
        /\ credits[p] \in Nat /\ saves[p] \in Nat
    BY DEF IInv, CountOK, TypeOK
  <2> QED
    BY <2>1, SettlingFacts
<1> QED
  BY <1>1, Inductive, PTL

\* Without faults no success gets lost between the row and the wallet.
THEOREM SavesAreSettled == Spec => []EverySaveSettles
<1>1. IInv => EverySaveSettles
  <2> SUFFICES ASSUME IInv, ~Faults, NEW p \in Payments
               PROVE  saves[p] = credits[p] + Cardinality(Settling(p))
    BY DEF EverySaveSettles
  <2> QED
    BY DEF IInv, CountOK
<1> QED
  BY <1>1, Inductive, PTL

----------------------------------------------------------------------------
(* One request or webhook at a time, no faults, reports of the provider's present
   state, no provider that charges back: a row saved as a success stays one, so the
   report that would settle it again is found unchanged. *)

Alone         == Faults = FALSE /\ FreshReports = TRUE /\ \A s, t \in Slots : s = t
NoChargebacks == \A p \in Payments : ProviderOf[p] # "payaza"

\* The stages of an operation that may still make the row a success.
EarlyStages == {"processing", "insert", "claim", "load", "save"}

OnceOK ==
  \A p \in Payments :
     /\ saves[p] <= 1
     /\ saves[p] > 0 => txn[p] = "success" /\ tsp[p] \in Received
     /\ \A s \in Slots : op[s].at \in EarlyStages /\ op[s].p = p => saves[p] = 0

OnceInv == Alone /\ NoChargebacks /\ IInv /\ OnceOK

LEMMA BegunOp ==
  ASSUME NEW s \in Slots, NEW at, NEW i, op \in [Slots -> Operations], Begin(s, at, i)
  PROVE  op'[s].at = at /\ op'[s].i = i
<1>1. op'[s] = [Idle EXCEPT !.at = at, !.i = i]
  BY DEF Begin
<1> QED
  BY <1>1 DEF Idle

LEMMA OnceMoved ==
  ASSUME OnceInv, Growing, NEW s \in Slots, UNCHANGED <<txn, saves>>,
         op'[s].at \in EarlyStages => op[s].at \in EarlyStages /\ op'[s].p = op[s].p
  PROVE  OnceOK'
  BY DEF OnceInv, Alone, OnceOK, Growing

\* A report accepted of a payment that was not saved as a success yet.
LEMMA AcceptedUnsaved ==
  ASSUME OnceInv, NEW s \in Slots, NEW p \in Payments, NEW r \in Reports, HookAccepted(s, p, r)
  PROVE  saves[p] = 0
<1>1. /\ r.from = ProviderOf[p] /\ r.from # "payaza" /\ txn[p] # NewStatus(r)
      /\ SaysPaid(r) <=> tsp[p] = "paid"
      /\ SaysReturned(r) <=> tsp[p] = "returned"
  BY DEF HookAccepted, Tellable, Accepts, OnceInv, Alone, NoChargebacks
<1>2. tsp[p] # "returned"
  BY <1>1 DEF SaysReturned
<1>3. r \in KingdomBankReports \cup SulifuReports
  BY <1>1 DEF Reports, PayazaReports, Report
<1>4. SaysPaid(r) => NewStatus(r) = "success"
  BY <1>3 DEF KingdomBankReports, SulifuReports, Report, SaysPaid, NewStatus,
              KingdomBankRow, SulifuRow
<1>5. ~(saves[p] > 0)
  BY <1>1, <1>2, <1>4 DEF OnceInv, OnceOK, Received
<1>6. saves[p] \in Nat
  BY DEF OnceInv, IInv, TypeOK
<1> QED
  BY <1>5, <1>6

LEMMA OnceHook ==
  ASSUME OnceInv, Growing, NEW s \in Slots, HookStep(s)
  PROVE  OnceOK'
<1>a. TypeOK /\ OpsOK /\ OnceOK /\ \A t \in Slots : t = s
  BY DEF OnceInv, IInv, Alone
<1>b. op[s] \in Operations /\ OpOK(op[s])
  BY <1>a DEF TypeOK, OpsOK
<1>1. CASE HookClaim(s) \/ HookLoad(s)
  <2>1. UNCHANGED <<txn, saves>> /\ op[s].at \in EarlyStages
    BY <1>1 DEF HookClaim, HookLoad, rows, world, record, EarlyStages
  <2>2. op'[s].p = op[s].p \/ op'[s] = Idle
    <3>1. CASE HookClaim(s)
      BY <3>1, <1>a, <1>b DEF HookClaim, Goto, TypeOK, Operations
    <3>2. CASE HookLoad(s)
      <4>1. op'[s] \in {Idle, [op[s] EXCEPT !.at = "save", !.ours = op[s].p \notin renamed]}
        BY <3>2, <1>a DEF HookLoad, TypeOK
      <4>2. [op[s] EXCEPT !.at = "save", !.ours = op[s].p \notin renamed].p = op[s].p
        BY <1>b, Zenon DEF Operations
      <4> QED
        BY <4>1, <4>2
    <3> QED
      BY <1>1, <3>1, <3>2
  <2> QED
    BY <2>1, <2>2, OnceMoved DEF Idle, EarlyStages
<1>2. CASE HookSave(s)
  <2> DEFINE p == op[s].p
             code == CodeOf(op[s].r)
  <2>1. p \in Payments /\ op[s].at = "save" /\ op[s].r \in Reports /\ code \in KnownCodes
    BY <1>2, <1>b DEF HookSave, OpOK, HookStages, LoadedStages
  <2>2. saves[p] = 0
    BY <2>1, <1>a DEF OnceOK, EarlyStages
  <2>3. op'[s].at \notin EarlyStages
    <3>1. op'[s].at \in {"intent", "idle"}
      BY <1>2, <1>a, <1>b DEF HookSave, Goto, End, Idle, TypeOK, Operations
    <3> QED
      BY <3>1 DEF EarlyStages
  <2>4. CASE TypeOf(code) = "SUCCESS" /\ Storable(code)
    <3>1. txn'[p] = "success" /\ saves'[p] = 1
      <4>1. /\ txn' = [txn EXCEPT ![p] = RowStatusFor(TypeOf(code))]
            /\ saves' = [saves EXCEPT ![p] = @ + 1]
        BY <2>4, <1>2 DEF HookSave
      <4>2. RowStatusFor("SUCCESS") = "success"
        BY DEF RowStatusFor, RowStatusOfType
      <4> QED
        BY <4>1, <4>2, <2>1, <2>2, <2>4, <1>a DEF TypeOK
    <3>2. tsp[p] \in Received /\ tsp' = tsp
      BY <2>1, <2>4, <1>2, <1>b, SuccessReports DEF HookSave, world, OpOK, HookStages
    <3>3. \A q \in Payments : q # p => txn'[q] = txn[q] /\ saves'[q] = saves[q]
      BY <2>4, <1>2, <1>a DEF HookSave, TypeOK
    <3> QED
      BY <3>1, <3>2, <3>3, <2>3, <1>a DEF OnceOK
  <2>5. CASE ~(TypeOf(code) = "SUCCESS" /\ Storable(code))
    <3>1. saves' = saves /\ tsp' = tsp
      BY <2>5, <1>2 DEF HookSave, world
    <3>2. \A q \in Payments : q # p => txn'[q] = txn[q]
      BY <1>2, <1>a DEF HookSave, TypeOK
    <3> QED
      BY <3>1, <3>2, <2>2, <2>3, <1>a DEF OnceOK
  <2> QED
    BY <2>4, <2>5
<1>3. CASE HookIntent(s) \/ HookFinalize(s) \/ HookCredit(s) \/ HookNotify(s) \/ HookOwn(s)
           \/ HookDeliver(s)
  <2>1. UNCHANGED <<txn, saves>>
    BY <1>3 DEF HookIntent, HookFinalize, HookCredit, HookNotify, HookOwn, HookDeliver,
                rows, world, record
  <2>2. op'[s].at \in {"finalize", "credit", "notify", "own", "deliver", "idle"}
    <3>1. \/ Goto(s, "finalize") \/ Goto(s, "credit") \/ Goto(s, "notify") \/ Goto(s, "own")
          \/ Goto(s, "deliver") \/ End(s)
      BY <1>3, <1>a DEF HookIntent, HookFinalize, HookCredit, HookNotify, HookOwn, HookDeliver,
                        OnceInv, Alone
    <3> QED
      BY <3>1, <1>a, <1>b DEF Goto, End, Idle, TypeOK, Operations
  <2> QED
    BY <2>1, <2>2, OnceMoved DEF EarlyStages
<1> QED
  BY <1>1, <1>2, <1>3 DEF HookStep

LEMMA OnceStep == OnceInv /\ [Next]_vars => OnceOK'
<1> SUFFICES ASSUME OnceInv, [Next]_vars PROVE OnceOK'
  OBVIOUS
<1> USE DEF rows, world, record
<1>a. TypeOK /\ OpsOK /\ OnceOK /\ Growing /\ ~Faults /\ \A s, t \in Slots : s = t
  BY GrowingStep DEF OnceInv, IInv, Alone
<1>1. ASSUME UNCHANGED <<txn, saves, op>> PROVE OnceOK'
  BY <1>1, <1>a DEF OnceOK, Growing
<1>2. ASSUME NEW s \in Slots, NEW i \in Intents, Request(s, i) PROVE OnceOK'
  <2>1. UNCHANGED <<txn, saves>>
    BY <1>2 DEF Request, ConfirmRead, CancelRead, ViewRead, IntelligenceRead, ProcessRead
  <2>2. op'[s].at \in {"tsp", "cancel", "view", "intelligence", "abandon", "error"}
    <3>1. CASE CancelRead(s, i)
      BY <3>1, <1>a DEF CancelRead, Idle, TypeOK
    <3>2. CASE ~CancelRead(s, i)
      <4>1. \/ Begin(s, "tsp", i) \/ Begin(s, "view", i) \/ Begin(s, "intelligence", i)
            \/ Begin(s, "abandon", i) \/ Begin(s, "error", i)
        BY <3>2, <1>2 DEF Request, ConfirmRead, ViewRead, IntelligenceRead, ProcessRead
      <4> QED
        BY <4>1, <1>a, BegunOp DEF TypeOK
    <3> QED
      BY <3>1, <3>2
  <2> QED
    BY <2>1, <2>2, <1>a, OnceMoved DEF EarlyStages
<1>3. ASSUME NEW s \in Slots, NEW p \in Payments, ConfirmOpen(s, p) PROVE OnceOK'
  <2>1. /\ UNCHANGED <<txn, saves>> /\ tsp[p] = "none"
        /\ op' = [op EXCEPT ![s] = [@ EXCEPT !.at = "processing", !.p = p]]
    BY <1>3 DEF ConfirmOpen
  <2>2. saves[p] = 0
    BY <2>1, <1>a DEF OnceOK, Received, TypeOK
  <2>3. op'[s].p = p
    BY <2>1, <1>a DEF TypeOK, Operations
  <2> QED
    BY <2>1, <2>2, <2>3, <1>a DEF OnceOK, Growing
<1>4. ASSUME NEW s \in Slots, ConfirmProcessing(s) PROVE OnceOK'
  <2>1. UNCHANGED <<txn, saves>> /\ op[s].at \in EarlyStages /\ op'[s].p = op[s].p
    BY <1>4, <1>a DEF ConfirmProcessing, Goto, EarlyStages, TypeOK, Operations
  <2> QED
    BY <2>1, <1>a, OnceMoved
<1>5. ASSUME NEW s \in Slots, ConfirmInsert(s) PROVE OnceOK'
  <2>1. /\ op'[s] = Idle /\ UNCHANGED saves /\ op[s].at = "insert"
        /\ txn' = [txn EXCEPT ![op[s].p] = "initiated"]
    BY <1>5, <1>a DEF ConfirmInsert, End, TypeOK
  <2>2. op[s].p \in Payments => saves[op[s].p] = 0
    BY <2>1, <1>a DEF OnceOK, EarlyStages
  <2> QED
    BY <2>1, <2>2, <1>a DEF OnceOK, Growing, TypeOK, Idle, EarlyStages
<1>6. ASSUME NEW s \in Slots, ConfirmDeclined(s) \/ OtherStep(s) \/ Abort(s) PROVE OnceOK'
  <2>1. UNCHANGED <<txn, saves>> /\ op'[s] = Idle
    BY <1>6, <1>a DEF ConfirmDeclined, OtherStep, CancelSave, ViewSave, IntelligenceSave,
                      ProcessAbandon, ProcessError, Abort, End, TypeOK
  <2> QED
    BY <2>1, <1>a, OnceMoved DEF Idle, EarlyStages
<1>7. ASSUME NEW s \in Slots, NEW p \in Payments, NEW r \in Reports, HookAccepted(s, p, r)
      PROVE  OnceOK'
  <2>1. saves[p] = 0
    BY <1>7, AcceptedUnsaved
  <2>2. UNCHANGED <<txn, saves>> /\ op'[s].p = p
    BY <1>7, <1>a DEF HookAccepted, TypeOK, Idle
  <2> QED
    BY <2>1, <2>2, <1>a DEF OnceOK, Growing
<1>8. ASSUME NEW s \in Slots, HookStep(s) PROVE OnceOK'
  BY <1>8, <1>a, OnceHook
<1>9. ASSUME NEW p \in Payments, Pay(p) \/ Return(p) \/ \E r \in Reports : HookIgnored(p, r)
      PROVE  OnceOK'
  BY <1>9, <1>1 DEF Pay, Return, HookIgnored
<1>10. ASSUME NEW i \in Intents, CreateIntent(i) \/ Expire(i)
       PROVE  OnceOK'
  BY <1>10, <1>1 DEF CreateIntent, Expire
<1>11. CASE UNCHANGED vars
  BY <1>11, <1>1 DEF vars
<1> QED
  BY <1>2, <1>3, <1>4, <1>5, <1>6, <1>7, <1>8, <1>9, <1>10, <1>11 DEF Next, Advance, ConfirmStep

LEMMA OnceInductive == Alone /\ NoChargebacks /\ Spec => []OnceInv
<1>1. Alone /\ NoChargebacks /\ Init => OnceInv
  <2>1. Init => OnceOK
    BY DEF Init, OnceOK, Idle, EarlyStages
  <2> QED
    BY <2>1, InitIInv DEF OnceInv
<1>2. OnceInv /\ [Next]_vars => OnceInv'
  <2> SUFFICES ASSUME OnceInv, [Next]_vars PROVE OnceInv'
    OBVIOUS
  <2>1. IInv'
    BY InductiveStep DEF OnceInv
  <2>2. OnceOK'
    BY OnceStep
  <2> QED
    BY <2>1, <2>2 DEF OnceInv, Alone, NoChargebacks
<1> QED
  BY <1>1, <1>2, PTL DEF Spec

\* A payment is credited to the merchant once, however often its provider repeats the
\* report: the second one finds the row as the first one left it.
THEOREM CreditedOnce == Alone /\ NoChargebacks /\ Spec => []CreditedAtMostOnce
<1>1. OnceInv => CreditedAtMostOnce
  <2> SUFFICES ASSUME OnceInv, NEW p \in Payments PROVE credits[p] <= 1
    BY DEF CreditedAtMostOnce
  <2>1. /\ credits[p] + Cardinality(Settling(p)) <= saves[p] /\ saves[p] <= 1
        /\ credits[p] \in Nat /\ saves[p] \in Nat
    BY DEF OnceInv, OnceOK, IInv, CountOK, TypeOK
  <2> QED
    BY <2>1, SettlingFacts
<1> QED
  BY <1>1, OnceInductive, PTL

----------------------------------------------------------------------------
(* With Sulifu Pay alone an intent has one payment, unless processPayment resets it; the
   row, the intent and the merchant's notice follow each other through the one handler in
   progress, and only requests of their own take the intent away again. *)

Serial ==
  /\ Alone
  /\ \A p \in Payments : ProviderOf[p] = "sulifu_pay"

\* The operation in flight is about p, at one of the stages.
Handling(stages, p) == \E s \in Slots : op[s].at \in stages /\ op[s].p = p

\* What the operation relies on since it read its rows.
PlanOK(o) ==
  /\ o.at # "idle" => intent[o.i] # "none"
  /\ o.at \in {"view", "abandon"} => o.i \in expired
  /\ o.at \in {"tsp", "intelligence", "error"} => ~Opened(o.i) \/ o.i \in reprocessed
  /\ o.at = "cancel" => \/ \A p \in Payments : txn[p] = "success" => intentOf[p] # o.i
                        \/ o.i \in reprocessed
  /\ o.at \in HookStages => o.r \in SulifuReports
  /\ o.at \in SavedStages => (SaysPaid(o.r) <=> txn[o.p] = "success")
  /\ o.at \in SavedStages \ {"intent"} /\ SaysPaid(o.r) => intent[o.i] = "succeeded"

PlansOK == \A s \in Slots : PlanOK(op[s])

\* The intent of a settled payment succeeded, or was taken away from it since.
Agrees(i) ==
  \/ intent[i] = "succeeded"
  \/ i \in expired /\ intent[i] = "canceled"
  \/ i \in reprocessed

\* A row saved as a success takes the intent and the notice with it.
SettledOK ==
  \A p \in Payments : txn[p] = "success" =>
     /\ saves[p] > 0
     /\ Agrees(intentOf[p]) \/ Handling({"intent"}, p)
     /\ "payment.success" \in notices[p] \/ Handling(SavedStages, p)

OnePaymentOK ==
  \A p, q \in Payments :
     tsp[p] # "none" /\ tsp[q] # "none" /\ intentOf[p] = intentOf[q] =>
       p = q \/ intentOf[p] \in reprocessed

\* The operation has yet to write the intent of the payment it opened or saw fail.
WillMark(o) ==
  \/ o.at = "processing"
  \/ o.at \in {"finalize", "notify", "own"} /\ o.r.status = "FAILED_CREATE"

\* Confirmation and customer data are open to an intent without a payment only.
UntriedOK ==
  \A i \in Intents :
     /\ intent[i] = "none" => ~Opened(i) /\ i \notin expired
     /\ intent[i] = "requires_payment_method" /\ Opened(i) =>
          i \in reprocessed \/ \E s \in Slots : op[s].i = i /\ WillMark(op[s])

SParts == PlansOK /\ SettledOK /\ OnePaymentOK /\ UntriedOK
SInv   == Serial /\ IInv /\ OnceOK /\ SParts

LEMMA OneHandler ==
  ASSUME Serial, NEW s \in Slots
  PROVE  /\ \A stages, p : /\ Handling(stages, p) <=> op[s].at \in stages /\ op[s].p = p
                           /\ Handling(stages, p)' <=> op'[s].at \in stages /\ op'[s].p = p
         /\ \A i : (\E t \in Slots : op[t].i = i /\ WillMark(op[t]))
                      <=> op[s].i = i /\ WillMark(op[s])
  BY DEF Handling, Serial, Alone

\* What the four words of Sulifu Pay write on the row and on the intent.
LEMMA SulifuFacts ==
  ASSUME NEW r \in SulifuReports
  PROVE  /\ r \in Reports /\ Storable(CodeOf(r)) /\ CodeOf(r) \in KnownCodes
         /\ SaysPaid(r) =>
              /\ IntentStatusFor(CodeOf(r)) = "succeeded" /\ OwnIntentWrite(r) = "succeeded"
              /\ RowStatusFor(TypeOf(CodeOf(r))) = "success"
              /\ MerchantEvent(r) = "payment.success"
         /\ ~SaysPaid(r) =>
              /\ IntentStatusFor(CodeOf(r)) \in {"processing", "requires_payment_method", "canceled"}
              /\ OwnIntentWrite(r) \in {"canceled", "unchanged"}
              /\ RowStatusFor(TypeOf(CodeOf(r))) # "success"
         /\ r.status = "FAILED_CREATE" => OwnIntentWrite(r) = "canceled"
         /\ IntentStatusFor(CodeOf(r)) = "requires_payment_method" => r.status = "FAILED_CREATE"
<1>1. TypeOf("1009") = "FAILED"
  BY TypesOfCodes DEF CodesOfType,
      SuccessCodes, PendingCodes, BankDeclines, SystemErrors, UserActions, FraudCodes,
      RefundCodes, RuleViolations, TimeoutCodes, Compliance
<1>2. {"0", "1088", "1009"} \subseteq KnownCodes
  BY DEF KnownCodes, ResponseTypes, CodesOfType,
      SuccessCodes, PendingCodes, BankDeclines, SystemErrors, UserActions, FraudCodes,
      RefundCodes, RuleViolations, TimeoutCodes, Compliance
<1>3. /\ IntentStatusFor("0") = "succeeded" /\ IntentStatusFor("1088") = "processing"
      /\ IntentStatusFor("1009") \in {"requires_payment_method", "canceled"}
  BY <1>1, <1>2, TypesOfCodes DEF IntentStatusFor, IntentStatusOfType
<1>4. /\ RowStatusFor("SUCCESS") = "success" /\ RowStatusFor("PENDING") # "success"
      /\ RowStatusFor("FAILED") # "success"
  BY DEF RowStatusFor, RowStatusOfType
<1>5. Storable("0") /\ Storable("1088") /\ Storable("1009")
  BY <1>1, <1>2, TypesOfCodes DEF Storable, StorableTypes
<1>6. \/ r.status = "SUCCESS" /\ CodeOf(r) = "0"
      \/ r.status \in {"PROCESSING", "REVIEWING"} /\ CodeOf(r) = "1088"
      \/ r.status = "FAILED_CREATE" /\ CodeOf(r) = "1009"
  BY DEF SulifuReports, Report, CodeOf, SulifuCode
<1> QED
  BY <1>1, <1>2, <1>3, <1>4, <1>5, <1>6, TypesOfCodes
     DEF SaysPaid, OwnIntentWrite, MerchantEvent, Reports

LEMMA GotoFields ==
  ASSUME TypeOK, NEW s \in Slots, NEW at, Goto(s, at)
  PROVE  op'[s].at = at /\ op'[s].p = op[s].p /\ op'[s].i = op[s].i /\ op'[s].r = op[s].r
<1>1. op[s] \in Operations /\ op'[s] = [op[s] EXCEPT !.at = at]
  BY DEF Goto, TypeOK
<1> QED
  BY <1>1, Zenon DEF Operations

\* A step of the surroundings.
LEMMA SerialQuiet ==
  ASSUME SInv, UNCHANGED <<intent, txn, intentOf, op, saves, notices, reprocessed>>,
         expired \subseteq expired', \A i \in expired' \ expired : intent[i] # "none",
         \A p \in Payments : tsp[p] = "none" <=> tsp'[p] = "none"
  PROVE  SParts'
<1>a. PlansOK /\ SettledOK /\ OnePaymentOK /\ UntriedOK
  BY DEF SInv, SParts
<1>b. \A i : Opened(i)' <=> Opened(i)
  BY DEF Opened
<1>1. PlansOK'
  BY <1>a, <1>b DEF PlansOK, PlanOK
<1>2. SettledOK' /\ OnePaymentOK'
  BY <1>a DEF SettledOK, Agrees, OnePaymentOK, Handling
<1>3. UntriedOK'
  BY <1>a, <1>b DEF UntriedOK, WillMark
<1> QED
  BY <1>1, <1>2, <1>3 DEF SParts

LEMMA SerialCreate ==
  ASSUME SInv, NEW i \in Intents, CreateIntent(i)
  PROVE  SParts'
<1>a. /\ PlansOK /\ SettledOK /\ OnePaymentOK /\ UntriedOK
      /\ TypeOK /\ OpsOK /\ OnceOK /\ LinkOK
  BY DEF SInv, SParts, IInv
<1>b. /\ intent[i] = "none" /\ intent' = [intent EXCEPT ![i] = "requires_payment_method"]
      /\ UNCHANGED <<txn, tsp, intentOf, op, saves, notices, expired, reprocessed>>
  BY DEF CreateIntent, world, record
<1>c. \A j : Opened(j)' <=> Opened(j)
  BY <1>b DEF Opened
<1>1. PlansOK'
  <2> SUFFICES ASSUME NEW t \in Slots PROVE PlanOK(op[t])'
    BY DEF PlansOK
  <2>1. PlanOK(op[t]) /\ op'[t] = op[t] /\ OpOK(op[t]) /\ op[t].at \in Stages \cup {"idle"}
    BY <1>a, <1>b DEF PlansOK, OpsOK, TypeOK, Operations
  <2>2. op[t].at # "idle" => op[t].i \in Intents /\ op[t].i # i
    BY <2>1, <1>b DEF OpOK, PlanOK
  <2>3. op[t].at # "idle" => intent'[op[t].i] = intent[op[t].i]
    BY <2>2, <1>b, <1>a DEF TypeOK
  <2>4. op[t].at \in SavedStages => op[t].at # "idle"
    BY DEF SavedStages, LoadedStages, HookStages
  <2> QED
    BY <2>1, <2>3, <2>4, <1>b, <1>c DEF PlanOK
<1>2. SettledOK'
  <2> SUFFICES ASSUME NEW p \in Payments, txn[p] = "success"
               PROVE  /\ saves[p] > 0
                      /\ Agrees(intentOf[p])' \/ Handling({"intent"}, p)'
                      /\ "payment.success" \in notices[p] \/ Handling(SavedStages, p)'
    BY <1>b DEF SettledOK
  <2>1. /\ saves[p] > 0
        /\ Agrees(intentOf[p]) \/ Handling({"intent"}, p)
        /\ "payment.success" \in notices[p] \/ Handling(SavedStages, p)
    BY <1>a DEF SettledOK
  <2>2. Agrees(intentOf[p]) => Agrees(intentOf[p])'
    <3>1. intentOf[p] \in Intents
      BY <2>1, <1>a DEF LinkOK, OnceOK, Received
    <3> QED
      BY <3>1, <1>a, <1>b DEF TypeOK, Agrees
  <2> QED
    BY <2>1, <2>2, <1>b DEF Handling
<1>3. OnePaymentOK'
  BY <1>a, <1>b DEF OnePaymentOK, TypeOK
<1>4. UntriedOK'
  BY <1>a, <1>b, <1>c DEF UntriedOK, WillMark, TypeOK
<1> QED
  BY <1>1, <1>2, <1>3, <1>4 DEF SParts

\* What a step of slot s starts from.
LEMMA SerialStart ==
  ASSUME SInv, NEW s \in Slots
  PROVE  /\ PlansOK /\ SettledOK /\ OnePaymentOK /\ UntriedOK
         /\ TypeOK /\ OpsOK /\ OnceOK /\ LinkOK /\ Serial
         /\ PlanOK(op[s]) /\ OpOK(op[s]) /\ \A t \in Slots : t = s
  BY DEF SInv, SParts, IInv, PlansOK, OpsOK, Serial, Alone

\* An operation that begins or ends between the hooks, its writes aside.
LEMMA SerialAside ==
  ASSUME SInv, NEW s \in Slots, UNCHANGED <<intent, txn, tsp, intentOf, saves, notices, expired>>,
         reprocessed \subseteq reprocessed', op[s].at \notin {"intent", "processing"} \cup SavedStages,
         op'[s].at \notin SavedStages, PlanOK(op[s])'
  PROVE  SParts'
<1>a. /\ SettledOK /\ OnePaymentOK /\ UntriedOK /\ Serial
      /\ \A t \in Slots : t = s
  BY SerialStart
<1>b. \A i : Opened(i)' <=> Opened(i)
  BY DEF Opened
<1>c. \A i : ~\E t \in Slots : op[t].i = i /\ WillMark(op[t])
  BY <1>a DEF WillMark, SavedStages, LoadedStages, HookStages
<1>1. PlansOK'
  BY <1>a DEF PlansOK
<1>2. SettledOK'
  BY <1>a, OneHandler DEF SettledOK, Agrees, SavedStages, LoadedStages, HookStages
<1>3. OnePaymentOK' /\ UntriedOK'
  BY <1>a, <1>b, <1>c DEF OnePaymentOK, UntriedOK
<1> QED
  BY <1>1, <1>2, <1>3 DEF SParts

LEMMA SerialRequest ==
  ASSUME SInv, NEW s \in Slots, NEW i \in Intents, Request(s, i)
  PROVE  SParts'
<1> USE DEF rows, world, record
<1>a. /\ SettledOK /\ OnePaymentOK /\ UntriedOK /\ TypeOK /\ Serial
      /\ PlanOK(op[s]) /\ \A t \in Slots : t = s
  BY SerialStart
<1>b. /\ UNCHANGED <<intent, txn, tsp, intentOf, saves, notices, expired>> /\ op[s] = Idle
      /\ reprocessed \subseteq reprocessed'
  BY DEF Request, ConfirmRead, CancelRead, ViewRead, IntelligenceRead, ProcessRead
<1>c. op[s].at = "idle"
  BY <1>b DEF Idle
<1>d. \A j : Opened(j)' <=> Opened(j)
  BY <1>b DEF Opened
<1>e. ~\E t \in Slots : op[t].i = i /\ WillMark(op[t])
  BY <1>a, <1>c DEF WillMark
<1>1. CASE ConfirmRead(s, i) \/ IntelligenceRead(s, i)
  <2>1. intent[i] = "requires_payment_method" /\ (Begin(s, "tsp", i) \/ Begin(s, "intelligence", i))
    BY <1>1 DEF ConfirmRead, IntelligenceRead
  <2>2. op'[s].at \in {"tsp", "intelligence"} /\ op'[s].i = i
    BY <2>1, <1>a, BegunOp DEF TypeOK
  <2>3. ~Opened(i)' \/ i \in reprocessed'
    BY <2>1, <1>a, <1>b, <1>d, <1>e DEF UntriedOK
  <2>4. PlanOK(op[s])'
    BY <2>1, <2>2, <2>3, <1>b DEF PlanOK, SavedStages, LoadedStages, HookStages
  <2> QED
    BY <2>2, <2>4, <1>b, <1>c, SerialAside DEF SavedStages, LoadedStages, HookStages
<1>2. CASE CancelRead(s, i)
  <2>1. op'[s].at = "cancel" /\ op'[s].i = i
    BY <1>2, <1>a DEF CancelRead, Idle, TypeOK
  <2>2. \/ \A p \in Payments : txn[p] = "success" => intentOf[p] # i
        \/ i \in reprocessed
    BY <1>2, <1>a, <1>c, OneHandler DEF CancelRead, SettledOK, Agrees
  <2>3. PlanOK(op[s])'
    BY <2>1, <2>2, <1>2, <1>b DEF CancelRead, PlanOK, SavedStages, LoadedStages, HookStages
  <2> QED
    BY <2>1, <2>3, <1>b, <1>c, SerialAside DEF SavedStages, LoadedStages, HookStages
<1>3. CASE ViewRead(s, i) \/ (ProcessRead(s, i) /\ i \in expired)
  <2>1. i \in expired /\ intent[i] # "none" /\ (Begin(s, "view", i) \/ Begin(s, "abandon", i))
    BY <1>3, <1>a DEF ViewRead, ProcessRead, UntriedOK
  <2>2. op'[s].at \in {"view", "abandon"} /\ op'[s].i = i
    BY <2>1, <1>a, BegunOp DEF TypeOK
  <2>3. PlanOK(op[s])'
    BY <2>1, <2>2, <1>b DEF PlanOK, SavedStages, LoadedStages, HookStages
  <2> QED
    BY <2>2, <2>3, <1>b, <1>c, SerialAside DEF SavedStages, LoadedStages, HookStages
<1>4. CASE ProcessRead(s, i) /\ i \notin expired
  <2>1. intent[i] # "none" /\ Begin(s, "error", i)
    BY <1>4 DEF ProcessRead
  <2>2. op'[s].at = "error" /\ op'[s].i = i
    BY <2>1, <1>a, BegunOp DEF TypeOK
  <2>3. ~Opened(i)' \/ i \in reprocessed'
    BY <1>4, <1>d DEF ProcessRead, Opened, SInv, Serial, Alone
  <2>4. PlanOK(op[s])'
    BY <2>1, <2>2, <2>3, <1>b DEF PlanOK, SavedStages, LoadedStages, HookStages
  <2> QED
    BY <2>2, <2>4, <1>b, <1>c, SerialAside DEF SavedStages, LoadedStages, HookStages
<1> QED
  BY <1>1, <1>2, <1>3, <1>4 DEF Request

LEMMA SerialOpen ==
  ASSUME SInv, NEW s \in Slots, NEW p \in Payments, ConfirmOpen(s, p)
  PROVE  SParts'
<1>a. /\ SettledOK /\ OnePaymentOK /\ UntriedOK /\ TypeOK /\ Serial
      /\ OnceOK /\ PlanOK(op[s]) /\ OpOK(op[s]) /\ \A t \in Slots : t = s
  BY SerialStart
<1> DEFINE i == op[s].i
<1>b. /\ UNCHANGED <<intent, txn, saves, notices, expired, reprocessed>> /\ tsp[p] = "none"
      /\ op[s].at = "tsp"
      /\ tsp' = [tsp EXCEPT ![p] = "open"] /\ intentOf' = [intentOf EXCEPT ![p] = i]
      /\ op' = [op EXCEPT ![s] = [@ EXCEPT !.at = "processing", !.p = p]]
  BY DEF ConfirmOpen, rows, record
<1>c. i \in Intents /\ (~Opened(i) \/ i \in reprocessed) /\ intent[i] # "none"
  BY <1>a, <1>b DEF OpOK, PlanOK
<1>d. op'[s].at = "processing" /\ op'[s].p = p /\ op'[s].i = i
  <2>1. op[s] \in Operations
    BY <1>a DEF TypeOK
  <2>2. op'[s] = [op[s] EXCEPT !.at = "processing", !.p = p]
    BY <1>a, <1>b DEF TypeOK
  <2> QED
    BY <2>1, <2>2, Zenon DEF Operations
<1>e. \A q \in Payments : q # p => tsp'[q] = tsp[q] /\ intentOf'[q] = intentOf[q]
  BY <1>a, <1>b DEF TypeOK
<1>f. tsp'[p] = "open" /\ intentOf'[p] = i
  BY <1>a, <1>b DEF TypeOK
<1>g. txn[p] # "success"
  BY <1>a, <1>b DEF SettledOK, OnceOK, Received
<1>1. PlansOK'
  <2>1. PlanOK(op[s])'
    BY <1>b, <1>c, <1>d DEF PlanOK, SavedStages, LoadedStages, HookStages
  <2> QED
    BY <2>1, <1>a DEF PlansOK
<1>2. SettledOK'
  BY <1>a, <1>b, <1>e, <1>g, OneHandler
     DEF SettledOK, Agrees, SavedStages, LoadedStages, HookStages
<1>4. OnePaymentOK'
  BY <1>a, <1>b, <1>c, <1>e, <1>f DEF OnePaymentOK, Opened
<1>5. UntriedOK'
  <2>1. \A j : Opened(j)' => Opened(j) \/ j = i
    BY <1>e, <1>f DEF Opened
  <2>2. \E t \in Slots : op'[t].i = i /\ WillMark(op'[t])
    BY <1>d DEF WillMark
  <2>3. \A j : ~\E t \in Slots : op[t].i = j /\ WillMark(op[t])
    BY <1>a, <1>b DEF WillMark
  <2> QED
    BY <2>1, <2>2, <2>3, <1>a, <1>b, <1>c DEF UntriedOK, WillMark
<1> QED
  BY <1>1, <1>2, <1>4, <1>5 DEF SParts

LEMMA SerialConfirm ==
  ASSUME SInv, NEW s \in Slots, ConfirmProcessing(s) \/ ConfirmInsert(s) \/ ConfirmDeclined(s)
  PROVE  SParts'
<1> USE DEF rows, world, record
<1>a. /\ SettledOK /\ OnePaymentOK /\ UntriedOK /\ TypeOK /\ Serial /\ LinkOK
      /\ OnceOK /\ PlanOK(op[s]) /\ OpOK(op[s]) /\ \A t \in Slots : t = s
  BY SerialStart
<1>b. \A i : Opened(i)' <=> Opened(i)
  BY DEF Opened, ConfirmProcessing, ConfirmInsert, ConfirmDeclined
<1>d. UNCHANGED <<expired, reprocessed>>
  BY DEF ConfirmProcessing, ConfirmInsert, ConfirmDeclined
<1>c. ASSUME op'[s] = Idle PROVE PlanOK(op[s])'
  BY <1>c DEF PlanOK, Idle, SavedStages, LoadedStages, HookStages
<1>1. CASE ConfirmDeclined(s)
  <2>1. op'[s] = Idle /\ op[s].at = "tsp" /\ UNCHANGED <<intent, txn, tsp, intentOf, saves, notices>>
    BY <1>1, <1>a DEF ConfirmDeclined, End, TypeOK
  <2> QED
    BY <2>1, <1>c, <1>d, SerialAside DEF Idle, SavedStages, LoadedStages, HookStages
<1>2. CASE ConfirmProcessing(s)
  <2> DEFINE i == op[s].i
  <2>1. /\ intent' = [intent EXCEPT ![i] = "processing"] /\ op[s].at = "processing"
        /\ UNCHANGED <<txn, tsp, intentOf, saves, notices>>
    BY <1>2 DEF ConfirmProcessing
  <2>2. op'[s].at = "insert" /\ op'[s].p = op[s].p /\ op'[s].i = i
    BY <1>2, <1>a, GotoFields DEF ConfirmProcessing
  <2>3. /\ i \in Intents /\ op[s].p \in Payments /\ intentOf[op[s].p] = i /\ tsp[op[s].p] # "none"
        /\ saves[op[s].p] = 0
    BY <2>1, <1>a DEF OpOK, OnceOK, EarlyStages
  <2>4. \A q \in Payments : txn[q] = "success" =>
           (intentOf[q] # i \/ i \in reprocessed) /\ intentOf[q] \in Intents
    BY <2>3, <1>a DEF SettledOK, OnceOK, Received, OnePaymentOK, LinkOK
  <2>5. intent'[i] = "processing" /\ \A j \in Intents : j # i => intent'[j] = intent[j]
    BY <2>1, <2>3, <1>a DEF TypeOK
  <2>6. PlansOK'
    BY <2>1, <2>2, <2>5, <1>a DEF PlansOK, PlanOK, SavedStages, LoadedStages, HookStages
  <2>7. SettledOK'
    BY <2>1, <2>2, <2>4, <2>5, <1>a, <1>d, OneHandler
       DEF SettledOK, Agrees, SavedStages, LoadedStages, HookStages
  <2>8. OnePaymentOK'
    BY <2>1, <2>5, <1>a, <1>d DEF OnePaymentOK
  <2>9. UntriedOK'
    BY <2>5, <1>a, <1>b, <1>d DEF UntriedOK
  <2> QED
    BY <2>6, <2>7, <2>8, <2>9 DEF SParts
<1>3. CASE ConfirmInsert(s)
  <2> DEFINE p == op[s].p
  <2>1. /\ txn' = [txn EXCEPT ![p] = "initiated"] /\ op[s].at = "insert" /\ op'[s] = Idle
        /\ UNCHANGED <<intent, tsp, intentOf, saves, notices>>
    BY <1>3, <1>a DEF ConfirmInsert, End, TypeOK
  <2>2. p \in Payments /\ saves[p] = 0
    BY <2>1, <1>a DEF OpOK, OnceOK, EarlyStages
  <2>3. txn[p] # "success"
    BY <2>2, <1>a DEF SettledOK
  <2>4. \A q \in Payments : txn'[q] = "success" <=> txn[q] = "success"
    BY <2>1, <2>2, <2>3, <1>a DEF TypeOK
  <2>5. op'[s].at = "idle"
    BY <2>1 DEF Idle
  <2>6. PlansOK'
    BY <2>1, <1>a, <1>c DEF PlansOK
  <2>7. SettledOK'
    BY <2>1, <2>4, <1>a, <1>d, OneHandler DEF SettledOK, Agrees, SavedStages, LoadedStages, HookStages
  <2>8. OnePaymentOK'
    BY <2>1, <2>4, <1>a, <1>d DEF OnePaymentOK
  <2>9. UntriedOK'
    BY <2>1, <1>a, <1>b, <1>d DEF UntriedOK, WillMark
  <2> QED
    BY <2>6, <2>7, <2>8, <2>9 DEF SParts
<1> QED
  BY <1>1, <1>2, <1>3

\* The saves of requests: a cancellation and customer data meet no completed payment,
\* a view meets an expired intent, and processPayment is on record.
LEMMA SerialOther ==
  ASSUME SInv, NEW s \in Slots, OtherStep(s)
  PROVE  SParts'
<1> USE DEF rows, world, record
<1>a. /\ SettledOK /\ OnePaymentOK /\ UntriedOK /\ TypeOK /\ Serial /\ LinkOK
      /\ OnceOK /\ PlanOK(op[s]) /\ OpOK(op[s]) /\ \A t \in Slots : t = s
  BY SerialStart
<1> DEFINE i == op[s].i
<1>1. /\ UNCHANGED <<txn, tsp, intentOf, saves, notices, expired, reprocessed>> /\ op'[s] = Idle
      /\ op[s].at \in {"cancel", "intelligence", "view", "abandon", "error"} /\ i \in Intents
  <2>1. op[s].at \in {"cancel", "intelligence", "view", "abandon", "error"}
    BY DEF OtherStep, CancelSave, IntelligenceSave, ViewSave, ProcessAbandon, ProcessError
  <2>2. UNCHANGED <<txn, tsp, intentOf, saves, notices, expired, reprocessed>> /\ op'[s] = Idle
    BY <1>a DEF OtherStep, CancelSave, IntelligenceSave, ViewSave, ProcessAbandon, ProcessError,
                End, TypeOK
  <2> QED
    BY <2>1, <2>2, <1>a DEF OpOK
<1>2. \/ intent' = intent
      \/ op[s].at \in {"cancel", "view", "abandon", "error"} /\ intent' = [intent EXCEPT ![i] = "canceled"]
      \/ /\ op[s].at \in {"intelligence", "error"}
         /\ intent' = [intent EXCEPT ![i] = "requires_payment_method"]
  <2>1. CASE ProcessError(s)
    BY <2>1, ErrorStatus DEF ProcessError
  <2>2. CASE ~ProcessError(s)
    BY <2>2 DEF OtherStep, CancelSave, IntelligenceSave, ViewSave, ProcessAbandon
  <2> QED
    BY <2>1, <2>2
<1>3. /\ \A j \in Intents : j # i => intent'[j] = intent[j]
      /\ intent'[i] \in {intent[i], "canceled", "requires_payment_method"}
      /\ intent'[i] = "requires_payment_method" =>
           intent[i] = "requires_payment_method" \/ ~Opened(i) \/ i \in reprocessed
  BY <1>1, <1>2, <1>a DEF TypeOK, PlanOK
<1>4. ASSUME NEW q \in Payments, txn[q] = "success"
      PROVE  /\ intentOf[q] \in Intents /\ Opened(intentOf[q])
             /\ Agrees(intentOf[q])
  BY <1>1, <1>4, <1>a, OneHandler DEF SettledOK, OnceOK, Received, LinkOK, Opened
<1>5. ASSUME NEW q \in Payments, txn[q] = "success", intentOf[q] = i
      PROVE  Agrees(intentOf[q])'
  <2>1. CASE op[s].at \in {"view", "abandon"}
    BY <2>1, <1>1, <1>2, <1>4, <1>5, <1>a DEF PlanOK, Agrees, TypeOK
  <2>2. CASE op[s].at \in {"cancel", "intelligence", "error"}
    BY <2>2, <1>1, <1>4, <1>5, <1>a DEF PlanOK, Agrees
  <2> QED
    BY <2>1, <2>2, <1>1
<1>6. op'[s].at = "idle"
  BY <1>1 DEF Idle
<1>7. PlansOK'
  BY <1>6, <1>a DEF PlansOK, PlanOK, SavedStages, LoadedStages, HookStages
<1>8. SettledOK'
  <2>1. \A q \in Payments : txn[q] = "success" => Agrees(intentOf[q])'
    BY <1>1, <1>3, <1>4, <1>5 DEF Agrees
  <2> QED
    BY <2>1, <1>1, <1>a, OneHandler DEF SettledOK, SavedStages, LoadedStages, HookStages
<1>9. OnePaymentOK'
  BY <1>1, <1>a DEF OnePaymentOK
<1>10. UntriedOK'
  <2>1. \A j : Opened(j)' <=> Opened(j)
    BY <1>1 DEF Opened
  <2>2. \A j : ~\E t \in Slots : op[t].i = j /\ WillMark(op[t])
    BY <1>1, <1>a DEF WillMark
  <2> QED
    BY <2>1, <2>2, <1>1, <1>3, <1>a DEF UntriedOK
<1> QED
  BY <1>7, <1>8, <1>9, <1>10 DEF SParts

LEMMA SerialAccepted ==
  ASSUME SInv, NEW s \in Slots, NEW p \in Payments, NEW r \in Reports, HookAccepted(s, p, r)
  PROVE  SParts'
<1>a. /\ UntriedOK /\ TypeOK /\ Serial /\ LinkOK
  BY SerialStart
<1>b. /\ UNCHANGED <<intent, txn, tsp, intentOf, saves, notices, expired, reprocessed>>
      /\ op[s] = Idle /\ op'[s].at \in {"claim", "load"} /\ op'[s].i = intentOf[p] /\ op'[s].r = r
      /\ r.from = ProviderOf[p] /\ tsp[p] # "none"
  BY <1>a DEF HookAccepted, Tellable, rows, record, Idle, TypeOK
<1>1. r \in SulifuReports
  BY <1>a, <1>b DEF Serial, Reports, KingdomBankReports, PayazaReports, Report
<1>2. intent[intentOf[p]] # "none"
  BY <1>a, <1>b DEF UntriedOK, Opened, LinkOK
<1>3. PlanOK(op[s])'
  BY <1>b, <1>1, <1>2 DEF PlanOK, SavedStages, LoadedStages, HookStages
<1> QED
  BY <1>b, <1>3, SerialAside DEF Idle, SavedStages, LoadedStages, HookStages

LEMMA SerialLoad ==
  ASSUME SInv, NEW s \in Slots, HookClaim(s) \/ HookLoad(s)
  PROVE  SParts'
<1>a. TypeOK /\ PlanOK(op[s])
  BY SerialStart
<1>b. /\ UNCHANGED <<intent, txn, tsp, intentOf, saves, notices, expired, reprocessed>>
      /\ op[s].at \in {"claim", "load"}
  BY DEF HookClaim, HookLoad, rows, world, record
<1>1. op'[s].at \in {"load", "save"} /\ op'[s].i = op[s].i /\ op'[s].r = op[s].r
  <2>1. CASE HookClaim(s)
    BY <2>1, <1>a, GotoFields DEF HookClaim
  <2>2. CASE HookLoad(s)
    <3>1. op[s].r \in SulifuReports
      BY <1>a, <1>b DEF PlanOK, HookStages
    <3>2. CodeOf(op[s].r) \in KnownCodes
      BY <3>1, SulifuFacts
    <3>3. op'[s] = [op[s] EXCEPT !.at = "save", !.ours = op[s].p \notin renamed]
      BY <2>2, <3>2, <1>a DEF HookLoad, TypeOK
    <3>4. op[s] \in Operations
      BY <1>a DEF TypeOK
    <3> QED
      BY <3>3, <3>4, Zenon DEF Operations
  <2> QED
    BY <2>1, <2>2
<1>2. PlanOK(op[s])'
  BY <1>a, <1>b, <1>1 DEF PlanOK, SavedStages, LoadedStages, HookStages
<1> QED
  BY <1>b, <1>1, <1>2, SerialAside DEF SavedStages, LoadedStages, HookStages

LEMMA SerialSave ==
  ASSUME SInv, NEW s \in Slots, HookSave(s)
  PROVE  SParts'
<1>a. /\ SettledOK /\ OnePaymentOK /\ UntriedOK /\ TypeOK /\ Serial
      /\ OnceOK /\ PlanOK(op[s]) /\ OpOK(op[s]) /\ \A t \in Slots : t = s
  BY SerialStart
<1> DEFINE p == op[s].p
           r == op[s].r
           code == CodeOf(r)
<1>b. /\ op[s].at = "save" /\ UNCHANGED <<intent, tsp, intentOf, notices, expired, reprocessed>>
      /\ p \in Payments /\ r \in SulifuReports /\ saves[p] = 0
  BY <1>a DEF HookSave, world, OpOK, OnceOK, EarlyStages, PlanOK, HookStages
<1>c. Storable(code)
  BY <1>b, SulifuFacts
<1>d. /\ txn' = [txn EXCEPT ![p] = RowStatusFor(TypeOf(code))]
      /\ saves' = IF TypeOf(code) = "SUCCESS" THEN [saves EXCEPT ![p] = @ + 1] ELSE saves
  BY <1>c DEF HookSave
<1>e. op'[s].at = "intent" /\ op'[s].p = p /\ op'[s].i = op[s].i /\ op'[s].r = r
  BY <1>a, <1>c, GotoFields DEF HookSave
<1>f. /\ \A q \in Payments : q # p => txn'[q] = txn[q] /\ saves'[q] = saves[q]
      /\ txn'[p] = RowStatusFor(TypeOf(code))
  BY <1>a, <1>b, <1>d DEF TypeOK
<1>g. txn[p] # "success"
  BY <1>a, <1>b DEF SettledOK
<1>h. SaysPaid(r) <=> txn'[p] = "success"
  BY <1>b, <1>f, SulifuFacts
<1>i. txn'[p] = "success" => saves'[p] > 0
  <2> SUFFICES ASSUME txn'[p] = "success" PROVE saves'[p] > 0
    OBVIOUS
  <2>1. SaysPaid(r) /\ r \in Reports /\ code \in KnownCodes
    BY <1>b, <1>h, SulifuFacts
  <2>2. TypeOf(code) = "SUCCESS"
    BY <2>1, SuccessReports
  <2> QED
    BY <2>2, <1>a, <1>b, <1>d DEF TypeOK
<1>1. PlansOK'
  BY <1>a, <1>b, <1>e, <1>h DEF PlansOK, PlanOK, SavedStages, LoadedStages, HookStages
<1>2. SettledOK'
  BY <1>a, <1>b, <1>e, <1>f, <1>i, OneHandler
     DEF SettledOK, Agrees, SavedStages, LoadedStages, HookStages
<1>3. OnePaymentOK'
  BY <1>a, <1>b, <1>f, <1>g DEF OnePaymentOK
<1>4. UntriedOK'
  <2>1. \A j : Opened(j)' <=> Opened(j)
    BY <1>b DEF Opened
  <2>2. \A j : ~\E t \in Slots : op[t].i = j /\ WillMark(op[t])
    BY <1>a, <1>b DEF WillMark
  <2> QED
    BY <2>1, <2>2, <1>a, <1>b DEF UntriedOK
<1> QED
  BY <1>1, <1>2, <1>3, <1>4 DEF SParts

\* A handler that has saved the row goes on, and writes at most the intent and notices.
LEMMA SerialSaved ==
  ASSUME SInv, NEW s \in Slots, UNCHANGED <<txn, tsp, intentOf, saves, expired, reprocessed>>,
         \A p \in Payments : notices[p] \subseteq notices'[p],
         op[s].at \in SavedStages, op'[s].at \in SavedStages \ {"intent"},
         op'[s].p = op[s].p, op'[s].i = op[s].i, op'[s].r = op[s].r,
         NEW st, intent' = [intent EXCEPT ![op[s].i] = st], st # "none",
         SaysPaid(op[s].r) => st = "succeeded",
         st = "requires_payment_method" => WillMark(op'[s]) \/ op[s].i \in reprocessed
  PROVE  SParts'
<1>a. /\ SettledOK /\ OnePaymentOK /\ UntriedOK /\ TypeOK /\ Serial /\ LinkOK
      /\ OnceOK /\ PlanOK(op[s]) /\ OpOK(op[s]) /\ \A t \in Slots : t = s
  BY SerialStart
<1> DEFINE p == op[s].p
           i == op[s].i
           r == op[s].r
<1>b. /\ p \in Payments /\ i \in Intents /\ intentOf[p] = i /\ tsp[p] # "none"
      /\ r \in SulifuReports /\ (SaysPaid(r) <=> txn[p] = "success")
  BY <1>a DEF OpOK, PlanOK, SavedStages, LoadedStages, HookStages
<1>c. intent'[i] = st /\ \A j \in Intents : j # i => intent'[j] = intent[j]
  BY <1>a, <1>b DEF TypeOK
<1>d. \A q \in Payments : txn[q] = "success" /\ intentOf[q] = i => q = p \/ i \in reprocessed
  BY <1>a, <1>b DEF SettledOK, OnceOK, Received, OnePaymentOK
<1>1. PlansOK'
  BY <1>a, <1>b, <1>c DEF PlansOK, PlanOK, SavedStages, LoadedStages, HookStages
<1>2. SettledOK'
  <2> SUFFICES ASSUME NEW q \in Payments, txn[q] = "success"
               PROVE  /\ saves[q] > 0
                      /\ Agrees(intentOf[q])'
                      /\ "payment.success" \in notices'[q] \/ Handling(SavedStages, q)'
    BY DEF SettledOK
  <2>1. /\ saves[q] > 0 /\ intentOf[q] \in Intents
        /\ Agrees(intentOf[q]) \/ (op[s].at = "intent" /\ p = q)
        /\ "payment.success" \in notices[q] \/ p = q
    BY <1>a, OneHandler DEF SettledOK, OnceOK, Received, LinkOK
  <2>2. Agrees(intentOf[q])'
    <3>1. CASE intentOf[q] = i
      BY <3>1, <1>b, <1>c, <1>d DEF Agrees
    <3>2. CASE intentOf[q] # i
      BY <3>2, <2>1, <1>b, <1>c DEF Agrees
    <3> QED
      BY <3>1, <3>2
  <2>3. p = q => Handling(SavedStages, q)'
    BY <1>a, OneHandler
  <2> QED
    BY <2>1, <2>2, <2>3
<1>4. OnePaymentOK'
  BY <1>a DEF OnePaymentOK
<1>5. UntriedOK'
  <2>1. \A j : Opened(j)' <=> Opened(j)
    BY DEF Opened
  <2>2. \A j : (\E t \in Slots : op[t].i = j /\ WillMark(op[t])) => j = i
    BY <1>a
  <2>3. st = "requires_payment_method" => i \in reprocessed \/ \E t \in Slots : op'[t].i = i /\ WillMark(op'[t])
    OBVIOUS
  <2>4. ASSUME NEW j \in Intents
        PROVE  /\ intent'[j] = "none" => ~Opened(j) /\ j \notin expired
               /\ intent'[j] = "requires_payment_method" /\ Opened(j) =>
                    j \in reprocessed \/ \E t \in Slots : op'[t].i = j /\ WillMark(op'[t])
    BY <2>2, <2>3, <1>a, <1>c DEF UntriedOK
  <2> QED
    BY <2>1, <2>4 DEF UntriedOK, WillMark
<1> QED
  BY <1>1, <1>2, <1>4, <1>5 DEF SParts

\* The same, with the intent as it is.
LEMMA SerialPassed ==
  ASSUME SInv, NEW s \in Slots, UNCHANGED <<intent, txn, tsp, intentOf, saves, expired, reprocessed>>,
         \A p \in Payments : notices[p] \subseteq notices'[p],
         op[s].at \in SavedStages \ {"intent"}, op'[s].at \in SavedStages \ {"intent"},
         op'[s].p = op[s].p, op'[s].i = op[s].i, op'[s].r = op[s].r,
         WillMark(op[s]) => WillMark(op'[s])
  PROVE  SParts'
<1>a. /\ UntriedOK /\ TypeOK /\ PlanOK(op[s]) /\ OpOK(op[s]) /\ \A t \in Slots : t = s
  BY SerialStart
<1>b. /\ op[s].i \in Intents /\ Opened(op[s].i)
      /\ SaysPaid(op[s].r) => intent[op[s].i] = "succeeded"
      /\ intent[op[s].i] # "none"
  BY <1>a DEF OpOK, PlanOK, Opened, SavedStages, LoadedStages, HookStages
<1>1. intent' = [intent EXCEPT ![op[s].i] = intent[op[s].i]]
  BY <1>a DEF TypeOK
<1>2. intent[op[s].i] = "requires_payment_method" => WillMark(op'[s]) \/ op[s].i \in reprocessed
  BY <1>a, <1>b DEF UntriedOK
<1> QED
  BY <1>b, <1>1, <1>2, SerialSaved

LEMMA SerialHook ==
  ASSUME SInv, NEW s \in Slots, HookStep(s), ~HookClaim(s), ~HookLoad(s), ~HookSave(s)
  PROVE  SParts'
<1> USE DEF rows, world, record
<1>a. /\ TypeOK /\ Serial /\ PlanOK(op[s]) /\ OpOK(op[s]) /\ ~Faults
      /\ SettledOK /\ OnePaymentOK /\ UntriedOK /\ OnceOK
      /\ \A t \in Slots : t = s
  BY SerialStart DEF Serial, Alone
<1> DEFINE p == op[s].p
           r == op[s].r
           code == CodeOf(r)
<1>b. op[s].at \in {"intent", "finalize", "credit", "notify", "own", "deliver"}
  BY DEF HookStep, HookIntent, HookFinalize, HookCredit, HookNotify, HookOwn, HookDeliver
<1>c. /\ r \in SulifuReports /\ p \in Payments /\ op[s].i \in Intents /\ Opened(op[s].i)
      /\ op[s].at \in SavedStages
  BY <1>a, <1>b DEF PlanOK, OpOK, Opened, SavedStages, LoadedStages, HookStages
<1>d. UNCHANGED <<expired, reprocessed>>
  BY DEF HookStep, HookIntent, HookFinalize, HookCredit, HookNotify, HookOwn, HookDeliver
<1>1. CASE HookIntent(s) \/ HookFinalize(s)
  <2> DEFINE st == IntentStatusFor(code)
  <2>1. st # "unchanged" /\ st # "none" /\ (SaysPaid(r) <=> st = "succeeded")
    BY <1>c, SulifuFacts
  <2>2. intent' = [intent EXCEPT ![op[s].i] = st]
    BY <2>1, <1>1, <1>a DEF HookIntent, HookFinalize, WriteIntent
  <2>3. UNCHANGED <<txn, tsp, intentOf, saves, notices>>
    BY <1>1 DEF HookIntent, HookFinalize
  <2>4. \E at \in {"finalize", "own", "credit", "notify"} :
           Goto(s, at) /\ (at = "credit" => Settlement(code) = "credit")
    BY <1>1, <2>1, <1>a DEF HookIntent, HookFinalize
  <2>5. /\ op'[s].at \in {"finalize", "own", "credit", "notify"}
        /\ op'[s].at = "credit" => Settlement(code) = "credit"
        /\ op'[s].p = p /\ op'[s].i = op[s].i /\ op'[s].r = r
    BY <2>4, <1>a, GotoFields
  <2>6. st = "requires_payment_method" => WillMark(op'[s])
    <3> SUFFICES ASSUME st = "requires_payment_method" PROVE WillMark(op'[s])
      OBVIOUS
    <3>1. r.status = "FAILED_CREATE" /\ ~SaysPaid(r)
      BY <2>1, <1>c, SulifuFacts
    <3>2. Settlement(code) # "credit"
      BY <3>1, <1>c, SettlementFacts, SuccessReports, SulifuFacts DEF SaysReturned, SulifuReports, Report
    <3> QED
      BY <3>1, <3>2, <2>5 DEF WillMark
  <2>7. op'[s].at \in SavedStages \ {"intent"}
    BY <2>5 DEF SavedStages, LoadedStages, HookStages
  <2> QED
    BY <2>1, <2>2, <2>3, <2>5, <2>6, <2>7, <1>c, <1>d, SerialSaved
<1>2. CASE HookCredit(s) \/ HookNotify(s)
  <2>1. UNCHANGED <<intent, txn, tsp, intentOf, saves>>
    BY <1>2 DEF HookCredit, HookNotify
  <2>2. \A q \in Payments : notices[q] \subseteq notices'[q]
    BY <1>2, <1>a DEF HookCredit, HookNotify, Tell, TypeOK
  <2>3. \/ op[s].at = "credit" /\ Goto(s, "notify")
        \/ op[s].at = "notify" /\ Goto(s, "own")
    BY <1>2, <1>a DEF HookCredit, HookNotify
  <2>4. /\ op'[s].p = p /\ op'[s].i = op[s].i /\ op'[s].r = r
        /\ \/ op[s].at = "credit" /\ op'[s].at = "notify"
           \/ op[s].at = "notify" /\ op'[s].at = "own"
    BY <2>3, <1>a, GotoFields
  <2> QED
    BY <2>1, <2>2, <2>4, <1>d, SerialPassed DEF WillMark, SavedStages, LoadedStages, HookStages
<1>3. CASE HookOwn(s)
  <2> DEFINE st == OwnIntentWrite(r)
  <2>1. /\ op'[s].at = "deliver" /\ op'[s].p = p /\ op'[s].i = op[s].i /\ op'[s].r = r
        /\ op[s].at = "own" /\ UNCHANGED <<txn, tsp, intentOf, saves, notices>>
    BY <1>3, <1>a, GotoFields DEF HookOwn
  <2>2. CASE st = "unchanged"
    <3>1. r.status # "FAILED_CREATE"
      BY <2>2, <1>c, SulifuFacts
    <3>2. ~WillMark(op[s])
      BY <3>1, <2>1 DEF WillMark
    <3>3. intent' = intent
      BY <1>3, <2>2 DEF HookOwn, WriteIntent
    <3> QED
      BY <2>1, <3>2, <3>3, <1>d, SerialPassed DEF SavedStages, LoadedStages, HookStages
  <2>3. CASE st # "unchanged"
    <3>1. intent' = [intent EXCEPT ![op[s].i] = st]
      BY <1>3, <2>3 DEF HookOwn, WriteIntent
    <3>2. st \in {"succeeded", "canceled"} /\ (SaysPaid(r) <=> st = "succeeded")
      BY <2>3, <1>c, SulifuFacts
    <3> QED
      BY <2>1, <3>1, <3>2, <1>c, <1>d, SerialSaved DEF SavedStages, LoadedStages, HookStages
  <2> QED
    BY <2>2, <2>3
<1>4. CASE HookDeliver(s)
  <2>1. /\ op'[s] = Idle /\ op[s].at = "deliver" /\ UNCHANGED <<intent, txn, tsp, intentOf, saves>>
        /\ notices' = [notices EXCEPT ![p] = @ \cup {MerchantEvent(r)}]
    BY <1>4, <1>a DEF HookDeliver, End, Tell, TypeOK
  <2>2. op'[s].at = "idle"
    BY <2>1 DEF Idle
  <2>3. PlansOK'
    BY <2>2, <1>a DEF PlansOK, PlanOK, SavedStages, LoadedStages, HookStages
  <2>4. SettledOK'
    <3> SUFFICES ASSUME NEW q \in Payments, txn[q] = "success"
                 PROVE  /\ saves[q] > 0
                        /\ Agrees(intentOf[q])
                        /\ "payment.success" \in notices'[q]
      BY <2>1, <1>d DEF SettledOK, Agrees
    <3>1. /\ saves[q] > 0 /\ Agrees(intentOf[q])
          /\ "payment.success" \in notices[q] \/ q = p
      BY <2>1, <1>a, OneHandler DEF SettledOK
    <3>2. q = p => SaysPaid(r)
      BY <2>1, <1>a, <1>c DEF PlanOK
    <3>3. SaysPaid(r) => MerchantEvent(r) = "payment.success"
      BY <1>c, SulifuFacts
    <3> QED
      BY <3>1, <3>2, <3>3, <2>1, <1>a, <1>c DEF TypeOK
  <2>5. OnePaymentOK'
    BY <2>1, <1>a, <1>d DEF OnePaymentOK
  <2>6. UntriedOK'
    <3>1. \A j : Opened(j)' <=> Opened(j)
      BY <2>1 DEF Opened
    <3>2. \A j : ~\E t \in Slots : op[t].i = j /\ WillMark(op[t])
      BY <2>1, <1>a DEF WillMark
    <3> QED
      BY <3>1, <3>2, <2>1, <1>a, <1>d DEF UntriedOK
  <2> QED
    BY <2>3, <2>4, <2>5, <2>6 DEF SParts
<1> QED
  BY <1>1, <1>2, <1>3, <1>4 DEF HookStep

LEMMA SerialStep == SInv /\ [Next]_vars => SParts'
<1> SUFFICES ASSUME SInv, [Next]_vars PROVE SParts'
  OBVIOUS
<1> USE DEF rows, world, record
<1>a. ~Faults /\ TypeOK
  BY SerialStart DEF SInv, Serial, Alone, IInv
<1>1. ASSUME NEW i \in Intents, CreateIntent(i) \/ Expire(i) PROVE SParts'
  BY <1>1, SerialCreate, SerialQuiet DEF Expire
<1>2. ASSUME NEW p \in Payments, Pay(p) \/ Return(p) \/ \E r \in Reports : HookIgnored(p, r)
      PROVE  SParts'
  <2>1. UNCHANGED <<intent, txn, intentOf, op, saves, notices, expired, reprocessed>>
    BY <1>2 DEF Pay, Return, HookIgnored
  <2>2. \A q \in Payments : tsp[q] = "none" <=> tsp'[q] = "none"
    BY <1>2, <1>a DEF Pay, Return, HookIgnored, TypeOK
  <2> QED
    BY <2>1, <2>2, SerialQuiet
<1>3. ASSUME NEW s \in Slots, NEW i \in Intents, Request(s, i) PROVE SParts'
  BY <1>3, SerialRequest
<1>4. ASSUME NEW s \in Slots, NEW p \in Payments, NEW r \in Reports, HookAccepted(s, p, r)
      PROVE  SParts'
  BY <1>4, SerialAccepted
<1>5. ASSUME NEW s \in Slots, Advance(s) PROVE SParts'
  BY <1>5, SerialOpen, SerialConfirm, SerialLoad, SerialSave, SerialHook, SerialOther
     DEF Advance, ConfirmStep, HookStep
<1>6. ASSUME NEW s \in Slots, Abort(s) PROVE SParts'
  BY <1>6, <1>a DEF Abort
<1>7. CASE UNCHANGED vars
  BY <1>7, SerialQuiet DEF vars
<1> QED
  BY <1>1, <1>2, <1>3, <1>4, <1>5, <1>6, <1>7 DEF Next

LEMMA SerialInit == Serial /\ Init => SInv
<1> SUFFICES ASSUME Serial, Init PROVE SInv
  OBVIOUS
<1>1. \A s \in Slots : op[s].at = "idle"
  BY DEF Init, Idle
<1>2. OnceOK
  BY <1>1 DEF Init, OnceOK, EarlyStages
<1>3. PlansOK
  BY <1>1 DEF PlansOK, PlanOK, SavedStages, LoadedStages, HookStages
<1>4. SettledOK /\ OnePaymentOK /\ UntriedOK
  BY DEF Init, SettledOK, OnePaymentOK, UntriedOK, Opened
<1> QED
  BY <1>2, <1>3, <1>4, InitIInv DEF SInv, SParts

LEMMA SerialInductiveStep == SInv /\ [Next]_vars => SInv'
<1> SUFFICES ASSUME SInv, [Next]_vars PROVE SInv'
  OBVIOUS
<1>1. IInv'
  BY InductiveStep DEF SInv
<1>2. OnceOK'
  BY OnceStep DEF SInv, OnceInv, Serial, NoChargebacks
<1>3. SParts'
  BY SerialStep
<1> QED
  BY <1>1, <1>2, <1>3 DEF SInv, Serial, Alone

LEMMA SerialInductive == Serial /\ Spec => []SInv
  BY SerialInit, SerialInductiveStep, PTL DEF Spec

\* With one request or webhook at a time and no faults, the row, the wallet and the
\* merchant's notice agree on every completed payment whenever nothing runs, and the intent
\* with them unless it expired and was canceled for it, or was processed again.
THEOREM RecordsAgree == Serial /\ Spec => []QuiescentAgreement
<1>1. SInv => QuiescentAgreement
  <2> SUFFICES ASSUME SInv, \A s \in Slots : op[s] = Idle, NEW p \in Payments, txn[p] = "success"
               PROVE  /\ Agrees(intentOf[p]) /\ credits[p] = 1
                      /\ "payment.success" \in notices[p]
    BY DEF QuiescentAgreement, Agrees
  <2>1. \A s \in Slots : op[s].at = "idle"
    BY DEF Idle
  <2>2. \A stages : ~("idle" \in stages) => ~Handling(stages, p)
    BY <2>1 DEF Handling
  <2>3. /\ Agrees(intentOf[p]) /\ "payment.success" \in notices[p]
        /\ saves[p] > 0
    BY <2>2 DEF SInv, SParts, SettledOK, SavedStages, LoadedStages, HookStages
  <2>4. Settling(p) = {}
    BY <2>1 DEF Settling, SettlesFor
  <2>5. /\ credits[p] + 0 = saves[p] /\ saves[p] <= 1
        /\ credits[p] \in Nat /\ saves[p] \in Nat
    BY <2>4, FS_EmptySet DEF SInv, Serial, Alone, OnceOK, IInv, CountOK, TypeOK
  <2>6. credits[p] = 1
    BY <2>3, <2>5
  <2> QED
    BY <2>3, <2>6
<1> QED
  BY <1>1, SerialInductive, PTL
=============================================================================
