-------------------------- MODULE ParallelTspProofs --------------------------
(***************************************************************************)
(* Payments in the parallel processor, for any number of them, any         *)
(* providers, thresholds and candidates, however calls answer and time     *)
(* out.                                                                    *)
(*                                                                         *)
(* That a breaker counts no call twice is a matter of cardinalities: every *)
(* payment that waits for a provider is a request of its breaker that has  *)
(* not failed yet.  That the fallback opens a payment once rests on what   *)
(* the record of a payment means while nothing timed out: the successful   *)
(* answers are exactly the providers that have opened it, and the fallback *)
(* has at most one provider, waited for or won.                            *)
(***************************************************************************)
EXTENDS ParallelTsp, FiniteSetTheorems, TLAPS

\* The record of a payment, its candidates left aside.
Fields(left) ==
  [at : {"new", "parallel", "fallback", "done"}, sent : SUBSET WithAdapter, waiting : SUBSET WithAdapter,
   won : SUBSET WithAdapter, late : BOOLEAN, left : {left}, result : WithAdapter \cup {"none", "failed"}]

CallsOK ==
  /\ call = [k \in CallSlots |-> call[k]]
  /\ \A k \in CallSlots :
       /\ call[k] \in Fields(call[k].left)
       /\ call[k].at \in {"new", "done"} => call[k].waiting = {}
  /\ opened = [k \in CallSlots |-> opened[k]]

\* A breaker that is not closed has had its cause.
Sound(b) ==
  /\ b \in Breaker
  /\ b.failures <= b.failed
  /\ b.state # "CLOSED" => b.requests >= VolumeThreshold /\ b.failures >= FailureThreshold

BreakersOK == breaker = [p \in Tsps |-> breaker[p]] /\ \A p \in Tsps : Sound(breaker[p])

\* What the record of a payment says of the providers, as long as no call was given up.
OpenedAsTold(k) ==
  ~call[k].late =>
    /\ opened[k] = call[k].won
    /\ call[k].at = "parallel" => call[k].waiting \cup call[k].won \subseteq call[k].sent
    /\ call[k].at = "fallback" => \E p : call[k].waiting \cup call[k].won \subseteq {p}
                                         /\ (call[k].won = {} \/ call[k].waiting = {})
    /\ call[k].at = "done" =>
         /\ call[k].result = "failed" <=> opened[k] = {}
         /\ opened[k] # {} => call[k].result \in opened[k]
         /\ opened[k] \subseteq call[k].sent \/ opened[k] = {call[k].result}

CallsInv ==
  CallsOK /\ BreakersOK /\ FailuresAreRequests /\ \A k \in CallSlots : OpenedAsTold(k)

----------------------------------------------------------------------------
(* What the operations of a breaker do to its counters. *)

LEMMA TryingFacts ==
  ASSUME NEW b, Sound(b)
  PROVE  /\ Sound(Trying(b)) /\ Trying(b).requests = b.requests + 1 /\ Trying(b).failed = b.failed
         /\ Sound(Counted(b)) /\ Counted(b).requests = b.requests + 1 /\ Counted(b).failed = b.failed
<1>1. b \in Breaker /\ b.requests \in Nat /\ b.requests + 1 \in Nat /\ VolumeThreshold \in Nat
  BY ThresholdAssumption, SMT DEF Sound, Breaker
<1> DEFINE c == Counted(b)
<1>2. /\ c \in Breaker /\ c.requests = b.requests + 1 /\ c.failed = b.failed
      /\ c.failures = b.failures /\ c.state = b.state
  BY <1>1, Zenon DEF Counted, Breaker
<1>3. Sound(c)
  BY <1>1, <1>2, SMT DEF Sound
<1> HIDE DEF c
<1>4. /\ Trying(b) \in Breaker /\ Trying(b).requests = c.requests /\ Trying(b).failed = c.failed
      /\ Trying(b).failures = c.failures
      /\ Trying(b).state # "CLOSED" => c.state # "CLOSED"
  <2>1. c.state = "OPEN" => Trying(b) = [c EXCEPT !.state = "HALF_OPEN"]
    BY Zenon DEF Trying, c
  <2>2. c.state # "OPEN" => Trying(b) = [c EXCEPT !.state = c.state]
    BY Zenon DEF Trying, c
  <2> QED
    BY <1>2, <2>1, <2>2, Zenon DEF Breaker
<1>5. Sound(Trying(b))
  BY <1>3, <1>4 DEF Sound
<1> QED
  BY <1>2, <1>3, <1>4, <1>5 DEF c

LEMMA OnSuccessFacts ==
  ASSUME NEW b, Sound(b)
  PROVE  Sound(OnSuccess(b)) /\ OnSuccess(b).requests = b.requests /\ OnSuccess(b).failed = b.failed
<1>1. b \in Breaker /\ b.successes + 1 \in Nat /\ b.failed \in Nat
  BY SMT DEF Sound, Breaker
<1> DEFINE n == [b EXCEPT !.successes = @ + 1]
<1>2. /\ n \in Breaker /\ n.requests = b.requests /\ n.failed = b.failed
      /\ n.failures = b.failures /\ n.state = b.state
  BY <1>1, Zenon DEF Breaker
<1>3. \/ OnSuccess(b) = [n EXCEPT !.state = "CLOSED", !.failures = 0, !.successes = 0, !.cooled = TRUE]
      \/ b.state = "CLOSED" /\ OnSuccess(b) = [n EXCEPT !.failures = 0]
      \/ OnSuccess(b) = n
  BY DEF OnSuccess
<1> HIDE DEF n
<1>4. CASE OnSuccess(b) = [n EXCEPT !.state = "CLOSED", !.failures = 0, !.successes = 0, !.cooled = TRUE]
  <2>1. /\ OnSuccess(b) \in Breaker /\ OnSuccess(b).requests = n.requests /\ OnSuccess(b).failed = n.failed
        /\ OnSuccess(b).failures = 0 /\ OnSuccess(b).state = "CLOSED"
    <3>1. 0 \in Nat
      OBVIOUS
    <3> QED
      BY <1>2, <1>4, <3>1, Zenon DEF Breaker
  <2> QED
    BY <1>1, <1>2, <2>1 DEF Sound
<1>5. CASE b.state = "CLOSED" /\ OnSuccess(b) = [n EXCEPT !.failures = 0]
  <2>1. /\ OnSuccess(b) \in Breaker /\ OnSuccess(b).requests = n.requests /\ OnSuccess(b).failed = n.failed
        /\ OnSuccess(b).failures = 0 /\ OnSuccess(b).state = n.state
    <3>1. 0 \in Nat
      OBVIOUS
    <3> QED
      BY <1>2, <1>5, <3>1, Zenon DEF Breaker
  <2> QED
    BY <1>1, <1>2, <1>5, <2>1 DEF Sound
<1>6. CASE OnSuccess(b) = n
  BY <1>2, <1>6 DEF Sound
<1> QED
  BY <1>3, <1>4, <1>5, <1>6

LEMMA OnFailureFacts ==
  ASSUME NEW b, Sound(b)
  PROVE  Sound(OnFailure(b)) /\ OnFailure(b).requests = b.requests /\ OnFailure(b).failed = b.failed + 1
<1>1. /\ b \in Breaker /\ b.failures \in Nat /\ b.failed \in Nat
      /\ b.failures + 1 \in Nat /\ b.failed + 1 \in Nat
  BY SMT DEF Sound, Breaker
<1>2. FailureThreshold \in Nat /\ VolumeThreshold \in Nat
  BY ThresholdAssumption
<1> DEFINE n == [b EXCEPT !.failures = @ + 1, !.failed = @ + 1, !.cooled = FALSE]
<1>3. /\ n \in Breaker /\ n.failures = b.failures + 1 /\ n.failed = b.failed + 1
      /\ n.requests = b.requests /\ n.state = b.state
  BY <1>1, Zenon DEF Breaker
<1>4. \/ /\ b.state = "HALF_OPEN" \/ (n.requests >= VolumeThreshold /\ n.failures >= FailureThreshold)
         /\ OnFailure(b) = [n EXCEPT !.state = "OPEN"]
      \/ OnFailure(b) = [n EXCEPT !.state = n.state]
  BY Zenon DEF OnFailure, ShouldOpen
<1> HIDE DEF n
<1>5. CASE /\ b.state = "HALF_OPEN" \/ (n.requests >= VolumeThreshold /\ n.failures >= FailureThreshold)
           /\ OnFailure(b) = [n EXCEPT !.state = "OPEN"]
  <2>1. /\ OnFailure(b) \in Breaker /\ OnFailure(b).requests = n.requests /\ OnFailure(b).failed = n.failed
        /\ OnFailure(b).failures = n.failures
    BY <1>3, <1>5, Zenon DEF Breaker
  <2> QED
    BY <1>1, <1>2, <1>3, <1>5, <2>1, SMT DEF Sound
<1>6. CASE OnFailure(b) = [n EXCEPT !.state = n.state]
  <2>1. /\ OnFailure(b) \in Breaker /\ OnFailure(b).requests = n.requests /\ OnFailure(b).failed = n.failed
        /\ OnFailure(b).failures = n.failures /\ OnFailure(b).state = n.state
    BY <1>3, <1>6, Zenon DEF Breaker
  <2> QED
    BY <1>1, <1>2, <1>3, <2>1, SMT DEF Sound
<1> QED
  BY <1>4, <1>5, <1>6

\* The breaker's clock moves its counters nowhere.
LEMMA CooledFacts ==
  ASSUME NEW b, Sound(b)
  PROVE  LET c == [b EXCEPT !.cooled = TRUE]
         IN Sound(c) /\ c.requests = b.requests /\ c.failed = b.failed
<1> DEFINE c == [b EXCEPT !.cooled = TRUE]
<1>1. /\ c \in Breaker /\ c.requests = b.requests /\ c.failed = b.failed
      /\ c.failures = b.failures /\ c.state = b.state
  BY Zenon DEF Sound, Breaker
<1> HIDE DEF c
<1>2. Sound(c)
  BY <1>1 DEF Sound
<1> QED
  BY <1>1, <1>2 DEF c

\* The record of one payment is replaced: the others stay.
LEMMA CallReplaced ==
  ASSUME CallsOK, NEW k \in CallSlots, NEW r, call' = [call EXCEPT ![k] = r],
         r \in Fields(r.left), r.at \in {"new", "done"} => r.waiting = {},
         NEW o, opened' = [opened EXCEPT ![k] = o]
  PROVE  /\ CallsOK' /\ call'[k] = r /\ opened'[k] = o
         /\ \A j \in CallSlots \ {k} : call'[j] = call[j] /\ opened'[j] = opened[j]
BY DEF CallsOK

\* One payment starts or stops waiting for a provider: the number of those that wait moves by one.
LEMMA OutstandingMoves ==
  ASSUME NEW k \in CallSlots, NEW p,
         \A j \in CallSlots \ {k} : call'[j].waiting = call[j].waiting
  PROVE  /\ Cardinality(Outstanding(p)) \in Nat
         /\ (p \in call[k].waiting) = (p \in call'[k].waiting) =>
              Cardinality(Outstanding(p)') = Cardinality(Outstanding(p))
         /\ p \notin call[k].waiting /\ p \in call'[k].waiting =>
              Cardinality(Outstanding(p)') = Cardinality(Outstanding(p)) + 1
         /\ p \in call[k].waiting /\ p \notin call'[k].waiting =>
              Cardinality(Outstanding(p)') = Cardinality(Outstanding(p)) - 1
<1>1. IsFiniteSet(Outstanding(p)) /\ Cardinality(Outstanding(p)) \in Nat
  <2>1. Outstanding(p) \subseteq CallSlots
    BY DEF Outstanding
  <2> QED
    BY <2>1, CallNamesAssumption, FS_Subset, FS_CardinalityType
<1>2. CASE (p \in call[k].waiting) = (p \in call'[k].waiting)
  <2>1. Outstanding(p)' = Outstanding(p)
    BY <1>2 DEF Outstanding
  <2> QED
    BY <1>1, <1>2, <2>1
<1>3. CASE p \notin call[k].waiting /\ p \in call'[k].waiting
  <2>1. Outstanding(p)' = Outstanding(p) \cup {k} /\ k \notin Outstanding(p)
    BY <1>3 DEF Outstanding
  <2>2. Cardinality(Outstanding(p) \cup {k}) = Cardinality(Outstanding(p)) + 1
    BY <1>1, <2>1, FS_AddElement
  <2> QED
    BY <1>1, <1>3, <2>1, <2>2
<1>4. CASE p \in call[k].waiting /\ p \notin call'[k].waiting
  <2>1. Outstanding(p)' = Outstanding(p) \ {k} /\ k \in Outstanding(p)
    BY <1>4 DEF Outstanding
  <2>2. Cardinality(Outstanding(p) \ {k}) = Cardinality(Outstanding(p)) - 1
    BY <1>1, <2>1, FS_RemoveElement
  <2> QED
    BY <1>1, <1>4, <2>1, <2>2
<1> QED
  BY <1>1, <1>2, <1>3, <1>4

----------------------------------------------------------------------------
\* At the start nobody waits and no breaker has counted anything.
LEMMA CallsStart == CallsInit => CallsInv
<1> SUFFICES ASSUME CallsInit PROVE CallsInv
  OBVIOUS
<1>1. CallsOK /\ \A k \in CallSlots : OpenedAsTold(k)
  BY SMT DEF CallsInit, CallsOK, OpenedAsTold, NoCall, Fields
<1>2. BreakersOK
  BY ThresholdAssumption, SMT DEF CallsInit, BreakersOK, Sound, NewBreaker, Breaker
<1>3. FailuresAreRequests
  <2> SUFFICES ASSUME NEW p \in Tsps
               PROVE  breaker[p].failed + Cardinality(Outstanding(p)) <= breaker[p].requests
    BY DEF FailuresAreRequests
  <2>1. Outstanding(p) = {}
    BY DEF CallsInit, Outstanding, NoCall
  <2>2. breaker[p].failed = 0 /\ breaker[p].requests = 0
    BY DEF CallsInit, NewBreaker
  <2> QED
    BY <2>1, <2>2, FS_EmptySet
<1> QED
  BY <1>1, <1>2, <1>3 DEF CallsInv

\* A step of one payment keeps the count if each provider's breaker moves with those that wait for it.
LEMMA CountKept ==
  ASSUME CallsInv, BreakersOK', NEW k \in CallSlots,
         \A j \in CallSlots \ {k} : call'[j].waiting = call[j].waiting,
         \A p \in Tsps :
           \/ /\ breaker'[p].requests = breaker[p].requests + 1 /\ breaker'[p].failed = breaker[p].failed
           \/ /\ breaker'[p].requests = breaker[p].requests /\ breaker'[p].failed = breaker[p].failed
              /\ p \in call'[k].waiting => p \in call[k].waiting
           \/ /\ breaker'[p].requests = breaker[p].requests /\ breaker'[p].failed = breaker[p].failed + 1
              /\ p \in call[k].waiting /\ p \notin call'[k].waiting
  PROVE  FailuresAreRequests'
<1> SUFFICES ASSUME NEW p \in Tsps
             PROVE  breaker'[p].failed + Cardinality(Outstanding(p)') <= breaker'[p].requests
  BY DEF FailuresAreRequests
<1>1. breaker[p].failed + Cardinality(Outstanding(p)) <= breaker[p].requests
  BY DEF CallsInv, FailuresAreRequests
<1>2. breaker[p].failed \in Nat /\ breaker[p].requests \in Nat
  BY SMT DEF CallsInv, BreakersOK, Sound, Breaker
<1> HIDE DEF Outstanding
<1> QED
  BY <1>1, <1>2, OutstandingMoves, SMT

\* Every payment's step, and the passing of time, keeps what the property rests on.
LEMMA CallsStep == CallsInv /\ [CallsNext]_callVars => CallsInv'
<1> SUFFICES ASSUME CallsInv, [CallsNext]_callVars PROVE CallsInv'
  OBVIOUS
<1>a. CallsOK /\ BreakersOK /\ FailuresAreRequests /\ \A k \in CallSlots : OpenedAsTold(k)
  BY DEF CallsInv
<1>b. WithAdapter \subseteq Tsps /\ "failed" \notin WithAdapter
  BY CallsAssumption, CallNamesAssumption
<1>1. CASE UNCHANGED callVars
  BY <1>1, <1>a DEF callVars, CallsInv, CallsOK, BreakersOK, FailuresAreRequests, OpenedAsTold, Outstanding
<1>2. ASSUME NEW p \in Tsps, CoolDown(p) PROVE CallsInv'
  <2>1. BreakersOK' /\ \A q \in Tsps : /\ breaker'[q].requests = breaker[q].requests
                                       /\ breaker'[q].failed = breaker[q].failed
    BY <1>2, <1>a, CooledFacts DEF CoolDown, BreakersOK
  <2>2. FailuresAreRequests'
    BY <1>2, <1>a, <2>1 DEF CoolDown, FailuresAreRequests, Outstanding
  <2> QED
    BY <1>2, <1>a, <2>1, <2>2 DEF CoolDown, CallsInv, CallsOK, OpenedAsTold
<1>3. ASSUME NEW k \in CallSlots, StartCalls(k) PROVE CallsInv'
  <2>1. PICK candidates \in CandidateLists :
          LET sent == ToSet(Abreast(candidates)) \cap WithAdapter
          IN IF Abreast(candidates) = << >>
             THEN call' = [call EXCEPT ![k] = [NoCall EXCEPT !.at = "done", !.result = "failed"]]
                  /\ UNCHANGED breaker
             ELSE /\ breaker' = [p \in Tsps |-> IF p \in sent THEN Trying(breaker[p]) ELSE breaker[p]]
                  /\ call' = [call EXCEPT ![k] = [NoCall EXCEPT !.at = "parallel", !.sent = sent, !.waiting = sent,
                                                                 !.left = Remaining(candidates)]]
    BY <1>3 DEF StartCalls
  <2>2. call[k].waiting = {} /\ opened' = [opened EXCEPT ![k] = {}]
    BY <1>3, <1>a DEF StartCalls, CallsOK
  <2> DEFINE sent == ToSet(Abreast(candidates)) \cap WithAdapter
             rest == Remaining(candidates)
  <2>3. sent \subseteq WithAdapter
    OBVIOUS
  <2>4. \/ /\ call' = [call EXCEPT ![k] = [NoCall EXCEPT !.at = "done", !.result = "failed"]]
           /\ UNCHANGED breaker
        \/ /\ breaker' = [p \in Tsps |-> IF p \in sent THEN Trying(breaker[p]) ELSE breaker[p]]
           /\ call' = [call EXCEPT ![k] = [NoCall EXCEPT !.at = "parallel", !.sent = sent, !.waiting = sent,
                                                          !.left = rest]]
    BY <2>1
  <2> HIDE DEF sent, rest
  <2>r. PICK r :
          /\ call' = [call EXCEPT ![k] = r]
          /\ r \in Fields(r.left) /\ r.won = {}
          /\ \/ r.at = "done" /\ r.waiting = {} /\ r.result = "failed" /\ UNCHANGED breaker
             \/ /\ r.at = "parallel" /\ r.waiting = sent /\ r.sent = sent
                /\ breaker' = [p \in Tsps |-> IF p \in sent THEN Trying(breaker[p]) ELSE breaker[p]]
    <3>1. NoCall \in Fields(NoCall.left) /\ NoCall.waiting = {} /\ NoCall.won = {}
      BY Zenon DEF NoCall, Fields
    <3> DEFINE r0 == [NoCall EXCEPT !.at = "done", !.result = "failed"]
               r1 == [NoCall EXCEPT !.at = "parallel", !.sent = sent, !.waiting = sent, !.left = rest]
    <3>2. /\ r0 \in Fields(r0.left) /\ r0.won = {} /\ r0.at = "done" /\ r0.waiting = {}
          /\ r0.result = "failed"
      BY <3>1, Zenon DEF Fields
    <3>3. /\ r1 \in Fields(r1.left) /\ r1.won = {} /\ r1.at = "parallel" /\ r1.waiting = sent
          /\ r1.sent = sent
      BY <2>3, <3>1, Zenon DEF Fields
    <3>4. \/ call' = [call EXCEPT ![k] = r0] /\ UNCHANGED breaker
          \/ /\ breaker' = [p \in Tsps |-> IF p \in sent THEN Trying(breaker[p]) ELSE breaker[p]]
             /\ call' = [call EXCEPT ![k] = r1]
      BY <2>4
    <3> HIDE DEF r0, r1
    <3> QED
      BY <3>2, <3>3, <3>4
  <2>5. /\ CallsOK' /\ call'[k] = r /\ opened'[k] = {}
        /\ \A j \in CallSlots \ {k} : call'[j] = call[j] /\ opened'[j] = opened[j]
    <3>1. r.at \in {"new", "done"} => r.waiting = {}
      BY <2>r
    <3> QED
      BY <1>a, <2>2, <2>r, <3>1, CallReplaced
  <2>6. BreakersOK' /\ FailuresAreRequests'
    <3>1. BreakersOK'
      BY <1>a, <2>r, TryingFacts DEF BreakersOK
    <3>2. \A p \in Tsps :
            \/ breaker'[p].requests = breaker[p].requests + 1 /\ breaker'[p].failed = breaker[p].failed
            \/ breaker'[p] = breaker[p] /\ p \notin call'[k].waiting
      BY <1>a, <2>r, <2>5, TryingFacts DEF BreakersOK
    <3> QED
      BY <2>5, <3>1, <3>2, CountKept DEF CallsInv
  <2>7. OpenedAsTold(k)'
    BY <2>r, <2>5 DEF OpenedAsTold
  <2> QED
    BY <1>a, <2>5, <2>6, <2>7, ZenonT(30) DEF CallsInv, OpenedAsTold
<1>4. ASSUME NEW k \in CallSlots, NEW p \in Tsps, Answer(k, p) PROVE CallsInv'
  <2>1. \A j \in CallSlots \ {k} : call'[j] = call[j] /\ opened'[j] = opened[j]
    BY <1>4, <1>a, SMT DEF Answer, CallsOK
  <2>2. CallsOK' /\ call'[k].waiting = call[k].waiting \ {p}
    BY <1>4, <1>a, SMT DEF Answer, CallsOK, Fields
  <2>3. BreakersOK' /\ \A q \in Tsps : /\ breaker'[q].requests = breaker[q].requests
                                       /\ breaker'[q].failed = breaker[q].failed
    BY <1>4, <1>a, OnSuccessFacts DEF Answer, BreakersOK
  <2>4. FailuresAreRequests'
    BY <2>1, <2>2, <2>3, CountKept
  <2>5. OpenedAsTold(k)'
    <3>1. /\ call'[k].at = call[k].at /\ call'[k].late = call[k].late /\ call'[k].sent = call[k].sent
          /\ \/ call'[k].won = call[k].won \cup {p} /\ opened'[k] = opened[k] \cup {p}
             \/ call'[k].won = call[k].won /\ opened'[k] = opened[k]
      <4>1. CASE /\ call' = [call EXCEPT ![k].waiting = @ \ {p}, ![k].won = @ \cup {p}]
                 /\ opened' = [opened EXCEPT ![k] = @ \cup {p}]
        BY <1>a, <4>1, Zenon DEF CallsOK, Fields
      <4>2. CASE call' = [call EXCEPT ![k].waiting = @ \ {p}] /\ UNCHANGED opened
        BY <1>a, <4>2, Zenon DEF CallsOK, Fields
      <4> QED
        BY <1>4, <4>1, <4>2 DEF Answer
    <3>2. p \in call[k].waiting /\ call[k].at \notin {"new", "done"}
      BY <1>4, <1>a DEF Answer, CallsOK
    <3> QED
      BY <1>a, <2>2, <3>1, <3>2 DEF OpenedAsTold
  <2> QED
    BY <1>a, <2>1, <2>2, <2>3, <2>4, <2>5 DEF CallsInv, OpenedAsTold
<1>5. ASSUME NEW k \in CallSlots, NEW p \in Tsps, TimeOut(k, p) PROVE CallsInv'
  <2>1. \A j \in CallSlots \ {k} : call'[j] = call[j] /\ opened'[j] = opened[j]
    BY <1>5, <1>a, SMT DEF TimeOut, CallsOK
  <2>2. CallsOK' /\ call'[k].waiting = call[k].waiting \ {p} /\ call'[k].late /\ p \in call[k].waiting
    <3>1. p \in call[k].waiting /\ call[k].waiting \ {p} \subseteq WithAdapter
      BY <1>5, <1>a, Zenon DEF TimeOut, CallsOK, Fields
    <3> DEFINE r == [call[k] EXCEPT !.waiting = @ \ {p}, !.late = TRUE]
    <3>2. call' = [call EXCEPT ![k] = r]
      BY <1>5, <1>a, Zenon DEF TimeOut, CallsOK
    <3>3. PICK o : opened' = [opened EXCEPT ![k] = o]
      <4>1. opened = [opened EXCEPT ![k] = opened[k]]
        BY <1>a, Zenon DEF CallsOK
      <4> QED
        BY <1>5, <4>1 DEF TimeOut
    <3>4. r \in Fields(r.left) /\ r.waiting = call[k].waiting \ {p} /\ r.late /\ r.at = call[k].at
      BY <1>a, <3>1, Zenon DEF CallsOK, Fields
    <3> HIDE DEF r
    <3>5. r.at \in {"new", "done"} => r.waiting = {}
      BY <1>a, <3>1, <3>4 DEF CallsOK
    <3> QED
      BY <1>a, <3>1, <3>2, <3>3, <3>4, <3>5, CallReplaced
  <2>3. BreakersOK' /\ \A q \in Tsps : /\ breaker'[q].requests = breaker[q].requests
                                       /\ breaker'[q].failed = IF q = p THEN breaker[q].failed + 1
                                                               ELSE breaker[q].failed
    BY <1>5, <1>a, OnFailureFacts DEF TimeOut, BreakersOK
  <2>4. FailuresAreRequests'
    BY <2>1, <2>2, <2>3, CountKept
  <2> QED
    BY <1>a, <2>1, <2>2, <2>3, <2>4 DEF CallsInv, OpenedAsTold
<1>6. ASSUME NEW k \in CallSlots, Collect(k) \/ Conclude(k) PROVE CallsInv'
  <2>1. /\ call[k].waiting = {} /\ UNCHANGED <<breaker, opened>>
        /\ \/ \E p \in call[k].won : Done(k, p)
           \/ call[k].at = "parallel" /\ call[k].won = {} /\ call' = [call EXCEPT ![k].at = "fallback"]
           \/ call[k].at = "fallback" /\ call[k].won = {} /\ Done(k, "failed")
        /\ call[k].at \in {"parallel", "fallback"}
    BY <1>6 DEF Collect, Conclude
  <2>2. PICK a, e :
          /\ call' = [call EXCEPT ![k] = [call[k] EXCEPT !.at = a, !.result = e]]
          /\ \/ a = "done" /\ e \in call[k].won
             \/ call[k].at = "parallel" /\ call[k].won = {} /\ a = "fallback" /\ e = call[k].result
             \/ call[k].at = "fallback" /\ call[k].won = {} /\ a = "done" /\ e = "failed"
    <3>1. \A e : Done(k, e) => call' = [call EXCEPT ![k] = [call[k] EXCEPT !.at = "done", !.result = e]]
      BY <1>a, Zenon DEF CallsOK, Done
    <3>2. call' = [call EXCEPT ![k].at = "fallback"]
            => call' = [call EXCEPT ![k] = [call[k] EXCEPT !.at = "fallback", !.result = call[k].result]]
      BY <1>a, Zenon DEF CallsOK, Fields
    <3> QED
      BY <2>1, <3>1, <3>2, Zenon
  <2> DEFINE r == [call[k] EXCEPT !.at = a, !.result = e]
  <2>r. /\ r \in Fields(r.left) /\ r.waiting = {} /\ r.won = call[k].won /\ r.sent = call[k].sent
        /\ r.late = call[k].late /\ r.at = a /\ r.result = e
    <3>1. call[k] \in Fields(call[k].left) /\ call[k].won \subseteq WithAdapter
      BY <1>a, Zenon DEF CallsOK, Fields
    <3>2. a \in {"done", "fallback"} /\ e \in WithAdapter \cup {"none", "failed"}
      BY <2>2, <3>1, Zenon DEF Fields
    <3> QED
      BY <2>1, <3>1, <3>2, Zenon DEF Fields
  <2> HIDE DEF r
  <2>3. /\ CallsOK' /\ call'[k] = r /\ opened' = opened
        /\ \A j \in CallSlots \ {k} : call'[j] = call[j]
    <3>1. PICK o : opened' = [opened EXCEPT ![k] = o]
      <4>1. opened' = [opened EXCEPT ![k] = opened[k]]
        BY <1>a, <2>1, Zenon DEF CallsOK
      <4> QED
        BY <4>1
    <3>2. call' = [call EXCEPT ![k] = r]
      BY <2>2 DEF r
    <3>3. r.at \in {"new", "done"} => r.waiting = {}
      BY <2>r
    <3>4. CallsOK' /\ call'[k] = r /\ \A j \in CallSlots \ {k} : call'[j] = call[j]
      BY <1>a, <2>r, <3>1, <3>2, <3>3, CallReplaced
    <3> QED
      BY <2>1, <3>4
  <2>4. BreakersOK' /\ FailuresAreRequests'
    <3>1. \A j \in CallSlots : call'[j].waiting = call[j].waiting
      BY <2>1, <2>r, <2>3
    <3> QED
      BY <1>a, <2>1, <3>1 DEF BreakersOK, FailuresAreRequests, Outstanding
  <2>5. OpenedAsTold(k)'
    <3>1. "failed" \notin call[k].won
      BY <1>a, <1>b, Zenon DEF CallsOK, Fields
    <3> QED
      BY <1>a, <2>1, <2>2, <2>r, <2>3, <3>1 DEF OpenedAsTold
  <2> QED
    BY <1>a, <2>1, <2>2, <2>3, <2>4, <2>5 DEF CallsInv, OpenedAsTold
<1>7. ASSUME NEW k \in CallSlots, TryNext(k) PROVE CallsInv'
  <2> DEFINE q == Head(call[k].left)
  <2>1. /\ call[k].at = "fallback" /\ call[k].waiting = {} /\ call[k].won = {} /\ UNCHANGED opened
        /\ \/ /\ q \in WithAdapter
              /\ breaker' = [breaker EXCEPT ![q] = Trying(@)]
              /\ call' = [call EXCEPT ![k].left = Tail(@), ![k].waiting = {q}]
           \/ /\ \/ q \in WithAdapter /\ breaker' = [breaker EXCEPT ![q] = Counted(@)]
                 \/ UNCHANGED breaker
              /\ call' = [call EXCEPT ![k].left = Tail(@)]
    BY <1>7 DEF TryNext
  <2> HIDE DEF q
  <2>2. PICK w :
          /\ call' = [call EXCEPT ![k] = [call[k] EXCEPT !.left = Tail(@), !.waiting = w]]
          /\ \/ w = {q} /\ q \in WithAdapter /\ breaker' = [breaker EXCEPT ![q] = Trying(@)]
             \/ /\ w = call[k].waiting
                /\ \/ q \in WithAdapter /\ breaker' = [breaker EXCEPT ![q] = Counted(@)]
                   \/ UNCHANGED breaker
    <3>1. call' = [call EXCEPT ![k].left = Tail(@), ![k].waiting = {q}]
            => call' = [call EXCEPT ![k] = [call[k] EXCEPT !.left = Tail(@), !.waiting = {q}]]
      BY <1>a, Zenon DEF CallsOK
    <3>2. call' = [call EXCEPT ![k].left = Tail(@)]
            => call' = [call EXCEPT ![k] = [call[k] EXCEPT !.left = Tail(@), !.waiting = call[k].waiting]]
      BY <1>a, <2>1, Zenon DEF CallsOK, Fields
    <3> QED
      BY <2>1, <3>1, <3>2, Zenon
  <2> DEFINE r == [call[k] EXCEPT !.left = Tail(@), !.waiting = w]
  <2>r. /\ r \in Fields(r.left) /\ r.waiting = w /\ r.won = {} /\ r.at = "fallback" /\ r.late = call[k].late
    <3>1. call[k] \in Fields(call[k].left) /\ w \subseteq WithAdapter
      BY <1>a, <2>2, Zenon DEF CallsOK, Fields
    <3> QED
      BY <2>1, <3>1, Zenon DEF Fields
  <2> HIDE DEF r
  <2>3. /\ CallsOK' /\ call'[k] = r /\ opened' = opened
        /\ \A j \in CallSlots \ {k} : call'[j] = call[j]
    <3>1. PICK o : opened' = [opened EXCEPT ![k] = o]
      <4>1. opened' = [opened EXCEPT ![k] = opened[k]]
        BY <1>a, <2>1, Zenon DEF CallsOK
      <4> QED
        BY <4>1
    <3>2. call' = [call EXCEPT ![k] = r]
      BY <2>2 DEF r
    <3>3. r.at \in {"new", "done"} => r.waiting = {}
      BY <2>r
    <3>4. CallsOK' /\ call'[k] = r /\ \A j \in CallSlots \ {k} : call'[j] = call[j]
      BY <1>a, <2>r, <3>1, <3>2, <3>3, CallReplaced
    <3> QED
      BY <2>1, <3>4
  <2>4. BreakersOK' /\ \A p \in Tsps :
            \/ breaker'[p].requests = breaker[p].requests + 1 /\ breaker'[p].failed = breaker[p].failed
            \/ breaker'[p] = breaker[p] /\ p \notin call'[k].waiting
    BY <1>a, <1>b, <2>1, <2>2, <2>r, <2>3, TryingFacts DEF BreakersOK
  <2>5. FailuresAreRequests'
    BY <2>3, <2>4, CountKept
  <2>6. OpenedAsTold(k)'
    BY <1>a, <2>1, <2>2, <2>r, <2>3 DEF OpenedAsTold
  <2> QED
    BY <1>a, <2>3, <2>4, <2>5, <2>6 DEF CallsInv, OpenedAsTold
<1> QED
  BY <1>1, <1>2, <1>3, <1>4, <1>5, <1>6, <1>7 DEF CallsNext, CallStep

\* No breaker counts a call as failed twice, and none opens below its thresholds, for any number of concurrent
\* payments and any order of answers and timeouts (circuit-breaker.ts).
THEOREM BreakersCount == CallsSpec => []BreakersCountRight
<1>1. CallsInv => BreakersCountRight
  BY SMT DEF CallsInv, BreakersOK, Sound, Breaker, BreakersCountRight, OpenedForCause
<1> QED
  BY CallsStart, CallsStep, <1>1, PTL DEF CallsSpec

\* A payment none of whose calls was given up is open where its answer says and, if the fallback took it up,
\* nowhere else; one answered as failed is open nowhere (executeFallbackStrategy).
THEOREM FallbackOpensOnce == CallsSpec => []OpenedOnceByFallback
<1>1. CallsInv => OpenedOnceByFallback
  BY DEF CallsInv, OpenedAsTold, OpenedOnceByFallback
<1> QED
  BY CallsStart, CallsStep, <1>1, PTL DEF CallsSpec
=============================================================================
