----------------------------- MODULE ParallelTsp -----------------------------
(***************************************************************************)
(* adapters/parallel-tsp-processor.ts: a payment is sent to up to          *)
(* MaxParallel healthy candidates at once; when none accepts it the others *)
(* are tried one after another.  Payments share one breaker per provider.  *)
(* The only caller asks for requireAllSuccess: false.                      *)
(***************************************************************************)
EXTENDS CircuitBreaker, Sequences, SequencesExt, FiniteSets

CONSTANTS CallSlots,      \* payments in the processor at a time
          Tsps,           \* the providers with a breaker
          WithAdapter,    \* those that have an adapter as well
          CandidateLists, \* the candidates smart routing may hand over
          MaxParallel,
          MaxRequests     \* bound: calls through one breaker

ASSUME CallsAssumption == WithAdapter \subseteq Tsps /\ {MaxParallel, MaxRequests} \subseteq Nat \ {0}
ASSUME CallNamesAssumption == IsFiniteSet(CallSlots) /\ {"none", "failed"} \cap Tsps = {}

VARIABLES breaker,  \* breaker[p]
          call,     \* call[k]: where the payment in slot k stands
          opened    \* opened[k]: the providers that have opened it

callVars == <<breaker, call, opened>>

\* sent: called in parallel; waiting: calls not answered; won: successful answers; late: a
\* call was given up; left: candidates for the fallback.
NoCall == [at |-> "new", sent |-> {}, waiting |-> {}, won |-> {}, late |-> FALSE, left |-> << >>,
           result |-> "none"]
Done(k, result) == call' = [call EXCEPT ![k].at = "done", ![k].result = result]

CallsInit ==
  /\ breaker = [p \in Tsps |-> NewBreaker]
  /\ call = [k \in CallSlots |-> NoCall]
  /\ opened = [k \in CallSlots |-> {}]

\* A provider without a breaker counts as healthy.
Healthy(p) == p \in Tsps => IsHealthy(breaker[p])

\* The first MaxParallel of the healthy candidates are called at once, the others stay for the fallback.
Abreast(candidates) ==
  LET healthy == SelectSeq(candidates, Healthy)
  IN SubSeq(healthy, 1, IF Len(healthy) < MaxParallel THEN Len(healthy) ELSE MaxParallel)
Remaining(candidates) ==
  LET NotYet(p) == p \notin ToSet(Abreast(candidates))
  IN SelectSeq(candidates, NotYet)

\* executeParallelTSPs, in a slot that is free.  Without a healthy candidate the call ends in the catch: the
\* fallback is not reached.  Candidates without an adapter are rejected at once.
StartCalls(k) ==
  /\ call[k].at \in {"new", "done"}
  /\ \A p \in Tsps : breaker[p].requests < MaxRequests
  /\ \E candidates \in CandidateLists :
       LET sent == ToSet(Abreast(candidates)) \cap WithAdapter
       IN IF Abreast(candidates) = << >>
          THEN call' = [call EXCEPT ![k] = [NoCall EXCEPT !.at = "done", !.result = "failed"]] /\ UNCHANGED breaker
          ELSE /\ breaker' = [p \in Tsps |-> IF p \in sent THEN Trying(breaker[p]) ELSE breaker[p]]
               /\ call' = [call EXCEPT ![k] = [NoCall EXCEPT !.at = "parallel", !.sent = sent, !.waiting = sent,
                                                              !.left = Remaining(candidates)]]
  /\ opened' = [opened EXCEPT ![k] = {}]

\* An adapter answers: an answer that declines the payment is a success for the breaker.
Answer(k, p) ==
  /\ p \in call[k].waiting
  /\ breaker' = [breaker EXCEPT ![p] = OnSuccess(@)]
  /\ \/ /\ call' = [call EXCEPT ![k].waiting = @ \ {p}, ![k].won = @ \cup {p}]
        /\ opened' = [opened EXCEPT ![k] = @ \cup {p}]
     \/ /\ call' = [call EXCEPT ![k].waiting = @ \ {p}]
        /\ UNCHANGED opened

\* Variant: a call that times out is left waiting when the breaker has opened meanwhile.
TimeOutUnlessOpen(k, p) ==
  /\ p \in call[k].waiting
  /\ breaker[p].state # "OPEN"
  /\ breaker' = [breaker EXCEPT ![p] = OnFailure(@)]
  /\ call' = [call EXCEPT ![k].waiting = @ \ {p}, ![k].late = TRUE]
  /\ opened' \in {opened, [opened EXCEPT ![k] = @ \cup {p}]}

\* withTimeout, or the adapter throws: the call is given up; the provider may have opened the payment, or will.
TimeOut(k, p) ==
  /\ p \in call[k].waiting
  /\ breaker' = [breaker EXCEPT ![p] = OnFailure(@)]
  /\ call' = [call EXCEPT ![k].waiting = @ \ {p}, ![k].late = TRUE]
  /\ opened' \in {opened, [opened EXCEPT ![k] = @ \cup {p}]}

\* selectBestResult once all have answered; rankings are statistics, any winner may lead.
Collect(k) ==
  /\ call[k].at = "parallel" /\ call[k].waiting = {}
  /\ IF call[k].won # {} THEN \E p \in call[k].won : Done(k, p)
     ELSE call' = [call EXCEPT ![k].at = "fallback"]
  /\ UNCHANGED <<breaker, opened>>

\* Variant: the loop goes on after a candidate has accepted the payment.
TryNextRegardless(k) ==
  /\ call[k].at = "fallback" /\ call[k].waiting = {} /\ call[k].left # << >>
  /\ LET p == Head(call[k].left)
     IN IF p \in WithAdapter /\ LetsThrough(breaker[p])
        THEN /\ breaker' = [breaker EXCEPT ![p] = Trying(@)]
             /\ call' = [call EXCEPT ![k].left = Tail(@), ![k].waiting = {p}]
        ELSE /\ breaker' = IF p \in WithAdapter THEN [breaker EXCEPT ![p] = Counted(@)] ELSE breaker
             /\ call' = [call EXCEPT ![k].left = Tail(@)]
  /\ UNCHANGED opened

\* executeFallbackStrategy: unhealthy providers are tried too; an open breaker answers
\* for its provider.
TryNext(k) ==
  /\ call[k].at = "fallback" /\ call[k].waiting = {} /\ call[k].won = {} /\ call[k].left # << >>
  /\ LET p == Head(call[k].left)
     IN IF p \in WithAdapter /\ LetsThrough(breaker[p])
        THEN /\ breaker' = [breaker EXCEPT ![p] = Trying(@)]
             /\ call' = [call EXCEPT ![k].left = Tail(@), ![k].waiting = {p}]
        ELSE /\ breaker' = IF p \in WithAdapter THEN [breaker EXCEPT ![p] = Counted(@)] ELSE breaker
             /\ call' = [call EXCEPT ![k].left = Tail(@)]
  /\ UNCHANGED opened

Conclude(k) ==
  /\ call[k].at = "fallback" /\ call[k].waiting = {}
  /\ \/ \E p \in call[k].won : Done(k, p)
     \/ call[k].won = {} /\ call[k].left = << >> /\ Done(k, "failed")
  /\ UNCHANGED <<breaker, opened>>

\* recoveryTimeout passes.
CoolDown(p) ==
  /\ ~breaker[p].cooled
  /\ breaker' = [breaker EXCEPT ![p].cooled = TRUE]
  /\ UNCHANGED <<call, opened>>

CallStep(k) ==
  \/ Collect(k) \/ TryNext(k) \/ Conclude(k)
  \/ \E p \in Tsps : Answer(k, p) \/ TimeOut(k, p)

CallsNext ==
  \/ \E k \in CallSlots : StartCalls(k) \/ CallStep(k)
  \/ \E p \in Tsps : CoolDown(p)

CallsSpec == CallsInit /\ [][CallsNext]_callVars

----------------------------------------------------------------------------
Outstanding(p) == {k \in CallSlots : p \in call[k].waiting}

\* The breaker has counted every call in flight as a request and none of them yet as a
\* failure: no call is counted as failed twice, however answers and timeouts interleave.
FailuresAreRequests ==
  \A p \in Tsps : breaker[p].failed + Cardinality(Outstanding(p)) <= breaker[p].requests

\* A breaker that keeps calls away has seen the volume and the failures it was given as
\* thresholds, in whatever order the answers of concurrent payments came.
OpenedForCause ==
  \A p \in Tsps : breaker[p].state # "CLOSED" =>
    /\ breaker[p].requests >= VolumeThreshold
    /\ breaker[p].failures >= FailureThreshold
    /\ breaker[p].failed >= breaker[p].failures

\* A payment the fallback takes up has been accepted by nobody: where no call was given up
\* what is opened was opened by the parallel calls alone or by one provider of the fallback, and
\* a payment answered as failed is open nowhere.
OpenedOnceByFallback ==
  \A k \in CallSlots :
    call[k].at = "done" /\ ~call[k].late =>
      /\ call[k].result = "failed" <=> opened[k] = {}
      /\ opened[k] # {} => call[k].result \in opened[k]
      /\ opened[k] \subseteq call[k].sent \/ opened[k] = {call[k].result}

\* The timers see to it that every payment gets an answer, though the adapters give none.
CallsEnd == \A k \in CallSlots : call[k].at = "parallel" ~> call[k].at = "done"
CallsFairness ==
  \A k \in CallSlots :
    /\ WF_callVars(Collect(k) \/ TryNext(k) \/ Conclude(k))
    /\ \A p \in Tsps : WF_callVars(TimeOut(k, p))

\* What a breaker counts is what happened, whatever calls of concurrent payments answer, time out or answer
\* late (execute, onSuccess and onFailure of circuit-breaker.ts).
BreakersCountRight == FailuresAreRequests /\ OpenedForCause
=============================================================================
