--------------------------- MODULE CircuitBreaker ---------------------------
(***************************************************************************)
(* adapters/circuit-breaker.ts as operators on the breaker's fields.  Time *)
(* is one flag: cooled says that recoveryTimeout has passed since the last *)
(* failure, which is also so when there was none.                          *)
(***************************************************************************)
EXTENDS Naturals

CONSTANTS FailureThreshold, SuccessThreshold, VolumeThreshold

ASSUME ThresholdAssumption ==
  {FailureThreshold, SuccessThreshold, VolumeThreshold} \subseteq Nat \ {0}

\* failures and successes are the current counts, requests and failed those of a lifetime.
Breaker == [state : {"CLOSED", "OPEN", "HALF_OPEN"}, failures : Nat, successes : Nat,
            requests : Nat, failed : Nat, cooled : BOOLEAN]

NewBreaker == [state |-> "CLOSED", failures |-> 0, successes |-> 0,
               requests |-> 0, failed |-> 0, cooled |-> TRUE]

\* execute: an open breaker lets a call through once it has cooled, and is half open then.
LetsThrough(b) == b.state = "OPEN" => b.cooled
Counted(b)     == [b EXCEPT !.requests = @ + 1]
Trying(b)      == [Counted(b) EXCEPT !.state = IF @ = "OPEN" THEN "HALF_OPEN" ELSE @]

ShouldOpen(b) ==
  /\ b.requests >= VolumeThreshold
  /\ b.failures >= FailureThreshold
  /\ 2 * b.failed > b.requests

\* Variant: every success clears the count of failures.
OnSuccessClears(b) ==
  LET n == [b EXCEPT !.successes = @ + 1, !.failures = 0]
  IN IF b.state = "HALF_OPEN" /\ n.successes >= SuccessThreshold
     THEN [n EXCEPT !.state = "CLOSED", !.successes = 0, !.cooled = TRUE] ELSE n

\* Variant: a timeout is counted by the timer and again by the rejected call.
OnFailureTwice(b) ==
  LET n == [b EXCEPT !.failures = @ + 1, !.failed = @ + 2, !.cooled = FALSE]
  IN [n EXCEPT !.state = IF b.state = "HALF_OPEN" \/ ShouldOpen(n) THEN "OPEN" ELSE @]

\* The successes of the closed state count towards closing a half-open breaker too.
OnSuccess(b) ==
  LET n == [b EXCEPT !.successes = @ + 1]
  IN CASE b.state = "HALF_OPEN" /\ n.successes >= SuccessThreshold
            -> [n EXCEPT !.state = "CLOSED", !.failures = 0, !.successes = 0, !.cooled = TRUE]
       [] b.state = "CLOSED" -> [n EXCEPT !.failures = 0]
       [] OTHER -> n

OnFailure(b) ==
  LET n == [b EXCEPT !.failures = @ + 1, !.failed = @ + 1, !.cooled = FALSE]
      opens == b.state = "HALF_OPEN" \/ (b.state = "CLOSED" /\ ShouldOpen(n))
  IN [n EXCEPT !.state = IF opens THEN "OPEN" ELSE @]

IsHealthy(b) == b.state = "CLOSED" /\ (b.requests > 0 => 10 * b.failed < b.requests)
=============================================================================
