---------------------------- MODULE FraudScreening ----------------------------
(***************************************************************************)
(* fraud-management.service.ts, performEnhancedFraudAnalysis: the score of *)
(* a payment is the customer's stored score plus points for each flag, and *)
(* is stored as the customer's score in turn.  The profile that holds the  *)
(* stored score comes from a cache when it is there; a customer that       *)
(* cannot be resolved is given 50.  A failed update is only logged; the    *)
(* cache is emptied either way.                                            *)
(*                                                                         *)
(* A payment is its set of flags; the blacklist is the code's four email   *)
(* patterns (a customer's isBlacklisted is never read).                    *)
(***************************************************************************)
EXTENDS Integers, FiniteSets, FiniteSetsExt

CONSTANTS Screeners, Customers,
          Payments,             \* the sets of flags that occur
          HighRisk              \* the merchant's threshold for a review

VARIABLES stored,    \* stored[c]: the score the merchant service keeps
          profile,   \* profile[c]: the score in the cached profile, or NoProfile
          screening, \* screening[s]: the analysis s is in the middle of
          declined,  \* customers an analysis has declined since they were last disturbed
          lapsed     \* the customers an analysis did not decline although they were declined before

fraudVars == <<stored, profile, screening, declined, lapsed>>

\* performFraudAnalysis and its helpers, then analyzeSpendingPattern and analyzeIPRisk.
Points ==
  [overLimit |-> 20, farAboveAverage |-> 15, velocity |-> 25, firstTime |-> 10, failing |-> 20,
   emulator |-> 30, vpn |-> 15, incognito |-> 10, crypto |-> 20, prepaid |-> 15, nightly |-> 10]
SpendingPoints == [tenfold |-> 30, tiny |-> 15, weekendNight |-> 12]
IpPoints       == [maliciousIp |-> 50, proxyIp |-> 25, elsewhere |-> 15]
\* Of a group of alternatives only the first in the code counts.
Outranked ==
  [vpn |-> {"emulator"}, incognito |-> {"emulator", "vpn"}, tiny |-> {"tenfold"},
   weekendNight |-> {"tenfold", "tiny"}, proxyIp |-> {"maliciousIp"}, elsewhere |-> {"maliciousIp", "proxyIp"}]
\* The amounts of a history are added as the strings they are read as: with two or more payments the
\* average is no number and no comparison with it holds.
NeedsAverage == {"farAboveAverage", "tenfold", "tiny"}
Counted(flags, history) ==
  {f \in flags : /\ f \in DOMAIN Outranked => Outranked[f] \cap flags = {}
                 /\ f \in NeedsAverage => history = 1}
AtMost100(n) == IF n > 100 THEN 100 ELSE n
PointsIn(table, flags) == MapThenSumSet(LAMBDA f : table[f], flags \cap DOMAIN table)

\* A stored score of 0 counts as 50.
Base(score) == IF score = 0 THEN 50 ELSE score
BasicScore(score, flags) == AtMost100(Base(score) + PointsIn(Points, flags))
EnhancedScore(score, flags) ==
  IF "blacklisted" \in flags THEN 100
  ELSE AtMost100(BasicScore(score, flags) + PointsIn(SpendingPoints, flags) + PointsIn(IpPoints, flags))
\* The verdict of the basic analysis is dropped.
Recommendation(score, flags) ==
  IF "blacklisted" \in flags \/ score >= 90 THEN "decline" ELSE IF score >= HighRisk THEN "review" ELSE "approve"

----------------------------------------------------------------------------
NoProfile == -1
Quiet     == [at |-> "idle"]

ScreeningInit ==
  /\ stored = [c \in Customers |-> 0]
  /\ profile = [c \in Customers |-> NoProfile]
  /\ screening = [s \in Screeners |-> Quiet]
  /\ declined = {} /\ lapsed = {}

At(s, step) == screening[s].at = step
To(s, r)    == screening' = [screening EXCEPT ![s] = r]
InFlight(c) == {s \in Screeners : screening[s] # Quiet /\ screening[s].customer = c}
Disturb(c)  == declined' = declined \ {c}

\* getCustomerProfile looks into the cache.  A history that cannot be read counts as none, and a velocity that
\* cannot be counted raises no flag.
ScreenBegin(s, c, payment, history) ==
  /\ At(s, "idle")
  /\ LET flags == Counted(payment, history)
         next  == IF profile[c] = NoProfile THEN "resolve" ELSE "score"
     IN To(s, [at |-> next, customer |-> c, flags |-> flags, score |-> profile[c]])
  /\ IF InFlight(c) = {} THEN UNCHANGED declined ELSE Disturb(c)
  /\ UNCHANGED <<stored, profile, lapsed>>

\* The merchant service answers with the customer, whose profile is cached ...
Resolve(s) ==
  /\ At(s, "resolve")
  /\ LET c == screening[s].customer IN
       \/ To(s, [screening[s] EXCEPT !.at = "keep", !.score = stored[c]]) /\ UNCHANGED declined
       \* ... or does not, and the minimal profile is used and not cached.
       \/ To(s, [screening[s] EXCEPT !.at = "score", !.score = 50]) /\ Disturb(c)
  /\ UNCHANGED <<stored, profile, lapsed>>
KeepProfile(s) ==
  /\ At(s, "keep")
  /\ profile' = [profile EXCEPT ![screening[s].customer] = screening[s].score]
  /\ To(s, [screening[s] EXCEPT !.at = "score"])
  /\ UNCHANGED <<stored, declined, lapsed>>

\* The analysis, and updateCustomerRiskScore, whose failure is swallowed.
ScoreCustomer(s) ==
  /\ At(s, "score")
  /\ LET c     == screening[s].customer
         score == EnhancedScore(screening[s].score, screening[s].flags)
         step  == [screening[s] EXCEPT !.at = "drop", !.score = score]
     IN \/ stored' = [stored EXCEPT ![c] = score] /\ To(s, step) /\ UNCHANGED declined
        \/ UNCHANGED stored /\ To(s, step) /\ Disturb(c)
  /\ UNCHANGED <<profile, lapsed>>

Conclude(s) ==
  LET c == screening[s].customer
      verdict == Recommendation(screening[s].score, screening[s].flags)
  IN /\ lapsed' = IF c \in declined /\ verdict # "decline" THEN lapsed \cup {c} ELSE lapsed
     /\ declined' = IF verdict = "decline" /\ InFlight(c) = {s} /\ Base(stored[c]) >= 90
                    THEN declined \cup {c} ELSE declined
     /\ To(s, Quiet)
\* Variant: the cached profile is left to expire.
DropProfileLater(s) == At(s, "drop") /\ Conclude(s) /\ UNCHANGED <<stored, profile>>
DropProfile(s) ==
  /\ At(s, "drop")
  /\ profile' = [profile EXCEPT ![screening[s].customer] = NoProfile]
  /\ Conclude(s)
  /\ UNCHANGED stored

\* What is missing throws (settings without thresholds, a payment without details): the answer is a review, and
\* nothing is stored.
AnalysisFails(s) ==
  /\ At(s, "score")
  /\ To(s, Quiet)
  /\ UNCHANGED <<stored, profile, declined, lapsed>>

\* The cached profile expires.
ProfileExpires(c) ==
  /\ profile[c] # NoProfile
  /\ profile' = [profile EXCEPT ![c] = NoProfile]
  /\ UNCHANGED <<stored, screening, declined, lapsed>>

ScreeningNext ==
  \/ \E s \in Screeners, c \in Customers, payment \in Payments, history \in 0 .. 2 :
       ScreenBegin(s, c, payment, history)
  \/ \E s \in Screeners : Resolve(s) \/ KeepProfile(s) \/ ScoreCustomer(s) \/ DropProfile(s) \/ AnalysisFails(s)
  \/ \E c \in Customers : ProfileExpires(c)

ScreeningSpec == ScreeningInit /\ [][ScreeningNext]_fraudVars
----------------------------------------------------------------------------
\* Scores only climb: a customer once declined is declined by every analysis that comes to its end,
\* whatever the next payment is, as long as the analyses of the customer do not overlap, the customer
\* is resolved and the score is saved.  Each of the three (two reads of one score, a profile that falls
\* back to 50, an update that is only logged) may bring a declined customer back.
DeclinedForGood == lapsed = {}
=============================================================================
