---------------------------- MODULE MerchantProofs ----------------------------
(***************************************************************************)
(* Theorems about the services that face the merchant: the screening of    *)
(* customers, batches of payouts, settlements, the metrics of the          *)
(* providers and dashboards, for all values of the constants.              *)
(***************************************************************************)
EXTENDS FraudScreening, Batches, Settlements, Monitoring, Dashboards, DataTheorems, SequenceTheorems

(***************************************************************************)
(* Screening, for any number of customers, screeners and payments.         *)
(*                                                                         *)
(* A customer who was declined has a high score wherever a score is still  *)
(* known: in the store, in the profile that is cached, and in every        *)
(* analysis under way that has read one (DeclinedAreHigh).                 *)
(***************************************************************************)
Scores    == 0 .. 100
Analyses  == [at : {"resolve", "keep", "score", "drop"}, customer : Customers, flags : SUBSET UNION Payments,
              score : Scores \cup {NoProfile}]
ScreeningTypeOK ==
  /\ stored \in [Customers -> Scores] /\ profile \in [Customers -> Scores \cup {NoProfile}]
  /\ screening \in [Screeners -> Analyses \cup {Quiet}]
  /\ \A s \in Screeners : screening[s] # Quiet /\ screening[s].at # "resolve" => screening[s].score \in Scores
High(score) == score >= 90
\* Everything that still knows a declined customer's score knows a high one.
DeclinedAreHigh ==
  \A c \in Customers : c \in declined =>
    /\ High(stored[c]) /\ (profile[c] = NoProfile \/ High(profile[c]))
    /\ \A s \in Screeners : screening[s] # Quiet /\ screening[s].customer = c =>
         screening[s].at = "resolve" \/ High(screening[s].score)
ScreeningInv == ScreeningTypeOK /\ DeclinedForGood /\ DeclinedAreHigh

----------------------------------------------------------------------------
\* The points a set of flags earns are a number, whatever flags the payments carry.
LEMMA PointsType ==
  ASSUME NEW points, IsFiniteSet(DOMAIN points), \A f \in DOMAIN points : points[f] \in Nat, NEW flags
  PROVE  PointsIn(points, flags) \in Nat
<1>1. IsFiniteSet(flags \cap DOMAIN points)
  BY FS_Subset
<1>2. SumOver(points, flags \cap DOMAIN points) \in Nat
  BY <1>1, SumType
<1> QED
  BY <1>2, Zenon DEF PointsIn, SumOver

LEMMA TablesOfPoints ==
  /\ IsFiniteSet(DOMAIN Points) /\ \A f \in DOMAIN Points : Points[f] \in Nat
  /\ IsFiniteSet(DOMAIN SpendingPoints) /\ \A f \in DOMAIN SpendingPoints : SpendingPoints[f] \in Nat
  /\ IsFiniteSet(DOMAIN IpPoints) /\ \A f \in DOMAIN IpPoints : IpPoints[f] \in Nat
<1>1. /\ DOMAIN Points = {"overLimit", "farAboveAverage", "velocity", "firstTime", "failing", "emulator", "vpn",
                          "incognito", "crypto", "prepaid", "nightly"}
      /\ \A f \in DOMAIN Points : Points[f] \in Nat
  BY DEF Points
<1>2. /\ DOMAIN SpendingPoints = {"tenfold", "tiny", "weekendNight"}
      /\ \A f \in DOMAIN SpendingPoints : SpendingPoints[f] \in Nat
  BY DEF SpendingPoints
<1>3. /\ DOMAIN IpPoints = {"maliciousIp", "proxyIp", "elsewhere"}
      /\ \A f \in DOMAIN IpPoints : IpPoints[f] \in Nat
  BY DEF IpPoints
<1>4. ASSUME NEW S, IsFiniteSet(S), NEW x PROVE IsFiniteSet(S \cup {x})
  BY <1>4, FS_AddElement
<1>5. \A x, y, z : IsFiniteSet({x, y, z})
  <2> TAKE x, y, z
  <2>1. IsFiniteSet({x}) /\ IsFiniteSet({x} \cup {y})
    BY <1>4, FS_Singleton
  <2>2. IsFiniteSet(({x} \cup {y}) \cup {z}) /\ ({x} \cup {y}) \cup {z} = {x, y, z}
    BY <1>4, <2>1
  <2> QED
    BY <2>2
<1>6. IsFiniteSet(DOMAIN Points)
  <2> DEFINE A == {"overLimit", "farAboveAverage", "velocity"}
             B == {"firstTime", "failing", "emulator"}
             C == {"vpn", "incognito", "crypto"}
             D == {"prepaid", "nightly"}
  <2>1. IsFiniteSet(A) /\ IsFiniteSet(B) /\ IsFiniteSet(C) /\ IsFiniteSet({"prepaid", "nightly", "nightly"})
    BY <1>5
  <2>2. {"prepaid", "nightly", "nightly"} = D
    OBVIOUS
  <2>3. DOMAIN Points = ((A \cup B) \cup C) \cup D
    BY <1>1
  <2>4. IsFiniteSet(A \cup B)
    BY <2>1, FS_Union
  <2> HIDE DEF A, B, C, D
  <2>5. IsFiniteSet((A \cup B) \cup C)
    BY <2>1, <2>4, FS_Union
  <2>6. IsFiniteSet(((A \cup B) \cup C) \cup D)
    BY <2>1, <2>2, <2>5, FS_Union
  <2> QED
    BY <2>3, <2>6
<1>7. IsFiniteSet(DOMAIN SpendingPoints)
  <2>1. IsFiniteSet({"tenfold", "tiny", "weekendNight"})
    BY <1>5
  <2> QED
    BY <1>2, <2>1, Zenon
<1>8. IsFiniteSet(DOMAIN IpPoints)
  <2>1. IsFiniteSet({"maliciousIp", "proxyIp", "elsewhere"})
    BY <1>5
  <2> QED
    BY <1>3, <2>1, Zenon
<1> QED
  BY <1>1, <1>2, <1>3, <1>6, <1>7, <1>8, Zenon

\* An analysis never lowers a score (it may cap it at 100).
LEMMA ScoresClimb ==
  ASSUME NEW score \in Scores, NEW flags
  PROVE  EnhancedScore(score, flags) \in Scores /\ (High(score) => High(EnhancedScore(score, flags)))
<1> DEFINE a == PointsIn(Points, flags)
           b == PointsIn(SpendingPoints, flags)
           c == PointsIn(IpPoints, flags)
<1>1. a \in Nat /\ b \in Nat /\ c \in Nat
  BY PointsType, TablesOfPoints
<1> HIDE DEF a, b, c
<1>2. EnhancedScore(score, flags) =
        IF "blacklisted" \in flags THEN 100 ELSE AtMost100(AtMost100(Base(score) + a) + b + c)
  BY DEF EnhancedScore, BasicScore, a, b, c
<1>3. AtMost100(AtMost100(Base(score) + a) + b + c) \in Scores
  BY <1>1 DEF Scores, AtMost100, Base
<1>4. High(score) => High(AtMost100(AtMost100(Base(score) + a) + b + c))
  BY <1>1 DEF Scores, AtMost100, Base, High
<1> QED
  BY <1>2, <1>3, <1>4 DEF Scores, High

----------------------------------------------------------------------------
LEMMA ScreeningStarts == ScreeningInit => ScreeningInv
BY DEF ScreeningInit, ScreeningInv, ScreeningTypeOK, DeclinedForGood, DeclinedAreHigh, Scores, Quiet

\* A step that changes one analysis and no score of its customer but as given.
LEMMA ScreenBeginKeeps ==
  ASSUME ScreeningInv, NEW s \in Screeners, NEW c \in Customers, NEW payment \in Payments,
         NEW history \in 0 .. 2, ScreenBegin(s, c, payment, history)
  PROVE  ScreeningInv'
<1> DEFINE flags == Counted(payment, history)
           next  == IF profile[c] = NoProfile THEN "resolve" ELSE "score"
           begun == [at |-> next, customer |-> c, flags |-> flags, score |-> profile[c]]
<1>1. /\ screening' = [screening EXCEPT ![s] = begun] /\ screening[s].at = "idle"
      /\ UNCHANGED stored /\ UNCHANGED profile /\ UNCHANGED lapsed
      /\ declined' = IF InFlight(c) = {} THEN declined ELSE declined \ {c}
  BY DEF ScreenBegin, At, To, Disturb
<1>2. flags \in SUBSET UNION Payments
  BY DEF Counted
<1> HIDE DEF flags
<1>3. begun \in Analyses /\ begun.customer = c /\ begun.score = profile[c] /\ begun.at = next
  BY <1>2 DEF Analyses, ScreeningInv, ScreeningTypeOK
<1>4. begun.at # "resolve" => begun.score \in Scores
  BY <1>3 DEF ScreeningInv, ScreeningTypeOK
<1>5. begun.at = "resolve" <=> profile[c] = NoProfile
  BY <1>3
<1> HIDE DEF begun, next
<1>6. ScreeningTypeOK'
  BY <1>1, <1>3, <1>4 DEF ScreeningInv, ScreeningTypeOK
<1>7. DeclinedAreHigh'
  <2>1. ASSUME NEW d \in Customers, d \in declined' PROVE d \in declined
    BY <1>1, <2>1
  <2>2. ASSUME NEW d \in Customers, d \in declined', NEW u \in Screeners,
               screening'[u] # Quiet, screening'[u].customer = d
        PROVE  screening'[u].at = "resolve" \/ High(screening'[u].score)
    <3>1. CASE u = s
      <4>1. screening'[u] = begun /\ d = c
        BY <1>1, <1>3, <2>2, <3>1 DEF ScreeningInv, ScreeningTypeOK
      <4>2. profile[c] = NoProfile \/ High(profile[c])
        BY <2>1, <2>2, <4>1 DEF ScreeningInv, DeclinedAreHigh
      <4> QED
        BY <1>3, <1>5, <4>1, <4>2
    <3>2. CASE u # s
      <4>1. screening'[u] = screening[u]
        BY <1>1, <3>2 DEF ScreeningInv, ScreeningTypeOK
      <4> QED
        BY <2>1, <2>2, <4>1 DEF ScreeningInv, DeclinedAreHigh
    <3> QED
      BY <3>1, <3>2
  <2> QED
    BY <1>1, <2>1, <2>2 DEF ScreeningInv, DeclinedAreHigh
<1> QED
  BY <1>1, <1>6, <1>7 DEF ScreeningInv, DeclinedForGood

\* An analysis that moves on to step r, with the customer's scores as they are then, keeps the invariant when
\* r knows a high score of a declined customer.
LEMMA StepKeeps ==
  ASSUME ScreeningInv, NEW s \in Screeners, NEW c \in Customers, NEW r \in Analyses \cup {Quiet},
         screening[s] # Quiet, screening[s].customer = c,
         screening' = [screening EXCEPT ![s] = r], UNCHANGED lapsed, declined' \in SUBSET declined,
         NEW n \in Scores, NEW p \in Scores \cup {NoProfile},
         stored' = [stored EXCEPT ![c] = n], profile' = [profile EXCEPT ![c] = p],
         r # Quiet => r.customer = c /\ (r.at # "resolve" => r.score \in Scores),
         c \in declined' =>
           High(n) /\ (p = NoProfile \/ High(p)) /\ (r # Quiet => r.at = "resolve" \/ High(r.score))
  PROVE  ScreeningInv'
<1>1. ScreeningTypeOK'
  BY DEF ScreeningInv, ScreeningTypeOK
<1>2. DeclinedAreHigh'
  <2>1. ASSUME NEW d \in Customers, d \in declined'
        PROVE  High(stored'[d]) /\ (profile'[d] = NoProfile \/ High(profile'[d]))
    <3>1. High(stored[d]) /\ (profile[d] = NoProfile \/ High(profile[d]))
      BY <2>1 DEF ScreeningInv, DeclinedAreHigh
    <3>2. stored'[d] = IF d = c THEN n ELSE stored[d]
      BY DEF ScreeningInv, ScreeningTypeOK
    <3>3. profile'[d] = IF d = c THEN p ELSE profile[d]
      BY DEF ScreeningInv, ScreeningTypeOK
    <3> QED
      BY <2>1, <3>1, <3>2, <3>3
  <2>2. ASSUME NEW d \in Customers, d \in declined', NEW u \in Screeners,
               screening'[u] # Quiet, screening'[u].customer = d
        PROVE  screening'[u].at = "resolve" \/ High(screening'[u].score)
    <3>1. screening'[u] = IF u = s THEN r ELSE screening[u]
      BY DEF ScreeningInv, ScreeningTypeOK
    <3>2. CASE u = s
      BY <2>2, <3>1, <3>2
    <3>3. CASE u # s
      <4>1. d \in declined /\ screening[u] # Quiet /\ screening[u].customer = d
        BY <2>2, <3>1, <3>3
      <4>2. screening[u].at = "resolve" \/ High(screening[u].score)
        BY <4>1 DEF ScreeningInv, DeclinedAreHigh
      <4> QED
        BY <3>1, <3>3, <4>2
    <3> QED
      BY <3>2, <3>3
  <2> QED
    BY <2>1, <2>2 DEF DeclinedAreHigh
<1> QED
  BY <1>1, <1>2 DEF ScreeningInv, DeclinedForGood

LEMMA ResolveKeeps == ASSUME ScreeningInv, NEW s \in Screeners, Resolve(s) PROVE ScreeningInv'
<1>1. screening[s] \in Analyses /\ screening[s].at = "resolve" /\ screening[s] # Quiet
  BY DEF Resolve, At, ScreeningInv, ScreeningTypeOK, Quiet
<1> DEFINE c == screening[s].customer
           kept == [screening[s] EXCEPT !.at = "keep", !.score = stored[c]]
           poor == [screening[s] EXCEPT !.at = "score", !.score = 50]
<1>2. c \in Customers /\ stored[c] \in Scores /\ profile[c] \in Scores \cup {NoProfile}
  BY <1>1 DEF Analyses, ScreeningInv, ScreeningTypeOK
<1>3. /\ kept \in Analyses /\ kept # Quiet /\ kept.customer = c /\ kept.at = "keep" /\ kept.score = stored[c]
      /\ poor \in Analyses /\ poor # Quiet /\ poor.customer = c /\ poor.at = "score" /\ poor.score = 50
  <2> DEFINE n == stored[c]
  <2>1. n \in Scores /\ 50 \in Scores
    BY <1>2 DEF Scores
  <2> HIDE DEF n
  <2>2. kept \in Analyses /\ kept # Quiet /\ kept.customer = c /\ kept.at = "keep" /\ kept.score = n
    <3>1. kept = [screening[s] EXCEPT !.at = "keep", !.score = n]
      BY DEF n
    <3> HIDE DEF kept
    <3> QED
      BY <1>1, <1>2, <2>1, <3>1 DEF Analyses, Quiet
  <2>3. poor \in Analyses /\ poor # Quiet /\ poor.customer = c /\ poor.at = "score" /\ poor.score = 50
    BY <1>1, <1>2, <2>1 DEF Analyses, Quiet
  <2> QED
    BY <2>2, <2>3 DEF n
<1>4. /\ UNCHANGED lapsed
      /\ stored' = [stored EXCEPT ![c] = stored[c]] /\ profile' = [profile EXCEPT ![c] = profile[c]]
  BY DEF Resolve, ScreeningInv, ScreeningTypeOK
<1>5. \/ screening' = [screening EXCEPT ![s] = kept] /\ UNCHANGED declined
      \/ screening' = [screening EXCEPT ![s] = poor] /\ declined' = declined \ {c}
  BY DEF Resolve, To, Disturb
<1>6. c \in declined => High(stored[c]) /\ (profile[c] = NoProfile \/ High(profile[c]))
  BY <1>2 DEF ScreeningInv, DeclinedAreHigh
<1>7. 50 \in Scores
  BY DEF Scores
<1> HIDE DEF kept, poor, c
<1>8. CASE screening' = [screening EXCEPT ![s] = kept] /\ UNCHANGED declined
  <2>1. c \in declined' => c \in declined
    BY <1>8
  <2> QED
    BY <1>1, <1>2, <1>3, <1>4, <1>6, <1>8, <2>1, StepKeeps, ZenonT(30) DEF c
<1>9. CASE screening' = [screening EXCEPT ![s] = poor] /\ declined' = declined \ {c}
  <2>1. c \notin declined' /\ declined' \in SUBSET declined
    BY <1>9
  <2> QED
    BY <1>1, <1>2, <1>3, <1>4, <1>7, <1>9, <2>1, StepKeeps, ZenonT(30) DEF c
<1> QED
  BY <1>5, <1>8, <1>9

LEMMA KeepProfileKeeps == ASSUME ScreeningInv, NEW s \in Screeners, KeepProfile(s) PROVE ScreeningInv'
<1>1. screening[s] \in Analyses /\ screening[s].at = "keep" /\ screening[s] # Quiet
  BY DEF KeepProfile, At, ScreeningInv, ScreeningTypeOK, Quiet
<1> DEFINE c == screening[s].customer
           r == [screening[s] EXCEPT !.at = "score"]
<1>2. c \in Customers /\ stored[c] \in Scores /\ screening[s].score \in Scores
  BY <1>1 DEF Analyses, ScreeningInv, ScreeningTypeOK
<1>3. r \in Analyses /\ r # Quiet /\ r.customer = c /\ r.score = screening[s].score
  BY <1>1, <1>2 DEF Analyses, Quiet, Scores
<1>4. /\ UNCHANGED lapsed /\ UNCHANGED declined /\ screening' = [screening EXCEPT ![s] = r]
      /\ stored' = [stored EXCEPT ![c] = stored[c]] /\ profile' = [profile EXCEPT ![c] = screening[s].score]
  BY DEF KeepProfile, To, ScreeningInv, ScreeningTypeOK
<1>5. c \in declined' => High(stored[c]) /\ High(screening[s].score)
  BY <1>1, <1>2, <1>4 DEF ScreeningInv, DeclinedAreHigh
<1> HIDE DEF r, c
<1> QED
  BY <1>1, <1>2, <1>3, <1>4, <1>5, StepKeeps DEF c

LEMMA ScoreCustomerKeeps == ASSUME ScreeningInv, NEW s \in Screeners, ScoreCustomer(s) PROVE ScreeningInv'
<1>1. screening[s] \in Analyses /\ screening[s].at = "score" /\ screening[s] # Quiet
  BY DEF ScoreCustomer, At, ScreeningInv, ScreeningTypeOK, Quiet
<1> DEFINE c == screening[s].customer
           n == EnhancedScore(screening[s].score, screening[s].flags)
           r == [screening[s] EXCEPT !.at = "drop", !.score = n]
<1>2. /\ c \in Customers /\ stored[c] \in Scores /\ screening[s].score \in Scores
      /\ profile[c] \in Scores \cup {NoProfile}
  BY <1>1 DEF Analyses, ScreeningInv, ScreeningTypeOK
<1>3. n \in Scores /\ (High(screening[s].score) => High(n))
  BY <1>2, ScoresClimb
<1>4. /\ UNCHANGED lapsed /\ screening' = [screening EXCEPT ![s] = r]
      /\ profile' = [profile EXCEPT ![c] = profile[c]]
      /\ \/ stored' = [stored EXCEPT ![c] = n] /\ UNCHANGED declined
         \/ UNCHANGED stored /\ declined' = declined \ {c}
  BY DEF ScoreCustomer, To, Disturb, ScreeningInv, ScreeningTypeOK
<1> HIDE DEF n
<1>5. r \in Analyses /\ r # Quiet /\ r.customer = c /\ r.score = n
  BY <1>1, <1>2, <1>3 DEF Analyses, Quiet, Scores
<1>6. c \in declined => (profile[c] = NoProfile \/ High(profile[c])) /\ High(n)
  BY <1>1, <1>2, <1>3 DEF ScreeningInv, DeclinedAreHigh
<1> HIDE DEF r, c
<1>7. CASE stored' = [stored EXCEPT ![c] = n] /\ UNCHANGED declined
  <2>1. c \in declined' => c \in declined
    BY <1>7
  <2> QED
    BY <1>1, <1>2, <1>3, <1>4, <1>5, <1>6, <1>7, <2>1, StepKeeps DEF c
<1>8. CASE UNCHANGED stored /\ declined' = declined \ {c}
  <2>1. c \notin declined' /\ declined' \in SUBSET declined
    BY <1>8
  <2>2. stored' = [stored EXCEPT ![c] = stored[c]]
    BY <1>8 DEF ScreeningInv, ScreeningTypeOK
  <2> QED
    BY <1>1, <1>2, <1>3, <1>4, <1>5, <2>1, <2>2, StepKeeps DEF c
<1> QED
  BY <1>4, <1>7, <1>8

LEMMA AnalysisFailsKeeps == ASSUME ScreeningInv, NEW s \in Screeners, AnalysisFails(s) PROVE ScreeningInv'
<1>1. screening[s] \in Analyses /\ screening[s] # Quiet
  BY DEF AnalysisFails, At, ScreeningInv, ScreeningTypeOK, Quiet
<1> DEFINE c == screening[s].customer
<1>2. c \in Customers /\ stored[c] \in Scores /\ profile[c] \in Scores \cup {NoProfile}
  BY <1>1 DEF Analyses, ScreeningInv, ScreeningTypeOK
<1>3. /\ UNCHANGED lapsed /\ UNCHANGED declined /\ screening' = [screening EXCEPT ![s] = Quiet]
      /\ stored' = [stored EXCEPT ![c] = stored[c]] /\ profile' = [profile EXCEPT ![c] = profile[c]]
  BY DEF AnalysisFails, To, ScreeningInv, ScreeningTypeOK
<1>4. c \in declined' => High(stored[c]) /\ (profile[c] = NoProfile \/ High(profile[c]))
  BY <1>2, <1>3 DEF ScreeningInv, DeclinedAreHigh
<1> HIDE DEF c
<1> QED
  BY <1>1, <1>2, <1>3, <1>4, StepKeeps DEF c

LEMMA ProfileExpiresKeeps == ASSUME ScreeningInv, NEW c \in Customers, ProfileExpires(c) PROVE ScreeningInv'
<1>1. /\ profile' = [profile EXCEPT ![c] = NoProfile]
      /\ UNCHANGED stored /\ UNCHANGED screening /\ UNCHANGED declined /\ UNCHANGED lapsed
  BY DEF ProfileExpires
<1>2. ScreeningTypeOK'
  BY <1>1 DEF ScreeningInv, ScreeningTypeOK
<1>3. \A d \in Customers : profile'[d] = IF d = c THEN NoProfile ELSE profile[d]
  BY <1>1 DEF ScreeningInv, ScreeningTypeOK
<1>4. DeclinedAreHigh'
  BY <1>1, <1>3 DEF ScreeningInv, DeclinedAreHigh
<1> QED
  BY <1>1, <1>2, <1>4 DEF ScreeningInv, DeclinedForGood

LEMMA DropProfileKeeps == ASSUME ScreeningInv, NEW s \in Screeners, DropProfile(s) PROVE ScreeningInv'
<1>1. screening[s] \in Analyses /\ screening[s].at = "drop" /\ screening[s] # Quiet
  BY DEF DropProfile, At, ScreeningInv, ScreeningTypeOK, Quiet
<1> DEFINE c == screening[s].customer
           verdict == Recommendation(screening[s].score, screening[s].flags)
<1>2. c \in Customers /\ stored[c] \in Scores /\ profile[c] \in Scores \cup {NoProfile}
  BY <1>1 DEF Analyses, ScreeningInv, ScreeningTypeOK
<1>3. /\ UNCHANGED stored /\ profile' = [profile EXCEPT ![c] = NoProfile]
      /\ screening' = [screening EXCEPT ![s] = Quiet]
      /\ lapsed' = IF c \in declined /\ verdict # "decline" THEN lapsed \cup {c} ELSE lapsed
      /\ declined' = IF verdict = "decline" /\ InFlight(c) = {s} /\ Base(stored[c]) >= 90
                     THEN declined \cup {c} ELSE declined
  BY DEF DropProfile, Conclude, To
<1>4. c \in declined => verdict = "decline"
  <2>1. c \in declined => High(screening[s].score)
    BY <1>1, <1>2 DEF ScreeningInv, DeclinedAreHigh
  <2> QED
    BY <2>1 DEF High, Recommendation
<1> HIDE DEF verdict
<1>5. lapsed' = lapsed
  BY <1>3, <1>4
<1>6. stored' = [stored EXCEPT ![c] = stored[c]]
  BY <1>3 DEF ScreeningInv, ScreeningTypeOK
<1>7. CASE declined' = declined
  <2>1. c \in declined' => High(stored[c])
    BY <1>2, <1>7 DEF ScreeningInv, DeclinedAreHigh
  <2> HIDE DEF c
  <2> QED
    BY <1>1, <1>2, <1>3, <1>5, <1>6, <1>7, <2>1, StepKeeps DEF c
<1>8. CASE declined' = declined \cup {c} /\ InFlight(c) = {s} /\ Base(stored[c]) >= 90
  <2>1. ScreeningTypeOK'
    BY <1>2, <1>3 DEF ScreeningInv, ScreeningTypeOK
  <2>2. High(stored[c])
    BY <1>2, <1>8 DEF Base, High, Scores
  <2>3. ASSUME NEW d \in Customers, d \in declined'
        PROVE  High(stored'[d]) /\ (profile'[d] = NoProfile \/ High(profile'[d]))
    <3>1. CASE d = c
      BY <1>3, <2>2, <3>1 DEF ScreeningInv, ScreeningTypeOK
    <3>2. CASE d # c
      <4>1. d \in declined
        BY <1>8, <2>3, <3>2
      <4> QED
        BY <1>3, <3>2, <4>1 DEF ScreeningInv, ScreeningTypeOK, DeclinedAreHigh
    <3> QED
      BY <3>1, <3>2
  <2>4. ASSUME NEW d \in Customers, d \in declined', NEW u \in Screeners,
               screening'[u] # Quiet, screening'[u].customer = d
        PROVE  screening'[u].at = "resolve" \/ High(screening'[u].score)
    <3>1. u # s /\ screening'[u] = screening[u]
      BY <1>3, <2>4 DEF ScreeningInv, ScreeningTypeOK
    <3>2. d # c
      BY <1>8, <2>4, <3>1 DEF InFlight
    <3>3. d \in declined
      BY <1>8, <2>4, <3>2
    <3> QED
      BY <2>4, <3>1, <3>3 DEF ScreeningInv, DeclinedAreHigh
  <2> QED
    BY <1>5, <2>1, <2>3, <2>4 DEF ScreeningInv, DeclinedForGood, DeclinedAreHigh
<1> QED
  BY <1>3, <1>7, <1>8

\* A customer an undisturbed analysis has declined is declined for good, whatever the merchant's threshold, the
\* flags of the payments and the number of analyses at once (performEnhancedFraudAnalysis).
THEOREM DeclinedCustomersStayDeclined == ScreeningSpec => []DeclinedForGood
<1>1. ScreeningInit => ScreeningInv
  BY ScreeningStarts
<1>2. ScreeningInv /\ [ScreeningNext]_fraudVars => ScreeningInv'
  <2> SUFFICES ASSUME ScreeningInv, [ScreeningNext]_fraudVars PROVE ScreeningInv'
    OBVIOUS
  <2>1. CASE UNCHANGED fraudVars
    BY <2>1 DEF fraudVars, ScreeningInv, ScreeningTypeOK, DeclinedForGood, DeclinedAreHigh
  <2>2. CASE ScreeningNext
    BY <2>2, ScreenBeginKeeps, ResolveKeeps, KeepProfileKeeps, ScoreCustomerKeeps, DropProfileKeeps,
       AnalysisFailsKeeps, ProfileExpiresKeeps DEF ScreeningNext
  <2> QED
    BY <2>1, <2>2
<1>3. ScreeningInv => DeclinedForGood
  BY DEF ScreeningInv
<1> QED
  BY <1>1, <1>2, <1>3, PTL DEF ScreeningSpec

----------------------------------------------------------------------------
(***************************************************************************)
(* Batches, for any number of batches and confirmations at once.           *)
(*                                                                         *)
(* What is blocked covers the payouts filed, those about to be filed and   *)
(* the fees of every block (CoveredOK).  Each block but one has a failed   *)
(* confirmation as its cause, which bounds them by the confirmations that  *)
(* failed (BlocksOK).                                                      *)
(***************************************************************************)
Stages       == {"block", "file", "mark"}
BatchTable   == [status : {"validated", "processing"}, rows : Files, count : Nat, total : Nat, fees : Nat,
                 debited : Nat, pending : Nat]
Confirms     == [at : Stages, batch : BatchIds, read : BatchTable]
BatchTypeOK ==
  /\ batch \in [BatchIds -> BatchTable \cup {NoBatch}]
  /\ confirm \in [Confirmers -> Confirms \cup {Waiting}]
  /\ blocks \in [BatchIds -> Seq(Nat)] /\ payouts \in [BatchIds -> Seq(Nat)]
  /\ failed \in [BatchIds -> 0 .. MaxConfirms]

\* What a batch says of its file as long as it holds the rows.
FiledRight(r) ==
  FileAccepted(r.rows) /\ r.count = Len(r.rows) /\ r.total = AmountOf(r.rows) /\ r.debited = r.total + r.fees
BatchRowsOK ==
  \A b \in BatchIds : batch[b].status = "validated" => FiledRight(batch[b])
Paid(b, count, total) == Len(payouts[b]) >= count /\ SumOf(payouts[b]) >= total
ConfirmsOK ==
  \A c \in Confirmers : confirm[c] # Waiting =>
    LET b == confirm[c].batch
        r == confirm[c].read
    IN /\ batch[b] # NoBatch /\ FiledRight(r)
       /\ r.count = batch[b].count /\ r.total = batch[b].total /\ r.fees = batch[b].fees
       /\ confirm[c].at = "mark" => Paid(b, r.count, r.total)
AtStage(b, stage) == {c \in Confirmers : confirm[c].at = stage /\ confirm[c].batch = b}
\* What is blocked covers the payouts filed, those about to be filed, and the fees of every block.
CoveredOK ==
  \A b \in BatchIds : batch[b] # NoBatch =>
    SumOf(payouts[b]) + Cardinality(AtStage(b, "file")) * batch[b].total + Len(blocks[b]) * batch[b].fees
      <= SumOf(blocks[b])
\* Every block, made or about to be made, has a cause but one; while the batch waits to be confirmed and
\* nobody is at it, that one has a cause as well.
Uncaused(b) == IF batch[b].status = "validated" /\ Confirming(b) = {} THEN 0 ELSE 1
BlocksOK ==
  \A b \in BatchIds :
    /\ Len(blocks[b]) + Cardinality(AtStage(b, "block")) <= MaxConfirms
    /\ failed[b] = MaxConfirms \/ Len(blocks[b]) + Cardinality(AtStage(b, "block")) <= failed[b] + Uncaused(b)
UntouchedOK == \A b \in BatchIds : batch[b] = NoBatch => blocks[b] = << >> /\ payouts[b] = << >>
BatchInv == UntouchedOK /\ BatchTypeOK /\ BatchRowsOK /\ ConfirmsOK /\ CoveredOK /\ BlocksOK /\ ProcessingIsFiled

----------------------------------------------------------------------------
\* Files are sequences of rows, and their amounts sequences of numbers.
LEMMA FilesAreSequences ==
  ASSUME NEW file \in Files
  PROVE  /\ file \in Seq(FileRows) /\ Len(file) \in Nat /\ DOMAIN file = 1 .. Len(file)
         /\ [i \in DOMAIN file |-> file[i].amount] \in Seq(Int)
<1>1. PICK m \in 0 .. MaxFileRows : file \in [1 .. m -> FileRows]
  BY FileAssumption DEF Files, SeqOf
<1>2. file \in Seq(FileRows) /\ Len(file) = m /\ m \in Nat
  BY <1>1
<1>3. \A i \in 1 .. m : file[i].amount \in Int
  BY <1>1, FileAssumption
<1>4. [i \in 1 .. m |-> file[i].amount] \in [1 .. m -> Int]
  BY <1>3
<1>5. DOMAIN file = 1 .. m
  BY <1>1
<1> QED
  BY <1>1, <1>2, <1>4, <1>5

\* The rows of an accepted file ask for something each.
LEMMA AcceptedAmounts ==
  ASSUME NEW file \in Files, FileAccepted(file)
  PROVE  /\ [i \in DOMAIN file |-> file[i].amount] \in Seq(Nat)
         /\ AmountOf(file) \in Nat /\ Len(file) \in Nat /\ file # << >>
<1>1. /\ DOMAIN file = 1 .. Len(file) /\ Len(file) \in Nat
      /\ \A i \in DOMAIN file : file[i].amount \in Int
  <2>1. /\ [i \in DOMAIN file |-> file[i].amount] \in Seq(Int)
        /\ DOMAIN file = 1 .. Len(file) /\ Len(file) \in Nat /\ file \in Seq(FileRows)
    BY FilesAreSequences
  <2>2. \A i \in DOMAIN file : file[i] \in FileRows
    BY <2>1
  <2> QED
    BY <2>1, <2>2, FileAssumption
<1>2. \A i \in DOMAIN file : ~(file[i].amount <= 0)
  BY DEF FileAccepted, SchemaErrors
<1>3. \A i \in DOMAIN file : file[i].amount \in Nat
  BY <1>1, <1>2
<1>4. [i \in DOMAIN file |-> file[i].amount] \in Seq(Nat)
  BY <1>1, <1>3
<1>5. AmountOf(file) \in Nat
  BY <1>4, TotalType, Zenon DEF AmountOf, SumOf, Total
<1>6. Len(file) # 0
  BY DEF FileAccepted
<1> QED
  BY <1>1, <1>4, <1>5, <1>6

\* The sums of the model are those of DataTheorems.
LEMMA SumsOfAmounts ==
  /\ SumOf(<< >>) = 0
  /\ \A s \in Seq(Nat) : SumOf(s) \in Nat
  /\ \A s \in Seq(Nat), t \in Seq(Nat) : SumOf(s \o t) = SumOf(s) + SumOf(t)
  /\ \A s \in Seq(Nat), n \in Nat : SumOf(Append(s, n)) = SumOf(s) + n
<1>1. \A s : SumOf(s) = Total(s)
  BY Zenon DEF SumOf, Total
<1>2. \A s \in Seq(Nat) : s \in Seq(Int)
  OBVIOUS
<1>3. Total(<< >>) = 0
  BY TotalOfNothing
<1>4. \A s \in Seq(Nat) : Total(s) \in Nat
  BY TotalType
<1>5. ASSUME NEW s \in Seq(Nat), NEW t \in Seq(Nat) PROVE Total(s \o t) = Total(s) + Total(t)
  BY <1>2, TotalOfConcat
<1>6. ASSUME NEW s \in Seq(Nat), NEW n \in Nat PROVE Total(Append(s, n)) = Total(s) + n
  <2>1. s \in Seq(Int) /\ n \in Int
    BY <1>2
  <2> QED
    BY <2>1, TotalOfAppend
<1> QED
  BY <1>1, <1>3, <1>4, <1>5, <1>6, Zenon

LEMMA FeesType == ASSUME NEW total \in Nat, NEW count \in Nat PROVE BatchFees(total, count) \in Nat
BY DEF BatchFees

LEMMA OneMore == ASSUME NEW n \in Nat, NEW k \in Nat PROVE (n + 1) * k = n * k + k
OBVIOUS

LEMMA StagesFinite ==
  ASSUME NEW b, NEW stage
  PROVE  /\ IsFiniteSet(AtStage(b, stage)) /\ Cardinality(AtStage(b, stage)) \in Nat
         /\ IsFiniteSet(Confirming(b)) /\ Cardinality(Confirming(b)) \in Nat
<1>1. AtStage(b, stage) \subseteq Confirmers /\ Confirming(b) \subseteq Confirmers
  BY DEF AtStage, Confirming
<1> QED
  BY <1>1, FS_Subset, FS_CardinalityType, ConfirmersAssumption

\* How the numbers of confirmations at a stage change when one of them goes to another, or ends.
LEMMA StageMoved ==
  ASSUME BatchTypeOK, NEW c \in Confirmers, NEW x \in Confirms \cup {Waiting},
         confirm' = [confirm EXCEPT ![c] = x], NEW b \in BatchIds, NEW stage \in Stages
  PROVE  /\ Cardinality(AtStage(b, stage)') \in Nat /\ Cardinality(AtStage(b, stage)) \in Nat
         /\ c \in AtStage(b, stage) /\ c \notin AtStage(b, stage)'
              => Cardinality(AtStage(b, stage)) = Cardinality(AtStage(b, stage)') + 1
         /\ c \notin AtStage(b, stage) /\ c \in AtStage(b, stage)'
              => Cardinality(AtStage(b, stage)') = Cardinality(AtStage(b, stage)) + 1
         /\ (c \in AtStage(b, stage) <=> c \in AtStage(b, stage)')
              => Cardinality(AtStage(b, stage)') = Cardinality(AtStage(b, stage))
<1> DEFINE S == AtStage(b, stage)
           Z == AtStage(b, stage)'
<1>1. \A d \in Confirmers : d # c => confirm'[d] = confirm[d]
  BY DEF BatchTypeOK
<1>2. S \subseteq Confirmers /\ Z \subseteq Confirmers
  BY DEF AtStage
<1>3. \A d \in Confirmers : d # c => (d \in S <=> d \in Z)
  BY <1>1, Zenon DEF AtStage
<1> HIDE DEF S, Z
<1>4. IsFiniteSet(S) /\ IsFiniteSet(Z)
  BY <1>2, FS_Subset, ConfirmersAssumption
<1>5. Cardinality(S) \in Nat /\ Cardinality(Z) \in Nat
  BY <1>4, FS_CardinalityType
<1>6. CASE c \in S /\ c \notin Z
  <2>1. Z = S \ {c}
    BY <1>2, <1>3, <1>6
  <2>2. Cardinality(Z) = Cardinality(S) - 1
    BY <1>4, <1>6, <2>1, FS_RemoveElement
  <2> QED
    BY <1>5, <1>6, <2>2 DEF S, Z
<1>7. CASE c \notin S /\ c \in Z
  <2>1. S = Z \ {c}
    BY <1>2, <1>3, <1>7
  <2>2. Cardinality(S) = Cardinality(Z) - 1
    BY <1>4, <1>7, <2>1, FS_RemoveElement
  <2> QED
    BY <1>5, <1>7, <2>2 DEF S, Z
<1>8. CASE c \in S <=> c \in Z
  <2>1. S = Z
    BY <1>2, <1>3, <1>8
  <2> QED
    BY <1>5, <1>8, <2>1 DEF S, Z
<1> QED
  BY <1>6, <1>7, <1>8

----------------------------------------------------------------------------
LEMMA BatchesStart == BatchesInit => BatchInv
<1> SUFFICES ASSUME BatchesInit PROVE BatchInv
  OBVIOUS
<1>1. BatchTypeOK
  BY ConfirmersAssumption DEF BatchesInit, BatchTypeOK
<1>2. \A b \in BatchIds : batch[b] = NoBatch /\ batch[b].status = "none" /\ blocks[b] = << >> /\ payouts[b] = << >>
  BY DEF BatchesInit, NoBatch
<1>3. \A c \in Confirmers : confirm[c] = Waiting
  BY DEF BatchesInit
<1>4. UntouchedOK /\ BatchRowsOK /\ ConfirmsOK /\ CoveredOK /\ ProcessingIsFiled
  BY <1>2, <1>3 DEF UntouchedOK, BatchRowsOK, ConfirmsOK, CoveredOK, ProcessingIsFiled
<1>5. BlocksOK
  <2>1. ASSUME NEW b \in BatchIds
        PROVE  Len(blocks[b]) = 0 /\ Cardinality(AtStage(b, "block")) = 0 /\ Uncaused(b) = 1 /\ failed[b] = 0
    <3>1. AtStage(b, "block") = {}
      BY <1>3 DEF AtStage, Waiting
    <3> QED
      BY <1>2, <3>1, FS_EmptySet DEF Uncaused, BatchesInit
  <2> QED
    BY <2>1, ConfirmersAssumption DEF BlocksOK
<1> QED
  BY <1>1, <1>4, <1>5 DEF BatchInv

LEMMA UploadKeeps ==
  ASSUME BatchInv, NEW b \in BatchIds, NEW file \in Files, Upload(b, file)
  PROVE  BatchInv'
<1> DEFINE R == [status |-> "validated", rows |-> file, count |-> Len(file), total |-> AmountOf(file),
                 fees |-> BatchFees(AmountOf(file), Len(file)),
                 debited |-> AmountOf(file) + BatchFees(AmountOf(file), Len(file)), pending |-> 0]
<1>1. /\ batch[b] = NoBatch /\ FileAccepted(file) /\ batch' = [batch EXCEPT ![b] = R]
      /\ UNCHANGED <<blocks, payouts, confirm, failed>>
  BY Zenon DEF Upload, Kept
<1>2. AmountOf(file) \in Nat /\ Len(file) \in Nat /\ BatchFees(AmountOf(file), Len(file)) \in Nat
  BY <1>1, AcceptedAmounts, FeesType
<1>3. R \in BatchTable /\ FiledRight(R) /\ R.status = "validated" /\ R # NoBatch
  BY <1>1, <1>2 DEF BatchTable, FiledRight, NoBatch
<1> HIDE DEF R
<1>4. BatchTypeOK /\ UntouchedOK /\ ConfirmsOK /\ BlocksOK /\ CoveredOK /\ BatchRowsOK /\ ProcessingIsFiled
  BY DEF BatchInv
<1>5. batch'[b] = R /\ \A d \in BatchIds : d # b => batch'[d] = batch[d]
  BY <1>1, <1>4 DEF BatchTypeOK
<1>6. BatchTypeOK'
  BY <1>1, <1>3, <1>4 DEF BatchTypeOK
<1>7. ASSUME NEW c \in Confirmers, confirm[c] # Waiting PROVE confirm[c].batch # b /\ confirm[c].batch \in BatchIds
  BY <1>1, <1>4, <1>7 DEF ConfirmsOK, BatchTypeOK, Confirms
<1>8. Confirming(b) = {} /\ \A stage \in Stages : AtStage(b, stage) = {}
  BY <1>7 DEF Confirming, AtStage, Waiting, Stages
<1>9. \A d, stage : AtStage(d, stage)' = AtStage(d, stage) /\ Confirming(d)' = Confirming(d)
  BY <1>1 DEF AtStage, Confirming
<1>10. UntouchedOK' /\ BatchRowsOK'
  BY <1>1, <1>3, <1>4, <1>5 DEF UntouchedOK, BatchRowsOK
<1>11. ConfirmsOK'
  BY <1>1, <1>4, <1>5, <1>7 DEF ConfirmsOK, Paid
<1>12. ASSUME NEW d \in BatchIds, batch'[d] # NoBatch
       PROVE  SumOf(payouts[d]) + Cardinality(AtStage(d, "file")) * batch'[d].total + Len(blocks[d]) * batch'[d].fees
                <= SumOf(blocks[d])
  <2>1. CASE d # b
    BY <1>4, <1>5, <1>12, <2>1 DEF CoveredOK
  <2>2. CASE d = b
    <3>1. SumOf(payouts[b]) = 0 /\ SumOf(blocks[b]) = 0 /\ Len(blocks[b]) = 0
      BY <1>1, <1>4, SumsOfAmounts DEF UntouchedOK
    <3>2. Cardinality(AtStage(b, "file")) = 0
      BY <1>8, FS_EmptySet DEF Stages
    <3>3. R.total \in Nat /\ R.fees \in Nat
      BY <1>3 DEF BatchTable
    <3> QED
      BY <1>5, <2>2, <3>1, <3>2, <3>3
  <2> QED
    BY <2>1, <2>2
<1>13. CoveredOK'
  BY <1>1, <1>9, <1>12 DEF CoveredOK
<1>14. ProcessingIsFiled'
  BY <1>1, <1>3, <1>4, <1>5 DEF ProcessingIsFiled
<1>15. BlocksOK'
  <2>1. ASSUME NEW d \in BatchIds
        PROVE  /\ Len(blocks[d]) + Cardinality(AtStage(d, "block")) <= MaxConfirms
               /\ \/ failed[d] = MaxConfirms
                  \/ Len(blocks[d]) + Cardinality(AtStage(d, "block")) <= failed[d] + Uncaused(d)'
    <3>1. CASE d # b
      BY <1>4, <1>5, <1>9, <3>1 DEF BlocksOK, Uncaused
    <3>2. CASE d = b
      <4>1. Len(blocks[b]) = 0 /\ failed[b] \in Nat
        BY <1>1, <1>4, ConfirmersAssumption DEF UntouchedOK, BatchTypeOK
      <4>3. Cardinality(AtStage(b, "block")) = 0
        BY <1>8, FS_EmptySet DEF Stages
      <4>2. Uncaused(b)' \in {0, 1}
        BY DEF Uncaused
      <4> QED
        BY <3>2, <4>1, <4>2, <4>3, ConfirmersAssumption
    <3> QED
      BY <3>1, <3>2
  <2> QED
    BY <1>1, <1>9, <2>1 DEF BlocksOK
<1> QED
  BY <1>6, <1>10, <1>11, <1>13, <1>14, <1>15 DEF BatchInv

\* A step of a confirmation of b is none of another batch's.
LEMMA OthersStay ==
  ASSUME BatchTypeOK, NEW c \in Confirmers, NEW x \in Confirms \cup {Waiting},
         confirm' = [confirm EXCEPT ![c] = x], NEW b \in BatchIds, NEW d \in BatchIds, d # b,
         confirm[c] # Waiting => confirm[c].batch = b, x # Waiting => x.batch = b
  PROVE  /\ \A stage \in Stages : AtStage(d, stage)' = AtStage(d, stage)
         /\ Confirming(d)' = Confirming(d)
<1>1. \A e \in Confirmers : e # c => confirm'[e] = confirm[e]
  BY DEF BatchTypeOK
<1>2. confirm'[c] = x /\ confirm[c] \in Confirms \cup {Waiting}
  BY DEF BatchTypeOK
<1>3. \A y \in Confirms \cup {Waiting} : y.at # "idle" <=> y # Waiting
  BY DEF Confirms, Waiting, Stages
<1>4. \A y \in Confirms \cup {Waiting} : y.at \in Stages => y # Waiting
  BY DEF Waiting, Stages
<1>5. \A stage \in Stages : c \notin AtStage(d, stage) /\ c \notin AtStage(d, stage)'
  BY <1>2, <1>4 DEF AtStage
<1>6. c \notin Confirming(d) /\ c \notin Confirming(d)'
  BY <1>2, <1>3 DEF Confirming
<1>7. \A e \in Confirmers, stage \in Stages : e # c => (e \in AtStage(d, stage) <=> e \in AtStage(d, stage)')
  BY <1>1, Zenon DEF AtStage
<1>8. \A e \in Confirmers : e # c => (e \in Confirming(d) <=> e \in Confirming(d)')
  BY <1>1, Zenon DEF Confirming
<1>9. Confirming(d) \subseteq Confirmers /\ Confirming(d)' \subseteq Confirmers
  BY DEF Confirming
<1>10. \A stage : AtStage(d, stage) \subseteq Confirmers /\ AtStage(d, stage)' \subseteq Confirmers
  BY DEF AtStage
<1>11. ASSUME NEW stage \in Stages PROVE AtStage(d, stage)' = AtStage(d, stage)
  <2> DEFINE S == AtStage(d, stage)
             Z == AtStage(d, stage)'
  <2>1. /\ c \notin S /\ c \notin Z /\ S \subseteq Confirmers /\ Z \subseteq Confirmers
        /\ \A e \in Confirmers : e # c => (e \in S <=> e \in Z)
    BY <1>5, <1>7, <1>10
  <2> HIDE DEF S, Z
  <2>2. S = Z
    BY <2>1
  <2> QED
    BY <2>2 DEF S, Z
<1>12. Confirming(d)' = Confirming(d)
  <2> DEFINE S == Confirming(d)
             Z == Confirming(d)'
  <2>1. /\ c \notin S /\ c \notin Z /\ S \subseteq Confirmers /\ Z \subseteq Confirmers
        /\ \A e \in Confirmers : e # c => (e \in S <=> e \in Z)
    BY <1>6, <1>8, <1>9
  <2> HIDE DEF S, Z
  <2>2. S = Z
    BY <2>1
  <2> QED
    BY <2>2 DEF S, Z
<1> QED
  BY <1>11, <1>12

\* A step of one confirmation that leaves the batch's row alone.
LEMMA RowStays ==
  ASSUME BatchInv, NEW c \in Confirmers, NEW x \in Confirms \cup {Waiting}, NEW b \in BatchIds,
         NEW bl \in Seq(Nat), NEW pay \in Seq(Nat), NEW f \in 0 .. MaxConfirms,
         confirm' = [confirm EXCEPT ![c] = x], UNCHANGED batch, batch[b] # NoBatch,
         blocks' = [blocks EXCEPT ![b] = bl], payouts' = [payouts EXCEPT ![b] = pay],
         failed' = [failed EXCEPT ![b] = f],
         confirm[c] # Waiting => confirm[c].batch = b,
         x # Waiting =>
           /\ x.batch = b /\ FiledRight(x.read) /\ x.read.count = batch[b].count
           /\ x.read.total = batch[b].total /\ x.read.fees = batch[b].fees
           /\ x.at = "mark" => Len(pay) >= x.read.count /\ SumOf(pay) >= x.read.total,
         Len(pay) >= Len(payouts[b]), SumOf(pay) >= SumOf(payouts[b]),
         SumOf(pay) + Cardinality(AtStage(b, "file")') * batch[b].total + Len(bl) * batch[b].fees <= SumOf(bl),
         Len(bl) + Cardinality(AtStage(b, "block")') <= MaxConfirms,
         f = MaxConfirms \/ Len(bl) + Cardinality(AtStage(b, "block")') <= f + Uncaused(b)'
  PROVE  BatchInv'
<1>1. /\ BatchTypeOK /\ UntouchedOK /\ ConfirmsOK /\ BlocksOK /\ CoveredOK /\ BatchRowsOK /\ ProcessingIsFiled
  BY DEF BatchInv
<1>2. /\ blocks'[b] = bl /\ payouts'[b] = pay /\ failed'[b] = f /\ confirm'[c] = x
      /\ \A d \in BatchIds : d # b => blocks'[d] = blocks[d] /\ payouts'[d] = payouts[d] /\ failed'[d] = failed[d]
      /\ \A e \in Confirmers : e # c => confirm'[e] = confirm[e]
  BY <1>1 DEF BatchTypeOK
<1>3. \A d \in BatchIds : d # b => /\ AtStage(d, "block")' = AtStage(d, "block")
                                   /\ AtStage(d, "file")' = AtStage(d, "file")
                                   /\ Confirming(d)' = Confirming(d)
  BY <1>1, OthersStay, ZenonT(30) DEF Stages
<1>4. BatchTypeOK'
  BY <1>1 DEF BatchTypeOK
<1>5. UntouchedOK' /\ BatchRowsOK'
  BY <1>1, <1>2 DEF UntouchedOK, BatchRowsOK
<1>6. \A d \in BatchIds : Len(payouts'[d]) >= Len(payouts[d]) /\ SumOf(payouts'[d]) >= SumOf(payouts[d])
  <2>1. \A d \in BatchIds : Len(payouts[d]) \in Nat /\ SumOf(payouts[d]) \in Nat
    BY <1>1, SumsOfAmounts DEF BatchTypeOK
  <2> QED
    BY <1>2, <2>1
<1>7. \A d \in BatchIds : /\ Len(payouts[d]) \in Nat /\ SumOf(payouts[d]) \in Nat
                          /\ Len(payouts'[d]) \in Nat /\ SumOf(payouts'[d]) \in Nat
  <2>1. \A d \in BatchIds : payouts[d] \in Seq(Nat) /\ payouts'[d] \in Seq(Nat)
    BY <1>1, <1>4 DEF BatchTypeOK
  <2>2. \A q \in Seq(Nat) : Len(q) \in Nat /\ SumOf(q) \in Nat
    BY SumsOfAmounts
  <2> QED
    BY <2>1, <2>2, Zenon
<1>8. ASSUME NEW e \in Confirmers, confirm'[e] # Waiting
      PROVE  /\ batch[confirm'[e].batch] # NoBatch /\ FiledRight(confirm'[e].read)
             /\ confirm'[e].read.count = batch[confirm'[e].batch].count
             /\ confirm'[e].read.total = batch[confirm'[e].batch].total
             /\ confirm'[e].read.fees = batch[confirm'[e].batch].fees
             /\ confirm'[e].at = "mark" => /\ Len(payouts'[confirm'[e].batch]) >= confirm'[e].read.count
                                           /\ SumOf(payouts'[confirm'[e].batch]) >= confirm'[e].read.total
  <2>1. CASE e = c
    BY <1>2, <1>8, <2>1
  <2>2. CASE e # c
    <3>1. confirm'[e] = confirm[e] /\ confirm[e] \in Confirms
      BY <1>1, <1>2, <1>8, <2>2 DEF BatchTypeOK
    <3>2. confirm[e].batch \in BatchIds /\ confirm[e].read.count \in Nat /\ confirm[e].read.total \in Nat
      BY <3>1 DEF Confirms, BatchTable
    <3>3. /\ batch[confirm[e].batch] # NoBatch /\ FiledRight(confirm[e].read)
          /\ confirm[e].read.count = batch[confirm[e].batch].count
          /\ confirm[e].read.total = batch[confirm[e].batch].total
          /\ confirm[e].read.fees = batch[confirm[e].batch].fees
          /\ confirm[e].at = "mark" => /\ Len(payouts[confirm[e].batch]) >= confirm[e].read.count
                                       /\ SumOf(payouts[confirm[e].batch]) >= confirm[e].read.total
      BY <1>1, <1>8, <3>1 DEF ConfirmsOK, Paid
    <3>4. confirm[e].at = "mark" => /\ Len(payouts'[confirm[e].batch]) >= confirm[e].read.count
                                    /\ SumOf(payouts'[confirm[e].batch]) >= confirm[e].read.total
      <4>1. \A k, m, n \in Nat : k >= m /\ m >= n => k >= n
        OBVIOUS
      <4> QED
        BY <1>6, <1>7, <3>2, <3>3, <4>1
    <3> QED
      BY <3>1, <3>3, <3>4, Zenon
  <2> QED
    BY <2>1, <2>2
<1>9. ConfirmsOK'
  BY <1>8 DEF ConfirmsOK, Paid
<1>10. ASSUME NEW d \in BatchIds, batch[d] # NoBatch
       PROVE  SumOf(payouts'[d]) + Cardinality(AtStage(d, "file")') * batch[d].total + Len(blocks'[d]) * batch[d].fees
                <= SumOf(blocks'[d])
  <2>1. CASE d = b
    BY <1>2, <2>1
  <2>2. CASE d # b
    BY <1>1, <1>2, <1>3, <1>10, <2>2 DEF CoveredOK
  <2> QED
    BY <2>1, <2>2
<1>11. CoveredOK'
  BY <1>10 DEF CoveredOK
<1>12. ProcessingIsFiled'
  <2>1. ASSUME NEW d \in BatchIds, batch[d].status = "processing"
        PROVE  /\ batch[d].pending = batch[d].count
               /\ Len(payouts'[d]) >= batch[d].count /\ SumOf(payouts'[d]) >= batch[d].total
    <3>1. batch[d] \in BatchTable
      BY <1>1, <2>1 DEF BatchTypeOK, NoBatch
    <3>2. batch[d].count \in Nat /\ batch[d].total \in Nat
      BY <3>1 DEF BatchTable
    <3>3. /\ batch[d].pending = batch[d].count
          /\ Len(payouts[d]) >= batch[d].count /\ SumOf(payouts[d]) >= batch[d].total
      BY <1>1, <2>1 DEF ProcessingIsFiled
    <3> QED
      BY <1>6, <1>7, <3>2, <3>3
  <2> QED
    BY <2>1 DEF ProcessingIsFiled
<1>13. ASSUME NEW d \in BatchIds
       PROVE  /\ Len(blocks'[d]) + Cardinality(AtStage(d, "block")') <= MaxConfirms
              /\ \/ failed'[d] = MaxConfirms
                 \/ Len(blocks'[d]) + Cardinality(AtStage(d, "block")') <= failed'[d] + Uncaused(d)'
  <2>1. CASE d = b
    BY <1>2, <2>1
  <2>2. CASE d # b
    <3>1. Uncaused(d)' = Uncaused(d)
      BY <1>3, <2>2 DEF Uncaused
    <3> QED
      BY <1>1, <1>2, <1>3, <2>2, <3>1 DEF BlocksOK
  <2> QED
    BY <2>1, <2>2
<1>14. BlocksOK'
  BY <1>13 DEF BlocksOK
<1> QED
  BY <1>4, <1>5, <1>9, <1>11, <1>12, <1>14 DEF BatchInv

\* What is known of a confirmation under way and of its batch.
LEMMA UnderWay ==
  ASSUME BatchInv, NEW c \in Confirmers, confirm[c].at \in Stages
  PROVE  /\ confirm[c] # Waiting /\ confirm[c] \in Confirms /\ confirm[c].batch \in BatchIds
         /\ confirm[c].read \in BatchTable /\ batch[confirm[c].batch] \in BatchTable
         /\ batch[confirm[c].batch] # NoBatch /\ FiledRight(confirm[c].read)
         /\ confirm[c].read.count = batch[confirm[c].batch].count
         /\ confirm[c].read.total = batch[confirm[c].batch].total
         /\ confirm[c].read.fees = batch[confirm[c].batch].fees
         /\ confirm[c].at = "mark" => Paid(confirm[c].batch, confirm[c].read.count, confirm[c].read.total)
<1>1. confirm[c] # Waiting
  BY DEF Waiting, Stages
<1>2. confirm[c] \in Confirms
  BY <1>1 DEF BatchInv, BatchTypeOK
<1>3. confirm[c].batch \in BatchIds /\ confirm[c].read \in BatchTable
  BY <1>2 DEF Confirms
<1>4. batch[confirm[c].batch] # NoBatch
  BY <1>1 DEF BatchInv, ConfirmsOK
<1>5. batch[confirm[c].batch] \in BatchTable
  BY <1>3, <1>4 DEF BatchInv, BatchTypeOK
<1> QED
  BY <1>1, <1>2, <1>3, <1>4, <1>5 DEF BatchInv, ConfirmsOK

\* The numbers of a batch.
LEMMA BatchNumbers ==
  ASSUME BatchInv, NEW b \in BatchIds
  PROVE  /\ blocks[b] \in Seq(Nat) /\ payouts[b] \in Seq(Nat) /\ failed[b] \in 0 .. MaxConfirms
         /\ failed[b] \in Nat /\ MaxConfirms \in Nat
         /\ Len(blocks[b]) \in Nat /\ Len(payouts[b]) \in Nat
         /\ SumOf(blocks[b]) \in Nat /\ SumOf(payouts[b]) \in Nat
         /\ Cardinality(AtStage(b, "block")) \in Nat /\ Cardinality(AtStage(b, "file")) \in Nat
         /\ Cardinality(Confirming(b)) \in Nat /\ Uncaused(b) \in {0, 1}
         /\ Len(blocks[b]) + Cardinality(AtStage(b, "block")) <= MaxConfirms
         /\ failed[b] = MaxConfirms \/ Len(blocks[b]) + Cardinality(AtStage(b, "block")) <= failed[b] + Uncaused(b)
         /\ batch[b] # NoBatch =>
              SumOf(payouts[b]) + Cardinality(AtStage(b, "file")) * batch[b].total + Len(blocks[b]) * batch[b].fees
                <= SumOf(blocks[b])
<1>1. blocks[b] \in Seq(Nat) /\ payouts[b] \in Seq(Nat) /\ failed[b] \in 0 .. MaxConfirms
  BY DEF BatchInv, BatchTypeOK
<1>2. failed[b] \in Nat /\ MaxConfirms \in Nat /\ Len(blocks[b]) \in Nat /\ Len(payouts[b]) \in Nat
  BY <1>1, ConfirmersAssumption
<1>3. SumOf(blocks[b]) \in Nat /\ SumOf(payouts[b]) \in Nat
  BY <1>1, SumsOfAmounts
<1>4. /\ Cardinality(AtStage(b, "block")) \in Nat /\ Cardinality(AtStage(b, "file")) \in Nat
      /\ Cardinality(Confirming(b)) \in Nat
  BY StagesFinite
<1>5. Uncaused(b) \in {0, 1}
  BY DEF Uncaused
<1> QED
  BY <1>1, <1>2, <1>3, <1>4, <1>5 DEF BatchInv, CoveredOK, BlocksOK

LEMMA ConfirmBeginKeeps ==
  ASSUME BatchInv, NEW c \in Confirmers, NEW b \in BatchIds, ConfirmBegin(c, b)
  PROVE  BatchInv'
<1> DEFINE x == [at |-> "block", batch |-> b, read |-> batch[b]]
           f == IF Confirming(b) # {} /\ failed[b] < MaxConfirms THEN failed[b] + 1 ELSE failed[b]
<1>1. /\ confirm[c] = Waiting /\ batch[b].status = "validated" /\ Attempts(b) < MaxConfirms
      /\ confirm' = [confirm EXCEPT ![c] = x] /\ UNCHANGED <<batch, blocks, payouts>>
  BY DEF ConfirmBegin
<1>2. failed' = [failed EXCEPT ![b] = f]
  BY DEF ConfirmBegin, Excused, BatchInv, BatchTypeOK
<1>3. batch[b] # NoBatch
  BY <1>1 DEF NoBatch
<1>4. batch[b] \in BatchTable /\ FiledRight(batch[b])
  BY <1>1, <1>3 DEF BatchInv, BatchTypeOK, BatchRowsOK
<1>5. x \in Confirms /\ x # Waiting /\ x.at = "block" /\ x.batch = b /\ x.read = batch[b]
  BY <1>4 DEF Confirms, Stages, Waiting
<1>6. BatchTypeOK
  BY DEF BatchInv
<1> HIDE DEF x
<1>7. confirm'[c] = x
  BY <1>1, <1>6 DEF BatchTypeOK
<1>8. /\ c \notin AtStage(b, "block") /\ c \in AtStage(b, "block")'
      /\ c \notin AtStage(b, "file") /\ c \notin AtStage(b, "file")' /\ c \in Confirming(b)'
  BY <1>1, <1>5, <1>7 DEF AtStage, Confirming, Waiting
<1>9. /\ Cardinality(AtStage(b, "block")') = Cardinality(AtStage(b, "block")) + 1
      /\ Cardinality(AtStage(b, "file")') = Cardinality(AtStage(b, "file"))
  <2>1. "block" \in Stages /\ "file" \in Stages /\ x \in Confirms \cup {Waiting}
    BY <1>5 DEF Stages
  <2>2. Cardinality(AtStage(b, "block")') = Cardinality(AtStage(b, "block")) + 1
    BY <1>1, <1>6, <1>8, <2>1, StageMoved
  <2>3. Cardinality(AtStage(b, "file")') = Cardinality(AtStage(b, "file"))
    BY <1>1, <1>6, <1>8, <2>1, StageMoved
  <2> QED
    BY <2>2, <2>3
<1>10. Cardinality(AtStage(b, "block")) <= Cardinality(Confirming(b))
  <2>1. AtStage(b, "block") \subseteq Confirming(b)
    BY DEF AtStage, Confirming
  <2> QED
    BY <2>1, StagesFinite, FS_Subset
<1>11. Uncaused(b)' = 1 /\ (Confirming(b) = {} => Uncaused(b) = 0)
  BY <1>1, <1>8 DEF Uncaused
<1> DEFINE n == Len(blocks[b])
           k == Cardinality(AtStage(b, "block"))
<1>12. /\ n \in Nat /\ k \in Nat /\ failed[b] \in Nat /\ MaxConfirms \in Nat /\ failed[b] <= MaxConfirms
       /\ Uncaused(b) \in {0, 1} /\ n + k <= MaxConfirms
       /\ failed[b] = MaxConfirms \/ n + k <= failed[b] + Uncaused(b)
  BY BatchNumbers
<1>13. n + (k + 1) <= MaxConfirms
  BY <1>1, <1>10, <1>12, BatchNumbers DEF Attempts
<1>14. f \in 0 .. MaxConfirms /\ (f = MaxConfirms \/ n + (k + 1) <= f + 1)
  BY <1>11, <1>12, <1>13
<1> HIDE DEF f
<1>15. blocks' = [blocks EXCEPT ![b] = blocks[b]] /\ payouts' = [payouts EXCEPT ![b] = payouts[b]]
  BY <1>1, <1>6 DEF BatchTypeOK
<1>16. /\ Len(blocks[b]) + Cardinality(AtStage(b, "block")') <= MaxConfirms
       /\ f = MaxConfirms \/ Len(blocks[b]) + Cardinality(AtStage(b, "block")') <= f + Uncaused(b)'
  BY <1>9, <1>11, <1>13, <1>14
<1>17. /\ blocks[b] \in Seq(Nat) /\ payouts[b] \in Seq(Nat) /\ Len(payouts[b]) \in Nat /\ SumOf(payouts[b]) \in Nat
       /\ SumOf(payouts[b]) + Cardinality(AtStage(b, "file")') * batch[b].total + Len(blocks[b]) * batch[b].fees
            <= SumOf(blocks[b])
  BY <1>3, <1>9, BatchNumbers
<1>18. Len(payouts[b]) >= Len(payouts[b]) /\ SumOf(payouts[b]) >= SumOf(payouts[b])
  BY <1>17
<1>19. x # Waiting =>
         /\ x.batch = b /\ FiledRight(x.read) /\ x.read.count = batch[b].count
         /\ x.read.total = batch[b].total /\ x.read.fees = batch[b].fees
         /\ x.at = "mark" => Len(payouts[b]) >= x.read.count /\ SumOf(payouts[b]) >= x.read.total
  BY <1>4, <1>5
<1>20. UNCHANGED batch /\ (confirm[c] # Waiting => confirm[c].batch = b) /\ x \in Confirms \cup {Waiting}
  BY <1>1, <1>5
<1>21. ASSUME NEW y, y = x, NEW g, g = f, NEW bl, bl = blocks[b], NEW pay, pay = payouts[b] PROVE BatchInv'
  <2>1. /\ y \in Confirms \cup {Waiting} /\ bl \in Seq(Nat) /\ pay \in Seq(Nat) /\ g \in 0 .. MaxConfirms
        /\ confirm' = [confirm EXCEPT ![c] = y] /\ blocks' = [blocks EXCEPT ![b] = bl]
        /\ payouts' = [payouts EXCEPT ![b] = pay] /\ failed' = [failed EXCEPT ![b] = g]
        /\ UNCHANGED batch /\ batch[b] # NoBatch
    BY <1>1, <1>2, <1>3, <1>5, <1>14, <1>15, <1>17, <1>21
  <2>2. /\ Len(bl) + Cardinality(AtStage(b, "block")') <= MaxConfirms
        /\ g = MaxConfirms \/ Len(bl) + Cardinality(AtStage(b, "block")') <= g + Uncaused(b)'
        /\ Len(pay) >= Len(payouts[b]) /\ SumOf(pay) >= SumOf(payouts[b])
        /\ SumOf(pay) + Cardinality(AtStage(b, "file")') * batch[b].total + Len(bl) * batch[b].fees <= SumOf(bl)
    BY <1>16, <1>17, <1>18, <1>21, Zenon
  <2>3. y # Waiting =>
         /\ y.batch = b /\ FiledRight(y.read) /\ y.read.count = batch[b].count
         /\ y.read.total = batch[b].total /\ y.read.fees = batch[b].fees
         /\ y.at = "mark" => Len(pay) >= y.read.count /\ SumOf(pay) >= y.read.total
    BY <1>19, <1>21, Zenon
  <2>4. confirm[c] # Waiting => confirm[c].batch = b
    BY <1>1
  <2> QED
    BY <2>1, <2>2, <2>3, <2>4, RowStays
<1> QED
  BY <1>21

LEMMA ConfirmRefusedKeeps ==
  ASSUME BatchInv, NEW c \in Confirmers, ConfirmRefused(c)
  PROVE  BatchInv'
<1>0. SUFFICES ASSUME NEW b, b = confirm[c].batch, NEW bl, bl = blocks[b], NEW pay, pay = payouts[b],
                    NEW f, f = failed[b], NEW x, x = Waiting
             PROVE  BatchInv'
  OBVIOUS
<1>1. /\ confirm[c].at = "block" /\ confirm' = [confirm EXCEPT ![c] = x]
      /\ UNCHANGED <<batch, blocks, payouts, failed>>
  BY <1>0 DEF ConfirmRefused, Break
<1>2. confirm[c].at \in Stages /\ BatchTypeOK
  BY <1>1 DEF Stages, BatchInv
<1>3. b \in BatchIds /\ batch[b] # NoBatch
  BY <1>0, <1>2, UnderWay
<1>4. /\ c \in AtStage(b, "block") /\ c \notin AtStage(b, "block")'
      /\ c \notin AtStage(b, "file") /\ c \notin AtStage(b, "file")'
  BY <1>0, <1>1, <1>2 DEF AtStage, Waiting, BatchTypeOK
<1>5. /\ Cardinality(AtStage(b, "block")') + 1 = Cardinality(AtStage(b, "block"))
      /\ Cardinality(AtStage(b, "file")') = Cardinality(AtStage(b, "file"))
      /\ Cardinality(AtStage(b, "block")') \in Nat
  <2>1. confirm' = [confirm EXCEPT ![c] = x] /\ "block" \in Stages /\ "file" \in Stages /\ x \in Confirms \cup {Waiting}
    BY <1>0, <1>1 DEF Stages
  <2> QED
    BY <1>2, <1>3, <1>4, <2>1, StageMoved
<1>6. Uncaused(b)' \in {0, 1}
  BY DEF Uncaused
<1>7. /\ bl \in Seq(Nat) /\ pay \in Seq(Nat) /\ f \in 0 .. MaxConfirms
      /\ Len(bl) \in Nat /\ Len(pay) \in Nat /\ SumOf(pay) \in Nat /\ f \in Nat /\ MaxConfirms \in Nat
  BY <1>0, <1>3, BatchNumbers
<1>8. /\ Len(bl) + Cardinality(AtStage(b, "block")') <= MaxConfirms
      /\ f = MaxConfirms \/ Len(bl) + Cardinality(AtStage(b, "block")') <= f + Uncaused(b)'
  <2>1. /\ Len(bl) + Cardinality(AtStage(b, "block")) <= MaxConfirms /\ Uncaused(b) \in {0, 1}
        /\ f = MaxConfirms \/ Len(bl) + Cardinality(AtStage(b, "block")) <= f + Uncaused(b)
    BY <1>0, <1>3, BatchNumbers
  <2> QED
    BY <1>5, <1>6, <1>7, <2>1
<1>9. SumOf(pay) + Cardinality(AtStage(b, "file")') * batch[b].total + Len(bl) * batch[b].fees <= SumOf(bl)
  BY <1>0, <1>3, <1>5, BatchNumbers
<1>10. /\ blocks' = [blocks EXCEPT ![b] = bl] /\ payouts' = [payouts EXCEPT ![b] = pay]
       /\ failed' = [failed EXCEPT ![b] = f] /\ UNCHANGED batch
  BY <1>0, <1>1, <1>2 DEF BatchTypeOK
<1>11. Len(pay) >= Len(payouts[b]) /\ SumOf(pay) >= SumOf(payouts[b])
  BY <1>0, <1>7
<1>12. /\ x \in Confirms \cup {Waiting} /\ confirm' = [confirm EXCEPT ![c] = x]
       /\ (confirm[c] # Waiting => confirm[c].batch = b)
       /\ x # Waiting =>
            /\ x.batch = b /\ FiledRight(x.read) /\ x.read.count = batch[b].count
            /\ x.read.total = batch[b].total /\ x.read.fees = batch[b].fees
            /\ x.at = "mark" => Len(pay) >= x.read.count /\ SumOf(pay) >= x.read.total
  BY <1>0, <1>1
<1> QED
  BY <1>3, <1>7, <1>8, <1>9, <1>10, <1>11, <1>12, RowStays

LEMMA BlockBatchKeeps ==
  ASSUME BatchInv, NEW c \in Confirmers, BlockBatch(c)
  PROVE  BatchInv'
<1>a. SUFFICES ASSUME NEW b, b = confirm[c].batch, NEW bl, bl = Append(blocks[b], confirm[c].read.debited),
                      NEW pay, pay = payouts[b]
               PROVE  BatchInv'
  OBVIOUS
<1>b. PICK x, f :
        /\ confirm' = [confirm EXCEPT ![c] = x] /\ failed' = [failed EXCEPT ![b] = f]
        /\ \/ x = [confirm[c] EXCEPT !.at = "file"] /\ f = failed[b]
           \/ x = Waiting /\ f = IF failed[b] < MaxConfirms THEN failed[b] + 1 ELSE failed[b]
  <2>1. failed = [failed EXCEPT ![b] = failed[b]]
    BY DEF BatchInv, BatchTypeOK
  <2>2. CASE confirm' = [confirm EXCEPT ![c].at = "file"] /\ UNCHANGED failed
    BY <2>1, <2>2
  <2>3. CASE confirm' = [confirm EXCEPT ![c] = Waiting] /\ Excused(b)
    BY <2>3 DEF Excused
  <2> QED
    BY <1>a, <2>2, <2>3 DEF BlockBatch, Break
<1>0. /\ b = confirm[c].batch /\ bl = Append(blocks[b], confirm[c].read.debited) /\ pay = payouts[b]
      /\ confirm' = [confirm EXCEPT ![c] = x] /\ failed' = [failed EXCEPT ![b] = f]
      /\ \/ x = [confirm[c] EXCEPT !.at = "file"] /\ f = failed[b]
         \/ x = Waiting /\ f = IF failed[b] < MaxConfirms THEN failed[b] + 1 ELSE failed[b]
  BY <1>a, <1>b
<1>1. /\ confirm[c].at = "block" /\ blocks' = [blocks EXCEPT ![b] = bl]
      /\ UNCHANGED batch /\ UNCHANGED payouts
  BY <1>0 DEF BlockBatch
<1>2. confirm[c].at \in Stages /\ BatchTypeOK
  BY <1>1 DEF Stages, BatchInv
<1>3. b \in BatchIds /\ batch[b] # NoBatch /\ confirm[c] \in Confirms /\ confirm[c] # Waiting
  BY <1>0, <1>2, UnderWay
<1>4. /\ confirm[c].read \in BatchTable /\ FiledRight(confirm[c].read) /\ confirm[c].read.count = batch[b].count
      /\ confirm[c].read.total = batch[b].total /\ confirm[c].read.fees = batch[b].fees
      /\ batch[b] \in BatchTable
  BY <1>0, <1>2, UnderWay
<1>5. x \in Confirms \cup {Waiting} /\ (x # Waiting => x.at = "file" /\ x.batch = b /\ x.read = confirm[c].read)
  BY <1>0, <1>3 DEF Confirms, Stages
<1>6. /\ Cardinality(AtStage(b, "block")') + 1 = Cardinality(AtStage(b, "block"))
      /\ Cardinality(AtStage(b, "file")') = Cardinality(AtStage(b, "file")) + (IF x # Waiting THEN 1 ELSE 0)
      /\ Cardinality(AtStage(b, "block")') \in Nat /\ Cardinality(AtStage(b, "file")') \in Nat
  <2>1. confirm'[c] = x
    BY <1>0, <1>2 DEF BatchTypeOK
  <2>2. /\ c \in AtStage(b, "block") /\ c \notin AtStage(b, "block")'
        /\ c \notin AtStage(b, "file") /\ (c \in AtStage(b, "file")' <=> x # Waiting)
    BY <1>0, <1>1, <1>5, <2>1 DEF AtStage, Waiting
  <2>3. confirm' = [confirm EXCEPT ![c] = x] /\ "block" \in Stages /\ "file" \in Stages
    BY <1>0 DEF Stages
  <2>4. /\ Cardinality(AtStage(b, "block")) = Cardinality(AtStage(b, "block")') + 1
        /\ Cardinality(AtStage(b, "block")') \in Nat
    BY <1>2, <1>3, <1>5, <2>2, <2>3, StageMoved
  <2>5. /\ x # Waiting => Cardinality(AtStage(b, "file")') = Cardinality(AtStage(b, "file")) + 1
        /\ x = Waiting => Cardinality(AtStage(b, "file")') = Cardinality(AtStage(b, "file"))
        /\ Cardinality(AtStage(b, "file")') \in Nat /\ Cardinality(AtStage(b, "file")) \in Nat
    BY <1>2, <1>3, <1>5, <2>2, <2>3, StageMoved
  <2> QED
    BY <2>4, <2>5
<1>7. Uncaused(b)' \in {0, 1} /\ (x # Waiting => Uncaused(b)' = 1)
  <2>1. x # Waiting => c \in Confirming(b)'
    BY <1>0, <1>2, <1>5 DEF BatchTypeOK, Confirming
  <2> QED
    BY <2>1 DEF Uncaused
<1>8. /\ blocks[b] \in Seq(Nat) /\ Len(blocks[b]) \in Nat /\ SumOf(blocks[b]) \in Nat
      /\ pay \in Seq(Nat) /\ Len(pay) \in Nat /\ SumOf(pay) \in Nat
      /\ failed[b] \in 0 .. MaxConfirms /\ failed[b] \in Nat /\ MaxConfirms \in Nat
  BY <1>0, <1>3, BatchNumbers
<1> DEFINE T == batch[b].total
           F == batch[b].fees
<1>9. T \in Nat /\ F \in Nat /\ confirm[c].read.debited \in Nat /\ confirm[c].read.debited = T + F
  BY <1>4 DEF BatchTable, FiledRight
<1>10. bl \in Seq(Nat) /\ Len(bl) = Len(blocks[b]) + 1 /\ SumOf(bl) = SumOf(blocks[b]) + (T + F)
  <2>1. bl = Append(blocks[b], T + F) /\ T + F \in Nat
    BY <1>0, <1>9
  <2>2. SumOf(bl) = SumOf(blocks[b]) + (T + F)
    BY <1>8, <2>1, SumsOfAmounts, Zenon
  <2>3. \A s \in Seq(Nat), n \in Nat : Append(s, n) \in Seq(Nat) /\ Len(Append(s, n)) = Len(s) + 1
    OBVIOUS
  <2> QED
    BY <1>8, <2>1, <2>2, <2>3, Zenon
<1> HIDE DEF T, F
<1>11. f \in 0 .. MaxConfirms
  BY <1>0, <1>8
<1>12. /\ Len(bl) + Cardinality(AtStage(b, "block")') <= MaxConfirms
       /\ f = MaxConfirms \/ Len(bl) + Cardinality(AtStage(b, "block")') <= f + Uncaused(b)'
  <2>1. /\ Len(blocks[b]) + Cardinality(AtStage(b, "block")) <= MaxConfirms /\ Uncaused(b) \in {0, 1}
        /\ failed[b] = MaxConfirms \/ Len(blocks[b]) + Cardinality(AtStage(b, "block")) <= failed[b] + Uncaused(b)
    BY <1>3, BatchNumbers
  <2>2. Len(bl) + Cardinality(AtStage(b, "block")') = Len(blocks[b]) + Cardinality(AtStage(b, "block"))
    <3>1. \A n, a, d, m \in Nat : a + 1 = d /\ m = n + 1 => m + a = n + d
      OBVIOUS
    <3>2. /\ Len(blocks[b]) \in Nat /\ Len(bl) \in Nat /\ Cardinality(AtStage(b, "block")) \in Nat
          /\ Cardinality(AtStage(b, "block")') \in Nat
      BY <1>3, <1>6, <1>8, <1>10, BatchNumbers
    <3> QED
      BY <1>6, <1>10, <3>1, <3>2, SMTT(30)
  <2> DEFINE was == Len(blocks[b]) + Cardinality(AtStage(b, "block"))
  <2>5. was \in Nat
    BY <1>3, BatchNumbers
  <2> HIDE DEF was
  <2>6. Len(bl) + Cardinality(AtStage(b, "block")') = was
    BY <2>2 DEF was
  <2>7. was <= MaxConfirms /\ (failed[b] = MaxConfirms \/ was <= failed[b] + Uncaused(b))
    BY <2>1 DEF was
  <2>3. CASE x # Waiting
    <3>1. f = failed[b] /\ Uncaused(b)' = 1
      BY <1>0, <1>7, <2>3
    <3> QED
      BY <1>8, <2>1, <2>5, <2>6, <2>7, <3>1
  <2>4. CASE x = Waiting
    <3>1. f = IF failed[b] < MaxConfirms THEN failed[b] + 1 ELSE failed[b]
      BY <1>0, <1>5, <2>4 DEF Waiting, Confirms
    <3> QED
      BY <1>7, <1>8, <2>1, <2>5, <2>6, <2>7, <3>1
  <2> QED
    BY <2>3, <2>4
<1>13. SumOf(pay) + Cardinality(AtStage(b, "file")') * T + Len(bl) * F <= SumOf(bl)
  <2> DEFINE k == Cardinality(AtStage(b, "file"))
             n == Len(blocks[b])
  <2>1. k \in Nat /\ SumOf(pay) + k * T + n * F <= SumOf(blocks[b])
    BY <1>0, <1>3, BatchNumbers DEF T, F
  <2>2. (n + 1) * F = n * F + F /\ (k + 1) * T = k * T + T /\ n * F \in Nat /\ k * T \in Nat
    <3>1. n \in Nat /\ k \in Nat
      BY <1>8, <2>1
    <3> HIDE DEF n, k
    <3>2. (n + 1) * F = n * F + F /\ (k + 1) * T = k * T + T
      BY <1>9, <3>1, OneMore
    <3>3. \A i, j \in Nat : i * j \in Nat
      OBVIOUS
    <3> QED
      BY <1>9, <3>1, <3>2, <3>3
  <2>3. Cardinality(AtStage(b, "file")') = k + 1 \/ Cardinality(AtStage(b, "file")') = k
    BY <1>6, <2>1
  <2> HIDE DEF k, n
  <2>4. Len(bl) * F = n * F + F
    BY <1>10, <2>2 DEF n
  <2>5. /\ Cardinality(AtStage(b, "file")') * T <= k * T + T
        /\ Cardinality(AtStage(b, "file")') * T \in Nat
    BY <1>9, <2>2, <2>3
  <2> DEFINE kt == k * T
             kt1 == Cardinality(AtStage(b, "file")') * T
             nf == n * F
             nf1 == Len(bl) * F
  <2>6. /\ kt \in Nat /\ kt1 \in Nat /\ nf \in Nat /\ kt1 <= kt + T /\ nf1 = nf + F
        /\ SumOf(pay) + kt + nf <= SumOf(blocks[b])
    BY <2>1, <2>2, <2>4, <2>5
  <2> HIDE DEF kt, kt1, nf, nf1
  <2>7. SumOf(pay) + kt1 + nf1 <= SumOf(bl)
    BY <1>8, <1>9, <1>10, <2>6, SMTT(30)
  <2> QED
    BY <2>7 DEF kt1, nf1
<1>14. /\ payouts' = [payouts EXCEPT ![b] = pay] /\ UNCHANGED batch /\ confirm' = [confirm EXCEPT ![c] = x]
       /\ failed' = [failed EXCEPT ![b] = f] /\ blocks' = [blocks EXCEPT ![b] = bl]
  BY <1>0, <1>1, <1>2 DEF BatchTypeOK
<1>15. Len(pay) >= Len(payouts[b]) /\ SumOf(pay) >= SumOf(payouts[b])
  BY <1>0, <1>8
<1>16. x # Waiting =>
         /\ x.batch = b /\ FiledRight(x.read) /\ x.read.count = batch[b].count
         /\ x.read.total = batch[b].total /\ x.read.fees = batch[b].fees
         /\ x.at = "mark" => Len(pay) >= x.read.count /\ SumOf(pay) >= x.read.total
  BY <1>4, <1>5
<1>17. confirm[c] # Waiting => confirm[c].batch = b
  BY <1>0
<1>18. SumOf(pay) + Cardinality(AtStage(b, "file")') * batch[b].total + Len(bl) * batch[b].fees <= SumOf(bl)
  BY <1>13 DEF T, F
<1> QED
  BY <1>3, <1>5, <1>8, <1>10, <1>11, <1>12, <1>14, <1>15, <1>16, <1>17, <1>18, RowStays

LEMMA FilePayoutsKeeps ==
  ASSUME BatchInv, NEW c \in Confirmers, FilePayouts(c)
  PROVE  BatchInv'
<1>0. SUFFICES ASSUME NEW b, b = confirm[c].batch, NEW bl, bl = blocks[b],
                      NEW rows, rows = confirm[c].read.rows,
                      NEW more, more = [i \in DOMAIN rows |-> rows[i].amount],
                      NEW pay, pay = payouts[b] \o more, NEW f, f = failed[b],
                      NEW x, x = [confirm[c] EXCEPT !.at = "mark"]
               PROVE  BatchInv'
  OBVIOUS
<1>1. /\ confirm[c].at = "file" /\ confirm' = [confirm EXCEPT ![c] = x] /\ payouts' = [payouts EXCEPT ![b] = pay]
      /\ UNCHANGED batch /\ UNCHANGED blocks /\ UNCHANGED failed
  BY <1>0 DEF FilePayouts
<1>2. confirm[c].at \in Stages /\ BatchTypeOK
  BY <1>1 DEF Stages, BatchInv
<1>3. b \in BatchIds /\ batch[b] # NoBatch /\ confirm[c] \in Confirms /\ confirm[c] # Waiting
  BY <1>0, <1>2, UnderWay
<1>4. /\ confirm[c].read \in BatchTable /\ FiledRight(confirm[c].read) /\ confirm[c].read.count = batch[b].count
      /\ confirm[c].read.total = batch[b].total /\ confirm[c].read.fees = batch[b].fees
      /\ batch[b] \in BatchTable
  BY <1>0, <1>2, UnderWay
<1>5. x \in Confirms /\ x # Waiting /\ x.at = "mark" /\ x.batch = b /\ x.read = confirm[c].read
  BY <1>0, <1>3 DEF Confirms, Stages, Waiting
<1>6. /\ Cardinality(AtStage(b, "block")') = Cardinality(AtStage(b, "block"))
      /\ Cardinality(AtStage(b, "file")) = Cardinality(AtStage(b, "file")') + 1
      /\ Cardinality(AtStage(b, "file")') \in Nat
  <2>1. confirm'[c] = x
    BY <1>1, <1>2 DEF BatchTypeOK
  <2>2. /\ c \notin AtStage(b, "block") /\ c \notin AtStage(b, "block")'
        /\ c \in AtStage(b, "file") /\ c \notin AtStage(b, "file")'
    BY <1>0, <1>1, <1>5, <2>1 DEF AtStage, Waiting
  <2>3. confirm' = [confirm EXCEPT ![c] = x] /\ "block" \in Stages /\ "file" \in Stages /\ x \in Confirms \cup {Waiting}
    BY <1>1, <1>5 DEF Stages
  <2>4. Cardinality(AtStage(b, "block")') = Cardinality(AtStage(b, "block"))
    BY <1>2, <1>3, <2>2, <2>3, StageMoved
  <2>5. /\ Cardinality(AtStage(b, "file")) = Cardinality(AtStage(b, "file")') + 1
        /\ Cardinality(AtStage(b, "file")') \in Nat
    BY <1>2, <1>3, <2>2, <2>3, StageMoved
  <2> QED
    BY <2>4, <2>5
<1>7. Uncaused(b)' = 1
  <2>1. c \in Confirming(b)'
    BY <1>1, <1>2, <1>5 DEF BatchTypeOK, Confirming
  <2> QED
    BY <2>1 DEF Uncaused
<1>8. /\ bl \in Seq(Nat) /\ f \in 0 .. MaxConfirms /\ f \in Nat /\ MaxConfirms \in Nat
      /\ payouts[b] \in Seq(Nat) /\ Len(payouts[b]) \in Nat /\ SumOf(payouts[b]) \in Nat
      /\ Len(bl) \in Nat /\ SumOf(bl) \in Nat
  BY <1>0, <1>3, BatchNumbers
<1> DEFINE T == batch[b].total
           F == batch[b].fees
<1>9. T \in Nat /\ F \in Nat /\ batch[b].count \in Nat /\ batch[b].count = Len(rows) /\ T = AmountOf(rows)
  BY <1>0, <1>4 DEF BatchTable, FiledRight
<1>10. more \in Seq(Nat) /\ Len(more) = Len(rows) /\ SumOf(more) = T
  <2>1. rows \in Files /\ FileAccepted(rows)
    BY <1>0, <1>4 DEF BatchTable, FiledRight
  <2>2. [i \in DOMAIN rows |-> rows[i].amount] \in Seq(Nat) /\ DOMAIN rows = 1 .. Len(rows) /\ Len(rows) \in Nat
    BY <2>1, AcceptedAmounts, FilesAreSequences
  <2>3. more \in Seq(Nat) /\ DOMAIN more = 1 .. Len(rows)
    BY <1>0, <2>2
  <2>4. SumOf(more) = AmountOf(rows)
    BY <1>0, Zenon DEF AmountOf
  <2> QED
    BY <1>9, <2>2, <2>3, <2>4
<1> HIDE DEF T, F
<1>11. pay \in Seq(Nat) /\ Len(pay) = Len(payouts[b]) + Len(rows) /\ SumOf(pay) = SumOf(payouts[b]) + T
  <2>1. pay = payouts[b] \o more
    BY <1>0
  <2>2. pay \in Seq(Nat) /\ Len(pay) = Len(payouts[b]) + Len(more)
    <3>1. \A p, q \in Seq(Nat) : p \o q \in Seq(Nat) /\ Len(p \o q) = Len(p) + Len(q)
      OBVIOUS
    <3> QED
      BY <1>8, <1>10, <2>1, <3>1
  <2>3. SumOf(pay) = SumOf(payouts[b]) + SumOf(more)
    BY <1>8, <1>10, <2>1, SumsOfAmounts
  <2> QED
    BY <1>10, <2>2, <2>3
<1>12. /\ Len(pay) >= Len(payouts[b]) /\ SumOf(pay) >= SumOf(payouts[b])
       /\ Len(pay) >= batch[b].count /\ SumOf(pay) >= T
  BY <1>8, <1>9, <1>11
<1>13. SumOf(pay) + Cardinality(AtStage(b, "file")') * T + Len(bl) * F <= SumOf(bl)
  <2> DEFINE k == Cardinality(AtStage(b, "file")')
  <2>1. /\ k \in Nat /\ Cardinality(AtStage(b, "file")) = k + 1
        /\ SumOf(payouts[b]) + Cardinality(AtStage(b, "file")) * T + Len(bl) * F <= SumOf(bl)
    BY <1>0, <1>3, <1>6, BatchNumbers DEF T, F
  <2> HIDE DEF k
  <2> DEFINE kt == k * T
             nf == Len(bl) * F
  <2>2. (k + 1) * T = kt + T /\ kt \in Nat /\ nf \in Nat
    <3>1. (k + 1) * T = k * T + T
      BY <1>9, <2>1, OneMore
    <3>2. \A i, j \in Nat : i * j \in Nat
      OBVIOUS
    <3> QED
      BY <1>8, <1>9, <2>1, <3>1, <3>2
  <2>3. SumOf(payouts[b]) + (kt + T) + nf <= SumOf(bl)
    BY <2>1, <2>2
  <2> HIDE DEF kt, nf
  <2>4. SumOf(pay) + kt + nf <= SumOf(bl)
    BY <1>8, <1>9, <1>11, <2>2, <2>3
  <2> QED
    BY <2>4 DEF k, kt, nf
<1>14. /\ Len(bl) + Cardinality(AtStage(b, "block")') <= MaxConfirms
       /\ f = MaxConfirms \/ Len(bl) + Cardinality(AtStage(b, "block")') <= f + Uncaused(b)'
  <2> DEFINE was == Len(bl) + Cardinality(AtStage(b, "block"))
  <2>1. /\ was \in Nat /\ was <= MaxConfirms /\ Uncaused(b) \in {0, 1}
        /\ f = MaxConfirms \/ was <= f + Uncaused(b)
    BY <1>0, <1>3, BatchNumbers
  <2>2. was = Len(bl) + Cardinality(AtStage(b, "block")')
    BY <1>6
  <2> HIDE DEF was
  <2>3. f = MaxConfirms \/ was <= f + Uncaused(b)'
    BY <1>7, <1>8, <2>1
  <2> QED
    BY <2>1, <2>2, <2>3
<1>15. /\ blocks' = [blocks EXCEPT ![b] = bl] /\ UNCHANGED batch /\ confirm' = [confirm EXCEPT ![c] = x]
       /\ failed' = [failed EXCEPT ![b] = f] /\ payouts' = [payouts EXCEPT ![b] = pay]
  BY <1>0, <1>1, <1>2 DEF BatchTypeOK
<1>16. x # Waiting =>
         /\ x.batch = b /\ FiledRight(x.read) /\ x.read.count = batch[b].count
         /\ x.read.total = batch[b].total /\ x.read.fees = batch[b].fees
         /\ x.at = "mark" => Len(pay) >= x.read.count /\ SumOf(pay) >= x.read.total
  BY <1>4, <1>5, <1>12 DEF T
<1>17. /\ confirm[c] # Waiting => confirm[c].batch = b
       /\ x \in Confirms \cup {Waiting}
  BY <1>0, <1>5
<1>18. SumOf(pay) + Cardinality(AtStage(b, "file")') * batch[b].total + Len(bl) * batch[b].fees <= SumOf(bl)
  BY <1>13 DEF T, F
<1>19. bl \in Seq(Nat) /\ pay \in Seq(Nat) /\ f \in 0 .. MaxConfirms
  BY <1>8, <1>11
<1>20. Len(pay) >= Len(payouts[b]) /\ SumOf(pay) >= SumOf(payouts[b])
  BY <1>12
<1> QED
  BY <1>3, <1>14, <1>15, <1>16, <1>17, <1>18, <1>19, <1>20, RowStays

LEMMA ConfirmBreaksKeeps ==
  ASSUME BatchInv, NEW c \in Confirmers, ConfirmBreaks(c)
  PROVE  BatchInv'
<1>0. SUFFICES ASSUME NEW b, b = confirm[c].batch, NEW bl, bl = blocks[b], NEW pay, pay = payouts[b],
                      NEW f, f = IF failed[b] < MaxConfirms THEN failed[b] + 1 ELSE failed[b], NEW x, x = Waiting
               PROVE  BatchInv'
  OBVIOUS
<1>1. /\ confirm[c].at \in {"file", "mark"} /\ confirm' = [confirm EXCEPT ![c] = x]
      /\ failed' = [failed EXCEPT ![b] = f] /\ UNCHANGED batch /\ UNCHANGED blocks /\ UNCHANGED payouts
  BY <1>0 DEF ConfirmBreaks, Break, Excused
<1>2. confirm[c].at \in Stages /\ BatchTypeOK
  BY <1>1 DEF Stages, BatchInv
<1>3. b \in BatchIds /\ batch[b] # NoBatch /\ batch[b] \in BatchTable
  BY <1>0, <1>2, UnderWay
<1>4. /\ Cardinality(AtStage(b, "block")') = Cardinality(AtStage(b, "block"))
      /\ \/ Cardinality(AtStage(b, "file")) = Cardinality(AtStage(b, "file")') + 1
         \/ Cardinality(AtStage(b, "file")) = Cardinality(AtStage(b, "file")')
      /\ Cardinality(AtStage(b, "file")') \in Nat
  <2>1. /\ c \notin AtStage(b, "block") /\ c \notin AtStage(b, "block")' /\ c \notin AtStage(b, "file")'
    BY <1>0, <1>1, <1>2 DEF AtStage, Waiting, BatchTypeOK
  <2>2. confirm' = [confirm EXCEPT ![c] = x] /\ "block" \in Stages /\ "file" \in Stages /\ x \in Confirms \cup {Waiting}
    BY <1>0, <1>1 DEF Stages
  <2>3. Cardinality(AtStage(b, "block")') = Cardinality(AtStage(b, "block"))
    BY <1>2, <1>3, <2>1, <2>2, StageMoved
  <2>4. /\ \/ Cardinality(AtStage(b, "file")) = Cardinality(AtStage(b, "file")') + 1
           \/ Cardinality(AtStage(b, "file")) = Cardinality(AtStage(b, "file")')
        /\ Cardinality(AtStage(b, "file")') \in Nat
    BY <1>2, <1>3, <2>1, <2>2, StageMoved
  <2> QED
    BY <2>3, <2>4
<1>5. /\ bl \in Seq(Nat) /\ pay \in Seq(Nat) /\ failed[b] \in 0 .. MaxConfirms /\ failed[b] \in Nat
      /\ MaxConfirms \in Nat /\ Len(pay) \in Nat /\ SumOf(pay) \in Nat /\ Len(bl) \in Nat /\ SumOf(bl) \in Nat
  BY <1>0, <1>3, BatchNumbers
<1>6. f \in 0 .. MaxConfirms /\ f \in Nat /\ (f = MaxConfirms \/ f = failed[b] + 1)
  BY <1>0, <1>5
<1>7. Uncaused(b)' \in {0, 1}
  BY DEF Uncaused
<1>8. /\ Len(bl) + Cardinality(AtStage(b, "block")') <= MaxConfirms
      /\ f = MaxConfirms \/ Len(bl) + Cardinality(AtStage(b, "block")') <= f + Uncaused(b)'
  <2> DEFINE was == Len(bl) + Cardinality(AtStage(b, "block"))
  <2>1. /\ was \in Nat /\ was <= MaxConfirms /\ Uncaused(b) \in {0, 1}
        /\ failed[b] = MaxConfirms \/ was <= failed[b] + Uncaused(b)
    BY <1>0, <1>3, BatchNumbers
  <2>2. was = Len(bl) + Cardinality(AtStage(b, "block")')
    BY <1>4
  <2> HIDE DEF was
  <2>3. f = MaxConfirms \/ was <= f + Uncaused(b)'
    BY <1>5, <1>6, <1>7, <2>1
  <2> QED
    BY <2>1, <2>2, <2>3
<1> DEFINE T == batch[b].total
           F == batch[b].fees
<1>9. T \in Nat /\ F \in Nat
  BY <1>3 DEF BatchTable
<1> HIDE DEF T, F
<1>10. SumOf(pay) + Cardinality(AtStage(b, "file")') * T + Len(bl) * F <= SumOf(bl)
  <2> DEFINE k == Cardinality(AtStage(b, "file")')
             old == Cardinality(AtStage(b, "file"))
  <2>1. /\ k \in Nat /\ (old = k + 1 \/ old = k)
        /\ SumOf(pay) + old * T + Len(bl) * F <= SumOf(bl)
    BY <1>0, <1>3, <1>4, BatchNumbers DEF T, F
  <2> HIDE DEF k, old
  <2> DEFINE kt == k * T
             ot == old * T
             nf == Len(bl) * F
  <2>2. kt \in Nat /\ nf \in Nat /\ ot \in Nat /\ kt <= ot
    <3>1. (k + 1) * T = k * T + T
      BY <1>9, <2>1, OneMore
    <3>2. \A i, j \in Nat : i * j \in Nat
      OBVIOUS
    <3> QED
      BY <1>5, <1>9, <2>1, <3>1, <3>2
  <2>3. SumOf(pay) + ot + nf <= SumOf(bl)
    BY <2>1
  <2> HIDE DEF kt, nf, ot
  <2>4. SumOf(pay) + kt + nf <= SumOf(bl)
    BY <1>5, <2>2, <2>3
  <2> QED
    BY <2>4 DEF k, kt, nf
<1>11. /\ blocks' = [blocks EXCEPT ![b] = bl] /\ UNCHANGED batch /\ confirm' = [confirm EXCEPT ![c] = x]
       /\ failed' = [failed EXCEPT ![b] = f] /\ payouts' = [payouts EXCEPT ![b] = pay]
  BY <1>0, <1>1, <1>2 DEF BatchTypeOK
<1>12. /\ x \in Confirms \cup {Waiting} /\ (confirm[c] # Waiting => confirm[c].batch = b)
       /\ x # Waiting =>
            /\ x.batch = b /\ FiledRight(x.read) /\ x.read.count = batch[b].count
            /\ x.read.total = batch[b].total /\ x.read.fees = batch[b].fees
            /\ x.at = "mark" => Len(pay) >= x.read.count /\ SumOf(pay) >= x.read.total
  BY <1>0
<1>13. SumOf(pay) + Cardinality(AtStage(b, "file")') * batch[b].total + Len(bl) * batch[b].fees <= SumOf(bl)
  BY <1>10 DEF T, F
<1>14. bl \in Seq(Nat) /\ pay \in Seq(Nat) /\ f \in 0 .. MaxConfirms
  BY <1>5, <1>6
<1>15. Len(pay) >= Len(payouts[b]) /\ SumOf(pay) >= SumOf(payouts[b])
  BY <1>0, <1>5
<1> QED
  BY <1>3, <1>8, <1>11, <1>12, <1>13, <1>14, <1>15, RowStays

LEMMA MarkBatchKeeps ==
  ASSUME BatchInv, NEW c \in Confirmers, MarkBatch(c)
  PROVE  BatchInv'
<1>0. SUFFICES ASSUME NEW b, b = confirm[c].batch, NEW x, x = Waiting,
                      NEW R, R = [batch[b] EXCEPT !.status = "processing", !.rows = << >>,
                                                  !.pending = Len(confirm[c].read.rows)]
               PROVE  BatchInv'
  OBVIOUS
<1>1. /\ confirm[c].at = "mark" /\ confirm' = [confirm EXCEPT ![c] = x]
      /\ UNCHANGED blocks /\ UNCHANGED payouts /\ UNCHANGED failed
  BY <1>0 DEF MarkBatch, Break
<1>2. confirm[c].at \in Stages
  BY <1>1 DEF Stages
<1>3. /\ BatchTypeOK /\ UntouchedOK /\ ConfirmsOK /\ BlocksOK /\ CoveredOK /\ BatchRowsOK /\ ProcessingIsFiled
  BY DEF BatchInv
<1>4. /\ b \in BatchIds /\ batch[b] # NoBatch /\ batch[b] \in BatchTable /\ confirm[c] # Waiting
      /\ confirm[c].read \in BatchTable /\ FiledRight(confirm[c].read)
      /\ confirm[c].read.count = batch[b].count /\ confirm[c].read.total = batch[b].total
      /\ Paid(b, confirm[c].read.count, confirm[c].read.total)
  BY <1>0, <1>1, <1>2, UnderWay
<1>5. batch' = [batch EXCEPT ![b] = R]
  BY <1>0, <1>3, <1>4 DEF MarkBatch, BatchTypeOK
<1>6. << >> \in Files /\ Len(confirm[c].read.rows) \in Nat
  <2>1. << >> \in [1 .. 0 -> FileRows] /\ 0 \in 0 .. MaxFileRows
    BY FileAssumption
  <2>2. << >> \in Files
    BY <2>1 DEF Files, SeqOf
  <2>3. confirm[c].read.rows \in Files
    BY <1>4 DEF BatchTable
  <2> QED
    BY <2>2, <2>3, FilesAreSequences
<1>7. /\ R \in BatchTable /\ R.status = "processing" /\ R.count = batch[b].count /\ R.total = batch[b].total
      /\ R.fees = batch[b].fees /\ R.pending = Len(confirm[c].read.rows) /\ R # NoBatch
  BY <1>0, <1>4, <1>6 DEF BatchTable, NoBatch
<1>8. batch'[b] = R /\ \A d \in BatchIds : d # b => batch'[d] = batch[d]
  BY <1>3, <1>4, <1>5 DEF BatchTypeOK
<1>9. confirm'[c] = Waiting /\ \A e \in Confirmers : e # c => confirm'[e] = confirm[e]
  BY <1>0, <1>1, <1>3 DEF BatchTypeOK
<1>10. BatchTypeOK'
  BY <1>0, <1>1, <1>3, <1>4, <1>5, <1>7 DEF BatchTypeOK
<1>11. UntouchedOK' /\ BatchRowsOK'
  BY <1>1, <1>3, <1>7, <1>8 DEF UntouchedOK, BatchRowsOK
<1>12. ConfirmsOK'
  <2>1. ASSUME NEW e \in Confirmers, confirm'[e] # Waiting
        PROVE  /\ batch'[confirm'[e].batch] # NoBatch /\ FiledRight(confirm'[e].read)
               /\ confirm'[e].read.count = batch'[confirm'[e].batch].count
               /\ confirm'[e].read.total = batch'[confirm'[e].batch].total
               /\ confirm'[e].read.fees = batch'[confirm'[e].batch].fees
               /\ confirm'[e].at = "mark" => /\ Len(payouts[confirm'[e].batch]) >= confirm'[e].read.count
                                             /\ SumOf(payouts[confirm'[e].batch]) >= confirm'[e].read.total
    <3>1. confirm'[e] = confirm[e] /\ confirm[e] # Waiting
      BY <1>9, <2>1
    <3>2. confirm[e].batch \in BatchIds
      BY <1>3, <3>1 DEF BatchTypeOK, Confirms
    <3>3. /\ batch[confirm[e].batch] # NoBatch /\ FiledRight(confirm[e].read)
          /\ confirm[e].read.count = batch[confirm[e].batch].count
          /\ confirm[e].read.total = batch[confirm[e].batch].total
          /\ confirm[e].read.fees = batch[confirm[e].batch].fees
          /\ confirm[e].at = "mark" => /\ Len(payouts[confirm[e].batch]) >= confirm[e].read.count
                                       /\ SumOf(payouts[confirm[e].batch]) >= confirm[e].read.total
      BY <1>3, <3>1 DEF ConfirmsOK, Paid
    <3>4. /\ batch'[confirm[e].batch] # NoBatch
          /\ batch'[confirm[e].batch].count = batch[confirm[e].batch].count
          /\ batch'[confirm[e].batch].total = batch[confirm[e].batch].total
          /\ batch'[confirm[e].batch].fees = batch[confirm[e].batch].fees
      BY <1>7, <1>8, <3>2, <3>3
    <3> QED
      BY <3>1, <3>3, <3>4, Zenon
  <2> QED
    BY <1>1, <2>1 DEF ConfirmsOK, Paid
<1>13. \A d \in BatchIds : /\ Cardinality(AtStage(d, "file")') = Cardinality(AtStage(d, "file"))
                           /\ Cardinality(AtStage(d, "block")') = Cardinality(AtStage(d, "block"))
  <2>1. ASSUME NEW d \in BatchIds, NEW stage \in {"file", "block"} PROVE AtStage(d, stage)' = AtStage(d, stage)
    <3>1. c \notin AtStage(d, stage) /\ c \notin AtStage(d, stage)'
      BY <1>1, <1>9 DEF AtStage, Waiting
    <3>2. \A e \in Confirmers : e # c => (e \in AtStage(d, stage) <=> e \in AtStage(d, stage)')
      BY <1>9, Zenon DEF AtStage
    <3>3. AtStage(d, stage) \subseteq Confirmers /\ AtStage(d, stage)' \subseteq Confirmers
      BY DEF AtStage
    <3> QED
      BY <3>1, <3>2, <3>3
  <2> QED
    BY <2>1
<1>14. CoveredOK'
  <2>1. ASSUME NEW d \in BatchIds, batch'[d] # NoBatch
        PROVE  SumOf(payouts[d]) + Cardinality(AtStage(d, "file")') * batch'[d].total + Len(blocks[d]) * batch'[d].fees
                 <= SumOf(blocks[d])
    <3>1. batch[d] # NoBatch /\ batch'[d].total = batch[d].total /\ batch'[d].fees = batch[d].fees
      BY <1>4, <1>7, <1>8, <2>1
    <3>2. SumOf(payouts[d]) + Cardinality(AtStage(d, "file")) * batch[d].total + Len(blocks[d]) * batch[d].fees
            <= SumOf(blocks[d])
      BY <1>3, <3>1 DEF CoveredOK
    <3> QED
      BY <1>13, <3>1, <3>2
  <2> QED
    BY <1>1, <2>1 DEF CoveredOK
<1>15. ProcessingIsFiled'
  <2>1. R.pending = R.count /\ Len(payouts[b]) >= R.count /\ SumOf(payouts[b]) >= R.total
    BY <1>4, <1>7 DEF FiledRight, Paid
  <2> QED
    BY <1>1, <1>3, <1>8, <2>1 DEF ProcessingIsFiled
<1>16. BlocksOK'
  <2>1. ASSUME NEW d \in BatchIds
        PROVE  /\ Len(blocks[d]) + Cardinality(AtStage(d, "block")') <= MaxConfirms
               /\ \/ failed[d] = MaxConfirms
                  \/ Len(blocks[d]) + Cardinality(AtStage(d, "block")') <= failed[d] + Uncaused(d)'
    <3> DEFINE was == Len(blocks[d]) + Cardinality(AtStage(d, "block"))
    <3>1. /\ was \in Nat /\ was <= MaxConfirms /\ Uncaused(d) \in {0, 1} /\ failed[d] \in Nat
          /\ failed[d] = MaxConfirms \/ was <= failed[d] + Uncaused(d)
      BY BatchNumbers
    <3>2. was = Len(blocks[d]) + Cardinality(AtStage(d, "block")')
      BY <1>13
    <3>3. Uncaused(d)' = 1 \/ Uncaused(d)' = Uncaused(d)
      <4>1. CASE d = b
        BY <1>7, <1>8, <4>1 DEF Uncaused
      <4>2. CASE d # b
        <5>1. confirm[c].batch # d /\ confirm[c].batch = b
          BY <1>0, <4>2
        <5>2. c \notin Confirming(d) /\ c \notin Confirming(d)'
          BY <1>9, <5>1 DEF Confirming, Waiting
        <5>3. \A e \in Confirmers : e # c => (e \in Confirming(d) <=> e \in Confirming(d)')
          BY <1>9, Zenon DEF Confirming
        <5>4. Confirming(d) \subseteq Confirmers /\ Confirming(d)' \subseteq Confirmers
          BY DEF Confirming
        <5>5. Confirming(d)' = Confirming(d)
          BY <5>2, <5>3, <5>4
        <5> QED
          BY <1>8, <4>2, <5>5 DEF Uncaused
      <4> QED
        BY <4>1, <4>2
    <3> HIDE DEF was
    <3>4. failed[d] = MaxConfirms \/ was <= failed[d] + Uncaused(d)'
      BY <3>1, <3>3
    <3> QED
      BY <3>1, <3>2, <3>4
  <2> QED
    BY <1>1, <2>1 DEF BlocksOK
<1> QED
  BY <1>10, <1>11, <1>12, <1>14, <1>15, <1>16 DEF BatchInv

----------------------------------------------------------------------------
LEMMA BatchesCovered == BatchInv => BatchesAreCovered
<1> SUFFICES ASSUME BatchInv PROVE BatchesAreCovered
  OBVIOUS
<1>1. PayoutsAreBlocked
  <2>1. ASSUME NEW b \in BatchIds, batch[b] # NoBatch
        PROVE  SumOf(payouts[b]) + Len(blocks[b]) * batch[b].fees <= SumOf(blocks[b])
    <3> DEFINE filing == Cardinality(AtStage(b, "file")) * batch[b].total
               fees == Len(blocks[b]) * batch[b].fees
    <3>1. batch[b] \in BatchTable
      BY <2>1 DEF BatchInv, BatchTypeOK
    <3>2. batch[b].total \in Nat /\ batch[b].fees \in Nat
      BY <3>1 DEF BatchTable
    <3>3. \A i, j \in Nat : i * j \in Nat
      OBVIOUS
    <3>4. filing \in Nat /\ fees \in Nat /\ SumOf(payouts[b]) \in Nat /\ SumOf(blocks[b]) \in Nat
      BY <3>2, <3>3, BatchNumbers
    <3>5. SumOf(payouts[b]) + filing + fees <= SumOf(blocks[b])
      BY <2>1, BatchNumbers
    <3> HIDE DEF filing, fees
    <3>6. SumOf(payouts[b]) + fees <= SumOf(blocks[b])
      BY <3>4, <3>5
    <3> QED
      BY <3>6 DEF fees
  <2> QED
    BY <2>1 DEF PayoutsAreBlocked
<1>2. ProcessingIsFiled
  BY DEF BatchInv
<1>3. BlockedAgainForCause
  <2>1. ASSUME NEW b \in BatchIds PROVE Len(blocks[b]) <= 1 + failed[b]
    BY BatchNumbers
  <2> QED
    BY <2>1 DEF BlockedAgainForCause
<1>4. TwinsWrittenApart
  <2>1. ASSUME NEW b \in BatchIds, batch[b].status = "validated", NEW i \in DOMAIN batch[b].rows,
               NEW j \in DOMAIN batch[b].rows, i # j, batch[b].rows[i].email = batch[b].rows[j].email,
               Beneficiary(batch[b].rows[i]) = Beneficiary(batch[b].rows[j])
        PROVE  batch[b].rows[i].written # batch[b].rows[j].written
    <3> DEFINE rows == batch[b].rows
    <3>1. batch[b] \in BatchTable /\ FileAccepted(rows)
      BY <2>1 DEF BatchInv, BatchTypeOK, BatchRowsOK, NoBatch, FiledRight
    <3>2. DOMAIN rows = 1 .. Len(rows) /\ Len(rows) \in Nat
      BY <3>1, FilesAreSequences DEF BatchTable
    <3>3. i < j \/ j < i
      BY <2>1, <3>2
    <3>4. ~Twins(rows, i, j) \/ ~Twins(rows, j, i)
      BY <3>1, <3>3 DEF FileAccepted
    <3> QED
      BY <2>1, <3>4 DEF Twins
  <2> QED
    BY <2>1 DEF TwinsWrittenApart
<1> QED
  BY <1>1, <1>2, <1>3, <1>4 DEF BatchesAreCovered

\* A confirmed batch pays what its file says and no more than is blocked for it, is blocked again only for a
\* cause, and pays twins only when they wrote the amount in different ways, for any number of batches, rows,
\* confirmations at once and failures between their steps (confirmBatchPayout, createIndividualPayouts).
THEOREM BatchesAreAlwaysCovered == BatchesSpec => []BatchesAreCovered
<1>1. BatchesInit => BatchInv
  BY BatchesStart
<1>2. BatchInv /\ [BatchesNext]_batchVars => BatchInv'
  <2> SUFFICES ASSUME BatchInv, [BatchesNext]_batchVars PROVE BatchInv'
    OBVIOUS
  <2>1. CASE UNCHANGED batchVars
    <3>1. /\ UNCHANGED batch /\ UNCHANGED blocks /\ UNCHANGED payouts /\ UNCHANGED confirm /\ UNCHANGED failed
      BY <2>1 DEF batchVars
    <3> QED
      BY <3>1 DEF BatchInv, BatchTypeOK, UntouchedOK, BatchRowsOK, ConfirmsOK, Paid, CoveredOK, BlocksOK,
                  ProcessingIsFiled, Uncaused, AtStage, Confirming
  <2>2. CASE \E b \in BatchIds, file \in Files : Upload(b, file)
    BY <2>2, UploadKeeps
  <2>3. ASSUME NEW c \in Confirmers,
               \/ \E b \in BatchIds : ConfirmBegin(c, b)
               \/ ConfirmRefused(c) \/ BlockBatch(c) \/ FilePayouts(c) \/ MarkBatch(c) \/ ConfirmBreaks(c)
        PROVE  BatchInv'
    BY <2>3, ConfirmBeginKeeps, ConfirmRefusedKeeps, BlockBatchKeeps, FilePayoutsKeeps, MarkBatchKeeps,
       ConfirmBreaksKeeps
  <2> QED
    BY <2>1, <2>2, <2>3 DEF BatchesNext
<1> QED
  BY <1>1, <1>2, BatchesCovered, PTL DEF BatchesSpec

----------------------------------------------------------------------------
(***************************************************************************)
(* Settlements, for any number of them at once, any providers, balances    *)
(* and chains.                                                             *)
(*                                                                         *)
(* The provider chosen is the first of its chain whose listed balance is   *)
(* enough, and the funds are there unless another settlement took them in  *)
(* between (ChoicesRight); what is told of a settlement was reported of    *)
(* it, in at most one final way (ReportsRight).                            *)
(***************************************************************************)
Balances == UNION {[known -> Nat] : known \in SUBSET SettleTsps}
Demands  == [at : {"chosen", "refused", "short"}, tsp : SettleTsps \cup {"none"}, chain : Chains,
             balances : Balances, raced : BOOLEAN]
Sent     == [at : {"sent"}, tsp : SettleTsps]
SettleTypeOK ==
  /\ funds \in [SettleTsps -> Nat]
  /\ demand \in [Settlements -> [at : {"idle"}] \cup Demands \cup Sent]
  /\ said \in [Settlements -> SUBSET ReportWords]
  /\ told \in [Settlements -> SUBSET {"COMPLETED", "FAILED", "CANCELLED", "PROCESSING"}]
  /\ acked \in [Settlements -> SUBSET ReportWords]
\* Tsp n is the first of the chain that is covered.
FirstCovered(d) ==
  \E n \in DOMAIN d.chain : /\ d.chain[n] = d.tsp /\ HasBalance(d.balances, d.chain[n])
                            /\ \A m \in 1 .. n - 1 : ~HasBalance(d.balances, d.chain[m])
ChoicesRight ==
  \A i \in Settlements : demand[i] \in Demands =>
    /\ demand[i].tsp # "none" => demand[i].tsp \in SettleTsps /\ FirstCovered(demand[i])
    /\ demand[i].at # "refused" => demand[i].tsp # "none"
    \* What was listed is still there unless another took it.
    /\ demand[i].at = "chosen" /\ ~demand[i].raced => funds[demand[i].tsp] >= 1
    /\ demand[i].at = "short" => demand[i].raced
\* Nothing is reported before the transfer, all that is told was reported, and a transfer ends in one way.
ReportsRight ==
  \A i \in Settlements :
    /\ demand[i] \notin Sent => said[i] = {} /\ told[i] = {} /\ acked[i] = {}
    /\ said[i] \cap DoneWords = {} \/ said[i] \cap LostWords = {}
    /\ \A status \in told[i] : \E w \in said[i] : status = SettlementStatus(demand[i].tsp, w)
SettleInv == SettleTypeOK /\ ChoicesRight /\ ReportsRight /\ AckedIsTold

----------------------------------------------------------------------------
\* The provider selected is the first of the chain whose listed balance is enough.
LEMMA SelectedIsFirst ==
  ASSUME NEW chain \in Chains, NEW balances \in Balances, SelectedTsp(chain, balances) # "none"
  PROVE  \E n \in DOMAIN chain : /\ chain[n] = SelectedTsp(chain, balances) /\ HasBalance(balances, chain[n])
                                 /\ \A m \in 1 .. n - 1 : ~HasBalance(balances, chain[m])
<1> DEFINE G == WithBalance(balances)
           R == Range(chain)
           a == Among(chain, G)
           b == Among(chain, R \ G)
           r == Reranked(chain, balances)
<1>1. /\ chain \in Seq(R) /\ DOMAIN chain = 1 .. Len(chain) /\ Len(chain) \in Nat
      /\ \A i \in DOMAIN chain : chain[i] \in R
  BY ChainsAssumption DEF Range
<1>2. \A t : t \in G <=> HasBalance(balances, t)
  BY DEF WithBalance, HasBalance
<1>3. chain # << >>
  BY DEF SelectedTsp
<1>4. r = a \o b /\ a \in Seq(R) /\ b \in Seq(R) /\ r \in Seq(R)
  BY <1>1, AmongIs DEF Reranked
<1>5. SelectedTsp(chain, balances) = IF r[1] \in G THEN r[1] ELSE FallbackTsp(r, balances)
  BY <1>2, <1>3 DEF SelectedTsp
<1>6. CASE \E j \in DOMAIN chain : chain[j] \in G
  <2> DEFINE J == {j \in DOMAIN chain : chain[j] \in G}
  <2>1. J \in SUBSET Nat /\ J # {}
    BY <1>1, <1>6
  <2>2. PICK j \in J : \A m \in J : j <= m
    BY <2>1, LeastNumber
  <2>3. j \in DOMAIN chain /\ chain[j] \in G /\ \A m \in 1 .. j - 1 : chain[m] \notin G
    BY <1>1, <2>2
  <2> HIDE DEF J, G, R
  <2>4. a # << >> /\ a[1] = chain[j]
    <3>1. chain \in Seq(R)
      BY <1>1
    <3> QED
      BY ONLY <2>3, <3>1, AmongIs
  <2> HIDE DEF a, b, r
  <2>5. r[1] = a[1]
    BY <1>4, <2>4
  <2> QED
    BY <1>2, <1>5, <2>3, <2>4, <2>5
<1>7. CASE \A j \in DOMAIN chain : chain[j] \notin G
  <2>1. a = << >>
    BY <1>1, <1>7, AmongIs
  <2>2. \A j \in DOMAIN b : \E i \in DOMAIN chain : b[j] = chain[i]
    <3> DEFINE others == R \ G
    <3>1. chain \in Seq(R) /\ b = Among(chain, others)
      BY <1>1
    <3> HIDE DEF others, b
    <3> QED
      BY <3>1, AmongIs
  <2>3. 1 \in DOMAIN chain /\ chain[1] \in R \ G
    BY <1>1, <1>3, <1>7
  <2> HIDE DEF G, R, a
  <2>4. b # << >>
    BY <1>1, <2>3, AmongIs
  <2> HIDE DEF b, r
  <2>5. r = b
    BY <1>4, <2>1
  <2>6. \A j \in DOMAIN r : r[j] \notin G
    BY <1>7, <2>2, <2>5
  <2>7. Among(r, G) = << >>
    BY <1>4, <2>6, AmongIs
  <2>8. FallbackTsp(r, balances) = "none"
    BY <2>7 DEF FallbackTsp, G
  <2>9. 1 \in DOMAIN r
    BY <1>4, <2>4, <2>5
  <2> QED
    BY <1>5, <2>6, <2>8, <2>9
<1> QED
  BY <1>6, <1>7

LEMMA SettlementsStart == SettlementsInit => SettleInv
<1> SUFFICES ASSUME SettlementsInit PROVE SettleInv
  OBVIOUS
<1>1. \A i \in Settlements : demand[i] = [at |-> "idle"] /\ said[i] = {} /\ told[i] = {} /\ acked[i] = {}
  BY DEF SettlementsInit
<1>2. [at |-> "idle"] \notin Demands /\ [at |-> "idle"] \notin Sent /\ [at |-> "idle"] \in [at : {"idle"}]
  BY DEF Demands, Sent
<1>3. 0 .. MaxFunds \in SUBSET Nat
  OBVIOUS
<1>4. SettleTypeOK
  BY <1>2, <1>3 DEF SettlementsInit, SettleTypeOK
<1>5. ChoicesRight /\ ReportsRight
  BY <1>1, <1>2 DEF ChoicesRight, ReportsRight
<1>6. AckedIsTold
  BY <1>1 DEF AckedIsTold
<1> QED
  BY <1>4, <1>5, <1>6 DEF SettleInv

LEMMA SettleBeginKeeps == ASSUME SettleInv, NEW i \in Settlements, SettleBegin(i) PROVE SettleInv'
<1>1. PICK chain \in Chains, known \in SUBSET SettleTsps :
        LET balances == [t \in known |-> funds[t]]
            tsp == SelectedTsp(chain, balances)
        IN demand' = [demand EXCEPT ![i] =
             [at |-> IF tsp # "none" /\ PaysOut(tsp) THEN "chosen" ELSE "refused", tsp |-> tsp,
              chain |-> chain, balances |-> balances, raced |-> FALSE]]
  BY DEF SettleBegin
<1> DEFINE balances == [t \in known |-> funds[t]]
           tsp == SelectedTsp(chain, balances)
           stage == IF tsp # "none" /\ PaysOut(tsp) THEN "chosen" ELSE "refused"
           d == [at |-> stage, tsp |-> tsp, chain |-> chain, balances |-> balances, raced |-> FALSE]
<1>2. /\ demand' = [demand EXCEPT ![i] = d] /\ demand[i].at \in {"idle", "refused"}
      /\ UNCHANGED funds /\ UNCHANGED said /\ UNCHANGED told /\ UNCHANGED acked
  BY <1>1 DEF SettleBegin
<1>3. balances \in Balances
  <2>1. balances \in [known -> Nat]
    BY DEF SettleInv, SettleTypeOK
  <2> QED
    BY <2>1 DEF Balances
<1>4. \A t : HasBalance(balances, t) => t \in SettleTsps /\ funds[t] >= 1
  BY DEF HasBalance
<1> HIDE DEF balances
<1>5. tsp # "none" => \E n \in DOMAIN chain : /\ chain[n] = tsp /\ HasBalance(balances, chain[n])
                                              /\ \A m \in 1 .. n - 1 : ~HasBalance(balances, chain[m])
  BY <1>3, SelectedIsFirst
<1>6. tsp # "none" => HasBalance(balances, tsp)
  BY <1>5
<1>7. tsp \in SettleTsps \cup {"none"}
  BY <1>4, <1>6
<1> HIDE DEF tsp
<1>8. stage \in {"chosen", "refused"} /\ (stage # "refused" => tsp # "none")
  OBVIOUS
<1> HIDE DEF stage
<1>9. /\ d \in Demands /\ d \notin Sent /\ d.at = stage /\ d.tsp = tsp /\ d.chain = chain
      /\ d.balances = balances
  BY <1>3, <1>7, <1>8 DEF Demands, Sent
<1>10. d.tsp # "none" => FirstCovered(d)
  BY <1>5, <1>9 DEF FirstCovered
<1> HIDE DEF d
<1>11. \A j \in Settlements : demand'[j] = IF j = i THEN d ELSE demand[j]
  BY <1>2 DEF SettleInv, SettleTypeOK
<1>12. SettleTypeOK'
  BY <1>2, <1>9 DEF SettleInv, SettleTypeOK
<1>13. demand[i] \notin Sent
  BY <1>2 DEF Sent
<1>14. ChoicesRight'
  <2>1. ASSUME NEW j \in Settlements, demand'[j] \in Demands
        PROVE  /\ demand'[j].tsp # "none" => demand'[j].tsp \in SettleTsps /\ FirstCovered(demand'[j])
               /\ demand'[j].at # "refused" => demand'[j].tsp # "none"
               /\ demand'[j].at = "chosen" /\ ~demand'[j].raced => funds[demand'[j].tsp] >= 1
               /\ demand'[j].at = "short" => demand'[j].raced
    <3>1. CASE j = i
      <4>1. demand'[j] = d
        BY <1>11, <3>1
      <4> QED
        BY <1>4, <1>6, <1>7, <1>8, <1>9, <1>10, <4>1
    <3>2. CASE j # i
      <4>1. demand'[j] = demand[j]
        BY <1>11, <3>2
      <4> QED
        BY <2>1, <4>1 DEF SettleInv, ChoicesRight
    <3> QED
      BY <3>1, <3>2
  <2> QED
    BY <1>2, <2>1 DEF ChoicesRight
<1>15. ReportsRight'
  BY <1>2, <1>9, <1>11, <1>13 DEF SettleInv, ReportsRight
<1>16. AckedIsTold'
  BY <1>2, <1>8, <1>9, <1>11 DEF SettleInv, AckedIsTold
<1> QED
  BY <1>12, <1>14, <1>15, <1>16 DEF SettleInv

LEMMA TransferKeeps == ASSUME SettleInv, NEW i \in Settlements, Transfer(i) PROVE SettleInv'
<1> DEFINE t == demand[i].tsp
<1>1. demand[i].at = "chosen" /\ demand[i] \in Demands /\ demand[i] \notin Sent
  BY DEF Transfer, SettleInv, SettleTypeOK, Sent
<1>2. t \in SettleTsps /\ (~demand[i].raced => funds[t] >= 1)
  BY <1>1 DEF SettleInv, ChoicesRight
<1>3. UNCHANGED told /\ UNCHANGED acked
  BY DEF Transfer
<1>4. said[i] = {} /\ told[i] = {} /\ acked[i] = {}
  BY <1>1 DEF SettleInv, ReportsRight
<1>5. CASE funds[t] >= 1
  <2> DEFINE Raced(j) == demand[j].at = "chosen" /\ demand[j].tsp = t
             sent == [at |-> "sent", tsp |-> t]
  <2>1. PICK w \in OpenWords : said' = [said EXCEPT ![i] = {w}]
    BY <1>5 DEF Transfer
  <2>2. /\ funds' = [funds EXCEPT ![t] = @ - 1]
        /\ demand' = [j \in Settlements |-> IF j = i THEN sent
                                            ELSE IF Raced(j) THEN [demand[j] EXCEPT !.raced = TRUE] ELSE demand[j]]
    BY <1>5 DEF Transfer
  <2>3. sent \in Sent /\ sent.tsp = t /\ sent \notin Demands /\ sent.at = "sent"
    BY <1>2 DEF Sent, Demands
  <2> HIDE DEF sent
  <2>4. ASSUME NEW j \in Settlements, Raced(j)
        PROVE  /\ demand[j] \in Demands /\ [demand[j] EXCEPT !.raced = TRUE] \in Demands
               /\ [demand[j] EXCEPT !.raced = TRUE] \notin Sent
               /\ [demand[j] EXCEPT !.raced = TRUE].at = "chosen"
               /\ [demand[j] EXCEPT !.raced = TRUE].tsp = t
               /\ [demand[j] EXCEPT !.raced = TRUE].raced = TRUE
               /\ [demand[j] EXCEPT !.raced = TRUE].chain = demand[j].chain
               /\ [demand[j] EXCEPT !.raced = TRUE].balances = demand[j].balances
    <3>1. demand[j] \in Demands
      BY <2>4 DEF SettleInv, SettleTypeOK, Sent
    <3> QED
      BY <2>4, <3>1 DEF Demands, Sent
  <2>5. ASSUME NEW j \in Settlements
        PROVE  /\ j = i => demand'[j] = sent
               /\ j # i /\ Raced(j) => demand'[j] = [demand[j] EXCEPT !.raced = TRUE]
               /\ j # i /\ ~Raced(j) => demand'[j] = demand[j]
    BY <2>2
  <2>6. demand' \in [Settlements -> [at : {"idle"}] \cup Demands \cup Sent]
    <3>1. \A j \in Settlements : demand'[j] \in [at : {"idle"}] \cup Demands \cup Sent
      BY <2>3, <2>4, <2>5 DEF SettleInv, SettleTypeOK
    <3>2. demand' = [j \in Settlements |-> demand'[j]]
      BY <2>2
    <3> QED
      BY <3>1, <3>2
  <2>7. funds' \in [SettleTsps -> Nat] /\ \A u \in SettleTsps : funds'[u] = IF u = t THEN funds[t] - 1 ELSE funds[u]
    BY <1>2, <1>5, <2>2 DEF SettleInv, SettleTypeOK
  <2>8. w \in ReportWords /\ {w} \cap DoneWords = {}
    BY DEF OpenWords, DoneWords
  <2>9. SettleTypeOK'
    BY <1>3, <2>1, <2>6, <2>7, <2>8 DEF SettleInv, SettleTypeOK
  <2>10. ChoicesRight'
    <3>1. ASSUME NEW j \in Settlements, demand'[j] \in Demands
          PROVE  /\ demand'[j].tsp # "none" => demand'[j].tsp \in SettleTsps /\ FirstCovered(demand'[j])
                 /\ demand'[j].at # "refused" => demand'[j].tsp # "none"
                 /\ demand'[j].at = "chosen" /\ ~demand'[j].raced => funds'[demand'[j].tsp] >= 1
                 /\ demand'[j].at = "short" => demand'[j].raced
      <4>1. j # i
        BY <2>3, <2>5, <3>1
      <4>2. CASE Raced(j)
        <5> DEFINE e == [demand[j] EXCEPT !.raced = TRUE]
        <5>1. demand'[j] = e
          BY <2>5, <4>1, <4>2
        <5>2. demand[j] \in Demands /\ e.at = "chosen" /\ e.tsp = t /\ e.raced = TRUE /\ e.chain = demand[j].chain
              /\ e.balances = demand[j].balances
          BY <2>4, <4>2
        <5>3. demand[j].tsp = t /\ demand[j].at = "chosen"
          BY <4>2
        <5>4. FirstCovered(demand[j]) /\ t # "none"
          BY <5>2, <5>3 DEF SettleInv, ChoicesRight
        <5> HIDE DEF e
        <5>5. FirstCovered(e)
          BY <5>2, <5>3, <5>4 DEF FirstCovered
        <5> QED
          BY <1>2, <5>1, <5>2, <5>4, <5>5
      <4>3. CASE ~Raced(j)
        <5>1. demand'[j] = demand[j] /\ demand[j] \in Demands
          BY <2>5, <3>1, <4>1, <4>3
        <5>2. /\ demand[j].tsp # "none" => demand[j].tsp \in SettleTsps /\ FirstCovered(demand[j])
              /\ demand[j].at # "refused" => demand[j].tsp # "none"
              /\ demand[j].at = "chosen" /\ ~demand[j].raced => funds[demand[j].tsp] >= 1
              /\ demand[j].at = "short" => demand[j].raced
          BY <5>1 DEF SettleInv, ChoicesRight
        <5>3. demand[j].at = "chosen" => demand[j].tsp # t
          BY <4>3
        <5> QED
          BY <2>7, <5>1, <5>2, <5>3
      <4> QED
        BY <4>2, <4>3
    <3> QED
      BY <3>1 DEF ChoicesRight
  <2>11. ASSUME NEW j \in Settlements, j # i
         PROVE  /\ said'[j] = said[j] /\ told'[j] = told[j] /\ acked'[j] = acked[j]
                /\ demand'[j] \in Sent <=> demand[j] \in Sent
                /\ demand'[j].tsp = demand[j].tsp
                /\ demand'[j].at = demand[j].at
    <3>1. said'[j] = said[j] /\ told'[j] = told[j] /\ acked'[j] = acked[j]
      BY <1>3, <2>1, <2>11 DEF SettleInv, SettleTypeOK
    <3>2. CASE Raced(j)
      <4>1. demand'[j] = [demand[j] EXCEPT !.raced = TRUE]
        BY <2>5, <2>11, <3>2
      <4>2. demand[j] \notin Sent
        BY <3>2 DEF Sent
      <4> QED
        BY <2>4, <3>1, <3>2, <4>1, <4>2
    <3>3. CASE ~Raced(j)
      <4>1. demand'[j] = demand[j]
        BY <2>5, <2>11, <3>3
      <4> QED
        BY <3>1, <4>1
    <3> QED
      BY <3>2, <3>3
  <2>12. said'[i] = {w} /\ told'[i] = {} /\ acked'[i] = {} /\ demand'[i] \in Sent
    BY <1>3, <1>4, <2>1, <2>3, <2>5 DEF SettleInv, SettleTypeOK
  <2>13. ReportsRight'
    <3>1. ASSUME NEW j \in Settlements
          PROVE  /\ demand'[j] \notin Sent => said'[j] = {} /\ told'[j] = {} /\ acked'[j] = {}
                 /\ said'[j] \cap DoneWords = {} \/ said'[j] \cap LostWords = {}
                 /\ \A status \in told'[j] : \E x \in said'[j] : status = SettlementStatus(demand'[j].tsp, x)
      <4>1. CASE j = i
        BY <2>8, <2>12, <4>1
      <4>2. CASE j # i
        <5>1. /\ demand[j] \notin Sent => said[j] = {} /\ told[j] = {} /\ acked[j] = {}
              /\ said[j] \cap DoneWords = {} \/ said[j] \cap LostWords = {}
              /\ \A status \in told[j] : \E x \in said[j] : status = SettlementStatus(demand[j].tsp, x)
          BY DEF SettleInv, ReportsRight
        <5> QED
          BY <2>11, <4>2, <5>1
      <4> QED
        BY <4>1, <4>2
    <3> QED
      BY <3>1 DEF ReportsRight
  <2>14. AckedIsTold'
    <3>1. ASSUME NEW j \in Settlements, demand'[j].at = "sent", demand'[j].tsp \in {"paytara", "kingdom_bank"},
                 NEW x \in acked'[j]
          PROVE  SettlementStatus(demand'[j].tsp, x) \in told'[j]
      <4>1. j # i
        BY <2>12, <3>1
      <4> QED
        BY <2>11, <3>1, <4>1 DEF SettleInv, AckedIsTold
    <3> QED
      BY <3>1 DEF AckedIsTold
  <2> QED
    BY <2>9, <2>10, <2>13, <2>14 DEF SettleInv
<1>6. CASE ~(funds[t] >= 1)
  <2> DEFINE e == [demand[i] EXCEPT !.at = "short"]
  <2>1. demand' = [demand EXCEPT ![i].at = "short"] /\ UNCHANGED funds /\ UNCHANGED said
    BY <1>6 DEF Transfer
  <2>2. \A j \in Settlements : demand'[j] = IF j = i THEN e ELSE demand[j]
    BY <2>1 DEF SettleInv, SettleTypeOK
  <2>3. /\ e \in Demands /\ e \notin Sent /\ e.at = "short" /\ e.tsp = t /\ e.raced = demand[i].raced
        /\ e.chain = demand[i].chain /\ e.balances = demand[i].balances
    BY <1>1 DEF Demands, Sent
  <2>4. FirstCovered(demand[i]) /\ t # "none" /\ demand[i].raced
    BY <1>1, <1>2, <1>6 DEF SettleInv, ChoicesRight
  <2>5. demand' = [demand EXCEPT ![i] = e]
    BY <2>1
  <2> HIDE DEF e
  <2>6. FirstCovered(e)
    BY <2>3, <2>4 DEF FirstCovered
  <2>7. SettleTypeOK'
    BY <1>3, <2>1, <2>3, <2>5 DEF SettleInv, SettleTypeOK
  <2>8. ChoicesRight'
    BY <1>2, <2>1, <2>2, <2>3, <2>4, <2>6 DEF SettleInv, ChoicesRight
  <2>9. ReportsRight'
    BY <1>1, <1>3, <2>1, <2>2, <2>3 DEF SettleInv, ReportsRight
  <2>10. AckedIsTold'
    BY <1>3, <2>1, <2>2, <2>3 DEF SettleInv, AckedIsTold
  <2> QED
    BY <2>7, <2>8, <2>9, <2>10 DEF SettleInv
<1> QED
  BY <1>5, <1>6

LEMMA SettleProgressKeeps == ASSUME SettleInv, NEW i \in Settlements, SettleProgress(i) PROVE SettleInv'
<1>1. PICK w \in DoneWords \cup LostWords :
        /\ said' = [said EXCEPT ![i] = @ \cup {w}]
        /\ funds' = IF w \in LostWords THEN [funds EXCEPT ![demand[i].tsp] = @ + 1] ELSE funds
  BY DEF SettleProgress
<1>2. /\ said[i] # {} /\ said[i] \cap (DoneWords \cup LostWords) = {}
      /\ UNCHANGED demand /\ UNCHANGED told /\ UNCHANGED acked
  BY DEF SettleProgress
<1>3. demand[i] \in Sent /\ demand[i].tsp \in SettleTsps
  BY <1>2 DEF SettleInv, ReportsRight, Sent
<1>4. w \in ReportWords /\ (w \notin DoneWords \/ w \notin LostWords)
  BY <1>1 DEF DoneWords, LostWords
<1>5. funds' \in [SettleTsps -> Nat] /\ \A u \in SettleTsps : funds'[u] >= funds[u]
  BY <1>1, <1>3 DEF SettleInv, SettleTypeOK
<1>6. \A j \in Settlements : said'[j] = IF j = i THEN said[i] \cup {w} ELSE said[j]
  BY <1>1 DEF SettleInv, SettleTypeOK
<1>7. SettleTypeOK'
  BY <1>1, <1>2, <1>4, <1>5 DEF SettleInv, SettleTypeOK
<1>8. ChoicesRight'
  <2>1. ASSUME NEW j \in Settlements, demand[j] \in Demands, demand[j].at = "chosen" /\ ~demand[j].raced
        PROVE  funds'[demand[j].tsp] >= 1
    <3>1. demand[j].tsp \in SettleTsps /\ funds[demand[j].tsp] >= 1
      BY <2>1 DEF SettleInv, ChoicesRight
    <3>2. funds[demand[j].tsp] \in Nat /\ funds'[demand[j].tsp] \in Nat
      BY <1>5, <3>1 DEF SettleInv, SettleTypeOK
    <3> QED
      BY <1>5, <3>1, <3>2
  <2> QED
    BY <1>2, <2>1 DEF SettleInv, ChoicesRight
<1>9. ReportsRight'
  BY <1>2, <1>3, <1>4, <1>6 DEF SettleInv, ReportsRight
<1>10. AckedIsTold'
  BY <1>2 DEF SettleInv, AckedIsTold
<1> QED
  BY <1>7, <1>8, <1>9, <1>10 DEF SettleInv

LEMMA StatusIsWord ==
  \A tsp, w : SettlementStatus(tsp, w) \in {"COMPLETED", "FAILED", "CANCELLED", "PROCESSING"}
BY DEF SettlementStatus

LEMMA SettleReportKeeps == ASSUME SettleInv, NEW i \in Settlements, SettleReport(i) PROVE SettleInv'
<1> DEFINE status(w) == SettlementStatus(demand[i].tsp, w)
<1>1. PICK w \in said[i] :
        /\ told' = [told EXCEPT ![i] = @ \cup {status(w)}]
        /\ acked' = acked \/ acked' = [acked EXCEPT ![i] = @ \cup {w}]
  BY DEF SettleReport
<1>2. demand[i].at = "sent" /\ UNCHANGED funds /\ UNCHANGED demand /\ UNCHANGED said
  BY DEF SettleReport
<1>3. demand[i] \in Sent
  BY <1>2 DEF SettleInv, SettleTypeOK, Demands
<1>4. w \in ReportWords /\ status(w) \in {"COMPLETED", "FAILED", "CANCELLED", "PROCESSING"}
  BY StatusIsWord DEF SettleInv, SettleTypeOK
<1> HIDE DEF status
<1>5. \A j \in Settlements : told'[j] = IF j = i THEN told[i] \cup {status(w)} ELSE told[j]
  BY <1>1 DEF SettleInv, SettleTypeOK
<1>6. \A j \in Settlements : acked'[j] = acked[j] \/ (j = i /\ acked'[j] = acked[j] \cup {w})
  <2>1. CASE acked' = acked
    BY <2>1
  <2>2. CASE acked' = [acked EXCEPT ![i] = @ \cup {w}]
    BY <2>2 DEF SettleInv, SettleTypeOK
  <2> QED
    BY <1>1, <2>1, <2>2
<1>7. SettleTypeOK'
  BY <1>1, <1>2, <1>4 DEF SettleInv, SettleTypeOK
<1>8. ChoicesRight'
  BY <1>2 DEF SettleInv, ChoicesRight
<1>9. ReportsRight'
  <2>1. ASSUME NEW j \in Settlements
        PROVE  /\ demand[j] \notin Sent => said[j] = {} /\ told'[j] = {} /\ acked'[j] = {}
               /\ said[j] \cap DoneWords = {} \/ said[j] \cap LostWords = {}
               /\ \A s \in told'[j] : \E x \in said[j] : s = SettlementStatus(demand[j].tsp, x)
    BY <1>3, <1>5, <1>6 DEF SettleInv, ReportsRight, status
  <2> QED
    BY <1>2, <2>1 DEF ReportsRight
<1>10. AckedIsTold'
  <2>1. ASSUME NEW j \in Settlements, demand[j].at = "sent", demand[j].tsp \in {"paytara", "kingdom_bank"},
               NEW x \in acked'[j]
        PROVE  SettlementStatus(demand[j].tsp, x) \in told'[j]
    <3>1. CASE x \in acked[j]
      <4>1. SettlementStatus(demand[j].tsp, x) \in told[j]
        BY <2>1, <3>1 DEF SettleInv, AckedIsTold
      <4> QED
        BY <1>5, <4>1
    <3>2. CASE x \notin acked[j]
      <4>1. j = i /\ x = w
        BY <1>6, <2>1, <3>2
      <4> QED
        BY <1>5, <4>1 DEF status
    <3> QED
      BY <3>1, <3>2
  <2> QED
    BY <1>2, <2>1 DEF AckedIsTold
<1> QED
  BY <1>7, <1>8, <1>9, <1>10 DEF SettleInv

LEMMA SettleReportGenericKeeps ==
  ASSUME SettleInv, NEW i \in Settlements, SettleReportGeneric(i) PROVE SettleInv'
<1>1. /\ demand[i].at = "sent" /\ demand[i].tsp \notin {"paytara", "kingdom_bank"}
      /\ acked' = [acked EXCEPT ![i] = @ \cup said[i]]
      /\ UNCHANGED funds /\ UNCHANGED demand /\ UNCHANGED said /\ UNCHANGED told
  BY DEF SettleReportGeneric
<1>2. demand[i] \in Sent
  BY <1>1 DEF SettleInv, SettleTypeOK, Demands
<1>3. \A j \in Settlements : j # i => acked'[j] = acked[j]
  BY <1>1 DEF SettleInv, SettleTypeOK
<1>4. SettleTypeOK'
  BY <1>1 DEF SettleInv, SettleTypeOK
<1>5. ChoicesRight'
  BY <1>1 DEF SettleInv, ChoicesRight
<1>6. ReportsRight'
  BY <1>1, <1>2, <1>3 DEF SettleInv, ReportsRight
<1>7. AckedIsTold'
  BY <1>1, <1>3 DEF SettleInv, AckedIsTold
<1> QED
  BY <1>4, <1>5, <1>6, <1>7 DEF SettleInv

LEMMA SettleInvEnough == ASSUME SettleInv PROVE SettlementsAreSound
<1>1. FirstCoveredChosen
  <2>1. ASSUME NEW i \in Settlements, demand[i].at \in {"chosen", "refused"}, demand[i].tsp # "none"
        PROVE  \E n \in DOMAIN demand[i].chain :
                 LET Covered(m) == /\ demand[i].chain[m] \in DOMAIN demand[i].balances
                                   /\ demand[i].balances[demand[i].chain[m]] > 0
                 IN demand[i].chain[n] = demand[i].tsp /\ Covered(n) /\ \A m \in 1 .. n - 1 : ~Covered(m)
    <3>1. demand[i] \in Demands
      BY <2>1 DEF SettleInv, SettleTypeOK, Sent
    <3> DEFINE d == demand[i]
    <3>2. PICK n \in DOMAIN d.chain : /\ d.chain[n] = d.tsp /\ HasBalance(d.balances, d.chain[n])
                                      /\ \A m \in 1 .. n - 1 : ~HasBalance(d.balances, d.chain[m])
      BY <2>1, <3>1 DEF SettleInv, ChoicesRight, FirstCovered
    <3>3. PICK known \in SUBSET SettleTsps : d.balances \in [known -> Nat]
      BY <3>1 DEF Demands, Balances
    <3>4. \A t : HasBalance(d.balances, t) <=> t \in DOMAIN d.balances /\ d.balances[t] > 0
      BY <3>3 DEF HasBalance
    <3> QED
      BY <3>2, <3>4
  <2> QED
    BY <2>1 DEF FirstCoveredChosen
<1>2. ShortOnlyIfRaced
  <2>1. ASSUME NEW i \in Settlements, demand[i].at = "short" PROVE demand[i].raced
    <3>1. demand[i] \in Demands
      BY <2>1 DEF SettleInv, SettleTypeOK, Sent
    <3> QED
      BY <2>1, <3>1 DEF SettleInv, ChoicesRight
  <2> QED
    BY <2>1 DEF ShortOnlyIfRaced
<1>3. ToldIsSo
  <2>1. ASSUME NEW i \in Settlements, "COMPLETED" \in told[i] PROVE said[i] \cap DoneWords # {}
    <3>1. PICK w \in said[i] : SettlementStatus(demand[i].tsp, w) = "COMPLETED"
      BY <2>1 DEF SettleInv, ReportsRight
    <3>2. w \in ReportWords
      BY DEF SettleInv, SettleTypeOK
    <3>3. w \in DoneWords
      BY <3>1, <3>2 DEF SettlementStatus, DoneWords
    <3> QED
      BY <3>3
  <2>2. ASSUME NEW i \in Settlements, "FAILED" \in told[i], said[i] \cap DoneWords # {} PROVE "TIMEOUT" \in said[i]
    <3>1. PICK w \in said[i] : SettlementStatus(demand[i].tsp, w) = "FAILED"
      BY <2>2 DEF SettleInv, ReportsRight
    <3>2. w \in ReportWords /\ said[i] \cap LostWords = {}
      BY <2>2 DEF SettleInv, SettleTypeOK, ReportsRight
    <3>3. w \in LostWords \/ w = "TIMEOUT"
      BY <3>1, <3>2 DEF SettlementStatus, LostWords
    <3> QED
      BY <3>2, <3>3
  <2> QED
    BY <2>1, <2>2 DEF ToldIsSo
<1> QED
  BY <1>1, <1>2, <1>3 DEF SettleInv, SettlementsAreSound

\* A settlement goes to the first provider of the routing's chain that is listed as having the money and fails
\* there only if another took it first, and the wallet hears every report that is acknowledged and nothing
\* untrue but of a timeout, whatever the chains, balances and words (createMerchantSettlement and the webhooks).
THEOREM SettlementsAreAlwaysSound == SettlementsSpec => []SettlementsAreSound
<1>1. SettlementsInit => SettleInv
  BY SettlementsStart
<1>2. SettleInv /\ [SettlementsNext]_settlementVars => SettleInv'
  <2> SUFFICES ASSUME SettleInv, [SettlementsNext]_settlementVars PROVE SettleInv'
    OBVIOUS
  <2>1. CASE UNCHANGED settlementVars
    BY <2>1 DEF settlementVars, SettleInv, SettleTypeOK, ChoicesRight, ReportsRight, AckedIsTold
  <2>2. CASE SettlementsNext
    BY <2>2, SettleBeginKeeps, TransferKeeps, SettleProgressKeeps, SettleReportKeeps, SettleReportGenericKeeps
       DEF SettlementsNext
  <2> QED
    BY <2>1, <2>2
<1>3. SettleInv => SettlementsAreSound
  BY SettleInvEnough
<1> QED
  BY <1>1, <1>2, <1>3, PTL DEF SettlementsSpec

----------------------------------------------------------------------------
(***************************************************************************)
(* The metrics of the providers, for any number of runs at once, any       *)
(* configurations and rates.                                               *)
(*                                                                         *)
(* A row that a run found is still there when the run writes to it, under  *)
(* its number (FoundIsThere).  The rows of a provider and the runs about   *)
(* to insert one for it are one at most, or as many as there are runs once *)
(* two of them have raced (RowsAllowed).                                   *)
(***************************************************************************)
Configs    == DOMAIN ConfigRows
MetricRows == [id : Nat, rate : HealthRates, config : Configs, recent : BOOLEAN]
SweepSteps ==
  [at : {"measure"}, todo : Seq(MonitoredTsps)] \cup [at : {"find"}, todo : Seq(MonitoredTsps), rate : HealthRates]
    \cup [at : {"write"}, todo : Seq(MonitoredTsps), rate : HealthRates, found : Nat]
MonitorTypeOK ==
  /\ active \in SUBSET Configs
  /\ configCache \in UNION {[known -> Configs] : known \in SUBSET MonitoredTsps}
  /\ sweep \in [Sweeps -> SweepSteps \cup {Asleep}]
  /\ \A s \in Sweeps : sweep[s] # Asleep => sweep[s].todo # << >>
  /\ metrics \in [MonitoredTsps -> Seq(MetricRows)]
  /\ overlapped \in SUBSET MonitoredTsps
\* A row that was found is there to be written to, and every row has a number.
FoundIsThere ==
  /\ \A p \in MonitoredTsps : \A i \in DOMAIN metrics[p] : metrics[p][i].id # 0
  /\ \A s \in Sweeps : sweep[s].at = "write" /\ sweep[s].found # 0 =>
       \E i \in DOMAIN metrics[Head(sweep[s].todo)] : metrics[Head(sweep[s].todo)][i].id = sweep[s].found
\* The runs about to insert a row for p.
Inserters(p) == {s \in Sweeps : sweep[s].at = "write" /\ Head(sweep[s].todo) = p /\ sweep[s].found = 0}
Allowed(p)   == IF p \in overlapped THEN Cardinality(Sweeps) ELSE 1
RowsAllowed  == \A p \in MonitoredTsps : Len(metrics[p]) + Cardinality(Inserters(p)) <= Allowed(p)
MonitorInv == MonitorTypeOK /\ FoundIsThere /\ RowsAllowed

----------------------------------------------------------------------------
LEMMA ConfigsAre == ConfigRows \in Seq(MonitoredTsps) /\ Configs = 1 .. Len(ConfigRows) /\ Len(ConfigRows) \in Nat
BY RowsAssumption DEF Configs, MonitoredTsps, Range

LEMMA ListedAreMonitored ==
  ASSUME MonitorInv
  PROVE  /\ ListedNow \in Seq(MonitoredTsps) /\ ListedNow # << >>
         /\ <<"kingdom_bank">> \in Seq(MonitoredTsps) /\ <<"kingdom_bank">> # << >>
<1> DEFINE all == [n \in DOMAIN ConfigRows |-> n]
           rows == Among(all, active)
<1>1. all \in Seq(Configs)
  BY ConfigsAre
<1> HIDE DEF all
<1>2. rows \in Seq(Configs)
  BY <1>1, AmongIs
<1>3. ListedNow = IF rows = << >> THEN <<"kingdom_bank">> ELSE [i \in DOMAIN rows |-> ConfigRows[rows[i]]]
  BY DEF ListedNow, all
<1> HIDE DEF rows
<1>4. /\ DOMAIN rows = 1 .. Len(rows) /\ Len(rows) \in Nat /\ (rows # << >> => Len(rows) > 0)
      /\ \A i \in DOMAIN rows : rows[i] \in Configs
  BY <1>2
<1>5. \A n \in Configs : ConfigRows[n] \in MonitoredTsps
  BY ConfigsAre
<1>6. [i \in DOMAIN rows |-> ConfigRows[rows[i]]] \in [1 .. Len(rows) -> MonitoredTsps]
  BY <1>4, <1>5
<1> DEFINE names == [i \in DOMAIN rows |-> ConfigRows[rows[i]]]
<1>7. names \in Seq(MonitoredTsps) /\ (rows # << >> => 1 \in DOMAIN names)
  BY <1>4, <1>6
<1> HIDE DEF names
<1>8. rows # << >> => names # << >>
  BY <1>7
<1>9. "kingdom_bank" \in MonitoredTsps
  BY DEF MonitoredTsps
<1>10. <<"kingdom_bank">> \in Seq(MonitoredTsps) /\ <<"kingdom_bank">> # << >>
  BY <1>9
<1> QED
  BY <1>3, <1>7, <1>8, <1>10 DEF names

\* A provider's active rows have a first and a last one.
LEMMA RowsHaveEnds ==
  ASSUME MonitorInv, NEW p, RowsFor(p) # {}
  PROVE  /\ (CHOOSE n \in RowsFor(p) : \A m \in RowsFor(p) : n <= m) \in Configs
         /\ (CHOOSE n \in RowsFor(p) : \A m \in RowsFor(p) : m <= n) \in Configs
<1> DEFINE R == RowsFor(p)
           k == Len(ConfigRows)
           T == {n \in Nat : n <= k /\ k - n \in R}
<1>1. R \in SUBSET Configs /\ R \in SUBSET Nat /\ k \in Nat /\ \A n \in R : n <= k
  <2>1. R \in SUBSET Configs
    BY DEF RowsFor, MonitorInv, MonitorTypeOK
  <2>2. Configs = 1 .. k /\ k \in Nat
    BY ConfigsAre
  <2> HIDE DEF R, k
  <2> QED
    BY <2>1, <2>2
<1> HIDE DEF R, k
<1>2. \E n \in R : \A m \in R : n <= m
  BY <1>1, LeastNumber DEF R
<1>3. T # {}
  <2>1. PICK n \in R : TRUE
    BY DEF R
  <2>2. k - n \in Nat /\ k - n <= k /\ k - (k - n) = n
    BY <1>1, <2>1
  <2> QED
    BY <2>1, <2>2
<1>4. PICK n \in T : \A m \in T : n <= m
  <2>1. T \in SUBSET Nat
    OBVIOUS
  <2> HIDE DEF T
  <2> QED
    BY <1>3, <2>1, LeastNumber
<1>5. ASSUME NEW m \in R PROVE m <= k - n
  <2>1. m \in Nat /\ m <= k
    BY <1>1
  <2>2. k - m \in Nat /\ k - m <= k /\ k - (k - m) = m
    BY <1>1, <2>1
  <2>3. k - m \in T
    BY <2>2
  <2>4. n <= k - m
    BY <1>4, <2>3
  <2> QED
    BY <1>1, <1>4, <2>1, <2>4
<1>6. \E l \in R : \A m \in R : m <= l
  BY <1>4, <1>5
<1> QED
  BY <1>1, <1>2, <1>6 DEF R

LEMMA ConfigType ==
  ASSUME MonitorInv, NEW p \in MonitoredTsps
  PROVE  ConfigOf(p) \in Configs \cup {0} /\ 0 \notin Configs
<1>1. configCache \in [DOMAIN configCache -> Configs]
  BY DEF MonitorInv, MonitorTypeOK
<1> QED
  BY <1>1, RowsHaveEnds, ConfigsAre DEF ConfigOf

\* The inserters of a provider are finitely many, and no more than there are runs.
LEMMA InsertersAre ==
  ASSUME NEW p
  PROVE  /\ IsFiniteSet(Inserters(p)) /\ Cardinality(Inserters(p)) \in Nat
         /\ Cardinality(Inserters(p)) <= Cardinality(Sweeps) /\ Cardinality(Sweeps) \in Nat
BY SweepsAssumption, FS_Subset, FS_CardinalityType DEF Inserters

----------------------------------------------------------------------------
LEMMA MonitoringStarts == MonitoringInit => MonitorInv
<1> SUFFICES ASSUME MonitoringInit PROVE MonitorInv
  OBVIOUS
<1>1. << >> \in Seq(MetricRows) /\ DOMAIN << >> = {} /\ Len(<< >>) = 0
  OBVIOUS
<1>2. configCache \in [{} -> Configs] /\ {} \in SUBSET MonitoredTsps
  BY <1>1 DEF MonitoringInit
<1>3. MonitorTypeOK
  BY <1>1, <1>2 DEF MonitoringInit, MonitorTypeOK, Configs
<1>4. \A p \in MonitoredTsps : metrics[p] = << >> /\ Inserters(p) = {} /\ Allowed(p) = 1
  BY DEF MonitoringInit, Inserters, Asleep, Allowed
<1>5. FoundIsThere
  BY <1>1, <1>4 DEF MonitoringInit, FoundIsThere, Asleep
<1>6. RowsAllowed
  BY <1>1, <1>4, FS_EmptySet DEF RowsAllowed
<1> QED
  BY <1>3, <1>5, <1>6 DEF MonitorInv

\* A run that goes on to step r, no longer about to insert or not yet, changes nothing for the rows.
LEMMA SweepMoves ==
  ASSUME MonitorInv, NEW s \in Sweeps, NEW r \in SweepSteps \cup {Asleep}, r # Asleep => r.todo # << >>,
         r.at # "write", sweep' = [sweep EXCEPT ![s] = r], UNCHANGED active, UNCHANGED metrics, UNCHANGED overlapped,
         configCache' \in UNION {[known -> Configs] : known \in SUBSET MonitoredTsps}
  PROVE  MonitorInv'
<1>1. \A t \in Sweeps : sweep'[t] = IF t = s THEN r ELSE sweep[t]
  BY DEF MonitorInv, MonitorTypeOK
<1>2. MonitorTypeOK'
  BY <1>1 DEF MonitorInv, MonitorTypeOK
<1>3. FoundIsThere'
  <2>1. ASSUME NEW t \in Sweeps, sweep'[t].at = "write" PROVE sweep'[t] = sweep[t]
    BY <1>1, <2>1
  <2>2. ASSUME NEW t \in Sweeps, sweep'[t].at = "write", sweep'[t].found # 0
        PROVE  \E i \in DOMAIN metrics[Head(sweep'[t].todo)] : metrics[Head(sweep'[t].todo)][i].id = sweep'[t].found
    <3>1. sweep[t].at = "write" /\ sweep[t].found # 0 /\ sweep'[t] = sweep[t]
      BY <2>1, <2>2
    <3>2. \E i \in DOMAIN metrics[Head(sweep[t].todo)] : metrics[Head(sweep[t].todo)][i].id = sweep[t].found
      BY <3>1 DEF MonitorInv, FoundIsThere
    <3> QED
      BY <3>1, <3>2
  <2>3. \A p \in MonitoredTsps : \A i \in DOMAIN metrics[p] : metrics[p][i].id # 0
    BY DEF MonitorInv, FoundIsThere
  <2> QED
    BY <2>2, <2>3 DEF FoundIsThere
<1>4. RowsAllowed'
  <2>1. ASSUME NEW p \in MonitoredTsps PROVE Len(metrics'[p]) + Cardinality(Inserters(p)') <= Allowed(p)'
    <3>1. Inserters(p)' \in SUBSET Inserters(p)
      BY <1>1 DEF Inserters
    <3>2. Cardinality(Inserters(p)') <= Cardinality(Inserters(p)) /\ Cardinality(Inserters(p)') \in Nat
          /\ Cardinality(Inserters(p)) \in Nat
      BY <3>1, InsertersAre, FS_Subset, FS_CardinalityType
    <3>3. Len(metrics[p]) + Cardinality(Inserters(p)) <= Allowed(p) /\ Allowed(p)' = Allowed(p)
      BY DEF MonitorInv, RowsAllowed, Allowed
    <3>4. Len(metrics[p]) \in Nat /\ Allowed(p) \in Nat
      <4>1. metrics[p] \in Seq(MetricRows)
        BY DEF MonitorInv, MonitorTypeOK
      <4>2. Cardinality(Sweeps) \in Nat
        BY InsertersAre
      <4> QED
        BY <4>1, <4>2 DEF Allowed
    <3> DEFINE a == Cardinality(Inserters(p)')
               b == Cardinality(Inserters(p))
    <3> HIDE DEF a, b
    <3>5. a <= b /\ a \in Nat /\ b \in Nat /\ Len(metrics[p]) + b <= Allowed(p)
      BY <3>2, <3>3 DEF a, b
    <3>6. Len(metrics[p]) + a <= Allowed(p)
      BY <3>4, <3>5
    <3> QED
      BY <3>3, <3>6 DEF a
  <2> QED
    BY <2>1 DEF RowsAllowed
<1> QED
  BY <1>2, <1>3, <1>4 DEF MonitorInv

LEMMA ToggleKeeps == ASSUME MonitorInv, NEW n \in DOMAIN ConfigRows, Toggle(n) PROVE MonitorInv'
<1>1. /\ active' = IF n \in active THEN active \ {n} ELSE active \cup {n}
      /\ UNCHANGED configCache /\ UNCHANGED sweep /\ UNCHANGED metrics /\ UNCHANGED overlapped
  BY DEF Toggle
<1>2. MonitorTypeOK'
  BY <1>1 DEF MonitorInv, MonitorTypeOK, Configs
<1> QED
  BY <1>1, <1>2 DEF MonitorInv, FoundIsThere, RowsAllowed, Allowed, Inserters

LEMMA SweepBeginKeeps == ASSUME MonitorInv, NEW s \in Sweeps, SweepBegin(s) PROVE MonitorInv'
<1>1. /\ UNCHANGED active /\ UNCHANGED metrics /\ UNCHANGED overlapped
      /\ \/ configCache' = CacheOfListed /\ sweep' = [sweep EXCEPT ![s] = [at |-> "measure", todo |-> ListedNow]]
         \/ UNCHANGED configCache
            /\ sweep' = [sweep EXCEPT ![s] = [at |-> "measure", todo |-> <<"kingdom_bank">>]]
  BY DEF SweepBegin
<1>2. CacheOfListed \in UNION {[known -> Configs] : known \in SUBSET MonitoredTsps}
  <2> DEFINE known == {ConfigRows[n] : n \in active}
  <2>1. known \in SUBSET MonitoredTsps
    BY ConfigsAre DEF MonitorInv, MonitorTypeOK
  <2>2. ASSUME NEW p \in known PROVE RowsFor(p) # {}
    BY <2>2 DEF RowsFor
  <2>3. \A p \in known : (CHOOSE n \in RowsFor(p) : \A m \in RowsFor(p) : m <= n) \in Configs
    BY <2>2, RowsHaveEnds
  <2> HIDE DEF known
  <2>4. CacheOfListed \in [known -> Configs]
    BY <2>3 DEF CacheOfListed, known
  <2> QED
    BY <2>1, <2>4
<1>3. configCache' \in UNION {[known -> Configs] : known \in SUBSET MonitoredTsps}
  BY <1>1, <1>2 DEF MonitorInv, MonitorTypeOK
<1>4. PICK todo \in Seq(MonitoredTsps) : todo # << >> /\ sweep' = [sweep EXCEPT ![s] = [at |-> "measure", todo |-> todo]]
  BY <1>1, ListedAreMonitored
<1> DEFINE r == [at |-> "measure", todo |-> todo]
<1>5. r \in SweepSteps \cup {Asleep} /\ r.todo # << >> /\ r.at # "write"
  BY <1>4 DEF SweepSteps
<1> HIDE DEF r
<1> QED
  BY <1>1, <1>3, <1>4, <1>5, SweepMoves DEF r

LEMMA MeasureKeeps == ASSUME MonitorInv, NEW s \in Sweeps, Measure(s) PROVE MonitorInv'
<1>1. PICK rate \in HealthRates :
        sweep' = [sweep EXCEPT ![s] = [at |-> "find", todo |-> sweep[s].todo, rate |-> rate]]
  BY DEF Measure
<1>2. UNCHANGED active /\ UNCHANGED metrics /\ UNCHANGED overlapped /\ UNCHANGED configCache
  BY DEF Measure
<1>3. sweep[s].todo \in Seq(MonitoredTsps) /\ sweep[s].todo # << >>
  BY DEF Measure, MonitorInv, MonitorTypeOK, SweepSteps, Asleep
<1> DEFINE r == [at |-> "find", todo |-> sweep[s].todo, rate |-> rate]
<1>4. r \in SweepSteps \cup {Asleep} /\ r.todo # << >> /\ r.at # "write"
  BY <1>3 DEF SweepSteps
<1>5. configCache' \in UNION {[known -> Configs] : known \in SUBSET MonitoredTsps}
  BY <1>2 DEF MonitorInv, MonitorTypeOK
<1> HIDE DEF r
<1> QED
  BY <1>1, <1>2, <1>4, <1>5, SweepMoves DEF r

LEMMA SweepFailsKeeps == ASSUME MonitorInv, NEW s \in Sweeps, SweepFails(s) PROVE MonitorInv'
<1>1. /\ sweep' = [sweep EXCEPT ![s] = Asleep]
      /\ UNCHANGED active /\ UNCHANGED metrics /\ UNCHANGED overlapped /\ UNCHANGED configCache
  BY DEF SweepFails
<1>2. Asleep \in SweepSteps \cup {Asleep} /\ Asleep.at # "write"
  BY DEF Asleep
<1>3. configCache' \in UNION {[known -> Configs] : known \in SUBSET MonitoredTsps}
  BY <1>1 DEF MonitorInv, MonitorTypeOK
<1> QED
  BY <1>1, <1>2, <1>3, SweepMoves

LEMMA AgeKeeps == ASSUME MonitorInv, NEW p \in MonitoredTsps, Age(p) PROVE MonitorInv'
<1>1. PICK i \in DOMAIN metrics[p] : metrics' = [metrics EXCEPT ![p][i].recent = FALSE]
  BY DEF Age
<1>2. UNCHANGED active /\ UNCHANGED configCache /\ UNCHANGED sweep /\ UNCHANGED overlapped
  BY DEF Age
<1> DEFINE rows == metrics[p]
           aged == [rows EXCEPT ![i].recent = FALSE]
<1>3. rows \in Seq(MetricRows) /\ DOMAIN rows = 1 .. Len(rows) /\ Len(rows) \in Nat
  BY DEF MonitorInv, MonitorTypeOK
<1>4. metrics' = [metrics EXCEPT ![p] = aged]
  BY <1>1
<1>5. /\ aged \in Seq(MetricRows) /\ Len(aged) = Len(rows) /\ DOMAIN aged = DOMAIN rows
      /\ \A j \in DOMAIN rows : aged[j].id = rows[j].id
  <2> HIDE DEF rows
  <2>1. rows[i] \in MetricRows
    BY <1>1, <1>3 DEF rows
  <2>2. [rows[i] EXCEPT !.recent = FALSE] \in MetricRows /\ [rows[i] EXCEPT !.recent = FALSE].id = rows[i].id
    BY <2>1 DEF MetricRows
  <2> DEFINE old == [rows[i] EXCEPT !.recent = FALSE]
  <2>3. aged = [rows EXCEPT ![i] = old]
    OBVIOUS
  <2> HIDE DEF old, aged
  <2>4. i \in DOMAIN rows
    BY DEF rows
  <2>5. aged \in Seq(MetricRows) /\ Len(aged) = Len(rows) /\ DOMAIN aged = DOMAIN rows
    BY <1>3, <2>2, <2>3, <2>4 DEF old
  <2>6. \A j \in DOMAIN rows : aged[j] = IF j = i THEN old ELSE rows[j]
    BY <1>3, <2>3
  <2> QED
    BY <2>2, <2>5, <2>6 DEF old
<1> HIDE DEF aged
<1>6. \A q \in MonitoredTsps : metrics'[q] = IF q = p THEN aged ELSE metrics[q]
  BY <1>4 DEF MonitorInv, MonitorTypeOK
<1>7. MonitorTypeOK'
  BY <1>2, <1>4, <1>5 DEF MonitorInv, MonitorTypeOK
<1>8. \A q \in MonitoredTsps : /\ Len(metrics'[q]) = Len(metrics[q]) /\ DOMAIN metrics'[q] = DOMAIN metrics[q]
                               /\ \A j \in DOMAIN metrics[q] : metrics'[q][j].id = metrics[q][j].id
  BY <1>5, <1>6
<1>9. FoundIsThere'
  <2>1. ASSUME NEW s \in Sweeps, sweep[s].at = "write", sweep[s].found # 0
        PROVE  \E j \in DOMAIN metrics'[Head(sweep[s].todo)] :
                 metrics'[Head(sweep[s].todo)][j].id = sweep[s].found
    <3>1. Head(sweep[s].todo) \in MonitoredTsps
      <4>1. sweep[s].todo \in Seq(MonitoredTsps) /\ sweep[s].todo # << >>
        BY <2>1 DEF MonitorInv, MonitorTypeOK, SweepSteps, Asleep
      <4> QED
        BY <4>1
    <3>2. \E j \in DOMAIN metrics[Head(sweep[s].todo)] : metrics[Head(sweep[s].todo)][j].id = sweep[s].found
      BY <2>1 DEF MonitorInv, FoundIsThere
    <3> QED
      BY <1>8, <3>1, <3>2
  <2>2. \A q \in MonitoredTsps : \A j \in DOMAIN metrics'[q] : metrics'[q][j].id # 0
    BY <1>8 DEF MonitorInv, FoundIsThere
  <2> QED
    BY <1>2, <2>1, <2>2 DEF FoundIsThere
<1>10. RowsAllowed'
  <2>1. \A q : Inserters(q)' = Inserters(q) /\ Allowed(q)' = Allowed(q)
    BY <1>2 DEF Inserters, Allowed
  <2> QED
    BY <1>8, <2>1 DEF MonitorInv, RowsAllowed
<1> QED
  BY <1>7, <1>9, <1>10 DEF MonitorInv

LEMMA FindKeeps == ASSUME MonitorInv, NEW s \in Sweeps, Find(s) PROVE MonitorInv'
<1> DEFINE p == Head(sweep[s].todo)
           r == [at |-> "write", todo |-> sweep[s].todo, rate |-> sweep[s].rate, found |-> Found(p)]
           Racing(t) == sweep[t].at = "write" /\ Head(sweep[t].todo) = p /\ sweep[t].found = 0
<1>1. /\ sweep[s].at = "find" /\ sweep' = [sweep EXCEPT ![s] = r]
      /\ overlapped' = IF Found(p) = 0 /\ \E t \in Sweeps : Racing(t) THEN overlapped \cup {p} ELSE overlapped
      /\ UNCHANGED active /\ UNCHANGED configCache /\ UNCHANGED metrics
  BY DEF Find
<1>2. /\ sweep[s].todo \in Seq(MonitoredTsps) /\ sweep[s].todo # << >> /\ sweep[s].rate \in HealthRates
      /\ p \in MonitoredTsps
  <2>1. sweep[s] # Asleep /\ sweep[s] \in SweepSteps
    BY <1>1 DEF MonitorInv, MonitorTypeOK, Asleep
  <2>2. sweep[s].todo \in Seq(MonitoredTsps) /\ sweep[s].todo # << >> /\ sweep[s].rate \in HealthRates
    BY <1>1, <2>1 DEF MonitorInv, MonitorTypeOK, SweepSteps
  <2> QED
    BY <2>2
<1>3. metrics[p] \in Seq(MetricRows)
  BY <1>2 DEF MonitorInv, MonitorTypeOK
<1>4. /\ Found(p) \in Nat /\ (Found(p) = 0 <=> metrics[p] = << >>)
      /\ Found(p) # 0 => \E i \in DOMAIN metrics[p] : metrics[p][i].id = Found(p)
  <2>1. CASE metrics[p] = << >>
    BY <2>1 DEF Found
  <2>2. CASE metrics[p] # << >>
    <3>1. 1 \in DOMAIN metrics[p] /\ metrics[p][1] \in MetricRows
      BY <1>3, <2>2
    <3>2. Found(p) = metrics[p][1].id
      BY <2>2 DEF Found
    <3>3. metrics[p][1].id # 0
      BY <1>2, <3>1 DEF MonitorInv, FoundIsThere
    <3> QED
      BY <2>2, <3>1, <3>2, <3>3 DEF MetricRows
  <2> QED
    BY <2>1, <2>2
<1>5. /\ r \in SweepSteps \cup {Asleep} /\ r # Asleep /\ r.todo = sweep[s].todo /\ r.at = "write" /\ r.found = Found(p)
  BY <1>2, <1>4 DEF SweepSteps, Asleep
<1> HIDE DEF r
<1>6. \A t \in Sweeps : sweep'[t] = IF t = s THEN r ELSE sweep[t]
  BY <1>1 DEF MonitorInv, MonitorTypeOK
<1>7. MonitorTypeOK'
  BY <1>1, <1>2, <1>5, <1>6 DEF MonitorInv, MonitorTypeOK
<1>8. FoundIsThere'
  <2>1. ASSUME NEW t \in Sweeps, sweep'[t].at = "write", sweep'[t].found # 0
        PROVE  \E i \in DOMAIN metrics[Head(sweep'[t].todo)] : metrics[Head(sweep'[t].todo)][i].id = sweep'[t].found
    <3>1. CASE t = s
      <4>1. sweep'[t] = r
        BY <1>6, <3>1
      <4>2. Head(sweep'[t].todo) = p /\ sweep'[t].found = Found(p)
        BY <1>5, <4>1
      <4> QED
        BY <1>4, <2>1, <4>2
    <3>2. CASE t # s
      <4>1. sweep'[t] = sweep[t]
        BY <1>6, <3>2
      <4> QED
        BY <2>1, <4>1 DEF MonitorInv, FoundIsThere
    <3> QED
      BY <3>1, <3>2
  <2> QED
    BY <1>1, <2>1 DEF MonitorInv, FoundIsThere
<1>9. RowsAllowed'
  <2>1. ASSUME NEW q \in MonitoredTsps PROVE Len(metrics[q]) + Cardinality(Inserters(q)') <= Allowed(q)'
    <3>1. /\ Len(metrics[q]) \in Nat /\ Len(metrics[q]) + Cardinality(Inserters(q)) <= Allowed(q)
          /\ (metrics[q] = << >> => Len(metrics[q]) = 0)
      BY DEF MonitorInv, MonitorTypeOK, RowsAllowed
    <3>2. CASE q = p /\ Found(p) = 0
      <4>1. Len(metrics[q]) = 0
        BY <1>4, <3>1, <3>2
      <4>2. CASE \E t \in Sweeps : Racing(t)
        <5>1. Allowed(q)' = Cardinality(Sweeps)
          BY <1>1, <3>2, <4>2 DEF Allowed
        <5>2. Inserters(q)' \in SUBSET Sweeps
          BY DEF Inserters
        <5>3. Cardinality(Inserters(q)') <= Cardinality(Sweeps) /\ Cardinality(Inserters(q)') \in Nat
          BY <5>2, SweepsAssumption, FS_Subset, FS_CardinalityType
        <5> QED
          BY <4>1, <5>1, <5>3
      <4>3. CASE ~ \E t \in Sweeps : Racing(t)
        <5>1. Inserters(q)' = {s}
          <6>1. \A t \in Sweeps : sweep[t].at = "write" /\ Head(sweep[t].todo) = p => sweep[t].found # 0
            BY <4>3
          <6>2. r.at = "write" /\ Head(r.todo) = p /\ r.found = 0
            BY <1>5, <3>2
          <6> QED
            BY <1>6, <3>2, <6>1, <6>2 DEF Inserters
        <5>2. Cardinality(Inserters(q)') = 1
          BY <5>1, FS_Singleton
        <5>3. overlapped' = overlapped
          BY <1>1, <4>3
        <5>4. Allowed(q)' = Allowed(q)
          BY <5>3 DEF Allowed
        <5>5. 1 <= Cardinality(Sweeps)
          <6>1. Sweeps # {} /\ Cardinality(Sweeps) \in Nat
            BY InsertersAre
          <6>2. Cardinality(Sweeps) # 0
            BY <6>1, SweepsAssumption, FS_EmptySet
          <6> QED
            BY <6>1, <6>2
        <5> QED
          BY <4>1, <5>2, <5>4, <5>5 DEF Allowed
      <4> QED
        BY <4>2, <4>3
    <3>3. CASE ~(q = p /\ Found(p) = 0)
      <4>1. Inserters(q)' = Inserters(q)
        <5>1. ~(sweep[s].at = "write")
          BY <1>1
        <5>2. ~(r.at = "write" /\ Head(r.todo) = q /\ r.found = 0)
          BY <1>5, <3>3
        <5> QED
          BY <1>6, <5>1, <5>2 DEF Inserters
      <4>2. q \in overlapped' <=> q \in overlapped
        BY <1>1, <3>3
      <4>3. Allowed(q)' = Allowed(q)
        BY <4>2 DEF Allowed
      <4> QED
        BY <3>1, <4>1, <4>3
    <3> QED
      BY <3>2, <3>3
  <2> QED
    BY <1>1, <2>1 DEF RowsAllowed
<1> QED
  BY <1>7, <1>8, <1>9 DEF MonitorInv

\* A run that has written rows for p and goes on to step r, the rows it found kept under their numbers.
LEMMA RowsWritten ==
  ASSUME MonitorInv, NEW s \in Sweeps, NEW p \in MonitoredTsps, NEW rows \in Seq(MetricRows),
         NEW r \in SweepSteps \cup {Asleep}, r # Asleep => r.todo # << >>, r.at # "write",
         sweep' = [sweep EXCEPT ![s] = r], metrics' = [metrics EXCEPT ![p] = rows],
         UNCHANGED active, UNCHANGED overlapped,
         configCache' \in UNION {[known -> Configs] : known \in SUBSET MonitoredTsps},
         \A i \in DOMAIN rows : rows[i].id # 0,
         \A i \in DOMAIN metrics[p] : \E j \in DOMAIN rows : rows[j].id = metrics[p][i].id,
         Len(rows) + Cardinality(Inserters(p) \ {s}) <= Allowed(p)
  PROVE  MonitorInv'
<1>1. \A t \in Sweeps : sweep'[t] = IF t = s THEN r ELSE sweep[t]
  BY DEF MonitorInv, MonitorTypeOK
<1>2. \A q \in MonitoredTsps : metrics'[q] = IF q = p THEN rows ELSE metrics[q]
  BY DEF MonitorInv, MonitorTypeOK
<1>3. MonitorTypeOK'
  <2>1. active' \in SUBSET Configs /\ overlapped' \in SUBSET MonitoredTsps
    BY DEF MonitorInv, MonitorTypeOK
  <2>2. sweep' \in [Sweeps -> SweepSteps \cup {Asleep}] /\ metrics' \in [MonitoredTsps -> Seq(MetricRows)]
    BY DEF MonitorInv, MonitorTypeOK
  <2>3. \A t \in Sweeps : sweep'[t] # Asleep => sweep'[t].todo # << >>
    BY <1>1 DEF MonitorInv, MonitorTypeOK
  <2> QED
    BY <2>1, <2>2, <2>3 DEF MonitorTypeOK
<1>4. FoundIsThere'
  <2>1. \A q \in MonitoredTsps : \A i \in DOMAIN metrics'[q] : metrics'[q][i].id # 0
    BY <1>2 DEF MonitorInv, FoundIsThere
  <2>2. ASSUME NEW t \in Sweeps, sweep'[t].at = "write", sweep'[t].found # 0
        PROVE  \E i \in DOMAIN metrics'[Head(sweep'[t].todo)] : metrics'[Head(sweep'[t].todo)][i].id = sweep'[t].found
    <3>1. sweep'[t] = sweep[t] /\ sweep[t].at = "write" /\ sweep[t].found # 0
      BY <1>1, <2>2
    <3>2. Head(sweep[t].todo) \in MonitoredTsps
      <4>1. sweep[t].todo \in Seq(MonitoredTsps) /\ sweep[t].todo # << >>
        BY <3>1 DEF MonitorInv, MonitorTypeOK, SweepSteps, Asleep
      <4> QED
        BY <4>1
    <3>3. PICK i \in DOMAIN metrics[Head(sweep[t].todo)] : metrics[Head(sweep[t].todo)][i].id = sweep[t].found
      BY <3>1 DEF MonitorInv, FoundIsThere
    <3>4. \E j \in DOMAIN metrics'[Head(sweep[t].todo)] : metrics'[Head(sweep[t].todo)][j].id = sweep[t].found
      BY <1>2, <3>2, <3>3
    <3> QED
      BY <3>1, <3>4
  <2> QED
    BY <2>1, <2>2 DEF FoundIsThere
<1>5. RowsAllowed'
  <2>1. ASSUME NEW q \in MonitoredTsps PROVE Len(metrics'[q]) + Cardinality(Inserters(q)') <= Allowed(q)'
    <3>1. Allowed(q)' = Allowed(q) /\ Len(metrics[q]) + Cardinality(Inserters(q)) <= Allowed(q)
      BY DEF MonitorInv, RowsAllowed, Allowed
    <3>2. Inserters(q)' = Inserters(q) \ {s}
      BY <1>1 DEF Inserters
    <3>3. CASE q = p
      BY <1>2, <3>1, <3>2, <3>3
    <3>4. CASE q # p
      <4>1. Inserters(q) \ {s} \in SUBSET Inserters(q)
        OBVIOUS
      <4> DEFINE a == Cardinality(Inserters(q) \ {s})
                 b == Cardinality(Inserters(q))
                 k == Len(metrics[q])
                 l == Allowed(q)
      <4>2. a <= b /\ a \in Nat /\ b \in Nat
        BY <4>1, InsertersAre, FS_Subset, FS_CardinalityType
      <4>3. k \in Nat /\ l \in Nat
        <5>1. metrics[q] \in Seq(MetricRows)
          BY DEF MonitorInv, MonitorTypeOK
        <5>2. Cardinality(Sweeps) \in Nat
          BY InsertersAre
        <5> QED
          BY <5>1, <5>2 DEF Allowed
      <4>4. k + b <= l
        BY <3>1
      <4>5. metrics'[q] = metrics[q]
        BY <1>2, <3>4
      <4> HIDE DEF a, b, k, l
      <4>6. k + a <= l
        BY <4>2, <4>3, <4>4
      <4> QED
        BY <3>1, <3>2, <4>5, <4>6 DEF a, k, l
    <3> QED
      BY <3>3, <3>4
  <2> QED
    BY <2>1 DEF RowsAllowed
<1> QED
  BY <1>3, <1>4, <1>5 DEF MonitorInv

LEMMA WriteKeeps == ASSUME MonitorInv, NEW s \in Sweeps, Write(s) PROVE MonitorInv'
<1> DEFINE p     == Head(sweep[s].todo)
           rest  == Tail(sweep[s].todo)
           found == sweep[s].found
           old   == metrics[p]
           r     == IF rest = << >> THEN Asleep ELSE [at |-> "measure", todo |-> rest]
           row(id) == [id |-> id, rate |-> sweep[s].rate, config |-> ConfigOf(p), recent |-> TRUE]
<1>1. /\ sweep[s].at = "write" /\ sweep' = [sweep EXCEPT ![s] = r]
      /\ UNCHANGED active /\ UNCHANGED overlapped
  BY DEF Write, NextProvider
<1>2. /\ sweep[s].todo \in Seq(MonitoredTsps) /\ sweep[s].todo # << >> /\ sweep[s].rate \in HealthRates
      /\ found \in Nat /\ p \in MonitoredTsps /\ rest \in Seq(MonitoredTsps)
  <2>1. sweep[s] # Asleep /\ sweep[s] \in SweepSteps
    BY <1>1 DEF MonitorInv, MonitorTypeOK, Asleep
  <2>2. /\ sweep[s].todo \in Seq(MonitoredTsps) /\ sweep[s].todo # << >> /\ sweep[s].rate \in HealthRates
        /\ sweep[s].found \in Nat
    BY <1>1, <2>1 DEF MonitorInv, MonitorTypeOK, SweepSteps
  <2> QED
    BY <2>2
<1>3. r \in SweepSteps \cup {Asleep} /\ (r # Asleep => r.todo # << >>) /\ r.at # "write"
  <2>1. CASE rest = << >>
    BY <2>1 DEF Asleep
  <2>2. CASE rest # << >>
    BY <1>2, <2>2 DEF SweepSteps
  <2> QED
    BY <2>1, <2>2
<1>4. /\ old \in Seq(MetricRows) /\ Len(old) \in Nat /\ DOMAIN old = 1 .. Len(old)
      /\ \A i \in DOMAIN old : old[i].id # 0 /\ old[i] \in MetricRows
  <2>1. old \in Seq(MetricRows)
    BY <1>2 DEF MonitorInv, MonitorTypeOK
  <2>2. \A i \in DOMAIN old : old[i].id # 0
    BY <1>2 DEF MonitorInv, FoundIsThere
  <2> QED
    BY <2>1, <2>2
<1> HIDE DEF r
<1>7. \A e \in MetricRows, q \in Seq(MetricRows) :
        /\ InFront(e, q) \in Seq(MetricRows) /\ Len(InFront(e, q)) = Len(q) + 1
        /\ \A i \in DOMAIN q : \E j \in DOMAIN InFront(e, q) : InFront(e, q)[j] = q[i]
        /\ 1 \in DOMAIN InFront(e, q) /\ InFront(e, q)[1] = e
        /\ \A j \in DOMAIN InFront(e, q) : InFront(e, q)[j] = e \/ \E i \in DOMAIN q : InFront(e, q)[j] = q[i]
  BY RowInFront
<1>5. CASE ConfigOf(p) = 0
  <2>1. UNCHANGED configCache /\ UNCHANGED metrics
    BY <1>5 DEF Write
  <2>2. configCache' \in UNION {[known -> Configs] : known \in SUBSET MonitoredTsps}
    BY <2>1 DEF MonitorInv, MonitorTypeOK
  <2> QED
    BY <1>1, <1>3, <2>1, <2>2, SweepMoves
<1>6. CASE ConfigOf(p) # 0
  <2>1. /\ metrics' = [metrics EXCEPT ![p] = Upsert(p, found, sweep[s].rate)]
        /\ configCache' = [q \in DOMAIN configCache \cup {p} |-> IF q = p THEN ConfigOf(p) ELSE configCache[q]]
    BY <1>6 DEF Write
  <2>2. ConfigOf(p) \in Configs
    BY <1>2, <1>6, ConfigType
  <2>3. configCache' \in UNION {[known -> Configs] : known \in SUBSET MonitoredTsps}
    <3>1. configCache \in [DOMAIN configCache -> Configs] /\ DOMAIN configCache \in SUBSET MonitoredTsps
      BY DEF MonitorInv, MonitorTypeOK
    <3> DEFINE known == DOMAIN configCache \cup {p}
    <3>2. known \in SUBSET MonitoredTsps
      BY <1>2, <3>1
    <3>3. configCache' \in [known -> Configs]
      BY <2>1, <2>2, <3>1
    <3> QED
      BY <3>2, <3>3
  <2>4. \A id \in Nat : row(id) \in MetricRows /\ row(id).id = id
    BY <1>2, <2>2 DEF MetricRows
  <2> DEFINE a == Cardinality(Inserters(p) \ {s})
             b == Cardinality(Inserters(p))
             k == Len(old)
             l == Allowed(p)
  <2>5. k + b <= l /\ k \in Nat /\ l \in Nat /\ a <= b /\ a \in Nat /\ b \in Nat
    <3>1. k + b <= l
      BY <1>2 DEF MonitorInv, RowsAllowed
    <3>2. l \in Nat
      BY InsertersAre DEF Allowed
    <3>3. Inserters(p) \ {s} \in SUBSET Inserters(p)
      OBVIOUS
    <3> QED
      BY <1>4, <3>1, <3>2, <3>3, InsertersAre, FS_Subset, FS_CardinalityType
  <2>6. CASE found = 0
    <3> DEFINE new == row(Len(old) + 1)
               rows == InFront(new, old)
    <3>1. Upsert(p, found, sweep[s].rate) = rows
      BY <2>6 DEF Upsert, InFront
    <3>2. new \in MetricRows /\ new.id # 0
      BY <1>4, <2>4
    <3> HIDE DEF new
    <3>3. /\ rows \in Seq(MetricRows) /\ Len(rows) = Len(old) + 1
          /\ \A i \in DOMAIN old : \E j \in DOMAIN rows : rows[j] = old[i]
          /\ \A j \in DOMAIN rows : rows[j] = new \/ \E i \in DOMAIN old : rows[j] = old[i]
      <4>1. old \in Seq(MetricRows)
        BY <1>4
      <4> HIDE DEF old
      <4> QED
        BY <1>7, <3>2, <4>1
    <3>4. a = b - 1
      <4>1. s \in Inserters(p)
        BY <1>1, <2>6 DEF Inserters
      <4> QED
        BY <4>1, InsertersAre, FS_RemoveElement
    <3>5. Len(rows) + a <= l
      <4> HIDE DEF a, b, k, l, rows
      <4>1. Len(rows) = k + 1
        BY <3>3 DEF k
      <4> QED
        BY <2>5, <3>4, <4>1
    <3> HIDE DEF rows
    <3>6. \A j \in DOMAIN rows : rows[j].id # 0
      BY <1>4, <3>2, <3>3
    <3>7. \A i \in DOMAIN old : \E j \in DOMAIN rows : rows[j].id = old[i].id
      BY <3>3
    <3>8. metrics' = [metrics EXCEPT ![p] = rows] /\ rows \in Seq(MetricRows)
      BY <2>1, <3>1, <3>3
    <3>9. p \in MonitoredTsps
      BY <1>2
    <3> HIDE DEF p, old
    <3> QED
      BY <1>1, <1>3, <2>3, <3>5, <3>6, <3>7, <3>8, <3>9, RowsWritten DEF old
  <2>7. CASE found # 0
    <3> DEFINE others == {e \in Range(old) : e.id # found}
               kept == Among(old, others)
               new == row(found)
               rows == InFront(new, kept)
    <3>1. Upsert(p, found, sweep[s].rate) = rows
      BY <2>7 DEF Upsert, InFront
    <3>2. new \in MetricRows /\ new.id = found
      BY <1>2, <2>4
    <3>3. \A i \in DOMAIN old : old[i] \in others <=> old[i].id # found
      BY DEF Range
    <3>4. \E i \in DOMAIN old : old[i] \notin others
      <4>1. \E i \in DOMAIN old : old[i].id = found
        BY <1>1, <2>7 DEF MonitorInv, FoundIsThere
      <4> QED
        BY <3>3, <4>1
    <3> HIDE DEF new, others
    <3>5. /\ kept \in Seq(MetricRows) /\ Len(kept) < Len(old) /\ Len(kept) \in Nat
          /\ \A i \in DOMAIN kept : kept[i] \in others /\ \E j \in DOMAIN old : kept[i] = old[j]
          /\ \A j \in DOMAIN old : old[j] \in others => \E i \in DOMAIN kept : kept[i] = old[j]
      <4> HIDE DEF old
      <4>1. old \in Seq(MetricRows)
        BY <1>4
      <4> QED
        BY <3>4, <4>1, AmongIs
    <3> HIDE DEF kept
    <3>6. /\ rows \in Seq(MetricRows) /\ Len(rows) = Len(kept) + 1
          /\ \A i \in DOMAIN kept : \E j \in DOMAIN rows : rows[j] = kept[i]
          /\ \E j \in DOMAIN rows : rows[j] = new
          /\ \A j \in DOMAIN rows : rows[j] = new \/ \E i \in DOMAIN kept : rows[j] = kept[i]
      <4>1. kept \in Seq(MetricRows)
        BY <3>5
      <4> QED
        BY <1>7, <3>2, <4>1
    <3> HIDE DEF rows, p, old
    <3>7. \A j \in DOMAIN rows : rows[j].id # 0
      BY <1>4, <2>7, <3>2, <3>5, <3>6
    <3>8. ASSUME NEW i \in DOMAIN old PROVE \E j \in DOMAIN rows : rows[j].id = old[i].id
      <4>1. CASE old[i].id = found
        BY <3>2, <3>6, <4>1
      <4>2. CASE old[i].id # found
        BY <3>3, <3>5, <3>6, <4>2
      <4> QED
        BY <4>1, <4>2
    <3>9. Len(rows) + a <= l
      <4> HIDE DEF a, b, k, l
      <4>1. Len(rows) = Len(kept) + 1 /\ Len(kept) < k /\ Len(kept) \in Nat
        BY <3>5, <3>6 DEF k
      <4> QED
        BY <2>5, <4>1
    <3>10. metrics' = [metrics EXCEPT ![p] = rows] /\ rows \in Seq(MetricRows) /\ p \in MonitoredTsps
      BY <1>2, <2>1, <3>1, <3>6
    <3> QED
      BY <1>1, <1>3, <2>3, <3>7, <3>8, <3>9, <3>10, RowsWritten DEF old
  <2> QED
    BY <2>6, <2>7
<1> QED
  BY <1>5, <1>6

----------------------------------------------------------------------------
\* A metric row that is there for a provider at all, and a trend told from two of them.
LEMMA MonitorInvEnough == ASSUME MonitorInv PROVE MetricsAreSingle
<1>1. ASSUME NEW p \in MonitoredTsps
      PROVE  /\ Len(metrics[p]) <= IF p \in overlapped THEN Cardinality(Sweeps) ELSE 1
             /\ metrics[p] \in Seq(MetricRows) /\ Len(metrics[p]) \in Nat
  <2> DEFINE b == Cardinality(Inserters(p))
             l == Allowed(p)
  <2>1. metrics[p] \in Seq(MetricRows)
    BY DEF MonitorInv, MonitorTypeOK
  <2>2. Len(metrics[p]) \in Nat /\ b \in Nat /\ l \in Nat /\ Len(metrics[p]) + b <= l
    BY <2>1, InsertersAre DEF MonitorInv, RowsAllowed, Allowed
  <2> HIDE DEF b, l
  <2>3. Len(metrics[p]) <= l
    BY <2>2
  <2> QED
    BY <2>1, <2>2, <2>3 DEF l, Allowed
<1>2. OneMetricUnlessOverlapped
  BY <1>1 DEF OneMetricUnlessOverlapped
<1>3. ASSUME NEW p \in MonitoredTsps, NEW realtime \in BOOLEAN, NEW answer \in Performance(p, realtime),
             answer.trend # "stable"
      PROVE  p \in overlapped
  <2> DEFINE rows == Recent(metrics[p])
  <2>1. Len(rows) <= Len(metrics[p]) /\ Len(rows) \in Nat
    <3> DEFINE those == {row \in Range(metrics[p]) : row.recent}
    <3>1. rows = Among(metrics[p], those)
      BY DEF Recent
    <3> HIDE DEF those, rows
    <3> QED
      BY <1>1, <3>1, AmongIs
  <2>2. answer = RealTime(rows)
    <3>1. answer \notin FromPayments
      BY <1>3 DEF FromPayments
    <3> QED
      BY <3>1 DEF Performance
  <2> HIDE DEF rows
  <2>3. Len(rows) > 1
    BY <1>3, <2>2 DEF RealTime, TrendOf
  <2> QED
    BY <1>1, <2>1, <2>3
<1>4. TrendOnlyIfOverlapped
  BY <1>3 DEF TrendOnlyIfOverlapped
<1> QED
  BY <1>2, <1>4 DEF MetricsAreSingle

\* However many runs overlap, and whatever they measure and list, a provider has one metric row and no trend
\* until two of them have raced between the read and the insert of updateTSPMetrics.
THEOREM MetricsStaySingle == MonitoringSpec => []MetricsAreSingle
<1>1. MonitoringInit => MonitorInv
  BY MonitoringStarts
<1>2. MonitorInv /\ [MonitoringNext]_monitorVars => MonitorInv'
  <2> SUFFICES ASSUME MonitorInv, [MonitoringNext]_monitorVars PROVE MonitorInv'
    OBVIOUS
  <2>1. ASSUME NEW n \in DOMAIN ConfigRows, Toggle(n) PROVE MonitorInv'
    BY <2>1, ToggleKeeps
  <2>2. ASSUME NEW s \in Sweeps, SweepBegin(s) PROVE MonitorInv'
    BY <2>2, SweepBeginKeeps
  <2>3. ASSUME NEW s \in Sweeps, Measure(s) PROVE MonitorInv'
    BY <2>3, MeasureKeeps
  <2>4. ASSUME NEW s \in Sweeps, Find(s) PROVE MonitorInv'
    BY <2>4, FindKeeps
  <2>5. ASSUME NEW s \in Sweeps, Write(s) PROVE MonitorInv'
    BY <2>5, WriteKeeps
  <2>6. ASSUME NEW s \in Sweeps, SweepFails(s) PROVE MonitorInv'
    BY <2>6, SweepFailsKeeps
  <2>7. ASSUME NEW p \in MonitoredTsps, Age(p) PROVE MonitorInv'
    BY <2>7, AgeKeeps
  <2>8. CASE UNCHANGED monitorVars
    BY <2>8 DEF monitorVars, MonitorInv, MonitorTypeOK, FoundIsThere, RowsAllowed, Allowed, Inserters
  <2> QED
    BY <2>1, <2>2, <2>3, <2>4, <2>5, <2>6, <2>7, <2>8 DEF MonitoringNext
<1>3. MonitorInv => MetricsAreSingle
  BY MonitorInvEnough
<1> QED
  BY <1>1, <1>2, <1>3, PTL DEF MonitoringSpec

(***************************************************************************)
(* Listings and summaries, for any number of merchants and rows and pages  *)
(* of any size.                                                            *)
(*                                                                         *)
(* A listing read page by page still has ahead of it every row it was      *)
(* asked for and has not shown (Ahead): new rows come after all others, or *)
(* before them when the newest come first, so that no row moves towards    *)
(* the front unless it leaves the filter.  An ascending listing that does  *)
(* not ask for a status has shown the first rows there are (FirstShown).   *)
(* Both are about listings in which no two rows are of one instant: those  *)
(* the database always answers in the same order (OrdersAre).              *)
(* The figures of a summary are those of the table until a row changes     *)
(* (FiguresCurrent).                                                       *)
(***************************************************************************)
Rows == [merchant : Merchants, status : RowStatuses, at : Nat]
QueryNames == {"total", "approved", "pending", "processed", "previous", "previousApproved", "successful",
               "failed", "processing", "done"}
PagesRead ==
  [kind : {"pages"}, filter : Filters, ascending : BOOLEAN, page : Nat \ {0}, last : BOOLEAN,
   wanted : SUBSET Nat, seen : Seq(Nat), changed : BOOLEAN]
Summed ==
  [kind : Summaries, merchant : Merchants, from : Nat \ {0}, to : Nat \ {0}, changed : BOOLEAN,
   figures : UNION {[queries -> Nat] : queries \in SUBSET QueryNames}]
DashTypeOK ==
  /\ table \in Seq(Rows)
  /\ reading = NotReading \/ reading \in PagesRead \/ reading \in Summed

\* Of the rows a listing was asked for, those not shown yet are still ahead of it.
Ahead(r) ==
  \A n \in r.wanted :
    \/ n \in ToSet(r.seen)
    \/ \E i \in DOMAIN Sorted(r.filter, r.ascending) : i > Skipped(r.page) /\ Sorted(r.filter, r.ascending)[i] = n
\* An ascending listing has shown the first rows there are.
FirstShown(r) ==
  /\ Len(r.seen) = Skipped(r.page) /\ Len(r.seen) <= Len(Sorted(r.filter, TRUE))
  /\ \A i \in 1 .. Len(r.seen) : r.seen[i] = Sorted(r.filter, TRUE)[i]
ShownAll(r) ==
  /\ r.page = 1 \/ ~(r.changed \/ Tied(r.filter)) => r.wanted \subseteq ToSet(r.seen)
  /\ r.ascending /\ r.filter.status = AnyStatus /\ ~Tied(r.filter) => Distinct(r.seen)
\* The figures so far are those of the table, until it changes.
FiguresCurrent(r) ==
  /\ DOMAIN r.figures \subseteq Queries(r.kind)
  /\ ~r.changed => \A q \in DOMAIN r.figures : r.figures[q] = Figure(r, q)
StatsAgree(r) == r.figures.processing + r.figures.done + r.figures.failed = r.figures.total
SoundReading(r) ==
  /\ r \in PagesRead /\ ~r.last /\ ~(r.changed \/ Tied(r.filter)) => Ahead(r)
  /\ r \in PagesRead /\ ~r.last /\ r.ascending /\ r.filter.status = AnyStatus /\ ~Tied(r.filter) => FirstShown(r)
  /\ r \in PagesRead /\ r.last => ShownAll(r)
  /\ r \in Summed /\ r.kind # "stats" => FiguresCurrent(r)
  /\ r \in Summed /\ r.kind = "stats" => StatsAgree(r)
DashInv == DashTypeOK /\ SoundReading(reading)

LEMMA SortedIs ==
  ASSUME table \in Seq(Rows), NEW filter, NEW ascending \in BOOLEAN
  PROVE  /\ Sorted(filter, ascending) \in Seq(Nat) /\ Distinct(Sorted(filter, ascending))
         /\ \A i \in DOMAIN Sorted(filter, ascending) : Sorted(filter, ascending)[i] \in Matching(filter)
         /\ \A n \in Matching(filter) : \E i \in DOMAIN Sorted(filter, ascending) : Sorted(filter, ascending)[i] = n
<1> DEFINE b == ByTime(ascending)
<1>1. Len(table) \in Nat /\ DOMAIN table = 1 .. Len(table)
  OBVIOUS
<1>2. b \in Seq(Nat) /\ DOMAIN b = 1 .. Len(table)
  <2>1. b \in [1 .. Len(table) -> Nat]
    BY <1>1 DEF ByTime
  <2>2. b \in Seq(Nat)
    BY <1>1, <2>1
  <2> QED
    BY <2>1, <2>2
<1>3. \A i \in 1 .. Len(table) : b[i] = IF ascending THEN i ELSE Len(table) + 1 - i
  BY <1>1 DEF ByTime
<1> HIDE DEF b
<1>4. Distinct(b)
  BY <1>1, <1>2, <1>3 DEF Distinct
<1>5. ASSUME NEW n \in Matching(filter) PROVE \E j \in DOMAIN b : b[j] = n
  <2>1. n \in 1 .. Len(table)
    BY <1>1, <1>5 DEF Matching
  <2> DEFINE j == IF ascending THEN n ELSE Len(table) + 1 - n
  <2>2. j \in 1 .. Len(table) /\ b[j] = n
    BY <1>1, <1>3, <2>1
  <2> QED
    BY <1>2, <2>2
<1> DEFINE G == Matching(filter)
           a == Among(b, G)
<1> HIDE DEF G
<1>6. /\ a \in Seq(Nat)
      /\ \A i \in DOMAIN a : a[i] \in G
      /\ \A j \in DOMAIN b : b[j] \in G => \E i \in DOMAIN a : a[i] = b[j]
  BY <1>2, AmongIs, Zenon
<1>7. Distinct(a)
  BY <1>2, <1>4, AmongDistinct, Zenon
<1> HIDE DEF a
<1>8. \A n \in G : \E i \in DOMAIN a : a[i] = n
  BY <1>5, <1>6 DEF G
<1>9. Sorted(filter, ascending) = a
  BY DEF Sorted, a, b, G
<1> QED
  BY <1>6, <1>7, <1>8, <1>9 DEF G

LEMMA RowOf ==
  ASSUME NEW S, NEW n \in Nat, NEW row \in [1 .. n -> S]
  PROVE  row \in Seq(S) /\ Len(row) = n
<1>1. row \in Seq(S)
  BY SeqDef
<1> QED
  BY <1>1, LenProperties

\* What the database answers has every row that matches, and is the sorted rows when no two are of one instant.
LEMMA OrdersAre ==
  ASSUME table \in Seq(Rows), NEW filter, NEW ascending \in BOOLEAN, NEW rows \in Orders(filter, ascending)
  PROVE  /\ rows \in Seq(Nat) /\ Matching(filter) \subseteq ToSet(rows)
         /\ ~Tied(filter) => rows = Sorted(filter, ascending)
<1> DEFINE s == Sorted(filter, ascending)
           G == Matching(filter)
<1>1. s \in Seq(Nat) /\ \A i \in DOMAIN s : s[i] \in G
  BY SortedIs
<1>2. G \subseteq Nat
  BY DEF Matching
<1>3. /\ rows \in [DOMAIN s -> G] /\ \A n \in G : \E i \in DOMAIN s : rows[i] = n
      /\ \A i \in DOMAIN s : table[rows[i]].at = table[s[i]].at
  BY Zenon DEF Orders, Bijection, Injection, Surjection
<1>4. Tied(filter) <=> \E i, j \in G : i # j /\ table[i].at = table[j].at
  BY Zenon DEF Tied
<1> HIDE DEF s, G
<1>5. Len(s) \in Nat /\ DOMAIN s = 1 .. Len(s)
  BY <1>1
<1>6. rows \in [1 .. Len(s) -> Nat]
  BY <1>2, <1>3, <1>5
<1>7. rows \in Seq(Nat)
  BY <1>5, <1>6, RowOf
<1>8. G \subseteq ToSet(rows)
  BY <1>3 DEF ToSet
<1>9. ASSUME ~Tied(filter) PROVE rows = s
  <2>1. \A i \in DOMAIN s : rows[i] \in G /\ s[i] \in G /\ table[rows[i]].at = table[s[i]].at
    BY <1>1, <1>3
  <2>2. \A i \in DOMAIN s : rows[i] = s[i]
    BY <1>4, <1>9, <2>1, Zenon
  <2>3. s \in [DOMAIN s -> Nat]
    BY <1>1
  <2> QED
    BY <1>3, <2>2, <2>3
<1> QED
  BY <1>7, <1>8, <1>9 DEF s, G

\* Pages are enough when the next one would begin behind the last row.
LEMMA PagesReach ==
  ASSUME NEW total \in Nat, NEW page \in Nat \ {0}
  PROVE  page >= TotalPages(total) <=> Skipped(page + 1) >= total
<1> DEFINE q == TotalPages(total)
           r == (total + Limit - 1) % Limit
<1>1. Limit \in Nat /\ Limit > 0 /\ total + Limit - 1 \in Nat
  BY PagesAssumption
<1>2. q \in Nat /\ r \in 0 .. Limit - 1 /\ total + Limit - 1 = Limit * q + r
  BY <1>1 DEF TotalPages
<1> HIDE DEF q, r
<1>3. page >= q => page * Limit >= q * Limit
  BY <1>1, <1>2
<1>4. page < q => (page + 1) * Limit <= q * Limit
  BY <1>1, <1>2
<1> QED
  BY <1>1, <1>2, <1>3, <1>4 DEF Skipped, q

LEMMA NextPage == ASSUME NEW page \in Nat \ {0}
                  PROVE  Skipped(page) \in Nat /\ Skipped(page + 1) = Skipped(page) + Limit /\ Skipped(1) = 0
BY PagesAssumption DEF Skipped

\* A page has the rows after those that are skipped, as many as there are up to the limit.
LEMMA PageIs ==
  ASSUME NEW rows \in Seq(Nat), NEW page \in Nat \ {0}
  PROVE  /\ Page(rows, page) \in Seq(Nat)
         /\ \A i \in DOMAIN rows : Skipped(page) < i /\ i <= Skipped(page + 1) =>
              \E j \in DOMAIN Page(rows, page) : Page(rows, page)[j] = rows[i]
         /\ Skipped(page) <= Len(rows) =>
              /\ Len(Page(rows, page)) <= Len(rows) - Skipped(page)
              /\ Skipped(page + 1) <= Len(rows) => Len(Page(rows, page)) = Limit
              /\ \A j \in 1 .. Len(Page(rows, page)) : Page(rows, page)[j] = rows[Skipped(page) + j]
<1> DEFINE k == Skipped(page)
           end == IF k + Limit < Len(rows) THEN k + Limit ELSE Len(rows)
           p == Page(rows, page)
<1>1. k \in Nat /\ Skipped(page + 1) = k + Limit /\ Limit \in Nat /\ Limit > 0
  <2>1. k \in Nat /\ Skipped(page + 1) = k + Limit
    BY NextPage, Zenon
  <2> QED
    BY <2>1, PagesAssumption
<1>2. Len(rows) \in Nat /\ DOMAIN rows = 1 .. Len(rows) /\ \A i \in 1 .. Len(rows) : rows[i] \in Nat
  OBVIOUS
<1>3. end \in Nat /\ end <= Len(rows) /\ end <= k + Limit
  BY <1>1, <1>2
<1>4. p = SubSeq(rows, k + 1, end)
  BY DEF Page
<1>5. /\ p \in Seq(Nat) /\ Len(p) = IF k <= end THEN end - k ELSE 0
      /\ \A j \in 1 .. Len(p) : p[j] = rows[k + j]
  <2>1. \A i \in k + 1 .. end : rows[i] \in Nat
    BY <1>1, <1>2, <1>3
  <2>2. k + 1 \in Int /\ end \in Int
    BY <1>1, <1>3
  <2> HIDE DEF k, end, p
  <2>3. /\ p \in Seq(Nat)
        /\ Len(p) = IF k + 1 <= end THEN end - (k + 1) + 1 ELSE 0
        /\ \A j \in 1 .. end - (k + 1) + 1 : p[j] = rows[(k + 1) + j - 1]
    <3> DEFINE from == k + 1
    <3>1. from \in Int /\ \A i \in from .. end : rows[i] \in Nat
      BY <2>1, <2>2
    <3> HIDE DEF from
    <3>2. /\ SubSeq(rows, from, end) \in Seq(Nat)
          /\ Len(SubSeq(rows, from, end)) = IF from <= end THEN end - from + 1 ELSE 0
          /\ \A j \in 1 .. end - from + 1 : SubSeq(rows, from, end)[j] = rows[from + j - 1]
      BY <2>2, <3>1, SubSeqProperties
    <3> QED
      BY <1>4, <3>2, Zenon DEF from
  <2>4. Len(p) = IF k <= end THEN end - k ELSE 0
    BY <1>1, <1>3, <2>3
  <2>5. ASSUME NEW j \in 1 .. Len(p) PROVE p[j] = rows[k + j]
    <3>1. j \in 1 .. end - (k + 1) + 1 /\ (k + 1) + j - 1 = k + j
      BY <1>1, <1>3, <2>4
    <3> QED
      BY <2>3, <3>1
  <2> QED
    BY <2>3, <2>4, <2>5
<1> HIDE DEF k, end, p
<1>6. CASE k <= end
  <2>3. p \in Seq(Nat) /\ Len(p) = end - k /\ DOMAIN p = 1 .. (end - k)
    BY <1>5, <1>6
  <2>4. \A j \in 1 .. (end - k) : p[j] = rows[k + j]
    BY <1>5, <2>3
  <2>5. ASSUME NEW i \in 1 .. Len(rows), k < i, i <= k + Limit PROVE \E j \in DOMAIN p : p[j] = rows[i]
    <3>1. i - k \in 1 .. (end - k) /\ k + (i - k) = i
      BY <1>1, <1>2, <1>3, <2>5 DEF end
    <3> QED
      BY <2>3, <2>4, <3>1
  <2>6. k <= Len(rows) => Len(p) <= Len(rows) - k /\ (k + Limit <= Len(rows) => Len(p) = Limit)
    BY <1>1, <1>2, <1>3, <2>3 DEF end
  <2> QED
    BY <1>1, <1>2, <2>3, <2>4, <2>5, <2>6 DEF k, p
<1>7. CASE k > end
  <2>1. Len(rows) < k
    BY <1>1, <1>2, <1>7 DEF end
  <2> QED
    BY <1>1, <1>2, <1>5, <2>1 DEF k, p
<1> QED
  BY <1>1, <1>3, <1>6, <1>7

\* The numbers up to one, upwards and downwards, that are in a set, and those up to the next.
Upward(k)   == [i \in 1 .. k |-> i]
Downward(k) == [i \in 1 .. k |-> k + 1 - i]

AlikeUpTo(k, G, M) == \A i \in 1 .. k : i \in G <=> i \in M

Grows(k, G, M) ==
  \E more \in Seq(Nat) : /\ Among(Upward(k + 1), G) = Among(Upward(k), M) \o more
                        /\ Among(Downward(k + 1), G) = more \o Among(Downward(k), M)

LEMMA ListGrows == ASSUME NEW n \in Nat, NEW G, NEW M, AlikeUpTo(n, G, M) PROVE Grows(n, G, M)
<1> DEFINE up       == Upward(n)
           down     == Downward(n)
           upTo     == Upward(n + 1)
           downFrom == Downward(n + 1)
           one      == <<n + 1>>
           more     == Among(one, G)
<1>1. /\ \A i \in 1 .. n : up[i] = i /\ down[i] = n + 1 - i
      /\ \A i \in 1 .. n + 1 : upTo[i] = i /\ downFrom[i] = n + 2 - i
  BY DEF Upward, Downward
<1>2. /\ up \in Seq(Nat) /\ Len(up) = n /\ down \in Seq(Nat) /\ Len(down) = n
      /\ upTo \in Seq(Nat) /\ Len(upTo) = n + 1 /\ downFrom \in Seq(Nat) /\ Len(downFrom) = n + 1
  <2>1. /\ up \in [1 .. n -> Nat] /\ down \in [1 .. n -> Nat]
        /\ upTo \in [1 .. n + 1 -> Nat] /\ downFrom \in [1 .. n + 1 -> Nat] /\ n + 1 \in Nat
    BY DEF Upward, Downward
  <2> HIDE DEF up, down, upTo, downFrom
  <2> QED
    BY <2>1, RowOf
<1>3. one \in Seq(Nat) /\ Len(one) = 1 /\ one[1] = n + 1
  OBVIOUS
<1> HIDE DEF up, down, upTo, downFrom, one
<1>4. upTo = up \o one
  <2>1. \A i \in 1 .. Len(up) : upTo[i] = up[i]
    BY <1>1, <1>2
  <2>2. \A j \in 1 .. Len(one) : upTo[Len(up) + j] = one[j]
    BY <1>1, <1>2, <1>3
  <2>3. Len(upTo) = Len(up) + Len(one)
    BY <1>2, <1>3
  <2> QED
    BY <1>2, <1>3, <2>1, <2>2, <2>3, Joined
<1>5. downFrom = one \o down
  <2>1. \A i \in 1 .. Len(one) : downFrom[i] = one[i]
    BY <1>1, <1>3
  <2>2. ASSUME NEW j \in 1 .. Len(down) PROVE downFrom[Len(one) + j] = down[j]
    <3>1. j \in 1 .. n /\ 1 + j \in 1 .. n + 1 /\ n + 2 - (1 + j) = n + 1 - j
      BY <1>2
    <3> QED
      BY <1>1, <1>3, <3>1
  <2>3. Len(downFrom) = Len(one) + Len(down)
    BY <1>2, <1>3
  <2> QED
    BY <1>2, <1>3, <2>1, <2>2, <2>3, Joined
<1>6. more \in Seq(Nat)
  BY <1>3, AmongIs, Zenon
<1>7. Alike(up, G, M) /\ Alike(one, G, G)
  BY <1>1, <1>2 DEF Alike, AlikeUpTo
<1>8. Alike(down, G, M)
  <2>1. \A i \in 1 .. n : n + 1 - i \in 1 .. n
    OBVIOUS
  <2> QED
    BY <1>1, <1>2, <2>1 DEF Alike, AlikeUpTo
<1>9. \A H, K : \A s, u \in Seq(Nat) :
        Alike(s, G, H) /\ Alike(u, G, K) => Among(s \o u, G) = Among(s, H) \o Among(u, K)
  BY AmongJoined
<1>10. Among(up \o one, G) = Among(up, M) \o more
  BY <1>2, <1>3, <1>7, <1>9, Zenon
<1>11. Among(one \o down, G) = more \o Among(down, M)
  BY <1>2, <1>3, <1>7, <1>8, <1>9, Zenon
<1> HIDE DEF more
<1> QED
  BY <1>4, <1>5, <1>6, <1>10, <1>11, Zenon DEF up, down, upTo, downFrom, Grows

\* A new row comes after all others, or before them in a descending listing.
LEMMA SortedAfterInsert ==
  ASSUME table \in Seq(Rows), NEW filter, NEW row \in Rows, table' = Append(table, row)
  PROVE  /\ \E more \in Seq(Nat) : Sorted(filter, TRUE)' = Sorted(filter, TRUE) \o more
         /\ \E more \in Seq(Nat) : Sorted(filter, FALSE)' = more \o Sorted(filter, FALSE)
<1> DEFINE n == Len(table)
           G == Matching(filter)'
           M == Matching(filter)
<1>1. /\ n \in Nat /\ DOMAIN table = 1 .. n /\ DOMAIN table' = 1 .. n + 1 /\ Len(table') = n + 1
      /\ \A i \in 1 .. n : table'[i] = table[i]
  OBVIOUS
<1>2. AlikeUpTo(n, G, M)
  BY <1>1 DEF Matching, Matches, AlikeUpTo
<1>3. /\ ByTime(TRUE) = Upward(n) /\ ByTime(FALSE) = Downward(n)
      /\ ByTime(TRUE)' = Upward(n + 1) /\ ByTime(FALSE)' = Downward(n + 1)
  <2>1. /\ ByTime(TRUE) = [i \in DOMAIN table |-> i] /\ ByTime(FALSE) = [i \in DOMAIN table |-> n + 1 - i]
        /\ ByTime(TRUE)' = [i \in DOMAIN table' |-> i]
        /\ ByTime(FALSE)' = [i \in DOMAIN table' |-> Len(table') + 1 - i]
    BY Zenon DEF ByTime
  <2> HIDE DEF n
  <2> QED
    BY <1>1, <2>1, Zenon DEF Upward, Downward
<1> HIDE DEF n, G, M
<1>4. Grows(n, G, M)
  BY <1>1, <1>2, ListGrows
<1>5. PICK more \in Seq(Nat) :
        /\ Among(Upward(n + 1), G) = Among(Upward(n), M) \o more
        /\ Among(Downward(n + 1), G) = more \o Among(Downward(n), M)
  BY <1>4, Zenon DEF Grows
<1>6. Sorted(filter, TRUE)' = Sorted(filter, TRUE) \o more /\ Sorted(filter, FALSE)' = more \o Sorted(filter, FALSE)
  BY <1>3, <1>5, Zenon DEF Sorted, G, M
<1> QED
  BY <1>6

\* No row of a listing moves towards its front, none of an ascending one moves at all, and no instant is
\* forgotten.
Forward(f) ==
  /\ \A up \in BOOLEAN : \A i \in DOMAIN Sorted(f, up) :
       \E j \in DOMAIN Sorted(f, up)' \cap Nat : j >= i /\ Sorted(f, up)'[j] = Sorted(f, up)[i]
  /\ Len(Sorted(f, TRUE)') \in Nat /\ Len(Sorted(f, TRUE)) <= Len(Sorted(f, TRUE)')
  /\ \A i \in 1 .. Len(Sorted(f, TRUE)) : Sorted(f, TRUE)'[i] = Sorted(f, TRUE)[i]
  /\ Tied(f) => Tied(f)'

LEMMA JoinedMoves ==
  ASSUME NEW s \in Seq(Nat), NEW more \in Seq(Nat)
  PROVE  /\ Len(s \o more) \in Nat /\ Len(s) <= Len(s \o more)
         /\ \A i \in 1 .. Len(s) : (s \o more)[i] = s[i] /\ i \in DOMAIN (s \o more)
         /\ \A i \in 1 .. Len(s) : \E j \in DOMAIN (more \o s) \cap Nat : j >= i /\ (more \o s)[j] = s[i]
<1>1. /\ s \o more \in Seq(Nat) /\ Len(s \o more) = Len(s) + Len(more) /\ Len(s) \in Nat /\ Len(more) \in Nat
      /\ \A i \in 1 .. Len(s) : (s \o more)[i] = s[i]
  BY OneThenOther
<1>2. /\ more \o s \in Seq(Nat) /\ Len(more \o s) = Len(more) + Len(s)
      /\ \A i \in 1 .. Len(s) : (more \o s)[Len(more) + i] = s[i]
  BY OneThenOther
<1> DEFINE a == s \o more
           b == more \o s
<1> HIDE DEF a, b
<1>3. a \in Seq(Nat) /\ Len(a) = Len(s) + Len(more) /\ \A i \in 1 .. Len(s) : a[i] = s[i]
  BY <1>1 DEF a
<1>4. b \in Seq(Nat) /\ Len(b) = Len(more) + Len(s) /\ \A i \in 1 .. Len(s) : b[Len(more) + i] = s[i]
  BY <1>2 DEF b
<1>5. DOMAIN a = 1 .. Len(a) /\ DOMAIN b = 1 .. Len(b)
  BY <1>3, <1>4
<1>6. Len(a) \in Nat /\ Len(s) <= Len(a) /\ \A i \in 1 .. Len(s) : a[i] = s[i] /\ i \in DOMAIN a
  BY <1>1, <1>3, <1>5
<1>7. ASSUME NEW i \in 1 .. Len(s) PROVE \E j \in DOMAIN b \cap Nat : j >= i /\ b[j] = s[i]
  <2>1. Len(more) + i \in DOMAIN b \cap Nat /\ Len(more) + i >= i
    BY <1>1, <1>4, <1>5
  <2> QED
    BY <1>4, <2>1
<1> QED
  BY <1>6, <1>7 DEF a, b

LEMMA InsertMoves ==
  ASSUME table \in Seq(Rows), NEW f, NEW row \in Rows, table' = Append(table, row)
  PROVE  Forward(f)
<1> DEFINE u == Sorted(f, TRUE)
           d == Sorted(f, FALSE)
<1>1. u \in Seq(Nat) /\ d \in Seq(Nat)
  BY SortedIs
<1>2. PICK x \in Seq(Nat) : u' = u \o x
  BY SortedAfterInsert
<1>3. PICK y \in Seq(Nat) : d' = y \o d
  BY SortedAfterInsert
<1> HIDE DEF u, d
<1>4. \A s, more \in Seq(Nat) :
        /\ Len(s \o more) \in Nat /\ Len(s) <= Len(s \o more)
        /\ \A i \in 1 .. Len(s) : (s \o more)[i] = s[i] /\ i \in DOMAIN (s \o more)
        /\ \A i \in 1 .. Len(s) : \E j \in DOMAIN (more \o s) \cap Nat : j >= i /\ (more \o s)[j] = s[i]
  BY JoinedMoves, Zenon
<1>5. Len(u') \in Nat /\ Len(u) <= Len(u') /\ \A i \in 1 .. Len(u) : u'[i] = u[i] /\ i \in DOMAIN u'
  BY <1>1, <1>2, <1>4, Zenon
<1>6. \A i \in 1 .. Len(d) : \E j \in DOMAIN d' \cap Nat : j >= i /\ d'[j] = d[i]
  BY <1>1, <1>3, <1>4, Zenon
<1>7. DOMAIN u = 1 .. Len(u) /\ DOMAIN d = 1 .. Len(d)
  BY <1>1
<1>8. \A i \in DOMAIN u : \E j \in DOMAIN u' \cap Nat : j >= i /\ u'[j] = u[i]
  <2>1. Len(u) \in Nat
    BY <1>1
  <2>2. \A i \in 1 .. Len(u) : i \in Nat /\ i >= i
    BY <2>1
  <2> QED
    BY <1>5, <1>7, <2>2
<1>9. Tied(f) => Tied(f)'
  <2>1. DOMAIN table \subseteq DOMAIN table' /\ \A i \in DOMAIN table : table'[i] = table[i]
    OBVIOUS
  <2>2. \A i \in Matching(f) : i \in Matching(f)' /\ table'[i].at = table[i].at
    BY <2>1 DEF Matching, Matches
  <2> QED
    BY <2>2 DEF Tied
<1> QED
  BY <1>5, <1>6, <1>7, <1>8, <1>9 DEF Forward, u, d

\* A status that changes moves nothing in a listing that does not ask for it.
LEMMA StatusMoves ==
  ASSUME table \in Seq(Rows), NEW f \in Filters, f.status = AnyStatus, NEW n \in DOMAIN table, NEW status,
         table' = [table EXCEPT ![n].status = status]
  PROVE  Forward(f)
<1>1. DOMAIN table' = DOMAIN table /\ Len(table') = Len(table)
  OBVIOUS
<1>2. \A i \in DOMAIN table : table'[i].merchant = table[i].merchant /\ table'[i].at = table[i].at
  BY DEF Rows
<1>3. Matching(f)' = Matching(f)
  BY <1>1, <1>2 DEF Matching, Matches
<1>4. \A up : ByTime(up)' = ByTime(up)
  BY <1>1, Zenon DEF ByTime
<1>5. \A up : Sorted(f, up)' = Sorted(f, up)
  BY <1>3, <1>4, Zenon DEF Sorted
<1>6. \A up \in BOOLEAN : Sorted(f, up) \in Seq(Nat)
  BY SortedIs
<1>7. ASSUME NEW up \in BOOLEAN, NEW i \in DOMAIN Sorted(f, up)
      PROVE  \E j \in DOMAIN Sorted(f, up)' \cap Nat : j >= i /\ Sorted(f, up)'[j] = Sorted(f, up)[i]
  <2>1. i \in Nat
    BY <1>6
  <2> QED
    BY <1>5, <2>1
<1>8. Len(Sorted(f, TRUE)) \in Nat
  <2>1. \A q \in Seq(Nat) : Len(q) \in Nat
    OBVIOUS
  <2> QED
    BY <1>6, <2>1
<1>9. Sorted(f, TRUE)' = Sorted(f, TRUE)
  BY <1>5
<1> DEFINE s == Sorted(f, TRUE)
<1>10. Len(s') \in Nat /\ Len(s) <= Len(s') /\ \A i \in 1 .. Len(s) : s'[i] = s[i]
  <2>1. s' = s /\ Len(s) \in Nat
    BY <1>8, <1>9
  <2> HIDE DEF s
  <2>2. Len(s) <= Len(s)
    BY <2>1
  <2> QED
    BY <2>1, <2>2
<1>11. Tied(f) => Tied(f)'
  <2>1. Matching(f) \subseteq DOMAIN table
    BY DEF Matching
  <2> QED
    BY <1>2, <1>3, <2>1 DEF Tied
<1> QED
  BY <1>7, <1>10, <1>11 DEF Forward

LEMMA NoneKept == SoundReading(NotReading)
BY DEF SoundReading, NotReading, PagesRead, Summed, Summaries

\* What a reader has found stays right when the table changes, or the reader is told so.
LEMMA ReadingSurvives ==
  ASSUME DashInv, NEW c \in BOOLEAN, reading \in PagesRead, NEW z, z = [reading EXCEPT !.changed = c],
         reading.changed => c, ~c \/ reading.filter.status = AnyStatus => Forward(reading.filter)
  PROVE  z \in PagesRead /\ SoundReading(z)'
<1>1. PICK r \in PagesRead : r = reading
  OBVIOUS
<1>2. z \in PagesRead /\ z \notin Summed
  BY <1>1 DEF PagesRead, Summed, Summaries
<1>3. /\ z.filter = r.filter /\ z.ascending = r.ascending /\ z.page = r.page /\ z.last = r.last /\ z.wanted = r.wanted
      /\ z.seen = r.seen /\ z.changed = c /\ r.ascending \in BOOLEAN /\ r.seen \in Seq(Nat) /\ r.page \in Nat \ {0}
  BY <1>1 DEF PagesRead
<1>4. SoundReading(r)
  BY <1>1 DEF DashInv
<1> DEFINE f == r.filter
<1>5. Sorted(f, r.ascending) \in Seq(Nat) /\ Sorted(f, TRUE) \in Seq(Nat)
  BY <1>1, <1>3, SortedIs DEF DashInv, DashTypeOK
<1>6. Skipped(r.page) \in Nat
  BY <1>3, NextPage
<1>10. ~z.changed \/ f.status = AnyStatus => Forward(f) /\ (Tied(f) => Tied(f)')
  <2>1. ~z.changed \/ f.status = AnyStatus => Forward(f)
    BY <1>1, <1>3
  <2> QED
    BY <2>1 DEF Forward
<1>7. ASSUME ~z.last, ~(z.changed \/ Tied(f)') PROVE Ahead(z)'
  <2>1. Ahead(r) /\ Forward(f)
    <3>1. Forward(f) /\ ~Tied(f) /\ ~r.changed /\ ~r.last
      BY <1>1, <1>3, <1>7, <1>10
    <3> QED
      BY <1>1, <1>4, <3>1 DEF SoundReading
  <2> HIDE DEF f
  <2>2. ASSUME NEW i \in DOMAIN Sorted(f, r.ascending), i > Skipped(r.page)
        PROVE  \E j \in DOMAIN Sorted(f, r.ascending)' :
                 j > Skipped(r.page) /\ Sorted(f, r.ascending)'[j] = Sorted(f, r.ascending)[i]
    <3>1. PICK j \in DOMAIN Sorted(f, r.ascending)' \cap Nat :
            j >= i /\ Sorted(f, r.ascending)'[j] = Sorted(f, r.ascending)[i]
      BY <1>3, <2>1 DEF Forward
    <3>2. i \in Nat
      BY <1>5 DEF f
    <3> QED
      BY <1>6, <2>2, <3>1, <3>2
  <2> QED
    BY <1>3, <2>1, <2>2 DEF Ahead, f
<1>8. ASSUME ~z.last, z.ascending, z.filter.status = AnyStatus, ~Tied(f)' PROVE FirstShown(z)'
  <2>1. FirstShown(r) /\ Forward(f)
    <3>1. Forward(f) /\ ~Tied(f) /\ ~r.last /\ r.ascending /\ f.status = AnyStatus
      BY <1>3, <1>8, <1>10
    <3> QED
      BY <1>1, <1>4, <3>1 DEF SoundReading
  <2> DEFINE s == Sorted(f, TRUE)
  <2>2. /\ Len(r.seen) = Skipped(r.page) /\ Len(r.seen) <= Len(s)
        /\ \A i \in 1 .. Len(r.seen) : r.seen[i] = s[i]
    BY <2>1 DEF FirstShown
  <2>3. Len(s') \in Nat /\ Len(s) <= Len(s') /\ \A i \in 1 .. Len(s) : s'[i] = s[i]
    BY <2>1 DEF Forward
  <2>6. \A q \in Seq(Nat) : Len(q) \in Nat
    OBVIOUS
  <2>4. Len(s) \in Nat /\ Len(r.seen) \in Nat
    BY <1>3, <1>5, <2>6
  <2> HIDE DEF s
  <2>5. Len(r.seen) <= Len(s') /\ \A i \in 1 .. Len(r.seen) : r.seen[i] = s'[i]
    BY <2>2, <2>3, <2>4
  <2> QED
    BY <1>3, <2>2, <2>5 DEF FirstShown, s
<1>9. ASSUME z.last PROVE ShownAll(z)'
  <2>1. ShownAll(r)
    BY <1>1, <1>3, <1>4, <1>9 DEF SoundReading
  <2>2. r.page = 1 \/ ~(z.changed \/ Tied(f)') => r.wanted \subseteq ToSet(r.seen)
    <3>1. ~(z.changed \/ Tied(f)') => ~(r.changed \/ Tied(f))
      BY <1>1, <1>3, <1>10
    <3> QED
      BY <2>1, <3>1 DEF ShownAll
  <2>3. r.ascending /\ f.status = AnyStatus /\ ~Tied(f)' => Distinct(r.seen)
    BY <1>10, <2>1 DEF ShownAll
  <2>4. z.filter = f
    BY <1>3
  <2> HIDE DEF f
  <2> QED
    BY <1>3, <2>2, <2>3, <2>4 DEF ShownAll
<1>11. z.filter = f
  BY <1>3
<1> HIDE DEF f
<1> QED
  BY <1>2, <1>7, <1>8, <1>9, <1>11 DEF SoundReading

LEMMA SummarySurvives ==
  ASSUME DashInv, reading \in Summed, NEW z, z = [reading EXCEPT !.changed = TRUE]
  PROVE  z \in Summed /\ SoundReading(z)'
<1>1. PICK r \in Summed : r = reading
  OBVIOUS
<1>2. z \in Summed /\ z \notin PagesRead
  BY <1>1 DEF PagesRead, Summed, Summaries
<1>3. z.kind = r.kind /\ z.figures = r.figures /\ z.changed
  BY <1>1 DEF Summed
<1>4. SoundReading(r)
  BY <1>1 DEF DashInv
<1> QED
  BY <1>1, <1>2, <1>3, <1>4 DEF SoundReading, FiguresCurrent, StatsAgree, Queries

\* A table that changes, its readers having noticed, leaves them right.
LEMMA ChangeKeeps ==
  ASSUME DashInv, NEW moved \in BOOLEAN, Noticed(moved), table' \in Seq(Rows),
         \A f \in Filters : ~moved \/ f.status = AnyStatus => Forward(f)
  PROVE  DashInv'
<1>1. CASE reading = NotReading
  <2>1. reading' = NotReading
    BY <1>1 DEF Noticed, NotReading
  <2>2. SoundReading(NotReading)'
    BY DEF SoundReading, NotReading, PagesRead, Summed, Summaries
  <2> QED
    BY <2>1, <2>2 DEF DashInv, DashTypeOK
<1>2. CASE reading \in PagesRead
  <2> DEFINE c == reading.changed \/ (moved /\ reading.filter.status # AnyStatus)
  <2>1. reading' = [reading EXCEPT !.changed = c]
    BY <1>2 DEF Noticed, PagesRead
  <2>2. c \in BOOLEAN /\ reading.filter \in Filters /\ (reading.changed => c)
    BY <1>2 DEF PagesRead
  <2>3. ~c \/ reading.filter.status = AnyStatus => Forward(reading.filter)
    BY <2>2
  <2>4. PICK d \in BOOLEAN : d = c
    BY <2>2
  <2>5. PICK z : z = reading'
    OBVIOUS
  <2> HIDE DEF c
  <2>6. z \in PagesRead /\ SoundReading(z)'
    BY <1>2, <2>1, <2>2, <2>3, <2>4, <2>5, ReadingSurvives
  <2> QED
    BY <2>5, <2>6 DEF DashInv, DashTypeOK
<1>3. CASE reading \in Summed
  <2>1. reading' = [reading EXCEPT !.changed = TRUE]
    BY <1>3 DEF Noticed, Summed, Summaries
  <2>2. PICK z : z = reading'
    OBVIOUS
  <2>3. z \in Summed /\ SoundReading(z)'
    BY <1>3, <2>1, <2>2, SummarySurvives
  <2> QED
    BY <2>2, <2>3 DEF DashInv, DashTypeOK
<1> QED
  BY <1>1, <1>2, <1>3 DEF DashInv, DashTypeOK

LEMMA InsertKeeps ==
  ASSUME DashInv, NEW m \in Merchants, NEW together \in BOOLEAN, InsertRow(m, together) PROVE DashInv'
<1> DEFINE row == [merchant |-> m, status |-> "processing", at |-> IF together THEN LastAt ELSE LastAt + 1]
<1>1. table' = Append(table, row) /\ Noticed(FALSE)
  BY DEF InsertRow
<1>2. row \in Rows
  <2>1. table # << >> => Last(table) \in Rows
    BY DEF Last, DashInv, DashTypeOK
  <2>2. LastAt \in Nat
    BY <2>1 DEF LastAt, Rows
  <2> QED
    BY <2>2 DEF Rows, RowStatuses
<1>3. table' \in Seq(Rows)
  <2> HIDE DEF row
  <2> QED
    BY <1>1, <1>2 DEF DashInv, DashTypeOK
<1>4. \A f : Forward(f)
  BY <1>1, <1>2, InsertMoves DEF DashInv, DashTypeOK
<1> QED
  BY <1>1, <1>3, <1>4, ChangeKeeps

LEMMA StatusKeeps ==
  ASSUME DashInv, NEW n \in DOMAIN table, NEW status \in RowStatuses, SetStatus(n, status) PROVE DashInv'
<1>1. table' = [table EXCEPT ![n].status = status] /\ Noticed(TRUE)
  BY DEF SetStatus
<1>2. table \in Seq(Rows)
  BY DEF DashInv, DashTypeOK
<1>3. table' \in Seq(Rows)
  <2>0. table[n] \in Rows
    BY <1>2
  <2>1. [table[n] EXCEPT !.status = status] \in Rows
    BY <2>0 DEF Rows
  <2>2. table' = [table EXCEPT ![n] = [table[n] EXCEPT !.status = status]]
    BY <1>1
  <2> QED
    BY <1>2, <2>1, <2>2
<1>4. ASSUME NEW f \in Filters, f.status = AnyStatus PROVE Forward(f)
  BY <1>1, <1>2, <1>4, StatusMoves
<1> QED
  BY <1>1, <1>3, <1>4, ChangeKeeps

\* What has been shown when a page has been added.
After(seen, rows, page) == seen \o Page(rows, page)

LEMMA PageAdded ==
  ASSUME NEW rows \in Seq(Nat), NEW seen \in Seq(Nat), NEW page \in Nat \ {0}
  PROVE  /\ After(seen, rows, page) \in Seq(Nat) /\ ToSet(seen) \subseteq ToSet(After(seen, rows, page))
         /\ \A i \in DOMAIN rows :
              Skipped(page) < i /\ i <= Skipped(page + 1) => rows[i] \in ToSet(After(seen, rows, page))
         /\ Len(seen) = Skipped(page) /\ Len(seen) <= Len(rows) /\ (\A i \in 1 .. Len(seen) : seen[i] = rows[i]) =>
              /\ Len(After(seen, rows, page)) <= Len(rows)
              /\ Skipped(page + 1) <= Len(rows) => Len(After(seen, rows, page)) = Skipped(page + 1)
              /\ \A i \in 1 .. Len(After(seen, rows, page)) : After(seen, rows, page)[i] = rows[i]
<1> DEFINE p == Page(rows, page)
           a == After(seen, rows, page)
           k == Skipped(page)
           l == Skipped(page + 1)
<1>1. /\ p \in Seq(Nat)
      /\ \A i \in DOMAIN rows : k < i /\ i <= l => \E j \in DOMAIN p : p[j] = rows[i]
      /\ k <= Len(rows) =>
           /\ Len(p) <= Len(rows) - k
           /\ l <= Len(rows) => Len(p) = Limit
           /\ \A j \in 1 .. Len(p) : p[j] = rows[k + j]
  BY PageIs, Zenon
<1>2. k \in Nat /\ l = k + Limit /\ Limit \in Nat
  <2>1. k \in Nat /\ l = k + Limit
    BY NextPage, Zenon
  <2> QED
    BY <2>1, PagesAssumption
<1> HIDE DEF p, k, l
<1>3. a = seen \o p
  BY DEF After, p
<1>4. /\ seen \o p \in Seq(Nat) /\ Len(seen \o p) = Len(seen) + Len(p) /\ Len(seen) \in Nat /\ Len(p) \in Nat
      /\ \A i \in 1 .. Len(seen) : (seen \o p)[i] = seen[i]
      /\ \A i \in 1 .. Len(p) : (seen \o p)[Len(seen) + i] = p[i]
  BY <1>1, OneThenOther
<1> HIDE DEF a
<1>5. /\ a \in Seq(Nat) /\ Len(a) = Len(seen) + Len(p) /\ Len(seen) \in Nat /\ Len(p) \in Nat
      /\ \A i \in 1 .. Len(seen) : a[i] = seen[i]
      /\ \A i \in 1 .. Len(p) : a[Len(seen) + i] = p[i]
  BY <1>3, <1>4, Zenon
<1>6. \A q \in Seq(Nat) : DOMAIN q = 1 .. Len(q) /\ Len(q) \in Nat
  OBVIOUS
<1>7. DOMAIN a = 1 .. Len(a) /\ DOMAIN p = 1 .. Len(p) /\ DOMAIN seen = 1 .. Len(seen) /\ Len(rows) \in Nat
  BY <1>1, <1>5, <1>6
<1>8. ToSet(seen) \subseteq ToSet(a)
  <2>1. \A i \in 1 .. Len(seen) : i \in 1 .. Len(a)
    BY <1>5
  <2> QED
    BY <1>5, <1>7, <2>1 DEF ToSet
<1>9. ASSUME NEW i \in DOMAIN rows, k < i, i <= l PROVE rows[i] \in ToSet(a)
  <2>1. PICK j \in 1 .. Len(p) : p[j] = rows[i]
    BY <1>1, <1>7, <1>9
  <2>2. Len(seen) + j \in DOMAIN a /\ a[Len(seen) + j] = rows[i]
    BY <1>5, <1>7, <2>1
  <2> QED
    BY <2>2 DEF ToSet
<1>10. ASSUME Len(seen) = k, Len(seen) <= Len(rows), \A i \in 1 .. Len(seen) : seen[i] = rows[i]
       PROVE  /\ Len(a) <= Len(rows)
              /\ l <= Len(rows) => Len(a) = l
              /\ \A i \in 1 .. Len(a) : a[i] = rows[i]
  <2>1. /\ Len(p) <= Len(rows) - k
        /\ l <= Len(rows) => Len(p) = Limit
        /\ \A j \in 1 .. Len(p) : p[j] = rows[k + j]
    BY <1>1, <1>10
  <2>2. Len(a) <= Len(rows) /\ (l <= Len(rows) => Len(a) = l)
    <3> DEFINE la == Len(a)
               lp == Len(p)
               ls == Len(seen)
               lr == Len(rows)
    <3>1. la = ls + lp /\ ls \in Nat /\ lp \in Nat /\ lr \in Nat /\ ls = k /\ k \in Nat /\ Limit \in Nat
      BY <1>2, <1>5, <1>7, <1>10
    <3>2. lp <= lr - k /\ (l <= lr => lp = Limit) /\ l = k + Limit
      BY <1>2, <2>1
    <3> HIDE DEF la, lp, ls, lr
    <3>3. la <= lr /\ (l <= lr => la = l)
      BY <3>1, <3>2
    <3> QED
      BY <3>3 DEF la, lr
  <2>3. ASSUME NEW i \in 1 .. Len(a) PROVE a[i] = rows[i]
    <3>1. CASE i <= Len(seen)
      BY <1>5, <1>10, <3>1
    <3>2. CASE i > Len(seen)
      <4>1. PICK j \in 1 .. Len(p) : i = Len(seen) + j
        <5>1. i - Len(seen) \in 1 .. Len(p) /\ i = Len(seen) + (i - Len(seen))
          BY <1>5, <3>2
        <5> QED
          BY <5>1
      <4>2. a[Len(seen) + j] = p[j] /\ p[j] = rows[k + j]
        BY <1>5, <2>1
      <4> QED
        BY <1>10, <4>1, <4>2
    <3> QED
      BY <1>5, <3>1, <3>2
  <2> QED
    BY <2>2, <2>3
<1> QED
  BY <1>5, <1>8, <1>9, <1>10 DEF a, k, l

\* While the table stays as it is, so do its listings and figures.
LEMMA ListingsStay == ASSUME UNCHANGED table, NEW f, NEW up PROVE Sorted(f, up)' = Sorted(f, up)
BY Zenon DEF Sorted, ByTime, Matching, Matches
LEMMA TiesStay == ASSUME UNCHANGED table, NEW f PROVE Tied(f)' = Tied(f)
BY Zenon DEF Tied, Matching, Matches
LEMMA FiguresStay == ASSUME UNCHANGED table, NEW r, NEW q PROVE Figure(r, q)' = Figure(r, q)
BY Zenon DEF Figure, PayoutFigure, TransactionFigure, RefundFigure, Between, OfStatus, Processed, EverOf, PreviousEver,
            PreviousPeriod

LEMMA ReadKeeps ==
  ASSUME DashInv, UNCHANGED table, NEW z, z = reading',
         z = NotReading \/ z \in PagesRead \/ z \in Summed, SoundReading(z)
  PROVE  DashInv'
<1>1. SoundReading(z)'
  <2>1. \A f, up : Sorted(f, up)' = Sorted(f, up)
    BY ListingsStay
  <2>2. \A q : Figure(z, q)' = Figure(z, q)
    BY FiguresStay
  <2>8. \A f : Tied(f)' = Tied(f)
    BY TiesStay
  <2>3. Ahead(z) => Ahead(z)'
    BY <2>1 DEF Ahead
  <2>4. FirstShown(z) => FirstShown(z)'
    BY <2>1 DEF FirstShown
  <2>5. ShownAll(z) => ShownAll(z)'
    BY <2>8 DEF ShownAll
  <2>6. FiguresCurrent(z) => FiguresCurrent(z)'
    BY <2>2 DEF FiguresCurrent, Queries
  <2>7. StatsAgree(z) => StatsAgree(z)'
    BY DEF StatsAgree
  <2> QED
    BY <2>3, <2>4, <2>5, <2>6, <2>7, <2>8 DEF SoundReading
<1> QED
  BY <1>1 DEF DashInv, DashTypeOK

\* A listing that starts has all it was asked for before it.
LEMMA ListBeginKeeps ==
  ASSUME DashInv, NEW filter \in Filters, NEW ascending \in BOOLEAN, ListBegin(filter, ascending) PROVE DashInv'
<1>1. PICK z : z = reading'
  OBVIOUS
<1>2. /\ UNCHANGED table /\ table \in Seq(Rows)
      /\ z = [kind |-> "pages", filter |-> filter, ascending |-> ascending, page |-> 1, last |-> FALSE,
              wanted |-> Matching(filter), seen |-> << >>, changed |-> FALSE]
  BY <1>1 DEF ListBegin, DashInv, DashTypeOK
<1>3. Matching(filter) \in SUBSET Nat
  BY <1>2 DEF Matching
<1>4. z \in PagesRead /\ z \notin Summed
  <2>1. << >> \in Seq(Nat) /\ 1 \in Nat \ {0}
    OBVIOUS
  <2> QED
    BY <1>2, <1>3, <2>1 DEF PagesRead, Summed, Summaries
<1>5. /\ z.filter = filter /\ z.ascending = ascending /\ z.wanted = Matching(filter) /\ z.seen = << >>
      /\ z.page = 1 /\ ~z.last
  BY <1>2
<1>6. /\ Sorted(filter, ascending) \in Seq(Nat) /\ Sorted(filter, TRUE) \in Seq(Nat)
      /\ \A n \in Matching(filter) : \E i \in DOMAIN Sorted(filter, ascending) : Sorted(filter, ascending)[i] = n
  BY <1>2, SortedIs
<1>7. Skipped(1) = 0
  BY NextPage
<1>8. Ahead(z)
  <2>1. \A q \in Seq(Nat) : \A i \in DOMAIN q : i > 0
    OBVIOUS
  <2> QED
    BY <1>5, <1>6, <1>7, <2>1 DEF Ahead
<1>9. FirstShown(z)
  <2>1. \A q \in Seq(Nat) : Len(q) \in Nat /\ 0 <= Len(q)
    OBVIOUS
  <2>2. 0 <= Len(Sorted(filter, TRUE))
    BY <1>6, <2>1, Zenon
  <2>3. Len(<< >>) = 0
    OBVIOUS
  <2>4. ~\E i : i \in 1 .. 0
    OBVIOUS
  <2> QED
    BY <1>5, <1>7, <2>2, <2>3, <2>4, Zenon DEF FirstShown
<1>10. SoundReading(z)
  BY <1>4, <1>5, <1>8, <1>9 DEF SoundReading
<1> QED
  BY <1>1, <1>2, <1>4, <1>10, ReadKeeps

\* An export shows all it was asked for at once.
LEMMA ExportKeeps == ASSUME DashInv, NEW filter \in Filters, Export(filter) PROVE DashInv'
<1>1. PICK z : z = reading'
  OBVIOUS
<1>2. UNCHANGED table /\ table \in Seq(Rows)
  BY DEF Export, DashInv, DashTypeOK
<1>3. PICK rows \in Orders(filter, FALSE) :
        z = [kind |-> "pages", filter |-> filter, ascending |-> FALSE, page |-> 1, last |-> TRUE,
             wanted |-> Matching(filter), seen |-> rows, changed |-> FALSE]
  BY <1>1, Zenon DEF Export
<1>4. rows \in Seq(Nat) /\ Matching(filter) \subseteq ToSet(rows)
  BY <1>2, OrdersAre
<1>5. z \in PagesRead /\ z \notin Summed
  <2>1. PICK w : w = Matching(filter)
    OBVIOUS
  <2>2. z = [kind |-> "pages", filter |-> filter, ascending |-> FALSE, page |-> 1, last |-> TRUE,
             wanted |-> w, seen |-> rows, changed |-> FALSE]
    BY <1>3, <2>1, Zenon
  <2>3. w \in SUBSET Nat
    BY <1>2, <2>1 DEF Matching
  <2> QED
    BY <1>4, <2>2, <2>3 DEF PagesRead, Summed, Summaries
<1>6. z.seen = rows /\ z.wanted = Matching(filter) /\ ~z.ascending /\ z.last
  BY <1>3
<1>7. ShownAll(z)
  BY <1>4, <1>6 DEF ShownAll
<1>8. SoundReading(z)
  BY <1>5, <1>6, <1>7 DEF SoundReading
<1> QED
  BY <1>1, <1>2, <1>5, <1>8, ReadKeeps

\* One page more: what was ahead is shown or still ahead, and after the last page nothing is.
LEMMA ListPageKeeps == ASSUME DashInv, ListPage PROVE DashInv'
<1>1. PICK r : r = reading
  OBVIOUS
<1>2. PICK z : z = reading'
  OBVIOUS
<1>3. r \in PagesRead /\ ~r.last /\ SoundReading(r) /\ UNCHANGED table /\ table \in Seq(Rows)
  BY <1>1 DEF ListPage, DashInv, DashTypeOK, NotReading, Summed, Summaries
<1>4. PICK rows \in Orders(r.filter, r.ascending) :
        z = [r EXCEPT !.seen = @ \o Page(rows, r.page), !.page = @ + 1, !.last = r.page >= TotalPages(Len(rows))]
  BY <1>1, <1>2, Zenon DEF ListPage
<1> DEFINE after == After(r.seen, rows, r.page)
           done  == r.page >= TotalPages(Len(rows))
<1>5. z = [r EXCEPT !.seen = after, !.page = r.page + 1, !.last = done]
  BY <1>4, Zenon DEF After
<1>6. /\ r.filter \in Filters /\ r.ascending \in BOOLEAN /\ r.page \in Nat \ {0} /\ r.seen \in Seq(Nat)
      /\ r.wanted \in SUBSET Nat /\ r.changed \in BOOLEAN
  BY <1>3 DEF PagesRead
<1>7. rows \in Seq(Nat) /\ Len(rows) \in Nat
  <2>1. rows \in Seq(Nat)
    BY <1>3, <1>6, OrdersAre
  <2> QED
    BY <2>1
<1> DEFINE tied == Tied(r.filter)
<1>21. ~tied => rows = Sorted(r.filter, r.ascending) /\ Distinct(rows)
  BY <1>3, <1>6, OrdersAre, SortedIs
<1> HIDE DEF tied
<1>8. /\ after \in Seq(Nat) /\ ToSet(r.seen) \subseteq ToSet(after)
      /\ \A i \in DOMAIN rows : Skipped(r.page) < i /\ i <= Skipped(r.page + 1) => rows[i] \in ToSet(after)
      /\ /\ Len(r.seen) = Skipped(r.page) /\ Len(r.seen) <= Len(rows)
         /\ \A i \in 1 .. Len(r.seen) : r.seen[i] = rows[i]
         =>
           /\ Len(after) <= Len(rows)
           /\ Skipped(r.page + 1) <= Len(rows) => Len(after) = Skipped(r.page + 1)
           /\ \A i \in 1 .. Len(after) : after[i] = rows[i]
  BY <1>6, <1>7, PageAdded
<1>9. done <=> Skipped(r.page + 1) >= Len(rows)
  BY <1>6, <1>7, PagesReach
<1>10. Skipped(r.page) \in Nat /\ Skipped(r.page + 1) \in Nat
  <2>1. Skipped(r.page) \in Nat /\ Skipped(r.page + 1) = Skipped(r.page) + Limit
    BY <1>6, NextPage
  <2> QED
    BY <2>1, PagesAssumption
<1>11. done \in BOOLEAN
  OBVIOUS
<1> HIDE DEF after, done
<1>12. z \in PagesRead /\ z \notin Summed
  <2>1. PICK a, p, l : a = after /\ p = r.page + 1 /\ l = done
    OBVIOUS
  <2>2. a \in Seq(Nat) /\ l \in BOOLEAN
    BY <1>8, <1>11, <2>1
  <2>3. p \in Nat \ {0}
    BY <1>6, <2>1
  <2>4. z = [r EXCEPT !.seen = a, !.page = p, !.last = l]
    BY <1>5, <2>1, Zenon
  <2> QED
    BY <1>3, <2>2, <2>3, <2>4 DEF PagesRead, Summed, Summaries
<1>13. /\ z.filter = r.filter /\ z.ascending = r.ascending /\ z.wanted = r.wanted /\ z.changed = r.changed
       /\ z.seen = after /\ z.page = r.page + 1 /\ z.last = done
  BY <1>3, <1>5 DEF PagesRead
<1>14. DOMAIN rows = 1 .. Len(rows) /\ DOMAIN after = 1 .. Len(after) /\ Len(after) \in Nat
  BY <1>7, <1>8
<1>15. ASSUME ~(r.changed \/ tied), NEW n \in r.wanted
       PROVE  n \in ToSet(after) \/ \E i \in DOMAIN rows : i > Skipped(r.page + 1) /\ rows[i] = n
  <2>1. Ahead(r)
    BY <1>3, <1>15 DEF SoundReading, tied
  <2>2. n \in ToSet(r.seen) \/ \E i \in DOMAIN rows : i > Skipped(r.page) /\ rows[i] = n
    BY <1>21, <1>15, <2>1 DEF Ahead
  <2>3. ASSUME NEW i \in DOMAIN rows, i > Skipped(r.page), rows[i] = n
        PROVE  n \in ToSet(after) \/ \E j \in DOMAIN rows : j > Skipped(r.page + 1) /\ rows[j] = n
    <3>1. i \in Nat
      BY <1>7, <1>14
    <3>2. CASE i <= Skipped(r.page + 1)
      BY <1>8, <1>10, <2>3, <3>1, <3>2
    <3>3. CASE i > Skipped(r.page + 1)
      BY <2>3, <3>3
    <3> QED
      BY <1>10, <3>1, <3>2, <3>3
  <2> QED
    BY <1>8, <2>2, <2>3
<1>16. ASSUME r.ascending, r.filter.status = AnyStatus, ~tied
       PROVE  /\ Len(after) <= Len(rows) /\ (Skipped(r.page + 1) <= Len(rows) => Len(after) = Skipped(r.page + 1))
              /\ \A i \in 1 .. Len(after) : after[i] = rows[i]
  <2>1. FirstShown(r) /\ rows = Sorted(r.filter, TRUE)
    BY <1>3, <1>21, <1>16 DEF SoundReading, tied
  <2> QED
    BY <1>8, <2>1 DEF FirstShown
<1>17. ~z.last /\ ~(z.changed \/ tied) => Ahead(z)
  BY <1>21, <1>13, <1>15 DEF Ahead
<1>18. ~z.last /\ z.ascending /\ z.filter.status = AnyStatus /\ ~tied => FirstShown(z)
  <2> SUFFICES ASSUME ~z.last, z.ascending, z.filter.status = AnyStatus, ~tied PROVE FirstShown(z)
    OBVIOUS
  <2>1. rows = Sorted(z.filter, TRUE)
    BY <1>21, <1>6, <1>13
  <2>2. Skipped(r.page + 1) <= Len(rows)
    BY <1>7, <1>9, <1>10, <1>13
  <2> QED
    BY <1>13, <1>16, <2>1, <2>2 DEF FirstShown
<1>19. z.last => ShownAll(z)
  <2> SUFFICES ASSUME z.last PROVE ShownAll(z)
    OBVIOUS
  <2>1. Skipped(r.page + 1) >= Len(rows)
    BY <1>9, <1>13
  <2>2. ASSUME ~(z.changed \/ tied), NEW n \in z.wanted PROVE n \in ToSet(z.seen)
    <3>1. ~\E i \in DOMAIN rows : i > Skipped(r.page + 1)
      BY <1>7, <1>10, <1>14, <2>1
    <3> QED
      BY <1>13, <1>15, <2>2, <3>1
  <2>3. ASSUME z.ascending, z.filter.status = AnyStatus, ~tied PROVE Distinct(z.seen)
    <3>1. Len(after) <= Len(rows) /\ \A i \in 1 .. Len(after) : after[i] = rows[i]
      BY <1>13, <1>16, <2>3
    <3>2. \A i \in 1 .. Len(after) : i \in 1 .. Len(rows)
      BY <1>7, <1>14, <3>1
    <3>3. Distinct(after)
      BY <1>7, <1>14, <1>21, <2>3, <3>1, <3>2 DEF Distinct
    <3> QED
      BY <1>13, <3>3
  <2>4. z.page # 1 /\ z.filter = r.filter
    BY <1>6, <1>13
  <2> QED
    BY <2>2, <2>3, <2>4 DEF ShownAll, tied
<1>20. SoundReading(z)
  BY <1>12, <1>13, <1>17, <1>18, <1>19 DEF SoundReading, tied
<1> QED
  BY <1>2, <1>3, <1>12, <1>20, ReadKeeps

\* No reading, then nothing is asked of it.
LEMMA ReadingEndsKeeps == ASSUME DashInv, ReadingEnds PROVE DashInv'
BY NoneKept, ReadKeeps DEF ReadingEnds

\* The rows a figure counts are some of the table's, and those of a listed status are as many as their parts.
LEMMA RowsAreFinite ==
  ASSUME table \in Seq(Rows), NEW rows, rows \subseteq DOMAIN table
  PROVE  IsFiniteSet(rows) /\ Cardinality(rows) \in Nat
<1>1. Len(table) \in Nat /\ DOMAIN table = 1 .. Len(table)
  OBVIOUS
<1>2. IsFiniteSet(1 .. Len(table))
  BY <1>1, FS_Interval
<1> QED
  BY <1>1, <1>2, FS_Subset, FS_CardinalityType

LEMMA StatusOf == ASSUME table \in Seq(Rows), NEW n \in DOMAIN table PROVE table[n].status \in RowStatuses
<1>1. table[n] \in Rows
  OBVIOUS
<1> HIDE DEF RowStatuses
<1> QED
  BY <1>1 DEF Rows

LEMMA PartsOf ==
  ASSUME table \in Seq(Rows), NEW rows, rows \subseteq DOMAIN table, NEW a, NEW b, a \subseteq rows, b \subseteq rows,
         a \cap b = {}
  PROVE  /\ Cardinality(a) + Cardinality(b) = Cardinality(a \cup b)
         /\ Cardinality(a \cup b) <= Cardinality(rows)
<1>1. a \subseteq DOMAIN table /\ b \subseteq DOMAIN table /\ a \cup b \subseteq DOMAIN table
  OBVIOUS
<1>2. /\ IsFiniteSet(a) /\ Cardinality(a) \in Nat /\ IsFiniteSet(b) /\ Cardinality(b) \in Nat
      /\ IsFiniteSet(rows) /\ Cardinality(rows) \in Nat
  BY <1>1, RowsAreFinite
<1>3. Cardinality(a \cup b) = Cardinality(a) + Cardinality(b)
  <2>1. Cardinality(a \cup b) = Cardinality(a) + Cardinality(b) - Cardinality(a \cap b)
    BY <1>2, FS_Union
  <2>2. Cardinality(a \cap b) = 0
    BY FS_EmptySet
  <2> QED
    BY <1>2, <2>1, <2>2
<1>4. Cardinality(a \cup b) <= Cardinality(rows)
  BY <1>2, FS_Subset
<1> QED
  BY <1>3, <1>4

\* Every row has one of the three statuses.
LEMMA EachHasAStatus ==
  ASSUME table \in Seq(Rows), NEW rows, rows \subseteq DOMAIN table
  PROVE  Cardinality(OfStatus(rows, {"processing"})) + Cardinality(OfStatus(rows, {"done"}))
           + Cardinality(OfStatus(rows, {"failed"})) = Cardinality(rows)
<1> DEFINE p == OfStatus(rows, {"processing"})
           d == OfStatus(rows, {"done"})
           f == OfStatus(rows, {"failed"})
<1>1. p \subseteq rows /\ d \subseteq rows /\ f \subseteq rows /\ p \cap d = {} /\ (p \cup d) \cap f = {}
  BY DEF OfStatus
<1>2. (p \cup d) \cup f = rows
  <2>1. \A n \in DOMAIN table : table[n].status \in {"processing", "done", "failed"}
    BY StatusOf DEF RowStatuses
  <2> QED
    BY <2>1 DEF OfStatus
<1> HIDE DEF p, d, f
<1>3. p \cup d \subseteq rows
  BY <1>1
<1>4. Cardinality(p) + Cardinality(d) = Cardinality(p \cup d)
  BY <1>1, PartsOf
<1>5. Cardinality(p \cup d) + Cardinality(f) = Cardinality((p \cup d) \cup f)
  BY <1>1, <1>3, PartsOf
<1> QED
  BY <1>2, <1>4, <1>5 DEF p, d, f

\* Statistics of rows that were read once add up.
LEMMA SummaryBeginKeeps ==
  ASSUME DashInv, NEW kind \in Summaries, NEW m \in Merchants, NEW from \in 1 .. MaxRows, NEW to \in 1 .. MaxRows,
         SummaryBegin(kind, m, from, to)
  PROVE  DashInv'
<1>1. PICK z : z = reading'
  OBVIOUS
<1>2. PICK figures : figures = IF kind = "stats" THEN StatsFigures(m, from, to) ELSE << >>
  OBVIOUS
<1>3. /\ UNCHANGED table /\ table \in Seq(Rows)
      /\ z = [kind |-> kind, merchant |-> m, from |-> from, to |-> to, changed |-> FALSE, figures |-> figures]
  BY <1>1, <1>2, Zenon DEF SummaryBegin, DashInv, DashTypeOK
<1> DEFINE rows == Between(m, from, to)
           Count(statuses) == Cardinality(OfStatus(rows, statuses))
<1>4. rows \subseteq DOMAIN table
  BY DEF Between
<1>5. \A statuses : Count(statuses) \in Nat
  <2> TAKE statuses
  <2>1. OfStatus(rows, statuses) \subseteq DOMAIN table
    BY <1>4 DEF OfStatus
  <2> QED
    BY <1>3, <2>1, RowsAreFinite
<1>6. Count({"processing"}) + Count({"done"}) + Count({"failed"}) = Count(RowStatuses)
  <2>1. \A n \in DOMAIN table : table[n].status \in RowStatuses
    BY <1>3, StatusOf
  <2>2. OfStatus(rows, RowStatuses) = rows
    BY <1>4, <2>1 DEF OfStatus
  <2> QED
    BY <1>3, <1>4, <2>2, EachHasAStatus
<1>7. CASE kind = "stats"
  <2>1. PICK t, p, d, f \in Nat : t = Count(RowStatuses) /\ p = Count({"processing"}) /\ d = Count({"done"})
                                   /\ f = Count({"failed"})
    BY <1>5
  <2>2. figures = [total |-> t, processing |-> p, done |-> d, failed |-> f]
    BY <1>2, <1>7, <2>1, Zenon DEF StatsFigures
  <2>3. p + d + f = t
    BY <1>6, <2>1, Zenon
  <2>4. figures \in [{"total", "processing", "done", "failed"} -> Nat]
    BY <2>2
  <2>5. {"total", "processing", "done", "failed"} \in SUBSET QueryNames
    BY DEF QueryNames
  <2>6. figures \in UNION {[queries -> Nat] : queries \in SUBSET QueryNames}
    BY <2>4, <2>5, Zenon
  <2>7. z \in Summed /\ z \notin PagesRead /\ z.kind = "stats" /\ z.figures = figures
    <3> DEFINE figured == UNION {[queries -> Nat] : queries \in SUBSET QueryNames}
    <3>1. from \in Nat \ {0} /\ to \in Nat \ {0} /\ figures \in figured
      BY <2>6, PagesAssumption
    <3> HIDE DEF figured
    <3>2. z \in [kind : Summaries, merchant : Merchants, from : Nat \ {0}, to : Nat \ {0}, changed : BOOLEAN,
                 figures : figured]
      BY <1>3, <3>1
    <3>3. z \in Summed
      BY <3>2, Zenon DEF Summed, figured
    <3>4. z \notin PagesRead
      BY <1>3, <1>7 DEF PagesRead
    <3> QED
      BY <1>3, <1>7, <3>3, <3>4
  <2>8. StatsAgree(z)
    BY <2>2, <2>3, <2>7 DEF StatsAgree
  <2>9. SoundReading(z)
    BY <2>7, <2>8 DEF SoundReading
  <2> QED
    BY <1>1, <1>3, <2>7, <2>9, ReadKeeps
<1>8. CASE kind # "stats"
  <2>1. figures = << >>
    BY <1>2, <1>8
  <2>2. figures \in [{} -> Nat] /\ DOMAIN figures = {}
    BY <2>1
  <2>3. {} \in SUBSET QueryNames
    OBVIOUS
  <2>4. figures \in UNION {[queries -> Nat] : queries \in SUBSET QueryNames}
    BY <2>2, <2>3, Zenon
  <2>5. z \in Summed /\ z \notin PagesRead /\ z.kind = kind /\ z.figures = figures
    <3> DEFINE figured == UNION {[queries -> Nat] : queries \in SUBSET QueryNames}
    <3>1. from \in Nat \ {0} /\ to \in Nat \ {0} /\ figures \in figured
      BY <2>4, PagesAssumption
    <3> HIDE DEF figured
    <3>2. z \in [kind : Summaries, merchant : Merchants, from : Nat \ {0}, to : Nat \ {0}, changed : BOOLEAN,
                 figures : figured]
      BY <1>3, <3>1
    <3>3. z \in Summed
      BY <3>2, Zenon DEF Summed, figured
    <3>4. z \notin PagesRead
      BY <1>3 DEF PagesRead, Summaries
    <3> QED
      BY <1>3, <3>3, <3>4
  <2>6. FiguresCurrent(z)
    BY <2>2, <2>5 DEF FiguresCurrent
  <2>7. SoundReading(z)
    BY <1>8, <2>5, <2>6 DEF SoundReading
  <2> QED
    BY <1>1, <1>3, <2>5, <2>7, ReadKeeps
<1> QED
  BY <1>7, <1>8

\* The queries of a summary in progress.
LEMMA QueriesNamed == ASSUME NEW kind PROVE Queries(kind) \subseteq QueryNames
<1>1. ToSet(PayoutQueries) \subseteq QueryNames
  <2>1. DOMAIN PayoutQueries = 1 .. 6
    BY DEF PayoutQueries
  <2>2. \A i \in 1 .. 6 : PayoutQueries[i] \in QueryNames
    <3>1. \A i \in 1 .. 6 : i \in {1, 2, 3, 4, 5, 6}
      OBVIOUS
    <3> QED
      BY <3>1 DEF PayoutQueries, QueryNames
  <2> QED
    BY <2>1, <2>2 DEF ToSet
<1>2. ToSet(TransactionQueries) \subseteq QueryNames
  <2>1. DOMAIN TransactionQueries = 1 .. 5
    BY DEF TransactionQueries
  <2>2. \A i \in 1 .. 5 : TransactionQueries[i] \in QueryNames
    <3>1. \A i \in 1 .. 5 : i \in {1, 2, 3, 4, 5}
      OBVIOUS
    <3> QED
      BY <3>1 DEF TransactionQueries, QueryNames
  <2> QED
    BY <2>1, <2>2 DEF ToSet
<1>3. RefundQueries \subseteq QueryNames
  BY DEF RefundQueries, RowStatuses, QueryNames
<1> QED
  BY <1>1, <1>2, <1>3 DEF Queries

LEMMA RateIsNat == ASSUME NEW part \in Nat, NEW whole \in Nat PROVE Rate(part, whole) \in Nat
BY DEF Rate

LEMMA FigureIsNat == ASSUME table \in Seq(Rows), NEW r, NEW q PROVE Figure(r, q) \in Nat
<1>1. /\ \A m, from, to : Between(m, from, to) \subseteq DOMAIN table
      /\ \A s, statuses : OfStatus(s, statuses) \subseteq s
      /\ \A m : EverOf(m) \subseteq DOMAIN table
  BY DEF Between, OfStatus, EverOf
<1>2. PayoutFigure(r, q) \subseteq DOMAIN table
  BY <1>1 DEF PayoutFigure, Processed
<1>3. RefundFigure(r, q) \subseteq DOMAIN table
  BY <1>1 DEF RefundFigure
<1>4. Cardinality(PayoutFigure(r, q)) \in Nat /\ Cardinality(RefundFigure(r, q)) \in Nat
  BY <1>2, <1>3, RowsAreFinite
<1> DEFINE parsed == EverOf(ParsedId[r.merchant])
<1>5. parsed \subseteq DOMAIN table /\ \A statuses : OfStatus(parsed, statuses) \subseteq DOMAIN table
  BY <1>1
<1>6. /\ \A statuses : Cardinality(OfStatus(parsed, statuses)) \in Nat
      /\ Cardinality(parsed) \in Nat /\ Cardinality(EverOf(r.merchant)) \in Nat
  BY <1>1, <1>5, RowsAreFinite
<1>7. TransactionFigure(r, q) \in Nat
  <2>1. Rate(Cardinality(OfStatus(parsed, {"done"})), Cardinality(parsed)) \in Nat
    BY <1>6, RateIsNat
  <2> HIDE DEF parsed
  <2> QED
    BY <1>6, <2>1, Zenon DEF TransactionFigure, PreviousEver, parsed
<1> QED
  BY <1>4, <1>7 DEF Figure

\* A summary asks for one of its figures.
LEMMA SummaryQueryKeeps == ASSUME DashInv, SummaryQuery PROVE DashInv'
<1>1. PICK r : r = reading
  OBVIOUS
<1>2. PICK z : z = reading'
  OBVIOUS
<1>3. r \in Summed /\ SoundReading(r) /\ UNCHANGED table /\ table \in Seq(Rows)
  BY <1>1 DEF SummaryQuery, DashInv, DashTypeOK, NotReading, PagesRead, Summaries
<1>4. PICK query \in Unanswered(r) :
        z = [r EXCEPT !.figures = [q \in DOMAIN r.figures \cup {query} |->
                                     IF q = query THEN Figure(r, query) ELSE r.figures[q]]]
  BY <1>1, <1>2, Zenon DEF SummaryQuery
<1>5. query \in Queries(r.kind) /\ query \notin DOMAIN r.figures /\ query \in QueryNames
  BY <1>4, QueriesNamed DEF Unanswered
<1>6. r.kind # "stats"
  BY <1>5 DEF Queries
<1> DEFINE answered == DOMAIN r.figures \cup {query}
<1>7. PICK queries \in SUBSET QueryNames : r.figures \in [queries -> Nat]
  BY <1>3 DEF Summed
<1>8. Figure(r, query) \in Nat
  BY <1>3, FigureIsNat
<1>9. PICK figures : figures = [q \in answered |-> IF q = query THEN Figure(r, query) ELSE r.figures[q]]
  OBVIOUS
<1>10. figures \in [answered -> Nat] /\ answered \in SUBSET QueryNames /\ DOMAIN figures = answered
  BY <1>5, <1>7, <1>8, <1>9
<1>11. z = [r EXCEPT !.figures = figures]
  BY <1>4, <1>9, Zenon
<1>12. figures \in UNION {[qs -> Nat] : qs \in SUBSET QueryNames}
  BY <1>10, Zenon
<1>13. /\ z \in Summed /\ z \notin PagesRead /\ z.kind = r.kind /\ z.merchant = r.merchant /\ z.from = r.from
       /\ z.to = r.to /\ z.changed = r.changed /\ z.figures = figures
  <2> DEFINE figured == UNION {[qs -> Nat] : qs \in SUBSET QueryNames}
             All == [kind : Summaries, merchant : Merchants, from : Nat \ {0}, to : Nat \ {0}, changed : BOOLEAN,
                     figures : figured]
  <2>1. r \in All /\ figures \in figured
    BY <1>3, <1>12, Zenon DEF Summed
  <2> HIDE DEF figured
  <2>2. /\ z \in All /\ z.kind = r.kind /\ z.merchant = r.merchant /\ z.from = r.from /\ z.to = r.to
        /\ z.changed = r.changed /\ z.figures = figures /\ r.kind \in Summaries
    BY <1>11, <2>1
  <2>3. z \in Summed
    BY <2>2, Zenon DEF Summed, figured
  <2>4. z \notin PagesRead
    BY <2>2 DEF PagesRead, Summaries
  <2> QED
    BY <2>2, <2>3, <2>4
<1>14. \A q : Figure(z, q) = Figure(r, q)
  BY <1>13, Zenon DEF Figure, PayoutFigure, TransactionFigure, RefundFigure, EverOf, PreviousEver, PreviousPeriod
<1>15. FiguresCurrent(r)
  BY <1>3, <1>6 DEF SoundReading
<1>16. FiguresCurrent(z)
  <2>1. DOMAIN z.figures \subseteq Queries(z.kind)
    BY <1>5, <1>10, <1>13, <1>15 DEF FiguresCurrent
  <2>2. ASSUME ~z.changed, NEW q \in DOMAIN z.figures PROVE z.figures[q] = Figure(z, q)
    <3>1. q \in answered /\ figures[q] = IF q = query THEN Figure(r, query) ELSE r.figures[q]
      BY <1>9, <1>10, <1>13, <2>2
    <3>2. q # query => r.figures[q] = Figure(r, q)
      BY <1>13, <1>15, <2>2, <3>1 DEF FiguresCurrent
    <3> QED
      BY <1>13, <1>14, <3>1, <3>2
  <2> QED
    BY <2>1, <2>2 DEF FiguresCurrent
<1>17. SoundReading(z)
  BY <1>6, <1>13, <1>16 DEF SoundReading
<1> QED
  BY <1>2, <1>3, <1>13, <1>17, ReadKeeps

LEMMA DashInductive == DashInv /\ [DashboardsNext]_dashboardVars => DashInv'
<1> SUFFICES ASSUME DashInv, [DashboardsNext]_dashboardVars PROVE DashInv'
  OBVIOUS
<1>1. ASSUME NEW m \in Merchants, NEW together \in BOOLEAN, InsertRow(m, together) PROVE DashInv'
  BY <1>1, InsertKeeps
<1>2. ASSUME NEW n \in DOMAIN table, NEW status \in RowStatuses, SetStatus(n, status) PROVE DashInv'
  BY <1>2, StatusKeeps
<1>3. ASSUME NEW filter \in Filters, NEW ascending \in BOOLEAN, ListBegin(filter, ascending) PROVE DashInv'
  BY <1>3, ListBeginKeeps
<1>4. ASSUME NEW filter \in Filters, Export(filter) PROVE DashInv'
  BY <1>4, ExportKeeps
<1>5. ASSUME NEW kind \in Summaries, NEW m \in Merchants, NEW from \in 1 .. MaxRows, NEW to \in 1 .. MaxRows,
             SummaryBegin(kind, m, from, to)
      PROVE  DashInv'
  BY <1>5, SummaryBeginKeeps
<1>6. CASE UNCHANGED dashboardVars
  <2>1. UNCHANGED table /\ reading' = reading
    BY <1>6 DEF dashboardVars
  <2>2. PICK z : z = reading
    OBVIOUS
  <2> QED
    BY <2>1, <2>2, ReadKeeps DEF DashInv, DashTypeOK
<1> QED
  BY <1>1, <1>2, <1>3, <1>4, <1>5, <1>6, ListPageKeeps, SummaryQueryKeeps, ReadingEndsKeeps DEF DashboardsNext

\* A rate is at most 100 percent when the part is at most the whole.
LEMMA RateBounded == ASSUME NEW part \in Nat, NEW whole \in Nat, part <= whole PROVE Rate(part, whole) <= 100
<1>1. CASE whole = 0
  BY <1>1 DEF Rate
<1>2. CASE whole # 0
  <2> DEFINE d == (100 * part) \div whole
             m == (100 * part) % whole
  <2>1. d \in Int /\ m \in 0 .. whole - 1 /\ 100 * part = whole * d + m
    BY <1>2
  <2> HIDE DEF d, m
  <2>2. whole * d <= 100 * whole
    BY <2>1
  <2>3. d >= 101 => whole * d >= whole * 101
    BY <1>2, <2>1
  <2>4. d <= 100
    BY <1>2, <2>1, <2>2, <2>3
  <2> QED
    BY <1>2, <2>4 DEF Rate, d
<1> QED
  BY <1>1, <1>2

LEMMA PagesMissNothing == DashInv => NothingMissed
<1> SUFFICES ASSUME DashInv, Listed
         PROVE  /\ reading.page = 1 \/ ~(reading.changed \/ Tied(reading.filter)) =>
                     reading.wanted \subseteq ToSet(reading.seen)
                /\ reading.ascending /\ reading.filter.status = AnyStatus /\ ~Tied(reading.filter) =>
                     IsInjective(reading.seen)
  BY DEF NothingMissed
<1>1. reading \in PagesRead /\ reading.last /\ ShownAll(reading)
  BY DEF Listed, DashInv, DashTypeOK, SoundReading, NotReading, Summed, Summaries
<1> QED
  BY <1>1 DEF ShownAll, Distinct, IsInjective

\* What the figures of a finished summary are when nothing changed.
LEMMA FinishedFigures ==
  ASSUME DashInv, Summarised, ~reading.changed, reading.kind # "stats"
  PROVE  /\ reading \in Summed /\ table \in Seq(Rows)
         /\ \A q \in Queries(reading.kind) : reading.figures[q] = Figure(reading, q)
<1>1. reading \in Summed /\ table \in Seq(Rows) /\ FiguresCurrent(reading)
  BY DEF Summarised, DashInv, DashTypeOK, SoundReading, NotReading, PagesRead, Summaries
<1>2. Queries(reading.kind) \subseteq DOMAIN reading.figures
  BY DEF Summarised, Unanswered
<1> QED
  BY <1>1, <1>2 DEF FiguresCurrent

LEMMA NamedQueries ==
  /\ {"total", "approved", "pending", "processed", "previous"} \subseteq Queries("payouts")
  /\ {"total", "successful", "failed", "pending"} \subseteq Queries("transactions")
  /\ Queries("refunds") = {"total", "processing", "done", "failed"}
<1>1. \A i \in 1 .. 5 : PayoutQueries[i] \in Queries("payouts")
  <2>1. DOMAIN PayoutQueries = 1 .. 6 /\ \A i \in 1 .. 5 : i \in 1 .. 6
    BY DEF PayoutQueries
  <2> QED
    BY <2>1 DEF Queries, ToSet
<1>2. \A i \in 1 .. 4 : TransactionQueries[i] \in Queries("transactions")
  <2>1. DOMAIN TransactionQueries = 1 .. 5 /\ \A i \in 1 .. 4 : i \in 1 .. 5
    BY DEF TransactionQueries
  <2> QED
    BY <2>1 DEF Queries, ToSet
<1>3. /\ PayoutQueries[1] = "total" /\ PayoutQueries[2] = "approved" /\ PayoutQueries[3] = "pending"
      /\ PayoutQueries[4] = "processed" /\ PayoutQueries[5] = "previous"
      /\ TransactionQueries[1] = "total" /\ TransactionQueries[2] = "successful" /\ TransactionQueries[3] = "failed"
      /\ TransactionQueries[4] = "pending"
  BY DEF PayoutQueries, TransactionQueries
<1>4. 1 \in 1 .. 5 /\ 2 \in 1 .. 5 /\ 3 \in 1 .. 5 /\ 4 \in 1 .. 5 /\ 5 \in 1 .. 5
      /\ 1 \in 1 .. 4 /\ 2 \in 1 .. 4 /\ 3 \in 1 .. 4 /\ 4 \in 1 .. 4
  OBVIOUS
<1>5. {"total", "approved", "pending", "processed", "previous"} \subseteq Queries("payouts")
  BY <1>1, <1>3, <1>4
<1>6. {"total", "successful", "failed", "pending"} \subseteq Queries("transactions")
  BY <1>2, <1>3, <1>4
<1>7. Queries("refunds") = {"total", "processing", "done", "failed"}
  BY DEF Queries, RefundQueries, RowStatuses
<1> QED
  BY <1>5, <1>6, <1>7

\* The counts of a summary whose rows did not change are those of disjoint parts of one set of rows.
LEMMA SummariesAddUp == DashInv => SummaryAddsUp
<1> SUFFICES ASSUME DashInv, Summarised, reading.changed => reading.kind = "stats" PROVE SummaryAddsUp
  BY DEF SummaryAddsUp
<1>1. reading.kind \in Summaries /\ reading \in Summed /\ table \in Seq(Rows)
  BY DEF Summarised, DashInv, DashTypeOK, NotReading, PagesRead, Summaries
<1>2. ASSUME reading.kind # "stats"
      PROVE  \A q \in Queries(reading.kind) : reading.figures[q] = Figure(reading, q)
  <2>1. ~reading.changed
    BY <1>2
  <2> QED
    BY <1>2, <2>1, FinishedFigures
<1> DEFINE base == Between(reading.merchant, reading.from, reading.to)
           ever == EverOf(ParsedId[reading.merchant])
           Size(rows) == Cardinality(rows)
<1>3. base \subseteq DOMAIN table /\ ever \subseteq DOMAIN table
  BY DEF Between, EverOf
<1>4. CASE reading.kind = "payouts"
  <2>1. /\ Figure(reading, "total") = Size(base)
        /\ Figure(reading, "approved") = Size(OfStatus(base, {"done"}))
        /\ Figure(reading, "pending") = Size(OfStatus(base, {"processing"}))
        /\ Figure(reading, "processed") = Size(OfStatus(base, {"done", "failed"}))
    BY <1>4 DEF Figure, PayoutFigure, Processed
  <2>2. /\ reading.figures["total"] = Figure(reading, "total")
        /\ reading.figures["approved"] = Figure(reading, "approved")
        /\ reading.figures["pending"] = Figure(reading, "pending")
        /\ reading.figures["processed"] = Figure(reading, "processed")
    BY <1>2, <1>4, NamedQueries
  <2> DEFINE a == OfStatus(base, {"done"})
             p == OfStatus(base, {"processing"})
             d == OfStatus(base, {"done", "failed"})
  <2>3. a \subseteq d /\ d \subseteq base /\ p \subseteq base /\ d \cap p = {}
    BY DEF OfStatus
  <2> HIDE DEF a, p, d, base
  <2>4. Size(d) + Size(p) = Size(d \cup p) /\ Size(d \cup p) <= Size(base)
    BY <1>1, <1>3, <2>3, PartsOf
  <2>5. Size(a) \in Nat /\ Size(d) \in Nat /\ Size(p) \in Nat /\ Size(base) \in Nat /\ IsFiniteSet(d)
    BY <1>1, <1>3, <2>3, RowsAreFinite
  <2>6. Size(a) <= Size(d)
    BY <2>3, <2>5, FS_Subset
  <2>7. Rate(Size(a), Size(d)) <= 100
    BY <2>5, <2>6, RateBounded
  <2>8. reading.figures.processed + reading.figures.pending <= reading.figures.total
    BY <2>1, <2>2, <2>4, Zenon DEF a, p, d
  <2>9. Rate(reading.figures.approved, reading.figures.processed) <= 100
    BY <2>1, <2>2, <2>7, Zenon DEF a, p, d
  <2> QED
    BY <1>4, <2>8, <2>9 DEF SummaryAddsUp
<1>5. CASE reading.kind = "transactions"
  <2>1. /\ Figure(reading, "total") = Size(EverOf(reading.merchant))
        /\ Figure(reading, "successful") = Rate(Size(OfStatus(ever, {"done"})), Size(ever))
        /\ Figure(reading, "failed") = Size(OfStatus(ever, {"failed"}))
        /\ Figure(reading, "pending") = Size(OfStatus(ever, {"processing"}))
    BY <1>5, Zenon DEF Figure, TransactionFigure
  <2>2. /\ reading.figures["total"] = Figure(reading, "total")
        /\ reading.figures["successful"] = Figure(reading, "successful")
        /\ reading.figures["failed"] = Figure(reading, "failed")
        /\ reading.figures["pending"] = Figure(reading, "pending")
    BY <1>2, <1>5, NamedQueries
  <2> DEFINE a == OfStatus(ever, {"done"})
             p == OfStatus(ever, {"processing"})
             f == OfStatus(ever, {"failed"})
  <2>3. a \subseteq ever /\ p \subseteq ever /\ f \subseteq ever
    BY DEF OfStatus
  <2>4. Size(p) + Size(a) + Size(f) = Size(ever)
    <3> HIDE DEF ever
    <3> QED
      BY <1>1, <1>3, EachHasAStatus
  <2>5. Size(a) \in Nat /\ Size(p) \in Nat /\ Size(f) \in Nat /\ Size(ever) \in Nat
    <3> HIDE DEF a, p, f, ever
    <3> QED
      BY <1>1, <1>3, <2>3, RowsAreFinite
  <2>6. /\ Size(f) + Size(p) <= Size(ever) /\ Size(a) <= Size(ever)
        /\ Size(ever) - Size(f) - Size(p) = Size(a)
    <3> HIDE DEF Size, a, p, f, ever
    <3> QED
      BY <2>4, <2>5
  <2>7. Rate(Size(a), Size(ever)) <= 100
    <3> HIDE DEF Size, a, p, f, ever
    <3> QED
      BY <2>5, <2>6, RateBounded
  <2>8. reading.figures.successful <= 100
    BY <2>1, <2>2, <2>7, Zenon DEF a
  <2>9. ASSUME ParsedId[reading.merchant] = reading.merchant
        PROVE  /\ reading.figures.failed + reading.figures.pending <= reading.figures.total
               /\ reading.figures.successful
                    <= Rate(reading.figures.total - reading.figures.failed - reading.figures.pending,
                            reading.figures.total)
    <3>1. reading.figures.total = Size(ever)
      BY <2>1, <2>2, <2>9
    <3>2. /\ reading.figures.failed = Size(f) /\ reading.figures.pending = Size(p)
          /\ reading.figures.successful = Rate(Size(a), Size(ever))
      BY <2>1, <2>2, Zenon DEF a, p, f
    <3>3. Rate(Size(a), Size(ever)) \in Nat
      <4> HIDE DEF Size, a, p, f, ever
      <4> QED
        BY <2>5, RateIsNat
    <3> HIDE DEF Size, a, p, f, ever
    <3>4. Rate(Size(a), Size(ever)) <= Rate(Size(ever) - Size(f) - Size(p), Size(ever))
      <4>1. Rate(Size(a), Size(ever)) = Rate(Size(ever) - Size(f) - Size(p), Size(ever))
        BY <2>6
      <4> QED
        BY <3>3, <4>1
    <3> QED
      BY <2>6, <3>1, <3>2, <3>4, Zenon
  <2> QED
    BY <1>5, <2>8, <2>9 DEF SummaryAddsUp
<1>6. CASE reading.kind = "refunds"
  <2>1. /\ Figure(reading, "total") = Size(base)
        /\ Figure(reading, "processing") = Size(OfStatus(base, {"processing"}))
        /\ Figure(reading, "done") = Size(OfStatus(base, {"done"}))
        /\ Figure(reading, "failed") = Size(OfStatus(base, {"failed"}))
    BY <1>6 DEF Figure, RefundFigure
  <2>2. /\ reading.figures["total"] = Figure(reading, "total")
        /\ reading.figures["processing"] = Figure(reading, "processing")
        /\ reading.figures["done"] = Figure(reading, "done")
        /\ reading.figures["failed"] = Figure(reading, "failed")
    BY <1>2, <1>6, NamedQueries
  <2> HIDE DEF base
  <2>3. Size(OfStatus(base, {"processing"})) + Size(OfStatus(base, {"done"}))
          + Size(OfStatus(base, {"failed"})) = Size(base)
    BY <1>1, <1>3, EachHasAStatus
  <2>4. reading.figures.processing + reading.figures.done + reading.figures.failed = reading.figures.total
    BY <2>1, <2>2, <2>3, Zenon
  <2> QED
    BY <1>6, <2>4 DEF SummaryAddsUp
<1>7. CASE reading.kind = "stats"
  <2>1. StatsAgree(reading)
    BY <1>1, <1>7 DEF DashInv, SoundReading
  <2> QED
    BY <1>7, <2>1 DEF SummaryAddsUp, StatsAgree
<1> QED
  BY <1>1, <1>4, <1>5, <1>6, <1>7 DEF Summaries

\* The two periods of a trend are the halves of one period twice as long.
LEMMA TrendsCompareHalves == DashInv => TrendOfHalves
<1> SUFFICES ASSUME DashInv, Summarised, reading.kind = "payouts", ~reading.changed PROVE TrendOfHalves
  BY DEF TrendOfHalves
<1>1. /\ reading \in Summed /\ table \in Seq(Rows)
      /\ \A q \in Queries("payouts") : reading.figures[q] = Figure(reading, q)
  BY FinishedFigures
<1> DEFINE m    == reading.merchant
           from == reading.from
           to   == reading.to
           days == to - from + 1
           Half(first) == {n \in DOMAIN table : table[n].merchant = m /\ \E d \in 0 .. days - 1 : table[n].at = first + d}
<1>2. from \in Nat /\ to \in Nat
  BY <1>1 DEF Summed
<1>3. \A n \in DOMAIN table : table[n].at \in Nat
  <2>1. \A n \in DOMAIN table : table[n] \in Rows
    BY <1>1
  <2> QED
    BY <2>1 DEF Rows
<1>4. ASSUME NEW a \in Int, NEW b \in Int, b - a = to - from PROVE Half(a) = Between(m, a, b)
  <2>1. ASSUME NEW n \in Nat PROVE (\E d \in 0 .. days - 1 : n = a + d) <=> n \in a .. b
    <3>1. n \in a .. b => n - a \in 0 .. days - 1 /\ n = a + (n - a)
      BY <1>2, <1>4
    <3>2. ASSUME NEW d \in 0 .. days - 1, n = a + d PROVE n \in a .. b
      BY <1>2, <1>4, <3>2
    <3> QED
      BY <3>1, <3>2
  <2> QED
    BY <1>3, <2>1 DEF Between
<1>5. /\ reading.figures["total"] = Figure(reading, "total")
      /\ reading.figures["previous"] = Figure(reading, "previous")
  BY <1>1, NamedQueries
<1>6. /\ Figure(reading, "total") = Cardinality(Between(m, from, to))
      /\ Figure(reading, "previous") = Cardinality(Between(m, from - 1 - (to - from), from - 1))
  BY DEF Figure, PayoutFigure, PreviousPeriod
<1>7. Half(from) = Between(m, from, to)
  BY <1>2, <1>4
<1>8. Half(from - days) = Between(m, from - 1 - (to - from), from - 1)
  <2> DEFINE a == from - days
             b == from - 1
  <2>1. a \in Int /\ b \in Int /\ b - a = to - from /\ a = from - 1 - (to - from)
    BY <1>2
  <2> HIDE DEF a, b, days
  <2>2. Half(a) = Between(m, a, b)
    BY <1>4, <2>1
  <2> QED
    BY <2>1, <2>2, Zenon DEF a, b
<1>9. Trend(reading.figures.total, reading.figures.previous)
        = Trend(Cardinality(Half(from)), Cardinality(Half(from - days)))
  BY <1>5, <1>6, <1>7, <1>8, Zenon
<1> QED
  BY <1>9, Zenon DEF TrendOfHalves

LEMMA DashStarts == DashboardsInit => DashInv
<1> SUFFICES ASSUME DashboardsInit PROVE DashInv
  OBVIOUS
<1>1. table \in Seq(Rows) /\ reading = NotReading
  BY DEF DashboardsInit
<1> QED
  BY <1>1, NoneKept DEF DashInv, DashTypeOK

THEOREM FiguresAlwaysHold == DashboardsSpec => []FiguresHold
<1>1. DashInv => FiguresHold
  BY PagesMissNothing, SummariesAddUp, TrendsCompareHalves DEF FiguresHold
<1> QED
  BY <1>1, DashStarts, DashInductive, PTL DEF DashboardsSpec
===============================================================================
