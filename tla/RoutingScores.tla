---------------------------- MODULE RoutingScores ----------------------------
(***************************************************************************)
(* How smart-routing.service.ts ranks providers: eight factors of 0..100   *)
(* from routing-factors.service.ts, a weighted sum, an order, and a        *)
(* decision made of the order.  Scores are hundredths of a point.          *)
(*                                                                         *)
(* The health, error rate, latency, regional and hourly performance of a   *)
(* provider are drawn at random by the code; here they are given.          *)
(***************************************************************************)
EXTENDS Integers, Sequences, FiniteSets, SequencesExt, Selections

Factors == {"historical", "availability", "cost", "latency", "bank", "geographic", "time", "custom"}
Weight  == [historical |-> 25, availability |-> 20, cost |-> 15, latency |-> 15, bank |-> 10,
            geographic |-> 5, time |-> 5, custom |-> 5]

AtMost(n, bound)  == IF n > bound THEN bound ELSE n
AtLeast(n, bound) == IF n < bound THEN bound ELSE n

\* calculatePerformanceScore; a provider without metrics gets 85.
HistoricalScore(successes, total) ==
  IF total = 0 THEN 85 ELSE AtMost((100 * successes) \div total + 10, 100)

\* calculateAvailabilityScore, the error rate in percent.
AvailabilityScore(healthy, errorRate) ==
  AtLeast((IF healthy THEN 100 ELSE 50) - 10 * errorRate, 0)

\* calculateCostAnalysis: a fee of 0 % counts as 2 %.
CostScore(amount, percent, fixed) ==
  LET fee == amount * (IF percent = 0 THEN 2 ELSE percent) + 100 * fixed  \* in hundredths
  IN AtLeast(100 - (20 * fee) \div amount, 0)

LatencyScore(milliseconds) == AtLeast(100 - milliseconds \div 50, 0)

\* calculateBankCompatibility: neutral without a bank, 90 for an unknown one.
BankScore(bank, successes, total) ==
  IF bank = "none" THEN 100 ELSE IF total = 0 THEN 90 ELSE (100 * successes) \div total

TimezoneScore(country, hour) ==
  IF country # "IN" THEN 90 ELSE IF hour \in 9 .. 21 THEN 95 ELSE 85

SulifuCountries == {"BR", "IN", "CN", "HK", "SG", "ID", "TH", "PH", "MY", "KR", "JP", "TW"}
GeographicScore(p, country, hour, regional) ==
  LET performance == IF p = "sulifu_pay" /\ country \in SulifuCountries THEN AtLeast(regional, 95)
                     ELSE regional
  IN (performance + TimezoneScore(country, hour)) \div 2

TimeScore(hour, hourly) == IF hour \in 18 .. 23 THEN (9 * hourly) \div 10 ELSE hourly

GamingScore(p, amount) ==
  AtMost((IF p \in {"razorpay", "stripe", "sulifu_pay"} THEN 95 ELSE 80)
         + (IF amount <= 1000 THEN 5 ELSE 0), 100)
IndustryScore(p, industry) ==
  CASE industry # "gaming" -> 85
    [] p \in {"razorpay", "stripe", "paytara", "sulifu_pay"} -> 90
    [] OTHER -> 75
CustomScore(p, amount, industry) == (GamingScore(p, amount) + IndustryScore(p, industry)) \div 2

\* getTSPScore: no score, and a score of 0, count as 50.
Factor(score) == IF score = 0 THEN 50 ELSE score

\* calculateTSPScores for one provider.  No rule multiplies the sum: the fields the code
\* asks the rules for are not columns of theirs.
Points(f) ==
  Weight.historical * Factor(f.historical) + Weight.availability * Factor(f.availability)
  + Weight.cost * Factor(f.cost) + Weight.latency * Factor(f.latency) + Weight.bank * Factor(f.bank)
  + Weight.geographic * Factor(f.geographic) + Weight.time * Factor(f.time)
  + Weight.custom * Factor(f.custom)
Score(f) == AtMost(AtLeast(Points(f), 0), 10000)

\* Variant: the sort is ascending.
RankedAscending(factors) ==
  CHOOSE ranked \in SetToSeqs(DOMAIN factors) :
    \A i, j \in DOMAIN ranked : i < j => Score(factors[ranked[i]]) <= Score(factors[ranked[j]])
\* Providers of equal score keep the order of the query; here any fixed order.
Ranked(factors) ==
  CHOOSE ranked \in SetToSeqs(DOMAIN factors) :
    \A i, j \in DOMAIN ranked : i < j => Score(factors[ranked[i]]) >= Score(factors[ranked[j]])

\* calculateConfidence in percent.
Confidence(scores) ==
  IF Len(scores) < 2 THEN 95
  ELSE AtMost(AtLeast(60 + (2 * (scores[1] - scores[2])) \div 100, 60), 99)

\* buildOptimalDecision, getEmergencyFallback and the override as the caller reads them.
UpTo(s, n) == SubSeq(s, 1, AtMost(Len(s), n))
Decision(ranked) ==
  [selected |-> ranked[1], fallback |-> UpTo(ranked, 3), alternatives |-> Tail(UpTo(ranked, 4))]
EmergencyDecision(byPriority) ==
  [selected |-> byPriority[1], fallback |-> UpTo(byPriority, 3), alternatives |-> Tail(UpTo(byPriority, 3))]
\* The override has no tspProvider: the names are undefined.
OverrideDecision   == [selected |-> "undefined", fallback |-> <<"undefined">>, alternatives |-> << >>]
LastResortDecision == [selected |-> "kingdom_bank", fallback |-> <<"kingdom_bank">>, alternatives |-> << >>]

\* processPayment's tspCandidates: names only, each once, in order of first occurrence.
NamesOf(d) ==
  LET named == <<d.selected>> \o d.fallback \o d.alternatives IN Among(named, ToSet(named) \ {"undefined"})
FirstsOf(names) == {i \in DOMAIN names : \A j \in 1 .. i - 1 : names[j] # names[i]}
\* Variant: duplicates stay.
CandidatesRepeated(d) == NamesOf(d)
Candidates(d) ==
  LET firsts == Among([i \in DOMAIN NamesOf(d) |-> i], FirstsOf(NamesOf(d)))
  IN [n \in DOMAIN firsts |-> NamesOf(d)[firsts[n]]]
=============================================================================
