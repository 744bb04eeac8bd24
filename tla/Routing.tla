------------------------------- MODULE Routing -------------------------------
(***************************************************************************)
(* getRoutingDecision of smart-routing.service.ts under concurrent         *)
(* requests, a changing configuration and a failing database.  The scores  *)
(* are partly random, so any order of the available providers may come out *)
(* of the ranking.                                                         *)
(***************************************************************************)
EXTENDS RoutingScores, FiniteSets

CONSTANTS RoutedTsps,    \* providers with a configuration
          RouteKeys,     \* what the decision cache tells apart
          RouteRequests,
          DecisionTtl

ASSUME RoutingAssumption == DecisionTtl \in Nat \ {0}
ASSUME RoutedTspsAssumption == IsFiniteSet(RoutedTsps) /\ "undefined" \notin RoutedTsps

VARIABLES listed,      \* the providers whose configuration is active
          goneFor,     \* goneFor[p]: units of time p has not been listed
          overridden,  \* an active override of the merchant
          kept,        \* routingDecisionCache: decision and age
          asked,       \* asked[r]: where request r stands
          routed       \* the latest answer: its candidates, and how long each has been gone

routeVars == <<listed, goneFor, overridden, kept, asked, routed>>

NoDecision == [decision |-> LastResortDecision, age |-> DecisionTtl]
NotAsked   == [at |-> "idle"]
Gone(d) ==
  LET names == ToSet(Candidates(d)) \cap RoutedTsps
  IN [candidates |-> Candidates(d), gone |-> {goneFor[p] : p \in names}]

RoutingInit ==
  /\ listed = RoutedTsps
  /\ goneFor = [p \in RoutedTsps |-> 0]
  /\ overridden = FALSE
  /\ kept = [k \in RouteKeys |-> NoDecision]
  /\ asked = [r \in RouteRequests |-> NotAsked]
  /\ routed = [candidates |-> << >>, gone |-> {}]

Decided(r, d) ==
  /\ routed' = Gone(d)
  /\ asked' = [asked EXCEPT ![r] = NotAsked]

\* Variant: a hit starts the life of the decision again.
RouteCachedSliding(r, k) ==
  /\ asked[r] = NotAsked
  /\ kept[k].age < DecisionTtl
  /\ Decided(r, kept[k].decision)
  /\ kept' = [kept EXCEPT ![k].age = 0]
  /\ UNCHANGED <<listed, goneFor, overridden>>

RouteCached(r, k) ==
  /\ asked[r] = NotAsked
  /\ kept[k].age < DecisionTtl
  /\ Decided(r, kept[k].decision)
  /\ UNCHANGED <<listed, goneFor, overridden, kept>>

\* checkAdminOverrides and getAvailableTSPs; nothing available, and a failed query, lead to
\* the emergency fallback.
RouteRead(r, k) ==
  /\ asked[r] = NotAsked
  /\ kept[k].age = DecisionTtl
  /\ \/ /\ overridden
        /\ Decided(r, OverrideDecision)
        /\ kept' = [kept EXCEPT ![k] = [decision |-> OverrideDecision, age |-> 0]]
     \/ /\ ~overridden /\ listed # {}
        /\ asked' = [asked EXCEPT ![r] = [at |-> "score", key |-> k, among |-> listed]]
        /\ UNCHANGED <<routed, kept>>
     \/ /\ asked' = [asked EXCEPT ![r] = [at |-> "emergency"]]
        /\ UNCHANGED <<routed, kept>>
  /\ UNCHANGED <<listed, goneFor, overridden>>

\* The factors are computed, meanwhile configurations change; the decision is kept under
\* its key as fresh, though it is of the providers read before.
RouteDecide(r) ==
  /\ asked[r].at = "score"
  /\ \E ranked \in SetToSeqs(asked[r].among) :
       /\ Decided(r, Decision(ranked))
       /\ kept' = [kept EXCEPT ![asked[r].key] = [decision |-> Decision(ranked), age |-> 0]]
  /\ UNCHANGED <<listed, goneFor, overridden>>

\* A query of the factors fails.
RouteFail(r) ==
  /\ asked[r].at = "score"
  /\ asked' = [asked EXCEPT ![r] = [at |-> "emergency"]]
  /\ UNCHANGED <<listed, goneFor, overridden, kept, routed>>

\* getEmergencyFallback, which is not cached; priorities may be in any order.
RouteEmergency(r) ==
  /\ asked[r].at = "emergency"
  /\ \/ \E byPriority \in SetToSeqs(listed) : listed # {} /\ Decided(r, EmergencyDecision(byPriority))
     \/ Decided(r, LastResortDecision)
  /\ UNCHANGED <<listed, goneFor, overridden, kept>>

\* The configurations and the override are changed elsewhere.
Relist(p) ==
  /\ listed' = IF p \in listed THEN listed \ {p} ELSE listed \cup {p}
  /\ goneFor' = [goneFor EXCEPT ![p] = 0]
  /\ UNCHANGED <<overridden, kept, asked, routed>>
Override == overridden' = ~overridden /\ UNCHANGED <<listed, goneFor, kept, asked, routed>>

\* Time passes; a request takes less than a unit.
RouteTick ==
  /\ \A r \in RouteRequests : asked[r] = NotAsked
  /\ kept' = [k \in RouteKeys |-> [kept[k] EXCEPT !.age = AtMost(@ + 1, DecisionTtl)]]
  /\ goneFor' = [p \in RoutedTsps |-> IF p \in listed THEN 0 ELSE AtMost(goneFor[p] + 1, DecisionTtl + 1)]
  /\ UNCHANGED <<listed, overridden, asked, routed>>

RoutingNext ==
  \/ Override \/ RouteTick
  \/ \E p \in RoutedTsps : Relist(p)
  \/ \E r \in RouteRequests :
       \/ RouteDecide(r) \/ RouteFail(r) \/ RouteEmergency(r)
       \/ \E k \in RouteKeys : RouteCached(r, k) \/ RouteRead(r, k)

RoutingSpec == RoutingInit /\ [][RoutingNext]_routeVars

----------------------------------------------------------------------------
\* A provider that has been switched off is routed to for one life of a cached decision at
\* most, whichever requests were computing one when it was; only the last resort, Kingdom
\* Bank, is named whether it is active or not.
RoutedNotLongGone ==
  routed.candidates # <<"kingdom_bank">> => \A n \in routed.gone : n < DecisionTtl

\* Of two active providers that differ in their fees only the cheaper one comes first, as long as
\* the fees stay between 1 % and 4 %: above, the score of 0 counts as 50, below, 0 % as 2 %.
FeeAlone(amount, percent) == [x \in Factors |-> IF x = "cost" THEN CostScore(amount, percent, 0) ELSE 80]
FirstOfTwo(p, q, cheap, dear, amount) ==
  LET ranked == Ranked([t \in {p, q} |-> FeeAlone(amount, IF t = p THEN cheap ELSE dear)])
  IN Head(Candidates(Decision(ranked)))
CheaperFirst ==
  \A p, q \in listed, cheap, dear \in 1 .. 4, amount \in {500, 2000} :
    p # q /\ cheap < dear => FirstOfTwo(p, q, cheap, dear, amount) = p

\* The processor is handed no provider twice, or it would open a payment there twice, and
\* at most four of them, led by the choice of the ranking.
CandidatesOnce ==
  LET c == routed.candidates IN Len(c) <= 4 /\ Cardinality(ToSet(c)) = Len(c)

\* A route is good when it is used, not only when it was computed: its providers were active within one life
\* of the decision, the cheaper leads, and none is named twice (routePayment, from cache or fresh).
RoutesAreSound == RoutedNotLongGone /\ CheaperFirst /\ CandidatesOnce
=============================================================================
