------------------------------ MODULE Monitoring ------------------------------
(***************************************************************************)
(* performance-monitoring.service.ts: every 30 seconds a run measures the  *)
(* active providers one after the other and keeps one metric row for each; *)
(* a slow run overlaps the next.  Readers are answered from the rows of    *)
(* the last five minutes.                                                  *)
(*                                                                         *)
(* The rate counts payments whose status is "completed", a word the column *)
(* does not know, and so is 0 as things stand; the model lets it vary.     *)
(* An answer repeated from the cache is one given before.                  *)
(***************************************************************************)
EXTENDS Integers, Sequences, FiniteSets, SequencesExt, Selections

CONSTANTS Sweeps,        \* the runs that may be under way at once
          ConfigRows,    \* the provider of each configuration row, in the order they are listed
          HealthRates    \* the success rates measured, in percent

ASSUME SweepsAssumption == IsFiniteSet(Sweeps)
ASSUME RowsAssumption   == ConfigRows \in Seq(Range(ConfigRows))

VARIABLES active,        \* the configuration rows that are active
          configCache,   \* tspConfigCache: a row for some of the providers
          sweep,         \* sweep[s]: where run s is
          metrics,       \* metrics[p]: the rows of p, the one written last first
          overlapped     \* the providers for which two runs at once found no row

monitorVars == <<active, configCache, sweep, metrics, overlapped>>

MonitoredTsps == Range(ConfigRows) \cup {"kingdom_bank"}
RowsFor(p)    == {n \in active : ConfigRows[n] = p}
Asleep        == [at |-> "asleep"]

MonitoringInit ==
  /\ active = DOMAIN ConfigRows
  /\ configCache = << >>
  /\ sweep = [s \in Sweeps |-> Asleep]
  /\ metrics = [p \in MonitoredTsps |-> << >>]
  /\ overlapped = {}

Toggle(n) ==
  /\ active' = IF n \in active THEN active \ {n} ELSE active \cup {n}
  /\ UNCHANGED <<configCache, sweep, metrics, overlapped>>

----------------------------------------------------------------------------
\* getActiveTSPs: a provider as often as it has active rows, and Kingdom Bank if there are none.  Its
\* cache keeps the row listed last; a failed query leaves the cache as it was.
ListedNow == LET rows == Among([n \in DOMAIN ConfigRows |-> n], active)
             IN IF rows = << >> THEN <<"kingdom_bank">> ELSE [i \in DOMAIN rows |-> ConfigRows[rows[i]]]
CacheOfListed ==
  [p \in {ConfigRows[n] : n \in active} |-> CHOOSE n \in RowsFor(p) : \A m \in RowsFor(p) : m <= n]
SweepBegin(s) ==
  /\ sweep[s] = Asleep
  /\ \/ /\ configCache' = CacheOfListed
        /\ sweep' = [sweep EXCEPT ![s] = [at |-> "measure", todo |-> ListedNow]]
     \/ /\ sweep' = [sweep EXCEPT ![s] = [at |-> "measure", todo |-> <<"kingdom_bank">>]]
        /\ UNCHANGED configCache
  /\ UNCHANGED <<active, metrics, overlapped>>

\* calculateTSPHealth, up to the rate that is stored.
Measure(s) ==
  /\ sweep[s].at = "measure"
  /\ \E rate \in HealthRates :
       sweep' = [sweep EXCEPT ![s] = [at |-> "find", todo |-> sweep[s].todo, rate |-> rate]]
  /\ UNCHANGED <<active, configCache, metrics, overlapped>>

\* The row updateTSPMetrics finds to write to.  Variant: only a row of the last five minutes.
Recent(rows)   == Among(rows, {row \in Range(rows) : row.recent})
FoundRecent(p) == IF Recent(metrics[p]) = << >> THEN 0 ELSE Recent(metrics[p])[1].id
Found(p) == IF metrics[p] = << >> THEN 0 ELSE metrics[p][1].id
Find(s) ==
  /\ sweep[s].at = "find"
  /\ LET p == Head(sweep[s].todo)
         Racing(t) == sweep[t].at = "write" /\ Head(sweep[t].todo) = p /\ sweep[t].found = 0
     IN /\ sweep' = [sweep EXCEPT ![s] =
             [at |-> "write", todo |-> sweep[s].todo, rate |-> sweep[s].rate, found |-> Found(p)]]
        /\ overlapped' = IF Found(p) = 0 /\ \E t \in Sweeps : Racing(t) THEN overlapped \cup {p} ELSE overlapped
  /\ UNCHANGED <<active, configCache, metrics>>

\* getCachedTspConfig: the cached row, else the active one listed first, which is cached.
ConfigOf(p) ==
  IF p \in DOMAIN configCache THEN configCache[p]
  ELSE IF RowsFor(p) = {} THEN 0 ELSE CHOOSE n \in RowsFor(p) : \A m \in RowsFor(p) : n <= m
\* The row that was found is updated, or one is inserted; without a configuration neither.
Upsert(p, found, rate) ==
  LET row(id) == [id |-> id, rate |-> rate, config |-> ConfigOf(p), recent |-> TRUE]
  IN IF found = 0 THEN <<row(Len(metrics[p]) + 1)>> \o metrics[p]
     ELSE <<row(found)>> \o Among(metrics[p], {r \in Range(metrics[p]) : r.id # found})
NextProvider(s) == LET rest == Tail(sweep[s].todo)
            IN sweep' = [sweep EXCEPT ![s] = IF rest = << >> THEN Asleep ELSE [at |-> "measure", todo |-> rest]]
Write(s) ==
  /\ sweep[s].at = "write"
  /\ LET p == Head(sweep[s].todo) IN
       IF ConfigOf(p) = 0 THEN UNCHANGED <<configCache, metrics>>
       ELSE /\ metrics' = [metrics EXCEPT ![p] = Upsert(p, sweep[s].found, sweep[s].rate)]
            /\ configCache' = [q \in DOMAIN configCache \cup {p} |-> IF q = p THEN ConfigOf(p) ELSE configCache[q]]
  /\ NextProvider(s)
  /\ UNCHANGED <<active, overlapped>>

\* Whatever throws ends the whole run.
SweepFails(s) ==
  /\ sweep[s] # Asleep
  /\ sweep' = [sweep EXCEPT ![s] = Asleep]
  /\ UNCHANGED <<active, configCache, metrics, overlapped>>

\* Five minutes pass for the row of p that was written longest ago.
Age(p) ==
  /\ \E i \in DOMAIN metrics[p] :
       /\ metrics[p][i].recent /\ \A j \in DOMAIN metrics[p] : j > i => ~metrics[p][j].recent
       /\ metrics' = [metrics EXCEPT ![p][i].recent = FALSE]
  /\ UNCHANGED <<active, configCache, sweep, overlapped>>

----------------------------------------------------------------------------
\* The trend is the one between the two rows written last.  Variant: a missing row counts as 0.
TrendFromZero(rows) ==
  LET previous == IF Len(rows) > 1 THEN rows[2].rate ELSE 0
  IN IF rows[1].rate > previous THEN "up" ELSE IF rows[1].rate < previous THEN "down" ELSE "stable"
TrendOf(rows) ==
  CASE Len(rows) > 1 /\ rows[1].rate > rows[2].rate -> "up"
    [] Len(rows) > 1 /\ rows[1].rate < rows[2].rate -> "down"
    [] OTHER -> "stable"
RateSum(rows) == FoldSeq(LAMBDA row, sum : row.rate + sum, 0, rows)

\* What calculateRealTimePerformance may answer: from the recent rows, else from the payments.  Only the
\* real-time window is ever written; asked for an hour or more it always counts payments.
RealTime(rows)   == [rate |-> RateSum(rows) \div Len(rows), trend |-> TrendOf(rows)]
FromPayments     == {[rate |-> rate, trend |-> "stable"] : rate \in HealthRates \cup {0}}
Performance(p, realtime) ==
  LET rows == Recent(metrics[p])
  IN IF realtime /\ rows # << >> THEN {RealTime(rows)} ELSE FromPayments

MonitoringNext ==
  \/ \E n \in DOMAIN ConfigRows : Toggle(n)
  \/ \E s \in Sweeps : SweepBegin(s) \/ Measure(s) \/ Find(s) \/ Write(s) \/ SweepFails(s)
  \/ \E p \in MonitoredTsps : Age(p)

MonitoringSpec == MonitoringInit /\ [][MonitoringNext]_monitorVars
----------------------------------------------------------------------------
\* A provider has one metric row, unless two overlapping runs both looked before either had written: then
\* one for each of them at most (updateTSPMetrics looks for a row and inserts without a constraint).
OneMetricUnlessOverlapped ==
  \A p \in MonitoredTsps : Len(metrics[p]) <= IF p \in overlapped THEN Cardinality(Sweeps) ELSE 1

\* A trend can only be told of a provider whose runs once overlapped: with one row kept for each, there
\* is nothing to compare it with, and every other answer says stable.
TrendOnlyIfOverlapped ==
  \A p \in MonitoredTsps, realtime \in BOOLEAN : \A told \in Performance(p, realtime) :
    told.trend # "stable" => p \in overlapped

\* Rows of metrics multiply, and trends appear, only through runs that overlapped in the read and the insert
\* of updateTSPMetrics.
MetricsAreSingle == OneMetricUnlessOverlapped /\ TrendOnlyIfOverlapped
=============================================================================
