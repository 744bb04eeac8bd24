----------------------------- MODULE Dashboards -----------------------------
(***************************************************************************)
(* What dashboards read of payments, payouts and refunds while the tables  *)
(* change: listings fetched page by page, and summaries put together from  *)
(* several queries.  Rows carry the time they were created, and rows that  *)
(* are saved together carry the same one; amounts, which are summed where  *)
(* rows are counted, are left out, and "done" stands for completed and     *)
(* success.                                                                *)
(***************************************************************************)
EXTENDS Integers, Sequences, FiniteSets, SequencesExt, Selections

CONSTANTS Merchants, MaxRows, Limit,   \* the rows of a page
          ParsedId   \* whom parseInt makes of a merchant's id, which is a string: "12a" becomes 12
ASSUME PagesAssumption == MaxRows \in Nat /\ Limit \in Nat \ {0}

VARIABLES table,    \* the rows in the order they were created: [merchant, status, at]
          reading   \* the listing or summary being read

dashboardVars == <<table, reading>>

AnyStatus   == "any"
RowStatuses == {"processing", "done", "failed"}
Filters     == [merchant : Merchants, status : RowStatuses \cup {AnyStatus}]

\* applyFilters and the conditions of the other listings: every filter that is given, joined by AND.
Matches(n, filter) ==
  /\ table[n].merchant = filter.merchant
  /\ filter.status \in {AnyStatus, table[n].status}
Matching(filter) == {n \in DOMAIN table : Matches(n, filter)}
\* applySorting by the time of creation, descending unless asked otherwise.
ByTime(ascending) == [i \in DOMAIN table |-> IF ascending THEN i ELSE Len(table) + 1 - i]
Sorted(filter, ascending) == Among(ByTime(ascending), Matching(filter))
\* What the database may answer: nothing but the time orders the rows, so those of one instant come in any order.
Orders(filter, ascending) ==
  LET sorted == Sorted(filter, ascending)
  IN {rows \in Bijection(DOMAIN sorted, Matching(filter)) :
        \A i \in DOMAIN sorted : table[rows[i]].at = table[sorted[i]].at}

\* Variant: pages are counted from 0.
SkippedFromZero(page) == page * Limit
Skipped(page)     == (page - 1) * Limit
Page(rows, page)  ==
  LET end == Skipped(page) + Limit
  IN SubSeq(rows, Skipped(page) + 1, IF end < Len(rows) THEN end ELSE Len(rows))
TotalPages(total) == (total + Limit - 1) \div Limit

----------------------------------------------------------------------------
Between(merchant, from, to) == {n \in DOMAIN table : table[n].merchant = merchant /\ table[n].at \in from .. to}
OfStatus(rows, statuses)    == {n \in rows : table[n].status \in statuses}
\* getTransactionSuccessRate and the rates of the summaries, in whole percent.
Rate(part, whole) == IF whole = 0 THEN 0 ELSE (100 * part) \div whole

\* calculateComparisonMetrics: as long a period, up to just before the first day.
\* Variant: the period ends where the current one begins, as in getComparisonMetrics.
PreviousPeriodShared(r) == [from |-> r.from - (r.to - r.from), to |-> r.from]
PreviousPeriod(r) == [from |-> r.from - 1 - (r.to - r.from), to |-> r.from - 1]

\* The payouts that were processed.  Variant: asked with a second where(), as in the comparison below.
ProcessedEverywhere(base) == OfStatus(DOMAIN table, {"done", "failed"})
Processed(base)           == OfStatus(base, {"done", "failed"})

\* The queries of getPayoutTransactionSummary, in their order.  In its comparison a second where() takes
\* the place of the period and the merchant: previousApproved counts every payout there is.
PayoutQueries == <<"total", "approved", "pending", "processed", "previous", "previousApproved">>
PayoutFigure(r, query) ==
  LET base == Between(r.merchant, r.from, r.to)
  IN CASE query = "total"     -> base
       [] query = "approved"  -> OfStatus(base, {"done"})
       [] query = "pending"   -> OfStatus(base, {"processing"})
       [] query = "processed" -> Processed(base)
       [] query = "previous"  -> Between(r.merchant, PreviousPeriod(r).from, PreviousPeriod(r).to)
       [] OTHER               -> OfStatus(DOMAIN table, {"done"})

\* getTransactionSummary: its queries are given the merchant and not the period, and so are those of
\* getComparisonMetrics: the previous period has the figures of the current one.  All but the total ask for the
\* parsed id, and what is called the number of successful transactions is their share of all, in percent.
TransactionQueries == <<"total", "successful", "failed", "pending", "previous">>
EverOf(merchant) == {n \in DOMAIN table : table[n].merchant = merchant}
PreviousEver(r)  == EverOf(r.merchant)
TransactionFigure(r, query) ==
  LET parsed == EverOf(ParsedId[r.merchant])
      Count(statuses) == Cardinality(OfStatus(parsed, statuses))
  IN CASE query = "total"      -> Cardinality(EverOf(r.merchant))
       [] query = "previous"   -> Cardinality(PreviousEver(r))
       [] query = "successful" -> Rate(Count({"done"}), Cardinality(parsed))
       [] query = "failed"     -> Count({"failed"})
       [] OTHER                -> Count({"processing"})

\* getRefundStats: a query for each status, all of them at once (Promise.all).
RefundQueries == {"total"} \cup RowStatuses
RefundFigure(r, query) ==
  LET base == Between(r.merchant, r.from, r.to)
  IN IF query = "total" THEN base ELSE OfStatus(base, {query})

\* getPayoutStats reads the rows once and counts them afterwards.
StatsFigures(m, from, to) ==
  LET Count(statuses) == Cardinality(OfStatus(Between(m, from, to), statuses))
  IN [total |-> Count(RowStatuses), processing |-> Count({"processing"}), done |-> Count({"done"}),
      failed |-> Count({"failed"})]

Queries(kind) ==
  CASE kind = "stats"        -> {}
    [] kind = "payouts"      -> ToSet(PayoutQueries)
    [] kind = "transactions" -> ToSet(TransactionQueries)
    [] OTHER                 -> RefundQueries
Unanswered(r) == Queries(r.kind) \ DOMAIN r.figures
\* One query after the other, but for the refunds.
MayRun(r, query) ==
  LET InTurn(order) == \A i, j \in DOMAIN order : i < j /\ order[j] = query => order[i] \in DOMAIN r.figures
  IN CASE r.kind = "payouts"      -> InTurn(PayoutQueries)
       [] r.kind = "transactions" -> InTurn(TransactionQueries)
       [] OTHER                   -> TRUE
Figure(r, query) ==
  CASE r.kind = "payouts"      -> Cardinality(PayoutFigure(r, query))
    [] r.kind = "transactions" -> TransactionFigure(r, query)
    [] OTHER                   -> Cardinality(RefundFigure(r, query))

\* calculateChange.
Trend(current, previous) ==
  IF current > previous THEN "UP" ELSE IF current < previous THEN "DOWN" ELSE "STABLE"

----------------------------------------------------------------------------
NotReading == [kind |-> "none"]
DashboardsInit == table = << >> /\ reading = NotReading

\* What a change of the table means for who is reading: a listing may lose a row to its filter.
Noticed(moved) ==
  reading' = CASE reading.kind = "none"  -> reading
               [] reading.kind = "pages" -> [reading EXCEPT !.changed = @ \/ (moved /\ reading.filter.status # AnyStatus)]
               [] OTHER                  -> [reading EXCEPT !.changed = TRUE]

\* A row of its own, or one that is saved together with the row before it.
LastAt == IF table = << >> THEN 0 ELSE Last(table).at
InsertRow(m, together) ==
  /\ Len(table) < MaxRows
  /\ together => table # << >>
  /\ table' = Append(table, [merchant |-> m, status |-> "processing", at |-> IF together THEN LastAt ELSE LastAt + 1])
  /\ Noticed(FALSE)
SetStatus(n, status) ==
  /\ table[n].status # status
  /\ table' = [table EXCEPT ![n].status = status]
  /\ Noticed(TRUE)

ListBegin(filter, ascending) ==
  /\ reading = NotReading
  /\ reading' = [kind |-> "pages", filter |-> filter, ascending |-> ascending, page |-> 1, last |-> FALSE,
                 wanted |-> Matching(filter), seen |-> << >>, changed |-> FALSE]
  /\ UNCHANGED table
\* getManyAndCount of one page; the reader asks for the next one as long as there is one.
ListPage ==
  /\ reading.kind = "pages" /\ ~reading.last
  /\ \E rows \in Orders(reading.filter, reading.ascending) :
        reading' = [reading EXCEPT !.seen = @ \o Page(rows, reading.page), !.page = @ + 1,
                                   !.last = reading.page >= TotalPages(Len(rows))]
  /\ UNCHANGED table

\* exportRefundsToCSV: the rows of a listing at once.
Export(filter) ==
  /\ reading = NotReading
  /\ \E rows \in Orders(filter, FALSE) :
       reading' = [kind |-> "pages", filter |-> filter, ascending |-> FALSE, page |-> 1, last |-> TRUE,
                   wanted |-> Matching(filter), seen |-> rows, changed |-> FALSE]
  /\ UNCHANGED table

Summaries == {"payouts", "transactions", "refunds", "stats"}
SummaryBegin(kind, m, from, to) ==
  /\ reading = NotReading
  /\ from <= to
  /\ reading' = [kind |-> kind, merchant |-> m, from |-> from, to |-> to, changed |-> FALSE,
                 figures |-> IF kind = "stats" THEN StatsFigures(m, from, to) ELSE << >>]
  /\ UNCHANGED table
SummaryQuery ==
  /\ reading.kind \in Summaries
  /\ \E query \in Unanswered(reading) :
       /\ MayRun(reading, query)
       /\ reading' = [reading EXCEPT !.figures =
            [q \in DOMAIN @ \cup {query} |-> IF q = query THEN Figure(reading, query) ELSE @[q]]]
  /\ UNCHANGED table

Summarised == reading.kind \in Summaries /\ Unanswered(reading) = {}
Listed     == reading.kind = "pages" /\ reading.last
ReadingEnds ==
  /\ Summarised \/ Listed
  /\ reading' = NotReading
  /\ UNCHANGED table

DashboardsNext ==
  \/ \E m \in Merchants, together \in BOOLEAN : InsertRow(m, together)
  \/ \E n \in DOMAIN table, status \in RowStatuses : SetStatus(n, status)
  \/ \E filter \in Filters, ascending \in BOOLEAN : ListBegin(filter, ascending)
  \/ ListPage \/ SummaryQuery \/ ReadingEnds
  \/ \E filter \in Filters : Export(filter)
  \/ \E kind \in Summaries, m \in Merchants, from, to \in 1 .. MaxRows :
       SummaryBegin(kind, m, from, to)

DashboardsSpec == DashboardsInit /\ [][DashboardsNext]_dashboardVars
----------------------------------------------------------------------------
Tied(filter) == \E i, j \in Matching(filter) : i # j /\ table[i].at = table[j].at

\* Whoever reads a listing to its last page has seen every row that was there at the start, whatever was
\* inserted meanwhile, unless two of its rows were created in one instant, as the payouts of a batch are, or it
\* is filtered by status and a status changed (a row that leaves the filter moves the others up a page); and an
\* ascending listing without such rows and without a filter for the status shows none twice.  What is exported,
\* on the one page it has, is complete in any case.
NothingMissed ==
  Listed =>
    /\ reading.page = 1 \/ ~(reading.changed \/ Tied(reading.filter)) => reading.wanted \subseteq ToSet(reading.seen)
    /\ reading.ascending /\ reading.filter.status = AnyStatus /\ ~Tied(reading.filter) => IsInjective(reading.seen)

\* The figures of a summary agree with each other when no row changed between its queries: the counts of
\* the statuses do not exceed the total, a refund is counted under one status, and no rate exceeds 100.  Those of
\* the transactions describe one merchant only if its id is the number parseInt reads: then their rate is not
\* above the share of the rows that neither failed nor are pending.
\* Statistics counted from rows that were read once agree whatever changes.
SummaryAddsUp ==
  Summarised /\ (reading.changed => reading.kind = "stats") =>
    LET f == reading.figures
    IN CASE reading.kind = "payouts" ->
              /\ f.processed + f.pending <= f.total
              /\ Rate(f.approved, f.processed) <= 100
         [] reading.kind = "transactions" ->
              /\ f.successful <= 100
              /\ ParsedId[reading.merchant] = reading.merchant =>
                   /\ f.failed + f.pending <= f.total
                   /\ f.successful <= Rate(f.total - f.failed - f.pending, f.total)
         [] OTHER -> f.processing + f.done + f.failed = f.total

\* The trend of a payout summary compares two periods of the same length that meet without sharing a
\* day: the trend is the one of the rows in the second and in the first half of the two together.
TrendOfHalves ==
  Summarised /\ reading.kind = "payouts" /\ ~reading.changed =>
    LET days  == reading.to - reading.from + 1
        Rows(first) == Cardinality({n \in DOMAIN table : table[n].merchant = reading.merchant
                                                          /\ \E d \in 0 .. days - 1 : table[n].at = first + d})
    IN Trend(reading.figures.total, reading.figures.previous) = Trend(Rows(reading.from), Rows(reading.from - days))

\* What a dashboard shows after several queries is what the tables held, as far as no row changed status in
\* between and no two rows share their instant: rows on pages, counts that add up, periods that meet.
FiguresHold == NothingMissed /\ SummaryAddsUp /\ TrendOfHalves
=============================================================================
