----------------------------- MODULE StatusPages -----------------------------
(***************************************************************************)
(* What the page a customer pays on sees of one payment intent: the stream *)
(* of PaymentStatusSSEController, which asks the database every two        *)
(* seconds, and the room of PaymentStatusGateway, into which the provider  *)
(* webhooks' handlers push.  The intent's row is the sequence of statuses  *)
(* it has had; a page knows versions of it.                                *)
(***************************************************************************)
EXTENDS Integers, Sequences, SequencesExt

CONSTANTS Pages, Handlers,
          PageReports,    \* the reports of providers, as ProviderReports has them
          PageWrites,     \* the statuses written by confirmations, cancellations and expiry
          MaxWrites       \* bound: on the statuses of the row

VARIABLES row,      \* the statuses the intent has had, oldest first
          handler,  \* handler[h]: the report it handles and how far it is
          page,     \* page[p]: its place in the room, its stream, what it has seen
          pushed    \* the latest version a handler has pushed to the room

pageVars == <<row, handler, page, pushed>>

Words == INSTANCE ProviderReports

Idle    == [at |-> "idle", report |-> "none", wrote |-> 0]
\* queries: what the stream's queries have read, 0 for one still to read; told and heard: the latest
\* versions it had from the stream and from the room; synced: told by a query begun since it joined.
NewPage == [joined |-> FALSE, stream |-> "closed", queries |-> << >>,
            told |-> 0, heard |-> 0, synced |-> FALSE]
PagesInit ==
  /\ row = <<"requires_payment_method">>
  /\ handler = [h \in Handlers |-> Idle]
  /\ page = [p \in Pages |-> NewPage]
  /\ pushed = 0

Latest(a, b) == IF a > b THEN a ELSE b
Writes(status) == Len(row) < MaxWrites /\ row' = Append(row, status)

----------------------------------------------------------------------------
\* updateTransactionStatus has written the intent once by the time it returns.
SettleRow(h) ==
  /\ handler[h].at = "idle"
  /\ \E report \in PageReports :
       /\ Writes(Words!IntentStatusFor(Words!CodeOf(report)))
       /\ handler' = [handler EXCEPT ![h] = [at |-> "own", report |-> report, wrote |-> 0]]
  /\ UNCHANGED <<page, pushed>>

\* The handler then writes the intent itself, unless the report is not final: then what it pushes is its own
\* word for the report, and no version of the intent,
OwnWrite(h) ==
  /\ handler[h].at = "own"
  /\ LET status == Words!OwnIntentWrite(handler[h].report)
     IN /\ IF status = "unchanged" THEN UNCHANGED row ELSE Writes(status)
        /\ handler' = [handler EXCEPT ![h].at = "push",
                                      ![h].wrote = IF status = "unchanged" THEN 0 ELSE Len(row')]
  /\ UNCHANGED <<page, pushed>>

Tell(version) ==
  /\ page' = [p \in Pages |-> IF page[p].joined THEN [page[p] EXCEPT !.heard = Latest(@, version)]
                              ELSE page[p]]
  /\ pushed' = Latest(pushed, version)
\* and emits payment-success, -failed or -update to whoever is in the room.
Push(h) ==
  /\ handler[h].at = "push"
  /\ Tell(handler[h].wrote)
  /\ handler' = [handler EXCEPT ![h] = Idle]
  /\ UNCHANGED row

\* An error of the database, or the end of the process, ends the handling; rooms are left, streams broken.
HandlerDies(h) ==
  /\ handler[h].at # "idle"
  /\ handler' = [handler EXCEPT ![h] = Idle]
  /\ UNCHANGED <<row, page, pushed>>
ProcessDies ==
  /\ handler' = [h \in Handlers |-> Idle]
  /\ page' = [p \in Pages |-> [page[p] EXCEPT !.joined = FALSE, !.synced = FALSE, !.queries = << >>,
                                              !.stream = IF @ = "open" THEN "closed" ELSE @]]
  /\ UNCHANGED <<row, pushed>>

\* The other operations on the intent tell nobody.
OtherWrite ==
  /\ \E status \in PageWrites : Writes(status)
  /\ UNCHANGED <<handler, page, pushed>>

----------------------------------------------------------------------------
\* subscribe-payment; what happened before is not told.
Subscribe(p) ==
  /\ ~page[p].joined
  /\ page' = [page EXCEPT ![p].joined = TRUE, ![p].synced = FALSE,
                          ![p].queries = [i \in DOMAIN @ |-> [@[i] EXCEPT !.sinceJoined = FALSE]]]
  /\ UNCHANGED <<row, handler, pushed>>
\* unsubscribe-payment, or the connection is lost.
Leave(p) ==
  /\ page[p].joined
  /\ page' = [page EXCEPT ![p].joined = FALSE, ![p].synced = FALSE]
  /\ UNCHANGED <<row, handler, pushed>>

----------------------------------------------------------------------------
\* streamPaymentStatus: the page opens its stream, or opens it again after it broke.
Open(p) ==
  /\ page[p].stream = "closed"
  /\ page' = [page EXCEPT ![p].stream = "open", ![p].queries = << >>]
  /\ UNCHANGED <<row, handler, pushed>>

\* Every two seconds a query; switchMap forgets the one before, should it still be on its way.
\* Variant: mergeMap, which keeps it.
TickMerges(p) ==
  /\ page[p].stream = "open" /\ Len(page[p].queries) < 2
  /\ page' = [page EXCEPT ![p].queries = Append(@, [read |-> 0, sinceJoined |-> page[p].joined])]
  /\ UNCHANGED <<row, handler, pushed>>
Tick(p) ==
  /\ page[p].stream = "open"
  /\ page' = [page EXCEPT ![p].queries = <<[read |-> 0, sinceJoined |-> page[p].joined]>>]
  /\ UNCHANGED <<row, handler, pushed>>

\* findOne of the intent; the transaction is read after it, and then the answer goes out.
\* Variant: from a copy that may lag by one write.
ReadIntentCopied(p) ==
  /\ \E i \in DOMAIN page[p].queries, version \in {Latest(1, Len(row) - 1), Len(row)} :
       /\ page[p].queries[i].read = 0
       /\ page' = [page EXCEPT ![p].queries[i].read = version]
  /\ UNCHANGED <<row, handler, pushed>>
ReadIntent(p) ==
  /\ \E i \in DOMAIN page[p].queries :
       /\ page[p].queries[i].read = 0
       /\ page' = [page EXCEPT ![p].queries[i].read = Len(row)]
  /\ UNCHANGED <<row, handler, pushed>>

\* takeWhile, inclusive.  Of the two spellings the list has the one the intent does not use.
Terminal == {"completed", "succeeded", "failed", "cancelled", "expired", "not_found"}
Answer(p) ==
  /\ \E i \in DOMAIN page[p].queries :
       LET query == page[p].queries[i]
           ends  == row[query.read] \in Terminal
       IN /\ query.read # 0
          /\ page' = [page EXCEPT ![p].told = query.read,
                                  ![p].synced = @ \/ (page[p].joined /\ query.sinceJoined),
                                  ![p].stream = IF ends THEN "ended" ELSE @,
                                  ![p].queries = IF ends THEN << >> ELSE RemoveAt(@, i)]
  /\ UNCHANGED <<row, handler, pushed>>
\* An error of the query breaks the stream.
QueryFails(p) ==
  /\ page[p].queries # << >>
  /\ page' = [page EXCEPT ![p].stream = "closed", ![p].queries = << >>]
  /\ UNCHANGED <<row, handler, pushed>>

PagesNext ==
  \/ \E h \in Handlers : SettleRow(h) \/ OwnWrite(h) \/ Push(h) \/ HandlerDies(h)
  \/ ProcessDies \/ OtherWrite
  \/ \E p \in Pages : \/ Subscribe(p) \/ Leave(p)
                      \/ Open(p) \/ Tick(p) \/ ReadIntent(p) \/ Answer(p) \/ QueryFails(p)

PagesSpec == PagesInit /\ [][PagesNext]_pageVars

----------------------------------------------------------------------------
\* A page's stream never goes back to an older version of the intent, however slow a query is.
StreamInOrder == [][\A p \in Pages : page'[p].told >= page[p].told]_pageVars

\* A page that joined the room and has since had the answer to a query it made afterwards knows of every
\* version that has been pushed: it was in the room when it was pushed, or the query found it written.
JoinedMissesNothing ==
  \A p \in Pages : page[p].synced => Latest(page[p].told, page[p].heard) >= pushed

\* A page that stays follows the intent: pushes and queries leave no version out, and the stream never runs
\* backwards (the gateway's rooms and the polling stream).
PagesFollow == []JoinedMissesNothing /\ StreamInOrder
=============================================================================
