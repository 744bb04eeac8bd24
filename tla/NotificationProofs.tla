-------------------------- MODULE NotificationProofs --------------------------
(***************************************************************************)
(* Theorems about those who are told of a payment: the pages that show one *)
(* intent, and the board, the topic and the merchant an outcome is         *)
(* announced to.                                                           *)
(***************************************************************************)
EXTENDS StatusPages, Announcements, DataTheorems, SequenceTheorems

(***************************************************************************)
(* What the pages of one intent see, for any number of pages and handlers, *)
(* any reports and any length of the intent's history.                     *)
(*                                                                         *)
(* The stream stays in order because switchMap leaves a page at most one   *)
(* query (AtMostOneQuery), and that query has read nothing yet or read     *)
(* what is no older than what the page was told before.  A page that is    *)
(* synced is in the room, so every push since reaches it; what was pushed  *)
(* before was written by then (PushedIsWritten), and the query that synced *)
(* it found it.                                                            *)
(***************************************************************************)
Query   == [read : Nat, sinceJoined : BOOLEAN]
Queries == {<< >>} \cup {<<q>> : q \in Query}
PageRow == [joined : BOOLEAN, stream : {"closed", "open", "ended"}, queries : Queries,
            told : Nat, heard : Nat, synced : BOOLEAN]

\* What one page knows of an intent with so many versions, the latest of which was pushed as told.
PageIsSound(g, versions, latest) ==
  /\ g \in PageRow
  /\ g.told <= versions
  /\ g.synced => g.joined /\ (g.told >= latest \/ g.heard >= latest)
  /\ g.queries # << >> =>
       LET q == g.queries[1]
       IN /\ q.read <= versions
          /\ q.read # 0 => /\ q.read >= g.told
                           /\ g.joined /\ q.sinceJoined => q.read >= latest \/ g.heard >= latest

PagesOK == page = [p \in Pages |-> page[p]] /\ \A p \in Pages : PageIsSound(page[p], Len(row), pushed)

\* Handlers push what they have written.
HandlersOK ==
  /\ handler = [h \in Handlers |-> handler[h]]
  /\ \A h \in Handlers : handler[h] \in [at : {"idle", "own", "push"}, report : {handler[h].report}, wrote : Nat]
  /\ \A h \in Handlers : handler[h].wrote <= Len(row)

RowOK == \E Statuses : row \in Seq(Statuses)
PushedIsWritten == pushed \in Nat /\ pushed <= Len(row)

PagesInv == RowOK /\ HandlersOK /\ PushedIsWritten /\ PagesOK

----------------------------------------------------------------------------
LEMMA RowLength == RowOK => Len(row) \in Nat
BY LenProperties DEF RowOK

\* The row grows by one version at a time.
LEMMA RowGrows ==
  ASSUME RowOK, NEW status, Writes(status)
  PROVE  RowOK' /\ Len(row') = Len(row) + 1 /\ Len(row) \in Nat
<1>1. PICK S : row \in Seq(S)
  BY DEF RowOK
<1>2. row \in Seq(S \cup {status}) /\ status \in S \cup {status}
  BY <1>1, SeqMonotonic
<1> DEFINE T == S \cup {status}
<1> HIDE DEF T
<1>3. row \in Seq(T) /\ status \in T
  BY <1>2 DEF T
<1>4. Append(row, status) \in Seq(T) /\ Len(Append(row, status)) = Len(row) + 1 /\ Len(row) \in Nat
  BY <1>3, AppendProperties, LenProperties
<1> QED
  BY <1>4 DEF Writes, RowOK

\* Nothing a page knows is disturbed by new versions, as long as they are not pushed.
LEMMA PageKept ==
  ASSUME NEW g, NEW n \in Nat, NEW m \in Nat, NEW latest \in Nat, PageIsSound(g, n, latest), n <= m
  PROVE  PageIsSound(g, m, latest)
<1>1. g \in PageRow /\ (g.queries # << >> => g.queries[1].read \in Nat)
  BY DEF PageIsSound, PageRow, Queries, Query
<1>2. g.told \in Nat
  BY <1>1 DEF PageRow
<1> QED
  BY <1>1, <1>2 DEF PageIsSound

ToldGrows == \A p \in Pages : page'[p].told >= page[p].told

LEMMA PageFacts ==
  ASSUME PagesInv, NEW p \in Pages
  PROVE  /\ page[p] \in PageRow /\ PageIsSound(page[p], Len(row), pushed)
         /\ page[p].told \in Nat /\ page[p].heard \in Nat /\ pushed \in Nat /\ pushed <= Len(row) /\ Len(row) \in Nat
<1>1. PageIsSound(page[p], Len(row), pushed) /\ pushed \in Nat /\ pushed <= Len(row) /\ Len(row) \in Nat
  BY RowLength DEF PagesInv, PagesOK, PushedIsWritten
<1>2. page[p] \in PageRow
  BY <1>1 DEF PageIsSound
<1> QED
  BY <1>1, <1>2, Zenon DEF PageRow

\* A page acts by itself: the others and the intent stay as they are.
LEMMA PageMoves ==
  ASSUME PagesInv, NEW p \in Pages, NEW g, page' = [page EXCEPT ![p] = g], UNCHANGED <<row, handler, pushed>>,
         PageIsSound(g, Len(row), pushed), g.told >= page[p].told
  PROVE  PagesInv' /\ ToldGrows
<1>1. \A q \in Pages : page[q].told \in Nat
  BY PageFacts
<1>2. page' = [q \in Pages |-> page'[q]] /\ page'[p] = g /\ \A q \in Pages \ {p} : page'[q] = page[q]
  BY DEF PagesInv, PagesOK
<1>3. PagesOK'
  BY <1>2 DEF PagesInv, PagesOK
<1>4. ToldGrows
  BY <1>1, <1>2, SMT DEF ToldGrows
<1> QED
  BY <1>3, <1>4 DEF PagesInv, RowOK, HandlersOK, PushedIsWritten

\* A page without a query under way is sound if what it was told and what it heard are.
LEMMA WithoutQuery ==
  ASSUME NEW g, NEW n, NEW latest, g \in PageRow, g.queries = << >>, g.told <= n,
         g.synced => g.joined /\ (g.told >= latest \/ g.heard >= latest)
  PROVE  PageIsSound(g, n, latest)
BY DEF PageIsSound

LEMMA PagesStart == PagesInit => PagesInv
<1> SUFFICES ASSUME PagesInit PROVE PagesInv
  OBVIOUS
<1>1. RowOK /\ Len(row) \in Nat
  <2>1. row \in Seq({"requires_payment_method"})
    BY DEF PagesInit
  <2> QED
    BY <2>1, RowLength DEF RowOK
<1>2. HandlersOK
  <2>1. Idle \in [at : {"idle", "own", "push"}, report : {Idle.report}, wrote : Nat] /\ Idle.wrote = 0
    BY DEF Idle
  <2> HIDE DEF Idle
  <2> QED
    BY <1>1, <2>1, SMT DEF PagesInit, HandlersOK
<1>3. PageIsSound(NewPage, Len(row), 0)
  <2>1. /\ NewPage \in PageRow /\ NewPage.queries = << >> /\ NewPage.told = 0 /\ ~NewPage.synced
    BY DEF NewPage, PageRow, Queries
  <2> QED
    BY <1>1, <2>1, WithoutQuery
<1>4. PagesOK
  BY <1>3 DEF PagesInit, PagesOK
<1> QED
  BY <1>1, <1>2, <1>4 DEF PagesInit, PagesInv, PushedIsWritten

----------------------------------------------------------------------------
(* The handlers' side. *)

\* A write of the row is news to the pages.
LEMMA WriteStep ==
  ASSUME PagesInv, NEW status, Writes(status) \/ UNCHANGED row, HandlersOK', UNCHANGED <<page, pushed>>
  PROVE  PagesInv' /\ ToldGrows
<1>1. RowOK' /\ Len(row) \in Nat /\ Len(row') \in Nat /\ Len(row) <= Len(row')
  <2>1. CASE Writes(status)
    BY <2>1, RowGrows DEF PagesInv
  <2>2. CASE UNCHANGED row
    BY <2>2, RowLength DEF PagesInv, RowOK
  <2> QED
    BY <2>1, <2>2
<1>2. PagesOK'
  BY <1>1, PageKept DEF PagesInv, PagesOK, PushedIsWritten
<1>3. PushedIsWritten'
  BY <1>1 DEF PagesInv, PushedIsWritten
<1>4. ToldGrows
  BY PageFacts DEF ToldGrows
<1> QED
  BY <1>1, <1>2, <1>3, <1>4 DEF PagesInv

LEMMA SettleRowStep ==
  ASSUME PagesInv, NEW h \in Handlers, SettleRow(h)
  PROVE  PagesInv' /\ ToldGrows
<1>1. PICK report : /\ Writes(Words!IntentStatusFor(Words!CodeOf(report)))
                    /\ handler' = [handler EXCEPT ![h] = [at |-> "own", report |-> report, wrote |-> 0]]
                    /\ UNCHANGED <<page, pushed>>
  BY DEF SettleRow
<1>2. Len(row') = Len(row) + 1 /\ Len(row) \in Nat
  BY <1>1, RowGrows DEF PagesInv
<1> DEFINE r == [at |-> "own", report |-> report, wrote |-> 0]
<1>3. r \in [at : {"idle", "own", "push"}, report : {r.report}, wrote : Nat] /\ r.wrote = 0
  OBVIOUS
<1>4. handler' = [handler EXCEPT ![h] = r]
  BY <1>1
<1> HIDE DEF r
<1>5. HandlersOK'
  BY <1>2, <1>3, <1>4, SMT DEF PagesInv, HandlersOK
<1> QED
  BY <1>1, <1>5, WriteStep

LEMMA OwnWriteStep ==
  ASSUME PagesInv, NEW h \in Handlers, OwnWrite(h)
  PROVE  PagesInv' /\ ToldGrows
<1>1. PICK status : /\ Writes(status) \/ UNCHANGED row
                    /\ UNCHANGED <<page, pushed>>
                    /\ handler' = [handler EXCEPT ![h].at = "push",
                                                  ![h].wrote = IF status = "unchanged" THEN 0 ELSE Len(row')]
  BY DEF OwnWrite
<1>2. Len(row') \in Nat /\ Len(row) <= Len(row') /\ Len(row) \in Nat
  BY <1>1, RowGrows, RowLength DEF PagesInv
<1> DEFINE n == IF status = "unchanged" THEN 0 ELSE Len(row')
<1>6. n \in Nat /\ n <= Len(row')
  BY <1>2
<1>7. handler' = [handler EXCEPT ![h].at = "push", ![h].wrote = n]
  BY <1>1
<1> HIDE DEF n
<1> DEFINE r == [handler[h] EXCEPT !.at = "push", !.wrote = n]
<1>3. r \in [at : {"idle", "own", "push"}, report : {r.report}, wrote : Nat] /\ r.wrote = n
  BY <1>6, Zenon DEF PagesInv, HandlersOK
<1>4. handler' = [handler EXCEPT ![h] = r]
  BY <1>7, Zenon DEF PagesInv, HandlersOK
<1> HIDE DEF r
<1>5. HandlersOK'
  <2>1. \A k \in Handlers : handler[k].wrote \in Nat /\ handler[k].wrote <= Len(row)
    BY Zenon DEF PagesInv, HandlersOK
  <2>2. \A k \in Handlers : handler'[k].wrote <= Len(row')
    BY <1>2, <1>3, <1>4, <1>6, <2>1, SMT DEF PagesInv, HandlersOK
  <2>3. \A k \in Handlers :
          handler'[k] \in [at : {"idle", "own", "push"}, report : {handler'[k].report}, wrote : Nat]
    BY <1>3, <1>4, Zenon DEF PagesInv, HandlersOK
  <2>4. handler' = [k \in Handlers |-> handler'[k]]
    BY <1>4, Zenon DEF PagesInv, HandlersOK
  <2> QED
    BY <2>2, <2>3, <2>4 DEF HandlersOK
<1> QED
  BY <1>1, <1>5, WriteStep

\* Handlers that fall idle leave nothing to push.
LEMMA FallIdle ==
  ASSUME PagesInv, UNCHANGED row, handler' = [h \in Handlers |-> handler'[h]],
         \A h \in Handlers : handler'[h] \in {handler[h], Idle}
  PROVE  HandlersOK'
<1>1. Idle \in [at : {"idle", "own", "push"}, report : {Idle.report}, wrote : Nat] /\ Idle.wrote = 0
  BY DEF Idle
<1>2. Len(row) \in Nat
  BY RowLength DEF PagesInv
<1> HIDE DEF Idle
<1> QED
  BY <1>1, <1>2, SMT DEF PagesInv, HandlersOK

LEMMA PushStep ==
  ASSUME PagesInv, NEW h \in Handlers, Push(h)
  PROVE  PagesInv' /\ ToldGrows
<1> DEFINE v == handler[h].wrote
<1>1. v \in Nat /\ v <= Len(row) /\ Len(row) \in Nat /\ pushed \in Nat /\ pushed <= Len(row)
  BY RowLength, Zenon DEF PagesInv, HandlersOK, PushedIsWritten
<1>2. /\ page' = [p \in Pages |-> IF page[p].joined THEN [page[p] EXCEPT !.heard = Latest(@, v)] ELSE page[p]]
      /\ pushed' = Latest(pushed, v) /\ handler' = [handler EXCEPT ![h] = Idle] /\ UNCHANGED row
  BY DEF Push, Tell
<1> HIDE DEF v
<1>3. PushedIsWritten' /\ pushed' >= pushed /\ pushed' \in {pushed, v} /\ pushed' \in Nat
  BY <1>1, <1>2, SMT DEF PushedIsWritten, Latest
<1>4. ASSUME NEW p \in Pages
      PROVE  PageIsSound(page'[p], Len(row), pushed') /\ page'[p].told = page[p].told
  <2>1. /\ page[p] \in PageRow /\ PageIsSound(page[p], Len(row), pushed)
        /\ page[p].told \in Nat /\ page[p].heard \in Nat
    BY PageFacts
  <2>2. CASE ~page[p].joined
    <3>1. page'[p] = page[p]
      BY <1>2, <2>2
    <3> QED
      BY <2>1, <2>2, <3>1 DEF PageIsSound
  <2>3. CASE page[p].joined
    <3> DEFINE heard == Latest(page[p].heard, v)
               g == [page[p] EXCEPT !.heard = heard]
    <3>1. page'[p] = g
      BY <1>2, <2>3
    <3>2. heard \in Nat /\ heard >= page[p].heard /\ heard >= v
      BY <1>1, <2>1, SMT DEF Latest
    <3> HIDE DEF heard
    <3>3. /\ g \in PageRow /\ g.heard = heard /\ g.told = page[p].told /\ g.joined = page[p].joined
          /\ g.synced = page[p].synced /\ g.queries = page[p].queries
      BY <2>1, <3>2, Zenon DEF PageRow
    <3> HIDE DEF g
    <3>4. page[p].queries # << >> => page[p].queries[1].read \in Nat
      BY <2>1 DEF PageRow, Queries, Query
    <3>5. \A n \in Nat : n >= pushed \/ page[p].heard >= pushed => n >= pushed' \/ heard >= pushed'
      BY <1>1, <1>3, <2>1, <3>2, SMT
    <3> QED
      BY <2>1, <3>1, <3>3, <3>4, <3>5 DEF PageIsSound
  <2> QED
    BY <2>2, <2>3
<1>5. HandlersOK'
  <2>1. handler' = [k \in Handlers |-> handler'[k]] /\ \A k \in Handlers : handler'[k] \in {handler[k], Idle}
    BY <1>2, Zenon DEF PagesInv, HandlersOK
  <2> QED
    BY <1>2, <2>1, FallIdle
<1>6. PagesOK' /\ ToldGrows
  BY <1>2, <1>4, PageFacts DEF PagesOK, ToldGrows
<1> QED
  BY <1>2, <1>3, <1>5, <1>6 DEF PagesInv, RowOK

LEMMA HandlerDiesStep ==
  ASSUME PagesInv, NEW h \in Handlers, HandlerDies(h)
  PROVE  PagesInv' /\ ToldGrows
<1>1. handler' = [handler EXCEPT ![h] = Idle] /\ UNCHANGED <<row, page, pushed>>
  BY DEF HandlerDies
<1>2. handler' = [k \in Handlers |-> handler'[k]] /\ \A k \in Handlers : handler'[k] \in {handler[k], Idle}
  BY <1>1, Zenon DEF PagesInv, HandlersOK
<1>3. HandlersOK'
  BY <1>1, <1>2, FallIdle
<1> QED
  BY <1>1, <1>3, WriteStep

LEMMA ProcessDiesStep ==
  ASSUME PagesInv, ProcessDies
  PROVE  PagesInv' /\ ToldGrows
<1>1. /\ handler' = [h \in Handlers |-> Idle] /\ UNCHANGED <<row, pushed>>
      /\ page' = [p \in Pages |-> [page[p] EXCEPT !.joined = FALSE, !.synced = FALSE, !.queries = << >>,
                                                   !.stream = IF @ = "open" THEN "closed" ELSE @]]
  BY DEF ProcessDies
<1>2. HandlersOK'
  BY <1>1, FallIdle
<1>3. ASSUME NEW p \in Pages
      PROVE  PageIsSound(page'[p], Len(row), pushed) /\ page'[p].told = page[p].told
  <2> DEFINE g == [page[p] EXCEPT !.joined = FALSE, !.synced = FALSE, !.queries = << >>,
                                  !.stream = IF @ = "open" THEN "closed" ELSE @]
  <2>1. page[p] \in PageRow /\ page[p].told <= Len(row)
    BY PageFacts DEF PageIsSound
  <2>2. /\ << >> \in Queries
        /\ (IF page[p].stream = "open" THEN "closed" ELSE page[p].stream) \in {"closed", "open", "ended"}
    BY <2>1, Zenon DEF PageRow, Queries
  <2>3. g \in PageRow /\ g.queries = << >> /\ ~g.synced /\ g.told = page[p].told
    BY <2>1, <2>2, Zenon DEF PageRow
  <2>4. page'[p] = g
    BY <1>1
  <2> HIDE DEF g
  <2> QED
    BY <2>1, <2>3, <2>4, WithoutQuery
<1>4. page' = [p \in Pages |-> page'[p]]
  BY <1>1, Zenon
<1>5. PagesOK' /\ UNCHANGED <<row, pushed>>
  BY <1>1, <1>3, <1>4 DEF PagesOK
<1>6. ToldGrows
  BY <1>3, PageFacts DEF ToldGrows
<1> QED
  BY <1>2, <1>5, <1>6 DEF PagesInv, RowOK, PushedIsWritten

----------------------------------------------------------------------------
(* The pages' side. *)

\* A page that joins the room has begun the query under way before.
LEMMA Unjoined ==
  ASSUME NEW s
  PROVE  LET now == [i \in DOMAIN s |-> [s[i] EXCEPT !.sinceJoined = FALSE]]
         IN /\ s = << >> => now = << >>
            /\ \A q \in Query : s = <<q>> => now = <<[q EXCEPT !.sinceJoined = FALSE]>>
<1> DEFINE now == [i \in DOMAIN s |-> [s[i] EXCEPT !.sinceJoined = FALSE]]
<1>1. s = << >> => now = << >>
  BY SMT
<1>2. ASSUME NEW q \in Query, s = <<q>> PROVE now = <<[q EXCEPT !.sinceJoined = FALSE]>>
  <2> DEFINE r == [q EXCEPT !.sinceJoined = FALSE]
  <2>1. DOMAIN s = {1} /\ s[1] = q
    BY <1>2
  <2>2. now = [i \in {1} |-> r]
    BY <2>1, Zenon
  <2> HIDE DEF now, r
  <2>3. <<r>> = [i \in {1} |-> r]
    OBVIOUS
  <2> QED
    BY <2>2, <2>3 DEF r
<1> QED
  BY <1>1, <1>2

LEMMA RoomStep ==
  ASSUME PagesInv, NEW p \in Pages, Subscribe(p) \/ Leave(p)
  PROVE  PagesInv' /\ ToldGrows
<1>1. /\ page[p] \in PageRow /\ PageIsSound(page[p], Len(row), pushed) /\ page[p].told \in Nat
  BY PageFacts
<1>2. CASE Leave(p)
  <2> DEFINE g == [page[p] EXCEPT !.joined = FALSE, !.synced = FALSE]
  <2>1. page' = [page EXCEPT ![p] = g] /\ UNCHANGED <<row, handler, pushed>>
    BY <1>2, Zenon DEF Leave, PagesInv, PagesOK
  <2>2. /\ g \in PageRow /\ g.told = page[p].told /\ g.queries = page[p].queries
        /\ ~g.joined /\ ~g.synced /\ g.heard = page[p].heard
    BY <1>1, Zenon DEF PageRow
  <2> HIDE DEF g
  <2>3. PageIsSound(g, Len(row), pushed) /\ g.told >= page[p].told
    BY <1>1, <2>2 DEF PageIsSound
  <2> QED
    BY <2>1, <2>3, PageMoves
<1>3. CASE Subscribe(p)
  <2> DEFINE was == page[p].queries
             now == [i \in DOMAIN was |-> [was[i] EXCEPT !.sinceJoined = FALSE]]
             g == [page[p] EXCEPT !.joined = TRUE, !.synced = FALSE, !.queries = now]
  <2>1. page' = [page EXCEPT ![p] = g] /\ UNCHANGED <<row, handler, pushed>>
    BY <1>3, Zenon DEF Subscribe, PagesInv, PagesOK
  <2>2. was \in Queries
    BY <1>1, Zenon DEF PageRow
  <2>3. \/ was = << >> /\ now = << >>
        \/ \E q \in Query : was = <<q>> /\ now = <<[q EXCEPT !.sinceJoined = FALSE]>>
    BY <2>2, Unjoined DEF Queries
  <2> HIDE DEF was, now
  <2>4. /\ now \in Queries
        /\ now # << >> => /\ was # << >> /\ now[1].read = was[1].read /\ ~now[1].sinceJoined
    <3>1. \A q \in Query : LET r == [q EXCEPT !.sinceJoined = FALSE]
                           IN r \in Query /\ r.read = q.read /\ ~r.sinceJoined
      BY Zenon DEF Query
    <3>2. CASE was = << >> /\ now = << >>
      BY <3>2 DEF Queries
    <3>3. ASSUME NEW q \in Query, was = <<q>>, now = <<[q EXCEPT !.sinceJoined = FALSE]>>
          PROVE  /\ now \in Queries /\ was # << >>
                 /\ now[1].read = was[1].read /\ ~now[1].sinceJoined
      <4> DEFINE r == [q EXCEPT !.sinceJoined = FALSE]
      <4>1. r \in Query /\ r.read = q.read /\ ~r.sinceJoined
        BY <3>1
      <4>2. now = <<r>>
        BY <3>3
      <4> HIDE DEF r
      <4>3. now \in Queries
        BY <4>1, <4>2 DEF Queries
      <4>4. now[1] = r /\ was[1] = q /\ was # << >>
        BY <3>3, <4>2
      <4> QED
        BY <4>1, <4>3, <4>4
    <3> QED
      BY <2>3, <3>2, <3>3
  <2>5. g \in PageRow /\ g.told = page[p].told /\ g.queries = now /\ ~g.synced /\ g.heard = page[p].heard
    BY <1>1, <2>4, Zenon DEF PageRow
  <2> HIDE DEF g
  <2>6. PageIsSound(g, Len(row), pushed) /\ g.told >= page[p].told
    BY <1>1, <2>4, <2>5 DEF PageIsSound, was
  <2> QED
    BY <2>1, <2>6, PageMoves
<1> QED
  BY <1>2, <1>3

LEMMA StreamStep ==
  ASSUME PagesInv, NEW p \in Pages, Open(p) \/ QueryFails(p)
  PROVE  PagesInv' /\ ToldGrows
<1>1. /\ page[p] \in PageRow /\ PageIsSound(page[p], Len(row), pushed) /\ page[p].told \in Nat
  BY PageFacts
<1>2. PICK st \in {"closed", "open"} :
        /\ page' = [page EXCEPT ![p] = [page[p] EXCEPT !.stream = st, !.queries = << >>]]
        /\ UNCHANGED <<row, handler, pushed>>
  BY Zenon DEF Open, QueryFails, PagesInv, PagesOK
<1> DEFINE g == [page[p] EXCEPT !.stream = st, !.queries = << >>]
<1>3. << >> \in Queries /\ st \in {"closed", "open", "ended"}
  BY DEF Queries
<1>4. /\ g \in PageRow /\ g.told = page[p].told /\ g.queries = << >> /\ g.synced = page[p].synced
      /\ g.joined = page[p].joined /\ g.heard = page[p].heard
  BY <1>1, <1>3, Zenon DEF PageRow
<1>5. page' = [page EXCEPT ![p] = g]
  BY <1>2
<1> HIDE DEF g
<1>6. PageIsSound(g, Len(row), pushed) /\ g.told >= page[p].told
  BY <1>1, <1>4, WithoutQuery DEF PageIsSound
<1> QED
  BY <1>2, <1>5, <1>6, PageMoves

\* A new query has read nothing; the one before is forgotten.
LEMMA TickStep ==
  ASSUME PagesInv, NEW p \in Pages, Tick(p)
  PROVE  PagesInv' /\ ToldGrows
<1>1. /\ page[p] \in PageRow /\ PageIsSound(page[p], Len(row), pushed) /\ page[p].told \in Nat
      /\ Len(row) \in Nat
  BY PageFacts
<1> DEFINE q == [read |-> 0, sinceJoined |-> page[p].joined]
           g == [page[p] EXCEPT !.queries = <<q>>]
<1>2. q \in Query /\ q.read = 0
  BY <1>1, Zenon DEF PageRow, Query
<1>3. page' = [page EXCEPT ![p] = g] /\ UNCHANGED <<row, handler, pushed>>
  BY Zenon DEF Tick, PagesInv, PagesOK
<1> HIDE DEF q
<1>4. <<q>> \in Queries /\ <<q>>[1] = q
  BY <1>2 DEF Queries
<1>5. /\ g \in PageRow /\ g.told = page[p].told /\ g.queries = <<q>> /\ g.synced = page[p].synced
      /\ g.joined = page[p].joined /\ g.heard = page[p].heard
  BY <1>1, <1>4, Zenon DEF PageRow
<1> HIDE DEF g
<1>6. PageIsSound(g, Len(row), pushed) /\ g.told >= page[p].told
  BY <1>1, <1>2, <1>4, <1>5 DEF PageIsSound
<1> QED
  BY <1>3, <1>6, PageMoves

\* A page has one query under way, and its place in the list is the first.
LEMMA AtMostOneQuery ==
  ASSUME NEW queries \in Queries, NEW i \in DOMAIN queries
  PROVE  i = 1 /\ queries[1] \in Query /\ queries = <<queries[1]>> /\ queries # << >>
BY DEF Queries

\* The query reads the version of the moment, which is the latest of all.
LEMMA ReadIntentStep ==
  ASSUME PagesInv, NEW p \in Pages, ReadIntent(p)
  PROVE  PagesInv' /\ ToldGrows
<1>1. /\ page[p] \in PageRow /\ PageIsSound(page[p], Len(row), pushed) /\ page[p].told \in Nat
      /\ Len(row) \in Nat /\ pushed \in Nat /\ pushed <= Len(row)
  BY PageFacts
<1>2. page[p].queries \in Queries
  BY <1>1, Zenon DEF PageRow
<1> DEFINE q == page[p].queries[1]
           r == [q EXCEPT !.read = Len(row)]
           g == [page[p] EXCEPT !.queries = <<r>>]
<1>3. PICK i \in DOMAIN page[p].queries :
        page' = [page EXCEPT ![p].queries[i].read = Len(row)] /\ UNCHANGED <<row, handler, pushed>>
  BY DEF ReadIntent
<1>4. i = 1 /\ q \in Query /\ page[p].queries = <<q>>
  BY <1>2, AtMostOneQuery
<1>5. r \in Query /\ r.read = Len(row) /\ r.sinceJoined = q.sinceJoined
  BY <1>1, <1>4, Zenon DEF Query
<1>6. page' = [page EXCEPT ![p] = g]
  <2>1. [page[p].queries EXCEPT ![1] = r] = <<r>>
    <3> HIDE DEF r, q
    <3> QED
      BY <1>4
  <2>2. page' = [page EXCEPT ![p] = [page[p] EXCEPT !.queries = [page[p].queries EXCEPT ![1] = r]]]
    BY <1>3, <1>4, Zenon DEF PagesInv, PagesOK, PageRow
  <2> QED
    BY <2>1, <2>2, Zenon
<1> HIDE DEF r
<1>7. <<r>> \in Queries /\ <<r>>[1] = r
  BY <1>5 DEF Queries
<1>8. /\ g \in PageRow /\ g.told = page[p].told /\ g.queries = <<r>> /\ g.synced = page[p].synced
      /\ g.joined = page[p].joined /\ g.heard = page[p].heard
  BY <1>1, <1>7, Zenon DEF PageRow
<1> HIDE DEF g, q
<1>9. PageIsSound(g, Len(row), pushed) /\ g.told >= page[p].told
  BY <1>1, <1>5, <1>7, <1>8 DEF PageIsSound
<1> QED
  BY <1>3, <1>6, <1>9, PageMoves

\* The page is told what its query read, and has no query then.
LEMMA AnswerStep ==
  ASSUME PagesInv, NEW p \in Pages, Answer(p)
  PROVE  PagesInv' /\ ToldGrows
<1>1. /\ page[p] \in PageRow /\ PageIsSound(page[p], Len(row), pushed) /\ page[p].told \in Nat
      /\ Len(row) \in Nat /\ pushed \in Nat /\ page[p].heard \in Nat
  BY PageFacts
<1>2. page[p].queries \in Queries
  BY <1>1, Zenon DEF PageRow
<1> DEFINE q == page[p].queries[1]
<1>3. PICK i \in DOMAIN page[p].queries, ends \in BOOLEAN :
        /\ page[p].queries[i].read # 0
        /\ page' = [page EXCEPT ![p].told = page[p].queries[i].read,
                                ![p].synced = @ \/ (page[p].joined /\ page[p].queries[i].sinceJoined),
                                ![p].stream = IF ends THEN "ended" ELSE @,
                                ![p].queries = IF ends THEN << >> ELSE RemoveAt(@, i)]
        /\ UNCHANGED <<row, handler, pushed>>
  BY Zenon DEF Answer
<1>4. i = 1 /\ q \in Query /\ page[p].queries = <<q>>
  BY <1>2, AtMostOneQuery
<1>5. RemoveAt(page[p].queries, i) = << >>
  <2>1. Len(page[p].queries) = 1
    BY <1>4
  <2>2. /\ SubSeq(page[p].queries, 1, 0) = << >>
        /\ SubSeq(page[p].queries, 2, 1) = << >>
    BY SubSeqEmpty
  <2> QED
    BY <1>4, <2>1, <2>2 DEF RemoveAt
<1> DEFINE synced == page[p].synced \/ (page[p].joined /\ q.sinceJoined)
           stream == IF ends THEN "ended" ELSE page[p].stream
           g == [page[p] EXCEPT !.told = q.read, !.synced = synced, !.stream = stream, !.queries = << >>]
<1>6. page' = [page EXCEPT ![p] = g]
  <2>1. (IF ends THEN << >> ELSE RemoveAt(page[p].queries, i)) = << >>
    BY <1>5
  <2> QED
    BY <1>3, <1>4, <2>1, Zenon DEF PagesInv, PagesOK
<1>7. q.read \in Nat /\ synced \in BOOLEAN /\ stream \in {"closed", "open", "ended"} /\ << >> \in Queries
  BY <1>1, <1>4, Zenon DEF PageRow, Query, Queries
<1>8. synced => page[p].synced \/ (page[p].joined /\ q.sinceJoined)
  OBVIOUS
<1> HIDE DEF synced, stream
<1>9. /\ g \in PageRow /\ g.told = q.read /\ g.queries = << >> /\ g.synced = synced
      /\ g.joined = page[p].joined /\ g.heard = page[p].heard
  BY <1>1, <1>7, Zenon DEF PageRow
<1>10. /\ q.read # 0 /\ q.read <= Len(row) /\ q.read >= page[p].told
       /\ page[p].joined /\ q.sinceJoined => q.read >= pushed \/ page[p].heard >= pushed
       /\ page[p].synced => page[p].joined /\ (page[p].told >= pushed \/ page[p].heard >= pushed)
  BY <1>1, <1>3, <1>4 DEF PageIsSound
<1> HIDE DEF g, q
<1>11. g.synced => g.joined /\ (g.told >= pushed \/ g.heard >= pushed)
  BY <1>1, <1>7, <1>8, <1>9, <1>10
<1> QED
  BY <1>3, <1>6, <1>9, <1>10, <1>11, WithoutQuery, PageMoves

----------------------------------------------------------------------------
\* Every step of the handlers, of the process and of the pages.
LEMMA PagesStep == PagesInv /\ [PagesNext]_pageVars => PagesInv' /\ ToldGrows
<1> SUFFICES ASSUME PagesInv, [PagesNext]_pageVars PROVE PagesInv' /\ ToldGrows
  OBVIOUS
<1>1. CASE UNCHANGED pageVars
  <2>1. UNCHANGED <<row, page, pushed, handler>>
    BY <1>1 DEF pageVars
  <2>2. HandlersOK'
    BY <2>1 DEF PagesInv, HandlersOK
  <2> QED
    BY <2>1, <2>2, WriteStep
<1>2. CASE OtherWrite
  <2>1. PICK status : Writes(status) /\ UNCHANGED <<handler, page, pushed>>
    BY <1>2 DEF OtherWrite
  <2>2. Len(row') = Len(row) + 1 /\ Len(row) \in Nat
    BY <2>1, RowGrows DEF PagesInv
  <2>3. HandlersOK'
    <3>1. \A h \in Handlers : handler[h].wrote \in Nat /\ handler[h].wrote <= Len(row)
      BY Zenon DEF PagesInv, HandlersOK
    <3> QED
      BY <2>1, <2>2, <3>1 DEF PagesInv, HandlersOK
  <2> QED
    BY <2>1, <2>3, WriteStep
<1> QED
  BY <1>1, <1>2, SettleRowStep, OwnWriteStep, PushStep, HandlerDiesStep, ProcessDiesStep,
     RoomStep, StreamStep, TickStep, ReadIntentStep, AnswerStep DEF PagesNext

\* A page that stays follows the intent, for any number of pages, handlers, writes and slow queries: its stream
\* never runs backwards, and once synced it knows of all that was pushed (streamPaymentStatus, emitPaymentUpdate).
THEOREM PagesFollowTheIntent == PagesSpec => PagesFollow
<1>1. PagesInv => JoinedMissesNothing
  BY PageFacts, SMT DEF PagesInv, PagesOK, PageIsSound, JoinedMissesNothing, Latest
<1>2. PagesInv /\ [PagesNext]_pageVars => [\A p \in Pages : page'[p].told >= page[p].told]_pageVars
  BY PagesStep DEF ToldGrows
<1>3. PagesInv /\ [PagesNext]_pageVars => PagesInv'
  BY PagesStep
<1> QED
  BY PagesStart, <1>1, <1>2, <1>3, PTL DEF PagesSpec, PagesFollow, StreamInOrder

----------------------------------------------------------------------------
(***************************************************************************)
(* What the audiences of an announcement have heard last, for any number   *)
(* of tasks, audiences and reports.                                        *)
(*                                                                         *)
(* The last word left to say to an audience is the right one, and an       *)
(* audience nothing is due to has heard it (RightWords): the words of a    *)
(* task end right for the outcome it read, and a later outcome's words are *)
(* put after it.  Nobody is told before the link to the broker was first   *)
(* tried (FirstCheckAwaited).                                              *)
(***************************************************************************)
Links == [at : {"first", "testing", "waiting", "ended"}, attempts : Nat, connected : BOOLEAN, failed : BOOLEAN]
Said  == {"payment.succeeded", "payment.failed", "payment.processing", "payment.success", "payment.pending",
          "payment_success", "payment_completed", "payment_updated", "nothing"}
Pairs == Audiences \X Said
Finals == {"paid", "declined", "none"}
AnnounceTypeOK ==
  /\ link \in Links
  /\ task \in [Tasks -> [report : Reports \cup {"none"}, left : Seq(Pairs)]]
  /\ audience \in [Audiences -> Said] /\ unsure \in SUBSET Audiences
  /\ broker \in BOOLEAN
  /\ outcome \in [last : Reports \cup {"none"}, final : Finals, finalized : Finals]
\* What audience a should have heard last.
Told(a, word, o) ==
  /\ a = "topic" /\ o.final # "none"     => (word = "payment.succeeded" <=> o.final = "paid")
  /\ a = "board" /\ o.finalized # "none" => (word = "payment_completed" <=> o.finalized = "paid")
  /\ a = "merchant" /\ o.last # "none"   => (word = "payment.succeeded" <=> o.last = "paid")
IsLast(left, i) == \A j \in DOMAIN left : j > i => left[j][1] # left[i][1]
EndsRight(left, a, o) == \A i \in DOMAIN left : left[i][1] = a /\ IsLast(left, i) => Told(a, left[i][2], o)
Due(left, a) == \E i \in DOMAIN left : left[i][1] = a
\* What is left to say to an audience ends in the right word, and the audience nothing is due to has heard it.
RightWords ==
  \A a \in Audiences : a \notin unsure =>
    /\ \A t \in Tasks : EndsRight(task[t].left, a, outcome)
    /\ (\A t \in Tasks : ~Due(task[t].left, a)) => Told(a, audience[a], outcome)
FirstCheckAwaited ==
  /\ link.at # "first" => link.connected \/ link.failed
  /\ \A t \in Tasks : task[t].left # << >> => link.at # "first"
AnnounceInv == AnnounceTypeOK /\ RightWords /\ FirstCheckAwaited

----------------------------------------------------------------------------
\* Short sequences joined, as the words of a report are (ToSay).
LEMMA OneAndTwo ==
  ASSUME NEW a, NEW b, NEW c
  PROVE  <<a>> \o <<b, c>> = <<a, b, c>>
<1> DEFINE S == {a, b, c}
           s == <<a>>
           u == <<b, c>>
           v == <<a, b, c>>
<1>1. s \in Seq(S) /\ u \in Seq(S) /\ v \in Seq(S)
  OBVIOUS
<1>2. Len(v) = Len(s) + Len(u)
  OBVIOUS
<1>3. \A i \in 1 .. Len(s) : v[i] = s[i]
  OBVIOUS
<1>4. \A i \in 1 .. Len(u) : v[Len(s) + i] = u[i]
  OBVIOUS
<1> HIDE DEF S, s, u, v
<1>5. s \o u = v
  BY <1>1, <1>2, <1>3, <1>4, Joined
<1> QED
  BY <1>5 DEF s, u, v

LEMMA OneAndOne ==
  ASSUME NEW a, NEW b
  PROVE  <<a>> \o <<b>> = <<a, b>>
<1> DEFINE S == {a, b}
           s == <<a>>
           u == <<b>>
           v == <<a, b>>
<1>1. s \in Seq(S) /\ u \in Seq(S) /\ v \in Seq(S)
  OBVIOUS
<1>2. Len(v) = Len(s) + Len(u)
  OBVIOUS
<1>3. \A i \in 1 .. Len(s) : v[i] = s[i]
  OBVIOUS
<1>4. \A i \in 1 .. Len(u) : v[Len(s) + i] = u[i]
  OBVIOUS
<1> HIDE DEF S, s, u, v
<1>5. s \o u = v
  BY <1>1, <1>2, <1>3, <1>4, Joined
<1> QED
  BY <1>5 DEF s, u, v

LEMMA OneAndThree ==
  ASSUME NEW a, NEW b, NEW c, NEW d
  PROVE  <<a>> \o <<b, c, d>> = <<a, b, c, d>>
<1> DEFINE S == {a, b, c, d}
           s == <<a>>
           u == <<b, c, d>>
           v == <<a, b, c, d>>
<1>1. s \in Seq(S) /\ u \in Seq(S) /\ v \in Seq(S)
  OBVIOUS
<1>2. Len(v) = Len(s) + Len(u)
  OBVIOUS
<1>3. \A i \in 1 .. Len(s) : v[i] = s[i]
  OBVIOUS
<1>4. \A i \in 1 .. Len(u) : v[Len(s) + i] = u[i]
  OBVIOUS
<1> HIDE DEF S, s, u, v
<1>5. s \o u = v
  BY <1>1, <1>2, <1>3, <1>4, Joined
<1> QED
  BY <1>5 DEF s, u, v

LEMMA OneAndFour ==
  ASSUME NEW a, NEW b, NEW c, NEW d, NEW e
  PROVE  <<a>> \o <<b, c, d, e>> = <<a, b, c, d, e>>
<1> DEFINE S == {a, b, c, d, e}
           s == <<a>>
           u == <<b, c, d, e>>
           v == <<a, b, c, d, e>>
<1>1. s \in Seq(S) /\ u \in Seq(S) /\ v \in Seq(S)
  OBVIOUS
<1>2. Len(v) = Len(s) + Len(u)
  OBVIOUS
<1>3. \A i \in 1 .. Len(s) : v[i] = s[i]
  OBVIOUS
<1>4. \A i \in 1 .. Len(u) : v[Len(s) + i] = u[i]
  OBVIOUS
<1> HIDE DEF S, s, u, v
<1>5. s \o u = v
  BY <1>1, <1>2, <1>3, <1>4, Joined
<1> QED
  BY <1>5 DEF s, u, v

LEMMA FourAndOne ==
  ASSUME NEW a, NEW b, NEW c, NEW d, NEW e
  PROVE  <<a, b, c, d>> \o <<e>> = <<a, b, c, d, e>>
<1> DEFINE S == {a, b, c, d, e}
           s == <<a, b, c, d>>
           u == <<e>>
           v == <<a, b, c, d, e>>
<1>1. s \in Seq(S) /\ u \in Seq(S) /\ v \in Seq(S)
  OBVIOUS
<1>2. Len(v) = Len(s) + Len(u)
  OBVIOUS
<1>3. \A i \in 1 .. Len(s) : v[i] = s[i]
  OBVIOUS
<1>4. \A i \in 1 .. Len(u) : v[Len(s) + i] = u[i]
  OBVIOUS
<1> HIDE DEF S, s, u, v
<1>5. s \o u = v
  BY <1>1, <1>2, <1>3, <1>4, Joined
<1> QED
  BY <1>5 DEF s, u, v

LEMMA FiveAndOne ==
  ASSUME NEW a, NEW b, NEW c, NEW d, NEW e, NEW f
  PROVE  <<a, b, c, d, e>> \o <<f>> = <<a, b, c, d, e, f>>
<1> DEFINE S == {a, b, c, d, e, f}
           s == <<a, b, c, d, e>>
           u == <<f>>
           v == <<a, b, c, d, e, f>>
<1>1. s \in Seq(S) /\ u \in Seq(S) /\ v \in Seq(S)
  OBVIOUS
<1>2. Len(v) = Len(s) + Len(u)
  OBVIOUS
<1>3. \A i \in 1 .. Len(s) : v[i] = s[i]
  OBVIOUS
<1>4. \A i \in 1 .. Len(u) : v[Len(s) + i] = u[i]
  OBVIOUS
<1> HIDE DEF S, s, u, v
<1>5. s \o u = v
  BY <1>1, <1>2, <1>3, <1>4, Joined
<1> QED
  BY <1>5 DEF s, u, v

\* The words each report has to say, one after the other.
LEMMA ToSayPaid ==
  ToSay("paid", FALSE) = << <<"topic", "payment.succeeded">>, <<"topic", "payment.succeeded">>,
                            <<"merchant", "payment.success">>, <<"customer", "payment_success">>,
                            <<"board", "payment_completed">>, <<"merchant", "payment.succeeded">> >>
<1>1. CompletionNotices("succeeded") = << <<"merchant", "payment.success">>, <<"customer", "payment_success">>,
                                          <<"board", "payment_completed">> >>
  <2>1. MailType("succeeded") = "payment_success" /\ BoardEvent("succeeded") = "payment_completed"
    BY DEF MailType, BoardEvent
  <2> QED
    BY <2>1, OneAndTwo, Zenon DEF CompletionNotices
<1>2. StatusEvent("paid") = "payment.succeeded" /\ FinalStatus("paid") = "succeeded"
      /\ FinalEvent("succeeded") = "payment.succeeded" /\ MerchantNotice("paid") = <<"merchant", "payment.succeeded">>
  BY DEF StatusEvent, FinalStatus, FinalEvent, MerchantNotice
<1>3. ToSay("paid", FALSE)
        = (<< <<"topic", StatusEvent("paid")>> >>
             \o (<< <<"topic", FinalEvent(FinalStatus("paid"))>> >> \o CompletionNotices(FinalStatus("paid"))))
          \o <<MerchantNotice("paid")>>
  <2>1. "paid" # "pending" /\ ~FALSE
    OBVIOUS
  <2> QED
    BY <2>1, Zenon DEF ToSay
<1>4. << <<"topic", "payment.succeeded">> >>
        \o << <<"merchant", "payment.success">>, <<"customer", "payment_success">>, <<"board", "payment_completed">> >>
      = << <<"topic", "payment.succeeded">>, <<"merchant", "payment.success">>, <<"customer", "payment_success">>,
           <<"board", "payment_completed">> >>
  BY OneAndThree, Zenon
<1>5. << <<"topic", "payment.succeeded">> >>
        \o << <<"topic", "payment.succeeded">>, <<"merchant", "payment.success">>, <<"customer", "payment_success">>,
              <<"board", "payment_completed">> >>
      = << <<"topic", "payment.succeeded">>, <<"topic", "payment.succeeded">>, <<"merchant", "payment.success">>,
           <<"customer", "payment_success">>, <<"board", "payment_completed">> >>
  BY OneAndFour, Zenon
<1>6. << <<"topic", "payment.succeeded">>, <<"topic", "payment.succeeded">>, <<"merchant", "payment.success">>,
         <<"customer", "payment_success">>, <<"board", "payment_completed">> >>
        \o << <<"merchant", "payment.succeeded">> >>
      = << <<"topic", "payment.succeeded">>, <<"topic", "payment.succeeded">>, <<"merchant", "payment.success">>,
           <<"customer", "payment_success">>, <<"board", "payment_completed">>, <<"merchant", "payment.succeeded">> >>
  BY FiveAndOne, Zenon
<1> QED
  BY <1>1, <1>2, <1>3, <1>4, <1>5, <1>6, Zenon

LEMMA ToSayDeclined ==
  ToSay("declined", FALSE) = << <<"topic", "payment.failed">>, <<"topic", "payment.processing">>,
                                <<"customer", "payment_success">>, <<"board", "payment_updated">>,
                                <<"merchant", "payment.failed">> >>
<1>1. CompletionNotices("canceled") = << <<"customer", "payment_success">>, <<"board", "payment_updated">> >>
  <2>1. MailType("canceled") = "payment_success" /\ BoardEvent("canceled") = "payment_updated"
    BY DEF MailType, BoardEvent
  <2>2. ASSUME NEW b, NEW c PROVE << >> \o <<b, c>> = <<b, c>>
    OBVIOUS
  <2>3. "canceled" # "succeeded"
    OBVIOUS
  <2> QED
    BY <2>1, <2>2, <2>3, Zenon DEF CompletionNotices
<1>2. StatusEvent("declined") = "payment.failed" /\ FinalStatus("declined") = "canceled"
      /\ FinalEvent("canceled") = "payment.processing" /\ MerchantNotice("declined") = <<"merchant", "payment.failed">>
  BY DEF StatusEvent, FinalStatus, FinalEvent, MerchantNotice
<1>3. ToSay("declined", FALSE)
        = (<< <<"topic", StatusEvent("declined")>> >>
             \o (<< <<"topic", FinalEvent(FinalStatus("declined"))>> >> \o CompletionNotices(FinalStatus("declined"))))
          \o <<MerchantNotice("declined")>>
  <2>1. "declined" # "pending" /\ ~FALSE
    OBVIOUS
  <2> QED
    BY <2>1, Zenon DEF ToSay
<1>4. << <<"topic", "payment.processing">> >>
        \o << <<"customer", "payment_success">>, <<"board", "payment_updated">> >>
      = << <<"topic", "payment.processing">>, <<"customer", "payment_success">>, <<"board", "payment_updated">> >>
  BY OneAndTwo, Zenon
<1>5. << <<"topic", "payment.failed">> >>
        \o << <<"topic", "payment.processing">>, <<"customer", "payment_success">>, <<"board", "payment_updated">> >>
      = << <<"topic", "payment.failed">>, <<"topic", "payment.processing">>,
           <<"customer", "payment_success">>, <<"board", "payment_updated">> >>
  BY OneAndThree, Zenon
<1>6. << <<"topic", "payment.failed">>, <<"topic", "payment.processing">>, <<"customer", "payment_success">>,
         <<"board", "payment_updated">> >> \o << <<"merchant", "payment.failed">> >>
      = << <<"topic", "payment.failed">>, <<"topic", "payment.processing">>, <<"customer", "payment_success">>,
           <<"board", "payment_updated">>, <<"merchant", "payment.failed">> >>
  BY FourAndOne, Zenon
<1> QED
  BY <1>1, <1>2, <1>3, <1>4, <1>5, <1>6, Zenon

LEMMA ToSayPending == ASSUME NEW cut PROVE ToSay("pending", cut) = << <<"merchant", "payment.pending">> >>
BY DEF ToSay, MerchantNotice

LEMMA ToSayCut ==
  ASSUME NEW report \in {"paid", "declined"}
  PROVE  ToSay(report, TRUE) = << <<"topic", StatusEvent(report)>>, MerchantNotice(report) >>
<1>1. ToSay(report, TRUE) = (<< <<"topic", StatusEvent(report)>> >> \o << >>) \o <<MerchantNotice(report)>>
  <2>1. report # "pending"
    OBVIOUS
  <2> QED
    BY <2>1, Zenon DEF ToSay
<1>2. ASSUME NEW b PROVE <<b>> \o << >> = <<b>>
  OBVIOUS
<1>3. << <<"topic", StatusEvent(report)>> >> \o << >> = << <<"topic", StatusEvent(report)>> >>
  BY <1>2, Zenon
<1>4. << <<"topic", StatusEvent(report)>> >> \o <<MerchantNotice(report)>>
        = << <<"topic", StatusEvent(report)>>, MerchantNotice(report) >>
  BY OneAndOne, Zenon
<1> QED
  BY <1>1, <1>3, <1>4, Zenon

----------------------------------------------------------------------------
LEMMA PairIs ==
  ASSUME NEW word \in Said
  PROVE  /\ <<"topic", word>> \in Pairs /\ <<"merchant", word>> \in Pairs
         /\ <<"customer", word>> \in Pairs /\ <<"board", word>> \in Pairs
BY DEF Pairs, Audiences

LEMMA TupleOfOne ==
  ASSUME NEW a \in Pairs
  PROVE  LET s == <<a>>
         IN /\ s \in Seq(Pairs) /\ Len(s) = 1 /\ DOMAIN s = 1 .. 1 /\ s[1] = a
OBVIOUS

LEMMA TupleOfTwo ==
  ASSUME NEW a \in Pairs, NEW b \in Pairs
  PROVE  LET s == <<a, b>>
         IN /\ s \in Seq(Pairs) /\ Len(s) = 2 /\ DOMAIN s = 1 .. 2 /\ s[1] = a /\ s[2] = b
OBVIOUS

LEMMA TupleOfFive ==
  ASSUME NEW a \in Pairs, NEW b \in Pairs, NEW c \in Pairs, NEW d \in Pairs, NEW e \in Pairs
  PROVE  LET s == <<a, b, c, d, e>>
         IN /\ s \in Seq(Pairs) /\ Len(s) = 5 /\ DOMAIN s = 1 .. 5
            /\ s[1] = a /\ s[2] = b /\ s[3] = c /\ s[4] = d /\ s[5] = e
OBVIOUS

LEMMA TupleOfSix ==
  ASSUME NEW a \in Pairs, NEW b \in Pairs, NEW c \in Pairs, NEW d \in Pairs, NEW e \in Pairs, NEW f \in Pairs
  PROVE  LET s == <<a, b, c, d, e, f>>
         IN /\ s \in Seq(Pairs) /\ Len(s) = 6 /\ DOMAIN s = 1 .. 6
            /\ s[1] = a /\ s[2] = b /\ s[3] = c /\ s[4] = d /\ s[5] = e /\ s[6] = f
OBVIOUS

\* Whatever a report has to say to an audience ends in the right word.
LEMMA WordsEndRight ==
  ASSUME NEW report \in Reports, NEW cut \in BOOLEAN, NEW o, o.last = report, report # "pending" => o.final = report,
         report # "pending" /\ ~cut => o.finalized = report
  PROVE  /\ ToSay(report, cut) \in Seq(Pairs) /\ ToSay(report, cut) # << >>
         /\ \A a : EndsRight(ToSay(report, cut), a, o)
         /\ Due(ToSay(report, cut), "merchant")
         /\ report # "pending" => Due(ToSay(report, cut), "topic")
         /\ report # "pending" /\ ~cut => \A a \in Audiences : Due(ToSay(report, cut), a)
<1>1. CASE report = "paid" /\ ~cut
  <2> DEFINE left == ToSay(report, cut)
             p1 == <<"topic", "payment.succeeded">>
             p2 == <<"topic", "payment.succeeded">>
             p3 == <<"merchant", "payment.success">>
             p4 == <<"customer", "payment_success">>
             p5 == <<"board", "payment_completed">>
             p6 == <<"merchant", "payment.succeeded">>
  <2>0. left = <<p1, p2, p3, p4, p5, p6>>
    <3>1. cut = FALSE
      BY <1>1
    <3> QED
      BY <1>1, <3>1, ToSayPaid
  <2>1. p1 \in Pairs /\ p2 \in Pairs /\ p3 \in Pairs /\ p4 \in Pairs /\ p5 \in Pairs /\ p6 \in Pairs
    BY PairIs DEF Said
  <2> HIDE DEF left, p1, p2, p3, p4, p5, p6
  <2>2. /\ left \in Seq(Pairs) /\ Len(left) = 6 /\ DOMAIN left = 1 .. 6
        /\ left[1] = p1 /\ left[2] = p2 /\ left[3] = p3 /\ left[4] = p4 /\ left[5] = p5 /\ left[6] = p6
    BY <2>0, <2>1, TupleOfSix
  <2>3. \A a : Due(left, a) <=> a \in Audiences
    BY <2>2 DEF Due, p1, p2, p3, p4, p5, p6, Audiences
  <2>4. \A a : EndsRight(left, a, o)
    BY <1>1, <2>2 DEF EndsRight, IsLast, Told, p1, p2, p3, p4, p5, p6
  <2>5. left # << >>
    <3>1. Len(<< >>) = 0
      OBVIOUS
    <3>2. Len(left) # 0
      BY <2>2
    <3> QED
      BY <3>1, <3>2, Zenon
  <2> QED
    BY <2>2, <2>3, <2>4, <2>5 DEF left, Audiences
<1>2. CASE report = "declined" /\ ~cut
  <2> DEFINE left == ToSay(report, cut)
             p1 == <<"topic", "payment.failed">>
             p2 == <<"topic", "payment.processing">>
             p3 == <<"customer", "payment_success">>
             p4 == <<"board", "payment_updated">>
             p5 == <<"merchant", "payment.failed">>
  <2>0. left = <<p1, p2, p3, p4, p5>>
    <3>1. cut = FALSE
      BY <1>2
    <3> QED
      BY <1>2, <3>1, ToSayDeclined
  <2>1. p1 \in Pairs /\ p2 \in Pairs /\ p3 \in Pairs /\ p4 \in Pairs /\ p5 \in Pairs
    BY PairIs DEF Said
  <2> HIDE DEF left, p1, p2, p3, p4, p5
  <2>2. /\ left \in Seq(Pairs) /\ Len(left) = 5 /\ DOMAIN left = 1 .. 5
        /\ left[1] = p1 /\ left[2] = p2 /\ left[3] = p3 /\ left[4] = p4 /\ left[5] = p5
    BY <2>0, <2>1, TupleOfFive
  <2>3. \A a : Due(left, a) <=> a \in Audiences
    BY <2>2 DEF Due, p1, p2, p3, p4, p5, Audiences
  <2>4. \A a : EndsRight(left, a, o)
    BY <1>2, <2>2 DEF EndsRight, IsLast, Told, p1, p2, p3, p4, p5
  <2>5. left # << >>
    <3>1. Len(<< >>) = 0
      OBVIOUS
    <3>2. Len(left) # 0
      BY <2>2
    <3> QED
      BY <3>1, <3>2, Zenon
  <2> QED
    BY <2>2, <2>3, <2>4, <2>5 DEF left, Audiences
<1>3. CASE report = "pending"
  <2> DEFINE left == ToSay(report, cut)
             p1 == <<"merchant", "payment.pending">>
  <2>0. left = <<p1>>
    BY <1>3, ToSayPending
  <2>1. p1 \in Pairs
    BY PairIs DEF Said
  <2> HIDE DEF left, p1
  <2>2. /\ left \in Seq(Pairs) /\ Len(left) = 1 /\ DOMAIN left = 1 .. 1 /\ left[1] = p1
    BY <2>0, <2>1, TupleOfOne
  <2>3. Due(left, "merchant")
    BY <2>2 DEF Due, p1
  <2>4. \A a : EndsRight(left, a, o)
    BY <1>3, <2>2 DEF EndsRight, IsLast, Told, p1
  <2>5. left # << >>
    <3>1. Len(<< >>) = 0
      OBVIOUS
    <3>2. Len(left) # 0
      BY <2>2
    <3> QED
      BY <3>1, <3>2, Zenon
  <2> QED
    BY <1>3, <2>2, <2>3, <2>4, <2>5 DEF left
<1>4. CASE report # "pending" /\ cut
  <2> DEFINE left == ToSay(report, cut)
             p1 == <<"topic", StatusEvent(report)>>
             p2 == MerchantNotice(report)
  <2>0. left = <<p1, p2>>
    <3>1. cut = TRUE /\ report \in {"paid", "declined"}
      BY <1>4 DEF Reports
    <3> QED
      BY <3>1, ToSayCut
  <2>6. /\ StatusEvent(report) \in Said /\ (StatusEvent(report) = "payment.succeeded" <=> report = "paid")
        /\ \E word \in Said : p2 = <<"merchant", word>> /\ (word = "payment.succeeded" <=> report = "paid")
    BY <1>4 DEF StatusEvent, MerchantNotice, Said, Reports
  <2>7. PICK word \in Said : p2 = <<"merchant", word>> /\ (word = "payment.succeeded" <=> report = "paid")
    BY <2>6
  <2>1. p1 \in Pairs /\ p2 \in Pairs
    BY <2>6, <2>7, PairIs
  <2>8. /\ p1[1] = "topic" /\ p1[2] = StatusEvent(report)
        /\ p2[1] = "merchant" /\ (p2[2] = "payment.succeeded" <=> report = "paid")
    BY <2>7
  <2> HIDE DEF left, p1, p2
  <2>2. /\ left \in Seq(Pairs) /\ Len(left) = 2 /\ DOMAIN left = 1 .. 2 /\ left[1] = p1 /\ left[2] = p2
    BY <2>0, <2>1, TupleOfTwo
  <2>3. \A a : Due(left, a) <=> a \in {"topic", "merchant"}
    BY <2>2, <2>8 DEF Due
  <2>4. \A a : EndsRight(left, a, o)
    BY <1>4, <2>2, <2>6, <2>8 DEF EndsRight, IsLast, Told
  <2>5. left # << >>
    <3>1. Len(<< >>) = 0
      OBVIOUS
    <3>2. Len(left) # 0
      BY <2>2
    <3> QED
      BY <3>1, <3>2, Zenon
  <2> QED
    BY <1>4, <2>2, <2>3, <2>4, <2>5 DEF left
<1> QED
  BY <1>1, <1>2, <1>3, <1>4 DEF Reports

\* What remains after a word has been said.
Rest(left) == IF Len(left) = 1 THEN << >> ELSE Tail(left)

\* What is left when the first word has been said.
LEMMA RestIs ==
  ASSUME NEW left \in Seq(Pairs), left # << >>
  PROVE  /\ Rest(left) \in Seq(Pairs) /\ Len(left) \in Nat /\ Len(left) > 0
         /\ DOMAIN Rest(left) = 1 .. Len(left) - 1 /\ DOMAIN left = 1 .. Len(left)
         /\ \A i \in 1 .. Len(left) - 1 : Rest(left)[i] = left[i + 1]
<1>1. Len(left) \in Nat /\ Len(left) > 0 /\ DOMAIN left = 1 .. Len(left)
  OBVIOUS
<1>2. CASE Len(left) = 1
  <2>1. Rest(left) = << >>
    BY <1>2 DEF Rest
  <2>2. << >> \in Seq(Pairs) /\ DOMAIN << >> = {} /\ 1 .. 1 - 1 = {}
    OBVIOUS
  <2> QED
    BY <1>1, <1>2, <2>1, <2>2
<1>3. CASE Len(left) # 1
  <2>1. Rest(left) = Tail(left)
    BY <1>3 DEF Rest
  <2>2. /\ Tail(left) \in Seq(Pairs) /\ DOMAIN Tail(left) = 1 .. Len(left) - 1
        /\ \A i \in 1 .. Len(left) - 1 : Tail(left)[i] = left[i + 1]
    BY <1>1
  <2> QED
    BY <1>1, <2>1, <2>2
<1> QED
  BY <1>2, <1>3

LEMMA RestEndsRight ==
  ASSUME NEW left \in Seq(Pairs), left # << >>, NEW a, NEW o, EndsRight(left, a, o)
  PROVE  EndsRight(Rest(left), a, o)
<1> DEFINE rest == Rest(left)
<1>1. /\ Len(left) \in Nat /\ DOMAIN rest = 1 .. Len(left) - 1 /\ DOMAIN left = 1 .. Len(left)
      /\ \A i \in 1 .. Len(left) - 1 : rest[i] = left[i + 1]
  BY RestIs
<1> HIDE DEF rest
<1>2. ASSUME NEW i \in DOMAIN rest, rest[i][1] = a, IsLast(rest, i) PROVE Told(a, rest[i][2], o)
  <2>1. i \in 1 .. Len(left) - 1 /\ i + 1 \in DOMAIN left /\ rest[i] = left[i + 1]
    BY <1>1
  <2>2. ASSUME NEW j \in DOMAIN left, j > i + 1 PROVE left[j][1] # left[i + 1][1]
    <3>1. j - 1 \in 1 .. Len(left) - 1 /\ j - 1 > i /\ (j - 1) + 1 = j
      BY <1>1, <2>1, <2>2
    <3>2. rest[j - 1][1] # rest[i][1]
      BY <1>1, <1>2, <3>1 DEF IsLast
    <3>3. rest[j - 1] = left[(j - 1) + 1]
      BY <1>1, <3>1
    <3> QED
      BY <2>1, <3>1, <3>2, <3>3
  <2>3. IsLast(left, i + 1)
    BY <2>2 DEF IsLast
  <2> QED
    BY <1>2, <2>1, <2>3 DEF EndsRight
<1> QED
  BY <1>2 DEF EndsRight, rest

LEMMA RestIsDue ==
  ASSUME NEW left \in Seq(Pairs), left # << >>, NEW a
  PROVE  /\ Due(left, a) <=> left[1][1] = a \/ Due(Rest(left), a)
         /\ \A o : EndsRight(left, a, o) /\ left[1][1] = a /\ ~Due(Rest(left), a) => Told(a, left[1][2], o)
<1> DEFINE rest == Rest(left)
<1>1. /\ Len(left) \in Nat /\ Len(left) > 0 /\ DOMAIN rest = 1 .. Len(left) - 1 /\ DOMAIN left = 1 .. Len(left)
      /\ \A i \in 1 .. Len(left) - 1 : rest[i] = left[i + 1]
  BY RestIs
<1> HIDE DEF rest
<1>2. ASSUME NEW i \in DOMAIN left, i # 1 PROVE i - 1 \in DOMAIN rest /\ rest[i - 1] = left[i]
  <2>1. i - 1 \in 1 .. Len(left) - 1 /\ (i - 1) + 1 = i
    BY <1>1, <1>2
  <2>2. rest[i - 1] = left[(i - 1) + 1]
    BY <1>1, <2>1
  <2> QED
    BY <1>1, <2>1, <2>2
<1>3. 1 \in DOMAIN left
  BY <1>1
<1>4. ASSUME NEW i \in DOMAIN rest PROVE i + 1 \in DOMAIN left /\ rest[i] = left[i + 1]
  BY <1>1
<1>5. Due(left, a) <=> left[1][1] = a \/ Due(rest, a)
  BY <1>2, <1>3, <1>4 DEF Due
<1>6. ASSUME NEW o, EndsRight(left, a, o), left[1][1] = a, ~Due(rest, a) PROVE Told(a, left[1][2], o)
  <2>1. ASSUME NEW j \in DOMAIN left, j > 1 PROVE left[j][1] # left[1][1]
    BY <1>2, <1>6, <2>1 DEF Due
  <2>2. IsLast(left, 1)
    BY <2>1 DEF IsLast
  <2> QED
    BY <1>3, <1>6, <2>2 DEF EndsRight
<1> QED
  BY <1>5, <1>6 DEF rest

----------------------------------------------------------------------------
LEMMA AnnounceStarts == AnnounceInit => AnnounceInv
<1> SUFFICES ASSUME AnnounceInit PROVE AnnounceInv
  OBVIOUS
<1>1. << >> \in Seq(Pairs) /\ DOMAIN << >> = {}
  OBVIOUS
<1>2. \A t \in Tasks : task[t] = [report |-> "none", left |-> << >>] /\ task[t].left = << >>
  BY DEF AnnounceInit, AtRest
<1>3. AnnounceTypeOK
  <2>1. link \in Links /\ audience \in [Audiences -> Said] /\ unsure \in SUBSET Audiences /\ broker \in BOOLEAN
    BY DEF AnnounceInit, Unlinked, Links, Said
  <2>2. outcome \in [last : Reports \cup {"none"}, final : Finals, finalized : Finals]
    BY DEF AnnounceInit, Finals
  <2>3. task \in [Tasks -> [report : Reports \cup {"none"}, left : Seq(Pairs)]]
    BY <1>1 DEF AnnounceInit, AtRest
  <2> QED
    BY <2>1, <2>2, <2>3 DEF AnnounceTypeOK
<1>4. RightWords
  <2>1. \A a, w : Told(a, w, outcome)
    BY DEF Told, AnnounceInit
  <2> QED
    BY <2>1 DEF RightWords, EndsRight
<1>5. FirstCheckAwaited
  BY <1>2 DEF FirstCheckAwaited, AnnounceInit, Unlinked
<1> QED
  BY <1>3, <1>4, <1>5 DEF AnnounceInv

\* The tests of the link change nothing else.
LEMMA LinkKeeps ==
  ASSUME AnnounceInv, TestPasses \/ TestFails \/ RetryDue
  PROVE  AnnounceInv'
<1>1. UNCHANGED broker /\ UNCHANGED task /\ UNCHANGED outcome /\ UNCHANGED audience /\ UNCHANGED unsure
  BY DEF TestPasses, TestFails, RetryDue
<1>2. link \in Links /\ (link.at # "first" => link.connected \/ link.failed)
  BY DEF AnnounceInv, AnnounceTypeOK, FirstCheckAwaited
<1>3. link' \in Links /\ link'.at # "first" /\ (link'.connected \/ link'.failed)
  <2>1. CASE TestPasses
    BY <1>2, <2>1 DEF TestPasses, Links
  <2>2. CASE TestFails
    <3>1. /\ [link EXCEPT !.at = "ended", !.failed = TRUE] \in Links
          /\ [link EXCEPT !.at = "waiting", !.attempts = @ + 1, !.failed = TRUE] \in Links
      <4>1. link.attempts \in Nat /\ link.attempts + 1 \in Nat
        BY <1>2 DEF Links
      <4>2. \A n \in Nat : [link EXCEPT !.at = "waiting", !.attempts = n, !.failed = TRUE] \in Links
        BY <1>2 DEF Links
      <4>3. [link EXCEPT !.at = "ended", !.failed = TRUE] \in Links
        BY <1>2 DEF Links
      <4> QED
        BY <4>1, <4>2, <4>3, Zenon
    <3>2. \/ link' = [link EXCEPT !.at = "ended", !.failed = TRUE]
          \/ link' = [link EXCEPT !.at = "waiting", !.attempts = @ + 1, !.failed = TRUE]
      BY <2>2, Zenon DEF TestFails
    <3> QED
      BY <1>2, <3>1, <3>2 DEF Links
  <2>3. CASE RetryDue
    BY <1>2, <2>3 DEF RetryDue, Links
  <2> QED
    BY <2>1, <2>2, <2>3
<1>4. AnnounceTypeOK'
  BY <1>1, <1>3 DEF AnnounceInv, AnnounceTypeOK
<1>5. RightWords'
  BY <1>1 DEF AnnounceInv, RightWords
<1>6. FirstCheckAwaited'
  BY <1>1, <1>3 DEF FirstCheckAwaited
<1> QED
  BY <1>4, <1>5, <1>6 DEF AnnounceInv

LEMMA ReportComesKeeps == ASSUME AnnounceInv, NEW t \in Tasks, ReportComes(t) PROVE AnnounceInv'
<1>1. PICK report \in Reports, cut \in BOOLEAN : link.at # "first" /\ Begin(t, report, cut)
  BY DEF ReportComes
<1> DEFINE words == ToSay(report, cut)
           o     == [last      |-> report,
                     final     |-> IF report = "pending" THEN outcome.final ELSE report,
                     finalized |-> IF report = "pending" \/ cut THEN outcome.finalized ELSE report]
<1>2. /\ task[t] = AtRest /\ task' = [task EXCEPT ![t] = [report |-> report, left |-> words]]
      /\ outcome' = o /\ UNCHANGED link /\ UNCHANGED audience /\ UNCHANGED broker
      /\ unsure' = IF \E u \in Tasks : task[u] # AtRest THEN Audiences
                   ELSE unsure \ {words[i][1] : i \in DOMAIN words}
  BY <1>1 DEF Begin
<1>3. /\ o.last = report
      /\ o.final = IF report = "pending" THEN outcome.final ELSE report
      /\ o.finalized = IF report = "pending" \/ cut THEN outcome.finalized ELSE report
  OBVIOUS
<1>4. /\ words \in Seq(Pairs) /\ words # << >> /\ \A a : EndsRight(words, a, o)
      /\ Due(words, "merchant") /\ (report # "pending" => Due(words, "topic"))
      /\ report # "pending" /\ ~cut => \A a \in Audiences : Due(words, a)
  BY <1>3, WordsEndRight
<1>5. o \in [last : Reports \cup {"none"}, final : Finals, finalized : Finals]
  BY <1>1 DEF AnnounceInv, AnnounceTypeOK, Reports, Finals
<1> HIDE DEF words, o
<1>6. AnnounceTypeOK'
  BY <1>2, <1>4, <1>5 DEF AnnounceInv, AnnounceTypeOK
<1>7. \A u \in Tasks : task'[u] = IF u = t THEN [report |-> report, left |-> words] ELSE task[u]
  BY <1>2 DEF AnnounceInv, AnnounceTypeOK
<1>8. RightWords'
  <2>1. ASSUME NEW a \in Audiences, a \notin unsure'
        PROVE  /\ \A u \in Tasks : EndsRight(task'[u].left, a, o)
               /\ (\A u \in Tasks : ~Due(task'[u].left, a)) => Told(a, audience[a], o)
    <3>1. \A u \in Tasks : task[u] = AtRest
      BY <1>2, <2>1
    <3>2. \A u \in Tasks : task[u].left = << >>
      BY <3>1 DEF AtRest
    <3>3. DOMAIN << >> = {}
      OBVIOUS
    <3>4. \A u \in Tasks : EndsRight(task'[u].left, a, o)
      BY <1>4, <1>7, <3>2, <3>3 DEF EndsRight
    <3>5. ASSUME \A u \in Tasks : ~Due(task'[u].left, a) PROVE Told(a, audience[a], o)
      <4>1. ~Due(words, a)
        BY <1>7, <3>5
      <4>2. a # "merchant" /\ (report = "pending" \/ (cut /\ a # "topic"))
        BY <1>4, <2>1, <4>1
      <4>3. a \notin {words[i][1] : i \in DOMAIN words}
        BY <4>1 DEF Due
      <4>4. a \notin unsure
        BY <1>2, <2>1, <3>1, <4>3
      <4>5. \A u \in Tasks : ~Due(task[u].left, a)
        BY <3>2, <3>3 DEF Due
      <4>6. Told(a, audience[a], outcome)
        BY <4>4, <4>5 DEF AnnounceInv, RightWords
      <4> QED
        BY <1>3, <4>2, <4>6 DEF Told
    <3> QED
      BY <3>4, <3>5
  <2> QED
    BY <1>2, <2>1 DEF RightWords
<1>9. FirstCheckAwaited'
  BY <1>1, <1>2 DEF AnnounceInv, FirstCheckAwaited
<1> QED
  BY <1>6, <1>8, <1>9 DEF AnnounceInv

LEMMA CallKeeps ==
  ASSUME AnnounceInv, NEW t \in Tasks, NEW a \in Audiences, NEW connected \in BOOLEAN, Call(t, a, connected)
  PROVE  AnnounceInv'
<1> DEFINE left == task[t].left
           rest == Rest(left)
           word == Head(left)[2]
           next == IF Len(left) = 1 THEN AtRest ELSE [report |-> task[t].report, left |-> Tail(left)]
<1>1. /\ left # << >> /\ Head(left)[1] = a /\ UNCHANGED link /\ UNCHANGED outcome /\ UNCHANGED broker
      /\ task' = [task EXCEPT ![t] = next]
      /\ \/ audience' = [audience EXCEPT ![a] = word] /\ UNCHANGED unsure
         \/ unsure' = unsure \cup {a} /\ (UNCHANGED audience \/ audience' = [audience EXCEPT ![a] = word])
  <2>1. /\ left # << >> /\ Head(left)[1] = a /\ UNCHANGED link /\ UNCHANGED outcome /\ UNCHANGED broker
        /\ \/ connected /\ Heard(a, word)
           \/ Missed(a)
           \/ connected /\ audience' = [audience EXCEPT ![a] = word] /\ unsure' = unsure \cup {a}
    BY DEF Call
  <2>2. task' = [task EXCEPT ![t] = next]
    BY DEF Call
  <2>3. \/ audience' = [audience EXCEPT ![a] = word] /\ UNCHANGED unsure
        \/ unsure' = unsure \cup {a} /\ (UNCHANGED audience \/ audience' = [audience EXCEPT ![a] = word])
    BY <2>1, Zenon DEF Heard, Missed
  <2> QED
    BY <2>1, <2>2, <2>3
<1>2. task[t] \in [report : Reports \cup {"none"}, left : Seq(Pairs)] /\ left \in Seq(Pairs)
  BY DEF AnnounceInv, AnnounceTypeOK
<1>3. Head(left) = left[1] /\ left[1] \in Pairs
  BY <1>1, <1>2
<1>4. word \in Said /\ left[1][1] = a /\ word = left[1][2]
  BY <1>1, <1>3 DEF Pairs
<1>5. rest \in Seq(Pairs)
  BY <1>1, <1>2, RestIs
<1>6. next \in [report : Reports \cup {"none"}, left : Seq(Pairs)] /\ next.left = rest
  <2>1. CASE Len(left) = 1
    <3>1. next = [report |-> "none", left |-> << >>] /\ rest = << >>
      BY <2>1 DEF AtRest, Rest
    <3> HIDE DEF next, rest, left
    <3> QED
      BY <1>5, <3>1
  <2>2. CASE Len(left) # 1
    <3>1. next = [report |-> task[t].report, left |-> rest]
      BY <2>2 DEF Rest
    <3> HIDE DEF next, rest, left
    <3> QED
      BY <1>2, <1>5, <3>1
  <2> QED
    BY <2>1, <2>2
<1>7. \A x : /\ Due(left, x) <=> a = x \/ Due(rest, x)
             /\ EndsRight(left, x, outcome) => EndsRight(rest, x, outcome)
             /\ EndsRight(left, x, outcome) /\ a = x /\ ~Due(rest, x) => Told(x, word, outcome)
  BY <1>1, <1>2, <1>4, RestIsDue, RestEndsRight
<1> HIDE DEF next, rest, word
<1>8. AnnounceTypeOK'
  BY <1>1, <1>4, <1>6 DEF AnnounceInv, AnnounceTypeOK
<1>9. \A u \in Tasks : task'[u] = IF u = t THEN next ELSE task[u]
  BY <1>1 DEF AnnounceInv, AnnounceTypeOK
<1>10. \A x \in Audiences : x # a => audience'[x] = audience[x]
  BY <1>1 DEF AnnounceInv, AnnounceTypeOK
<1>11. RightWords'
  <2>1. ASSUME NEW x \in Audiences, x \notin unsure'
        PROVE  /\ \A u \in Tasks : EndsRight(task'[u].left, x, outcome)
               /\ (\A u \in Tasks : ~Due(task'[u].left, x)) => Told(x, audience'[x], outcome)
    <3>1. x \notin unsure
      BY <1>1, <2>1
    <3>2. /\ \A u \in Tasks : EndsRight(task[u].left, x, outcome)
          /\ (\A u \in Tasks : ~Due(task[u].left, x)) => Told(x, audience[x], outcome)
      BY <3>1 DEF AnnounceInv, RightWords
    <3>3. \A u \in Tasks : EndsRight(task'[u].left, x, outcome)
      BY <1>6, <1>7, <1>9, <3>2
    <3>4. ASSUME \A u \in Tasks : ~Due(task'[u].left, x) PROVE Told(x, audience'[x], outcome)
      <4>1. ~Due(rest, x)
        BY <1>6, <1>9, <3>4
      <4>2. CASE x = a
        <5>1. audience' = [audience EXCEPT ![a] = word]
          BY <1>1, <2>1, <4>2
        <5>2. audience'[x] = word
          BY <4>2, <5>1 DEF AnnounceInv, AnnounceTypeOK
        <5> QED
          BY <1>7, <3>2, <4>1, <4>2, <5>2
      <4>3. CASE x # a
        <5>1. \A u \in Tasks : ~Due(task[u].left, x)
          BY <1>7, <1>9, <3>4, <4>1, <4>3
        <5> QED
          BY <1>10, <3>2, <4>3, <5>1
      <4> QED
        BY <4>2, <4>3
    <3> QED
      BY <3>3, <3>4
  <2> QED
    BY <1>1, <2>1 DEF RightWords
<1>12. FirstCheckAwaited'
  BY <1>1, <1>9 DEF AnnounceInv, FirstCheckAwaited
<1> QED
  BY <1>8, <1>11, <1>12 DEF AnnounceInv

LEMMA RestartKeeps == ASSUME AnnounceInv, Restart PROVE AnnounceInv'
<1>1. /\ link' = Unlinked /\ UNCHANGED outcome /\ UNCHANGED audience /\ broker' \in BOOLEAN
      /\ task' = [t \in Tasks |-> AtRest]
      /\ unsure' = IF \A t \in Tasks : task[t] = AtRest THEN unsure ELSE Audiences
  BY DEF Restart
<1>2. << >> \in Seq(Pairs) /\ DOMAIN << >> = {}
  OBVIOUS
<1>3. \A t \in Tasks : task'[t].left = << >>
  BY <1>1 DEF AtRest
<1>4. AnnounceTypeOK'
  <2>1. task' \in [Tasks -> [report : Reports \cup {"none"}, left : Seq(Pairs)]]
    BY <1>1, <1>2 DEF AtRest
  <2>2. link' \in Links
    BY <1>1 DEF Unlinked, Links
  <2> QED
    BY <1>1, <2>1, <2>2 DEF AnnounceInv, AnnounceTypeOK
<1>5. RightWords'
  <2>1. ASSUME NEW a \in Audiences, a \notin unsure'
        PROVE  (\A t \in Tasks : EndsRight(task'[t].left, a, outcome)) /\ Told(a, audience[a], outcome)
    <3>1. a \notin unsure /\ \A t \in Tasks : task[t] = AtRest
      BY <1>1, <2>1
    <3>2. \A t \in Tasks : ~Due(task[t].left, a)
      BY <1>2, <3>1 DEF AtRest, Due
    <3>3. Told(a, audience[a], outcome)
      BY <3>1, <3>2 DEF AnnounceInv, RightWords
    <3> QED
      BY <1>2, <1>3, <3>3 DEF EndsRight
  <2> QED
    BY <1>1, <2>1 DEF RightWords
<1>6. FirstCheckAwaited'
  BY <1>1, <1>3 DEF FirstCheckAwaited, Unlinked
<1> QED
  BY <1>4, <1>5, <1>6 DEF AnnounceInv

LEMMA AnnounceInvEnough == ASSUME AnnounceInv PROVE AudiencesHear
<1>1. AudiencesAgree
  <2> SUFFICES ASSUME \A t \in Tasks : task[t] = AtRest
               PROVE  /\ outcome.final # "none" /\ "topic" \notin unsure =>
                           (audience.topic = "payment.succeeded") = (outcome.final = "paid")
                      /\ outcome.finalized # "none" /\ "board" \notin unsure =>
                           (audience.board = "payment_completed") = (outcome.finalized = "paid")
                      /\ outcome.last # "none" /\ "merchant" \notin unsure =>
                           (audience.merchant = "payment.succeeded") = (outcome.last = "paid")
    BY DEF AudiencesAgree
  <2>1. DOMAIN << >> = {}
    OBVIOUS
  <2>2. \A t \in Tasks : \A a : ~Due(task[t].left, a)
    BY <2>1 DEF AtRest, Due
  <2>3. \A a \in Audiences : a \notin unsure => Told(a, audience[a], outcome)
    BY <2>2 DEF AnnounceInv, RightWords
  <2>4. audience.topic = audience["topic"] /\ audience.board = audience["board"]
        /\ audience.merchant = audience["merchant"]
    OBVIOUS
  <2> QED
    BY <2>3, <2>4 DEF Told, Audiences
<1>2. SilentForCause
  <2>1. ASSUME NEW t \in Tasks, NEW i \in DOMAIN task[t].left PROVE link.connected \/ link.failed
    <3>1. task[t].left # << >>
      OBVIOUS
    <3> QED
      BY <3>1 DEF AnnounceInv, FirstCheckAwaited
  <2> QED
    BY <2>1 DEF SilentForCause
<1> QED
  BY <1>1, <1>2 DEF AudiencesHear

\* Topic, merchant and dashboard, as far as they could be reached, know the end of a payment as far as its handling
\* got, with finalizations that are cut short among them, and the communication service is only
\* silenced by a failed test of its link, for any number of reports in hand at once, of attempts to connect
\* and of restarts (updateTransactionStatus, finalizePaymentIntentFromTransaction, deliverMerchantWebhook).
THEOREM AudiencesAlwaysHear == AnnounceSpec => []AudiencesHear
<1>1. AnnounceInit => AnnounceInv
  BY AnnounceStarts
<1>2. AnnounceInv /\ [AnnounceNext]_announceVars => AnnounceInv'
  <2> SUFFICES ASSUME AnnounceInv, [AnnounceNext]_announceVars PROVE AnnounceInv'
    OBVIOUS
  <2>1. CASE UNCHANGED announceVars
    BY <2>1 DEF announceVars, AnnounceInv, AnnounceTypeOK, RightWords, FirstCheckAwaited
  <2>2. CASE TestPasses \/ TestFails \/ RetryDue \/ Restart
    BY <2>2, LinkKeeps, RestartKeeps
  <2>3. ASSUME NEW t \in Tasks, Publish(t) \/ DeliverWebhook(t) \/ Notify(t) \/ Broadcast(t)
        PROVE  AnnounceInv'
    <3>1. \E a \in Audiences, connected \in BOOLEAN : Call(t, a, connected)
      BY <2>3 DEF Publish, DeliverWebhook, Notify, Broadcast, Audiences, AnnounceInv, AnnounceTypeOK, Links
    <3> QED
      BY <3>1, CallKeeps
  <2>4. ASSUME NEW t \in Tasks, ReportComes(t) PROVE AnnounceInv'
    BY <2>4, ReportComesKeeps
  <2> QED
    BY <2>1, <2>2, <2>3, <2>4 DEF AnnounceNext
<1>3. AnnounceInv => AudiencesHear
  BY AnnounceInvEnough
<1> QED
  BY <1>1, <1>2, <1>3, PTL DEF AnnounceSpec
===============================================================================
