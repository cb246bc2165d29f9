------------------------------- MODULE Paging -------------------------------
(***************************************************************************)
(* A listing read page by page while its rows change: the keyset queries   *)
(* of the content listing, sorted by updated_at, and of the media library, *)
(* sorted by created_at; the cursors between them; and the pages the       *)
(* administration interface holds.                                         *)
(*                                                                         *)
(* PostgreSQL keeps an instant to the microsecond.  Two ticks of the clock *)
(* here are a millisecond, which is as fine as a Date, and so a cursor, is. *)
(* The query cache, with its pages and its refetches, is external.         *)
(***************************************************************************)
EXTENDS Naturals, Sequences, FiniteSets

CONSTANTS
  Ids,          \* rows; an id breaks a tie, and says nothing of an age
  PageSize,
  MaxInstant    \* bound: the clock

VARIABLES
  column,    \* what the listing is sorted by: "updated_at" or "created_at"
  table,     \* the rows: the instant of each, Unborn or Gone
  instant,   \* the clock
  uploaded,  \* the answers to this screen's uploads, still on their way
  pages,     \* what the screen holds: [rows, next] for each page
  flight,    \* the request under way: the pages it has read, and what it is for
  steady     \* rows that were there, untouched, since the first page was read

pagingVars == <<column, table, instant, uploaded, pages, flight, steady>>

Unborn == MaxInstant + 1
Gone   == MaxInstant + 2
AtEnd == MaxInstant + 3   \* the cursor of a last page, which is none
AtHead  == MaxInstant + 4   \* the cursor of a first page, which is none

Present  == {d \in Ids : table[d] \notin {Unborn, Gone}}
Ms(t)    == 2 * (t \div 2)

-----------------------------------------------------------------------------
(* The server: one query, and the cursor of the page after it.             *)

Before(a, b) == a.at > b.at \/ (a.at = b.at /\ a.id > b.id)

Entries == {[at |-> table[d], id |-> d] : d \in Present}

\* (column, id) < (cursor.at, cursor.id)
After(cursor) == {e \in Entries : cursor.at = AtHead \/ Before(cursor, e)}

InOrderOf(S) ==
  [k \in 1..Cardinality(S) |-> CHOOSE e \in S : Cardinality({o \in S : Before(o, e)}) = k - 1]

NoCursor == [at |-> AtEnd, id |-> 0]
Top == [at |-> AtHead, id |-> 0]

\* Mutant: the cursor names the row that only says there is another page.
CursorOfExtra(rows) == [at |-> Ms(rows[PageSize + 1].at), id |-> rows[PageSize + 1].id]

\* The last row of the page, its instant as a Date holds it.
CursorOf(rows) == [at |-> Ms(rows[PageSize].at), id |-> rows[PageSize].id]

\* One row more than a page tells whether there is another.
PageAfter(cursor) ==
  LET found == After(cursor)
      rows  == InOrderOf(found)
  IN [rows |-> SubSeq(rows, 1, IF Len(rows) < PageSize THEN Len(rows) ELSE PageSize),
      next |-> IF Cardinality(found) > PageSize THEN CursorOf(rows) ELSE NoCursor]

-----------------------------------------------------------------------------
(* Writes.  One that concerns a row ends its being steady.                 *)

Touched(d) == /\ steady' = steady \ {d}
              /\ flight' = [flight EXCEPT !.steady = @ \ {d}]

\* The default of both columns is the database's now().
InsertRow(d) == /\ table[d] = Unborn
                /\ table' = [table EXCEPT ![d] = instant]

Create(d) ==
  /\ InsertRow(d)
  /\ UNCHANGED <<column, instant, uploaded, pages, flight, steady>>

\* A save, and the publish pass, set updated_at to a Date.
Save(d) ==
  /\ column = "updated_at" /\ d \in Present
  /\ table' = [table EXCEPT ![d] = Ms(instant)]
  /\ Touched(d)
  /\ UNCHANGED <<column, instant, uploaded, pages>>

Delete(d) ==
  /\ d \in Present
  /\ table' = [table EXCEPT ![d] = Gone]
  /\ Touched(d)
  /\ UNCHANGED <<column, instant, uploaded, pages>>

UploadRow(d) ==
  /\ column = "created_at"
  /\ InsertRow(d)
  /\ uploaded' = uploaded \union {[at |-> instant, id |-> d]}
  /\ UNCHANGED <<column, instant, pages, flight, steady>>

Elapse ==
  /\ instant < MaxInstant
  /\ instant' = instant + 1
  /\ UNCHANGED <<column, table, uploaded, pages, flight, steady>>

-----------------------------------------------------------------------------
(* The screen.                                                             *)

Landed == [kind |-> "none", read |-> <<>>, steady |-> {}]

\* Opening the screen, and fetching again what it shows.
Fetch ==
  /\ flight.kind = "none"
  /\ flight' = [kind |-> "all", read |-> <<>>, steady |-> Present]
  /\ UNCHANGED <<column, table, instant, uploaded, pages, steady>>

\* "Load more", disabled while a page is on its way.
LoadMore ==
  /\ flight.kind = "none" /\ pages # <<>> /\ pages[Len(pages)].next # NoCursor
  /\ flight' = [kind |-> "more", read |-> <<>>, steady |-> steady]
  /\ UNCHANGED <<column, table, instant, uploaded, pages, steady>>

\* Where the request goes on from.  One that starts over stops when it has read as
\* many pages as there were.
Goal   == IF flight.kind = "all" THEN IF pages = <<>> THEN 1 ELSE Len(pages) ELSE 1
Cursor == IF flight.read # <<>> THEN flight.read[Len(flight.read)].next
          ELSE IF flight.kind = "all" THEN Top ELSE pages[Len(pages)].next
ReadAll == flight.read # <<>> /\ (Len(flight.read) = Goal \/ Cursor = NoCursor)

ReadPage ==
  /\ flight.kind # "none" /\ ~ReadAll
  /\ flight' = [flight EXCEPT !.read = Append(@, PageAfter(Cursor)),
                              !.steady = IF Cursor = Top THEN Present ELSE @]
  /\ UNCHANGED <<column, table, instant, uploaded, pages, steady>>

PagesLand ==
  /\ flight.kind # "none" /\ ReadAll
  /\ pages' = IF flight.kind = "all" THEN flight.read ELSE pages \o flight.read
  /\ steady' = flight.steady
  /\ flight' = Landed
  /\ UNCHANGED <<column, table, instant, uploaded>>

ReadFails ==
  /\ flight.kind # "none"
  /\ flight' = Landed
  /\ UNCHANGED <<column, table, instant, uploaded, pages, steady>>

\* The asset goes to the top of the first page; the cursors stay.
UploadAnswered(asset) ==
  /\ uploaded' = uploaded \ {asset}
  /\ pages' = IF pages = <<>> THEN pages
              ELSE [pages EXCEPT ![1].rows = <<asset>> \o @]
  /\ UNCHANGED <<column, table, instant, flight, steady>>

-----------------------------------------------------------------------------

PagingInit ==
  /\ column \in {"updated_at", "created_at"}
  /\ table \in [Ids -> {0, Unborn}] /\ instant = 0
  /\ uploaded = {} /\ pages = <<>> /\ flight = Landed /\ steady = {}

PagingNext ==
  \/ \E d \in Ids : Create(d) \/ Save(d) \/ Delete(d) \/ UploadRow(d)
  \/ \E asset \in uploaded : UploadAnswered(asset)
  \/ Elapse
  \/ Fetch \/ LoadMore \/ ReadPage \/ PagesLand \/ ReadFails

PagingSpec == PagingInit /\ [][PagingNext]_pagingVars

-----------------------------------------------------------------------------
(* Properties.                                                             *)

Shown == UNION {{pages[p].rows[k].id : k \in DOMAIN pages[p].rows} : p \in DOMAIN pages}

AtTheEnd == pages # <<>> /\ pages[Len(pages)].next = NoCursor

\* A reader who reached the end was shown every row that nobody touched, whatever
\* was created, saved, uploaded or deleted between two pages, and however often the
\* pages were fetched again: but for one that shares its millisecond with the last
\* row of a page (listContents, listMedia and the cursors).  That exception is the
\* code's and not what it says: cursor.ts:10-16 has the page after a row be the same
\* page whatever moved, and the id break the tie so that no row is lost.  The column
\* carries microseconds and the cursor milliseconds, so rows that tie in the cursor
\* need not tie in the order, and the comparison by id never meets them.
SteadyRowsAreShown ==
  AtTheEnd => \A d \in steady \ Shown :
    \E p \in DOMAIN pages :
      /\ pages[p].rows # <<>>
      /\ Ms(pages[p].rows[Len(pages[p].rows)].at) = Ms(table[d])

\* Pages follow one another: whatever moved, what a page shows comes strictly after
\* what the pages before it showed, as they showed it.
PagesFollow ==
  column = "updated_at" =>
    \A p \in DOMAIN pages : \A q \in 1..p : \A k \in DOMAIN pages[p].rows, l \in DOMAIN pages[q].rows :
      (q < p \/ l < k) => Before(pages[q].rows[l], pages[p].rows[k])

\* A listing that is read while it changes shows what did not change, in order (listContents,
\* listMedia).
ListingsHold == PagesFollow /\ SteadyRowsAreShown
=============================================================================
