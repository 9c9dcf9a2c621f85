-------------------------------- MODULE Feed --------------------------------
(* The feed of records: TransactionsService.list of the api and the         *)
(* infinite query of apps/web/src/components/money-flow.tsx that walks it.  *)
(* A page is read below a cursor, in two statements with no transaction     *)
(* round them; records are written, moved to another day and removed        *)
(* meanwhile, by this client or by another; a re-read walks as many pages   *)
(* again as are shown; and the reader reaches the edge of the list.         *)
(*                                                                          *)
(* A record is here while the filter of the feed takes it: one deleted, one *)
(* edited out of the filter and one whose account was archived are alike.   *)
EXTENDS Integers, FiniteSets, Sequences, SequencesExt, FiniteSetsExt

CONSTANTS
  Ids, Dates, Amounts,   \* finite sets of integers
  Made,                  \* the moment a record was created, equal ones included
  PageSize,
  MaxWrites,             \* bound: writes
  MaxReads,              \* bound: fetches begun
  Elsewhere              \* another client of the same person writes too

ASSUME FeedAssumption ==
  /\ IsFiniteSet(Ids) /\ Ids \cup Dates \cup Amounts \subseteq Int
  /\ Made \in [Ids -> Nat] /\ PageSize \in Nat \ {0}
  /\ {MaxWrites, MaxReads} \subseteq Nat /\ Elsewhere \in BOOLEAN

VARIABLES
  rows,       \* the records the filter takes, Gone for the others
  version,    \* writes so far
  shown,      \* the pages on the screen
  fetch,      \* the fetch under way
  behind,     \* the last re-read failed
  waiting,    \* the version of the own write not answered yet, perhaps never
  owing,      \* answers whose re-read of the list is still to come
  due,        \* ghost: the version of the last own write answered
  missed,     \* ghost: the last re-read asked for was not one of its own
  reads       \* fetches begun

feedVars == <<rows, version, shown, fetch, behind, waiting, owing, due, missed, reads>>

Gone == [date |-> 0, amount |-> 0]
Rows == [date : Dates, amount : Amounts]
Here(t) == {i \in Ids : t[i] # Gone}
Copy(t, i) == [id |-> i, date |-> t[i].date, made |-> Made[i], amount |-> t[i].amount]

(* orderBy: date, createdAt and id, all descending. *)
Newer(x, y) ==
  \/ x.date > y.date
  \/ x.date = y.date /\ x.made > y.made
  \/ x.date = y.date /\ x.made = y.made /\ x.id > y.id

(* A walk: the pages read so far, and as ghosts the version its first page  *)
(* was read at and the records and days written since.                      *)
NoWalk == [pages |-> <<>>, at |-> 0, moved |-> {}, stirred |-> {}]
NoFetch == [kind |-> "none", want |-> 0, walk |-> NoWalk, page |-> <<>>, step |-> "rows"]
NoCursor == [id |-> 0, date |-> 0, made |-> 0, amount |-> 0]

RowsOf(walk) == FlattenSeq([n \in DOMAIN walk.pages |-> walk.pages[n].rows])
NextOf(walk) == IF walk.pages = <<>> THEN NoCursor ELSE Last(walk.pages).next
HasNextPage == shown.pages # <<>> /\ NextOf(shown) # NoCursor

FeedInit ==
  /\ rows \in [Ids -> Rows \cup {Gone}]
  /\ version = 0 /\ shown = NoWalk
  /\ fetch = [NoFetch EXCEPT !.kind = "reread", !.want = 1]
  /\ behind = FALSE /\ waiting = 0 /\ owing = 0 /\ due = 0 /\ missed = FALSE /\ reads = 1

-----------------------------------------------------------------------------
(* The records. *)

Stirred(walk, i, row) ==
  [walk EXCEPT !.moved = @ \cup {i}, !.stirred = @ \cup {rows[i].date, row.date}]

(* A create, an edit or a removal commits. *)
Write(i, row, own) ==
  /\ version < MaxWrites /\ row # rows[i]
  /\ own \/ Elsewhere
  /\ own => waiting = 0
  /\ rows' = [rows EXCEPT ![i] = row]
  /\ version' = version + 1
  /\ waiting' = IF own THEN version + 1 ELSE waiting
  /\ shown' = Stirred(shown, i, row)
  /\ fetch' = IF fetch = NoFetch THEN fetch ELSE [fetch EXCEPT !.walk = Stirred(@, i, row)]
  /\ UNCHANGED <<behind, owing, due, missed, reads>>

-----------------------------------------------------------------------------
(* The query.  A re-read asked for by an answer cancels the fetch under way *)
(* and so does the next page: invalidateQueries, and fetchNextPage.  Until  *)
(* there is a page to show it joins the fetch under way instead, which may  *)
(* have read its rows already.                                              *)

Begin(f) == reads < MaxReads /\ reads' = reads + 1 /\ fetch' = f

Rereading ==
  [NoFetch EXCEPT !.kind = "reread",
                  !.want = IF shown.pages = <<>> THEN 1 ELSE Len(shown.pages)]

JoinedReread == \* mutant of Reread
  IF fetch = NoFetch THEN Begin(Rereading) /\ missed' = FALSE
                     ELSE UNCHANGED <<fetch, missed, reads>>
Reread ==
  IF fetch # NoFetch /\ shown.pages = <<>>
    THEN missed' = TRUE /\ UNCHANGED <<fetch, reads>>
    ELSE missed' = FALSE /\ Begin(Rereading)

(* settled, and save of the form for a new record: rereadEntries waits for  *)
(* the accounts and the view to be read again before it comes to the list.  *)
Answer ==
  /\ waiting # 0 /\ waiting' = 0 /\ due' = waiting
  /\ owing' = owing + 1
  /\ UNCHANGED <<rows, version, shown, fetch, behind, missed, reads>>

RereadList ==
  /\ owing # 0 /\ owing' = owing - 1
  /\ Reread
  /\ UNCHANGED <<rows, version, shown, behind, waiting, due>>

(* The window comes back into focus: stale figures are read again.          *)
Focus ==
  /\ fetch = NoFetch /\ Reread
  /\ UNCHANGED <<rows, version, shown, behind, waiting, owing, due>>

(* The watcher of the edge: hasNextPage and not isFetchingNextPage, so it   *)
(* cuts a re-read off.                                                      *)
ReachEdge ==
  /\ HasNextPage /\ fetch.kind # "next"
  /\ Begin([kind |-> "next", want |-> Len(shown.pages) + 1, walk |-> shown,
            page |-> <<>>, step |-> "rows"])
  /\ missed' = (missed \/ fetch.kind = "reread")
  /\ UNCHANGED <<rows, version, shown, behind, waiting, owing, due>>

-----------------------------------------------------------------------------
(* TransactionsService.list, one statement for the rows and one for the     *)
(* totals of their days.                                                    *)

OlderByDay(c, x) == c.date > x.date      \* mutant of OlderThan
OlderThan(c, x) == Newer(c, x)

InOrder(copies) ==
  CHOOSE s \in [1..Cardinality(copies) -> copies] :
    \A m, n \in DOMAIN s : m < n => Newer(s[m], s[n])

Found(cursor) ==
  LET under == {i \in Here(rows) : cursor = NoCursor \/ OlderThan(cursor, Copy(rows, i))}
      sorted == InOrder({Copy(rows, i) : i \in under})
  IN SubSeq(sorted, 1, IF Len(sorted) > PageSize THEN PageSize + 1 ELSE Len(sorted))

CutShort(found) == SubSeq(found, 1, PageSize)
CursorOf(found) == IF Len(found) > PageSize THEN found[PageSize] ELSE NoCursor

PageOf(found) ==
  [rows |-> IF Len(found) > PageSize THEN CutShort(found) ELSE found,
   next |-> CursorOf(found), days |-> <<>>]

(* findMany *)
ReadRows ==
  /\ fetch # NoFetch /\ fetch.step = "rows"
  /\ LET walk == IF fetch.walk.pages = <<>> THEN [NoWalk EXCEPT !.at = version] ELSE fetch.walk
     IN fetch' = [fetch EXCEPT !.walk = walk, !.step = "totals",
                               !.page = PageOf(Found(NextOf(walk)))]
  /\ UNCHANGED <<rows, version, shown, behind, waiting, owing, due, missed, reads>>

SumOf(copies) == FoldSet(LAMBDA x, sum : x.amount + sum, 0, copies)

(* Every day the page runs over, whole, whatever part of it the page holds. *)
TotalsOfThePage(page) == \* mutant of TotalsOf
  [d \in {x.date : x \in Range(page.rows)} |->
     SumOf({x \in Range(page.rows) : x.date = d})]
TotalsOf(page) ==
  LET first == page.rows[1].date
      last == Last(page.rows).date
      held == {Copy(rows, i) : i \in {j \in Here(rows) : rows[j].date \in last..first}}
  IN [d \in {x.date : x \in held} |-> SumOf({x \in held : x.date = d})]

(* groupBy, and the page lands: the walk goes on until it has as many pages *)
(* as it wants or the feed has ended, and is shown when it is whole.        *)
ReadTotals ==
  /\ fetch.step = "totals"
  /\ LET page == [fetch.page EXCEPT !.days = IF fetch.page.rows = <<>> THEN <<>>
                                            ELSE TotalsOf(fetch.page)]
         walk == [fetch.walk EXCEPT !.pages = Append(@, page)]
     IN IF Len(walk.pages) < fetch.want /\ page.next # NoCursor
          THEN /\ fetch' = [fetch EXCEPT !.walk = walk, !.step = "rows", !.page = <<>>]
               /\ UNCHANGED <<shown, behind>>
          ELSE /\ fetch' = NoFetch /\ shown' = walk
               /\ behind' = (behind /\ fetch.kind = "next")
  /\ UNCHANGED <<rows, version, waiting, owing, due, missed, reads>>

Fail ==
  /\ fetch # NoFetch /\ fetch' = NoFetch
  /\ behind' = (behind \/ fetch.kind = "reread")
  /\ UNCHANGED <<rows, version, shown, waiting, owing, due, missed, reads>>

FeedNext ==
  \/ \E i \in Ids, row \in Rows \cup {Gone}, own \in BOOLEAN : Write(i, row, own)
  \/ Answer \/ RereadList \/ Focus \/ ReachEdge
  \/ ReadRows \/ ReadTotals \/ Fail

FeedSpec == FeedInit /\ [][FeedNext]_feedVars

-----------------------------------------------------------------------------
(* feedDays: runs of records of one day, with the first total found for it. *)
FeedDays(walk) ==
  LET all == RowsOf(walk)
      opens == {n \in DOMAIN all : n = 1 \/ all[n - 1].date # all[n].date}
  IN {[date |-> all[n].date, at |-> n] : n \in opens}

TotalOf(walk, d) ==
  LET with == {n \in DOMAIN walk.pages : d \in DOMAIN walk.pages[n].days}
  IN IF with = {} THEN 0 ELSE walk.pages[Min(with)].days[d]

Steady(walk) == Here(rows) \ walk.moved

(* A page boundary neither repeats a record nor skips one that nobody wrote *)
(* to since the first page was read, whatever became of the others: those   *)
(* a cursor names included.                                                 *)
SteadyRowsOnce ==
  LET all == RowsOf(shown) IN
  \A i \in Steady(shown) :
    LET places == {n \in DOMAIN all : all[n].id = i} IN
    /\ Cardinality(places) <= 1
    /\ shown.pages # <<>> /\ (NextOf(shown) = NoCursor \/ Newer(Copy(rows, i), NextOf(shown)))
         => places # {}

(* The total of a day is that of the whole day under the filter, however    *)
(* the day is cut into pages, unless one of its records was written to.     *)
WholeDays ==
  \A d \in {x.date : x \in FeedDays(shown)} \ shown.stirred :
    TotalOf(shown, d) = SumOf({Copy(rows, i) : i \in {j \in Here(rows) : rows[j].date = d}})

(* At rest the feed holds every write its reader was answered for, unless   *)
(* the re-read that followed joined the first loading, or the reader cut it *)
(* off at the edge of the list.                                             *)
AtRest == fetch = NoFetch /\ waiting = 0 /\ owing = 0 /\ ~behind /\ ~missed
CaughtUp == AtRest => shown.at >= due

(* At rest, and with nobody else writing, no record is listed twice.        *)
RowsOnceAtRest ==
  AtRest => \A m, n \in DOMAIN RowsOf(shown) :
              RowsOf(shown)[m].id = RowsOf(shown)[n].id => m = n
=============================================================================
