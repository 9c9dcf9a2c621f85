----------------------------- MODULE BudgetView -----------------------------
(***************************************************************************)
(* One month of the budget screen (budget-view.query.ts, target-progress). *)
(*                                                                         *)
(* Nothing the screen shows is stored: what an envelope was given, spent   *)
(* and holds, what is ready to assign and what a goal asks of a month are  *)
(* sums over the records and the assignments, taken by one statement when  *)
(* a month is read.  The actions are the writes those sums are taken over, *)
(* one committed transaction each: a move of money in any month, a record  *)
(* in any month, and its removal.  A goal is one row, fixed here; how rows *)
(* replace one another is CategoryTargets.  Amounts are small integers:    *)
(* the columns are 64 bits wide, and their overflow is not modelled.       *)
(***************************************************************************)
EXTENDS Integers, FiniteSets, FiniteSetsExt

CONSTANTS
  Categories,  \* the envelopes of the active budget
  Pool,        \* Ready to Assign, and the category of a record that has none
  Last,        \* the months are 1..Last
  NoMonth,     \* no due month
  Ids, Absent, \* the records there may be, and one that is not there
  Given,       \* the amounts a move may carry
  Amounts,     \* the amounts a record may carry
  Goals,       \* the goal rows the envelopes may have, each a function of the category
  MaxWrites    \* bound: writes

Months == 1..Last
Kinds == {"REFILL_TO", "CONTRIBUTE", "BY_DATE", "ACCUMULATE"}
Record == [month : Months, category : Categories \union {Pool}, amount : Amounts]

ASSUME ViewAssumption ==
  /\ Last \in Nat /\ IsFiniteSet(Categories) /\ IsFiniteSet(Ids)
  /\ Pool \notin Categories /\ Absent \notin Record /\ NoMonth \notin Months
  /\ Given \union Amounts \subseteq Int

ASSUME GoalsAreRows ==
  \A f \in Goals, c \in Categories : LET g == f[c] IN
    /\ g.kind \in Kinds /\ g.amount \in Nat \ {0} /\ g.start \in Months
    /\ IF g.kind = "BY_DATE" THEN g.due \in g.start..Last ELSE g.due = NoMonth

VARIABLES
  assigned,  \* assignment.amount by category and month; no row is zero
  records,   \* the records by id
  goal,      \* each category's goal
  writes     \* how many writes there were

vars == <<assigned, records, goal, writes>>

Init ==
  /\ assigned = [c \in Categories |-> [m \in Months |-> 0]]
  /\ records = [i \in Ids |-> Absent]
  /\ goal \in Goals
  /\ writes = 0

-----------------------------------------------------------------------------
(* The sums of the statement, for a row of assignments a. *)

Filed(c, M) == {i \in Ids : records[i] # Absent /\ records[i].category = c /\ records[i].month \in M}
Spent(c, M) == SumFunction([i \in Filed(c, M) |-> records[i].amount])
Laid(a, M) == SumFunctionOnSet(a, M)

UptoTheEnd(m) == Months   \* mutant of Upto
Upto(m) == 1..m
Before(m) == 1..(m - 1)
After(m) == (m + 1)..Last
SinceStart(g, m) == g.start..m

Available(a, c, m) == Laid(a, Upto(m)) + Spent(c, Upto(m))
AvailableAllTime(a, c) == Laid(a, Months) + Spent(c, Months)
ReadyOfEveryRecord ==  \* mutant of ReadyToAssign
  Spent(Pool, Months) + SumFunction([c \in Categories |-> Spent(c, Months) - Laid(assigned[c], Months)])
ReadyToAssign ==
  Spent(Pool, Months) - SumFunction([c \in Categories |-> Laid(assigned[c], Months)])

(* active_target: a goal is shown from its start to the month it is due. *)
Shown(g, m) == g.start <= m /\ (g.due = NoMonth \/ m <= g.due)

-----------------------------------------------------------------------------
(* targetProgress *)

AtLeastZero(x) == IF x > 0 THEN x ELSE 0

Asks(total, laid, progress, remaining) ==
  [monthTarget |-> total, needed |-> AtLeastZero(total - laid),
   progress |-> progress, remaining |-> remaining]

CarriedIn(a, c, g) == Laid(a, Before(g.start)) + Spent(c, Before(g.start))
CarriedOver(a, c, m) == Available(a, c, m) - a[m] - Spent(c, {m})

OneMore(m, due) == due - m + 2   \* mutant of MonthsLeft
MonthsLeft(m, due) == IF due - m + 1 > 1 THEN due - m + 1 ELSE 1   \* monthsInclusive

RefillTo(a, c, g, m) ==
  LET over == CarriedOver(a, c, m)
      progress == over + a[m]
  IN Asks(AtLeastZero(g.amount - over), a[m], progress, AtLeastZero(g.amount - progress))

Contribute(a, g, m) == Asks(g.amount, a[m], a[m], AtLeastZero(g.amount - a[m]))

Saved(a, c, g, m) == CarriedIn(a, c, g) + Laid(a, SinceStart(g, m))

Accumulate(a, c, g, m) ==
  LET progress == Saved(a, c, g, m)
  IN Asks(0, 0, progress, AtLeastZero(g.amount - progress))   \* asks no month for anything

ByDate(a, c, g, m) ==
  LET progress == Saved(a, c, g, m)
      laid == a[m] + IF m = g.start THEN CarriedIn(a, c, g) ELSE 0
  IN Asks(AtLeastZero(g.amount - (progress - laid)) \div MonthsLeft(m, g.due), laid,
          progress, AtLeastZero(g.amount - progress))

Answer(a, c, g, m) ==
  CASE g.kind = "REFILL_TO"  -> RefillTo(a, c, g, m)
    [] g.kind = "CONTRIBUTE" -> Contribute(a, g, m)
    [] g.kind = "ACCUMULATE" -> Accumulate(a, c, g, m)
    [] g.kind = "BY_DATE"    -> ByDate(a, c, g, m)

(* What a category shows of a month: the month's own numbers, and two that are of all  *)
(* months, whichever is asked for.                                                     *)
OfTheMonth(c, m) ==
  [assigned |-> assigned[c][m], activity |-> Spent(c, {m}),
   available |-> Available(assigned[c], c, m),
   goal |-> IF Shown(goal[c], m) THEN Answer(assigned[c], c, goal[c], m) ELSE Absent]

Row(c, m) ==
  [ofTheMonth |-> OfTheMonth(c, m),
   readyToAssign |-> ReadyToAssign, availableAllTime |-> AvailableAllTime(assigned[c], c)]

-----------------------------------------------------------------------------
Write == writes < MaxWrites /\ writes' = writes + 1

(* MovesService.move: the two assignments of one month; the pool has none. *)
Move(from, to, m, amount) ==
  /\ Write
  /\ from # to
  /\ assigned' = [c \in Categories |-> [assigned[c] EXCEPT
                    ![m] = @ + (IF c = to THEN amount ELSE IF c = from THEN -amount ELSE 0)]]
  /\ UNCHANGED <<records, goal>>

(* TransactionsService.create and update: a record in any month, of any envelope. *)
Keep(i, r) ==
  /\ Write
  /\ records[i] # r
  /\ records' = [records EXCEPT ![i] = r]
  /\ UNCHANGED <<assigned, goal>>

Drop(i) ==
  /\ Write
  /\ records[i] # Absent
  /\ records' = [records EXCEPT ![i] = Absent]
  /\ UNCHANGED <<assigned, goal>>

Next ==
  \/ \E from, to \in Categories \union {Pool}, m \in Months, x \in Given : Move(from, to, m, x)
  \/ \E i \in Ids : Drop(i) \/ \E r \in Record : Keep(i, r)

Spec == Init /\ [][Next]_vars

-----------------------------------------------------------------------------
(* What is assigned once each month from m to k is given what its goal needs of it. *)
Followed(c, m) ==
  LET given[k \in (m - 1)..Last] ==
        IF k = m - 1 THEN assigned[c]
        ELSE [given[k - 1] EXCEPT ![k] = @ + Answer(given[k - 1], c, goal[c], k).needed]
  IN given

(* The months an even split of x over n months asks for: the smaller share first. *)
EvenShare(x, n, k) == x \div n + IF k > n - (x % n) THEN 1 ELSE 0

(* A user who gives every month what a goal by a date asks of it has the amount in the  *)
(* month it is due, from whatever month on and whatever was carried in, spent, taken    *)
(* back or skipped before; and with nothing set aside ahead no month is asked for more  *)
(* than a rounded share of the rest (the rounded-down division of target-progress.ts).  *)
SavesEvenly ==
  \A c \in Categories : goal[c].kind = "BY_DATE" =>
    \A m \in goal[c].start..goal[c].due :
      LET g == goal[c]
          given == Followed(c, m)
          n == g.due - m + 1
          first == Answer(assigned[c], c, g, m)
          rest == AtLeastZero(g.amount - first.progress + first.monthTarget - first.needed)
          ahead == first.needed = 0 \/ \E k \in (m + 1)..g.due : assigned[c][k] # 0
      IN /\ Answer(given[g.due], c, g, g.due).remaining = 0
         /\ ~ahead => \A k \in m..g.due :
              Answer(given[k - 1], c, g, k).monthTarget = EvenShare(rest, n, k - m + 1)

(* A write dated in one month leaves the months before it their own numbers: the sums  *)
(* stop at the month that is read, for goals as for envelopes.  Ready to Assign and    *)
(* what is available over all time are not the month's (budget-view.response.ts).      *)
PastKeepsItsNumbers ==
  [][\A m \in Months :
       (/\ \A c \in Categories, k \in 1..m : assigned'[c][k] = assigned[c][k]
        /\ \A i \in Ids : records'[i] # records[i] =>
             \A r \in {records[i], records'[i]} : r # Absent => r.month > m)
       => \A c \in Categories : OfTheMonth(c, m)' = OfTheMonth(c, m)]_vars

(* In every month all the money that arrived without an envelope, and what was recorded *)
(* on the envelopes so far, is in an envelope, ready to assign or assigned to a month   *)
(* still to come: an assignment of a later month lowers Ready to Assign at once.        *)
MoneyHasAJob ==
  \A m \in Months :
    ReadyToAssign + SumFunction([c \in Categories |-> Available(assigned[c], c, m)])
                  + SumFunction([c \in Categories |-> Laid(assigned[c], After(m))])
      = Spent(Pool, Months) + SumFunction([c \in Categories |-> Spent(c, Upto(m))])

(* What is still to be assigned for a goal to be met is nothing once nothing remains.  *)
NeededOnlyWhileUnmet ==
  \A c \in Categories, m \in Months :
    LET row == Row(c, m).ofTheMonth.goal IN row # Absent /\ row.remaining = 0 => row.needed = 0
=============================================================================
