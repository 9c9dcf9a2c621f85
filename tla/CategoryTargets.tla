-------------------------- MODULE CategoryTargets --------------------------
(***************************************************************************)
(* The goals of one category (CategoryTargetsService, target-window.ts).   *)
(*                                                                         *)
(* A category keeps every goal it has run, one row per starting month, and *)
(* a month is shown the last goal started by then that had neither ended   *)
(* nor come due.  Setting reads that history under the category's row lock *)
(* and edits the live row, replaces this month's, or closes the live one   *)
(* and starts another; closing ends the shown one with this month.         *)
(*                                                                         *)
(* A request asks for the month and the active budget before it waits for  *)
(* the lock, and the rows it then reads are those of the budget active at  *)
(* that later moment: the month may turn, and the user may switch budgets, *)
(* in between.                                                             *)
(* Amounts are left out: nothing here depends on one.                      *)
(***************************************************************************)
EXTENDS Integers

CONSTANTS
  Last,        \* the months are 1..Last
  NoMonth,     \* no due month, or not ended
  Kinds,       \* the kinds of goal
  ByDate,      \* the one kind that has a due month
  NoGoal,      \* no row starts in this month
  Txs, NoTx    \* the requests under way, and the free lock

Months == 1..Last
Due(kind) == IF kind = ByDate THEN Months ELSE {NoMonth}
Goal == UNION {[kind : {k}, due : Due(k), end : Months \union {NoMonth}] : k \in Kinds}
SetRequests == UNION {[act : {"set"}, kind : {k}, due : Due(k)] : k \in Kinds}
Requests == SetRequests \union [act : {"close"}]

ASSUME MonthsAreNumbers == Last \in Nat /\ NoMonth \notin Int
ASSUME NoGoalIsNone == NoGoal \notin Goal
ASSUME NoTxIsNone == NoTx \notin Txs

VARIABLES
  goals,    \* committed rows by starting month
  hidden,   \* the category is hidden
  now,      \* the month the budget is living in
  home,     \* the category's budget is the active one
  lock,     \* who holds the category row FOR UPDATE
  pc, op,   \* where each request stands, and what it asked for
  clock,    \* the month each request read
  history,  \* the rows each request read
  answer,   \* what came of the request that ended last: nothing if refused or lost
  strays,   \* ghost: the open requests that read another budget's rows
  overtaken \* ghost: one of those has written, or one whose month had turned

vars == <<goals, hidden, now, home, lock, pc, op, clock, history, answer, strays, overtaken>>

Empty == [m \in Months |-> NoGoal]

Init ==
  /\ goals = Empty
  /\ hidden = FALSE
  /\ now \in Months
  /\ home = TRUE
  /\ lock = NoTx
  /\ pc = [t \in Txs |-> "idle"]
  /\ op = [t \in Txs |-> [act |-> "close"]]
  /\ clock = [t \in Txs |-> NoMonth]
  /\ history = [t \in Txs |-> Empty]
  /\ answer = "nothing"
  /\ strays = {} /\ overtaken = FALSE

-----------------------------------------------------------------------------
(* target-window.ts *)

Started(g, m) == {s \in Months : g[s] # NoGoal /\ s <= m}
NotDue(row, m) == row.due = NoMonth \/ m <= row.due
LastOf(S) == {s \in S : \A r \in S : r <= s}   \* lastStarted: at most one month

(* activeInMonth: the goal a month is shown. *)
ShownIn(g, m) == LastOf({s \in Started(g, m) :
                   (g[s].end = NoMonth \/ m <= g[s].end) /\ NotDue(g[s], m)})

(* liveTarget: the goal a write works on. *)
LiveIn(g, m) == LastOf({s \in Started(g, m) : g[s].end = NoMonth /\ NotDue(g[s], m)})

-----------------------------------------------------------------------------
At(t, here) == pc[t] = here
GoTo(t, there) == pc' = [pc EXCEPT ![t] = there]
Open(t) == pc[t] # "idle"

End(t, how) ==
  /\ GoTo(t, "idle")
  /\ op' = [op EXCEPT ![t] = [act |-> "close"]]
  /\ clock' = [clock EXCEPT ![t] = NoMonth]
  /\ history' = [history EXCEPT ![t] = Empty]
  /\ lock' = IF lock = t THEN NoTx ELSE lock
  /\ answer' = how
  /\ strays' = strays \ {t}

(* POST /categories/{id}/target and .../close, on the budget that is active then. *)
Ask(t, r) ==
  /\ At(t, "idle")
  /\ home
  /\ op' = [op EXCEPT ![t] = r]
  /\ GoTo(t, "enter")
  /\ UNCHANGED <<goals, hidden, now, home, lock, clock, history, answer, strays, overtaken>>

(* activeBudget(tx, intended.id) and the month it is living in. *)
Enter(t) ==
  /\ At(t, "enter")
  /\ \/ /\ home
        /\ clock' = [clock EXCEPT ![t] = now]
        /\ GoTo(t, "lock")
        /\ UNCHANGED <<lock, op, history, answer, strays>>
     \/ /\ ~home
        /\ End(t, "nothing")
  /\ UNCHANGED <<goals, hidden, now, home, overtaken>>

(* held.hiddenAt !== null; a hidden envelope is not given a goal. *)
Shut == hidden

NotAwaited == TRUE \* mutant of Free: the row is read without FOR UPDATE
Free == lock = NoTx

(* openCategory: the row lock, and the refusal of a hidden category. *)
TakeLock(t) ==
  /\ At(t, "lock")
  /\ Free
  /\ \/ /\ ~Shut
        /\ lock' = t
        /\ GoTo(t, "read")
        /\ UNCHANGED <<op, clock, history, answer, strays>>
     \/ /\ Shut
        /\ End(t, "nothing")
  /\ UNCHANGED <<goals, hidden, now, home, overtaken>>

(* What the scoped read returns: nothing when another budget is active by now. *)
Seen == IF home THEN goals ELSE Empty

(* DUE_MONTH_PAST and NO_TARGET. *)
Refused(r, g, m) == \/ r.act = "set" /\ r.due # NoMonth /\ r.due < m
                    \/ r.act = "close" /\ ShownIn(g, m) = {}

Read(t) ==
  /\ At(t, "read")
  /\ \/ /\ ~Refused(op[t], Seen, clock[t])
        /\ history' = [history EXCEPT ![t] = Seen]
        /\ GoTo(t, "write")
        /\ strays' = IF home THEN strays ELSE strays \union {t}
        /\ UNCHANGED <<lock, op, clock, answer>>
     \/ /\ Refused(op[t], Seen, clock[t])
        /\ End(t, "nothing")
  /\ UNCHANGED <<goals, hidden, now, home, overtaken>>

Edited(row, r) == [kind |-> r.kind, due |-> r.due, end |-> row.end]
Ended(row, m) == [row EXCEPT !.end = m]
NewRow(r) == [kind |-> r.kind, due |-> r.due, end |-> NoMonth]

(* targetWrite, edit: the live row started this month, or keeps its kind. *)
KeptAnyway(r, g, m) == LiveIn(g, m) \* mutant of Kept: whatever the kind
Kept(r, g, m) == {s \in LiveIn(g, m) : s = m \/ g[s].kind = r.kind}

(* targetWrite, closeAndCreate: the live row is an older goal of another kind. *)
Replaced(r, g, m) == LiveIn(g, m) \ Kept(r, g, m)

(* The last month a replaced goal is shown in. *)
LastMonthOf(m) == m - 1

(* The rows after a set, from the month and the history its request read. *)
AfterSet(r, g, m) ==
  [s \in Months |->
     CASE s \in Kept(r, g, m)     -> Edited(goals[s], r)
       [] s \in Replaced(r, g, m) -> Ended(goals[s], LastMonthOf(m))
       [] s = m /\ Kept(r, g, m) = {} -> NewRow(r)
       [] OTHER -> goals[s]]

\* mutant of AfterClose: a goal started this month is left running
AfterCloseOfOlder(g, m) ==
  [s \in Months |->
     IF s \in ShownIn(g, m) /\ s < m THEN Ended(goals[s], m) ELSE goals[s]]

(* The rows after a close. *)
AfterClose(g, m) ==
  [s \in Months |-> IF s \in ShownIn(g, m) THEN Ended(goals[s], m) ELSE goals[s]]

(* targetWrite, overwrite: no row is live, and the history read has one starting this month. *)
StartedIn(g, m) == g[m] # NoGoal

Overwrites(g, m) == LiveIn(g, m) = {} /\ StartedIn(g, m)

(* A row is inserted where the unique index on (category, starting month) has one. *)
Conflicts(r, g, m) ==
  r.act = "set" /\ Kept(r, g, m) = {} /\ ~Overwrites(g, m) /\ goals[m] # NoGoal

Overtaken(t) == t \in strays \/ clock[t] # now

Write(t) ==
  LET r == op[t]  g == history[t]  m == clock[t] IN
  /\ At(t, "write")
  /\ overtaken' = (overtaken \/ Overtaken(t))
  /\ \/ /\ Conflicts(r, g, m)
        /\ End(t, "conflict")
        /\ UNCHANGED goals
     \/ /\ ~Conflicts(r, g, m)
        /\ goals' = IF r.act = "set" THEN AfterSet(r, g, m) ELSE AfterClose(g, m)
        /\ End(t, "done")
  /\ UNCHANGED <<hidden, now, home>>

(* The transaction is lost; nothing of it stays. *)
GiveUp(t) ==
  /\ Open(t)
  /\ End(t, "nothing")
  /\ UNCHANGED <<goals, hidden, now, home, overtaken>>

-----------------------------------------------------------------------------
(* Hiding and unhiding take the same row lock (Envelopes has them in full). *)
Hide ==
  /\ lock = NoTx
  /\ hidden' = ~hidden
  /\ UNCHANGED <<goals, now, home, lock, pc, op, clock, history, answer, strays, overtaken>>

(* The month turns in the budget's timezone. *)
Tick ==
  /\ now < Last
  /\ now' = now + 1
  /\ UNCHANGED <<goals, hidden, home, lock, pc, op, clock, history, answer, strays, overtaken>>

(* Another budget is activated, or this one again: ActiveBudget's commit. *)
Switch ==
  /\ home' = ~home
  /\ UNCHANGED <<goals, hidden, now, lock, pc, op, clock, history, answer, strays, overtaken>>

Next ==
  \/ \E t \in Txs :
       \/ \E r \in Requests : Ask(t, r)
       \/ Enter(t) \/ TakeLock(t) \/ Read(t) \/ Write(t) \/ GiveUp(t)
  \/ Hide \/ Tick \/ Switch

Spec == Init /\ [][Next]_vars

-----------------------------------------------------------------------------
(* Every variable has its type. *)
TypeOK ==
  /\ goals \in [Months -> Goal \union {NoGoal}]
  /\ hidden \in BOOLEAN
  /\ now \in Months
  /\ home \in BOOLEAN
  /\ lock \in Txs \union {NoTx}
  /\ pc \in [Txs -> {"idle", "enter", "lock", "read", "write"}]
  /\ op \in [Txs -> Requests]
  /\ clock \in [Txs -> Months \union {NoMonth}]
  /\ history \in [Txs -> [Months -> Goal \union {NoGoal}]]
  /\ answer \in {"nothing", "done", "conflict"}
  /\ strays \in SUBSET Txs /\ overtaken \in BOOLEAN

(* The history stays (README of the api on changing a kind): no set and no close changes which
   goal a month already lived through is shown, or of what kind that goal was.  Here and below,
   until a request has written for a month that had turned or over another budget's history. *)
HistoryIsKept ==
  [][~overtaken' =>
       \A m \in Months : m < now =>
         /\ ShownIn(goals', m) = ShownIn(goals, m)
         /\ \A s \in ShownIn(goals, m) : goals'[s].kind = goals[s].kind]_vars

(* A closed goal "is still shown in that month and gone from the next one": when a close is
   answered no older goal comes back in a later month. *)
ClosedIsGone ==
  [][\A t \in Txs :
       /\ At(t, "write") /\ op[t].act = "close" /\ pc'[t] = "idle" /\ answer' = "done"
       /\ ~overtaken'
       => \A m \in Months : m > now => ShownIn(goals', m) = {}]_vars

(* Setting a goal closes the one before it, so a category runs at most one; and two requests
   setting one wait for each other rather than one of them failing on the index. *)
OneGoalRuns ==
  ~overtaken =>
    /\ \A r, s \in Started(goals, now) :
         /\ goals[r].end = NoMonth /\ NotDue(goals[r], now)
         /\ goals[s].end = NoMonth /\ NotDue(goals[s], now)
         => r = s
    /\ answer # "conflict"
=============================================================================
