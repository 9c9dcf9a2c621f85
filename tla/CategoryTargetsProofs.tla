----------------------- MODULE CategoryTargetsProofs -----------------------
(***************************************************************************)
(* The goals of a category, for any number of months, kinds and requests,  *)
(* until a request has written for a month that had turned or over another *)
(* budget's history.                                                       *)
(*                                                                         *)
(* The row lock makes the history a request read the history it writes     *)
(* over, unless it strayed into another budget (ReadInv).  The heart is LastRuns: only the last goal started can  *)
(* be running, so the live row a set works on is the only one there is,    *)
(* and the row a close ends is the one that would otherwise come back.     *)
(***************************************************************************)
EXTENDS CategoryTargets, TLAPS

Running(g, s, m) == g[s].end = NoMonth /\ NotDue(g[s], m)

LockInv == \A t \in Txs : pc[t] \in {"read", "write"} <=> lock = t

ClockInv == \A t \in Txs : pc[t] \in {"lock", "read", "write"} =>
                           clock[t] \in Months /\ clock[t] <= now

ReadInv == \A t \in Txs : /\ pc[t] \in {"read", "write"} => ~hidden
                          /\ pc[t] = "write" =>
                               /\ history[t] = goals \/ (history[t] = Empty /\ t \in strays)
                               /\ ~Refused(op[t], history[t], clock[t])

(* Nothing starts or ends in a month to come. *)
Past(g) == \A s \in Months : g[s] # NoGoal =>
             s <= now /\ (g[s].end = NoMonth \/ g[s].end <= now)

LastRuns(g) == \A r, s \in Months :
                 g[r] # NoGoal /\ g[s] # NoGoal /\ Running(g, s, now) => r <= s

RowsInv == ~overtaken => Past(goals) /\ LastRuns(goals) /\ answer # "conflict"

IInv == TypeOK /\ LockInv /\ ClockInv /\ ReadInv /\ RowsInv

Rows == [Months -> Goal \union {NoGoal}]

(* What a request that is not overtaken finds. *)
Sound == goals \in Rows /\ now \in Months /\ Past(goals) /\ LastRuns(goals)

(* What a row is made of. *)
LEMMA GoalFields ==
  ASSUME NEW g \in Goal
  PROVE  /\ g.due \in Months \union {NoMonth}
         /\ g.end \in Months \union {NoMonth}
<1>1. PICK k \in Kinds : g \in [kind : {k}, due : Due(k), end : Months \union {NoMonth}]
  BY DEF Goal
<1> QED BY <1>1 DEF Due

(* A row stays one when it ends. *)
LEMMA EndedFields ==
  ASSUME NEW g \in Goal, NEW m \in Months
  PROVE  /\ Ended(g, m) \in Goal
         /\ Ended(g, m).kind = g.kind /\ Ended(g, m).due = g.due /\ Ended(g, m).end = m
<1>1. PICK k \in Kinds : g \in [kind : {k}, due : Due(k), end : Months \union {NoMonth}]
  BY DEF Goal
<1>2. Ended(g, m) = [kind |-> g.kind, due |-> g.due, end |-> m]
  BY <1>1 DEF Ended
<1>3. Ended(g, m) \in [kind : {k}, due : Due(k), end : Months \union {NoMonth}]
  BY <1>1, <1>2
<1> QED BY <1>2, <1>3 DEF Goal

(* And when it is edited. *)
LEMMA EditedFields ==
  ASSUME NEW g \in Goal, NEW r \in SetRequests
  PROVE  /\ Edited(g, r) \in Goal
         /\ Edited(g, r).kind = r.kind /\ Edited(g, r).due = r.due /\ Edited(g, r).end = g.end
<1>1. PICK k \in Kinds : g \in [kind : {k}, due : Due(k), end : Months \union {NoMonth}]
  BY DEF Goal
<1>2. PICK j \in Kinds : r.kind = j /\ r.due \in Due(j)
  BY DEF SetRequests
<1>3. Edited(g, r) = [kind |-> r.kind, due |-> r.due, end |-> g.end]
  BY <1>1 DEF Edited
<1>4. Edited(g, r) \in [kind : {j}, due : Due(j), end : Months \union {NoMonth}]
  BY <1>1, <1>2, <1>3
<1> QED BY <1>3, <1>4 DEF Goal

(* What a request to set asks for, and the row it makes. *)
LEMMA SetFields ==
  ASSUME NEW r \in SetRequests
  PROVE  /\ r.act = "set" /\ r.due \in Months \union {NoMonth}
         /\ NewRow(r) \in Goal /\ NewRow(r).end = NoMonth
         /\ NewRow(r).due = r.due /\ NewRow(r).kind = r.kind
<1>1. PICK j \in Kinds : r \in [act : {"set"}, kind : {j}, due : Due(j)]
  BY DEF SetRequests
<1>2. NewRow(r) = [kind |-> r.kind, due |-> r.due, end |-> NoMonth]
  BY DEF NewRow
<1>3. NewRow(r) \in [kind : {j}, due : Due(j), end : Months \union {NoMonth}]
  BY <1>1, <1>2
<1> QED BY <1>1, <1>2, <1>3 DEF Goal, Due

(* While only the last goal can run, the live one is whichever runs. *)
LEMMA LiveIsRunning ==
  ASSUME NEW g \in Rows, now \in Months, Past(g), LastRuns(g)
  PROVE  /\ LiveIn(g, now) = {s \in Months : g[s] # NoGoal /\ Running(g, s, now)}
         /\ \A s \in LiveIn(g, now) : \A r \in Months : g[r] # NoGoal => r <= s
<1>1. ASSUME NEW s \in Months, g[s] # NoGoal, Running(g, s, now) PROVE s \in LiveIn(g, now)
  BY <1>1 DEF LiveIn, LastOf, Started, Past, LastRuns, Running
<1>2. ASSUME NEW s \in LiveIn(g, now)
      PROVE  s \in Months /\ g[s] # NoGoal /\ Running(g, s, now)
  BY <1>2 DEF LiveIn, LastOf, Started, Running
<1> QED BY <1>1, <1>2 DEF LastRuns

(* No set of a judged request meets the unique index. *)
LEMMA NoConflict ==
  ASSUME Sound, NEW r \in Requests
  PROVE  ~Conflicts(r, goals, now)
<1> SUFFICES ASSUME Conflicts(r, goals, now) PROVE FALSE
  OBVIOUS
<1>1. goals \in Rows /\ now \in Months /\ Past(goals) /\ LastRuns(goals)
  BY DEF Sound
<1>2. goals[now] # NoGoal /\ LiveIn(goals, now) # {} /\ Kept(r, goals, now) = {}
  BY DEF Conflicts, Overwrites, StartedIn
<1>3. PICK s \in LiveIn(goals, now) : s # now
  BY <1>2 DEF Kept
<1>4. now <= s /\ s <= now /\ s \in Months
  BY <1>1, <1>2, <1>3, LiveIsRunning DEF Past
<1> QED BY <1>1, <1>3, <1>4 DEF Months

(* What a set does to each row. *)
LEMMA SetRow ==
  ASSUME Sound, NEW r \in SetRequests, ~Refused(r, goals, now)
  PROVE  LET new == AfterSet(r, goals, now) IN
         /\ new \in Rows
         /\ \A s \in Months :
              \/ /\ s \in Kept(r, goals, now) /\ goals[s] # NoGoal /\ Running(goals, s, now)
                 /\ new[s] # NoGoal
                 /\ new[s].kind = r.kind /\ new[s].due = r.due /\ new[s].end = NoMonth
                 /\ s # now => goals[s].kind = r.kind
              \/ /\ Kept(r, goals, now) = {}
                 /\ s # now /\ goals[s] # NoGoal /\ Running(goals, s, now)
                 /\ new[s] # NoGoal
                 /\ new[s].kind = goals[s].kind /\ new[s].due = goals[s].due
                 /\ new[s].end = now - 1 /\ now - 1 \in Months
              \/ s = now /\ Kept(r, goals, now) = {} /\ new[s] = NewRow(r)
              \/ /\ new[s] = goals[s]
                 /\ goals[s] # NoGoal => ~Running(goals, s, now)
                 /\ s = now => Kept(r, goals, now) # {}
<1> DEFINE new == AfterSet(r, goals, now)
           K == Kept(r, goals, now)
           R == Replaced(r, goals, now)
<1>1. goals \in Rows /\ now \in Months /\ Past(goals) /\ LastRuns(goals)
  BY DEF Sound
<1>2. LiveIn(goals, now) = {s \in Months : goals[s] # NoGoal /\ Running(goals, s, now)}
  BY <1>1, LiveIsRunning
<1>3. \A s \in LiveIn(goals, now) : \A q \in Months : goals[q] # NoGoal => q <= s
  BY <1>1, LiveIsRunning
<1>4. \A s, q \in LiveIn(goals, now) : s = q
  BY <1>2, <1>3 DEF Months
<1>5. K = {} \/ R = {}
  BY <1>4 DEF Kept, Replaced
<1>6. \A s \in R : s # now /\ now - 1 \in Months
  <2>1. ASSUME NEW s \in R PROVE s \in LiveIn(goals, now) /\ s # now
    BY <2>1 DEF Kept, Replaced
  <2>2. ASSUME NEW s \in R PROVE s \in 1..Last /\ s <= now
    BY <1>1, <1>2, <2>1, <2>2 DEF Past, Months
  <2> QED BY <1>1, <2>1, <2>2, MonthsAreNumbers DEF Months
<1>a. r.due \in Months \union {NoMonth} /\ NewRow(r) \in Goal
  BY SetFields
<1>7. ASSUME NEW s \in Months
      PROVE  /\ new[s] \in Goal \union {NoGoal}
             /\ \/ /\ s \in K /\ goals[s] # NoGoal /\ Running(goals, s, now)
                   /\ new[s] # NoGoal
                   /\ new[s].kind = r.kind /\ new[s].due = r.due /\ new[s].end = NoMonth
                   /\ s # now => goals[s].kind = r.kind
                \/ /\ K = {}
                   /\ s # now /\ goals[s] # NoGoal /\ Running(goals, s, now)
                   /\ new[s] # NoGoal
                   /\ new[s].kind = goals[s].kind /\ new[s].due = goals[s].due
                   /\ new[s].end = now - 1 /\ now - 1 \in Months
                \/ s = now /\ K = {} /\ new[s] = NewRow(r)
                \/ /\ new[s] = goals[s]
                   /\ goals[s] # NoGoal => ~Running(goals, s, now)
                   /\ s = now => K # {}
  <2>1. CASE s \in K
    <3>1. goals[s] \in Goal /\ Running(goals, s, now) /\ (s # now => goals[s].kind = r.kind)
      BY <1>1, <1>2, <2>1 DEF Kept, Rows
    <3>2. new[s] = Edited(goals[s], r)
      BY <2>1 DEF AfterSet, Replaced
    <3>3. /\ new[s] \in Goal
          /\ new[s].kind = r.kind /\ new[s].due = r.due /\ new[s].end = goals[s].end
      BY <3>1, <3>2, EditedFields
    <3> QED BY <2>1, <3>1, <3>3, NoGoalIsNone DEF Running
  <2>2. CASE s \notin K /\ s \in R
    <3>1. goals[s] \in Goal /\ Running(goals, s, now) /\ K = {}
      BY <1>1, <1>2, <1>5, <2>2 DEF Replaced, Rows
    <3>2. new[s] = Ended(goals[s], now - 1)
      BY <2>2, <1>6 DEF AfterSet, LastMonthOf
    <3>3. s # now /\ now - 1 \in Months
      BY <1>6, <2>2
    <3>4. /\ new[s] \in Goal
          /\ new[s].kind = goals[s].kind /\ new[s].due = goals[s].due /\ new[s].end = now - 1
      BY <3>1, <3>2, <3>3, EndedFields
    <3> QED BY <3>1, <3>3, <3>4, NoGoalIsNone
  <2>3. CASE s \notin K /\ s \notin R /\ s = now /\ K = {}
    <3>1. new[s] = NewRow(r)
      BY <2>3 DEF AfterSet
    <3> QED BY <2>3, <3>1, <1>a
  <2>4. CASE s \notin K /\ s \notin R /\ ~(s = now /\ K = {})
    <3>1. new[s] = goals[s]
      BY <2>4 DEF AfterSet
    <3>2. goals[s] # NoGoal => ~Running(goals, s, now)
      BY <1>2, <2>4 DEF Replaced
    <3> QED BY <1>1, <2>4, <3>1, <3>2 DEF Rows
  <2> QED BY <2>1, <2>2, <2>3, <2>4
<1>8. new \in Rows
  BY <1>7 DEF AfterSet, Rows
<1> QED BY <1>7, <1>8

(* A set keeps the rows in order: nothing in the future, and only the last may run. *)
LEMMA SetKeepsRows ==
  ASSUME Sound, NEW r \in SetRequests, ~Refused(r, goals, now)
  PROVE  LET new == AfterSet(r, goals, now) IN Past(new) /\ LastRuns(new)
<1> DEFINE new == AfterSet(r, goals, now)
           K == Kept(r, goals, now)
<1>1. goals \in Rows /\ now \in Months /\ Past(goals) /\ LastRuns(goals)
  BY DEF Sound
<1>2. NewRow(r).end = NoMonth
  BY SetFields
<1>3. ASSUME NEW s \in Months, new[s] # NoGoal
      PROVE  s <= now /\ (new[s].end = NoMonth \/ new[s].end <= now)
  BY <1>1, <1>2, <1>3, SetRow, MonthsAreNumbers DEF Past, Months
<1>4. ASSUME NEW q \in Months, NEW s \in Months, new[q] # NoGoal, new[s] # NoGoal,
             Running(new, s, now)
      PROVE  q <= s
  <2>1. new[s].end = NoMonth
    BY <1>4 DEF Running
  <2>2. q <= now
    BY <1>3, <1>4
  <2>3. CASE s = now
    BY <2>2, <2>3
  <2>4. CASE s # now
    <3>1. goals[s] # NoGoal /\ Running(goals, s, now) /\ s \in K
      <4>1. \/ s \in K /\ goals[s] # NoGoal /\ Running(goals, s, now)
            \/ new[s].end = now - 1 /\ now - 1 \in Months
            \/ new[s] = goals[s] /\ (goals[s] # NoGoal => ~Running(goals, s, now))
        BY <2>4, SetRow
      <4>2. now - 1 \in Months => now - 1 # NoMonth
        BY MonthsAreNumbers DEF Months
      <4>3. new[s] = goals[s] => (Running(new, s, now) <=> Running(goals, s, now))
        BY DEF Running
      <4> QED BY <1>4, <2>1, <4>1, <4>2, <4>3
    <3>2. goals[q] # NoGoal
      BY <1>4, <3>1, SetRow
    <3> QED BY <1>1, <3>1, <3>2 DEF LastRuns
  <2> QED BY <2>3, <2>4
<1> QED BY <1>3, <1>4 DEF Past, LastRuns

(* A set changes no month before its own. *)
LEMMA SetKeepsHistory ==
  ASSUME Sound, NEW r \in SetRequests, ~Refused(r, goals, now), NEW m \in Months, m < now
  PROVE  LET new == AfterSet(r, goals, now) IN
         /\ ShownIn(new, m) = ShownIn(goals, m)
         /\ \A s \in ShownIn(goals, m) : new[s].kind = goals[s].kind
<1> DEFINE new == AfterSet(r, goals, now)
           Shows(g, s) == /\ g[s] # NoGoal /\ s <= m
                          /\ g[s].end = NoMonth \/ m <= g[s].end
                          /\ NotDue(g[s], m)
<1>1. goals \in Rows /\ now \in Months
  BY DEF Sound
<1>2. r.due = NoMonth \/ (r.due \in Months /\ now <= r.due)
  <2>1. r.act = "set" /\ r.due \in Months \union {NoMonth}
    BY SetFields
  <2> QED BY <2>1, <1>1 DEF Refused, Months
<1>3. ASSUME NEW s \in Months, s <= m
      PROVE  /\ Shows(new, s) <=> Shows(goals, s)
             /\ Shows(goals, s) => new[s].kind = goals[s].kind
  <2>1. s # now
    BY <1>1, <1>3 DEF Months
  <2>2. ASSUME goals[s] # NoGoal, Running(goals, s, now)
        PROVE  Shows(goals, s)
    <3>1. goals[s].due \in Months \union {NoMonth}
      BY <1>1, <2>2, GoalFields DEF Rows
    <3> QED BY <1>1, <1>3, <2>2, <3>1 DEF Running, NotDue, Months
  <2>3. CASE /\ goals[s] # NoGoal /\ Running(goals, s, now) /\ new[s] # NoGoal
             /\ new[s].kind = r.kind /\ new[s].due = r.due /\ new[s].end = NoMonth
             /\ goals[s].kind = r.kind
    <3>1. NotDue(new[s], m)
      BY <1>1, <1>2, <2>3 DEF NotDue, Months
    <3> QED BY <1>3, <2>2, <2>3, <3>1
  <2>4. CASE /\ goals[s] # NoGoal /\ Running(goals, s, now) /\ new[s] # NoGoal
             /\ new[s].kind = goals[s].kind /\ new[s].due = goals[s].due
             /\ new[s].end = now - 1
    <3>1. m <= new[s].end
      BY <1>1, <2>4 DEF Months
    <3> QED BY <1>3, <2>2, <2>4, <3>1 DEF NotDue
  <2>5. CASE new[s] = goals[s]
    BY <2>5 DEF NotDue
  <2> QED BY <2>1, <2>3, <2>4, <2>5, SetRow
<1>4. \A g : ShownIn(g, m) = LastOf({s \in Months : Shows(g, s)})
  BY DEF ShownIn, Started
<1>5. {s \in Months : Shows(new, s)} = {s \in Months : Shows(goals, s)}
  BY <1>3
<1>6. ShownIn(new, m) = ShownIn(goals, m)
  BY <1>4, <1>5
<1>7. \A s \in ShownIn(goals, m) : s \in Months /\ s <= m /\ Shows(goals, s)
  BY <1>4 DEF LastOf
<1> QED BY <1>3, <1>6, <1>7

(* A close ends the shown goals and touches nothing else of any row. *)
LEMMA CloseRow ==
  ASSUME goals \in Rows, now \in Months
  PROVE  LET new == AfterClose(goals, now) IN
         /\ new \in Rows
         /\ \A s \in Months :
              \/ /\ s \in ShownIn(goals, now) /\ goals[s] # NoGoal /\ new[s] # NoGoal
                 /\ new[s].kind = goals[s].kind /\ new[s].due = goals[s].due
                 /\ new[s].end = now
                 /\ goals[s].end = NoMonth \/ now <= goals[s].end
                 /\ NotDue(goals[s], now)
              \/ s \notin ShownIn(goals, now) /\ new[s] = goals[s]
<1> DEFINE new == AfterClose(goals, now)
<1>1. ASSUME NEW s \in ShownIn(goals, now)
      PROVE  /\ s \in Months /\ goals[s] # NoGoal
             /\ goals[s].end = NoMonth \/ now <= goals[s].end
             /\ NotDue(goals[s], now)
  BY <1>1 DEF ShownIn, LastOf, Started
<1>2. ASSUME NEW s \in Months, s \in ShownIn(goals, now)
      PROVE  /\ new[s] \in Goal
             /\ new[s].kind = goals[s].kind /\ new[s].due = goals[s].due /\ new[s].end = now
  <2>1. goals[s] \in Goal
    BY <1>1, <1>2 DEF Rows
  <2>2. new[s] = Ended(goals[s], now)
    BY <1>2 DEF AfterClose
  <2> QED BY <2>1, <2>2, EndedFields
<1>3. ASSUME NEW s \in Months, s \notin ShownIn(goals, now) PROVE new[s] = goals[s]
  BY <1>3 DEF AfterClose
<1>4. new \in Rows
  BY <1>2, <1>3 DEF AfterClose, Rows
<1> QED BY <1>1, <1>2, <1>3, <1>4, NoGoalIsNone

(* After a close nothing runs: the one goal that could was the last, so it was the one shown. *)
LEMMA CloseKeepsRows ==
  ASSUME Sound
  PROVE  LET new == AfterClose(goals, now) IN
         /\ Past(new) /\ LastRuns(new)
         /\ \A s \in Months : new[s] # NoGoal => ~Running(new, s, now)
<1> DEFINE new == AfterClose(goals, now)
<1>1. goals \in Rows /\ now \in Months /\ Past(goals) /\ LastRuns(goals)
  BY DEF Sound
<1>2. Past(new)
  BY <1>1, CloseRow DEF Past, Months
<1>3. ASSUME NEW s \in Months, new[s] # NoGoal, Running(new, s, now) PROVE FALSE
  <2>1. new[s] = goals[s] /\ s \notin ShownIn(goals, now)
    <3>1. now # NoMonth
      BY <1>1, MonthsAreNumbers DEF Months
    <3> QED BY <1>1, <1>3, <3>1, CloseRow DEF Running
  <2>2. goals[s] # NoGoal /\ Running(goals, s, now)
    BY <1>3, <2>1 DEF Running
  <2>3. \A q \in Months : goals[q] # NoGoal => q <= s
    BY <1>1, <2>2 DEF LastRuns
  <2>4. s \in ShownIn(goals, now)
    BY <1>1, <2>2, <2>3 DEF ShownIn, LastOf, Started, Running, Past
  <2> QED BY <2>1, <2>4
<1> QED BY <1>2, <1>3 DEF LastRuns

(* Nor does a close change a month before its own. *)
LEMMA CloseKeepsHistory ==
  ASSUME Sound, NEW m \in Months, m < now
  PROVE  LET new == AfterClose(goals, now) IN
         /\ ShownIn(new, m) = ShownIn(goals, m)
         /\ \A s \in ShownIn(goals, m) : new[s].kind = goals[s].kind
<1> DEFINE new == AfterClose(goals, now)
           Shows(g, s) == /\ g[s] # NoGoal /\ s <= m
                          /\ g[s].end = NoMonth \/ m <= g[s].end
                          /\ NotDue(g[s], m)
<1>1. goals \in Rows /\ now \in Months
  BY DEF Sound
<1>2. ASSUME NEW s \in Months
      PROVE  (Shows(new, s) <=> Shows(goals, s)) /\ (Shows(goals, s) => new[s].kind = goals[s].kind)
  <2>1. CASE s \notin ShownIn(goals, now)
    BY <1>1, <2>1, CloseRow DEF NotDue
  <2>2. CASE s \in ShownIn(goals, now)
    <3>1. goals[s].end \in Months \union {NoMonth}
      BY <1>1, <2>2, CloseRow, GoalFields DEF Rows
    <3>2. goals[s].end = NoMonth \/ m <= goals[s].end
      BY <1>1, <2>2, <3>1, CloseRow DEF Months
    <3>3. new[s].end = now /\ m <= now /\ new[s].due = goals[s].due /\ new[s] # NoGoal
          /\ goals[s] # NoGoal /\ new[s].kind = goals[s].kind
      BY <1>1, <2>2, CloseRow DEF Months
    <3> QED BY <3>2, <3>3 DEF NotDue
  <2> QED BY <2>1, <2>2
<1>3. \A g : ShownIn(g, m) = LastOf({s \in Months : Shows(g, s)})
  BY DEF ShownIn, Started
<1>4. {s \in Months : Shows(new, s)} = {s \in Months : Shows(goals, s)}
  BY <1>2
<1>5. \A s \in ShownIn(goals, m) : s \in Months /\ Shows(goals, s)
  BY <1>3 DEF LastOf
<1> QED BY <1>2, <1>3, <1>4, <1>5

-----------------------------------------------------------------------------
(* Whatever a request found, what it writes is rows. *)
LEMMA RowsTyped ==
  ASSUME goals \in Rows, NEW g \in {goals, Empty}, NEW m \in Months, NEW r \in Requests
  PROVE  /\ r \in SetRequests => AfterSet(r, g, m) \in Rows
         /\ AfterClose(g, m) \in Rows
<1>1. \A s \in Started(g, m) : s \in Months /\ s <= m /\ goals[s] \in Goal
  BY DEF Started, Empty, Rows
<1>2. LiveIn(g, m) \subseteq Started(g, m) /\ ShownIn(g, m) \subseteq Started(g, m)
  BY DEF LiveIn, ShownIn, LastOf
<1>3. ASSUME r \in SetRequests, NEW s \in Months PROVE AfterSet(r, g, m)[s] \in Goal \union {NoGoal}
  <2>1. CASE s \in Kept(r, g, m)
    <3>1. goals[s] \in Goal
      BY <1>1, <1>2, <2>1 DEF Kept
    <3>2. AfterSet(r, g, m)[s] = Edited(goals[s], r)
      BY <1>3, <2>1 DEF AfterSet, Replaced
    <3> QED BY <1>3, <3>1, <3>2, EditedFields
  <2>2. CASE s \notin Kept(r, g, m) /\ s \in Replaced(r, g, m)
    <3>1. goals[s] \in Goal /\ s <= m /\ s # m
      BY <1>1, <1>2, <2>2 DEF Kept, Replaced
    <3>2. m - 1 \in Months
      BY <1>3, <3>1, MonthsAreNumbers DEF Months
    <3>3. AfterSet(r, g, m)[s] = Ended(goals[s], m - 1)
      BY <1>3, <2>2, <3>1 DEF AfterSet, LastMonthOf
    <3> QED BY <3>1, <3>2, <3>3, EndedFields
  <2>3. CASE s \notin Kept(r, g, m) /\ s \notin Replaced(r, g, m) /\ s = m /\ Kept(r, g, m) = {}
    <3>1. AfterSet(r, g, m)[s] = NewRow(r)
      BY <1>3, <2>3 DEF AfterSet
    <3> QED BY <1>3, <3>1, SetFields
  <2>4. CASE s \notin Kept(r, g, m) /\ s \notin Replaced(r, g, m) /\ ~(s = m /\ Kept(r, g, m) = {})
    <3>1. AfterSet(r, g, m)[s] = goals[s]
      BY <1>3, <2>4 DEF AfterSet
    <3> QED BY <1>3, <3>1 DEF Rows
  <2> QED BY <2>1, <2>2, <2>3, <2>4
<1>4. ASSUME NEW s \in Months PROVE AfterClose(g, m)[s] \in Goal \union {NoGoal}
  <2>1. CASE s \in ShownIn(g, m)
    <3>1. AfterClose(g, m)[s] = Ended(goals[s], m) /\ goals[s] \in Goal
      BY <1>1, <1>2, <2>1 DEF AfterClose
    <3> QED BY <3>1, EndedFields
  <2>2. CASE s \notin ShownIn(g, m)
    BY <2>2 DEF AfterClose, Rows
  <2> QED BY <2>1, <2>2
<1> QED BY <1>3, <1>4 DEF AfterSet, AfterClose, Rows

-----------------------------------------------------------------------------
(* A request ends, having written nothing or, holding the lock, rows still in order. *)
LEMMA EndKeeps ==
  ASSUME IInv, NEW t \in Txs, NEW how \in {"done", "nothing", "conflict"}, End(t, how),
         UNCHANGED <<hidden, now, home>>, overtaken' \in BOOLEAN,
         goals' = goals \/ (pc[t] = "write" /\ goals' \in Rows), RowsInv'
  PROVE  IInv'
<1>1. \A u \in Txs : (pc'[u] = IF u = t THEN "idle" ELSE pc[u])
                  /\ (u # t => op'[u] = op[u] /\ clock'[u] = clock[u] /\ history'[u] = history[u])
                  /\ (u # t => (u \in strays' <=> u \in strays))
  BY DEF IInv, TypeOK, End, GoTo
<1>2. goals' \in Rows
  BY DEF IInv, TypeOK, Rows
<1>3. TypeOK'
  BY <1>2 DEF IInv, TypeOK, End, GoTo, Rows, Requests, Empty
<1>4. LockInv'
  BY <1>1, NoTxIsNone DEF IInv, LockInv, End
<1>5. ClockInv'
  BY <1>1 DEF IInv, ClockInv
<1>6. ReadInv'
  <2>1. CASE goals' = goals
    BY <1>1, <2>1 DEF IInv, ReadInv, Refused, ShownIn, LastOf, Started, NotDue
  <2>2. CASE pc[t] = "write"
    <3>1. \A u \in Txs : u # t => pc[u] \notin {"read", "write"}
      BY <2>2 DEF IInv, LockInv
    <3> QED BY <1>1, <3>1 DEF ReadInv
  <2> QED BY <2>1, <2>2
<1> QED BY <1>3, <1>4, <1>5, <1>6 DEF IInv

(* The commit of a request: of the month and history it read, which are those of now unless *)
(* it was overtaken.                                                                        *)
LEMMA Written ==
  ASSUME IInv, NEW t \in Txs, Write(t)
  PROVE  /\ UNCHANGED <<hidden, now, home>> /\ pc[t] = "write" /\ overtaken' \in BOOLEAN
         /\ goals' \in Rows
         /\ End(t, "done") \/ End(t, "conflict")
         /\ ~overtaken' =>
              /\ End(t, "done") /\ Sound
              /\ \/ /\ op[t] \in SetRequests /\ ~Refused(op[t], goals, now)
                    /\ goals' = AfterSet(op[t], goals, now)
                 \/ op[t].act = "close" /\ goals' = AfterClose(goals, now)
<1> DEFINE r == op[t]  g == history[t]  m == clock[t]
<1>1. /\ pc[t] = "write" /\ UNCHANGED <<hidden, now, home>>
      /\ overtaken' = (overtaken \/ Overtaken(t))
      /\ \/ Conflicts(r, g, m) /\ End(t, "conflict") /\ UNCHANGED goals
         \/ /\ ~Conflicts(r, g, m) /\ End(t, "done")
            /\ goals' = IF r.act = "set" THEN AfterSet(r, g, m) ELSE AfterClose(g, m)
  BY DEF Write, At
<1>2. /\ r \in Requests /\ m \in Months /\ goals \in Rows /\ now \in Months
      /\ g = goals \/ (g = Empty /\ t \in strays)
      /\ ~Refused(r, g, m)
  BY <1>1 DEF IInv, TypeOK, Rows, ClockInv, ReadInv
<1>3. r.act = "set" <=> r \in SetRequests
  <2>1. r \in [act : {"close"}] => r.act # "set"
    OBVIOUS
  <2> QED BY <1>2, <2>1, SetFields DEF Requests
<1>4. overtaken' \in BOOLEAN
  <2>1. overtaken \in BOOLEAN
    BY DEF IInv, TypeOK
  <2> QED BY <1>1, <2>1
<1>5. goals' \in Rows
  <2> HIDE DEF r, g, m
  <2> QED BY <1>1, <1>2, <1>3, RowsTyped
<1>6. ASSUME ~overtaken'
      PROVE  /\ End(t, "done") /\ Sound
             /\ \/ /\ r \in SetRequests /\ ~Refused(r, goals, now)
                   /\ goals' = AfterSet(r, goals, now)
                \/ r.act = "close" /\ goals' = AfterClose(goals, now)
  <2>1. g = goals /\ m = now /\ ~overtaken
    BY <1>1, <1>2, <1>6 DEF Overtaken
  <2>2. Sound
    BY <1>2, <2>1 DEF Sound, IInv, RowsInv
  <2>3. ~Conflicts(r, goals, now)
    BY <1>2, <2>2, NoConflict
  <2>4. r.act = "set" \/ r.act = "close"
    BY <1>2, <1>3 DEF Requests
  <2> HIDE DEF r, g, m
  <2> QED BY <1>1, <1>2, <1>3, <2>1, <2>2, <2>3, <2>4
<1> QED BY <1>1, <1>4, <1>5, <1>6

LEMMA WriteKeeps ==
  ASSUME IInv, NEW t \in Txs, Write(t)
  PROVE  IInv'
<1>1. /\ UNCHANGED <<hidden, now, home>> /\ pc[t] = "write" /\ overtaken' \in BOOLEAN
      /\ goals' \in Rows /\ (End(t, "done") \/ End(t, "conflict"))
  BY Written
<1>2. ASSUME ~overtaken' PROVE Past(goals)' /\ LastRuns(goals)' /\ answer' # "conflict"
  <2>1. End(t, "done") /\ Sound
    BY <1>2, Written
  <2>2. Past(goals') /\ LastRuns(goals')
    BY <1>2, <2>1, Written, SetKeepsRows, CloseKeepsRows
  <2>3. Past(goals)' /\ LastRuns(goals)'
    BY <1>1, <2>2 DEF Past, LastRuns, Running, NotDue
  <2> QED BY <2>1, <2>3 DEF End
<1>3. RowsInv'
  BY <1>2 DEF RowsInv
<1> QED BY <1>1, <1>3, EndKeeps

(* A request moves on without touching the rows. *)
LEMMA MoveKeeps ==
  ASSUME IInv, NEW t \in Txs,
         (\E r \in Requests : Ask(t, r)) \/ Enter(t) \/ TakeLock(t) \/ Read(t) \/ GiveUp(t)
  PROVE  IInv' /\ UNCHANGED <<goals, now, overtaken>>
<1>0. IInv
  OBVIOUS
<1>a. UNCHANGED <<goals, now, hidden, home, overtaken>>
  BY DEF Ask, Enter, TakeLock, Read, GiveUp
<1>b. answer' = answer \/ answer' = "nothing" => RowsInv'
  BY <1>0, <1>a DEF IInv, RowsInv, Past, LastRuns, Running, NotDue
<1>d. End(t, "nothing") => IInv'
  <2>1. overtaken' \in BOOLEAN
    BY <1>0, <1>a DEF IInv, TypeOK
  <2>2. End(t, "nothing") => RowsInv'
    BY <1>b DEF End
  <2> QED BY <1>0, <1>a, <2>1, <2>2, EndKeeps
<1>c. \A r, g, m : Refused(r, g, m)' = Refused(r, g, m)
  BY DEF Refused, ShownIn, LastOf, Started, NotDue
<1>1. ASSUME NEW r \in Requests, Ask(t, r) PROVE IInv'
  <2>1. \A u \in Txs : (pc'[u] = IF u = t THEN "enter" ELSE pc[u])
                    /\ (u # t => op'[u] = op[u]) /\ UNCHANGED <<lock, clock, history, answer, strays>>
    BY <1>0, <1>1 DEF Ask, GoTo, IInv, TypeOK
  <2>2. pc[t] = "idle"
    BY <1>1 DEF Ask, At
  <2>3. TypeOK'
    BY <1>0, <1>1 DEF Ask, GoTo, IInv, TypeOK
  <2>4. LockInv' /\ ClockInv'
    BY <1>0, <1>a, <2>1, <2>2 DEF IInv, LockInv, ClockInv
  <2>5. ReadInv'
    BY <1>0, <1>a, <1>c, <2>1 DEF IInv, ReadInv
  <2> QED BY <1>b, <2>1, <2>3, <2>4, <2>5 DEF IInv
<1>2. ASSUME NEW there \in {"lock", "read"}, pc' = [pc EXCEPT ![t] = there], UNCHANGED <<op, history, answer, strays>>,
             clock' \in [Txs -> Months \union {NoMonth}],
             \A u \in Txs : u # t => clock'[u] = clock[u],
             clock'[t] \in Months, clock'[t] <= now,
             \/ there = "lock" /\ pc[t] = "enter" /\ lock' = lock
             \/ there = "read" /\ pc[t] = "lock" /\ lock = NoTx /\ lock' = t /\ ~hidden
      PROVE  IInv'
  <2>1. \A u \in Txs : pc'[u] = IF u = t THEN there ELSE pc[u]
    BY <1>0, <1>2 DEF IInv, TypeOK
  <2>2. TypeOK'
    BY <1>0, <1>2, <1>a DEF IInv, TypeOK
  <2>3. LockInv'
    BY <1>0, <1>2, <2>1, NoTxIsNone DEF IInv, LockInv
  <2>4. ClockInv'
    BY <1>0, <1>2, <1>a, <2>1 DEF IInv, ClockInv
  <2>5. ReadInv'
    BY <1>0, <1>2, <1>a, <1>c, <2>1 DEF IInv, ReadInv
  <2> QED BY <1>b, <1>2, <2>2, <2>3, <2>4, <2>5 DEF IInv
<1>3. ASSUME Enter(t) PROVE IInv'
  <2>1. CASE End(t, "nothing")
    BY <1>d, <2>1
  <2>2. CASE home /\ clock' = [clock EXCEPT ![t] = now] /\ pc' = [pc EXCEPT ![t] = "lock"]
             /\ UNCHANGED <<lock, op, history, answer, strays>>
    <3>1. pc[t] = "enter" /\ now \in Months /\ clock \in [Txs -> Months \union {NoMonth}]
      BY <1>0, <1>3 DEF Enter, At, IInv, TypeOK
    <3>2. now <= now
      BY <3>1 DEF Months
    <3> QED BY <1>2, <2>2, <3>1, <3>2
  <2> QED BY <1>3, <2>1, <2>2 DEF Enter, GoTo
<1>4. ASSUME TakeLock(t) PROVE IInv'
  <2>1. CASE End(t, "nothing")
    BY <1>d, <2>1
  <2>2. CASE ~hidden /\ lock' = t /\ pc' = [pc EXCEPT ![t] = "read"]
             /\ UNCHANGED <<op, clock, history, answer, strays>>
    <3>1. pc[t] = "lock" /\ lock = NoTx /\ clock \in [Txs -> Months \union {NoMonth}]
      BY <1>0, <1>4 DEF TakeLock, Free, At, IInv, TypeOK
    <3>2. clock[t] \in Months /\ clock[t] <= now
      BY <1>0, <3>1 DEF IInv, ClockInv
    <3> QED BY <1>2, <2>2, <3>1, <3>2
  <2> QED BY <1>4, <2>1, <2>2 DEF TakeLock, GoTo, Shut
<1>5. ASSUME Read(t) PROVE IInv'
  <2>1. CASE End(t, "nothing")
    BY <1>d, <2>1
  <2>2. CASE /\ ~Refused(op[t], Seen, clock[t])
             /\ history' = [history EXCEPT ![t] = Seen] /\ pc' = [pc EXCEPT ![t] = "write"]
             /\ strays' = (IF home THEN strays ELSE strays \union {t})
             /\ UNCHANGED <<lock, op, clock, answer>>
    <3>1. pc[t] = "read"
      BY <1>5 DEF Read, At
    <3>2. Seen \in Rows /\ (Seen = goals \/ (Seen = Empty /\ t \in strays'))
      BY <1>0, <2>2 DEF IInv, TypeOK, Seen, Empty, Rows
    <3>3. \A u \in Txs : (pc'[u] = IF u = t THEN "write" ELSE pc[u])
                      /\ (history'[u] = IF u = t THEN Seen ELSE history[u])
                      /\ (u # t => (u \in strays' <=> u \in strays))
      BY <1>0, <2>2, <3>2 DEF IInv, TypeOK
    <3>4. TypeOK'
      <4>1. strays' \in SUBSET Txs
        BY <1>0, <2>2 DEF IInv, TypeOK
      <4> HIDE DEF Seen
      <4> QED BY <1>0, <1>a, <2>2, <3>2, <4>1 DEF IInv, TypeOK, Rows
    <3>5. LockInv' /\ ClockInv'
      BY <1>0, <1>a, <2>2, <3>1, <3>3 DEF IInv, LockInv, ClockInv
    <3>6. ReadInv'
      BY <1>0, <1>a, <1>c, <2>2, <3>1, <3>2, <3>3 DEF IInv, ReadInv
    <3> QED BY <1>b, <2>2, <3>4, <3>5, <3>6 DEF IInv
  <2> QED BY <1>5, <2>1, <2>2 DEF Read, GoTo
<1>6. ASSUME GiveUp(t) PROVE IInv'
  BY <1>6, <1>d DEF GiveUp
<1> QED BY <1>1, <1>3, <1>4, <1>5, <1>6, <1>a

(* Hiding waits for the lock; the month and the active budget wait for nobody. *)
LEMMA WorldKeeps ==
  ASSUME IInv, Hide \/ Tick \/ Switch
  PROVE  IInv' /\ UNCHANGED <<goals, overtaken>>
<1>0. IInv /\ UNCHANGED <<goals, lock, pc, op, clock, history, answer, strays, overtaken>>
  BY DEF Hide, Tick, Switch
<1>c. \A r, g, m : Refused(r, g, m)' = Refused(r, g, m)
  BY DEF Refused, ShownIn, LastOf, Started, NotDue
<1>1. CASE Hide
  <2>1. \A t \in Txs : pc[t] \notin {"read", "write"}
    BY <1>1, NoTxIsNone DEF Hide, IInv, LockInv
  <2>2. UNCHANGED <<now, home>> /\ hidden' \in BOOLEAN
    BY <1>1 DEF Hide
  <2>3. TypeOK' /\ LockInv' /\ ClockInv'
    BY <1>0, <2>2 DEF IInv, TypeOK, LockInv, ClockInv
  <2>4. ReadInv'
    BY <1>0, <1>c, <2>1 DEF IInv, ReadInv
  <2>5. RowsInv'
    BY <1>0, <2>2 DEF IInv, RowsInv, Past, LastRuns, Running, NotDue
  <2> QED BY <1>0, <2>3, <2>4, <2>5 DEF IInv
<1>2. CASE Tick \/ Switch
  <2>2. now' \in Months /\ now <= now' /\ hidden' = hidden /\ home' \in BOOLEAN
    <3>1. now \in Months /\ home \in BOOLEAN
      BY DEF IInv, TypeOK
    <3>2. CASE Tick
      <4>1. now < Last /\ now' = now + 1 /\ UNCHANGED <<hidden, home>>
        BY <3>2 DEF Tick
      <4> QED BY <3>1, <4>1, MonthsAreNumbers DEF Months
    <3>3. CASE Switch
      BY <3>1, <3>3 DEF Switch, Months
    <3> QED BY <1>2, <3>2, <3>3
  <2>3. TypeOK'
    BY <1>0, <2>2 DEF IInv, TypeOK
  <2>4. LockInv' /\ ReadInv'
    BY <1>0, <1>c, <2>2 DEF IInv, LockInv, ReadInv
  <2>5. now \in Months /\ goals \in Rows
    BY DEF IInv, TypeOK, Rows
  <2>8. ClockInv'
    BY <1>0, <2>2, <2>5 DEF IInv, ClockInv, Months
  <2>6. ASSUME Past(goals) PROVE Past(goals)'
    <3>1. ASSUME NEW s \in Months, goals[s] # NoGoal
          PROVE  s <= now' /\ (goals[s].end = NoMonth \/ goals[s].end <= now')
      <4>1. goals[s].end \in Months \union {NoMonth}
        BY <2>5, <3>1, GoalFields DEF Rows
      <4> QED BY <2>2, <2>5, <2>6, <3>1, <4>1, MonthsAreNumbers DEF Past, Months
    <3> QED BY <1>0, <3>1 DEF Past
  <2>7. ASSUME LastRuns(goals) PROVE LastRuns(goals)'
    <3>1. ASSUME NEW s \in Months, goals[s] # NoGoal, goals[s].end = NoMonth, NotDue(goals[s], now')
          PROVE  NotDue(goals[s], now)
      <4>1. goals[s].due \in Months \union {NoMonth}
        BY <2>5, <3>1, GoalFields DEF Rows
      <4> QED BY <2>2, <2>5, <3>1, <4>1, MonthsAreNumbers DEF NotDue, Months
    <3>2. ASSUME NEW r \in Months, NEW s \in Months, goals[r] # NoGoal, goals[s] # NoGoal,
                 goals[s].end = NoMonth, NotDue(goals[s], now')
          PROVE  r <= s
      BY <2>7, <3>1, <3>2 DEF LastRuns, Running
    <3> QED BY <1>0, <3>2 DEF LastRuns, Running, NotDue
  <2> QED BY <1>0, <2>3, <2>4, <2>6, <2>7, <2>8 DEF IInv, RowsInv
<1> QED BY <1>0, <1>1, <1>2

LEMMA StepKeeps == IInv /\ [Next]_vars => IInv'
<1> SUFFICES ASSUME IInv, [Next]_vars PROVE IInv'
  OBVIOUS
<1>1. CASE UNCHANGED vars
  BY <1>1 DEF vars, IInv, TypeOK, LockInv, ClockInv, ReadInv, RowsInv, Past, LastRuns, Running,
     NotDue, Refused, ShownIn, LastOf, Started
<1>2. CASE Hide \/ Tick \/ Switch
  BY <1>2, WorldKeeps
<1>3. CASE \E t \in Txs : Write(t)
  BY <1>3, WriteKeeps
<1>4. CASE \E t \in Txs : \/ \E r \in Requests : Ask(t, r)
                          \/ Enter(t) \/ TakeLock(t) \/ Read(t) \/ GiveUp(t)
  BY <1>4, MoveKeeps
<1> QED BY <1>1, <1>2, <1>3, <1>4 DEF Next

LEMMA InitHolds == Init => IInv
<1> SUFFICES ASSUME Init PROVE IInv
  OBVIOUS
<1>1. Empty \in [Months -> Goal \union {NoGoal}] /\ [act |-> "close"] \in Requests
  BY DEF Empty, Requests
<1>2. TypeOK
  BY <1>1 DEF Init, TypeOK
<1>3. LockInv /\ ClockInv /\ ReadInv
  BY NoTxIsNone DEF Init, LockInv, ClockInv, ReadInv
<1>4. Past(goals) /\ LastRuns(goals)
  BY DEF Init, Empty, Past, LastRuns
<1>5. RowsInv
  BY <1>4 DEF Init, RowsInv
<1> QED BY <1>2, <1>3, <1>5 DEF IInv

(* The inductive invariant, whatever the months, kinds and requests. *)
THEOREM Invariance == Spec => []IInv
<1>1. Init => IInv
  BY InitHolds
<1>2. IInv /\ [Next]_vars => IInv'
  BY StepKeeps
<1> QED BY <1>1, <1>2, PTL DEF Spec

(* Until a request has written for a month that had turned or over another budget's history, *)
(* a category runs at most one goal, and no set ends on the unique index.                    *)
THEOREM OneRuns == Spec => []OneGoalRuns
<1>1. IInv => OneGoalRuns
  <2> SUFFICES ASSUME IInv, ~overtaken, NEW r \in Started(goals, now), NEW s \in Started(goals, now),
                      Running(goals, r, now), Running(goals, s, now)
               PROVE  r = s
    BY DEF OneGoalRuns, Running, IInv, RowsInv
  <2> QED BY DEF IInv, RowsInv, LastRuns, Started, Months
<1> QED BY <1>1, Invariance, PTL

(* Until then, neither a set nor a close changes which goal a past month is shown, or its kind. *)
THEOREM HistoryStays == Spec => HistoryIsKept
<1> DEFINE Kept1 == ~overtaken' => \A m \in Months : m < now =>
                      /\ ShownIn(goals', m) = ShownIn(goals, m)
                      /\ \A s \in ShownIn(goals, m) : goals'[s].kind = goals[s].kind
<1>1. ASSUME IInv, [Next]_vars PROVE [Kept1]_vars
  <2>1. CASE goals' = goals
    BY <2>1
  <2>2. CASE \E t \in Txs : Write(t)
    BY <1>1, <2>2, Written, SetKeepsHistory, CloseKeepsHistory
  <2>3. goals' = goals \/ \E t \in Txs : Write(t)
    BY <1>1 DEF Next, vars, Ask, Enter, TakeLock, Read, GiveUp, Hide, Tick, Switch
  <2> QED BY <2>1, <2>2, <2>3
<1>2. IInv /\ [Next]_vars => [Kept1]_vars
  BY <1>1
<1> QED BY <1>2, Invariance, PTL DEF Spec, HistoryIsKept

(* And a closed goal is gone from the next month, and no older one comes back in its place. *)
THEOREM ClosedGoes == Spec => ClosedIsGone
<1> DEFINE Gone == \A t \in Txs :
              /\ At(t, "write") /\ op[t].act = "close" /\ pc'[t] = "idle" /\ answer' = "done"
              /\ ~overtaken'
              => \A m \in Months : m > now => ShownIn(goals', m) = {}
<1>1. ASSUME IInv, [Next]_vars, NEW t \in Txs,
             pc[t] = "write", op[t].act = "close", pc'[t] = "idle", answer' = "done",
             ~overtaken', NEW m \in Months, m > now
      PROVE  ShownIn(goals', m) = {}
  <2>1. goals' = AfterClose(goals, now) /\ now' = now /\ Sound
    <3>1. Write(t)
      <4>1. pc'[t] # pc[t]
        BY <1>1
      <4>2. ASSUME NEW u \in Txs, u # t, pc' = [pc EXCEPT ![u] = pc'[u]] PROVE FALSE
        BY <1>1, <4>1, <4>2 DEF IInv, TypeOK
      <4>3. ~GiveUp(t)
        BY <1>1 DEF GiveUp, End
      <4>4. ~(\E r \in Requests : Ask(t, r)) /\ ~Enter(t) /\ ~TakeLock(t) /\ ~Read(t)
        BY <1>1 DEF Ask, Enter, TakeLock, Read, At
      <4>5. ASSUME NEW u \in Txs,
                   \/ \E r \in Requests : Ask(u, r)
                   \/ Enter(u) \/ TakeLock(u) \/ Read(u) \/ Write(u) \/ GiveUp(u)
            PROVE  u = t
        <5>1. \E there \in {"idle", "enter", "lock", "read", "write"} : pc' = [pc EXCEPT ![u] = there]
          BY <4>5 DEF Ask, Enter, TakeLock, Read, Write, GiveUp, End, GoTo
        <5> QED BY <1>1, <4>1, <5>1 DEF IInv, TypeOK
      <4>6. ~(Hide \/ Tick \/ Switch) /\ ~UNCHANGED vars
        BY <4>1 DEF Hide, Tick, Switch, vars
      <4> QED BY <1>1, <4>3, <4>4, <4>5, <4>6 DEF Next
    <3>2. op[t] \in SetRequests => op[t].act = "set"
      BY SetFields
    <3> QED BY <1>1, <3>1, <3>2, Written
  <2>2. now \in Months /\ goals \in Rows
    BY <1>1 DEF IInv, TypeOK, Rows
  <2> DEFINE new == AfterClose(goals, now)
  <2>3. new \in Rows /\ Past(new) /\ \A s \in Months : new[s] # NoGoal => ~Running(new, s, now)
    BY <2>1, <2>2, CloseRow, CloseKeepsRows
  <2>4. ASSUME NEW s \in ShownIn(new, m) PROVE FALSE
    <3>1. /\ s \in Months /\ new[s] # NoGoal
          /\ new[s].end = NoMonth \/ m <= new[s].end
          /\ NotDue(new[s], m)
      BY <2>4 DEF ShownIn, LastOf, Started
    <3>2. new[s].due \in Months \union {NoMonth} /\ new[s].end \in Months \union {NoMonth}
      BY <2>3, <3>1, GoalFields DEF Rows
    <3>3. new[s].end = NoMonth
      BY <1>1, <2>2, <2>3, <3>1, <3>2, MonthsAreNumbers DEF Past, Months
    <3>4. NotDue(new[s], now)
      BY <1>1, <2>2, <3>1, <3>2, MonthsAreNumbers DEF NotDue, Months
    <3> QED BY <2>3, <3>1, <3>3, <3>4 DEF Running
  <2> QED BY <2>1, <2>4
<1>2. IInv /\ [Next]_vars => [Gone]_vars
  BY <1>1 DEF At
<1> QED BY <1>2, Invariance, PTL DEF Spec, ClosedIsGone
=============================================================================
