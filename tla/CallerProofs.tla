---------------------------- MODULE CallerProofs ----------------------------
(***************************************************************************)
(* Proofs about what a caller owns as a whole: the budgets and which of    *)
(* them is active, and the erase of everything.                            *)
(*                                                                         *)
(* ActiveBudget, for any number of budgets, names and requests: the code   *)
(* keeps the book.                                                         *)
(* The argument is the one the gate is there for.  At most one request is  *)
(* past the gate, so what it judged still holds when it writes (JudgedInv);*)
(* the writes of a judged request satisfy both indexes (WritesFit), so     *)
(* nobody fails on one and each commit is an operation of BudgetBook.  The *)
(* ids of creations under way are new to the book and to each other        *)
(* (FreshInv), whatever anyone else commits meanwhile.                     *)
(*                                                                         *)
(* Erase, for any writers and any plans.  The statements so far reached    *)
(* every row that was there when the erase began, and of a write whose row *)
(* one of them reached, the later ones missed nothing (SweepInv).  So what *)
(* is left of a write half of which was deleted lies behind the statement  *)
(* that reached the other half: it points at a budget that is being        *)
(* deleted, and the foreign keys refuse the erase (HalfIsRefused).  A key  *)
(* is deleted last, after everything it answers for.                       *)
(***************************************************************************)
EXTENDS ActiveBudget, Erase, TLAPS

PastGate == {"rows", "judge", "write"}

GateInv == \A t \in Txs : /\ pc[t] \in PastGate <=> gate = t
                          /\ pc[t] \in PastGate \union {"gate"} => op[t].kind # "record"

JudgedInv == \A t \in Txs : pc[t] = "write" =>
               ~Refused(op[t]) /\ ~Standing(op[t]) /\ found[t] = Current(op[t])

Creating(t) == op[t].kind = "create"

FreshInv == \A t \in Txs : Creating(t) =>
              /\ pc[t] # "idle"
              /\ op[t].id \notin Held
              /\ \A u \in Txs \ {t} : Creating(u) => op[u].id # op[t].id

BookInv == Book!NamesDiffer /\ Book!ExactlyOneActive

IInv == TypeOK /\ GateInv /\ JudgedInv /\ FreshInv /\ BookInv /\ NobodyFailsOnTheIndex

(* What a judged request writes: one mark, and no two budgets of one name. *)
LEMMA WritesFit ==
  ASSUME IInv, NEW t \in Txs, pc[t] = "write"
  PROVE  /\ Marked(t) = IF op[t].kind = "rename" THEN active ELSE {op[t].id}
         /\ ActiveIndexHolds(Marked(t))
         /\ NameIndexHolds(Named(op[t]))
<1> DEFINE r == op[t]
<1>1. r \in Requests /\ r.kind # "record" /\ ~Refused(r) /\ ~Standing(r) /\ found[t] = Current(r)
  BY DEF IInv, TypeOK, GateInv, JudgedInv, PastGate
<1>2. Marked(t) = IF r.kind = "rename" THEN active ELSE {r.id}
  BY <1>1 DEF Marked, Current
<1>3. ActiveIndexHolds(Marked(t))
  BY <1>2 DEF ActiveIndexHolds, IInv, BookInv, Book!ExactlyOneActive
<1>4. NameIndexHolds(Named(r))
  <2>0. names \in [Budgets -> Names \union {NoName}] /\ Book!NamesDiffer
    BY DEF IInv, TypeOK, BookInv
  <2>1. CASE r.kind = "activate"
    BY <2>0, <2>1 DEF NameIndexHolds, Named, Book!NamesDiffer, Book!Held
  <2>2. CASE r.kind = "create"
    <3>1. r.id \in Budgets /\ r.name \in Names /\ \A b \in Book!Held : names[b] # r.name
      BY <1>1, <2>2 DEF Requests, Refused, Taken, Book!Taken
    <3> QED BY <2>0, <2>2, <3>1, NoNameIsNone DEF NameIndexHolds, Named, Book!NamesDiffer, Book!Held
  <2>3. CASE r.kind = "rename"
    <3>1. r.id \in Budgets /\ r.name \in Names /\ \A b \in Book!Held \ {r.id} : names[b] # r.name
      BY <1>1, <2>3 DEF Requests, Refused, Taken, Book!Taken
    <3> QED BY <2>0, <2>3, <3>1, NoNameIsNone DEF NameIndexHolds, Named, Book!NamesDiffer, Book!Held
  <2> QED BY <1>1, <2>1, <2>2, <2>3 DEF Requests
<1> QED BY <1>2, <1>3, <1>4

(* A commit is one operation of the book. *)
LEMMA WriteIsABookStep ==
  ASSUME IInv, NEW t \in Txs, Write(t)
  PROVE  /\ names' = Named(op[t]) /\ active' = Marked(t) /\ End(t, "done")
         /\ Book!Next
<1> DEFINE r == op[t]
<1>1. pc[t] = "write"
  BY DEF Write, At
<1>2. names' = Named(r) /\ active' = Marked(t) /\ End(t, "done")
  BY <1>1, WritesFit DEF Write
<1>3. active' = IF r.kind = "rename" THEN active ELSE {r.id}
  BY <1>1, <1>2, WritesFit
<1>4. r \in Requests /\ r.kind # "record" /\ ~Refused(r)
  BY <1>1 DEF IInv, TypeOK, GateInv, JudgedInv, PastGate
<1>5. CASE r.kind = "create"
  <2>1. r.id \in Budgets /\ r.name \in Names /\ r.id \notin Book!Held
    BY <1>4, <1>5 DEF Requests, IInv, FreshInv, Creating, Held
  <2>2. Book!Start(r.id, r.name)
    BY <1>2, <1>3, <1>4, <1>5, <2>1 DEF Book!Start, Named, Refused, Taken
  <2> QED BY <1>2, <2>1, <2>2 DEF Book!Next
<1>6. CASE r.kind = "rename"
  <2>1. r.id \in Budgets /\ r.name \in Names /\ r.id \in Book!Held
    BY <1>4, <1>6 DEF Requests, Refused, Held
  <2>2. Book!Name(r.id, r.name)
    BY <1>2, <1>3, <1>4, <1>6, <2>1 DEF Book!Name, Named, Refused, Taken
  <2> QED BY <1>2, <2>1, <2>2 DEF Book!Next
<1>7. CASE r.kind = "activate"
  <2>1. r.id \in Budgets /\ r.id \in Book!Held
    BY <1>4, <1>7 DEF Requests, Refused, Held
  <2>2. Book!Open(r.id)
    BY <1>2, <1>3, <1>7, <2>1 DEF Book!Open, Named
  <2> QED BY <1>2, <2>1, <2>2 DEF Book!Next
<1> QED BY <1>2, <1>4, <1>5, <1>6, <1>7 DEF Requests

(* The book stays consistent under its own operations. *)
LEMMA BookStepKeepsBook ==
  ASSUME names \in [Budgets -> Names \union {NoName}], BookInv, Book!Next
  PROVE  BookInv'
<1>1. PICK b \in Budgets : \/ \E n \in Names : Book!Start(b, n) \/ Book!Name(b, n)
                           \/ Book!Open(b)
  BY DEF Book!Next
<1>2. CASE \E n \in Names : Book!Start(b, n)
  BY <1>2, NoNameIsNone
     DEF BookInv, Book!Start, Book!NamesDiffer, Book!ExactlyOneActive, Book!Held, Book!Taken
<1>3. CASE \E n \in Names : Book!Name(b, n)
  BY <1>3, NoNameIsNone
     DEF BookInv, Book!Name, Book!NamesDiffer, Book!ExactlyOneActive, Book!Held, Book!Taken
<1>4. CASE Book!Open(b)
  BY <1>4 DEF BookInv, Book!Open, Book!NamesDiffer, Book!ExactlyOneActive, Book!Held
<1> QED BY <1>1, <1>2, <1>3, <1>4

(* A step that leaves the rows alone and only ends a request keeps the invariant. *)
LEMMA EndKeeps ==
  ASSUME IInv, NEW t \in Txs, pc[t] # "idle",
         NEW how \in {"done", "refused", "lost"}, End(t, how), UNCHANGED <<names, active>>
  PROVE  IInv'
<1> USE DEF End, Release, GoTo, NoRequest
<1>1. TypeOK'
  BY DEF IInv, TypeOK, Requests
<1>2. GateInv'
  BY NoTxIsNone DEF IInv, TypeOK, GateInv, PastGate
<1>3. \A u \in Txs : (op'[u] = IF u = t THEN [kind |-> "record"] ELSE op[u])
                  /\ (pc'[u] = IF u = t THEN "idle" ELSE pc[u])
                  /\ (u # t => found'[u] = found[u])
  BY DEF IInv, TypeOK
<1>4. JudgedInv'
  BY <1>3 DEF IInv, JudgedInv, Refused, Standing, Current, Taken, Held, Book!Taken, Book!Held
<1>5. FreshInv'
  BY <1>3 DEF IInv, FreshInv, Creating, Held, Book!Held
<1>6. BookInv'
  BY DEF IInv, BookInv, Book!NamesDiffer, Book!ExactlyOneActive, Book!Held
<1> QED BY <1>1, <1>2, <1>4, <1>5, <1>6 DEF IInv, NobodyFailsOnTheIndex

(* So does the commit of a judged request. *)
LEMMA WriteKeeps ==
  ASSUME IInv, NEW t \in Txs, Write(t)
  PROVE  IInv'
<1> DEFINE r == op[t]
<1>1. pc[t] = "write" /\ names' = Named(r) /\ active' = Marked(t) /\ End(t, "done") /\ Book!Next
  BY WriteIsABookStep DEF Write, At
<1>2. r \in Requests /\ r.kind # "record" /\ ~Refused(r)
  BY <1>1 DEF IInv, TypeOK, GateInv, JudgedInv, PastGate
<1>3. BookInv'
  BY <1>1, BookStepKeepsBook DEF IInv, TypeOK
<1>4. active' = IF r.kind = "rename" THEN active ELSE {r.id}
  BY <1>1, WritesFit
<1>5. names' \in [Budgets -> Names \union {NoName}] /\ active' \in SUBSET Budgets
  BY <1>1, <1>2, <1>4 DEF IInv, TypeOK, Named, Requests
<1>6. TypeOK'
  BY <1>1, <1>5 DEF IInv, TypeOK, End, Release, GoTo, NoRequest, Requests
<1>7. \A u \in Txs : (op'[u] = IF u = t THEN [kind |-> "record"] ELSE op[u])
                  /\ (pc'[u] = IF u = t THEN "idle" ELSE pc[u])
  BY <1>1 DEF IInv, TypeOK, End, GoTo, NoRequest
<1>8. gate = t /\ gate' = NoTx /\ answer' = "done"
  BY <1>1 DEF IInv, GateInv, PastGate, End, Release
<1>9. GateInv'
  BY <1>7, <1>8, NoTxIsNone DEF IInv, GateInv, PastGate
<1>10. JudgedInv'
  BY <1>7, <1>8 DEF IInv, GateInv, PastGate, JudgedInv
<1>11. Held' \subseteq Held \union {r.id} /\ (r.kind # "create" => Held' = Held)
  BY <1>1, <1>2, NoNameIsNone
     DEF Held, Book!Held, Named, IInv, TypeOK, Requests, Refused
<1>12. FreshInv'
  BY <1>7, <1>11 DEF IInv, FreshInv, Creating
<1> QED BY <1>3, <1>6, <1>8, <1>9, <1>10, <1>12 DEF IInv, NobodyFailsOnTheIndex

(* The steps between, which move no row of the book. *)
LEMMA QuietKeeps ==
  ASSUME IInv, NEW t \in Txs,
         \/ \E r \in Menu : Ask(t, r) \/ Intend(t, r)
         \/ TakeGate(t) \/ HoldRows(t) \/ Judge(t) \/ Enter(t) \/ Resolve(t)
         \/ Record(t) \/ GiveUp(t)
  PROVE  IInv' /\ UNCHANGED <<names, active>>
<1>0. IInv
  OBVIOUS
<1>a. UNCHANGED <<names, active>>
  BY DEF Ask, Intend, TakeGate, HoldRows, Judge, Enter, Resolve, Record, GiveUp
<1>b. BookInv' /\ Held' = Held
  BY <1>0, <1>a DEF IInv, BookInv, Book!NamesDiffer, Book!ExactlyOneActive, Book!Held, Held
<1>c. \A r : Refused(r)' = Refused(r) /\ Standing(r)' = Standing(r) /\ Current(r)' = Current(r)
  BY <1>a DEF Refused, Standing, Current, Taken, Held, Book!Taken, Book!Held
<1>1. CASE \E r \in Menu : Ask(t, r)
  <2>1. PICK r \in Menu : Ask(t, r)
    BY <1>1
  <2>2. r \in Requests
    BY MenuIsServed
  <2>3. \A u \in Txs : (op'[u] = IF u = t THEN r ELSE op[u])
                    /\ (pc'[u] = IF u = t THEN "gate" ELSE pc[u])
    BY <2>1, <1>0 DEF Ask, GoTo, IInv, TypeOK
  <2>4. TypeOK'
    BY <2>1, <2>2, <1>0 DEF Ask, GoTo, IInv, TypeOK
  <2>5. GateInv'
    BY <2>1, <2>3, <1>0 DEF Ask, At, IInv, GateInv, PastGate
  <2>6. JudgedInv'
    BY <2>1, <2>3, <1>0, <1>c DEF Ask, IInv, JudgedInv
  <2>7. FreshInv'
    BY <2>1, <2>3, <1>0, <1>b DEF Ask, At, Fresh, IInv, FreshInv, Creating
  <2> QED BY <2>1, <2>4, <2>5, <2>6, <2>7, <1>0, <1>a, <1>b DEF Ask, IInv, NobodyFailsOnTheIndex
<1>2. CASE \E r \in Menu : Intend(t, r)
  <2>1. PICK r \in Menu : Intend(t, r)
    BY <1>2
  <2>2. CASE active = {}
    <3>1. UNCHANGED <<gate, rows, pc, op, found, intended, scope>> /\ answer' = "refused"
      BY <2>1, <2>2 DEF Intend
    <3> QED BY <3>1, <1>0, <1>a, <1>b, <1>c
         DEF IInv, TypeOK, GateInv, JudgedInv, FreshInv, Creating, NobodyFailsOnTheIndex
  <2>3. CASE active # {}
    <3>1. PICK b \in active : /\ op' = [op EXCEPT ![t] = r]
                              /\ intended' = [intended EXCEPT ![t] = b]
                              /\ pc' = [pc EXCEPT ![t] = "enter"]
                              /\ UNCHANGED <<gate, rows, found, scope, answer>>
      BY <2>1, <2>3 DEF Intend, GoTo
    <3>2. r \in Requests /\ r.kind = "record" /\ pc[t] = "idle" /\ b \in Budgets
      BY <2>1, <1>0, MenuIsServed DEF Intend, At, IInv, TypeOK
    <3>3. \A u \in Txs : (op'[u] = IF u = t THEN r ELSE op[u])
                      /\ (pc'[u] = IF u = t THEN "enter" ELSE pc[u])
      BY <3>1, <1>0 DEF IInv, TypeOK
    <3>4. TypeOK'
      BY <3>1, <3>2, <1>0, <1>a DEF IInv, TypeOK
    <3>5. GateInv'
      BY <3>1, <3>2, <3>3, <1>0 DEF IInv, GateInv, PastGate
    <3>6. JudgedInv'
      BY <3>1, <3>3, <1>0, <1>c DEF IInv, JudgedInv
    <3>7. FreshInv'
      BY <3>2, <3>3, <1>0, <1>b DEF IInv, FreshInv, Creating
    <3> QED BY <3>1, <3>4, <3>5, <3>6, <3>7, <1>0, <1>a, <1>b DEF IInv, NobodyFailsOnTheIndex
  <2> QED BY <2>2, <2>3, <1>a
<1>3. CASE TakeGate(t)
  <2> USE <1>0, <1>3 DEF TakeGate, GoTo, At, GateOpens
  <2>1. TypeOK'
    BY DEF IInv, TypeOK
  <2>2. GateInv'
    BY NoTxIsNone DEF IInv, TypeOK, GateInv, PastGate
  <2>3. JudgedInv'
    BY <1>c DEF IInv, TypeOK, JudgedInv
  <2>4. FreshInv'
    BY <1>b DEF IInv, TypeOK, FreshInv, Creating
  <2> QED BY <2>1, <2>2, <2>3, <2>4, <1>a, <1>b DEF IInv, NobodyFailsOnTheIndex
<1>4. CASE HoldRows(t)
  <2> USE <1>0, <1>4 DEF HoldRows, GoTo, At
  <2>1. TypeOK'
    BY DEF IInv, TypeOK, Held, Book!Held
  <2>2. GateInv'
    BY DEF IInv, TypeOK, GateInv, PastGate
  <2>3. JudgedInv'
    BY <1>c DEF IInv, TypeOK, JudgedInv
  <2>4. FreshInv'
    BY <1>b DEF IInv, TypeOK, FreshInv, Creating
  <2> QED BY <2>1, <2>2, <2>3, <2>4, <1>a, <1>b DEF IInv, NobodyFailsOnTheIndex
<1>5. CASE Judge(t)
  <2>1. CASE End(t, "refused") \/ End(t, "done")
    BY <2>1, <1>0, <1>5, <1>a, EndKeeps DEF Judge, At
  <2>2. CASE /\ ~Refused(op[t]) /\ ~Standing(op[t])
             /\ found' = [found EXCEPT ![t] = Current(op[t])]
             /\ pc' = [pc EXCEPT ![t] = "write"]
             /\ UNCHANGED <<gate, rows, op, intended, scope, answer>>
    <3>1. pc[t] = "judge"
      BY <1>5 DEF Judge, At
    <3>2. TypeOK'
      BY <2>2, <1>0, <1>a DEF IInv, TypeOK, Current
    <3>3. GateInv'
      BY <2>2, <3>1, <1>0 DEF IInv, TypeOK, GateInv, PastGate
    <3>4. \A u \in Txs : (pc'[u] = IF u = t THEN "write" ELSE pc[u])
                      /\ (found'[u] = IF u = t THEN Current(op[t]) ELSE found[u])
                      /\ op'[u] = op[u]
      BY <2>2, <1>0 DEF IInv, TypeOK
    <3>5. JudgedInv'
      BY <2>2, <3>4, <1>0, <1>c DEF IInv, JudgedInv
    <3>6. FreshInv'
      BY <3>4, <1>0, <1>b DEF IInv, FreshInv, Creating
    <3> QED BY <2>2, <3>2, <3>3, <3>5, <3>6, <1>0, <1>a, <1>b DEF IInv, NobodyFailsOnTheIndex
  <2> QED BY <1>5, <1>a, <2>1, <2>2 DEF Judge, GoTo
<1>6. CASE Enter(t)
  <2>1. CASE End(t, "refused")
    BY <2>1, <1>0, <1>6, <1>a, EndKeeps DEF Enter, At
  <2>2. CASE pc' = [pc EXCEPT ![t] = "scope"] /\ UNCHANGED <<gate, rows, op, found, intended, scope, answer>>
    <3>1. pc[t] = "enter"
      BY <1>6 DEF Enter, At
    <3>2. TypeOK' /\ GateInv'
      BY <2>2, <3>1, <1>0, <1>a DEF IInv, TypeOK, GateInv, PastGate
    <3>3. JudgedInv' /\ FreshInv'
      BY <2>2, <1>0, <1>b, <1>c DEF IInv, TypeOK, JudgedInv, FreshInv, Creating
    <3> QED BY <2>2, <3>2, <3>3, <1>0, <1>a, <1>b DEF IInv, NobodyFailsOnTheIndex
  <2> QED BY <1>6, <1>a, <2>1, <2>2 DEF Enter, GoTo
<1>7. CASE Resolve(t)
  <2> USE <1>0, <1>7 DEF Resolve, GoTo, At
  <2>1. TypeOK' /\ GateInv'
    BY DEF IInv, TypeOK, GateInv, PastGate
  <2>2. JudgedInv'
    BY <1>c DEF IInv, TypeOK, JudgedInv
  <2>3. FreshInv'
    BY <1>b DEF IInv, TypeOK, FreshInv, Creating
  <2> QED BY <2>1, <2>2, <2>3, <1>a, <1>b DEF IInv, NobodyFailsOnTheIndex
<1>8. CASE Record(t)
  BY <1>0, <1>8, <1>a, EndKeeps DEF Record, At
<1>9. CASE GiveUp(t)
  BY <1>0, <1>9, <1>a, EndKeeps DEF GiveUp
<1> QED BY <1>1, <1>2, <1>3, <1>4, <1>5, <1>6, <1>7, <1>8, <1>9, <1>a

(* Every step keeps the invariant, and is a step of the book or no step of it at all. *)
LEMMA StepKeeps == IInv /\ [Next]_vars => IInv' /\ [Book!Next]_<<names, active>>
<1> SUFFICES ASSUME IInv, [Next]_vars PROVE IInv' /\ [Book!Next]_<<names, active>>
  OBVIOUS
<1>1. CASE UNCHANGED vars
  BY <1>1 DEF vars, IInv, TypeOK, GateInv, JudgedInv, FreshInv, BookInv, NobodyFailsOnTheIndex,
     Creating, Refused, Standing, Current, Taken, Held, Book!Taken, Book!Held, Book!NamesDiffer,
     Book!ExactlyOneActive
<1>2. CASE Next
  <2>1. PICK t \in Txs : \/ \E r \in Menu : Ask(t, r) \/ Intend(t, r)
                         \/ TakeGate(t) \/ Step(t) \/ Record(t) \/ GiveUp(t)
    BY <1>2 DEF Next
  <2>2. CASE Write(t)
    BY <2>2, WriteKeeps, WriteIsABookStep
  <2>3. CASE ~Write(t)
    BY <2>1, <2>3, QuietKeeps DEF Step
  <2> QED BY <2>2, <2>3
<1> QED BY <1>1, <1>2

(* Every consistent book with nobody at work satisfies it. *)
LEMMA InitHolds == Init => IInv
<1> SUFFICES ASSUME Init PROVE IInv
  OBVIOUS
<1>1. TypeOK
  BY DEF Init, Book!Init, TypeOK, NoRequest, Requests
<1>2. GateInv /\ JudgedInv /\ FreshInv
  BY NoTxIsNone DEF Init, GateInv, JudgedInv, FreshInv, PastGate, Creating, NoRequest
<1> QED BY <1>1, <1>2 DEF Init, Book!Init, IInv, BookInv, NobodyFailsOnTheIndex

(* The inductive invariant of ActiveBudget, for every value of its constants. *)
THEOREM Invariance == Spec => []IInv
<1>1. Init => IInv
  BY InitHolds
<1>2. IInv /\ [Next]_vars => IInv'
  BY StepKeeps
<1> QED BY <1>1, <1>2, PTL DEF Spec

(* A user with budgets has exactly one active, whatever arrives together. *)
THEOREM OneIsActive == Spec => []ExactlyOneActive
<1>1. IInv => ExactlyOneActive
  BY DEF IInv, BookInv, ExactlyOneActive
<1> QED BY <1>1, Invariance, PTL

(* No creation, renaming or activation ends on the index of the active budget. *)
THEOREM NobodyFails == Spec => []NobodyFailsOnTheIndex
<1>1. IInv => NobodyFailsOnTheIndex
  BY DEF IInv
<1> QED BY <1>1, Invariance, PTL

(* The code of apps/api/src/budgets implements the book. *)
THEOREM KeepsTheBook == Spec => BookIsKept
<1>1. Init => Book!Init
  BY DEF Init
<1>2. IInv /\ [Next]_vars => [Book!Next]_<<names, active>>
  BY StepKeeps
<1> QED BY <1>1, <1>2, Invariance, PTL DEF Spec, BookIsKept, Book!Spec, Book!book

-----------------------------------------------------------------------------
(* The erase *)

(* The statement that reaches a row. *)
Turn(row) == CHOOSE n \in 1..12 : Statements[n] = row[1]

Owners == (Writers \cup {"erase", "seed"}) \X (0..2)
Rows == Tables \X Owners

LEMMA Order ==
  /\ Len(Statements) = 12
  /\ \A n \in 1..12 : Statements[n] \in Tables
  /\ \A m, n \in 1..12 : Statements[m] = Statements[n] => m = n
  /\ \A t \in Tables : \E n \in 1..12 : Statements[n] = t
  /\ \A t \in BudgetTables : \E n \in 1..10 : Statements[n] = t
  /\ Statements[10] = "budget" /\ Statements[12] = "idempotency_key"
<1>1. \A n \in 1..12 : n = 1 \/ n = 2 \/ n = 3 \/ n = 4 \/ n = 5 \/ n = 6 \/ n = 7 \/ n = 8
                        \/ n = 9 \/ n = 10 \/ n = 11 \/ n = 12
  OBVIOUS
<1>2. Len(Statements) = 12 /\ \A n \in 1..12 : Statements[n] \in Tables
  BY <1>1 DEF Statements, Tables
<1>3. \A m, n \in 1..12 : Statements[m] = Statements[n] => m = n
  BY <1>1 DEF Statements
<1>4. \A t \in BudgetTables : \E n \in 1..10 : Statements[n] = t
  BY DEF Statements, BudgetTables, Tables
<1>5. /\ Statements[10] = "budget" /\ Statements[12] = "idempotency_key"
      /\ Statements[11] = "user_settings"
  BY DEF Statements
<1>6. \A t \in Tables : \E n \in 1..12 : Statements[n] = t
  BY <1>4, <1>5 DEF BudgetTables
<1> QED BY <1>2, <1>3, <1>4, <1>5, <1>6

(* Every row has one statement; those of a budget are before it, and a key  *)
(* is the last.                                                             *)
LEMMA Turns ==
  /\ \A r \in Rows : Turn(r) \in 1..12 /\ Statements[Turn(r)] = r[1]
  /\ \A r \in Rows, n \in 1..12 : Statements[n] = r[1] <=> Turn(r) = n
  /\ \A r \in Rows : r[1] \in BudgetTables => Turn(r) <= 10
  /\ \A r \in Rows : r[1] = "budget" <=> Turn(r) = 10
  /\ \A r \in Rows : r[1] = "idempotency_key" <=> Turn(r) = 12
<1>1. \A r \in Rows : r[1] \in Tables
  BY DEF Rows
<1>2. \A r \in Rows : Turn(r) \in 1..12 /\ Statements[Turn(r)] = r[1]
  BY <1>1, Order DEF Turn
<1>3. \A r \in Rows, n \in 1..12 : Statements[n] = r[1] <=> Turn(r) = n
  BY <1>2, Order
<1>4. ASSUME NEW r \in Rows, r[1] \in BudgetTables PROVE Turn(r) <= 10
  <2>1. PICK n \in 1..10 : Statements[n] = r[1]
    BY <1>4, Order
  <2> QED BY <2>1, <1>3, <1>4
<1>5. 10 \in 1..12 /\ 12 \in 1..12
  OBVIOUS
<1> QED BY <1>2, <1>3, <1>4, <1>5, Order

-----------------------------------------------------------------------------
Whole(a) == RowsOf(a) \cup {KeyRow(WriterOf(a))}
Done(a) == at[a].st = "done"
Swept == dying \cup erase.seen

Typed ==
  /\ plan \in [Writers -> Plans]
  /\ at \in [Attempts -> [st : {"idle", "running", "replayed", "refused", "done"}, n : Nat \ {0}]]
  /\ fresh \in [Openers -> SUBSET Rows]
  /\ live \subseteq Rows /\ dying \subseteq Rows /\ before \subseteq Rows
  /\ erase \in [st : {"idle", "running", "failed", "done"}, n : 0..12, seen : SUBSET Rows]

(* What an open transaction has written: its key, which nobody else has, and *)
(* the rows of the steps behind it.                                         *)
HasWritten(a) ==
  /\ KeyRow(WriterOf(a)) \in fresh[a] \ live
  /\ \A m \in DOMAIN PlanOf(a) :
       m < at[a].n /\ PlanOf(a)[m].act = "insert" => <<PlanOf(a)[m].table, a>> \in fresh[a]
  /\ \A r \in fresh[a] : r = KeyRow(WriterOf(a)) \/ r[2] = a

OpenInv ==
  /\ \A a \in Attempts : at[a].st = "idle" => at[a].n = 1
  /\ \A a \in Attempts : Running(a) => HasWritten(a)
  /\ \A a, b \in Attempts : Running(a) /\ Running(b) /\ WriterOf(a) = WriterOf(b) => a = b
  /\ Erasing => fresh[Eraser] = {EraseKey}

(* A row an attempt owns is there only when the attempt has committed.      *)
RowsInv == \A r \in live \cup before : r[2] \in Attempts => Done(r[2])

(* Until the erase commits, every row committed is there, and so is the     *)
(* seed.                                                                    *)
StandInv ==
  /\ EraseKey \in live <=> Erased
  /\ ~Erased => Seed \subseteq live /\ \A a \in Attempts : Done(a) => Whole(a) \subseteq live

(* The statements so far reached every row that was there when the erase    *)
(* began, and of a write they reached they missed nothing that was still to *)
(* come.                                                                    *)
SweepInv ==
  IF Erasing
    THEN /\ Swept \subseteq live
         /\ before \subseteq live /\ Seed \subseteq before
         /\ \A r \in Swept : Turn(r) <= erase.n
         /\ \A r \in before : Turn(r) <= erase.n => r \in Swept
         /\ \A a \in Attempts : Done(a) =>
              \A r \in RowsOf(a) \cap Swept, q \in Whole(a) :
                Turn(r) <= Turn(q) /\ Turn(q) <= erase.n => q \in Swept
    ELSE Swept = {}

EraseInv ==
  Typed /\ OpenInv /\ RowsInv /\ StandInv /\ SweepInv /\ LeavesNothingHalf /\ KeysAnswerForRows

-----------------------------------------------------------------------------
(* What the steps of a writer come to. *)

Starts(a) ==
  /\ at[a].st = "idle" /\ ~ClaimWaits(WriterOf(a)) /\ KeyRow(WriterOf(a)) \notin live
  /\ at' = [at EXCEPT ![a].st = "running"]
  /\ fresh' = [fresh EXCEPT ![a] = {KeyRow(WriterOf(a))}]
  /\ UNCHANGED <<plan, live, dying, erase, before>>

Stops(a, st) ==
  /\ at[a].st \in {"idle", "running"}
  /\ at' = [at EXCEPT ![a] = [st |-> st, n |-> 1]]
  /\ fresh' = [fresh EXCEPT ![a] = {}]
  /\ UNCHANGED <<plan, live, dying, erase, before>>

Goes(a, new) ==
  /\ Running(a) /\ at[a].n \in DOMAIN PlanOf(a)
  /\ at' = [at EXCEPT ![a].n = @ + 1]
  /\ fresh' = [fresh EXCEPT ![a] = @ \cup new]
  /\ PlanOf(a)[at[a].n].act = "insert" => <<PlanOf(a)[at[a].n].table, a>> \in new
  /\ UNCHANGED <<plan, live, dying, erase, before>>

Locks == UNCHANGED <<plan, at, fresh, live, dying, erase, before>>

EraseFails == Erasing /\ EraseEnds("failed") /\ UNCHANGED live

LEMMA Written ==
  ASSUME EraseAssumption, Typed, NEW a \in Attempts
  PROVE  /\ WriterOf(a) \in Writers /\ PlanOf(a) \in Seq(Steps)
         /\ Inserts(a) \subseteq BudgetTables /\ RowsOf(a) \subseteq Rows
         /\ Whole(a) \subseteq Rows /\ KeyRow(WriterOf(a)) \in Rows
         /\ \A r \in RowsOf(a) : r[1] \in BudgetTables /\ r[2] = a
         /\ KeyRow(WriterOf(a))[2] \notin Attempts /\ KeyRow(WriterOf(a)) # EraseKey
         /\ \A t \in Tables : <<t, a>> \in Rows
<1>1. WriterOf(a) \in Writers /\ a \in Owners
  BY DEF WriterOf, Attempts, Owners
<1>2. PlanOf(a) \in Seq(Steps)
  BY <1>1 DEF PlanOf, Typed, EraseAssumption
<1>3. \A m \in DOMAIN PlanOf(a) : PlanOf(a)[m].act = "insert" => PlanOf(a)[m].table \in BudgetTables
  <2> SUFFICES ASSUME NEW m \in DOMAIN PlanOf(a), PlanOf(a)[m].act = "insert"
               PROVE  PlanOf(a)[m].table \in BudgetTables
    OBVIOUS
  <2>1. PlanOf(a)[m] \in Steps
    BY <1>2
  <2> QED BY <2>1 DEF Steps
<1>4. Inserts(a) \subseteq BudgetTables
  BY <1>3 DEF Inserts
<1>5. \A t \in Tables : <<t, a>> \in Rows
  BY <1>1 DEF Rows
<1>6. BudgetTables \subseteq Tables /\ "idempotency_key" \in Tables
  BY DEF BudgetTables, Tables
<1>7. KeyRow(WriterOf(a)) = <<"idempotency_key", <<WriterOf(a), 0>>>> /\ <<WriterOf(a), 0>> \in Owners
  BY <1>1 DEF KeyRow, Owners
<1>8. <<WriterOf(a), 0>> \notin Attempts
  BY DEF Attempts
<1>9. WriterOf(a) # "erase"
  BY <1>1 DEF EraseAssumption
<1>10. KeyRow(WriterOf(a)) \in Rows /\ KeyRow(WriterOf(a))[2] \notin Attempts
  BY <1>6, <1>7, <1>8 DEF Rows
<1>11. KeyRow(WriterOf(a)) # EraseKey
  BY <1>7, <1>9 DEF EraseKey, KeyRow
<1>12. RowsOf(a) \subseteq Rows /\ \A r \in RowsOf(a) : r[1] \in BudgetTables /\ r[2] = a
  BY <1>4, <1>5, <1>6 DEF RowsOf
<1> QED BY <1>1, <1>2, <1>4, <1>5, <1>10, <1>11, <1>12 DEF Whole

LEMMA WriterDoes ==
  ASSUME EraseAssumption, Typed, NEW a \in Attempts, WriterStep(a)
  PROVE  \/ Locks \/ Starts(a) \/ EraseFails \/ Commit(a)
         \/ \E st \in {"replayed", "refused"} : Stops(a, st)
         \/ \E new \in SUBSET {<<t, a>> : t \in Tables} : Goes(a, new)
<1> DEFINE Goal == \/ Locks \/ Starts(a) \/ EraseFails \/ Commit(a)
                   \/ \E st \in {"replayed", "refused"} : Stops(a, st)
                   \/ \E new \in SUBSET {<<t, a>> : t \in Tables} : Goes(a, new)
<1>1. /\ PlanOf(a) \in Seq(Steps) /\ a \in Openers
      /\ BudgetTables \subseteq Tables /\ "user_settings" \in Tables
  BY Written DEF Openers, BudgetTables, Tables
<1>2. \A act : Doing(a, act) => /\ at[a].n \in DOMAIN PlanOf(a)
                                /\ PlanOf(a)[at[a].n] \in Steps
  <2> SUFFICES ASSUME NEW act, Doing(a, act)
               PROVE  /\ at[a].n \in DOMAIN PlanOf(a) /\ PlanOf(a)[at[a].n] \in Steps
    OBVIOUS
  <2>1. at[a].n \in Nat \ {0} /\ Len(PlanOf(a)) \in Nat /\ at[a].n <= Len(PlanOf(a))
    BY <1>1 DEF Typed, Doing
  <2>2. at[a].n \in 1..Len(PlanOf(a))
    BY <2>1
  <2> QED BY <2>2, <1>1
<1>3. CASE Claim(a)
  BY <1>3 DEF Claim, Ends, Stops, Starts
<1>4. CASE Commit(a)
  BY <1>4
<1>5. CASE Deadlock(a)
  BY <1>5 DEF Deadlock, EraseFails, Stops, Ends, Stuck, Running
<1>6. CASE \E row \in checks[a] : Check(a, row)
  BY <1>6 DEF Check, Stops, Ends, Locks, Running
<1>7. CASE Insert(a)
  <2>1. PlanOf(a)[at[a].n].table \in Tables
    BY <1>1, <1>2, <1>7 DEF Insert, Doing, Steps
  <2>2. Goes(a, {<<PlanOf(a)[at[a].n].table, a>>})
    BY <1>2, <1>7 DEF Insert, Goes, Doing
  <2> QED BY <2>1, <2>2
<1>8. CASE Hold(a)
  <2>1. CASE held' = [held EXCEPT ![a] = @ \cup {<<PlanOf(a)[at[a].n].table, PlanOf(a)[at[a].n].owner>>}]
             /\ at' = [at EXCEPT ![a].n = @ + 1] /\ UNCHANGED <<fresh, checks>>
    <3>1. fresh' = [fresh EXCEPT ![a] = @ \cup {}]
      BY <2>1 DEF Typed
    <3>2. Goes(a, {})
      BY <1>2, <1>8, <2>1, <3>1 DEF Hold, Goes, Doing
    <3> QED BY <3>2
  <2>2. CASE Ends(a, "refused")
    BY <1>8, <2>2 DEF Hold, Doing, Stops, Ends, Running
  <2> QED BY <1>8, <2>1, <2>2 DEF Hold
<1>9. ASSUME NEW act \in {"take", "upsert"}, Take(a, act) PROVE Goal
  <2> DEFINE table == PlanOf(a)[at[a].n].table
  <2>1. Doing(a, act) /\ PlanOf(a)[at[a].n] \in Steps
    BY <1>2, <1>9 DEF Take
  <2>2. table \in Tables
    BY <2>1, <1>1 DEF Steps, Doing
  <2>3. PICK new \in SUBSET {<<t, a>> : t \in Tables} : fresh' = [fresh EXCEPT ![a] = @ \cup new]
    <3>1. CASE act = "upsert" /\ There(table) = {}
      <4>1. fresh' = [fresh EXCEPT ![a] = @ \cup {<<table, a>>}]
        BY <3>1, <1>9 DEF Take
      <4> QED BY <4>1, <2>2
    <3>2. CASE ~(act = "upsert" /\ There(table) = {})
      <4>1. fresh' = fresh
        BY <3>2, <1>9 DEF Take
      <4>2. fresh' = [fresh EXCEPT ![a] = @ \cup {}]
        BY <4>1 DEF Typed
      <4> QED BY <4>2
    <3> QED BY <3>1, <3>2
  <2>4. Goes(a, new)
    BY <1>2, <1>9, <2>1, <2>3 DEF Take, Goes, Doing
  <2> QED BY <2>4
<1> QED BY <1>3, <1>4, <1>5, <1>6, <1>7, <1>8, <1>9 DEF WriterStep

-----------------------------------------------------------------------------
(* Each of them keeps the invariant. *)

LEMMA EraseStarts == ASSUME EraseAssumption PROVE EraseInit => EraseInv
<1> SUFFICES ASSUME EraseInit PROVE EraseInv
  OBVIOUS
<1> USE DEF EraseInit
<1>1. Seed \subseteq Rows
  BY DEF Seed, Rows, Owners, Old, Pair, KeyRow, Tables
<1>2. Typed
  BY <1>1 DEF Typed
<1>3. \A a \in Attempts : ~Running(a) /\ ~Done(a)
  BY DEF Running, Done
<1>4. ~Erasing /\ ~Erased /\ Swept = {}
  BY DEF Erasing, Erased, Swept
<1>5. \A r \in live \cup before : r[2] \notin Attempts
  BY DEF Seed, Old, Pair, KeyRow, Attempts, EraseAssumption
<1>6. EraseKey \notin live
  BY DEF Seed, EraseKey, KeyRow, Old, Pair
<1> QED BY <1>2, <1>3, <1>4, <1>5, <1>6
        DEF EraseInv, OpenInv, RowsInv, StandInv, SweepInv, LeavesNothingHalf, KeysAnswerForRows

(* A step that changes no row and ends no attempt well. *)
LEMMA RowsStandStill ==
  ASSUME EraseInv, Typed', OpenInv', UNCHANGED <<plan, live, dying, erase, before>>,
         \A a \in Attempts : Done(a)' = Done(a)
  PROVE  EraseInv'
<1>1. /\ \A a \in Attempts : RowsOf(a)' = RowsOf(a) /\ Whole(a)' = Whole(a) /\ Once(a)' = Once(a)
      /\ Erasing' = Erasing /\ Erased' = Erased /\ Swept' = Swept
  <2>1. \A a \in Attempts : PlanOf(a)' = PlanOf(a)
    BY DEF PlanOf
  <2>2. \A a \in Attempts : RowsOf(a)' = RowsOf(a)
    BY <2>1 DEF RowsOf, Inserts
  <2>3. \A a \in Attempts : <<a[1], 3 - a[2]>> \in Attempts
    BY DEF Attempts
  <2>4. \A a \in Attempts : Once(a)' = Once(a)
    BY <2>3 DEF Once, Done
  <2> QED BY <2>2, <2>4 DEF Whole, Erasing, Erased, Swept
<1>2. RowsInv'
  BY DEF EraseInv, RowsInv
<1>3. StandInv'
  BY <1>1 DEF EraseInv, StandInv
<1>4. SweepInv'
  BY <1>1 DEF EraseInv, SweepInv
<1>5. LeavesNothingHalf'
  BY <1>1 DEF EraseInv, LeavesNothingHalf, Done
<1>6. KeysAnswerForRows'
  BY <1>1 DEF EraseInv, KeysAnswerForRows
<1> QED BY <1>2, <1>3, <1>4, <1>5, <1>6 DEF EraseInv

LEMMA LocksKeep == ASSUME EraseInv, Locks PROVE EraseInv'
<1>1. Typed' /\ \A a \in Attempts : Done(a)' = Done(a)
  BY DEF EraseInv, Typed, Locks, Done
<1>2. OpenInv'
  BY DEF EraseInv, OpenInv, HasWritten, Locks, Running, PlanOf, Erasing
<1> QED BY <1>1, <1>2, RowsStandStill DEF Locks

(* What an attempt does to others. *)
LEMMA Others ==
  ASSUME Typed, OpenInv, NEW a \in Attempts, Typed', UNCHANGED <<plan, erase>>,
         live' \subseteq live \cup fresh[a],
         \A b \in Attempts \ {a} : at'[b] = at[b] /\ fresh'[b] = fresh[b],
         fresh'[Eraser] = fresh[Eraser],
         at'[a].st = "idle" => at'[a].n = 1,
         Running(a)' => HasWritten(a)',
         Running(a)' => \A b \in Attempts : Running(b) /\ WriterOf(a) = WriterOf(b) => a = b,
         live' # live => Running(a)
  PROVE  OpenInv'
<1>1. ASSUME NEW b \in Attempts \ {a}, Running(b)' PROVE HasWritten(b)'
  <2>1. Running(b) /\ HasWritten(b) /\ at'[b] = at[b] /\ fresh'[b] = fresh[b] /\ PlanOf(b)' = PlanOf(b)
    BY <1>1 DEF Running, OpenInv, PlanOf
  <2>2. KeyRow(WriterOf(b)) \notin live'
    <3> SUFFICES ASSUME KeyRow(WriterOf(b)) \in live' PROVE FALSE
      OBVIOUS
    <3>1. Running(a) /\ KeyRow(WriterOf(b)) \in fresh[a]
      BY <2>1 DEF HasWritten
    <3>2. KeyRow(WriterOf(b)) = KeyRow(WriterOf(a)) \/ KeyRow(WriterOf(b))[2] = a
      BY <3>1 DEF OpenInv, HasWritten
    <3>3. KeyRow(WriterOf(b))[2] = <<WriterOf(b), 0>> /\ a # <<WriterOf(b), 0>>
      BY DEF KeyRow, Attempts
    <3>4. WriterOf(b) = WriterOf(a)
      BY <3>2, <3>3 DEF KeyRow
    <3> QED BY <3>1, <3>4, <2>1 DEF OpenInv
  <2> QED BY <2>1, <2>2 DEF HasWritten
<1>2. ASSUME NEW b \in Attempts, NEW c \in Attempts, Running(b)', Running(c)', WriterOf(b) = WriterOf(c)
      PROVE  b = c
  BY <1>2 DEF OpenInv, Running
<1>3. \A b \in Attempts : at'[b].st = "idle" => at'[b].n = 1
  BY DEF OpenInv
<1>4. Erasing' => fresh'[Eraser] = {EraseKey}
  BY DEF OpenInv, Erasing
<1> QED BY <1>1, <1>2, <1>3, <1>4 DEF OpenInv

LEMMA StartsKeep ==
  ASSUME EraseAssumption, EraseInv, NEW a \in Attempts, Starts(a) PROVE EraseInv'
<1> USE DEF EraseInv
<1>1. /\ KeyRow(WriterOf(a)) \in Rows /\ a \in Openers /\ Eraser \in Openers /\ a # Eraser
      /\ \A b \in Attempts : b \in Openers
  BY Written DEF Openers, Eraser, Attempts, EraseAssumption
<1>2. Typed'
  BY <1>1 DEF Typed, Starts
<1>3. /\ \A b \in Attempts \ {a} : at'[b] = at[b] /\ fresh'[b] = fresh[b]
      /\ fresh'[Eraser] = fresh[Eraser] /\ fresh'[a] = {KeyRow(WriterOf(a))}
      /\ at'[a].n = at[a].n /\ at'[a].st = "running" /\ at[a].st = "idle"
  BY <1>1 DEF Starts, Typed
<1>4. UNCHANGED <<plan, live, dying, erase, before>> /\ KeyRow(WriterOf(a)) \notin live
  BY DEF Starts
<1>5. PlanOf(a)' = PlanOf(a) /\ PlanOf(a) \in Seq(Steps) /\ at'[a].n = 1
  BY <1>3, <1>4, Written DEF OpenInv, PlanOf
<1>6. HasWritten(a)'
  <2>1. \A m \in DOMAIN PlanOf(a) : ~(m < 1)
    BY <1>5
  <2> QED BY <1>3, <1>4, <1>5, <2>1 DEF HasWritten
<1>7. \A b \in Attempts : Running(b) => WriterOf(a) # WriterOf(b)
  <2> SUFFICES ASSUME NEW b \in Attempts, Running(b), WriterOf(a) = WriterOf(b) PROVE FALSE
    OBVIOUS
  <2>1. KeyRow(WriterOf(a)) \in fresh[b]
    BY DEF OpenInv, HasWritten
  <2> QED BY <1>1, <2>1 DEF Starts, ClaimWaits
<1>8. OpenInv'
  BY <1>2, <1>3, <1>4, <1>6, <1>7, Others
<1>9. \A b \in Attempts : Done(b)' = Done(b)
  BY <1>3 DEF Done
<1> QED BY <1>2, <1>4, <1>8, <1>9, RowsStandStill

LEMMA StopsKeep ==
  ASSUME EraseAssumption, EraseInv, NEW a \in Attempts, NEW st \in {"replayed", "refused"}, Stops(a, st)
  PROVE  EraseInv'
<1> USE DEF EraseInv
<1>1. /\ a \in Openers /\ Eraser \in Openers /\ a # Eraser
      /\ \A b \in Attempts : b \in Openers
  BY Written DEF Openers, Eraser, Attempts, EraseAssumption
<1>2. Typed'
  BY <1>1 DEF Typed, Stops
<1>3. /\ \A b \in Attempts \ {a} : at'[b] = at[b] /\ fresh'[b] = fresh[b]
      /\ fresh'[Eraser] = fresh[Eraser]
      /\ at'[a].st = st /\ at[a].st \in {"idle", "running"}
  BY <1>1 DEF Stops, Typed
<1>4. UNCHANGED <<plan, live, dying, erase, before>>
  BY DEF Stops
<1>5. OpenInv'
  BY <1>2, <1>3, <1>4, Others DEF Running
<1>6. \A b \in Attempts : Done(b)' = Done(b)
  BY <1>3 DEF Done
<1> QED BY <1>2, <1>4, <1>5, <1>6, RowsStandStill

LEMMA GoesKeep ==
  ASSUME EraseAssumption, EraseInv, NEW a \in Attempts,
         NEW new \in SUBSET {<<t, a>> : t \in Tables}, Goes(a, new)
  PROVE  EraseInv'
<1> USE DEF EraseInv
<1>1. /\ a \in Openers /\ Eraser \in Openers /\ a # Eraser
      /\ \A b \in Attempts : b \in Openers
      /\ new \subseteq Rows /\ \A r \in new : r[2] = a
      /\ KeyRow(WriterOf(a))[2] \notin Attempts
  BY Written DEF Openers, Eraser, Attempts, EraseAssumption
<1>2. Typed'
  <2>1. at' \in [Attempts -> [st : {"idle", "running", "replayed", "refused", "done"}, n : Nat \ {0}]]
    <3>1. at[a].n + 1 \in Nat \ {0}
      BY DEF Typed
    <3> QED BY <3>1 DEF Typed, Goes
  <2>2. fresh' \in [Openers -> SUBSET Rows]
    BY <1>1 DEF Typed, Goes
  <2> QED BY <2>1, <2>2 DEF Typed, Goes
<1>3. /\ \A b \in Attempts \ {a} : at'[b] = at[b] /\ fresh'[b] = fresh[b]
      /\ fresh'[Eraser] = fresh[Eraser] /\ fresh'[a] = fresh[a] \cup new
      /\ at'[a].st = at[a].st /\ at'[a].n = at[a].n + 1 /\ at[a].st = "running"
      /\ at[a].n \in Nat
  BY <1>1 DEF Goes, Typed, Running
<1>4. UNCHANGED <<plan, live, dying, erase, before>>
  BY DEF Goes
<1>5. PlanOf(a)' = PlanOf(a) /\ PlanOf(a) \in Seq(Steps) /\ HasWritten(a)
  BY <1>3, <1>4, Written DEF OpenInv, PlanOf, Running
<1>6. HasWritten(a)'
  <2>1. ASSUME NEW m \in DOMAIN PlanOf(a), m < at[a].n + 1, PlanOf(a)[m].act = "insert"
        PROVE  <<PlanOf(a)[m].table, a>> \in fresh[a] \cup new
    <3>1. m < at[a].n \/ m = at[a].n
      BY <2>1, <1>3, <1>5
    <3> QED BY <3>1, <2>1, <1>5 DEF HasWritten, Goes
  <2> QED BY <1>1, <1>3, <1>4, <1>5, <2>1 DEF HasWritten
<1>7. OpenInv'
  BY <1>2, <1>3, <1>4, <1>6, Others DEF OpenInv, Running
<1>8. \A b \in Attempts : Done(b)' = Done(b)
  BY <1>3 DEF Done
<1> QED BY <1>2, <1>4, <1>7, <1>8, RowsStandStill

LEMMA CommitKeeps ==
  ASSUME EraseAssumption, EraseInv, NEW a \in Attempts, Commit(a) PROVE EraseInv'
<1> USE DEF EraseInv
<1>1. /\ a \in Openers /\ Eraser \in Openers /\ a # Eraser
      /\ \A b \in Attempts : b \in Openers
  BY Written DEF Openers, Eraser, Attempts, EraseAssumption
<1>2. Typed' /\ UNCHANGED <<plan, dying, erase, before>> /\ live' = live \cup fresh[a]
  BY <1>1 DEF Typed, Commit, Ends
<1>3. /\ \A b \in Attempts \ {a} : at'[b] = at[b] /\ fresh'[b] = fresh[b]
      /\ fresh'[Eraser] = fresh[Eraser]
      /\ at'[a].st = "done" /\ Running(a)
  BY <1>1 DEF Commit, Ends, Typed
<1>4. OpenInv'
  BY <1>2, <1>3, Others DEF Running
<1>5. /\ Done(a)' /\ ~Done(a)
      /\ \A b \in Attempts \ {a} : Done(b)' = Done(b)
      /\ \A b \in Attempts : RowsOf(b)' = RowsOf(b) /\ Whole(b)' = Whole(b)
      /\ Erasing' = Erasing /\ Erased' = Erased /\ Swept' = Swept
  <2>1. \A b \in Attempts : PlanOf(b)' = PlanOf(b)
    BY <1>2 DEF PlanOf
  <2>2. \A b \in Attempts : RowsOf(b)' = RowsOf(b)
    BY <2>1 DEF RowsOf, Inserts
  <2> QED BY <1>2, <1>3, <2>2 DEF Whole, Erasing, Erased, Swept, Done, Running
<1>6. Whole(a) \subseteq fresh[a]
  <2>1. HasWritten(a) /\ PlanOf(a) \in Seq(Steps) /\ at[a].n > Len(PlanOf(a)) /\ at[a].n \in Nat
    BY <1>3, Written DEF OpenInv, Commit, Typed
  <2>2. \A m \in DOMAIN PlanOf(a) : m < at[a].n
    BY <2>1
  <2>3. RowsOf(a) \subseteq fresh[a]
    BY <2>1, <2>2 DEF RowsOf, Inserts, HasWritten
  <2> QED BY <2>1, <2>3 DEF Whole, HasWritten
<1>7. \A r \in fresh[a] : r = KeyRow(WriterOf(a)) \/ r[2] = a
  BY <1>3 DEF OpenInv, HasWritten
<1>8. KeyRow(WriterOf(a)) \notin live /\ KeyRow(WriterOf(a))[2] \notin Attempts
      /\ KeyRow(WriterOf(a)) # EraseKey
  BY <1>3, Written DEF OpenInv, HasWritten
<1>9. EraseKey \notin fresh[a] /\ a # <<"erase", 0>>
  <2>1. EraseKey[2] = <<"erase", 0>> /\ a # <<"erase", 0>>
    BY DEF EraseKey, KeyRow, Attempts
  <2> QED BY <1>7, <1>8, <2>1
<1>10. RowsInv'
  <2>1. \A b \in Attempts : Done(b) => Done(b)'
    BY <1>5
  <2>2. \A r \in fresh[a] : r[2] \in Attempts => Done(r[2])'
    BY <1>5, <1>7, <1>8
  <2> QED BY <1>2, <2>1, <2>2 DEF RowsInv
<1>11. StandInv'
  <2>1. \A b \in Attempts : ~Erased /\ Done(b)' => Whole(b) \subseteq live'
    BY <1>2, <1>5, <1>6 DEF StandInv
  <2> QED BY <1>2, <1>5, <1>9, <2>1 DEF StandInv
<1>12. SweepInv'
  <2>1. CASE Erasing
    <3>1. RowsOf(a) \cap Swept = {}
      <4>1. \A r \in RowsOf(a) : r[2] = a
        BY Written
      <4>2. \A r \in Swept : r[2] # a
        BY <2>1, <1>5 DEF SweepInv, RowsInv
      <4> QED BY <4>1, <4>2
    <3>2. Swept \subseteq live' /\ before \subseteq live'
      BY <2>1, <1>2 DEF SweepInv
    <3> QED BY <2>1, <3>1, <3>2, <1>2, <1>5 DEF SweepInv
  <2>2. CASE ~Erasing
    BY <2>2, <1>5 DEF SweepInv
  <2> QED BY <2>1, <2>2
<1>13. LeavesNothingHalf'
  <2> SUFFICES ASSUME Erased
               PROVE  /\ live' \cap before \subseteq {KeyRow(b[1]) : b \in {c \in Attempts : at'[c].st = "done"}}
                      /\ \A b \in Attempts : at'[b].st = "done" =>
                           RowsOf(b) \subseteq live' \/ RowsOf(b) \cap live' = {}
    BY <1>2, <1>5 DEF LeavesNothingHalf
  <2>1. ASSUME NEW r \in live' \cap before
        PROVE  \E b \in Attempts : Done(b)' /\ r = KeyRow(b[1])
    <3>1. CASE r \in live
      <4>1. PICK b \in Attempts : Done(b) /\ r = KeyRow(b[1])
        BY <2>1, <3>1 DEF LeavesNothingHalf, Done
      <4> QED BY <4>1, <1>5
    <3>2. CASE r \in fresh[a]
      <4>1. r[2] # a
        BY <2>1, <1>5 DEF RowsInv
      <4> QED BY <3>2, <4>1, <1>5, <1>7 DEF WriterOf
    <3> QED BY <2>1, <3>1, <3>2, <1>2
  <2>2. ASSUME NEW b \in Attempts, Done(b)'
        PROVE  RowsOf(b) \subseteq live' \/ RowsOf(b) \cap live' = {}
    <3>1. CASE b = a
      BY <3>1, <1>2, <1>6 DEF Whole
    <3>2. CASE b # a
      <4>1. RowsOf(b) \subseteq live \/ RowsOf(b) \cap live = {}
        BY <2>2, <3>2, <1>5 DEF LeavesNothingHalf, Done
      <4>2. \A r \in RowsOf(b) : r[2] = b
        BY Written
      <4>3. RowsOf(b) \cap fresh[a] = {}
        BY <4>2, <3>2, <1>7, <1>8
      <4> QED BY <4>1, <4>3, <1>2
    <3> QED BY <3>1, <3>2
  <2> QED BY <2>1, <2>2 DEF Done
<1>14. KeysAnswerForRows'
  <2> SUFFICES ASSUME Erased, NEW b \in Attempts, Once(b)', KeyRow(WriterOf(b)) \in live'
               PROVE  RowsOf(b) \subseteq live'
    BY <1>2, <1>5 DEF KeysAnswerForRows
  <2>1. CASE b = a
    BY <2>1, <1>2, <1>6 DEF Whole
  <2>2. CASE b # a
    <3>1. WriterOf(b) # WriterOf(a)
      <4> SUFFICES ASSUME WriterOf(b) = WriterOf(a) PROVE FALSE
        OBVIOUS
      <4>1. a = <<b[1], 3 - b[2]>>
        BY <2>2 DEF WriterOf, Attempts
      <4> QED BY <4>1, <1>3 DEF Once
    <3>2. <<b[1], 3 - b[2]>> \in Attempts \ {a}
      BY <3>1 DEF WriterOf, Attempts
    <3>3. Once(b)
      BY <2>2, <3>2, <1>3 DEF Once
    <3>4. KeyRow(WriterOf(b)) \in live
      <4>1. KeyRow(WriterOf(b)) # KeyRow(WriterOf(a)) /\ KeyRow(WriterOf(b))[2] # a
        BY <3>1, Written DEF KeyRow
      <4> QED BY <4>1, <1>2, <1>7
    <3> QED BY <3>3, <3>4, <1>2 DEF KeysAnswerForRows
  <2> QED BY <2>1, <2>2
<1> QED BY <1>2, <1>4, <1>10, <1>11, <1>12, <1>13, <1>14

-----------------------------------------------------------------------------
(* The erase. *)

LEMMA SeedThere ==
  /\ EraseKey \notin Seed /\ <<"budget", Old>> \in Seed
  /\ \A r \in Seed : r[2] \notin Attempts \/ r[2][1] = "seed"
BY DEF Seed, EraseKey, KeyRow, Old, Pair, Tables, Attempts

(* The writers are where they were. *)
LEMMA WritersStay ==
  ASSUME UNCHANGED <<plan, at>>
  PROVE  \A a \in Attempts : /\ PlanOf(a)' = PlanOf(a) /\ RowsOf(a)' = RowsOf(a) /\ Whole(a)' = Whole(a)
                             /\ Done(a)' = Done(a) /\ Once(a)' = Once(a) /\ Running(a)' = Running(a)
<1>1. \A a \in Attempts : PlanOf(a)' = PlanOf(a)
  BY DEF PlanOf
<1>2. \A a \in Attempts : RowsOf(a)' = RowsOf(a)
  BY <1>1 DEF RowsOf, Inserts
<1> QED BY <1>1, <1>2 DEF Whole, Done, Once, Running

LEMMA OpenStays ==
  ASSUME OpenInv, UNCHANGED <<plan, at>>, live' \subseteq live \cup {EraseKey}, EraseAssumption, Typed,
         \A a \in Attempts : fresh'[a] = fresh[a], Erasing' => fresh'[Eraser] = {EraseKey}
  PROVE  OpenInv'
<1>1. ASSUME NEW a \in Attempts, Running(a)' PROVE HasWritten(a)'
  BY <1>1, WritersStay, Written DEF OpenInv, HasWritten
<1>2. \A a, b \in Attempts : Running(a)' /\ Running(b)' /\ WriterOf(a) = WriterOf(b) => a = b
  BY WritersStay DEF OpenInv
<1> QED BY <1>1, <1>2 DEF OpenInv

LEMMA BeginKeeps == ASSUME EraseAssumption, EraseInv, EraseBegin PROVE EraseInv'
<1> USE DEF EraseInv
<1>1. /\ Eraser \in Openers /\ \A a \in Attempts : a \in Openers /\ a # Eraser
      /\ EraseKey \in Rows
  BY DEF Openers, Eraser, Attempts, EraseAssumption, EraseKey, KeyRow, Rows, Owners, Tables
<1>2. /\ UNCHANGED <<plan, at, live, dying>> /\ before' = live
      /\ erase'.st = "running" /\ erase'.n = 0 /\ erase'.seen = {}
      /\ fresh' = [fresh EXCEPT ![Eraser] = {EraseKey}] /\ EraseKey \notin live /\ ~Erasing
  BY DEF EraseBegin, writer
<1>3. Typed'
  BY <1>1, <1>2 DEF Typed, EraseBegin
<1>4. OpenInv'
  BY <1>1, <1>2, OpenStays DEF Typed
<1>5. ~Erased /\ ~Erased' /\ Erasing'
  BY <1>2 DEF StandInv, Erased, Erasing
<1>6. RowsInv'
  BY <1>2, WritersStay DEF RowsInv
<1>7. StandInv'
  BY <1>2, <1>5, WritersStay DEF StandInv
<1>8. SweepInv'
  <2>1. Swept' = {}
    BY <1>2 DEF SweepInv, Swept
  <2>2. \A r \in before' : ~(Turn(r) <= 0)
    <3>1. \A r \in Rows : Turn(r) \in 1..12
      BY Turns
    <3>2. \A r \in Rows : ~(Turn(r) <= 0)
      BY <3>1
    <3> QED BY <1>2, <3>2 DEF Typed
  <2>3. Seed \subseteq before'
    BY <1>2, <1>5 DEF StandInv
  <2> QED BY <1>2, <1>5, <2>1, <2>2, <2>3 DEF SweepInv
<1> QED BY <1>3, <1>4, <1>5, <1>6, <1>7, <1>8 DEF LeavesNothingHalf, KeysAnswerForRows

LEMMA StatementKeeps == ASSUME EraseAssumption, EraseInv, StartStatement PROVE EraseInv'
<1> USE DEF EraseInv
<1>1. /\ UNCHANGED <<plan, at, fresh, live, dying, before>>
      /\ erase.st = "running" /\ erase'.st = "running" /\ erase.seen = {}
      /\ erase.n \in 0..11 /\ erase'.n = erase.n + 1 /\ Erasing
      /\ erase'.seen = {r \in live \cup fresh[Eraser] : r[1] = Statements[erase.n + 1]} \ Spared
  BY Order DEF StartStatement, writer, Erasing, Typed
<1>2. fresh[Eraser] = {EraseKey} /\ Spared = {EraseKey} /\ EraseKey \notin live
  BY <1>1 DEF OpenInv, StandInv, Erased, Spared
<1>3. erase'.seen = {r \in live : r[1] = Statements[erase.n + 1]}
  BY <1>1, <1>2
<1>4. erase'.seen = {r \in live : Turn(r) = erase.n + 1}
  <2>1. \A r \in live : r[1] = Statements[erase.n + 1] <=> Turn(r) = erase.n + 1
    BY <1>1, Turns DEF Typed
  <2> QED BY <2>1, <1>3
<1>5. Typed'
  <2>1. erase'.seen \subseteq Rows /\ erase'.n \in 0..12
    BY <1>1, <1>3 DEF Typed
  <2>2. erase' = [erase EXCEPT !.n = erase'.n, !.seen = erase'.seen]
    BY DEF StartStatement, Typed
  <2> QED BY <1>1, <2>1, <2>2 DEF Typed
<1>6. ~Erased /\ ~Erased' /\ Erasing'
  BY <1>1 DEF Erased, Erasing
<1>7. OpenInv'
  BY <1>1, <1>2, OpenStays
<1>8. RowsInv' /\ StandInv'
  BY <1>1, <1>6, WritersStay DEF RowsInv, StandInv
<1>9. SweepInv'
  <2>1. Swept = dying /\ Swept' = dying \cup {r \in live : Turn(r) = erase.n + 1}
    BY <1>1, <1>4 DEF Swept
  <2>2. \A r \in Rows : Turn(r) \in 1..12
    BY Turns
  <2>3. Swept' \subseteq live /\ \A r \in Swept' : Turn(r) <= erase.n + 1
    <3>1. Swept \subseteq live /\ \A r \in Swept : Turn(r) <= erase.n
      BY <1>1 DEF SweepInv
    <3>2. Swept' \subseteq live
      BY <2>1, <3>1
    <3>3. ASSUME NEW r \in Swept' PROVE Turn(r) <= erase.n + 1
      <4>1. Turn(r) \in 1..12
        BY <2>2, <3>2 DEF Typed
      <4>2. Turn(r) <= erase.n \/ Turn(r) = erase.n + 1
        BY <2>1, <3>1
      <4> QED BY <1>1, <4>1, <4>2
    <3> QED BY <3>2, <3>3
  <2>4. \A r \in before : Turn(r) <= erase.n + 1 => r \in Swept'
    <3> SUFFICES ASSUME NEW r \in before, Turn(r) <= erase.n + 1 PROVE r \in Swept'
      OBVIOUS
    <3>1. Turn(r) \in 1..12
      BY <2>2 DEF Typed
    <3>2. Turn(r) <= erase.n \/ Turn(r) = erase.n + 1
      BY <1>1, <3>1
    <3> QED BY <1>1, <2>1, <3>2 DEF SweepInv
  <2>5. ASSUME NEW a \in Attempts, Done(a), NEW r \in RowsOf(a) \cap Swept', NEW q \in Whole(a),
               Turn(r) <= Turn(q), Turn(q) <= erase.n + 1
        PROVE  q \in Swept'
    <3>1. q \in live /\ Turn(q) \in 1..12 /\ Turn(r) \in 1..12 /\ q \in Rows
      BY <1>6, <2>2, <2>3, <2>5, Written DEF StandInv, Typed
    <3>2. CASE Turn(q) = erase.n + 1
      BY <2>1, <3>1, <3>2
    <3>3. CASE Turn(q) <= erase.n
      <4>1. r \in Swept
        BY <1>1, <2>1, <2>5, <3>1, <3>3
      <4>2. q \in Swept
        BY <1>1, <2>5, <3>3, <4>1 DEF SweepInv
      <4> QED BY <2>1, <4>2
    <3> QED BY <1>1, <2>5, <3>1, <3>2, <3>3
  <2> QED BY <1>1, <1>6, <2>3, <2>4, <2>5, WritersStay DEF SweepInv
<1> QED BY <1>5, <1>6, <1>7, <1>8, <1>9 DEF LeavesNothingHalf, KeysAnswerForRows

LEMMA DeleteKeeps == ASSUME EraseAssumption, EraseInv, NEW row \in erase.seen, Delete(row) PROVE EraseInv'
<1> USE DEF EraseInv
<1>1. /\ UNCHANGED <<plan, at, fresh, live, before>> /\ Erasing
      /\ dying' = dying \cup {row} /\ erase' = [erase EXCEPT !.seen = @ \ {row}]
  BY DEF Delete, writer
<1>2. erase'.st = "running" /\ erase.st = "running" /\ erase'.n = erase.n /\ erase'.seen = erase.seen \ {row}
  BY <1>1 DEF Typed, Erasing
<1>3. Swept' = Swept
  BY <1>1, <1>2 DEF Swept
<1>4. Typed'
  BY <1>1 DEF Typed
<1>5. ~Erased /\ ~Erased' /\ Erasing'
  BY <1>2 DEF Erased, Erasing
<1>6. OpenInv'
  <2>1. fresh'[Eraser] = {EraseKey}
    BY <1>1 DEF OpenInv
  <2> QED BY <1>1, <2>1, OpenStays
<1>7. RowsInv' /\ StandInv'
  BY <1>1, <1>5, WritersStay DEF RowsInv, StandInv
<1>8. SweepInv'
  BY <1>1, <1>2, <1>3, <1>5, WritersStay DEF SweepInv
<1> QED BY <1>4, <1>5, <1>6, <1>7, <1>8 DEF LeavesNothingHalf, KeysAnswerForRows

LEMMA FailKeeps == ASSUME EraseAssumption, EraseInv, EraseFails PROVE EraseInv'
<1> USE DEF EraseInv
<1>1. /\ UNCHANGED <<plan, at, live, before>> /\ Erasing
      /\ dying' = {} /\ erase' = [st |-> "failed", n |-> 0, seen |-> {}]
      /\ fresh' = [fresh EXCEPT ![Eraser] = {}]
  BY DEF EraseFails, EraseEnds, writer
<1>2. Typed' /\ \A a \in Attempts : fresh'[a] = fresh[a]
  <2>1. \A a \in Attempts : a \in Openers /\ a # Eraser
    BY DEF Openers, Eraser, Attempts, EraseAssumption
  <2>2. fresh' \in [Openers -> SUBSET Rows] /\ \A a \in Attempts : fresh'[a] = fresh[a]
    BY <1>1, <2>1 DEF Typed
  <2> QED BY <1>1, <2>2 DEF Typed
<1>3. ~Erased /\ ~Erased' /\ ~Erasing' /\ Swept' = {}
  BY <1>1 DEF Erased, Erasing, Swept
<1>4. OpenInv'
  BY <1>1, <1>2, <1>3, OpenStays
<1>5. RowsInv' /\ StandInv'
  BY <1>1, <1>3, WritersStay DEF RowsInv, StandInv
<1>6. SweepInv'
  BY <1>3 DEF SweepInv
<1> QED BY <1>2, <1>3, <1>4, <1>5, <1>6 DEF LeavesNothingHalf, KeysAnswerForRows

(* What is left of a write half of which was deleted points at what was     *)
(* deleted: the statement that took its parents away would be refused.      *)
LEMMA HalfIsRefused ==
  ASSUME EraseAssumption, EraseInv, Erasing, erase.seen = {}, erase.n = 12,
         NEW a \in Attempts, Done(a), NEW r \in RowsOf(a) \cap dying, NEW q \in RowsOf(a) \ dying
  PROVE  Refuses
<1> USE DEF EraseInv
<1>1. Swept = dying /\ ~Erased
  BY DEF Swept, Erasing, Erased
<1>2. \A p \in Rows : Turn(p) \in 1..12
  BY Turns
<1>3. q \in live \ dying /\ q[1] \in BudgetTables /\ q[2] = a /\ r[1] \in BudgetTables
      /\ r \in Rows /\ q \in Rows
  BY <1>1, Written DEF StandInv, Whole
<1>4. Turn(r) <= 10 /\ Turn(q) < Turn(r)
  <2>1. Turn(r) \in 1..12 /\ Turn(q) \in 1..12 /\ Turn(r) <= 10
    BY <1>2, <1>3, Turns
  <2>2. ~(Turn(r) <= Turn(q))
    BY <1>1, <2>1 DEF SweepInv, Whole
  <2> QED BY <2>1, <2>2
<1>5. q[1] # "budget"
  <2>1. Turn(r) \in 1..12 /\ Turn(q) \in 1..12 /\ Turn(q) # 10
    BY <1>2, <1>3, <1>4
  <2> QED BY <1>3, <2>1, Turns
<1>6. "budget" \in Parents(q[1])
  BY <1>3, <1>5 DEF Parents, BudgetTables, Tables
<1>7. CASE "budget" \in Inserts(a)
  <2>1. <<"budget", a>> \in RowsOf(a) /\ <<"budget", a>> \in Rows
    BY <1>7, Written DEF RowsOf
  <2>2. Turn(<<"budget", a>>) = 10
    BY <2>1, Turns
  <2>3. <<"budget", a>> \in dying
    BY <1>1, <1>4, <2>1, <2>2 DEF SweepInv, Whole
  <2>4. <<"budget", a>> \in ParentsOf(q)
    BY <1>3, <1>6, <1>7 DEF ParentsOf
  <2> QED BY <1>3, <2>3, <2>4 DEF Refuses
<1>8. CASE "budget" \notin Inserts(a)
  <2>1. <<"budget", Old>> \in before /\ <<"budget", Old>> \in Rows
    BY SeedThere DEF SweepInv, Typed
  <2>2. Turn(<<"budget", Old>>) = 10
    BY <2>1, Turns
  <2>3. <<"budget", Old>> \in dying
    BY <1>1, <2>1, <2>2 DEF SweepInv
  <2>4. <<"budget", Old>> \in ParentsOf(q)
    BY <1>3, <1>6, <1>8 DEF ParentsOf
  <2> QED BY <1>3, <2>3, <2>4 DEF Refuses
<1> QED BY <1>7, <1>8

LEMMA EraseCommitKeeps == ASSUME EraseAssumption, EraseInv, EraseCommit PROVE EraseInv'
<1> USE DEF EraseInv
<1>1. /\ UNCHANGED <<plan, at, before>> /\ Erasing /\ erase.seen = {} /\ erase.n = 12 /\ ~Refuses
      /\ dying' = {} /\ erase' = [st |-> "done", n |-> 0, seen |-> {}]
      /\ fresh' = [fresh EXCEPT ![Eraser] = {}]
      /\ live' = (live \cup {EraseKey}) \ dying
  BY Order DEF EraseCommit, EraseEnds, writer, OpenInv
<1>2. ~Erased /\ Erased' /\ ~Erasing' /\ Swept' = {} /\ Swept = dying
  BY <1>1 DEF Erased, Erasing, Swept
<1>3. EraseKey \in Rows /\ EraseKey \notin live /\ dying \subseteq live
  BY <1>1, <1>2 DEF StandInv, SweepInv, EraseKey, KeyRow, Rows, Owners, Tables
<1>4. Typed' /\ \A a \in Attempts : fresh'[a] = fresh[a]
  <2>1. \A a \in Attempts : a \in Openers /\ a # Eraser
    BY DEF Openers, Eraser, Attempts, EraseAssumption
  <2>2. fresh' \in [Openers -> SUBSET Rows] /\ \A a \in Attempts : fresh'[a] = fresh[a]
    BY <1>1, <2>1 DEF Typed
  <2> QED BY <1>1, <1>3, <2>2 DEF Typed
<1>5. OpenInv'
  BY <1>1, <1>2, <1>4, OpenStays
<1>6. RowsInv'
  <2>1. EraseKey[2] \notin Attempts
    BY DEF EraseKey, KeyRow, Attempts
  <2> QED BY <1>1, <2>1, WritersStay DEF RowsInv
<1>7. StandInv'
  BY <1>1, <1>2, <1>3 DEF StandInv
<1>8. SweepInv'
  BY <1>2 DEF SweepInv
<1>9. LeavesNothingHalf'
  <2>1. live' \cap before = {}
    <3>1. \A r \in Rows : Turn(r) <= 12
      BY Turns
    <3>2. before \subseteq dying /\ EraseKey \notin before
      BY <1>1, <1>2, <1>3, <3>1 DEF SweepInv, Typed
    <3> QED BY <1>1, <3>2
  <2>2. ASSUME NEW a \in Attempts, Done(a)
        PROVE  RowsOf(a) \subseteq live' \/ RowsOf(a) \cap live' = {}
    <3>1. RowsOf(a) \subseteq live /\ EraseKey \notin RowsOf(a)
      BY <1>2, <1>3, <2>2 DEF StandInv, Whole
    <3>2. RowsOf(a) \subseteq dying \/ RowsOf(a) \cap dying = {}
      BY <1>1, <2>2, HalfIsRefused
    <3> QED BY <1>1, <3>1, <3>2
  <2> QED BY <1>1, <2>1, <2>2, WritersStay DEF LeavesNothingHalf, Done
<1>10. KeysAnswerForRows'
  <2> SUFFICES ASSUME NEW a \in Attempts, Once(a), KeyRow(WriterOf(a)) \in live'
               PROVE  RowsOf(a) \subseteq live'
    BY <1>1, WritersStay DEF KeysAnswerForRows
  <2>1. RowsOf(a) \subseteq live /\ Done(a)
    BY <1>2 DEF StandInv, Whole, Once, Done
  <2>2. KeyRow(WriterOf(a)) \notin dying /\ KeyRow(WriterOf(a)) \in Rows
    BY <1>1, Written
  <2>3. Turn(KeyRow(WriterOf(a))) = 12
    BY <2>2, Turns DEF KeyRow
  <2>4. RowsOf(a) \cap dying = {}
    <3> SUFFICES ASSUME NEW r \in RowsOf(a) \cap dying PROVE FALSE
      OBVIOUS
    <3>1. r \in Rows
      BY Written
    <3>2. Turn(r) <= 12
      BY <3>1, Turns
    <3> QED BY <1>1, <1>2, <2>1, <2>2, <2>3, <3>2 DEF SweepInv, Whole
  <2> QED BY <1>1, <2>1, <2>4
<1> QED BY <1>4, <1>5, <1>6, <1>7, <1>8, <1>9, <1>10

-----------------------------------------------------------------------------

LEMMA EraseStays == ASSUME EraseAssumption PROVE EraseInv /\ [EraseNext]_eraseVars => EraseInv'
<1> SUFFICES ASSUME EraseInv, [EraseNext]_eraseVars PROVE EraseInv'
  OBVIOUS
<1>1. CASE EraseBegin
  BY <1>1, BeginKeeps
<1>2. CASE StartStatement
  BY <1>2, StatementKeeps
<1>3. CASE EraseRefused
  BY <1>3, FailKeeps DEF EraseRefused, EraseFails
<1>4. CASE EraseCommit
  BY <1>4, EraseCommitKeeps
<1>5. CASE \E row \in erase.seen : Delete(row)
  BY <1>5, DeleteKeeps
<1>6. ASSUME NEW a \in Attempts, WriterStep(a) PROVE EraseInv'
  <2>1. CASE Locks
    BY <2>1, LocksKeep
  <2>2. CASE Starts(a)
    BY <2>2, StartsKeep
  <2>3. CASE EraseFails
    BY <2>3, FailKeeps
  <2>4. CASE Commit(a)
    BY <2>4, CommitKeeps
  <2>5. CASE \E st \in {"replayed", "refused"} : Stops(a, st)
    BY <2>5, StopsKeep
  <2>6. CASE \E new \in SUBSET {<<t, a>> : t \in Tables} : Goes(a, new)
    BY <2>6, GoesKeep
  <2>7. Typed
    BY DEF EraseInv
  <2> QED BY <1>6, <2>1, <2>2, <2>3, <2>4, <2>5, <2>6, <2>7, WriterDoes
<1>7. CASE UNCHANGED eraseVars
  <2>1. Locks
    BY <1>7 DEF eraseVars, writer, Locks
  <2> QED BY <2>1, LocksKeep
<1> QED BY <1>1, <1>2, <1>3, <1>4, <1>5, <1>6, <1>7 DEF EraseNext, EraseStep

(* For any writers and any plans: of a write that raced the erase either    *)
(* every row it put into a budget outlives it or none, and nothing older    *)
(* does but a key claimed again.                                            *)
THEOREM NothingIsLeftHalf == EraseSpec => []LeavesNothingHalf
<1>1. EraseInit => EraseInv
  BY EraseAssumption, EraseStarts
<1>2. EraseInv /\ [EraseNext]_eraseVars => EraseInv'
  BY EraseAssumption, EraseStays
<1>3. EraseInv => LeavesNothingHalf
  BY DEF EraseInv
<1> QED BY <1>1, <1>2, <1>3, PTL DEF EraseSpec

(* And a key that outlives the erase answers for rows that do, so that no   *)
(* retry is told of a write the erase removed.                              *)
THEOREM KeysThatSurviveAnswer == EraseSpec => []KeysAnswerForRows
<1>1. EraseInit => EraseInv
  BY EraseAssumption, EraseStarts
<1>2. EraseInv /\ [EraseNext]_eraseVars => EraseInv'
  BY EraseAssumption, EraseStays
<1>3. EraseInv => KeysAnswerForRows
  BY DEF EraseInv
<1> QED BY <1>1, <1>2, <1>3, PTL DEF EraseSpec
=============================================================================
