---------------------------- MODULE ActiveBudget ----------------------------
(***************************************************************************)
(* The budgets of one user (apps/api/src/budgets) and the requests that    *)
(* write into whichever of them is active.                                 *)
(*                                                                         *)
(* Creating, renaming and activating first take an advisory lock keyed on  *)
(* the user (the gate) and then the user's budget rows FOR UPDATE; only    *)
(* then do they look.  Looking and writing are separate steps, and the     *)
(* unique indexes are applied when the rows are written, so a run in which *)
(* two requests get past the gate together shows what an index would do.   *)
(*                                                                         *)
(* A request that writes into the active budget asks which one that is     *)
(* three times: before its transaction (intended), inside it, where the    *)
(* answer has to be the same, and once more when the scoping extension     *)
(* meets the first model a budget owns (scope).                            *)
(*                                                                         *)
(* Idempotency keys are MutationPoint's, what a creation copies from its   *)
(* template is BudgetCopy's; here the template only has to be held.        *)
(***************************************************************************)
EXTENDS Naturals

CONSTANTS Budgets, Names, NoName,
          NoBudget,     \* no template, or nothing resolved yet
          Txs, NoTx,    \* the requests that can be under way, and the free gate
          Menu          \* the requests users send here, a subset of Requests

Requests ==
  [kind : {"create"}, id : Budgets, name : Names, from : Budgets \union {NoBudget}]
    \union [kind : {"rename"}, id : Budgets, name : Names]
    \union [kind : {"activate"}, id : Budgets]
    \union [kind : {"record"}]

ASSUME NoNameIsNone == NoName \notin Names
ASSUME NoTxIsNone == NoTx \notin Txs
ASSUME NoBudgetIsNone == NoBudget \notin Budgets
ASSUME MenuIsServed == Menu \subseteq Requests

VARIABLES names,      \* committed rows: the name of each budget, NoName where there is no row
          active,     \* committed rows carrying active = true
          gate,       \* the transaction holding pg_advisory_xact_lock, or NoTx
          rows,       \* the budget rows each transaction holds FOR UPDATE
          pc, op,     \* where each request stands, and what it asked for
          found,      \* the active row deactivateCurrent found, per transaction
          intended,   \* the active budget as asked before the transaction
          scope,      \* the active budget the scoping extension memoised
          answer      \* how the request that ended last ended

vars == <<names, active, gate, rows, pc, op, found, intended, scope, answer>>

Book == INSTANCE BudgetBook

Held == Book!Held
Taken(n, except) == Book!Taken(n, except)

NoRequest == [kind |-> "record"]

Init ==
  /\ Book!Init
  /\ gate = NoTx
  /\ rows = [t \in Txs |-> {}]
  /\ pc = [t \in Txs |-> "idle"]
  /\ op = [t \in Txs |-> NoRequest]
  /\ found = [t \in Txs |-> {}]
  /\ intended = [t \in Txs |-> NoBudget]
  /\ scope = [t \in Txs |-> NoBudget]
  /\ answer = "none"

At(t, here) == pc[t] = here
GoTo(t, there) == pc' = [pc EXCEPT ![t] = there]

\* mutant of Release: the gate is a session lock, which outlives its transaction
ReleaseRows(t) == gate' = gate /\ rows' = [rows EXCEPT ![t] = {}]

(* Commit or rollback gives back the gate and the rows. *)
Release(t) ==
  /\ gate' = IF gate = t THEN NoTx ELSE gate
  /\ rows' = [rows EXCEPT ![t] = {}]

End(t, how) ==
  /\ GoTo(t, "idle")
  /\ answer' = how
  /\ Release(t)
  /\ op' = [op EXCEPT ![t] = NoRequest]
  /\ found' = [found EXCEPT ![t] = {}]
  /\ intended' = [intended EXCEPT ![t] = NoBudget]
  /\ scope' = [scope EXCEPT ![t] = NoBudget]

-----------------------------------------------------------------------------
(* A new row's id is a fresh UUID: no row and no other creation carries it. *)
Fresh(b) == b \notin Held /\ \A u \in Txs : pc[u] # "idle" /\ op[u].kind = "create" => op[u].id # b

(* POST /budgets, PATCH /budgets/{id}, POST /budgets/{id}/activate arrive. *)
Ask(t, r) ==
  /\ At(t, "idle")
  /\ r.kind # "record"
  /\ r.kind = "create" => Fresh(r.id)
  /\ op' = [op EXCEPT ![t] = r]
  /\ GoTo(t, "gate")
  /\ UNCHANGED <<names, active, gate, rows, found, intended, scope, answer>>

NoGate(t) == TRUE \* mutant of GateOpens

GateOpens(t) == gate = NoTx

(* holdBudgets, its first statement: the lock keyed on the caller. *)
TakeGate(t) ==
  /\ At(t, "gate")
  /\ GateOpens(t)
  /\ gate' = t
  /\ GoTo(t, "rows")
  /\ UNCHANGED <<names, active, rows, op, found, intended, scope, answer>>

(* holdBudgets, its second statement: SELECT ... FOR UPDATE of the caller's rows. *)
HoldRows(t) ==
  /\ At(t, "rows")
  /\ \A u \in Txs \ {t} : rows[u] \intersect Held = {}
  /\ rows' = [rows EXCEPT ![t] = Held]
  /\ GoTo(t, "judge")
  /\ UNCHANGED <<names, active, gate, op, found, intended, scope, answer>>

(* nameFree, ownedBudget: why the request would be turned down. *)
Refused(r) ==
  CASE r.kind = "create"   -> Taken(r.name, {}) \/ (r.from # NoBudget /\ r.from \notin Held)
    [] r.kind = "rename"   -> r.id \notin Held \/ Taken(r.name, {r.id})
    [] r.kind = "activate" -> r.id \notin Held
    [] OTHER               -> FALSE

(* activate answers at once for a budget that is active already. *)
Standing(r) == r.kind = "activate" /\ r.id \in active

(* deactivateCurrent's findFirst; a rename deactivates nothing. *)
Current(r) == IF r.kind = "rename" THEN {} ELSE active

Judge(t) ==
  /\ At(t, "judge")
  /\ \/ /\ Refused(op[t])
        /\ End(t, "refused")
     \/ /\ ~Refused(op[t])
        /\ Standing(op[t])
        /\ End(t, "done")
     \/ /\ ~Refused(op[t])
        /\ ~Standing(op[t])
        /\ found' = [found EXCEPT ![t] = Current(op[t])]
        /\ GoTo(t, "write")
        /\ UNCHANGED <<gate, rows, op, intended, scope, answer>>
  /\ UNCHANGED <<names, active>>

(* The rows as the request leaves them: the found budget loses the mark, its own gets it. *)
Named(r) == IF r.kind = "activate" THEN names ELSE [names EXCEPT ![r.id] = r.name]
MarkedByAll(t) == {op[t].id} \* mutant of Marked: a renaming brings its budget forward
\* mutant of Marked: a new budget starts without the mark
MarkedByActivate(t) ==
  CASE op[t].kind = "rename" -> active
    [] op[t].kind = "create" -> active \ found[t]
    [] OTHER                 -> (active \ found[t]) \union {op[t].id}
Marked(t) == IF op[t].kind = "rename" THEN active ELSE (active \ found[t]) \union {op[t].id}

(* budget_one_active_per_user and budget_name_per_user. *)
ActiveIndexHolds(marked) == \A b, c \in marked : b = c
NameIndexHolds(named) ==
  \A b, c \in Budgets : named[b] # NoName /\ named[b] = named[c] => b = c

(* The writes and their commit.  A name index violation becomes NAME_TAKEN    *)
(* (namingOnce); one of the active index reaches the caller as a failure.     *)
Write(t) ==
  /\ At(t, "write")
  /\ LET named == Named(op[t])
         marked == Marked(t)
     IN  \/ /\ ActiveIndexHolds(marked) /\ NameIndexHolds(named)
            /\ names' = named
            /\ active' = marked
            /\ End(t, "done")
         \/ /\ ~(ActiveIndexHolds(marked) /\ NameIndexHolds(named))
            /\ End(t, IF ActiveIndexHolds(marked) THEN "refused" ELSE "failed")
            /\ UNCHANGED <<names, active>>

(* The connection is lost or the transaction times out: everything rolls back. *)
GiveUp(t) ==
  /\ pc[t] # "idle"
  /\ End(t, "lost")
  /\ UNCHANGED <<names, active>>

-----------------------------------------------------------------------------
(* A request that writes into the active budget asks for it, outside its transaction. *)
Intend(t, r) ==
  /\ At(t, "idle")
  /\ r.kind = "record"
  /\ \/ /\ active = {}
        /\ answer' = "refused"
        /\ UNCHANGED <<pc, op, intended>>
     \/ \E b \in active :
          /\ op' = [op EXCEPT ![t] = r]
          /\ intended' = [intended EXCEPT ![t] = b]
          /\ GoTo(t, "enter")
          /\ UNCHANGED answer
  /\ UNCHANGED <<names, active, gate, rows, found, scope>>

(* activeBudget(tx, intended.id): still active, or the request is refused. *)
Enter(t) ==
  /\ At(t, "enter")
  /\ \/ /\ intended[t] \in active
        /\ GoTo(t, "scope")
        /\ UNCHANGED <<gate, rows, op, found, intended, scope, answer>>
     \/ /\ intended[t] \notin active
        /\ End(t, "refused")
  /\ UNCHANGED <<names, active>>

(* budgetOnce: the first operation on a model a budget owns looks the budget up again. *)
Resolve(t) ==
  /\ At(t, "scope")
  /\ \E b \in active : scope' = [scope EXCEPT ![t] = b]
  /\ GoTo(t, "record")
  /\ UNCHANGED <<names, active, gate, rows, op, found, intended, answer>>

(* The new row's foreign key waits for whoever holds its budget FOR UPDATE. *)
Record(t) ==
  /\ At(t, "record")
  /\ \A u \in Txs \ {t} : intended[t] \notin rows[u]
  /\ End(t, "done")
  /\ UNCHANGED <<names, active>>

-----------------------------------------------------------------------------
Step(t) == \/ HoldRows(t) \/ Judge(t) \/ Write(t) \/ Enter(t) \/ Resolve(t)

Next == \E t \in Txs :
          \/ \E r \in Menu : Ask(t, r) \/ Intend(t, r)
          \/ TakeGate(t) \/ Step(t) \/ Record(t) \/ GiveUp(t)

(* Promise continuations run, and Postgres grants a lock in the order it was asked for,  *)
(* so a waiter is not passed over for ever; giving up and new requests are nobody's duty. *)
Fairness == \A t \in Txs : WF_vars(Step(t)) /\ SF_vars(TakeGate(t)) /\ SF_vars(Record(t))

Spec == Init /\ [][Next]_vars /\ Fairness

-----------------------------------------------------------------------------
(* Every variable has its type. *)
TypeOK ==
  /\ names \in [Budgets -> Names \union {NoName}]
  /\ active \in SUBSET Budgets
  /\ gate \in Txs \union {NoTx}
  /\ rows \in [Txs -> SUBSET Budgets]
  /\ pc \in [Txs -> {"idle", "gate", "rows", "judge", "write", "enter", "scope", "record"}]
  /\ op \in [Txs -> Requests]
  /\ found \in [Txs -> SUBSET Budgets]
  /\ intended \in [Txs -> Budgets \union {NoBudget}]
  /\ scope \in [Txs -> Budgets \union {NoBudget}]
  /\ answer \in {"none", "done", "refused", "failed", "lost"}

(* A user with budgets has exactly one active, between any two requests' writes (README of the
   api: "A user holds at most one active budget"; budget-switch-race: "leaves exactly one active"). *)
ExactlyOneActive == Book!ExactlyOneActive

(* No creation, renaming or activation ends on the index that keeps a single budget active,
   however many arrive together, the user's first creation included. *)
NobodyFailsOnTheIndex == answer # "failed"

(* The rows move as one request after the other would move them: each commit is one whole
   operation of the book, on the book as it stands at that moment. *)
BookIsKept == Book!Spec

(* Every request is answered: no lock outlives its transaction, nobody waits for ever. *)
EveryoneIsAnswered == \A t \in Txs : pc[t] # "idle" ~> pc[t] = "idle"

(* What the request context says of itself ("the active budget is resolved once per request"):
   a request reads in the budget it writes into. *)
ResolvedOncePerRequest == \A t \in Txs : At(t, "record") => scope[t] = intended[t]
=============================================================================
