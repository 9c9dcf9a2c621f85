---------------------------- MODULE RequestScope ----------------------------
(* One request and the operations it runs side by side: the lookup of the   *)
(* active budget that RequestContextService memoises, the marker and the    *)
(* source runInMutation opens and closes, and the scoping extension that    *)
(* refuses an operation or filters it by the budget.  Other requests of the *)
(* same caller switch the active budget meanwhile.                          *)
(*                                                                          *)
(* A store is the AsyncLocalStorage scope an operation was issued in: 0 is  *)
(* the request's, n > 0 the n-th mutation's, which outlives it in whatever  *)
(* the mutation left running.  A client is 0, the injected one, or n, the   *)
(* transaction of the n-th mutation.  A lookup is named by the operation    *)
(* that started it.                                                         *)
EXTENDS Integers

CONSTANTS
  Ops, Budgets, NoBudget, Failure, NoLookup,
  MaxMutations   \* bound: mutations a request runs, one after another

ASSUME ScopeAssumption ==
  /\ NoBudget \notin Budgets /\ Failure \notin Budgets /\ Failure # NoBudget
  /\ NoLookup \notin Ops /\ MaxMutations \in Nat

VARIABLES
  active,    \* the caller's active budget, committed
  id,        \* budget.id, the memo
  lookup,    \* budget.lookup, the one in flight or the last that answered
  mutation,  \* [n, open, source, tx, wrote, made]: the mutation that is open
  marked,    \* stores whose inMutation is set
  flight,    \* lookup -> [st, via, val]
  ops,       \* operation -> [st, kind, store, client, on, budget]
  fails,     \* ghost: mutations of this request that failed
  since,     \* ghost: operation -> fails when it was issued
  beside,    \* ghost: operations issued while no mutation was open
  ever       \* ghost: budgets that have been active, committed

database == <<active, ever>>
ghosts == <<since, beside>>
vars == <<database, id, lookup, mutation, marked, flight, ops, fails, ghosts>>

Answers == Budgets \cup {NoBudget, Failure}
Scoped == {"read", "write"}              \* findX and count; update, upsert, delete
Kinds == Scoped \cup {"create", "rawRead", "rawWrite"}
Writes == {"write", "create", "rawWrite"}

Fresh == [st |-> "new", kind |-> "read", store |-> 0, client |-> 0,
          on |-> NoLookup, budget |-> NoBudget]
Refused == [Fresh EXCEPT !.st = "refused"]

NoTx == "none"
Idle == [n |-> 0, open |-> FALSE, source |-> FALSE, tx |-> NoTx, wrote |-> FALSE, made |-> NoBudget]

Init ==
  /\ active \in Budgets \cup {NoBudget} /\ ever = {active}
  /\ id = NoBudget /\ lookup = NoLookup
  /\ mutation = Idle /\ marked = {}
  /\ flight = [l \in Ops |-> [st |-> "none", via |-> 0, val |-> NoBudget]]
  /\ ops = [o \in Ops |-> Fresh]
  /\ fails = 0 /\ since = [o \in Ops |-> 0] /\ beside = {}

Live(client) == client = mutation.n /\ mutation.tx = "live"
InMutation(store) == store \in marked

-----------------------------------------------------------------------------
(* The mutation. *)

Begins(n) == [Idle EXCEPT !.n = n, !.open = TRUE]

RunInMutation ==
  /\ ~mutation.open /\ mutation.n < MaxMutations
  /\ mutation' = Begins(mutation.n + 1)
  /\ marked' = marked \cup {mutation.n + 1}
  /\ UNCHANGED <<database, id, lookup, flight, ops, fails, ghosts>>

UseBudgetSource ==
  /\ mutation.open /\ mutation.tx = NoTx
  /\ mutation' = [mutation EXCEPT !.source = TRUE, !.tx = "live"]
  /\ UNCHANGED <<database, id, lookup, marked, flight, ops, fails, ghosts>>

(* The work makes another budget active, or makes the first one.            *)
Activates(b) ==
  /\ mutation.tx = "live" /\ ~mutation.wrote /\ b # active
  /\ mutation' = [mutation EXCEPT !.wrote = TRUE, !.made = b]
  /\ UNCHANGED <<database, id, lookup, marked, flight, ops, fails, ghosts>>

CommitTx ==
  /\ mutation.tx = "live"
  /\ mutation' = [mutation EXCEPT !.tx = "committed"]
  /\ IF mutation.wrote
       THEN active' = mutation.made /\ ever' = ever \cup {mutation.made}
       ELSE UNCHANGED database
  /\ UNCHANGED <<id, lookup, marked, flight, ops, fails, ghosts>>

(* The work or the commit fails, or the transaction never starts.           *)
AbortTx ==
  /\ mutation.open /\ mutation.tx \in {NoTx, "live"}
  /\ mutation' = [mutation EXCEPT !.tx = "aborted"]
  /\ UNCHANGED <<database, id, lookup, marked, flight, ops, fails, ghosts>>

(* finally. *)
LeavesTheMark == UNCHANGED marked               \* mutant of Closes
Closes == marked' = marked \ {mutation.n}
Finally ==
  /\ mutation' = [Idle EXCEPT !.n = mutation.n]
  /\ Closes

Returns ==
  /\ mutation.open /\ mutation.tx = "committed"
  /\ Finally
  /\ UNCHANGED <<database, id, lookup, flight, ops, fails, ghosts>>

ForgetsTheId == id' = NoBudget /\ UNCHANGED lookup   \* mutant of Forgets
Forgets == id' = NoBudget /\ lookup' = NoLookup

Throws ==
  /\ mutation.open /\ mutation.tx = "aborted"
  /\ Forgets /\ fails' = fails + 1
  /\ Finally
  /\ UNCHANGED <<database, flight, ops, ghosts>>

-----------------------------------------------------------------------------
(* An operation, up to its first await. *)

(* requireTheMutationsClient and requireMutation of the extension, and the  *)
(* two guards of ScopedRawRepository.                                       *)
ByTheExtension(kind, store, client) ==
  /\ client = 0 => ~mutation.open
  /\ kind \in Writes => InMutation(store)

IsTheSource(client) == client # 0 /\ client = mutation.n /\ mutation.source
ByTheRepository(kind, client) ==
  IF mutation.open THEN IsTheSource(client) ELSE kind = "rawRead" /\ client = 0

Admits(kind, store, client) ==
  IF kind \in {"rawRead", "rawWrite"}
    THEN ByTheRepository(kind, client)
    ELSE ByTheExtension(kind, store, client)

(* The resolver reads on the open transaction from inside the mutation, and *)
(* on the pool from anywhere else.                                          *)
SourceFor(store) ==
  IF InMutation(store) /\ mutation.source THEN mutation.n ELSE 0

Issued(o, kind, store, client, st, on, budget) ==
  ops' = [ops EXCEPT ![o] = [st |-> st, kind |-> kind, store |-> store,
                             client |-> client, on |-> on, budget |-> budget]]

BudgetOnce(o, kind, store, client) ==
  \/ /\ id # NoBudget
     /\ Issued(o, kind, store, client, "ready", NoLookup, id)
     /\ UNCHANGED <<lookup, flight>>
  \/ /\ id = NoBudget /\ lookup # NoLookup
     /\ Issued(o, kind, store, client, "waiting", lookup, NoBudget)
     /\ UNCHANGED <<lookup, flight>>
  \/ /\ id = NoBudget /\ lookup = NoLookup
     /\ lookup' = o
     /\ flight' = [flight EXCEPT ![o] = [st |-> "flying", via |-> SourceFor(store), val |-> NoBudget]]
     /\ Issued(o, kind, store, client, "waiting", o, NoBudget)

(* An operation holds the injected client, or the transaction its mutation  *)
(* handed it, which it may keep after the end.                              *)
Holds(store, client) ==
  client = 0 \/ (client = store /\ (store = mutation.n => mutation.tx # NoTx))

Issue(o, kind, store, client) ==
  /\ ops[o].st = "new" /\ Holds(store, client)
  /\ since' = [since EXCEPT ![o] = fails]
  /\ beside' = IF mutation.open THEN beside ELSE beside \cup {o}
  /\ \/ /\ ~Admits(kind, store, client)
        /\ ops' = [ops EXCEPT ![o] = Refused]
        /\ UNCHANGED <<lookup, flight>>
     \/ /\ Admits(kind, store, client) /\ kind \notin Scoped
        /\ Issued(o, kind, store, client, "ready", NoLookup, NoBudget)
        /\ UNCHANGED <<lookup, flight>>
     \/ /\ Admits(kind, store, client) /\ kind \in Scoped
        /\ BudgetOnce(o, kind, store, client)
  /\ UNCHANGED <<database, id, mutation, marked, fails>>

-----------------------------------------------------------------------------
(* The lookup's answer, and what waited for it. *)

Seen(client) == IF client # 0 /\ mutation.wrote THEN mutation.made ELSE active

(* A lookup on a transaction that has ended fails; any may.                 *)
Find(l) ==
  /\ flight[l].st = "flying"
  /\ \/ /\ flight[l].via = 0 \/ Live(flight[l].via)
        /\ flight' = [flight EXCEPT ![l].st = "found", ![l].val = Seen(flight[l].via)]
     \/ flight' = [flight EXCEPT ![l].st = "found", ![l].val = Failure]
  /\ UNCHANGED <<database, id, lookup, mutation, marked, ops, fails, ghosts>>

NeverSuperseded(l) == FALSE            \* mutant of Superseded
Superseded(l) == lookup # l

DropsTheLookup(l) == lookup' = NoLookup

Settle(l) ==
  /\ flight[l].st = "found"
  /\ \/ /\ Superseded(l)
        /\ flight' = [flight EXCEPT ![l].st = "settled",
                        ![l].val = IF @ = Failure THEN Failure ELSE NoBudget]
        /\ UNCHANGED <<id, lookup>>
     \/ /\ ~Superseded(l)
        /\ flight' = [flight EXCEPT ![l].st = "settled"]
        /\ IF flight[l].val \in Budgets
             THEN id' = flight[l].val /\ UNCHANGED lookup
             ELSE DropsTheLookup(l) /\ UNCHANGED id
  /\ UNCHANGED <<database, mutation, marked, ops, fails, ghosts>>

Wake(o) ==
  /\ ops[o].st = "waiting" /\ flight[ops[o].on].st = "settled"
  /\ LET b == flight[ops[o].on].val IN
     IF b \in Budgets
       THEN ops' = [ops EXCEPT ![o].st = "ready", ![o].on = NoLookup, ![o].budget = b]
       ELSE ops' = [ops EXCEPT ![o] = Refused]
  /\ UNCHANGED <<database, id, lookup, mutation, marked, flight, fails, ghosts>>

(* The statement: one on a transaction that has ended is rejected.          *)
Query(o) ==
  /\ ops[o].st = "ready"
  /\ IF ops[o].client = 0 \/ Live(ops[o].client)
       THEN ops' = [ops EXCEPT ![o].st = "ran"]
       ELSE ops' = [ops EXCEPT ![o] = Refused]
  /\ UNCHANGED <<database, id, lookup, mutation, marked, flight, fails, ghosts>>

(* Another request of the caller; it waits for a transaction that wrote.    *)
SwitchElsewhere(b) ==
  /\ b # active /\ ~(mutation.tx = "live" /\ mutation.wrote)
  /\ active' = b /\ ever' = ever \cup {b}
  /\ UNCHANGED <<id, lookup, mutation, marked, flight, ops, fails, ghosts>>

Mutates ==
  \/ RunInMutation \/ UseBudgetSource \/ CommitTx \/ AbortTx \/ Returns \/ Throws
  \/ \E b \in Budgets : Activates(b)

Next ==
  \/ Mutates
  \/ \E o \in Ops, kind \in Kinds, store \in 0..mutation.n :
       \E client \in {0, store} : Issue(o, kind, store, client)
  \/ \E o \in Ops : Find(o) \/ Settle(o) \/ Wake(o) \/ Query(o)
  \/ \E b \in Budgets : SwitchElsewhere(b)

Spec == Init /\ [][Next]_vars

-----------------------------------------------------------------------------
OpsOf == [st : {"new", "waiting", "ready", "ran", "refused"}, kind : Kinds, store : Nat,
          client : Nat, on : Ops \cup {NoLookup}, budget : Budgets \cup {NoBudget}]

TypeOK ==
  /\ active \in Budgets \cup {NoBudget} /\ ever \subseteq Budgets \cup {NoBudget}
  /\ id \in Budgets \cup {NoBudget} /\ lookup \in Ops \cup {NoLookup}
  /\ mutation \in [n : Nat, open : BOOLEAN, source : BOOLEAN, wrote : BOOLEAN,
                   tx : {NoTx, "live", "committed", "aborted"}, made : Budgets \cup {NoBudget}]
  /\ marked \subseteq Nat
  /\ flight \in [Ops -> [st : {"none", "flying", "found", "settled"}, via : Nat, val : Answers]]
  /\ ops \in [Ops -> OpsOf]
  /\ fails \in Nat /\ since \in [Ops -> Nat] /\ beside \subseteq Ops

(* A statement of the database is filtered by one budget throughout the     *)
(* request, whatever other requests switch to, unless a mutation failed     *)
(* between the two.                                                         *)
Filtered(o) == ops[o].st = "ran" /\ ops[o].kind \in Scoped
OneBudget ==
  \A o, p \in Ops :
    Filtered(o) /\ Filtered(p) /\ since[o] = since[p] => ops[o].budget = ops[p].budget

(* A budget only a rolled-back mutation had made active never filters what  *)
(* the request reads when no mutation is open.                              *)
RolledBackNeverScopes ==
  \A o \in beside : Filtered(o) => ops[o].budget \in ever

(* A write runs on the transaction of the mutation that issued it, and      *)
(* nothing issued while one is open runs beside it.                         *)
InTheTransaction ==
  \A o \in Ops : ops[o].st = "ran" =>
    /\ ops[o].kind \in Writes \/ o \notin beside => ops[o].client # 0
    /\ ops[o].client # 0 => ops[o].client = ops[o].store

(* An absence or a failure is not remembered: what asks next asks again.    *)
AbsenceIsAskedAgain ==
  lookup # NoLookup /\ flight[lookup].st = "settled" => id # NoBudget
=============================================================================
