------------------------------- MODULE Erase --------------------------------
(* POST /me/erase (MeService.erase and eraseUserDataStatements) against the *)
(* writes it races: twelve deletes in one READ COMMITTED transaction, each  *)
(* with a snapshot of its own, over tables whose foreign keys all restrict. *)
(* A writer is a mutation of another module, taken as what the database     *)
(* sees of it: a claim of its key, locks on rows, rows inserted with the    *)
(* share locks their foreign keys take, and a commit.  The answer of either *)
(* may be lost, and the same key is sent again.                             *)
(*                                                                          *)
(* A row is <<table, owner>>; an owner is a writer's attempt, or the seed.  *)
(* An attempt is <<sender, number>>, and <<sender, 0>> owns its key.        *)
EXTENDS Integers, FiniteSets, Sequences

CONSTANTS
  Writers,   \* clients that write, each under one key
  Plans      \* what a writer may do: sequences of Steps

Tables == {"transaction", "assignment", "category_target", "category_paid_month",
           "category", "category_group", "account", "asset", "liability",
           "budget", "user_settings", "idempotency_key"}

(* The rows of a budget and the budget; a caller's settings and keys stand   *)
(* by themselves, one row of settings and one row of a key.                 *)
BudgetTables == Tables \ {"user_settings", "idempotency_key"}

LooseParents(table) == {} \* mutant of Parents

(* The foreign keys, every one of them onDelete: Restrict. *)
Parents(table) ==
  CASE table = "transaction" -> {"budget", "account", "category"}
    [] table \in {"assignment", "category_target", "category_paid_month"} -> {"budget", "category"}
    [] table = "category" -> {"budget", "category_group", "account"}
    [] table \in {"category_group", "account", "asset", "liability"} -> {"budget"}
    [] OTHER -> {}

Attempts == Writers \X {1, 2}
WriterOf(a) == a[1]
Eraser == <<"erase", 0>>
Old == <<"seed", 1>>
Pair == <<"seed", 2>>
KeyRow(sender) == <<"idempotency_key", <<sender, 0>>>>
EraseKey == KeyRow("erase")

Steps ==
  [act : {"insert"}, table : BudgetTables]
    \cup [act : {"hold"}, table : Tables, owner : {Old, Pair}]
    \cup [act : {"take"}, table : Tables]
    \cup [act : {"upsert"}, table : {"user_settings"}]

ASSUME EraseAssumption ==
  {"erase", "seed"} \cap Writers = {} /\ Plans \subseteq Seq(Steps)

VARIABLES
  plan,      \* what each writer does
  at,        \* the attempts: where each stands
  fresh,     \* rows an open transaction inserted, the erase's included
  checks,    \* parents an insert under way has not locked yet
  held,      \* rows an attempt holds a lock on
  live,      \* committed rows
  dying,     \* rows the erase deleted and has not committed
  erase,     \* the erase: its state, its statement, the rows left of it
  before     \* ghost: the rows that were there when it began

writer == <<plan, at, checks, held>>
eraseVars == <<writer, fresh, live, dying, erase, before>>

Openers == Attempts \cup {Eraser}
Seed == {<<t, Old>> : t \in Tables \ {"idempotency_key"}}
          \cup {<<"transaction", Pair>>, KeyRow("seed")}

EraseInit ==
  /\ plan \in [Writers -> Plans]
  /\ at = [a \in Attempts |-> [st |-> "idle", n |-> 1]]
  /\ fresh = [o \in Openers |-> {}]
  /\ checks = [a \in Attempts |-> {}] /\ held = [a \in Attempts |-> {}]
  /\ live = Seed /\ dying = {}
  /\ erase = [st |-> "idle", n |-> 0, seen |-> {}]
  /\ before = {}

Running(a) == at[a].st = "running"
Erasing == erase.st = "running"
PlanOf(a) == plan[WriterOf(a)]
Inserts(a) == {PlanOf(a)[n].table : n \in {m \in DOMAIN PlanOf(a) : PlanOf(a)[m].act = "insert"}}
RowsOf(a) == {<<t, a>> : t \in Inserts(a)}

(* A row points at the rows written with it, or at what was there.          *)
ParentsOf(row) ==
  {<<p, IF row[2] \in Attempts /\ p \in Inserts(row[2]) THEN row[2] ELSE Old>>
     : p \in Parents(row[1])}

-----------------------------------------------------------------------------
(* A writer. *)

Ends(a, st) ==
  /\ at' = [at EXCEPT ![a] = [st |-> st, n |-> 1]]
  /\ fresh' = [fresh EXCEPT ![a] = {}]
  /\ checks' = [checks EXCEPT ![a] = {}] /\ held' = [held EXCEPT ![a] = {}]

(* Whether a unique index makes the claim of a key wait. *)
ClaimWaits(w) ==
  \/ KeyRow(w) \in dying
  \/ \E o \in Openers : KeyRow(w) \in fresh[o]

(* A second attempt is a retry of a lost answer. *)
Claim(a) ==
  /\ at[a].st = "idle" /\ ~ClaimWaits(WriterOf(a))
  /\ a[2] = 2 => at[<<a[1], 1>>].st # "idle"
  /\ IF KeyRow(WriterOf(a)) \in live
       THEN Ends(a, "replayed")
       ELSE /\ at' = [at EXCEPT ![a].st = "running"]
            /\ fresh' = [fresh EXCEPT ![a] = {KeyRow(WriterOf(a))}]
            /\ UNCHANGED <<checks, held>>
  /\ UNCHANGED <<plan, live, dying, erase, before>>

Doing(a, act) ==
  /\ Running(a) /\ at[a].n <= Len(PlanOf(a)) /\ PlanOf(a)[at[a].n].act = act
  /\ checks[a] = {}

(* FOR UPDATE of a row that was there before. *)
Hold(a) ==
  /\ Doing(a, "hold")
  /\ LET row == <<PlanOf(a)[at[a].n].table, PlanOf(a)[at[a].n].owner>> IN
     /\ row \notin dying
     /\ IF row \in live
          THEN /\ held' = [held EXCEPT ![a] = @ \cup {row}]
               /\ at' = [at EXCEPT ![a].n = @ + 1]
               /\ UNCHANGED <<fresh, checks>>
          ELSE Ends(a, "refused")
  /\ UNCHANGED <<plan, live, dying, erase, before>>

(* FOR UPDATE of whatever rows of a table there are, and an upsert of one.  *)
There(table) == {r \in live : r[1] = table}
Writes(table) == \E o \in Openers : \E r \in fresh[o] : r[1] = table

Take(a, act) ==
  /\ Doing(a, act)
  /\ LET table == PlanOf(a)[at[a].n].table IN
     /\ There(table) \cap dying = {}
     /\ act = "upsert" => ~Writes(table)
     /\ held' = [held EXCEPT ![a] = @ \cup There(table)]
     /\ fresh' = IF act = "upsert" /\ There(table) = {}
                   THEN [fresh EXCEPT ![a] = @ \cup {<<table, a>>}] ELSE fresh
  /\ at' = [at EXCEPT ![a].n = @ + 1]
  /\ UNCHANGED <<plan, checks, live, dying, erase, before>>

Insert(a) ==
  /\ Doing(a, "insert")
  /\ LET row == <<PlanOf(a)[at[a].n].table, a>> IN
     /\ fresh' = [fresh EXCEPT ![a] = @ \cup {row}]
     /\ checks' = [checks EXCEPT ![a] = ParentsOf(row) \ fresh[a]]
  /\ at' = [at EXCEPT ![a].n = @ + 1]
  /\ UNCHANGED <<plan, held, live, dying, erase, before>>

(* The foreign keys of an insert: each parent is locked, or waited for, or  *)
(* not there any more.                                                      *)
Check(a, row) ==
  /\ Running(a) /\ row \in checks[a] \ dying
  /\ IF row \in live
       THEN /\ held' = [held EXCEPT ![a] = @ \cup {row}]
            /\ checks' = [checks EXCEPT ![a] = @ \ {row}]
            /\ UNCHANGED <<at, fresh>>
       ELSE Ends(a, "refused")
  /\ UNCHANGED <<plan, live, dying, erase, before>>

Commit(a) ==
  /\ Running(a) /\ at[a].n > Len(PlanOf(a)) /\ checks[a] = {}
  /\ live' = live \cup fresh[a]
  /\ Ends(a, "done")
  /\ UNCHANGED <<plan, dying, erase, before>>

-----------------------------------------------------------------------------
(* The erase. *)

KeysFirst == \* mutant of Statements
  <<"idempotency_key", "transaction", "assignment", "category_target",
    "category_paid_month", "category", "category_group", "account", "asset",
    "liability", "budget", "user_settings">>
Statements ==
  <<"transaction", "assignment", "category_target", "category_paid_month",
    "category", "category_group", "account", "asset", "liability", "budget",
    "user_settings", "idempotency_key">>

Spared == {EraseKey}

(* The claim of the erase's own key, or the answer of the first attempt. *)
EraseBegin ==
  /\ ~Erasing /\ EraseKey \notin live
  /\ erase' = [st |-> "running", n |-> 0, seen |-> {}]
  /\ fresh' = [fresh EXCEPT ![Eraser] = {EraseKey}]
  /\ before' = live
  /\ UNCHANGED <<writer, live, dying>>

(* A statement that took a row away from committed children is refused;     *)
(* and the answer of the erase is written on its own key.                   *)
Refuses == \E child \in live \ dying : ParentsOf(child) \cap dying # {}
Loses == EraseKey \in dying

StartStatement ==
  /\ Erasing /\ erase.seen = {} /\ erase.n < Len(Statements) /\ ~Refuses
  /\ LET table == Statements[erase.n + 1] IN
     erase' = [erase EXCEPT !.n = @ + 1,
                 !.seen = {r \in live \cup fresh[Eraser] : r[1] = table} \ Spared]
  /\ UNCHANGED <<writer, fresh, live, dying, before>>

HeldByWriters == UNION {held[a] : a \in Attempts}

Delete(row) ==
  /\ Erasing /\ row \in erase.seen \ HeldByWriters
  /\ erase' = [erase EXCEPT !.seen = @ \ {row}]
  /\ dying' = dying \cup {row}
  /\ UNCHANGED <<writer, fresh, live, before>>

EraseEnds(st) ==
  /\ erase' = [st |-> st, n |-> 0, seen |-> {}]
  /\ dying' = {} /\ fresh' = [fresh EXCEPT ![Eraser] = {}]
  /\ UNCHANGED <<writer, before>>

EraseRefused ==
  /\ Erasing /\ erase.seen = {}
  /\ Refuses \/ (erase.n = Len(Statements) /\ Loses)
  /\ EraseEnds("failed")
  /\ UNCHANGED live

EraseCommit ==
  /\ Erasing /\ erase.seen = {} /\ erase.n = Len(Statements) /\ ~(Refuses \/ Loses)
  /\ live' = (live \cup fresh[Eraser]) \ dying
  /\ EraseEnds("done")

(* The erase waits for a writer that waits for it: the database ends one.   *)
Stuck(a) ==
  /\ Running(a) /\ erase.seen # {} /\ erase.seen \subseteq HeldByWriters
  /\ erase.seen \cap held[a] # {}
  /\ \/ checks[a] \cap dying # {}
     \/ /\ Doing(a, "hold")
        /\ <<PlanOf(a)[at[a].n].table, PlanOf(a)[at[a].n].owner>> \in dying
     \/ \E act \in {"take", "upsert"} :
          Doing(a, act) /\ There(PlanOf(a)[at[a].n].table) \cap dying # {}

Deadlock(a) ==
  /\ Erasing /\ Stuck(a)
  /\ \/ EraseEnds("failed") /\ UNCHANGED live
     \/ Ends(a, "refused") /\ UNCHANGED <<plan, live, dying, erase, before>>

EraseStep ==
  \/ StartStatement \/ EraseRefused \/ EraseCommit
  \/ \E row \in erase.seen : Delete(row)

WriterStep(a) ==
  \/ Claim(a) \/ Hold(a) \/ Take(a, "take") \/ Take(a, "upsert")
  \/ Insert(a) \/ Commit(a) \/ Deadlock(a)
  \/ \E row \in checks[a] : Check(a, row)

EraseNext == EraseBegin \/ EraseStep \/ \E a \in Attempts : WriterStep(a)

EraseSpec == EraseInit /\ [][EraseNext]_eraseVars

-----------------------------------------------------------------------------
Erased == erase.st = "done"
Once(a) == at[a].st = "done" /\ at[<<a[1], 3 - a[2]>>].st # "done"

(* Nothing that was committed when the erase began outlives it, and of what *)
(* a write that raced it put into a budget either every row does or none.   *)
LeavesNothingHalf ==
  Erased =>
    /\ live \cap before \subseteq {KeyRow(a[1]) : a \in {b \in Attempts : at[b].st = "done"}}
    /\ \A a \in Attempts : at[a].st = "done" =>
         RowsOf(a) \subseteq live \/ RowsOf(a) \cap live = {}

(* A key that outlives the erase answers for rows that outlive it: a retry  *)
(* is never told of a write the erase removed.                              *)
KeysAnswerForRows ==
  Erased => \A a \in Attempts :
    Once(a) /\ KeyRow(WriterOf(a)) \in live => RowsOf(a) \subseteq live
=============================================================================
