----------------------------- MODULE BudgetBook -----------------------------
(***************************************************************************)
(* What one user's budgets promise, as the user sees them: a book of named *)
(* budgets of which one is open.  Starting a budget opens it, opening one  *)
(* puts the other away, and no two carry one name (names are compared      *)
(* without their case, so an element of Names stands for all spellings).   *)
(* Every operation is one step; ActiveBudget is the code that keeps this.  *)
(***************************************************************************)
CONSTANTS Budgets,   \* ids
          Names,     \* names, up to case
          NoName     \* the name of a budget that does not exist

VARIABLES names,     \* what each id is called, NoName when there is no such budget
          active     \* the budgets carrying the active mark

book == <<names, active>>

Held == {b \in Budgets : names[b] # NoName}

(* Another budget carries this name. *)
Taken(n, except) == \E b \in Held \ except : names[b] = n

ExactlyOneActive == IF Held = {} THEN active = {} ELSE \E b \in Held : active = {b}

NamesDiffer == \A b, c \in Held : names[b] = names[c] => b = c

Init ==
  /\ names \in [Budgets -> Names \union {NoName}]
  /\ active \in SUBSET Budgets
  /\ NamesDiffer
  /\ ExactlyOneActive

Start(b, n) ==
  /\ b \notin Held
  /\ ~Taken(n, {})
  /\ names' = [names EXCEPT ![b] = n]
  /\ active' = {b}

Name(b, n) ==
  /\ b \in Held
  /\ ~Taken(n, {b})
  /\ names' = [names EXCEPT ![b] = n]
  /\ UNCHANGED active

Open(b) ==
  /\ b \in Held
  /\ active' = {b}
  /\ UNCHANGED names

Next == \E b \in Budgets :
          \/ \E n \in Names : Start(b, n) \/ Name(b, n)
          \/ Open(b)

Spec == Init /\ [][Next]_book
=============================================================================
