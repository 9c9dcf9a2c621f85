---------------------------- MODULE MCBudgetView ----------------------------
(* One goal of each kind, the dated ones over one, two and three months. *)
EXTENDS BudgetView

CONSTANTS c, d

Goal(kind, amount, start, due) == [kind |-> kind, amount |-> amount, start |-> start, due |-> due]

MCAmounts == {2, -1}

Rows ==
  {Goal("BY_DATE", 4, 1, 3), Goal("BY_DATE", 5, 2, 3), Goal("BY_DATE", 3, 3, 3),
   Goal("REFILL_TO", 2, 2, NoMonth), Goal("CONTRIBUTE", 2, 1, NoMonth),
   Goal("ACCUMULATE", 3, 2, NoMonth)}

\* Every goal for one envelope beside one that refills the other.
MCGoals == {[e \in {c, d} |-> IF e = c THEN g ELSE Goal("REFILL_TO", 2, 1, NoMonth)] : g \in Rows}
=============================================================================
