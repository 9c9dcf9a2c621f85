--------------------------- MODULE MCActiveBudget ---------------------------
(* Two requests at once over three budgets and three names; and what is copied from templates
   with two groups, two categories, two accounts and up to three goals. *)
EXTENDS ActiveBudget, Integers, FiniteSets

CONSTANTS b1, b2, b3, n1, n2, n3

MCBudgets == {b1, b2, b3}

Make(b, n, template) == [kind |-> "create", id |-> b, name |-> n, from |-> template]
Rename(b, n)         == [kind |-> "rename", id |-> b, name |-> n]
Activate(b)          == [kind |-> "activate", id |-> b]

\* Creations that meet each other under one name and under two, a copy, a renaming that
\* wants a name being taken, switches, and a request writing into the active budget.
RaceMenu == {Make(b1, n1, NoBudget), Make(b2, n1, NoBudget), Make(b3, n2, b1),
             Rename(b1, n2), Activate(b1), Activate(b2), [kind |-> "record"]}

-----------------------------------------------------------------------------
(* What a creation copies, of every small template. *)

Copy == INSTANCE BudgetCopy WITH None <- NoBudget

Books ==
  [groups     : {{[id |-> 1, order |-> m, hidden |-> h], [id |-> 2, order |-> 1, hidden |-> FALSE]} :
                   m \in {0, 2}, h \in BOOLEAN},
   categories : {{[id |-> 1, group |-> g, order |-> m, hidden |-> h, default |-> a],
                  [id |-> 2, group |-> 2, order |-> 1, hidden |-> FALSE, default |-> 2]} :
                   g \in 1..2, m \in {0, 2}, h \in BOOLEAN, a \in {1, 3, NoBudget}},
   accounts   : {{[id |-> 1, order |-> m, archived |-> x], [id |-> 2, order |-> 1, archived |-> y]} :
                   m \in {0, 2}, x \in BOOLEAN, y \in BOOLEAN},
   goals      : SUBSET {[category |-> 1, start |-> 1, due |-> NoBudget, end |-> NoBudget],
                        [category |-> 1, start |-> 2, due |-> 3, end |-> NoBudget],
                        [category |-> 2, start |-> 1, due |-> 2, end |-> 1]},
   currency : {1}, minorDigits : {2}]

\* Account ids have gaps; the others are their own places.
Minted == [account  |-> [n \in Nat |-> 3 * n + 1],
           group    |-> [n \in Nat |-> n],
           category |-> [k \in Nat \X Nat |-> k]]

New(month) == [month |-> month, currency |-> 1, minorDigits |-> 2]

ASSUME TemplatesCopied ==
  \A book \in Books :
    /\ Copy!IsTemplate(book)
    /\ Copy!AccountsMatch(book, Minted)
    /\ Copy!CategoriesHang(book, Minted)
    /\ \A month \in 1..4 : Copy!GoalsHang(book, Minted, New(month))

\* Goals and defaults do come along, and are left behind, in some of them.
ASSUME CopiesDiffer ==
  /\ {Cardinality(Copy!WrittenGoals(book, Minted, New(2))) : book \in Books} = {0, 1}
  /\ {Cardinality(row.default) : row \in UNION {Copy!WrittenCategories(book, Minted) : book \in Books}} = {0, 1}
=============================================================================
