----------------------------- MODULE BudgetCopy -----------------------------
(***************************************************************************)
(* What a new budget takes over from a template (budgets.service.ts,       *)
(* budget-copy.ts): which rows are read and which rows are written.        *)
(*                                                                         *)
(* A row says its id, its place in the order of its statement (order), and *)
(* what points where; names, kinds and looks go along with `of`, the id of *)
(* the row they are copied from. Assets and liabilities, copied by their   *)
(* names alone, are left out. `copy` is the new budget: its first month    *)
(* and how it counts money. The template's tree and its accounts are read  *)
(* by two statements, so an account a category names may be archived, or   *)
(* opened again, between them: the default of a category is any id.        *)
(*                                                                         *)
(* Rows are written many at a time and come back in any order. What the    *)
(* code relies on is how they are found again: groups by the order written *)
(* into them, categories by their group and that order, and accounts,      *)
(* which have no order, by their ids, which are version 7 and ascend with  *)
(* the data they were made for (minted).                                   *)
(***************************************************************************)
EXTENDS Integers, FiniteSets

CONSTANT None    \* no default account, no due month, no last month

-----------------------------------------------------------------------------
(* Reading the template *)

(* Where a row stands among those its statement returned. *)
Place(S, x) == Cardinality({y \in S : y.order < x.order})

(* categoryTreeStatement, gathered: the groups and categories that are shown. *)
Groups(book) == {g \in book.groups : ~g.hidden}
Categories(book, g) == {c \in book.categories : c.group = g.id /\ ~c.hidden}
Goals(book, c) == {t \in book.goals : t.category = c.id}

(* openAccountsStatement. *)
Accounts(book) == {a \in book.accounts : ~a.archived}

(* goalsComeAlong: amounts mean the same in both budgets. *)
goalsComeAlong(book, copy) ==
  book.currency = copy.currency /\ book.minorDigits = copy.minorDigits

(* liveTarget: the goal started last of those still running, if there is one. *)
Running(goals, month) ==
  {t \in goals : t.start <= month /\ t.end = None /\ (t.due # None => month <= t.due)}
Live(goals, month) ==
  {t \in Running(goals, month) : \A u \in Running(goals, month) : u.start <= t.start}

-----------------------------------------------------------------------------
(* Writing the copy *)

WrittenAccounts(book, minted) ==
  {[id |-> minted.account[Place(Accounts(book), a)], of |-> a.id] : a \in Accounts(book)}

(* The ids that came back, sorted: the one with n smaller ones stands at place n. *)
Nth(ids, n) == CHOOSE i \in ids : Cardinality({j \in ids : j < i}) = n

(* accountIds: the accounts and their copies, matched by place. *)
CopyOf(book, minted, a) ==
  Nth({row.id : row \in WrittenAccounts(book, minted)}, Place(Accounts(book), a))

DefaultIn(book, minted, c) ==
  {CopyOf(book, minted, a) : a \in {b \in Accounts(book) : b.id = c.default}}

WrittenGroups(book, minted) ==
  {[id |-> minted.group[Place(Groups(book), g)], order |-> Place(Groups(book), g), of |-> g.id] :
     g \in Groups(book)}

(* groupIds: the row written with this order. *)
GroupAt(book, minted, place) ==
  (CHOOSE row \in WrittenGroups(book, minted) : row.order = place).id

(* The tree's categories, each with the group it stands in. *)
Placed(book) == {p \in Groups(book) \X book.categories : p[2] \in Categories(book, p[1])}
PlaceIn(book, p) == Place(Categories(book, p[1]), p[2])

WrittenCategories(book, minted) ==
  {[id      |-> minted.category[<<Place(Groups(book), p[1]), PlaceIn(book, p)>>],
    group   |-> GroupAt(book, minted, Place(Groups(book), p[1])),
    order   |-> PlaceIn(book, p),
    of      |-> p[2].id,
    default |-> DefaultIn(book, minted, p[2])] : p \in Placed(book)}

(* categoryIds: the row written into this group with this order. *)
CategoryAt(book, minted, group, place) ==
  (CHOOSE row \in WrittenCategories(book, minted) : row.group = group /\ row.order = place).id

GoalsCopied(book, copy) ==
  {q \in Placed(book) \X book.goals :
     goalsComeAlong(book, copy) /\ q[2] \in Live(Goals(book, q[1][2]), copy.month)}

WrittenGoals(book, minted, copy) ==
  {[category |-> CategoryAt(book, minted, GroupAt(book, minted, Place(Groups(book), q[1][1])),
                            PlaceIn(book, q[1])),
    of    |-> q[2],
    start |-> copy.month,
    due   |-> q[2].due] : q \in GoalsCopied(book, copy)}

(* The opening record of every account copied. *)
WrittenOpenings(book, minted) ==
  {[account |-> CopyOf(book, minted, a), amount |-> 0] : a \in Accounts(book)}

-----------------------------------------------------------------------------
(* What the rows of the two books must be for that *)

Ordered(S) ==
  /\ IsFiniteSet(S)
  /\ \A x \in S : x.order \in Int
  /\ \A x, y \in S : x.order = y.order => x = y

Identified(S) == \A x, y \in S : x.id = y.id => x = y

(* Ids are unique in their tables, no statement leaves an order open, and one goal of a
   category starts in a month. *)
IsTemplate(book) ==
  /\ Ordered(Accounts(book)) /\ Identified(book.accounts)
  /\ Ordered(Groups(book)) /\ Identified(book.groups)
  /\ \A g \in Groups(book) : Ordered(Categories(book, g))
  /\ Identified(book.categories)
  /\ \A t, u \in book.goals : t.category = u.category /\ t.start = u.start => t = u
  /\ \A t \in book.goals : t.start \in Int /\ (t.due # None => t.due \in Int)

(* Ids are new for every row; those of accounts ascend with the data. *)
IsMint(minted) ==
  /\ minted.account \in [Nat -> Int]
  /\ \A m, n \in Nat : m < n => minted.account[m] < minted.account[n]
  /\ \A m, n \in Nat : minted.group[m] = minted.group[n] => m = n
  /\ \A k, m, l, n \in Nat : minted.category[<<k, m>>] = minted.category[<<l, n>>] => k = l /\ m = n

-----------------------------------------------------------------------------
(* What the copy is *)

(* Each account of the template is matched with the row that was written from it. *)
AccountsMatch(book, minted) ==
  \A a \in Accounts(book) :
    \A row \in WrittenAccounts(book, minted) : row.id = CopyOf(book, minted, a) <=> row.of = a.id

(* A category stands in the copy of its group, and points at the copy of its account if that
   was open when the accounts were read, and at nothing otherwise. *)
CategoriesHang(book, minted) ==
  \A row \in WrittenCategories(book, minted), c \in book.categories : row.of = c.id =>
    /\ \E group \in WrittenGroups(book, minted) : group.id = row.group /\ group.of = c.group
    /\ row.default = {account.id : account \in
                        {r \in WrittenAccounts(book, minted) : r.of = c.default}}

(* A goal hangs on the copy of its category, no category has two, and none is over before it
   starts. *)
GoalsHang(book, minted, copy) ==
  LET goals == WrittenGoals(book, minted, copy) IN
    /\ \A goal \in goals :
         /\ \E row \in WrittenCategories(book, minted) :
              row.id = goal.category /\ row.of = goal.of.category
         /\ goal.due # None => goal.start <= goal.due
    /\ \A t, u \in goals : t.category = u.category => t = u
=============================================================================
