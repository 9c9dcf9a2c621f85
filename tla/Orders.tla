------------------------------- MODULE Orders -------------------------------
(***************************************************************************)
(* The order of the categories of a group (and of the groups of a budget): *)
(* how the month screen makes one from a drop (lib/category-order.ts) and  *)
(* how the API writes it (write-order.ts and the two reorderings).         *)
(*                                                                         *)
(* The screen shows what is paid for behind the rest, so the list a drop   *)
(* comes from is not the list that is stored; and it lists only what is    *)
(* visible, so the list it sends is not all the group holds.               *)
(***************************************************************************)
EXTENDS Naturals, Sequences, SequencesExt

(* A drop: the one at from is taken out and put in at to, both counted from 0. *)
reordered(ids, from, to) == InsertAt(RemoveAt(ids, from + 1), to + 1, ids[from + 1])

shownOrder(stored, paid) ==
  SelectSeq(stored, LAMBDA id : id \notin paid) \o SelectSeq(stored, LAMBDA id : id \in paid)

(* How many of the first n ids of a list are of a kind. *)
CountUpto(ids, kind, n) == Len(SelectSeq(SubSeq(ids, 1, n), LAMBDA id : id \in kind))

SameSet(stored, shown) ==
  /\ Len(stored) = Len(shown)
  /\ Cardinality(ToSet(shown)) = Len(shown)
  /\ ToSet(stored) \subseteq ToSet(shown)

(* The places of what is paid for stay theirs, and so do those of the rest; who fills them is
   taken from the list shown. *)
storedOrder(stored, paid, shown) ==
  LET open == ToSet(stored) \ paid
      ofKind(kind, n) ==
        SelectSeq(shown, LAMBDA id : id \in kind)[CountUpto(stored, kind, n)]
  IN  [n \in DOMAIN stored |-> ofKind(IF stored[n] \in paid THEN paid ELSE open, n)]

(* reorderedView, reorderedGroups: the list on screen follows the drop, unless it has lost one
   of the ids meanwhile or gained another. *)
FollowsOnScreen(onScreen, ids) ==
  LET moved == SelectSeq(ids, LAMBDA id : id \in ToSet(onScreen))
  IN  IF Len(moved) = Len(onScreen) THEN moved ELSE onScreen

-----------------------------------------------------------------------------
(* The API: held is what the group holds, a list of rows in no particular order *)

Ids(held) == [n \in DOMAIN held |-> held[n].id]

(* refuseAnythingButASubset. *)
Usable(asked, held) ==
  /\ Cardinality(ToSet(asked)) = Len(asked)
  /\ ToSet(asked) \subseteq ToSet(Ids(held))

(* What is not named keeps its order behind what is; equal orders stay as they came. *)
Rest(asked, held) == {n \in DOMAIN held : held[n].id \notin ToSet(asked)}
Before(held, m, n) ==
  \/ held[m].sortOrder < held[n].sortOrder
  \/ held[m].sortOrder = held[n].sortOrder /\ m <= n

wholeOrder(asked, held) ==
  LET rest == SetToSortSeq(Rest(asked, held), LAMBDA m, n : Before(held, m, n))
  IN  asked \o [n \in DOMAIN rest |-> held[rest[n]].id]

(* The rows are written one by one, in the order of their ids. *)
inWriteOrder(ids) ==
  SetToSortSeq({[id |-> ids[n], sortOrder |-> n - 1] : n \in DOMAIN ids},
               LAMBDA left, right : left.id <= right.id)

(* The group after a reordering: the rows it held, each with the order written last into it. *)
AfterReorder(asked, held) ==
  LET writes == inWriteOrder(wholeOrder(asked, held))
      mine(id) == CHOOSE n \in DOMAIN writes : writes[n].id = id
  IN  [n \in DOMAIN held |-> [id |-> held[n].id, sortOrder |-> writes[mine(held[n].id)].sortOrder]]

(* The next reading of the month lists them by that order (budget-view.query.ts). *)
ReadBack(held, visible) ==
  LET rows == SetToSortSeq({n \in DOMAIN held : held[n].id \in visible},
                           LAMBDA m, n : Before(held, m, n))
  IN  [n \in DOMAIN rows |-> held[rows[n]].id]
=============================================================================
