----------------------------- MODULE MCMoveDesk -----------------------------
(* MoveDesk on two months, with two keys; and the functions its screen      *)
(* computes amounts and orders with, on small inputs.                       *)
EXTENDS MoveDesk, Sequences, FiniteSets

-----------------------------------------------------------------------------
Amounts == INSTANCE Amounts
Orders == INSTANCE Orders

Times(n)     == [op |-> "*", by |-> n, scale |-> 1, wellFormed |-> TRUE]
DividedBy(n) == [op |-> "/", by |-> n, scale |-> 1, wellFormed |-> TRUE]

\* Whatever the signs, a quotient is rounded to the nearest amount, a half away from zero.
ASSUME RoundsToNearest ==
  \A n \in -30..30, d \in (-12..12) \ {0} : Amounts!IsNearest(Amounts!rounded(n, d), n, d)

\* What the field shows is read back as it was; a field that takes no sign refuses a negative.
ASSUME ShownIsReadBack ==
  \A scale \in {1, 10, 100, 1000}, v \in -1010..1010 :
    LET text == Amounts!Shown(v, scale) IN
      /\ Amounts!readAmount(text, scale, TRUE) = Amounts!Value(v, FALSE)
      /\ (Amounts!readAmount(text, scale, FALSE).fault = "negative") = (v < 0)

\* A fraction with fewer digits than the currency has is scaled, one with more is refused.
ASSUME FractionsAreScaled ==
  \A s \in {1, 10, 100, 1000}, w \in 0..3 : \A f \in 0..(s - 1) :
    LET read == Amounts!readTerm([negative |-> FALSE, whole |-> w, fraction |-> f, scale |-> s,
                                  blank |-> FALSE, wellFormed |-> TRUE], 100)
    IN  IF s > 100 THEN read = Amounts!Fault("digits")
        ELSE read.fault = "none" /\ read.minor * s = (w * s + f) * 100

\* A product is rounded once, at its end: dividing and multiplying again loses nothing.
ASSUME ProductsAreExact ==
  \A v \in 0..60, k \in 1..12 :
    LET first == Amounts!Shown(v, 100)[1].first IN
      \A factors \in {<<DividedBy(k), Times(k)>>, <<Times(k), DividedBy(k)>>} :
        Amounts!readProduct([first |-> first, factors |-> factors], 100) = Amounts!Value(v, FALSE)

-----------------------------------------------------------------------------
Lists(S) == {l \in [1..Cardinality(S) -> S] : \A m, n \in DOMAIN l : l[m] = l[n] => m = n}

\* A drop among the cards shown: the order sent for it is one of the stored ids, shows as the
\* drop does, and leaves what is paid for in the places it had.
ASSUME DropsAreKept ==
  \A stored \in Lists(1..4), paid \in SUBSET (1..4), from \in 0..3, to \in 0..3 :
    LET dropped == Orders!reordered(Orders!shownOrder(stored, paid), from, to)
        order == Orders!storedOrder(stored, paid, dropped)
    IN  /\ Orders!SameSet(stored, dropped)
        /\ order \in Lists(1..4)
        /\ Orders!shownOrder(order, paid) = Orders!shownOrder(dropped, paid)
        /\ \A n \in 1..4 : order[n] \in paid <=> stored[n] \in paid
        /\ Orders!FollowsOnScreen(stored, order) = order

\* Once written, a reordering reads back as it was sent, and what the screen did not list stays
\* behind it in the order it had, whatever orders the rows had tied on.
ASSUME ReorderingsAreReadBack ==
  \A asked \in Lists(1..3), orders \in [1..5 -> 0..2] :
    LET rows == [n \in 1..5 |-> [id |-> n, sortOrder |-> orders[n]]]
        after == Orders!AfterReorder(asked, rows)
    IN  /\ Orders!Usable(asked, rows)
        /\ Orders!ReadBack(after, 1..3) = asked
        /\ Orders!ReadBack(after, 4..5) = Orders!ReadBack(rows, 4..5)
        /\ \A m \in 1..3, n \in 4..5 : after[m].sortOrder < after[n].sortOrder
        /\ {after[n].sortOrder : n \in 1..5} = 0..4
=============================================================================
