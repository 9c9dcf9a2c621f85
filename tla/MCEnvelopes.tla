---------------------------- MODULE MCEnvelopes ----------------------------
(* Three transactions over two groups, three categories and a fourth to create. *)
(* Category 1 and 2 start in group g, category 3 in group h.                    *)
EXTENDS Envelopes, TLC

CONSTANTS g, h

MCCategories == 1..4
MCRecords == {10, 11}

In(group) == [group |-> group, hidden |-> Shown]

On(kind, c)  == [kind |-> kind, category |-> c]
All(kind, group) == [kind |-> kind, group |-> group]
Put(kind, c, group) == [kind |-> kind, category |-> c, group |-> group, id |-> c]
Shift(a, b, amount)       == [kind |-> "move", from |-> a, to |-> b, amount |-> amount]
Spend(kind, r, c, amount) == [kind |-> kind, id |-> r, category |-> c, amount |-> amount]

MCSeed == [categories |-> (1 :> In(g) @@ 2 :> In(g) @@ 3 :> In(h) @@ 4 :> None),
           records    |-> (10 :> None @@ 11 :> None)]

\* The envelopes start empty, except for a record of nothing that edits and removals work on.
FiledSeed == [MCSeed EXCEPT !.records = (10 :> None @@ 11 :> [category |-> 1, amount |-> 0])]

HideMenu == {On("hide", 1), On("unhide", 1), All("hideGroup", g), All("unhideGroup", g),
             Shift(Pool, 1, 1), Shift(2, 1, 1), Shift(1, Pool, 1), Put("place", 1, h),
             Put("create", 4, g), Spend("record", 10, 1, 1), Spend("record", 10, 2, -1),
             Spend("rewrite", 11, 1, 2), Spend("rewrite", 11, 2, 1),
             [kind |-> "remove", id |-> 11]}

GroupMenu == {All("hideGroup", g), All("unhideGroup", g), Put("place", 1, h),
              Put("place", 3, g), Put("create", 4, g), On("unhide", 1)}

RecordMenu == {On("hide", 1), Spend("record", 10, 1, 1), Spend("rewrite", 11, 1, 2)}

Symmetry == Permutations(Txs)
=============================================================================
