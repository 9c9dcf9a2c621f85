------------------------------ MODULE MCErase -------------------------------
(* Two writers, each sent twice under its key, over a row of every table.         *)
EXTENDS Erase
Into(t) == [act |-> "insert", table |-> t]
All(t) == [act |-> "take", table |-> t]
Own(t) == [act |-> "upsert", table |-> t]
On(t, o) == [act |-> "hold", table |-> t, owner |-> o]
MCPlans ==
  {<<Into("transaction")>>,                                  \* a record
   <<On("account", Old), Into("transaction")>>,         \* on a locked account
   <<On("transaction", Old), On("transaction", Pair)>>, \* a transfer edited
   <<On("category", Old), Into("category_target")>>,    \* a goal, a paid mark
   <<Into("assignment")>>,                                   \* a move
   <<Into("category_group")>>, <<Into("category")>>,
   <<Into("account"), Into("transaction")>>,                 \* an account opened
   <<Into("asset")>>,
   <<Own("user_settings")>>,
   <<All("budget"), Own("user_settings"), Into("budget"), Into("category_group"),
     Into("category")>>}
=============================================================================
