-------------------------- MODULE MCMutationPoint --------------------------
(* Three attempts over two keys.  "name" and "rename" write the same unique row,  *)
(* "spend" writes none, so every kind of conflict can meet every other.           *)
EXTENDS MutationPoint, TLC

MCRequests == {"name", "rename", "spend"}
MCRows     == {"taken_name"}
MCRowOf    == [q \in MCRequests |-> IF q = "spend" THEN NoRow ELSE "taken_name"]
=============================================================================
