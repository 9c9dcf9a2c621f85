----------------------------- MODULE MCFormDesk -----------------------------
(* FormDesk, every desk of the client in turn, or the ledger alone.         *)
EXTENDS FormDesk
=============================================================================
