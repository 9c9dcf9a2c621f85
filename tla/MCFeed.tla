------------------------------- MODULE MCFeed -------------------------------
(* Three records, two of them made at one moment, on two days.              *)
EXTENDS Feed
MCMade == <<1, 1, 2>>
=============================================================================
