-------------------------- MODULE MCAccountLedger --------------------------
(* Three transactions over small books.  Entry ids up to 6 are kept for the seeds;  *)
(* each transaction mints two ids of its own, the second lower for one of them so that *)
(* a pair's outgoing leg is not always the first in id order.                          *)
EXTENDS AccountLedger, TLC

Book(rows) == [e \in Entries |-> IF e \in DOMAIN rows THEN rows[e] ELSE NoEntry]

MCEntries == 1..12
MCFresh == [p \in Txs |-> CASE p = 1 -> <<7, 8>> [] p = 2 -> <<10, 9>> [] OTHER -> <<11, 12>>]

On1(kind, amount)      == [kind |-> kind, account |-> 1, amount |-> amount]
At(kind, a, amount)    == [kind |-> kind, account |-> a, amount |-> amount]
Edit(e, a, amount)     == [kind |-> "update", target |-> e, account |-> a, amount |-> amount]
Remove(e)              == [kind |-> "remove", target |-> e]
Send(a, b, amount)     == [kind |-> "transfer", account |-> a, other |-> b, amount |-> amount]
Resend(t, a, b, amount) ==
  [kind |-> "retransfer", target |-> t, account |-> a, other |-> b, amount |-> amount]
Unsend(t)              == [kind |-> "untransfer", target |-> t]

\* One account at zero through a record, one empty; no operation changes a record's account.
RecordsSeed == Book((1 :> Opening(1, 1)) @@ (2 :> Record(1, -1)) @@ (3 :> Opening(2, 0)))
RecordsMenu == {At("create", 1, 1), At("create", 2, -1), Edit(2, 1, -2), Remove(2), Send(1, 2, 1),
                On1("archive", 0), At("archive", 2, 0), On1("reconcile", 0), On1("reconcile", 1),
                At("opening", 2, 1), On1("opening", 2), On1("rename", 0), At("open", 3, 1)}

\* A record and a pair under edits and removals from both ends, moving between three accounts.
MovesSeed == Book((1 :> Opening(1, 1)) @@ (2 :> Leg(1, -1, 2)) @@ (3 :> Leg(2, 1, 2))
                  @@ (4 :> Opening(2, -1)) @@ (5 :> Opening(3, 0)) @@ (6 :> Record(1, 1)))
MovesMenu == {Resend(2, 1, 2, 2), Resend(2, 3, 1, 1), Unsend(2), Remove(2), Send(2, 3, 1),
              Edit(6, 2, 1), Edit(6, 3, 2), Remove(6), On1("archive", 0), At("archive", 2, 0),
              At("opening", 3, 1), At("reconcile", 3, 1)}

\* A record that one operation moves to an account while another, which read it before, is
\* still to lock; there the balance is then zero.
StaleSeed == Book((1 :> Opening(1, 1)) @@ (2 :> Record(1, 1)) @@ (3 :> Opening(2, -1)))
StaleMenu == {Edit(2, 2, 1), Edit(2, 1, 2), Remove(2), At("archive", 2, 0), On1("archive", 0)}

StaleBooks == {[seed |-> StaleSeed, menu |-> StaleMenu]}
MCBooks == {[seed |-> RecordsSeed, menu |-> RecordsMenu], [seed |-> MovesSeed, menu |-> MovesMenu]}
             \union StaleBooks
=============================================================================
