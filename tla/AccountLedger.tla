--------------------------- MODULE AccountLedger ---------------------------
(***************************************************************************)
(* Accounts and the entries on them: AccountsService, TransactionsService  *)
(* and TransfersService, each operation one READ COMMITTED transaction of  *)
(* several statements.  What an operation writes stays its own until it    *)
(* commits; a statement reads what is committed when it runs.              *)
(*                                                                         *)
(* An operation names the entry it works on, locks the accounts involved   *)
(* in id order (FOR UPDATE when it judges the account, FOR SHARE when it   *)
(* only writes on it), judges, writes its rows one by one and commits.     *)
(* Dates, categories and payees are abstracted: a draft refused for one of *)
(* them ends like any other operation that gives up (GiveUp).              *)
(***************************************************************************)
EXTENDS Integers, FiniteSets, FiniteSetsExt

CONSTANTS
  Txs,       \* the transactions in flight
  Accounts,  \* account ids, numbers so that they have an order
  Entries,   \* entry ids, likewise
  Fresh,     \* transaction -> the two entry ids it would mint
  Books,     \* [seed, menu]: entries there are at first, and what may be asked of them
  NoEntry,   \* no row
  Keep,      \* in a plan: the row is left as it is
  NoPair     \* the entry is no leg of a transfer

\* Every operation some book may be asked for.
Menu == UNION {b.menu : b \in Books}

Entry == [account : Accounts, amount : Int, pair : Int \union {NoPair}, system : BOOLEAN]
Inserts(p) == {Fresh[p][1], Fresh[p][2]}

Rows(S)      == {e \in Entries : S[e] # NoEntry}
LegsIn(S, t) == {e \in Rows(S) : S[e].pair = t}

\* Every transfer among the rows of S is two legs of opposite amounts on two accounts.
Mirrored(S) ==
  \A t \in {S[e].pair : e \in Rows(S)} \ {NoPair} :
    \E out, in \in LegsIn(S, t) :
      /\ LegsIn(S, t) = {out, in}
      /\ S[out].amount < 0 /\ S[in].amount = -S[out].amount
      /\ S[out].account # S[in].account

\* Ids: what a transaction mints nobody else has.
ASSUME LedgerAssumption ==
  /\ IsFiniteSet(Txs) /\ IsFiniteSet(Entries)
  /\ Accounts \subseteq Int /\ Entries \subseteq Int
  /\ NoPair \notin Int /\ NoEntry \notin Entry /\ Keep \notin Entry \union {NoEntry}
  /\ Fresh \in [Txs -> Entries \X Entries]
  /\ \A p, q \in Txs : p # q => Inserts(p) \cap Inserts(q) = {}
  /\ \A p \in Txs : Fresh[p][1] # Fresh[p][2]

\* What an endpoint accepts; a transfer's amount is positive (create-transfer.dto.ts:26).
ASSUME MenuAssumption ==
  \A o \in Menu :
    /\ o.kind \in {"open", "create", "update", "remove", "rename", "archive", "opening",
                   "reconcile", "transfer", "retransfer", "untransfer"}
    /\ o.kind \notin {"remove", "untransfer"} => o.account \in Accounts
    /\ o.kind \in {"open", "create", "update", "opening", "reconcile"} => o.amount \in Int
    /\ o.kind \in {"transfer", "retransfer"} => o.other \in Accounts /\ o.amount \in Nat \ {0}
    /\ o.kind \in {"update", "remove"} => o.target \in Entries
    /\ o.kind \in {"retransfer", "untransfer"} => o.target \in Int

\* What these operations leave behind, before any of the transactions in flight.
ASSUME SeedAssumption ==
  \A b \in Books :
    /\ b.seed \in [Entries -> Entry \union {NoEntry}]
    /\ Mirrored(b.seed)
    /\ \A e \in Rows(b.seed) : b.seed[e].system => b.seed[e].pair = NoPair
    /\ \A p \in Txs : \A i \in Inserts(p) : i \notin Rows(b.seed) /\ LegsIn(b.seed, i) = {}

VARIABLES
  book,      \* the book this is, which never changes
  accounts,  \* committed accounts: absent, open or archived
  entries,   \* committed entries
  op,        \* transaction -> the operation it runs
  step,      \* transaction -> where it stands
  want,      \* transaction -> the accounts it has still to lock
  held,      \* transaction -> the accounts it has locked
  plan,      \* transaction -> what it means each entry to become
  written,   \* transaction -> the entries it has written, and so holds
  overtaken  \* ghost: accounts written on by an operation that never locked them

vars == <<book, accounts, entries, op, step, want, held, plan, written, overtaken>>

NoPlan == [e \in Entries |-> Keep]

Record(a, m)    == [account |-> a, amount |-> m, pair |-> NoPair, system |-> FALSE]
Opening(a, m)   == [account |-> a, amount |-> m, pair |-> NoPair, system |-> TRUE]
Leg(a, m, pair) == [account |-> a, amount |-> m, pair |-> pair, system |-> FALSE]

On(a)      == {e \in Rows(entries) : entries[e].account = a}
Balance(a) == SumFunction([e \in On(a) |-> entries[e].amount])
Legs(t)    == LegsIn(entries, t)

First(S) == {x \in S : \A y \in S : x <= y}

\* heldOpenAccount locks FOR UPDATE, heldOpenAccounts FOR SHARE.
Judges == {"rename", "archive", "opening", "reconcile"}
Shares(p) == FALSE                                      \* mutant of Alone
Alone(p) == op[p].kind \in Judges

Init ==
  /\ book \in Books
  /\ accounts = [a \in Accounts |->
       IF \E e \in Rows(book.seed) : book.seed[e].account = a THEN "open" ELSE "absent"]
  /\ entries = book.seed
  /\ op = [p \in Txs |-> [kind |-> "none"]]
  /\ step = [p \in Txs |-> "idle"]
  /\ want = [p \in Txs |-> {}]
  /\ held = [p \in Txs |-> {}]
  /\ plan = [p \in Txs |-> NoPlan]
  /\ written = [p \in Txs |-> {}]
  /\ overtaken = {}

-----------------------------------------------------------------------------

\* The accounts an operation names itself; those of the row it edits join them when it is read.
NamedAtFirst(o) == IF o.kind \in Judges \union {"create"}  \* mutant of Named
                   THEN {o.account} ELSE {}
Named(o) == CASE o.kind \in Judges \union {"create", "update"} -> {o.account}
              [] o.kind \in {"transfer", "retransfer"}         -> {o.account, o.other}
              [] OTHER                                         -> {}

EditsRow(o)  == o.kind \in {"update", "remove"}
EditsPair(o) == o.kind \in {"retransfer", "untransfer"}

Ready(p, accts, rows) ==
  /\ want' = [want EXCEPT ![p] = accts]
  /\ plan' = [plan EXCEPT ![p] = rows]

Begin(p, o) ==
  /\ step[p] = "idle"
  /\ o.kind = "open" => /\ accounts[o.account] = "absent"
                        /\ \A q \in Txs : op[q].kind = "open" => op[q].account # o.account
  /\ op' = [op EXCEPT ![p] = o]
  /\ step' = [step EXCEPT ![p] = IF EditsRow(o) \/ EditsPair(o) THEN "read"
                                 ELSE IF o.kind = "open" THEN "write" ELSE "lock"]
  /\ LET first == Fresh[p][1]
         both  == Fresh[p][2]
     IN  Ready(p, Named(o),
           CASE o.kind = "open"     -> [NoPlan EXCEPT ![first] = Opening(o.account, o.amount)]
             [] o.kind = "create"   -> [NoPlan EXCEPT ![first] = Record(o.account, o.amount)]
             [] o.kind = "transfer" ->
                  [NoPlan EXCEPT ![first] = Leg(o.account, -o.amount, first),
                                 ![both]  = Leg(o.other, o.amount, first)]
             [] OTHER -> NoPlan)
  /\ UNCHANGED <<accounts, entries, held, written>>

\* The transaction ends without a trace: a refusal, an error, a timeout or a crash.
Release(p, end) ==
  /\ step' = [step EXCEPT ![p] = end]
  /\ want' = [want EXCEPT ![p] = {}]
  /\ held' = [held EXCEPT ![p] = {}]
  /\ plan' = [plan EXCEPT ![p] = NoPlan]
  /\ written' = [written EXCEPT ![p] = {}]

GiveUp(p) ==
  /\ step[p] \notin {"idle", "committed", "over"}
  /\ Release(p, "over")
  /\ UNCHANGED <<accounts, entries, op>>

\* refuseTarget
NotOpening(e) == ~entries[e].system                     \* mutant of Editable
Editable(e)   == ~entries[e].system /\ entries[e].pair = NoPair

\* The row to edit is read before any lock: nothing holds it still until it is written.
ReadRow(p) ==
  /\ step[p] = "read" /\ EditsRow(op[p])
  /\ LET e == op[p].target
     IN  /\ entries[e] # NoEntry
         /\ Editable(e)
         /\ Ready(p, Named(op[p]) \union {entries[e].account},
              [NoPlan EXCEPT ![e] = IF op[p].kind = "remove" THEN NoEntry
                                    ELSE Record(op[p].account, op[p].amount)])
  /\ step' = [step EXCEPT ![p] = "lock"]
  /\ UNCHANGED <<accounts, entries, op, held, written>>

ReadPair(p) ==
  /\ step[p] = "read" /\ EditsPair(op[p])
  /\ LET t == op[p].target
         Moved(e) == IF entries[e].amount < 0 THEN Leg(op[p].account, -op[p].amount, t)
                                              ELSE Leg(op[p].other, op[p].amount, t)
     IN  /\ Cardinality(Legs(t)) = 2
         /\ Ready(p, Named(op[p]) \union {entries[e].account : e \in Legs(t)},
              [e \in Entries |-> IF e \notin Legs(t) THEN Keep
                                 ELSE IF op[p].kind = "untransfer" THEN NoEntry ELSE Moved(e)])
  /\ step' = [step EXCEPT ![p] = "lock"]
  /\ UNCHANGED <<accounts, entries, op, held, written>>

-----------------------------------------------------------------------------

\* A share lock waits for an exclusive one, an exclusive one for any.
Blocks(q, p, a) == q # p /\ a \in held[q] /\ (Alone(p) \/ Alone(q))

Hold(p) ==
  /\ step[p] = "lock"
  /\ \E a \in First(want[p]) :
       /\ \A q \in Txs : ~Blocks(q, p, a)
       /\ accounts[a] = "open"
       /\ held' = [held EXCEPT ![p] = @ \union {a}]
       /\ want' = [want EXCEPT ![p] = @ \ {a}]
  /\ UNCHANGED <<accounts, entries, op, step, plan, written>>

Judged(p, rows) ==
  /\ step[p] = "lock" /\ want[p] = {}
  /\ plan' = [plan EXCEPT ![p] = rows]
  /\ step' = [step EXCEPT ![p] = "write"]
  /\ UNCHANGED <<accounts, entries, op, want, held, written>>

\* rename, and the operations that only share their accounts, go on to write as planned.
Proceed(p) ==
  /\ op[p].kind \notin {"archive", "opening", "reconcile"}
  /\ op[p].kind \in {"transfer", "retransfer"} => op[p].account # op[p].other
  /\ Judged(p, plan[p])

JudgeArchive(p) ==
  /\ op[p].kind = "archive"
  /\ Balance(op[p].account) = 0
  /\ Judged(p, NoPlan)

JudgeOpening(p) ==
  /\ op[p].kind = "opening"
  /\ \A e \in On(op[p].account) : entries[e].system
  /\ \E e \in On(op[p].account) :
       Judged(p, [NoPlan EXCEPT ![e] = Opening(op[p].account, op[p].amount)])

Difference(p) == op[p].amount - Balance(op[p].account)

JudgeReconcile(p) ==
  /\ op[p].kind = "reconcile"
  /\ Judged(p, IF Difference(p) = 0 THEN NoPlan
               ELSE [NoPlan EXCEPT ![Fresh[p][1]] = Record(op[p].account, Difference(p))])

-----------------------------------------------------------------------------

Pending(p) == {e \in Entries : plan[p][e] # Keep} \ written[p]

\* inLegWriteOrder
Backwards(p) == IF op[p].kind = "untransfer"            \* mutant of NextRow
                THEN {e \in Pending(p) : \A f \in Pending(p) : f <= e}
                ELSE First(Pending(p))
NextRow(p) == First(Pending(p))

\* The rows are written in id order, each under its own row lock.  A row
\* that is gone by then fails the write (GiveUp).
WriteRow(p) ==
  /\ step[p] = "write"
  /\ \E e \in NextRow(p) :
       /\ \A q \in Txs \ {p} : e \notin written[q]
       /\ e \in Inserts(p) \/ entries[e] # NoEntry
       /\ written' = [written EXCEPT ![p] = @ \union {e}]
  /\ UNCHANGED <<accounts, entries, op, step, want, held, plan>>

\* rename and archive write the account row itself, which waits for every lock on it.
WritesAccount(p) == op[p].kind \in {"rename", "archive"}
InTheWay(q, p)   == WritesAccount(p) /\ q # p /\ op[p].account \in held[q]

Outcome(p, e) == IF plan[p][e] = Keep THEN entries[e] ELSE plan[p][e]

Commit(p) ==
  /\ step[p] = "write" /\ Pending(p) = {}
  /\ \A q \in Txs : ~InTheWay(q, p)
  /\ entries' = [e \in Entries |-> Outcome(p, e)]
  /\ accounts' = CASE op[p].kind = "archive" -> [accounts EXCEPT ![op[p].account] = "archived"]
                   [] op[p].kind = "open"    -> [accounts EXCEPT ![op[p].account] = "open"]
                   [] OTHER                  -> accounts
  /\ Release(p, "committed")
  /\ UNCHANGED op

Advance(p) ==
  \/ ReadRow(p) \/ ReadPair(p) \/ Hold(p)
  \/ Proceed(p) \/ JudgeArchive(p) \/ JudgeOpening(p) \/ JudgeReconcile(p)
  \/ WriteRow(p) \/ Commit(p)

\* p rewrites or removes a row it read before it locked anything, which has moved meanwhile
\* to account a, which p never locked.
Overtaken(p, a) ==
  /\ step[p] = "write" /\ step'[p] = "committed" /\ a \notin held[p]
  /\ \E e \in On(a) : plan[p][e] # Keep

Next ==
  /\ \E p \in Txs : (\E o \in book.menu : Begin(p, o)) \/ Advance(p) \/ GiveUp(p)
  /\ UNCHANGED book
  /\ overtaken' = overtaken \union {a \in Accounts : \E p \in Txs : Overtaken(p, a)}

Spec == Init /\ [][Next]_vars

-----------------------------------------------------------------------------

\* The type invariant.
TypeOK ==
  /\ accounts \in [Accounts -> {"absent", "open", "archived"}]
  /\ entries \in [Entries -> Entry \union {NoEntry}]
  /\ op \in [Txs -> Menu \union {[kind |-> "none"]}]
  /\ step \in [Txs -> {"idle", "read", "lock", "write", "committed", "over"}]
  /\ want \in [Txs -> SUBSET Accounts]
  /\ held \in [Txs -> SUBSET Accounts]
  /\ plan \in [Txs -> [Entries -> Entry \union {NoEntry, Keep}]]
  /\ written \in [Txs -> SUBSET Entries]

\* The account locks exclude what they should, and whoever writes holds every account the
\* rows it is about to leave behind are on, still open: a check made under the lock is good
\* until the commit.
LocksHold ==
  /\ \A p, q \in Txs, a \in Accounts : a \in held[p] => ~Blocks(q, p, a)
  /\ \A p \in Txs, e \in Entries :
       step[p] = "write" /\ plan[p][e] \notin {Keep, NoEntry} /\ op[p].kind # "open" =>
         plan[p][e].account \in held[p] /\ accounts[plan[p][e].account] = "open"

\* An archived account holds nothing: its balance was zero when it was put away and no
\* operation that raced with it, landed after it or waited for it has changed that since,
\* save one whose record moved onto the account between its read and its locks.
ArchivedIsSettled ==
  \A a \in Accounts \ overtaken : accounts[a] = "archived" => Balance(a) = 0

\* What is said of the archive: it is refused unless the balance is zero, under a lock that
\* every write naming the account has to pass, and from then on nothing is written on it.
ArchivedHoldsNothing ==
  \A a \in Accounts : accounts[a] = "archived" => Balance(a) = 0

\* No entry is written onto an account that is put away, whatever was read before the lock.
NothingLandsOnArchived ==
  [][\A e \in Entries : entries'[e] \notin {entries[e], NoEntry} =>
        accounts'[entries'[e].account] = "open"]_vars

\* The opening balance is settled by the account's first record: once an account has one,
\* no correction goes through, not even one that counted before the record landed.
OpeningIsFrozen ==
  [][\A e \in Rows(entries) : entries[e].system /\ entries'[e] # entries[e] =>
        \A f \in On(entries[e].account) : entries[f].system]_vars

\* A reconciliation leaves the account with exactly the balance that was declared: a record
\* landing meanwhile is counted once, and two reconciliations never settle one difference twice.
ReconcileSettles ==
  [][\A p \in Txs :
        (op[p].kind = "reconcile" /\ op[p].account \notin overtaken
           /\ step[p] = "write" /\ step'[p] = "committed") =>
          Balance(op[p].account)' = op[p].amount]_vars

\* A transfer is two legs of opposite amounts on two accounts, through every race of edits
\* and removals of the pair and of single entries.
PairsAreMirrored == Mirrored(entries)

\* What p waits for is held by q.
WaitsFor(p, q) ==
  \/ step[p] = "lock" /\ \E a \in First(want[p]) : Blocks(q, p, a)
  \/ step[p] = "write" /\ q # p /\ NextRow(p) \cap written[q] # {}
  \/ step[p] = "write" /\ Pending(p) = {} /\ InTheWay(q, p)

\* Nobody waits in a circle: accounts are locked before any entry, in the mode the operation
\* will need, and the two legs of a pair are written in one order.
NoDeadlock ==
  \A S \in (SUBSET Txs) \ {{}} : \E p \in S : \A q \in S : ~WaitsFor(p, q)
=============================================================================
