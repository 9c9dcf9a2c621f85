------------------------ MODULE AccountLedgerProofs ------------------------
(***************************************************************************)
(* Proofs about AccountLedger for any number of transactions, accounts and *)
(* entries and any menu of operations, in layers.  IInv is what the        *)
(* account locks protect; Shape says of an entry only which account it is  *)
(* on, and that suffices for nothing to land on an archived one.  RowInv   *)
(* adds whose rows are being written and in which order locks are taken:   *)
(* nobody waits in a circle.  On it stand PairInv, that the legs an edit   *)
(* read are the pair that is there, and what a judgement has summed, for   *)
(* the balance an archive leaves, a reconciliation reaches and an opening  *)
(* keeps.                                                                  *)
(***************************************************************************)
EXTENDS AccountLedger, FiniteSetTheorems, TLAPS

Pure == INSTANCE PureProofs WITH None <- NoPair

Shape ==
  /\ accounts \in [Accounts -> {"absent", "open", "archived"}]
  /\ op \in [Txs -> Menu \union {[kind |-> "none"]}]
  /\ step \in [Txs -> {"idle", "read", "lock", "write", "committed", "over"}]
  /\ want \in [Txs -> SUBSET Accounts]
  /\ held \in [Txs -> SUBSET Accounts]
  /\ DOMAIN plan = Txs
  /\ \A e \in Entries : entries[e] # NoEntry => entries[e].account \in Accounts

\* An account somebody has locked is open, and the lock excludes what it should.
HeldInv ==
  \A p \in Txs, a \in Accounts : a \in held[p] =>
    /\ accounts[a] = "open"
    /\ \A q \in Txs : ~Blocks(q, p, a)

\* Locks are held only from the first lock statement to the end.
QuietInv ==
  \A p \in Txs :
    /\ step[p] \notin {"lock", "write"} => held[p] = {}
    /\ step[p] = "write" => want[p] = {}
    /\ step[p] # "idle" => op[p] \in Menu
    /\ step[p] \in {"read", "lock"} => op[p].kind # "open"

\* Whatever a row is planned to become, its account is locked or still to be locked; an
\* archive plans no row.
Planned(p) ==
  /\ \A e \in Entries : plan[p][e] \notin {Keep, NoEntry} =>
       /\ plan[p][e].account \in Accounts
       /\ IF op[p].kind = "open" THEN plan[p][e].account = op[p].account
          ELSE plan[p][e].account \in want[p] \union held[p]
  /\ Alone(p) => op[p].account \in want[p] \union held[p]
  /\ op[p].kind = "archive" => \A e \in Entries : plan[p][e] = Keep

PlanInv == \A p \in Txs : step[p] \in {"lock", "write"} => Planned(p)

IInv == Shape /\ HeldInv /\ QuietInv /\ PlanInv

-----------------------------------------------------------------------------

\* The accounts an operation of the menu names are accounts.
LEMMA NamedAccounts == ASSUME NEW o \in Menu PROVE Named(o) \subseteq Accounts
BY MenuAssumption DEF Named, Judges

\* The initial states satisfy the inductive invariant.
LEMMA InitIInv == Init => IInv
<1> SUFFICES ASSUME Init PROVE IInv
  OBVIOUS
<1>1. entries \in [Entries -> Entry \union {NoEntry}]
  BY SeedAssumption DEF Init
<1>2. \A e \in Entries : entries[e] # NoEntry => entries[e].account \in Accounts
  BY <1>1 DEF Entry
<1>3. accounts \in [Accounts -> {"absent", "open", "archived"}]
  BY DEF Init
<1> QED BY <1>2, <1>3 DEF Init, IInv, Shape, HeldInv, QuietInv, PlanInv, Planned

\* A transaction begins with nothing locked; its plan stays on the accounts it names.
LEMMA BeginIInv ==
  ASSUME IInv, NEW p \in Txs, NEW o \in Menu, Begin(p, o) PROVE IInv'
<1> USE MenuAssumption
<1>1. Shape'
  BY NamedAccounts DEF Begin, Ready, IInv, Shape
<1>2. held[p] = {} /\ held' = held /\ accounts' = accounts
  BY DEF Begin, IInv, QuietInv
<1>3. HeldInv'
  BY <1>2 DEF Begin, IInv, Shape, HeldInv, Blocks, Alone
<1>4. QuietInv'
  BY <1>2 DEF Begin, Ready, IInv, Shape, QuietInv, Named, EditsRow, EditsPair, Judges
<1>5. PlanInv'
  BY DEF Begin, Ready, IInv, Shape, PlanInv, Planned, Named, EditsRow, EditsPair, Judges, Alone,
         NoPlan, Opening, Record, Leg
<1> QED BY <1>1, <1>3, <1>4, <1>5 DEF IInv

LEMMA GiveUpIInv == ASSUME IInv, NEW p \in Txs, GiveUp(p) PROVE IInv'
BY DEF GiveUp, Release, IInv, Shape, HeldInv, QuietInv, PlanInv, Planned, Blocks, Alone

\* What is read joins the accounts to lock before anything is planned for it.
LEMMA ReadRowIInv == ASSUME IInv, NEW p \in Txs, ReadRow(p) PROVE IInv'
<1> DEFINE e == op[p].target
<1>0. op[p] \in Menu /\ e \in Entries
  BY MenuAssumption DEF ReadRow, IInv, QuietInv, EditsRow
<1>1. Shape'
  BY <1>0, NamedAccounts DEF ReadRow, Ready, IInv, Shape
<1>2. HeldInv' /\ QuietInv'
  BY <1>0 DEF ReadRow, Ready, IInv, Shape, HeldInv, QuietInv, Blocks, Alone, EditsRow
<1>3. PlanInv'
  BY <1>0, NamedAccounts DEF ReadRow, Ready, IInv, Shape, PlanInv, Planned, QuietInv, EditsRow, Named,
     Judges, Alone, NoPlan, Record
<1> QED BY <1>1, <1>2, <1>3 DEF IInv

LEMMA ReadPairIInv == ASSUME IInv, NEW p \in Txs, ReadPair(p) PROVE IInv'
<1>0. op[p] \in Menu
  BY DEF ReadPair, IInv, QuietInv
<1>1. Shape'
  BY <1>0, NamedAccounts DEF ReadPair, Ready, IInv, Shape, Legs, LegsIn, Rows
<1>2. HeldInv' /\ QuietInv'
  BY <1>0 DEF ReadPair, Ready, IInv, Shape, HeldInv, QuietInv, Blocks, Alone, EditsPair
<1>3. ASSUME NEW e \in Entries, plan'[p][e] \notin {Keep, NoEntry}
      PROVE  plan'[p][e].account \in Accounts /\ plan'[p][e].account \in want'[p]
  <2>1. op[p].kind = "retransfer" /\ {op[p].account, op[p].other} \subseteq Accounts
    BY <1>0, <1>3, MenuAssumption DEF ReadPair, Ready, IInv, Shape, EditsPair
  <2>2. {op[p].account, op[p].other} \subseteq want'[p]
    BY <2>1 DEF ReadPair, Ready, IInv, Shape, Named, Judges
  <2>3. plan'[p][e].account \in {op[p].account, op[p].other}
    BY <1>3, <2>1 DEF ReadPair, Ready, IInv, Shape, Leg
  <2> QED BY <2>1, <2>2, <2>3
<1>4. PlanInv'
  <2>1. op[p].kind \notin Judges \union {"open"}
    BY DEF ReadPair, EditsPair, Judges
  <2>2. /\ op' = op /\ held' = held /\ step' = [step EXCEPT ![p] = "lock"]
        /\ \A q \in Txs \ {p} : plan'[q] = plan[q] /\ want'[q] = want[q]
    BY DEF ReadPair, Ready, IInv, Shape
  <2>3. ASSUME NEW q \in Txs \ {p} PROVE step'[q] = step[q]
    BY <2>2 DEF IInv, Shape
  <2>4. Planned(p)'
    BY <1>3, <2>1, <2>2 DEF Planned, Judges, Alone
  <2>5. ASSUME NEW q \in Txs \ {p}, step'[q] \in {"lock", "write"} PROVE Planned(q)'
    <3>1. Planned(q)
      BY <2>3, <2>5 DEF IInv, PlanInv
    <3> QED BY <2>2, <3>1 DEF Planned, Alone
  <2> QED BY <2>4, <2>5 DEF PlanInv
<1> QED BY <1>1, <1>2, <1>4 DEF IInv

\* The new lock was free of conflicts, in both directions, and its account open.
LEMMA HoldIInv == ASSUME IInv, NEW p \in Txs, Hold(p) PROVE IInv'
<1>1. PICK a \in want[p] :
      /\ \A q \in Txs : ~Blocks(q, p, a)
      /\ accounts[a] = "open"
      /\ held' = [held EXCEPT ![p] = @ \union {a}]
      /\ want' = [want EXCEPT ![p] = @ \ {a}]
      /\ step[p] = "lock"
      /\ UNCHANGED <<accounts, entries, op, step, plan>>
  BY DEF Hold, First
<1>2. a \in Accounts
  BY DEF IInv, Shape
<1>3. Shape'
  BY <1>1, <1>2 DEF IInv, Shape
<1>4. HeldInv'
  BY <1>1, <1>2 DEF IInv, Shape, HeldInv, Blocks, Alone
<1>5. QuietInv'
  BY <1>1 DEF IInv, Shape, QuietInv
<1>6. PlanInv'
  BY <1>1 DEF IInv, Shape, PlanInv, Planned, Alone
<1> QED BY <1>3, <1>4, <1>5, <1>6 DEF IInv

\* A judgement plans rows on the judged account, which is held.
LEMMA JudgedIInv ==
  ASSUME IInv, NEW p \in Txs, NEW rows, Judged(p, rows), op[p].kind # "open",
         \A e \in Entries : rows[e] \notin {Keep, NoEntry} =>
            rows[e].account \in Accounts /\ rows[e].account \in held[p],
         op[p].kind = "archive" => rows = NoPlan
  PROVE  IInv'
BY DEF Judged, IInv, Shape, HeldInv, QuietInv, PlanInv, Planned, Blocks, Alone, NoPlan

LEMMA JudgementsIInv ==
  ASSUME IInv, NEW p \in Txs,
         Proceed(p) \/ JudgeArchive(p) \/ JudgeOpening(p) \/ JudgeReconcile(p)
  PROVE  IInv'
<1>1. /\ step[p] = "lock" /\ want[p] = {} /\ op[p].kind # "open"
      /\ op[p] \in Menu
  BY DEF Proceed, JudgeArchive, JudgeOpening, JudgeReconcile, Judged, IInv, QuietInv
<1>2. CASE Proceed(p)
  BY <1>1, <1>2, JudgedIInv DEF Proceed, IInv, PlanInv, Planned
<1>3. CASE JudgeArchive(p)
  BY <1>1, <1>3, JudgedIInv DEF JudgeArchive, NoPlan
<1>4. ASSUME op[p].kind \in {"opening", "reconcile"} PROVE op[p].account \in held[p] \cap Accounts
  BY <1>1, <1>4, MenuAssumption DEF IInv, PlanInv, Planned, Alone, Judges
<1>5. CASE JudgeOpening(p)
  <2>1. PICK e \in On(op[p].account) :
           Judged(p, [NoPlan EXCEPT ![e] = Opening(op[p].account, op[p].amount)])
    BY <1>5 DEF JudgeOpening
  <2> QED BY <1>1, <1>4, <1>5, <2>1, JudgedIInv DEF JudgeOpening, NoPlan, Opening
<1>6. CASE JudgeReconcile(p)
  BY <1>1, <1>4, <1>6, JudgedIInv DEF JudgeReconcile, NoPlan, Record
<1> QED BY <1>2, <1>3, <1>5, <1>6

LEMMA WriteRowIInv == ASSUME IInv, NEW p \in Txs, WriteRow(p) PROVE IInv'
BY DEF WriteRow, IInv, Shape, HeldInv, QuietInv, PlanInv, Planned, Blocks, Alone

\* Only an archive closes an account, and nobody but the archiving transaction holds it.
LEMMA CommitIInv == ASSUME IInv, NEW p \in Txs, Commit(p) PROVE IInv'
<1>0. /\ step[p] = "write" /\ want[p] = {} /\ op[p] \in Menu /\ op' = op
      /\ held' = [held EXCEPT ![p] = {}] /\ step' = [step EXCEPT ![p] = "committed"]
      /\ want' = [want EXCEPT ![p] = {}] /\ plan' = [plan EXCEPT ![p] = NoPlan]
      /\ entries' = [e \in Entries |-> Outcome(p, e)]
  BY DEF Commit, Release, IInv, QuietInv
<1>1. op[p].kind \in {"archive", "open"} => op[p].account \in Accounts
  BY <1>0, MenuAssumption
<1>2. accounts' \in [Accounts -> {"absent", "open", "archived"}]
  BY <1>1 DEF Commit, IInv, Shape
<1>3. \A e \in Entries : entries'[e] # NoEntry => entries'[e].account \in Accounts
  BY <1>0 DEF IInv, Shape, PlanInv, Planned, Outcome
<1>4. Shape'
  BY <1>0, <1>2, <1>3 DEF IInv, Shape
<1>5. ASSUME NEW q \in Txs, NEW a \in Accounts, a \in held'[q] PROVE accounts'[a] = "open"
  <2>1. q # p /\ a \in held[q] /\ accounts[a] = "open"
    BY <1>0, <1>5 DEF IInv, Shape, HeldInv
  <2>2. op[p].kind = "archive" => op[p].account # a
    <3>1. SUFFICES ASSUME op[p].kind = "archive", op[p].account = a PROVE FALSE
      OBVIOUS
    <3>2. Alone(p) /\ a \in held[p]
      BY <1>0, <3>1 DEF IInv, PlanInv, Planned, Alone, Judges
    <3> QED BY <2>1, <3>2 DEF IInv, HeldInv, Blocks
  <2> QED BY <2>1, <2>2 DEF Commit, IInv, Shape
<1>6. HeldInv'
  BY <1>0, <1>5 DEF IInv, Shape, HeldInv, Blocks, Alone
<1>7. QuietInv' /\ PlanInv'
  BY <1>0 DEF IInv, Shape, QuietInv, PlanInv, Planned, Alone
<1> QED BY <1>4, <1>6, <1>7 DEF IInv

\* Every step of a book's own menu keeps the inductive invariant.
LEMMA NextIInv == IInv /\ book \in Books /\ [Next]_vars => IInv' /\ book' \in Books
<1> SUFFICES ASSUME IInv, book \in Books, [Next]_vars PROVE IInv' /\ book' \in Books
  OBVIOUS
<1>1. ASSUME NEW p \in Txs, NEW o \in book.menu, Begin(p, o) PROVE IInv'
  <2>1. o \in Menu
    BY <1>1 DEF Menu
  <2> QED BY <1>1, <2>1, BeginIInv
<1>2. ASSUME NEW p \in Txs, Advance(p) \/ GiveUp(p) PROVE IInv'
  BY <1>2, GiveUpIInv, ReadRowIInv, ReadPairIInv, HoldIInv, JudgementsIInv, WriteRowIInv,
     CommitIInv DEF Advance
<1>3. CASE UNCHANGED vars
  BY <1>3 DEF vars, IInv, Shape, HeldInv, QuietInv, PlanInv, Planned, Blocks, Alone
<1>4. book' = book
  BY DEF Next, vars
<1> QED BY <1>1, <1>2, <1>3, <1>4 DEF Next

THEOREM Invariance == Spec => []IInv
<1>1. Init => book \in Books
  BY DEF Init
<1>2. Spec => [](IInv /\ book \in Books)
  <2>1. Init => IInv /\ book \in Books
    BY <1>1, InitIInv
  <2>2. (IInv /\ book \in Books) /\ [Next]_vars => (IInv /\ book \in Books)'
    BY NextIInv
  <2> QED BY <2>1, <2>2, PTL DEF Spec
<1> QED BY <1>2, PTL

\* The account locks exclude what they should and keep every account about to be written
\* on open until the commit, for any number of transactions, accounts and entries.
THEOREM LocksAlwaysHold == Spec => []LocksHold
<1>1. IInv => LocksHold
  BY DEF IInv, HeldInv, QuietInv, PlanInv, Planned, LocksHold
<1> QED BY <1>1, Invariance, PTL

\* No entry is ever written onto an account that is put away, whatever was read before the
\* lock: only a commit writes entries, and it holds the accounts of the rows it leaves.
THEOREM NothingEverLands == Spec => NothingLandsOnArchived
<1> DEFINE Landed == \A e \in Entries : entries'[e] \notin {entries[e], NoEntry} =>
                        accounts'[entries'[e].account] = "open"
<1>1. ASSUME IInv, Next PROVE Landed
  <2>1. CASE \E p \in Txs : Commit(p)
    <3>1. PICK p \in Txs : Commit(p)
      BY <2>1
    <3>2. ASSUME NEW e \in Entries, entries'[e] \notin {entries[e], NoEntry}
          PROVE  accounts'[entries'[e].account] = "open"
      <4>1. plan[p][e] \notin {Keep, NoEntry} /\ entries'[e] = plan[p][e]
        BY <3>1, <3>2 DEF Commit, Outcome
      <4>2. step[p] = "write" /\ want[p] = {}
        BY <1>1, <3>1 DEF Commit, IInv, QuietInv
      <4>3. plan[p][e].account \in Accounts
        BY <1>1, <4>1, <4>2 DEF IInv, PlanInv, Planned
      <4>4. CASE op[p].kind = "open"
        <5>1. plan[p][e].account = op[p].account
          BY <1>1, <4>1, <4>2, <4>4 DEF IInv, PlanInv, Planned
        <5> QED BY <1>1, <3>1, <4>1, <4>3, <4>4, <5>1 DEF Commit, IInv, Shape
      <4>5. CASE op[p].kind # "open"
        <5>1. plan[p][e].account \in held[p] /\ accounts[plan[p][e].account] = "open"
          BY <1>1, <4>1, <4>2, <4>3, <4>5 DEF IInv, PlanInv, Planned, HeldInv
        <5>2. CASE op[p].kind = "archive"
          BY <1>1, <4>1, <4>2, <5>2 DEF IInv, PlanInv, Planned
        <5>3. CASE op[p].kind # "archive"
          BY <3>1, <4>1, <4>5, <5>1, <5>3 DEF Commit
        <5> QED BY <5>2, <5>3
      <4> QED BY <4>4, <4>5
    <3> QED BY <3>2
  <2>2. CASE ~ \E p \in Txs : Commit(p)
    <3>1. entries' = entries
      BY <1>1, <2>2 DEF Next, Advance, Begin, GiveUp, ReadRow, ReadPair, Hold, Proceed,
         JudgeArchive, JudgeOpening, JudgeReconcile, Judged, WriteRow
    <3> QED BY <3>1
  <2> QED BY <2>1, <2>2
<1>2. IInv /\ [Next]_vars => [Landed]_vars
  BY <1>1
<1> QED BY <1>2, Invariance, PTL DEF Spec, NothingLandsOnArchived
-----------------------------------------------------------------------------
(* Types, and the balance of an account *)

\* PureProofs speaks of its own instances of the library's operators.
LEMMA SameFinite == ASSUME NEW D PROVE IsFiniteSet(D) = Pure!IsFiniteSet(D)
BY DEF IsFiniteSet, Pure!IsFiniteSet

LEMMA SameSum ==
  ASSUME NEW f, NEW D PROVE SumFunctionOnSet(f, D) = Pure!SumFunctionOnSet(f, D)
BY DEF SumFunctionOnSet, FoldFunctionOnSet, MapThenFoldSet,
       Pure!SumFunctionOnSet, Pure!FoldFunctionOnSet, Pure!MapThenFoldSet

LEMMA SumIsInt ==
  ASSUME NEW D, IsFiniteSet(D), NEW f \in [D -> Int] PROVE SumFunctionOnSet(f, D) \in Int
<1>1. Pure!IsFiniteSet(D) /\ \A x \in D : f[x] \in Int
  BY SameFinite
<1> QED BY <1>1, Pure!SumIsInt, SameSum

LEMMA SumAgrees ==
  ASSUME NEW D, IsFiniteSet(D), NEW f, NEW g, \A x \in D : f[x] = g[x]
  PROVE  SumFunctionOnSet(f, D) = SumFunctionOnSet(g, D)
<1>1. Pure!IsFiniteSet(D)
  BY SameFinite
<1> QED BY <1>1, Pure!SumAgrees, SameSum

LEMMA SumSplits ==
  ASSUME NEW D, IsFiniteSet(D), NEW f \in [D -> Int], NEW x \in D
  PROVE  SumFunctionOnSet(f, D) = f[x] + SumFunctionOnSet(f, D \ {x})
<1>1. Pure!IsFiniteSet(D) /\ \A y \in D : f[y] \in Int
  BY SameFinite
<1> QED BY <1>1, Pure!SumSplits, SameSum

LEMMA SomeoneHasMost ==
  ASSUME NEW S, IsFiniteSet(S), S # {}, NEW f \in [S -> Int]
  PROVE  \E p \in S : \A q \in S : f[q] <= f[p]
<1>1. Pure!IsFiniteSet(S)
  BY SameFinite
<1> QED BY <1>1, Pure!SomeoneHasMost

\* The amounts on an account, of which its balance is the sum.
AmountsOn(a) == [e \in On(a) |-> entries[e].amount]

LEMMA BalanceIs ==
  ASSUME TypeOK, NEW a \in Accounts
  PROVE  /\ IsFiniteSet(On(a))
         /\ AmountsOn(a) \in [On(a) -> Int]
         /\ Balance(a) = SumFunctionOnSet(AmountsOn(a), On(a))
         /\ Balance(a) \in Int
<1>1. IsFiniteSet(On(a))
  BY FS_Subset, LedgerAssumption DEF On, Rows
<1>2. AmountsOn(a) \in [On(a) -> Int]
  BY DEF AmountsOn, On, Rows, TypeOK, Entry
<1>3. Balance(a) = SumFunctionOnSet(AmountsOn(a), On(a))
  BY DEF Balance, SumFunction, AmountsOn
<1>4. SumFunctionOnSet(AmountsOn(a), On(a)) \in Int
  BY <1>1, <1>2, SumIsInt
<1> QED BY <1>1, <1>2, <1>3, <1>4

Rowlike == Entry \union {NoEntry, Keep}

LEMMA PlansAreTyped ==
  ASSUME NEW a \in Accounts, NEW m \in Int
  PROVE  /\ NoPlan \in [Entries -> Rowlike]
         /\ Record(a, m) \in Entry /\ Opening(a, m) \in Entry
         /\ \A t \in Int : Leg(a, m, t) \in Entry
BY DEF NoPlan, Rowlike, Record, Opening, Leg, Entry

LEMMA InitTypeOK == Init => TypeOK
<1> SUFFICES ASSUME Init PROVE TypeOK
  OBVIOUS
<1>1. entries \in [Entries -> Entry \union {NoEntry}]
  BY SeedAssumption DEF Init
<1>2. accounts \in [Accounts -> {"absent", "open", "archived"}]
  BY DEF Init
<1>3. plan \in [Txs -> [Entries -> Rowlike]]
  BY DEF Init, NoPlan, Rowlike
<1> QED BY <1>1, <1>2, <1>3 DEF Init, TypeOK, Rowlike

LEMMA NextTypeOK == ASSUME IInv, IInv', TypeOK, book \in Books, [Next]_vars PROVE TypeOK'
<1>0. TypeOK' <=> Shape' /\ entries' \in [Entries -> Entry \union {NoEntry}]
                         /\ plan' \in [Txs -> [Entries -> Rowlike]]
                         /\ written' \in [Txs -> SUBSET Entries]
  BY DEF IInv, Shape, TypeOK, Rowlike
<1> SUFFICES /\ entries' \in [Entries -> Entry \union {NoEntry}]
             /\ plan' \in [Txs -> [Entries -> Rowlike]]
             /\ written' \in [Txs -> SUBSET Entries]
  BY <1>0 DEF IInv
<1> USE DEF Rowlike
<1>1. ASSUME NEW p \in Txs, NEW o \in book.menu, Begin(p, o)
      PROVE  /\ entries' = entries /\ written' = written
             /\ plan' \in [Txs -> [Entries -> Rowlike]]
  <2>1. o \in Menu /\ Fresh[p][1] \in Entries /\ Fresh[p][2] \in Entries /\ Entries \subseteq Int
    BY LedgerAssumption DEF Menu
  <2>2. o.kind \in {"open", "create", "transfer"} => o.account \in Accounts /\ o.amount \in Int /\ -o.amount \in Int
    BY <2>1, MenuAssumption
  <2>3. o.kind = "transfer" => o.other \in Accounts
    BY <2>1, MenuAssumption
  <2>4. NoPlan \in [Entries -> Rowlike]
    BY DEF NoPlan
  <2> HIDE DEF NoPlan
  <2>5. plan'[p] \in [Entries -> Rowlike]
    BY <1>1, <2>1, <2>2, <2>3, <2>4 DEF Begin, Ready, TypeOK, Record, Opening, Leg, Entry
  <2> QED BY <1>1, <2>5 DEF Begin, Ready, TypeOK
<1>2. ASSUME NEW p \in Txs, GiveUp(p) PROVE TypeOK'
  BY <1>0, <1>2 DEF GiveUp, Release, TypeOK, NoPlan, IInv
<1>3. ASSUME NEW p \in Txs, ReadRow(p) \/ ReadPair(p)
      PROVE  /\ entries' = entries /\ written' = written
             /\ plan' \in [Txs -> [Entries -> Rowlike]]
  <2>1. op[p] \in Menu
    BY <1>3 DEF ReadRow, ReadPair, IInv, QuietInv
  <2>2. plan'[p] \in [Entries -> Rowlike]
    <3>1. CASE ReadRow(p)
      <4>1. op[p].kind = "update" => op[p].account \in Accounts /\ op[p].amount \in Int
        BY <2>1, MenuAssumption
      <4> QED BY <3>1, <4>1 DEF ReadRow, Ready, TypeOK, NoPlan, Record, Entry, EditsRow
    <3>2. CASE ReadPair(p)
      <4>1. /\ op[p].target \in Int
            /\ op[p].kind = "retransfer" =>
                 /\ op[p].account \in Accounts /\ op[p].other \in Accounts
                 /\ op[p].amount \in Int /\ -op[p].amount \in Int
        BY <2>1, <3>2, MenuAssumption DEF ReadPair, EditsPair
      <4> QED BY <3>2, <4>1 DEF ReadPair, EditsPair, Ready, TypeOK, Leg, Entry
    <3> QED BY <1>3, <3>1, <3>2
  <2> QED BY <1>3, <2>2 DEF ReadRow, ReadPair, Ready, TypeOK
<1>4. ASSUME NEW p \in Txs, Proceed(p) \/ JudgeArchive(p) \/ JudgeOpening(p) \/ JudgeReconcile(p)
      PROVE  /\ entries' = entries /\ written' = written
             /\ plan' \in [Txs -> [Entries -> Rowlike]]
  <2>1. op[p] \in Menu
    BY <1>4 DEF Proceed, JudgeArchive, JudgeOpening, JudgeReconcile, Judged, IInv, QuietInv
  <2>2. op[p].kind \in {"opening", "reconcile"} => op[p].account \in Accounts /\ op[p].amount \in Int
    BY <2>1, MenuAssumption
  <2>3. NoPlan \in [Entries -> Rowlike]
    BY DEF NoPlan
  <2> HIDE DEF NoPlan
  <2>4. plan'[p] \in [Entries -> Rowlike]
    <3>1. CASE Proceed(p)
      BY <3>1 DEF Proceed, Judged, TypeOK
    <3>2. CASE JudgeArchive(p)
      BY <2>3, <3>2 DEF JudgeArchive, Judged, TypeOK
    <3>3. CASE JudgeOpening(p)
      <4>1. PICK e \in On(op[p].account) :
               plan' = [plan EXCEPT ![p] = [NoPlan EXCEPT ![e] = Opening(op[p].account, op[p].amount)]]
        BY <3>3 DEF JudgeOpening, Judged
      <4>2. Opening(op[p].account, op[p].amount) \in Entry
        BY <2>2, <3>3 DEF JudgeOpening, Opening, Entry
      <4> QED BY <2>3, <4>1, <4>2 DEF TypeOK
    <3>4. CASE JudgeReconcile(p)
      <4>1. Difference(p) \in Int /\ Fresh[p][1] \in Entries
        <5>1. op[p].account \in Accounts /\ op[p].amount \in Int
          BY <2>2, <3>4 DEF JudgeReconcile
        <5>2. Balance(op[p].account) \in Int
          BY <5>1, BalanceIs
        <5> QED BY <5>1, <5>2, LedgerAssumption DEF Difference
      <4> HIDE DEF Difference
      <4> QED BY <2>2, <2>3, <3>4, <4>1 DEF JudgeReconcile, Judged, TypeOK, Record, Entry
    <3> QED BY <1>4, <3>1, <3>2, <3>3, <3>4
  <2> QED BY <1>4, <2>4 DEF Proceed, JudgeArchive, JudgeOpening, JudgeReconcile, Judged, TypeOK
<1>5. ASSUME NEW p \in Txs, Hold(p) \/ WriteRow(p) PROVE TypeOK'
  BY <1>0, <1>5 DEF Hold, WriteRow, NextRow, First, Pending, TypeOK, IInv
<1>6. ASSUME NEW p \in Txs, Commit(p) PROVE TypeOK'
  BY <1>0, <1>6 DEF Commit, Release, Outcome, NoPlan, TypeOK, IInv
<1>7. CASE UNCHANGED vars
  BY <1>0, <1>7 DEF vars, TypeOK, IInv
<1> QED BY <1>0, <1>1, <1>2, <1>3, <1>4, <1>5, <1>6, <1>7 DEF Next, Advance, TypeOK, IInv

Typed == IInv /\ TypeOK /\ book \in Books

LEMMA InitTyped == Init => Typed
BY InitIInv, InitTypeOK DEF Init, Typed

LEMMA NextTyped == Typed /\ [Next]_vars => Typed'
BY NextIInv, NextTypeOK DEF Typed

LEMMA AlwaysTyped == Spec => []Typed
BY InitTyped, NextTyped, PTL DEF Spec

\* Types are as the schema and the endpoints say, amounts included, which are sums.
THEOREM TypesHold == Spec => []TypeOK
<1>1. Typed => TypeOK
  BY DEF Typed
<1> QED BY <1>1, AlwaysTyped, PTL

-----------------------------------------------------------------------------
(* The rows *)

\* The rows a transaction means to change.
Changes(p) == {e \in Entries : plan[p][e] # Keep}
Mints      == {"open", "create", "reconcile", "transfer"}
Open(p)    == step[p] \notin {"committed", "over"}

\* Until a transaction ends, nobody but itself knows the ids it would mint.
Unaware(p) ==
  \A q \in Txs : Open(q) => \A i \in Inserts(q) :
    /\ p # q \/ op[p].kind \notin Mints => plan[p][i] = Keep
    /\ p # q => \A e \in Entries : plan[p][e] \in Entry => plan[p][e].pair # i
    /\ EditsPair(op[p]) /\ step[p] \in {"lock", "write"} => op[p].target # i

FreshInv ==
  /\ \A q \in Txs : Open(q) => \A i \in Inserts(q) : entries[i] = NoEntry /\ Legs(i) = {}
  /\ \A p \in Txs : Unaware(p)

\* What is planned is a mint, or an edit that leaves a row the leg, the opening or the plain
\* record it is.  The row may be gone, but it has not become another one.
Edits(p) ==
  \A e \in Changes(p) :
    /\ step[p] \in {"lock", "write"}
    /\ op[p].kind \in Mints =>
         /\ e \in Inserts(p)
         /\ plan[p][e] # NoEntry
         /\ plan[p][e].pair = IF op[p].kind = "transfer" THEN Fresh[p][1] ELSE NoPair
         /\ plan[p][e].system <=> op[p].kind = "open"
    /\ op[p].kind \notin Mints /\ e \in Rows(entries) =>
         /\ plan[p][e] # NoEntry => /\ plan[p][e].pair = entries[e].pair
                                    /\ plan[p][e].system = entries[e].system
         /\ entries[e].pair = IF EditsPair(op[p]) THEN op[p].target ELSE NoPair
         /\ entries[e].system <=> op[p].kind = "opening"

EditInv ==
  /\ \A e \in Rows(entries) : entries[e].system => entries[e].pair = NoPair
  /\ \A p \in Txs : Edits(p)

\* Row locks: what a transaction has written nobody else writes, and is there until it commits.
Writes(p) ==
  /\ written[p] \subseteq Changes(p)
  /\ step[p] # "write" => written[p] = {}
  /\ \A e \in written[p] :
       /\ e \in Inserts(p) \/ e \in Rows(entries)
       /\ \A f \in Pending(p) : e < f

WrittenInv ==
  /\ \A p \in Txs : Writes(p)
  /\ \A p, q \in Txs : p # q => written[p] \cap written[q] = {}

\* Accounts are locked in id order.
OrderInv == \A p \in Txs : \A a \in held[p], b \in want[p] : a < b

\* An account that is being opened is opened once.
OpenInv ==
  \A p \in Txs : op[p].kind = "open" =>
    /\ step[p] = "write" => accounts[op[p].account] = "absent"
    /\ \A q \in Txs \ {p} : op[q].kind = "open" => op[q].account # op[p].account

RowInv == FreshInv /\ EditInv /\ WrittenInv /\ OrderInv /\ OpenInv

LEMMA FreshIds ==
  ASSUME NEW p \in Txs
  PROVE  /\ Fresh[p][1] \in Entries /\ Fresh[p][2] \in Entries
         /\ Inserts(p) \subseteq Entries /\ Inserts(p) \subseteq Int
         /\ \A q \in Txs : p # q => Inserts(p) \cap Inserts(q) = {}
<1>1. Fresh[p] \in Entries \X Entries /\ Entries \subseteq Int
  BY LedgerAssumption
<1>2. Fresh[p][1] \in Entries /\ Fresh[p][2] \in Entries
  BY <1>1
<1> QED BY <1>1, <1>2, LedgerAssumption DEF Inserts

LEMMA InitRowInv == Init => RowInv
<1> SUFFICES ASSUME Init PROVE RowInv
  OBVIOUS
<1>1. /\ \A p \in Txs : \A e \in Entries : plan[p][e] = Keep
      /\ \A p \in Txs : /\ step[p] = "idle" /\ written[p] = {} /\ held[p] = {}
                        /\ op[p].kind = "none"
      /\ entries = book.seed /\ book \in Books
  BY DEF Init, NoPlan
<1>2. \A p \in Txs : Changes(p) = {} /\ Inserts(p) \subseteq Entries
  BY <1>1, FreshIds DEF Changes
<1>3. FreshInv
  <2>1. \A q \in Txs : \A i \in Inserts(q) : entries[i] = NoEntry /\ Legs(i) = {}
    BY <1>1, <1>2, SeedAssumption DEF Legs, Rows
  <2>2. \A p \in Txs : Unaware(p)
    BY <1>1, <1>2, LedgerAssumption DEF Unaware
  <2> QED BY <2>1, <2>2 DEF FreshInv
<1>4. EditInv
  BY <1>1, <1>2, SeedAssumption DEF EditInv, Edits
<1>5. WrittenInv /\ OrderInv /\ OpenInv
  BY <1>1 DEF WrittenInv, Writes, OrderInv, OpenInv
<1> QED BY <1>3, <1>4, <1>5 DEF RowInv

\* Until it commits, a transaction changes nothing but its own.
Private(p) ==
  /\ entries' = entries /\ accounts' = accounts
  /\ \A q \in Txs \ {p} : /\ op'[q] = op[q] /\ step'[q] = step[q] /\ plan'[q] = plan[q]
                          /\ want'[q] = want[q] /\ held'[q] = held[q] /\ written'[q] = written[q]

LEMMA PrivateSteps ==
  ASSUME TypeOK, NEW p \in Txs,
         \/ \E o \in Menu : Begin(p, o)
         \/ GiveUp(p) \/ ReadRow(p) \/ ReadPair(p) \/ Hold(p) \/ WriteRow(p)
         \/ Proceed(p) \/ JudgeArchive(p) \/ JudgeOpening(p) \/ JudgeReconcile(p)
  PROVE  Private(p)
<1> USE DEF TypeOK, Private
<1>1. CASE \E o \in Menu : Begin(p, o)
  BY <1>1 DEF Begin, Ready
<1>2. CASE GiveUp(p)
  BY <1>2 DEF GiveUp, Release
<1>3. CASE ReadRow(p) \/ ReadPair(p)
  BY <1>3 DEF ReadRow, ReadPair, Ready
<1>4. CASE Hold(p) \/ WriteRow(p)
  BY <1>4 DEF Hold, WriteRow
<1>5. CASE Proceed(p) \/ JudgeArchive(p) \/ JudgeOpening(p) \/ JudgeReconcile(p)
  BY <1>5 DEF Proceed, JudgeArchive, JudgeOpening, JudgeReconcile, Judged
<1> QED BY <1>1, <1>2, <1>3, <1>4, <1>5

\* So a private step keeps the invariants of the others, and leaves those of its own to show.
LEMMA PrivateRowInv ==
  ASSUME RowInv, NEW p \in Txs, Private(p),
         step[p] \notin {"committed", "over"}, Unaware(p)', Edits(p)', Writes(p)',
         written'[p] \subseteq written[p]
           \/ \E e \in Entries : /\ \A q \in Txs \ {p} : e \notin written[q]
                                 /\ written'[p] = written[p] \union {e},
         \A a \in held'[p], b \in want'[p] : a < b,
         op'[p].kind = "open" =>
           /\ step'[p] = "write" => accounts[op'[p].account] = "absent"
           /\ \A q \in Txs \ {p} : op[q].kind = "open" => op[q].account # op'[p].account
  PROVE  RowInv'
<1>1. FreshInv'
  <2>1. \A q \in Txs : Open(q)' => Open(q)
    BY DEF Private, Open
  <2>2. \A q \in Txs : Open(q)' => \A i \in Inserts(q) : entries'[i] = NoEntry /\ Legs(i)' = {}
    BY <2>1 DEF Private, RowInv, FreshInv, Legs
  <2>3. ASSUME NEW r \in Txs \ {p} PROVE Unaware(r)'
    <3>1. Unaware(r)
      BY DEF RowInv, FreshInv
    <3>2. op'[r] = op[r] /\ step'[r] = step[r] /\ plan'[r] = plan[r]
      BY DEF Private
    <3> QED BY <2>1, <3>1, <3>2 DEF Unaware
  <2> QED BY <2>2, <2>3 DEF FreshInv
<1>2. EditInv'
  <2>1. \A r \in Txs \ {p} : Edits(r)'
    BY DEF Private, RowInv, EditInv, Edits, Changes
  <2> QED BY <2>1 DEF Private, RowInv, EditInv
<1>3. WrittenInv'
  <2>1. \A r \in Txs \ {p} : Writes(r)'
    BY DEF Private, RowInv, WrittenInv, Writes, Changes, Pending
  <2>2. \A r, q \in Txs : r # q => written'[r] \cap written'[q] = {}
    BY DEF Private, RowInv, WrittenInv
  <2> QED BY <2>1, <2>2 DEF WrittenInv
<1>4. OrderInv'
  BY DEF Private, RowInv, OrderInv
<1>5. OpenInv'
  BY DEF Private, RowInv, OpenInv
<1> QED BY <1>1, <1>2, <1>3, <1>4, <1>5 DEF RowInv

LEMMA RowKinds ==
  ASSUME NEW a \in Accounts, NEW m \in Int
  PROVE  /\ \A r \in {Record(a, m), Opening(a, m)} :
              r \in Entry /\ r \notin {Keep, NoEntry} /\ r.pair = NoPair
         /\ ~Record(a, m).system /\ Opening(a, m).system
         /\ \A t \in Int : /\ Leg(a, m, t) \in Entry /\ Leg(a, m, t) \notin {Keep, NoEntry}
                           /\ Leg(a, m, t).pair = t /\ ~Leg(a, m, t).system
                           /\ Leg(a, m, t).account = a /\ Leg(a, m, t).amount = m
BY LedgerAssumption, PlansAreTyped DEF Record, Opening, Leg

LEMMA BeginRowInv ==
  ASSUME Typed, RowInv, NEW p \in Txs, NEW o \in Menu, Begin(p, o) PROVE RowInv'
<1>1. Private(p)
  BY PrivateSteps DEF Typed
<1>2. /\ step[p] = "idle" /\ held'[p] = {} /\ written'[p] = {} /\ op'[p] = o
      /\ step'[p] = IF EditsRow(o) \/ EditsPair(o) THEN "read"
                    ELSE IF o.kind = "open" THEN "write" ELSE "lock"
  BY DEF Begin, Typed, TypeOK, IInv, QuietInv, RowInv, WrittenInv, Writes
<1>3. ASSUME NEW e \in Entries, plan'[p][e] # Keep
      PROVE  /\ e \in Inserts(p) /\ o.kind \in {"open", "create", "transfer"}
             /\ plan'[p][e] # NoEntry
             /\ plan'[p][e].pair = IF o.kind = "transfer" THEN Fresh[p][1] ELSE NoPair
             /\ plan'[p][e].system <=> o.kind = "open"
  <2>1. /\ o.kind \in {"open", "create", "transfer"} =>
             o.account \in Accounts /\ o.amount \in Int /\ -o.amount \in Int
        /\ o.kind = "transfer" => o.other \in Accounts
    BY MenuAssumption
  <2>2. Fresh[p][1] \in Entries /\ Fresh[p][2] \in Entries /\ Fresh[p][1] \in Int
    BY FreshIds, LedgerAssumption
  <2>3. \A f \in Entries : NoPlan[f] = Keep
    BY DEF NoPlan
  <2>4. NoPlan \in [Entries -> {Keep}]
    BY DEF NoPlan
  <2> HIDE DEF NoPlan
  <2>5. CASE o.kind = "open"
    <3>1. plan'[p] = [NoPlan EXCEPT ![Fresh[p][1]] = Opening(o.account, o.amount)]
      BY <2>5 DEF Begin, Ready, Typed, TypeOK
    <3> QED BY <1>3, <2>1, <2>2, <2>3, <2>4, <2>5, <3>1, RowKinds DEF Inserts
  <2>6. CASE o.kind = "create"
    <3>1. plan'[p] = [NoPlan EXCEPT ![Fresh[p][1]] = Record(o.account, o.amount)]
      BY <2>6 DEF Begin, Ready, Typed, TypeOK
    <3> QED BY <1>3, <2>1, <2>2, <2>3, <2>4, <2>6, <3>1, RowKinds DEF Inserts
  <2>7. CASE o.kind = "transfer"
    <3>1. plan'[p] = [NoPlan EXCEPT ![Fresh[p][1]] = Leg(o.account, -o.amount, Fresh[p][1]),
                                    ![Fresh[p][2]] = Leg(o.other, o.amount, Fresh[p][1])]
      BY <2>7 DEF Begin, Ready, Typed, TypeOK
    <3> QED BY <1>3, <2>1, <2>2, <2>3, <2>4, <2>7, <3>1, RowKinds DEF Inserts
  <2>8. CASE o.kind \notin {"open", "create", "transfer"}
    <3>1. plan'[p] = NoPlan
      BY <2>8 DEF Begin, Ready, Typed, TypeOK
    <3> QED BY <1>3, <2>3, <3>1
  <2> QED BY <2>5, <2>6, <2>7, <2>8
<1>4. Unaware(p)'
  <2>1. SUFFICES ASSUME NEW q \in Txs, NEW i \in Inserts(q)
                 PROVE  /\ p # q \/ o.kind \notin Mints => plan'[p][i] = Keep
                        /\ p # q => \A e \in Entries : plan'[p][e] \in Entry => plan'[p][e].pair # i
                        /\ EditsPair(o) => step'[p] \notin {"lock", "write"}
    BY <1>2 DEF Unaware, EditsPair
  <2>2. i \in Entries /\ i \in Int /\ (p # q => i \notin Inserts(p))
    BY FreshIds
  <2>3. Fresh[p][1] \in Inserts(p)
    BY DEF Inserts
  <2>4. \A e \in Entries : plan'[p][e] \in Entry => plan'[p][e] # Keep
    BY LedgerAssumption
  <2> QED BY <1>2, <1>3, <2>2, <2>3, <2>4, LedgerAssumption DEF Mints
<1>5. Edits(p)'
  BY <1>2, <1>3 DEF Edits, Changes, Mints, EditsRow, EditsPair
<1>6. Writes(p)'
  BY <1>2 DEF Writes
<1>7. o.kind = "open" =>
        /\ accounts[o.account] = "absent"
        /\ \A q \in Txs \ {p} : op[q].kind = "open" => op[q].account # o.account
  BY DEF Begin
<1> QED BY <1>1, <1>2, <1>4, <1>5, <1>6, <1>7, PrivateRowInv

LEMMA GiveUpRowInv == ASSUME Typed, RowInv, NEW p \in Txs, GiveUp(p) PROVE RowInv'
<1>1. Private(p)
  BY PrivateSteps DEF Typed
<1>2. /\ step[p] \notin {"committed", "over"} /\ step'[p] = "over" /\ op' = op
      /\ held'[p] = {} /\ want'[p] = {} /\ written'[p] = {}
      /\ \A e \in Entries : plan'[p][e] = Keep
  BY DEF GiveUp, Release, Typed, TypeOK, NoPlan
<1>3. Unaware(p)' /\ Edits(p)' /\ Writes(p)'
  BY <1>2, FreshIds, LedgerAssumption DEF Unaware, Edits, Writes, Changes
<1>4. op[p].kind = "open" => \A q \in Txs \ {p} : op[q].kind = "open" => op[q].account # op[p].account
  BY DEF RowInv, OpenInv
<1> QED BY <1>1, <1>2, <1>3, <1>4, PrivateRowInv

LEMMA ReadRowRowInv == ASSUME Typed, RowInv, NEW p \in Txs, ReadRow(p) PROVE RowInv'
<1> DEFINE t == op[p].target
<1>1. Private(p)
  BY PrivateSteps DEF Typed
<1>2. /\ step[p] = "read" /\ step'[p] = "lock" /\ op' = op
      /\ held'[p] = {} /\ written'[p] = {} /\ op[p] \in Menu
      /\ op[p].kind \in {"update", "remove"}
  BY DEF ReadRow, EditsRow, Typed, TypeOK, IInv, QuietInv, RowInv, WrittenInv, Writes
<1>3. /\ t \in Entries /\ t \in Rows(entries) /\ ~entries[t].system /\ entries[t].pair = NoPair
  BY <1>2, MenuAssumption DEF ReadRow, Editable, Rows
<1>4. \A q \in Txs : Open(q) => t \notin Inserts(q)
  BY <1>3 DEF RowInv, FreshInv, Rows
<1>5. ASSUME NEW e \in Entries, plan'[p][e] # Keep
      PROVE  /\ e = t
             /\ plan'[p][e] # NoEntry => plan'[p][e].pair = NoPair /\ ~plan'[p][e].system
  <2>1. NoPlan \in [Entries -> {Keep}]
    BY DEF NoPlan
  <2>2. plan'[p] = [NoPlan EXCEPT ![t] = IF op[p].kind = "remove" THEN NoEntry
                                         ELSE Record(op[p].account, op[p].amount)]
    BY DEF ReadRow, Ready, Typed, TypeOK
  <2>3. /\ Record(op[p].account, op[p].amount).pair = NoPair
        /\ ~Record(op[p].account, op[p].amount).system
    BY DEF Record
  <2> QED BY <1>3, <1>5, <2>1, <2>2, <2>3
<1>6. Unaware(p)'
  <2>1. \A q \in Txs : Open(q)' => \A i \in Inserts(q) : plan'[p][i] = Keep
    <3>1. \A q \in Txs : Open(q)' => Open(q)
      BY <1>1, <1>2 DEF Private, Open
    <3> QED BY <1>4, <1>5, <3>1, FreshIds
  <2>2. \A e \in Entries : plan'[p][e] \in Entry => plan'[p][e].pair \notin Int
    <3>1. \A e \in Entries : plan'[p][e] \in Entry => plan'[p][e] \notin {Keep, NoEntry}
      BY LedgerAssumption
    <3> QED BY <1>5, <3>1, LedgerAssumption
  <2> QED BY <1>2, <2>1, <2>2, FreshIds DEF Unaware, EditsPair
<1>7. Edits(p)'
  <2>1. \A e \in Changes(p)' : e = t /\ (plan'[p][e] # NoEntry =>
                                 plan'[p][e].pair = NoPair /\ plan'[p][e].system = FALSE)
    BY <1>5, LedgerAssumption, PlansAreTyped DEF Changes, Typed, TypeOK, ReadRow, Ready, Record
  <2>2. entries' = entries
    BY <1>1 DEF Private
  <2>3. entries[t].system = FALSE
    BY <1>3 DEF Rows, Typed, TypeOK, Entry
  <2> QED BY <1>2, <1>3, <2>1, <2>2, <2>3 DEF Edits, Mints, EditsPair
<1>8. Writes(p)'
  BY <1>2 DEF Writes
<1> QED BY <1>1, <1>2, <1>6, <1>7, <1>8, PrivateRowInv

LEMMA ReadPairRowInv == ASSUME Typed, RowInv, NEW p \in Txs, ReadPair(p) PROVE RowInv'
<1> DEFINE t == op[p].target
<1>1. Private(p)
  BY PrivateSteps DEF Typed
<1>2. /\ step[p] = "read" /\ step'[p] = "lock" /\ op' = op
      /\ held'[p] = {} /\ written'[p] = {} /\ op[p] \in Menu
      /\ op[p].kind \in {"retransfer", "untransfer"}
  BY DEF ReadPair, EditsPair, Typed, TypeOK, IInv, QuietInv, RowInv, WrittenInv, Writes
<1>3. t \in Int /\ Legs(t) # {}
  <2>1. t \in Int
    BY <1>2, MenuAssumption
  <2>2. Cardinality(Legs(t)) = 2
    BY DEF ReadPair
  <2>3. Cardinality({}) = 0
    BY FS_EmptySet
  <2> QED BY <2>1, <2>2, <2>3
<1>4. \A q \in Txs : Open(q)' => Open(q)
  BY <1>1, <1>2 DEF Private, Open
<1>5. \A e \in Legs(t) : /\ e \in Entries /\ entries[e] # NoEntry
                         /\ entries[e].pair = t /\ entries[e].system = FALSE
  BY <1>3, LedgerAssumption DEF RowInv, EditInv, Legs, LegsIn, Rows, Typed, TypeOK, Entry
<1>6. \A q \in Txs : Open(q) => t \notin Inserts(q) /\ Legs(t) \cap Inserts(q) = {}
  BY <1>3, <1>5 DEF RowInv, FreshInv
<1>7. ASSUME NEW e \in Entries, plan'[p][e] # Keep
      PROVE  /\ e \in Legs(t)
             /\ plan'[p][e] # NoEntry => plan'[p][e].pair = t /\ plan'[p][e].system = FALSE
  <2>1. plan'[p] = [f \in Entries |-> IF f \notin Legs(t) THEN Keep
                      ELSE IF op[p].kind = "untransfer" THEN NoEntry
                      ELSE IF entries[f].amount < 0 THEN Leg(op[p].account, -op[p].amount, t)
                                                    ELSE Leg(op[p].other, op[p].amount, t)]
    BY DEF ReadPair, Ready, Typed, TypeOK
  <2> HIDE DEF t
  <2> QED BY <1>7, <2>1 DEF Leg
<1>8. Unaware(p)'
  <2>1. \A q \in Txs : Open(q)' => \A i \in Inserts(q) : plan'[p][i] = Keep
    BY <1>4, <1>6, <1>7, FreshIds
  <2>2. \A e \in Entries : plan'[p][e] \in Entry => plan'[p][e].pair = t
    BY <1>7, LedgerAssumption
  <2> HIDE DEF t
  <2> QED BY <1>2, <1>4, <1>6, <2>1, <2>2, FreshIds DEF Unaware, t
<1>9. Edits(p)'
  <2>1. \A e \in Changes(p)' : /\ e \in Legs(t)
                               /\ plan'[p][e] # NoEntry => plan'[p][e].pair = t /\ plan'[p][e].system = FALSE
    BY <1>7 DEF Changes
  <2>2. entries' = entries
    BY <1>1 DEF Private
  <2> QED BY <1>2, <1>5, <2>1, <2>2 DEF Edits, Mints, EditsPair
<1>10. Writes(p)'
  BY <1>2 DEF Writes
<1> QED BY <1>1, <1>2, <1>8, <1>9, <1>10, PrivateRowInv

LEMMA HoldRowInv == ASSUME Typed, RowInv, NEW p \in Txs, Hold(p) PROVE RowInv'
<1>1. Private(p)
  BY PrivateSteps DEF Typed
<1>2. /\ step[p] = "lock" /\ step' = step /\ op' = op /\ plan' = plan /\ written' = written
      /\ entries' = entries /\ accounts' = accounts
  BY DEF Hold
<1>3. \A a \in held'[p], b \in want'[p] : a < b
  <2>1. PICK a \in First(want[p]) : /\ held' = [held EXCEPT ![p] = @ \union {a}]
                                    /\ want' = [want EXCEPT ![p] = @ \ {a}]
    BY DEF Hold
  <2>2. /\ held'[p] = held[p] \union {a} /\ want'[p] = want[p] \ {a}
        /\ a \in want[p] /\ want[p] \subseteq Int /\ \A b \in want[p] : a <= b
    BY <2>1, LedgerAssumption DEF First, Typed, TypeOK
  <2>3. \A h \in held[p], b \in want[p] : h < b
    BY DEF RowInv, OrderInv
  <2> QED BY <2>2, <2>3
<1>4. Unaware(p)' /\ Edits(p)' /\ Writes(p)'
  BY <1>2 DEF RowInv, FreshInv, EditInv, WrittenInv, Unaware, Edits, Writes, Open, Changes, Pending
<1>5. op[p].kind = "open" => \A q \in Txs \ {p} : op[q].kind = "open" => op[q].account # op[p].account
  BY DEF RowInv, OpenInv
<1> QED BY <1>1, <1>2, <1>3, <1>4, <1>5, PrivateRowInv

\* What a judgement plans is the one correction it makes, or what was planned before.
LEMMA JudgedRowInv ==
  ASSUME Typed, RowInv, NEW p \in Txs, NEW rows, Judged(p, rows), op[p].kind # "open", Private(p),
         (Unaware(p) /\ Edits(p))'
  PROVE  RowInv'
<1>1. /\ step[p] = "lock" /\ step'[p] = "write" /\ want'[p] = {} /\ written'[p] = {} /\ op' = op
  BY DEF Judged, Typed, TypeOK, RowInv, WrittenInv, Writes
<1>2. Writes(p)'
  BY <1>1 DEF Writes
<1> QED BY <1>1, <1>2, PrivateRowInv

LEMMA JudgementsRowInv ==
  ASSUME Typed, RowInv, NEW p \in Txs,
         Proceed(p) \/ JudgeArchive(p) \/ JudgeOpening(p) \/ JudgeReconcile(p)
  PROVE  RowInv'
<1>1. Private(p)
  BY PrivateSteps DEF Typed
<1>2. /\ step[p] = "lock" /\ step' = [step EXCEPT ![p] = "write"] /\ op' = op /\ op[p] \in Menu
      /\ entries' = entries /\ op[p].kind # "open" /\ step'[p] = "write"
  BY DEF Proceed, JudgeArchive, JudgeOpening, JudgeReconcile, Judged, Typed, IInv, QuietInv, TypeOK
<1>3. \A q \in Txs : Open(q)' => Open(q)
  BY <1>1, <1>2 DEF Private, Open
<1>4. Unaware(p) /\ Edits(p)
  BY DEF RowInv, FreshInv, EditInv
<1>5. CASE Proceed(p)
  <2>1. plan'[p] = plan[p]
    BY <1>5 DEF Proceed, Judged, Typed, TypeOK
  <2>2. Unaware(p)' /\ Edits(p)'
    BY <1>2, <1>3, <1>4, <2>1 DEF Unaware, Edits, Changes
  <2> QED BY <1>1, <1>2, <1>5, <2>2, JudgedRowInv DEF Proceed
<1>6. CASE JudgeArchive(p)
  <2>1. \A e \in Entries : plan'[p][e] = Keep
    BY <1>6 DEF JudgeArchive, Judged, Typed, TypeOK, NoPlan
  <2>2. Unaware(p)' /\ Edits(p)'
    BY <1>2, <1>6, <2>1, FreshIds, LedgerAssumption DEF JudgeArchive, Unaware, Edits, Changes, EditsPair
  <2> QED BY <1>1, <1>2, <1>6, <2>2, JudgedRowInv DEF JudgeArchive
<1>7. NoPlan \in [Entries -> {Keep}]
  BY DEF NoPlan
<1>8. CASE JudgeOpening(p)
  <2>1. PICK e \in On(op[p].account) :
           Judged(p, [NoPlan EXCEPT ![e] = Opening(op[p].account, op[p].amount)])
    BY <1>8 DEF JudgeOpening
  <2>2. op[p].kind = "opening" /\ entries[e].system = TRUE /\ entries[e].pair = NoPair
        /\ e \in Entries /\ e \in Rows(entries) /\ entries[e] # NoEntry
    BY <1>8, <2>1 DEF JudgeOpening, RowInv, EditInv, On, Rows, Typed, TypeOK, Entry
  <2>3. plan'[p] = [NoPlan EXCEPT ![e] = Opening(op[p].account, op[p].amount)]
    BY <2>1 DEF Judged, Typed, TypeOK
  <2>4. \A f \in Entries : plan'[p][f] # Keep =>
          f = e /\ plan'[p][f].pair = NoPair /\ plan'[p][f].system = TRUE
    BY <1>7, <2>2, <2>3 DEF Opening
  <2>5. Unaware(p)'
    <3>1. \A q \in Txs : Open(q)' => e \notin Inserts(q)
      BY <1>3, <2>2 DEF RowInv, FreshInv
    <3> QED BY <1>2, <2>2, <2>4, <3>1, FreshIds, LedgerAssumption DEF Unaware, EditsPair
  <2>6. Edits(p)'
    BY <1>2, <2>2, <2>4 DEF Edits, Changes, Mints, EditsPair
  <2> QED BY <1>1, <1>2, <2>1, <2>5, <2>6, JudgedRowInv
<1>9. CASE JudgeReconcile(p)
  <2>1. \A f \in Entries : plan'[p][f] # Keep =>
          /\ f = Fresh[p][1] /\ plan'[p][f] = Record(op[p].account, Difference(p))
    BY <1>7, <1>9 DEF JudgeReconcile, Judged, Typed, TypeOK
  <2>2. op[p].kind = "reconcile" /\ op[p].account \in Accounts /\ op[p].amount \in Int
    BY <1>2, <1>9, MenuAssumption DEF JudgeReconcile
  <2>3. Difference(p) \in Int
    BY <2>2, BalanceIs DEF Difference, Typed
  <2> HIDE DEF Difference
  <2>4. \A f \in Entries : plan'[p][f] # Keep =>
          /\ f \in Inserts(p) /\ plan'[p][f] # NoEntry /\ plan'[p][f].pair = NoPair
          /\ ~plan'[p][f].system
    BY <2>1, <2>2, <2>3, RowKinds DEF Inserts
  <2>5. Unaware(p)'
    BY <1>2, <2>2, <2>4, FreshIds, LedgerAssumption DEF Unaware, EditsPair, Mints
  <2>6. Edits(p)'
    BY <1>2, <2>2, <2>4 DEF Edits, Changes, Mints, EditsPair
  <2>7. PICK rows : Judged(p, rows)
    BY <1>9 DEF JudgeReconcile
  <2> QED BY <1>1, <1>2, <2>5, <2>6, <2>7, JudgedRowInv
<1> QED BY <1>5, <1>6, <1>8, <1>9

LEMMA WriteRowRowInv == ASSUME Typed, RowInv, NEW p \in Txs, WriteRow(p) PROVE RowInv'
<1>1. Private(p)
  BY PrivateSteps DEF Typed
<1>2. /\ step[p] = "write" /\ step' = step /\ op' = op /\ plan' = plan /\ want'[p] = {}
      /\ entries' = entries /\ accounts' = accounts
  BY DEF WriteRow, Typed, IInv, QuietInv
<1>3. PICK e \in NextRow(p) :
        /\ \A q \in Txs \ {p} : e \notin written[q]
        /\ e \in Inserts(p) \/ entries[e] # NoEntry
        /\ written' = [written EXCEPT ![p] = @ \union {e}]
  BY DEF WriteRow
<1>4. /\ written'[p] = written[p] \union {e} /\ e \in Entries /\ e \in Changes(p)
      /\ \A f \in Pending(p) : e <= f
      /\ Pending(p)' = Pending(p) \ {e} /\ Pending(p) \subseteq Int
  BY <1>2, <1>3, LedgerAssumption DEF NextRow, First, Pending, Changes, Typed, TypeOK
<1>5. Writes(p)'
  <2>1. Writes(p)
    BY DEF RowInv, WrittenInv
  <2>2. e \in Inserts(p) \/ e \in Rows(entries)
    BY <1>3, <1>4 DEF Rows
  <2>3. \A f \in Pending(p)' : e < f
    BY <1>4, LedgerAssumption
  <2> QED BY <1>2, <1>4, <2>1, <2>2, <2>3 DEF Writes, Changes
<1>6. Unaware(p)' /\ Edits(p)'
  BY <1>2 DEF RowInv, FreshInv, EditInv, Unaware, Edits, Open, Changes
<1>7. op[p].kind = "open" =>
        /\ accounts[op[p].account] = "absent"
        /\ \A q \in Txs \ {p} : op[q].kind = "open" => op[q].account # op[p].account
  BY <1>2 DEF RowInv, OpenInv
<1> QED BY <1>1, <1>2, <1>3, <1>4, <1>5, <1>6, <1>7, PrivateRowInv

-----------------------------------------------------------------------------
(* What a commit does to the rows *)

\* A commit writes all it planned.  Only its own mints are new; a row that was there before
\* is gone, or still the leg, the opening or the record it was.
LEMMA CommitRows ==
  ASSUME Typed, RowInv, NEW q \in Txs, Commit(q)
  PROVE  /\ step[q] = "write" /\ Open(q) /\ written[q] = Changes(q) /\ want[q] = {}
         /\ op' = op /\ step' = [step EXCEPT ![q] = "committed"]
         /\ held' = [held EXCEPT ![q] = {}] /\ want' = [want EXCEPT ![q] = {}]
         /\ written' = [written EXCEPT ![q] = {}] /\ plan' = [plan EXCEPT ![q] = NoPlan]
         /\ op[q] \in Menu
         /\ \A e \in Entries : entries'[e] = IF e \in Changes(q) THEN plan[q][e] ELSE entries[e]
         /\ \A e \in Changes(q) : plan[q][e] \in Entry \union {NoEntry}
         /\ op[q].kind \in Mints => \A e \in Changes(q) : e \in Inserts(q) /\ entries[e] = NoEntry
         /\ op[q].kind \notin Mints => \A e \in Changes(q) : e \notin Inserts(q) /\ e \in Rows(entries)
<1>1. /\ step[q] = "write" /\ Pending(q) = {} /\ op' = op /\ step' = [step EXCEPT ![q] = "committed"]
      /\ held' = [held EXCEPT ![q] = {}] /\ want' = [want EXCEPT ![q] = {}]
      /\ written' = [written EXCEPT ![q] = {}] /\ plan' = [plan EXCEPT ![q] = NoPlan]
  BY DEF Commit, Release
<1>2. op[q] \in Menu /\ want[q] = {} /\ Open(q)
  BY <1>1 DEF Typed, IInv, QuietInv, Open
<1>3. written[q] = Changes(q) /\ Writes(q)
  BY <1>1 DEF Pending, Changes, RowInv, WrittenInv, Writes
<1>4. \A e \in Entries : entries'[e] = IF e \in Changes(q) THEN plan[q][e] ELSE entries[e]
  BY DEF Commit, Outcome, Changes
<1>5. \A e \in Changes(q) : plan[q][e] \in Entry \union {NoEntry}
  BY DEF Changes, Typed, TypeOK
<1>6. op[q].kind \in Mints => \A e \in Changes(q) : e \in Inserts(q) /\ entries[e] = NoEntry
  BY <1>2 DEF RowInv, EditInv, Edits, FreshInv
<1>7. op[q].kind \notin Mints => \A e \in Changes(q) : e \notin Inserts(q) /\ e \in Rows(entries)
  BY <1>2, <1>3 DEF RowInv, FreshInv, Unaware, Writes, Changes
<1> QED BY <1>1, <1>2, <1>3, <1>4, <1>5, <1>6, <1>7

LEMMA RowsStay ==
  ASSUME Typed, RowInv, NEW q \in Txs, Commit(q), NEW e \in Entries, entries'[e] # NoEntry
  PROVE  /\ IF entries[e] = NoEntry THEN e \in Inserts(q)
            ELSE entries'[e].pair = entries[e].pair /\ entries'[e].system = entries[e].system
         /\ entries'[e].system => entries'[e].pair = NoPair
<1>1. CASE e \notin Changes(q)
  BY <1>1, CommitRows DEF RowInv, EditInv, Rows
<1>2. CASE e \in Changes(q) /\ op[q].kind \in Mints
  BY <1>2, CommitRows DEF RowInv, EditInv, Edits
<1>3. CASE e \in Changes(q) /\ op[q].kind \notin Mints
  BY <1>3, CommitRows DEF RowInv, EditInv, Edits, Rows
<1> QED BY <1>1, <1>2, <1>3

LEMMA CommitRowInv == ASSUME Typed, RowInv, NEW q \in Txs, Commit(q) PROVE RowInv'
<1>1. /\ step[q] = "write" /\ op' = op /\ step' = [step EXCEPT ![q] = "committed"]
      /\ held' = [held EXCEPT ![q] = {}] /\ want' = [want EXCEPT ![q] = {}]
      /\ written' = [written EXCEPT ![q] = {}] /\ plan' = [plan EXCEPT ![q] = NoPlan]
      /\ op[q] \in Menu /\ want[q] = {} /\ written[q] = Changes(q)
      /\ \A e \in Entries : entries'[e] = IF e \in Changes(q) THEN plan[q][e] ELSE entries[e]
  BY CommitRows
<1>2. /\ step'[q] = "committed" /\ held'[q] = {} /\ want'[q] = {} /\ written'[q] = {}
      /\ \A e \in Entries : plan'[q][e] = Keep
      /\ \A r \in Txs \ {q} : /\ step'[r] = step[r] /\ held'[r] = held[r] /\ want'[r] = want[r]
                              /\ written'[r] = written[r] /\ plan'[r] = plan[r]
  BY <1>1 DEF Typed, TypeOK, NoPlan
<1>3. \A r \in Txs : Open(r)' => Open(r) /\ r # q
  BY <1>2 DEF Open
<1>4. FreshInv'
  <2>1. ASSUME NEW r \in Txs, Open(r)', NEW i \in Inserts(r)
        PROVE  entries'[i] = NoEntry /\ Legs(i)' = {}
    <3>1. /\ Open(r) /\ r # q /\ i \in Entries /\ entries[i] = NoEntry /\ Legs(i) = {}
          /\ plan[q][i] = Keep
          /\ \A e \in Entries : plan[q][e] \in Entry => plan[q][e].pair # i
      BY <1>3, <2>1, FreshIds DEF RowInv, FreshInv, Unaware
    <3>2. entries'[i] = NoEntry
      BY <1>1, <3>1 DEF Changes
    <3>3. ASSUME NEW e \in Entries, entries'[e] # NoEntry PROVE entries'[e].pair # i
      <4>1. CASE e \in Changes(q)
        BY <1>1, <3>1, <3>3, <4>1, CommitRows
      <4>2. CASE e \notin Changes(q)
        BY <1>1, <3>1, <3>3, <4>2 DEF Legs, LegsIn, Rows
      <4> QED BY <4>1, <4>2
    <3> QED BY <3>2, <3>3 DEF Legs, LegsIn, Rows
  <2>2. ASSUME NEW r \in Txs PROVE Unaware(r)'
    <3>1. CASE r = q
      BY <1>1, <1>2, <3>1, FreshIds, LedgerAssumption DEF Unaware
    <3>2. CASE r # q
      <4>1. Unaware(r) /\ step'[r] = step[r] /\ plan'[r] = plan[r]
        BY <1>2, <3>2 DEF RowInv, FreshInv
      <4> QED BY <1>1, <1>3, <4>1 DEF Unaware
    <3> QED BY <3>1, <3>2
  <2> QED BY <2>1, <2>2 DEF FreshInv
<1>5. EditInv'
  <2>1. \A e \in Rows(entries)' : entries'[e].system => entries'[e].pair = NoPair
    BY RowsStay DEF Rows
  <2>2. ASSUME NEW r \in Txs PROVE Edits(r)'
    <3>1. CASE r = q
      BY <1>2, <3>1 DEF Edits, Changes
    <3>2. CASE r # q
      <4>1. Edits(r) /\ Changes(r)' = Changes(r) /\ step'[r] = step[r] /\ plan'[r] = plan[r] /\ op' = op
        BY <1>1, <1>2, <3>2 DEF RowInv, EditInv, Changes
      <4>2. ASSUME NEW e \in Changes(r), op[r].kind \notin Mints, entries'[e] # NoEntry
            PROVE  /\ e \in Rows(entries) /\ entries'[e].pair = entries[e].pair
                   /\ entries'[e].system = entries[e].system
        <5>1. e \in Entries /\ e \notin Inserts(q)
          BY <1>1, <3>2 DEF Changes, Open, RowInv, FreshInv, Unaware
        <5> QED BY <4>2, <5>1, RowsStay DEF Rows
      <4> QED BY <4>1, <4>2 DEF Edits, Rows
    <3> QED BY <3>1, <3>2
  <2> QED BY <2>1, <2>2 DEF EditInv
<1>6. WrittenInv'
  <2>1. ASSUME NEW r \in Txs PROVE Writes(r)'
    <3>1. CASE r = q
      BY <1>2, <3>1 DEF Writes
    <3>2. CASE r # q
      <4>1. /\ Writes(r) /\ Changes(r)' = Changes(r) /\ Pending(r)' = Pending(r)
            /\ step'[r] = step[r] /\ written'[r] = written[r]
        BY <1>2, <3>2 DEF RowInv, WrittenInv, Changes, Pending
      <4>2. \A e \in written[r] : e \in Entries /\ e \notin Changes(q)
        BY <1>1, <3>2, <4>1 DEF RowInv, WrittenInv, Writes, Changes
      <4> QED BY <1>1, <4>1, <4>2 DEF Writes, Rows
    <3> QED BY <3>1, <3>2
  <2>2. \A r, s \in Txs : r # s => written'[r] \cap written'[s] = {}
    BY <1>2 DEF RowInv, WrittenInv
  <2> QED BY <2>1, <2>2 DEF WrittenInv
<1>7. OrderInv'
  BY <1>2 DEF RowInv, OrderInv
<1>8. OpenInv'
  <2>1. SUFFICES ASSUME NEW r \in Txs \ {q}, op[r].kind = "open", step[r] = "write"
                 PROVE  accounts'[op[r].account] = "absent"
    BY <1>1, <1>2 DEF RowInv, OpenInv
  <2>2. accounts[op[r].account] = "absent"
    BY <2>1 DEF RowInv, OpenInv
  <2>3. op[q].kind = "open" => op[q].account # op[r].account
    BY <2>1 DEF RowInv, OpenInv
  <2>4. op[q].kind = "archive" => op[q].account # op[r].account
    <3>1. SUFFICES ASSUME op[q].kind = "archive" PROVE accounts[op[q].account] = "open"
      BY <2>2
    <3>2. op[q].account \in held[q] /\ op[q].account \in Accounts
      BY <1>1, <3>1, MenuAssumption DEF Typed, IInv, PlanInv, Planned, Alone, Judges
    <3> QED BY <3>2 DEF Typed, IInv, HeldInv
  <2> QED BY <2>2, <2>3, <2>4 DEF Commit, Typed, TypeOK
<1> QED BY <1>4, <1>5, <1>6, <1>7, <1>8 DEF RowInv

LEMMA NextRowInv == Typed /\ RowInv /\ [Next]_vars => RowInv'
<1> SUFFICES ASSUME Typed, RowInv, [Next]_vars PROVE RowInv'
  OBVIOUS
<1>1. ASSUME NEW p \in Txs, NEW o \in book.menu, Begin(p, o) PROVE RowInv'
  <2>1. o \in Menu
    BY DEF Menu, Typed
  <2> QED BY <1>1, <2>1, BeginRowInv
<1>2. ASSUME NEW p \in Txs, Advance(p) \/ GiveUp(p) PROVE RowInv'
  BY <1>2, GiveUpRowInv, ReadRowRowInv, ReadPairRowInv, HoldRowInv, JudgementsRowInv,
     WriteRowRowInv, CommitRowInv DEF Advance
<1>3. CASE UNCHANGED vars
  BY <1>3 DEF vars, RowInv, FreshInv, Unaware, EditInv, Edits, WrittenInv, Writes, OrderInv, OpenInv,
     Open, Changes, Pending, Legs
<1> QED BY <1>1, <1>2, <1>3 DEF Next

LEMMA AlwaysRows == Spec => [](Typed /\ RowInv)
<1>1. Init => Typed /\ RowInv
  BY InitTyped, InitRowInv
<1>2. (Typed /\ RowInv) /\ [Next]_vars => (Typed /\ RowInv)'
  BY NextTyped, NextRowInv
<1> QED BY <1>1, <1>2, PTL DEF Spec

-----------------------------------------------------------------------------
(* Pairs *)

\* Whoever edits a pair has planned for both its legs, or the pair is gone; whoever plans two
\* legs plans opposite amounts, and before it writes it has seen that the accounts differ.
PairPlanned(p) ==
  /\ EditsPair(op[p]) =>
       /\ Legs(op[p].target) \in {{}, Changes(p)}
       /\ Changes(p) # {}
       /\ op[p].kind = "untransfer" => \A e \in Changes(p) : plan[p][e] = NoEntry
  /\ op[p].kind \in {"transfer", "retransfer"} =>
       /\ \E out, in \in Entries :
            /\ Changes(p) = {out, in}
            /\ plan[p][out] # NoEntry /\ plan[p][in] # NoEntry
            /\ plan[p][out].amount = -op[p].amount /\ plan[p][in].amount = op[p].amount
            /\ plan[p][out].account = op[p].account /\ plan[p][in].account = op[p].other
       /\ op[p].kind = "retransfer" =>
            \A e \in Changes(p) : plan[p][e].pair = op[p].target
       /\ step[p] = "write" => op[p].account # op[p].other

PairInv ==
  /\ Mirrored(entries)
  /\ \A p \in Txs : step[p] \in {"lock", "write"} => PairPlanned(p)

LEMMA InitPairInv == Init => PairInv
BY SeedAssumption DEF Init, PairInv

LEMMA PrivatePairInv ==
  ASSUME PairInv, NEW p \in Txs, Private(p), step'[p] \in {"lock", "write"} => PairPlanned(p)'
  PROVE  PairInv'
<1>1. Mirrored(entries)'
  BY DEF Private, PairInv, Mirrored, LegsIn, Rows
<1>2. \A r \in Txs \ {p} : step'[r] \in {"lock", "write"} => PairPlanned(r)'
  BY DEF Private, PairInv, PairPlanned, Changes, Legs, LegsIn, Rows
<1> QED BY <1>1, <1>2 DEF PairInv

LEMMA BeginPairInv ==
  ASSUME Typed, PairInv, NEW p \in Txs, NEW o \in Menu, Begin(p, o) PROVE PairInv'
<1>1. Private(p)
  BY PrivateSteps DEF Typed
<1>2. /\ op'[p] = o
      /\ step'[p] \in {"lock", "write"} => ~EditsPair(o)
      /\ o.kind = "transfer" => step'[p] = "lock"
  BY DEF Begin, Typed, TypeOK, EditsRow, EditsPair
<1>3. ASSUME o.kind = "transfer" PROVE PairPlanned(p)'
  <2> DEFINE first == Fresh[p][1]
             both  == Fresh[p][2]
             out   == Leg(o.account, -o.amount, first)
             in    == Leg(o.other, o.amount, first)
  <2>1. first \in Entries /\ both \in Entries /\ first # both /\ first \in Int
    BY FreshIds, LedgerAssumption
  <2>2. plan'[p] = [NoPlan EXCEPT ![first] = out, ![both] = in]
    BY <1>3 DEF Begin, Ready, Typed, TypeOK
  <2>3. out \notin {Keep, NoEntry} /\ in \notin {Keep, NoEntry}
    BY <1>3, <2>1, MenuAssumption, RowKinds
  <2> HIDE DEF first, both
  <2>4. /\ plan'[p][first] = out /\ plan'[p][both] = in
        /\ \A e \in Entries \ {first, both} : plan'[p][e] = Keep
    BY <2>1, <2>2 DEF NoPlan
  <2>5. Changes(p)' = {first, both}
    BY <2>1, <2>3, <2>4 DEF Changes
  <2>6. /\ out.amount = -o.amount /\ in.amount = o.amount
        /\ out.account = o.account /\ in.account = o.other
    BY DEF Leg
  <2> HIDE DEF out, in
  <2> QED BY <1>2, <1>3, <2>1, <2>3, <2>4, <2>5, <2>6 DEF PairPlanned, EditsPair
<1>4. ASSUME o.kind # "transfer", step'[p] \in {"lock", "write"} PROVE PairPlanned(p)'
  BY <1>2, <1>4 DEF PairPlanned, EditsPair
<1> QED BY <1>1, <1>3, <1>4, PrivatePairInv

\* The pair is read as a mirrored one, so one leg is negative and the other is not.
LEMMA ReadPairPairInv == ASSUME Typed, RowInv, PairInv, NEW p \in Txs, ReadPair(p) PROVE PairInv'
<1> DEFINE t == op[p].target
           o == op[p]
<1>1. Private(p)
  BY PrivateSteps DEF Typed
<1>2. step[p] = "read" /\ op' = op /\ entries' = entries /\ o.kind \in {"retransfer", "untransfer"}
      /\ step'[p] = "lock" /\ o \in Menu
  BY DEF ReadPair, EditsPair, Typed, TypeOK, IInv, QuietInv
<1>3. t \in Int /\ Legs(t) # {}
  <2>1. t \in Int
    BY <1>2, MenuAssumption
  <2>2. Cardinality(Legs(t)) = 2
    BY DEF ReadPair
  <2>3. Cardinality({}) = 0
    BY FS_EmptySet
  <2> QED BY <2>1, <2>2, <2>3
<1>4. PICK out, in \in Legs(t) :
        Legs(t) = {out, in} /\ entries[out].amount < 0 /\ entries[in].amount = -entries[out].amount
  <2>1. t \in {entries[e].pair : e \in Rows(entries)} \ {NoPair}
    BY <1>3, LedgerAssumption DEF Legs, LegsIn
  <2> HIDE DEF t
  <2> QED BY <2>1 DEF PairInv, Mirrored, Legs
<1>5. /\ out \in Entries /\ in \in Entries /\ ~(entries[in].amount < 0)
      /\ entries[out].amount \in Int
  BY <1>4 DEF Legs, LegsIn, Rows, Typed, TypeOK, Entry
<1>6. plan'[p] = [f \in Entries |-> IF f \notin Legs(t) THEN Keep
                    ELSE IF o.kind = "untransfer" THEN NoEntry
                    ELSE IF entries[f].amount < 0 THEN Leg(o.account, -o.amount, t)
                                                  ELSE Leg(o.other, o.amount, t)]
  BY DEF ReadPair, Ready, Typed, TypeOK
<1>7. o.kind = "retransfer" => /\ o.account \in Accounts /\ o.other \in Accounts
                               /\ o.amount \in Int /\ -o.amount \in Int
  BY <1>2, MenuAssumption
<1>8. Changes(p)' = Legs(t)
  <2>1. \A e \in Entries : plan'[p][e] # Keep <=> e \in Legs(t)
    <3>1. SUFFICES ASSUME NEW e \in Legs(t), e \in Entries PROVE plan'[p][e] # Keep
      BY <1>6
    <3>2. CASE o.kind = "untransfer"
      <4> HIDE DEF o, t
      <4> QED BY <1>6, <3>1, <3>2, LedgerAssumption
    <3>3. CASE o.kind = "retransfer"
      <4>1. Leg(o.account, -o.amount, t) # Keep /\ Leg(o.other, o.amount, t) # Keep
        BY <1>3, <1>7, <3>3, RowKinds
      <4> HIDE DEF o, t
      <4> QED BY <1>6, <3>1, <3>3, <4>1
    <3> QED BY <1>2, <3>2, <3>3
  <2>2. Legs(t) \subseteq Entries
    BY DEF Legs, LegsIn, Rows
  <2> QED BY <2>1, <2>2 DEF Changes
<1>9. PairPlanned(p)'
  <2>1. Legs(o.target)' = Legs(t) /\ op'[p] = o
    BY <1>2 DEF Legs, LegsIn, Rows
  <2>2. o.kind = "untransfer" => \A e \in Legs(t) : e \in Entries => plan'[p][e] = NoEntry
    <3> HIDE DEF t, o
    <3> QED BY <1>6
  <2>3. ASSUME o.kind = "retransfer"
        PROVE  /\ plan'[p][out] = Leg(o.account, -o.amount, t)
               /\ plan'[p][in] = Leg(o.other, o.amount, t)
    <3> HIDE DEF t, o
    <3> QED BY <1>4, <1>5, <1>6, <2>3
  <2>4. ASSUME o.kind = "retransfer"
        PROVE  /\ plan'[p][out] # NoEntry /\ plan'[p][in] # NoEntry
               /\ plan'[p][out].amount = -o.amount /\ plan'[p][in].amount = o.amount
               /\ plan'[p][out].account = o.account /\ plan'[p][in].account = o.other
               /\ plan'[p][out].pair = t /\ plan'[p][in].pair = t
    BY <1>3, <1>7, <2>3, <2>4, RowKinds
  <2>5. Legs(t) \subseteq Entries
    BY DEF Legs, LegsIn, Rows
  <2>6. Changes(p)' = {out, in}
    BY <1>4, <1>8
  <2> HIDE DEF o, t
  <2>7. o.kind = "retransfer" => \A e \in Changes(p)' : plan'[p][e].pair = t
    BY <2>4, <2>6
  <2>8. /\ Legs(op[p].target)' = Changes(p)' /\ Changes(p)' # {}
        /\ o.kind = "untransfer" => \A e \in Changes(p)' : plan'[p][e] = NoEntry
    BY <1>3, <1>8, <2>1, <2>2, <2>5 DEF o
  <2>9. o.kind = "retransfer" =>
          \E x, y \in Entries :
            /\ Changes(p)' = {x, y}
            /\ plan'[p][x] # NoEntry /\ plan'[p][y] # NoEntry
            /\ plan'[p][x].amount = -o.amount /\ plan'[p][y].amount = o.amount
            /\ plan'[p][x].account = o.account /\ plan'[p][y].account = o.other
    BY <1>5, <2>4, <2>6
  <2> QED BY <1>2, <2>1, <2>7, <2>8, <2>9 DEF PairPlanned, EditsPair, o, t
<1> QED BY <1>1, <1>9, PrivatePairInv

LEMMA OthersPairInv ==
  ASSUME Typed, PairInv, NEW p \in Txs,
         \/ GiveUp(p) \/ ReadRow(p) \/ Hold(p) \/ WriteRow(p)
         \/ Proceed(p) \/ JudgeArchive(p) \/ JudgeOpening(p) \/ JudgeReconcile(p)
  PROVE  PairInv'
<1>1. Private(p)
  BY PrivateSteps DEF Typed
<1>2. CASE GiveUp(p)
  BY <1>1, <1>2, PrivatePairInv DEF GiveUp, Release, Typed, TypeOK
<1>3. CASE ReadRow(p) \/ JudgeArchive(p) \/ JudgeOpening(p) \/ JudgeReconcile(p)
  <2>1. op' = op /\ ~EditsPair(op[p]) /\ op[p].kind # "transfer"
    BY <1>3 DEF ReadRow, EditsRow, EditsPair, JudgeArchive, JudgeOpening, JudgeReconcile, Judged
  <2>2. PairPlanned(p)'
    BY <2>1 DEF PairPlanned, EditsPair
  <2> QED BY <1>1, <2>2, PrivatePairInv
<1>4. CASE Hold(p) \/ WriteRow(p) \/ Proceed(p)
  <2>1. op' = op /\ plan'[p] = plan[p] /\ entries' = entries /\ step[p] \in {"lock", "write"}
        /\ (step'[p] # step[p] /\ op[p].kind \in {"transfer", "retransfer"} => op[p].account # op[p].other)
    BY <1>4 DEF Hold, WriteRow, Proceed, Judged, Typed, TypeOK
  <2>2. PairPlanned(p)
    BY <2>1 DEF PairInv
  <2>3. PairPlanned(p)'
    BY <2>1, <2>2 DEF PairPlanned, Changes, Legs, LegsIn, Rows
  <2> QED BY <1>1, <2>3, PrivatePairInv
<1> QED BY <1>2, <1>3, <1>4

\* What a commit does to the legs of t: it makes them, rewrites or removes both, or leaves
\* them all alone.
LEMMA LegsAfter ==
  ASSUME Typed, RowInv, PairInv, NEW q \in Txs, Commit(q), NEW t \in Int
  PROVE  \/ /\ op[q].kind = "transfer" /\ t = Fresh[q][1]
            /\ Legs(t) = {} /\ Legs(t)' = Changes(q)
         \/ /\ EditsPair(op[q]) /\ t = op[q].target
            /\ Legs(t) = Changes(q)
            /\ Legs(t)' = IF op[q].kind = "untransfer" THEN {} ELSE Changes(q)
         \/ Legs(t)' = Legs(t) /\ \A e \in Legs(t) : entries'[e] = entries[e]
<1>0. /\ \A e \in Entries : entries'[e] = IF e \in Changes(q) THEN plan[q][e] ELSE entries[e]
      /\ step[q] = "write" /\ Open(q) /\ Edits(q) /\ PairPlanned(q)
      /\ Changes(q) \subseteq Entries
  BY CommitRows DEF RowInv, EditInv, PairInv, Changes
<1>1. CASE op[q].kind = "transfer" /\ t = Fresh[q][1]
  <2>1. Legs(t) = {}
    BY <1>0, <1>1 DEF RowInv, FreshInv, Inserts
  <2>2. \A e \in Changes(q) : plan[q][e] # NoEntry /\ plan[q][e].pair = t
    BY <1>0, <1>1 DEF Edits, Mints
  <2>3. Legs(t)' = Changes(q)
    BY <1>0, <2>1, <2>2 DEF Legs, LegsIn, Rows
  <2> QED BY <1>1, <2>1, <2>3
<1>2. CASE EditsPair(op[q]) /\ t = op[q].target
  <2>1. op[q].kind \notin Mints /\ op[q].kind \in {"retransfer", "untransfer"}
    BY <1>2 DEF EditsPair, Mints
  <2>2. \A e \in Changes(q) : e \in Rows(entries) /\ entries[e].pair = t
    BY <1>0, <1>2, <2>1, CommitRows DEF Edits
  <2>3. Legs(t) = Changes(q)
    BY <1>0, <1>2, <2>2 DEF PairPlanned, Legs, LegsIn
  <2>4. Legs(t)' = IF op[q].kind = "untransfer" THEN {} ELSE Changes(q)
    <3>1. CASE op[q].kind = "untransfer"
      BY <1>0, <1>2, <2>3, <3>1 DEF PairPlanned, Legs, LegsIn, Rows
    <3>2. CASE op[q].kind = "retransfer"
      <4>1. \A e \in Changes(q) : plan[q][e] # NoEntry /\ plan[q][e].pair = t
        BY <1>0, <1>2, <3>2 DEF PairPlanned
      <4> QED BY <1>0, <2>3, <3>2, <4>1 DEF Legs, LegsIn, Rows
    <3> QED BY <2>1, <3>1, <3>2
  <2> QED BY <1>2, <2>1, <2>3, <2>4
<1>3. CASE /\ ~(op[q].kind = "transfer" /\ t = Fresh[q][1])
           /\ ~(EditsPair(op[q]) /\ t = op[q].target)
  <2>1. \A e \in Changes(q) : entries[e] # NoEntry => entries[e].pair # t
    BY <1>0, <1>3, CommitRows, LedgerAssumption DEF Edits, Rows
  <2>2. \A e \in Changes(q) : plan[q][e] # NoEntry => plan[q][e].pair # t
    <3>1. CASE op[q].kind \in Mints
      BY <1>0, <1>3, <3>1, LedgerAssumption DEF Edits
    <3>2. CASE op[q].kind \notin Mints
      BY <1>0, <1>3, <2>1, <3>2, CommitRows DEF Edits, Rows
    <3> QED BY <3>1, <3>2
  <2>3. Legs(t)' = Legs(t) /\ \A e \in Legs(t) : entries'[e] = entries[e]
    BY <1>0, <2>1, <2>2 DEF Legs, LegsIn, Rows
  <2> QED BY <1>3, <2>3
<1> QED BY <1>1, <1>2, <1>3

LEMMA CommitPairInv == ASSUME Typed, RowInv, PairInv, NEW q \in Txs, Commit(q) PROVE PairInv'
<1>0. /\ \A e \in Entries : entries'[e] = IF e \in Changes(q) THEN plan[q][e] ELSE entries[e]
      /\ step[q] = "write" /\ Open(q) /\ PairPlanned(q) /\ op' = op /\ op[q] \in Menu
      /\ step' = [step EXCEPT ![q] = "committed"] /\ plan' = [plan EXCEPT ![q] = NoPlan]
  BY CommitRows DEF PairInv
<1>1. ASSUME NEW t \in Int, op[q].kind \in {"transfer", "retransfer"}, Legs(t)' = Changes(q)
      PROVE  \E out, in \in Legs(t)' :
               /\ Legs(t)' = {out, in}
               /\ entries'[out].amount < 0 /\ entries'[in].amount = -entries'[out].amount
               /\ entries'[out].account # entries'[in].account
  <2>1. PICK out, in \in Entries :
          /\ Changes(q) = {out, in}
          /\ plan[q][out].amount = -op[q].amount /\ plan[q][in].amount = op[q].amount
          /\ plan[q][out].account = op[q].account /\ plan[q][in].account = op[q].other
    BY <1>0, <1>1 DEF PairPlanned
  <2>2. op[q].amount \in Nat \ {0} /\ op[q].account # op[q].other
    BY <1>0, <1>1, MenuAssumption DEF PairPlanned
  <2>3. entries'[out] = plan[q][out] /\ entries'[in] = plan[q][in]
    BY <1>0, <2>1
  <2> QED BY <1>1, <2>1, <2>2, <2>3
<1>2. Mirrored(entries)'
  <2>1. SUFFICES ASSUME NEW t \in {entries'[e].pair : e \in Rows(entries)'} \ {NoPair}
                 PROVE  \E out, in \in Legs(t)' :
                          /\ Legs(t)' = {out, in}
                          /\ entries'[out].amount < 0 /\ entries'[in].amount = -entries'[out].amount
                          /\ entries'[out].account # entries'[in].account
    BY DEF Mirrored, Legs
  <2>2. t \in Int /\ Legs(t)' # {}
    <3>1. \A e \in Entries : entries'[e] # NoEntry => entries'[e].pair \in Int \union {NoPair}
      BY <1>0, CommitRows, ZenonT(40) DEF Typed, TypeOK, Entry
    <3> QED BY <2>1, <3>1 DEF Legs, LegsIn, Rows
  <2>3. CASE op[q].kind = "transfer" /\ Legs(t)' = Changes(q)
    BY <1>1, <2>2, <2>3
  <2>4. CASE EditsPair(op[q]) /\ Legs(t)' = IF op[q].kind = "untransfer" THEN {} ELSE Changes(q)
    BY <1>1, <2>2, <2>4 DEF EditsPair
  <2>5. CASE Legs(t)' = Legs(t) /\ \A e \in Legs(t) : entries'[e] = entries[e]
    <3>1. t \in {entries[e].pair : e \in Rows(entries)} \ {NoPair}
      BY <2>1, <2>2, <2>5 DEF Legs, LegsIn
    <3> QED BY <2>5, <3>1 DEF PairInv, Mirrored, Legs
  <2> QED BY <2>2, <2>3, <2>4, <2>5, LegsAfter
<1>3. ASSUME NEW r \in Txs, step'[r] \in {"lock", "write"} PROVE PairPlanned(r)'
  <2>1. r # q /\ step'[r] = step[r] /\ plan'[r] = plan[r] /\ PairPlanned(r)
    BY <1>0, <1>3 DEF Typed, TypeOK, PairInv
  <2>2. Changes(r)' = Changes(r)
    BY <2>1 DEF Changes
  <2>3. ASSUME EditsPair(op[r]) PROVE Legs(op[r].target)' \in {{}, Changes(r)}
    <3>1. op[r].target \in Int /\ Legs(op[r].target) \in {{}, Changes(r)}
      <4>1. op[r] \in Menu
        BY <1>3, <2>1 DEF Typed, IInv, QuietInv
      <4> QED BY <2>1, <2>3, <4>1, MenuAssumption DEF PairPlanned, EditsPair
    <3>2. PICK t \in Int : t = op[r].target
      BY <3>1
    <3>3. Fresh[q][1] # t
      BY <1>0, <1>3, <2>1, <2>3, <3>2 DEF RowInv, FreshInv, Unaware, Inserts
    <3>4. EditsPair(op[q]) => Changes(q) # {}
      BY <1>0 DEF PairPlanned
    <3>5. Legs(t)' \in {{}, Changes(r)}
      BY <3>1, <3>2, <3>3, <3>4, LegsAfter
    <3> QED BY <1>0, <3>2, <3>5
  <2> QED BY <1>0, <2>1, <2>2, <2>3 DEF PairPlanned
<1> QED BY <1>2, <1>3 DEF PairInv

LEMMA NextPairInv == Typed /\ RowInv /\ PairInv /\ [Next]_vars => PairInv'
<1> SUFFICES ASSUME Typed, RowInv, PairInv, [Next]_vars PROVE PairInv'
  OBVIOUS
<1>1. ASSUME NEW p \in Txs, NEW o \in book.menu, Begin(p, o) PROVE PairInv'
  <2>1. o \in Menu
    BY DEF Menu, Typed
  <2> QED BY <1>1, <2>1, BeginPairInv
<1>2. ASSUME NEW p \in Txs, Advance(p) \/ GiveUp(p) PROVE PairInv'
  BY <1>2, ReadPairPairInv, OthersPairInv, CommitPairInv DEF Advance
<1>3. CASE UNCHANGED vars
  BY <1>3 DEF vars, PairInv, PairPlanned, Changes, Legs
<1> QED BY <1>1, <1>2, <1>3 DEF Next

\* A transfer is two legs of opposite amounts on two accounts, through every race of edits and
\* removals of the pair, of either leg, and of the accounts they are on.
THEOREM PairsStayMirrored == Spec => []PairsAreMirrored
<1>1. Init => Typed /\ RowInv /\ PairInv
  BY InitTyped, InitRowInv, InitPairInv
<1>2. (Typed /\ RowInv /\ PairInv) /\ [Next]_vars => (Typed /\ RowInv /\ PairInv)'
  BY NextTyped, NextRowInv, NextPairInv
<1>3. PairInv => PairsAreMirrored
  BY DEF PairInv, PairsAreMirrored
<1> QED BY <1>1, <1>2, <1>3, PTL DEF Spec

-----------------------------------------------------------------------------
(* Waiting *)

\* Whoever writes the account row itself holds the account alone: nobody is in the way.
LEMMA NobodyInTheWay ==
  ASSUME Typed, NEW p \in Txs, NEW q \in Txs, step[p] = "write" PROVE ~InTheWay(q, p)
<1> SUFFICES ASSUME InTheWay(q, p) PROVE FALSE
  OBVIOUS
<1>1. Alone(p) /\ q # p /\ op[p].account \in held[q]
  BY DEF InTheWay, WritesAccount, Alone, Judges
<1>2. op[p].account \in held[p] /\ op[p].account \in Accounts
  BY <1>1 DEF Typed, TypeOK, IInv, QuietInv, PlanInv, Planned
<1> QED BY <1>1, <1>2 DEF Typed, IInv, HeldInv, Blocks

\* The row p is about to write; the account it is about to lock.
NextOf(S) == CHOOSE x \in First(S) : TRUE

LEMMA NextOfIs ==
  ASSUME NEW S \in SUBSET Int, First(S) # {}
  PROVE  First(S) = {NextOf(S)} /\ NextOf(S) \in S
<1>1. PICK x : x \in First(S)
  OBVIOUS
<1>2. \A y \in First(S) : y = x
  BY <1>1 DEF First
<1>3. First(S) = {x}
  BY <1>1, <1>2
<1> QED BY <1>3 DEF NextOf, First

\* Were everybody in S waiting for somebody in S: those that write wait for one another, each
\* for a row that comes before all the other has still to write, so the one whose next row is
\* the largest waits for nobody; and if none writes, the same holds for the accounts.
THEOREM NeverInACircle == Spec => []NoDeadlock
<1>1. ASSUME Typed, RowInv, NEW S \in (SUBSET Txs) \ {{}}, \A p \in S : \E q \in S : WaitsFor(p, q)
      PROVE  FALSE
  <2> DEFINE W == {p \in S : step[p] = "write"}
             L == {p \in S : step[p] = "lock"}
  <2>1. IsFiniteSet(S) /\ IsFiniteSet(W) /\ IsFiniteSet(L)
    BY LedgerAssumption, FS_Subset
  <2>2. ASSUME NEW p \in W
        PROVE  /\ First(Pending(p)) = {NextOf(Pending(p))} /\ NextOf(Pending(p)) \in Int
               /\ \E q \in W : NextOf(Pending(p)) \in written[q]
    <3>0. p \in Txs /\ step[p] = "write"
      BY <1>1
    <3>1. PICK q \in S : WaitsFor(p, q)
      BY <1>1
    <3>2. NextRow(p) \cap written[q] # {}
      BY <1>1, <3>0, <3>1, NobodyInTheWay DEF WaitsFor
    <3>3. Pending(p) \in SUBSET Int /\ First(Pending(p)) # {}
      BY <3>2, LedgerAssumption DEF Pending, NextRow
    <3>4. First(Pending(p)) = {NextOf(Pending(p))} /\ NextOf(Pending(p)) \in Int
      BY <3>3, NextOfIs
    <3>5. NextOf(Pending(p)) \in written[q]
      BY <3>2, <3>4 DEF NextRow
    <3>6. q \in W
      BY <1>1, <3>1, <3>5 DEF RowInv, WrittenInv, Writes
    <3> QED BY <3>4, <3>5, <3>6
  <2>3. W = {}
    <3>1. SUFFICES ASSUME W # {} PROVE FALSE
      OBVIOUS
    <3> DEFINE f == [p \in W |-> NextOf(Pending(p))]
    <3>2. f \in [W -> Int]
      BY <2>2
    <3> HIDE DEF f, W
    <3>3. PICK p \in W : \A q \in W : f[q] <= f[p]
      BY <2>1, <3>1, <3>2, SomeoneHasMost
    <3>4. PICK q \in W : NextOf(Pending(p)) \in written[q]
      BY <2>2
    <3>5. NextOf(Pending(q)) \in Pending(q)
      BY <2>2 DEF First
    <3>6. NextOf(Pending(p)) < NextOf(Pending(q))
      <4>1. Writes(q)
        BY <1>1 DEF RowInv, WrittenInv, W
      <4> QED BY <3>4, <3>5, <4>1 DEF Writes
    <3>7. f[p] = NextOf(Pending(p)) /\ f[q] = NextOf(Pending(q))
      BY DEF f
    <3> QED BY <3>2, <3>3, <3>6, <3>7
  <2>4. L = S
    BY <1>1, <2>3 DEF WaitsFor
  <2>5. ASSUME NEW p \in S
        PROVE  /\ First(want[p]) = {NextOf(want[p])} /\ NextOf(want[p]) \in want[p] \cap Int
               /\ \E q \in S : NextOf(want[p]) \in held[q]
    <3>1. PICK q \in S : WaitsFor(p, q)
      BY <1>1
    <3>2. step[p] = "lock"
      BY <2>4
    <3>3. PICK a \in First(want[p]) : Blocks(q, p, a)
      BY <3>1, <3>2 DEF WaitsFor
    <3>4. want[p] \in SUBSET Int
      BY <1>1, LedgerAssumption DEF Typed, TypeOK
    <3>5. First(want[p]) = {NextOf(want[p])} /\ NextOf(want[p]) \in want[p]
      BY <3>3, <3>4, NextOfIs
    <3> QED BY <3>3, <3>4, <3>5 DEF Blocks
  <2> DEFINE g == [p \in S |-> NextOf(want[p])]
  <2>6. g \in [S -> Int] /\ S # {}
    BY <2>5
  <2> HIDE DEF g
  <2>7. PICK p \in S : \A q \in S : g[q] <= g[p]
    BY <2>1, <2>6, SomeoneHasMost
  <2>8. PICK q \in S : NextOf(want[p]) \in held[q]
    BY <2>5
  <2>9. NextOf(want[p]) < NextOf(want[q])
    BY <1>1, <2>5, <2>8 DEF RowInv, OrderInv
  <2>10. g[p] = NextOf(want[p]) /\ g[q] = NextOf(want[q])
    BY DEF g
  <2> QED BY <2>6, <2>7, <2>9, <2>10
<1>2. Typed /\ RowInv => NoDeadlock
  BY <1>1 DEF NoDeadlock
<1> QED BY <1>2, AlwaysRows, PTL

-----------------------------------------------------------------------------
(* What is judged under a lock is still so at the commit *)

\* Nothing lands on an account the committing transaction has not locked; and unless it takes
\* away a row it read before it locked, it leaves the account as it is.
LEMMA NothingLands ==
  ASSUME Typed, RowInv, NEW q \in Txs, Commit(q), NEW a \in Accounts, a \notin held[q],
         accounts[a] # "absent"
  PROVE  On(a)' \subseteq On(a) /\ \A e \in On(a)' : entries'[e] = entries[e]
<1>1. SUFFICES ASSUME NEW e \in On(a)', e \in Changes(q) PROVE FALSE
  BY CommitRows DEF On, Rows
<1>2. /\ e \in Entries /\ plan[q][e] \notin {Keep, NoEntry} /\ plan[q][e].account = a
      /\ step[q] = "write" /\ want[q] = {}
  BY <1>1, CommitRows DEF On, Rows, Changes
<1>3. IF op[q].kind = "open" THEN a = op[q].account ELSE a \in held[q]
  BY <1>2 DEF Typed, IInv, PlanInv, Planned
<1> QED BY <1>2, <1>3 DEF RowInv, OpenInv

LEMMA SameRowsSameBalance ==
  ASSUME NEW a, On(a)' = On(a), \A e \in On(a) : entries'[e] = entries[e]
  PROVE  Balance(a)' = Balance(a)
<1>1. [e \in On(a)' |-> entries'[e].amount] = [e \in On(a) |-> entries[e].amount]
  OBVIOUS
<1> QED BY <1>1 DEF Balance

LEMMA QuietAccount ==
  ASSUME Typed, RowInv, NEW q \in Txs, Commit(q), NEW a \in Accounts, a \notin held[q],
         accounts[a] # "absent", \A e \in On(a) : plan[q][e] = Keep
  PROVE  /\ On(a)' = On(a) /\ \A e \in On(a) : entries'[e] = entries[e]
         /\ Balance(a)' = Balance(a)
<1>1. \A e \in On(a) : entries'[e] = entries[e] /\ e \in On(a)'
  BY CommitRows DEF On, Rows, Changes
<1>2. On(a)' = On(a)
  BY <1>1, NothingLands
<1> QED BY <1>1, <1>2, SameRowsSameBalance

\* What a judge has seen, it will still see when it commits: the archived account's balance is
\* zero, the account whose opening is corrected has no record, and the declared balance is the
\* one counted plus the difference.
Settled(p) ==
  /\ op[p].kind = "archive" /\ op[p].account \notin overtaken => Balance(op[p].account) = 0
  /\ op[p].kind = "opening" =>
       /\ \A e \in On(op[p].account) : entries[e].system
       /\ Changes(p) \subseteq On(op[p].account)
  /\ op[p].kind = "reconcile" /\ op[p].account \notin overtaken =>
       plan[p] = IF Difference(p) = 0 THEN NoPlan
                 ELSE [NoPlan EXCEPT ![Fresh[p][1]] = Record(op[p].account, Difference(p))]

SettledInv ==
  /\ ArchivedIsSettled
  /\ \A p \in Txs : step[p] = "write" => Settled(p)

LEMMA InitSettledInv == Init => SettledInv
BY DEF Init, SettledInv, ArchivedIsSettled

LEMMA PrivateSettledInv ==
  ASSUME SettledInv, NEW p \in Txs, Private(p), overtaken \subseteq overtaken',
         step'[p] = "write" => Settled(p)'
  PROVE  SettledInv'
<1>1. \A a \in Accounts : Balance(a)' = Balance(a) /\ On(a)' = On(a)
  BY DEF Private, Balance, On, Rows
<1>2. ArchivedIsSettled'
  BY <1>1 DEF Private, SettledInv, ArchivedIsSettled
<1>3. ASSUME NEW r \in Txs \ {p}, step'[r] = "write" PROVE Settled(r)'
  <2>1. /\ Settled(r) /\ op'[r] = op[r] /\ plan'[r] = plan[r] /\ entries' = entries
        /\ Changes(r)' = Changes(r)
    BY <1>3 DEF Private, SettledInv, Changes
  <2>2. /\ Balance(op[r].account)' = Balance(op[r].account) /\ On(op[r].account)' = On(op[r].account)
        /\ Difference(r)' = Difference(r)
    BY <2>1 DEF Balance, On, Rows, Difference
  <2> QED BY <2>1, <2>2 DEF Settled
<1> QED BY <1>2, <1>3 DEF SettledInv

LEMMA OwnSettledInv ==
  ASSUME Typed, SettledInv, NEW p \in Txs, overtaken \subseteq overtaken',
         \/ \E o \in Menu : Begin(p, o)
         \/ GiveUp(p) \/ ReadRow(p) \/ ReadPair(p) \/ Hold(p) \/ WriteRow(p)
         \/ Proceed(p) \/ JudgeArchive(p) \/ JudgeOpening(p) \/ JudgeReconcile(p)
  PROVE  SettledInv'
<1>1. Private(p)
  BY PrivateSteps DEF Typed
<1>2. entries' = entries /\ (op' = op \/ op'[p].kind = "open" \/ step'[p] # "write")
  BY <1>1 DEF Private, Begin, GiveUp, ReadRow, ReadPair, Hold, WriteRow, Proceed, JudgeArchive,
     JudgeOpening, JudgeReconcile, Judged, Typed, TypeOK
<1>3. op' = op =>
        /\ Balance(op[p].account)' = Balance(op[p].account) /\ On(op[p].account)' = On(op[p].account)
        /\ Difference(p)' = Difference(p)
  BY <1>2 DEF Balance, On, Rows, Difference
<1>4. ASSUME step'[p] = "write" PROVE Settled(p)'
  <2>1. CASE \E o \in Menu : Begin(p, o)
    BY <1>4, <2>1 DEF Begin, Typed, TypeOK, Settled
  <2>2. CASE GiveUp(p) \/ ReadRow(p) \/ ReadPair(p) \/ Hold(p)
    BY <1>4, <2>2 DEF GiveUp, Release, ReadRow, ReadPair, Hold, Typed, TypeOK
  <2>3. CASE WriteRow(p)
    <3>1. op' = op /\ plan' = plan /\ Settled(p)
      BY <2>3 DEF WriteRow, SettledInv
    <3> QED BY <1>2, <1>3, <3>1 DEF Settled, Changes
  <2>4. CASE Proceed(p)
    BY <2>4 DEF Proceed, Judged, Settled
  <2>5. CASE JudgeArchive(p)
    BY <1>2, <1>3, <2>5 DEF JudgeArchive, Judged, Settled
  <2>6. CASE JudgeOpening(p)
    <3>1. PICK e \in On(op[p].account) :
             plan' = [plan EXCEPT ![p] = [NoPlan EXCEPT ![e] = Opening(op[p].account, op[p].amount)]]
      BY <2>6 DEF JudgeOpening, Judged
    <3>2. plan'[p] = [NoPlan EXCEPT ![e] = Opening(op[p].account, op[p].amount)]
      BY <3>1 DEF Typed, TypeOK
    <3>3. \A f \in Entries : plan'[p][f] # Keep => f = e
      BY <3>2 DEF NoPlan
    <3>4. Changes(p)' \subseteq {e}
      BY <3>3 DEF Changes
    <3> QED BY <1>2, <1>3, <2>6, <3>4 DEF JudgeOpening, Judged, Settled
  <2>7. CASE JudgeReconcile(p)
    <3>1. op' = op /\ op[p].kind = "reconcile"
          /\ plan'[p] = IF Difference(p) = 0 THEN NoPlan
                        ELSE [NoPlan EXCEPT ![Fresh[p][1]] = Record(op[p].account, Difference(p))]
      BY <2>7 DEF JudgeReconcile, Judged, Typed, TypeOK
    <3> HIDE DEF Difference
    <3> QED BY <1>3, <3>1 DEF Settled
  <2> QED BY <2>1, <2>2, <2>3, <2>4, <2>5, <2>6, <2>7
<1> QED BY <1>1, <1>4, PrivateSettledInv

LEMMA CommitSettledInv ==
  ASSUME Typed, RowInv, SettledInv, NEW q \in Txs, Commit(q),
         overtaken' = overtaken \union {a \in Accounts : \E p \in Txs : Overtaken(p, a)}
  PROVE  SettledInv'
<1>0. /\ step[q] = "write" /\ want[q] = {} /\ op' = op /\ op[q] \in Menu
      /\ \A e \in Entries : entries'[e] = IF e \in Changes(q) THEN plan[q][e] ELSE entries[e]
      /\ step' = [step EXCEPT ![q] = "committed"] /\ plan' = [plan EXCEPT ![q] = NoPlan]
      /\ step'[q] = "committed" /\ Settled(q)
  BY CommitRows DEF Typed, TypeOK, SettledInv
<1>1. \A a \in Accounts \ overtaken' :
        a \notin overtaken /\ (a \notin held[q] => \A e \in On(a) : plan[q][e] = Keep)
  BY <1>0 DEF Overtaken
<1>2. ASSUME NEW a \in Accounts \ overtaken', accounts'[a] = "archived" PROVE Balance(a)' = 0
  <2>1. CASE op[q].kind = "archive" /\ op[q].account = a
    <3>1. \A e \in Entries : plan[q][e] = Keep
      BY <1>0, <2>1 DEF Typed, IInv, PlanInv, Planned
    <3>2. On(a)' = On(a) /\ \A e \in On(a) : entries'[e] = entries[e]
      BY <1>0, <3>1 DEF On, Rows, Changes
    <3>3. Balance(a)' = Balance(a)
      BY <3>2, SameRowsSameBalance
    <3> QED BY <1>0, <1>1, <1>2, <2>1, <3>3 DEF Settled
  <2>2. CASE ~(op[q].kind = "archive" /\ op[q].account = a)
    <3>1. accounts[a] = "archived"
      BY <1>2, <2>2 DEF Commit, Typed, TypeOK
    <3>2. a \notin held[q]
      BY <3>1 DEF Typed, IInv, HeldInv
    <3>3. Balance(a)' = Balance(a)
      BY <1>1, <1>2, <3>1, <3>2, QuietAccount
    <3> QED BY <1>1, <1>2, <3>1, <3>3 DEF SettledInv, ArchivedIsSettled
  <2> QED BY <2>1, <2>2
<1>3. ASSUME NEW r \in Txs, step'[r] = "write" PROVE Settled(r)'
  <2>1. r # q /\ step[r] = "write" /\ plan'[r] = plan[r] /\ Settled(r) /\ op[r] \in Menu
        /\ Changes(r)' = Changes(r)
    BY <1>0, <1>3 DEF Typed, TypeOK, IInv, QuietInv, SettledInv, Changes
  <2>2. CASE op[r].kind \notin {"archive", "opening", "reconcile"}
    BY <1>0, <2>2 DEF Settled
  <2>3. CASE op[r].kind \in {"archive", "opening", "reconcile"}
    <3>1. PICK a \in Accounts : a = op[r].account
      BY <2>1, <2>3, MenuAssumption
    <3>2. Alone(r) /\ a \in held[r] /\ accounts[a] = "open" /\ a \notin held[q]
      <4>1. Alone(r) /\ a \in held[r]
        BY <2>1, <2>3, <3>1 DEF Alone, Judges, Typed, IInv, QuietInv, PlanInv, Planned
      <4> QED BY <2>1, <4>1 DEF Typed, IInv, HeldInv, Blocks
    <3>3. a \notin overtaken' => Balance(a)' = Balance(a) /\ a \notin overtaken
      BY <1>1, <3>2, QuietAccount
    <3>4. CASE op[r].kind = "archive"
      BY <1>0, <2>1, <3>1, <3>3, <3>4 DEF Settled
    <3>5. CASE op[r].kind = "reconcile"
      <4>1. ASSUME a \notin overtaken' PROVE Difference(r)' = Difference(r)
        BY <1>0, <3>1, <3>3, <4>1 DEF Difference
      <4> HIDE DEF Difference
      <4> QED BY <1>0, <2>1, <3>1, <3>3, <3>5, <4>1 DEF Settled
    <3>6. CASE op[r].kind = "opening"
      <4>1. /\ \A e \in On(a) : entries[e].system
            /\ Changes(r) \subseteq On(a)
        BY <2>1, <3>1, <3>6 DEF Settled
      <4>2. \A e \in On(a)' : entries'[e].system
        BY <3>2, <4>1, NothingLands
      <4>3. ASSUME NEW e \in Changes(r) PROVE e \in On(a)'
        <5>1. e \in On(a) /\ entries[e].system /\ e \in Rows(entries) /\ entries[e] # NoEntry
          BY <4>1 DEF On, Rows
        <5>2. e \notin Changes(q)
          <6>1. SUFFICES ASSUME e \in Changes(q) PROVE FALSE
            OBVIOUS
          <6>2. op[q].kind = "opening"
            BY <5>1, <6>1, CommitRows DEF RowInv, EditInv, Edits
          <6>3. op[q].account = a
            BY <1>0, <5>1, <6>1, <6>2 DEF Settled, On
          <6>4. a \in held[q]
            BY <1>0, <6>2, <6>3 DEF Alone, Judges, Typed, IInv, PlanInv, Planned
          <6> QED BY <3>2, <6>4
        <5> QED BY <1>0, <5>1, <5>2 DEF On, Rows
      <4> QED BY <1>0, <2>1, <3>1, <3>6, <4>2, <4>3 DEF Settled
    <3> QED BY <2>3, <3>4, <3>5, <3>6
  <2> QED BY <2>2, <2>3
<1> QED BY <1>2, <1>3 DEF SettledInv, ArchivedIsSettled

LEMMA NextSettledInv == Typed /\ RowInv /\ SettledInv /\ [Next]_vars => SettledInv'
<1> SUFFICES ASSUME Typed, RowInv, SettledInv, [Next]_vars PROVE SettledInv'
  OBVIOUS
<1>1. CASE Next
  <2>1. overtaken' = overtaken \union {a \in Accounts : \E p \in Txs : Overtaken(p, a)}
    BY <1>1 DEF Next
  <2>2. ASSUME NEW p \in Txs, NEW o \in book.menu, Begin(p, o) PROVE SettledInv'
    <3>1. o \in Menu
      BY DEF Menu, Typed
    <3> QED BY <2>1, <2>2, <3>1, OwnSettledInv
  <2>3. ASSUME NEW p \in Txs, Advance(p) \/ GiveUp(p) PROVE SettledInv'
    <3>1. CASE Commit(p)
      BY <2>1, <3>1, CommitSettledInv
    <3>2. CASE ~Commit(p)
      <4>1. \/ \E o \in Menu : Begin(p, o)
            \/ GiveUp(p) \/ ReadRow(p) \/ ReadPair(p) \/ Hold(p) \/ WriteRow(p)
            \/ Proceed(p) \/ JudgeArchive(p) \/ JudgeOpening(p) \/ JudgeReconcile(p)
        BY <2>3, <3>2 DEF Advance
      <4>2. overtaken \subseteq overtaken'
        BY <2>1
      <4> QED BY <4>1, <4>2, OwnSettledInv
    <3> QED BY <3>1, <3>2
  <2> QED BY <1>1, <2>2, <2>3 DEF Next
<1>2. CASE UNCHANGED vars
  <2>1. \A a : Balance(a)' = Balance(a) /\ On(a)' = On(a)
    BY <1>2 DEF vars, Balance, On, Rows
  <2>2. \A p \in Txs : /\ Balance(op[p].account)' = Balance(op[p].account)
                       /\ On(op[p].account)' = On(op[p].account)
                       /\ Difference(p)' = Difference(p) /\ Changes(p)' = Changes(p)
    BY <1>2 DEF vars, Balance, On, Rows, Difference, Changes
  <2> QED BY <1>2, <2>1, <2>2 DEF vars, SettledInv, ArchivedIsSettled, Settled
<1> QED BY <1>1, <1>2

SettledAll == Typed /\ RowInv /\ SettledInv

LEMMA AlwaysSettled == Spec => []SettledAll
<1>1. Init => SettledAll
  BY InitTyped, InitRowInv, InitSettledInv DEF SettledAll
<1>2. SettledAll /\ [Next]_vars => SettledAll'
  BY NextTyped, NextRowInv, NextSettledInv DEF SettledAll
<1> QED BY <1>1, <1>2, PTL DEF Spec

\* An archived account keeps the balance of zero it was put away with, unless a record that had
\* moved onto it between its read and its locks is taken away or rewritten.
THEOREM ArchivedStaysSettled == Spec => []ArchivedIsSettled
<1>1. SettledAll => ArchivedIsSettled
  BY DEF SettledAll, SettledInv
<1> QED BY <1>1, AlwaysSettled, PTL

\* Only a commit changes a row, and only its own transaction's step ends it.
LEMMA OnlyCommits ==
  ASSUME Typed, Next, entries' # entries \/ \E p \in Txs : step[p] # "committed" /\ step'[p] = "committed"
  PROVE  \E q \in Txs :
           Commit(q) /\ \A p \in Txs : step[p] # "committed" /\ step'[p] = "committed" => p = q
<1>1. PICK p \in Txs : (\E o \in book.menu : Begin(p, o)) \/ Advance(p) \/ GiveUp(p)
  BY DEF Next
<1>2. CASE Commit(p)
  BY <1>2, CommitRows DEF Commit, Release, Typed, TypeOK
<1>3. CASE ~Commit(p)
  <2>1. entries' = entries
    BY <1>1, <1>3 DEF Advance, Begin, GiveUp, ReadRow, ReadPair, Hold, Proceed,
       JudgeArchive, JudgeOpening, JudgeReconcile, Judged, WriteRow
  <2>2. \A r \in Txs : step'[r] = "committed" => step[r] = "committed"
    <3>1. CASE \E o \in book.menu : Begin(p, o)
      BY <3>1 DEF Begin, Typed, TypeOK
    <3>2. CASE GiveUp(p)
      BY <3>2 DEF GiveUp, Release, Typed, TypeOK
    <3>3. CASE ReadRow(p) \/ ReadPair(p) \/ Hold(p) \/ WriteRow(p)
      BY <3>3 DEF ReadRow, ReadPair, Hold, WriteRow, Typed, TypeOK
    <3>4. CASE Proceed(p) \/ JudgeArchive(p) \/ JudgeOpening(p) \/ JudgeReconcile(p)
      BY <3>4 DEF Proceed, JudgeArchive, JudgeOpening, JudgeReconcile, Judged, Typed, TypeOK
    <3> QED BY <1>1, <1>3, <3>1, <3>2, <3>3, <3>4 DEF Advance
  <2> QED BY <2>1, <2>2
<1> QED BY <1>2, <1>3

\* The opening balance is settled by the account's first record: no correction that counted
\* before a record landed goes through after it.
THEOREM OpeningStaysFrozen == Spec => OpeningIsFrozen
<1> DEFINE Frozen == \A e \in Rows(entries) : entries[e].system /\ entries'[e] # entries[e] =>
                       \A f \in On(entries[e].account) : entries[f].system
<1>1. ASSUME SettledAll, Next PROVE Frozen
  <2>1. SUFFICES ASSUME NEW e \in Rows(entries), entries[e].system, entries'[e] # entries[e]
                 PROVE  \A f \in On(entries[e].account) : entries[f].system
    OBVIOUS
  <2>2. PICK q \in Txs : Commit(q)
    BY <1>1, <2>1, OnlyCommits DEF SettledAll
  <2>3. e \in Changes(q) /\ step[q] = "write" /\ entries[e] # NoEntry
    BY <1>1, <2>1, <2>2, CommitRows DEF SettledAll, Rows
  <2>4. op[q].kind = "opening"
    BY <1>1, <2>1, <2>2, <2>3, CommitRows DEF SettledAll, RowInv, EditInv, Edits
  <2>5. entries[e].account = op[q].account /\ \A f \in On(op[q].account) : entries[f].system
    BY <1>1, <2>3, <2>4 DEF SettledAll, SettledInv, Settled, On
  <2> QED BY <2>5
<1>2. SettledAll /\ [Next]_vars => [Frozen]_vars
  BY <1>1
<1> QED BY <1>2, AlwaysSettled, PTL DEF Spec, OpeningIsFrozen

\* A reconciliation leaves the balance that was declared: no record is counted twice or missed
\* between the count and the commit, and the row it adds is the one the sum lacked.
THEOREM ReconciledIsDeclared == Spec => ReconcileSettles
<1> DEFINE Declared == \A p \in Txs :
             (op[p].kind = "reconcile" /\ op[p].account \notin overtaken
                /\ step[p] = "write" /\ step'[p] = "committed") =>
               Balance(op[p].account)' = op[p].amount
<1>1. ASSUME SettledAll, SettledAll', Next PROVE Declared
  <2>1. SUFFICES ASSUME NEW p \in Txs, op[p].kind = "reconcile", op[p].account \notin overtaken,
                        step[p] = "write", step'[p] = "committed"
                 PROVE  Balance(op[p].account)' = op[p].amount
    OBVIOUS
  <2>2. Commit(p)
    BY <1>1, <2>1, OnlyCommits DEF SettledAll
  <2>3. /\ op[p] \in Menu /\ op' = op
        /\ \A e \in Entries : entries'[e] = IF e \in Changes(p) THEN plan[p][e] ELSE entries[e]
        /\ \A e \in Changes(p) : entries[e] = NoEntry
    BY <1>1, <2>1, <2>2, CommitRows DEF SettledAll, Mints
  <2>4. PICK a \in Accounts : a = op[p].account
    BY <2>1, <2>3, MenuAssumption
  <2>5. op[p].amount \in Int /\ Balance(a) \in Int
    BY <1>1, <2>1, <2>3, MenuAssumption, BalanceIs DEF SettledAll, Typed
  <2> DEFINE d == Difference(p)
  <2>6. d = op[p].amount - Balance(a) /\ d \in Int
    BY <2>4, <2>5 DEF Difference
  <2>7. plan[p] = IF d = 0 THEN NoPlan ELSE [NoPlan EXCEPT ![Fresh[p][1]] = Record(a, d)]
    BY <1>1, <2>1, <2>4 DEF SettledAll, SettledInv, Settled
  <2> HIDE DEF d
  <2>8. Balance(a)' = op[p].amount
    <3>1. CASE d = 0
      <4>1. \A e \in Entries : e \notin Changes(p)
        BY <2>7, <3>1 DEF Changes, NoPlan
      <4>2. On(a)' = On(a) /\ \A e \in On(a) : entries'[e] = entries[e]
        BY <2>3, <4>1 DEF On, Rows
      <4>3. Balance(a)' = Balance(a)
        BY <4>2, SameRowsSameBalance
      <4> QED BY <2>5, <2>6, <3>1, <4>3
    <3>2. CASE d # 0
      <4> DEFINE i == Fresh[p][1]
                 f == AmountsOn(a)'
      <4>1. i \in Entries /\ Record(a, d) \notin {Keep, NoEntry}
        BY <2>6, FreshIds, RowKinds
      <4>2. \A e \in Entries : plan[p][e] = IF e = i THEN Record(a, d) ELSE Keep
        BY <2>7, <3>2, <4>1 DEF NoPlan
      <4>3. Changes(p) = {i}
        BY <4>1, <4>2 DEF Changes
      <4>4. /\ entries'[i] = Record(a, d) /\ entries[i] = NoEntry
            /\ \A e \in Entries \ {i} : entries'[e] = entries[e]
        BY <2>3, <4>1, <4>2, <4>3
      <4>5. Record(a, d).account = a /\ Record(a, d).amount = d
        BY DEF Record
      <4>6. On(a)' = On(a) \union {i} /\ i \notin On(a)
        BY <4>1, <4>4, <4>5 DEF On, Rows
      <4>7. /\ IsFiniteSet(On(a)') /\ f \in [On(a)' -> Int]
            /\ Balance(a)' = SumFunctionOnSet(f, On(a)')
        <5>1. TypeOK'
          BY <1>1 DEF SettledAll, Typed
        <5>2. IsFiniteSet(On(a)')
          BY FS_Subset, LedgerAssumption DEF On, Rows
        <5>3. AmountsOn(a)' \in [On(a)' -> Int]
          BY <5>1 DEF AmountsOn, On, Rows, TypeOK, Entry
        <5>4. Balance(a)' = SumFunctionOnSet(AmountsOn(a)', On(a)')
          BY DEF Balance, SumFunction, AmountsOn
        <5> QED BY <5>2, <5>3, <5>4
      <4>8. f[i] = d /\ \A e \in On(a) : f[e] = AmountsOn(a)[e]
        BY <4>4, <4>5, <4>6 DEF AmountsOn, On, Rows
      <4> HIDE DEF f, i
      <4>9. i \in On(a)' /\ On(a)' \ {i} = On(a)
        BY <4>6
      <4>10. SumFunctionOnSet(f, On(a)') = d + SumFunctionOnSet(f, On(a))
        BY <4>7, <4>8, <4>9, SumSplits
      <4>11. IsFiniteSet(On(a)) /\ SumFunctionOnSet(AmountsOn(a), On(a)) = Balance(a)
        BY <1>1, BalanceIs DEF SettledAll, Typed
      <4>12. SumFunctionOnSet(f, On(a)) = Balance(a)
        BY <4>8, <4>11, SumAgrees
      <4> QED BY <2>5, <2>6, <4>7, <4>10, <4>12
    <3> QED BY <3>1, <3>2
  <2> QED BY <2>3, <2>4, <2>8
<1>2. SettledAll /\ SettledAll' /\ [Next]_vars => [Declared]_vars
  BY <1>1
<1> QED BY <1>2, AlwaysSettled, PTL DEF Spec, ReconcileSettles
=============================================================================
