---------------------------- MODULE ReadingProofs ----------------------------
(***************************************************************************)
(* What is read for a request and by a reader.  First the one budget that  *)
(* scopes a request: what RequestScope.cfg checks on three operations and  *)
(* one mutation, for any operations, budgets and number of mutations.      *)
(* Then the feed: what Feed.cfg checks on three records, for any records,  *)
(* days, page size, writes and readings.                                   *)
(***************************************************************************)
EXTENDS RequestScope, Feed, FiniteSetTheorems, SequenceTheorems, TLAPS

Pure == INSTANCE PureProofs WITH None <- NoBudget

(* The marker, the source and the transaction open and close together, and  *)
(* what a mutation made active is known once it commits.                    *)
Bracket ==
  /\ mutation.open => mutation.n > 0 /\ marked = {mutation.n}
  /\ ~mutation.open => marked = {} /\ mutation.tx = NoTx
  /\ mutation.wrote => mutation.tx # NoTx /\ mutation.made \in Budgets
  /\ mutation.tx = "committed" /\ mutation.wrote => mutation.made \in ever
  /\ active \in ever

(* The memo: a lookup in flight leaves no budget, one that answered is it,  *)
(* and what waits for a lookup was issued after the same failures.          *)
Memo ==
  /\ \A o \in Ops :
       /\ since[o] <= fails /\ flight[o].via <= mutation.n
       /\ flight[o].st \in {"none", "flying"} => flight[o].val = NoBudget
       /\ ops[o].st = "new" => flight[o].st = "none" /\ lookup # o /\ o \notin beside
       /\ ops[o].st = "waiting" =>
            /\ ops[o].on \in Ops /\ flight[ops[o].on].st # "none"
            /\ since[ops[o].on] = since[o]
  /\ lookup # NoLookup =>
       /\ flight[lookup].st # "none" /\ since[lookup] = fails
       /\ flight[lookup].st # "settled" => id = NoBudget

(* x, an operation or the lookup it started, settled on budget b.           *)
Gives(x, b) ==
  /\ b \in Budgets
  /\ \/ ops[x].st \in {"ready", "ran"} /\ ops[x].kind \in Scoped /\ ops[x].budget = b
     \/ flight[x].st = "settled" /\ flight[x].val = b

Agreed ==
  /\ \A x \in Ops, b \in Budgets : Gives(x, b) /\ since[x] = fails => id = b
  /\ \A x, y \in Ops, b, c \in Budgets :
       Gives(x, b) /\ Gives(y, c) /\ since[x] = since[y] => b = c
  /\ \A o \in Ops :
       ops[o].st \in {"ready", "ran"} /\ ops[o].kind \in Scoped => ops[o].budget \in Budgets

(* A budget in the memo, or on its way there, is committed or the open      *)
(* mutation's own.                                                          *)
Known(b) == b \in ever \/ (mutation.open /\ mutation.wrote /\ b = mutation.made)
Provenance ==
  /\ id \in Budgets => Known(id)
  /\ \A l \in Ops : since[l] = fails /\ flight[l].val \in Budgets => Known(flight[l].val)
  /\ \A o \in beside :
       /\ ops[o].st \in {"ready", "ran"} /\ ops[o].kind \in Scoped => ops[o].budget \in ever
       /\ ops[o].st = "waiting" =>
            /\ flight[ops[o].on].val \in Budgets => flight[ops[o].on].val \in ever
            /\ flight[ops[o].on].st = "flying" =>
                 flight[ops[o].on].via = 0 \/ ~mutation.open
                   \/ flight[ops[o].on].via # mutation.n

(* An operation the guards let through holds the client they ask for.       *)
Guarded ==
  \A o \in Ops : ops[o].st \in {"waiting", "ready", "ran"} =>
    /\ ops[o].kind \in Writes \/ o \notin beside => ops[o].client # 0
    /\ ops[o].client # 0 => ops[o].client = ops[o].store

IInv == TypeOK /\ Bracket /\ Memo /\ Agreed /\ Provenance /\ Guarded /\ AbsenceIsAskedAgain

USE ScopeAssumption DEF database, ghosts

LEMMA RunInMutationKeeps ==
  ASSUME IInv, RunInMutation
  PROVE  IInv'
<1> USE DEF IInv, TypeOK, RunInMutation, Begins, Idle, NoTx
<1>1. TypeOK'
  <2>1. mutation' = [n |-> mutation.n + 1, open |-> TRUE, source |-> FALSE,
                     tx |-> NoTx, wrote |-> FALSE, made |-> NoBudget]
    OBVIOUS
  <2>2. marked' \subseteq Nat
    OBVIOUS
  <2> QED  BY <2>1, <2>2 DEF OpsOf, Answers
<1>2. Bracket'
  BY DEF Bracket
<1>3. Memo'
  BY DEF Memo, Bracket
<1>4. Agreed'
  BY DEF Agreed, Gives, Memo, Scoped
<1>5. Provenance'
  BY DEF Provenance, Known, Memo, Bracket
<1>6. Guarded'
  BY DEF Guarded, Bracket, Writes
<1>7. AbsenceIsAskedAgain'
  BY DEF AbsenceIsAskedAgain, Memo
<1> QED  BY <1>1, <1>2, <1>3, <1>4, <1>5, <1>6, <1>7

LEMMA UseBudgetSourceKeeps ==
  ASSUME IInv, UseBudgetSource
  PROVE  IInv'
<1> USE DEF IInv, TypeOK, UseBudgetSource, NoTx
<1>1. TypeOK'
  BY DEF OpsOf, Answers
<1>2. Bracket'
  BY DEF Bracket
<1>3. Memo'
  BY DEF Memo, Bracket
<1>4. Agreed'
  BY DEF Agreed, Gives, Memo, Scoped
<1>5. Provenance'
  BY DEF Provenance, Known, Memo, Bracket
<1>6. Guarded'
  BY DEF Guarded, Bracket, Writes
<1>7. AbsenceIsAskedAgain'
  BY DEF AbsenceIsAskedAgain, Memo
<1> QED  BY <1>1, <1>2, <1>3, <1>4, <1>5, <1>6, <1>7

LEMMA ActivatesKeeps ==
  ASSUME NEW b \in Budgets, IInv, Activates(b)
  PROVE  IInv'
<1> USE DEF IInv, TypeOK, Activates, NoTx
<1>1. TypeOK'
  BY DEF OpsOf, Answers
<1>2. Bracket'
  BY DEF Bracket
<1>3. Memo'
  BY DEF Memo, Bracket
<1>4. Agreed'
  BY DEF Agreed, Gives, Memo, Scoped
<1>5. Provenance'
  BY DEF Provenance, Known, Memo, Bracket
<1>6. Guarded'
  BY DEF Guarded, Bracket, Writes
<1>7. AbsenceIsAskedAgain'
  BY DEF AbsenceIsAskedAgain, Memo
<1> QED  BY <1>1, <1>2, <1>3, <1>4, <1>5, <1>6, <1>7

LEMMA CommitTxKeeps ==
  ASSUME IInv, CommitTx
  PROVE  IInv'
<1> USE DEF IInv, TypeOK, CommitTx, NoTx
<1>1. TypeOK'
  BY DEF OpsOf, Answers
<1>2. Bracket'
  BY DEF Bracket
<1>3. Memo'
  BY DEF Memo, Bracket
<1>4. Agreed'
  BY DEF Agreed, Gives, Memo, Scoped
<1>5. Provenance'
  BY DEF Provenance, Known, Memo, Bracket
<1>6. Guarded'
  BY DEF Guarded, Bracket, Writes
<1>7. AbsenceIsAskedAgain'
  BY DEF AbsenceIsAskedAgain, Memo
<1> QED  BY <1>1, <1>2, <1>3, <1>4, <1>5, <1>6, <1>7

LEMMA AbortTxKeeps ==
  ASSUME IInv, AbortTx
  PROVE  IInv'
<1> USE DEF IInv, TypeOK, AbortTx, NoTx
<1>1. TypeOK'
  BY DEF OpsOf, Answers
<1>2. Bracket'
  BY DEF Bracket
<1>3. Memo'
  BY DEF Memo, Bracket
<1>4. Agreed'
  BY DEF Agreed, Gives, Memo, Scoped
<1>5. Provenance'
  BY DEF Provenance, Known, Memo, Bracket
<1>6. Guarded'
  BY DEF Guarded, Bracket, Writes
<1>7. AbsenceIsAskedAgain'
  BY DEF AbsenceIsAskedAgain, Memo
<1> QED  BY <1>1, <1>2, <1>3, <1>4, <1>5, <1>6, <1>7

LEMMA ReturnsKeeps ==
  ASSUME IInv, Returns
  PROVE  IInv'
<1> USE DEF IInv, TypeOK, Returns, Finally, Closes, Idle, NoTx
<1>1. TypeOK'
  <2>1. mutation' \in [n : Nat, open : BOOLEAN, source : BOOLEAN, wrote : BOOLEAN,
                      tx : {NoTx, "live", "committed", "aborted"}, made : Budgets \cup {NoBudget}]
    OBVIOUS
  <2>2. marked' \subseteq Nat
    OBVIOUS
  <2> QED  BY <2>1, <2>2 DEF OpsOf, Answers
<1>2. Bracket'
  BY DEF Bracket
<1>3. Memo'
  BY DEF Memo, Bracket
<1>4. Agreed'
  BY DEF Agreed, Gives, Memo, Scoped
<1>5. Provenance'
  BY DEF Provenance, Known, Memo, Bracket
<1>6. Guarded'
  BY DEF Guarded, Bracket, Writes
<1>7. AbsenceIsAskedAgain'
  BY DEF AbsenceIsAskedAgain, Memo
<1> QED  BY <1>1, <1>2, <1>3, <1>4, <1>5, <1>6, <1>7

LEMMA ThrowsKeeps ==
  ASSUME IInv, Throws
  PROVE  IInv'
<1> USE DEF IInv, TypeOK, Throws, Forgets, Finally, Closes, Idle, NoTx
<1>1. TypeOK'
  <2>1. mutation' \in [n : Nat, open : BOOLEAN, source : BOOLEAN, wrote : BOOLEAN,
                      tx : {NoTx, "live", "committed", "aborted"}, made : Budgets \cup {NoBudget}]
    OBVIOUS
  <2>2. marked' \subseteq Nat
    OBVIOUS
  <2> QED  BY <2>1, <2>2 DEF OpsOf, Answers
<1>2. Bracket'
  BY DEF Bracket
<1>3. Memo'
  BY DEF Memo, Bracket
<1>4. Agreed'
  BY DEF Agreed, Gives, Memo, Scoped
<1>5. Provenance'
  BY DEF Provenance, Known, Memo, Bracket
<1>6. Guarded'
  BY DEF Guarded, Bracket, Writes
<1>7. AbsenceIsAskedAgain'
  BY DEF AbsenceIsAskedAgain, Memo
<1> QED  BY <1>1, <1>2, <1>3, <1>4, <1>5, <1>6, <1>7

LEMMA SwitchElsewhereKeeps ==
  ASSUME NEW b \in Budgets, IInv, SwitchElsewhere(b)
  PROVE  IInv'
<1> USE DEF IInv, TypeOK, SwitchElsewhere
<1>1. TypeOK'
  BY DEF OpsOf, Answers
<1>2. Bracket'
  BY DEF Bracket
<1>3. Memo'
  BY DEF Memo, Bracket
<1>4. Agreed'
  BY DEF Agreed, Gives, Memo, Scoped
<1>5. Provenance'
  BY DEF Provenance, Known, Memo, Bracket
<1>6. Guarded'
  BY DEF Guarded, Bracket, Writes
<1>7. AbsenceIsAskedAgain'
  BY DEF AbsenceIsAskedAgain, Memo
<1> QED  BY <1>1, <1>2, <1>3, <1>4, <1>5, <1>6, <1>7

(* An operation that is issued: refused, let through without a budget,      *)
(* given the memo, sent to wait for a lookup, or sent to look.              *)
LEMMA IssueKeeps ==
  ASSUME NEW o \in Ops, NEW kind \in Kinds, NEW store \in 0..mutation.n,
         NEW client \in {0, store}, IInv, Issue(o, kind, store, client)
  PROVE  IInv'
<1> USE DEF IInv, TypeOK
<1> DEFINE rec(st, on, b) == [st |-> st, kind |-> kind, store |-> store,
                              client |-> client, on |-> on, budget |-> b]
<1>1. /\ ops[o].st = "new" /\ flight[o].st = "none" /\ lookup # o /\ o \notin beside
      /\ \A p \in Ops : ops[p].st = "waiting" => ops[p].on # o
  BY DEF Issue, Memo
<1>2. /\ since'[o] = fails /\ \A p \in Ops : p # o => since'[p] = since[p]
      /\ since' \in [Ops -> Nat]
      /\ \A p \in Ops : p # o => (p \in beside' <=> p \in beside)
      /\ o \in beside' <=> ~mutation.open
      /\ beside' \subseteq Ops
      /\ UNCHANGED <<active, ever, id, mutation, marked, fails>>
  BY <1>1 DEF Issue
<1>3. CASE ops' = [ops EXCEPT ![o] = Refused] /\ UNCHANGED <<lookup, flight>>
  <2>1. TypeOK'
    BY <1>2, <1>3 DEF OpsOf, Answers, Refused, Fresh, Kinds, Scoped
  <2>2. /\ ops'[o].st = "refused"
        /\ \A p \in Ops : p # o => ops'[p] = ops[p]
    BY <1>3 DEF Refused, Fresh
  <2>3. Bracket' /\ AbsenceIsAskedAgain'
    BY <1>2, <1>3 DEF Bracket, AbsenceIsAskedAgain
  <2>4. Memo'
    BY <1>1, <1>2, <1>3, <2>2 DEF Memo
  <2>5. Agreed'
    BY <1>1, <1>2, <1>3, <2>2 DEF Agreed, Gives
  <2>6. Provenance'
    BY <1>1, <1>2, <1>3, <2>2 DEF Provenance, Known, Memo
  <2>7. Guarded'
    BY <1>2, <2>2 DEF Guarded
  <2> QED  BY <2>1, <2>3, <2>4, <2>5, <2>6, <2>7
<1>4. ASSUME Admits(kind, store, client)
      PROVE  /\ kind \in Writes \/ o \notin beside' => client # 0
             /\ client # 0 => client = store
  <2>1. kind \in Writes /\ kind \notin {"rawRead", "rawWrite"} => mutation.open
    BY <1>4 DEF Admits, ByTheExtension, InMutation, Bracket
  <2>2. mutation.open => client # 0
    BY <1>4 DEF Admits, ByTheExtension, ByTheRepository, IsTheSource
  <2>3. kind \in {"rawRead", "rawWrite"} /\ ~mutation.open => kind = "rawRead"
    BY <1>4 DEF Admits, ByTheRepository
  <2> QED  BY <1>2, <2>1, <2>2, <2>3 DEF Writes
<1>5. CASE /\ Admits(kind, store, client) /\ kind \notin Scoped
           /\ ops' = [ops EXCEPT ![o] = rec("ready", NoLookup, NoBudget)]
           /\ UNCHANGED <<lookup, flight>>
  <2>1. TypeOK'
    BY <1>2, <1>5 DEF OpsOf, Answers, Bracket
  <2>2. /\ ops'[o].st = "ready" /\ ops'[o].kind = kind /\ kind \notin Scoped
        /\ ops'[o].client = client /\ ops'[o].store = store
        /\ \A p \in Ops : p # o => ops'[p] = ops[p]
    BY <1>5
  <2>3. Bracket' /\ AbsenceIsAskedAgain'
    BY <1>2, <1>5 DEF Bracket, AbsenceIsAskedAgain
  <2>4. Memo'
    BY <1>1, <1>2, <1>5, <2>2 DEF Memo
  <2>5. Agreed'
    BY <1>1, <1>2, <1>5, <2>2 DEF Agreed, Gives
  <2>6. Provenance'
    BY <1>1, <1>2, <1>5, <2>2 DEF Provenance, Known, Memo
  <2>7. Guarded'
    BY <1>2, <1>4, <1>5, <2>2 DEF Guarded
  <2> QED  BY <2>1, <2>3, <2>4, <2>5, <2>6, <2>7
<1>6. CASE /\ Admits(kind, store, client) /\ kind \in Scoped /\ id # NoBudget
           /\ ops' = [ops EXCEPT ![o] = rec("ready", NoLookup, id)]
           /\ UNCHANGED <<lookup, flight>>
  <2>1. TypeOK'
    BY <1>2, <1>6 DEF OpsOf, Answers, Bracket
  <2>2. /\ ops'[o].st = "ready" /\ ops'[o].budget = id /\ id \in Budgets
        /\ ops'[o].client = client /\ ops'[o].store = store /\ ops'[o].kind = kind
        /\ \A p \in Ops : p # o => ops'[p] = ops[p]
    BY <1>6
  <2>3. Bracket' /\ AbsenceIsAskedAgain'
    BY <1>2, <1>6 DEF Bracket, AbsenceIsAskedAgain
  <2>4. Memo'
    BY <1>1, <1>2, <1>6, <2>2 DEF Memo
  <2>5. Agreed'
    <3>1. \A x \in Ops, b \in Budgets : Gives(x, b)' => IF x = o THEN b = id ELSE Gives(x, b)
      BY <1>1, <1>6, <2>2 DEF Gives
    <3> QED  BY <1>2, <1>6, <2>2, <3>1 DEF Agreed
  <2>6. Provenance'
    BY <1>1, <1>2, <1>6, <2>2 DEF Provenance, Known, Memo
  <2>7. Guarded'
    BY <1>2, <1>4, <1>6, <2>2 DEF Guarded
  <2> QED  BY <2>1, <2>3, <2>4, <2>5, <2>6, <2>7
<1>7. CASE /\ Admits(kind, store, client) /\ kind \in Scoped
           /\ id = NoBudget /\ lookup # NoLookup
           /\ ops' = [ops EXCEPT ![o] = rec("waiting", lookup, NoBudget)]
           /\ UNCHANGED <<lookup, flight>>
  <2>1. TypeOK'
    BY <1>2, <1>7 DEF OpsOf, Answers, Bracket
  <2>2. /\ ops'[o].st = "waiting" /\ ops'[o].on = lookup
        /\ ops'[o].client = client /\ ops'[o].store = store /\ ops'[o].kind = kind
        /\ \A p \in Ops : p # o => ops'[p] = ops[p]
    BY <1>7
  <2>3. Bracket' /\ AbsenceIsAskedAgain'
    BY <1>2, <1>7 DEF Bracket, AbsenceIsAskedAgain
  <2>4. Memo'
    BY <1>1, <1>2, <1>7, <2>2 DEF Memo
  <2>5. Agreed'
    BY <1>1, <1>2, <1>7, <2>2 DEF Agreed, Gives
  <2>6. Provenance'
    <3>1. o \in beside' /\ flight[lookup].val \in Budgets => flight[lookup].val \in ever
      BY <1>2, <1>7 DEF Provenance, Known, Memo
    <3> QED  BY <1>1, <1>2, <1>7, <2>2, <3>1 DEF Provenance, Known, Memo
  <2>7. Guarded'
    BY <1>2, <1>4, <1>7, <2>2 DEF Guarded
  <2> QED  BY <2>1, <2>3, <2>4, <2>5, <2>6, <2>7
<1>8. CASE /\ Admits(kind, store, client) /\ kind \in Scoped
           /\ id = NoBudget /\ lookup = NoLookup /\ lookup' = o
           /\ ops' = [ops EXCEPT ![o] = rec("waiting", o, NoBudget)]
           /\ flight' = [flight EXCEPT ![o] =
                           [st |-> "flying", via |-> SourceFor(store), val |-> NoBudget]]
  <2>1. SourceFor(store) \in 0..mutation.n /\ (~mutation.open => SourceFor(store) = 0)
    BY DEF SourceFor, InMutation, Bracket
  <2>2. TypeOK'
    BY <1>2, <1>8, <2>1 DEF OpsOf, Answers, Bracket
  <2>3. /\ ops'[o].st = "waiting" /\ ops'[o].on = o
        /\ ops'[o].client = client /\ ops'[o].store = store /\ ops'[o].kind = kind
        /\ \A p \in Ops : p # o => ops'[p] = ops[p] /\ flight'[p] = flight[p]
        /\ flight'[o].st = "flying" /\ flight'[o].via = SourceFor(store)
        /\ flight'[o].val = NoBudget
    BY <1>8
  <2>4. Bracket' /\ AbsenceIsAskedAgain'
    BY <1>2, <1>8, <2>3 DEF Bracket, AbsenceIsAskedAgain
  <2>5. Memo'
    BY <1>1, <1>2, <1>8, <2>1, <2>3 DEF Memo
  <2>6. Agreed'
    BY <1>1, <1>2, <1>8, <2>3 DEF Agreed, Gives
  <2>7. Provenance'
    BY <1>1, <1>2, <1>8, <2>1, <2>3 DEF Provenance, Known, Memo
  <2>8. Guarded'
    BY <1>2, <1>4, <1>8, <2>3 DEF Guarded
  <2> QED  BY <2>2, <2>4, <2>5, <2>6, <2>7, <2>8
<1> QED  BY <1>3, <1>5, <1>6, <1>7, <1>8 DEF Issue, Issued, BudgetOnce

(* Giving an operation up disturbs nothing else.                            *)
LEMMA RefusedKeeps ==
  ASSUME IInv, NEW o \in Ops, ops[o].st # "new", ops' = [ops EXCEPT ![o] = Refused],
         UNCHANGED <<active, ever, id, lookup, mutation, marked, flight, fails, since, beside>>
  PROVE  IInv'
<1> USE DEF IInv, TypeOK
<1>1. /\ ops'[o].st = "refused"
      /\ \A p \in Ops : p # o => ops'[p] = ops[p]
  BY DEF Refused, Fresh
<1>2. TypeOK'
  BY DEF OpsOf, Refused, Fresh, Kinds, Scoped
<1>3. Bracket' /\ Guarded' /\ AbsenceIsAskedAgain'
  BY <1>1 DEF Bracket, Guarded, AbsenceIsAskedAgain
<1>4. Memo'
  BY <1>1 DEF Memo
<1>5. Agreed'
  BY <1>1 DEF Agreed, Gives
<1>6. Provenance'
  BY <1>1 DEF Provenance, Known
<1> QED  BY <1>2, <1>3, <1>4, <1>5, <1>6

(* A lookup reads: on the pool what is committed, on a transaction that is  *)
(* open what it wrote.                                                      *)
LEMMA FindKeeps ==
  ASSUME NEW l \in Ops, IInv, Find(l)
  PROVE  IInv'
<1> USE DEF IInv, TypeOK
<1>1. PICK v \in Answers :
        /\ flight' = [flight EXCEPT ![l].st = "found", ![l].val = v]
        /\ \/ v = Failure
           \/ flight[l].via = 0 /\ v = active
           \/ flight[l].via = mutation.n /\ mutation.tx = "live" /\ v = Seen(flight[l].via)
  BY DEF Find, Live, Seen, Answers
<1>2. /\ flight[l].st = "flying"
      /\ UNCHANGED <<active, ever, id, lookup, mutation, marked, ops, fails, since, beside>>
  BY DEF Find
<1>3. /\ flight'[l].st = "found" /\ flight'[l].via = flight[l].via /\ flight'[l].val = v
      /\ \A k \in Ops : k # l => flight'[k] = flight[k]
  BY <1>1
<1>4. v \in Budgets => Known(v)
  BY <1>1 DEF Known, Seen, Bracket, NoTx
<1>5. TypeOK'
  <2>1. [flight[l] EXCEPT !.st = "found", !.val = v]
          \in [st : {"none", "flying", "found", "settled"}, via : Nat, val : Answers]
    BY ZenonT(40)
  <2> QED  BY <1>1, <1>2, <2>1
<1>6. Bracket' /\ Guarded' /\ AbsenceIsAskedAgain'
  BY <1>2, <1>3 DEF Bracket, Guarded, AbsenceIsAskedAgain
<1>7. Memo'
  BY <1>2, <1>3 DEF Memo
<1>8. Agreed'
  <2>1. \A x \in Ops, b \in Budgets : Gives(x, b)' <=> Gives(x, b)
    BY <1>2, <1>3 DEF Gives
  <2> QED  BY <1>2, <2>1 DEF Agreed
<1>9. Provenance'
  <2>1. ASSUME NEW o \in beside, ops[o].st = "waiting", ops[o].on = l, v \in Budgets
        PROVE  v \in ever
    BY <1>1, <1>2, <2>1 DEF Provenance, Bracket, NoTx, Seen
  <2> QED  BY <1>2, <1>3, <1>4, <2>1 DEF Provenance, Known, Memo
<1> QED  BY <1>5, <1>6, <1>7, <1>8, <1>9

(* A lookup that was dropped gives nothing; the one that was not finds no   *)
(* budget in the memo, and nothing else of its time has given one.          *)
LEMMA SettleKeeps ==
  ASSUME NEW l \in Ops, IInv, Settle(l)
  PROVE  IInv'
<1> USE DEF IInv, TypeOK
<1>1. /\ flight[l].st = "found"
      /\ UNCHANGED <<active, ever, mutation, marked, ops, fails, since, beside>>
  BY DEF Settle
<1>2. CASE /\ lookup # l /\ UNCHANGED <<id, lookup>>
           /\ flight' = [flight EXCEPT ![l].st = "settled",
                           ![l].val = IF @ = Failure THEN Failure ELSE NoBudget]
  <2>1. /\ flight'[l].st = "settled" /\ flight'[l].via = flight[l].via
        /\ flight'[l].val \in {Failure, NoBudget}
        /\ \A k \in Ops : k # l => flight'[k] = flight[k]
    BY <1>2
  <2>2. TypeOK'
    <3>1. PICK v \in Answers : flight' = [flight EXCEPT ![l].st = "settled", ![l].val = v]
      BY <1>2 DEF Answers
    <3>2. [flight[l] EXCEPT !.st = "settled", !.val = v]
            \in [st : {"none", "flying", "found", "settled"}, via : Nat, val : Answers]
      BY ZenonT(40)
    <3>3. flight' \in [Ops -> [st : {"none", "flying", "found", "settled"}, via : Nat, val : Answers]]
      BY <3>1, <3>2
    <3> QED  BY <1>1, <1>2, <3>3
  <2>3. Bracket' /\ Guarded' /\ AbsenceIsAskedAgain'
    BY <1>1, <1>2, <2>1 DEF Bracket, Guarded, AbsenceIsAskedAgain
  <2>4. Memo'
    BY <1>1, <1>2, <2>1 DEF Memo
  <2>5. Agreed'
    <3>1. \A x \in Ops, b \in Budgets : Gives(x, b)' => Gives(x, b)
      BY <1>1, <2>1 DEF Gives
    <3> QED  BY <1>1, <1>2, <3>1 DEF Agreed
  <2>6. Provenance'
    BY <1>1, <1>2, <2>1 DEF Provenance, Known, Memo
  <2> QED  BY <2>2, <2>3, <2>4, <2>5, <2>6
<1>3. CASE /\ lookup = l /\ flight' = [flight EXCEPT ![l].st = "settled"]
           /\ IF flight[l].val \in Budgets
                THEN id' = flight[l].val /\ UNCHANGED lookup
                ELSE lookup' = NoLookup /\ UNCHANGED id
  <2>1. /\ flight'[l].st = "settled" /\ flight'[l].via = flight[l].via
        /\ flight'[l].val = flight[l].val
        /\ \A k \in Ops : k # l => flight'[k] = flight[k]
    BY <1>3
  <2>2. id = NoBudget /\ since[l] = fails
    BY <1>1, <1>3 DEF Memo
  <2>3. TypeOK'
    BY <1>1, <1>3 DEF Answers
  <2>4. Bracket' /\ Guarded' /\ AbsenceIsAskedAgain'
    BY <1>1, <1>3, <2>1 DEF Bracket, Guarded, AbsenceIsAskedAgain
  <2>5. Memo'
    BY <1>1, <1>3, <2>1, <2>2 DEF Memo
  <2>6. Agreed'
    <3>1. \A x \in Ops, b \in Budgets :
            Gives(x, b)' <=> Gives(x, b) \/ (x = l /\ b = flight[l].val)
      BY <1>1, <2>1 DEF Gives
    <3>2. \A x \in Ops, b \in Budgets : Gives(x, b) => since[x] # fails
      BY <2>2 DEF Agreed
    <3> QED  BY <1>1, <1>3, <2>2, <3>1, <3>2 DEF Agreed
  <2>7. Provenance'
    BY <1>1, <1>3, <2>1, <2>2 DEF Provenance, Known, Memo
  <2> QED  BY <2>3, <2>4, <2>5, <2>6, <2>7
<1> QED  BY <1>2, <1>3 DEF Settle, Superseded, DropsTheLookup

(* What waited is given the lookup's answer, of its own time.               *)
LEMMA WakeKeeps ==
  ASSUME NEW o \in Ops, IInv, Wake(o)
  PROVE  IInv'
<1> USE DEF IInv, TypeOK
<1> DEFINE l == ops[o].on
           b == flight[l].val
<1>1. /\ ops[o].st = "waiting" /\ l \in Ops /\ flight[l].st = "settled"
      /\ since[l] = since[o]
      /\ UNCHANGED <<active, ever, id, lookup, mutation, marked, flight, fails, since, beside>>
  BY DEF Wake, Memo
<1>2. CASE b \in Budgets /\ ops' = [ops EXCEPT ![o].st = "ready", ![o].on = NoLookup, ![o].budget = b]
  <2>1. /\ ops'[o].st = "ready" /\ ops'[o].budget = b /\ ops'[o].kind = ops[o].kind
        /\ ops'[o].client = ops[o].client /\ ops'[o].store = ops[o].store
        /\ \A p \in Ops : p # o => ops'[p] = ops[p]
    BY <1>2
  <2>2. TypeOK'
    BY <1>1, <1>2 DEF OpsOf
  <2>3. Bracket' /\ Guarded' /\ AbsenceIsAskedAgain'
    BY <1>1, <2>1 DEF Bracket, Guarded, AbsenceIsAskedAgain
  <2>4. Memo'
    BY <1>1, <2>1 DEF Memo
  <2>5. Agreed'
    <3>1. Gives(l, b)
      BY <1>1, <1>2 DEF Gives
    <3>2. \A x \in Ops, c \in Budgets : Gives(x, c)' => Gives(x, c) \/ (x = o /\ c = b)
      BY <1>1, <2>1 DEF Gives
    <3> QED  BY <1>1, <1>2, <2>1, <3>1, <3>2 DEF Agreed
  <2>6. Provenance'
    BY <1>1, <1>2, <2>1 DEF Provenance, Known, Memo
  <2> QED  BY <2>2, <2>3, <2>4, <2>5, <2>6
<1>3. CASE ops' = [ops EXCEPT ![o] = Refused]
  BY <1>1, <1>3, RefusedKeeps
<1> QED  BY <1>2, <1>3 DEF Wake

(* A statement runs, or is rejected with the transaction it was sent to.    *)
LEMMA QueryKeeps ==
  ASSUME NEW o \in Ops, IInv, Query(o)
  PROVE  IInv'
<1> USE DEF IInv, TypeOK
<1>1. /\ ops[o].st = "ready"
      /\ UNCHANGED <<active, ever, id, lookup, mutation, marked, flight, fails, since, beside>>
  BY DEF Query
<1>2. CASE ops' = [ops EXCEPT ![o].st = "ran"]
  <2>1. /\ ops'[o].st = "ran" /\ ops'[o].budget = ops[o].budget /\ ops'[o].kind = ops[o].kind
        /\ ops'[o].client = ops[o].client /\ ops'[o].store = ops[o].store
        /\ \A p \in Ops : p # o => ops'[p] = ops[p]
    BY <1>2
  <2>2. TypeOK'
    BY <1>1, <1>2 DEF OpsOf
  <2>3. Bracket' /\ Guarded' /\ AbsenceIsAskedAgain'
    BY <1>1, <2>1 DEF Bracket, Guarded, AbsenceIsAskedAgain
  <2>4. Memo'
    BY <1>1, <2>1 DEF Memo
  <2>5. Agreed'
    <3>1. \A x \in Ops, b \in Budgets : Gives(x, b)' <=> Gives(x, b)
      BY <1>1, <2>1 DEF Gives
    <3> QED  BY <1>1, <2>1, <3>1 DEF Agreed
  <2>6. Provenance'
    BY <1>1, <2>1 DEF Provenance, Known
  <2> QED  BY <2>2, <2>3, <2>4, <2>5, <2>6
<1>3. CASE ops' = [ops EXCEPT ![o] = Refused]
  BY <1>1, <1>3, RefusedKeeps
<1> QED  BY <1>2, <1>3 DEF Query

-----------------------------------------------------------------------------
LEMMA Inductive == IInv /\ [Next]_vars => IInv'
<1> SUFFICES ASSUME IInv, [Next]_vars PROVE IInv'
  OBVIOUS
<1>1. CASE Mutates
  BY <1>1, RunInMutationKeeps, UseBudgetSourceKeeps, ActivatesKeeps, CommitTxKeeps,
     AbortTxKeeps, ReturnsKeeps, ThrowsKeeps DEF Mutates
<1>2. CASE \E o \in Ops, kind \in Kinds, store \in 0..mutation.n :
             \E client \in {0, store} : Issue(o, kind, store, client)
  BY <1>2, IssueKeeps
<1>3. CASE \E o \in Ops : Find(o) \/ Settle(o) \/ Wake(o) \/ Query(o)
  BY <1>3, FindKeeps, SettleKeeps, WakeKeeps, QueryKeeps
<1>4. CASE \E b \in Budgets : SwitchElsewhere(b)
  BY <1>4, SwitchElsewhereKeeps
<1>5. CASE UNCHANGED vars
  BY <1>5 DEF vars, IInv, TypeOK, Bracket, Memo, Agreed, Gives, Provenance, Known, Guarded,
              AbsenceIsAskedAgain
<1> QED  BY <1>1, <1>2, <1>3, <1>4, <1>5 DEF Next

LEMMA Initial == Init => IInv
<1> SUFFICES ASSUME Init PROVE IInv
  OBVIOUS
<1> USE DEF Init, Idle, Fresh, NoTx
<1>1. TypeOK
  BY DEF TypeOK, OpsOf, Answers, Kinds, Scoped
<1>2. Bracket /\ Memo
  BY DEF Bracket, Memo
<1>3. Agreed /\ Provenance
  BY DEF Agreed, Gives, Provenance, Known
<1>4. Guarded /\ AbsenceIsAskedAgain
  BY DEF Guarded, AbsenceIsAskedAgain
<1> QED  BY <1>1, <1>2, <1>3, <1>4 DEF IInv

THEOREM Invariance == Spec => []IInv
  BY Initial, Inductive, PTL DEF Spec

(* The type invariant. *)
THEOREM TypeCorrect == Spec => []TypeOK
  BY Invariance, PTL DEF IInv

(* One budget filters whatever a request reads and writes, however many     *)
(* operations look for it and however often other requests switch, unless a *)
(* mutation of the request failed in between.                               *)
THEOREM OneBudgetARequest == Spec => []OneBudget
<1>1. IInv => OneBudget
  BY DEF IInv, Agreed, Gives, OneBudget, Filtered
<1> QED  BY <1>1, Invariance, PTL

(* What only a rolled-back mutation made active never filters an operation  *)
(* issued when none was open.                                               *)
THEOREM RollbackIsForgotten == Spec => []RolledBackNeverScopes
<1>1. IInv => RolledBackNeverScopes
  BY DEF IInv, Provenance, RolledBackNeverScopes, Filtered
<1> QED  BY <1>1, Invariance, PTL

(* Writes, and everything issued while a mutation is open, run on the       *)
(* transaction of the mutation that issued them.                            *)
THEOREM WritesStayInside == Spec => []InTheTransaction
<1>1. IInv => InTheTransaction
  BY DEF IInv, Guarded, InTheTransaction
<1> QED  BY <1>1, Invariance, PTL

(* The memo never holds a lookup that found no budget.                      *)
THEOREM AbsenceIsForgotten == Spec => []AbsenceIsAskedAgain
<1>1. IInv => AbsenceIsAskedAgain
  BY DEF IInv
<1> QED  BY <1>1, Invariance, PTL

HIDE ScopeAssumption DEF database, ghosts
-----------------------------------------------------------------------------
(***************************************************************************)
(* The feed.  A walk is proved about as the one list of its rows: that     *)
(* flattening the pages yields it, and that a page appended to the walk is *)
(* appended to the list, are inductions over the pages.                    *)
(***************************************************************************)
LEMMA SameFinite == ASSUME NEW D PROVE IsFiniteSet(D) = Pure!IsFiniteSet(D)
BY DEF IsFiniteSet, Pure!IsFiniteSet

Flattens(f, s, k) == f = [i \in 1..k |-> IF i = 1 THEN s[i] ELSE f[i - 1] \o s[i]]

LEMMA FlatIsChosen ==
  ASSUME NEW s, Len(s) # 0
  PROVE  FlattenSeq(s) = (CHOOSE f : Flattens(f, s, Len(s)))[Len(s)]
BY DEF FlattenSeq, Flattens

LEMMA FlatExists ==
  ASSUME NEW S, NEW s \in Seq(Seq(S))
  PROVE  \A k \in 0..Len(s) : \E f : Flattens(f, s, k) /\ \A i \in 1..k : f[i] \in Seq(S)
<1> DEFINE Good == {k \in Nat : k <= Len(s) =>
                      \E f : Flattens(f, s, k) /\ \A i \in 1..k : f[i] \in Seq(S)}
<1>0. Len(s) \in Nat /\ \A i \in 1..Len(s) : s[i] \in Seq(S)
  OBVIOUS
<1>1. 0 \in Good
  <2>1. Flattens([i \in 1..0 |-> i], s, 0)
    BY DEF Flattens
  <2> QED BY <2>1
<1>2. ASSUME NEW k \in Good PROVE k + 1 \in Good
  <2>1. SUFFICES ASSUME k + 1 <= Len(s)
                 PROVE \E f : Flattens(f, s, k + 1) /\ \A i \in 1..(k + 1) : f[i] \in Seq(S)
    OBVIOUS
  <2>2. PICK f : Flattens(f, s, k) /\ \A i \in 1..k : f[i] \in Seq(S)
    BY <1>0, <2>1
  <2> DEFINE g == [i \in 1..(k + 1) |-> IF i = 1 THEN s[i] ELSE f[i - 1] \o s[i]]
  <2>3. \A i \in 1..k : g[i] = f[i]
    <3>1. \A i \in 1..k : f[i] = IF i = 1 THEN s[i] ELSE f[i - 1] \o s[i]
      BY <2>2 DEF Flattens
    <3>2. \A i \in 1..k : i \in 1..(k + 1)
      BY <1>0
    <3> QED BY <3>1, <3>2
  <2>4. \A i \in 1..(k + 1) : i = 1 \/ i - 1 \in 1..k
    BY <1>0
  <2>5. \A i \in 1..(k + 1) : g[i] \in Seq(S)
    BY <1>0, <2>1, <2>2, <2>4, ConcatProperties
  <2>6. Flattens(g, s, k + 1)
    <3> DEFINE h == [i \in 1..(k + 1) |-> IF i = 1 THEN s[i] ELSE g[i - 1] \o s[i]]
    <3>1. \A i \in 1..(k + 1) : h[i] = g[i]
      <4>1. SUFFICES ASSUME NEW i \in 1..(k + 1) PROVE h[i] = g[i]
        OBVIOUS
      <4>2. i # 1 => g[i - 1] = f[i - 1]
        BY <2>3, <2>4
      <4>3. /\ h[i] = IF i = 1 THEN s[i] ELSE g[i - 1] \o s[i]
            /\ g[i] = IF i = 1 THEN s[i] ELSE f[i - 1] \o s[i]
        OBVIOUS
      <4> HIDE DEF g, h
      <4> QED BY <4>2, <4>3
    <3>2. h = g
      <4>1. DOMAIN h = DOMAIN g /\ h = [i \in DOMAIN h |-> h[i]] /\ g = [i \in DOMAIN g |-> g[i]]
        OBVIOUS
      <4>2. DOMAIN h = 1..(k + 1)
        OBVIOUS
      <4> HIDE DEF h, g
      <4> QED BY <3>1, <4>1, <4>2
    <3> HIDE DEF g
    <3> QED BY <3>2 DEF Flattens
  <2> HIDE DEF g
  <2> QED BY <2>5, <2>6
<1> HIDE DEF Good
<1>3. Good = Nat
  BY <1>1, <1>2, Pure!NatSets DEF Good
<1> QED BY <1>0, <1>3 DEF Good

LEMMA FlatsAgree ==
  ASSUME NEW k \in Nat, NEW n \in Nat, NEW f, NEW g, NEW s, NEW t,
         Flattens(f, s, k), Flattens(g, t, n), k <= n, \A i \in 1..k : s[i] = t[i]
  PROVE  \A i \in 1..k : f[i] = g[i]
<1> DEFINE Good == {i \in Nat : i \in 1..k => f[i] = g[i]}
<1>0. /\ \A i \in 1..k : f[i] = IF i = 1 THEN s[i] ELSE f[i - 1] \o s[i]
      /\ \A i \in 1..n : g[i] = IF i = 1 THEN t[i] ELSE g[i - 1] \o t[i]
  BY DEF Flattens
<1>1. 0 \in Good
  OBVIOUS
<1>2. ASSUME NEW i \in Good PROVE i + 1 \in Good
  <2>1. SUFFICES ASSUME i + 1 \in 1..k PROVE f[i + 1] = g[i + 1]
    OBVIOUS
  <2>2. i + 1 \in 1..n /\ (i + 1) - 1 = i /\ s[i + 1] = t[i + 1]
    BY <2>1
  <2>3. CASE i = 0
    BY <1>0, <2>1, <2>2, <2>3
  <2>4. CASE i # 0
    <3>1. i \in 1..k /\ i + 1 # 1
      BY <2>1, <2>4
    <3> QED BY <1>0, <2>1, <2>2, <3>1
  <2> QED BY <2>3, <2>4
<1> HIDE DEF Good
<1>3. Good = Nat
  BY <1>1, <1>2, Pure!NatSets DEF Good
<1> QED BY <1>3 DEF Good

LEMMA FlatAppends ==
  ASSUME NEW S, NEW s \in Seq(Seq(S)), NEW x \in Seq(S)
  PROVE  FlattenSeq(s) \in Seq(S) /\ FlattenSeq(Append(s, x)) = FlattenSeq(s) \o x
<1> DEFINE t == Append(s, x)
           n == Len(s)
<1>0. /\ t \in Seq(Seq(S)) /\ n \in Nat /\ Len(t) = n + 1 /\ t[n + 1] = x
      /\ n = Len(s) /\ n \in 0..Len(s) /\ n <= n /\ n <= n + 1 /\ n + 1 \in Nat
      /\ \A i \in 1..n : s[i] = t[i]
  OBVIOUS
<1> HIDE DEF t, n
<1>1. PICK g : Flattens(g, t, n + 1) /\ FlattenSeq(t) = g[n + 1]
  <2>1. n + 1 \in 0..Len(t) /\ Len(t) # 0
    BY <1>0
  <2>2. \E g : Flattens(g, t, n + 1)
    BY <1>0, <2>1, FlatExists
  <2> QED BY <1>0, <2>1, <2>2, FlatIsChosen
<1>2. \A i \in 1..(n + 1) : g[i] = IF i = 1 THEN t[i] ELSE g[i - 1] \o t[i]
  BY <1>1 DEF Flattens
<1>3. CASE n = 0
  <2>1. s = <<>>
    BY <1>0, <1>3, EmptySeq
  <2>2. FlattenSeq(s) = <<>>
    BY <2>1 DEF FlattenSeq
  <2>3. FlattenSeq(t) = x
    BY <1>0, <1>1, <1>2, <1>3
  <2> QED BY <2>2, <2>3, ConcatEmptySeq DEF t
<1>4. CASE n # 0
  <2>1. \E f : Flattens(f, s, n) /\ \A i \in 1..n : f[i] \in Seq(S)
    BY <1>0, FlatExists
  <2>2. PICK f : Flattens(f, s, n) /\ FlattenSeq(s) = f[n]
    BY <1>0, <1>4, <2>1, FlatIsChosen
  <2>3. PICK h : Flattens(h, s, n) /\ \A i \in 1..n : h[i] \in Seq(S)
    BY <2>1
  <2>4. f[n] = h[n] /\ f[n] = g[n] /\ n \in 1..n
    <3>1. n \in 1..n
      BY <1>0, <1>4
    <3>2. \A i \in 1..n : f[i] = h[i]
      BY <1>0, <2>2, <2>3, FlatsAgree
    <3>3. \A i \in 1..n : f[i] = g[i]
      <4> DEFINE m == n + 1
      <4>1. m \in Nat /\ n <= m /\ Flattens(g, t, m)
        BY <1>0, <1>1
      <4>2. n \in Nat /\ \A i \in 1..n : s[i] = t[i]
        BY <1>0
      <4>3. Flattens(f, s, n)
        BY <2>2
      <4> HIDE DEF m
      <4> QED BY <4>1, <4>2, <4>3, FlatsAgree
    <3> QED BY <3>1, <3>2, <3>3
  <2>5. g[n + 1] = g[n] \o x
    <3>1. n + 1 \in 1..(n + 1) /\ n + 1 # 1 /\ (n + 1) - 1 = n
      BY <1>0, <1>4
    <3> QED BY <1>0, <1>2, <3>1
  <2> QED BY <1>1, <2>2, <2>3, <2>4, <2>5 DEF t
<1> QED BY <1>3, <1>4

-----------------------------------------------------------------------------
(* The order of the feed: any finite set of records has one arrangement to choose.         *)
Copies == [id : Ids, date : Dates, made : Nat, amount : Amounts] \ {NoCursor}
Ordered(s) == \A m, n \in 1..Len(s) : m < n => Newer(s[m], s[n])

LEMMA CopyFields ==
  ASSUME NEW x \in Copies
  PROVE  x.id \in Int /\ x.date \in Int /\ x.made \in Int /\ x.id \in Ids /\ x.date \in Dates
BY FeedAssumption DEF Copies

LEMMA NewerOrders ==
  /\ \A x \in Copies : ~Newer(x, x)
  /\ \A x, y, z \in Copies : Newer(x, y) /\ Newer(y, z) => Newer(x, z)
  /\ \A x, y \in Copies : x.id # y.id => Newer(x, y) \/ Newer(y, x)
<1>1. ASSUME NEW x \in Copies PROVE ~Newer(x, x)
  BY CopyFields DEF Newer
<1>2. ASSUME NEW x \in Copies, NEW y \in Copies, NEW z \in Copies, Newer(x, y), Newer(y, z)
      PROVE  Newer(x, z)
  BY <1>2, CopyFields DEF Newer
<1>3. ASSUME NEW x \in Copies, NEW y \in Copies, x.id # y.id PROVE Newer(x, y) \/ Newer(y, x)
  BY <1>3, CopyFields DEF Newer
<1> QED BY <1>1, <1>2, <1>3

\* Every finite set of records of which no two are of one id has an oldest.
LEMMA OldestIs ==
  ASSUME NEW C \in SUBSET Copies, IsFiniteSet(C), \A x, y \in C : x.id = y.id => x = y, C # {}
  PROVE  \E x \in C : \A y \in C \ {x} : Newer(y, x)
<1> DEFINE F == {T \in SUBSET C : T # {} => \E x \in T : \A y \in T \ {x} : Newer(y, x)}
<1>1. ASSUME NEW T \in SUBSET C, \A z \in T : T \ {z} \in F PROVE T \in F
  <2>1. SUFFICES ASSUME NEW z \in T PROVE \E x \in T : \A y \in T \ {x} : Newer(y, x)
    OBVIOUS
  <2>2. CASE T \ {z} = {}
    BY <2>2
  <2>3. CASE T \ {z} # {}
    <3>1. PICK x \in T \ {z} : \A y \in (T \ {z}) \ {x} : Newer(y, x)
      BY <1>1, <2>3
    <3>2. x \in Copies /\ z \in Copies /\ T \subseteq Copies /\ x.id # z.id
      OBVIOUS
    <3>3. CASE Newer(z, x)
      BY <3>1, <3>3
    <3>4. CASE Newer(x, z)
      <4>1. \A y \in T \ {z} : Newer(y, z)
        BY <3>1, <3>2, <3>4, NewerOrders
      <4> QED BY <4>1
    <3> QED BY <3>2, <3>3, <3>4, NewerOrders
  <2> QED BY <2>2, <2>3
<1>2. F = SUBSET C
  <2> HIDE DEF F
  <2>1. F \in SUBSET (SUBSET C)
    BY DEF F
  <2>2. Pure!IsFiniteSet(C)
    BY SameFinite
  <2> QED BY <1>1, <2>1, <2>2, Pure!SubsetFamilies
<1> QED BY <1>2

Arranges(s, C) == /\ s \in [1..Cardinality(C) -> C]
                  /\ \A m, n \in DOMAIN s : m < n => Newer(s[m], s[n])

LEMMA OrderExists ==
  ASSUME NEW C \in SUBSET Copies, IsFiniteSet(C), \A x, y \in C : x.id = y.id => x = y
  PROVE  \E s : Arranges(s, C)
<1> DEFINE F == {T \in SUBSET C : \E s : Arranges(s, T)}
<1>1. ASSUME NEW T \in SUBSET C, \A z \in T : T \ {z} \in F PROVE T \in F
  <2>0. IsFiniteSet(T) /\ Cardinality(T) \in Nat
    BY FS_Subset, FS_CardinalityType
  <2>1. CASE T = {}
    <3>1. Cardinality(T) = 0
      BY <2>1, FS_EmptySet
    <3>2. Arranges([n \in 1..0 |-> n], T)
      BY <3>1 DEF Arranges
    <3> QED BY <3>2
  <2>2. CASE T # {}
    <3>1. PICK x \in T : \A y \in T \ {x} : Newer(y, x)
      BY <2>0, <2>2, OldestIs
    <3>2. PICK s : Arranges(s, T \ {x})
      BY <1>1
    <3> DEFINE k == Cardinality(T \ {x})
               t == [n \in 1..(k + 1) |-> IF n = k + 1 THEN x ELSE s[n]]
    <3>3. k \in Nat /\ Cardinality(T) = k + 1
      <4>1. IsFiniteSet(T \ {x}) /\ k = Cardinality(T) - 1
        BY <2>0, FS_RemoveElement
      <4>2. k \in Nat
        BY <4>1, FS_CardinalityType
      <4> HIDE DEF k
      <4> QED BY <2>0, <4>1, <4>2
    <3>4. s \in [1..k -> T \ {x}] /\ \A m, n \in 1..k : m < n => Newer(s[m], s[n])
      BY <3>2 DEF Arranges
    <3> HIDE DEF k
    <3>5. t \in [1..(k + 1) -> T]
      BY <3>3, <3>4
    <3>6. ASSUME NEW m \in 1..(k + 1), NEW n \in 1..(k + 1), m < n PROVE Newer(t[m], t[n])
      <4>1. m \in 1..k /\ t[m] = s[m]
        BY <3>3, <3>6
      <4>2. CASE n = k + 1
        <5>1. t[n] = x
          BY <4>2
        <5>2. s[m] \in T \ {x}
          BY <3>4, <4>1
        <5> QED BY <3>1, <4>1, <5>1, <5>2
      <4>3. CASE n # k + 1
        <5>1. n \in 1..k /\ t[n] = s[n]
          BY <3>3, <4>3
        <5> QED BY <3>4, <3>6, <4>1, <5>1
      <4> QED BY <4>2, <4>3
    <3> HIDE DEF t
    <3>7. Arranges(t, T)
      BY <3>3, <3>5, <3>6 DEF Arranges
    <3> QED BY <3>7
  <2> QED BY <2>1, <2>2
<1>2. F = SUBSET C
  <2> HIDE DEF F
  <2>1. F \in SUBSET (SUBSET C)
    BY DEF F
  <2>2. Pure!IsFiniteSet(C)
    BY SameFinite
  <2> QED BY <1>1, <2>1, <2>2, Pure!SubsetFamilies
<1> QED BY <1>2

\* What InOrder chooses is there, is in order, and leaves out nobody.
LEMMA InOrderIs ==
  ASSUME NEW C \in SUBSET Copies, IsFiniteSet(C), \A x, y \in C : x.id = y.id => x = y
  PROVE  /\ InOrder(C) \in Seq(C) /\ Ordered(InOrder(C))
         /\ \A x \in C : \E n \in 1..Len(InOrder(C)) : InOrder(C)[n] = x
<1> DEFINE s == InOrder(C)
           k == Cardinality(C)
<1>0. k \in Nat
  BY FS_CardinalityType
<1>1. Arranges(s, C)
  BY OrderExists DEF InOrder, Arranges
<1> HIDE DEF s
<1>2. s \in [1..k -> C] /\ \A m, n \in 1..k : m < n => Newer(s[m], s[n])
  BY <1>1 DEF Arranges
<1> HIDE DEF k
<1>3. s \in Seq(C) /\ Len(s) = k
  BY <1>0, <1>2
<1>4. s \in Injection(1..k, C)
  <2>1. ASSUME NEW m \in 1..k, NEW n \in 1..k, s[m] = s[n] PROVE m = n
    <3>1. ~(m < n) /\ ~(n < m)
      BY <1>2, <2>1, NewerOrders
    <3> QED BY <1>0, <3>1
  <2> QED BY <1>2, <2>1 DEF Injection, IsInjective
<1>5. s \in Surjection(1..k, C)
  <2>1. Cardinality(1..k) = k
    BY <1>0, FS_Interval
  <2> QED BY <1>4, <2>1, FS_Injection DEF k
<1>6. \A x \in C : \E n \in 1..k : s[n] = x
  BY <1>5 DEF Surjection
<1> QED BY <1>2, <1>3, <1>6 DEF s, Ordered

-----------------------------------------------------------------------------
(* One page, read below a cursor.                                                          *)
Tables == [Ids -> Rows \cup {Gone}]
LEMMA CopyOfTable ==
  ASSUME NEW t \in Tables, NEW i \in Here(t)
  PROVE  Copy(t, i) \in Copies /\ Copy(t, i).id = i /\ Copy(t, i).date = t[i].date /\ i \in Ids
<1>1. i \in Ids /\ t[i] \in Rows /\ t[i] # Gone /\ Made[i] \in Nat
  BY FeedAssumption DEF Tables, Here
<1>2. t[i].date \in Dates /\ t[i].amount \in Amounts
      /\ t[i] = [date |-> t[i].date, amount |-> t[i].amount]
  BY <1>1 DEF Rows
<1>3. Copy(t, i) # NoCursor
  BY <1>1, <1>2 DEF Copy, NoCursor, Gone
<1> QED BY <1>1, <1>2, <1>3 DEF Copy, Copies

Under(c) == {i \in Here(rows) : c = NoCursor \/ Newer(c, Copy(rows, i))}

LEMMA FoundIs ==
  ASSUME rows \in Tables, NEW c \in Copies \cup {NoCursor}
  PROVE  /\ Found(c) \in Seq(Copies) /\ Ordered(Found(c)) /\ Len(Found(c)) <= PageSize + 1
         /\ \A n \in 1..Len(Found(c)) : \E i \in Under(c) : Found(c)[n] = Copy(rows, i)
         /\ \A i \in Under(c) :
              \/ \E n \in 1..Len(Found(c)) : Found(c)[n] = Copy(rows, i)
              \/ Len(Found(c)) = PageSize + 1 /\ Newer(Found(c)[PageSize], Copy(rows, i))
<1> DEFINE C == {Copy(rows, i) : i \in Under(c)}
           s == InOrder(C)
           k == IF Len(s) > PageSize THEN PageSize + 1 ELSE Len(s)
           f == SubSeq(s, 1, k)
<1>0. Under(c) \subseteq Here(rows) /\ IsFiniteSet(Under(c)) /\ PageSize \in Nat \ {0}
  <2>1. Under(c) \subseteq Ids
    BY DEF Under, Here
  <2> QED BY <2>1, FeedAssumption, FS_Subset DEF Under
<1>1. C \in SUBSET Copies /\ \A x, y \in C : x.id = y.id => x = y
  BY <1>0, CopyOfTable
<1>2. IsFiniteSet(C)
  <2>1. [i \in Under(c) |-> Copy(rows, i)] \in Surjection(Under(c), C)
    BY DEF Surjection
  <2> QED BY <1>0, <2>1, FS_Surjection
<1>3. Found(c) = f
  BY DEF Found, Under, OlderThan
<1>4. /\ s \in Seq(C) /\ Ordered(s)
      /\ \A x \in C : \E n \in 1..Len(s) : s[n] = x
  BY <1>1, <1>2, InOrderIs
<1> HIDE DEF s
<1>5. s \in Seq(Copies) /\ Len(s) \in Nat /\ k \in Nat /\ k <= Len(s) /\ k <= PageSize + 1
  BY <1>0, <1>1, <1>4
<1>6. \A n \in 1..Len(s) : s[n] \in C
  BY <1>4
<1>7. \A n \in 1..k : n \in 1..Len(s)
  BY <1>5
<1>8. f \in Seq(Copies) /\ Len(f) = k /\ \A n \in 1..k : f[n] = s[n]
  <2>1. \A n \in 1..k : s[n] \in Copies
    BY <1>1, <1>6, <1>7
  <2> HIDE DEF k
  <2>2. /\ f \in Seq(Copies) /\ Len(f) = IF 1 <= k THEN (k - 1) + 1 ELSE 0
        /\ \A n \in 1..((k - 1) + 1) : f[n] = s[(1 + n) - 1]
    BY <1>5, <2>1, SubSeqProperties
  <2> QED BY <1>5, <2>2
<1> HIDE DEF f
<1>9. Ordered(f)
  BY <1>4, <1>7, <1>8 DEF Ordered
<1>10. \A n \in 1..Len(f) : \E i \in Under(c) : f[n] = Copy(rows, i)
  BY <1>6, <1>7, <1>8
<1>11. ASSUME NEW i \in Under(c)
       PROVE  \/ \E n \in 1..Len(f) : f[n] = Copy(rows, i)
              \/ Len(f) = PageSize + 1 /\ Newer(f[PageSize], Copy(rows, i))
  <2>1. PICK n \in 1..Len(s) : s[n] = Copy(rows, i)
    BY <1>4
  <2>2. CASE n <= k
    BY <1>5, <1>8, <2>1, <2>2
  <2>3. CASE n > k
    <3>1. k = PageSize + 1 /\ PageSize \in 1..k /\ PageSize \in 1..Len(s) /\ PageSize < n
      BY <1>0, <1>5, <2>3
    <3> HIDE DEF k
    <3>2. Newer(s[PageSize], s[n])
      BY <1>4, <2>1, <3>1 DEF Ordered
    <3> QED BY <1>8, <2>1, <3>1, <3>2
  <2> QED BY <1>5, <2>1, <2>2, <2>3
<1> HIDE DEF k
<1> QED BY <1>3, <1>5, <1>8, <1>9, <1>10, <1>11

(* What a reading below a cursor has brought, as the records stood then.                   *)
BelowIs(c, page) ==
  /\ page.rows \in Seq(Copies) /\ Ordered(page.rows) /\ page.next \in Copies \cup {NoCursor}
  /\ page.next # NoCursor => /\ page.rows # <<>>
                             /\ page.next = page.rows[Len(page.rows)]
  /\ \A n \in 1..Len(page.rows) : c # NoCursor => Newer(c, page.rows[n])

LEMMA PageIs ==
  ASSUME rows \in Tables, NEW c \in Copies \cup {NoCursor}, NEW page, page = PageOf(Found(c))
  PROVE  /\ page = [rows |-> page.rows, next |-> page.next, days |-> <<>>]
         /\ BelowIs(c, page)
         /\ \A n \in 1..Len(page.rows) : \E i \in Here(rows) : page.rows[n] = Copy(rows, i)
         /\ \A i \in Under(c) : page.next = NoCursor \/ Newer(Copy(rows, i), page.next)
              => \E n \in 1..Len(page.rows) : page.rows[n] = Copy(rows, i)
<1> DEFINE f == Found(c)
<1>0. PageSize \in Nat \ {0}
  BY FeedAssumption
<1>1. /\ f \in Seq(Copies) /\ Ordered(f) /\ Len(f) <= PageSize + 1
      /\ \A n \in 1..Len(f) : \E i \in Under(c) : f[n] = Copy(rows, i)
      /\ \A i \in Under(c) :
           \/ \E n \in 1..Len(f) : f[n] = Copy(rows, i)
           \/ Len(f) = PageSize + 1 /\ Newer(f[PageSize], Copy(rows, i))
  BY FoundIs
<1>2. page = PageOf(f)
  OBVIOUS
<1> HIDE DEF f
<1>3. page = [rows |-> page.rows, next |-> page.next, days |-> <<>>]
  BY <1>2 DEF PageOf
<1>4. Len(f) \in Nat /\ \A n \in 1..Len(f) : f[n] \in Copies /\ (c # NoCursor => Newer(c, f[n]))
  BY <1>1 DEF Under
<1>4a. \A n \in 1..Len(f) : \E i \in Here(rows) : f[n] = Copy(rows, i)
  BY <1>1 DEF Under
<1>5. CASE Len(f) > PageSize
  <2>1. page.rows = SubSeq(f, 1, PageSize) /\ page.next = f[PageSize] /\ Len(f) = PageSize + 1
    BY <1>0, <1>1, <1>2, <1>4, <1>5 DEF PageOf, CutShort, CursorOf
  <2>2. /\ page.rows \in Seq(Copies) /\ Len(page.rows) = PageSize
        /\ \A n \in 1..PageSize : n \in 1..Len(f) /\ page.rows[n] = f[n]
    BY <1>0, <1>1, <1>4, <2>1
  <2>3. page.next = page.rows[Len(page.rows)] /\ page.rows # <<>> /\ page.next \in Copies
    BY <1>0, <1>4, <2>1, <2>2
  <2>4. Ordered(page.rows)
    BY <1>1, <2>2 DEF Ordered
  <2>5. BelowIs(c, page)
    BY <1>4, <2>2, <2>3, <2>4 DEF BelowIs
  <2>6. ASSUME NEW i \in Under(c), page.next = NoCursor \/ Newer(Copy(rows, i), page.next)
        PROVE  \E n \in 1..Len(page.rows) : page.rows[n] = Copy(rows, i)
    <3>0. page.next # NoCursor /\ Copy(rows, i) \in Copies
      BY <2>3, CopyOfTable DEF Copies, Under
    <3>1. ~Newer(f[PageSize], Copy(rows, i)) /\ f[PageSize] # Copy(rows, i)
      BY <2>1, <2>3, <2>6, <3>0, NewerOrders
    <3>2. PICK n \in 1..Len(f) : f[n] = Copy(rows, i)
      BY <1>1, <3>1
    <3>3. n # PageSize + 1
      <4>1. PageSize \in 1..Len(f)
        BY <1>0, <2>1
      <4>2. n = PageSize + 1 => Newer(f[PageSize], f[n])
        BY <1>0, <1>1, <4>1 DEF Ordered
      <4> QED BY <3>1, <3>2, <4>2
    <3>4. n \in 1..PageSize
      BY <1>0, <2>1, <3>2, <3>3
    <3> QED BY <2>2, <3>2, <3>4
  <2> QED BY <1>3, <1>4a, <2>2, <2>5, <2>6
<1>6. CASE ~(Len(f) > PageSize)
  <2>1. page.rows = f /\ page.next = NoCursor
    BY <1>2, <1>6 DEF PageOf, CursorOf
  <2>2. BelowIs(c, page)
    BY <1>1, <1>4, <2>1 DEF BelowIs
  <2>3. \A i \in Under(c) : \E n \in 1..Len(f) : f[n] = Copy(rows, i)
    BY <1>0, <1>1, <1>4, <1>6
  <2> QED BY <1>3, <1>4a, <2>1, <2>2, <2>3
<1> QED BY <1>5, <1>6

-----------------------------------------------------------------------------
(* The invariant of a walk, of the table t as it stands, whatever was written meanwhile.   *)
DayOf(t, d) == {Copy(t, i) : i \in {j \in Here(t) : t[j].date = d}}
Totals == UNION {[D -> {SumOf(c) : c \in SUBSET Copies}] : D \in SUBSET Dates}
Pages == [rows : Seq(Copies), next : Copies \cup {NoCursor}, days : Totals]
Walks == [pages : Seq(Pages), at : Nat, moved : SUBSET Ids, stirred : SUBSET Int]

(* A record of the list nobody has written to is as it stands now, and so is one of a day  *)
(* of which nobody has written a record.                                                   *)
Current(t, x) == x.id \in Here(t) /\ x = Copy(t, x.id)
Kept(t, moved, s) == \A n \in 1..Len(s) : s[n].id \notin moved => Current(t, s[n])
Dated(t, stirred, s) == \A n \in 1..Len(s) : s[n].date \notin stirred => Current(t, s[n])

(* A walk has, in order, whatever nobody wrote to, down to its cursor.                     *)
ListInv(t, w) ==
  LET all == RowsOf(w) IN
  /\ Ordered(all) /\ Kept(t, w.moved, all)
  /\ NextOf(w) # NoCursor => all # <<>> /\ NextOf(w) = all[Len(all)]
  /\ w.pages # <<>> => \A i \in Here(t) \ w.moved :
       NextOf(w) = NoCursor \/ Newer(Copy(t, i), NextOf(w)) => \E n \in 1..Len(all) : all[n].id = i

(* Its days are whole days, and each record has one.                                       *)
DaysInv(t, w) ==
  LET all == RowsOf(w) IN
  /\ \A n \in 1..Len(all) : all[n].date \notin w.stirred
       => \E k \in 1..Len(w.pages) : all[n].date \in DOMAIN w.pages[k].days
  /\ \A k \in 1..Len(w.pages) : \A d \in DOMAIN w.pages[k].days \ w.stirred :
       w.pages[k].days[d] = SumOf(DayOf(t, d))

(* And what was read below its cursor has whatever nobody wrote to, down to the next one.  *)
PageInv(t, w, p) ==
  /\ p \in Pages /\ BelowIs(NextOf(w), p)
  /\ Kept(t, w.moved, p.rows) /\ Dated(t, w.stirred, p.rows)
  /\ \A i \in Here(t) \ w.moved :
       /\ NextOf(w) = NoCursor \/ Newer(NextOf(w), Copy(t, i))
       /\ p.next = NoCursor \/ Newer(Copy(t, i), p.next)
       => \E n \in 1..Len(p.rows) : p.rows[n].id = i

-----------------------------------------------------------------------------
LEMMA RowsInPages ==
  ASSUME NEW q \in Seq(Pages), NEW s, s = [n \in DOMAIN q |-> q[n].rows]
  PROVE  s \in Seq(Seq(Copies)) /\ Len(s) = Len(q)
<1>1. Len(q) \in Nat /\ DOMAIN q = 1..Len(q) /\ \A n \in 1..Len(q) : q[n] \in Pages
  BY LenProperties, ElementOfSeq
<1>2. \A n \in 1..Len(q) : q[n].rows \in Seq(Copies)
  BY <1>1 DEF Pages
<1>3. s \in [1..Len(q) -> Seq(Copies)]
  BY <1>1, <1>2
<1> QED BY <1>1, <1>3, SeqDef, LenProperties

LEMMA WalkRows ==
  ASSUME NEW w \in Walks
  PROVE  /\ RowsOf(w) \in Seq(Copies) /\ NextOf(w) \in Copies \cup {NoCursor}
         /\ w.pages = <<>> => RowsOf(w) = <<>> /\ NextOf(w) = NoCursor
<1> DEFINE s == [n \in DOMAIN w.pages |-> w.pages[n].rows]
<1>0. w.pages \in Seq(Pages) /\ Len(w.pages) \in Nat
  BY DEF Walks
<1>1. s \in Seq(Seq(Copies))
  BY <1>0, RowsInPages
<1>2. RowsOf(w) = FlattenSeq(s)
  BY DEF RowsOf
<1> HIDE DEF s
<1>3. FlattenSeq(s) \in Seq(Copies)
  BY <1>1, EmptySeq, FlatAppends
<1>4. CASE w.pages = <<>>
  <2>1. s = <<>>
    BY <1>4 DEF s
  <2>2. FlattenSeq(s) = <<>>
    BY <2>1, EmptySeq DEF FlattenSeq
  <2> QED BY <1>2, <1>3, <1>4, <2>2 DEF NextOf
<1>5. CASE w.pages # <<>>
  <2>1. Len(w.pages) \in 1..Len(w.pages)
    BY <1>0, <1>5
  <2>2. w.pages[Len(w.pages)] \in Pages
    BY <1>0, <2>1
  <2> QED BY <1>2, <1>3, <1>5, <2>2 DEF NextOf, Last, Pages
<1> QED BY <1>4, <1>5

Appends(v, w, p) == v = [w EXCEPT !.pages = Append(@, p)]

LEMMA WalkAppends ==
  ASSUME NEW w \in Walks, NEW p \in Pages, NEW v, Appends(v, w, p)
  PROVE  /\ v \in Walks /\ v.pages = Append(w.pages, p) /\ v.pages # <<>>
         /\ v.at = w.at /\ v.moved = w.moved /\ v.stirred = w.stirred
         /\ Len(v.pages) = Len(w.pages) + 1 /\ v.pages[Len(w.pages) + 1] = p
         /\ \A k \in 1..Len(w.pages) : v.pages[k] = w.pages[k]
         /\ RowsOf(v) = RowsOf(w) \o p.rows /\ NextOf(v) = p.next
<1> DEFINE s == [n \in DOMAIN w.pages |-> w.pages[n].rows]
           r == [n \in DOMAIN v.pages |-> v.pages[n].rows]
<1>0. w.pages \in Seq(Pages) /\ Len(w.pages) \in Nat /\ p.rows \in Seq(Copies)
  BY DEF Walks, Pages
<1>1. /\ v.pages = Append(w.pages, p) /\ v.pages \in Seq(Pages)
      /\ v = [pages |-> v.pages, at |-> w.at, moved |-> w.moved, stirred |-> w.stirred]
  <2>1. w = [pages |-> w.pages, at |-> w.at, moved |-> w.moved, stirred |-> w.stirred]
    BY DEF Walks
  <2>2. Append(w.pages, p) \in Seq(Pages)
    BY <1>0, AppendProperties
  <2>3. v = [pages |-> Append(w.pages, p), at |-> w.at, moved |-> w.moved, stirred |-> w.stirred]
    BY <2>1 DEF Appends
  <2> QED BY <2>2, <2>3
<1>2. /\ Len(v.pages) = Len(w.pages) + 1 /\ v.pages[Len(w.pages) + 1] = p
      /\ \A k \in 1..Len(w.pages) : v.pages[k] = w.pages[k]
  BY <1>0, <1>1
<1>3. v.pages # <<>> /\ NextOf(v) = p.next
  BY <1>0, <1>1, <1>2 DEF NextOf, Last
<1>4. s \in Seq(Seq(Copies)) /\ Len(s) = Len(w.pages)
  BY <1>0, RowsInPages
<1>5. r = Append(s, p.rows)
  <2>1. r \in Seq(Seq(Copies)) /\ Len(r) = Len(s) + 1
    BY <1>1, <1>2, <1>4, RowsInPages
  <2>2. Append(s, p.rows) \in Seq(Seq(Copies)) /\ Len(Append(s, p.rows)) = Len(s) + 1
    BY <1>0, <1>4
  <2>3. \A i \in 1..Len(r) : r[i] = Append(s, p.rows)[i]
    <3>1. SUFFICES ASSUME NEW i \in 1..Len(r) PROVE r[i] = Append(s, p.rows)[i]
      OBVIOUS
    <3>2. DOMAIN v.pages = 1..Len(v.pages) /\ DOMAIN w.pages = 1..Len(w.pages)
      BY <1>0, <1>1
    <3>3. r[i] = v.pages[i].rows
      BY <1>2, <1>4, <2>1, <3>2
    <3>4. CASE i = Len(s) + 1
      BY <1>0, <1>2, <1>4, <3>3, <3>4
    <3>5. CASE i # Len(s) + 1
      <4>1. i \in 1..Len(s)
        BY <1>0, <1>4, <2>1, <3>5
      <4>2. Append(s, p.rows)[i] = s[i]
        BY <1>0, <1>4, <4>1
      <4>3. s[i] = w.pages[i].rows
        BY <1>4, <3>2, <4>1
      <4> QED BY <1>2, <1>4, <3>3, <4>1, <4>2, <4>3
    <3> QED BY <3>4, <3>5
  <2> HIDE DEF r, s
  <2> QED BY <2>1, <2>2, <2>3, SeqEqual
<1>6. RowsOf(w) = FlattenSeq(s) /\ RowsOf(v) = FlattenSeq(r)
  BY DEF RowsOf
<1> HIDE DEF r, s
<1>7. RowsOf(v) = RowsOf(w) \o p.rows
  BY <1>0, <1>4, <1>5, <1>6, FlatAppends
<1>8. v \in Walks /\ v.at = w.at /\ v.moved = w.moved /\ v.stirred = w.stirred
  BY <1>1 DEF Walks
<1> QED BY <1>1, <1>2, <1>3, <1>7, <1>8

\* What a write leaves as it is.
Becomes(u, t, i, row) == u = [t EXCEPT ![i] = row]

LEMMA WriteKeeps ==
  ASSUME NEW t \in Tables, NEW i \in Ids, NEW row \in Rows \cup {Gone},
         NEW u, Becomes(u, t, i, row)
  PROVE  /\ u \in Tables
         /\ \A j \in Ids : j # i => u[j] = t[j] /\ Copy(u, j) = Copy(t, j) /\ (j \in Here(u) <=> j \in Here(t))
         /\ \A d : d \notin {t[i].date, row.date} => DayOf(u, d) = DayOf(t, d)
<1>1. u \in Tables /\ u[i] = row /\ \A j \in Ids : j # i => u[j] = t[j]
  BY DEF Tables, Becomes
<1>2. \A j \in Ids : j # i => Copy(u, j) = Copy(t, j) /\ (j \in Here(u) <=> j \in Here(t))
  BY <1>1 DEF Copy, Here
<1>3. ASSUME NEW d, d \notin {t[i].date, row.date} PROVE DayOf(u, d) = DayOf(t, d)
  <2>1. \A j : j \in Here(u) /\ u[j].date = d <=> j \in Here(t) /\ t[j].date = d
    <3>1. SUFFICES ASSUME NEW j \in Ids PROVE j \in Here(u) /\ u[j].date = d <=> j \in Here(t) /\ t[j].date = d
      BY DEF Here
    <3>2. CASE j = i
      BY <1>1, <1>3, <3>2
    <3>3. CASE j # i
      BY <1>1, <1>2, <3>3
    <3> QED BY <3>2, <3>3
  <2>2. \A j : j \in Here(t) /\ t[j].date = d => j \in Ids /\ j # i
    BY <1>3 DEF Here
  <2>3. \A j : j \in Here(t) /\ t[j].date = d => Copy(u, j) = Copy(t, j)
    BY <1>2, <2>2
  <2> QED BY <2>1, <2>3 DEF DayOf
<1> QED BY <1>1, <1>2, <1>3

LEMMA StirsKeep ==
  ASSUME NEW t \in Tables, NEW i \in Ids, NEW row \in Rows \cup {Gone},
         NEW u, Becomes(u, t, i, row), NEW s \in Seq(Copies), NEW moved, NEW stirred
  PROVE  /\ Kept(t, moved, s) => Kept(u, moved \cup {i}, s)
         /\ Dated(t, stirred, s) => Dated(u, stirred \cup {t[i].date, row.date}, s)
<1>w. /\ \A j \in Ids : j # i => u[j] = t[j] /\ Copy(u, j) = Copy(t, j) /\ (j \in Here(u) <=> j \in Here(t))
      /\ \A d : d \notin {t[i].date, row.date} => DayOf(u, d) = DayOf(t, d)
  BY WriteKeeps
<1>1. \A n \in 1..Len(s) : s[n] \in Copies /\ s[n].id \in Ids
  BY CopyFields
<1>2. \A n \in 1..Len(s) : s[n].id # i /\ Current(t, s[n]) => Current(u, s[n])
  BY <1>w, <1>1 DEF Current
<1>3. ASSUME NEW n \in 1..Len(s), Current(t, s[n]), s[n].date # t[i].date PROVE s[n].id # i
  BY <1>3 DEF Current, Copy
<1> QED BY <1>2, <1>3 DEF Kept, Dated

Stirs(v, w, t, i, row) ==
  v = [w EXCEPT !.moved = @ \cup {i}, !.stirred = @ \cup {t[i].date, row.date}]

LEMMA WalkStirs ==
  ASSUME NEW t \in Tables, NEW i \in Ids, NEW row \in Rows \cup {Gone},
         NEW u, Becomes(u, t, i, row), NEW w \in Walks, NEW v, Stirs(v, w, t, i, row)
  PROVE  /\ v \in Walks /\ v.at = w.at /\ v.pages = w.pages /\ v.moved = w.moved \cup {i}
         /\ RowsOf(v) = RowsOf(w) /\ NextOf(v) = NextOf(w)
         /\ ListInv(t, w) => ListInv(u, v)
         /\ DaysInv(t, w) => DaysInv(u, v)
         /\ \A p : PageInv(t, w, p) => PageInv(u, v, p)
<1>w. /\ \A j \in Ids : j # i => u[j] = t[j] /\ Copy(u, j) = Copy(t, j) /\ (j \in Here(u) <=> j \in Here(t))
      /\ \A d : d \notin {t[i].date, row.date} => DayOf(u, d) = DayOf(t, d)
  BY WriteKeeps
<1>0. t[i].date \in Int /\ row.date \in Int
  <2>1. \A r \in Rows \cup {Gone} : r.date \in Int
    BY FeedAssumption DEF Rows, Gone
  <2> QED BY <2>1 DEF Tables
<1>1. /\ v.pages = w.pages /\ v.at = w.at /\ v.moved = w.moved \cup {i}
      /\ v.stirred = w.stirred \cup {t[i].date, row.date} /\ v \in Walks
  BY <1>0 DEF Walks, Stirs
<1>2. RowsOf(v) = RowsOf(w) /\ NextOf(v) = NextOf(w)
  BY <1>1 DEF RowsOf, NextOf
<1>3. RowsOf(w) \in Seq(Copies)
  BY WalkRows
<1>4. \A j \in Here(u) \ v.moved : j \in Here(t) \ w.moved /\ Copy(u, j) = Copy(t, j)
  <2>1. \A j \in Here(u) \ v.moved : j \in Ids /\ j # i /\ j \notin w.moved
    BY <1>1 DEF Here
  <2> QED BY <1>w, <2>1
<1>5. ASSUME ListInv(t, w) PROVE ListInv(u, v)
  <2> DEFINE all == RowsOf(w)
  <2>1. Kept(t, w.moved, all) => Kept(u, w.moved \cup {i}, all)
    BY <1>3, StirsKeep
  <2>2. Kept(u, v.moved, all)
    BY <1>1, <1>5, <2>1 DEF ListInv
  <2>3. v.pages # <<>> => \A j \in Here(u) \ v.moved :
          NextOf(v) = NoCursor \/ Newer(Copy(u, j), NextOf(v)) => \E n \in 1..Len(all) : all[n].id = j
    BY <1>1, <1>2, <1>4, <1>5 DEF ListInv
  <2>4. Ordered(all) /\ (NextOf(v) # NoCursor => all # <<>> /\ NextOf(v) = all[Len(all)])
    BY <1>2, <1>5 DEF ListInv
  <2> QED BY <1>2, <2>2, <2>3, <2>4 DEF ListInv
<1>6. ASSUME DaysInv(t, w) PROVE DaysInv(u, v)
  <2>1. \A d : d \notin v.stirred => d \notin w.stirred /\ DayOf(u, d) = DayOf(t, d)
    BY <1>w, <1>1
  <2>2. \A n \in 1..Len(RowsOf(w)) : RowsOf(w)[n].date \notin v.stirred
          => \E k \in 1..Len(w.pages) : RowsOf(w)[n].date \in DOMAIN w.pages[k].days
    BY <1>6, <2>1 DEF DaysInv
  <2>3. \A k \in 1..Len(w.pages) : \A d \in DOMAIN w.pages[k].days \ v.stirred :
          w.pages[k].days[d] = SumOf(DayOf(u, d))
    BY <1>6, <2>1 DEF DaysInv
  <2>4. /\ \A n \in 1..Len(RowsOf(v)) : RowsOf(v)[n].date \notin v.stirred
             => \E k \in 1..Len(v.pages) : RowsOf(v)[n].date \in DOMAIN v.pages[k].days
        /\ \A k \in 1..Len(v.pages) : \A d \in DOMAIN v.pages[k].days \ v.stirred :
             v.pages[k].days[d] = SumOf(DayOf(u, d))
    <3>1. RowsOf(v) = RowsOf(w) /\ v.pages = w.pages
      BY <1>1, <1>2
    <3> QED BY <2>2, <2>3, <3>1, Zenon
  <2> QED BY <2>4 DEF DaysInv
<1>7. ASSUME NEW p, PageInv(t, w, p) PROVE PageInv(u, v, p)
  <2>1. p.rows \in Seq(Copies)
    BY <1>7 DEF PageInv, BelowIs
  <2>2. Kept(u, v.moved, p.rows) /\ Dated(u, v.stirred, p.rows)
    <3>1. /\ Kept(t, w.moved, p.rows) => Kept(u, w.moved \cup {i}, p.rows)
          /\ Dated(t, w.stirred, p.rows) => Dated(u, w.stirred \cup {t[i].date, row.date}, p.rows)
      BY <2>1, StirsKeep
    <3> QED BY <1>1, <1>7, <3>1 DEF PageInv
  <2> QED BY <1>2, <1>4, <1>7, <2>2 DEF PageInv
<1> QED BY <1>1, <1>2, <1>5, <1>6, <1>7

-----------------------------------------------------------------------------
\* The totals of a page, of the days it runs over and only of them.
LEMMA TotalsAre ==
  ASSUME rows \in Tables, NEW c, NEW p, BelowIs(c, p), p.rows # <<>>
  PROVE  /\ TotalsOf(p) \in Totals
         /\ \A d \in DOMAIN TotalsOf(p) : TotalsOf(p)[d] = SumOf(DayOf(rows, d))
         /\ \A n \in 1..Len(p.rows) : Current(rows, p.rows[n]) => p.rows[n].date \in DOMAIN TotalsOf(p)
<1> DEFINE s == p.rows
           k == Len(s)
           lo == s[k].date
           hi == s[1].date
           held == {Copy(rows, i) : i \in {j \in Here(rows) : rows[j].date \in lo..hi}}
           D == {x.date : x \in held}
           F(d) == SumOf({x \in held : x.date = d})
<1>1. /\ s \in Seq(Copies) /\ Ordered(s) /\ k \in Nat /\ k >= 1 /\ 1 \in 1..k /\ k \in 1..k
      /\ \A n \in 1..k : s[n] \in Copies /\ s[n].date \in Int
  <2>1. s \in Seq(Copies) /\ Ordered(s) /\ s # <<>>
    BY DEF BelowIs
  <2>2. k \in Nat /\ k >= 1
    BY <2>1, EmptySeq
  <2> QED BY <2>1, <2>2, CopyFields
<1>2. TotalsOf(p) = [d \in D |-> F(d)]
  BY DEF TotalsOf, Last
<1>3. ASSUME NEW i \in Here(rows)
      PROVE Copy(rows, i) \in Copies /\ Copy(rows, i).date = rows[i].date /\ rows[i].date \in Dates
  BY CopyOfTable, CopyFields
<1>4. D \in SUBSET Dates /\ D \subseteq lo..hi
  BY <1>3
<1>5. held \in SUBSET Copies
  BY <1>3
<1>6. ASSUME NEW d \in D PROVE {x \in held : x.date = d} = DayOf(rows, d)
  BY <1>3, <1>4, <1>6 DEF DayOf
<1>7. ASSUME NEW n \in 1..k, Current(rows, s[n]) PROVE s[n].date \in D
  <2>1. s[n].date <= hi
    <3>1. CASE n = 1
      BY <1>1, <3>1
    <3>2. CASE n # 1
      BY <1>1, <3>2 DEF Ordered, Newer
    <3> QED BY <3>1, <3>2
  <2>2. s[n].date >= lo
    <3>1. CASE n = k
      BY <1>1, <3>1
    <3>2. CASE n # k
      <4>1. n < k
        BY <1>1, <3>2
      <4> QED BY <1>1, <4>1 DEF Ordered, Newer
    <3> QED BY <3>1, <3>2
  <2>3. s[n].date \in lo..hi
    BY <1>1, <2>1, <2>2
  <2>4. s[n] = Copy(rows, s[n].id) /\ s[n].id \in Here(rows) /\ rows[s[n].id].date = s[n].date
    BY <1>3, <1>7 DEF Current
  <2> QED BY <2>3, <2>4
<1> HIDE DEF D, held
<1>8. TotalsOf(p) \in Totals
  <2>1. \A d \in D : F(d) \in {SumOf(c0) : c0 \in SUBSET Copies}
    BY <1>5
  <2> HIDE DEF F
  <2>2. [d \in D |-> F(d)] \in [D -> {SumOf(c0) : c0 \in SUBSET Copies}]
    BY <2>1
  <2> QED BY <1>2, <1>4, <2>2 DEF Totals
<1>9. \A d \in D : F(d) = SumOf(DayOf(rows, d))
  BY <1>6
<1> HIDE DEF F
<1> QED BY <1>2, <1>7, <1>8, <1>9

Totalled(q, p) == q = [p EXCEPT !.days = IF p.rows = <<>> THEN <<>> ELSE TotalsOf(p)]

\* A page lands on a walk: the order goes on below the cursor, and nothing is left out.
LEMMA WalkGrows ==
  ASSUME rows \in Tables, NEW w \in Walks, ListInv(rows, w), DaysInv(rows, w),
         w.pages # <<>> => NextOf(w) # NoCursor,
         NEW p, PageInv(rows, w, p), NEW q, Totalled(q, p),
         NEW v, Appends(v, w, q)
  PROVE  v \in Walks /\ v.at = w.at /\ v.moved = w.moved /\ v.pages # <<>> /\ NextOf(v) = p.next
         /\ ListInv(rows, v) /\ DaysInv(rows, v)
<1> DEFINE a == RowsOf(w)
           b == RowsOf(v)
           c == NextOf(w)
           T == IF p.rows = <<>> THEN <<>> ELSE TotalsOf(p)
<1>1. p \in Pages /\ BelowIs(c, p)
  BY DEF PageInv
<1>2. /\ T \in Totals
      /\ \A d \in DOMAIN T : T[d] = SumOf(DayOf(rows, d))
      /\ \A n \in 1..Len(p.rows) : Current(rows, p.rows[n]) => p.rows[n].date \in DOMAIN T
  <2>1. CASE p.rows = <<>>
    <3>1. <<>> \in [{} -> {SumOf(c0) : c0 \in SUBSET Copies}] /\ DOMAIN <<>> = {}
      OBVIOUS
    <3>2. T = <<>> /\ Len(p.rows) = 0
      BY <2>1
    <3>3. T \in Totals
      BY <3>1, <3>2 DEF Totals
    <3> QED BY <3>1, <3>2, <3>3
  <2>2. CASE p.rows # <<>>
    <3>1. T = TotalsOf(p)
      BY <2>2
    <3>2. /\ TotalsOf(p) \in Totals
          /\ \A d \in DOMAIN TotalsOf(p) : TotalsOf(p)[d] = SumOf(DayOf(rows, d))
          /\ \A n \in 1..Len(p.rows) : Current(rows, p.rows[n]) => p.rows[n].date \in DOMAIN TotalsOf(p)
      BY <1>1, <2>2, TotalsAre
    <3> QED BY <3>1, <3>2
  <2> QED BY <2>1, <2>2
<1> HIDE DEF T
<1>3. q \in Pages /\ q.rows = p.rows /\ q.next = p.next /\ q.days = T
  BY <1>1, <1>2 DEF Pages, T, Totalled
<1>4. /\ v \in Walks /\ v.pages # <<>> /\ v.at = w.at /\ v.moved = w.moved /\ v.stirred = w.stirred
      /\ Len(v.pages) = Len(w.pages) + 1 /\ v.pages[Len(w.pages) + 1] = q
      /\ \A k \in 1..Len(w.pages) : v.pages[k] = w.pages[k]
      /\ b = a \o p.rows /\ NextOf(v) = p.next
  <2>1. /\ v \in Walks /\ v.pages # <<>> /\ v.at = w.at /\ v.moved = w.moved /\ v.stirred = w.stirred
        /\ Len(v.pages) = Len(w.pages) + 1 /\ v.pages[Len(w.pages) + 1] = q
        /\ \A k \in 1..Len(w.pages) : v.pages[k] = w.pages[k]
        /\ RowsOf(v) = RowsOf(w) \o q.rows /\ NextOf(v) = q.next
    <3> HIDE DEF T
    <3>1. q \in Pages
      BY <1>3
    <3> QED BY <3>1, WalkAppends
  <2>2. q.rows = p.rows /\ q.next = p.next
    BY <1>3
  <2>3. b = a \o p.rows
    BY <2>1, <2>2
  <2>4. NextOf(v) = p.next
    BY <2>1, <2>2
  <2> HIDE DEF b, a
  <2> QED BY <2>1, <2>3, <2>4, Zenon
<1>5. a \in Seq(Copies) /\ c \in Copies \cup {NoCursor} /\ p.rows \in Seq(Copies) /\ Len(w.pages) \in Nat
      /\ (c = NoCursor => a = <<>> /\ w.pages = <<>>)
  <2>1. a \in Seq(Copies) /\ c \in Copies \cup {NoCursor} /\ (w.pages = <<>> => a = <<>>)
    BY WalkRows
  <2>2. c = NoCursor => w.pages = <<>>
    OBVIOUS
  <2>3. p.rows \in Seq(Copies)
    BY <1>1 DEF BelowIs
  <2>4. Len(w.pages) \in Nat
    BY DEF Walks
  <2> QED BY <2>1, <2>2, <2>3, <2>4
<1>6. /\ b \in Seq(Copies) /\ Len(b) = Len(a) + Len(p.rows) /\ Len(a) \in Nat /\ Len(p.rows) \in Nat
      /\ \A n \in 1..Len(a) : n \in 1..Len(b) /\ b[n] = a[n] /\ a[n] \in Copies
      /\ \A n \in 1..Len(p.rows) : Len(a) + n \in 1..Len(b) /\ b[Len(a) + n] = p.rows[n] /\ p.rows[n] \in Copies
      /\ \A n \in 1..Len(b) : n \in 1..Len(a) \/ (n - Len(a) \in 1..Len(p.rows) /\ b[n] = p.rows[n - Len(a)])
  <2>1. Len(a) \in Nat /\ Len(p.rows) \in Nat
    BY <1>5
  <2>2. /\ b \in Seq(Copies) /\ Len(b) = Len(a) + Len(p.rows)
        /\ \A n \in 1..Len(a) + Len(p.rows) : b[n] = IF n <= Len(a) THEN a[n] ELSE p.rows[n - Len(a)]
    <3> HIDE DEF a, b
    <3> QED BY <1>4, <1>5, ConcatProperties
  <2>3. \A n \in 1..Len(a) : a[n] \in Copies
    BY <1>5
  <2>4. \A n \in 1..Len(p.rows) : p.rows[n] \in Copies
    BY <1>5
  <2> DEFINE l == Len(a)
             k == Len(p.rows)
  <2> HIDE DEF a, b
  <2>5. l \in Nat /\ k \in Nat /\ Len(b) = l + k
    BY <2>1, <2>2
  <2>6. \A n \in 1..(l + k) : b[n] = IF n <= l THEN a[n] ELSE p.rows[n - l]
    BY <2>2
  <2> HIDE DEF l, k
  <2>7. \A n \in 1..l : n \in 1..(l + k) /\ b[n] = a[n]
    BY <2>5, <2>6
  <2>8. \A n \in 1..k : l + n \in 1..(l + k) /\ b[l + n] = p.rows[n]
    <3>1. SUFFICES ASSUME NEW n \in 1..k PROVE l + n \in 1..(l + k) /\ b[l + n] = p.rows[n]
      OBVIOUS
    <3>2. l + n \in 1..(l + k) /\ ~(l + n <= l) /\ (l + n) - l = n
      BY <2>5
    <3> QED BY <2>6, <3>2
  <2>9. \A n \in 1..(l + k) : n \in 1..l \/ (n - l \in 1..k /\ b[n] = p.rows[n - l])
    BY <2>5, <2>6
  <2> QED BY <2>2, <2>3, <2>4, <2>5, <2>7, <2>8, <2>9 DEF l, k
<1> HIDE DEF a, b, c
<1>7. \A n \in 1..Len(a), m \in 1..Len(p.rows) : Newer(a[n], p.rows[m])
  <2>1. SUFFICES ASSUME NEW n \in 1..Len(a), NEW m \in 1..Len(p.rows) PROVE Newer(a[n], p.rows[m])
    OBVIOUS
  <2>2. c # NoCursor /\ c \in Copies /\ c = a[Len(a)] /\ Ordered(a)
    BY <1>5, <2>1 DEF ListInv, a, c
  <2>3. Newer(c, p.rows[m])
    BY <1>1, <2>2 DEF BelowIs
  <2>4. n = Len(a) \/ Newer(a[n], c)
    <3>1. Len(a) \in 1..Len(a) /\ (n = Len(a) \/ n < Len(a))
      BY <1>6
    <3> QED BY <2>2, <3>1 DEF Ordered
  <2> QED BY <1>6, <2>2, <2>3, <2>4, NewerOrders
<1>8. Ordered(b)
  <2>1. Ordered(a) /\ Ordered(p.rows)
    BY <1>1 DEF ListInv, BelowIs, a
  <2>2. SUFFICES ASSUME NEW m \in 1..Len(b), NEW n \in 1..Len(b), m < n PROVE Newer(b[m], b[n])
    BY DEF Ordered
  <2>3. CASE n \in 1..Len(a)
    BY <1>6, <2>1, <2>2, <2>3 DEF Ordered
  <2>4. CASE n \notin 1..Len(a) /\ m \in 1..Len(a)
    BY <1>6, <1>7, <2>4
  <2>5. CASE n \notin 1..Len(a) /\ m \notin 1..Len(a)
    <3>1. n - Len(a) \in 1..Len(p.rows) /\ m - Len(a) \in 1..Len(p.rows) /\ m - Len(a) < n - Len(a)
      BY <1>6, <2>2, <2>5
    <3>2. Newer(p.rows[m - Len(a)], p.rows[n - Len(a)])
      BY <2>1, <3>1 DEF Ordered
    <3> QED BY <1>6, <2>5, <3>2
  <2> QED BY <2>3, <2>4, <2>5
<1>9. Kept(rows, v.moved, b)
  BY <1>4, <1>6 DEF ListInv, PageInv, Kept, a
<1>10. NextOf(v) # NoCursor => b # <<>> /\ NextOf(v) = b[Len(b)]
  <2>1. SUFFICES ASSUME p.next # NoCursor PROVE b # <<>> /\ p.next = b[Len(b)]
    BY <1>4
  <2>2. p.rows # <<>> /\ p.next = p.rows[Len(p.rows)]
    BY <1>1, <2>1 DEF BelowIs
  <2>3. Len(p.rows) >= 1
    BY <1>5, <2>2, EmptySeq
  <2>4. Len(p.rows) \in 1..Len(p.rows) /\ Len(b) \in 1..Len(b)
    BY <1>6, <2>3
  <2>5. b[Len(b)] = p.rows[Len(p.rows)]
    BY <1>6, <2>4
  <2>6. b # <<>>
    BY <1>6, <2>4, EmptySeq
  <2> QED BY <2>2, <2>5, <2>6
<1>11. ASSUME NEW i \in Here(rows) \ v.moved, NextOf(v) = NoCursor \/ Newer(Copy(rows, i), NextOf(v))
       PROVE  \E n \in 1..Len(b) : b[n].id = i
  <2>0. Copy(rows, i) \in Copies /\ Copy(rows, i).id = i
    BY CopyOfTable
  <2>1. CASE c = NoCursor \/ Newer(c, Copy(rows, i))
    <3>1. \E n \in 1..Len(p.rows) : p.rows[n].id = i
      BY <1>4, <1>11, <2>1 DEF PageInv, c
    <3> QED BY <1>6, <3>1
  <2>2. CASE c # NoCursor /\ Newer(Copy(rows, i), c)
    <3>1. w.pages # <<>>
      BY <2>2, WalkRows DEF c
    <3>2. \E n \in 1..Len(a) : a[n].id = i
      BY <1>4, <1>11, <2>2, <3>1 DEF ListInv, a, c
    <3> QED BY <1>6, <3>2
  <2>3. CASE c # NoCursor /\ c.id = i
    <3>1. a # <<>> /\ c = a[Len(a)]
      BY <2>3 DEF ListInv, a, c
    <3>2. Len(a) \in 1..Len(a)
      BY <1>5, <1>6, <3>1, EmptySeq
    <3> QED BY <1>6, <2>3, <3>1, <3>2
  <2> QED BY <1>5, <2>0, <2>1, <2>2, <2>3, NewerOrders
<1>12. ListInv(rows, v)
  BY <1>8, <1>9, <1>10, <1>11 DEF ListInv, b
<1>13. DaysInv(rows, v)
  <2> DEFINE l == Len(w.pages)
  <2>0. l \in Nat /\ Len(v.pages) = l + 1 /\ l + 1 \in 1..Len(v.pages) /\ v.pages[l + 1] = q /\ q.days = T
        /\ \A k \in 1..l : k \in 1..Len(v.pages) /\ v.pages[k] = w.pages[k]
    BY <1>3, <1>4, <1>5
  <2>1. /\ \A n \in 1..Len(a) : a[n].date \notin w.stirred => \E k \in 1..l : a[n].date \in DOMAIN w.pages[k].days
        /\ \A k \in 1..l : \A d \in DOMAIN w.pages[k].days \ w.stirred :
             w.pages[k].days[d] = SumOf(DayOf(rows, d))
    BY DEF DaysInv, a
  <2>1a. \A n \in 1..Len(p.rows) : p.rows[n].date \notin w.stirred => p.rows[n].date \in DOMAIN T
    BY <1>2 DEF PageInv, Dated
  <2> HIDE DEF l
  <2>2. ASSUME NEW n \in 1..Len(b), b[n].date \notin v.stirred
        PROVE  \E k \in 1..Len(v.pages) : b[n].date \in DOMAIN v.pages[k].days
    <3>1. CASE n \in 1..Len(a)
      BY <1>4, <1>6, <2>0, <2>1, <2>2, <3>1
    <3>2. CASE n \notin 1..Len(a)
      BY <1>4, <1>6, <2>0, <2>1a, <2>2, <3>2
    <3> QED BY <3>1, <3>2
  <2>3. ASSUME NEW k \in 1..Len(v.pages), NEW d \in DOMAIN v.pages[k].days \ v.stirred
        PROVE  v.pages[k].days[d] = SumOf(DayOf(rows, d))
    <3>1. CASE k = l + 1
      <4>1. v.pages[k].days = T
        BY <2>0, <3>1
      <4>2. d \in DOMAIN T
        BY <2>3, <4>1
      <4> QED BY <1>2, <4>1, <4>2
    <3>2. CASE k # l + 1
      <4>1. k \in 1..l
        BY <2>0, <3>2
      <4> QED BY <1>4, <2>0, <2>1, <2>3, <4>1
    <3> QED BY <3>1, <3>2
  <2> QED BY <2>2, <2>3 DEF DaysInv, b
<1> QED BY <1>4, <1>12, <1>13

Fetches == [kind : {"none", "reread", "next"}, want : Nat, walk : Walks,
            page : Pages \cup {<<>>}, step : {"rows", "totals"}]

FeedTypes ==
  /\ rows \in Tables /\ shown \in Walks /\ fetch \in Fetches /\ behind \in BOOLEAN
  /\ version \in Nat /\ waiting \in Nat /\ owing \in Nat /\ due \in Nat
  /\ missed \in BOOLEAN /\ reads \in Nat

FeedInv ==
  /\ FeedTypes
  /\ ListInv(rows, shown) /\ DaysInv(rows, shown)
  /\ ListInv(rows, fetch.walk) /\ DaysInv(rows, fetch.walk)
  /\ fetch.walk.pages # <<>> => NextOf(fetch.walk) # NoCursor
  /\ fetch.step = "totals" => PageInv(rows, fetch.walk, fetch.page)

LEMMA NoTotals == <<>> \in Totals
<1>1. <<>> \in [{} -> {SumOf(c) : c \in SUBSET Copies}]
  OBVIOUS
<1> QED BY <1>1 DEF Totals

LEMMA WalkBegins ==
  ASSUME NEW t \in Tables, NEW w \in Walks, w.pages = <<>>
  PROVE  ListInv(t, w) /\ DaysInv(t, w) /\ NextOf(w) = NoCursor
<1>1. RowsOf(w) = <<>> /\ NextOf(w) = NoCursor
  BY WalkRows
<1>2. Len(<<>>) = 0 /\ \A n : n \notin 1..0
  OBVIOUS
<1> QED BY <1>1, <1>2 DEF ListInv, DaysInv, Ordered, Kept

LEMMA EmptyWalk ==
  /\ NoWalk \in Walks /\ NoWalk.pages = <<>> /\ NoWalk.at = 0 /\ NoWalk.moved = {}
  /\ \A n \in Nat : [NoWalk EXCEPT !.at = n] \in Walks /\ [NoWalk EXCEPT !.at = n].pages = <<>>
                    /\ [NoWalk EXCEPT !.at = n].at = n /\ [NoWalk EXCEPT !.at = n].moved = {}
BY EmptySeq DEF NoWalk, Walks

LEMMA NoFetchIs ==
  /\ NoFetch \in Fetches /\ NoFetch.walk = NoWalk /\ NoFetch.step = "rows" /\ NoFetch.kind = "none"
BY EmptyWalk DEF NoFetch, Fetches

LEMMA RereadingIs ==
  ASSUME FeedTypes
  PROVE  /\ Rereading \in Fetches /\ Rereading.walk = NoWalk /\ Rereading.step = "rows"
         /\ Rereading.kind = "reread"
<1>1. Len(shown.pages) \in Nat
  BY DEF FeedTypes, Walks
<1> QED BY <1>1, EmptyWalk DEF Rereading, NoFetch, Fetches

\* A page read below the cursor of a walk goes on where the walk ends.
LEMMA PageStarts ==
  ASSUME rows \in Tables, NEW w \in Walks, NEW p, p = PageOf(Found(NextOf(w)))
  PROVE  PageInv(rows, w, p)
<1> DEFINE c == NextOf(w)
<1>1. c \in Copies \cup {NoCursor}
  BY WalkRows
<1>3. p = PageOf(Found(c))
  OBVIOUS
<1> HIDE DEF c
<1>4. /\ p = [rows |-> p.rows, next |-> p.next, days |-> <<>>]
      /\ BelowIs(c, p)
      /\ \A n \in 1..Len(p.rows) : \E i \in Here(rows) : p.rows[n] = Copy(rows, i)
      /\ \A i \in Under(c) : p.next = NoCursor \/ Newer(Copy(rows, i), p.next)
           => \E n \in 1..Len(p.rows) : p.rows[n] = Copy(rows, i)
  BY <1>1, <1>3, PageIs
<1>5. p \in Pages
  <2>1. p.rows \in Seq(Copies) /\ p.next \in Copies \cup {NoCursor}
    BY <1>4 DEF BelowIs
  <2>2. [rows |-> p.rows, next |-> p.next, days |-> <<>>] \in Pages
    BY <2>1, NoTotals DEF Pages
  <2> QED BY <1>4, <2>2
<1>6. \A n \in 1..Len(p.rows) : Current(rows, p.rows[n])
  BY <1>4, CopyOfTable DEF Current
<1>7. ASSUME NEW i \in Here(rows) \ w.moved, c = NoCursor \/ Newer(c, Copy(rows, i)),
             p.next = NoCursor \/ Newer(Copy(rows, i), p.next)
      PROVE  \E n \in 1..Len(p.rows) : p.rows[n].id = i
  <2>1. i \in Under(c)
    BY <1>7 DEF Under
  <2> QED BY <1>4, <1>7, <2>1, CopyOfTable
<1>8. Kept(rows, w.moved, p.rows) /\ Dated(rows, w.stirred, p.rows)
  BY <1>6 DEF Kept, Dated
<1> QED BY <1>4, <1>5, <1>7, <1>8 DEF PageInv, c

-----------------------------------------------------------------------------
LEMMA FeedStarts == FeedInit => FeedInv
<1>1. SUFFICES ASSUME FeedInit PROVE FeedInv
  OBVIOUS
<1>2. /\ rows \in Tables /\ shown = NoWalk /\ version = 0 /\ behind = FALSE /\ waiting = 0 /\ due = 0
      /\ owing = 0 /\ missed = FALSE /\ reads = 1 /\ fetch = [NoFetch EXCEPT !.kind = "reread", !.want = 1]
  BY <1>1 DEF FeedInit, Tables
<1>3. fetch \in Fetches /\ fetch.walk = NoWalk /\ fetch.step = "rows"
  BY <1>2, EmptyWalk DEF NoFetch, Fetches
<1>4. FeedTypes
  BY <1>2, <1>3, EmptyWalk DEF FeedTypes
<1>5. ListInv(rows, NoWalk) /\ DaysInv(rows, NoWalk)
  BY <1>2, EmptyWalk, WalkBegins
<1> QED BY <1>2, <1>3, <1>4, <1>5, EmptyWalk DEF FeedInv

LEMMA WriteStep ==
  ASSUME FeedInv, NEW i \in Ids, NEW row \in Rows \cup {Gone}, NEW own \in BOOLEAN, Write(i, row, own)
  PROVE  FeedInv'
<1> USE DEF FeedInv
<1>1. Becomes(rows', rows, i, row) /\ rows \in Tables
  BY DEF Write, Becomes, FeedTypes
<1>2. rows' \in Tables
  BY <1>1, WriteKeeps
<1>3. shown' \in Walks /\ ListInv(rows', shown') /\ DaysInv(rows', shown')
  <2>1. Stirs(shown', shown, rows, i, row)
    BY DEF Write, Stirred, Stirs
  <2> QED BY <1>1, <2>1, WalkStirs DEF FeedTypes
<1>4. /\ fetch' \in Fetches
      /\ ListInv(rows', fetch'.walk) /\ DaysInv(rows', fetch'.walk)
      /\ fetch'.walk.pages # <<>> => NextOf(fetch'.walk) # NoCursor
      /\ fetch'.step = "totals" => PageInv(rows', fetch'.walk, fetch'.page)
  <2>1. CASE fetch = NoFetch
    <3>1. fetch' = NoFetch
      BY <2>1 DEF Write
    <3> QED BY <1>2, <3>1, NoFetchIs, EmptyWalk, WalkBegins
  <2>2. CASE fetch # NoFetch
    <3> DEFINE w == fetch.walk
               v == [w EXCEPT !.moved = @ \cup {i}, !.stirred = @ \cup {rows[i].date, row.date}]
    <3>0. w \in Walks /\ fetch \in Fetches
      BY DEF FeedTypes, Fetches
    <3>1. fetch' = [fetch EXCEPT !.walk = v]
      BY <2>2 DEF Write, Stirred
    <3>a. Stirs(v, w, rows, i, row)
      BY DEF Stirs
    <3> HIDE DEF v, w
    <3>2. /\ v \in Walks /\ v.pages = w.pages /\ NextOf(v) = NextOf(w)
          /\ ListInv(rows, w) => ListInv(rows', v)
          /\ DaysInv(rows, w) => DaysInv(rows', v)
          /\ \A p : PageInv(rows, w, p) => PageInv(rows', v, p)
      BY <1>1, <3>0, <3>a, WalkStirs
    <3>3. /\ fetch' \in Fetches /\ fetch'.walk = v /\ fetch'.step = fetch.step /\ fetch'.page = fetch.page
      BY <3>0, <3>1, <3>2 DEF Fetches, w
    <3> QED BY <3>2, <3>3 DEF w
  <2> QED BY <2>1, <2>2
<1>5. version' \in Nat /\ waiting' \in Nat /\ UNCHANGED <<behind, owing, due, missed, reads>>
  BY DEF Write, FeedTypes
<1> QED BY <1>2, <1>3, <1>4, <1>5 DEF FeedTypes

(* A re-read begins anew, or joins the first loading.                       *)
LEMMA RereadIs ==
  ASSUME Reread
  PROVE  \/ fetch' = Rereading /\ reads' = reads + 1 /\ missed' = FALSE
         \/ UNCHANGED <<fetch, reads>> /\ missed' = TRUE
BY DEF Reread, Begin

LEMMA RereadStep ==
  ASSUME FeedInv, Reread, UNCHANGED <<rows, version, shown, behind, waiting, due>>, owing' \in Nat
  PROVE  FeedInv'
<1>1. CASE fetch' = Rereading /\ reads' = reads + 1 /\ missed' = FALSE
  <2>1. rows' \in Tables /\ rows' = rows /\ shown' = shown
    BY DEF FeedInv, FeedTypes
  <2>2. fetch' \in Fetches /\ fetch'.walk = NoWalk /\ fetch'.step = "rows"
    BY <1>1, RereadingIs DEF FeedInv
  <2>3. ListInv(rows', NoWalk) /\ DaysInv(rows', NoWalk)
    BY <2>1, EmptyWalk, WalkBegins
  <2>4. FeedTypes'
    <3>1. /\ shown \in Walks /\ behind \in BOOLEAN /\ reads \in Nat
          /\ version \in Nat /\ waiting \in Nat /\ due \in Nat
      BY DEF FeedInv, FeedTypes
    <3>2. missed' = FALSE
      BY <1>1
    <3>3. reads' \in Nat
      BY <1>1, <3>1
    <3> QED BY <2>1, <2>2, <3>1, <3>2, <3>3 DEF FeedTypes
  <2> QED BY <2>1, <2>2, <2>3, <2>4, EmptyWalk DEF FeedInv
<1>2. CASE UNCHANGED <<fetch, reads>> /\ missed' = TRUE
  BY <1>2 DEF FeedInv, FeedTypes
<1> QED BY <1>1, <1>2, RereadIs

LEMMA ReachEdgeStep == ASSUME FeedInv, ReachEdge PROVE FeedInv'
<1>1. /\ fetch' = [kind |-> "next", want |-> Len(shown.pages) + 1, walk |-> shown, page |-> <<>>, step |-> "rows"]
      /\ reads' = reads + 1 /\ UNCHANGED <<rows, version, shown, behind, waiting, owing, due>>
      /\ missed' = (missed \/ fetch.kind = "reread") /\ NextOf(shown) # NoCursor
  BY DEF ReachEdge, Begin, HasNextPage
<1>2. fetch' \in Fetches /\ fetch'.walk = shown /\ fetch'.step = "rows"
  <2>1. Len(shown.pages) \in Nat /\ shown \in Walks
    BY DEF FeedInv, FeedTypes, Walks
  <2> QED BY <1>1, <2>1 DEF Fetches
<1>3. FeedTypes'
  BY <1>1, <1>2 DEF FeedInv, FeedTypes
<1> QED BY <1>1, <1>2, <1>3 DEF FeedInv

LEMMA ReadRowsStep == ASSUME FeedInv, ReadRows PROVE FeedInv'
<1> DEFINE w == IF fetch.walk.pages = <<>> THEN [NoWalk EXCEPT !.at = version] ELSE fetch.walk
           p == PageOf(Found(NextOf(w)))
<1>1. fetch' = [fetch EXCEPT !.walk = w, !.step = "totals", !.page = p]
      /\ UNCHANGED <<rows, version, shown, behind, waiting, owing, due, missed, reads>>
  BY DEF ReadRows
<1>2. FeedTypes /\ fetch.walk \in Walks /\ fetch \in Fetches /\ rows \in Tables /\ version \in Nat
  BY DEF FeedInv, FeedTypes, Fetches
<1>3. w \in Walks /\ ListInv(rows, w) /\ DaysInv(rows, w) /\ (w.pages # <<>> => NextOf(w) # NoCursor)
  <2>1. CASE fetch.walk.pages = <<>>
    <3>1. w = [NoWalk EXCEPT !.at = version]
      BY <2>1
    <3> HIDE DEF w
    <3>2. w \in Walks /\ w.pages = <<>>
      BY <1>2, <3>1, EmptyWalk
    <3> QED BY <1>2, <3>2, WalkBegins
  <2>2. CASE fetch.walk.pages # <<>>
    BY <1>2, <2>2 DEF FeedInv
  <2> QED BY <2>1, <2>2
<1> HIDE DEF w
<1>4. PageInv(rows, w, p)
  BY <1>2, <1>3, PageStarts
<1> HIDE DEF p
<1>5. p \in Pages
  BY <1>4 DEF PageInv
<1>6. /\ fetch' \in Fetches /\ fetch'.walk = w /\ fetch'.page = p
  BY <1>1, <1>2, <1>3, <1>5 DEF Fetches
<1>7. FeedTypes'
  BY <1>1, <1>2, <1>6 DEF FeedTypes
<1> QED BY <1>1, <1>3, <1>4, <1>6, <1>7 DEF FeedInv

LEMMA ReadTotalsStep == ASSUME FeedInv, ReadTotals PROVE FeedInv'
<1> DEFINE p == fetch.page
           w == fetch.walk
           q == [p EXCEPT !.days = IF p.rows = <<>> THEN <<>> ELSE TotalsOf(p)]
           v == [w EXCEPT !.pages = Append(@, q)]
<1>0. FeedTypes /\ w \in Walks /\ fetch \in Fetches /\ rows \in Tables /\ PageInv(rows, w, p)
  BY DEF FeedInv, FeedTypes, Fetches, ReadTotals
<1>1. /\ v \in Walks /\ v.pages # <<>> /\ NextOf(v) = p.next
      /\ ListInv(rows, v) /\ DaysInv(rows, v)
  <2>1. Totalled(q, p) /\ Appends(v, w, q)
    BY DEF Totalled, Appends
  <2>2. ListInv(rows, w) /\ DaysInv(rows, w) /\ (w.pages # <<>> => NextOf(w) # NoCursor)
    BY DEF FeedInv
  <2> HIDE DEF p, w, q, v
  <2> QED BY <1>0, <2>1, <2>2, WalkGrows
<1>2. q.next = p.next
  <2>1. p \in Pages
    BY <1>0 DEF PageInv
  <2> QED BY <2>1 DEF Pages
<1>3. /\ \/ /\ p.next # NoCursor /\ UNCHANGED <<shown, behind>>
            /\ fetch' = [fetch EXCEPT !.walk = v, !.step = "rows", !.page = <<>>]
         \/ /\ fetch' = NoFetch /\ shown' = v /\ behind' = (behind /\ fetch.kind = "next")
      /\ UNCHANGED <<rows, version, waiting, owing, due, missed, reads>>
  <2>1. /\ IF Len(v.pages) < fetch.want /\ q.next # NoCursor
             THEN /\ fetch' = [fetch EXCEPT !.walk = v, !.step = "rows", !.page = <<>>]
                  /\ UNCHANGED <<shown, behind>>
             ELSE /\ fetch' = NoFetch /\ shown' = v
                  /\ behind' = (behind /\ fetch.kind = "next")
        /\ UNCHANGED <<rows, version, waiting, owing, due, missed, reads>>
    BY DEF ReadTotals
  <2> HIDE DEF v, q
  <2> QED BY <1>2, <2>1
<1> HIDE DEF p, w, q, v
<1>4. CASE fetch' = NoFetch /\ shown' = v /\ behind' = (behind /\ fetch.kind = "next")
  <2>1. fetch' \in Fetches /\ fetch'.walk = NoWalk /\ fetch'.step = "rows"
    BY <1>4, NoFetchIs
  <2>2. ListInv(rows', NoWalk) /\ DaysInv(rows', NoWalk)
    BY <1>0, <1>3, EmptyWalk, WalkBegins
  <2>3. FeedTypes'
    <3>1. behind' \in BOOLEAN
      BY <1>0, <1>4 DEF FeedTypes
    <3> QED BY <1>0, <1>1, <1>3, <1>4, <2>1, <3>1 DEF FeedTypes
  <2> QED BY <1>1, <1>3, <1>4, <2>1, <2>2, <2>3, EmptyWalk DEF FeedInv
<1>5. CASE /\ p.next # NoCursor /\ UNCHANGED <<shown, behind>>
           /\ fetch' = [fetch EXCEPT !.walk = v, !.step = "rows", !.page = <<>>]
  <2>1. fetch' \in Fetches /\ fetch'.walk = v /\ fetch'.step = "rows"
    BY <1>0, <1>1, <1>5 DEF Fetches
  <2>2. FeedTypes'
    BY <1>0, <1>3, <1>5, <2>1 DEF FeedTypes
  <2> QED BY <1>1, <1>3, <1>5, <2>1, <2>2 DEF FeedInv
<1> QED BY <1>3, <1>4, <1>5

LEMMA FailStep == ASSUME FeedInv, Fail PROVE FeedInv'
<1>1. fetch' = NoFetch /\ behind' = (behind \/ fetch.kind = "reread")
      /\ UNCHANGED <<rows, version, shown, waiting, owing, due, missed, reads>>
  BY DEF Fail
<1>2. ListInv(rows', NoWalk) /\ DaysInv(rows', NoWalk)
  BY <1>1, EmptyWalk, WalkBegins DEF FeedInv, FeedTypes
<1>3. FeedTypes'
  <2>1. behind' \in BOOLEAN
    BY <1>1 DEF FeedInv, FeedTypes
  <2> QED BY <1>1, <2>1, NoFetchIs DEF FeedInv, FeedTypes
<1> QED BY <1>1, <1>2, <1>3, NoFetchIs, EmptyWalk DEF FeedInv

LEMMA FeedStep == ASSUME FeedInv, [FeedNext]_feedVars PROVE FeedInv'
<1>1. ASSUME NEW i \in Ids, NEW row \in Rows \cup {Gone}, NEW own \in BOOLEAN, Write(i, row, own)
      PROVE  FeedInv'
  BY <1>1, WriteStep
<1>2. CASE Answer
  <2>1. UNCHANGED <<rows, version, shown, fetch, behind, missed, reads>>
        /\ waiting' = 0 /\ due' = waiting /\ owing' = owing + 1
    BY <1>2 DEF Answer
  <2> QED BY <2>1 DEF FeedInv, FeedTypes
<1>3. CASE RereadList
  <2>1. Reread /\ UNCHANGED <<rows, version, shown, behind, waiting, due>> /\ owing' \in Nat
    BY <1>3 DEF RereadList, FeedInv, FeedTypes
  <2> QED BY <2>1, RereadStep
<1>4. CASE Focus
  <2>1. Reread /\ UNCHANGED <<rows, version, shown, behind, waiting, due>> /\ owing' \in Nat
    BY <1>4 DEF Focus, FeedInv, FeedTypes
  <2> QED BY <2>1, RereadStep
<1>5. CASE UNCHANGED feedVars
  BY <1>5 DEF feedVars, FeedInv, FeedTypes
<1> QED BY <1>1, <1>2, <1>3, <1>4, <1>5, ReachEdgeStep, ReadRowsStep, ReadTotalsStep, FailStep DEF FeedNext

LEMMA FeedHolds == FeedSpec => []FeedInv
BY FeedStarts, FeedStep, PTL DEF FeedSpec

-----------------------------------------------------------------------------
LEMMA SteadyOnce == ASSUME FeedInv PROVE SteadyRowsOnce
<1> DEFINE all == RowsOf(shown)
           places(i) == {n \in DOMAIN all : all[n].id = i}
<1>1. /\ all \in Seq(Copies) /\ DOMAIN all = 1..Len(all)
  BY WalkRows DEF FeedInv, FeedTypes
<1>2. ListInv(rows, shown)
  BY DEF FeedInv
<1>3. ASSUME NEW i \in Steady(shown) PROVE Cardinality(places(i)) <= 1
  <2>1. \A m, n \in places(i) : m = n
    <3>1. SUFFICES ASSUME NEW m \in places(i), NEW n \in places(i) PROVE ~(m < n) /\ ~(n < m)
      BY <1>1
    <3>2. m \in 1..Len(all) /\ n \in 1..Len(all) /\ all[m].id = i /\ all[n].id = i
      BY <1>1
    <3>3. all[m] = Copy(rows, i) /\ all[n] = Copy(rows, i) /\ all[m] \in Copies
      BY <1>1, <1>2, <1>3, <3>2 DEF ListInv, Kept, Current, Steady
    <3>4. ~Newer(all[m], all[n]) /\ ~Newer(all[n], all[m])
      BY <3>3, NewerOrders
    <3> QED BY <1>2, <3>2, <3>4 DEF ListInv, Ordered
  <2> HIDE DEF places
  <2>2. CASE places(i) = {}
    <3>1. Cardinality(places(i)) = 0
      BY <2>2, FS_EmptySet
    <3> QED BY <3>1
  <2>3. CASE places(i) # {}
    <3>1. PICK n : places(i) = {n}
      BY <2>1, <2>3
    <3>2. Cardinality({n}) = 1
      BY FS_Singleton
    <3>3. Cardinality(places(i)) = 1
      BY <3>1, <3>2
    <3> QED BY <3>3
  <2> QED BY <2>2, <2>3
<1>4. ASSUME NEW i \in Steady(shown), shown.pages # <<>>,
             NextOf(shown) = NoCursor \/ Newer(Copy(rows, i), NextOf(shown))
      PROVE  places(i) # {}
  <2>1. i \in Here(rows) \ shown.moved
    BY DEF Steady
  <2>2. PICK n \in 1..Len(all) : all[n].id = i
    BY <1>2, <1>4, <2>1 DEF ListInv
  <2> QED BY <1>1, <2>2
<1> QED BY <1>3, <1>4 DEF SteadyRowsOnce

LEMMA LeastIs == ASSUME NEW S \in SUBSET Nat, S # {} PROVE Min(S) \in S
<1>1. PICK n \in S : \A m \in S : ~(<<m, n>> \in OpToRel(<, Nat))
  BY NatLessThanWellFounded, WFMin
<1>2. \A m \in S : ~(m < n)
  BY <1>1 DEF OpToRel
<1>3. \A m \in S : n <= m
  BY <1>2
<1> QED BY <1>3 DEF Min

LEMMA DaysAreWhole == ASSUME FeedInv PROVE WholeDays
<1> DEFINE all == RowsOf(shown)
           P == shown.pages
<1>1. DOMAIN all = 1..Len(all) /\ DOMAIN P = 1..Len(P) /\ Len(P) \in Nat
  <2>1. all \in Seq(Copies) /\ P \in Seq(Pages)
    BY WalkRows DEF FeedInv, FeedTypes, Walks
  <2> QED BY <2>1
<1>2. ASSUME NEW d \in {x.date : x \in FeedDays(shown)} \ shown.stirred
      PROVE  TotalOf(shown, d) = SumOf({Copy(rows, i) : i \in {j \in Here(rows) : rows[j].date = d}})
  <2> DEFINE with == {n \in DOMAIN P : d \in DOMAIN P[n].days}
  <2>1. PICK n \in 1..Len(all) : all[n].date = d
    BY <1>1 DEF FeedDays
  <2>2. DaysInv(rows, shown)
    BY DEF FeedInv
  <2>3. with # {} /\ with \in SUBSET Nat
    BY <1>1, <1>2, <2>1, <2>2 DEF DaysInv
  <2>4. TotalOf(shown, d) = P[Min(with)].days[d]
    BY <2>3 DEF TotalOf
  <2>5. Min(with) \in with
    BY <2>3, LeastIs
  <2>6. P[Min(with)].days[d] = SumOf(DayOf(rows, d))
    <3>1. Min(with) \in 1..Len(P) /\ d \in DOMAIN P[Min(with)].days \ shown.stirred
      BY <1>1, <1>2, <2>5
    <3> HIDE DEF with
    <3> QED BY <2>2, <3>1 DEF DaysInv
  <2> QED BY <2>4, <2>6 DEF DayOf
<1> QED BY <1>2 DEF WholeDays

(* A page boundary neither repeats a record nor skips one that nobody wrote to since the   *)
(* first page was read, whatever became of the others (list's cursor: date, created, id).  *)
THEOREM PageEdgesHold == FeedSpec => []SteadyRowsOnce
BY FeedHolds, SteadyOnce, PTL

(* The total shown for a day is that of the whole day, however it is cut into pages (list  *)
(* sums the days a page runs over, not the rows it holds), unless it was written to.       *)
THEOREM TotalsAreOfWholeDays == FeedSpec => []WholeDays
BY FeedHolds, DaysAreWhole, PTL

-----------------------------------------------------------------------------
(* What the feed is at rest.  A re-read that has begun was begun after the last answer,    *)
(* unless one is still to come or the last was not a fetch of its own; a walk read at the  *)
(* present version has nothing of it moved.                                                *)
Begun == fetch.walk.pages # <<>> \/ fetch.step = "totals"

CaughtInv ==
  /\ due <= version /\ waiting <= version
  /\ fetch.kind = "none" => fetch = NoFetch
  /\ fetch.kind = "next" => fetch.walk.pages # <<>> /\ fetch.walk.at = shown.at
  /\ owing = 0 /\ ~missed =>
       /\ fetch.kind = "reread" /\ Begun => fetch.walk.at >= due
       /\ fetch.kind # "reread" /\ ~behind => shown.at >= due

UnmovedInv ==
  /\ shown.at <= version /\ (shown.at = version => shown.moved = {})
  /\ fetch.walk.at <= version
  /\ Begun /\ fetch.walk.at = version => fetch.walk.moved = {}

OwnInv == ~Elsewhere => version = IF waiting = 0 THEN due ELSE waiting

RestInv == CaughtInv /\ UnmovedInv /\ OwnInv

LEMMA RestInit == FeedInit => FeedInv /\ RestInv
<1>1. SUFFICES ASSUME FeedInit PROVE RestInv
  BY FeedStarts
<1>2. /\ shown = NoWalk /\ version = 0 /\ behind = FALSE /\ waiting = 0 /\ due = 0
      /\ owing = 0 /\ missed = FALSE /\ fetch = [NoFetch EXCEPT !.kind = "reread", !.want = 1]
  BY <1>1 DEF FeedInit
<1>3. fetch.kind = "reread" /\ fetch.walk = NoWalk /\ fetch.step = "rows"
  BY <1>2 DEF NoFetch
<1> QED BY <1>2, <1>3, EmptyWalk DEF RestInv, CaughtInv, UnmovedInv, OwnInv, Begun

LEMMA RestWrite ==
  ASSUME FeedInv, RestInv, NEW i \in Ids, NEW row \in Rows \cup {Gone}, NEW own \in BOOLEAN, Write(i, row, own)
  PROVE  RestInv'
<1>0. /\ version \in Nat /\ waiting \in Nat /\ due \in Nat /\ shown \in Walks /\ fetch.walk \in Walks /\ fetch \in Fetches
      /\ shown.at \in Nat /\ fetch.walk.at \in Nat
  BY DEF FeedInv, FeedTypes, Fetches, Walks
<1>1. /\ version' = version + 1 /\ UNCHANGED <<due, behind, owing, missed>>
      /\ waiting' = (IF own THEN version + 1 ELSE waiting) /\ (own \/ Elsewhere)
  BY DEF Write
<1>2. shown'.at = shown.at
  BY <1>0 DEF Write, Stirred, Walks
<1>3. /\ fetch'.kind = fetch.kind /\ fetch'.step = fetch.step /\ fetch'.walk.pages = fetch.walk.pages
      /\ fetch'.walk.at = fetch.walk.at /\ (fetch = NoFetch => fetch' = NoFetch)
  <2>1. CASE fetch = NoFetch
    BY <2>1 DEF Write
  <2>2. CASE fetch # NoFetch
    <3> DEFINE v == Stirred(fetch.walk, i, row)
    <3>1. fetch' = [fetch EXCEPT !.walk = v]
      BY <2>2 DEF Write
    <3>2. v.pages = fetch.walk.pages /\ v.at = fetch.walk.at
      BY <1>0 DEF Stirred, Walks
    <3> HIDE DEF v
    <3> QED BY <1>0, <2>2, <3>1, <3>2 DEF Fetches
  <2> QED BY <2>1, <2>2
<1>4. Begun' <=> Begun
  BY <1>3 DEF Begun
<1>5. CaughtInv'
  BY <1>0, <1>1, <1>2, <1>3, <1>4 DEF RestInv, CaughtInv
<1>6. UnmovedInv'
  BY <1>0, <1>1, <1>2, <1>3 DEF RestInv, UnmovedInv
<1>7. OwnInv'
  BY <1>0, <1>1 DEF OwnInv
<1> QED BY <1>5, <1>6, <1>7 DEF RestInv

LEMMA RestAnswer == ASSUME FeedInv, RestInv, Answer PROVE RestInv'
<1>1. /\ waiting # 0 /\ waiting' = 0 /\ due' = waiting /\ owing' = owing + 1
      /\ UNCHANGED <<rows, version, shown, fetch, behind, missed, reads>>
  BY DEF Answer
<1>2. version \in Nat /\ waiting \in Nat /\ owing \in Nat /\ due \in Nat
  BY DEF FeedInv, FeedTypes
<1>3. owing' # 0
  BY <1>1, <1>2
<1>4. CaughtInv'
  BY <1>1, <1>2, <1>3 DEF RestInv, CaughtInv
<1> QED BY <1>1, <1>2, <1>4 DEF RestInv, UnmovedInv, OwnInv, Begun

LEMMA RestReread ==
  ASSUME FeedInv, RestInv, Reread, UNCHANGED <<version, shown, behind, waiting, due>>
  PROVE  RestInv'
<1>0. /\ version \in Nat /\ waiting \in Nat /\ due \in Nat /\ shown.at \in Nat
  BY DEF FeedInv, FeedTypes, Walks
<1>1. CASE fetch' = Rereading
  <2>1. fetch'.walk = NoWalk /\ fetch'.step = "rows" /\ fetch'.kind = "reread"
    BY <1>1, RereadingIs DEF FeedInv
  <2>2. ~Begun'
    BY <2>1, EmptyWalk DEF Begun
  <2>3. CaughtInv'
    BY <1>0, <2>1, <2>2, EmptyWalk DEF RestInv, CaughtInv
  <2>4. UnmovedInv'
    BY <1>0, <2>1, <2>2, EmptyWalk DEF RestInv, UnmovedInv
  <2> QED BY <2>3, <2>4 DEF RestInv, OwnInv
<1>2. CASE fetch' = fetch /\ missed' = TRUE
  BY <1>2 DEF RestInv, CaughtInv, UnmovedInv, OwnInv, Begun
<1> QED BY <1>1, <1>2, RereadIs

LEMMA RestReachEdge == ASSUME FeedInv, RestInv, ReachEdge PROVE RestInv'
<1>1. /\ fetch' = [kind |-> "next", want |-> Len(shown.pages) + 1, walk |-> shown, page |-> <<>>, step |-> "rows"]
      /\ UNCHANGED <<version, shown, behind, waiting, owing, due>> /\ shown.pages # <<>>
      /\ missed' = (missed \/ fetch.kind = "reread")
  BY DEF ReachEdge, Begin, HasNextPage
<1>2. fetch'.kind = "next" /\ fetch'.walk = shown /\ fetch'.step = "rows"
  BY <1>1
<1>3. CaughtInv'
  <2>1. CASE fetch.kind = "reread"
    BY <1>1, <1>2, <2>1 DEF RestInv, CaughtInv
  <2>2. CASE fetch.kind # "reread"
    BY <1>1, <1>2, <2>2 DEF RestInv, CaughtInv, FeedInv, FeedTypes
  <2> QED BY <2>1, <2>2
<1>4. UnmovedInv'
  BY <1>1, <1>2 DEF RestInv, UnmovedInv
<1>5. OwnInv'
  BY <1>1 DEF RestInv, OwnInv
<1> QED BY <1>3, <1>4, <1>5 DEF RestInv

LEMMA RestReadRows == ASSUME FeedInv, RestInv, ReadRows PROVE RestInv'
<1> DEFINE w == IF fetch.walk.pages = <<>> THEN [NoWalk EXCEPT !.at = version] ELSE fetch.walk
<1>0. fetch \in Fetches /\ version \in Nat /\ due \in Nat
  BY DEF FeedInv, FeedTypes
<1>1. /\ fetch' = [fetch EXCEPT !.walk = w, !.step = "totals", !.page = PageOf(Found(NextOf(w)))]
      /\ UNCHANGED <<rows, version, shown, behind, waiting, owing, due, missed, reads>> /\ fetch # NoFetch
  BY DEF ReadRows
<1>2. \/ fetch.walk.pages # <<>> /\ w = fetch.walk
      \/ fetch.walk.pages = <<>> /\ w.at = version /\ w.moved = {}
  BY <1>0, EmptyWalk
<1> HIDE DEF w
<1>3. fetch'.walk = w /\ fetch'.step = "totals" /\ fetch'.kind = fetch.kind /\ fetch.kind # "none"
  BY <1>0, <1>1 DEF Fetches, RestInv, CaughtInv
<1>4. CaughtInv'
  BY <1>0, <1>1, <1>2, <1>3 DEF RestInv, CaughtInv, Begun
<1>5. UnmovedInv'
  BY <1>0, <1>1, <1>2, <1>3 DEF RestInv, UnmovedInv, Begun
<1>6. OwnInv'
  BY <1>1 DEF RestInv, OwnInv
<1> QED BY <1>4, <1>5, <1>6 DEF RestInv

LEMMA RestReadTotals == ASSUME FeedInv, RestInv, ReadTotals PROVE RestInv'
<1> DEFINE w == fetch.walk
           q == [fetch.page EXCEPT !.days = IF fetch.page.rows = <<>> THEN <<>> ELSE TotalsOf(fetch.page)]
           v == [w EXCEPT !.pages = Append(@, q)]
<1>0. fetch \in Fetches /\ version \in Nat /\ due \in Nat /\ w \in Walks /\ w.at \in Nat
  BY DEF FeedInv, FeedTypes, Fetches, Walks
<1>1. /\ \/ /\ fetch' = [fetch EXCEPT !.walk = v, !.step = "rows", !.page = <<>>] /\ UNCHANGED <<shown, behind>>
         \/ /\ fetch' = NoFetch /\ shown' = v /\ behind' = (behind /\ fetch.kind = "next")
      /\ UNCHANGED <<rows, version, waiting, owing, due, missed, reads>> /\ fetch.step = "totals"
  <2>1. /\ IF Len(v.pages) < fetch.want /\ q.next # NoCursor
             THEN /\ fetch' = [fetch EXCEPT !.walk = v, !.step = "rows", !.page = <<>>]
                  /\ UNCHANGED <<shown, behind>>
             ELSE /\ fetch' = NoFetch /\ shown' = v
                  /\ behind' = (behind /\ fetch.kind = "next")
        /\ UNCHANGED <<rows, version, waiting, owing, due, missed, reads>> /\ fetch.step = "totals"
    BY DEF ReadTotals
  <2> HIDE DEF v, q
  <2> QED BY <2>1
<1>2. v.at = w.at /\ v.moved = w.moved /\ v.pages # <<>>
  <2>1. Append(w.pages, q) # <<>>
    BY <1>0 DEF Walks
  <2> QED BY <1>0, <2>1 DEF Walks
<1>3. fetch.kind \in {"reread", "next"}
  BY <1>0, <1>1, NoFetchIs DEF RestInv, CaughtInv, Fetches
<1> HIDE DEF v
<1>4. CASE fetch' = [fetch EXCEPT !.walk = v, !.step = "rows", !.page = <<>>] /\ UNCHANGED <<shown, behind>>
  <2>1. fetch'.walk = v /\ fetch'.kind = fetch.kind
    BY <1>0, <1>4 DEF Fetches
  <2> QED BY <1>0, <1>1, <1>2, <1>3, <1>4, <2>1 DEF RestInv, CaughtInv, UnmovedInv, OwnInv, Begun
<1>5. CASE fetch' = NoFetch /\ shown' = v /\ behind' = (behind /\ fetch.kind = "next")
  <2>1. fetch'.walk = NoWalk /\ fetch'.kind = "none" /\ fetch'.step = "rows"
    BY <1>5, NoFetchIs
  <2>2. CaughtInv'
    BY <1>0, <1>1, <1>2, <1>3, <1>5, <2>1 DEF RestInv, CaughtInv, Begun
  <2>3. UnmovedInv'
    BY <1>0, <1>1, <1>2, <1>5, <2>1, EmptyWalk DEF RestInv, UnmovedInv, Begun
  <2> QED BY <1>1, <2>2, <2>3 DEF RestInv, OwnInv
<1> QED BY <1>1, <1>4, <1>5

LEMMA RestFail == ASSUME FeedInv, RestInv, Fail PROVE RestInv'
<1>1. fetch' = NoFetch /\ behind' = (behind \/ fetch.kind = "reread")
      /\ UNCHANGED <<rows, version, shown, waiting, owing, due, missed, reads>>
  BY DEF Fail
<1>2. fetch'.walk = NoWalk /\ fetch'.kind = "none" /\ fetch'.step = "rows" /\ version \in Nat
  BY <1>1, NoFetchIs DEF FeedInv, FeedTypes
<1>3. CaughtInv'
  BY <1>1, <1>2 DEF RestInv, CaughtInv
<1>4. UnmovedInv'
  BY <1>1, <1>2, EmptyWalk DEF RestInv, UnmovedInv, Begun
<1> QED BY <1>1, <1>3, <1>4 DEF RestInv, OwnInv

LEMMA RestStep == ASSUME FeedInv, RestInv, [FeedNext]_feedVars PROVE RestInv'
<1>1. CASE RereadList
  BY <1>1, RestReread DEF RereadList
<1>2. CASE Focus
  BY <1>2, RestReread DEF Focus
<1>3. CASE UNCHANGED feedVars
  BY <1>3 DEF feedVars, RestInv, CaughtInv, UnmovedInv, OwnInv, Begun
<1> QED BY <1>1, <1>2, <1>3, RestAnswer, RestWrite, RestReachEdge, RestReadRows, RestReadTotals, RestFail DEF FeedNext

LEMMA RestHolds == FeedSpec => [](FeedInv /\ RestInv)
<1>1. FeedInv /\ RestInv /\ [FeedNext]_feedVars => (FeedInv /\ RestInv)'
  BY FeedStep, RestStep
<1> QED BY <1>1, RestInit, PTL DEF FeedSpec

(* At rest the feed holds every write its reader was answered for (rereadEntries), unless  *)
(* the re-read that followed joined the first loading, or was cut off at the list's edge.  *)
THEOREM OwnWritesAreShown == FeedSpec => []CaughtUp
<1>1. FeedInv /\ RestInv => CaughtUp
  BY NoFetchIs DEF RestInv, CaughtInv, CaughtUp, AtRest
<1> QED BY <1>1, RestHolds, PTL

(* With nobody else writing, no record is listed twice in such a feed.                     *)
THEOREM NothingIsListedTwice == ASSUME ~Elsewhere PROVE FeedSpec => []RowsOnceAtRest
<1>1. ASSUME FeedInv, RestInv, AtRest,
             NEW m \in DOMAIN RowsOf(shown), NEW n \in DOMAIN RowsOf(shown),
             RowsOf(shown)[m].id = RowsOf(shown)[n].id
      PROVE  m = n
  <2> DEFINE all == RowsOf(shown)
  <2>1. all \in Seq(Copies) /\ DOMAIN all = 1..Len(all) /\ ListInv(rows, shown)
    BY <1>1, WalkRows DEF FeedInv, FeedTypes
  <2>2. shown.moved = {}
    <3>1. shown.at >= due /\ version = due /\ shown.at <= version
      BY <1>1, NoFetchIs DEF AtRest, RestInv, CaughtInv, UnmovedInv, OwnInv
    <3>2. shown.at \in Nat /\ due \in Nat
      BY <1>1 DEF FeedInv, FeedTypes, Walks
    <3> QED BY <1>1, <3>1, <3>2 DEF RestInv, UnmovedInv
  <2>3. all[m] = all[n] /\ all[m] \in Copies
    BY <1>1, <2>1, <2>2 DEF ListInv, Kept, Current
  <2>4. ~(m < n) /\ ~(n < m)
    BY <1>1, <2>1, <2>3, NewerOrders DEF ListInv, Ordered
  <2> QED BY <2>1, <2>4
<1>2. FeedInv /\ RestInv => RowsOnceAtRest
  BY <1>1 DEF RowsOnceAtRest
<1> QED BY <1>2, RestHolds, PTL
=============================================================================
