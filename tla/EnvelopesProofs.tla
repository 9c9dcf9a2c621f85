-------------------------- MODULE EnvelopesProofs --------------------------
(***************************************************************************)
(* Proofs about Envelopes for any number of transactions, groups,          *)
(* categories and records: what the category locks of a hide and of a move *)
(* protect.  IInv is about those locks alone and does not count money; on  *)
(* it stand OrderInv, for who waits for whom, and EmptyInv with FreshInv,  *)
(* for what a hide has summed and not yet hidden.                          *)
(***************************************************************************)
EXTENDS Envelopes, FiniteSetTheorems, TLAPS

Pure == INSTANCE PureProofs

Row(c) == categories[c] # None

Shape ==
  /\ categories \in [Categories -> Category \union {None}]
  /\ op \in [Txs -> Menu \union {[kind |-> "none"]}]
  /\ step \in [Txs -> {"idle", "category", "group", "inside", "record", "draft", "lock",
                       "write", "committed", "over"}]
  /\ want \in [Txs -> SUBSET Categories]
  /\ held \in [Txs -> SUBSET Categories]
  /\ \A p \in Txs : step[p] # "idle" => op[p] \in Menu

\* No two transactions hold one row, and a row is held only from the lock to the end.
HeldInv ==
  /\ \A p, q \in Txs, c \in Categories : c \in held[p] /\ c \in held[q] => p = q
  /\ \A p \in Txs : step[p] \notin {"lock", "write"} => held[p] = {}

\* An operation goes on only with rows that are there: the one it names once it has read it,
\* and the ones it found in a group.
KnownInv ==
  \A p \in Txs :
    /\ op[p].kind \in {"unhide", "place"} /\ step[p] \in {"group", "write"} =>
         Row(op[p].category)
    /\ op[p].kind \in {"hideGroup", "unhideGroup"} => \A c \in want[p] \union held[p] : Row(c)

\* A hide or a move locks what it names, and from its judgement on that is not hidden.
JudgedInv ==
  \A p \in Txs : op[p].kind \in {"hide", "move"} =>
    /\ step[p] = "lock" => Named(op[p]) \subseteq want[p] \union held[p]
    /\ step[p] = "write" => \A c \in Named(op[p]) : c \in held[p] /\ IsShown(c)

\* Where an operation can stand.
PathInv ==
  \A p \in Txs :
    /\ step[p] = "category" => op[p].kind \in {"place", "unhide"}
    /\ step[p] = "group" =>
         op[p].kind \in {"create", "place", "unhide", "hideGroup", "unhideGroup"}
    /\ step[p] = "inside" => op[p].kind \in {"hideGroup", "unhideGroup"}
    /\ step[p] = "record" => op[p].kind \in {"rewrite", "remove"}
    /\ step[p] = "draft" => op[p].kind \in {"record", "rewrite"}
    /\ step[p] = "lock" => op[p].kind \in {"hide", "move", "hideGroup", "unhideGroup"}

IInv == Shape /\ PathInv /\ HeldInv /\ KnownInv /\ JudgedInv

-----------------------------------------------------------------------------

\* What the menu names is there to be named, and an operation locks the row it names.
LEMMA MenuFacts ==
  ASSUME NEW o \in Menu
  PROVE  /\ Named(o) \subseteq Categories
         /\ o.kind \in {"create", "place", "hide", "unhide"} => o.category \in Categories
         /\ o.kind \in {"create", "place"} => o.group \in Groups
         /\ o.kind = "hide" => Named(o) = {o.category}
         /\ o.kind \in {"hideGroup", "unhideGroup"} => Named(o) = {}
BY EnvelopesAssumption DEF Named

\* A hidden row is a row, and so is what a change of marker leaves of one.
LEMMA Remarked ==
  ASSUME NEW row \in Category, NEW m \in Marker
  PROVE  /\ [row EXCEPT !.hidden = m] \in Category
         /\ [row EXCEPT !.hidden = m].hidden = m
         /\ [row EXCEPT !.hidden = m] # None
BY EnvelopesAssumption DEF Category, Marker

\* The initial states satisfy the inductive invariant.
LEMMA InitIInv == Init => IInv
BY EnvelopesAssumption
   DEF Init, IInv, Shape, PathInv, HeldInv, KnownInv, JudgedInv, Category, Marker

\* A transaction begins with nothing locked, and what it names is still to be locked.
LEMMA BeginIInv == ASSUME IInv, NEW p \in Txs, NEW o \in Menu, Begin(p, o) PROVE IInv'
<1>1. /\ held[p] = {} /\ held' = held /\ categories' = categories
      /\ op' = [op EXCEPT ![p] = o] /\ step' = [step EXCEPT ![p] = FirstStep(o)]
      /\ want' = [want EXCEPT ![p] = Named(o)]
  BY DEF Begin, rows, IInv, HeldInv
<1>2. FirstStep(o) \in {"lock", "group", "category", "record", "draft"}
  BY EnvelopesAssumption DEF FirstStep
<1>3. Shape'
  BY <1>1, <1>2, MenuFacts DEF IInv, Shape
<1>4. HeldInv'
  BY <1>1, <1>2 DEF IInv, Shape, HeldInv
<1>5. KnownInv'
  BY <1>1, <1>2, MenuFacts DEF IInv, Shape, KnownInv, Row, FirstStep
<1>6. JudgedInv'
  BY <1>1, <1>2 DEF IInv, Shape, JudgedInv, IsShown
<1>7. PathInv'
  BY <1>1, EnvelopesAssumption DEF IInv, Shape, PathInv, FirstStep
<1> QED BY <1>3, <1>4, <1>5, <1>6, <1>7 DEF IInv

\* An end of p keeps the invariant when it leaves no category without its row and hides none
\* that another transaction holds.
LEMMA FinishIInv ==
  ASSUME IInv, NEW p \in Txs, NEW end \in {"committed", "over"}, Finish(p, end),
         step[p] # "idle",
         categories' \in [Categories -> Category \union {None}],
         \A c \in Categories : Row(c) => Row(c)',
         \A q \in Txs \ {p}, c \in Categories : c \in held[q] /\ IsShown(c) => IsShown(c)'
  PROVE  IInv'
<1>1. /\ op' = op /\ step' = [step EXCEPT ![p] = end]
      /\ want' = [want EXCEPT ![p] = {}] /\ held' = [held EXCEPT ![p] = {}]
  BY DEF Finish
<1>2. Shape'
  BY <1>1 DEF IInv, Shape
<1>3. HeldInv'
  BY <1>1 DEF IInv, Shape, HeldInv
<1>4. KnownInv'
  <2>1. ASSUME NEW q \in Txs, op'[q].kind \in {"unhide", "place"}, step'[q] \in {"group", "write"}
        PROVE  Row(op[q].category)'
    <3>1. q # p /\ step[q] = step'[q] /\ op[q] \in Menu
      BY <1>1, <2>1 DEF IInv, Shape
    <3>2. Row(op[q].category) /\ op[q].category \in Categories
      BY <1>1, <2>1, <3>1, MenuFacts DEF IInv, KnownInv
    <3> QED BY <1>1, <3>2 DEF Row
  <2>2. ASSUME NEW q \in Txs, op'[q].kind \in {"hideGroup", "unhideGroup"},
               NEW c \in want'[q] \union held'[q]
        PROVE  Row(c)'
    BY <1>1, <2>2 DEF IInv, Shape, KnownInv
  <2> QED BY <1>1, <2>1, <2>2 DEF KnownInv
<1>5. JudgedInv'
  <2>1. ASSUME NEW q \in Txs \ {p}, op[q].kind \in {"hide", "move"}, step[q] = "write",
               NEW c \in Named(op[q])
        PROVE  c \in held'[q] /\ IsShown(c)'
    BY <1>1, <2>1 DEF IInv, Shape, JudgedInv
  <2> QED BY <1>1, <2>1 DEF IInv, Shape, JudgedInv
<1>6. PathInv'
  BY <1>1 DEF IInv, Shape, PathInv
<1> QED BY <1>2, <1>3, <1>4, <1>5, <1>6 DEF IInv

\* A read changes nobody's locks; what it finds is a row.
LEMMA ReadsIInv ==
  ASSUME IInv, NEW p \in Txs,
         ReadCategory(p) \/ OpenGroup(p) \/ ReadGroup(p) \/ ReadInside(p) \/ ReadRecord(p)
           \/ ReadDraft(p)
  PROVE  IInv'
<1>1. /\ categories' = categories /\ op' = op /\ held' = held
      /\ step[p] \in {"category", "group", "inside", "record", "draft"}
      /\ op[p] \in Menu
  BY DEF ReadCategory, OpenGroup, ReadGroup, ReadInside, ReadRecord, ReadDraft, GoOn, rows,
         IInv, Shape
<1>2. PICK next \in {"group", "inside", "draft", "lock", "write"} :
        /\ step' = [step EXCEPT ![p] = next]
        /\ next = "group" => step[p] = "category" /\ Row(op[p].category)
        /\ next = "inside" => op[p].kind \in {"hideGroup", "unhideGroup"}
        /\ next = "lock" => step[p] = "inside"
        /\ next = "draft" => step[p] = "record" /\ op[p].kind # "remove"
        /\ next = "write" => \/ step[p] = "group" /\ op[p].kind \in {"create", "place", "unhide"}
                             \/ step[p] \in {"record", "draft"}
  BY DEF ReadCategory, OpenGroup, ReadGroup, ReadInside, ReadRecord, ReadDraft, GoOn, Row
<1>3. /\ \A q \in Txs \ {p} : want'[q] = want[q]
      /\ want'[p] \subseteq Categories
      /\ op[p].kind \in {"hideGroup", "unhideGroup"} =>
           \A c \in want'[p] : c \in want[p] \/ Row(c)
  BY DEF ReadCategory, OpenGroup, ReadGroup, ReadInside, ReadRecord, ReadDraft, Inside, Row,
         IInv, Shape
<1>4. want' \in [Txs -> SUBSET Categories]
  BY <1>3 DEF ReadCategory, OpenGroup, ReadGroup, ReadInside, ReadRecord, ReadDraft, IInv, Shape
<1>5. Shape' /\ HeldInv'
  BY <1>1, <1>2, <1>4 DEF IInv, Shape, HeldInv
<1>6. PathInv'
  BY <1>1, <1>2 DEF IInv, Shape, PathInv
<1>7. KnownInv'
  BY <1>1, <1>2, <1>3 DEF IInv, Shape, KnownInv, Row, PathInv
<1>8. JudgedInv'
  BY <1>1, <1>2, <1>3 DEF IInv, Shape, JudgedInv, PathInv, IsShown
<1> QED BY <1>5, <1>6, <1>7, <1>8 DEF IInv

\* A new lock is on a row nobody holds.
LEMMA LockIInv == ASSUME IInv, NEW p \in Txs, Lock(p) PROVE IInv'
<1>1. PICK c \in want[p] :
        /\ \A q \in Txs : ~Blocks(q, p, c)
        /\ held' = [held EXCEPT ![p] = @ \union {c}]
        /\ want' = [want EXCEPT ![p] = @ \ {c}]
        /\ categories' = categories /\ UNCHANGED <<op, step>> /\ step[p] = "lock"
  BY DEF Lock, NextRow, First, rows
<1>2. Shape' /\ PathInv' /\ KnownInv'
  BY <1>1 DEF IInv, Shape, PathInv, KnownInv, Row
<1>3. HeldInv'
  BY <1>1 DEF IInv, Shape, HeldInv, Blocks
<1>4. JudgedInv'
  BY <1>1 DEF IInv, Shape, JudgedInv, IsShown
<1> QED BY <1>2, <1>3, <1>4 DEF IInv

\* From its judgement on, what a hide or a move names is locked and not hidden.
LEMMA JudgeIInv == ASSUME IInv, NEW p \in Txs, Judge(p) PROVE IInv'
<1>1. /\ step[p] = "lock" /\ want[p] = {} /\ step' = [step EXCEPT ![p] = "write"]
      /\ op[p].kind \in {"hide", "move"} => \A c \in held[p] : IsShown(c)
      /\ UNCHANGED <<categories, op, want, held>>
  BY DEF Judge, GoOn, rows
<1>2. Shape' /\ PathInv' /\ HeldInv'
  BY <1>1 DEF IInv, Shape, PathInv, HeldInv
<1>3. KnownInv'
  BY <1>1 DEF IInv, Shape, PathInv, KnownInv, Row
<1>4. JudgedInv'
  BY <1>1 DEF IInv, Shape, JudgedInv, IsShown
<1> QED BY <1>2, <1>3, <1>4 DEF IInv

-----------------------------------------------------------------------------

\* A change of markers on rows that are there leaves rows.
LEMMA SetHiddenKeeps ==
  ASSUME IInv, NEW C, NEW m \in Marker, SetHidden(C, m),
         \A c \in C \cap Categories : Row(c)
  PROVE  /\ categories' \in [Categories -> Category \union {None}]
         /\ \A c \in Categories : Row(c) => Row(c)'
         /\ \A c \in Categories \ C : categories'[c] = categories[c]
         /\ \A c \in C \cap Categories : Row(c)' /\ categories'[c].hidden = m
<1>1. \A c \in C \cap Categories : categories[c] \in Category
  BY DEF IInv, Shape, Row
<1>2. /\ \A c \in C \cap Categories : categories'[c] = [categories[c] EXCEPT !.hidden = m]
      /\ \A c \in Categories \ C : categories'[c] = categories[c]
      /\ categories' = [c \in Categories |-> categories'[c]]
  BY DEF SetHidden
<1>3. \A c \in C \cap Categories :
        categories'[c] \in Category /\ categories'[c].hidden = m /\ categories'[c] # None
  <2> SUFFICES ASSUME NEW c \in C \cap Categories
               PROVE  /\ categories'[c] \in Category
                      /\ categories'[c].hidden = m
                      /\ categories'[c] # None
    OBVIOUS
  <2>1. categories[c] \in Category /\ categories'[c] = [categories[c] EXCEPT !.hidden = m]
    BY <1>1, <1>2
  <2> QED BY <2>1, Remarked
<1>4. \A c \in Categories : categories'[c] \in Category \union {None}
  BY <1>2, <1>3 DEF IInv, Shape
<1> QED BY <1>2, <1>3, <1>4 DEF Row

\* What each write does to the rows: it hides only what is shown and locked by itself, and
\* what it leaves of a row is a row.
Gentle(p) ==
  /\ categories' \in [Categories -> Category \union {None}]
  /\ \A c \in Categories : Row(c) =>
       /\ Row(c)'
       /\ \/ categories'[c].hidden \in {categories[c].hidden, Shown}
          \/ /\ c \in held[p] /\ categories[c].hidden = Shown
             /\ op[p].kind \in {"hide", "hideGroup"}

LEMMA HideGentle == ASSUME IInv, NEW p \in Txs, Hide(p) PROVE Gentle(p)
<1>1. op[p].category \in held[p] /\ IsShown(op[p].category) /\ op[p].category \in Categories
  BY MenuFacts DEF Hide, Writes, IInv, Shape, JudgedInv
<1>2. SetHidden({op[p].category}, p) /\ p \in Marker
  BY DEF Hide, Marker
<1>3. op[p].kind = "hide"
  BY DEF Hide, Writes
<1>4. \A c \in {op[p].category} \cap Categories : Row(c)
  BY <1>1 DEF IsShown, Row
<1> QED BY <1>1, <1>2, <1>3, <1>4, SetHiddenKeeps DEF Gentle, IsShown

LEMMA HideGroupGentle == ASSUME IInv, NEW p \in Txs, HideGroup(p) PROVE Gentle(p)
<1>1. SetHidden(Standing(p), p) /\ p \in Marker /\ op[p].kind = "hideGroup"
  BY DEF HideGroup, Marker, Writes
<1>2. \A c \in Standing(p) \cap Categories :
        Row(c) /\ c \in held[p] /\ categories[c].hidden = Shown
  BY DEF Standing, IsShown, Row
<1> QED BY <1>1, <1>2, SetHiddenKeeps DEF Gentle

LEMMA UnhideGentle ==
  ASSUME IInv, NEW p \in Txs, Unhide(p) \/ UnhideGroup(p) PROVE Gentle(p)
<1>1. Shown \in Marker
  BY DEF Marker
<1>2. CASE Unhide(p)
  <2>1. Row(op[p].category) /\ SetHidden({op[p].category}, Shown)
    BY <1>2 DEF Unhide, Writes, IInv, KnownInv
  <2> QED BY <1>1, <2>1, SetHiddenKeeps DEF Gentle
<1>3. CASE UnhideGroup(p)
  <2>1. SetHidden(held[p], Shown) /\ \A c \in held[p] \cap Categories : Row(c)
    BY <1>3 DEF UnhideGroup, Writes, IInv, KnownInv
  <2> QED BY <1>1, <2>1, SetHiddenKeeps DEF Gentle
<1> QED BY <1>2, <1>3

LEMMA PlaceGentle == ASSUME IInv, NEW p \in Txs, Place(p) \/ Create(p) PROVE Gentle(p)
<1>1. op[p].category \in Categories /\ op[p].group \in Groups
  BY MenuFacts DEF Place, Create, Writes, IInv, Shape
<1>2. CASE Place(p)
  <2>1. categories[op[p].category] \in Category
    BY <1>1, <1>2 DEF Place, Writes, IInv, Shape, KnownInv, Row
  <2>2. /\ [categories[op[p].category] EXCEPT !.group = op[p].group] \in Category
        /\ [categories[op[p].category] EXCEPT !.group = op[p].group].hidden
             = categories[op[p].category].hidden
    BY <1>1, <2>1 DEF Category
  <2> QED BY <1>1, <1>2, <2>2, EnvelopesAssumption
          DEF Place, IInv, Shape, Gentle, Row, Category, Marker
<1>3. CASE Create(p)
  <2>1. [group |-> op[p].group, hidden |-> Shown] \in Category
    BY <1>1 DEF Category, Marker
  <2> QED BY <1>1, <1>3, <2>1, EnvelopesAssumption
          DEF Create, IInv, Shape, Gentle, Row, Category, Marker
<1> QED BY <1>2, <1>3

\* The writes, each with the end of its transaction.
LEMMA WritesGentle ==
  ASSUME IInv, NEW p \in Txs,
         \/ Hide(p) \/ HideGroup(p) \/ Unhide(p) \/ UnhideGroup(p) \/ Place(p) \/ Create(p)
         \/ Move(p) \/ Insert(p) \/ Rewrite(p) \/ Remove(p)
  PROVE  Gentle(p)
<1>1. CASE Move(p) \/ Insert(p) \/ Rewrite(p) \/ Remove(p)
  BY <1>1 DEF Move, Insert, Rewrite, Remove, IInv, Shape, Gentle, Row
<1> QED BY <1>1, HideGentle, HideGroupGentle, UnhideGentle, PlaceGentle

LEMMA WritesIInv ==
  ASSUME IInv, NEW p \in Txs,
         \/ Hide(p) \/ HideGroup(p) \/ Unhide(p) \/ UnhideGroup(p) \/ Place(p) \/ Create(p)
         \/ Move(p) \/ Insert(p) \/ Rewrite(p) \/ Remove(p)
  PROVE  IInv'
<1>1. Gentle(p)
  BY WritesGentle
<1>2. Finish(p, "committed") /\ step[p] # "idle"
  BY DEF Hide, HideGroup, Unhide, UnhideGroup, Place, Create, Move, Insert, Rewrite, Remove, Writes
<1>3. ASSUME NEW q \in Txs \ {p}, NEW c \in Categories, c \in held[q], IsShown(c)
      PROVE  IsShown(c)'
  <2>1. c \notin held[p]
    BY <1>3 DEF IInv, HeldInv
  <2> QED BY <1>1, <1>3, <2>1 DEF Gentle, IsShown, Row
<1> QED BY <1>1, <1>2, <1>3, FinishIInv DEF Gentle

LEMMA GiveUpIInv == ASSUME IInv, NEW p \in Txs, GiveUp(p) PROVE IInv'
<1>1. Finish(p, "over") /\ step[p] # "idle" /\ categories' = categories
  BY DEF GiveUp, rows
<1> QED BY <1>1, FinishIInv DEF IInv, Shape, Row, IsShown

\* Every step keeps the inductive invariant.
LEMMA NextIInv == IInv /\ [Next]_vars => IInv'
<1> SUFFICES ASSUME IInv, [Next]_vars PROVE IInv'
  OBVIOUS
<1>1. ASSUME NEW p \in Txs, NEW o \in Menu, Begin(p, o) PROVE IInv'
  BY <1>1, BeginIInv
<1>2. ASSUME NEW p \in Txs, Advance(p) \/ GiveUp(p) PROVE IInv'
  BY <1>2, ReadsIInv, LockIInv, JudgeIInv, WritesIInv, GiveUpIInv DEF Advance
<1>3. CASE UNCHANGED vars
  BY <1>3 DEF vars, IInv, Shape, PathInv, HeldInv, KnownInv, JudgedInv, Row, IsShown
<1> QED BY <1>1, <1>2, <1>3 DEF Next

THEOREM Invariance == Spec => []IInv
BY InitIInv, NextIInv, PTL DEF Spec

-----------------------------------------------------------------------------

\* No move changes what a hidden envelope holds, for any number of concurrent moves and hides:
\* both lock the rows they name before they judge them.
THEOREM HiddenMoneyStays == Spec => MovesSpareTheHidden
<1> DEFINE Spared == \A c \in Categories : assigned'[c] # assigned[c] => IsShown(c) /\ IsShown(c)'
<1>1. ASSUME IInv, Next PROVE Spared
  <2>1. CASE \E p \in Txs : Move(p)
    <3>1. PICK p \in Txs : Move(p)
      BY <2>1
    <3>2. ASSUME NEW c \in Categories, assigned'[c] # assigned[c] PROVE IsShown(c) /\ IsShown(c)'
      <4>1. c \in {op[p].from, op[p].to} /\ op[p].kind = "move" /\ step[p] = "write"
        BY <3>1, <3>2 DEF Move, Writes
      <4>2. c \in Named(op[p])
        BY <4>1, EnvelopesAssumption DEF Named
      <4>3. IsShown(c)
        BY <1>1, <4>1, <4>2 DEF IInv, JudgedInv
      <4> QED BY <3>1, <4>3 DEF Move, IsShown
    <3> QED BY <3>2
  <2>2. CASE ~ \E p \in Txs : Move(p)
    <3>1. assigned' = assigned
      BY <1>1, <2>2 DEF Next, Advance, Begin, GiveUp, ReadCategory, OpenGroup, ReadGroup,
         ReadInside, ReadRecord, ReadDraft, GoOn, Lock, Judge, Hide, HideGroup, Unhide,
         UnhideGroup, Place, Create, Insert, Rewrite, Remove, rows
    <3> QED BY <3>1
  <2> QED BY <2>1, <2>2
<1>2. IInv /\ [Next]_vars => [Spared]_vars
  BY <1>1
<1> QED BY <1>2, Invariance, PTL DEF Spec, MovesSpareTheHidden

\* The marker of a hidden category is taken off or stays, whoever else hides it or its group.
THEOREM MarkersStay == Spec => CategoryMarkersStayPut
<1> DEFINE Kept == \A c \in Categories : categories[c] # None /\ categories[c].hidden # Shown =>
                      categories'[c].hidden \in {categories[c].hidden, Shown}
<1>1. ASSUME IInv, NEW p \in Txs, Gentle(p) PROVE Kept
  BY <1>1 DEF Gentle, Row
<1>2. ASSUME IInv, Next PROVE Kept
  <2>1. ASSUME NEW p \in Txs,
               \/ Hide(p) \/ HideGroup(p) \/ Unhide(p) \/ UnhideGroup(p) \/ Place(p) \/ Create(p)
               \/ Move(p) \/ Insert(p) \/ Rewrite(p) \/ Remove(p)
        PROVE  Kept
    BY <1>1, <1>2, <2>1, WritesGentle
  <2>2. CASE categories' = categories
    BY <2>2
  <2> QED BY <1>2, <2>1, <2>2 DEF Next, Advance, Begin, GiveUp, ReadCategory, OpenGroup,
          ReadGroup, ReadInside, ReadRecord, ReadDraft, GoOn, Lock, Judge, rows
<1>3. IInv /\ [Next]_vars => [Kept]_vars
  BY <1>2
<1> QED BY <1>3, Invariance, PTL DEF Spec, CategoryMarkersStayPut

-----------------------------------------------------------------------------
(* Types, money included *)

Typed == IInv /\ TypeOK

LEMMA InitTyped == Init => Typed
<1> SUFFICES ASSUME Init PROVE TypeOK
  BY InitIInv DEF Typed
<1>1. Seed.categories \in [Categories -> Category \union {None}]
  BY EnvelopesAssumption DEF Category, Marker
<1> QED BY <1>1, EnvelopesAssumption DEF Init, TypeOK, Marker

LEMMA BeginTypes == ASSUME Typed, NEW p \in Txs, NEW o \in Menu, Begin(p, o) PROVE TypeOK'
<1>1. FirstStep(o) \in {"lock", "group", "category", "record", "draft"}
  BY EnvelopesAssumption DEF FirstStep
<1>2. o.kind = "create" => o.group \in Groups
  BY MenuFacts
<1>3. rows' = rows /\ held' = held
  BY DEF Begin
<1>4. /\ op' \in [Txs -> Menu \union {[kind |-> "none"]}]
      /\ step' \in [Txs -> {"idle", "category", "group", "inside", "record", "draft", "lock",
                            "write", "committed", "over"}]
      /\ want' \in [Txs -> SUBSET Categories]
  BY <1>1, MenuFacts DEF Begin, Typed, TypeOK
<1>5. seen' \in [Txs -> Groups \union Categories \union Marker \union {None}]
  BY <1>2 DEF Begin, Typed, TypeOK
<1> QED BY <1>3, <1>4, <1>5 DEF rows, Typed, TypeOK

LEMMA ReadsTypes ==
  ASSUME Typed, NEW p \in Txs,
         ReadCategory(p) \/ OpenGroup(p) \/ ReadGroup(p) \/ ReadInside(p) \/ ReadRecord(p)
           \/ ReadDraft(p) \/ Lock(p) \/ Judge(p)
  PROVE  TypeOK'
<1>1. op[p] \in Menu
  BY DEF ReadCategory, OpenGroup, ReadGroup, ReadInside, ReadRecord, ReadDraft, Lock, Judge,
         Typed, IInv, Shape
<1>2. rows' = rows /\ op' = op
  BY DEF ReadCategory, OpenGroup, ReadGroup, ReadInside, ReadRecord, ReadDraft, Lock, Judge, GoOn
<1>3. /\ step' \in [Txs -> {"idle", "category", "group", "inside", "record", "draft", "lock",
                            "write", "committed", "over"}]
      /\ held' \in [Txs -> SUBSET Categories]
      /\ want' \in [Txs -> SUBSET Categories]
  BY DEF ReadCategory, OpenGroup, ReadGroup, ReadInside, ReadRecord, ReadDraft, Lock, Judge,
         GoOn, NextRow, First, Inside, Typed, TypeOK
<1>4. seen' \in [Txs -> Groups \union Categories \union Marker \union {None}]
  <2>1. CASE ReadCategory(p)
    <3>1. op[p].category \in Categories
      BY <1>1, <2>1, MenuFacts DEF ReadCategory, Typed, IInv, PathInv
    <3>2. categories[op[p].category].group \in Groups
      BY <2>1, <3>1 DEF ReadCategory, Category, Typed, TypeOK
    <3>3. op[p].kind = "place" => op[p].group \in Groups
      BY <1>1, MenuFacts
    <3> QED BY <2>1, <3>2, <3>3 DEF ReadCategory, GoOn, Typed, TypeOK
  <2>2. CASE ReadGroup(p)
    <3>1. op[p].group \in Groups
      BY <1>1, <2>2, EnvelopesAssumption DEF ReadGroup
    <3> QED BY <2>2, <3>1 DEF ReadGroup, GoOn, Typed, TypeOK
  <2>3. CASE ReadRecord(p)
    <3>1. op[p].kind \in {"record", "rewrite", "remove"}
      BY <2>3 DEF ReadRecord, Typed, IInv, PathInv
    <3>2. op[p].id \in Records
      BY <1>1, <3>1, EnvelopesAssumption
    <3>3. records[op[p].id].category \in Categories
      BY <2>3, <3>2 DEF ReadRecord, Record, Typed, TypeOK
    <3> QED BY <2>3, <3>3 DEF ReadRecord, GoOn, Typed, TypeOK
  <2>4. CASE OpenGroup(p) \/ ReadInside(p) \/ ReadDraft(p) \/ Lock(p) \/ Judge(p)
    BY <2>4 DEF OpenGroup, ReadInside, ReadDraft, Lock, Judge, GoOn, Typed, TypeOK
  <2> QED BY <2>1, <2>2, <2>3, <2>4
<1> QED BY <1>2, <1>3, <1>4 DEF rows, Typed, TypeOK

LEMMA FinishTypes ==
  ASSUME Typed, NEW p \in Txs, NEW end \in {"committed", "over"}, Finish(p, end),
         groups' \in [Groups -> Marker],
         categories' \in [Categories -> Category \union {None}],
         assigned' \in [Categories -> Int],
         records' \in [Records -> Record \union {None}]
  PROVE  TypeOK'
BY DEF Finish, Typed, TypeOK

\* What File puts down is a record.
LEMMA FiledRecord ==
  ASSUME Typed, NEW p \in Txs, step[p] # "idle", op[p].kind \in {"record", "rewrite"}
  PROVE  /\ op[p].id \in Records /\ op[p].category \in Categories /\ op[p].amount \in Int
         /\ [category |-> op[p].category, amount |-> op[p].amount] \in Record
<1>1. op[p] \in Menu
  BY DEF Typed, IInv, Shape
<1> QED BY <1>1, EnvelopesAssumption DEF Record

LEMMA WritesTypes ==
  ASSUME Typed, NEW p \in Txs,
         \/ Hide(p) \/ HideGroup(p) \/ Unhide(p) \/ UnhideGroup(p) \/ Place(p) \/ Create(p)
         \/ Move(p) \/ Insert(p) \/ Rewrite(p) \/ Remove(p)
  PROVE  TypeOK'
<1>1. categories' \in [Categories -> Category \union {None}]
  BY WritesGentle DEF Typed, Gentle
<1>2. Finish(p, "committed") /\ step[p] = "write" /\ op[p] \in Menu
  BY DEF Hide, HideGroup, Unhide, UnhideGroup, Place, Create, Move, Insert, Rewrite, Remove,
         Writes, Typed, IInv, Shape
<1>3. groups' \in [Groups -> Marker]
  BY DEF Hide, HideGroup, Unhide, UnhideGroup, Place, Create, Move, Insert, Rewrite, Remove,
         Marker, Typed, TypeOK
<1>4. assigned' \in [Categories -> Int]
  <2>1. CASE Move(p)
    <3>1. op[p].amount \in Int
      BY <1>2, <2>1, EnvelopesAssumption DEF Move, Writes
    <3> QED BY <2>1, <3>1 DEF Move, Typed, TypeOK
  <2>2. CASE ~Move(p)
    BY <2>2 DEF Hide, HideGroup, Unhide, UnhideGroup, Place, Create, Insert, Rewrite, Remove,
         Typed, TypeOK
  <2> QED BY <2>1, <2>2
<1>5. records' \in [Records -> Record \union {None}]
  <2>1. CASE Insert(p) \/ Rewrite(p)
    BY <1>2, <2>1, FiledRecord DEF Insert, Rewrite, Writes, File, Typed, TypeOK
  <2>2. CASE ~(Insert(p) \/ Rewrite(p))
    BY <2>2 DEF Hide, HideGroup, Unhide, UnhideGroup, Place, Create, Move, Remove,
         Typed, TypeOK
  <2> QED BY <2>1, <2>2
<1> QED BY <1>1, <1>2, <1>3, <1>4, <1>5, FinishTypes

LEMMA NextTyped == Typed /\ [Next]_vars => Typed'
<1> SUFFICES ASSUME Typed, [Next]_vars PROVE TypeOK'
  BY NextIInv DEF Typed
<1>1. ASSUME NEW p \in Txs, NEW o \in Menu, Begin(p, o) PROVE TypeOK'
  BY <1>1, BeginTypes
<1>2. ASSUME NEW p \in Txs, Advance(p) PROVE TypeOK'
  BY <1>2, ReadsTypes, WritesTypes DEF Advance
<1>3. ASSUME NEW p \in Txs, GiveUp(p) PROVE TypeOK'
  BY <1>3, FinishTypes DEF GiveUp, rows, Typed, TypeOK
<1>4. CASE UNCHANGED vars
  BY <1>4 DEF vars, Typed, TypeOK
<1> QED BY <1>1, <1>2, <1>3, <1>4 DEF Next

\* Every row, lock and sum keeps its type, whatever the operations interleave.
THEOREM TypesHold == Spec => []TypeOK
<1>1. Typed => TypeOK
  BY DEF Typed
<1> QED BY <1>1, InitTyped, NextTyped, PTL DEF Spec

-----------------------------------------------------------------------------
(* Waiting *)

\* Only hides and moves hold rows, and what they hold comes before what they still want.
OrderInv ==
  \A p \in Txs :
    /\ held[p] # {} => op[p].kind \in {"hide", "move", "hideGroup", "unhideGroup"}
    /\ \A c \in held[p], d \in want[p] : c < d

LEMMA NextOrderInv == Typed /\ OrderInv /\ [Next]_vars => OrderInv'
<1> SUFFICES ASSUME Typed, OrderInv, [Next]_vars PROVE OrderInv'
  OBVIOUS
<1> USE DEF Typed, TypeOK
<1>1. ASSUME NEW p \in Txs, NEW o \in Menu, Begin(p, o) PROVE OrderInv'
  BY <1>1 DEF Begin, OrderInv, IInv, HeldInv
<1>2. ASSUME NEW p \in Txs, Lock(p) PROVE OrderInv'
  <2>1. PICK c \in want[p] :
          /\ \A d \in want[p] : c <= d
          /\ held' = [held EXCEPT ![p] = @ \union {c}]
          /\ want' = [want EXCEPT ![p] = @ \ {c}]
          /\ op' = op /\ step[p] = "lock"
    BY <1>2 DEF Lock, NextRow, First
  <2>2. \A d \in want'[p] : c < d
    BY <2>1, EnvelopesAssumption
  <2>3. op[p].kind \in {"hide", "move", "hideGroup", "unhideGroup"}
    BY <2>1 DEF IInv, PathInv
  <2> QED BY <2>1, <2>2, <2>3 DEF OrderInv
<1>3. ASSUME NEW p \in Txs, ReadInside(p) PROVE OrderInv'
  <2>1. held[p] = {} /\ held' = held /\ op' = op /\ \A q \in Txs \ {p} : want'[q] = want[q]
    BY <1>3 DEF ReadInside, GoOn, IInv, HeldInv
  <2> QED BY <2>1 DEF OrderInv
<1>4. ASSUME NEW p \in Txs,
             ReadCategory(p) \/ OpenGroup(p) \/ ReadGroup(p) \/ ReadRecord(p) \/ ReadDraft(p)
               \/ Judge(p)
      PROVE  OrderInv'
  BY <1>4 DEF ReadCategory, OpenGroup, ReadGroup, ReadRecord, ReadDraft, Judge, GoOn, OrderInv
<1>5. ASSUME NEW p \in Txs, NEW end, Finish(p, end) PROVE OrderInv'
  BY <1>5 DEF Finish, OrderInv
<1>6. CASE UNCHANGED vars
  BY <1>6 DEF vars, OrderInv
<1> QED BY <1>1, <1>2, <1>3, <1>4, <1>5, <1>6 DEF Next, Advance, GiveUp, Hide, HideGroup, Unhide,
        UnhideGroup, Place, Create, Move, Insert, Rewrite, Remove, Writes

\* In a finite set, somebody is ahead of all.
LEMMA SomeoneHasMost ==
  ASSUME NEW S, IsFiniteSet(S), S # {}, NEW f \in [S -> Int]
  PROVE  \E p \in S : \A q \in S : f[q] <= f[p]
<1>1. IsFiniteSet(S) = Pure!IsFiniteSet(S)
  BY DEF IsFiniteSet, Pure!IsFiniteSet
<1> QED BY <1>1, Pure!SomeoneHasMost

\* The row p is about to lock.
NextOf(p) == CHOOSE c \in NextRow(p) : TRUE

LEMMA NextOfIs ==
  ASSUME Typed, NEW p \in Txs, NEW c \in NextRow(p)
  PROVE  c = NextOf(p) /\ NextOf(p) \in want[p] /\ NextOf(p) \in Int
<1>1. NextRow(p) \subseteq want[p] /\ want[p] \subseteq Int
  BY EnvelopesAssumption DEF NextRow, First, Typed, TypeOK
<1>2. \A d \in NextRow(p) : d <= c /\ c <= d
  BY <1>1 DEF NextRow, First
<1>3. NextRow(p) = {c}
  BY <1>1, <1>2
<1> QED BY <1>1, <1>3 DEF NextOf

\* Whoever is waited for holds a row, so it can only be waiting for its next lock; that row
\* comes after the one it is waited for, and the transaction whose next row is the last of all
\* waits for nobody.
THEOREM NeverInACircle == Spec => []NoDeadlock
<1>1. ASSUME Typed, OrderInv, NEW S \in (SUBSET Txs) \ {{}},
             \A p \in S : \E q \in S : WaitsFor(p, q)
      PROVE  FALSE
  <2> DEFINE L == {p \in S : step[p] = "lock"}
  <2>1. ASSUME NEW p \in S, NEW q \in S, WaitsFor(p, q)
        PROVE  q \in L /\ held[q] # {}
    <3>1. held[q] # {}
      BY <2>1 DEF WaitsFor, Blocks
    <3>2. \E r \in S : WaitsFor(q, r)
      BY <1>1
    <3>3. op[q].kind \notin {"unhide", "place", "record", "rewrite"}
      BY <1>1, <3>1 DEF OrderInv
    <3> QED BY <3>1, <3>2, <3>3 DEF WaitsFor
  <2>2. L # {} /\ IsFiniteSet(L)
    <3>1. PICK p \in S, q \in S : WaitsFor(p, q)
      BY <1>1
    <3>2. IsFiniteSet(S) /\ L \subseteq S
      BY EnvelopesAssumption, FS_Subset
    <3> QED BY <2>1, <3>1, <3>2, FS_Subset
  <2>3. ASSUME NEW p \in L
        PROVE  NextOf(p) \in Int /\ \E q \in L : NextOf(p) \in held[q]
    <3>1. PICK q \in S : WaitsFor(p, q)
      BY <1>1
    <3>2. PICK c \in NextRow(p) : Blocks(q, p, c)
      BY <3>1 DEF WaitsFor
    <3>3. c = NextOf(p) /\ NextOf(p) \in Int
      BY <1>1, <3>2, NextOfIs
    <3> QED BY <2>1, <3>1, <3>2, <3>3 DEF Blocks
  <2>4. ASSUME NEW p \in L, NEW q \in L, NextOf(p) \in held[q]
        PROVE  NextOf(p) < NextOf(q)
    <3>1. PICK c \in NextRow(q) : TRUE
      BY <1>1 DEF WaitsFor
    <3>2. NextOf(q) \in want[q]
      BY <1>1, <3>1, NextOfIs
    <3> QED BY <1>1, <2>4, <3>2 DEF OrderInv
  <2> DEFINE f == [p \in L |-> NextOf(p)]
  <2>5. PICK p \in L : \A q \in L : f[q] <= f[p]
    <3>1. f \in [L -> Int]
      BY <2>3
    <3> HIDE DEF f, L
    <3> QED BY <2>2, <3>1, SomeoneHasMost
  <2>6. PICK q \in L : NextOf(p) \in held[q]
    BY <2>3
  <2>7. NextOf(q) <= NextOf(p) /\ NextOf(p) < NextOf(q)
    BY <2>4, <2>5, <2>6
  <2> QED BY <2>3, <2>7
<1>2. Typed /\ OrderInv => NoDeadlock
  BY <1>1 DEF NoDeadlock
<1>3. Init => Typed /\ OrderInv
  BY InitTyped DEF Init, OrderInv
<1>4. (Typed /\ OrderInv) /\ [Next]_vars => (Typed /\ OrderInv)'
  BY NextTyped, NextOrderInv
<1> QED BY <1>2, <1>3, <1>4, PTL DEF Spec

-----------------------------------------------------------------------------
(* What a hide has summed *)

\* A record about to be inserted is nowhere yet, and nobody else inserts it.
FreshInv ==
  \A p \in Txs : op[p].kind = "record" =>
    /\ \A q \in Txs : op[q].kind = "record" /\ op[q].id = op[p].id => q = p
    /\ step[p] \in {"draft", "write"} => records[op[p].id] = None

\* Some record that was there already has been edited or removed.
Edited == \E q \in Txs : op[q].kind \in {"rewrite", "remove"} /\ step[q] = "committed"

\* What is about to be hidden is empty.
EmptyInv ==
  \A p \in Txs : op[p].kind \in {"hide", "hideGroup"} /\ step[p] = "write" =>
    Edited \/ \A c \in held[p] : Available(c) = 0

LEMMA NextFreshInv == Typed /\ FreshInv /\ [Next]_vars => FreshInv'
<1> SUFFICES ASSUME Typed, FreshInv, [Next]_vars PROVE FreshInv'
  OBVIOUS
<1> USE DEF Typed, TypeOK
<1>1. ASSUME NEW p \in Txs, NEW o \in Menu, Begin(p, o) PROVE FreshInv'
  <2>1. /\ op' = [op EXCEPT ![p] = o] /\ step' = [step EXCEPT ![p] = FirstStep(o)]
        /\ records' = records
        /\ o.kind = "record" =>
             /\ \A q \in Txs : op[q].kind = o.kind => op[q].id # o.id
             /\ records[o.id] = None
    BY <1>1 DEF Begin, rows
  <2> QED BY <2>1 DEF FreshInv
<1>2. ASSUME NEW p \in Txs, Insert(p) PROVE FreshInv'
  <2>1. /\ op' = op /\ step[p] = "write" /\ op[p].kind = "record"
        /\ step' = [step EXCEPT ![p] = "committed"]
        /\ \A r \in Records \ {op[p].id} : records'[r] = records[r]
    BY <1>2 DEF Insert, Writes, Finish, File
  <2>2. ASSUME NEW q \in Txs, op[q].kind = "record", step'[q] \in {"draft", "write"}
        PROVE  records'[op[q].id] = None
    <3>1. q # p /\ step[q] = step'[q] /\ op[q].id # op[p].id
      BY <2>1, <2>2 DEF FreshInv
    <3>2. op[q].id \in Records
      BY <2>2, <3>1, FiledRecord
    <3> QED BY <2>1, <2>2, <3>1, <3>2 DEF FreshInv
  <2> QED BY <2>1, <2>2 DEF FreshInv
<1>3. ASSUME NEW p \in Txs, Rewrite(p) \/ Remove(p) PROVE FreshInv'
  <2>1. /\ op' = op /\ step' = [step EXCEPT ![p] = "committed"]
        /\ records[op[p].id] # None
        /\ \A r \in Records \ {op[p].id} : records'[r] = records[r]
    BY <1>3 DEF Rewrite, Remove, Writes, Finish, File
  <2>2. ASSUME NEW q \in Txs, op[q].kind = "record", step'[q] \in {"draft", "write"}
        PROVE  records'[op[q].id] = None
    <3>1. step[q] = step'[q] /\ records[op[q].id] = None
      BY <2>1, <2>2 DEF FreshInv
    <3>2. op[q].id \in Records
      BY <2>2, <3>1, FiledRecord
    <3> QED BY <2>1, <3>1, <3>2
  <2> QED BY <2>1, <2>2 DEF FreshInv
<1>4. ASSUME NEW p \in Txs, records' = records, op' = op,
             \/ ReadCategory(p) \/ OpenGroup(p) \/ ReadGroup(p) \/ ReadInside(p)
             \/ ReadRecord(p) \/ ReadDraft(p) \/ Lock(p) \/ Judge(p)
      PROVE  FreshInv'
  <2>1. op[p].kind = "record" /\ step'[p] \in {"draft", "write"} => records[op[p].id] = None
    <3>1. CASE ReadDraft(p)
      BY <3>1 DEF ReadDraft, FreshInv
    <3>2. CASE ~ReadDraft(p)
      <4>1. op[p].kind # "record" \/ step'[p] \notin {"draft", "write"}
        BY <1>4, <3>2 DEF ReadCategory, OpenGroup, ReadGroup, ReadInside, ReadRecord, Lock, Judge,
             GoOn, IInv, PathInv
      <4> QED BY <4>1
    <3> QED BY <3>1, <3>2
  <2>2. \A q \in Txs \ {p} : step'[q] = step[q]
    BY <1>4 DEF ReadCategory, OpenGroup, ReadGroup, ReadInside, ReadRecord, ReadDraft, Lock,
         Judge, GoOn
  <2> QED BY <1>4, <2>1, <2>2 DEF FreshInv
<1>5. ASSUME NEW p \in Txs, NEW end \in {"committed", "over"}, Finish(p, end),
             records' = records
      PROVE  FreshInv'
  BY <1>5 DEF Finish, FreshInv
<1>6. CASE UNCHANGED vars
  BY <1>6 DEF vars, FreshInv
<1>7. ASSUME NEW p \in Txs, Advance(p) \/ GiveUp(p) PROVE FreshInv'
  <2>1. CASE \/ Hide(p) \/ HideGroup(p) \/ Unhide(p) \/ UnhideGroup(p) \/ Place(p) \/ Create(p)
             \/ Move(p) \/ GiveUp(p)
    BY <1>5, <2>1 DEF Hide, HideGroup, Unhide, UnhideGroup, Place, Create, Move, GiveUp, Writes,
         rows
  <2>2. CASE \/ ReadCategory(p) \/ OpenGroup(p) \/ ReadGroup(p) \/ ReadInside(p)
             \/ ReadRecord(p) \/ ReadDraft(p) \/ Lock(p) \/ Judge(p)
    <3>1. records' = records /\ op' = op
      BY <2>2 DEF ReadCategory, OpenGroup, ReadGroup, ReadInside, ReadRecord, ReadDraft, Lock,
           Judge, GoOn, rows
    <3> QED BY <1>4, <2>2, <3>1
  <2> QED BY <1>2, <1>3, <1>7, <2>1, <2>2 DEF Advance
<1> QED BY <1>1, <1>6, <1>7 DEF Next

\* An envelope keeps its money when neither its assignment nor its records change.
LEMMA SameAvailable ==
  ASSUME NEW c \in Categories, assigned'[c] = assigned[c],
         \A r \in Records :
           \/ records'[r] = records[r]
           \/ /\ records[r] # None => records[r].category # c
              /\ records'[r] # None => records'[r].category # c
  PROVE  Available(c)' = Available(c)
<1>1. Filed(c)' = Filed(c) /\ \A r \in Filed(c) : records'[r] = records[r]
  BY DEF Filed
<1>2. [r \in Filed(c) |-> records[r].amount]' = [r \in Filed(c) |-> records[r].amount]
  BY <1>1
<1>3. SumFunction([r \in Filed(c) |-> records[r].amount])'
        = SumFunction([r \in Filed(c) |-> records[r].amount])
  BY <1>2
<1> QED BY <1>3 DEF Available

\* A move and an insert leave alone what a hide has locked; an edit and a removal say that they
\* may not.
LEMMA HeldKeepsItsMoney ==
  ASSUME Typed, FreshInv, NEW p \in Txs, NEW q \in Txs \ {p},
         step[q] = "write", op[q].kind \in {"hide", "hideGroup"}, NEW c \in held[q],
         Move(p) \/ Insert(p)
  PROVE  Available(c)' = Available(c)
<1> USE DEF Typed, TypeOK
<1>1. c \in Categories /\ c \notin held[p]
  BY DEF IInv, HeldInv
<1>2. CASE Move(p)
  <2>1. c \notin Named(op[p]) /\ op[p].kind = "move"
    BY <1>1, <1>2 DEF Move, Writes, IInv, JudgedInv
  <2>2. c # op[p].from /\ c # op[p].to
    BY <1>1, <2>1, EnvelopesAssumption DEF Named
  <2>3. assigned'[c] = assigned[c] /\ records' = records
    BY <1>1, <1>2, <2>2 DEF Move
  <2> QED BY <1>1, <2>3, SameAvailable
<1>3. CASE Insert(p)
  <2>1. op[p].category # c
    BY <1>3 DEF Insert, Checked, Blocks, LocksForUpdate
  <2>2. records[op[p].id] = None /\ op[p].kind = "record" /\ op[p].id \in Records
    BY <1>3, FiledRecord DEF Insert, Writes, FreshInv
  <2>3. /\ \A r \in Records \ {op[p].id} : records'[r] = records[r]
        /\ records'[op[p].id].category # c
        /\ assigned' = assigned
    BY <1>3, <2>1, <2>2 DEF Insert, File
  <2> QED BY <1>1, <2>2, <2>3, SameAvailable
<1> QED BY <1>2, <1>3

LEMMA EditedStays == Typed /\ [Next]_vars /\ Edited => Edited'
<1> SUFFICES ASSUME Typed, [Next]_vars, NEW q \in Txs,
                    op[q].kind \in {"rewrite", "remove"}, step[q] = "committed"
             PROVE  op'[q].kind \in {"rewrite", "remove"} /\ step'[q] = "committed"
  BY DEF Edited
<1>1. op'[q] = op[q] /\ step'[q] = step[q]
  BY ZenonT(60) DEF Next, Advance, Begin, GiveUp, ReadCategory, OpenGroup, ReadGroup, ReadInside, ReadRecord,
     ReadDraft, GoOn, Lock, Judge, Hide, HideGroup, Unhide, UnhideGroup, Place, Create, Move,
     Insert, Rewrite, Remove, Writes, Finish, vars, Typed, TypeOK
<1> QED BY <1>1

LEMMA NextEmptyInv == Typed /\ FreshInv /\ EmptyInv /\ [Next]_vars => EmptyInv'
<1> SUFFICES ASSUME Typed, FreshInv, EmptyInv, [Next]_vars, ~Edited',
                    NEW q \in Txs, op'[q].kind \in {"hide", "hideGroup"}, step'[q] = "write",
                    NEW c \in held'[q]
             PROVE  Available(c)' = 0
  BY DEF EmptyInv
<1> USE DEF Typed, TypeOK
<1>1. ~Edited
  BY EditedStays
<1>2. ASSUME NEW p \in Txs, Judge(p) PROVE Available(c)' = 0
  <2>1. records' = records /\ assigned' = assigned /\ op' = op /\ held' = held
    BY <1>2 DEF Judge, GoOn, rows
  <2>2. Available(c) = 0
    BY <1>1, <1>2, <2>1 DEF Judge, GoOn, EmptyInv
  <2> QED BY <2>1, <2>2, SameAvailable
<1>3. ASSUME ~ \E p \in Txs : Judge(p)
      PROVE  op'[q] = op[q] /\ step[q] = "write" /\ held'[q] = held[q] /\ Available(c) = 0
  <2>1. op'[q] = op[q] /\ step[q] = "write" /\ held'[q] = held[q]
    <3>1. ASSUME NEW p \in Txs, NEW o \in Menu, Begin(p, o)
          PROVE  op'[q] = op[q] /\ step[q] = "write" /\ held'[q] = held[q]
      <4>1. FirstStep(o) \in {"lock", "group", "category", "record", "draft"}
        BY EnvelopesAssumption DEF FirstStep
      <4> QED BY <3>1, <4>1 DEF Begin
    <3>2. ASSUME NEW p \in Txs, Advance(p) \/ GiveUp(p)
          PROVE  op'[q] = op[q] /\ step[q] = "write" /\ held'[q] = held[q]
      BY <1>3, <3>2 DEF Advance, GiveUp, ReadCategory, OpenGroup, ReadGroup, ReadInside, ReadRecord,
         ReadDraft, GoOn, Lock, Judge, Hide, HideGroup, Unhide, UnhideGroup, Place, Create, Move,
         Insert, Rewrite, Remove, Writes, Finish, IInv, PathInv
    <3> QED BY <3>1, <3>2 DEF Next, vars
  <2> QED BY <1>1, <2>1 DEF EmptyInv
<1>4. ASSUME NEW p \in Txs, Move(p) \/ Insert(p) PROVE Available(c)' = 0
  <2>1. ~ \E r \in Txs : Judge(r)
    BY <1>4 DEF Move, Insert, Writes, Finish, Judge, GoOn
  <2>2. q # p
    BY <1>4 DEF Move, Insert, Writes, Finish
  <2> QED BY <1>3, <1>4, <2>1, <2>2, HeldKeepsItsMoney
<1>5. ASSUME NEW p \in Txs, Rewrite(p) \/ Remove(p) PROVE FALSE
  BY <1>5 DEF Rewrite, Remove, Writes, Finish, Edited
<1>6. CASE records' = records /\ assigned' = assigned /\ ~ \E p \in Txs : Judge(p)
  BY <1>3, <1>6, SameAvailable
<1>7. \/ \E p \in Txs : Judge(p) \/ Move(p) \/ Insert(p) \/ Rewrite(p) \/ Remove(p)
      \/ records' = records /\ assigned' = assigned
  BY DEF Next, Advance, Begin, GiveUp, ReadCategory, OpenGroup, ReadGroup, ReadInside, ReadRecord,
     ReadDraft, GoOn, Lock, Hide, HideGroup, Unhide, UnhideGroup, Place, Create, rows, vars
<1> QED BY <1>2, <1>4, <1>5, <1>6, <1>7

\* An envelope that goes out of sight is empty, for any number of concurrent hides, moves and
\* new records; what an edit or a removal of an old record adds or takes is not under the lock.
THEOREM EmptyWhenHidden == Spec => HidesWhatIsEmpty
<1> DEFINE Empty == \A c \in Categories : IsShown(c) /\ ~IsShown(c)' =>
                      \/ Available(c)' = 0
                      \/ \E q \in Txs : op[q].kind \in {"rewrite", "remove"} /\ step[q] = "committed"
           Good == Typed /\ FreshInv /\ EmptyInv
<1>1. ASSUME Good, Next PROVE Empty
  <2> SUFFICES ASSUME NEW c \in Categories, IsShown(c), ~IsShown(c)', ~Edited
               PROVE  Available(c)' = 0
    BY DEF Edited
  <2>1. PICK p \in Txs :
          \/ Hide(p) \/ HideGroup(p) \/ Unhide(p) \/ UnhideGroup(p) \/ Place(p) \/ Create(p)
          \/ Move(p) \/ Insert(p) \/ Rewrite(p) \/ Remove(p)
    <3>1. categories' # categories
      BY DEF IsShown
    <3> QED BY <1>1, <3>1 DEF Next, Advance, Begin, GiveUp, ReadCategory, OpenGroup, ReadGroup,
            ReadInside, ReadRecord, ReadDraft, GoOn, Lock, Judge, rows
  <2>2. c \in held[p] /\ op[p].kind \in {"hide", "hideGroup"}
    BY <1>1, <2>1, WritesGentle DEF Typed, Gentle, IsShown, Row
  <2>3. step[p] = "write" /\ records' = records /\ assigned' = assigned
    BY <2>1, <2>2 DEF Hide, HideGroup, Unhide, UnhideGroup, Place, Create, Move, Insert, Rewrite,
         Remove, Writes
  <2>4. Available(c) = 0
    BY <1>1, <2>2, <2>3 DEF EmptyInv
  <2> QED BY <2>3, <2>4, SameAvailable
<1>2. Init => Good
  BY InitTyped DEF Init, FreshInv, EmptyInv
<1>3. Good /\ [Next]_vars => Good'
  BY NextTyped, NextFreshInv, NextEmptyInv
<1>4. Good /\ [Next]_vars => [Empty]_vars
  BY <1>1
<1> QED BY <1>2, <1>3, <1>4, PTL DEF Spec, HidesWhatIsEmpty
=============================================================================
