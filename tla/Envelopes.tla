----------------------------- MODULE Envelopes -----------------------------
(***************************************************************************)
(* Categories, their groups and the money in them: CategoriesService,      *)
(* CategoryGroupsService, MovesService, and what TransactionsService asks  *)
(* of a category.  Each operation is one READ COMMITTED transaction; what  *)
(* it reads without a lock may have changed when it writes.                *)
(*                                                                         *)
(* The last write of an operation and its commit are one step: nothing can *)
(* be seen between them.  Months are summed away (a hide asks for the sum  *)
(* over all of them), accounts are AccountLedger's, sort orders are        *)
(* Orders', and names and colours are left out.                            *)
(***************************************************************************)
EXTENDS Integers, FiniteSets, FiniteSetsExt

CONSTANTS
  Txs,         \* the transactions in flight
  Groups,      \* category groups
  Categories,  \* category ids, numbers so that they have an order
  Records,     \* transaction ids
  Menu,        \* the operations a request may ask for
  Seed,        \* the state there is at first: categories and records
  Shown,       \* the marker of what is not hidden
  Pool,        \* Ready to Assign, the envelope that is no category
  None         \* no row, nothing read

Record == [category : Categories, amount : Int]

ASSUME EnvelopesAssumption ==
  /\ IsFiniteSet(Txs) /\ Categories \subseteq Int
  /\ Shown \notin Txs /\ Pool \notin Categories /\ None \notin Txs \union Groups \union {Shown}
  /\ None \notin [group : Groups, hidden : Txs \union {Shown}]
  /\ None \notin Record
  /\ Seed.categories \in [Categories -> [group : Groups, hidden : {Shown}] \union {None}]
  /\ Seed.records \in [Records -> Record \union {None}]
  /\ \A o \in Menu :
       /\ o.kind \in {"create", "place", "hide", "unhide", "hideGroup", "unhideGroup", "move",
                      "record", "rewrite", "remove"}
       /\ o.kind \in {"create", "place", "hide", "unhide", "record", "rewrite"} =>
            o.category \in Categories
       /\ o.kind \in {"create", "place", "hideGroup", "unhideGroup"} => o.group \in Groups
       /\ o.kind = "move" => {o.from, o.to} \subseteq Categories \union {Pool} /\ o.from # o.to
       /\ o.kind \in {"record", "rewrite", "remove"} => o.id \in Records
       /\ o.kind \in {"record", "rewrite", "move"} => o.amount \in Int

VARIABLES
  groups,      \* group -> the marker it carries
  categories,  \* category -> its group and marker, or None
  assigned,    \* category -> the sum of its assignments
  records,     \* record -> its category and amount, or None
  op,          \* transaction -> the operation it runs
  step,        \* transaction -> where it stands
  want,        \* transaction -> the category rows it has still to lock
  held,        \* transaction -> the category rows it has locked
  seen         \* transaction -> what it read and goes on

rows == <<groups, categories, assigned, records>>
vars == <<groups, categories, assigned, records, op, step, want, held, seen>>

\* A marker is the moment of the hide that left it, named here by its transaction.
Marker   == Txs \union {Shown}
Category == [group : Groups, hidden : Marker]

Inside(g)    == {c \in Categories : categories[c] # None /\ categories[c].group = g}
Filed(c)     == {r \in Records : records[r] # None /\ records[r].category = c}
Available(c) == assigned[c] + SumFunction([r \in Filed(c) |-> records[r].amount])
IsShown(c)   == categories[c] # None /\ categories[c].hidden = Shown

First(S) == {x \in S : \A y \in S : x <= y}

\* lockCategories: FOR UPDATE, which even a foreign key's check waits for.
LocksForUpdate(p) == op[p].kind \in {"hide", "hideGroup", "move"}

Init ==
  /\ groups = [g \in Groups |-> Shown]
  /\ categories = Seed.categories
  /\ assigned = [c \in Categories |-> 0]
  /\ records = Seed.records
  /\ op = [p \in Txs |-> [kind |-> "none"]]
  /\ step = [p \in Txs |-> "idle"]
  /\ want = [p \in Txs |-> {}]
  /\ held = [p \in Txs |-> {}]
  /\ seen = [p \in Txs |-> None]

-----------------------------------------------------------------------------

FirstStep(o) == CASE o.kind \in {"hide", "move"}                      -> "lock"
                  [] o.kind \in {"create", "hideGroup", "unhideGroup"} -> "group"
                  [] o.kind \in {"place", "unhide"}                    -> "category"
                  [] o.kind \in {"rewrite", "remove"}                  -> "record"
                  [] o.kind = "record"                                 -> "draft"

Named(o) == CASE o.kind = "hide" -> {o.category}
              [] o.kind = "move" -> {o.from, o.to} \ {Pool}
              [] OTHER           -> {}

Begin(p, o) ==
  /\ step[p] = "idle"
  /\ o.kind \in {"create", "record"} =>
       \A q \in Txs : op[q].kind = o.kind => op[q].id # o.id
  /\ o.kind = "create" => categories[o.category] = None
  /\ o.kind = "record" => records[o.id] = None
  /\ op' = [op EXCEPT ![p] = o]
  /\ step' = [step EXCEPT ![p] = FirstStep(o)]
  /\ want' = [want EXCEPT ![p] = Named(o)]
  /\ seen' = [seen EXCEPT ![p] = IF o.kind = "create" THEN o.group ELSE None]
  /\ UNCHANGED <<rows, held>>

Finish(p, end) ==
  /\ step' = [step EXCEPT ![p] = end]
  /\ want' = [want EXCEPT ![p] = {}]
  /\ held' = [held EXCEPT ![p] = {}]
  /\ seen' = [seen EXCEPT ![p] = None]
  /\ UNCHANGED op

\* The transaction ends without a trace: a refusal, an error, a timeout or a crash.
GiveUp(p) ==
  /\ step[p] \notin {"idle", "committed", "over"}
  /\ Finish(p, "over")
  /\ UNCHANGED rows

GoOn(p, next, read) ==
  /\ step' = [step EXCEPT ![p] = next]
  /\ seen' = [seen EXCEPT ![p] = read]
  /\ UNCHANGED <<rows, op, held>>

\* knownCategory: which group has to be open depends on it, and so does whether it moves at all.
ReadCategory(p) ==
  /\ step[p] = "category"
  /\ LET row == categories[op[p].category]
     IN  /\ row # None
         /\ op[p].kind = "place" => row.group # op[p].group
         /\ GoOn(p, "group", IF op[p].kind = "place" THEN op[p].group ELSE row.group)
  /\ UNCHANGED want

\* openGroup
OpenGroup(p) ==
  /\ step[p] = "group" /\ op[p].kind \in {"create", "place", "unhide"}
  /\ groups[seen[p]] = Shown
  /\ GoOn(p, "write", None)
  /\ UNCHANGED want

\* knownGroup, and ALREADY_HIDDEN when the group is to be hidden.
ReadGroup(p) ==
  /\ step[p] = "group" /\ op[p].kind \in {"hideGroup", "unhideGroup"}
  /\ op[p].kind = "hideGroup" => groups[op[p].group] = Shown
  /\ GoOn(p, "inside", groups[op[p].group])
  /\ UNCHANGED want

ReadInside(p) ==
  /\ step[p] = "inside"
  /\ LET inside == Inside(op[p].group)
     IN  want' = [want EXCEPT ![p] =
           IF op[p].kind = "hideGroup" THEN inside
           ELSE {c \in inside : categories[c].hidden = seen[p]}]
  /\ GoOn(p, "lock", None)

\* The record an edit or a removal works on, read before any lock.
ReadRecord(p) ==
  /\ step[p] = "record"
  /\ records[op[p].id] # None
  /\ GoOn(p, IF op[p].kind = "remove" THEN "write" ELSE "draft", records[op[p].id].category)
  /\ UNCHANGED want

\* refuseDraft: a record may keep the hidden category it has, and takes no new one.
DraftFits(p, c) == c # seen[p] => IsShown(c)

ReadDraft(p) ==
  /\ step[p] = "draft"
  /\ categories[op[p].category] # None
  /\ DraftFits(p, op[p].category)
  /\ GoOn(p, "write", None)
  /\ UNCHANGED want

-----------------------------------------------------------------------------

\* Rows are locked in id order: by one FOR UPDATE statement, or by unhide's updates.
Downwards(p) == IF LocksForUpdate(p) THEN First(want[p]) \* mutant of NextRow
                ELSE {c \in want[p] : \A d \in want[p] : d <= c}
NextRow(p) == First(want[p])

NoBlock(q, p, c) == FALSE                               \* mutant of Blocks
Blocks(q, p, c) == q # p /\ c \in held[q]

Lock(p) ==
  /\ step[p] = "lock"
  /\ \E c \in NextRow(p) :
       /\ \A q \in Txs : ~Blocks(q, p, c)
       /\ held' = [held EXCEPT ![p] = @ \union {c}]
       /\ want' = [want EXCEPT ![p] = @ \ {c}]
  /\ UNCHANGED <<rows, op, step, seen>>

\* refuseWhatStillHoldsMoney, and the refusals for a hidden row.
Judge(p) ==
  /\ step[p] = "lock" /\ want[p] = {}
  /\ op[p].kind \in {"hide", "hideGroup"} => \A c \in held[p] : Available(c) = 0
  /\ op[p].kind \in {"hide", "move"} => \A c \in held[p] : IsShown(c)
  /\ GoOn(p, "write", None)
  /\ UNCHANGED want

\* An update waits for every lock on its row; an insert checks its foreign key, which
\* waits for FOR UPDATE alone.
Free(p, c)   == \A q \in Txs : ~Blocks(q, p, c)
NoCheck(p, c) == TRUE                                   \* mutant of Checked
Checked(p, c) == \A q \in Txs : LocksForUpdate(q) => ~Blocks(q, p, c)

Writes(p, kind) == step[p] = "write" /\ op[p].kind = kind /\ Finish(p, "committed")

SetHidden(C, marker) ==
  categories' = [c \in Categories |->
    IF c \in C THEN [categories[c] EXCEPT !.hidden = marker] ELSE categories[c]]

Hide(p) ==
  /\ Writes(p, "hide")
  /\ SetHidden({op[p].category}, p)
  /\ UNCHANGED <<groups, assigned, records>>

\* Of the rows under the lock, those still standing are hidden, then the group.
Standing(p) == {c \in held[p] : IsShown(c)}
HideGroup(p) ==
  /\ Writes(p, "hideGroup")
  /\ SetHidden(Standing(p), p)
  /\ groups' = [groups EXCEPT ![op[p].group] = p]
  /\ UNCHANGED <<assigned, records>>

Unhide(p) ==
  /\ Writes(p, "unhide")
  /\ Free(p, op[p].category)
  /\ SetHidden({op[p].category}, Shown)
  /\ UNCHANGED <<groups, assigned, records>>

UnhideGroup(p) ==
  /\ Writes(p, "unhideGroup")
  /\ SetHidden(held[p], Shown)
  /\ groups' = [groups EXCEPT ![op[p].group] = Shown]
  /\ UNCHANGED <<assigned, records>>

Place(p) ==
  /\ Writes(p, "place")
  /\ Free(p, op[p].category)
  /\ categories' = [categories EXCEPT ![op[p].category].group = op[p].group]
  /\ UNCHANGED <<groups, assigned, records>>

Create(p) ==
  /\ Writes(p, "create")
  /\ categories' = [categories EXCEPT ![op[p].category] =
                      [group |-> op[p].group, hidden |-> Shown]]
  /\ UNCHANGED <<groups, assigned, records>>

\* Each side's assignment is incremented where it stands, or created.
Move(p) ==
  /\ Writes(p, "move")
  /\ assigned' = [c \in Categories |->
       CASE c = op[p].from -> assigned[c] - op[p].amount
         [] c = op[p].to   -> assigned[c] + op[p].amount
         [] OTHER          -> assigned[c]]
  /\ UNCHANGED <<groups, categories, records>>

File(p) ==
  records' = [records EXCEPT ![op[p].id] = [category |-> op[p].category, amount |-> op[p].amount]]

Insert(p) ==
  /\ Writes(p, "record")
  /\ Checked(p, op[p].category)
  /\ File(p)
  /\ UNCHANGED <<groups, categories, assigned>>

\* The foreign key is checked again only when the category really changes.
Rewrite(p) ==
  /\ Writes(p, "rewrite")
  /\ records[op[p].id] # None
  /\ records[op[p].id].category # op[p].category => Checked(p, op[p].category)
  /\ File(p)
  /\ UNCHANGED <<groups, categories, assigned>>

Remove(p) ==
  /\ Writes(p, "remove")
  /\ records[op[p].id] # None
  /\ records' = [records EXCEPT ![op[p].id] = None]
  /\ UNCHANGED <<groups, categories, assigned>>

Advance(p) ==
  \/ ReadCategory(p) \/ OpenGroup(p) \/ ReadGroup(p) \/ ReadInside(p)
  \/ ReadRecord(p) \/ ReadDraft(p) \/ Lock(p) \/ Judge(p)
  \/ Hide(p) \/ HideGroup(p) \/ Unhide(p) \/ UnhideGroup(p) \/ Place(p) \/ Create(p)
  \/ Move(p) \/ Insert(p) \/ Rewrite(p) \/ Remove(p)

Next == \E p \in Txs : (\E o \in Menu : Begin(p, o)) \/ Advance(p) \/ GiveUp(p)

Spec == Init /\ [][Next]_vars

-----------------------------------------------------------------------------

\* The type invariant.
TypeOK ==
  /\ groups \in [Groups -> Marker]
  /\ categories \in [Categories -> Category \union {None}]
  /\ assigned \in [Categories -> Int]
  /\ records \in [Records -> Record \union {None}]
  /\ op \in [Txs -> Menu \union {[kind |-> "none"]}]
  /\ step \in [Txs -> {"idle", "category", "group", "inside", "record", "draft", "lock",
                       "write", "committed", "over"}]
  /\ want \in [Txs -> SUBSET Categories]
  /\ held \in [Txs -> SUBSET Categories]
  /\ seen \in [Txs -> Groups \union Categories \union Marker \union {None}]

\* Money is moved neither into a hidden envelope nor out of one, whichever of a move and a
\* hide of the same envelope wins the race.
MovesSpareTheHidden ==
  [][\A c \in Categories : assigned'[c] # assigned[c] => IsShown(c) /\ IsShown(c)']_vars

\* Hiding what is hidden is refused, not repeated: a category's marker decides which months
\* stopped showing it, and two hides of it, or of it and its group, never move that marker.
CategoryMarkersStayPut ==
  [][\A c \in Categories : categories[c] # None /\ categories[c].hidden # Shown =>
        categories'[c].hidden \in {categories[c].hidden, Shown}]_vars

\* An envelope is empty when it goes out of sight: neither a move nor a new record slips in
\* between the sum and the marker.  Only an edit or a removal of a record that is already in
\* the envelope can, since it takes no lock on it: those are free to change a hidden one too.
HidesWhatIsEmpty ==
  [][\A c \in Categories : IsShown(c) /\ ~IsShown(c)' =>
        \/ Available(c)' = 0
        \/ \E q \in Txs : op[q].kind \in {"rewrite", "remove"} /\ step[q] = "committed"]_vars

\* Nobody waits in a circle: rows are locked in id order, whichever operation locks them.
WaitsFor(p, q) ==
  \/ step[p] = "lock" /\ \E c \in NextRow(p) : Blocks(q, p, c)
  \/ /\ step[p] = "write" /\ op[p].kind \in {"unhide", "place", "record", "rewrite"}
     /\ Blocks(q, p, op[p].category)
NoDeadlock ==
  \A S \in (SUBSET Txs) \ {{}} : \E p \in S : \A q \in S : ~WaitsFor(p, q)

\* The same promise for groups: the marker of a hidden group stays the one its categories carry.
GroupMarkersStayPut ==
  [][\A g \in Groups : groups[g] # Shown => groups'[g] \in {groups[g], Shown}]_vars

\* A group that is out of sight has nothing in it that is not.
HiddenGroupsHideAll ==
  \A g \in Groups : groups[g] # Shown => \A c \in Inside(g) : ~IsShown(c)

\* A hidden category takes no new record.
HiddenTakesNoNew ==
  [][\A c \in Categories : Filed(c)' \ Filed(c) # {} => IsShown(c)]_vars
=============================================================================
