------------------------------ MODULE FormDesk ------------------------------
(* The forms of the web client that write: records, accounts, envelopes,    *)
(* goals, assets, budgets (apps/web/src/components).  A form mints an       *)
(* idempotency key, is typed into, sent, answered or lost, sent again,      *)
(* closed while its request is out, and the screen under it is read anew.   *)
(* Each form is a record: which of its fields are shut while a request is   *)
(* out ("sending") or once one was lost ("held"), and when it mints another *)
(* key.  One screen, or desk, has its forms opened one at a time.           *)
(*                                                                          *)
(* What is typed is one of two intents.  The server keeps MutationPoint's   *)
(* promise: one effect per key, the first answer to a repeat, a conflict    *)
(* for a key that comes back with another intent, and an error at any time, *)
(* for a write it has made as well; requests of one key reach it in the     *)
(* order they were sent.                                                    *)
EXTENDS Integers, FiniteSets

CONSTANTS
  Desks,       \* the screens in use
  MaxKey,      \* bound: keys minted
  MaxSends,    \* bound: requests sent
  MaxSaves,    \* bound: openings of a form, and further records it is kept for
  OneAtATime   \* the reader opens no form over a request still out, on the
               \* screens that would let them

ASSUME FormDeskAssumption ==
  /\ Desks \subseteq {"entry", "ledger", "month", "sweep", "worth", "name",
                      "switch", "start"}
  /\ Desks # {} /\ {MaxKey, MaxSends, MaxSaves} \subseteq Nat
  /\ OneAtATime \in BOOLEAN

VARIABLES
  desk,       \* the screen
  form,       \* the open form, NoForm when there is none
  failure,    \* the kinds of failure the screen shows
  sent,       \* the screen's flag: something was sent and not settled
  rereading,  \* net worth: a form was closed on a request, figures are re-read
  calls,      \* requests the client still waits for, or for the reading after
  wire,       \* requests the server may still see
  decided,    \* what the server holds under a key
  reading,    \* the reading of the screen's figures in flight
  shown,      \* the writes those figures hold
  minted, saves, sends,   \* counters
  told,       \* ghost: the saves the reader was told are done
  retyped,    \* ghost: the saves whose form was typed into after it was sent
  misheard,   \* ghost: the keys that have written, and were answered an error
  owed        \* ghost: writes told of, or already made when they were given
              \* up, and no reading has failed since

desked == <<desk, form, failure, sent, rereading>>
served == <<wire, decided>>
ghosts == <<told, retyped, misheard, owed>>
formVars == <<desked, calls, served, reading, shown, minted, saves, sends, ghosts>>

Intents == {"first", "other"}
Kinds == {"conflict", "budget", "network", "other"}

-----------------------------------------------------------------------------
(* The forms. *)

EntryFields == [kind |-> "free", amount |-> "sending", date |-> "free",
                category |-> "free", payee |-> "sending", account |-> "free"]
EntryForm == [fields |-> EntryFields, mints |-> "afterRefusal"]

AccountFields == [name |-> "held", type |-> "held", balance |-> "held"]
AccountForm == [fields |-> AccountFields, mints |-> "afterRefusal"]
ReconcileForm == [fields |-> [balance |-> "held"], mints |-> "afterRefusal"]
ItemFields == [name |-> "held", amount |-> "held", date |-> "held"]
ItemForm == [fields |-> ItemFields, mints |-> "afterRefusal"]

CategoryForm == [fields |-> [look |-> "free", name |-> "free", group |-> "free"],
                 mints |-> "never"]
GroupForm == [fields |-> [name |-> "free"], mints |-> "never"]
GoalForm == [fields |-> [answer |-> "free", amount |-> "free", month |-> "free"],
             mints |-> "never"]

RenameForm == [fields |-> [name |-> "free"], mints |-> "afterFailure"]
NewAccountForm == [fields |-> [name |-> "sending", type |-> "sending", balance |-> "sending"],
                   mints |-> "afterFailure"]
NewBudgetForm == [fields |-> [language |-> "free", template |-> "sending", name |-> "free",
                              currency |-> "free", defaults |-> "free"],
                  mints |-> "afterFailure"]

(* A question with nothing to type: delete, archive, hide, the paid mark,   *)
(* switch.  "hide" is all those the month asks, archiving is a "delete".    *)
Question == [fields |-> [none |-> "shut"], mints |-> "never"]
(* The remainder an envelope is emptied of, which changes under the question. *)
SweepQuestion == [fields |-> [remainder |-> "free"], mints |-> "never"]

Forms ==
  [entry |-> EntryForm, edit |-> EntryForm, delete |-> Question,
   account |-> AccountForm, reconcile |-> ReconcileForm,
   category |-> CategoryForm, group |-> GroupForm, goal |-> GoalForm,
   hide |-> Question, sweep |-> SweepQuestion,
   item |-> ItemForm, remove |-> Question,
   rename |-> RenameForm, activate |-> Question,
   newBudget |-> NewBudgetForm, newAccount |-> NewAccountForm]

(* Forms that promise to freeze what they sent while its fate is unknown. *)
Held == {"account", "reconcile", "item"}
(* Forms that may be changed after a request of theirs was lost. *)
Loose == {k \in DOMAIN Forms : Forms[k].mints # "never"} \ Held

(* The ledger keeps the failures of its account forms apart from the rest:  *)
(* accountFailure and failed; a failed reconciliation sets both.            *)
Channels == {"failed", "accountFailure"}
SetBy(k) ==
  CASE k = "reconcile" -> Channels
    [] k = "account" -> {"accountFailure"}
    [] OTHER -> {"failed"}
ReadBy(k) == IF k \in {"account", "reconcile"} THEN "accountFailure" ELSE "failed"
Failing(channels, kind) ==
  [h \in Channels |-> IF h \in channels THEN kind ELSE failure[h]]
NoFailure == [h \in Channels |-> "none"]
FailureOf(k) == failure[ReadBy(k)]

On(d) ==
  CASE d = "entry" -> {"entry"}
    [] d = "ledger" -> {"edit", "delete", "account", "reconcile"}
    [] d = "month" -> {"category", "group", "goal", "hide"}
    [] d = "sweep" -> {"sweep"}
    [] d = "worth" -> {"item", "remove"}
    [] d = "name" -> {"rename"}
    [] d = "switch" -> {"activate"}
    [] d = "start" -> {"newBudget", "newAccount"}

NoForm == [kind |-> "none", key |-> 0, typed |-> "first", save |-> 0]
Saves == 1..MaxSaves
FormKeys == 1..MaxKey
OpenForms == [kind : On(desk), key : FormKeys, typed : Intents, save : Saves]
Calls == [id : 1..MaxSends, kind : On(desk), key : FormKeys, typed : Intents,
          save : Saves, more : BOOLEAN, home : BOOLEAN,
          st : {"out", "won", "failed"}]
Undecided == [st |-> "none", typed |-> "first", save |-> 0, kind |-> "none"]
Applied == {k \in FormKeys : decided[k].st = "applied"}

FormTypeOK ==
  /\ desk \in Desks
  /\ form \in OpenForms \cup {NoForm}
  /\ failure \in [Channels -> Kinds \cup {"none"}]
  /\ sent \in BOOLEAN /\ rereading \in BOOLEAN
  /\ calls \subseteq Calls /\ wire \subseteq Calls
  /\ decided \in [FormKeys -> [st : {"none", "applied", "refused"}, typed : Intents,
                             save : Saves \cup {0}, kind : On(desk) \cup {"none"}]]
  /\ reading \in [st : {"none", "asked", "read"}, saw : SUBSET FormKeys]
  /\ shown \subseteq FormKeys
  /\ minted \in 0..MaxKey /\ saves \in 0..MaxSaves /\ sends \in 0..MaxSends
  /\ told \subseteq Saves /\ retyped \subseteq Saves
  /\ misheard \subseteq FormKeys /\ owed \subseteq FormKeys

NotAsked == [st |-> "none", saw |-> {}]
Asked == [st |-> "asked", saw |-> {}]

FormInit ==
  /\ desk \in Desks
  /\ form = NoForm /\ failure = NoFailure /\ sent = FALSE /\ rereading = FALSE
  /\ calls = {} /\ wire = {} /\ decided = [k \in FormKeys |-> Undecided]
  /\ reading = NotAsked /\ shown = {}
  /\ minted = 0 /\ saves = 0 /\ sends = 0
  /\ told = {} /\ retyped = {} /\ misheard = {} /\ owed = {}

-----------------------------------------------------------------------------
(* What is pending.  NewEntryDialog holds its own mutations, so a form      *)
(* opened anew waits for nothing the one before it sent; elsewhere the      *)
(* screen holds them.                                                       *)
Pending(kinds) ==
  \E c \in calls : c.kind \in kinds /\ (desk = "entry" => c.home)

(* busy, per form. *)
Busy(k) ==
  CASE k \in {"edit", "delete"} -> Pending({"edit", "delete", "reconcile"})
    [] k = "category" -> FALSE
    [] OTHER -> Pending({k})

Shut(f) ==
  CASE f = "free" -> FALSE
    [] f = "sending" -> Busy(form.kind)
    [] f = "held" -> Busy(form.kind) \/ FailureOf(form.kind) = "network"
    [] f = "shut" -> TRUE

Minting(n) == minted + n <= MaxKey /\ minted' = minted + n
Fresh == minted + 1

(* The screens that read again when a form is closed on a request. *)
Remembers(k) == k \in {"account", "reconcile", "item", "remove"}

(* What a screen forgets of the failures before, when a form is opened. *)
ForgetsOnOpening(k) ==
  IF k \in {"edit", "account", "reconcile"} THEN failure ELSE Failing({"failed"}, "none")

OpenAnyTime(k) == form = NoForm \* mutant of MayOpen
MayOpen(k) ==
  /\ IF k = "delete" THEN form.kind = "edit" ELSE form = NoForm
  /\ k \in {"item", "remove"} => ~rereading /\ ~Pending({"item", "remove"})
  /\ k = "activate" => ~Busy(k)

Patient == OneAtATime /\ desk \in {"ledger", "month"} => calls = {}

(* setEditing, setManaging, open, ask, setEntering; a page that is entered. *)
OpenForm(k) ==
  /\ k \in On(desk) /\ MayOpen(k) /\ Patient
  /\ saves < MaxSaves /\ saves' = saves + 1
  /\ Minting(1)
  /\ form' = [kind |-> k, key |-> Fresh, typed |-> "first", save |-> saves + 1]
  /\ failure' = ForgetsOnOpening(k)
  /\ UNCHANGED <<desk, sent, rereading, calls, served, reading, shown, sends, ghosts>>

(* edited: a form that mints another key after a failure does so whenever   *)
(* that failure is shown, and takes it off, the entry form excepted.        *)
MintsOnTyping(k) ==
  CASE Forms[k].mints = "never" -> FALSE
    [] Forms[k].mints = "afterRefusal" -> FailureOf(k) \notin {"none", "network"}
    [] Forms[k].mints = "afterFailure" -> FailureOf(k) # "none"

ForgetsOnTyping(k) ==
  IF k \in {"entry", "edit"} THEN failure ELSE Failing(SetBy(k), "none")

Type ==
  /\ form # NoForm
  /\ \E f \in DOMAIN Forms[form.kind].fields : ~Shut(Forms[form.kind].fields[f])
  /\ LET mints == MintsOnTyping(form.kind) IN
     \E typed \in Intents \ {form.typed} :
       /\ Minting(IF mints THEN 1 ELSE 0)
       /\ form' = [form EXCEPT !.typed = typed, !.key = IF mints THEN Fresh ELSE @]
       /\ failure' = IF mints THEN ForgetsOnTyping(form.kind) ELSE failure
  /\ retyped' = IF form.save \in {c.save : c \in calls \cup wire}
                      \/ FailureOf(form.kind) # "none" \/ form.save \in told
                  THEN retyped \cup {form.save} ELSE retyped
  /\ UNCHANGED <<desk, sent, rereading, calls, served, reading, shown, saves,
                 sends, told, misheard, owed>>

ForgetsOnSending(k) == k \in {"rename", "activate"}

(* submit, again, onSave, press, onConfirm: the form goes out as it stands. *)
Send ==
  /\ form # NoForm /\ ~Busy(form.kind)
  /\ sends < MaxSends /\ sends' = sends + 1
  /\ \E more \in IF form.kind = "entry" THEN BOOLEAN ELSE {FALSE} :
       LET call == [id |-> sends + 1, kind |-> form.kind, key |-> form.key,
                    typed |-> form.typed, save |-> form.save, more |-> more,
                    home |-> TRUE, st |-> "out"]
       IN calls' = calls \cup {call} /\ wire' = wire \cup {call}
  /\ sent' = (sent \/ Remembers(form.kind))
  /\ failure' = IF ForgetsOnSending(form.kind) THEN NoFailure ELSE failure
  /\ UNCHANGED <<desk, form, rereading, decided, reading, shown, minted, saves, ghosts>>

LeavesHome(c) == [c EXCEPT !.home = FALSE]

RereadsUnseen == UNCHANGED rereading \* mutant of RereadsSeen
RereadsSeen == rereading' = (rereading \/ desk = "worth")

(* close, closeManaging, onClose, closeAsking; a page that is left.  Only   *)
(* the question about another budget waits for its answer.                  *)
Close ==
  /\ form # NoForm
  /\ form.kind = "activate" => ~Busy("activate")
  /\ form' = NoForm /\ failure' = NoFailure
  /\ calls' = {LeavesHome(c) : c \in calls}
  /\ IF sent
       THEN /\ sent' = FALSE
            /\ reading' = Asked
            /\ RereadsSeen
            /\ owed' = owed \cup {k \in Applied : decided[k].save = form.save}
       ELSE UNCHANGED <<sent, reading, rereading, owed>>
  /\ UNCHANGED <<desk, served, shown, minted, saves, sends, told, retyped, misheard>>

-----------------------------------------------------------------------------
(* The server. *)

Decides(c, st) ==
  decided' = [decided EXCEPT ![c.key] =
                [st |-> st, typed |-> c.typed, save |-> c.save, kind |-> c.kind]]

Serve(c) ==
  /\ c \in wire /\ decided[c.key] = Undecided
  /\ \E st \in {"applied", "refused"} : Decides(c, st)
  /\ UNCHANGED <<desked, calls, wire, reading, shown, minted, saves, sends, ghosts>>

(* What the server answers a request, or none before it has seen it. *)
AnswerTo(c) ==
  IF decided[c.key] = Undecided THEN "none"
  ELSE IF decided[c.key].typed # c.typed THEN "conflict" ELSE decided[c.key].st

-----------------------------------------------------------------------------
(* The answers. *)

Gone(c) == wire' = {w \in wire : w.id # c.id}

(* A success the screen's own handler settles: every form is closed, every  *)
(* flag taken back, and the request is pending until the figures are read.  *)
Settled(c) ==
  /\ form' = NoForm /\ failure' = NoFailure /\ sent' = FALSE
  /\ calls' = {LeavesHome([d EXCEPT !.st = IF d.id = c.id THEN "won" ELSE @]) : d \in calls}
  /\ UNCHANGED <<minted, saves>>

LandedUnderOneKey(c) == form.key \* mutant of LandedKey
LandedKey(c) == Fresh

(* The form is kept for another record, under another key: landed. *)
KeptForAnother(c) ==
  /\ saves < MaxSaves /\ saves' = saves + 1
  /\ Minting(1)
  /\ form' = [form EXCEPT !.key = LandedKey(c), !.typed = "first", !.save = saves + 1]

(* NewEntryDialog: the form's own handlers run only while it is open. *)
EntrySaved(c) ==
  /\ calls' = calls \ {c}
  /\ IF c.home /\ c.more THEN KeptForAnother(c) /\ failure' = NoFailure
     ELSE /\ form' = IF c.home THEN NoForm ELSE form
          /\ failure' = IF c.home THEN NoFailure ELSE failure
          /\ UNCHANGED <<minted, saves>>
  /\ UNCHANGED sent

(* saveName.onSuccess *)
NameSaved(c) ==
  /\ calls' = calls \ {c}
  /\ IF c.home THEN KeptForAnother(c) ELSE UNCHANGED <<form, minted, saves>>
  /\ UNCHANGED <<failure, sent>>

(* sweep: the question stays open, under the key it has. *)
Swept(c) ==
  /\ calls' = (calls \ {c}) \cup {[c EXCEPT !.st = "won"]}
  /\ UNCHANGED <<form, failure, sent, minted, saves>>

(* makeActive and the form for the first account stay until the figures are *)
(* read; the form for a budget gives way to its outcome at once.            *)
StaysUntilRead(c) ==
  /\ calls' = (calls \ {c}) \cup {[c EXCEPT !.st = "won"]}
  /\ form' = IF c.kind = "newBudget" /\ c.home THEN NoForm ELSE form
  /\ UNCHANGED <<failure, sent, minted, saves>>

Succeeds(c) ==
  /\ c.st = "out" /\ AnswerTo(c) = "applied"
  /\ CASE desk = "entry" -> EntrySaved(c)
       [] desk = "name" -> NameSaved(c)
       [] desk = "sweep" -> Swept(c)
       [] desk \in {"switch", "start"} -> StaysUntilRead(c)
       [] OTHER -> Settled(c)
  /\ reading' = Asked
  /\ told' = told \cup {c.save} /\ owed' = owed \cup {c.key}
  /\ Gone(c)
  /\ UNCHANGED <<desk, rereading, decided, shown, sends, retyped, misheard>>

KeepsTheKey(kind) == kind = "network"
RemintsAlways(c, kind) == c.kind \in {"rename", "activate"} \* mutant of RemintsOnFailure
RemintsOnFailure(c, kind) == c.kind \in {"rename", "activate"} /\ ~KeepsTheKey(kind)

(* refused of the net worth screen reads again what the server did answer. *)
RereadsAfter(kind) == desk = "worth" /\ kind \notin {"network", "budget"}

Fails(c, kind) ==
  /\ c.st = "out"
  /\ calls' = (calls \ {c}) \cup (IF desk = "sweep" THEN {[c EXCEPT !.st = "failed"]} ELSE {})
  /\ failure' = IF (desk \in {"entry", "name", "start"} /\ ~c.home)
                     \/ (desk = "sweep" /\ form = NoForm)
                  THEN failure ELSE Failing(SetBy(c.kind), kind)
  /\ LET mints == RemintsOnFailure(c, kind) /\ c.home IN
     /\ Minting(IF mints THEN 1 ELSE 0)
     /\ form' = IF mints THEN [form EXCEPT !.key = Fresh] ELSE form
  /\ sent' = (sent /\ ~RereadsAfter(kind))
  /\ reading' = IF RereadsAfter(kind) \/ desk = "sweep" THEN Asked ELSE reading
  /\ UNCHANGED <<desk, rereading, decided, shown, saves, sends, told, retyped, owed>>

Refused(c) ==
  AnswerTo(c) = "refused" /\ Fails(c, "other") /\ Gone(c) /\ UNCHANGED misheard
Conflicts(c) ==
  AnswerTo(c) = "conflict" /\ Fails(c, "conflict") /\ Gone(c) /\ UNCHANGED misheard
(* An error, or no active budget, which only net worth tells apart: nothing *)
(* was recorded, nor of the requests sent under this key before.            *)
Breaks(c) ==
  /\ AnswerTo(c) = "none"
  /\ \E kind \in {"other"} \cup (IF desk = "worth" THEN {"budget"} ELSE {}) : Fails(c, kind)
  /\ wire' = {w \in wire : w.key # c.key}
  /\ UNCHANGED misheard
(* An error for a write that was made, now or by an earlier attempt.        *)
Mishears(c) ==
  /\ AnswerTo(c) = "applied" /\ Fails(c, "other") /\ Gone(c)
  /\ misheard' = misheard \cup {c.key}
Lost(c) == Fails(c, "network") /\ UNCHANGED <<wire, misheard>>

-----------------------------------------------------------------------------
(* The reading of the figures.  A re-read starts it anew and whoever waited *)
(* for the first waits for the second.  Only the figures of net worth hold  *)
(* a form back: what a reading sees is left out elsewhere.                  *)

FetchReads ==
  /\ reading.st = "asked"
  /\ reading' = [st |-> "read", saw |-> IF desk = "worth" THEN Applied ELSE {}]
  /\ UNCHANGED <<desked, calls, served, shown, minted, saves, sends, ghosts>>

Awaiting == {c \in calls : c.st # "out"}

Ended(failed) ==
  /\ reading' = NotAsked
  /\ calls' = calls \ Awaiting
  /\ rereading' = FALSE
  /\ form' = IF \E c \in Awaiting : c.home /\ c.st = "won"
                                     /\ c.kind \in {"activate", "newAccount"}
               THEN NoForm ELSE form
  /\ owed' = IF failed THEN {} ELSE owed
  /\ UNCHANGED <<desk, failure, sent, served, minted, saves, sends, told, retyped, misheard>>

FetchLands == reading.st = "read" /\ shown' = reading.saw /\ Ended(FALSE)
FetchFails == reading # NotAsked /\ UNCHANGED shown /\ Ended(TRUE)

Answered(c) ==
  Succeeds(c) \/ Refused(c) \/ Conflicts(c) \/ Breaks(c) \/ Mishears(c) \/ Lost(c)

FormNext ==
  \/ \E k \in DOMAIN Forms : OpenForm(k)
  \/ Type \/ Send \/ Close
  \/ \E c \in wire : Serve(c)
  \/ \E c \in calls : Answered(c)
  \/ FetchReads \/ FetchLands \/ FetchFails

FormSpec == FormInit /\ [][FormNext]_formVars

-----------------------------------------------------------------------------
(* What one opening of a form sends is written once, however often it is    *)
(* sent, refused or lost; only a form that lets its reader change what was  *)
(* sent may write twice, and only when they did.  Not counted is a write    *)
(* that was answered an error: its form takes the error for a refusal.      *)
WritesOnce ==
  \A k, l \in Applied \ misheard :
    decided[k].save = decided[l].save =>
      k = l \/ (decided[k].kind \in Loose /\ decided[k].save \in retyped)

(* The reader is told that a save is done only when the server did it for   *)
(* that save and not for an earlier one.  The answer to a repeat is not     *)
(* told as the answer to something new.                                     *)
ToldIsDone ==
  told \subseteq {decided[k].save : k \in Applied}

(* A form of the net worth screen opens on figures that hold every change   *)
(* its reader was told of or walked away from, unless the reading that was  *)
(* to bring them failed.                                                    *)
FreshActions ==
  [][desk = "worth" /\ form = NoForm /\ form' # NoForm => owed \subseteq shown]_formVars

(* On the screens that keep a form from being opened over a request that is *)
(* still out, an answer closes no form but the one it answers.              *)
ClosesItsOwn ==
  [][desk \notin {"ledger", "month"} /\ form # NoForm /\ form' = NoForm
       /\ told' # told => form.save \in told']_formVars

(* A form is opened clean: it shows no failure of another.                  *)
OpensClean ==
  [][form = NoForm /\ form' # NoForm => failure'[ReadBy(form'.kind)] = "none"]_formVars
=============================================================================
