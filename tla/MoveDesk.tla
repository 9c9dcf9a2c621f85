------------------------------ MODULE MoveDesk ------------------------------
(* The categories screen while money is moved between envelopes:            *)
(* apps/web/src/components/budget-month.tsx and what it is built from.      *)
(* A form is opened on the month shown, sent under the idempotency key      *)
(* minted when it opened, answered or lost, retried or thrown away, and the *)
(* month is re-read before the next form may open.  Requests are in flight  *)
(* together with the readings of the month, and the reader changes month    *)
(* with the arrows or with the browser's own history meanwhile.             *)
(*                                                                          *)
(* The figures of a month are the set of keys whose effect they show; what  *)
(* was typed and chosen is one intent of two.  The server keeps             *)
(* MutationPoint's promise: one effect per key, a recorded refusal is said  *)
(* again, and requests of one key are taken in the order they were sent.    *)
(* An error it answers speaks of nothing: the move may have been made.      *)
EXTENDS Integers, FiniteSets

CONSTANTS
  Visited,       \* the months the reader visits
  MaxKey,        \* bound: keys minted
  MaxSends,      \* bound: requests sent, moves and others
  RetriesOnce,   \* the reader does not press Retry again before the answer
  StaysPut       \* the reader stays on the month until a write has settled

ASSUME MoveDeskAssumption ==
  /\ Visited # {} /\ 0 \notin Visited /\ MaxKey \in Nat /\ MaxSends \in Nat
  /\ RetriesOnce \in BOOLEAN /\ StaysPut \in BOOLEAN

VARIABLES
  month,      \* the month in the address
  shown,      \* the figures in the query cache, per month
  onScreen,   \* the figures on the screen, and the month they are of
  behind,     \* per month: the last reading failed
  fetch,      \* the reading of the current month in flight
  waits,      \* what waits for that reading: an answer's handler, a discard
  moving,     \* the open form, None when there is none
  failure,    \* the kind of the failure the banner names
  sent,       \* the body of a lost request, kept to be retried
  pending,    \* a move is being saved
  settling,   \* a lost move was thrown away and the month is being re-read
  minted,     \* keys minted so far
  formOf,     \* ghost: the first key of the form a key was minted for
  sentAs,     \* ghost: the intents sent under a key
  calls,      \* requests without an answer yet, per key
  sends,      \* requests sent so far, moves and others
  wire,       \* keys that may still reach the server
  decided,    \* what the server has recorded under a key
  owed,       \* ghost, per month: moves the reader was told of, or threw away
  astray,     \* ghost: months shown without the error their reading ended in
  misheard    \* ghost: keys that have moved money and were answered an error

screen == <<month, moving, failure, sent, pending, settling, minted, formOf>>
cache == <<shown, onScreen, behind, fetch, waits>>
network == <<sentAs, calls, sends, wire, decided>>
deskVars == <<screen, cache, network, owed, astray, misheard>>

Keys == 1..MaxKey
None == 0
Intents == {"first", "changed"}
NoForm == [month |-> None, key |-> None, intent |-> "first", open |-> FALSE]
Forms == [month : Visited, key : Keys, intent : Intents, open : {TRUE}]
Unread == [known |-> FALSE, saw |-> {}]
Nothing == [month |-> None, saw |-> {}]
NotAsked == [st |-> "none", saw |-> {}]
Asked == [st |-> "asked", saw |-> {}]

(* saveFailureKind *)
FailureKinds == {"conflict", "budget", "network", "other"}
KeepsNoKey(kind) == FALSE \* mutant of KeepsTheKey
KeepsTheKey(kind) == kind = "network"
KeepsThePopoverOpen(kind) == kind # "budget"
RereadsTheMonth(kind) == kind \notin {"network", "budget"}
(* The action of the banner; "none" where it offers no button. *)
BannerOffers(kind) ==
  CASE kind = "conflict" -> "none"
    [] kind = "budget" -> "refresh"
    [] kind = "network" -> "retry"
    [] OTHER -> "dismiss"

Applied == {k \in Keys : decided[k] = "applied"}
Outstanding == sent # None
(* The month shown is the month in the address: no step is under way. *)
Here == onScreen.month = month
Unsettled == pending \/ settling \/ Outstanding

TypeOK ==
  /\ month \in Visited
  /\ shown \in [Visited -> [known : BOOLEAN, saw : SUBSET Keys]]
  /\ onScreen \in [month : Visited \cup {None}, saw : SUBSET Keys]
  /\ behind \in [Visited -> BOOLEAN]
  /\ fetch \in [st : {"none", "asked", "read"}, saw : SUBSET Keys]
  /\ waits \subseteq {"answer", "discard"}
  /\ moving \in Forms \cup {NoForm}
  /\ failure \in FailureKinds \cup {"none"}
  /\ sent \in Keys \cup {None}
  /\ pending \in BOOLEAN /\ settling \in BOOLEAN
  /\ minted \in 0..MaxKey
  /\ formOf \in [Keys -> 0..MaxKey]
  /\ sentAs \in [Keys -> SUBSET Intents]
  /\ calls \in [Keys -> 0..MaxSends] /\ sends \in 0..MaxSends
  /\ wire \subseteq Keys
  /\ decided \in [Keys -> {"none", "applied", "refused"}]
  /\ owed \in [Visited -> SUBSET Keys]
  /\ astray \subseteq Visited /\ misheard \subseteq Keys

DeskInit ==
  /\ month \in Visited
  /\ shown = [m \in Visited |-> Unread] /\ onScreen = Nothing
  /\ behind = [m \in Visited |-> FALSE]
  /\ fetch = Asked /\ waits = {}
  /\ moving = NoForm /\ failure = "none" /\ sent = None
  /\ pending = FALSE /\ settling = FALSE
  /\ minted = 0 /\ formOf = [k \in Keys |-> 0]
  /\ sentAs = [k \in Keys |-> {}]
  /\ calls = [k \in Keys |-> 0] /\ sends = 0 /\ wire = {}
  /\ decided = [k \in Keys |-> "none"]
  /\ owed = [m \in Visited |-> {}] /\ astray = {} /\ misheard = {}

-----------------------------------------------------------------------------
(* The query cache.  One reading per query: a re-read starts it anew when   *)
(* there are figures already and joins it when there are none; whoever      *)
(* waited for the first goes on waiting for the second.                     *)

Joined == IF fetch # NotAsked THEN fetch ELSE Asked \* mutant of Restarted
Restarted == IF fetch # NotAsked /\ ~shown[month].known THEN fetch ELSE Asked

(* A reading of figures that are there leaves the error of the last one     *)
(* standing until it lands.                                                 *)
Rereads ==
  /\ fetch' = Restarted
  /\ behind' = [behind EXCEPT ![month] = @ /\ shown[month].known]
  /\ UNCHANGED <<shown, onScreen>>

Reread(waiter) == Rereads /\ waits' = waits \cup {waiter}

ReleasedAnswers == \* mutant of Released
  /\ waits' = {}
  /\ pending' = (pending /\ "answer" \notin waits)
  /\ UNCHANGED settling

(* What goes on when the reading it waited for has ended, either way. *)
Released ==
  /\ waits' = {}
  /\ pending' = (pending /\ "answer" \notin waits)
  /\ settling' = (settling /\ "discard" \notin waits)

FetchReads ==
  /\ fetch.st = "asked"
  /\ fetch' = [st |-> "read", saw |-> Applied]
  /\ UNCHANGED <<screen, shown, onScreen, behind, waits, network, owed, astray, misheard>>

FetchLands ==
  /\ fetch.st = "read"
  /\ shown' = [shown EXCEPT ![month] = [known |-> TRUE, saw |-> fetch.saw]]
  /\ onScreen' = [month |-> month, saw |-> fetch.saw]
  /\ behind' = [behind EXCEPT ![month] = FALSE]
  /\ fetch' = NotAsked
  /\ Released
  /\ astray' = IF owed[month] \subseteq fetch.saw THEN astray \ {month} ELSE astray
  /\ UNCHANGED <<month, moving, failure, sent, minted, formOf, network, owed, misheard>>

FetchFails ==
  /\ fetch # NotAsked
  /\ behind' = [behind EXCEPT ![month] = TRUE]
  /\ fetch' = NotAsked
  /\ Released
  /\ UNCHANGED <<shown, onScreen, month, moving, failure, sent, minted, formOf, network, owed,
                 astray, misheard>>

(* The window is looked at again: a reading that nothing waits for. *)
Focus ==
  /\ fetch = NotAsked
  /\ Rereads
  /\ UNCHANGED <<screen, waits, network, owed, astray, misheard>>

-----------------------------------------------------------------------------
(* The screen. *)

Frozen == pending \/ Outstanding \/ settling \/ behind[month] \/ ~Here

(* openMove *)
OpenMove ==
  /\ ~Frozen
  /\ minted < MaxKey
  /\ moving' = [month |-> month, key |-> minted + 1, intent |-> "first", open |-> TRUE]
  /\ minted' = minted + 1
  /\ formOf' = [formOf EXCEPT ![minted + 1] = minted + 1]
  /\ failure' = "none"
  /\ UNCHANGED <<month, sent, pending, settling, cache, network, owed, astray, misheard>>

(* MoveFields: locked while saving or frozen. *)
Locked == pending \/ Outstanding \/ behind[month] \/ ~Here

(* Another amount is typed, another envelope chosen, the sides swapped. *)
EditMove ==
  /\ moving.open /\ ~Locked
  /\ moving' = [moving EXCEPT !.intent = "changed"]
  /\ UNCHANGED <<month, failure, sent, pending, settling, minted, formOf,
                 cache, network, owed, astray, misheard>>

Send(key, intent) ==
  /\ sends < MaxSends
  /\ sends' = sends + 1
  /\ sentAs' = [sentAs EXCEPT ![key] = @ \cup {intent}]
  /\ calls' = [calls EXCEPT ![key] = @ + 1]
  /\ wire' = wire \cup {key}
  /\ pending' = TRUE
  /\ UNCHANGED <<month, moving, failure, sent, settling, minted, formOf,
                 decided, cache, owed, astray, misheard>>

(* commitMove *)
CommitMove ==
  /\ moving.open
  /\ ~Frozen
  /\ Send(moving.key, moving.intent)

(* bannerAction on a lost move: the body that was lost, under its key. *)
Retry ==
  /\ BannerOffers(failure) = "retry" /\ Outstanding
  /\ RetriesOnce => ~pending
  /\ \E intent \in sentAs[sent] : Send(sent, intent)

(* bannerAction otherwise.  A refresh drops the figures of every month, and *)
(* the error of the last reading with them: what is on the screen stays     *)
(* until the month has been read anew, and what waited for a reading goes on. *)
Dismiss ==
  /\ failure # "none"
  /\ BannerOffers(failure) # "none"
  /\ ~(BannerOffers(failure) = "retry" /\ Outstanding)
  /\ failure' = "none"
  /\ IF BannerOffers(failure) = "refresh"
       THEN /\ shown' = [m \in Visited |-> Unread]
            /\ behind' = [m \in Visited |-> FALSE]
            /\ fetch' = Asked
            /\ Released
            /\ astray' = astray \cup ({onScreen.month} \ {None})
            /\ UNCHANGED onScreen
       ELSE UNCHANGED <<cache, pending, settling, astray>>
  /\ UNCHANGED <<month, moving, sent, minted, formOf, network, owed, misheard>>

(* reorder, groupDropped: the new order is put into the figures there are,  *)
(* which takes away the error that a reading of them ended in.              *)
DropOrder ==
  /\ ~moving.open
  /\ onScreen # Nothing /\ shown[month].known
  /\ behind' = [behind EXCEPT ![month] = FALSE]
  /\ astray' = IF behind[month] THEN astray \cup {month} ELSE astray
  /\ UNCHANGED <<screen, shown, onScreen, fetch, waits, network, owed, misheard>>

(* What a write the server has taken, and the reader will not hear of again, *)
(* asks of the month it was sent on.                                        *)
Owes(key) == owed' = [owed EXCEPT ![month] = @ \cup ({key} \cap Applied)]

(* discard: the form's Cancel and its closing, the banner's Cancel, and the *)
(* first thing the filter, a category's dialogs and a new record do.        *)
Discard ==
  /\ moving.open \/ failure # "none" \/ Outstanding
  /\ moving' = NoForm /\ failure' = "none" /\ sent' = None
  /\ IF Outstanding
       THEN Reread("discard") /\ settling' = TRUE /\ Owes(sent)
       ELSE UNCHANGED <<settling, cache, owed>>
  /\ UNCHANGED <<month, pending, minted, formOf, network, astray, misheard>>

(* Another month in the address: the reading of the month left is dropped   *)
(* and whoever waited for it goes on; the new month is read at once, and is *)
(* on the screen at once where it has been read before.                     *)
Turn(next) ==
  /\ month' = next
  /\ fetch' = Asked
  /\ behind' = [behind EXCEPT ![next] = @ /\ shown[next].known]
  /\ waits' = {}
  /\ pending' = (pending /\ "answer" \notin waits)
  /\ onScreen' = IF shown[next].known THEN [month |-> next, saw |-> shown[next].saw] ELSE onScreen
  /\ UNCHANGED <<shown, minted, formOf, network, astray, misheard>>

(* goToMonth: the arrows of the header, which are under the open form and   *)
(* wait for the month they last asked for.                                  *)
GoToMonth(next) ==
  /\ next # month
  /\ ~moving.open /\ Here
  /\ StaysPut => ~Unsettled
  /\ Turn(next)
  /\ moving' = NoForm /\ failure' = "none" /\ sent' = None
  /\ settling' = (settling /\ ~Outstanding /\ "discard" \notin waits)
  /\ IF Outstanding THEN Owes(sent) ELSE UNCHANGED owed

(* The browser's own Back and Forward: nothing is discarded but the form,   *)
(* which is closed because it was opened on another month.                  *)
BrowserHistory(next) ==
  /\ next # month
  /\ StaysPut => ~Unsettled
  /\ Turn(next)
  /\ moving' = NoForm
  /\ settling' = (settling /\ "discard" \notin waits)
  /\ UNCHANGED <<failure, sent, owed>>

(* A drag, a mark taken off or an envelope emptied has settled: the month   *)
(* is read again, and the banner names the failure if it was one.           *)
SettlesElsewhere(kind) ==
  /\ sends < MaxSends
  /\ sends' = sends + 1
  /\ failure' = IF kind = "none" THEN failure ELSE kind
  /\ Rereads
  /\ UNCHANGED <<month, moving, sent, pending, settling, minted, formOf, waits,
                 sentAs, calls, wire, decided, owed, astray, misheard>>

-----------------------------------------------------------------------------
(* The server and the answers. *)

Decide(key, outcome) ==
  /\ key \in wire /\ decided[key] = "none"
  /\ decided' = [decided EXCEPT ![key] = outcome]
  /\ UNCHANGED <<screen, cache, sentAs, calls, sends, wire, owed, astray, misheard>>

Answered(key) == calls' = [calls EXCEPT ![key] = @ - 1]

(* assign.onSuccess *)
Succeeds(key) ==
  /\ calls[key] > 0 /\ decided[key] = "applied"
  /\ Answered(key)
  /\ moving' = NoForm /\ failure' = "none" /\ sent' = None
  /\ Reread("answer")
  /\ Owes(key)
  /\ UNCHANGED <<month, pending, settling, minted, formOf, sentAs, sends, wire, decided,
                 astray, misheard>>

NeverReminted(kind) == FALSE \* mutant of Reminted

(* The form that is open when a failure arrives: closed, kept, or given     *)
(* another key.                                                             *)
Reminted(kind) == moving.open /\ KeepsThePopoverOpen(kind) /\ ~KeepsTheKey(kind)

(* assign.onError *)
Fails(key, kind) ==
  /\ calls[key] > 0
  /\ Answered(key)
  /\ failure' = kind
  /\ sent' = IF KeepsTheKey(kind) THEN key ELSE None
  /\ Reminted(kind) => minted < MaxKey
  /\ IF Reminted(kind)
       THEN /\ moving' = [moving EXCEPT !.key = minted + 1]
            /\ minted' = minted + 1
            /\ formOf' = [formOf EXCEPT ![minted + 1] = formOf[moving.key]]
       ELSE /\ moving' = IF KeepsThePopoverOpen(kind) THEN moving ELSE NoForm
            /\ UNCHANGED <<minted, formOf>>
  /\ IF RereadsTheMonth(kind)
       THEN Reread("answer") /\ UNCHANGED pending
       ELSE pending' = FALSE /\ UNCHANGED cache
  /\ UNCHANGED <<month, settling, sentAs, sends, decided, owed, astray>>

(* A recorded refusal. *)
Refused(key) ==
  /\ decided[key] = "refused"
  /\ \E kind \in {"other", "conflict"} : Fails(key, kind)
  /\ UNCHANGED <<wire, misheard>>

(* An error that was not recorded, and no active budget: nothing was done,  *)
(* though another request of the key may still be on its way.               *)
Breaks(key) ==
  /\ decided[key] = "none"
  /\ \E kind \in {"other", "budget"} : Fails(key, kind)
  /\ wire' = IF calls[key] > 1 THEN wire ELSE wire \ {key}
  /\ UNCHANGED misheard

(* An error of a move that was made: the commit went through, its answer    *)
(* did not.                                                                 *)
Mishears(key) ==
  /\ decided[key] = "applied"
  /\ Fails(key, "other")
  /\ misheard' = misheard \cup {key}
  /\ UNCHANGED wire

(* No answer: the request may have arrived, or may still arrive. *)
Lost(key) ==
  /\ Fails(key, "network")
  /\ UNCHANGED <<wire, misheard>>

Ends(key) == Succeeds(key) \/ Refused(key) \/ Breaks(key) \/ Mishears(key) \/ Lost(key)

DeskNext ==
  \/ FetchReads \/ FetchLands \/ FetchFails \/ Focus
  \/ OpenMove \/ EditMove \/ CommitMove \/ Retry \/ Dismiss \/ Discard
  \/ DropOrder
  \/ \E m \in Visited : GoToMonth(m) \/ BrowserHistory(m)
  \/ \E kind \in FailureKinds \cup {"none"} : SettlesElsewhere(kind)
  \/ \E k \in Keys : \/ \E o \in {"applied", "refused"} : Decide(k, o)
                     \/ Ends(k)

(* A reading is answered or fails, and so is a request: the browser gives   *)
(* up in the end.  Nothing is assumed of the server or of the reader.       *)
Fairness ==
  /\ WF_deskVars(FetchReads) /\ WF_deskVars(FetchLands \/ FetchFails)
  /\ \A k \in Keys : WF_deskVars(Lost(k))

DeskSpec == DeskInit /\ [][DeskNext]_deskVars /\ Fairness

-----------------------------------------------------------------------------
(* One opening of the form moves money once, whatever was lost, retried or  *)
(* refused and sent again (budget-month.tsx, assign and bannerAction); a    *)
(* move that was answered an error is not counted, since onError mints the  *)
(* form another key and nothing says that the first was used.               *)
NoDoubleMove ==
  \A k, l \in Applied \ misheard : formOf[k] = formOf[l] => k = l

(* A key is only ever sent with one intent: what was typed is frozen from   *)
(* the moment a request is lost until it is resolved, so that the server    *)
(* can hold a key to one request.                                           *)
OneIntentPerKey ==
  \A k \in Keys : Cardinality(sentAs[k]) <= 1

(* A form opens on figures that hold every move of that month the reader    *)
(* was told of or threw away: openMove fills the form in from them.  Months *)
(* that went astray are excepted: a drag over figures whose last reading    *)
(* failed, or a refresh, has taken the error away and left the figures.     *)
FreshOpen ==
  [][~moving.open /\ moving'.open /\ month \notin astray
       => owed[month] \subseteq onScreen.saw]_deskVars

(* Saving ends, and so does the re-reading after a move was thrown away.    *)
Settles == (pending ~> ~pending) /\ (settling ~> ~settling)
=============================================================================
