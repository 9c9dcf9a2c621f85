--------------------------- MODULE MutationPoint ---------------------------
(***************************************************************************)
(* MutationService.run: the one transaction every write of the API runs    *)
(* in.  The transaction first claims its idempotency key, then does its    *)
(* work, then stores the result in the claim, then commits.  A second      *)
(* attempt of the same key waits on the claim's unique index, conflicts,   *)
(* and outside any transaction reads the first one's stored result.        *)
(*                                                                         *)
(* Keys stand for (userId, key) pairs, Requests for the canonical body a   *)
(* fingerprint identifies.  The work of a request may write a row under a  *)
(* unique index of its own, RowOf, so a conflict need not be the key's.    *)
(***************************************************************************)
CONSTANTS Attempts, Keys, Requests, Rows, RowOf, NoRow, NoIntent, NoClaim, NoResult

ASSUME ConstantsAssumption ==
  /\ RowOf \in [Requests -> Rows \union {NoRow}]
  /\ NoRow \notin Rows
  /\ NoResult \notin Attempts
  /\ NoIntent \notin [key : Keys, request : Requests]
  /\ NoClaim \notin [request : Requests, result : Attempts \union {NoResult}]

VARIABLES claims,   \* committed idempotency keys
          applied,  \* the attempts whose work is committed, row and all
          draft,    \* attempt -> the claim its open transaction has written
          phase,    \* attempt -> where run() stands
          intent,   \* attempt -> the key and the request it carries
          answer    \* attempt -> what its caller heard

vars == <<claims, applied, draft, phase, intent, answer>>

Intent == [key : Keys, request : Requests]
Claim  == [request : Requests, result : Attempts \union {NoResult}]
Answer == [kind : {"none", "result", "refused", "error"}, of : Attempts \union {NoResult}]

\* A phase between the claim and the end of the transaction holds the claim's
\* unique index entry; once the work is done it holds the work's entry too.
HoldsClaim == {"claimed", "worked", "settled"}
HoldsRow   == {"worked", "settled"}
InFlight   == {"open"} \union HoldsClaim
Throwing   == InFlight \union {"conflicted", "committed"}

Silence    == [kind |-> "none", of |-> NoResult]
Said(kind) == [kind |-> kind, of |-> NoResult]
Result(r)  == [kind |-> "result", of |-> r]

KeyOf(a) == intent[a].key
SameRow(a, b) == /\ RowOf[intent[a].request] # NoRow
                 /\ RowOf[intent[a].request] = RowOf[intent[b].request]

Init ==
  /\ claims = [k \in Keys |-> NoClaim]
  /\ applied = {}
  /\ draft = [a \in Attempts |-> NoClaim]
  /\ phase = [a \in Attempts |-> "idle"]
  /\ intent = [a \in Attempts |-> NoIntent]
  /\ answer = [a \in Attempts |-> Silence]

\* run() opens the transaction of a request that carries a key.
Open(a) ==
  /\ phase[a] = "idle"
  /\ \E k \in Keys, q \in Requests :
       intent' = [intent EXCEPT ![a] = [key |-> k, request |-> q]]
  /\ phase' = [phase EXCEPT ![a] = "open"]
  /\ UNCHANGED <<claims, applied, draft, answer>>

\* Mutants of the conditions below.
Always(a)  == TRUE
Never(a)   == FALSE
KeyWanted(a) == \E b \in Attempts \ {a} : phase[b] \notin {"idle", "done"} /\ KeyOf(b) = KeyOf(a)

KeyFree(a)     == claims[KeyOf(a)] = NoClaim
SameRequest(a) == claims[KeyOf(a)].request = intent[a].request

\* A pending insert of the same unique value makes the second insert wait.
KeyPending(a) == \E b \in Attempts \ {a} : phase[b] \in HoldsClaim /\ KeyOf(b) = KeyOf(a)
RowPending(a) == \E b \in Attempts \ {a} : phase[b] \in HoldsRow /\ SameRow(a, b)
RowTaken(a)   == \E b \in applied : SameRow(a, b)

\* The transaction of a, if it is still open, ends and leaves nothing behind.
RollBack(a, next) ==
  /\ phase' = [phase EXCEPT ![a] = next]
  /\ draft' = [draft EXCEPT ![a] = NoClaim]
  /\ UNCHANGED <<claims, applied, intent>>

TakeClaim(a) ==
  /\ phase[a] = "open"
  /\ ~KeyPending(a)
  /\ KeyFree(a)
  /\ draft' = [draft EXCEPT ![a] = [request |-> intent[a].request, result |-> NoResult]]
  /\ phase' = [phase EXCEPT ![a] = "claimed"]
  /\ UNCHANGED <<claims, applied, intent, answer>>

KeyConflict(a) ==
  /\ phase[a] = "open"
  /\ ~KeyPending(a)
  /\ ~KeyFree(a)
  /\ RollBack(a, "conflicted")
  /\ UNCHANGED answer

Work(a) ==
  /\ phase[a] = "claimed"
  /\ ~RowPending(a)
  /\ ~RowTaken(a)
  /\ phase' = [phase EXCEPT ![a] = "worked"]
  /\ UNCHANGED <<claims, applied, draft, intent, answer>>

\* The work breaks a unique index of its own: the same error code as a taken key.
RowConflict(a) ==
  /\ phase[a] = "claimed"
  /\ ~RowPending(a)
  /\ RowTaken(a)
  /\ RollBack(a, "conflicted")
  /\ UNCHANGED answer

Settle(a) ==
  /\ phase[a] = "worked"
  /\ draft' = [draft EXCEPT ![a].result = a]
  /\ phase' = [phase EXCEPT ![a] = "settled"]
  /\ UNCHANGED <<claims, applied, intent, answer>>

Commit(a) ==
  /\ phase[a] = "settled"
  /\ claims' = [claims EXCEPT ![KeyOf(a)] = draft[a]]
  /\ applied' = applied \union {a}
  /\ draft' = [draft EXCEPT ![a] = NoClaim]
  /\ phase' = [phase EXCEPT ![a] = "committed"]
  /\ UNCHANGED <<intent, answer>>

Respond(a) ==
  /\ phase[a] = "committed"
  /\ answer' = [answer EXCEPT ![a] = Result(a)]
  /\ phase' = [phase EXCEPT ![a] = "done"]
  /\ UNCHANGED <<claims, applied, draft, intent>>

(***************************************************************************)
(* resultOfTheFirstAttempt: the claim is read outside the transaction that *)
(* conflicted, so what it finds may be newer than the conflict.            *)
(***************************************************************************)
Rethrow(a) ==
  /\ phase[a] = "conflicted"
  /\ KeyFree(a)
  /\ answer' = [answer EXCEPT ![a] = Said("error")]
  /\ phase' = [phase EXCEPT ![a] = "done"]
  /\ UNCHANGED <<claims, applied, draft, intent>>

RefuseOther(a) ==
  /\ phase[a] = "conflicted"
  /\ ~KeyFree(a)
  /\ ~SameRequest(a)
  /\ answer' = [answer EXCEPT ![a] = Said("refused")]
  /\ phase' = [phase EXCEPT ![a] = "done"]
  /\ UNCHANGED <<claims, applied, draft, intent>>

Replay(a) ==
  /\ phase[a] = "conflicted"
  /\ ~KeyFree(a)
  /\ SameRequest(a)
  /\ answer' = [answer EXCEPT ![a] = Result(claims[KeyOf(a)].result)]
  /\ phase' = [phase EXCEPT ![a] = "done"]
  /\ UNCHANGED <<claims, applied, draft, intent>>

(***************************************************************************)
(* run() throws.  While the transaction is open the work refused, the      *)
(* database failed or the 15 seconds ran out, and it is rolled back.       *)
(* After the conflict the lookup failed.  After the commit its             *)
(* acknowledgement was lost or decode threw: the caller hears an error for *)
(* a write that was made.                                                  *)
(***************************************************************************)
Abort(a) ==
  /\ phase[a] \in Throwing
  /\ RollBack(a, "done")
  /\ answer' = [answer EXCEPT ![a] = Said("error")]

\* The server stops, or the connection to the caller drops: the caller hears nothing.
Crash(a) ==
  /\ phase[a] \in Throwing
  /\ RollBack(a, "done")
  /\ UNCHANGED answer

\* What the server does of its own accord once a request is in.
Progress(a) ==
  \/ TakeClaim(a) \/ KeyConflict(a) \/ Work(a) \/ RowConflict(a)
  \/ Settle(a) \/ Commit(a) \/ Respond(a)
  \/ Rethrow(a) \/ RefuseOther(a) \/ Replay(a)

Next == \E a \in Attempts : Open(a) \/ Progress(a) \/ Abort(a) \/ Crash(a)

Spec == Init /\ [][Next]_vars

\* Node runs a promise's continuation, and Postgres wakes a waiter whose holder ended.
FairSpec == Spec /\ \A a \in Attempts : WF_vars(Progress(a))

-----------------------------------------------------------------------------

\* The type invariant.
TypeOK ==
  /\ claims \in [Keys -> Claim \union {NoClaim}]
  /\ applied \subseteq Attempts
  /\ draft \in [Attempts -> Claim \union {NoClaim}]
  /\ phase \in [Attempts -> {"idle", "conflicted", "committed", "done"} \union InFlight]
  /\ intent \in [Attempts -> Intent \union {NoIntent}]
  /\ answer \in [Attempts -> Answer]

\* However often a submit is retried, and whichever attempts crash, time out or lose
\* their answer, the work of one key is committed at most once.
AtMostOnce == \A a, b \in applied : KeyOf(a) = KeyOf(b) => a = b

\* A result that a caller hears belongs to a write that really is committed, under the
\* caller's own key and for the caller's own request, whether it ran or was replayed.
AnswerIsTheEffect ==
  \A a \in Attempts : answer[a].kind = "result" =>
    /\ answer[a].of \in applied
    /\ intent[answer[a].of] = intent[a]

\* A refusal for a reused key is never raised against a request's own retries.
RefusedOnlyForAnother ==
  \A a \in Attempts : answer[a].kind = "refused" =>
    \E b \in applied : KeyOf(b) = KeyOf(a) /\ intent[b].request # intent[a].request

\* Two works under one unique index are never both committed, and a claim stands exactly
\* where a work was committed: neither survives the other's rollback.
ClaimsMatchEffects ==
  /\ \A a, b \in applied : SameRow(a, b) => a = b
  /\ \A k \in Keys : claims[k] # NoClaim <=> \E a \in applied : KeyOf(a) = k

\* What a key answers never changes once it has answered.
ClaimIsFinal == [][\A k \in Keys : claims[k] # NoClaim => claims'[k] = claims[k]]_vars

\* No attempt waits forever on another's claim or row, not even with the transaction
\* timeout left out: a waiter is always behind somebody who can move.
EveryAttemptEnds == \A a \in Attempts : phase[a] # "idle" ~> phase[a] = "done"

\* MutationService.run keeps the promise of an exactly-once write.
Promise == INSTANCE ExactlyOnce WITH asked <- intent, reply <- answer
KeepsThePromise == Promise!Spec
=============================================================================
