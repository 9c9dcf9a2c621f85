------------------------------ MODULE KeyProofs ------------------------------
(***************************************************************************)
(* Proofs about idempotency keys, on the server and in the client.         *)
(*                                                                         *)
(* MutationPoint, for any number of attempts, keys, requests and unique    *)
(* rows: its type invariant, the at-most-once effect of a key, the truth   *)
(* of every answer, and that it implements ExactlyOnce.                    *)
(*                                                                         *)
(* FormDesk, for any screens and any number of keys, requests and saves:   *)
(* a save is written once, nobody is told of one that was not made, an     *)
(* answer closes its own form and net worth opens none on old figures.     *)
(***************************************************************************)
EXTENDS MutationPoint, FormDesk, TLAPS

USE DEF KeyFree, SameRequest

\* An attempt that has not opened its transaction has no intent; only one that ended
\* has been answered.
PhasesInv ==
  \A a \in Attempts :
    /\ phase[a] = "idle" <=> intent[a] = NoIntent
    /\ phase[a] # "done" => answer[a] = Silence
    /\ phase[a] = "committed" => a \in applied

\* The unique index: whoever holds a key's claim is alone, before any committed one.
HoldersInv ==
  \A a \in Attempts : phase[a] \in HoldsClaim =>
    /\ claims[KeyOf(a)] = NoClaim
    /\ draft[a] = [request |-> intent[a].request,
                   result |-> IF phase[a] = "settled" THEN a ELSE NoResult]
    /\ \A b \in Attempts : phase[b] \in HoldsClaim /\ KeyOf(b) = KeyOf(a) => a = b

\* A committed work stands under its claim, and nobody still running has one.
AppliedInv ==
  \A a \in applied :
    /\ phase[a] \in {"committed", "done"}
    /\ claims[KeyOf(a)] = [request |-> intent[a].request, result |-> a]

\* A committed claim points back at the work it answers for.
ClaimsInv ==
  \A k \in Keys : claims[k] # NoClaim =>
    /\ claims[k].result \in applied
    /\ intent[claims[k].result] = [key |-> k, request |-> claims[k].request]

AnswersInv ==
  \A a \in Attempts :
    /\ answer[a].kind = "result" =>
         answer[a].of \in applied /\ intent[answer[a].of] = intent[a]
    /\ answer[a].kind = "refused" =>
         \E b \in applied : KeyOf(b) = KeyOf(a) /\ intent[b].request # intent[a].request

\* The unique index of the work: whoever holds a row is alone, before any committed one.
RowsInv ==
  /\ \A a, b \in applied : SameRow(a, b) => a = b
  /\ \A a \in Attempts : phase[a] \in HoldsRow =>
       /\ ~RowTaken(a)
       /\ \A b \in Attempts : phase[b] \in HoldsRow /\ SameRow(a, b) => a = b

IInv == /\ TypeOK
        /\ PhasesInv
        /\ HoldersInv
        /\ AppliedInv
        /\ ClaimsInv
        /\ AnswersInv
        /\ RowsInv

-----------------------------------------------------------------------------

\* The initial states satisfy the inductive invariant.
LEMMA InitIInv == Init => IInv
BY ConstantsAssumption
   DEF Init, IInv, TypeOK, PhasesInv, HoldersInv, AppliedInv, ClaimsInv, AnswersInv,
       RowsInv, HoldsRow, Silence, Answer, HoldsClaim, InFlight

LEMMA OpenIInv == ASSUME IInv, NEW a \in Attempts, Open(a) PROVE IInv'
<1>1. PICK k \in Keys, q \in Requests :
         intent' = [intent EXCEPT ![a] = [key |-> k, request |-> q]]
  BY DEF Open
<1>2. phase[a] = "idle" /\ a \notin applied
  BY DEF Open, IInv, AppliedInv
<1>3. TypeOK'
  BY <1>1 DEF Open, IInv, TypeOK, Intent, InFlight
<1>4. [key |-> k, request |-> q] # NoIntent
  BY ConstantsAssumption
<1>5. PhasesInv'
  BY <1>1, <1>4 DEF Open, IInv, TypeOK, PhasesInv
<1>6. HoldersInv' /\ AppliedInv'
  BY <1>1, <1>2 DEF Open, IInv, TypeOK, HoldersInv, AppliedInv, KeyOf, HoldsClaim
<1>7. ClaimsInv'
  BY <1>1, <1>2 DEF Open, IInv, TypeOK, ClaimsInv
<1>8. AnswersInv'
  <2>1. answer[a].kind = "none"
    BY <1>2 DEF IInv, PhasesInv, Silence
  <2> QED BY <1>1, <1>2, <2>1 DEF Open, IInv, TypeOK, AnswersInv, KeyOf
<1>9. RowsInv'
  BY <1>1, <1>2 DEF Open, IInv, TypeOK, RowsInv, SameRow, RowTaken, HoldsRow
<1> QED BY <1>3, <1>5, <1>6, <1>7, <1>8, <1>9 DEF IInv

\* Nobody holds the key and no claim is committed, so the new holder is alone.
LEMMA TakeClaimIInv == ASSUME IInv, NEW a \in Attempts, TakeClaim(a) PROVE IInv'
<1>1. TypeOK'
  BY ConstantsAssumption DEF TakeClaim, IInv, TypeOK, PhasesInv, Intent, Claim, InFlight,
                             HoldsClaim
<1>2. PhasesInv'
  BY DEF TakeClaim, IInv, TypeOK, PhasesInv, InFlight, HoldsClaim
<1>3. HoldersInv'
  BY DEF TakeClaim, KeyPending, IInv, TypeOK, PhasesInv, HoldersInv, KeyOf, HoldsClaim
<1>4. AppliedInv'
  BY DEF TakeClaim, IInv, TypeOK, PhasesInv, HoldersInv, AppliedInv, KeyOf, InFlight,
         HoldsClaim
<1>5. ClaimsInv'
  BY DEF TakeClaim, IInv, TypeOK, PhasesInv, HoldersInv, AppliedInv, ClaimsInv, KeyOf,
         Intent, HoldsClaim
<1>6. AnswersInv'
  BY DEF TakeClaim, IInv, TypeOK, PhasesInv, ClaimsInv, AnswersInv, KeyOf, Intent, Silence,
         Result
<1>7. RowsInv'
  BY DEF TakeClaim, IInv, TypeOK, RowsInv, SameRow, RowTaken, HoldsRow, HoldsClaim
<1> QED BY <1>1, <1>2, <1>3, <1>4, <1>5, <1>6, <1>7 DEF IInv

\* A transaction that ends releases what it held and changes nothing committed.
LEMMA KeyConflictIInv == ASSUME IInv, NEW a \in Attempts, KeyConflict(a) PROVE IInv'
<1>1. TypeOK'
  BY ConstantsAssumption DEF KeyConflict, RollBack, IInv, TypeOK, PhasesInv, Intent, Claim,
                             InFlight, HoldsClaim
<1>2. PhasesInv'
  BY DEF KeyConflict, RollBack, IInv, TypeOK, PhasesInv, InFlight, HoldsClaim
<1>3. HoldersInv'
  BY DEF KeyConflict, RollBack, IInv, TypeOK, PhasesInv, HoldersInv, KeyOf, HoldsClaim
<1>4. AppliedInv'
  BY DEF KeyConflict, RollBack, IInv, TypeOK, PhasesInv, HoldersInv, AppliedInv, KeyOf,
         InFlight, HoldsClaim
<1>5. ClaimsInv'
  BY DEF KeyConflict, RollBack, IInv, TypeOK, PhasesInv, HoldersInv, AppliedInv, ClaimsInv,
         KeyOf, Intent, HoldsClaim
<1>6. AnswersInv'
  BY DEF KeyConflict, RollBack, IInv, TypeOK, PhasesInv, ClaimsInv, AnswersInv, KeyOf,
         Intent, Silence, Result
<1>7. RowsInv'
  BY DEF KeyConflict, RollBack, IInv, TypeOK, RowsInv, SameRow, RowTaken, HoldsRow,
         HoldsClaim
<1> QED BY <1>1, <1>2, <1>3, <1>4, <1>5, <1>6, <1>7 DEF IInv

\* Nobody holds the row and no committed work wrote it.
LEMMA WorkIInv == ASSUME IInv, NEW a \in Attempts, Work(a) PROVE IInv'
<1>1. TypeOK'
  BY ConstantsAssumption DEF Work, IInv, TypeOK, PhasesInv, Intent, Claim, InFlight,
                             HoldsClaim
<1>2. PhasesInv'
  BY DEF Work, IInv, TypeOK, PhasesInv, InFlight, HoldsClaim
<1>3. HoldersInv'
  BY DEF Work, IInv, TypeOK, PhasesInv, HoldersInv, KeyOf, HoldsClaim
<1>4. AppliedInv'
  BY DEF Work, IInv, TypeOK, PhasesInv, HoldersInv, AppliedInv, KeyOf, InFlight, HoldsClaim
<1>5. ClaimsInv'
  BY DEF Work, IInv, TypeOK, PhasesInv, HoldersInv, AppliedInv, ClaimsInv, KeyOf, Intent,
         HoldsClaim
<1>6. AnswersInv'
  BY DEF Work, IInv, TypeOK, PhasesInv, ClaimsInv, AnswersInv, KeyOf, Intent, Silence,
         Result
<1>7. RowsInv'
  BY DEF Work, RowPending, IInv, TypeOK, RowsInv, SameRow, RowTaken, HoldsRow, HoldsClaim
<1> QED BY <1>1, <1>2, <1>3, <1>4, <1>5, <1>6, <1>7 DEF IInv

LEMMA RowConflictIInv == ASSUME IInv, NEW a \in Attempts, RowConflict(a) PROVE IInv'
<1>1. TypeOK'
  BY ConstantsAssumption DEF RowConflict, RollBack, IInv, TypeOK, PhasesInv, Intent, Claim,
                             InFlight, HoldsClaim
<1>2. PhasesInv'
  BY DEF RowConflict, RollBack, IInv, TypeOK, PhasesInv, InFlight, HoldsClaim
<1>3. HoldersInv'
  BY DEF RowConflict, RollBack, IInv, TypeOK, PhasesInv, HoldersInv, KeyOf, HoldsClaim
<1>4. AppliedInv'
  BY DEF RowConflict, RollBack, IInv, TypeOK, PhasesInv, HoldersInv, AppliedInv, KeyOf,
         InFlight, HoldsClaim
<1>5. ClaimsInv'
  BY DEF RowConflict, RollBack, IInv, TypeOK, PhasesInv, HoldersInv, AppliedInv, ClaimsInv,
         KeyOf, Intent, HoldsClaim
<1>6. AnswersInv'
  BY DEF RowConflict, RollBack, IInv, TypeOK, PhasesInv, ClaimsInv, AnswersInv, KeyOf,
         Intent, Silence, Result
<1>7. RowsInv'
  BY DEF RowConflict, RollBack, IInv, TypeOK, RowsInv, SameRow, RowTaken, HoldsRow,
         HoldsClaim
<1> QED BY <1>1, <1>2, <1>3, <1>4, <1>5, <1>6, <1>7 DEF IInv

LEMMA SettleIInv == ASSUME IInv, NEW a \in Attempts, Settle(a) PROVE IInv'
<1>1. TypeOK'
  <2>1. intent[a] \in Intent /\ draft[a] = [request |-> intent[a].request, result |-> NoResult]
    BY DEF Settle, IInv, TypeOK, PhasesInv, HoldersInv, HoldsClaim
  <2>2. [draft[a] EXCEPT !.result = a] \in Claim
    BY <2>1 DEF Intent, Claim
  <2> QED BY <2>2 DEF Settle, IInv, TypeOK, InFlight, HoldsClaim
<1>2. PhasesInv'
  BY DEF Settle, IInv, TypeOK, PhasesInv, InFlight, HoldsClaim
<1>3. HoldersInv'
  BY DEF Settle, IInv, TypeOK, PhasesInv, HoldersInv, KeyOf, HoldsClaim
<1>4. AppliedInv'
  BY DEF Settle, IInv, TypeOK, PhasesInv, HoldersInv, AppliedInv, KeyOf, InFlight,
         HoldsClaim
<1>5. ClaimsInv'
  BY DEF Settle, IInv, TypeOK, PhasesInv, HoldersInv, AppliedInv, ClaimsInv, KeyOf, Intent,
         HoldsClaim
<1>6. AnswersInv'
  BY DEF Settle, IInv, TypeOK, PhasesInv, ClaimsInv, AnswersInv, KeyOf, Intent, Silence,
         Result
<1>7. RowsInv'
  BY DEF Settle, IInv, TypeOK, RowsInv, SameRow, RowTaken, HoldsRow, HoldsClaim
<1> QED BY <1>1, <1>2, <1>3, <1>4, <1>5, <1>6, <1>7 DEF IInv

\* The committed claim is the one its holder drafted, where there was none.
LEMMA CommitIInv == ASSUME IInv, NEW a \in Attempts, Commit(a) PROVE IInv'
<1>1. TypeOK'
  BY ConstantsAssumption DEF Commit, IInv, TypeOK, PhasesInv, Intent, Claim, InFlight,
                             HoldsClaim
<1>2. PhasesInv'
  BY DEF Commit, IInv, TypeOK, PhasesInv, InFlight, HoldsClaim
<1>3. HoldersInv'
  BY DEF Commit, IInv, TypeOK, PhasesInv, HoldersInv, KeyOf, HoldsClaim
<1>4. AppliedInv'
  <2>1. KeyOf(a) \in Keys
    BY DEF Commit, IInv, TypeOK, PhasesInv, KeyOf, Intent
  <2>2. claims[KeyOf(a)] = NoClaim /\ draft[a] = [request |-> intent[a].request, result |-> a]
    BY DEF Commit, IInv, HoldersInv, HoldsClaim
  <2>3. ASSUME NEW b \in applied PROVE KeyOf(b) # KeyOf(a)
    <3>1. b \in Attempts /\ phase[b] # "idle"
      BY DEF IInv, TypeOK, AppliedInv
    <3>2. intent[b] \in Intent
      BY <3>1 DEF IInv, TypeOK, PhasesInv
    <3>3. [request |-> intent[b].request, result |-> b] \in Claim
      BY <3>1, <3>2 DEF Intent, Claim
    <3>4. claims[KeyOf(b)] = [request |-> intent[b].request, result |-> b]
      BY DEF IInv, AppliedInv
    <3> QED BY <2>2, <3>3, <3>4, ConstantsAssumption DEF Claim
  <2>4. claims'[KeyOf(a)] = draft[a]
    BY <2>1 DEF Commit, IInv, TypeOK
  <2>5. ASSUME NEW b \in applied PROVE claims'[KeyOf(b)] = claims[KeyOf(b)]
    BY <2>3, <2>5 DEF Commit, IInv, TypeOK
  <2>6. phase' = [phase EXCEPT ![a] = "committed"] /\ intent' = intent
    BY DEF Commit
  <2>7. ASSUME NEW b \in applied'
        PROVE  /\ phase'[b] \in {"committed", "done"}
               /\ claims'[KeyOf(b)] = [request |-> intent[b].request, result |-> b]
    BY <2>2, <2>4, <2>5, <2>6 DEF Commit, IInv, TypeOK, AppliedInv
  <2> QED BY <2>6, <2>7 DEF AppliedInv, KeyOf
<1>5. ClaimsInv'
  BY DEF Commit, IInv, TypeOK, PhasesInv, HoldersInv, AppliedInv, ClaimsInv, KeyOf, Intent,
         HoldsClaim
<1>6. AnswersInv'
  BY DEF Commit, IInv, TypeOK, PhasesInv, ClaimsInv, AnswersInv, KeyOf, Intent, Silence,
         Result
<1>7. RowsInv'
  BY DEF Commit, IInv, TypeOK, RowsInv, SameRow, RowTaken, HoldsRow, HoldsClaim
<1> QED BY <1>1, <1>2, <1>3, <1>4, <1>5, <1>6, <1>7 DEF IInv

LEMMA RespondIInv == ASSUME IInv, NEW a \in Attempts, Respond(a) PROVE IInv'
<1>1. TypeOK'
  BY ConstantsAssumption DEF Respond, IInv, TypeOK, PhasesInv, Intent, Claim, Result,
                             Answer, InFlight, HoldsClaim
<1>2. PhasesInv'
  BY DEF Respond, IInv, TypeOK, PhasesInv, InFlight, HoldsClaim
<1>3. HoldersInv'
  BY DEF Respond, IInv, TypeOK, PhasesInv, HoldersInv, KeyOf, HoldsClaim
<1>4. AppliedInv'
  BY DEF Respond, IInv, TypeOK, PhasesInv, HoldersInv, AppliedInv, KeyOf, InFlight,
         HoldsClaim
<1>5. ClaimsInv'
  BY DEF Respond, IInv, TypeOK, PhasesInv, HoldersInv, AppliedInv, ClaimsInv, KeyOf, Intent,
         HoldsClaim
<1>6. AnswersInv'
  BY DEF Respond, IInv, TypeOK, PhasesInv, ClaimsInv, AnswersInv, KeyOf, Intent, Silence,
         Result
<1>7. RowsInv'
  BY DEF Respond, IInv, TypeOK, RowsInv, SameRow, RowTaken, HoldsRow, HoldsClaim
<1> QED BY <1>1, <1>2, <1>3, <1>4, <1>5, <1>6, <1>7 DEF IInv

LEMMA RethrowIInv == ASSUME IInv, NEW a \in Attempts, Rethrow(a) PROVE IInv'
<1>1. a \notin applied
  BY DEF Rethrow, IInv, AppliedInv, InFlight, HoldsClaim
<1>2. Said("error") \in Answer
  BY DEF Said, Answer
<1>3. TypeOK'
  BY <1>2 DEF Rethrow, IInv, TypeOK
<1>4. PhasesInv'
  BY DEF Rethrow, IInv, TypeOK, PhasesInv, InFlight, HoldsClaim
<1>5. HoldersInv' /\ AppliedInv' /\ ClaimsInv'
  BY DEF Rethrow, IInv, TypeOK, HoldersInv, AppliedInv, ClaimsInv,
         KeyOf, HoldsClaim, InFlight
<1>6. AnswersInv'
  BY <1>1 DEF Rethrow, IInv, TypeOK, AnswersInv, Said, KeyOf
<1>7. RowsInv'
  BY DEF Rethrow, IInv, TypeOK, RowsInv, SameRow, RowTaken, HoldsRow, InFlight, HoldsClaim
<1> QED BY <1>3, <1>4, <1>5, <1>6, <1>7 DEF IInv

LEMMA RefuseOtherIInv == ASSUME IInv, NEW a \in Attempts, RefuseOther(a) PROVE IInv'
<1>1. PICK b \in applied : intent[b] = [key |-> KeyOf(a), request |-> claims[KeyOf(a)].request]
  <2>1. KeyOf(a) \in Keys
    BY DEF RefuseOther, IInv, TypeOK, PhasesInv, KeyOf, Intent
  <2> QED BY <2>1 DEF RefuseOther, IInv, ClaimsInv
<1>2. KeyOf(b) = KeyOf(a) /\ intent[b].request # intent[a].request
  BY <1>1 DEF RefuseOther, KeyOf
<1>3. TypeOK'
  <2>1. Said("refused") \in Answer
    BY DEF Said, Answer
  <2> QED BY <2>1 DEF RefuseOther, IInv, TypeOK
<1>4. PhasesInv'
  BY DEF RefuseOther, IInv, TypeOK, PhasesInv
<1>5. HoldersInv' /\ AppliedInv' /\ ClaimsInv'
  BY DEF RefuseOther, IInv, TypeOK, HoldersInv, AppliedInv, ClaimsInv, KeyOf, HoldsClaim
<1>6. AnswersInv'
  BY <1>2 DEF RefuseOther, IInv, TypeOK, AnswersInv, Said, KeyOf
<1>7. RowsInv'
  BY DEF RefuseOther, IInv, TypeOK, RowsInv, SameRow, RowTaken, HoldsRow
<1> QED BY <1>3, <1>4, <1>5, <1>6, <1>7 DEF IInv

\* The claim found points at a committed work of the same key.
LEMMA ReplayIInv == ASSUME IInv, NEW a \in Attempts, Replay(a) PROVE IInv'
<1>1. TypeOK'
  <2>1. KeyOf(a) \in Keys
    BY DEF Replay, IInv, TypeOK, PhasesInv, KeyOf, Intent
  <2>2. claims[KeyOf(a)].result \in Attempts
    BY <2>1 DEF Replay, IInv, TypeOK, ClaimsInv
  <2>3. Result(claims[KeyOf(a)].result) \in Answer
    BY <2>2 DEF Result, Answer
  <2> QED BY <2>3 DEF Replay, IInv, TypeOK
<1>2. PhasesInv'
  BY DEF Replay, IInv, TypeOK, PhasesInv, InFlight, HoldsClaim
<1>3. HoldersInv'
  BY DEF Replay, IInv, TypeOK, PhasesInv, HoldersInv, KeyOf, HoldsClaim
<1>4. AppliedInv'
  BY DEF Replay, IInv, TypeOK, PhasesInv, HoldersInv, AppliedInv, KeyOf, InFlight,
         HoldsClaim
<1>5. ClaimsInv'
  BY DEF Replay, IInv, TypeOK, PhasesInv, HoldersInv, AppliedInv, ClaimsInv, KeyOf, Intent,
         HoldsClaim
<1>6. AnswersInv'
  BY DEF Replay, IInv, TypeOK, PhasesInv, ClaimsInv, AnswersInv, KeyOf, Intent, Silence,
         Result
<1>7. RowsInv'
  BY DEF Replay, IInv, TypeOK, RowsInv, SameRow, RowTaken, HoldsRow, HoldsClaim
<1> QED BY <1>1, <1>2, <1>3, <1>4, <1>5, <1>6, <1>7 DEF IInv

LEMMA AbortIInv == ASSUME IInv, NEW a \in Attempts, Abort(a) PROVE IInv'
<1>1. Said("error") \in Answer
  BY DEF Said, Answer
<1>2. TypeOK'
  BY <1>1 DEF Abort, RollBack, IInv, TypeOK
<1>3. PhasesInv'
  BY DEF Abort, RollBack, IInv, TypeOK, PhasesInv, Throwing, InFlight, HoldsClaim
<1>4. HoldersInv' /\ AppliedInv' /\ ClaimsInv'
  BY DEF Abort, RollBack, IInv, TypeOK, HoldersInv, AppliedInv, ClaimsInv,
         KeyOf, HoldsClaim, Throwing, InFlight
<1>5. AnswersInv'
  BY DEF Abort, RollBack, IInv, TypeOK, AnswersInv, Said, KeyOf
<1>6. RowsInv'
  BY DEF Abort, RollBack, IInv, TypeOK, RowsInv, SameRow, RowTaken, HoldsRow, Throwing,
         InFlight, HoldsClaim
<1> QED BY <1>2, <1>3, <1>4, <1>5, <1>6 DEF IInv

LEMMA CrashIInv == ASSUME IInv, NEW a \in Attempts, Crash(a) PROVE IInv'
<1>1. TypeOK'
  BY ConstantsAssumption DEF Crash, RollBack, IInv, TypeOK, PhasesInv, Intent, Claim,
                             Throwing, InFlight, HoldsClaim
<1>2. PhasesInv'
  BY DEF Crash, RollBack, IInv, TypeOK, PhasesInv, Throwing, InFlight, HoldsClaim
<1>3. HoldersInv'
  BY DEF Crash, RollBack, IInv, TypeOK, PhasesInv, HoldersInv, KeyOf, HoldsClaim
<1>4. AppliedInv'
  BY DEF Crash, RollBack, IInv, TypeOK, PhasesInv, HoldersInv, AppliedInv, KeyOf, Throwing,
         InFlight, HoldsClaim
<1>5. ClaimsInv'
  BY DEF Crash, RollBack, IInv, TypeOK, PhasesInv, HoldersInv, AppliedInv, ClaimsInv, KeyOf,
         Intent, HoldsClaim
<1>6. AnswersInv'
  BY DEF Crash, RollBack, IInv, TypeOK, PhasesInv, ClaimsInv, AnswersInv, KeyOf, Intent,
         Silence, Result
<1>7. RowsInv'
  BY DEF Crash, RollBack, IInv, TypeOK, RowsInv, SameRow, RowTaken, HoldsRow, HoldsClaim
<1> QED BY <1>1, <1>2, <1>3, <1>4, <1>5, <1>6, <1>7 DEF IInv

\* Every step, of the program or of the rest of the world, keeps the inductive invariant.
LEMMA NextIInv == IInv /\ [Next]_vars => IInv'
<1> SUFFICES ASSUME IInv, [Next]_vars PROVE IInv'
  OBVIOUS
<1>1. ASSUME NEW a \in Attempts, Open(a) \/ Progress(a) \/ Abort(a) \/ Crash(a)
      PROVE  IInv'
  BY <1>1, OpenIInv, TakeClaimIInv, KeyConflictIInv, WorkIInv, RowConflictIInv, SettleIInv,
     CommitIInv, RespondIInv, RethrowIInv, RefuseOtherIInv, ReplayIInv, AbortIInv, CrashIInv
     DEF Progress
<1>2. CASE UNCHANGED vars
  BY <1>2 DEF vars, IInv, TypeOK, PhasesInv, HoldersInv, AppliedInv, ClaimsInv, AnswersInv,
              RowsInv, KeyOf, SameRow, RowTaken
<1> QED BY <1>1, <1>2 DEF Next

\* The inductive invariant holds in every reachable state.
THEOREM Invariance == Spec => []IInv
BY InitIInv, NextIInv, PTL DEF Spec

\* Every variable keeps its type, for any constants.
THEOREM TypeCorrect == Spec => []TypeOK
<1>1. IInv => TypeOK BY DEF IInv
<1> QED BY <1>1, Invariance, PTL

\* However a submit is retried, the work of one key is committed at most once: two
\* committed attempts of a key would both be the result its one claim points at.
THEOREM EffectAtMostOnce == Spec => []AtMostOnce
<1>1. ASSUME IInv PROVE AtMostOnce
  <2>1. ASSUME NEW a \in applied PROVE claims[KeyOf(a)].result = a
    <3>1. claims[KeyOf(a)] = [request |-> intent[a].request, result |-> a]
      BY <1>1 DEF IInv, AppliedInv
    <3> QED BY <3>1
  <2> QED BY <2>1 DEF AtMostOnce
<1> QED BY <1>1, Invariance, PTL

\* What callers hear is true: a result was committed for their own key and request, and a
\* reused key is refused only to a different request.
THEOREM AnswersAreTrue == Spec => [](AnswerIsTheEffect /\ RefusedOnlyForAnother)
<1>1. IInv => AnswerIsTheEffect
  BY DEF IInv, AnswersInv, AnswerIsTheEffect
<1>2. IInv => RefusedOnlyForAnother
  BY DEF IInv, AnswersInv, RefusedOnlyForAnother
<1> QED BY <1>1, <1>2, Invariance, PTL

\* Claims and effects stand and fall together, and no unique index of the work is broken.
THEOREM ClaimsAgree == Spec => []ClaimsMatchEffects
<1>1. ASSUME IInv PROVE ClaimsMatchEffects
  <2>1. ASSUME NEW a \in applied PROVE KeyOf(a) \in Keys /\ claims[KeyOf(a)] # NoClaim
    <3>1. a \in Attempts /\ phase[a] # "idle"
      BY <1>1 DEF IInv, TypeOK, AppliedInv
    <3>2. intent[a] \in Intent
      BY <1>1, <3>1 DEF IInv, TypeOK, PhasesInv
    <3>3. [request |-> intent[a].request, result |-> a] \in Claim
      BY <3>1, <3>2 DEF Intent, Claim
    <3> QED BY <1>1, <3>2, <3>3, ConstantsAssumption
            DEF IInv, AppliedInv, KeyOf, Intent, Claim
  <2>2. ASSUME NEW k \in Keys, claims[k] # NoClaim PROVE \E a \in applied : KeyOf(a) = k
    <3>1. /\ claims[k].result \in applied
          /\ intent[claims[k].result] = [key |-> k, request |-> claims[k].request]
      BY <1>1, <2>2 DEF IInv, ClaimsInv
    <3>2. KeyOf(claims[k].result) = k
      BY <3>1 DEF KeyOf
    <3> QED BY <3>1, <3>2
  <2>3. \A a, b \in applied : SameRow(a, b) => a = b
    BY <1>1 DEF IInv, RowsInv
  <2> QED BY <2>1, <2>2, <2>3 DEF ClaimsMatchEffects
<1> QED BY <1>1, Invariance, PTL

\* A claim is written once: the only step that writes one found none there.
THEOREM ClaimsAreFinal == Spec => ClaimIsFinal
<1>1. ASSUME IInv, Next, NEW k \in Keys, claims[k] # NoClaim PROVE claims'[k] = claims[k]
  <2>1. PICK a \in Attempts : Open(a) \/ Progress(a) \/ Abort(a) \/ Crash(a)
    BY <1>1 DEF Next
  <2>2. CASE Commit(a)
    BY <1>1, <2>2 DEF Commit, IInv, TypeOK, HoldersInv, HoldsClaim
  <2>3. CASE ~Commit(a)
    BY <1>1, <2>1, <2>3 DEF Open, Progress, TakeClaim, KeyConflict, Work, RowConflict,
                            Settle,
       Respond, Rethrow, RefuseOther, Replay, Abort, Crash, RollBack
  <2> QED BY <2>2, <2>3
<1>2. IInv /\ [Next]_vars => [\A k \in Keys : claims[k] # NoClaim => claims'[k] = claims[k]]_vars
  BY <1>1
<1> QED BY <1>2, Invariance, PTL DEF Spec, ClaimIsFinal

-----------------------------------------------------------------------------

\* Each step of the service is a step of the promise, or leaves it as it is.
LEMMA StepKeepsThePromise == IInv /\ IInv' /\ [Next]_vars => [Promise!Next]_(Promise!vars)
<1> SUFFICES ASSUME IInv, IInv', Next PROVE [Promise!Next]_(Promise!vars)
  BY DEF vars, Promise!vars
<1>1. PICK a \in Attempts : Open(a) \/ Progress(a) \/ Abort(a) \/ Crash(a)
  BY DEF Next
<1> USE DEF Promise!Silence, Promise!Said, Promise!Result, Promise!Pending, Promise!Done,
            Silence, Said, Result, KeyOf
<1>2. CASE Open(a)
  <2>1. Promise!Ask(a)
    BY <1>2 DEF Open, Promise!Ask, IInv, PhasesInv
  <2> QED BY <2>1 DEF Promise!Next
<1>3. CASE Commit(a)
  <2>1. Promise!Execute(a)
    <3>1. Promise!Pending(a)
      BY <1>3 DEF Commit, IInv, PhasesInv
    <3>2. Promise!Done(a) = {}
      <4> SUFFICES ASSUME NEW b \in applied, intent[b].key = intent[a].key PROVE FALSE
        OBVIOUS
      <4>1. claims[intent[a].key] = NoClaim
        BY <1>3 DEF Commit, IInv, HoldersInv, HoldsClaim
      <4>2. claims[intent[a].key] = [request |-> intent[b].request, result |-> b]
        BY DEF IInv, AppliedInv
      <4>3. b \in Attempts /\ intent[b] \in Intent
        <5>1. b \in Attempts /\ phase[b] # "idle"
          BY DEF IInv, TypeOK, AppliedInv
        <5> QED BY <5>1 DEF IInv, TypeOK, PhasesInv
      <4>4. [request |-> intent[b].request, result |-> b] \in Claim
        BY <4>3 DEF Intent, Claim
      <4> QED BY <4>1, <4>2, <4>4, ConstantsAssumption DEF Claim
    <3> QED BY <1>3, <3>1, <3>2 DEF Commit, Promise!Execute
  <2> QED BY <2>1 DEF Promise!Next
<1>4. CASE Respond(a)
  <2>1. Promise!Answer(a)
    BY <1>4 DEF Respond, Promise!Answer, IInv, PhasesInv
  <2> QED BY <2>1 DEF Promise!Next
<1>5. CASE Rethrow(a) \/ Abort(a)
  <2>1. Promise!Fail(a)
    BY <1>5 DEF Rethrow, Abort, RollBack, Throwing, InFlight, HoldsClaim, Promise!Fail, IInv,
                PhasesInv
  <2> QED BY <2>1 DEF Promise!Next
<1>6. CASE RefuseOther(a)
  <2>1. Promise!Refuse(a)
    <3>1. KeyOf(a) \in Keys
      BY <1>6 DEF RefuseOther, IInv, TypeOK, PhasesInv, Intent
    <3> DEFINE b == claims[KeyOf(a)].result
    <3>2. b \in applied /\ intent[b] = [key |-> KeyOf(a), request |-> claims[KeyOf(a)].request]
      BY <1>6, <3>1 DEF RefuseOther, IInv, ClaimsInv
    <3>3. b \in Promise!Done(a) /\ intent[b].request = claims[KeyOf(a)].request
      BY <3>2
    <3>4. Promise!Pending(a)
      BY <1>6 DEF RefuseOther, IInv, PhasesInv
    <3> QED BY <1>6, <3>3, <3>4 DEF RefuseOther, Promise!Refuse
  <2> QED BY <2>1 DEF Promise!Next
<1>7. CASE Replay(a)
  <2>1. Promise!Answer(a)
    <3>1. KeyOf(a) \in Keys
      BY <1>7 DEF Replay, IInv, TypeOK, PhasesInv, Intent
    <3> DEFINE b == claims[KeyOf(a)].result
    <3>2. b \in applied /\ intent[b] = [key |-> KeyOf(a), request |-> claims[KeyOf(a)].request]
      BY <1>7, <3>1 DEF Replay, IInv, ClaimsInv
    <3>3. b \in Promise!Done(a) /\ intent[b].request = claims[KeyOf(a)].request
      BY <3>2
    <3>4. Promise!Pending(a)
      BY <1>7 DEF Replay, IInv, PhasesInv
    <3> QED BY <1>7, <3>3, <3>4 DEF Replay, Promise!Answer
  <2> QED BY <2>1 DEF Promise!Next
<1>8. CASE TakeClaim(a) \/ KeyConflict(a) \/ Work(a) \/ RowConflict(a) \/ Settle(a) \/ Crash(a)
  BY <1>8 DEF TakeClaim, KeyConflict, Work, RowConflict, Settle, Crash, RollBack,
              Promise!vars
<1> QED BY <1>1, <1>2, <1>3, <1>4, <1>5, <1>6, <1>7, <1>8 DEF Progress

\* MutationService.run implements the exactly-once write.
THEOREM Refinement == Spec => KeepsThePromise
<1>1. Init => Promise!Init
  BY DEF Init, Promise!Init, Silence, Promise!Silence
<1> QED BY <1>1, Invariance, StepKeepsThePromise, PTL DEF Spec, Promise!Spec,
                                                          KeepsThePromise

-----------------------------------------------------------------------------
(***************************************************************************)
(* The forms of the client.                                                *)
(***************************************************************************)

(* What stands under a key: a request, the server's record, the form.       *)
Mark(x, k) == [key |-> k, typed |-> x.typed, save |-> x.save, kind |-> x.kind]
Posts == calls \cup wire
Recorded == {k \in FormKeys : decided[k] # Undecided}
Stated == {Mark(c, c.key) : c \in Posts} \cup {Mark(decided[k], k) : k \in Recorded}
FormMarks == IF form = NoForm THEN {} ELSE {Mark(form, form.key)}
Marks == Stated \cup FormMarks

(* A key that has written, or still may; not one whose write was answered   *)
(* an error.                                                                *)
Live(k) ==
  /\ decided[k].st # "refused"
  /\ k \notin misheard
  /\ \/ decided[k].st = "applied"
     \/ \E w \in wire : w.key = k
     \/ form # NoForm /\ form.key = k
Excused(kind, save) == kind \in Loose /\ save \in retyped
Unused(k) == decided[k] = Undecided /\ \A c \in Posts : c.key # k
Spent(k) ==
  \/ decided[k].st = "refused"
  \/ k \in misheard
  \/ (decided[k] = Undecided /\ \A w \in wire : w.key # k)

(* A key is of one save, a save of one form; a form that is held says one   *)
(* thing under a key, and another budget is asked for without typing.       *)
MarkInv ==
  /\ \A x \in Marks : x.key \in 1..minted /\ x.save \in 1..saves /\ x.kind \in On(desk)
  /\ \A x, y \in Marks : x.key = y.key => x.save = y.save
  /\ \A x, y \in Marks : x.save = y.save => x.kind = y.kind
  /\ \A x, y \in Marks : x.key = y.key /\ x.kind \in Held => x.typed = y.typed
  /\ \A x \in Marks : x.kind = "activate" => x.typed = "first"

CountInv ==
  /\ told \subseteq 1..saves /\ retyped \subseteq 1..saves /\ misheard \subseteq Applied
  /\ \A k \in FormKeys : decided[k] = Undecided \/ decided[k].st \in {"applied", "refused"}
  /\ \A c \in Posts : c.id \in 1..sends
  /\ \A c, d \in Posts : c.id = d.id => c.save = d.save

(* A save has one live key, its form's while that is open. *)
OnceInv ==
  /\ \A x, y \in Marks : x.save = y.save /\ Live(x.key) /\ Live(y.key) =>
       x.key = y.key \/ Excused(x.kind, x.save)
  /\ form # NoForm => \A y \in Marks :
       y.save = form.save /\ Live(y.key) => y.key = form.key \/ Excused(y.kind, y.save)

(* While a held form or a question of net worth is open, whatever is        *)
(* without an answer is its own; and a held form that shows a failure other *)
(* than a lost request has a key that writes no more, one that shows none a *)
(* key that was never sent.                                                 *)
Alone == Held \cup {"remove"}
AloneInv == form.kind \in Alone =>
  \A c \in calls : c.st = "out" /\ c.save = form.save /\ c.key = form.key
HeldInv == form.kind \in Held /\ ~Busy(form.kind) =>
  /\ FailureOf(form.kind) = "none" => Unused(form.key)
  /\ FailureOf(form.kind) \notin {"none", "network"} => Spent(form.key)

(* On the screens whose forms have handlers of their own, a request that is *)
(* at home is alone, and of the form that is open.                          *)
HomeDesks == {"entry", "name", "switch", "start"}
AtHome(c) == c.home /\ (c.st = "out" \/ c.kind # "newBudget")
HomeInv ==
  /\ desk \in HomeDesks =>
       /\ \A c \in calls : AtHome(c) => form # NoForm /\ c.save = form.save
       /\ \A c, d \in calls : AtHome(c) /\ AtHome(d) => c = d
       /\ form # NoForm => \A c \in calls : c.save = form.save => c.home
  /\ desk \in {"name", "switch"} => \A c, d \in calls : c = d
  /\ desk \in {"entry", "name"} => \A c \in calls : c.st = "out"

(* A name that was not changed after it was sent is one name under every    *)
(* key, and one already sent is still asked for, has failed or was told.    *)
NameInv == desk = "name" =>
  /\ \A x, y \in Marks : x.save = y.save /\ x.save \notin retyped => x.typed = y.typed
  /\ \A c \in calls : form # NoForm /\ c.save = form.save /\ form.save \notin retyped => c.key = form.key
  /\ form # NoForm /\ form.save \notin retyped /\ (\E k \in Recorded : decided[k].save = form.save) =>
       \/ \E c \in Posts : c.save = form.save
       \/ FailureOf(form.kind) # "none"
       \/ form.save \in told
SwitchInv == desk = "switch" =>
  \A c \in calls : form # NoForm /\ c.save = form.save => c.key = form.key

(* What is owed to the figures of net worth is in them, or a reading is on  *)
(* its way and the screen waits for it.                                     *)
WorthInv == desk = "worth" =>
  /\ owed \subseteq Applied
  /\ reading.st = "read" => owed \subseteq reading.saw
  /\ owed \subseteq shown \/ (reading.st # "none" /\ (rereading \/ Awaiting # {}))

FormInv == /\ FormTypeOK /\ MarkInv /\ CountInv /\ OnceInv /\ AloneInv /\ HeldInv /\ HomeInv
           /\ NameInv /\ SwitchInv /\ WorthInv /\ ToldIsDone

-----------------------------------------------------------------------------
LEMMA Screens ==
  ASSUME FormDeskAssumption, desk \in Desks
  PROVE  /\ desk \in {"entry", "ledger", "month", "sweep", "worth", "name", "switch", "start"}
         /\ On(desk) \subseteq DOMAIN Forms
         /\ "none" \notin On(desk)
         /\ desk = "entry" <=> "entry" \in On(desk)
         /\ desk = "worth" <=> On(desk) \cap {"item", "remove"} # {}
         /\ desk = "name" <=> "rename" \in On(desk)
         /\ desk = "switch" <=> "activate" \in On(desk)
         /\ desk = "start" <=> On(desk) \cap {"newBudget", "newAccount"} # {}
         /\ desk = "ledger" <=> On(desk) \cap {"edit", "delete", "account", "reconcile"} # {}
         /\ desk = "name" => On(desk) = {"rename"}
         /\ desk = "switch" => On(desk) = {"activate"}
         /\ desk = "entry" => On(desk) = {"entry"}
         /\ desk = "worth" => On(desk) = {"item", "remove"}
         /\ desk = "start" => On(desk) = {"newBudget", "newAccount"}
         /\ desk = "ledger" => On(desk) = {"edit", "delete", "account", "reconcile"}
         /\ desk = "sweep" => On(desk) = {"sweep"}
         /\ On(desk) \cap Alone # {} => desk \in {"ledger", "worth"}
<1>1. desk \in {"entry", "ledger", "month", "sweep", "worth", "name", "switch", "start"}
  BY DEF FormDeskAssumption
<1>2. DOMAIN Forms = {"entry", "edit", "delete", "account", "reconcile", "category", "group", "goal",
                      "hide", "sweep", "item", "remove", "rename", "activate", "newBudget", "newAccount"}
  BY DEF Forms
<1>3. /\ desk = "entry" => On(desk) = {"entry"}
      /\ desk = "ledger" => On(desk) = {"edit", "delete", "account", "reconcile"}
      /\ desk = "month" => On(desk) = {"category", "group", "goal", "hide"}
      /\ desk = "sweep" => On(desk) = {"sweep"}
      /\ desk = "worth" => On(desk) = {"item", "remove"}
      /\ desk = "name" => On(desk) = {"rename"}
      /\ desk = "switch" => On(desk) = {"activate"}
      /\ desk = "start" => On(desk) = {"newBudget", "newAccount"}
  BY DEF On
<1> QED BY <1>1, <1>2, <1>3 DEF Alone, Held

(* How the forms are made. *)
LEMMA FormsMade ==
  /\ \A k \in Held : /\ Forms[k].mints = "afterRefusal"
                     /\ \A f \in DOMAIN Forms[k].fields : Forms[k].fields[f] = "held"
  /\ \A k \in {"activate", "remove"} : \A f \in DOMAIN Forms[k].fields : Forms[k].fields[f] = "shut"
  /\ Forms["rename"].mints = "afterFailure" /\ Forms["activate"].mints = "never"
  /\ "rename" \in Loose /\ "rename" \notin Held
  /\ \A k \in DOMAIN Forms : Forms[k].mints = "never" \/ k \in Loose \/ k \in Held
<1>1. /\ Forms["account"] = AccountForm /\ Forms["reconcile"] = ReconcileForm /\ Forms["item"] = ItemForm
      /\ Forms["activate"] = Question /\ Forms["remove"] = Question /\ Forms["rename"] = RenameForm /\ "rename" \in DOMAIN Forms
  BY DEF Forms
<1>2. /\ AccountForm.mints = "afterRefusal" /\ \A f \in DOMAIN AccountForm.fields : AccountForm.fields[f] = "held"
      /\ ReconcileForm.mints = "afterRefusal" /\ \A f \in DOMAIN ReconcileForm.fields : ReconcileForm.fields[f] = "held"
      /\ ItemForm.mints = "afterRefusal" /\ \A f \in DOMAIN ItemForm.fields : ItemForm.fields[f] = "held"
  BY DEF AccountForm, AccountFields, ReconcileForm, ItemForm, ItemFields
<1>3. /\ \A f \in DOMAIN Question.fields : Question.fields[f] = "shut"
      /\ Question.mints = "never" /\ RenameForm.mints = "afterFailure"
  BY DEF Question, RenameForm
<1> QED BY <1>1, <1>2, <1>3 DEF Held, Loose

-----------------------------------------------------------------------------
(* How a step moves the form. *)

Opens == /\ form' # NoForm /\ form'.key = minted + 1 /\ form'.save = saves + 1
         /\ form'.typed = "first" /\ form'.kind \in On(desk)
         /\ minted' = minted + 1 /\ saves' = saves + 1
Rekeys == /\ form # NoForm /\ form' # NoForm
          /\ form'.save = form.save /\ form'.kind = form.kind /\ form'.key = minted + 1
          /\ form.kind = "activate" => form'.typed = form.typed
          /\ minted' = minted + 1
          /\ \A k \in FormKeys : k = form.key => ~Live(k)' \/ Excused(form.kind, form.save)'
Retypes == /\ form # NoForm /\ form' # NoForm
           /\ form'.save = form.save /\ form'.kind = form.kind /\ form'.key = form.key
           /\ form.kind # "activate" /\ (form.kind \in Held => Unused(form.key))
           /\ Stated' \subseteq Stated
FormMoves == form' \in {form, NoForm} \/ Opens \/ Rekeys \/ Retypes

(* What no step undoes. *)
Steady ==
  /\ desk' = desk /\ minted' \in minted..(minted + 1) /\ saves' \in saves..(saves + 1)
  /\ Stated' \subseteq Marks /\ retyped \subseteq retyped' /\ misheard \subseteq misheard'
  /\ \A k \in FormKeys : decided[k].st = "refused" => decided'[k].st = "refused"
  /\ \A k \in FormKeys : Live(k)' => Live(k) \/ (form' # NoForm /\ form'.key = k)

LEMMA MarkShape ==
  ASSUME FormTypeOK
  PROVE  /\ form # NoForm => form \in OpenForms /\ Mark(form, form.key) \in FormMarks
         /\ \A x \in FormMarks : form # NoForm /\ x = Mark(form, form.key)
         /\ \A x, k : /\ Mark(x, k).key = k /\ Mark(x, k).typed = x.typed
                      /\ Mark(x, k).save = x.save /\ Mark(x, k).kind = x.kind
         /\ \A x \in Marks : x.key \in FormKeys
<1>1. \A x, k : /\ Mark(x, k).key = k /\ Mark(x, k).typed = x.typed
                /\ Mark(x, k).save = x.save /\ Mark(x, k).kind = x.kind
  BY DEF Mark
<1>2. /\ form # NoForm => form \in OpenForms /\ Mark(form, form.key) \in FormMarks
      /\ \A x \in FormMarks : form # NoForm /\ x = Mark(form, form.key)
  BY DEF FormTypeOK, FormMarks
<1>3. \A x \in Stated : x.key \in FormKeys
  BY <1>1 DEF Stated, Posts, Recorded, FormTypeOK, Calls
<1>4. form \in OpenForms => form.key \in FormKeys
  BY DEF OpenForms
<1> QED BY <1>1, <1>2, <1>3, <1>4 DEF Marks

LEMMA MarksKeep ==
  ASSUME FormTypeOK, FormTypeOK', MarkInv, Steady, FormMoves
  PROVE  MarkInv'
<1>1. /\ \A x \in Marks : x.key \in 1..minted /\ x.save \in 1..saves /\ x.kind \in On(desk)
      /\ minted \in Nat /\ saves \in Nat /\ minted' \in Nat /\ saves' \in Nat
      /\ minted <= minted' /\ saves <= saves' /\ On(desk)' = On(desk)
  BY DEF MarkInv, FormTypeOK, Steady
<1>2. \A x \in Marks : x.key \in 1..minted' /\ x.save \in 1..saves' /\ x.key # minted + 1 /\ x.save # saves + 1
  BY <1>1
<1>3. CASE FormMarks' \subseteq Marks
  <2>1. Marks' \subseteq Marks
    BY <1>3 DEF Marks, Steady
  <2> QED BY <2>1, <1>1, <1>2 DEF MarkInv
<1>4. ASSUME form' # NoForm, form' \notin {form, NoForm}
      PROVE  /\ Marks' \subseteq Marks \cup {Mark(form, form.key)'}
             /\ Mark(form, form.key)' = [key |-> form'.key, typed |-> form'.typed,
                                         save |-> form'.save, kind |-> form'.kind]
  BY <1>4 DEF Marks, Steady, FormMarks, Mark
<1>5. CASE form' \in {form, NoForm}
  <2>1. FormMarks' \subseteq FormMarks
    BY <1>5 DEF FormMarks
  <2> QED BY <2>1, <1>3 DEF Marks
<1>6. CASE Opens /\ form' \notin {form, NoForm}
  <2> DEFINE new == Mark(form, form.key)'
  <2>1. /\ new.key = minted + 1 /\ new.save = saves + 1 /\ new.kind \in On(desk) /\ new.typed = "first"
        /\ minted + 1 \in 1..minted' /\ saves + 1 \in 1..saves' /\ Marks' \subseteq Marks \cup {new}
    BY <1>1, <1>4, <1>6 DEF Opens
  <2> HIDE DEF new
  <2> QED BY <2>1, <1>1, <1>2 DEF MarkInv
<1>7. CASE Rekeys /\ form' \notin {form, NoForm}
  <2> DEFINE new == Mark(form, form.key)'
             old == Mark(form, form.key)
  <2>1. old \in Marks /\ old.save = form.save /\ old.kind = form.kind /\ old.typed = form.typed
    BY <1>7, MarkShape DEF Rekeys, Marks
  <2>2. /\ new.key = minted + 1 /\ new.save = old.save /\ new.kind = old.kind
        /\ old.kind = "activate" => new.typed = old.typed
        /\ minted + 1 \in 1..minted' /\ Marks' \subseteq Marks \cup {new}
    BY <1>1, <1>4, <1>7, <2>1 DEF Rekeys
  <2> HIDE DEF new, old
  <2> QED BY <2>1, <2>2, <1>1, <1>2 DEF MarkInv
<1>8. CASE Retypes /\ form' \notin {form, NoForm}
  <2> DEFINE new == Mark(form, form.key)'
             old == Mark(form, form.key)
  <2>1. old \in Marks /\ old.save = form.save /\ old.kind = form.kind /\ old.key = form.key
    BY <1>8, MarkShape DEF Retypes, Marks
  <2>2. /\ new.key = old.key /\ new.save = old.save /\ new.kind = old.kind /\ old.kind # "activate"
        /\ Marks' \subseteq Stated \cup {new}
    BY <1>4, <1>8, <2>1 DEF Retypes, Marks, FormMarks
  <2>3. old.kind \in Held => \A y \in Stated : y.key # old.key
    <3> SUFFICES ASSUME form.kind \in Held, NEW y \in Stated PROVE y.key # form.key
      BY <2>1
    <3>1. Unused(form.key)
      BY <1>8 DEF Retypes
    <3> QED BY <3>1, MarkShape DEF Stated, Unused, Recorded
  <2> HIDE DEF new, old
  <2>4. Stated \subseteq Marks
    BY DEF Marks
  <2> QED BY <2>1, <2>2, <2>3, <2>4, <1>1, <1>2 DEF MarkInv
<1> QED BY <1>5, <1>6, <1>7, <1>8 DEF FormMoves

LEMMA OnceKeeps ==
  ASSUME FormTypeOK, FormTypeOK', MarkInv, MarkInv', OnceInv, Steady, FormMoves
  PROVE  OnceInv'
<1>1. /\ \A x \in Marks : x.key \in 1..minted /\ x.save \in 1..saves /\ x.key \in FormKeys
      /\ minted \in Nat /\ saves \in Nat
      /\ \A kind, save : Excused(kind, save) => Excused(kind, save)'
  BY MarkShape DEF MarkInv, FormTypeOK, Steady, Excused
<1>2. \A x \in Marks : x.key # minted + 1 /\ x.save # saves + 1
  BY <1>1
<1>3. CASE form' \in {form, NoForm}
  <2>1. Marks' \subseteq Marks
    BY <1>3 DEF Marks, Steady, FormMarks
  <2>2. \A k \in FormKeys : Live(k)' => Live(k)
    <3> SUFFICES ASSUME NEW k \in FormKeys, Live(k)', form' # NoForm, form'.key = k PROVE Live(k)
      BY DEF Steady
    <3>1. form' = form
      BY <1>3
    <3>2. decided[k].st # "refused" /\ k \notin misheard
      BY DEF Live, Steady
    <3> QED BY <3>1, <3>2 DEF Live
  <2>3. form' # NoForm => form' = form
    BY <1>3
  <2> QED BY <2>1, <2>2, <2>3, <1>1 DEF OnceInv
<1> DEFINE new == Mark(form, form.key)'
<1>4. ASSUME form' \notin {form, NoForm}
      PROVE  /\ Marks' \subseteq Marks \cup {new}
             /\ new.key = form'.key /\ new.save = form'.save /\ new.kind = form'.kind
             /\ \A x \in Marks : Live(x.key)' => Live(x.key) \/ form'.key = x.key
  BY <1>1, <1>4 DEF Marks, Steady, FormMarks, Mark
<1>5. CASE Opens /\ form' \notin {form, NoForm}
  <2>1. /\ form'.key = minted + 1 /\ form'.save = saves + 1
        /\ Marks' \subseteq Marks \cup {new}
        /\ new.key = minted + 1 /\ new.save = saves + 1
        /\ \A x \in Marks : Live(x.key)' => Live(x.key)
    BY <1>2, <1>4, <1>5 DEF Opens
  <2> HIDE DEF new
  <2> QED BY <2>1, <1>1, <1>2 DEF OnceInv
<1>6. CASE Rekeys /\ form' \notin {form, NoForm}
  <2> DEFINE old == Mark(form, form.key)
  <2>1. old \in Marks /\ old.save = form.save /\ old.kind = form.kind /\ old.key = form.key
    BY <1>6, MarkShape DEF Rekeys, Marks
  <2>2. /\ form'.key = minted + 1 /\ form'.save = form.save
        /\ Marks' \subseteq Marks \cup {new}
        /\ new.key = minted + 1 /\ new.save = form.save /\ new.kind = form.kind
        /\ \A x \in Marks : Live(x.key)' => Live(x.key)
        /\ form # NoForm
    BY <1>2, <1>4, <1>6 DEF Rekeys
  <2>3. \A y \in Marks : y.save = form.save /\ Live(y.key)' => Excused(y.kind, y.save)'
    <3> SUFFICES ASSUME NEW y \in Marks, y.save = form.save, Live(y.key)' PROVE Excused(y.kind, y.save)'
      OBVIOUS
    <3>1. Live(y.key) /\ y.kind = form.kind
      BY <2>1, <2>2 DEF MarkInv
    <3>2. CASE Excused(y.kind, y.save)
      BY <3>2, <1>1
    <3>3. CASE y.key = form.key
      BY <1>1, <1>6, <2>2, <3>1, <3>3 DEF Rekeys, Excused
    <3> QED BY <2>2, <3>1, <3>2, <3>3 DEF OnceInv
  <2>4. \A x, y \in Marks : x.save = y.save /\ Live(x.key)' /\ Live(y.key)' =>
          x.key = y.key \/ Excused(x.kind, x.save)'
    BY <2>2, <1>1 DEF OnceInv
  <2>5. \A y \in Marks : y.save = new.save => y.kind = new.kind
    BY <2>1, <2>2 DEF MarkInv
  <2> HIDE DEF new, old
  <2>6. \A x, y \in Marks' : x.save = y.save /\ Live(x.key)' /\ Live(y.key)' =>
          x.key = y.key \/ Excused(x.kind, x.save)'
    <3> SUFFICES ASSUME NEW x \in Marks', NEW y \in Marks', x.save = y.save, Live(x.key)', Live(y.key)',
                        x.key # y.key
                 PROVE  Excused(x.kind, x.save)'
      OBVIOUS
    <3>1. CASE x \in Marks /\ y \in Marks
      BY <3>1, <2>4
    <3>2. CASE x = new /\ y \in Marks
      <4>1. Excused(y.kind, y.save)' /\ y.kind = x.kind
        BY <3>2, <2>2, <2>3, <2>5
      <4> QED BY <4>1
    <3>3. CASE y = new /\ x \in Marks
      BY <3>3, <2>2, <2>3
    <3> QED BY <3>1, <3>2, <3>3, <2>2
  <2>7. \A y \in Marks' : y.save = form'.save /\ Live(y.key)' => y.key = form'.key \/ Excused(y.kind, y.save)'
    BY <2>2, <2>3
  <2> QED BY <2>6, <2>7 DEF OnceInv
<1>7. CASE Retypes /\ form' \notin {form, NoForm}
  <2> DEFINE old == Mark(form, form.key)
  <2>1. old \in Marks /\ old.save = form.save /\ old.kind = form.kind /\ old.key = form.key
    BY <1>7, MarkShape DEF Retypes, Marks
  <2>2. /\ form'.key = form.key /\ form'.save = form.save /\ form # NoForm
        /\ Marks' \subseteq Marks \cup {new}
        /\ new.key = old.key /\ new.save = old.save /\ new.kind = old.kind
    BY <1>4, <1>7, <2>1 DEF Retypes
  <2>3. \A x \in Marks : Live(x.key)' => Live(x.key)
    <3>1. \A k \in FormKeys : k = form.key /\ Live(k)' => Live(k)
      <4> SUFFICES ASSUME NEW k \in FormKeys, k = form.key, Live(k)' PROVE Live(k)
        OBVIOUS
      <4>1. decided[k].st # "refused" /\ k \notin misheard
        BY DEF Live, Steady
      <4> QED BY <2>2, <4>1 DEF Live
    <3> QED BY <1>1, <1>4, <1>7, <2>2, <3>1
  <2> HIDE DEF new, old
  <2>4. \A x \in Marks' : \E y \in Marks : x.key = y.key /\ x.save = y.save /\ x.kind = y.kind
                                           /\ (Live(x.key)' => Live(y.key))
    BY <2>1, <2>2, <2>3
  <2> QED BY <2>2, <2>4, <1>1 DEF OnceInv
<1> QED BY <1>3, <1>5, <1>6, <1>7 DEF FormMoves

LEMMA OnceIsWrites == ASSUME FormTypeOK, OnceInv PROVE WritesOnce
<1> SUFFICES ASSUME NEW k \in Applied \ misheard, NEW l \in Applied \ misheard,
                    decided[k].save = decided[l].save
             PROVE  k = l \/ (decided[k].kind \in Loose /\ decided[k].save \in retyped)
  BY DEF WritesOnce
<1>1. ASSUME NEW n \in Applied \ misheard
      PROVE  Mark(decided[n], n) \in Marks /\ Live(n)
  BY <1>1 DEF Applied, Marks, Stated, Recorded, Undecided, Live
<1>2. /\ Mark(decided[k], k) \in Marks /\ Live(k) /\ Mark(decided[l], l) \in Marks /\ Live(l)
  BY <1>1
<1> QED BY <1>2, MarkShape DEF OnceInv, Excused

-----------------------------------------------------------------------------
(* Types. *)

LEMMA FailingTyped ==
  ASSUME FormTypeOK, NEW channels, NEW kind \in Kinds \cup {"none"}
  PROVE  /\ Failing(channels, kind) \in [Channels -> Kinds \cup {"none"}]
         /\ NoFailure \in [Channels -> Kinds \cup {"none"}]
BY DEF Failing, NoFailure, FormTypeOK

LEMMA DeskStays == desk' = desk => /\ On(desk)' = On(desk) /\ OpenForms' = OpenForms /\ Calls' = Calls
BY DEF OpenForms, Calls

LEMMA LeavesTyped ==
  ASSUME NEW c \in Calls
  PROVE  /\ LeavesHome(c) \in Calls
         /\ \A st \in {"out", "won", "failed"} : [c EXCEPT !.st = st] \in Calls
BY DEF LeavesHome, Calls

LEMMA FormTyped ==
  ASSUME form \in OpenForms
  PROVE  /\ form.kind \in On(desk) /\ form.key \in FormKeys /\ form.typed \in Intents /\ form.save \in Saves
         /\ \A key \in FormKeys : [form EXCEPT !.key = key] \in OpenForms
         /\ \A typed \in Intents, key \in FormKeys :
              /\ [form EXCEPT !.typed = typed, !.key = key] \in OpenForms
              /\ \A save \in Saves : [form EXCEPT !.key = key, !.typed = typed, !.save = save] \in OpenForms
BY DEF OpenForms

LEMMA KindsOfForm ==
  ASSUME FormDeskAssumption, FormTypeOK
  PROVE  /\ form # NoForm => form \in OpenForms /\ form.kind \in On(desk) /\ form.kind \in DOMAIN Forms
         /\ form.kind # "none" <=> form # NoForm
<1>1. desk \in Desks
  BY DEF FormTypeOK
<1>2. form # NoForm => form \in OpenForms /\ form.kind \in On(desk)
  BY DEF FormTypeOK, OpenForms
<1> QED BY <1>1, <1>2, Screens DEF NoForm

LEMMA FreshTyped ==
  ASSUME FormDeskAssumption, FormTypeOK, Minting(1)
  PROVE  Fresh \in FormKeys /\ Fresh = minted + 1 /\ minted' \in 0..MaxKey /\ minted' = minted + 1
BY DEF FormDeskAssumption, FormTypeOK, Minting, Fresh, FormKeys

LEMMA OpenTyped ==
  ASSUME FormDeskAssumption, FormTypeOK, NEW k \in DOMAIN Forms, OpenForm(k)
  PROVE  FormTypeOK'
<1>1. desk' = desk /\ k \in On(desk) /\ saves < MaxSaves /\ saves' = saves + 1
  BY DEF OpenForm
<1>2. form' \in OpenForms
  <2>1. saves + 1 \in Saves
    BY <1>1 DEF FormTypeOK, FormDeskAssumption, Saves
  <2> QED BY <1>1, <2>1, FreshTyped DEF OpenForm, OpenForms, Intents
<1>3. saves' \in 0..MaxSaves
  BY <1>1 DEF FormTypeOK, FormDeskAssumption
<1>4. failure' \in [Channels -> Kinds \cup {"none"}]
  BY FailingTyped DEF OpenForm, ForgetsOnOpening, FormTypeOK
<1> QED BY <1>1, <1>2, <1>3, <1>4, FreshTyped, DeskStays
        DEF FormTypeOK, OpenForm, served, ghosts

LEMMA TypeTyped ==
  ASSUME FormDeskAssumption, FormTypeOK, Type
  PROVE  FormTypeOK'
<1>1. desk' = desk /\ form \in OpenForms
  BY DEF Type, FormTypeOK
<1>2. form' \in OpenForms /\ minted' \in 0..MaxKey
  <2>1. PICK typed \in Intents :
          /\ Minting(IF MintsOnTyping(form.kind) THEN 1 ELSE 0)
          /\ form' = [form EXCEPT !.typed = typed, !.key = IF MintsOnTyping(form.kind) THEN Fresh ELSE @]
    BY DEF Type
  <2>2. CASE MintsOnTyping(form.kind)
    <3>1. Minting(1) /\ form' = [form EXCEPT !.typed = typed, !.key = Fresh]
      BY <2>1, <2>2
    <3> QED BY <1>1, <3>1, FreshTyped, FormTyped
  <2>3. CASE ~MintsOnTyping(form.kind)
    <3>1. Minting(0) /\ form' = [form EXCEPT !.typed = typed, !.key = form.key]
      BY <2>1, <2>3, <1>1
    <3>2. minted' \in 0..MaxKey
      BY <3>1 DEF Minting, FormTypeOK
    <3>3. form.key \in FormKeys
      BY <1>1, FormTyped
    <3> QED BY <1>1, <3>1, <3>2, <3>3, FormTyped
  <2> QED BY <2>2, <2>3
<1>3. failure' \in [Channels -> Kinds \cup {"none"}]
  BY FailingTyped DEF Type, ForgetsOnTyping, FormTypeOK
<1>4. retyped' \subseteq Saves
  BY <1>1, FormTyped DEF Type, FormTypeOK, OpenForms
<1> QED BY <1>1, <1>2, <1>3, <1>4, DeskStays DEF FormTypeOK, Type, served

LEMMA SendTyped ==
  ASSUME FormDeskAssumption, FormTypeOK, Send
  PROVE  /\ FormTypeOK'
         /\ \E more \in BOOLEAN :
              LET call == [id |-> sends + 1, kind |-> form.kind, key |-> form.key,
                           typed |-> form.typed, save |-> form.save, more |-> more,
                           home |-> TRUE, st |-> "out"]
              IN  calls' = calls \cup {call} /\ wire' = wire \cup {call} /\ call \in Calls
<1>1. desk' = desk /\ form \in OpenForms /\ sends < MaxSends /\ sends' = sends + 1 /\ form' = form
  BY DEF Send, FormTypeOK
<1>2. sends + 1 \in 1..MaxSends /\ sends' \in 0..MaxSends
  BY <1>1 DEF FormTypeOK, FormDeskAssumption
<1>3. PICK more \in BOOLEAN :
         /\ calls' = calls \cup {[id |-> sends + 1, kind |-> form.kind, key |-> form.key,
                           typed |-> form.typed, save |-> form.save, more |-> more,
                           home |-> TRUE, st |-> "out"]}
         /\ wire' = wire \cup {[id |-> sends + 1, kind |-> form.kind, key |-> form.key,
                           typed |-> form.typed, save |-> form.save, more |-> more,
                           home |-> TRUE, st |-> "out"]}
  BY DEF Send
<1>4. [id |-> sends + 1, kind |-> form.kind, key |-> form.key,
                           typed |-> form.typed, save |-> form.save, more |-> more,
                           home |-> TRUE, st |-> "out"] \in Calls
  BY <1>1, <1>2 DEF Calls, OpenForms
<1>5. failure' \in [Channels -> Kinds \cup {"none"}]
  BY FailingTyped DEF Send, FormTypeOK
<1>6. sent' \in BOOLEAN
  BY DEF Send, FormTypeOK, Remembers
<1>7. FormTypeOK'
  BY <1>1, <1>2, <1>3, <1>4, <1>5, <1>6, DeskStays DEF FormTypeOK, Send, ghosts
<1> QED BY <1>3, <1>4, <1>7

LEMMA CloseTyped ==
  ASSUME FormDeskAssumption, FormTypeOK, Close
  PROVE  FormTypeOK'
<1>1. desk' = desk /\ form' = NoForm /\ failure' = NoFailure /\ calls' = {LeavesHome(c) : c \in calls}
  BY DEF Close
<1>2. calls' \subseteq Calls
  BY <1>1, LeavesTyped DEF FormTypeOK
<1>3. /\ sent' \in BOOLEAN /\ rereading' \in BOOLEAN /\ owed' \subseteq FormKeys
      /\ reading' \in [st : {"none", "asked", "read"}, saw : SUBSET FormKeys]
  <2>1. Asked \in [st : {"none", "asked", "read"}, saw : SUBSET FormKeys]
    BY DEF Asked
  <2>2. CASE sent
    <3>1. owed' \subseteq FormKeys
      BY <2>2 DEF Close, FormTypeOK, Applied
    <3>2. rereading' \in BOOLEAN
      BY <2>2 DEF Close, FormTypeOK, RereadsSeen
    <3> QED BY <2>1, <2>2, <3>1, <3>2 DEF Close
  <2>3. CASE ~sent
    BY <2>3 DEF Close, FormTypeOK
  <2> QED BY <2>2, <2>3 DEF FormTypeOK
<1> QED BY <1>1, <1>2, <1>3, FailingTyped, DeskStays DEF FormTypeOK, Close, served

LEMMA ServeTyped ==
  ASSUME FormDeskAssumption, FormTypeOK, NEW c \in wire, Serve(c)
  PROVE  /\ FormTypeOK'
         /\ \E st \in {"applied", "refused"} :
              decided' = [decided EXCEPT ![c.key] =
                            [st |-> st, typed |-> c.typed, save |-> c.save, kind |-> c.kind]]
<1>1. c \in Calls
  BY DEF FormTypeOK
<1>2. PICK st \in {"applied", "refused"} :
        decided' = [decided EXCEPT ![c.key] =
                      [st |-> st, typed |-> c.typed, save |-> c.save, kind |-> c.kind]]
  BY DEF Serve, Decides
<1>3. decided' \in [FormKeys -> [st : {"none", "applied", "refused"}, typed : Intents,
                                 save : Saves \cup {0}, kind : On(desk) \cup {"none"}]]
  BY <1>1, <1>2 DEF FormTypeOK, Calls
<1> QED BY <1>2, <1>3, DeskStays DEF FormTypeOK, Serve, desked, ghosts

(* What an answer does to requests: some go, and some are marked.           *)
Same(c, d) == /\ c.id = d.id /\ c.key = d.key /\ c.typed = d.typed
              /\ c.save = d.save /\ c.kind = d.kind

LEMMA LeavesSame ==
  ASSUME NEW c \in Calls
  PROVE  /\ Same(c, c) /\ Same(LeavesHome(c), c)
         /\ \A st : Same([c EXCEPT !.st = st], c) /\ Same(LeavesHome([c EXCEPT !.st = st]), c)
BY DEF Same, LeavesHome, Calls

LEMMA KeptIsOpened ==
  ASSUME FormDeskAssumption, FormTypeOK, form # NoForm, desk' = desk, NEW c, KeptForAnother(c)
  PROVE  /\ Opens /\ form' \in OpenForms /\ form'.kind = form.kind
         /\ minted' \in 0..MaxKey /\ saves' \in 0..MaxSaves
<1>1. form \in OpenForms /\ saves + 1 \in Saves /\ saves' = saves + 1 /\ saves' \in 0..MaxSaves
  BY DEF FormTypeOK, KeptForAnother, FormDeskAssumption, Saves
<1>2. Fresh \in FormKeys /\ Fresh = minted + 1 /\ minted' = minted + 1 /\ minted' \in 0..MaxKey
  BY FreshTyped DEF KeptForAnother
<1>3. form' = [form EXCEPT !.key = minted + 1, !.typed = "first", !.save = saves + 1]
  BY <1>2 DEF KeptForAnother, LandedKey
<1>4. form' \in OpenForms
  BY <1>1, <1>2, <1>3, FormTyped DEF Intents
<1>5. form'.kind = form.kind /\ form'.key = minted + 1 /\ form'.save = saves + 1 /\ form'.typed = "first"
  BY <1>1, <1>3 DEF OpenForms
<1>6. form' # NoForm /\ form.kind \in On(desk)
  <2>1. minted \in Nat /\ NoForm.key = 0
    BY DEF NoForm, FormTypeOK
  <2>2. form'.key # 0
    BY <1>5, <2>1
  <2> QED BY <1>1, <2>1, <2>2, FormTyped
<1> QED BY <1>1, <1>2, <1>4, <1>5, <1>6 DEF Opens

(* Who answers what, screen by screen.                                      *)
LEMMA SucceedsOn ==
  ASSUME FormDeskAssumption, FormTypeOK, NEW c \in calls, Succeeds(c)
  PROVE  /\ desk = "entry" => EntrySaved(c)
         /\ desk = "name" => NameSaved(c)
         /\ desk = "sweep" => Swept(c)
         /\ desk \in {"switch", "start"} => StaysUntilRead(c)
         /\ desk \in {"ledger", "month", "worth"} => Settled(c)
         /\ desk \in {"entry", "name", "sweep", "switch", "start", "ledger", "month", "worth"}
BY Screens DEF Succeeds, FormTypeOK

LEMMA SucceedsShape ==
  ASSUME FormDeskAssumption, FormTypeOK, HomeInv, NEW c \in calls, Succeeds(c)
  PROVE  /\ \A d \in calls' : \E e \in calls : Same(d, e)
         /\ calls' \subseteq Calls /\ FormTypeOK'
         /\ \/ form' \in {form, NoForm} /\ UNCHANGED <<minted, saves>>
            \/ desk \in {"entry", "name"} /\ c.home /\ form # NoForm /\ Opens
<1> USE DEF FormTypeOK
<1>1. c \in Calls /\ desk' = desk /\ c.st = "out"
  BY DEF Succeeds
<1>2. ASSUME desk \in {"entry", "name"}, c.home PROVE form # NoForm
  BY <1>1, <1>2 DEF HomeInv, HomeDesks, AtHome
<1>3. \A d \in calls : d \in Calls /\ Same(d, d)
  BY LeavesSame
<1>4. /\ \A d \in calls' : \E e \in calls : Same(d, e)
      /\ calls' \subseteq Calls
  <2>1. CASE desk \in {"entry", "name"}
    <3>1. calls' \subseteq calls
      BY <2>1, SucceedsOn DEF EntrySaved, NameSaved
    <3> QED BY <3>1, <1>3
  <2>2. CASE desk \in {"sweep", "switch", "start"}
    <3>1. calls' = (calls \ {c}) \cup {[c EXCEPT !.st = "won"]}
      BY <2>2, SucceedsOn DEF Swept, StaysUntilRead
    <3>2. [c EXCEPT !.st = "won"] \in Calls /\ Same([c EXCEPT !.st = "won"], c)
      BY <1>1, LeavesSame, LeavesTyped
    <3>3. calls' \subseteq Calls
      BY <3>1, <3>2
    <3> QED BY <3>1, <3>2, <3>3, <1>3
  <2>3. CASE desk \in {"ledger", "month", "worth"}
    <3>1. calls' = {LeavesHome([d EXCEPT !.st = IF d.id = c.id THEN "won" ELSE @]) : d \in calls}
      BY <2>3, SucceedsOn DEF Settled
    <3> DEFINE Took(d) == LeavesHome([d EXCEPT !.st = IF d.id = c.id THEN "won" ELSE @])
    <3>2. ASSUME NEW d \in calls PROVE Took(d) \in Calls /\ Same(Took(d), d)
      BY <3>2, <1>3 DEF LeavesHome, Calls, Same
    <3>3. calls' = {Took(d) : d \in calls}
      BY <3>1
    <3> HIDE DEF Took
    <3> QED BY <3>2, <3>3
  <2> QED BY <2>1, <2>2, <2>3, SucceedsOn
<1>5. \/ form' \in {form, NoForm} /\ UNCHANGED <<minted, saves>>
      \/ desk \in {"entry", "name"} /\ c.home /\ form # NoForm /\ KeptForAnother(c)
  <2>1. CASE desk = "entry"
    BY <2>1, <1>2, SucceedsOn DEF EntrySaved
  <2>2. CASE desk = "name"
    BY <2>2, <1>2, SucceedsOn DEF NameSaved
  <2>3. CASE desk \notin {"entry", "name"}
    BY <2>3, SucceedsOn DEF Swept, StaysUntilRead, Settled
  <2> QED BY <2>1, <2>2, <2>3
<1>6. /\ form' \in OpenForms \cup {NoForm} /\ minted' \in 0..MaxKey /\ saves' \in 0..MaxSaves
      /\ (form' \in {form, NoForm} /\ UNCHANGED <<minted, saves>>) \/ Opens
  BY <1>1, <1>5, KeptIsOpened
<1>7. failure' \in [Channels -> Kinds \cup {"none"}] /\ sent' \in BOOLEAN
  <2>1. NoFailure \in [Channels -> Kinds \cup {"none"}]
    BY FailingTyped
  <2>2. CASE desk \in {"entry", "name"}
    BY <2>1, <2>2, SucceedsOn DEF EntrySaved, NameSaved
  <2>3. CASE desk \notin {"entry", "name"}
    BY <2>1, <2>3, SucceedsOn DEF Swept, StaysUntilRead, Settled
  <2> QED BY <2>2, <2>3
<1>8. told' \subseteq Saves /\ owed' \subseteq FormKeys /\ wire' \subseteq Calls
  BY <1>1 DEF Succeeds, Calls, Gone
<1>9. reading' \in [st : {"none", "asked", "read"}, saw : SUBSET FormKeys]
  BY DEF Succeeds, Asked
<1>10. FormTypeOK'
  BY <1>1, <1>4, <1>6, <1>7, <1>8, <1>9, DeskStays DEF Succeeds
<1> QED BY <1>1, <1>4, <1>5, <1>10, KeptIsOpened

LEMMA FailsShape ==
  ASSUME FormDeskAssumption, FormTypeOK, HomeInv, NEW c \in calls, NEW kind \in Kinds, Fails(c, kind),
         wire' \subseteq wire, misheard' \subseteq FormKeys
  PROVE  /\ \A d \in calls' : \E e \in calls : Same(d, e)
         /\ FormTypeOK'
         /\ \/ form' = form /\ minted' = minted /\ ~(RemintsOnFailure(c, kind) /\ c.home)
            \/ /\ form # NoForm /\ c.save = form.save /\ c.kind \in {"rename", "activate"} /\ kind # "network"
               /\ form' = [form EXCEPT !.key = minted + 1] /\ minted' = minted + 1
<1> USE DEF FormTypeOK
<1>1. c \in Calls /\ desk' = desk /\ c.st = "out" /\ c.kind \in On(desk)
  BY DEF Fails, Calls
<1>2. /\ calls' \subseteq Calls
      /\ \A d \in calls' : \E e \in calls : Same(d, e)
  <2>1. \A d \in calls : d \in Calls /\ Same(d, d)
    BY LeavesSame
  <2>2. calls' \subseteq calls \cup {[c EXCEPT !.st = "failed"]}
    BY DEF Fails
  <2>3. [c EXCEPT !.st = "failed"] \in Calls /\ Same([c EXCEPT !.st = "failed"], c)
    BY <1>1, LeavesSame, LeavesTyped
  <2>4. calls' \subseteq Calls
    BY <2>2, <2>3
  <2> QED BY <2>1, <2>2, <2>3, <2>4
<1> DEFINE Keeps == form' = form /\ minted' = minted /\ ~(RemintsOnFailure(c, kind) /\ c.home)
           Gets == /\ form # NoForm /\ c.save = form.save /\ c.kind \in {"rename", "activate"}
                   /\ kind # "network"
                   /\ form' = [form EXCEPT !.key = minted + 1] /\ minted' = minted + 1
<1>3. ASSUME RemintsOnFailure(c, kind) /\ c.home PROVE Gets /\ minted' \in 0..MaxKey /\ form' \in OpenForms
  <2>1. Minting(1) /\ form' = [form EXCEPT !.key = Fresh]
    BY <1>3 DEF Fails
  <2>2. desk \in {"name", "switch"} /\ kind # "network" /\ c.kind \in {"rename", "activate"}
    BY <1>1, <1>3, Screens DEF RemintsOnFailure, KeepsTheKey
  <2>3. form # NoForm /\ c.save = form.save
    BY <1>1, <1>3, <2>2 DEF HomeInv, HomeDesks, AtHome
  <2>4. form' = [form EXCEPT !.key = minted + 1] /\ minted' = minted + 1 /\ minted' \in 0..MaxKey
        /\ form' \in OpenForms
    BY <2>1, <2>3, FreshTyped, FormTyped
  <2> QED BY <2>2, <2>3, <2>4
<1>4. ASSUME ~(RemintsOnFailure(c, kind) /\ c.home) PROVE Keeps
  <2>1. form' = form /\ Minting(0)
    BY <1>4 DEF Fails
  <2> QED BY <1>4, <2>1 DEF Minting
<1>5. minted' \in 0..MaxKey /\ form' \in OpenForms \cup {NoForm}
  BY <1>3, <1>4
<1>6. failure' \in [Channels -> Kinds \cup {"none"}] /\ sent' \in BOOLEAN
  BY FailingTyped DEF Fails
<1>7. reading' \in [st : {"none", "asked", "read"}, saw : SUBSET FormKeys]
  BY DEF Fails, Asked
<1>8. FormTypeOK'
  BY <1>1, <1>2, <1>5, <1>6, <1>7, DeskStays DEF Fails, ghosts
<1> QED BY <1>2, <1>3, <1>4, <1>8 DEF Fails

LEMMA EndedShape ==
  ASSUME FormDeskAssumption, FormTypeOK, NEW failed \in BOOLEAN, Ended(failed), shown' \subseteq FormKeys
  PROVE  /\ FormTypeOK' /\ calls' = {c \in calls : c.st = "out"} /\ form' \in {form, NoForm}
         /\ desk' = desk
<1>1. calls' = {c \in calls : c.st = "out"} /\ form' \in {form, NoForm} /\ desk' = desk
  BY DEF Ended, Awaiting, desked
<1> QED BY <1>1, DeskStays DEF FormTypeOK, Ended, NotAsked, served

-----------------------------------------------------------------------------
(* A step whose requests and records were there before. *)

LEMMA AnswersAreSteady ==
  ASSUME FormTypeOK, CountInv, desk' = desk, wire' \subseteq wire, decided' = decided,
         \A d \in calls' : \E e \in calls : Same(d, e),
         minted' \in minted..(minted + 1), saves' \in saves..(saves + 1), retyped' = retyped,
         misheard \subseteq misheard'
  PROVE  /\ Steady /\ Stated' \subseteq Stated
         /\ \A d \in Posts' : \E e \in Posts : Same(d, e)
<1>1. \A d \in Posts' : \E e \in Posts : Same(d, e)
  <2>1. \A d \in wire' : d \in wire /\ Same(d, d)
    BY DEF Same
  <2> QED BY <2>1 DEF Posts
<1>2. Stated' \subseteq Stated
  <2>1. \A d, e : Same(d, e) => Mark(d, d.key) = Mark(e, e.key)
    BY DEF Same, Mark
  <2>2. \A d \in Posts' : Mark(d, d.key) \in Stated
    BY <1>1, <2>1 DEF Stated
  <2>3. {Mark(d, d.key) : d \in Posts}' \subseteq Stated
    BY <2>2 DEF Mark
  <2>4. {Mark(decided[k], k) : k \in Recorded}' \subseteq Stated
    BY DEF Stated, Recorded, Mark
  <2> QED BY <2>3, <2>4 DEF Stated
<1>3. \A k \in FormKeys : Live(k)' => Live(k) \/ (form' # NoForm /\ form'.key = k)
  BY DEF Live
<1> QED BY <1>1, <1>2, <1>3 DEF Steady, Marks

LEMMA CountsKeep ==
  ASSUME FormTypeOK, CountInv, saves' \in Nat, saves <= saves', sends' = sends, decided' = decided,
         \A d \in Posts' : \E e \in Posts : Same(d, e),
         told' \subseteq 1..saves, retyped' = retyped, misheard' \subseteq Applied
  PROVE  CountInv'
<1>1. /\ told' \subseteq 1..saves' /\ retyped' \subseteq 1..saves' /\ sends \in Nat
      /\ misheard' \subseteq Applied'
  BY DEF CountInv, FormTypeOK, Applied
<1>2. \A d \in Posts' : d.id \in 1..sends'
  BY DEF CountInv, Same
<1>3. ASSUME NEW c \in Posts', NEW d \in Posts', c.id = d.id PROVE c.save = d.save
  <2>1. PICK e \in Posts : c.id = e.id /\ c.save = e.save
    BY DEF Same
  <2>2. PICK f \in Posts : d.id = f.id /\ d.save = f.save
    BY DEF Same
  <2>3. e.save = f.save
    BY <1>3, <2>1, <2>2 DEF CountInv
  <2> QED BY <2>1, <2>2, <2>3
<1> QED BY <1>1, <1>2, <1>3 DEF CountInv

-----------------------------------------------------------------------------
(* Facts of the invariant. *)

LEMMA FreshIsUnused ==
  ASSUME FormTypeOK, MarkInv
  PROVE  /\ \A k \in FormKeys : k = minted + 1 => Unused(k)
         /\ \A c \in Posts : c.save # saves + 1 /\ c.save \in Saves
         /\ \A k \in Recorded : decided[k].save # saves + 1
<1>1. minted \in Nat /\ saves \in Nat
  BY DEF FormTypeOK
<1>2. ASSUME NEW c \in Posts
      PROVE  c.key # minted + 1 /\ c.save # saves + 1 /\ c.save \in Saves
  <2>1. Mark(c, c.key) \in Marks /\ Mark(c, c.key).key = c.key /\ Mark(c, c.key).save = c.save
    BY MarkShape DEF Marks, Stated
  <2>2. c.key \in 1..minted /\ c.save \in 1..saves
    BY <2>1 DEF MarkInv
  <2> QED BY <1>1, <2>2 DEF Posts, FormTypeOK, Calls
<1>3. ASSUME NEW k \in Recorded
      PROVE  k # minted + 1 /\ decided[k].save # saves + 1
  <2>1. /\ Mark(decided[k], k) \in Marks /\ Mark(decided[k], k).key = k
        /\ Mark(decided[k], k).save = decided[k].save
    BY MarkShape DEF Marks, Stated
  <2>2. k \in 1..minted /\ decided[k].save \in 1..saves
    BY <2>1 DEF MarkInv
  <2> QED BY <1>1, <2>2
<1>4. \A k \in FormKeys : k = minted + 1 => Unused(k)
  BY <1>2, <1>3 DEF Unused, Recorded
<1> QED BY <1>2, <1>3, <1>4

(* A request is of the form with its save, and of the record under its key. *)
LEMMA Belongs ==
  ASSUME FormTypeOK, MarkInv, NEW c \in Posts
  PROVE  /\ c.kind \in On(desk)
         /\ form # NoForm /\ c.save = form.save => c.kind = form.kind
         /\ c.key \in Recorded =>
              /\ decided[c.key].save = c.save
              /\ c.kind \in Held \cup {"activate"} => decided[c.key].typed = c.typed
         /\ \A w \in Posts : w.key = c.key => w.save = c.save
<1>1. /\ Mark(c, c.key) \in Marks /\ Mark(c, c.key).key = c.key /\ Mark(c, c.key).save = c.save
      /\ Mark(c, c.key).kind = c.kind /\ Mark(c, c.key).typed = c.typed
  BY MarkShape DEF Marks, Stated
<1>2. form # NoForm => /\ Mark(form, form.key) \in Marks /\ Mark(form, form.key).save = form.save
                       /\ Mark(form, form.key).kind = form.kind
  BY MarkShape DEF Marks
<1>3. ASSUME c.key \in Recorded
      PROVE  /\ decided[c.key].save = c.save
             /\ c.kind \in Held \cup {"activate"} => decided[c.key].typed = c.typed
  <2> DEFINE m == Mark(decided[c.key], c.key)
             n == Mark(c, c.key)
  <2>1. m \in Marks /\ m.key = c.key /\ m.save = decided[c.key].save /\ m.typed = decided[c.key].typed
    BY <1>3, MarkShape DEF Marks, Stated
  <2>2. n \in Marks /\ n.key = c.key /\ n.save = c.save /\ n.kind = c.kind /\ n.typed = c.typed
    BY <1>1
  <2> HIDE DEF m, n
  <2>3. m.save = n.save /\ (n.kind \in Held => m.typed = n.typed)
    BY <2>1, <2>2 DEF MarkInv
  <2>4. n.kind = "activate" => m.typed = n.typed
    BY <2>1, <2>2, <2>3 DEF MarkInv
  <2> QED BY <2>1, <2>2, <2>3, <2>4
<1>4. ASSUME NEW w \in Posts, w.key = c.key PROVE w.save = c.save
  <2>1. Mark(w, w.key) \in Marks /\ Mark(w, w.key).key = w.key /\ Mark(w, w.key).save = w.save
    BY MarkShape DEF Marks, Stated
  <2> QED BY <1>1, <1>4, <2>1 DEF MarkInv
<1>5. c.kind \in On(desk)
  BY <1>1 DEF MarkInv
<1>6. form # NoForm /\ c.save = form.save => c.kind = form.kind
  BY <1>1, <1>2 DEF MarkInv
<1> QED BY <1>3, <1>4, <1>5, <1>6

(* What typing may change. *)
LEMMA Typing ==
  ASSUME FormDeskAssumption, FormTypeOK, Type
  PROVE  /\ form \in OpenForms /\ form.kind \notin {"activate", "remove"}
         /\ form.kind \in Held =>
              ~Busy(form.kind) /\ FailureOf(form.kind) # "network"
         /\ form'.kind = form.kind /\ form'.save = form.save /\ form' # NoForm
         /\ \/ /\ form'.key = minted + 1 /\ minted' = minted + 1 /\ form'.key \in FormKeys
               /\ FailureOf(form.kind) # "none"
               /\ form.kind \in Loose \/ (form.kind \in Held /\ FailureOf(form.kind) # "network")
            \/ /\ form'.key = form.key /\ minted' = minted /\ failure' = failure
               /\ form.kind \in Held => FailureOf(form.kind) = "none"
         /\ retyped \subseteq retyped'
         /\ \/ form.save \in retyped'
            \/ /\ \A c \in Posts : c.save # form.save
               /\ FailureOf(form.kind) = "none" /\ form.save \notin told
<1>1. form \in OpenForms /\ form.kind \in DOMAIN Forms
  BY KindsOfForm DEF Type
<1>2. PICK f \in DOMAIN Forms[form.kind].fields : ~Shut(Forms[form.kind].fields[f])
  BY DEF Type
<1>3. form.kind \notin {"activate", "remove"}
  BY <1>2, FormsMade DEF Shut
<1>4. form.kind \in Held => ~Busy(form.kind) /\ FailureOf(form.kind) # "network"
  BY <1>2, FormsMade DEF Shut
<1>5. PICK typed \in Intents :
        /\ Minting(IF MintsOnTyping(form.kind) THEN 1 ELSE 0)
        /\ form' = [form EXCEPT !.typed = typed, !.key = IF MintsOnTyping(form.kind) THEN Fresh ELSE @]
  BY DEF Type
<1>6. form'.kind = form.kind /\ form'.save = form.save /\ form'.key =
        IF MintsOnTyping(form.kind) THEN Fresh ELSE form.key
  BY <1>1, <1>5 DEF OpenForms
<1> DEFINE Mints == /\ form'.key = minted + 1 /\ minted' = minted + 1 /\ form'.key \in FormKeys
                    /\ FailureOf(form.kind) # "none"
                    /\ form.kind \in Loose \/ (form.kind \in Held /\ FailureOf(form.kind) # "network")
           Keeps == /\ form'.key = form.key /\ minted' = minted /\ failure' = failure
                    /\ form.kind \in Held => FailureOf(form.kind) = "none"
<1>7. ASSUME MintsOnTyping(form.kind) PROVE Mints
  <2>1. Fresh \in FormKeys /\ Fresh = minted + 1 /\ minted' = minted + 1
    BY <1>5, <1>7, FreshTyped
  <2>2. FailureOf(form.kind) # "none" /\ Forms[form.kind].mints # "never"
    <3>1. \A k \in DOMAIN Forms : Forms[k].mints \in {"never", "afterRefusal", "afterFailure"}
      BY DEF Forms, EntryForm, AccountForm, ReconcileForm, ItemForm, CategoryForm, GroupForm, GoalForm,
             RenameForm, NewAccountForm, NewBudgetForm, Question, SweepQuestion
    <3> QED BY <1>1, <1>7, <3>1 DEF MintsOnTyping
  <2>3. form.kind \in Loose \/ (form.kind \in Held /\ FailureOf(form.kind) # "network")
    BY <1>1, <1>4, <2>2, FormsMade
  <2>4. form'.key = Fresh
    BY <1>6, <1>7
  <2> QED BY <2>1, <2>2, <2>3, <2>4
<1>8. ASSUME ~MintsOnTyping(form.kind) PROVE Keeps
  <2>1. minted' = minted /\ failure' = failure
    BY <1>5, <1>8 DEF Type, Minting, FormTypeOK
  <2>2. form.kind \in Held => FailureOf(form.kind) = "none"
    BY <1>4, <1>8, FormsMade DEF MintsOnTyping
  <2> QED BY <1>6, <1>8, <2>1, <2>2
<1>9. form' # NoForm
  <2>1. desk \in Desks /\ form.kind \in On(desk)
    BY <1>1 DEF FormTypeOK, OpenForms
  <2>2. "none" \notin On(desk)
    BY <2>1, Screens
  <2> QED BY <1>6, <2>1, <2>2 DEF NoForm
<1>10. /\ retyped \subseteq retyped'
       /\ \/ form.save \in retyped'
          \/ /\ \A c \in Posts : c.save # form.save
             /\ FailureOf(form.kind) = "none" /\ form.save \notin told
  BY DEF Type, Posts
<1> QED BY <1>1, <1>3, <1>4, <1>6, <1>7, <1>8, <1>9, <1>10

(* A form that waits for no request of its own. *)
LEMMA Idle ==
  ASSUME FormDeskAssumption, FormTypeOK, MarkInv, AloneInv, HomeInv, form # NoForm, ~Busy(form.kind)
  PROVE  /\ form.kind \in Alone => calls = {}
         /\ desk \in {"name", "switch"} => calls = {}
         /\ desk \in HomeDesks => \A c \in calls : ~AtHome(c)
<1>1. desk \in Desks /\ form.kind \in On(desk)
  BY KindsOfForm DEF FormTypeOK
<1>2. form.kind \notin {"edit", "delete", "category"} => ~Pending({form.kind})
  BY DEF Busy
<1>3. \A c \in calls : c.kind \in On(desk) /\ (form # NoForm /\ c.save = form.save => c.kind = form.kind)
  BY Belongs DEF Posts
<1>4. form.kind \in Alone => calls = {}
  <2> SUFFICES ASSUME form.kind \in Alone, NEW c \in calls PROVE FALSE
    OBVIOUS
  <2>1. c.kind = form.kind
    BY <1>3 DEF AloneInv
  <2>2. desk # "entry" /\ form.kind \notin {"edit", "delete", "category"}
    BY <1>1, Screens DEF Alone, Held
  <2> QED BY <1>2, <2>1, <2>2 DEF Pending
<1>5. desk \in {"name", "switch"} => calls = {}
  <2> SUFFICES ASSUME desk \in {"name", "switch"}, NEW c \in calls PROVE FALSE
    OBVIOUS
  <2>1. c.kind = form.kind /\ form.kind \in {"rename", "activate"}
    BY <1>1, <1>3, Screens
  <2> QED BY <1>2, <2>1 DEF Pending
<1>6. desk \in HomeDesks => \A c \in calls : ~AtHome(c)
  <2> SUFFICES ASSUME desk \in HomeDesks, NEW c \in calls, AtHome(c) PROVE FALSE
    OBVIOUS
  <2>1. c.kind = form.kind /\ c.home
    BY <1>3 DEF HomeInv, AtHome
  <2>2. form.kind \notin {"edit", "delete", "category"}
    BY <1>1, Screens DEF HomeDesks
  <2> QED BY <1>2, <2>1, <2>2 DEF Pending
<1> QED BY <1>4, <1>5, <1>6

(* What an answer says of the key it is about. *)
LEMMA Answers ==
  ASSUME FormTypeOK, CountInv, NEW c \in Calls
  PROVE  /\ c.key \in FormKeys
         /\ AnswerTo(c) = "applied" => c.key \in Applied /\ c.key \in Recorded
         /\ AnswerTo(c) = "refused" => decided[c.key].st = "refused"
         /\ AnswerTo(c) = "conflict" => c.key \in Recorded /\ decided[c.key].typed # c.typed
         /\ AnswerTo(c) = "none" => decided[c.key] = Undecided
<1>1. c.key \in FormKeys
  BY DEF Calls
<1>2. decided[c.key] = Undecided \/ decided[c.key].st \in {"applied", "refused"}
  BY <1>1 DEF CountInv
<1>3. /\ decided[c.key] = Undecided => AnswerTo(c) = "none"
      /\ decided[c.key] # Undecided /\ decided[c.key].typed # c.typed => AnswerTo(c) = "conflict"
      /\ decided[c.key] # Undecided /\ decided[c.key].typed = c.typed => AnswerTo(c) = decided[c.key].st
  BY DEF AnswerTo
<1>4. Undecided.st = "none"
  BY DEF Undecided
<1> QED BY <1>1, <1>2, <1>3, <1>4 DEF Recorded, Applied

LEMMA Steps ==
  ASSUME FormInv, FormTypeOK', Steady, FormMoves
  PROVE  MarkInv' /\ OnceInv'
BY MarksKeep, OnceKeeps DEF FormInv

-----------------------------------------------------------------------------
(* One step at a time. *)

LEMMA OpenKeeps ==
  ASSUME FormDeskAssumption, OneAtATime, FormInv, NEW k \in DOMAIN Forms, OpenForm(k)
  PROVE  FormInv'
<1> USE DEF FormInv
<1>1. FormTypeOK'
  BY OpenTyped
<1>2. /\ UNCHANGED <<desk, sent, rereading, calls, wire, decided, reading, shown, sends, told, retyped, misheard, owed>>
      /\ k \in On(desk) /\ desk \in Desks /\ MayOpen(k) /\ Patient
      /\ saves' = saves + 1 /\ Minting(1)
      /\ form' = [kind |-> k, key |-> Fresh, typed |-> "first", save |-> saves + 1]
  BY DEF OpenForm, served, ghosts, FormTypeOK
<1>3. minted' = minted + 1 /\ Fresh = minted + 1 /\ minted + 1 \in FormKeys /\ minted \in Nat /\ saves \in Nat
  BY <1>2, FreshTyped DEF FormTypeOK
<1>4. Opens /\ form'.kind = k
  <2>1. k # "none"
    BY <1>2, Screens
  <2> QED BY <1>2, <1>3, <2>1 DEF Opens, NoForm
<1>5. Posts' = Posts /\ Stated' = Stated /\ Recorded' = Recorded /\ Applied' = Applied
  BY <1>2 DEF Posts, Stated, Recorded, Mark, Applied
<1>6. Steady
  <2>1. \A n \in FormKeys : Live(n)' => Live(n) \/ (form' # NoForm /\ form'.key = n)
    BY <1>2 DEF Live
  <2> QED BY <1>2, <1>3, <1>5, <2>1 DEF Steady, Marks
<1>7. MarkInv' /\ OnceInv'
  BY <1>1, <1>4, <1>6, Steps DEF FormMoves
<1>8. CountInv'
  BY <1>2, <1>3, <1>5 DEF CountInv
<1>9. AloneInv'
  <2> SUFFICES ASSUME k \in Alone PROVE calls = {}
    BY <1>2, <1>4 DEF AloneInv
  <2>1. desk \in {"ledger", "worth"} /\ (desk = "worth" => k \in {"item", "remove"} /\ On(desk) = {"item", "remove"})
    BY <1>2, Screens
  <2>2. CASE desk = "ledger"
    BY <1>2, <2>2 DEF Patient
  <2>3. CASE desk = "worth"
    <3>1. ~Pending({"item", "remove"})
      BY <1>2, <2>1, <2>3 DEF MayOpen
    <3>2. \A c \in calls : c.kind \in {"item", "remove"}
      BY <2>1, <2>3 DEF FormTypeOK, Calls
    <3> QED BY <2>3, <3>1, <3>2 DEF Pending
  <2> QED BY <2>1, <2>2, <2>3
<1>10. Unused(minted + 1) /\ \A c \in Posts : c.save # saves + 1
  BY <1>3, FreshIsUnused
<1>11. HeldInv'
  <2>1. \A n \in FormKeys : n = minted + 1 => Unused(n)' /\ Spent(n)'
    BY <1>2, <1>5, <1>10 DEF Unused, Spent, Posts
  <2> QED BY <1>3, <1>4, <2>1 DEF HeldInv, Opens
<1>12. desk \in HomeDesks => form = NoForm
  BY <1>2, Screens DEF MayOpen, HomeDesks
<1>13. HomeInv'
  BY <1>2, <1>4, <1>10, <1>12 DEF HomeInv, Opens, Posts
<1>14. NameInv'
  <2> SUFFICES ASSUME desk = "name" PROVE NameInv'
    BY <1>2 DEF NameInv
  <2>1. \A n \in Recorded' : decided'[n].save # saves + 1
    BY <1>2, <1>5, FreshIsUnused
  <2>2. Marks' = Stated \cup {Mark(form, form.key)'} /\ Mark(form, form.key)'.save = saves + 1
    BY <1>4, <1>5 DEF Marks, FormMarks, Opens, Mark
  <2>3. \A x \in Stated : x.save # saves + 1
    <3>1. \A x \in Stated : x.save \in 1..saves
      BY DEF MarkInv, Marks
    <3> QED BY <1>3, <3>1
  <2>4. \A x, y \in Stated : x.save = y.save /\ x.save \notin retyped => x.typed = y.typed
    BY DEF NameInv, Marks
  <2>5. \A x, y \in Marks' : x.save = y.save /\ x.save \notin retyped' => x.typed = y.typed
    BY <1>2, <2>2, <2>3, <2>4
  <2>6. \A c \in calls' : c.save # form'.save
    BY <1>2, <1>4, <1>10 DEF Opens, Posts
  <2>7. \A n \in Recorded' : decided'[n].save # form'.save
    BY <1>4, <2>1 DEF Opens
  <2> QED BY <2>5, <2>6, <2>7 DEF NameInv
<1>15. SwitchInv'
  BY <1>2, <1>4, <1>10 DEF SwitchInv, Opens, Posts
<1>16. WorthInv' /\ ToldIsDone'
  BY <1>2, <1>5 DEF WorthInv, ToldIsDone, Awaiting
<1> QED BY <1>1, <1>7, <1>8, <1>9, <1>11, <1>13, <1>14, <1>15, <1>16

LEMMA TypeKeeps ==
  ASSUME FormDeskAssumption, FormInv, Type
  PROVE  FormInv'
<1> USE DEF FormInv
<1>1. FormTypeOK'
  BY TypeTyped
<1>2. /\ UNCHANGED <<desk, sent, rereading, calls, wire, decided, reading, shown, saves, sends, told,
                    misheard, owed>>
      /\ form # NoForm /\ desk \in Desks /\ minted \in Nat /\ saves \in Nat
  BY DEF Type, served, FormTypeOK
<1>3. /\ form \in OpenForms /\ form.key \in 1..minted /\ form.save \in 1..saves /\ form.key # minted + 1
      /\ form.kind \in On(desk) /\ form.key \in FormKeys
  <2>1. Mark(form, form.key) \in Marks /\ form \in OpenForms
    BY <1>2, MarkShape DEF Marks
  <2>2. form.key \in 1..minted /\ form.save \in 1..saves /\ form.kind \in On(desk)
    BY <2>1, MarkShape DEF MarkInv
  <2>3. form.key \in FormKeys
    BY <2>1, FormTyped
  <2> QED BY <1>2, <2>1, <2>2, <2>3
<1>4. /\ Posts' = Posts /\ Stated' = Stated /\ Recorded' = Recorded /\ Applied' = Applied
      /\ \A k : Unused(k)' = Unused(k) /\ Spent(k)' = Spent(k)
  BY <1>2 DEF Posts, Stated, Recorded, Mark, Applied, Unused, Spent
<1>5. form.kind \in Held => ~Busy(form.kind) /\ calls = {}
  BY <1>2, Typing, Idle DEF Alone
<1> DEFINE Mints == /\ form'.key = minted + 1 /\ minted' = minted + 1 /\ form'.key \in FormKeys
                    /\ FailureOf(form.kind) # "none"
                    /\ form.kind \in Loose \/ (form.kind \in Held /\ FailureOf(form.kind) # "network")
           Keeps == /\ form'.key = form.key /\ minted' = minted /\ failure' = failure
                    /\ form.kind \in Held => FailureOf(form.kind) = "none"
<1>6. /\ form.kind \notin {"activate", "remove"}
      /\ form'.kind = form.kind /\ form'.save = form.save /\ form' # NoForm
      /\ Mints \/ Keeps
      /\ retyped \subseteq retyped'
      /\ \/ form.save \in retyped'
         \/ /\ \A c \in Posts : c.save # form.save
            /\ FailureOf(form.kind) = "none" /\ form.save \notin told
  BY Typing
<1>7. ASSUME form.kind \in Held
      PROVE  /\ FailureOf(form.kind) = "none" => Unused(form.key)
             /\ FailureOf(form.kind) \notin {"none", "network"} => Spent(form.key)
  BY <1>5, <1>7 DEF HeldInv
<1>8. Unused(minted + 1) \/ minted + 1 \notin FormKeys
  BY FreshIsUnused
<1>9. Steady
  <2>1. \A n \in FormKeys : Live(n)' => Live(n) \/ (form' # NoForm /\ form'.key = n)
    BY <1>2 DEF Live
  <2>2. minted' \in minted..(minted + 1) /\ saves' \in saves..(saves + 1)
    BY <1>2, <1>6
  <2> QED BY <1>2, <1>4, <1>6, <2>1, <2>2 DEF Steady, Marks
<1>10. FormMoves
  <2>1. CASE Mints
    <3>1. ASSUME NEW k \in FormKeys, k = form.key PROVE ~Live(k)' \/ Excused(form.kind, form.save)'
      <4>1. CASE form.kind \in Loose
        BY <1>6, <2>1, <4>1 DEF Excused
      <4>2. CASE form.kind \in Held /\ FailureOf(form.kind) # "network"
        <5>1. Spent(k)
          BY <1>7, <2>1, <3>1, <4>2
        <5> QED BY <1>2, <1>3, <2>1, <3>1, <5>1 DEF Spent, Live, Undecided
      <4> QED BY <2>1, <4>1, <4>2
    <3>2. Rekeys
      BY <1>2, <1>6, <2>1, <3>1 DEF Rekeys
    <3> QED BY <3>2 DEF FormMoves
  <2>2. CASE Keeps
    <3>1. Retypes
      BY <1>2, <1>4, <1>6, <1>7, <2>2 DEF Retypes
    <3> QED BY <3>1 DEF FormMoves
  <2> QED BY <1>6, <2>1, <2>2
<1>11. MarkInv' /\ OnceInv'
  BY <1>1, <1>9, <1>10, Steps
<1>12. CountInv'
  <2>1. retyped' \subseteq retyped \cup {form.save}
    BY DEF Type
  <2>2. told' \subseteq 1..saves' /\ retyped' \subseteq 1..saves'
    BY <1>2, <1>3, <2>1 DEF CountInv
  <2> QED BY <1>2, <1>4, <2>2 DEF CountInv
<1>13. AloneInv'
  BY <1>2, <1>5, <1>6 DEF AloneInv, Alone
<1>14. HeldInv'
  <2> SUFFICES ASSUME form.kind \in Held PROVE HeldInv'
    BY <1>6 DEF HeldInv
  <2>1. CASE Mints
    <3>1. Unused(form'.key)
      BY <1>8, <2>1
    <3>2. Unused(form.key)' /\ Spent(form.key)'
      BY <1>2, <3>1 DEF Unused, Spent, Posts
    <3> QED BY <3>2 DEF HeldInv
  <2>2. CASE Keeps
    <3>1. Unused(form.key)
      BY <1>7, <2>2
    <3>2. Unused(form.key)' /\ Spent(form.key)'
      BY <1>2, <2>2, <3>1 DEF Unused, Spent, Posts
    <3> QED BY <3>2 DEF HeldInv
  <2> QED BY <1>6, <2>1, <2>2
<1>15. HomeInv'
  BY <1>2, <1>6 DEF HomeInv
<1>16. NameInv'
  <2> SUFFICES ASSUME desk = "name" PROVE NameInv'
    BY <1>2 DEF NameInv
  <2>1. form.save \notin retyped' =>
          /\ \A c \in Posts : c.save # form.save
          /\ \A k \in Recorded : decided[k].save # form.save
    BY <1>2, <1>6 DEF NameInv
  <2>2. form.save \notin retyped' => \A x \in Stated : x.save # form.save
    BY <2>1, MarkShape DEF Stated
  <2>3. Marks' \subseteq Stated \cup {Mark(form, form.key)'} /\ Mark(form, form.key)'.save = form.save
    BY <1>4, <1>6 DEF Marks, FormMarks, Mark
  <2>4. \A x, y \in Stated : x.save = y.save /\ x.save \notin retyped => x.typed = y.typed
    BY DEF NameInv, Marks
  <2>5. \A x, y \in Marks' : x.save = y.save /\ x.save \notin retyped' => x.typed = y.typed
    BY <1>6, <2>2, <2>3, <2>4
  <2>6. form.save \notin retyped' => \A c \in calls' : c.save # form'.save
    BY <1>2, <1>6, <2>1 DEF Posts
  <2>7. form.save \notin retyped' => \A n \in Recorded' : decided'[n].save # form'.save
    BY <1>2, <1>4, <1>6, <2>1
  <2> QED BY <1>6, <2>5, <2>6, <2>7 DEF NameInv
<1>17. SwitchInv'
  <2>1. desk # "switch"
    BY <1>2, <1>3, <1>6, Screens
  <2> QED BY <1>2, <2>1 DEF SwitchInv
<1>18. WorthInv' /\ ToldIsDone'
  BY <1>2, <1>4 DEF WorthInv, ToldIsDone, Awaiting
<1> QED BY <1>1, <1>11, <1>12, <1>13, <1>14, <1>15, <1>16, <1>17, <1>18

LEMMA SendKeeps ==
  ASSUME FormDeskAssumption, FormInv, Send
  PROVE  FormInv'
<1> USE DEF FormInv
<1>1. FormTypeOK'
  BY SendTyped
<1>2. PICK call \in Calls :
        /\ calls' = calls \cup {call} /\ wire' = wire \cup {call}
        /\ call.id = sends + 1 /\ call.kind = form.kind /\ call.key = form.key /\ call.typed = form.typed
        /\ call.save = form.save /\ call.home /\ call.st = "out"
  <2>1. PICK more \in BOOLEAN :
              LET call == [id |-> sends + 1, kind |-> form.kind, key |-> form.key,
                           typed |-> form.typed, save |-> form.save, more |-> more,
                           home |-> TRUE, st |-> "out"]
              IN  calls' = calls \cup {call} /\ wire' = wire \cup {call} /\ call \in Calls
    BY SendTyped
  <2> QED BY <2>1
<1>3. /\ UNCHANGED <<desk, form, rereading, decided, reading, shown, minted, saves, told, retyped, misheard, owed>>
      /\ form # NoForm /\ desk \in Desks /\ ~Busy(form.kind) /\ sends' = sends + 1 /\ sends \in Nat
      /\ minted \in Nat /\ saves \in Nat
  BY DEF Send, ghosts, FormTypeOK
<1>4. form \in OpenForms /\ Mark(form, form.key) \in Marks /\ Mark(call, call.key) = Mark(form, form.key)
  BY <1>2, <1>3, MarkShape DEF Marks, Mark
<1>5. Posts' = Posts \cup {call} /\ Recorded' = Recorded /\ Applied' = Applied
  BY <1>2, <1>3 DEF Posts, Recorded, Applied
<1>6. Stated' \subseteq Marks
  BY <1>3, <1>4, <1>5 DEF Stated, Marks, Mark
<1>7. Steady
  <2>1. \A n \in FormKeys : Live(n)' => Live(n) \/ (form' # NoForm /\ form'.key = n)
    BY <1>2, <1>3 DEF Live
  <2> QED BY <1>3, <1>6, <2>1 DEF Steady
<1>8. MarkInv' /\ OnceInv'
  BY <1>1, <1>3, <1>7, Steps DEF FormMoves
<1>9. CountInv'
  <2>1. \A c \in Posts : c.id \in 1..sends
    BY DEF CountInv
  <2>2. \A c \in Posts : c.id \in 1..sends' /\ c.id # call.id
    BY <1>2, <1>3, <2>1
  <2>3. call.id \in 1..sends'
    BY <1>2, <1>3
  <2> QED BY <1>3, <1>5, <2>2, <2>3 DEF CountInv
<1>10. /\ form.kind \in Alone => calls = {}
       /\ desk \in {"name", "switch"} => calls = {}
       /\ desk \in HomeDesks => \A c \in calls : ~AtHome(c)
  BY <1>3, Idle
<1>11. AloneInv'
  BY <1>2, <1>3, <1>10 DEF AloneInv
<1>12. HeldInv'
  <2> SUFFICES ASSUME form.kind \in Held PROVE Busy(form.kind)'
    BY <1>3 DEF HeldInv
  <2>1. desk # "entry" /\ form.kind \notin {"edit", "delete", "category"}
    BY <1>4, Screens, <1>3, KindsOfForm DEF Held, Alone
  <2>2. Pending({form.kind})'
    BY <1>2, <1>3, <2>1 DEF Pending
  <2> QED BY <1>3, <2>1, <2>2 DEF Busy
<1>13. HomeInv'
  <2>1. \A c \in calls' : AtHome(c) /\ desk \in HomeDesks => c = call
    BY <1>2, <1>10
  <2>2. desk \in HomeDesks => \A c \in calls' : c.save = form.save => c.home
    BY <1>2, <1>3 DEF HomeInv
  <2>3. desk \in {"name", "switch"} => \A c, d \in calls' : c = d
    BY <1>2, <1>10
  <2>4. desk \in {"entry", "name"} => \A c \in calls' : c.st = "out"
    BY <1>2 DEF HomeInv
  <2> QED BY <1>2, <1>3, <2>1, <2>2, <2>3, <2>4 DEF HomeInv
<1>14. NameInv'
  <2> SUFFICES ASSUME desk = "name" PROVE NameInv'
    BY <1>3 DEF NameInv
  <2>1. Marks' \subseteq Marks
    BY <1>3, <1>6 DEF Marks, FormMarks, Mark
  <2>2. calls' = {call} /\ call \in Posts'
    BY <1>2, <1>5, <1>10
  <2> QED BY <1>2, <1>3, <2>1, <2>2 DEF NameInv
<1>15. SwitchInv'
  BY <1>2, <1>3, <1>10 DEF SwitchInv
<1>16. WorthInv' /\ ToldIsDone'
  <2>1. Awaiting' = Awaiting
    BY <1>2 DEF Awaiting
  <2> QED BY <1>3, <1>5, <2>1 DEF WorthInv, ToldIsDone
<1> QED BY <1>1, <1>8, <1>9, <1>11, <1>12, <1>13, <1>14, <1>15, <1>16

LEMMA CloseKeeps ==
  ASSUME FormDeskAssumption, FormInv, Close
  PROVE  FormInv'
<1> USE DEF FormInv
<1>1. FormTypeOK'
  BY CloseTyped
<1>2. /\ UNCHANGED <<desk, wire, decided, shown, minted, saves, sends, told, retyped, misheard>>
      /\ form' = NoForm /\ calls' = {LeavesHome(c) : c \in calls}
      /\ minted \in Nat /\ saves \in Nat
  BY DEF Close, served, FormTypeOK
<1>3. \A c \in calls : Same(LeavesHome(c), c) /\ LeavesHome(c).home = FALSE /\ LeavesHome(c).st = c.st
  <2> SUFFICES ASSUME NEW c \in calls
               PROVE  Same(LeavesHome(c), c) /\ LeavesHome(c).home = FALSE /\ LeavesHome(c).st = c.st
    OBVIOUS
  <2>1. c \in Calls
    BY DEF FormTypeOK
  <2> QED BY <2>1, LeavesSame DEF LeavesHome, Calls
<1>4. \A d \in calls' : \E e \in calls : Same(d, e)
  BY <1>2, <1>3
<1>5. Steady /\ Stated' \subseteq Stated /\ \A d \in Posts' : \E e \in Posts : Same(d, e)
  BY <1>2, <1>4, AnswersAreSteady
<1>6. MarkInv' /\ OnceInv'
  BY <1>1, <1>2, <1>5, Steps DEF FormMoves
<1>7. CountInv'
  <2>1. told' \subseteq 1..saves /\ saves <= saves' /\ saves' \in Nat
    BY <1>2 DEF CountInv
  <2> QED BY <1>2, <1>5, <2>1, CountsKeep DEF CountInv
<1>8. AloneInv' /\ HeldInv' /\ SwitchInv'
  BY <1>2 DEF AloneInv, HeldInv, SwitchInv, Alone, Held, NoForm
<1>9. HomeInv'
  <2>1. \A c \in calls' : ~AtHome(c)
    BY <1>2, <1>3 DEF AtHome
  <2>2. desk \in {"name", "switch"} => \A c, d \in calls' : c = d
    BY <1>2 DEF HomeInv
  <2>3. desk \in {"entry", "name"} => \A c \in calls' : c.st = "out"
    BY <1>2, <1>3 DEF HomeInv
  <2> QED BY <1>2, <2>1, <2>2, <2>3 DEF HomeInv
<1>10. NameInv'
  <2>1. Marks' \subseteq Marks
    BY <1>2, <1>5 DEF Marks, FormMarks
  <2> QED BY <1>2, <2>1 DEF NameInv
<1>11. Awaiting # {} => Awaiting' # {}
  BY <1>2, <1>3 DEF Awaiting
<1>12. Applied' = Applied
  BY <1>2 DEF Applied
<1>13. WorthInv'
  <2> SUFFICES ASSUME desk = "worth" PROVE WorthInv'
    BY <1>2 DEF WorthInv
  <2>1. CASE sent
    <3>1. reading' = Asked /\ rereading' = TRUE /\ owed' \subseteq owed \cup Applied
      BY <2>1 DEF Close, RereadsSeen
    <3> QED BY <1>12, <3>1 DEF WorthInv, Asked
  <2>2. CASE ~sent
    <3>1. UNCHANGED <<reading, rereading, owed>>
      BY <2>2 DEF Close
    <3> QED BY <1>2, <1>11, <1>12, <3>1 DEF WorthInv
  <2> QED BY <2>1, <2>2
<1>14. ToldIsDone'
  BY <1>2, <1>12 DEF ToldIsDone
<1> QED BY <1>1, <1>6, <1>7, <1>8, <1>9, <1>10, <1>13, <1>14

LEMMA ServeKeeps ==
  ASSUME FormDeskAssumption, FormInv, NEW c \in wire, Serve(c)
  PROVE  FormInv'
<1> USE DEF FormInv
<1>1. FormTypeOK'
  BY ServeTyped
<1>2. PICK st \in {"applied", "refused"} :
        decided' = [decided EXCEPT ![c.key] =
                      [st |-> st, typed |-> c.typed, save |-> c.save, kind |-> c.kind]]
  BY ServeTyped
<1>3. /\ UNCHANGED <<desk, form, failure, calls, wire, reading, shown, rereading,
                     minted, saves, sends, told, retyped, misheard, owed>>
      /\ decided[c.key] = Undecided /\ c \in Posts /\ c \in Calls /\ c.key \in FormKeys
      /\ minted \in Nat /\ saves \in Nat
  BY DEF Serve, desked, ghosts, Posts, FormTypeOK, Calls
<1>4. /\ decided'[c.key].typed = c.typed /\ decided'[c.key].save = c.save /\ decided'[c.key].kind = c.kind
      /\ decided'[c.key].st \in {"applied", "refused"}
      /\ \A k \in FormKeys : k # c.key => decided'[k] = decided[k]
  BY <1>2, <1>3 DEF FormTypeOK
<1>5. Recorded' = Recorded \cup {c.key} /\ Posts' = Posts /\ Applied \subseteq Applied'
      /\ c.key \notin Recorded /\ c.key \notin Applied
  BY <1>3, <1>4 DEF Recorded, Posts, Applied, Undecided
<1>6. Stated' \subseteq Stated
  <2>1. Mark(decided[c.key], c.key)' = Mark(c, c.key)
    BY <1>3, <1>4 DEF Mark
  <2>2. \A k \in Recorded : Mark(decided[k], k)' = Mark(decided[k], k)
    BY <1>3, <1>4, <1>5 DEF Mark, Recorded
  <2>3. {Mark(d, d.key) : d \in Posts}' = {Mark(d, d.key) : d \in Posts}
    BY <1>5 DEF Mark
  <2>4. \A k \in Recorded' : Mark(decided[k], k)' \in Stated
    BY <1>3, <1>5, <2>1, <2>2 DEF Stated
  <2>5. {Mark(decided[k], k) : k \in Recorded}' \subseteq Stated
    BY <2>4
  <2> QED BY <2>3, <2>5 DEF Stated
<1>7. Steady
  <2>1. \A n \in FormKeys : Live(n)' => Live(n) \/ (form' # NoForm /\ form'.key = n)
    BY <1>3, <1>4 DEF Live, Undecided
  <2>2. \A n \in FormKeys : decided[n].st = "refused" => decided'[n].st = "refused"
    BY <1>3, <1>4 DEF Undecided
  <2> QED BY <1>3, <1>6, <2>1, <2>2 DEF Steady, Marks
<1>8. MarkInv' /\ OnceInv'
  BY <1>1, <1>3, <1>7, Steps DEF FormMoves
<1>9. CountInv'
  <2>1. \A k \in FormKeys : decided'[k] = Undecided \/ decided'[k].st \in {"applied", "refused"}
    BY <1>4 DEF CountInv
  <2>2. misheard \subseteq Applied'
    BY <1>3, <1>4 DEF CountInv, Applied, Undecided
  <2> QED BY <1>3, <1>5, <2>1, <2>2 DEF CountInv
<1>10. AloneInv' /\ HomeInv' /\ SwitchInv'
  BY <1>3 DEF AloneInv, HomeInv, SwitchInv
<1>11. HeldInv'
  <2> SUFFICES ASSUME form.kind \in Held, ~Busy(form.kind)
               PROVE  HeldInv'
    BY <1>3 DEF HeldInv, Busy, Pending
  <2>1. form # NoForm
    BY DEF Held, NoForm
  <2>2. CASE c.key = form.key
    <3>1. ~Unused(form.key) /\ ~Spent(form.key)
      BY <1>3, <2>2 DEF Unused, Spent, Undecided, CountInv, Applied
    <3> QED BY <1>3, <3>1 DEF HeldInv, FailureOf
  <2>3. CASE c.key # form.key
    <3>1. form.key \in FormKeys
      BY <2>1 DEF FormTypeOK, OpenForms
    <3>2. (Unused(form.key) => Unused(form.key)') /\ (Spent(form.key) => Spent(form.key)')
      BY <1>3, <1>4, <1>5, <2>3, <3>1 DEF Unused, Spent
    <3> QED BY <1>3, <3>2 DEF HeldInv, FailureOf
  <2> QED BY <2>2, <2>3
<1>12. NameInv'
  <2> SUFFICES ASSUME desk = "name" PROVE NameInv'
    BY <1>3 DEF NameInv
  <2>1. Marks' \subseteq Marks
    BY <1>3, <1>6 DEF Marks, FormMarks, Mark
  <2>2. ASSUME form # NoForm, form.save \notin retyped, NEW k \in Recorded', decided'[k].save = form.save
        PROVE  \/ \E d \in Posts : d.save = form.save
               \/ FailureOf(form.kind) # "none"
               \/ form.save \in told
    <3>1. CASE k = c.key
      BY <1>3, <1>4, <2>2, <3>1
    <3>2. CASE k # c.key
      <4>1. k \in Recorded /\ decided[k].save = form.save
        BY <1>4, <1>5, <2>2, <3>2 DEF Recorded
      <4> QED BY <2>2, <4>1 DEF NameInv
    <3> QED BY <3>1, <3>2
  <2> QED BY <1>3, <1>5, <2>1, <2>2 DEF NameInv, FailureOf
<1>13. WorthInv'
  BY <1>3, <1>5 DEF WorthInv, Awaiting
<1>14. ToldIsDone'
  <2>1. \A k \in Applied : k \in FormKeys /\ decided'[k] = decided[k]
    BY <1>4, <1>5 DEF Applied
  <2> QED BY <1>3, <1>5, <2>1 DEF ToldIsDone
<1> QED BY <1>1, <1>8, <1>9, <1>10, <1>11, <1>12, <1>13, <1>14

LEMMA ReadKeeps ==
  ASSUME FormDeskAssumption, FormInv, FetchReads
  PROVE  FormInv'
<1> USE DEF FormInv
<1>1. /\ UNCHANGED <<desk, form, failure, sent, rereading, calls, wire, decided, shown, minted, saves, sends,
                     told, retyped, misheard, owed>>
      /\ reading'.st = "read" /\ (desk = "worth" => reading'.saw = Applied)
      /\ reading' \in [st : {"none", "asked", "read"}, saw : SUBSET FormKeys]
      /\ reading.st = "asked"
  BY DEF FetchReads, desked, served, ghosts, Applied
<1>2. FormTypeOK' /\ CountInv' /\ AloneInv' /\ HomeInv' /\ SwitchInv' /\ ToldIsDone'
  BY <1>1, DeskStays DEF FormTypeOK, CountInv, AloneInv, HomeInv, SwitchInv, ToldIsDone, Posts, Applied
<1>3. Posts' = Posts /\ Marks' = Marks /\ Recorded' = Recorded /\ Applied' = Applied
  BY <1>1 DEF Posts, Marks, Stated, FormMarks, Mark, Recorded, Applied
<1>4. MarkInv' /\ OnceInv'
  <2>1. \A k : Live(k)' = Live(k)
    BY <1>1 DEF Live
  <2>2. \A kind, save : Excused(kind, save)' = Excused(kind, save)
    BY <1>1 DEF Excused
  <2>3. MarkInv'
    BY <1>1, <1>3 DEF MarkInv
  <2>4. OnceInv'
    BY <1>1, <1>3, <2>1, <2>2 DEF OnceInv
  <2> QED BY <2>3, <2>4
<1>5. HeldInv' /\ NameInv'
  <2>1. HeldInv'
    BY <1>1, <1>3 DEF HeldInv, Busy, Pending, FailureOf, Unused, Spent
  <2>2. NameInv'
    BY <1>1, <1>3 DEF NameInv, FailureOf
  <2> QED BY <2>1, <2>2
<1>6. WorthInv'
  BY <1>1, <1>3 DEF WorthInv, Awaiting
<1> QED BY <1>2, <1>4, <1>5, <1>6

LEMMA EndedKeeps ==
  ASSUME FormDeskAssumption, FormInv, NEW failed \in BOOLEAN, Ended(failed),
         reading # NotAsked,
         (failed /\ shown' = shown) \/ (~failed /\ reading.st = "read" /\ shown' = reading.saw)
  PROVE  FormInv'
<1> USE DEF FormInv
<1>1. FormTypeOK' /\ calls' = {c \in calls : c.st = "out"} /\ form' \in {form, NoForm} /\ desk' = desk
  <2>1. shown' \subseteq FormKeys
    BY DEF FormTypeOK
  <2> QED BY <2>1, EndedShape
<1>2. /\ UNCHANGED <<desk, failure, sent, wire, decided, minted, saves, sends, told, retyped, misheard>>
      /\ rereading' = FALSE /\ reading' = NotAsked /\ owed' = IF failed THEN {} ELSE owed
      /\ minted \in Nat /\ saves \in Nat
  BY DEF Ended, served, FormTypeOK
<1>3. \A d \in calls' : \E e \in calls : Same(d, e)
  BY <1>1 DEF Same
<1>4. Steady /\ Stated' \subseteq Stated /\ \A d \in Posts' : \E e \in Posts : Same(d, e)
  BY <1>2, <1>3, AnswersAreSteady
<1>5. MarkInv' /\ OnceInv'
  BY <1>1, <1>4, Steps DEF FormMoves
<1>6. CountInv'
  <2>1. told' \subseteq 1..saves /\ saves <= saves' /\ saves' \in Nat
    BY <1>2 DEF CountInv
  <2> QED BY <1>2, <1>4, <2>1, CountsKeep DEF CountInv
<1>7. form' # form => form' = NoForm /\ \E c \in calls : c.st # "out" /\ c.home /\ c.kind \in {"activate", "newAccount"}
  BY <1>1 DEF Ended, Awaiting
<1>8. NoForm.kind = "none" /\ "none" \notin Alone /\ "none" \notin Held
  BY DEF NoForm, Alone, Held
<1>9. AloneInv'
  BY <1>1, <1>8 DEF AloneInv
<1>10. HeldInv'
  <2> SUFFICES ASSUME form' = form, form.kind \in Held PROVE HeldInv'
    BY <1>1, <1>8 DEF HeldInv
  <2>1. calls' = calls
    BY <1>1 DEF AloneInv, Alone
  <2> QED BY <1>2, <2>1 DEF HeldInv, Busy, Pending, FailureOf, Unused, Spent, Posts
<1>11. HomeInv'
  <2>1. CASE form' = form
    BY <1>1, <2>1 DEF HomeInv
  <2>2. CASE form' # form
    <3>1. form' = NoForm
      BY <1>1, <2>2
    <3>2. desk \in HomeDesks => \A c \in calls' : ~AtHome(c)
      <4> SUFFICES ASSUME desk \in HomeDesks, NEW c \in calls', AtHome(c) PROVE FALSE
        BY <1>1
      <4>1. PICK d \in calls : d.st # "out" /\ d.home /\ d.kind \in {"activate", "newAccount"}
        BY <1>7, <2>2
      <4>2. AtHome(d) /\ c \in calls /\ c.st = "out"
        BY <1>1, <4>1 DEF AtHome
      <4> QED BY <4>1, <4>2 DEF HomeInv
    <3> QED BY <1>1, <3>1, <3>2 DEF HomeInv
  <2> QED BY <2>1, <2>2
<1>12. NameInv'
  <2> SUFFICES ASSUME desk = "name" PROVE NameInv'
    BY <1>1 DEF NameInv
  <2>1. calls' = calls
    BY <1>1 DEF HomeInv
  <2>2. Marks' \subseteq Marks
    BY <1>1, <1>4 DEF Marks, FormMarks, Mark
  <2>3. Posts' = Posts /\ Recorded' = Recorded
    BY <1>2, <2>1 DEF Posts, Recorded
  <2> QED BY <1>1, <1>2, <2>1, <2>2, <2>3 DEF NameInv, FailureOf
<1>13. SwitchInv'
  BY <1>1 DEF SwitchInv
<1>14. Applied' = Applied
  BY <1>2 DEF Applied
<1>15. WorthInv'
  BY <1>1, <1>2, <1>14 DEF WorthInv, NotAsked
<1>16. ToldIsDone'
  BY <1>2, <1>14 DEF ToldIsDone
<1> QED BY <1>1, <1>5, <1>6, <1>9, <1>10, <1>11, <1>12, <1>13, <1>15, <1>16

(* Whatever fails but a request that was lost leaves a key that writes no   *)
(* more, where the form relies on that.                                     *)
LEMMA FailsKeeps ==
  ASSUME FormDeskAssumption, FormInv, NEW c \in calls, NEW kind \in Kinds, Fails(c, kind),
         wire' \subseteq wire,
         \A w \in wire : w.save # c.save => w \in wire',
         misheard \subseteq misheard', misheard' \subseteq Applied,
         kind # "network" /\ (c.kind \in Held \cup {"activate"} \/ (c.kind = "rename" /\ c.save \notin retyped)) =>
           \/ decided[c.key].st = "refused"
           \/ c.key \in misheard'
           \/ (decided[c.key] = Undecided /\ \A w \in wire' : w.key # c.key)
  PROVE  FormInv'
<1> USE DEF FormInv
<1>1. /\ UNCHANGED <<desk, rereading, decided, shown, saves, sends, told, retyped, owed>>
      /\ misheard \subseteq misheard' /\ misheard' \subseteq FormKeys
      /\ c.st = "out" /\ c \in Calls /\ c \in Posts /\ minted \in Nat /\ saves \in Nat
      /\ c.kind \in On(desk) /\ c.key \in FormKeys /\ desk \in Desks
  BY DEF Fails, ghosts, Posts, FormTypeOK, Calls, Applied
<1> DEFINE Keeps == form' = form /\ minted' = minted /\ ~(RemintsOnFailure(c, kind) /\ c.home)
           Gets == /\ form # NoForm /\ c.save = form.save /\ c.kind \in {"rename", "activate"} /\ kind # "network"
                   /\ form' = [form EXCEPT !.key = minted + 1] /\ minted' = minted + 1
<1>2. /\ \A d \in calls' : \E e \in calls : Same(d, e)
      /\ FormTypeOK'
      /\ Keeps \/ Gets
  BY <1>1, FailsShape
<1>3. minted' \in minted..(minted + 1) /\ saves' \in saves..(saves + 1)
  BY <1>1, <1>2
<1>4. Steady /\ Stated' \subseteq Stated /\ \A d \in Posts' : \E e \in Posts : Same(d, e)
  BY <1>1, <1>2, <1>3, AnswersAreSteady
<1>5. desk # "sweep" => calls' = calls \ {c}
  BY DEF Fails
<1>6. ASSUME Gets
      PROVE  /\ form'.key = minted + 1 /\ form'.save = form.save /\ form'.kind = form.kind
             /\ form'.typed = form.typed /\ form' # NoForm /\ form.kind = c.kind
             /\ desk \in {"name", "switch"}
  <2>1. form \in OpenForms /\ form.kind = c.kind /\ "none" \notin On(desk)
    BY <1>1, <1>6, Belongs, KindsOfForm, Screens
  <2>2. /\ form'.key = minted + 1 /\ form'.save = form.save /\ form'.kind = form.kind
        /\ form'.typed = form.typed
    BY <1>6, <2>1 DEF OpenForms
  <2>3. form' # NoForm
    BY <1>1, <2>1, <2>2 DEF NoForm
  <2>4. desk \in {"name", "switch"}
    BY <1>1, <1>6, Screens
  <2> QED BY <2>1, <2>2, <2>3, <2>4
<1>7. ASSUME Gets, NEW k \in FormKeys, k = form.key
      PROVE  ~Live(k)' \/ Excused(form.kind, form.save)'
  <2>1. /\ c.kind = form.kind /\ form'.key = minted + 1 /\ desk \in {"name", "switch"}
        /\ form'.kind = form.kind /\ form'.save = form.save
    BY <1>6, <1>7
  <2>2. k # minted + 1
    <3>1. Mark(form, form.key) \in Marks
      BY <1>7, MarkShape DEF Marks
    <3>2. form.key \in 1..minted
      BY <3>1, MarkShape DEF MarkInv
    <3> QED BY <1>1, <1>7, <3>2
  <2>3. CASE c.kind = "rename" /\ c.save \in retyped
    BY <1>1, <1>7, <2>1, <2>3, FormsMade DEF Excused
  <2>4. CASE c.kind = "activate" \/ c.save \notin retyped
    <3>1. c.key = k
      <4>1. CASE c.kind = "activate"
        <5>1. desk = "switch"
          BY <1>1, <4>1, Screens
        <5> QED BY <1>7, <5>1 DEF SwitchInv
      <4>2. CASE c.kind = "rename"
        <5>1. desk = "name"
          BY <1>1, <4>2, Screens
        <5> QED BY <1>7, <2>4, <4>2, <5>1 DEF NameInv
      <4> QED BY <1>7, <4>1, <4>2
    <3>2. \/ decided[k].st = "refused"
          \/ k \in misheard'
          \/ (decided[k] = Undecided /\ \A w \in wire' : w.key # k)
      BY <1>7, <2>4, <3>1
    <3> QED BY <1>1, <2>1, <2>2, <3>2 DEF Live, Undecided
  <2> QED BY <1>7, <2>3, <2>4
<1>8. FormMoves
  <2>1. CASE Keeps
    BY <2>1 DEF FormMoves
  <2>2. CASE Gets
    <3>1. Rekeys
      BY <1>6, <1>7, <2>2 DEF Rekeys
    <3> QED BY <3>1 DEF FormMoves
  <2> QED BY <1>2, <2>1, <2>2
<1>9. MarkInv' /\ OnceInv'
  BY <1>2, <1>4, <1>8, Steps
<1>10. CountInv'
  <2>1. told' \subseteq 1..saves /\ saves <= saves' /\ saves' \in Nat
    BY <1>1 DEF CountInv
  <2> QED BY <1>1, <1>4, <2>1, CountsKeep
<1>11. form'.kind \in Alone => form' = form /\ desk # "sweep" /\ calls' = calls \ {c} /\ form # NoForm
  <2>1. form'.kind \in Alone => form' = form
    BY <1>2, <1>6 DEF Alone, Held
  <2>2. form'.kind \in Alone => form' # NoForm
    BY DEF Alone, Held, NoForm
  <2>3. form.kind \in Alone /\ form # NoForm => desk # "sweep"
    BY <1>1, KindsOfForm, Screens
  <2> QED BY <1>5, <2>1, <2>2, <2>3
<1>12. AloneInv'
  BY <1>11 DEF AloneInv
<1>13. HeldInv'
  <2> SUFFICES ASSUME form'.kind \in Held
               PROVE  /\ FailureOf(form.kind)' = kind
                      /\ kind # "network" => Spent(form.key)'
    BY DEF HeldInv, Kinds
  <2>1. form' = form /\ form # NoForm /\ c.key = form.key /\ c.kind = form.kind
    BY <1>1, <1>11, Belongs DEF AloneInv, Alone
  <2>2. FailureOf(form.kind)' = kind
    <3>1. desk \notin {"entry", "name", "start", "sweep"}
      BY <1>1, <2>1, Screens DEF Alone
    <3>2. failure' = Failing(SetBy(c.kind), kind)
      BY <3>1 DEF Fails
    <3>3. ReadBy(form.kind) \in SetBy(c.kind) /\ SetBy(c.kind) \subseteq Channels
      BY <2>1 DEF ReadBy, SetBy, Held, Channels
    <3> QED BY <2>1, <3>2, <3>3 DEF FailureOf, Failing
  <2>3. kind # "network" => Spent(form.key)'
    BY <1>1, <2>1 DEF Spent
  <2> QED BY <2>2, <2>3
<1>14. HomeInv'
  <2> SUFFICES ASSUME desk \in HomeDesks PROVE HomeInv'
    BY <1>1 DEF HomeInv, HomeDesks
  <2>1. calls' \subseteq calls
    BY <1>5 DEF HomeDesks
  <2>2. (form' # NoForm <=> form # NoForm) /\ form'.save = form.save
    BY <1>2, <1>6
  <2> QED BY <1>1, <2>1, <2>2 DEF HomeInv
<1>15. NameInv'
  <2> SUFFICES ASSUME desk = "name" PROVE NameInv'
    BY <1>1 DEF NameInv
  <2>1. calls' = {}
    BY <1>5 DEF HomeInv
  <2>2. \A x, y \in Marks' : x.save = y.save /\ x.save \notin retyped' => x.typed = y.typed
    <3>1. ASSUME NEW x \in Marks' PROVE \E y \in Marks : y.save = x.save /\ y.typed = x.typed
      <4>1. CASE x \in Stated'
        BY <1>4, <4>1 DEF Marks
      <4>2. CASE x \in FormMarks' /\ form' = form
        BY <4>2 DEF FormMarks, Mark, Marks
      <4>3. CASE x \in FormMarks' /\ Gets
        <5>1. x.save = form'.save /\ x.typed = form'.typed
          BY <4>3 DEF FormMarks, Mark
        <5>2. Mark(form, form.key) \in Marks
          BY <4>3, MarkShape DEF Marks
        <5> QED BY <1>6, <4>3, <5>1, <5>2, MarkShape
      <4> QED BY <1>2, <3>1, <4>1, <4>2, <4>3 DEF Marks
    <3>2. \A x, y \in Marks : x.save = y.save /\ x.save \notin retyped => x.typed = y.typed
      BY DEF NameInv
    <3> QED BY <1>1, <3>1, <3>2
  <2>3. ASSUME form' # NoForm, form'.save \notin retyped', NEW k \in Recorded', decided'[k].save = form'.save
        PROVE  \/ \E d \in Posts' : d.save = form'.save
               \/ FailureOf(form.kind)' # "none"
               \/ form'.save \in told'
    <3>1. form # NoForm /\ form.save = form'.save /\ form.kind = form'.kind
      BY <1>2, <1>6, <2>3
    <3>2. k \in Recorded /\ decided[k].save = form.save /\ form.save \notin retyped
      BY <1>1, <2>3, <3>1 DEF Recorded
    <3>3. form.kind = "rename" /\ c.kind = "rename"
      BY <1>1, <3>1, KindsOfForm, Screens
    <3>4. CASE c.home
      <4>1. failure' = Failing(SetBy(c.kind), kind)
        BY <3>1, <3>4 DEF Fails
      <4>2. ReadBy("rename") \in SetBy("rename") /\ SetBy("rename") \subseteq Channels
        BY DEF ReadBy, SetBy, Channels
      <4> QED BY <3>1, <3>3, <4>1, <4>2 DEF FailureOf, Failing, Kinds
    <3>5. CASE ~c.home
      <4>1. failure' = failure
        BY <3>5 DEF Fails
      <4>2. c.save # form.save
        BY <3>1, <3>5 DEF HomeInv, HomeDesks
      <4>3. CASE \E d \in Posts : d.save = form.save
        <5>1. PICK d \in Posts : d.save = form.save
          BY <4>3
        <5>2. d \in wire
          BY <1>5, <2>1, <4>2, <5>1 DEF Posts
        <5> QED BY <3>1, <4>2, <5>1, <5>2 DEF Posts
      <4>4. CASE FailureOf(form.kind) # "none" \/ form.save \in told
        BY <1>1, <3>1, <4>1, <4>4 DEF FailureOf
      <4> QED BY <3>1, <3>2, <4>3, <4>4 DEF NameInv
    <3> QED BY <3>4, <3>5
  <2> QED BY <2>1, <2>2, <2>3 DEF NameInv
<1>16. SwitchInv'
  <2> SUFFICES ASSUME desk = "switch" PROVE calls' = {}
    BY <1>1 DEF SwitchInv
  <2> QED BY <1>5 DEF HomeInv
<1>17. Applied' = Applied
  BY <1>1 DEF Applied
<1>18. WorthInv'
  <2> SUFFICES ASSUME desk = "worth" PROVE WorthInv'
    BY <1>1 DEF WorthInv
  <2>1. Awaiting' = Awaiting
    BY <1>1, <1>5 DEF Awaiting
  <2>2. reading' \in {reading, Asked}
    BY DEF Fails
  <2> QED BY <1>1, <1>17, <2>1, <2>2 DEF WorthInv, Asked
<1>19. ToldIsDone'
  BY <1>1, <1>17 DEF ToldIsDone
<1> QED BY <1>2, <1>9, <1>10, <1>12, <1>13, <1>14, <1>15, <1>16, <1>18, <1>19

(* A request that goes leaves those of other saves.                         *)
LEMMA OthersStay ==
  ASSUME FormInv, NEW c \in calls
  PROVE  /\ \A w \in wire : w.id = c.id => w.save = c.save
         /\ \A w \in wire : w.key = c.key => w.save = c.save
         /\ c \in Calls /\ c \in Posts /\ c.key \in FormKeys
<1>1. c \in Calls /\ c \in Posts /\ c.key \in FormKeys
  BY DEF FormInv, FormTypeOK, Posts, Calls
<1>2. \A w \in wire : w \in Posts
  BY DEF Posts
<1>3. \A w \in wire : w.id = c.id => w.save = c.save
  BY <1>1, <1>2 DEF FormInv, CountInv
<1>4. \A w \in wire : w.key = c.key => w.save = c.save
  BY <1>1, <1>2, Belongs DEF FormInv
<1> QED BY <1>1, <1>3, <1>4

LEMMA FailuresKeep ==
  ASSUME FormDeskAssumption, FormInv, NEW c \in calls,
         Refused(c) \/ Conflicts(c) \/ Breaks(c) \/ Mishears(c) \/ Lost(c)
  PROVE  FormInv'
<1>1. FormTypeOK /\ MarkInv /\ CountInv /\ NameInv /\ misheard \subseteq Applied
  BY DEF FormInv, CountInv
<1>2. CASE Refused(c)
  <2>1. Fails(c, "other") /\ Gone(c) /\ decided[c.key].st = "refused" /\ misheard' = misheard
    BY <1>1, <1>2, OthersStay, Answers DEF Refused
  <2>2. wire' \subseteq wire /\ \A w \in wire : w.save # c.save => w \in wire'
    BY <2>1, OthersStay DEF Gone
  <2> QED BY <1>1, <2>1, <2>2, FailsKeeps DEF Kinds
<1>3. CASE Conflicts(c)
  <2>1. Fails(c, "conflict") /\ Gone(c) /\ c.key \in Recorded /\ decided[c.key].typed # c.typed
        /\ misheard' = misheard
    BY <1>1, <1>3, OthersStay, Answers DEF Conflicts
  <2>2. wire' \subseteq wire /\ \A w \in wire : w.save # c.save => w \in wire'
    BY <2>1, OthersStay DEF Gone
  <2>3. c.kind \notin Held \cup {"activate"}
    BY <1>1, <2>1, OthersStay, Belongs
  <2>4. c.kind = "rename" => c.save \in retyped
    <3> SUFFICES ASSUME c.kind = "rename", c.save \notin retyped PROVE FALSE
      OBVIOUS
    <3> DEFINE m == Mark(decided[c.key], c.key)
               n == Mark(c, c.key)
    <3>1. m \in Marks /\ n \in Marks
      BY <2>1, OthersStay DEF Marks, Stated
    <3>2. /\ m.save = decided[c.key].save /\ m.typed = decided[c.key].typed
          /\ n.save = c.save /\ n.typed = c.typed
      BY <1>1, MarkShape
    <3>3. decided[c.key].save = c.save
      BY <1>1, <2>1, OthersStay, Belongs
    <3>4. desk = "name"
      BY <1>1, OthersStay, Screens DEF FormTypeOK, Calls
    <3> HIDE DEF m, n
    <3> QED BY <1>1, <2>1, <3>1, <3>2, <3>3, <3>4 DEF NameInv
  <2> QED BY <1>1, <2>1, <2>2, <2>3, <2>4, FailsKeeps DEF Kinds
<1>4. CASE Breaks(c)
  <2>1. PICK kind \in {"other", "budget"} : Fails(c, kind)
    BY <1>4 DEF Breaks
  <2>2. wire' = {w \in wire : w.key # c.key} /\ decided[c.key] = Undecided /\ misheard' = misheard
    BY <1>1, <1>4, OthersStay, Answers DEF Breaks
  <2>3. wire' \subseteq wire /\ \A w \in wire : w.save # c.save => w \in wire'
    BY <2>2, OthersStay
  <2> QED BY <1>1, <2>1, <2>2, <2>3, FailsKeeps DEF Kinds
<1>5. CASE Mishears(c)
  <2>1. Fails(c, "other") /\ Gone(c) /\ misheard' = misheard \cup {c.key} /\ c.key \in Applied
    BY <1>1, <1>5, OthersStay, Answers DEF Mishears
  <2>2. wire' \subseteq wire /\ \A w \in wire : w.save # c.save => w \in wire'
    BY <2>1, OthersStay DEF Gone
  <2> QED BY <1>1, <2>1, <2>2, FailsKeeps DEF Kinds
<1>6. CASE Lost(c)
  <2>1. Fails(c, "network") /\ wire' = wire /\ misheard' = misheard
    BY <1>6 DEF Lost
  <2> QED BY <1>1, <2>1, FailsKeeps DEF Kinds
<1> QED BY <1>2, <1>3, <1>4, <1>5, <1>6

LEMMA SucceedsKeeps ==
  ASSUME FormDeskAssumption, FormInv, NEW c \in calls, Succeeds(c)
  PROVE  FormInv'
<1> USE DEF FormInv
<1>1. /\ UNCHANGED <<desk, rereading, decided, shown, sends, retyped, misheard>>
      /\ c.st = "out" /\ AnswerTo(c) = "applied" /\ c \in Calls /\ c \in Posts /\ c.key \in FormKeys
      /\ c.kind \in On(desk) /\ desk \in Desks /\ minted \in Nat /\ saves \in Nat
      /\ reading' = Asked /\ told' = told \cup {c.save} /\ owed' = owed \cup {c.key}
      /\ wire' = {w \in wire : w.id # c.id}
  BY DEF Succeeds, Posts, FormTypeOK, Calls, Gone
<1>2. /\ \A d \in calls' : \E e \in calls : Same(d, e)
      /\ FormTypeOK'
      /\ \/ form' \in {form, NoForm} /\ UNCHANGED <<minted, saves>>
         \/ desk \in {"entry", "name"} /\ c.home /\ form # NoForm /\ Opens
  BY SucceedsShape
<1>3. minted' \in minted..(minted + 1) /\ saves' \in saves..(saves + 1) /\ wire' \subseteq wire
  BY <1>1, <1>2 DEF Opens
<1>4. Steady /\ Stated' \subseteq Stated /\ \A d \in Posts' : \E e \in Posts : Same(d, e)
  BY <1>1, <1>2, <1>3, AnswersAreSteady
<1>5. MarkInv' /\ OnceInv'
  <2>1. FormMoves
    BY <1>2 DEF FormMoves
  <2> QED BY <1>2, <1>4, <2>1, Steps
<1>6. CountInv'
  <2>1. c.save \in 1..saves
    <3>1. Mark(c, c.key) \in Marks
      BY <1>1 DEF Marks, Stated
    <3> QED BY <3>1, MarkShape DEF MarkInv
  <2>2. told' \subseteq 1..saves
    BY <1>1, <2>1 DEF CountInv
  <2>3. saves' \in Nat /\ saves <= saves'
    BY <1>1, <1>3
  <2> QED BY <1>1, <1>4, <2>2, <2>3, CountsKeep DEF CountInv
<1>7. /\ desk \in {"ledger", "month", "worth"} =>
           /\ form' = NoForm
           /\ calls' = {LeavesHome([d EXCEPT !.st = IF d.id = c.id THEN "won" ELSE @]) : d \in calls}
      /\ desk \in {"entry", "name"} => calls' = calls \ {c}
      /\ desk \in {"sweep", "switch", "start"} => calls' = (calls \ {c}) \cup {[c EXCEPT !.st = "won"]}
  BY SucceedsOn DEF Settled, EntrySaved, NameSaved, Swept, StaysUntilRead
<1>8. form'.kind \notin Alone
  <2>1. form' # NoForm => form'.kind \in On(desk)
    <3>1. form' \in OpenForms' => form'.kind \in On(desk)
      BY <1>1 DEF OpenForms
    <3> QED BY <1>2, <3>1 DEF FormTypeOK
  <2>2. NoForm.kind \notin Alone
    BY DEF NoForm, Alone, Held
  <2>3. desk \in {"ledger", "worth"} => form' = NoForm
    BY <1>7
  <2> QED BY <1>1, <2>1, <2>2, <2>3, Screens
<1>9. AloneInv' /\ HeldInv'
  BY <1>8 DEF AloneInv, HeldInv, Alone
<1> DEFINE won == [c EXCEPT !.st = "won"]
<1>10. /\ won.st = "won" /\ won.home = c.home /\ won.kind = c.kind /\ won.save = c.save /\ won.key = c.key
  BY <1>1 DEF Calls
<1>11. \A d \in calls : d.save # saves + 1
  BY <1>1, FreshIsUnused DEF Posts
<1>12. ASSUME desk \in HomeDesks, c.home
       PROVE  /\ form # NoForm /\ c.save = form.save
              /\ \A d \in calls : AtHome(d) => d = c
  BY <1>1, <1>12 DEF HomeInv, AtHome
<1>13. HomeInv'
  <2> SUFFICES ASSUME desk \in HomeDesks PROVE HomeInv'
    BY <1>1 DEF HomeInv, HomeDesks
  <2>1. CASE desk = "entry"
    <3>1. calls' = calls \ {c} /\ \A d \in calls : d.st = "out"
      BY <1>7, <2>1 DEF HomeInv
    <3>2. CASE c.home
      <4>1. \A d \in calls' : ~AtHome(d)
        BY <1>12, <3>1, <3>2
      <4>2. form' = NoForm \/ form'.save = saves + 1
        BY <2>1, <3>2, <1>2, SucceedsOn DEF EntrySaved, Opens, KeptForAnother, FormTypeOK, OpenForms
      <4> QED BY <1>1, <1>11, <2>1, <3>1, <4>1, <4>2 DEF HomeInv
    <3>3. CASE ~c.home
      <4>1. form' = form
        BY <2>1, <3>3, SucceedsOn DEF EntrySaved
      <4> QED BY <1>1, <2>1, <3>1, <4>1 DEF HomeInv
    <3> QED BY <3>2, <3>3
  <2>2. CASE desk = "name"
    <3>1. calls' = {}
      BY <1>7, <2>2 DEF HomeInv
    <3> QED BY <3>1 DEF HomeInv
  <2>3. CASE desk \in {"switch", "start"}
    <3>1. calls' = (calls \ {c}) \cup {won} /\ form' = IF c.kind = "newBudget" /\ c.home THEN NoForm ELSE form
      BY <2>3, SucceedsOn DEF StaysUntilRead
    <3>2. AtHome(won) <=> c.home /\ c.kind # "newBudget"
      BY <1>10 DEF AtHome
    <3> HIDE DEF won
    <3>3. CASE c.kind = "newBudget" /\ c.home
      <4>1. form' = NoForm /\ \A d \in calls' : ~AtHome(d)
        BY <1>12, <3>1, <3>2, <3>3
      <4>2. desk = "start"
        BY <1>1, <2>3, <3>3, Screens
      <4> QED BY <1>1, <4>1, <4>2 DEF HomeInv
    <3>4. CASE ~(c.kind = "newBudget" /\ c.home)
      <4>1. form' = form
        BY <3>1, <3>4
      <4>2. \A d \in calls' : AtHome(d) => form # NoForm /\ d.save = form.save
        BY <1>10, <1>12, <3>1, <3>2 DEF HomeInv
      <4>3. \A d, e \in calls' : AtHome(d) /\ AtHome(e) => d = e
        BY <1>12, <3>1, <3>2 DEF HomeInv
      <4>4. form # NoForm => \A d \in calls' : d.save = form.save => d.home
        BY <1>10, <3>1 DEF HomeInv
      <4>5. desk = "switch" => \A d, e \in calls' : d = e
        BY <3>1 DEF HomeInv
      <4> QED BY <1>1, <2>3, <4>1, <4>2, <4>3, <4>4, <4>5 DEF HomeInv
    <3> QED BY <3>3, <3>4
  <2> QED BY <2>1, <2>2, <2>3 DEF HomeDesks
<1>14. NameInv'
  <2> SUFFICES ASSUME desk = "name" PROVE NameInv'
    BY <1>1 DEF NameInv
  <2>1. calls' = {} /\ calls = {c}
    BY <1>7 DEF HomeInv
  <2>2. CASE c.home
    <3>1. Opens
      BY <2>2, <1>12, <1>1, SucceedsOn, KeptIsOpened DEF NameSaved, HomeDesks
    <3>2. \A n \in Recorded' : decided'[n].save # form'.save
      BY <1>1, <3>1, FreshIsUnused DEF Recorded, Opens
    <3>3. Marks' \subseteq Stated \cup {Mark(form, form.key)'} /\ Mark(form, form.key)'.save = saves + 1
      BY <1>4, <3>1 DEF Marks, FormMarks, Mark, Opens
    <3>4. \A x \in Stated : x.save # saves + 1
      <4>1. \A x \in Stated : x.save \in 1..saves
        BY DEF MarkInv, Marks
      <4> QED BY <1>1, <4>1
    <3>5. \A x, y \in Stated : x.save = y.save /\ x.save \notin retyped => x.typed = y.typed
      BY DEF NameInv, Marks
    <3>6. \A x, y \in Marks' : x.save = y.save /\ x.save \notin retyped' => x.typed = y.typed
      BY <1>1, <3>3, <3>4, <3>5
    <3> QED BY <2>1, <3>2, <3>6 DEF NameInv
  <2>3. CASE ~c.home
    <3>1. form' = form /\ failure' = failure
      BY <2>3, SucceedsOn DEF NameSaved
    <3>2. Marks' \subseteq Marks
      BY <1>4, <3>1 DEF Marks, FormMarks, Mark
    <3>3. \A d \in Posts : d \notin Posts' => d.save \in told'
      <4> SUFFICES ASSUME NEW d \in Posts, d \notin Posts' PROVE d.save = c.save
        BY <1>1
      <4>1. d = c \/ (d \in wire /\ d.id = c.id)
        BY <1>1, <2>1 DEF Posts
      <4> QED BY <4>1, OthersStay
    <3>4. \A d \in Posts : d.save \in told' \/ \E e \in Posts' : e.save = d.save
      BY <3>3
    <3>5. Recorded' = Recorded /\ told \subseteq told'
      BY <1>1 DEF Recorded
    <3>6. ASSUME form # NoForm, form.save \notin retyped, \E k \in Recorded : decided[k].save = form.save
          PROVE  \/ \E d \in Posts' : d.save = form.save
                 \/ FailureOf(form.kind) # "none"
                 \/ form.save \in told'
      BY <3>4, <3>5, <3>6 DEF NameInv
    <3> QED BY <1>1, <2>1, <3>1, <3>2, <3>5, <3>6 DEF NameInv, FailureOf
  <2> QED BY <2>2, <2>3
<1>15. SwitchInv'
  <2> SUFFICES ASSUME desk = "switch" PROVE SwitchInv'
    BY <1>1 DEF SwitchInv
  <2>1. calls' = {won} /\ calls = {c}
    BY <1>7 DEF HomeInv
  <2>2. form' = form
    <3>1. c.kind # "newBudget"
      BY <1>1, Screens
    <3> QED BY <3>1, SucceedsOn DEF StaysUntilRead
  <2> QED BY <1>10, <2>1, <2>2 DEF SwitchInv
<1>16. Applied' = Applied /\ c.key \in Applied
  BY <1>1, Answers DEF Applied
<1>17. WorthInv'
  <2> SUFFICES ASSUME desk = "worth" PROVE WorthInv'
    BY <1>1 DEF WorthInv
  <2>1. Awaiting' # {}
    <3> DEFINE Took(d) == LeavesHome([d EXCEPT !.st = IF d.id = c.id THEN "won" ELSE @])
    <3>1. Took(c) \in calls'
      BY <1>7
    <3>2. Took(c).st = "won"
      BY <1>1 DEF LeavesHome, Calls
    <3> QED BY <3>1, <3>2 DEF Awaiting
  <2>2. owed' \subseteq Applied'
    BY <1>1, <1>16 DEF WorthInv
  <2> QED BY <1>1, <2>1, <2>2 DEF WorthInv, Asked
<1>18. ToldIsDone'
  <2>1. decided[c.key].save = c.save
    BY <1>1, Answers, Belongs
  <2> QED BY <1>1, <1>16, <2>1 DEF ToldIsDone
<1> QED BY <1>2, <1>5, <1>6, <1>9, <1>13, <1>14, <1>15, <1>17, <1>18

-----------------------------------------------------------------------------
(* Every reachable state. *)

LEMMA FormStarts == ASSUME FormDeskAssumption, FormInit PROVE FormInv
<1>1. FormTypeOK
  <2>1. failure \in [Channels -> Kinds \cup {"none"}]
    BY DEF FormInit, NoFailure
  <2>2. decided \in [FormKeys -> [st : {"none", "applied", "refused"}, typed : Intents,
                                 save : Saves \cup {0}, kind : On(desk) \cup {"none"}]]
    BY DEF FormInit, Undecided, Intents
  <2>3. minted \in 0..MaxKey /\ saves \in 0..MaxSaves /\ sends \in 0..MaxSends
    BY DEF FormInit, FormDeskAssumption
  <2> QED BY <2>1, <2>2, <2>3 DEF FormTypeOK, FormInit, NotAsked
<1>2. form = NoForm /\ Posts = {} /\ Recorded = {} /\ Marks = {} /\ calls = {} /\ told = {}
  BY DEF FormInit, Posts, Recorded, Marks, Stated, FormMarks
<1>3. NoForm.kind = "none"
  BY DEF NoForm
<1>4. MarkInv /\ OnceInv
  BY <1>2 DEF MarkInv, OnceInv
<1>5. CountInv
  BY <1>2 DEF CountInv, FormInit
<1>6. AloneInv /\ HeldInv /\ HomeInv /\ NameInv /\ SwitchInv
  BY <1>2, <1>3 DEF AloneInv, HeldInv, HomeInv, NameInv, SwitchInv, Alone, Held
<1>7. WorthInv /\ ToldIsDone
  BY <1>2 DEF WorthInv, ToldIsDone, FormInit, NotAsked
<1> QED BY <1>1, <1>4, <1>5, <1>6, <1>7 DEF FormInv

LEMMA FormStays ==
  ASSUME FormDeskAssumption, OneAtATime, FormInv, [FormNext]_formVars
  PROVE  FormInv'
<1>1. ASSUME NEW k \in DOMAIN Forms, OpenForm(k) PROVE FormInv'
  BY <1>1, OpenKeeps
<1>2. CASE Type
  BY <1>2, TypeKeeps
<1>3. CASE Send
  BY <1>3, SendKeeps
<1>4. CASE Close
  BY <1>4, CloseKeeps
<1>5. ASSUME NEW c \in wire, Serve(c) PROVE FormInv'
  BY <1>5, ServeKeeps
<1>6. ASSUME NEW c \in calls, Answered(c) PROVE FormInv'
  BY <1>6, SucceedsKeeps, FailuresKeep DEF Answered
<1>7. CASE FetchReads
  BY <1>7, ReadKeeps
<1>8. CASE FetchLands
  <2>1. NotAsked.st # "read"
    BY DEF NotAsked
  <2>2. Ended(FALSE) /\ reading.st = "read" /\ shown' = reading.saw /\ reading # NotAsked
    BY <1>8, <2>1 DEF FetchLands
  <2> QED BY <2>2, EndedKeeps
<1>9. CASE FetchFails
  <2>1. Ended(TRUE) /\ shown' = shown /\ reading # NotAsked
    BY <1>9 DEF FetchFails
  <2> QED BY <2>1, EndedKeeps
<1>10. CASE UNCHANGED formVars
  <2>1. UNCHANGED <<desk, form, failure, sent, rereading, calls, wire, decided, reading, shown,
                    minted, saves, sends, told, retyped, misheard, owed>>
    BY <1>10 DEF formVars, desked, served, ghosts
  <2>2. /\ On(desk)' = On(desk) /\ Posts' = Posts /\ Stated' = Stated /\ Marks' = Marks
        /\ Recorded' = Recorded /\ Applied' = Applied /\ Awaiting' = Awaiting
        /\ \A k : Live(k)' = Live(k) /\ Unused(k)' = Unused(k) /\ Spent(k)' = Spent(k) /\ Busy(k)' = Busy(k)
                  /\ FailureOf(k)' = FailureOf(k)
        /\ \A kind, save : Excused(kind, save)' = Excused(kind, save)
    BY <2>1 DEF Posts, Stated, Marks, FormMarks, Mark, Recorded, Applied, Awaiting, Live, Unused, Spent,
                Busy, Pending, FailureOf, Excused
  <2>3. FormTypeOK' /\ MarkInv' /\ CountInv' /\ OnceInv'
    BY <2>1, <2>2, DeskStays DEF FormInv, FormTypeOK, MarkInv, CountInv, OnceInv
  <2>4. AloneInv' /\ HeldInv' /\ HomeInv'
    BY <2>1, <2>2 DEF FormInv, AloneInv, HeldInv, HomeInv
  <2>5. NameInv' /\ SwitchInv' /\ WorthInv' /\ ToldIsDone'
    BY <2>1, <2>2 DEF FormInv, NameInv, SwitchInv, WorthInv, ToldIsDone
  <2> QED BY <2>3, <2>4, <2>5 DEF FormInv
<1> QED BY <1>1, <1>2, <1>3, <1>4, <1>5, <1>6, <1>7, <1>8, <1>9, <1>10 DEF FormNext

LEMMA FormInvariance == ASSUME OneAtATime PROVE FormSpec => []FormInv
<1>1. FormInit => FormInv
  BY FormDeskAssumption, FormStarts
<1>2. FormInv /\ [FormNext]_formVars => FormInv'
  BY FormDeskAssumption, FormStays
<1> QED BY <1>1, <1>2, PTL DEF FormSpec

(* The type invariant of the forms. *)
THEOREM FormTypesHold == ASSUME OneAtATime PROVE FormSpec => []FormTypeOK
<1>1. FormInv => FormTypeOK
  BY DEF FormInv
<1> QED BY <1>1, FormInvariance, PTL

(* What one opening of a form sends is written once, on every screen that   *)
(* writes, unless the form lets its reader change what was sent and they    *)
(* did.                                                                     *)
THEOREM OneWritePerOpening == ASSUME OneAtATime PROVE FormSpec => []WritesOnce
<1>1. FormInv => WritesOnce
  BY OnceIsWrites DEF FormInv
<1> QED BY <1>1, FormInvariance, PTL

(* Nobody is told of a save the server has not made for that save.          *)
THEOREM WhatIsToldIsDone == ASSUME OneAtATime PROVE FormSpec => []ToldIsDone
<1>1. FormInv => ToldIsDone
  BY DEF FormInv
<1> QED BY <1>1, FormInvariance, PTL

(* A form of the net worth screen opens on figures that hold what was told  *)
(* or walked away from before.                                              *)
THEOREM WorthOpensFresh == ASSUME OneAtATime PROVE FormSpec => FreshActions
<1> DEFINE OnFresh == desk = "worth" /\ form = NoForm /\ form' # NoForm => owed \subseteq shown
<1>1. FormInv /\ [FormNext]_formVars => [OnFresh]_formVars
  <2> SUFFICES ASSUME FormInv, FormNext, desk = "worth", form = NoForm, form' # NoForm
               PROVE  owed \subseteq shown
    OBVIOUS
  <2>0. FormTypeOK /\ HomeInv /\ WorthInv /\ FormDeskAssumption
    BY FormDeskAssumption DEF FormInv
  <2>1. ASSUME NEW k \in DOMAIN Forms, OpenForm(k) PROVE owed \subseteq shown
    <3>1. k \in {"item", "remove"}
      BY <2>0, <2>1, Screens DEF OpenForm, FormTypeOK
    <3>2. ~rereading /\ ~Pending({"item", "remove"})
      BY <2>1, <3>1 DEF OpenForm, MayOpen
    <3>3. \A c \in calls : c.kind \in {"item", "remove"}
      BY <2>0, Screens DEF FormTypeOK, Calls
    <3>4. Awaiting = {}
      BY <3>2, <3>3 DEF Pending, Awaiting
    <3> QED BY <2>0, <3>2, <3>4 DEF WorthInv
  <2>2. ASSUME NEW c \in calls, Succeeds(c) PROVE FALSE
    BY <2>0, <2>2, SucceedsOn DEF Settled
  <2>3. ASSUME NEW c \in calls, NEW kind \in Kinds, Fails(c, kind), wire' \subseteq wire,
               misheard' \subseteq FormKeys
        PROVE  FALSE
    BY <2>0, <2>3, FailsShape
  <2>4. ASSUME NEW c \in calls, Answered(c) PROVE FALSE
    <3>1. c.key \in FormKeys /\ misheard \subseteq FormKeys
      BY <2>0 DEF FormTypeOK, Calls
    <3> QED BY <2>2, <2>3, <2>4, <3>1 DEF Answered, Refused, Conflicts, Breaks, Mishears, Lost, Gone, Kinds
  <2>5. ~Type /\ ~Send /\ ~Close
    BY DEF Type, Send, Close
  <2>6. ~FetchReads /\ ~FetchLands /\ ~FetchFails /\ \A c \in wire : ~Serve(c)
    BY DEF FetchReads, FetchLands, FetchFails, Ended, Serve, desked
  <2> QED BY <2>1, <2>4, <2>5, <2>6 DEF FormNext
<1> QED BY <1>1, FormInvariance, PTL DEF FormSpec, FreshActions

(* An answer closes no form but its own, but on the ledger and the month.   *)
THEOREM AnswersCloseTheirOwn == ASSUME OneAtATime PROVE FormSpec => ClosesItsOwn
<1> DEFINE Own == desk \notin {"ledger", "month"} /\ form # NoForm /\ form' = NoForm
                    /\ told' # told => form.save \in told'
<1>1. FormInv /\ [FormNext]_formVars => [Own]_formVars
  <2> SUFFICES ASSUME FormInv, FormNext, desk \notin {"ledger", "month"}, form # NoForm, form' = NoForm,
                      told' # told
               PROVE  form.save \in told'
    OBVIOUS
  <2>0. FormTypeOK /\ HomeInv /\ AloneInv /\ FormDeskAssumption /\ MarkInv
    BY FormDeskAssumption DEF FormInv
  <2>1. ASSUME NEW c \in calls, Succeeds(c) PROVE form.save \in told'
    <3>1. told' = told \cup {c.save} /\ c.st = "out" /\ c \in Calls /\ desk' = desk
      BY <2>0, <2>1 DEF Succeeds, FormTypeOK
    <3>2. CASE desk \in HomeDesks
      <4>1. c.home
        <5>1. desk = "entry" => c.home
          BY <2>0, <2>1, SucceedsOn DEF EntrySaved
        <5>2. desk = "name" => c.home
          BY <2>0, <2>1, SucceedsOn DEF NameSaved
        <5>3. desk \in {"switch", "start"} => c.home
          BY <2>0, <2>1, SucceedsOn DEF StaysUntilRead
        <5> QED BY <3>2, <5>1, <5>2, <5>3 DEF HomeDesks
      <4>2. c.save = form.save
        BY <2>0, <3>1, <3>2, <4>1 DEF HomeInv, AtHome
      <4> QED BY <3>1, <4>2
    <3>3. CASE desk = "sweep"
      BY <2>0, <2>1, <3>3, SucceedsOn DEF Swept
    <3>4. CASE desk = "worth"
      <4>1. form.kind \in Alone
        BY <2>0, <3>4, KindsOfForm, Screens DEF Alone, Held, FormTypeOK
      <4> QED BY <2>0, <3>1, <4>1 DEF AloneInv
    <3> QED BY <2>0, <2>1, <3>2, <3>3, <3>4, SucceedsOn DEF HomeDesks
  <2>2. ASSUME NEW c \in calls, NEW kind \in Kinds, Fails(c, kind) PROVE FALSE
    BY <2>2 DEF Fails, ghosts
  <2>3. ASSUME NEW c \in calls, Answered(c) PROVE form.save \in told'
    BY <2>1, <2>2, <2>3 DEF Answered, Refused, Conflicts, Breaks, Mishears, Lost, Kinds
  <2>4. ~Type /\ ~Send /\ ~Close /\ \A k \in DOMAIN Forms : ~OpenForm(k)
    BY DEF Type, Send, Close, OpenForm, ghosts
  <2>5. ~FetchReads /\ ~FetchLands /\ ~FetchFails /\ \A c \in wire : ~Serve(c)
    BY DEF FetchReads, FetchLands, FetchFails, Ended, Serve, ghosts
  <2> QED BY <2>3, <2>4, <2>5 DEF FormNext
<1> QED BY <1>1, FormInvariance, PTL DEF FormSpec, ClosesItsOwn
=============================================================================
