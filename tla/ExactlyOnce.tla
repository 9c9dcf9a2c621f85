---------------------------- MODULE ExactlyOnce ----------------------------
(***************************************************************************)
(* What an idempotent write promises its callers, with no transaction, no  *)
(* claim and no unique index in sight: of all the attempts that carry one  *)
(* key at most one has an effect, and every result or refusal speaks of    *)
(* that effect.  An error speaks of nothing: a caller that hears one does  *)
(* not know whether its attempt was the one that had the effect.           *)
(***************************************************************************)
CONSTANTS Attempts, Keys, Requests, NoIntent, NoResult

VARIABLES applied,  \* the attempts whose work took effect
          asked,    \* attempt -> what it asked for
          reply     \* attempt -> what its caller heard

vars == <<applied, asked, reply>>

Silence    == [kind |-> "none", of |-> NoResult]
Said(kind) == [kind |-> kind, of |-> NoResult]
Result(r)  == [kind |-> "result", of |-> r]

Init == /\ applied = {}
        /\ asked = [a \in Attempts |-> NoIntent]
        /\ reply = [a \in Attempts |-> Silence]

Pending(a) == asked[a] # NoIntent /\ reply[a] = Silence

\* The attempts that took effect under the key of a.
Done(a) == {b \in applied : asked[b].key = asked[a].key}

Ask(a) == /\ asked[a] = NoIntent
          /\ \E k \in Keys, q \in Requests :
                asked' = [asked EXCEPT ![a] = [key |-> k, request |-> q]]
          /\ UNCHANGED <<applied, reply>>

Execute(a) == /\ Pending(a)
              /\ Done(a) = {}
              /\ applied' = applied \union {a}
              /\ UNCHANGED <<asked, reply>>

Answer(a) == /\ Pending(a)
             /\ \E b \in Done(a) :
                  /\ asked[b].request = asked[a].request
                  /\ reply' = [reply EXCEPT ![a] = Result(b)]
             /\ UNCHANGED <<applied, asked>>

Refuse(a) == /\ Pending(a)
             /\ \E b \in Done(a) : asked[b].request # asked[a].request
             /\ reply' = [reply EXCEPT ![a] = Said("refused")]
             /\ UNCHANGED <<applied, asked>>

\* An error may be reported at any time, even to the attempt that had the effect.
Fail(a) == /\ Pending(a)
           /\ reply' = [reply EXCEPT ![a] = Said("error")]
           /\ UNCHANGED <<applied, asked>>

Next == \E a \in Attempts : Ask(a) \/ Execute(a) \/ Answer(a) \/ Refuse(a) \/ Fail(a)

Spec == Init /\ [][Next]_vars
=============================================================================
