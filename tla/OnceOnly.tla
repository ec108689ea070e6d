------------------------------ MODULE OnceOnly ------------------------------
(***************************************************************************)
(* What Idempotency-Key promises a client: of all the requests sent under  *)
(* one key, at most one changes anything, and an answer that reports       *)
(* success reports a change made for that very body.  The promise is given *)
(* up, openly, for a key in `exposed`, and starts afresh when the key is   *)
(* forgotten.                                                              *)
(***************************************************************************)
EXTENDS Integers, Functions

CONSTANTS Calls, Keys, Bodies, NoAsk

VARIABLES
  ask,      \* the key and body each request carries
  applied,  \* how often each body was applied under each key
  exposed,  \* keys for which the promise is given up
  reply     \* what each request was told

vars == <<ask, applied, exposed, reply>>

Successes == {"created", "unstored", "replayed"}
Refusals == {"conflict", "mismatch", "failed", "lost"}

Unapplied == [b \in Bodies |-> 0]
Untouched(k) == \A b \in Bodies : applied[k][b] = 0

Init ==
  /\ ask = [r \in Calls |-> NoAsk]
  /\ applied = [k \in Keys |-> Unapplied]
  /\ exposed = {}
  /\ reply = [r \in Calls |-> "none"]

Submit(r, k, b) ==
  /\ ask[r] = NoAsk
  /\ ask' = [ask EXCEPT ![r] = [key |-> k, body |-> b]]
  /\ UNCHANGED <<applied, exposed, reply>>

\* The change itself, made once unless the key is exposed.
Apply(k, b) ==
  /\ Untouched(k) \/ k \in exposed
  /\ applied' = [applied EXCEPT ![k][b] = @ + 1]
  /\ exposed' \in {exposed, exposed \cup {k}}
  /\ UNCHANGED <<ask, reply>>

Expose(k) ==
  /\ exposed' = exposed \cup {k}
  /\ UNCHANGED <<ask, applied, reply>>

\* Success is reported only of a change made for the same key and body.
Succeed(r) ==
  /\ ask[r] # NoAsk /\ reply[r] = "none"
  /\ applied[ask[r].key][ask[r].body] > 0
  /\ \E what \in Successes : reply' = [reply EXCEPT ![r] = what]
  /\ UNCHANGED <<ask, applied, exposed>>

Refuse(S) ==
  /\ \A r \in S : ask[r] # NoAsk /\ reply[r] = "none"
  /\ \E what \in Refusals :
       reply' = [r \in Calls |-> IF r \in S THEN what ELSE reply[r]]
  /\ UNCHANGED <<ask, applied, exposed>>

Forget(k) ==
  /\ applied' = [applied EXCEPT ![k] = Unapplied]
  /\ exposed' = exposed \ {k}
  /\ UNCHANGED <<ask, reply>>

Next ==
  \/ \E r \in Calls, k \in Keys, b \in Bodies : Submit(r, k, b)
  \/ \E k \in Keys, b \in Bodies : Apply(k, b)
  \/ \E k \in Keys : Expose(k) \/ Forget(k)
  \/ \E r \in Calls : Succeed(r)
  \/ \E S \in SUBSET Calls : Refuse(S)

Spec == Init /\ [][Next]_vars
=============================================================================
