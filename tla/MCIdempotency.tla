---------------------------- MODULE MCIdempotency ----------------------------
(* Bounded instances of Idempotency for TLC. *)
EXTENDS Idempotency, TLC

Symmetric == Permutations(Calls) \cup Permutations(Bodies)
=============================================================================
