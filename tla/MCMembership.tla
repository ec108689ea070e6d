---------------------------- MODULE MCMembership ----------------------------
(* Bounded instances of Membership for TLC. *)
EXTENDS Membership, TLC

Symmetry ==
  Permutations(Users \ {Creator}) \cup Permutations(Invites) \cup
  Permutations(Requests)

=============================================================================
