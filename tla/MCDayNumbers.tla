---------------------------- MODULE MCDayNumbers ----------------------------
(* Bounded instances of DayNumbers for TLC. *)
EXTENDS DayNumbers, TLC

Symmetry == Permutations(DayIds) \cup Permutations(Requests)

=============================================================================
