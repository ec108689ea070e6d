----------------------------- MODULE MCVariants -----------------------------
(* A small instance of Variants: three plans of which two fit the limit.     *)
EXTENDS Variants, TLC

CONSTANTS main, north, south, s1, s2, r1, r2

AllVariants == {main, north, south}
AllSlugs == {s1, s2}
AllRequests == {r1, r2}
Symmetry ==
  Permutations(AllVariants) \cup Permutations(AllSlugs) \cup Permutations(AllRequests)
=============================================================================
