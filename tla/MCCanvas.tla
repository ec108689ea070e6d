------------------------------ MODULE MCCanvas ------------------------------
(* A small instance of Canvas.                                               *)
EXTENDS Canvas, TLC

CONSTANTS b1, b2, d1, d2, s1, e1, t1, t2, r1, r2

AllBlocks == {b1, b2}
AllDays == {d1, d2}
AllRequests == {r1, r2}
AllTexts == {t1, t2}
Symmetry == Permutations(AllBlocks) \cup Permutations(AllDays) \cup Permutations(AllRequests)
=============================================================================
