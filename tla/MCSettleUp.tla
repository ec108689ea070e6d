------------------------------ MODULE MCSettleUp ------------------------------
(* Bounded instances of SettleUp for TLC. *)
EXTENDS SettleUp, TLC

Rate(num, den) == [num |-> num, den |-> den]
Split(method, who, given) == [method |-> method, who |-> who, given |-> given]

MCParticipants == 1 .. 4
NoOne == [p \in {} |-> 0]

\* Splits of an expense of 10: every method, uneven remainders, sums that are off,
\* a zero share, and adjustments that cancel or push somebody below zero.
SplitsOf10 ==
  {Split("EQUAL", {1, 2, 3, 4}, NoOne),
   Split("SHARES", {}, 1 :> 1 @@ 2 :> 2 @@ 4 :> 4),
   Split("PERCENT", {}, 1 :> 49 @@ 2 :> 51),
   Split("PERCENT", {}, 1 :> 50 @@ 2 :> 49),
   Split("EXACT", {}, 1 :> 7 @@ 2 :> 3 @@ 3 :> 0),
   Split("EXACT", {}, 1 :> 7 @@ 2 :> 2),
   Split("ADJUSTMENT", {1, 2, 3}, 1 :> 4),
   Split("ADJUSTMENT", {1, 2, 3}, 1 :> 3 @@ 2 :> -3),
   Split("ADJUSTMENT", {1, 2}, 1 :> 14)}

\* Splits of a refund of 10.
SplitsOfRefund ==
  {Split("EQUAL", {1, 2, 3}, NoOne),
   Split("SHARES", {}, 2 :> 2 @@ 3 :> 1),
   Split("EXACT", {}, 1 :> -7 @@ 2 :> -3)}

Expense(total, payments, splits) ==
  [total : {total}, payments : payments, split : splits,
   rate : {Rate(1, 1), Rate(1, 3)}]

MCInputs ==
  Expense(10, {4 :> 10, 2 :> 5 @@ 3 :> 5}, SplitsOf10)
    \cup Expense(-10, {3 :> -10, 1 :> -6 @@ 2 :> -4}, SplitsOfRefund)
=============================================================================
