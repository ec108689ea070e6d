-------------------------------- MODULE Money --------------------------------
(***************************************************************************)
(* Exact integer money: conversion, largest-remainder allocation, and the  *)
(* resolution of a client's split and payments into stored amounts         *)
(* (money/currency.ts, money/allocate.ts, modules/ledger/split.resolver.ts).*)
(*                                                                         *)
(* An allocation, a weighting or a list of amounts is a function from      *)
(* participant ids to integers.  Ids are integers because ties are broken  *)
(* by comparing ids.  A list that names someone twice or names a stranger  *)
(* is refused by assertParticipantsBelong and is not a function at all, so *)
(* it does not appear here.  A rate is a fraction [num, den].              *)
(***************************************************************************)
EXTENDS Integers, FiniteSets, Functions

Abs(n) == IF n < 0 THEN -n ELSE n
Sign(n) == IF n < 0 THEN -1 ELSE 1

\* sumAllocation
Total(f) == SumFunction(f)

\* BigInt division truncates towards zero, divRound rounds half away from it.
Truncated(n, d) == Sign(n) * Sign(d) * (Abs(n) \div Abs(d))
DivRound(n, d) ==
  LET q == Abs(n) \div d IN
  Sign(n) * (IF 2 * (Abs(n) % d) >= d THEN q + 1 ELSE q)

ConvertMinor(amount, rate) == DivRound(amount * rate.num, rate.den)

-----------------------------------------------------------------------------
(* Allocation *)

\* (mutant) the leftover units go to the lowest ids, whatever the remainders.
AllocateLeftoverById(total, weight) ==
  LET S == DOMAIN weight
      W == Total(weight)
      quotient == [p \in S |-> (Abs(total) * weight[p]) \div W]
      leftover == Abs(total) - Total(quotient)
      extra(p) == IF Cardinality({q \in S : q < p}) < leftover THEN 1 ELSE 0
  IN [p \in S |-> Sign(total) * (quotient[p] + extra(p))]

\* (mutant) each part is rounded on its own.
AllocateRounded(total, weight) ==
  [p \in DOMAIN weight |-> DivRound(total * weight[p], Total(weight))]

\* Floor every part of the magnitude, hand out the units left over by largest
\* remainder and then by id, and put the sign back.
Allocate(total, weight) ==
  LET S == DOMAIN weight
      W == Total(weight)
      quotient == [p \in S |-> (Abs(total) * weight[p]) \div W]
      remainder == [p \in S |-> (Abs(total) * weight[p]) % W]
      leftover == Abs(total) - Total(quotient)
      Ahead(p, q) == \/ remainder[p] > remainder[q]
                     \/ remainder[p] = remainder[q] /\ p < q
      place(p) == Cardinality({q \in S : Ahead(q, p)})
      extra(p) == Cardinality({i \in 0 .. leftover - 1 : i % Cardinality(S) = place(p)})
  IN [p \in S |-> Sign(total) * (quotient[p] + extra(p))]

EqualWeights(S) == [p \in S |-> 1]

\* The adjustments come off the total, the rest is split equally, they go back on.
AllocateWithAdjustments(total, S, adjustment) ==
  LET equal == Allocate(total - Total(adjustment), EqualWeights(S)) IN
  [p \in S |-> equal[p] + IF p \in DOMAIN adjustment THEN adjustment[p] ELSE 0]

-----------------------------------------------------------------------------
(* Resolution of a request *)

\* What is stored for each person: expense-currency and base-currency amounts.
Both(native, base) == [native |-> native, base |-> base]

NonZero(amount) == {p \in DOMAIN amount : amount[p] # 0}

\* The base view of exact amounts: the base total allocated by magnitude, then
\* given the sign of each amount.
ExactBase(amount, totalBase) ==
  LET base == Allocate(totalBase, [p \in NonZero(amount) |-> Abs(amount[p])]) IN
  [p \in DOMAIN amount |-> IF amount[p] = 0 THEN 0 ELSE Sign(amount[p]) * base[p]]

\* The base view of adjustments: their total at the ratio of the two totals,
\* allocated by magnitude, then given the sign of each adjustment.
BaseAdjustments(adjustment, total, totalBase) ==
  IF Total(adjustment) = 0 THEN <<>>
  ELSE LET weight == [p \in NonZero(adjustment) |-> Abs(adjustment[p])]
           scaled == Allocate(Truncated(totalBase * Total(adjustment), total), weight)
       IN [p \in NonZero(adjustment) |-> Sign(adjustment[p]) * scaled[p]]

\* A split is [method, who, given]: `given` holds the amounts, percentages,
\* weights or adjustments the client sent.  PERCENT is in whole percents.
SplitAccepted(split, total) ==
  CASE split.method = "EXACT"      -> Total(split.given) = total
    [] split.method = "PERCENT"    -> Total(split.given) = 100
    [] split.method = "ADJUSTMENT" -> DOMAIN split.given \subseteq split.who
    [] OTHER                       -> TRUE

ResolveSplit(split, total, totalBase) ==
  CASE split.method = "EQUAL" ->
         Both(Allocate(total, EqualWeights(split.who)),
              Allocate(totalBase, EqualWeights(split.who)))
    [] split.method \in {"SHARES", "PERCENT"} ->
         Both(Allocate(total, split.given), Allocate(totalBase, split.given))
    [] split.method = "ADJUSTMENT" ->
         Both(AllocateWithAdjustments(total, split.who, split.given),
              AllocateWithAdjustments(totalBase, split.who,
                                      BaseAdjustments(split.given, total, totalBase)))
    [] split.method = "EXACT" ->
         Both(split.given, ExactBase(split.given, totalBase))

PaymentsAccepted(payments, total) == Total(payments) = total

\* One payer takes the whole base total, several are allocated like EXACT.
ResolvePayments(payments, totalBase) ==
  IF Cardinality(DOMAIN payments) = 1
  THEN Both(payments, [p \in DOMAIN payments |-> totalBase])
  ELSE Both(payments, ExactBase(payments, totalBase))
=============================================================================
