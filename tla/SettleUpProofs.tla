--------------------------- MODULE SettleUpProofs ---------------------------
(***************************************************************************)
(* Theorems about Money and SettleUp for every set of people, every set of *)
(* request bodies the contracts let through, every rate and every number   *)
(* of expenses.                                                            *)
(*                                                                         *)
(* The arithmetic comes first: a strict total order places the members of  *)
(* a finite set at 0 .. n - 1, so the units allocate() has left over go to *)
(* one person each, and the parts add up.  The loops of simplify() and     *)
(* pairwiseDebts() are recursive functions over the turns, whose existence *)
(* and values Recursion gives; each has an invariant of its own (LoopSound *)
(* with MadeSound, DrawSound).  The state of the system is then bounded by *)
(* two inductive invariants: the last attempt is what the resolver makes   *)
(* of some body (AttemptSound), and every stored expense is amounts of     *)
(* people on the trip that sum to its total (BooksSound).                  *)
(***************************************************************************)
EXTENDS SettleUp, Sums, TLAPS

-----------------------------------------------------------------------------
(* Orders and lists.                                                         *)

\* R orders S strictly and totally.
Orders(R, S) ==
  /\ \A p \in S : <<p, p>> \notin R
  /\ \A p, q, r \in S : <<p, q>> \in R /\ <<q, r>> \in R => <<p, r>> \in R
  /\ \A p, q \in S : p # q => <<p, q>> \in R \/ <<q, p>> \in R

Ahead(R, S, p) == {q \in S : <<q, p>> \in R}
Place(R, S) == [p \in S |-> Cardinality(Ahead(R, S, p))]

LEMMA PlaceInRange ==
  ASSUME NEW S, IsFiniteSet(S), NEW R, Orders(R, S), NEW p \in S
  PROVE  /\ Cardinality(S) \in Nat /\ Cardinality(S) > 0
         /\ Place(R, S)[p] \in 0 .. Cardinality(S) - 1
<1>1. Ahead(R, S, p) \in SUBSET (S \ {p})
  BY DEF Orders, Ahead
<1>2. /\ IsFiniteSet(S \ {p}) /\ Cardinality(S \ {p}) = Cardinality(S) - 1
      /\ Cardinality(S) \in Nat /\ Cardinality(S \ {p}) \in Nat
  BY FS_RemoveElement, FS_CardinalityType
<1>3. /\ IsFiniteSet(Ahead(R, S, p)) /\ Cardinality(Ahead(R, S, p)) <= Cardinality(S \ {p})
      /\ Cardinality(Ahead(R, S, p)) \in Nat
  BY <1>1, <1>2, FS_Subset, FS_CardinalityType
<1> QED
  BY <1>2, <1>3 DEF Place

LEMMA PlaceRises ==
  ASSUME NEW S, IsFiniteSet(S), NEW R, Orders(R, S), NEW p \in S, NEW q \in S, <<p, q>> \in R
  PROVE  Place(R, S)[p] < Place(R, S)[q]
<1>1. Ahead(R, S, p) \in SUBSET (Ahead(R, S, q) \ {p}) /\ p \in Ahead(R, S, q)
  BY DEF Orders, Ahead
<1>2. IsFiniteSet(Ahead(R, S, q))
  <2>1. Ahead(R, S, q) \in SUBSET S
    BY DEF Ahead
  <2> QED
    BY <2>1, FS_Subset
<1>3. /\ IsFiniteSet(Ahead(R, S, q) \ {p})
      /\ Cardinality(Ahead(R, S, q) \ {p}) < Cardinality(Ahead(R, S, q))
  BY <1>1, <1>2, Smaller
<1>4. IsFiniteSet(Ahead(R, S, p)) /\ Cardinality(Ahead(R, S, p)) <= Cardinality(Ahead(R, S, q) \ {p})
  BY <1>1, <1>3, FS_Subset
<1>5. /\ Cardinality(Ahead(R, S, p)) \in Nat /\ Cardinality(Ahead(R, S, q)) \in Nat
      /\ Cardinality(Ahead(R, S, q) \ {p}) \in Nat
  BY <1>2, <1>3, <1>4, FS_CardinalityType
<1> QED
  BY <1>3, <1>4, <1>5 DEF Place

\* The places of an order are 0, 1, 2, ... and nobody shares one.
LEMMA PlacesFill ==
  ASSUME NEW S, IsFiniteSet(S), NEW R, Orders(R, S)
  PROVE  Place(R, S) \in Bijection(S, 0 .. Cardinality(S) - 1)
<1> DEFINE n == Cardinality(S)
<1>1. n \in Nat
  BY FS_CardinalityType
<1>2. \A p \in S : Place(R, S)[p] \in 0 .. n - 1
  BY PlaceInRange
<1>3. Place(R, S) \in [S -> 0 .. n - 1]
  BY <1>2 DEF Place
<1>4. ASSUME NEW p \in S, NEW q \in S, Place(R, S)[p] = Place(R, S)[q] PROVE p = q
  <2> SUFFICES ASSUME p # q PROVE FALSE
    OBVIOUS
  <2>1. <<p, q>> \in R \/ <<q, p>> \in R
    BY DEF Orders
  <2>2. Place(R, S)[p] < Place(R, S)[q] \/ Place(R, S)[q] < Place(R, S)[p]
    BY <2>1, PlaceRises
  <2>3. Place(R, S)[p] \in Int
    BY <1>1, <1>2
  <2> QED
    BY <1>4, <2>2, <2>3
<1>5. Place(R, S) \in Injection(S, 0 .. n - 1)
  BY <1>3, <1>4 DEF Injection, IsInjective
<1>6. IsFiniteSet(0 .. n - 1) /\ Cardinality(0 .. n - 1) = n
  BY <1>1, FS_Interval
<1> HIDE DEF n
<1>7. Place(R, S) \in Surjection(S, 0 .. n - 1)
  BY <1>5, <1>6, FS_Injection DEF n
<1> QED
  BY <1>5, <1>7 DEF Bijection, n

LEMMA ListExists ==
  ASSUME NEW S, IsFiniteSet(S), NEW R, Orders(R, S)
  PROVE  \E list \in [1 .. Cardinality(S) -> S] :
           \A i, j \in 1 .. Cardinality(S) : i < j => <<list[i], list[j]>> \in R
<1> DEFINE n == Cardinality(S)
           list == [i \in 1 .. n |-> CHOOSE p \in S : Place(R, S)[p] = i - 1]
<1>1. n \in Nat
  BY FS_CardinalityType
<1>2. \A i \in 1 .. n : list[i] \in S /\ Place(R, S)[list[i]] = i - 1
  <2> SUFFICES ASSUME NEW i \in 1 .. n PROVE \E p \in S : Place(R, S)[p] = i - 1
    OBVIOUS
  <2>1. i - 1 \in 0 .. n - 1
    BY <1>1
  <2> QED
    BY <2>1, PlacesFill DEF Bijection, Surjection
<1>3. ASSUME NEW i \in 1 .. n, NEW j \in 1 .. n, i < j PROVE <<list[i], list[j]>> \in R
  <2>1. Place(R, S)[list[i]] < Place(R, S)[list[j]]
    BY <1>1, <1>2, <1>3
  <2>2. list[i] \in S /\ list[j] \in S
    BY <1>2
  <2> HIDE DEF list
  <2>3. Place(R, S)[list[i]] \in Int /\ Place(R, S)[list[j]] \in Int
    BY <2>2, PlaceInRange
  <2>4. list[i] # list[j]
    BY <2>1, <2>3
  <2>5. ~ (<<list[j], list[i]>> \in R)
    BY <2>1, <2>2, <2>3, PlaceRises
  <2> QED
    BY <2>2, <2>4, <2>5 DEF Orders
<1> QED
  BY <1>2, <1>3

\* A list in order names everybody once.
LEMMA ListNamesAll ==
  ASSUME NEW S, IsFiniteSet(S), NEW R, Orders(R, S), NEW list \in [1 .. Cardinality(S) -> S],
         \A i, j \in 1 .. Cardinality(S) : i < j => <<list[i], list[j]>> \in R
  PROVE  list \in Bijection(1 .. Cardinality(S), S)
<1> DEFINE n == Cardinality(S)
<1>1. n \in Nat
  BY FS_CardinalityType
<1>2. ASSUME NEW i \in 1 .. n, NEW j \in 1 .. n, list[i] = list[j] PROVE i = j
  <2>1. ~ (i < j) /\ ~ (j < i)
    BY <1>2 DEF Orders
  <2> QED
    BY <1>1, <2>1
<1>3. list \in Injection(1 .. n, S)
  BY <1>2 DEF Injection, IsInjective
<1>4. Cardinality(1 .. n) = n
  BY <1>1, FS_Interval
<1> HIDE DEF n
<1>5. list \in Surjection(1 .. n, S)
  BY <1>3, <1>4, FS_Injection DEF n
<1> QED
  BY <1>3, <1>5 DEF Bijection, n

LEMMA RankedLists ==
  ASSUME NEW S, IsFiniteSet(S), S \subseteq Int, NEW net, Ints(net, S)
  PROVE  Ranked(S, net) \in Bijection(1 .. Cardinality(S), S)
<1> DEFINE R == {e \in S \X S : \/ Abs(net[e[1]]) > Abs(net[e[2]])
                                \/ Abs(net[e[1]]) = Abs(net[e[2]]) /\ e[1] < e[2]}
           InOrder(list) == \A i, j \in 1 .. Cardinality(S) : i < j => <<list[i], list[j]>> \in R
<1>1. \A p \in S : Abs(net[p]) \in Int
  BY DEF Ints, Abs
<1>2. Orders(R, S)
  BY <1>1 DEF Orders
<1>3. \E list \in [1 .. Cardinality(S) -> S] : InOrder(list)
  <2> HIDE DEF R
  <2> QED
    BY <1>2, ListExists
<1>4. \A list \in [1 .. Cardinality(S) -> S] :
        InOrder(list) <=>
          \A i, j \in 1 .. Cardinality(S) :
            i < j => \/ Abs(net[list[i]]) > Abs(net[list[j]])
                     \/ Abs(net[list[i]]) = Abs(net[list[j]]) /\ list[i] < list[j]
  OBVIOUS
<1>5. Ranked(S, net) \in [1 .. Cardinality(S) -> S] /\ InOrder(Ranked(S, net))
  <2> DEFINE Right(list) == \A i, j \in 1 .. Cardinality(S) :
            i < j => \/ Abs(net[list[i]]) > Abs(net[list[j]])
                     \/ Abs(net[list[i]]) = Abs(net[list[j]]) /\ list[i] < list[j]
  <2>1. Ranked(S, net) = CHOOSE list \in [1 .. Cardinality(S) -> S] : Right(list)
    BY DEF Ranked, Listed
  <2>2. \E list \in [1 .. Cardinality(S) -> S] : Right(list)
    BY <1>3, <1>4
  <2>3. Ranked(S, net) \in [1 .. Cardinality(S) -> S] /\ Right(Ranked(S, net))
    <3> HIDE DEF Right
    <3> QED
      BY <2>1, <2>2
  <2> QED
    BY <2>3, <1>4
<1> HIDE DEF R
<1> QED
  BY <1>2, <1>5, ListNamesAll

\* The ids of S in order.
LEMMA IdsListed ==
  ASSUME NEW S, IsFiniteSet(S), S \subseteq Int
  PROVE  ById(S) \in Bijection(1 .. Cardinality(S), S)
<1> DEFINE R == {e \in S \X S : e[1] < e[2]}
           Right(list) == \A i, j \in 1 .. Cardinality(S) : i < j => list[i] < list[j]
<1>1. Orders(R, S)
  BY DEF Orders
<1>2. \A list \in [1 .. Cardinality(S) -> S] :
        Right(list) <=> \A i, j \in 1 .. Cardinality(S) : i < j => <<list[i], list[j]>> \in R
  OBVIOUS
<1>3. \E list \in [1 .. Cardinality(S) -> S] : Right(list)
  <2>1. \E list \in [1 .. Cardinality(S) -> S] :
           \A i, j \in 1 .. Cardinality(S) : i < j => <<list[i], list[j]>> \in R
    <3> HIDE DEF R
    <3> QED
      BY <1>1, ListExists
  <2> QED
    BY <1>2, <2>1
<1>4. ById(S) = CHOOSE list \in [1 .. Cardinality(S) -> S] : Right(list)
  BY DEF ById, Listed
<1>5. ById(S) \in [1 .. Cardinality(S) -> S] /\ Right(ById(S))
  <2> HIDE DEF Right
  <2> QED
    BY <1>3, <1>4
<1>6. \A i, j \in 1 .. Cardinality(S) : i < j => <<ById(S)[i], ById(S)[j]>> \in R
  BY <1>2, <1>5
<1> HIDE DEF R
<1> QED
  BY <1>1, <1>5, <1>6, ListNamesAll

-----------------------------------------------------------------------------
(* More about sums.                                                          *)

LEMMA TotalIsSum == ASSUME NEW f PROVE Total(f) = Sum(f, DOMAIN f)
BY DEF Total, SumFunction, Sum

\* A common factor.
LEMMA SumScale ==
  ASSUME NEW S, IsFiniteSet(S), NEW f, NEW h, Ints(f, S), NEW k \in Int,
         \A x \in S : h[x] = k * f[x]
  PROVE  Sum(h, S) = k * Sum(f, S)
<1> DEFINE Good == {T \in SUBSET S : Sum(h, T) = k * Sum(f, T)}
<1>1. {} \in Good
  BY SumEmpty
<1>2. ASSUME NEW T \in SUBSET S, NEW x \in S \ T, T \in Good PROVE T \cup {x} \in Good
  <2>1. Ints(h, S)
    BY DEF Ints
  <2>2. Adds(f, T, x)
    BY SumAdd
  <2>3. Adds(h, T, x)
    BY <2>1, SumAdd
  <2>4. h[x] = k * f[x] /\ Sum(h, T) = k * Sum(f, T)
    BY <1>2
  <2>5. Sum(h, T \cup {x}) = k * f[x] + k * Sum(f, T)
    BY <2>3, <2>4 DEF Adds
  <2>6. k * f[x] + k * Sum(f, T) = k * (f[x] + Sum(f, T))
    BY <2>2 DEF Adds
  <2> QED
    BY <2>2, <2>5, <2>6 DEF Adds
<1>3. S \in Good
  <2> HIDE DEF Good
  <2> QED
    BY <1>1, <1>2, SubsetInduction
<1> QED
  BY <1>3

\* One for each member of T.
LEMMA SumCounts ==
  ASSUME NEW S, IsFiniteSet(S), NEW T \in SUBSET S, NEW f,
         \A x \in S : f[x] = IF x \in T THEN 1 ELSE 0
  PROVE  Sum(f, S) = Cardinality(T)
<1> DEFINE Good == {U \in SUBSET T : Sum(f, U) = Cardinality(U)}
<1>1. {} \in Good
  BY SumEmpty, FS_EmptySet
<1>2. IsFiniteSet(T) /\ Ints(f, S) /\ Ints(f, T)
  BY FS_Subset DEF Ints
<1>3. ASSUME NEW U \in SUBSET T, NEW x \in T \ U, U \in Good PROVE U \cup {x} \in Good
  <2>1. Adds(f, U, x)
    BY <1>2, SumAdd
  <2>2. Cardinality(U \cup {x}) = Cardinality(U) + 1 /\ Cardinality(U) \in Nat
    BY <1>2, FS_Subset, FS_AddElement, FS_CardinalityType
  <2>3. f[x] = 1 /\ Sum(f, U) = Cardinality(U)
    BY <1>3
  <2>4. Sum(f, U \cup {x}) = Cardinality(U \cup {x})
    BY <2>1, <2>2, <2>3 DEF Adds
  <2> QED
    BY <2>4
<1>4. T \in Good
  <2> HIDE DEF Good
  <2> QED
    BY <1>1, <1>2, <1>3, SubsetInduction
<1>5. Sum(f, S) = Sum(f, T)
  BY <1>2, SumZeros
<1> QED
  BY <1>4, <1>5

LEMMA SumNotNegative ==
  ASSUME NEW S, IsFiniteSet(S), NEW f, Ints(f, S), \A x \in S : f[x] >= 0
  PROVE  Sum(f, S) >= 0 /\ \A x \in S : f[x] <= Sum(f, S)
<1> DEFINE zero == [x \in S |-> 0]
<1>1. ASSUME NEW T \in SUBSET S PROVE Sum(f, T) >= 0 /\ Sum(f, T) \in Int
  <2>1. IsFiniteSet(T) /\ Ints(f, T) /\ Ints(zero, T) /\ \A x \in T : zero[x] <= f[x]
    BY FS_Subset DEF Ints
  <2>2. Sum(zero, T) = 0
    <3>1. \A x \in T \ {} : zero[x] = 0
      OBVIOUS
    <3>2. {} \in SUBSET T
      OBVIOUS
    <3> HIDE DEF zero
    <3> QED
      BY <2>1, <3>1, <3>2, SumZeros, SumEmpty
  <2> HIDE DEF zero
  <2>3. Sum(zero, T) <= Sum(f, T)
    BY <2>1, SumAtMost
  <2> QED
    BY <2>1, <2>2, <2>3, SumIsPartial
<1>2. ASSUME NEW x \in S PROVE f[x] <= Sum(f, S)
  <2>1. Sum(f, S) = f[x] + Sum(f, S \ {x})
    BY SumSplit
  <2>2. Sum(f, S \ {x}) >= 0 /\ Sum(f, S \ {x}) \in Int /\ f[x] \in Int
    BY <1>1 DEF Ints
  <2> QED
    BY <2>1, <2>2
<1> QED
  BY <1>1, <1>2

-----------------------------------------------------------------------------
(* Allocation.                                                               *)

LEMMA Division ==
  ASSUME NEW a \in Nat, NEW b \in Nat, b > 0
  PROVE  /\ a \div b \in Nat /\ a % b \in 0 .. b - 1
         /\ a = (a \div b) * b + (a % b)
OBVIOUS

LEMMA Products ==
  ASSUME NEW a \in Int, NEW b \in Int, NEW c \in Int, c > 0
  PROVE  /\ a * c <= b * c <=> a <= b
         /\ a * c < b * c <=> a < b
OBVIOUS

LEMMA Factors == \A a, b, c \in Int : (a + b) * c = a * c + b * c /\ (a - b) * c = a * c - b * c
OBVIOUS

\* The weights allocate() does not refuse.
Weights(w) ==
  /\ IsFiniteSet(DOMAIN w)
  /\ \A p \in DOMAIN w : w[p] \in Nat
  /\ Total(w) > 0

\* The steps of allocate(): whole parts, remainders, the units left over and who gets them.
Quotient(t, w) == [p \in DOMAIN w |-> (Abs(t) * w[p]) \div Total(w)]
Remainder(t, w) == [p \in DOMAIN w |-> (Abs(t) * w[p]) % Total(w)]
Leftover(t, w) == Abs(t) - Total(Quotient(t, w))
ByRemainder(t, w) ==
  {e \in (DOMAIN w) \X (DOMAIN w) :
     \/ Remainder(t, w)[e[1]] > Remainder(t, w)[e[2]]
     \/ Remainder(t, w)[e[1]] = Remainder(t, w)[e[2]] /\ e[1] < e[2]}
Turns(t, w) == Place(ByRemainder(t, w), DOMAIN w)
Extra(t, w) == [p \in DOMAIN w |-> IF Turns(t, w)[p] < Leftover(t, w) THEN 1 ELSE 0]

LEMMA PartTypes ==
  ASSUME NEW w, Weights(w), NEW t \in Int
  PROVE  /\ Abs(t) \in Nat /\ t = Sign(t) * Abs(t) /\ Sign(t) \in {1, -1}
         /\ Total(w) \in Nat /\ Total(w) > 0 /\ Total(w) = Sum(w, DOMAIN w)
         /\ DOMAIN w # {}
         /\ \A p \in DOMAIN w :
              /\ w[p] \in Nat /\ Abs(t) * w[p] \in Nat
              /\ Quotient(t, w)[p] \in Nat
              /\ Remainder(t, w)[p] \in 0 .. Total(w) - 1
              /\ Abs(t) * w[p] = Quotient(t, w)[p] * Total(w) + Remainder(t, w)[p]
<1>1. Abs(t) \in Nat /\ t = Sign(t) * Abs(t) /\ Sign(t) \in {1, -1}
  BY DEF Abs, Sign
<1>2. Ints(w, DOMAIN w)
  BY DEF Weights, Ints
<1>3. Total(w) \in Int /\ Total(w) = Sum(w, DOMAIN w)
  BY <1>2, TotalIsSum, SumIsPartial DEF Weights
<1>4. DOMAIN w # {}
  BY <1>3, SumEmpty DEF Weights
<1>5. ASSUME NEW p \in DOMAIN w
      PROVE  /\ w[p] \in Nat /\ Abs(t) * w[p] \in Nat
             /\ Quotient(t, w)[p] \in Nat
             /\ Remainder(t, w)[p] \in 0 .. Total(w) - 1
             /\ Abs(t) * w[p] = Quotient(t, w)[p] * Total(w) + Remainder(t, w)[p]
  <2>1. w[p] \in Nat /\ Abs(t) * w[p] \in Nat
    BY <1>1 DEF Weights
  <2>2. /\ Quotient(t, w)[p] = (Abs(t) * w[p]) \div Total(w)
        /\ Remainder(t, w)[p] = (Abs(t) * w[p]) % Total(w)
    BY DEF Quotient, Remainder
  <2>3. Total(w) \in Nat /\ Total(w) > 0
    BY <1>3 DEF Weights
  <2> QED
    BY <2>1, <2>2, <2>3, Division
<1> QED
  BY <1>1, <1>3, <1>4, <1>5 DEF Weights

\* The remainders make up the units left over, so there are fewer of these than people.
LEMMA LeftoverSmall ==
  ASSUME NEW w, Weights(w), NEW t \in Int
  PROVE  /\ Leftover(t, w) \in 0 .. Cardinality(DOMAIN w) - 1
         /\ Leftover(t, w) * Total(w) = Sum(Remainder(t, w), DOMAIN w)
<1> DEFINE S == DOMAIN w
           W == Total(w)
           Q == Quotient(t, w)
           R == Remainder(t, w)
           L == Leftover(t, w)
           QW == [p \in S |-> W * Q[p]]
           TW == [p \in S |-> Abs(t) * w[p]]
<1>1. IsFiniteSet(S) /\ W \in Nat /\ W > 0 /\ Abs(t) \in Nat
  BY PartTypes DEF Weights
<1>2. /\ Ints(w, S) /\ Ints(Q, S) /\ Ints(R, S) /\ Ints(QW, S)
      /\ \A p \in S : TW[p] = QW[p] + R[p]
  <2> SUFFICES ASSUME NEW p \in S
               PROVE  /\ w[p] \in Int /\ Q[p] \in Int /\ R[p] \in Int /\ W * Q[p] \in Int
                      /\ TW[p] = QW[p] + R[p]
    BY DEF Ints
  <2>1. w[p] \in Nat /\ Q[p] \in Nat /\ R[p] \in Int /\ Abs(t) * w[p] = Q[p] * W + R[p]
    BY <1>1, PartTypes
  <2>2. Q[p] * W = W * Q[p] /\ W * Q[p] \in Int
    BY <1>1, <2>1
  <2> QED
    BY <2>1, <2>2
<1>3. Total(Q) = Sum(Q, S) /\ Sum(Q, S) \in Int /\ Sum(R, S) \in Int
  <2>1. DOMAIN Q = S
    BY DEF Quotient
  <2>2. Total(Q) = Sum(Q, S)
    BY <2>1, TotalIsSum
  <2> QED
    BY <1>1, <1>2, <2>2, SumIsPartial
<1> HIDE DEF Q, R, W
<1>4. Sum(QW, S) = W * Sum(Q, S)
  <2>1. \A p \in S : QW[p] = W * Q[p]
    OBVIOUS
  <2> HIDE DEF QW
  <2> QED
    BY <1>1, <1>2, <2>1, SumScale
<1>5. Sum(TW, S) = Abs(t) * W
  <2>1. \A p \in S : TW[p] = Abs(t) * w[p]
    OBVIOUS
  <2> HIDE DEF TW
  <2>2. Sum(TW, S) = Abs(t) * Sum(w, S)
    BY <1>1, <1>2, <2>1, SumScale
  <2> QED
    BY <2>2, PartTypes DEF W
<1>6. Sum(TW, S) = Sum(QW, S) + Sum(R, S)
  <2> HIDE DEF TW, QW
  <2> QED
    BY <1>1, <1>2, SumPlus
<1>7. L = Abs(t) - Sum(Q, S) /\ L \in Int
  BY <1>1, <1>3 DEF Leftover, Q
<1>8. L * W = Sum(R, S)
  <2>1. Abs(t) * W = W * Sum(Q, S) + Sum(R, S)
    BY <1>4, <1>5, <1>6
  <2>2. L * W = Abs(t) * W - Sum(Q, S) * W
    BY <1>1, <1>3, <1>7, Factors
  <2>3. W * Sum(Q, S) = Sum(Q, S) * W
    BY <1>1, <1>3
  <2>4. Abs(t) * W \in Int /\ W * Sum(Q, S) \in Int
    BY <1>1, <1>3
  <2> QED
    BY <1>3, <2>1, <2>2, <2>3, <2>4
<1>9. \A p \in S : R[p] \in 0 .. W - 1
  BY <1>1, PartTypes DEF R, W
<1>10. L >= 0
  <2>1. Sum(R, S) >= 0
    BY <1>1, <1>2, <1>9, SumNotNegative
  <2>2. 0 * W <= L * W
    BY <1>1, <1>3, <1>8, <2>1
  <2> QED
    BY <1>1, <1>7, <2>2, Products
<1>11. Cardinality(S) \in Nat /\ Cardinality(S) > 0
  BY <1>1, FS_CardinalityType, FS_EmptySet, PartTypes
<1>12. L < Cardinality(S)
  <2>1. Sum(R, S) <= Cardinality(S) * (W - 1)
    <3>1. W - 1 \in Nat /\ \A p \in S : R[p] <= W - 1
      BY <1>1, <1>9
    <3> QED
      BY <1>1, <1>2, <3>1, SumBound
  <2>2. Cardinality(S) * (W - 1) = Cardinality(S) * W - Cardinality(S) /\ Cardinality(S) * W \in Int
    BY <1>1, <1>11
  <2>3. L * W < Cardinality(S) * W
    BY <1>3, <1>8, <1>11, <2>1, <2>2
  <2> QED
    BY <1>1, <1>7, <1>11, <2>3, Products
<1> QED
  BY <1>7, <1>8, <1>10, <1>11, <1>12 DEF W, R

LEMMA RemaindersOrdered ==
  ASSUME NEW w, Weights(w), DOMAIN w \subseteq Int, NEW t \in Int
  PROVE  Orders(ByRemainder(t, w), DOMAIN w)
<1> DEFINE r(p) == Remainder(t, w)[p]
<1>1. \A p \in DOMAIN w : r(p) \in Int /\ p \in Int
  BY PartTypes
<1>2. \A p, q \in DOMAIN w :
        <<p, q>> \in ByRemainder(t, w) <=> r(p) > r(q) \/ (r(p) = r(q) /\ p < q)
  BY DEF ByRemainder
<1> HIDE DEF r
<1> QED
  BY <1>1, <1>2 DEF Orders

LEMMA AllocateIs ==
  ASSUME NEW w, Weights(w), DOMAIN w \subseteq Int, NEW t \in Int
  PROVE  Allocate(t, w) = [p \in DOMAIN w |-> Sign(t) * (Quotient(t, w)[p] + Extra(t, w)[p])]
<1> DEFINE S == DOMAIN w
           R == Remainder(t, w)
           L == Leftover(t, w)
           n == Cardinality(S)
           before(p) == {q \in S : R[q] > R[p] \/ (R[q] = R[p] /\ q < p)}
<1>1. ASSUME NEW p \in S
      PROVE  Cardinality({i \in 0 .. L - 1 : i % n = Cardinality(before(p))}) = Extra(t, w)[p]
  <2>1. Turns(t, w)[p] = Cardinality(before(p))
    <3>1. Ahead(ByRemainder(t, w), S, p) = before(p)
      BY DEF Ahead, ByRemainder
    <3> QED
      BY <3>1 DEF Turns, Place
  <2>2. Turns(t, w)[p] \in 0 .. n - 1 /\ n \in Nat /\ n > 0
    BY RemaindersOrdered, PlaceInRange DEF Turns, Weights
  <2>3. L \in 0 .. n - 1
    BY LeftoverSmall
  <2> DEFINE k == Turns(t, w)[p]
  <2>4. Extra(t, w)[p] = IF k < L THEN 1 ELSE 0
    BY DEF Extra
  <2> HIDE DEF n, L, k
  <2>5. \A i \in 0 .. L - 1 : i % n = i
    BY <2>2, <2>3
  <2>6. {i \in 0 .. L - 1 : i % n = k} = IF k < L THEN {k} ELSE {}
    BY <2>2, <2>3, <2>5 DEF k
  <2>7. Cardinality({i \in 0 .. L - 1 : i % n = k}) = IF k < L THEN 1 ELSE 0
    BY <2>6, FS_EmptySet, FS_Singleton
  <2> QED
    BY <2>1, <2>4, <2>7 DEF k
<1>2. Allocate(t, w) =
        [p \in S |-> Sign(t) * (Quotient(t, w)[p]
                                  + Cardinality({i \in 0 .. L - 1 : i % n = Cardinality(before(p))}))]
  BY DEF Allocate, Quotient, Remainder, Leftover
<1> HIDE DEF L, n, before
<1> QED
  BY <1>1, <1>2

\* As many people get one as there are units left over.
LEMMA ExtraSums ==
  ASSUME NEW w, Weights(w), DOMAIN w \subseteq Int, NEW t \in Int
  PROVE  Sum(Extra(t, w), DOMAIN w) = Leftover(t, w)
<1> DEFINE S == DOMAIN w
           L == Leftover(t, w)
           P == Turns(t, w)
           T == {p \in S : P[p] < L}
           n == Cardinality(S)
<1>1. IsFiniteSet(S) /\ n \in Nat /\ L \in 0 .. n - 1
  BY LeftoverSmall, FS_CardinalityType DEF Weights
<1>2. P \in Bijection(S, 0 .. n - 1)
  BY <1>1, RemaindersOrdered, PlacesFill DEF Turns
<1> HIDE DEF P, L, n
<1>3. Sum(Extra(t, w), S) = Cardinality(T)
  <2>1. \A p \in S : Extra(t, w)[p] = IF p \in T THEN 1 ELSE 0
    BY DEF Extra, P, L
  <2> HIDE DEF T
  <2>2. T \in SUBSET S
    BY DEF T
  <2> QED
    BY <1>1, <2>1, <2>2, SumCounts
<1>4. [p \in T |-> P[p]] \in Bijection(T, 0 .. L - 1)
  <2> DEFINE f == [p \in T |-> P[p]]
  <2>1. \A p \in T : P[p] \in 0 .. L - 1
    BY <1>1, <1>2 DEF Bijection, Injection
  <2>2. \A p, q \in T : P[p] = P[q] => p = q
    BY <1>2 DEF Bijection, Injection, IsInjective
  <2>3. \A i \in 0 .. L - 1 : \E p \in T : P[p] = i
    <3> SUFFICES ASSUME NEW i \in 0 .. L - 1 PROVE \E p \in T : P[p] = i
      OBVIOUS
    <3>1. i \in 0 .. n - 1 /\ i < L
      BY <1>1
    <3>2. PICK p \in S : P[p] = i
      BY <1>2, <3>1 DEF Bijection, Surjection
    <3> QED
      BY <3>1, <3>2
  <2> HIDE DEF T
  <2> QED
    BY <2>1, <2>2, <2>3 DEF Bijection, Injection, Surjection, IsInjective
<1>5. Cardinality(0 .. L - 1) = L
  BY <1>1, FS_Interval
<1>6. Cardinality(T) = L
  <2>1. IsFiniteSet(T)
    BY <1>1, FS_Subset
  <2>2. ExistsBijection(T, 0 .. L - 1)
    BY <1>4 DEF ExistsBijection
  <2> HIDE DEF T
  <2> QED
    BY <1>5, <2>1, <2>2, FS_Bijection
<1> QED
  BY <1>3, <1>6 DEF L

\* Whoever gets a unit left over had a remainder: there are at least as many of them.
LEMMA ExtraEarned ==
  ASSUME NEW w, Weights(w), DOMAIN w \subseteq Int, NEW t \in Int,
         NEW p \in DOMAIN w, Extra(t, w)[p] = 1
  PROVE  Remainder(t, w)[p] > 0
<1> DEFINE S == DOMAIN w
           R == Remainder(t, w)
           L == Leftover(t, w)
           W == Total(w)
           T == {q \in S : R[q] > 0}
           B == Ahead(ByRemainder(t, w), S, p)
<1>1. /\ IsFiniteSet(S) /\ W \in Nat /\ W > 0 /\ L \in 0 .. Cardinality(S) - 1
      /\ Cardinality(S) \in Nat /\ L * W = Sum(R, S)
  BY LeftoverSmall, FS_CardinalityType, PartTypes DEF Weights
<1>2. \A q \in S : R[q] \in 0 .. W - 1
  BY PartTypes
<1>3. Cardinality(B) < L
  BY DEF Extra, Turns, Place
<1> SUFFICES ASSUME R[p] = 0 PROVE FALSE
  BY <1>1, <1>2
<1>4. T \in SUBSET B /\ B \in SUBSET S
  BY <1>2 DEF Ahead, ByRemainder
<1>5. /\ IsFiniteSet(T) /\ Cardinality(T) \in Nat /\ Cardinality(T) <= Cardinality(B)
      /\ Cardinality(B) \in Nat
  BY <1>1, <1>4, FS_Subset, FS_CardinalityType
<1>6. Sum(R, S) = Sum(R, T)
  <2>1. Ints(R, S) /\ \A q \in S \ T : R[q] = 0
    BY <1>1, <1>2 DEF Ints
  <2>2. T \in SUBSET S
    OBVIOUS
  <2> HIDE DEF T, R
  <2> QED
    BY <1>1, <2>1, <2>2, SumZeros
<1>7. Sum(R, T) <= Cardinality(T) * (W - 1) /\ Sum(R, T) \in Int
  <2>1. Ints(R, T) /\ W - 1 \in Nat /\ \A q \in T : R[q] <= W - 1
    BY <1>1, <1>2 DEF Ints
  <2> HIDE DEF T, R, W
  <2> QED
    BY <1>5, <2>1, SumBound, SumIsPartial
<1> HIDE DEF T, R, W, L, B
<1>8. Cardinality(T) * (W - 1) = Cardinality(T) * W - Cardinality(T) /\ Cardinality(T) * W \in Int
  BY <1>1, <1>5
<1>9. L * W <= Cardinality(T) * W
  BY <1>1, <1>5, <1>6, <1>7, <1>8
<1>10. L <= Cardinality(T)
  BY <1>1, <1>5, <1>9, Products
<1> QED
  BY <1>1, <1>3, <1>5, <1>10

\* What each person gets before the sign is put back.
Part(t, w) == [p \in DOMAIN w |-> Quotient(t, w)[p] + Extra(t, w)[p]]

LEMMA PartFair ==
  ASSUME NEW w, Weights(w), DOMAIN w \subseteq Int, NEW t \in Int, NEW p \in DOMAIN w
  PROVE  /\ Part(t, w)[p] \in Nat /\ Extra(t, w)[p] \in {0, 1}
         /\ Part(t, w)[p] * Total(w) < Abs(t) * w[p] + Total(w)
         /\ Abs(t) * w[p] < Part(t, w)[p] * Total(w) + Total(w)
<1> DEFINE q == Quotient(t, w)[p]
           r == Remainder(t, w)[p]
           e == Extra(t, w)[p]
           W == Total(w)
           x == Abs(t) * w[p]
<1>1. q \in Nat /\ r \in 0 .. W - 1 /\ W \in Nat /\ W > 0 /\ x = q * W + r /\ x \in Nat
  BY PartTypes
<1>2. e \in {0, 1} /\ Part(t, w)[p] = q + e
  BY DEF Extra, Part
<1>3. e = 1 => r > 0
  BY ExtraEarned
<1> HIDE DEF q, r, e, W, x
<1>4. (q + e) * W = q * W + e * W /\ q * W \in Nat /\ e * W = IF e = 1 THEN W ELSE 0
  BY <1>1, <1>2, Factors
<1> QED
  BY <1>1, <1>2, <1>3, <1>4 DEF e, W, x

LEMMA PartsSum ==
  ASSUME NEW w, Weights(w), DOMAIN w \subseteq Int, NEW t \in Int
  PROVE  Sum(Part(t, w), DOMAIN w) = Abs(t)
<1> DEFINE S == DOMAIN w
           Q == Quotient(t, w)
           E == Extra(t, w)
<1>1. IsFiniteSet(S) /\ Ints(Q, S) /\ Ints(E, S) /\ DOMAIN Q = S
  <2>1. \A p \in S : Q[p] \in Int
    BY PartTypes
  <2>2. DOMAIN Q = S /\ \A p \in S : E[p] \in Int
    BY DEF Quotient, Extra
  <2> QED
    BY <2>1, <2>2 DEF Weights, Ints
<1>2. Sum(Part(t, w), S) = Sum(Q, S) + Sum(E, S)
  <2>1. \A p \in S : Part(t, w)[p] = Q[p] + E[p]
    BY DEF Part
  <2> HIDE DEF Q, E
  <2> QED
    BY <1>1, <2>1, SumPlus
<1>3. Total(Q) = Sum(Q, S)
  BY <1>1, TotalIsSum
<1>4. Sum(E, S) = Abs(t) - Sum(Q, S)
  BY <1>3, ExtraSums DEF Leftover
<1>5. Abs(t) \in Int /\ Sum(Q, S) \in Int
  BY <1>1, PartTypes, SumIsPartial
<1> QED
  BY <1>2, <1>4, <1>5

\* A larger weight never gets less.
LEMMA PartsOrdered ==
  ASSUME NEW w, Weights(w), DOMAIN w \subseteq Int, NEW t \in Int,
         NEW p \in DOMAIN w, NEW q \in DOMAIN w, w[p] > w[q]
  PROVE  Part(t, w)[p] >= Part(t, w)[q]
<1> DEFINE Q == Quotient(t, w)
           R == Remainder(t, w)
           E == Extra(t, w)
           W == Total(w)
           T == Abs(t)
<1>1. /\ Q[p] \in Nat /\ Q[q] \in Nat /\ R[p] \in 0 .. W - 1 /\ R[q] \in 0 .. W - 1
      /\ W \in Nat /\ W > 0 /\ T \in Nat /\ w[p] \in Nat /\ w[q] \in Nat
      /\ T * w[p] = Q[p] * W + R[p] /\ T * w[q] = Q[q] * W + R[q]
  BY PartTypes
<1>2. E[p] \in {0, 1} /\ E[q] \in {0, 1}
  BY PartFair
<1>3. Part(t, w)[p] = Q[p] + E[p] /\ Part(t, w)[q] = Q[q] + E[q]
  BY DEF Part
<1>4. T * w[q] <= T * w[p] /\ (T > 0 => T * w[q] < T * w[p])
  BY <1>1
<1>5. R[p] > R[q] => E[p] >= E[q]
  <2> SUFFICES ASSUME R[p] > R[q] PROVE E[p] >= E[q]
    OBVIOUS
  <2>1. <<p, q>> \in ByRemainder(t, w)
    BY DEF ByRemainder
  <2>2. Turns(t, w)[p] < Turns(t, w)[q]
    BY <2>1, RemaindersOrdered, PlaceRises DEF Turns, Weights
  <2>3. Turns(t, w)[p] \in Int /\ Turns(t, w)[q] \in Int /\ Leftover(t, w) \in Int
    BY RemaindersOrdered, PlaceInRange, LeftoverSmall DEF Turns, Weights
  <2> QED
    BY <2>2, <2>3 DEF Extra
<1>6. CASE T = 0
  <2>1. \A x \in DOMAIN w : Part(t, w)[x] \in Nat
    BY PartFair
  <2>2. Sum(Part(t, w), DOMAIN w) = 0
    BY <1>6, PartsSum
  <2>3. IsFiniteSet(DOMAIN w) /\ Ints(Part(t, w), DOMAIN w) /\ \A x \in DOMAIN w : Part(t, w)[x] >= 0
    BY <2>1 DEF Weights, Ints
  <2>4. Part(t, w)[p] <= 0 /\ Part(t, w)[q] <= 0
    BY <2>2, <2>3, SumNotNegative
  <2> QED
    BY <2>1, <2>4
<1>7. CASE T > 0
  <2> HIDE DEF Q, R, E, W, T
  <2>1. Q[p] * W + R[p] > Q[q] * W + R[q]
    BY <1>1, <1>4, <1>7
  <2>2. Q[p] >= Q[q]
    <3> SUFFICES ASSUME Q[p] + 1 <= Q[q] PROVE FALSE
      BY <1>1
    <3>1. (Q[p] + 1) * W <= Q[q] * W
      BY <1>1, Products
    <3>2. (Q[p] + 1) * W = Q[p] * W + W /\ Q[p] * W \in Int /\ Q[q] * W \in Int
      BY <1>1
    <3> QED
      BY <1>1, <2>1, <3>1, <3>2
  <2>3. Q[p] = Q[q] => R[p] > R[q]
    BY <1>1, <2>1
  <2>4. Q[p] = Q[q] => E[p] >= E[q]
    BY <1>5, <2>3
  <2>5. Q[p] \in Int /\ Q[q] \in Int
    BY <1>1
  <2>6. Q[p] + E[p] >= Q[q] + E[q]
    BY <1>2, <2>2, <2>4, <2>5
  <2> QED
    BY <1>3, <2>6
<1>8. T = 0 \/ T > 0
  BY <1>1
<1> QED
  BY <1>6, <1>7, <1>8

\* allocate() gives out exactly the total, to nobody the wrong way round, to nobody a
\* unit more or less than their proportion, and never less to a larger weight.
THEOREM AllocateExactAndFair ==
  ASSUME NEW w, Weights(w), DOMAIN w \subseteq Int, NEW t \in Int
  PROVE  LET a == Allocate(t, w) IN
         /\ DOMAIN a = DOMAIN w /\ Ints(a, DOMAIN w) /\ Total(a) = t
         /\ \A p \in DOMAIN w : /\ Sign(t) * a[p] >= 0 /\ Abs(a[p]) = Sign(t) * a[p]
                                /\ Abs(a[p] * Total(w) - t * w[p]) < Total(w)
         /\ \A p, q \in DOMAIN w : w[p] > w[q] => Abs(a[p]) >= Abs(a[q])
<1> DEFINE S == DOMAIN w
           a == Allocate(t, w)
           s == Sign(t)
           m == Part(t, w)
           W == Total(w)
<1>1. DOMAIN a = S /\ \A p \in S : a[p] = s * m[p]
  BY AllocateIs DEF Part
<1>2. s \in {1, -1} /\ t = s * Abs(t) /\ Abs(t) \in Nat /\ W \in Nat /\ IsFiniteSet(S)
  BY PartTypes DEF Weights
<1>3. \A p \in S : m[p] \in Nat /\ w[p] \in Nat
  BY PartFair DEF Weights
<1> HIDE DEF a, s, m
<1>4. \A p \in S : a[p] \in Int /\ s * a[p] = m[p] /\ Abs(a[p]) = m[p]
  BY <1>1, <1>2, <1>3 DEF Abs
<1>5. Total(a) = t
  <2>1. Sum(a, S) = s * Sum(m, S)
    <3>1. Ints(m, S) /\ s \in Int
      BY <1>2, <1>3 DEF Ints
    <3> QED
      BY <1>1, <1>2, <3>1, SumScale
  <2>2. Total(a) = Sum(a, S) /\ Sum(m, S) = Abs(t)
    BY <1>1, TotalIsSum, PartsSum DEF m
  <2> QED
    BY <1>2, <2>1, <2>2
<1>6. ASSUME NEW p \in S PROVE Abs(a[p] * W - t * w[p]) < W
  <2>1. m[p] * W < Abs(t) * w[p] + W /\ Abs(t) * w[p] < m[p] * W + W
    BY PartFair DEF m
  <2>2. a[p] = s * m[p] /\ m[p] \in Nat /\ w[p] \in Nat
    BY <1>1, <1>3
  <2>3. /\ m[p] * W \in Int /\ Abs(t) * w[p] \in Int
        /\ a[p] * W = s * (m[p] * W) /\ t * w[p] = s * (Abs(t) * w[p])
    BY <1>2, <2>2
  <2> QED
    BY <1>2, <2>1, <2>3 DEF Abs
<1>7. ASSUME NEW p \in S, NEW q \in S, w[p] > w[q] PROVE Abs(a[p]) >= Abs(a[q])
  BY <1>4, <1>7, PartsOrdered DEF m
<1> QED
  BY <1>1, <1>3, <1>4, <1>5, <1>6, <1>7 DEF a, s, Ints

-----------------------------------------------------------------------------
(* Conversion and resolution.                                                *)

LEMMA Quotients ==
  /\ \A n \in Int : Abs(n) \in Nat /\ (n # 0 => Abs(n) > 0) /\ Sign(n) \in {1, -1}
                    /\ n = Sign(n) * Abs(n)
  /\ \A n, d \in Int : d # 0 => Truncated(n, d) \in Int
  /\ \A n \in Int, d \in Nat \ {0} : DivRound(n, d) \in Int
<1>1. \A n \in Int : Abs(n) \in Nat /\ (n # 0 => Abs(n) > 0) /\ Sign(n) \in {1, -1}
                     /\ n = Sign(n) * Abs(n)
  BY DEF Abs, Sign
<1>2. ASSUME NEW n \in Int, NEW d \in Int, d # 0 PROVE Truncated(n, d) \in Int
  <2>1. Abs(n) \in Nat /\ Abs(d) \in Nat /\ Abs(d) > 0
    BY <1>1, <1>2
  <2>2. Abs(n) \div Abs(d) \in Nat
    BY <2>1, Division
  <2> DEFINE q == Abs(n) \div Abs(d)
  <2>3. Sign(n) \in Int /\ Sign(d) \in Int /\ q \in Int
    BY <1>1, <2>2
  <2>4. Truncated(n, d) = Sign(n) * Sign(d) * q
    BY DEF Truncated
  <2> HIDE DEF q
  <2> QED
    BY <2>3, <2>4
<1>3. ASSUME NEW n \in Int, NEW d \in Nat \ {0} PROVE DivRound(n, d) \in Int
  <2> DEFINE q == Abs(n) \div d
             up == 2 * (Abs(n) % d) >= d
  <2>1. Abs(n) \in Nat /\ d > 0
    BY <1>1
  <2>2. q \in Nat
    BY <2>1, Division
  <2>3. DivRound(n, d) = Sign(n) * (IF up THEN q + 1 ELSE q)
    BY DEF DivRound
  <2>4. Sign(n) \in Int
    BY <1>1
  <2> HIDE DEF q, up
  <2> QED
    BY <2>2, <2>3, <2>4
<1> QED
  BY <1>1, <1>2, <1>3

LEMMA AmountsFinite ==
  ASSUME NEW f, IsAmounts(f)
  PROVE  /\ IsFiniteSet(DOMAIN f) /\ DOMAIN f \subseteq Int /\ Ints(f, DOMAIN f)
         /\ Total(f) = Sum(f, DOMAIN f) /\ Total(f) \in Int
<1>1. IsFiniteSet(DOMAIN f) /\ DOMAIN f \subseteq Int /\ Ints(f, DOMAIN f)
  BY ConstantsAssumption, FS_Subset DEF IsAmounts, Ints
<1> QED
  BY <1>1, TotalIsSum, SumIsPartial

LEMMA EqualWeightsWork ==
  ASSUME NEW S, S \subseteq Participants, S # {}
  PROVE  Weights(EqualWeights(S)) /\ DOMAIN EqualWeights(S) = S
<1>1. IsFiniteSet(S) /\ DOMAIN EqualWeights(S) = S /\ \A p \in S : EqualWeights(S)[p] = 1
  BY ConstantsAssumption, FS_Subset DEF EqualWeights
<1>2. Total(EqualWeights(S)) = Cardinality(S)
  BY <1>1, TotalIsSum, SumCounts
<1>3. Cardinality(S) \in Nat /\ Cardinality(S) > 0
  BY <1>1, FS_CardinalityType, FS_EmptySet
<1> QED
  BY <1>1, <1>2, <1>3 DEF Weights

\* The weights of amounts that are not all zero: their magnitudes, zeros left out.
Magnitudes(f) == [p \in NonZero(f) |-> Abs(f[p])]

LEMMA MagnitudesWork ==
  ASSUME NEW f, IsAmounts(f), Total(f) # 0
  PROVE  Weights(Magnitudes(f)) /\ DOMAIN Magnitudes(f) = NonZero(f)
         /\ NonZero(f) \subseteq DOMAIN f
<1> DEFINE N == NonZero(f)
           m == Magnitudes(f)
<1>1. N \in SUBSET (DOMAIN f) /\ DOMAIN m = N /\ \A p \in N : f[p] \in Int /\ m[p] = Abs(f[p])
  BY DEF NonZero, Magnitudes, IsAmounts
<1>2. IsFiniteSet(N)
  BY <1>1, AmountsFinite, FS_Subset
<1>3. N # {}
  <2> SUFFICES ASSUME N = {} PROVE FALSE
    OBVIOUS
  <2>1. \A p \in DOMAIN f \ {} : f[p] = 0
    BY DEF NonZero
  <2>2. Sum(f, DOMAIN f) = Sum(f, {})
    BY <2>1, AmountsFinite, SumZeros
  <2> QED
    BY <2>2, AmountsFinite, SumEmpty
<1>4. \A p \in N : m[p] \in Nat /\ m[p] > 0
  BY <1>1, Quotients DEF NonZero
<1>5. PICK p \in N : TRUE
  BY <1>3
<1>6. m[p] <= Sum(m, N) /\ Sum(m, N) \in Int
  <2>1. Ints(m, N) /\ \A x \in N : m[x] >= 0
    BY <1>4 DEF Ints
  <2> HIDE DEF m, N
  <2> QED
    BY <1>2, <1>5, <2>1, SumNotNegative, SumIsPartial
<1>7. Total(m) = Sum(m, N)
  BY <1>1, TotalIsSum
<1> QED
  BY <1>1, <1>2, <1>4, <1>5, <1>6, <1>7 DEF Weights

LEMMA ExactBaseWorks ==
  ASSUME NEW f, IsAmounts(f), Total(f) # 0, NEW t \in Int
  PROVE  /\ IsAmounts(ExactBase(f, t)) /\ DOMAIN ExactBase(f, t) = DOMAIN f
         /\ (\A p \in DOMAIN f : f[p] >= 0) => Total(ExactBase(f, t)) = t
<1> DEFINE N == NonZero(f)
           b == Allocate(t, Magnitudes(f))
           x == ExactBase(f, t)
<1>1. /\ N \in SUBSET (DOMAIN f) /\ DOMAIN b = N /\ Ints(b, N) /\ Total(b) = t
      /\ \A p \in DOMAIN f : f[p] \in Int
  <2>1. /\ Weights(Magnitudes(f)) /\ DOMAIN Magnitudes(f) = N /\ N \subseteq DOMAIN f
    BY MagnitudesWork
  <2>2. DOMAIN Magnitudes(f) \subseteq Int
    BY <2>1, AmountsFinite
  <2> QED
    BY <2>1, <2>2, AllocateExactAndFair DEF IsAmounts
<1>2. /\ DOMAIN x = DOMAIN f
      /\ \A p \in DOMAIN f : x[p] = IF f[p] = 0 THEN 0 ELSE Sign(f[p]) * b[p]
  BY DEF ExactBase, Magnitudes
<1> HIDE DEF x, b
<1>3. \A p \in DOMAIN f : x[p] \in Int
  <2> SUFFICES ASSUME NEW p \in DOMAIN f, f[p] # 0 PROVE Sign(f[p]) * b[p] \in Int
    BY <1>2
  <2>1. p \in N /\ f[p] \in Int
    BY <1>1 DEF NonZero
  <2>2. b[p] \in Int
    BY <1>1, <2>1 DEF Ints
  <2>3. Sign(f[p]) \in Int
    BY <2>1 DEF Sign
  <2> QED
    BY <2>2, <2>3
<1>4. ASSUME \A p \in DOMAIN f : f[p] >= 0 PROVE Total(x) = t
  <2>1. \A p \in N : x[p] = b[p] /\ b[p] \in Int
    <3> SUFFICES ASSUME NEW p \in N PROVE x[p] = b[p] /\ b[p] \in Int
      OBVIOUS
    <3>1. b[p] \in Int /\ f[p] # 0 /\ f[p] \in Int /\ f[p] >= 0 /\ p \in DOMAIN f
      BY <1>1, <1>4 DEF Ints, NonZero
    <3>2. x[p] = Sign(f[p]) * b[p] /\ Sign(f[p]) = 1
      BY <1>2, <3>1 DEF Sign
    <3> QED
      BY <3>1, <3>2
  <2>2. \A p \in DOMAIN f \ N : x[p] = 0
    BY <1>2 DEF NonZero
  <2>3. Total(x) = Sum(x, DOMAIN f) /\ Total(b) = Sum(b, N)
    BY <1>1, <1>2, TotalIsSum
  <2>4. IsFiniteSet(DOMAIN f) /\ IsFiniteSet(N) /\ Ints(x, DOMAIN f) /\ Ints(b, N)
    BY <1>1, <1>3, AmountsFinite, FS_Subset DEF Ints
  <2>5. Sum(x, DOMAIN f) = Sum(x, N)
    BY <1>1, <2>2, <2>4, SumZeros
  <2>6. Sum(b, N) = Sum(x, N)
    BY <2>1, <2>4, SumSame
  <2> QED
    BY <1>1, <2>3, <2>5, <2>6
<1>5. IsAmounts(x)
  BY <1>2, <1>3 DEF IsAmounts
<1> QED
  BY <1>2, <1>4, <1>5 DEF x

\* The adjustments go back on what is split without them.
LEMMA AdjustmentsWork ==
  ASSUME NEW S, S \subseteq Participants, S # {}, NEW f, IsAmounts(f), DOMAIN f \subseteq S,
         NEW t \in Int
  PROVE  /\ IsAmounts(AllocateWithAdjustments(t, S, f))
         /\ Total(AllocateWithAdjustments(t, S, f)) = t
<1> DEFINE a == AllocateWithAdjustments(t, S, f)
           b == Allocate(t - Total(f), EqualWeights(S))
           g == [p \in S |-> IF p \in DOMAIN f THEN f[p] ELSE 0]
<1>1. /\ Total(f) \in Int /\ Total(f) = Sum(f, DOMAIN f) /\ IsFiniteSet(S) /\ S \subseteq Int
      /\ IsFiniteSet(DOMAIN f) /\ Ints(f, DOMAIN f)
  BY AmountsFinite, ConstantsAssumption, FS_Subset
<1>2. DOMAIN b = S /\ Ints(b, S) /\ Total(b) = t - Total(f)
  <2>1. t - Total(f) \in Int
    BY <1>1
  <2>2. Weights(EqualWeights(S)) /\ DOMAIN EqualWeights(S) = S
    BY EqualWeightsWork
  <2> HIDE DEF b
  <2>3. DOMAIN b = DOMAIN EqualWeights(S) /\ Ints(b, DOMAIN EqualWeights(S)) /\ Total(b) = t - Total(f)
    BY <1>1, <2>1, <2>2, AllocateExactAndFair DEF b
  <2> QED
    BY <2>2, <2>3
<1>3. DOMAIN a = S /\ \A p \in S : a[p] = b[p] + g[p]
  BY DEF AllocateWithAdjustments
<1>4. Ints(g, S) /\ Sum(g, S) = Sum(f, DOMAIN f)
  <2>1. Ints(g, S) /\ \A p \in S \ DOMAIN f : g[p] = 0
    BY <1>1 DEF Ints
  <2>2. \A p \in DOMAIN f : f[p] = g[p]
    OBVIOUS
  <2> HIDE DEF g
  <2>3. Sum(g, S) = Sum(g, DOMAIN f)
    BY <1>1, <2>1, SumZeros
  <2>4. Sum(f, DOMAIN f) = Sum(g, DOMAIN f)
    BY <1>1, <2>2, SumSame
  <2> QED
    BY <2>1, <2>3, <2>4
<1> HIDE DEF a, b, g
<1>5. Sum(a, S) = Sum(b, S) + Sum(g, S)
  BY <1>1, <1>2, <1>3, <1>4, SumPlus
<1>6. Total(a) = Sum(a, S) /\ Total(b) = Sum(b, S)
  BY <1>2, <1>3, TotalIsSum
<1>7. Total(a) = t
  BY <1>1, <1>2, <1>4, <1>5, <1>6
<1>8. IsAmounts(a)
  <2>1. \A p \in S : a[p] \in Int
    BY <1>2, <1>3, <1>4 DEF Ints
  <2> QED
    BY <1>3, <2>1 DEF IsAmounts
<1> QED
  BY <1>7, <1>8 DEF a

LEMMA BaseAdjustmentsWork ==
  ASSUME NEW f, IsAmounts(f), NEW t \in Int, t # 0, NEW u \in Int
  PROVE  /\ IsAmounts(BaseAdjustments(f, t, u))
         /\ DOMAIN BaseAdjustments(f, t, u) \subseteq DOMAIN f
<1> DEFINE b == BaseAdjustments(f, t, u)
<1>1. CASE Total(f) = 0
  <2>1. b = << >>
    BY <1>1 DEF BaseAdjustments
  <2>2. DOMAIN b = {}
    BY <2>1
  <2> QED
    BY <2>2 DEF IsAmounts
<1>2. CASE Total(f) # 0
  <2> DEFINE k == Truncated(u * Total(f), t)
             a == Allocate(k, Magnitudes(f))
  <2>1. k \in Int
    <3>1. u * Total(f) \in Int
      BY AmountsFinite
    <3> QED
      BY <3>1, Quotients
  <2>2. /\ Weights(Magnitudes(f)) /\ DOMAIN Magnitudes(f) = NonZero(f) /\ NonZero(f) \subseteq DOMAIN f
    BY <1>2, MagnitudesWork
  <2>3. \A p \in NonZero(f) : a[p] \in Int
    <3>1. DOMAIN Magnitudes(f) \subseteq Int
      BY <2>2, AmountsFinite
    <3> QED
      BY <2>1, <2>2, <3>1, AllocateExactAndFair DEF Ints
  <2>4. b = [p \in NonZero(f) |-> Sign(f[p]) * a[p]]
    BY <1>2 DEF BaseAdjustments, Magnitudes
  <2> HIDE DEF a
  <2>5. \A p \in NonZero(f) : Sign(f[p]) * a[p] \in Int
    <3> SUFFICES ASSUME NEW p \in NonZero(f) PROVE Sign(f[p]) * a[p] \in Int
      OBVIOUS
    <3>1. a[p] \in Int /\ Sign(f[p]) \in Int
      BY <2>2, <2>3, Quotients DEF IsAmounts
    <3> QED
      BY <3>1
  <2> QED
    BY <2>2, <2>4, <2>5 DEF IsAmounts
<1> QED
  BY <1>1, <1>2

\* resolveSplit(): the native shares sum to the total, and so do the base shares unless
\* exact amounts of both signs were given.
LEMMA ResolveSplitExact ==
  ASSUME NEW split, IsSplit(split), NEW t \in Int, t # 0, NEW u \in Int, SplitAccepted(split, t)
  PROVE  LET r == ResolveSplit(split, t, u) IN
         /\ IsAmounts(r.native) /\ IsAmounts(r.base)
         /\ Total(r.native) = t
         /\ (split.method = "EXACT" => \A p \in DOMAIN split.given : split.given[p] >= 0)
              => Total(r.base) = u
<1> DEFINE r == ResolveSplit(split, t, u)
<1>1. ASSUME NEW w, Weights(w), DOMAIN w \subseteq Participants
      PROVE  \A k \in Int : IsAmounts(Allocate(k, w)) /\ Total(Allocate(k, w)) = k
  <2> SUFFICES ASSUME NEW k \in Int
               PROVE  IsAmounts(Allocate(k, w)) /\ Total(Allocate(k, w)) = k
    OBVIOUS
  <2> DEFINE a == Allocate(k, w)
  <2>1. DOMAIN w \subseteq Int
    BY <1>1, ConstantsAssumption
  <2>2. DOMAIN a = DOMAIN w /\ Ints(a, DOMAIN w) /\ Total(a) = k
    BY <1>1, <2>1, AllocateExactAndFair
  <2> HIDE DEF a
  <2> QED
    BY <1>1, <2>2 DEF IsAmounts, Ints, a
<1>2. CASE split.method = "EQUAL"
  <2>1. r = Both(Allocate(t, EqualWeights(split.who)), Allocate(u, EqualWeights(split.who)))
    BY <1>2 DEF ResolveSplit
  <2>2. split.who \subseteq Participants /\ split.who # {}
    BY <1>2 DEF IsSplit
  <2>3. Weights(EqualWeights(split.who)) /\ DOMAIN EqualWeights(split.who) \subseteq Participants
    BY <2>2, EqualWeightsWork
  <2> HIDE DEF r
  <2> QED
    BY <1>1, <2>1, <2>3 DEF Both, r
<1>3. CASE split.method \in {"SHARES", "PERCENT"}
  <2>1. r = Both(Allocate(t, split.given), Allocate(u, split.given))
    BY <1>3 DEF ResolveSplit
  <2>2. /\ IsAmounts(split.given) /\ \A p \in DOMAIN split.given : split.given[p] >= 0
        /\ Total(split.given) > 0
    BY <1>3 DEF IsSplit
  <2>3. Weights(split.given) /\ DOMAIN split.given \subseteq Participants
    BY <2>2, AmountsFinite DEF Weights, IsAmounts
  <2> HIDE DEF r
  <2> QED
    BY <1>1, <2>1, <2>3 DEF Both, r
<1>4. CASE split.method = "ADJUSTMENT"
  <2> DEFINE v == BaseAdjustments(split.given, t, u)
  <2>1. r = Both(AllocateWithAdjustments(t, split.who, split.given),
                 AllocateWithAdjustments(u, split.who, v))
    BY <1>4 DEF ResolveSplit
  <2>2. /\ split.who \subseteq Participants /\ split.who # {} /\ IsAmounts(split.given)
        /\ DOMAIN split.given \subseteq split.who
    BY <1>4 DEF IsSplit, SplitAccepted
  <2>3. IsAmounts(v) /\ DOMAIN v \subseteq split.who
    BY <2>2, BaseAdjustmentsWork
  <2> HIDE DEF r, v
  <2> QED
    BY <2>1, <2>2, <2>3, AdjustmentsWork DEF Both, r
<1>5. CASE split.method = "EXACT"
  <2>1. r = Both(split.given, ExactBase(split.given, u))
    BY <1>5 DEF ResolveSplit
  <2>2. IsAmounts(split.given) /\ Total(split.given) = t
    BY <1>5 DEF IsSplit, SplitAccepted
  <2>3. /\ IsAmounts(ExactBase(split.given, u))
        /\ (\A p \in DOMAIN split.given : split.given[p] >= 0) => Total(ExactBase(split.given, u)) = u
    BY <2>2, ExactBaseWorks
  <2> HIDE DEF r
  <2> QED
    BY <1>5, <2>1, <2>2, <2>3 DEF Both, r
<1>6. split.method \in {"EQUAL", "SHARES", "PERCENT", "ADJUSTMENT", "EXACT"}
  BY DEF IsSplit
<1> QED
  BY <1>2, <1>3, <1>4, <1>5, <1>6

\* resolvePayments(): likewise, unless several payers' amounts have both signs.
LEMMA ResolvePaymentsExact ==
  ASSUME NEW f, IsAmounts(f), NEW t \in Int, t # 0, NEW u \in Int, PaymentsAccepted(f, t)
  PROVE  LET r == ResolvePayments(f, u) IN
         /\ IsAmounts(r.native) /\ IsAmounts(r.base)
         /\ Total(r.native) = t
         /\ (\A p \in DOMAIN f : f[p] >= 0 \/ DOMAIN f = {p}) => Total(r.base) = u
<1> DEFINE r == ResolvePayments(f, u)
           D == DOMAIN f
<1>1. Total(f) = t /\ Total(f) # 0
  BY DEF PaymentsAccepted
<1>2. CASE Cardinality(D) = 1
  <2> DEFINE b == [p \in D |-> u]
  <2>1. r = Both(f, b)
    BY <1>2 DEF ResolvePayments
  <2>2. IsAmounts(b)
    BY DEF IsAmounts
  <2>3. PICK x : D = {x}
    BY <1>2, AmountsFinite, FS_Singleton
  <2>4. Total(b) = u
    <3>1. DOMAIN b = D /\ x \in D /\ b[x] = u /\ \A p \in D \ {x} : b[p] = 0
      BY <2>3
    <3>2. IsFiniteSet(D) /\ Ints(b, D)
      BY AmountsFinite DEF Ints
    <3> HIDE DEF b
    <3>3. Sum(b, D) = b[x]
      BY <3>1, <3>2, SumOne
    <3> QED
      BY <3>1, <3>3, TotalIsSum
  <2> HIDE DEF r, b
  <2> QED
    BY <1>1, <2>1, <2>2, <2>4 DEF Both, r
<1>3. CASE Cardinality(D) # 1
  <2>1. r = Both(f, ExactBase(f, u))
    BY <1>3 DEF ResolvePayments
  <2>2. /\ IsAmounts(ExactBase(f, u))
        /\ (\A p \in D : f[p] >= 0) => Total(ExactBase(f, u)) = u
    BY <1>1, ExactBaseWorks
  <2>3. \A p \in D : D # {p}
    BY <1>3, FS_Singleton
  <2>4. (\A p \in D : f[p] >= 0 \/ D = {p}) => Total(ExactBase(f, u)) = u
    BY <2>2, <2>3
  <2>5. r.native = f /\ r.base = ExactBase(f, u)
    BY <2>1 DEF Both
  <2> HIDE DEF r
  <2> QED
    BY <1>1, <2>2, <2>4, <2>5 DEF r
<1> QED
  BY <1>2, <1>3

\* What the resolver makes of an accepted body.
LEMMA ResolvedExact ==
  ASSUME NEW input \in Inputs, Resolved(input).outcome = "resolved"
  PROVE  LET a == Resolved(input) IN
         /\ a.input = input /\ a.totalBase \in Int
         /\ a.totalBase = ConvertMinor(input.total, input.rate)
         /\ a.shares = ResolveSplit(input.split, input.total, a.totalBase)
         /\ IsAmounts(a.shares.base) /\ IsAmounts(a.payments.base)
         /\ PlainAmounts(input) => SumsAgree(a)
<1> DEFINE a == Resolved(input)
           t == input.total
           u == ConvertMinor(t, input.rate)
<1>1. /\ IsBody(input) /\ t \in Int /\ t # 0 /\ IsSplit(input.split) /\ IsAmounts(input.payments)
  BY ConstantsAssumption DEF IsBody
<1>2. u \in Int
  <2>1. input.rate.num \in Nat /\ input.rate.den \in Nat \ {0}
    BY <1>1 DEF IsBody
  <2>2. t * input.rate.num \in Int
    BY <1>1, <2>1
  <2> QED
    BY <2>1, <2>2, Quotients DEF ConvertMinor
<1> HIDE DEF u
<1>3. SplitAccepted(input.split, t) /\ PaymentsAccepted(input.payments, t)
  BY DEF Resolved, Refused
<1>4. a = [outcome |-> "resolved", input |-> input, totalBase |-> u,
           shares |-> ResolveSplit(input.split, t, u),
           payments |-> ResolvePayments(input.payments, u)]
  BY <1>3 DEF Resolved, u
<1> DEFINE r == ResolveSplit(input.split, t, u)
           q == ResolvePayments(input.payments, u)
<1>5. /\ IsAmounts(r.native) /\ IsAmounts(r.base) /\ Total(r.native) = t
      /\ (input.split.method = "EXACT" => \A p \in DOMAIN input.split.given : input.split.given[p] >= 0)
           => Total(r.base) = u
  BY <1>1, <1>2, <1>3, ResolveSplitExact
<1>6. /\ IsAmounts(q.native) /\ IsAmounts(q.base) /\ Total(q.native) = t
      /\ (\A p \in DOMAIN input.payments : input.payments[p] >= 0 \/ DOMAIN input.payments = {p})
           => Total(q.base) = u
  BY <1>1, <1>2, <1>3, ResolvePaymentsExact
<1>7. a.input = input /\ a.totalBase = u /\ a.shares = r /\ a.payments = q
  BY <1>4
<1> HIDE DEF a, r, q
<1>8. PlainAmounts(input) => SumsAgree(a)
  BY <1>5, <1>6, <1>7 DEF PlainAmounts, SumsAgree
<1> QED
  BY <1>2, <1>5, <1>6, <1>7, <1>8 DEF a, r, u

-----------------------------------------------------------------------------
(* Every resolved attempt is exact and fair.                                 *)

\* The last attempt is what the resolver makes of some body.
AttemptSound ==
  attempt = Refused \/ \E input \in Inputs : attempt = Resolved(input)

LEMMA AttemptAlwaysSound == Spec => []AttemptSound
<1>1. Init => AttemptSound
  BY DEF Init, AttemptSound
<1>2. AttemptSound /\ [Next]_vars => AttemptSound'
  <2> SUFFICES ASSUME AttemptSound, [Next]_vars PROVE AttemptSound'
    OBVIOUS
  <2>1. ASSUME NEW input \in Inputs, CreateExpense(input) PROVE AttemptSound'
    <3>1. attempt' = Resolved(input)
      BY <2>1 DEF CreateExpense
    <3> QED
      BY <3>1 DEF AttemptSound, Resolved, Refused
  <2>2. ASSUME UNCHANGED attempt PROVE AttemptSound'
    BY <2>2 DEF AttemptSound, Resolved, Refused
  <2> QED
    BY <2>1, <2>2 DEF Next, RecordSuggestion, vars
<1> QED
  BY <1>1, <1>2, PTL DEF Spec

LEMMA SoundAttempt ==
  ASSUME AttemptSound, IsResolved
  PROVE  attempt.input \in Inputs /\ attempt = Resolved(attempt.input)
<1>1. attempt # Refused
  BY DEF IsResolved, Refused
<1>2. PICK input \in Inputs : attempt = Resolved(input)
  BY <1>1 DEF AttemptSound
<1>3. attempt.input = input
  BY <1>2, ResolvedExact DEF IsResolved
<1> QED
  BY <1>2, <1>3

LEMMA ResolvedSumsExactly == ASSUME AttemptSound PROVE SplitSumsExactly
<1> SUFFICES ASSUME IsResolved, PlainAmounts(attempt.input) PROVE SumsAgree(attempt)
  BY DEF SplitSumsExactly
<1>1. attempt.input \in Inputs /\ attempt = Resolved(attempt.input)
  BY SoundAttempt
<1>2. Resolved(attempt.input).outcome = "resolved"
  BY <1>1 DEF IsResolved
<1>3. PlainAmounts(attempt.input) => SumsAgree(Resolved(attempt.input))
  BY <1>1, <1>2, ResolvedExact
<1> QED
  BY <1>1, <1>3

LEMMA ResolvedFair == ASSUME AttemptSound PROVE WeightedSplitFair
<1> DEFINE split == attempt.input.split
           w == split.given
           u == attempt.totalBase
           share == attempt.shares.base
<1> SUFFICES ASSUME IsResolved, split.method \in Weighted
             PROVE  \A p, q \in DOMAIN w :
                      /\ Abs(share[p] * Total(w) - u * w[p]) < Total(w)
                      /\ w[p] > w[q] => Abs(share[p]) >= Abs(share[q])
  BY DEF WeightedSplitFair
<1>1. attempt.input \in Inputs /\ attempt = Resolved(attempt.input)
  BY SoundAttempt
<1>2. Resolved(attempt.input).outcome = "resolved"
  BY <1>1 DEF IsResolved
<1>3. u \in Int /\ attempt.shares = ResolveSplit(split, attempt.input.total, u)
  BY <1>1, <1>2, ResolvedExact
<1>4. share = Allocate(u, w)
  BY <1>3 DEF ResolveSplit, Both, Weighted
<1>5. Weights(w) /\ DOMAIN w \subseteq Int
  <2>1. IsSplit(split)
    BY <1>1, ConstantsAssumption DEF IsBody
  <2>2. /\ IsAmounts(w) /\ \A p \in DOMAIN w : w[p] >= 0
        /\ Total(w) > 0
    BY <2>1 DEF IsSplit, Weighted
  <2> QED
    BY <2>2, AmountsFinite DEF Weights, IsAmounts
<1> HIDE DEF share, w, u
<1> QED
  BY <1>3, <1>4, <1>5, AllocateExactAndFair DEF u, w

\* An accepted body, whatever the split method, the rate, the sign and the remainders,
\* resolves into shares and payments that sum exactly in both currencies, and a
\* weighted split is within one unit of proportion and never favours the larger weight
\* (resolveSplit, resolvePayments, allocate).
THEOREM SplitsAlwaysExactAndFair == Spec => []SplitsExactAndFair
<1>1. AttemptSound => SplitsExactAndFair
  BY ResolvedSumsExactly, ResolvedFair DEF SplitsExactAndFair
<1> QED
  BY <1>1, AttemptAlwaysSound, PTL

-----------------------------------------------------------------------------
(* Recursion over the numbers up to a bound.                                 *)

LEMMA UpTo ==
  ASSUME NEW m \in Nat, NEW Good, 0 \in Good,
         \A n \in 0 .. m - 1 : n \in Good => n + 1 \in Good
  PROVE  \A n \in 0 .. m : n \in Good
<1> SUFFICES ASSUME NEW k \in 0 .. m, k \notin Good PROVE FALSE
  OBVIOUS
<1> DEFINE Bad == {n \in 0 .. m : n \notin Good}
<1>1. PICK n \in Bad : \A j \in Bad : ~ (<<j, n>> \in OpToRel(<, Nat))
  <2>1. Bad \subseteq Nat /\ Bad # {}
    OBVIOUS
  <2> HIDE DEF Bad
  <2> QED
    BY <2>1, NatLessThanWellFounded, WFMin
<1>2. n # 0 /\ n \in 0 .. m /\ n \notin Good
  BY <1>1
<1>3. n - 1 \in 0 .. m - 1
  BY <1>2
<1>4. \A j \in Bad : ~ (j < n)
  <2>1. Bad \subseteq Nat
    OBVIOUS
  <2> HIDE DEF Bad
  <2> QED
    BY <1>1, <2>1 DEF OpToRel
<1>5. n - 1 \in Good
  BY <1>2, <1>3, <1>4
<1>6. (n - 1) + 1 \in Good
  BY <1>3, <1>5
<1> QED
  BY <1>2, <1>6

\* A function defined by recursion exists when its step stays within a set.
IsStep(g, m, V) == g \in [(1 .. m) \X V -> V]
IsIterated(f, m, start, g) ==
  /\ f[0] = start
  /\ \A n \in 1 .. m : f[n] = g[<<n, f[n - 1]>>]

LEMMA Recursion ==
  ASSUME NEW m \in Nat, NEW V, NEW start \in V, NEW g, IsStep(g, m, V)
  PROVE  \E f \in [0 .. m -> V] : IsIterated(f, m, start, g)
<1> DEFINE Step(f, n) == IF n = 0 THEN start ELSE g[<<n, f[n - 1]>>]
           Good == {k \in 0 .. m : \E f \in [0 .. m -> V] : \A n \in 0 .. k : f[n] = Step(f, n)}
<1>1. 0 \in Good
  <2> DEFINE f == [n \in 0 .. m |-> start]
  <2>1. f \in [0 .. m -> V] /\ \A n \in 0 .. 0 : f[n] = Step(f, n)
    OBVIOUS
  <2>2. 0 \in 0 .. m
    OBVIOUS
  <2> HIDE DEF f
  <2> QED
    BY <2>1, <2>2
<1>2. ASSUME NEW k \in 0 .. m - 1, k \in Good PROVE k + 1 \in Good
  <2>1. PICK f \in [0 .. m -> V] : \A n \in 0 .. k : f[n] = Step(f, n)
    BY <1>2
  <2> DEFINE h == [f EXCEPT ![k + 1] = g[<<k + 1, f[k]>>]]
  <2>2. g[<<k + 1, f[k]>>] \in V
    <3>1. k + 1 \in 1 .. m /\ k \in 0 .. m
      OBVIOUS
    <3> QED
      BY <3>1 DEF IsStep
  <2>3. h \in [0 .. m -> V]
    BY <2>2
  <2>4. ASSUME NEW n \in 0 .. k + 1 PROVE h[n] = Step(h, n)
    <3>1. CASE n = k + 1
      <4>1. h[n] = g[<<n, f[k]>>] /\ h[n - 1] = f[k] /\ n # 0
        BY <3>1
      <4> QED
        BY <3>1, <4>1
    <3>2. CASE n # k + 1
      <4>1. n \in 0 .. k /\ h[n] = f[n] /\ (n # 0 => h[n - 1] = f[n - 1])
        BY <3>2
      <4> QED
        BY <2>1, <4>1
    <3> QED
      BY <3>1, <3>2
  <2>5. k + 1 \in 0 .. m
    OBVIOUS
  <2> HIDE DEF h
  <2> QED
    BY <2>3, <2>4, <2>5
<1>3. m \in Good
  <2> HIDE DEF Good
  <2> QED
    BY <1>1, <1>2, UpTo
<1>4. PICK f \in [0 .. m -> V] : \A n \in 0 .. m : f[n] = Step(f, n)
  BY <1>3
<1>5. f[0] = start
  <2>1. 0 \in 0 .. m
    OBVIOUS
  <2> QED
    BY <1>4, <2>1
<1>6. ASSUME NEW n \in 1 .. m PROVE f[n] = g[<<n, f[n - 1]>>]
  <2>1. n \in 0 .. m /\ n # 0
    OBVIOUS
  <2>2. f[n] = Step(f, n)
    BY <1>4, <2>1
  <2> QED
    BY <2>1, <2>2
<1> QED
  BY <1>5, <1>6 DEF IsIterated

-----------------------------------------------------------------------------
(* simplify(): the loop.                                                     *)

Debt(net) == {p \in Participants : net[p] < 0}
Credit(net) == {p \in Participants : net[p] > 0}

TransferSet == [from : Participants, to : Participants, amount : Int]
LoopStates == [d : Nat \ {0}, c : Nat \ {0}, left : [Participants -> Int], made : Seq(TransferSet)]

\* Both sides of balances that net to zero, each listed in some order.
Sides(net, debtors, creditors) ==
  /\ net \in [Participants -> Int] /\ Sum(net, Participants) = 0
  /\ debtors \in Bijection(1 .. Cardinality(Debt(net)), Debt(net))
  /\ creditors \in Bijection(1 .. Cardinality(Credit(net)), Credit(net))

LEMMA SidesListed ==
  ASSUME NEW net, NEW debtors, NEW creditors, Sides(net, debtors, creditors)
  PROVE  /\ IsFiniteSet(Participants) /\ IsFiniteSet(Debt(net)) /\ IsFiniteSet(Credit(net))
         /\ Len(debtors) \in Nat /\ Len(debtors) = Cardinality(Debt(net))
         /\ Len(creditors) \in Nat /\ Len(creditors) = Cardinality(Credit(net))
         /\ debtors \in [1 .. Len(debtors) -> Debt(net)]
         /\ creditors \in [1 .. Len(creditors) -> Credit(net)]
         /\ \A p \in Debt(net) : \E i \in 1 .. Len(debtors) : debtors[i] = p
         /\ \A p \in Credit(net) : \E i \in 1 .. Len(creditors) : creditors[i] = p
         /\ \A i, j \in 1 .. Len(debtors) : debtors[i] = debtors[j] => i = j
         /\ \A i, j \in 1 .. Len(creditors) : creditors[i] = creditors[j] => i = j
<1>1. IsFiniteSet(Participants) /\ IsFiniteSet(Debt(net)) /\ IsFiniteSet(Credit(net))
  BY ConstantsAssumption, FS_Subset DEF Debt, Credit
<1>2. Cardinality(Debt(net)) \in Nat /\ Cardinality(Credit(net)) \in Nat
  BY <1>1, FS_CardinalityType
<1>3. Len(debtors) = Cardinality(Debt(net)) /\ Len(creditors) = Cardinality(Credit(net))
  BY <1>2 DEF Sides, Bijection, Injection
<1> QED
  BY <1>1, <1>2, <1>3 DEF Sides, Bijection, Injection, Surjection, IsInjective

LEMMA TurnTyped ==
  ASSUME NEW net, NEW debtors, NEW creditors, Sides(net, debtors, creditors),
         NEW s \in LoopStates
  PROVE  Turn(debtors, creditors, s) \in LoopStates
<1>1. CASE s.d > Len(debtors) \/ s.c > Len(creditors)
  BY <1>1 DEF Turn
<1>2. CASE ~ (s.d > Len(debtors) \/ s.c > Len(creditors))
  <2> DEFINE from == debtors[s.d]
             to == creditors[s.c]
             amount == IF s.left[from] < s.left[to] THEN s.left[from] ELSE s.left[to]
             left == [s.left EXCEPT ![from] = @ - amount, ![to] = @ - amount]
  <2>1. s.d \in 1 .. Len(debtors) /\ s.c \in 1 .. Len(creditors)
    BY <1>2, SidesListed DEF LoopStates
  <2>2. from \in Participants /\ to \in Participants
    <3>1. from \in Debt(net) /\ to \in Credit(net)
      BY <2>1, SidesListed
    <3> QED
      BY <3>1 DEF Debt, Credit
  <2>3. amount \in Int /\ left \in [Participants -> Int]
    BY <2>2 DEF LoopStates
  <2>4. Append(s.made, Transfer(from, to, amount)) \in Seq(TransferSet)
    <3>1. Transfer(from, to, amount) \in TransferSet
      BY <2>2, <2>3 DEF Transfer, TransferSet
    <3> QED
      BY <3>1 DEF LoopStates
  <2>5. Turn(debtors, creditors, s) =
          [d |-> IF left[from] = 0 THEN s.d + 1 ELSE s.d,
           c |-> IF left[to] = 0 THEN s.c + 1 ELSE s.c,
           left |-> left,
           made |-> Append(s.made, Transfer(from, to, amount))]
    BY <1>2 DEF Turn
  <2> HIDE DEF from, to, amount, left
  <2>6. /\ (IF left[from] = 0 THEN s.d + 1 ELSE s.d) \in Nat \ {0}
        /\ (IF left[to] = 0 THEN s.c + 1 ELSE s.c) \in Nat \ {0}
    BY DEF LoopStates
  <2> QED
    BY <2>3, <2>4, <2>5, <2>6 DEF LoopStates
<1> QED
  BY <1>1, <1>2

LEMMA MatchedRuns ==
  ASSUME NEW net, NEW debtors, NEW creditors, Sides(net, debtors, creditors),
         NEW amounts \in [Participants -> Int]
  PROVE  LET turns == Len(debtors) + Len(creditors) IN
         \E run \in [0 .. turns -> LoopStates] :
           /\ run[0] = [d |-> 1, c |-> 1, left |-> amounts, made |-> << >>]
           /\ \A n \in 1 .. turns : run[n] = Turn(debtors, creditors, run[n - 1])
           /\ Matched(debtors, creditors, amounts) = run[turns].made
<1> DEFINE turns == Len(debtors) + Len(creditors)
           start == [d |-> 1, c |-> 1, left |-> amounts, made |-> << >>]
           g == [e \in (1 .. turns) \X LoopStates |-> Turn(debtors, creditors, e[2])]
           IsRun(f) == f = [n \in 0 .. turns |-> IF n = 0 THEN start
                                                 ELSE Turn(debtors, creditors, f[n - 1])]
           run == CHOOSE f : IsRun(f)
<1>1. turns \in Nat
  BY SidesListed
<1>2. start \in LoopStates
  BY DEF LoopStates
<1>3. IsStep(g, turns, LoopStates)
  BY TurnTyped DEF IsStep
<1>4. \A n \in 1 .. turns, s \in LoopStates : g[<<n, s>>] = Turn(debtors, creditors, s)
  OBVIOUS
<1> HIDE DEF turns, start, g
<1>5. \E f : IsRun(f) /\ f \in [0 .. turns -> LoopStates]
  <2>1. PICK f \in [0 .. turns -> LoopStates] : IsIterated(f, turns, start, g)
    BY <1>1, <1>2, <1>3, Recursion
  <2>2. ASSUME NEW n \in 1 .. turns PROVE f[n] = Turn(debtors, creditors, f[n - 1])
    <3>1. n - 1 \in 0 .. turns
      BY <1>1
    <3>2. f[n - 1] \in LoopStates
      BY <2>1, <3>1
    <3> QED
      BY <1>4, <2>1, <3>2 DEF IsIterated
  <2>3. \A n \in 0 .. turns : f[n] = IF n = 0 THEN start ELSE Turn(debtors, creditors, f[n - 1])
    BY <1>1, <2>1, <2>2 DEF IsIterated
  <2>4. IsRun(f)
    BY <2>1, <2>3
  <2> QED
    BY <2>1, <2>4
<1>6. IsRun(run)
  BY <1>5
<1>7. Matched(debtors, creditors, amounts) = run[turns].made
  BY DEF Matched, turns, start
<1> HIDE DEF run
<1>8. \A n \in 0 .. turns : run[n] \in LoopStates
  <2> DEFINE Good == {n \in 0 .. turns : run[n] \in LoopStates}
  <2>1. 0 \in Good
    BY <1>1, <1>2, <1>6
  <2>2. ASSUME NEW n \in 0 .. turns - 1, n \in Good PROVE n + 1 \in Good
    <3>1. n + 1 \in 0 .. turns /\ (n + 1) - 1 = n /\ n + 1 # 0
      BY <1>1
    <3>2. run[n + 1] = Turn(debtors, creditors, run[n])
      BY <1>6, <3>1
    <3> QED
      BY <2>2, <3>1, <3>2, TurnTyped
  <2>3. \A n \in 0 .. turns : n \in Good
    <3> HIDE DEF Good
    <3> QED
      BY <1>1, <2>1, <2>2, UpTo
  <2> QED
    BY <2>3
<1>9. run \in [0 .. turns -> LoopStates]
  BY <1>6, <1>8
<1>10. run[0] = start /\ \A n \in 1 .. turns : run[n] = Turn(debtors, creditors, run[n - 1])
  BY <1>1, <1>6
<1> QED
  BY <1>7, <1>9, <1>10 DEF turns, start

\* Where the loop stands: everybody before the two pointers is square, everybody from
\* them on still holds something, at most what they began with, and both sides hold
\* the same.
LoopSound(net, debtors, creditors, s) ==
  /\ s \in LoopStates
  /\ s.d <= Len(debtors) + 1 /\ s.c <= Len(creditors) + 1
  /\ \A i \in 1 .. Len(debtors) : /\ i < s.d => s.left[debtors[i]] = 0
                                  /\ i >= s.d => s.left[debtors[i]] > 0
  /\ \A i \in 1 .. Len(creditors) : /\ i < s.c => s.left[creditors[i]] = 0
                                    /\ i >= s.c => s.left[creditors[i]] > 0
  /\ \A p \in Debt(net) : s.left[p] >= 0 /\ s.left[p] <= - net[p]
  /\ \A p \in Credit(net) : s.left[p] >= 0 /\ s.left[p] <= net[p]
  /\ Sum(s.left, Debt(net)) = Sum(s.left, Credit(net))

\* One turn moves `amount`, all that one of the two still holds.
Moves(s, t, from, to, amount) ==
  /\ amount \in Int /\ amount > 0
  /\ amount <= s.left[from] /\ amount <= s.left[to]
  /\ amount = s.left[from] \/ amount = s.left[to]
  /\ t.left = [s.left EXCEPT ![from] = @ - amount, ![to] = @ - amount]
  /\ t.left[from] = s.left[from] - amount /\ t.left[to] = s.left[to] - amount
  /\ t.d = IF amount = s.left[from] THEN s.d + 1 ELSE s.d
  /\ t.c = IF amount = s.left[to] THEN s.c + 1 ELSE s.c
  /\ t.made = Append(s.made, Transfer(from, to, amount))

LEMMA TurnMoves ==
  ASSUME NEW net, NEW debtors, NEW creditors, Sides(net, debtors, creditors),
         NEW s, LoopSound(net, debtors, creditors, s), s.d <= Len(debtors), s.c <= Len(creditors)
  PROVE  /\ s.d \in 1 .. Len(debtors) /\ s.c \in 1 .. Len(creditors)
         /\ debtors[s.d] \in Debt(net) /\ creditors[s.c] \in Credit(net)
         /\ debtors[s.d] # creditors[s.c]
         /\ \E amount \in Int :
              Moves(s, Turn(debtors, creditors, s), debtors[s.d], creditors[s.c], amount)
<1> DEFINE from == debtors[s.d]
           to == creditors[s.c]
           amount == IF s.left[from] < s.left[to] THEN s.left[from] ELSE s.left[to]
           left == [s.left EXCEPT ![from] = @ - amount, ![to] = @ - amount]
           t == Turn(debtors, creditors, s)
<1>1. s.d \in 1 .. Len(debtors) /\ s.c \in 1 .. Len(creditors)
  BY SidesListed DEF LoopSound, LoopStates
<1>2. from \in Debt(net) /\ to \in Credit(net)
  BY <1>1, SidesListed
<1>3. from # to /\ from \in Participants /\ to \in Participants
  <2>1. from \in Participants /\ to \in Participants /\ net[from] < 0 /\ net[to] > 0
    BY <1>2 DEF Debt, Credit
  <2> HIDE DEF from, to
  <2>2. net[from] \in Int /\ net[to] \in Int
    BY <2>1 DEF Sides
  <2> QED
    BY <2>1, <2>2
<1>4. s.left \in [Participants -> Int] /\ s.d \in Int /\ s.c \in Int
  BY DEF LoopSound, LoopStates
<1>5. s.left[from] > 0 /\ s.left[to] > 0
  <2>1. /\ \A i \in 1 .. Len(debtors) : i >= s.d => s.left[debtors[i]] > 0
        /\ \A i \in 1 .. Len(creditors) : i >= s.c => s.left[creditors[i]] > 0
    BY DEF LoopSound
  <2>2. s.d >= s.d /\ s.c >= s.c
    BY <1>4
  <2> QED
    BY <1>1, <2>1, <2>2
<1>6. ~ (s.d > Len(debtors) \/ s.c > Len(creditors))
  BY <1>1, <1>4
<1>7. t = [d |-> IF left[from] = 0 THEN s.d + 1 ELSE s.d,
           c |-> IF left[to] = 0 THEN s.c + 1 ELSE s.c,
           left |-> left,
           made |-> Append(s.made, Transfer(from, to, amount))]
  BY <1>6 DEF Turn
<1> HIDE DEF from, to, t
<1>8. /\ amount \in Int /\ amount > 0 /\ amount <= s.left[from] /\ amount <= s.left[to]
      /\ amount = s.left[from] \/ amount = s.left[to]
  BY <1>3, <1>4, <1>5
<1>9. left[from] = s.left[from] - amount /\ left[to] = s.left[to] - amount
  BY <1>3, <1>4
<1>10. /\ s.left[from] \in Int /\ s.left[to] \in Int
  BY <1>3, <1>4
<1> HIDE DEF amount
<1>11. /\ left[from] = 0 <=> amount = s.left[from]
       /\ left[to] = 0 <=> amount = s.left[to]
  BY <1>8, <1>9, <1>10
<1>12. Moves(s, t, from, to, amount)
  <2>1. t.left = left /\ t.made = Append(s.made, Transfer(from, to, amount))
    BY <1>7
  <2>2. /\ t.d = IF left[from] = 0 THEN s.d + 1 ELSE s.d
        /\ t.c = IF left[to] = 0 THEN s.c + 1 ELSE s.c
    BY <1>7
  <2>3. t.left[from] = s.left[from] - amount /\ t.left[to] = s.left[to] - amount
    BY <1>9, <2>1
  <2>4. /\ t.d = IF amount = s.left[from] THEN s.d + 1 ELSE s.d
        /\ t.c = IF amount = s.left[to] THEN s.c + 1 ELSE s.c
    BY <1>11, <2>2
  <2> QED
    BY <1>8, <2>1, <2>3, <2>4 DEF Moves
<1> QED
  BY <1>1, <1>2, <1>3, <1>8, <1>12 DEF from, to, t

\* A pointer that passes its list shows that both sides are square.
LEMMA DoneTogether ==
  ASSUME NEW net, NEW debtors, NEW creditors, Sides(net, debtors, creditors),
         NEW s, LoopSound(net, debtors, creditors, s),
         s.d = Len(debtors) + 1 \/ s.c = Len(creditors) + 1
  PROVE  /\ s.d = Len(debtors) + 1 /\ s.c = Len(creditors) + 1
         /\ \A p \in Debt(net) \cup Credit(net) : s.left[p] = 0
<1> DEFINE D == Debt(net)
           C == Credit(net)
<1>1. /\ s.left \in [Participants -> Int] /\ s.d \in Nat \ {0} /\ s.c \in Nat \ {0}
      /\ s.d <= Len(debtors) + 1 /\ s.c <= Len(creditors) + 1
      /\ Len(debtors) \in Nat /\ Len(creditors) \in Nat
  BY SidesListed DEF LoopSound, LoopStates
<1>2. IsFiniteSet(D) /\ IsFiniteSet(C) /\ Ints(s.left, D) /\ Ints(s.left, C)
  BY <1>1, SidesListed DEF Debt, Credit, Ints
<1>3. (\A p \in D : s.left[p] >= 0) /\ (\A p \in C : s.left[p] >= 0)
  BY DEF LoopSound
<1>4. Sum(s.left, D) = Sum(s.left, C)
  BY DEF LoopSound
<1>5. ASSUME \A p \in D : s.left[p] = 0 PROVE \A p \in C : s.left[p] = 0
  <2>1. Sum(s.left, D) = 0
    <3>1. {} \in SUBSET D /\ \A p \in D \ {} : s.left[p] = 0
      BY <1>5
    <3> QED
      BY <1>2, <3>1, SumZeros, SumEmpty
  <2>2. \A p \in C : s.left[p] <= 0
    BY <1>2, <1>3, <1>4, <2>1, SumNotNegative
  <2> QED
    BY <1>2, <1>3, <2>2 DEF Ints
<1>6. ASSUME \A p \in C : s.left[p] = 0 PROVE \A p \in D : s.left[p] = 0
  <2>1. Sum(s.left, C) = 0
    <3>1. {} \in SUBSET C /\ \A p \in C \ {} : s.left[p] = 0
      BY <1>6
    <3> QED
      BY <1>2, <3>1, SumZeros, SumEmpty
  <2>2. \A p \in D : s.left[p] <= 0
    BY <1>2, <1>3, <1>4, <2>1, SumNotNegative
  <2> QED
    BY <1>2, <1>3, <2>2 DEF Ints
<1>7. s.d = Len(debtors) + 1 <=> \A p \in D : s.left[p] = 0
  <2>1. ASSUME s.d = Len(debtors) + 1, NEW p \in D PROVE s.left[p] = 0
    <3>1. PICK i \in 1 .. Len(debtors) : debtors[i] = p
      BY SidesListed
    <3>2. i < s.d
      BY <1>1, <2>1
    <3> QED
      BY <3>1, <3>2 DEF LoopSound
  <2>2. ASSUME s.d # Len(debtors) + 1 PROVE \E p \in D : s.left[p] # 0
    <3>1. s.d \in 1 .. Len(debtors)
      BY <1>1, <2>2
    <3>2. debtors[s.d] \in D
      BY <3>1, SidesListed
    <3>3. s.left[debtors[s.d]] > 0
      BY <1>1, <3>1 DEF LoopSound
    <3> QED
      BY <3>2, <3>3
  <2> QED
    BY <2>1, <2>2
<1>8. s.c = Len(creditors) + 1 <=> \A p \in C : s.left[p] = 0
  <2>1. ASSUME s.c = Len(creditors) + 1, NEW p \in C PROVE s.left[p] = 0
    <3>1. PICK i \in 1 .. Len(creditors) : creditors[i] = p
      BY SidesListed
    <3>2. i < s.c
      BY <1>1, <2>1
    <3> QED
      BY <3>1, <3>2 DEF LoopSound
  <2>2. ASSUME s.c # Len(creditors) + 1 PROVE \E p \in C : s.left[p] # 0
    <3>1. s.c \in 1 .. Len(creditors)
      BY <1>1, <2>2
    <3>2. creditors[s.c] \in C
      BY <3>1, SidesListed
    <3>3. s.left[creditors[s.c]] > 0
      BY <1>1, <3>1 DEF LoopSound
    <3> QED
      BY <3>2, <3>3
  <2> QED
    BY <2>1, <2>2
<1> HIDE DEF D, C
<1>9. (\A p \in D : s.left[p] = 0) /\ (\A p \in C : s.left[p] = 0)
  BY <1>5, <1>6, <1>7, <1>8
<1> QED
  BY <1>7, <1>8, <1>9 DEF D, C

\* One term changes.
LEMMA SumChanged ==
  ASSUME NEW S, IsFiniteSet(S), NEW f, NEW g, Ints(f, S), NEW x \in S, NEW k \in Int,
         g[x] = f[x] - k, \A y \in S \ {x} : g[y] = f[y]
  PROVE  Sum(g, S) = Sum(f, S) - k
<1>1. /\ IsFiniteSet(S \ {x}) /\ Ints(f, S \ {x}) /\ f[x] \in Int
  BY FS_RemoveElement DEF Ints
<1>2. Ints(g, S)
  <2> SUFFICES ASSUME NEW y \in S PROVE g[y] \in Int
    BY DEF Ints
  <2>1. CASE y = x
    BY <1>1, <2>1
  <2>2. CASE y # x
    BY <2>2 DEF Ints
  <2> QED
    BY <2>1, <2>2
<1>3. Sum(g, S) = g[x] + Sum(g, S \ {x}) /\ Sum(f, S) = f[x] + Sum(f, S \ {x})
  BY <1>2, SumSplit
<1>4. Sum(f, S \ {x}) = Sum(g, S \ {x}) /\ Sum(f, S \ {x}) \in Int
  BY <1>1, SumSame, SumIsPartial
<1> QED
  BY <1>1, <1>3, <1>4

LEMMA LoopStartsSound ==
  ASSUME NEW net, NEW debtors, NEW creditors, Sides(net, debtors, creditors)
  PROVE  LoopSound(net, debtors, creditors,
           [d |-> 1, c |-> 1, left |-> [p \in Participants |-> Abs(net[p])], made |-> << >>])
<1> DEFINE D == Debt(net)
           C == Credit(net)
           left == [p \in Participants |-> Abs(net[p])]
           s == [d |-> 1, c |-> 1, left |-> left, made |-> << >>]
           minus == [p \in D |-> - net[p]]
<1>1. /\ \A p \in Participants : net[p] \in Int /\ left[p] \in Int
      /\ \A p \in D : p \in Participants /\ net[p] < 0 /\ left[p] = - net[p]
      /\ \A p \in C : p \in Participants /\ net[p] > 0 /\ left[p] = net[p]
      /\ left \in [Participants -> Int]
  BY DEF Sides, Debt, Credit, Abs
<1> HIDE DEF left
<1>2. s \in LoopStates
  BY <1>1 DEF LoopStates
<1>3. IsFiniteSet(D) /\ IsFiniteSet(C) /\ IsFiniteSet(Participants)
  BY SidesListed
<1>4. Sum(left, D) = Sum(left, C)
  <2>1. Ints(net, Participants) /\ Ints(net, D) /\ Ints(net, C) /\ Ints(left, D) /\ Ints(left, C)
    BY <1>1 DEF Ints
  <2>2. Sum(net, Participants) = Sum(net, D) + Sum(net, Participants \ D)
    <3>1. D \in SUBSET Participants
      BY DEF Debt
    <3> QED
      BY <1>3, <2>1, <3>1, SumParts
  <2>3. Sum(net, Participants \ D) = Sum(net, C)
    <3>1. C \in SUBSET (Participants \ D) /\ \A p \in (Participants \ D) \ C : net[p] = 0
      BY <1>1 DEF Debt, Credit
    <3>2. IsFiniteSet(Participants \ D) /\ Ints(net, Participants \ D)
      BY <1>1, <1>3, FS_Subset DEF Ints
    <3> QED
      BY <3>1, <3>2, SumZeros
  <2>4. Sum(left, D) = - Sum(net, D)
    <3>1. \A p \in D : left[p] = (-1) * net[p]
      BY <1>1
    <3>2. Sum(left, D) = (-1) * Sum(net, D)
      BY <1>3, <2>1, <3>1, SumScale
    <3>3. Sum(net, D) \in Int
      BY <1>3, <2>1, SumIsPartial
    <3> QED
      BY <3>2, <3>3
  <2>5. Sum(net, C) = Sum(left, C)
    BY <1>1, <1>3, <2>1, SumSame
  <2>6. Sum(net, D) \in Int /\ Sum(net, C) \in Int
    BY <1>3, <2>1, SumIsPartial
  <2> QED
    BY <2>2, <2>3, <2>4, <2>5, <2>6 DEF Sides
<1>5. ASSUME NEW i \in 1 .. Len(debtors) PROVE left[debtors[i]] > 0
  <2>1. debtors[i] \in D
    BY SidesListed
  <2> HIDE DEF D
  <2>2. left[debtors[i]] = - net[debtors[i]] /\ net[debtors[i]] < 0 /\ net[debtors[i]] \in Int
    BY <1>1, <2>1
  <2> QED
    BY <2>2
<1>6. ASSUME NEW i \in 1 .. Len(creditors) PROVE left[creditors[i]] > 0
  <2>1. creditors[i] \in C
    BY SidesListed
  <2> HIDE DEF C
  <2>2. left[creditors[i]] = net[creditors[i]] /\ net[creditors[i]] > 0
    BY <1>1, <2>1
  <2> QED
    BY <2>2
<1>7. (\A p \in D : left[p] >= 0 /\ left[p] <= - net[p]) /\ (\A p \in C : left[p] >= 0 /\ left[p] <= net[p])
  BY <1>1
<1>8. Len(debtors) \in Nat /\ Len(creditors) \in Nat
  BY SidesListed
<1>9. s.d = 1 /\ s.c = 1 /\ s.left = left
  OBVIOUS
<1> HIDE DEF s, D, C
<1>10. LoopSound(net, debtors, creditors, s)
  BY <1>2, <1>4, <1>5, <1>6, <1>7, <1>8, <1>9 DEF LoopSound, D, C
<1> QED
  BY <1>10 DEF s, left

LEMMA TurnKeepsSound ==
  ASSUME NEW net, NEW debtors, NEW creditors, Sides(net, debtors, creditors),
         NEW s, LoopSound(net, debtors, creditors, s)
  PROVE  LoopSound(net, debtors, creditors, Turn(debtors, creditors, s))
<1> DEFINE t == Turn(debtors, creditors, s)
           D == Debt(net)
           C == Credit(net)
           nd == Len(debtors)
           nc == Len(creditors)
<1>1. CASE s.d > nd \/ s.c > nc
  <2>1. t = s
    BY <1>1 DEF Turn
  <2> QED
    BY <2>1
<1>2. CASE ~ (s.d > nd \/ s.c > nc)
  <2> DEFINE from == debtors[s.d]
             to == creditors[s.c]
  <2>1. /\ s.left \in [Participants -> Int] /\ s.d \in Nat \ {0} /\ s.c \in Nat \ {0}
        /\ nd \in Nat /\ nc \in Nat /\ s \in LoopStates
    BY SidesListed DEF LoopSound, LoopStates
  <2>2. /\ s.d \in 1 .. nd /\ s.c \in 1 .. nc
        /\ from \in D /\ to \in C /\ from # to
    BY <1>2, <2>1, TurnMoves
  <2>3. PICK amount \in Int : Moves(s, t, from, to, amount)
    BY <1>2, <2>1, TurnMoves
  <2>4. t \in LoopStates
    BY <2>1, TurnTyped
  <2> HIDE DEF t
  <2>5. /\ \A p \in D : p \in Participants /\ net[p] < 0 /\ net[p] \in Int
        /\ \A p \in C : p \in Participants /\ net[p] > 0 /\ net[p] \in Int
    BY DEF Debt, Credit, Sides
  <2>6. \A p \in D : p \notin C
    BY <2>5
  <2>7. /\ \A p \in Participants : p # from /\ p # to => t.left[p] = s.left[p]
        /\ t.left[from] = s.left[from] - amount /\ t.left[to] = s.left[to] - amount
        /\ amount > 0 /\ amount <= s.left[from] /\ amount <= s.left[to]
        /\ t.d = IF amount = s.left[from] THEN s.d + 1 ELSE s.d
        /\ t.c = IF amount = s.left[to] THEN s.c + 1 ELSE s.c
    BY <2>1, <2>3 DEF Moves
  <2>8. /\ \A p \in Participants : s.left[p] \in Int /\ t.left[p] \in Int
    BY <2>1, <2>4 DEF LoopStates
  <2>9. t.d <= nd + 1 /\ t.c <= nc + 1
    BY <2>1, <2>2, <2>7
  <2>10. ASSUME NEW i \in 1 .. nd
         PROVE  /\ i < t.d => t.left[debtors[i]] = 0
                /\ i >= t.d => t.left[debtors[i]] > 0
    <3>1. debtors[i] \in D
      BY SidesListed
    <3>2. i < s.d => s.left[debtors[i]] = 0
      BY DEF LoopSound
    <3>3. i >= s.d => s.left[debtors[i]] > 0
      BY DEF LoopSound
    <3>4. i # s.d => debtors[i] # from
      <4>1. \A j \in 1 .. nd : debtors[i] = debtors[j] => i = j
        BY SidesListed
      <4> QED
        BY <2>2, <4>1
    <3>5. debtors[i] # to
      BY <2>2, <2>6, <3>1
    <3>6. CASE i = s.d
      <4>1. s.left[from] \in Int /\ t.left[from] = s.left[from] - amount
        BY <2>2, <2>5, <2>7, <2>8
      <4> HIDE DEF from, to
      <4> QED
        BY <2>1, <2>7, <3>6, <4>1 DEF from
    <3>7. CASE i # s.d
      <4>1. t.left[debtors[i]] = s.left[debtors[i]]
        BY <2>5, <2>7, <3>1, <3>4, <3>5, <3>7
      <4>2. (i < t.d => i < s.d) /\ (i >= t.d => i >= s.d)
        BY <2>1, <2>7, <3>7
      <4> QED
        BY <3>2, <3>3, <4>1, <4>2
    <3> QED
      BY <3>6, <3>7
  <2>11. ASSUME NEW i \in 1 .. nc
         PROVE  /\ i < t.c => t.left[creditors[i]] = 0
                /\ i >= t.c => t.left[creditors[i]] > 0
    <3>1. creditors[i] \in C
      BY SidesListed
    <3>2. i < s.c => s.left[creditors[i]] = 0
      BY DEF LoopSound
    <3>3. i >= s.c => s.left[creditors[i]] > 0
      BY DEF LoopSound
    <3>4. i # s.c => creditors[i] # to
      <4>1. \A j \in 1 .. nc : creditors[i] = creditors[j] => i = j
        BY SidesListed
      <4> QED
        BY <2>2, <4>1
    <3>5. creditors[i] # from
      BY <2>2, <2>6, <3>1
    <3>6. CASE i = s.c
      <4>1. s.left[to] \in Int /\ t.left[to] = s.left[to] - amount
        BY <2>2, <2>5, <2>7, <2>8
      <4> HIDE DEF from, to
      <4> QED
        BY <2>1, <2>7, <3>6, <4>1 DEF to
    <3>7. CASE i # s.c
      <4>1. t.left[creditors[i]] = s.left[creditors[i]]
        BY <2>5, <2>7, <3>1, <3>4, <3>5, <3>7
      <4>2. (i < t.c => i < s.c) /\ (i >= t.c => i >= s.c)
        BY <2>1, <2>7, <3>7
      <4> QED
        BY <3>2, <3>3, <4>1, <4>2
    <3> QED
      BY <3>6, <3>7
  <2> HIDE DEF from, to
  <2>12. ASSUME NEW p \in D PROVE t.left[p] >= 0 /\ t.left[p] <= - net[p]
    <3>1. s.left[p] >= 0 /\ s.left[p] <= - net[p] /\ p # to
      BY <2>2, <2>6 DEF LoopSound
    <3>2. s.left[p] \in Int /\ p \in Participants /\ net[p] \in Int
      BY <2>5, <2>8
    <3> QED
      BY <2>7, <3>1, <3>2
  <2>13. ASSUME NEW p \in C PROVE t.left[p] >= 0 /\ t.left[p] <= net[p]
    <3>1. s.left[p] >= 0 /\ s.left[p] <= net[p] /\ p # from
      BY <2>2, <2>6 DEF LoopSound
    <3>2. s.left[p] \in Int /\ p \in Participants /\ net[p] \in Int
      BY <2>5, <2>8
    <3> QED
      BY <2>7, <3>1, <3>2
  <2>14. Sum(t.left, D) = Sum(t.left, C)
    <3>1. IsFiniteSet(D) /\ IsFiniteSet(C) /\ Ints(s.left, D) /\ Ints(s.left, C)
      BY <2>5, <2>8, SidesListed DEF Ints
    <3>2. /\ \A p \in D \ {from} : t.left[p] = s.left[p]
          /\ \A p \in C \ {to} : t.left[p] = s.left[p]
      BY <2>2, <2>5, <2>6, <2>7
    <3>3. Sum(t.left, D) = Sum(s.left, D) - amount
      BY <2>2, <2>7, <3>1, <3>2, SumChanged
    <3>4. Sum(t.left, C) = Sum(s.left, C) - amount
      BY <2>2, <2>7, <3>1, <3>2, SumChanged
    <3> QED
      BY <3>3, <3>4 DEF LoopSound
  <2>15. LoopSound(net, debtors, creditors, t)
    BY <2>4, <2>9, <2>10, <2>11, <2>12, <2>13, <2>14 DEF LoopSound
  <2> QED
    BY <2>15 DEF t
<1> QED
  BY <1>1, <1>2

\* What the transfers bring somebody: what they pay, less what they are paid.
Effect(p, t) == (IF t.from = p THEN t.amount ELSE 0) - (IF t.to = p THEN t.amount ELSE 0)
Effects(made, p) == [i \in DOMAIN made |-> Effect(p, made[i])]
Gain(made, p) == Sum(Effects(made, p), DOMAIN made)

LEMMA GainAppends ==
  ASSUME NEW made \in Seq(TransferSet), NEW t \in TransferSet, NEW p
  PROVE  Gain(Append(made, t), p) = Gain(made, p) + Effect(p, t) /\ Gain(made, p) \in Int
<1> DEFINE n == Len(made)
           more == Append(made, t)
           f == Effects(made, p)
           g == Effects(more, p)
<1>1. /\ n \in Nat /\ DOMAIN made = 1 .. n /\ DOMAIN more = 1 .. n + 1
      /\ more[n + 1] = t /\ \A i \in 1 .. n : more[i] = made[i] /\ made[i] \in TransferSet
  OBVIOUS
<1>2. \A x \in TransferSet : Effect(p, x) \in Int
  BY DEF Effect, TransferSet
<1> HIDE DEF more, n
<1>3. \A i \in 1 .. n : f[i] = Effect(p, made[i]) /\ f[i] \in Int /\ g[i] = f[i]
  <2> SUFFICES ASSUME NEW i \in 1 .. n
               PROVE  f[i] = Effect(p, made[i]) /\ f[i] \in Int /\ g[i] = f[i]
    OBVIOUS
  <2>1. i \in 1 .. n + 1 /\ more[i] = made[i] /\ made[i] \in TransferSet
    BY <1>1
  <2> QED
    BY <1>1, <1>2, <2>1 DEF Effects
<1>4. g[n + 1] = Effect(p, t) /\ Effect(p, t) \in Int
  <2>1. n + 1 \in 1 .. n + 1
    BY <1>1
  <2> QED
    BY <1>1, <1>2, <2>1 DEF Effects
<1> HIDE DEF f, g
<1>5. IsFiniteSet(1 .. n) /\ IsFiniteSet(1 .. n + 1) /\ (1 .. n + 1) \ {n + 1} = 1 .. n
  <2>1. n \in Nat /\ 1 \in Int /\ n \in Int /\ n + 1 \in Int
    BY <1>1
  <2>2. IsFiniteSet(1 .. n) /\ IsFiniteSet(1 .. n + 1)
    BY <2>1, FS_Interval
  <2>3. (1 .. n + 1) \ {n + 1} = 1 .. n
    BY <2>1
  <2> QED
    BY <2>2, <2>3
<1>6. Ints(f, 1 .. n) /\ Ints(g, 1 .. n + 1)
  <2>1. \A i \in 1 .. n + 1 : i \in 1 .. n \/ i = n + 1
    BY <1>1
  <2> QED
    BY <1>3, <1>4, <2>1 DEF Ints
<1>7. Sum(g, 1 .. n + 1) = g[n + 1] + Sum(g, 1 .. n)
  <2>1. n + 1 \in 1 .. n + 1
    BY <1>1
  <2>2. Sum(g, 1 .. n + 1) = g[n + 1] + Sum(g, (1 .. n + 1) \ {n + 1})
    BY <1>5, <1>6, <2>1, SumSplit
  <2> QED
    BY <1>5, <2>2
<1>8. Sum(f, 1 .. n) = Sum(g, 1 .. n) /\ Sum(f, 1 .. n) \in Int
  BY <1>3, <1>5, <1>6, SumSame, SumIsPartial
<1> QED
  BY <1>1, <1>4, <1>7, <1>8 DEF Gain, f, g, more

\* What the transfers made so far have done: everybody's balance is what they still
\* hold, each goes from a debtor to a creditor and is within what both began with, and
\* there are no more of them than the pointers have moved; one fewer at the end.
MadeSound(net, debtors, creditors, s) ==
  /\ \A p \in Participants :
       net[p] + Gain(s.made, p) =
         IF p \in Debt(net) THEN - s.left[p] ELSE IF p \in Credit(net) THEN s.left[p] ELSE 0
  /\ \A i \in DOMAIN s.made :
       /\ s.made[i].from \in Debt(net) /\ s.made[i].to \in Credit(net)
       /\ s.made[i].amount \in Int /\ s.made[i].amount > 0
       /\ s.made[i].amount <= - net[s.made[i].from] /\ s.made[i].amount <= net[s.made[i].to]
  /\ Len(s.made) <= s.d + s.c - 2
  /\ s.d > Len(debtors) \/ s.c > Len(creditors) =>
       s.made = << >> \/ Len(s.made) < s.d + s.c - 2

LEMMA LoopStartsMade ==
  ASSUME NEW net, NEW debtors, NEW creditors, Sides(net, debtors, creditors)
  PROVE  MadeSound(net, debtors, creditors,
           [d |-> 1, c |-> 1, left |-> [p \in Participants |-> Abs(net[p])], made |-> << >>])
<1> DEFINE left == [p \in Participants |-> Abs(net[p])]
<1>1. ASSUME NEW p \in Participants
      PROVE  net[p] + Gain(<< >>, p) =
               IF p \in Debt(net) THEN - left[p] ELSE IF p \in Credit(net) THEN left[p] ELSE 0
  <2>1. Gain(<< >>, p) = 0
    <3>1. DOMAIN << >> = {}
      OBVIOUS
    <3> QED
      BY <3>1, SumEmpty DEF Gain
  <2>2. net[p] \in Int /\ left[p] = Abs(net[p])
    BY DEF Sides
  <2> QED
    BY <2>1, <2>2 DEF Debt, Credit, Abs
<1>2. DOMAIN << >> = {} /\ Len(<< >>) = 0
  OBVIOUS
<1> HIDE DEF left
<1> DEFINE s == [d |-> 1, c |-> 1, left |-> left, made |-> << >>]
<1>3. s.d = 1 /\ s.c = 1 /\ s.left = left /\ s.made = << >>
  OBVIOUS
<1> HIDE DEF s
<1>4. MadeSound(net, debtors, creditors, s)
  BY <1>1, <1>2, <1>3 DEF MadeSound
<1> QED
  BY <1>4 DEF s, left

LEMMA TurnKeepsMade ==
  ASSUME NEW net, NEW debtors, NEW creditors, Sides(net, debtors, creditors),
         NEW s, LoopSound(net, debtors, creditors, s), MadeSound(net, debtors, creditors, s)
  PROVE  LET t == Turn(debtors, creditors, s) IN
         /\ MadeSound(net, debtors, creditors, t)
         /\ s.d <= Len(debtors) /\ s.c <= Len(creditors) => t.d + t.c > s.d + s.c
<1> DEFINE t == Turn(debtors, creditors, s)
           D == Debt(net)
           C == Credit(net)
           nd == Len(debtors)
           nc == Len(creditors)
<1>0. /\ s.left \in [Participants -> Int] /\ s.d \in Nat \ {0} /\ s.c \in Nat \ {0}
      /\ nd \in Nat /\ nc \in Nat /\ s \in LoopStates /\ s.made \in Seq(TransferSet)
  BY SidesListed DEF LoopSound, LoopStates
<1>1. CASE s.d > nd \/ s.c > nc
  <2>1. t = s
    BY <1>1 DEF Turn
  <2> QED
    BY <1>0, <1>1, <2>1
<1>2. CASE ~ (s.d > nd \/ s.c > nc)
  <2> DEFINE from == debtors[s.d]
             to == creditors[s.c]
  <2>2. /\ s.d \in 1 .. nd /\ s.c \in 1 .. nc
        /\ from \in D /\ to \in C /\ from # to
    BY <1>0, <1>2, TurnMoves
  <2>3. PICK amount \in Int : Moves(s, t, from, to, amount)
    BY <1>0, <1>2, TurnMoves
  <2>4. t \in LoopStates /\ LoopSound(net, debtors, creditors, t)
    BY <1>0, TurnTyped, TurnKeepsSound
  <2> HIDE DEF t, from, to
  <2>5. /\ \A p \in D : p \in Participants /\ net[p] < 0 /\ net[p] \in Int
        /\ \A p \in C : p \in Participants /\ net[p] > 0 /\ net[p] \in Int
        /\ \A p \in Participants : net[p] \in Int
    BY DEF Debt, Credit, Sides
  <2>6. \A p \in D : p \notin C
    BY <2>5
  <2>7. /\ \A p \in Participants : p # from /\ p # to => t.left[p] = s.left[p]
        /\ t.left[from] = s.left[from] - amount /\ t.left[to] = s.left[to] - amount
        /\ amount > 0 /\ amount <= s.left[from] /\ amount <= s.left[to]
        /\ amount = s.left[from] \/ amount = s.left[to]
        /\ t.d = IF amount = s.left[from] THEN s.d + 1 ELSE s.d
        /\ t.c = IF amount = s.left[to] THEN s.c + 1 ELSE s.c
        /\ t.made = Append(s.made, Transfer(from, to, amount))
    BY <1>0, <2>3 DEF Moves
  <2> DEFINE x == Transfer(from, to, amount)
  <2>8. x \in TransferSet /\ x.from = from /\ x.to = to /\ x.amount = amount
    BY <2>2, <2>5 DEF Transfer, TransferSet
  <2> HIDE DEF x
  <2>9. ASSUME NEW p \in Participants
        PROVE  net[p] + Gain(t.made, p) =
                 IF p \in D THEN - t.left[p] ELSE IF p \in C THEN t.left[p] ELSE 0
    <3>1. Gain(t.made, p) = Gain(s.made, p) + Effect(p, x) /\ Gain(s.made, p) \in Int
      BY <1>0, <2>7, <2>8, GainAppends DEF x
    <3>2. net[p] + Gain(s.made, p) =
            IF p \in D THEN - s.left[p] ELSE IF p \in C THEN s.left[p] ELSE 0
      BY DEF MadeSound
    <3>3. net[p] \in Int /\ s.left[p] \in Int /\ s.left[from] \in Int /\ s.left[to] \in Int
      BY <1>0, <2>2, <2>5
    <3>4. CASE p = from
      <4>1. Effect(p, x) = amount /\ p \in D /\ t.left[p] = s.left[p] - amount
        BY <2>2, <2>7, <2>8, <3>4 DEF Effect
      <4> QED
        BY <3>1, <3>2, <3>3, <4>1
    <3>5. CASE p = to
      <4>1. Effect(p, x) = - amount /\ p \in C /\ p \notin D /\ t.left[p] = s.left[p] - amount
        BY <2>2, <2>6, <2>7, <2>8, <3>5 DEF Effect
      <4> QED
        BY <3>1, <3>2, <3>3, <4>1
    <3>6. CASE p # from /\ p # to
      <4>1. Effect(p, x) = 0 /\ t.left[p] = s.left[p]
        BY <2>7, <2>8, <3>6 DEF Effect
      <4> QED
        BY <3>1, <3>2, <3>3, <4>1
    <3> QED
      BY <3>4, <3>5, <3>6
  <2>10. /\ DOMAIN t.made = 1 .. Len(s.made) + 1 /\ Len(t.made) = Len(s.made) + 1
         /\ DOMAIN s.made = 1 .. Len(s.made) /\ Len(s.made) \in Nat
         /\ t.made[Len(s.made) + 1] = x
         /\ \A i \in 1 .. Len(s.made) : t.made[i] = s.made[i]
    <3>1. s.made \in Seq(TransferSet) /\ x \in TransferSet /\ t.made = Append(s.made, x)
      BY <1>0, <2>7, <2>8 DEF x
    <3>2. \A made \in Seq(TransferSet) : LET more == Append(made, x) IN
            /\ DOMAIN more = 1 .. Len(made) + 1 /\ Len(more) = Len(made) + 1
            /\ DOMAIN made = 1 .. Len(made) /\ Len(made) \in Nat
            /\ more[Len(made) + 1] = x
            /\ \A i \in 1 .. Len(made) : more[i] = made[i]
      BY <3>1
    <3> QED
      BY <3>1, <3>2
  <2>11. ASSUME NEW i \in DOMAIN t.made
         PROVE  /\ t.made[i].from \in D /\ t.made[i].to \in C
                /\ t.made[i].amount \in Int /\ t.made[i].amount > 0
                /\ t.made[i].amount <= - net[t.made[i].from] /\ t.made[i].amount <= net[t.made[i].to]
    <3>1. CASE i \in DOMAIN s.made
      <4>1. t.made[i] = s.made[i]
        BY <2>10, <3>1
      <4> QED
        BY <3>1, <4>1 DEF MadeSound
    <3>2. CASE i \notin DOMAIN s.made
      <4>1. t.made[i] = x
        BY <2>10, <3>2
      <4>2. amount <= - net[from] /\ amount <= net[to]
        <5>1. s.left[from] <= - net[from] /\ s.left[to] <= net[to]
          BY <2>2 DEF LoopSound
        <5>2. net[from] \in Int /\ net[to] \in Int /\ s.left[from] \in Int /\ s.left[to] \in Int
          BY <1>0, <2>2, <2>5
        <5> QED
          BY <2>7, <5>1, <5>2
      <4> QED
        BY <2>2, <2>7, <2>8, <4>1, <4>2
    <3> QED
      BY <3>1, <3>2
  <2>12. t.d + t.c > s.d + s.c
    BY <1>0, <2>7
  <2>13. /\ Len(s.made) <= s.d + s.c - 2 /\ Len(s.made) \in Nat
         /\ Len(t.made) = Len(s.made) + 1 /\ s.d \in Int /\ s.c \in Int
    BY <1>0, <2>10 DEF MadeSound
  <2>14. Len(t.made) <= t.d + t.c - 2
    <3>1. t.d \in Int /\ t.c \in Int
      BY <2>4 DEF LoopStates
    <3> DEFINE a == s.d + s.c
               b == t.d + t.c
               k == Len(s.made)
    <3>2. a \in Int /\ b \in Int /\ k \in Int
      BY <2>13, <3>1
    <3>3. k + 1 <= b - 2
      <4> HIDE DEF a, b, k
      <4>1. k <= a - 2 /\ b > a
        BY <2>12, <2>13 DEF a, b, k
      <4> QED
        BY <3>2, <4>1
    <3>4. Len(s.made) + 1 <= t.d + t.c - 2
      BY <3>1, <3>3
    <3> QED
      BY <2>13, <3>4
  <2>15. ASSUME t.d > nd \/ t.c > nc PROVE Len(t.made) < t.d + t.c - 2
    <3>1. t.d \in Nat /\ t.c \in Nat /\ t.d <= nd + 1 /\ t.c <= nc + 1
      BY <2>4 DEF LoopStates, LoopSound
    <3>2. t.d = nd + 1 \/ t.c = nc + 1
      BY <1>0, <2>15, <3>1
    <3>3. t.d = nd + 1 /\ t.c = nc + 1
      BY <2>4, <3>2, DoneTogether
    <3>4. t.d = s.d + 1 /\ t.c = s.c + 1
      BY <1>0, <2>2, <2>7, <3>3
    <3> DEFINE a == s.d + s.c
               k == Len(s.made)
    <3>5. t.d + t.c - 2 = a /\ a \in Int /\ k \in Int
      BY <2>13, <3>4
    <3>6. k + 1 < a
      <4> HIDE DEF a, k
      <4>1. k <= a - 2
        BY <2>13 DEF a, k
      <4> QED
        BY <3>5, <4>1
    <3> QED
      BY <2>13, <3>5, <3>6
  <2>16. MadeSound(net, debtors, creditors, t)
    BY <2>9, <2>11, <2>14, <2>15 DEF MadeSound
  <2> QED
    BY <2>12, <2>16 DEF t
<1> QED
  BY <1>1, <1>2

LEMMA MatchedSound ==
  ASSUME NEW net, NEW debtors, NEW creditors, Sides(net, debtors, creditors)
  PROVE  \E s \in LoopStates :
           /\ s.made = Matched(debtors, creditors, [p \in Participants |-> Abs(net[p])])
           /\ LoopSound(net, debtors, creditors, s) /\ MadeSound(net, debtors, creditors, s)
           /\ s.d = Len(debtors) + 1 /\ s.c = Len(creditors) + 1
<1> DEFINE amounts == [p \in Participants |-> Abs(net[p])]
           nd == Len(debtors)
           nc == Len(creditors)
           turns == nd + nc
           start == [d |-> 1, c |-> 1, left |-> amounts, made |-> << >>]
<1>1. amounts \in [Participants -> Int]
  BY DEF Sides, Abs
<1>2. LoopSound(net, debtors, creditors, start) /\ MadeSound(net, debtors, creditors, start)
  BY LoopStartsSound, LoopStartsMade
<1>3. nd \in Nat /\ nc \in Nat /\ turns \in Nat
  BY SidesListed
<1> HIDE DEF amounts
<1>4. PICK run \in [0 .. turns -> LoopStates] :
        /\ run[0] = start
        /\ \A n \in 1 .. turns : run[n] = Turn(debtors, creditors, run[n - 1])
        /\ Matched(debtors, creditors, amounts) = run[turns].made
  BY <1>1, MatchedRuns
<1> HIDE DEF start
<1> DEFINE Fine(n) == /\ LoopSound(net, debtors, creditors, run[n])
                      /\ MadeSound(net, debtors, creditors, run[n])
                      /\ \/ run[n].d > nd \/ run[n].c > nc
                         \/ n <= run[n].d + run[n].c - 2
           Good == {n \in 0 .. turns : Fine(n)}
<1>5. 0 \in Good
  <2>1. 0 \in 0 .. turns /\ run[0] = start
    BY <1>3, <1>4
  <2>2. start.d = 1 /\ start.c = 1
    BY DEF start
  <2> QED
    BY <1>2, <2>1, <2>2
<1>6. ASSUME NEW n \in 0 .. turns - 1, n \in Good PROVE n + 1 \in Good
  <2> DEFINE s == run[n]
             t == run[n + 1]
  <2>1. n \in 0 .. turns /\ n + 1 \in 0 .. turns /\ n + 1 \in 1 .. turns /\ (n + 1) - 1 = n
    BY <1>3
  <2>2. s \in LoopStates /\ t \in LoopStates /\ t = Turn(debtors, creditors, s)
    BY <1>4, <2>1
  <2>3. Fine(n)
    BY <1>6
  <2> HIDE DEF s, t
  <2>4. LoopSound(net, debtors, creditors, s) /\ MadeSound(net, debtors, creditors, s)
    BY <2>3 DEF s
  <2>5. LoopSound(net, debtors, creditors, t)
    BY <2>2, <2>4, TurnKeepsSound
  <2>6. /\ MadeSound(net, debtors, creditors, t)
        /\ s.d <= nd /\ s.c <= nc => t.d + t.c > s.d + s.c
    BY <2>2, <2>4, TurnKeepsMade
  <2>7. s.d \in Int /\ s.c \in Int /\ t.d \in Int /\ t.c \in Int
    BY <2>2 DEF LoopStates
  <2>8. CASE s.d > nd \/ s.c > nc
    <3>1. t = s
      BY <2>2, <2>8 DEF Turn
    <3> QED
      BY <2>1, <2>5, <2>6, <2>8, <3>1 DEF t
  <2>9. CASE ~ (s.d > nd \/ s.c > nc)
    <3>1. n <= s.d + s.c - 2
      BY <2>3, <2>9 DEF s
    <3>2. t.d + t.c > s.d + s.c
      BY <1>3, <2>6, <2>7, <2>9
    <3> DEFINE a == s.d + s.c
               b == t.d + t.c
    <3>3. a \in Int /\ b \in Int /\ n \in Int
      BY <2>7
    <3>4. n + 1 <= b - 2
      <4> HIDE DEF a, b
      <4>1. n <= a - 2 /\ b > a
        BY <2>7, <3>1, <3>2 DEF a, b
      <4> QED
        BY <3>3, <4>1
    <3>5. n + 1 <= t.d + t.c - 2
      BY <2>7, <3>4
    <3> HIDE DEF a, b
    <3> QED
      BY <2>1, <2>5, <2>6, <3>5 DEF t
  <2> QED
    BY <2>8, <2>9
<1>7. turns \in Good
  <2>1. \A n \in 0 .. turns : n \in Good
    <3> HIDE DEF Good, turns
    <3> QED
      BY <1>3, <1>5, <1>6, UpTo
  <2> QED
    BY <1>3, <2>1
<1> DEFINE s == run[turns]
<1>8. /\ s \in LoopStates /\ Fine(turns)
  BY <1>3, <1>4, <1>7
<1>9. s.d = nd + 1 /\ s.c = nc + 1
  <2>1. s.d \in Nat /\ s.c \in Nat /\ s.d <= nd + 1 /\ s.c <= nc + 1
    BY <1>8 DEF LoopStates, LoopSound
  <2>2. s.d = nd + 1 \/ s.c = nc + 1
    BY <1>3, <1>8, <2>1
  <2> QED
    BY <1>8, <2>2, DoneTogether
<1> HIDE DEF s
<1>10. s.made = Matched(debtors, creditors, amounts)
  BY <1>4 DEF s
<1> QED
  BY <1>8, <1>9, <1>10 DEF s, amounts

\* simplify(): its advice on balances that net to zero squares everybody in fewer
\* transfers than people with a balance, each from somebody who owes to somebody who is
\* owed and within what they owe and are owed.
THEOREM SimplifyWorks ==
  ASSUME NEW net \in [Participants -> Int]
  PROVE  LET transfers == Simplify(net) IN
         /\ transfers \in Seq(TransferSet)
         /\ \A i \in DOMAIN transfers :
              /\ transfers[i].from \in Debt(net) /\ transfers[i].to \in Credit(net)
              /\ transfers[i].amount \in Int /\ transfers[i].amount > 0
              /\ transfers[i].amount <= - net[transfers[i].from]
              /\ transfers[i].amount <= net[transfers[i].to]
         /\ Sum(net, Participants) = 0 =>
              \A p \in Participants : net[p] + Gain(transfers, p) = 0
         /\ transfers # << >> => Len(transfers) < Cardinality(Debt(net) \cup Credit(net))
<1> DEFINE D == Debt(net)
           C == Credit(net)
           debtors == Ranked(D, net)
           creditors == Ranked(C, net)
           made == Simplify(net)
<1>1. Total(net) = Sum(net, Participants) /\ DOMAIN net = Participants
  BY TotalIsSum
<1>2. CASE Sum(net, Participants) # 0
  <2>1. made = << >>
    BY <1>1, <1>2 DEF Simplify
  <2>2. << >> \in Seq(TransferSet) /\ DOMAIN << >> = {}
    OBVIOUS
  <2> HIDE DEF made
  <2> QED
    BY <1>2, <2>1, <2>2 DEF made
<1>3. CASE Sum(net, Participants) = 0
  <2>1. IsFiniteSet(D) /\ IsFiniteSet(C) /\ D \subseteq Int /\ C \subseteq Int
    BY ConstantsAssumption, FS_Subset DEF Debt, Credit
  <2>2. Ints(net, D) /\ Ints(net, C)
    BY DEF Ints, Debt, Credit
  <2>3. /\ debtors \in Bijection(1 .. Cardinality(D), D)
        /\ creditors \in Bijection(1 .. Cardinality(C), C)
    BY <2>1, <2>2, RankedLists
  <2>4. made = Matched(debtors, creditors, [p \in Participants |-> Abs(net[p])])
    BY <1>1, <1>3 DEF Simplify, Debt, Credit
  <2> HIDE DEF debtors, creditors, made
  <2>5. Sides(net, debtors, creditors)
    BY <1>3, <2>3 DEF Sides
  <2>6. PICK s \in LoopStates :
          /\ s.made = made
          /\ LoopSound(net, debtors, creditors, s) /\ MadeSound(net, debtors, creditors, s)
          /\ s.d = Len(debtors) + 1 /\ s.c = Len(creditors) + 1
    BY <2>4, <2>5, MatchedSound
  <2>7. made \in Seq(TransferSet)
    BY <2>6 DEF LoopStates
  <2>8. \A i \in DOMAIN made :
          /\ made[i].from \in D /\ made[i].to \in C
          /\ made[i].amount \in Int /\ made[i].amount > 0
          /\ made[i].amount <= - net[made[i].from] /\ made[i].amount <= net[made[i].to]
    BY <2>6 DEF MadeSound
  <2>9. ASSUME NEW p \in Participants PROVE net[p] + Gain(made, p) = 0
    <3>1. net[p] + Gain(made, p) = IF p \in D THEN - s.left[p] ELSE IF p \in C THEN s.left[p] ELSE 0
      BY <2>6 DEF MadeSound
    <3>2. p \in D \cup C => s.left[p] = 0
      BY <2>5, <2>6, DoneTogether
    <3> QED
      BY <3>1, <3>2
  <2>10. ASSUME made # << >> PROVE Len(made) < Cardinality(D \cup C)
    <3>1. Len(debtors) = Cardinality(D) /\ Len(creditors) = Cardinality(C) /\ Len(debtors) \in Nat
          /\ Len(creditors) \in Nat
      BY <2>5, SidesListed
    <3>2. s.d > Len(debtors)
      BY <2>6, <3>1
    <3>3. Len(made) < s.d + s.c - 2
      BY <2>6, <2>10, <3>2 DEF MadeSound
    <3>4. D \cap C = {}
      BY DEF Debt, Credit
    <3>5. Cardinality(D \cup C) = Cardinality(D) + Cardinality(C) - Cardinality(D \cap C)
      BY <2>1, FS_Union
    <3>6. Cardinality(D \cap C) = 0
      BY <3>4, FS_EmptySet
    <3> QED
      BY <2>6, <3>1, <3>3, <3>5, <3>6
  <2> QED
    BY <2>7, <2>8, <2>9, <2>10 DEF made
<1> QED
  BY <1>2, <1>3

-----------------------------------------------------------------------------
(* The books: what is stored, and the balances read from it.                 *)

\* A stored expense balances in the base currency.
BillSound(bill) ==
  /\ bill.total \in Int /\ IsAmounts(bill.shares) /\ IsAmounts(bill.payments)
  /\ Total(bill.shares) = bill.total /\ Total(bill.payments) = bill.total

BooksSound ==
  /\ \E B : bills \in Seq(B)
  /\ \A i \in DOMAIN bills : BillSound(bills[i])
  /\ settled \in [Participants \X Participants -> Int]

Billed(p) == [i \in DOMAIN bills |-> At(bills[i].payments, p) - At(bills[i].shares, p)]
Sent(p) == [q \in Participants |-> settled[<<p, q>>] - settled[<<q, p>>]]

LEMMA NetIs ==
  ASSUME NEW p
  PROVE  Net(p) = Sum(Billed(p), DOMAIN bills) + Sum(Sent(p), Participants)
BY DEF Net, SumOver, SumFunction, Sum, Billed, Sent

LEMMA AtTypes ==
  ASSUME NEW f, IsAmounts(f)
  PROVE  /\ \A p \in Participants : At(f, p) \in Int
         /\ Sum([p \in Participants |-> At(f, p)], Participants) = Total(f)
<1> DEFINE g == [p \in Participants |-> At(f, p)]
           D == DOMAIN f
<1>1. D \in SUBSET Participants /\ \A p \in Participants : At(f, p) \in Int
  BY DEF IsAmounts, At
<1>2. /\ \A p \in D : f[p] = g[p]
      /\ \A p \in Participants \ D : g[p] = 0
      /\ Ints(g, Participants)
  BY <1>1 DEF At, Ints
<1>3. IsFiniteSet(Participants)
  BY ConstantsAssumption
<1>4. IsFiniteSet(D) /\ Ints(f, D) /\ Total(f) = Sum(f, D)
  BY AmountsFinite
<1> HIDE DEF g, D
<1>5. Sum(g, Participants) = Sum(g, D)
  BY <1>1, <1>2, <1>3, SumZeros
<1>6. Sum(f, D) = Sum(g, D)
  BY <1>2, <1>4, SumSame
<1> QED
  BY <1>1, <1>4, <1>5, <1>6 DEF g

LEMMA BooksTyped ==
  ASSUME BooksSound
  PROVE  /\ IsFiniteSet(DOMAIN bills) /\ IsFiniteSet(Participants)
         /\ \A p \in Participants :
              /\ Ints(Billed(p), DOMAIN bills) /\ Ints(Sent(p), Participants)
              /\ Sum(Billed(p), DOMAIN bills) \in Int /\ Sum(Sent(p), Participants) \in Int
              /\ Net(p) \in Int
         /\ Balances \in [Participants -> Int]
<1>1. IsFiniteSet(DOMAIN bills) /\ IsFiniteSet(Participants)
  <2>1. PICK B : bills \in Seq(B)
    BY DEF BooksSound
  <2>2. Len(bills) \in Nat /\ DOMAIN bills = 1 .. Len(bills)
    BY <2>1
  <2> QED
    BY <2>2, FS_Interval, ConstantsAssumption
<1>2. ASSUME NEW p \in Participants
      PROVE  /\ Ints(Billed(p), DOMAIN bills) /\ Ints(Sent(p), Participants)
             /\ Sum(Billed(p), DOMAIN bills) \in Int /\ Sum(Sent(p), Participants) \in Int
             /\ Net(p) \in Int
  <2>1. ASSUME NEW i \in DOMAIN bills PROVE Billed(p)[i] \in Int
    <3>1. IsAmounts(bills[i].shares) /\ IsAmounts(bills[i].payments)
      BY DEF BooksSound, BillSound
    <3>2. At(bills[i].payments, p) \in Int /\ At(bills[i].shares, p) \in Int
      BY <3>1, AtTypes
    <3> QED
      BY <3>2 DEF Billed
  <2>2. ASSUME NEW q \in Participants PROVE Sent(p)[q] \in Int
    BY DEF Sent, BooksSound
  <2>3. Ints(Billed(p), DOMAIN bills) /\ Ints(Sent(p), Participants)
    BY <2>1, <2>2 DEF Ints
  <2>4. Sum(Billed(p), DOMAIN bills) \in Int /\ Sum(Sent(p), Participants) \in Int
    BY <1>1, <2>3, SumIsPartial
  <2> QED
    BY <2>3, <2>4, NetIs
<1>3. Balances \in [Participants -> Int]
  BY <1>2 DEF Balances
<1> QED
  BY <1>1, <1>2, <1>3

\* assertBalanced never throws: each expense and each settlement nets to zero.
LEMMA BalancesNetToZero == ASSUME BooksSound PROVE Sum(Balances, Participants) = 0
<1> DEFINE P == Participants
           N == DOMAIN bills
           billed == [p \in P |-> Billed(p)]
           sent == [p \in P |-> Sent(p)]
           x == [p \in P |-> Sum(billed[p], N)]
           y == [p \in P |-> Sum(sent[p], P)]
           of(i) == [p \in P |-> billed[p][i]]
<1>1. IsFiniteSet(N) /\ IsFiniteSet(P) /\ Ints(x, P) /\ Ints(y, P)
  BY BooksTyped DEF Ints
<1>2. Sum(Balances, P) = Sum(x, P) + Sum(y, P)
  <2>1. \A p \in P : Balances[p] = x[p] + y[p]
    BY NetIs DEF Balances
  <2> HIDE DEF x, y
  <2> QED
    BY <1>1, <2>1, SumPlus
<1>3. Sum(x, P) = 0
  <2> DEFINE z == [i \in N |-> Sum(of(i), P)]
  <2>1. \A p \in P, i \in N : billed[p][i] \in Int
    BY BooksTyped DEF Ints
  <2>2. Sum(x, P) = Sum(z, N)
    <3> HIDE DEF billed, N
    <3> QED
      BY <1>1, <2>1, SumExchange
  <2>3. ASSUME NEW i \in N PROVE z[i] = 0
    <3> DEFINE pay == [p \in P |-> At(bills[i].payments, p)]
               share == [p \in P |-> At(bills[i].shares, p)]
    <3>1. BillSound(bills[i])
      BY DEF BooksSound
    <3>2. /\ Ints(pay, P) /\ Ints(share, P)
          /\ Sum(pay, P) = bills[i].total /\ Sum(share, P) = bills[i].total /\ bills[i].total \in Int
      BY <3>1, AtTypes DEF BillSound, Ints
    <3>3. \A p \in P : pay[p] = of(i)[p] + share[p]
      <4> SUFFICES ASSUME NEW p \in P PROVE pay[p] = of(i)[p] + share[p]
        OBVIOUS
      <4>1. of(i)[p] = pay[p] - share[p]
        BY DEF Billed
      <4>2. pay[p] \in Int /\ share[p] \in Int
        BY <3>2 DEF Ints
      <4> HIDE DEF pay, share, of
      <4> QED
        BY <4>1, <4>2
    <3>4. Ints(of(i), P)
      BY <2>1 DEF Ints
    <3> HIDE DEF pay, share, of
    <3>5. Sum(pay, P) = Sum(of(i), P) + Sum(share, P)
      BY <1>1, <3>2, <3>3, <3>4, SumPlus
    <3>6. Sum(of(i), P) \in Int
      BY <1>1, <3>4, SumIsPartial
    <3>7. Sum(of(i), P) = 0
      BY <3>2, <3>5, <3>6
    <3> QED
      BY <3>7
  <2> HIDE DEF z
  <2>4. Ints(z, N) /\ {} \in SUBSET N
    BY <2>3 DEF Ints
  <2>5. Sum(z, N) = Sum(z, {})
    BY <1>1, <2>3, <2>4, SumZeros
  <2> QED
    BY <2>2, <2>5, SumEmpty
<1>4. Sum(y, P) = 0
  <2> DEFINE a == [p \in P |-> [q \in P |-> settled[<<p, q>>]]]
             b == [p \in P |-> [q \in P |-> settled[<<q, p>>]]]
             u == [p \in P |-> Sum(a[p], P)]
             v == [p \in P |-> Sum(b[p], P)]
             w == [q \in P |-> Sum([p \in P |-> a[p][q]], P)]
  <2>1. /\ \A p, q \in P : a[p][q] \in Int /\ b[p][q] \in Int /\ a[p][q] = sent[p][q] + b[p][q]
        /\ \A p \in P : Ints(a[p], P) /\ Ints(b[p], P) /\ Ints(sent[p], P)
    BY DEF BooksSound, Sent, Ints
  <2>2. v = w
    <3>1. \A q \in P : b[q] = [p \in P |-> a[p][q]]
      OBVIOUS
    <3> HIDE DEF a, b
    <3> QED
      BY <3>1
  <2>3. Sum(u, P) = Sum(w, P)
    <3> HIDE DEF a
    <3> QED
      BY <1>1, <2>1, SumExchange
  <2>4. \A p \in P : u[p] = y[p] + v[p] /\ y[p] \in Int /\ v[p] \in Int /\ u[p] \in Int
    <3> SUFFICES ASSUME NEW p \in P
                 PROVE  u[p] = y[p] + v[p] /\ y[p] \in Int /\ v[p] \in Int /\ u[p] \in Int
      OBVIOUS
    <3> HIDE DEF a, b, sent
    <3>1. Sum(a[p], P) = Sum(sent[p], P) + Sum(b[p], P)
      BY <1>1, <2>1, SumPlus
    <3>2. Sum(sent[p], P) \in Int /\ Sum(b[p], P) \in Int /\ Sum(a[p], P) \in Int
      BY <1>1, <2>1, SumIsPartial
    <3> QED
      BY <3>1, <3>2
  <2>5. Ints(y, P) /\ Ints(v, P) /\ Ints(u, P)
    BY <2>4 DEF Ints
  <2> HIDE DEF u, v, w, y
  <2>6. Sum(u, P) = Sum(y, P) + Sum(v, P)
    BY <1>1, <2>4, <2>5, SumPlus
  <2>7. Sum(y, P) \in Int /\ Sum(v, P) \in Int
    BY <1>1, <2>5, SumIsPartial
  <2> QED
    BY <2>2, <2>3, <2>6, <2>7
<1> QED
  BY <1>2, <1>3, <1>4

\* What simplify() suggests on sound books.
LEMMA Suggested ==
  ASSUME BooksSound, NEW i \in DOMAIN Simplify(Balances)
  PROVE  LET t == Simplify(Balances)[i] IN
         /\ t \in TransferSet /\ t.from # t.to /\ t.amount > 0
         /\ Net(t.from) < 0 /\ t.amount <= - Net(t.from)
         /\ Net(t.to) > 0 /\ t.amount <= Net(t.to)
<1> DEFINE list == Simplify(Balances)
           t == list[i]
<1>1. Balances \in [Participants -> Int]
  BY BooksTyped
<1>2. /\ list \in Seq(TransferSet)
      /\ t.from \in Debt(Balances) /\ t.to \in Credit(Balances) /\ t.amount > 0
      /\ t.amount <= - Balances[t.from] /\ t.amount <= Balances[t.to]
  BY <1>1, SimplifyWorks
<1> HIDE DEF list
<1>3. t \in TransferSet
  BY <1>2 DEF list
<1> HIDE DEF t
<1>4. /\ t.from \in Participants /\ Balances[t.from] < 0 /\ Balances[t.from] = Net(t.from)
      /\ t.to \in Participants /\ Balances[t.to] > 0 /\ Balances[t.to] = Net(t.to)
  BY <1>2 DEF Debt, Credit, Balances
<1>5. t.from # t.to
  BY <1>1, <1>4
<1> QED
  BY <1>2, <1>3, <1>4, <1>5 DEF t, list

\* What a recorded transfer does to the balances.
LEMMA RecordingMoves ==
  ASSUME BooksSound, NEW t \in TransferSet, t.from # t.to,
         settled' = [settled EXCEPT ![<<t.from, t.to>>] = @ + t.amount], bills' = bills
  PROVE  /\ settled' \in [Participants \X Participants -> Int]
         /\ \A p \in Participants : Net(p)' = Net(p) + Effect(p, t)
<1>1. /\ t.from \in Participants /\ t.to \in Participants /\ t.amount \in Int
      /\ settled \in [Participants \X Participants -> Int]
  BY DEF TransferSet, BooksSound
<1>2. /\ settled' \in [Participants \X Participants -> Int]
      /\ settled'[<<t.from, t.to>>] = settled[<<t.from, t.to>>] + t.amount
      /\ \A p, q \in Participants : p # t.from \/ q # t.to => settled'[<<p, q>>] = settled[<<p, q>>]
  BY <1>1
<1>3. ASSUME NEW p \in Participants PROVE Net(p)' = Net(p) + Effect(p, t)
  <2> DEFINE f == Sent(p)
             g == [q \in Participants |-> settled'[<<p, q>>] - settled'[<<q, p>>]]
  <2>1. Net(p)' = Sum(Billed(p), DOMAIN bills) + Sum(g, Participants)
    BY DEF Net, SumOver, SumFunction, Sum, Billed, At
  <2>2. Net(p) = Sum(Billed(p), DOMAIN bills) + Sum(f, Participants)
    BY NetIs
  <2>3. /\ IsFiniteSet(Participants) /\ Ints(f, Participants)
        /\ Sum(Billed(p), DOMAIN bills) \in Int /\ Sum(f, Participants) \in Int
    BY BooksTyped
  <2>4. \A q \in Participants : f[q] = settled[<<p, q>>] - settled[<<q, p>>]
    BY DEF Sent
  <2>5. \A p1, q1 \in Participants : settled[<<p1, q1>>] \in Int
    BY <1>1
  <2>6. \A q \in Participants : g[q] = settled'[<<p, q>>] - settled'[<<q, p>>]
    OBVIOUS
  <2> HIDE DEF f, g
  <2>7. CASE p = t.from
    <3>a. /\ settled'[<<t.from, t.to>>] = settled[<<t.from, t.to>>] + t.amount
          /\ settled'[<<t.to, t.from>>] = settled[<<t.to, t.from>>]
          /\ \A q \in Participants \ {t.to} : /\ settled'[<<p, q>>] = settled[<<p, q>>]
                                              /\ settled'[<<q, p>>] = settled[<<q, p>>]
      BY <1>1, <1>2, <2>7
    <3>b. settled[<<t.from, t.to>>] \in Int /\ settled[<<t.to, t.from>>] \in Int /\ t.amount \in Int
      BY <1>1, <2>5
    <3>1. g[t.to] = f[t.to] + t.amount
      BY <1>1, <2>4, <2>6, <2>7, <3>a, <3>b
    <3>2. ASSUME NEW q \in Participants \ {t.to} PROVE g[q] = f[q]
      <4>1. /\ f[q] = settled[<<p, q>>] - settled[<<q, p>>]
            /\ g[q] = settled'[<<p, q>>] - settled'[<<q, p>>]
        BY <2>4, <2>6
      <4> QED
        BY <3>a, <4>1
    <3>3. - t.amount \in Int /\ f[t.to] \in Int /\ g[t.to] = f[t.to] - (- t.amount)
      BY <1>1, <2>3, <3>1 DEF Ints
    <3>4. Sum(g, Participants) = Sum(f, Participants) - (- t.amount)
      BY <1>1, <2>3, <3>2, <3>3, SumChanged
    <3>5. Effect(p, t) = t.amount
      BY <1>1, <2>7 DEF Effect
    <3> QED
      BY <1>1, <2>1, <2>2, <2>3, <3>4, <3>5
  <2>8. CASE p = t.to
    <3>a. /\ settled'[<<t.from, t.to>>] = settled[<<t.from, t.to>>] + t.amount
          /\ settled'[<<t.to, t.from>>] = settled[<<t.to, t.from>>]
          /\ \A q \in Participants \ {t.from} : /\ settled'[<<p, q>>] = settled[<<p, q>>]
                                              /\ settled'[<<q, p>>] = settled[<<q, p>>]
      BY <1>1, <1>2, <2>8
    <3>b. settled[<<t.from, t.to>>] \in Int /\ settled[<<t.to, t.from>>] \in Int /\ t.amount \in Int
      BY <1>1, <2>5
    <3>1. g[t.from] = f[t.from] - t.amount
      BY <1>1, <2>4, <2>6, <2>8, <3>a, <3>b
    <3>2. ASSUME NEW q \in Participants \ {t.from} PROVE g[q] = f[q]
      <4>1. /\ f[q] = settled[<<p, q>>] - settled[<<q, p>>]
            /\ g[q] = settled'[<<p, q>>] - settled'[<<q, p>>]
        BY <2>4, <2>6
      <4> QED
        BY <3>a, <4>1
    <3>3. Sum(g, Participants) = Sum(f, Participants) - t.amount
      BY <1>1, <2>3, <3>1, <3>2, SumChanged
    <3>4. Effect(p, t) = - t.amount
      BY <1>1, <2>8 DEF Effect
    <3> QED
      BY <1>1, <2>1, <2>2, <2>3, <3>3, <3>4
  <2>9. CASE p # t.from /\ p # t.to
    <3>1. \A q \in Participants : f[q] = g[q]
      BY <1>2, <2>4, <2>6, <2>9
    <3>2. Sum(f, Participants) = Sum(g, Participants)
      BY <2>3, <3>1, SumSame
    <3>3. Effect(p, t) = 0
      BY <2>9 DEF Effect
    <3> QED
      BY <2>1, <2>2, <2>3, <3>2, <3>3
  <2> QED
    BY <2>7, <2>8, <2>9
<1> QED
  BY <1>2, <1>3

\* Only an expense the triggers accept is stored, and suggestions go between people.
LEMMA BooksAlwaysSound == Spec => []BooksSound
<1>1. Init => BooksSound
  <2> SUFFICES ASSUME Init PROVE BooksSound
    OBVIOUS
  <2>1. bills = << >> /\ << >> \in Seq({}) /\ DOMAIN << >> = {}
    BY DEF Init
  <2>2. settled \in [Participants \X Participants -> Int]
    BY DEF Init
  <2> QED
    BY <2>1, <2>2 DEF BooksSound
<1>2. BooksSound /\ [Next]_vars => BooksSound'
  <2> SUFFICES ASSUME BooksSound, [Next]_vars PROVE BooksSound'
    OBVIOUS
  <2>1. ASSUME NEW input \in Inputs, CreateExpense(input) PROVE BooksSound'
    <3> DEFINE a == Resolved(input)
               bill == [total |-> a.totalBase, shares |-> a.shares.base,
                        payments |-> a.payments.base]
    <3>1. attempt' = a /\ settled' = settled
          /\ bills' = IF a.outcome = "resolved" /\ SumsAgree(a) THEN Append(bills, bill) ELSE bills
      BY <2>1 DEF CreateExpense
    <3>2. CASE ~ (a.outcome = "resolved" /\ SumsAgree(a))
      <4>1. bills' = bills
        BY <3>1, <3>2
      <4> QED
        BY <3>1, <4>1, Zenon DEF BooksSound
    <3>3. CASE a.outcome = "resolved" /\ SumsAgree(a)
      <4>1. BillSound(bill)
        <5>1. /\ a.totalBase \in Int /\ IsAmounts(a.shares.base) /\ IsAmounts(a.payments.base)
          BY <3>3, ResolvedExact
        <5>2. Total(a.shares.base) = a.totalBase /\ Total(a.payments.base) = a.totalBase
          BY <3>3 DEF SumsAgree
        <5> HIDE DEF a
        <5> QED
          BY <5>1, <5>2 DEF BillSound
      <4> HIDE DEF bill, a
      <4>2. PICK B : bills \in Seq(B)
        BY DEF BooksSound
      <4>3. bills \in Seq(B \cup {bill})
        BY <4>2
      <4>4. bills' = Append(bills, bill)
        BY <3>1, <3>3 DEF bill
      <4>5. bills' \in Seq(B \cup {bill})
        BY <4>3, <4>4
      <4>6. \A i \in DOMAIN bills' : bills'[i] = bill \/ (i \in DOMAIN bills /\ bills'[i] = bills[i])
        BY <4>3, <4>4
      <4>7. \A i \in DOMAIN bills' : BillSound(bills'[i])
        BY <4>1, <4>6 DEF BooksSound
      <4>8. settled' \in [Participants \X Participants -> Int]
        BY <3>1 DEF BooksSound
      <4> QED
        BY <4>5, <4>7, <4>8 DEF BooksSound, BillSound, IsAmounts, Total
    <3> QED
      BY <3>2, <3>3
  <2>2. ASSUME NEW i \in DOMAIN Simplify(Balances), RecordSuggestion(i) PROVE BooksSound'
    <3> DEFINE t == Simplify(Balances)[i]
    <3>1. bills' = bills /\ settled' = [settled EXCEPT ![<<t.from, t.to>>] = @ + t.amount]
      BY <2>2 DEF RecordSuggestion
    <3>2. t \in TransferSet /\ t.from # t.to
      BY Suggested
    <3> HIDE DEF t
    <3>3. settled' \in [Participants \X Participants -> Int]
      BY <3>1, <3>2, RecordingMoves
    <3> QED
      BY <3>1, <3>3, Zenon DEF BooksSound
  <2>3. ASSUME UNCHANGED vars PROVE BooksSound'
    BY <2>3, Zenon DEF BooksSound, vars
  <2> QED
    BY <2>1, <2>2, <2>3 DEF Next
<1> QED
  BY <1>1, <1>2, PTL DEF Spec

\* Recording a suggested transfer never turns somebody who owes into somebody who is
\* owed or the other way round, and never raises what anybody owes or is owed, from
\* whatever state the advice is taken in (settleUp, recordSettlement).
THEOREM SuggestionsAlwaysConverge == Spec => SuggestionsConverge
<1> DEFINE Converges == settled' # settled =>
             \A p \in Participants : /\ Net(p)' = 0 \/ Sign(Net(p)') = Sign(Net(p))
                                     /\ Abs(Net(p)') <= Abs(Net(p))
<1>1. BooksSound /\ [Next]_vars => [Converges]_vars
  <2> SUFFICES ASSUME BooksSound, Next, settled' # settled, NEW p \in Participants
               PROVE  /\ Net(p)' = 0 \/ Sign(Net(p)') = Sign(Net(p))
                      /\ Abs(Net(p)') <= Abs(Net(p))
    BY DEF vars
  <2>1. PICK i \in DOMAIN Simplify(Balances) : RecordSuggestion(i)
    BY DEF Next, CreateExpense
  <2> DEFINE t == Simplify(Balances)[i]
  <2>2. bills' = bills /\ settled' = [settled EXCEPT ![<<t.from, t.to>>] = @ + t.amount]
    BY <2>1 DEF RecordSuggestion
  <2>3. /\ t \in TransferSet /\ t.from # t.to /\ t.amount > 0
        /\ Net(t.from) < 0 /\ t.amount <= - Net(t.from)
        /\ Net(t.to) > 0 /\ t.amount <= Net(t.to)
    BY Suggested
  <2> HIDE DEF t
  <2>4. Net(p)' = Net(p) + Effect(p, t)
    BY <2>2, <2>3, RecordingMoves
  <2>5. t.amount \in Int /\ Net(p) \in Int
    BY <2>3, BooksTyped DEF TransferSet
  <2>6. Effect(p, t) = IF p = t.from THEN t.amount ELSE IF p = t.to THEN - t.amount ELSE 0
    BY <2>3, <2>5 DEF Effect
  <2> QED
    BY <2>3, <2>4, <2>5, <2>6 DEF Sign, Abs
<1>2. Spec => [][Converges]_vars
  BY <1>1, BooksAlwaysSound, PTL DEF Spec
<1> QED
  BY <1>2 DEF SuggestionsConverge

\* What simplify() promises, for any number of people, expenses and settlements.
LEMMA BooksClear == ASSUME BooksSound PROVE SimplifyClears
<1> DEFINE list == Simplify(Balances)
<1>1. Balances \in [Participants -> Int] /\ \A p \in Participants : Balances[p] = Net(p)
  BY BooksTyped DEF Balances
<1>2. /\ \A i \in DOMAIN list :
           /\ list[i].from \in Debt(Balances) /\ list[i].to \in Credit(Balances)
           /\ list[i].amount > 0
      /\ \A p \in Participants : Balances[p] + Gain(list, p) = 0
      /\ list # << >> => Len(list) < Cardinality(Debt(Balances) \cup Credit(Balances))
  BY <1>1, BalancesNetToZero, SimplifyWorks
<1>3. Debtors = Debt(Balances) /\ Creditors = Credit(Balances)
  BY <1>1 DEF Debtors, Creditors, Debt, Credit
<1> HIDE DEF list
<1>4. \A p \in Participants : ApplyTransfers(Balances, list)[p] = Balances[p] + Gain(list, p)
  BY <1>1 DEF ApplyTransfers, SumOver, SumFunction, Sum, Gain, Effects, Effect
<1>5. IsFullySettled(ApplyTransfers(Balances, list))
  <2>1. DOMAIN ApplyTransfers(Balances, list) = Participants
    BY <1>1 DEF ApplyTransfers
  <2> QED
    BY <1>2, <1>4, <2>1 DEF IsFullySettled
<1> QED
  BY <1>2, <1>3, <1>5 DEF SimplifyClears, list

-----------------------------------------------------------------------------
(* pairwiseDebts(): one share drawn from what the payers have left.          *)

\* A part of no more than everything takes from each no more than they have.
LEMMA AllocateFits ==
  ASSUME NEW w, Weights(w), DOMAIN w \subseteq Int, NEW t \in Nat, t <= Total(w)
  PROVE  LET a == Allocate(t, w) IN
         /\ DOMAIN a = DOMAIN w /\ Total(a) = t
         /\ \A p \in DOMAIN w : a[p] \in Int /\ a[p] >= 0 /\ a[p] <= w[p]
<1> DEFINE a == Allocate(t, w)
           W == Total(w)
<1>1. /\ DOMAIN a = DOMAIN w /\ Ints(a, DOMAIN w) /\ Total(a) = t
      /\ \A p \in DOMAIN w : Sign(t) * a[p] >= 0 /\ Abs(a[p] * W - t * w[p]) < W
  BY AllocateExactAndFair
<1>2. Sign(t) = 1
  BY DEF Sign
<1>3. W \in Int /\ W > 0 /\ t \in Int /\ \A p \in DOMAIN w : w[p] \in Nat
  BY PartTypes
<1> SUFFICES ASSUME NEW p \in DOMAIN w PROVE a[p] \in Int /\ a[p] >= 0 /\ a[p] <= w[p]
  BY <1>1
<1>4. a[p] \in Int /\ 1 * a[p] >= 0 /\ Abs(a[p] * W - t * w[p]) < W
  BY <1>1, <1>2 DEF Ints
<1> HIDE DEF a, W
<1> DEFINE x == a[p]
           y == w[p]
           xW == x * W
           ty == t * y
<1>5. xW \in Int /\ ty \in Int /\ xW - ty < W
  <2>1. xW \in Int /\ ty \in Int
    BY <1>3, <1>4
  <2>2. Abs(xW - ty) < W
    BY <1>4
  <2> HIDE DEF xW, ty
  <2> QED
    BY <1>3, <2>1, <2>2 DEF Abs
<1>6. ty <= y * W
  <2>1. CASE y = 0
    BY <1>3, <2>1
  <2>2. CASE y > 0
    <3>1. t * y <= W * y
      <4>1. y \in Int
        BY <1>3
      <4>2. t <= W
        BY DEF W
      <4> HIDE DEF y
      <4> QED
        BY <1>3, <2>2, <4>1, <4>2, Products
    <3>2. W * y = y * W
      BY <1>3
    <3> QED
      BY <3>1, <3>2
  <2> QED
    BY <1>3, <2>1, <2>2
<1>7. (y + 1) * W = y * W + 1 * W /\ y + 1 \in Int /\ y \in Int /\ x \in Int /\ y * W \in Int
  BY <1>3, <1>4, Factors
<1> HIDE DEF ty
<1>8. x * W < (y + 1) * W
  BY <1>3, <1>5, <1>6, <1>7
<1>9. x < y + 1
  <2> HIDE DEF x, y
  <2> QED
    BY <1>3, <1>7, <1>8, Products
<1> QED
  BY <1>4, <1>7, <1>9

DrawStates(bill) == [left : [DOMAIN bill.payments -> Int],
                     owed : [Participants \X Participants -> Int]]

\* An expense whose shares and payments are amounts of people on the trip.
BillTyped(bill) == IsAmounts(bill.shares) /\ IsAmounts(bill.payments)

SignOf(bill) == Sign(Total(bill.payments))
Payers(acc) == {q \in DOMAIN acc.left : acc.left[q] > 0}
LeftOf(acc) == [q \in Payers(acc) |-> acc.left[q]]
Portion(bill, p, acc) == Allocate(bill.shares[p] * SignOf(bill), LeftOf(acc))

LEMMA PayersWork ==
  ASSUME NEW bill, BillTyped(bill), NEW acc \in DrawStates(bill)
  PROVE  /\ SignOf(bill) \in {1, -1}
         /\ DOMAIN acc.left = DOMAIN bill.payments
         /\ IsFiniteSet(DOMAIN acc.left) /\ DOMAIN acc.left \subseteq Participants
         /\ Ints(acc.left, DOMAIN acc.left)
         /\ Payers(acc) # {} => /\ Weights(LeftOf(acc)) /\ DOMAIN LeftOf(acc) = Payers(acc)
                                /\ Payers(acc) \subseteq Int
         /\ (\A q \in DOMAIN acc.left : acc.left[q] >= 0) =>
              Sum(acc.left, DOMAIN acc.left) = Sum(LeftOf(acc), Payers(acc))
<1> DEFINE D == DOMAIN acc.left
           Y == Payers(acc)
           w == LeftOf(acc)
<1>1. D = DOMAIN bill.payments /\ Ints(acc.left, D)
  BY DEF DrawStates, Ints
<1>2. IsFiniteSet(D) /\ D \subseteq Participants /\ D \subseteq Int
  BY <1>1, ConstantsAssumption, AmountsFinite DEF BillTyped, IsAmounts
<1>3. Y \in SUBSET D /\ IsFiniteSet(Y)
  BY <1>2, FS_Subset DEF Payers
<1>4. \A q \in Y : w[q] = acc.left[q] /\ acc.left[q] \in Nat /\ acc.left[q] > 0
  BY <1>1, <1>3 DEF Payers, LeftOf, Ints
<1>5. DOMAIN w = Y
  BY DEF LeftOf
<1>6. ASSUME Y # {} PROVE Weights(w)
  <2>1. PICK q \in Y : TRUE
    BY <1>6
  <2>2. w[q] > 0 /\ w[q] \in Int
    BY <1>4
  <2>3. Ints(w, Y) /\ \A r \in Y : w[r] >= 0
    BY <1>4 DEF Ints
  <2> HIDE DEF w, Y
  <2>4. w[q] <= Sum(w, Y) /\ Sum(w, Y) \in Int
    BY <1>3, <2>1, <2>3, SumNotNegative, SumIsPartial
  <2>5. Total(w) > 0
    BY <1>5, <2>2, <2>4, TotalIsSum
  <2> QED
    BY <1>3, <1>4, <1>5, <2>5 DEF Weights
<1>7. ASSUME \A q \in D : acc.left[q] >= 0
      PROVE  Sum(acc.left, D) = Sum(w, Y)
  <2>1. \A q \in D \ Y : acc.left[q] = 0
    BY <1>1, <1>7 DEF Payers, Ints
  <2>2. Sum(acc.left, D) = Sum(acc.left, Y)
    <3> HIDE DEF D, Y
    <3> QED
      BY <1>1, <1>2, <1>3, <2>1, SumZeros
  <2>3. Ints(acc.left, Y)
    BY <1>1, <1>3 DEF Ints
  <2>4. Sum(acc.left, Y) = Sum(w, Y)
    <3> HIDE DEF w, Y
    <3> QED
      BY <1>3, <1>4, <2>3, SumSame
  <2> QED
    BY <2>2, <2>4
<1>8. SignOf(bill) \in {1, -1}
  BY DEF SignOf, Sign
<1> QED
  BY <1>1, <1>2, <1>3, <1>5, <1>6, <1>7, <1>8

\* Draw, with its definitions unfolded.
LEMMA DrawIs ==
  ASSUME NEW bill, NEW p, NEW acc
  PROVE  Draw(bill, p, acc) =
           IF bill.shares[p] = 0 \/ Payers(acc) = {} THEN acc
           ELSE [left |-> [q \in DOMAIN acc.left |-> acc.left[q] - At(Portion(bill, p, acc), q)],
                 owed |-> [e \in DOMAIN acc.owed |->
                             acc.owed[e] + IF e[1] = p THEN At(Portion(bill, p, acc), e[2]) * SignOf(bill)
                                           ELSE 0]]
BY DEF Draw, Payers, Portion, LeftOf, SignOf

LEMMA DrawTyped ==
  ASSUME NEW bill, BillTyped(bill), NEW p \in DOMAIN bill.shares, NEW acc \in DrawStates(bill)
  PROVE  Draw(bill, p, acc) \in DrawStates(bill)
<1>1. CASE bill.shares[p] = 0 \/ Payers(acc) = {}
  BY <1>1, DrawIs
<1>2. CASE ~ (bill.shares[p] = 0 \/ Payers(acc) = {})
  <2> DEFINE x == Portion(bill, p, acc)
             P == Participants
             left == [q \in DOMAIN acc.left |-> acc.left[q] - At(x, q)]
             owed == [e \in DOMAIN acc.owed |->
                        acc.owed[e] + IF e[1] = p THEN At(x, e[2]) * SignOf(bill) ELSE 0]
  <2>1. bill.shares[p] * SignOf(bill) \in Int
    BY PayersWork DEF BillTyped, IsAmounts
  <2>2. DOMAIN x = Payers(acc) /\ Ints(x, Payers(acc))
    BY <1>2, <2>1, PayersWork, AllocateExactAndFair DEF Portion
  <2>3. \A q : At(x, q) \in Int
    BY <2>2 DEF At, Ints
  <2> HIDE DEF x
  <2>4. left \in [DOMAIN bill.payments -> Int]
    BY <2>3, PayersWork DEF Ints
  <2>5. DOMAIN acc.owed = P \X P /\ SignOf(bill) \in Int /\ \A e \in P \X P : acc.owed[e] \in Int
    <3>1. acc.owed \in [P \X P -> Int]
      BY DEF DrawStates
    <3>2. SignOf(bill) \in Int
      BY PayersWork
    <3> QED
      BY <3>1, <3>2
  <2>6. owed \in [P \X P -> Int]
    BY <2>3, <2>5
  <2>7. Draw(bill, p, acc) = [left |-> left, owed |-> owed]
    BY <1>2, DrawIs DEF x
  <2> HIDE DEF left, owed
  <2> QED
    BY <2>4, <2>6, <2>7 DEF DrawStates
<1> QED
  BY <1>1, <1>2

-----------------------------------------------------------------------------
(* pairwiseDebts(): every row and every column of the matrix is exact.       *)

Row(owed, p) == [q \in Participants |-> owed[<<p, q>>]]
Column(owed, q) == [p \in Participants |-> owed[<<p, q>>]]
Due(bill) == [p \in DOMAIN bill.shares |-> SignOf(bill) * bill.shares[p]]

LEMMA OneSided ==
  ASSUME NEW bill, BillSound(bill), OneSigned(bill)
  PROVE  /\ BillTyped(bill) /\ SignOf(bill) \in {1, -1}
         /\ IsFiniteSet(DOMAIN bill.shares) /\ DOMAIN bill.shares \subseteq Participants
         /\ Ints(Due(bill), DOMAIN bill.shares)
         /\ \A p \in DOMAIN bill.shares :
              /\ bill.shares[p] \in Int /\ Due(bill)[p] >= 0
              /\ Due(bill)[p] = SignOf(bill) * bill.shares[p]
              /\ bill.shares[p] = SignOf(bill) * Due(bill)[p]
         /\ \A q \in DOMAIN bill.payments :
              /\ bill.payments[q] \in Int /\ bill.payments[q] * SignOf(bill) >= 0
         /\ Sum(Due(bill), DOMAIN bill.shares) = SignOf(bill) * bill.total
         /\ Sum(bill.payments, DOMAIN bill.payments) = bill.total /\ bill.total \in Int
<1> DEFINE S == DOMAIN bill.shares
           D == DOMAIN bill.payments
           k == SignOf(bill)
<1>1. BillTyped(bill) /\ bill.total \in Int
  BY DEF BillSound, BillTyped
<1>2. k = Sign(bill.total) /\ k \in {1, -1}
  BY DEF BillSound, SignOf, Sign
<1>3. /\ IsFiniteSet(S) /\ S \subseteq Participants
      /\ Ints(bill.shares, S) /\ Sum(bill.shares, S) = bill.total
  BY <1>1, AmountsFinite DEF BillTyped, BillSound, IsAmounts
<1>4. Ints(bill.payments, D) /\ Sum(bill.payments, D) = bill.total
  BY <1>1, AmountsFinite DEF BillTyped, BillSound
<1>5. /\ \A p \in S : k * bill.shares[p] >= 0
      /\ \A q \in D : k * bill.payments[q] >= 0
  BY <1>2 DEF OneSigned
<1>6. \A p \in S : Due(bill)[p] = k * bill.shares[p]
  BY DEF Due
<1> HIDE DEF S, D, k
<1>7. \A n \in Int : k * n \in Int /\ n * k = k * n /\ n = k * (k * n)
  BY <1>2
<1>8. \A p \in S : bill.shares[p] \in Int
  BY <1>3 DEF Ints
<1>9. Ints(Due(bill), S) /\ \A p \in S : Due(bill)[p] >= 0 /\ bill.shares[p] = k * Due(bill)[p]
  BY <1>5, <1>6, <1>7, <1>8 DEF Ints
<1>10. \A q \in D : bill.payments[q] \in Int /\ bill.payments[q] * k >= 0
  BY <1>4, <1>5, <1>7 DEF Ints
<1>11. Sum(Due(bill), S) = k * bill.total
  <2>1. k \in Int
    BY <1>2
  <2> QED
    BY <1>3, <1>6, <2>1, SumScale
<1> QED
  BY <1>1, <1>2, <1>3, <1>4, <1>6, <1>8, <1>9, <1>10, <1>11 DEF S, D, k

\* What holds of the drawing when the sharers of done have had their turn: nobody has
\* given more than they paid, what the payers have left is what the others still owe,
\* and the rows and columns of the matrix account for what was drawn.
DrawSound(bill, done, acc) ==
  /\ acc \in DrawStates(bill)
  /\ \A q \in DOMAIN bill.payments : acc.left[q] >= 0
  /\ Sum(acc.left, DOMAIN bill.payments) = Sum(Due(bill), (DOMAIN bill.shares) \ done)
  /\ \A p \in Participants :
       Sum(Row(acc.owed, p), Participants) = IF p \in done THEN bill.shares[p] ELSE 0
  /\ \A q \in Participants :
       Sum(Column(acc.owed, q), Participants) =
         IF q \in DOMAIN bill.payments THEN bill.payments[q] - SignOf(bill) * acc.left[q] ELSE 0

\* The share of p can be taken from what the payers have left.
Fits(bill, done, p, acc) ==
  /\ Sum(acc.left, DOMAIN bill.payments) =
       Due(bill)[p] + Sum(Due(bill), (DOMAIN bill.shares) \ (done \cup {p}))
  /\ Payers(acc) = {} => bill.shares[p] = 0
  /\ Payers(acc) # {} =>
       /\ IsAmounts(Portion(bill, p, acc)) /\ DOMAIN Portion(bill, p, acc) = Payers(acc)
       /\ Total(Portion(bill, p, acc)) = Due(bill)[p]
       /\ \A q \in DOMAIN bill.payments :
            /\ At(Portion(bill, p, acc), q) >= 0
            /\ At(Portion(bill, p, acc), q) <= acc.left[q]

LEMMA PortionFits ==
  ASSUME NEW bill, BillSound(bill), OneSigned(bill),
         NEW done \in SUBSET DOMAIN bill.shares, NEW p \in (DOMAIN bill.shares) \ done,
         NEW acc, DrawSound(bill, done, acc)
  PROVE  Fits(bill, done, p, acc)
<1> DEFINE S == DOMAIN bill.shares
           D == DOMAIN bill.payments
           due == Due(bill)
           x == Portion(bill, p, acc)
           rest == Sum(due, S \ (done \cup {p}))
<1>1. /\ acc \in DrawStates(bill) /\ \A q \in D : acc.left[q] >= 0
      /\ Sum(acc.left, D) = Sum(due, S \ done)
  BY DEF DrawSound
<1>2. /\ BillTyped(bill) /\ IsFiniteSet(S) /\ Ints(due, S)
      /\ \A r \in S : due[r] >= 0 /\ bill.shares[r] = SignOf(bill) * due[r]
      /\ due[p] \in Int /\ due[p] >= 0 /\ due[p] = SignOf(bill) * bill.shares[p]
  BY OneSided DEF Ints
<1>3. /\ SignOf(bill) \in {1, -1} /\ DOMAIN acc.left = D /\ Ints(acc.left, D)
      /\ Payers(acc) # {} => /\ Weights(LeftOf(acc)) /\ DOMAIN LeftOf(acc) = Payers(acc)
                             /\ Payers(acc) \subseteq Int
      /\ Sum(acc.left, D) = Sum(LeftOf(acc), Payers(acc))
      /\ D \subseteq Participants
  <2>1. DOMAIN acc.left = D
    BY <1>1, <1>2, PayersWork
  <2> QED
    BY <1>1, <1>2, <2>1, PayersWork
<1>4. /\ Sum(due, S \ done) = due[p] + rest /\ rest \in Int /\ rest >= 0
  <2>1. IsFiniteSet(S \ done) /\ Ints(due, S \ done) /\ p \in S \ done
    BY <1>2, FS_Subset DEF Ints
  <2>2. (S \ done) \ {p} = S \ (done \cup {p})
    OBVIOUS
  <2>3. IsFiniteSet(S \ (done \cup {p})) /\ Ints(due, S \ (done \cup {p}))
    BY <1>2, FS_Subset DEF Ints
  <2>4. \A r \in S \ (done \cup {p}) : due[r] >= 0
    BY <1>2
  <2> HIDE DEF S, due
  <2>5. Sum(due, S \ done) = due[p] + rest
    BY <2>1, <2>2, SumSplit
  <2>6. rest \in Int /\ rest >= 0
    BY <2>3, <2>4, SumIsPartial, SumNotNegative
  <2> QED
    BY <2>5, <2>6
<1> HIDE DEF S, D, due, x, rest
<1>5. ASSUME Payers(acc) = {} PROVE bill.shares[p] = 0
  <2>1. Sum(LeftOf(acc), Payers(acc)) = 0
    BY <1>5, SumEmpty
  <2>2. due[p] = 0
    BY <1>1, <1>2, <1>3, <1>4, <2>1
  <2>3. bill.shares[p] = SignOf(bill) * due[p]
    BY <1>2 DEF S
  <2> QED
    BY <1>3, <2>2, <2>3
<1>6. ASSUME Payers(acc) # {}
      PROVE  /\ IsAmounts(x) /\ DOMAIN x = Payers(acc) /\ Total(x) = due[p]
             /\ \A q \in D : At(x, q) >= 0 /\ At(x, q) <= acc.left[q]
  <2> DEFINE w == LeftOf(acc)
  <2>1. Weights(w) /\ DOMAIN w = Payers(acc) /\ DOMAIN w \subseteq Int
    BY <1>3, <1>6
  <2>2. Total(w) = due[p] + rest
    BY <1>1, <1>3, <1>4, <2>1, TotalIsSum
  <2>3. due[p] \in Nat /\ due[p] <= Total(w)
    BY <1>2, <1>4, <2>2
  <2>4. x = Allocate(due[p], w)
    <3>1. bill.shares[p] * SignOf(bill) = SignOf(bill) * bill.shares[p]
      <4>1. bill.shares[p] \in Int
        BY OneSided
      <4> QED
        BY <1>3, <4>1
    <3> QED
      BY <1>2, <3>1 DEF x, Portion
  <2>5. \A q \in Payers(acc) : w[q] = acc.left[q]
    BY DEF LeftOf
  <2> HIDE DEF w
  <2>6. /\ DOMAIN x = Payers(acc) /\ Total(x) = due[p]
        /\ \A q \in Payers(acc) : x[q] \in Int /\ x[q] >= 0 /\ x[q] <= acc.left[q]
    BY <2>1, <2>3, <2>4, <2>5, AllocateFits
  <2>7. Payers(acc) \subseteq D
    BY <1>3 DEF Payers
  <2>8. IsAmounts(x)
    BY <1>3, <2>6, <2>7 DEF IsAmounts
  <2>9. \A q \in D : At(x, q) >= 0 /\ At(x, q) <= acc.left[q]
    BY <1>1, <2>6 DEF At, D
  <2> QED
    BY <2>6, <2>8, <2>9
<1> QED
  BY <1>1, <1>4, <1>5, <1>6 DEF S, D, due, x, rest, Fits

\* Drawing the share of one more person keeps the account.
LEMMA DrawKeepsSound ==
  ASSUME NEW bill, BillSound(bill), OneSigned(bill),
         NEW done \in SUBSET DOMAIN bill.shares, NEW p \in (DOMAIN bill.shares) \ done,
         NEW acc, DrawSound(bill, done, acc)
  PROVE  DrawSound(bill, done \cup {p}, Draw(bill, p, acc))
<1> DEFINE P == Participants
           D == DOMAIN bill.payments
           more == done \cup {p}
           k == SignOf(bill)
           rest == Sum(Due(bill), (DOMAIN bill.shares) \ more)
           new == Draw(bill, p, acc)
           x == Portion(bill, p, acc)
           part == [q \in P |-> At(x, q)]
<1>1. /\ acc \in DrawStates(bill) /\ \A q \in D : acc.left[q] >= 0
      /\ \A a \in P : Sum(Row(acc.owed, a), P) = IF a \in done THEN bill.shares[a] ELSE 0
      /\ \A q \in P : Sum(Column(acc.owed, q), P) =
                        IF q \in D THEN bill.payments[q] - k * acc.left[q] ELSE 0
  BY DEF DrawSound
<1>2. /\ BillTyped(bill) /\ k \in {1, -1} /\ p \in P /\ p \notin done
      /\ bill.shares[p] = k * Due(bill)[p] /\ bill.shares[p] \in Int /\ Due(bill)[p] \in Int
      /\ \A q \in D : bill.payments[q] \in Int
  BY OneSided DEF Ints
<1>3. /\ Sum(acc.left, D) = Due(bill)[p] + rest /\ rest \in Int
      /\ Payers(acc) = {} => bill.shares[p] = 0
      /\ Payers(acc) # {} => /\ IsAmounts(x) /\ DOMAIN x = Payers(acc) /\ Total(x) = Due(bill)[p]
                             /\ \A q \in D : At(x, q) >= 0 /\ At(x, q) <= acc.left[q]
  <2>1. IsFiniteSet((DOMAIN bill.shares) \ more) /\ Ints(Due(bill), (DOMAIN bill.shares) \ more)
    BY OneSided, FS_Subset DEF Ints
  <2>2. rest \in Int
    BY <2>1, SumIsPartial
  <2>3. Fits(bill, done, p, acc)
    BY PortionFits
  <2> QED
    BY <2>2, <2>3 DEF Fits
<1>4. DOMAIN acc.left = D /\ IsFiniteSet(D) /\ D \subseteq P /\ Ints(acc.left, D) /\ IsFiniteSet(P)
  BY <1>1, <1>2, PayersWork, ConstantsAssumption
<1>5. CASE bill.shares[p] = 0 \/ Payers(acc) = {}
  <2>1. new = acc /\ bill.shares[p] = 0
    BY <1>3, <1>5, DrawIs
  <2>2. Due(bill)[p] = 0
    <3> DEFINE d == Due(bill)[p]
    <3>1. k * d = 0 /\ d \in Int
      BY <1>2, <2>1
    <3> HIDE DEF d, k
    <3>2. d = 0
      BY <1>2, <3>1
    <3> QED
      BY <3>2 DEF d
  <2>3. Sum(acc.left, D) = rest
    <3> HIDE DEF rest, D
    <3> QED
      BY <1>3, <2>2
  <2>4. \A a \in P : Sum(Row(acc.owed, a), P) = IF a \in more THEN bill.shares[a] ELSE 0
    BY <1>1, <2>1
  <2> QED
    BY <1>1, <2>1, <2>3, <2>4 DEF DrawSound
<1>6. CASE ~ (bill.shares[p] = 0 \/ Payers(acc) = {})
  <2> DEFINE left == [q \in D |-> acc.left[q] - At(x, q)]
             owed == [e \in P \X P |-> acc.owed[e] + IF e[1] = p THEN At(x, e[2]) * k ELSE 0]
  <2>1. acc.owed \in [P \X P -> Int]
    BY <1>1 DEF DrawStates
  <2>2. new = [left |-> left, owed |-> owed]
    <3>1. DOMAIN acc.owed = P \X P
      BY <2>1
    <3> QED
      BY <1>4, <1>6, <3>1, DrawIs
  <2>3. new \in DrawStates(bill)
    BY <1>1, <1>2, DrawTyped
  <2>4. IsAmounts(x) /\ Total(x) = Due(bill)[p] /\ DOMAIN x \subseteq D
    BY <1>3, <1>4, <1>6 DEF Payers
  <2>5. /\ \A q \in P : part[q] \in Int /\ part[q] = At(x, q)
        /\ \A q \in P \ D : part[q] = 0
        /\ Sum(part, P) = Due(bill)[p]
    BY <2>4, AtTypes DEF At
  <2>6. \A q \in D : acc.left[q] \in Int /\ part[q] >= 0 /\ part[q] <= acc.left[q]
    BY <1>3, <1>4, <1>6, <2>5 DEF Ints
  <2>7. \A q \in D : left[q] = acc.left[q] - part[q]
    BY <1>4, <2>5
  <2>8. \A a, q \in P : owed[<<a, q>>] = acc.owed[<<a, q>>] + IF a = p THEN part[q] * k ELSE 0
    BY <2>5
  <2> HIDE DEF x, part, left, owed, D, P, new, k, rest
  <2>9. Sum(left, D) = rest
    <3>1. \A q \in D : acc.left[q] = left[q] + part[q] /\ left[q] \in Int /\ part[q] \in Int
      BY <1>4, <2>5, <2>6, <2>7
    <3>2. Ints(left, D) /\ Ints(part, D) /\ Ints(part, P)
      BY <2>5, <3>1 DEF Ints
    <3>3. Sum(acc.left, D) = Sum(left, D) + Sum(part, D)
      BY <1>4, <3>1, <3>2, SumPlus
    <3>4. Sum(part, P) = Sum(part, D)
      BY <1>4, <2>5, <3>2, SumZeros
    <3>5. Sum(left, D) \in Int
      BY <1>4, <3>2, SumIsPartial
    <3> QED
      BY <1>2, <1>3, <2>5, <3>3, <3>4, <3>5
  <2>10. \A q \in D : left[q] >= 0
    BY <1>4, <2>5, <2>6, <2>7
  <2>11. ASSUME NEW a \in P
         PROVE  Sum(Row(owed, a), P) = IF a \in more THEN bill.shares[a] ELSE 0
    <3>1. Ints(Row(acc.owed, a), P) /\ \A q \in P : Row(owed, a)[q] = owed[<<a, q>>]
      BY <2>1 DEF Row, Ints, P
    <3>2. \A q \in P : Row(acc.owed, a)[q] = acc.owed[<<a, q>>]
      BY DEF Row, P
    <3>3. CASE a # p
      <4>1. ASSUME NEW q \in P PROVE Row(acc.owed, a)[q] = Row(owed, a)[q]
        <5>1. acc.owed[<<a, q>>] \in Int
          BY <2>1
        <5>2. owed[<<a, q>>] = acc.owed[<<a, q>>] + 0
          BY <2>8, <3>3
        <5> QED
          BY <3>1, <3>2, <5>1, <5>2
      <4>2. Sum(Row(acc.owed, a), P) = Sum(Row(owed, a), P)
        BY <1>4, <3>1, <4>1, SumSame
      <4> QED
        BY <1>1, <3>3, <4>2
    <3>4. CASE a = p
      <4> DEFINE paid == [q \in P |-> part[q] * k]
      <4>1. k \in Int /\ \A q \in P : paid[q] = k * part[q] /\ paid[q] \in Int
        BY <1>2, <2>5
      <4>2. Ints(part, P) /\ Ints(paid, P)
        BY <2>5, <4>1 DEF Ints
      <4>3. \A q \in P : Row(owed, a)[q] = Row(acc.owed, a)[q] + paid[q]
        BY <2>8, <3>1, <3>2, <3>4
      <4> HIDE DEF paid
      <4>4. Sum(paid, P) = k * Sum(part, P)
        BY <1>4, <4>1, <4>2, SumScale
      <4>5. Sum(Row(owed, a), P) = Sum(Row(acc.owed, a), P) + Sum(paid, P)
        BY <1>4, <3>1, <4>2, <4>3, SumPlus
      <4>6. Sum(paid, P) = bill.shares[p]
        BY <1>2, <2>5, <4>4
      <4>7. Sum(Row(acc.owed, a), P) = 0
        BY <1>1, <1>2, <3>4
      <4> QED
        BY <1>2, <3>4, <4>5, <4>6, <4>7
    <3> QED
      BY <3>3, <3>4
  <2>12. ASSUME NEW q \in P
         PROVE  Sum(Column(owed, q), P) = IF q \in D THEN bill.payments[q] - k * left[q] ELSE 0
    <3> DEFINE old == Column(acc.owed, q)
               col == Column(owed, q)
    <3>1. /\ Ints(old, P) /\ \A a \in P : col[a] = owed[<<a, q>>]
          /\ \A a \in P : old[a] = acc.owed[<<a, q>>] /\ old[a] \in Int
      BY <2>1 DEF Column, Ints, P
    <3>2. part[q] \in Int /\ part[q] * k \in Int /\ part[q] * k = k * part[q]
      BY <1>2, <2>5
    <3>3. - (k * part[q]) \in Int
      BY <3>2
    <3>4. col[p] = old[p] - (- (k * part[q]))
      <4>1. p \in P
        BY <1>2 DEF P
      <4>2. owed[<<p, q>>] = acc.owed[<<p, q>>] + part[q] * k
        BY <2>8, <4>1
      <4>3. col[p] = owed[<<p, q>>] /\ old[p] = acc.owed[<<p, q>>] /\ old[p] \in Int
        BY <3>1, <4>1
      <4> QED
        BY <3>2, <4>2, <4>3
    <3>5. ASSUME NEW a \in P \ {p} PROVE col[a] = old[a]
      <4>1. owed[<<a, q>>] = acc.owed[<<a, q>>] + 0
        BY <2>8
      <4>2. col[a] = owed[<<a, q>>] /\ old[a] = acc.owed[<<a, q>>] /\ old[a] \in Int
        BY <3>1
      <4> QED
        BY <4>1, <4>2
    <3> HIDE DEF old, col
    <3>6. Sum(col, P) = Sum(old, P) - (- (k * part[q]))
      BY <1>2, <1>4, <3>1, <3>3, <3>4, <3>5, SumChanged
    <3>7. Sum(old, P) = IF q \in D THEN bill.payments[q] - k * acc.left[q] ELSE 0
      BY <1>1 DEF old
    <3>8. CASE q \in D
      <4>1. k * left[q] = k * acc.left[q] - k * part[q] /\ k * acc.left[q] \in Int
        BY <1>2, <2>6, <2>7, <3>2, <3>8
      <4>2. bill.payments[q] \in Int
        BY <1>2, <3>8
      <4> QED
        BY <3>2, <3>6, <3>7, <3>8, <4>1, <4>2 DEF col
    <3>9. CASE q \notin D
      <4>1. k * part[q] = 0
        BY <1>2, <2>5, <3>9
      <4> QED
        BY <3>6, <3>7, <3>9, <4>1 DEF col
    <3> QED
      BY <3>8, <3>9
  <2>13. new.left = left /\ new.owed = owed
    BY <2>2
  <2> QED
    BY <2>3, <2>9, <2>10, <2>11, <2>12, <2>13 DEF DrawSound, D, P, k, rest, new
<1> QED
  BY <1>5, <1>6

DrawStart(bill) == [left |-> [q \in DOMAIN bill.payments |-> bill.payments[q] * SignOf(bill)],
                    owed |-> [e \in Participants \X Participants |-> 0]]

\* Everybody's turn, in the order of list.
IsDrawn(bill, list, drawn) ==
  /\ drawn \in [0 .. Len(list) -> DrawStates(bill)]
  /\ drawn[0] = DrawStart(bill)
  /\ \A n \in 1 .. Len(list) : drawn[n] = Draw(bill, list[n], drawn[n - 1])
  /\ PairwiseOf(bill) = drawn[Len(list)].owed

LEMMA SharersListed ==
  ASSUME NEW bill, BillTyped(bill)
  PROVE  /\ Len(ById(DOMAIN bill.shares)) \in Nat
         /\ ById(DOMAIN bill.shares) \in
              Bijection(1 .. Len(ById(DOMAIN bill.shares)), DOMAIN bill.shares)
<1> DEFINE S == DOMAIN bill.shares
           list == ById(S)
<1>1. IsFiniteSet(S) /\ S \subseteq Int
  BY AmountsFinite DEF BillTyped
<1>2. Cardinality(S) \in Nat /\ list \in Bijection(1 .. Cardinality(S), S)
  BY <1>1, FS_CardinalityType, IdsListed
<1> HIDE DEF S, list
<1>3. Len(list) = Cardinality(S)
  BY <1>2 DEF Bijection, Injection
<1> QED
  BY <1>2, <1>3 DEF S, list

LEMMA DrawnRuns ==
  ASSUME NEW bill, BillTyped(bill)
  PROVE  \E drawn : IsDrawn(bill, ById(DOMAIN bill.shares), drawn)
<1> DEFINE list == ById(DOMAIN bill.shares)
           m == Len(list)
           V == DrawStates(bill)
           start == DrawStart(bill)
           g == [e \in (1 .. m) \X V |-> Draw(bill, list[e[1]], e[2])]
           IsRun(f) == f = [n \in 0 .. m |-> IF n = 0 THEN start
                                             ELSE Draw(bill, list[n], f[n - 1])]
           drawn == CHOOSE f : IsRun(f)
<1>1. m \in Nat /\ \A n \in 1 .. m : list[n] \in DOMAIN bill.shares
  <2> HIDE DEF list
  <2>1. m \in Nat /\ list \in Bijection(1 .. m, DOMAIN bill.shares)
    BY SharersListed DEF list
  <2> QED
    BY <2>1 DEF Bijection, Injection
<1>2. start \in V
  <2>1. SignOf(bill) \in {1, -1} /\ \A q \in DOMAIN bill.payments : bill.payments[q] \in Int
    BY DEF SignOf, Sign, BillTyped, IsAmounts
  <2>2. \A q \in DOMAIN bill.payments : bill.payments[q] * SignOf(bill) \in Int
    BY <2>1
  <2> QED
    BY <2>2 DEF DrawStart, DrawStates
<1>3. PairwiseOf(bill) = drawn[m].owed
  BY DEF PairwiseOf, DrawStart, SignOf
<1> HIDE DEF m, V, start, list, drawn
<1>4. ASSUME NEW n \in 1 .. m, NEW s \in V PROVE Draw(bill, list[n], s) \in V
  BY <1>1, DrawTyped DEF V
<1>5. IsStep(g, m, V)
  BY <1>4 DEF IsStep
<1>6. \A n \in 1 .. m, s \in V : g[<<n, s>>] = Draw(bill, list[n], s)
  OBVIOUS
<1> HIDE DEF g
<1>7. \E f : IsRun(f) /\ f \in [0 .. m -> V]
  <2>1. PICK f \in [0 .. m -> V] : IsIterated(f, m, start, g)
    BY <1>1, <1>2, <1>5, Recursion
  <2>2. ASSUME NEW n \in 1 .. m PROVE f[n] = Draw(bill, list[n], f[n - 1])
    <3>1. n - 1 \in 0 .. m
      BY <1>1
    <3>2. f[n - 1] \in V
      BY <2>1, <3>1
    <3> QED
      BY <1>6, <2>1, <3>2 DEF IsIterated
  <2>3. \A n \in 0 .. m : f[n] = IF n = 0 THEN start ELSE Draw(bill, list[n], f[n - 1])
    BY <1>1, <2>1, <2>2 DEF IsIterated
  <2>4. IsRun(f)
    BY <2>1, <2>3
  <2> QED
    BY <2>1, <2>4
<1>8. IsRun(drawn)
  BY <1>7 DEF drawn
<1>9. /\ drawn[0] = start
      /\ \A n \in 1 .. m : drawn[n] = Draw(bill, list[n], drawn[n - 1])
  BY <1>1, <1>8
<1>10. \A n \in 0 .. m : drawn[n] \in V
  <2> DEFINE Good == {n \in 0 .. m : drawn[n] \in V}
  <2>1. 0 \in Good
    BY <1>1, <1>2, <1>9
  <2>2. ASSUME NEW n \in 0 .. m - 1, n \in Good PROVE n + 1 \in Good
    <3>1. n + 1 \in 0 .. m /\ n + 1 \in 1 .. m /\ (n + 1) - 1 = n
      BY <1>1
    <3>2. drawn[n + 1] = Draw(bill, list[n + 1], drawn[n])
      BY <1>9, <3>1
    <3> QED
      BY <1>4, <2>2, <3>1, <3>2
  <2>3. \A n \in 0 .. m : n \in Good
    <3> HIDE DEF Good
    <3> QED
      BY <1>1, <2>1, <2>2, UpTo
  <2> QED
    BY <2>3
<1>11. drawn \in [0 .. m -> V]
  BY <1>8, <1>10
<1>12. IsDrawn(bill, list, drawn)
  BY <1>3, <1>9, <1>11 DEF IsDrawn, m, V, start
<1> QED
  BY <1>12 DEF list

LEMMA DrawStartsSound ==
  ASSUME NEW bill, BillSound(bill), OneSigned(bill)
  PROVE  DrawSound(bill, {}, DrawStart(bill))
<1> DEFINE P == Participants
           D == DOMAIN bill.payments
           k == SignOf(bill)
           left == DrawStart(bill).left
           owed == DrawStart(bill).owed
<1>1. /\ BillTyped(bill) /\ k \in {1, -1} /\ bill.total \in Int
      /\ \A q \in D : bill.payments[q] \in Int /\ bill.payments[q] * k >= 0
      /\ Sum(Due(bill), DOMAIN bill.shares) = k * bill.total
      /\ Sum(bill.payments, D) = bill.total
  BY OneSided
<1>2. IsFiniteSet(P) /\ IsFiniteSet(D)
  BY <1>1, ConstantsAssumption, AmountsFinite DEF BillTyped
<1>3. \A q \in D : left[q] = bill.payments[q] * k /\ left[q] \in Int /\ left[q] = k * bill.payments[q]
                   /\ bill.payments[q] - k * left[q] = 0
  BY <1>1 DEF DrawStart
<1>4. DrawStart(bill) \in DrawStates(bill)
  <2>1. \A q \in DOMAIN bill.payments : bill.payments[q] * SignOf(bill) \in Int
    BY <1>1
  <2> QED
    BY <2>1 DEF DrawStart, DrawStates
<1>5. \A p, q \in P : owed[<<p, q>>] = 0
  BY DEF DrawStart
<1> HIDE DEF left, owed, D, k
<1>6. Sum(left, D) = Sum(Due(bill), DOMAIN bill.shares)
  <2>1. k \in Int /\ Ints(bill.payments, D)
    BY <1>1 DEF Ints
  <2>2. Sum(left, D) = k * Sum(bill.payments, D)
    BY <1>2, <1>3, <2>1, SumScale
  <2> QED
    BY <1>1, <2>2
<1>7. ASSUME NEW p \in P PROVE Sum(Row(owed, p), P) = 0 /\ Sum(Column(owed, p), P) = 0
  <2>1. \A q \in P : Row(owed, p)[q] = 0 /\ Column(owed, p)[q] = 0
    BY <1>5 DEF Row, Column
  <2>2. Ints(Row(owed, p), P) /\ Ints(Column(owed, p), P) /\ {} \in SUBSET P
    BY <2>1 DEF Ints
  <2>3. Sum(Row(owed, p), P) = Sum(Row(owed, p), {})
    BY <1>2, <2>1, <2>2, SumZeros
  <2>4. Sum(Column(owed, p), P) = Sum(Column(owed, p), {})
    BY <1>2, <2>1, <2>2, SumZeros
  <2> QED
    BY <2>3, <2>4, SumEmpty
<1>8. (DOMAIN bill.shares) \ {} = DOMAIN bill.shares
  OBVIOUS
<1>9. \A q \in D : left[q] >= 0
  BY <1>1, <1>3
<1> QED
  BY <1>3, <1>4, <1>6, <1>7, <1>8, <1>9 DEF DrawSound, left, owed, D, k

\* A matrix of debts whose rows are the shares and whose columns are the payments.
Exact(bill, owed) ==
  /\ owed \in [Participants \X Participants -> Int]
  /\ \A p \in Participants : Sum(Row(owed, p), Participants) = At(bill.shares, p)
  /\ \A q \in Participants : Sum(Column(owed, q), Participants) = At(bill.payments, q)

\* Once everybody has drawn, nothing is left with the payers.
LEMMA DrawEndsExact ==
  ASSUME NEW bill, BillSound(bill), OneSigned(bill),
         NEW acc, DrawSound(bill, DOMAIN bill.shares, acc)
  PROVE  Exact(bill, acc.owed)
<1> DEFINE P == Participants
           S == DOMAIN bill.shares
           D == DOMAIN bill.payments
           k == SignOf(bill)
<1>1. /\ acc \in DrawStates(bill) /\ \A q \in D : acc.left[q] >= 0
      /\ Sum(acc.left, D) = Sum(Due(bill), S \ S)
      /\ \A p \in P : Sum(Row(acc.owed, p), P) = IF p \in S THEN bill.shares[p] ELSE 0
      /\ \A q \in P : Sum(Column(acc.owed, q), P) =
                        IF q \in D THEN bill.payments[q] - k * acc.left[q] ELSE 0
  BY DEF DrawSound
<1>2. BillTyped(bill) /\ k \in {1, -1} /\ \A q \in D : bill.payments[q] \in Int
  BY OneSided
<1>3. IsFiniteSet(D) /\ Ints(acc.left, D)
  BY <1>1, <1>2, PayersWork
<1>4. Sum(acc.left, D) = 0
  <2>1. S \ S = {}
    OBVIOUS
  <2> QED
    BY <1>1, <2>1, SumEmpty
<1>5. \A q \in D : acc.left[q] = 0
  <2>1. \A q \in D : acc.left[q] \in Int /\ acc.left[q] <= Sum(acc.left, D)
    BY <1>1, <1>3, SumNotNegative DEF Ints
  <2> QED
    BY <1>1, <1>4, <2>1
<1>6. ASSUME NEW q \in P PROVE Sum(Column(acc.owed, q), P) = At(bill.payments, q)
  <2>1. CASE q \in D
    <3>1. k * acc.left[q] = 0 /\ bill.payments[q] \in Int
      BY <1>2, <1>5, <2>1
    <3> QED
      BY <1>1, <2>1, <3>1 DEF At
  <2>2. CASE q \notin D
    BY <1>1, <2>2 DEF At
  <2> QED
    BY <2>1, <2>2
<1>7. \A p \in P : Sum(Row(acc.owed, p), P) = At(bill.shares, p)
  BY <1>1 DEF At
<1>8. acc.owed \in [P \X P -> Int]
  BY <1>1 DEF DrawStates
<1> QED
  BY <1>6, <1>7, <1>8 DEF Exact

\* pairwiseDebts() on one expense: what somebody owes adds up to their share, what
\* somebody is owed adds up to what they paid, whatever the rounding.
THEOREM MatrixExact ==
  ASSUME NEW bill, BillSound(bill), OneSigned(bill)
  PROVE  Exact(bill, PairwiseOf(bill))
<1> DEFINE S == DOMAIN bill.shares
           list == ById(S)
           m == Len(list)
           done(n) == {list[i] : i \in 1 .. n}
<1>1. BillTyped(bill)
  BY OneSided
<1>2. PICK drawn : IsDrawn(bill, list, drawn)
  BY <1>1, DrawnRuns
<1>3. m \in Nat /\ list \in Bijection(1 .. m, S)
  BY <1>1, SharersListed
<1> HIDE DEF m, list, S
<1>4. /\ \A i \in 1 .. m : list[i] \in S
      /\ \A i, j \in 1 .. m : list[i] = list[j] => i = j
      /\ \A p \in S : \E i \in 1 .. m : list[i] = p
  BY <1>3 DEF Bijection, Injection, Surjection, IsInjective
<1>5. /\ drawn[0] = DrawStart(bill)
      /\ \A n \in 1 .. m : drawn[n] = Draw(bill, list[n], drawn[n - 1])
      /\ PairwiseOf(bill) = drawn[m].owed
  BY <1>2 DEF IsDrawn, m
<1> DEFINE Good == {n \in 0 .. m : DrawSound(bill, done(n), drawn[n])}
<1>6. 0 \in Good
  <2>1. done(0) = {} /\ 0 \in 0 .. m
    BY <1>3
  <2> QED
    BY <1>5, <2>1, DrawStartsSound
<1>7. ASSUME NEW n \in 0 .. m - 1, n \in Good PROVE n + 1 \in Good
  <2> DEFINE p == list[n + 1]
  <2>1. n + 1 \in 0 .. m /\ n + 1 \in 1 .. m /\ (n + 1) - 1 = n /\ n \in 0 .. m
    BY <1>3
  <2>2. drawn[n + 1] = Draw(bill, p, drawn[n])
    BY <1>5, <2>1
  <2>3. done(n) \in SUBSET S /\ p \in S \ done(n)
    <3>1. \A i \in 1 .. n : i \in 1 .. m /\ i # n + 1
      BY <1>3
    <3> QED
      BY <1>4, <2>1, <3>1
  <2>4. done(n + 1) = done(n) \cup {p}
    <3>1. \A i : i \in 1 .. n + 1 <=> i \in 1 .. n \/ i = n + 1
      BY <1>3
    <3> QED
      BY <3>1
  <2>5. DrawSound(bill, done(n), drawn[n])
    BY <1>7
  <2> HIDE DEF p, done
  <2>6. DrawSound(bill, done(n) \cup {p}, Draw(bill, p, drawn[n]))
    BY <2>3, <2>5, DrawKeepsSound DEF S
  <2>7. DrawSound(bill, done(n + 1), drawn[n + 1])
    BY <2>2, <2>4, <2>6
  <2> QED
    BY <2>1, <2>7
<1>8. m \in Good
  <2>1. m \in 0 .. m
    BY <1>3
  <2> HIDE DEF Good
  <2>2. \A n \in 0 .. m : n \in Good
    BY <1>3, <1>6, <1>7, UpTo
  <2> QED
    BY <2>1, <2>2
<1>9. done(m) = S
  BY <1>4
<1>10. DrawSound(bill, S, drawn[m])
  BY <1>8, <1>9
<1> QED
  BY <1>5, <1>10, DrawEndsExact DEF S

-----------------------------------------------------------------------------
(* pairwiseDebts(): the transfers of all pairs, and who they square.         *)

\* A sum over pairs is a sum of sums.
Sums(F, S, T) == [x \in S |-> Sum([y \in T |-> F[<<x, y>>]], T)]

LEMMA SumPairs ==
  ASSUME NEW S, IsFiniteSet(S), NEW T, IsFiniteSet(T), NEW F,
         \A x \in S, y \in T : F[<<x, y>>] \in Int
  PROVE  Sum(F, S \X T) = Sum(Sums(F, S, T), S)
<1> DEFINE across(x) == [y \in T |-> F[<<x, y>>]]
           sums == [x \in S |-> Sum(across(x), T)]
           Good == {U \in SUBSET S : Sum(F, U \X T) = Sum(sums, U)}
<1>1. /\ \A x \in S : Ints(across(x), T) /\ Sum(across(x), T) \in Int
      /\ Ints(sums, S)
  <2>1. \A x \in S : Ints(across(x), T)
    BY DEF Ints
  <2>2. \A x \in S : Sum(across(x), T) \in Int
    <3> HIDE DEF across
    <3> QED
      BY <2>1, SumIsPartial
  <2> QED
    BY <2>1, <2>2 DEF Ints
<1>2. IsFiniteSet(S \X T) /\ Ints(F, S \X T)
  BY FS_Product DEF Ints
<1>3. ASSUME NEW x \in S PROVE Sum(F, {x} \X T) = Sum(across(x), T)
  <2> DEFINE Fine == {V \in SUBSET T : Sum(F, {x} \X V) = Sum(across(x), V)}
  <2>1. {} \in Fine
    <3>1. {x} \X {} = {}
      OBVIOUS
    <3> QED
      BY <3>1, SumEmpty
  <2>2. ASSUME NEW V \in SUBSET T, NEW y \in T \ V, V \in Fine PROVE V \cup {y} \in Fine
    <3>1. {x} \X (V \cup {y}) = ({x} \X V) \cup {<<x, y>>}
      OBVIOUS
    <3>2. {x} \X V \in SUBSET (S \X T) /\ <<x, y>> \in (S \X T) \ ({x} \X V)
      OBVIOUS
    <3>3. Adds(F, {x} \X V, <<x, y>>)
      BY <1>2, <3>2, SumAdd
    <3>4. Adds(across(x), V, y)
      BY <1>1, SumAdd
    <3>5. across(x)[y] = F[<<x, y>>]
      OBVIOUS
    <3>6. Sum(F, {x} \X V) = Sum(across(x), V)
      BY <2>2
    <3> HIDE DEF across
    <3>7. Sum(F, {x} \X (V \cup {y})) = Sum(across(x), V \cup {y})
      BY <3>1, <3>3, <3>4, <3>5, <3>6 DEF Adds
    <3> QED
      BY <3>7
  <2>3. T \in Fine
    <3> HIDE DEF Fine
    <3> QED
      BY <2>1, <2>2, SubsetInduction
  <2> QED
    BY <2>3
<1>4. {} \in Good
  <2>1. {} \X T = {}
    OBVIOUS
  <2> QED
    BY <2>1, SumEmpty
<1>5. ASSUME NEW U \in SUBSET S, NEW x \in S \ U, U \in Good PROVE U \cup {x} \in Good
  <2> DEFINE all == (U \cup {x}) \X T
  <2>1. all \in SUBSET (S \X T) /\ (U \X T) \in SUBSET all /\ all \ (U \X T) = {x} \X T
    OBVIOUS
  <2>2. IsFiniteSet(all) /\ Ints(F, all)
    BY <1>2, <2>1, FS_Subset DEF Ints
  <2>3. Sum(F, all) = Sum(F, U \X T) + Sum(F, {x} \X T)
    <3> HIDE DEF all
    <3> QED
      BY <2>1, <2>2, SumParts
  <2>4. Sum(F, {x} \X T) = sums[x]
    BY <1>3
  <2>5. Sum(F, U \X T) = Sum(sums, U)
    BY <1>5
  <2> HIDE DEF sums
  <2>6. Adds(sums, U, x)
    BY <1>1, SumAdd
  <2>7. Sum(F, all) = Sum(sums, U \cup {x})
    BY <2>3, <2>4, <2>5, <2>6 DEF Adds
  <2> QED
    BY <2>7 DEF sums
<1>6. S \in Good
  <2> HIDE DEF Good
  <2> QED
    BY <1>4, <1>5, SubsetInduction
<1> QED
  BY <1>6 DEF Sums

\* What the transfers of nettedPairwise() move for one person: everything they are owed
\* less everything they owe, with the sign that settles it.
LEMMA NettedMoves ==
  ASSUME NEW debt \in [Participants \X Participants -> Int], NEW p \in Participants,
         NEW net \in [Participants -> Int]
  PROVE  ApplyTransfers(net, NettedPairwise(debt))[p] =
           net[p] + Sum(Row(debt, p), Participants) - Sum(Column(debt, p), Participants)
<1> DEFINE P == Participants
           due(a, b) == debt[<<a, b>>] - debt[<<b, a>>]
           pairs == {e \in P \X P : e[1] # e[2] /\ due(e[1], e[2]) > 0}
           list == NettedPairwise(debt)
           moved == [e \in pairs |-> Effect(p, list[e])]
           F == [e \in P \X P |-> IF e \in pairs THEN Effect(p, list[e]) ELSE 0]
           given == [b \in P |-> F[<<p, b>>]]
           got == [a \in P |-> F[<<a, p>>]]
           sums == Sums(F, P, P)
<1>1. IsFiniteSet(P) /\ IsFiniteSet(P \X P)
  BY ConstantsAssumption, FS_Product
<1>2. \A a, b \in P : debt[<<a, b>>] \in Int
  OBVIOUS
<1>3. ASSUME NEW a \in P, NEW b \in P PROVE due(a, b) \in Int
  <2>1. debt[<<a, b>>] \in Int /\ debt[<<b, a>>] \in Int
    BY <1>2
  <2> QED
    BY <2>1
<1>4. list = [e \in pairs |-> Transfer(e[1], e[2], due(e[1], e[2]))]
  BY DEF NettedPairwise
<1>5. \A a, b \in P : /\ <<a, b>> \in pairs <=> a # b /\ due(a, b) > 0
                      /\ F[<<a, b>>] = IF a # b /\ due(a, b) > 0
                                       THEN (IF a = p THEN due(a, b) ELSE 0)
                                              - (IF b = p THEN due(a, b) ELSE 0)
                                       ELSE 0
  BY <1>4 DEF Effect, Transfer
<1>6. ApplyTransfers(net, list)[p] = net[p] + Sum(moved, pairs)
  <2>1. DOMAIN list = pairs
    BY <1>4
  <2> QED
    BY <2>1 DEF ApplyTransfers, SumOver, SumFunction, Sum, Effect
<1>7. /\ pairs \in SUBSET (P \X P)
      /\ \A e \in pairs : F[e] = moved[e]
      /\ \A e \in (P \X P) \ pairs : F[e] = 0
  OBVIOUS
<1> HIDE DEF list, pairs, F, moved
<1>8. ASSUME NEW a \in P, NEW b \in P PROVE F[<<a, b>>] \in Int
  <2>1. due(a, b) \in Int
    BY <1>3
  <2> HIDE DEF due
  <2> QED
    BY <1>5, <2>1
<1>9. Sum(moved, pairs) = Sum(sums, P)
  <2>1. Ints(F, P \X P)
    BY <1>8 DEF Ints
  <2>2. Sum(F, P \X P) = Sum(F, pairs)
    BY <1>1, <1>7, <2>1, SumZeros
  <2>3. Sum(F, pairs) = Sum(moved, pairs)
    <3>1. IsFiniteSet(pairs) /\ Ints(F, pairs)
      BY <1>1, <1>7, <2>1, FS_Subset DEF Ints
    <3> QED
      BY <1>7, <3>1, SumSame
  <2>4. Sum(F, P \X P) = Sum(sums, P)
    <3>1. \A a \in P, b \in P : F[<<a, b>>] \in Int
      BY <1>8
    <3> HIDE DEF P
    <3> QED
      BY <1>1, <3>1, SumPairs
  <2> QED
    BY <2>2, <2>3, <2>4
<1>10. Sum(sums, P) = Sum(got, P) + Sum(given, P)
  <2>1. ASSUME NEW a \in P \ {p} PROVE sums[a] = got[a]
    <3> DEFINE f == [b \in P |-> F[<<a, b>>]]
    <3>1. ASSUME NEW b \in P \ {p} PROVE F[<<a, b>>] = 0
      <4>1. F[<<a, b>>] = IF a # b /\ due(a, b) > 0 THEN 0 - 0 ELSE 0
        BY <1>5
      <4> QED
        BY <4>1
    <3>2. Ints(f, P) /\ \A b \in P \ {p} : f[b] = 0
      BY <1>8, <3>1 DEF Ints
    <3>3. sums[a] = Sum(f, P) /\ f[p] = got[a]
      BY DEF Sums
    <3> HIDE DEF f, sums, got
    <3> QED
      BY <1>1, <3>2, <3>3, SumOne
  <2>2. sums[p] = Sum(given, P)
    BY DEF Sums
  <2>3. got[p] = 0
    BY <1>5
  <2>4. Ints(got, P) /\ Ints(given, P)
    BY <1>8 DEF Ints
  <2> HIDE DEF sums, got, given
  <2>5. Sum(given, P) \in Int /\ Sum(got, P) \in Int /\ - Sum(given, P) \in Int
    BY <1>1, <2>4, SumIsPartial
  <2>6. sums[p] = got[p] - (- Sum(given, P))
    BY <2>2, <2>3, <2>5
  <2>7. Sum(sums, P) = Sum(got, P) - (- Sum(given, P))
    BY <1>1, <2>1, <2>4, <2>5, <2>6, SumChanged
  <2> QED
    BY <2>5, <2>7
<1>11. Sum(got, P) + Sum(given, P) + Sum(Column(debt, p), P) = Sum(Row(debt, p), P)
  <2> DEFINE both == [q \in P |-> got[q] + given[q]]
             col == Column(debt, p)
             row == Row(debt, p)
  <2>1. ASSUME NEW q \in P PROVE row[q] = both[q] + col[q] /\ both[q] \in Int
    <3>1. row[q] = debt[<<p, q>>] /\ col[q] = debt[<<q, p>>]
      BY DEF Row, Column
    <3>2. both[q] = due(p, q)
      <4>1. both[q] = F[<<q, p>>] + F[<<p, q>>]
        OBVIOUS
      <4>2. due(q, p) = - due(p, q) /\ due(p, q) \in Int /\ due(q, p) \in Int
        BY <1>2
      <4>3. p = q => due(p, q) = 0
        BY <1>2
      <4> HIDE DEF due, both
      <4> QED
        BY <1>5, <4>1, <4>2, <4>3
    <3> QED
      BY <1>2, <3>1, <3>2
  <2>2. Ints(got, P) /\ Ints(given, P) /\ Ints(both, P) /\ Ints(col, P) /\ Ints(row, P)
    BY <1>2, <1>8, <2>1 DEF Ints, Row, Column
  <2>3. \A q \in P : both[q] = got[q] + given[q]
    OBVIOUS
  <2> HIDE DEF both, got, given, col, row
  <2>4. Sum(both, P) = Sum(got, P) + Sum(given, P)
    BY <1>1, <2>2, <2>3, SumPlus
  <2>5. Sum(row, P) = Sum(both, P) + Sum(col, P)
    BY <1>1, <2>1, <2>2, SumPlus
  <2> QED
    BY <2>4, <2>5 DEF col, row
<1>12. /\ Sum(got, P) \in Int /\ Sum(given, P) \in Int /\ net[p] \in Int
       /\ Sum(Column(debt, p), P) \in Int /\ Sum(Row(debt, p), P) \in Int
  <2>1. Ints(got, P) /\ Ints(given, P) /\ Ints(Column(debt, p), P) /\ Ints(Row(debt, p), P)
    BY <1>2, <1>8 DEF Ints, Row, Column
  <2> HIDE DEF got, given
  <2> QED
    BY <1>1, <2>1, SumIsPartial
<1> HIDE DEF got, given, sums
<1> QED
  BY <1>6, <1>9, <1>10, <1>11, <1>12 DEF list

-----------------------------------------------------------------------------
(* Both kinds of advice.                                                     *)

\* The matrices of all expenses: what somebody owes is their shares, what they are owed
\* is what they paid.
LEMMA DebtsExact ==
  ASSUME BooksSound, \A i \in DOMAIN bills : OneSigned(bills[i]), NEW p \in Participants
  PROVE  /\ PairwiseDebts \in [Participants \X Participants -> Int]
         /\ Sum(Row(PairwiseDebts, p), Participants) =
              Sum([i \in DOMAIN bills |-> At(bills[i].shares, p)], DOMAIN bills)
         /\ Sum(Column(PairwiseDebts, p), Participants) =
              Sum([i \in DOMAIN bills |-> At(bills[i].payments, p)], DOMAIN bills)
<1> DEFINE P == Participants
           N == DOMAIN bills
           owed == [i \in N |-> PairwiseOf(bills[i])]
           debt == PairwiseDebts
           share == [i \in N |-> At(bills[i].shares, p)]
           pay == [i \in N |-> At(bills[i].payments, p)]
<1>1. IsFiniteSet(P) /\ IsFiniteSet(N)
  BY BooksTyped
<1>2. \A i \in N : Exact(bills[i], owed[i])
  BY MatrixExact DEF BooksSound
<1>3. \A i \in N : owed[i] \in [P \X P -> Int]
  BY <1>2 DEF Exact
<1>4. \A a, b \in P : debt[<<a, b>>] = Sum([i \in N |-> owed[i][<<a, b>>]], N)
  BY DEF PairwiseDebts, SumOver, SumFunction, Sum
<1>5. debt \in [P \X P -> Int]
  <2>1. DOMAIN debt = P \X P /\ debt = [e \in P \X P |-> debt[e]]
    BY DEF PairwiseDebts
  <2>2. ASSUME NEW a \in P, NEW b \in P PROVE debt[<<a, b>>] \in Int
    <3> DEFINE f == [i \in N |-> owed[i][<<a, b>>]]
    <3>1. Ints(f, N)
      BY <1>3 DEF Ints
    <3>2. debt[<<a, b>>] = Sum(f, N)
      BY <1>4
    <3> HIDE DEF f, N, debt
    <3> QED
      BY <1>1, <3>1, <3>2, SumIsPartial
  <2> HIDE DEF debt
  <2>3. \A e \in P \X P : debt[e] \in Int
    BY <2>2
  <2> QED
    BY <2>1, <2>3
<1>6. Sum(Row(debt, p), P) = Sum(share, N)
  <2> DEFINE h == [q \in P |-> [i \in N |-> owed[i][<<p, q>>]]]
             rows == [i \in N |-> Sum([q \in P |-> h[q][i]], P)]
             sums == [q \in P |-> Sum(h[q], N)]
  <2>1. \A q \in P, i \in N : h[q][i] \in Int
    BY <1>3
  <2>2. Row(debt, p) = sums
    BY <1>4 DEF Row
  <2>3. ASSUME NEW i \in N PROVE rows[i] = share[i]
    <3>1. [q \in P |-> h[q][i]] = Row(owed[i], p)
      BY DEF Row
    <3>2. Sum(Row(owed[i], p), P) = share[i]
      BY <1>2 DEF Exact
    <3> QED
      BY <3>1, <3>2
  <2>4. rows = share
    BY <2>3
  <2>5. Sum(sums, P) = Sum(rows, N)
    <3> HIDE DEF h, N
    <3> QED
      BY <1>1, <2>1, SumExchange
  <2> QED
    BY <2>2, <2>4, <2>5
<1>7. Sum(Column(debt, p), P) = Sum(pay, N)
  <2> DEFINE h == [q \in P |-> [i \in N |-> owed[i][<<q, p>>]]]
             cols == [i \in N |-> Sum([q \in P |-> h[q][i]], P)]
             sums == [q \in P |-> Sum(h[q], N)]
  <2>1. \A q \in P, i \in N : h[q][i] \in Int
    BY <1>3
  <2>2. Column(debt, p) = sums
    BY <1>4 DEF Column
  <2>3. ASSUME NEW i \in N PROVE cols[i] = pay[i]
    <3>1. [q \in P |-> h[q][i]] = Column(owed[i], p)
      BY DEF Column
    <3>2. Sum(Column(owed[i], p), P) = pay[i]
      BY <1>2 DEF Exact
    <3> QED
      BY <3>1, <3>2
  <2>4. cols = pay
    BY <2>3
  <2>5. Sum(sums, P) = Sum(cols, N)
    <3> HIDE DEF h, N
    <3> QED
      BY <1>1, <2>1, SumExchange
  <2> QED
    BY <2>2, <2>4, <2>5
<1> QED
  BY <1>5, <1>6, <1>7

\* What somebody holds once the pairwise advice is followed is what they have settled.
LEMMA PairwiseLeavesSettled ==
  ASSUME BooksSound, \A i \in DOMAIN bills : OneSigned(bills[i]), NEW p \in Participants
  PROVE  PairwiseLeaves[p] = Sum(Sent(p), Participants)
<1> DEFINE P == Participants
           N == DOMAIN bills
           share == [i \in N |-> At(bills[i].shares, p)]
           pay == [i \in N |-> At(bills[i].payments, p)]
           row == Sum(Row(PairwiseDebts, p), P)
           col == Sum(Column(PairwiseDebts, p), P)
<1>1. /\ IsFiniteSet(N) /\ Ints(Billed(p), N) /\ Balances \in [P -> Int]
      /\ Sum(Billed(p), N) \in Int /\ Sum(Sent(p), P) \in Int
  BY BooksTyped
<1>2. PairwiseDebts \in [P \X P -> Int] /\ row = Sum(share, N) /\ col = Sum(pay, N)
  BY DebtsExact
<1>3. PairwiseLeaves[p] = Balances[p] + row - col
  BY <1>1, <1>2, NettedMoves DEF PairwiseLeaves
<1>4. Balances[p] = Sum(Billed(p), N) + Sum(Sent(p), P)
  BY NetIs DEF Balances
<1>5. ASSUME NEW i \in N
      PROVE  share[i] \in Int /\ pay[i] = Billed(p)[i] + share[i]
  <2>1. At(bills[i].payments, p) \in Int /\ At(bills[i].shares, p) \in Int
    BY AtTypes DEF BooksSound, BillSound
  <2> QED
    BY <2>1 DEF Billed
<1>6. Ints(share, N)
  BY <1>5 DEF Ints
<1> HIDE DEF share, pay, N, row, col
<1>7. Sum(pay, N) = Sum(Billed(p), N) + Sum(share, N)
  BY <1>1, <1>5, <1>6, SumPlus
<1>8. Sum(share, N) \in Int
  BY <1>1, <1>6, SumIsPartial
<1> QED
  BY <1>1, <1>2, <1>3, <1>4, <1>7, <1>8

LEMMA PairwiseClearsBooks == ASSUME BooksSound PROVE PairwiseClearsExpenses
<1> SUFFICES ASSUME \A e \in DOMAIN settled : settled[e] = 0,
                    \A i \in DOMAIN bills : OneSigned(bills[i]),
                    NEW p \in Participants
             PROVE  PairwiseLeaves[p] = 0
  <2>1. DOMAIN PairwiseLeaves = Participants
    BY DEF PairwiseLeaves, ApplyTransfers, Balances
  <2> QED
    BY <2>1 DEF PairwiseClearsExpenses, PairwiseClears, IsFullySettled
<1>1. \A q \in Participants : Sent(p)[q] = 0
  <2> SUFFICES ASSUME NEW q \in Participants PROVE Sent(p)[q] = 0
    OBVIOUS
  <2>1. settled[<<p, q>>] = 0 /\ settled[<<q, p>>] = 0
    BY DEF BooksSound
  <2> QED
    BY <2>1 DEF Sent
<1>2. IsFiniteSet(Participants) /\ {} \in SUBSET Participants /\ Ints(Sent(p), Participants)
  BY BooksTyped
<1>3. Sum(Sent(p), Participants) = Sum(Sent(p), {})
  BY <1>1, <1>2, SumZeros
<1> QED
  BY <1>3, PairwiseLeavesSettled, SumEmpty

\* In every reachable state both algorithms of money/settle.ts give advice that squares
\* the group: simplify() whatever is recorded, pairwiseDebts() as long as no settlement is
\* recorded and the shares and payments of each expense have one sign.
THEOREM AdviceAlwaysClears == Spec => []SettleUpClears
<1>1. BooksSound => SettleUpClears
  BY BooksClear, PairwiseClearsBooks DEF SettleUpClears
<1> QED
  BY <1>1, BooksAlwaysSound, PTL
=============================================================================
