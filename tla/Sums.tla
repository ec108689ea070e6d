-------------------------------- MODULE Sums --------------------------------
(***************************************************************************)
(* Lemmas about SumFunctionOnSet of the community module Functions: sums   *)
(* of integers over finite sets, for the ledger's nets and the quota.      *)
(*                                                                         *)
(* The sum is a fold that takes the elements in the order in which CHOOSE  *)
(* finds them.  That there is such a function, and that the order does not *)
(* matter, is proved first; what follows needs only SumEmpty and SumSplit. *)
(***************************************************************************)
EXTENDS Integers, Functions, FiniteSetTheorems, WellFoundedInduction, TLAPS

LEMMA Smaller ==
  ASSUME NEW T, IsFiniteSet(T), NEW x \in T
  PROVE  IsFiniteSet(T \ {x}) /\ Cardinality(T \ {x}) < Cardinality(T)
<1>1. Cardinality(T) \in Nat
  BY FS_CardinalityType
<1>2. IsFiniteSet(T \ {x}) /\ Cardinality(T \ {x}) = Cardinality(T) - 1
  BY FS_RemoveElement
<1> QED
  BY <1>1, <1>2

\* Induction over the subsets of a finite set by their size, for a set Good of
\* them.
LEMMA SizeInduction ==
  ASSUME NEW S, IsFiniteSet(S), NEW Good,
         \A T \in SUBSET S :
           (\A U \in SUBSET S : Cardinality(U) < Cardinality(T) => U \in Good) => T \in Good
  PROVE  \A T \in SUBSET S : T \in Good
<1> SUFFICES ASSUME NEW W \in SUBSET S, W \notin Good PROVE FALSE
  OBVIOUS
<1> DEFINE Sizes == {n \in Nat : \E T \in SUBSET S : T \notin Good /\ Cardinality(T) = n}
<1>1. \A T \in SUBSET S : Cardinality(T) \in Nat
  BY FS_Subset, FS_CardinalityType
<1>2. Cardinality(W) \in Sizes
  BY <1>1
<1>3. PICK n \in Sizes : \A k \in Sizes : ~ (<<k, n>> \in OpToRel(<, Nat))
  <2>1. Sizes # {} /\ Sizes \subseteq Nat
    BY <1>2
  <2> HIDE DEF Sizes
  <2> QED
    BY <2>1, NatLessThanWellFounded, WFMin
<1>4. \A k \in Sizes : ~ (k < n)
  BY <1>3 DEF OpToRel
<1>5. PICK T \in SUBSET S : T \notin Good /\ Cardinality(T) = n
  BY <1>3
<1>6. ASSUME NEW U \in SUBSET S, Cardinality(U) < Cardinality(T) PROVE U \in Good
  BY <1>1, <1>4, <1>5, <1>6
<1> QED
  BY <1>5, <1>6

\* Induction by adding one element at a time.
LEMMA SubsetInduction ==
  ASSUME NEW S, IsFiniteSet(S), NEW Good, {} \in Good,
         \A T \in SUBSET S : \A x \in S \ T : T \in Good => T \cup {x} \in Good
  PROVE  S \in Good
<1>1. ASSUME NEW T \in SUBSET S,
             \A U \in SUBSET S : Cardinality(U) < Cardinality(T) => U \in Good
      PROVE  T \in Good
  <2>1. CASE T = {}
    BY <2>1
  <2>2. CASE T # {}
    <3>1. PICK x \in T : TRUE
      BY <2>2
    <3>3. Cardinality(T \ {x}) < Cardinality(T)
      BY <3>1, FS_Subset, Smaller
    <3>4. T \ {x} \in Good
      BY <1>1, <3>3
    <3>5. (T \ {x}) \cup {x} = T /\ x \in S \ (T \ {x}) /\ T \ {x} \in SUBSET S
      BY <3>1
    <3>6. (T \ {x}) \cup {x} \in Good
      BY <3>4, <3>5
    <3> QED
      BY <3>5, <3>6
  <2> QED
    BY <2>1, <2>2
<1>2. \A T \in SUBSET S : T \in Good
  BY <1>1, SizeInduction
<1> QED
  BY <1>2

-----------------------------------------------------------------------------
(* The fold.                                                                 *)

First(s) == CHOOSE x \in s : TRUE

\* The fold's partial sums: p[s] is the sum over s.
IsPartial(p, f, S) ==
  p = [s \in SUBSET S |-> IF s = {} THEN 0 ELSE f[First(s)] + p[s \ {First(s)}]]

LEMMA FirstIn == ASSUME NEW s, s # {} PROVE First(s) \in s
BY DEF First

LEMMA SumUnfolds ==
  ASSUME NEW f, NEW S
  PROVE  SumFunctionOnSet(f, S) = (CHOOSE p : IsPartial(p, f, S))[S]
BY DEF SumFunctionOnSet, FoldFunctionOnSet, MapThenFoldSet, IsPartial, First

\* Such partial sums exist: those of sets with at most n elements extend to those
\* with n + 1.
LEMMA PartialExists ==
  ASSUME NEW S, IsFiniteSet(S), NEW f
  PROVE  \E p : IsPartial(p, f, S)
<1> DEFINE Next(p, s) == IF s = {} THEN 0 ELSE f[First(s)] + p[s \ {First(s)}]
           Upto(n) == {s \in SUBSET S : Cardinality(s) <= n}
           Bad == {n \in Nat : ~ \E p : p = [s \in SUBSET S |-> p[s]] /\ \A s \in Upto(n) : p[s] = Next(p, s)}
<1>1. \A T \in SUBSET S : IsFiniteSet(T) /\ Cardinality(T) \in Nat
  BY FS_Subset, FS_CardinalityType
<1>2. Bad = {}
  <2> SUFFICES ASSUME Bad # {} PROVE FALSE
    OBVIOUS
  <2>1. PICK n \in Bad : \A k \in Bad : ~ (<<k, n>> \in OpToRel(<, Nat))
    <3>1. Bad \subseteq Nat
      OBVIOUS
    <3> HIDE DEF Bad
    <3> QED
      BY <3>1, NatLessThanWellFounded, WFMin
  <2>2. \A k \in Bad : ~ (k < n)
    BY <2>1 DEF OpToRel
  <2>3. CASE n = 0
    <3> DEFINE p == [s \in SUBSET S |-> 0]
    <3>1. \A s \in Upto(0) : s = {}
      BY <1>1, FS_EmptySet
    <3>2. p = [s \in SUBSET S |-> p[s]] /\ \A s \in Upto(0) : p[s] = Next(p, s)
      BY <3>1
    <3> QED
      BY <2>1, <2>3, <3>2
  <2>4. CASE n # 0
    <3>1. n \in Nat /\ n - 1 \in Nat /\ n - 1 \notin Bad
      <4>1. n \in Nat
        OBVIOUS
      <4> HIDE DEF Bad
      <4> QED
        BY <4>1, <2>2, <2>4
    <3>2. PICK p : p = [s \in SUBSET S |-> p[s]] /\ \A s \in Upto(n - 1) : p[s] = Next(p, s)
      BY <3>1
    <3> DEFINE q == [s \in SUBSET S |-> IF s \in Upto(n - 1) THEN p[s] ELSE Next(p, s)]
    <3>3. ASSUME NEW s \in Upto(n) PROVE q[s] = Next(q, s)
      <4>1. CASE s = {}
        <5>1. s \in Upto(n - 1)
          BY <4>1, <3>1, FS_EmptySet
        <5> QED
          BY <4>1, <5>1, <3>2
      <4>2. CASE s # {}
        <5>1. First(s) \in s
          BY <4>2, FirstIn
        <5>2. s \ {First(s)} \in Upto(n - 1)
          BY <5>1, <1>1, <3>1, FS_RemoveElement
        <5>3. q[s \ {First(s)}] = p[s \ {First(s)}]
          BY <5>2
        <5>4. q[s] = Next(p, s)
          BY <3>2
        <5> QED
          BY <4>2, <5>3, <5>4
      <4> QED
        BY <4>1, <4>2
    <3>4. q = [s \in SUBSET S |-> q[s]]
      OBVIOUS
    <3> QED
      BY <2>1, <3>3, <3>4
  <2> QED
    BY <2>3, <2>4
<1>3. Cardinality(S) \in Nat /\ \A s \in SUBSET S : s \in Upto(Cardinality(S))
  BY FS_CardinalityType, FS_Subset
<1>4. PICK p : p = [s \in SUBSET S |-> p[s]] /\ \A s \in Upto(Cardinality(S)) : p[s] = Next(p, s)
  BY <1>2, <1>3
<1>5. p = [s \in SUBSET S |-> Next(p, s)]
  BY <1>3, <1>4
<1> QED
  BY <1>5 DEF IsPartial

-----------------------------------------------------------------------------
(* Sums of integers.                                                         *)

Ints(f, S) == \A x \in S : f[x] \in Int

\* Whatever element is taken off first.
LEMMA PartialSplits ==
  ASSUME NEW S, IsFiniteSet(S), NEW f, Ints(f, S), NEW p, IsPartial(p, f, S)
  PROVE  \A T \in SUBSET S :
           p[T] \in Int /\ \A y \in T : p[T] = f[y] + p[T \ {y}]
<1> DEFINE Fine(T) == p[T] \in Int /\ \A y \in T : p[T] = f[y] + p[T \ {y}]
           Good == {T \in SUBSET S : Fine(T)}
<1>1. \A T \in SUBSET S : T # {} => p[T] = f[First(T)] + p[T \ {First(T)}]
  BY DEF IsPartial
<1>2. p[{}] = 0
  BY DEF IsPartial
<1>3. ASSUME NEW T \in SUBSET S,
             \A U \in SUBSET S : Cardinality(U) < Cardinality(T) => U \in Good
      PROVE  T \in Good
  <2>1. ASSUME NEW x \in T PROVE T \ {x} \in SUBSET S /\ Fine(T \ {x})
    <3>2. Cardinality(T \ {x}) < Cardinality(T)
      BY FS_Subset, Smaller
    <3>3. T \ {x} \in SUBSET S
      OBVIOUS
    <3>4. T \ {x} \in Good
      BY <1>3, <3>2, <3>3
    <3> QED
      BY <3>3, <3>4
  <2>2. CASE T = {}
    BY <1>2, <2>2
  <2>3. CASE T # {}
    <3> DEFINE c == First(T)
    <3>1. c \in T /\ f[c] \in Int
      BY <2>3, FirstIn DEF Ints
    <3>2. p[T] = f[c] + p[T \ {c}]
      BY <1>1, <2>3
    <3>3. p[T] \in Int
      BY <2>1, <3>1, <3>2
    <3> HIDE DEF c
    <3>4. ASSUME NEW y \in T, y # c PROVE p[T] = f[y] + p[T \ {y}]
      <4>1. p[T \ {c}] = f[y] + p[(T \ {c}) \ {y}]
        BY <2>1, <3>1, <3>4
      <4>2. p[T \ {y}] = f[c] + p[(T \ {y}) \ {c}]
        BY <2>1, <3>1, <3>4
      <4>3. (T \ {c}) \ {y} = (T \ {y}) \ {c}
        OBVIOUS
      <4>4. p[T \ {c}] \in Int /\ p[T \ {y}] \in Int /\ f[y] \in Int
        BY <2>1, <3>1 DEF Ints
      <4>5. p[(T \ {c}) \ {y}] \in Int
        <5>1. Cardinality((T \ {c}) \ {y}) < Cardinality(T)
          <6>1. IsFiniteSet(T) /\ IsFiniteSet(T \ {c}) /\ IsFiniteSet((T \ {c}) \ {y})
            BY FS_Subset, FS_RemoveElement
          <6>2. Cardinality(T \ {c}) < Cardinality(T)
            BY <3>1, <6>1, Smaller
          <6>3. Cardinality((T \ {c}) \ {y}) < Cardinality(T \ {c})
            BY <3>4, <6>1, Smaller
          <6>4. /\ Cardinality(T) \in Nat /\ Cardinality(T \ {c}) \in Nat
                /\ Cardinality((T \ {c}) \ {y}) \in Nat
            BY <6>1, FS_CardinalityType
          <6> QED
            BY <6>2, <6>3, <6>4
        <5>2. (T \ {c}) \ {y} \in SUBSET S
          OBVIOUS
        <5>3. (T \ {c}) \ {y} \in Good
          BY <1>3, <5>1, <5>2
        <5> QED
          BY <5>3
      <4>6. p[T] = f[c] + (f[y] + p[(T \ {c}) \ {y}])
        BY <3>2, <4>1
      <4>7. f[y] + p[T \ {y}] = f[y] + (f[c] + p[(T \ {c}) \ {y}])
        BY <4>2, <4>3
      <4> QED
        BY <3>1, <4>4, <4>5, <4>6, <4>7
    <3> QED
      BY <3>2, <3>3, <3>4
  <2> QED
    BY <2>2, <2>3
<1>4. \A T \in SUBSET S : T \in Good
  <2> HIDE DEF Good
  <2> QED
    BY <1>3, SizeInduction
<1> QED
  BY <1>4

-----------------------------------------------------------------------------
(* The laws.                                                                 *)

Sum(f, S) == SumFunctionOnSet(f, S)

LEMMA SumIsPartial ==
  ASSUME NEW S, IsFiniteSet(S), NEW f, Ints(f, S)
  PROVE  /\ Sum(f, S) \in Int
         /\ \E p : IsPartial(p, f, S) /\ Sum(f, S) = p[S]
<1>1. PICK p : IsPartial(p, f, S) /\ SumFunctionOnSet(f, S) = p[S]
  BY PartialExists, SumUnfolds
<1>2. p[S] \in Int
  BY <1>1, PartialSplits
<1> QED
  BY <1>1, <1>2 DEF Sum

\* The partial sums of a set are the sums of its subsets.
LEMMA PartialsAgree ==
  ASSUME NEW S, IsFiniteSet(S), NEW f, Ints(f, S), NEW p, IsPartial(p, f, S),
         NEW T \in SUBSET S
  PROVE  p[T] = Sum(f, T)
<1>1. IsFiniteSet(T) /\ Ints(f, T)
  BY FS_Subset DEF Ints
<1>2. PICK q : IsPartial(q, f, T) /\ Sum(f, T) = q[T]
  BY <1>1, SumIsPartial
<1> DEFINE Good == {U \in SUBSET T : p[U] = q[U]}
<1>3. p[{}] = 0 /\ q[{}] = 0
  BY <1>2 DEF IsPartial
<1>4. ASSUME NEW U \in SUBSET T, NEW x \in T \ U, U \in Good
      PROVE  U \cup {x} \in Good
  <2>1. (U \cup {x}) \ {x} = U /\ U \cup {x} \in SUBSET T /\ U \cup {x} \in SUBSET S
    OBVIOUS
  <2>2. p[U \cup {x}] = f[x] + p[U]
    <3>1. p[U \cup {x}] = f[x] + p[(U \cup {x}) \ {x}]
      BY <2>1, PartialSplits
    <3> QED
      BY <2>1, <3>1
  <2>3. q[U \cup {x}] = f[x] + q[U]
    <3>1. q[U \cup {x}] = f[x] + q[(U \cup {x}) \ {x}]
      BY <1>1, <1>2, <2>1, PartialSplits
    <3> QED
      BY <2>1, <3>1
  <2> QED
    BY <1>4, <2>1, <2>2, <2>3
<1>5. {} \in Good
  BY <1>3
<1>6. T \in Good
  <2> HIDE DEF Good
  <2> QED
    BY <1>1, <1>4, <1>5, SubsetInduction
<1> QED
  BY <1>2, <1>6

LEMMA SumEmpty == ASSUME NEW f PROVE Sum(f, {}) = 0
<1>1. PICK p : IsPartial(p, f, {}) /\ Sum(f, {}) = p[{}]
  BY FS_EmptySet, SumIsPartial DEF Ints
<1> QED
  BY <1>1 DEF IsPartial

LEMMA SumSplit ==
  ASSUME NEW S, IsFiniteSet(S), NEW f, Ints(f, S), NEW x \in S
  PROVE  Sum(f, S) = f[x] + Sum(f, S \ {x})
<1>1. PICK p : IsPartial(p, f, S) /\ Sum(f, S) = p[S]
  BY SumIsPartial
<1>2. S \in SUBSET S /\ S \ {x} \in SUBSET S
  OBVIOUS
<1>3. p[S] = f[x] + p[S \ {x}]
  BY <1>1, <1>2, PartialSplits
<1>4. p[S \ {x}] = Sum(f, S \ {x})
  BY <1>1, <1>2, PartialsAgree
<1> QED
  BY <1>1, <1>3, <1>4

\* The same, the other way round.
Adds(f, T, x) ==
  /\ Sum(f, T \cup {x}) = f[x] + Sum(f, T)
  /\ f[x] \in Int /\ Sum(f, T) \in Int

LEMMA SumAdd ==
  ASSUME NEW S, IsFiniteSet(S), NEW f, Ints(f, S)
  PROVE  \A T \in SUBSET S : \A x \in S \ T : Adds(f, T, x)
<1> SUFFICES ASSUME NEW T \in SUBSET S, NEW x \in S \ T
             PROVE  Adds(f, T, x)
  OBVIOUS
<1>1. IsFiniteSet(T) /\ IsFiniteSet(T \cup {x}) /\ Ints(f, T \cup {x}) /\ Ints(f, T) /\ f[x] \in Int
  BY FS_Subset, FS_AddElement DEF Ints
<1>2. (T \cup {x}) \ {x} = T
  OBVIOUS
<1>3. Sum(f, T \cup {x}) = f[x] + Sum(f, (T \cup {x}) \ {x})
  BY <1>1, SumSplit
<1> QED
  BY <1>1, <1>2, <1>3, SumIsPartial DEF Adds

LEMMA SumSame ==
  ASSUME NEW S, IsFiniteSet(S), NEW f, NEW g, Ints(f, S), \A x \in S : f[x] = g[x]
  PROVE  Sum(f, S) = Sum(g, S)
<1> DEFINE Good == {T \in SUBSET S : Sum(f, T) = Sum(g, T)}
<1>1. {} \in Good
  BY SumEmpty
<1>2. ASSUME NEW T \in SUBSET S, NEW x \in S \ T, T \in Good PROVE T \cup {x} \in Good
  <2>1. Ints(g, S)
    BY DEF Ints
  <2>2. Adds(f, T, x)
    BY SumAdd
  <2>3. Adds(g, T, x)
    BY <2>1, SumAdd
  <2> QED
    BY <1>2, <2>2, <2>3 DEF Adds
<1>3. S \in Good
  <2> HIDE DEF Good
  <2> QED
    BY <1>1, <1>2, SubsetInduction
<1> QED
  BY <1>3

LEMMA SumPlus ==
  ASSUME NEW S, IsFiniteSet(S), NEW f, NEW g, NEW h, Ints(f, S), Ints(g, S),
         \A x \in S : h[x] = f[x] + g[x]
  PROVE  Sum(h, S) = Sum(f, S) + Sum(g, S)
<1> DEFINE Good == {T \in SUBSET S : Sum(h, T) = Sum(f, T) + Sum(g, T)}
<1>1. {} \in Good
  BY SumEmpty
<1>2. ASSUME NEW T \in SUBSET S, NEW x \in S \ T, T \in Good PROVE T \cup {x} \in Good
  <2>1. Ints(h, S)
    BY DEF Ints
  <2>2. Adds(f, T, x)
    BY SumAdd
  <2>3. Adds(g, T, x)
    BY SumAdd
  <2>4. Adds(h, T, x)
    BY <2>1, SumAdd
  <2>5. h[x] = f[x] + g[x] /\ Sum(h, T) = Sum(f, T) + Sum(g, T)
    BY <1>2
  <2>6. Sum(h, T \cup {x}) = Sum(f, T \cup {x}) + Sum(g, T \cup {x})
    BY <2>2, <2>3, <2>4, <2>5 DEF Adds
  <2> QED
    BY <2>6
<1>3. S \in Good
  <2> HIDE DEF Good
  <2> QED
    BY <1>1, <1>2, SubsetInduction
<1> QED
  BY <1>3

LEMMA SumAtMost ==
  ASSUME NEW S, IsFiniteSet(S), NEW f, NEW g, Ints(f, S), Ints(g, S),
         \A x \in S : f[x] <= g[x]
  PROVE  Sum(f, S) <= Sum(g, S)
<1> DEFINE Good == {T \in SUBSET S : Sum(f, T) <= Sum(g, T)}
<1>1. {} \in Good
  BY SumEmpty
<1>2. ASSUME NEW T \in SUBSET S, NEW x \in S \ T, T \in Good PROVE T \cup {x} \in Good
  <2>1. Adds(f, T, x)
    BY SumAdd
  <2>2. Adds(g, T, x)
    BY SumAdd
  <2>3. f[x] <= g[x] /\ Sum(f, T) <= Sum(g, T)
    BY <1>2
  <2>4. Sum(f, T \cup {x}) <= Sum(g, T \cup {x})
    BY <2>1, <2>2, <2>3 DEF Adds
  <2> QED
    BY <2>4
<1>3. S \in Good
  <2> HIDE DEF Good
  <2> QED
    BY <1>1, <1>2, SubsetInduction
<1> QED
  BY <1>3

\* Zeros add nothing.
LEMMA SumZeros ==
  ASSUME NEW S, IsFiniteSet(S), NEW T \in SUBSET S, NEW f, Ints(f, S),
         \A x \in S \ T : f[x] = 0
  PROVE  Sum(f, S) = Sum(f, T)
<1> DEFINE Good == {U \in SUBSET S : Sum(f, U) = Sum(f, U \cap T)}
<1>1. {} \in Good
  <2>1. {} \cap T = {}
    OBVIOUS
  <2> QED
    BY <2>1
<1>2. ASSUME NEW U \in SUBSET S, NEW x \in S \ U, U \in Good PROVE U \cup {x} \in Good
  <2>1. Adds(f, U, x)
    BY SumAdd
  <2>2. CASE x \in T
    <3>1. (U \cup {x}) \cap T = (U \cap T) \cup {x} /\ U \cap T \in SUBSET S /\ x \in S \ (U \cap T)
      BY <2>2
    <3>2. Adds(f, U \cap T, x)
      BY <3>1, SumAdd
    <3>3. Sum(f, U) = Sum(f, U \cap T)
      BY <1>2
    <3> QED
      BY <2>1, <3>1, <3>2, <3>3 DEF Adds
  <2>3. CASE x \notin T
    <3>1. (U \cup {x}) \cap T = U \cap T
      BY <2>3
    <3>2. f[x] = 0 /\ Sum(f, U) = Sum(f, U \cap T)
      BY <1>2, <2>3
    <3>3. Sum(f, U \cup {x}) = Sum(f, U)
      BY <2>1, <3>2 DEF Adds
    <3> QED
      BY <3>1, <3>2, <3>3
  <2> QED
    BY <2>2, <2>3
<1>3. S \in Good
  <2> HIDE DEF Good
  <2> QED
    BY <1>1, <1>2, SubsetInduction
<1>4. S \cap T = T
  OBVIOUS
<1> QED
  BY <1>3, <1>4

LEMMA SumOne ==
  ASSUME NEW S, IsFiniteSet(S), NEW f, Ints(f, S), NEW a \in S, \A x \in S \ {a} : f[x] = 0
  PROVE  Sum(f, S) = f[a]
<1>1. Sum(f, S) = f[a] + Sum(f, S \ {a})
  BY SumSplit
<1>2. Sum(f, S \ {a}) = 0
  <2>1. IsFiniteSet(S \ {a}) /\ Ints(f, S \ {a}) /\ {} \in SUBSET (S \ {a})
    BY FS_RemoveElement DEF Ints
  <2>2. Sum(f, S \ {a}) = Sum(f, {})
    BY <2>1, SumZeros
  <2> QED
    BY <2>2, SumEmpty
<1> QED
  BY <1>1, <1>2 DEF Ints

\* A set and the rest.
LEMMA SumParts ==
  ASSUME NEW S, IsFiniteSet(S), NEW f, Ints(f, S), NEW T \in SUBSET S
  PROVE  Sum(f, S) = Sum(f, T) + Sum(f, S \ T)
<1> DEFINE g == [x \in S |-> IF x \in T THEN f[x] ELSE 0]
           h == [x \in S |-> IF x \in T THEN 0 ELSE f[x]]
<1>1. Ints(g, S) /\ Ints(h, S)
  BY DEF Ints
<1>2. Sum(f, S) = Sum(g, S) + Sum(h, S)
  <2>1. \A x \in S : f[x] = g[x] + h[x]
    BY DEF Ints
  <2> HIDE DEF g, h
  <2> QED
    BY <1>1, <2>1, SumPlus
<1>3. Sum(g, S) = Sum(f, T)
  <2>1. Sum(g, S) = Sum(g, T)
    <3>1. \A x \in S \ T : g[x] = 0
      OBVIOUS
    <3> HIDE DEF g
    <3> QED
      BY <1>1, <3>1, SumZeros
  <2>2. Sum(f, T) = Sum(g, T)
    <3>1. IsFiniteSet(T) /\ Ints(f, T) /\ \A x \in T : f[x] = g[x]
      BY FS_Subset DEF Ints
    <3> HIDE DEF g
    <3> QED
      BY <3>1, SumSame
  <2> QED
    BY <2>1, <2>2
<1>4. Sum(h, S) = Sum(f, S \ T)
  <2> DEFINE U == S \ T
  <2>1. Sum(h, S) = Sum(h, U)
    <3>1. U \in SUBSET S /\ \A x \in S \ U : h[x] = 0
      OBVIOUS
    <3> HIDE DEF h, U
    <3> QED
      BY <1>1, <3>1, SumZeros
  <2>2. Sum(f, U) = Sum(h, U)
    <3>1. IsFiniteSet(U) /\ Ints(f, U) /\ \A x \in U : f[x] = h[x]
      BY FS_Subset DEF Ints
    <3> HIDE DEF h, U
    <3> QED
      BY <3>1, SumSame
  <2> QED
    BY <2>1, <2>2
<1> QED
  BY <1>2, <1>3, <1>4

\* At most m for each element.
LEMMA SumBound ==
  ASSUME NEW S, IsFiniteSet(S), NEW f, Ints(f, S), NEW m \in Nat, \A x \in S : f[x] <= m
  PROVE  Sum(f, S) <= Cardinality(S) * m
<1> DEFINE Good == {T \in SUBSET S : Sum(f, T) <= Cardinality(T) * m}
<1>1. {} \in Good
  <2>1. 0 <= 0 * m
    OBVIOUS
  <2> QED
    BY <2>1, SumEmpty, FS_EmptySet
<1>2. ASSUME NEW T \in SUBSET S, NEW x \in S \ T, T \in Good PROVE T \cup {x} \in Good
  <2>1. Adds(f, T, x)
    BY SumAdd
  <2>2. IsFiniteSet(T) /\ Cardinality(T) \in Nat /\ Cardinality(T \cup {x}) = Cardinality(T) + 1
    BY FS_Subset, FS_CardinalityType, FS_AddElement
  <2>3. \A n \in Nat : (n + 1) * m = n * m + m /\ n * m \in Nat
    OBVIOUS
  <2>4. Sum(f, T) <= Cardinality(T) * m /\ f[x] <= m
    BY <1>2
  <2>5. Cardinality(T \cup {x}) * m = Cardinality(T) * m + m /\ Cardinality(T) * m \in Nat
    BY <2>2, <2>3
  <2>6. Sum(f, T \cup {x}) <= Cardinality(T \cup {x}) * m
    BY <2>1, <2>4, <2>5 DEF Adds
  <2> QED
    BY <2>6
<1>3. S \in Good
  <2> HIDE DEF Good
  <2> QED
    BY <1>1, <1>2, SubsetInduction
<1> QED
  BY <1>3

\* The order of two summations.
LEMMA SumExchange ==
  ASSUME NEW S, IsFiniteSet(S), NEW T, IsFiniteSet(T), NEW h,
         \A x \in S, y \in T : h[x][y] \in Int
  PROVE  Sum([x \in S |-> Sum(h[x], T)], S) = Sum([y \in T |-> Sum([x \in S |-> h[x][y]], S)], T)
<1> DEFINE rows == [x \in S |-> Sum(h[x], T)]
           column(y) == [x \in S |-> h[x][y]]
           cols(U) == [y \in T |-> Sum(column(y), U)]
           Good == {U \in SUBSET S : Sum(rows, U) = Sum(cols(U), T)}
<1>1. /\ \A x \in S : Ints(h[x], T) /\ Sum(h[x], T) \in Int
      /\ \A y \in T : Ints(column(y), S)
      /\ Ints(rows, S)
  BY SumIsPartial DEF Ints
<1>2. \A U \in SUBSET S : Ints(cols(U), T)
  <2> SUFFICES ASSUME NEW U \in SUBSET S, NEW y \in T PROVE Sum(column(y), U) \in Int
    BY DEF Ints
  <2>1. IsFiniteSet(U) /\ Ints(column(y), U)
    BY FS_Subset DEF Ints
  <2> QED
    BY <2>1, SumIsPartial
<1>3. {} \in Good
  <2>1. Sum(cols({}), T) = Sum(cols({}), {})
    <3>1. \A y \in T : cols({})[y] = 0
      BY SumEmpty
    <3> QED
      BY <1>2, <3>1, SumZeros
  <2> QED
    BY <2>1, SumEmpty
<1>4. ASSUME NEW U \in SUBSET S, NEW x \in S \ U, U \in Good PROVE U \cup {x} \in Good
  <2>1. Sum(rows, U \cup {x}) = Sum(h[x], T) + Sum(rows, U)
    <3>1. Adds(rows, U, x)
      BY <1>1, SumAdd
    <3> QED
      BY <3>1 DEF Adds
  <2>2. \A y \in T : cols(U \cup {x})[y] = h[x][y] + cols(U)[y]
    <3> SUFFICES ASSUME NEW y \in T PROVE Sum(column(y), U \cup {x}) = h[x][y] + Sum(column(y), U)
      OBVIOUS
    <3>1. Adds(column(y), U, x)
      BY <1>1, SumAdd
    <3> QED
      BY <3>1 DEF Adds
  <2>3. Sum(cols(U \cup {x}), T) = Sum(h[x], T) + Sum(cols(U), T)
    BY <1>1, <1>2, <2>2, SumPlus
  <2>4. Sum(rows, U \cup {x}) = Sum(cols(U \cup {x}), T)
    BY <1>4, <2>1, <2>3
  <2> QED
    BY <2>4
<1>5. S \in Good
  <2> HIDE DEF Good
  <2> QED
    BY <1>3, <1>4, SubsetInduction
<1> QED
  BY <1>5
=============================================================================
