---------------------------- MODULE CanvasProofs ----------------------------
(***************************************************************************)
(* Theorems about Canvas, for every value of its constants: no edit is     *)
(* lost, links to deleted blocks, second decisions and ties in the order   *)
(* of a day come only from a request that another one overtook (a tie also *)
(* from a restore and from a reordering that names a block twice).         *)
(***************************************************************************)
EXTENDS Canvas, FiniteSetTheorems, SequenceTheorems, TLAPS

-----------------------------------------------------------------------------
(* Numbers and sequences.                                                    *)

LEMMA Least ==
  ASSUME NEW S \in SUBSET Nat, S # {}
  PROVE  \E m \in S : \A k \in S : m <= k
<1>1. PICK m \in S : \A k \in S : ~ (<<k, m>> \in OpToRel(<, Nat))
  BY NatLessThanWellFounded, WFMin
<1>2. \A k \in S : ~(k < m)
  BY <1>1 DEF OpToRel
<1> QED
  BY <1>2

LEMMA Greatest ==
  ASSUME NEW n \in Nat, NEW S \in SUBSET (1..n), S # {}
  PROVE  \E m \in S : \A k \in S : k <= m
<1> DEFINE T == {n - k : k \in S}
<1>1. T \in SUBSET Nat /\ T # {}
  <2>1. \A k \in S : n - k \in Nat
    OBVIOUS
  <2> QED
    BY <2>1
<1>2. PICK t \in T : \A u \in T : t <= u
  BY <1>1, Least
<1>3. PICK m \in S : t = n - m
  BY <1>2
<1>4. \A k \in S : n - m <= n - k
  BY <1>2, <1>3
<1> QED
  BY <1>3, <1>4

LEMMA OrderingIs ==
  ASSUME NEW order \in Ordering
  PROVE  \E n \in 0..Cardinality(Blocks) :
           order \in [1..n -> Blocks] /\ DOMAIN order = 1..n /\ n \in Nat /\ n <= MaxSort
<1>1. Cardinality(Blocks) \in Nat
  BY FiniteAssumption, FS_CardinalityType
<1> QED
  BY <1>1, ConstantsAssumption DEF Ordering

LEMMA LastAtIs ==
  ASSUME NEW order \in Ordering, NEW b, NEW k \in DOMAIN order, order[k] = b
  PROVE  /\ LastAt(order, b) \in DOMAIN order /\ order[LastAt(order, b)] = b
         /\ LastAt(order, b) \in 1..MaxSort
<1>1. PICK n \in 0..Cardinality(Blocks) : DOMAIN order = 1..n /\ n \in Nat /\ n <= MaxSort
  BY OrderingIs
<1> DEFINE At == {i \in 1..n : order[i] = b}
<1>2. \E i \in At : \A j \in At : j <= i
  BY <1>1, Greatest
<1>3. \E i \in DOMAIN order : order[i] = b /\ \A j \in DOMAIN order : order[j] = b => j <= i
  BY <1>1, <1>2
<1>4. LastAt(order, b) \in DOMAIN order /\ order[LastAt(order, b)] = b
  BY <1>3 DEF LastAt
<1> QED
  BY <1>1, <1>4, ConstantsAssumption

\* An order that lists some blocks, each of them once.
Lists(order, S) ==
  /\ \A i \in DOMAIN order : order[i] \in S
  /\ \A b \in S : \E i \in DOMAIN order : order[i] = b
  /\ \A i, j \in DOMAIN order : order[i] = order[j] => i = j

\* Length n, all of S and no more: nothing twice.
LEMMA ListedOnce ==
  ASSUME NEW S, IsFiniteSet(S), NEW list \in [1..Cardinality(S) -> S],
         \A b \in S : \E i \in 1..Cardinality(S) : list[i] = b
  PROVE  Lists(list, S)
<1>1. Cardinality(S) \in Nat
  BY FS_CardinalityType
<1>2. IsFiniteSet(1..Cardinality(S)) /\ Cardinality(1..Cardinality(S)) = Cardinality(S)
  BY <1>1, FS_Interval
<1>3. list \in Surjection(1..Cardinality(S), S)
  BY DEF Surjection
<1>4. list \in Injection(1..Cardinality(S), S)
  BY <1>2, <1>3, FS_SurjSameCardinalityImpliesInj
<1> QED
  BY <1>4 DEF Injection, IsInjective, Lists

\* Length n and nothing twice: all of S.
LEMMA ListedAll ==
  ASSUME NEW S, IsFiniteSet(S), NEW list \in [1..Cardinality(S) -> S], ~RepeatsBlock(list)
  PROVE  Lists(list, S)
<1>1. Cardinality(S) \in Nat
  BY FS_CardinalityType
<1>2. IsFiniteSet(1..Cardinality(S)) /\ Cardinality(1..Cardinality(S)) = Cardinality(S)
  BY <1>1, FS_Interval
<1>3. list \in Injection(1..Cardinality(S), S)
  BY DEF Injection, IsInjective, RepeatsBlock
<1>4. list \in Surjection(1..Cardinality(S), S)
  BY <1>2, <1>3, FS_Injection
<1> QED
  BY <1>3, <1>4 DEF Injection, IsInjective, Surjection, Lists

LEMMA PutInIs ==
  ASSUME NEW S \in SUBSET Blocks, NEW b \in Blocks \ S, NEW index \in Nat,
         NEW others \in [1..Cardinality(S) -> S],
         \A c \in S : \E i \in 1..Cardinality(S) : others[i] = c
  PROVE  Lists(PutIn(others, b, index), S \cup {b}) /\ PutIn(others, b, index) \in Ordering
<1> DEFINE n == Cardinality(S)
           i == IF index < n THEN index ELSE n
           before == SubSeq(others, 1, i)
           after == SubSeq(others, i + 1, n)
           order == before \o <<b>> \o after
<1>1. IsFiniteSet(S) /\ n \in Nat
  BY FiniteAssumption, FS_Subset, FS_CardinalityType
<1>2. IsFiniteSet(S \cup {b}) /\ Cardinality(S \cup {b}) = n + 1
  BY <1>1, FS_AddElement
<1>3. n + 1 <= Cardinality(Blocks) /\ Cardinality(Blocks) \in Nat
  BY <1>2, FiniteAssumption, FS_Subset, FS_CardinalityType
<1>4. others \in Seq(S) /\ Len(others) = n
  BY <1>1
<1>5. i \in 0..n
  BY <1>1
<1> HIDE DEF n, i
<1>6. /\ before \in Seq(Blocks) /\ Len(before) = i
      /\ \A k \in 1..i : before[k] = others[k]
  BY <1>1, <1>4, <1>5, SubSeqProperties DEF n
<1>7. /\ after \in Seq(Blocks) /\ Len(after) = n - i
      /\ \A k \in 1..(n - i) : after[k] = others[i + k]
  BY <1>1, <1>4, <1>5, SubSeqProperties DEF n
<1> HIDE DEF before, after
<1>8. /\ before \o <<b>> \in Seq(Blocks) /\ Len(before \o <<b>>) = i + 1
      /\ \A k \in 1..(i + 1) : (before \o <<b>>)[k] = IF k <= i THEN before[k] ELSE b
  BY <1>5, <1>6
<1>9. /\ order \in Seq(Blocks) /\ Len(order) = n + 1
      /\ \A k \in 1..(n + 1) :
           order[k] = IF k <= i THEN others[k] ELSE IF k = i + 1 THEN b ELSE others[k - 1]
  <2>1. order \in Seq(Blocks) /\ Len(order) = n + 1
    <3>1. i + 1 + (n - i) = n + 1
      BY <1>1, <1>5
    <3>2. order \in Seq(Blocks) /\ Len(order) = Len(before \o <<b>>) + Len(after)
      BY <1>7, <1>8, ConcatProperties
    <3> QED
      BY <1>7, <1>8, <3>1, <3>2
  <2>2. \A k \in 1..(n + 1) :
          order[k] = IF k <= i + 1 THEN (before \o <<b>>)[k] ELSE after[k - (i + 1)]
    BY <1>1, <1>5, <1>7, <1>8, ConcatProperties
  <2> SUFFICES ASSUME NEW k \in 1..(n + 1)
               PROVE  order[k] = IF k <= i THEN others[k]
                                 ELSE IF k = i + 1 THEN b ELSE others[k - 1]
    BY <2>1
  <2>3. CASE k <= i
    BY <1>5, <1>6, <1>8, <2>2, <2>3
  <2>4. CASE k = i + 1
    BY <1>5, <1>8, <2>2, <2>4
  <2>5. CASE k > i + 1
    <3>1. k - (i + 1) \in 1..(n - i) /\ i + (k - (i + 1)) = k - 1
      BY <1>1, <1>5, <2>5
    <3> QED
      <4>1. order[k] = after[k - (i + 1)]
        <5>1. ~(k <= i + 1)
          BY <1>5, <2>5
        <5> HIDE DEF order
        <5> QED
          BY <2>2, <5>1
      <4>2. after[k - (i + 1)] = others[k - 1]
        BY <1>7, <3>1
      <4>3. ~(k <= i) /\ k # i + 1
        BY <1>5, <2>5
      <4> QED
        BY <4>1, <4>2, <4>3
  <2> QED
    <3>1. k <= i \/ k = i + 1 \/ k > i + 1
      BY <1>5
    <3> QED
      BY <2>3, <2>4, <2>5, <3>1
<1>10. order = PutIn(others, b, index)
  BY <1>4 DEF PutIn, i, n, before, after
<1> HIDE DEF order
<1>11. order \in [1..(n + 1) -> S \cup {b}] /\ DOMAIN order = 1..(n + 1)
  <2>1. order \in [1..(n + 1) -> Blocks] /\ DOMAIN order = 1..(n + 1)
    BY <1>9, LenProperties
  <2>2. \A k \in 1..(n + 1) : order[k] \in S \cup {b}
    <3> SUFFICES ASSUME NEW k \in 1..(n + 1) PROVE order[k] \in S \cup {b}
      OBVIOUS
    <3>1. \A m \in 1..n : others[m] \in S
      BY DEF n
    <3>2. k <= i => k \in 1..n
      BY <1>1, <1>5
    <3>3. ~(k <= i) /\ k # i + 1 => k - 1 \in 1..n
      BY <1>1, <1>5
    <3> QED
      BY <1>9, <3>1, <3>2, <3>3
  <2> QED
    BY <2>1, <2>2
<1>12. \A c \in S \cup {b} : \E k \in 1..(n + 1) : order[k] = c
  <2>1. order[i + 1] = b /\ i + 1 \in 1..(n + 1)
    BY <1>1, <1>5, <1>9
  <2>2. ASSUME NEW c \in S PROVE \E k \in 1..(n + 1) : order[k] = c
    <3>1. PICK k \in 1..n : others[k] = c
      BY DEF n
    <3>2. CASE k <= i
      BY <1>1, <1>5, <1>9, <3>1, <3>2
    <3>3. CASE k > i
      <4>1. k + 1 \in 1..(n + 1) /\ ~(k + 1 <= i) /\ k + 1 # i + 1 /\ (k + 1) - 1 = k
        BY <1>1, <1>5, <3>3
      <4> QED
        BY <1>9, <3>1, <4>1
    <3> QED
      BY <1>1, <1>5, <3>2, <3>3
  <2> QED
    BY <2>1, <2>2
<1>13. Lists(order, S \cup {b})
  <2>1. /\ order \in [1..Cardinality(S \cup {b}) -> S \cup {b}]
        /\ \A c \in S \cup {b} : \E k \in 1..Cardinality(S \cup {b}) : order[k] = c
    BY <1>2, <1>11, <1>12
  <2> QED
    BY <1>2, <2>1, ListedOnce
<1>14. order \in Ordering
  BY <1>1, <1>3, <1>11 DEF Ordering
<1> QED
  BY <1>10, <1>13, <1>14

-----------------------------------------------------------------------------
(* Rows and their order.                                                     *)

RowsTyped ==
  /\ present \subseteq Days
  /\ row \in [Blocks -> BlockType \cup {NoBlock}]
  /\ suggestion \in [Suggestions -> SuggestionType \cup {NoSuggestion}]
  /\ expense \in [Expenses -> Blocks \cup {None}]

\* A row is either none or has every field.
LEMMA RowKinds ==
  ASSUME NEW x \in BlockType \cup {NoBlock}
  PROVE  /\ x # NoBlock <=> x \in BlockType
         /\ ~x.deleted => x \in BlockType
         /\ x = NoBlock => x.version = 0 /\ x.deleted
<1>1. NoBlock.version = 0 /\ NoBlock.deleted
  BY DEF NoBlock
<1>2. ASSUME NEW y \in BlockType PROVE y # NoBlock
  <2>1. y.version \in 1..MaxVersion
    BY DEF BlockType
  <2> QED
    BY <1>1, <2>1, ConstantsAssumption
<1> QED
  BY <1>1, <1>2

LEMMA OnIs ==
  ASSUME RowsTyped, NEW d, NEW b \in On(d)
  PROVE  b \in Blocks /\ Exists(b) /\ row[b] \in BlockType /\ row[b].day = d
         /\ row[b].sort \in 1..MaxSort /\ d \in Days
<1>1. b \in Blocks /\ ~row[b].deleted /\ row[b].day = d
  BY DEF On, Live
<1>2. row[b] \in BlockType
  BY <1>1, RowKinds DEF RowsTyped
<1> QED
  BY <1>1, <1>2, RowKinds DEF BlockType, Exists

LEMMA NextSortIs ==
  ASSUME RowsTyped, NEW d \in Days
  PROVE  /\ NextSort(d) \in 1..(MaxSort + 1)
         /\ \A b \in On(d) : row[b].sort < NextSort(d)
<1> DEFINE Above(n) == \A b \in On(d) : row[b].sort < n
           S == {n \in 1..(MaxSort + 1) : Above(n)}
<1>1. \A b \in On(d) : row[b].sort \in 1..MaxSort
  BY OnIs
<1>2. MaxSort \in Nat
  BY ConstantsAssumption
<1>3. MaxSort + 1 \in S
  BY <1>1, <1>2
<1>4. PICK n \in S : \A k \in S : n <= k
  <2>1. S \in SUBSET Nat /\ S # {}
    <3> HIDE DEF Above
    <3>1. 1..(MaxSort + 1) \subseteq Nat
      BY <1>2
    <3> QED
      BY <1>3, <3>1
  <2> QED
    BY <2>1, Least
<1>5. n = 1 \/ \E b \in On(d) : row[b].sort = n - 1
  <2>1. CASE n # 1
    <3>1. n - 1 \in 1..(MaxSort + 1) /\ ~(n <= n - 1)
      BY <1>2, <1>4, <2>1
    <3>2. ~Above(n - 1)
      BY <1>4, <3>1
    <3>3. PICK b \in On(d) : ~(row[b].sort < n - 1)
      BY <3>2
    <3>4. row[b].sort < n /\ row[b].sort \in 1..MaxSort
      BY <1>1, <1>4
    <3> QED
      BY <3>1, <3>3, <3>4
  <2> QED
    BY <2>1
<1>6. \E k \in 1..(MaxSort + 1) :
        /\ \A b \in On(d) : row[b].sort < k
        /\ k = 1 \/ \E b \in On(d) : row[b].sort = k - 1
  BY <1>4, <1>5
<1> QED
  BY <1>6 DEF NextSort

\* What a rewriting of the order leaves of a row.
LEMMA SortedIs ==
  ASSUME NEW blocks \in [Blocks -> BlockType \cup {NoBlock}], NEW order \in Ordering,
         NEW b \in Blocks
  PROVE  /\ Sorted(blocks, order)[b] \in BlockType \cup {NoBlock}
         /\ blocks[b] = NoBlock => Sorted(blocks, order)[b] = NoBlock
         /\ blocks[b] # NoBlock =>
              /\ Sorted(blocks, order)[b] \in BlockType
              /\ Sorted(blocks, order)[b].day = blocks[b].day
              /\ Sorted(blocks, order)[b].deleted = blocks[b].deleted
              /\ Sorted(blocks, order)[b].version = blocks[b].version
              /\ Sorted(blocks, order)[b].text = blocks[b].text
              /\ Sorted(blocks, order)[b].of = blocks[b].of
              /\ (\E i \in DOMAIN order : order[i] = b)
                   => Sorted(blocks, order)[b].sort = LastAt(order, b)
              /\ ~(\E i \in DOMAIN order : order[i] = b)
                   => Sorted(blocks, order)[b] = blocks[b]
<1>1. CASE blocks[b] # NoBlock /\ \E i \in DOMAIN order : order[i] = b
  <2> DEFINE x == [blocks[b] EXCEPT !.sort = LastAt(order, b)]
  <2>1. Sorted(blocks, order)[b] = x
    BY <1>1 DEF Sorted
  <2>2. LastAt(order, b) \in 1..MaxSort
    BY <1>1, LastAtIs
  <2>3. blocks[b] \in BlockType
    BY <1>1
  <2>4. x \in BlockType
    BY <2>2, <2>3 DEF BlockType
  <2>5. x.day = blocks[b].day /\ x.version = blocks[b].version /\ x.text = blocks[b].text
        /\ x.of = blocks[b].of /\ x.sort = LastAt(order, b)
    BY <2>3 DEF BlockType
  <2>6. x.deleted = blocks[b].deleted
    BY <2>3, Zenon DEF BlockType
  <2> HIDE DEF x
  <2> QED
    BY <1>1, <2>1, <2>4, <2>5, <2>6
<1>2. CASE ~(blocks[b] # NoBlock /\ \E i \in DOMAIN order : order[i] = b)
  <2>1. Sorted(blocks, order)[b] = blocks[b]
    BY <1>2 DEF Sorted
  <2> QED
    BY <1>2, <2>1
<1> QED
  BY <1>1, <1>2

-----------------------------------------------------------------------------
(* What the requests know.                                                   *)

Above(sort, d) == \A b \in On(d) : row[b].sort < sort

\* What a request that nobody overtook has read is still so.
Seen(j) ==
  /\ j.do = "add" => j.day \in present /\ Above(j.sort, j.day)
  /\ j.do = "delete" => \A e \in Expenses : expense[e] = j.block => e \in j.unlinked
  /\ j.do = "expense" => Live(j.block)
  /\ j.do = "move" =>
       Live(j.block) /\ j.day \in present /\ Lists(j.order, On(j.day) \cup {j.block})
  /\ j.do = "reorder" => RepeatsBlock(j.order) \/ Lists(j.order, On(j.day))
  /\ j.do = "review" =>
       suggestion[j.suggestion].status = "PENDING" /\ (j.day # None => Above(j.sort, j.day))

\* Overtaken or not, an edit knows the text of the version it has loaded.
KnowsText(j) ==
  j.do = "edit" =>
    /\ j.version < MaxVersion
    /\ Exists(j.block) =>
         \/ row[j.block].version > j.version
         \/ row[j.block].version = j.version /\ row[j.block].text = j.text

CanvasInv ==
  /\ RowsTyped
  /\ job \in [Requests -> JobType]
  /\ \A r \in Requests : KnowsText(job[r]) /\ (job[r].overtaken \/ Seen(job[r]))

AddJob == [do : {"add"}, day : Days, sort : 1..MaxSort, overtaken : BOOLEAN]
EditJob ==
  [do : {"edit"}, block : Blocks, version : 1..MaxVersion, text : Texts, overtaken : BOOLEAN]
DeleteJob ==
  [do : {"delete"}, block : Blocks, unlinked : SUBSET Expenses, overtaken : BOOLEAN]
ExpenseJob == [do : {"expense"}, block : Blocks, overtaken : BOOLEAN]
MoveJob == [do : {"move"}, block : Blocks, day : Days, order : Ordering, overtaken : BOOLEAN]
ReorderJob == [do : {"reorder"}, day : Days, order : Ordering, overtaken : BOOLEAN]
ReviewJob ==
  [do : {"review"}, suggestion : Suggestions, day : Days \cup {None},
   sort : 1..MaxSort, overtaken : BOOLEAN]

LEMMA InvTypes == CanvasInv => TypeOK
BY DEF CanvasInv, RowsTyped, TypeOK

LEMMA IdleIs ==
  Idle \in JobType /\ Idle.do = "nothing" /\ KnowsText(Idle) /\ Seen(Idle)
BY DEF Idle, JobType, KnowsText, Seen

LEMMA JobCases ==
  ASSUME NEW j \in JobType
  PROVE  /\ j.do = "add" => j \in AddJob
         /\ j.do = "edit" => j \in EditJob
         /\ j.do = "delete" => j \in DeleteJob
         /\ j.do = "expense" => j \in ExpenseJob
         /\ j.do = "move" => j \in MoveJob
         /\ j.do = "reorder" => j \in ReorderJob
         /\ j.do = "review" => j \in ReviewJob
         /\ j # Idle => j \in AddJob \cup EditJob \cup DeleteJob \cup ExpenseJob
                              \cup MoveJob \cup ReorderJob \cup ReviewJob
<1>1. j \in {Idle} \cup AddJob \cup EditJob \cup DeleteJob \cup ExpenseJob \cup MoveJob
            \cup ReorderJob \cup ReviewJob
  BY DEF JobType, AddJob, EditJob, DeleteJob, ExpenseJob, MoveJob, ReorderJob, ReviewJob
<1>2. /\ j \in AddJob => j.do = "add"
      /\ j \in EditJob => j.do = "edit"
      /\ j \in DeleteJob => j.do = "delete"
      /\ j \in ExpenseJob => j.do = "expense"
      /\ j \in MoveJob => j.do = "move"
      /\ j \in ReorderJob => j.do = "reorder"
      /\ j \in ReviewJob => j.do = "review"
  BY DEF AddJob, EditJob, DeleteJob, ExpenseJob, MoveJob, ReorderJob, ReviewJob
<1> QED
  BY <1>1, <1>2, IdleIs

LEMMA JobTypes ==
  /\ AddJob \subseteq JobType /\ EditJob \subseteq JobType /\ DeleteJob \subseteq JobType
  /\ ExpenseJob \subseteq JobType
  /\ MoveJob \subseteq JobType /\ ReorderJob \subseteq JobType /\ ReviewJob \subseteq JobType
BY DEF JobType, AddJob, EditJob, DeleteJob, ExpenseJob, MoveJob, ReorderJob, ReviewJob

Overtaken(j) == [j EXCEPT !.overtaken = TRUE]

LEMMA OvertakenJob ==
  ASSUME NEW j \in JobType, j # Idle
  PROVE  /\ Overtaken(j) \in JobType /\ Overtaken(j).overtaken
         /\ Overtaken(j) # Idle
         /\ KnowsText(j) => KnowsText(Overtaken(j))
<1> DEFINE k == Overtaken(j)
<1>1. CASE j \in EditJob
  <2>1. k \in EditJob
    BY <1>1 DEF EditJob, Overtaken
  <2>2. k.do = j.do /\ k.block = j.block /\ k.version = j.version /\ k.text = j.text
        /\ k.do = "edit"
    BY <1>1 DEF EditJob, Overtaken
  <2>3. k.overtaken
    BY <1>1, Zenon DEF EditJob, Overtaken
  <2> HIDE DEF k
  <2>4. KnowsText(j) => KnowsText(k)
    BY <2>2 DEF KnowsText
  <2> QED
    BY <2>1, <2>2, <2>3, <2>4, JobTypes, IdleIs DEF k
<1>2. CASE j \in AddJob \cup DeleteJob \cup ExpenseJob \cup MoveJob \cup ReorderJob \cup ReviewJob
  <2>1. /\ j \in AddJob => k \in AddJob
        /\ j \in DeleteJob => k \in DeleteJob
        /\ j \in ExpenseJob => k \in ExpenseJob
        /\ j \in MoveJob => k \in MoveJob
        /\ j \in ReorderJob => k \in ReorderJob
        /\ j \in ReviewJob => k \in ReviewJob
    BY DEF AddJob, DeleteJob, ExpenseJob, MoveJob, ReorderJob, ReviewJob, Overtaken
  <2>2. k.do = j.do /\ k.do \notin {"edit", "nothing"}
    BY <1>2 DEF AddJob, DeleteJob, ExpenseJob, MoveJob, ReorderJob, ReviewJob, Overtaken
  <2>3. k.overtaken
    BY <1>2, Zenon DEF AddJob, DeleteJob, ExpenseJob, MoveJob, ReorderJob, ReviewJob, Overtaken
  <2> HIDE DEF k
  <2>4. KnowsText(k)
    BY <2>2 DEF KnowsText
  <2>5. k \in JobType
    BY <1>2, <2>1, JobTypes
  <2> QED
    BY <2>2, <2>3, <2>4, <2>5, IdleIs DEF k
<1> QED
  BY <1>1, <1>2, JobCases

-----------------------------------------------------------------------------
(* What the steps of a request have to show.                                 *)

LEMMA BeginStep ==
  ASSUME CanvasInv, NEW r \in Requests, NEW ask \in JobType, Begins(r, ask),
         KnowsText(ask), Seen(ask)
  PROVE  CanvasInv'
<1>1. /\ RowsTyped' /\ job' \in [Requests -> JobType]
      /\ \A q \in Requests : job'[q] = IF q = r THEN ask ELSE job[q]
  BY DEF CanvasInv, Begins, rows, RowsTyped
<1>2. \A j : /\ KnowsText(j)' <=> KnowsText(j)
             /\ Seen(j)' <=> Seen(j)
  BY DEF Begins, rows, KnowsText, Seen, Above, On, Live, Exists
<1>3. \A q \in Requests : KnowsText(job'[q]) /\ (job'[q].overtaken \/ Seen(job'[q]))
  BY <1>1 DEF CanvasInv
<1>4. \A q \in Requests : KnowsText(job[q])' /\ (job'[q].overtaken \/ Seen(job[q])')
  BY <1>3 DEF Begins, rows, KnowsText, Seen, Above, On, Live, Exists
<1> QED
  BY <1>1, <1>4 DEF CanvasInv

LEMMA FailStep ==
  ASSUME CanvasInv, NEW r \in Requests, Fails(r)
  PROVE  CanvasInv'
<1>1. /\ RowsTyped' /\ job' \in [Requests -> JobType]
      /\ \A q \in Requests : job'[q] = IF q = r THEN Idle ELSE job[q]
  BY IdleIs DEF CanvasInv, Fails, rows, RowsTyped
<1>2. \A q \in Requests : KnowsText(job'[q]) /\ (job'[q].overtaken \/ Seen(job'[q]))
  BY <1>1, IdleIs DEF CanvasInv
<1>3. \A q \in Requests : KnowsText(job[q])' /\ (job'[q].overtaken \/ Seen(job[q])')
  BY <1>2 DEF Fails, rows, KnowsText, Seen, Above, On, Live, Exists
<1> QED
  BY <1>1, <1>3 DEF CanvasInv

\* A version is never given another text, nor an old version given again.
Ages(b) ==
  row'[b] # NoBlock =>
    /\ Exists(b)
    /\ \/ row'[b].version > row[b].version
       \/ row'[b].version = row[b].version /\ row'[b].text = row[b].text

LEMMA OvertakeStep ==
  ASSUME CanvasInv, RowsTyped', NEW done \in SUBSET Requests,
         job' = [q \in Requests |->
                   IF q \in done \/ job[q] = Idle THEN Idle ELSE Overtaken(job[q])],
         \A q \in Requests \ done : job[q].do = "edit" => Ages(job[q].block)
  PROVE  CanvasInv'
<1>1. job' \in [Requests -> JobType]
  BY IdleIs, OvertakenJob DEF CanvasInv
<1>2. ASSUME NEW q \in Requests PROVE KnowsText(job[q])' /\ (job'[q].overtaken \/ Seen(job[q])')
  <2>1. CASE job'[q] = Idle
    <3>1. job'[q].do = "nothing"
      BY <2>1, IdleIs
    <3> QED
      BY <3>1 DEF KnowsText, Seen
  <2>2. CASE job'[q] # Idle
    <3>1. q \notin done /\ job[q] # Idle /\ job'[q] = Overtaken(job[q]) /\ job[q] \in JobType
      BY <2>2 DEF CanvasInv
    <3>2. job'[q].overtaken
      BY <3>1, OvertakenJob
    <3>3. ASSUME job'[q].do = "edit"
          PROVE  /\ job[q] \in EditJob /\ job[q].do = "edit"
                 /\ job'[q].block = job[q].block /\ job'[q].version = job[q].version
                 /\ job'[q].text = job[q].text
      <4>1. job[q] \in AddJob \cup EditJob \cup DeleteJob \cup ExpenseJob \cup MoveJob
                         \cup ReorderJob \cup ReviewJob
        BY <3>1, JobCases
      <4>2. job[q].do = "edit"
        BY <3>1, <3>3, <4>1 DEF AddJob, EditJob, DeleteJob, ExpenseJob, MoveJob, ReorderJob,
           ReviewJob, Overtaken
      <4>3. job[q] \in EditJob
        BY <3>1, <4>2, JobCases
      <4> QED
        BY <3>1, <4>2, <4>3 DEF EditJob, Overtaken
    <3>4. KnowsText(job[q])'
      <4> SUFFICES ASSUME job'[q].do = "edit" PROVE KnowsText(job[q])'
        BY DEF KnowsText
      <4> DEFINE b == job[q].block
      <4>1. /\ b \in Blocks /\ job[q].version \in 1..MaxVersion
            /\ job'[q].block = b /\ job'[q].version = job[q].version
            /\ job'[q].text = job[q].text
        BY <3>3 DEF EditJob
      <4>2. KnowsText(job[q]) /\ Ages(b) /\ job[q].do = "edit"
        BY <3>1, <3>3 DEF CanvasInv
      <4>3. Exists(b) => row[b].version \in Int
        BY <4>1, RowKinds DEF CanvasInv, RowsTyped, Exists, BlockType
      <4>4. row'[b] # NoBlock => row'[b].version \in Int
        BY <4>1, RowKinds DEF RowsTyped, BlockType
      <4> HIDE DEF b
      <4>5. job[q].version \in Int
        BY <4>1
      <4>6. job[q].version < MaxVersion
        BY <4>2 DEF KnowsText
      <4>7. ASSUME row'[b] # NoBlock
            PROVE  \/ row'[b].version > job[q].version
                   \/ row'[b].version = job[q].version /\ row'[b].text = job[q].text
        <5>1. Exists(b) /\ (\/ row'[b].version > row[b].version
                            \/ row'[b].version = row[b].version /\ row'[b].text = row[b].text)
          BY <4>2, <4>7 DEF Ages
        <5>2. \/ row[b].version > job[q].version
              \/ row[b].version = job[q].version /\ row[b].text = job[q].text
          BY <4>2, <5>1 DEF KnowsText, b
        <5> QED
          BY <4>3, <4>4, <4>5, <4>7, <5>1, <5>2
      <4>8. Exists(job[q].block)' =>
              \/ row'[job'[q].block].version > job'[q].version
              \/ row'[job'[q].block].version = job'[q].version
                   /\ row'[job'[q].block].text = job'[q].text
        <5>1. Exists(job[q].block)' => row'[b] # NoBlock
          BY <4>1 DEF Exists
        <5> QED
          BY <4>1, <4>7, <5>1
      <4>9. job'[q].version < MaxVersion
        BY <4>1, <4>6
      <4> QED
        BY <4>8, <4>9 DEF KnowsText
    <3> QED
      BY <3>2, <3>4
  <2> QED
    BY <2>1, <2>2
<1> QED
  BY <1>1, <1>2 DEF CanvasInv

LEMMA CommitStep ==
  ASSUME CanvasInv, RowsTyped', NEW r \in Requests, Commits(r),
         \A q \in Requests \ {r} : job[q].do = "edit" => Ages(job[q].block)
  PROVE  CanvasInv'
<1>1. job' = [q \in Requests |->
                IF q \in {r} \/ job[q] = Idle THEN Idle ELSE Overtaken(job[q])]
  BY DEF Commits, Overtaken
<1> QED
  BY <1>1, OvertakeStep

-----------------------------------------------------------------------------
(* Each action keeps the invariant.                                          *)

LEMMA CanvasStarts == Init => CanvasInv
<1> SUFFICES ASSUME Init PROVE CanvasInv
  OBVIOUS
<1>1. RowsTyped /\ job \in [Requests -> JobType]
  BY IdleIs DEF Init, RowsTyped
<1>2. \A r \in Requests : job[r] = Idle
  BY DEF Init
<1> QED
  BY <1>1, <1>2, IdleIs DEF CanvasInv

LEMMA FreeIs ==
  ASSUME CanvasInv, NEW b \in FreeIds
  PROVE  /\ b \in Blocks /\ row[b] = NoBlock
         /\ \A q \in Requests : job[q].do = "edit" => job[q].block # b
<1>1. b \in Blocks /\ row[b] = NoBlock /\ \A q \in Requests : b \notin Names(job[q])
  BY DEF FreeIds, Exists
<1> QED
  BY <1>1 DEF Names

\* A block that is put in: nobody has read it, the others stay as they are.
LEMMA InsertIs ==
  ASSUME CanvasInv, NEW d \in Days, NEW sort \in 1..MaxSort, NEW s \in Suggestions \cup {None},
         NEW b \in FreeIds, Insert(d, sort, s, b)
  PROVE  /\ row' \in [Blocks -> BlockType \cup {NoBlock}]
         /\ b \in Blocks /\ row'[b] \in BlockType
         /\ row'[b].day = d /\ row'[b].sort = sort /\ row'[b].of = s
         /\ \A c \in Blocks \ {b} : row'[c] = row[c]
         /\ \A q \in Requests : job[q].do = "edit" => Ages(job[q].block)
<1> DEFINE new == NewBlock(d, sort, s)
<1>1. (CHOOSE t \in Texts : TRUE) \in Texts
  BY ConstantsAssumption
<1>2. new \in BlockType
  BY <1>1, ConstantsAssumption DEF NewBlock, BlockType
<1>3. new.day = d /\ new.sort = sort /\ new.of = s
  BY DEF NewBlock
<1>4. row' = [row EXCEPT ![b] = new]
  BY DEF Insert
<1> HIDE DEF new
<1>5. /\ b \in Blocks
      /\ \A q \in Requests : job[q].do = "edit" => job[q].block # b /\ job[q].block \in Blocks
  BY FreeIs, JobCases DEF CanvasInv, EditJob
<1>6. /\ row' \in [Blocks -> BlockType \cup {NoBlock}] /\ row'[b] = new
      /\ \A c \in Blocks \ {b} : row'[c] = row[c]
  BY <1>2, <1>4, <1>5 DEF CanvasInv, RowsTyped
<1>7. \A c \in Blocks \ {b} : Ages(c)
  BY <1>6 DEF Ages, Exists
<1> QED
  BY <1>2, <1>3, <1>5, <1>6, <1>7

LEMMA SameRowsAge ==
  ASSUME UNCHANGED row
  PROVE  \A b : Ages(b)
BY DEF Ages, Exists

LEMMA AddReadKeeps ==
  ASSUME CanvasInv, NEW r \in Requests, AddRead(r)
  PROVE  CanvasInv'
<1>1. PICK d \in present :
        /\ NextSort(d) <= MaxSort
        /\ Begins(r, [do |-> "add", day |-> d, sort |-> NextSort(d), overtaken |-> FALSE])
  BY DEF AddRead
<1> DEFINE sort == NextSort(d)
           ask == [do |-> "add", day |-> d, sort |-> sort, overtaken |-> FALSE]
<1>2. d \in Days /\ sort \in 1..MaxSort /\ Above(sort, d)
  BY <1>1, NextSortIs, ConstantsAssumption DEF CanvasInv, RowsTyped, Above
<1>3. Begins(r, ask)
  BY <1>1
<1> HIDE DEF sort
<1>4. ask \in AddJob /\ ask.do = "add" /\ ask.day = d /\ ask.sort = sort
  BY <1>2 DEF AddJob
<1> HIDE DEF ask
<1>5. ask \in JobType /\ KnowsText(ask) /\ Seen(ask)
  BY <1>2, <1>4, JobTypes DEF KnowsText, Seen
<1> QED
  BY <1>3, <1>5, BeginStep

LEMMA AddWriteKeeps ==
  ASSUME CanvasInv, NEW r \in Requests, AddWrite(r)
  PROVE  CanvasInv'
<1>1. CASE Fails(r)
  BY <1>1, FailStep
<1>2. CASE ~Fails(r)
  <2>1. /\ \E b \in FreeIds : Insert(job[r].day, job[r].sort, None, b)
        /\ Commits(r) /\ UNCHANGED <<present, suggestion, expense>>
    BY <1>2 DEF AddWrite
  <2>2. job[r].day \in Days /\ job[r].sort \in 1..MaxSort
    BY JobCases DEF CanvasInv, AddWrite, AddJob
  <2>3. /\ row' \in [Blocks -> BlockType \cup {NoBlock}]
        /\ \A q \in Requests : job[q].do = "edit" => Ages(job[q].block)
    BY <2>1, <2>2, InsertIs
  <2>4. RowsTyped'
    BY <2>1, <2>3 DEF CanvasInv, RowsTyped
  <2> QED
    BY <2>1, <2>3, <2>4, CommitStep
<1> QED
  BY <1>1, <1>2

LEMMA EditLoadKeeps ==
  ASSUME CanvasInv, NEW r \in Requests, EditLoad(r)
  PROVE  CanvasInv'
<1>1. PICK b \in Blocks :
        /\ Live(b) /\ row[b].version < MaxVersion
        /\ Begins(r, [do |-> "edit", block |-> b, version |-> row[b].version,
                      text |-> row[b].text, overtaken |-> FALSE])
  BY DEF EditLoad
<1> DEFINE ask == [do |-> "edit", block |-> b, version |-> row[b].version,
                   text |-> row[b].text, overtaken |-> FALSE]
<1>2. row[b] \in BlockType
  BY <1>1, RowKinds DEF Live, CanvasInv, RowsTyped
<1>3. ask \in EditJob
  BY <1>2 DEF BlockType, EditJob
<1>4. ask.do = "edit" /\ ask.block = b /\ ask.version = row[b].version /\ ask.text = row[b].text
  OBVIOUS
<1>5. Begins(r, ask)
  BY <1>1
<1> HIDE DEF ask
<1>6. KnowsText(ask) /\ Seen(ask)
  BY <1>1, <1>4 DEF KnowsText, Seen
<1> QED
  BY <1>3, <1>5, <1>6, JobTypes, BeginStep

\* An edit that goes through has a block, the version it loaded and so the text.
LEMMA EditIs ==
  ASSUME CanvasInv, NEW r \in Requests, EditWrite(r), ~Fails(r)
  PROVE  /\ job[r] \in EditJob /\ row[job[r].block] \in BlockType
         /\ row[job[r].block].version < MaxVersion
         /\ row[job[r].block].text = job[r].text
         /\ \E t \in Texts : row' = Edited(job[r].block, t)
         /\ Commits(r) /\ UNCHANGED <<present, suggestion, expense>>
<1> DEFINE b == job[r].block
<1>1. /\ Exists(b) /\ row[b].version = job[r].version
      /\ \E t \in Texts : row' = Edited(b, t)
      /\ Commits(r) /\ UNCHANGED <<present, suggestion, expense>>
  BY DEF EditWrite
<1>2. job[r] \in EditJob /\ job[r].do = "edit"
  BY JobCases DEF CanvasInv, EditWrite
<1>3. b \in Blocks /\ row[b] \in BlockType
  BY <1>1, <1>2, RowKinds DEF CanvasInv, RowsTyped, EditJob, Exists
<1>4. KnowsText(job[r])
  BY DEF CanvasInv
<1>5. row[b].version \in Int
  BY <1>3 DEF BlockType
<1>6. row[b].version < MaxVersion /\ row[b].text = job[r].text
  BY <1>1, <1>2, <1>4, <1>5 DEF KnowsText
<1> QED
  BY <1>1, <1>2, <1>3, <1>6

\* What an edit leaves of the rows.
LEMMA EditedIs ==
  ASSUME CanvasInv, NEW b \in Blocks, NEW t \in Texts, row[b] \in BlockType,
         row[b].version < MaxVersion, row' = Edited(b, t)
  PROVE  /\ row'[b] \in BlockType
         /\ row'[b].day = row[b].day /\ row'[b].sort = row[b].sort /\ row'[b].of = row[b].of
         /\ row'[b].deleted = row[b].deleted
         /\ row'[b].version = row[b].version + 1
         /\ row' \in [Blocks -> BlockType \cup {NoBlock}]
         /\ \A c \in Blocks \ {b} : row'[c] = row[c]
<1> DEFINE x == [row[b] EXCEPT !.text = t, !.version = @ + 1]
<1>1. row' = [row EXCEPT ![b] = x]
  BY DEF Edited, CanvasInv, RowsTyped
<1>2. row[b].version + 1 \in 1..MaxVersion
  BY ConstantsAssumption DEF BlockType
<1>3. x \in BlockType
  BY <1>2 DEF BlockType
<1>4. x.day = row[b].day /\ x.sort = row[b].sort /\ x.of = row[b].of
      /\ x.version = row[b].version + 1
  BY DEF BlockType
<1>5. x.deleted = row[b].deleted
  BY Zenon DEF BlockType
<1> HIDE DEF x
<1> QED
  BY <1>1, <1>3, <1>4, <1>5 DEF CanvasInv, RowsTyped

LEMMA EditWriteKeeps ==
  ASSUME CanvasInv, NEW r \in Requests, EditWrite(r)
  PROVE  CanvasInv'
<1>1. CASE Fails(r)
  BY <1>1, FailStep
<1>2. CASE ~Fails(r)
  <2> DEFINE b == job[r].block
  <2>1. PICK t \in Texts : row' = Edited(b, t)
    BY <1>2, EditIs
  <2>2. b \in Blocks /\ row[b] \in BlockType /\ row[b].version < MaxVersion
    BY <1>2, EditIs DEF EditJob
  <2>3. Commits(r) /\ UNCHANGED <<present, suggestion, expense>>
    BY <1>2, EditIs
  <2> HIDE DEF b
  <2>4. /\ row' \in [Blocks -> BlockType \cup {NoBlock}]
        /\ row'[b].version = row[b].version + 1
        /\ \A c \in Blocks \ {b} : row'[c] = row[c]
    BY <2>1, <2>2, EditedIs
  <2>5. \A c \in Blocks : Ages(c)
    <3>1. Exists(b) /\ row[b].version \in Int
      BY <2>2, RowKinds DEF Exists, BlockType
    <3>2. Ages(b)
      BY <2>4, <3>1 DEF Ages
    <3> QED
      BY <2>4, <3>2 DEF Ages, Exists
  <2>6. \A q \in Requests : job[q].do = "edit" => Ages(job[q].block)
    BY <2>5, JobCases DEF CanvasInv, EditJob
  <2>7. RowsTyped'
    BY <2>3, <2>4 DEF CanvasInv, RowsTyped
  <2> QED
    BY <2>3, <2>6, <2>7, CommitStep
<1> QED
  BY <1>1, <1>2

\* A block that is deleted or restored is otherwise left alone.
LEMMA MarkedIs ==
  ASSUME CanvasInv, NEW b \in Blocks, Exists(b), NEW mark \in BOOLEAN,
         row' = [row EXCEPT ![b].deleted = mark]
  PROVE  /\ row' \in [Blocks -> BlockType \cup {NoBlock}]
         /\ row'[b] \in BlockType /\ row'[b].deleted = mark
         /\ row'[b].day = row[b].day /\ row'[b].sort = row[b].sort /\ row'[b].of = row[b].of
         /\ \A c \in Blocks \ {b} : row'[c] = row[c]
         /\ \A q \in Requests : job[q].do = "edit" => Ages(job[q].block)
<1> DEFINE x == [row[b] EXCEPT !.deleted = mark]
<1>1. row' = [row EXCEPT ![b] = x]
  OBVIOUS
<1>2. row[b] \in BlockType
  BY RowKinds DEF CanvasInv, RowsTyped, Exists
<1>3. x \in BlockType
  BY <1>2 DEF BlockType
<1>4. x.day = row[b].day /\ x.sort = row[b].sort /\ x.of = row[b].of
      /\ x.version = row[b].version /\ x.text = row[b].text
  BY <1>2 DEF BlockType
<1>5. x.deleted = mark
  BY <1>2, Zenon DEF BlockType
<1> HIDE DEF x
<1>6. /\ row' \in [Blocks -> BlockType \cup {NoBlock}] /\ row'[b] = x
      /\ \A c \in Blocks \ {b} : row'[c] = row[c]
  BY <1>1, <1>3 DEF CanvasInv, RowsTyped
<1>7. \A c \in Blocks : Ages(c)
  BY <1>4, <1>6 DEF Ages, Exists
<1>8. \A q \in Requests : job[q].do = "edit" => Ages(job[q].block)
  BY <1>7, JobCases DEF CanvasInv, EditJob
<1> QED
  BY <1>3, <1>4, <1>5, <1>6, <1>8

\* Marking a block that is gone changes nothing.
LEMMA DeletedIs ==
  ASSUME CanvasInv, NEW b \in Blocks, row' = [row EXCEPT ![b].deleted = TRUE]
  PROVE  /\ row' \in [Blocks -> BlockType \cup {NoBlock}]
         /\ row'[b].deleted /\ (row'[b] = NoBlock <=> row[b] = NoBlock)
         /\ row[b] # NoBlock =>
              row'[b].day = row[b].day /\ row'[b].sort = row[b].sort /\ row'[b].of = row[b].of
         /\ \A c \in Blocks \ {b} : row'[c] = row[c]
         /\ \A q \in Requests : job[q].do = "edit" => Ages(job[q].block)
<1>1. CASE Exists(b)
  <2>1. /\ row' \in [Blocks -> BlockType \cup {NoBlock}]
        /\ row'[b] \in BlockType /\ row'[b].deleted = TRUE
        /\ row'[b].day = row[b].day /\ row'[b].sort = row[b].sort /\ row'[b].of = row[b].of
        /\ \A c \in Blocks \ {b} : row'[c] = row[c]
        /\ \A q \in Requests : job[q].do = "edit" => Ages(job[q].block)
    BY <1>1, MarkedIs
  <2>2. row'[b] # NoBlock
    BY <2>1, RowKinds
  <2>3. row'[b].deleted
    BY <2>1, Zenon
  <2> QED
    BY <1>1, <2>1, <2>2, <2>3 DEF Exists
<1>2. CASE ~Exists(b)
  <2>1. row[b] = NoBlock /\ row \in [Blocks -> BlockType \cup {NoBlock}]
    BY <1>2 DEF Exists, CanvasInv, RowsTyped
  <2>2. [NoBlock EXCEPT !.deleted = TRUE] = NoBlock
    <3>1. ASSUME NEW mark
          PROVE  [[deleted |-> mark, version |-> 0, text |-> None] EXCEPT !.deleted = mark]
                   = [deleted |-> mark, version |-> 0, text |-> None]
      OBVIOUS
    <3> QED
      BY <3>1 DEF NoBlock
  <2>3. row' = row
    BY <2>1, <2>2
  <2> QED
    BY <2>1, <2>3, SameRowsAge, RowKinds
<1> QED
  BY <1>1, <1>2

LEMMA DeleteUnlinkKeeps ==
  ASSUME CanvasInv, NEW r \in Requests, DeleteUnlink(r)
  PROVE  CanvasInv'
<1>1. PICK b \in Blocks :
        Begins(r, [do |-> "delete", block |-> b,
                   unlinked |-> {e \in Expenses : expense[e] = b}, overtaken |-> FALSE])
  BY DEF DeleteUnlink
<1> DEFINE ask == [do |-> "delete", block |-> b,
                   unlinked |-> {e \in Expenses : expense[e] = b}, overtaken |-> FALSE]
<1>2. /\ ask \in DeleteJob /\ ask.do = "delete" /\ ask.block = b
      /\ ask.unlinked = {e \in Expenses : expense[e] = b}
  BY DEF DeleteJob
<1>3. Begins(r, ask)
  BY <1>1
<1> HIDE DEF ask
<1>4. KnowsText(ask) /\ Seen(ask)
  BY <1>2 DEF KnowsText, Seen
<1> QED
  BY <1>2, <1>3, <1>4, JobTypes, BeginStep

LEMMA DeleteCommitKeeps ==
  ASSUME CanvasInv, NEW r \in Requests, DeleteCommit(r)
  PROVE  CanvasInv'
<1>1. job[r].block \in Blocks
  BY JobCases DEF CanvasInv, DeleteCommit, DeleteJob
<1>2. /\ row' \in [Blocks -> BlockType \cup {NoBlock}]
      /\ \A q \in Requests : job[q].do = "edit" => Ages(job[q].block)
  BY <1>1, DeletedIs DEF DeleteCommit
<1>3. expense' \in [Expenses -> Blocks \cup {None}]
  BY DEF DeleteCommit, CanvasInv, RowsTyped
<1>4. RowsTyped' /\ Commits(r)
  BY <1>2, <1>3 DEF CanvasInv, RowsTyped, DeleteCommit
<1> QED
  BY <1>2, <1>4, CommitStep

LEMMA RestoreBlockKeeps ==
  ASSUME CanvasInv, NEW r \in Requests, RestoreBlock(r)
  PROVE  CanvasInv'
<1>1. PICK b \in Blocks : Exists(b) /\ row' = [row EXCEPT ![b].deleted = FALSE]
  BY DEF RestoreBlock
<1>2. /\ row' \in [Blocks -> BlockType \cup {NoBlock}]
      /\ \A q \in Requests : job[q].do = "edit" => Ages(job[q].block)
  BY <1>1, MarkedIs
<1>3. RowsTyped' /\ Commits(r)
  BY <1>2 DEF CanvasInv, RowsTyped, RestoreBlock
<1> QED
  BY <1>2, <1>3, CommitStep

\* Rows whose text, versions and marks stay: a block's day and place may change.
SameBlocks ==
  \A c \in Blocks :
    /\ row[c] = NoBlock => row'[c] = NoBlock
    /\ row[c] # NoBlock =>
         /\ row'[c] \in BlockType
         /\ row'[c].deleted = row[c].deleted /\ row'[c].version = row[c].version
         /\ row'[c].text = row[c].text /\ row'[c].of = row[c].of

LEMMA SameBlocksAge ==
  ASSUME CanvasInv, SameBlocks
  PROVE  \A q \in Requests : job[q].do = "edit" => Ages(job[q].block)
<1>1. \A c \in Blocks : Ages(c)
  BY DEF SameBlocks, Ages, Exists
<1> QED
  BY <1>1, JobCases DEF CanvasInv, EditJob

LEMMA ReorderIs ==
  ASSUME CanvasInv, NEW order \in Ordering, row' = Sorted(row, order)
  PROVE  /\ row' \in [Blocks -> BlockType \cup {NoBlock}] /\ SameBlocks
         /\ \A c \in Blocks : row[c] # NoBlock =>
              /\ row'[c].day = row[c].day
              /\ (\E i \in DOMAIN order : order[i] = c) => row'[c].sort = LastAt(order, c)
              /\ ~(\E i \in DOMAIN order : order[i] = c) => row'[c] = row[c]
<1>1. row \in [Blocks -> BlockType \cup {NoBlock}]
  BY DEF CanvasInv, RowsTyped
<1>2. DOMAIN row' = Blocks /\ row' = [c \in Blocks |-> Sorted(row, order)[c]]
  BY DEF Sorted
<1>3. \A c \in Blocks : row'[c] \in BlockType \cup {NoBlock}
  BY <1>1, SortedIs
<1>4. row' \in [Blocks -> BlockType \cup {NoBlock}]
  BY <1>2, <1>3
<1>5. SameBlocks
  BY <1>1, SortedIs DEF SameBlocks
<1> QED
  BY <1>1, <1>4, <1>5, SortedIs

LEMMA MoveIs ==
  ASSUME CanvasInv, NEW b \in Blocks, NEW d \in Days, NEW order \in Ordering,
         row' = Sorted(IF Exists(b) THEN [row EXCEPT ![b].day = d] ELSE row, order)
  PROVE  /\ row' \in [Blocks -> BlockType \cup {NoBlock}] /\ SameBlocks
         /\ \A c \in Blocks : row[c] # NoBlock =>
              /\ row'[c].day = IF c = b THEN d ELSE row[c].day
              /\ (\E i \in DOMAIN order : order[i] = c) => row'[c].sort = LastAt(order, c)
              /\ ~(\E i \in DOMAIN order : order[i] = c) =>
                   row'[c].sort = row[c].sort
<1>1. row \in [Blocks -> BlockType \cup {NoBlock}]
  BY DEF CanvasInv, RowsTyped
<1> DEFINE base == IF Exists(b) THEN [row EXCEPT ![b].day = d] ELSE row
           x == [row[b] EXCEPT !.day = d]
<1>2. ASSUME Exists(b)
      PROVE  /\ x \in BlockType /\ x.day = d /\ x.sort = row[b].sort /\ x.deleted = row[b].deleted
             /\ x.version = row[b].version /\ x.text = row[b].text /\ x.of = row[b].of
  <2>1. row[b] \in BlockType
    BY <1>1, <1>2 DEF Exists
  <2>2. x \in BlockType
    BY <2>1 DEF BlockType
  <2>3. x.day = d /\ x.sort = row[b].sort /\ x.version = row[b].version
        /\ x.text = row[b].text /\ x.of = row[b].of
    BY <2>1 DEF BlockType
  <2>4. x.deleted = row[b].deleted
    BY <2>1, Zenon DEF BlockType
  <2> QED
    BY <2>2, <2>3, <2>4
<1>3. /\ \A c \in Blocks : base[c] = IF c = b /\ Exists(b) THEN x ELSE row[c]
      /\ base = [c \in Blocks |-> base[c]]
  BY <1>1
<1> HIDE DEF x, base
<1>4. base \in [Blocks -> BlockType \cup {NoBlock}]
  BY <1>1, <1>2, <1>3
<1>5. ASSUME NEW c \in Blocks
      PROVE  /\ base[c] = NoBlock <=> row[c] = NoBlock
             /\ row[c] # NoBlock =>
                  /\ base[c].day = IF c = b THEN d ELSE row[c].day
                  /\ base[c].sort = row[c].sort /\ base[c].deleted = row[c].deleted
                  /\ base[c].version = row[c].version /\ base[c].text = row[c].text
                  /\ base[c].of = row[c].of
  <2>1. CASE c = b /\ Exists(b)
    BY <1>2, <1>3, <2>1, RowKinds DEF Exists
  <2>2. CASE ~(c = b /\ Exists(b))
    BY <1>3, <2>2 DEF Exists
  <2> QED
    BY <2>1, <2>2
<1>6. row' = Sorted(base, order)
  BY DEF base
<1>7. DOMAIN row' = Blocks /\ row' = [c \in Blocks |-> row'[c]]
  BY <1>6 DEF Sorted
<1>8. \A c \in Blocks : row'[c] \in BlockType \cup {NoBlock}
  BY <1>4, <1>6, SortedIs
<1>9. row' \in [Blocks -> BlockType \cup {NoBlock}]
  BY <1>7, <1>8
<1>10. ASSUME NEW c \in Blocks, row[c] # NoBlock
       PROVE  /\ row'[c] \in BlockType
              /\ row'[c].deleted = row[c].deleted /\ row'[c].version = row[c].version
              /\ row'[c].text = row[c].text /\ row'[c].of = row[c].of
              /\ row'[c].day = IF c = b THEN d ELSE row[c].day
              /\ (\E i \in DOMAIN order : order[i] = c) => row'[c].sort = LastAt(order, c)
              /\ ~(\E i \in DOMAIN order : order[i] = c) =>
                   row'[c].sort = row[c].sort
  <2>1. base[c] # NoBlock
    BY <1>5, <1>10
  <2>2. /\ row'[c] \in BlockType
        /\ row'[c].day = base[c].day /\ row'[c].deleted = base[c].deleted
        /\ row'[c].version = base[c].version /\ row'[c].text = base[c].text
        /\ row'[c].of = base[c].of
        /\ (\E i \in DOMAIN order : order[i] = c) => row'[c].sort = LastAt(order, c)
        /\ ~(\E i \in DOMAIN order : order[i] = c) => row'[c] = base[c]
    BY <1>4, <1>6, <2>1, SortedIs
  <2> QED
    BY <1>5, <1>10, <2>2
<1>11. \A c \in Blocks : row[c] = NoBlock => row'[c] = NoBlock
  BY <1>4, <1>5, <1>6, SortedIs
<1>12. SameBlocks
  BY <1>10, <1>11 DEF SameBlocks
<1> QED
  BY <1>9, <1>10, <1>12

LEMMA MoveReadKeeps ==
  ASSUME CanvasInv, NEW r \in Requests, MoveRead(r)
  PROVE  CanvasInv'
<1>1. PICK b \in Blocks, d \in present, index \in 0..BlockLimit :
        /\ Live(b)
        /\ \E others \in Listings(On(d) \ {b}) :
             Begins(r, [do |-> "move", block |-> b, day |-> d, order |-> PutIn(others, b, index),
                        overtaken |-> FALSE])
  BY DEF MoveRead
<1>2. PICK others \in Listings(On(d) \ {b}) :
        Begins(r, [do |-> "move", block |-> b, day |-> d, order |-> PutIn(others, b, index),
                   overtaken |-> FALSE])
  BY <1>1
<1> DEFINE S == On(d) \ {b}
           order == PutIn(others, b, index)
           ask == [do |-> "move", block |-> b, day |-> d, order |-> order, overtaken |-> FALSE]
<1>3. /\ others \in [1..Cardinality(S) -> S]
      /\ \A c \in S : \E i \in 1..Cardinality(S) : others[i] = c
    BY DEF Listings
<1>4. S \in SUBSET Blocks /\ b \in Blocks \ S /\ S \cup {b} = On(d) \cup {b}
  BY DEF On
<1>5. index \in Nat
  BY ConstantsAssumption
<1> HIDE DEF S
<1>6. Lists(order, On(d) \cup {b}) /\ order \in Ordering
  BY <1>3, <1>4, <1>5, PutInIs
<1> HIDE DEF order
<1>7. ask \in MoveJob
  BY <1>6 DEF CanvasInv, RowsTyped, MoveJob
<1>8. ask.do = "move" /\ ask.block = b /\ ask.day = d /\ ask.order = order
  OBVIOUS
<1>9. Begins(r, ask)
  BY <1>2 DEF order
<1> HIDE DEF ask
<1>10. KnowsText(ask) /\ Seen(ask)
  BY <1>1, <1>6, <1>8 DEF KnowsText, Seen
<1> QED
  BY <1>7, <1>9, <1>10, JobTypes, BeginStep

LEMMA MoveWriteKeeps ==
  ASSUME CanvasInv, NEW r \in Requests, MoveWrite(r)
  PROVE  CanvasInv'
<1>1. CASE Fails(r)
  BY <1>1, FailStep
<1>2. CASE ~Fails(r)
  <2>1. /\ row' = Sorted(IF Exists(job[r].block)
                         THEN [row EXCEPT ![job[r].block].day = job[r].day] ELSE row,
                         job[r].order)
        /\ Commits(r) /\ UNCHANGED <<present, suggestion, expense>>
    BY <1>2 DEF MoveWrite
  <2>2. job[r].block \in Blocks /\ job[r].day \in Days /\ job[r].order \in Ordering
    BY JobCases DEF CanvasInv, MoveWrite, MoveJob
  <2>3. row' \in [Blocks -> BlockType \cup {NoBlock}] /\ SameBlocks
    BY <2>1, <2>2, MoveIs
  <2>4. RowsTyped'
    BY <2>1, <2>3 DEF CanvasInv, RowsTyped
  <2> QED
    BY <2>1, <2>3, <2>4, SameBlocksAge, CommitStep
<1> QED
  BY <1>1, <1>2

LEMMA ReorderReadKeeps ==
  ASSUME CanvasInv, NEW r \in Requests, ReorderRead(r)
  PROVE  CanvasInv'
<1>1. PICK d \in present : \E order \in [1..Cardinality(On(d)) -> On(d)] :
        Begins(r, [do |-> "reorder", day |-> d, order |-> order, overtaken |-> FALSE])
  BY DEF ReorderRead
<1>2. PICK order \in [1..Cardinality(On(d)) -> On(d)] :
        Begins(r, [do |-> "reorder", day |-> d, order |-> order, overtaken |-> FALSE])
  BY <1>1
<1> DEFINE ask == [do |-> "reorder", day |-> d, order |-> order, overtaken |-> FALSE]
<1>3. On(d) \subseteq Blocks
  BY DEF On
<1>4. /\ IsFiniteSet(On(d)) /\ Cardinality(On(d)) \in 0..Cardinality(Blocks)
  BY <1>3, FiniteAssumption, FS_Subset, FS_CardinalityType
<1>5. order \in [1..Cardinality(On(d)) -> Blocks]
  BY <1>3
<1>6. order \in Ordering
  BY <1>4, <1>5 DEF Ordering
<1>7. RepeatsBlock(order) \/ Lists(order, On(d))
  BY <1>4, ListedAll
<1>8. ask \in ReorderJob
  BY <1>6 DEF CanvasInv, RowsTyped, ReorderJob
<1>9. ask.do = "reorder" /\ ask.day = d /\ ask.order = order
  OBVIOUS
<1>10. Begins(r, ask)
  BY <1>2
<1> HIDE DEF ask
<1>11. KnowsText(ask) /\ Seen(ask)
  BY <1>7, <1>9 DEF KnowsText, Seen
<1> QED
  BY <1>8, <1>10, <1>11, JobTypes, BeginStep

LEMMA ReorderWriteKeeps ==
  ASSUME CanvasInv, NEW r \in Requests, ReorderWrite(r)
  PROVE  CanvasInv'
<1>1. /\ row' = Sorted(row, job[r].order)
      /\ Commits(r) /\ UNCHANGED <<present, suggestion, expense>>
  BY DEF ReorderWrite
<1>2. job[r].order \in Ordering
  BY JobCases DEF CanvasInv, ReorderWrite, ReorderJob
<1>3. row' \in [Blocks -> BlockType \cup {NoBlock}] /\ SameBlocks
  BY <1>1, <1>2, ReorderIs
<1>4. RowsTyped'
  BY <1>1, <1>3 DEF CanvasInv, RowsTyped
<1> QED
  BY <1>1, <1>3, <1>4, SameBlocksAge, CommitStep

LEMMA DropDayKeeps ==
  ASSUME CanvasInv, DropDay
  PROVE  CanvasInv'
<1>1. PICK d \in present :
        LET gone == {b \in Blocks : Exists(b) /\ row[b].day = d} IN
          /\ present' = present \ {d}
          /\ row' = [b \in Blocks |-> IF b \in gone THEN NoBlock ELSE row[b]]
          /\ expense' = [e \in Expenses |-> IF expense[e] \in gone THEN None ELSE expense[e]]
          /\ suggestion' = [s \in Suggestions |->
               IF suggestion[s] # NoSuggestion /\ suggestion[s].block \in gone
               THEN [suggestion[s] EXCEPT !.block = None] ELSE suggestion[s]]
  BY DEF DropDay
<1>2. row' \in [Blocks -> BlockType \cup {NoBlock}] /\ present' \subseteq Days
      /\ \A b \in Blocks : row'[b] = NoBlock \/ row'[b] = row[b]
  BY <1>1 DEF CanvasInv, RowsTyped
<1>3. expense' \in [Expenses -> Blocks \cup {None}]
  BY <1>1 DEF CanvasInv, RowsTyped
<1>4. suggestion' \in [Suggestions -> SuggestionType \cup {NoSuggestion}]
  <2>1. \A x \in SuggestionType : [x EXCEPT !.block = None] \in SuggestionType
    BY DEF SuggestionType
  <2> QED
    BY <1>1, <2>1 DEF CanvasInv, RowsTyped
<1>5. RowsTyped'
  BY <1>2, <1>3, <1>4 DEF RowsTyped
<1>6. \A c \in Blocks : Ages(c)
  BY <1>2 DEF Ages, Exists
<1>7. \A q \in Requests : job[q].do = "edit" => Ages(job[q].block)
  BY <1>6, JobCases DEF CanvasInv, EditJob
<1>8. job' = [q \in Requests |->
                IF q \in {} \/ job[q] = Idle THEN Idle ELSE Overtaken(job[q])]
  BY DEF DropDay, Overtaken
<1> DEFINE done == {}
<1>9. done \in SUBSET Requests /\ \A q \in Requests \ done : job[q].do = "edit" => Ages(job[q].block)
  BY <1>7
<1>10. job' = [q \in Requests |->
                 IF q \in done \/ job[q] = Idle THEN Idle ELSE Overtaken(job[q])]
  BY <1>8
<1> HIDE DEF done
<1> QED
  BY <1>5, <1>9, <1>10, OvertakeStep

LEMMA ExpenseReadKeeps ==
  ASSUME CanvasInv, NEW r \in Requests, ExpenseRead(r)
  PROVE  CanvasInv'
<1>1. PICK b \in Blocks :
        Live(b) /\ Begins(r, [do |-> "expense", block |-> b, overtaken |-> FALSE])
  BY DEF ExpenseRead
<1> DEFINE ask == [do |-> "expense", block |-> b, overtaken |-> FALSE]
<1>2. ask \in ExpenseJob /\ ask.do = "expense" /\ ask.block = b
  BY DEF ExpenseJob
<1>3. Begins(r, ask)
  BY <1>1
<1> HIDE DEF ask
<1>4. KnowsText(ask) /\ Seen(ask)
  BY <1>1, <1>2 DEF KnowsText, Seen
<1> QED
  BY <1>2, <1>3, <1>4, JobTypes, BeginStep

LEMMA ExpenseWriteKeeps ==
  ASSUME CanvasInv, NEW r \in Requests, ExpenseWrite(r)
  PROVE  CanvasInv'
<1>1. CASE Fails(r)
  BY <1>1, FailStep
<1>2. CASE ~Fails(r)
  <2>1. /\ \E e \in Expenses : expense' = [expense EXCEPT ![e] = job[r].block]
        /\ Commits(r) /\ UNCHANGED <<present, row, suggestion>>
    BY <1>2 DEF ExpenseWrite
  <2>2. job[r].block \in Blocks
    BY JobCases DEF CanvasInv, ExpenseWrite, ExpenseJob
  <2>3. RowsTyped'
    BY <2>1, <2>2 DEF CanvasInv, RowsTyped
  <2> QED
    BY <2>1, <2>3, SameRowsAge, CommitStep
<1> QED
  BY <1>1, <1>2

LEMMA CreateSuggestionKeeps ==
  ASSUME CanvasInv, NEW r \in Requests, CreateSuggestion(r)
  PROVE  CanvasInv'
<1>1. [status |-> "PENDING", block |-> None] \in SuggestionType
  BY DEF SuggestionType
<1>2. RowsTyped'
  BY <1>1 DEF CanvasInv, RowsTyped, CreateSuggestion
<1> QED
  BY <1>2, SameRowsAge, CommitStep DEF CreateSuggestion

LEMMA WithdrawKeeps ==
  ASSUME CanvasInv, NEW r \in Requests, Withdraw(r)
  PROVE  CanvasInv'
<1>1. PICK s \in Suggestions :
        /\ suggestion[s].status # "none"
        /\ suggestion' = [suggestion EXCEPT ![s].status = "WITHDRAWN"]
  BY DEF Withdraw
<1>2. suggestion[s] \in SuggestionType
  BY <1>1 DEF CanvasInv, RowsTyped, NoSuggestion
<1>3. [suggestion[s] EXCEPT !.status = "WITHDRAWN"] \in SuggestionType
  BY <1>2 DEF SuggestionType
<1>4. RowsTyped'
  BY <1>1, <1>3 DEF CanvasInv, RowsTyped, Withdraw
<1> QED
  BY <1>4, SameRowsAge, CommitStep DEF Withdraw

LEMMA ReviewReadKeeps ==
  ASSUME CanvasInv, NEW r \in Requests, ReviewRead(r)
  PROVE  CanvasInv'
<1>1. PICK s \in Suggestions :
        /\ suggestion[s].status = "PENDING"
        /\ \/ \E d \in present :
                /\ NextSort(d) <= MaxSort
                /\ Begins(r, [do |-> "review", suggestion |-> s, day |-> d,
                              sort |-> NextSort(d), overtaken |-> FALSE])
           \/ Begins(r, [do |-> "review", suggestion |-> s, day |-> None, sort |-> 1,
                         overtaken |-> FALSE])
  BY DEF ReviewRead
<1>2. ASSUME NEW d \in Days \cup {None}, NEW sort \in 1..MaxSort, d # None => Above(sort, d),
             Begins(r, [do |-> "review", suggestion |-> s, day |-> d, sort |-> sort,
                        overtaken |-> FALSE])
      PROVE  CanvasInv'
  <2> DEFINE ask == [do |-> "review", suggestion |-> s, day |-> d, sort |-> sort,
                     overtaken |-> FALSE]
  <2>1. ask \in ReviewJob
    BY DEF ReviewJob
  <2>2. ask.do = "review" /\ ask.suggestion = s /\ ask.day = d /\ ask.sort = sort
    OBVIOUS
  <2>3. Begins(r, ask)
    BY <1>2
  <2> HIDE DEF ask
  <2>4. KnowsText(ask) /\ Seen(ask)
    BY <1>1, <1>2, <2>2 DEF KnowsText, Seen
  <2> QED
    BY <2>1, <2>3, <2>4, JobTypes, BeginStep
<1>3. ASSUME NEW d \in present, NextSort(d) <= MaxSort
      PROVE  d \in Days \cup {None} /\ NextSort(d) \in 1..MaxSort /\ Above(NextSort(d), d)
  BY <1>3, NextSortIs, ConstantsAssumption DEF CanvasInv, RowsTyped, Above
<1>4. 1 \in 1..MaxSort
  BY ConstantsAssumption
<1> QED
  BY <1>1, <1>2, <1>3, <1>4

LEMMA ReviewWriteKeeps ==
  ASSUME CanvasInv, NEW r \in Requests, ReviewWrite(r)
  PROVE  CanvasInv'
<1> DEFINE s == job[r].suggestion
<1>1. s \in Suggestions /\ job[r].sort \in 1..MaxSort
  BY JobCases DEF CanvasInv, ReviewWrite, ReviewJob
<1>2. CASE Fails(r)
  BY <1>2, FailStep
<1>3. CASE Settled(s, "REJECTED", None) /\ Commits(r) /\ UNCHANGED <<present, row, expense>>
  <2>1. [status |-> "REJECTED", block |-> None] \in SuggestionType
    BY DEF SuggestionType
  <2>2. RowsTyped'
    BY <1>1, <1>3, <2>1 DEF CanvasInv, RowsTyped, Settled
  <2> QED
    BY <1>3, <2>2, SameRowsAge, CommitStep
<1>4. CASE /\ job[r].day \in present
           /\ \E b \in FreeIds :
                Insert(job[r].day, job[r].sort, s, b) /\ Settled(s, "ACCEPTED", b)
           /\ Commits(r) /\ UNCHANGED <<present, expense>>
  <2>1. PICK b \in FreeIds :
          Insert(job[r].day, job[r].sort, s, b) /\ Settled(s, "ACCEPTED", b)
    BY <1>4
  <2>2. job[r].day \in Days
    BY <1>4 DEF CanvasInv, RowsTyped
  <2>3. /\ row' \in [Blocks -> BlockType \cup {NoBlock}] /\ b \in Blocks
        /\ \A q \in Requests : job[q].do = "edit" => Ages(job[q].block)
    BY <1>1, <2>1, <2>2, InsertIs
  <2>4. [status |-> "ACCEPTED", block |-> b] \in SuggestionType
    BY <2>3 DEF SuggestionType
  <2>5. suggestion' \in [Suggestions -> SuggestionType \cup {NoSuggestion}]
    BY <2>1, <2>4 DEF CanvasInv, RowsTyped, Settled
  <2>6. RowsTyped'
    BY <1>4, <2>3, <2>5 DEF CanvasInv, RowsTyped
  <2> QED
    BY <1>4, <2>3, <2>6, CommitStep
<1> QED
  BY <1>2, <1>3, <1>4 DEF ReviewWrite

LEMMA CanvasStep == CanvasInv /\ [Next]_vars => CanvasInv'
<1> SUFFICES ASSUME CanvasInv, [Next]_vars PROVE CanvasInv'
  OBVIOUS
<1>1. ASSUME NEW r \in Requests, Step(r) PROVE CanvasInv'
  BY <1>1, AddReadKeeps, AddWriteKeeps, EditLoadKeeps, EditWriteKeeps, DeleteUnlinkKeeps,
     DeleteCommitKeeps, RestoreBlockKeeps, MoveReadKeeps, MoveWriteKeeps, ReorderReadKeeps, ReorderWriteKeeps,
     ExpenseReadKeeps, ExpenseWriteKeeps, CreateSuggestionKeeps, ReviewReadKeeps,
     ReviewWriteKeeps, WithdrawKeeps DEF Step
<1>2. CASE DropDay
  BY <1>2, DropDayKeeps
<1>3. CASE UNCHANGED vars
  BY <1>3 DEF vars, CanvasInv, RowsTyped, KnowsText, Seen, Above, On, Live, Exists
<1> QED
  BY <1>1, <1>2, <1>3 DEF Next

LEMMA CanvasAlways == Spec => []CanvasInv
BY CanvasStarts, CanvasStep, PTL DEF Spec

\* Rows, places, versions and what the requests have read keep their types, and
\* no place is ever given beyond the bound.
THEOREM CanvasTypes == Spec => []TypeOK
BY CanvasAlways, InvTypes, PTL

-----------------------------------------------------------------------------
(* Which steps write what.                                                   *)

\* The steps that write a block's row, an expense or a suggestion.
LEMMA Writers ==
  ASSUME [Next]_vars
  PROVE  \/ UNCHANGED rows
         \/ DropDay
         \/ \E r \in Requests :
              AddWrite(r) \/ EditWrite(r) \/ DeleteCommit(r) \/ RestoreBlock(r) \/ MoveWrite(r)
                \/ ReorderWrite(r) \/ ExpenseWrite(r) \/ CreateSuggestion(r) \/ ReviewWrite(r)
                \/ Withdraw(r)
<1>1. ASSUME NEW r \in Requests,
             AddRead(r) \/ EditLoad(r) \/ DeleteUnlink(r) \/ MoveRead(r) \/ ReorderRead(r)
               \/ ExpenseRead(r) \/ ReviewRead(r)
      PROVE  UNCHANGED rows
  BY <1>1 DEF AddRead, EditLoad, DeleteUnlink, MoveRead, ReorderRead, ExpenseRead, ReviewRead, Begins
<1>2. CASE UNCHANGED vars
  BY <1>2 DEF vars, rows
<1> QED
  BY <1>1, <1>2 DEF Next, Step

LEMMA FailsWritesNothing == \A r \in Requests : Fails(r) => UNCHANGED rows
BY DEF Fails

LEMMA EndsIdle ==
  ASSUME CanvasInv, NEW r \in Requests, Commits(r) \/ Fails(r)
  PROVE  job'[r] = Idle
BY DEF CanvasInv, Commits, Fails

-----------------------------------------------------------------------------
(* Edits.                                                                    *)

LEMMA NoEditLostStep ==
  ASSUME CanvasInv, [Next]_vars, NEW r \in Requests,
         Finishes(r), job[r].do = "edit", row' # row
  PROVE  row[job[r].block].text = job[r].text
<1>1. job[r] # Idle /\ job'[r] = Idle
  BY DEF Finishes
<1>2. job[r] \in JobType
  BY DEF CanvasInv
  \* Only a request's own step makes it idle.
<1>3. ASSUME NEW q \in Requests, Commits(q), q # r PROVE FALSE
  <2>1. job'[r] = Overtaken(job[r])
    BY <1>1, <1>3 DEF Commits, Overtaken
  <2> QED
    BY <1>1, <1>2, <2>1, OvertakenJob
<1>4. ~DropDay
  <2>1. DropDay => job'[r] = Overtaken(job[r])
    BY <1>1 DEF DropDay, Overtaken
  <2> QED
    BY <1>1, <1>2, <2>1, OvertakenJob
<1>5. ~UNCHANGED rows
  BY DEF rows
<1>6. PICK q \in Requests :
        AddWrite(q) \/ EditWrite(q) \/ DeleteCommit(q) \/ RestoreBlock(q) \/ MoveWrite(q)
          \/ ReorderWrite(q) \/ ExpenseWrite(q) \/ CreateSuggestion(q) \/ ReviewWrite(q)
          \/ Withdraw(q)
  BY <1>4, <1>5, Writers
<1>7. ~Fails(q) /\ Commits(q)
  BY <1>5, <1>6, FailsWritesNothing DEF AddWrite, EditWrite, DeleteCommit, RestoreBlock,
     MoveWrite, ReorderWrite, ExpenseWrite, CreateSuggestion, ReviewWrite, Withdraw
<1>8. q = r
  BY <1>3, <1>7
<1>9. EditWrite(r)
  BY <1>6, <1>8, IdleIs DEF AddWrite, DeleteCommit, RestoreBlock, MoveWrite, ReorderWrite,
     ExpenseWrite, CreateSuggestion, ReviewWrite, Withdraw
<1> QED
  BY <1>7, <1>8, <1>9, EditIs

\* updateBlock compares the version; every other writer leaves the text alone
\* and none gives a version back, so an edit meets the text its author saw.
THEOREM CanvasEdits == Spec => NoEditLost
<1>1. CanvasInv /\ [Next]_vars
        => [\A r \in Requests :
              Finishes(r) /\ job[r].do = "edit" /\ row' # row =>
                row[job[r].block].text = job[r].text]_vars
  BY NoEditLostStep
<1> QED
  BY <1>1, CanvasAlways, PTL DEF Spec, NoEditLost

-----------------------------------------------------------------------------
(* Expenses.                                                                 *)

LEMMA DeadLinkStep ==
  ASSUME CanvasInv, CanvasInv', [Next]_vars, NEW e \in Expenses, LinksLive(e), ~LinksLive(e)'
  PROVE  \E r \in Requests :
           Finishes(r) /\ job[r].do \in {"expense", "delete"} /\ job[r].overtaken
<1>1. /\ expense'[e] # None /\ expense'[e] \in Blocks /\ row'[expense'[e]].deleted
      /\ expense[e] # None => expense[e] \in Blocks /\ ~row[expense[e]].deleted
      /\ row \in [Blocks -> BlockType \cup {NoBlock}]
  BY DEF LinksLive, Live, CanvasInv, RowsTyped
<1>2. ASSUME expense' = expense,
             \A b \in Blocks : ~row[b].deleted => ~row'[b].deleted
      PROVE  FALSE
  BY <1>1, <1>2
<1>3. ~UNCHANGED rows
  BY <1>2 DEF rows
<1>4. ASSUME DropDay PROVE FALSE
  <2>1. PICK d \in present :
          LET gone == {b \in Blocks : Exists(b) /\ row[b].day = d} IN
            /\ row' = [b \in Blocks |-> IF b \in gone THEN NoBlock ELSE row[b]]
            /\ expense' = [x \in Expenses |-> IF expense[x] \in gone THEN None ELSE expense[x]]
    BY <1>4 DEF DropDay
  <2> QED
    BY <1>1, <2>1
<1>5. ASSUME NEW r \in Requests, AddWrite(r) PROVE FALSE
  <2>1. ~Fails(r)
    BY <1>3, FailsWritesNothing
  <2> DEFINE d == job[r].day
             sort == job[r].sort
  <2>2. (\E b \in FreeIds : Insert(d, sort, None, b)) /\ UNCHANGED expense
    BY <1>5, <2>1 DEF AddWrite
  <2>3. d \in Days /\ sort \in 1..MaxSort /\ None \in Suggestions \cup {None}
    BY <1>5, JobCases DEF CanvasInv, AddWrite, AddJob
  <2> HIDE DEF d, sort
  <2>4. PICK b \in FreeIds : Insert(d, sort, None, b)
    BY <2>2
  <2>5. \A c \in Blocks \ {b} : row'[c] = row[c]
    BY <2>3, <2>4, InsertIs
  <2>6. row[b].deleted
    BY FreeIs DEF NoBlock
  <2> QED
    BY <1>2, <2>2, <2>5, <2>6
<1>6. ASSUME NEW r \in Requests, EditWrite(r) PROVE FALSE
  <2>1. ~Fails(r)
    BY <1>3, FailsWritesNothing
  <2> DEFINE b == job[r].block
  <2>2. b \in Blocks /\ row[b] \in BlockType /\ row[b].version < MaxVersion /\ UNCHANGED expense
    BY <1>6, <2>1, EditIs DEF EditJob
  <2>3. PICK t \in Texts : row' = Edited(b, t)
    BY <1>6, <2>1, EditIs
  <2> HIDE DEF b
  <2>4. row'[b].deleted = row[b].deleted /\ \A c \in Blocks \ {b} : row'[c] = row[c]
    BY <2>2, <2>3, EditedIs
  <2> QED
    BY <1>2, <2>2, <2>4
<1>7. ASSUME NEW r \in Requests, DeleteCommit(r)
      PROVE  Finishes(r) /\ job[r].do = "delete" /\ job[r].overtaken
  <2> DEFINE b == job[r].block
  <2>1. b \in Blocks /\ job[r].do = "delete"
    BY <1>7, JobCases DEF CanvasInv, DeleteCommit, DeleteJob
  <2>2. /\ expense' = [x \in Expenses |-> IF x \in job[r].unlinked THEN None ELSE expense[x]]
        /\ \A c \in Blocks \ {b} : row'[c] = row[c]
        /\ Commits(r)
    BY <1>7, <2>1, DeletedIs DEF DeleteCommit
  <2>3. e \notin job[r].unlinked /\ expense[e] = b
    BY <1>1, <2>2
  <2>4. job[r].overtaken \/ Seen(job[r])
    BY DEF CanvasInv
  <2>5. job[r].overtaken
    BY <2>1, <2>3, <2>4 DEF Seen
  <2>6. Finishes(r)
    BY <2>1, <2>2, EndsIdle, IdleIs DEF Finishes
  <2> QED
    BY <2>1, <2>5, <2>6
<1>8. ASSUME NEW r \in Requests, RestoreBlock(r) PROVE FALSE
  <2>1. PICK b \in Blocks : Exists(b) /\ row' = [row EXCEPT ![b].deleted = FALSE]
    BY <1>8 DEF RestoreBlock
  <2>2. ~row'[b].deleted /\ \A c \in Blocks \ {b} : row'[c] = row[c]
    BY <2>1, MarkedIs, Zenon
  <2> QED
    BY <1>2, <1>8, <2>2 DEF RestoreBlock
<1>9. ASSUME SameBlocks, expense' = expense PROVE FALSE
  <2>1. \A b \in Blocks : ~row[b].deleted => ~row'[b].deleted
    BY <1>1, <1>9, RowKinds DEF SameBlocks
  <2> QED
    BY <1>2, <1>9, <2>1
<1>10. ASSUME NEW r \in Requests, MoveWrite(r) PROVE FALSE
  <2>1. ~Fails(r)
    BY <1>3, FailsWritesNothing
  <2>2. /\ row' = Sorted(IF Exists(job[r].block)
                         THEN [row EXCEPT ![job[r].block].day = job[r].day] ELSE row,
                         job[r].order)
        /\ UNCHANGED expense
    BY <1>10, <2>1 DEF MoveWrite
  <2>3. job[r].block \in Blocks /\ job[r].day \in Days /\ job[r].order \in Ordering
    BY <1>10, JobCases DEF CanvasInv, MoveWrite, MoveJob
  <2> QED
    BY <1>9, <2>2, <2>3, MoveIs
<1>11. ASSUME NEW r \in Requests, ReorderWrite(r) PROVE FALSE
  <2>1. job[r].order \in Ordering
    BY <1>11, JobCases DEF CanvasInv, ReorderWrite, ReorderJob
  <2> QED
    BY <1>9, <1>11, <2>1, ReorderIs DEF ReorderWrite
<1>12. ASSUME NEW r \in Requests, CreateSuggestion(r) \/ Withdraw(r) PROVE FALSE
  BY <1>2, <1>12 DEF CreateSuggestion, Withdraw
<1>13. ASSUME NEW r \in Requests, ReviewWrite(r) PROVE FALSE
  <2>1. ~Fails(r) /\ ~UNCHANGED <<row, expense>>
    BY <1>2, <1>3, FailsWritesNothing
  <2> DEFINE d == job[r].day
             sort == job[r].sort
             s == job[r].suggestion
  <2>2. d \in present /\ (\E b \in FreeIds : Insert(d, sort, s, b)) /\ UNCHANGED expense
    BY <1>13, <2>1 DEF ReviewWrite
  <2>3. d \in Days /\ sort \in 1..MaxSort /\ s \in Suggestions \cup {None}
    BY <1>13, <2>2, JobCases DEF CanvasInv, RowsTyped, ReviewWrite, ReviewJob
  <2> HIDE DEF d, sort, s
  <2>4. PICK b \in FreeIds : Insert(d, sort, s, b)
    BY <2>2
  <2>5. \A c \in Blocks \ {b} : row'[c] = row[c]
    BY <2>3, <2>4, InsertIs
  <2>6. row[b].deleted
    BY FreeIs DEF NoBlock
  <2> QED
    BY <1>2, <2>2, <2>5, <2>6
<1>14. ASSUME NEW r \in Requests, ExpenseWrite(r)
       PROVE  Finishes(r) /\ job[r].do = "expense" /\ job[r].overtaken
  <2>1. ~Fails(r)
    BY <1>3, FailsWritesNothing
  <2>2. PICK x \in Expenses : expense[x] = None /\ expense' = [expense EXCEPT ![x] = job[r].block]
    BY <1>14, <2>1 DEF ExpenseWrite
  <2>3. Commits(r) /\ row' = row /\ job[r].do = "expense"
    BY <1>14, <2>1 DEF ExpenseWrite
  <2>4. x = e /\ ~Live(job[r].block)
    BY <1>1, <2>2, <2>3 DEF CanvasInv, RowsTyped, Live
  <2>5. job[r].overtaken \/ Seen(job[r])
    BY DEF CanvasInv
  <2>6. job[r].overtaken
    BY <2>3, <2>4, <2>5 DEF Seen
  <2>7. Finishes(r)
    BY <2>3, EndsIdle, IdleIs DEF Finishes
  <2> QED
    BY <2>3, <2>6, <2>7
<1> QED
  BY <1>3, <1>4, <1>5, <1>6, <1>7, <1>8, <1>10, <1>11, <1>12, <1>13, <1>14, Writers

\* deleteBlock unlinks the expenses it can see and createExpense looks at the
\* block before its transaction: a dead link is left only by an expense whose
\* request was overtaken after that look, or by a deletion that an expense
\* overtook between its unlinking and its commit.
THEOREM CanvasLinks == Spec => DeadLinkOnlyWhenOvertaken
<1>1. CanvasInv /\ CanvasInv' /\ [Next]_vars
        => [\A e \in Expenses : LinksLive(e) /\ ~LinksLive(e)' =>
              \E r \in Requests :
                Finishes(r) /\ job[r].do \in {"expense", "delete"} /\ job[r].overtaken]_vars
  BY DeadLinkStep
<1> QED
  BY <1>1, CanvasAlways, PTL DEF Spec, DeadLinkOnlyWhenOvertaken

-----------------------------------------------------------------------------
(* Suggestions.                                                              *)

\* An addition that goes through puts in one block for no suggestion.
LEMMA AddIs ==
  ASSUME CanvasInv, NEW r \in Requests, AddWrite(r), ~Fails(r)
  PROVE  \E d \in Days, sort \in 1..MaxSort, b \in FreeIds :
           /\ Insert(d, sort, None, b)
           /\ job[r].overtaken \/ Above(sort, d)
           /\ Commits(r) /\ UNCHANGED suggestion
<1> DEFINE d == job[r].day
           sort == job[r].sort
<1>1. d \in Days /\ sort \in 1..MaxSort
  BY JobCases DEF CanvasInv, AddWrite, AddJob
<1>2. job[r].overtaken \/ Above(sort, d)
  BY DEF CanvasInv, AddWrite, Seen
<1>3. (\E b \in FreeIds : Insert(d, sort, None, b)) /\ Commits(r) /\ UNCHANGED suggestion
  BY DEF AddWrite
<1> HIDE DEF d, sort
<1> QED
  BY <1>1, <1>2, <1>3

\* A review that goes through settles one suggestion, as nobody else had by then
\* unless the reviewer was overtaken, and puts in a block if it accepts.
LEMMA ReviewIs ==
  ASSUME CanvasInv, NEW r \in Requests, ReviewWrite(r), ~Fails(r)
  PROVE  \E s \in Suggestions :
           /\ \A x \in Suggestions \ {s} : suggestion'[x] = suggestion[x]
           /\ job[r].overtaken \/ suggestion[s].status = "PENDING"
           /\ Commits(r) /\ job[r].do = "review"
           /\ \/ UNCHANGED row
              \/ \E d \in Days, sort \in 1..MaxSort, b \in FreeIds :
                   Insert(d, sort, s, b) /\ (job[r].overtaken \/ Above(sort, d))
<1> DEFINE d == job[r].day
           sort == job[r].sort
           s == job[r].suggestion
<1>1. sort \in 1..MaxSort /\ s \in Suggestions /\ job[r].do = "review"
  BY JobCases DEF CanvasInv, ReviewWrite, ReviewJob
<1>2. /\ job[r].overtaken \/ suggestion[s].status = "PENDING"
      /\ d # None => job[r].overtaken \/ Above(sort, d)
  BY <1>1 DEF CanvasInv, Seen
<1>3. /\ Commits(r)
      /\ \/ UNCHANGED row
         \/ d \in present /\ \E b \in FreeIds : Insert(d, sort, s, b)
      /\ \E x : suggestion' = [suggestion EXCEPT ![s] = x]
  BY DEF ReviewWrite, Settled
<1>4. present \subseteq Days /\ None \notin Days
  BY ConstantsAssumption DEF CanvasInv, RowsTyped
<1> HIDE DEF d, sort, s
<1>5. \A x \in Suggestions \ {s} : suggestion'[x] = suggestion[x]
  BY <1>3 DEF CanvasInv, RowsTyped
<1>6. \/ UNCHANGED row
      \/ \E e \in Days, p \in 1..MaxSort, b \in FreeIds :
           Insert(e, p, s, b) /\ (job[r].overtaken \/ Above(p, e))
  BY <1>1, <1>2, <1>3, <1>4
<1> QED
  BY <1>1, <1>2, <1>3, <1>5, <1>6

\* What a step may make of a suggestion and of the blocks made from it.
Stays(s) == suggestion'[s] = suggestion[s] /\ MadeFrom(s)' = MadeFrom(s)
Dropped(s) ==
  /\ suggestion'[s].status = suggestion[s].status
  /\ MadeFrom(s)' \subseteq MadeFrom(s)
  /\ Pointed(s)' # None =>
       /\ Pointed(s)' = Pointed(s)
       /\ Pointed(s) \in MadeFrom(s) => Pointed(s) \in MadeFrom(s)'
Created(s) ==
  /\ suggestion[s] = NoSuggestion
  /\ suggestion'[s].status = "PENDING" /\ Pointed(s)' = None /\ MadeFrom(s)' = MadeFrom(s)
Withdrawn(s) ==
  /\ suggestion'[s].status = "WITHDRAWN"
  /\ Pointed(s)' = Pointed(s) /\ MadeFrom(s)' = MadeFrom(s)
Rejected(s) ==
  /\ suggestion'[s].status = "REJECTED" /\ Pointed(s)' = None
  /\ MadeFrom(s)' = MadeFrom(s)
Accepted(s) ==
  /\ suggestion'[s].status = "ACCEPTED" /\ Pointed(s)' \notin MadeFrom(s)
  /\ MadeFrom(s)' = MadeFrom(s) \cup {Pointed(s)'}
Settles(r, s) ==
  /\ Finishes(r) /\ job[r].do = "review" /\ job[r].suggestion = s
  /\ job[r].overtaken \/ suggestion[s].status = "PENDING"
  /\ Rejected(s) \/ Accepted(s)

\* A pointer is to a block made from the suggestion, and nothing is made from
\* one that is not there or not decided.
PointersRight ==
  \A s \in Suggestions :
    /\ Pointed(s) # None => Pointed(s) \in MadeFrom(s)
    /\ suggestion[s].status \in {"none", "PENDING"} => MadeFrom(s) = {}

LEMMA SameMade ==
  ASSUME NEW s,
         \A c \in Blocks : /\ row'[c] = NoBlock <=> row[c] = NoBlock
                           /\ row[c] # NoBlock => row'[c].of = row[c].of
  PROVE  MadeFrom(s)' = MadeFrom(s)
BY DEF MadeFrom, Exists

LEMMA InsertMade ==
  ASSUME CanvasInv, NEW d \in Days, NEW sort \in 1..MaxSort, NEW x \in Suggestions \cup {None},
         NEW b \in FreeIds, Insert(d, sort, x, b), NEW s \in Suggestions
  PROVE  /\ MadeFrom(s)' = IF s = x THEN MadeFrom(s) \cup {b} ELSE MadeFrom(s)
         /\ b \notin MadeFrom(s) /\ b \in Blocks
<1>1. /\ b \in Blocks /\ row'[b] \in BlockType /\ row'[b].of = x
      /\ \A c \in Blocks \ {b} : row'[c] = row[c]
  BY InsertIs
<1>2. row[b] = NoBlock /\ row'[b] # NoBlock
  BY <1>1, FreeIs, RowKinds
<1> QED
  BY <1>1, <1>2 DEF MadeFrom, Exists

\* A row of a suggestion has both fields, or is none.
LEMMA SuggestionKinds ==
  ASSUME CanvasInv, NEW s \in Suggestions
  PROVE  /\ suggestion[s] \in SuggestionType \cup {NoSuggestion}
         /\ suggestion[s] = NoSuggestion <=> suggestion[s].status = "none"
<1>1. suggestion[s] \in SuggestionType \cup {NoSuggestion}
  BY DEF CanvasInv, RowsTyped
<1>2. NoSuggestion.status = "none"
  BY DEF NoSuggestion
<1>3. \A x \in SuggestionType : x.status # "none"
  BY DEF SuggestionType
<1> QED
  BY <1>1, <1>2, <1>3

LEMMA DropDayMoves ==
  ASSUME CanvasInv, DropDay, NEW s \in Suggestions
  PROVE  Dropped(s)
<1>1. PICK d \in present :
        LET gone == {b \in Blocks : Exists(b) /\ row[b].day = d} IN
          /\ row' = [b \in Blocks |-> IF b \in gone THEN NoBlock ELSE row[b]]
          /\ suggestion' = [x \in Suggestions |->
               IF suggestion[x] # NoSuggestion /\ suggestion[x].block \in gone
               THEN [suggestion[x] EXCEPT !.block = None] ELSE suggestion[x]]
  BY DEF DropDay
<1> DEFINE gone == {b \in Blocks : Exists(b) /\ row[b].day = d}
<1>2. MadeFrom(s)' = MadeFrom(s) \ gone
  BY <1>1 DEF MadeFrom, Exists
<1>3. CASE suggestion[s] # NoSuggestion /\ suggestion[s].block \in gone
  <2>1. suggestion[s] \in SuggestionType
    BY <1>3, SuggestionKinds
  <2>2. suggestion'[s] = [suggestion[s] EXCEPT !.block = None]
    BY <1>1, <1>3
  <2>3. suggestion'[s].status = suggestion[s].status /\ suggestion'[s].block = None
    BY <2>1, <2>2 DEF SuggestionType
  <2>4. Pointed(s)' = None
    BY <2>3 DEF Pointed
  <2> QED
    BY <1>2, <2>3, <2>4 DEF Dropped
<1>4. CASE ~(suggestion[s] # NoSuggestion /\ suggestion[s].block \in gone)
  <2>1. suggestion'[s] = suggestion[s]
    BY <1>1, <1>4
  <2>2. Pointed(s)' = Pointed(s)
    BY <2>1 DEF Pointed
  <2>3. Pointed(s) # None => Pointed(s) \notin gone
    BY <1>4 DEF Pointed
  <2> HIDE DEF gone
  <2> QED
    BY <1>2, <2>1, <2>2, <2>3 DEF Dropped
<1> QED
  BY <1>3, <1>4

LEMMA CreateMoves ==
  ASSUME CanvasInv, NEW r \in Requests, CreateSuggestion(r), NEW s \in Suggestions
  PROVE  Stays(s) \/ Created(s)
<1>1. PICK x \in Suggestions :
        /\ suggestion[x] = NoSuggestion
        /\ suggestion' = [suggestion EXCEPT ![x] = [status |-> "PENDING", block |-> None]]
  BY DEF CreateSuggestion
<1>2. MadeFrom(s)' = MadeFrom(s)
  BY DEF CreateSuggestion, MadeFrom, Exists
<1>3. CASE x = s
  <2>1. suggestion'[s] = [status |-> "PENDING", block |-> None]
    BY <1>1, <1>3 DEF CanvasInv, RowsTyped
  <2>2. suggestion'[s].status = "PENDING" /\ suggestion'[s].block = None
    BY <2>1
  <2>3. Pointed(s)' = None
    BY <2>2 DEF Pointed
  <2> QED
    BY <1>1, <1>2, <1>3, <2>2, <2>3 DEF Created
<1>4. CASE x # s
  BY <1>1, <1>2, <1>4 DEF CanvasInv, RowsTyped, Stays
<1> QED
  BY <1>3, <1>4

LEMMA WithdrawMoves ==
  ASSUME CanvasInv, NEW r \in Requests, Withdraw(r), NEW s \in Suggestions
  PROVE  Stays(s) \/ Withdrawn(s)
<1>1. PICK x \in Suggestions :
        /\ suggestion[x].status # "none"
        /\ suggestion' = [suggestion EXCEPT ![x].status = "WITHDRAWN"]
  BY DEF Withdraw
<1>2. MadeFrom(s)' = MadeFrom(s)
  BY DEF Withdraw, MadeFrom, Exists
<1>3. CASE x = s
  <2>1. suggestion[s] \in SuggestionType /\ suggestion[s] # NoSuggestion
    BY <1>1, <1>3, SuggestionKinds
  <2>2. suggestion'[s] = [suggestion[s] EXCEPT !.status = "WITHDRAWN"]
    BY <1>1, <1>3 DEF CanvasInv, RowsTyped
  <2>3. suggestion'[s].status = "WITHDRAWN" /\ suggestion'[s].block = suggestion[s].block
    BY <2>1, <2>2 DEF SuggestionType
  <2>4. suggestion'[s] # NoSuggestion
    BY <2>3 DEF NoSuggestion
  <2>5. Pointed(s)' = Pointed(s)
    BY <2>1, <2>3, <2>4 DEF Pointed
  <2> QED
    BY <1>2, <2>3, <2>5 DEF Withdrawn
<1>4. CASE x # s
  BY <1>1, <1>2, <1>4 DEF CanvasInv, RowsTyped, Stays
<1> QED
  BY <1>3, <1>4

LEMMA ReviewMoves ==
  ASSUME CanvasInv, NEW r \in Requests, ReviewWrite(r), ~Fails(r), NEW s \in Suggestions
  PROVE  Stays(s) \/ Settles(r, s)
<1> DEFINE d == job[r].day
           sort == job[r].sort
           x == job[r].suggestion
<1>1. sort \in 1..MaxSort /\ x \in Suggestions /\ job[r].do = "review"
  BY JobCases DEF CanvasInv, ReviewWrite, ReviewJob
<1>2. job[r].overtaken \/ suggestion[x].status = "PENDING"
  BY <1>1 DEF CanvasInv, Seen
<1>3. Commits(r)
  BY DEF ReviewWrite
<1>4. Finishes(r)
  BY <1>1, <1>3, EndsIdle, IdleIs DEF Finishes
<1>5. CASE d = None
  <2>1. Settled(x, "REJECTED", None) /\ UNCHANGED row
    BY <1>5, ConstantsAssumption DEF ReviewWrite, CanvasInv, RowsTyped
  <2>2. MadeFrom(s)' = MadeFrom(s)
    BY <2>1 DEF MadeFrom, Exists
  <2>3. CASE x = s
    <3>1. suggestion'[s] = [status |-> "REJECTED", block |-> None]
      BY <1>1, <2>1, <2>3 DEF CanvasInv, RowsTyped, Settled
    <3>2. suggestion'[s].status = "REJECTED" /\ suggestion'[s].block = None
      BY <3>1
    <3>3. Pointed(s)' = None
      BY <3>2 DEF Pointed
    <3> QED
      BY <1>1, <1>2, <1>4, <2>2, <2>3, <3>2, <3>3 DEF Settles, Rejected
  <2>4. CASE x # s
    BY <1>1, <2>1, <2>2, <2>4 DEF CanvasInv, RowsTyped, Settled, Stays
  <2> QED
    BY <2>3, <2>4
<1>6. CASE d # None
  <2>1. d \in present /\ \E b \in FreeIds : Insert(d, sort, x, b) /\ Settled(x, "ACCEPTED", b)
    BY <1>6 DEF ReviewWrite
  <2>2. d \in Days
    BY <2>1 DEF CanvasInv, RowsTyped
  <2> HIDE DEF d, sort, x
  <2>3. PICK b \in FreeIds : Insert(d, sort, x, b) /\ Settled(x, "ACCEPTED", b)
    BY <2>1
  <2>4. /\ MadeFrom(s)' = IF s = x THEN MadeFrom(s) \cup {b} ELSE MadeFrom(s)
        /\ b \notin MadeFrom(s) /\ b \in Blocks
    BY <1>1, <2>2, <2>3, InsertMade
  <2>5. CASE x = s
    <3>1. suggestion'[s] = [status |-> "ACCEPTED", block |-> b]
      BY <1>1, <2>3, <2>5 DEF CanvasInv, RowsTyped, Settled
    <3>2. suggestion'[s].status = "ACCEPTED" /\ suggestion'[s].block = b
      BY <3>1
    <3>3. suggestion'[s] # NoSuggestion
      BY <3>2 DEF NoSuggestion
    <3>4. Pointed(s)' = b
      BY <3>2, <3>3 DEF Pointed
    <3>5. Accepted(s)
      BY <2>4, <2>5, <3>2, <3>4 DEF Accepted
    <3> QED
      BY <1>1, <1>2, <1>4, <2>5, <3>5 DEF Settles, x
  <2>6. CASE x # s
    BY <1>1, <2>3, <2>4, <2>6 DEF CanvasInv, RowsTyped, Settled, Stays
  <2> QED
    BY <2>5, <2>6
<1> QED
  BY <1>5, <1>6

\* The writers of blocks make none from a suggestion and leave suggestions alone.
LEMMA BlockMoves ==
  ASSUME CanvasInv, NEW r \in Requests, ~Fails(r), NEW s \in Suggestions,
         AddWrite(r) \/ EditWrite(r) \/ DeleteCommit(r) \/ RestoreBlock(r) \/ MoveWrite(r)
           \/ ReorderWrite(r)
  PROVE  Stays(s)
<1>0. ASSUME UNCHANGED suggestion, MadeFrom(s)' = MadeFrom(s) PROVE Stays(s)
  BY <1>0 DEF Stays
<1>1. CASE AddWrite(r)
  <2>1. PICK d \in Days, sort \in 1..MaxSort, b \in FreeIds :
          Insert(d, sort, None, b) /\ UNCHANGED suggestion
    BY <1>1, AddIs
  <2>2. None \in Suggestions \cup {None} /\ None # s
    BY ConstantsAssumption
  <2>3. MadeFrom(s)' = MadeFrom(s)
    BY <2>1, <2>2, InsertMade
  <2> QED
    BY <1>0, <2>1, <2>3
<1>2. CASE EditWrite(r)
  <2> DEFINE b == job[r].block
  <2>1. b \in Blocks /\ row[b] \in BlockType /\ row[b].version < MaxVersion
        /\ UNCHANGED suggestion
    BY <1>2, EditIs DEF EditJob
  <2>2. PICK t \in Texts : row' = Edited(b, t)
    BY <1>2, EditIs
  <2> HIDE DEF b
  <2>3. /\ row'[b].of = row[b].of /\ row[b] # NoBlock /\ row'[b] # NoBlock
        /\ \A c \in Blocks \ {b} : row'[c] = row[c]
    BY <2>1, <2>2, EditedIs, RowKinds
  <2>4. MadeFrom(s)' = MadeFrom(s)
    BY <2>1, <2>3, SameMade
  <2> QED
    BY <1>0, <2>1, <2>4
<1>3. CASE DeleteCommit(r)
  <2> DEFINE b == job[r].block
  <2>1. b \in Blocks /\ row' = [row EXCEPT ![b].deleted = TRUE] /\ UNCHANGED suggestion
    BY <1>3, JobCases DEF CanvasInv, DeleteCommit, DeleteJob
  <2> HIDE DEF b
  <2>2. /\ row'[b] = NoBlock <=> row[b] = NoBlock
        /\ row[b] # NoBlock => row'[b].of = row[b].of
        /\ \A c \in Blocks \ {b} : row'[c] = row[c]
    BY <2>1, DeletedIs
  <2>3. MadeFrom(s)' = MadeFrom(s)
    BY <2>1, <2>2, SameMade
  <2> QED
    BY <1>0, <2>1, <2>3
<1>4. CASE RestoreBlock(r)
  <2>1. PICK b \in Blocks : Exists(b) /\ row' = [row EXCEPT ![b].deleted = FALSE]
    BY <1>4 DEF RestoreBlock
  <2>2. /\ row'[b].of = row[b].of /\ row[b] # NoBlock /\ row'[b] # NoBlock
        /\ \A c \in Blocks \ {b} : row'[c] = row[c]
    BY <2>1, MarkedIs, RowKinds DEF Exists
  <2>3. MadeFrom(s)' = MadeFrom(s)
    BY <2>1, <2>2, SameMade
  <2> QED
    BY <1>0, <1>4, <2>3 DEF RestoreBlock
<1>5. ASSUME SameBlocks PROVE MadeFrom(s)' = MadeFrom(s)
  <2>1. \A c \in Blocks : /\ row'[c] = NoBlock <=> row[c] = NoBlock
                          /\ row[c] # NoBlock => row'[c].of = row[c].of
    BY <1>5, RowKinds DEF SameBlocks
  <2> QED
    BY <2>1, SameMade
<1>6. CASE MoveWrite(r)
  <2>1. /\ row' = Sorted(IF Exists(job[r].block)
                         THEN [row EXCEPT ![job[r].block].day = job[r].day] ELSE row,
                         job[r].order)
        /\ UNCHANGED suggestion
    BY <1>6 DEF MoveWrite
  <2>2. job[r].block \in Blocks /\ job[r].day \in Days /\ job[r].order \in Ordering
    BY <1>6, JobCases DEF CanvasInv, MoveWrite, MoveJob
  <2> QED
    BY <1>0, <1>5, <2>1, <2>2, MoveIs
<1>7. CASE ReorderWrite(r)
  <2>1. job[r].order \in Ordering
    BY <1>7, JobCases DEF CanvasInv, ReorderWrite, ReorderJob
  <2> QED
    BY <1>0, <1>5, <1>7, <2>1, ReorderIs DEF ReorderWrite
<1> QED
  BY <1>1, <1>2, <1>3, <1>4, <1>6, <1>7

LEMMA SuggestionMoves ==
  ASSUME CanvasInv, [Next]_vars, NEW s \in Suggestions
  PROVE  \/ Stays(s) \/ Dropped(s) \/ Created(s) \/ Withdrawn(s)
         \/ \E r \in Requests : Settles(r, s)
<1>1. CASE UNCHANGED rows
  BY <1>1 DEF rows, Stays, MadeFrom, Exists
<1>2. CASE DropDay
  BY <1>2, DropDayMoves
<1>3. ASSUME ~UNCHANGED rows, NEW r \in Requests,
             AddWrite(r) \/ EditWrite(r) \/ DeleteCommit(r) \/ RestoreBlock(r) \/ MoveWrite(r)
               \/ ReorderWrite(r) \/ ExpenseWrite(r) \/ CreateSuggestion(r) \/ ReviewWrite(r)
               \/ Withdraw(r)
      PROVE  Stays(s) \/ Created(s) \/ Withdrawn(s) \/ Settles(r, s)
  <2>1. ~Fails(r)
    BY <1>3, FailsWritesNothing
  <2>2. CASE ExpenseWrite(r)
    BY <2>1, <2>2 DEF ExpenseWrite, Stays, MadeFrom, Exists
  <2> QED
    BY <1>3, <2>1, <2>2, BlockMoves, CreateMoves, WithdrawMoves, ReviewMoves
<1> QED
  BY <1>1, <1>2, <1>3, Writers

LEMMA PointersStart == Init => PointersRight
<1> SUFFICES ASSUME Init, NEW s \in Suggestions PROVE Pointed(s) = None /\ MadeFrom(s) = {}
  BY DEF PointersRight
<1>1. suggestion[s] = NoSuggestion /\ \A b \in Blocks : ~Exists(b)
  BY DEF Init, Exists
<1> QED
  BY <1>1 DEF Pointed, MadeFrom

LEMMA PointersStep == CanvasInv /\ PointersRight /\ [Next]_vars => PointersRight'
<1> SUFFICES ASSUME CanvasInv, PointersRight, [Next]_vars, NEW s \in Suggestions
             PROVE  /\ Pointed(s)' # None => Pointed(s)' \in MadeFrom(s)'
                    /\ suggestion'[s].status \in {"none", "PENDING"} => MadeFrom(s)' = {}
  BY DEF PointersRight
<1>1. /\ Pointed(s) # None => Pointed(s) \in MadeFrom(s)
      /\ suggestion[s].status \in {"none", "PENDING"} => MadeFrom(s) = {}
  BY DEF PointersRight
<1>2. CASE Stays(s)
  <2>1. Pointed(s)' = Pointed(s)
    BY <1>2 DEF Stays, Pointed
  <2> QED
    BY <1>1, <1>2, <2>1 DEF Stays
<1>3. CASE Dropped(s)
  BY <1>1, <1>3 DEF Dropped
<1>4. CASE Created(s)
  BY <1>1, <1>4, SuggestionKinds DEF Created
<1>5. CASE Withdrawn(s)
  BY <1>1, <1>5 DEF Withdrawn
<1>6. ASSUME NEW r \in Requests, Settles(r, s)
      PROVE  /\ Pointed(s)' # None => Pointed(s)' \in MadeFrom(s)'
             /\ suggestion'[s].status \notin {"none", "PENDING"}
  BY <1>6 DEF Settles, Rejected, Accepted
<1> QED
  BY <1>2, <1>3, <1>4, <1>5, <1>6, SuggestionMoves

LEMMA PointersAlways == Spec => []PointersRight
BY PointersStart, PointersStep, CanvasAlways, PTL DEF Spec

LEMMA DecidedStep ==
  ASSUME CanvasInv, PointersRight, [Next]_vars, NEW s \in Suggestions,
         suggestion'[s].status # suggestion[s].status \/ Made(s) # {}
  PROVE  \/ /\ suggestion[s] = NoSuggestion /\ suggestion'[s].status = "PENDING"
            /\ Made(s) = {} /\ Pointed(s)' = None
         \/ /\ suggestion'[s].status = "WITHDRAWN"
            /\ Made(s) = {} /\ Pointed(s)' = Pointed(s)
         \/ \E r \in Requests : Reviewed(r, s)
<1>1. ~Stays(s)
  BY DEF Stays, Made
<1>2. ~Dropped(s)
  BY DEF Dropped, Made
<1>3. CASE Created(s)
  BY <1>3 DEF Created, Made
<1>4. CASE Withdrawn(s)
  BY <1>4 DEF Withdrawn, Made
<1>5. ASSUME NEW r \in Requests, Settles(r, s) PROVE Reviewed(r, s)
  <2>1. \/ suggestion'[s].status = "REJECTED" /\ Made(s) = {} /\ Pointed(s)' = None
        \/ suggestion'[s].status = "ACCEPTED" /\ Made(s) = {Pointed(s)'}
    BY <1>5 DEF Settles, Rejected, Accepted, Made
  <2>2. suggestion[s].status = "PENDING" => MadeFrom(s) = {}
    BY DEF PointersRight
  <2> QED
    BY <1>5, <2>1, <2>2 DEF Settles, Reviewed
<1> QED
  BY <1>1, <1>2, <1>3, <1>4, <1>5, SuggestionMoves

\* reviewSuggestion reads the status and writes it later without looking again:
\* a pointer is always to a block the suggestion made; a decision makes nothing or
\* the one block it points to, and is the first to do so unless the reviewer was
\* overtaken in between; nothing else but a withdrawal changes a status.
THEOREM CanvasDecided == Spec => DecidedOnce
<1>1. CanvasInv /\ PointersRight /\ PointersRight' /\ [Next]_vars
        => [\A s \in Suggestions :
              /\ Pointed(s)' # None => Pointed(s)' \in MadeFrom(s)'
              /\ suggestion'[s].status # suggestion[s].status \/ Made(s) # {} =>
                   \/ /\ suggestion[s] = NoSuggestion /\ suggestion'[s].status = "PENDING"
                      /\ Made(s) = {} /\ Pointed(s)' = None
                   \/ /\ suggestion'[s].status = "WITHDRAWN"
                      /\ Made(s) = {} /\ Pointed(s)' = Pointed(s)
                   \/ \E r \in Requests : Reviewed(r, s)]_vars
  <2> SUFFICES ASSUME CanvasInv, PointersRight, PointersRight', [Next]_vars, NEW s \in Suggestions
               PROVE  /\ Pointed(s)' # None => Pointed(s)' \in MadeFrom(s)'
                      /\ suggestion'[s].status # suggestion[s].status \/ Made(s) # {} =>
                           \/ /\ suggestion[s] = NoSuggestion /\ suggestion'[s].status = "PENDING"
                              /\ Made(s) = {} /\ Pointed(s)' = None
                           \/ /\ suggestion'[s].status = "WITHDRAWN"
                              /\ Made(s) = {} /\ Pointed(s)' = Pointed(s)
                           \/ \E r \in Requests : Reviewed(r, s)
    OBVIOUS
  <2>1. Pointed(s)' # None => Pointed(s)' \in MadeFrom(s)'
    BY DEF PointersRight
  <2> QED
    BY <2>1, DecidedStep
<1> QED
  BY <1>1, CanvasAlways, PointersAlways, PTL DEF Spec, DecidedOnce

-----------------------------------------------------------------------------
(* The order of a day.                                                       *)

\* A block put in after all the others of its day ties with none.
LEMMA InsertSettled ==
  ASSUME CanvasInv, NEW e \in Days, NEW sort \in 1..MaxSort, NEW s \in Suggestions \cup {None},
         NEW b \in FreeIds, Insert(e, sort, s, b), Above(sort, e), NEW d \in Days, ~Tied(d)
  PROVE  ~Tied(d)'
<1>1. /\ b \in Blocks /\ row'[b].day = e /\ row'[b].sort = sort
      /\ \A c \in Blocks \ {b} : row'[c] = row[c]
  BY InsertIs
<1>2. ASSUME NEW c \in On(d)', c # b PROVE c \in On(d) /\ row'[c] = row[c]
  BY <1>1, <1>2 DEF On, Live
<1>3. b \in On(d)' => d = e
  BY <1>1 DEF On
<1>4. \A c \in On(e) : row[c].sort \in 1..MaxSort /\ row[c].sort < sort
  BY OnIs DEF Above, CanvasInv
<1>5. ASSUME NEW x \in On(d)', NEW y \in On(d)', x # y PROVE row'[x].sort # row'[y].sort
  <2>1. CASE x = b
    BY <1>1, <1>2, <1>3, <1>4, <1>5, <2>1
  <2>2. CASE y = b
    BY <1>1, <1>2, <1>3, <1>4, <1>5, <2>2
  <2>3. CASE x # b /\ y # b
    BY <1>2, <1>5, <2>3 DEF Tied
  <2> QED
    BY <2>1, <2>2, <2>3
<1> QED
  BY <1>5 DEF Tied

\* Blocks that an order lists get places of their own.
LEMMA PlacesDiffer ==
  ASSUME NEW order \in Ordering, NEW i \in DOMAIN order, NEW j \in DOMAIN order,
         order[i] # order[j]
  PROVE  LastAt(order, order[i]) # LastAt(order, order[j])
BY LastAtIs

LEMMA MoveSettled ==
  ASSUME CanvasInv, NEW r \in Requests, MoveWrite(r), ~Fails(r), ~job[r].overtaken,
         NEW d \in Days, ~Tied(d)
  PROVE  ~Tied(d)'
<1> DEFINE b == job[r].block
           e == job[r].day
           order == job[r].order
<1>1. row' = Sorted(IF Exists(b) THEN [row EXCEPT ![b].day = e] ELSE row, order)
  BY DEF MoveWrite
<1>2. b \in Blocks /\ e \in Days /\ order \in Ordering /\ job[r].do = "move"
  BY JobCases DEF CanvasInv, MoveWrite, MoveJob
<1>3. Live(b) /\ Lists(order, On(e) \cup {b})
  BY <1>2 DEF CanvasInv, Seen
<1> HIDE DEF b, e, order
<1>4. /\ SameBlocks
      /\ \A c \in Blocks : row[c] # NoBlock =>
           /\ row'[c].day = IF c = b THEN e ELSE row[c].day
           /\ (\E i \in DOMAIN order : order[i] = c) => row'[c].sort = LastAt(order, c)
           /\ ~(\E i \in DOMAIN order : order[i] = c) => row'[c].sort = row[c].sort
  <2>1. SameBlocks
    BY <1>1, <1>2, MoveIs
  <2>2. \A c \in Blocks : row[c] # NoBlock =>
          /\ row'[c].day = IF c = b THEN e ELSE row[c].day
          /\ (\E i \in DOMAIN order : order[i] = c) => row'[c].sort = LastAt(order, c)
          /\ ~(\E i \in DOMAIN order : order[i] = c) => row'[c].sort = row[c].sort
    BY <1>1, <1>2, MoveIs, ZenonT(40)
  <2> QED
    BY <2>1, <2>2
<1>5. ASSUME NEW c \in On(d)'
      PROVE  /\ c \in Blocks /\ row[c] # NoBlock /\ Live(c)
             /\ IF c = b THEN d = e ELSE c \in On(d)
  <2>1. c \in Blocks /\ ~row'[c].deleted /\ row'[c].day = d
    BY DEF On, Live
  <2>2. row[c] # NoBlock
    BY <1>4, <2>1, RowKinds DEF SameBlocks
  <2> QED
    BY <1>4, <2>1, <2>2 DEF SameBlocks, On, Live
<1>6. CASE d = e
  <2>1. ASSUME NEW c \in On(d)'
        PROVE  \E i \in DOMAIN order : order[i] = c /\ row'[c].sort = LastAt(order, c)
    <3>1. c \in On(e) \cup {b}
      BY <1>5, <1>6
    <3> QED
      BY <1>3, <1>4, <1>5, <3>1 DEF Lists
  <2>2. ASSUME NEW x \in On(d)', NEW y \in On(d)', x # y PROVE row'[x].sort # row'[y].sort
    <3>1. PICK i \in DOMAIN order : order[i] = x /\ row'[x].sort = LastAt(order, x)
      BY <2>1
    <3>2. PICK j \in DOMAIN order : order[j] = y /\ row'[y].sort = LastAt(order, y)
      BY <2>1
    <3> QED
      BY <1>2, <2>2, <3>1, <3>2, PlacesDiffer
  <2> QED
    BY <2>2 DEF Tied
<1>7. CASE d # e
  <2>1. ASSUME NEW c \in On(d)' PROVE c \in On(d) /\ row'[c].sort = row[c].sort
    <3>1. c \in On(d) /\ c # b
      BY <1>5, <1>7
    <3>2. c \notin On(e)
      BY <1>7, <3>1 DEF On
    <3>3. ~(\E i \in DOMAIN order : order[i] = c)
      BY <1>3, <3>1, <3>2 DEF Lists
    <3> QED
      BY <1>4, <1>5, <3>1, <3>3
  <2> QED
    BY <2>1 DEF Tied
<1> QED
  BY <1>6, <1>7

LEMMA ReorderSettled ==
  ASSUME CanvasInv, NEW r \in Requests, ReorderWrite(r), ~job[r].overtaken,
         ~RepeatsBlock(job[r].order), NEW d \in Days, ~Tied(d)
  PROVE  ~Tied(d)'
<1> DEFINE e == job[r].day
           order == job[r].order
<1>1. row' = Sorted(row, order)
  BY DEF ReorderWrite
<1>2. order \in Ordering /\ job[r].do = "reorder"
  BY JobCases DEF CanvasInv, ReorderWrite, ReorderJob
<1>3. Lists(order, On(e))
  BY <1>2 DEF CanvasInv, Seen
<1> HIDE DEF e, order
<1>4. /\ SameBlocks
      /\ \A c \in Blocks : row[c] # NoBlock =>
           /\ row'[c].day = row[c].day
           /\ (\E i \in DOMAIN order : order[i] = c) => row'[c].sort = LastAt(order, c)
           /\ ~(\E i \in DOMAIN order : order[i] = c) => row'[c] = row[c]
  BY <1>1, <1>2, ReorderIs
<1>5. ASSUME NEW c \in On(d)' PROVE c \in Blocks /\ row[c] # NoBlock /\ c \in On(d)
  <2>1. c \in Blocks /\ ~row'[c].deleted /\ row'[c].day = d
    BY DEF On, Live
  <2>2. row[c] # NoBlock
    BY <1>4, <2>1, RowKinds DEF SameBlocks
  <2> QED
    BY <1>4, <2>1, <2>2 DEF SameBlocks, On, Live
<1>6. CASE d = e
  <2>1. ASSUME NEW c \in On(d)'
        PROVE  \E i \in DOMAIN order : order[i] = c /\ row'[c].sort = LastAt(order, c)
    BY <1>3, <1>4, <1>5, <1>6 DEF Lists
  <2>2. ASSUME NEW x \in On(d)', NEW y \in On(d)', x # y PROVE row'[x].sort # row'[y].sort
    <3>1. PICK i \in DOMAIN order : order[i] = x /\ row'[x].sort = LastAt(order, x)
      BY <2>1
    <3>2. PICK j \in DOMAIN order : order[j] = y /\ row'[y].sort = LastAt(order, y)
      BY <2>1
    <3> QED
      BY <1>2, <2>2, <3>1, <3>2, PlacesDiffer
  <2> QED
    BY <2>2 DEF Tied
<1>7. CASE d # e
  <2>1. ASSUME NEW c \in On(d)' PROVE c \in On(d) /\ row'[c].sort = row[c].sort
    <3>1. c \in On(d) /\ c \notin On(e)
      BY <1>5, <1>7 DEF On
    <3>2. ~(\E i \in DOMAIN order : order[i] = c)
      BY <1>3, <3>1 DEF Lists
    <3> QED
      BY <1>4, <1>5, <3>1, <3>2
  <2> QED
    BY <2>1 DEF Tied
<1> QED
  BY <1>6, <1>7

LEMMA OrderStep ==
  ASSUME CanvasInv, CanvasInv', [Next]_vars, NEW d \in Days, ~Tied(d), Tied(d)'
  PROVE  \/ \E b \in Blocks : Exists(b) /\ ~Live(b) /\ Live(b)'
         \/ \E r \in Requests :
              /\ Finishes(r)
              /\ job[r].overtaken \/ (job[r].do = "reorder" /\ RepeatsBlock(job[r].order))
<1>1. ASSUME \A c \in On(d)' : c \in On(d) /\ row'[c].sort = row[c].sort PROVE FALSE
  BY <1>1 DEF Tied
<1>2. ASSUME UNCHANGED row PROVE FALSE
  BY <1>2 DEF Tied, On, Live
<1>3. ~UNCHANGED rows
  BY <1>2 DEF rows
<1>4. ASSUME DropDay PROVE FALSE
  <2>1. PICK e \in present :
          row' = [b \in Blocks |->
                    IF b \in {c \in Blocks : Exists(c) /\ row[c].day = e} THEN NoBlock ELSE row[b]]
    BY <1>4 DEF DropDay
  <2>2. \A c \in Blocks : row'[c] = NoBlock \/ row'[c] = row[c]
    BY <2>1
  <2>3. \A c \in On(d)' : c \in On(d) /\ row'[c].sort = row[c].sort
    BY <2>2, RowKinds DEF On, Live
  <2> QED
    BY <1>1, <2>3
<1>5. ASSUME NEW b \in Blocks, \A c \in Blocks \ {b} : row'[c] = row[c],
             row'[b].day = row[b].day, row'[b].sort = row[b].sort, Live(b)' => Live(b)
      PROVE  FALSE
  BY <1>1, <1>5 DEF On, Live
<1>6. ASSUME NEW r \in Requests, EditWrite(r) PROVE FALSE
  <2>1. ~Fails(r)
    BY <1>3, FailsWritesNothing
  <2> DEFINE b == job[r].block
  <2>2. b \in Blocks /\ row[b] \in BlockType /\ row[b].version < MaxVersion
    BY <1>6, <2>1, EditIs DEF EditJob
  <2>3. PICK t \in Texts : row' = Edited(b, t)
    BY <1>6, <2>1, EditIs
  <2> HIDE DEF b
  <2>4. /\ row'[b].day = row[b].day /\ row'[b].sort = row[b].sort
        /\ row'[b].deleted = row[b].deleted /\ \A c \in Blocks \ {b} : row'[c] = row[c]
    BY <2>2, <2>3, EditedIs
  <2>5. \A c \in On(d)' : c \in On(d) /\ row'[c].sort = row[c].sort
    BY <2>2, <2>4 DEF On, Live
  <2> QED
    BY <1>1, <2>5
<1>7. ASSUME NEW r \in Requests, DeleteCommit(r) PROVE FALSE
  <2> DEFINE b == job[r].block
  <2>1. b \in Blocks
    BY <1>7, JobCases DEF CanvasInv, DeleteCommit, DeleteJob
  <2>2. row'[b].deleted /\ \A c \in Blocks \ {b} : row'[c] = row[c]
    BY <1>7, <2>1, DeletedIs DEF DeleteCommit
  <2> HIDE DEF b
  <2>3. \A c \in On(d)' : c \in On(d) /\ row'[c].sort = row[c].sort
    BY <2>2 DEF On, Live
  <2> QED
    BY <1>1, <2>3
<1>8. ASSUME NEW r \in Requests, RestoreBlock(r)
      PROVE  \E b \in Blocks : Exists(b) /\ ~Live(b) /\ Live(b)'
  <2>1. PICK b \in Blocks : Exists(b) /\ row' = [row EXCEPT ![b].deleted = FALSE]
    BY <1>8 DEF RestoreBlock
  <2>2. /\ row'[b].day = row[b].day /\ row'[b].sort = row[b].sort
        /\ \A c \in Blocks \ {b} : row'[c] = row[c]
    BY <2>1, MarkedIs
  <2>3. ~row'[b].deleted
    BY <2>1, MarkedIs, Zenon
  <2>4. ~Live(b)
    BY <1>5, <2>2
  <2> QED
    BY <2>1, <2>3, <2>4 DEF Live
<1>9. ASSUME NEW r \in Requests, ~job[r].overtaken, NEW e \in Days, NEW sort \in 1..MaxSort,
             NEW s \in Suggestions \cup {None}, NEW b \in FreeIds, Insert(e, sort, s, b),
             job[r].overtaken \/ Above(sort, e)
      PROVE  FALSE
  BY <1>9, InsertSettled
<1>10. ASSUME NEW r \in Requests, AddWrite(r) PROVE Finishes(r) /\ job[r].overtaken
  <2>1. ~Fails(r)
    BY <1>3, FailsWritesNothing
  <2>2. PICK e \in Days, sort \in 1..MaxSort, b \in FreeIds :
          Insert(e, sort, None, b) /\ (job[r].overtaken \/ Above(sort, e)) /\ Commits(r)
    BY <1>10, <2>1, AddIs
  <2>3. job[r].overtaken
    BY <1>9, <2>2
  <2>4. Finishes(r)
    BY <1>10, <2>2, EndsIdle, IdleIs DEF Finishes, AddWrite
  <2> QED
    BY <2>3, <2>4
<1>11. ASSUME NEW r \in Requests, ReviewWrite(r) PROVE Finishes(r) /\ job[r].overtaken
  <2>1. ~Fails(r)
    BY <1>3, FailsWritesNothing
  <2>2. PICK s \in Suggestions :
          /\ Commits(r) /\ job[r].do = "review"
          /\ \/ UNCHANGED row
             \/ \E e \in Days, sort \in 1..MaxSort, b \in FreeIds :
                  Insert(e, sort, s, b) /\ (job[r].overtaken \/ Above(sort, e))
    BY <1>11, <2>1, ReviewIs
  <2>3. PICK e \in Days, sort \in 1..MaxSort, b \in FreeIds :
          Insert(e, sort, s, b) /\ (job[r].overtaken \/ Above(sort, e))
    BY <1>2, <2>2
  <2>4. job[r].overtaken
    BY <1>9, <2>3
  <2>5. Finishes(r)
    BY <2>2, EndsIdle, IdleIs DEF Finishes
  <2> QED
    BY <2>4, <2>5
<1>12. ASSUME NEW r \in Requests, MoveWrite(r) PROVE Finishes(r) /\ job[r].overtaken
  <2>1. ~Fails(r)
    BY <1>3, FailsWritesNothing
  <2>2. job[r].overtaken
    BY <1>12, <2>1, MoveSettled
  <2>3. Finishes(r)
    BY <1>12, <2>1, EndsIdle, IdleIs DEF Finishes, MoveWrite
  <2> QED
    BY <2>2, <2>3
<1>13. ASSUME NEW r \in Requests, ReorderWrite(r)
       PROVE  /\ Finishes(r)
              /\ job[r].overtaken \/ (job[r].do = "reorder" /\ RepeatsBlock(job[r].order))
  <2>1. job[r].overtaken \/ RepeatsBlock(job[r].order)
    BY <1>13, ReorderSettled
  <2>2. Finishes(r) /\ job[r].do = "reorder"
    BY <1>13, EndsIdle, IdleIs DEF Finishes, ReorderWrite
  <2> QED
    BY <2>1, <2>2
<1>14. ASSUME NEW r \in Requests, ExpenseWrite(r) \/ CreateSuggestion(r) \/ Withdraw(r)
       PROVE  FALSE
  <2>1. UNCHANGED row
    BY <1>14 DEF ExpenseWrite, CreateSuggestion, Withdraw, Fails, rows
  <2> QED
    BY <1>2, <2>1
<1> QED
  BY <1>3, <1>4, <1>6, <1>7, <1>8, <1>10, <1>11, <1>12, <1>13, <1>14, Writers

\* sort_order is unique by nobody's care but the writers': addBlock, moveBlock,
\* reorderBlocks and an accepted suggestion each leave a settled day settled,
\* unless overtaken (or told one block twice); restoreBlock does not look.
THEOREM CanvasOrder == Spec => OrderSettled
<1>1. CanvasInv /\ CanvasInv' /\ [Next]_vars
        => [\A d \in Days : ~Tied(d) /\ Tied(d)' =>
              \/ \E b \in Blocks : Exists(b) /\ ~Live(b) /\ Live(b)'
              \/ \E r \in Requests :
                   /\ Finishes(r)
                   /\ job[r].overtaken
                        \/ (job[r].do = "reorder" /\ RepeatsBlock(job[r].order))]_vars
  BY OrderStep
<1> QED
  BY <1>1, CanvasAlways, PTL DEF Spec, OrderSettled
=============================================================================
