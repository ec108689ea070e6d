-------------------------- MODULE DayNumbersProofs --------------------------
(***************************************************************************)
(* Theorems about DayNumbers for every set of days and requests and every  *)
(* limit.                                                                  *)
(*                                                                         *)
(* A step of a request looks (it reads, takes the lock or matches rows),   *)
(* commits or aborts; StepKinds says so once, and each invariant is proved *)
(* by these three cases.  What contiguity needs of a commit is that the    *)
(* new numbers are distinct and are exactly 1 to some m: Fills turns that  *)
(* into a statement about the number of days.                              *)
(***************************************************************************)
EXTENDS DayNumbers, FiniteSetTheorems, FunctionTheorems, WellFoundedInduction, TLAPS

(* Counting. *)

\* A non-empty set of positions in a list has a last one.
LEMMA LastOf ==
  ASSUME NEW n \in Nat, NEW T, T \subseteq 1 .. n, T # {}
  PROVE  \E i \in T : \A j \in T : j <= i
<1> DEFINE Later(i) == {j \in T : j > i}
           F == {Later(i) : i \in T}
           R == StrictSubsetOrdering(1 .. n)
<1>1. F \subseteq FiniteSubsetsOf(1 .. n) /\ F # {}
  <2>1. ASSUME NEW i \in T PROVE Later(i) \in SUBSET (1 .. n) /\ IsFiniteSet(Later(i))
    <3>1. Later(i) \in SUBSET (1 .. n)
      OBVIOUS
    <3>2. IsFiniteSet(1 .. n)
      BY FS_Interval
    <3> HIDE DEF Later
    <3> QED
      BY <3>1, <3>2, FS_Subset
  <2> QED
    BY <2>1 DEF FiniteSubsetsOf
<1>2. IsWellFoundedOn(R, FiniteSubsetsOf(1 .. n))
  BY FS_StrictSubsetOrderingWellFounded
<1>3. \E x \in F : \A y \in F : ~ (<<y, x>> \in R)
  <2> HIDE DEF F, R
  <2> QED
    BY <1>1, <1>2, WFMin
<1>4. PICK i \in T : \A k \in T : ~ (<<Later(k), Later(i)>> \in R)
  BY <1>3
<1>5. \A j \in T : j <= i
  <2> SUFFICES ASSUME NEW j \in T, j > i PROVE FALSE
    OBVIOUS
  <2>1. T \subseteq Int
    OBVIOUS
  <2>2. j \in Later(i) /\ j \notin Later(j)
    BY <2>1
  <2>3. \A k \in T : k > j => k > i
    BY <2>1
  <2>4. Later(j) \subseteq Later(i)
    BY <2>3
  <2> QED
    BY <2>2, <2>4, <1>4 DEF StrictSubsetOrdering
<1> QED
  BY <1>5

With(f) == {d \in DayIds : f[d] # 0}
Numbers(f) == {f[d] : d \in With(f)}

LEMMA WithFinite == ASSUME NEW f PROVE IsFiniteSet(With(f)) /\ Cardinality(With(f)) \in Nat
<1>1. With(f) \in SUBSET DayIds
  BY DEF With
<1> QED
  BY <1>1, FiniteAssumption, FS_Subset, FS_CardinalityType

\* Distinct numbers are as many as the days that have one.
LEMMA CountNumbers ==
  ASSUME NEW f \in [DayIds -> Nat], Distinct(f)
  PROVE  IsFiniteSet(Numbers(f)) /\ Cardinality(Numbers(f)) = Cardinality(With(f))
<1> DEFINE g == [d \in With(f) |-> f[d]]
<1>1. g \in Bijection(With(f), Numbers(f))
  <2>1. g \in [With(f) -> Numbers(f)]
    BY DEF Numbers
  <2>2. \A d, e \in With(f) : g[d] = g[e] => d = e
    BY DEF With, Distinct
  <2>3. \A v \in Numbers(f) : \E d \in With(f) : g[d] = v
    BY DEF Numbers
  <2> QED
    BY <2>1, <2>2, <2>3 DEF Bijection, Injection, Surjection, IsInjective
<1>2. ExistsBijection(With(f), Numbers(f))
  BY <1>1 DEF ExistsBijection
<1> QED
  BY <1>2, WithFinite, FS_Bijection

\* Distinct numbers that are exactly 1 to m number m days.
LEMMA Fills ==
  ASSUME NEW f \in [DayIds -> Nat], Distinct(f), NEW m \in Nat,
         \A d \in DayIds : f[d] <= m,
         \A v \in 1 .. m : \E d \in DayIds : f[d] = v
  PROVE  Numbers(f) = 1 .. m /\ Cardinality(With(f)) = m
<1>1. Numbers(f) = 1 .. m
  BY DEF Numbers, With
<1> QED
  BY <1>1, CountNumbers, FS_Interval

\* Distinct numbers of n days that do not exceed n leave no gap.
LEMMA FillsByCounting ==
  ASSUME NEW f \in [DayIds -> Nat], Distinct(f),
         \A d \in DayIds : f[d] <= Cardinality(With(f))
  PROVE  Numbers(f) = 1 .. Cardinality(With(f))
<1> DEFINE n == Cardinality(With(f))
<1>1. n \in Nat
  BY WithFinite
<1>2. Numbers(f) \in SUBSET (1 .. n)
  <2> HIDE DEF n
  <2> SUFFICES ASSUME NEW d \in With(f) PROVE f[d] \in 1 .. n
    BY DEF Numbers
  <2>1. f[d] \in Nat /\ f[d] # 0
    BY DEF With
  <2>2. f[d] <= n
    BY DEF With, n
  <2> QED
    BY <2>1, <2>2, <1>1
<1>3. IsFiniteSet(1 .. n) /\ Cardinality(1 .. n) = n
  BY <1>1, FS_Interval
<1>4. Cardinality(Numbers(f)) = n
  BY CountNumbers
<1> HIDE DEF n
<1>5. Numbers(f) = 1 .. n
  BY <1>2, <1>3, <1>4, FS_Subset
<1> QED
  BY <1>5 DEF n

LEMMA PresentIsWith == Present = With(number) /\ Count = Cardinality(With(number)) /\ Count \in Nat
<1>1. Present = With(number)
  BY DEF Present, With
<1> QED
  BY <1>1, WithFinite DEF Count

LEMMA ContiguousNumbers ==
  Contiguous <=> Distinct(number) /\ Numbers(number) = 1 .. Count
BY PresentIsWith DEF Contiguous, Numbers

-----------------------------------------------------------------------------
(* The three kinds of step. *)

\* What the handlers establish about a job while they run.
JobOK(j) ==
  /\ j.op = "reorder" => j.order \in [1 .. Cardinality(j.rows) -> j.rows]
  /\ j.op = "extend" => j.count < j.at

\* The lock belongs to the locking request whose statement has run.
Holds(j) == j.op \in Locking /\ j.step = "matched"

IInv ==
  /\ TypeOK
  /\ \A r \in Requests : JobOK(job[r])
  /\ \A r \in Requests : lock = r <=> Holds(job[r])

Looked(r) ==
  /\ UNCHANGED <<number, drifted>>
  /\ \E j \in JobType :
       /\ JobOK(j)
       /\ job' = [job EXCEPT ![r] = j]
       /\ \/ NoLock /\ lock # r /\ ~Holds(j)
          \/ TakeLock(r) /\ Holds(j) /\ StillHolds(j)

Committed(r) == number' \in [DayIds -> Nat] /\ Commit(r, number')

LEMMA IdleType == Idle \in JobType /\ JobOK(Idle) /\ ~Holds(Idle)
  BY DEF Idle, JobType, JobOK, Holds, Locking, Operations, DateChanges

LEMMA JobFields ==
  ASSUME TypeOK, NEW r \in Requests
  PROVE  /\ job[r] \in JobType
         /\ job[r].op \in Operations \cup {"none"}
         /\ job[r].day \in DayIds \cup {NoDay}
         /\ job[r].at \in Nat /\ job[r].count \in Nat
         /\ job[r].rows \in SUBSET DayIds
         /\ number \in [DayIds -> Nat]
  BY DEF TypeOK, JobType

\* A request that begins reads and, adding a day, takes the lock at once.
LEMMA BeginLooks ==
  ASSUME IInv, NEW r \in Requests, NEW op, NEW step, NEW j, Begin(r, op, step, j),
         [j EXCEPT !.op = op, !.step = step] \in JobType,
         JobOK([j EXCEPT !.op = op, !.step = step]),
         NoLock, ~Holds([j EXCEPT !.op = op, !.step = step])
  PROVE  Looked(r)
<1>1. lock # r
  BY IdleType DEF Begin, IInv
<1> QED
  BY <1>1 DEF Begin, Looked

LEMMA AboveType == ASSUME NEW n PROVE Above(n) \in SUBSET DayIds /\ Above(n) \subseteq Present
  BY DEF Above, Present

LEMMA AddLooks ==
  ASSUME IInv, NEW r \in Requests, AddLockAndCount(r)
  PROVE  Looked(r)
<1> DEFINE j == [Idle EXCEPT !.op = "add", !.step = "matched", !.count = Count]
<1>1. j \in JobType /\ JobOK(j) /\ Holds(j)
  BY IdleType, PresentIsWith DEF Idle, JobType, JobOK, Holds, Locking, Operations
<1>2. StillHolds(j)
  BY DEF StillHolds, Idle
<1>3. job' = [job EXCEPT ![r] = j] /\ UNCHANGED <<number, drifted>> /\ TakeLock(r)
  BY DEF AddLockAndCount, Begin, Idle
<1> QED
  BY <1>1, <1>2, <1>3 DEF Looked

LEMMA DayReadLooks ==
  ASSUME IInv, NEW r \in Requests, NEW d \in DayIds, DeleteRead(r, d) \/ DuplicateRead(r, d)
  PROVE  Looked(r)
<1>1. PICK op \in {"delete", "duplicate"} :
        Begin(r, op, "read", [Idle EXCEPT !.day = d, !.at = number[d]]) /\ NoLock
  BY DEF DeleteRead, DuplicateRead
<1> DEFINE j == [[Idle EXCEPT !.day = d, !.at = number[d]] EXCEPT !.op = op, !.step = "read"]
<1>2. number[d] \in Nat
  BY DEF IInv, TypeOK
<1>3. j \in JobType /\ JobOK(j) /\ ~Holds(j)
  BY <1>2, IdleType DEF Idle, JobType, JobOK, Holds, Operations, Locking
<1> QED
  BY <1>1, <1>3, BeginLooks

LEMMA DayMatchLooks ==
  ASSUME IInv, NEW r \in Requests, DeleteLockAndMatch(r) \/ DuplicateLockAndMatch(r)
  PROVE  Looked(r)
<1> DEFINE Matched(rows) == [job[r] EXCEPT !.step = "matched", !.rows = rows]
<1>0. job[r] \in JobType
  BY JobFields DEF IInv
<1>1. CASE DeleteLockAndMatch(r)
  <2> DEFINE j == Matched(Above(job[r].at) \ {job[r].day})
  <2>1. j \in JobType /\ JobOK(j) /\ Holds(j) /\ StillHolds(j)
    BY <1>0, <1>1, AboveType
       DEF DeleteLockAndMatch, At, JobType, JobOK, Holds, Locking, StillHolds
  <2>2. /\ job' = [job EXCEPT ![r] = j]
        /\ UNCHANGED <<number, drifted>> /\ TakeLock(r)
    BY <1>0, <1>1 DEF DeleteLockAndMatch, IInv, TypeOK
  <2> QED
    BY <2>1, <2>2 DEF Looked
<1>2. CASE DuplicateLockAndMatch(r)
  <2> DEFINE j == Matched(Above(job[r].at))
  <2>1. j \in JobType /\ JobOK(j) /\ Holds(j) /\ StillHolds(j)
    BY <1>0, <1>2, AboveType
       DEF DuplicateLockAndMatch, At, JobType, JobOK, Holds, Locking, StillHolds
  <2>2. /\ job' = [job EXCEPT ![r] = j]
        /\ UNCHANGED <<number, drifted>> /\ TakeLock(r)
    BY <1>0, <1>2 DEF DuplicateLockAndMatch, IInv, TypeOK
  <2> QED
    BY <2>1, <2>2 DEF Looked
<1> QED
  BY <1>1, <1>2

LEMMA ReorderLooks ==
  ASSUME IInv, NEW r \in Requests, NEW order, ReorderRead(r, order)
  PROVE  Looked(r)
<1> DEFINE j == [[Idle EXCEPT !.rows = Present, !.order = order]
                   EXCEPT !.op = "reorder", !.step = "read"]
<1>1. order \in [1 .. Cardinality(Present) -> Present] /\ Cardinality(Present) \in Nat
  BY PresentIsWith DEF ReorderRead, Count
<1>2. order \in Seq(DayIds) /\ Present \in SUBSET DayIds
  <2>1. Present \in SUBSET DayIds
    BY DEF Present
  <2>2. \A n \in Nat : order \in [1 .. n -> DayIds] => order \in Seq(DayIds)
    OBVIOUS
  <2>3. order \in [1 .. Cardinality(Present) -> DayIds]
    BY <1>1, <2>1
  <2> QED
    BY <1>1, <2>1, <2>2, <2>3
<1>3. j \in JobType /\ JobOK(j) /\ ~Holds(j)
  BY <1>1, <1>2, IdleType DEF Idle, JobType, JobOK, Holds, Operations, Locking
<1>4. Begin(r, "reorder", "read", [Idle EXCEPT !.rows = Present, !.order = order]) /\ NoLock
  BY DEF ReorderRead
<1> QED
  BY <1>3, <1>4, BeginLooks

LEMMA DateChangeLooks ==
  ASSUME IInv, NEW r \in Requests, NEW op \in DateChanges, NEW length \in Lengths,
         DateChangeRead(r, op, length)
  PROVE  Looked(r)
<1> DEFINE counted == IF op = "extend" THEN Count ELSE 0
           j == [[Idle EXCEPT !.at = length, !.count = counted] EXCEPT !.op = op, !.step = "read"]
<1>1. length \in Nat /\ counted \in Nat
  BY ConstantsAssumption, PresentIsWith
<1>2. op = "extend" => counted < length
  BY <1>1 DEF DateChangeRead
<1>3. j \in JobType /\ JobOK(j) /\ ~Holds(j)
  BY <1>1, <1>2, IdleType DEF Idle, JobType, JobOK, Holds, Operations, Locking, DateChanges
<1>4. Begin(r, op, "read", [Idle EXCEPT !.at = length, !.count = counted]) /\ NoLock
  BY DEF DateChangeRead
<1> HIDE DEF counted
<1> QED
  BY <1>3, <1>4, BeginLooks

LEMMA TruncateLooks ==
  ASSUME IInv, NEW r \in Requests, TruncateMatch(r)
  PROVE  Looked(r)
<1> DEFINE j == [job[r] EXCEPT !.step = "matched", !.rows = Above(job[r].at)]
<1>1. job[r] \in JobType
  BY JobFields DEF IInv
<1>2. j \in JobType /\ JobOK(j) /\ ~Holds(j)
  BY <1>1, AboveType DEF TruncateMatch, At, JobType, JobOK, Holds, Locking
<1>3. lock # r
  BY DEF IInv, Holds, TruncateMatch, At, Locking
<1>4. job' = [job EXCEPT ![r] = j] /\ UNCHANGED <<number, drifted>> /\ NoLock
  BY <1>1 DEF TruncateMatch, IInv, TypeOK
<1> QED
  BY <1>2, <1>3, <1>4 DEF Looked

\* The numbers a commit writes are numbers.
LEMMA AddCommits ==
  ASSUME IInv, NEW r \in Requests, NEW d \in DayIds, AddCommit(r, d)
  PROVE  Committed(r) /\ number' = [number EXCEPT ![d] = job[r].count + 1]
<1>1. number' = [number EXCEPT ![d] = job[r].count + 1] /\ Commit(r, number')
  BY DEF AddCommit, Commit
<1> QED
  BY <1>1, JobFields DEF Committed, IInv

LEMMA DeleteCommits ==
  ASSUME IInv, NEW r \in Requests, DeleteCommit(r)
  PROVE  Committed(r) /\ number' = ClosedUp(job[r].day, job[r].at, job[r].rows)
<1>1. number' = ClosedUp(job[r].day, job[r].at, job[r].rows) /\ Commit(r, number')
  BY DEF DeleteCommit, Commit
<1>2. job[r].at \in Nat /\ number \in [DayIds -> Nat]
  BY JobFields DEF IInv
<1> QED
  BY <1>1, <1>2 DEF Committed, ClosedUp

LEMMA DuplicateCommits ==
  ASSUME IInv, NEW r \in Requests, NEW d \in DayIds, DuplicateCommit(r, d)
  PROVE  /\ Committed(r)
         /\ number' = [OpenedUp(job[r].at, job[r].rows) EXCEPT ![d] = job[r].at + 1]
<1>1. /\ number' = [OpenedUp(job[r].at, job[r].rows) EXCEPT ![d] = job[r].at + 1]
      /\ Commit(r, number')
  BY DEF DuplicateCommit, Commit
<1>2. job[r].at \in Nat /\ number \in [DayIds -> Nat]
  BY JobFields DEF IInv
<1>3. OpenedUp(job[r].at, job[r].rows) \in [DayIds -> Nat]
  BY <1>2 DEF OpenedUp
<1> QED
  BY <1>1, <1>2, <1>3 DEF Committed

\* A day named in a list has a place in it.
LEMMA PlaceOf ==
  ASSUME NEW n \in Nat, NEW S, NEW order \in [1 .. n -> S],
         NEW d, d \in {order[i] : i \in DOMAIN order}
  PROVE  Place(order, d) \in 1 .. n
<1> DEFINE T == {i \in 1 .. n : order[i] = d}
<1>1. T \subseteq 1 .. n /\ T # {}
  OBVIOUS
<1>2. PICK i \in T : \A k \in T : k <= i
  BY <1>1, LastOf
<1>3. \E k \in DOMAIN order : order[k] = d /\ \A l \in DOMAIN order : order[l] = d => l <= k
  BY <1>2
<1>4. Place(order, d) \in DOMAIN order
  BY <1>3 DEF Place
<1> QED
  BY <1>4

LEMMA ReorderCommits ==
  ASSUME IInv, NEW r \in Requests, ReorderCommit(r)
  PROVE  Committed(r) /\ number' = Listed(job[r].order)
<1> DEFINE order == job[r].order
           n == Cardinality(job[r].rows)
<1>1. number' = Listed(order) /\ Commit(r, number')
  BY DEF ReorderCommit, Commit
<1>2. job[r].rows \in SUBSET DayIds /\ number \in [DayIds -> Nat]
  BY JobFields DEF IInv
<1>3. order \in [1 .. n -> job[r].rows] /\ n \in Nat
  BY <1>2, FiniteAssumption, FS_Subset, FS_CardinalityType DEF IInv, JobOK, ReorderCommit, At
<1> HIDE DEF order, n
<1>4. ASSUME NEW d \in {order[i] : i \in DOMAIN order} PROVE Place(order, d) \in Nat
  <2>1. Place(order, d) \in 1 .. n
    BY <1>3, PlaceOf
  <2> QED
    BY <2>1, <1>3
<1>5. Listed(order) \in [DayIds -> Nat]
  BY <1>2, <1>4 DEF Listed
<1> QED
  BY <1>1, <1>5 DEF Committed, order

LEMMA TruncateCommits ==
  ASSUME IInv, NEW r \in Requests, TruncateCommit(r)
  PROVE  Committed(r) /\ number' = CutOff(job[r].at, job[r].rows)
<1>1. number' = CutOff(job[r].at, job[r].rows) /\ Commit(r, number')
  BY DEF TruncateCommit, Commit
<1> QED
  BY <1>1, JobFields DEF Committed, CutOff, IInv

\* The numbers after an extension with the given new rows.
Extended(new) ==
  [d \in DayIds |-> IF \E i \in DOMAIN new : new[i] = d
                    THEN CHOOSE i \in DOMAIN new : new[i] = d ELSE number[d]]

LEMMA ExtendCommits ==
  ASSUME IInv, NEW r \in Requests, ExtendCommit(r)
  PROVE  /\ Committed(r)
         /\ \E new \in [job[r].count + 1 .. job[r].at -> Unused] :
              /\ \A i, j \in DOMAIN new : i # j => new[i] # new[j]
              /\ number' = Extended(new)
<1>1. PICK new \in [job[r].count + 1 .. job[r].at -> Unused] :
             /\ \A i, j \in DOMAIN new : i # j => new[i] # new[j]
             /\ Commit(r, Extended(new))
  BY DEF ExtendCommit, Extended
<1>2. job[r].count \in Nat /\ job[r].at \in Nat /\ number \in [DayIds -> Nat]
  BY JobFields DEF IInv
<1>3. Extended(new) \in [DayIds -> Nat]
  <2> SUFFICES ASSUME NEW d \in DayIds PROVE Extended(new)[d] \in Nat
    BY DEF Extended
  <2>1. CASE \E i \in DOMAIN new : new[i] = d
    BY <1>2, <2>1 DEF Extended
  <2>2. CASE ~ \E i \in DOMAIN new : new[i] = d
    BY <1>2, <2>2 DEF Extended
  <2> QED
    BY <2>1, <2>2
<1>4. number' = Extended(new) /\ Commit(r, number')
  BY <1>1 DEF Commit
<1> QED
  BY <1>1, <1>3, <1>4 DEF Committed

LEMMA StepKinds ==
  ASSUME IInv, Next
  PROVE  \E r \in Requests : Looked(r) \/ Committed(r) \/ Abort(r)
<1>1. PICK r \in Requests :
        Add(r) \/ Delete(r) \/ Duplicate(r) \/ Reorder(r) \/ ChangeDates(r) \/ Abort(r)
  BY DEF Next
<1>2. CASE Add(r)
  BY <1>2, AddLooks, AddCommits DEF Add
<1>3. CASE Delete(r)
  BY <1>3, DayReadLooks, DayMatchLooks, DeleteCommits DEF Delete
<1>4. CASE Duplicate(r)
  BY <1>4, DayReadLooks, DayMatchLooks, DuplicateCommits DEF Duplicate
<1>5. CASE Reorder(r)
  BY <1>5, ReorderLooks, ReorderCommits DEF Reorder
<1>6. CASE ChangeDates(r)
  BY <1>6, DateChangeLooks, TruncateLooks, TruncateCommits, ExtendCommits DEF ChangeDates
<1> QED
  BY <1>1, <1>2, <1>3, <1>4, <1>5, <1>6

-----------------------------------------------------------------------------
(* The inductive invariant. *)

\* What a commit leaves of the other requests' jobs.
LEMMA CommitJobs ==
  ASSUME IInv, NEW r \in Requests, Committed(r), NEW s \in Requests
  PROVE  /\ job'[s] \in JobType /\ JobOK(job'[s])
         /\ Holds(job'[s]) <=> s # r /\ Holds(job[s])
         /\ s # r => \A f \in {"op", "step", "day", "at", "count", "rows"} : job'[s][f] = job[s][f]
         /\ job' \in [Requests -> JobType]
<1>1. ASSUME NEW q \in Requests
      PROVE  job'[q] \in JobType
  <2>1. CASE q = r
    BY <2>1, IdleType DEF Committed, Commit
  <2>2. CASE q # r
    <3>1. job[q] \in JobType
      BY JobFields DEF IInv
    <3>2. PICK agrees \in BOOLEAN : job'[q] = [job[q] EXCEPT !.current = @ /\ agrees]
      BY <2>2 DEF Committed, Commit
    <3>3. (job[q].current /\ agrees) \in BOOLEAN
      BY <3>1 DEF JobType
    <3> QED
      BY <3>1, <3>2, <3>3 DEF JobType
  <2> QED
    BY <2>1, <2>2
<1>2. job' \in [Requests -> JobType]
  BY <1>1 DEF Committed, Commit
<1>3. CASE s = r
  BY <1>1, <1>2, <1>3, IdleType DEF Committed, Commit
<1>4. CASE s # r
  <2>1. job'[s] = [job[s] EXCEPT !.current = job'[s].current]
    BY <1>4, JobFields DEF Committed, Commit, IInv, JobType
  <2>2. job[s] \in JobType /\ JobOK(job[s])
    BY JobFields DEF IInv
  <2> QED
    BY <1>1, <1>2, <1>4, <2>1, <2>2 DEF JobType, JobOK, Holds
<1> QED
  BY <1>3, <1>4

LEMMA InitIInv == Init => IInv
<1> SUFFICES ASSUME Init PROVE IInv
  OBVIOUS
<1>1. Cardinality(DayIds) \in Nat
  BY FiniteAssumption, FS_CardinalityType
<1>2. TypeOK
  <2>1. number \in [DayIds -> Nat]
    BY <1>1 DEF Init
  <2>2. job \in [Requests -> JobType]
    BY IdleType DEF Init
  <2> QED
    BY <2>1, <2>2 DEF Init, TypeOK
<1> QED
  BY <1>2, IdleType, ConstantsAssumption DEF Init, IInv

LEMMA StepIInv == IInv /\ [Next]_vars => IInv'
<1> SUFFICES ASSUME IInv, [Next]_vars PROVE IInv'
  OBVIOUS
<1>1. CASE UNCHANGED vars
  BY <1>1 DEF IInv, TypeOK, vars
<1>2. CASE Next
  <2>1. PICK r \in Requests : Looked(r) \/ Committed(r) \/ Abort(r)
    BY <1>2, StepKinds
  <2>2. CASE Looked(r)
    <3>1. PICK j \in JobType :
            /\ JobOK(j)
            /\ job' = [job EXCEPT ![r] = j]
            /\ \/ NoLock /\ lock # r /\ ~Holds(j)
               \/ TakeLock(r) /\ Holds(j) /\ StillHolds(j)
      BY <2>2 DEF Looked
    <3>2. job' \in [Requests -> JobType] /\ \A s \in Requests : JobOK(job'[s])
      BY <3>1 DEF IInv, TypeOK
    <3>3. \A s \in Requests : lock' = s <=> Holds(job'[s])
      BY <3>1, ConstantsAssumption DEF IInv, TypeOK, NoLock, TakeLock
    <3>4. TypeOK'
      BY <2>2, <3>1, <3>2 DEF Looked, IInv, TypeOK, NoLock, TakeLock
    <3> QED
      BY <3>2, <3>3, <3>4 DEF IInv
  <2>3. CASE Committed(r)
    <3>1. /\ job' \in [Requests -> JobType]
          /\ \A s \in Requests : JobOK(job'[s])
          /\ \A s \in Requests : Holds(job'[s]) <=> s # r /\ Holds(job[s])
      BY <2>3, CommitJobs
    <3>2. lock' = IF lock = r THEN NoRequest ELSE lock
      BY <2>3 DEF Committed, Commit
    <3>3. \A s \in Requests : lock' = s <=> Holds(job'[s])
      BY <3>1, <3>2, ConstantsAssumption DEF IInv
    <3>4. TypeOK'
      <4>1. raced' \in BOOLEAN /\ drifted' \in BOOLEAN
        BY <2>3, Zenon DEF Committed, Commit
      <4> QED
        BY <2>3, <3>1, <3>2, <4>1 DEF Committed, IInv, TypeOK
    <3> QED
      BY <3>1, <3>3, <3>4 DEF IInv
  <2>4. CASE Abort(r)
    <3>1. job' = [job EXCEPT ![r] = Idle] /\ lock' = IF lock = r THEN NoRequest ELSE lock
      BY <2>4 DEF Abort
    <3>2. job' \in [Requests -> JobType] /\ \A s \in Requests : JobOK(job'[s])
      BY <3>1, IdleType DEF IInv, TypeOK
    <3>3. \A s \in Requests : lock' = s <=> Holds(job'[s])
      BY <3>1, IdleType, ConstantsAssumption DEF IInv, TypeOK
    <3>4. raced' \in BOOLEAN /\ drifted' \in BOOLEAN
      BY <2>4, Zenon DEF Abort, IInv, TypeOK
    <3> QED
      BY <2>4, <3>1, <3>2, <3>3, <3>4 DEF Abort, IInv, TypeOK
  <2> QED
    BY <2>1, <2>2, <2>3, <2>4
<1> QED
  BY <1>1, <1>2

\* The inductive invariant holds: well-typed rows and jobs, what the handlers
\* know of their own job, and the lock in the hands of the one locking request
\* whose statement has run.
THEOREM DaysInvariant == Spec => []IInv
<1> QED
  BY InitIInv, StepIInv, PTL DEF Spec

\* The rows, the lock and every request's job are well typed.
THEOREM DaysTypeOK == Spec => []TypeOK
<1>1. IInv => TypeOK
  BY DEF IInv
<1> QED
  BY <1>1, DaysInvariant, PTL

-----------------------------------------------------------------------------
(* What the lock protects. *)

\* A committed request that is not the one holding the lock takes none, and
\* does not extend: an extension waits for the lock.
LEMMA CommitBesidesLock ==
  ASSUME IInv, Next, lock # NoRequest, lock' = lock, number' # number
  PROVE  raced'
<1>1. PICK q \in Requests :
        Add(q) \/ Delete(q) \/ Duplicate(q) \/ Reorder(q) \/ ChangeDates(q) \/ Abort(q)
  BY DEF Next
<1>2. ASSUME Committed(q), job[q].op \in {"reorder", "truncate"}
      PROVE  raced'
  BY <1>2 DEF Committed, Commit
<1>3. ASSUME Committed(q), lock = q
      PROVE  FALSE
  BY <1>3, ConstantsAssumption DEF Committed, Commit
<1>4. ASSUME Looked(q) \/ Abort(q)
      PROVE  FALSE
  BY <1>4 DEF Looked, Abort
<1>5. CASE Add(q)
  BY <1>3, <1>4, <1>5, AddLooks, AddCommits DEF Add, AddCommit, At, IInv, Holds, Locking
<1>6. CASE Delete(q)
  BY <1>3, <1>4, <1>6, DayReadLooks, DayMatchLooks, DeleteCommits
     DEF Delete, DeleteCommit, At, IInv, Holds, Locking
<1>7. CASE Duplicate(q)
  BY <1>3, <1>4, <1>7, DayReadLooks, DayMatchLooks, DuplicateCommits
     DEF Duplicate, DuplicateCommit, At, IInv, Holds, Locking
<1>8. CASE Reorder(q)
  BY <1>2, <1>4, <1>8, ReorderLooks, ReorderCommits DEF Reorder, ReorderCommit, At
<1>9. CASE ChangeDates(q)
  <2>1. CASE ExtendCommit(q)
    BY <2>1 DEF ExtendCommit
  <2>2. CASE TruncateCommit(q)
    BY <1>2, <2>2, TruncateCommits DEF TruncateCommit, At
  <2> QED
    BY <1>4, <1>9, <2>1, <2>2, DateChangeLooks, TruncateLooks DEF ChangeDates
<1>10. CASE Abort(q)
  BY <1>4, <1>10
<1> QED
  BY <1>1, <1>5, <1>6, <1>7, <1>8, <1>9, <1>10

LEMMA SameHolds ==
  ASSUME NEW r, number' = number,
         job'[r].op = job[r].op, job'[r].day = job[r].day, job'[r].at = job[r].at,
         job'[r].count = job[r].count, job'[r].rows = job[r].rows,
         StillHolds(job[r])
  PROVE  StillHolds(job[r])'
<1>1. Present' = Present /\ Count' = Count
  BY DEF Present, Count
<1>2. \A n : Above(n)' = Above(n)
  BY <1>1 DEF Above
<1> QED
  BY <1>1, <1>2 DEF StillHolds

LEMMA StepLockProtects == IInv /\ LockProtects /\ [Next]_vars => LockProtects'
<1> SUFFICES ASSUME IInv, LockProtects, [Next]_vars, lock' # NoRequest, ~raced'
             PROVE  StillHolds(job[lock])'
  BY DEF LockProtects
<1>1. CASE UNCHANGED vars
  BY <1>1, SameHolds DEF vars, LockProtects
<1>2. CASE Next
  <2>1. PICK r \in Requests : Looked(r) \/ Committed(r) \/ Abort(r)
    BY <1>2, StepKinds
  <2>2. CASE Looked(r)
    <3>1. PICK j \in JobType :
            /\ job' = [job EXCEPT ![r] = j]
            /\ \/ NoLock /\ lock # r /\ ~Holds(j)
               \/ TakeLock(r) /\ Holds(j) /\ StillHolds(j)
      BY <2>2 DEF Looked
    <3>2. CASE NoLock /\ lock # r
      <4>1. lock \in Requests /\ lock' = lock /\ job'[lock] = job[lock] /\ number' = number
        BY <2>2, <3>1, <3>2 DEF IInv, TypeOK, NoLock, Looked
      <4>2. StillHolds(job[lock])
        BY <3>2, <4>1 DEF LockProtects, NoLock
      <4> QED
        BY <4>1, <4>2, SameHolds
    <3>3. CASE TakeLock(r) /\ StillHolds(j)
      <4>1. lock' = r /\ job'[r] = j /\ number' = number
        BY <2>2, <3>1, <3>3 DEF IInv, TypeOK, TakeLock, Looked
      <4>2. Present' = Present /\ Count' = Count
        BY <4>1 DEF Present, Count
      <4>3. \A n : Above(n)' = Above(n)
        BY <4>1, <4>2 DEF Above
      <4> QED
        BY <3>3, <4>1, <4>2, <4>3 DEF StillHolds
    <3> QED
      BY <3>1, <3>2, <3>3
  <2>3. CASE Committed(r)
    <3>1. lock # r /\ lock' = lock /\ lock \in Requests
      BY <2>3 DEF Committed, Commit, IInv, TypeOK
    <3>2. number' = number
      BY <1>2, <3>1, CommitBesidesLock
    <3>3. ~raced
      BY <2>3, Zenon DEF Committed, Commit
    <3>4. StillHolds(job[lock])
      BY <3>1, <3>3 DEF LockProtects
    <3>5. \A f \in {"op", "step", "day", "at", "count", "rows"} : job'[lock][f] = job[lock][f]
      BY <2>3, <3>1, CommitJobs
    <3> QED
      BY <3>1, <3>2, <3>4, <3>5, SameHolds
  <2>4. CASE Abort(r)
    <3>1. lock # r /\ lock' = lock /\ lock \in Requests /\ ~raced /\ number' = number
      BY <2>4 DEF Abort, IInv, TypeOK
    <3>2. job'[lock] = job[lock]
      BY <2>4, <3>1 DEF Abort, IInv, TypeOK
    <3>3. StillHolds(job[lock])
      BY <3>1 DEF LockProtects
    <3> QED
      BY <3>1, <3>2, <3>3, SameHolds
  <2> QED
    BY <2>1, <2>2, <2>3, <2>4
<1> QED
  BY <1>1, <1>2

\* LockProtects: under the variant's lock a count or a match stays true unless
\* a reorder or a truncation commits.
THEOREM DaysLockProtects == Spec => []LockProtects
<1>1. Init => LockProtects
  BY DEF Init, LockProtects
<1> QED
  BY <1>1, StepLockProtects, DaysInvariant, PTL DEF Spec

-----------------------------------------------------------------------------
(* The order of the days. *)

\* Distinct stays true: the deferred constraint is checked at every commit.
LEMMA DaysDistinct == Spec => []Distinct(number)
<1>1. Init => Distinct(number)
  BY DEF Init, Contiguous
<1>2. IInv /\ Distinct(number) /\ [Next]_vars => Distinct(number)'
  <2> SUFFICES ASSUME IInv, Distinct(number), [Next]_vars PROVE Distinct(number)'
    OBVIOUS
  <2>1. CASE UNCHANGED vars
    BY <2>1 DEF vars, Distinct
  <2>2. CASE Next
    <3>1. PICK r \in Requests : Looked(r) \/ Committed(r) \/ Abort(r)
      BY <2>2, StepKinds
    <3>2. CASE number' = number
      BY <3>2 DEF Distinct
    <3>3. CASE Committed(r)
      BY <3>3 DEF Committed, Commit, Distinct
    <3> QED
      BY <3>1, <3>2, <3>3 DEF Looked, Abort
  <2> QED
    BY <2>1, <2>2
<1> QED
  BY <1>1, <1>2, DaysInvariant, PTL DEF Spec

\* The order of the days before a step is their order after it.
Ordered(f, g) ==
  \A d, e \in DayIds :
    f[d] # 0 /\ f[e] # 0 /\ g[d] # 0 /\ g[e] # 0 /\ f[d] < f[e] => g[d] < g[e]

\* A shift of any rows by one place, all in one direction, keeps the order if
\* the result has no two equal numbers.
LEMMA ShiftKeepsOrder ==
  ASSUME NEW f \in [DayIds -> Nat], NEW g \in [DayIds -> Nat], Distinct(g), NEW step \in {-1, 1},
         \A d \in DayIds : f[d] # 0 /\ g[d] # 0 => g[d] = f[d] \/ g[d] = f[d] + step
  PROVE  Ordered(f, g)
<1> SUFFICES ASSUME NEW d \in DayIds, NEW e \in DayIds,
                    f[d] # 0, f[e] # 0, g[d] # 0, g[e] # 0, f[d] < f[e]
             PROVE  g[d] < g[e]
  BY DEF Ordered
<1>1. /\ f[d] \in Nat /\ f[e] \in Nat /\ g[d] \in Nat /\ g[e] \in Nat
      /\ g[d] = f[d] \/ g[d] = f[d] + step
      /\ g[e] = f[e] \/ g[e] = f[e] + step
  OBVIOUS
<1>2. g[d] # g[e]
  BY <1>1 DEF Distinct
<1> QED
  BY <1>1, <1>2

LEMMA KeptOrder ==
  ASSUME NEW f \in [DayIds -> Nat], NEW g \in [DayIds -> Nat],
         \A d \in DayIds : f[d] # 0 /\ g[d] # 0 => g[d] = f[d]
  PROVE  Ordered(f, g)
  BY DEF Ordered

LEMMA UnusedIsAbsent == \A d \in Unused : d \in DayIds /\ number[d] = 0
  BY DEF Unused, Present

LEMMA StepKeepsOrder ==
  ASSUME IInv, Next, \A r \in Requests : ~ReorderCommit(r)
  PROVE  Ordered(number, number')
<1> USE DEF IInv
<1>0. number \in [DayIds -> Nat]
  BY DEF TypeOK
<1>1. PICK r \in Requests :
        Add(r) \/ Delete(r) \/ Duplicate(r) \/ Reorder(r) \/ ChangeDates(r) \/ Abort(r)
  BY DEF Next
<1>2. ASSUME Looked(r) \/ Abort(r)
      PROVE  Ordered(number, number')
  BY <1>0, <1>2, KeptOrder DEF Looked, Abort
<1>3. ASSUME NEW d \in DayIds, AddCommit(r, d)
      PROVE  Ordered(number, number')
  <2>1. number' \in [DayIds -> Nat] /\ number' = [number EXCEPT ![d] = job[r].count + 1]
    BY <1>3, AddCommits DEF Committed
  <2>2. number[d] = 0
    BY <1>3, UnusedIsAbsent DEF AddCommit
  <2> QED
    BY <1>0, <2>1, <2>2, KeptOrder
<1>4. ASSUME DeleteCommit(r)
      PROVE  Ordered(number, number')
  <2>1. /\ number' \in [DayIds -> Nat] /\ Distinct(number')
        /\ number' = ClosedUp(job[r].day, job[r].at, job[r].rows)
    BY <1>4, DeleteCommits DEF Committed, Commit
  <2>2. \A d \in DayIds : number[d] # 0 /\ number'[d] # 0 =>
          number'[d] = number[d] \/ number'[d] = number[d] + (-1)
    BY <1>0, <2>1 DEF ClosedUp
  <2> QED
    BY <1>0, <2>1, <2>2, ShiftKeepsOrder
<1>5. ASSUME NEW d \in DayIds, DuplicateCommit(r, d)
      PROVE  Ordered(number, number')
  <2>1. /\ number' \in [DayIds -> Nat] /\ Distinct(number')
        /\ number' = [OpenedUp(job[r].at, job[r].rows) EXCEPT ![d] = job[r].at + 1]
    BY <1>5, DuplicateCommits DEF Committed, Commit
  <2>2. number[d] = 0
    BY <1>5, UnusedIsAbsent DEF DuplicateCommit
  <2>3. \A e \in DayIds : number[e] # 0 /\ number'[e] # 0 =>
          number'[e] = number[e] \/ number'[e] = number[e] + 1
    BY <2>1, <2>2 DEF OpenedUp
  <2> QED
    BY <1>0, <2>1, <2>3, ShiftKeepsOrder
<1>6. ASSUME TruncateCommit(r)
      PROVE  Ordered(number, number')
  <2>1. number' \in [DayIds -> Nat] /\ number' = CutOff(job[r].at, job[r].rows)
    BY <1>6, TruncateCommits DEF Committed
  <2>2. \A d \in DayIds : number[d] # 0 /\ number'[d] # 0 => number'[d] = number[d]
    BY <2>1 DEF CutOff
  <2> QED
    BY <1>0, <2>1, <2>2, KeptOrder
<1>7. ASSUME ExtendCommit(r)
      PROVE  Ordered(number, number')
  <2>1. number' \in [DayIds -> Nat]
    BY <1>7, ExtendCommits DEF Committed
  <2>2. PICK new \in [job[r].count + 1 .. job[r].at -> Unused] : number' = Extended(new)
    BY <1>7, ExtendCommits
  <2>3. \A i \in DOMAIN new : number[new[i]] = 0
    BY UnusedIsAbsent
  <2>4. \A d \in DayIds : number[d] # 0 => number'[d] = number[d]
    BY <2>2, <2>3 DEF Extended
  <2> QED
    BY <1>0, <2>1, <2>4, KeptOrder
<1>8. CASE Add(r)
  BY <1>2, <1>3, <1>8, AddLooks DEF Add
<1>9. CASE Delete(r)
  BY <1>2, <1>4, <1>9, DayReadLooks, DayMatchLooks DEF Delete
<1>10. CASE Duplicate(r)
  BY <1>2, <1>5, <1>10, DayReadLooks, DayMatchLooks DEF Duplicate
<1>11. CASE Reorder(r)
  BY <1>2, <1>11, ReorderLooks DEF Reorder
<1>12. CASE ChangeDates(r)
  BY <1>2, <1>6, <1>7, <1>12, DateChangeLooks, TruncateLooks DEF ChangeDates
<1> QED
  BY <1>1, <1>2, <1>8, <1>9, <1>10, <1>11, <1>12

\* OnlyReorderReorders: whatever the other requests read too early, the days
\* they leave keep their order.
THEOREM DaysOnlyReorderReorders == Spec => OnlyReorderReorders
<1> DEFINE A == \/ \A d, e \in Present :
                     number'[d] # 0 /\ number'[e] # 0 /\ number[d] < number[e]
                       => number'[d] < number'[e]
                \/ \E r \in Requests : ReorderCommit(r)
<1>1. IInv /\ [Next]_vars => [A]_vars
  <2> SUFFICES ASSUME IInv, Next, ~ \E r \in Requests : ReorderCommit(r)
               PROVE  A
    OBVIOUS
  <2>1. Ordered(number, number')
    BY StepKeepsOrder
  <2> QED
    BY <2>1 DEF Ordered, Present
<1>2. Spec => [][A]_vars
  BY <1>1, DaysInvariant, PTL DEF Spec
<1> QED
  BY <1>2 DEF OnlyReorderReorders

-----------------------------------------------------------------------------
(* Contiguity. *)

Filled(f) == Numbers(f) = 1 .. Cardinality(With(f))

LEMMA ContiguousNext == Distinct(number') /\ Filled(number') => Contiguous'
  BY DEF Contiguous, Count, Present, With, Numbers, Filled

\* What contiguity says of the rows before a step.
LEMMA ContiguousFacts ==
  ASSUME IInv, Contiguous
  PROVE  /\ number \in [DayIds -> Nat] /\ Distinct(number) /\ Count \in Nat
         /\ \A d \in DayIds : number[d] <= Count
         /\ \A v \in 1 .. Count : \E d \in DayIds : number[d] = v
<1>1. number \in [DayIds -> Nat] /\ Distinct(number) /\ Count \in Nat
  BY PresentIsWith DEF IInv, TypeOK, Contiguous
<1>2. Numbers(number) = 1 .. Count
  BY ContiguousNumbers
<1>3. ASSUME NEW d \in DayIds
      PROVE  number[d] <= Count
  <2>1. CASE number[d] = 0
    BY <1>1, <2>1
  <2>2. CASE number[d] # 0
    <3>1. number[d] \in 1 .. Count
      BY <1>2, <2>2 DEF Numbers, With
    <3> QED
      BY <3>1, <1>1
  <2> QED
    BY <2>1, <2>2
<1>4. \A v \in 1 .. Count : \E d \in DayIds : number[d] = v
  BY <1>2 DEF Numbers, With
<1> QED
  BY <1>1, <1>3, <1>4

LEMMA FillsFilled ==
  ASSUME NEW f \in [DayIds -> Nat], Distinct(f), NEW m \in Nat,
         \A d \in DayIds : f[d] <= m,
         \A v \in 1 .. m : \E d \in DayIds : f[d] = v
  PROVE  Filled(f)
<1>1. Numbers(f) = 1 .. m /\ Cardinality(With(f)) = m
  BY Fills
<1> QED
  BY <1>1 DEF Filled

LEMMA AddFills ==
  ASSUME IInv, Contiguous, NEW r \in Requests, NEW d \in DayIds, AddCommit(r, d), StillHolds(job[r])
  PROVE  Filled(number')
<1>1. /\ number' \in [DayIds -> Nat] /\ Distinct(number')
      /\ number' = [number EXCEPT ![d] = Count + 1]
  BY AddCommits DEF Committed, Commit, StillHolds, AddCommit, At
<1>2. number[d] = 0
  BY UnusedIsAbsent DEF AddCommit
<1>3. \A e \in DayIds : number'[e] <= Count + 1
  BY <1>1, ContiguousFacts
<1>4. ASSUME NEW v \in 1 .. Count + 1
      PROVE  \E e \in DayIds : number'[e] = v
  <2>1. CASE v = Count + 1
    BY <1>1, <2>1, ContiguousFacts
  <2>2. CASE v # Count + 1
    <3>1. v \in 1 .. Count
      BY <2>2, ContiguousFacts
    <3>2. PICK e \in DayIds : number[e] = v
      BY <3>1, ContiguousFacts
    <3> QED
      BY <1>1, <1>2, <3>1, <3>2
  <2> QED
    BY <2>1, <2>2
<1>5. Count + 1 \in Nat
  BY ContiguousFacts
<1> QED
  BY <1>1, <1>3, <1>4, <1>5, FillsFilled

LEMMA DeleteFills ==
  ASSUME IInv, Contiguous, NEW r \in Requests, DeleteCommit(r),
         StillHolds(job[r]), StillAt(job[r])
  PROVE  Filled(number')
<1> DEFINE d == job[r].day
           n == job[r].at
<1>1. d \in DayIds /\ number[d] = n /\ n \in Nat /\ n # 0 /\ n <= Count /\ Count \in Nat
  BY ContiguousFacts, JobFields DEF IInv, StillAt, DeleteCommit, At, Present
<1>2. job[r].rows = Above(n) \ {d}
  BY DEF StillHolds, DeleteCommit, At
<1>3. number' \in [DayIds -> Nat] /\ Distinct(number') /\ number' = ClosedUp(d, n, Above(n) \ {d})
  BY <1>2, DeleteCommits DEF Committed, Commit
<1> HIDE DEF d, n
<1>4. number \in [DayIds -> Nat] /\ Distinct(number)
  BY ContiguousFacts
<1>5. /\ number'[d] = 0
      /\ \A e \in DayIds : e # d => number'[e] = IF number[e] > n THEN number[e] - 1 ELSE number[e]
  BY <1>1, <1>3, <1>4 DEF ClosedUp, Above, Present
<1>6. \A e \in DayIds : number'[e] <= Count - 1
  <2> SUFFICES ASSUME NEW e \in DayIds PROVE number'[e] <= Count - 1
    OBVIOUS
  <2>1. number[e] \in Nat /\ number[e] <= Count /\ (e # d => number[e] # n)
    BY <1>1, <1>4, ContiguousFacts DEF Distinct
  <2> QED
    BY <1>1, <1>5, <2>1
<1>7. ASSUME NEW v \in 1 .. Count - 1
      PROVE  \E e \in DayIds : number'[e] = v
  <2>1. CASE v < n
    <3>1. v \in 1 .. Count
      BY <1>1
    <3>2. PICK e \in DayIds : number[e] = v
      BY <3>1, ContiguousFacts
    <3> QED
      BY <1>1, <1>5, <2>1, <3>2
  <2>2. CASE ~(v < n)
    <3>1. v + 1 \in 1 .. Count
      BY <1>1
    <3>2. PICK e \in DayIds : number[e] = v + 1
      BY <3>1, ContiguousFacts
    <3> QED
      BY <1>1, <1>5, <2>2, <3>2
  <2> QED
    BY <2>1, <2>2
<1>8. Count - 1 \in Nat
  BY <1>1
<1> QED
  BY <1>3, <1>6, <1>7, <1>8, FillsFilled

LEMMA DuplicateFills ==
  ASSUME IInv, Contiguous, NEW r \in Requests, NEW d \in DayIds, DuplicateCommit(r, d),
         StillHolds(job[r]), StillAt(job[r])
  PROVE  Filled(number')
<1> DEFINE n == job[r].at
<1>1. n \in Nat /\ n # 0 /\ n <= Count /\ Count \in Nat
  BY ContiguousFacts, JobFields DEF IInv, StillAt, DuplicateCommit, At, Present
<1>2. job[r].rows = Above(n)
  BY DEF StillHolds, DuplicateCommit, At
<1>3. /\ number' \in [DayIds -> Nat] /\ Distinct(number')
      /\ number' = [OpenedUp(n, Above(n)) EXCEPT ![d] = n + 1]
  BY <1>2, DuplicateCommits DEF Committed, Commit
<1> HIDE DEF n
<1>4. number \in [DayIds -> Nat] /\ number[d] = 0
  BY ContiguousFacts, UnusedIsAbsent DEF DuplicateCommit
<1>5. /\ number'[d] = n + 1
      /\ \A e \in DayIds : e # d => number'[e] = IF number[e] > n THEN number[e] + 1 ELSE number[e]
  BY <1>1, <1>3, <1>4 DEF OpenedUp, Above, Present
<1>6. \A e \in DayIds : number'[e] <= Count + 1
  <2> SUFFICES ASSUME NEW e \in DayIds PROVE number'[e] <= Count + 1
    OBVIOUS
  <2>1. number[e] \in Nat /\ number[e] <= Count
    BY <1>4, ContiguousFacts
  <2> QED
    BY <1>1, <1>5, <2>1
<1>7. ASSUME NEW v \in 1 .. Count + 1
      PROVE  \E e \in DayIds : number'[e] = v
  <2>1. CASE v = n + 1
    BY <1>5, <2>1
  <2>2. CASE v <= n
    <3>1. v \in 1 .. Count
      BY <1>1, <2>2
    <3>2. PICK e \in DayIds : number[e] = v
      BY <3>1, ContiguousFacts
    <3> QED
      BY <1>1, <1>4, <1>5, <2>2, <3>2
  <2>3. CASE v > n + 1
    <3>1. v - 1 \in 1 .. Count
      BY <1>1, <2>3
    <3>2. PICK e \in DayIds : number[e] = v - 1
      BY <3>1, ContiguousFacts
    <3> QED
      BY <1>1, <1>4, <1>5, <2>3, <3>2
  <2> QED
    BY <1>1, <2>1, <2>2, <2>3
<1>8. Count + 1 \in Nat
  BY <1>1
<1> QED
  BY <1>3, <1>6, <1>7, <1>8, FillsFilled

LEMMA TruncateFills ==
  ASSUME IInv, Contiguous, NEW r \in Requests, TruncateCommit(r), StillHolds(job[r])
  PROVE  Filled(number')
<1> DEFINE k == job[r].at
           m == IF k < Count THEN k ELSE Count
<1>1. k \in Nat /\ Count \in Nat
  BY ContiguousFacts, JobFields DEF IInv
<1>2. job[r].rows = Above(k)
  BY DEF StillHolds, TruncateCommit, At
<1>3. number' \in [DayIds -> Nat] /\ Distinct(number') /\ number' = CutOff(k, Above(k))
  BY <1>2, TruncateCommits DEF Committed, Commit
<1> HIDE DEF k
<1>4. \A e \in DayIds : number'[e] = IF number[e] > k THEN 0 ELSE number[e]
  BY <1>1, <1>3, ContiguousFacts DEF CutOff, Above, Present
<1>5. m \in Nat /\ m <= k /\ m <= Count /\ (m = k \/ m = Count)
  BY <1>1
<1> HIDE DEF m
<1>6. \A e \in DayIds : number'[e] <= m
  <2> SUFFICES ASSUME NEW e \in DayIds PROVE number'[e] <= m
    OBVIOUS
  <2>1. number[e] \in Nat /\ number[e] <= Count
    BY ContiguousFacts
  <2> QED
    BY <1>1, <1>4, <1>5, <2>1
<1>7. ASSUME NEW v \in 1 .. m
      PROVE  \E e \in DayIds : number'[e] = v
  <2>1. v \in 1 .. Count /\ v <= k
    BY <1>1, <1>5
  <2>2. PICK e \in DayIds : number[e] = v
    BY <2>1, ContiguousFacts
  <2> QED
    BY <1>1, <1>4, <2>1, <2>2
<1> QED
  BY <1>3, <1>5, <1>6, <1>7, FillsFilled

LEMMA ExtendFills ==
  ASSUME IInv, Contiguous, NEW r \in Requests, ExtendCommit(r), StillHolds(job[r])
  PROVE  Filled(number')
<1> DEFINE m == job[r].at
<1>1. Count \in Nat /\ m \in Nat /\ Count < m /\ job[r].count = Count
  BY ContiguousFacts, JobFields DEF IInv, JobOK, StillHolds, ExtendCommit, At
<1>2. number' \in [DayIds -> Nat] /\ Distinct(number')
  BY ExtendCommits DEF Committed, Commit
<1>3. PICK new \in [Count + 1 .. m -> Unused] :
        (\A i, j \in DOMAIN new : i # j => new[i] # new[j]) /\ number' = Extended(new)
  BY <1>1, ExtendCommits
<1> HIDE DEF m
<1>4. ASSUME NEW i \in Count + 1 .. m
      PROVE  new[i] \in DayIds /\ number[new[i]] = 0 /\ number'[new[i]] = i
  <2>1. new[i] \in DayIds /\ number[new[i]] = 0
    BY UnusedIsAbsent
  <2>2. \A j \in DOMAIN new : new[j] = new[i] => j = i
    BY <1>3
  <2>3. (CHOOSE j \in DOMAIN new : new[j] = new[i]) = i
    BY <2>2
  <2> QED
    BY <1>3, <2>1, <2>3 DEF Extended
<1>5. \A e \in DayIds : (\A i \in Count + 1 .. m : new[i] # e) => number'[e] = number[e]
  BY <1>3 DEF Extended
<1>6. \A e \in DayIds : number'[e] <= m
  <2> SUFFICES ASSUME NEW e \in DayIds PROVE number'[e] <= m
    OBVIOUS
  <2>1. CASE \E i \in Count + 1 .. m : new[i] = e
    BY <1>1, <1>4, <2>1
  <2>2. CASE \A i \in Count + 1 .. m : new[i] # e
    BY <1>1, <1>5, <2>2, ContiguousFacts
  <2> QED
    BY <2>1, <2>2
<1>7. ASSUME NEW v \in 1 .. m
      PROVE  \E e \in DayIds : number'[e] = v
  <2>1. CASE v \in Count + 1 .. m
    BY <1>4, <2>1
  <2>2. CASE v \in 1 .. Count
    <3>1. PICK e \in DayIds : number[e] = v
      BY <2>2, ContiguousFacts
    <3>2. \A i \in Count + 1 .. m : new[i] # e
      BY <1>4, <2>2, <3>1
    <3> QED
      BY <1>5, <3>1, <3>2
  <2> QED
    BY <1>1, <2>1, <2>2
<1> QED
  BY <1>1, <1>2, <1>6, <1>7, FillsFilled

\* A reorder of what is there numbers every day it names between 1 and the
\* number of days, so it leaves no gap if the days it does not name had none,
\* or if it names them all.
LEMMA ReorderFills ==
  ASSUME IInv, NEW r \in Requests, ReorderCommit(r), StillHolds(job[r]), Contiguous \/ Repairs(r)
  PROVE  Filled(number')
<1> DEFINE order == job[r].order
           named == {order[i] : i \in DOMAIN order}
<1>1. /\ number' \in [DayIds -> Nat] /\ Distinct(number')
      /\ number' = Listed(order)
  BY ReorderCommits DEF Committed, Commit
<1>2. number \in [DayIds -> Nat] /\ Count \in Nat
  BY PresentIsWith DEF IInv, TypeOK
<1>3. order \in [1 .. Count -> Present]
  BY DEF StillHolds, ReorderCommit, At, IInv, JobOK, Count
<1>4. Repairs(r) => Present \subseteq named
  BY DEF Repairs
<1> HIDE DEF order
<1>5. \A d \in named : Place(order, d) \in 1 .. Count
  BY <1>2, <1>3, PlaceOf
<1>6. ASSUME NEW d \in DayIds
      PROVE  IF d \in Present THEN number'[d] \in 1 .. Count ELSE number'[d] = 0
  <2>1. number'[d] = IF d \in Present \cap named THEN Place(order, d) ELSE number[d]
    BY <1>1 DEF Listed
  <2>2. CASE d \notin Present
    BY <2>1, <2>2 DEF Present
  <2>3. CASE d \in Present /\ d \in named
    BY <1>5, <2>1, <2>3
  <2>4. CASE d \in Present /\ d \notin named
    <3>1. Contiguous
      BY <1>4, <2>4
    <3>2. number[d] <= Count /\ number[d] \in Nat /\ number[d] # 0
      BY <1>2, <2>4, <3>1, ContiguousFacts DEF Present
    <3> QED
      BY <1>2, <2>1, <2>4, <3>2
  <2> QED
    BY <2>2, <2>3, <2>4
<1>7. With(number') = Present
  BY <1>2, <1>6 DEF With, Present
<1>8. Cardinality(With(number')) = Count
  BY <1>7 DEF Count
<1>9. \A d \in DayIds : number'[d] <= Cardinality(With(number'))
  BY <1>2, <1>6, <1>8
<1> QED
  BY <1>1, <1>9, FillsByCounting DEF Filled

\* A commit on what is still so, or one that repairs, leaves no gap.
LEMMA CommitFills ==
  ASSUME IInv, Next, ~drifted', ~drifted => Contiguous, number' # number \/ drifted
  PROVE  Distinct(number') /\ Filled(number')
<1>1. PICK r \in Requests :
        Add(r) \/ Delete(r) \/ Duplicate(r) \/ Reorder(r) \/ ChangeDates(r) \/ Abort(r)
  BY DEF Next
<1>2. ASSUME Looked(r) \/ Abort(r)
      PROVE  FALSE
  BY <1>2 DEF Looked, Abort
<1>3. ASSUME Committed(r)
      PROVE  /\ Distinct(number')
             /\ Repairs(r) \/ (Contiguous /\ StillHolds(job[r]) /\ StillAt(job[r]))
  BY <1>3, Zenon DEF Committed, Commit
<1>4. job[r].op # "reorder" => ~Repairs(r)
  BY DEF Repairs, At
<1>5. CASE Add(r)
  <2>1. PICK d \in DayIds : AddCommit(r, d)
    BY <1>2, <1>5, AddLooks DEF Add
  <2> QED
    BY <1>3, <1>4, <2>1, AddCommits, AddFills DEF AddCommit, At
<1>6. CASE Delete(r)
  <2>1. DeleteCommit(r)
    BY <1>2, <1>6, DayReadLooks, DayMatchLooks DEF Delete
  <2> QED
    BY <1>3, <1>4, <2>1, DeleteCommits, DeleteFills DEF DeleteCommit, At
<1>7. CASE Duplicate(r)
  <2>1. PICK d \in DayIds : DuplicateCommit(r, d)
    BY <1>2, <1>7, DayReadLooks, DayMatchLooks DEF Duplicate
  <2> QED
    BY <1>3, <1>4, <2>1, DuplicateCommits, DuplicateFills DEF DuplicateCommit, At
<1>8. CASE Reorder(r)
  <2>1. ReorderCommit(r)
    BY <1>2, <1>8, ReorderLooks DEF Reorder
  <2>2. StillHolds(job[r]) /\ (Contiguous \/ Repairs(r)) /\ Distinct(number')
    BY <1>3, <2>1, ReorderCommits DEF Repairs
  <2> QED
    BY <2>1, <2>2, ReorderFills
<1>9. CASE ChangeDates(r)
  <2>1. CASE TruncateCommit(r)
    BY <1>3, <1>4, <2>1, TruncateCommits, TruncateFills DEF TruncateCommit, At
  <2>2. CASE ExtendCommit(r)
    BY <1>3, <1>4, <2>2, ExtendCommits, ExtendFills DEF ExtendCommit, At
  <2> QED
    BY <1>2, <1>9, <2>1, <2>2, DateChangeLooks, TruncateLooks DEF ChangeDates
<1>10. CASE Abort(r)
  BY <1>2, <1>10
<1> QED
  BY <1>1, <1>5, <1>6, <1>7, <1>8, <1>9, <1>10

LEMMA StepContiguous ==
  IInv /\ ContiguousUnlessDrifted /\ [Next]_vars => ContiguousUnlessDrifted'
<1> SUFFICES ASSUME IInv, ContiguousUnlessDrifted, [Next]_vars, ~drifted'
             PROVE  Contiguous'
  BY DEF ContiguousUnlessDrifted
<1>1. CASE number' # number \/ drifted
  <2>1. Next
    BY <1>1 DEF vars
  <2> QED
    BY <1>1, <2>1, CommitFills, ContiguousNext DEF ContiguousUnlessDrifted
<1>2. CASE number' = number /\ ~drifted
  <2>1. Present' = Present /\ Count' = Count
    BY <1>2 DEF Present, Count
  <2> QED
    BY <1>2, <2>1 DEF ContiguousUnlessDrifted, Contiguous, Distinct
<1> QED
  BY <1>1, <1>2

\* ContiguousUnlessDrifted: no interleaving of requests that each commit on
\* what is still so leaves a gap, and a reorder of every day closes any.
THEOREM DaysContiguous == Spec => []ContiguousUnlessDrifted
<1>1. Init => ContiguousUnlessDrifted
  BY DEF Init, ContiguousUnlessDrifted
<1> QED
  BY <1>1, StepContiguous, DaysInvariant, PTL DEF Spec

=============================================================================
