----------------------------- MODULE DayNumbers -----------------------------
(***************************************************************************)
(* The numbered days of one variant (modules/canvas), and the requests     *)
(* that renumber them: add, delete, duplicate and reorder days, and the    *)
(* TRUNCATE and EXTEND strategies of a change of trip dates                *)
(* (modules/trips), which works on the same rows.                          *)
(*                                                                         *)
(* Transactions run at READ COMMITTED.  A request reads, perhaps takes     *)
(* the row lock on the variant, picks the rows its renumbering statement   *)
(* matches, and commits.  The statement locks the rows it matched and      *)
(* tests its condition on them again, so only the choice of rows depends   *)
(* on when it ran: it is a step, and the writes are part of the commit.    *)
(* The one row whose lock is visible before that is the day deleteDay has  *)
(* deleted (`Held`).                                                       *)
(*                                                                         *)
(* Left out: titles, notes, dates, statuses and weather of a day, its      *)
(* blocks, updateDay and the strategies SHIFT and KEEP_DAYS, none of which *)
(* reads or writes a number that another one uses.  A request is one that  *)
(* has passed the day:manage or trip:edit gate.                            *)
(***************************************************************************)
EXTENDS Integers, Sequences, FiniteSets

CONSTANTS
  DayIds,     \* ids of days rows; an id no row or request holds may be taken again
  Requests,   \* the requests under way at one time
  DayLimit,   \* limits.daysPerVariant
  Highest,    \* bound on a day's number: gaps left by stale requests add up
  Lengths,    \* trip lengths, in days, a date change may ask for (an end before the
              \* start is 0: either leaves no day): this bounds EXTEND
  NoDay,      \* no day
  NoRequest   \* no request

ASSUME ConstantsAssumption ==
  /\ NoDay \notin DayIds
  /\ NoRequest \notin Requests
  /\ DayLimit \in Nat /\ Highest \in Nat
  /\ Lengths \subseteq Nat

ASSUME FiniteAssumption == IsFiniteSet(DayIds)

VARIABLES
  number,   \* days.day_number, 0 where there is no such row
  lock,     \* the request holding the variant's row FOR UPDATE
  job,      \* what each request is doing and has read
  raced,    \* history: a reorder or truncation has committed since the lock was taken
  drifted   \* history: a request has committed on what was no longer so

vars == <<number, lock, job, raced, drifted>>

Locking == {"add", "delete", "duplicate"}
DateChanges == {"truncate", "extend"}
Operations == Locking \cup DateChanges \cup {"reorder"}

JobType ==
  [op : Operations \cup {"none"},
   step : {"idle", "read", "matched"},
   day : DayIds \cup {NoDay},    \* the day deleted or copied
   at : Nat,                     \* its number as read, or the length asked for
   count : Nat,                  \* days counted
   rows : SUBSET DayIds,         \* rows a statement matched, or listed by a reorder's read
   order : Seq(DayIds),          \* orderedDayIds
   current : BOOLEAN]            \* the trip version the client sent is still the latest

Idle == [op |-> "none", step |-> "idle", day |-> NoDay, at |-> 0, count |-> 0,
         rows |-> {}, order |-> <<>>, current |-> TRUE]

TypeOK ==
  /\ number \in [DayIds -> Nat]
  /\ lock \in Requests \cup {NoRequest}
  /\ job \in [Requests -> JobType]
  /\ raced \in BOOLEAN
  /\ drifted \in BOOLEAN

-----------------------------------------------------------------------------
Present == {d \in DayIds : number[d] # 0}
Count == Cardinality(Present)
Above(n) == {d \in Present : number[d] > n}

\* UNIQUE (variant_id, day_number), DEFERRABLE INITIALLY DEFERRED.
Distinct(f) == \A d, e \in DayIds : d # e /\ f[d] # 0 => f[d] # f[e]

Contiguous == Distinct(number) /\ {number[d] : d \in Present} = 1 .. Count

At(r, op, step) == job[r].op = op /\ job[r].step = step

\* Rows whose lock another request holds while this one tries to write them.
Held(r) ==
  Present \cap {job[s].day : s \in {s \in Requests \ {r} : At(s, "delete", "matched")}}

\* Ids a new row may take.
Unused ==
  DayIds \ (Present \cup UNION {{job[r].day} \cup job[r].rows
              \cup {job[r].order[i] : i \in DOMAIN job[r].order} : r \in Requests})

-----------------------------------------------------------------------------
Init ==
  /\ number \in [DayIds -> 0 .. Cardinality(DayIds)]
  /\ Contiguous /\ Count <= DayLimit
  /\ lock = NoRequest
  /\ job = [r \in Requests |-> Idle]
  /\ raced = FALSE
  /\ drifted = FALSE

Begin(r, op, step, j) ==
  /\ job[r] = Idle
  /\ job' = [job EXCEPT ![r] = [j EXCEPT !.op = op, !.step = step]]
  /\ UNCHANGED <<number, drifted>>

\* Mutants: it locks the day instead of its variant; it does not wait.
TakeLockOfDay(r) == lock = NoRequest /\ lock' = job[r].day /\ raced' = FALSE
TakeLockWithoutWaiting(r) == lock' = r /\ raced' = FALSE

\* lockVariantForNumbering: waits while another request holds the row.
TakeLock(r) == lock = NoRequest /\ lock' = r /\ raced' = FALSE

NoLock == UNCHANGED <<lock, raced>>

\* What a request counted or matched is what it would find now.
StillHolds(j) ==
  CASE j.op = "add"       -> j.count = Count
    [] j.op = "delete"    -> j.rows = Above(j.at) \ {j.day}
    [] j.op = "duplicate" -> j.rows = Above(j.at)
    [] j.op = "reorder"   -> j.rows = Present
    [] j.op = "truncate"  -> j.rows = Above(j.at)
    [] j.op = "extend"    -> j.count = Count
    [] OTHER -> TRUE

\* The number read before the lock was taken is still the day's own.
StillAt(j) == j.op \in {"delete", "duplicate"} => j.day \in Present /\ number[j.day] = j.at

\* A reorder that names every day once puts the numbering right whatever it was.
Repairs(r) ==
  At(r, "reorder", "read") /\ StillHolds(job[r])
    /\ {job[r].order[i] : i \in DOMAIN job[r].order} = Present

\* COMMIT with the given numbers; the deferred constraint must accept them.
\* A date change leaves the trip with a new version, so the versions other
\* clients sent are out of date (TripRepository.update).
Commit(r, numbers) ==
  /\ Distinct(numbers)
  /\ \A d \in DayIds : numbers[d] <= Highest
  /\ number' = numbers
  /\ lock' = IF lock = r THEN NoRequest ELSE lock
  /\ LET changed == job[r].op \in DateChanges
     IN  job' = [s \in Requests |->
                   IF s = r THEN Idle
                   ELSE [job[s] EXCEPT !.current = @ /\ ~(changed /\ job[s].op \in DateChanges)]]
  /\ raced' = (lock' # NoRequest /\ (raced \/ job[r].op \in {"reorder", "truncate"}))
  /\ drifted' = (~Repairs(r) /\ (drifted \/ ~StillHolds(job[r]) \/ ~StillAt(job[r])))

\* ROLLBACK: a refused constraint, a stale version, a deadlock, a lost connection.
Abort(r) ==
  /\ job[r] # Idle
  /\ job' = [job EXCEPT ![r] = Idle]
  /\ lock' = IF lock = r THEN NoRequest ELSE lock
  /\ raced' = (raced /\ lock # r)
  /\ UNCHANGED <<number, drifted>>

-----------------------------------------------------------------------------
(* addDay: lock, count, insert at count + 1. *)
AddLockAndCount(r) ==
  /\ Begin(r, "add", "matched", [Idle EXCEPT !.count = Count])
  /\ Count < DayLimit
  /\ TakeLock(r)

AddCommit(r, d) ==
  /\ At(r, "add", "matched")
  /\ d \in Unused
  /\ Commit(r, [number EXCEPT ![d] = job[r].count + 1])

(* deleteDay: read, lock, delete, close the gap above the number read. *)
DeleteRead(r, d) ==
  /\ d \in Present
  /\ Begin(r, "delete", "read", [Idle EXCEPT !.day = d, !.at = number[d]])
  /\ NoLock

DeleteLockAndMatch(r) ==
  /\ At(r, "delete", "read")
  /\ TakeLock(r)
  /\ job' = [job EXCEPT ![r].step = "matched", ![r].rows = Above(job[r].at) \ {job[r].day}]
  /\ UNCHANGED <<number, drifted>>

\* Mutants: the gap is closed from the wrong number on; the last day fills it.
ClosedUpTooHigh(d, n, rows) ==
  [e \in DayIds |-> IF e = d THEN 0
                    ELSE IF e \in rows /\ number[e] > n + 1 THEN number[e] - 1
                    ELSE number[e]]

FilledByLast(d, n, rows) ==
  [e \in DayIds |-> IF e = d THEN 0
                    ELSE IF e \in rows /\ rows = {f \in rows : number[f] <= number[e]} THEN n
                    ELSE number[e]]

\* UPDATE ... SET day_number = day_number - 1 WHERE day_number > n, on the rows matched.
ClosedUp(d, n, rows) ==
  [e \in DayIds |-> IF e = d THEN 0
                    ELSE IF e \in rows /\ number[e] > n THEN number[e] - 1
                    ELSE number[e]]

DeleteCommit(r) ==
  /\ At(r, "delete", "matched")
  /\ Commit(r, ClosedUp(job[r].day, job[r].at, job[r].rows))

(* duplicateDay: read, lock, make room above the number read, insert there. *)
DuplicateRead(r, d) ==
  /\ d \in Present
  /\ Begin(r, "duplicate", "read", [Idle EXCEPT !.day = d, !.at = number[d]])
  /\ NoLock

DuplicateLockAndMatch(r) ==
  /\ At(r, "duplicate", "read")
  /\ Count < DayLimit
  /\ TakeLock(r)
  /\ job' = [job EXCEPT ![r].step = "matched", ![r].rows = Above(job[r].at)]
  /\ UNCHANGED <<number, drifted>>

OpenedUp(n, rows) ==
  [e \in DayIds |-> IF e \in rows /\ number[e] > n THEN number[e] + 1 ELSE number[e]]

DuplicateCommit(r, d) ==
  /\ At(r, "duplicate", "matched")
  /\ d \in Unused
  /\ Commit(r, [OpenedUp(job[r].at, job[r].rows) EXCEPT ![d] = job[r].at + 1])

(* reorderDays: no lock.  The list has the right length and only known ids,  *)
(* but may name a day twice; the last place given counts.                    *)
ReorderRead(r, order) ==
  /\ Present # {}
  /\ order \in [1 .. Count -> Present]
  /\ Begin(r, "reorder", "read", [Idle EXCEPT !.rows = Present, !.order = order])
  /\ NoLock

Place(order, d) ==
  CHOOSE i \in DOMAIN order : order[i] = d /\ \A j \in DOMAIN order : order[j] = d => j <= i

Listed(order) ==
  LET named == {order[i] : i \in DOMAIN order}
  IN  [d \in DayIds |-> IF d \in Present \cap named THEN Place(order, d) ELSE number[d]]

ReorderCommit(r) ==
  /\ At(r, "reorder", "read")
  /\ \A i \in DOMAIN job[r].order : job[r].order[i] \notin Held(r)
  /\ Commit(r, Listed(job[r].order))

(* applyDateChange: no lock of its own. *)
DateChangeRead(r, op, length) ==
  /\ op = "truncate" => length < Count
  /\ op = "extend" => Count > 0 /\ length > Count
  /\ Begin(r, op, "read", [Idle EXCEPT !.at = length,
                                    !.count = IF op = "extend" THEN Count ELSE 0])
  /\ NoLock

TruncateMatch(r) ==
  /\ At(r, "truncate", "read")
  /\ job' = [job EXCEPT ![r].step = "matched", ![r].rows = Above(job[r].at)]
  /\ NoLock
  /\ UNCHANGED <<number, drifted>>

\* DELETE ... WHERE day_number > length, on the rows matched.
CutOff(length, rows) ==
  [d \in DayIds |-> IF d \in rows /\ number[d] > length THEN 0 ELSE number[d]]

TruncateCommit(r) ==
  /\ At(r, "truncate", "matched")
  /\ job[r].current
  /\ job[r].rows \cap Held(r) = {}
  /\ Commit(r, CutOff(job[r].at, job[r].rows))

\* The foreign key of a new day takes the variant's row FOR KEY SHARE, which
\* waits for a request that has it FOR UPDATE.
ExtendCommit(r) ==
  /\ At(r, "extend", "read")
  /\ job[r].current
  /\ lock = NoRequest
  /\ \E new \in [job[r].count + 1 .. job[r].at -> Unused] :
       /\ \A i, j \in DOMAIN new : i # j => new[i] # new[j]
       /\ Commit(r, [d \in DayIds |->
                       IF \E i \in DOMAIN new : new[i] = d
                       THEN CHOOSE i \in DOMAIN new : new[i] = d ELSE number[d]])

-----------------------------------------------------------------------------
Add(r) == AddLockAndCount(r) \/ \E d \in DayIds : AddCommit(r, d)

Delete(r) == (\E d \in DayIds : DeleteRead(r, d)) \/ DeleteLockAndMatch(r) \/ DeleteCommit(r)

Duplicate(r) ==
  \/ \E d \in DayIds : DuplicateRead(r, d)
  \/ DuplicateLockAndMatch(r)
  \/ \E d \in DayIds : DuplicateCommit(r, d)

Reorder(r) == (\E order \in [1 .. Count -> Present] : ReorderRead(r, order)) \/ ReorderCommit(r)

ChangeDates(r) ==
  \/ \E op \in DateChanges, length \in Lengths : DateChangeRead(r, op, length)
  \/ TruncateMatch(r) \/ TruncateCommit(r) \/ ExtendCommit(r)

Next ==
  \E r \in Requests :
    Add(r) \/ Delete(r) \/ Duplicate(r) \/ Reorder(r) \/ ChangeDates(r) \/ Abort(r)

Spec == Init /\ [][Next]_vars

-----------------------------------------------------------------------------
(* What the numbering promises. *)

\* While a request holds the variant's lock, what it counted or matched stays
\* so unless a reorder or a truncation, which take no lock, commits under it:
\* no two locking requests and no extension can disturb each other's statement.
LockProtects ==
  lock # NoRequest /\ ~raced => StillHolds(job[lock])

\* FR-DAY-04, FR-DAY-05, FR-DAY-06: the days are numbered 1, 2, ... without a gap as
\* long as every request commits on what is still so, and again once a reorder
\* that names every day has committed, whatever happened before.
ContiguousUnlessDrifted == ~drifted => Contiguous

\* Nothing but a reorder changes which of two days comes first, however the
\* other requests overlap and whatever they read too early.
OnlyReorderReorders ==
  [][\/ \A d, e \in Present :
          number'[d] # 0 /\ number'[e] # 0 /\ number[d] < number[e] => number'[d] < number'[e]
     \/ \E r \in Requests : ReorderCommit(r)]_vars

=============================================================================
