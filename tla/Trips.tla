------------------------------- MODULE Trips --------------------------------
(***************************************************************************)
(* One trip as rows: deleted softly, restored, purged for good after       *)
(* thirty days, forked and duplicated while its blocks are being edited    *)
(* (modules/trips; canvas.deepCopyTree; the purge of platform/jobs).       *)
(*                                                                         *)
(* The two copies of a plan differ in their statements.  A fork reads all  *)
(* blocks of the days it has selected in one statement; a duplicate reads  *)
(* them day by day, and under READ COMMITTED every statement sees what was *)
(* committed before it started.  A duplicate also copies which plan is the *)
(* main one in two statements; module Variants has what comes of that.     *)
(*                                                                         *)
(* An edit of the plan is one step here (module Canvas has their races)    *)
(* and may come while the trip is deleted or archived, from a request that *)
(* loaded its access earlier.  Left out: the fields of a trip, folders and *)
(* views (module Shelf), pins.  Expenses are purged the way blocks are.    *)
(***************************************************************************)
EXTENDS Integers, FiniteSets

CONSTANTS
  Blocks,    \* ids of blocks of the plan
  Days,      \* days the plan has, or may be given
  FirstDay,  \* the day it starts with
  Requests   \* copies under way at one time

ASSUME ConstantsAssumption == FirstDay \in Days /\ IsFiniteSet(Days)

VARIABLES
  trip,     \* the row of the trip
  present,  \* days of the plan
  block,    \* the row of each block
  place,    \* its day
  purge,    \* the purge statement: what its snapshot matched
  job       \* what each request is doing

vars == <<trip, present, block, place, purge, job>>

\* "expired": deleted_at lies more than thirty days back. "gone": no row.
RowStates == {"live", "deleted", "expired", "gone"}

Idle == [do |-> "nothing"]
Asleep == [runs |-> FALSE]
JobType ==
  {Idle} \cup [do : {"restore"}] \cup
  [do : {"fork", "duplicate"}, selected : SUBSET Days, left : SUBSET Days,
   copies : [Blocks -> 0..Cardinality(Days)],
   there : SUBSET Blocks, still : SUBSET Blocks]

TypeOK ==
  /\ trip \in RowStates
  /\ present \subseteq Days
  /\ block \in [Blocks -> RowStates]
  /\ place \in [Blocks -> Days]
  /\ purge \in {Asleep} \cup [runs : {TRUE}, trip : BOOLEAN, blocks : SUBSET Blocks]
  /\ job \in [Requests -> JobType]

Init ==
  /\ trip = "live"
  /\ present = {FirstDay}
  /\ block = [b \in Blocks |-> "live"]
  /\ place = [b \in Blocks |-> FirstDay]
  /\ purge = Asleep
  /\ job = [r \in Requests |-> Idle]

Copying(r) == job[r].do \in {"fork", "duplicate"}
Live(b) == block[b] = "live"
On(days) == {b \in Blocks : Live(b) /\ place[b] \in days}

-----------------------------------------------------------------------------
(* Edits of the plan.                                                        *)

\* History for the copies under way: there, the blocks that never left the
\* days selected; still, those that never moved at all.
Watched(b, keeps, stays) ==
  job' = [r \in Requests |->
    IF ~Copying(r) THEN job[r]
    ELSE [job[r] EXCEPT !.there = IF keeps[r] THEN @ ELSE @ \ {b},
                        !.still = IF stays THEN @ ELSE @ \ {b}]]

AddDay ==
  /\ \E d \in Days \ present : present' = present \cup {d}
  /\ UNCHANGED <<trip, block, place, purge, job>>

MoveBlock ==
  /\ \E b \in Blocks, d \in present :
       /\ Live(b)
       /\ place' = [place EXCEPT ![b] = d]
       /\ Watched(b, [r \in Requests |-> Copying(r) /\ d \in job[r].selected], d = place[b])
  /\ UNCHANGED <<trip, present, block, purge>>

DeleteBlock ==
  /\ \E b \in Blocks :
       /\ Live(b)
       /\ block' = [block EXCEPT ![b] = "deleted"]
       /\ Watched(b, [r \in Requests |-> FALSE], FALSE)
  /\ UNCHANGED <<trip, present, place, purge>>

RestoreBlock ==
  /\ \E b \in Blocks :
       block[b] \in {"deleted", "expired"} /\ block' = [block EXCEPT ![b] = "live"]
  /\ UNCHANGED <<trip, present, place, purge, job>>

-----------------------------------------------------------------------------
(* Copies.                                                                   *)

\* The days are selected; createVariant and duplicate need a live trip.
StartCopy(r, kind) ==
  /\ job[r] = Idle
  /\ trip = "live"
  /\ job' = [job EXCEPT ![r] =
       [do |-> kind, selected |-> present, left |-> present,
        copies |-> [b \in Blocks |-> 0],
        there |-> On(present), still |-> On(present)]]
  /\ UNCHANGED <<trip, present, block, place, purge>>

Fork(r) == StartCopy(r, "fork")
Duplicate(r) == StartCopy(r, "duplicate")

\* One statement that reads and copies the live blocks of some days.
CopyOf(r, days) ==
  /\ job' = [job EXCEPT ![r].left = @ \ days,
                        ![r].copies =
                          [b \in Blocks |-> IF b \in On(days) THEN @[b] + 1 ELSE @[b]]]
  /\ UNCHANGED <<trip, present, block, place, purge>>

\* (mutant) the fork reads day by day as well.
ForkByDay(r) ==
  /\ job[r].do = "fork"
  /\ \E d \in job[r].left : CopyOf(r, {d})

\* deepCopyTree: `day_id in (...)`, all days at once.
ForkBlocks(r) ==
  /\ job[r].do = "fork"
  /\ job[r].left # {}
  /\ CopyOf(r, job[r].left)

\* copyDaysAndBlocks: one select per day, in any order.
DuplicateDay(r) ==
  /\ job[r].do = "duplicate"
  /\ \E d \in job[r].left : CopyOf(r, {d})

Copied(r) == Copying(r) /\ job[r].left = {}

FinishCopy(r) ==
  /\ Copied(r)
  /\ job' = [job EXCEPT ![r] = Idle]
  /\ UNCHANGED <<trip, present, block, place, purge>>

-----------------------------------------------------------------------------
(* The trip's own life.                                                      *)

Remove ==
  /\ trip = "live"
  /\ trip' = "deleted"
  /\ UNCHANGED <<present, block, place, purge, job>>

RestoreRead(r) ==
  /\ job[r] = Idle
  /\ trip \in {"deleted", "expired"}
  /\ job' = [job EXCEPT ![r] = [do |-> "restore"]]
  /\ UNCHANGED <<trip, present, block, place, purge>>

RestoreWrite(r) ==
  /\ job[r].do = "restore"
  /\ trip' = IF trip = "gone" THEN "gone" ELSE "live"
  /\ job' = [job EXCEPT ![r] = Idle]
  /\ UNCHANGED <<present, block, place, purge>>

\* Thirty days go by for what is deleted.
Expire ==
  /\ \/ trip = "deleted" /\ trip' = "expired" /\ UNCHANGED block
     \/ \E b \in Blocks :
          block[b] = "deleted" /\ block' = [block EXCEPT ![b] = "expired"]
          /\ UNCHANGED trip
  /\ UNCHANGED <<present, place, purge, job>>

\* purgeSoftDeleted is one statement. Its snapshot picks the rows ...
PurgeRead ==
  /\ purge = Asleep
  /\ purge' = [runs |-> TRUE, trip |-> trip = "expired",
               blocks |-> {b \in Blocks : block[b] = "expired"}]
  /\ UNCHANGED <<trip, present, block, place, job>>

\* trg_activity_append_only: a trip has activity rows, at least the one of its
\* creation; the cascade from the trip to them raises, and the statement fails.
Rejected(deletesTrip) == deletesTrip

\* ... and a row another transaction has restored meanwhile is looked at again
\* once its lock is free.
PurgeWrite ==
  /\ purge # Asleep
  /\ IF Rejected(purge.trip /\ trip = "expired") THEN UNCHANGED block
     ELSE block' = [b \in Blocks |->
            IF b \in purge.blocks /\ block[b] = "expired" THEN "gone" ELSE block[b]]
  /\ purge' = Asleep
  /\ UNCHANGED <<trip, present, place, job>>

-----------------------------------------------------------------------------
Next ==
  \/ AddDay \/ MoveBlock \/ DeleteBlock \/ RestoreBlock
  \/ Remove \/ Expire \/ PurgeRead \/ PurgeWrite
  \/ \E r \in Requests :
       \/ Fork(r) \/ ForkBlocks(r) \/ Duplicate(r) \/ DuplicateDay(r) \/ FinishCopy(r)
       \/ RestoreRead(r) \/ RestoreWrite(r)

Spec == Init /\ [][Next]_vars

\* The cron tick keeps coming and the job it queues runs (platform/jobs).
FairSpec == Spec /\ WF_vars(PurgeRead) /\ WF_vars(PurgeWrite)

-----------------------------------------------------------------------------
\* A copy has every block once that stayed where it could see it, and no block
\* more often than the reads allow: for a fork, a block may move among the
\* selected days; for a duplicate it must not have moved at all (the statements
\* of deepCopyTree and of copyDaysAndBlocks, while others drag blocks about).
CopiesExact ==
  \A r \in Requests : Copied(r) =>
    /\ job[r].do = "fork" =>
         \A b \in Blocks : job[r].copies[b] <= 1 /\ (b \in job[r].there => job[r].copies[b] = 1)
    /\ \A b \in job[r].still : job[r].copies[b] = 1

\* FR-TRIP-09, "Hard-delete rows soft-deleted more than 30 days ago": a block
\* whose thirty days are over is purged, or restored, in the end.
ExpiredPurged == \A b \in Blocks : (block[b] = "expired") ~> (block[b] # "expired")
=============================================================================
