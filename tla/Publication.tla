---------------------------- MODULE Publication -----------------------------
(***************************************************************************)
(* What the realtime channel of a trip promises (platform/realtime/hub,    *)
(* sections 7 and 9 of the design): a change is announced after it has     *)
(* committed, once, and to whoever is reached then.  A change may stay     *)
(* unannounced, when the process ends too soon, and a listener may miss    *)
(* it; nobody ever hears of a change that was rolled back.                 *)
(***************************************************************************)
CONSTANTS
  Changes,   \* mutations of the trip
  Listeners  \* connections to its channel

VARIABLES
  committed, \* changes that are in the database
  announced, \* those that have been broadcast
  heard      \* for each listener, the changes it was told of

Init ==
  /\ committed = {}
  /\ announced = {}
  /\ heard = [l \in Listeners |-> {}]

Commit(c) ==
  /\ c \notin committed
  /\ committed' = committed \cup {c}
  /\ UNCHANGED <<announced, heard>>

Announce(c, reached) ==
  /\ c \in committed \ announced
  /\ announced' = announced \cup {c}
  /\ heard' = [l \in Listeners |-> IF l \in reached THEN heard[l] \cup {c} ELSE heard[l]]
  /\ UNCHANGED committed

Next ==
  \E c \in Changes : Commit(c) \/ \E reached \in SUBSET Listeners : Announce(c, reached)

Spec == Init /\ [][Next]_<<committed, announced, heard>>
=============================================================================
