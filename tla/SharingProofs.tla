---------------------------- MODULE SharingProofs ---------------------------
(***************************************************************************)
(* Theorems about what the crew and the public get to see, for every value *)
(* of the constants.  Delivery: the refinement of Publication, who hears   *)
(* of a change over the room, and who is told of it by mail.  Variants:    *)
(* the two copies of the main plan agree, the trip loses its main plan,    *)
(* and a closed link opens, only to requests that were overtaken or asked  *)
(* for it.                                                                 *)
(***************************************************************************)
EXTENDS Delivery, Variants, FiniteSetTheorems, TLAPS

-----------------------------------------------------------------------------
(* Delivery: types.                                                          *)

ChangesTyped ==
  /\ members \subseteq Users
  /\ mail \subseteq Users
  /\ change \in [Changes -> ChangeType]
  /\ rows \subseteq Row

\* A connection is in a room object exactly while its socket is open, or about
\* to be closed by a shutdown, and it is in the one it registered in.
HubTyped ==
  /\ room \in Sockets \cup {NoRoom}
  /\ conns \in [Sockets -> SUBSET Sockets]
  /\ socket \in [Sockets -> [is : SocketStates, home : Sockets \cup {NoRoom}]]
  /\ heard \in [Sockets -> SUBSET Changes]
  /\ overtaken \subseteq Sockets
  /\ \A r, s \in Sockets :
       s \in conns[r] <=> socket[s].is \in {"open", "closing"} /\ socket[s].home = r

LEMMA TypedParts == TypeOK <=> ChangesTyped /\ HubTyped
BY DEF TypeOK, ChangesTyped, HubTyped

LEMMA StagedTypes ==
  ASSUME NEW c \in Changes, NEW kind \in Kinds, NEW targets \in SUBSET Users
  PROVE  Staged(c, kind, targets) \subseteq Row
BY DEF Staged, EmailState, Row, EmailStates, Kinds

\* The steps of people and of requests leave the sockets alone; the steps of
\* sockets leave people and changes alone.
PeopleStep == \E u \in Users : Join(u) \/ Leave(u) \/ Unsubscribe(u)
ChangeStepOf(c) ==
  \/ \E u \in Users : Begin(c, u)
  \/ GuestComment(c) \/ TellOfGuest(c) \/ GuestFails(c)
  \/ ReadMembers(c) \/ StageComment(c) \/ StageMention(c)
  \/ Commit(c) \/ RollBack(c) \/ Flush(c)
ChangeStep == \E c \in Changes : ChangeStepOf(c)
SocketStep == CloseAll \/ \E s \in Sockets : Register(s) \/ Fail(s) \/ Close(s)

LEMMA Steps == Next <=> PeopleStep \/ ChangeStep \/ SocketStep \/ Restart \/ Sweep
BY DEF Next, PeopleStep, ChangeStep, ChangeStepOf, SocketStep

LEMMA SocketsKeepChanges == SocketStep => UNCHANGED <<people, change, rows, heard>>
BY DEF SocketStep, CloseAll, Register, Fail, Close

LEMMA OthersKeepHub == PeopleStep \/ ChangeStep \/ Sweep => UNCHANGED hub
BY DEF PeopleStep, Join, Leave, Unsubscribe, ChangeStep, ChangeStepOf, Begin, GuestComment, TellOfGuest,
   GuestFails, ReadMembers, StageComment, StageMention, Commit, RollBack, Flush, Sweep

\* What a restart does to each change.
LEMMA RestartChanges ==
  ASSUME Restart
  PROVE  /\ change' = [c \in Changes |-> change'[c]]
         /\ UNCHANGED <<people, rows, heard>>
         /\ \A c \in Changes :
              /\ change[c].at \in Running => change'[c] = [NoChange EXCEPT !.at = "failed"]
              /\ change[c].at \in {"committed"} \cup OfGuest =>
                   change'[c] = [change[c] EXCEPT !.at = "lost", !.told = {}]
              /\ change[c].at \notin Running \cup {"committed"} \cup OfGuest =>
                   change'[c] = change[c]
<1> DEFINE k(c) ==
      CASE change[c].at \in Running -> [NoChange EXCEPT !.at = "failed"]
        [] change[c].at \in {"committed"} \cup OfGuest ->
             [change[c] EXCEPT !.at = "lost", !.told = {}]
        [] OTHER -> change[c]
<1>1. change' = [c \in Changes |-> k(c)] /\ UNCHANGED <<people, rows, heard>>
  BY DEF Restart
<1>2. \A c \in Changes :
        /\ change[c].at \in Running => k(c) = [NoChange EXCEPT !.at = "failed"]
        /\ change[c].at \in {"committed"} \cup OfGuest =>
             k(c) = [change[c] EXCEPT !.at = "lost", !.told = {}]
        /\ change[c].at \notin Running \cup {"committed"} \cup OfGuest => k(c) = change[c]
  BY DEF Running, OfGuest
<1> HIDE DEF k
<1>3. \A c \in Changes : change'[c] = k(c)
  BY <1>1
<1>4. change' = [c \in Changes |-> change'[c]]
  BY <1>1
<1> QED
  BY <1>1, <1>2, <1>3, <1>4

LEMMA ChangesTypedStep ==
  ASSUME TypeOK, [Next]_vars
  PROVE  ChangesTyped'
<1>0. /\ ChangesTyped /\ HubTyped /\ Open \in SUBSET Sockets
      /\ \A c \in Changes : change[c] \in ChangeType
  BY TypedParts DEF Open, ChangesTyped
<1>n. NoChange \in ChangeType /\ [NoChange EXCEPT !.at = "failed"] \in ChangeType
  BY DEF NoChange, ChangeType
<1>1. CASE PeopleStep
  <2>1. CASE \E u \in Users : Join(u) \/ Unsubscribe(u)
    BY <1>0, <2>1 DEF Join, Unsubscribe, ChangesTyped
  <2>2. ASSUME NEW u \in Users, Leave(u) PROVE ChangesTyped'
    <3>1. ASSUME NEW c \in Changes
          PROVE  [change[c] EXCEPT !.due = @ \ {u}] \in ChangeType
      BY <1>0 DEF ChangeType
    <3> QED
      BY <1>0, <2>2, <3>1 DEF Leave, Forget, ChangesTyped
  <2> QED
    BY <1>1, <2>1, <2>2 DEF PeopleStep
<1>2. ASSUME NEW c \in Changes, NEW k \in ChangeType, change' = [change EXCEPT ![c] = k],
             UNCHANGED people, rows' \subseteq Row
      PROVE  ChangesTyped'
  BY <1>0, <1>2 DEF ChangesTyped, people
<1>3. CASE ChangeStep
  <2>1. PICK c \in Changes :
          \/ \E u \in Users : Begin(c, u)
          \/ GuestComment(c) \/ TellOfGuest(c) \/ GuestFails(c)
          \/ ReadMembers(c) \/ StageComment(c) \/ StageMention(c)
          \/ Commit(c) \/ RollBack(c) \/ Flush(c)
    BY <1>3 DEF ChangeStep, ChangeStepOf
  <2> DEFINE k == change[c]
  <2>0. k \in ChangeType /\ members \subseteq Users /\ rows \subseteq Row
    BY <1>0 DEF ChangesTyped
  <2>2. ASSUME NEW u \in Users, Begin(c, u) PROVE ChangesTyped'
    <3>1. PICK m \in Mentions :
            change' = [change EXCEPT ![c] =
              [NoChange EXCEPT !.at = "begun", !.by = u, !.mentions = m,
                               !.due = members \ {u}, !.muted = Users \ mail]]
      BY <2>2 DEF Begin
    <3>2. [NoChange EXCEPT !.at = "begun", !.by = u, !.mentions = m,
                           !.due = members \ {u}, !.muted = Users \ mail] \in ChangeType
      BY <2>0, DeliveryAssumption DEF NoChange, ChangeType, Running
    <3> QED
      BY <1>2, <2>0, <2>2, <3>1, <3>2 DEF Begin
  <2>3. CASE GuestComment(c)
    <3>1. [NoChange EXCEPT !.at = "guest", !.due = members, !.muted = Users \ mail] \in ChangeType
      BY <2>0 DEF NoChange, ChangeType, InDatabase, OfGuest
    <3> QED
      BY <1>2, <2>0, <2>3, <3>1 DEF GuestComment
  <2>4. CASE TellOfGuest(c)
    <3>1. [k EXCEPT !.at = "told", !.told = {}] \in ChangeType
      BY <2>0 DEF ChangeType, InDatabase
    <3>2. k.told \in SUBSET Users
      BY <2>0 DEF ChangeType
    <3>3. rows' \subseteq Row
      BY <2>0, <2>4, <3>2, StagedTypes DEF TellOfGuest, Kinds
    <3> QED
      BY <1>2, <2>4, <3>1, <3>3 DEF TellOfGuest
  <2>5. CASE GuestFails(c)
    <3>1. [k EXCEPT !.at = "lost", !.told = {}] \in ChangeType
      BY <2>0 DEF ChangeType, InDatabase
    <3> QED
      BY <1>2, <2>0, <2>5, <3>1 DEF GuestFails
  <2>6. CASE ReadMembers(c)
    <3>1. [k EXCEPT !.at = IF @ = "begun" THEN "members" ELSE "guest members",
                    !.told = members \ {k.by}] \in ChangeType
      BY <2>0 DEF ChangeType, InDatabase, OfGuest, Running
    <3>2. change' = [change EXCEPT
            ![c] = [k EXCEPT !.at = IF @ = "begun" THEN "members" ELSE "guest members",
                             !.told = members \ {k.by}]]
      BY <1>0, <2>6 DEF ReadMembers, ChangesTyped
    <3> QED
      BY <1>2, <2>0, <2>6, <3>1, <3>2 DEF ReadMembers
  <2>7. CASE StageComment(c)
    <3>1. k.told \in SUBSET Users
      BY <2>0 DEF ChangeType
    <3>2. Staged(c, "COMMENT", k.told) \subseteq Row
      BY <3>1, StagedTypes DEF Kinds
    <3>3. [k EXCEPT !.at = "comment", !.staged = Staged(c, "COMMENT", k.told)] \in ChangeType
      BY <2>0, <3>2 DEF ChangeType, Running
    <3> QED
      BY <1>2, <2>0, <2>7, <3>3 DEF StageComment
  <2>8. CASE StageMention(c)
    <3>1. k.mentions \ {k.by} \in SUBSET Users
      BY <2>0 DEF ChangeType
    <3>2. Staged(c, "MENTION", k.mentions \ {k.by}) \subseteq Row
      BY <3>1, StagedTypes DEF Kinds
    <3>3. [k EXCEPT !.at = "staged",
                    !.staged = @ \cup Staged(c, "MENTION", k.mentions \ {k.by})] \in ChangeType
      BY <2>0, <3>2 DEF ChangeType, Running
    <3> QED
      BY <1>2, <2>0, <2>8, <3>3 DEF StageMention
  <2>9. CASE Commit(c)
    <3>1. PICK acknowledged \in BOOLEAN :
            change' = [change EXCEPT ![c].at = IF acknowledged THEN "committed" ELSE "lost",
                                     ![c].staged = {}, ![c].told = {}, ![c].audience = Open]
      BY <2>9 DEF Commit
    <3>2. [k EXCEPT !.at = IF acknowledged THEN "committed" ELSE "lost",
                    !.staged = {}, !.told = {}, !.audience = Open] \in ChangeType
      BY <1>0, <2>0 DEF ChangeType, InDatabase
    <3>3. rows' \subseteq Row
      BY <2>0, <2>9 DEF Commit, ChangeType
    <3>4. change' = [change EXCEPT
            ![c] = [k EXCEPT !.at = IF acknowledged THEN "committed" ELSE "lost",
                             !.staged = {}, !.told = {}, !.audience = Open]]
      BY <1>0, <3>1 DEF ChangesTyped
    <3> QED
      BY <1>2, <2>9, <3>2, <3>3, <3>4 DEF Commit
  <2>10. CASE RollBack(c)
    BY <1>2, <1>n, <2>0, <2>10 DEF RollBack
  <2>11. CASE Flush(c)
    <3>1. [k EXCEPT !.at = "done"] \in ChangeType
      BY <2>0 DEF ChangeType, InDatabase
    <3> QED
      BY <1>2, <2>0, <2>11, <3>1 DEF Flush
  <2> QED
    BY <2>1, <2>2, <2>3, <2>4, <2>5, <2>6, <2>7, <2>8, <2>9, <2>10, <2>11
<1>4. CASE SocketStep \/ UNCHANGED vars
  BY <1>0, <1>4, SocketsKeepChanges DEF ChangesTyped, vars, people
<1>5. CASE Restart
  <2>1. ASSUME NEW c \in Changes PROVE change'[c] \in ChangeType
    <3>1. [change[c] EXCEPT !.at = "lost", !.told = {}] \in ChangeType
      BY <1>0 DEF ChangeType, InDatabase
    <3>2. \/ change'[c] = [NoChange EXCEPT !.at = "failed"]
          \/ change'[c] = [change[c] EXCEPT !.at = "lost", !.told = {}]
          \/ change'[c] = change[c]
      BY <1>5, RestartChanges
    <3> QED
      BY <1>0, <1>n, <3>1, <3>2
  <2>2. change' = [c \in Changes |-> change'[c]] /\ UNCHANGED <<people, rows>>
    BY <1>5, RestartChanges
  <2> QED
    BY <1>0, <2>1, <2>2 DEF ChangesTyped, people
<1>6. CASE Sweep
  <2>1. \A n \in Row : [n EXCEPT !.email = "SENT"] \in Row
    BY DEF Row, EmailStates
  <2> QED
    BY <1>0, <1>6, <2>1 DEF Sweep, ChangesTyped, people
<1> QED
  BY <1>1, <1>3, <1>4, <1>5, <1>6, Steps

LEMMA RegisterTyped ==
  ASSUME TypeOK, NEW s \in Sockets, Register(s)
  PROVE  HubTyped'
<1>0. HubTyped
  BY TypedParts
<1> DEFINE home == IF room = NoRoom THEN s ELSE room
<1>1. /\ socket[s] = Away /\ home \in Sockets /\ room' = home
      /\ conns' = [conns EXCEPT ![home] = @ \cup {s}]
      /\ socket' = [socket EXCEPT ![s] = [is |-> "open", home |-> home]]
      /\ UNCHANGED <<heard, overtaken>>
  BY <1>0 DEF Register, HubTyped
<1> HIDE DEF home
<1>2. /\ room' \in Sockets \cup {NoRoom} /\ conns' \in [Sockets -> SUBSET Sockets]
      /\ socket' \in [Sockets -> [is : SocketStates, home : Sockets \cup {NoRoom}]]
  BY <1>0, <1>1 DEF HubTyped, SocketStates
<1>3. \A r \in Sockets : s \notin conns[r]
  BY <1>0, <1>1 DEF HubTyped, Away
<1>4. ASSUME NEW r \in Sockets, NEW t \in Sockets
      PROVE  t \in conns'[r] <=> socket'[t].is \in {"open", "closing"} /\ socket'[t].home = r
  <2>1. conns'[r] = IF r = home THEN conns[r] \cup {s} ELSE conns[r]
    BY <1>0, <1>1 DEF HubTyped
  <2>2. CASE t = s
    <3>1. socket'[t].is = "open" /\ socket'[t].home = home
      BY <1>0, <1>1, <2>2 DEF HubTyped
    <3> QED
      BY <1>3, <2>1, <2>2, <3>1
  <2>3. CASE t # s
    <3>1. socket'[t] = socket[t]
      BY <1>0, <1>1, <2>3 DEF HubTyped
    <3> QED
      BY <1>0, <2>1, <2>3, <3>1 DEF HubTyped
  <2> QED
    BY <2>2, <2>3
<1> QED
  BY <1>0, <1>1, <1>2, <1>4 DEF HubTyped

\* Fail and Close are a cleanup and a socket that is no longer in its room.
LEMMA Cleaned ==
  ASSUME TypeOK, NEW s \in Sockets, Fail(s) \/ Close(s)
  PROVE  /\ Cleanup(s) /\ NoteLate(s) /\ UNCHANGED heard
         /\ socket[s].is # "away"
         /\ socket' \in [Sockets -> [is : SocketStates, home : Sockets \cup {NoRoom}]]
         /\ socket'[s].is \in {"failed", "closed"}
         /\ \A t \in Sockets \ {s} : socket'[t] = socket[t]
<1>0. HubTyped
  BY TypedParts
<1>1. CASE Fail(s)
  BY <1>0, <1>1 DEF Fail, HubTyped, SocketStates
<1>2. CASE Close(s)
  BY <1>0, <1>2 DEF Close, HubTyped, SocketStates, Gone
<1> QED
  BY <1>1, <1>2

LEMMA CleanupTyped ==
  ASSUME TypeOK, NEW s \in Sockets, Fail(s) \/ Close(s)
  PROVE  HubTyped'
<1>0. HubTyped
  BY TypedParts
<1>1. /\ Cleanup(s) /\ NoteLate(s) /\ UNCHANGED heard
      /\ socket' \in [Sockets -> [is : SocketStates, home : Sockets \cup {NoRoom}]]
      /\ socket'[s].is \in {"failed", "closed"}
      /\ \A t \in Sockets \ {s} : socket'[t] = socket[t]
  BY Cleaned
<1>2. overtaken' \subseteq Sockets
  BY <1>0, <1>1 DEF NoteLate, HubTyped, Open
<1>3. conns' \in [Sockets -> SUBSET Sockets] /\ room' \in Sockets \cup {NoRoom}
  BY <1>0, <1>1 DEF Cleanup, HubTyped
<1>4. ASSUME NEW r \in Sockets, NEW t \in Sockets
      PROVE  t \in conns'[r] <=> socket'[t].is \in {"open", "closing"} /\ socket'[t].home = r
  <2>1. conns'[r] = IF r = socket[s].home THEN conns[r] \ {s} ELSE conns[r]
    BY <1>0, <1>1 DEF Cleanup, HubTyped
  <2>2. CASE t = s
    <3>1. t \notin conns'[r]
      BY <1>0, <2>1, <2>2 DEF HubTyped
    <3> QED
      BY <1>1, <2>2, <3>1
  <2>3. CASE t # s
    BY <1>0, <1>1, <2>1, <2>3 DEF HubTyped
  <2> QED
    BY <2>2, <2>3
<1> QED
  BY <1>0, <1>1, <1>2, <1>3, <1>4 DEF HubTyped

LEMMA CloseAllTyped ==
  ASSUME TypeOK, CloseAll
  PROVE  HubTyped'
<1>0. HubTyped
  BY TypedParts
<1>1. ASSUME NEW t \in Sockets
      PROVE  /\ socket'[t] \in [is : SocketStates, home : Sockets \cup {NoRoom}]
             /\ socket'[t].home = socket[t].home
             /\ socket'[t].is \in {"open", "closing"} <=> socket[t].is \in {"open", "closing"}
  <2>1. CASE room # NoRoom /\ t \in conns[room]
    <3>1. socket'[t] = [socket[t] EXCEPT !.is = "closing"]
      BY <2>1 DEF CloseAll
    <3>2. socket[t].is \in {"open", "closing"}
      BY <1>0, <2>1 DEF HubTyped
    <3> QED
      BY <1>0, <3>1, <3>2 DEF HubTyped, SocketStates
  <2>2. CASE ~(room # NoRoom /\ t \in conns[room])
    <3>1. socket'[t] = socket[t]
      BY <2>2 DEF CloseAll
    <3> QED
      BY <1>0, <3>1 DEF HubTyped
  <2> QED
    BY <2>1, <2>2
<1>2. socket' = [t \in Sockets |-> socket'[t]] /\ room' = NoRoom /\ UNCHANGED <<conns, heard, overtaken>>
  BY DEF CloseAll
<1>3. socket' \in [Sockets -> [is : SocketStates, home : Sockets \cup {NoRoom}]]
  BY <1>1, <1>2
<1> QED
  BY <1>0, <1>1, <1>2, <1>3 DEF HubTyped

LEMMA RestartHub ==
  ASSUME TypeOK, Restart
  PROVE  /\ HubTyped' /\ UNCHANGED heard
         /\ \A s \in Sockets : socket'[s].is \in {"away", "closed"}
         /\ \A s \in Sockets : socket'[s].is = "away" => socket[s].is = "away"
<1>0. HubTyped
  BY TypedParts
<1>1. /\ room' = NoRoom /\ conns' = [s \in Sockets |-> {}] /\ overtaken' = {} /\ UNCHANGED heard
      /\ socket' = [s \in Sockets |-> IF socket[s] = Away THEN Away ELSE Gone]
  BY DEF Restart
<1>2. Away.is = "away" /\ Gone.is = "closed"
  BY DEF Away, Gone
<1>3. Away \in [is : SocketStates, home : Sockets \cup {NoRoom}]
      /\ Gone \in [is : SocketStates, home : Sockets \cup {NoRoom}]
  BY DEF Away, Gone, SocketStates
<1>4. \A s \in Sockets : socket'[s] = IF socket[s] = Away THEN Away ELSE Gone
  BY <1>1
<1>5. \A s \in Sockets : socket'[s].is \in {"away", "closed"}
                         /\ (socket'[s].is = "away" => socket[s].is = "away")
  BY <1>2, <1>4
<1>6. socket' \in [Sockets -> [is : SocketStates, home : Sockets \cup {NoRoom}]]
  BY <1>1, <1>3
<1>7. \A r \in Sockets : conns'[r] = {}
  BY <1>1
<1> QED
  BY <1>0, <1>1, <1>5, <1>6, <1>7 DEF HubTyped

LEMMA TypesStart == Init => TypeOK
<1> SUFFICES ASSUME Init PROVE TypeOK
  OBVIOUS
<1>1. NoChange \in ChangeType
  BY DEF NoChange, ChangeType
<1>2. Away \in [is : SocketStates, home : Sockets \cup {NoRoom}] /\ Away.is = "away"
  BY DEF Away, SocketStates
<1> QED
  BY <1>1, <1>2 DEF Init, TypeOK

LEMMA TypesStep == TypeOK /\ [Next]_vars => TypeOK'
<1> SUFFICES ASSUME TypeOK, [Next]_vars PROVE HubTyped'
  BY TypedParts, ChangesTypedStep DEF TypeOK, ChangesTyped, HubTyped
<1>0. HubTyped
  BY TypedParts
<1>1. CASE PeopleStep \/ ChangeStep \/ Sweep \/ UNCHANGED vars
  <2>1. UNCHANGED hub
    BY <1>1, OthersKeepHub DEF vars
  <2>2. heard' \in [Sockets -> SUBSET Changes]
    <3>1. CASE UNCHANGED heard
      BY <1>0, <3>1 DEF HubTyped
    <3>2. ASSUME NEW c \in Changes, Flush(c) PROVE heard' \in [Sockets -> SUBSET Changes]
      BY <1>0, <3>2 DEF Flush, HubTyped
    <3>3. UNCHANGED heard \/ \E c \in Changes : Flush(c)
      BY <1>1 DEF vars, PeopleStep, Join, Leave, Unsubscribe, ChangeStep, ChangeStepOf, Begin, GuestComment,
         TellOfGuest, GuestFails, ReadMembers, StageComment, StageMention, Commit, RollBack, Sweep
    <3> QED
      BY <3>1, <3>2, <3>3
  <2> QED
    BY <1>0, <2>1, <2>2 DEF HubTyped, hub
<1>2. CASE SocketStep
  BY <1>2, RegisterTyped, CleanupTyped, CloseAllTyped DEF SocketStep
<1>3. CASE Restart
  BY <1>3, RestartHub
<1> QED
  BY <1>1, <1>2, <1>3, Steps

\* Each connection is in one room object at most, the one it registered in.
THEOREM DeliveryTypes == Spec => []TypeOK
BY TypesStart, TypesStep, PTL DEF Spec

-----------------------------------------------------------------------------
(* Delivery: the refinement of Publication.                                  *)

\* What is committed, and what is announced, depends on where the changes are.
Committed == {c \in Changes : change[c].at \in InDatabase}
Announced == {c \in Changes : change[c].at = "done"}

\* Each step of a request moves its own change, from one place to another.
LEMMA Moves ==
  ASSUME TypeOK, NEW c \in Changes
  PROVE  /\ \A d \in Changes \ {c} : ChangeStepOf(c) => change'[d] = change[d]
         /\ ChangeStepOf(c) => change' = [change EXCEPT ![c] = change'[c]]
         /\ GuestComment(c) => change[c].at = "none" /\ change'[c].at = "guest"
         /\ \A u \in Users : Begin(c, u) => change[c].at = "none" /\ change'[c].at = "begun"
         /\ TellOfGuest(c) => change[c].at = "guest members" /\ change'[c].at = "told"
         /\ GuestFails(c) => change[c].at \in OfGuest /\ change'[c].at = "lost"
         /\ ReadMembers(c) =>
              \/ change[c].at = "begun" /\ change'[c].at = "members"
              \/ change[c].at = "guest" /\ change'[c].at = "guest members"
         /\ StageComment(c) => change[c].at = "members" /\ change'[c].at = "comment"
         /\ StageMention(c) => change[c].at = "comment" /\ change'[c].at = "staged"
         /\ Commit(c) => change[c].at = "staged" /\ change'[c].at \in {"committed", "lost"}
         /\ RollBack(c) => change[c].at \in Running /\ change'[c].at = "failed"
         /\ Flush(c) => change[c].at = "committed" /\ change'[c].at = "done"
<1>1. change \in [Changes -> ChangeType] /\ change[c] \in ChangeType
  BY DEF TypeOK
<1>2. ASSUME NEW u \in Users, Begin(c, u) PROVE change[c].at = "none" /\ change'[c].at = "begun"
  <2>1. PICK m \in Mentions :
          change' = [change EXCEPT ![c] =
            [NoChange EXCEPT !.at = "begun", !.by = u, !.mentions = m,
                             !.due = members \ {u}, !.muted = Users \ mail]]
    BY <1>2 DEF Begin
  <2>2. change'[c] = [NoChange EXCEPT !.at = "begun", !.by = u, !.mentions = m,
                                      !.due = members \ {u}, !.muted = Users \ mail]
    BY <1>1, <2>1
  <2>3. change'[c].at = "begun"
    BY <2>2 DEF NoChange
  <2> QED
    BY <1>2, <2>3 DEF Begin
<1>3. ASSUME GuestComment(c) PROVE change[c].at = "none" /\ change'[c].at = "guest"
  <2>1. change'[c] = [NoChange EXCEPT !.at = "guest", !.due = members, !.muted = Users \ mail]
    BY <1>1, <1>3 DEF GuestComment
  <2>2. change'[c].at = "guest"
    BY <2>1 DEF NoChange
  <2> QED
    BY <1>3, <2>2 DEF GuestComment
<1>4. ASSUME TellOfGuest(c) PROVE change[c].at = "guest members" /\ change'[c].at = "told"
  <2>1. change' = [change EXCEPT ![c].at = "told", ![c].told = {}]
    BY <1>4 DEF TellOfGuest
  <2>2. change'[c].at = "told"
    BY <1>1, <2>1 DEF ChangeType
  <2> QED
    BY <1>4, <2>2 DEF TellOfGuest
<1>5. GuestFails(c) => change[c].at \in OfGuest /\ change'[c].at = "lost"
  BY <1>1 DEF GuestFails, ChangeType
<1>6. ASSUME ReadMembers(c)
      PROVE  \/ change[c].at = "begun" /\ change'[c].at = "members"
             \/ change[c].at = "guest" /\ change'[c].at = "guest members"
  <2>1. change' = [change EXCEPT ![c].at = IF @ = "begun" THEN "members" ELSE "guest members",
                                 ![c].told = members \ {change[c].by}]
    BY <1>6 DEF ReadMembers
  <2>2. change'[c].at = IF change[c].at = "begun" THEN "members" ELSE "guest members"
    BY <1>1, <2>1 DEF ChangeType
  <2> QED
    BY <1>6, <2>2 DEF ReadMembers
<1>7. StageComment(c) => change[c].at = "members" /\ change'[c].at = "comment"
  BY <1>1 DEF StageComment, ChangeType
<1>8. StageMention(c) => change[c].at = "comment" /\ change'[c].at = "staged"
  BY <1>1 DEF StageMention, ChangeType
<1>9. Commit(c) => change[c].at = "staged" /\ change'[c].at \in {"committed", "lost"}
  BY <1>1 DEF Commit, ChangeType
<1>10. RollBack(c) => change[c].at \in Running /\ change'[c].at = "failed"
  BY <1>1 DEF RollBack, NoChange
<1>11. Flush(c) => change[c].at = "committed" /\ change'[c].at = "done"
  BY <1>1 DEF Flush, ChangeType
<1>12. ASSUME ChangeStepOf(c)
       PROVE  /\ \A d \in Changes \ {c} : change'[d] = change[d]
              /\ change' = [change EXCEPT ![c] = change'[c]]
  <2>1. CASE \E u \in Users : Begin(c, u)
    BY <1>1, <2>1 DEF Begin
  <2>2. CASE GuestComment(c)
    BY <1>1, <2>2 DEF GuestComment
  <2>3. CASE TellOfGuest(c) \/ GuestFails(c)
    BY <1>1, <2>3 DEF TellOfGuest, GuestFails
  <2>4. CASE ReadMembers(c)
    BY <1>1, <2>4 DEF ReadMembers
  <2>5. CASE StageComment(c) \/ StageMention(c)
    BY <1>1, <2>5 DEF StageComment, StageMention
  <2>6. CASE Commit(c)
    BY <1>1, <2>6 DEF Commit
  <2>7. CASE RollBack(c) \/ Flush(c)
    BY <1>1, <2>7 DEF RollBack, Flush
  <2> QED
    BY <1>12, <2>1, <2>2, <2>3, <2>4, <2>5, <2>6, <2>7 DEF ChangeStepOf
<1> QED
  BY <1>2, <1>3, <1>4, <1>5, <1>6, <1>7, <1>8, <1>9, <1>10, <1>11, <1>12

LEMMA OneChangePublishes ==
  ASSUME TypeOK, NEW c \in Changes, NEW k \in ChangeType, change' = [change EXCEPT ![c] = k],
         UNCHANGED heard, k.at # "done", change[c].at # "done",
         change[c].at \in InDatabase => k.at \in InDatabase
  PROVE  [Published!Next]_<<Committed, Announced, heard>>
<1>1. change'[c] = k /\ \A d \in Changes \ {c} : change'[d] = change[d]
  BY DEF TypeOK
<1>2. Announced' = Announced
  BY <1>1 DEF Announced
<1>3. CASE k.at \in InDatabase /\ change[c].at \notin InDatabase
  <2>1. Committed' = Committed \cup {c} /\ c \notin Committed
    BY <1>1, <1>3 DEF Committed
  <2> QED
    BY <1>2, <2>1 DEF Published!Next, Published!Commit, Committed, Announced
<1>4. CASE ~(k.at \in InDatabase /\ change[c].at \notin InDatabase)
  <2>1. Committed' = Committed
    BY <1>1, <1>4 DEF Committed
  <2> QED
    BY <1>2, <2>1
<1> QED
  BY <1>3, <1>4

LEMMA FlushPublishes ==
  ASSUME TypeOK, NEW c \in Changes, Flush(c)
  PROVE  [Published!Next]_<<Committed, Announced, heard>>
<1> DEFINE reached == IF room = NoRoom THEN {} ELSE conns[room] \cap Open
<1>1. /\ change[c].at = "committed" /\ change' = [change EXCEPT ![c].at = "done"]
      /\ heard' = [s \in Sockets |-> IF s \in reached THEN heard[s] \cup {c} ELSE heard[s]]
  BY DEF Flush
<1>2. change'[c].at = "done" /\ \A d \in Changes \ {c} : change'[d] = change[d]
  BY <1>1 DEF TypeOK, ChangeType
<1>3. Committed' = Committed /\ c \in Committed
  BY <1>1, <1>2 DEF Committed, InDatabase
<1>4. Announced' = Announced \cup {c} /\ c \notin Announced
  BY <1>1, <1>2 DEF Announced
<1>5. reached \in SUBSET Sockets
  BY DEF Open
<1> HIDE DEF reached
<1>6. Published!Announce(c, reached)
  BY <1>1, <1>3, <1>4 DEF Published!Announce, Committed, Announced
<1>7. Published!Next
  BY <1>5, <1>6 DEF Published!Next, Published!Announce
<1> QED
  BY <1>7

LEMMA StepPublishes ==
  ASSUME TypeOK, TypeOK', [Next]_vars
  PROVE  [Published!Next]_<<Committed, Announced, heard>>
<1>0. \A c \in Changes : change[c] \in ChangeType /\ change'[c] \in ChangeType
  BY DEF TypeOK
<1>1. CASE UNCHANGED <<change, heard>>
  BY <1>1 DEF Committed, Announced
<1>2. CASE PeopleStep
  <2>1. CASE \E u \in Users : Join(u) \/ Unsubscribe(u)
    BY <1>1, <2>1 DEF Join, Unsubscribe
  <2>2. ASSUME NEW u \in Users, Leave(u)
        PROVE  [Published!Next]_<<Committed, Announced, heard>>
    <3>1. \A c \in Changes : change'[c].at = change[c].at
      BY <1>0, <2>2 DEF Leave, Forget, ChangeType
    <3>2. Committed' = Committed /\ Announced' = Announced
      BY <3>1 DEF Committed, Announced
    <3> QED
      BY <2>2, <3>2 DEF Leave
  <2> QED
    BY <1>2, <2>1, <2>2 DEF PeopleStep
<1>3. CASE ChangeStep
  <2>1. PICK c \in Changes :
          \/ \E u \in Users : Begin(c, u)
          \/ GuestComment(c) \/ TellOfGuest(c) \/ GuestFails(c)
          \/ ReadMembers(c) \/ StageComment(c) \/ StageMention(c)
          \/ Commit(c) \/ RollBack(c) \/ Flush(c)
    BY <1>3 DEF ChangeStep, ChangeStepOf
  <2>2. CASE Flush(c)
    BY <2>2, FlushPublishes
  <2>3. CASE ~Flush(c)
    <3> DEFINE k == change'[c]
    <3>1. UNCHANGED heard /\ change[c].at # "done"
      BY <2>1, <2>3 DEF Begin, GuestComment, TellOfGuest, GuestFails, ReadMembers, StageComment,
         StageMention, Commit, RollBack, Running, OfGuest
    <3>2. change' = [change EXCEPT ![c] = k]
      BY <2>1, Moves DEF ChangeStepOf
    <3>3. k.at # "done" /\ (change[c].at \in InDatabase => k.at \in InDatabase)
      BY <2>1, <2>3, Moves DEF InDatabase, OfGuest, Running
    <3>4. k \in ChangeType
      BY <1>0
    <3> HIDE DEF k
    <3> QED
      BY <3>1, <3>2, <3>3, <3>4, OneChangePublishes
  <2> QED
    BY <2>2, <2>3
<1>4. CASE SocketStep \/ Sweep \/ UNCHANGED vars
  BY <1>1, <1>4, SocketsKeepChanges DEF Sweep, vars
<1>5. CASE Restart
  <2>1. ASSUME NEW c \in Changes
        PROVE  /\ change'[c].at \in InDatabase <=> change[c].at \in InDatabase
               /\ change'[c].at = "done" <=> change[c].at = "done"
    <3>1. CASE change[c].at \in Running
      BY <1>5, <3>1, RestartChanges DEF NoChange, InDatabase, OfGuest, Running
    <3>2. CASE change[c].at \in {"committed"} \cup OfGuest
      <4>1. change'[c].at = "lost"
        BY <1>0, <1>5, <3>2, RestartChanges DEF ChangeType
      <4> QED
        BY <3>2, <4>1 DEF InDatabase, OfGuest
    <3>3. CASE change[c].at \notin Running \cup {"committed"} \cup OfGuest
      BY <1>5, <3>3, RestartChanges
    <3> QED
      BY <3>1, <3>2, <3>3
  <2>2. Committed' = Committed /\ Announced' = Announced /\ UNCHANGED heard
    BY <1>5, <2>1, RestartChanges DEF Committed, Announced
  <2> QED
    BY <2>2
<1> QED
  BY <1>2, <1>3, <1>4, <1>5, Steps

\* Clients hear of a change only once it has committed, and the service tells
\* them of it at most once, whatever fails, restarts and reconnects there are.
THEOREM DeliveryPublishes == Spec => Publishes
<1>1. Init => Published!Init
  <2> SUFFICES ASSUME Init PROVE Published!Init
    OBVIOUS
  <2>1. \A c \in Changes : change[c].at = "none"
    BY DEF Init, NoChange
  <2>2. Committed = {} /\ Announced = {}
    BY <2>1 DEF Committed, Announced, InDatabase, OfGuest
  <2> QED
    BY <2>2 DEF Init, Published!Init, Committed, Announced
<1>2. TypeOK /\ TypeOK' /\ [Next]_vars =>
        [Published!Next]_<<{c \in Changes : change[c].at \in InDatabase},
                           {c \in Changes : change[c].at = "done"}, heard>>
  BY StepPublishes DEF Committed, Announced
<1> QED
  BY <1>1, <1>2, DeliveryTypes, PTL DEF Spec, Publishes, Published!Spec

-----------------------------------------------------------------------------
(* Delivery: who hears.                                                      *)

\* An open socket nobody has overtaken is in the room the map holds; a socket
\* that is not connected yet is in nobody's audience.
InMap == \A s \in Open \ overtaken : room \in Sockets /\ socket[s].home = room
AudienceConnected ==
  \A c \in Changes, s \in Sockets : s \in change[c].audience => socket[s].is # "away"

HearInv ==
  /\ TypeOK
  /\ InMap
  /\ AudienceConnected
  /\ HearUnlessOvertaken

LEMMA HearStarts == Init => HearInv
<1> SUFFICES ASSUME Init PROVE HearInv
  OBVIOUS
<1>1. Open = {}
  BY DEF Init, Open, Away
<1>2. \A c \in Changes : change[c].audience = {}
  BY DEF Init, NoChange
<1> QED
  BY <1>1, <1>2, TypesStart DEF HearInv, InMap, AudienceConnected, HearUnlessOvertaken, Hears

\* What a step has to show: sockets open are open already, or new, and an
\* audience is the sockets open at that moment.
LEMMA HearStep1 ==
  ASSUME HearInv, TypeOK', InMap',
         \A s \in Sockets : socket'[s].is = "away" => socket[s].is = "away",
         \A s \in Sockets : socket'[s].is = "open" => socket[s].is \in {"away", "open"},
         \A s \in Sockets : socket'[s].is = "open" /\ socket[s].is = "open" /\ s \in overtaken =>
           s \in overtaken',
         \A s \in Sockets : heard[s] \subseteq heard'[s],
         \A c \in Changes : change'[c].at = "done" =>
           change[c].at = "done" /\ change'[c].audience = change[c].audience,
         \A c \in Changes, s \in Sockets :
           s \in change'[c].audience => s \in change[c].audience \/ socket[s].is = "open"
  PROVE  HearInv'
<1>1. AudienceConnected'
  BY DEF HearInv, AudienceConnected
<1>2. ASSUME NEW s \in Sockets \ overtaken', NEW c \in Changes, change'[c].at = "done",
             s \in change'[c].audience, socket'[s].is = "open"
      PROVE  c \in heard'[s]
  <2>1. socket[s].is = "open" /\ s \notin overtaken
    BY <1>2 DEF HearInv, AudienceConnected
  <2> QED
    BY <1>2, <2>1 DEF HearInv, HearUnlessOvertaken, Hears, Open
<1>3. HearUnlessOvertaken'
  BY <1>2 DEF HearUnlessOvertaken, Hears, Open
<1> QED
  BY <1>1, <1>3 DEF HearInv

\* A step that leaves the sockets alone.
LEMMA HearOthers ==
  ASSUME HearInv, TypeOK', UNCHANGED hub,
         \A s \in Sockets : heard[s] \subseteq heard'[s],
         \A c \in Changes : change'[c].at = "done" =>
           change[c].at = "done" /\ change'[c].audience = change[c].audience,
         \A c \in Changes, s \in Sockets :
           s \in change'[c].audience => s \in change[c].audience \/ socket[s].is = "open"
  PROVE  HearInv'
<1>1. InMap'
  BY DEF HearInv, InMap, Open, hub
<1> QED
  BY <1>1, HearStep1 DEF hub

LEMMA RegisterHears ==
  ASSUME HearInv, TypeOK', NEW s \in Sockets, Register(s)
  PROVE  HearInv'
<1>0. HubTyped
  BY TypedParts DEF HearInv
<1> DEFINE home == IF room = NoRoom THEN s ELSE room
<1>1. /\ socket[s] = Away /\ home \in Sockets /\ room' = home
      /\ socket' = [socket EXCEPT ![s] = [is |-> "open", home |-> home]]
      /\ UNCHANGED <<change, heard, overtaken>>
  BY <1>0 DEF Register, HubTyped
<1>2. /\ socket[s].is = "away"
      /\ socket'[s].is = "open" /\ socket'[s].home = home
      /\ \A t \in Sockets \ {s} : socket'[t] = socket[t]
  BY <1>0, <1>1 DEF HubTyped, Away
<1>3. InMap'
  <2> SUFFICES ASSUME NEW t \in Sockets \ overtaken', socket'[t].is = "open"
               PROVE  room' \in Sockets /\ socket'[t].home = room'
    BY DEF InMap, Open
  <2>1. CASE t = s
    BY <1>1, <1>2, <2>1
  <2>2. CASE t # s
    <3>1. room \in Sockets /\ socket[t].home = room
      BY <1>1, <1>2, <2>2 DEF HearInv, InMap, Open
    <3> QED
      BY <1>1, <1>2, <2>2, <3>1, DeliveryAssumption
  <2> QED
    BY <2>1, <2>2
<1> QED
  BY <1>1, <1>2, <1>3, HearStep1

\* A cleanup in time takes a room down only when it is empty; after a late one
\* every socket that is open counts as overtaken.
LEMMA CleanupHears ==
  ASSUME HearInv, TypeOK', NEW s \in Sockets, Fail(s) \/ Close(s)
  PROVE  HearInv'
<1>0. TypeOK /\ HubTyped
  BY TypedParts DEF HearInv
<1>1. /\ Cleanup(s) /\ NoteLate(s) /\ UNCHANGED heard
      /\ socket[s].is # "away"
      /\ socket'[s].is \in {"failed", "closed"}
      /\ \A t \in Sockets \ {s} : socket'[t] = socket[t]
  BY <1>0, Cleaned
<1>2. UNCHANGED change
  BY DEF Fail, Close
<1>3. CASE socket[s].is = "open" /\ s \notin overtaken
  <2>1. overtaken' = overtaken \ {s}
    BY <1>1, <1>3 DEF NoteLate
  <2>2. room \in Sockets /\ socket[s].home = room
    BY <1>3 DEF HearInv, InMap, Open
  <2>3. conns'[room] = conns[room] \ {s} /\ room' = IF conns'[room] = {} THEN NoRoom ELSE room
    BY <1>0, <1>1, <2>2 DEF Cleanup, HubTyped
  <2>4. InMap'
    <3> SUFFICES ASSUME NEW t \in Sockets \ overtaken', socket'[t].is = "open"
                 PROVE  room' \in Sockets /\ socket'[t].home = room'
      BY DEF InMap, Open
    <3>1. t # s /\ socket[t].is = "open" /\ t \notin overtaken /\ socket'[t] = socket[t]
      BY <1>1, <2>1
    <3>2. socket[t].home = room
      BY <3>1 DEF HearInv, InMap, Open
    <3>3. t \in conns'[room]
      BY <1>0, <2>2, <2>3, <3>1, <3>2 DEF HubTyped
    <3> QED
      BY <2>2, <2>3, <3>1, <3>2, <3>3
  <2> QED
    BY <1>1, <1>2, <2>1, <2>4, HearStep1
<1>4. CASE ~(socket[s].is = "open" /\ s \notin overtaken)
  <2>1. overtaken' = Open \ {s}
    BY <1>1, <1>4 DEF NoteLate
  <2>2. \A t \in Sockets : socket'[t].is = "open" => t \in overtaken'
    BY <1>1, <2>1 DEF Open
  <2>3. InMap'
    BY <2>2 DEF InMap, Open
  <2> QED
    BY <1>1, <1>2, <2>2, <2>3, HearStep1
<1> QED
  BY <1>3, <1>4

LEMMA CloseAllHears ==
  ASSUME HearInv, TypeOK', CloseAll
  PROVE  HearInv'
<1>0. HubTyped
  BY TypedParts DEF HearInv
<1>1. /\ UNCHANGED <<change, heard, overtaken>>
      /\ \A t \in Sockets :
           socket'[t] = IF room # NoRoom /\ t \in conns[room] THEN [socket[t] EXCEPT !.is = "closing"]
                        ELSE socket[t]
  BY DEF CloseAll
<1>2. \A t \in Sockets :
        \/ socket'[t] = socket[t] /\ ~(room \in Sockets /\ t \in conns[room])
        \/ socket'[t].is = "closing"
  <2> SUFFICES ASSUME NEW t \in Sockets
               PROVE  \/ socket'[t] = socket[t] /\ ~(room \in Sockets /\ t \in conns[room])
                      \/ socket'[t].is = "closing"
    OBVIOUS
  <2>1. CASE room # NoRoom /\ t \in conns[room]
    <3>1. socket'[t] = [socket[t] EXCEPT !.is = "closing"]
      BY <1>1, <2>1
    <3> QED
      BY <1>0, <3>1 DEF HubTyped
  <2>2. CASE ~(room # NoRoom /\ t \in conns[room])
    BY <1>1, <2>2, DeliveryAssumption
  <2> QED
    BY <2>1, <2>2
<1>3. InMap'
  <2> SUFFICES ASSUME NEW t \in Sockets \ overtaken', socket'[t].is = "open" PROVE FALSE
    BY DEF InMap, Open
  <2>1. socket[t].is = "open" /\ t \notin overtaken /\ ~(room \in Sockets /\ t \in conns[room])
    BY <1>1, <1>2
  <2>2. room \in Sockets /\ socket[t].home = room
    BY <2>1 DEF HearInv, InMap, Open
  <2> QED
    BY <1>0, <2>1, <2>2 DEF HubTyped
<1> QED
  BY <1>1, <1>2, <1>3, HearStep1

LEMMA FlushHears ==
  ASSUME HearInv, TypeOK', NEW c \in Changes, Flush(c)
  PROVE  HearInv'
<1>0. TypeOK /\ HubTyped
  BY TypedParts DEF HearInv
<1>1. /\ change[c].at = "committed" /\ UNCHANGED hub
      /\ change' = [change EXCEPT ![c].at = "done"]
      /\ \A s \in Sockets : heard'[s] =
           IF room # NoRoom /\ s \in conns[room] \cap Open THEN heard[s] \cup {c} ELSE heard[s]
  BY DEF Flush
<1>2. /\ \A d \in Changes \ {c} : change'[d] = change[d]
      /\ change'[c].audience = change[c].audience
  BY <1>0, <1>1 DEF TypeOK, ChangeType
<1>3. InMap' /\ AudienceConnected'
  BY <1>1, <1>2 DEF HearInv, InMap, AudienceConnected, Open, hub
<1>4. HearUnlessOvertaken'
  <2> SUFFICES ASSUME NEW s \in Sockets \ overtaken, NEW d \in Changes, change'[d].at = "done",
                      s \in change'[d].audience, socket[s].is = "open"
               PROVE  d \in heard'[s]
    BY <1>1 DEF HearUnlessOvertaken, Hears, Open, hub
  <2>1. CASE d = c
    <3>1. room \in Sockets /\ socket[s].home = room
      BY DEF HearInv, InMap, Open
    <3>2. s \in conns[room] \cap Open
      BY <1>0, <3>1 DEF HubTyped, Open
    <3> QED
      BY <1>1, <2>1, <3>1, <3>2, DeliveryAssumption
  <2>2. CASE d # c
    BY <1>1, <1>2, <2>2 DEF HearInv, HearUnlessOvertaken, Hears, Open
  <2> QED
    BY <2>1, <2>2
<1> QED
  BY <1>3, <1>4 DEF HearInv

\* The audience of a change is set at its commit, and only then.
LEMMA Audiences ==
  ASSUME TypeOK, NEW c \in Changes, ChangeStepOf(c)
  PROVE  /\ Commit(c) => change'[c].audience = Open
         /\ ~Commit(c) => change'[c].audience \subseteq change[c].audience
         /\ Flush(c) => change'[c].audience = change[c].audience
<1>1. change \in [Changes -> ChangeType] /\ change[c] \in ChangeType
  BY DEF TypeOK
<1>2. ASSUME NEW u \in Users, Begin(c, u) PROVE change'[c].audience = {}
  <2>1. PICK m \in Mentions :
          change'[c] = [NoChange EXCEPT !.at = "begun", !.by = u, !.mentions = m,
                                        !.due = members \ {u}, !.muted = Users \ mail]
    BY <1>1, <1>2 DEF Begin
  <2> QED
    BY <2>1 DEF NoChange
<1>3. CASE GuestComment(c)
  <2>1. change'[c] = [NoChange EXCEPT !.at = "guest", !.due = members, !.muted = Users \ mail]
    BY <1>1, <1>3 DEF GuestComment
  <2> QED
    BY <1>3, <2>1 DEF NoChange, Commit, Flush, GuestComment
<1>4. CASE TellOfGuest(c) \/ GuestFails(c)
  <2>1. change'[c].audience = change[c].audience
    <3>1. CASE TellOfGuest(c)
      <4>1. change' = [change EXCEPT ![c].at = "told", ![c].told = {}]
        BY <3>1 DEF TellOfGuest
      <4> QED
        BY <1>1, <4>1 DEF ChangeType
    <3>2. CASE GuestFails(c)
      BY <1>1, <3>2 DEF GuestFails, ChangeType
    <3> QED
      BY <1>4, <3>1, <3>2
  <2> QED
    BY <1>4, <2>1 DEF TellOfGuest, GuestFails, Commit, Flush, OfGuest
<1>5. CASE ReadMembers(c) \/ StageComment(c) \/ StageMention(c)
  <2>1. change'[c].audience = change[c].audience
    <3>1. CASE ReadMembers(c)
      BY <1>1, <3>1 DEF ReadMembers, ChangeType
    <3>2. CASE StageComment(c)
      BY <1>1, <3>2 DEF StageComment, ChangeType
    <3>3. CASE StageMention(c)
      BY <1>1, <3>3 DEF StageMention, ChangeType
    <3> QED
      BY <1>5, <3>1, <3>2, <3>3
  <2> QED
    BY <1>5, <2>1 DEF ReadMembers, StageComment, StageMention, Commit, Flush
<1>6. CASE Commit(c)
  <2>1. change'[c].audience = Open
    BY <1>1, <1>6 DEF Commit, ChangeType
  <2> QED
    BY <1>6, <2>1 DEF Commit, Flush
<1>7. CASE RollBack(c)
  <2>1. change'[c].audience = {}
    BY <1>1, <1>7 DEF RollBack, NoChange
  <2>2. ~Commit(c) /\ ~Flush(c)
    BY <1>1, <1>7, <2>1, Moves
  <2> QED
    BY <2>1, <2>2
<1>8. CASE Flush(c)
  <2>1. change'[c].audience = change[c].audience
    BY <1>1, <1>8 DEF Flush, ChangeType
  <2> QED
    BY <1>8, <2>1 DEF Commit, Flush
<1>9. ASSUME NEW u \in Users, Begin(c, u) PROVE ~Commit(c) /\ ~Flush(c)
  BY <1>9 DEF Begin, Commit, Flush
<1> QED
  BY <1>2, <1>3, <1>4, <1>5, <1>6, <1>7, <1>8, <1>9 DEF ChangeStepOf

LEMMA HearStep == HearInv /\ [Next]_vars => HearInv'
<1> SUFFICES ASSUME HearInv, [Next]_vars PROVE HearInv'
  OBVIOUS
<1>0. TypeOK /\ TypeOK'
  BY TypesStep DEF HearInv
<1>1. CASE SocketStep
  BY <1>0, <1>1, RegisterHears, CleanupHears, CloseAllHears DEF SocketStep
<1>2. CASE ChangeStep
  <2>1. PICK c \in Changes : ChangeStepOf(c)
    BY <1>2 DEF ChangeStep
  <2>2. CASE Flush(c)
    BY <1>0, <2>2, FlushHears
  <2>3. CASE ~Flush(c)
    <3>1. UNCHANGED hub
      BY <1>2, OthersKeepHub
    <3>2. UNCHANGED heard
      BY <2>1, <2>3 DEF ChangeStepOf, Begin, GuestComment, TellOfGuest, GuestFails, ReadMembers,
         StageComment, StageMention, Commit, RollBack
    <3>3. \A d \in Changes \ {c} : change'[d] = change[d]
      BY <1>0, <2>1, Moves
    <3>4. change'[c].at # "done"
      BY <1>0, <2>1, <2>3, Moves DEF ChangeStepOf
    <3>5. \A s \in Sockets : s \in change'[c].audience => s \in change[c].audience \/ socket[s].is = "open"
      BY <1>0, <2>1, Audiences DEF Open
    <3> QED
      BY <1>0, <3>1, <3>2, <3>3, <3>4, <3>5, HearOthers
  <2> QED
    BY <2>2, <2>3
<1>3. CASE PeopleStep
  <2>1. UNCHANGED hub
    BY <1>3, OthersKeepHub
  <2>2. UNCHANGED heard
    BY <1>3 DEF PeopleStep, Join, Leave, Unsubscribe
  <2>3. \A c \in Changes :
          change'[c].at = change[c].at /\ change'[c].audience = change[c].audience
    <3>1. CASE UNCHANGED change
      BY <3>1
    <3>2. ASSUME NEW u \in Users, Forget(u), NEW c \in Changes
          PROVE  change'[c].at = change[c].at /\ change'[c].audience = change[c].audience
      <4>1. change[c] \in ChangeType
        BY <1>0 DEF TypeOK
      <4> QED
        BY <3>2, <4>1 DEF Forget, ChangeType
    <3> QED
      BY <1>3, <3>1, <3>2 DEF PeopleStep, Join, Leave, Unsubscribe
  <2> QED
    BY <1>0, <2>1, <2>2, <2>3, HearOthers
<1>4. CASE Sweep \/ UNCHANGED vars
  <2>1. UNCHANGED <<hub, heard, change>>
    BY <1>4, OthersKeepHub DEF Sweep, vars
  <2> QED
    BY <1>0, <2>1, HearOthers
<1>5. CASE Restart
  <2>1. /\ UNCHANGED heard
        /\ \A s \in Sockets : socket'[s].is \in {"away", "closed"}
        /\ \A s \in Sockets : socket'[s].is = "away" => socket[s].is = "away"
    BY <1>0, <1>5, RestartHub
  <2>2. InMap'
    BY <2>1 DEF InMap, Open
  <2>3. ASSUME NEW c \in Changes
        PROVE  /\ change'[c].at = "done" => change'[c] = change[c]
               /\ change'[c].audience \subseteq change[c].audience
    <3>1. CASE change[c].at \in Running
      BY <1>5, <3>1, RestartChanges DEF NoChange
    <3>2. CASE change[c].at \in {"committed"} \cup OfGuest
      <4>1. change'[c].at = "lost" /\ change'[c].audience = change[c].audience
        <5>1. change'[c] = [change[c] EXCEPT !.at = "lost", !.told = {}]
          BY <1>5, <3>2, RestartChanges
        <5>2. change[c] \in ChangeType
          BY <1>0 DEF TypeOK
        <5> QED
          BY <5>1, <5>2 DEF ChangeType
      <4> QED
        BY <4>1
    <3>3. CASE change[c].at \notin Running \cup {"committed"} \cup OfGuest
      BY <1>5, <3>3, RestartChanges
    <3> QED
      BY <3>1, <3>2, <3>3
  <2> QED
    BY <1>0, <2>1, <2>2, <2>3, HearStep1
<1> QED
  BY <1>1, <1>2, <1>3, <1>4, <1>5, Steps

\* Whoever was connected at a commit hears of it, unless a late cleanup took the
\* room away: a socket still in its room object is in the map's room.
THEOREM DeliveryHear == Spec => []HearUnlessOvertaken
<1>1. HearInv => HearUnlessOvertaken
  BY DEF HearInv
<1> QED
  BY <1>1, HearStarts, HearStep, PTL DEF Spec

-----------------------------------------------------------------------------
(* Delivery: who is told by mail.                                            *)

OneEach(S) == \A n, m \in S : m.of = n.of /\ m.to = n.to /\ m.kind = n.kind => m = n
Commented(S, c) == {n.to : n \in {m \in S : m.of = c /\ m.kind = "COMMENT"}}

\* A row, inserted or staged, of a change k.
RowSound(n, k) == n.to # k.by /\ (n.to \in k.muted => n.email = "SUPPRESSED")

\* What a request knows at each place it has reached: whom it must tell is on
\* the trip until it has read the members, then in what it has read, then in
\* the rows it has staged, and at last in the table.
Knows(c, k) ==
  /\ k.muted \cap mail = {}
  /\ k.by \notin k.told
  /\ k.at \in Running => k.by # NoUser
  /\ k.at \in OfGuest \cup {"told"} => k.by = NoUser
  /\ k.at \in {"begun", "guest"} => k.due \subseteq members \ {k.by}
  /\ k.at \in {"members", "guest members"} => k.due \subseteq k.told
  /\ k.at \notin {"comment", "staged"} => k.staged = {}
  /\ k.at \in {"comment", "staged"} => k.due \subseteq Commented(k.staged, c)
  /\ k.at = "comment" => \A n \in k.staged : n.kind = "COMMENT"
  /\ OneEach(k.staged)
  /\ \A n \in k.staged : n.of = c /\ RowSound(n, k)

Inserted == {"committed", "lost", "done", "told"}
RowsSound ==
  /\ OneEach(rows)
  /\ \A n \in rows : change[n.of].at \in Inserted /\ RowSound(n, change[n.of])

MailInv ==
  /\ TypeOK
  /\ \A c \in Changes : Knows(c, change[c])
  /\ \A c \in Changes : MustTell(c) => change[c].due \subseteq Commented(rows, c)
  /\ RowsSound

LEMMA MailRight == MailInv => InboxesRight
BY DEF MailInv, RowsSound, RowSound, OneEach, Commented, InboxesRight, Inserted, InDatabase

LEMMA NothingKnown ==
  ASSUME NEW c \in Changes, NEW k, k = NoChange \/ k = [NoChange EXCEPT !.at = "failed"]
  PROVE  Knows(c, k)
<1>1. /\ k.muted = {} /\ k.told = {} /\ k.staged = {} /\ k.at \in {"none", "failed"}
  BY DEF NoChange
<1> QED
  BY <1>1 DEF Knows, OneEach, Running, OfGuest

LEMMA MailStarts == Init => MailInv
<1> SUFFICES ASSUME Init PROVE MailInv
  OBVIOUS
<1>1. \A c \in Changes : change[c] = NoChange /\ change[c].at = "none"
  BY DEF Init, NoChange
<1>2. \A c \in Changes : ~MustTell(c)
  BY <1>1 DEF MustTell, InDatabase, OfGuest
<1>3. RowsSound
  BY DEF Init, RowsSound, OneEach
<1> QED
  BY <1>1, <1>2, <1>3, NothingKnown, TypesStart DEF MailInv

\* A step of one request. What it inserts is of its own change.
LEMMA MailStep1 ==
  ASSUME MailInv, TypeOK', UNCHANGED people, NEW c \in Changes,
         \A d \in Changes \ {c} : change'[d] = change[d],
         Knows(c, change'[c]),
         MustTell(c)' => change'[c].due \subseteq Commented(rows', c),
         NEW new \in SUBSET Row, rows' = rows \cup new,
         \A n \in new : n.of = c, new # {} => change[c].at \notin Inserted,
         change[c].at \in Inserted => change'[c].at \in Inserted /\
           change'[c].by = change[c].by /\ change'[c].muted = change[c].muted,
         new # {} => change'[c].at \in Inserted,
         OneEach(new), \A n \in new : RowSound(n, change'[c])
  PROVE  MailInv'
<1>1. ASSUME NEW d \in Changes PROVE Knows(d, change[d])'
  <2>1. Knows(d, change'[d])
    BY DEF MailInv
  <2>2. members' = members /\ mail' = mail
    BY DEF people
  <2> QED
    BY <2>1, <2>2 DEF Knows
<1>2. ASSUME NEW d \in Changes, MustTell(d)' PROVE change'[d].due \subseteq Commented(rows', d)
  <2>1. CASE d = c
    BY <1>2, <2>1
  <2>2. CASE d # c
    BY <1>2, <2>2 DEF MailInv, MustTell, Commented
  <2> QED
    BY <2>1, <2>2
<1>3. \A n \in rows : n \in Row /\ n.of \in Changes
  BY DEF MailInv, TypeOK, Row
<1>4. ASSUME NEW n \in rows' PROVE change'[n.of].at \in Inserted /\ RowSound(n, change'[n.of])
  <2>1. CASE n \in new
    BY <2>1
  <2>2. CASE n \in rows
    <3>1. change[n.of].at \in Inserted /\ RowSound(n, change[n.of]) /\ n.of \in Changes
      BY <1>3, <2>2 DEF MailInv, RowsSound
    <3> QED
      BY <3>1 DEF RowSound
  <2> QED
    BY <2>1, <2>2
<1>5. OneEach(rows')
  <2>1. \A n \in rows, m \in new : m.of # n.of
    BY DEF MailInv, RowsSound
  <2> QED
    BY <2>1 DEF MailInv, RowsSound, OneEach
<1> QED
  BY <1>1, <1>2, <1>4, <1>5 DEF MailInv, RowsSound, Commented

\* The rows notify() makes: one for each target, and without mail for those
\* who have it off.
LEMMA StagedRows ==
  ASSUME NEW c \in Changes, NEW kind \in Kinds, NEW targets \in SUBSET Users, NEW k,
         k.by \notin targets, k.muted \cap mail = {}
  PROVE  LET S == Staged(c, kind, targets) IN
         /\ OneEach(S)
         /\ \A n \in S : n.of = c /\ n.kind = kind /\ n.to \in targets /\ RowSound(n, k)
         /\ \A u \in targets : \E n \in S : n.of = c /\ n.kind = kind /\ n.to = u
<1> DEFINE S == Staged(c, kind, targets)
           row(u) == [of |-> c, to |-> u, kind |-> kind, email |-> EmailState(u, kind)]
<1>1. \A u : /\ row(u).of = c /\ row(u).to = u /\ row(u).kind = kind
             /\ row(u).email = EmailState(u, kind)
  OBVIOUS
<1>2. S = {row(u) : u \in targets}
  BY DEF Staged
<1>3. \A u : u \notin mail => EmailState(u, kind) = "SUPPRESSED"
  BY DEF EmailState
<1> HIDE DEF S, row
<1>4. \A n \in S : n.of = c /\ n.kind = kind /\ n.to \in targets /\ n = row(n.to)
  BY <1>1, <1>2
<1>5. \A n \in S : RowSound(n, k)
  BY <1>1, <1>3, <1>4 DEF RowSound
<1>6. OneEach(S)
  BY <1>4 DEF OneEach
<1>7. \A u \in targets : \E n \in S : n.of = c /\ n.kind = kind /\ n.to = u
  BY <1>1, <1>2
<1> QED
  BY <1>4, <1>5, <1>6, <1>7 DEF S

LEMMA BeginMails ==
  ASSUME MailInv, TypeOK', NEW c \in Changes, (\E u \in Users : Begin(c, u)) \/ GuestComment(c)
  PROVE  MailInv'
<1>0. TypeOK /\ change \in [Changes -> ChangeType] /\ members \subseteq Users
  BY DEF MailInv, TypeOK
<1> DEFINE k == change'[c]
<1>1. /\ change[c].at = "none" /\ k.at \in {"begun", "guest"}
      /\ UNCHANGED people /\ rows' = rows \cup {}
      /\ \A d \in Changes \ {c} : change'[d] = change[d]
  <2>1. ChangeStepOf(c)
    BY DEF ChangeStepOf
  <2>2. UNCHANGED people /\ rows' = rows
    BY DEF Begin, GuestComment
  <2>3. \A d \in Changes \ {c} : change'[d] = change[d]
    BY <1>0, <2>1, Moves
  <2>4. change[c].at = "none" /\ k.at \in {"begun", "guest"}
    BY <1>0, Moves
  <2> QED
    BY <2>2, <2>3, <2>4
<1>2. /\ k.told = {} /\ k.staged = {} /\ k.muted = Users \ mail /\ k.due = members \ {k.by}
      /\ k.at = "begun" => k.by # NoUser
      /\ k.at = "guest" => k.by = NoUser
  <2>1. ASSUME NEW u \in Users, Begin(c, u)
        PROVE  /\ k.told = {} /\ k.staged = {} /\ k.muted = Users \ mail /\ k.due = members \ {k.by}
               /\ k.by # NoUser /\ k.at = "begun"
    <3>1. PICK m \in Mentions :
            k = [NoChange EXCEPT !.at = "begun", !.by = u, !.mentions = m,
                                 !.due = members \ {u}, !.muted = Users \ mail]
      BY <1>0, <2>1 DEF Begin
    <3> QED
      BY <3>1, DeliveryAssumption DEF NoChange
  <2>2. CASE GuestComment(c)
    <3>1. k = [NoChange EXCEPT !.at = "guest", !.due = members, !.muted = Users \ mail]
      BY <1>0, <2>2 DEF GuestComment
    <3>2. /\ k.told = {} /\ k.staged = {} /\ k.muted = Users \ mail /\ k.due = members
          /\ k.by = NoUser /\ k.at = "guest"
      BY <3>1 DEF NoChange
    <3> QED
      BY <1>0, <3>2, DeliveryAssumption
  <2> QED
    BY <2>1, <2>2
<1>3. Knows(c, k)
  BY <1>1, <1>2 DEF Knows, OneEach, Running, OfGuest
<1>4. ~MustTell(c)'
  BY <1>1, <1>2 DEF MustTell, InDatabase, OfGuest
<1>5. change[c].at \notin Inserted
  BY <1>1 DEF Inserted
<1>6. \A n \in {} : RowSound(n, change'[c]) /\ n.of = c
  OBVIOUS
<1>7. OneEach({})
  BY DEF OneEach
<1> HIDE DEF k
<1> QED
  BY <1>1, <1>3, <1>4, <1>5, <1>6, <1>7, MailStep1 DEF k

LEMMA ReadMembersMails ==
  ASSUME MailInv, TypeOK', NEW c \in Changes, ReadMembers(c)
  PROVE  MailInv'
<1>0. TypeOK /\ change \in [Changes -> ChangeType] /\ change[c] \in ChangeType /\ Knows(c, change[c])
  BY DEF MailInv, TypeOK
<1> DEFINE q == change[c]
           k == change'[c]
<1>1. /\ UNCHANGED people /\ rows' = rows \cup {}
      /\ \A d \in Changes \ {c} : change'[d] = change[d]
      /\ \/ q.at = "begun" /\ k.at = "members"
         \/ q.at = "guest" /\ k.at = "guest members"
  BY <1>0, Moves DEF ReadMembers, ChangeStepOf
<1>2. /\ k.told = members \ {q.by} /\ k.by = q.by /\ k.staged = q.staged
      /\ k.muted = q.muted /\ k.due = q.due
  <2>1. change' = [change EXCEPT ![c].at = IF @ = "begun" THEN "members" ELSE "guest members",
                                 ![c].told = members \ {change[c].by}]
    BY DEF ReadMembers
  <2> QED
    BY <1>0, <2>1 DEF ChangeType
<1>3. Knows(c, k)
  BY <1>0, <1>1, <1>2 DEF Knows, Running, OfGuest
<1>4. ~MustTell(c)'
  BY <1>0, <1>1, <1>2 DEF MustTell, InDatabase, OfGuest, Knows
<1>5. q.at \notin Inserted
  BY <1>1 DEF Inserted
<1>6. \A n \in {} : RowSound(n, change'[c]) /\ n.of = c
  OBVIOUS
<1>7. OneEach({})
  BY DEF OneEach
<1> HIDE DEF k, q
<1> QED
  BY <1>1, <1>3, <1>4, <1>5, <1>6, <1>7, MailStep1 DEF k, q

LEMMA StageMails ==
  ASSUME MailInv, TypeOK', NEW c \in Changes, StageComment(c) \/ StageMention(c)
  PROVE  MailInv'
<1>0. TypeOK /\ change \in [Changes -> ChangeType] /\ change[c] \in ChangeType /\ Knows(c, change[c])
  BY DEF MailInv, TypeOK
<1> DEFINE q == change[c]
           k == change'[c]
<1>1. /\ UNCHANGED people /\ rows' = rows \cup {}
      /\ \A d \in Changes \ {c} : change'[d] = change[d]
      /\ \/ StageComment(c) /\ q.at = "members" /\ k.at = "comment"
         \/ StageMention(c) /\ q.at = "comment" /\ k.at = "staged"
  <2>1. ChangeStepOf(c)
    BY DEF ChangeStepOf
  <2>2. UNCHANGED people /\ rows' = rows
    BY DEF StageComment, StageMention
  <2> QED
    BY <1>0, <2>1, <2>2, Moves
<1>2. k.told = q.told /\ k.by = q.by /\ k.muted = q.muted /\ k.due = q.due
  <2>1. CASE StageComment(c)
    BY <1>0, <2>1 DEF StageComment, ChangeType
  <2>2. CASE StageMention(c)
    BY <1>0, <2>2 DEF StageMention, ChangeType
  <2> QED
    BY <2>1, <2>2
<1>3. Knows(c, k)
  <2>1. CASE StageComment(c)
    <3>1. k.staged = Staged(c, "COMMENT", q.told)
      BY <1>0, <2>1 DEF StageComment, ChangeType
    <3>2. q.told \in SUBSET Users /\ q.by \notin q.told /\ q.muted \cap mail = {}
      BY <1>0 DEF ChangeType, Knows
    <3>3. /\ OneEach(k.staged)
          /\ \A n \in k.staged : n.of = c /\ n.kind = "COMMENT" /\ RowSound(n, q)
          /\ \A u \in q.told : \E n \in k.staged : n.of = c /\ n.kind = "COMMENT" /\ n.to = u
      BY <3>1, <3>2, StagedRows DEF Kinds
    <3>4. q.at = "members" /\ k.at = "comment"
      BY <1>0, <2>1, Moves
    <3>5. k.due \subseteq Commented(k.staged, c)
      BY <1>0, <1>2, <3>3, <3>4 DEF Knows, Commented
    <3> QED
      BY <1>0, <1>2, <3>3, <3>4, <3>5 DEF Knows, RowSound, Running, OfGuest
  <2>2. CASE StageMention(c)
    <3> DEFINE T == q.mentions \ {q.by}
               S == Staged(c, "MENTION", T)
    <3>1. k.staged = q.staged \cup S
      BY <1>0, <2>2 DEF StageMention, ChangeType
    <3>2. T \in SUBSET Users /\ q.by \notin T /\ q.muted \cap mail = {}
      BY <1>0 DEF ChangeType, Knows
    <3>3. /\ OneEach(S)
          /\ \A n \in S : n.of = c /\ n.kind = "MENTION" /\ RowSound(n, q)
      BY <3>2, StagedRows DEF Kinds
    <3> HIDE DEF S, T
    <3>4. q.at = "comment" /\ k.at = "staged"
      BY <1>0, <2>2, Moves
    <3>5. /\ OneEach(q.staged) /\ q.due \subseteq Commented(q.staged, c)
          /\ \A n \in q.staged : n.of = c /\ n.kind = "COMMENT" /\ RowSound(n, q)
      BY <1>0, <3>4 DEF Knows
    <3>6. OneEach(k.staged)
      BY <3>1, <3>3, <3>5 DEF OneEach
    <3>7. k.due \subseteq Commented(k.staged, c)
      BY <1>2, <3>1, <3>5 DEF Commented
    <3>8. \A n \in k.staged : n.of = c /\ RowSound(n, k)
      BY <1>2, <3>1, <3>3, <3>5 DEF RowSound
    <3> QED
      BY <1>0, <1>2, <3>4, <3>6, <3>7, <3>8 DEF Knows, Running, OfGuest
  <2> QED
    BY <2>1, <2>2
<1>4. ~MustTell(c)'
  BY <1>0, <1>1, <1>2 DEF MustTell, InDatabase, OfGuest, Knows, Running
<1>5. q.at \notin Inserted
  BY <1>1 DEF Inserted
<1>6. \A n \in {} : RowSound(n, change'[c]) /\ n.of = c
  OBVIOUS
<1>7. OneEach({})
  BY DEF OneEach
<1> HIDE DEF k, q
<1> QED
  BY <1>1, <1>3, <1>4, <1>5, <1>6, <1>7, MailStep1 DEF k, q

LEMMA TellMails ==
  ASSUME MailInv, TypeOK', NEW c \in Changes, TellOfGuest(c)
  PROVE  MailInv'
<1>0. TypeOK /\ change \in [Changes -> ChangeType] /\ change[c] \in ChangeType /\ Knows(c, change[c])
  BY DEF MailInv, TypeOK
<1> DEFINE q == change[c]
           k == change'[c]
           new == Staged(c, "COMMENT", q.told)
<1>1. /\ UNCHANGED people /\ rows' = rows \cup new
      /\ \A d \in Changes \ {c} : change'[d] = change[d]
      /\ q.at = "guest members" /\ k.at = "told"
  BY <1>0, Moves DEF TellOfGuest, ChangeStepOf
<1>2. k.told = {} /\ k.by = q.by /\ k.staged = q.staged /\ k.muted = q.muted /\ k.due = q.due
  <2>1. change' = [change EXCEPT ![c].at = "told", ![c].told = {}]
    BY DEF TellOfGuest
  <2> QED
    BY <1>0, <2>1 DEF ChangeType
<1>3. Knows(c, k)
  BY <1>0, <1>1, <1>2 DEF Knows, Running, OfGuest
<1>4. q.told \in SUBSET Users /\ q.by \notin q.told /\ q.muted \cap mail = {}
  BY <1>0 DEF ChangeType, Knows
<1>5. /\ OneEach(new)
      /\ \A n \in new : n.of = c /\ n.kind = "COMMENT" /\ RowSound(n, q)
      /\ \A u \in q.told : \E n \in new : n.of = c /\ n.kind = "COMMENT" /\ n.to = u
  BY <1>4, StagedRows DEF Kinds
<1>6. new \in SUBSET Row
  BY <1>4, StagedTypes DEF Kinds
<1>7. q.at \notin Inserted /\ k.at \in Inserted
  BY <1>1 DEF Inserted
<1> HIDE DEF k, q, new
<1>8. k.due \subseteq Commented(rows', c)
  <2>1. q.due \subseteq q.told
    BY <1>0, <1>1 DEF Knows, q
  <2>2. ASSUME NEW u \in k.due PROVE u \in Commented(rows', c)
    <3>1. u \in q.told
      BY <1>2, <2>1, <2>2
    <3>2. PICK n \in new : n.of = c /\ n.kind = "COMMENT" /\ n.to = u
      BY <1>5, <3>1
    <3>3. n \in {m \in rows' : m.of = c /\ m.kind = "COMMENT"}
      BY <1>1, <3>2
    <3> QED
      BY <3>2, <3>3 DEF Commented
  <2> QED
    BY <2>2
<1>9. \A n \in new : RowSound(n, k)
  BY <1>2, <1>5 DEF RowSound
<1> QED
  BY <1>1, <1>3, <1>5, <1>6, <1>7, <1>8, <1>9, MailStep1 DEF k, q

LEMMA CommitMails ==
  ASSUME MailInv, TypeOK', NEW c \in Changes, Commit(c)
  PROVE  MailInv'
<1>0. TypeOK /\ change \in [Changes -> ChangeType] /\ change[c] \in ChangeType /\ Knows(c, change[c])
  BY DEF MailInv, TypeOK
<1> DEFINE q == change[c]
           k == change'[c]
<1>1. /\ UNCHANGED people /\ rows' = rows \cup q.staged
      /\ \A d \in Changes \ {c} : change'[d] = change[d]
      /\ q.at = "staged" /\ k.at \in {"committed", "lost"}
  BY <1>0, Moves DEF Commit, ChangeStepOf
<1>2. k.told = {} /\ k.by = q.by /\ k.staged = {} /\ k.muted = q.muted /\ k.due = q.due
  <2>1. PICK acknowledged \in BOOLEAN :
          change' = [change EXCEPT ![c].at = IF acknowledged THEN "committed" ELSE "lost",
                                   ![c].staged = {}, ![c].told = {}, ![c].audience = Open]
    BY DEF Commit
  <2> QED
    BY <1>0, <2>1 DEF ChangeType
<1>3. Knows(c, k)
  BY <1>0, <1>1, <1>2 DEF Knows, Running, OfGuest, OneEach
<1>4. /\ OneEach(q.staged) /\ q.due \subseteq Commented(q.staged, c) /\ q.staged \in SUBSET Row
      /\ \A n \in q.staged : n.of = c /\ RowSound(n, k)
  BY <1>0, <1>1, <1>2 DEF Knows, ChangeType, RowSound
<1>5. k.due \subseteq Commented(rows', c)
  BY <1>1, <1>2, <1>4 DEF Commented
<1>6. q.at \notin Inserted /\ k.at \in Inserted
  BY <1>1 DEF Inserted
<1> HIDE DEF k, q
<1> QED
  BY <1>1, <1>3, <1>4, <1>5, <1>6, MailStep1 DEF k, q

\* A request that fails, or goes on after its rows are in, adds none.
LEMMA EndMails ==
  ASSUME MailInv, TypeOK', NEW c \in Changes, GuestFails(c) \/ RollBack(c) \/ Flush(c)
  PROVE  MailInv'
<1>0. TypeOK /\ change \in [Changes -> ChangeType] /\ change[c] \in ChangeType /\ Knows(c, change[c])
  BY DEF MailInv, TypeOK
<1> DEFINE q == change[c]
           k == change'[c]
<1>1. /\ UNCHANGED people /\ rows' = rows \cup {}
      /\ \A d \in Changes \ {c} : change'[d] = change[d]
  <2>1. UNCHANGED people /\ rows' = rows
    BY DEF GuestFails, RollBack, Flush
  <2> QED
    BY <1>0, <2>1, Moves DEF ChangeStepOf
<1>2. /\ Knows(c, k)
      /\ MustTell(c)' => k.due \subseteq Commented(rows', c)
      /\ q.at \in Inserted => k.at \in Inserted /\ k.by = q.by /\ k.muted = q.muted
  <2>1. CASE RollBack(c)
    <3>1. k = [NoChange EXCEPT !.at = "failed"] /\ q.at \in Running
      BY <1>0, <2>1 DEF RollBack
    <3>2. k.at = "failed"
      BY <3>1 DEF NoChange
    <3> QED
      BY <3>1, <3>2, NothingKnown DEF MustTell, InDatabase, OfGuest, Inserted, Running
  <2>2. CASE GuestFails(c)
    <3>1. /\ k.at = "lost" /\ q.at \in OfGuest
          /\ k.told = {} /\ k.by = q.by /\ k.staged = q.staged /\ k.muted = q.muted /\ k.due = q.due
      BY <1>0, <2>2 DEF GuestFails, ChangeType
    <3>2. k.by = NoUser
      BY <1>0, <3>1 DEF Knows
    <3> QED
      BY <1>0, <3>1, <3>2 DEF Knows, MustTell, Running, OfGuest, Inserted
  <2>3. CASE Flush(c)
    <3>1. /\ k.at = "done" /\ q.at = "committed"
          /\ k.told = q.told /\ k.by = q.by /\ k.staged = q.staged /\ k.muted = q.muted
          /\ k.due = q.due
      BY <1>0, <2>3 DEF Flush, ChangeType
    <3>2. MustTell(c)' => MustTell(c)
      BY <3>1 DEF MustTell, InDatabase
    <3>3. MustTell(c) => q.due \subseteq Commented(rows, c)
      BY DEF MailInv
    <3> QED
      BY <1>0, <1>1, <3>1, <3>2, <3>3 DEF Knows, Running, OfGuest, Inserted
  <2> QED
    BY <2>1, <2>2, <2>3
<1>3. \A n \in {} : RowSound(n, change'[c]) /\ n.of = c
  OBVIOUS
<1>4. OneEach({})
  BY DEF OneEach
<1> HIDE DEF k, q
<1> QED
  BY <1>1, <1>2, <1>3, <1>4, MailStep1 DEF k, q

LEMMA PeopleMails ==
  ASSUME MailInv, TypeOK', PeopleStep
  PROVE  MailInv'
<1>0. TypeOK
  BY DEF MailInv
<1>1. UNCHANGED rows
  BY DEF PeopleStep, Join, Leave, Unsubscribe
<1>2. CASE \E u \in Users : Join(u) \/ Unsubscribe(u)
  <2>1. UNCHANGED change /\ members \subseteq members' /\ mail' \subseteq mail
    BY <1>2 DEF Join, Unsubscribe
  <2>2. ASSUME NEW c \in Changes PROVE Knows(c, change[c])'
    <3>1. Knows(c, change[c])
      BY DEF MailInv
    <3> QED
      BY <2>1, <3>1 DEF Knows
  <2> QED
    BY <1>1, <2>1, <2>2 DEF MailInv, RowsSound, MustTell
<1>3. ASSUME NEW u \in Users, Leave(u) PROVE MailInv'
  <2>1. ASSUME NEW c \in Changes
        PROVE  /\ change'[c].at = change[c].at /\ change'[c].by = change[c].by
               /\ change'[c].told = change[c].told /\ change'[c].staged = change[c].staged
               /\ change'[c].muted = change[c].muted
               /\ change'[c].due \subseteq change[c].due
               /\ change[c].at \in Running \cup OfGuest => change'[c].due = change[c].due \ {u}
    <3>1. change[c] \in ChangeType
      BY <1>0 DEF TypeOK
    <3>2. CASE change[c].at \in Running \cup OfGuest
      <4>1. change'[c] = [change[c] EXCEPT !.due = @ \ {u}]
        BY <1>3, <3>2 DEF Leave, Forget
      <4> QED
        BY <3>1, <4>1 DEF ChangeType
    <3>3. CASE change[c].at \notin Running \cup OfGuest
      <4>1. change'[c] = change[c]
        BY <1>3, <3>3 DEF Leave, Forget
      <4> QED
        BY <3>3, <4>1
    <3> QED
      BY <3>2, <3>3
  <2>2. members' = members \ {u} /\ mail' = mail
    BY <1>3 DEF Leave
  <2>3. ASSUME NEW c \in Changes PROVE Knows(c, change[c])'
    <3>1. Knows(c, change[c])
      BY DEF MailInv
    <3>2. change'[c].at \in {"begun", "guest"} =>
            change'[c].due \subseteq members' \ {change'[c].by}
      BY <2>1, <2>2, <3>1 DEF Knows, Running, OfGuest
    <3>3. /\ change'[c].at \in {"members", "guest members"} => change'[c].due \subseteq change'[c].told
          /\ change'[c].at \in {"comment", "staged"} =>
               change'[c].due \subseteq Commented(change'[c].staged, c)
      BY <2>1, <3>1 DEF Knows
    <3>4. \A n : RowSound(n, change[c]) => RowSound(n, change'[c])
      BY <2>1 DEF RowSound
    <3> QED
      BY <2>1, <2>2, <3>1, <3>2, <3>3, <3>4 DEF Knows
  <2>4. ASSUME NEW c \in Changes, MustTell(c)' PROVE change'[c].due \subseteq Commented(rows', c)
    <3>1. MustTell(c)
      BY <2>1, <2>4 DEF MustTell
    <3> QED
      BY <1>1, <2>1, <3>1 DEF MailInv
  <2>5. RowsSound'
    <3>1. \A n \in rows : n.of \in Changes
      BY <1>0 DEF TypeOK, Row
    <3> QED
      BY <1>1, <2>1, <3>1 DEF MailInv, RowsSound, RowSound
  <2> QED
    BY <2>3, <2>4, <2>5 DEF MailInv
<1> QED
  BY <1>2, <1>3 DEF PeopleStep

LEMMA RestartMails ==
  ASSUME MailInv, TypeOK', Restart
  PROVE  MailInv'
<1>0. TypeOK
  BY DEF MailInv
<1>1. members' = members /\ mail' = mail /\ rows' = rows
  BY RestartChanges DEF people
<1>2. ASSUME NEW c \in Changes
      PROVE  /\ Knows(c, change[c])'
             /\ MustTell(c)' => change'[c].due \subseteq Commented(rows', c)
             /\ change[c].at \in Inserted => /\ change'[c].at \in Inserted
                                             /\ change'[c].by = change[c].by
                                             /\ change'[c].muted = change[c].muted
  <2> DEFINE q == change[c]
             k == change'[c]
  <2>0. Knows(c, q) /\ (MustTell(c) => q.due \subseteq Commented(rows, c)) /\ q \in ChangeType
    BY <1>0 DEF MailInv, TypeOK
  <2>1. SUFFICES /\ Knows(c, k)
                 /\ MustTell(c)' => k.due \subseteq Commented(rows, c)
                 /\ q.at \in Inserted => k.at \in Inserted /\ k.by = q.by /\ k.muted = q.muted
    BY <1>1 DEF Knows
  <2>2. CASE q.at \in Running
    <3>1. k = [NoChange EXCEPT !.at = "failed"] /\ k.at = "failed"
      BY <2>2, RestartChanges DEF NoChange
    <3> QED
      BY <2>2, <3>1, NothingKnown DEF MustTell, InDatabase, OfGuest, Inserted, Running
  <2>3. CASE q.at \in {"committed"} \cup OfGuest
    <3>1. k = [q EXCEPT !.at = "lost", !.told = {}]
      BY <2>3, RestartChanges
    <3>2. /\ k.at = "lost"
          /\ k.told = {} /\ k.by = q.by /\ k.staged = q.staged /\ k.muted = q.muted /\ k.due = q.due
      BY <2>0, <3>1 DEF ChangeType
    <3>3. q.at \in OfGuest => k.by = NoUser
      BY <2>0, <3>2 DEF Knows
    <3>4. MustTell(c)' => MustTell(c)
      BY <2>3, <3>2, <3>3 DEF MustTell, InDatabase
    <3> QED
      BY <2>0, <2>3, <3>2, <3>4 DEF Knows, Running, OfGuest, Inserted
  <2>4. CASE q.at \notin Running \cup {"committed"} \cup OfGuest
    <3>1. k = q
      BY <2>4, RestartChanges
    <3> QED
      BY <2>0, <3>1 DEF MustTell
  <2> QED
    BY <2>2, <2>3, <2>4
<1>3. RowsSound'
  <2>1. \A n \in rows : n.of \in Changes
    BY <1>0 DEF TypeOK, Row
  <2> QED
    BY <1>1, <1>2, <2>1 DEF MailInv, RowsSound, RowSound
<1> QED
  BY <1>2, <1>3 DEF MailInv

\* The sweep mails what is batched, which no row of a muted user is.
LEMMA SweepMails ==
  ASSUME MailInv, TypeOK', Sweep
  PROVE  MailInv'
<1>0. TypeOK
  BY DEF MailInv
<1>1. PICK old \in SUBSET rows :
        rows' = {IF n \in old /\ n.email = "BATCHED" THEN [n EXCEPT !.email = "SENT"] ELSE n :
                   n \in rows}
  BY DEF Sweep
<1> DEFINE swept(n) ==
      IF n \in old /\ n.email = "BATCHED" THEN [n EXCEPT !.email = "SENT"] ELSE n
<1>2. rows' = {swept(n) : n \in rows}
  BY <1>1
<1>3. members' = members /\ mail' = mail /\ change' = change
  BY DEF Sweep, people
<1>4. ASSUME NEW n \in rows
      PROVE  /\ swept(n).of = n.of /\ swept(n).to = n.to /\ swept(n).kind = n.kind
             /\ n.email = "SUPPRESSED" => swept(n).email = "SUPPRESSED"
  <2>1. n \in Row
    BY <1>0 DEF TypeOK
  <2> QED
    BY <2>1 DEF Row
<1> HIDE DEF swept
<1>5. \A c \in Changes : Knows(c, change[c])'
  BY <1>3 DEF MailInv, Knows
<1>6. ASSUME NEW c \in Changes, MustTell(c)' PROVE change'[c].due \subseteq Commented(rows', c)
  <2>1. change[c].due \subseteq Commented(rows, c)
    BY <1>3, <1>6 DEF MailInv, MustTell
  <2>2. Commented(rows, c) \subseteq Commented(rows', c)
    BY <1>2, <1>4 DEF Commented
  <2> QED
    BY <1>3, <2>1, <2>2
<1>7. OneEach(rows')
  <2> SUFFICES ASSUME NEW n \in rows, NEW m \in rows, swept(m).of = swept(n).of,
                      swept(m).to = swept(n).to, swept(m).kind = swept(n).kind
               PROVE  swept(m) = swept(n)
    BY <1>2 DEF OneEach
  <2>1. m = n
    BY <1>4 DEF MailInv, RowsSound, OneEach
  <2> QED
    BY <2>1
<1>8. \A n \in rows' : change'[n.of].at \in Inserted /\ RowSound(n, change'[n.of])
  <2> SUFFICES ASSUME NEW n \in rows
               PROVE  change[swept(n).of].at \in Inserted /\ RowSound(swept(n), change[swept(n).of])
    BY <1>2, <1>3
  <2> QED
    BY <1>4 DEF MailInv, RowsSound, RowSound
<1> QED
  BY <1>5, <1>6, <1>7, <1>8 DEF MailInv, RowsSound

LEMMA MailStep == MailInv /\ [Next]_vars => MailInv'
<1> SUFFICES ASSUME MailInv, [Next]_vars PROVE MailInv'
  OBVIOUS
<1>0. TypeOK'
  BY TypesStep DEF MailInv
<1>1. CASE ChangeStep
  BY <1>0, <1>1, BeginMails, ReadMembersMails, StageMails, TellMails, CommitMails, EndMails
     DEF ChangeStep, ChangeStepOf
<1>2. CASE PeopleStep
  BY <1>0, <1>2, PeopleMails
<1>3. CASE Sweep
  BY <1>0, <1>3, SweepMails
<1>4. CASE Restart
  BY <1>0, <1>4, RestartMails
<1>5. CASE SocketStep \/ UNCHANGED vars
  <2>1. members' = members /\ mail' = mail /\ change' = change /\ rows' = rows
    BY <1>5, SocketsKeepChanges DEF people, vars
  <2>2. \A c \in Changes : Knows(c, change[c])'
    BY <2>1 DEF MailInv, Knows
  <2> QED
    BY <1>0, <2>1, <2>2 DEF MailInv, MustTell, RowsSound
<1> QED
  BY <1>1, <1>2, <1>3, <1>4, <1>5, Steps

\* Whoever is due a notification gets it, once, nobody gets one of what did not
\* commit, and whoever had mail off all along is never mailed: what is due is
\* carried from the members read, over the rows staged, to the table.
THEOREM DeliveryInboxes == Spec => []InboxesRight
<1>1. MailInv => InboxesRight
  BY MailRight
<1> QED
  BY <1>1, MailStarts, MailStep, PTL DEF Spec

-----------------------------------------------------------------------------
(* Variants: what a request knows.                                           *)

CreateJob == [do : {"create"}, fork : Variants \cup {None}, overtaken : BOOLEAN]
PromoteJob ==
  [do : {"promote"}, variant : Variants, mains : SUBSET Variants, overtaken : BOOLEAN]
DeleteJob == [do : {"delete"}, variant : Variants, overtaken : BOOLEAN]
UpsertJob ==
  [do : {"upsert"}, slug : Slugs \cup {None}, asked : Settings, patch : LinkType,
   overtaken : BOOLEAN]
RevokeJob == [do : {"revoke"}, slug : Slugs, overtaken : BOOLEAN]
DuplicateJob == [do : {"duplicate"}, named : Variants \cup {None}, overtaken : BOOLEAN]

\* A request nobody has overtaken still knows what it has read: the plan it
\* deletes is not the main one, the fields it writes back are the link's.
FreshDelete(j) ==
  j.do = "delete" /\ ~j.overtaken => variant[j.variant] # "main"
FreshUpsert(j) ==
  j.do = "upsert" /\ ~j.overtaken /\ j.slug # None =>
    /\ IsRow(link[j.slug])
    /\ j.asked.enabled = "keep" => j.patch.enabled = link[j.slug].enabled
    /\ j.asked.expires = "keep" => j.patch.expires = link[j.slug].expires
AsAsked(j) == j.do = "upsert" /\ j.asked.enabled = "off" => j.patch.enabled = "off"

\* The deferred foreign key holds on every trip, the agreement on one not torn.
PointsToMain ==
  pointer # None => Exists(pointer) /\ (~torn => Mains(variant) = {pointer})
LinksShowPlans ==
  \A s \in Slugs : IsRow(link[s]) /\ link[s].variant # None => Exists(link[s].variant)

VariantsInv ==
  /\ VariantsTypeOK
  /\ AtMostOne(Mains(variant))
  /\ PointsToMain
  /\ LinksShowPlans
  /\ \A r \in Requests : FreshDelete(job[r]) /\ FreshUpsert(job[r]) /\ AsAsked(job[r])

LEMMA AgreesFollows == VariantsInv => MainAgrees
<1> SUFFICES ASSUME VariantsInv PROVE MainAgrees
  OBVIOUS
<1>1. ASSUME NEW s \in Slugs, PagePlan(s) # None
      PROVE  /\ Exists(PagePlan(s))
             /\ ~torn /\ link[s].variant = None => PagePlan(s) \in EditorPlans
  <2>1. IsOpen(link[s]) /\ IsRow(link[s])
    BY <1>1 DEF PagePlan, IsOpen
  <2>2. CASE link[s].variant # None
    BY <2>1, <2>2 DEF PagePlan, VariantsInv, LinksShowPlans
  <2>3. CASE link[s].variant = None
    <3>1. PagePlan(s) = pointer /\ pointer # None
      BY <1>1, <2>1, <2>3 DEF PagePlan
    <3>2. Exists(pointer) /\ (~torn => Mains(variant) = {pointer})
      BY <3>1 DEF VariantsInv, PointsToMain
    <3> QED
      BY <3>1, <3>2 DEF EditorPlans, Mains, Exists
  <2> QED
    BY <2>2, <2>3
<1> QED
  BY <1>1 DEF VariantsInv, MainAgrees, PointsToMain

LEMMA JobCases ==
  ASSUME VariantsTypeOK, NEW r \in Requests
  PROVE  /\ job[r].do \in {"nothing", "create", "promote", "delete", "upsert", "revoke", "duplicate"}
         /\ job[r].do = "nothing" <=> job[r] = Idle
         /\ job[r].do = "create" => job[r] \in CreateJob
         /\ job[r].do = "promote" => job[r] \in PromoteJob
         /\ job[r].do = "delete" => job[r] \in DeleteJob
         /\ job[r].do = "upsert" => job[r] \in UpsertJob
         /\ job[r].do = "revoke" => job[r] \in RevokeJob
         /\ job[r].do = "duplicate" => job[r] \in DuplicateJob
<1>1. job[r] \in {Idle} \cup CreateJob \cup PromoteJob \cup DeleteJob \cup UpsertJob \cup RevokeJob
                  \cup DuplicateJob
  BY DEF VariantsTypeOK, JobType, CreateJob, PromoteJob, DeleteJob, UpsertJob, RevokeJob, DuplicateJob
<1>2. Idle.do = "nothing"
  BY DEF Idle
<1>3. /\ job[r] \in CreateJob => job[r].do = "create"
      /\ job[r] \in PromoteJob => job[r].do = "promote"
      /\ job[r] \in DeleteJob => job[r].do = "delete"
      /\ job[r] \in UpsertJob => job[r].do = "upsert"
      /\ job[r] \in RevokeJob => job[r].do = "revoke"
      /\ job[r] \in DuplicateJob => job[r].do = "duplicate"
  BY DEF CreateJob, PromoteJob, DeleteJob, UpsertJob, RevokeJob, DuplicateJob
<1> QED
  BY <1>1, <1>2, <1>3

LEMMA JobTypes ==
  /\ Idle \in JobType /\ CreateJob \subseteq JobType /\ PromoteJob \subseteq JobType
  /\ DeleteJob \subseteq JobType /\ UpsertJob \subseteq JobType /\ RevokeJob \subseteq JobType
  /\ DuplicateJob \subseteq JobType
BY DEF JobType, CreateJob, PromoteJob, DeleteJob, UpsertJob, RevokeJob, DuplicateJob

\* AtMostOne, as a statement about elements.
LEMMA OneMain ==
  ASSUME NEW S \in SUBSET Variants
  PROVE  AtMostOne(S) <=> \A v, w \in S : v = w
<1>1. IsFiniteSet(S)
  BY FiniteAssumption, FS_Subset
<1>2. CASE S = {}
  BY <1>2, FS_EmptySet DEF AtMostOne
<1>3. ASSUME NEW v \in S PROVE AtMostOne(S) <=> \A u, w \in S : u = w
  <2>1. /\ IsFiniteSet(S \ {v}) /\ Cardinality(S \ {v}) = Cardinality(S) - 1
        /\ Cardinality(S) \in Nat /\ Cardinality(S \ {v}) \in Nat
    BY <1>1, <1>3, FS_RemoveElement, FS_CardinalityType
  <2>2. AtMostOne(S) <=> Cardinality(S \ {v}) = 0
    BY <2>1 DEF AtMostOne
  <2>3. Cardinality(S \ {v}) = 0 <=> S \ {v} = {}
    BY <2>1, FS_EmptySet
  <2> QED
    BY <2>2, <2>3
<1> QED
  BY <1>2, <1>3

LEMMA VariantsStart == VariantsInit => VariantsInv
<1> SUFFICES ASSUME VariantsInit PROVE VariantsInv
  OBVIOUS
<1>1. VariantsTypeOK
  BY ConstantsAssumption, JobTypes DEF VariantsInit, VariantsTypeOK
<1>2. PICK first \in Variants :
        /\ variant = [v \in Variants |-> IF v = first THEN "main" ELSE "none"]
        /\ pointer = first
  BY DEF VariantsInit
<1>3. Mains(variant) = {first} /\ Exists(pointer)
  BY <1>2 DEF Mains, Exists
<1>4. AtMostOne(Mains(variant))
  BY <1>3, OneMain
<1>5. \A s \in Slugs : ~IsRow(link[s])
  BY DEF VariantsInit, IsRow
<1>6. \A r \in Requests : job[r].do = "nothing"
  BY DEF VariantsInit, Idle
<1> QED
  BY <1>1, <1>2, <1>3, <1>4, <1>5, <1>6
     DEF VariantsInv, PointsToMain, LinksShowPlans, FreshDelete, FreshUpsert, AsAsked

\* A step of one request that commits nothing.
LEMMA QuietStep ==
  ASSUME VariantsInv, UNCHANGED <<variant, pointer, link, torn>>, NEW r \in Requests, NEW j \in JobType,
         job' = [job EXCEPT ![r] = j], FreshDelete(j), FreshUpsert(j), AsAsked(j)
  PROVE  VariantsInv'
<1>1. VariantsTypeOK'
  BY DEF VariantsInv, VariantsTypeOK
<1>2. job'[r] = j /\ \A q \in Requests \ {r} : job'[q] = job[q]
  BY DEF VariantsInv, VariantsTypeOK
<1>3. \A q \in Requests : FreshDelete(job[q])' /\ FreshUpsert(job[q])' /\ AsAsked(job[q])'
  BY <1>2 DEF VariantsInv, FreshDelete, FreshUpsert, AsAsked
<1> QED
  BY <1>1, <1>3 DEF VariantsInv, PointsToMain, LinksShowPlans, Mains, Exists

LEMMA FailsStep ==
  ASSUME VariantsInv, NEW r \in Requests, Fails(r)
  PROVE  VariantsInv'
<1>1. Idle.do = "nothing"
  BY DEF Idle
<1> QED
  BY <1>1, QuietStep, JobTypes DEF Fails, FreshDelete, FreshUpsert, AsAsked

\* After a commit every request under way counts as overtaken.
LEMMA Overtakes ==
  ASSUME VariantsInv, NEW r \in Requests, Commits(r)
  PROVE  /\ job' \in [Requests -> JobType]
         /\ \A q \in Requests : FreshDelete(job[q])' /\ FreshUpsert(job[q])' /\ AsAsked(job[q])'
<1>0. VariantsTypeOK
  BY DEF VariantsInv
<1>1. ASSUME NEW q \in Requests
      PROVE  /\ job'[q] \in JobType
             /\ job'[q] = Idle \/ job'[q].overtaken
             /\ AsAsked(job'[q])
  <2>1. CASE q = r \/ job[q] = Idle
    <3>1. job'[q] = Idle
      BY <2>1 DEF Commits
    <3> QED
      BY <3>1, JobTypes DEF AsAsked, Idle
  <2>2. CASE q # r /\ job[q] # Idle
    <3>1. job'[q] = [job[q] EXCEPT !.overtaken = TRUE]
      BY <2>2 DEF Commits
    <3>2. CASE job[q] \in CreateJob
      BY <3>1, <3>2, JobTypes DEF CreateJob, AsAsked
    <3>3. CASE job[q] \in PromoteJob
      BY <3>1, <3>3, JobTypes DEF PromoteJob, AsAsked
    <3>4. CASE job[q] \in DeleteJob
      BY <3>1, <3>4, JobTypes DEF DeleteJob, AsAsked
    <3>5. CASE job[q] \in UpsertJob
      <4>1. job'[q] \in UpsertJob /\ job'[q].overtaken
            /\ job'[q].do = job[q].do /\ job'[q].asked = job[q].asked
            /\ job'[q].patch = job[q].patch
        BY <3>1, <3>5 DEF UpsertJob
      <4>2. AsAsked(job[q])
        BY DEF VariantsInv
      <4> QED
        BY <4>1, <4>2, JobTypes DEF AsAsked
    <3>6. CASE job[q] \in RevokeJob
      BY <3>1, <3>6, JobTypes DEF RevokeJob, AsAsked
    <3>7. CASE job[q] \in DuplicateJob
      BY <3>1, <3>7, JobTypes DEF DuplicateJob, AsAsked
    <3> QED
      BY <1>0, <2>2, <3>2, <3>3, <3>4, <3>5, <3>6, <3>7, JobCases
  <2> QED
    BY <2>1, <2>2
<1>2. job' \in [Requests -> JobType]
  BY <1>1 DEF Commits
<1>3. Idle.do = "nothing"
  BY DEF Idle
<1>4. \A q \in Requests : FreshDelete(job[q])' /\ FreshUpsert(job[q])'
  BY <1>1, <1>3 DEF FreshDelete, FreshUpsert
<1>5. \A q \in Requests : AsAsked(job[q])'
  BY <1>1 DEF AsAsked
<1> QED
  BY <1>2, <1>4, <1>5

LEMMA CommitStep ==
  ASSUME VariantsInv, NEW r \in Requests, Commits(r),
         variant' \in [Variants -> {"none", "plain", "main"}],
         pointer' \in Variants \cup {None},
         link' \in [Slugs -> LinkType \cup {Unused, Revoked}], torn' \in BOOLEAN,
         AtMostOne(Mains(variant')), PointsToMain', LinksShowPlans'
  PROVE  VariantsInv'
BY Overtakes DEF VariantsInv, VariantsTypeOK

-----------------------------------------------------------------------------
(* Variants: reads.                                                          *)

\* What a request asks for, over what the link is, is a link again.
LEMMA PatchType ==
  ASSUME NEW asked \in Settings, NEW existing \in LinkType
  PROVE  /\ Patch(asked, existing) \in LinkType
         /\ asked.enabled = "keep" => Patch(asked, existing).enabled = existing.enabled
         /\ asked.expires = "keep" => Patch(asked, existing).expires = existing.expires
         /\ asked.enabled = "off" => Patch(asked, existing).enabled = "off"
<1>1. /\ asked.enabled \in {"keep", "on", "off"}
      /\ asked.expires \in {"keep", "never", "later"}
      /\ asked.variant \in Variants \cup {None}
  BY DEF Settings, Keep
<1> QED
  BY <1>1 DEF Patch, LinkType, Expiries

LEMMA ReadStep ==
  ASSUME VariantsInv, NEW r \in Requests,
         CreateRead(r) \/ PromoteRead(r) \/ DeleteRead(r) \/ RevokeRead(r) \/ DuplicateRead(r)
  PROVE  VariantsInv'
<1>0. UNCHANGED <<variant, pointer, link, torn>>
  BY DEF CreateRead, PromoteRead, DeleteRead, RevokeRead, DuplicateRead
<1>1. CASE CreateRead(r)
  <2>1. PICK source \in Plans \cup {None} :
          Begins(r, [do |-> "create", fork |-> source, overtaken |-> FALSE])
    BY <1>1 DEF CreateRead
  <2> DEFINE j == [do |-> "create", fork |-> source, overtaken |-> FALSE]
  <2>2. j \in CreateJob /\ j.do = "create" /\ job' = [job EXCEPT ![r] = j]
    BY <2>1 DEF Begins, CreateJob, Plans
  <2> HIDE DEF j
  <2> QED
    BY <1>0, <2>2, QuietStep, JobTypes DEF FreshDelete, FreshUpsert, AsAsked
<1>2. CASE PromoteRead(r)
  <2>1. PICK v \in Plans :
          Begins(r, [do |-> "promote", variant |-> v, mains |-> Mains(variant), overtaken |-> FALSE])
    BY <1>2 DEF PromoteRead
  <2> DEFINE j == [do |-> "promote", variant |-> v, mains |-> Mains(variant), overtaken |-> FALSE]
  <2>2. j \in PromoteJob /\ j.do = "promote" /\ job' = [job EXCEPT ![r] = j]
    BY <2>1 DEF Begins, PromoteJob, Plans, Mains
  <2> HIDE DEF j
  <2> QED
    BY <1>0, <2>2, QuietStep, JobTypes DEF FreshDelete, FreshUpsert, AsAsked
<1>3. CASE DeleteRead(r)
  <2>1. PICK v \in Plans \ Mains(variant) :
          Begins(r, [do |-> "delete", variant |-> v, overtaken |-> FALSE])
    BY <1>3 DEF DeleteRead
  <2> DEFINE j == [do |-> "delete", variant |-> v, overtaken |-> FALSE]
  <2>2. j \in DeleteJob /\ j.do = "delete" /\ j.variant = v /\ job' = [job EXCEPT ![r] = j]
    BY <2>1 DEF Begins, DeleteJob, Plans
  <2>3. variant[v] # "main"
    BY DEF Plans, Mains
  <2> HIDE DEF j
  <2> QED
    BY <1>0, <2>2, <2>3, QuietStep, JobTypes DEF FreshDelete, FreshUpsert, AsAsked
<1>4. CASE RevokeRead(r)
  <2>1. PICK s \in Links(link) : Begins(r, [do |-> "revoke", slug |-> s, overtaken |-> FALSE])
    BY <1>4 DEF RevokeRead
  <2> DEFINE j == [do |-> "revoke", slug |-> s, overtaken |-> FALSE]
  <2>2. j \in RevokeJob /\ j.do = "revoke" /\ job' = [job EXCEPT ![r] = j]
    BY <2>1 DEF Begins, RevokeJob, Links
  <2> HIDE DEF j
  <2> QED
    BY <1>0, <2>2, QuietStep, JobTypes DEF FreshDelete, FreshUpsert, AsAsked
<1>5. CASE DuplicateRead(r)
  <2> DEFINE j == [do |-> "duplicate", named |-> pointer, overtaken |-> FALSE]
  <2>1. j \in DuplicateJob /\ j.do = "duplicate" /\ job' = [job EXCEPT ![r] = j]
    BY <1>5 DEF DuplicateRead, Begins, DuplicateJob, VariantsInv, VariantsTypeOK
  <2> HIDE DEF j
  <2> QED
    BY <1>0, <2>1, QuietStep, JobTypes DEF FreshDelete, FreshUpsert, AsAsked
<1> QED
  BY <1>1, <1>2, <1>3, <1>4, <1>5

LEMMA UpsertReadStep ==
  ASSUME VariantsInv, NEW r \in Requests, UpsertRead(r)
  PROVE  VariantsInv'
<1>1. PICK asked \in Settings :
        IF Links(link) = {}
        THEN Begins(r, [do |-> "upsert", slug |-> None, asked |-> asked,
                        patch |-> Patch(asked, Default), overtaken |-> FALSE])
        ELSE \E s \in Links(link) :
               Begins(r, [do |-> "upsert", slug |-> s, asked |-> asked,
                          patch |-> Patch(asked, link[s]), overtaken |-> FALSE])
  BY DEF UpsertRead
<1>2. UNCHANGED <<variant, pointer, link, torn>>
  BY DEF UpsertRead
<1>3. CASE Links(link) = {}
  <2> DEFINE j == [do |-> "upsert", slug |-> None, asked |-> asked,
                   patch |-> Patch(asked, Default), overtaken |-> FALSE]
  <2>1. Default \in LinkType
    BY DEF Default, LinkType, Expiries
  <2>2. /\ j \in UpsertJob /\ j.do = "upsert" /\ j.slug = None
        /\ j.asked.enabled = "off" => j.patch.enabled = "off"
        /\ job' = [job EXCEPT ![r] = j]
    BY <1>1, <1>3, <2>1, PatchType DEF Begins, UpsertJob
  <2> HIDE DEF j
  <2> QED
    BY <1>2, <2>2, QuietStep, JobTypes DEF FreshDelete, FreshUpsert, AsAsked
<1>4. CASE Links(link) # {}
  <2>1. PICK s \in Links(link) :
          Begins(r, [do |-> "upsert", slug |-> s, asked |-> asked,
                     patch |-> Patch(asked, link[s]), overtaken |-> FALSE])
    BY <1>1, <1>4
  <2> DEFINE j == [do |-> "upsert", slug |-> s, asked |-> asked,
                   patch |-> Patch(asked, link[s]), overtaken |-> FALSE]
  <2>2. s \in Slugs /\ IsRow(link[s]) /\ link[s] \in LinkType
    BY DEF Links, IsRow, VariantsInv, VariantsTypeOK
  <2>3. /\ j \in UpsertJob /\ j.do = "upsert" /\ j.slug = s
        /\ j.asked.enabled = "off" => j.patch.enabled = "off"
        /\ j.asked.enabled = "keep" => j.patch.enabled = link[s].enabled
        /\ j.asked.expires = "keep" => j.patch.expires = link[s].expires
        /\ job' = [job EXCEPT ![r] = j]
    BY <2>1, <2>2, PatchType DEF Begins, UpsertJob
  <2> HIDE DEF j
  <2> QED
    BY <1>2, <2>2, <2>3, QuietStep, JobTypes DEF FreshDelete, FreshUpsert, AsAsked
<1> QED
  BY <1>3, <1>4

-----------------------------------------------------------------------------
(* Variants: writes.                                                         *)

LEMMA CreateStep ==
  ASSUME VariantsInv, NEW r \in Requests, CreateInsert(r)
  PROVE  VariantsInv'
<1>1. CASE Fails(r)
  BY <1>1, FailsStep
<1>2. CASE ~Fails(r)
  <2>1. PICK v \in Variants \ Plans : variant' = [variant EXCEPT ![v] = "plain"]
    BY <1>2 DEF CreateInsert
  <2>2. Commits(r) /\ UNCHANGED <<pointer, link, torn>>
    BY <1>2 DEF CreateInsert
  <2>3. variant[v] = "none" /\ variant'[v] = "plain"
        /\ \A w \in Variants \ {v} : variant'[w] = variant[w]
    BY <2>1 DEF VariantsInv, VariantsTypeOK, Plans, Exists
  <2>4. Mains(variant') = Mains(variant)
    BY <2>3 DEF Mains
  <2>5. variant' \in [Variants -> {"none", "plain", "main"}]
    BY <2>1 DEF VariantsInv, VariantsTypeOK
  <2>6. LinksShowPlans'
    <3> SUFFICES ASSUME NEW s \in Slugs, IsRow(link[s]), link[s].variant # None
                 PROVE  variant'[link[s].variant] # "none"
      BY <2>2 DEF LinksShowPlans, Exists
    <3>1. variant[link[s].variant] # "none" /\ link[s] \in LinkType
      BY DEF VariantsInv, VariantsTypeOK, LinksShowPlans, Exists, IsRow
    <3> QED
      BY <2>3, <3>1 DEF LinkType
  <2>7. PointsToMain'
    BY <2>2, <2>3, <2>4 DEF VariantsInv, VariantsTypeOK, PointsToMain, Exists
  <2> QED
    BY <2>2, <2>4, <2>5, <2>6, <2>7, CommitStep DEF VariantsInv, VariantsTypeOK
<1> QED
  BY <1>1, <1>2

LEMMA PromoteStep ==
  ASSUME VariantsInv, NEW r \in Requests, PromoteWrite(r)
  PROVE  VariantsInv'
<1>1. CASE Fails(r)
  BY <1>1, FailsStep
<1>2. CASE ~Fails(r)
  <2> DEFINE j == job[r]
  <2>1. /\ AtMostOne(Mains(Promoted(j))) /\ Exists(j.variant)
        /\ variant' = Promoted(j) /\ pointer' = j.variant
        /\ torn' = FALSE /\ Commits(r) /\ UNCHANGED link
    BY <1>2 DEF PromoteWrite
  <2>2. j \in PromoteJob
    BY JobCases DEF VariantsInv, PromoteWrite
  <2>3. j.variant \in Variants
    BY <2>2 DEF PromoteJob
  <2>4. \A v \in Variants :
          /\ variant'[v] \in {"none", "plain", "main"}
          /\ variant[v] # "none" => variant'[v] # "none"
    BY <2>1 DEF Promoted, VariantsInv, VariantsTypeOK, Exists
  <2>5. variant' \in [Variants -> {"none", "plain", "main"}]
    BY <2>1, <2>4 DEF Promoted
  <2>6. variant'[j.variant] = "main"
    BY <2>1, <2>3 DEF Promoted
  <2>7. Mains(variant') = {j.variant}
    <3>1. Mains(variant') \in SUBSET Variants /\ j.variant \in Mains(variant')
      BY <2>3, <2>6 DEF Mains
    <3> QED
      BY <2>1, <3>1, OneMain
  <2>8. LinksShowPlans'
    <3> SUFFICES ASSUME NEW s \in Slugs, IsRow(link[s]), link[s].variant # None
                 PROVE  variant'[link[s].variant] # "none"
      BY <2>1 DEF LinksShowPlans, Exists
    <3>1. variant[link[s].variant] # "none" /\ link[s] \in LinkType
      BY DEF VariantsInv, VariantsTypeOK, LinksShowPlans, Exists, IsRow
    <3> QED
      BY <2>4, <3>1 DEF LinkType
  <2>9. PointsToMain'
    BY <2>1, <2>6, <2>7 DEF PointsToMain, Exists
  <2> QED
    BY <2>1, <2>3, <2>5, <2>7, <2>8, <2>9, CommitStep DEF VariantsInv, VariantsTypeOK
<1> QED
  BY <1>1, <1>2

\* What a deletion leaves of a link.
LEMMA UnlinkedType ==
  ASSUME NEW l \in LinkType \cup {Unused, Revoked}, NEW v \in Variants
  PROVE  /\ Unlinked(l, v) \in LinkType \cup {Unused, Revoked}
         /\ IsRow(l) /\ l.variant # v => Unlinked(l, v) = l
         /\ IsRow(l) /\ l.variant = v => Unlinked(l, v).variant = None
         /\ ~IsRow(l) => Unlinked(l, v) = l
         /\ IsRow(l) => /\ Unlinked(l, v).enabled = l.enabled
                        /\ Unlinked(l, v).expires = l.expires
<1>1. CASE IsRow(l) /\ l.variant = v
  <2>1. l \in LinkType
    BY <1>1 DEF IsRow
  <2>2. Unlinked(l, v) = [l EXCEPT !.variant = None]
    BY <1>1 DEF Unlinked
  <2> QED
    BY <1>1, <2>1, <2>2 DEF LinkType
<1>2. CASE ~(IsRow(l) /\ l.variant = v)
  BY <1>2 DEF Unlinked
<1> QED
  BY <1>1, <1>2

LEMMA DeleteStep ==
  ASSUME VariantsInv, NEW r \in Requests, DeleteWrite(r)
  PROVE  VariantsInv'
<1> DEFINE v == job[r].variant
<1>1. /\ variant' = [variant EXCEPT ![v] = "none"]
      /\ pointer' = IF pointer = v THEN None ELSE pointer
      /\ link' = [s \in Slugs |-> Unlinked(link[s], v)]
      /\ Commits(r) /\ v \in Variants /\ UNCHANGED torn
  BY JobCases DEF DeleteWrite, DeleteJob, VariantsInv
<1> HIDE DEF v
<1>2. /\ variant'[v] = "none" /\ \A w \in Variants \ {v} : variant'[w] = variant[w]
      /\ variant' \in [Variants -> {"none", "plain", "main"}]
  BY <1>1 DEF VariantsInv, VariantsTypeOK
<1>3. Mains(variant') = Mains(variant) \ {v}
  BY <1>1, <1>2 DEF Mains
<1>4. AtMostOne(Mains(variant'))
  <2>1. Mains(variant) \in SUBSET Variants /\ Mains(variant') \in SUBSET Variants
    BY DEF Mains
  <2> QED
    BY <1>3, <2>1, OneMain DEF VariantsInv
<1>5. PointsToMain' /\ pointer' \in Variants \cup {None}
  <2>1. CASE pointer = v
    BY <1>1, <2>1 DEF PointsToMain
  <2>2. CASE pointer # v
    BY <1>1, <1>2, <1>3, <2>2 DEF VariantsInv, VariantsTypeOK, PointsToMain, Exists
  <2> QED
    BY <2>1, <2>2
<1>6. \A s \in Slugs : link[s] \in LinkType \cup {Unused, Revoked} /\ link'[s] = Unlinked(link[s], v)
  BY <1>1 DEF VariantsInv, VariantsTypeOK
<1>7. link' \in [Slugs -> LinkType \cup {Unused, Revoked}]
  BY <1>1, <1>6, UnlinkedType
<1>8. LinksShowPlans'
  <2> SUFFICES ASSUME NEW s \in Slugs, IsRow(link'[s]), link'[s].variant # None
               PROVE  variant'[link'[s].variant] # "none"
    BY DEF LinksShowPlans, Exists
  <2>1. IsRow(link[s]) /\ link[s].variant # v /\ link'[s] = link[s]
    BY <1>1, <1>6, UnlinkedType
  <2>2. variant[link[s].variant] # "none" /\ link[s] \in LinkType
    BY <2>1 DEF VariantsInv, VariantsTypeOK, LinksShowPlans, Exists, IsRow
  <2> QED
    BY <1>2, <2>1, <2>2 DEF LinkType
<1> QED
  BY <1>1, <1>2, <1>4, <1>5, <1>7, <1>8, CommitStep DEF VariantsInv, VariantsTypeOK

\* A write to the link puts a row there that names a plan, if any, or takes it.
LEMMA LinkWriteStep ==
  ASSUME VariantsInv, NEW r \in Requests, Commits(r), UNCHANGED <<variant, pointer, torn>>,
         NEW s \in Slugs, NEW l \in LinkType \cup {Unused, Revoked},
         link' = [link EXCEPT ![s] = l],
         IsRow(l) => l.variant \in Plans \cup {None}
  PROVE  VariantsInv'
<1>1. link'[s] = l /\ \A t \in Slugs \ {s} : link'[t] = link[t]
  BY DEF VariantsInv, VariantsTypeOK
<1>2. LinksShowPlans'
  BY <1>1 DEF VariantsInv, LinksShowPlans, Exists, Plans
<1>3. link' \in [Slugs -> LinkType \cup {Unused, Revoked}]
  BY DEF VariantsInv, VariantsTypeOK
<1> QED
  BY <1>2, <1>3, CommitStep DEF VariantsInv, VariantsTypeOK, PointsToMain, Mains, Exists

LEMMA LinkStep ==
  ASSUME VariantsInv, NEW r \in Requests, UpsertUpdate(r) \/ UpsertInsert(r) \/ RevokeWrite(r)
  PROVE  VariantsInv'
<1>1. CASE UpsertUpdate(r)
  <2>1. job[r] \in UpsertJob /\ job[r].slug # None
    BY <1>1, JobCases DEF UpsertUpdate, VariantsInv
  <2>2. job[r].patch \in LinkType /\ job[r].slug \in Slugs
    BY <2>1 DEF UpsertJob
  <2> QED
    BY <1>1, <2>2, FailsStep, LinkWriteStep DEF UpsertUpdate
<1>2. CASE UpsertInsert(r)
  <2>1. job[r] \in UpsertJob
    BY <1>2, JobCases DEF UpsertInsert, VariantsInv
  <2>2. job[r].patch \in LinkType
    BY <2>1 DEF UpsertJob
  <2>3. CASE ~Fails(r)
    <3>1. PICK s \in Slugs :
            /\ job[r].patch.variant \in Plans \cup {None}
            /\ link' = [link EXCEPT ![s] = job[r].patch]
            /\ Commits(r) /\ UNCHANGED <<variant, pointer, torn>>
      BY <1>2, <2>3 DEF UpsertInsert
    <3> QED
      BY <2>2, <3>1, LinkWriteStep
  <2> QED
    BY <2>3, FailsStep
<1>3. CASE RevokeWrite(r)
  <2>1. job[r].slug \in Slugs
    BY <1>3, JobCases DEF RevokeWrite, VariantsInv, RevokeJob
  <2>2. ~IsRow(Revoked)
    BY DEF IsRow
  <2> QED
    BY <1>3, <2>1, <2>2, LinkWriteStep DEF RevokeWrite
<1> QED
  BY <1>1, <1>2, <1>3

\* A copy of the trip has the same plans under its own pointer.
LEMMA DuplicateStep ==
  ASSUME VariantsInv, NEW r \in Requests, DuplicateWrite(r)
  PROVE  VariantsInv'
<1>1. CASE Fails(r)
  BY <1>1, FailsStep
<1>2. CASE ~Fails(r)
  <2>1. /\ pointer' = IF job[r].named \in Plans THEN job[r].named ELSE None
        /\ torn' = (torn \/ job[r].named # pointer)
        /\ link' = [s \in Slugs |-> IF link[s] = Unused THEN Unused ELSE Revoked]
        /\ job' = [q \in Requests |-> Idle] /\ variant' = variant
    BY <1>2 DEF DuplicateWrite
  <2>2. VariantsTypeOK'
    BY <2>1, JobTypes DEF VariantsInv, VariantsTypeOK, Plans
  <2>3. PointsToMain'
    BY <2>1 DEF VariantsInv, PointsToMain, Plans, Exists, Mains
  <2>4. \A s \in Slugs : ~IsRow(link'[s])
    BY <2>1 DEF IsRow
  <2>5. \A q \in Requests : job'[q].do = "nothing"
    BY <2>1 DEF Idle
  <2> QED
    BY <2>1, <2>2, <2>3, <2>4, <2>5
       DEF VariantsInv, LinksShowPlans, Mains, FreshDelete, FreshUpsert, AsAsked
<1> QED
  BY <1>1, <1>2

LEMMA LapsedType ==
  ASSUME NEW l \in LinkType
  PROVE  /\ Lapsed(l) \in LinkType /\ Lapsed(l).enabled = l.enabled
         /\ Lapsed(l).variant = l.variant
         /\ Lapsed(l).expires = IF l.expires = "later" THEN "past" ELSE l.expires
BY DEF Lapsed, LinkType, Expiries

\* Unused and Revoked have no fields of a link.
LEMMA RowsAreLinks ==
  \A l \in LinkType \cup {Unused, Revoked} : IsRow(l) <=> l \in LinkType
<1>1. \A l \in LinkType : DOMAIN l = {"enabled", "expires", "variant"}
  BY DEF LinkType
<1>2. DOMAIN Unused = {"deleted"} /\ DOMAIN Revoked = {"deleted"}
  BY DEF Unused, Revoked
<1>3. "deleted" \notin {"enabled", "expires", "variant"}
  OBVIOUS
<1> QED
  BY <1>1, <1>2, <1>3 DEF IsRow

\* The deadline passes for the link and for what was read of it alike.
LEMMA LapseStep ==
  ASSUME VariantsInv, Lapse
  PROVE  VariantsInv'
<1>0. VariantsTypeOK /\ \A s \in Slugs : link[s] \in LinkType \cup {Unused, Revoked}
  BY DEF VariantsInv, VariantsTypeOK
<1>1. /\ link' = [s \in Slugs |-> IF IsRow(link[s]) THEN Lapsed(link[s]) ELSE link[s]]
      /\ job' = [r \in Requests |->
               IF job[r].do = "upsert" THEN [job[r] EXCEPT !.patch = Lapsed(@)] ELSE job[r]]
      /\ UNCHANGED <<variant, pointer, torn>>
  BY DEF Lapse
<1>2. ASSUME NEW s \in Slugs
      PROVE  /\ link'[s] \in LinkType \cup {Unused, Revoked}
             /\ IsRow(link'[s]) <=> IsRow(link[s])
             /\ IsRow(link[s]) => /\ link'[s].enabled = link[s].enabled
                                  /\ link'[s].variant = link[s].variant
                                  /\ link'[s].expires = IF link[s].expires = "later" THEN "past"
                                                        ELSE link[s].expires
  BY <1>0, <1>1, LapsedType, RowsAreLinks
<1>3. ASSUME NEW r \in Requests
      PROVE  /\ job'[r] \in JobType
             /\ job'[r].do = job[r].do
             /\ job[r].do # "upsert" => job'[r] = job[r]
             /\ job[r].do = "upsert" =>
                  /\ job'[r].asked = job[r].asked /\ job'[r].slug = job[r].slug
                  /\ job'[r].overtaken = job[r].overtaken
                  /\ job'[r].patch.enabled = job[r].patch.enabled
                  /\ job'[r].patch.expires = IF job[r].patch.expires = "later" THEN "past"
                                             ELSE job[r].patch.expires
  <2>1. CASE job[r].do = "upsert"
    <3>1. job[r] \in UpsertJob
      BY <1>0, <2>1, JobCases
    <3>2. job[r].patch \in LinkType
      BY <3>1 DEF UpsertJob
    <3>3. job'[r] = [job[r] EXCEPT !.patch = Lapsed(job[r].patch)]
      BY <1>1, <2>1, <3>1
    <3>4. /\ job'[r] \in UpsertJob /\ job'[r].patch = Lapsed(job[r].patch)
          /\ job'[r].asked = job[r].asked /\ job'[r].slug = job[r].slug
          /\ job'[r].overtaken = job[r].overtaken /\ job'[r].do = job[r].do
      BY <3>1, <3>2, <3>3, LapsedType DEF UpsertJob
    <3> QED
      BY <2>1, <3>2, <3>4, LapsedType, JobTypes
  <2>2. CASE job[r].do # "upsert"
    BY <1>0, <1>1, <2>2 DEF VariantsTypeOK
  <2> QED
    BY <2>1, <2>2
<1>4. VariantsTypeOK'
  BY <1>0, <1>1, <1>2, <1>3 DEF VariantsTypeOK
<1>5. LinksShowPlans' /\ PointsToMain' /\ AtMostOne(Mains(variant'))
  BY <1>1, <1>2 DEF VariantsInv, LinksShowPlans, Exists, PointsToMain, Mains
<1>6. ASSUME NEW r \in Requests
      PROVE  FreshDelete(job[r])' /\ FreshUpsert(job[r])' /\ AsAsked(job[r])'
  <2>0. FreshDelete(job[r]) /\ FreshUpsert(job[r]) /\ AsAsked(job[r])
    BY DEF VariantsInv
  <2>1. FreshDelete(job[r])'
    BY <1>1, <1>3, <2>0 DEF FreshDelete
  <2>2. AsAsked(job[r])'
    BY <1>3, <2>0 DEF AsAsked
  <2>3. FreshUpsert(job[r])'
    <3>1. job[r].do = "upsert" => job[r].slug \in Slugs \cup {None}
      BY <1>0, JobCases DEF UpsertJob
    <3> QED
      BY <1>2, <1>3, <2>0, <3>1 DEF FreshUpsert
  <2> QED
    BY <2>1, <2>2, <2>3
<1> QED
  BY <1>4, <1>5, <1>6 DEF VariantsInv

LEMMA VariantsStep == VariantsInv /\ [VariantsNext]_variantsVars => VariantsInv'
<1> SUFFICES ASSUME VariantsInv, [VariantsNext]_variantsVars PROVE VariantsInv'
  OBVIOUS
<1>1. CASE Lapse
  BY <1>1, LapseStep
<1>2. ASSUME NEW r \in Requests, Step(r) PROVE VariantsInv'
  BY <1>2, ReadStep, UpsertReadStep, CreateStep, PromoteStep, DeleteStep, DuplicateStep,
     LinkStep DEF Step
<1>3. CASE UNCHANGED variantsVars
  BY <1>3 DEF variantsVars, VariantsInv, VariantsTypeOK, PointsToMain, LinksShowPlans, Exists, Mains,
     FreshDelete, FreshUpsert, AsAsked
<1> QED
  BY <1>1, <1>2, <1>3 DEF VariantsNext

-----------------------------------------------------------------------------
(* Variants: theorems.                                                       *)

\* A plan is in one state, a link has all its fields, a request has read what
\* its kind reads.
THEOREM VariantsTypes == VariantsSpec => []VariantsTypeOK
<1>1. VariantsInv => VariantsTypeOK
  BY DEF VariantsInv
<1> QED
  BY <1>1, VariantsStart, VariantsStep, PTL DEF VariantsSpec

\* The editor and the public page agree on the main plan, however promotions,
\* deletions, duplicates and changes of the link interleave, but for the copy a
\* promotion has torn, until somebody promotes a plan of it.
THEOREM VariantsAgree == VariantsSpec => []MainAgrees
<1>1. VariantsInv => MainAgrees
  BY AgreesFollows
<1> QED
  BY <1>1, VariantsStart, VariantsStep, PTL DEF VariantsSpec

\* Which writes remove a plan, or the pointer to it.
LEMMA PlanGoes ==
  ASSUME VariantsInv, VariantsNext, NEW v \in Variants,
         \/ variant[v] = "main" /\ variant'[v] = "none"
         \/ pointer = v /\ pointer' = None
  PROVE  \/ \E r \in Requests : DeleteWrite(r) /\ job[r].variant = v
         \/ torn' /\ variant' = variant
<1>1. PICK r \in Requests :
        DeleteWrite(r) \/ PromoteWrite(r) \/ CreateInsert(r) \/ DuplicateWrite(r)
  BY ConstantsAssumption DEF VariantsNext, Lapse, Step, CreateRead, PromoteRead, DeleteRead, DuplicateRead,
     UpsertRead, UpsertUpdate, UpsertInsert, RevokeRead, RevokeWrite, Fails
<1>2. CASE DeleteWrite(r)
  BY <1>2, ConstantsAssumption DEF DeleteWrite, VariantsInv, VariantsTypeOK
<1>3. CASE PromoteWrite(r)
  <2>1. job[r].variant \in Variants
    BY <1>3, JobCases DEF PromoteWrite, VariantsInv, PromoteJob
  <2> QED
    BY <1>3, <2>1, ConstantsAssumption DEF PromoteWrite, Promoted, Fails, Exists
<1>4. CASE CreateInsert(r)
  BY <1>4, ConstantsAssumption DEF CreateInsert, Fails, VariantsInv, VariantsTypeOK
<1>5. CASE DuplicateWrite(r)
  <2>1. variant' = variant /\ ~Fails(r)
    BY <1>5, ConstantsAssumption DEF DuplicateWrite, Fails
  <2>2. pointer = v /\ pointer' = None
    BY <2>1
  <2>3. v \in Plans
    BY <2>2, ConstantsAssumption DEF VariantsInv, PointsToMain, Plans
  <2>4. job[r].named # pointer
    BY <1>5, <2>1, <2>2, <2>3, ConstantsAssumption DEF DuplicateWrite
  <2> QED
    BY <1>5, <2>1, <2>4 DEF DuplicateWrite
<1> QED
  BY <1>1, <1>2, <1>3, <1>4, <1>5

\* Only a deletion checked before another request made its plan the main one
\* takes the main plan, or leaves the trip without; on a torn copy the plan the
\* pointer names is not marked and may go.
THEOREM VariantsMainLost == VariantsSpec => MainLostOnlyWhenOvertaken
<1> DEFINE Blamed ==
       /\ \A v \in Variants : variant[v] = "main" /\ variant'[v] = "none" => OvertakenDelete(v)
       /\ pointer # None /\ pointer' = None => torn' \/ OvertakenDelete(pointer)
<1>1. VariantsInv /\ [VariantsNext]_variantsVars => [Blamed]_variantsVars
  <2> SUFFICES ASSUME VariantsInv, VariantsNext PROVE Blamed
    OBVIOUS
  <2>1. ASSUME NEW r \in Requests, DeleteWrite(r), variant[job[r].variant] = "main"
        PROVE  OvertakenDelete(job[r].variant)
    <3>1. job[r] \in DeleteJob /\ job[r].do = "delete" /\ FreshDelete(job[r])
      BY <2>1, JobCases DEF DeleteWrite, VariantsInv
    <3>2. job[r].overtaken
      BY <2>1, <3>1 DEF FreshDelete, DeleteJob
    <3> QED
      BY <3>1, <3>2 DEF OvertakenDelete
  <2>2. ASSUME NEW v \in Variants, variant[v] = "main", variant'[v] = "none"
        PROVE  OvertakenDelete(v)
    <3>1. variant' # variant
      BY <2>2
    <3>2. \/ \E r \in Requests : DeleteWrite(r) /\ job[r].variant = v
          \/ torn' /\ variant' = variant
      BY <2>2, PlanGoes
    <3> QED
      BY <2>1, <2>2, <3>1, <3>2
  <2>3. ASSUME pointer # None, pointer' = None, ~torn'
        PROVE  OvertakenDelete(pointer)
    <3>1. pointer \in Variants
      BY <2>3 DEF VariantsInv, VariantsTypeOK
    <3>2. PICK r \in Requests : DeleteWrite(r) /\ job[r].variant = pointer
      BY <2>3, <3>1, PlanGoes
    <3>3. ~torn
      BY <2>3, <3>2 DEF DeleteWrite
    <3>4. variant[pointer] = "main"
      BY <2>3, <3>3 DEF VariantsInv, PointsToMain, Mains
    <3> QED
      BY <2>1, <3>2, <3>4
  <2> QED
    BY <2>2, <2>3
<1> QED
  BY <1>1, VariantsStart, VariantsStep, PTL DEF VariantsSpec, MainLostOnlyWhenOvertaken

\* What each step may do to a link.
LEMMA LinkMoves ==
  ASSUME VariantsInv, [VariantsNext]_variantsVars, NEW s \in Slugs
  PROVE  \/ link'[s] = link[s]
         \/ \E v \in Variants : link'[s] = Unlinked(link[s], v)
         \/ IsRow(link[s]) /\ link'[s] = Lapsed(link[s])
         \/ link[s] = Unused
         \/ link'[s] = Revoked
         \/ \E r \in Requests :
              /\ job[r] \in UpsertJob /\ job[r].do = "upsert" /\ job[r].slug = s
              /\ IsRow(link[s]) /\ link'[s] = job[r].patch
<1>0. VariantsTypeOK /\ link \in [Slugs -> LinkType \cup {Unused, Revoked}]
  BY DEF VariantsInv, VariantsTypeOK
<1>1. CASE Lapse
  BY <1>1 DEF Lapse
<1>2. CASE UNCHANGED link
  BY <1>2
<1>3. ASSUME NEW r \in Requests, DeleteWrite(r)
      PROVE  \E v \in Variants : link'[s] = Unlinked(link[s], v)
  <2>1. job[r].variant \in Variants /\ link'[s] = Unlinked(link[s], job[r].variant)
    BY <1>0, <1>3, JobCases DEF DeleteWrite, DeleteJob
  <2> QED
    BY <2>1
<1>4. ASSUME NEW r \in Requests, UpsertUpdate(r), link' # link
      PROVE  \/ link'[s] = link[s]
             \/ /\ job[r] \in UpsertJob /\ job[r].do = "upsert" /\ job[r].slug = s
                /\ IsRow(link[s]) /\ link'[s] = job[r].patch
  <2>1. job[r] \in UpsertJob /\ job[r].do = "upsert"
    BY <1>0, <1>4, JobCases DEF UpsertUpdate
  <2>2. IsRow(link[job[r].slug]) /\ link' = [link EXCEPT ![job[r].slug] = job[r].patch]
    BY <1>4 DEF UpsertUpdate, Fails
  <2> QED
    BY <1>0, <2>1, <2>2
<1>5. ASSUME NEW r \in Requests, UpsertInsert(r), link' # link
      PROVE  link'[s] = link[s] \/ link[s] = Unused
  BY <1>0, <1>5 DEF UpsertInsert, Fails
<1>6. ASSUME NEW r \in Requests, RevokeWrite(r)
      PROVE  link'[s] = link[s] \/ link'[s] = Revoked
  BY <1>0, <1>6 DEF RevokeWrite
<1>7. ASSUME NEW r \in Requests, DuplicateWrite(r)
      PROVE  link'[s] = link[s] \/ link'[s] = Revoked
  BY <1>0, <1>7 DEF DuplicateWrite, Fails
<1>8. ASSUME link' # link, ~Lapse
      PROVE  \E r \in Requests :
               \/ DeleteWrite(r) \/ UpsertUpdate(r) \/ UpsertInsert(r) \/ RevokeWrite(r)
               \/ DuplicateWrite(r)
  BY <1>8 DEF VariantsNext, Step, variantsVars, CreateRead, CreateInsert, PromoteRead, PromoteWrite, DeleteRead,
     UpsertRead, RevokeRead, DuplicateRead, Fails
<1> QED
  BY <1>1, <1>2, <1>3, <1>4, <1>5, <1>6, <1>7, <1>8

\* A revoked link stays revoked, and a closed one opens only to a request that
\* asked for it or that wrote back fields others have changed since it read.
THEOREM VariantsLinksClosed == VariantsSpec => ClosedLinksStayClosed
<1> DEFINE Closed(s) ==
       /\ link[s] = Revoked => link'[s] = Revoked
       /\ IsRow(link[s]) /\ ~IsOpen(link[s]) /\ IsOpen(link'[s]) =>
            \E r \in Requests :
              /\ job[r].do = "upsert"
              /\ job[r].overtaken \/ job[r].asked.enabled = "on"
                 \/ job[r].asked.expires \in {"never", "later"}
<1>1. VariantsInv /\ [VariantsNext]_variantsVars => [\A s \in Slugs : Closed(s)]_variantsVars
  <2> SUFFICES ASSUME VariantsInv, [VariantsNext]_variantsVars, NEW s \in Slugs PROVE Closed(s)
    OBVIOUS
  <2>0. link[s] \in LinkType \cup {Unused, Revoked}
    BY DEF VariantsInv, VariantsTypeOK
  <2>1. CASE link'[s] = link[s]
    BY <2>1
  <2>2. ASSUME NEW v \in Variants, link'[s] = Unlinked(link[s], v) PROVE Closed(s)
    <3>1. ~IsRow(Revoked)
      BY DEF IsRow
    <3> QED
      BY <2>0, <2>2, <3>1, UnlinkedType DEF IsOpen
  <2>3. CASE IsRow(link[s]) /\ link'[s] = Lapsed(link[s])
    <3>1. link[s] \in LinkType
      BY <2>0, <2>3 DEF IsRow
    <3> QED
      BY <2>3, <3>1, LapsedType DEF IsOpen, IsRow
  <2>4. CASE link[s] = Unused
    <3>1. Unused # Revoked
      <4>1. Unused.deleted = FALSE /\ Revoked.deleted = TRUE
        BY DEF Unused, Revoked
      <4> QED
        BY <4>1
    <3> QED
      BY <2>4, <3>1 DEF IsRow
  <2>5. CASE link'[s] = Revoked
    BY <2>5 DEF IsOpen, IsRow
  <2>6. ASSUME NEW r \in Requests, job[r] \in UpsertJob, job[r].do = "upsert", job[r].slug = s,
               IsRow(link[s]), link'[s] = job[r].patch
        PROVE  Closed(s)
    <3>1. link[s] # Revoked
      BY <2>6 DEF IsRow
    <3>2. /\ job[r].asked.enabled \in {"keep", "on", "off"}
          /\ job[r].asked.expires \in {"keep", "never", "later"}
          /\ job[r].overtaken \in BOOLEAN
      BY <2>6 DEF UpsertJob, Settings, Keep
    <3>3. FreshUpsert(job[r]) /\ AsAsked(job[r]) /\ s # None
      BY ConstantsAssumption DEF VariantsInv
    <3>4. CASE ~job[r].overtaken /\ job[r].asked.enabled # "on" /\ job[r].asked.expires = "keep"
      <4>1. IsOpen(link'[s]) => IsOpen(link[s])
        BY <2>6, <3>2, <3>3, <3>4 DEF FreshUpsert, AsAsked, IsOpen
      <4> QED
        BY <3>1, <4>1
    <3>5. CASE job[r].overtaken \/ job[r].asked.enabled = "on"
               \/ job[r].asked.expires \in {"never", "later"}
      BY <2>6, <3>1, <3>5
    <3> QED
      BY <3>2, <3>4, <3>5
  <2> HIDE DEF Closed
  <2> QED
    BY <2>1, <2>2, <2>3, <2>4, <2>5, <2>6, LinkMoves
<1> QED
  BY <1>1, VariantsStart, VariantsStep, PTL DEF VariantsSpec, ClosedLinksStayClosed
=============================================================================
