------------------------------ MODULE Delivery ------------------------------
(***************************************************************************)
(* How a change of a trip reaches people: the notification rows written in *)
(* its transaction (notifications/activity.service), the broadcast after   *)
(* the commit (DeferredBroadcast), the room of open sockets it goes to     *)
(* (platform/realtime/hub), and the sweep of the digests.                  *)
(*                                                                         *)
(* The change is a comment, the one mutation that notifies both ways: all  *)
(* members by digest, those mentioned at once; or a guest's, which is      *)
(* inserted first and told of afterwards, in no transaction and without a  *)
(* broadcast (sharing.service).                                            *)
(*                                                                         *)
(* A room is a Set object that the map refers to and that the handlers of  *)
(* its sockets keep referring to afterwards; it is named after the socket  *)
(* it was made for.                                                        *)
(*                                                                         *)
(* Left out: the read flag of a row, the payload of an event, and whose a  *)
(* socket is, which broadcast() does not look at.  Rows staged inside a    *)
(* transaction are visible from its commit, so their insertion is one step *)
(* with the reading of the preferences that decides them.                  *)
(***************************************************************************)
EXTENDS FiniteSets

CONSTANTS
  Users,     \* people who may be on the trip
  Owner,     \* one of them, who stays
  Changes,   \* comments that are made
  Mentions,  \* the sets of users a comment may mention
  Sockets,   \* connections, each used once
  NoRoom, NoUser

ASSUME DeliveryAssumption ==
  /\ Owner \in Users
  /\ Mentions \subseteq SUBSET Users
  /\ NoRoom \notin Sockets
  /\ NoUser \notin Users

VARIABLES
  members,   \* users on the trip
  mail,      \* users with emailNotificationsEnabled
  change,    \* each change and the request that makes it
  rows,      \* the notifications table
  room,      \* what the map holds for the trip
  conns,     \* the connections in each room object
  socket,    \* state and room object of each socket
  heard,     \* events sent to each socket
  overtaken  \* history: sockets that a late cleanup may have left out of the map

people == <<members, mail>>
hub == <<room, conns, socket, overtaken>>
vars == <<people, change, rows, hub, heard>>

Kinds == {"COMMENT", "MENTION"}
Immediate == {"MENTION"}
EmailStates == {"PENDING", "BATCHED", "SENT", "SUPPRESSED"}
Row == [of : Changes, to : Users, kind : Kinds, email : EmailStates]

Running == {"begun", "members", "comment", "staged"}
OfGuest == {"guest", "guest members"}
InDatabase == {"committed", "lost", "done", "told"} \cup OfGuest
ChangeType ==
  [at : {"none", "failed"} \cup Running \cup InDatabase,
   by : Users \cup {NoUser}, mentions : SUBSET Users, told : SUBSET Users,
   staged : SUBSET Row,
   due : SUBSET Users,        \* history: members since the request began
   muted : SUBSET Users,      \* history: without email even then
   audience : SUBSET Sockets] \* history: open when it committed
NoChange == [at |-> "none", by |-> NoUser, mentions |-> {}, told |-> {}, staged |-> {},
             due |-> {}, muted |-> {}, audience |-> {}]

SocketStates == {"away", "open", "failed", "closing", "closed"}
Away == [is |-> "away", home |-> NoRoom]
Gone == [is |-> "closed", home |-> NoRoom]

TypeOK ==
  /\ members \subseteq Users
  /\ mail \subseteq Users
  /\ change \in [Changes -> ChangeType]
  /\ rows \subseteq Row
  /\ room \in Sockets \cup {NoRoom}
  /\ conns \in [Sockets -> SUBSET Sockets]
  /\ socket \in [Sockets -> [is : SocketStates, home : Sockets \cup {NoRoom}]]
  /\ heard \in [Sockets -> SUBSET Changes]
  /\ overtaken \subseteq Sockets
  /\ \A r, s \in Sockets :
       s \in conns[r] <=> socket[s].is \in {"open", "closing"} /\ socket[s].home = r

Init ==
  /\ members = Users
  /\ mail = Users
  /\ change = [c \in Changes |-> NoChange]
  /\ rows = {}
  /\ room = NoRoom
  /\ conns = [s \in Sockets |-> {}]
  /\ socket = [s \in Sockets |-> Away]
  /\ heard = [s \in Sockets |-> {}]
  /\ overtaken = {}

Open == {s \in Sockets : socket[s].is = "open"}

-----------------------------------------------------------------------------
(* People.                                                                   *)

\* The requests under way need not tell u any more: history.
Forget(u) ==
  change' = [c \in Changes |->
    IF change[c].at \in Running \cup OfGuest
    THEN [change[c] EXCEPT !.due = @ \ {u}] ELSE change[c]]

Join(u) ==
  /\ u \notin members
  /\ members' = members \cup {u}
  /\ UNCHANGED <<mail, change, rows, hub, heard>>

\* removeMember: the row goes; the sockets of the person stay.
Leave(u) ==
  /\ u \in members \ {Owner}
  /\ members' = members \ {u}
  /\ Forget(u)
  /\ UNCHANGED <<mail, rows, hub, heard>>

\* Nothing in the code turns the emails on again.
Unsubscribe(u) ==
  /\ u \in mail
  /\ mail' = mail \ {u}
  /\ UNCHANGED <<members, change, rows, hub, heard>>

-----------------------------------------------------------------------------
(* createComment, one transaction and then the flush; and guestComment.      *)

\* Access is loaded for a member, and the transaction begins.
Begin(c, u) ==
  /\ change[c].at = "none"
  /\ u \in members
  /\ \E m \in Mentions :
       change' = [change EXCEPT ![c] =
         [NoChange EXCEPT !.at = "begun", !.by = u, !.mentions = m,
                          !.due = members \ {u}, !.muted = Users \ mail]]
  /\ UNCHANGED <<people, rows, hub, heard>>

\* guestComment: the comment is there at once.
GuestComment(c) ==
  /\ change[c].at = "none"
  /\ change' = [change EXCEPT ![c] =
       [NoChange EXCEPT !.at = "guest", !.due = members, !.muted = Users \ mail]]
  /\ UNCHANGED <<people, rows, hub, heard>>

\* The first half of notify(): everyone but the actor.
ReadMembers(c) ==
  /\ change[c].at \in {"begun", "guest"}
  /\ change' = [change EXCEPT ![c].at = IF @ = "begun" THEN "members" ELSE "guest members",
                              ![c].told = members \ {change[c].by}]
  /\ UNCHANGED <<people, rows, hub, heard>>

\* (mutant) the kind decides before the preference does.
EmailOfKind(u, kind) ==
  IF kind \in Immediate THEN "PENDING"
  ELSE IF u \notin mail THEN "SUPPRESSED" ELSE "BATCHED"

EmailState(u, kind) ==
  IF u \notin mail THEN "SUPPRESSED"
  ELSE IF kind \in Immediate THEN "PENDING" ELSE "BATCHED"

\* The second half of notify(): preferences are read and the rows inserted.
Staged(c, kind, targets) ==
  {[of |-> c, to |-> u, kind |-> kind, email |-> EmailState(u, kind)] : u \in targets}

StageComment(c) ==
  /\ change[c].at = "members"
  /\ change' = [change EXCEPT ![c].at = "comment",
                              ![c].staged = Staged(c, "COMMENT", change[c].told)]
  /\ UNCHANGED <<people, rows, hub, heard>>

TellOfGuest(c) ==
  /\ change[c].at = "guest members"
  /\ rows' = rows \cup Staged(c, "COMMENT", change[c].told)
  /\ change' = [change EXCEPT ![c].at = "told", ![c].told = {}]
  /\ UNCHANGED <<people, hub, heard>>

\* A statement of notify() fails, and the guest's comment stays untold.
GuestFails(c) ==
  /\ change[c].at \in OfGuest
  /\ change' = [change EXCEPT ![c].at = "lost", ![c].told = {}]
  /\ UNCHANGED <<people, rows, hub, heard>>

\* Whoever is named is told, on the trip or not.
StageMention(c) ==
  /\ change[c].at = "comment"
  /\ change' = [change EXCEPT
       ![c].at = "staged",
       ![c].staged = @ \cup Staged(c, "MENTION", change[c].mentions \ {change[c].by})]
  /\ UNCHANGED <<people, rows, hub, heard>>

Commit(c) ==
  /\ change[c].at = "staged"
  /\ rows' = rows \cup change[c].staged
  /\ \E acknowledged \in BOOLEAN :
       change' = [change EXCEPT ![c].at = IF acknowledged THEN "committed" ELSE "lost",
                                ![c].staged = {}, ![c].told = {}, ![c].audience = Open]
  /\ UNCHANGED <<people, hub, heard>>

\* The block or the parent is not there, or a statement fails.
RollBack(c) ==
  /\ change[c].at \in Running
  /\ change' = [change EXCEPT ![c] = [NoChange EXCEPT !.at = "failed"]]
  /\ UNCHANGED <<people, rows, hub, heard>>

\* (mutant) the event goes out at the end of the transaction, not after it.
FlushInside(c) ==
  /\ change[c].at \in {"staged", "committed"}
  /\ heard' = [s \in Sockets |->
       IF room # NoRoom /\ s \in conns[room] \cap Open THEN heard[s] \cup {c} ELSE heard[s]]
  /\ change' = IF change[c].at = "committed" THEN [change EXCEPT ![c].at = "done"] ELSE change
  /\ UNCHANGED <<people, rows, hub>>

\* broadcast(): to the sockets in the room, if they are open.
Flush(c) ==
  /\ change[c].at = "committed"
  /\ heard' = [s \in Sockets |->
       IF room # NoRoom /\ s \in conns[room] \cap Open THEN heard[s] \cup {c} ELSE heard[s]]
  /\ change' = [change EXCEPT ![c].at = "done"]
  /\ UNCHANGED <<people, rows, hub>>

-----------------------------------------------------------------------------
(* The room.                                                                 *)

\* A member's upgrade is accepted; the room of the trip is found or made.
Register(s) ==
  /\ socket[s] = Away
  /\ LET home == IF room = NoRoom THEN s ELSE room IN
     /\ room' = home
     /\ conns' = [conns EXCEPT ![home] = @ \cup {s}]
     /\ socket' = [socket EXCEPT ![s] = [is |-> "open", home |-> home]]
  /\ UNCHANGED <<people, change, rows, heard, overtaken>>

\* (mutant) the connection is left in its room.
CleanupKeeps(s) ==
  /\ conns' = conns
  /\ room' = IF conns[socket[s].home] = {s} THEN NoRoom ELSE room

\* (mutant) the room is dropped with sockets in it.
CleanupAll(s) ==
  /\ conns' = [conns EXCEPT ![socket[s].home] = @ \ {s}]
  /\ room' = NoRoom

\* The handler of both events; the room object is the one s registered in, the
\* map entry whatever the trip has by now.
Cleanup(s) ==
  /\ conns' = [conns EXCEPT ![socket[s].home] = @ \ {s}]
  /\ room' = IF conns'[socket[s].home] = {} THEN NoRoom ELSE room

\* History: a cleanup is late when its socket has failed, was shut down, or is
\* itself not in the map any more.
NoteLate(s) ==
  overtaken' = (IF socket[s].is = "open" /\ s \notin overtaken THEN overtaken ELSE Open) \ {s}

\* "error": ws has begun to close the socket, and "close" is still to come.
Fail(s) ==
  /\ socket[s].is = "open"
  /\ Cleanup(s)
  /\ NoteLate(s)
  /\ socket' = [socket EXCEPT ![s].is = "failed"]
  /\ UNCHANGED <<people, change, rows, heard>>

\* "close": the peer leaves, the heartbeat drops it, or after one of the above.
Close(s) ==
  /\ socket[s].is \in {"open", "failed", "closing"}
  /\ Cleanup(s)
  /\ socket' = [socket EXCEPT ![s] = Gone]
  /\ NoteLate(s)
  /\ UNCHANGED <<people, change, rows, heard>>

\* SIGTERM: the map is cleared and the sockets begin to close.
CloseAll ==
  /\ Open # {}
  /\ room' = NoRoom
  /\ socket' = [s \in Sockets |->
       IF room # NoRoom /\ s \in conns[room] THEN [socket[s] EXCEPT !.is = "closing"]
       ELSE socket[s]]
  /\ UNCHANGED <<people, change, rows, conns, heard, overtaken>>

\* The process ends, by itself or by force, and another starts.
Restart ==
  /\ \E s \in Sockets : socket[s].is \in {"open", "failed", "closing"}
  /\ room' = NoRoom
  /\ conns' = [s \in Sockets |-> {}]
  /\ socket' = [s \in Sockets |-> IF socket[s] = Away THEN Away ELSE Gone]
  /\ overtaken' = {}
  /\ change' = [c \in Changes |->
       CASE change[c].at \in Running -> [NoChange EXCEPT !.at = "failed"]
         [] change[c].at \in {"committed"} \cup OfGuest ->
              [change[c] EXCEPT !.at = "lost", !.told = {}]
         [] OTHER -> change[c]]
  /\ UNCHANGED <<people, rows, heard>>

-----------------------------------------------------------------------------
\* sweepNotificationEmails: the batched rows that are old enough; not those
\* PENDING, which nothing ever sends.
Sweep ==
  /\ \E old \in SUBSET rows :
       /\ \E n \in old : n.email = "BATCHED"
       /\ rows' = {IF n \in old /\ n.email = "BATCHED" THEN [n EXCEPT !.email = "SENT"] ELSE n :
                     n \in rows}
  /\ UNCHANGED <<people, change, hub, heard>>

Next ==
  \/ \E u \in Users : Join(u) \/ Leave(u) \/ Unsubscribe(u)
  \/ \E c \in Changes :
       \/ \E u \in Users : Begin(c, u)
       \/ GuestComment(c) \/ TellOfGuest(c) \/ GuestFails(c)
       \/ ReadMembers(c) \/ StageComment(c) \/ StageMention(c)
       \/ Commit(c) \/ RollBack(c) \/ Flush(c)
  \/ \E s \in Sockets : Register(s) \/ Fail(s) \/ Close(s)
  \/ CloseAll \/ Restart \/ Sweep

Spec == Init /\ [][Next]_vars

-----------------------------------------------------------------------------
\* The channel is a Publication: no client hears of a change that is rolled
\* back, and of none twice, wherever the process stops ("MUST be called after
\* the transaction commits", hub.broadcast; DeferredBroadcast).
Published ==
  INSTANCE Publication WITH
    Changes <- Changes,
    Listeners <- Sockets,
    committed <- {c \in Changes : change[c].at \in InDatabase},
    announced <- {c \in Changes : change[c].at = "done"},
    heard <- heard
Publishes == Published!Spec

Hears(s, c) == change[c].at = "done" /\ s \in change[c].audience \cap Open => c \in heard[s]

\* Whoever was connected when a change committed and still is has been sent it
\* once it is flushed, unless a socket that had failed, that a shutdown had begun
\* to close, or that was overtaken so itself, took the room down (cleanup).
HearUnlessOvertaken == \A s \in Sockets \ overtaken, c \in Changes : Hears(s, c)

\* "Fan out to every socket in a trip's room" (hub.broadcast): with no exception.
EveryoneHears == \A s \in Sockets, c \in Changes : Hears(s, c)

MustTell(c) ==
  change[c].at \in (IF change[c].by = NoUser THEN {"told"} ELSE InDatabase)

\* Who is told by mail or in the app: nobody of what did not commit or of what
\* they did themselves; each member who was there all along, once, of a change
\* made by a member, and of a guest's unless the telling failed; and nobody whose
\* email was off all along is ever mailed (notify, the sweep; FR-NOTIF-09).
InboxesRight ==
  /\ \A n \in rows :
       /\ change[n.of].at \in InDatabase
       /\ n.to # change[n.of].by
       /\ n.to \in change[n.of].muted => n.email = "SUPPRESSED"
       /\ \A m \in rows : m.of = n.of /\ m.to = n.to /\ m.kind = n.kind => m = n
  /\ \A c \in Changes : MustTell(c) =>
       change[c].due \subseteq {n.to : n \in {m \in rows : m.of = c /\ m.kind = "COMMENT"}}
=============================================================================
