----------------------------- MODULE Membership -----------------------------
(***************************************************************************)
(* Who is on a trip, who owns it and who each ledger placeholder is        *)
(* (modules/collab: members and invitations; the rows trips.create makes). *)
(*                                                                         *)
(* A request is authorised by an access loaded before its handler runs.    *)
(* changeRole, removeMember, sendInvites and declineInvite use no          *)
(* transaction: each of their statements commits alone.  In the two        *)
(* transactions, transferOwnership and acceptInvite, a step is what lies   *)
(* between two statements another request could see or influence: the      *)
(* writes of a transfer meet the row locks of other requests one by one,   *)
(* in an order that commits as if they were one step; the member row       *)
(* acceptInvite inserts is invisible, but its key makes a second           *)
(* acceptance by the same person wait.                                     *)
(*                                                                         *)
(* Left out: presence, listings, notes, emails and audit rows, which no    *)
(* handler here reads back; the archived flag, which closes the gate of    *)
(* every action at once; a person's address is the person.                 *)
(***************************************************************************)
EXTENDS Policy, Integers, FiniteSets

CONSTANTS
  Users,         \* accounts
  Creator,       \* the account that created the trip
  Placeholders,  \* ledger participants somebody added by name
  Invites,       \* ids of invitations; a failed insert is one without a free id
  Requests,      \* requests under way at one time
  Grants,        \* roles that invitations and changes of role give: a bound
  Batches,       \* sets of addresses one request invites: a bound
  MemberLimit,   \* limits.membersPerTrip
  Nobody         \* no account, no placeholder, no invitation

ASSUME ConstantsAssumption ==
  /\ Creator \in Users
  /\ Nobody \notin Users \cup Placeholders \cup Invites
  /\ Grants \subseteq Roles \ {"OWNER"}
  /\ Batches \subseteq (SUBSET Users) \ {{}}
  /\ MemberLimit \in Nat \ {0}

ASSUME FiniteAssumption == IsFiniteSet(Users) /\ IsFiniteSet(Requests)

VARIABLES
  role,       \* trip_members.role, "NONE" where there is no row
  ownerId,    \* trips.owner_id
  listed,     \* accounts with a trip_participants row made when they joined
  holder,     \* trip_participants.user_id of a placeholder
  active,     \* placeholders with is_active
  invite,     \* the rows of invites
  job,        \* what each request is doing and has read
  displaced,  \* history: accounts whose placeholder a second claim took over
  late        \* history: requests whose invitation somebody else has answered,
              \* or has run out, since they found it open

vars == <<role, ownerId, listed, holder, active, invite, job, displaced, late>>

Statuses == {"PENDING", "ACCEPTED", "DECLINED", "EXPIRED", "REVOKED"}

InviteType ==
  [email : Users, role : Grants, claims : Placeholders \cup {Nobody},
   status : Statuses, expired : BOOLEAN]
NoInvite == [status |-> "UNUSED", expired |-> FALSE]

Idle == [do |-> "nothing"]
JobType ==
  {Idle} \cup
  [do : {"changeRole"}, by : Users, target : Users, to : Grants] \cup
  [do : {"transfer", "hand over", "remove", "delete"}, by : Users, target : Users] \cup
  [do : {"send", "sending", "insert"}, by : Users, emails : SUBSET Users,
   role : Grants, claims : Placeholders \cup {Nobody}, email : Users \cup {Nobody}] \cup
  [do : {"revoke", "accept", "claim", "decline"}, by : Users, invite : Invites]

TypeOK ==
  /\ role \in [Users -> Roles \cup {"NONE"}]
  /\ ownerId \in Users
  /\ listed \subseteq Users
  /\ holder \in [Placeholders -> (Users \ listed) \cup {Nobody}]
  /\ active \subseteq Placeholders
  /\ invite \in [Invites -> InviteType \cup {NoInvite}]
  /\ job \in [Requests -> JobType]
  /\ displaced \subseteq Users
  /\ late \subseteq Requests

Members == {u \in Users : role[u] # "NONE"}
Pending == {i \in Invites : invite[i].status = "PENDING"}
Owners(r) == {u \in Users : r[u] = "OWNER"}
Unclaimed(p) == holder[p] = Nobody /\ p \in active

\* The account already is a participant of the trip.
HasIdentity(u) == u \in listed \/ \E p \in Placeholders : holder[p] = u

\* (mutant) no unique index.
NoParticipantIndex(u) == TRUE

\* participants_trip_user_uq: a user appears at most once in a trip's ledger.
UniqueParticipant(u) == ~HasIdentity(u)

\* trips.create, and one ledger placeholder after another.
Init ==
  /\ role = [u \in Users |-> IF u = Creator THEN "OWNER" ELSE "NONE"]
  /\ ownerId = Creator
  /\ listed = {Creator}
  /\ holder = [p \in Placeholders |-> Nobody]
  /\ active = Placeholders
  /\ invite = [i \in Invites |-> NoInvite]
  /\ job = [r \in Requests |-> Idle]
  /\ displaced = {}
  /\ late = {}

Goes(r, step) == job' = [job EXCEPT ![r].do = step]
Ends(r) == job' = [job EXCEPT ![r] = Idle]

-----------------------------------------------------------------------------
(* The gate: what a member may ask for, with the access loaded now.          *)

\* (mutant) the caller's own role may be changed too.
AsksUnchecked(u) ==
  [do : {"changeRole"}, by : {u}, target : Users, to : Grants] \cup
  [do : {"transfer", "remove"}, by : {u}, target : Users \ {u}] \cup
  [do : {"send"}, by : {u}, emails : Batches, role : Grants,
   claims : Placeholders \cup {Nobody}, email : {Nobody}] \cup
  [do : {"revoke"}, by : {u}, invite : Invites]

Asks(u) ==
  [do : {"changeRole"}, by : {u}, target : Users \ {u}, to : Grants] \cup
  [do : {"transfer", "remove"}, by : {u}, target : Users \ {u}] \cup
  [do : {"send"}, by : {u}, emails : Batches, role : Grants,
   claims : Placeholders \cup {Nobody}, email : {Nobody}] \cup
  [do : {"revoke"}, by : {u}, invite : Invites]

Gate(do) ==
  CASE do \in {"changeRole", "remove"} -> "member:manage"
    [] do = "transfer"                 -> "trip:transfer-ownership"
    [] do \in {"send", "revoke"}       -> "member:invite"

LoadAccess(r) ==
  /\ job[r] = Idle
  /\ \E u \in Members : \E ask \in Asks(u) :
       /\ May([role |-> role[u]], Gate(ask.do))
       /\ job' = [job EXCEPT ![r] = ask]
  /\ UNCHANGED <<role, ownerId, listed, holder, active, invite, displaced, late>>

-----------------------------------------------------------------------------
(* Members.                                                                  *)

ChangeRole(r) ==
  /\ job[r].do = "changeRole"
  /\ IF job[r].target \in Members
     THEN role' = [role EXCEPT ![job[r].target] = job[r].to]
     ELSE UNCHANGED role
  /\ Ends(r)
  /\ UNCHANGED <<ownerId, listed, holder, active, invite, displaced, late>>

TransferRead(r) ==
  /\ job[r].do = "transfer"
  /\ IF job[r].target \in Members THEN Goes(r, "hand over") ELSE Ends(r)
  /\ UNCHANGED <<role, ownerId, listed, holder, active, invite, displaced, late>>

\* The two updates of trip_members; either may match no row any more.
HandedOver(from, to) ==
  [u \in Users |-> IF u = to /\ u \in Members THEN "OWNER"
                   ELSE IF u = from /\ u \in Members THEN "EDITOR"
                   ELSE role[u]]

\* one_owner_per_trip.
OneOwnerPerTrip(r) == Cardinality(Owners(r)) <= 1

TransferWrite(r) ==
  /\ job[r].do = "hand over"
  /\ LET after == HandedOver(job[r].by, job[r].target) IN
       IF OneOwnerPerTrip(after)
       THEN role' = after /\ ownerId' = job[r].target
       ELSE UNCHANGED <<role, ownerId>>
  /\ Ends(r)
  /\ UNCHANGED <<listed, holder, active, invite, displaced, late>>

RemoveRead(r) ==
  /\ job[r].do = "remove"
  /\ IF role[job[r].target] \in {"NONE", "OWNER"} THEN Ends(r) ELSE Goes(r, "delete")
  /\ UNCHANGED <<role, ownerId, listed, holder, active, invite, displaced, late>>

\* The participant row stays: removal from the crew leaves the ledger alone.
RemoveDelete(r) ==
  /\ job[r].do = "delete"
  /\ role' = [role EXCEPT ![job[r].target] = "NONE"]
  /\ Ends(r)
  /\ UNCHANGED <<ownerId, listed, holder, active, invite, displaced, late>>

-----------------------------------------------------------------------------
(* Invitations, as the crew sees them.                                       *)

\* countMembers, countPendingInvites and requireClaimablePlaceholder.
SendCount(r) ==
  /\ job[r].do = "send"
  /\ IF /\ Cardinality(Members) + Cardinality(Pending) + Cardinality(job[r].emails)
             <= MemberLimit
        /\ job[r].claims # Nobody => Unclaimed(job[r].claims)
     THEN Goes(r, "sending")
     ELSE Ends(r)
  /\ UNCHANGED <<role, ownerId, listed, holder, active, invite, displaced, late>>

\* What is left of the loop over the addresses.
Remaining(r, rest) ==
  job' = [job EXCEPT ![r] = IF rest = {} THEN Idle
                            ELSE [@ EXCEPT !.do = "sending", !.emails = rest, !.email = Nobody]]

\* The next address: a member is skipped, anyone else has an insert coming.
SendCheck(r) ==
  /\ job[r].do = "sending"
  /\ \E e \in job[r].emails :
       IF e \in Members
       THEN Remaining(r, job[r].emails \ {e})
       ELSE job' = [job EXCEPT ![r].emails = @ \ {e}, ![r].email = e, ![r].do = "insert"]
  /\ UNCHANGED <<role, ownerId, listed, holder, active, invite, displaced, late>>

\* one_pending_invite: the insert fails and the address is passed over.
PendingFor(e) == {i \in Pending : invite[i].email = e}

SendInsert(r) ==
  /\ job[r].do = "insert"
  /\ LET free == {i \in Invites : invite[i] = NoInvite} IN
       IF PendingFor(job[r].email) = {} /\ free # {}
       THEN \E i \in free :
              invite' = [invite EXCEPT ![i] =
                [email |-> job[r].email, role |-> job[r].role,
                 claims |-> job[r].claims, status |-> "PENDING", expired |-> FALSE]]
       ELSE UNCHANGED invite
  /\ Remaining(r, job[r].emails)
  /\ UNCHANGED <<role, ownerId, listed, holder, active, displaced, late>>

\* The requests that found an invitation open and have not ended.
Openers(i) ==
  {r \in Requests : job[r].do \in {"accept", "claim", "decline"} /\ job[r].invite = i}

\* Request r answers an invitation; whoever else has opened it comes late.
Answered(r, i, status) ==
  /\ invite' = [invite EXCEPT ![i].status = status]
  /\ late' = (late \cup Openers(i)) \ {r}

RevokeInvite(r) ==
  /\ job[r].do = "revoke"
  /\ IF job[r].invite \in Pending
     THEN Answered(r, job[r].invite, "REVOKED")
     ELSE UNCHANGED <<invite, late>>
  /\ Ends(r)
  /\ UNCHANGED <<role, ownerId, listed, holder, active, displaced>>

-----------------------------------------------------------------------------
(* Invitations, as the invited person sees them.  There is no gate: the      *)
(* emailed token and the address are the authorisation.                      *)

\* (mutant) whatever answer it has had.
AcceptableAnswered(i, u) ==
  /\ invite[i] # NoInvite /\ ~invite[i].expired
  /\ invite[i].email = u
  /\ u \notin Members
  /\ Cardinality(Members) < MemberLimit

\* An invitation that can be opened for acceptance.  One that has expired is
\* marked EXPIRED and then refused by an error, which undoes the mark.
Acceptable(i, u) ==
  /\ i \in Pending /\ ~invite[i].expired
  /\ invite[i].email = u
  /\ u \notin Members
  /\ Cardinality(Members) < MemberLimit

AcceptRead(r) ==
  /\ job[r] = Idle
  /\ \E i \in Invites, u \in Users :
       /\ Acceptable(i, u)
       /\ job' = [job EXCEPT ![r] = [do |-> "accept", by |-> u, invite |-> i]]
  /\ UNCHANGED <<role, ownerId, listed, holder, active, invite, displaced, late>>

\* The member row goes in, waiting for another uncommitted one of the same
\* person; then the placeholder is looked at again.
AcceptInsert(r) ==
  /\ job[r].do = "accept"
  /\ \A s \in Requests \ {r} : ~(job[s].do = "claim" /\ job[s].by = job[r].by)
  /\ LET p == invite[job[r].invite].claims IN
       IF job[r].by \notin Members /\ (p # Nobody => Unclaimed(p))
       THEN Goes(r, "claim") /\ UNCHANGED late
       ELSE Ends(r) /\ late' = late \ {r}
  /\ UNCHANGED <<role, ownerId, listed, holder, active, invite, displaced>>

\* (mutant) a claimed placeholder is forgotten, or no row is made for the account.
AcceptWithoutIdentity(r) ==
  /\ job[r].do = "claim"
  /\ LET u == job[r].by IN
       IF ~UniqueParticipant(u)
       THEN late' = late \ {r} /\ UNCHANGED <<role, invite>>
       ELSE /\ role' = [role EXCEPT ![u] = invite[job[r].invite].role]
            /\ Answered(r, job[r].invite, "ACCEPTED")
  /\ Ends(r)
  /\ UNCHANGED <<ownerId, active, listed, holder, displaced>>

\* The claim is written by the placeholder's id alone; whoever held it loses it.
AcceptWrite(r) ==
  /\ job[r].do = "claim"
  /\ LET u == job[r].by
         i == job[r].invite
         p == invite[i].claims
     IN IF ~UniqueParticipant(u)
        THEN late' = late \ {r} /\ UNCHANGED <<role, listed, holder, invite, displaced>>
        ELSE /\ role' = [role EXCEPT ![u] = invite[i].role]
             /\ Answered(r, i, "ACCEPTED")
             /\ IF p = Nobody
                THEN listed' = listed \cup {u} /\ UNCHANGED <<holder, displaced>>
                ELSE /\ holder' = [holder EXCEPT ![p] = u]
                     /\ displaced' = displaced \cup ({holder[p]} \cap Users)
                     /\ UNCHANGED listed
  /\ Ends(r)
  /\ UNCHANGED <<ownerId, active>>

\* (mutant) whatever answer it has had.
DeclineAnswered(r) ==
  /\ job[r] = Idle
  /\ \E i \in {k \in Invites : invite[k] # NoInvite} :
       job' = [job EXCEPT ![r] = [do |-> "decline", by |-> invite[i].email, invite |-> i]]
  /\ UNCHANGED <<role, ownerId, listed, holder, active, invite, displaced, late>>

DeclineRead(r) ==
  /\ job[r] = Idle
  /\ \E i \in Pending :
       job' = [job EXCEPT ![r] = [do |-> "decline", by |-> invite[i].email, invite |-> i]]
  /\ UNCHANGED <<role, ownerId, listed, holder, active, invite, displaced, late>>

DeclineWrite(r) ==
  /\ job[r].do = "decline"
  /\ Answered(r, job[r].invite, "DECLINED")
  /\ Ends(r)
  /\ UNCHANGED <<role, ownerId, listed, holder, active, displaced>>

-----------------------------------------------------------------------------
(* Time, and the ledger, which may deactivate a placeholder.                 *)

\* Declining looks at no date: it is not too late for that.
Expire(i) ==
  /\ i \in Pending /\ ~invite[i].expired
  /\ invite' = [invite EXCEPT ![i].expired = TRUE]
  /\ late' = late \cup {r \in Openers(i) : job[r].do # "decline"}
  /\ UNCHANGED <<role, ownerId, listed, holder, active, job, displaced>>

Retire(p) ==
  /\ p \in active
  /\ active' = active \ {p}
  /\ UNCHANGED <<role, ownerId, listed, holder, invite, job, displaced, late>>

Step(r) ==
  \/ ChangeRole(r)
  \/ TransferRead(r) \/ TransferWrite(r)
  \/ RemoveRead(r) \/ RemoveDelete(r)
  \/ SendCount(r) \/ SendCheck(r) \/ SendInsert(r)
  \/ RevokeInvite(r)
  \/ AcceptInsert(r) \/ AcceptWrite(r)
  \/ DeclineWrite(r)

Next ==
  \/ \E r \in Requests : LoadAccess(r) \/ AcceptRead(r) \/ DeclineRead(r) \/ Step(r)
  \/ \E i \in Invites : Expire(i)
  \/ \E p \in Placeholders : Retire(p)

Spec == Init /\ [][Next]_vars

-----------------------------------------------------------------------------
(* Properties.                                                               *)

OwnershipSound == Cardinality(Owners(role)) = 1 /\ role[ownerId] = "OWNER"

\* The caller is no owner any more, or the person who is to be owner has left.
StaleOwner(r) ==
  /\ job[r].do \in {"changeRole", "hand over", "delete"}
  /\ \/ role[job[r].by] # "OWNER"
     \/ job[r].do = "hand over" /\ job[r].target \notin Members

\* A trip has one owner, the one trips.owner_id names, and loses that only to a
\* request that commits on an access or a member that is no longer so: no
\* sequence of requests that do not overlap a transfer or a removal does it.
OwnershipLostOnlyByStale ==
  [][OwnershipSound /\ ~OwnershipSound'
       => \E r \in Requests : StaleOwner(r) /\ job'[r] = Idle]_vars

\* Every member is somebody in the ledger, except one whose claimed placeholder
\* a second acceptance took over (acceptInvite: the claim is written by id alone).
MembersHaveIdentity ==
  \A u \in Members : HasIdentity(u) \/ u \in displaced

\* Who was removed stays out: no acceptance under way, no second invitation and
\* no claim brings back an account the ledger still knows (removeMember keeps the
\* participant row, and participants_trip_user_uq then refuses a new one).
RemovedStayOut ==
  [][\A u \in Users : HasIdentity(u) /\ u \notin Members => role'[u] = "NONE"]_vars

\* A request that comes late to invitation i writes its answer all the same.
LateAnswer(i) == \E r \in late \cap Openers(i) : job'[r] = Idle

\* An invitation that was answered keeps its answer, and one that has expired
\* admits nobody.  The one exception is a request that had found the invitation
\* open before somebody else answered it, or before it ran out, and writes its
\* own answer by the row's id alone (acceptInvite, declineInvite).
ClosedInvitesStayClosed ==
  [][\A i \in Invites :
       /\ invite[i].status \notin {"UNUSED", "PENDING"}
            => invite'[i].status = invite[i].status \/ LateAnswer(i)
       /\ i \in Pending /\ invite[i].expired /\ invite'[i].status = "ACCEPTED"
            => LateAnswer(i)]_vars

=============================================================================
