-------------------------- MODULE MembershipProofs --------------------------
(***************************************************************************)
(* Theorems about Membership, for every value of its constants: members    *)
(* have an identity in the ledger, who was removed stays out, answered     *)
(* invitations stay answered, and the trip loses its one owner only to a   *)
(* request whose access or whose target has gone stale.                    *)
(***************************************************************************)
EXTENDS Membership, FiniteSetTheorems, TLAPS

ChangeJob == [do : {"changeRole"}, by : Users, target : Users, to : Grants]
TargetJob == [do : {"transfer", "hand over", "remove", "delete"}, by : Users, target : Users]
SendJob ==
  [do : {"send", "sending", "insert"}, by : Users, emails : SUBSET Users,
   role : Grants, claims : Placeholders \cup {Nobody}, email : Users \cup {Nobody}]
InviteJob == [do : {"revoke", "accept", "claim", "decline"}, by : Users, invite : Invites]

RowsTyped ==
  /\ role \in [Users -> Roles \cup {"NONE"}]
  /\ ownerId \in Users
  /\ listed \subseteq Users
  /\ holder \in [Placeholders -> (Users \ listed) \cup {Nobody}]
  /\ active \subseteq Placeholders
  /\ invite \in [Invites -> InviteType \cup {NoInvite}]
  /\ displaced \subseteq Users

\* What a request j may count on while the members are ms and the invitations
\* inv: who claims is no member yet, an invitation that was opened has a row, a
\* member acts on somebody else, and an insert has an address.
JobSound(j, ms, inv) ==
  /\ j.do = "claim" => j.by \notin ms
  /\ j.do \in {"accept", "claim", "decline"} => inv[j.invite] # NoInvite
  /\ j.do \in {"changeRole", "transfer", "hand over", "remove", "delete"} => j.by # j.target
  /\ j.do = "insert" => j.email \in Users

Claims(r, u) == job[r].do = "claim" /\ job[r].by = u
OneClaim == \A r, s \in Requests, u \in Users : Claims(r, u) /\ Claims(s, u) => r = s

MembershipInv ==
  /\ RowsTyped
  /\ job \in [Requests -> JobType]
  /\ MembersHaveIdentity
  /\ OneClaim
  /\ \A r \in Requests : JobSound(job[r], Members, invite)

\* A request that is not late still finds its invitation as it had found it.
StillOpen(j) ==
  /\ j.do \in {"accept", "claim", "decline"} => j.invite \in Pending
  /\ j.do \in {"accept", "claim"} => ~invite[j.invite].expired

LateInv ==
  /\ late \subseteq Requests
  /\ \A r \in Requests \ late : StillOpen(job[r])

LEMMA InvTypes == MembershipInv /\ LateInv => TypeOK
BY DEF MembershipInv, LateInv, RowsTyped, TypeOK

LEMMA JobKinds ==
  ASSUME NEW j \in JobType
  PROVE  /\ j.do = "changeRole" => j \in ChangeJob
         /\ j.do \in {"transfer", "hand over", "remove", "delete"} => j \in TargetJob
         /\ j.do \in {"send", "sending", "insert"} => j \in SendJob
         /\ j.do \in {"revoke", "accept", "claim", "decline"} => j \in InviteJob
<1>1. j \in {Idle} \cup ChangeJob \cup TargetJob \cup SendJob \cup InviteJob
  BY DEF JobType, ChangeJob, TargetJob, SendJob, InviteJob
<1>2. Idle.do = "nothing"
  BY DEF Idle
<1>3. /\ j \in ChangeJob => j.do = "changeRole"
      /\ j \in TargetJob => j.do \in {"transfer", "hand over", "remove", "delete"}
      /\ j \in SendJob => j.do \in {"send", "sending", "insert"}
      /\ j \in InviteJob => j.do \in {"revoke", "accept", "claim", "decline"}
  BY DEF ChangeJob, TargetJob, SendJob, InviteJob
<1> QED
  BY <1>1, <1>2, <1>3

LEMMA JobCases ==
  ASSUME job \in [Requests -> JobType], NEW r \in Requests
  PROVE  /\ job[r].do = "changeRole" => job[r] \in ChangeJob
         /\ job[r].do \in {"transfer", "hand over", "remove", "delete"} => job[r] \in TargetJob
         /\ job[r].do \in {"send", "sending", "insert"} => job[r] \in SendJob
         /\ job[r].do \in {"revoke", "accept", "claim", "decline"} => job[r] \in InviteJob
BY JobKinds

LEMMA JobTypes ==
  /\ Idle \in JobType /\ ChangeJob \subseteq JobType /\ TargetJob \subseteq JobType
  /\ SendJob \subseteq JobType /\ InviteJob \subseteq JobType
BY DEF JobType, ChangeJob, TargetJob, SendJob, InviteJob

LEMMA IdleSound == \A ms, inv : JobSound(Idle, ms, inv) /\ Idle.do = "nothing"
BY DEF JobSound, Idle

LEMMA GrantsAreRoles == Grants \subseteq Roles /\ "OWNER" \notin Grants /\ "NONE" \notin Grants
BY ConstantsAssumption DEF Roles

LEMMA MembershipStarts == Init => MembershipInv
<1> SUFFICES ASSUME Init PROVE MembershipInv
  OBVIOUS
<1>1. RowsTyped /\ job \in [Requests -> JobType]
  BY ConstantsAssumption, JobTypes DEF Init, RowsTyped, Roles
<1>2. Members \subseteq {Creator} /\ Creator \in listed
  BY DEF Init, Members
<1>3. \A r \in Requests : job[r] = Idle
  BY DEF Init
<1>4. OneClaim
  BY <1>3, IdleSound DEF OneClaim, Claims
<1> QED
  BY <1>1, <1>2, <1>3, <1>4, IdleSound DEF MembershipInv, MembersHaveIdentity, HasIdentity

\* What a step of one request has to show.
LEMMA RequestStep ==
  ASSUME MembershipInv, NEW r \in Requests, NEW j \in JobType, job' = [job EXCEPT ![r] = j],
         RowsTyped', MembersHaveIdentity',
         JobSound(j, Members', invite'),
         \A s \in Requests \ {r} : job[s].do = "claim" => job[s].by \notin Members',
         \A i \in Invites : invite[i] # NoInvite => invite'[i] # NoInvite,
         j.do = "claim" => \A s \in Requests \ {r} : ~Claims(s, j.by)
  PROVE  MembershipInv'
<1>1. /\ job' \in [Requests -> JobType] /\ job'[r] = j
      /\ \A s \in Requests \ {r} : job'[s] = job[s]
  BY DEF MembershipInv
<1>2. \A s \in Requests : JobSound(job'[s], Members', invite')
  <2> SUFFICES ASSUME NEW s \in Requests \ {r} PROVE JobSound(job[s], Members', invite')
    BY <1>1
  <2>1. JobSound(job[s], Members, invite)
    BY DEF MembershipInv
  <2>2. job[s].do \in {"accept", "claim", "decline"} => job[s].invite \in Invites
    BY JobCases DEF MembershipInv, InviteJob
  <2> QED
    BY <2>1, <2>2 DEF JobSound
<1>3. OneClaim'
  <2> SUFFICES ASSUME NEW p \in Requests, NEW q \in Requests, NEW u \in Users,
                      job'[p].do = "claim", job'[p].by = u, job'[q].do = "claim", job'[q].by = u
               PROVE  p = q
    BY DEF OneClaim, Claims
  <2>1. CASE p = r \/ q = r
    BY <1>1, <2>1 DEF Claims
  <2>2. CASE p # r /\ q # r
    BY <1>1, <2>2 DEF MembershipInv, OneClaim, Claims
  <2> QED
    BY <2>1, <2>2
<1> QED
  BY <1>1, <1>2, <1>3 DEF MembershipInv

\* A step that touches no invitation and nobody's identity and admits no member.
LEMMA RoleStep ==
  ASSUME MembershipInv, NEW r \in Requests, NEW j \in JobType, job' = [job EXCEPT ![r] = j],
         UNCHANGED <<listed, holder, active, invite, displaced>>,
         role' \in [Users -> Roles \cup {"NONE"}], ownerId' \in Users,
         Members' \subseteq Members,
         JobSound(j, Members, invite),
         j.do = "claim" => \A s \in Requests \ {r} : ~Claims(s, j.by)
  PROVE  MembershipInv'
<1>1. RowsTyped'
  BY DEF MembershipInv, RowsTyped
<1>2. MembersHaveIdentity'
  BY DEF MembershipInv, MembersHaveIdentity, HasIdentity
<1>3. JobSound(j, Members', invite')
  BY DEF JobSound
<1>4. \A s \in Requests : job[s].do = "claim" => job[s].by \notin Members'
  BY DEF MembershipInv, JobSound
<1> QED
  BY <1>1, <1>2, <1>3, <1>4, RequestStep

\* A step that only reads, and goes on or ends.
LEMMA ReadStep ==
  ASSUME MembershipInv, NEW r \in Requests, NEW j \in JobType, job' = [job EXCEPT ![r] = j],
         UNCHANGED <<role, ownerId, listed, holder, active, invite, displaced>>,
         JobSound(j, Members, invite),
         j.do = "claim" => \A s \in Requests \ {r} : ~Claims(s, j.by)
  PROVE  MembershipInv'
<1>1. role' \in [Users -> Roles \cup {"NONE"}] /\ ownerId' \in Users /\ Members' = Members
  BY DEF MembershipInv, RowsTyped, Members
<1> QED
  BY <1>1, RoleStep

\* The same, for a step that writes an invitation.
LEMMA InviteStep ==
  ASSUME MembershipInv, NEW r \in Requests, NEW j \in JobType, job' = [job EXCEPT ![r] = j],
         UNCHANGED <<role, ownerId, listed, holder, active, displaced>>,
         invite' \in [Invites -> InviteType \cup {NoInvite}],
         \A i \in Invites : invite[i] # NoInvite => invite'[i] # NoInvite,
         JobSound(j, Members, invite), j.do # "claim"
  PROVE  MembershipInv'
<1>1. RowsTyped' /\ Members' = Members
  BY DEF MembershipInv, RowsTyped, Members
<1>2. MembersHaveIdentity'
  BY <1>1 DEF MembershipInv, MembersHaveIdentity, HasIdentity
<1>3. JobSound(j, Members', invite')
  <2>1. j.do \in {"accept", "decline"} => j.invite \in Invites
    BY JobKinds DEF InviteJob
  <2> QED
    BY <1>1, <2>1 DEF JobSound
<1>4. \A s \in Requests : job[s].do = "claim" => job[s].by \notin Members'
  BY <1>1 DEF MembershipInv, JobSound
<1> QED
  BY <1>1, <1>2, <1>3, <1>4, RequestStep
-----------------------------------------------------------------------------
(* Each action keeps the invariant.                                          *)

LEMMA EndsQuietly ==
  ASSUME MembershipInv, NEW r \in Requests, Ends(r),
         UNCHANGED <<role, ownerId, listed, holder, active, invite, displaced>>
  PROVE  MembershipInv'
BY ReadStep, IdleSound, JobTypes DEF Ends

\* A request about another member goes on with the same members in mind.
LEMMA TargetGoesOn ==
  ASSUME MembershipInv, NEW r \in Requests, NEW step \in {"hand over", "delete"}, Goes(r, step),
         job[r].do \in {"transfer", "remove"},
         UNCHANGED <<role, ownerId, listed, holder, active, invite, displaced>>
  PROVE  MembershipInv'
<1> DEFINE j == [job[r] EXCEPT !.do = step]
<1>1. job[r] \in TargetJob /\ job[r].by # job[r].target
  BY JobCases DEF MembershipInv, JobSound
<1>2. j \in TargetJob /\ j.do = step /\ j.by # j.target
  BY <1>1 DEF TargetJob
<1>3. job' = [job EXCEPT ![r] = j]
  BY DEF Goes
<1> HIDE DEF j
<1>4. j \in JobType /\ JobSound(j, Members, invite) /\ j.do # "claim"
  BY <1>2, JobTypes DEF JobSound
<1> QED
  BY <1>3, <1>4, ReadStep

LEMMA LoadAccessKeeps ==
  ASSUME MembershipInv, NEW r \in Requests, LoadAccess(r)
  PROVE  MembershipInv'
<1>1. PICK u \in Members : \E ask \in Asks(u) : job' = [job EXCEPT ![r] = ask]
  BY DEF LoadAccess
<1>2. PICK ask \in Asks(u) : job' = [job EXCEPT ![r] = ask]
  BY <1>1
<1>3. u \in Users
  BY DEF Members
<1>4. CASE ask \in [do : {"changeRole"}, by : {u}, target : Users \ {u}, to : Grants]
  <2>1. ask \in ChangeJob /\ ask.do = "changeRole" /\ ask.by # ask.target
    BY <1>3, <1>4 DEF ChangeJob
  <2>2. ask \in JobType /\ JobSound(ask, Members, invite) /\ ask.do # "claim"
    BY <2>1, JobTypes DEF JobSound
  <2> QED
    BY <1>2, <2>2, ReadStep DEF LoadAccess
<1>5. CASE ask \in [do : {"transfer", "remove"}, by : {u}, target : Users \ {u}]
  <2>1. ask \in TargetJob /\ ask.do \in {"transfer", "remove"} /\ ask.by # ask.target
    BY <1>3, <1>5 DEF TargetJob
  <2>2. ask \in JobType /\ JobSound(ask, Members, invite) /\ ask.do # "claim"
    BY <2>1, JobTypes DEF JobSound
  <2> QED
    BY <1>2, <2>2, ReadStep DEF LoadAccess
<1>6. CASE ask \in [do : {"send"}, by : {u}, emails : Batches, role : Grants,
                    claims : Placeholders \cup {Nobody}, email : {Nobody}]
  <2>1. ask \in SendJob /\ ask.do = "send"
    BY <1>3, <1>6, ConstantsAssumption DEF SendJob
  <2>2. ask \in JobType /\ JobSound(ask, Members, invite) /\ ask.do # "claim"
    BY <2>1, JobTypes DEF JobSound
  <2> QED
    BY <1>2, <2>2, ReadStep DEF LoadAccess
<1>7. CASE ask \in [do : {"revoke"}, by : {u}, invite : Invites]
  <2>1. ask \in InviteJob /\ ask.do = "revoke"
    BY <1>3, <1>7 DEF InviteJob
  <2>2. ask \in JobType /\ JobSound(ask, Members, invite) /\ ask.do # "claim"
    BY <2>1, JobTypes DEF JobSound
  <2> QED
    BY <1>2, <2>2, ReadStep DEF LoadAccess
<1> QED
  BY <1>4, <1>5, <1>6, <1>7 DEF Asks

LEMMA ChangeRoleKeeps ==
  ASSUME MembershipInv, NEW r \in Requests, ChangeRole(r)
  PROVE  MembershipInv'
<1>1. job[r].target \in Users /\ job[r].to \in Grants
  BY JobCases DEF MembershipInv, ChangeRole, ChangeJob
<1>2. role' \in [Users -> Roles \cup {"NONE"}] /\ Members' \subseteq Members
  BY <1>1, GrantsAreRoles DEF MembershipInv, RowsTyped, ChangeRole, Members
<1>3. ownerId' \in Users
  BY DEF MembershipInv, RowsTyped, ChangeRole
<1> QED
  BY <1>2, <1>3, RoleStep, IdleSound, JobTypes DEF ChangeRole, Ends

LEMMA TransferReadKeeps ==
  ASSUME MembershipInv, NEW r \in Requests, TransferRead(r)
  PROVE  MembershipInv'
BY EndsQuietly, TargetGoesOn DEF TransferRead

LEMMA TransferWriteKeeps ==
  ASSUME MembershipInv, NEW r \in Requests, TransferWrite(r)
  PROVE  MembershipInv'
<1>1. job[r].target \in Users
  BY JobCases DEF MembershipInv, TransferWrite, TargetJob
<1>2. /\ HandedOver(job[r].by, job[r].target) \in [Users -> Roles \cup {"NONE"}]
      /\ \A u \in Users : HandedOver(job[r].by, job[r].target)[u] # "NONE" => u \in Members
  BY DEF MembershipInv, RowsTyped, HandedOver, Members, Roles
<1>3. /\ role' \in [Users -> Roles \cup {"NONE"}] /\ Members' \subseteq Members
      /\ ownerId' \in Users
  BY <1>1, <1>2 DEF MembershipInv, RowsTyped, TransferWrite, Members
<1> QED
  BY <1>3, RoleStep, IdleSound, JobTypes DEF TransferWrite, Ends

LEMMA RemoveReadKeeps ==
  ASSUME MembershipInv, NEW r \in Requests, RemoveRead(r)
  PROVE  MembershipInv'
BY EndsQuietly, TargetGoesOn DEF RemoveRead

LEMMA RemoveDeleteKeeps ==
  ASSUME MembershipInv, NEW r \in Requests, RemoveDelete(r)
  PROVE  MembershipInv'
<1>1. role' \in [Users -> Roles \cup {"NONE"}] /\ Members' \subseteq Members
  BY DEF MembershipInv, RowsTyped, RemoveDelete, Members
<1>2. ownerId' \in Users
  BY DEF MembershipInv, RowsTyped, RemoveDelete
<1> QED
  BY <1>1, <1>2, RoleStep, IdleSound, JobTypes DEF RemoveDelete, Ends

LEMMA SendCountKeeps ==
  ASSUME MembershipInv, NEW r \in Requests, SendCount(r)
  PROVE  MembershipInv'
<1> DEFINE j == [job[r] EXCEPT !.do = "sending"]
<1>1. job[r] \in SendJob
  BY JobCases DEF MembershipInv, SendCount
<1>2. j \in SendJob /\ j.do = "sending"
  BY <1>1 DEF SendJob
<1>3. Goes(r, "sending") => job' = [job EXCEPT ![r] = j]
  BY DEF Goes
<1> HIDE DEF j
<1>4. j \in JobType /\ JobSound(j, Members, invite) /\ j.do # "claim"
  BY <1>2, JobTypes DEF JobSound
<1> QED
  BY <1>3, <1>4, ReadStep, EndsQuietly DEF SendCount

\* What the loop over the addresses leaves of a request.
LEMMA RemainingJob ==
  ASSUME MembershipInv, NEW r \in Requests, job[r].do \in {"sending", "insert"},
         NEW rest \in SUBSET Users, Remaining(r, rest)
  PROVE  \E j \in JobType :
           job' = [job EXCEPT ![r] = j] /\ j.do \in {"nothing", "sending"}
             /\ JobSound(j, Members, invite)
<1> DEFINE j == [job[r] EXCEPT !.do = "sending", !.emails = rest, !.email = Nobody]
<1>1. job[r] \in SendJob
  BY JobCases DEF MembershipInv
<1>2. j \in SendJob /\ j.do = "sending"
  BY <1>1 DEF SendJob
<1>3. job' = [job EXCEPT ![r] = IF rest = {} THEN Idle ELSE j]
  BY DEF Remaining
<1> HIDE DEF j
<1>4. j \in JobType /\ JobSound(j, Members, invite)
  BY <1>2, JobTypes DEF JobSound
<1> QED
  BY <1>2, <1>3, <1>4, IdleSound, JobTypes

LEMMA SendCheckKeeps ==
  ASSUME MembershipInv, NEW r \in Requests, SendCheck(r)
  PROVE  MembershipInv'
<1>1. job[r] \in SendJob /\ job[r].do = "sending"
  BY JobCases DEF MembershipInv, SendCheck
<1>2. PICK e \in job[r].emails :
        IF e \in Members
        THEN Remaining(r, job[r].emails \ {e})
        ELSE job' = [job EXCEPT ![r].emails = @ \ {e}, ![r].email = e, ![r].do = "insert"]
  BY DEF SendCheck
<1>3. e \in Users /\ job[r].emails \ {e} \in SUBSET Users
  BY <1>1 DEF SendJob
<1>4. CASE e \in Members
  <2>1. PICK j \in JobType :
          job' = [job EXCEPT ![r] = j] /\ j.do \in {"nothing", "sending"}
            /\ JobSound(j, Members, invite)
    BY <1>1, <1>2, <1>3, <1>4, RemainingJob
  <2> QED
    BY <2>1, ReadStep DEF SendCheck
<1>5. CASE e \notin Members
  <2> DEFINE j == [job[r] EXCEPT !.emails = job[r].emails \ {e}, !.email = e, !.do = "insert"]
  <2>1. job' = [job EXCEPT ![r].emails = @ \ {e}, ![r].email = e, ![r].do = "insert"]
    BY <1>2, <1>5
  <2>2. job' = [job EXCEPT ![r] = j]
    BY <2>1 DEF MembershipInv
  <2>3. j \in SendJob /\ j.do = "insert" /\ j.email = e
    BY <1>1, <1>3 DEF SendJob
  <2> HIDE DEF j
  <2>4. j \in JobType /\ JobSound(j, Members, invite) /\ j.do # "claim"
    BY <1>3, <2>3, JobTypes DEF JobSound
  <2> QED
    BY <2>2, <2>4, ReadStep DEF SendCheck
<1> QED
  BY <1>4, <1>5

LEMMA SendInsertKeeps ==
  ASSUME MembershipInv, NEW r \in Requests, SendInsert(r)
  PROVE  MembershipInv'
<1>1. job[r] \in SendJob /\ job[r].do = "insert" /\ job[r].email \in Users
  BY JobCases DEF MembershipInv, SendInsert, JobSound
<1>2. job[r].emails \in SUBSET Users
  BY <1>1 DEF SendJob
<1>3. PICK j \in JobType :
        job' = [job EXCEPT ![r] = j] /\ j.do \in {"nothing", "sending"}
          /\ JobSound(j, Members, invite)
  BY <1>1, <1>2, RemainingJob DEF SendInsert
<1> DEFINE row == [email |-> job[r].email, role |-> job[r].role,
                   claims |-> job[r].claims, status |-> "PENDING", expired |-> FALSE]
<1>4. row \in InviteType /\ row.status = "PENDING"
  BY <1>1 DEF SendJob, InviteType, Statuses
<1>5. \/ UNCHANGED invite
      \/ \E i \in Invites : invite[i] = NoInvite /\ invite' = [invite EXCEPT ![i] = row]
  BY DEF SendInsert
<1> HIDE DEF row
<1>6. /\ invite' \in [Invites -> InviteType \cup {NoInvite}]
      /\ \A i \in Invites : invite[i] # NoInvite => invite'[i] # NoInvite
  BY <1>4, <1>5 DEF MembershipInv, RowsTyped
<1> QED
  BY <1>3, <1>6, InviteStep DEF SendInsert

\* An answer given to an invitation that has a row.
LEMMA AnsweredKeepsRows ==
  ASSUME MembershipInv, NEW i \in Invites, invite[i] # NoInvite, NEW status \in Statuses,
         NEW r, Answered(r, i, status)
  PROVE  /\ invite' \in [Invites -> InviteType \cup {NoInvite}]
         /\ \A k \in Invites : invite[k] # NoInvite => invite'[k] # NoInvite
<1> DEFINE row == [invite[i] EXCEPT !.status = status]
<1>1. invite' = [invite EXCEPT ![i] = row]
  BY DEF Answered
<1>2. invite[i] \in InviteType
  BY DEF MembershipInv, RowsTyped
<1>3. row \in InviteType
  BY <1>2 DEF InviteType
<1>4. row.status = status
  BY <1>2 DEF InviteType
<1>5. row # NoInvite
  BY <1>4 DEF NoInvite, Statuses
<1> HIDE DEF row
<1> QED
  BY <1>1, <1>3, <1>5 DEF MembershipInv, RowsTyped

LEMMA PendingHasRow ==
  ASSUME NEW i \in Pending
  PROVE  i \in Invites /\ invite[i] # NoInvite
BY DEF Pending, NoInvite

LEMMA RevokeInviteKeeps ==
  ASSUME MembershipInv, NEW r \in Requests, RevokeInvite(r)
  PROVE  MembershipInv'
<1>1. CASE job[r].invite \in Pending
  <2>1. Answered(r, job[r].invite, "REVOKED")
    BY <1>1 DEF RevokeInvite
  <2>2. /\ invite' \in [Invites -> InviteType \cup {NoInvite}]
        /\ \A k \in Invites : invite[k] # NoInvite => invite'[k] # NoInvite
    BY <1>1, <2>1, PendingHasRow, AnsweredKeepsRows DEF Statuses
  <2> QED
    BY <2>2, InviteStep, IdleSound, JobTypes DEF RevokeInvite, Ends
<1>2. CASE job[r].invite \notin Pending
  BY <1>2, EndsQuietly DEF RevokeInvite
<1> QED
  BY <1>1, <1>2

LEMMA DeclineWriteKeeps ==
  ASSUME MembershipInv, NEW r \in Requests, DeclineWrite(r)
  PROVE  MembershipInv'
<1>1. job[r].invite \in Invites /\ invite[job[r].invite] # NoInvite
  BY JobCases DEF MembershipInv, JobSound, DeclineWrite, InviteJob
<1>2. /\ invite' \in [Invites -> InviteType \cup {NoInvite}]
      /\ \A k \in Invites : invite[k] # NoInvite => invite'[k] # NoInvite
  BY <1>1, AnsweredKeepsRows DEF DeclineWrite, Statuses
<1> QED
  BY <1>2, InviteStep, IdleSound, JobTypes DEF DeclineWrite, Ends

LEMMA AcceptReadKeeps ==
  ASSUME MembershipInv, NEW r \in Requests, AcceptRead(r)
  PROVE  MembershipInv'
<1>1. PICK i \in Invites, u \in Users :
        /\ Acceptable(i, u)
        /\ job' = [job EXCEPT ![r] = [do |-> "accept", by |-> u, invite |-> i]]
  BY DEF AcceptRead
<1> DEFINE j == [do |-> "accept", by |-> u, invite |-> i]
<1>2. j \in InviteJob /\ j.do = "accept" /\ j.invite = i
  BY DEF InviteJob
<1> HIDE DEF j
<1>3. invite[i] # NoInvite
  BY <1>1, PendingHasRow DEF Acceptable
<1>4. j \in JobType /\ JobSound(j, Members, invite) /\ j.do # "claim"
  BY <1>2, <1>3, JobTypes DEF JobSound
<1>5. job' = [job EXCEPT ![r] = j]
  BY <1>1 DEF j
<1> QED
  BY <1>4, <1>5, ReadStep DEF AcceptRead

LEMMA DeclineReadKeeps ==
  ASSUME MembershipInv, NEW r \in Requests, DeclineRead(r)
  PROVE  MembershipInv'
<1>1. PICK i \in Pending :
        job' = [job EXCEPT ![r] = [do |-> "decline", by |-> invite[i].email, invite |-> i]]
  BY DEF DeclineRead
<1> DEFINE j == [do |-> "decline", by |-> invite[i].email, invite |-> i]
<1>2. i \in Invites /\ invite[i] # NoInvite
  BY PendingHasRow
<1>3. invite[i].email \in Users
  BY <1>2 DEF MembershipInv, RowsTyped, InviteType
<1>4. j \in InviteJob /\ j.do = "decline" /\ j.invite = i
  BY <1>2, <1>3 DEF InviteJob
<1> HIDE DEF j
<1>5. j \in JobType /\ JobSound(j, Members, invite) /\ j.do # "claim"
  BY <1>2, <1>4, JobTypes DEF JobSound
<1>6. job' = [job EXCEPT ![r] = j]
  BY <1>1 DEF j
<1> QED
  BY <1>5, <1>6, ReadStep DEF DeclineRead

LEMMA AcceptInsertKeeps ==
  ASSUME MembershipInv, NEW r \in Requests, AcceptInsert(r)
  PROVE  MembershipInv'
<1>1. CASE Ends(r)
  BY <1>1, EndsQuietly DEF AcceptInsert
<1>2. CASE ~Ends(r)
  <2> DEFINE j == [job[r] EXCEPT !.do = "claim"]
  <2>1. job[r].by \notin Members /\ Goes(r, "claim")
    BY <1>2 DEF AcceptInsert
  <2>2. job[r] \in InviteJob /\ invite[job[r].invite] # NoInvite
    BY JobCases DEF MembershipInv, JobSound, AcceptInsert
  <2>3. j \in InviteJob /\ j.do = "claim" /\ j.by = job[r].by /\ j.invite = job[r].invite
    BY <2>2 DEF InviteJob
  <2>4. job' = [job EXCEPT ![r] = j]
    BY <2>1 DEF Goes
  <2>5. \A s \in Requests \ {r} : ~Claims(s, job[r].by)
    BY DEF AcceptInsert, Claims
  <2> HIDE DEF j
  <2>6. j \in JobType /\ JobSound(j, Members, invite)
    BY <2>1, <2>2, <2>3, JobTypes DEF JobSound
  <2>7. \A s \in Requests \ {r} : ~Claims(s, j.by)
    BY <2>3, <2>5
  <2> QED
    BY <2>4, <2>6, <2>7, ReadStep DEF AcceptInsert
<1> QED
  BY <1>1, <1>2

\* What an acceptance that goes through writes.
LEMMA AcceptWrites ==
  ASSUME MembershipInv, NEW r \in Requests, AcceptWrite(r), UniqueParticipant(job[r].by)
  PROVE  /\ job[r].by \in Users /\ job[r].by \notin Members /\ job[r].invite \in Invites
         /\ invite[job[r].invite] \in InviteType
         /\ role' = [role EXCEPT ![job[r].by] = invite[job[r].invite].role]
         /\ Answered(r, job[r].invite, "ACCEPTED")
<1>1. job[r] \in InviteJob /\ job[r].do = "claim"
  BY JobCases DEF MembershipInv, AcceptWrite
<1>2. JobSound(job[r], Members, invite)
  BY DEF MembershipInv
<1>3. /\ job[r].by \in Users /\ job[r].by \notin Members /\ job[r].invite \in Invites
      /\ invite[job[r].invite] # NoInvite
  BY <1>1, <1>2 DEF InviteJob, JobSound
<1> QED
  BY <1>3 DEF AcceptWrite, MembershipInv, RowsTyped

LEMMA AcceptWriteKeeps ==
  ASSUME MembershipInv, NEW r \in Requests, AcceptWrite(r)
  PROVE  MembershipInv'
<1> DEFINE u == job[r].by
           i == job[r].invite
           p == invite[i].claims
<1>1. CASE ~UniqueParticipant(u)
  BY <1>1, EndsQuietly DEF AcceptWrite
<1>2. CASE UniqueParticipant(u)
  <2>1. /\ u \in Users /\ u \notin Members /\ i \in Invites /\ invite[i] \in InviteType
        /\ role' = [role EXCEPT ![u] = invite[i].role] /\ Answered(r, i, "ACCEPTED")
    BY <1>2, AcceptWrites
  <2>2. /\ IF p = Nobody
           THEN listed' = listed \cup {u} /\ UNCHANGED <<holder, displaced>>
           ELSE /\ holder' = [holder EXCEPT ![p] = u]
                /\ displaced' = displaced \cup ({holder[p]} \cap Users)
                /\ UNCHANGED listed
        /\ Ends(r) /\ UNCHANGED <<ownerId, active>>
    BY <1>2 DEF AcceptWrite
  <2>3. invite[i].role \in Grants /\ p \in Placeholders \cup {Nobody}
    BY <2>1 DEF InviteType
  <2>4. u \notin listed /\ \A q \in Placeholders : holder[q] # u
    BY <1>2 DEF UniqueParticipant, HasIdentity
  <2>5. invite[i] # NoInvite
    <3>1. invite[i].status \in Statuses /\ NoInvite.status = "UNUSED"
      BY <2>1 DEF InviteType, NoInvite
    <3> QED
      BY <3>1 DEF Statuses
  <2>6. /\ invite' \in [Invites -> InviteType \cup {NoInvite}]
        /\ \A k \in Invites : invite[k] # NoInvite => invite'[k] # NoInvite
    BY <2>1, <2>5, AnsweredKeepsRows DEF Statuses
  <2> HIDE DEF u, i, p
  <2>7. role' \in [Users -> Roles \cup {"NONE"}] /\ Members' = Members \cup {u}
    BY <2>1, <2>3, GrantsAreRoles DEF MembershipInv, RowsTyped, Members
  <2>8. listed' \subseteq Users /\ holder' \in [Placeholders -> (Users \ listed') \cup {Nobody}]
    BY <2>1, <2>2, <2>3, <2>4 DEF MembershipInv, RowsTyped
  <2>9. ownerId' \in Users /\ active' \subseteq Placeholders /\ displaced' \subseteq Users
    BY <2>2 DEF MembershipInv, RowsTyped
  <2>10. RowsTyped'
    BY <2>6, <2>7, <2>8, <2>9 DEF RowsTyped
  <2>11. MembersHaveIdentity'
    <3> SUFFICES ASSUME NEW m \in Members' PROVE HasIdentity(m)' \/ m \in displaced'
      BY DEF MembersHaveIdentity
    <3>1. CASE m = u
      BY <2>2, <2>3, <3>1 DEF MembershipInv, RowsTyped, HasIdentity
    <3>2. CASE m # u
      <4>1. m \in Users /\ (HasIdentity(m) \/ m \in displaced)
        BY <2>7, <3>2 DEF MembershipInv, MembersHaveIdentity, Members
      <4>2. CASE p = Nobody
        BY <2>2, <4>1, <4>2 DEF HasIdentity
      <4>3. CASE p # Nobody
        BY <2>2, <2>3, <4>1, <4>3 DEF MembershipInv, RowsTyped, HasIdentity
      <4> QED
        BY <4>2, <4>3
    <3> QED
      BY <3>1, <3>2
  <2>12. \A s \in Requests \ {r} : job[s].do = "claim" => job[s].by \notin Members'
    <3> SUFFICES ASSUME NEW s \in Requests \ {r}, job[s].do = "claim"
                 PROVE  job[s].by \notin Members'
      OBVIOUS
    <3>1. job[s].by \notin Members /\ job[s].by \in Users
      BY JobCases DEF MembershipInv, JobSound, InviteJob
    <3>2. Claims(r, u)
      BY DEF AcceptWrite, Claims, u
    <3>3. job[s].by # u
      BY <2>1, <3>1, <3>2 DEF MembershipInv, OneClaim, Claims
    <3> QED
      BY <2>7, <3>1, <3>3
  <2>13. Idle \in JobType /\ job' = [job EXCEPT ![r] = Idle] /\ JobSound(Idle, Members', invite')
         /\ Idle.do # "claim"
    BY <2>2, IdleSound, JobTypes DEF Ends
  <2> QED
    BY <2>6, <2>10, <2>11, <2>12, <2>13, RequestStep
<1> QED
  BY <1>1, <1>2

LEMMA ExpireKeeps ==
  ASSUME MembershipInv, NEW i \in Invites, Expire(i)
  PROVE  MembershipInv'
<1> DEFINE row == [invite[i] EXCEPT !.expired = TRUE]
<1>1. invite[i] # NoInvite
  BY PendingHasRow DEF Expire
<1>2. invite[i] \in InviteType
  BY <1>1 DEF MembershipInv, RowsTyped
<1>3. row \in InviteType
  BY <1>2 DEF InviteType
<1>4. row # NoInvite
  BY Zenon DEF NoInvite
<1>5. invite' = [invite EXCEPT ![i] = row]
  BY DEF Expire
<1> HIDE DEF row
<1>6. /\ invite' \in [Invites -> InviteType \cup {NoInvite}]
      /\ \A k \in Invites : invite[k] # NoInvite => invite'[k] # NoInvite
  BY <1>3, <1>4, <1>5 DEF MembershipInv, RowsTyped
<1>7. UNCHANGED <<role, ownerId, listed, holder, active, job, displaced>>
  BY DEF Expire
<1>8. RowsTyped' /\ Members' = Members /\ MembersHaveIdentity' /\ OneClaim'
  BY <1>6, <1>7 DEF MembershipInv, RowsTyped, Members, MembersHaveIdentity, HasIdentity,
     OneClaim, Claims
<1>9. \A s \in Requests : JobSound(job[s], Members, invite')
  <2> SUFFICES ASSUME NEW s \in Requests PROVE JobSound(job[s], Members, invite')
    OBVIOUS
  <2>1. JobSound(job[s], Members, invite)
    BY DEF MembershipInv
  <2>2. job[s].do \in {"accept", "claim", "decline"} => job[s].invite \in Invites
    BY JobCases DEF MembershipInv, InviteJob
  <2> QED
    BY <1>6, <2>1, <2>2 DEF JobSound
<1> QED
  BY <1>7, <1>8, <1>9 DEF MembershipInv

LEMMA RetireKeeps ==
  ASSUME MembershipInv, NEW p \in Placeholders, Retire(p)
  PROVE  MembershipInv'
<1>1. UNCHANGED <<role, ownerId, listed, holder, invite, job, displaced>>
      /\ active' \subseteq active
  BY DEF Retire
<1>2. RowsTyped' /\ Members' = Members /\ MembersHaveIdentity' /\ OneClaim'
  BY <1>1 DEF MembershipInv, RowsTyped, Members, MembersHaveIdentity, HasIdentity,
     OneClaim, Claims
<1> QED
  BY <1>1, <1>2 DEF MembershipInv

LEMMA MembershipStep == MembershipInv /\ [Next]_vars => MembershipInv'
<1> SUFFICES ASSUME MembershipInv, [Next]_vars PROVE MembershipInv'
  OBVIOUS
<1>1. ASSUME NEW r \in Requests, LoadAccess(r) \/ AcceptRead(r) \/ DeclineRead(r)
      PROVE  MembershipInv'
  BY <1>1, LoadAccessKeeps, AcceptReadKeeps, DeclineReadKeeps
<1>2. ASSUME NEW r \in Requests, Step(r)
      PROVE  MembershipInv'
  BY <1>2, ChangeRoleKeeps, TransferReadKeeps, TransferWriteKeeps, RemoveReadKeeps,
     RemoveDeleteKeeps, SendCountKeeps, SendCheckKeeps, SendInsertKeeps, RevokeInviteKeeps,
     AcceptInsertKeeps, AcceptWriteKeeps, DeclineWriteKeeps DEF Step
<1>3. CASE \E i \in Invites : Expire(i)
  BY <1>3, ExpireKeeps
<1>4. CASE \E p \in Placeholders : Retire(p)
  BY <1>4, RetireKeeps
<1>5. CASE UNCHANGED vars
  BY <1>5 DEF vars, MembershipInv, RowsTyped, Members, MembersHaveIdentity, HasIdentity,
     OneClaim, Claims
<1> QED
  BY <1>1, <1>2, <1>3, <1>4, <1>5 DEF Next

LEMMA MembershipAlways == Spec => []MembershipInv
<1> QED
  BY MembershipStarts, MembershipStep, PTL DEF Spec

-----------------------------------------------------------------------------
(* Requests that come late to their invitation.                              *)

\* What a step of one request has to show: the others that are not late find
\* their invitations as they were.
LEMMA OthersStillOpen ==
  ASSUME MembershipInv, LateInv, NEW r \in Requests, NEW j, job' = [job EXCEPT ![r] = j],
         late' \subseteq Requests, late \ {r} \subseteq late',
         \A s \in Requests \ (late' \cup {r}) : \A i \in Pending :
           s \in Openers(i) => invite'[i] = invite[i],
         r \notin late' => StillOpen(j)'
  PROVE  LateInv'
<1>1. job'[r] = j /\ \A s \in Requests \ {r} : job'[s] = job[s]
  BY DEF MembershipInv
<1>2. ASSUME NEW s \in Requests \ (late' \cup {r}) PROVE StillOpen(job[s])'
  <2>1. s \notin late /\ StillOpen(job[s])
    BY <1>2 DEF LateInv
  <2>2. CASE job[s].do \in {"accept", "claim", "decline"}
    <3>1. job[s].invite \in Pending /\ s \in Openers(job[s].invite)
      BY <2>1, <2>2 DEF StillOpen, Openers
    <3>2. invite'[job[s].invite] = invite[job[s].invite]
      BY <1>2, <3>1
    <3>3. job[s].invite \in Pending'
      BY <3>1, <3>2 DEF Pending
    <3> QED
      BY <1>1, <2>1, <3>2, <3>3 DEF StillOpen
  <2>3. CASE job[s].do \notin {"accept", "claim", "decline"}
    BY <1>1, <2>3 DEF StillOpen
  <2> QED
    BY <2>2, <2>3
<1> QED
  BY <1>1, <1>2 DEF LateInv

LEMMA IdleStillOpen == \A j : j.do \notin {"accept", "claim", "decline"} => StillOpen(j)'
BY DEF StillOpen

\* A request that answers and ends makes late whoever else had opened the invitation.
LEMMA AnswerMakesLate ==
  ASSUME MembershipInv, LateInv, NEW r \in Requests, NEW i, NEW status,
         Answered(r, i, status), Ends(r)
  PROVE  LateInv'
<1>1. late' = (late \cup Openers(i)) \ {r} /\ job' = [job EXCEPT ![r] = Idle]
  BY DEF Answered, Ends
<1>2. late' \subseteq Requests
  BY <1>1 DEF LateInv, Openers
<1>3. ASSUME NEW s \in Requests \ (late' \cup {r}), NEW k \in Pending, s \in Openers(k)
      PROVE  invite'[k] = invite[k]
  <2>1. k # i
    BY <1>1, <1>3
  <2> QED
    BY <1>3, <2>1 DEF Answered, MembershipInv, RowsTyped, Pending
<1>4. StillOpen(Idle)'
  BY IdleSound, IdleStillOpen
<1> QED
  BY <1>1, <1>2, <1>3, <1>4, OthersStillOpen

LEMMA EndsInTime ==
  ASSUME MembershipInv, LateInv, NEW r \in Requests, Ends(r), UNCHANGED invite,
         late' = late \/ late' = late \ {r}
  PROVE  LateInv'
<1>1. StillOpen(Idle)'
  BY IdleSound, IdleStillOpen
<1>2. late' \subseteq Requests /\ late \ {r} \subseteq late'
  BY DEF LateInv
<1>3. job' = [job EXCEPT ![r] = Idle]
  BY DEF Ends
<1> QED
  BY <1>1, <1>2, <1>3, OthersStillOpen

\* A step of a request that answers no invitation and opens none.
LEMMA OtherStepInTime ==
  ASSUME MembershipInv, LateInv, NEW r \in Requests, NEW j, job' = [job EXCEPT ![r] = j],
         j.do \notin {"accept", "claim", "decline"}, UNCHANGED late,
         \A i \in Pending : invite'[i] = invite[i]
  PROVE  LateInv'
<1>1. StillOpen(j)'
  BY IdleStillOpen
<1>2. late' \subseteq Requests /\ late \ {r} \subseteq late'
  BY DEF LateInv
<1> QED
  BY <1>1, <1>2, OthersStillOpen

LEMMA LoadAccessInTime ==
  ASSUME MembershipInv, LateInv, NEW r \in Requests, LoadAccess(r)
  PROVE  LateInv'
<1>1. PICK u \in Members : \E ask \in Asks(u) : job' = [job EXCEPT ![r] = ask]
  BY DEF LoadAccess
<1>2. PICK ask \in Asks(u) : job' = [job EXCEPT ![r] = ask]
  BY <1>1
<1>3. ask.do \in {"changeRole", "transfer", "remove", "send", "revoke"}
  BY DEF Asks
<1>4. UNCHANGED <<invite, late>>
  BY DEF LoadAccess
<1> QED
  BY <1>2, <1>3, <1>4, OtherStepInTime

\* A request that goes on to another step than an answer.
LEMMA GoesInTime ==
  ASSUME MembershipInv, LateInv, NEW r \in Requests,
         NEW step \in {"hand over", "delete", "sending"}, Goes(r, step),
         job[r] \in TargetJob \/ job[r] \in SendJob, UNCHANGED <<invite, late>>
  PROVE  LateInv'
<1> DEFINE j == [job[r] EXCEPT !.do = step]
<1>1. job' = [job EXCEPT ![r] = j]
  BY DEF Goes
<1>2. j.do = step
  BY DEF TargetJob, SendJob
<1> HIDE DEF j
<1>3. j.do \notin {"accept", "claim", "decline"}
  BY <1>2
<1> QED
  BY <1>1, <1>3, OtherStepInTime

LEMMA SendInTime ==
  ASSUME MembershipInv, LateInv, NEW r \in Requests,
         SendCount(r) \/ SendCheck(r) \/ SendInsert(r)
  PROVE  LateInv'
<1>1. job[r] \in SendJob
  BY JobCases DEF MembershipInv, SendCount, SendCheck, SendInsert
<1>2. CASE SendCount(r)
  <2>1. (Goes(r, "sending") \/ Ends(r)) /\ UNCHANGED <<invite, late>>
    BY <1>2 DEF SendCount
  <2> QED
    BY <1>1, <2>1, GoesInTime, EndsInTime
<1>3. CASE SendCheck(r)
  <2>1. PICK e \in job[r].emails :
          IF e \in Members
          THEN Remaining(r, job[r].emails \ {e})
          ELSE job' = [job EXCEPT ![r].emails = @ \ {e}, ![r].email = e, ![r].do = "insert"]
    BY <1>3 DEF SendCheck
  <2>2. UNCHANGED <<invite, late>>
    BY <1>3 DEF SendCheck
  <2>3. CASE e \in Members
    <3>1. job[r].emails \ {e} \in SUBSET Users
      BY <1>1 DEF SendJob
    <3>2. Remaining(r, job[r].emails \ {e}) /\ job[r].do = "sending"
      BY <1>3, <2>1, <2>3 DEF SendCheck
    <3>3. PICK j \in JobType :
            job' = [job EXCEPT ![r] = j] /\ j.do \in {"nothing", "sending"}
              /\ JobSound(j, Members, invite)
      BY <3>1, <3>2, RemainingJob
    <3> QED
      BY <2>2, <3>3, OtherStepInTime
  <2>4. CASE e \notin Members
    <3> DEFINE j == [job[r] EXCEPT !.emails = job[r].emails \ {e}, !.email = e, !.do = "insert"]
    <3>1. job' = [job EXCEPT ![r].emails = @ \ {e}, ![r].email = e, ![r].do = "insert"]
      BY <2>1, <2>4
    <3>2. job' = [job EXCEPT ![r] = j]
      BY <3>1 DEF MembershipInv
    <3>3. j.do = "insert"
      BY <1>1 DEF SendJob
    <3> HIDE DEF j
    <3>4. j.do \notin {"accept", "claim", "decline"}
      BY <3>3
    <3> QED
      BY <2>2, <3>2, <3>4, OtherStepInTime
  <2> QED
    BY <2>3, <2>4
<1>4. CASE SendInsert(r)
  <2>1. job[r].do = "insert" /\ Remaining(r, job[r].emails) /\ UNCHANGED late
    BY <1>4 DEF SendInsert
  <2>2. job[r].emails \in SUBSET Users
    BY <1>1 DEF SendJob
  <2>3. PICK j \in JobType :
          job' = [job EXCEPT ![r] = j] /\ j.do \in {"nothing", "sending"}
            /\ JobSound(j, Members, invite)
    BY <2>1, <2>2, RemainingJob
  <2>4. ASSUME NEW i \in Pending PROVE invite'[i] = invite[i]
    BY <1>4, PendingHasRow DEF SendInsert, MembershipInv, RowsTyped
  <2> QED
    BY <2>1, <2>3, <2>4, OtherStepInTime
<1> QED
  BY <1>2, <1>3, <1>4

LEMMA OpensInTime ==
  ASSUME MembershipInv, LateInv, NEW r \in Requests, AcceptRead(r) \/ DeclineRead(r)
  PROVE  LateInv'
<1>1. CASE AcceptRead(r)
  <2>1. PICK i \in Invites, u \in Users :
          /\ Acceptable(i, u)
          /\ job' = [job EXCEPT ![r] = [do |-> "accept", by |-> u, invite |-> i]]
    BY <1>1 DEF AcceptRead
  <2>2. UNCHANGED <<invite, late>>
    BY <1>1 DEF AcceptRead
  <2>3. StillOpen([do |-> "accept", by |-> u, invite |-> i])'
    BY <2>1, <2>2 DEF StillOpen, Acceptable, Pending
  <2> QED
    BY <2>1, <2>2, <2>3, OthersStillOpen DEF LateInv
<1>2. CASE DeclineRead(r)
  <2>1. PICK i \in Pending :
          job' = [job EXCEPT ![r] = [do |-> "decline", by |-> invite[i].email, invite |-> i]]
    BY <1>2 DEF DeclineRead
  <2>2. UNCHANGED <<invite, late>>
    BY <1>2 DEF DeclineRead
  <2>3. StillOpen([do |-> "decline", by |-> invite[i].email, invite |-> i])'
    BY <2>1, <2>2 DEF StillOpen, Pending
  <2> QED
    BY <2>1, <2>2, <2>3, OthersStillOpen DEF LateInv
<1> QED
  BY <1>1, <1>2

LEMMA AcceptInsertInTime ==
  ASSUME MembershipInv, LateInv, NEW r \in Requests, AcceptInsert(r)
  PROVE  LateInv'
<1>1. UNCHANGED invite
  BY DEF AcceptInsert
<1>2. CASE Ends(r) /\ late' = late \ {r}
  BY <1>1, <1>2, EndsInTime
<1>3. CASE Goes(r, "claim") /\ UNCHANGED late
  <2> PICK j : j = [job[r] EXCEPT !.do = "claim"]
    OBVIOUS
  <2>1. job[r] \in InviteJob /\ job[r].do = "accept"
    BY JobCases DEF MembershipInv, AcceptInsert
  <2>2. j.do = "claim" /\ j.invite = job[r].invite
    BY <2>1 DEF InviteJob
  <2>3. job' = [job EXCEPT ![r] = j]
    BY <1>3 DEF Goes
  <2>4. ASSUME r \notin late' PROVE StillOpen(j)'
    <3>1. StillOpen(job[r])
      BY <1>3, <2>4 DEF LateInv
    <3>2. job[r].invite \in Pending' /\ ~invite'[job[r].invite].expired
      BY <1>1, <2>1, <3>1 DEF StillOpen, Pending
    <3> QED
      BY <2>2, <3>2 DEF StillOpen
  <2>5. late' \subseteq Requests /\ late \ {r} \subseteq late'
    BY <1>3 DEF LateInv
  <2>6. \A s \in Requests \ (late' \cup {r}) : \A i \in Pending :
          s \in Openers(i) => invite'[i] = invite[i]
    BY <1>1
  <2> QED
    BY <2>3, <2>4, <2>5, <2>6, OthersStillOpen
<1> QED
  BY <1>2, <1>3 DEF AcceptInsert

\* An acceptance, a refusal and a revocation answer the invitation or end.
LEMMA AnswersInTime ==
  ASSUME MembershipInv, LateInv, NEW r \in Requests,
         RevokeInvite(r) \/ AcceptWrite(r) \/ DeclineWrite(r)
  PROVE  LateInv'
<1>1. Ends(r)
  BY DEF RevokeInvite, AcceptWrite, DeclineWrite
<1>2. \/ UNCHANGED invite /\ (late' = late \/ late' = late \ {r})
      \/ \E i, status : Answered(r, i, status)
  BY DEF RevokeInvite, AcceptWrite, DeclineWrite
<1> QED
  BY <1>1, <1>2, EndsInTime, AnswerMakesLate

LEMMA MembersInTime ==
  ASSUME MembershipInv, LateInv, NEW r \in Requests,
         \/ ChangeRole(r) \/ TransferRead(r) \/ TransferWrite(r)
         \/ RemoveRead(r) \/ RemoveDelete(r)
  PROVE  LateInv'
<1>1. UNCHANGED <<invite, late>>
  BY DEF ChangeRole, TransferRead, TransferWrite, RemoveRead, RemoveDelete
<1>2. CASE Ends(r)
  BY <1>1, <1>2, EndsInTime
<1>3. CASE ~Ends(r)
  <2>1. (Goes(r, "hand over") \/ Goes(r, "delete")) /\ job[r].do \in {"transfer", "remove"}
    BY <1>3 DEF ChangeRole, TransferRead, TransferWrite, RemoveRead, RemoveDelete
  <2>2. job[r] \in TargetJob
    BY <2>1, JobCases DEF MembershipInv
  <2> QED
    BY <1>1, <2>1, <2>2, GoesInTime
<1> QED
  BY <1>2, <1>3

LEMMA ExpireInTime ==
  ASSUME MembershipInv, LateInv, NEW i \in Invites, Expire(i)
  PROVE  LateInv'
<1>1. /\ i \in Pending /\ UNCHANGED job
      /\ invite' = [invite EXCEPT ![i].expired = TRUE]
      /\ late' = late \cup {r \in Openers(i) : job[r].do # "decline"}
  BY DEF Expire
<1>2. late' \subseteq Requests /\ late \subseteq late'
  BY <1>1 DEF LateInv, Openers
<1>3. invite[i] \in InviteType
  BY PendingHasRow, <1>1 DEF MembershipInv, RowsTyped
<1>4. invite'[i].status = "PENDING" /\ \A k \in Invites \ {i} : invite'[k] = invite[k]
  BY <1>1, <1>3 DEF MembershipInv, RowsTyped, InviteType, Pending
<1>5. Pending' = Pending
  BY <1>1, <1>4 DEF Pending
<1>6. ASSUME NEW s \in Requests \ late' PROVE StillOpen(job[s])'
  <2>1. StillOpen(job[s])
    BY <1>2 DEF LateInv
  <2>2. job[s].do \in {"accept", "claim"} => job[s].invite # i
    BY <1>1 DEF Openers
  <2>3. job[s].do \in {"accept", "claim"} => job[s].invite \in Invites
    BY <2>1, PendingHasRow DEF StillOpen
  <2> QED
    BY <1>1, <1>4, <1>5, <2>1, <2>2, <2>3 DEF StillOpen
<1> QED
  BY <1>1, <1>2, <1>6 DEF LateInv

LEMMA LateStep == MembershipInv /\ LateInv /\ [Next]_vars => LateInv'
<1> SUFFICES ASSUME MembershipInv, LateInv, [Next]_vars PROVE LateInv'
  OBVIOUS
<1>1. ASSUME NEW r \in Requests, LoadAccess(r) \/ AcceptRead(r) \/ DeclineRead(r) \/ Step(r)
      PROVE  LateInv'
  BY <1>1, LoadAccessInTime, OpensInTime, MembersInTime, SendInTime, AcceptInsertInTime,
     AnswersInTime DEF Step
<1>2. CASE \E i \in Invites : Expire(i)
  BY <1>2, ExpireInTime
<1>3. CASE \E p \in Placeholders : Retire(p)
  BY <1>3 DEF Retire, LateInv, StillOpen, Pending
<1>4. CASE UNCHANGED vars
  BY <1>4 DEF vars, LateInv, StillOpen, Pending
<1> QED
  BY <1>1, <1>2, <1>3, <1>4 DEF Next

LEMMA LateAlways == Spec => []LateInv
<1>1. Init => LateInv
  BY IdleSound DEF Init, LateInv, StillOpen
<1> QED
  BY <1>1, LateStep, MembershipAlways, PTL DEF Spec

-----------------------------------------------------------------------------
(* Types and identities.                                                     *)

\* Rows, invitations and what each request has read keep their types.
THEOREM MembershipTypes == Spec => []TypeOK
BY MembershipAlways, LateAlways, InvTypes, PTL

\* Every member is somebody in the ledger, or has lost the placeholder to a
\* second acceptance that claimed it (acceptInvite, removeMember, claims by id).
THEOREM MembershipIdentity == Spec => []MembersHaveIdentity
<1>1. MembershipInv => MembersHaveIdentity
  BY DEF MembershipInv
<1> QED
  BY <1>1, MembershipAlways, PTL

-----------------------------------------------------------------------------
(* Removed accounts.                                                         *)

\* The steps that write a role or the owner.
LEMMA RoleWriters ==
  ASSUME [Next]_vars
  PROVE  \/ UNCHANGED <<role, ownerId>>
         \/ \E r \in Requests :
              ChangeRole(r) \/ TransferWrite(r) \/ RemoveDelete(r) \/ AcceptWrite(r)
<1>1. ASSUME NEW r \in Requests, LoadAccess(r) \/ AcceptRead(r) \/ DeclineRead(r)
      PROVE  UNCHANGED <<role, ownerId>>
  BY <1>1 DEF LoadAccess, AcceptRead, DeclineRead
<1>2. ASSUME NEW r \in Requests, Step(r)
      PROVE  \/ UNCHANGED <<role, ownerId>>
             \/ ChangeRole(r) \/ TransferWrite(r) \/ RemoveDelete(r) \/ AcceptWrite(r)
  BY <1>2 DEF Step, TransferRead, RemoveRead, SendCount, SendCheck, SendInsert, RevokeInvite,
     AcceptInsert, DeclineWrite
<1>3. ASSUME NEW i \in Invites, Expire(i) PROVE UNCHANGED <<role, ownerId>>
  BY <1>3 DEF Expire
<1>4. ASSUME NEW q \in Placeholders, Retire(q) PROVE UNCHANGED <<role, ownerId>>
  BY <1>4 DEF Retire
<1>5. CASE UNCHANGED vars
  BY <1>5 DEF vars
<1> QED
  BY <1>1, <1>2, <1>3, <1>4, <1>5 DEF Next

LEMMA RemovedStayOutStep ==
  ASSUME MembershipInv, [Next]_vars, NEW u \in Users, HasIdentity(u), u \notin Members
  PROVE  role'[u] = "NONE"
<1>1. role[u] = "NONE" /\ role \in [Users -> Roles \cup {"NONE"}]
  BY DEF Members, MembershipInv, RowsTyped
<1>2. CASE UNCHANGED <<role, ownerId>>
  BY <1>1, <1>2
<1>3. ASSUME NEW r \in Requests, ChangeRole(r) PROVE role'[u] = "NONE"
  BY <1>1, <1>3 DEF ChangeRole
<1>4. ASSUME NEW r \in Requests, TransferWrite(r) PROVE role'[u] = "NONE"
  BY <1>1, <1>4 DEF TransferWrite, HandedOver
<1>5. ASSUME NEW r \in Requests, RemoveDelete(r) PROVE role'[u] = "NONE"
  BY <1>1, <1>5 DEF RemoveDelete
<1>6. ASSUME NEW r \in Requests, AcceptWrite(r) PROVE role'[u] = "NONE"
  BY <1>1, <1>6 DEF AcceptWrite, UniqueParticipant
<1> QED
  BY <1>2, <1>3, <1>4, <1>5, <1>6, RoleWriters

\* removeMember keeps the participant row and acceptInvite makes a second one:
\* the unique index keeps the removed account out for good, whatever is under way.
THEOREM MembershipRemovedStayOut == Spec => RemovedStayOut
<1>1. MembershipInv /\ [Next]_vars
        => [\A u \in Users : HasIdentity(u) /\ u \notin Members => role'[u] = "NONE"]_vars
  BY RemovedStayOutStep
<1> QED
  BY <1>1, MembershipAlways, PTL DEF Spec, RemovedStayOut

-----------------------------------------------------------------------------
(* One owner.                                                                *)

LEMMA SoleOwner ==
  ASSUME NEW f \in [Users -> Roles \cup {"NONE"}], NEW o \in Users
  PROVE  Cardinality(Owners(f)) = 1 /\ f[o] = "OWNER" <=> Owners(f) = {o}
<1>1. IsFiniteSet(Owners(f)) /\ (f[o] = "OWNER" <=> o \in Owners(f))
  BY FiniteAssumption, FS_Subset DEF Owners
<1>2. Owners(f) = {o} => Cardinality(Owners(f)) = 1
  BY FS_Singleton
<1>3. ASSUME Cardinality(Owners(f)) = 1, o \in Owners(f) PROVE Owners(f) = {o}
  <2>1. \E x : Owners(f) = {x}
    BY <1>1, <1>3, FS_Singleton
  <2> QED
    BY <1>3, <2>1
<1> QED
  BY <1>1, <1>2, <1>3

\* A request that is not stale, of those that need the owner to be one still.
LEMMA NotStale ==
  ASSUME MembershipInv, OwnershipSound, NEW r \in Requests,
         job[r].do \in {"changeRole", "hand over", "delete"}, ~StaleOwner(r)
  PROVE  /\ Owners(role) = {ownerId} /\ job[r].by = ownerId
         /\ job[r].target \in Users /\ job[r].target # ownerId
         /\ job[r].do = "hand over" => job[r].target \in Members
<1>1. Owners(role) = {ownerId}
  BY SoleOwner DEF MembershipInv, RowsTyped, OwnershipSound
<1>2. job[r].by \in Users /\ job[r].target \in Users
  BY JobCases DEF MembershipInv, ChangeJob, TargetJob
<1>3. JobSound(job[r], Members, invite)
  BY DEF MembershipInv
<1>4. job[r].by # job[r].target
  BY <1>3 DEF JobSound
<1>5. job[r].by \in Owners(role)
  BY <1>2 DEF StaleOwner, Owners
<1> QED
  BY <1>1, <1>2, <1>4, <1>5 DEF StaleOwner

LEMMA OwnershipStep ==
  ASSUME MembershipInv, MembershipInv', [Next]_vars, OwnershipSound, ~OwnershipSound'
  PROVE  \E r \in Requests : StaleOwner(r) /\ job'[r] = Idle
<1>1. /\ role \in [Users -> Roles \cup {"NONE"}] /\ ownerId \in Users
      /\ role' \in [Users -> Roles \cup {"NONE"}] /\ ownerId' \in Users
  BY DEF MembershipInv, RowsTyped
<1>2. Owners(role) = {ownerId} /\ Owners(role') # {ownerId'}
  BY <1>1, SoleOwner DEF OwnershipSound
<1>3. \A r \in Requests : Ends(r) => job'[r] = Idle
  BY DEF Ends, MembershipInv
<1>4. CASE UNCHANGED <<role, ownerId>>
  BY <1>2, <1>4
<1>5. ASSUME NEW r \in Requests, ChangeRole(r) PROVE StaleOwner(r) /\ job'[r] = Idle
  <2>1. job'[r] = Idle
    BY <1>3, <1>5 DEF ChangeRole
  <2> SUFFICES ASSUME ~StaleOwner(r) PROVE FALSE
    BY <2>1
  <2>2. job[r].target \in Users /\ job[r].target # ownerId
    BY <1>5, NotStale DEF ChangeRole
  <2>3. job[r].to # "OWNER"
    BY <1>5, JobCases, GrantsAreRoles DEF ChangeRole, MembershipInv, ChangeJob
  <2>4. ownerId' = ownerId /\ (role' = role \/ role' = [role EXCEPT ![job[r].target] = job[r].to])
    BY <1>5 DEF ChangeRole
  <2>5. Owners(role') = {ownerId}
    BY <1>1, <1>2, <2>2, <2>3, <2>4 DEF Owners
  <2> QED
    BY <1>2, <2>4, <2>5
<1>6. ASSUME NEW r \in Requests, TransferWrite(r) PROVE StaleOwner(r) /\ job'[r] = Idle
  <2>1. job'[r] = Idle
    BY <1>3, <1>6 DEF TransferWrite
  <2> SUFFICES ASSUME ~StaleOwner(r) PROVE FALSE
    BY <2>1
  <2> DEFINE to == job[r].target
             after == HandedOver(ownerId, to)
  <2>2. /\ job[r].by = ownerId /\ to \in Users /\ to # ownerId /\ to \in Members
    BY <1>6, NotStale DEF TransferWrite
  <2>3. IF OneOwnerPerTrip(after)
        THEN role' = after /\ ownerId' = to
        ELSE UNCHANGED <<role, ownerId>>
    BY <1>6, <2>2 DEF TransferWrite
  <2>4. ownerId \in Members
    BY <1>1, <1>2 DEF Members, Owners
  <2> HIDE DEF to
  <2>5. Owners(after) = {to}
    BY <1>1, <1>2, <2>2, <2>4 DEF Owners, HandedOver
  <2> HIDE DEF after
  <2> QED
    BY <1>2, <2>3, <2>5
<1>7. ASSUME NEW r \in Requests, RemoveDelete(r) PROVE StaleOwner(r) /\ job'[r] = Idle
  <2>1. job'[r] = Idle
    BY <1>3, <1>7 DEF RemoveDelete
  <2> SUFFICES ASSUME ~StaleOwner(r) PROVE FALSE
    BY <2>1
  <2>2. job[r].target \in Users /\ job[r].target # ownerId
    BY <1>7, NotStale DEF RemoveDelete
  <2>3. ownerId' = ownerId /\ role' = [role EXCEPT ![job[r].target] = "NONE"]
    BY <1>7 DEF RemoveDelete
  <2>4. Owners(role') = {ownerId}
    BY <1>1, <1>2, <2>2, <2>3 DEF Owners
  <2> QED
    BY <1>2, <2>3, <2>4
<1>8. ASSUME NEW r \in Requests, AcceptWrite(r) PROVE FALSE
  <2>1. CASE ~UniqueParticipant(job[r].by)
    BY <1>2, <1>8, <2>1 DEF AcceptWrite
  <2>2. CASE UniqueParticipant(job[r].by)
    <3> DEFINE u == job[r].by
    <3>1. /\ u \in Users /\ u \notin Members /\ job[r].invite \in Invites
          /\ invite[job[r].invite] \in InviteType
          /\ role' = [role EXCEPT ![u] = invite[job[r].invite].role]
      BY <1>8, <2>2, AcceptWrites
    <3>2. invite[job[r].invite].role # "OWNER"
      BY <3>1, GrantsAreRoles DEF InviteType
    <3>3. ownerId' = ownerId
      BY <1>8 DEF AcceptWrite
    <3>4. u # ownerId
      BY <1>1, <1>2, <3>1 DEF Owners, Members
    <3> HIDE DEF u
    <3>5. Owners(role') = {ownerId}
      BY <1>1, <1>2, <3>1, <3>2, <3>4 DEF Owners
    <3> QED
      BY <1>2, <3>3, <3>5
  <2> QED
    BY <2>1, <2>2
<1> QED
  BY <1>4, <1>5, <1>6, <1>7, <1>8, RoleWriters

\* The unique index lets two owners never exist, yet none may be left, or
\* trips.owner_id name somebody else: changeRole, transferOwnership and
\* removeMember write by ids they checked earlier.  Nothing else does it.
THEOREM MembershipOwner == Spec => OwnershipLostOnlyByStale
<1>1. MembershipInv /\ MembershipInv' /\ [Next]_vars
        => [OwnershipSound /\ ~OwnershipSound'
              => \E r \in Requests : StaleOwner(r) /\ job'[r] = Idle]_vars
  BY OwnershipStep
<1> QED
  BY <1>1, MembershipAlways, PTL DEF Spec, OwnershipLostOnlyByStale

-----------------------------------------------------------------------------
(* Answered invitations.                                                     *)

\* A request that ends by answering invitation i, if it is not late.
LEMMA InTimeAnswer ==
  ASSUME MembershipInv, LateInv, NEW r \in Requests, NEW i \in Invites,
         job[r].do \in {"claim", "decline"}, job[r].invite = i, Ends(r), ~LateAnswer(i)
  PROVE  /\ i \in Pending
         /\ job[r].do = "claim" => ~invite[i].expired
<1>1. job'[r] = Idle /\ r \in Openers(i)
  BY DEF Ends, MembershipInv, Openers
<1>2. StillOpen(job[r])
  BY <1>1 DEF LateAnswer, LateInv
<1> QED
  BY <1>2 DEF StillOpen

LEMMA ClosedStep ==
  ASSUME MembershipInv, LateInv, [Next]_vars, NEW i \in Invites, ~LateAnswer(i)
  PROVE  /\ invite[i].status \notin {"UNUSED", "PENDING"}
              => invite'[i].status = invite[i].status
         /\ i \in Pending /\ invite[i].expired => invite'[i].status # "ACCEPTED"
<1> DEFINE Kept == invite'[i].status = invite[i].status
           Closed == /\ invite[i].status \notin {"UNUSED", "PENDING"} => Kept
                     /\ i \in Pending /\ invite[i].expired => invite'[i].status # "ACCEPTED"
<1>1. /\ DOMAIN invite = Invites /\ invite[i] \in InviteType \cup {NoInvite}
      /\ i \in Pending => invite[i].status = "PENDING"
  BY DEF MembershipInv, RowsTyped, Pending
<1>2. Kept => Closed
  BY <1>1
<1>3. UNCHANGED invite => Kept
  OBVIOUS
<1>4. ASSUME NEW r \in Requests, LoadAccess(r) \/ AcceptRead(r) \/ DeclineRead(r)
      PROVE  UNCHANGED invite
  BY <1>4 DEF LoadAccess, AcceptRead, DeclineRead
<1>5. ASSUME NEW r \in Requests, SendInsert(r) PROVE Closed
  <2>1. CASE invite[i] # NoInvite
    BY <1>1, <1>2, <1>5, <2>1 DEF SendInsert
  <2>2. CASE invite[i] = NoInvite
    BY <2>2 DEF Pending, NoInvite
  <2> QED
    BY <2>1, <2>2
<1>6. ASSUME NEW r, NEW status \in {"REVOKED", "DECLINED"}, i \in Pending,
             Answered(r, i, status)
      PROVE  Closed
  <2>1. invite[i] \in InviteType
    BY <1>1, <1>6, PendingHasRow
  <2>2. invite'[i].status = status
    BY <1>1, <1>6, <2>1 DEF Answered, InviteType
  <2> QED
    BY <1>1, <1>6, <2>2
<1>7. ASSUME NEW r \in Requests, RevokeInvite(r) PROVE Closed
  <2>1. CASE job[r].invite = i /\ i \in Pending
    BY <1>6, <1>7, <2>1 DEF RevokeInvite
  <2>2. CASE job[r].invite # i \/ i \notin Pending
    <3>1. invite'[i] = invite[i]
      BY <1>1, <1>7, <2>2 DEF RevokeInvite, Answered
    <3> QED
      BY <1>2, <3>1
  <2> QED
    BY <2>1, <2>2
<1>8. ASSUME NEW r \in Requests, AcceptWrite(r) PROVE Closed
  <2>1. CASE job[r].invite # i
    <3>1. Kept
      BY <1>1, <1>8, <2>1 DEF AcceptWrite, Answered
    <3> QED
      BY <1>2, <3>1
  <2>2. CASE job[r].invite = i
    <3>1. i \in Pending /\ ~invite[i].expired
      BY <1>8, <2>2, InTimeAnswer DEF AcceptWrite
    <3> QED
      BY <1>1, <3>1
  <2> QED
    BY <2>1, <2>2
<1>9. ASSUME NEW r \in Requests, DeclineWrite(r) PROVE Closed
  <2>1. CASE job[r].invite # i
    <3>1. Kept
      BY <1>1, <1>9, <2>1 DEF DeclineWrite, Answered
    <3> QED
      BY <1>2, <3>1
  <2>2. CASE job[r].invite = i
    <3>1. i \in Pending
      BY <1>9, <2>2, InTimeAnswer DEF DeclineWrite
    <3> QED
      BY <1>6, <1>9, <2>2, <3>1 DEF DeclineWrite
  <2> QED
    BY <2>1, <2>2
<1>10. ASSUME NEW r \in Requests, Step(r) PROVE Closed
  <2>1. \/ UNCHANGED invite
        \/ SendInsert(r) \/ RevokeInvite(r) \/ AcceptWrite(r) \/ DeclineWrite(r)
    BY <1>10 DEF Step, ChangeRole, TransferRead, TransferWrite, RemoveRead, RemoveDelete,
       SendCount, SendCheck, AcceptInsert
  <2> QED
    BY <1>2, <1>3, <1>5, <1>7, <1>8, <1>9, <2>1
<1>11. ASSUME NEW k \in Invites, Expire(k) PROVE Kept
  <2>1. invite' = [invite EXCEPT ![k].expired = TRUE]
    BY <1>11 DEF Expire
  <2>2. CASE k = i
    <3>1. invite[i] \in InviteType
      BY <1>1, <1>11, <2>2, PendingHasRow DEF Expire
    <3> QED
      BY <1>1, <2>1, <2>2, <3>1 DEF InviteType
  <2>3. CASE k # i
    BY <1>1, <2>1, <2>3
  <2> QED
    BY <2>2, <2>3
<1>12. ASSUME NEW q \in Placeholders, Retire(q) PROVE UNCHANGED invite
  BY <1>12 DEF Retire
<1>13. ASSUME UNCHANGED vars PROVE UNCHANGED invite
  BY <1>13 DEF vars
<1> HIDE DEF Kept, Closed
<1>14. Closed
  BY <1>2, <1>3, <1>4, <1>10, <1>11, <1>12, <1>13 DEF Next
<1> QED
  BY <1>14 DEF Closed, Kept

\* acceptInvite and declineInvite look at the status and the date, and write the
\* status by id alone: an answer is overwritten, or an expired invitation admits,
\* only by a request that had found it open in time and comes late.
THEOREM MembershipAnswers == Spec => ClosedInvitesStayClosed
<1>1. MembershipInv /\ LateInv /\ [Next]_vars
        => [\A i \in Invites :
              /\ invite[i].status \notin {"UNUSED", "PENDING"}
                   => invite'[i].status = invite[i].status \/ LateAnswer(i)
              /\ i \in Pending /\ invite[i].expired /\ invite'[i].status = "ACCEPTED"
                   => LateAnswer(i)]_vars
  BY ClosedStep
<1> QED
  BY <1>1, MembershipAlways, LateAlways, PTL DEF Spec, ClosedInvitesStayClosed
=============================================================================
