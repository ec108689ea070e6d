\* Two overlapping requests, three accounts, a limit that two acceptances can pass.
SPECIFICATION Spec
CONSTANTS
  Users = {ann, bob, cat}
  Creator = ann
  Placeholders = {p1}
  Invites = {i1, i2}
  Requests = {r1, r2}
  Grants = {"VIEWER"}
  Batches = {{bob}, {cat}}
  MemberLimit = 2
  Nobody = Nobody
SYMMETRY Symmetry
INVARIANT MembersHaveIdentity
PROPERTY OwnershipLostOnlyByStale
PROPERTY RemovedStayOut
PROPERTY ClosedInvitesStayClosed
CHECK_DEADLOCK FALSE
