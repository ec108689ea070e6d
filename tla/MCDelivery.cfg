\* Two people, a comment by one that may mention the other, three sockets.
SPECIFICATION Spec
CONSTANTS
  ana = ana
  ben = ben
  Users <- MCUsers
  Owner = ana
  Changes = {c1}
  Mentions <- MCMentions
  Sockets = {s1, s2, s3}
  NoRoom = NoRoom
  NoUser = NoUser
SYMMETRY SocketSymmetry
INVARIANTS
  TypeOK
  HearUnlessOvertaken
  InboxesRight
PROPERTY Publishes
