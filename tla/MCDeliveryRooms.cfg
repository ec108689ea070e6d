\* A socket fails, another arrives, and the first one closes.
SPECIFICATION Spec
CONSTANTS
  ana = ana
  ben = ben
  Users <- MCUsers
  Owner = ana
  Changes = {c1}
  Mentions <- MCMentions
  Sockets = {s1, s2}
  NoRoom = NoRoom
  NoUser = NoUser
SYMMETRY SocketSymmetry
INVARIANT EveryoneHears
