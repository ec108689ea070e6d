\* Two overlapping requests on a variant of up to three days.
SPECIFICATION Spec
CONSTANTS
  DayIds = {d1, d2, d3, d4, d5}
  Requests = {r1, r2}
  DayLimit = 3
  Highest = 3
  Lengths = {1, 3}
  NoDay = NoDay
  NoRequest = NoRequest
SYMMETRY Symmetry
INVARIANT TypeOK
INVARIANT LockProtects
INVARIANT ContiguousUnlessDrifted
PROPERTY OnlyReorderReorders
CHECK_DEADLOCK FALSE
