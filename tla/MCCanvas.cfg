CONSTANTS
  b1 = b1
  b2 = b2
  d1 = d1
  d2 = d2
  s1 = s1
  e1 = e1
  t1 = t1
  t2 = t2
  r1 = r1
  r2 = r2
  Blocks <- AllBlocks
  Days <- AllDays
  Suggestions = {s1}
  Expenses = {e1}
  Texts <- AllTexts
  Requests <- AllRequests
  BlockLimit = 1
  MaxVersion = 2
  MaxSort = 2
  None = None
SPECIFICATION Spec
SYMMETRY Symmetry
PROPERTY NoEditLost
PROPERTY DeadLinkOnlyWhenOvertaken
PROPERTY DecidedOnce
PROPERTY OrderSettled
