CONSTANTS
  b1 = b1
  d1 = d1
  d2 = d2
  r1 = r1
  Blocks = {b1}
  Days <- AllDays
  FirstDay <- d1
  Requests = {r1}
SPECIFICATION FairSpec
PROPERTY ExpiredPurged
