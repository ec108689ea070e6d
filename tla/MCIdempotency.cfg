\* One key, two bodies, three requests, every fault.
SPECIFICATION CallsFairSpec
CONSTANTS
  Calls = {r1, r2, r3}
  Keys = {k1}
  Bodies = {b1, b2}
  NoAsk = NoAsk
  NoOne = NoOne
  Faults = TRUE
INVARIANT CallsTypeOK
PROPERTIES
  KeepsPromise
  AnswerStoredBeforeSent
  AbandonedClaimFreed
CHECK_DEADLOCK FALSE
