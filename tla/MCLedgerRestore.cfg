\* An expense rewritten while it is deleted, and then restored.
SPECIFICATION Spec
CONSTANTS
  ana = ana
  ben = ben
  mom = mom
  Participants <- MCParticipants
  Expenses = {e1}
  Settlements = {}
  r1 = r1
  r2 = r2
  r3 = r3
  Requests = {r1, r2, r3}
  Accesses <- OwnerOnly
  Bills <- MCBills
  Amounts = {2}
  ParticipantLimit = 3
  ExpenseLimit = 1
  NoRow = NoRow
  Nobody = Nobody
SYMMETRY RequestSymmetry
INVARIANT LiveExpensesBalanced
CHECK_DEADLOCK FALSE
