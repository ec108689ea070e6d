\* Two expenses and one settlement under two overlapping requests.
SPECIFICATION Spec
CONSTANTS
  ana = ana
  ben = ben
  mom = mom
  Participants <- MCParticipants
  Expenses = {e1, e2}
  Settlements = {s1}
  r1 = r1
  r2 = r2
  r3 = r3
  Requests = {r1, r2}
  Accesses <- MCAccesses
  Bills <- AllBills
  Amounts = {2}
  ParticipantLimit = 3
  ExpenseLimit = 2
  NoRow = NoRow
  Nobody = Nobody
SYMMETRY RequestSymmetry
INVARIANTS
  TypeOK
  BalancesNeverRefuse
  SettlementsSound
  UntouchedExpensesBalanced
PROPERTIES
  SettlementHistoryPermanent
  RemovalConserves
CHECK_DEADLOCK FALSE
