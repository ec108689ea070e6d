\* Up to two expenses, each of one of some seventy bodies, and their settlement.
SPECIFICATION Spec
CONSTANTS
  Participants <- MCParticipants
  Inputs <- MCInputs
  MaxBills = 2
INVARIANTS
  SplitsExactAndFair
  SettleUpClears
PROPERTY SuggestionsConverge
CHECK_DEADLOCK FALSE
