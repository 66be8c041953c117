SPECIFICATION FairSpec
CONSTANTS
  SeatsGiven = 3
  BuyIn = 1
  ResetsFail = FALSE
INVARIANTS
  ChipsKept
  RefundedNeverPlays
PROPERTIES
  SettlesAllOrNothing
  ImplementsLedger
  PaysInTheEnd
CHECK_DEADLOCK FALSE
