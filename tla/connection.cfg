SPECIFICATION FairConnectionSpec
CONSTANTS
  Disturbances = 8
  Beat = 5
  Silence = 12
INVARIANTS NeverStranded
PROPERTIES EventuallyConnected ImplementsLink
CHECK_DEADLOCK FALSE
