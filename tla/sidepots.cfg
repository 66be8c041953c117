SPECIFICATION Spec
CONSTANTS
  N = 3
  MaxTotal = 3
  Scores = {1, 2}
INVARIANTS
  PotsHoldAllBets
PROPERTIES
  ImplementsPayout
CHECK_DEADLOCK FALSE
