SPECIFICATION Spec
CONSTANTS
  Deck = {0, 4, 8, 12, 32, 36, 40, 44, 45, 48, 49, 50, 51, 13}
  Holes = {{48, 49}, {8, 12}, {48, 13}}
  MaxClears = 2
INVARIANTS
  NamesBestHand
  TapsAndHolds
