SPECIFICATION FairViewSpec
CONSTANTS
  N = 3
  SmallBlind = 1
  BigBlind = 2
  BuyIn = 2
  MaxBuy = 4
  Rebuys = {}
  Scores = {1}
  HandsLimit = 1
  SeatLimit = 3
  LeaveAtShowdown = TRUE
  StartStacks = {1, 2, 4}
INVARIANTS
  ShowdownIsShown
PROPERTIES
  HandEndsOrSticks
CHECK_DEADLOCK FALSE
