SPECIFICATION Spec
CONSTANTS
  N = 3
  SmallBlind = 1
  BigBlind = 2
  BuyIn = 2
  MaxBuy = 4
  Rebuys = {2}
  Scores = {1, 2}
  HandsLimit = 1
  SeatLimit = 3
  LeaveAtShowdown = TRUE
  StartStacks = {1}
INVARIANTS
  StakesIntact
  CleanBetweenHands
  SeatsInOrder
CHECK_DEADLOCK FALSE
