SPECIFICATION HandSpec
CONSTANTS
  N = 3
  SmallBlind = 1
  BigBlind = 2
  BuyIn = 2
  MaxBuy = 4
  Rebuys = {}
  Scores = {1, 2}
  HandsLimit = 1
  SeatLimit = 3
  LeaveAtShowdown = FALSE
  StartStacks = {1, 2, 5}
INVARIANTS
  PotPaidOut
  BestHandPaid
  TurnIsRight
  OffersExactly
  ShownIsPaid
PROPERTIES
  StreetsAddUp
  SnapshotsTellActions
CHECK_DEADLOCK FALSE
