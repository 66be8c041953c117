SPECIFICATION FairSpec
CONSTANTS
  Rooms = {"r1"}
  None = "none"
  Disturbances = 2
  SeatLimit = 1
  QueueLimit = 3
INVARIANTS GivenUpStaysOut RoomAgrees
PROPERTIES SeatIsKept EventuallyReady GivenUpIsReleased
CHECK_DEADLOCK FALSE
