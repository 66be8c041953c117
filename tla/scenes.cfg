SPECIFICATION FairScenesSpec
CONSTANTS
  Critical = {"font"}
  Room = {"felt"}
  Recharge = {"gem"}
  Wallpapers = {"felt", "tall"}
  Openings = 3
INVARIANTS
  ShowsTheLoaded
PROPERTIES
  NobodyWaits
CHECK_DEADLOCK FALSE
