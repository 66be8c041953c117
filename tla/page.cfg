SPECIFICATION FairPageSpec
CONSTANTS
  Disturbances = 4
  Fields = {"bgm", "lang"}
  Values = {1, 2}
  Expired = Expired
  Crossing = FALSE
  Tracks = {"lobby", "room"}
  Quiet = Quiet
  Uncached = Uncached
  Default = 1
  Hasty = FALSE
  Bgm = "bgm"
INVARIANTS MusicAsAsked
PROPERTIES EventuallyAgree
CHECK_DEADLOCK FALSE
