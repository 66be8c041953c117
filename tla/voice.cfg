SPECIFICATION Spec
CONSTANTS
  Rooms = {"r1", "r2"}
  None = "none"
  AskLimit = 3
  ClickLimit = 2
  FaultLimit = 1
  Awkward = {}
INVARIANTS RecordsOnlyWhenAsked HeardAsShown VoiceStaysInRoom LastChoiceWins
CHECK_DEADLOCK FALSE
