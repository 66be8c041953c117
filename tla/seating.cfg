SPECIFICATION FairSpec
CONSTANTS
  Accounts = {a, b, c}
  First = a
  Second = b
  MaxPlayers = 3
  MaxBuy = 2
  Moves = 3
INVARIANTS ShowsWhatFollows
PROPERTIES ClaimsAreKept ClaimsEnd
CHECK_DEADLOCK FALSE
