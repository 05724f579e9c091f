CONSTANTS
  Capacity = 1
  Jump = 2
  RestartOnLoss = TRUE
  Settled = FALSE
  Length = 4
  MaxReplay = 1
  MaxTransit = 2
  MaxStale = 0
  MaxUnreadable = 0
SPECIFICATION Safety
INVARIANTS
  NeitherStreamLossy
