CONSTANTS
  Capacity = 1
  Jump = 2
  RestartOnLoss = TRUE
  Settled = TRUE
  Length = 5
  MaxReplay = 2
  MaxTransit = 2
  MaxStale = 1
  MaxUnreadable = 1
SPECIFICATION Safety
INVARIANTS
  TypeOK
  TimelinesApart
  TracksApart
  EstimatorApart
  NeitherStreamLossy
PROPERTIES
  QueueFedInOrder
  PosesInOrder
