CONSTANTS
  MaxImuBuffer = 20000
  Stamps = {1, 2, 3}
  Timelines = {0}
  Capacity = 1
  MaxSamples = 3
  MaxFrames = 3
  MaxEpoch = 0
SPECIFICATION Safety
INVARIANTS
  LeftBracketed
