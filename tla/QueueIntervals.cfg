CONSTANTS
  MaxImuBuffer = 20000
  Stamps = {1, 2, 3, 4}
  Timelines = {0}
  Capacity = 2
  MaxSamples = 5
  MaxFrames = 4
  MaxEpoch = 0
SPECIFICATION Safety
INVARIANTS
  TypeOK
  QueueBounded
  FramesInOrder
  ImuComplete
  FramesConserved
PROPERTIES
  ImplementsStream
