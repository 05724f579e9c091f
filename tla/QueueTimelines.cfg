CONSTANTS
  MaxImuBuffer = 2
  Stamps = {1, 2, 3}
  Timelines = {0, 1}
  Capacity = 1
  MaxSamples = 3
  MaxFrames = 2
  MaxEpoch = 1
SPECIFICATION Spec
INVARIANTS
  TimelinePure
  NothingReadyIsHeld
  ShutdownDrained
PROPERTIES
  ShutdownTerminates
  NoGroupStranded
  StreamServed
