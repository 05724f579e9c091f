CONSTANTS
  BootstrapFrames = 4
  RetryEvery = 2
  WarmupFrames = 2
  WindowFrames = 4
  MinPosed = 3
  BiasGap = 1
  BiasMinPairs = 2
  AlignStride = 1
  AlignMinIntervals = 2
  VisualInitSeconds = 4
  VisualInitMaxSeconds = 6
  VisualInitMaxMisses = 1
  WindowEnabled = TRUE
  KeyframeEvery = 2
  MaxKeyframes = 2
  EstimateGravity = TRUE
  Length = 10
  MaxOdd = 2

SPECIFICATION Spec

INVARIANTS
  TypeOK
  UnitsApart
  StateAtTPrev
  WindowInOrder
  NothingInherited
  VisualInitGivesUp
PROPERTIES
  AttemptsPaced
  KeepsLifecycle
