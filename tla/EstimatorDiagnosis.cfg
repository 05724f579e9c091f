CONSTANTS
  BootstrapFrames = 4
  RetryEvery = 2
  WarmupFrames = 2
  WindowFrames = 4
  MinPosed = 3
  BiasGap = 1
  BiasMinPairs = 2
  AlignStride = 1
  AlignMinIntervals = 2
  VisualInitSeconds = 0
  VisualInitMaxSeconds = 7
  VisualInitMaxMisses = 1
  WindowEnabled = TRUE
  KeyframeEvery = 2
  MaxKeyframes = 2
  EstimateGravity = TRUE
  Length = 8
  MaxOdd = 0

SPECIFICATION Spec

INVARIANTS
  FailureNamesStage
