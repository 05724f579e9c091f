CONSTANTS
  Ids = {1, 2, 3}
  WindowFrames = 4
  MinPosed = 3
  MinShared = 1
  MinLandmarks = 2
  MinPnpPoints = 1
  TriangulateWindow = TRUE
  BundleIterations = 2
  FixPairFrame = FALSE
  MaxGap = 2
  BiasGap = 2
  BiasMinPairs = 1
  AlignStride = 1
  AlignMinIntervals = 2
  SfmBundleAdjust = TRUE
  Period = 3
  FrameCounts = {3, 6}
  LastSample = 18
  Inputs <- MCInputs
  Streams <- MCStreams

SPECIFICATION Spec

INVARIANTS
  OneRuler
  SeenTwice
  IntervalsExact
  OutcomeAllowed
