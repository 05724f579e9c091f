CONSTANTS
  MaxFeatures = 2
  MinFeatures = 2
  MaxIds = 2
  MaxUnseen = 1
  MaxObservations = 3
  RecycleOutliers = TRUE
  MaxKeyframes = 2
  WindowTriangulates = TRUE
  MaxFrames = 7

SPECIFICATION Spec

INVARIANTS
  TypeOK
  OldestFirst
  OneRole
  SeenLately
  WidestBaselineKept
  WindowForgets
PROPERTIES
  IdsNeverReused
