CONSTANTS
  MaxFeatures = 2
  MinFeatures = 2
  MaxIds = 2
  MaxUnseen = 1
  MaxObservations = 3
  RecycleOutliers = TRUE
  MaxKeyframes = 2
  WindowTriangulates = FALSE
  MaxFrames = 6

SPECIFICATION Spec

INVARIANTS
  OutliersForgotten
