SPECIFICATION Spec
CONSTANTS
  Width = 3
  Height = 2
  Black = 0
  White = 255
  Pixels = {0, 1, 2, 7, 255}
  Thresholds = {0, 1}
  Rois <- EdgeRois
  Srcs <- Gradients
  Olds <- Stale
  Algos = {"NONE", "THRESHOLD", "UNKNOWN"}
INVARIANTS
  TypeOK
  RoiInside
  OutputIsReference
  CountsCoverRoi
  WhiteCounted
CHECK_DEADLOCK FALSE
