SPECIFICATION Spec
CONSTANTS
  Slots = 5
  Turn = 10
  AngleLimit = 3
  Many = 4
  Few = 3
  Bins = 4
  Type = {"LD_19", "STL_27L"}
  Value <- MCValue
  Stamps <- MCStamps
INVARIANTS
  FilterKeepsPoints
  FilterTurnsWithTheScan
  BeamNearPoint
  BeamIsNearest
  ObstacleIsSeen
CHECK_DEADLOCK FALSE
