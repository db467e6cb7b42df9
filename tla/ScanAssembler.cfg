SPECIFICATION Spec
CONSTANTS
  N = 3
  ReadMax = 4
  MaxTurn = 4
  MaxLost = 1
  MaxStill = 4
  MaxSession = 2
INVARIANTS
  TypeOK
  NoTurnSkipped
  BufferBounded
PROPERTIES
  OneTurnPerScan
  OldPointsOnlyFromBacklog
CHECK_DEADLOCK FALSE
