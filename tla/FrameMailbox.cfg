SPECIFICATION Spec
CONSTANT MaxFrame = 6
INVARIANTS
  NoTornScan
  NewestScanNotLost
  AtMostThreeTimes
PROPERTIES
  OnlyWholeScansOfThisSession
  ImplementsRegister
CHECK_DEADLOCK FALSE
