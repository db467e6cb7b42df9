SPECIFICATION Spec
CONSTANTS
  Slots = 5
  Turn = 10
  AngleLimit = 3
  Many = 4
  Few = 3
  Bins = 4
  Type = {"LD_19"}
  Value <- MCValue
  Stamps <- MCStamps
INVARIANT ManyPointsKept
CHECK_DEADLOCK FALSE
