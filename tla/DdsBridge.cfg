SPECIFICATION Spec
CONSTANTS
  MaxSample = 2
  Period = 2
INVARIANTS
  TypeOK
  NoEntityLeft
  RosPublisherAlive
  SilenceReported
PROPERTIES
  ScansInOrder
  ServerConnects
  ScanForwarded
CHECK_DEADLOCK FALSE
