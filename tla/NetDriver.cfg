SPECIFICATION Spec
CONSTANTS
  Peer = {p1, p2}
  MaxInbox = 2
INVARIANTS
  NothingLeftOpen
  ConnectedMeansThisSession
PROPERTIES
  ParserUndisturbed
  StopReturns
  ServerStarts
  KeepsReceiving
CHECK_DEADLOCK FALSE
