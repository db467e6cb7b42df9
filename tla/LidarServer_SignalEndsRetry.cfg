SPECIFICATION Spec
CONSTANTS
  Publisher = {p1, p2, p3}
  NoPublisher = NoPublisher
PROPERTY SignalEndsRetry
CHECK_DEADLOCK FALSE
