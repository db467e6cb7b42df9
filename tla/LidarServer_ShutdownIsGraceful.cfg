SPECIFICATION Spec
CONSTANTS
  Publisher = {p1, p2, p3}
  NoPublisher = NoPublisher
INVARIANT ShutdownIsGraceful
CHECK_DEADLOCK FALSE
