SPECIFICATION Spec
CONSTANTS
  Publisher = {p1, p2, p3}
  NoPublisher = NoPublisher
INVARIANT PublisherOutlivesWrite
CHECK_DEADLOCK FALSE
