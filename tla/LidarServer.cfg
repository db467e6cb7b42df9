SPECIFICATION Spec
CONSTANTS
  Publisher = {p1, p2, p3}
  NoPublisher = NoPublisher
INVARIANTS
  LoopsEndAfterTheThread
PROPERTIES
  ReplacedOnlyWhenStopped
  ServiceStarts
  PublishingResumes
  SignalEndsService
CHECK_DEADLOCK FALSE
