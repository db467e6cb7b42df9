SPECIFICATION Spec
CONSTANT Fd = {3, 4}
INVARIANTS
  ReaderGoneAfterClose
  NoDescriptorLeak
  ForeignBytesOnlyWhileClosing
PROPERTIES
  CloseReturns
  KeepsReading
CHECK_DEADLOCK FALSE
