SPECIFICATION Spec
CONSTANTS
  Threads = {t1, t2}
  MessageThreshold = 2
  ObservationThreshold = 2
  BatchLimit = 2
  ReflectLimit = 2
  ScanLimit = 2
  None = None
  MaxMessages = 4
  MaxAsked = 2
  MaxRestarts = 1
CHECK_DEADLOCK FALSE
INVARIANTS InOrder
PROPERTY Compressed
