SPECIFICATION FairSpec
CONSTANTS
  Programs = {"sigl", "sigl2", "sigl3", "sigl4", "sigl5", "thread1"}
  MaxMsg = 3
  MaxSends = 7
INVARIANTS
  TypeOK
  OneNotification
  AwakeWhenFlaggedBut2
PROPERTIES
  QueueIsDrained
CHECK_DEADLOCK FALSE
