SPECIFICATION Spec
CONSTANTS
  Programs = {"sigl2"}
  MaxMsg = 2
  MaxSends = 3
INVARIANTS
  AwakeWhenFlagged
CHECK_DEADLOCK FALSE
