SPECIFICATION Spec
CONSTANTS
  NoThread = NoThread
  Threads = {t1, t2, t3}
  Cancellable = {t2}
  Rounds = 1
INVARIANTS
  NoStrandedReader
CHECK_DEADLOCK FALSE
