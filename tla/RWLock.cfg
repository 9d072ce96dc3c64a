SPECIFICATION FairSpec
CONSTANTS
  NoThread = NoThread
  Threads = {t1, t2, t3}
  Cancellable = {t1, t2, t3}
  Rounds = 2
INVARIANTS
  TypeOK
  Exclusion
  WaitCountsExact
  NoStrandedWriter
  ReaderSleepsForAWriter
  DestroyOutcome
PROPERTIES
  ImplementsAbstractLock
  AllCallsReturn
CHECK_DEADLOCK FALSE
