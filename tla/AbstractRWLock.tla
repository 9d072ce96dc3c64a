--------------------------- MODULE AbstractRWLock ---------------------------
(***************************************************************************)
(* What lib/pthread_rwlock promises its callers: a lock that many readers  *)
(* share or one writer owns, and that gives preference to the writers that *)
(* wait for it.  Counters, mutex, condition variables and wakeups are the  *)
(* implementation's business (module RWLock).                              *)
(***************************************************************************)
CONSTANT Threads

VARIABLES
  readers,  \* threads that were granted a read lock
  writers,  \* threads that were granted the write lock
  waiting   \* writers that found the lock taken and wait for it

absVars == <<readers, writers, waiting>>

AbsInit == readers = {} /\ writers = {} /\ waiting = {}

GrantRead(t) ==
  /\ writers = {}
  /\ waiting = {}
  /\ t \notin readers
  /\ readers' = readers \cup {t}
  /\ UNCHANGED <<writers, waiting>>

WriterWaits(t) ==
  /\ readers \cup writers # {}
  /\ t \notin readers \cup writers
  /\ waiting' = waiting \cup {t}
  /\ UNCHANGED <<readers, writers>>

GrantWrite(t) ==
  /\ readers = {}
  /\ writers = {}
  /\ writers' = {t}
  /\ waiting' = waiting \ {t}
  /\ UNCHANGED readers

\* A waiting writer is cancelled.
WriterGivesUp(t) ==
  /\ t \in waiting
  /\ waiting' = waiting \ {t}
  /\ UNCHANGED <<readers, writers>>

Release(t) ==
  /\ t \in readers \cup writers
  /\ readers' = readers \ {t}
  /\ writers' = writers \ {t}
  /\ UNCHANGED waiting

AbsNext ==
  \E t \in Threads :
    \/ GrantRead(t) \/ GrantWrite(t) \/ WriterWaits(t)
    \/ WriterGivesUp(t) \/ Release(t)

AbsSpec == AbsInit /\ [][AbsNext]_absVars
=============================================================================
