------------------------------- MODULE RWLock -------------------------------
(***************************************************************************)
(* The read-write lock of lib/pthread_rwlock: a mutex, two condition       *)
(* variables and three counters, with the cleanup handlers that run when a *)
(* thread is cancelled inside pthread_cond_wait.                           *)
(*                                                                         *)
(* Each thread makes up to Rounds lock/unlock pairs, choosing a read or a  *)
(* write lock each time.  Threads in Cancellable may be cancelled at any   *)
(* time; cancellation takes effect at a cancellation point: a condition    *)
(* wait, or a printf or sleep of the caller outside the lock functions.    *)
(*                                                                         *)
(* Code that runs under rw_mutex is one step, taken when the mutex is      *)
(* free; unlocking it is a second step.                                    *)
(***************************************************************************)
EXTENDS Integers, FiniteSets

CONSTANTS
  Threads,      \* the threads that share the lock
  NoThread,     \* the owner of an unlocked mutex
  Cancellable,  \* threads some other thread may cancel
  Rounds        \* lock/unlock pairs each thread makes

ASSUME RWAssumption ==
  /\ IsFiniteSet(Threads)
  /\ NoThread \notin Threads
  /\ Cancellable \subseteq Threads
  /\ Rounds \in Nat

VARIABLES
  rw_mutex,        \* owner of the mutex, or NoThread
  rw_magic,        \* TRUE while the magic number is in place
  rw_nwaitreaders,
  rw_nwaitwriters,
  rw_refcount,     \* -1: a writer has the lock, else number of readers
  pc,
  held,            \* the lock each thread was granted and has not released
  rounds,          \* lock calls each thread has left
  cancelreq,       \* threads with a pending cancellation request
  destroyed        \* outcome of pthread_rwlock_destroy, "no" before the call

counters == <<rw_nwaitreaders, rw_nwaitwriters, rw_refcount>>
vars == <<rw_mutex, rw_magic, counters, pc, held, rounds, cancelreq, destroyed>>

RdStates == {"rd_call", "rd_wait", "rd_woken", "rd_cancel", "rd_ret"}
WrStates == {"wr_call", "wr_wait", "wr_woken", "wr_cancel", "wr_ret"}
UnStates == {"un_call", "un_ret"}
EndStates == {"exited", "cancelled"}
States == {"idle", "holds"} \cup RdStates \cup WrStates \cup UnStates \cup EndStates

At(states) == {t \in Threads : pc[t] \in states}
Goto(t, state) == pc' = [pc EXCEPT ![t] = state]
HeldAs(mode) == {t \in Threads : held[t] = mode}

\* Threads counted by rw_nwaitreaders and rw_nwaitwriters.
WaitingReaders == At({"rd_wait", "rd_woken", "rd_cancel"})
WaitingWriters == At({"wr_wait", "wr_woken", "wr_cancel"})

Init ==
  /\ rw_mutex = NoThread
  /\ rw_magic = TRUE
  /\ rw_nwaitreaders = 0
  /\ rw_nwaitwriters = 0
  /\ rw_refcount = 0
  /\ pc = [t \in Threads |-> "idle"]
  /\ held = [t \in Threads |-> "no"]
  /\ rounds = [t \in Threads |-> Rounds]
  /\ cancelreq = {}
  /\ destroyed = "no"

-----------------------------------------------------------------------------
(* The caller: threads of my_rwlock, lock calls paired with unlock calls.   *)

LockCall(t) ==
  /\ pc[t] = "idle"
  /\ rounds[t] > 0
  /\ rw_magic
  /\ rounds' = [rounds EXCEPT ![t] = @ - 1]
  /\ \E call \in {"rd_call", "wr_call"} : Goto(t, call)
  /\ UNCHANGED <<rw_mutex, rw_magic, counters, held, cancelreq, destroyed>>

UnlockCall(t) ==
  /\ pc[t] = "holds"
  /\ rw_magic
  /\ Goto(t, "un_call")
  /\ UNCHANGED <<rw_mutex, rw_magic, counters, held, rounds, cancelreq, destroyed>>

ThreadReturns(t) ==
  /\ pc[t] = "idle"
  /\ rounds[t] = 0
  /\ Goto(t, "exited")
  /\ UNCHANGED <<rw_mutex, rw_magic, counters, held, rounds, cancelreq, destroyed>>

-----------------------------------------------------------------------------
(* pthread_rwlock_rdlock                                                    *)

\* Mutant: the loop test without the preference for writers.
RdMustWaitIgnoringWriters == rw_refcount < 0

\* The test of the loop, line 28.
RdMustWait == rw_refcount < 0 \/ rw_nwaitwriters > 0

\* The thread holds rw_mutex at the loop test: for the first time, or as
\* pthread_cond_wait returns, after it has taken itself out of the count.
RdLoop(t) ==
  /\ pc[t] \in {"rd_call", "rd_woken"}
  /\ rw_mutex = NoThread
  /\ LET waiters == rw_nwaitreaders - (IF pc[t] = "rd_woken" THEN 1 ELSE 0)
     IN \/ /\ RdMustWait
           /\ rw_nwaitreaders' = waiters + 1
           /\ Goto(t, "rd_wait")
           /\ UNCHANGED <<rw_mutex, rw_refcount, held>>
        \/ /\ ~RdMustWait
           /\ rw_nwaitreaders' = waiters
           /\ rw_refcount' = rw_refcount + 1
           /\ held' = [held EXCEPT ![t] = "rd"]
           /\ rw_mutex' = t
           /\ Goto(t, "rd_ret")
  /\ UNCHANGED <<rw_magic, rw_nwaitwriters, rounds, cancelreq, destroyed>>

-----------------------------------------------------------------------------
(* pthread_rwlock_wrlock                                                    *)

\* Mutant: a writer that waits for writers only.
WrMustWaitForWriter == rw_refcount < 0

WrMustWait == rw_refcount # 0

WrLoop(t) ==
  /\ pc[t] \in {"wr_call", "wr_woken"}
  /\ rw_mutex = NoThread
  /\ LET waiters == rw_nwaitwriters - (IF pc[t] = "wr_woken" THEN 1 ELSE 0)
     IN \/ /\ WrMustWait
           /\ rw_nwaitwriters' = waiters + 1
           /\ Goto(t, "wr_wait")
           /\ UNCHANGED <<rw_mutex, rw_refcount, held>>
        \/ /\ ~WrMustWait
           /\ rw_nwaitwriters' = waiters
           /\ rw_refcount' = -1
           /\ held' = [held EXCEPT ![t] = "wr"]
           /\ rw_mutex' = t
           /\ Goto(t, "wr_ret")
  /\ UNCHANGED <<rw_magic, rw_nwaitreaders, rounds, cancelreq, destroyed>>

\* The final pthread_mutex_unlock of rdlock and wrlock; the caller has its lock.
LockReturn(t) ==
  /\ pc[t] \in {"rd_ret", "wr_ret"}
  /\ rw_mutex' = NoThread
  /\ Goto(t, "holds")
  /\ UNCHANGED <<rw_magic, counters, held, rounds, cancelreq, destroyed>>

-----------------------------------------------------------------------------
(* pthread_rwlock_unlock                                                    *)

\* Mutant: every unlock is taken for a writer's.
RefcountOfWriterUnlock == 0

\* Lines 16-19.  The remaining branch, err_dump, aborts the process;
\* UnlockIsOfAHeldLock shows that no paired unlock takes it.
RefcountAfterUnlock == IF rw_refcount > 0 THEN rw_refcount - 1 ELSE 0

\* Mutant: waiting readers are preferred to waiting writers.
WakesReadersFirst(refcount) ==
  IF rw_nwaitreaders > 0 THEN {At({"rd_wait"})}
  ELSE IF rw_nwaitwriters > 0 /\ refcount = 0 /\ At({"wr_wait"}) # {}
       THEN {{w} : w \in At({"wr_wait"})}
       ELSE {{}}

\* Mutant: one reader is signalled instead of all of them.
WakesOneReader(refcount) ==
  LET Blocked == At({IF rw_nwaitwriters > 0 THEN "wr_wait" ELSE "rd_wait"})
  IN IF Blocked = {} \/ (rw_nwaitwriters > 0 /\ refcount # 0)
     THEN {{}} ELSE {{u} : u \in Blocked}

\* The sets of threads the call may wake: one writer blocked on condwriters
\* (none if none is blocked), or every reader blocked on condreaders.
Wakes(refcount) ==
  IF rw_nwaitwriters > 0
  THEN IF refcount = 0 /\ At({"wr_wait"}) # {}
       THEN {{w} : w \in At({"wr_wait"})}
       ELSE {{}}
  ELSE IF rw_nwaitreaders > 0 THEN {At({"rd_wait"})} ELSE {{}}

WokenState(state) == IF state = "rd_wait" THEN "rd_woken" ELSE "wr_woken"

Unlock(t) ==
  /\ pc[t] = "un_call"
  /\ rw_mutex = NoThread
  /\ rw_refcount' = RefcountAfterUnlock
  /\ \E woken \in Wakes(RefcountAfterUnlock) :
       pc' = [u \in Threads |-> CASE u = t -> "un_ret"
                                  [] u # t /\ u \in woken -> WokenState(pc[u])
                                  [] OTHER -> pc[u]]
  /\ held' = [held EXCEPT ![t] = "no"]
  /\ rw_mutex' = t
  /\ UNCHANGED <<rw_magic, rw_nwaitreaders, rw_nwaitwriters,
                 rounds, cancelreq, destroyed>>

UnlockReturn(t) ==
  /\ pc[t] = "un_ret"
  /\ rw_mutex' = NoThread
  /\ Goto(t, "idle")
  /\ UNCHANGED <<rw_magic, counters, held, rounds, cancelreq, destroyed>>

-----------------------------------------------------------------------------
(* Cancellation and spurious wakeups                                        *)

\* pthread_cancel(t), called by another thread.
RequestCancel(t) ==
  /\ t \in Cancellable \ cancelreq
  /\ pc[t] \notin EndStates
  /\ cancelreq' = cancelreq \cup {t}
  /\ UNCHANGED <<rw_mutex, rw_magic, counters, pc, held, rounds, destroyed>>

\* A thread blocked on condreaders, or woken and not yet back, acts on the request.
RdCancelPoint(t) ==
  /\ t \in cancelreq
  /\ pc[t] \in {"rd_wait", "rd_woken"}
  /\ Goto(t, "rd_cancel")
  /\ UNCHANGED <<rw_mutex, rw_magic, counters, held, rounds, cancelreq, destroyed>>

\* The same on condwriters; the signal a woken writer had received goes to
\* another writer if one is blocked.
WrCancelPoint(t) ==
  /\ t \in cancelreq
  /\ \/ /\ pc[t] = "wr_wait" \/ At({"wr_wait"}) = {}
        /\ pc[t] \in {"wr_wait", "wr_woken"}
        /\ Goto(t, "wr_cancel")
     \/ /\ pc[t] = "wr_woken"
        /\ \E w \in At({"wr_wait"}) :
             pc' = [pc EXCEPT ![t] = "wr_cancel", ![w] = "wr_woken"]
  /\ UNCHANGED <<rw_mutex, rw_magic, counters, held, rounds, cancelreq, destroyed>>

\* Mutant: a handler that only unlocks the mutex.
RdCancelHandlerUnlockOnly(t) ==
  /\ pc[t] = "rd_cancel"
  /\ rw_mutex = NoThread
  /\ Goto(t, "cancelled")
  /\ UNCHANGED <<rw_mutex, rw_magic, counters, held, rounds, cancelreq, destroyed>>

\* rwlock_cancelrdwait, which runs with the mutex held again and unlocks it.
RdCancelHandler(t) ==
  /\ pc[t] = "rd_cancel"
  /\ rw_mutex = NoThread
  /\ rw_nwaitreaders' = rw_nwaitreaders - 1
  /\ Goto(t, "cancelled")
  /\ UNCHANGED <<rw_mutex, rw_magic, rw_nwaitwriters, rw_refcount, held,
                 rounds, cancelreq, destroyed>>

\* Mutant: the count is decremented both by the handler and on the way there.
WrCancelHandlerTwice(t) ==
  /\ pc[t] = "wr_cancel"
  /\ rw_mutex = NoThread
  /\ rw_nwaitwriters' = rw_nwaitwriters - 2
  /\ Goto(t, "cancelled")
  /\ UNCHANGED <<rw_mutex, rw_magic, rw_nwaitreaders, rw_refcount, held,
                 rounds, cancelreq, destroyed>>

\* rwlock_cancelwrwait.
WrCancelHandler(t) ==
  /\ pc[t] = "wr_cancel"
  /\ rw_mutex = NoThread
  /\ rw_nwaitwriters' = rw_nwaitwriters - 1
  /\ Goto(t, "cancelled")
  /\ UNCHANGED <<rw_mutex, rw_magic, rw_nwaitreaders, rw_refcount, held,
                 rounds, cancelreq, destroyed>>

\* The printf and sleep calls of the thread functions are cancellation points
\* too; a thread cancelled there keeps the lock it holds.
CallerCancelled(t) ==
  /\ t \in cancelreq
  /\ pc[t] \in {"idle", "holds"}
  /\ Goto(t, "cancelled")
  /\ UNCHANGED <<rw_mutex, rw_magic, counters, held, rounds, cancelreq, destroyed>>

\* pthread_cond_wait may return although nobody signalled.
SpuriousWakeup(t) ==
  /\ pc[t] \in {"rd_wait", "wr_wait"}
  /\ Goto(t, WokenState(pc[t]))
  /\ UNCHANGED <<rw_mutex, rw_magic, counters, held, rounds, cancelreq, destroyed>>

-----------------------------------------------------------------------------
(* pthread_rwlock_destroy, called by main after it has joined every thread  *)

\* Mutant: the busy test forgets the holders.
DestroyWithHolders ==
  /\ At(EndStates) = Threads
  /\ destroyed = "no"
  /\ rw_magic
  /\ IF rw_nwaitreaders # 0 \/ rw_nwaitwriters # 0
     THEN destroyed' = "EBUSY" /\ UNCHANGED rw_magic
     ELSE destroyed' = "ok" /\ rw_magic' = FALSE
  /\ UNCHANGED <<rw_mutex, counters, pc, held, rounds, cancelreq>>

Destroy ==
  /\ At(EndStates) = Threads
  /\ destroyed = "no"
  /\ rw_magic
  /\ IF rw_refcount # 0 \/ rw_nwaitreaders # 0 \/ rw_nwaitwriters # 0
     THEN destroyed' = "EBUSY" /\ UNCHANGED rw_magic
     ELSE destroyed' = "ok" /\ rw_magic' = FALSE
  /\ UNCHANGED <<rw_mutex, counters, pc, held, rounds, cancelreq>>

Terminated == destroyed # "no" /\ UNCHANGED vars

Program(t) ==
  \/ LockCall(t) \/ UnlockCall(t) \/ ThreadReturns(t)
  \/ RdLoop(t) \/ WrLoop(t) \/ LockReturn(t)
  \/ Unlock(t) \/ UnlockReturn(t)
  \/ RdCancelHandler(t) \/ WrCancelHandler(t)

Environment(t) ==
  \/ RequestCancel(t) \/ RdCancelPoint(t) \/ WrCancelPoint(t)
  \/ CallerCancelled(t) \/ SpuriousWakeup(t)

Next ==
  \/ \E t \in Threads : Program(t) \/ Environment(t)
  \/ Destroy
  \/ Terminated

Spec == Init /\ [][Next]_vars

\* The scheduler runs every thread that can run; nobody has to cancel a
\* thread or to wake it for no reason.
FairSpec == Spec /\ (\A t \in Threads : WF_vars(Program(t))) /\ WF_vars(Destroy)

-----------------------------------------------------------------------------
(* Properties                                                               *)

TypeOK ==
  /\ rw_mutex \in Threads \cup {NoThread}
  /\ rw_magic \in BOOLEAN
  /\ rw_nwaitreaders \in Nat
  /\ rw_nwaitwriters \in Nat
  /\ rw_refcount \in Nat \cup {-1}
  /\ pc \in [Threads -> States]
  /\ held \in [Threads -> {"no", "rd", "wr"}]
  /\ rounds \in [Threads -> 0..Rounds]
  /\ cancelreq \subseteq Cancellable
  /\ destroyed \in {"no", "ok", "EBUSY"}

\* The lock's purpose, and the header's promise about rw_refcount: a writer
\* excludes every other holder, and the count is -1 exactly while a writer
\* has the lock and the number of readers otherwise, whoever was cancelled.
Exclusion ==
  \/ /\ HeldAs("wr") = {}
     /\ rw_refcount = Cardinality(HeldAs("rd"))
  \/ /\ \E w \in Threads : HeldAs("wr") = {w}
     /\ HeldAs("rd") = {}
     /\ rw_refcount = -1

\* No unlock that is paired with a lock reaches err_dump (unlock.cpp line 21).
UnlockIsOfAHeldLock ==
  \A t \in Threads : pc[t] = "un_call" => rw_refcount > 0 \/ rw_refcount = -1

\* The two wait counts stay exact through spurious wakeups, repeated waits
\* and cancellation: each counts the threads inside pthread_cond_wait, the
\* cancelled ones until their cleanup handler has run.
WaitCountsExact ==
  /\ rw_nwaitreaders = Cardinality(WaitingReaders)
  /\ rw_nwaitwriters = Cardinality(WaitingWriters)

\* A writer never sleeps on a free lock with nobody on the way to take it:
\* the one signal unlock sends is not lost, not even to a cancelled writer.
NoStrandedWriter ==
  At({"wr_wait"}) # {} /\ rw_refcount = 0 => At({"wr_woken"}) # {}

\* Until a thread has been cancelled, a reader sleeps only while a writer holds
\* the lock or waits for it; the promise of the comment "give preference to
\* waiting writers".
NobodyCancelled == At({"wr_cancel", "cancelled"}) = {}
ReaderSleepsForAWriter ==
  NobodyCancelled /\ At({"rd_wait"}) # {} => rw_refcount < 0 \/ rw_nwaitwriters > 0

\* A reader never sleeps on a lock nobody holds and no writer waits for.
NoStrandedReader ==
  At({"rd_wait"}) # {} => rw_refcount # 0 \/ rw_nwaitwriters > 0

\* destroy succeeds exactly when no thread was cancelled with the lock held,
\* and no lock function is running then.
DestroyOutcome ==
  destroyed # "no" =>
    /\ (destroyed = "ok") = (\A t \in Threads : held[t] = "no")
    /\ rw_mutex = NoThread

\* Every call returns and the lock is destroyed, when nobody is cancelled:
\* no wakeup is lost and no schedule deadlocks.
AllCallsReturn ==
  [](cancelreq = {}) => <>(At({"exited"}) = Threads /\ destroyed = "ok")

\* The lock implements the abstract writer-preferring lock.
Abs == INSTANCE AbstractRWLock WITH
         readers <- HeldAs("rd"), writers <- HeldAs("wr"), waiting <- WaitingWriters
ImplementsAbstractLock == Abs!AbsSpec
=============================================================================
