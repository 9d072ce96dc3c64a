---------------------------- MODULE RWLock_proofs ----------------------------
(***************************************************************************)
(* Proofs about the read-write lock for any finite set of threads, any     *)
(* number of rounds and any set of cancellable threads.                    *)
(***************************************************************************)
EXTENDS RWLock, FiniteSetTheorems, TLAPS

\* The types alone, without the signs of the counters, which only follow
\* from their exactness.
Types ==
  /\ rw_mutex \in Threads \cup {NoThread}
  /\ rw_magic \in BOOLEAN
  /\ rw_nwaitreaders \in Int
  /\ rw_nwaitwriters \in Int
  /\ rw_refcount \in Int
  /\ pc \in [Threads -> States]
  /\ held \in [Threads -> {"no", "rd", "wr"}]
  /\ rounds \in [Threads -> 0..Rounds]
  /\ cancelreq \subseteq Cancellable
  /\ destroyed \in {"no", "ok", "EBUSY"}

\* Where in its code a thread owns a lock: from the grant to the unlock, or
\* for ever if it was cancelled in between.
HeldWhere ==
  \A t \in Threads :
    /\ held[t] # "no" =>
         pc[t] \in {"rd_ret", "wr_ret", "holds", "un_call", "cancelled"}
    /\ pc[t] \in {"rd_ret", "wr_ret", "holds", "un_call"} => held[t] # "no"

\* The owner of the mutex is about to unlock it.
MutexOwner == \A t \in Threads : rw_mutex = t => pc[t] \in {"rd_ret", "wr_ret", "un_ret"}

\* Once destroy was called every thread has ended and nothing changes.
DestroyedLast ==
  destroyed # "no" =>
    /\ At(EndStates) = Threads
    /\ (destroyed = "ok") = (rw_refcount = 0)

IInv ==
  /\ Types
  /\ HeldWhere
  /\ MutexOwner
  /\ WaitCountsExact
  /\ Exclusion
  /\ NoStrandedWriter
  /\ DestroyedLast

USE RWAssumption

-----------------------------------------------------------------------------
(* Counting threads                                                         *)

\* Every set of threads is finite, and empty exactly when its size is 0.
LEMMA ThreadSets ==
  ASSUME NEW S \in SUBSET Threads
  PROVE  /\ IsFiniteSet(S)
         /\ Cardinality(S) \in Nat
         /\ Cardinality(S) = 0 <=> S = {}
BY FS_Subset, FS_CardinalityType, FS_EmptySet DEF RWAssumption

\* A thread enters a counted set.
LEMMA CountUp ==
  ASSUME NEW S \in SUBSET Threads, NEW t \in Threads, t \notin S
  PROVE  Cardinality(S \cup {t}) = Cardinality(S) + 1
BY ThreadSets, FS_AddElement

\* A thread leaves a counted set.
LEMMA CountDown ==
  ASSUME NEW S \in SUBSET Threads, NEW t \in S
  PROVE  Cardinality(S \ {t}) = Cardinality(S) - 1
BY ThreadSets, FS_RemoveElement

\* The sets the invariant counts are sets of threads.
LEMMA SetsOfThreads ==
  /\ WaitingReaders \in SUBSET Threads
  /\ WaitingWriters \in SUBSET Threads
  /\ \A mode : HeldAs(mode) \in SUBSET Threads
BY DEF WaitingReaders, WaitingWriters, HeldAs, At

\* In any state of the invariant the counters are in range, so the
\* published type invariant holds.
LEMMA TypesAreTypeOK == ASSUME IInv PROVE TypeOK
<1>1. rw_nwaitreaders \in Nat /\ rw_nwaitwriters \in Nat
  BY SetsOfThreads, ThreadSets DEF IInv, WaitCountsExact
<1>2. rw_refcount \in Nat \cup {-1}
  BY SetsOfThreads, ThreadSets DEF IInv, Exclusion
<1> QED BY <1>1, <1>2 DEF IInv, Types, TypeOK

-----------------------------------------------------------------------------
(* The invariant is inductive                                               *)

\* The statically initialized lock satisfies the invariant.
LEMMA InitIInv == Init => IInv
<1> SUFFICES ASSUME Init PROVE IInv OBVIOUS
<1>1. Types BY DEF Init, Types, States, RWAssumption
<1>2. /\ WaitingReaders = {} /\ WaitingWriters = {}
      /\ HeldAs("rd") = {} /\ HeldAs("wr") = {} /\ At({"wr_wait"}) = {}
  BY DEF Init, WaitingReaders, WaitingWriters, HeldAs, At
<1>3. WaitCountsExact /\ Exclusion /\ NoStrandedWriter
  BY <1>2, FS_EmptySet DEF Init, WaitCountsExact, Exclusion, NoStrandedWriter
<1>4. HeldWhere /\ MutexOwner /\ DestroyedLast
  BY DEF Init, HeldWhere, MutexOwner, DestroyedLast, RWAssumption
<1> QED BY <1>1, <1>3, <1>4 DEF IInv

\* Steps that leave the counters and the grants alone keep the waiting sets.
LEMMA CountersUntouched ==
  ASSUME IInv, UNCHANGED <<counters, held>>,
         WaitingReaders' = WaitingReaders, WaitingWriters' = WaitingWriters
  PROVE  WaitCountsExact' /\ Exclusion'
BY DEF IInv, counters, WaitCountsExact, Exclusion, HeldAs

\* The caller's steps: calling, returning to the caller, ending.
LEMMA CallerSteps ==
  ASSUME IInv, NEW t \in Threads,
         LockCall(t) \/ UnlockCall(t) \/ ThreadReturns(t) \/ LockReturn(t)
           \/ UnlockReturn(t) \/ CallerCancelled(t)
  PROVE  IInv'
<1> USE DEF LockCall, UnlockCall, ThreadReturns, LockReturn, UnlockReturn,
            CallerCancelled, Goto, counters
<1>1. Types' BY DEF IInv, Types, States, RdStates, WrStates, UnStates, EndStates
<1>2. WaitingReaders' = WaitingReaders /\ WaitingWriters' = WaitingWriters
  BY DEF IInv, Types, WaitingReaders, WaitingWriters, At
<1>3. WaitCountsExact' /\ Exclusion'
  BY <1>2, CountersUntouched
<1>4. HeldWhere' BY DEF IInv, Types, HeldWhere
<1>5. MutexOwner' BY DEF IInv, Types, MutexOwner, RWAssumption
<1>6. NoStrandedWriter' BY DEF IInv, Types, NoStrandedWriter, At
<1>7. DestroyedLast' BY DEF IInv, Types, DestroyedLast, At, EndStates
<1> QED BY <1>1, <1>3, <1>4, <1>5, <1>6, <1>7 DEF IInv

\* Cancellation requests and wakeups nobody asked for.
LEMMA WakingSteps ==
  ASSUME IInv, NEW t \in Threads,
         RequestCancel(t) \/ RdCancelPoint(t) \/ WrCancelPoint(t) \/ SpuriousWakeup(t)
  PROVE  IInv'
<1> USE DEF RequestCancel, RdCancelPoint, WrCancelPoint, SpuriousWakeup, Goto,
            WokenState, counters
<1>1. Types' BY DEF IInv, Types, States, RdStates, WrStates, UnStates, EndStates, At
<1>2. WaitingReaders' = WaitingReaders /\ WaitingWriters' = WaitingWriters
  BY DEF IInv, Types, WaitingReaders, WaitingWriters, At
<1>3. WaitCountsExact' /\ Exclusion'
  BY <1>2, CountersUntouched
<1>4. HeldWhere' BY DEF IInv, Types, HeldWhere, At
<1>5. MutexOwner' BY DEF IInv, Types, MutexOwner, At
<1>6. NoStrandedWriter' BY DEF IInv, Types, NoStrandedWriter, At
<1>7. DestroyedLast' BY DEF IInv, Types, DestroyedLast, At, EndStates
<1> QED BY <1>1, <1>3, <1>4, <1>5, <1>6, <1>7 DEF IInv

\* The counts without one thread, whether it was counted or not.
LEMMA CountsWithout ==
  ASSUME IInv, NEW t \in Threads
  PROVE  /\ rw_nwaitreaders \in Nat /\ rw_nwaitwriters \in Nat
         /\ t \in WaitingReaders =>
              Cardinality(WaitingReaders \ {t}) = rw_nwaitreaders - 1
         /\ t \notin WaitingReaders =>
              Cardinality(WaitingReaders \ {t}) = rw_nwaitreaders
         /\ t \in WaitingWriters =>
              Cardinality(WaitingWriters \ {t}) = rw_nwaitwriters - 1
         /\ t \notin WaitingWriters =>
              Cardinality(WaitingWriters \ {t}) = rw_nwaitwriters
<1>1. /\ rw_nwaitreaders = Cardinality(WaitingReaders)
      /\ rw_nwaitwriters = Cardinality(WaitingWriters)
  BY DEF IInv, WaitCountsExact
<1>2. ASSUME NEW S \in SUBSET Threads, t \notin S PROVE S \ {t} = S
  BY <1>2
<1>3. rw_nwaitreaders \in Nat /\ rw_nwaitwriters \in Nat
  BY <1>1, SetsOfThreads, ThreadSets
<1> QED BY <1>1, <1>2, <1>3, SetsOfThreads, CountDown

\* A reader at the loop test: it waits, again or for the first time, or it
\* is granted the lock.
LEMMA RdLoopStep == ASSUME IInv, NEW t \in Threads, RdLoop(t) PROVE IInv'
<1> USE DEF RdLoop, Goto
<1> DEFINE waiters == rw_nwaitreaders - (IF pc[t] = "rd_woken" THEN 1 ELSE 0)
           others == WaitingReaders \ {t}
<1>1. Types'
  BY DEF IInv, Types, States, RdStates, WrStates, UnStates, EndStates, RWAssumption
<1>2. waiters \in Int /\ waiters = Cardinality(others)
  <2> HIDE DEF RdLoop
  <2>1. rw_nwaitreaders \in Nat BY CountsWithout
  <2>2. CASE pc[t] = "rd_woken"
    <3>1. t \in WaitingReaders BY <2>2 DEF WaitingReaders, At
    <3>2. waiters = rw_nwaitreaders - 1 BY <2>2
    <3> HIDE DEF waiters
    <3>3. Cardinality(WaitingReaders \ {t}) = rw_nwaitreaders - 1
      BY <3>1, CountsWithout
    <3> QED BY <2>1, <3>2, <3>3
  <2>3. CASE pc[t] = "rd_call"
    <3>1. t \notin WaitingReaders BY <2>3 DEF WaitingReaders, At
    <3>2. waiters = rw_nwaitreaders BY <2>1, <2>3
    <3> HIDE DEF waiters
    <3>3. Cardinality(WaitingReaders \ {t}) = rw_nwaitreaders
      BY <3>1, CountsWithout
    <3> QED BY <2>1, <3>2, <3>3
  <2> QED BY <2>2, <2>3 DEF RdLoop
<1>3. WaitingWriters' = WaitingWriters
  BY DEF IInv, Types, WaitingWriters, At
<1>4. WaitCountsExact'
  <2>1. CASE RdMustWait
    <3>1. WaitingReaders' = others \cup {t}
      BY <2>1 DEF IInv, Types, WaitingReaders, At
    <3>2. others \in SUBSET Threads /\ t \notin others BY SetsOfThreads
    <3>3. Cardinality(WaitingReaders') = waiters + 1
      BY <1>2, <3>1, <3>2, CountUp
    <3> QED BY <2>1, <1>3, <3>3 DEF IInv, WaitCountsExact
  <2>2. CASE ~RdMustWait
    <3>1. WaitingReaders' = others
      BY <2>2 DEF IInv, Types, WaitingReaders, At
    <3> QED BY <2>2, <1>2, <1>3, <3>1 DEF IInv, WaitCountsExact
  <2> QED BY <2>1, <2>2
<1>5. Exclusion'
  <2>1. CASE RdMustWait BY <2>1 DEF IInv, Exclusion, HeldAs
  <2>2. CASE ~RdMustWait
    <3>1. rw_refcount \in Int /\ rw_refcount >= 0
      BY <2>2 DEF IInv, Types, RdMustWait
    <3>2. HeldAs("wr") = {} /\ rw_refcount = Cardinality(HeldAs("rd"))
      BY <3>1 DEF IInv, Exclusion
    <3>3. held[t] = "no" BY DEF IInv, HeldWhere, Types
    <3>4. HeldAs("wr")' = {} BY <2>2, <3>2 DEF IInv, Types, HeldAs
    <3>5. HeldAs("rd")' = HeldAs("rd") \cup {t} /\ t \notin HeldAs("rd")
      BY <2>2, <3>3 DEF IInv, Types, HeldAs
    <3>6. Cardinality(HeldAs("rd")') = rw_refcount + 1
      BY <3>2, <3>5, CountUp, SetsOfThreads
    <3> QED BY <2>2, <3>4, <3>6 DEF Exclusion
  <2> QED BY <2>1, <2>2
<1>6. HeldWhere' BY DEF IInv, Types, HeldWhere
<1>7. MutexOwner' BY DEF IInv, Types, MutexOwner, RWAssumption
<1>8. NoStrandedWriter'
  BY DEF IInv, Types, NoStrandedWriter, At, RdMustWait
<1>9. DestroyedLast' BY DEF IInv, DestroyedLast, At, EndStates
<1> QED BY <1>1, <1>4, <1>5, <1>6, <1>7, <1>8, <1>9 DEF IInv

\* A writer at the loop test.
LEMMA WrLoopStep == ASSUME IInv, NEW t \in Threads, WrLoop(t) PROVE IInv'
<1> USE DEF WrLoop, Goto
<1> DEFINE waiters == rw_nwaitwriters - (IF pc[t] = "wr_woken" THEN 1 ELSE 0)
           others == WaitingWriters \ {t}
<1>1. Types'
  BY DEF IInv, Types, States, RdStates, WrStates, UnStates, EndStates, RWAssumption
<1>2. waiters \in Int /\ waiters = Cardinality(others)
  <2> HIDE DEF WrLoop
  <2>1. rw_nwaitwriters \in Nat BY CountsWithout
  <2>2. CASE pc[t] = "wr_woken"
    <3>1. t \in WaitingWriters BY <2>2 DEF WaitingWriters, At
    <3>2. waiters = rw_nwaitwriters - 1 BY <2>2
    <3> HIDE DEF waiters
    <3>3. Cardinality(WaitingWriters \ {t}) = rw_nwaitwriters - 1
      BY <3>1, CountsWithout
    <3> QED BY <2>1, <3>2, <3>3
  <2>3. CASE pc[t] = "wr_call"
    <3>1. t \notin WaitingWriters BY <2>3 DEF WaitingWriters, At
    <3>2. waiters = rw_nwaitwriters BY <2>1, <2>3
    <3> HIDE DEF waiters
    <3>3. Cardinality(WaitingWriters \ {t}) = rw_nwaitwriters
      BY <3>1, CountsWithout
    <3> QED BY <2>1, <3>2, <3>3
  <2> QED BY <2>2, <2>3 DEF WrLoop
<1>3. WaitingReaders' = WaitingReaders
  BY DEF IInv, Types, WaitingReaders, At
<1>4. WaitCountsExact'
  <2>1. CASE WrMustWait
    <3>1. WaitingWriters' = others \cup {t}
      BY <2>1 DEF IInv, Types, WaitingWriters, At
    <3>2. others \in SUBSET Threads /\ t \notin others BY SetsOfThreads
    <3>3. Cardinality(WaitingWriters') = waiters + 1
      BY <1>2, <3>1, <3>2, CountUp
    <3> QED BY <2>1, <1>3, <3>3 DEF IInv, WaitCountsExact
  <2>2. CASE ~WrMustWait
    <3>1. WaitingWriters' = others
      BY <2>2 DEF IInv, Types, WaitingWriters, At
    <3> QED BY <2>2, <1>2, <1>3, <3>1 DEF IInv, WaitCountsExact
  <2> QED BY <2>1, <2>2
<1>5. Exclusion'
  <2>1. CASE WrMustWait BY <2>1 DEF IInv, Exclusion, HeldAs
  <2>2. CASE ~WrMustWait
    <3>1. HeldAs("wr") = {} /\ Cardinality(HeldAs("rd")) = 0
      BY <2>2 DEF IInv, Exclusion, WrMustWait
    <3>2. HeldAs("rd") = {} BY <3>1, SetsOfThreads, ThreadSets
    <3>3. HeldAs("wr")' = {t} /\ HeldAs("rd")' = {}
      BY <2>2, <3>1, <3>2 DEF IInv, Types, HeldAs
    <3> QED BY <2>2, <3>3 DEF Exclusion
  <2> QED BY <2>1, <2>2
<1>6. HeldWhere' BY DEF IInv, Types, HeldWhere
<1>7. MutexOwner' BY DEF IInv, Types, MutexOwner, RWAssumption
<1>8. NoStrandedWriter' BY DEF IInv, Types, NoStrandedWriter, WrMustWait
<1>9. DestroyedLast' BY DEF IInv, DestroyedLast, At, EndStates
<1> QED BY <1>1, <1>4, <1>5, <1>6, <1>7, <1>8, <1>9 DEF IInv

\* A thread that owns a lock is what the counter says it is: a reader with a
\* positive count, or the only writer with a count of -1.
LEMMA OwnerAndCount ==
  ASSUME IInv, NEW t \in Threads, held[t] # "no"
  PROVE  \/ /\ held[t] = "rd" /\ rw_refcount \in Nat \ {0}
            /\ HeldAs("wr") = {} /\ rw_refcount = Cardinality(HeldAs("rd"))
         \/ /\ held[t] = "wr" /\ rw_refcount = -1
            /\ HeldAs("wr") = {t} /\ HeldAs("rd") = {}
<1>1. CASE held[t] = "rd"
  <2>1. t \in HeldAs("rd") BY <1>1 DEF HeldAs
  <2>2. HeldAs("wr") = {} /\ rw_refcount = Cardinality(HeldAs("rd"))
    BY <2>1 DEF IInv, Exclusion
  <2>3. rw_refcount \in Nat \ {0}
    BY <2>1, <2>2, SetsOfThreads, ThreadSets
  <2> QED BY <1>1, <2>2, <2>3
<1>2. CASE held[t] = "wr"
  <2>1. t \in HeldAs("wr") BY <1>2 DEF HeldAs
  <2> QED BY <1>2, <2>1 DEF IInv, Exclusion
<1> QED BY <1>1, <1>2 DEF IInv, Types

\* unlock: the lock is given back, and the right threads are woken.
LEMMA UnlockStep == ASSUME IInv, NEW t \in Threads, Unlock(t) PROVE IInv'
<1> USE DEF Unlock
<1>1. PICK woken \in Wakes(RefcountAfterUnlock) :
        pc' = [u \in Threads |-> CASE u = t -> "un_ret"
                                   [] u # t /\ u \in woken -> WokenState(pc[u])
                                   [] OTHER -> pc[u]]
  OBVIOUS
<1>2. woken \in SUBSET At({"wr_wait"}) \/ woken \in SUBSET At({"rd_wait"})
  BY DEF Wakes
<1>3. /\ \A u \in woken : u \in Threads /\ u # t
      /\ pc' \in [Threads -> States] /\ pc'[t] = "un_ret"
      /\ \A u \in Threads \ {t} : u \notin woken => pc'[u] = pc[u]
      /\ \A u \in woken : \/ pc[u] = "rd_wait" /\ pc'[u] = "rd_woken"
                          \/ pc[u] = "wr_wait" /\ pc'[u] = "wr_woken"
  BY <1>1, <1>2 DEF IInv, Types, At, WokenState, States, RdStates, WrStates,
     UnStates, EndStates
<1>4. held[t] # "no" BY DEF IInv, HeldWhere
<1>5. rw_refcount' \in Nat /\ Types'
  <2>1. rw_refcount' \in Nat
    BY <1>4, OwnerAndCount DEF RefcountAfterUnlock
  <2> QED BY <1>3, <2>1 DEF IInv, Types, RWAssumption
<1>6. WaitingReaders' = WaitingReaders /\ WaitingWriters' = WaitingWriters
  BY <1>3 DEF IInv, Types, WaitingReaders, WaitingWriters, At
<1>7. WaitCountsExact' BY <1>6 DEF IInv, WaitCountsExact
<1>8. Exclusion'
  <2>1. HeldAs("wr")' = HeldAs("wr") \ {t} /\ HeldAs("rd")' = HeldAs("rd") \ {t}
    BY DEF IInv, Types, HeldAs
  <2>2. CASE held[t] = "rd"
    <3>1. t \in HeldAs("rd") BY <2>2 DEF HeldAs
    <3>2. Cardinality(HeldAs("rd")') = Cardinality(HeldAs("rd")) - 1
      BY <2>1, <3>1, SetsOfThreads, CountDown
    <3>3. /\ rw_refcount \in Nat \ {0} /\ HeldAs("wr") = {}
          /\ rw_refcount = Cardinality(HeldAs("rd"))
      BY <1>4, <2>2, OwnerAndCount
    <3>4. rw_refcount' = Cardinality(HeldAs("rd")')
      BY <3>2, <3>3 DEF RefcountAfterUnlock
    <3> QED BY <2>1, <3>3, <3>4 DEF Exclusion
  <2>3. CASE held[t] = "wr"
    <3>1. HeldAs("wr")' = {} /\ HeldAs("rd")' = {}
      BY <1>4, <2>1, <2>3, OwnerAndCount
    <3>2. rw_refcount' = 0
      BY <1>4, <2>3, OwnerAndCount DEF RefcountAfterUnlock
    <3> QED BY <3>1, <3>2, FS_EmptySet DEF Exclusion
  <2> QED BY <1>4, <2>2, <2>3, OwnerAndCount
<1>9. HeldWhere' BY <1>3 DEF IInv, Types, HeldWhere
<1>10. MutexOwner' BY <1>3 DEF IInv, Types, MutexOwner, RWAssumption
<1>11. NoStrandedWriter'
  <2> SUFFICES ASSUME At({"wr_wait"})' # {}, rw_refcount' = 0
               PROVE  At({"wr_woken"})' # {}
    BY DEF NoStrandedWriter
  <2>1. PICK w \in Threads : pc'[w] = "wr_wait" BY DEF At
  <2>2. pc[w] = "wr_wait" BY <1>3, <2>1
  <2>3. rw_nwaitwriters > 0
    <3>1. w \in WaitingWriters BY <2>2 DEF WaitingWriters, At
    <3> QED BY <3>1, SetsOfThreads, ThreadSets DEF IInv, WaitCountsExact
  <2>4. PICK x \in At({"wr_wait"}) : woken = {x}
    BY <2>2, <2>3 DEF Wakes, At
  <2>5. pc'[x] = "wr_woken" /\ x \in Threads BY <1>3, <2>4 DEF At
  <2> QED BY <2>5 DEF At
<1>12. DestroyedLast' BY DEF IInv, DestroyedLast, At, EndStates
<1> QED BY <1>5, <1>7, <1>8, <1>9, <1>10, <1>11, <1>12 DEF IInv

\* The cleanup handler of a reader cancelled in pthread_cond_wait.
LEMMA RdCancelHandlerStep ==
  ASSUME IInv, NEW t \in Threads, RdCancelHandler(t) PROVE IInv'
<1> USE DEF RdCancelHandler, Goto
<1>1. Types' BY DEF IInv, Types, States, RdStates, WrStates, UnStates, EndStates
<1>2. WaitingReaders' = WaitingReaders \ {t} /\ WaitingWriters' = WaitingWriters
  BY DEF IInv, Types, WaitingReaders, WaitingWriters, At
<1>3. t \in WaitingReaders BY DEF WaitingReaders, At
<1>4. WaitCountsExact'
  BY <1>2, <1>3, CountsWithout DEF IInv, WaitCountsExact
<1>5. Exclusion' BY DEF IInv, Exclusion, HeldAs
<1>6. HeldWhere' /\ MutexOwner' BY DEF IInv, Types, HeldWhere, MutexOwner
<1>7. NoStrandedWriter' BY DEF IInv, Types, NoStrandedWriter, At
<1>8. DestroyedLast' BY DEF IInv, DestroyedLast, At, EndStates
<1> QED BY <1>1, <1>4, <1>5, <1>6, <1>7, <1>8 DEF IInv

\* The cleanup handler of a writer.
LEMMA WrCancelHandlerStep ==
  ASSUME IInv, NEW t \in Threads, WrCancelHandler(t) PROVE IInv'
<1> USE DEF WrCancelHandler, Goto
<1>1. Types' BY DEF IInv, Types, States, RdStates, WrStates, UnStates, EndStates
<1>2. WaitingReaders' = WaitingReaders /\ WaitingWriters' = WaitingWriters \ {t}
  BY DEF IInv, Types, WaitingReaders, WaitingWriters, At
<1>3. t \in WaitingWriters BY DEF WaitingWriters, At
<1>4. WaitCountsExact'
  BY <1>2, <1>3, CountsWithout DEF IInv, WaitCountsExact
<1>5. Exclusion' BY DEF IInv, Exclusion, HeldAs
<1>6. HeldWhere' /\ MutexOwner' BY DEF IInv, Types, HeldWhere, MutexOwner
<1>7. NoStrandedWriter' BY DEF IInv, Types, NoStrandedWriter, At
<1>8. DestroyedLast' BY DEF IInv, DestroyedLast, At, EndStates
<1> QED BY <1>1, <1>4, <1>5, <1>6, <1>7, <1>8 DEF IInv

\* destroy runs after every thread has ended, so nobody waits any more.
LEMMA DestroyStep == ASSUME IInv, Destroy PROVE IInv'
<1> USE DEF Destroy, counters
<1>1. Types' BY DEF IInv, Types
<1>2. WaitingReaders' = WaitingReaders /\ WaitingWriters' = WaitingWriters
  BY DEF WaitingReaders, WaitingWriters, At
<1>3. WaitCountsExact' /\ Exclusion' BY <1>2, CountersUntouched
<1>4. HeldWhere' /\ MutexOwner' BY DEF IInv, HeldWhere, MutexOwner
<1>5. NoStrandedWriter' BY DEF IInv, NoStrandedWriter, At
<1>6. WaitingReaders = {} /\ WaitingWriters = {}
  BY DEF WaitingReaders, WaitingWriters, At, EndStates
<1>7. rw_nwaitreaders = 0 /\ rw_nwaitwriters = 0
  BY <1>6, FS_EmptySet DEF IInv, WaitCountsExact
<1>8. DestroyedLast' BY <1>7 DEF DestroyedLast, At
<1> QED BY <1>1, <1>3, <1>4, <1>5, <1>8 DEF IInv

\* A step that changes nothing preserves the invariant.
LEMMA StutterStep == ASSUME IInv, UNCHANGED vars PROVE IInv'
<1> USE DEF vars, counters
<1>1. WaitingReaders' = WaitingReaders /\ WaitingWriters' = WaitingWriters
  BY DEF WaitingReaders, WaitingWriters, At
<1>2. WaitCountsExact' /\ Exclusion' BY <1>1, CountersUntouched
<1>3. Types' /\ HeldWhere' /\ MutexOwner' /\ NoStrandedWriter' /\ DestroyedLast'
  BY DEF IInv, Types, HeldWhere, MutexOwner, NoStrandedWriter, DestroyedLast, At
<1> QED BY <1>2, <1>3 DEF IInv

\* Every step preserves the invariant: one lemma per kind of step.
LEMMA NextIInv == IInv /\ [Next]_vars => IInv'
<1> SUFFICES ASSUME IInv, [Next]_vars PROVE IInv' OBVIOUS
<1>1. ASSUME NEW t \in Threads, Program(t) PROVE IInv'
  BY <1>1, CallerSteps, RdLoopStep, WrLoopStep, UnlockStep, RdCancelHandlerStep,
     WrCancelHandlerStep DEF Program
<1>2. ASSUME NEW t \in Threads, Environment(t) PROVE IInv'
  BY <1>2, CallerSteps, WakingSteps DEF Environment
<1>3. CASE Destroy BY <1>3, DestroyStep
<1>4. CASE Terminated \/ UNCHANGED vars BY <1>4, StutterStep DEF Terminated
<1> QED BY <1>1, <1>2, <1>3, <1>4 DEF Next

\* The invariant holds in every reachable state.
LEMMA SpecIInv == Spec => []IInv
BY InitIInv, NextIInv, PTL DEF Spec

-----------------------------------------------------------------------------
(* Theorems                                                                 *)

\* Type correctness: in particular no wait count ever goes negative, and
\* rw_refcount is never below -1.
THEOREM TypeCorrect == Spec => []TypeOK
BY SpecIInv, TypesAreTypeOK, PTL

\* A writer excludes all other holders and rw_refcount tells the truth about
\* the holders, whoever is cancelled and wherever.
THEOREM LockExcludes == Spec => []Exclusion
<1>1. IInv => Exclusion BY DEF IInv
<1> QED BY <1>1, SpecIInv, PTL

\* rw_nwaitreaders and rw_nwaitwriters count exactly the waiting threads: the
\* cleanup handlers balance every increment that cancellation interrupts.
THEOREM CountsAreExact == Spec => []WaitCountsExact
<1>1. IInv => WaitCountsExact BY DEF IInv
<1> QED BY <1>1, SpecIInv, PTL

\* The err_dump of pthread_rwlock_unlock is unreachable for paired calls.
THEOREM UnlockNeverDumps == Spec => []UnlockIsOfAHeldLock
<1>1. ASSUME IInv PROVE UnlockIsOfAHeldLock
  <2> SUFFICES ASSUME NEW t \in Threads, pc[t] = "un_call"
               PROVE  rw_refcount > 0 \/ rw_refcount = -1
    BY DEF UnlockIsOfAHeldLock
  <2>1. held[t] # "no" BY <1>1 DEF IInv, HeldWhere
  <2> QED BY <1>1, <2>1, OwnerAndCount
<1> QED BY <1>1, SpecIInv, PTL

\* The one signal unlock sends to the writers is never lost.
THEOREM WriterIsNotStranded == Spec => []NoStrandedWriter
<1>1. IInv => NoStrandedWriter BY DEF IInv
<1> QED BY <1>1, SpecIInv, PTL

\* destroy fails exactly when a lock was leaked by a cancelled thread, and no
\* thread is inside a lock function when it runs.
THEOREM DestroyFindsLeaks == Spec => []DestroyOutcome
<1>1. ASSUME IInv PROVE DestroyOutcome
  <2> SUFFICES ASSUME destroyed # "no"
               PROVE  /\ (destroyed = "ok") = (\A t \in Threads : held[t] = "no")
                      /\ rw_mutex = NoThread
    BY DEF DestroyOutcome
  <2>1. (destroyed = "ok") = (rw_refcount = 0) BY <1>1 DEF IInv, DestroyedLast
  <2>2. (rw_refcount = 0) = (\A t \in Threads : held[t] = "no")
    <3>1. ASSUME rw_refcount = 0 PROVE \A t \in Threads : held[t] = "no"
      BY <1>1, <3>1, OwnerAndCount
    <3>2. ASSUME \A t \in Threads : held[t] = "no" PROVE rw_refcount = 0
      <4>1. HeldAs("rd") = {} /\ HeldAs("wr") = {} BY <3>2 DEF HeldAs
      <4> QED BY <1>1, <4>1, FS_EmptySet DEF IInv, Exclusion
    <3> QED BY <3>1, <3>2
  <2>3. rw_mutex = NoThread
    BY <1>1 DEF IInv, Types, MutexOwner, DestroyedLast, At, EndStates
  <2> QED BY <2>1, <2>2, <2>3
<1> QED BY <1>1, SpecIInv, PTL

\* A thread that is leaving as a writer, or has been cancelled, never comes back.
LEMMA StaysCancelled ==
  ASSUME IInv, [Next]_vars, NobodyCancelled' PROVE NobodyCancelled
<1> SUFFICES ASSUME NEW u \in Threads, pc[u] \in {"wr_cancel", "cancelled"}
             PROVE  pc'[u] \in {"wr_cancel", "cancelled"}
  BY DEF NobodyCancelled, At
<1>1. ASSUME NEW t \in Threads, RdLoop(t) \/ WrLoop(t)
      PROVE  pc'[u] \in {"wr_cancel", "cancelled"}
  BY <1>1 DEF RdLoop, WrLoop, Goto, IInv, Types
<1>2. ASSUME NEW t \in Threads, Unlock(t) PROVE pc'[u] \in {"wr_cancel", "cancelled"}
  <2>1. pc[t] = "un_call" BY <1>2 DEF Unlock
  <2>2. PICK woken \in Wakes(RefcountAfterUnlock) :
          pc' = [v \in Threads |-> CASE v = t -> "un_ret"
                                     [] v # t /\ v \in woken -> WokenState(pc[v])
                                     [] OTHER -> pc[v]]
    BY <1>2 DEF Unlock
  <2>3. u \notin woken BY <2>2 DEF Wakes, At
  <2> QED BY <2>1, <2>2, <2>3
<1>3. ASSUME NEW t \in Threads,
             \/ LockCall(t) \/ UnlockCall(t) \/ ThreadReturns(t)
             \/ LockReturn(t) \/ UnlockReturn(t) \/ SpuriousWakeup(t)
             \/ RequestCancel(t) \/ RdCancelPoint(t) \/ RdCancelHandler(t)
      PROVE  pc'[u] \in {"wr_cancel", "cancelled"}
  BY <1>3 DEF LockCall, UnlockCall, ThreadReturns, LockReturn, UnlockReturn,
     SpuriousWakeup, RequestCancel, RdCancelPoint, RdCancelHandler, WokenState, Goto,
     IInv, Types
<1>4. ASSUME NEW t \in Threads,
             WrCancelHandler(t) \/ CallerCancelled(t) \/ WrCancelPoint(t)
      PROVE  pc'[u] \in {"wr_cancel", "cancelled"}
  BY <1>4 DEF WrCancelHandler, CallerCancelled, WrCancelPoint, Goto, IInv, Types, At
<1>5. ASSUME Destroy \/ Terminated \/ UNCHANGED vars
      PROVE  pc'[u] \in {"wr_cancel", "cancelled"}
  BY <1>5 DEF Destroy, Terminated, vars
<1> QED BY <1>1, <1>2, <1>3, <1>4, <1>5 DEF Next, Program, Environment

\* A step after which nobody is cancelled leaves readers asleep only for a writer.
LEMMA NextReaderSleeps ==
  ASSUME IInv, ReaderSleepsForAWriter, [Next]_vars PROVE ReaderSleepsForAWriter'
<1> DEFINE Sleeps == At({"rd_wait"}) # {} => rw_refcount < 0 \/ rw_nwaitwriters > 0
<1> SUFFICES ASSUME NobodyCancelled' PROVE Sleeps'
  BY DEF ReaderSleepsForAWriter
<1>1. IInv' BY NextIInv
<1>2. NobodyCancelled
  BY StaysCancelled
<1>a. Sleeps
  BY <1>2 DEF ReaderSleepsForAWriter
<1>3. ASSUME NEW t \in Threads, RdLoop(t) PROVE Sleeps'
  BY <1>a, <1>3 DEF RdLoop, RdMustWait, Goto, IInv, Types, At
<1>4. ASSUME NEW t \in Threads, WrLoop(t) PROVE Sleeps'
  <2>2. CASE WrMustWait
    <3>1. t \in WaitingWriters'
      BY <1>4, <2>2 DEF WrLoop, Goto, IInv, Types, At, WaitingWriters
    <3>2. WaitingWriters' \in SUBSET Threads BY DEF WaitingWriters, At
    <3>3. rw_nwaitwriters' > 0
      BY <1>1, <3>1, <3>2, ThreadSets DEF IInv, WaitCountsExact
    <3> QED BY <3>3
  <2>3. CASE ~WrMustWait
    <3>1. rw_refcount' = -1 BY <1>4, <2>3 DEF WrLoop
    <3> QED BY <3>1
  <2> QED BY <2>2, <2>3
<1>5. ASSUME NEW t \in Threads, Unlock(t) PROVE Sleeps'
  <2>1. PICK woken \in Wakes(RefcountAfterUnlock) :
          pc' = [u \in Threads |-> CASE u = t -> "un_ret"
                                     [] u # t /\ u \in woken -> WokenState(pc[u])
                                     [] OTHER -> pc[u]]
    BY <1>5 DEF Unlock
  <2>3. CASE rw_nwaitwriters > 0
    BY <1>5, <2>3 DEF Unlock
  <2>4. CASE ~(rw_nwaitwriters > 0) /\ rw_nwaitreaders > 0
    <3>1. woken = At({"rd_wait"}) BY <2>4 DEF Wakes
    <3>2. At({"rd_wait"})' = {} BY <2>1, <3>1 DEF At, WokenState, IInv, Types
    <3> QED BY <3>2
  <2>5. CASE ~(rw_nwaitwriters > 0) /\ ~(rw_nwaitreaders > 0)
    <3>1. WaitingReaders = {}
      BY <2>5, SetsOfThreads, ThreadSets DEF IInv, WaitCountsExact
    <3>2. At({"rd_wait"}) = {} BY <3>1 DEF WaitingReaders, At
    <3>3. At({"rd_wait"})' = {} BY <2>1, <3>2 DEF At, WokenState, IInv, Types
    <3> QED BY <3>3
  <2> QED BY <2>3, <2>4, <2>5
<1>6. ASSUME NEW t \in Threads,
             \/ LockCall(t) \/ UnlockCall(t) \/ ThreadReturns(t)
             \/ LockReturn(t) \/ UnlockReturn(t) \/ SpuriousWakeup(t)
             \/ RequestCancel(t) \/ RdCancelPoint(t)
      PROVE  Sleeps'
  BY <1>a, <1>6 DEF LockCall, UnlockCall, ThreadReturns, LockReturn, UnlockReturn,
     SpuriousWakeup, RequestCancel, RdCancelPoint, WokenState, Goto, counters,
     IInv, Types, At
<1>7. ASSUME Destroy \/ Terminated \/ UNCHANGED vars PROVE Sleeps'
  <2>1. UNCHANGED <<pc, rw_refcount, rw_nwaitwriters>>
    BY <1>7 DEF Destroy, Terminated, vars, counters
  <2> QED BY <1>a, <2>1 DEF At
<1>8. ASSUME NEW t \in Threads
      PROVE  ~(\/ RdCancelHandler(t) \/ WrCancelHandler(t) \/ CallerCancelled(t)
               \/ WrCancelPoint(t))
  BY DEF RdCancelHandler, WrCancelHandler, CallerCancelled, WrCancelPoint, Goto,
     IInv, Types, At, NobodyCancelled
<1> QED BY <1>3, <1>4, <1>5, <1>6, <1>7, <1>8 DEF Next, Program, Environment

\* Until a thread has been cancelled, a reader sleeps only while a writer holds
\* the lock or waits for it: no reader's wakeup is lost.
THEOREM ReaderIsNotStranded == Spec => []ReaderSleepsForAWriter
<1>1. Init => ReaderSleepsForAWriter
  BY DEF Init, At, ReaderSleepsForAWriter
<1>2. IInv /\ ReaderSleepsForAWriter /\ [Next]_vars => ReaderSleepsForAWriter'
  BY NextReaderSleeps
<1> QED BY <1>1, <1>2, SpecIInv, PTL DEF Spec

-----------------------------------------------------------------------------
(* The lock implements the abstract writer-preferring lock                  *)

\* A step that changes neither a grant nor the set of waiting writers.
LEMMA AbstractStutter ==
  ASSUME UNCHANGED held, WaitingWriters' = WaitingWriters
  PROVE  UNCHANGED Abs!absVars
BY DEF Abs!absVars, HeldAs

\* A reader at the loop test waits unseen, or is granted a read lock.
LEMMA RdLoopImplements ==
  ASSUME IInv, NEW t \in Threads, RdLoop(t) PROVE [Abs!AbsNext]_(Abs!absVars)
<1>1. WaitingWriters' = WaitingWriters
  BY DEF RdLoop, Goto, IInv, Types, WaitingWriters, At
<1>2. CASE RdMustWait
  BY <1>1, <1>2, AbstractStutter DEF RdLoop
<1>3. CASE ~RdMustWait
  <2>1. HeldAs("wr") = {}
    BY <1>3 DEF IInv, Exclusion, RdMustWait
  <2>2. WaitingWriters = {}
    BY <1>3, SetsOfThreads, ThreadSets DEF IInv, WaitCountsExact, RdMustWait
  <2>3. held[t] = "no" /\ held' = [held EXCEPT ![t] = "rd"]
    BY <1>3 DEF RdLoop, IInv, Types, HeldWhere
  <2>4. /\ t \notin HeldAs("rd")
        /\ HeldAs("rd")' = HeldAs("rd") \cup {t}
        /\ HeldAs("wr")' = HeldAs("wr")
    BY <2>3 DEF IInv, Types, HeldAs
  <2>5. Abs!GrantRead(t) BY <1>1, <2>1, <2>2, <2>4 DEF Abs!GrantRead
  <2> QED BY <2>5 DEF Abs!AbsNext
<1> QED BY <1>2, <1>3

\* A writer at the loop test waits, or is granted the write lock.
LEMMA WrLoopImplements ==
  ASSUME IInv, NEW t \in Threads, WrLoop(t) PROVE [Abs!AbsNext]_(Abs!absVars)
<1>1. held[t] = "no" BY DEF WrLoop, IInv, Types, HeldWhere
<1>2. CASE WrMustWait
  <2>1. WaitingWriters' = WaitingWriters \cup {t} /\ UNCHANGED held
    BY <1>2 DEF WrLoop, Goto, IInv, Types, WaitingWriters, At
  <2>2. HeldAs("rd") \cup HeldAs("wr") # {}
    BY <1>2, FS_EmptySet DEF IInv, Exclusion, WrMustWait
  <2>3. t \notin HeldAs("rd") \cup HeldAs("wr") BY <1>1 DEF HeldAs
  <2>4. HeldAs("rd")' = HeldAs("rd") /\ HeldAs("wr")' = HeldAs("wr")
    BY <2>1 DEF HeldAs
  <2>5. Abs!WriterWaits(t)
    BY <2>1, <2>2, <2>3, <2>4 DEF Abs!WriterWaits
  <2> QED BY <2>5 DEF Abs!AbsNext
<1>3. CASE ~WrMustWait
  <2>1. HeldAs("wr") = {} /\ Cardinality(HeldAs("rd")) = 0
    BY <1>3 DEF IInv, Exclusion, WrMustWait
  <2>2. HeldAs("rd") = {} BY <2>1, SetsOfThreads, ThreadSets
  <2>3. held' = [held EXCEPT ![t] = "wr"] BY <1>3 DEF WrLoop
  <2>4. HeldAs("wr")' = {t} /\ HeldAs("rd")' = HeldAs("rd")
    BY <1>1, <2>1, <2>3 DEF IInv, Types, HeldAs
  <2>5. WaitingWriters' = WaitingWriters \ {t}
    BY <1>3 DEF WrLoop, Goto, IInv, Types, WaitingWriters, At
  <2>6. Abs!GrantWrite(t)
    BY <2>1, <2>2, <2>4, <2>5 DEF Abs!GrantWrite
  <2> QED BY <2>6 DEF Abs!AbsNext
<1> QED BY <1>2, <1>3

\* The unlock releases the caller's lock; the wakeups are unseen.
LEMMA UnlockImplements ==
  ASSUME IInv, NEW t \in Threads, Unlock(t) PROVE [Abs!AbsNext]_(Abs!absVars)
<1>1. held[t] # "no" /\ held' = [held EXCEPT ![t] = "no"]
  BY DEF Unlock, IInv, HeldWhere
<1>2. /\ t \in HeldAs("rd") \cup HeldAs("wr")
      /\ HeldAs("rd")' = HeldAs("rd") \ {t}
      /\ HeldAs("wr")' = HeldAs("wr") \ {t}
  BY <1>1 DEF IInv, Types, HeldAs
<1>3. WaitingWriters' = WaitingWriters
  <2>1. PICK woken \in Wakes(RefcountAfterUnlock) :
          pc' = [u \in Threads |-> CASE u = t -> "un_ret"
                                     [] u # t /\ u \in woken -> WokenState(pc[u])
                                     [] OTHER -> pc[u]]
    BY DEF Unlock
  <2>2. woken \in SUBSET At({"wr_wait"}) \/ woken \in SUBSET At({"rd_wait"})
    BY DEF Wakes
  <2> QED
    BY <2>1, <2>2 DEF Unlock, IInv, Types, WaitingWriters, At, WokenState
<1>4. Abs!Release(t) BY <1>2, <1>3 DEF Abs!Release
<1> QED BY <1>4 DEF Abs!AbsNext

\* A cancelled writer stops waiting when its handler runs.
LEMMA WrCancelHandlerImplements ==
  ASSUME IInv, NEW t \in Threads, WrCancelHandler(t)
  PROVE  [Abs!AbsNext]_(Abs!absVars)
<1>1. t \in WaitingWriters /\ WaitingWriters' = WaitingWriters \ {t}
  BY DEF WrCancelHandler, Goto, IInv, Types, WaitingWriters, At
<1>2. HeldAs("rd")' = HeldAs("rd") /\ HeldAs("wr")' = HeldAs("wr")
  BY DEF WrCancelHandler, HeldAs
<1>3. Abs!WriterGivesUp(t) BY <1>1, <1>2 DEF Abs!WriterGivesUp
<1> QED BY <1>3 DEF Abs!AbsNext

\* No other step is visible to the abstract lock.
LEMMA QuietSteps ==
  ASSUME IInv, NEW t \in Threads,
         \/ LockCall(t) \/ UnlockCall(t) \/ ThreadReturns(t) \/ LockReturn(t)
         \/ UnlockReturn(t) \/ CallerCancelled(t) \/ RdCancelHandler(t)
         \/ RequestCancel(t) \/ RdCancelPoint(t) \/ WrCancelPoint(t)
         \/ SpuriousWakeup(t)
  PROVE  UNCHANGED Abs!absVars
<1>1. WaitingWriters' = WaitingWriters /\ UNCHANGED held
  BY DEF LockCall, UnlockCall, ThreadReturns, LockReturn, UnlockReturn,
     CallerCancelled, RdCancelHandler, RequestCancel, RdCancelPoint, WrCancelPoint,
     SpuriousWakeup, WokenState, Goto, IInv, Types, WaitingWriters, At
<1> QED BY <1>1, AbstractStutter

\* Every behaviour of the counters, mutex and condition variables is one of
\* the abstract lock that gives preference to waiting writers.
THEOREM Implementation == Spec => ImplementsAbstractLock
<1>1. Init => Abs!AbsInit
  BY DEF Init, Abs!AbsInit, HeldAs, WaitingWriters, At
<1>2. ASSUME IInv, [Next]_vars PROVE [Abs!AbsNext]_(Abs!absVars)
  <2>1. ASSUME NEW t \in Threads, Program(t) PROVE [Abs!AbsNext]_(Abs!absVars)
    BY <1>2, <2>1, RdLoopImplements, WrLoopImplements, UnlockImplements,
       WrCancelHandlerImplements, QuietSteps DEF Program
  <2>2. ASSUME NEW t \in Threads, Environment(t) PROVE [Abs!AbsNext]_(Abs!absVars)
    BY <1>2, <2>2, QuietSteps DEF Environment
  <2>3. CASE Destroy \/ Terminated \/ UNCHANGED vars
    <3>1. WaitingWriters' = WaitingWriters /\ UNCHANGED held
      BY <2>3 DEF Destroy, Terminated, vars, WaitingWriters, At
    <3> QED BY <3>1, AbstractStutter
  <2> QED BY <1>2, <2>1, <2>2, <2>3 DEF Next
<1> QED BY <1>1, <1>2, SpecIInv, PTL DEF Spec, ImplementsAbstractLock, Abs!AbsSpec
=============================================================================
