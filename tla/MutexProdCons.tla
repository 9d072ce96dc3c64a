---------------------------- MODULE MutexProdCons ----------------------------
(***************************************************************************)
(* mutex/prodcons1, prodcons2 and prodcons6: several producers fill an     *)
(* array of nitems under a mutex and one consumer checks it.  In prodcons1 *)
(* the consumer starts when every producer has returned; in prodcons2 it   *)
(* polls the index under the mutex; in prodcons6 it waits on a condition   *)
(* variable for a second counter.                                          *)
(*                                                                         *)
(* Inside a critical section each access to a shared variable is a step.   *)
(* The main of prodcons6 calls neither of its two thread functions; they   *)
(* run here as the main of prodcons2 starts its own.                       *)
(***************************************************************************)
EXTENDS Integers, FiniteSets

CONSTANTS Producers, nitems, Programs

ASSUME MutexAssumption ==
  /\ IsFiniteSet(Producers) /\ Producers # {}
  /\ nitems \in Nat
  /\ Programs \subseteq {"prodcons1", "prodcons2", "prodcons6"}

VARIABLES
  prog,
  buff, nput, nval,
  mutex,           \* TRUE while the mutex of nput is locked
  nready, rmutex,  \* prodcons6: items ready for the consumer, and its mutex
  pc,              \* of each producer
  count,           \* items each producer stored
  cpc, i,          \* the consumer's place and loop index
  wrong            \* TRUE once the consumer printed an item

putVars == <<buff, nput, nval>>
locks == <<mutex, rmutex>>
consumerVars == <<cpc, i, wrong>>
vars == <<prog, putVars, nready, locks, pc, count, consumerVars>>

At(states) == {t \in Producers : pc[t] \in states}
Goto(t, state) == pc' = [pc EXCEPT ![t] = state]

\* Where the consumer begins each round of its loop.
LoopStart ==
  CASE prog = "prodcons1" -> "check"
    [] prog = "prodcons2" -> "w_lock"
    [] prog = "prodcons6" -> "n_lock"
NextRound(n) == IF n < nitems THEN LoopStart ELSE "done"

Init ==
  /\ prog \in Programs
  /\ buff = [slot \in 0..nitems-1 |-> 0]
  /\ nput = 0 /\ nval = 0
  /\ mutex = FALSE
  /\ nready = 0 /\ rmutex = FALSE
  /\ pc = [t \in Producers |-> "lock"]
  /\ count = [t \in Producers |-> 0]
  /\ cpc = (IF prog = "prodcons1" THEN "not_created" ELSE NextRound(0))
  /\ i = 0
  /\ wrong = FALSE

-----------------------------------------------------------------------------
(* produce                                                                  *)

\* A step of producer t under the put mutex.
PutStep(t, from, to) ==
  /\ pc[t] = from
  /\ Goto(t, to)
  /\ UNCHANGED <<prog, nready, rmutex, count, consumerVars>>

\* Mutant: the test comes before the lock.
ProduceLockAnyway(t) ==
  /\ PutStep(t, "lock", IF nput >= nitems THEN "end_unlock" ELSE "store")
  /\ UNCHANGED <<putVars, mutex>>

ProduceLock(t) ==
  /\ ~mutex
  /\ PutStep(t, "lock", IF nput >= nitems THEN "end_unlock" ELSE "store")
  /\ mutex' = TRUE
  /\ UNCHANGED putVars

ProduceStore(t) ==
  /\ PutStep(t, "store", "advance")
  /\ buff' = [buff EXCEPT ![nput] = nval]
  /\ UNCHANGED <<nput, nval, mutex>>

ProduceAdvance(t) ==
  /\ PutStep(t, "advance", "unlock")
  /\ nput' = nput + 1
  /\ nval' = nval + 1
  /\ UNCHANGED <<buff, mutex>>

ProduceUnlock(t) ==
  /\ PutStep(t, "unlock", IF prog = "prodcons6" THEN "r_lock" ELSE "count")
  /\ mutex' = FALSE
  /\ UNCHANGED putVars

ProduceReturns(t) ==
  /\ PutStep(t, "end_unlock", "done")
  /\ mutex' = FALSE
  /\ UNCHANGED putVars

\* A step of producer t of prodcons6 under nready.mutex.
ReadyStep(t, from, to) ==
  /\ pc[t] = from
  /\ Goto(t, to)
  /\ UNCHANGED <<prog, putVars, mutex, count, i, wrong>>

ReadyLock(t) ==
  /\ ~rmutex
  /\ ReadyStep(t, "r_lock", "r_signal")
  /\ rmutex' = TRUE
  /\ UNCHANGED <<nready, cpc>>

Wake == IF cpc = "asleep" THEN "woken" ELSE cpc

\* Mutant: the test sees the counter after the increment.
ReadySignalLate(t) ==
  /\ ReadyStep(t, "r_signal", "r_incr")
  /\ cpc' = IF nready + 1 = 0 THEN Wake ELSE cpc
  /\ UNCHANGED <<nready, rmutex>>

\* Only a consumer that may be asleep is signalled, before the increment.
ReadySignal(t) ==
  /\ ReadyStep(t, "r_signal", "r_incr")
  /\ cpc' = IF nready = 0 THEN Wake ELSE cpc
  /\ UNCHANGED <<nready, rmutex>>

ReadyIncrement(t) ==
  /\ ReadyStep(t, "r_incr", "r_unlock")
  /\ nready' = nready + 1
  /\ UNCHANGED <<rmutex, cpc>>

ReadyUnlock(t) ==
  /\ ReadyStep(t, "r_unlock", "count")
  /\ rmutex' = FALSE
  /\ UNCHANGED <<nready, cpc>>

ProduceCount(t) ==
  /\ pc[t] = "count"
  /\ count' = [count EXCEPT ![t] = @ + 1]
  /\ Goto(t, "lock")
  /\ UNCHANGED <<prog, putVars, nready, locks, consumerVars>>

Produce(t) ==
  \/ ProduceLock(t) \/ ProduceStore(t) \/ ProduceAdvance(t) \/ ProduceUnlock(t)
  \/ ReadyLock(t) \/ ReadySignal(t) \/ ReadyIncrement(t) \/ ReadyUnlock(t)
  \/ ProduceCount(t) \/ ProduceReturns(t)

-----------------------------------------------------------------------------
(* consume                                                                  *)

ConsumerStep(from, to) ==
  /\ cpc = from
  /\ cpc' = to
  /\ UNCHANGED <<prog, putVars, pc, count>>

\* The main of prodcons1 starts the consumer after it has joined the producers.
CreateConsumer ==
  /\ At({"done"}) = Producers
  /\ ConsumerStep("not_created", NextRound(0))
  /\ UNCHANGED <<nready, locks, i, wrong>>

\* Mutant: an off-by-one in consume_wait.
WaitTestOneEarly ==
  /\ ~mutex
  /\ ConsumerStep("w_lock", IF i <= nput THEN "w_found" ELSE "w_again")
  /\ mutex' = TRUE
  /\ UNCHANGED <<nready, rmutex, i, wrong>>

\* consume_wait: look at nput under the mutex ...
WaitTest ==
  /\ ~mutex
  /\ ConsumerStep("w_lock", IF i < nput THEN "w_found" ELSE "w_again")
  /\ mutex' = TRUE
  /\ UNCHANGED <<nready, rmutex, i, wrong>>

\* ... and unlock it, to return or to try again at once.
WaitUnlock ==
  /\ \/ ConsumerStep("w_found", "check")
     \/ ConsumerStep("w_again", "w_lock")
  /\ mutex' = FALSE
  /\ UNCHANGED <<nready, rmutex, i, wrong>>

\* Mutants: the counter is not decremented; an if where the code has a while.
ReadyTakeKeeps ==
  /\ ~rmutex
  /\ nready > 0
  /\ rmutex' = TRUE
  /\ ConsumerStep("n_lock", "n_unlock") \/ ConsumerStep("woken", "n_unlock")
  /\ UNCHANGED <<nready, mutex, i, wrong>>

ReadyTakeAfterOneWait ==
  /\ ~rmutex
  /\ nready' = nready - 1
  /\ rmutex' = TRUE
  /\ ConsumerStep(cpc, "n_unlock")
  /\ \/ cpc = "woken"
     \/ cpc = "n_lock" /\ nready > 0
  /\ UNCHANGED <<mutex, i, wrong>>

\* prodcons6: the consumer holds nready.mutex at the loop test, for the first
\* time or as pthread_cond_wait returns.
ReadyTake ==
  /\ ~rmutex
  /\ nready > 0
  /\ nready' = nready - 1
  /\ rmutex' = TRUE
  /\ ConsumerStep("n_lock", "n_unlock") \/ ConsumerStep("woken", "n_unlock")
  /\ UNCHANGED <<mutex, i, wrong>>

ReadyWait ==
  /\ ~rmutex
  /\ nready = 0
  /\ ConsumerStep("n_lock", "asleep") \/ ConsumerStep("woken", "asleep")
  /\ UNCHANGED <<nready, locks, i, wrong>>

ReadyTaken ==
  /\ ConsumerStep("n_unlock", "check")
  /\ rmutex' = FALSE
  /\ UNCHANGED <<nready, mutex, i, wrong>>

\* The item is read with no lock held.
Check ==
  /\ ConsumerStep("check", NextRound(i + 1))
  /\ wrong' = (wrong \/ buff[i] # i)
  /\ i' = i + 1
  /\ UNCHANGED <<nready, locks>>

\* pthread_cond_wait may return although nobody signalled.
SpuriousWakeup ==
  /\ ConsumerStep("asleep", "woken")
  /\ UNCHANGED <<nready, locks, i, wrong>>

Consume ==
  \/ CreateConsumer \/ WaitTest \/ WaitUnlock
  \/ ReadyTake \/ ReadyWait \/ ReadyTaken \/ Check

AllDone == At({"done"}) = Producers /\ cpc = "done"

\* main has joined every thread and returns.
Terminated == AllDone /\ UNCHANGED vars

Next == (\E t \in Producers : Produce(t)) \/ Consume \/ SpuriousWakeup \/ Terminated

Spec == Init /\ [][Next]_vars

\* Every thread that can run is scheduled.  The mutexes promise no order among
\* the threads that compete for them.
FairSpec == Spec /\ (\A t \in Producers : WF_vars(Produce(t))) /\ WF_vars(Consume)

-----------------------------------------------------------------------------
(* Properties                                                               *)

TypeOK ==
  /\ prog \in Programs
  /\ buff \in [0..nitems-1 -> 0..nitems-1]
  /\ nput \in 0..nitems /\ nval \in 0..nitems
  /\ mutex \in BOOLEAN /\ rmutex \in BOOLEAN
  /\ nready \in 0..nitems
  /\ pc \in [Producers -> {"lock", "store", "advance", "unlock", "end_unlock", "r_lock",
                           "r_signal", "r_incr", "r_unlock", "count", "done"}]
  /\ count \in [Producers -> 0..nitems]
  /\ cpc \in {"not_created", "w_lock", "w_found", "w_again", "n_lock", "asleep",
              "woken", "n_unlock", "check", "done"}
  /\ i \in 0..nitems
  /\ wrong \in BOOLEAN

\* The consumer, which reads the array without a lock, finds every item in its
\* place, and nobody writes the slot while it reads: it never gets ahead of the
\* producers.
UnlockedReadIsSafe ==
  /\ ~wrong
  /\ cpc = "check" => i < nput \/ At({"store"}) = {}

\* The two counters of prodcons6 sit under different mutexes and agree up to
\* the producers between them: an item counted as ready has been stored, even
\* when the producer that counts it is not the one that stored it.
ReadyIsStored ==
  prog = "prodcons6" =>
    LET taken == i + (IF cpc \in {"n_unlock", "check"} THEN 1 ELSE 0)
        between == At({"unlock", "r_lock", "r_signal", "r_incr"})
    IN taken + nready + Cardinality(between) = nput

\* Every thread returns.  In prodcons2 this is promised only from the moment
\* the producers are done: until then the polling consumer can keep the mutex
\* from them.
Termination ==
  IF prog = "prodcons2" THEN At({"done"}) = Producers ~> AllDone ELSE <>AllDone
=============================================================================
