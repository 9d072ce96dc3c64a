------------------------------ MODULE ProdCons4 ------------------------------
(***************************************************************************)
(* pxsem/prodcons4: producers and consumers share a ring of NBUFF slots    *)
(* guarded by three semaphores.  A producer that finds every item produced *)
(* leaves tokens behind so that the others can stop.                       *)
(*                                                                         *)
(* One step per semaphore operation.  The code inside the critical section *)
(* is two steps, the access to the slot and the update of the indices, so  *)
(* that only the mutex semaphore keeps them together.                      *)
(***************************************************************************)
EXTENDS Integers, FiniteSets, Functions

CONSTANTS Producers, Consumers, nitems, NBUFF

Threads == Producers \cup Consumers

ASSUME PCAssumption ==
  /\ IsFiniteSet(Producers) /\ IsFiniteSet(Consumers)
  /\ Producers \cap Consumers = {}
  /\ nitems \in Nat
  /\ NBUFF \in Nat \ {0}

VARIABLES
  buff, nput, nputval, nget, ngetval,  \* the shared struct
  mutex, nempty, nstored,              \* its semaphores
  pc,
  count,    \* items each thread says it handled
  reported  \* TRUE once a consumer printed "error:buff"

items == <<buff, nput, nputval, nget, ngetval>>
sems == <<mutex, nempty, nstored>>
vars == <<items, sems, pc, count, reported>>

At(states) == {t \in Threads : pc[t] \in states}
Goto(t, state) == pc' = [pc EXCEPT ![t] = state]

\* Mutant: nempty starts with a token too many.
InitOneSlotTooMany ==
  /\ buff = [i \in 0..NBUFF-1 |-> 0]
  /\ nput = 0 /\ nputval = 0 /\ nget = 0 /\ ngetval = 0
  /\ mutex = 1 /\ nempty = NBUFF + 1 /\ nstored = 0
  /\ pc = [t \in Threads |-> IF t \in Producers THEN "p_empty" ELSE "c_stored"]
  /\ count = [t \in Threads |-> 0]
  /\ reported = FALSE

Init ==
  /\ buff = [i \in 0..NBUFF-1 |-> 0]
  /\ nput = 0 /\ nputval = 0 /\ nget = 0 /\ ngetval = 0
  /\ mutex = 1 /\ nempty = NBUFF /\ nstored = 0
  /\ pc = [t \in Threads |-> IF t \in Producers THEN "p_empty" ELSE "c_stored"]
  /\ count = [t \in Threads |-> 0]
  /\ reported = FALSE

\* Mutant: a mutex that excludes nobody.
WaitNoMutex == UNCHANGED <<mutex, nempty, nstored>>

\* Sem_wait and Sem_post on the thread's way from one label to the next.
WaitMutex == mutex > 0 /\ mutex' = mutex - 1 /\ UNCHANGED <<nempty, nstored>>
WaitEmpty == nempty > 0 /\ nempty' = nempty - 1 /\ UNCHANGED <<mutex, nstored>>
WaitStored == nstored > 0 /\ nstored' = nstored - 1 /\ UNCHANGED <<mutex, nempty>>
PostMutex == mutex' = mutex + 1 /\ UNCHANGED <<nempty, nstored>>
PostEmpty == nempty' = nempty + 1 /\ UNCHANGED <<mutex, nstored>>
PostStored == nstored' = nstored + 1 /\ UNCHANGED <<mutex, nempty>>

SemStep(t, from, op, to) ==
  pc[t] = from /\ op /\ Goto(t, to) /\ UNCHANGED <<items, count, reported>>

-----------------------------------------------------------------------------
(* produce                                                                  *)

ProduceWaitEmpty(t) == SemStep(t, "p_empty", WaitEmpty, "p_mutex")
ProduceWaitMutex(t) == SemStep(t, "p_mutex", WaitMutex, "p_store")

\* Mutant: an off-by-one in the test for the last item.
ProduceStoreOneMore(t) ==
  /\ pc[t] = "p_store"
  /\ IF nput > nitems
     THEN Goto(t, "p_end_stored") /\ UNCHANGED buff
     ELSE Goto(t, "p_advance") /\ buff' = [buff EXCEPT ![nput % NBUFF] = nputval]
  /\ UNCHANGED <<nput, nputval, nget, ngetval, sems, count, reported>>

\* Store the next item; with nothing left to produce, start to wind down.
ProduceStore(t) ==
  /\ pc[t] = "p_store"
  /\ IF nput >= nitems
     THEN Goto(t, "p_end_stored") /\ UNCHANGED buff
     ELSE Goto(t, "p_advance") /\ buff' = [buff EXCEPT ![nput % NBUFF] = nputval]
  /\ UNCHANGED <<nput, nputval, nget, ngetval, sems, count, reported>>

ProduceAdvance(t) ==
  /\ pc[t] = "p_advance"
  /\ nput' = nput + 1
  /\ nputval' = nputval + 1
  /\ Goto(t, "p_unlock")
  /\ UNCHANGED <<buff, nget, ngetval, sems, count, reported>>

ProducePostMutex(t) == SemStep(t, "p_unlock", PostMutex, "p_stored")
ProducePostStored(t) == SemStep(t, "p_stored", PostStored, "p_count")

ProduceCount(t) ==
  /\ pc[t] = "p_count"
  /\ count' = [count EXCEPT ![t] = @ + 1]
  /\ Goto(t, "p_empty")
  /\ UNCHANGED <<items, sems, reported>>

\* Mutant: the producer's own token goes to the wrong semaphore.
EndPostStoredTwice(t) == SemStep(t, "p_end_empty", PostStored, "end_unlock")

\* "let consumers terminate": the extra nstored token, then the producer's
\* own nempty token and the mutex.
EndPostStored(t) == SemStep(t, "p_end_stored", PostStored, "p_end_empty")
EndPostEmpty(t) == SemStep(t, "p_end_empty", PostEmpty, "end_unlock")
EndPostMutex(t) == SemStep(t, "end_unlock", PostMutex, "done")

Produce(t) ==
  \/ ProduceWaitEmpty(t) \/ ProduceWaitMutex(t)
  \/ ProduceStore(t) \/ ProduceAdvance(t)
  \/ ProducePostMutex(t) \/ ProducePostStored(t) \/ ProduceCount(t)
  \/ EndPostStored(t) \/ EndPostEmpty(t)

-----------------------------------------------------------------------------
(* consume                                                                  *)

ConsumeWaitStored(t) == SemStep(t, "c_stored", WaitStored, "c_mutex")
ConsumeWaitMutex(t) == SemStep(t, "c_mutex", WaitMutex, "c_check")

\* Compare the slot with the expected value; with nothing left, wind down.
ConsumeCheck(t) ==
  /\ pc[t] = "c_check"
  /\ IF nget >= nitems
     THEN Goto(t, "c_end_stored") /\ UNCHANGED reported
     ELSE /\ Goto(t, "c_advance")
          /\ reported' = (reported \/ buff[nget % NBUFF] # ngetval)
  /\ UNCHANGED <<items, sems, count>>

ConsumeAdvance(t) ==
  /\ pc[t] = "c_advance"
  /\ nget' = nget + 1
  /\ ngetval' = ngetval + 1
  /\ Goto(t, "c_unlock")
  /\ UNCHANGED <<buff, nput, nputval, sems, count, reported>>

\* Mutant: nstored is posted for nempty, as prodcons3 does.
ConsumePostWrong(t) == SemStep(t, "c_empty", PostStored, "c_count")

ConsumePostMutex(t) == SemStep(t, "c_unlock", PostMutex, "c_empty")
ConsumePostEmpty(t) == SemStep(t, "c_empty", PostEmpty, "c_count")

ConsumeCount(t) ==
  /\ pc[t] = "c_count"
  /\ count' = [count EXCEPT ![t] = @ + 1]
  /\ Goto(t, "c_stored")
  /\ UNCHANGED <<items, sems, reported>>

\* Mutant: the consumer passes the token on but does not return.
ConsumeEndTriesAgain(t) ==
  SemStep(t, "c_end_stored",
          mutex' = mutex + 1 /\ nstored' = nstored + 1 /\ UNCHANGED nempty, "c_stored")

\* A consumer that is done passes its nstored token to the next one.
ConsumeEndPostStored(t) == SemStep(t, "c_end_stored", PostStored, "end_unlock")

Consume(t) ==
  \/ ConsumeWaitStored(t) \/ ConsumeWaitMutex(t)
  \/ ConsumeCheck(t) \/ ConsumeAdvance(t)
  \/ ConsumePostMutex(t) \/ ConsumePostEmpty(t) \/ ConsumeCount(t)
  \/ ConsumeEndPostStored(t)

-----------------------------------------------------------------------------
\* main joins every thread and then destroys the semaphores.
Terminated == At({"done"}) = Threads /\ UNCHANGED vars

Next ==
  \/ \E t \in Producers : Produce(t)
  \/ \E t \in Consumers : Consume(t)
  \/ \E t \in Threads : EndPostMutex(t)
  \/ Terminated

Spec == Init /\ [][Next]_vars

\* The scheduler runs every thread that can run.  Nothing stronger is needed of
\* the semaphores: the items are finite, so nobody can be overtaken for ever.
FairSpec ==
  /\ Spec
  /\ \A t \in Producers : WF_vars(Produce(t))
  /\ \A t \in Consumers : WF_vars(Consume(t))
  /\ \A t \in Threads : WF_vars(EndPostMutex(t))

-----------------------------------------------------------------------------
(* Properties                                                               *)

ProducerStates == {"p_empty", "p_mutex", "p_store", "p_advance", "p_unlock", "p_stored",
                   "p_count", "p_end_stored", "p_end_empty", "end_unlock", "done"}
ConsumerStates == {"c_stored", "c_mutex", "c_check", "c_advance", "c_unlock", "c_empty",
                   "c_count", "c_end_stored", "end_unlock", "done"}

TypeOK ==
  /\ buff \in [0..NBUFF-1 -> Nat]
  /\ nput \in 0..nitems /\ nputval \in Nat
  /\ nget \in 0..nitems /\ ngetval \in Nat
  /\ mutex \in Nat /\ nempty \in Nat /\ nstored \in Nat
  /\ pc \in [Threads -> ProducerStates \cup ConsumerStates]
  /\ \A t \in Producers : pc[t] \in ProducerStates
  /\ \A t \in Consumers : pc[t] \in ConsumerStates
  /\ count \in [Threads -> Nat]
  /\ reported \in BOOLEAN

\* No consumer ever finds a slot that holds anything but the next item: none
\* is read before it is filled or after it is filled again, even with the
\* extra nstored tokens of the producers that stopped.
NoErrorReported == ~reported

\* The tokens of nempty are conserved: every slot is free, taken by a
\* producer on its way to fill it, full, or just emptied by a consumer.  So
\* the items in the buffer never exceed NBUFF.
TakingSlot == At({"p_mutex", "p_store", "p_advance", "p_end_stored", "p_end_empty"})
GivingSlot == At({"c_unlock", "c_empty"})
SlotsConserved ==
  nempty + Cardinality(TakingSlot) + Cardinality(GivingSlot) + (nput - nget) = NBUFF

\* The program stops: no producer or consumer is left waiting for a token.
\* All items have then gone through, each one counted by one producer and one
\* consumer, and the semaphores are free to destroy.
AllCounted ==
  Producers # {} /\ Consumers # {} =>
    /\ FoldFunctionOnSet(+, 0, count, Producers) = nitems
    /\ FoldFunctionOnSet(+, 0, count, Consumers) = nitems
    /\ nempty = NBUFF /\ mutex = 1
Termination == <>(At({"done"}) = Threads /\ AllCounted)

\* The ring is a bounded queue that loses, repeats and reorders nothing.  An
\* item joins the queue as nput moves past it and leaves as nget does.
Fifo == INSTANCE BoundedFifo WITH
          Capacity <- NBUFF, Total <- nitems, sent <- nput,
          queue <- [i \in 1..(nput - nget) |-> buff[(nget + i - 1) % NBUFF]]
ImplementsFifo == Fifo!FifoSpec
=============================================================================
