------------------------------ MODULE ProdCons3 ------------------------------
(***************************************************************************)
(* pxsem/prodcons3: several producers and one consumer.  The consumer      *)
(* posts nstored after each item (line 40), not nempty.                    *)
(*                                                                         *)
(* As in ProdCons4 there is one step per semaphore operation; the code of  *)
(* each critical section is one step with the post that ends it, since the *)
(* mutex works and the question is about the other two semaphores.         *)
(***************************************************************************)
EXTENDS Integers, FiniteSets

CONSTANTS Producers, Consumer, nitems, NBUFF

Threads == Producers \cup {Consumer}

VARIABLES
  buff, nput, nputval, mutext, nempty, nstored,  \* the shared struct
  i,         \* the consumer's loop index
  pc,
  count,     \* items each producer stored
  reported   \* TRUE once the consumer printed "error:buff"

items == <<buff, nput, nputval>>
sems == <<mutext, nempty, nstored>>
vars == <<items, sems, i, pc, count, reported>>

Goto(t, state) == pc' = [pc EXCEPT ![t] = state]

Init ==
  /\ buff = [slot \in 0..NBUFF-1 |-> 0]
  /\ nput = 0 /\ nputval = 0
  /\ mutext = 1 /\ nempty = NBUFF /\ nstored = 0
  /\ i = 0
  /\ pc = [t \in Threads |-> IF t \in Producers THEN "p_empty" ELSE "c_loop"]
  /\ count = [t \in Producers |-> 0]
  /\ reported = FALSE

ProduceWaitEmpty(t) ==
  /\ pc[t] = "p_empty"
  /\ nempty > 0
  /\ nempty' = nempty - 1
  /\ Goto(t, "p_mutex")
  /\ UNCHANGED <<items, mutext, nstored, i, count, reported>>

ProduceWaitMutex(t) ==
  /\ pc[t] = "p_mutex"
  /\ mutext > 0
  /\ mutext' = mutext - 1
  /\ Goto(t, "p_crit")
  /\ UNCHANGED <<items, nempty, nstored, i, count, reported>>

\* Store an item and unlock; or put the nempty token back, unlock and stop.
ProduceCritical(t) ==
  /\ pc[t] = "p_crit"
  /\ mutext' = mutext + 1
  /\ IF nput >= nitems
     THEN nempty' = nempty + 1 /\ Goto(t, "done") /\ UNCHANGED items
     ELSE /\ buff' = [buff EXCEPT ![nput % NBUFF] = nputval]
          /\ nput' = nput + 1
          /\ nputval' = nputval + 1
          /\ Goto(t, "p_stored")
          /\ UNCHANGED nempty
  /\ UNCHANGED <<nstored, i, count, reported>>

ProducePostStored(t) ==
  /\ pc[t] = "p_stored"
  /\ nstored' = nstored + 1
  /\ count' = [count EXCEPT ![t] = @ + 1]
  /\ Goto(t, "p_empty")
  /\ UNCHANGED <<items, mutext, nempty, i, reported>>

ConsumeWaitStored ==
  /\ pc[Consumer] = "c_loop"
  /\ i < nitems
  /\ nstored > 0
  /\ nstored' = nstored - 1
  /\ Goto(Consumer, "c_mutex")
  /\ UNCHANGED <<items, mutext, nempty, i, count, reported>>

ConsumeReturn ==
  /\ pc[Consumer] = "c_loop"
  /\ i >= nitems
  /\ Goto(Consumer, "done")
  /\ UNCHANGED <<items, sems, i, count, reported>>

ConsumeWaitMutex ==
  /\ pc[Consumer] = "c_mutex"
  /\ mutext > 0
  /\ mutext' = mutext - 1
  /\ Goto(Consumer, "c_crit")
  /\ UNCHANGED <<items, nempty, nstored, i, count, reported>>

ConsumeCritical ==
  /\ pc[Consumer] = "c_crit"
  /\ reported' = (reported \/ buff[i % NBUFF] # i)
  /\ mutext' = mutext + 1
  /\ Goto(Consumer, "c_post")
  /\ UNCHANGED <<items, nempty, nstored, i, count>>

ConsumePostStored ==
  /\ pc[Consumer] = "c_post"
  /\ nstored' = nstored + 1
  /\ i' = i + 1
  /\ Goto(Consumer, "c_loop")
  /\ UNCHANGED <<items, mutext, nempty, count, reported>>

Next ==
  \/ \E t \in Producers : \/ ProduceWaitEmpty(t) \/ ProduceWaitMutex(t)
                          \/ ProduceCritical(t) \/ ProducePostStored(t)
  \/ ConsumeWaitStored \/ ConsumeWaitMutex \/ ConsumeCritical
  \/ ConsumePostStored \/ ConsumeReturn

Spec == Init /\ [][Next]_vars

\* The consumer's own check (lines 36-37) never fails: the slot of item i
\* holds i when the consumer looks at it.
NoErrorReported == ~reported
=============================================================================
