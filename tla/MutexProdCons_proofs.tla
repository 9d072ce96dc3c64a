-------------------------- MODULE MutexProdCons_proofs --------------------------
(***************************************************************************)
(* Theorems about MutexProdCons, for any finite set of producers and any   *)
(* number of items: the unlocked read is safe in all three programs, and   *)
(* the two counters of prodcons6 agree.                                    *)
(*                                                                         *)
(* The consumer reads slot i.  What it relies on differs: that everybody   *)
(* has stopped (prodcons1), that it has seen nput itself (prodcons2), or   *)
(* that it has taken one of nready (prodcons6).                            *)
(***************************************************************************)
EXTENDS MutexProdCons, FiniteSetTheorems, TLAPS

ProducerPlaces == {"lock", "store", "advance", "unlock", "end_unlock", "r_lock",
                   "r_signal", "r_incr", "r_unlock", "count", "done"}
ConsumerPlaces == {"not_created", "w_lock", "w_found", "w_again", "n_lock", "asleep",
                   "woken", "n_unlock", "check", "done"}

\* The types, without the bounds that follow from the other conjuncts.
Types ==
  /\ prog \in Programs
  /\ buff \in [0..nitems-1 -> 0..nitems-1]
  /\ nput \in Nat /\ nval = nput
  /\ mutex \in BOOLEAN /\ rmutex \in BOOLEAN
  /\ nready \in Nat
  /\ pc \in [Producers -> ProducerPlaces]
  /\ count \in [Producers -> Nat]
  /\ cpc \in ConsumerPlaces
  /\ i \in Nat
  /\ wrong \in BOOLEAN

\* Between lock and unlock of the mutex of nput, and of that of nready.
PutPlaces == {"store", "advance", "unlock", "end_unlock"}
ReadyPlaces == {"r_signal", "r_incr", "r_unlock"}

\* Who holds a mutex holds it alone.
PutMutex ==
  /\ \A t \in Producers : pc[t] \in PutPlaces =>
       /\ mutex
       /\ cpc \notin {"w_found", "w_again"}
       /\ \A u \in Producers \ {t} : pc[u] \notin PutPlaces
  /\ cpc \in {"w_found", "w_again"} => mutex
ReadyMutex ==
  /\ \A t \in Producers : pc[t] \in ReadyPlaces =>
       /\ rmutex
       /\ cpc # "n_unlock"
       /\ \A u \in Producers \ {t} : pc[u] \notin ReadyPlaces
  /\ cpc = "n_unlock" => rmutex

\* Every program keeps to its own part of the module.
OwnPlaces ==
  /\ \A t \in Producers : pc[t] \in ReadyPlaces \cup {"r_lock"} => prog = "prodcons6"
  /\ cpc \in {"not_created"} => prog = "prodcons1"
  /\ cpc \in {"w_lock", "w_found", "w_again"} => prog = "prodcons2"
  /\ cpc \in {"n_lock", "asleep", "woken", "n_unlock"} => prog = "prodcons6"
  /\ prog # "prodcons6" => nready = 0

\* The slots below nput hold their items.
Filled ==
  /\ nput <= nitems
  /\ \A k \in 0..nput-1 : buff[k] = k
  /\ \A t \in Producers :
       /\ pc[t] = "store" => nput < nitems
       /\ pc[t] = "advance" => nput < nitems /\ buff[nput] = nput

\* Producers stop only when everything is produced.
StopsLast == \A t \in Producers : pc[t] \in {"end_unlock", "done"} => nput >= nitems

\* No producer has stored more items than there are.
OwnItems ==
  \A t \in Producers :
    count[t] + (IF pc[t] \in {"unlock", "r_lock", "count"} \cup ReadyPlaces THEN 1 ELSE 0) <= nput

\* The consumer stays behind the producers, for the reason of its program.
Behind ==
  /\ i <= nput
  /\ cpc \notin {"not_created", "done"} => i < nitems
  /\ cpc = "not_created" => i = 0
  /\ prog = "prodcons1" /\ cpc # "not_created" => At({"done"}) = Producers
  /\ cpc = "w_found" => i < nput
  /\ cpc = "check" => i < nput

IInv ==
  /\ Types
  /\ PutMutex
  /\ ReadyMutex
  /\ OwnPlaces
  /\ Filled
  /\ StopsLast
  /\ OwnItems
  /\ Behind
  /\ ReadyIsStored
  /\ ~wrong

USE MutexAssumption

-----------------------------------------------------------------------------
(* Counting the producers between the two counters                          *)

BetweenPlaces == {"unlock", "r_lock", "r_signal", "r_incr"}
Between == At(BetweenPlaces)
Taken == i + (IF cpc \in {"n_unlock", "check"} THEN 1 ELSE 0)

LEMMA CountOfBetween == IsFiniteSet(Between) /\ Cardinality(Between) \in Nat
<1>1. Between \in SUBSET Producers
  BY DEF Between, At
<1> QED BY <1>1, FS_Subset, FS_CardinalityType

\* ReadyIsStored in these terms.
Agree == prog = "prodcons6" => Taken + nready + Cardinality(Between) = nput
LEMMA ReadyCount == (ReadyIsStored <=> Agree) /\ (ReadyIsStored' <=> Agree')
BY DEF ReadyIsStored, Agree, Taken, Between, BetweenPlaces

\* A producer that moves enters or leaves the set or does neither.
LEMMA BetweenMoves ==
  ASSUME Types, NEW t \in Producers, NEW to, Goto(t, to)
  PROVE  /\ pc[t] \notin BetweenPlaces /\ to \in BetweenPlaces
              => Cardinality(Between)' = Cardinality(Between) + 1
         /\ pc[t] \in BetweenPlaces /\ to \notin BetweenPlaces
              => Cardinality(Between)' = Cardinality(Between) - 1
         /\ (pc[t] \in BetweenPlaces <=> to \in BetweenPlaces)
              => Cardinality(Between)' = Cardinality(Between)
<1>0. pc' = [pc EXCEPT ![t] = to] /\ pc \in [Producers -> ProducerPlaces]
  BY DEF Goto, Types
<1>1. CASE pc[t] \notin BetweenPlaces /\ to \in BetweenPlaces
  <2>1. Between' = Between \cup {t} /\ t \notin Between
    BY <1>0, <1>1 DEF Between, At
  <2> QED BY <1>1, <2>1, CountOfBetween, FS_AddElement
<1>2. CASE pc[t] \in BetweenPlaces /\ to \notin BetweenPlaces
  <2>1. Between' = Between \ {t} /\ t \in Between
    BY <1>0, <1>2 DEF Between, At
  <2> QED BY <1>2, <2>1, CountOfBetween, FS_RemoveElement
<1>3. CASE pc[t] \in BetweenPlaces <=> to \in BetweenPlaces
  <2>1. Between' = Between
    BY <1>0, <1>3 DEF Between, At
  <2> QED BY <1>3, <2>1
<1> QED BY <1>1, <1>2, <1>3

-----------------------------------------------------------------------------
(* The initial states                                                       *)

\* Where the consumer may begin a round.
RoundStart(n) ==
  \/ ~(n < nitems) /\ NextRound(n) = "done"
  \/ n < nitems /\ prog = "prodcons1" /\ NextRound(n) = "check"
  \/ n < nitems /\ prog = "prodcons2" /\ NextRound(n) = "w_lock"
  \/ n < nitems /\ prog = "prodcons6" /\ NextRound(n) = "n_lock"

LEMMA RoundStarts ==
  ASSUME prog \in Programs, NEW n \in Nat
  PROVE  RoundStart(n)
<1>1. prog \in {"prodcons1", "prodcons2", "prodcons6"}
  OBVIOUS
<1> QED BY <1>1 DEF RoundStart, NextRound, LoopStart

LEMMA InitInv == Init => IInv
<1> SUFFICES ASSUME Init PROVE IInv
  OBVIOUS
<1>1. prog \in {"prodcons1", "prodcons2", "prodcons6"}
  BY DEF Init, MutexAssumption
<1>2. Between = {}
  BY DEF Init, Between, At, BetweenPlaces
<1>3. Cardinality(Between) = 0
  BY <1>2, FS_EmptySet
<1>4. RoundStart(0)
  BY RoundStarts DEF Init
<1>5. Types /\ PutMutex /\ ReadyMutex /\ OwnPlaces
  <2>0. buff \in [0..nitems-1 -> 0..nitems-1]
    <3>1. \A slot \in 0..nitems-1 : 0 \in 0..nitems-1
      OBVIOUS
    <3> QED BY <3>1 DEF Init
  <2>1. Types
    BY <1>1, <1>4, <2>0 DEF Init, RoundStart, Types, ProducerPlaces, ConsumerPlaces
  <2>2. PutMutex /\ ReadyMutex /\ OwnPlaces
    BY <1>1, <1>4 DEF Init, RoundStart, PutMutex, ReadyMutex, OwnPlaces, PutPlaces, ReadyPlaces
  <2> QED BY <2>1, <2>2
<1>6. Filled /\ StopsLast /\ OwnItems /\ Behind
  BY <1>1, <1>4 DEF Init, RoundStart, Filled, StopsLast, OwnItems, Behind, ReadyPlaces
<1>7. Agree
  BY <1>1, <1>3, <1>4 DEF Init, RoundStart, Taken, Agree
<1> QED BY <1>5, <1>6, <1>7, ReadyCount DEF Init, IInv

-----------------------------------------------------------------------------
(* The steps                                                                *)

LEMMA ProduceLockInv ==
  ASSUME IInv, NEW t \in Producers, ProduceLock(t)
  PROVE  IInv'
<1> USE DEF IInv, Types, ProducerPlaces, ConsumerPlaces, ProduceLock, PutStep, ReadyStep, Goto, consumerVars, putVars, locks
<1>1. Types'
  BY DEF Filled, Wake
<1>2. PutMutex' /\ ReadyMutex' /\ OwnPlaces'
  BY DEF PutMutex, ReadyMutex, OwnPlaces, PutPlaces, ReadyPlaces, Wake
<1>3. Filled'
  BY DEF Filled, PutMutex, PutPlaces
<1>4. StopsLast' /\ OwnItems'
  BY DEF StopsLast, OwnItems, ReadyPlaces
<1>5. Behind'
  BY DEF Behind, At, Wake
<1>6. Agree'
  <2>1. pc[t] = "lock" /\ Goto(t, IF nput >= nitems THEN "end_unlock" ELSE "store")
    OBVIOUS
  <2>2. Cardinality(Between)' = Cardinality(Between)
    BY <2>1, BetweenMoves DEF BetweenPlaces
  <2>3. Taken' = Taken
    BY DEF Taken, Wake
  <2> QED BY <2>2, <2>3, CountOfBetween, ReadyCount DEF Agree
<1> QED BY <1>1, <1>2, <1>3, <1>4, <1>5, <1>6, ReadyCount

LEMMA ProduceStoreInv ==
  ASSUME IInv, NEW t \in Producers, ProduceStore(t)
  PROVE  IInv'
<1> USE DEF IInv, Types, ProducerPlaces, ConsumerPlaces, ProduceStore, PutStep, ReadyStep, Goto, consumerVars, putVars, locks
<1>1. Types'
  BY DEF Filled, Wake
<1>2. PutMutex' /\ ReadyMutex' /\ OwnPlaces'
  BY DEF PutMutex, ReadyMutex, OwnPlaces, PutPlaces, ReadyPlaces, Wake
<1>3. Filled'
  BY DEF Filled, PutMutex, PutPlaces
<1>4. StopsLast' /\ OwnItems'
  BY DEF StopsLast, OwnItems, ReadyPlaces
<1>5. Behind'
  BY DEF Behind, At, Wake
<1>6. Agree'
  <2>1. pc[t] = "store" /\ Goto(t, "advance")
    OBVIOUS
  <2>2. Cardinality(Between)' = Cardinality(Between)
    BY <2>1, BetweenMoves DEF BetweenPlaces
  <2>3. Taken' = Taken
    BY DEF Taken, Wake
  <2> QED BY <2>2, <2>3, CountOfBetween, ReadyCount DEF Agree
<1> QED BY <1>1, <1>2, <1>3, <1>4, <1>5, <1>6, ReadyCount

LEMMA ProduceAdvanceInv ==
  ASSUME IInv, NEW t \in Producers, ProduceAdvance(t)
  PROVE  IInv'
<1> USE DEF IInv, Types, ProducerPlaces, ConsumerPlaces, ProduceAdvance, PutStep, ReadyStep, Goto, consumerVars, putVars, locks
<1>1. Types'
  BY DEF Filled, Wake
<1>2. PutMutex' /\ ReadyMutex' /\ OwnPlaces'
  BY DEF PutMutex, ReadyMutex, OwnPlaces, PutPlaces, ReadyPlaces, Wake
<1>3. Filled'
  <2>1. /\ pc[t] = "advance" /\ pc' = [pc EXCEPT ![t] = "unlock"]
        /\ nput' = nput + 1 /\ buff' = buff
    OBVIOUS
  <2>2. nput' <= nitems /\ \A k \in 0..nput'-1 : buff'[k] = k
    <3>1. /\ nput \in Nat /\ nput < nitems /\ buff[nput] = nput
          /\ \A k \in 0..nput-1 : buff[k] = k
      BY <2>1 DEF Filled
    <3>2. \A k \in 0..nput'-1 : k \in 0..nput-1 \/ k = nput
      BY ONLY <2>1, <3>1
    <3> QED BY ONLY <2>1, <3>1, <3>2, MutexAssumption
  <2>3. \A u \in Producers : pc'[u] \notin {"store", "advance"}
    BY <2>1 DEF PutMutex, PutPlaces
  <2> QED BY <2>2, <2>3 DEF Filled
<1>4. StopsLast' /\ OwnItems'
  BY DEF StopsLast, OwnItems, ReadyPlaces
<1>5. Behind'
  BY DEF Behind, At, Wake
<1>6. Agree'
  <2>1. pc[t] = "advance" /\ Goto(t, "unlock")
    OBVIOUS
  <2>2. Cardinality(Between)' = Cardinality(Between) + 1
    BY <2>1, BetweenMoves DEF BetweenPlaces
  <2>3. Taken' = Taken /\ Taken \in Nat
    BY DEF Taken, Wake
  <2>4. /\ nput \in Nat /\ nready \in Nat
        /\ prog' = prog /\ nput' = nput + 1 /\ nready' = nready
    OBVIOUS
  <2>5. Agree
    BY ReadyCount
  <2> QED BY ONLY <2>2, <2>3, <2>4, <2>5, CountOfBetween DEF Agree
<1> QED BY <1>1, <1>2, <1>3, <1>4, <1>5, <1>6, ReadyCount

LEMMA ProduceUnlockInv ==
  ASSUME IInv, NEW t \in Producers, ProduceUnlock(t)
  PROVE  IInv'
<1> USE DEF IInv, Types, ProducerPlaces, ConsumerPlaces, ProduceUnlock, PutStep, ReadyStep, Goto, consumerVars, putVars, locks
<1>1. Types'
  BY DEF Filled, Wake
<1>2. PutMutex' /\ ReadyMutex' /\ OwnPlaces'
  BY DEF PutMutex, ReadyMutex, OwnPlaces, PutPlaces, ReadyPlaces, Wake
<1>3. Filled'
  BY DEF Filled, PutMutex, PutPlaces
<1>4. StopsLast' /\ OwnItems'
  BY DEF StopsLast, OwnItems, ReadyPlaces
<1>5. Behind'
  BY DEF Behind, At, Wake
<1>6. Agree'
  <2>1. CASE prog = "prodcons6"
    <3>1. pc[t] = "unlock" /\ Goto(t, "r_lock")
      BY <2>1
    <3>2. Cardinality(Between)' = Cardinality(Between)
      BY <3>1, BetweenMoves DEF BetweenPlaces
    <3> QED BY <3>2, ReadyCount DEF Agree, Taken
  <2>2. CASE prog # "prodcons6"
    BY <2>2 DEF Agree
  <2> QED BY <2>1, <2>2
<1> QED BY <1>1, <1>2, <1>3, <1>4, <1>5, <1>6, ReadyCount

LEMMA ProduceReturnsInv ==
  ASSUME IInv, NEW t \in Producers, ProduceReturns(t)
  PROVE  IInv'
<1> USE DEF IInv, Types, ProducerPlaces, ConsumerPlaces, ProduceReturns, PutStep, ReadyStep, Goto, consumerVars, putVars, locks
<1>1. Types'
  BY DEF Filled, Wake
<1>2. PutMutex' /\ ReadyMutex' /\ OwnPlaces'
  BY DEF PutMutex, ReadyMutex, OwnPlaces, PutPlaces, ReadyPlaces, Wake
<1>3. Filled'
  BY DEF Filled, PutMutex, PutPlaces
<1>4. StopsLast' /\ OwnItems'
  BY DEF StopsLast, OwnItems, ReadyPlaces
<1>5. Behind'
  BY DEF Behind, At, Wake
<1>6. Agree'
  <2>1. pc[t] = "end_unlock" /\ Goto(t, "done")
    OBVIOUS
  <2>2. Cardinality(Between)' = Cardinality(Between)
    BY <2>1, BetweenMoves DEF BetweenPlaces
  <2>3. Taken' = Taken
    BY DEF Taken, Wake
  <2> QED BY <2>2, <2>3, CountOfBetween, ReadyCount DEF Agree
<1> QED BY <1>1, <1>2, <1>3, <1>4, <1>5, <1>6, ReadyCount

LEMMA ReadyLockInv ==
  ASSUME IInv, NEW t \in Producers, ReadyLock(t)
  PROVE  IInv'
<1> USE DEF IInv, Types, ProducerPlaces, ConsumerPlaces, ReadyLock, PutStep, ReadyStep, Goto, consumerVars, putVars, locks
<1>1. Types'
  BY DEF Filled, Wake
<1>2. PutMutex' /\ ReadyMutex' /\ OwnPlaces'
  BY DEF PutMutex, ReadyMutex, OwnPlaces, PutPlaces, ReadyPlaces, Wake
<1>3. Filled'
  BY DEF Filled, PutMutex, PutPlaces
<1>4. StopsLast' /\ OwnItems'
  BY DEF StopsLast, OwnItems, ReadyPlaces
<1>5. Behind'
  BY DEF Behind, At, Wake
<1>6. Agree'
  <2>1. pc[t] = "r_lock" /\ Goto(t, "r_signal")
    OBVIOUS
  <2>2. Cardinality(Between)' = Cardinality(Between)
    BY <2>1, BetweenMoves DEF BetweenPlaces
  <2>3. Taken' = Taken
    BY DEF Taken, Wake
  <2> QED BY <2>2, <2>3, CountOfBetween, ReadyCount DEF Agree
<1> QED BY <1>1, <1>2, <1>3, <1>4, <1>5, <1>6, ReadyCount

LEMMA ReadySignalInv ==
  ASSUME IInv, NEW t \in Producers, ReadySignal(t)
  PROVE  IInv'
<1> USE DEF IInv, Types, ProducerPlaces, ConsumerPlaces, ReadySignal, PutStep, ReadyStep, Goto, consumerVars, putVars, locks
<1>1. Types'
  BY DEF Filled, Wake
<1>2. PutMutex' /\ ReadyMutex' /\ OwnPlaces'
  BY DEF PutMutex, ReadyMutex, OwnPlaces, PutPlaces, ReadyPlaces, Wake
<1>3. Filled'
  BY DEF Filled, PutMutex, PutPlaces
<1>4. StopsLast' /\ OwnItems'
  BY DEF StopsLast, OwnItems, ReadyPlaces
<1>5. Behind'
  BY DEF Behind, At, Wake
<1>6. Agree'
  <2>1. pc[t] = "r_signal" /\ Goto(t, "r_incr")
    OBVIOUS
  <2>2. Cardinality(Between)' = Cardinality(Between)
    BY <2>1, BetweenMoves DEF BetweenPlaces
  <2>3. Taken' = Taken
    BY DEF Taken, Wake
  <2> QED BY <2>2, <2>3, CountOfBetween, ReadyCount DEF Agree
<1> QED BY <1>1, <1>2, <1>3, <1>4, <1>5, <1>6, ReadyCount

LEMMA ReadyIncrementInv ==
  ASSUME IInv, NEW t \in Producers, ReadyIncrement(t)
  PROVE  IInv'
<1> USE DEF IInv, Types, ProducerPlaces, ConsumerPlaces, ReadyIncrement, PutStep, ReadyStep, Goto, consumerVars, putVars, locks
<1>1. Types'
  BY DEF Filled, Wake
<1>2. PutMutex' /\ ReadyMutex' /\ OwnPlaces'
  BY DEF PutMutex, ReadyMutex, OwnPlaces, PutPlaces, ReadyPlaces, Wake
<1>3. Filled'
  BY DEF Filled, PutMutex, PutPlaces
<1>4. StopsLast' /\ OwnItems'
  BY DEF StopsLast, OwnItems, ReadyPlaces
<1>5. Behind'
  BY DEF Behind, At, Wake
<1>6. Agree'
  <2>1. pc[t] = "r_incr" /\ Goto(t, "r_unlock")
    OBVIOUS
  <2>2. Cardinality(Between)' = Cardinality(Between) - 1
    BY <2>1, BetweenMoves DEF BetweenPlaces
  <2>3. Taken' = Taken /\ Taken \in Nat
    BY DEF Taken, Wake
  <2>4. /\ nput \in Nat /\ nready \in Nat
        /\ prog' = prog /\ nput' = nput /\ nready' = nready + 1
    OBVIOUS
  <2>5. Agree
    BY ReadyCount
  <2> QED BY ONLY <2>2, <2>3, <2>4, <2>5, CountOfBetween DEF Agree
<1> QED BY <1>1, <1>2, <1>3, <1>4, <1>5, <1>6, ReadyCount

LEMMA ReadyUnlockInv ==
  ASSUME IInv, NEW t \in Producers, ReadyUnlock(t)
  PROVE  IInv'
<1> USE DEF IInv, Types, ProducerPlaces, ConsumerPlaces, ReadyUnlock, PutStep, ReadyStep, Goto, consumerVars, putVars, locks
<1>1. Types'
  BY DEF Filled, Wake
<1>2. PutMutex' /\ ReadyMutex' /\ OwnPlaces'
  BY DEF PutMutex, ReadyMutex, OwnPlaces, PutPlaces, ReadyPlaces, Wake
<1>3. Filled'
  BY DEF Filled, PutMutex, PutPlaces
<1>4. StopsLast' /\ OwnItems'
  BY DEF StopsLast, OwnItems, ReadyPlaces
<1>5. Behind'
  BY DEF Behind, At, Wake
<1>6. Agree'
  <2>1. pc[t] = "r_unlock" /\ Goto(t, "count")
    OBVIOUS
  <2>2. Cardinality(Between)' = Cardinality(Between)
    BY <2>1, BetweenMoves DEF BetweenPlaces
  <2>3. Taken' = Taken
    BY DEF Taken, Wake
  <2> QED BY <2>2, <2>3, CountOfBetween, ReadyCount DEF Agree
<1> QED BY <1>1, <1>2, <1>3, <1>4, <1>5, <1>6, ReadyCount

LEMMA ProduceCountInv ==
  ASSUME IInv, NEW t \in Producers, ProduceCount(t)
  PROVE  IInv'
<1> USE DEF IInv, Types, ProducerPlaces, ConsumerPlaces, ProduceCount, PutStep, ReadyStep, Goto, consumerVars, putVars, locks
<1>1. Types'
  BY DEF Filled, Wake
<1>2. PutMutex' /\ ReadyMutex' /\ OwnPlaces'
  BY DEF PutMutex, ReadyMutex, OwnPlaces, PutPlaces, ReadyPlaces, Wake
<1>3. Filled'
  BY DEF Filled, PutMutex, PutPlaces
<1>4. StopsLast' /\ OwnItems'
  BY DEF StopsLast, OwnItems, ReadyPlaces
<1>5. Behind'
  BY DEF Behind, At, Wake
<1>6. Agree'
  <2>1. pc[t] = "count" /\ Goto(t, "lock")
    OBVIOUS
  <2>2. Cardinality(Between)' = Cardinality(Between)
    BY <2>1, BetweenMoves DEF BetweenPlaces
  <2>3. Taken' = Taken
    BY DEF Taken, Wake
  <2> QED BY <2>2, <2>3, CountOfBetween, ReadyCount DEF Agree
<1> QED BY <1>1, <1>2, <1>3, <1>4, <1>5, <1>6, ReadyCount

\* The consumer leaves the producers alone, and what it takes from nready it
\* has.
LEMMA ConsumerInv ==
  ASSUME IInv, Consume \/ SpuriousWakeup
  PROVE  IInv'
<1> USE DEF IInv, Types, ConsumerStep, putVars, locks
<1>1. UNCHANGED <<prog, buff, nput, nval, pc, count>>
  BY DEF Consume, SpuriousWakeup, CreateConsumer, WaitTest, WaitUnlock, ReadyTake, ReadyWait,
         ReadyTaken, Check
<1>2. Between' = Between
  BY <1>1 DEF Between, At
<1>3. Filled' /\ StopsLast' /\ OwnItems'
  BY <1>1 DEF Filled, StopsLast, OwnItems
<1>4. RoundStart(0) /\ RoundStart(i + 1)
  BY RoundStarts
<1>5. prog = "prodcons1" /\ At({"done"}) = Producers => nput = nitems
  BY DEF At, StopsLast, Filled
<1>a. Agree
  BY ReadyCount
<1>b. At({"done"})' = At({"done"})
  BY <1>1 DEF At
<1> SUFFICES Types' /\ PutMutex' /\ ReadyMutex' /\ OwnPlaces' /\ Behind' /\ Agree' /\ ~wrong'
  BY <1>3, ReadyCount
<1>6. CASE CreateConsumer
  <2>1. /\ cpc = "not_created" /\ cpc' = NextRound(0) /\ prog = "prodcons1"
        /\ At({"done"}) = Producers
        /\ UNCHANGED <<nready, mutex, rmutex, i, wrong>>
    BY <1>6 DEF CreateConsumer, OwnPlaces
  <2>2. Types' /\ PutMutex' /\ ReadyMutex' /\ OwnPlaces'
    BY <1>1, <2>1, <1>4 DEF PutMutex, ReadyMutex, OwnPlaces, ConsumerPlaces, RoundStart
  <2>3. Behind'
    BY <1>1, <1>b, <2>1, <1>4, <1>5 DEF Behind, RoundStart
  <2>4. Agree'
    BY <1>1, <1>2, <2>1, <1>a, <1>4, CountOfBetween DEF Agree, Taken, RoundStart
  <2> QED BY <1>6, <2>1, <2>2, <2>3, <2>4
<1>7. CASE WaitTest
  <2>1. /\ cpc = "w_lock" /\ cpc' = (IF i < nput THEN "w_found" ELSE "w_again")
        /\ ~mutex /\ mutex' = TRUE
        /\ UNCHANGED <<nready, rmutex, i, wrong>>
    BY <1>7 DEF WaitTest
  <2>2. Types' /\ PutMutex' /\ ReadyMutex' /\ OwnPlaces'
    BY <1>1, <2>1 DEF PutMutex, ReadyMutex, OwnPlaces, ConsumerPlaces, RoundStart
  <2>3. Behind'
    BY <1>1, <1>b, <2>1 DEF Behind
  <2>4. Agree'
    BY <1>1, <1>2, <2>1, <1>a, CountOfBetween DEF Agree, Taken
  <2> QED BY <1>7, <2>1, <2>2, <2>3, <2>4
<1>8. CASE WaitUnlock
  <2>1. /\ \/ cpc = "w_found" /\ cpc' = "check"
           \/ cpc = "w_again" /\ cpc' = "w_lock"
        /\ mutex' = FALSE /\ prog = "prodcons2"
        /\ UNCHANGED <<nready, rmutex, i, wrong>>
    BY <1>8 DEF WaitUnlock, OwnPlaces
  <2>2. Types' /\ PutMutex' /\ ReadyMutex' /\ OwnPlaces'
    BY <1>1, <2>1 DEF PutMutex, ReadyMutex, OwnPlaces, ConsumerPlaces, RoundStart
  <2>3. Behind'
    BY <1>1, <1>b, <2>1 DEF Behind
  <2>4. Agree'
    BY <1>1, <1>2, <2>1, <1>a, CountOfBetween DEF Agree, Taken
  <2> QED BY <1>8, <2>1, <2>2, <2>3, <2>4
<1>9. CASE ReadyTake
  <2>1. /\ cpc \in {"n_lock", "woken"} /\ cpc' = "n_unlock"
        /\ nready > 0 /\ nready' = nready - 1
        /\ ~rmutex /\ rmutex' = TRUE
        /\ UNCHANGED <<mutex, i, wrong>>
    BY <1>9 DEF ReadyTake
  <2>2. Types' /\ PutMutex' /\ ReadyMutex' /\ OwnPlaces'
    BY <1>1, <2>1 DEF PutMutex, ReadyMutex, OwnPlaces, ConsumerPlaces, RoundStart
  <2>3. Behind'
    BY <1>1, <1>b, <2>1 DEF Behind
  <2>4. Agree'
    <3>1. Taken' = Taken + 1 /\ Taken \in Nat /\ nready \in Nat /\ nput \in Nat
      BY <1>1, <2>1 DEF Taken
    <3> QED BY ONLY <1>1, <1>2, <1>a, <2>1, <3>1, CountOfBetween DEF Agree
  <2> QED BY <1>9, <2>1, <2>2, <2>3, <2>4
<1>10. CASE ReadyWait
  <2>1. /\ cpc \in {"n_lock", "woken"} /\ cpc' = "asleep"
        /\ UNCHANGED <<nready, mutex, rmutex, i, wrong>>
    BY <1>10 DEF ReadyWait
  <2>2. Types' /\ PutMutex' /\ ReadyMutex' /\ OwnPlaces'
    BY <1>1, <2>1 DEF PutMutex, ReadyMutex, OwnPlaces, ConsumerPlaces, RoundStart
  <2>3. Behind'
    BY <1>1, <1>b, <2>1 DEF Behind
  <2>4. Agree'
    BY <1>1, <1>2, <2>1, <1>a, CountOfBetween DEF Agree, Taken
  <2> QED BY <1>10, <2>1, <2>2, <2>3, <2>4
<1>11. CASE ReadyTaken
  <2>1. /\ cpc = "n_unlock" /\ cpc' = "check" /\ prog = "prodcons6"
        /\ rmutex' = FALSE
        /\ UNCHANGED <<nready, mutex, i, wrong>>
    BY <1>11 DEF ReadyTaken, OwnPlaces
  <2>2. Types' /\ PutMutex' /\ ReadyMutex' /\ OwnPlaces'
    BY <1>1, <2>1 DEF PutMutex, ReadyMutex, OwnPlaces, ConsumerPlaces, RoundStart
  <2>3. Behind'
    BY <1>1, <2>1, <1>a, CountOfBetween DEF Behind, Agree, Taken
  <2>4. Agree'
    BY <1>1, <1>2, <2>1, <1>a, CountOfBetween DEF Agree, Taken
  <2> QED BY <1>11, <2>1, <2>2, <2>3, <2>4
<1>12. CASE Check
  <2>1. /\ cpc = "check" /\ cpc' = NextRound(i + 1) /\ i' = i + 1
        /\ UNCHANGED <<nready, mutex, rmutex>>
        /\ i \in 0..nput-1 /\ i + 1 <= nitems
    BY <1>12 DEF Check, Behind, Filled
  <2>2. Types' /\ ~wrong'
    BY <1>1, <1>4, <1>12, <2>1 DEF Check, Filled, RoundStart, ConsumerPlaces
  <2>3. PutMutex' /\ ReadyMutex' /\ OwnPlaces'
    BY <1>1, <1>4, <2>1 DEF PutMutex, ReadyMutex, OwnPlaces, RoundStart
  <2>4. Behind'
    BY <1>1, <1>b, <1>4, <1>5, <2>1 DEF Behind, RoundStart
  <2>5. CASE prog = "prodcons6"
    <3>1. Taken' = Taken /\ prog' = prog /\ nready' = nready /\ nput' = nput
      BY <1>1, <1>4, <2>1, <2>5 DEF Taken, RoundStart
    <3>2. Agree'
      BY <1>2, <1>a, <3>1 DEF Agree
    <3> QED BY <2>2, <2>3, <2>4, <3>2
  <2>6. CASE prog # "prodcons6"
    BY <1>1, <2>2, <2>3, <2>4, <2>6 DEF Agree
  <2> QED BY <2>5, <2>6
<1>13. CASE SpuriousWakeup
  <2>1. /\ cpc = "asleep" /\ cpc' = "woken"
        /\ UNCHANGED <<nready, mutex, rmutex, i, wrong>>
    BY <1>13 DEF SpuriousWakeup
  <2>2. Types' /\ PutMutex' /\ ReadyMutex' /\ OwnPlaces'
    BY <1>1, <2>1 DEF PutMutex, ReadyMutex, OwnPlaces, ConsumerPlaces, RoundStart
  <2>3. Behind'
    BY <1>1, <1>b, <2>1 DEF Behind
  <2>4. Agree'
    BY <1>1, <1>2, <2>1, <1>a, CountOfBetween DEF Agree, Taken
  <2> QED BY <1>13, <2>1, <2>2, <2>3, <2>4
<1> QED BY <1>6, <1>7, <1>8, <1>9, <1>10, <1>11, <1>12, <1>13 DEF Consume

LEMMA StutterInv ==
  ASSUME IInv, UNCHANGED vars
  PROVE  IInv'
<1>1. /\ UNCHANGED <<prog, buff, nput, nval, mutex, nready, rmutex>>
      /\ UNCHANGED <<pc, count, cpc, i, wrong>>
  BY DEF vars, putVars, locks, consumerVars
<1> QED BY <1>1 DEF IInv, Types, PutMutex, ReadyMutex, OwnPlaces, Filled, StopsLast, OwnItems,
                    Behind, ReadyIsStored, At

LEMMA StepInv ==
  ASSUME IInv, [Next]_vars
  PROVE  IInv'
<1>1. ASSUME NEW t \in Producers, Produce(t) PROVE IInv'
  BY <1>1, ProduceLockInv, ProduceStoreInv, ProduceAdvanceInv, ProduceUnlockInv, ProduceReturnsInv,
     ReadyLockInv, ReadySignalInv, ReadyIncrementInv, ReadyUnlockInv, ProduceCountInv
     DEF Produce
<1> QED BY <1>1, ConsumerInv, StutterInv DEF Next, Terminated

-----------------------------------------------------------------------------
(* The theorems                                                             *)

LEMMA AlwaysIInv == Spec => []IInv
<1>1. IInv /\ [Next]_vars => IInv'
  BY StepInv
<1> QED BY <1>1, InitInv, PTL DEF Spec

\* The types; in particular nobody counts past nitems.
THEOREM TypeCorrect == Spec => []TypeOK
<1>1. IInv => TypeOK
  <2> SUFFICES ASSUME IInv PROVE TypeOK
    OBVIOUS
  <2>1. nput \in 0..nitems /\ nval \in 0..nitems /\ i \in 0..nitems
    BY DEF IInv, Types, Filled, Behind
  <2>2. count \in [Producers -> 0..nitems]
    BY <2>1 DEF IInv, Types, OwnItems
  <2>3. nready \in 0..nitems
    <3>1. Taken \in Nat /\ nready \in Nat /\ nitems \in Nat
      BY DEF IInv, Types, Taken
    <3>2. Agree /\ (prog # "prodcons6" => nready = 0)
      BY ReadyCount DEF IInv, OwnPlaces
    <3> QED BY ONLY <2>1, <3>1, <3>2, CountOfBetween DEF Agree
  <2> QED BY <2>1, <2>2, <2>3 DEF IInv, Types, TypeOK, ProducerPlaces, ConsumerPlaces
<1> QED BY <1>1, AlwaysIInv, PTL

\* The consumer reads a slot that is filled and that nobody writes, with no
\* lock held, in all three programs.
THEOREM ReadNeedsNoLock == Spec => []UnlockedReadIsSafe
<1>1. IInv => UnlockedReadIsSafe
  BY DEF IInv, Behind, UnlockedReadIsSafe
<1> QED BY <1>1, AlwaysIInv, PTL

\* The counter of prodcons6 that the consumer waits for agrees with the index of
\* the producers, which another mutex protects.
THEOREM CountersAgree == Spec => []ReadyIsStored
<1>1. IInv => ReadyIsStored
  BY DEF IInv
<1> QED BY <1>1, AlwaysIInv, PTL
=============================================================================
