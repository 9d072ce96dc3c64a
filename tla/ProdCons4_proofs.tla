--------------------------- MODULE ProdCons4_proofs ---------------------------
(***************************************************************************)
(* Theorems about ProdCons4, for any finite sets of producers and          *)
(* consumers, any number of items and any size of the ring.                *)
(*                                                                         *)
(* The invariant counts tokens.  Each semaphore and the threads that have  *)
(* taken one of its tokens together account for the slots (nempty), for    *)
(* the items and the extra tokens of the producers that stopped (nstored), *)
(* and for the one thread in a critical section (mutex).                   *)
(***************************************************************************)
EXTENDS ProdCons4, FiniteSetTheorems, SequenceTheorems, TLAPS

\* The types, without the signs of the semaphores and the order of the
\* indices, which follow from what is counted.
Types ==
  /\ buff \in [0..NBUFF-1 -> Nat]
  /\ nput \in Nat /\ nget \in Nat
  /\ mutex \in Nat /\ nempty \in Nat /\ nstored \in Nat
  /\ pc \in [Threads -> ProducerStates \cup ConsumerStates]
  /\ \A t \in Producers : pc[t] \in ProducerStates
  /\ \A t \in Consumers : pc[t] \in ConsumerStates
  /\ count \in [Threads -> Nat]
  /\ reported \in BOOLEAN

\* Threads between Sem_wait and Sem_post of the mutex.
CritStates == {"p_store", "p_advance", "p_unlock", "p_end_stored", "p_end_empty",
               "c_check", "c_advance", "c_unlock", "c_end_stored", "end_unlock"}
OneInside == mutex + Cardinality(At(CritStates)) = 1

\* Consumers with a token of nstored, producers that still owe one, and
\* producers that have left their extra one behind.
Holding == At({"c_mutex", "c_check", "c_advance", "c_end_stored"})
Owing == At({"p_unlock", "p_stored"})
Stopped == {t \in Producers : pc[t] \in {"p_end_empty", "end_unlock", "done"}}
ItemsConserved ==
  nstored + Cardinality(Holding) + Cardinality(Owing)
    = (nput - nget) + Cardinality(Stopped)

\* Producers stop only when everything is produced.
StopsLast ==
  \A t \in Producers :
    pc[t] \in {"p_end_stored", "p_end_empty", "end_unlock", "done"} => nput >= nitems

\* The slots from nget to nput hold the items of these numbers.
Content ==
  /\ nputval = nput /\ ngetval = nget
  /\ nget <= nput /\ nput <= nitems
  /\ \A i \in nget..(nput-1) : buff[i % NBUFF] = i

\* Between the two steps of a critical section.
Advancing ==
  \A t \in Threads :
    /\ pc[t] = "p_advance" => nput < nitems /\ buff[nput % NBUFF] = nput
    /\ pc[t] = "c_advance" => nget < nput

IInv ==
  /\ Types
  /\ OneInside
  /\ SlotsConserved
  /\ ItemsConserved
  /\ StopsLast
  /\ Content
  /\ Advancing
  /\ NoErrorReported

USE PCAssumption

-----------------------------------------------------------------------------
(* Counting threads                                                         *)

\* Every set of threads is finite, and has a size of at least one if there is
\* a thread in it.
LEMMA ThreadSets ==
  ASSUME NEW S \in SUBSET Threads
  PROVE  /\ IsFiniteSet(S)
         /\ Cardinality(S) \in Nat
         /\ \A t \in S : Cardinality(S) >= 1
<1>1. IsFiniteSet(Threads)
  BY FS_Union DEF PCAssumption, Threads
<1>2. IsFiniteSet(S) /\ Cardinality(S) \in Nat
  BY <1>1, FS_Subset, FS_CardinalityType
<1>3. S # {} => Cardinality(S) # 0
  BY <1>2, FS_EmptySet
<1> QED BY <1>2, <1>3

\* The threads of T whose place is in S.
In(T, S) == {u \in T : pc[u] \in S}

\* What a move from a to b does to the number of threads in S.
Change(S, a, b, d) ==
  \/ d = 0 /\ (a \in S <=> b \in S)
  \/ d = 1 /\ a \notin S /\ b \in S
  \/ d = -1 /\ a \in S /\ b \notin S

\* One thread moves, and the count changes by what Change says.
LEMMA Moves ==
  ASSUME Types, NEW T \in SUBSET Threads, NEW S, NEW t \in T, NEW to, Goto(t, to),
         NEW d, Change(S, pc[t], to, d)
  PROVE  Cardinality(In(T, S))' = Cardinality(In(T, S)) + d
<1>0. /\ In(T, S) \in SUBSET Threads
      /\ pc' = [pc EXCEPT ![t] = to] /\ pc \in [Threads -> ProducerStates \cup ConsumerStates]
  BY DEF In, Types, Goto
<1>f. IsFiniteSet(In(T, S)) /\ Cardinality(In(T, S)) \in Nat
  BY <1>0, ThreadSets
<1>1. CASE d = 0 /\ (pc[t] \in S <=> to \in S)
  <2>1. In(T, S)' = In(T, S)
    BY <1>0, <1>1 DEF In
  <2> QED BY <1>f, <1>1, <2>1
<1>2. CASE d = 1 /\ pc[t] \notin S /\ to \in S
  <2>1. In(T, S)' = In(T, S) \cup {t} /\ t \notin In(T, S)
    BY <1>0, <1>2 DEF In
  <2> QED BY <1>f, <1>2, <2>1, FS_AddElement
<1>3. CASE d = -1 /\ pc[t] \in S /\ to \notin S
  <2>1. In(T, S)' = In(T, S) \ {t} /\ t \in In(T, S)
    BY <1>0, <1>3 DEF In
  <2>2. Cardinality(In(T, S) \ {t}) = Cardinality(In(T, S)) - 1
    BY <1>f, <2>1, FS_RemoveElement
  <2> QED BY <1>f, <1>3, <2>1, <2>2
<1> QED BY <1>1, <1>2, <1>3 DEF Change

\* The sets the invariant counts.
CritNow == At(CritStates)
TakingStates == {"p_mutex", "p_store", "p_advance", "p_end_stored", "p_end_empty"}
GivingStates == {"c_unlock", "c_empty"}
HoldingStates == {"c_mutex", "c_check", "c_advance", "c_end_stored"}
OwingStates == {"p_unlock", "p_stored"}
StoppedStates == {"p_end_empty", "end_unlock", "done"}

\* The counts move by these amounts in a step.
Counts(crit, taking, giving, holding, owing, stopped) ==
  /\ Cardinality(CritNow)' = Cardinality(CritNow) + crit
  /\ Cardinality(TakingSlot)' = Cardinality(TakingSlot) + taking
  /\ Cardinality(GivingSlot)' = Cardinality(GivingSlot) + giving
  /\ Cardinality(Holding)' = Cardinality(Holding) + holding
  /\ Cardinality(Owing)' = Cardinality(Owing) + owing
  /\ Cardinality(Stopped)' = Cardinality(Stopped) + stopped

\* All counts are natural numbers.
LEMMA CountTypes ==
  /\ CritNow \in SUBSET Threads /\ TakingSlot \in SUBSET Threads
  /\ GivingSlot \in SUBSET Threads /\ Holding \in SUBSET Threads
  /\ Owing \in SUBSET Threads /\ Stopped \in SUBSET Threads
  /\ Cardinality(CritNow) \in Nat /\ Cardinality(TakingSlot) \in Nat
  /\ Cardinality(GivingSlot) \in Nat /\ Cardinality(Holding) \in Nat
  /\ Cardinality(Owing) \in Nat /\ Cardinality(Stopped) \in Nat
<1>1. /\ CritNow \in SUBSET Threads /\ TakingSlot \in SUBSET Threads
      /\ GivingSlot \in SUBSET Threads /\ Holding \in SUBSET Threads
      /\ Owing \in SUBSET Threads /\ Stopped \in SUBSET Threads
  BY DEF CritNow, TakingSlot, GivingSlot, Holding, Owing, Stopped, At, Threads
<1> QED BY <1>1, ThreadSets

\* The counts after one thread has moved.
LEMMA CountsOf ==
  ASSUME Types, NEW t \in Threads, NEW to, Goto(t, to),
         NEW crit, NEW taking, NEW giving, NEW holding, NEW owing, NEW stopped,
         Change(CritStates, pc[t], to, crit),
         Change(TakingStates, pc[t], to, taking),
         Change(GivingStates, pc[t], to, giving),
         Change(HoldingStates, pc[t], to, holding),
         Change(OwingStates, pc[t], to, owing),
         \/ t \in Producers /\ Change(StoppedStates, pc[t], to, stopped)
         \/ t \in Consumers /\ stopped = 0
  PROVE  Counts(crit, taking, giving, holding, owing, stopped)
<1>1. Cardinality(CritNow)' = Cardinality(CritNow) + crit
  <2>1. CritNow = In(Threads, CritStates) /\ CritNow' = In(Threads, CritStates)'
    BY DEF CritNow, At, In
  <2>2. Cardinality(In(Threads, CritStates))' = Cardinality(In(Threads, CritStates)) + crit
    BY Moves
  <2> QED BY <2>1, <2>2
<1>2. Cardinality(TakingSlot)' = Cardinality(TakingSlot) + taking
  <2>1. TakingSlot = In(Threads, TakingStates) /\ TakingSlot' = In(Threads, TakingStates)'
    BY DEF TakingSlot, At, In, TakingStates
  <2>2. Cardinality(In(Threads, TakingStates))' = Cardinality(In(Threads, TakingStates)) + taking
    BY Moves
  <2> QED BY <2>1, <2>2
<1>3. Cardinality(GivingSlot)' = Cardinality(GivingSlot) + giving
  <2>1. GivingSlot = In(Threads, GivingStates) /\ GivingSlot' = In(Threads, GivingStates)'
    BY DEF GivingSlot, At, In, GivingStates
  <2>2. Cardinality(In(Threads, GivingStates))' = Cardinality(In(Threads, GivingStates)) + giving
    BY Moves
  <2> QED BY <2>1, <2>2
<1>4. Cardinality(Holding)' = Cardinality(Holding) + holding
  <2>1. Holding = In(Threads, HoldingStates) /\ Holding' = In(Threads, HoldingStates)'
    BY DEF Holding, At, In, HoldingStates
  <2>2. Cardinality(In(Threads, HoldingStates))' = Cardinality(In(Threads, HoldingStates)) + holding
    BY Moves
  <2> QED BY <2>1, <2>2
<1>5. Cardinality(Owing)' = Cardinality(Owing) + owing
  <2>1. Owing = In(Threads, OwingStates) /\ Owing' = In(Threads, OwingStates)'
    BY DEF Owing, At, In, OwingStates
  <2>2. Cardinality(In(Threads, OwingStates))' = Cardinality(In(Threads, OwingStates)) + owing
    BY Moves
  <2> QED BY <2>1, <2>2
<1>6. Cardinality(Stopped)' = Cardinality(Stopped) + stopped
  <2>1. Stopped = In(Producers, StoppedStates) /\ Stopped' = In(Producers, StoppedStates)'
    BY DEF Stopped, In, StoppedStates
  <2>0. Producers \in SUBSET Threads
    BY DEF Threads
  <2>2. CASE t \in Producers /\ Change(StoppedStates, pc[t], to, stopped)
    <3>1. Cardinality(In(Producers, StoppedStates))' = Cardinality(In(Producers, StoppedStates)) + stopped
      BY <2>0, <2>2, Moves
    <3> QED BY <2>1, <3>1
  <2>3. CASE t \in Consumers /\ stopped = 0
    <3>1. Stopped' = Stopped
      BY <2>3 DEF Stopped, Goto, Types, PCAssumption, Threads
    <3> QED BY <2>3, <3>1, CountTypes
  <2> QED BY <2>2, <2>3
<1> QED BY <1>1, <1>2, <1>3, <1>4, <1>5, <1>6 DEF Counts

-----------------------------------------------------------------------------
(* What the counts imply                                                    *)

\* Only one thread is in a critical section.
LEMMA Alone ==
  ASSUME Types, OneInside, NEW t \in Threads, NEW u \in Threads,
         pc[t] \in CritStates, pc[u] \in CritStates
  PROVE  t = u
<1> DEFINE C == At(CritStates)
<1>1. C \in SUBSET Threads /\ t \in C /\ u \in C
  BY DEF At
<1>2. IsFiniteSet(C) /\ Cardinality(C) \in Nat
  BY <1>1, ThreadSets
<1>3. Cardinality(C \ {t}) = Cardinality(C) - 1 /\ C \ {t} \in SUBSET Threads
  BY <1>1, <1>2, FS_RemoveElement
<1>4. Cardinality(C) <= 1
  <2>1. mutex \in Nat /\ mutex + Cardinality(C) = 1
    BY DEF Types, OneInside
  <2> HIDE DEF C
  <2> QED BY <1>2, <2>1
<1>5. ASSUME t # u PROVE FALSE
  <2>1. u \in C \ {t}
    BY <1>1, <1>5
  <2>2. Cardinality(C \ {t}) >= 1
    BY <1>3, <2>1, ThreadSets
  <2> HIDE DEF C
  <2> QED BY <1>2, <1>3, <1>4, <2>2
<1> QED BY <1>5

\* A producer that has taken a token of nempty has a free slot at nput.
LEMMA SlotIsFree ==
  ASSUME IInv, NEW t \in Threads, pc[t] \in TakingStates
  PROVE  nput - nget < NBUFF
<1>1. t \in TakingSlot
  BY DEF TakingSlot, TakingStates, At
<1>2. Cardinality(TakingSlot) >= 1
  BY <1>1, CountTypes, ThreadSets
<1>3. /\ nempty \in Nat /\ nput \in Nat /\ nget \in Nat
      /\ nempty + Cardinality(TakingSlot) + Cardinality(GivingSlot) + (nput - nget) = NBUFF
  BY DEF IInv, Types, SlotsConserved
<1> QED BY <1>2, <1>3, CountTypes, PCAssumption

\* The ring never holds more items than slots.
LEMMA RingIsBounded ==
  ASSUME IInv
  PROVE  nput - nget \in 0..NBUFF
<1>1. /\ nempty \in Nat /\ nput \in Nat /\ nget \in Nat /\ nget <= nput
      /\ nempty + Cardinality(TakingSlot) + Cardinality(GivingSlot) + (nput - nget) = NBUFF
  BY DEF IInv, Types, SlotsConserved, Content
<1> QED BY <1>1, CountTypes, PCAssumption

\* A consumer that has taken a token of nstored, and is not the one to stop,
\* has an item at nget.
LEMMA ItemIsThere ==
  ASSUME IInv, NEW t \in Threads, pc[t] \in HoldingStates, nget < nitems
  PROVE  nget < nput
<1>1. t \in Holding
  BY DEF Holding, HoldingStates, At
<1>2. Cardinality(Holding) >= 1
  BY <1>1, CountTypes, ThreadSets
<1>3. /\ nstored \in Nat /\ nput \in Nat /\ nget \in Nat
      /\ nstored + Cardinality(Holding) + Cardinality(Owing)
           = (nput - nget) + Cardinality(Stopped)
  BY DEF IInv, Types, ItemsConserved
<1>4. CASE Stopped = {}
  <2>1. Cardinality(Stopped) = 0
    BY <1>4, FS_EmptySet
  <2> QED BY <1>2, <1>3, <2>1, CountTypes
<1>5. CASE Stopped # {}
  <2>1. nput >= nitems
    BY <1>5 DEF Stopped, IInv, StopsLast
  <2> QED BY <1>3, <2>1, PCAssumption
<1> QED BY <1>4, <1>5

\* Two numbers that differ by less than NBUFF are different modulo NBUFF.
LEMMA ModInjective ==
  ASSUME NEW i \in Nat, NEW j \in Nat, i < j, j - i < NBUFF
  PROVE  i % NBUFF # j % NBUFF
<1> DEFINE p == j \div NBUFF  q == i \div NBUFF
<1>1. NBUFF \in Nat /\ NBUFF > 0
  BY DEF PCAssumption
<1>2. /\ p \in Int /\ q \in Int
      /\ i % NBUFF = i - NBUFF * q /\ j % NBUFF = j - NBUFF * p
  BY <1>1
<1> HIDE DEF p, q
<1>3. ASSUME NEW d \in Int, d = NBUFF * p - NBUFF * q, 0 < d, d < NBUFF PROVE FALSE
  <2>1. NBUFF * p - NBUFF * q = NBUFF * (p - q)
    BY <1>1, <1>2
  <2>2. CASE p - q <= 0
    <3>1. NBUFF * (p - q) <= 0
      BY <1>1, <1>2, <2>2
    <3> QED BY <1>3, <2>1, <3>1
  <2>3. CASE p - q >= 1
    <3>1. NBUFF * (p - q) >= NBUFF
      BY <1>1, <1>2, <2>3
    <3> QED BY <1>1, <1>3, <2>1, <3>1
  <2> QED BY <1>2, <2>2, <2>3
<1>4. ASSUME i % NBUFF = j % NBUFF PROVE FALSE
  <2>1. j - i = NBUFF * p - NBUFF * q
    <3>1. NBUFF * p \in Int /\ NBUFF * q \in Int
      BY <1>1, <1>2
    <3> QED BY <1>2, <1>4, <3>1
  <2>2. j - i \in Int /\ 0 < j - i
    OBVIOUS
  <2> QED BY <1>3, <2>1, <2>2
<1> QED BY <1>4

-----------------------------------------------------------------------------
(* One thread moves                                                         *)

EndStates == {"p_end_stored", "p_end_empty", "end_unlock", "done"}

\* The semaphores and the indices change as the counts do.
LEMMA Conserve ==
  ASSUME IInv, NEW t \in Threads, NEW to, Goto(t, to),
         t \in Producers => to \in ProducerStates,
         t \in Consumers => to \in ConsumerStates,
         t \in Producers /\ to \in EndStates => pc[t] \in EndStates \/ nput >= nitems,
         mutex' \in Nat, nempty' \in Nat, nstored' \in Nat,
         count' \in [Threads -> Nat], reported' \in BOOLEAN,
         buff' \in [0..NBUFF-1 -> Nat],
         NEW put \in Nat, NEW got \in Nat, nput' = nput + put, nget' = nget + got,
         NEW crit \in Int, NEW taking \in Int, NEW giving \in Int,
         NEW holding \in Int, NEW owing \in Int, NEW stopped \in Int,
         Counts(crit, taking, giving, holding, owing, stopped),
         mutex' = mutex - crit,
         nempty' = nempty - taking - giving - put + got,
         nstored' = nstored - holding - owing + stopped + put - got
  PROVE  Types' /\ OneInside' /\ SlotsConserved' /\ ItemsConserved' /\ StopsLast'
<1>0. /\ pc' = [pc EXCEPT ![t] = to] /\ pc \in [Threads -> ProducerStates \cup ConsumerStates]
      /\ t \in Producers \/ t \in Consumers
      /\ \A u \in Producers : pc[u] \in ProducerStates
      /\ \A u \in Consumers : pc[u] \in ConsumerStates
      /\ Producers \subseteq Threads /\ Consumers \subseteq Threads
  BY DEF Goto, IInv, Types, Threads
<1>n. /\ nput \in Nat /\ nget \in Nat /\ mutex \in Nat /\ nempty \in Nat /\ nstored \in Nat
      /\ nput' \in Nat /\ nget' \in Nat
  BY DEF IInv, Types
<1>1. Types'
  <2>1. /\ pc' \in [Threads -> ProducerStates \cup ConsumerStates]
        /\ \A u \in Producers : pc'[u] \in ProducerStates
        /\ \A u \in Consumers : pc'[u] \in ConsumerStates
    BY <1>0
  <2> QED BY <1>n, <2>1 DEF Types
<1>2. OneInside'
  <2>1. CritNow = At(CritStates) /\ CritNow' = At(CritStates)'
    BY DEF CritNow
  <2>2. mutex + Cardinality(CritNow) = 1
    BY <2>1 DEF IInv, OneInside
  <2>3. mutex' + Cardinality(CritNow)' = 1
    BY <1>n, <2>2, CountTypes DEF Counts
  <2> QED BY <2>1, <2>3 DEF OneInside
<1>3. SlotsConserved'
  <2>1. nempty + Cardinality(TakingSlot) + Cardinality(GivingSlot) + (nput - nget) = NBUFF
    BY DEF IInv, SlotsConserved
  <2>2. /\ Cardinality(TakingSlot)' = Cardinality(TakingSlot) + taking
        /\ Cardinality(GivingSlot)' = Cardinality(GivingSlot) + giving
    BY DEF Counts
  <2> DEFINE k == Cardinality(TakingSlot)  g == Cardinality(GivingSlot)
  <2>3. k \in Nat /\ g \in Nat /\ nempty + k + g + (nput - nget) = NBUFF
    BY <2>1, CountTypes
  <2> HIDE DEF k, g
  <2>4. nempty' + (k + taking) + (g + giving) + (nput' - nget') = NBUFF
    BY <1>n, <2>3, PCAssumption
  <2> QED BY <2>2, <2>4 DEF SlotsConserved, k, g
<1>4. ItemsConserved'
  <2>1. nstored + Cardinality(Holding) + Cardinality(Owing)
          = (nput - nget) + Cardinality(Stopped)
    BY DEF IInv, ItemsConserved
  <2>2. /\ Cardinality(Holding)' = Cardinality(Holding) + holding
        /\ Cardinality(Owing)' = Cardinality(Owing) + owing
        /\ Cardinality(Stopped)' = Cardinality(Stopped) + stopped
    BY DEF Counts
  <2> DEFINE h == Cardinality(Holding)  o == Cardinality(Owing)  s == Cardinality(Stopped)
  <2>3. h \in Nat /\ o \in Nat /\ s \in Nat /\ nstored + h + o = (nput - nget) + s
    BY <2>1, CountTypes
  <2>d. nstored' = nstored - holding - owing + stopped + put - got
    OBVIOUS
  <2> HIDE DEF h, o, s
  <2>4. nstored' + (h + holding) + (o + owing) = (nput' - nget') + (s + stopped)
    BY <1>n, <2>3, <2>d
  <2> QED BY <2>2, <2>4 DEF ItemsConserved, h, o, s
<1>5. StopsLast'
  <2> SUFFICES ASSUME NEW u \in Producers, pc'[u] \in EndStates PROVE nput' >= nitems
    BY DEF StopsLast, EndStates
  <2>1. nput >= nitems
    BY <1>0 DEF IInv, StopsLast, EndStates
  <2> QED BY <1>n, <2>1, PCAssumption
<1> QED BY <1>1, <1>2, <1>3, <1>4, <1>5

\* A step that leaves the buffer and its indices alone.
LEMMA Quiet ==
  ASSUME IInv, NEW t \in Threads, NEW to, Goto(t, to),
         UNCHANGED <<items, reported>>,
         mutex' \in Nat, nempty' \in Nat, nstored' \in Nat,
         count' \in [Threads -> Nat],
         t \in Producers => to \in ProducerStates,
         t \in Consumers => to \in ConsumerStates,
         to # "p_advance",
         to = "c_advance" => nget < nput,
         t \in Producers /\ to \in EndStates => pc[t] \in EndStates \/ nput >= nitems,
         NEW crit \in Int, NEW taking \in Int, NEW giving \in Int,
         NEW holding \in Int, NEW owing \in Int, NEW stopped \in Int,
         Counts(crit, taking, giving, holding, owing, stopped),
         mutex' = mutex - crit,
         nempty' = nempty - taking - giving,
         nstored' = nstored - holding - owing + stopped
  PROVE  IInv'
<1>0. pc' = [pc EXCEPT ![t] = to] /\ pc \in [Threads -> ProducerStates \cup ConsumerStates]
  BY DEF Goto, IInv, Types
<1>u. /\ buff' = buff /\ nput' = nput /\ nget' = nget
      /\ nputval' = nputval /\ ngetval' = ngetval /\ reported' = reported
  BY DEF items
<1>1. Types' /\ OneInside' /\ SlotsConserved' /\ ItemsConserved' /\ StopsLast'
  <2>1. /\ buff' \in [0..NBUFF-1 -> Nat] /\ reported' \in BOOLEAN
        /\ nput' = nput + 0 /\ nget' = nget + 0
        /\ nempty' = nempty - taking - giving - 0 + 0
        /\ nstored' = nstored - holding - owing + stopped + 0 - 0
    <3>1. /\ buff \in [0..NBUFF-1 -> Nat] /\ reported \in BOOLEAN
          /\ nput \in Nat /\ nget \in Nat /\ nempty \in Nat /\ nstored \in Nat
      BY DEF IInv, Types
    <3> QED BY <1>u, <3>1
  <2> QED BY <2>1, Conserve
<1>2. Content'
  BY <1>u DEF IInv, Content
<1>3. Advancing'
  BY <1>0, <1>u DEF IInv, Advancing
<1>4. NoErrorReported'
  BY <1>u DEF IInv, NoErrorReported
<1> QED BY <1>1, <1>2, <1>3, <1>4 DEF IInv

\* The operations on the semaphores, and counting the items, keep the invariant.
LEMMA SemSteps ==
  ASSUME IInv
  PROVE  /\ \A t \in Producers :
              \/ ProduceWaitEmpty(t) \/ ProduceWaitMutex(t) \/ ProducePostMutex(t)
              \/ ProducePostStored(t) \/ ProduceCount(t)
              \/ EndPostStored(t) \/ EndPostEmpty(t)
              => IInv'
         /\ \A t \in Consumers :
              \/ ConsumeWaitStored(t) \/ ConsumeWaitMutex(t) \/ ConsumePostMutex(t)
              \/ ConsumePostEmpty(t) \/ ConsumeEndPostStored(t) \/ ConsumeCount(t)
              => IInv'
         /\ \A t \in Threads : EndPostMutex(t) => IInv'
<1> USE DEF CritStates, TakingStates, GivingStates, HoldingStates, OwingStates, StoppedStates
<1>t. Producers \subseteq Threads /\ Consumers \subseteq Threads /\ Producers \cap Consumers = {}
  BY DEF Threads, PCAssumption
<1>n. /\ Types
      /\ mutex \in Nat /\ nempty \in Nat /\ nstored \in Nat
      /\ count \in [Threads -> Nat]
  BY DEF IInv, Types
<1>1. ASSUME NEW t \in Producers, ProduceWaitEmpty(t) PROVE IInv'
  <2>1. pc[t] = "p_empty" /\ Goto(t, "p_mutex") /\ t \in Threads
    BY <1>1, <1>t DEF ProduceWaitEmpty, SemStep
  <2>u. UNCHANGED <<items, reported>> /\ count' \in [Threads -> Nat]
    BY <1>1, <1>n, <1>t DEF ProduceWaitEmpty, SemStep
  <2>2. mutex' = mutex /\ nempty' = nempty - 1 /\ nstored' = nstored /\ nempty > 0
    BY <1>1 DEF ProduceWaitEmpty, SemStep, WaitEmpty
  <2>3. /\ Change(CritStates, pc[t], "p_mutex", 0)
        /\ Change(TakingStates, pc[t], "p_mutex", 1)
        /\ Change(GivingStates, pc[t], "p_mutex", 0)
        /\ Change(HoldingStates, pc[t], "p_mutex", 0)
        /\ Change(OwingStates, pc[t], "p_mutex", 0)
        /\ Change(StoppedStates, pc[t], "p_mutex", 0)
    BY <2>1 DEF Change
  <2>4. Counts(0, 1, 0, 0, 0, 0)
    BY <1>n, <2>1, <2>3, CountsOf
  <2>5. mutex' \in Nat /\ nempty' \in Nat /\ nstored' \in Nat
    BY <1>n, <2>2
  <2> QED
    BY <1>n, <1>t, <2>1, <2>u, <2>2, <2>4, <2>5, Quiet
    DEF ProducerStates, ConsumerStates, EndStates
<1>2. ASSUME NEW t \in Producers, ProduceWaitMutex(t) PROVE IInv'
  <2>1. pc[t] = "p_mutex" /\ Goto(t, "p_store") /\ t \in Threads
    BY <1>2, <1>t DEF ProduceWaitMutex, SemStep
  <2>u. UNCHANGED <<items, reported>> /\ count' \in [Threads -> Nat]
    BY <1>2, <1>n, <1>t DEF ProduceWaitMutex, SemStep
  <2>2. mutex' = mutex - 1 /\ nempty' = nempty /\ nstored' = nstored /\ mutex > 0
    BY <1>2 DEF ProduceWaitMutex, SemStep, WaitMutex
  <2>3. /\ Change(CritStates, pc[t], "p_store", 1)
        /\ Change(TakingStates, pc[t], "p_store", 0)
        /\ Change(GivingStates, pc[t], "p_store", 0)
        /\ Change(HoldingStates, pc[t], "p_store", 0)
        /\ Change(OwingStates, pc[t], "p_store", 0)
        /\ Change(StoppedStates, pc[t], "p_store", 0)
    BY <2>1 DEF Change
  <2>4. Counts(1, 0, 0, 0, 0, 0)
    BY <1>n, <2>1, <2>3, CountsOf
  <2>5. mutex' \in Nat /\ nempty' \in Nat /\ nstored' \in Nat
    BY <1>n, <2>2
  <2> QED
    BY <1>n, <1>t, <2>1, <2>u, <2>2, <2>4, <2>5, Quiet
    DEF ProducerStates, ConsumerStates, EndStates
<1>3. ASSUME NEW t \in Producers, ProducePostMutex(t) PROVE IInv'
  <2>1. pc[t] = "p_unlock" /\ Goto(t, "p_stored") /\ t \in Threads
    BY <1>3, <1>t DEF ProducePostMutex, SemStep
  <2>u. UNCHANGED <<items, reported>> /\ count' \in [Threads -> Nat]
    BY <1>3, <1>n, <1>t DEF ProducePostMutex, SemStep
  <2>2. mutex' = mutex + 1 /\ nempty' = nempty /\ nstored' = nstored
    BY <1>3 DEF ProducePostMutex, SemStep, PostMutex
  <2>3. /\ Change(CritStates, pc[t], "p_stored", -1)
        /\ Change(TakingStates, pc[t], "p_stored", 0)
        /\ Change(GivingStates, pc[t], "p_stored", 0)
        /\ Change(HoldingStates, pc[t], "p_stored", 0)
        /\ Change(OwingStates, pc[t], "p_stored", 0)
        /\ Change(StoppedStates, pc[t], "p_stored", 0)
    BY <2>1 DEF Change
  <2>4. Counts(-1, 0, 0, 0, 0, 0)
    BY <1>n, <2>1, <2>3, CountsOf
  <2>5. mutex' \in Nat /\ nempty' \in Nat /\ nstored' \in Nat
    BY <1>n, <2>2
  <2> QED
    BY <1>n, <1>t, <2>1, <2>u, <2>2, <2>4, <2>5, Quiet
    DEF ProducerStates, ConsumerStates, EndStates
<1>4. ASSUME NEW t \in Producers, ProducePostStored(t) PROVE IInv'
  <2>1. pc[t] = "p_stored" /\ Goto(t, "p_count") /\ t \in Threads
    BY <1>4, <1>t DEF ProducePostStored, SemStep
  <2>u. UNCHANGED <<items, reported>> /\ count' \in [Threads -> Nat]
    BY <1>4, <1>n, <1>t DEF ProducePostStored, SemStep
  <2>2. mutex' = mutex /\ nempty' = nempty /\ nstored' = nstored + 1
    BY <1>4 DEF ProducePostStored, SemStep, PostStored
  <2>3. /\ Change(CritStates, pc[t], "p_count", 0)
        /\ Change(TakingStates, pc[t], "p_count", 0)
        /\ Change(GivingStates, pc[t], "p_count", 0)
        /\ Change(HoldingStates, pc[t], "p_count", 0)
        /\ Change(OwingStates, pc[t], "p_count", -1)
        /\ Change(StoppedStates, pc[t], "p_count", 0)
    BY <2>1 DEF Change
  <2>4. Counts(0, 0, 0, 0, -1, 0)
    BY <1>n, <2>1, <2>3, CountsOf
  <2>5. mutex' \in Nat /\ nempty' \in Nat /\ nstored' \in Nat
    BY <1>n, <2>2
  <2> QED
    BY <1>n, <1>t, <2>1, <2>u, <2>2, <2>4, <2>5, Quiet
    DEF ProducerStates, ConsumerStates, EndStates
<1>5. ASSUME NEW t \in Producers, EndPostStored(t) PROVE IInv'
  <2>1. pc[t] = "p_end_stored" /\ Goto(t, "p_end_empty") /\ t \in Threads
    BY <1>5, <1>t DEF EndPostStored, SemStep
  <2>u. UNCHANGED <<items, reported>> /\ count' \in [Threads -> Nat]
    BY <1>5, <1>n, <1>t DEF EndPostStored, SemStep
  <2>2. mutex' = mutex /\ nempty' = nempty /\ nstored' = nstored + 1
    BY <1>5 DEF EndPostStored, SemStep, PostStored
  <2>3. /\ Change(CritStates, pc[t], "p_end_empty", 0)
        /\ Change(TakingStates, pc[t], "p_end_empty", 0)
        /\ Change(GivingStates, pc[t], "p_end_empty", 0)
        /\ Change(HoldingStates, pc[t], "p_end_empty", 0)
        /\ Change(OwingStates, pc[t], "p_end_empty", 0)
        /\ Change(StoppedStates, pc[t], "p_end_empty", 1)
    BY <2>1 DEF Change
  <2>4. Counts(0, 0, 0, 0, 0, 1)
    BY <1>n, <2>1, <2>3, CountsOf
  <2>5. mutex' \in Nat /\ nempty' \in Nat /\ nstored' \in Nat
    BY <1>n, <2>2
  <2> QED
    BY <1>n, <1>t, <2>1, <2>u, <2>2, <2>4, <2>5, Quiet
    DEF ProducerStates, ConsumerStates, EndStates
<1>6. ASSUME NEW t \in Producers, EndPostEmpty(t) PROVE IInv'
  <2>1. pc[t] = "p_end_empty" /\ Goto(t, "end_unlock") /\ t \in Threads
    BY <1>6, <1>t DEF EndPostEmpty, SemStep
  <2>u. UNCHANGED <<items, reported>> /\ count' \in [Threads -> Nat]
    BY <1>6, <1>n, <1>t DEF EndPostEmpty, SemStep
  <2>2. mutex' = mutex /\ nempty' = nempty + 1 /\ nstored' = nstored
    BY <1>6 DEF EndPostEmpty, SemStep, PostEmpty
  <2>3. /\ Change(CritStates, pc[t], "end_unlock", 0)
        /\ Change(TakingStates, pc[t], "end_unlock", -1)
        /\ Change(GivingStates, pc[t], "end_unlock", 0)
        /\ Change(HoldingStates, pc[t], "end_unlock", 0)
        /\ Change(OwingStates, pc[t], "end_unlock", 0)
        /\ Change(StoppedStates, pc[t], "end_unlock", 0)
    BY <2>1 DEF Change
  <2>4. Counts(0, -1, 0, 0, 0, 0)
    BY <1>n, <2>1, <2>3, CountsOf
  <2>5. mutex' \in Nat /\ nempty' \in Nat /\ nstored' \in Nat
    BY <1>n, <2>2
  <2> QED
    BY <1>n, <1>t, <2>1, <2>u, <2>2, <2>4, <2>5, Quiet
    DEF ProducerStates, ConsumerStates, EndStates
<1>7. ASSUME NEW t \in Producers, ProduceCount(t) PROVE IInv'
  <2>1. pc[t] = "p_count" /\ Goto(t, "p_empty") /\ t \in Threads
    BY <1>7, <1>t DEF ProduceCount
  <2>u. UNCHANGED <<items, reported>> /\ count' \in [Threads -> Nat]
    BY <1>7, <1>n, <1>t DEF ProduceCount
  <2>2. mutex' = mutex /\ nempty' = nempty /\ nstored' = nstored
    BY <1>7 DEF ProduceCount, sems
  <2>3. /\ Change(CritStates, pc[t], "p_empty", 0)
        /\ Change(TakingStates, pc[t], "p_empty", 0)
        /\ Change(GivingStates, pc[t], "p_empty", 0)
        /\ Change(HoldingStates, pc[t], "p_empty", 0)
        /\ Change(OwingStates, pc[t], "p_empty", 0)
        /\ Change(StoppedStates, pc[t], "p_empty", 0)
    BY <2>1 DEF Change
  <2>4. Counts(0, 0, 0, 0, 0, 0)
    BY <1>n, <2>1, <2>3, CountsOf
  <2>5. mutex' \in Nat /\ nempty' \in Nat /\ nstored' \in Nat
    BY <1>n, <2>2
  <2> QED
    BY <1>n, <1>t, <2>1, <2>u, <2>2, <2>4, <2>5, Quiet
    DEF ProducerStates, ConsumerStates, EndStates
<1>8. ASSUME NEW t \in Consumers, ConsumeWaitStored(t) PROVE IInv'
  <2>1. pc[t] = "c_stored" /\ Goto(t, "c_mutex") /\ t \in Threads
    BY <1>8, <1>t DEF ConsumeWaitStored, SemStep
  <2>u. UNCHANGED <<items, reported>> /\ count' \in [Threads -> Nat]
    BY <1>8, <1>n, <1>t DEF ConsumeWaitStored, SemStep
  <2>2. mutex' = mutex /\ nempty' = nempty /\ nstored' = nstored - 1 /\ nstored > 0
    BY <1>8 DEF ConsumeWaitStored, SemStep, WaitStored
  <2>3. /\ Change(CritStates, pc[t], "c_mutex", 0)
        /\ Change(TakingStates, pc[t], "c_mutex", 0)
        /\ Change(GivingStates, pc[t], "c_mutex", 0)
        /\ Change(HoldingStates, pc[t], "c_mutex", 1)
        /\ Change(OwingStates, pc[t], "c_mutex", 0)
    BY <2>1 DEF Change
  <2>4. Counts(0, 0, 0, 1, 0, 0)
    BY <1>n, <2>1, <2>3, CountsOf
  <2>5. mutex' \in Nat /\ nempty' \in Nat /\ nstored' \in Nat
    BY <1>n, <2>2
  <2> QED
    BY <1>n, <1>t, <2>1, <2>u, <2>2, <2>4, <2>5, Quiet
    DEF ProducerStates, ConsumerStates, EndStates
<1>9. ASSUME NEW t \in Consumers, ConsumeWaitMutex(t) PROVE IInv'
  <2>1. pc[t] = "c_mutex" /\ Goto(t, "c_check") /\ t \in Threads
    BY <1>9, <1>t DEF ConsumeWaitMutex, SemStep
  <2>u. UNCHANGED <<items, reported>> /\ count' \in [Threads -> Nat]
    BY <1>9, <1>n, <1>t DEF ConsumeWaitMutex, SemStep
  <2>2. mutex' = mutex - 1 /\ nempty' = nempty /\ nstored' = nstored /\ mutex > 0
    BY <1>9 DEF ConsumeWaitMutex, SemStep, WaitMutex
  <2>3. /\ Change(CritStates, pc[t], "c_check", 1)
        /\ Change(TakingStates, pc[t], "c_check", 0)
        /\ Change(GivingStates, pc[t], "c_check", 0)
        /\ Change(HoldingStates, pc[t], "c_check", 0)
        /\ Change(OwingStates, pc[t], "c_check", 0)
    BY <2>1 DEF Change
  <2>4. Counts(1, 0, 0, 0, 0, 0)
    BY <1>n, <2>1, <2>3, CountsOf
  <2>5. mutex' \in Nat /\ nempty' \in Nat /\ nstored' \in Nat
    BY <1>n, <2>2
  <2> QED
    BY <1>n, <1>t, <2>1, <2>u, <2>2, <2>4, <2>5, Quiet
    DEF ProducerStates, ConsumerStates, EndStates
<1>10. ASSUME NEW t \in Consumers, ConsumePostMutex(t) PROVE IInv'
  <2>1. pc[t] = "c_unlock" /\ Goto(t, "c_empty") /\ t \in Threads
    BY <1>10, <1>t DEF ConsumePostMutex, SemStep
  <2>u. UNCHANGED <<items, reported>> /\ count' \in [Threads -> Nat]
    BY <1>10, <1>n, <1>t DEF ConsumePostMutex, SemStep
  <2>2. mutex' = mutex + 1 /\ nempty' = nempty /\ nstored' = nstored
    BY <1>10 DEF ConsumePostMutex, SemStep, PostMutex
  <2>3. /\ Change(CritStates, pc[t], "c_empty", -1)
        /\ Change(TakingStates, pc[t], "c_empty", 0)
        /\ Change(GivingStates, pc[t], "c_empty", 0)
        /\ Change(HoldingStates, pc[t], "c_empty", 0)
        /\ Change(OwingStates, pc[t], "c_empty", 0)
    BY <2>1 DEF Change
  <2>4. Counts(-1, 0, 0, 0, 0, 0)
    BY <1>n, <2>1, <2>3, CountsOf
  <2>5. mutex' \in Nat /\ nempty' \in Nat /\ nstored' \in Nat
    BY <1>n, <2>2
  <2> QED
    BY <1>n, <1>t, <2>1, <2>u, <2>2, <2>4, <2>5, Quiet
    DEF ProducerStates, ConsumerStates, EndStates
<1>11. ASSUME NEW t \in Consumers, ConsumePostEmpty(t) PROVE IInv'
  <2>1. pc[t] = "c_empty" /\ Goto(t, "c_count") /\ t \in Threads
    BY <1>11, <1>t DEF ConsumePostEmpty, SemStep
  <2>u. UNCHANGED <<items, reported>> /\ count' \in [Threads -> Nat]
    BY <1>11, <1>n, <1>t DEF ConsumePostEmpty, SemStep
  <2>2. mutex' = mutex /\ nempty' = nempty + 1 /\ nstored' = nstored
    BY <1>11 DEF ConsumePostEmpty, SemStep, PostEmpty
  <2>3. /\ Change(CritStates, pc[t], "c_count", 0)
        /\ Change(TakingStates, pc[t], "c_count", 0)
        /\ Change(GivingStates, pc[t], "c_count", -1)
        /\ Change(HoldingStates, pc[t], "c_count", 0)
        /\ Change(OwingStates, pc[t], "c_count", 0)
    BY <2>1 DEF Change
  <2>4. Counts(0, 0, -1, 0, 0, 0)
    BY <1>n, <2>1, <2>3, CountsOf
  <2>5. mutex' \in Nat /\ nempty' \in Nat /\ nstored' \in Nat
    BY <1>n, <2>2
  <2> QED
    BY <1>n, <1>t, <2>1, <2>u, <2>2, <2>4, <2>5, Quiet
    DEF ProducerStates, ConsumerStates, EndStates
<1>12. ASSUME NEW t \in Consumers, ConsumeEndPostStored(t) PROVE IInv'
  <2>1. pc[t] = "c_end_stored" /\ Goto(t, "end_unlock") /\ t \in Threads
    BY <1>12, <1>t DEF ConsumeEndPostStored, SemStep
  <2>u. UNCHANGED <<items, reported>> /\ count' \in [Threads -> Nat]
    BY <1>12, <1>n, <1>t DEF ConsumeEndPostStored, SemStep
  <2>2. mutex' = mutex /\ nempty' = nempty /\ nstored' = nstored + 1
    BY <1>12 DEF ConsumeEndPostStored, SemStep, PostStored
  <2>3. /\ Change(CritStates, pc[t], "end_unlock", 0)
        /\ Change(TakingStates, pc[t], "end_unlock", 0)
        /\ Change(GivingStates, pc[t], "end_unlock", 0)
        /\ Change(HoldingStates, pc[t], "end_unlock", -1)
        /\ Change(OwingStates, pc[t], "end_unlock", 0)
    BY <2>1 DEF Change
  <2>4. Counts(0, 0, 0, -1, 0, 0)
    BY <1>n, <2>1, <2>3, CountsOf
  <2>5. mutex' \in Nat /\ nempty' \in Nat /\ nstored' \in Nat
    BY <1>n, <2>2
  <2> QED
    BY <1>n, <1>t, <2>1, <2>u, <2>2, <2>4, <2>5, Quiet
    DEF ProducerStates, ConsumerStates, EndStates
<1>13. ASSUME NEW t \in Consumers, ConsumeCount(t) PROVE IInv'
  <2>1. pc[t] = "c_count" /\ Goto(t, "c_stored") /\ t \in Threads
    BY <1>13, <1>t DEF ConsumeCount
  <2>u. UNCHANGED <<items, reported>> /\ count' \in [Threads -> Nat]
    BY <1>13, <1>n, <1>t DEF ConsumeCount
  <2>2. mutex' = mutex /\ nempty' = nempty /\ nstored' = nstored
    BY <1>13 DEF ConsumeCount, sems
  <2>3. /\ Change(CritStates, pc[t], "c_stored", 0)
        /\ Change(TakingStates, pc[t], "c_stored", 0)
        /\ Change(GivingStates, pc[t], "c_stored", 0)
        /\ Change(HoldingStates, pc[t], "c_stored", 0)
        /\ Change(OwingStates, pc[t], "c_stored", 0)
    BY <2>1 DEF Change
  <2>4. Counts(0, 0, 0, 0, 0, 0)
    BY <1>n, <2>1, <2>3, CountsOf
  <2>5. mutex' \in Nat /\ nempty' \in Nat /\ nstored' \in Nat
    BY <1>n, <2>2
  <2> QED
    BY <1>n, <1>t, <2>1, <2>u, <2>2, <2>4, <2>5, Quiet
    DEF ProducerStates, ConsumerStates, EndStates
<1>14. ASSUME NEW t \in Threads, EndPostMutex(t) PROVE IInv'
  <2>1. pc[t] = "end_unlock" /\ Goto(t, "done") /\ UNCHANGED <<items, count, reported>>
    BY <1>14 DEF EndPostMutex, SemStep
  <2>2. mutex' = mutex + 1 /\ nempty' = nempty /\ nstored' = nstored
    BY <1>14 DEF EndPostMutex, SemStep, PostMutex
  <2>3. Counts(-1, 0, 0, 0, 0, 0)
    <3>1. t \in Producers \/ t \in Consumers
      BY DEF Threads
    <3>2. /\ Change(CritStates, pc[t], "done", -1) /\ Change(TakingStates, pc[t], "done", 0)
          /\ Change(GivingStates, pc[t], "done", 0) /\ Change(HoldingStates, pc[t], "done", 0)
          /\ Change(OwingStates, pc[t], "done", 0) /\ Change(StoppedStates, pc[t], "done", 0)
      BY <2>1 DEF Change
    <3> QED BY <1>n, <2>1, <3>1, <3>2, CountsOf
  <2> QED BY <1>n, <1>t, <2>1, <2>2, <2>3, Quiet DEF ProducerStates, ConsumerStates, EndStates
<1> QED BY <1>1, <1>2, <1>3, <1>4, <1>5, <1>6, <1>7, <1>8, <1>9, <1>10, <1>11, <1>12, <1>13, <1>14

\* Storing an item, or finding that all are stored.
LEMMA StoreStep ==
  ASSUME IInv, NEW t \in Producers, ProduceStore(t)
  PROVE  IInv'
<1> USE DEF CritStates, TakingStates, GivingStates, HoldingStates, OwingStates, StoppedStates
<1>t. t \in Threads /\ t \notin Consumers /\ Consumers \subseteq Threads
  BY DEF Threads, PCAssumption
<1>n. /\ Types
      /\ mutex \in Nat /\ nempty \in Nat /\ nstored \in Nat /\ nput \in Nat /\ nget \in Nat
      /\ count \in [Threads -> Nat] /\ reported \in BOOLEAN
      /\ buff \in [0..NBUFF-1 -> Nat]
      /\ pc \in [Threads -> ProducerStates \cup ConsumerStates]
  BY DEF IInv, Types
<1>u. /\ pc[t] = "p_store"
      /\ nput' = nput /\ nget' = nget /\ nputval' = nputval /\ ngetval' = ngetval
      /\ mutex' = mutex /\ nempty' = nempty /\ nstored' = nstored
      /\ count' = count /\ reported' = reported
  BY DEF ProduceStore, sems
<1>1. CASE nput >= nitems
  <2>1. Goto(t, "p_end_stored") /\ UNCHANGED <<items, reported>>
    BY <1>1, <1>u DEF ProduceStore, items
  <2>2. /\ Change(CritStates, pc[t], "p_end_stored", 0)
        /\ Change(TakingStates, pc[t], "p_end_stored", 0)
        /\ Change(GivingStates, pc[t], "p_end_stored", 0)
        /\ Change(HoldingStates, pc[t], "p_end_stored", 0)
        /\ Change(OwingStates, pc[t], "p_end_stored", 0)
        /\ Change(StoppedStates, pc[t], "p_end_stored", 0)
    BY <1>u DEF Change
  <2>3. Counts(0, 0, 0, 0, 0, 0)
    BY <1>n, <1>t, <2>1, <2>2, CountsOf
  <2> QED BY <1>1, <1>n, <1>t, <1>u, <2>1, <2>3, Quiet DEF ProducerStates
<1>2. CASE ~(nput >= nitems)
  <2>1. Goto(t, "p_advance") /\ buff' = [buff EXCEPT ![nput % NBUFF] = nputval]
    BY <1>2 DEF ProduceStore
  <2>v. nputval = nput /\ nput < nitems
    BY <1>2, <1>n, PCAssumption DEF IInv, Content
  <2>m. nput % NBUFF \in 0..NBUFF-1
    BY <1>n, PCAssumption
  <2>2. /\ Change(CritStates, pc[t], "p_advance", 0)
        /\ Change(TakingStates, pc[t], "p_advance", 0)
        /\ Change(GivingStates, pc[t], "p_advance", 0)
        /\ Change(HoldingStates, pc[t], "p_advance", 0)
        /\ Change(OwingStates, pc[t], "p_advance", 0)
        /\ Change(StoppedStates, pc[t], "p_advance", 0)
    BY <1>u DEF Change
  <2>3. Counts(0, 0, 0, 0, 0, 0)
    BY <1>n, <1>t, <2>1, <2>2, CountsOf
  <2>4. Types' /\ OneInside' /\ SlotsConserved' /\ ItemsConserved' /\ StopsLast'
    <3> DEFINE z == 0
    <3>1. buff' \in [0..NBUFF-1 -> Nat]
      BY <1>n, <2>1, <2>v
    <3>2. /\ z \in Nat /\ z \in Int
          /\ nput' = nput + z /\ nget' = nget + z /\ mutex' = mutex - z
          /\ nempty' = nempty - z - z - z + z
          /\ nstored' = nstored - z - z + z + z - z
      BY <1>n, <1>u
    <3>3. mutex' \in Nat /\ nempty' \in Nat /\ nstored' \in Nat
          /\ count' \in [Threads -> Nat] /\ reported' \in BOOLEAN
      BY <1>n, <1>u
    <3>4. "p_advance" \in ProducerStates /\ "p_advance" \notin EndStates
      BY DEF ProducerStates, EndStates
    <3>5. Goto(t, "p_advance") /\ Counts(z, z, z, z, z, z)
      BY <2>1, <2>3
    <3> HIDE DEF z
    <3> QED BY <1>t, <3>1, <3>2, <3>3, <3>4, <3>5, Conserve
  <2>5. nput - nget < NBUFF
    BY <1>t, <1>u, SlotIsFree
  <2>6. Content'
    <3>1. ASSUME NEW i \in nget..(nput-1) PROVE buff'[i % NBUFF] = i
      <4>1. i \in Nat /\ i < nput /\ nput - i < NBUFF
        BY <1>n, <2>5, PCAssumption
      <4>2. i % NBUFF # nput % NBUFF
        BY <1>n, <4>1, ModInjective
      <4>3. i % NBUFF \in 0..NBUFF-1
        BY <4>1, PCAssumption
      <4>4. buff[i % NBUFF] = i
        BY DEF IInv, Content
      <4> QED BY <1>n, <2>1, <4>2, <4>3, <4>4
    <3> QED BY <1>u, <3>1 DEF IInv, Content
  <2>7. Advancing'
    <3> SUFFICES ASSUME NEW u \in Threads
                 PROVE  /\ pc'[u] = "p_advance" => nput < nitems /\ buff'[nput % NBUFF] = nput
                        /\ pc'[u] = "c_advance" => nget < nput
      BY <1>u DEF Advancing
    <3>1. buff'[nput % NBUFF] = nput
      BY <1>n, <2>1, <2>v, <2>m
    <3>2. pc'[u] = "c_advance" => pc[u] = "c_advance"
      BY <1>n, <2>1 DEF Goto
    <3> QED BY <2>v, <3>1, <3>2 DEF IInv, Advancing
  <2>8. NoErrorReported'
    BY <1>u DEF IInv, NoErrorReported
  <2> QED BY <2>4, <2>6, <2>7, <2>8 DEF IInv
<1> QED BY <1>1, <1>2

\* Moving nput past the item that was stored.
LEMMA PutStep ==
  ASSUME IInv, NEW t \in Producers, ProduceAdvance(t)
  PROVE  IInv'
<1> USE DEF CritStates, TakingStates, GivingStates, HoldingStates, OwingStates, StoppedStates
<1>t. t \in Threads /\ t \notin Consumers
  BY DEF Threads, PCAssumption
<1>n. /\ Types
      /\ mutex \in Nat /\ nempty \in Nat /\ nstored \in Nat /\ nput \in Nat /\ nget \in Nat
      /\ count \in [Threads -> Nat] /\ reported \in BOOLEAN
      /\ buff \in [0..NBUFF-1 -> Nat]
      /\ pc \in [Threads -> ProducerStates \cup ConsumerStates]
  BY DEF IInv, Types
<1>u. /\ pc[t] = "p_advance" /\ Goto(t, "p_unlock")
      /\ nput' = nput + 1 /\ nputval' = nputval + 1
      /\ buff' = buff /\ nget' = nget /\ ngetval' = ngetval
      /\ mutex' = mutex /\ nempty' = nempty /\ nstored' = nstored
      /\ count' = count /\ reported' = reported
  BY DEF ProduceAdvance, sems
<1>2. /\ Change(CritStates, pc[t], "p_unlock", 0)
      /\ Change(TakingStates, pc[t], "p_unlock", -1)
      /\ Change(GivingStates, pc[t], "p_unlock", 0)
      /\ Change(HoldingStates, pc[t], "p_unlock", 0)
      /\ Change(OwingStates, pc[t], "p_unlock", 1)
      /\ Change(StoppedStates, pc[t], "p_unlock", 0)
  BY <1>u DEF Change
<1>3. Counts(0, -1, 0, 0, 1, 0)
  BY <1>n, <1>t, <1>u, <1>2, CountsOf
<1>4. Types' /\ OneInside' /\ SlotsConserved' /\ ItemsConserved' /\ StopsLast'
  <2>1. /\ nget' = nget + 0 /\ mutex' = mutex - 0
        /\ nempty' = nempty - (-1) - 0 - 1 + 0
        /\ nstored' = nstored - 0 - 1 + 0 + 1 - 0
    BY <1>n, <1>u
  <2>2. mutex' \in Nat /\ nempty' \in Nat /\ nstored' \in Nat
        /\ count' \in [Threads -> Nat] /\ reported' \in BOOLEAN
        /\ buff' \in [0..NBUFF-1 -> Nat]
    BY <1>n, <1>u
  <2>3. t \in Producers => "p_unlock" \in ProducerStates
    BY DEF ProducerStates
  <2>4. "p_unlock" \notin EndStates
    BY DEF EndStates
  <2> QED BY <1>t, <1>u, <1>3, <2>1, <2>2, <2>3, <2>4, Conserve
<1>5. nput < nitems /\ buff[nput % NBUFF] = nput
  BY <1>t, <1>u DEF IInv, Advancing
<1>6. Content'
  <2>1. /\ nputval = nput /\ ngetval = nget /\ nget <= nput
        /\ \A i \in nget..(nput-1) : buff[i % NBUFF] = i
    BY DEF IInv, Content
  <2>2. ASSUME NEW i \in nget..nput PROVE buff[i % NBUFF] = i
    <3>1. i = nput \/ i \in nget..(nput-1)
      BY <1>n
    <3> QED BY <1>5, <2>1, <3>1
  <2>3. (nput + 1) - 1 = nput /\ nget <= nput + 1 /\ nput + 1 <= nitems
    BY <1>n, <1>5, <2>1, PCAssumption
  <2> QED BY <1>u, <2>1, <2>2, <2>3 DEF Content
<1>7. Advancing'
  <2> SUFFICES ASSUME NEW u \in Threads
               PROVE  pc'[u] # "p_advance" /\ pc'[u] # "c_advance"
    BY DEF Advancing
  <2>1. pc'[t] = "p_unlock" /\ (u # t => pc'[u] = pc[u])
    BY <1>n, <1>t, <1>u DEF Goto
  <2>2. u # t => pc[u] \notin CritStates
    BY <1>n, <1>t, <1>u, Alone DEF IInv
  <2> QED BY <2>1, <2>2
<1>8. NoErrorReported'
  BY <1>u DEF IInv, NoErrorReported
<1> QED BY <1>4, <1>6, <1>7, <1>8 DEF IInv

\* Comparing an item, or finding that all are consumed.
LEMMA CheckStep ==
  ASSUME IInv, NEW t \in Consumers, ConsumeCheck(t)
  PROVE  IInv'
<1> USE DEF CritStates, TakingStates, GivingStates, HoldingStates, OwingStates, StoppedStates
<1>t. t \in Threads /\ t \notin Producers
  BY DEF Threads, PCAssumption
<1>n. /\ Types
      /\ mutex \in Nat /\ nempty \in Nat /\ nstored \in Nat /\ nput \in Nat /\ nget \in Nat
      /\ count \in [Threads -> Nat] /\ reported \in BOOLEAN
  BY DEF IInv, Types
<1>u. /\ pc[t] = "c_check" /\ UNCHANGED items
      /\ mutex' = mutex /\ nempty' = nempty /\ nstored' = nstored
      /\ count' = count
  BY DEF ConsumeCheck, sems
<1>q. /\ mutex' \in Nat /\ nempty' \in Nat /\ nstored' \in Nat
      /\ count' \in [Threads -> Nat]
      /\ mutex' = mutex - 0 /\ nempty' = nempty - 0 - 0
      /\ nstored' = nstored - 0 - 0 + 0
  BY <1>n, <1>u
<1>0. ASSUME NEW to \in {"c_end_stored", "c_advance"}, Goto(t, to), reported' = reported,
             to = "c_advance" => nget < nput
      PROVE  IInv'
  <2>1. /\ Change(CritStates, pc[t], to, 0) /\ Change(TakingStates, pc[t], to, 0)
        /\ Change(GivingStates, pc[t], to, 0) /\ Change(HoldingStates, pc[t], to, 0)
        /\ Change(OwingStates, pc[t], to, 0)
    BY <1>u DEF Change
  <2>2. Counts(0, 0, 0, 0, 0, 0)
    BY <1>n, <1>t, <1>0, <2>1, CountsOf
  <2>3. UNCHANGED <<items, reported>>
    BY <1>u, <1>0
  <2>4. to \in ConsumerStates /\ to # "p_advance"
    BY DEF ConsumerStates
  <2> QED BY <1>t, <1>q, <1>0, <2>2, <2>3, <2>4, Quiet
<1>1. CASE nget >= nitems
  <2>1. Goto(t, "c_end_stored") /\ reported' = reported
    BY <1>1 DEF ConsumeCheck
  <2> QED BY <1>0, <2>1
<1>2. CASE ~(nget >= nitems)
  <2>1. Goto(t, "c_advance") /\ reported' = (reported \/ buff[nget % NBUFF] # ngetval)
    BY <1>2 DEF ConsumeCheck
  <2>2. nget < nitems
    BY <1>2, <1>n, PCAssumption
  <2>3. nget < nput
    BY <1>t, <1>u, <2>2, ItemIsThere
  <2>4. buff[nget % NBUFF] = ngetval
    <3>1. nget \in nget..(nput-1)
      BY <1>n, <2>3
    <3> QED BY <3>1 DEF IInv, Content
  <2>5. reported' = reported
    BY <1>n, <2>1, <2>4
  <2> QED BY <1>0, <2>1, <2>3, <2>5
<1> QED BY <1>1, <1>2

\* Moving nget past the item that was compared.
LEMMA GetStep ==
  ASSUME IInv, NEW t \in Consumers, ConsumeAdvance(t)
  PROVE  IInv'
<1> USE DEF CritStates, TakingStates, GivingStates, HoldingStates, OwingStates, StoppedStates
<1>t. t \in Threads /\ t \notin Producers
  BY DEF Threads, PCAssumption
<1>n. /\ Types
      /\ mutex \in Nat /\ nempty \in Nat /\ nstored \in Nat /\ nput \in Nat /\ nget \in Nat
      /\ count \in [Threads -> Nat] /\ reported \in BOOLEAN
      /\ buff \in [0..NBUFF-1 -> Nat]
      /\ pc \in [Threads -> ProducerStates \cup ConsumerStates]
  BY DEF IInv, Types
<1>u. /\ pc[t] = "c_advance" /\ Goto(t, "c_unlock")
      /\ nget' = nget + 1 /\ ngetval' = ngetval + 1
      /\ buff' = buff /\ nput' = nput /\ nputval' = nputval
      /\ mutex' = mutex /\ nempty' = nempty /\ nstored' = nstored
      /\ count' = count /\ reported' = reported
  BY DEF ConsumeAdvance, sems
<1>2. /\ Change(CritStates, pc[t], "c_unlock", 0)
      /\ Change(TakingStates, pc[t], "c_unlock", 0)
      /\ Change(GivingStates, pc[t], "c_unlock", 1)
      /\ Change(HoldingStates, pc[t], "c_unlock", -1)
      /\ Change(OwingStates, pc[t], "c_unlock", 0)
  BY <1>u DEF Change
<1>3. Counts(0, 0, 1, -1, 0, 0)
  BY <1>n, <1>t, <1>u, <1>2, CountsOf
<1>4. Types' /\ OneInside' /\ SlotsConserved' /\ ItemsConserved' /\ StopsLast'
  <2>1. /\ nput' = nput + 0 /\ mutex' = mutex - 0
        /\ nempty' = nempty - 0 - 1 - 0 + 1
        /\ nstored' = nstored - (-1) - 0 + 0 + 0 - 1
    BY <1>n, <1>u
  <2>2. mutex' \in Nat /\ nempty' \in Nat /\ nstored' \in Nat
        /\ count' \in [Threads -> Nat] /\ reported' \in BOOLEAN
        /\ buff' \in [0..NBUFF-1 -> Nat]
    BY <1>n, <1>u
  <2>3. t \in Consumers => "c_unlock" \in ConsumerStates
    BY DEF ConsumerStates
  <2>4. "c_unlock" \notin EndStates
    BY DEF EndStates
  <2> QED BY <1>t, <1>u, <1>3, <2>1, <2>2, <2>3, <2>4, Conserve
<1>5. nget < nput
  BY <1>t, <1>u DEF IInv, Advancing
<1>6. Content'
  <2>1. /\ nputval = nput /\ ngetval = nget /\ nput <= nitems
        /\ \A i \in nget..(nput-1) : buff[i % NBUFF] = i
    BY DEF IInv, Content
  <2>2. ASSUME NEW i \in (nget + 1)..(nput-1) PROVE buff[i % NBUFF] = i
    <3>1. i \in nget..(nput-1)
      BY <1>n
    <3> QED BY <2>1, <3>1
  <2>3. nget + 1 <= nput
    BY <1>n, <1>5
  <2> QED BY <1>u, <2>1, <2>2, <2>3 DEF Content
<1>7. Advancing'
  <2> SUFFICES ASSUME NEW u \in Threads
               PROVE  pc'[u] # "p_advance" /\ pc'[u] # "c_advance"
    BY DEF Advancing
  <2>1. pc'[t] = "c_unlock" /\ (u # t => pc'[u] = pc[u])
    BY <1>n, <1>t, <1>u DEF Goto
  <2>2. u # t => pc[u] \notin CritStates
    BY <1>n, <1>t, <1>u, Alone DEF IInv
  <2> QED BY <2>1, <2>2
<1>8. NoErrorReported'
  BY <1>u DEF IInv, NoErrorReported
<1> QED BY <1>4, <1>6, <1>7, <1>8 DEF IInv

-----------------------------------------------------------------------------
(* The invariant                                                            *)

\* At the start all slots are free and no thread holds a token.
LEMMA InitHolds == Init => IInv
<1> SUFFICES ASSUME Init PROVE IInv
  OBVIOUS
<1>p. pc \in [Threads -> {"p_empty", "c_stored"}]
  BY DEF Init
<1>1. Types
  BY PCAssumption DEF Init, Types, Threads, ProducerStates, ConsumerStates
<1>2. /\ At(CritStates) = {} /\ TakingSlot = {} /\ GivingSlot = {}
      /\ Holding = {} /\ Owing = {} /\ Stopped = {}
  BY <1>p DEF At, CritStates, TakingSlot, GivingSlot, Holding, Owing, Stopped, Threads
<1>3. OneInside /\ SlotsConserved /\ ItemsConserved
  BY <1>2, FS_EmptySet, PCAssumption DEF Init, OneInside, SlotsConserved, ItemsConserved
<1>4. StopsLast /\ Advancing
  BY <1>p DEF StopsLast, Advancing, Threads
<1>5. Content
  BY PCAssumption DEF Init, Content
<1>6. NoErrorReported
  BY DEF Init, NoErrorReported
<1> QED BY <1>1, <1>3, <1>4, <1>5, <1>6 DEF IInv

\* Every step of every thread keeps the invariant.
LEMMA StepHolds == IInv /\ [Next]_vars => IInv'
<1> SUFFICES ASSUME IInv, [Next]_vars PROVE IInv'
  OBVIOUS
<1>1. CASE UNCHANGED vars
  BY <1>1 DEF vars, items, sems, IInv, Types, OneInside, SlotsConserved, ItemsConserved,
     StopsLast, Content, Advancing, NoErrorReported, At, TakingSlot, GivingSlot, Holding,
     Owing, Stopped
<1>2. ASSUME NEW t \in Producers, Produce(t) PROVE IInv'
  BY <1>2, SemSteps, StoreStep, PutStep DEF Produce
<1>3. ASSUME NEW t \in Consumers, Consume(t) PROVE IInv'
  BY <1>3, SemSteps, CheckStep, GetStep DEF Consume
<1>4. ASSUME NEW t \in Threads, EndPostMutex(t) PROVE IInv'
  BY <1>4, SemSteps
<1> QED BY <1>1, <1>2, <1>3, <1>4 DEF Next, Terminated

\* The invariant holds of all behaviours.
LEMMA Invariance == Spec => []IInv
<1> QED BY InitHolds, StepHolds, PTL DEF Spec

\* The indices never pass nitems and the semaphores never go below zero.
THEOREM TypeCorrect == Spec => []TypeOK
<1>1. IInv => TypeOK
  <2> SUFFICES ASSUME IInv PROVE TypeOK
    OBVIOUS
  <2>1. nput \in 0..nitems /\ nget \in 0..nitems /\ nputval \in Nat /\ ngetval \in Nat
    BY PCAssumption DEF IInv, Types, Content
  <2> QED BY <2>1 DEF IInv, Types, TypeOK
<1> QED BY <1>1, Invariance, PTL

\* No consumer prints "error:buff", in spite of the extra tokens of the
\* producers that have stopped: every slot holds the next item when it is read.
THEOREM ItemsArriveInOrder == Spec => []NoErrorReported
<1>1. IInv => NoErrorReported
  BY DEF IInv
<1> QED BY <1>1, Invariance, PTL

\* No slot is lost or invented: the free slots, the slots in threads' hands
\* and the items in the ring add up to NBUFF.
THEOREM SlotsAreConserved == Spec => []SlotsConserved
<1>1. IInv => SlotsConserved
  BY DEF IInv
<1> QED BY <1>1, Invariance, PTL

-----------------------------------------------------------------------------
(* The ring implements the bounded queue                                    *)

\* The queue that ImplementsFifo reads out of the ring.
Items == [i \in 1..(nput - nget) |-> buff[(nget + i - 1) % NBUFF]]

\* The queue the ring stands for holds the numbers from nget to nput - 1.
ItemsAreNumbers ==
  /\ nput \in Nat /\ nget \in Nat /\ nput - nget \in Nat
  /\ Items = [i \in 1..(nput - nget) |-> nget + i - 1]
  /\ Items \in Seq(Nat) /\ Len(Items) = nput - nget

\* The invariant makes it so.
LEMMA Numbers == IInv => ItemsAreNumbers
<1> SUFFICES ASSUME IInv PROVE ItemsAreNumbers
  OBVIOUS
<1>1. /\ nput \in Nat /\ nget \in Nat /\ nget <= nput
      /\ \A i \in nget..(nput-1) : buff[i % NBUFF] = i
  BY DEF IInv, Types, Content
<1>2. ASSUME NEW i \in 1..(nput - nget) PROVE buff[(nget + i - 1) % NBUFF] = nget + i - 1
  <2>1. nget + i - 1 \in nget..(nput-1)
    BY <1>1
  <2> QED BY <1>1, <2>1
<1>3. Items = [i \in 1..(nput - nget) |-> nget + i - 1]
  BY <1>2 DEF Items
<1>4. nput - nget \in Nat
  BY <1>1
<1>5. \A i \in 1..(nput - nget) : nget + i - 1 \in Nat
  BY <1>1
<1> QED BY <1>1, <1>3, <1>4, <1>5 DEF ItemsAreNumbers

\* Moving nput puts the next number at the end of the queue.
LEMMA PutIsAppend ==
  ASSUME ItemsAreNumbers, ItemsAreNumbers', nput' = nput + 1, nget' = nget
  PROVE  Items' = Append(Items, nput)
<1> DEFINE n == nput - nget
<1>1. n \in Nat /\ nget \in Nat /\ nput = nget + n /\ nput' - nget' = n + 1
  BY DEF ItemsAreNumbers
<1>2. Items = [i \in 1..n |-> nget + i - 1] /\ Len(Items) = n
  BY DEF ItemsAreNumbers
<1>3. Items' = [i \in 1..(n + 1) |-> nget + i - 1]
  <2>1. Items' = [i \in 1..(nput' - nget') |-> nget' + i - 1]
    BY DEF ItemsAreNumbers
  <2> QED BY <1>1, <2>1
<1> DEFINE old == Items  new == Items'
<1>s. old \in Seq(Nat) /\ new \in Seq(Nat) /\ Len(new) = n + 1
  BY <1>1 DEF ItemsAreNumbers
<1>f. /\ old = [i \in 1..n |-> nget + i - 1] /\ Len(old) = n
      /\ new = [i \in 1..(n + 1) |-> nget + i - 1]
  BY <1>2, <1>3
<1> HIDE DEF n, old, new
<1>4. Append(old, nput) \in Seq(Nat) /\ Len(Append(old, nput)) = n + 1
  BY <1>1, <1>s, <1>f
<1>5. ASSUME NEW i \in 1..(n + 1) PROVE new[i] = Append(old, nput)[i]
  <2>1. CASE i = n + 1
    BY <1>1, <1>s, <1>f, <2>1
  <2>2. CASE i \in 1..n
    BY <1>1, <1>s, <1>f, <2>2
  <2>3. i = n + 1 \/ i \in 1..n
    BY <1>1
  <2> QED BY <2>1, <2>2, <2>3
<1>6. new = Append(old, nput)
  BY <1>1, <1>s, <1>4, <1>5
<1> QED BY <1>6 DEF old, new

\* Moving nget takes the first number from the queue.
LEMMA GetIsTail ==
  ASSUME ItemsAreNumbers, ItemsAreNumbers', nput' = nput, nget' = nget + 1
  PROVE  Items # << >> /\ Items' = Tail(Items)
<1> DEFINE n == nput - nget
<1>1. n \in Nat /\ n >= 1 /\ nget \in Nat /\ nput' - nget' = n - 1
  <2>1. n \in Nat /\ nput \in Nat /\ nget \in Nat /\ nput' - nget' \in Nat
    BY DEF ItemsAreNumbers
  <2> QED BY <2>1
<1>2. Items = [i \in 1..n |-> nget + i - 1] /\ Len(Items) = n
  BY DEF ItemsAreNumbers
<1>3. Items' = [i \in 1..(n - 1) |-> nget + i]
  <2>1. Items' = [i \in 1..(nput' - nget') |-> nget' + i - 1]
    BY DEF ItemsAreNumbers
  <2> QED BY <1>1, <2>1
<1> DEFINE old == Items  new == Items'
<1>s. old \in Seq(Nat) /\ new \in Seq(Nat) /\ Len(new) = n - 1
  BY <1>1 DEF ItemsAreNumbers
<1>f. /\ old = [i \in 1..n |-> nget + i - 1] /\ Len(old) = n
      /\ new = [i \in 1..(n - 1) |-> nget + i]
  BY <1>2, <1>3
<1> HIDE DEF n, old, new
<1>4. old # << >>
  BY <1>1, <1>s, <1>f
<1>5. Tail(old) \in Seq(Nat) /\ Len(Tail(old)) = n - 1
  <2>1. old \in Seq(Nat) /\ old # << >>
    BY <1>s, <1>4
  <2>2. Tail(old) \in Seq(Nat) /\ Len(Tail(old)) = Len(old) - 1
    BY <2>1, HeadTailProperties, Zenon
  <2> QED BY <1>f, <2>2
<1>6. ASSUME NEW i \in 1..(n - 1) PROVE new[i] = Tail(old)[i]
  <2>1. Tail(old)[i] = old[i + 1]
    <3>1. i \in 1..Len(Tail(old))
      BY <1>5
    <3> QED BY ONLY <1>s, <1>4, <3>1, HeadTailProperties
  <2>2. old[i + 1] = nget + i
    BY <1>1, <1>f
  <2> QED BY <1>f, <2>1, <2>2
<1>7. new = Tail(old)
  BY ONLY <1>s, <1>5, <1>6, SeqEqual
<1> QED BY <1>4, <1>7 DEF old, new

\* The ring with its semaphores is a bounded queue that loses, repeats and
\* reorders nothing, whatever the threads and their interleaving.
THEOREM Implementation == Spec => ImplementsFifo
<1>q. Items = [i \in 1..(nput - nget) |-> buff[(nget + i - 1) % NBUFF]]
  BY DEF Items
<1>1. Init => Fifo!FifoInit
  <2> SUFFICES ASSUME Init PROVE Fifo!FifoInit
    OBVIOUS
  <2>1. nput = 0 /\ nget = 0
    BY DEF Init
  <2>2. ItemsAreNumbers
    BY InitHolds, Numbers
  <2>3. Items = << >>
    BY <2>1, <2>2 DEF ItemsAreNumbers
  <2> QED BY <1>q, <2>1, <2>3 DEF Fifo!FifoInit
<1>2. IInv /\ IInv' /\ ItemsAreNumbers /\ ItemsAreNumbers' /\ [Next]_vars
        => [Fifo!Put \/ Fifo!Get]_Fifo!fifoVars
  <2> SUFFICES ASSUME IInv, IInv', ItemsAreNumbers, ItemsAreNumbers', [Next]_vars
               PROVE  Fifo!Put \/ Fifo!Get \/ UNCHANGED Fifo!fifoVars
    BY DEF Fifo!fifoVars
  <2>q. /\ Items = [i \in 1..(nput - nget) |-> buff[(nget + i - 1) % NBUFF]]
        /\ Items' = [i \in 1..(nput' - nget') |-> buff'[(nget' + i - 1) % NBUFF]]
    BY DEF Items
  <2>1. ASSUME nput' = nput, nget' = nget PROVE UNCHANGED Fifo!fifoVars
    <3>1. Items' = Items
      BY <2>1 DEF ItemsAreNumbers
    <3> QED BY <2>1, <2>q, <3>1 DEF Fifo!fifoVars
  <2>2. ASSUME NEW t \in Producers, ProduceAdvance(t) PROVE Fifo!Put
    <3>1. nput' = nput + 1 /\ nget' = nget /\ pc[t] = "p_advance" /\ t \in Threads
      BY <2>2 DEF ProduceAdvance, Threads
    <3>2. nput < nitems /\ nput - nget < NBUFF
      BY <3>1, SlotIsFree DEF IInv, Advancing, TakingStates
    <3>3. Items' = Append(Items, nput) /\ Len(Items) = nput - nget
      BY <3>1, PutIsAppend DEF ItemsAreNumbers
    <3> QED BY <2>q, <3>1, <3>2, <3>3 DEF Fifo!Put
  <2>3. ASSUME NEW t \in Consumers, ConsumeAdvance(t) PROVE Fifo!Get
    <3>1. nput' = nput /\ nget' = nget + 1
      BY <2>3 DEF ConsumeAdvance
    <3>2. Items # << >> /\ Items' = Tail(Items)
      BY <3>1, GetIsTail
    <3> QED BY <2>q, <3>1, <3>2 DEF Fifo!Get
  <2>4. \/ \E t \in Producers : ProduceAdvance(t)
        \/ \E t \in Consumers : ConsumeAdvance(t)
        \/ nput' = nput /\ nget' = nget
    <3>1. CASE UNCHANGED vars
      BY <3>1 DEF vars, items
    <3>2. ASSUME NEW t \in Producers, Produce(t)
          PROVE  ProduceAdvance(t) \/ (nput' = nput /\ nget' = nget)
      <4>1. ProduceStore(t) => nput' = nput /\ nget' = nget
        BY DEF ProduceStore
      <4>2. ProduceCount(t) => nput' = nput /\ nget' = nget
        BY DEF ProduceCount, items
      <4>3. \/ ProduceWaitEmpty(t) \/ ProduceWaitMutex(t) \/ ProducePostMutex(t)
            \/ ProducePostStored(t) \/ EndPostStored(t) \/ EndPostEmpty(t)
            => UNCHANGED items
        BY DEF ProduceWaitEmpty, ProduceWaitMutex, ProducePostMutex,
           ProducePostStored, EndPostStored, EndPostEmpty, SemStep
      <4>4. UNCHANGED items => nput' = nput /\ nget' = nget
        BY DEF items
      <4> QED BY <3>2, <4>1, <4>2, <4>3, <4>4 DEF Produce
    <3>3. ASSUME NEW t \in Consumers, Consume(t)
          PROVE  ConsumeAdvance(t) \/ (nput' = nput /\ nget' = nget)
      <4>1. ConsumeCheck(t) => nput' = nput /\ nget' = nget
        BY DEF ConsumeCheck, items
      <4>2. ConsumeCount(t) => nput' = nput /\ nget' = nget
        BY DEF ConsumeCount, items
      <4>3. \/ ConsumeWaitStored(t) \/ ConsumeWaitMutex(t) \/ ConsumePostMutex(t)
            \/ ConsumePostEmpty(t) \/ ConsumeEndPostStored(t)
            => UNCHANGED items
        BY DEF ConsumeWaitStored, ConsumeWaitMutex, ConsumePostMutex,
           ConsumePostEmpty, ConsumeEndPostStored, SemStep
      <4>4. UNCHANGED items => nput' = nput /\ nget' = nget
        BY DEF items
      <4> QED BY <3>3, <4>1, <4>2, <4>3, <4>4 DEF Consume
    <3>4. ASSUME NEW t \in Threads, EndPostMutex(t) PROVE nput' = nput /\ nget' = nget
      BY <3>4 DEF EndPostMutex, SemStep, items
    <3> QED BY <3>1, <3>2, <3>3, <3>4 DEF Next, Terminated
  <2> QED BY <2>1, <2>2, <2>3, <2>4
<1> QED BY <1>1, <1>2, Invariance, Numbers, PTL DEF Spec, ImplementsFifo, Fifo!FifoSpec
=============================================================================
