-------------------------- MODULE NamedSemRing_proofs --------------------------
(***************************************************************************)
(* Theorems about NamedSemRing, for any set of instances, any number of    *)
(* items and any size of the ring: a run that is alone passes every item,  *)
(* names are left over only after a crash, and no mutex ever gets a second *)
(* token.                                                                  *)
(*                                                                         *)
(* The argument has three layers.  Who opened and refers to which          *)
(* semaphore (Opened, Referred); the tokens of each mutex, whoever shares  *)
(* it (OneToken); and the ring of a run whose semaphores are its own       *)
(* (Ring).                                                                 *)
(***************************************************************************)
EXTENDS NamedSemRing, TLAPS

ProducerPlaces == {"empty", "lock", "store", "unlock", "post", "done"}
ConsumerPlaces == {"stored", "lock", "check", "unlock", "post", "done"}

\* The types, without the bound on the mutexes.
Types ==
  /\ prog \in [Instances -> Programs]
  /\ names \in [Sems -> Instances \cup {None}]
  /\ value \in [Sems -> [Instances -> Nat]]
  /\ main \in [Instances -> {"new", "open", "join", "unlink", "exit", "crashed"}]
  /\ next \in [Instances -> 1..3]
  /\ sem \in [Instances -> [Sems -> Instances \cup {None}]]
  /\ buff \in [Instances -> [0..NBUFF-1 -> 0..nitems]]
  /\ ppc \in [Instances -> ProducerPlaces]
  /\ cpc \in [Instances -> ConsumerPlaces]
  /\ pi \in [Instances -> 0..nitems] /\ ci \in [Instances -> 0..nitems]
  /\ wrong \in [Instances -> BOOLEAN]

\* How far each instance is with its semaphores, and when its threads run.
Opened(p) ==
  /\ main[p] = "new" => next[p] = 1 /\ \A s \in Sems : sem[p][s] = None
  /\ main[p] = "open" => \A k \in 1..3 : sem[p][OpenOrder[k]] # None <=> k < next[p]
  /\ main[p] \in {"open", "unlink"} => prog[p] = "prodcons1"
  /\ main[p] \in {"join", "unlink", "exit"} => \A s \in Sems : sem[p][s] # None
  /\ main[p] = "join" => next[p] = 1
  /\ main[p] \in {"new", "open", "crashed"} =>
       ppc[p] = "empty" /\ cpc[p] = "stored" /\ pi[p] = 0 /\ ci[p] = 0
  /\ main[p] \in {"unlink", "exit"} => ppc[p] = "done" /\ cpc[p] = "done"

\* A semaphore that somebody refers to was made by the instance it is called
\* after, and only prodcons1 makes any for others.
Own(p, s) == sem[p][s] = p
Referred ==
  /\ \A s \in Sems : names[s] # None => Own(names[s], s) /\ prog[names[s]] = "prodcons1"
  /\ \A p \in Instances, s \in Sems :
       sem[p][s] # None =>
         /\ Own(sem[p][s], s)
         /\ sem[p][s] # p => prog[sem[p][s]] = "prodcons1" /\ prog[p] = "prodcons1"

\* Who made a name removes it at the end if nobody else has done so.
ToUnlink ==
  \A k \in 1..3 :
    LET maker == names[OpenOrder[k]]
    IN maker # None => \/ main[maker] \in {"open", "join", "crashed"}
                       \/ main[maker] = "unlink" /\ next[maker] <= k

\* A thread of p has a token of the mutex.
ProducerInside(p) == ppc[p] = "unlock" \/ (ppc[p] = "store" /\ ~EarlyUnlock(p))
ConsumerInside(p) == cpc[p] = "unlock" \/ (cpc[p] = "check" /\ ~EarlyUnlock(p))
Inside(p) == ProducerInside(p) \/ ConsumerInside(p)

OneToken ==
  /\ \A p \in Instances : value["mutex"][p] \in {0, 1}
  /\ \A p \in Instances :
       Inside(p) => /\ value["mutex"][sem[p]["mutex"]] = 0
                    /\ ~(ProducerInside(p) /\ ConsumerInside(p))
                    /\ \A q \in Instances \ {p} : Inside(q) => sem[p]["mutex"] # sem[q]["mutex"]

\* The loops end in time.
Loops(p) ==
  IF prog[p] = "mycat2"
  THEN /\ ppc[p] = "done" => pi[p] = nitems
       /\ cpc[p] = "post" => ci[p] < nitems
  ELSE /\ ppc[p] \notin {"empty", "done"} => pi[p] < nitems
       /\ cpc[p] \notin {"stored", "done"} => ci[p] < nitems

\* Tokens in the hands of the threads; mycat2 ends with a block of its own.
ExtraPost(p) == prog[p] = "mycat2" /\ ppc[p] = "done"
ProducerHolds(p) == ppc[p] \in {"lock", "store", "unlock", "post"} \/ ExtraPost(p)
ConsumerHolds(p) ==
  cpc[p] \in {"lock", "check", "unlock", "post"} \/ (prog[p] = "mycat2" /\ cpc[p] = "done")
One(b) == IF b THEN 1 ELSE 0

Tokens(p) ==
  /\ value["nstored"][p] + ci[p] + One(ConsumerHolds(p)) = pi[p] + One(ExtraPost(p))
  /\ value["nempty"][p] + pi[p] + One(ProducerHolds(p)) = NBUFF + ci[p]

\* The slots from ci to pi hold their items.
Stored(p) == ppc[p] = "post" \/ (IF EarlyUnlock(p) THEN ppc[p] = "done" ELSE ppc[p] = "unlock")
Filled(p) ==
  /\ \A k \in ci[p]..(pi[p]-1) : buff[p][Slot(k)] = Content(p, k)
  /\ Stored(p) => buff[p][Slot(pi[p])] = Content(p, pi[p])

\* The ring of a run with semaphores of its own.
Ring(p) ==
  /\ main[p] = "open" =>
       \A k \in 1..3 : k < next[p] => value[OpenOrder[k]][p] = InitialValue(OpenOrder[k])
  /\ main[p] = "join" => Tokens(p) /\ Filled(p)
  /\ ~wrong[p]

IInv ==
  /\ Types
  /\ \A p \in Instances : Opened(p)
  /\ Referred
  /\ ToUnlink
  /\ OneToken
  /\ \A p \in Instances : Loops(p)
  /\ \A p \in Instances : Alone(p) => Ring(p)

USE NamedAssumption

LEMMA Order ==
  /\ Len(OpenOrder) = 3
  /\ OpenOrder[1] = "mutex" /\ OpenOrder[2] = "nempty" /\ OpenOrder[3] = "nstored"
  /\ \A k \in 1..3 : OpenOrder[k] \in Sems
  /\ \A k, l \in 1..3 : OpenOrder[k] = OpenOrder[l] => k = l
  /\ \A s \in Sems : \E k \in 1..3 : OpenOrder[k] = s
BY DEF OpenOrder, Sems

LEMMA InitInv == Init => IInv
<1> SUFFICES ASSUME Init PROVE IInv
  OBVIOUS
<1>1. FreshBuff \in [0..NBUFF-1 -> 0..nitems]
  BY DEF FreshBuff
<1>2. Types
  BY <1>1 DEF Init, Types, ProducerPlaces, ConsumerPlaces
<1>3. \A p \in Instances : Opened(p)
  BY DEF Init, Opened
<1>4. Referred /\ ToUnlink
  BY Order DEF Init, Referred, ToUnlink
<1>5. OneToken
  BY DEF Init, OneToken, Inside, ProducerInside, ConsumerInside, Sems
<1>6. \A p \in Instances : Loops(p) /\ Ring(p)
  BY DEF Init, Loops, Ring
<1> QED BY <1>2, <1>3, <1>4, <1>5, <1>6 DEF IInv

-----------------------------------------------------------------------------
(* What a step of one thread leaves alone                                   *)

ThreadStep(q) ==
  /\ main[q] = "join"
  /\ UNCHANGED <<prog, names, main, next, sem>>
  /\ \A p \in Instances \ {q} :
       /\ buff'[p] = buff[p] /\ wrong'[p] = wrong[p]
       /\ ppc'[p] = ppc[p] /\ pi'[p] = pi[p]
       /\ cpc'[p] = cpc[p] /\ ci'[p] = ci[p]
       /\ \A s \in Sems : sem[q][s] # p => value'[s][p] = value[s][p]

LEMMA ThreadStepKeeps ==
  ASSUME IInv, NEW q \in Instances, ThreadStep(q)
  PROVE  /\ \A p \in Instances : Opened(p)'
         /\ Referred' /\ ToUnlink'
         /\ \A p \in Instances : Alone(p)' <=> Alone(p)
         /\ \A p \in Instances \ {q} : Loops(p)' /\ (Alone(p)' => Ring(p)')
<1> USE DEF IInv, ThreadStep
<1>1. \A p \in Instances : Opened(p)'
  BY DEF Opened
<1>2. Referred' /\ ToUnlink'
  BY DEF Referred, ToUnlink, Own
<1>3. \A p \in Instances : Alone(p)' <=> Alone(p)
  BY DEF Alone
<1>4. \A p \in Instances \ {q} : Loops(p)'
  BY DEF Loops
<1>5. ASSUME NEW p \in Instances \ {q}, Alone(p)' PROVE Ring(p)'
  <2>1. Ring(p)
    BY <1>3, <1>5
  <2>2. \A s \in Sems : value'[s][p] = value[s][p]
    BY <1>3, <1>5 DEF Alone
  <2>3. Tokens(p) => Tokens(p)'
    BY <2>2 DEF Tokens, ConsumerHolds, ProducerHolds, ExtraPost, Sems
  <2>4. Filled(p) => Filled(p)'
    BY DEF Filled, Stored, EarlyUnlock, Content
  <2> QED BY <2>1, <2>2, <2>3, <2>4, Order DEF Ring, InitialValue
<1> QED BY <1>1, <1>2, <1>3, <1>4, <1>5

\* What remains to be shown of a step of a thread of q.
LEMMA ThreadStepInv ==
  ASSUME IInv, NEW q \in Instances, ThreadStep(q),
         Types', OneToken', Loops(q)', Alone(q) => Ring(q)'
  PROVE  IInv'
<1>1. /\ \A p \in Instances : Opened(p)'
      /\ Referred' /\ ToUnlink'
      /\ \A p \in Instances : Alone(p)' <=> Alone(p)
      /\ \A p \in Instances \ {q} : Loops(p)' /\ (Alone(p)' => Ring(p)')
  BY ThreadStepKeeps
<1>2. \A p \in Instances : Loops(p)'
  BY <1>1
<1>3. \A p \in Instances : Alone(p)' => Ring(p)'
  BY <1>1
<1> QED BY <1>1, <1>2, <1>3 DEF IInv

\* The semaphores of an instance whose threads run.
LEMMA Semaphores ==
  ASSUME IInv, NEW q \in Instances, main[q] = "join"
  PROVE  /\ \A s \in Sems : sem[q][s] \in Instances
         /\ \A s \in Sems : Alone(q) => sem[q][s] = q
         /\ prog[q] # "prodcons1" => Alone(q)
         /\ Alone(q) => Ring(q) /\ Tokens(q) /\ Filled(q) /\ ~wrong[q]
<1>1. \A s \in Sems : sem[q][s] \in Instances
  BY DEF IInv, Types, Opened
<1>2. prog[q] # "prodcons1" => Alone(q)
  <2> SUFFICES ASSUME prog[q] # "prodcons1" PROVE Alone(q)
    OBVIOUS
  <2>1. \A s \in Sems : sem[q][s] \in {q, None}
    BY <1>1 DEF IInv, Referred
  <2>2. \A p \in Instances \ {q}, s \in Sems : sem[p][s] # q
    BY DEF IInv, Referred
  <2> QED BY <2>1, <2>2 DEF Alone
<1> QED BY <1>1, <1>2 DEF IInv, Ring, Alone

\* sem_wait and sem_post change one value by one.
LEMMA WaitTakes ==
  ASSUME IInv, NEW q \in Instances, NEW s \in Sems, sem[q][s] \in Instances, SemWait(q, s)
  PROVE  /\ value' \in [Sems -> [Instances -> Nat]]
         /\ value[s][sem[q][s]] > 0
         /\ value'[s][sem[q][s]] = value[s][sem[q][s]] - 1
         /\ \A t \in Sems, p \in Instances :
              ~(t = s /\ p = sem[q][s]) => value'[t][p] = value[t][p]
<1>1. value \in [Sems -> [Instances -> Nat]]
  BY DEF IInv, Types
<1>2. value[s][sem[q][s]] - 1 \in Nat
  BY <1>1 DEF SemWait
<1> QED BY <1>1, <1>2 DEF SemWait

LEMMA PostGives ==
  ASSUME IInv, NEW q \in Instances, NEW s \in Sems, sem[q][s] \in Instances, SemPost(q, s)
  PROVE  /\ value' \in [Sems -> [Instances -> Nat]]
         /\ value'[s][sem[q][s]] = value[s][sem[q][s]] + 1
         /\ \A t \in Sems, p \in Instances :
              ~(t = s /\ p = sem[q][s]) => value'[t][p] = value[t][p]
<1>1. value \in [Sems -> [Instances -> Nat]]
  BY DEF IInv, Types
<1>2. value[s][sem[q][s]] + 1 \in Nat
  BY <1>1
<1> QED BY <1>1, <1>2 DEF SemPost

-----------------------------------------------------------------------------
(* The token of a mutex                                                     *)

\* Threads are in places only while main joins them.
LEMMA InsideRuns ==
  ASSUME IInv, NEW p \in Instances, Inside(p)
  PROVE  main[p] = "join" /\ sem[p]["mutex"] \in Instances
<1>1. ppc[p] \notin {"empty", "done"} \/ cpc[p] \notin {"stored", "done"}
  BY DEF Inside, ProducerInside, ConsumerInside
<1>2. main[p] \in {"new", "open", "join", "unlink", "exit", "crashed"}
  BY DEF IInv, Types
<1>3. main[p] = "join"
  BY <1>1, <1>2 DEF IInv, Opened
<1> QED BY <1>3, Semaphores DEF Sems

\* Where the threads of the others are.
LEMMA OthersInside ==
  ASSUME NEW q \in Instances, ThreadStep(q), NEW p \in Instances \ {q}
  PROVE  /\ ProducerInside(p)' = ProducerInside(p)
         /\ ConsumerInside(p)' = ConsumerInside(p)
         /\ Inside(p)' = Inside(p)
<1>1. ppc'[p] = ppc[p] /\ cpc'[p] = cpc[p] /\ prog' = prog
  BY DEF ThreadStep
<1>2. ProducerInside(p)' = ProducerInside(p)
  BY <1>1 DEF ProducerInside, EarlyUnlock
<1>3. ConsumerInside(p)' = ConsumerInside(p)
  BY <1>1 DEF ConsumerInside, EarlyUnlock
<1> QED BY <1>2, <1>3 DEF Inside

\* A step that leaves the mutexes alone and nobody enters or leaves one.
LEMMA TokenStays ==
  ASSUME IInv, NEW q \in Instances, ThreadStep(q),
         \A p \in Instances : value'["mutex"][p] = value["mutex"][p],
         ProducerInside(q)' = ProducerInside(q), ConsumerInside(q)' = ConsumerInside(q)
  PROVE  OneToken'
<1>1. \A p \in Instances : /\ ProducerInside(p)' = ProducerInside(p)
                          /\ ConsumerInside(p)' = ConsumerInside(p)
                          /\ Inside(p)' = Inside(p)
  <2>1. Inside(q)' = Inside(q)
    BY DEF Inside
  <2>2. ASSUME NEW p \in Instances, p # q
        PROVE  /\ ProducerInside(p)' = ProducerInside(p)
               /\ ConsumerInside(p)' = ConsumerInside(p)
               /\ Inside(p)' = Inside(p)
    BY <2>2, OthersInside
  <2> QED BY <2>1, <2>2
<1>3. \A p \in Instances : Inside(p) => sem[p]["mutex"] \in Instances
  BY InsideRuns
<1>4. sem' = sem
  BY DEF ThreadStep
<1>5. OneToken
  BY DEF IInv
<1>6. \A p \in Instances : value'["mutex"][p] \in {0, 1}
  BY <1>5 DEF OneToken
<1>7. ASSUME NEW p \in Instances, Inside(p)'
      PROVE  /\ value'["mutex"][sem[p]["mutex"]] = 0
             /\ ~(ProducerInside(p)' /\ ConsumerInside(p)')
             /\ \A r \in Instances \ {p} : Inside(r)' => sem[p]["mutex"] # sem[r]["mutex"]
  BY <1>1, <1>3, <1>5, <1>7 DEF OneToken
<1> QED BY <1>4, <1>6, <1>7 DEF OneToken

\* A thread of q takes the token.
LEMMA TokenTaken ==
  ASSUME IInv, NEW q \in Instances, ThreadStep(q), SemWait(q, "mutex"),
         \/ ProducerInside(q)' /\ ConsumerInside(q)' = ConsumerInside(q)
         \/ ConsumerInside(q)' /\ ProducerInside(q)' = ProducerInside(q)
  PROVE  OneToken'
<1> DEFINE m == sem[q]["mutex"]
<1>1. m \in Instances /\ "mutex" \in Sems
  BY Semaphores DEF ThreadStep, Sems
<1>2. /\ value["mutex"][m] > 0 /\ value'["mutex"][m] = value["mutex"][m] - 1
      /\ \A p \in Instances : p # m => value'["mutex"][p] = value["mutex"][p]
  BY <1>1, WaitTakes
<1>3. value["mutex"][m] = 1
  BY <1>1, <1>2 DEF IInv, OneToken
<1>4. \A p \in Instances : Inside(p) => sem[p]["mutex"] # m
  BY <1>3 DEF IInv, OneToken
<1>5. ~Inside(q)
  BY <1>4
<1>6. \A p \in Instances \ {q} : /\ ProducerInside(p)' = ProducerInside(p)
                                /\ ConsumerInside(p)' = ConsumerInside(p)
                                /\ Inside(p)' = Inside(p)
  BY OthersInside
<1>7. Inside(q)' /\ ~(ProducerInside(q)' /\ ConsumerInside(q)')
  BY <1>5 DEF Inside
<1>8. \A p \in Instances : value'["mutex"][p] \in {0, 1}
  BY <1>2, <1>3 DEF IInv, OneToken
<1>9. sem' = sem
  BY DEF ThreadStep
<1>10. \A p \in Instances : Inside(p) => sem[p]["mutex"] \in Instances
  BY InsideRuns
<1>11. ASSUME NEW p \in Instances, Inside(p)'
       PROVE  /\ value'["mutex"][sem[p]["mutex"]] = 0
              /\ ~(ProducerInside(p)' /\ ConsumerInside(p)')
              /\ \A r \in Instances \ {p} : Inside(r)' => sem[p]["mutex"] # sem[r]["mutex"]
  <2>1. CASE p = q
    BY <1>2, <1>3, <1>4, <1>6, <1>7, <2>1
  <2>2. CASE p # q
    <3>1. Inside(p)
      BY <1>6, <1>11, <2>2
    <3>2. value["mutex"][sem[p]["mutex"]] = 0 /\ ~(ProducerInside(p) /\ ConsumerInside(p))
      BY <3>1 DEF IInv, OneToken
    <3>3. \A r \in Instances \ {p} : Inside(r) => sem[p]["mutex"] # sem[r]["mutex"]
      BY <3>1 DEF IInv, OneToken
    <3> QED BY <1>2, <1>4, <1>6, <1>10, <2>2, <3>1, <3>2, <3>3
  <2> QED BY <2>1, <2>2
<1> QED BY <1>8, <1>9, <1>11 DEF OneToken

\* A thread of q gives the token back.
LEMMA TokenGiven ==
  ASSUME IInv, NEW q \in Instances, ThreadStep(q), SemPost(q, "mutex"),
         \/ ProducerInside(q) /\ ~ProducerInside(q)' /\ ConsumerInside(q)' = ConsumerInside(q)
         \/ ConsumerInside(q) /\ ~ConsumerInside(q)' /\ ProducerInside(q)' = ProducerInside(q)
  PROVE  OneToken'
<1> DEFINE m == sem[q]["mutex"]
<1>1. m \in Instances /\ "mutex" \in Sems
  BY Semaphores DEF ThreadStep, Sems
<1>2. /\ value'["mutex"][m] = value["mutex"][m] + 1
      /\ \A p \in Instances : p # m => value'["mutex"][p] = value["mutex"][p]
  BY <1>1, PostGives
<1>3. Inside(q)
  BY DEF Inside
<1>4. /\ value["mutex"][m] = 0 /\ ~(ProducerInside(q) /\ ConsumerInside(q))
      /\ \A p \in Instances \ {q} : Inside(p) => m # sem[p]["mutex"]
  BY <1>3 DEF IInv, OneToken
<1>5. ~Inside(q)'
  BY <1>4 DEF Inside
<1>6. \A p \in Instances \ {q} : /\ ProducerInside(p)' = ProducerInside(p)
                                /\ ConsumerInside(p)' = ConsumerInside(p)
                                /\ Inside(p)' = Inside(p)
  BY OthersInside
<1>7. \A p \in Instances : value'["mutex"][p] \in {0, 1}
  BY <1>2, <1>4 DEF IInv, OneToken
<1>8. sem' = sem
  BY DEF ThreadStep
<1>9. \A p \in Instances : Inside(p) => sem[p]["mutex"] \in Instances
  BY InsideRuns
<1>10. ASSUME NEW p \in Instances, Inside(p)'
       PROVE  /\ value'["mutex"][sem[p]["mutex"]] = 0
              /\ ~(ProducerInside(p)' /\ ConsumerInside(p)')
              /\ \A r \in Instances \ {p} : Inside(r)' => sem[p]["mutex"] # sem[r]["mutex"]
  <2>1. p # q /\ Inside(p)
    BY <1>5, <1>6, <1>10
  <2>2. value["mutex"][sem[p]["mutex"]] = 0 /\ ~(ProducerInside(p) /\ ConsumerInside(p))
    BY <2>1 DEF IInv, OneToken
  <2>3. \A r \in Instances \ {p} : Inside(r) => sem[p]["mutex"] # sem[r]["mutex"]
    BY <2>1 DEF IInv, OneToken
  <2> QED BY <1>2, <1>4, <1>5, <1>6, <1>9, <2>1, <2>2, <2>3
<1> QED BY <1>7, <1>8, <1>10 DEF OneToken

-----------------------------------------------------------------------------
(* The producer moves                                                       *)

\* Two numbers that differ by less than NBUFF are in different slots.
LEMMA SlotsDiffer ==
  ASSUME NEW i \in Nat, NEW j \in Nat, i < j, j - i < NBUFF
  PROVE  Slot(i) # Slot(j)
<1> DEFINE p == j \div NBUFF  q == i \div NBUFF
<1>1. NBUFF \in Nat /\ NBUFF > 0
  OBVIOUS
<1>2. /\ p \in Int /\ q \in Int
      /\ i % NBUFF = i - NBUFF * q /\ j % NBUFF = j - NBUFF * p
  BY <1>1
<1> HIDE DEF p, q
<1>3. ASSUME i % NBUFF = j % NBUFF PROVE FALSE
  <2>1. NBUFF * p \in Int /\ NBUFF * q \in Int
    BY <1>1, <1>2
  <2>2. j - i = NBUFF * p - NBUFF * q
    BY <1>2, <1>3, <2>1
  <2>3. NBUFF * p - NBUFF * q = NBUFF * (p - q)
    BY <1>1, <1>2
  <2>4. CASE p - q <= 0
    <3>1. NBUFF * (p - q) <= 0
      BY <1>1, <1>2, <2>4
    <3> QED BY <2>2, <2>3, <3>1
  <2>5. CASE p - q >= 1
    <3>1. NBUFF * (p - q) >= NBUFF
      BY <1>1, <1>2, <2>5
    <3> QED BY <1>1, <2>2, <2>3, <3>1
  <2> QED BY <1>2, <2>4, <2>5
<1> QED BY <1>3 DEF Slot

\* A slot is a slot of the ring.
LEMMA SlotInRing == \A i \in Nat : Slot(i) \in 0..NBUFF-1
BY DEF Slot

LEMMA ProducerWaits ==
  ASSUME IInv, NEW q \in Instances, ProduceWaitEmpty(q)
  PROVE  IInv'
<1> USE DEF ProduceWaitEmpty, ProducerStep, mainVars
<1>1. main[q] = "join" /\ "nempty" \in Sems
  BY DEF Sems
<1>2. /\ sem[q]["nempty"] \in Instances
      /\ Alone(q) => sem[q]["nempty"] = q /\ Tokens(q) /\ Filled(q) /\ ~wrong[q]
  BY <1>1, Semaphores
<1>3. /\ value' \in [Sems -> [Instances -> Nat]]
      /\ value["nempty"][sem[q]["nempty"]] > 0
      /\ value'["nempty"][sem[q]["nempty"]] = value["nempty"][sem[q]["nempty"]] - 1
      /\ \A t \in Sems, p \in Instances :
           ~(t = "nempty" /\ p = sem[q]["nempty"]) => value'[t][p] = value[t][p]
  BY <1>1, <1>2, WaitTakes
<1>4. Types /\ ppc[q] = "empty" /\ ppc'[q] = "lock"
  BY DEF IInv, Types
<1>5. ThreadStep(q)
  BY <1>1, <1>3 DEF ThreadStep
<1>6. Types'
  BY <1>3, <1>4 DEF Types, ProducerPlaces
<1>7. OneToken'
  <2>1. \A p \in Instances : value'["mutex"][p] = value["mutex"][p]
    BY <1>3 DEF Sems
  <2>2. ProducerInside(q)' = ProducerInside(q) /\ ConsumerInside(q)' = ConsumerInside(q)
    BY <1>4 DEF ProducerInside, ConsumerInside, EarlyUnlock
  <2> QED BY <1>5, <2>1, <2>2, TokenStays
<1>8. Loops(q)'
  BY <1>4 DEF IInv, Loops, LoopEnds, Types
<1>9. ASSUME Alone(q) PROVE Ring(q)'
  <2>1. Tokens(q)'
    <3>1. /\ value["nempty"][q] \in Nat /\ value'["nempty"][q] = value["nempty"][q] - 1
          /\ value'["nstored"][q] = value["nstored"][q]
      BY <1>2, <1>3, <1>4, <1>9 DEF Types, Sems
    <3>2. /\ ~ProducerHolds(q) /\ ProducerHolds(q)' /\ ConsumerHolds(q)' = ConsumerHolds(q)
          /\ ~ExtraPost(q) /\ ~ExtraPost(q)'
      BY <1>4 DEF ProducerHolds, ConsumerHolds, ExtraPost
    <3>3. One(ProducerHolds(q)) = 0 /\ One(ProducerHolds(q))' = 1
      BY <3>2 DEF One
    <3>4. One(ConsumerHolds(q))' = One(ConsumerHolds(q)) /\ One(ExtraPost(q))' = One(ExtraPost(q))
      BY <3>2 DEF One
    <3> QED BY <1>2, <1>4, <1>9, <3>1, <3>3, <3>4 DEF Tokens, Types
  <2>2. Filled(q)'
    BY <1>2, <1>4, <1>9 DEF Filled, Stored, EarlyUnlock, Content
  <2> QED BY <1>1, <1>2, <1>9, <2>1, <2>2 DEF Ring
<1> QED BY <1>5, <1>6, <1>7, <1>8, <1>9, ThreadStepInv

LEMMA ProducerReturns ==
  ASSUME IInv, NEW q \in Instances, ProduceReturns(q)
  PROVE  IInv'
<1> USE DEF ProduceReturns, ProducerStep, mainVars
<1>1. main[q] = "join"
  OBVIOUS
<1>2. Alone(q) => Tokens(q) /\ Filled(q) /\ ~wrong[q]
  BY <1>1, Semaphores
<1>3. Types /\ ppc[q] = "empty" /\ ppc'[q] = "done" /\ prog[q] # "mycat2" /\ pi[q] = nitems
  BY DEF IInv, Types, LoopEnds
<1>4. ThreadStep(q)
  BY <1>1 DEF ThreadStep
<1>5. Types'
  BY <1>3 DEF Types, ProducerPlaces
<1>6. OneToken'
  <2>1. ProducerInside(q)' = ProducerInside(q) /\ ConsumerInside(q)' = ConsumerInside(q)
    BY <1>3 DEF ProducerInside, ConsumerInside, EarlyUnlock
  <2> QED BY <1>4, <2>1, TokenStays
<1>7. Loops(q)'
  BY <1>3 DEF IInv, Loops
<1>8. ASSUME Alone(q) PROVE Ring(q)'
  <2>1. Tokens(q)'
    BY <1>2, <1>3, <1>8 DEF Tokens, One, ProducerHolds, ConsumerHolds, ExtraPost
  <2>2. Filled(q)'
    BY <1>2, <1>3, <1>8 DEF Filled, Stored, EarlyUnlock, Content
  <2> QED BY <1>1, <1>2, <1>8, <2>1, <2>2 DEF Ring
<1> QED BY <1>4, <1>5, <1>6, <1>7, <1>8, ThreadStepInv

LEMMA ProducerLocks ==
  ASSUME IInv, NEW q \in Instances, ProduceLock(q)
  PROVE  IInv'
<1> USE DEF ProduceLock, ProducerStep, mainVars
<1>1. main[q] = "join" /\ "mutex" \in Sems
  BY DEF Sems
<1>2. /\ sem[q]["mutex"] \in Instances
      /\ Alone(q) => Tokens(q) /\ Filled(q) /\ ~wrong[q]
  BY <1>1, Semaphores
<1>3. /\ value' \in [Sems -> [Instances -> Nat]]
      /\ \A t \in Sems, p \in Instances :
           ~(t = "mutex" /\ p = sem[q]["mutex"]) => value'[t][p] = value[t][p]
  BY <1>1, <1>2, WaitTakes
<1>4. /\ Types /\ ppc[q] = "lock"
      /\ ppc'[q] = IF EarlyUnlock(q) THEN "unlock" ELSE "store"
  BY DEF IInv, Types
<1>5. ThreadStep(q)
  BY <1>1, <1>3 DEF ThreadStep
<1>6. Types'
  BY <1>3, <1>4 DEF Types, ProducerPlaces
<1>7. OneToken'
  <2>1. ProducerInside(q)' /\ ConsumerInside(q)' = ConsumerInside(q)
    BY <1>4 DEF ProducerInside, ConsumerInside, EarlyUnlock
  <2> QED BY <1>5, <2>1, TokenTaken
<1>8. Loops(q)'
  BY <1>4 DEF IInv, Loops, EarlyUnlock
<1>9. ASSUME Alone(q) PROVE Ring(q)'
  <2>1. Tokens(q)'
    BY <1>2, <1>3, <1>4, <1>9
    DEF Tokens, One, ProducerHolds, ConsumerHolds, ExtraPost, Sems
  <2>2. Filled(q)'
    BY <1>2, <1>4, <1>9 DEF Filled, Stored, EarlyUnlock, Content
  <2> QED BY <1>1, <1>2, <1>9, <2>1, <2>2 DEF Ring
<1> QED BY <1>5, <1>6, <1>7, <1>8, <1>9, ThreadStepInv

LEMMA ProducerUnlocks ==
  ASSUME IInv, NEW q \in Instances, ProduceUnlock(q)
  PROVE  IInv'
<1> USE DEF ProduceUnlock, ProducerStep, mainVars
<1>1. main[q] = "join" /\ "mutex" \in Sems
  BY DEF Sems
<1>2. /\ sem[q]["mutex"] \in Instances
      /\ Alone(q) => Tokens(q) /\ Filled(q) /\ ~wrong[q]
  BY <1>1, Semaphores
<1>3. /\ value' \in [Sems -> [Instances -> Nat]]
      /\ \A t \in Sems, p \in Instances :
           ~(t = "mutex" /\ p = sem[q]["mutex"]) => value'[t][p] = value[t][p]
  BY <1>1, <1>2, PostGives
<1>4. /\ Types /\ ppc[q] = "unlock"
      /\ ppc'[q] = IF EarlyUnlock(q) THEN "store" ELSE "post"
  BY DEF IInv, Types
<1>5. ThreadStep(q)
  BY <1>1, <1>3 DEF ThreadStep
<1>6. Types'
  BY <1>3, <1>4 DEF Types, ProducerPlaces
<1>7. OneToken'
  <2>1. /\ ProducerInside(q) /\ ~ProducerInside(q)'
        /\ ConsumerInside(q)' = ConsumerInside(q)
    BY <1>4 DEF ProducerInside, ConsumerInside, EarlyUnlock
  <2> QED BY <1>5, <2>1, TokenGiven
<1>8. Loops(q)'
  BY <1>4 DEF IInv, Loops, EarlyUnlock
<1>9. ASSUME Alone(q) PROVE Ring(q)'
  <2>1. Tokens(q)'
    BY <1>2, <1>3, <1>4, <1>9
    DEF Tokens, One, ProducerHolds, ConsumerHolds, ExtraPost, Sems
  <2>2. Filled(q)'
    BY <1>2, <1>4, <1>9 DEF Filled, Stored, EarlyUnlock, Content
  <2> QED BY <1>1, <1>2, <1>9, <2>1, <2>2 DEF Ring
<1> QED BY <1>5, <1>6, <1>7, <1>8, <1>9, ThreadStepInv

\* The slot of item pi is none of the slots that wait for the consumer.
LEMMA ProducerStores ==
  ASSUME IInv, NEW q \in Instances, ProduceStore(q)
  PROVE  IInv'
<1> USE DEF ProduceStore, ProducerStep, mainVars
<1>1. main[q] = "join"
  OBVIOUS
<1>2. Alone(q) => Tokens(q) /\ Filled(q) /\ ~wrong[q]
  BY <1>1, Semaphores
<1>3. /\ Types /\ ppc[q] = "store"
      /\ ppc'[q] = IF EarlyUnlock(q) THEN "post" ELSE "unlock"
  BY DEF IInv, Types
<1>4. /\ pi[q] \in 0..nitems /\ ci[q] \in 0..nitems /\ Slot(pi[q]) \in 0..NBUFF-1
      /\ Content(q, pi[q]) \in 0..nitems /\ buff[q] \in [0..NBUFF-1 -> 0..nitems]
  <2>1. pi[q] \in 0..nitems /\ ci[q] \in 0..nitems /\ buff[q] \in [0..NBUFF-1 -> 0..nitems]
    BY <1>3 DEF Types
  <2> QED BY <2>1, SlotInRing DEF Content
<1>5. buff'[q] = [buff[q] EXCEPT ![Slot(pi[q])] = Content(q, pi[q])]
  BY <1>3 DEF Types
<1>6. ThreadStep(q)
  BY <1>1 DEF ThreadStep
<1>7. Types'
  <2>1. buff' \in [Instances -> [0..NBUFF-1 -> 0..nitems]]
    BY <1>3, <1>4 DEF Types
  <2> QED BY <1>3, <2>1 DEF Types, ProducerPlaces
<1>8. OneToken'
  <2>1. ProducerInside(q)' = ProducerInside(q) /\ ConsumerInside(q)' = ConsumerInside(q)
    BY <1>3 DEF ProducerInside, ConsumerInside, EarlyUnlock
  <2> QED BY <1>6, <2>1, TokenStays
<1>9. Loops(q)'
  BY <1>3 DEF IInv, Loops, EarlyUnlock
<1>10. ASSUME Alone(q) PROVE Ring(q)'
  <2>1. Tokens(q)'
    BY <1>2, <1>3, <1>10 DEF Tokens, One, ProducerHolds, ConsumerHolds, ExtraPost
  <2>2. pi[q] - ci[q] < NBUFF
    <3>1. One(ProducerHolds(q)) = 1
      BY <1>3 DEF One, ProducerHolds
    <3>2. value["nempty"][q] \in Nat
      <4>1. value \in [Sems -> [Instances -> Nat]]
        BY ONLY <1>3 DEF Types
      <4> QED BY ONLY <4>1, q \in Instances DEF Sems
    <3>3. value["nempty"][q] + pi[q] + 1 = NBUFF + ci[q]
      BY <1>2, <1>10, <3>1 DEF Tokens
    <3>4. pi[q] \in Nat /\ ci[q] \in Nat /\ NBUFF \in Nat
      BY ONLY <1>4, NamedAssumption
    <3> QED BY ONLY <3>2, <3>3, <3>4
  <2>3. ASSUME NEW k \in ci[q]..(pi[q]-1) PROVE buff'[q][Slot(k)] = Content(q, k)
    <3>1. k \in Nat /\ k < pi[q] /\ pi[q] - k < NBUFF /\ pi[q] \in Nat
      <4>1. pi[q] \in Nat /\ ci[q] \in Nat /\ NBUFF \in Nat
        BY ONLY <1>4, NamedAssumption
      <4> QED BY ONLY <2>2, <2>3, <4>1
    <3>2. Slot(k) # Slot(pi[q]) /\ Slot(k) \in 0..NBUFF-1
      BY <3>1, SlotsDiffer, SlotInRing
    <3>3. buff[q][Slot(k)] = Content(q, k)
      BY <1>2, <1>10 DEF Filled
    <3> QED BY <1>4, <1>5, <3>2, <3>3
  <2>4. buff'[q][Slot(pi[q])] = Content(q, pi[q])
    BY <1>4, <1>5
  <2>5. Filled(q)'
    BY <2>3, <2>4 DEF Filled, Content
  <2> QED BY <1>1, <1>2, <1>10, <2>1, <2>5 DEF Ring
<1> QED BY <1>6, <1>7, <1>8, <1>9, <1>10, ThreadStepInv

LEMMA ProducerPosts ==
  ASSUME IInv, NEW q \in Instances, ProducePost(q)
  PROVE  IInv'
<1> DEFINE last == prog[q] = "mycat2" /\ pi[q] = nitems
<1> USE DEF ProducePost, ProducerStep, mainVars
<1>1. main[q] = "join" /\ "nstored" \in Sems
  BY DEF Sems
<1>2. /\ sem[q]["nstored"] \in Instances
      /\ Alone(q) => sem[q]["nstored"] = q /\ Tokens(q) /\ Filled(q) /\ ~wrong[q]
  BY <1>1, Semaphores
<1>3. /\ value' \in [Sems -> [Instances -> Nat]]
      /\ value'["nstored"][sem[q]["nstored"]] = value["nstored"][sem[q]["nstored"]] + 1
      /\ \A t \in Sems, p \in Instances :
           ~(t = "nstored" /\ p = sem[q]["nstored"]) => value'[t][p] = value[t][p]
  BY <1>1, <1>2, PostGives
<1>4. /\ Types /\ ppc[q] = "post" /\ pi[q] \in 0..nitems /\ ci[q] \in 0..nitems
      /\ ppc'[q] = IF last THEN "done" ELSE "empty"
      /\ pi'[q] = IF last THEN pi[q] ELSE pi[q] + 1
      /\ buff' = buff /\ ci' = ci /\ cpc' = cpc /\ prog' = prog /\ wrong' = wrong
      /\ main' = main
  BY DEF IInv, Types
<1>5. ThreadStep(q)
  BY <1>1, <1>3 DEF ThreadStep
<1>6. ~last => pi[q] < nitems
  BY <1>4 DEF IInv, Loops
<1>7. Types'
  <2>1. pi' \in [Instances -> 0..nitems]
    BY <1>4, <1>6 DEF Types
  <2> QED BY <1>3, <1>4, <2>1 DEF Types, ProducerPlaces
<1>8. OneToken'
  <2>1. \A p \in Instances : value'["mutex"][p] = value["mutex"][p]
    BY <1>3 DEF Sems
  <2>2. ProducerInside(q)' = ProducerInside(q) /\ ConsumerInside(q)' = ConsumerInside(q)
    BY <1>4 DEF ProducerInside, ConsumerInside, EarlyUnlock
  <2> QED BY <1>5, <2>1, <2>2, TokenStays
<1>9. Loops(q)'
  BY <1>4 DEF IInv, Loops
<1>10. ASSUME Alone(q) PROVE Ring(q)'
  <2>1. Tokens(q)'
    <3>1. /\ value["nstored"][q] \in Nat /\ value'["nstored"][q] = value["nstored"][q] + 1
          /\ value["nempty"][q] \in Nat /\ value'["nempty"][q] = value["nempty"][q]
      BY <1>2, <1>3, <1>4, <1>10 DEF Types, Sems
    <3>2. /\ ProducerHolds(q) /\ ConsumerHolds(q)' = ConsumerHolds(q) /\ ~ExtraPost(q)
          /\ (ProducerHolds(q))' = last /\ (ExtraPost(q))' = last
      BY <1>4 DEF ProducerHolds, ConsumerHolds, ExtraPost
    <3>3. One(ProducerHolds(q)) = 1 /\ One(ExtraPost(q)) = 0
      BY <3>2 DEF One
    <3>4. /\ One(ProducerHolds(q))' = IF last THEN 1 ELSE 0
          /\ One(ExtraPost(q))' = IF last THEN 1 ELSE 0
      BY <3>2 DEF One
    <3>5. One(ConsumerHolds(q))' = One(ConsumerHolds(q)) /\ One(ConsumerHolds(q)) \in Nat
      BY <3>2 DEF One
    <3>6. /\ value["nstored"][q] + ci[q] + One(ConsumerHolds(q)) = pi[q]
          /\ value["nempty"][q] + pi[q] + 1 = NBUFF + ci[q]
      BY <1>2, <1>4, <1>10, <3>1, <3>3, <3>5 DEF Tokens
    <3>7. /\ value'["nstored"][q] + ci'[q] + One(ConsumerHolds(q))' = pi'[q] + One(ExtraPost(q))'
          /\ value'["nempty"][q] + pi'[q] + One(ProducerHolds(q))' = NBUFF + ci'[q]
      <4>1. ci'[q] = ci[q]
        BY <1>4
      <4> HIDE DEF last
      <4> QED BY ONLY <1>4, <3>1, <3>4, <3>5, <3>6, <4>1, NBUFF \in Nat
    <3> QED BY <3>7 DEF Tokens
  <2>2. buff[q][Slot(pi[q])] = Content(q, pi[q])
    BY <1>2, <1>4, <1>10 DEF Filled, Stored
  <2>3. \A k \in ci[q]..(pi[q]-1) : buff[q][Slot(k)] = Content(q, k)
    BY <1>2, <1>10 DEF Filled
  <2>4. Filled(q)'
    <3>1. CASE last
      BY <1>4, <2>2, <2>3, <3>1 DEF Filled, Content
    <3>2. CASE ~last
      <4>1. ppc'[q] = "empty" /\ pi'[q] - 1 = pi[q] /\ ci'[q] = ci[q]
        BY <1>4, <3>2
      <4>2. \A k \in ci'[q]..(pi'[q]-1) : buff'[q][Slot(k)] = Content(q, k)'
        <5>1. \A k : Content(q, k)' = Content(q, k)
          BY <1>4 DEF Content
        <5> QED BY <1>4, <2>2, <2>3, <4>1, <5>1
      <4>3. ~Stored(q)'
        BY <4>1 DEF Stored, EarlyUnlock
      <4> QED BY <4>2, <4>3 DEF Filled
    <3> QED BY <3>1, <3>2
  <2> QED BY <1>1, <1>2, <1>4, <1>10, <2>1, <2>4 DEF Ring
<1> QED BY <1>5, <1>7, <1>8, <1>9, <1>10, ThreadStepInv

-----------------------------------------------------------------------------
(* The consumer moves                                                       *)

LEMMA ConsumerWaits ==
  ASSUME IInv, NEW q \in Instances, ConsumeWaitStored(q)
  PROVE  IInv'
<1> USE DEF ConsumeWaitStored, ConsumerStep, mainVars
<1>1. main[q] = "join" /\ "nstored" \in Sems
  BY DEF Sems
<1>2. /\ sem[q]["nstored"] \in Instances
      /\ Alone(q) => sem[q]["nstored"] = q /\ Tokens(q) /\ Filled(q) /\ ~wrong[q]
  BY <1>1, Semaphores
<1>3. /\ value' \in [Sems -> [Instances -> Nat]]
      /\ value["nstored"][sem[q]["nstored"]] > 0
      /\ value'["nstored"][sem[q]["nstored"]] = value["nstored"][sem[q]["nstored"]] - 1
      /\ \A t \in Sems, p \in Instances :
           ~(t = "nstored" /\ p = sem[q]["nstored"]) => value'[t][p] = value[t][p]
  BY <1>1, <1>2, WaitTakes
<1>4. /\ Types /\ cpc[q] = "stored" /\ cpc'[q] = "lock" /\ ci[q] \in 0..nitems /\ ~LoopEnds(q, ci[q])
      /\ ci' = ci /\ prog' = prog /\ wrong' = wrong /\ main' = main
  BY DEF IInv, Types
<1>5. ThreadStep(q)
  BY <1>1, <1>3 DEF ThreadStep
<1>6. Types'
  BY <1>3, <1>4 DEF Types, ConsumerPlaces
<1>7. OneToken'
  <2>1. \A p \in Instances : value'["mutex"][p] = value["mutex"][p]
    BY <1>3 DEF Sems
  <2>2. ProducerInside(q)' = ProducerInside(q) /\ ConsumerInside(q)' = ConsumerInside(q)
    BY <1>4 DEF ProducerInside, ConsumerInside, EarlyUnlock
  <2> QED BY <1>5, <2>1, <2>2, TokenStays
<1>8. Loops(q)'
  BY <1>4 DEF IInv, Loops, LoopEnds
<1>9. ASSUME Alone(q) PROVE Ring(q)'
  <2>1. Tokens(q)'
    <3>1. /\ value["nstored"][q] \in Nat /\ value'["nstored"][q] = value["nstored"][q] - 1
          /\ value'["nempty"][q] = value["nempty"][q]
      BY <1>2, <1>3, <1>4, <1>9 DEF Types, Sems
    <3>2. /\ ~ConsumerHolds(q) /\ ConsumerHolds(q)' /\ ProducerHolds(q)' = ProducerHolds(q)
          /\ ExtraPost(q)' = ExtraPost(q)
      BY <1>4 DEF ProducerHolds, ConsumerHolds, ExtraPost
    <3>3. One(ConsumerHolds(q)) = 0 /\ One(ConsumerHolds(q))' = 1
      BY <3>2 DEF One
    <3>4. One(ProducerHolds(q))' = One(ProducerHolds(q)) /\ One(ExtraPost(q))' = One(ExtraPost(q))
      BY <3>2 DEF One
    <3> QED BY <1>2, <1>4, <1>9, <3>1, <3>3, <3>4 DEF Tokens, Types
  <2>2. Filled(q)'
    BY <1>2, <1>4, <1>9 DEF Filled, Stored, EarlyUnlock, Content
  <2> QED BY <1>1, <1>2, <1>4, <1>9, <2>1, <2>2 DEF Ring
<1> QED BY <1>5, <1>6, <1>7, <1>8, <1>9, ThreadStepInv

LEMMA ConsumerReturns ==
  ASSUME IInv, NEW q \in Instances, ConsumeReturns(q)
  PROVE  IInv'
<1> USE DEF ConsumeReturns, ConsumerStep, mainVars
<1>1. main[q] = "join"
  OBVIOUS
<1>2. Alone(q) => Tokens(q) /\ Filled(q) /\ ~wrong[q]
  BY <1>1, Semaphores
<1>3. Types /\ cpc[q] = "stored" /\ cpc'[q] = "done" /\ prog[q] # "mycat2"
  BY DEF IInv, Types, LoopEnds
<1>4. ThreadStep(q)
  BY <1>1 DEF ThreadStep
<1>5. Types'
  BY <1>3 DEF Types, ConsumerPlaces
<1>6. OneToken'
  <2>1. ProducerInside(q)' = ProducerInside(q) /\ ConsumerInside(q)' = ConsumerInside(q)
    BY <1>3 DEF ProducerInside, ConsumerInside, EarlyUnlock
  <2> QED BY <1>4, <2>1, TokenStays
<1>7. Loops(q)'
  BY <1>3 DEF IInv, Loops
<1>8. ASSUME Alone(q) PROVE Ring(q)'
  <2>1. Tokens(q)'
    BY <1>2, <1>3, <1>8 DEF Tokens, One, ProducerHolds, ConsumerHolds, ExtraPost
  <2>2. Filled(q)'
    BY <1>2, <1>3, <1>8 DEF Filled, Stored, EarlyUnlock, Content
  <2> QED BY <1>1, <1>2, <1>8, <2>1, <2>2 DEF Ring
<1> QED BY <1>4, <1>5, <1>6, <1>7, <1>8, ThreadStepInv

LEMMA ConsumerLocks ==
  ASSUME IInv, NEW q \in Instances, ConsumeLock(q)
  PROVE  IInv'
<1> USE DEF ConsumeLock, ConsumerStep, mainVars
<1>1. main[q] = "join" /\ "mutex" \in Sems
  BY DEF Sems
<1>2. /\ sem[q]["mutex"] \in Instances
      /\ Alone(q) => Tokens(q) /\ Filled(q) /\ ~wrong[q]
  BY <1>1, Semaphores
<1>3. /\ value' \in [Sems -> [Instances -> Nat]]
      /\ \A t \in Sems, p \in Instances :
           ~(t = "mutex" /\ p = sem[q]["mutex"]) => value'[t][p] = value[t][p]
  BY <1>1, <1>2, WaitTakes
<1>4. /\ Types /\ cpc[q] = "lock"
      /\ cpc'[q] = IF EarlyUnlock(q) THEN "unlock" ELSE "check"
  BY DEF IInv, Types
<1>5. ThreadStep(q)
  BY <1>1, <1>3 DEF ThreadStep
<1>6. Types'
  BY <1>3, <1>4 DEF Types, ConsumerPlaces
<1>7. OneToken'
  <2>1. ConsumerInside(q)' /\ ProducerInside(q)' = ProducerInside(q)
    BY <1>4 DEF ProducerInside, ConsumerInside, EarlyUnlock
  <2> QED BY <1>5, <2>1, TokenTaken
<1>8. Loops(q)'
  BY <1>4 DEF IInv, Loops, EarlyUnlock
<1>9. ASSUME Alone(q) PROVE Ring(q)'
  <2>1. Tokens(q)'
    BY <1>2, <1>3, <1>4, <1>9
    DEF Tokens, One, ProducerHolds, ConsumerHolds, ExtraPost, Sems
  <2>2. Filled(q)'
    BY <1>2, <1>4, <1>9 DEF Filled, Stored, EarlyUnlock, Content
  <2> QED BY <1>1, <1>2, <1>9, <2>1, <2>2 DEF Ring
<1> QED BY <1>5, <1>6, <1>7, <1>8, <1>9, ThreadStepInv

LEMMA ConsumerUnlocks ==
  ASSUME IInv, NEW q \in Instances, ConsumeUnlock(q)
  PROVE  IInv'
<1> USE DEF ConsumeUnlock, ConsumerStep, mainVars
<1>1. main[q] = "join" /\ "mutex" \in Sems
  BY DEF Sems
<1>2. /\ sem[q]["mutex"] \in Instances
      /\ Alone(q) => Tokens(q) /\ Filled(q) /\ ~wrong[q]
  BY <1>1, Semaphores
<1>3. /\ value' \in [Sems -> [Instances -> Nat]]
      /\ \A t \in Sems, p \in Instances :
           ~(t = "mutex" /\ p = sem[q]["mutex"]) => value'[t][p] = value[t][p]
  BY <1>1, <1>2, PostGives
<1>4. /\ Types /\ cpc[q] = "unlock"
      /\ cpc'[q] = IF EarlyUnlock(q) THEN "check" ELSE "post"
  BY DEF IInv, Types
<1>5. ThreadStep(q)
  BY <1>1, <1>3 DEF ThreadStep
<1>6. Types'
  BY <1>3, <1>4 DEF Types, ConsumerPlaces
<1>7. OneToken'
  <2>1. /\ ConsumerInside(q) /\ ~ConsumerInside(q)'
        /\ ProducerInside(q)' = ProducerInside(q)
    BY <1>4 DEF ProducerInside, ConsumerInside, EarlyUnlock
  <2> QED BY <1>5, <2>1, TokenGiven
<1>8. Loops(q)'
  BY <1>4 DEF IInv, Loops, EarlyUnlock
<1>9. ASSUME Alone(q) PROVE Ring(q)'
  <2>1. Tokens(q)'
    BY <1>2, <1>3, <1>4, <1>9
    DEF Tokens, One, ProducerHolds, ConsumerHolds, ExtraPost, Sems
  <2>2. Filled(q)'
    BY <1>2, <1>4, <1>9 DEF Filled, Stored, EarlyUnlock, Content
  <2> QED BY <1>1, <1>2, <1>9, <2>1, <2>2 DEF Ring
<1> QED BY <1>5, <1>6, <1>7, <1>8, <1>9, ThreadStepInv

\* The consumer holds a token of nstored: its item has been put.
LEMMA ItemIsThere ==
  ASSUME IInv, NEW q \in Instances, main[q] = "join", Alone(q), cpc[q] = "check"
  PROVE  buff[q][Slot(ci[q])] = Content(q, ci[q])
<1>1. Tokens(q) /\ Filled(q)
  BY Semaphores
<1>2. value["nstored"][q] \in Nat /\ ci[q] \in Nat /\ pi[q] \in Nat
  <2>1. ci[q] \in 0..nitems /\ pi[q] \in 0..nitems /\ value["nstored"][q] \in Nat
    BY DEF IInv, Types, Sems
  <2> QED BY <2>1
<1>3. One(ConsumerHolds(q)) = 1
  BY DEF One, ConsumerHolds
<1>4. value["nstored"][q] + ci[q] + 1 = pi[q] + One(ExtraPost(q))
  BY <1>1, <1>3 DEF Tokens
<1>5. CASE ExtraPost(q)
  <2>1. One(ExtraPost(q)) = 1
    BY <1>5 DEF One
  <2>2. ci[q] \in ci[q]..(pi[q]-1) \/ ci[q] = pi[q]
    BY ONLY <1>2, <1>4, <2>1
  <2>3. Stored(q)
    BY <1>5 DEF ExtraPost, Stored, EarlyUnlock
  <2> QED BY <1>1, <2>2, <2>3 DEF Filled
<1>6. CASE ~ExtraPost(q)
  <2>1. One(ExtraPost(q)) = 0
    BY <1>6 DEF One
  <2>2. ci[q] \in ci[q]..(pi[q]-1)
    BY ONLY <1>2, <1>4, <2>1
  <2> QED BY <1>1, <2>2 DEF Filled
<1> QED BY <1>5, <1>6

LEMMA ConsumerChecks ==
  ASSUME IInv, NEW q \in Instances, ConsumeCheck(q)
  PROVE  IInv'
<1> DEFINE eof == prog[q] = "mycat2" /\ buff[q][Slot(ci[q])] = 0
<1> USE DEF ConsumeCheck, ConsumerStep, mainVars
<1>1. main[q] = "join"
  OBVIOUS
<1>2. /\ Alone(q) => Tokens(q) /\ Filled(q) /\ ~wrong[q]
      /\ prog[q] # "prodcons1" => Alone(q)
  BY <1>1, Semaphores
<1>3. /\ Types /\ cpc[q] = "check" /\ ci[q] \in 0..nitems
      /\ cpc'[q] = IF eof THEN "done" ELSE IF EarlyUnlock(q) THEN "post" ELSE "unlock"
      /\ wrong'[q] = (wrong[q] \/ buff[q][Slot(ci[q])] # Content(q, ci[q]))
      /\ prog' = prog /\ value' = value /\ ci' = ci /\ main' = main
  BY DEF IInv, Types
<1>4. Alone(q) => buff[q][Slot(ci[q])] = Content(q, ci[q])
  BY <1>1, <1>3, ItemIsThere
<1>5. ThreadStep(q)
  BY <1>1 DEF ThreadStep
<1>6. Types'
  <2>1. wrong' \in [Instances -> BOOLEAN]
    BY <1>3 DEF Types
  <2> QED BY <1>3, <2>1 DEF Types, ConsumerPlaces
<1>7. OneToken'
  <2>1. ProducerInside(q)' = ProducerInside(q)
    BY DEF ProducerInside, EarlyUnlock
  <2>2. ConsumerInside(q)' = ConsumerInside(q)
    BY <1>3 DEF ConsumerInside, EarlyUnlock
  <2> QED BY <1>5, <2>1, <2>2, TokenStays
<1>8. Loops(q)'
  <2>1. CASE prog[q] = "mycat2"
    <3>1. Alone(q) /\ buff[q][Slot(ci[q])] = Content(q, ci[q])
      BY <1>2, <1>4, <2>1
    <3>2. ~eof => ci[q] < nitems
      BY <1>3, <2>1, <3>1 DEF Content
    <3> QED BY <1>3, <2>1, <3>2 DEF IInv, Loops, EarlyUnlock
  <2>2. CASE prog[q] # "mycat2"
    BY <1>3, <2>2 DEF IInv, Loops
  <2> QED BY <2>1, <2>2
<1>9. ASSUME Alone(q) PROVE Ring(q)'
  <2>1. ConsumerHolds(q)' /\ ConsumerHolds(q)
    BY <1>3 DEF ConsumerHolds, EarlyUnlock
  <2>2. /\ One(ConsumerHolds(q))' = One(ConsumerHolds(q))
        /\ One(ProducerHolds(q))' = One(ProducerHolds(q))
        /\ One(ExtraPost(q))' = One(ExtraPost(q))
    BY <1>3, <2>1 DEF One, ProducerHolds, ExtraPost
  <2>3. Tokens(q)'
    BY <1>2, <1>3, <1>9, <2>2 DEF Tokens
  <2>4. Filled(q)'
    BY <1>2, <1>3, <1>9 DEF Filled, Stored, EarlyUnlock, Content
  <2>5. ~wrong'[q]
    BY <1>2, <1>3, <1>4, <1>9
  <2> QED BY <1>1, <1>3, <2>3, <2>4, <2>5 DEF Ring
<1> QED BY <1>5, <1>6, <1>7, <1>8, <1>9, ThreadStepInv

LEMMA ConsumerPosts ==
  ASSUME IInv, NEW q \in Instances, ConsumePost(q)
  PROVE  IInv'
<1> USE DEF ConsumePost, ConsumerStep, mainVars
<1>1. main[q] = "join" /\ "nempty" \in Sems
  BY DEF Sems
<1>2. /\ sem[q]["nempty"] \in Instances
      /\ Alone(q) => sem[q]["nempty"] = q /\ Tokens(q) /\ Filled(q) /\ ~wrong[q]
  BY <1>1, Semaphores
<1>3. /\ value' \in [Sems -> [Instances -> Nat]]
      /\ value'["nempty"][sem[q]["nempty"]] = value["nempty"][sem[q]["nempty"]] + 1
      /\ \A t \in Sems, p \in Instances :
           ~(t = "nempty" /\ p = sem[q]["nempty"]) => value'[t][p] = value[t][p]
  BY <1>1, <1>2, PostGives
<1>4. /\ Types /\ cpc[q] = "post" /\ cpc'[q] = "stored" /\ pi[q] \in 0..nitems
      /\ ci[q] \in 0..nitems /\ ci'[q] = ci[q] + 1
      /\ pi' = pi /\ ppc' = ppc /\ buff' = buff /\ prog' = prog /\ wrong' = wrong /\ main' = main
  BY DEF IInv, Types
<1>5. ci[q] < nitems
  BY <1>4 DEF IInv, Loops
<1>6. ThreadStep(q)
  BY <1>1, <1>3 DEF ThreadStep
<1>7. Types'
  <2>1. ci' \in [Instances -> 0..nitems]
    BY <1>4, <1>5 DEF Types
  <2> QED BY <1>3, <1>4, <2>1 DEF Types, ConsumerPlaces
<1>8. OneToken'
  <2>1. \A p \in Instances : value'["mutex"][p] = value["mutex"][p]
    BY <1>3 DEF Sems
  <2>2. ProducerInside(q)' = ProducerInside(q) /\ ConsumerInside(q)' = ConsumerInside(q)
    BY <1>4 DEF ProducerInside, ConsumerInside, EarlyUnlock
  <2> QED BY <1>6, <2>1, <2>2, TokenStays
<1>9. Loops(q)'
  BY <1>4 DEF IInv, Loops
<1>10. ASSUME Alone(q) PROVE Ring(q)'
  <2>1. Tokens(q)'
    <3>1. /\ value["nempty"][q] \in Nat /\ value'["nempty"][q] = value["nempty"][q] + 1
          /\ value["nstored"][q] \in Nat /\ value'["nstored"][q] = value["nstored"][q]
      BY <1>2, <1>3, <1>4, <1>10 DEF Types, Sems
    <3>2. /\ ConsumerHolds(q) /\ ~ConsumerHolds(q)' /\ ProducerHolds(q)' = ProducerHolds(q)
          /\ ExtraPost(q)' = ExtraPost(q)
      BY <1>4 DEF ProducerHolds, ConsumerHolds, ExtraPost
    <3>3. One(ConsumerHolds(q)) = 1 /\ One(ConsumerHolds(q))' = 0
      BY <3>2 DEF One
    <3>4. /\ One(ProducerHolds(q))' = One(ProducerHolds(q)) /\ One(ExtraPost(q))' = One(ExtraPost(q))
          /\ One(ProducerHolds(q)) \in Nat /\ One(ExtraPost(q)) \in Nat
      BY <3>2 DEF One
    <3>5. /\ value["nstored"][q] + ci[q] + 1 = pi[q] + One(ExtraPost(q))
          /\ value["nempty"][q] + pi[q] + One(ProducerHolds(q)) = NBUFF + ci[q]
      BY <1>2, <1>10, <3>3 DEF Tokens
    <3>6. /\ value'["nstored"][q] + ci'[q] + One(ConsumerHolds(q))' = pi'[q] + One(ExtraPost(q))'
          /\ value'["nempty"][q] + pi'[q] + One(ProducerHolds(q))' = NBUFF + ci'[q]
      <4>1. pi'[q] = pi[q]
        BY <1>4
      <4> QED BY ONLY <1>4, <3>1, <3>3, <3>4, <3>5, <4>1, NBUFF \in Nat
    <3> QED BY <3>6 DEF Tokens
  <2>2. Filled(q)'
    <3>1. \A k \in ci[q]..(pi[q]-1) : buff[q][Slot(k)] = Content(q, k)
      BY <1>2, <1>10 DEF Filled
    <3>2. \A k \in ci'[q]..(pi'[q]-1) : k \in ci[q]..(pi[q]-1)
      BY <1>4
    <3>3. \A k : Content(q, k)' = Content(q, k)
      BY <1>4 DEF Content
    <3>4. Stored(q)' = Stored(q) /\ (Stored(q) => buff[q][Slot(pi[q])] = Content(q, pi[q]))
      BY <1>2, <1>4, <1>10 DEF Filled, Stored, EarlyUnlock
    <3> QED BY <1>4, <3>1, <3>2, <3>3, <3>4 DEF Filled
  <2> QED BY <1>1, <1>2, <1>4, <1>10, <2>1, <2>2 DEF Ring
<1> QED BY <1>6, <1>7, <1>8, <1>9, <1>10, ThreadStepInv

-----------------------------------------------------------------------------
(* main moves                                                               *)

\* What a step of the main of q leaves alone: the other instances, and the
\* semaphores that q has open already.
MainStep(q) ==
  /\ prog' = prog
  /\ \A p \in Instances \ {q} :
       /\ main'[p] = main[p] /\ next'[p] = next[p] /\ sem'[p] = sem[p]
       /\ buff'[p] = buff[p] /\ wrong'[p] = wrong[p]
       /\ ppc'[p] = ppc[p] /\ pi'[p] = pi[p]
       /\ cpc'[p] = cpc[p] /\ ci'[p] = ci[p]
       /\ \A s \in Sems : value'[s][p] = value[s][p]
  /\ \A s \in Sems : sem[q][s] # None => sem'[q][s] = sem[q][s]

\* A step of a main that keeps the types of the names, the semaphores and the
\* places of the mains, and leaves the threads alone.
LEMMA MainKeepsTypes ==
  ASSUME Types,
         prog' = prog, buff' = buff, ppc' = ppc, pi' = pi, cpc' = cpc, ci' = ci, wrong' = wrong,
         names' \in [Sems -> Instances \cup {None}],
         value' \in [Sems -> [Instances -> Nat]],
         main' \in [Instances -> {"new", "open", "join", "unlink", "exit", "crashed"}],
         next' \in [Instances -> 1..3],
         sem' \in [Instances -> [Sems -> Instances \cup {None}]]
  PROVE  Types'
BY DEF Types

LEMMA MainStepKeeps ==
  ASSUME IInv, NEW q \in Instances, MainStep(q)
  PROVE  /\ \A p \in Instances \ {q} : Opened(p)' /\ Loops(p)' /\ (Alone(p)' => Ring(p)')
         /\ Alone(q)' => ~wrong[q]
<1> USE DEF MainStep
<1>1. \A p \in Instances, s \in Sems : sem[p][s] # None => sem'[p][s] = sem[p][s]
  OBVIOUS
<1>2. \A p \in Instances : Alone(p)' => Alone(p)
  <2> SUFFICES ASSUME NEW p \in Instances, Alone(p)' PROVE Alone(p)
    OBVIOUS
  <2>1. p # None
    OBVIOUS
  <2>2. \A s \in Sems : sem[p][s] \in {p, None}
    BY <1>1 DEF Alone
  <2>3. \A r \in Instances \ {p}, s \in Sems : sem[r][s] # p
    BY <1>1, <2>1 DEF Alone
  <2> QED BY <2>2, <2>3 DEF Alone
<1>3. ASSUME NEW p \in Instances \ {q} PROVE Opened(p)'
  <2>1. Opened(p)
    BY DEF IInv
  <2> QED BY <2>1 DEF Opened
<1>4. ASSUME NEW p \in Instances \ {q} PROVE Loops(p)'
  <2>1. Loops(p)
    BY DEF IInv
  <2> QED BY <2>1 DEF Loops
<1>5. ASSUME NEW p \in Instances \ {q}, Alone(p)' PROVE Ring(p)'
  <2>1. Ring(p)
    BY <1>2, <1>5 DEF IInv
  <2>2. \A s \in Sems : value'[s][p] = value[s][p]
    OBVIOUS
  <2>3. Tokens(p) => Tokens(p)'
    BY <2>2 DEF Tokens, ConsumerHolds, ProducerHolds, ExtraPost, Sems
  <2>4. Filled(p) => Filled(p)'
    BY DEF Filled, Stored, EarlyUnlock, Content
  <2> QED BY <2>1, <2>2, <2>3, <2>4, Order DEF Ring, InitialValue
<1>6. Alone(q)' => ~wrong[q]
  BY <1>2 DEF IInv, Ring
<1> QED BY <1>3, <1>4, <1>5, <1>6

\* A mutex is only set while nobody refers to it, and main's steps leave no
\* thread of q inside.
LEMMA MainStepToken ==
  ASSUME IInv, NEW q \in Instances, MainStep(q), ~Inside(q)',
         \/ value'["mutex"][q] = value["mutex"][q]
         \/ value'["mutex"][q] = 1 /\ sem[q]["mutex"] = None
  PROVE  OneToken'
<1> USE DEF MainStep
<1>1. OneToken /\ Referred /\ "mutex" \in Sems /\ q # None
  BY DEF IInv, Sems
<1>2. \A p \in Instances : value'["mutex"][p] \in {0, 1}
  BY <1>1 DEF OneToken
<1>3. \A p \in Instances \ {q} : /\ ProducerInside(p)' = ProducerInside(p)
                                /\ ConsumerInside(p)' = ConsumerInside(p)
  BY DEF ProducerInside, ConsumerInside, EarlyUnlock
<1>4. \A p \in Instances \ {q} : Inside(p)' = Inside(p)
  BY <1>3 DEF Inside
<1>5. ASSUME NEW p \in Instances, Inside(p)'
      PROVE  /\ value'["mutex"][sem'[p]["mutex"]] = 0
             /\ ~(ProducerInside(p)' /\ ConsumerInside(p)')
             /\ \A r \in Instances \ {p} : Inside(r)' => sem'[p]["mutex"] # sem'[r]["mutex"]
  <2>1. p # q /\ Inside(p)
    BY <1>4, <1>5
  <2>2. sem[p]["mutex"] \in Instances
    BY <2>1, InsideRuns
  <2>3. /\ value["mutex"][sem[p]["mutex"]] = 0 /\ ~(ProducerInside(p) /\ ConsumerInside(p))
        /\ \A r \in Instances \ {p} : Inside(r) => sem[p]["mutex"] # sem[r]["mutex"]
    BY <1>1, <2>1 DEF OneToken
  <2>4. sem[q]["mutex"] = None => sem[p]["mutex"] # q
    BY <1>1, <2>2 DEF Referred, Own
  <2>5. value'["mutex"][sem[p]["mutex"]] = 0
    BY <1>1, <2>2, <2>3, <2>4
  <2>6. \A r \in Instances \ {p} : Inside(r)' => r # q /\ Inside(r)
    BY <1>4
  <2> QED BY <1>3, <2>1, <2>3, <2>5, <2>6
<1> QED BY <1>2, <1>5 DEF OneToken

LEMMA MainStepInv ==
  ASSUME IInv, NEW q \in Instances, MainStep(q),
         Types', Opened(q)', Referred', ToUnlink', Loops(q)', ~Inside(q)',
         \/ value'["mutex"][q] = value["mutex"][q]
         \/ value'["mutex"][q] = 1 /\ sem[q]["mutex"] = None,
         Alone(q)' /\ ~wrong[q] => Ring(q)'
  PROVE  IInv'
<1>1. /\ \A p \in Instances \ {q} : Opened(p)' /\ Loops(p)' /\ (Alone(p)' => Ring(p)')
      /\ Alone(q)' => ~wrong[q]
  BY MainStepKeeps
<1>2. OneToken'
  BY MainStepToken
<1>3. \A p \in Instances : Opened(p)'
  BY <1>1
<1>4. \A p \in Instances : Loops(p)'
  BY <1>1
<1>5. \A p \in Instances : Alone(p)' => Ring(p)'
  BY <1>1
<1> QED BY <1>2, <1>3, <1>4, <1>5 DEF IInv

\* A run whose three semaphores have their initial values can start.
LEMMA FreshRing ==
  ASSUME NEW q \in Instances,
         value'["nempty"][q] = NBUFF, value'["nstored"][q] = 0,
         ppc'[q] = "empty", cpc'[q] = "stored", pi'[q] = 0, ci'[q] = 0
  PROVE  Tokens(q)' /\ Filled(q)'
<1>1. One(ProducerHolds(q))' = 0 /\ One(ConsumerHolds(q))' = 0 /\ One(ExtraPost(q))' = 0
  BY DEF One, ProducerHolds, ConsumerHolds, ExtraPost
<1>2. Tokens(q)'
  BY <1>1 DEF Tokens
<1>3. ci'[q]..(pi'[q]-1) = {} /\ ~Stored(q)'
  BY DEF Stored, EarlyUnlock
<1> QED BY <1>2, <1>3 DEF Filled

LEMMA Starts ==
  ASSUME IInv, NEW q \in Instances, Start(q)
  PROVE  IInv'
<1> USE DEF threadVars
<1>1. /\ Types /\ main[q] = "new" /\ Opened(q) /\ next[q] = 1 /\ \A s \in Sems : sem[q][s] = None
      /\ ppc[q] = "empty" /\ cpc[q] = "stored" /\ pi[q] = 0 /\ ci[q] = 0
  BY DEF IInv, Opened, Start
<1>2. /\ prog' = prog /\ names' = names /\ next' = next /\ buff' = buff /\ ppc' = ppc
      /\ pi' = pi /\ cpc' = cpc /\ ci' = ci /\ wrong' = wrong
  BY DEF Start
<1>3. ~Inside(q)' /\ Loops(q)'
  BY <1>1, <1>2 DEF Inside, ProducerInside, ConsumerInside, Loops
<1>4. CASE prog[q] = "prodcons1"
  <2>1. main' = [main EXCEPT ![q] = "open"] /\ value' = value /\ sem' = sem
    BY <1>4 DEF Start
  <2>2. MainStep(q)
    BY <1>1, <1>2, <2>1 DEF MainStep, Types
  <2>3. Types'
    <3>1. /\ names' \in [Sems -> Instances \cup {None}] /\ value' \in [Sems -> [Instances -> Nat]]
          /\ sem' \in [Instances -> [Sems -> Instances \cup {None}]] /\ next' \in [Instances -> 1..3]
      BY <1>1, <1>2, <2>1 DEF Types
    <3>2. main' \in [Instances -> {"new", "open", "join", "unlink", "exit", "crashed"}]
      BY <1>1, <2>1 DEF Types
    <3> QED BY ONLY <1>1, <1>2, <3>1, <3>2, MainKeepsTypes
  <2>4. Opened(q)'
    <3>1. main'[q] = "open" /\ next'[q] = 1 /\ prog'[q] = "prodcons1"
      BY <1>1, <1>2, <1>4, <2>1 DEF Types
    <3>2. \A k \in 1..3 : sem'[q][OpenOrder[k]] = None /\ ~(k < 1)
      BY <1>1, <2>1, Order
    <3> QED BY <1>1, <1>2, <3>1, <3>2 DEF Opened
  <2>5. Referred'
    BY <1>2, <2>1 DEF IInv, Referred, Own
  <2>6. ToUnlink'
    <3>1. /\ main'[q] = "open" /\ \A p \in Instances \ {q} : main'[p] = main[p]
          /\ \A k \in 1..3 : names[OpenOrder[k]] # None => names[OpenOrder[k]] \in Instances
      <4>1. /\ main \in [Instances -> {"new", "open", "join", "unlink", "exit", "crashed"}]
            /\ names \in [Sems -> Instances \cup {None}]
        BY ONLY <1>1 DEF Types
      <4> QED BY ONLY <2>1, <4>1, Order, q \in Instances
    <3>2. ToUnlink
      BY DEF IInv
    <3> QED BY ONLY <1>2, <3>1, <3>2 DEF ToUnlink
  <2>7. Alone(q)' /\ ~wrong[q] => Ring(q)'
    BY <1>1, <1>2, <2>1 DEF Ring, Types
  <2> QED BY <1>3, <2>1, <2>2, <2>3, <2>4, <2>5, <2>6, <2>7, MainStepInv
<1>5. CASE prog[q] # "prodcons1"
  <2>1. /\ main' = [main EXCEPT ![q] = "join"]
        /\ sem' = [sem EXCEPT ![q] = [s \in Sems |-> q]]
        /\ value' = [s \in Sems |-> [value[s] EXCEPT ![q] = InitialValue(s)]]
    BY <1>5 DEF Start
  <2>2. \A s \in Sems : InitialValue(s) \in Nat
    BY DEF InitialValue, Sems
  <2>3. /\ \A s \in Sems : sem'[q][s] = q /\ value'[s][q] = InitialValue(s)
        /\ \A p \in Instances \ {q} : main'[p] = main[p] /\ sem'[p] = sem[p]
        /\ \A p \in Instances \ {q}, s \in Sems : value'[s][p] = value[s][p]
        /\ main'[q] = "join"
    BY <1>1, <2>1 DEF Types
  <2>4. MainStep(q)
    BY <1>1, <1>2, <2>3 DEF MainStep
  <2>5. Types'
    <3>1. value' \in [Sems -> [Instances -> Nat]]
      BY <1>1, <2>1, <2>2 DEF Types
    <3>2. sem' \in [Instances -> [Sems -> Instances \cup {None}]]
      BY <1>1, <2>1 DEF Types
    <3> QED BY <1>1, <1>2, <2>1, <3>1, <3>2 DEF Types
  <2>6. Opened(q)'
    BY <1>1, <1>2, <2>3 DEF Opened
  <2>7. Referred'
    <3>1. \A s \in Sems : names[s] # q
      BY <1>5 DEF IInv, Referred
    <3>2. \A p \in Instances, s \in Sems : sem[p][s] # q
      BY <1>1 DEF IInv, Referred, Own
    <3>3. ASSUME NEW s \in Sems, names'[s] # None
          PROVE  Own(names[s], s)' /\ prog[names[s]] = "prodcons1"
      <4>1. names'[s] = names[s] /\ names[s] \in Instances \ {q}
        BY <1>1, <1>2, <3>1, <3>3 DEF Types
      <4>2. sem[names[s]][s] = names[s] /\ prog[names[s]] = "prodcons1"
        BY <3>3, <4>1 DEF IInv, Referred, Own
      <4>3. sem'[names[s]] = sem[names[s]]
        BY <2>3, <4>1
      <4> QED BY <4>1, <4>2, <4>3 DEF Own
    <3>4. ASSUME NEW p \in Instances, NEW s \in Sems, sem'[p][s] # None
          PROVE  /\ Own(sem[p][s], s)'
                 /\ sem'[p][s] # p => prog[sem'[p][s]] = "prodcons1" /\ prog[p] = "prodcons1"
      <4>1. CASE p = q
        <5>1. sem'[q][s] = q
          BY <2>3
        <5> QED BY <4>1, <5>1 DEF Own
      <4>2. CASE p # q
        <5>1. sem'[p][s] = sem[p][s] /\ sem[p][s] \in Instances \ {q}
          BY <1>1, <2>3, <3>2, <3>4, <4>2 DEF Types
        <5>2. Own(sem[p][s], s)
          BY <3>4, <5>1 DEF IInv, Referred
        <5>3. sem[p][s] # p => prog[sem[p][s]] = "prodcons1" /\ prog[p] = "prodcons1"
          BY <3>4, <5>1 DEF IInv, Referred
        <5>4. sem'[sem[p][s]][s] = sem[p][s]
          BY <2>3, <5>1, <5>2 DEF Own
        <5> QED BY <5>1, <5>3, <5>4 DEF Own
      <4> QED BY <4>1, <4>2
    <3> QED BY <1>2, <3>3, <3>4 DEF Referred
  <2>8. ToUnlink'
    <3>1. \A s \in Sems : names[s] # q
      BY <1>5 DEF IInv, Referred
    <3>2. ASSUME NEW k \in 1..3, names[OpenOrder[k]] # None
          PROVE  LET maker == names[OpenOrder[k]]
                 IN \/ main'[maker] \in {"open", "join", "crashed"}
                    \/ main'[maker] = "unlink" /\ next[maker] <= k
      <4>1. names[OpenOrder[k]] \in Instances \ {q}
        BY <1>1, <3>1, <3>2, Order DEF Types
      <4> QED BY <2>3, <3>2, <4>1 DEF IInv, ToUnlink
    <3> QED BY <1>2, <3>2 DEF ToUnlink
  <2>9. ASSUME ~wrong[q] PROVE Ring(q)'
    <3>1. value'["nempty"][q] = NBUFF /\ value'["nstored"][q] = 0
      BY <2>3 DEF InitialValue, Sems
    <3>2. Tokens(q)' /\ Filled(q)'
      BY <1>1, <1>2, <3>1, FreshRing
    <3> QED BY <1>2, <2>3, <2>9, <3>2 DEF Ring
  <2>10. value'["mutex"][q] = 1 /\ sem[q]["mutex"] = None
    BY <1>1, <2>3 DEF InitialValue, Sems
  <2> QED BY <1>3, <2>4, <2>5, <2>6, <2>7, <2>8, <2>9, <2>10, MainStepInv
<1> QED BY <1>4, <1>5

\* sem_open makes a semaphore only if the name is free, and then nobody refers
\* to the one of q.
LEMMA Opens ==
  ASSUME IInv, NEW q \in Instances, SemOpen(q)
  PROVE  IInv'
<1> DEFINE n == OpenOrder[next[q]]
           made == names[n] = None
<1> USE DEF threadVars
<1>1. /\ Types /\ main[q] = "open" /\ Opened(q) /\ next[q] \in 1..3 /\ n \in Sems
      /\ ppc[q] = "empty" /\ cpc[q] = "stored" /\ pi[q] = 0 /\ ci[q] = 0
  <2>1. Types /\ main[q] = "open" /\ Opened(q)
    BY DEF IInv, SemOpen
  <2>2. next[q] \in 1..3
    BY <2>1 DEF Types
  <2> QED BY <2>1, <2>2, Order DEF Opened
<1>2. /\ prog' = prog /\ buff' = buff /\ ppc' = ppc
      /\ pi' = pi /\ cpc' = cpc /\ ci' = ci /\ wrong' = wrong
  BY DEF SemOpen
<1>3. \A k \in 1..3 : sem[q][OpenOrder[k]] # None <=> k < next[q]
  BY <1>1 DEF Opened
<1>4. sem[q][n] = None
  BY <1>1, <1>3
<1>5. /\ made => /\ names' = [names EXCEPT ![n] = q]
                 /\ sem' = [sem EXCEPT ![q][n] = q]
                 /\ value' = [value EXCEPT ![n][q] = InitialValue(n)]
      /\ ~made => /\ names' = names
                  /\ sem' = [sem EXCEPT ![q][n] = names[n]]
                  /\ value' = value
  BY DEF SemOpen
<1>6. /\ next[q] < 3 => next' = [next EXCEPT ![q] = next[q] + 1] /\ main' = main
      /\ ~(next[q] < 3) => next' = [next EXCEPT ![q] = 1] /\ main' = [main EXCEPT ![q] = "join"]
  BY Order DEF SemOpen, Advance
<1>7. ~Inside(q)' /\ Loops(q)'
  BY <1>1, <1>2 DEF Inside, ProducerInside, ConsumerInside, Loops
<1> HIDE DEF n, made
<1>8. /\ sem'[q][n] = IF made THEN q ELSE names[n]
      /\ sem'[q][n] \in Instances
      /\ \A s \in Sems \ {n} : sem'[q][s] = sem[q][s]
      /\ \A p \in Instances \ {q} : sem'[p] = sem[p]
  BY <1>1, <1>5 DEF Types, made
<1>9. /\ \A p \in Instances, s \in Sems : ~(p = q /\ s = n) => value'[s][p] = value[s][p]
      /\ value'[n][q] = IF made THEN InitialValue(n) ELSE value[n][q]
  BY <1>1, <1>5 DEF Types
<1>10. /\ \A p \in Instances \ {q} : main'[p] = main[p] /\ next'[p] = next[p]
       /\ next[q] < 3 => next'[q] = next[q] + 1 /\ main'[q] = "open"
       /\ ~(next[q] < 3) => next[q] = 3 /\ next'[q] = 1 /\ main'[q] = "join"
  BY <1>1, <1>6 DEF Types
<1>11. MainStep(q)
  <2>1. \A s \in Sems : sem[q][s] # None => sem'[q][s] = sem[q][s]
    BY <1>4, <1>8
  <2> QED BY <1>2, <1>8, <1>9, <1>10, <2>1 DEF MainStep
<1>12. Types'
  <2>1. InitialValue(n) \in Nat
    BY <1>1 DEF InitialValue, Sems
  <2>2. /\ names \in [Sems -> Instances \cup {None}] /\ value \in [Sems -> [Instances -> Nat]]
        /\ sem \in [Instances -> [Sems -> Instances \cup {None}]]
        /\ next \in [Instances -> 1..3]
    BY <1>1 DEF Types
  <2>3. /\ names' \in [Sems -> Instances \cup {None}] /\ value' \in [Sems -> [Instances -> Nat]]
        /\ sem' \in [Instances -> [Sems -> Instances \cup {None}]]
    <3>1. CASE made
      <4>1. /\ names' = [names EXCEPT ![n] = q] /\ sem' = [sem EXCEPT ![q][n] = q]
            /\ value' = [value EXCEPT ![n][q] = InitialValue(n)]
        BY <1>5, <3>1
      <4>2. names' \in [Sems -> Instances \cup {None}]
        BY <1>1, <2>2, <4>1
      <4>3. sem' \in [Instances -> [Sems -> Instances \cup {None}]]
        BY <1>1, <2>2, <4>1
      <4>4. value' \in [Sems -> [Instances -> Nat]]
        BY <1>1, <2>1, <2>2, <4>1
      <4> QED BY <4>2, <4>3, <4>4
    <3>2. CASE ~made
      <4>1. names' = names /\ sem' = [sem EXCEPT ![q][n] = names[n]] /\ value' = value
        BY <1>5, <3>2
      <4>2. sem' \in [Instances -> [Sems -> Instances \cup {None}]]
        BY <1>1, <2>2, <4>1
      <4> QED BY <2>2, <4>1, <4>2
    <3> QED BY <3>1, <3>2
  <2>4. next' \in [Instances -> 1..3]
    <3>1. CASE next[q] < 3
      <4>1. next[q] + 1 \in 1..3
        BY <1>1, <3>1
      <4> QED BY <1>6, <2>2, <3>1, <4>1
    <3>2. CASE ~(next[q] < 3)
      BY <1>6, <2>2, <3>2
    <3> QED BY <3>1, <3>2
  <2>5. main' \in [Instances -> {"new", "open", "join", "unlink", "exit", "crashed"}]
    <3>1. main \in [Instances -> {"new", "open", "join", "unlink", "exit", "crashed"}]
      BY ONLY <1>1 DEF Types
    <3>2. main' = main \/ main' = [main EXCEPT ![q] = "join"]
      BY <1>6
    <3> QED BY ONLY <3>1, <3>2
  <2> QED BY ONLY <1>1, <1>2, <2>3, <2>4, <2>5, MainKeepsTypes
<1>13. \A k \in 1..3 : sem'[q][OpenOrder[k]] # None <=> k <= next[q]
  <2> SUFFICES ASSUME NEW k \in 1..3 PROVE sem'[q][OpenOrder[k]] # None <=> k <= next[q]
    OBVIOUS
  <2>1. CASE k = next[q]
    BY <1>1, <1>8, <2>1 DEF n
  <2>2. CASE k # next[q]
    <3>1. OpenOrder[k] \in Sems \ {n}
      BY <1>1, <2>2, Order DEF n
    <3>2. k < next[q] <=> k <= next[q]
      BY <1>1, <2>2
    <3> QED BY <1>3, <1>8, <3>1, <3>2
  <2> QED BY <2>1, <2>2
<1>14. Opened(q)'
  <2>1. CASE next[q] < 3
    <3>1. \A k \in 1..3 : k <= next[q] <=> k < next'[q]
      BY <1>1, <1>10, <2>1
    <3> QED BY <1>1, <1>2, <1>10, <1>13, <2>1, <3>1 DEF Opened
  <2>2. CASE ~(next[q] < 3)
    <3>1. \A s \in Sems : sem'[q][s] # None
      BY <1>10, <1>13, <2>2, Order
    <3> QED BY <1>1, <1>2, <1>10, <2>2, <3>1 DEF Opened
  <2> QED BY <2>1, <2>2
<1>15. prog[q] = "prodcons1"
  BY <1>1 DEF Opened
<1>16. \A p \in Instances, s \in Sems : sem[p][s] # None => sem'[p][s] = sem[p][s]
  BY <1>4, <1>8
<1>17. Referred /\ ToUnlink
  BY DEF IInv
<1>18. Referred'
  <2>1. ASSUME NEW s \in Sems, names'[s] # None
        PROVE  sem'[names'[s]][s] = names'[s] /\ prog[names'[s]] = "prodcons1"
    <3>1. CASE made /\ s = n
      <4>1. names'[s] = q
        BY <1>1, <1>5, <3>1 DEF Types
      <4> QED BY <1>8, <1>15, <3>1, <4>1
    <3>2. CASE ~(made /\ s = n)
      <4>1. names'[s] = names[s] /\ names[s] \in Instances
        BY <1>1, <1>5, <2>1, <3>2 DEF Types
      <4>2. sem[names[s]][s] = names[s] /\ prog[names[s]] = "prodcons1"
        BY <1>17, <2>1, <4>1 DEF Referred, Own
      <4> QED BY <1>16, <2>1, <4>1, <4>2
    <3> QED BY <3>1, <3>2
  <2>2. ASSUME NEW p \in Instances, NEW s \in Sems, sem'[p][s] # None
        PROVE  /\ sem'[sem'[p][s]][s] = sem'[p][s]
               /\ sem'[p][s] # p => prog[sem'[p][s]] = "prodcons1" /\ prog[p] = "prodcons1"
    <3>1. CASE p = q /\ s = n
      <4>1. CASE made
        BY <1>8, <3>1, <4>1
      <4>2. CASE ~made
        <5>1. sem'[q][n] = names[n] /\ names[n] # None /\ names[n] \in Instances
          BY <1>1, <1>8, <4>2 DEF made, Types
        <5>2. sem[names[n]][n] = names[n] /\ prog[names[n]] = "prodcons1"
          BY <1>1, <1>17, <5>1 DEF Referred, Own
        <5>3. sem'[names[n]][n] = names[n]
          BY <1>1, <1>16, <5>1, <5>2
        <5> QED BY <1>15, <3>1, <5>1, <5>2, <5>3
      <4> QED BY <4>1, <4>2
    <3>2. CASE ~(p = q /\ s = n)
      <4>1. sem'[p][s] = sem[p][s] /\ sem[p][s] \in Instances
        BY <1>1, <1>8, <2>2, <3>2 DEF Types
      <4>2. /\ sem[sem[p][s]][s] = sem[p][s]
            /\ sem[p][s] # p => prog[sem[p][s]] = "prodcons1" /\ prog[p] = "prodcons1"
        BY <2>2, <4>1, <1>17 DEF Referred, Own
      <4> QED BY <1>16, <2>2, <4>1, <4>2
    <3> QED BY <3>1, <3>2
  <2> QED BY <1>2, <2>1, <2>2 DEF Referred, Own
<1>19. ToUnlink'
  <2>1. ASSUME NEW k \in 1..3, names'[OpenOrder[k]] # None
        PROVE  \/ main'[names'[OpenOrder[k]]] \in {"open", "join", "crashed"}
               \/ /\ main'[names'[OpenOrder[k]]] = "unlink"
                  /\ next'[names'[OpenOrder[k]]] <= k
    <3>1. main'[q] \in {"open", "join"}
      BY <1>10
    <3>2. CASE names'[OpenOrder[k]] = q
      BY <3>1, <3>2
    <3>3. CASE names'[OpenOrder[k]] # q
      <4>1. names'[OpenOrder[k]] = names[OpenOrder[k]] /\ names[OpenOrder[k]] \in Instances
        <5>1. names \in [Sems -> Instances \cup {None}] /\ OpenOrder[k] \in Sems
          BY <1>1, Order DEF Types
        <5>2. names' = names \/ names' = [names EXCEPT ![n] = q]
          BY <1>5
        <5>3. names'[OpenOrder[k]] = names[OpenOrder[k]]
          BY <1>1, <3>3, <5>1, <5>2
        <5> QED BY <2>1, <5>1, <5>3
      <4> QED BY <1>10, <1>17, <2>1, <3>3, <4>1 DEF ToUnlink
    <3> QED BY <3>2, <3>3
  <2> QED BY <2>1 DEF ToUnlink
<1>20. \/ value'["mutex"][q] = value["mutex"][q]
       \/ value'["mutex"][q] = 1 /\ sem[q]["mutex"] = None
  <2>1. CASE n = "mutex" /\ made
    BY <1>4, <1>9, <2>1 DEF InitialValue
  <2>2. CASE ~(n = "mutex" /\ made)
    BY <1>1, <1>9, <2>2 DEF Sems
  <2> QED BY <2>1, <2>2
<1>21. ASSUME Alone(q)', ~wrong[q] PROVE Ring(q)'
  <2>1. made
    <3> SUFFICES ASSUME ~made PROVE FALSE
      OBVIOUS
    <3>1. sem'[q][n] = names[n] /\ names[n] = q
      BY <1>1, <1>8, <1>21 DEF Alone, made
    <3> QED BY <1>1, <1>4, <1>17, <3>1 DEF Referred, Own
  <2>2. Alone(q)
    <3>1. \A s \in Sems : sem[q][s] \in {q, None}
      BY <1>16, <1>21 DEF Alone
    <3>2. \A p \in Instances \ {q}, s \in Sems : sem[p][s] # q
      BY <1>8, <1>21 DEF Alone
    <3> QED BY <3>1, <3>2 DEF Alone
  <2>3. \A k \in 1..3 : k < next[q] => value[OpenOrder[k]][q] = InitialValue(OpenOrder[k])
    BY <1>1, <2>2 DEF IInv, Ring
  <2>4. \A k \in 1..3 : k <= next[q] => value'[OpenOrder[k]][q] = InitialValue(OpenOrder[k])
    <3> SUFFICES ASSUME NEW k \in 1..3, k <= next[q]
                 PROVE  value'[OpenOrder[k]][q] = InitialValue(OpenOrder[k])
      OBVIOUS
    <3>1. CASE k = next[q]
      BY <1>9, <2>1, <3>1 DEF n
    <3>2. CASE k # next[q]
      <4>1. OpenOrder[k] \in Sems \ {n} /\ k < next[q]
        BY <1>1, <3>2, Order DEF n
      <4> QED BY <1>9, <2>3, <4>1
    <3> QED BY <3>1, <3>2
  <2>5. CASE next[q] < 3
    <3>1. \A k \in 1..3 : k < next'[q] => k <= next[q]
      BY <1>1, <1>10, <2>5
    <3>2. \A k \in 1..3 : k < next'[q] => value'[OpenOrder[k]][q] = InitialValue(OpenOrder[k])
      BY <2>4, <3>1
    <3> QED BY <1>2, <1>10, <1>21, <2>5, <3>2 DEF Ring, InitialValue
  <2>6. CASE ~(next[q] < 3)
    <3>1. value'["nempty"][q] = NBUFF /\ value'["nstored"][q] = 0
      BY <1>10, <2>4, <2>6, Order DEF InitialValue
    <3>2. Tokens(q)' /\ Filled(q)'
      BY <1>1, <1>2, <3>1, FreshRing
    <3> QED BY <1>2, <1>10, <1>21, <2>6, <3>2 DEF Ring
  <2> QED BY <2>5, <2>6
<1> QED BY <1>7, <1>11, <1>12, <1>14, <1>18, <1>19, <1>20, <1>21, MainStepInv

LEMMA Joins ==
  ASSUME IInv, NEW q \in Instances, Joined(q)
  PROVE  IInv'
<1> USE DEF threadVars
<1>1. /\ Types /\ main[q] = "join" /\ Opened(q) /\ ppc[q] = "done" /\ cpc[q] = "done" /\ next[q] = 1
      /\ \A s \in Sems : sem[q][s] # None
  BY DEF IInv, Opened, Joined
<1>2. /\ prog' = prog /\ value' = value /\ names' = names /\ next' = next /\ sem' = sem
      /\ buff' = buff /\ ppc' = ppc /\ pi' = pi /\ cpc' = cpc /\ ci' = ci /\ wrong' = wrong
  BY DEF Joined
<1>3. main' = [main EXCEPT ![q] = IF prog[q] = "prodcons1" THEN "unlink" ELSE "exit"]
  BY DEF Joined
<1>4. /\ main'[q] = IF prog[q] = "prodcons1" THEN "unlink" ELSE "exit"
      /\ \A p \in Instances \ {q} : main'[p] = main[p]
  BY <1>1, <1>3 DEF Types
<1>5. MainStep(q)
  BY <1>2, <1>4 DEF MainStep
<1>6. Types'
  BY <1>1, <1>2, <1>3 DEF Types
<1>7. Opened(q)'
  BY <1>1, <1>2, <1>4 DEF Opened
<1>8. Referred'
  BY <1>2 DEF IInv, Referred, Own
<1>9. ToUnlink'
  <2>1. ASSUME NEW k \in 1..3, names[OpenOrder[k]] # None
        PROVE  \/ main'[names[OpenOrder[k]]] \in {"open", "join", "crashed"}
               \/ main'[names[OpenOrder[k]]] = "unlink" /\ next[names[OpenOrder[k]]] <= k
    <3>1. names[OpenOrder[k]] \in Instances /\ prog[names[OpenOrder[k]]] = "prodcons1"
      <4>1. OpenOrder[k] \in Sems /\ names \in [Sems -> Instances \cup {None}] /\ Referred
        BY <1>1, Order DEF Types, IInv
      <4> QED BY <2>1, <4>1 DEF Referred
    <3>2. CASE names[OpenOrder[k]] = q
      BY <1>1, <1>4, <3>1, <3>2
    <3>3. CASE names[OpenOrder[k]] # q
      BY <1>4, <2>1, <3>1, <3>3 DEF IInv, ToUnlink
    <3> QED BY <3>2, <3>3
  <2> QED BY <1>2, <2>1 DEF ToUnlink
<1>10. Loops(q)' /\ ~Inside(q)'
  <2>1. Loops(q)
    BY DEF IInv
  <2> QED BY <1>1, <1>2, <2>1 DEF Loops, Inside, ProducerInside, ConsumerInside
<1>11. ASSUME ~wrong[q] PROVE Ring(q)'
  BY <1>2, <1>4, <1>11 DEF Ring
<1> QED BY <1>2, <1>5, <1>6, <1>7, <1>8, <1>9, <1>10, <1>11, MainStepInv

\* Whoever made the name, it is gone.
LEMMA Unlinks ==
  ASSUME IInv, NEW q \in Instances, SemUnlink(q)
  PROVE  IInv'
<1> DEFINE n == OpenOrder[next[q]]
<1> USE DEF threadVars
<1>1. /\ Types /\ main[q] = "unlink" /\ Opened(q) /\ ppc[q] = "done" /\ cpc[q] = "done"
      /\ \A s \in Sems : sem[q][s] # None
  BY DEF IInv, Opened, SemUnlink
<1>2. /\ prog' = prog /\ value' = value /\ sem' = sem
      /\ buff' = buff /\ ppc' = ppc /\ pi' = pi /\ cpc' = cpc /\ ci' = ci /\ wrong' = wrong
      /\ names' = [names EXCEPT ![n] = None]
  BY DEF SemUnlink
<1>3. /\ next[q] < 3 => next' = [next EXCEPT ![q] = next[q] + 1] /\ main' = main
      /\ ~(next[q] < 3) => next' = [next EXCEPT ![q] = 1] /\ main' = [main EXCEPT ![q] = "exit"]
  BY Order DEF SemUnlink, Advance
<1> HIDE DEF n
<1>4. next \in [Instances -> 1..3] /\ next[q] \in 1..3 /\ n \in Sems
  <2>1. next \in [Instances -> 1..3] /\ next[q] \in 1..3
    BY <1>1 DEF Types
  <2> QED BY <2>1, Order DEF n
<1>5. /\ \A p \in Instances \ {q} : main'[p] = main[p] /\ next'[p] = next[p]
      /\ next[q] < 3 => next'[q] = next[q] + 1 /\ main'[q] = "unlink"
      /\ ~(next[q] < 3) => next[q] = 3 /\ next'[q] = 1 /\ main'[q] = "exit"
  BY <1>1, <1>3, <1>4 DEF Types
<1>6. MainStep(q)
  BY <1>2, <1>5 DEF MainStep
<1>7. Types'
  <2>1. names' \in [Sems -> Instances \cup {None}]
    BY <1>1, <1>2, <1>4 DEF Types
  <2>2. next' \in [Instances -> 1..3]
    <3>1. CASE next[q] < 3
      <4>1. next[q] + 1 \in 1..3
        BY <1>4, <3>1
      <4> QED BY <1>3, <1>4, <3>1, <4>1
    <3>2. CASE ~(next[q] < 3)
      BY <1>3, <1>4, <3>2
    <3> QED BY <3>1, <3>2
  <2>3. main' \in [Instances -> {"new", "open", "join", "unlink", "exit", "crashed"}]
    BY <1>1, <1>3 DEF Types
  <2>4. value' \in [Sems -> [Instances -> Nat]] /\ sem' \in [Instances -> [Sems -> Instances \cup {None}]]
    BY <1>1, <1>2 DEF Types
  <2> QED BY ONLY <1>1, <1>2, <2>1, <2>2, <2>3, <2>4, MainKeepsTypes
<1>8. Opened(q)'
  BY <1>1, <1>2, <1>5 DEF Opened
<1>9. /\ names'[n] = None
      /\ \A s \in Sems \ {n} : names'[s] = names[s]
  BY <1>1, <1>2, <1>4 DEF Types
<1>10. Referred'
  BY <1>2, <1>9 DEF IInv, Referred, Own
<1>11. ToUnlink'
  <2>1. ASSUME NEW k \in 1..3, names'[OpenOrder[k]] # None
        PROVE  \/ main'[names'[OpenOrder[k]]] \in {"open", "join", "crashed"}
               \/ /\ main'[names'[OpenOrder[k]]] = "unlink"
                  /\ next'[names'[OpenOrder[k]]] <= k
    <3>1. OpenOrder[k] # n /\ k # next[q]
      BY <1>9, <2>1 DEF n
    <3>2. names'[OpenOrder[k]] = names[OpenOrder[k]] /\ names[OpenOrder[k]] \in Instances
      <4>1. OpenOrder[k] \in Sems /\ names \in [Sems -> Instances \cup {None}]
        BY <1>1, Order DEF Types
      <4> QED BY <1>9, <2>1, <3>1, <4>1
    <3>3. \/ main[names[OpenOrder[k]]] \in {"open", "join", "crashed"}
          \/ main[names[OpenOrder[k]]] = "unlink" /\ next[names[OpenOrder[k]]] <= k
      BY <2>1, <3>2 DEF IInv, ToUnlink
    <3>4. CASE names[OpenOrder[k]] = q
      <4>1. next[q] <= k
        BY <1>1, <3>3, <3>4
      <4>2. next[q] < 3 /\ next[q] + 1 <= k
        BY <1>4, <3>1, <4>1
      <4> QED BY <1>5, <3>2, <3>4, <4>2
    <3>5. CASE names[OpenOrder[k]] # q
      BY <1>5, <3>2, <3>3, <3>5
    <3> QED BY <3>4, <3>5
  <2> QED BY <2>1 DEF ToUnlink
<1>12. Loops(q)' /\ ~Inside(q)'
  <2>1. Loops(q)
    BY DEF IInv
  <2> QED BY <1>1, <1>2, <2>1 DEF Loops, Inside, ProducerInside, ConsumerInside
<1>13. ASSUME ~wrong[q] PROVE Ring(q)'
  <2>1. main'[q] \in {"unlink", "exit"}
    BY <1>5
  <2> QED BY <1>2, <1>13, <2>1 DEF Ring
<1> QED BY <1>2, <1>6, <1>7, <1>8, <1>10, <1>11, <1>12, <1>13, MainStepInv

LEMMA Crashes ==
  ASSUME IInv, NEW q \in Instances, Crash(q)
  PROVE  IInv'
<1>1. Types /\ prog[q] = "prodcons1"
  BY DEF IInv, Crash
<1>2. /\ prog' = prog /\ value' = value /\ names' = names /\ sem' = sem /\ wrong' = wrong
      /\ main' = [main EXCEPT ![q] = "crashed"] /\ next' = [next EXCEPT ![q] = 1]
      /\ buff' = [buff EXCEPT ![q] = FreshBuff]
      /\ ppc' = [ppc EXCEPT ![q] = "empty"] /\ pi' = [pi EXCEPT ![q] = 0]
      /\ cpc' = [cpc EXCEPT ![q] = "stored"] /\ ci' = [ci EXCEPT ![q] = 0]
  BY DEF Crash
<1>3. /\ main'[q] = "crashed" /\ ppc'[q] = "empty" /\ cpc'[q] = "stored"
      /\ pi'[q] = 0 /\ ci'[q] = 0
      /\ \A p \in Instances \ {q} :
           /\ main'[p] = main[p] /\ next'[p] = next[p] /\ buff'[p] = buff[p]
           /\ ppc'[p] = ppc[p] /\ pi'[p] = pi[p] /\ cpc'[p] = cpc[p] /\ ci'[p] = ci[p]
  BY <1>1, <1>2 DEF Types
<1>4. MainStep(q)
  BY <1>2, <1>3 DEF MainStep
<1>5. Types'
  <2>1. FreshBuff \in [0..NBUFF-1 -> 0..nitems]
    BY DEF FreshBuff
  <2>2. buff' \in [Instances -> [0..NBUFF-1 -> 0..nitems]]
    BY <1>1, <1>2, <2>1 DEF Types
  <2>3. 0 \in 0..nitems /\ 1 \in 1..3
    OBVIOUS
  <2>4. /\ pi' \in [Instances -> 0..nitems] /\ ci' \in [Instances -> 0..nitems]
        /\ next' \in [Instances -> 1..3]
    BY <1>1, <1>2, <2>3 DEF Types
  <2> QED BY <1>1, <1>2, <2>2, <2>4 DEF Types, ProducerPlaces, ConsumerPlaces
<1>6. Opened(q)'
  BY <1>3 DEF Opened
<1>7. Referred'
  BY <1>2 DEF IInv, Referred, Own
<1>8. ToUnlink'
  <2>1. ASSUME NEW k \in 1..3, names[OpenOrder[k]] # None
        PROVE  \/ main'[names[OpenOrder[k]]] \in {"open", "join", "crashed"}
               \/ main'[names[OpenOrder[k]]] = "unlink" /\ next'[names[OpenOrder[k]]] <= k
    <3>1. names[OpenOrder[k]] \in Instances
      BY <1>1, <2>1, Order DEF Types
    <3>2. CASE names[OpenOrder[k]] = q
      BY <1>3, <3>2
    <3>3. CASE names[OpenOrder[k]] # q
      BY <1>3, <2>1, <3>1, <3>3 DEF IInv, ToUnlink
    <3> QED BY <3>2, <3>3
  <2> QED BY <1>2, <2>1 DEF ToUnlink
<1>9. Loops(q)' /\ ~Inside(q)'
  BY <1>1, <1>2, <1>3 DEF Loops, Inside, ProducerInside, ConsumerInside
<1>10. ASSUME ~wrong[q] PROVE Ring(q)'
  BY <1>2, <1>3, <1>10 DEF Ring
<1> QED BY <1>2, <1>4, <1>5, <1>6, <1>7, <1>8, <1>9, <1>10, MainStepInv

-----------------------------------------------------------------------------
(* The theorems                                                             *)

LEMMA StutterInv == IInv /\ UNCHANGED vars => IInv'
<1> SUFFICES ASSUME IInv, UNCHANGED vars PROVE IInv'
  OBVIOUS
<1> USE DEF vars, mainVars, threadVars
<1>1. Types' /\ (\A p \in Instances : Opened(p)') /\ Referred' /\ ToUnlink'
  BY DEF IInv, Types, Opened, Referred, Own, ToUnlink
<1>2. OneToken'
  BY DEF IInv, OneToken, Inside, ProducerInside, ConsumerInside, EarlyUnlock
<1>3. \A p \in Instances : Loops(p)'
  BY DEF IInv, Loops
<1>4. ASSUME NEW p \in Instances, Alone(p)' PROVE Ring(p)'
  <2>1. Ring(p)
    BY <1>4 DEF IInv, Alone
  <2>2. Tokens(p)' = Tokens(p)
    BY DEF Tokens, ProducerHolds, ConsumerHolds, ExtraPost
  <2>3. Filled(p)' = Filled(p)
    BY DEF Filled, Stored, EarlyUnlock, Content
  <2> QED BY <2>1, <2>2, <2>3 DEF Ring, InitialValue
<1> QED BY <1>1, <1>2, <1>3, <1>4 DEF IInv

LEMMA StepInv == IInv /\ [Next]_vars => IInv'
<1> SUFFICES ASSUME IInv, [Next]_vars PROVE IInv'
  OBVIOUS
<1>1. CASE UNCHANGED vars
  BY <1>1, StutterInv
<1>2. ASSUME NEW q \in Instances,
             Start(q) \/ Main(q) \/ Produce(q) \/ Consume(q) \/ Crash(q)
      PROVE  IInv'
  <2>1. CASE Start(q)
    BY <2>1, Starts
  <2>2. CASE Main(q)
    BY <2>2, Opens, Joins, Unlinks DEF Main
  <2>3. CASE Produce(q)
    BY <2>3, ProducerWaits, ProducerReturns, ProducerLocks, ProducerUnlocks, ProducerStores,
       ProducerPosts DEF Produce
  <2>4. CASE Consume(q)
    BY <2>4, ConsumerWaits, ConsumerReturns, ConsumerLocks, ConsumerUnlocks, ConsumerChecks,
       ConsumerPosts DEF Consume
  <2>5. CASE Crash(q)
    BY <2>5, Crashes
  <2> QED BY <1>2, <2>1, <2>2, <2>3, <2>4, <2>5
<1> QED BY <1>1, <1>2 DEF Next

LEMMA AlwaysIInv == Spec => []IInv
BY InitInv, StepInv, PTL DEF Spec

\* Every variable keeps its type and no mutex ever has a second token: whoever
\* crashes inside keeps it, and nobody else gives it back.
THEOREM TypeCorrect == Spec => []TypeOK
<1>1. IInv => TypeOK
  <2> SUFFICES ASSUME IInv PROVE TypeOK
    OBVIOUS
  <2>1. Types /\ OneToken
    BY DEF IInv
  <2>2. \A p \in Instances : value["mutex"][p] \in {0, 1}
    BY <2>1 DEF OneToken
  <2> QED BY <2>1, <2>2, Order DEF Types, TypeOK, ProducerPlaces, ConsumerPlaces
<1> QED BY <1>1, AlwaysIInv, PTL

\* A run that shares no semaphore with another one gets every item in order,
\* and its threads are never in one slot.  In mycat2 only the two counting
\* semaphores keep them apart.
THEOREM AloneRunIsRight == Spec => []AloneIsRight
<1>1. IInv => AloneIsRight
  <2> SUFFICES ASSUME IInv, NEW p \in Instances, Alone(p)
               PROVE  ~wrong[p] /\ ~InOneSlot(p)
    BY DEF AloneIsRight
  <2>1. ~wrong[p]
    BY DEF IInv, Ring
  <2>2. ASSUME InOneSlot(p) PROVE FALSE
    <3>1. main[p] = "join" /\ ppc[p] = "store" /\ cpc[p] = "check" /\ Slot(pi[p]) = Slot(ci[p])
      BY <2>2 DEF InOneSlot
    <3>2. Tokens(p)
      BY <3>1, Semaphores
    <3>3. One(ProducerHolds(p)) = 1 /\ One(ConsumerHolds(p)) = 1 /\ One(ExtraPost(p)) = 0
      BY <3>1 DEF One, ProducerHolds, ConsumerHolds, ExtraPost
    <3>4. /\ pi[p] \in 0..nitems /\ ci[p] \in 0..nitems
          /\ value["nstored"][p] \in Nat /\ value["nempty"][p] \in Nat
      BY DEF IInv, Types, Sems
    <3>5. /\ value["nstored"][p] + ci[p] + 1 = pi[p]
          /\ value["nempty"][p] + pi[p] + 1 = NBUFF + ci[p]
      BY <3>2, <3>3, <3>4 DEF Tokens
    <3>6. ci[p] \in Nat /\ pi[p] \in Nat /\ ci[p] < pi[p] /\ pi[p] - ci[p] < NBUFF
      BY ONLY <3>4, <3>5, NBUFF \in Nat, nitems \in Nat
    <3> QED BY <3>1, <3>6, SlotsDiffer
  <2> QED BY <2>1, <2>2
<1> QED BY <1>1, AlwaysIInv, PTL

\* However the runs overlap, and whichever of them removes a name first, the
\* names are all gone when no run was killed and every run that began has ended.
THEOREM NamesAreRemoved == Spec => []NoNameLeft
<1>1. IInv => NoNameLeft
  <2> SUFFICES ASSUME IInv, \A p \in Instances : main[p] \in {"new", "exit"},
                      NEW s \in Sems, names[s] # None
               PROVE  FALSE
    BY DEF NoNameLeft
  <2>1. names[s] \in Instances
    BY DEF IInv, Types
  <2>2. PICK k \in 1..3 : OpenOrder[k] = s
    BY Order
  <2>3. main[names[s]] \in {"open", "join", "crashed", "unlink"}
    BY <2>2 DEF IInv, ToUnlink
  <2> QED BY <2>1, <2>3
<1> QED BY <1>1, AlwaysIInv, PTL
=============================================================================
