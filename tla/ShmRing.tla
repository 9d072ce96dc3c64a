------------------------------- MODULE ShmRing -------------------------------
(***************************************************************************)
(* Runs of shm/client2, which put messages into a ring of NMESG slots in   *)
(* shared memory (lib/cliserv2.h) and count a message as an overflow when  *)
(* there is no free slot.                                                  *)
(*                                                                         *)
(* A client takes its slot under the mutex, but copies its message and     *)
(* posts nstored after it has given the mutex back, so that a client can   *)
(* overtake one that took an earlier slot.  A message is copied in two     *)
(* halves.  Clients can be killed; nobody posts what they hold.            *)
(*                                                                         *)
(* The program that reads the ring is not in the repository.  It is taken  *)
(* to do what the semaphores are for: for each nstored, read the next slot *)
(* and post nempty.                                                        *)
(***************************************************************************)
EXTENDS Integers, Sequences, FiniteSets, Functions

CONSTANTS
  Clients,
  NMESG,
  nloop,
  MaxCrashes  \* clients that may be killed

\* Checked of the constants by MCPrograms.
RingAssumption == NMESG \in Nat \ {0} /\ nloop \in Nat

VARIABLES
  mutex, nempty, nstored, noverflowmutex,   \* the semaphores
  nput, noverflow,
  msgdata,   \* the two halves of each message
  pc, i,
  offset,    \* the slot each client has taken
  killed,    \* clients that were killed, where pc says
  rpc, nread, \* the reader's place, and how many slots it has read
  due,       \* messages that have a slot and were not read, in slot order
  wrong,     \* the reader found something else in a slot
  overtaken  \* a client has posted nstored before one with an earlier slot

semaphores == <<mutex, nempty, nstored, noverflowmutex>>
observed == <<due, wrong, overtaken>>
vars == <<semaphores, nput, noverflow, msgdata, pc, i, offset, killed, rpc, nread, observed>>

Slots == 0..NMESG-1
Messages == Clients \X (0..nloop-1)
Nothing == <<>>
Message(c) == <<c, i[c]>>

\* What the creator of the memory leaves.
Init ==
  /\ mutex = 1 /\ nempty = NMESG /\ nstored = 0 /\ noverflowmutex = 1
  /\ nput = 0 /\ noverflow = 0
  /\ msgdata = [s \in Slots |-> <<Nothing, Nothing>>]
  /\ pc = [c \in Clients |-> "trywait"]
  /\ i = [c \in Clients |-> 0]
  /\ offset = [c \in Clients |-> 0]
  /\ killed = {}
  /\ rpc = "wait" /\ nread = 0
  /\ due = <<>> /\ wrong = FALSE /\ overtaken = FALSE

At(places) == {c \in Clients : pc[c] \in places}

\* Clients that have taken a token of nempty and not yet posted nstored, and
\* those of them that have a slot.
InHand == At({"lock", "take", "advance", "unlock", "copy1", "copy2", "post"})
HasSlot == At({"unlock", "copy1", "copy2", "post"})

-----------------------------------------------------------------------------
(* client2                                                                  *)

Step(c, from, to) ==
  /\ c \notin killed
  /\ pc[c] = from
  /\ pc' = [pc EXCEPT ![c] = to]
  /\ UNCHANGED <<killed, rpc, nread, wrong>>

\* sem_trywait: EAGAIN sends the client to the overflow counter.
TryWait(c) ==
  /\ i[c] < nloop
  /\ Step(c, "trywait", IF nempty > 0 THEN "lock" ELSE "o_lock")
  /\ nempty' = IF nempty > 0 THEN nempty - 1 ELSE nempty
  /\ UNCHANGED <<mutex, nstored, noverflowmutex, nput, noverflow, msgdata, i, offset, due, overtaken>>

OverflowLock(c) ==
  /\ noverflowmutex > 0
  /\ Step(c, "o_lock", "o_add")
  /\ noverflowmutex' = noverflowmutex - 1
  /\ UNCHANGED <<mutex, nempty, nstored, nput, noverflow, msgdata, i, offset, due, overtaken>>

OverflowAdd(c) ==
  /\ Step(c, "o_add", "o_unlock")
  /\ noverflow' = noverflow + 1
  /\ UNCHANGED <<semaphores, nput, msgdata, i, offset, due, overtaken>>

\* Mutant: the continue is missing.
OverflowUnlockGoesOn(c) ==
  /\ Step(c, "o_unlock", "lock")
  /\ noverflowmutex' = noverflowmutex + 1
  /\ UNCHANGED <<mutex, nempty, nstored, nput, noverflow, msgdata, i, offset, due, overtaken>>

OverflowUnlock(c) ==
  /\ Step(c, "o_unlock", "trywait")
  /\ noverflowmutex' = noverflowmutex + 1
  /\ i' = [i EXCEPT ![c] = @ + 1]
  /\ UNCHANGED <<mutex, nempty, nstored, nput, noverflow, msgdata, offset, due, overtaken>>

\* Mutant: the slot is taken without the mutex.
LockNot(c) ==
  /\ Step(c, "lock", "take")
  /\ UNCHANGED <<semaphores, nput, noverflow, msgdata, i, offset, due, overtaken>>

Lock(c) ==
  /\ mutex > 0
  /\ Step(c, "lock", "take")
  /\ mutex' = mutex - 1
  /\ UNCHANGED <<nempty, nstored, noverflowmutex, nput, noverflow, msgdata, i, offset, due, overtaken>>

Take(c) ==
  /\ Step(c, "take", "advance")
  /\ offset' = [offset EXCEPT ![c] = nput]
  /\ UNCHANGED <<semaphores, nput, noverflow, msgdata, i, due, overtaken>>

Advance(c) ==
  /\ Step(c, "advance", "unlock")
  /\ nput' = IF nput + 1 >= NMESG THEN 0 ELSE nput + 1
  /\ due' = Append(due, Message(c))
  /\ UNCHANGED <<semaphores, noverflow, msgdata, i, offset, overtaken>>

Unlock(c) ==
  /\ Step(c, "unlock", "copy1")
  /\ mutex' = mutex + 1
  /\ UNCHANGED <<nempty, nstored, noverflowmutex, nput, noverflow, msgdata, i, offset, due, overtaken>>

\* strcpy.
Copy(c, half) ==
  /\ Step(c, <<"copy1", "copy2">>[half], <<"copy2", "post">>[half])
  /\ msgdata' = [msgdata EXCEPT ![offset[c]][half] = Message(c)]
  /\ UNCHANGED <<semaphores, nput, noverflow, i, offset, due, overtaken>>

\* A client with an earlier slot has not posted yet.
Overtakes(c) ==
  \E d \in HasSlot, m, n \in DOMAIN due :
    m < n /\ due[m] = Message(d) /\ due[n] = Message(c)

Post(c) ==
  /\ Step(c, "post", "trywait")
  /\ nstored' = nstored + 1
  /\ i' = [i EXCEPT ![c] = @ + 1]
  /\ overtaken' = (overtaken \/ Overtakes(c))
  /\ UNCHANGED <<mutex, nempty, noverflowmutex, nput, noverflow, msgdata, offset, due>>

Return(c) ==
  /\ i[c] = nloop
  /\ Step(c, "trywait", "done")
  /\ UNCHANGED <<semaphores, nput, noverflow, msgdata, i, offset, due, overtaken>>

Client(c) ==
  \/ TryWait(c) \/ OverflowLock(c) \/ OverflowAdd(c) \/ OverflowUnlock(c)
  \/ Lock(c) \/ Take(c) \/ Advance(c) \/ Unlock(c)
  \/ Copy(c, 1) \/ Copy(c, 2) \/ Post(c) \/ Return(c)

Kill(c) ==
  /\ Cardinality(killed) < MaxCrashes
  /\ c \notin killed /\ pc[c] # "done"
  /\ killed' = killed \cup {c}
  /\ UNCHANGED <<semaphores, nput, noverflow, msgdata, pc, i, offset, rpc, nread, observed>>

-----------------------------------------------------------------------------
(* The reader                                                               *)

ReaderStep(from, to) ==
  /\ rpc = from /\ rpc' = to
  /\ UNCHANGED <<mutex, noverflowmutex, nput, noverflow, msgdata, pc, i, offset, killed, overtaken>>

ReaderWait ==
  /\ nstored > 0
  /\ ReaderStep("wait", "read")
  /\ nstored' = nstored - 1
  /\ UNCHANGED <<nempty, nread, due, wrong>>

ReaderRead ==
  /\ ReaderStep("read", "post")
  /\ nread' = nread + 1
  /\ wrong' = (wrong \/ msgdata[nread % NMESG] # <<Head(due), Head(due)>>)
  /\ due' = Tail(due)
  /\ UNCHANGED <<nempty, nstored>>

ReaderPost ==
  /\ ReaderStep("post", "wait")
  /\ nempty' = nempty + 1
  /\ UNCHANGED <<nstored, nread, due, wrong>>

Reader == ReaderWait \/ ReaderRead \/ ReaderPost

Run == (\E c \in Clients : Client(c)) \/ Reader

Next == Run \/ (\E c \in Clients : Kill(c))

Spec == Init /\ [][Next]_vars

\* As long as a client or the reader can run, one of them runs.
Fairness == WF_vars(Run)
FairSpec == Spec /\ Fairness

-----------------------------------------------------------------------------
(* Properties                                                               *)

TypeOK ==
  /\ mutex \in {0, 1} /\ noverflowmutex \in {0, 1}
  /\ nempty \in 0..NMESG /\ nstored \in 0..NMESG
  /\ nput \in Slots /\ noverflow \in Nat /\ nread \in Nat
  /\ msgdata \in [Slots -> (Messages \cup {Nothing}) \X (Messages \cup {Nothing})]
  /\ pc \in [Clients -> {"trywait", "o_lock", "o_add", "o_unlock", "lock", "take",
                         "advance", "unlock", "copy1", "copy2", "post", "done"}]
  /\ i \in [Clients -> 0..nloop]
  /\ offset \in [Clients -> Slots]
  /\ killed \subseteq Clients
  /\ rpc \in {"wait", "read", "post"}
  /\ due \in Seq(Messages)
  /\ wrong \in BOOLEAN /\ overtaken \in BOOLEAN

\* Every message is stored or counted as an overflow, never both and never
\* neither, and no slot is lost but with a killed client, wherever it is killed.
EveryMessageCounts ==
  /\ nempty + nstored + Cardinality(InHand) + (IF rpc = "wait" THEN 0 ELSE 1) = NMESG
  /\ noverflow + nstored + nread + (IF rpc = "read" THEN 1 ELSE 0)
       = FoldFunction(+, 0, i) + Cardinality(At({"o_unlock"}))

\* As long as no client has overtaken another one, the reader finds each
\* message whole and in its turn, and no two clients copy into one slot,
\* although nothing but the two semaphores keeps them apart.
SafeInTurn ==
  ~overtaken =>
    /\ ~wrong
    /\ \A c, d \in HasSlot : c # d => offset[c] # offset[d]

\* A client that is not killed ends, even when the ring stays full, or waits
\* for mutex or noverflowmutex, which is at 0 because a client was killed
\* between the sem_wait and the sem_post of that semaphore.
Stuck(c) ==
  \/ /\ pc[c] = "lock" /\ mutex = 0
     /\ killed \cap At({"take", "advance", "unlock"}) # {}
  \/ /\ pc[c] = "o_lock" /\ noverflowmutex = 0
     /\ killed \cap At({"o_add", "o_unlock"}) # {}
AllEnded == \A c \in Clients : pc[c] = "done" \/ c \in killed \/ Stuck(c)
EverybodyEnds == <>AllEnded
=============================================================================
