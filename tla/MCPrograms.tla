------------------------------ MODULE MCPrograms ------------------------------
(***************************************************************************)
(* SharedCounter, ShmRing, RecordLocks and RtSignals for TLC.  Their       *)
(* programs have nothing to do with each other: a behaviour runs those of  *)
(* one module, system, and the others stay in an initial state.            *)
(***************************************************************************)
EXTENDS RecordLocks

CONSTANTS
  ShortPid,                         \* of RecordLocks: the process with the shorter pid
  Counters, Servers, None, CounterPrograms, increments,  \* of SharedCounter
  Clients, NMESG, messages,         \* of ShmRing
  Values                            \* of RtSignals

VARIABLES
  system,
  cprog, shmname, semname, count, cmutex, ipc, cpc, mem, sem, cloop, creg,
  rmutex, nempty, nstored, noverflowmutex, nput, noverflow, msgdata, rpc, i,
  offset, killed, readerpc, nread, due, wrong, overtaken,
  parent, signo, j, child, blocked, handled, pending, running, printed, early, inTime

PidLengths == [p \in Processes |-> IF p = ShortPid THEN 1 ELSE 2]

Counter == INSTANCE SharedCounter WITH
             Processes <- Counters, Programs <- CounterPrograms, nloop <- increments,
             prog <- cprog, mutex <- cmutex, pc <- cpc, loop <- cloop, reg <- creg

Ring == INSTANCE ShmRing WITH nloop <- messages, mutex <- rmutex, pc <- rpc, rpc <- readerpc

Signals == INSTANCE RtSignals

ASSUME TheirConstants ==
  /\ Counter!CounterAssumption /\ Signals!SignalsAssumption
  /\ Ring!RingAssumption /\ IsFiniteSet(Clients)

counterVars == <<cprog, shmname, semname, count, cmutex, ipc, cpc, mem, sem, cloop, creg>>
ringVars == <<rmutex, nempty, nstored, noverflowmutex, nput, noverflow, msgdata, rpc, i,
              offset, killed, readerpc, nread, due, wrong, overtaken>>
signalVars == <<parent, signo, j, child, blocked, handled, pending, running, printed,
                early, inTime>>
allVars == <<system, counterVars, ringVars, vars, signalVars>>

MCInit ==
  /\ system \in {"counter", "ring", "locks", "signals"}
  /\ Init /\ Counter!Init /\ Ring!Init /\ Signals!Init
  /\ system # "counter" => cprog = "incr"
  /\ system # "locks" => prog = "lockmain"

MCNext ==
  \/ system = "counter" /\ Counter!Next /\ UNCHANGED <<system, ringVars, vars, signalVars>>
  \/ system = "ring" /\ Ring!Next /\ UNCHANGED <<system, counterVars, vars, signalVars>>
  \/ system = "locks" /\ Next /\ UNCHANGED <<system, counterVars, ringVars, signalVars>>
  \/ system = "signals" /\ Signals!Next /\ UNCHANGED <<system, counterVars, ringVars, vars>>

MCRun ==
  \/ system = "counter" /\ Counter!Run /\ UNCHANGED <<system, ringVars, vars, signalVars>>
  \/ system = "ring" /\ Ring!Run /\ UNCHANGED <<system, counterVars, vars, signalVars>>
  \/ system = "locks" /\ Run /\ UNCHANGED <<system, counterVars, ringVars, signalVars>>
  \/ system = "signals" /\ Signals!Next /\ UNCHANGED <<system, counterVars, ringVars, vars>>

\* The Fairness of the module whose programs run.
MCSpec == MCInit /\ [][MCNext]_allVars /\ WF_allVars(MCRun)

\* Types of all four modules.
TypesOK == TypeOK /\ Counter!TypeOK /\ Ring!TypeOK /\ Signals!TypeOK
\* The read and write of an increment by shm/incr2, incr4, client1 and lockmain
\* are not torn apart.
NoIncrementLost == Counter!NoLostUpdate /\ SeqnoIsExact
\* Of shm/client2: a message is stored, or counted as an overflow.
EveryMessageCounts == Ring!EveryMessageCounts
\* Of shm/client2: no slot is shared, and no message torn, before a client
\* overtakes another.
SafeInTurn == Ring!SafeInTurn
\* Of rtsignals1: each signal number comes in order, and none is lost if the
\* sleeps do their work.
SignalsAreKept == Signals!SignalsAreKept
\* Every program ends, unless it is a daemon or is blocked in a wait for a
\* semaphore that a process took and was killed, or died of SIGBUS, before its
\* post.
EverybodyStops ==
  <>(CASE system = "counter" -> Counter!AllEnded
       [] system = "ring" -> Ring!AllEnded
       [] system = "locks" -> AllEnded
       [] system = "signals" -> Signals!AllEnded)
=============================================================================
