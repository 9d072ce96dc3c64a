---------------------------- MODULE SharedCounter ----------------------------
(***************************************************************************)
(* Processes that increment one counter: shm/client1 (several processes,   *)
(* shared memory and a semaphore that runs of shm/server1 create), and the *)
(* parent and child of shm/incr2, incr4 and incr_dev_zero ("incr") and of  *)
(* incr3.                                                                  *)
(*                                                                         *)
(* An increment is a read and a write.  Processes can be killed, and       *)
(* nobody posts the semaphore they hold.                                   *)
(***************************************************************************)
EXTENDS Integers, FiniteSets, Functions

CONSTANTS
  Processes,
  Servers,   \* runs of server1; each names the objects it creates
  None,      \* no object
  Programs,
  nloop,
  MaxCrashes \* processes that may be killed

\* Checked of the constants by MCPrograms.
CounterAssumption ==
  /\ IsFiniteSet(Processes) /\ IsFiniteSet(Servers) /\ Servers # {}
  /\ Processes \cap Servers = {}
  /\ None \notin Processes \cup Servers
  /\ Programs \subseteq {"client1", "incr", "incr3"}
  /\ nloop \in Nat
  /\ MaxCrashes \in Nat

VARIABLES
  prog,
  shmname, semname,  \* the objects the two names of client1 refer to
  count,    \* the counter in each memory object, -1 before it has its size
  mutex,    \* the value of each semaphore
  ipc,      \* place of each run of server1
  pc,
  mem, sem, \* the counter and the semaphore each process uses
  loop,     \* increments it has left
  reg       \* the value it has read

objects == <<shmname, semname, count, mutex>>
vars == <<prog, objects, ipc, pc, mem, sem, loop, reg>>

Objects == Servers \cup Processes
First == CHOOSE s \in Servers : TRUE
Dead == {"killed", "killed_inside", "sigbus"}
Ended == {"done", "failed"} \cup Dead

\* incr: one counter and one semaphore for all.  incr3 waits for the
\* semaphore in the global struct, of which fork has made each process a copy.
Shares(p) == IF prog = "incr3" THEN p ELSE First

Init ==
  /\ prog \in Programs
  /\ shmname = None /\ semname = None
  /\ count = [o \in Servers |-> IF prog = "client1" THEN -1 ELSE 0]
  /\ mutex = [o \in Objects |-> IF prog = "client1" THEN 0 ELSE 1]
  /\ ipc = [s \in Servers |-> IF prog = "client1" THEN "unlink_shm" ELSE "done"]
  /\ pc = [p \in Processes |-> IF prog = "client1" THEN "shm_open" ELSE "wait"]
  /\ mem = [p \in Processes |-> IF prog = "client1" THEN None ELSE First]
  /\ sem = [p \in Processes |-> IF prog = "client1" THEN None ELSE Shares(p)]
  /\ loop = [p \in Processes |-> nloop]
  /\ reg = [p \in Processes |-> 0]

-----------------------------------------------------------------------------
(* server1                                                                  *)

ServerStep(s, from, to) ==
  /\ ipc[s] = from
  /\ ipc' = [ipc EXCEPT ![s] = to]
  /\ UNCHANGED <<prog, pc, mem, sem, loop, reg>>

ServerShmUnlink(s) ==
  /\ ServerStep(s, "unlink_shm", "create_shm")
  /\ shmname' = None
  /\ UNCHANGED <<semname, count, mutex>>

\* Shm_open and Sem_open with O_EXCL fail if another run was faster.
ServerShmCreate(s) ==
  /\ IF shmname = None
     THEN ServerStep(s, "create_shm", "truncate") /\ shmname' = s
     ELSE ServerStep(s, "create_shm", "failed") /\ UNCHANGED shmname
  /\ UNCHANGED <<semname, count, mutex>>

ServerTruncate(s) ==
  /\ ServerStep(s, "truncate", "unlink_sem")
  /\ count' = [count EXCEPT ![s] = 0]
  /\ UNCHANGED <<shmname, semname, mutex>>

ServerSemUnlink(s) ==
  /\ ServerStep(s, "unlink_sem", "create_sem")
  /\ semname' = None
  /\ UNCHANGED <<shmname, count, mutex>>

ServerSemCreate(s) ==
  /\ IF semname = None
     THEN /\ ServerStep(s, "create_sem", "done")
          /\ semname' = s
          /\ mutex' = [mutex EXCEPT ![s] = 1]
     ELSE ServerStep(s, "create_sem", "failed") /\ UNCHANGED <<semname, mutex>>
  /\ UNCHANGED <<shmname, count>>

Server(s) ==
  \/ ServerShmUnlink(s) \/ ServerShmCreate(s) \/ ServerTruncate(s)
  \/ ServerSemUnlink(s) \/ ServerSemCreate(s)

-----------------------------------------------------------------------------
(* The processes                                                            *)

Step(p, from, to) ==
  /\ pc[p] = from
  /\ pc' = [pc EXCEPT ![p] = to]
  /\ UNCHANGED <<prog, shmname, semname, ipc>>

\* client1 opens the memory, then the semaphore.
ShmOpen(p) ==
  /\ Step(p, "shm_open", IF shmname = None THEN "failed" ELSE "sem_open")
  /\ mem' = [mem EXCEPT ![p] = shmname]
  /\ UNCHANGED <<count, mutex, sem, loop, reg>>

SemOpen(p) ==
  /\ Step(p, "sem_open", IF semname = None THEN "failed" ELSE "wait")
  /\ sem' = [sem EXCEPT ![p] = semname]
  /\ UNCHANGED <<count, mutex, mem, loop, reg>>

\* Mutant: the process does not wait.
WaitNot(p) ==
  /\ loop[p] > 0
  /\ Step(p, "wait", "read")
  /\ mutex' = [mutex EXCEPT ![sem[p]] = 0]
  /\ UNCHANGED <<count, mem, sem, loop, reg>>

\* Sem_wait.
Wait(p) ==
  /\ pc[p] = "wait" /\ loop[p] > 0
  /\ mutex[sem[p]] > 0
  /\ Step(p, "wait", "read")
  /\ mutex' = [mutex EXCEPT ![sem[p]] = @ - 1]
  /\ UNCHANGED <<count, mem, sem, loop, reg>>

\* The memory has no pages before ftruncate.
Read(p) ==
  /\ pc[p] = "read"
  /\ Step(p, "read", IF count[mem[p]] < 0 THEN "sigbus" ELSE "write")
  /\ reg' = [reg EXCEPT ![p] = count[mem[p]]]
  /\ UNCHANGED <<count, mutex, mem, sem, loop>>

Write(p) ==
  /\ Step(p, "write", "post")
  /\ count' = [count EXCEPT ![mem[p]] = reg[p] + 1]
  /\ loop' = [loop EXCEPT ![p] = @ - 1]
  /\ UNCHANGED <<mutex, mem, sem, reg>>

\* Mutant: the last round of the loop keeps the lock.
PostButLast(p) ==
  /\ Step(p, "post", "wait")
  /\ mutex' = [mutex EXCEPT ![sem[p]] = IF loop[p] = 0 THEN @ ELSE @ + 1]
  /\ UNCHANGED <<count, mem, sem, loop, reg>>

\* Mutant: the lock is released twice.
PostTwice(p) ==
  /\ Step(p, "post", "wait")
  /\ mutex' = [mutex EXCEPT ![sem[p]] = @ + 2]
  /\ UNCHANGED <<count, mem, sem, loop, reg>>

\* Sem_post.
Post(p) ==
  /\ Step(p, "post", "wait")
  /\ mutex' = [mutex EXCEPT ![sem[p]] = @ + 1]
  /\ UNCHANGED <<count, mem, sem, loop, reg>>

Return(p) ==
  /\ loop[p] = 0
  /\ Step(p, "wait", "done")
  /\ UNCHANGED <<count, mutex, mem, sem, loop, reg>>

\* pc keeps whether the process was between Sem_wait and Sem_post.
Kill(p) ==
  /\ Cardinality({q \in Processes : pc[q] \in Dead \ {"sigbus"}}) < MaxCrashes
  /\ pc[p] \notin Ended
  /\ Step(p, pc[p], IF pc[p] \in {"read", "write", "post"} THEN "killed_inside" ELSE "killed")
  /\ UNCHANGED <<count, mutex, mem, sem, loop, reg>>

Process(p) ==
  \/ ShmOpen(p) \/ SemOpen(p)
  \/ Wait(p) \/ Read(p) \/ Write(p) \/ Post(p) \/ Return(p)

Run == \E p \in Processes : Process(p)

Next ==
  \/ \E s \in Servers : Server(s)
  \/ Run
  \/ \E p \in Processes : Kill(p)

Spec == Init /\ [][Next]_vars

\* As long as some process can run, one runs; nobody has to run server1 or to
\* kill a process.
Fairness == WF_vars(Run)
FairSpec == Spec /\ Fairness

-----------------------------------------------------------------------------
(* Properties                                                               *)

TypeOK ==
  /\ prog \in Programs
  /\ shmname \in Servers \cup {None} /\ semname \in Servers \cup {None}
  /\ count \in [Servers -> Int]
  /\ mutex \in [Objects -> {0, 1}]
  /\ ipc \in [Servers -> {"unlink_shm", "create_shm", "truncate", "unlink_sem",
                          "create_sem", "done", "failed"}]
  /\ pc \in [Processes -> {"shm_open", "sem_open", "wait", "read", "write", "post"} \cup Ended]
  /\ mem \in [Processes -> Servers \cup {None}]
  /\ sem \in [Processes -> Objects \cup {None}]
  /\ loop \in [Processes -> 0..nloop]
  /\ reg \in [Processes -> Int]

\* No increment is lost while the processes that share a counter share its
\* semaphore too, whoever is killed, and however runs of server1 interfere:
\* the counter equals the increments made so far.
Users(m) == {p \in Processes : mem[p] = m /\ sem[p] # None}
NoLostUpdate ==
  \A m \in Servers :
    count[m] >= 0 /\ (\A p, q \in Users(m) : sem[p] = sem[q]) =>
      count[m] = FoldFunctionOnSet(LAMBDA left, sum : sum + nloop - left, 0, loop, Users(m))

\* A process that nobody kills ends, or waits for the one semaphore it uses
\* with increments left, and that semaphore is at 0 because a process died
\* between its Sem_wait and its Sem_post: a death anywhere else is no excuse,
\* nor is a live process that does not post.
TokenDiedWith(q, s) == sem[q] = s /\ pc[q] \in {"killed_inside", "sigbus"}
Stuck(p) ==
  /\ pc[p] = "wait" /\ loop[p] > 0
  /\ mutex[sem[p]] = 0
  /\ \E q \in Processes : TokenDiedWith(q, sem[p])
AllEnded == \A p \in Processes : pc[p] \in Ended \/ Stuck(p)
EverybodyEnds == <>AllEnded
=============================================================================
