----------------------------- MODULE RecordLocks -----------------------------
(***************************************************************************)
(* Programs that use fcntl record locks on a whole file: lock/lockmain     *)
(* (processes increment a sequence number in a file), lock/onedaemon (a    *)
(* daemon that locks the file its pid goes into, so that it runs once) and *)
(* lock/test3 (a parent and two children).                                 *)
(*                                                                         *)
(* The lock is the kernel's: a writer excludes everybody, readers exclude  *)
(* writers, a child does not inherit it, and the end of a process releases *)
(* it, wherever the process is killed.                                     *)
(***************************************************************************)
EXTENDS Integers, Sequences, FiniteSets, Functions

CONSTANTS
  Processes,
  Programs,
  nloop,      \* increments of each lockmain
  PidLength,  \* length of the line with the pid of each process
  MaxCrashes  \* processes that may be killed

ASSUME LocksAssumption ==
  IsFiniteSet(Processes) /\ PidLength \in [Processes -> Nat] /\ nloop \in Nat

AllPrograms == {"lockmain", "onedaemon", "test3"}

\* The processes of test3; "second" is the child that is forked first.
Family == {"parent", "second", "first"}
Procs == Processes \cup Family

VARIABLES
  prog,
  lock,   \* the lock each process has
  pc,
  file,   \* the pid file, a sequence of the processes whose pid the bytes are of
  seqno, reg, loop

vars == <<prog, lock, pc, file, seqno, reg, loop>>

FirstPlace(p) ==
  CASE prog = "lockmain" /\ p \in Processes -> "seq_lock"
    [] prog = "onedaemon" /\ p \in Processes -> "open"
    [] prog = "test3" /\ p = "parent" -> "test_lock"
    [] OTHER -> "off"

Init ==
  /\ prog \in Programs
  /\ lock = [p \in Procs |-> "none"]
  /\ pc = [p \in Procs |-> FirstPlace(p)]
  /\ file = <<>>
  /\ seqno = 0
  /\ reg = [p \in Processes |-> 0]
  /\ loop = [p \in Processes |-> nloop]

Line(p) == [n \in 1..PidLength[p] |-> p]
Ended == {"exit", "failed", "killed"}

-----------------------------------------------------------------------------
(* lock_reg: F_SETLK and F_SETLKW                                           *)

Lockable(p, type) ==
  \A q \in Procs \ {p} : lock[q] = "none" \/ (type = "read" /\ lock[q] = "read")

Goto(p, to) == pc' = [pc EXCEPT ![p] = to]
SetLock(p, type) == lock' = [lock EXCEPT ![p] = type]
End(p, how) == Goto(p, how) /\ SetLock(p, "none")

\* F_SETLKW waits, F_SETLK fails, and the program then ends.
LockWait(p, type, to) == Lockable(p, type) /\ SetLock(p, type) /\ Goto(p, to)
LockOrFail(p, type, to) ==
  LockWait(p, type, to) \/ (~Lockable(p, type) /\ End(p, "failed"))

-----------------------------------------------------------------------------
(* lockmain                                                                 *)

\* Mutant: my_lock with F_SETLK, whose failure nobody notices.
SeqLockNoWait(p) ==
  /\ pc[p] = "seq_lock" /\ loop[p] > 0
  /\ Goto(p, "seq_read")
  /\ IF Lockable(p, "write") THEN SetLock(p, "write") ELSE UNCHANGED lock
  /\ UNCHANGED <<prog, file, seqno, reg, loop>>

SeqLock(p) ==
  /\ pc[p] = "seq_lock" /\ loop[p] > 0
  /\ LockWait(p, "write", "seq_read")
  /\ UNCHANGED <<prog, file, seqno, reg, loop>>

SeqRead(p) ==
  /\ pc[p] = "seq_read"
  /\ Goto(p, "seq_write")
  /\ reg' = [reg EXCEPT ![p] = seqno]
  /\ UNCHANGED <<prog, lock, file, seqno, loop>>

SeqWrite(p) ==
  /\ pc[p] = "seq_write"
  /\ Goto(p, "seq_unlock")
  /\ seqno' = reg[p] + 1
  /\ loop' = [loop EXCEPT ![p] = @ - 1]
  /\ UNCHANGED <<prog, lock, file, reg>>

SeqUnlock(p) ==
  /\ pc[p] = "seq_unlock"
  /\ Goto(p, "seq_lock") /\ SetLock(p, "none")
  /\ UNCHANGED <<prog, file, seqno, reg, loop>>

SeqReturn(p) ==
  /\ pc[p] = "seq_lock" /\ loop[p] = 0
  /\ End(p, "exit")
  /\ UNCHANGED <<prog, file, seqno, reg, loop>>

-----------------------------------------------------------------------------
(* onedaemon                                                                *)

\* Mutant: the file is emptied when it is opened.
DaemonOpenTruncates(p) ==
  /\ pc[p] = "open"
  /\ Goto(p, "daemon_lock")
  /\ file' = <<>>
  /\ UNCHANGED <<prog, lock, seqno, reg, loop>>

DaemonOpen(p) ==
  /\ pc[p] = "open"
  /\ Goto(p, "daemon_lock")
  /\ UNCHANGED <<prog, lock, file, seqno, reg, loop>>

DaemonLock(p) ==
  /\ pc[p] = "daemon_lock"
  /\ LockOrFail(p, "write", "truncate")
  /\ UNCHANGED <<prog, file, seqno, reg, loop>>

DaemonTruncate(p) ==
  /\ pc[p] = "truncate"
  /\ Goto(p, "daemon_write")
  /\ file' = <<>>
  /\ UNCHANGED <<prog, lock, seqno, reg, loop>>

\* Write overwrites the beginning of what is in the file.  The daemon then
\* pauses for ever.
DaemonWrite(p) ==
  /\ pc[p] = "daemon_write"
  /\ Goto(p, "pause")
  /\ file' = Line(p) \o SubSeq(file, PidLength[p] + 1, Len(file))
  /\ UNCHANGED <<prog, lock, seqno, reg, loop>>

-----------------------------------------------------------------------------
(* test3                                                                    *)

ParentLock ==
  /\ pc["parent"] = "test_lock"
  /\ LockOrFail("parent", "write", "fork_second")
  /\ UNCHANGED <<prog, file, seqno, reg, loop>>

Fork(child, from, to) ==
  /\ pc["parent"] = from
  /\ pc' = [pc EXCEPT !["parent"] = to, ![child] = "child_lock"]
  /\ UNCHANGED <<prog, lock, file, seqno, reg, loop>>

ParentUnlock ==
  /\ pc["parent"] = "test_unlock"
  /\ SetLock("parent", "none") /\ Goto("parent", "leave")
  /\ UNCHANGED <<prog, file, seqno, reg, loop>>

ParentReturn ==
  /\ pc["parent"] = "leave"
  /\ End("parent", "exit")
  /\ UNCHANGED <<prog, file, seqno, reg, loop>>

ChildLock(c) ==
  /\ pc[c] = "child_lock"
  /\ LockWait(c, IF c = "second" THEN "read" ELSE "write", "child_unlock")
  /\ UNCHANGED <<prog, file, seqno, reg, loop>>

\* Un_lock, then exit.
ChildUnlock(c) ==
  /\ pc[c] = "child_unlock"
  /\ End(c, "exit")
  /\ UNCHANGED <<prog, file, seqno, reg, loop>>

-----------------------------------------------------------------------------
Lockmain(p) == SeqLock(p) \/ SeqRead(p) \/ SeqWrite(p) \/ SeqUnlock(p) \/ SeqReturn(p)
Onedaemon(p) == DaemonOpen(p) \/ DaemonLock(p) \/ DaemonTruncate(p) \/ DaemonWrite(p)
Test3Parent ==
  \/ ParentLock \/ Fork("second", "fork_second", "fork_first")
  \/ Fork("first", "fork_first", "test_unlock") \/ ParentUnlock \/ ParentReturn
Test3Child(c) == ChildLock(c) \/ ChildUnlock(c)

Kill(p) ==
  /\ Cardinality({q \in Procs : pc[q] = "killed"}) < MaxCrashes
  /\ pc[p] \notin Ended \cup {"off"}
  /\ End(p, "killed")
  /\ UNCHANGED <<prog, file, seqno, reg, loop>>

Run ==
  \/ \E p \in Processes : Lockmain(p) \/ Onedaemon(p)
  \/ Test3Parent
  \/ \E c \in {"second", "first"} : Test3Child(c)

Next == Run \/ (\E p \in Procs : Kill(p))

Spec == Init /\ [][Next]_vars

\* As long as some process can run, one runs.
Fairness == WF_vars(Run)
FairSpec == Spec /\ Fairness

-----------------------------------------------------------------------------
(* Properties                                                               *)

TypeOK ==
  /\ prog \in Programs
  /\ lock \in [Procs -> {"none", "read", "write"}]
  /\ pc \in [Procs -> {"off", "seq_lock", "seq_read", "seq_write", "seq_unlock",
                       "open", "daemon_lock", "truncate", "daemon_write", "pause",
                       "test_lock", "fork_second", "fork_first", "test_unlock",
                       "leave", "child_lock", "child_unlock"} \cup Ended]
  /\ file \in Seq(Processes)
  /\ seqno \in Nat
  /\ reg \in [Processes -> Nat]
  /\ loop \in [Processes -> 0..nloop]

\* One daemon runs, and the pid file holds its pid and nothing else, whoever
\* was killed with the file half written and whoever tries to start meanwhile.
OneDaemon == \A p \in Processes : pc[p] = "pause" => file = Line(p)

\* No increment of lockmain is lost, even when its owner is killed.
SeqnoIsExact ==
  seqno = FoldFunction(LAMBDA left, sum : sum + nloop - left, 0, loop)

\* Nobody waits for ever: no lock can be lost, since it goes with its owner.
AllEnded == prog # "onedaemon" => \A p \in Procs : pc[p] \in Ended \cup {"off"}
EverybodyEnds == <>AllEnded
=============================================================================
