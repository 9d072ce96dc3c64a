------------------------------- MODULE MqNotify -------------------------------
(***************************************************************************)
(* The programs of pxmsg that are notified when a message arrives on an    *)
(* empty POSIX queue: mqnotifysigl (works in the signal handler),          *)
(* mqnotifysigl2 and 3 (handler sets a flag, sigsuspend), mqnotifysigl4    *)
(* (sigwait), mqnotifysigl5 (handler writes to a pipe, select), and        *)
(* mqnotifythread1, where the notification starts a thread.                *)
(*                                                                         *)
(* One behaviour runs one of them, prog, against senders (mqsend) and      *)
(* other readers of the queue (mqreceive).  The queue, the                 *)
(* registration of mq_notify and the delivery of SIGUSR1 belong to the     *)
(* kernel and are modelled as POSIX describes them.                        *)
(***************************************************************************)
EXTENDS Naturals

CONSTANTS
  Programs,   \* the programs that may be running
  MaxMsg,     \* capacity of the queue
  MaxSends    \* number of messages sent after the program has registered

AllPrograms == {"sigl", "sigl2", "sigl3", "sigl4", "sigl5", "thread1"}

ASSUME MqAssumption ==
  /\ Programs \subseteq AllPrograms
  /\ MaxMsg \in Nat \ {0}
  /\ MaxSends \in Nat

VARIABLES
  prog,
  qlen,        \* messages in the queue
  sends,       \* messages the senders may still send
  registered,  \* the program is registered for notification
  pending,     \* SIGUSR1, or the start of a thread, is pending for it
  blocked,     \* SIGUSR1 is in its signal mask
  mqflag,
  pipe,        \* bytes in the pipe of mqnotifysigl5
  failed,      \* Mq_notify called err_sys
  pc,          \* of the process, for mqnotifythread1 of its newest thread
  fresh,       \* threads of mqnotifythread1 in their loop, and those of them
  spinning     \* whose errno is EAGAIN

signals == <<registered, pending, blocked>>
threads == <<fresh, spinning>>
vars == <<prog, threads, qlen, sends, signals, mqflag, pipe, failed, pc>>

\* Where each program waits, and goes back to once it has read its messages.
LoopStart ==
  CASE prog \in {"sigl", "thread1"} -> "pause"
    [] prog \in {"sigl2", "sigl3"} -> "l_block"
    [] prog = "sigl4" -> "sigwait"
    [] prog = "sigl5" -> "select"
AfterRead == IF prog \in {"sigl2", "sigl3"} THEN "l_unblock" ELSE LoopStart

\* The program has just registered; others may already have sent messages.
Init ==
  /\ prog \in Programs
  /\ qlen \in 0..MaxMsg
  /\ sends = MaxSends
  /\ registered = TRUE
  /\ pending = FALSE
  /\ blocked = (prog = "sigl4")
  /\ mqflag = FALSE
  /\ pipe = 0
  /\ failed = FALSE
  /\ pc = LoopStart
  /\ fresh = 0 /\ spinning = 0

-----------------------------------------------------------------------------
(* The queue: mq_send and mq_receive of other processes                     *)

\* A message goes to a reader that is blocked in mq_receive; otherwise, if it
\* finds the queue empty, it uses up the registration and raises the signal.
Send ==
  /\ sends > 0
  /\ qlen < MaxMsg
  /\ sends' = sends - 1
  /\ IF pc = "recv_blocked"
     THEN pc' = AfterRead /\ UNCHANGED <<qlen, signals>>
     ELSE /\ qlen' = qlen + 1
          /\ IF qlen = 0 /\ registered
             THEN registered' = FALSE /\ pending' = TRUE /\ UNCHANGED blocked
             ELSE UNCHANGED signals
          /\ UNCHANGED pc
  /\ UNCHANGED <<prog, threads, mqflag, pipe, failed>>

\* mqreceive without -n waits at an empty queue, and whatever comes next may go
\* to it: the notified program then hears nothing and stays registered.
SendToWaiter ==
  /\ sends > 0
  /\ qlen = 0
  /\ sends' = sends - 1
  /\ UNCHANGED <<prog, threads, qlen, signals, mqflag, pipe, failed, pc>>

OtherReceive ==
  /\ qlen > 0
  /\ qlen' = qlen - 1
  /\ UNCHANGED <<prog, threads, sends, signals, mqflag, pipe, failed, pc>>

-----------------------------------------------------------------------------
(* Delivery of SIGUSR1 to the three handlers                                *)

\* sigsuspend(&zeromask) runs with no signal blocked; a handler runs with its
\* own signal blocked.
Deliverable ==
  /\ pending
  /\ \/ prog = "sigl" /\ pc = "pause"
     \/ prog \in {"sigl2", "sigl3"} /\ (~blocked \/ pc = "suspended")
     \/ prog = "sigl5"

\* sig_usr1 of mqnotifysigl interrupts pause and starts with Mq_notify.
HandlerRuns ==
  /\ Deliverable /\ prog = "sigl"
  /\ pending' = FALSE
  /\ pc' = "notify"
  /\ UNCHANGED <<prog, threads, qlen, sends, registered, blocked, mqflag, pipe, failed>>

\* sig_usr1 of mqnotifysigl2 and 3; sigsuspend returns after the handler.
HandlerSetsFlag ==
  /\ Deliverable /\ prog \in {"sigl2", "sigl3"}
  /\ pending' = FALSE
  /\ mqflag' = TRUE
  /\ pc' = IF pc = "suspended" THEN "l_test" ELSE pc
  /\ UNCHANGED <<prog, threads, qlen, sends, registered, blocked, pipe, failed>>

\* sig_usr1 of mqnotifysigl5; Select starts again when it is interrupted.
HandlerWritesPipe ==
  /\ Deliverable /\ prog = "sigl5"
  /\ pending' = FALSE
  /\ pipe' = pipe + 1
  /\ UNCHANGED <<prog, threads, qlen, sends, registered, blocked, mqflag, failed, pc>>

-----------------------------------------------------------------------------
(* The threads of mqnotifythread1                                           *)

\* The notification starts notify_thread, which begins with Mq_notify.
ThreadStarts ==
  /\ pending /\ prog = "thread1" /\ pc = "pause"
  /\ pending' = FALSE
  /\ pc' = "notify"
  /\ UNCHANGED <<prog, threads, qlen, sends, registered, blocked, mqflag, pipe, failed>>

\* The loop goes on at a message and at -1, so an empty queue makes it spin ...
ThreadReads ==
  /\ pc # "exit"
  /\ fresh + spinning > 0
  /\ qlen > 0
  /\ qlen' = qlen - 1
  /\ UNCHANGED <<prog, threads, sends, signals, mqflag, pipe, failed, pc>>

ThreadSpins ==
  /\ pc # "exit"
  /\ fresh > 0
  /\ qlen = 0
  /\ fresh' = fresh - 1
  /\ spinning' = spinning + 1
  /\ UNCHANGED <<prog, qlen, sends, signals, mqflag, pipe, failed, pc>>

\* ... and it ends only at an empty message: the thread returns if its errno
\* is EAGAIN, and ends the process otherwise.
ThreadReadsEmpty ==
  /\ pc # "exit"
  /\ qlen > 0
  /\ qlen' = qlen - 1
  /\ \/ spinning > 0 /\ spinning' = spinning - 1 /\ UNCHANGED <<fresh, registered, pc>>
     \/ fresh > 0 /\ pc' = "exit" /\ registered' = FALSE /\ UNCHANGED threads
  /\ UNCHANGED <<prog, sends, pending, blocked, mqflag, pipe, failed>>

-----------------------------------------------------------------------------
(* The main loops                                                           *)

Step(from, to) ==
  pc = from /\ pc' = to /\ UNCHANGED <<prog, threads, sends, pipe, failed>>

\* Mutant: the mask of mqnotifysigl2 everywhere.
NewmaskIsEmpty == FALSE

\* newmask holds SIGUSR1 in mqnotifysigl3; in mqnotifysigl2 nobody added it.
NewmaskHasUsr1 == prog = "sigl3"

BlockUsr1 ==
  /\ Step("l_block", "l_test")
  /\ blocked' = (blocked \/ NewmaskHasUsr1)
  /\ UNCHANGED <<qlen, registered, pending, mqflag>>

TestFlag ==
  /\ Step("l_test", IF mqflag THEN "l_reset" ELSE "l_suspend")
  /\ UNCHANGED <<qlen, signals, mqflag>>

Suspend == Step("l_suspend", "suspended") /\ UNCHANGED <<qlen, signals, mqflag>>

ResetFlag ==
  /\ Step("l_reset", "notify")
  /\ mqflag' = FALSE
  /\ UNCHANGED <<qlen, signals>>

UnblockUsr1 ==
  /\ Step("l_unblock", "l_block")
  /\ blocked' = (blocked /\ ~NewmaskHasUsr1)
  /\ UNCHANGED <<qlen, registered, pending, mqflag>>

\* Sigwait of mqnotifysigl4 takes the pending signal.
Sigwait ==
  /\ pending
  /\ Step("sigwait", "notify")
  /\ pending' = FALSE
  /\ UNCHANGED <<qlen, registered, blocked, mqflag>>

\* Select and FD_ISSET, then Read of one byte.
SelectReturns ==
  /\ pipe > 0
  /\ Step("select", "read")
  /\ UNCHANGED <<qlen, signals, mqflag>>

\* Mutant: the byte stays in the pipe.
PeekPipe ==
  /\ pc = "read"
  /\ pipe > 0
  /\ pc' = "notify"
  /\ UNCHANGED <<prog, threads, qlen, sends, signals, mqflag, pipe, failed>>

ReadPipe ==
  /\ pc = "read"
  /\ pipe > 0
  /\ pipe' = pipe - 1
  /\ pc' = "notify"
  /\ UNCHANGED <<prog, threads, qlen, sends, signals, mqflag, failed>>

AfterNotify ==
  CASE prog \in {"sigl", "sigl2"} -> "recv"
    [] prog \in {"sigl3", "sigl4", "sigl5"} -> "drain"
    [] prog = "thread1" -> "pause"

\* Mutant: the program reads without registering again.
ForgetToReregister ==
  /\ pc = "notify"
  /\ pc' = AfterNotify
  /\ UNCHANGED <<prog, threads, qlen, sends, signals, mqflag, pipe, failed>>

\* Mq_notify: fails with EBUSY if the program is still registered, and then
\* the wrapper ends the process.
Reregister ==
  /\ pc = "notify"
  /\ IF registered
     THEN failed' = TRUE /\ pc' = "exit" /\ UNCHANGED <<registered, fresh>>
     ELSE /\ registered' = TRUE
          /\ pc' = AfterNotify
          /\ fresh' = fresh + (IF prog = "thread1" THEN 1 ELSE 0)
          /\ UNCHANGED failed
  /\ UNCHANGED <<prog, spinning, qlen, sends, pending, blocked, mqflag, pipe>>

\* mqnotifysigl and 2 read one message and block if there is none ...
ReceiveOne ==
  /\ qlen > 0
  /\ Step("recv", AfterRead)
  /\ qlen' = qlen - 1
  /\ UNCHANGED <<signals, mqflag>>

ReceiveBlocks ==
  /\ qlen = 0
  /\ Step("recv", "recv_blocked")
  /\ UNCHANGED <<qlen, signals, mqflag>>

\* Mutant: one message for each notification.
DrainOnlyOne ==
  /\ qlen > 0
  /\ Step("drain", AfterRead)
  /\ qlen' = qlen - 1
  /\ UNCHANGED <<signals, mqflag>>

\* ... the others read until mq_receive fails with EAGAIN.
DrainOne ==
  /\ qlen > 0
  /\ Step("drain", "drain")
  /\ qlen' = qlen - 1
  /\ UNCHANGED <<signals, mqflag>>

DrainEnds ==
  /\ qlen = 0
  /\ Step("drain", AfterRead)
  /\ UNCHANGED <<qlen, signals, mqflag>>

Handlers == HandlerRuns \/ HandlerSetsFlag \/ HandlerWritesPipe \/ ThreadStarts
Loop ==
  \/ BlockUsr1 \/ TestFlag \/ Suspend \/ ResetFlag \/ UnblockUsr1
  \/ Sigwait \/ SelectReturns \/ ReadPipe
  \/ Reregister \/ ReceiveOne \/ ReceiveBlocks \/ DrainOne \/ DrainEnds

Threads == ThreadReads \/ ThreadSpins

Next == Send \/ SendToWaiter \/ OtherReceive \/ Handlers \/ Loop \/ Threads \/ ThreadReadsEmpty

Spec == Init /\ [][Next]_vars

\* The program is scheduled and its signals are delivered; nobody has to send,
\* least of all an empty message, and nobody else has to read.
FairSpec == Spec /\ WF_vars(Handlers) /\ WF_vars(Loop) /\ WF_vars(Threads)

-----------------------------------------------------------------------------
(* Properties                                                               *)

TypeOK ==
  /\ prog \in Programs
  /\ qlen \in 0..MaxMsg
  /\ sends \in 0..MaxSends
  /\ registered \in BOOLEAN /\ pending \in BOOLEAN /\ blocked \in BOOLEAN
  /\ mqflag \in BOOLEAN
  /\ pipe \in 0..1
  /\ failed \in BOOLEAN
  /\ pc \in {"pause", "l_block", "l_test", "l_suspend", "suspended", "l_reset",
             "l_unblock", "sigwait", "select", "read", "notify", "recv",
             "recv_blocked", "drain", "exit"}
  /\ fresh \in Nat /\ spinning \in Nat

\* The registration is never lost and never doubled: the program is registered,
\* or exactly one trace of the notification that used it up is on its way
\* (signal, flag, byte in the pipe, or the program about to register again).
OneNotification ==
  LET Holds(p) == IF p THEN 1 ELSE 0
  IN pc # "exit" =>
       Holds(registered) + Holds(pending) + Holds(mqflag) + pipe
         + Holds(pc = "notify") = 1

\* No program is ended by Mq_notify finding it registered already.
NeverBusy == ~failed

\* The sigsuspend loop never goes to sleep, or stays asleep, after the
\* handler has run: what blocking SIGUSR1 around the test is for.
AwakeWhenFlagged == pc = "suspended" => ~mqflag
AwakeWhenFlaggedBut2 == prog # "sigl2" => AwakeWhenFlagged

\* The programs that read until EAGAIN, and the spinning threads, leave no
\* message behind: once the queue has been empty, it becomes empty again
\* whatever was sent meanwhile.  (One that was not empty at registration
\* raises no signal until somebody else has emptied it.)
QueueIsDrained ==
  prog \in {"sigl3", "sigl4", "sigl5", "thread1"} =>
    [](qlen = 0 => []<>(qlen = 0 \/ pc = "exit"))
=============================================================================
