------------------------------ MODULE RtSignals ------------------------------
(***************************************************************************)
(* rtsignals1: the parent sends Values signals of each of three real-time  *)
(* signal numbers to its child, which blocks them, installs handlers with  *)
(* Signal_rt, sleeps, and unblocks them.                                   *)
(*                                                                         *)
(* Only the calls of sleep put the two in step, so that here either can be *)
(* as slow as it likes.  The kernel queues what is blocked, delivers the   *)
(* lowest number first, and does not interrupt the handler of a signal by  *)
(* a signal of the same number.                                            *)
(***************************************************************************)
EXTENDS Integers, Sequences, Functions

CONSTANT Values  \* signals sent of each number

\* Checked of the constant by MCPrograms.
SignalsAssumption == Values \in Nat \ {0}

VARIABLES
  parent,    \* place of the parent
  signo, j,  \* the signal the parent sends next; signo 2 is SIGRTMAX
  child,     \* place of the child
  blocked,   \* signals the child has blocked
  handled,   \* signals the child has a handler for
  pending,   \* values queued for each signal number
  running,   \* handlers that have begun, the innermost first
  printed,   \* values sig_rt has printed for each number
  early,     \* a signal was sent before the child had blocked it
  inTime     \* all signals had been sent when the child unblocked them

sending == <<parent, signo, j, early>>
receiving == <<handled, printed, inTime>>
vars == <<sending, receiving, child, blocked, pending, running>>

Signos == 0..2

Init ==
  /\ parent = "send" /\ signo = 2 /\ j = 0
  /\ child = "block" /\ blocked = {} /\ handled = {}
  /\ pending = [s \in Signos |-> <<>>]
  /\ running = <<>>
  /\ printed = [s \in Signos |-> <<>>]
  /\ early = FALSE /\ inTime = FALSE

ChildEnded == child \in {"exited", "killed"}

-----------------------------------------------------------------------------
(* The parent                                                               *)

\* Sigqueue.  To a child that has ended it does nothing.
Send ==
  /\ parent = "send"
  /\ pending' = IF ChildEnded THEN pending ELSE [pending EXCEPT ![signo] = Append(@, j)]
  /\ early' = (early \/ child = "block")
  /\ IF j + 1 < Values
     THEN j' = j + 1 /\ UNCHANGED <<parent, signo>>
     ELSE /\ j' = 0
          /\ IF signo > 0
             THEN signo' = signo - 1 /\ UNCHANGED parent
             ELSE parent' = "waitpid" /\ UNCHANGED signo
  /\ UNCHANGED <<receiving, child, blocked, running>>

Waitpid ==
  /\ parent = "waitpid" /\ ChildEnded
  /\ parent' = "done"
  /\ UNCHANGED <<signo, j, early, receiving, child, blocked, pending, running>>

-----------------------------------------------------------------------------
(* Delivery                                                                 *)

Deliverable ==
  {s \in Signos : pending[s] # <<>> /\ s \notin blocked /\ \A n \in DOMAIN running : running[n][1] # s}

\* Without a handler the signal ends the child.  A handler may be interrupted
\* by another one.
Deliver(s) ==
  /\ ~ChildEnded
  /\ s \in Deliverable /\ \A t \in Deliverable : s <= t
  /\ pending' = [pending EXCEPT ![s] = Tail(@)]
  /\ IF s \in handled
     THEN running' = <<<<s, Head(pending[s])>>>> \o running /\ UNCHANGED child
     ELSE child' = "killed" /\ UNCHANGED running
  /\ UNCHANGED <<sending, receiving, blocked>>

\* sig_rt prints the value and returns.
Handler ==
  /\ ~ChildEnded /\ running # <<>>
  /\ LET s == Head(running)[1] IN printed' = [printed EXCEPT ![s] = Append(@, Head(running)[2])]
  /\ running' = Tail(running)
  /\ UNCHANGED <<sending, handled, inTime, child, blocked, pending>>

-----------------------------------------------------------------------------
(* The child                                                                *)

Step(from, to) ==
  /\ child = from /\ running = <<>>
  /\ child' = to
  /\ UNCHANGED <<sending, pending, running, printed>>

\* Mutant: SIGRTMAX is left out of newset.
BlockTwo ==
  /\ Step("block", "signal")
  /\ blocked' = Signos \ {2}
  /\ UNCHANGED <<handled, inTime>>

Block ==
  /\ Step("block", "signal")
  /\ blocked' = Signos
  /\ UNCHANGED <<handled, inTime>>

\* Signal_rt, for SIGRTMAX first.
SignalRt(s) ==
  /\ handled = s + 1 .. 2
  /\ Step("signal", IF s = 0 THEN "sleep6" ELSE "signal")
  /\ handled' = handled \cup {s}
  /\ UNCHANGED <<blocked, inTime>>

\* The first sleep is not interrupted: everything that has a handler is blocked.
Unblock ==
  /\ Step("sleep6", "sleep3")
  /\ blocked' = {}
  /\ inTime' = (parent # "send")
  /\ UNCHANGED handled

\* The second sleep ends early when a handler has run; what is pending is
\* delivered before it returns.
Wake ==
  /\ Deliverable = {}
  /\ Step("sleep3", "exit")
  /\ UNCHANGED <<blocked, handled, inTime>>

Exit ==
  /\ Step("exit", "exited")
  /\ UNCHANGED <<blocked, handled, inTime>>

Next ==
  \/ Send \/ Waitpid
  \/ \E s \in Signos : Deliver(s)
  \/ Handler
  \/ Block \/ (\E s \in Signos : SignalRt(s)) \/ Unblock \/ Wake \/ Exit

Spec == Init /\ [][Next]_vars

\* As long as parent, child or kernel can take a step, they do.
Fairness == WF_vars(Next)
FairSpec == Spec /\ Fairness

-----------------------------------------------------------------------------
(* Properties                                                               *)

TypeOK ==
  /\ parent \in {"send", "waitpid", "done"}
  /\ signo \in Signos /\ j \in 0..Values-1
  /\ child \in {"block", "signal", "sleep6", "sleep3", "exit", "exited", "killed"}
  /\ blocked \subseteq Signos /\ handled \subseteq Signos
  /\ pending \in [Signos -> Seq(0..Values-1)]
  /\ running \in Seq(Signos \X (0..Values-1))
  /\ printed \in [Signos -> Seq(0..Values-1)]
  /\ early \in BOOLEAN /\ inTime \in BOOLEAN

\* The child is killed only by a signal sent before it had blocked the signals;
\* for each number it prints the values in the order in which they were sent,
\* none twice, although handlers interrupt one another; and it has printed all
\* of them when it exits if the sleeps did their work.
SignalsAreKept ==
  /\ child = "killed" => early
  /\ \A s \in Signos : printed[s] = [n \in DOMAIN printed[s] |-> n - 1]
  /\ child = "exited" /\ inTime => \A s \in Signos : Len(printed[s]) = Values

\* Parent and child end.
AllEnded == parent = "done"
EverybodyEnds == <>AllEnded
=============================================================================
