--------------------------- MODULE MqNotify_proofs ---------------------------
(***************************************************************************)
(* Theorems about MqNotify, for any capacity of the queue, any number of   *)
(* messages and any set of the programs.                                   *)
(*                                                                         *)
(* OneNotification is almost inductive.  It needs to know that the flag is *)
(* set where it is about to be reset, and that the process ends only as    *)
(* mqnotifythread1 does.  AwakeWhenFlaggedBut2 rests on the signal mask:   *)
(* mqnotifysigl3 has SIGUSR1 blocked from the test to sigsuspend.          *)
(***************************************************************************)
EXTENDS MqNotify, TLAPS

\* OneNotification without arithmetic: exactly one trace of the notification.
ExactlyOne(a, b, c, d, e) ==
  /\ a \/ b \/ c \/ d \/ e
  /\ a => ~b /\ ~c /\ ~d /\ ~e
  /\ b => ~c /\ ~d /\ ~e
  /\ c => ~d /\ ~e
  /\ d => ~e
OneTrace ==
  pc # "exit" => ExactlyOne(registered, pending, mqflag, pipe = 1, pc = "notify")

\* Only the two programs with a flag have these places.
FlagPlaces == {"l_block", "l_test", "l_suspend", "suspended", "l_reset", "l_unblock"}
Places ==
  /\ pc \in FlagPlaces => prog \in {"sigl2", "sigl3"}
  /\ pc = "l_reset" => mqflag
  /\ pc = "exit" \/ fresh > 0 => prog = "thread1"

\* mqnotifysigl3 tests the flag, and goes to sleep, with SIGUSR1 blocked.
Masked ==
  prog = "sigl3" =>
    /\ pc \in {"l_test", "l_suspend", "suspended"} => blocked
    /\ pc \in {"l_suspend", "suspended"} => ~mqflag

IInv == TypeOK /\ OneTrace /\ Places /\ Masked /\ ~failed

-----------------------------------------------------------------------------
\* A sum of zeros and ones is one exactly if one of them is one.
LEMMA SumOfOne ==
  ASSUME NEW a \in BOOLEAN, NEW b \in BOOLEAN, NEW c \in BOOLEAN, NEW p \in 0..1,
         NEW e \in BOOLEAN, ExactlyOne(a, b, c, p = 1, e)
  PROVE  (IF a THEN 1 ELSE 0) + (IF b THEN 1 ELSE 0) + (IF c THEN 1 ELSE 0) + p
           + (IF e THEN 1 ELSE 0) = 1
<1> DEFINE v(x) == IF x THEN 1 ELSE 0
<1> SUFFICES v(a) + v(b) + v(c) + p + v(e) = 1
  OBVIOUS
<1>0. p = 0 \/ p = 1
  OBVIOUS
<1>1. ASSUME a PROVE v(a) + v(b) + v(c) + p + v(e) = 1
  <2>1. ~b /\ ~c /\ ~(p = 1) /\ ~e
    BY <1>1 DEF ExactlyOne
  <2>2. v(a) = 1 /\ v(b) = 0 /\ v(c) = 0 /\ v(e) = 0 /\ p = 0
    BY <1>0, <1>1, <2>1
  <2> HIDE DEF v
  <2> QED BY <2>2
<1>2. ASSUME b PROVE v(a) + v(b) + v(c) + p + v(e) = 1
  <2>1. ~a /\ ~c /\ ~(p = 1) /\ ~e
    BY <1>2 DEF ExactlyOne
  <2>2. v(a) = 0 /\ v(b) = 1 /\ v(c) = 0 /\ v(e) = 0 /\ p = 0
    BY <1>0, <1>2, <2>1
  <2> HIDE DEF v
  <2> QED BY <2>2
<1>3. ASSUME c PROVE v(a) + v(b) + v(c) + p + v(e) = 1
  <2>1. ~a /\ ~b /\ ~(p = 1) /\ ~e
    BY <1>3 DEF ExactlyOne
  <2>2. v(a) = 0 /\ v(b) = 0 /\ v(c) = 1 /\ v(e) = 0 /\ p = 0
    BY <1>0, <1>3, <2>1
  <2> HIDE DEF v
  <2> QED BY <2>2
<1>4. ASSUME p = 1 PROVE v(a) + v(b) + v(c) + p + v(e) = 1
  <2>1. ~a /\ ~b /\ ~c /\ ~e
    BY <1>4 DEF ExactlyOne
  <2>2. v(a) = 0 /\ v(b) = 0 /\ v(c) = 0 /\ v(e) = 0
    BY <2>1
  <2> HIDE DEF v
  <2> QED BY <1>4, <2>2
<1>5. ASSUME e PROVE v(a) + v(b) + v(c) + p + v(e) = 1
  <2>1. ~a /\ ~b /\ ~c /\ ~(p = 1)
    BY <1>5 DEF ExactlyOne
  <2>2. v(a) = 0 /\ v(b) = 0 /\ v(c) = 0 /\ v(e) = 1 /\ p = 0
    BY <1>0, <1>5, <2>1
  <2> HIDE DEF v
  <2> QED BY <2>2
<1> HIDE DEF v
<1> QED BY <1>1, <1>2, <1>3, <1>4, <1>5 DEF ExactlyOne

\* Where the loops begin and where reading ends: never at the end of the
\* process or about to register, and at a flag place only where there is a flag.
WaitPlaces == {"pause", "l_block", "l_unblock", "sigwait", "select"}
LEMMA LoopPlaces ==
  ASSUME prog \in AllPrograms
  PROVE  /\ LoopStart \in WaitPlaces /\ AfterRead \in WaitPlaces
         /\ LoopStart \in FlagPlaces => prog \in {"sigl2", "sigl3"}
         /\ AfterRead \in FlagPlaces => prog \in {"sigl2", "sigl3"}
         /\ AfterNotify \in {"recv", "drain", "pause"}
<1>1. CASE prog \in {"sigl", "thread1"}
  BY <1>1 DEF LoopStart, AfterRead, AfterNotify, WaitPlaces, FlagPlaces
<1>2. CASE prog \in {"sigl2", "sigl3"}
  BY <1>2 DEF LoopStart, AfterRead, AfterNotify, WaitPlaces, FlagPlaces
<1>3. CASE prog = "sigl4"
  BY <1>3 DEF LoopStart, AfterRead, AfterNotify, WaitPlaces, FlagPlaces
<1>4. CASE prog = "sigl5"
  BY <1>4 DEF LoopStart, AfterRead, AfterNotify, WaitPlaces, FlagPlaces
<1> QED BY <1>1, <1>2, <1>3, <1>4 DEF AllPrograms

\* The initial state: registered, with nothing on its way.
LEMMA InitInv == Init => IInv
<1> SUFFICES ASSUME Init PROVE IInv
  OBVIOUS
<1>0. prog \in AllPrograms
  BY MqAssumption DEF Init
<1>1. /\ LoopStart \in WaitPlaces
      /\ LoopStart \in FlagPlaces => prog \in {"sigl2", "sigl3"}
  BY <1>0, LoopPlaces
<1>b. blocked \in BOOLEAN
  BY Zenon DEF Init
<1>2. TypeOK
  <2>1. prog \in Programs /\ pc = LoopStart /\ qlen \in 0..MaxMsg /\ sends = MaxSends
    BY Zenon DEF Init
  <2>2. /\ registered = TRUE /\ pending = FALSE /\ mqflag = FALSE /\ failed = FALSE
        /\ pipe = 0 /\ fresh = 0 /\ spinning = 0
    BY Zenon DEF Init
  <2>3. /\ prog \in Programs /\ qlen \in 0..MaxMsg /\ sends \in 0..MaxSends
        /\ pipe \in 0..1 /\ fresh \in Nat /\ spinning \in Nat
    BY <2>1, <2>2, MqAssumption
  <2>4. /\ registered \in BOOLEAN /\ pending \in BOOLEAN /\ mqflag \in BOOLEAN
        /\ failed \in BOOLEAN
    BY <2>2
  <2>5. pc \in WaitPlaces
    BY <1>1, <2>1
  <2> QED BY <1>b, <2>3, <2>4, <2>5 DEF TypeOK, WaitPlaces
<1>3. OneTrace
  BY <1>1 DEF Init, OneTrace, ExactlyOne, WaitPlaces
<1>4. Places /\ Masked /\ ~failed
  BY <1>1 DEF Init, Places, Masked, WaitPlaces
<1> QED BY <1>2, <1>3, <1>4 DEF IInv

\* Every step of the program, the kernel and the other processes keeps IInv.
LEMMA StepInv == IInv /\ [Next]_vars => IInv'
<1> SUFFICES ASSUME IInv, [Next]_vars PROVE IInv'
  OBVIOUS
<1> USE DEF IInv, TypeOK, OneTrace, Places, Masked
<1>a. prog \in AllPrograms
  BY MqAssumption
<1>p. /\ LoopStart \in WaitPlaces /\ AfterRead \in WaitPlaces
      /\ LoopStart \in FlagPlaces => prog \in {"sigl2", "sigl3"}
      /\ AfterRead \in FlagPlaces => prog \in {"sigl2", "sigl3"}
      /\ AfterNotify \in {"recv", "drain", "pause"}
  BY <1>a, LoopPlaces
<1>1. CASE Send
  <2>1. CASE pc = "recv_blocked"
    BY <1>1, <2>1, <1>p, MqAssumption DEF Send, threads, signals, WaitPlaces, ExactlyOne
  <2>2. CASE pc # "recv_blocked" /\ qlen = 0 /\ registered
    <3>1. qlen' \in 0..MaxMsg /\ sends' \in 0..MaxSends
      BY <1>1, <2>2, MqAssumption DEF Send
    <3>2. /\ registered' = FALSE /\ pending' = TRUE
          /\ UNCHANGED <<prog, threads, blocked, mqflag, pipe, failed, pc>>
      BY <1>1, <2>2 DEF Send
    <3> QED BY <2>2, <3>1, <3>2 DEF threads, ExactlyOne
  <2>3. CASE pc # "recv_blocked" /\ ~(qlen = 0 /\ registered)
    BY <1>1, <2>3, MqAssumption DEF Send, threads, signals, ExactlyOne
  <2> QED BY <2>1, <2>2, <2>3
<1>2. CASE OtherReceive
  BY <1>2, MqAssumption DEF OtherReceive, threads, signals
<1>3. CASE HandlerRuns
  BY <1>3 DEF HandlerRuns, Deliverable, threads, ExactlyOne, FlagPlaces
<1>4. CASE HandlerSetsFlag
  <2>1. CASE pc = "suspended"
    BY <1>4, <2>1 DEF HandlerSetsFlag, Deliverable, threads, ExactlyOne, FlagPlaces
  <2>2. CASE pc # "suspended"
    BY <1>4, <2>2 DEF HandlerSetsFlag, Deliverable, threads, ExactlyOne
  <2> QED BY <2>1, <2>2
<1>5. CASE HandlerWritesPipe
  <2>1. pipe = 0 /\ pending /\ prog = "sigl5" /\ pc # "exit"
    BY <1>5 DEF HandlerWritesPipe, Deliverable, ExactlyOne
  <2>2. /\ pipe' = 1 /\ pending' = FALSE
        /\ UNCHANGED <<prog, threads, qlen, sends, registered, blocked, mqflag, failed, pc>>
    BY <1>5, <2>1 DEF HandlerWritesPipe
  <2>u. /\ prog' = prog /\ fresh' = fresh /\ spinning' = spinning /\ qlen' = qlen
        /\ sends' = sends /\ registered' = registered /\ blocked' = blocked
        /\ mqflag' = mqflag /\ failed' = failed /\ pc' = pc
    BY <2>2 DEF threads
  <2>3. TypeOK'
    <3>1. pipe' \in 0..1
      <4> HIDE DEF IInv
      <4> QED BY <2>2
    <3>2. pending' \in BOOLEAN
      BY <2>2, Zenon
    <3> QED BY <2>u, <3>1, <3>2, Zenon
  <2>4. OneTrace' /\ Places' /\ Masked' /\ ~failed'
    BY <2>1, <2>2 DEF threads, ExactlyOne
  <2> QED BY <2>3, <2>4
<1>6. CASE ThreadStarts
  BY <1>6 DEF ThreadStarts, threads, ExactlyOne, FlagPlaces
<1>7. CASE BlockUsr1
  BY <1>7 DEF BlockUsr1, Step, NewmaskHasUsr1, threads, FlagPlaces, ExactlyOne
<1>8. CASE TestFlag
  BY <1>8 DEF TestFlag, Step, threads, signals, FlagPlaces, ExactlyOne
<1>9. CASE Suspend
  BY <1>9 DEF Suspend, Step, threads, signals, FlagPlaces, ExactlyOne
<1>10. CASE ResetFlag
  BY <1>10 DEF ResetFlag, Step, threads, signals, FlagPlaces, ExactlyOne
<1>11. CASE UnblockUsr1
  BY <1>11 DEF UnblockUsr1, Step, NewmaskHasUsr1, threads, FlagPlaces, ExactlyOne
<1>12. CASE Sigwait
  BY <1>12 DEF Sigwait, Step, threads, FlagPlaces, ExactlyOne
<1>13. CASE SelectReturns
  BY <1>13 DEF SelectReturns, Step, threads, signals, FlagPlaces, ExactlyOne
<1>14. CASE ReadPipe
  BY <1>14 DEF ReadPipe, threads, signals, FlagPlaces, ExactlyOne
<1>15. CASE Reregister
  <2>1. pc = "notify" /\ ~registered
    BY <1>15 DEF Reregister, ExactlyOne
  <2>2. fresh' \in Nat /\ (fresh' > 0 => prog = "thread1")
    <3>1. CASE prog = "thread1"
      BY <1>15, <2>1, <3>1 DEF Reregister
    <3>2. CASE prog # "thread1"
      BY <1>15, <2>1, <3>2 DEF Reregister
    <3> QED BY <3>1, <3>2
  <2>3. /\ registered' = TRUE /\ pc' = AfterNotify
        /\ UNCHANGED <<failed, prog, spinning, qlen, sends, pending, blocked, mqflag, pipe>>
    BY <1>15, <2>1 DEF Reregister
  <2> QED BY <2>1, <2>2, <2>3, <1>p DEF FlagPlaces, ExactlyOne
<1>16. CASE ReceiveOne
  BY <1>16, <1>p, MqAssumption DEF ReceiveOne, Step, threads, signals, WaitPlaces, ExactlyOne
<1>17. CASE ReceiveBlocks
  BY <1>17 DEF ReceiveBlocks, Step, threads, signals, FlagPlaces, ExactlyOne
<1>18. CASE DrainOne
  BY <1>18, MqAssumption DEF DrainOne, Step, threads, signals
<1>19. CASE DrainEnds
  BY <1>19, <1>p DEF DrainEnds, Step, threads, signals, WaitPlaces, ExactlyOne
<1>20. CASE ThreadReads
  BY <1>20, MqAssumption DEF ThreadReads, threads, signals
<1>21. CASE ThreadSpins
  BY <1>21 DEF ThreadSpins, signals
<1>22. CASE ThreadReadsEmpty
  <2>0. pc # "exit" /\ qlen' \in 0..MaxMsg /\ UNCHANGED <<prog, sends, pending, blocked, mqflag, pipe, failed>>
    BY <1>22, MqAssumption DEF ThreadReadsEmpty
  <2>1. CASE spinning > 0 /\ spinning' = spinning - 1 /\ UNCHANGED <<fresh, registered, pc>>
    BY <2>0, <2>1 DEF ExactlyOne
  <2>2. CASE fresh > 0 /\ pc' = "exit" /\ registered' = FALSE /\ UNCHANGED threads
    BY <2>0, <2>2 DEF threads, FlagPlaces
  <2> QED BY <1>22, <2>1, <2>2 DEF ThreadReadsEmpty
<1>23. CASE SendToWaiter
  BY <1>23, MqAssumption DEF SendToWaiter, threads, signals
<1>24. CASE UNCHANGED vars
  BY <1>24 DEF vars, threads, signals
<1> QED
  BY <1>1, <1>2, <1>3, <1>4, <1>5, <1>6, <1>7, <1>8, <1>9, <1>10, <1>11, <1>12, <1>13,
     <1>14, <1>15, <1>16, <1>17, <1>18, <1>19, <1>20, <1>21, <1>22, <1>23, <1>24
     DEF Next, Handlers, Loop, Threads

-----------------------------------------------------------------------------
\* IInv holds in every state of every program.
LEMMA AlwaysIInv == Spec => []IInv
  BY InitInv, StepInv, PTL DEF Spec

\* The queue, the pipe and the places stay in range: the pipe of mqnotifysigl5
\* never holds more than one byte, however the signals come.
THEOREM TypeCorrect == Spec => []TypeOK
<1>1. IInv => TypeOK
  BY DEF IInv
<1> QED BY <1>1, AlwaysIInv, PTL

\* The registration of mq_notify is neither lost nor doubled in any of the
\* programs, wherever the signal arrives in their loops.
THEOREM NotificationIsKept == Spec => []OneNotification
<1>1. ASSUME IInv, pc # "exit"
      PROVE  (IF registered THEN 1 ELSE 0) + (IF pending THEN 1 ELSE 0)
               + (IF mqflag THEN 1 ELSE 0) + pipe + (IF pc = "notify" THEN 1 ELSE 0) = 1
  <2>1. /\ registered \in BOOLEAN /\ pending \in BOOLEAN /\ mqflag \in BOOLEAN
        /\ pipe \in 0..1 /\ (pc = "notify") \in BOOLEAN
        /\ ExactlyOne(registered, pending, mqflag, pipe = 1, pc = "notify")
    BY <1>1, Zenon DEF IInv, TypeOK, OneTrace
  <2> DEFINE notifying == pc = "notify"
  <2>2. notifying \in BOOLEAN /\ ExactlyOne(registered, pending, mqflag, pipe = 1, notifying)
    BY <2>1
  <2> HIDE DEF notifying
  <2>3. (IF registered THEN 1 ELSE 0) + (IF pending THEN 1 ELSE 0)
          + (IF mqflag THEN 1 ELSE 0) + pipe + (IF notifying THEN 1 ELSE 0) = 1
    BY <2>1, <2>2, SumOfOne
  <2> QED BY <2>3 DEF notifying
<1>2. IInv => OneNotification
  BY <1>1, Zenon DEF OneNotification
<1> QED BY <1>2, AlwaysIInv, PTL

\* Mq_notify never finds the registration still in place and ends the process.
THEOREM RegistersWhenFree == Spec => []NeverBusy
<1>1. IInv => NeverBusy
  BY DEF IInv, NeverBusy
<1> QED BY <1>1, AlwaysIInv, PTL

\* Of the two programs that sleep in sigsuspend, mqnotifysigl3 never sleeps
\* with its flag set.
THEOREM MaskKeepsAwake == Spec => []AwakeWhenFlaggedBut2
<1>1. ASSUME IInv PROVE AwakeWhenFlaggedBut2
  BY <1>1 DEF IInv, Places, FlagPlaces, Masked, AwakeWhenFlaggedBut2, AwakeWhenFlagged
<1> QED BY <1>1, AlwaysIInv, PTL
=============================================================================
