------------------------------ MODULE PipePair ------------------------------
(***************************************************************************)
(* The programs with a parent and a child and two one-way channels between *)
(* them: FIFOs with names (fifo/client, beside which fifo/server may run)  *)
(* or pipes (pipe/mainpipe, pipe/fduplex, pipe).                           *)
(*                                                                         *)
(* A process holds ends of channels.  To open an end of a FIFO is to wait  *)
(* for somebody who has the other one; a read waits for data while         *)
(* somebody can write, and is then at end of file; a write with no reader  *)
(* kills the writer.  What passes is numbered blocks: a file is FileLen of *)
(* them, the error message is block 0.                                     *)
(*                                                                         *)
(* Nobody is killed from outside, and Read of the file does not fail.      *)
(***************************************************************************)
EXTENDS Integers, Sequences, FiniteSets

CONSTANTS
  Programs,
  FileLen,
  PipeCap  \* blocks a channel holds

\* "stream" is pipe/fduplex on a system whose pipes go both ways.
AllPrograms == {"fifo", "mainpipe", "pipe", "fduplex", "stream"}

ASSUME PipeAssumption ==
  /\ Programs \subseteq AllPrograms
  /\ FileLen \in Nat \ {0}
  /\ PipeCap \in Nat \ {0}

Procs == {"parent", "child", "server"}  \* "server" is the program fifo/server
Channels == {1, 2}
R(k) == <<"r", k>>
W(k) == <<"w", k>>
Ends == {R(k) : k \in Channels} \cup {W(k) : k \in Channels}

VARIABLES
  prog,
  empty,   \* TRUE if the line typed to the client is empty
  names,   \* FIFOs that have a name in the file system
  fds,     \* ends each process holds, or has asked open for
  data,    \* blocks in each channel
  pc,
  left,    \* blocks a process has still to write
  got      \* blocks a process has read and printed

vars == <<prog, empty, names, fds, data, pc, left, got>>

\* fork gives the child both ends of all pipes.
Pipes ==
  CASE prog = "fifo" -> {}
    [] prog \in {"pipe", "fduplex"} -> {R(1), W(1)}
    [] prog \in {"mainpipe", "stream"} -> Ends

FirstPlace ==
  CASE prog = "fifo" -> [parent |-> "mkfifo", child |-> "off", server |-> "off"]
    [] prog \in {"mainpipe", "pipe"} -> [parent |-> "close", child |-> "close", server |-> "off"]
    [] prog \in {"fduplex", "stream"} -> [parent |-> "say", child |-> "hear", server |-> "off"]

Init ==
  /\ prog \in Programs
  /\ empty \in BOOLEAN
  /\ names \in (IF prog = "fifo" THEN SUBSET Channels ELSE {{}})
  /\ fds = [p \in Procs |-> IF p = "server" THEN {} ELSE Pipes]
  /\ data = [k \in Channels |-> <<>>]
  /\ pc = FirstPlace
  /\ left = [p \in Procs |-> 0]
  /\ got = [p \in Procs |-> <<>>]

HasReader(k) == \E p \in Procs : R(k) \in fds[p]
HasWriter(k) == \E p \in Procs : W(k) \in fds[p]

\* Descriptors are closed; what is in a channel nobody has open is gone.
CloseEnds(p, ends) ==
  /\ fds' = [fds EXCEPT ![p] = @ \ ends]
  /\ data' = [k \in Channels |->
                IF \A q \in Procs : {R(k), W(k)} \cap fds[q] \subseteq (IF q = p THEN ends ELSE {})
                THEN <<>> ELSE data[k]]

Goto(p, to) == pc' = [pc EXCEPT ![p] = to]
Ended == {"exit", "dead"}

\* exit, or the end of a process in err_sys, err_quit or by SIGPIPE.
End(p, how) == Goto(p, how) /\ CloseEnds(p, Ends)

\* Write of one block on channel k.  The wrapper ends the process if the
\* descriptor is not open, SIGPIPE if nobody reads.
PutBlock(p, k, block, to) ==
  IF W(k) \in fds[p] /\ HasReader(k)
  THEN /\ Len(data[k]) < PipeCap
       /\ data' = [data EXCEPT ![k] = Append(@, block)]
       /\ Goto(p, to)
       /\ UNCHANGED fds
  ELSE End(p, "dead")

\* Read of one block.
GetBlock(p, k, to) ==
  /\ R(k) \in fds[p]
  /\ data[k] # <<>>
  /\ data' = [data EXCEPT ![k] = Tail(@)]
  /\ Goto(p, to)
  /\ UNCHANGED fds

AtEof(p, k) == R(k) \in fds[p] /\ data[k] = <<>> /\ ~HasWriter(k)

-----------------------------------------------------------------------------
(* fifo/client and fifo/server: the FIFOs                                   *)

\* mkfifo takes what is there already; then fork.
ParentStart ==
  /\ pc["parent"] = "mkfifo"
  /\ names' = Channels
  /\ pc' = [pc EXCEPT !["parent"] = "open1", !["child"] = "open1"]
  /\ UNCHANGED <<prog, empty, fds, data, left, got>>

\* Somebody starts fifo/server as well.
ServerStart ==
  /\ prog = "fifo" /\ pc["server"] = "off"
  /\ names' = Channels
  /\ Goto("server", "open1")
  /\ UNCHANGED <<prog, empty, fds, data, left, got>>

\* Mutant: the parent opens its end for reading first.
OpenOrderReadFirst(p) == IF p = "parent" THEN <<R(2), W(1)>> ELSE <<R(1), W(2)>>

\* The order in which a process opens its ends.
OpenOrder(p) == IF p = "parent" THEN <<W(1), R(2)>> ELSE <<R(1), W(2)>>

AfterOpen(p) ==
  CASE pc[p] = "open1" -> "open2"
    [] pc[p] = "open2" /\ p = "parent" -> "request"
    [] pc[p] = "open2" /\ p # "parent" -> "serve"

\* The end a process at open1 or open2 opens.
Opening(p) == OpenOrder(p)[IF pc[p] = "open1" THEN 1 ELSE 2]
WaitsToOpen(p) == pc[p] \in {"open1", "open2"} /\ Opening(p) \in fds[p]

\* Open: an end counts from the call on.  The call returns when there is an
\* other end, and lets those return who waited for this one.
OpenFifo(p) ==
  /\ pc[p] \in {"open1", "open2"}
  /\ ~WaitsToOpen(p)
  /\ LET end == Opening(p)
         other == IF end[1] = "r" THEN W(end[2]) ELSE R(end[2])
         return == {q \in Procs : WaitsToOpen(q) /\ Opening(q) = other}
                     \cup (IF \E q \in Procs : other \in fds[q] THEN {p} ELSE {})
     IN IF end[2] \in names
        THEN /\ fds' = [fds EXCEPT ![p] = @ \cup {end}]
             /\ pc' = [q \in Procs |-> IF q \in return THEN AfterOpen(q) ELSE pc[q]]
             /\ UNCHANGED data
        ELSE End(p, "dead")
  /\ UNCHANGED <<prog, empty, names, left, got>>

-----------------------------------------------------------------------------
(* client and server                                                        *)

\* mainpipe: each process closes the ends it does not use.  The parent closes
\* pipe1[1], which it does use, for pipe2[1].
CloseUnused(p) ==
  /\ prog = "mainpipe" /\ pc[p] = "close"
  /\ IF p = "child"
     THEN CloseEnds(p, {W(1), R(2)}) /\ Goto(p, "serve")
     ELSE CloseEnds(p, {R(1), W(1)}) /\ Goto(p, "request")
  /\ UNCHANGED <<prog, empty, names, left, got>>

\* The pathname, without its newline.  Of an empty line nothing is written.
Request ==
  /\ pc["parent"] = "request"
  /\ IF empty /\ W(1) \in fds["parent"]
     THEN Goto("parent", "answer") /\ UNCHANGED <<fds, data>>
     ELSE PutBlock("parent", 1, <<"parent", 1>>, "answer")
  /\ UNCHANGED <<prog, empty, names, left, got>>

\* Mutant: if for while.
ReadAnswerOnce ==
  /\ pc["parent"] = "answer"
  /\ \/ /\ GetBlock("parent", 2, "wait")
        /\ got' = [got EXCEPT !["parent"] = Append(@, Head(data[2]))]
     \/ /\ AtEof("parent", 2)
        /\ Goto("parent", "wait")
        /\ UNCHANGED <<fds, data, got>>
  /\ UNCHANGED <<prog, empty, names, left>>

\* Print what comes, up to end of file.
ReadAnswer ==
  /\ pc["parent"] = "answer"
  /\ \/ /\ GetBlock("parent", 2, "answer")
        /\ got' = [got EXCEPT !["parent"] = Append(@, Head(data[2]))]
     \/ /\ AtEof("parent", 2)
        /\ Goto("parent", "wait")
        /\ UNCHANGED <<fds, data, got>>
  /\ UNCHANGED <<prog, empty, names, left>>

\* server: read the pathname, which is not terminated by a null byte, so that
\* the open may fail or not.
Serve(p) ==
  /\ pc[p] = "serve"
  /\ \/ \E file \in BOOLEAN :
          /\ GetBlock(p, 1, IF file THEN "copy" ELSE "complain")
          /\ left' = [left EXCEPT ![p] = IF file THEN FileLen ELSE 0]
     \/ AtEof(p, 1) /\ End(p, "dead") /\ UNCHANGED left
  /\ UNCHANGED <<prog, empty, names, got>>

\* The error message, in one write.
Complain(p) ==
  /\ pc[p] = "complain"
  /\ PutBlock(p, 2, <<p, 0>>, "leave")
  /\ UNCHANGED <<prog, empty, names, left, got>>

\* Mutant: one write more than there are blocks.
CopyOneMore(p) ==
  /\ pc[p] = "copy"
  /\ IF left[p] >= 0
     THEN /\ PutBlock(p, 2, <<p, left[p]>>, "copy")
          /\ left' = [left EXCEPT ![p] = @ - 1]
     ELSE Goto(p, "leave") /\ UNCHANGED <<fds, data, left>>
  /\ UNCHANGED <<prog, empty, names, got>>

\* Copy the file, block by block.
Copy(p) ==
  /\ pc[p] = "copy"
  /\ IF left[p] > 0
     THEN /\ PutBlock(p, 2, <<p, left[p]>>, "copy")
          /\ left' = [left EXCEPT ![p] = @ - 1]
     ELSE Goto(p, "leave") /\ UNCHANGED <<fds, data, left>>
  /\ UNCHANGED <<prog, empty, names, got>>

\* The function returns and its process exits.
Leave(p) ==
  /\ pc[p] = "leave"
  /\ End(p, "exit")
  /\ UNCHANGED <<prog, empty, names, left, got>>

\* "wait for child to terminate", then close and unlink.
ParentWait ==
  /\ pc["parent"] = "wait"
  /\ pc["child"] \in Ended
  /\ IF prog = "fifo"
     THEN Goto("parent", "unlink1") /\ CloseEnds("parent", Ends)
     ELSE End("parent", "exit")
  /\ UNCHANGED <<prog, empty, names, left, got>>

ParentUnlink ==
  /\ pc["parent"] \in {"unlink1", "unlink2"}
  /\ IF pc["parent"] = "unlink1"
     THEN names' = names \ {1} /\ Goto("parent", "unlink2")
     ELSE names' = names \ {2} /\ Goto("parent", "exit")
  /\ UNCHANGED <<prog, empty, fds, data, left, got>>

-----------------------------------------------------------------------------
(* pipe and pipe/fduplex                                                    *)

\* pipe: the child closes the end for writing, the parent the one for reading.
CloseOther(p) ==
  /\ prog = "pipe" /\ pc[p] = "close"
  /\ IF p = "child"
     THEN CloseEnds(p, {W(1)}) /\ Goto(p, "receive") /\ UNCHANGED left
     ELSE /\ CloseEnds(p, {R(1)}) /\ Goto(p, "send")
          /\ left' = [left EXCEPT ![p] = FileLen]
  /\ UNCHANGED <<prog, empty, names, got>>

\* The argument, then close: "reader will see EOF".
Send ==
  /\ pc["parent"] = "send"
  /\ IF left["parent"] > 0
     THEN /\ PutBlock("parent", 1, <<"parent", left["parent"]>>, "send")
          /\ left' = [left EXCEPT !["parent"] = @ - 1]
     ELSE CloseEnds("parent", {W(1)}) /\ Goto("parent", "wait") /\ UNCHANGED left
  /\ UNCHANGED <<prog, empty, names, got>>

Receive ==
  /\ pc["child"] = "receive"
  /\ \/ /\ GetBlock("child", 1, "receive")
        /\ got' = [got EXCEPT !["child"] = Append(@, Head(data[1]))]
     \/ AtEof("child", 1) /\ End("child", "exit") /\ UNCHANGED got
  /\ UNCHANGED <<prog, empty, names, left>>

\* fduplex: a byte from the parent's descriptor to the child's, and one back,
\* if the descriptors go both ways; else the call fails.
Say(p) ==
  /\ pc[p] = "say"
  /\ PutBlock(p, IF p = "parent" THEN 1 ELSE 2, <<p, 1>>, IF p = "parent" THEN "hear" ELSE "leave")
  /\ UNCHANGED <<prog, empty, names, left, got>>

Hear(p) ==
  /\ pc[p] = "hear"
  /\ LET k == IF p = "parent" THEN 2 ELSE 1
     IN IF R(k) \in fds[p]
        THEN /\ GetBlock(p, k, IF p = "parent" THEN "leave" ELSE "say")
             /\ got' = [got EXCEPT ![p] = Append(@, Head(data[k]))]
        ELSE End(p, "dead") /\ UNCHANGED got
  /\ UNCHANGED <<prog, empty, names, left>>

-----------------------------------------------------------------------------
Step(p) ==
  \/ OpenFifo(p) \/ CloseUnused(p) \/ CloseOther(p)
  \/ Serve(p) \/ Complain(p) \/ Copy(p) \/ Leave(p)
  \/ Say(p) \/ Hear(p)

Parent == ParentStart \/ Request \/ ReadAnswer \/ ParentWait \/ ParentUnlink \/ Send

Next == (\E p \in Procs : Step(p)) \/ Parent \/ Receive \/ ServerStart

Spec == Init /\ [][Next]_vars

\* The scheduler runs every process that can run; nobody need start fifo/server.
FairSpec ==
  /\ Spec
  /\ WF_vars(Step("parent") \/ Parent)
  /\ WF_vars(Step("child") \/ Receive)
  /\ WF_vars(Step("server"))

-----------------------------------------------------------------------------
(* Properties                                                               *)

Places == {"off", "mkfifo", "open1", "open2", "close", "request", "answer", "wait",
           "unlink1", "unlink2", "serve", "copy", "complain", "leave", "send",
           "receive", "say", "hear", "exit", "dead"}
Blocks == Procs \X (0..FileLen)

TypeOK ==
  /\ prog \in Programs
  /\ empty \in BOOLEAN
  /\ names \subseteq Channels
  /\ fds \in [Procs -> SUBSET Ends]
  /\ \A k \in Channels : data[k] \in Seq(Blocks) /\ Len(data[k]) <= PipeCap
  /\ pc \in [Procs -> Places]
  /\ left \in [Procs -> 0..FileLen]
  /\ \A p \in Procs : got[p] \in Seq(Blocks)

\* All a server or sender has to say, in order.
Whole(p) == {<<<<p, 0>>>>, [i \in 1..FileLen |-> <<p, FileLen + 1 - i>>]}

\* A client that has read to end of file has the whole answer of one server,
\* also when fifo/server runs besides the child and both read from FIFO1; the
\* child of pipe has the whole argument.  A server that is killed, or whose Read
\* of the file fails, would leave a part; and the parent of mainpipe fails
\* before it reads, so that the property is about fifo and pipe.
AnswerIsWhole ==
  /\ prog \in {"fifo", "mainpipe"} /\ pc["parent"] \in {"wait", "unlink1", "unlink2", "exit"}
       => got["parent"] \in Whole("child") \cup Whole("server")
  /\ prog = "pipe" /\ pc["child"] = "exit" => got["child"] \in Whole("parent")

\* No process waits for ever in open, for data or for end of file, if the line
\* is not empty and fifo/server does not run as well.  The child sees end of
\* file also of the mainpipe parent that fails.
EverybodyEnds ==
  [](pc["server"] = "off") /\ ~(prog = "fifo" /\ empty)
    => <>(pc["parent"] \in Ended /\ pc["child"] \in Ended)
=============================================================================
