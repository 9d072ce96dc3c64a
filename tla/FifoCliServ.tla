----------------------------- MODULE FifoCliServ -----------------------------
(***************************************************************************)
(* fifocliserv: an iterative server reads requests from a well-known FIFO  *)
(* and answers each client through that client's own FIFO.                 *)
(*                                                                         *)
(* open blocks until the other side has opened the FIFO too, a write with  *)
(* no reader kills the writer (SIGPIPE), a read sees end of file when the  *)
(* last writer is gone.  The well-known FIFO carries tokens: the request   *)
(* of client c is c itself, then Newline.  A file is FileLen blocks, an    *)
(* error message is one.                                                   *)
(*                                                                         *)
(* Clients and server can be killed, and the server can be started again:  *)
(* it goes on with the FIFO it finds, in which requests may be waiting as  *)
(* long as a client has it open.  A server whose Read of the file fails    *)
(* (a directory, say) ends in err_sys, which leaves what a kill leaves.    *)
(***************************************************************************)
EXTENDS Integers, Sequences, FiniteSets

CONSTANTS
  Clients,
  None,      \* no client
  Newline, Junk,  \* tokens of the well-known FIFO besides the clients
  Kinds,     \* the kinds of client that may run
  Odd,       \* clients that may send something odd: no newline, no blank, no FIFO
  MayCrash,  \* clients that may be killed
  MaxRuns,   \* how often the server may be started
  MAXLINE,   \* size of the buffer of readline, in tokens
  FileLen,
  PipeCap    \* blocks that fit into a FIFO

AllKinds == {"file", "missing", "part", "bogus", "nofifo"}

ASSUME FifoAssumption ==
  /\ IsFiniteSet(Clients)
  /\ Clients \cap {None, Newline, Junk} = {} /\ Newline # Junk
  /\ Kinds \subseteq AllKinds
  /\ Odd \subseteq Clients
  /\ MayCrash \subseteq Clients
  /\ MaxRuns \in Nat
  /\ MAXLINE \in Nat \ {0, 1, 2}  \* fgets of mainclient leaves no longer a line
  /\ FileLen \in Nat \ {0}
  /\ PipeCap \in Nat \ {0}

VARIABLES
  kind,      \* what each client asks for
  cpc,
  fifo,      \* clients whose own FIFO exists in the file system
  replies,   \* blocks in each client's FIFO
  got,       \* blocks each client has read
  servfifo,  \* TRUE if the well-known FIFO exists
  stream,    \* its content
  dummyfd,   \* TRUE once the server has it open for writing
  spc,
  line,      \* tokens readline has stored
  target,    \* client whose FIFO the server opens or writes to
  left,      \* blocks the server has still to write
  writing,   \* clients whose FIFO the server has open
  runs,      \* how often the server was started
  cut        \* clients in whose answer a server died

clientVars == <<kind, fifo, got>>
serverVars == <<dummyfd, line, target, left, writing>>
history == <<runs, cut>>
vars == <<clientVars, cpc, replies, servfifo, stream, serverVars, spc, history>>

\* Two of the kinds are no mainclient but somebody who writes a line to the
\* FIFO: with no blank in it, or with a pid that has no FIFO.
IsClient(c) == kind[c] \notin {"bogus", "nofifo"}

Request(c) ==
  CASE kind[c] \in {"file", "missing", "nofifo"} -> <<c, Newline>>
    [] kind[c] = "part" -> <<c>>  \* the input had no newline
    [] kind[c] = "bogus" -> <<Junk, Newline>>

Init ==
  /\ kind \in [Clients -> Kinds]
  /\ \A c \in Clients \ Odd : kind[c] \in {"file", "missing"}
  /\ cpc = [c \in Clients |-> "mkfifo"]
  /\ fifo = {}
  /\ replies = [c \in Clients |-> 0]
  /\ got = [c \in Clients |-> 0]
  /\ servfifo \in BOOLEAN
  /\ stream = <<>>
  /\ dummyfd = FALSE
  /\ spc = "off"
  /\ line = <<>>
  /\ target = None
  /\ left = 0
  /\ writing = {}
  /\ runs = 0 /\ cut = {}

ServerReads == spc \notin {"off", "dead", "ended"}

\* Clients keep the well-known FIFO open to their end.  What is in it is lost
\* when nobody has it open.
Writers == {c \in Clients : cpc[c] \in {"write", "open_own", "read"}}
StreamWithout(c) == IF ServerReads \/ Writers \ {c} # {} THEN stream ELSE <<>>

-----------------------------------------------------------------------------
(* mainclient                                                               *)

ClientStep(c, from, to) ==
  cpc[c] = from /\ cpc' = [cpc EXCEPT ![c] = to] /\ UNCHANGED history

\* Open fails, and the wrapper ends the client, if there is no such FIFO.
ClientMkfifo(c) ==
  /\ ClientStep(c, "mkfifo", IF servfifo THEN "open_serv" ELSE "failed")
  /\ fifo' = IF IsClient(c) THEN fifo \cup {c} ELSE fifo
  /\ UNCHANGED <<kind, got, replies, servfifo, stream, serverVars, spc>>

\* Opening for writing lets a server go on that waits to open for reading.
ClientOpenServ(c) ==
  /\ ServerReads
  /\ ClientStep(c, "open_serv", "write")
  /\ spc' = IF spc = "open_read" THEN "open_dummy" ELSE spc
  /\ UNCHANGED <<clientVars, replies, servfifo, stream, serverVars>>

\* One write of the whole line, which the FIFO keeps together.
ClientWrite(c) ==
  /\ IF ServerReads
     THEN /\ ClientStep(c, "write", IF IsClient(c) THEN "open_own" ELSE "exit")
          /\ stream' = stream \o Request(c)
     ELSE ClientStep(c, "write", "crashed") /\ stream' = StreamWithout(c)
  /\ UNCHANGED <<clientVars, replies, servfifo, serverVars, spc>>

ClientRead(c) ==
  /\ replies[c] > 0
  /\ ClientStep(c, "read", "read")
  /\ replies' = [replies EXCEPT ![c] = @ - 1]
  /\ got' = [got EXCEPT ![c] = @ + 1]
  /\ UNCHANGED <<kind, fifo, servfifo, stream, serverVars, spc>>

\* Mutant: the client takes an empty FIFO for the end of the answer.
ClientUnlinkEarly(c) ==
  /\ replies[c] = 0
  /\ ClientStep(c, "read", "exit")
  /\ fifo' = fifo \ {c}
  /\ stream' = StreamWithout(c)
  /\ UNCHANGED <<kind, got, replies, servfifo, serverVars, spc>>

\* End of file, then Close and Unlink.
ClientUnlink(c) ==
  /\ replies[c] = 0
  /\ c \notin writing
  /\ ClientStep(c, "read", "exit")
  /\ fifo' = fifo \ {c}
  /\ stream' = StreamWithout(c)
  /\ UNCHANGED <<kind, got, replies, servfifo, serverVars, spc>>

\* The client is killed; its FIFO stays in the file system, what is in it is lost.
ClientCrash(c) ==
  /\ c \in MayCrash
  /\ cpc[c] \notin {"exit", "failed", "crashed"}
  /\ cpc' = [cpc EXCEPT ![c] = "crashed"]
  /\ replies' = [replies EXCEPT ![c] = 0]
  /\ stream' = StreamWithout(c)
  /\ UNCHANGED <<clientVars, servfifo, serverVars, spc, history>>

-----------------------------------------------------------------------------
(* mainserver                                                               *)

ServerStep(from, to) == spc = from /\ spc' = to /\ UNCHANGED history

\* mkfifo, which may find an old FIFO, then open for reading, which waits for a
\* client to have it open for writing; those that were waiting go on too.
ServerOpens(from) ==
  LET waiting == {c \in Clients : cpc[c] = "open_serv"}
  IN /\ spc = from /\ runs < MaxRuns
     /\ runs' = runs + 1
     /\ spc' = IF waiting \cup Writers = {} THEN "open_read" ELSE "open_dummy"
     /\ servfifo' = TRUE
     /\ cpc' = [c \in Clients |-> IF c \in waiting THEN "write" ELSE cpc[c]]
     /\ UNCHANGED <<clientVars, replies, stream, serverVars, cut>>

ServerStart == ServerOpens("off")
ServerRestart == ServerOpens("dead")

\* The server ends.  readline reads ahead, so that what is lost with it is its
\* line and some of what is in the FIFO.
ServerDies ==
  /\ spc' = "dead"
  /\ \E k \in 0..Len(stream) :
       stream' = IF Writers = {} THEN <<>> ELSE SubSeq(stream, k + 1, Len(stream))
  /\ dummyfd' = FALSE /\ line' = <<>> /\ target' = None /\ left' = 0 /\ writing' = {}
  /\ cut' = cut \cup writing
  /\ UNCHANGED <<clientVars, cpc, replies, servfifo, runs>>

\* The last run is not killed.
ServerCrash == ServerReads /\ runs < MaxRuns /\ ServerDies

\* Mutant: the server does without its trick.
NoDummy ==
  /\ ServerStep("open_dummy", "readline")
  /\ UNCHANGED <<clientVars, cpc, replies, servfifo, stream, serverVars>>

\* "only for not end-of-line from read": the server is a writer itself.
ServerOpenDummy ==
  /\ ServerStep("open_dummy", "readline")
  /\ dummyfd' = TRUE
  /\ UNCHANGED <<clientVars, cpc, replies, servfifo, stream, line, target, left, writing>>

\* Mutant: a buffer one token too small for the line.
LineEndsOneMore(token) == token = Newline \/ Len(line) + 1 = MAXLINE

\* readline stores up to a newline or a full buffer.
LineEnds(token) == token = Newline \/ Len(line) + 1 = MAXLINE - 1

\* A read waits for data as long as somebody has the FIFO open for writing.
HasWriter == dummyfd \/ Writers # {}

\* readline takes a token; at end of file it returns what it has, and the loop
\* of main ends if that is nothing.
Readline ==
  /\ stream = <<>> => ~HasWriter
  /\ IF stream = <<>>
     THEN /\ ServerStep("readline", IF line = <<>> THEN "ended" ELSE "request")
          /\ UNCHANGED <<line, stream>>
     ELSE /\ ServerStep("readline", IF LineEnds(Head(stream)) THEN "request" ELSE "readline")
          /\ line' = Append(line, Head(stream))
          /\ stream' = Tail(stream)
  /\ UNCHANGED <<clientVars, cpc, replies, servfifo, dummyfd, target, left, writing>>

\* Look for pid and pathname.
ServerRequest ==
  /\ spc = "request"
  /\ IF line[1] \in Clients
     THEN /\ ServerStep("request", "open_reply")
          /\ target' = line[1]
          /\ UNCHANGED line
     ELSE /\ ServerStep("request", "readline")
          /\ line' = <<>>
          /\ UNCHANGED target
  /\ UNCHANGED <<clientVars, cpc, replies, servfifo, stream, dummyfd, left, writing>>

ServerNoFifo ==
  /\ target \notin fifo
  /\ ServerStep("open_reply", "readline")
  /\ line' = <<>>
  /\ target' = None
  /\ UNCHANGED <<clientVars, cpc, replies, servfifo, stream, dummyfd, left, writing>>

\* Server and client both wait in open until the other one is there.
OpenReply ==
  /\ spc = "open_reply" /\ target \in fifo
  /\ ClientStep(target, "open_own", "read")
  /\ ServerStep("open_reply", "open_file")
  /\ writing' = writing \cup {target}
  /\ UNCHANGED <<clientVars, replies, servfifo, stream, dummyfd, line, target, left>>

\* The pathname is what follows the pid in the line.
ServerOpenFile ==
  /\ ServerStep("open_file", "copy")
  /\ left' = IF line = <<target, Newline>> /\ kind[target] = "file" THEN FileLen ELSE 1
  /\ UNCHANGED <<clientVars, cpc, replies, servfifo, stream, dummyfd, line, target, writing>>

\* The write kills the server if the client is gone.
ServerWrite ==
  /\ spc = "copy" /\ left > 0
  /\ IF cpc[target] = "read"
     THEN /\ replies[target] < PipeCap
          /\ ServerStep("copy", "copy")
          /\ replies' = [replies EXCEPT ![target] = @ + 1]
          /\ left' = left - 1
          /\ UNCHANGED <<clientVars, cpc, servfifo, stream, dummyfd, line, target, writing>>
     ELSE ServerDies

\* Mutants: the next line is read behind the last one; the FIFO is not closed
\* after the error message.
ServerCloseKeepsLine ==
  /\ left = 0
  /\ ServerStep("copy", "readline")
  /\ writing' = writing \ {target}
  /\ target' = None
  /\ UNCHANGED <<clientVars, cpc, replies, servfifo, stream, dummyfd, left, line>>

ServerCloseFileOnly ==
  /\ left = 0
  /\ ServerStep("copy", "readline")
  /\ writing' = IF kind[target] = "file" THEN writing \ {target} ELSE writing
  /\ line' = <<>>
  /\ target' = None
  /\ UNCHANGED <<clientVars, cpc, replies, servfifo, stream, dummyfd, left>>

ServerClose ==
  /\ left = 0
  /\ ServerStep("copy", "readline")
  /\ writing' = writing \ {target}
  /\ line' = <<>>
  /\ target' = None
  /\ UNCHANGED <<clientVars, cpc, replies, servfifo, stream, dummyfd, left>>

Client(c) ==
  \/ ClientMkfifo(c) \/ ClientOpenServ(c) \/ ClientWrite(c)
  \/ ClientRead(c) \/ ClientUnlink(c)
Server ==
  \/ ServerStart \/ ServerOpenDummy \/ Readline
  \/ ServerRequest \/ ServerNoFifo \/ OpenReply \/ ServerOpenFile
  \/ ServerWrite \/ ServerClose

Next ==
  \/ \E c \in Clients : Client(c) \/ ClientCrash(c)
  \/ Server \/ ServerRestart \/ ServerCrash

Spec == Init /\ [][Next]_vars

\* Both sides are scheduled; nobody has to be killed or started again.
FairSpec == Spec /\ (\A c \in Clients : WF_vars(Client(c))) /\ WF_vars(Server)

-----------------------------------------------------------------------------
(* Properties                                                               *)

TypeOK ==
  /\ kind \in [Clients -> Kinds]
  /\ cpc \in [Clients -> {"mkfifo", "open_serv", "write", "open_own", "read",
                          "exit", "failed", "crashed"}]
  /\ fifo \subseteq Clients
  /\ replies \in [Clients -> 0..PipeCap]
  /\ got \in [Clients -> 0..FileLen]
  /\ servfifo \in BOOLEAN /\ dummyfd \in BOOLEAN
  /\ \A k \in 1..Len(stream) : stream[k] \in Clients \cup {Newline, Junk}
  /\ spc \in {"off", "open_read", "open_dummy", "readline", "request", "open_reply",
              "open_file", "copy", "dead", "ended"}
  /\ Len(line) < MAXLINE
  /\ target \in Clients \cup {None}
  /\ left \in 0..FileLen
  /\ writing \subseteq Clients
  /\ runs \in 0..MaxRuns /\ cut \subseteq Clients

\* The server never sees end of file on the well-known FIFO, however many
\* clients come and go, and in whatever state they die.  It can still die of
\* SIGPIPE in an answer, or fail in Read or Write.
NoEndOfFile == spc # "ended"

\* A client that ends has got its whole file, or the one error message its
\* request deserves: never a part, unless the server died in the middle of it,
\* and never more or the answer to another request, also when requests were run
\* together, other clients died or the server was started again.
OneAnswer ==
  \A c \in Clients :
    cpc[c] = "exit" /\ IsClient(c) =>
      LET whole == IF kind[c] = "file" THEN FileLen ELSE 1
      IN got[c] <= whole /\ (got[c] = whole \/ c \in cut)

\* The server waits in open only for a client that has asked and is on its way
\* to open its FIFO; nobody but a client that died there can stop it for good.
WaitsForTheCaller ==
  spc = "open_reply" /\ target \in fifo => cpc[target] \in {"open_own", "crashed"}

\* If no client dies and every request ends in a newline, every client that
\* comes to the FIFO of a server that goes on living is served and ends, also
\* when that server took over the FIFO of one that was killed.
ServedUnlessDisturbed ==
  (\A c \in Clients : kind[c] # "part") /\ [](\A c \in Clients : cpc[c] # "crashed") =>
    \A c \in Clients :
      [](cpc[c] = "open_serv" /\ [](spc # "dead") => <>(cpc[c] = "exit"))
=============================================================================
