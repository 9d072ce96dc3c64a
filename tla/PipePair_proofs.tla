---------------------------- MODULE PipePair_proofs ----------------------------
(***************************************************************************)
(* Theorems about PipePair, for a file of any length and channels of any   *)
(* size: what a reader has when it meets end of file is the whole of what  *)
(* one writer had to say.                                                  *)
(*                                                                         *)
(* End of file means that nobody holds the end for writing.  The argument  *)
(* is therefore about who holds which end (Fifo, Pipe), and that what the  *)
(* reader has together with what is in the channel is a beginning of what  *)
(* one process says (Said).                                                *)
(***************************************************************************)
EXTENDS PipePair, SequenceTheorems, TLAPS

ServingProcs == {"child", "server"}

\* Where the processes of each program can be.
Homes ==
  /\ prog = "fifo" =>
       /\ pc["parent"] \in {"mkfifo", "open1", "open2", "request", "answer", "wait",
                            "unlink1", "unlink2", "exit", "dead"}
       /\ \A p \in ServingProcs : pc[p] \in {"off", "open1", "open2", "serve", "copy",
                                             "complain", "leave", "exit", "dead"}
       /\ pc["parent"] = "mkfifo" => pc["child"] = "off"
  /\ prog # "fifo" => pc["server"] = "off"
  /\ prog = "mainpipe" =>
       /\ pc["parent"] \in {"close", "request", "dead"}
       /\ pc["child"] \in {"close", "serve", "copy", "complain", "leave", "exit", "dead"}
  /\ prog = "pipe" =>
       /\ pc["parent"] \in {"close", "send", "wait", "exit"}
       /\ pc["child"] \in {"close", "receive", "exit"}
  /\ prog \in {"fduplex", "stream"} =>
       \A p \in {"parent", "child"} : pc[p] \in {"say", "hear", "leave", "exit", "dead"}

Types ==
  /\ prog \in Programs
  /\ empty \in BOOLEAN
  /\ names \subseteq Channels
  /\ fds \in [Procs -> SUBSET Ends]
  /\ data \in [Channels -> Seq(Blocks)]
  /\ \A k \in Channels : Len(data[k]) <= PipeCap
  /\ pc \in [Procs -> Places]
  /\ left \in [Procs -> 0..FileLen]
  /\ got \in [Procs -> Seq(Blocks)]

\* The i-th block that p says: of the file, or the error message.
Block(p, file, i) == IF file THEN <<p, FileLen + 1 - i>> ELSE <<p, 0>>

\* What was read, g, and what is in the channel, d, are the first n of them.
Said(p, file, n, g, d) ==
  /\ Len(g) + Len(d) = n
  /\ \A i \in 1..Len(g) : g[i] = Block(p, file, i)
  /\ \A i \in 1..Len(d) : d[i] = Block(p, file, Len(g) + i)

-----------------------------------------------------------------------------
(* The programs with FIFOs                                                  *)

\* The parent opens FIFO1 for writing and FIFO2 for reading, the others the
\* other ends in the same order.
FirstEnd(p) == IF p = "parent" THEN W(1) ELSE R(1)
SecondEnd(p) == IF p = "parent" THEN R(2) ELSE W(2)

OpenPlaces == {"request", "answer", "wait", "serve", "copy", "complain", "leave"}

FifoEnds ==
  \A p \in Procs :
    /\ fds[p] \subseteq {FirstEnd(p), SecondEnd(p)}
    /\ pc[p] \in {"mkfifo", "off", "unlink1", "unlink2", "exit", "dead"} => fds[p] = {}
    /\ pc[p] = "open1" => SecondEnd(p) \notin fds[p]
    /\ pc[p] = "open2" \/ pc[p] \in OpenPlaces => FirstEnd(p) \in fds[p]
    /\ pc[p] \in OpenPlaces => SecondEnd(p) \in fds[p]

\* p has the request.
Answers(p) == p \in ServingProcs /\ pc[p] \in {"copy", "complain", "leave", "exit"}

Progress(p) ==
  /\ pc[p] = "copy" => Said(p, TRUE, FileLen - left[p], got["parent"], data[2])
  /\ pc[p] = "complain" => Said(p, FALSE, 0, got["parent"], data[2])
  /\ pc[p] \in {"leave", "exit"} =>
       \/ Said(p, TRUE, FileLen, got["parent"], data[2])
       \/ Said(p, FALSE, 1, got["parent"], data[2])

\* Until the parent has met end of file: one process at most has the request,
\* and as long as nobody has it somebody holds FIFO2 open for writing.
FifoAsks ==
  /\ data[1] # <<>> => \A p \in Procs : ~Answers(p)
  /\ Len(data[1]) <= 1
  /\ pc["parent"] # "answer" => data[1] = <<>> /\ \A p \in Procs : ~Answers(p)
  /\ (\A p \in Procs : ~Answers(p)) =>
       /\ got["parent"] = <<>> /\ data[2] = <<>>
       /\ pc["parent"] \in {"request", "answer"} => \E p \in Procs : W(2) \in fds[p]
  /\ \A p, q \in Procs : Answers(p) /\ Answers(q) => p = q
  /\ \A p \in Procs : Answers(p) => Progress(p)

Asking == {"mkfifo", "open1", "open2", "request", "answer"}
Asked == {"wait", "unlink1", "unlink2", "exit"}

Fifo ==
  /\ FifoEnds
  /\ pc["parent"] \in Asking => FifoAsks
  /\ pc["parent"] \in Asked
       => got["parent"] \in Whole("child") \cup Whole("server")

-----------------------------------------------------------------------------
(* The programs with pipes                                                  *)

\* The parent of mainpipe has closed the end it needs.
Mainpipe == pc["parent"] = "request" => W(1) \notin fds["parent"]

Pipe ==
  /\ pc["parent"] = "close" => fds["parent"] = {R(1), W(1)} /\ Said("parent", TRUE, 0, got["child"], data[1])
  /\ pc["parent"] = "send" => fds["parent"] = {W(1)} /\ Said("parent", TRUE, FileLen - left["parent"], got["child"], data[1])
  /\ pc["parent"] \in {"wait", "exit"} =>
       fds["parent"] = {} /\ Said("parent", TRUE, FileLen, got["child"], data[1])
  /\ pc["child"] = "close" => fds["child"] = {R(1), W(1)}
  /\ pc["child"] = "receive" => fds["child"] = {R(1)}
  /\ pc["child"] = "exit" => pc["parent"] \in {"wait", "exit"} /\ data[1] = <<>>

IInv ==
  /\ Types
  /\ Homes
  /\ prog = "fifo" => Fifo
  /\ prog = "mainpipe" => Mainpipe
  /\ prog = "pipe" => Pipe

USE PipeAssumption

-----------------------------------------------------------------------------
(* What has been said                                                       *)

LEMMA SaidNothing ==
  ASSUME NEW p, NEW file
  PROVE  Said(p, file, 0, <<>>, <<>>)
BY DEF Said

\* The next block is written.
LEMMA SaidMore ==
  ASSUME NEW p \in Procs, NEW file \in BOOLEAN, NEW n \in Nat,
         NEW g \in Seq(Blocks), NEW d \in Seq(Blocks), NEW b \in Blocks,
         Said(p, file, n, g, d), b = Block(p, file, n + 1)
  PROVE  Said(p, file, n + 1, g, Append(d, b))
<1> DEFINE e == Append(d, b)
<1>1. /\ e \in Seq(Blocks) /\ Len(e) = Len(d) + 1 /\ e[Len(d) + 1] = b
      /\ \A i \in 1..Len(d) : e[i] = d[i]
  BY AppendProperties
<1>2. Len(g) \in Nat /\ Len(d) \in Nat /\ Len(g) + Len(d) = n
  BY DEF Said
<1> HIDE DEF e
<1>3. ASSUME NEW i \in 1..Len(e) PROVE e[i] = Block(p, file, Len(g) + i)
  <2>1. CASE i \in 1..Len(d)
    BY <1>1, <2>1 DEF Said
  <2>2. CASE i = Len(d) + 1
    <3>1. Len(g) + i = n + 1
      BY <1>2, <2>2
    <3> QED BY <1>1, <2>2, <3>1
  <2>3. i \in 1..Len(d) \/ i = Len(d) + 1
    BY <1>1, <1>2
  <2> QED BY <2>1, <2>2, <2>3
<1>4. Len(g) + Len(e) = n + 1
  BY <1>1, <1>2
<1>5. Said(p, file, n + 1, g, e)
  BY <1>3, <1>4 DEF Said
<1> QED BY <1>5 DEF e

\* The first block in the channel is read.
LEMMA SaidIsRead ==
  ASSUME NEW p, NEW file, NEW n, NEW g \in Seq(Blocks), NEW d \in Seq(Blocks), d # <<>>,
         Said(p, file, n, g, d)
  PROVE  Said(p, file, n, Append(g, Head(d)), Tail(d))
<1> DEFINE h == Append(g, Head(d))  e == Tail(d)
<1>1. /\ Len(d) \in Nat \ {0} /\ Head(d) \in Blocks /\ Head(d) = d[1]
      /\ e \in Seq(Blocks) /\ Len(e) = Len(d) - 1
      /\ \A i \in 1..Len(e) : e[i] = d[i+1]
  BY HeadTailProperties, EmptySeq
<1>2. /\ Len(h) = Len(g) + 1 /\ h[Len(g) + 1] = d[1]
      /\ \A i \in 1..Len(g) : h[i] = g[i]
  BY <1>1, AppendProperties
<1>3. Len(g) \in Nat
  OBVIOUS
<1> HIDE DEF e, h
<1>4. ASSUME NEW i \in 1..Len(h) PROVE h[i] = Block(p, file, i)
  <2>1. CASE i \in 1..Len(g)
    BY <1>2, <2>1 DEF Said
  <2>2. CASE i = Len(g) + 1
    <3>1. 1 \in 1..Len(d)
      BY <1>1
    <3> QED BY <1>2, <2>2, <3>1 DEF Said
  <2>3. i \in 1..Len(g) \/ i = Len(g) + 1
    BY <1>2, <1>3
  <2> QED BY <2>1, <2>2, <2>3
<1>5. ASSUME NEW i \in 1..Len(e) PROVE e[i] = Block(p, file, Len(h) + i)
  <2>1. i + 1 \in 1..Len(d) /\ Len(g) + (i + 1) = Len(h) + i
    BY <1>1, <1>2, <1>3
  <2> QED BY <1>1, <2>1 DEF Said
<1>6. Len(h) + Len(e) = n
  <2>1. Len(g) + Len(d) = n
    BY DEF Said
  <2> QED BY <1>1, <1>2, <1>3, <2>1
<1>7. Said(p, file, n, h, e)
  BY <1>4, <1>5, <1>6 DEF Said
<1> QED BY <1>7 DEF e, h

\* Everything has been said and read.
LEMMA SaidAll ==
  ASSUME NEW p \in Procs, NEW g \in Seq(Blocks),
         Said(p, TRUE, FileLen, g, <<>>) \/ Said(p, FALSE, 1, g, <<>>)
  PROVE  g \in Whole(p)
<1>1. CASE Said(p, TRUE, FileLen, g, <<>>)
  <2>1. Len(g) = FileLen /\ \A i \in 1..FileLen : g[i] = <<p, FileLen + 1 - i>>
    <3>1. Len(g) + Len(<<>>) = FileLen /\ \A i \in 1..Len(g) : g[i] = <<p, FileLen + 1 - i>>
      BY ONLY <1>1 DEF Said, Block
    <3>2. Len(g) = FileLen
      BY ONLY <3>1, g \in Seq(Blocks), PipeAssumption
    <3> QED BY ONLY <3>1, <3>2
  <2>2. g = [i \in 1..Len(g) |-> g[i]]
    OBVIOUS
  <2>3. g = [i \in 1..FileLen |-> <<p, FileLen + 1 - i>>]
    BY <2>1, <2>2
  <2> QED BY <2>3 DEF Whole
<1>2. CASE Said(p, FALSE, 1, g, <<>>)
  <2>1. Len(g) = 1 /\ g[1] = <<p, 0>>
    <3>1. Len(g) + Len(<<>>) = 1 /\ \A i \in 1..Len(g) : g[i] = <<p, 0>>
      BY ONLY <1>2 DEF Said, Block
    <3>2. Len(g) = 1
      BY ONLY <3>1, g \in Seq(Blocks)
    <3> QED BY ONLY <3>1, <3>2
  <2>2. g = [i \in 1..1 |-> g[i]]
    BY <2>1
  <2>3. g = <<<<p, 0>>>>
    BY <2>1, <2>2
  <2> QED BY <2>3 DEF Whole
<1> QED BY <1>1, <1>2

-----------------------------------------------------------------------------
(* What the steps are made of                                               *)

LEMMA EndsDiffer ==
  /\ R(1) # R(2) /\ W(1) # W(2) /\ \A k, l \in Channels : R(k) # W(l)
  /\ \A k \in Channels : R(k) \in Ends /\ W(k) \in Ends
BY DEF R, W, Ends, Channels

LEMMA GotoIs ==
  ASSUME Types, NEW p \in Procs, NEW to \in Places, Goto(p, to)
  PROVE  /\ pc' \in [Procs -> Places] /\ pc'[p] = to
         /\ \A q \in Procs \ {p} : pc'[q] = pc[q]
BY DEF Goto, Types

\* A channel keeps what is in it as long as somebody else holds it.
LEMMA CloseIs ==
  ASSUME Types, NEW p \in Procs, NEW ends, CloseEnds(p, ends)
  PROVE  /\ fds' \in [Procs -> SUBSET Ends] /\ fds'[p] = fds[p] \ ends
         /\ \A q \in Procs \ {p} : fds'[q] = fds[q]
         /\ data' \in [Channels -> Seq(Blocks)]
         /\ \A k \in Channels : Len(data'[k]) <= PipeCap /\ data'[k] \in {data[k], <<>>}
         /\ \A k \in Channels, q \in Procs \ {p} :
              R(k) \in fds[q] \/ W(k) \in fds[q] => data'[k] = data[k]
         /\ \A k \in Channels :
              (R(k) \in fds[p] /\ R(k) \notin ends) \/ (W(k) \in fds[p] /\ W(k) \notin ends)
                => data'[k] = data[k]
<1>1. /\ fds' \in [Procs -> SUBSET Ends] /\ fds'[p] = fds[p] \ ends
      /\ \A q \in Procs \ {p} : fds'[q] = fds[q]
  BY DEF CloseEnds, Types
<1>2. <<>> \in Seq(Blocks) /\ Len(<<>>) = 0
  OBVIOUS
<1>3. ASSUME NEW k \in Channels
      PROVE  /\ data'[k] \in {data[k], <<>>}
             /\ \A q \in Procs \ {p} : R(k) \in fds[q] \/ W(k) \in fds[q] => data'[k] = data[k]
             /\ (R(k) \in fds[p] /\ R(k) \notin ends) \/ (W(k) \in fds[p] /\ W(k) \notin ends)
                  => data'[k] = data[k]
  <2>1. data'[k] = IF \A q \in Procs : {R(k), W(k)} \cap fds[q] \subseteq (IF q = p THEN ends ELSE {})
                   THEN <<>> ELSE data[k]
    BY DEF CloseEnds
  <2> QED BY <2>1
<1>4. data' \in [Channels -> Seq(Blocks)]
  <2>1. data' = [k \in Channels |-> data'[k]]
    BY DEF CloseEnds
  <2>2. \A k \in Channels : data'[k] \in Seq(Blocks)
    BY <1>2, <1>3 DEF Types
  <2> QED BY <2>1, <2>2
<1>5. \A k \in Channels : Len(data'[k]) <= PipeCap
  BY <1>2, <1>3 DEF Types
<1> QED BY <1>1, <1>3, <1>4, <1>5

\* A process ends and has nothing open any more.
LEMMA EndIs ==
  ASSUME Types, NEW p \in Procs, NEW how \in Ended, End(p, how)
  PROVE  /\ pc' \in [Procs -> Places] /\ pc'[p] = how
         /\ \A q \in Procs \ {p} : pc'[q] = pc[q]
         /\ fds' \in [Procs -> SUBSET Ends] /\ fds'[p] = {}
         /\ \A q \in Procs \ {p} : fds'[q] = fds[q]
         /\ data' \in [Channels -> Seq(Blocks)]
         /\ \A k \in Channels : Len(data'[k]) <= PipeCap /\ data'[k] \in {data[k], <<>>}
         /\ \A k \in Channels, q \in Procs \ {p} :
              R(k) \in fds[q] \/ W(k) \in fds[q] => data'[k] = data[k]
<1>1. how \in Places
  BY DEF Ended, Places
<1>2. Goto(p, how) /\ CloseEnds(p, Ends)
  BY DEF End
<1>3. fds[p] \ Ends = {}
  BY DEF Types
<1> QED BY <1>1, <1>2, <1>3, GotoIs, CloseIs

\* Write puts the block into the channel or ends the process.
LEMMA PutIs ==
  ASSUME Types, NEW p \in Procs, NEW k \in Channels, NEW b \in Blocks, NEW to \in Places,
         PutBlock(p, k, b, to)
  PROVE  \/ /\ W(k) \in fds[p] /\ HasReader(k)
            /\ pc' \in [Procs -> Places] /\ pc'[p] = to
            /\ \A q \in Procs \ {p} : pc'[q] = pc[q]
            /\ data' \in [Channels -> Seq(Blocks)]
            /\ \A l \in Channels : Len(data'[l]) <= PipeCap
            /\ data'[k] = Append(data[k], b)
            /\ \A l \in Channels \ {k} : data'[l] = data[l]
            /\ fds' = fds
         \/ /\ W(k) \notin fds[p] \/ ~HasReader(k)
            /\ End(p, "dead")
<1>1. CASE W(k) \in fds[p] /\ HasReader(k)
  <2>1. Len(data[k]) < PipeCap /\ data' = [data EXCEPT ![k] = Append(@, b)] /\ Goto(p, to) /\ fds' = fds
    BY <1>1 DEF PutBlock
  <2>2. data[k] \in Seq(Blocks) /\ Len(data[k]) \in Nat
    BY DEF Types
  <2>3. Append(data[k], b) \in Seq(Blocks) /\ Len(Append(data[k], b)) = Len(data[k]) + 1
    BY <2>2, AppendProperties
  <2>4. data' \in [Channels -> Seq(Blocks)] /\ data'[k] = Append(data[k], b)
        /\ \A l \in Channels \ {k} : data'[l] = data[l]
    BY <2>1, <2>3 DEF Types
  <2>5. \A l \in Channels : Len(data'[l]) <= PipeCap
    <3>1. Len(data'[k]) <= PipeCap
      BY <2>1, <2>2, <2>3, <2>4
    <3> QED BY <2>4, <3>1 DEF Types
  <2> QED BY <1>1, <2>1, <2>4, <2>5, GotoIs
<1>2. CASE ~(W(k) \in fds[p] /\ HasReader(k))
  BY <1>2 DEF PutBlock
<1> QED BY <1>1, <1>2

LEMMA GetIs ==
  ASSUME Types, NEW p \in Procs, NEW k \in Channels, NEW to \in Places, GetBlock(p, k, to)
  PROVE  /\ pc' \in [Procs -> Places] /\ pc'[p] = to
         /\ \A q \in Procs \ {p} : pc'[q] = pc[q]
         /\ data' \in [Channels -> Seq(Blocks)]
         /\ \A l \in Channels : Len(data'[l]) <= PipeCap
         /\ data[k] # <<>> /\ data[k] \in Seq(Blocks) /\ Head(data[k]) \in Blocks
         /\ data'[k] = Tail(data[k]) /\ Len(data'[k]) = Len(data[k]) - 1
         /\ \A l \in Channels \ {k} : data'[l] = data[l]
         /\ fds' = fds
<1>1. data[k] # <<>> /\ data' = [data EXCEPT ![k] = Tail(@)] /\ Goto(p, to) /\ fds' = fds
  BY DEF GetBlock
<1>2. data[k] \in Seq(Blocks) /\ Len(data[k]) \in Nat /\ Len(data[k]) <= PipeCap
  BY DEF Types
<1>3. Head(data[k]) \in Blocks /\ Tail(data[k]) \in Seq(Blocks) /\ Len(Tail(data[k])) = Len(data[k]) - 1
  BY <1>1, <1>2, HeadTailProperties
<1>4. data' \in [Channels -> Seq(Blocks)] /\ data'[k] = Tail(data[k])
      /\ \A l \in Channels \ {k} : data'[l] = data[l]
  BY <1>1, <1>3 DEF Types
<1>5. \A l \in Channels : Len(data'[l]) <= PipeCap
  <2>1. Len(data'[k]) <= PipeCap
    BY <1>2, <1>3, <1>4
  <2> QED BY <1>4, <2>1 DEF Types
<1> QED BY <1>1, <1>2, <1>3, <1>4, <1>5, GotoIs

\* A block that was read is appended to what the process has.
LEMMA GotIs ==
  ASSUME Types, NEW p \in Procs, NEW b \in Blocks, got' = [got EXCEPT ![p] = Append(@, b)]
  PROVE  /\ got' \in [Procs -> Seq(Blocks)] /\ got'[p] = Append(got[p], b)
         /\ \A q \in Procs \ {p} : got'[q] = got[q]
<1>1. got[p] \in Seq(Blocks)
  BY DEF Types
<1>2. Append(got[p], b) \in Seq(Blocks)
  BY <1>1, AppendProperties
<1> QED BY <1>2 DEF Types

LEMMA InitInv == Init => IInv
<1> SUFFICES ASSUME Init PROVE IInv
  OBVIOUS
<1>1. prog \in AllPrograms /\ pc = FirstPlace /\ \A p \in Procs : fds[p] \in {{}, Pipes}
  BY DEF Init
<1>2. Pipes \subseteq Ends /\ (prog = "fifo" => Pipes = {}) /\ (prog = "pipe" => Pipes = {R(1), W(1)})
  BY <1>1, EndsDiffer DEF Pipes, AllPrograms, Channels
<1>3. /\ prog = "fifo" => FirstPlace = [parent |-> "mkfifo", child |-> "off", server |-> "off"]
      /\ prog \in {"mainpipe", "pipe"} => FirstPlace = [parent |-> "close", child |-> "close", server |-> "off"]
      /\ prog \in {"fduplex", "stream"} => FirstPlace = [parent |-> "say", child |-> "hear", server |-> "off"]
  BY <1>1 DEF FirstPlace, AllPrograms
<1>4. /\ FirstPlace \in [Procs -> Places]
      /\ FirstPlace["server"] = "off"
  BY <1>1, <1>3 DEF Procs, Places, AllPrograms
<1>5. <<>> \in Seq(Blocks) /\ Len(<<>>) = 0
  OBVIOUS
<1>6. Types
  <2>1. fds \in [Procs -> SUBSET Ends]
    BY <1>2 DEF Init
  <2> QED BY <1>1, <1>4, <1>5, <2>1 DEF Init, Types
<1>7. Homes
  BY <1>1, <1>3, <1>4 DEF Homes, ServingProcs, Procs
<1>8. got["parent"] = <<>> /\ got["child"] = <<>> /\ data[1] = <<>> /\ data[2] = <<>>
  BY DEF Init, Procs, Channels
<1>9. prog = "fifo" => Fifo
  <2> SUFFICES ASSUME prog = "fifo" PROVE Fifo
    OBVIOUS
  <2>1. pc["parent"] = "mkfifo" /\ pc["child"] = "off" /\ pc["server"] = "off"
    BY <1>1, <1>3
  <2>2. \A p \in Procs : fds[p] = {} /\ pc[p] \in {"mkfifo", "off"} /\ ~Answers(p)
    BY <1>1, <1>2, <2>1 DEF Procs, Answers
  <2>3. FifoEnds
    BY <2>2 DEF FifoEnds, OpenPlaces
  <2>4. FifoAsks
    BY <1>5, <1>8, <2>1, <2>2 DEF FifoAsks
  <2> QED BY <2>1, <2>3, <2>4 DEF Fifo, Asked
<1>10. prog = "mainpipe" => Mainpipe
  BY <1>1, <1>3 DEF Mainpipe
<1>11. prog = "pipe" => Pipe
  <2> SUFFICES ASSUME prog = "pipe" PROVE Pipe
    OBVIOUS
  <2>1. pc["parent"] = "close" /\ pc["child"] = "close"
    BY <1>1, <1>3
  <2>2. fds["parent"] = {R(1), W(1)} /\ fds["child"] = {R(1), W(1)}
    BY <1>2 DEF Init, Procs
  <2>3. Said("parent", TRUE, 0, got["child"], data[1])
    BY <1>8, SaidNothing
  <2> QED BY <2>1, <2>2, <2>3 DEF Pipe
<1> QED BY <1>6, <1>7, <1>9, <1>10, <1>11 DEF IInv

-----------------------------------------------------------------------------
(* fifo/client and fifo/server                                              *)

LEMMA FirstSecond ==
  \A p \in Procs : FirstEnd(p) # SecondEnd(p) /\ FirstEnd(p) \in Ends /\ SecondEnd(p) \in Ends
BY EndsDiffer DEF FirstEnd, SecondEnd, Channels

\* One process moves on with what it has open, or ends.
LEMMA EndsStay ==
  ASSUME FifoEnds, NEW p \in Procs,
         \A q \in Procs \ {p} : pc'[q] = pc[q] /\ fds'[q] = fds[q],
         \/ fds'[p] = fds[p] /\ pc[p] \in OpenPlaces /\ pc'[p] \in OpenPlaces
         \/ fds'[p] = {} /\ pc'[p] \in {"unlink1", "unlink2", "exit", "dead"}
  PROVE  FifoEnds'
<1>1. ASSUME NEW q \in Procs
      PROVE  /\ fds'[q] \subseteq {FirstEnd(q), SecondEnd(q)}
             /\ pc'[q] \in {"mkfifo", "off", "unlink1", "unlink2", "exit", "dead"} => fds'[q] = {}
             /\ pc'[q] = "open1" => SecondEnd(q) \notin fds'[q]
             /\ pc'[q] = "open2" \/ pc'[q] \in OpenPlaces => FirstEnd(q) \in fds'[q]
             /\ pc'[q] \in OpenPlaces => SecondEnd(q) \in fds'[q]
  <2>1. CASE q = p
    BY <2>1 DEF FifoEnds, OpenPlaces
  <2>2. CASE q # p
    BY <2>2 DEF FifoEnds
  <2> QED BY <2>1, <2>2
<1> QED BY <1>1 DEF FifoEnds

\* The parent is where it must be to read an answer, and holds FIFO2 for
\* reading: nothing in it is lost.
LEMMA ParentListens ==
  ASSUME IInv, prog = "fifo", NEW p \in Procs, Answers(p), pc["parent"] \in Asking
  PROVE  /\ FifoAsks /\ pc["parent"] = "answer" /\ data[1] = <<>> /\ Progress(p)
         /\ R(2) \in fds["parent"] /\ W(1) \in fds["parent"]
         /\ \A q \in Procs : Answers(q) => q = p
<1>1. FifoAsks /\ FifoEnds
  BY DEF IInv, Fifo
<1>2. pc["parent"] = "answer" /\ data[1] = <<>> /\ Progress(p) /\ \A q \in Procs : Answers(q) => q = p
  BY <1>1 DEF FifoAsks
<1>3. "parent" \in Procs
  BY DEF Procs
<1> QED BY <1>1, <1>2, <1>3 DEF FifoEnds, OpenPlaces, FirstEnd, SecondEnd

\* A step that is about neither request nor answer.
LEMMA AsksStay ==
  ASSUME FifoAsks, Types,
         got' = got, left' = left, data'[2] = data[2], data'[1] \in {data[1], <<>>},
         \A q \in Procs : Answers(q)' = Answers(q) /\ (Answers(q) => pc'[q] = pc[q]),
         pc'["parent"] = "answer" <=> pc["parent"] = "answer",
         (\A q \in Procs : ~Answers(q)) /\ pc'["parent"] \in {"request", "answer"}
           => \E q \in Procs : W(2) \in fds'[q]
  PROVE  FifoAsks'
<1>1. Len(<<>>) = 0
  OBVIOUS
<1>2. data'[1] # <<>> => \A q \in Procs : ~Answers(q)'
  BY DEF FifoAsks
<1>3. Len(data'[1]) <= 1
  BY <1>1 DEF FifoAsks
<1>4. pc'["parent"] # "answer" => data'[1] = <<>> /\ \A q \in Procs : ~Answers(q)'
  BY DEF FifoAsks
<1>5. (\A q \in Procs : ~Answers(q)') =>
        /\ got'["parent"] = <<>> /\ data'[2] = <<>>
        /\ pc'["parent"] \in {"request", "answer"} => \E q \in Procs : W(2) \in fds'[q]
  BY DEF FifoAsks
<1>6. \A p, q \in Procs : Answers(p)' /\ Answers(q)' => p = q
  BY DEF FifoAsks
<1>7. ASSUME NEW q \in Procs, Answers(q)' PROVE Progress(q)'
  <2>1. Progress(q) /\ pc'[q] = pc[q]
    BY <1>7 DEF FifoAsks
  <2> QED BY <2>1 DEF Progress, Said, Block
<1> QED BY <1>2, <1>3, <1>4, <1>5, <1>6, <1>7 DEF FifoAsks

LEMMA ParentStartInv ==
  ASSUME IInv, ParentStart
  PROVE  IInv'
<1>1. /\ Types /\ Homes /\ pc["parent"] = "mkfifo" /\ names' = Channels
      /\ pc' = [pc EXCEPT !["parent"] = "open1", !["child"] = "open1"]
      /\ UNCHANGED <<prog, empty, fds, data, left, got>>
  BY DEF ParentStart, IInv
<1>2. prog = "fifo"
  BY <1>1 DEF Homes, Types, PipeAssumption, AllPrograms
<1>3. Fifo /\ FifoAsks /\ FifoEnds
  BY <1>1, <1>2 DEF IInv, Fifo, Asking
<1>4. /\ pc' \in [Procs -> Places] /\ pc'["parent"] = "open1" /\ pc'["child"] = "open1"
      /\ pc'["server"] = pc["server"]
  BY <1>1 DEF Types, Procs, Places
<1>5. pc["child"] = "off"
  BY <1>1, <1>2 DEF Homes
<1>6. Types'
  BY <1>1, <1>4 DEF Types
<1>7. Homes'
  BY <1>1, <1>2, <1>4 DEF Homes, ServingProcs
<1>8. FifoEnds'
  <2>1. fds["parent"] = {} /\ fds["child"] = {}
    BY <1>1, <1>3, <1>5 DEF FifoEnds, Procs
  <2> QED BY <1>1, <1>3, <1>4, <2>1 DEF FifoEnds, Procs, OpenPlaces
<1>9. FifoAsks'
  <2>1. \A q \in Procs : Answers(q)' = Answers(q) /\ (Answers(q) => pc'[q] = pc[q])
    BY <1>4, <1>5 DEF Answers, Procs, ServingProcs
  <2> QED BY <1>1, <1>3, <1>4, <2>1, AsksStay
<1>10. Fifo'
  BY <1>4, <1>8, <1>9 DEF Fifo, Asked
<1> QED BY <1>1, <1>2, <1>6, <1>7, <1>10 DEF IInv

LEMMA ServerStartInv ==
  ASSUME IInv, ServerStart
  PROVE  IInv'
<1>1. /\ Types /\ Homes /\ prog = "fifo" /\ pc["server"] = "off" /\ names' = Channels
      /\ Goto("server", "open1") /\ UNCHANGED <<prog, empty, fds, data, left, got>>
      /\ "server" \in Procs /\ "parent" \in Procs /\ "open1" \in Places
  BY DEF ServerStart, IInv, Procs, Places
<1>2. /\ pc' \in [Procs -> Places] /\ pc'["server"] = "open1"
      /\ \A q \in Procs \ {"server"} : pc'[q] = pc[q]
  BY <1>1, GotoIs
<1>3. Types'
  BY <1>1, <1>2 DEF Types
<1>4. Homes'
  BY <1>1, <1>2 DEF Homes, ServingProcs, Procs
<1>5. Fifo /\ FifoEnds /\ pc'["parent"] = pc["parent"]
  BY <1>1, <1>2 DEF IInv, Fifo
<1>6. FifoEnds'
  <2>1. fds["server"] = {}
    BY <1>1, <1>5 DEF FifoEnds
  <2> QED BY <1>1, <1>2, <1>5, <2>1 DEF FifoEnds, OpenPlaces
<1>7. ASSUME pc["parent"] \in Asking PROVE FifoAsks'
  <2>1. FifoAsks
    BY <1>5, <1>7 DEF Fifo
  <2>2. \A q \in Procs : Answers(q)' = Answers(q) /\ (Answers(q) => pc'[q] = pc[q])
    BY <1>1, <1>2 DEF Answers
  <2>3. (\A q \in Procs : ~Answers(q)) /\ pc'["parent"] \in {"request", "answer"}
          => \E q \in Procs : W(2) \in fds'[q]
    BY <1>1, <1>5, <2>1 DEF FifoAsks
  <2> QED BY <1>1, <1>5, <2>1, <2>2, <2>3, AsksStay
<1>8. Fifo'
  BY <1>1, <1>5, <1>6, <1>7 DEF Fifo, Whole
<1> QED BY <1>1, <1>3, <1>4, <1>8 DEF IInv

LEMMA OpeningIs ==
  ASSUME NEW p \in Procs
  PROVE  Opening(p) = IF pc[p] = "open1" THEN FirstEnd(p) ELSE SecondEnd(p)
BY DEF Opening, OpenOrder, FirstEnd, SecondEnd

\* An open counts from the call on, and returns to those who waited for it.  A
\* parent that is let go to its request has met somebody who holds FIFO2 open
\* for writing.
LEMMA OpenFifoInv ==
  ASSUME IInv, NEW p \in Procs, OpenFifo(p)
  PROVE  IInv'
<1> DEFINE end == Opening(p)
           other == IF end[1] = "r" THEN W(end[2]) ELSE R(end[2])
           return == {q \in Procs : WaitsToOpen(q) /\ Opening(q) = other}
                       \cup (IF \E q \in Procs : other \in fds[q] THEN {p} ELSE {})
<1>1. /\ Types /\ Homes /\ pc[p] \in {"open1", "open2"} /\ ~WaitsToOpen(p)
      /\ UNCHANGED <<prog, empty, names, left, got>>
      /\ "parent" \in Procs
  BY DEF OpenFifo, IInv, Procs
<1>2. prog = "fifo"
  <2>1. prog \in AllPrograms /\ p \in {"parent", "child", "server"}
    BY <1>1 DEF Types, Procs
  <2> QED BY <1>1, <2>1 DEF Homes, AllPrograms
<1>3. Fifo /\ FifoEnds
  BY <1>2 DEF IInv, Fifo
<1>4. \/ end = R(1) /\ other = W(1)
      \/ end = R(2) /\ other = W(2)
      \/ end = W(1) /\ other = R(1)
      \/ end = W(2) /\ other = R(2)
  BY OpeningIs DEF FirstEnd, SecondEnd, R, W
<1>5. end \in Ends /\ end = IF pc[p] = "open1" THEN FirstEnd(p) ELSE SecondEnd(p)
  BY <1>4, EndsDiffer, OpeningIs DEF Channels
<1>6. CASE End(p, "dead")
  <2>1. /\ pc' \in [Procs -> Places] /\ pc'[p] = "dead"
        /\ \A q \in Procs \ {p} : pc'[q] = pc[q]
        /\ fds' \in [Procs -> SUBSET Ends] /\ fds'[p] = {}
        /\ \A q \in Procs \ {p} : fds'[q] = fds[q]
        /\ data' \in [Channels -> Seq(Blocks)]
        /\ \A k \in Channels : Len(data'[k]) <= PipeCap /\ data'[k] \in {data[k], <<>>}
        /\ \A k \in Channels, q \in Procs \ {p} :
             R(k) \in fds[q] \/ W(k) \in fds[q] => data'[k] = data[k]
    <3>1. "dead" \in Ended
      BY DEF Ended
    <3> QED BY <1>1, <1>6, <3>1, EndIs
  <2>2. Types'
    BY <1>1, <2>1 DEF Types
  <2>3. Homes'
    BY <1>1, <1>2, <2>1 DEF Homes, ServingProcs, Procs
  <2>4. FifoEnds'
    BY <1>3, <2>1, EndsStay
  <2>5. ASSUME pc'["parent"] \in Asking PROVE FifoAsks'
    <3>1. p # "parent" /\ pc'["parent"] = pc["parent"] /\ FifoAsks
      BY <1>1, <1>3, <2>1, <2>5 DEF Asking, Fifo
    <3>2. 1 \in Channels /\ 2 \in Channels
      BY DEF Channels
    <3>3. data'[2] = data[2]
      <4>1. CASE pc["parent"] = "answer"
        <5>1. R(2) \in fds["parent"]
          BY <1>1, <1>3, <4>1 DEF FifoEnds, OpenPlaces, SecondEnd
        <5> QED BY <1>1, <2>1, <3>1, <3>2, <5>1
      <4>2. CASE pc["parent"] # "answer"
        <5>1. data[2] = <<>>
          BY <3>1, <4>2 DEF FifoAsks
        <5> QED BY <2>1, <3>2, <5>1
      <4> QED BY <4>1, <4>2
    <3>4. \A q \in Procs : Answers(q)' = Answers(q) /\ (Answers(q) => pc'[q] = pc[q])
      BY <1>1, <2>1 DEF Answers
    <3>5. (\A q \in Procs : ~Answers(q)) /\ pc'["parent"] \in {"request", "answer"}
            => \E q \in Procs : W(2) \in fds'[q]
      <4> SUFFICES ASSUME \A q \in Procs : ~Answers(q), pc'["parent"] \in {"request", "answer"}
                   PROVE  \E q \in Procs : W(2) \in fds'[q]
        OBVIOUS
      <4>1. PICK q \in Procs : W(2) \in fds[q]
        BY <3>1 DEF FifoAsks
      <4>2. W(2) \notin fds[p]
        <5>1. FirstEnd(p) # W(2) /\ SecondEnd(p) = W(2)
          BY <3>1, EndsDiffer DEF FirstEnd, SecondEnd, Channels
        <5>2. CASE pc[p] = "open1"
          BY <1>3, <5>1, <5>2 DEF FifoEnds
        <5>3. CASE pc[p] = "open2"
          <6>1. Opening(p) = W(2)
            BY <5>1, <5>3, OpeningIs
          <6> QED BY <1>1, <6>1 DEF WaitsToOpen
        <5> QED BY <1>1, <5>2, <5>3
      <4> QED BY <2>1, <4>1, <4>2
    <3> QED BY <1>1, <2>1, <3>1, <3>2, <3>3, <3>4, <3>5, AsksStay
  <2>6. pc'["parent"] \in Asked => pc'["parent"] = pc["parent"]
    BY <1>1, <2>1 DEF Asked
  <2>7. Fifo'
    BY <1>1, <1>3, <2>4, <2>5, <2>6 DEF Fifo, Whole
  <2> QED BY <1>1, <1>2, <2>2, <2>3, <2>7 DEF IInv
<1>7. CASE ~End(p, "dead")
  <2>1. /\ fds' = [fds EXCEPT ![p] = @ \cup {end}]
        /\ pc' = [q \in Procs |-> IF q \in return THEN AfterOpen(q) ELSE pc[q]]
        /\ data' = data
    BY <1>7 DEF OpenFifo
  <2>2. /\ fds' \in [Procs -> SUBSET Ends] /\ fds'[p] = fds[p] \cup {end}
        /\ \A q \in Procs \ {p} : fds'[q] = fds[q]
    <3> HIDE DEF end
    <3> QED BY <1>1, <1>5, <2>1 DEF Types
  <2>3. ASSUME NEW q \in return
        PROVE  q \in Procs /\ pc[q] \in {"open1", "open2"} /\ Opening(q) \in fds'[q]
    <3>1. CASE q = p
      BY <1>1, <2>2, <3>1
    <3>2. CASE q # p
      <4>1. WaitsToOpen(q) /\ q \in Procs
        BY <2>3, <3>2
      <4> QED BY <2>2, <3>2, <4>1 DEF WaitsToOpen
    <3> QED BY <3>1, <3>2
  <2>4. ASSUME "parent" \in return, pc["parent"] = "open2" PROVE \E q \in Procs : W(2) \in fds'[q]
    <3>1. Opening("parent") = R(2)
      BY <1>1, <2>4, OpeningIs DEF SecondEnd
    <3>2. CASE WaitsToOpen("parent") /\ Opening("parent") = other
      <4>1. end = W(2)
        BY <1>4, <3>1, <3>2, EndsDiffer DEF Channels
      <4> QED BY <2>2, <4>1
    <3>3. CASE p = "parent" /\ \E q \in Procs : other \in fds[q]
      <4>1. other = W(2)
        BY <1>4, <3>1, <3>3, EndsDiffer DEF Channels
      <4>2. PICK q \in Procs : W(2) \in fds[q]
        BY <3>3, <4>1
      <4> QED BY <2>2, <4>2
    <3> QED BY <2>4, <3>2, <3>3
  <2>5. \A q \in return : pc'[q] = IF pc[q] = "open1" THEN "open2"
                                   ELSE IF q = "parent" THEN "request" ELSE "serve"
    BY <2>1, <2>3 DEF AfterOpen
  <2>6. \A q \in Procs \ return : pc'[q] = pc[q]
    BY <2>1
  <2> HIDE DEF return, other, end
  <2>7. pc' \in [Procs -> Places]
    <3>1. \A q \in Procs : pc'[q] \in Places
      BY <1>1, <2>5, <2>6 DEF Types, Places
    <3>2. pc' = [q \in Procs |-> pc'[q]]
      BY <2>1
    <3> QED BY <3>1, <3>2
  <2>8. Types'
    BY <1>1, <2>1, <2>2, <2>7 DEF Types
  <2>9. Homes'
    <3>1. \A q \in Procs : \/ pc'[q] = pc[q]
                           \/ /\ pc[q] \in {"open1", "open2"}
                              /\ pc'[q] \in {"open2", IF q = "parent" THEN "request" ELSE "serve"}
      BY <2>3, <2>5, <2>6
    <3> QED BY <1>1, <1>2, <3>1 DEF Homes, ServingProcs, Procs
  <2>10. FifoEnds'
    <3>1. ASSUME NEW q \in Procs
          PROVE  /\ fds'[q] \subseteq {FirstEnd(q), SecondEnd(q)}
                 /\ pc'[q] \in {"mkfifo", "off", "unlink1", "unlink2", "exit", "dead"} => fds'[q] = {}
                 /\ pc'[q] = "open1" => SecondEnd(q) \notin fds'[q]
                 /\ pc'[q] = "open2" \/ pc'[q] \in OpenPlaces => FirstEnd(q) \in fds'[q]
                 /\ pc'[q] \in OpenPlaces => SecondEnd(q) \in fds'[q]
      <4>1. /\ fds[q] \subseteq {FirstEnd(q), SecondEnd(q)} /\ fds[q] \subseteq fds'[q]
            /\ fds'[q] \subseteq fds[q] \cup {Opening(q)}
            /\ q # p => fds'[q] = fds[q]
        BY <1>3, <2>2 DEF FifoEnds, end
      <4>2. Opening(q) = (IF pc[q] = "open1" THEN FirstEnd(q) ELSE SecondEnd(q)) /\ FirstEnd(q) # SecondEnd(q)
        BY OpeningIs, FirstSecond
      <4>3. /\ pc[q] \in {"mkfifo", "off", "unlink1", "unlink2", "exit", "dead"} => fds[q] = {} /\ q # p
            /\ pc[q] = "open1" => SecondEnd(q) \notin fds[q]
            /\ pc[q] = "open2" \/ pc[q] \in OpenPlaces => FirstEnd(q) \in fds[q]
            /\ pc[q] \in OpenPlaces => SecondEnd(q) \in fds[q]
        BY <1>1, <1>3 DEF FifoEnds
      <4>4. CASE q \in return
        BY <2>3, <2>5, <4>1, <4>2, <4>3, <4>4 DEF OpenPlaces
      <4>5. CASE q \notin return
        BY <2>6, <4>1, <4>2, <4>3, <4>5
      <4> QED BY <4>4, <4>5
    <3> QED BY <3>1 DEF FifoEnds
  <2>11. ASSUME pc'["parent"] \in Asking PROVE FifoAsks'
    <3>1. FifoAsks
      BY <1>1, <1>3, <2>3, <2>6, <2>11 DEF Fifo, Asking
    <3>2. \A q \in Procs : Answers(q)' = Answers(q) /\ (Answers(q) => pc'[q] = pc[q])
      BY <2>3, <2>5, <2>6 DEF Answers
    <3>3. pc'["parent"] = "answer" <=> pc["parent"] = "answer"
      BY <1>1, <2>3, <2>5, <2>6
    <3>4. (\A q \in Procs : ~Answers(q)) /\ pc'["parent"] \in {"request", "answer"}
            => \E q \in Procs : W(2) \in fds'[q]
      <4> SUFFICES ASSUME \A q \in Procs : ~Answers(q), pc'["parent"] \in {"request", "answer"}
                   PROVE  \E q \in Procs : W(2) \in fds'[q]
        OBVIOUS
      <4>1. CASE "parent" \in return
        BY <1>1, <2>3, <2>4, <2>5, <4>1
      <4>2. CASE "parent" \notin return
        <5>1. PICK q \in Procs : W(2) \in fds[q]
          BY <1>1, <2>6, <3>1, <4>2 DEF FifoAsks
        <5> QED BY <2>2, <5>1
      <4> QED BY <4>1, <4>2
    <3> QED BY <1>1, <2>1, <3>1, <3>2, <3>3, <3>4, AsksStay
  <2>12. pc'["parent"] \in Asked => pc["parent"] \in Asked
    BY <1>1, <2>3, <2>5, <2>6 DEF Asked
  <2>13. Fifo'
    BY <1>1, <1>3, <2>10, <2>11, <2>12 DEF Fifo, Whole
  <2> QED BY <1>1, <1>2, <2>8, <2>9, <2>13 DEF IInv
<1> QED BY <1>6, <1>7

-----------------------------------------------------------------------------
(* client and server                                                        *)

LEMMA RequestInv ==
  ASSUME IInv, Request
  PROVE  IInv'
<1> DEFINE b == <<"parent", 1>>
<1>1. /\ Types /\ Homes /\ pc["parent"] = "request"
      /\ \/ empty /\ W(1) \in fds["parent"] /\ Goto("parent", "answer") /\ fds' = fds /\ data' = data
         \/ PutBlock("parent", 1, b, "answer")
      /\ UNCHANGED <<prog, empty, names, left, got>>
      /\ W(1) \notin fds["parent"] => PutBlock("parent", 1, b, "answer")
  BY DEF Request, IInv
<1>2. "parent" \in Procs /\ 1 \in Channels /\ 2 \in Channels /\ b \in Blocks /\ "answer" \in Places /\ "dead" \in Ended
  BY DEF Procs, Channels, Blocks, Places, Ended
<1>3. prog \in {"fifo", "mainpipe"}
  BY <1>1 DEF Homes, Types, AllPrograms
<1>4. /\ pc' \in [Procs -> Places] /\ \A q \in Procs \ {"parent"} : pc'[q] = pc[q]
      /\ \A k \in Channels : Len(data'[k]) <= PipeCap
      /\ data' \in [Channels -> Seq(Blocks)]
      /\ fds' \in [Procs -> SUBSET Ends] /\ \A q \in Procs \ {"parent"} : fds'[q] = fds[q]
      /\ \/ /\ pc'["parent"] = "answer" /\ fds' = fds /\ data'[2] = data[2]
            /\ W(1) \in fds["parent"]
            /\ data'[1] = data[1] \/ data'[1] = Append(data[1], b)
         \/ pc'["parent"] = "dead" /\ fds'["parent"] = {}
  <2>1. CASE empty /\ W(1) \in fds["parent"] /\ Goto("parent", "answer") /\ fds' = fds /\ data' = data
    BY <1>1, <1>2, <2>1, GotoIs DEF Types
  <2>2. CASE PutBlock("parent", 1, b, "answer")
    <3>1. CASE End("parent", "dead")
      BY <1>1, <1>2, <3>1, EndIs
    <3>2. CASE ~End("parent", "dead")
      <4> HIDE DEF b
      <4>1. /\ W(1) \in fds["parent"] /\ HasReader(1)
            /\ pc' \in [Procs -> Places] /\ pc'["parent"] = "answer"
            /\ \A q \in Procs \ {"parent"} : pc'[q] = pc[q]
            /\ data' \in [Channels -> Seq(Blocks)]
            /\ \A l \in Channels : Len(data'[l]) <= PipeCap
            /\ data'[1] = Append(data[1], b)
            /\ \A l \in Channels \ {1} : data'[l] = data[l]
            /\ fds' = fds
        BY <1>1, <1>2, <2>2, <3>2, PutIs
      <4> QED BY <1>1, <1>2, <4>1 DEF Types
    <3> QED BY <3>1, <3>2
  <2> QED BY <1>1, <2>1, <2>2
<1>5. Types'
  BY <1>1, <1>4 DEF Types
<1>6. Homes'
  <2>1. prog = "mainpipe" => pc'["parent"] = "dead"
    BY <1>1, <1>4 DEF IInv, Mainpipe
  <2>2. pc'["parent"] \in {"answer", "dead"}
    BY <1>4
  <2> HIDE DEF b
  <2> QED BY <1>1, <1>2, <1>3, <1>4, <2>1, <2>2 DEF Homes, ServingProcs, Procs
<1>7. ASSUME prog = "fifo" PROVE Fifo'
  <2>1. FifoEnds /\ FifoAsks
    BY <1>1, <1>7 DEF IInv, Fifo, Asking
  <2>2. FifoEnds'
    BY <1>1, <1>2, <1>4, <2>1, EndsStay DEF OpenPlaces
  <2>3. ASSUME pc'["parent"] = "answer" PROVE FifoAsks'
    <3>1. \A q \in Procs : ~Answers(q) /\ ~Answers(q)'
      BY <1>1, <1>4, <2>1 DEF FifoAsks, Answers, ServingProcs
    <3>2. data[1] = <<>> /\ data[2] = <<>> /\ got["parent"] = <<>> /\ \E q \in Procs : W(2) \in fds[q]
      BY <1>1, <2>1, <3>1 DEF FifoAsks
    <3>3. Len(data'[1]) <= 1
      <4>1. <<>> \in Seq(Blocks) /\ Len(<<>>) = 0
        OBVIOUS
      <4> HIDE DEF b
      <4>2. Len(Append(<<>>, b)) = 1
        BY <1>2, <4>1, AppendProperties
      <4>3. data'[1] = <<>> \/ data'[1] = Append(<<>>, b)
        BY <1>4, <2>3, <3>2
      <4> DEFINE one == Append(<<>>, b)
      <4> HIDE DEF one
      <4>4. CASE data'[1] = one
        <5>1. Len(one) = 1
          BY <4>2 DEF one
        <5> QED BY ONLY <4>4, <5>1
      <4>5. CASE data'[1] = <<>>
        BY ONLY <4>1, <4>5
      <4> QED BY <4>3, <4>4, <4>5 DEF one
    <3>4. data'[2] = <<>> /\ fds' = fds
      BY <1>4, <2>3, <3>2
    <3> QED BY <1>1, <2>3, <3>1, <3>2, <3>3, <3>4 DEF FifoAsks
  <2> QED BY <1>4, <2>2, <2>3 DEF Fifo, Asking, Asked
<1>8. ASSUME prog = "mainpipe" PROVE Mainpipe'
  BY <1>4 DEF Mainpipe
<1> QED BY <1>1, <1>3, <1>5, <1>6, <1>7, <1>8 DEF IInv

\* End of file comes only after somebody who had the request has left.
LEMMA ReadAnswerInv ==
  ASSUME IInv, ReadAnswer
  PROVE  IInv'
<1>1. /\ Types /\ Homes /\ pc["parent"] = "answer"
      /\ \/ /\ GetBlock("parent", 2, "answer")
            /\ got' = [got EXCEPT !["parent"] = Append(@, Head(data[2]))]
         \/ AtEof("parent", 2) /\ Goto("parent", "wait") /\ UNCHANGED <<fds, data, got>>
      /\ UNCHANGED <<prog, empty, names, left>>
  BY DEF ReadAnswer, IInv
<1>2. "parent" \in Procs /\ 1 \in Channels /\ 2 \in Channels /\ "answer" \in Places /\ "wait" \in Places
  BY DEF Procs, Channels, Places
<1>3. prog = "fifo"
  BY <1>1 DEF Homes, Types, AllPrograms
<1>4. FifoEnds /\ FifoAsks
  BY <1>1, <1>3 DEF IInv, Fifo, Asking
<1>5. ASSUME GetBlock("parent", 2, "answer"), got' = [got EXCEPT !["parent"] = Append(@, Head(data[2]))]
      PROVE  IInv'
  <2>1. /\ pc' \in [Procs -> Places] /\ pc'["parent"] = "answer"
        /\ \A q \in Procs \ {"parent"} : pc'[q] = pc[q]
        /\ data' \in [Channels -> Seq(Blocks)]
        /\ \A l \in Channels : Len(data'[l]) <= PipeCap
        /\ data[2] # <<>> /\ data[2] \in Seq(Blocks) /\ Head(data[2]) \in Blocks
        /\ data'[2] = Tail(data[2])
        /\ \A l \in Channels \ {2} : data'[l] = data[l]
        /\ fds' = fds
    BY <1>1, <1>2, <1>5, GetIs
  <2>2. /\ got' \in [Procs -> Seq(Blocks)] /\ got'["parent"] = Append(got["parent"], Head(data[2]))
        /\ got["parent"] \in Seq(Blocks)
    BY <1>1, <1>2, <1>5, <2>1, GotIs DEF Types
  <2>3. \A q \in Procs : pc'[q] = pc[q]
    BY <1>1, <2>1
  <2>4. Types' /\ Homes'
    BY <1>1, <1>2, <2>1, <2>2, <2>3 DEF Types, Homes, ServingProcs, Procs
  <2>5. FifoEnds'
    BY <1>4, <2>1, <2>3 DEF FifoEnds
  <2>6. \A q \in Procs : Answers(q)' = Answers(q)
    BY <2>3 DEF Answers
  <2>7. PICK p \in Procs : Answers(p)
    BY <1>4, <2>1 DEF FifoAsks
  <2>8. ASSUME NEW q \in Procs, Answers(q) PROVE Progress(q)'
    <3>1. Progress(q) /\ pc'[q] = pc[q] /\ left'[q] = left[q]
      BY <1>1, <1>4, <2>3, <2>8 DEF FifoAsks
    <3>2. ASSUME NEW file, NEW n, Said(q, file, n, got["parent"], data[2])
          PROVE  Said(q, file, n, got'["parent"], data'[2])
      BY <2>1, <2>2, <3>2, SaidIsRead
    <3> QED BY <3>1, <3>2 DEF Progress
  <2>9. data'[1] = data[1]
    BY <1>2, <2>1
  <2>10. FifoAsks'
    BY <1>1, <1>4, <2>1, <2>6, <2>7, <2>8, <2>9 DEF FifoAsks
  <2>11. Fifo'
    BY <2>1, <2>5, <2>10 DEF Fifo, Asked
  <2> QED BY <1>1, <1>3, <2>4, <2>11 DEF IInv
<1>6. ASSUME AtEof("parent", 2), Goto("parent", "wait"), UNCHANGED <<fds, data, got>>
      PROVE  IInv'
  <2>1. /\ pc' \in [Procs -> Places] /\ pc'["parent"] = "wait"
        /\ \A q \in Procs \ {"parent"} : pc'[q] = pc[q]
    BY <1>1, <1>2, <1>6, GotoIs
  <2>2. Types' /\ Homes'
    BY <1>1, <1>3, <1>6, <2>1 DEF Types, Homes, ServingProcs, Procs
  <2>3. FifoEnds'
    BY <1>1, <1>2, <1>4, <1>6, <2>1, EndsStay DEF OpenPlaces
  <2>4. data[2] = <<>> /\ \A q \in Procs : W(2) \notin fds[q]
    BY <1>6 DEF AtEof, HasWriter
  <2>5. PICK p \in Procs : Answers(p)
    BY <1>1, <1>4, <2>4 DEF FifoAsks
  <2>6. pc[p] = "exit"
    <3>1. p # "parent" /\ SecondEnd(p) = W(2)
      BY <2>5 DEF Answers, ServingProcs, SecondEnd
    <3>2. pc[p] \notin OpenPlaces
      BY <1>4, <2>4, <3>1 DEF FifoEnds
    <3> QED BY <2>5, <3>2 DEF Answers, OpenPlaces
  <2>7. \/ Said(p, TRUE, FileLen, got["parent"], <<>>)
        \/ Said(p, FALSE, 1, got["parent"], <<>>)
    BY <1>4, <2>4, <2>5, <2>6 DEF FifoAsks, Progress
  <2>8. got["parent"] \in Whole(p)
    <3>1. got["parent"] \in Seq(Blocks)
      BY <1>1, <1>2 DEF Types
    <3> QED BY <2>7, <3>1, SaidAll
  <2>9. got'["parent"] \in Whole("child") \cup Whole("server")
    BY <1>6, <2>5, <2>8 DEF Answers, ServingProcs
  <2>10. Fifo'
    BY <2>1, <2>3, <2>9 DEF Fifo, Asking, Whole
  <2> QED BY <1>1, <1>3, <2>2, <2>10 DEF IInv
<1> QED BY <1>1, <1>5, <1>6

\* A step of child or server of the programs with a client: it moves on with
\* what it has open, or ends.
LEMMA ServingInv ==
  ASSUME IInv, NEW p \in ServingProcs, pc[p] \in {"serve", "complain", "copy", "leave"},
         Types', UNCHANGED <<prog, got>>,
         pc'[p] \in {"copy", "complain", "leave", "exit", "dead"},
         \A q \in Procs \ {p} : pc'[q] = pc[q] /\ fds'[q] = fds[q],
         \/ fds'[p] = fds[p] /\ pc'[p] \in {"copy", "complain", "leave"}
         \/ fds'[p] = {} /\ pc'[p] \in {"exit", "dead"},
         prog = "fifo" /\ pc["parent"] \in Asking => FifoAsks'
  PROVE  prog \in {"fifo", "mainpipe"} => IInv'
<1> SUFFICES ASSUME prog \in {"fifo", "mainpipe"} PROVE IInv'
  OBVIOUS
<1>1. /\ Types /\ Homes /\ p \in Procs /\ "parent" \in Procs /\ p # "parent"
      /\ prog = "mainpipe" => p = "child"
  BY DEF IInv, ServingProcs, Procs, Homes
<1>2. pc'["parent"] = pc["parent"] /\ fds'["parent"] = fds["parent"]
  BY <1>1
<1>3. Homes'
  BY <1>1, <1>2 DEF Homes, ServingProcs, Procs
<1>4. ASSUME prog = "fifo" PROVE Fifo'
  <2>1. FifoEnds
    BY <1>4 DEF IInv, Fifo
  <2>2. FifoEnds'
    BY <1>1, <2>1, EndsStay DEF OpenPlaces
  <2> QED BY <1>2, <1>4, <2>2 DEF IInv, Fifo, Whole
<1>5. ASSUME prog = "mainpipe" PROVE Mainpipe'
  BY <1>2, <1>5 DEF IInv, Mainpipe
<1> QED BY <1>3, <1>4, <1>5 DEF IInv

\* Child or server, in which program.
LEMMA ServingProgs ==
  ASSUME Homes, Types, NEW p \in Procs, pc[p] \in {"serve", "complain", "copy"}
  PROVE  p \in ServingProcs /\ prog \in {"fifo", "mainpipe"}
BY DEF Homes, Types, AllPrograms, ServingProcs, Procs

\* The one who gets the request finds nothing said yet.
LEMMA ServeInv ==
  ASSUME IInv, NEW p \in Procs, Serve(p)
  PROVE  IInv'
<1>1. /\ Types /\ Homes /\ pc[p] = "serve" /\ UNCHANGED <<prog, empty, names, got>>
      /\ \/ \E file \in BOOLEAN :
              /\ GetBlock(p, 1, IF file THEN "copy" ELSE "complain")
              /\ left' = [left EXCEPT ![p] = IF file THEN FileLen ELSE 0]
         \/ AtEof(p, 1) /\ End(p, "dead") /\ UNCHANGED left
  BY DEF Serve, IInv
<1>2. p \in ServingProcs /\ prog \in {"fifo", "mainpipe"}
  BY <1>1, ServingProgs
<1>3. "parent" \in Procs /\ p # "parent" /\ 1 \in Channels /\ 2 \in Channels
      /\ {"copy", "complain"} \subseteq Places /\ "dead" \in Ended
  BY <1>2 DEF Procs, ServingProcs, Channels, Places, Ended
<1>4. ASSUME NEW file \in BOOLEAN, GetBlock(p, 1, IF file THEN "copy" ELSE "complain"),
             left' = [left EXCEPT ![p] = IF file THEN FileLen ELSE 0]
      PROVE  IInv'
  <2> DEFINE to == IF file THEN "copy" ELSE "complain"
  <2>1. /\ pc' \in [Procs -> Places] /\ pc'[p] = to
        /\ \A q \in Procs \ {p} : pc'[q] = pc[q]
        /\ data' \in [Channels -> Seq(Blocks)]
        /\ \A l \in Channels : Len(data'[l]) <= PipeCap
        /\ data[1] # <<>> /\ Len(data'[1]) = Len(data[1]) - 1
        /\ \A l \in Channels \ {1} : data'[l] = data[l]
        /\ fds' = fds
    <3>1. to \in Places
      BY <1>3
    <3> QED BY <1>1, <1>3, <1>4, <3>1, GetIs
  <2>2. left' \in [Procs -> 0..FileLen] /\ left'[p] = IF file THEN FileLen ELSE 0
    BY <1>1, <1>4 DEF Types
  <2>3. Types'
    BY <1>1, <2>1, <2>2 DEF Types
  <2>4. ASSUME prog = "fifo", pc["parent"] \in Asking PROVE FifoAsks'
    <3>1. FifoAsks /\ data'[2] = data[2]
      BY <1>3, <2>1, <2>4 DEF IInv, Fifo
    <3>2. pc["parent"] = "answer" /\ got["parent"] = <<>> /\ data[2] = <<>> /\ Len(data[1]) <= 1
          /\ \A q \in Procs : ~Answers(q)
      BY <2>1, <3>1 DEF FifoAsks
    <3>3. data'[1] = <<>>
      <4>1. Len(data'[1]) \in Nat /\ Len(data'[1]) <= 0 /\ data'[1] \in Seq(Blocks)
        <5>1. data'[1] \in Seq(Blocks) /\ data[1] \in Seq(Blocks)
          BY <1>1, <1>3, <2>1 DEF Types
        <5>2. Len(data'[1]) \in Nat /\ Len(data[1]) \in Nat
          BY <5>1
        <5> QED BY <2>1, <3>2, <5>1, <5>2
      <4> QED BY <4>1, EmptySeq
    <3>4. /\ \A q \in Procs : Answers(q)' => q = p
          /\ Answers(p)'
      BY <1>2, <2>1, <3>2 DEF Answers
    <3>5. Progress(p)'
      <4>1. Said(p, TRUE, 0, <<>>, <<>>) /\ Said(p, FALSE, 0, <<>>, <<>>)
        BY SaidNothing
      <4>2. got'["parent"] = <<>> /\ data'[2] = <<>>
        BY <1>1, <3>1, <3>2
      <4>3. file => FileLen - left'[p] = 0
        BY <2>2
      <4> QED BY <2>1, <4>1, <4>2, <4>3 DEF Progress
    <3>6. pc'["parent"] = "answer" /\ Len(<<>>) = 0
      BY <1>3, <2>1, <3>2
    <3>7. \A q \in Procs : Answers(q)' => Progress(q)'
      <4> SUFFICES ASSUME NEW q \in Procs, Answers(q)' PROVE Progress(q)'
        OBVIOUS
      <4>1. q = p
        BY <3>4
      <4> QED BY <3>5, <4>1
    <3> QED BY <3>3, <3>4, <3>6, <3>7 DEF FifoAsks
  <2> QED BY <1>1, <1>2, <2>1, <2>3, <2>4, ServingInv
<1>5. ASSUME AtEof(p, 1), End(p, "dead"), left' = left
      PROVE  IInv'
  <2>1. /\ pc' \in [Procs -> Places] /\ pc'[p] = "dead"
        /\ \A q \in Procs \ {p} : pc'[q] = pc[q]
        /\ fds' \in [Procs -> SUBSET Ends] /\ fds'[p] = {}
        /\ \A q \in Procs \ {p} : fds'[q] = fds[q]
        /\ data' \in [Channels -> Seq(Blocks)]
        /\ \A k \in Channels : Len(data'[k]) <= PipeCap /\ data'[k] \in {data[k], <<>>}
    BY <1>1, <1>3, <1>5, EndIs
  <2>2. Types'
    BY <1>1, <1>5, <2>1 DEF Types
  <2>3. ASSUME prog = "fifo", pc["parent"] \in Asking PROVE FifoAsks'
    <3>1. FifoAsks /\ FifoEnds
      BY <2>3 DEF IInv, Fifo
    <3>2. pc["parent"] \notin {"request", "answer"}
      <4>1. W(1) \notin fds["parent"]
        BY <1>3, <1>5 DEF AtEof, HasWriter
      <4> QED BY <1>3, <3>1, <4>1 DEF FifoEnds, OpenPlaces, FirstEnd
    <3>3. data[2] = <<>> /\ data'[2] = <<>> /\ data'[1] \in {data[1], <<>>}
      BY <1>3, <2>1, <3>1, <3>2 DEF FifoAsks
    <3>4. \A q \in Procs : Answers(q)' = Answers(q) /\ (Answers(q) => pc'[q] = pc[q])
      BY <1>1, <2>1 DEF Answers
    <3>5. pc'["parent"] = pc["parent"]
      BY <1>3, <2>1
    <3> QED BY <1>1, <1>5, <3>1, <3>2, <3>3, <3>4, <3>5, AsksStay
  <2> QED BY <1>1, <1>2, <2>1, <2>2, <2>3, ServingInv
<1> QED BY <1>1, <1>4, <1>5

\* The one who answers goes on.
LEMMA AnswerGoesOn ==
  ASSUME IInv, prog = "fifo", pc["parent"] \in Asking, NEW p \in Procs, Answers(p), Answers(p)',
         \A q \in Procs \ {p} : pc'[q] = pc[q],
         data'[1] \in {data[1], <<>>}, Progress(p)'
  PROVE  FifoAsks'
<1>1. FifoAsks /\ pc["parent"] = "answer" /\ data[1] = <<>> /\ \A q \in Procs : Answers(q) => q = p
  BY ParentListens
<1>2. pc'["parent"] = "answer"
  BY <1>1 DEF Answers, ServingProcs, Procs
<1>3. \A q \in Procs : Answers(q)' => q = p
  BY <1>1 DEF Answers
<1>4. ASSUME NEW q \in Procs, Answers(q)' PROVE Progress(q)'
  <2>1. q = p
    BY <1>3, <1>4
  <2> QED BY <2>1
<1>5. data'[1] = <<>> /\ Len(<<>>) = 0
  BY <1>1
<1> QED BY <1>2, <1>3, <1>4, <1>5 DEF FifoAsks

\* A block of the answer: the client is there to read it, if it has not met
\* end of file.
LEMMA WriteInv ==
  ASSUME IInv, NEW p \in Procs, pc[p] \in {"complain", "copy"}, UNCHANGED <<prog, empty, names, got>>,
         NEW b \in Blocks, NEW to \in {"copy", "leave"}, PutBlock(p, 2, b, to),
         left' \in [Procs -> 0..FileLen],
         Progress(p) /\ pc'[p] = to /\ data'[2] = Append(data[2], b) => Progress(p)'
  PROVE  IInv'
<1>1. Types /\ Homes /\ to \in Places /\ "dead" \in Ended /\ 1 \in Channels /\ 2 \in Channels
      /\ "parent" \in Procs
  BY DEF IInv, Places, Ended, Channels, Procs
<1>2. p \in ServingProcs /\ prog \in {"fifo", "mainpipe"}
  BY <1>1, ServingProgs
<1>3. \/ /\ W(2) \in fds[p] /\ HasReader(2)
         /\ pc' \in [Procs -> Places] /\ pc'[p] = to
         /\ \A q \in Procs \ {p} : pc'[q] = pc[q]
         /\ data' \in [Channels -> Seq(Blocks)]
         /\ \A l \in Channels : Len(data'[l]) <= PipeCap
         /\ data'[2] = Append(data[2], b)
         /\ \A l \in Channels \ {2} : data'[l] = data[l]
         /\ fds' = fds
      \/ /\ W(2) \notin fds[p] \/ ~HasReader(2)
         /\ End(p, "dead")
  BY <1>1, PutIs
<1>4. CASE W(2) \in fds[p] /\ HasReader(2)
  <2>1. Types'
    BY <1>1, <1>3, <1>4 DEF Types
  <2>2. ASSUME prog = "fifo", pc["parent"] \in Asking PROVE FifoAsks'
    <3>1. Answers(p) /\ Answers(p)'
      BY <1>2, <1>3, <1>4 DEF Answers
    <3>2. Progress(p)
      BY <2>2, <3>1, ParentListens
    <3>3. data'[1] = data[1] /\ Progress(p)'
      BY <1>1, <1>3, <1>4, <3>2
    <3> QED BY <1>3, <1>4, <2>2, <3>1, <3>3, AnswerGoesOn
  <2> QED BY <1>2, <1>3, <1>4, <2>1, <2>2, ServingInv
<1>5. CASE (W(2) \notin fds[p] \/ ~HasReader(2)) /\ End(p, "dead")
  <2>1. /\ pc' \in [Procs -> Places] /\ pc'[p] = "dead"
        /\ \A q \in Procs \ {p} : pc'[q] = pc[q]
        /\ fds' \in [Procs -> SUBSET Ends] /\ fds'[p] = {}
        /\ \A q \in Procs \ {p} : fds'[q] = fds[q]
        /\ data' \in [Channels -> Seq(Blocks)]
        /\ \A k \in Channels : Len(data'[k]) <= PipeCap
    BY <1>1, <1>5, EndIs
  <2>2. Types'
    BY <1>1, <2>1 DEF Types
  <2>3. ~(prog = "fifo" /\ pc["parent"] \in Asking)
    <3> SUFFICES ASSUME prog = "fifo", pc["parent"] \in Asking PROVE FALSE
      OBVIOUS
    <3>1. Answers(p)
      BY <1>2 DEF Answers
    <3>2. HasReader(2)
      BY <1>1, <3>1, ParentListens DEF HasReader
    <3>3. W(2) \in fds[p]
      BY <1>2 DEF IInv, Fifo, FifoEnds, OpenPlaces, SecondEnd, ServingProcs
    <3> QED BY <1>5, <3>2, <3>3
  <2> QED BY <1>2, <2>1, <2>2, <2>3, ServingInv
<1> QED BY <1>3, <1>4, <1>5

LEMMA ComplainInv ==
  ASSUME IInv, NEW p \in Procs, Complain(p)
  PROVE  IInv'
<1>1. /\ Types /\ pc[p] = "complain" /\ PutBlock(p, 2, <<p, 0>>, "leave")
      /\ UNCHANGED <<prog, empty, names, left, got>>
  BY DEF Complain, IInv
<1>2. <<p, 0>> \in Blocks /\ <<p, 0>> = Block(p, FALSE, 0 + 1) /\ left' \in [Procs -> 0..FileLen]
  BY <1>1 DEF Blocks, Block, Types
<1>3. got["parent"] \in Seq(Blocks) /\ data[2] \in Seq(Blocks)
  BY <1>1 DEF Types, Procs, Channels
<1>4. ASSUME Progress(p), pc'[p] = "leave", data'[2] = Append(data[2], <<p, 0>>)
      PROVE  Progress(p)'
  <2>1. Said(p, FALSE, 0, got["parent"], data[2])
    BY <1>1, <1>4 DEF Progress
  <2>2. Said(p, FALSE, 0 + 1, got["parent"], Append(data[2], <<p, 0>>))
    BY <1>2, <1>3, <2>1, SaidMore
  <2>3. 0 + 1 = 1
    OBVIOUS
  <2>4. Said(p, FALSE, 1, got["parent"], Append(data[2], <<p, 0>>))
    BY ONLY <2>2, <2>3
  <2>5. Said(p, FALSE, 1, got'["parent"], data'[2])
    BY <1>1, <1>4, <2>4
  <2> QED BY <1>4, <2>5 DEF Progress
<1> QED BY <1>1, <1>2, <1>4, WriteInv

LEMMA CopyInv ==
  ASSUME IInv, NEW p \in Procs, Copy(p)
  PROVE  IInv'
<1> DEFINE b == <<p, left[p]>>
<1>1. /\ Types /\ Homes /\ pc[p] = "copy" /\ UNCHANGED <<prog, empty, names, got>>
      /\ IF left[p] > 0
         THEN PutBlock(p, 2, b, "copy") /\ left' = [left EXCEPT ![p] = @ - 1]
         ELSE Goto(p, "leave") /\ UNCHANGED <<fds, data, left>>
  BY DEF Copy, IInv
<1>2. /\ got["parent"] \in Seq(Blocks) /\ data[2] \in Seq(Blocks)
      /\ left[p] \in Nat /\ left[p] <= FileLen /\ left[p] \in 0..FileLen
  BY <1>1 DEF Types, Procs, Channels
<1>3. CASE left[p] > 0
  <2>1. b \in Blocks /\ b = Block(p, TRUE, (FileLen - left[p]) + 1) /\ FileLen - left[p] \in Nat
    BY <1>2 DEF Blocks, Block
  <2>2. left' \in [Procs -> 0..FileLen] /\ left'[p] = left[p] - 1
    <3>1. left[p] - 1 \in 0..FileLen
      BY <1>2, <1>3
    <3> QED BY <1>1, <1>3, <3>1 DEF Types
  <2>3. ASSUME Progress(p), pc'[p] = "copy", data'[2] = Append(data[2], b) PROVE Progress(p)'
    <3>1. Said(p, TRUE, FileLen - left[p], got["parent"], data[2])
      BY <1>1, <2>3 DEF Progress
    <3>2. Said(p, TRUE, (FileLen - left[p]) + 1, got["parent"], Append(data[2], b))
      <4> HIDE DEF b
      <4> QED BY <1>2, <2>1, <3>1, SaidMore
    <3>3. FileLen - left'[p] = (FileLen - left[p]) + 1
      BY <1>2, <2>2
    <3>4. Said(p, TRUE, FileLen - left'[p], got'["parent"], data'[2])
      BY <1>1, <2>3, <3>2, <3>3
    <3> QED BY <2>3, <3>4 DEF Progress
  <2> HIDE DEF b
  <2> QED BY <1>1, <1>3, <2>1, <2>2, <2>3, WriteInv
<1>4. CASE ~(left[p] > 0)
  <2>1. Goto(p, "leave") /\ UNCHANGED <<fds, data, left>> /\ left[p] = 0 /\ "leave" \in Places
    BY <1>1, <1>2, <1>4 DEF Places
  <2>2. /\ pc' \in [Procs -> Places] /\ pc'[p] = "leave"
        /\ \A q \in Procs \ {p} : pc'[q] = pc[q]
    BY <1>1, <2>1, GotoIs
  <2>3. Types'
    BY <1>1, <2>1, <2>2 DEF Types
  <2>4. p \in ServingProcs /\ prog \in {"fifo", "mainpipe"}
    BY <1>1, ServingProgs
  <2>5. ASSUME prog = "fifo", pc["parent"] \in Asking PROVE FifoAsks'
    <3>1. Answers(p) /\ Answers(p)'
      BY <1>1, <2>2, <2>4 DEF Answers
    <3>2. Said(p, TRUE, FileLen - left[p], got["parent"], data[2])
      BY <1>1, <2>5, <3>1, ParentListens DEF Progress
    <3>3. Said(p, TRUE, FileLen, got["parent"], data[2])
      <4>1. FileLen - left[p] = FileLen
        BY <2>1
      <4> QED BY <3>2, <4>1
    <3>4. Progress(p)'
      BY <1>1, <2>1, <2>2, <3>3 DEF Progress
    <3> QED BY <2>1, <2>2, <2>5, <3>1, <3>4, AnswerGoesOn
  <2> QED BY <1>1, <2>1, <2>2, <2>3, <2>4, <2>5, ServingInv
<1> QED BY <1>3, <1>4

LEMMA LeaveInv ==
  ASSUME IInv, NEW p \in Procs, Leave(p)
  PROVE  IInv'
<1>1. /\ Types /\ Homes /\ pc[p] = "leave" /\ End(p, "exit") /\ UNCHANGED <<prog, empty, names, left, got>>
      /\ "exit" \in Ended /\ "parent" \in Procs /\ 1 \in Channels /\ 2 \in Channels
  BY DEF Leave, IInv, Ended, Procs, Channels
<1>2. /\ pc' \in [Procs -> Places] /\ pc'[p] = "exit"
      /\ \A q \in Procs \ {p} : pc'[q] = pc[q]
      /\ fds' \in [Procs -> SUBSET Ends] /\ fds'[p] = {}
      /\ \A q \in Procs \ {p} : fds'[q] = fds[q]
      /\ data' \in [Channels -> Seq(Blocks)]
      /\ \A k \in Channels : Len(data'[k]) <= PipeCap /\ data'[k] \in {data[k], <<>>}
      /\ \A k \in Channels, q \in Procs \ {p} :
           R(k) \in fds[q] \/ W(k) \in fds[q] => data'[k] = data[k]
  BY <1>1, EndIs
<1>3. Types'
  BY <1>1, <1>2 DEF Types
<1>4. CASE prog \in {"fifo", "mainpipe"}
  <2>1. p \in ServingProcs /\ p # "parent"
    BY <1>1, <1>4 DEF Homes, ServingProcs, Procs
  <2>2. ASSUME prog = "fifo", pc["parent"] \in Asking PROVE FifoAsks'
    <3>1. Answers(p) /\ Answers(p)'
      BY <1>1, <1>2, <2>1 DEF Answers
    <3>2. Progress(p) /\ R(2) \in fds["parent"]
      BY <2>2, <3>1, ParentListens
    <3>3. data'[2] = data[2] /\ data'[1] \in {data[1], <<>>}
      BY <1>1, <1>2, <2>1, <3>2
    <3>4. Progress(p)'
      BY <1>1, <1>2, <3>2, <3>3 DEF Progress
    <3> QED BY <1>2, <2>2, <3>1, <3>3, <3>4, AnswerGoesOn
  <2> QED BY <1>1, <1>2, <1>3, <1>4, <2>1, <2>2, ServingInv
<1>5. CASE prog \notin {"fifo", "mainpipe"}
  <2>1. prog \in {"fduplex", "stream"}
    BY <1>1, <1>5 DEF Types, AllPrograms, Homes, Procs
  <2>2. Homes'
    BY <1>1, <1>2, <2>1 DEF Homes, Procs
  <2> QED BY <1>1, <1>3, <2>1, <2>2 DEF IInv
<1> QED BY <1>4, <1>5

LEMMA ParentWaitInv ==
  ASSUME IInv, ParentWait
  PROVE  IInv'
<1>1. /\ Types /\ Homes /\ pc["parent"] = "wait" /\ pc["child"] \in Ended
      /\ IF prog = "fifo"
         THEN Goto("parent", "unlink1") /\ CloseEnds("parent", Ends)
         ELSE End("parent", "exit")
      /\ UNCHANGED <<prog, empty, names, left, got>>
      /\ "parent" \in Procs /\ "unlink1" \in Places /\ "exit" \in Ended /\ 1 \in Channels
  BY DEF ParentWait, IInv, Procs, Places, Ended, Channels
<1>2. prog \in {"fifo", "pipe"}
  BY <1>1 DEF Types, Homes, AllPrograms
<1>3. CASE prog = "fifo"
  <2>1. /\ pc' \in [Procs -> Places] /\ pc'["parent"] = "unlink1"
        /\ \A q \in Procs \ {"parent"} : pc'[q] = pc[q]
    BY <1>1, <1>3, GotoIs
  <2>2. /\ fds' \in [Procs -> SUBSET Ends] /\ fds'["parent"] = fds["parent"] \ Ends
        /\ \A q \in Procs \ {"parent"} : fds'[q] = fds[q]
        /\ data' \in [Channels -> Seq(Blocks)]
        /\ \A k \in Channels : Len(data'[k]) <= PipeCap
    BY <1>1, <1>3, CloseIs
  <2>3. fds'["parent"] = {}
    BY <1>1, <2>2 DEF Types
  <2>4. Types'
    BY <1>1, <2>1, <2>2 DEF Types
  <2>5. Homes'
    BY <1>1, <1>3, <2>1 DEF Homes, ServingProcs, Procs
  <2>6. FifoEnds'
    BY <1>1, <1>3, <2>1, <2>2, <2>3, EndsStay DEF IInv, Fifo
  <2>7. Fifo'
    BY <1>1, <1>3, <2>1, <2>6 DEF IInv, Fifo, Asking, Asked, Whole
  <2> QED BY <1>1, <1>3, <2>4, <2>5, <2>7 DEF IInv
<1>4. CASE prog = "pipe"
  <2>1. /\ pc' \in [Procs -> Places] /\ pc'["parent"] = "exit"
        /\ \A q \in Procs \ {"parent"} : pc'[q] = pc[q]
        /\ fds' \in [Procs -> SUBSET Ends] /\ fds'["parent"] = {}
        /\ \A q \in Procs \ {"parent"} : fds'[q] = fds[q]
        /\ data' \in [Channels -> Seq(Blocks)]
        /\ \A k \in Channels : Len(data'[k]) <= PipeCap /\ data'[k] \in {data[k], <<>>}
    <3>1. End("parent", "exit")
      BY <1>1, <1>4
    <3> QED BY <1>1, <3>1, EndIs
  <2>2. Types'
    BY <1>1, <2>1 DEF Types
  <2>3. Homes'
    BY <1>1, <1>4, <2>1 DEF Homes, Procs
  <2>4. pc["child"] = "exit" /\ pc'["child"] = "exit" /\ fds'["child"] = fds["child"]
    BY <1>1, <1>4, <2>1 DEF Homes, Ended, Procs
  <2>5. data[1] = <<>> /\ data'[1] = <<>>
    BY <1>1, <1>4, <2>1, <2>4 DEF IInv, Pipe
  <2>6. Said("parent", TRUE, FileLen, got'["child"], data'[1])
    BY <1>1, <1>4, <2>5 DEF IInv, Pipe
  <2>7. Pipe'
    <3>1. Said("parent", TRUE, FileLen, got["child"], data[1])'
      BY <2>6 DEF Said, Block
    <3> QED BY <2>1, <2>4, <2>5, <3>1 DEF Pipe
  <2> QED BY <1>1, <1>4, <2>2, <2>3, <2>7 DEF IInv
<1> QED BY <1>2, <1>3, <1>4

LEMMA ParentUnlinkInv ==
  ASSUME IInv, ParentUnlink
  PROVE  IInv'
<1>1. /\ Types /\ Homes /\ pc["parent"] \in {"unlink1", "unlink2"}
      /\ \/ names' = names \ {1} /\ Goto("parent", "unlink2")
         \/ names' = names \ {2} /\ Goto("parent", "exit")
      /\ UNCHANGED <<prog, empty, fds, data, left, got>>
      /\ "parent" \in Procs /\ {"unlink2", "exit"} \subseteq Places
  BY DEF ParentUnlink, IInv, Procs, Places
<1>2. prog = "fifo"
  BY <1>1 DEF Types, Homes, AllPrograms
<1>3. /\ pc' \in [Procs -> Places] /\ pc'["parent"] \in {"unlink2", "exit"}
      /\ \A q \in Procs \ {"parent"} : pc'[q] = pc[q]
  BY <1>1, GotoIs
<1>4. Types'
  BY <1>1, <1>3 DEF Types
<1>5. Homes'
  BY <1>1, <1>2, <1>3 DEF Homes, ServingProcs, Procs
<1>6. FifoEnds /\ fds["parent"] = {}
  BY <1>1, <1>2 DEF IInv, Fifo, FifoEnds
<1>7. FifoEnds'
  BY <1>1, <1>3, <1>6, EndsStay
<1>8. Fifo'
  BY <1>1, <1>2, <1>3, <1>7 DEF IInv, Fifo, Asking, Asked, Whole
<1> QED BY <1>1, <1>2, <1>4, <1>5, <1>8 DEF IInv

\* mainpipe: the parent has closed the end it needs.
LEMMA CloseUnusedInv ==
  ASSUME IInv, NEW p \in Procs, CloseUnused(p)
  PROVE  IInv'
<1>1. /\ Types /\ Homes /\ prog = "mainpipe" /\ pc[p] = "close"
      /\ IF p = "child"
         THEN CloseEnds(p, {W(1), R(2)}) /\ Goto(p, "serve")
         ELSE CloseEnds(p, {R(1), W(1)}) /\ Goto(p, "request")
      /\ UNCHANGED <<prog, empty, names, left, got>>
      /\ {"serve", "request"} \subseteq Places
  BY DEF CloseUnused, IInv, Places
<1>2. p \in {"parent", "child"}
  BY <1>1 DEF Homes, Procs
<1>3. /\ pc' \in [Procs -> Places] /\ pc'[p] = IF p = "child" THEN "serve" ELSE "request"
      /\ \A q \in Procs \ {p} : pc'[q] = pc[q]
  BY <1>1, GotoIs
<1>4. /\ fds' \in [Procs -> SUBSET Ends]
      /\ p # "child" => fds'[p] = fds[p] \ {R(1), W(1)}
      /\ \A q \in Procs \ {p} : fds'[q] = fds[q]
      /\ data' \in [Channels -> Seq(Blocks)]
      /\ \A k \in Channels : Len(data'[k]) <= PipeCap
  BY <1>1, CloseIs
<1>5. Types'
  BY <1>1, <1>3, <1>4 DEF Types
<1>6. Homes'
  BY <1>1, <1>2, <1>3 DEF Homes, ServingProcs, Procs
<1>7. Mainpipe'
  BY <1>1, <1>2, <1>3, <1>4 DEF IInv, Mainpipe, Procs
<1> QED BY <1>1, <1>5, <1>6, <1>7 DEF IInv

-----------------------------------------------------------------------------
(* pipe and pipe/fduplex                                                    *)

LEMMA CloseOtherInv ==
  ASSUME IInv, NEW p \in Procs, CloseOther(p)
  PROVE  IInv'
<1>1. /\ Types /\ Homes /\ prog = "pipe" /\ Pipe /\ pc[p] = "close"
      /\ IF p = "child"
         THEN CloseEnds(p, {W(1)}) /\ Goto(p, "receive") /\ UNCHANGED left
         ELSE /\ CloseEnds(p, {R(1)}) /\ Goto(p, "send")
              /\ left' = [left EXCEPT ![p] = FileLen]
      /\ UNCHANGED <<prog, empty, names, got>>
      /\ {"receive", "send"} \subseteq Places /\ 1 \in Channels
  BY DEF CloseOther, IInv, Places, Channels
<1>2. p \in {"parent", "child"} /\ {"parent", "child"} \subseteq Procs
  BY <1>1 DEF Homes, Procs
<1>3. fds[p] = {R(1), W(1)} /\ R(1) # W(1)
  BY <1>1, <1>2, EndsDiffer DEF Pipe
<1>4. /\ pc' \in [Procs -> Places] /\ pc'[p] = IF p = "child" THEN "receive" ELSE "send"
      /\ \A q \in Procs \ {p} : pc'[q] = pc[q]
  BY <1>1, GotoIs
<1>5. /\ fds' \in [Procs -> SUBSET Ends]
      /\ fds'[p] = IF p = "child" THEN {R(1)} ELSE {W(1)}
      /\ \A q \in Procs \ {p} : fds'[q] = fds[q]
      /\ data' \in [Channels -> Seq(Blocks)]
      /\ \A k \in Channels : Len(data'[k]) <= PipeCap
      /\ data'[1] = data[1]
  <2>1. CASE p = "child"
    <3>1. CloseEnds(p, {W(1)})
      BY <1>1, <2>1
    <3>2. fds'[p] = fds[p] \ {W(1)} /\ data'[1] = data[1]
      BY <1>1, <1>3, <3>1, CloseIs
    <3> QED BY <1>1, <1>3, <2>1, <3>1, <3>2, CloseIs
  <2>2. CASE p # "child"
    <3>1. CloseEnds(p, {R(1)})
      BY <1>1, <2>2
    <3>2. fds'[p] = fds[p] \ {R(1)} /\ data'[1] = data[1]
      BY <1>1, <1>3, <3>1, CloseIs
    <3> QED BY <1>1, <1>3, <2>2, <3>1, <3>2, CloseIs
  <2> QED BY <2>1, <2>2
<1>6. left' \in [Procs -> 0..FileLen] /\ (p # "child" => left'[p] = FileLen) /\ (p = "child" => left' = left)
  <2>1. CASE p = "child"
    BY <1>1, <2>1 DEF Types
  <2>2. CASE p # "child"
    <3>1. left' = [left EXCEPT ![p] = FileLen] /\ left \in [Procs -> 0..FileLen] /\ FileLen \in 0..FileLen
      BY <1>1, <2>2 DEF Types
    <3> QED BY <2>2, <3>1
  <2> QED BY <2>1, <2>2
<1>7. Types'
  BY <1>1, <1>4, <1>5, <1>6 DEF Types
<1>8. Homes'
  BY <1>1, <1>2, <1>4 DEF Homes, Procs
<1>9. Pipe'
  <2>1. CASE p = "child"
    BY <1>1, <1>2, <1>4, <1>5, <1>6, <2>1 DEF Pipe, Said, Block
  <2>2. CASE p = "parent"
    <3>1. pc'["parent"] = "send" /\ pc'["child"] = pc["child"] /\ fds'["child"] = fds["child"]
          /\ fds'["parent"] = {W(1)} /\ FileLen - left'["parent"] = 0
      BY <1>2, <1>4, <1>5, <1>6, <2>2
    <3>2. Said("parent", TRUE, 0, got["child"], data[1])
      BY <1>1, <2>2 DEF Pipe
    <3>3. Said("parent", TRUE, FileLen - left["parent"], got["child"], data[1])'
      BY <1>1, <1>5, <3>1, <3>2 DEF Said, Block
    <3>4. pc["child"] # "exit"
      BY <1>1, <2>2 DEF Pipe
    <3> QED BY <1>1, <3>1, <3>3, <3>4 DEF Pipe
  <2> QED BY <1>2, <2>1, <2>2
<1> QED BY <1>1, <1>7, <1>8, <1>9 DEF IInv

\* The child is there as long as the parent can write.
LEMMA SendInv ==
  ASSUME IInv, Send
  PROVE  IInv'
<1> DEFINE b == <<"parent", left["parent"]>>
<1>1. /\ Types /\ Homes /\ pc["parent"] = "send"
      /\ IF left["parent"] > 0
         THEN /\ PutBlock("parent", 1, b, "send")
              /\ left' = [left EXCEPT !["parent"] = @ - 1]
         ELSE CloseEnds("parent", {W(1)}) /\ Goto("parent", "wait") /\ UNCHANGED left
      /\ UNCHANGED <<prog, empty, names, got>>
      /\ {"parent", "child"} \subseteq Procs /\ {"send", "wait"} \subseteq Places /\ 1 \in Channels
  BY DEF Send, IInv, Procs, Places, Channels
<1>2. prog = "pipe"
  BY <1>1 DEF Types, Homes, AllPrograms
<1>3. /\ Pipe /\ fds["parent"] = {W(1)} /\ pc["child"] \in {"close", "receive"} /\ R(1) \in fds["child"]
      /\ Said("parent", TRUE, FileLen - left["parent"], got["child"], data[1])
  BY <1>1, <1>2 DEF IInv, Pipe, Homes
<1>4. /\ got["child"] \in Seq(Blocks) /\ data[1] \in Seq(Blocks)
      /\ left["parent"] \in Nat /\ left["parent"] <= FileLen /\ left["parent"] \in 0..FileLen
  BY <1>1 DEF Types
<1>5. CASE left["parent"] > 0
  <2>1. b \in Blocks /\ b = Block("parent", TRUE, (FileLen - left["parent"]) + 1) /\ FileLen - left["parent"] \in Nat
    BY <1>1, <1>4 DEF Blocks, Block
  <2>2. left' \in [Procs -> 0..FileLen] /\ left'["parent"] = left["parent"] - 1
    <3>1. left["parent"] - 1 \in 0..FileLen
      BY <1>4, <1>5
    <3> QED BY <1>1, <1>5, <3>1 DEF Types
  <2> HIDE DEF b
  <2>3. W(1) \in fds["parent"] /\ HasReader(1)
    BY <1>1, <1>3 DEF HasReader
  <2>4. /\ pc' \in [Procs -> Places] /\ pc'["parent"] = "send"
        /\ \A q \in Procs \ {"parent"} : pc'[q] = pc[q]
        /\ data' \in [Channels -> Seq(Blocks)]
        /\ \A l \in Channels : Len(data'[l]) <= PipeCap
        /\ data'[1] = Append(data[1], b)
        /\ fds' = fds
    BY <1>1, <1>5, <2>1, <2>3, PutIs
  <2>5. Types'
    BY <1>1, <2>2, <2>4 DEF Types
  <2>6. Homes'
    BY <1>1, <1>2, <2>4 DEF Homes, Procs
  <2>7. Said("parent", TRUE, FileLen - left["parent"], got["child"], data[1])'
    <3>1. Said("parent", TRUE, (FileLen - left["parent"]) + 1, got["child"], Append(data[1], b))
      BY <1>1, <1>3, <1>4, <2>1, SaidMore
    <3>2. FileLen - left'["parent"] = (FileLen - left["parent"]) + 1
      BY <1>4, <2>2
    <3>3. Said("parent", TRUE, FileLen - left'["parent"], got'["child"], data'[1])
      BY <1>1, <2>4, <3>1, <3>2
    <3> QED BY <3>3 DEF Said, Block
  <2>8. pc'["child"] = pc["child"]
    BY <1>1, <2>4
  <2>9. Pipe'
    BY <1>3, <2>4, <2>7, <2>8 DEF Pipe
  <2> QED BY <1>1, <1>2, <2>5, <2>6, <2>9 DEF IInv
<1>6. CASE ~(left["parent"] > 0)
  <2>1. /\ CloseEnds("parent", {W(1)}) /\ Goto("parent", "wait") /\ left' = left
        /\ FileLen - left["parent"] = FileLen
    BY <1>1, <1>4, <1>6
  <2>2. /\ pc' \in [Procs -> Places] /\ pc'["parent"] = "wait"
        /\ \A q \in Procs \ {"parent"} : pc'[q] = pc[q]
    BY <1>1, <2>1, GotoIs
  <2>3. /\ fds' \in [Procs -> SUBSET Ends] /\ fds'["parent"] = fds["parent"] \ {W(1)}
        /\ \A q \in Procs \ {"parent"} : fds'[q] = fds[q]
        /\ data' \in [Channels -> Seq(Blocks)]
        /\ \A k \in Channels : Len(data'[k]) <= PipeCap
    BY <1>1, <2>1, CloseIs
  <2>4. data'[1] = data[1]
    <3>1. "child" \in Procs \ {"parent"}
      BY <1>1
    <3> QED BY <1>1, <1>3, <2>1, <3>1, CloseIs
  <2>5. Types'
    BY <1>1, <2>1, <2>2, <2>3 DEF Types
  <2>6. Homes'
    BY <1>1, <1>2, <2>2 DEF Homes, Procs
  <2>7. Said("parent", TRUE, FileLen, got["child"], data[1])'
    <3>1. Said("parent", TRUE, FileLen, got["child"], data[1])
      BY <1>3, <2>1
    <3> QED BY <1>1, <2>4, <3>1 DEF Said, Block
  <2>8. pc'["child"] = pc["child"] /\ fds'["child"] = fds["child"] /\ fds'["parent"] = {}
    BY <1>1, <1>3, <2>2, <2>3
  <2>9. Pipe'
    BY <1>3, <2>2, <2>7, <2>8 DEF Pipe
  <2> QED BY <1>1, <1>2, <2>5, <2>6, <2>9 DEF IInv
<1> QED BY <1>5, <1>6

\* End of file: the parent has said everything and gone.
LEMMA ReceiveInv ==
  ASSUME IInv, Receive
  PROVE  IInv'
<1>1. /\ Types /\ Homes /\ pc["child"] = "receive"
      /\ \/ /\ GetBlock("child", 1, "receive")
            /\ got' = [got EXCEPT !["child"] = Append(@, Head(data[1]))]
         \/ AtEof("child", 1) /\ End("child", "exit") /\ UNCHANGED got
      /\ UNCHANGED <<prog, empty, names, left>>
      /\ {"parent", "child"} \subseteq Procs /\ "receive" \in Places /\ "exit" \in Ended /\ 1 \in Channels
  BY DEF Receive, IInv, Procs, Places, Ended, Channels
<1>2. prog = "pipe"
  BY <1>1 DEF Types, Homes, AllPrograms, ServingProcs
<1>3. Pipe
  BY <1>2 DEF IInv
<1>4. ASSUME GetBlock("child", 1, "receive"), got' = [got EXCEPT !["child"] = Append(@, Head(data[1]))]
      PROVE  IInv'
  <2>1. /\ pc' \in [Procs -> Places] /\ pc'["child"] = "receive"
        /\ \A q \in Procs \ {"child"} : pc'[q] = pc[q]
        /\ data' \in [Channels -> Seq(Blocks)]
        /\ \A l \in Channels : Len(data'[l]) <= PipeCap
        /\ data[1] # <<>> /\ data[1] \in Seq(Blocks) /\ Head(data[1]) \in Blocks
        /\ data'[1] = Tail(data[1])
        /\ fds' = fds
    BY <1>1, <1>4, GetIs
  <2>2. /\ got' \in [Procs -> Seq(Blocks)] /\ got'["child"] = Append(got["child"], Head(data[1]))
        /\ got["child"] \in Seq(Blocks)
    BY <1>1, <1>4, <2>1, GotIs DEF Types
  <2>3. pc'["child"] = pc["child"] /\ pc'["parent"] = pc["parent"]
    BY <1>1, <2>1
  <2>4. Types'
    BY <1>1, <2>1, <2>2 DEF Types
  <2>5. Homes'
    BY <1>1, <1>2, <2>1 DEF Homes, Procs
  <2>6. ASSUME NEW n, Said("parent", TRUE, n, got["child"], data[1])
        PROVE  Said("parent", TRUE, n, got'["child"], data'[1])
    BY <2>1, <2>2, <2>6, SaidIsRead
  <2>7. /\ pc["parent"] = "close" => Said("parent", TRUE, 0, got["child"], data[1])'
        /\ pc["parent"] = "send" => Said("parent", TRUE, FileLen - left["parent"], got["child"], data[1])'
        /\ pc["parent"] \in {"wait", "exit"} => Said("parent", TRUE, FileLen, got["child"], data[1])'
    BY <1>1, <1>3, <2>6 DEF Pipe, Said, Block
  <2>8. Pipe'
    BY <1>1, <1>3, <2>1, <2>3, <2>7 DEF Pipe
  <2> QED BY <1>1, <1>2, <2>4, <2>5, <2>8 DEF IInv
<1>5. ASSUME AtEof("child", 1), End("child", "exit"), got' = got
      PROVE  IInv'
  <2>1. /\ pc' \in [Procs -> Places] /\ pc'["child"] = "exit"
        /\ \A q \in Procs \ {"child"} : pc'[q] = pc[q]
        /\ fds' \in [Procs -> SUBSET Ends] /\ fds'["child"] = {}
        /\ \A q \in Procs \ {"child"} : fds'[q] = fds[q]
        /\ data' \in [Channels -> Seq(Blocks)]
        /\ \A k \in Channels : Len(data'[k]) <= PipeCap /\ data'[k] \in {data[k], <<>>}
    BY <1>1, <1>5, EndIs
  <2>2. Types'
    BY <1>1, <1>5, <2>1 DEF Types
  <2>3. Homes'
    BY <1>1, <1>2, <2>1 DEF Homes, Procs
  <2>4. data[1] = <<>> /\ data'[1] = <<>> /\ W(1) \notin fds["parent"]
    BY <1>1, <1>5, <2>1 DEF AtEof, HasWriter
  <2>5. pc["parent"] \in {"wait", "exit"}
    BY <1>1, <1>2, <1>3, <2>4 DEF Homes, Pipe
  <2>6. Said("parent", TRUE, FileLen, got["child"], data[1])'
    BY <1>3, <1>5, <2>4, <2>5 DEF Pipe, Said, Block
  <2>7. pc'["parent"] = pc["parent"] /\ fds'["parent"] = fds["parent"]
    BY <1>1, <2>1
  <2>8. Pipe'
    BY <1>3, <2>1, <2>4, <2>5, <2>6, <2>7 DEF Pipe
  <2> QED BY <1>1, <1>2, <2>2, <2>3, <2>8 DEF IInv
<1> QED BY <1>1, <1>4, <1>5

\* Of fduplex only the places matter.
LEMMA DuplexInv ==
  ASSUME IInv, NEW p \in {"parent", "child"}, prog \in {"fduplex", "stream"}, prog' = prog, Types',
         pc'[p] \in {"say", "hear", "leave", "dead"}, \A q \in Procs \ {p} : pc'[q] = pc[q]
  PROVE  IInv'
<1>1. Homes'
  BY DEF IInv, Homes, Procs
<1> QED BY <1>1 DEF IInv

LEMMA SayInv ==
  ASSUME IInv, NEW p \in Procs, Say(p)
  PROVE  IInv'
<1> DEFINE k == IF p = "parent" THEN 1 ELSE 2
           to == IF p = "parent" THEN "hear" ELSE "leave"
           b == <<p, 1>>
<1>1. /\ Types /\ Homes /\ pc[p] = "say" /\ PutBlock(p, k, b, to)
      /\ UNCHANGED <<prog, empty, names, left, got>>
  BY DEF Say, IInv
<1>2. k \in Channels /\ b \in Blocks /\ to \in Places /\ to \in {"hear", "leave"} /\ "dead" \in Ended
  BY DEF Channels, Blocks, Places, Ended
<1>3. p \in {"parent", "child"} /\ prog \in {"fduplex", "stream"}
  BY <1>1 DEF Types, Homes, AllPrograms, Procs, ServingProcs
<1> HIDE DEF k, to, b
<1>4. CASE End(p, "dead")
  <2>1. /\ pc' \in [Procs -> Places] /\ pc'[p] = "dead"
        /\ \A q \in Procs \ {p} : pc'[q] = pc[q]
        /\ fds' \in [Procs -> SUBSET Ends]
        /\ data' \in [Channels -> Seq(Blocks)]
        /\ \A l \in Channels : Len(data'[l]) <= PipeCap
    BY <1>1, <1>2, <1>4, EndIs
  <2>2. Types'
    BY <1>1, <2>1 DEF Types
  <2> QED BY <1>1, <1>3, <2>1, <2>2, DuplexInv
<1>5. CASE ~End(p, "dead")
  <2>1. /\ pc' \in [Procs -> Places] /\ pc'[p] = to
        /\ \A q \in Procs \ {p} : pc'[q] = pc[q]
        /\ data' \in [Channels -> Seq(Blocks)]
        /\ \A l \in Channels : Len(data'[l]) <= PipeCap
        /\ fds' = fds
    BY <1>1, <1>2, <1>5, PutIs
  <2>2. Types'
    BY <1>1, <2>1 DEF Types
  <2> QED BY <1>1, <1>2, <1>3, <2>1, <2>2, DuplexInv
<1> QED BY <1>4, <1>5

LEMMA HearInv ==
  ASSUME IInv, NEW p \in Procs, Hear(p)
  PROVE  IInv'
<1> DEFINE k == IF p = "parent" THEN 2 ELSE 1
           to == IF p = "parent" THEN "leave" ELSE "say"
<1>1. /\ Types /\ Homes /\ pc[p] = "hear"
      /\ \/ GetBlock(p, k, to) /\ got' = [got EXCEPT ![p] = Append(@, Head(data[k]))]
         \/ End(p, "dead") /\ UNCHANGED got
      /\ UNCHANGED <<prog, empty, names, left>>
  BY DEF Hear, IInv
<1>2. k \in Channels /\ to \in Places /\ to \in {"say", "leave"} /\ "dead" \in Ended
  BY DEF Channels, Places, Ended
<1>3. p \in {"parent", "child"} /\ prog \in {"fduplex", "stream"}
  BY <1>1 DEF Types, Homes, AllPrograms, Procs, ServingProcs
<1> HIDE DEF k, to
<1>4. ASSUME GetBlock(p, k, to), got' = [got EXCEPT ![p] = Append(@, Head(data[k]))] PROVE IInv'
  <2>1. /\ pc' \in [Procs -> Places] /\ pc'[p] = to
        /\ \A q \in Procs \ {p} : pc'[q] = pc[q]
        /\ data' \in [Channels -> Seq(Blocks)]
        /\ \A l \in Channels : Len(data'[l]) <= PipeCap
        /\ Head(data[k]) \in Blocks
        /\ fds' = fds
    BY <1>1, <1>2, <1>4, GetIs
  <2>2. got' \in [Procs -> Seq(Blocks)]
    BY <1>1, <1>4, <2>1, GotIs
  <2>3. Types'
    BY <1>1, <2>1, <2>2 DEF Types
  <2> QED BY <1>1, <1>2, <1>3, <2>1, <2>3, DuplexInv
<1>5. ASSUME End(p, "dead"), got' = got PROVE IInv'
  <2>1. /\ pc' \in [Procs -> Places] /\ pc'[p] = "dead"
        /\ \A q \in Procs \ {p} : pc'[q] = pc[q]
        /\ fds' \in [Procs -> SUBSET Ends]
        /\ data' \in [Channels -> Seq(Blocks)]
        /\ \A l \in Channels : Len(data'[l]) <= PipeCap
    BY <1>1, <1>2, <1>5, EndIs
  <2>2. Types'
    BY <1>1, <1>5, <2>1 DEF Types
  <2> QED BY <1>1, <1>3, <2>1, <2>2, DuplexInv
<1> QED BY <1>1, <1>4, <1>5

-----------------------------------------------------------------------------
(* The invariant                                                            *)

LEMMA StutterInv ==
  ASSUME IInv, UNCHANGED vars
  PROVE  IInv'
<1> USE DEF vars
<1>1. Types' /\ Homes'
  BY DEF IInv, Types, Homes
<1>2. FifoEnds' = FifoEnds
  BY DEF FifoEnds
<1>3. FifoAsks' = FifoAsks
  BY DEF FifoAsks, Answers, Progress, Said, Block
<1>4. prog = "fifo" => Fifo'
  BY <1>2, <1>3 DEF IInv, Fifo, Whole
<1>5. prog = "mainpipe" => Mainpipe'
  BY DEF IInv, Mainpipe
<1>6. prog = "pipe" => Pipe'
  BY DEF IInv, Pipe, Said, Block
<1> QED BY <1>1, <1>4, <1>5, <1>6 DEF IInv

LEMMA StepInv == IInv /\ [Next]_vars => IInv'
<1> SUFFICES ASSUME IInv, [Next]_vars PROVE IInv'
  OBVIOUS
<1>1. ASSUME NEW p \in Procs, Step(p) PROVE IInv'
  <2>1. CASE OpenFifo(p)
    BY <2>1, OpenFifoInv
  <2>2. CASE CloseUnused(p)
    BY <2>2, CloseUnusedInv
  <2>3. CASE CloseOther(p)
    BY <2>3, CloseOtherInv
  <2>4. CASE Serve(p)
    BY <2>4, ServeInv
  <2>5. CASE Complain(p)
    BY <2>5, ComplainInv
  <2>6. CASE Copy(p)
    BY <2>6, CopyInv
  <2>7. CASE Leave(p)
    BY <2>7, LeaveInv
  <2>8. CASE Say(p)
    BY <2>8, SayInv
  <2>9. CASE Hear(p)
    BY <2>9, HearInv
  <2> QED BY <1>1, <2>1, <2>2, <2>3, <2>4, <2>5, <2>6, <2>7, <2>8, <2>9 DEF Step
<1>2. ASSUME Parent PROVE IInv'
  <2>1. CASE ParentStart
    BY <2>1, ParentStartInv
  <2>2. CASE Request
    BY <2>2, RequestInv
  <2>3. CASE ReadAnswer
    BY <2>3, ReadAnswerInv
  <2>4. CASE ParentWait
    BY <2>4, ParentWaitInv
  <2>5. CASE ParentUnlink
    BY <2>5, ParentUnlinkInv
  <2>6. CASE Send
    BY <2>6, SendInv
  <2> QED BY <1>2, <2>1, <2>2, <2>3, <2>4, <2>5, <2>6 DEF Parent
<1>3. CASE Receive
  BY <1>3, ReceiveInv
<1>4. CASE ServerStart
  BY <1>4, ServerStartInv
<1>5. CASE UNCHANGED vars
  BY <1>5, StutterInv
<1> QED BY <1>1, <1>2, <1>3, <1>4, <1>5 DEF Next

LEMMA AlwaysIInv == Spec => []IInv
<1> QED BY InitInv, StepInv, PTL DEF Spec

-----------------------------------------------------------------------------
(* Theorems                                                                 *)

\* Every variable has its type: no channel holds more than it can, and nobody
\* writes more than the file.
THEOREM TypeCorrect == Spec => []TypeOK
<1>1. IInv => TypeOK
  BY DEF IInv, Types, TypeOK
<1> QED BY <1>1, AlwaysIInv, PTL

\* Who has read to end of file has the whole of what one process had to say:
\* the client of fifo, also when a second server reads from the same FIFO, and
\* the child of pipe.
THEOREM WholeAnswer == Spec => []AnswerIsWhole
<1>1. ASSUME IInv PROVE AnswerIsWhole
  <2>1. ASSUME prog \in {"fifo", "mainpipe"}, pc["parent"] \in {"wait", "unlink1", "unlink2", "exit"}
        PROVE  got["parent"] \in Whole("child") \cup Whole("server")
    <3>1. prog = "fifo"
      BY <1>1, <2>1 DEF IInv, Homes
    <3> QED BY <1>1, <2>1, <3>1 DEF IInv, Fifo, Asked
  <2>2. ASSUME prog = "pipe", pc["child"] = "exit"
        PROVE  got["child"] \in Whole("parent")
    <3>1. Said("parent", TRUE, FileLen, got["child"], <<>>)
      BY <1>1, <2>2 DEF IInv, Pipe
    <3>2. got["child"] \in Seq(Blocks) /\ "parent" \in Procs
      BY <1>1 DEF IInv, Types, Procs
    <3> QED BY <3>1, <3>2, SaidAll
  <2> QED BY <2>1, <2>2 DEF AnswerIsWhole
<1> QED BY <1>1, AlwaysIInv, PTL
=============================================================================
