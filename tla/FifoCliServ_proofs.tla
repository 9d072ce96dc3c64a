------------------------- MODULE FifoCliServ_proofs -------------------------
(***************************************************************************)
(* Theorems about FifoCliServ, for any set of clients, any of them killed, *)
(* any number of restarts and any size of the file, the pipes and the      *)
(* buffer of readline: the server never sees end of file, whoever gets to  *)
(* the end of an answer has got its own and all of it, and the server      *)
(* waits only for a client that has asked.                                 *)
(*                                                                         *)
(* The argument follows a request: it is in the FIFO once and in one piece *)
(* (Stream), then in the line of the server (Line), and its client has not *)
(* been answered as long as it is there.                                   *)
(***************************************************************************)
EXTENDS FifoCliServ, SequenceTheorems, TLAPS

Tokens == Clients \cup {Newline, Junk}

\* The server has the dummy descriptor; it holds a line; it has a reply open.
Serving == {"readline", "request", "open_reply", "open_file", "copy"}
HoldsLine == {"request", "open_reply", "open_file", "copy"}
Replying == {"open_file", "copy"}

Types ==
  /\ kind \in [Clients -> Kinds]
  /\ cpc \in [Clients -> {"mkfifo", "open_serv", "write", "open_own", "read",
                          "exit", "failed", "crashed"}]
  /\ fifo \subseteq Clients
  /\ replies \in [Clients -> 0..PipeCap]
  /\ got \in [Clients -> 0..FileLen]
  /\ servfifo \in BOOLEAN
  /\ stream \in Seq(Tokens) /\ line \in Seq(Tokens)
  /\ spc \in {"off", "open_read", "open_dummy", "dead"} \cup Serving
  /\ left \in 0..FileLen
  /\ runs \in 0..MaxRuns /\ cut \subseteq Clients

\* What the server has at each of its places.
ServerHas ==
  /\ dummyfd = IF spc \in Serving THEN TRUE ELSE FALSE
  /\ IF spc \in HoldsLine \ {"request"}
     THEN target = line[1] /\ target \in Clients
     ELSE target = None
  /\ writing = IF spc \in Replying THEN {target} ELSE {}
  /\ spc \notin {"readline"} \cup HoldsLine => line = <<>>
  /\ spc = "readline" => Len(line) < MAXLINE - 1
  /\ spc \in HoldsLine => Len(line) \in 1..MAXLINE-1

\* The client has sent its request and has not been answered.
Asked(c) == cpc[c] \in {IF IsClient(c) THEN "open_own" ELSE "exit", "crashed"}

\* A request is in the FIFO once, the one for a file with its newline behind it.
Stream ==
  /\ \A k \in 1..Len(stream) : stream[k] \in Clients => Asked(stream[k])
  /\ \A k, l \in 1..Len(stream) :
       stream[k] \in Clients /\ stream[k] = stream[l] => k = l
  /\ \A k \in 1..Len(stream) :
       stream[k] \in Clients /\ kind[stream[k]] = "file" =>
         k < Len(stream) /\ stream[k+1] = Newline

\* The line that the server holds, or is about to hold.
Line ==
  line # <<>> /\ line[1] \in Clients =>
    /\ \A k \in 1..Len(stream) : stream[k] # line[1]
    /\ spc \notin Replying => Asked(line[1])
    /\ kind[line[1]] = "file" =>
         IF spc = "readline"
         THEN line = <<line[1]>> /\ stream # <<>> /\ stream[1] = Newline
         ELSE line = <<line[1], Newline>>

\* The answer, part by part: what the client has read, what is in its FIFO and
\* what the server has still to write.
Whole(c) == IF kind[c] = "file" THEN FileLen ELSE 1
Due(c) == IF c = target /\ spc = "open_file" THEN Whole(c)
          ELSE IF c = target /\ spc = "copy" THEN left ELSE 0
Answer(c) ==
  /\ cpc[c] \notin {"read", "exit", "crashed"} => got[c] = 0
  /\ cpc[c] # "read" => replies[c] = 0
  /\ cpc[c] = "exit" /\ ~IsClient(c) => got[c] = 0
  /\ got[c] + replies[c] <= Whole(c)
  /\ cpc[c] = "read" => IsClient(c) /\ (c \in cut \/ got[c] + replies[c] + Due(c) = Whole(c))
  /\ cpc[c] = "read" /\ c \in writing => got[c] + replies[c] + Due(c) = Whole(c)
  /\ cpc[c] = "exit" /\ IsClient(c) => c \notin writing /\ (got[c] = Whole(c) \/ c \in cut)

IInv ==
  /\ Types
  /\ ServerHas
  /\ \A c \in fifo : IsClient(c)
  /\ spc \in Replying => cpc[target] \in {"read", "crashed"}
  /\ Stream
  /\ Line
  /\ \A c \in Clients : Answer(c)

USE FifoAssumption

LEMMA InitInv == Init => IInv
<1> SUFFICES ASSUME Init PROVE IInv
  OBVIOUS
<1> USE DEF Init, clientVars, serverVars, history
<1>1. stream \in Seq(Tokens) /\ line \in Seq(Tokens) /\ Len(stream) = 0
  OBVIOUS
<1>2. Types
  BY <1>1 DEF Types, Serving
<1>3. ServerHas /\ spc \notin Replying
  <2>1. dummyfd = FALSE /\ spc = "off" /\ target = None /\ writing = {} /\ line = <<>>
    OBVIOUS
  <2> QED BY ONLY <2>1 DEF ServerHas, Serving, HoldsLine, Replying
<1>4. \A c \in fifo : IsClient(c)
  OBVIOUS
<1>5. Stream /\ Line
  BY <1>1 DEF Stream, Line
<1>6. \A c \in Clients : Answer(c)
  BY <1>3 DEF Answer, Whole
<1> QED BY <1>2, <1>3, <1>4, <1>5, <1>6 DEF IInv

-----------------------------------------------------------------------------
(* What steps leave alone                                                   *)

\* The FIFO loses some of what is at its head.
Suffix(d) ==
  /\ d \in 0..Len(stream)
  /\ Len(stream') = Len(stream) - d
  /\ \A k \in 1..Len(stream') : stream'[k] = stream[k+d]

LEMMA StreamShrinks ==
  ASSUME IInv, NEW d, Suffix(d), kind' = kind,
         \A c \in Clients : Asked(c) /\ (\E k \in 1..Len(stream) : stream[k] = c) => Asked(c)'
  PROVE  Stream'
<1>1. Stream /\ Len(stream) \in Nat
  BY DEF IInv, Types
<1>2. \A k \in 1..Len(stream') : k + d \in 1..Len(stream)
  BY <1>1 DEF Suffix
<1>3. ASSUME NEW k \in 1..Len(stream'), stream'[k] \in Clients
      PROVE  Asked(stream[k])'
  <2> DEFINE c == stream'[k]
  <2>1. c = stream[k+d] /\ k + d \in 1..Len(stream) /\ c \in Clients
    BY <1>2, <1>3 DEF Suffix
  <2>2. Asked(stream[k+d])
    BY <1>1, <2>1 DEF Stream
  <2>3. cpc'[c] \in {IF kind'[c] \notin {"bogus", "nofifo"} THEN "open_own" ELSE "exit", "crashed"}
    BY <2>1, <2>2 DEF Asked, IsClient
  <2> QED BY <2>3 DEF Asked, IsClient
<1>4. ASSUME NEW k \in 1..Len(stream'), NEW l \in 1..Len(stream'),
             stream'[k] \in Clients, stream'[k] = stream'[l]
      PROVE  k = l
  <2>1. k + d = l + d
    BY <1>1, <1>2, <1>4 DEF Suffix, Stream
  <2> QED BY <2>1 DEF Suffix
<1>5. ASSUME NEW k \in 1..Len(stream'), stream'[k] \in Clients, kind[stream'[k]] = "file"
      PROVE  k < Len(stream') /\ stream'[k+1] = Newline
  <2>1. k + d < Len(stream) /\ stream[k+d+1] = Newline
    BY <1>1, <1>2, <1>5 DEF Suffix, Stream
  <2>2. k + 1 \in 1..Len(stream') /\ k < Len(stream')
    BY <1>1, <2>1 DEF Suffix
  <2>3. stream'[k+1] = stream[k+1+d] /\ k+1+d = k+d+1
    BY <2>2 DEF Suffix
  <2> QED BY <2>1, <2>2, <2>3
<1> QED BY <1>3, <1>4, <1>5 DEF Stream

\* What a step of client c leaves alone.
ClientFrame(c) ==
  /\ kind' = kind /\ dummyfd' = dummyfd /\ line' = line /\ target' = target
  /\ left' = left /\ writing' = writing /\ runs' = runs /\ cut' = cut
  /\ \/ spc' = spc
     \/ spc = "open_read" /\ spc' = "open_dummy"
  /\ \A b \in Clients \ {c} :
       cpc'[b] = cpc[b] /\ replies'[b] = replies[b] /\ got'[b] = got[b]

LEMMA ClientLeavesServer ==
  ASSUME IInv, NEW c \in Clients, ClientFrame(c), c \in writing => cpc'[c] \in {"read", "crashed"}
  PROVE  /\ ServerHas'
         /\ spc' \in Replying => cpc'[target'] \in {"read", "crashed"}
         /\ \A b \in Clients \ {c} : Answer(b)'
<1> USE DEF ClientFrame
<1>1. ServerHas /\ Types
  BY DEF IInv
<1>2. ServerHas'
  BY <1>1 DEF ServerHas, Serving, HoldsLine, Replying
<1>3. ASSUME spc' \in Replying PROVE cpc'[target'] \in {"read", "crashed"}
  <2>1. spc \in Replying /\ target' = target /\ writing = {target}
    BY <1>1, <1>3 DEF Replying, ServerHas
  <2>2. target \in Clients
    BY <1>1, <2>1 DEF ServerHas, HoldsLine, Replying
  <2>3. cpc[target] \in {"read", "crashed"}
    BY <2>1 DEF IInv
  <2> QED BY <2>1, <2>2, <2>3
<1>4. ASSUME NEW b \in Clients \ {c} PROVE Answer(b)'
  <2>1. Answer(b)
    BY DEF IInv
  <2>2. Due(b)' = Due(b) /\ Whole(b)' = Whole(b) /\ IsClient(b)' = IsClient(b)
    BY DEF Due, Whole, IsClient
  <2> QED BY <2>1, <2>2 DEF Answer
<1> QED BY <1>2, <1>3, <1>4

\* What is in the FIFO is only lost when nobody reads it.
LEMMA ClientLeavesStream ==
  ASSUME IInv, NEW c \in Clients, ClientFrame(c), Asked(c) => Asked(c)',
         stream' = stream \/ (stream' = <<>> /\ ~ServerReads)
  PROVE  Stream' /\ Line'
<1> USE DEF ClientFrame
<1>1. ServerHas /\ Types /\ Line /\ Len(stream) \in Nat
  BY DEF IInv, Types
<1>2. ASSUME NEW b \in Clients, Asked(b) PROVE Asked(b)'
  <2>1. CASE b = c
    BY <1>2, <2>1
  <2>2. CASE b # c
    BY <1>2, <2>2 DEF Asked, IsClient
  <2> QED BY <2>1, <2>2
<1>3. CASE stream' = stream
  <2>1. Suffix(0)
    BY <1>1, <1>3 DEF Suffix
  <2>2. Stream'
    BY <1>2, <2>1, StreamShrinks
  <2>3. Line'
    <3>1. (spc' \in Replying <=> spc \in Replying) /\ (spc' = "readline" <=> spc = "readline")
      BY DEF Replying
    <3> QED BY <1>1, <1>2, <1>3, <3>1 DEF Line
  <2> QED BY <2>2, <2>3
<1>4. CASE stream' = <<>> /\ ~ServerReads
  <2>1. Suffix(Len(stream))
    BY <1>1, <1>4 DEF Suffix
  <2>2. Stream'
    BY <1>2, <2>1, StreamShrinks
  <2>3. line' = <<>>
    BY <1>1, <1>4 DEF ServerHas, ServerReads, HoldsLine
  <2> QED BY <2>2, <2>3 DEF Line
<1> QED BY <1>3, <1>4

LEMMA ClientStepInv ==
  ASSUME IInv, NEW c \in Clients, ClientFrame(c), c \in writing => cpc'[c] \in {"read", "crashed"},
         Types', \A b \in fifo' : IsClient(b)', Stream', Line', Answer(c)'
  PROVE  IInv'
<1>1. /\ ServerHas' /\ (spc' \in Replying => cpc'[target'] \in {"read", "crashed"})
      /\ \A b \in Clients \ {c} : Answer(b)'
  BY ClientLeavesServer
<1>2. \A b \in Clients : Answer(b)'
  BY <1>1
<1> QED BY <1>1, <1>2 DEF IInv

\* Who is answered is at its read.
LEMMA OnlyReadersAnswered ==
  ASSUME IInv, NEW c \in writing
  PROVE  c = target /\ spc \in Replying /\ cpc[c] \in {"read", "crashed"}
<1>1. ServerHas
  BY DEF IInv
<1>2. spc \in Replying
  BY <1>1 DEF ServerHas
<1> QED BY <1>1, <1>2 DEF ServerHas, IInv

-----------------------------------------------------------------------------
(* The client moves                                                         *)

LEMMA MkfifoInv ==
  ASSUME IInv, NEW c \in Clients, ClientMkfifo(c)
  PROVE  IInv'
<1> USE DEF ClientMkfifo, ClientStep, clientVars, serverVars, history
<1>1. Types /\ cpc[c] = "mkfifo" /\ Answer(c)
  BY DEF IInv
<1>2. /\ cpc'[c] = IF servfifo THEN "open_serv" ELSE "failed"
      /\ \A b \in Clients \ {c} : cpc'[b] = cpc[b]
  BY <1>1 DEF Types
<1>3. ClientFrame(c)
  BY <1>2 DEF ClientFrame
<1>4. c \notin writing
  BY <1>1, OnlyReadersAnswered
<1>5. Types'
  BY <1>1 DEF Types
<1>6. \A b \in fifo' : IsClient(b)'
  BY DEF IInv, IsClient
<1>7. ~Asked(c)
  BY <1>1 DEF Asked
<1>8. Stream' /\ Line'
  <2>1. Asked(c) => Asked(c)'
    BY <1>7
  <2>2. stream' = stream
    OBVIOUS
  <2> QED BY <1>3, <2>1, <2>2, ClientLeavesStream
<1>9. Answer(c)'
  BY <1>1, <1>2 DEF Answer, Whole
<1> QED BY <1>3, <1>4, <1>5, <1>6, <1>8, <1>9, ClientStepInv

LEMMA OpenServInv ==
  ASSUME IInv, NEW c \in Clients, ClientOpenServ(c)
  PROVE  IInv'
<1> USE DEF ClientOpenServ, ClientStep, clientVars, serverVars, history
<1>1. Types /\ cpc[c] = "open_serv" /\ Answer(c)
  BY DEF IInv
<1>2. /\ cpc'[c] = "write"
      /\ \A b \in Clients \ {c} : cpc'[b] = cpc[b]
  BY <1>1 DEF Types
<1>3. ClientFrame(c)
  BY <1>2 DEF ClientFrame
<1>4. c \notin writing
  BY <1>1, OnlyReadersAnswered
<1>5. Types'
  BY <1>1 DEF Types
<1>6. \A b \in fifo' : IsClient(b)'
  BY DEF IInv, IsClient
<1>7. ~Asked(c)
  BY <1>1 DEF Asked
<1>8. Stream' /\ Line'
  <2>1. Asked(c) => Asked(c)'
    BY <1>7
  <2>2. stream' = stream
    OBVIOUS
  <2> QED BY <1>3, <2>1, <2>2, ClientLeavesStream
<1>9. Answer(c)'
  BY <1>1, <1>2 DEF Answer, Whole
<1> QED BY <1>3, <1>4, <1>5, <1>6, <1>8, <1>9, ClientStepInv

\* The request of c comes in one piece behind those of others, and c has none
\* in the FIFO yet.
LEMMA RequestJoins ==
  ASSUME IInv, NEW c \in Clients, cpc[c] = "write", ClientFrame(c), Asked(c)', ServerReads,
         stream' = stream \o Request(c)
  PROVE  Stream' /\ Line' /\ stream' \in Seq(Tokens)
<1> USE DEF ClientFrame
<1> DEFINE r == Request(c)  n == Len(stream)
<1>1. /\ Types /\ Stream /\ Line /\ stream \in Seq(Tokens) /\ n \in Nat
      /\ kind[c] \in AllKinds
  BY DEF IInv, Types
<1>2. \/ r = <<c, Newline>> /\ kind[c] \in {"file", "missing", "nofifo"}
      \/ r = <<c>> /\ kind[c] = "part"
      \/ r = <<Junk, Newline>> /\ kind[c] = "bogus"
  BY <1>1 DEF Request, AllKinds
<1>3. /\ r \in Seq(Tokens) /\ Len(r) \in 1..2 /\ r[1] \in {c, Junk} /\ (Len(r) = 2 => r[2] = Newline)
      /\ r[1] = c /\ kind[c] = "file" => Len(r) = 2
  <2>1. CASE r = <<c, Newline>>
    BY <2>1 DEF Tokens
  <2>2. CASE r = <<c>> /\ kind[c] = "part"
    BY <2>2 DEF Tokens
  <2>3. CASE r = <<Junk, Newline>> /\ kind[c] = "bogus"
    BY <2>3 DEF Tokens
  <2> QED BY <1>2, <2>1, <2>2, <2>3
<1> HIDE DEF r
<1>4. /\ stream' \in Seq(Tokens) /\ Len(stream') = n + Len(r)
      /\ \A k \in 1..n + Len(r) : stream'[k] = IF k <= n THEN stream[k] ELSE r[k - n]
  BY <1>1, <1>3, ConcatProperties DEF r
<1>5. ~Asked(c)
  BY DEF Asked
<1>6. /\ \A k \in 1..n : stream'[k] = stream[k] /\ stream[k] # c
      /\ stream'[n+1] = r[1] /\ (Len(r) = 2 => stream'[n+2] = Newline)
  <2>1. \A k \in 1..n : stream[k] # c
    BY <1>1, <1>5 DEF Stream
  <2>2. \A k \in 1..n : stream'[k] = stream[k]
    BY <1>1, <1>3, <1>4
  <2>3. stream'[n+1] = r[1]
    <3>1. n + 1 \in 1..n + Len(r) /\ ~(n + 1 <= n) /\ (n + 1) - n = 1
      BY <1>1, <1>3
    <3> QED BY <1>4, <3>1
  <2>4. Len(r) = 2 => stream'[n+2] = r[2]
    <3>1. Len(r) = 2 => n + 2 \in 1..n + Len(r) /\ ~(n + 2 <= n) /\ (n + 2) - n = 2
      BY <1>1
    <3> QED BY <1>4, <3>1
  <2> QED BY <1>3, <2>1, <2>2, <2>3, <2>4
<1>7. Newline \notin Clients /\ Junk \notin Clients
  OBVIOUS
<1>8. \A k \in 1..Len(stream') : stream'[k] \in Clients => k \in 1..n \/ (k = n + 1 /\ stream'[k] = c)
  <2> SUFFICES ASSUME NEW k \in 1..Len(stream'), stream'[k] \in Clients
               PROVE  k \in 1..n \/ (k = n + 1 /\ stream'[k] = c)
    OBVIOUS
  <2>1. k \in 1..n \/ k = n + 1 \/ (k = n + 2 /\ Len(r) = 2)
    BY <1>1, <1>3, <1>4
  <2> QED BY <1>3, <1>6, <1>7, <2>1
<1>9. ASSUME NEW b \in Clients, Asked(b) PROVE Asked(b)'
  <2>1. b # c
    BY <1>5, <1>9
  <2> QED BY <1>9, <2>1 DEF Asked, IsClient
<1>10. ASSUME NEW k \in 1..Len(stream'), stream'[k] \in Clients
       PROVE  Asked(stream[k])'
  <2>1. PICK b \in Clients : b = stream'[k]
    BY <1>10
  <2>2. b = c \/ Asked(b)
    BY <1>1, <1>6, <1>8, <1>10, <2>1 DEF Stream
  <2>3. Asked(b)'
    BY <1>9, <2>2
  <2> QED BY <2>1, <2>3 DEF Asked, IsClient
<1>11. Stream'
  <2>1. ASSUME NEW k \in 1..Len(stream'), NEW l \in 1..Len(stream'),
               stream'[k] \in Clients, stream'[k] = stream'[l]
        PROVE  k = l
    BY <1>1, <1>6, <1>8, <2>1 DEF Stream
  <2>2. ASSUME NEW k \in 1..Len(stream'), stream'[k] \in Clients, kind'[stream'[k]] = "file"
        PROVE  k < Len(stream') /\ stream'[k+1] = Newline
    <3>1. CASE k \in 1..n
      <4>1. k < n /\ stream[k+1] = Newline
        BY <1>1, <1>6, <2>2, <3>1 DEF Stream
      <4> QED BY <1>1, <1>3, <1>4, <1>6, <4>1
    <3>2. CASE k = n + 1 /\ stream'[k] = c
      BY <1>1, <1>3, <1>4, <1>6, <2>2, <3>2
    <3> QED BY <1>8, <2>2, <3>1, <3>2
  <2> QED BY <1>10, <2>1, <2>2 DEF Stream
<1>12. Line'
  <2> SUFFICES ASSUME line # <<>>, line[1] \in Clients
               PROVE  Line'
    BY DEF Line
  <2>1. /\ \A k \in 1..n : stream[k] # line[1]
        /\ spc \notin Replying => Asked(line[1])
    BY <1>1 DEF Line
  <2>2. kind[line[1]] = "file" =>
         IF spc = "readline"
         THEN line = <<line[1]>> /\ stream # <<>> /\ stream[1] = Newline
         ELSE line = <<line[1], Newline>>
    BY <1>1 DEF Line
  <2>3. line[1] # c
    <3>1. spc \in Replying => line[1] = target /\ cpc[target] \in {"read", "crashed"}
      BY DEF IInv, ServerHas, Replying, HoldsLine
    <3> QED BY <1>5, <2>1, <3>1
  <2>4. \A k \in 1..Len(stream') : stream'[k] # line[1]
    BY <1>6, <1>8, <2>1, <2>3
  <2>5. stream # <<>> => stream' # <<>> /\ stream'[1] = stream[1]
    BY <1>1, <1>3, <1>4, <1>6
  <2>6. (spc' \in Replying <=> spc \in Replying) /\ (spc' = "readline" <=> spc = "readline")
    BY DEF Replying
  <2>7. spc \notin Replying => Asked(line[1])'
    <3>1. line' = line
      OBVIOUS
    <3>2. spc \notin Replying => cpc'[line[1]] = cpc[line[1]]
      BY <2>3
    <3> QED BY <2>1, <3>1, <3>2 DEF Asked, IsClient
  <2> QED BY <2>2, <2>4, <2>5, <2>6, <2>7 DEF Line
<1> QED BY <1>4, <1>11, <1>12

LEMMA WriteInv ==
  ASSUME IInv, NEW c \in Clients, ClientWrite(c)
  PROVE  IInv'
<1> USE DEF clientVars, serverVars, history
<1>1. Types /\ cpc[c] = "write" /\ Answer(c)
  BY DEF IInv, ClientWrite, ClientStep
<1>2. /\ kind' = kind /\ fifo' = fifo /\ got' = got /\ replies' = replies /\ servfifo' = servfifo
      /\ spc' = spc /\ UNCHANGED serverVars /\ UNCHANGED history
  BY DEF ClientWrite, ClientStep
<1>3. c \notin writing /\ ~Asked(c)
  BY <1>1, OnlyReadersAnswered DEF Asked
<1>4. \A b \in fifo' : IsClient(b)'
  BY <1>2 DEF IInv, IsClient
<1>5. CASE ServerReads
  <2>1. /\ cpc' = [cpc EXCEPT ![c] = IF IsClient(c) THEN "open_own" ELSE "exit"]
        /\ stream' = stream \o Request(c)
    BY <1>5 DEF ClientWrite, ClientStep
  <2>2. /\ cpc'[c] = IF IsClient(c) THEN "open_own" ELSE "exit"
        /\ \A b \in Clients \ {c} : cpc'[b] = cpc[b]
    BY <1>1, <2>1 DEF Types
  <2>3. ClientFrame(c)
    BY <1>2, <2>2 DEF ClientFrame
  <2>4. Asked(c)'
    BY <1>2, <2>2 DEF Asked, IsClient
  <2>5. Stream' /\ Line' /\ stream' \in Seq(Tokens)
    BY <1>1, <1>5, <2>1, <2>3, <2>4, RequestJoins
  <2>6. Types'
    BY <1>1, <1>2, <2>1, <2>5 DEF Types
  <2>7. Answer(c)'
    <3>1. IsClient(c)' = IsClient(c) /\ Whole(c)' = Whole(c)
      BY <1>2 DEF IsClient, Whole
    <3> QED BY <1>1, <1>2, <2>2, <3>1 DEF Answer
  <2> QED BY <1>3, <1>4, <2>3, <2>5, <2>6, <2>7, ClientStepInv
<1>6. CASE ~ServerReads
  <2>1. cpc' = [cpc EXCEPT ![c] = "crashed"] /\ (stream' = stream \/ stream' = <<>>)
    BY <1>6 DEF ClientWrite, ClientStep, StreamWithout
  <2>2. cpc'[c] = "crashed" /\ \A b \in Clients \ {c} : cpc'[b] = cpc[b]
    BY <1>1, <2>1 DEF Types
  <2>3. ClientFrame(c)
    BY <1>2, <2>2 DEF ClientFrame
  <2>4. Stream' /\ Line'
    BY <1>3, <1>6, <2>1, <2>3, ClientLeavesStream
  <2>5. Types'
    <3>1. stream \in Seq(Tokens) /\ <<>> \in Seq(Tokens)
      BY <1>1 DEF Types
    <3>2. stream' \in Seq(Tokens)
      BY ONLY <2>1, <3>1
    <3> QED BY <1>1, <1>2, <2>1, <3>2 DEF Types
  <2>6. Answer(c)'
    BY <1>1, <1>2, <2>2 DEF Answer, Whole
  <2> QED BY <1>3, <1>4, <2>3, <2>4, <2>5, <2>6, ClientStepInv
<1> QED BY <1>5, <1>6

LEMMA ReadInv ==
  ASSUME IInv, NEW c \in Clients, ClientRead(c)
  PROVE  IInv'
<1> USE DEF ClientRead, ClientStep, serverVars, history
<1>1. Types /\ cpc[c] = "read" /\ Answer(c)
  BY DEF IInv
<1>2. /\ cpc'[c] = "read" /\ replies'[c] = replies[c] - 1 /\ got'[c] = got[c] + 1
      /\ \A b \in Clients \ {c} :
           cpc'[b] = cpc[b] /\ replies'[b] = replies[b] /\ got'[b] = got[b]
  BY <1>1 DEF Types
<1>3. ClientFrame(c)
  BY <1>2 DEF ClientFrame
<1>4. replies[c] \in 1..PipeCap /\ got[c] \in 0..FileLen /\ got[c] + replies[c] <= Whole(c)
  BY <1>1 DEF Types, Answer
<1>5. Whole(c) \in 1..FileLen
  BY DEF Whole
<1>6. Types'
  <2>1. replies[c] - 1 \in 0..PipeCap /\ got[c] + 1 \in 0..FileLen
    BY <1>4, <1>5
  <2>2. replies' \in [Clients -> 0..PipeCap]
    BY <1>1, <2>1 DEF Types
  <2>3. got' \in [Clients -> 0..FileLen]
    BY <1>1, <2>1 DEF Types
  <2>4. cpc' = cpc
    BY <1>1 DEF Types
  <2> QED BY <1>1, <2>2, <2>3, <2>4 DEF Types
<1>7. \A b \in fifo' : IsClient(b)'
  BY DEF IInv, IsClient
<1>8. Stream' /\ Line'
  <2>1. ~Asked(c)
    BY <1>1 DEF Asked
  <2> QED BY <1>3, <2>1, ClientLeavesStream
<1>9. Answer(c)'
  <2>1. Whole(c)' = Whole(c) /\ Due(c)' = Due(c) /\ IsClient(c)' = IsClient(c)
    BY DEF Whole, Due, IsClient
  <2>2. got'[c] + replies'[c] = got[c] + replies[c]
    BY <1>2, <1>4
  <2> QED BY <1>1, <1>2, <2>1, <2>2 DEF Answer
<1> QED BY <1>2, <1>3, <1>6, <1>7, <1>8, <1>9, ClientStepInv

\* The client sees the end of the file when nobody writes to it any more: then
\* nothing is due.
LEMMA UnlinkInv ==
  ASSUME IInv, NEW c \in Clients, ClientUnlink(c)
  PROVE  IInv'
<1> USE DEF ClientUnlink, ClientStep, serverVars, history
<1>1. Types /\ cpc[c] = "read" /\ Answer(c) /\ replies[c] = 0 /\ c \notin writing
  BY DEF IInv
<1>2. cpc'[c] = "exit" /\ \A b \in Clients \ {c} : cpc'[b] = cpc[b]
  BY <1>1 DEF Types
<1>3. ClientFrame(c)
  BY <1>2 DEF ClientFrame
<1>4. stream' = stream \/ (stream' = <<>> /\ ~ServerReads)
  BY DEF StreamWithout
<1>5. Types'
  <2>1. stream' \in Seq(Tokens)
    <3>1. stream \in Seq(Tokens) /\ <<>> \in Seq(Tokens)
      BY <1>1 DEF Types
    <3> QED BY ONLY <1>4, <3>1
  <2> QED BY <1>1, <2>1 DEF Types
<1>6. \A b \in fifo' : IsClient(b)'
  BY DEF IInv, IsClient
<1>7. Stream' /\ Line'
  <2>1. ~Asked(c)
    BY <1>1 DEF Asked
  <2> QED BY <1>3, <1>4, <2>1, ClientLeavesStream
<1>8. Answer(c)'
  <2>1. Due(c) = 0
    <3>1. c = target => spc \notin Replying
      BY <1>1 DEF IInv, ServerHas
    <3> QED BY <3>1 DEF Due, Replying
  <2>2. got[c] \in Nat
    BY <1>1 DEF Types
  <2>3. IsClient(c) /\ got[c] <= Whole(c) /\ (c \in cut \/ got[c] = Whole(c))
    BY <1>1, <2>1, <2>2 DEF Answer
  <2>4. Whole(c)' = Whole(c) /\ IsClient(c)' = IsClient(c)
    BY DEF Whole, IsClient
  <2> QED BY <1>1, <1>2, <2>2, <2>3, <2>4 DEF Answer
<1> QED BY <1>1, <1>3, <1>5, <1>6, <1>7, <1>8, ClientStepInv

LEMMA ClientCrashInv ==
  ASSUME IInv, NEW c \in Clients, ClientCrash(c)
  PROVE  IInv'
<1> USE DEF ClientCrash, clientVars, serverVars, history
<1>1. Types /\ Answer(c)
  BY DEF IInv
<1>2. /\ cpc'[c] = "crashed" /\ replies'[c] = 0
      /\ \A b \in Clients \ {c} : cpc'[b] = cpc[b] /\ replies'[b] = replies[b]
  BY <1>1 DEF Types
<1>3. ClientFrame(c)
  BY <1>2 DEF ClientFrame
<1>4. stream' = stream \/ (stream' = <<>> /\ ~ServerReads)
  BY DEF StreamWithout
<1>5. Types'
  <2>1. stream' \in Seq(Tokens)
    <3>1. stream \in Seq(Tokens) /\ <<>> \in Seq(Tokens)
      BY <1>1 DEF Types
    <3> QED BY ONLY <1>4, <3>1
  <2>2. 0 \in 0..PipeCap
    OBVIOUS
  <2> QED BY <1>1, <2>1, <2>2 DEF Types
<1>6. \A b \in fifo' : IsClient(b)'
  BY DEF IInv, IsClient
<1>7. Stream' /\ Line'
  <2>1. Asked(c)'
    BY <1>2 DEF Asked
  <2> QED BY <1>3, <1>4, <2>1, ClientLeavesStream
<1>8. Answer(c)'
  <2>1. /\ got[c] \in Nat /\ replies[c] \in Nat /\ Whole(c) \in Nat
        /\ got[c] + replies[c] <= Whole(c)
    BY <1>1 DEF Types, Answer, Whole
  <2>2. got'[c] = got[c] /\ got[c] + 0 <= Whole(c) /\ Whole(c)' = Whole(c)
    BY <2>1 DEF Whole
  <2> QED BY <1>2, <2>2 DEF Answer
<1> QED BY <1>2, <1>3, <1>5, <1>6, <1>7, <1>8, ClientStepInv

-----------------------------------------------------------------------------
(* The server moves                                                         *)

\* While no answer is under way, the server's steps are not about answers.
LEMMA AnswersStay ==
  ASSUME IInv, kind' = kind, cpc' = cpc, replies' = replies, got' = got, cut' = cut,
         spc \notin Replying, spc' \notin Replying, ServerHas'
  PROVE  \A c \in Clients : Answer(c)'
<1> SUFFICES ASSUME NEW c \in Clients PROVE Answer(c)'
  OBVIOUS
<1>1. Answer(c) /\ writing = {}
  BY DEF IInv, ServerHas
<1>2. writing' = {}
  BY DEF ServerHas
<1>3. Due(c)' = 0 /\ Due(c) = 0
  BY DEF Due, Replying
<1>4. Whole(c)' = Whole(c) /\ IsClient(c)' = IsClient(c)
  BY DEF Whole, IsClient
<1> QED BY <1>1, <1>2, <1>3, <1>4 DEF Answer

\* The FIFO stays good under any step of the server that only reads from it.
LEMMA ServerLeavesStream ==
  ASSUME IInv, NEW d, Suffix(d), kind' = kind, cpc' = cpc
  PROVE  Stream'
<1>1. \A c \in Clients : Asked(c) => Asked(c)'
  BY DEF Asked, IsClient
<1> QED BY <1>1, StreamShrinks

LEMMA OpensInv ==
  ASSUME IInv, NEW from \in {"off", "dead"}, ServerOpens(from)
  PROVE  IInv'
<1> DEFINE waiting == {c \in Clients : cpc[c] = "open_serv"}
<1> USE DEF clientVars, serverVars
<1>1. /\ Types /\ ServerHas /\ Stream /\ spc = from /\ spc \notin Serving /\ spc \notin Replying
      /\ line = <<>> /\ Len(stream) \in Nat
  BY DEF IInv, Types, ServerHas, ServerOpens, Serving, HoldsLine, Replying
<1>2. /\ spc' \in {"open_read", "open_dummy"} /\ servfifo' = TRUE /\ runs < MaxRuns /\ runs' = runs + 1
      /\ cpc' = [c \in Clients |-> IF c \in waiting THEN "write" ELSE cpc[c]]
      /\ UNCHANGED <<kind, fifo, got, replies, stream, dummyfd, line, target, left, writing, cut>>
  BY DEF ServerOpens
<1>3. \A c \in Clients : cpc'[c] = cpc[c] \/ (cpc[c] = "open_serv" /\ cpc'[c] = "write")
  <2>1. \A c \in waiting : c \in Clients /\ cpc[c] = "open_serv"
    OBVIOUS
  <2> HIDE DEF waiting
  <2>2. \A c \in Clients : cpc'[c] = IF c \in waiting THEN "write" ELSE cpc[c]
    BY <1>2
  <2> QED BY <2>1, <2>2
<1>4. Types'
  <2>1. cpc' \in [Clients -> {"mkfifo", "open_serv", "write", "open_own", "read",
                            "exit", "failed", "crashed"}]
    BY <1>1, <1>2 DEF Types
  <2>2. runs' \in 0..MaxRuns
    BY <1>1, <1>2 DEF Types
  <2> QED BY <1>1, <1>2, <2>1, <2>2 DEF Types
<1>5. ServerHas' /\ spc' \notin Replying
  BY <1>1, <1>2 DEF ServerHas, Serving, HoldsLine, Replying
<1>6. Stream'
  <2>1. Suffix(0)
    BY <1>1, <1>2 DEF Suffix
  <2>2. \A c \in Clients : Asked(c) => Asked(c)'
    BY <1>2, <1>3 DEF Asked, IsClient
  <2> QED BY <1>2, <2>1, <2>2, StreamShrinks
<1>7. Line'
  BY <1>1, <1>2 DEF Line
<1>8. ASSUME NEW c \in Clients PROVE Answer(c)'
  <2>1. Answer(c)
    BY DEF IInv
  <2>2. Due(c)' = 0 /\ Due(c) = 0
    BY <1>1, <1>5 DEF Due, Replying
  <2>3. Whole(c)' = Whole(c) /\ IsClient(c)' = IsClient(c)
    BY <1>2 DEF Whole, IsClient
  <2>4. cpc'[c] = cpc[c] \/ (cpc[c] = "open_serv" /\ cpc'[c] = "write")
    BY <1>3
  <2> QED BY <1>2, <2>1, <2>2, <2>3, <2>4 DEF Answer
<1>9. \A c \in fifo' : IsClient(c)'
  BY <1>2 DEF IInv, IsClient
<1> QED BY <1>4, <1>5, <1>6, <1>7, <1>8, <1>9 DEF IInv

\* Whose answer was under way is counted among the cut ones.
LEMMA DiesInv ==
  ASSUME IInv, ServerDies
  PROVE  IInv'
<1> USE DEF clientVars
<1>1. Types /\ ServerHas /\ Len(stream) \in Nat
  BY DEF IInv, Types
<1>2. /\ spc' = "dead" /\ dummyfd' = FALSE /\ line' = <<>> /\ target' = None /\ left' = 0
      /\ writing' = {} /\ cut' = cut \cup writing
      /\ UNCHANGED <<kind, fifo, got, cpc, replies, servfifo, runs>>
  BY DEF ServerDies
<1>3. PICK k \in 0..Len(stream) :
        stream' = IF Writers = {} THEN <<>> ELSE SubSeq(stream, k + 1, Len(stream))
  BY DEF ServerDies
<1>4. PICK d \in 0..Len(stream) : Suffix(d) /\ stream' \in Seq(Tokens)
  <2>1. CASE Writers = {}
    <3>1. stream' = <<>>
      BY <1>3, <2>1
    <3>2. Suffix(Len(stream)) /\ stream' \in Seq(Tokens)
      BY <1>1, <3>1 DEF Suffix
    <3> QED BY <1>1, <3>2
  <2>2. CASE Writers # {}
    <3> DEFINE m == k + 1  n == Len(stream)
    <3>1. m \in Int /\ n \in Int /\ \A j \in m..n : stream[j] \in Tokens
      BY <1>1 DEF Types
    <3>2. stream' = SubSeq(stream, m, n)
      BY <1>3, <2>2
    <3>3. /\ stream' \in Seq(Tokens)
          /\ Len(stream') = IF m <= n THEN n - m + 1 ELSE 0
          /\ \A j \in 1..n-m+1 : stream'[j] = stream[m+j-1]
      <4> HIDE DEF m, n
      <4> QED BY <3>1, <3>2, SubSeqProperties
    <3>4. Suffix(k)
      <4>1. Len(stream') = Len(stream) - k
        BY <1>1, <3>3
      <4>2. ASSUME NEW j \in 1..Len(stream') PROVE stream'[j] = stream[j+k]
        <5>1. j \in 1..n-m+1 /\ m+j-1 = j+k
          BY <1>1, <4>1
        <5> QED BY <3>3, <5>1
      <4> QED BY <4>1, <4>2 DEF Suffix
    <3> QED BY <3>3, <3>4
  <2> QED BY <2>1, <2>2
<1>5. Types'
  <2>1. cut' \subseteq Clients
    <3>1. writing \subseteq Clients
      BY <1>1 DEF ServerHas, Replying, HoldsLine
    <3> QED BY <1>1, <1>2, <3>1 DEF Types
  <2> QED BY <1>1, <1>2, <1>4, <2>1 DEF Types
<1>6. ServerHas' /\ spc' \notin Replying
  BY <1>2 DEF ServerHas, Serving, HoldsLine, Replying
<1>7. Stream'
  BY <1>2, <1>4, ServerLeavesStream
<1>8. Line'
  BY <1>2 DEF Line
<1>9. ASSUME NEW c \in Clients PROVE Answer(c)'
  <2>1. Answer(c)
    BY DEF IInv
  <2>2. Due(c)' = 0 /\ (c \in writing \/ Due(c) = 0)
    BY <1>1, <1>2 DEF Due, ServerHas, Replying
  <2>3. Whole(c)' = Whole(c) /\ IsClient(c)' = IsClient(c)
    BY <1>2 DEF Whole, IsClient
  <2> QED BY <1>2, <2>1, <2>2, <2>3 DEF Answer
<1>10. \A c \in fifo' : IsClient(c)'
  BY <1>2 DEF IInv, IsClient
<1> QED BY <1>5, <1>6, <1>7, <1>8, <1>9, <1>10 DEF IInv

LEMMA OpenDummyInv ==
  ASSUME IInv, ServerOpenDummy
  PROVE  IInv'
<1> USE DEF ServerOpenDummy, ServerStep, clientVars, history
<1>1. Types /\ ServerHas /\ Len(stream) \in Nat /\ spc = "open_dummy" /\ spc' = "readline"
  BY DEF IInv, Types
<1>2. line = <<>> /\ target = None /\ writing = {}
  BY <1>1 DEF ServerHas, HoldsLine, Replying
<1>3. Types'
  BY <1>1 DEF Types, Serving
<1>4. ServerHas' /\ spc \notin Replying /\ spc' \notin Replying
  BY <1>1, <1>2 DEF ServerHas, Serving, HoldsLine, Replying
<1>5. Stream'
  <2>1. Suffix(0)
    BY <1>1 DEF Suffix
  <2> QED BY <2>1, ServerLeavesStream
<1>6. Line'
  BY <1>2 DEF Line
<1>7. \A c \in Clients : Answer(c)'
  BY <1>4, AnswersStay
<1>8. \A c \in fifo' : IsClient(c)'
  BY DEF IInv, IsClient
<1> QED BY <1>3, <1>4, <1>5, <1>6, <1>7, <1>8 DEF IInv

LEMMA AppendToOne ==
  ASSUME NEW x \in Tokens, NEW y \in Tokens
  PROVE  Append(<<x>>, y) = <<x, y>>
<1> DEFINE s == Append(<<x>>, y)  t == <<x, y>>
<1>1. <<x>> \in Seq(Tokens) /\ Len(<<x>>) = 1 /\ <<x>>[1] = x
  OBVIOUS
<1>2. s \in Seq(Tokens) /\ Len(s) = 2 /\ s[1] = x /\ s[2] = y
  <2>1. /\ s \in Seq(Tokens) /\ Len(s) = Len(<<x>>) + 1
        /\ \A i \in 1..Len(<<x>>) : s[i] = <<x>>[i]
        /\ s[Len(<<x>>) + 1] = y
    BY <1>1, AppendProperties
  <2> HIDE DEF s
  <2> QED BY <1>1, <2>1
<1>3. t \in Seq(Tokens) /\ Len(t) = 2 /\ t[1] = x /\ t[2] = y
  OBVIOUS
<1> HIDE DEF s, t
<1>4. Len(s) = Len(t) /\ \A i \in 1..Len(s) : s[i] = t[i]
  <2>1. \A i \in 1..2 : i = 1 \/ i = 2
    OBVIOUS
  <2> QED BY <1>2, <1>3, <2>1
<1>5. s = t
  BY <1>2, <1>3, <1>4, SeqEqual
<1> QED BY <1>5 DEF s, t

\* readline moves a token from the FIFO to the line.  The dummy descriptor is
\* why it never meets the end of the FIFO.
LEMMA ReadlineInv ==
  ASSUME IInv, Readline
  PROVE  IInv'
<1> DEFINE token == Head(stream)
<1> USE DEF clientVars, history
<1>1. /\ Types /\ ServerHas /\ Stream /\ Line /\ Len(stream) \in Nat /\ spc = "readline"
      /\ stream \in Seq(Tokens) /\ line \in Seq(Tokens) /\ Len(line) \in Nat
  <2>1. spc = "readline"
    BY DEF Readline, ServerStep
  <2> QED BY <2>1 DEF IInv, Types
<1>2. stream # <<>>
  <2>1. dummyfd
    BY <1>1 DEF ServerHas, Serving
  <2> QED BY <2>1 DEF Readline, HasWriter
<1>3. /\ spc' = IF LineEnds(token) THEN "request" ELSE "readline"
      /\ line' = Append(line, token) /\ stream' = Tail(stream)
      /\ UNCHANGED <<kind, fifo, got, cpc, replies, servfifo, dummyfd, target, left, writing, runs, cut>>
  BY <1>2 DEF Readline, ServerStep
<1>4. /\ token = stream[1] /\ token \in Tokens /\ Len(stream) >= 1
      /\ stream' \in Seq(Tokens) /\ Len(stream') = Len(stream) - 1
      /\ \A k \in 1..Len(stream') : stream'[k] = stream[k+1]
  BY <1>1, <1>2, <1>3, HeadTailProperties
<1>5. /\ line' \in Seq(Tokens) /\ line' # <<>> /\ Len(line') = Len(line) + 1
      /\ \A k \in 1..Len(line) : line'[k] = line[k]
      /\ line'[Len(line)+1] = token
  BY <1>1, <1>3, <1>4, AppendProperties
<1>6. target = None /\ writing = {} /\ Len(line) < MAXLINE - 1
  BY <1>1 DEF ServerHas, HoldsLine, Replying
<1>7. LineEnds(token) <=> token = Newline \/ Len(line) + 1 = MAXLINE - 1
  BY DEF LineEnds
<1> HIDE DEF token
<1>8. Types'
  <2>1. spc' \in Serving
    BY <1>3 DEF Serving
  <2> QED BY <1>1, <1>3, <1>4, <1>5, <2>1 DEF Types
<1>9. ServerHas' /\ spc \notin Replying /\ spc' \notin Replying
  <2>1. spc' \in {"readline", "request"}
    BY <1>3
  <2>2. spc' = "readline" => Len(line') < MAXLINE - 1
    BY <1>1, <1>3, <1>5, <1>6, <1>7
  <2>3. Len(line') \in 1..MAXLINE-1
    BY <1>1, <1>5, <1>6
  <2>4. dummyfd
    BY <1>1 DEF ServerHas, Serving
  <2>5. spc \notin Replying /\ spc' \notin Replying
    BY <1>1, <2>1 DEF Replying
  <2> QED BY <1>3, <1>6, <2>1, <2>2, <2>3, <2>4, <2>5 DEF ServerHas, Serving, HoldsLine
<1>10. Stream'
  <2>1. Suffix(1)
    BY <1>1, <1>4 DEF Suffix
  <2> QED BY <1>3, <2>1, ServerLeavesStream
<1>11. \A c \in Clients : Asked(c) => Asked(c)'
  BY <1>3 DEF Asked, IsClient
<1>12. \A k \in 1..Len(stream') : k + 1 \in 1..Len(stream)
  BY <1>1, <1>4
<1>13. Line'
  <2> SUFFICES ASSUME line'[1] \in Clients
               PROVE  /\ \A k \in 1..Len(stream') : stream'[k] # line'[1]
                      /\ Asked(line[1])'
                      /\ kind[line'[1]] = "file" =>
                           IF spc' = "readline"
                           THEN line' = <<line'[1]>> /\ stream' # <<>> /\ stream'[1] = Newline
                           ELSE line' = <<line'[1], Newline>>
    BY <1>3, <1>9 DEF Line
  <2>1. CASE line = <<>>
    <3>1. Len(line) = 0 /\ line'[1] = token /\ line' = <<token>> /\ token \in Clients
      BY <1>3, <1>5, <2>1
    <3>2. ASSUME NEW k \in 1..Len(stream') PROVE stream'[k] # token
      <4>1. stream'[k] = stream[k+1] /\ k + 1 \in 1..Len(stream) /\ k + 1 # 1 /\ 1 \in 1..Len(stream)
        BY <1>1, <1>4, <1>12
      <4> QED BY <1>1, <1>4, <3>1, <4>1 DEF Stream
    <3>3. Asked(line[1])'
      <4>1. PICK c \in Clients : c = token
        BY <3>1
      <4>2. Asked(c)
        BY <1>1, <1>4, <4>1 DEF Stream
      <4>3. Asked(c)'
        BY <1>11, <4>2
      <4> QED BY <3>1, <4>1, <4>3 DEF Asked, IsClient
    <3>4. ASSUME kind[token] = "file"
          PROVE  spc' = "readline" /\ stream' # <<>> /\ stream'[1] = Newline
      <4>1. 1 < Len(stream) /\ stream[2] = Newline
        BY <1>1, <1>4, <3>1, <3>4 DEF Stream
      <4>2. ~LineEnds(token)
        BY <1>7, <3>1
      <4>3. 1 \in 1..Len(stream') /\ stream'[1] = stream[2]
        BY <1>1, <1>4, <4>1
      <4>4. stream' # <<>>
        BY <4>3
      <4> QED BY <1>3, <4>1, <4>2, <4>3, <4>4
    <3> QED BY <3>1, <3>2, <3>3, <3>4
  <2>2. CASE line # <<>>
    <3>1. 1 \in 1..Len(line) /\ line'[1] = line[1]
      BY <1>1, <1>5, <2>2
    <3>2. /\ \A k \in 1..Len(stream) : stream[k] # line[1]
          /\ Asked(line[1])
          /\ kind[line[1]] = "file" => line = <<line[1]>> /\ stream[1] = Newline
      BY <1>1, <1>9, <2>2, <3>1 DEF Line
    <3>3. \A k \in 1..Len(stream') : stream'[k] # line'[1]
      BY <1>4, <1>12, <3>1, <3>2
    <3>4. Asked(line[1])'
      <4>1. PICK c \in Clients : c = line[1]
        BY <3>1
      <4>2. Asked(c)'
        BY <1>11, <3>2, <4>1
      <4> QED BY <3>1, <4>1, <4>2 DEF Asked, IsClient
    <3>5. ASSUME kind[line[1]] = "file" PROVE spc' = "request" /\ line' = <<line[1], Newline>>
      <4>1. line = <<line[1]>> /\ token = Newline
        BY <1>4, <3>2, <3>5
      <4>2. line' = Append(<<line[1]>>, Newline)
        BY <1>3, <4>1
      <4>3. Append(<<line[1]>>, Newline) = <<line[1], Newline>>
        <5>1. line[1] \in Tokens /\ Newline \in Tokens
          BY <3>1 DEF Tokens
        <5> QED BY <5>1, AppendToOne
      <4>4. spc' = "request"
        BY <1>3, <1>7, <4>1
      <4> QED BY <4>2, <4>3, <4>4
    <3> QED BY <3>1, <3>3, <3>4, <3>5
  <2> QED BY <2>1, <2>2
<1>14. \A c \in Clients : Answer(c)'
  BY <1>3, <1>9, AnswersStay
<1>15. \A c \in fifo' : IsClient(c)'
  BY <1>3 DEF IInv, IsClient
<1> QED BY <1>8, <1>9, <1>10, <1>13, <1>14, <1>15 DEF IInv

LEMMA RequestInv ==
  ASSUME IInv, ServerRequest
  PROVE  IInv'
<1> USE DEF clientVars, history
<1>1. /\ Types /\ ServerHas /\ Line /\ Len(stream) \in Nat /\ spc = "request"
      /\ Len(line) \in 1..MAXLINE-1
  <2>1. spc = "request"
    BY DEF ServerRequest
  <2> QED BY <2>1 DEF IInv, Types, ServerHas, HoldsLine
<1>2. dummyfd = TRUE /\ target = None /\ writing = {} /\ line # <<>>
  BY <1>1 DEF ServerHas, HoldsLine, Replying, Serving
<1>3. UNCHANGED <<kind, fifo, got, cpc, replies, servfifo, stream, dummyfd, left, writing, runs, cut>>
  BY DEF ServerRequest, ServerStep
<1>4. \/ line[1] \in Clients /\ spc' = "open_reply" /\ target' = line[1] /\ line' = line
      \/ spc' = "readline" /\ line' = <<>> /\ target' = target
  BY DEF ServerRequest, ServerStep
<1>5. Types'
  <2>1. spc' \in Serving
    BY <1>4 DEF Serving
  <2>2. line' \in Seq(Tokens)
    <3>1. line \in Seq(Tokens) /\ <<>> \in Seq(Tokens)
      BY <1>1 DEF Types
    <3> QED BY <1>4, <3>1
  <2> QED BY <1>1, <1>3, <2>1, <2>2 DEF Types
<1>6. ServerHas' /\ spc \notin Replying /\ spc' \notin Replying
  <2>1. spc \notin Replying /\ spc' \notin Replying
    BY <1>1, <1>4 DEF Replying
  <2>2. Len(<<>>) = 0
    OBVIOUS
  <2> QED BY <1>1, <1>2, <1>3, <1>4, <2>1, <2>2 DEF ServerHas, Serving, HoldsLine
<1>7. Stream'
  <2>1. Suffix(0)
    BY <1>1, <1>3 DEF Suffix
  <2> QED BY <1>3, <2>1, ServerLeavesStream
<1>8. Line'
  <2>1. CASE line' = <<>>
    BY <2>1 DEF Line
  <2>2. CASE line' # <<>>
    <3>1. line' = line /\ spc' # "readline"
      BY <1>4, <2>2
    <3>2. Asked(line[1])' = Asked(line[1])
      BY <1>3, <3>1 DEF Asked, IsClient
    <3> QED BY <1>1, <1>3, <1>6, <3>1, <3>2 DEF Line
  <2> QED BY <2>1, <2>2
<1>9. \A c \in Clients : Answer(c)'
  BY <1>3, <1>6, AnswersStay
<1>10. \A c \in fifo' : IsClient(c)'
  BY <1>3 DEF IInv, IsClient
<1> QED BY <1>5, <1>6, <1>7, <1>8, <1>9, <1>10 DEF IInv

LEMMA NoFifoInv ==
  ASSUME IInv, ServerNoFifo
  PROVE  IInv'
<1> USE DEF ServerNoFifo, ServerStep, clientVars, history
<1>1. Types /\ ServerHas /\ Len(stream) \in Nat /\ spc = "open_reply" /\ spc' = "readline"
  BY DEF IInv, Types
<1>2. dummyfd = TRUE /\ writing = {} /\ line' = <<>> /\ Len(line') = 0 /\ target' = None
  BY <1>1 DEF ServerHas, HoldsLine, Replying, Serving
<1>3. Types'
  <2>1. spc' \in Serving /\ line' \in Seq(Tokens)
    BY <1>1, <1>2 DEF Serving
  <2> QED BY <1>1, <2>1 DEF Types
<1>4. ServerHas' /\ spc \notin Replying /\ spc' \notin Replying
  <2>1. spc \notin Replying /\ spc' \notin Replying
    BY <1>1 DEF Replying
  <2> QED BY <1>1, <1>2, <2>1 DEF ServerHas, Serving, HoldsLine
<1>5. Stream'
  <2>1. Suffix(0)
    BY <1>1 DEF Suffix
  <2> QED BY <2>1, ServerLeavesStream
<1>6. Line'
  BY <1>2 DEF Line
<1>7. \A c \in Clients : Answer(c)'
  BY <1>4, AnswersStay
<1>8. \A c \in fifo' : IsClient(c)'
  BY DEF IInv, IsClient
<1> QED BY <1>3, <1>4, <1>5, <1>6, <1>7, <1>8 DEF IInv

\* The client is no longer among those that have only asked, but its request
\* has left the FIFO.
LEMMA OpenReplyInv ==
  ASSUME IInv, OpenReply
  PROVE  IInv'
<1> USE DEF clientVars, history
<1>1. /\ Types /\ ServerHas /\ Line /\ Len(stream) \in Nat
      /\ spc = "open_reply" /\ spc' = "open_file" /\ target \in fifo /\ cpc[target] = "open_own"
  BY DEF OpenReply, ServerStep, ClientStep, IInv, Types
<1>2. /\ cpc' = [cpc EXCEPT ![target] = "read"]
      /\ writing' = writing \cup {target}
      /\ UNCHANGED <<kind, fifo, got, replies, servfifo, stream, dummyfd, line, target, left, runs, cut>>
  BY DEF OpenReply, ClientStep
<1>3. /\ dummyfd = TRUE /\ writing = {} /\ target = line[1] /\ target \in Clients
      /\ Len(line) \in 1..MAXLINE-1 /\ line # <<>>
  <2>1. Len(line) \in 1..MAXLINE-1
    BY <1>1 DEF ServerHas, HoldsLine
  <2>2. Len(<<>>) = 0
    OBVIOUS
  <2> QED BY <1>1, <2>1, <2>2 DEF ServerHas, HoldsLine, Replying, Serving
<1>4. cpc'[target] = "read" /\ \A c \in Clients \ {target} : cpc'[c] = cpc[c]
  BY <1>1, <1>2, <1>3 DEF Types
<1>5. Types'
  <2>1. spc' \in Serving
    BY <1>1 DEF Serving
  <2> QED BY <1>1, <1>2, <1>3, <2>1 DEF Types
<1>6. ServerHas'
  <2>1. dummyfd' = TRUE /\ writing' = {target'} /\ target' = line'[1] /\ target' \in Clients
    BY <1>2, <1>3
  <2>2. Len(line') \in 1..MAXLINE-1
    BY <1>2, <1>3
  <2> QED BY <1>1, <2>1, <2>2 DEF ServerHas, Serving, HoldsLine, Replying
<1>7. \A k \in 1..Len(stream) : stream[k] # target
  BY <1>1, <1>3 DEF Line
<1>8. Stream'
  <2>1. Suffix(0)
    BY <1>1, <1>2 DEF Suffix
  <2>2. ASSUME NEW c \in Clients, Asked(c), \E k \in 1..Len(stream) : stream[k] = c
        PROVE  Asked(c)'
    <3>1. c # target
      BY <1>7, <2>2
    <3> QED BY <1>2, <1>4, <2>2, <3>1 DEF Asked, IsClient
  <2> QED BY <1>2, <2>1, <2>2, StreamShrinks
<1>9. Line'
  <2>1. spc' \in Replying /\ spc # "readline" /\ spc' # "readline"
    BY <1>1 DEF Replying
  <2> QED BY <1>1, <1>2, <2>1 DEF Line
<1>10. ASSUME NEW c \in Clients PROVE Answer(c)'
  <2>1. Answer(c)
    BY DEF IInv
  <2>2. Whole(c)' = Whole(c) /\ IsClient(c)' = IsClient(c) /\ Whole(c) \in Nat
    BY <1>2 DEF Whole, IsClient
  <2>3. CASE c = target
    <3>1. Due(c)' = Whole(c)
      BY <1>1, <1>2, <2>2, <2>3 DEF Due
    <3>2. got[c] = 0 /\ replies[c] = 0 /\ IsClient(c)
      BY <1>1, <2>1, <2>3 DEF Answer, IInv
    <3> QED BY <1>2, <1>4, <2>2, <2>3, <3>1, <3>2 DEF Answer
  <2>4. CASE c # target
    <3>1. Due(c)' = 0 /\ Due(c) = 0 /\ c \notin writing /\ c \notin writing'
      BY <1>2, <1>3, <2>4 DEF Due
    <3> QED BY <1>2, <1>4, <2>1, <2>2, <2>4, <3>1 DEF Answer
  <2> QED BY <2>3, <2>4
<1>11. \A c \in fifo' : IsClient(c)'
  BY <1>2 DEF IInv, IsClient
<1>12. cpc'[target'] = "read"
  BY <1>2, <1>4
<1> QED BY <1>5, <1>6, <1>8, <1>9, <1>10, <1>11, <1>12 DEF IInv

\* What the steps between open and close of the reply FIFO share.
LEMMA ReplyingInv ==
  ASSUME IInv, spc \in Replying, spc' \in Replying,
         UNCHANGED <<kind, fifo, got, cpc, servfifo, stream, dummyfd, line, target, writing, runs, cut>>,
         replies' \in [Clients -> 0..PipeCap], left' \in 0..FileLen,
         \A c \in Clients : Answer(c)'
  PROVE  IInv'
<1>1. Types /\ ServerHas /\ Line /\ Len(stream) \in Nat /\ Replying \subseteq HoldsLine \cap Serving
  BY DEF IInv, Types, Replying, HoldsLine, Serving
<1>2. Types'
  <2>1. spc' \in Serving
    BY <1>1
  <2> QED BY <1>1, <2>1 DEF Types
<1>3. ServerHas'
  <2>1. "request" \notin Replying /\ "readline" \notin Replying
    BY DEF Replying
  <2> QED BY <1>1, <2>1 DEF ServerHas
<1>4. Stream'
  <2>1. Suffix(0)
    BY <1>1 DEF Suffix
  <2> QED BY <2>1, ServerLeavesStream
<1>5. Line'
  <2>1. spc # "readline" /\ spc' # "readline"
    BY DEF Replying
  <2> QED BY <1>1, <2>1 DEF Line
<1>6. \A c \in fifo' : IsClient(c)'
  BY DEF IInv, IsClient
<1>7. cpc'[target'] \in {"read", "crashed"}
  BY DEF IInv
<1> QED BY <1>2, <1>3, <1>4, <1>5, <1>6, <1>7 DEF IInv

\* The server finds the file by the line of its client, so that what it owes
\* does not change.
LEMMA OpenFileInv ==
  ASSUME IInv, ServerOpenFile
  PROVE  IInv'
<1> USE DEF clientVars, history
<1>1. Types /\ ServerHas /\ Line /\ spc = "open_file" /\ spc' = "copy"
  BY DEF ServerOpenFile, ServerStep, IInv
<1>2. UNCHANGED <<kind, fifo, got, cpc, replies, servfifo, stream, dummyfd, line, target, writing, runs, cut>>
  BY DEF ServerOpenFile, ServerStep
<1>3. target = line[1] /\ target \in Clients /\ line # <<>>
  <2>1. Len(line) \in 1..MAXLINE-1
    BY <1>1 DEF ServerHas, HoldsLine
  <2>2. Len(<<>>) = 0
    OBVIOUS
  <2> QED BY <1>1, <2>1, <2>2 DEF ServerHas, HoldsLine
<1>4. left' = Whole(target)
  <2>1. kind[target] = "file" => line = <<target, Newline>>
    BY <1>1, <1>3 DEF Line
  <2>2. left' = IF line = <<target, Newline>> /\ kind[target] = "file" THEN FileLen ELSE 1
    BY DEF ServerOpenFile
  <2> QED BY <2>1, <2>2 DEF Whole
<1>5. left' \in 0..FileLen
  BY <1>4 DEF Whole
<1>6. ASSUME NEW c \in Clients PROVE Answer(c)'
  <2>1. Answer(c)
    BY DEF IInv
  <2>2. Whole(c)' = Whole(c) /\ IsClient(c)' = IsClient(c)
    BY <1>2 DEF Whole, IsClient
  <2>3. Due(c)' = Due(c)
    BY <1>1, <1>2, <1>4 DEF Due
  <2> QED BY <1>2, <2>1, <2>2, <2>3 DEF Answer
<1>7. spc \in Replying /\ spc' \in Replying
  BY <1>1 DEF Replying
<1>8. replies' \in [Clients -> 0..PipeCap]
  BY <1>1, <1>2 DEF Types
<1> QED BY <1>2, <1>5, <1>6, <1>7, <1>8, ReplyingInv

\* A block moves from what the server owes to the FIFO of the client.
LEMMA ServerWriteInv ==
  ASSUME IInv, ServerWrite
  PROVE  IInv'
<1> USE DEF clientVars, history
<1>1. CASE cpc[target] # "read"
  <2>1. ServerDies
    BY <1>1 DEF ServerWrite
  <2> QED BY <2>1, DiesInv
<1>2. CASE cpc[target] = "read"
  <2>1. Types /\ ServerHas /\ spc = "copy" /\ spc' = "copy" /\ left \in Nat /\ left > 0
    BY <1>2 DEF ServerWrite, ServerStep, IInv, Types
  <2>2. /\ replies[target] < PipeCap /\ left' = left - 1
        /\ replies' = [replies EXCEPT ![target] = @ + 1]
        /\ UNCHANGED <<kind, fifo, got, cpc, servfifo, stream, dummyfd, line, target, writing, runs, cut>>
    BY <1>2 DEF ServerWrite, ServerStep
  <2>3. target \in Clients /\ writing = {target}
    BY <2>1 DEF ServerHas, HoldsLine, Replying
  <2>4. \A c \in Clients : replies[c] \in Nat /\ replies[c] <= PipeCap
    BY <2>1 DEF Types
  <2>5. \A c \in Clients : replies'[c] = IF c = target THEN replies[c] + 1 ELSE replies[c]
    BY <2>1, <2>2, <2>3 DEF Types
  <2>6. replies' \in [Clients -> 0..PipeCap]
    <3>1. replies[target] + 1 \in 0..PipeCap
      BY <2>2, <2>3, <2>4
    <3> QED BY <2>1, <2>2, <2>3, <3>1 DEF Types
  <2>7. left' \in 0..FileLen
    BY <2>1, <2>2 DEF Types
  <2>8. ASSUME NEW c \in Clients PROVE Answer(c)'
    <3>1. Answer(c) /\ got[c] \in Nat /\ replies[c] \in Nat
      BY <2>1, <2>4 DEF IInv, Types
    <3>2. Whole(c)' = Whole(c) /\ IsClient(c)' = IsClient(c) /\ Whole(c) \in Nat
      BY <2>2 DEF Whole, IsClient
    <3>3. CASE c = target
      <4>1. Due(c) = left /\ Due(c)' = left - 1 /\ replies'[c] = replies[c] + 1
        BY <2>1, <2>2, <2>5, <3>3 DEF Due
      <4>2. IsClient(c) /\ got[c] + replies[c] + left = Whole(c)
        BY <1>2, <2>3, <3>1, <3>3, <4>1 DEF Answer
      <4>3. /\ got[c] + (replies[c] + 1) + (left - 1) = Whole(c)
            /\ got[c] + (replies[c] + 1) <= Whole(c)
        BY <2>1, <3>1, <3>2, <4>2
      <4> QED BY <1>2, <2>2, <3>2, <3>3, <4>1, <4>2, <4>3 DEF Answer
    <3>4. CASE c # target
      <4>1. Due(c)' = Due(c) /\ replies'[c] = replies[c]
        BY <2>1, <2>2, <2>5, <3>4 DEF Due
      <4> QED BY <2>2, <3>1, <3>2, <4>1 DEF Answer
    <3> QED BY <3>3, <3>4
  <2>9. spc \in Replying /\ spc' \in Replying
    BY <2>1 DEF Replying
  <2> QED BY <2>2, <2>6, <2>7, <2>8, <2>9, ReplyingInv
<1> QED BY <1>1, <1>2

\* Nothing is owed any more when the reply FIFO is closed.
LEMMA CloseInv ==
  ASSUME IInv, ServerClose
  PROVE  IInv'
<1> USE DEF clientVars, history
<1>1. Types /\ ServerHas /\ Len(stream) \in Nat /\ spc = "copy" /\ spc' = "readline" /\ left = 0
  BY DEF ServerClose, ServerStep, IInv, Types
<1>2. /\ writing' = writing \ {target} /\ line' = <<>> /\ target' = None
      /\ UNCHANGED <<kind, fifo, got, cpc, replies, servfifo, stream, dummyfd, left, runs, cut>>
  BY DEF ServerClose, ServerStep
<1>3. dummyfd = TRUE /\ writing = {target} /\ writing' = {} /\ Len(line') = 0
  BY <1>1, <1>2 DEF ServerHas, HoldsLine, Replying, Serving
<1>4. Types'
  <2>1. spc' \in Serving /\ line' \in Seq(Tokens)
    BY <1>1, <1>2 DEF Serving
  <2> QED BY <1>1, <1>2, <2>1 DEF Types
<1>5. ServerHas' /\ spc' \notin Replying
  BY <1>1, <1>2, <1>3 DEF ServerHas, Serving, HoldsLine, Replying
<1>6. Stream'
  <2>1. Suffix(0)
    BY <1>1, <1>2 DEF Suffix
  <2> QED BY <1>2, <2>1, ServerLeavesStream
<1>7. Line'
  BY <1>2 DEF Line
<1>8. ASSUME NEW c \in Clients PROVE Answer(c)'
  <2>1. Answer(c) /\ (c = target => cpc[c] # "exit")
    BY <1>1 DEF IInv, Replying
  <2>2. Whole(c)' = Whole(c) /\ IsClient(c)' = IsClient(c)
    BY <1>2 DEF Whole, IsClient
  <2>3. Due(c)' = Due(c) /\ Due(c) = 0
    BY <1>1, <1>2 DEF Due
  <2> QED BY <1>2, <1>3, <2>1, <2>2, <2>3 DEF Answer
<1>9. \A c \in fifo' : IsClient(c)'
  BY <1>2 DEF IInv, IsClient
<1> QED BY <1>4, <1>5, <1>6, <1>7, <1>8, <1>9 DEF IInv

-----------------------------------------------------------------------------
(* The invariant                                                            *)

LEMMA StutterInv ==
  ASSUME IInv, UNCHANGED vars
  PROVE  IInv'
<1> USE DEF vars, clientVars, serverVars, history
<1>1. Types'
  BY DEF IInv, Types
<1>2. ServerHas'
  BY DEF IInv, ServerHas
<1>3. Stream'
  BY DEF IInv, Stream, Asked, IsClient
<1>4. Line'
  BY DEF IInv, Line, Asked, IsClient
<1>5. \A c \in Clients : Answer(c)'
  BY DEF IInv, Answer, Due, Whole, IsClient
<1>6. \A c \in fifo' : IsClient(c)'
  BY DEF IInv, IsClient
<1>7. spc' \in Replying => cpc'[target'] \in {"read", "crashed"}
  BY DEF IInv
<1> QED BY <1>1, <1>2, <1>3, <1>4, <1>5, <1>6, <1>7 DEF IInv

LEMMA StepInv == IInv /\ [Next]_vars => IInv'
<1> SUFFICES ASSUME IInv, [Next]_vars PROVE IInv'
  OBVIOUS
<1>1. ASSUME NEW c \in Clients, Client(c) PROVE IInv'
  <2>1. CASE ClientMkfifo(c)
    BY <2>1, MkfifoInv
  <2>2. CASE ClientOpenServ(c)
    BY <2>2, OpenServInv
  <2>3. CASE ClientWrite(c)
    BY <2>3, WriteInv
  <2>4. CASE ClientRead(c)
    BY <2>4, ReadInv
  <2>5. CASE ClientUnlink(c)
    BY <2>5, UnlinkInv
  <2> QED BY <1>1, <2>1, <2>2, <2>3, <2>4, <2>5 DEF Client
<1>2. ASSUME NEW c \in Clients, ClientCrash(c) PROVE IInv'
  BY <1>2, ClientCrashInv
<1>3. ASSUME Server PROVE IInv'
  <2>1. CASE ServerStart
    BY <2>1, OpensInv DEF ServerStart
  <2>2. CASE ServerOpenDummy
    BY <2>2, OpenDummyInv
  <2>3. CASE Readline
    BY <2>3, ReadlineInv
  <2>4. CASE ServerRequest
    BY <2>4, RequestInv
  <2>5. CASE ServerNoFifo
    BY <2>5, NoFifoInv
  <2>6. CASE OpenReply
    BY <2>6, OpenReplyInv
  <2>7. CASE ServerOpenFile
    BY <2>7, OpenFileInv
  <2>8. CASE ServerWrite
    BY <2>8, ServerWriteInv
  <2>9. CASE ServerClose
    BY <2>9, CloseInv
  <2> QED BY <1>3, <2>1, <2>2, <2>3, <2>4, <2>5, <2>6, <2>7, <2>8, <2>9 DEF Server
<1>4. CASE ServerRestart
  BY <1>4, OpensInv DEF ServerRestart
<1>5. CASE ServerCrash
  BY <1>5, DiesInv DEF ServerCrash
<1>6. CASE UNCHANGED vars
  BY <1>6, StutterInv
<1> QED BY <1>1, <1>2, <1>3, <1>4, <1>5, <1>6 DEF Next

LEMMA AlwaysIInv == Spec => []IInv
<1> QED BY InitInv, StepInv, PTL DEF Spec

-----------------------------------------------------------------------------
(* Theorems                                                                 *)

\* Every variable has its type: no FIFO holds more than it can, the buffer of
\* readline does not overflow, and nobody reads more than the file.
THEOREM TypeCorrect == Spec => []TypeOK
<1>1. ASSUME IInv PROVE TypeOK
  <2>1. Types /\ ServerHas /\ Len(line) \in Nat
    BY <1>1 DEF IInv, Types
  <2>2. Len(line) < MAXLINE
    <3>1. CASE spc \in HoldsLine
      <4>1. Len(line) \in 1..MAXLINE-1
        BY <2>1, <3>1 DEF ServerHas
      <4> QED BY <4>1
    <3>2. CASE spc = "readline"
      BY <2>1, <3>2 DEF ServerHas
    <3>3. CASE spc \notin {"readline"} \cup HoldsLine
      <4>1. line = <<>> /\ Len(<<>>) = 0
        BY <2>1, <3>3 DEF ServerHas
      <4> QED BY <4>1
    <3> QED BY <3>1, <3>2, <3>3
  <2>3. target \in Clients \cup {None} /\ writing \subseteq Clients /\ dummyfd \in BOOLEAN
    BY <2>1 DEF ServerHas, HoldsLine, Replying
  <2>4. \A k \in 1..Len(stream) : stream[k] \in Clients \cup {Newline, Junk}
    BY <2>1 DEF Types, Tokens
  <2>5. spc \in {"off", "open_read", "open_dummy", "readline", "request", "open_reply",
                 "open_file", "copy", "dead", "ended"}
    BY <2>1 DEF Types, Serving
  <2> QED BY <2>1, <2>2, <2>3, <2>4, <2>5 DEF Types, TypeOK
<1> QED BY <1>1, AlwaysIInv, PTL

\* The server never sees the end of the well-known FIFO, whatever happens to
\* its clients: its dummy descriptor is open wherever it reads.
THEOREM ServerSeesNoEnd == Spec => []NoEndOfFile
<1>1. ASSUME IInv PROVE NoEndOfFile
  BY <1>1 DEF IInv, Types, Serving, NoEndOfFile
<1> QED BY <1>1, AlwaysIInv, PTL

\* A client that gets to the end of its FIFO has got the whole file or the one
\* error message it has to get, unless the server died while it answered.
THEOREM AnswerIsWhole == Spec => []OneAnswer
<1>1. ASSUME IInv PROVE OneAnswer
  <2>1. ASSUME NEW c \in Clients, cpc[c] = "exit", IsClient(c)
        PROVE  got[c] <= Whole(c) /\ (got[c] = Whole(c) \/ c \in cut)
    <3>1. Answer(c) /\ got[c] \in Nat /\ Whole(c) \in Nat /\ replies[c] \in Nat
      BY <1>1 DEF IInv, Types, Whole
    <3> QED BY <2>1, <3>1 DEF Answer
  <2> QED BY <2>1 DEF OneAnswer, Whole
<1> QED BY <1>1, AlwaysIInv, PTL

\* The server waits in the open of a FIFO only for a client that has sent its
\* request and comes to open it, or that died on its way there.
THEOREM ServerWaitsForCaller == Spec => []WaitsForTheCaller
<1>1. ASSUME IInv, spc = "open_reply", target \in fifo
      PROVE  cpc[target] \in {"open_own", "crashed"}
  <2>1. ServerHas /\ Line /\ IsClient(target) /\ Len(line) \in 1..MAXLINE-1 /\ Len(<<>>) = 0
    BY <1>1 DEF IInv, ServerHas, HoldsLine
  <2>2. target = line[1] /\ target \in Clients /\ line # <<>>
    BY <1>1, <2>1 DEF ServerHas, HoldsLine
  <2>3. Asked(target)
    BY <1>1, <2>1, <2>2 DEF Line, Replying
  <2> QED BY <2>1, <2>3 DEF Asked
<1>2. IInv => WaitsForTheCaller
  BY <1>1 DEF WaitsForTheCaller
<1> QED BY <1>2, AlwaysIInv, PTL
=============================================================================
