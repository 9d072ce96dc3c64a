--------------------------- MODULE MCPrograms_proofs ---------------------------
(***************************************************************************)
(* Theorems about the programs that MCPrograms brings together.            *)
(*                                                                         *)
(* The programs share nothing, so each module has invariants of its own,   *)
(* which only its own steps can disturb: IInv, LockTypes and SeqInv of     *)
(* RecordLocks, CounterInv and MadeInv of SharedCounter, SignalsInv of     *)
(* RtSignals, RingInv and RoundsCounted of ShmRing.                        *)
(***************************************************************************)
EXTENDS MCPrograms, SequenceTheorems, FiniteSetTheorems, TLAPS

-----------------------------------------------------------------------------
(* Sums                                                                     *)

\* A fold takes the members of a set one by one and is a function g of Sums(w, S)
\* on the subsets of S.  Claims about all of g are shown with Smallest: there is no
\* smallest subset for which they are wrong.
Pick(s) == CHOOSE x \in s : TRUE
Sums(w, S) ==
  {g \in [SUBSET S -> Int] :
     \A s \in SUBSET S : g[s] = IF s = {} THEN 0 ELSE w[Pick(s)] + g[s \ {Pick(s)}]}

LEMMA Smallest ==
  ASSUME NEW S, IsFiniteSet(S), NEW T, T \subseteq SUBSET S, T # {}
  PROVE  \E s \in T : \A t \in T : t \subseteq s => t = s
<1>1. T \subseteq FiniteSubsetsOf(S)
  BY FS_Subset DEF FiniteSubsetsOf
<1>2. PICK s \in T : \A t \in T : ~(<<t, s>> \in StrictSubsetOrdering(S))
  BY <1>1, FS_StrictSubsetOrderingWellFounded, WFMin
<1>3. ASSUME NEW t \in T, t \subseteq s PROVE t = s
  BY <1>2, <1>3 DEF StrictSubsetOrdering
<1> QED BY <1>3

LEMMA PickIn == \A s : s # {} => Pick(s) \in s
BY DEF Pick

\* Two sums agree on the sets that both are about.
LEMMA SumsAgree ==
  ASSUME NEW R, NEW S, IsFiniteSet(S), NEW w, NEW v, NEW g \in Sums(w, R), NEW h \in Sums(v, S),
         NEW A, A \subseteq R, A \subseteq S, \A x \in A : v[x] = w[x]
  PROVE  g[A] = h[A]
<1> DEFINE Bad == {s \in SUBSET A : g[s] # h[s]}
<1>1. ASSUME Bad # {} PROVE FALSE
  <2>1. IsFiniteSet(A) /\ Bad \subseteq SUBSET A
    BY FS_Subset
  <2>2. PICK s \in Bad : \A t \in Bad : t \subseteq s => t = s
    <3> HIDE DEF Bad
    <3> QED BY <1>1, <2>1, Smallest
  <2>3. s \subseteq A /\ s \in SUBSET R /\ s \in SUBSET S /\ g[s] # h[s]
    OBVIOUS
  <2>4. /\ g[s] = IF s = {} THEN 0 ELSE w[Pick(s)] + g[s \ {Pick(s)}]
        /\ h[s] = IF s = {} THEN 0 ELSE v[Pick(s)] + h[s \ {Pick(s)}]
    BY <2>3 DEF Sums
  <2>5. s # {}
    BY <2>3, <2>4
  <2>6. Pick(s) \in s
    BY <2>5, PickIn
  <2>7. s \ {Pick(s)} \notin Bad
    BY <2>2, <2>6
  <2> QED BY <2>3, <2>4, <2>5, <2>6, <2>7
<1> QED BY <1>1

LEMMA SumsExist ==
  ASSUME NEW S, IsFiniteSet(S), NEW w, \A x \in S : w[x] \in Int
  PROVE  Sums(w, S) # {}
<1> DEFINE Bad == {s \in SUBSET S : Sums(w, s) = {}}
<1>1. ASSUME Bad # {} PROVE FALSE
  <2>0. Bad \subseteq SUBSET S
    OBVIOUS
  <2>1. PICK s \in Bad : \A t \in Bad : t \subseteq s => t = s
    <3> HIDE DEF Bad
    <3> QED BY <1>1, <2>0, Smallest
  <2>2. s \subseteq S /\ Sums(w, s) = {} /\ IsFiniteSet(s)
    BY FS_Subset
  <2>3. \A t \in SUBSET s : t # s => Sums(w, t) # {}
    BY <2>1
  <2> DEFINE part(t) == CHOOSE g : g \in Sums(w, t)
             rest == s \ {Pick(s)}
             g == [t \in SUBSET s |-> IF t # s THEN part(t)[t]
                                      ELSE IF s = {} THEN 0 ELSE w[Pick(s)] + part(rest)[rest]]
  <2>4. \A t \in SUBSET s : t # s => part(t) \in Sums(w, t)
    BY <2>3
  <2>5. \A t \in SUBSET s : t # s => part(t)[t] \in Int
    BY <2>4 DEF Sums
  <2>6. s # {} => rest \in SUBSET s /\ rest # s /\ Pick(s) \in s
    BY PickIn
  <2>7. g \in [SUBSET s -> Int]
    <3>1. s # {} => w[Pick(s)] \in Int /\ part(rest)[rest] \in Int
      BY <2>2, <2>5, <2>6
    <3> HIDE DEF part, rest
    <3>2. ASSUME NEW t \in SUBSET s PROVE g[t] \in Int
      BY <2>5, <3>1
    <3> QED BY <3>2
  <2>8. ASSUME NEW t \in SUBSET s PROVE g[t] = IF t = {} THEN 0 ELSE w[Pick(t)] + g[t \ {Pick(t)}]
    <3>1. CASE t = s
      <4>1. CASE s = {}
        BY <3>1, <4>1
      <4>2. CASE s # {}
        <5>1. g[s] = w[Pick(s)] + part(rest)[rest]
          BY <4>2
        <5>2. g[rest] = part(rest)[rest]
          BY <2>6, <4>2
        <5> QED BY <3>1, <4>2, <5>1, <5>2
      <4> QED BY <4>1, <4>2
    <3>2. CASE t # s
      <4>1. part(t) \in Sums(w, t) /\ g[t] = part(t)[t] /\ t \in SUBSET t
        BY <2>4, <3>2
      <4>2. part(t)[t] = IF t = {} THEN 0 ELSE w[Pick(t)] + part(t)[t \ {Pick(t)}]
        BY <4>1 DEF Sums
      <4>3. CASE t # {}
        <5> DEFINE u == t \ {Pick(t)}
        <5>1. u \in SUBSET s /\ u # s /\ u \subseteq t
          BY <3>2
        <5>2. part(u) \in Sums(w, u) /\ g[u] = part(u)[u]
          BY <2>4, <5>1
        <5>3. IsFiniteSet(t)
          BY <2>2, FS_Subset
        <5>4. part(u)[u] = part(t)[u]
          <6> HIDE DEF part
          <6>1. IsFiniteSet(u)
            BY <5>1, <5>3, FS_Subset
          <6> HIDE DEF u
          <6> QED BY <4>1, <5>1, <5>2, <5>3, <6>1, SumsAgree
        <5> QED BY <4>1, <4>2, <4>3, <5>2, <5>4
      <4>4. CASE t = {}
        BY <4>1, <4>2, <4>4
      <4> QED BY <4>3, <4>4
    <3> QED BY <3>1, <3>2
  <2>9. g \in Sums(w, s)
    <3> HIDE DEF g
    <3> QED BY <2>7, <2>8 DEF Sums
  <2> QED BY <2>2, <2>9
<1>2. S \notin Bad
  BY <1>1
<1> QED BY <1>2

LEMMA RecursionIsSum ==
  ASSUME NEW S, IsFiniteSet(S), NEW w, NEW g \in Sums(w, S), NEW h, h[{}] = 0,
         \A s \in SUBSET S : s # {} /\ h[s \ {Pick(s)}] \in Int
                               => h[s] = w[Pick(s)] + h[s \ {Pick(s)}]
  PROVE  h[S] = g[S]
<1> DEFINE Bad == {s \in SUBSET S : h[s] # g[s]}
<1>1. ASSUME Bad # {} PROVE FALSE
  <2>1. Bad \subseteq SUBSET S
    OBVIOUS
  <2>2. PICK s \in Bad : \A t \in Bad : t \subseteq s => t = s
    <3> HIDE DEF Bad
    <3> QED BY <1>1, <2>1, Smallest
  <2>3. s \in SUBSET S /\ h[s] # g[s]
    OBVIOUS
  <2>4. g[s] = (IF s = {} THEN 0 ELSE w[Pick(s)] + g[s \ {Pick(s)}]) /\ g \in [SUBSET S -> Int]
    BY <2>3 DEF Sums
  <2>5. s # {} /\ Pick(s) \in s
    BY <2>3, <2>4, PickIn
  <2>6. s \ {Pick(s)} \notin Bad
    BY <2>2, <2>5
  <2> QED BY <2>3, <2>4, <2>5, <2>6
<1> QED BY <1>1

\* The two folds of the modules are sums.
LEMMA FoldIsSum ==
  ASSUME NEW S, IsFiniteSet(S), NEW w, \A x \in S : w[x] \in Int
  PROVE  \E g \in Sums(w, S) : SumFunctionOnSet(w, S) = g[S]
<1> DEFINE body(g) == [s \in SUBSET S |-> IF s = {} THEN 0
                         ELSE w[CHOOSE x \in s : TRUE] + g[s \ {CHOOSE x \in s : TRUE}]]
           iter == CHOOSE g : g = body(g)
<1>1. SumFunctionOnSet(w, S) = iter[S]
  BY DEF SumFunctionOnSet, FoldFunctionOnSet, MapThenFoldSet
<1>2. PICK g \in Sums(w, S) : TRUE
  BY SumsExist
<1>3. g = body(g)
  BY <1>2 DEF Sums, Pick
<1>4. iter = body(iter)
  <2> HIDE DEF body
  <2> QED BY <1>3
<1> HIDE DEF iter
<1>5. /\ iter[{}] = 0
      /\ \A s \in SUBSET S : s # {} => iter[s] = w[Pick(s)] + iter[s \ {Pick(s)}]
  BY <1>4 DEF Pick
<1> QED BY <1>1, <1>2, <1>5, RecursionIsSum

LEMMA DoneIsSum ==
  ASSUME NEW S, IsFiniteSet(S), NEW n \in Int, NEW left, \A x \in S : left[x] \in Int
  PROVE  FoldFunctionOnSet(LAMBDA l, sum : sum + n - l, 0, left, S) = SumFunctionOnSet([x \in S |-> n - left[x]], S)
<1> DEFINE w == [x \in S |-> n - left[x]]
           body(g) == [s \in SUBSET S |-> IF s = {} THEN 0
                         ELSE g[s \ {CHOOSE x \in s : TRUE}] + n - left[CHOOSE x \in s : TRUE]]
           iter == CHOOSE g : g = body(g)
<1>1. FoldFunctionOnSet(LAMBDA l, sum : sum + n - l, 0, left, S) = iter[S]
  BY DEF FoldFunctionOnSet, MapThenFoldSet
<1>2. PICK g \in Sums(w, S) : SumFunctionOnSet(w, S) = g[S]
  <2>1. \A x \in S : w[x] \in Int
    OBVIOUS
  <2> HIDE DEF w
  <2> QED BY <2>1, FoldIsSum
<1>3. g = body(g)
  <2>1. g \in [SUBSET S -> Int]
    BY DEF Sums
  <2>2. ASSUME NEW s \in SUBSET S, s # {}
        PROVE  g[s] = g[s \ {CHOOSE x \in s : TRUE}] + n - left[CHOOSE x \in s : TRUE]
    <3>1. Pick(s) \in s /\ Pick(s) \in S /\ s \ {Pick(s)} \in SUBSET S
      BY <2>2, PickIn
    <3>2. g[s] = w[Pick(s)] + g[s \ {Pick(s)}]
      BY <2>2 DEF Sums
    <3>3. w[Pick(s)] = n - left[Pick(s)] /\ left[Pick(s)] \in Int /\ g[s \ {Pick(s)}] \in Int
      BY <2>1, <3>1
    <3>4. g[s] = g[s \ {Pick(s)}] + n - left[Pick(s)]
      <4> HIDE DEF w
      <4> QED BY <3>2, <3>3
    <3> QED BY <3>4 DEF Pick
  <2>3. g[{}] = 0
    BY DEF Sums
  <2> HIDE DEF w
  <2> QED BY <2>1, <2>2, <2>3
<1>4. iter = body(iter)
  <2> HIDE DEF body
  <2> QED BY <1>3
<1> HIDE DEF iter
<1>5. iter[{}] = 0
  BY <1>4
<1>6. ASSUME NEW s \in SUBSET S, s # {}, iter[s \ {Pick(s)}] \in Int
      PROVE  iter[s] = w[Pick(s)] + iter[s \ {Pick(s)}]
  <2>1. Pick(s) \in S
    BY <1>6, PickIn
  <2>2. iter[s] = iter[s \ {Pick(s)}] + n - left[Pick(s)]
    BY <1>4, <1>6 DEF Pick
  <2> QED BY <1>6, <2>1, <2>2
<1>7. iter[S] = g[S]
  <2> HIDE DEF w
  <2> QED BY <1>2, <1>5, <1>6, RecursionIsSum
<1> QED BY <1>1, <1>2, <1>7

LEMMA SumIsInt ==
  ASSUME NEW S, IsFiniteSet(S), NEW w, \A x \in S : w[x] \in Int
  PROVE  SumFunctionOnSet(w, S) \in Int
<1>1. PICK g \in Sums(w, S) : SumFunctionOnSet(w, S) = g[S]
  BY FoldIsSum
<1> QED BY <1>1 DEF Sums

\* Only the values of the members matter.
LEMMA SumSame ==
  ASSUME NEW S, IsFiniteSet(S), NEW w, NEW v, \A x \in S : w[x] \in Int /\ v[x] = w[x]
  PROVE  SumFunctionOnSet(v, S) = SumFunctionOnSet(w, S)
<1>1. PICK g \in Sums(w, S) : SumFunctionOnSet(w, S) = g[S]
  BY FoldIsSum
<1>2. \A x \in S : v[x] \in Int
  OBVIOUS
<1>3. PICK h \in Sums(v, S) : SumFunctionOnSet(v, S) = h[S]
  BY <1>2, FoldIsSum
<1>4. PICK R : R = S
  OBVIOUS
<1>5. g \in Sums(w, R) /\ S \subseteq R /\ S \subseteq S
  BY <1>4
<1> QED BY <1>1, <1>3, <1>5, SumsAgree

\* Any member can be taken out first, whatever the order of the fold.
LEMMA SumWithout ==
  ASSUME NEW S, IsFiniteSet(S), NEW w, \A x \in S : w[x] \in Int, NEW c \in S
  PROVE  SumFunctionOnSet(w, S) = w[c] + SumFunctionOnSet(w, S \ {c})
<1>1. PICK g \in Sums(w, S) : SumFunctionOnSet(w, S) = g[S]
  BY FoldIsSum
<1>2. /\ g \in [SUBSET S -> Int] /\ g[{}] = 0
      /\ \A s \in SUBSET S : s # {} => g[s] = w[Pick(s)] + g[s \ {Pick(s)}]
  BY DEF Sums
<1> DEFINE Bad == {s \in SUBSET S : \E d \in s : g[s] # w[d] + g[s \ {d}]}
<1>3. ASSUME Bad # {} PROVE FALSE
  <2>1. Bad \subseteq SUBSET S
    OBVIOUS
  <2>2. PICK s \in Bad : \A t \in Bad : t \subseteq s => t = s
    <3> HIDE DEF Bad
    <3> QED BY <1>3, <2>1, Smallest
  <2>3. PICK d \in s : g[s] # w[d] + g[s \ {d}]
    OBVIOUS
  <2>4. PICK p \in s : p = Pick(s) /\ g[s] = w[p] + g[s \ {p}]
    BY <1>2, <2>3, PickIn
  <2>5. p # d /\ s \subseteq S
    BY <2>3, <2>4
  <2>6. s \ {p} \notin Bad /\ s \ {d} \notin Bad
    BY <2>2
  <2>7. g[s \ {p}] = w[d] + g[(s \ {p}) \ {d}]
    BY <2>5, <2>6
  <2>8. g[s \ {d}] = w[p] + g[(s \ {d}) \ {p}]
    BY <2>5, <2>6
  <2>9. (s \ {p}) \ {d} = (s \ {d}) \ {p} /\ (s \ {p}) \ {d} \in SUBSET S
    BY <2>5
  <2>10. PICK wp \in Int, wd \in Int, rest \in Int :
           wp = w[p] /\ wd = w[d] /\ rest = g[(s \ {p}) \ {d}]
    BY <1>2, <2>5, <2>9
  <2>11. g[s] = wp + (wd + rest)
    BY <2>4, <2>7, <2>10
  <2>12. g[s \ {d}] = wp + rest
    BY <2>8, <2>9, <2>10
  <2>13. wp + (wd + rest) = wd + (wp + rest)
    BY ONLY <2>10
  <2> QED BY ONLY <2>3, <2>10, <2>11, <2>12, <2>13
<1>4. g[S] = w[c] + g[S \ {c}]
  BY <1>3
<1>5. IsFiniteSet(S \ {c})
  BY FS_Subset
<1>6. PICK h \in Sums(w, S \ {c}) : SumFunctionOnSet(w, S \ {c}) = h[S \ {c}]
  BY <1>5, FoldIsSum
<1>7. g[S \ {c}] = h[S \ {c}]
  <2>1. S \ {c} \subseteq S
    OBVIOUS
  <2> DEFINE A == S \ {c}
  <2> HIDE DEF A
  <2>2. A \subseteq S /\ A \subseteq A /\ IsFiniteSet(A) /\ h \in Sums(w, A)
    BY <1>5, <2>1 DEF A
  <2>3. g[A] = h[A]
    BY <2>2, SumsAgree
  <2> QED BY <2>3 DEF A
<1> QED BY <1>1, <1>4, <1>6, <1>7

\* One value grows by one: so does the sum.
LEMMA SumGrows ==
  ASSUME NEW S, IsFiniteSet(S), NEW w, NEW v, NEW c \in S, \A x \in S : w[x] \in Int,
         v[c] = w[c] + 1, \A x \in S \ {c} : v[x] = w[x]
  PROVE  SumFunctionOnSet(v, S) = SumFunctionOnSet(w, S) + 1
<1>1. IsFiniteSet(S \ {c}) /\ (\A x \in S : v[x] \in Int) /\ w[c] \in Int
  BY FS_Subset
<1>2. /\ SumFunctionOnSet(w, S) = w[c] + SumFunctionOnSet(w, S \ {c})
      /\ SumFunctionOnSet(v, S) = v[c] + SumFunctionOnSet(v, S \ {c})
  BY <1>1, SumWithout
<1>3. /\ SumFunctionOnSet(w, S \ {c}) \in Int
      /\ SumFunctionOnSet(v, S \ {c}) = SumFunctionOnSet(w, S \ {c})
  BY <1>1, SumIsInt, SumSame
<1> QED BY <1>1, <1>2, <1>3

LEMMA SumOfZeros ==
  ASSUME NEW S, IsFiniteSet(S), NEW w, \A x \in S : w[x] = 0
  PROVE  SumFunctionOnSet(w, S) = 0
<1>1. PICK g \in Sums(w, S) : SumFunctionOnSet(w, S) = g[S]
  BY FoldIsSum
<1> DEFINE Bad == {s \in SUBSET S : g[s] # 0}
<1>2. ASSUME Bad # {} PROVE FALSE
  <2>1. Bad \subseteq SUBSET S
    OBVIOUS
  <2>2. PICK s \in Bad : \A t \in Bad : t \subseteq s => t = s
    <3> HIDE DEF Bad
    <3> QED BY <1>2, <2>1, Smallest
  <2>3. g[s] = IF s = {} THEN 0 ELSE w[Pick(s)] + g[s \ {Pick(s)}]
    BY DEF Sums
  <2>4. s # {} /\ Pick(s) \in s
    BY <2>3, PickIn
  <2>5. s \ {Pick(s)} \notin Bad
    BY <2>2, <2>4
  <2> QED BY <2>3, <2>4, <2>5
<1> QED BY <1>1, <1>2

-----------------------------------------------------------------------------
(* lockmain, onedaemon and test3                                            *)

\* The fcntl lock: one writer, or readers only.
Excludes ==
  \A p, q \in Procs : p # q /\ lock[p] = "write" => lock[q] = "none"

\* A daemon that has passed write_lock keeps the lock.
DaemonPlaces == {"truncate", "daemon_write", "pause"}
DaemonHasLock == \A p \in Processes : pc[p] \in DaemonPlaces => lock[p] = "write"

\* Between Ftruncate and Write the file stays empty.
EmptyToBeWritten == \A p \in Processes : pc[p] = "daemon_write" => file = <<>>

Places ==
  {"off", "seq_lock", "seq_read", "seq_write", "seq_unlock", "open", "daemon_lock", "truncate",
   "daemon_write", "pause", "test_lock", "fork_second", "fork_first", "test_unlock", "leave",
   "child_lock", "child_unlock", "exit", "failed", "killed"}

Shapes ==
  /\ pc \in [Procs -> Places]
  /\ lock \in [Procs -> {"none", "read", "write"}]

IInv == Shapes /\ Excludes /\ DaemonHasLock /\ EmptyToBeWritten /\ OneDaemon

\* A pid written into an empty file is all there is in it.
LEMMA WriteIntoEmpty ==
  ASSUME NEW p, PidLength[p] \in Nat
  PROVE  Line(p) \o SubSeq(<<>>, PidLength[p] + 1, Len(<<>>)) = Line(p)
<1>1. SubSeq(<<>>, PidLength[p] + 1, Len(<<>>)) = <<>>
  OBVIOUS
<1>2. Line(p) \in Seq({p})
  BY DEF Line
<1> QED BY <1>1, <1>2

LEMMA InitInv == Init => IInv
<1> SUFFICES ASSUME Init PROVE IInv
  OBVIOUS
<1>1. \A p \in Procs : FirstPlace(p) \in {"seq_lock", "open", "test_lock", "off"}
  BY DEF FirstPlace
<1>2. \A p \in Procs : pc[p] \notin DaemonPlaces /\ lock[p] = "none"
  BY <1>1 DEF Init, DaemonPlaces
<1>3. Shapes
  <2> HIDE DEF FirstPlace
  <2> QED BY <1>1 DEF Init, Shapes, Places
<1> QED BY <1>2, <1>3 DEF IInv, Excludes, DaemonHasLock, DaemonPlaces, EmptyToBeWritten, OneDaemon, Procs

\* A process that neither enters the daemon's critical places nor touches the
\* file, and whose lock goes, stays, or is taken when it is free.
LEMMA OutsideStep ==
  ASSUME IInv, NEW p \in Procs, NEW to \in Places \ DaemonPlaces, Goto(p, to),
         \/ UNCHANGED lock
         \/ SetLock(p, "none")
         \/ \E type \in {"read", "write"} : Lockable(p, type) /\ SetLock(p, type),
         file' = file
  PROVE  IInv'
<1> USE DEF IInv, Shapes
<1>1. /\ pc' \in [Procs -> Places] /\ pc'[p] = to
      /\ \A q \in Procs \ {p} : pc'[q] = pc[q]
  BY DEF Goto
<1>2. /\ lock' \in [Procs -> {"none", "read", "write"}]
      /\ \A q \in Procs \ {p} : lock'[q] = lock[q]
  BY DEF SetLock
<1>3. Excludes'
  <2>1. CASE UNCHANGED lock
    BY <2>1 DEF Excludes
  <2>2. CASE SetLock(p, "none")
    BY <2>2 DEF Excludes, SetLock
  <2>3. ASSUME NEW type \in {"read", "write"}, Lockable(p, type), SetLock(p, type)
        PROVE  Excludes'
    BY <2>3 DEF Excludes, SetLock, Lockable
  <2> QED BY <2>1, <2>2, <2>3
<1>4. Processes \subseteq Procs
  BY DEF Procs
<1>5. DaemonHasLock' /\ EmptyToBeWritten' /\ OneDaemon'
  BY <1>1, <1>2, <1>4 DEF DaemonHasLock, DaemonPlaces, EmptyToBeWritten, OneDaemon
<1> QED BY <1>1, <1>2, <1>3, <1>5

\* A daemon moves on in its critical places, where it is alone.
LEMMA InsideStep ==
  ASSUME IInv, NEW p \in Processes, NEW to \in DaemonPlaces, Goto(p, to), SetLock(p, "write"),
         \A q \in Procs \ {p} : lock[q] = "none",
         to = "daemon_write" => file' = <<>>,
         to = "pause" => file' = Line(p)
  PROVE  IInv'
<1> USE DEF IInv, Shapes
<1>1. p \in Procs /\ Processes \subseteq Procs /\ to \in Places
  BY DEF Procs, DaemonPlaces, Places
<1>2. /\ pc' \in [Procs -> Places] /\ pc'[p] = to
      /\ \A q \in Procs \ {p} : pc'[q] = pc[q]
  BY <1>1 DEF Goto
<1>3. /\ lock' \in [Procs -> {"none", "read", "write"}] /\ lock'[p] = "write"
      /\ \A q \in Procs \ {p} : lock'[q] = "none"
  BY <1>1 DEF SetLock
<1>4. \A q \in Processes \ {p} : pc'[q] \notin DaemonPlaces
  BY <1>1, <1>2 DEF DaemonHasLock
<1>5. Excludes' /\ DaemonHasLock'
  BY <1>1, <1>3, <1>4 DEF Excludes, DaemonHasLock
<1>6. EmptyToBeWritten' /\ OneDaemon'
  BY <1>1, <1>2, <1>4 DEF EmptyToBeWritten, OneDaemon, DaemonPlaces
<1> QED BY <1>2, <1>3, <1>5, <1>6

LEMMA StepInv ==
  ASSUME IInv, [Next]_vars
  PROVE  IInv'
<1> USE DEF DaemonPlaces, Places
<1>p. Processes \subseteq Procs /\ Family \subseteq Procs
  BY DEF Procs
<1>c. /\ "parent" \in Procs /\ "second" \in Procs /\ "first" \in Procs
  BY <1>p DEF Family
<1>1. ASSUME NEW p \in Processes, SeqLock(p) PROVE IInv'
  BY <1>1, <1>p, OutsideStep DEF SeqLock, LockWait
<1>2. ASSUME NEW p \in Processes, SeqRead(p) PROVE IInv'
  BY <1>2, <1>p, OutsideStep DEF SeqRead
<1>3. ASSUME NEW p \in Processes, SeqWrite(p) PROVE IInv'
  BY <1>3, <1>p, OutsideStep DEF SeqWrite
<1>4. ASSUME NEW p \in Processes, SeqUnlock(p) PROVE IInv'
  BY <1>4, <1>p, OutsideStep DEF SeqUnlock
<1>5. ASSUME NEW p \in Processes, SeqReturn(p) PROVE IInv'
  BY <1>5, <1>p, OutsideStep DEF SeqReturn, End
<1>6. ASSUME NEW p \in Processes, DaemonOpen(p) PROVE IInv'
  BY <1>6, <1>p, OutsideStep DEF DaemonOpen
<1>7. ASSUME NEW p \in Processes, DaemonLock(p) PROVE IInv'
  <2>1. CASE LockWait(p, "write", "truncate")
    <3>1. Goto(p, "truncate") /\ SetLock(p, "write") /\ \A q \in Procs \ {p} : lock[q] = "none"
      BY <1>7, <2>1 DEF DaemonLock, LockWait, Lockable
    <3> QED BY <3>1, InsideStep
  <2>2. CASE End(p, "failed")
    BY <1>7, <2>2, <1>p, OutsideStep DEF DaemonLock, End
  <2> QED BY <1>7, <2>1, <2>2 DEF DaemonLock, LockOrFail
<1>8. ASSUME NEW p \in Processes, DaemonTruncate(p) PROVE IInv'
  <2>1. pc[p] = "truncate" /\ Goto(p, "daemon_write") /\ lock' = lock
    BY <1>8 DEF DaemonTruncate
  <2>2. SetLock(p, "write") /\ \A q \in Procs \ {p} : lock[q] = "none"
    BY <1>p, <2>1 DEF IInv, Shapes, Excludes, DaemonHasLock, SetLock
  <2>3. file' = <<>>
    BY <1>8 DEF DaemonTruncate
  <2> QED BY <2>1, <2>2, <2>3, InsideStep
<1>9. ASSUME NEW p \in Processes, DaemonWrite(p) PROVE IInv'
  <2>1. pc[p] = "daemon_write" /\ Goto(p, "pause") /\ lock' = lock
    BY <1>9 DEF DaemonWrite
  <2>2. SetLock(p, "write") /\ \A q \in Procs \ {p} : lock[q] = "none"
    BY <1>p, <2>1 DEF IInv, Shapes, Excludes, DaemonHasLock, SetLock
  <2>3. file' = Line(p)
    BY <1>9, WriteIntoEmpty, LocksAssumption DEF DaemonWrite, IInv, EmptyToBeWritten
  <2> QED BY <2>1, <2>2, <2>3, InsideStep
<1>10. CASE ParentLock
  BY <1>10, <1>c, OutsideStep DEF ParentLock, LockOrFail, LockWait, End
<1>11. ASSUME NEW kid \in {"second", "first"}, NEW from, NEW to \in {"fork_first", "test_unlock"},
             Fork(kid, from, to)
      PROVE  IInv'
  <2>1. /\ pc' = [pc EXCEPT !["parent"] = to, ![kid] = "child_lock"]
        /\ lock' = lock /\ file' = file
    BY <1>11 DEF Fork
  <2>2. /\ pc' \in [Procs -> Places]
        /\ \A q \in Procs : pc'[q] \in DaemonPlaces => pc'[q] = pc[q]
    BY <1>c, <2>1 DEF IInv, Shapes
  <2> QED BY <1>p, <2>1, <2>2 DEF IInv, Shapes, Excludes, DaemonHasLock, EmptyToBeWritten, OneDaemon
<1>12. CASE ParentUnlock
  BY <1>12, <1>c, OutsideStep DEF ParentUnlock
<1>13. CASE ParentReturn
  BY <1>13, <1>c, OutsideStep DEF ParentReturn, End
<1>14. ASSUME NEW c \in {"second", "first"}, ChildLock(c) PROVE IInv'
  BY <1>14, <1>c, OutsideStep DEF ChildLock, LockWait
<1>15. ASSUME NEW c \in {"second", "first"}, ChildUnlock(c) PROVE IInv'
  BY <1>15, <1>c, OutsideStep DEF ChildUnlock, End
<1>16. ASSUME NEW p \in Procs, Kill(p) PROVE IInv'
  BY <1>16, OutsideStep DEF Kill, End
<1>17. CASE UNCHANGED vars
  BY <1>17 DEF vars, IInv, Shapes, Excludes, DaemonHasLock, EmptyToBeWritten, OneDaemon
<1> QED
  BY <1>1, <1>2, <1>3, <1>4, <1>5, <1>6, <1>7, <1>8, <1>9, <1>10, <1>11, <1>12, <1>13, <1>14, <1>15, <1>16, <1>17
     DEF Next, Run, Lockmain, Onedaemon, Test3Parent, Test3Child

-----------------------------------------------------------------------------
\* IInv holds in every state of lockmain, onedaemon and test3.
LEMMA AlwaysIInv == Spec => []IInv
<1>1. IInv /\ [Next]_vars => IInv'
  BY StepInv
<1> QED BY <1>1, InitInv, PTL DEF Spec

\* A writer excludes everybody in all three programs, wherever a process ends
\* or is killed.
THEOREM LockExcludes == Spec => []Excludes
<1>1. IInv => Excludes
  BY DEF IInv
<1> QED BY <1>1, AlwaysIInv, PTL

\* The daemon that pauses is the one whose pid is in the file, and nothing else
\* is, for any number of daemons started and killed at any point.
THEOREM DaemonOwnsPidFile == Spec => []OneDaemon
<1>1. IInv => OneDaemon
  BY DEF IInv
<1> QED BY <1>1, AlwaysIInv, PTL

-----------------------------------------------------------------------------
\* The types of lockmain, onedaemon and test3.  A process that increments has a
\* round left.
LockTypes ==
  /\ TypeOK
  /\ \A p \in Processes : pc[p] \in {"seq_read", "seq_write"} => loop[p] > 0

LEMMA LocksBegin ==
  ASSUME Init PROVE LockTypes
<1>1. IInv
  BY InitInv
<1>2. pc \in [Procs -> Places] /\ lock \in [Procs -> {"none", "read", "write"}]
  BY <1>1 DEF IInv, Shapes
<1>3. prog \in Programs /\ file = <<>> /\ seqno = 0
      /\ reg = [p \in Processes |-> 0] /\ loop = [p \in Processes |-> nloop]
  BY DEF Init
<1>4. file \in Seq(Processes) /\ reg \in [Processes -> Nat] /\ loop \in [Processes -> 0..nloop]
  BY <1>3, LocksAssumption
<1>5. TypeOK
  BY <1>2, <1>3, <1>4 DEF TypeOK, Places, Ended
<1>6. \A p \in Processes : p \in Procs /\ pc[p] = FirstPlace(p)
  BY DEF Init, Procs
<1>7. \A p \in Processes : FirstPlace(p) \notin {"seq_read", "seq_write"}
  BY DEF FirstPlace
<1> QED BY <1>5, <1>6, <1>7 DEF LockTypes

LEMMA LocksKeepTypes ==
  ASSUME IInv, IInv', LockTypes, [Next]_vars
  PROVE  LockTypes'
<1>1. /\ pc' \in [Procs -> Places] /\ lock' \in [Procs -> {"none", "read", "write"}]
      /\ pc \in [Procs -> Places] /\ Processes \subseteq Procs
  BY DEF IInv, Shapes, Procs
<1>2. /\ prog \in Programs /\ file \in Seq(Processes) /\ seqno \in Nat
      /\ reg \in [Processes -> Nat] /\ loop \in [Processes -> 0..nloop]
      /\ \A p \in Processes : pc[p] \in {"seq_read", "seq_write"} => loop[p] > 0
  BY DEF LockTypes, TypeOK
<1>3. ASSUME NEW p \in Processes, NEW to, to = "seq_read" => loop[p] > 0, to # "seq_write",
             pc' = [pc EXCEPT ![p] = to], prog' = prog, file' \in Seq(Processes),
             UNCHANGED <<seqno, reg, loop>>
      PROVE  LockTypes'
  <2>1. \A q \in Processes : pc'[q] \in {"seq_read", "seq_write"} => loop'[q] > 0
    BY <1>1, <1>2, <1>3
  <2> QED BY <1>1, <1>2, <1>3, <2>1 DEF LockTypes, TypeOK, Places, Ended
<1>4. ASSUME UNCHANGED <<prog, file, seqno, reg, loop>>,
             \A q \in Processes : pc'[q] \in {"seq_read", "seq_write"} => pc'[q] = pc[q]
      PROVE  LockTypes'
  BY <1>1, <1>2, <1>4 DEF LockTypes, TypeOK, Places, Ended
<1>5. ASSUME NEW p \in Processes, SeqLock(p) PROVE LockTypes'
  BY <1>2, <1>3, <1>5 DEF SeqLock, LockWait, Goto
<1>6. ASSUME NEW p \in Processes, SeqRead(p) PROVE LockTypes'
  <2>1. /\ pc' = [pc EXCEPT ![p] = "seq_write"] /\ reg' = [reg EXCEPT ![p] = seqno]
        /\ pc[p] = "seq_read" /\ UNCHANGED <<prog, file, seqno, loop>>
    BY <1>6 DEF SeqRead, Goto
  <2>2. reg' \in [Processes -> Nat]
    BY <1>2, <2>1
  <2>3. \A q \in Processes : pc'[q] \in {"seq_read", "seq_write"} => loop'[q] > 0
    BY <1>1, <1>2, <2>1
  <2> QED BY <1>1, <1>2, <2>1, <2>2, <2>3 DEF LockTypes, TypeOK, Places, Ended
<1>7. ASSUME NEW p \in Processes, SeqWrite(p) PROVE LockTypes'
  <2>1. /\ pc' = [pc EXCEPT ![p] = "seq_unlock"] /\ seqno' = reg[p] + 1
        /\ loop' = [loop EXCEPT ![p] = @ - 1]
        /\ pc[p] = "seq_write" /\ UNCHANGED <<prog, file, reg>>
    BY <1>7 DEF SeqWrite, Goto
  <2>2. loop[p] - 1 \in 0..nloop /\ seqno' \in Nat
    <3>1. loop[p] \in 0..nloop /\ loop[p] > 0 /\ reg[p] \in Nat /\ nloop \in Nat
      BY <1>2, <2>1, LocksAssumption
    <3> QED BY ONLY <2>1, <3>1
  <2>3. loop' \in [Processes -> 0..nloop]
    BY <1>2, <2>1, <2>2
  <2>4. \A q \in Processes : pc'[q] \in {"seq_read", "seq_write"} => loop'[q] > 0
    BY <1>1, <1>2, <2>1
  <2> QED BY <1>1, <1>2, <2>1, <2>2, <2>3, <2>4 DEF LockTypes, TypeOK, Places, Ended
<1>8. ASSUME NEW p \in Processes, SeqUnlock(p) \/ SeqReturn(p) PROVE LockTypes'
  BY <1>2, <1>3, <1>8 DEF SeqUnlock, SeqReturn, End, Goto
<1>9. ASSUME NEW p \in Processes, DaemonOpen(p) \/ DaemonLock(p) \/ DaemonTruncate(p) PROVE LockTypes'
  <2>1. /\ \E to \in {"daemon_lock", "truncate", "failed", "daemon_write"} : pc' = [pc EXCEPT ![p] = to]
        /\ file' \in {file, <<>>} /\ UNCHANGED <<prog, seqno, reg, loop>>
    <3>1. CASE DaemonOpen(p)
      BY <3>1 DEF DaemonOpen, Goto
    <3>2. CASE DaemonLock(p)
      BY <3>2 DEF DaemonLock, LockOrFail, LockWait, End, Goto
    <3>3. CASE DaemonTruncate(p)
      BY <3>3 DEF DaemonTruncate, Goto
    <3> QED BY <1>9, <3>1, <3>2, <3>3
  <2>2. file' \in Seq(Processes)
    BY <1>2, <2>1, EmptySeq
  <2> QED BY <1>3, <2>1, <2>2
<1>10. ASSUME NEW p \in Processes, DaemonWrite(p) PROVE LockTypes'
  <2>1. /\ pc' = [pc EXCEPT ![p] = "pause"] /\ UNCHANGED <<prog, seqno, reg, loop>>
        /\ pc[p] = "daemon_write" /\ file' = Line(p) \o SubSeq(file, PidLength[p] + 1, Len(file))
    BY <1>10 DEF DaemonWrite, Goto
  <2>2. PidLength[p] \in Nat
    BY LocksAssumption
  <2>3. file' = Line(p)
    BY <2>1, <2>2, WriteIntoEmpty DEF IInv, EmptyToBeWritten
  <2>4. Line(p) \in Seq(Processes)
    BY <2>2 DEF Line
  <2> QED BY <1>3, <2>1, <2>3, <2>4
<1>11. CASE Test3Parent \/ \E c \in {"second", "first"} : Test3Child(c)
  <2>1. UNCHANGED <<prog, file, seqno, reg, loop>>
    BY <1>11 DEF Test3Parent, Test3Child, ParentLock, Fork, ParentUnlock, ParentReturn, ChildLock, ChildUnlock
  <2>2. \/ \E p \in Procs, to \in {"fork_second", "failed", "leave", "exit", "child_unlock"} :
             pc' = [pc EXCEPT ![p] = to]
        \/ \E kid \in {"second", "first"}, to \in {"fork_first", "test_unlock"} :
             pc' = [pc EXCEPT !["parent"] = to, ![kid] = "child_lock"]
    <3>1. Family \subseteq Procs
      BY DEF Procs
    <3> QED BY <1>11, <3>1
      DEF Test3Parent, Test3Child, ParentLock, Fork, ParentUnlock, ParentReturn, ChildLock, ChildUnlock,
          LockOrFail, LockWait, End, Goto, Family
  <2>3. \A q \in Processes : pc'[q] \in {"seq_read", "seq_write"} => pc'[q] = pc[q]
    BY <1>1, <2>2
  <2> QED BY <1>4, <2>1, <2>3
<1>12. ASSUME NEW p \in Procs, Kill(p) PROVE LockTypes'
  <2>1. pc' = [pc EXCEPT ![p] = "killed"] /\ UNCHANGED <<prog, file, seqno, reg, loop>>
    BY <1>12 DEF Kill, End, Goto
  <2> QED BY <1>1, <1>4, <2>1
<1>13. CASE UNCHANGED vars
  BY <1>4, <1>13 DEF vars
<1> QED
  BY <1>5, <1>6, <1>7, <1>8, <1>9, <1>10, <1>11, <1>12, <1>13 DEF Next, Run, Lockmain, Onedaemon

-----------------------------------------------------------------------------
\* The increments lockmain has made.
Increments == SumFunctionOnSet([p \in Processes |-> nloop - loop[p]], Processes)

\* From my_lock to my_unlock a process of lockmain has the lock, and what it has
\* read is what the file says.
SeqPlaces == {"seq_read", "seq_write", "seq_unlock"}
SeqInv ==
  /\ \A p \in Processes :
       /\ pc[p] \in SeqPlaces => lock[p] = "write"
       /\ pc[p] = "seq_write" => reg[p] = seqno
  /\ seqno = Increments

LEMMA NothingIncremented == Init => SeqInv
<1> SUFFICES ASSUME Init PROVE SeqInv
  OBVIOUS
<1>1. seqno = 0 /\ loop = [p \in Processes |-> nloop] /\ \A p \in Processes : pc[p] = FirstPlace(p) /\ p \in Procs
  BY DEF Init, Procs
<1>2. \A p \in Processes : FirstPlace(p) \notin SeqPlaces
  BY DEF FirstPlace, SeqPlaces
<1>3. \A p \in Processes : [q \in Processes |-> nloop - loop[q]][p] = 0
  BY <1>1, LocksAssumption
<1>4. Increments = 0
  BY <1>3, LocksAssumption, SumOfZeros DEF Increments
<1> HIDE DEF FirstPlace
<1> QED BY <1>1, <1>2, <1>4 DEF SeqInv, SeqPlaces

LEMMA SeqKept ==
  ASSUME IInv, LockTypes, SeqInv, [Next]_vars
  PROVE  SeqInv'
<1>1. /\ pc \in [Procs -> Places] /\ lock \in [Procs -> {"none", "read", "write"}] /\ Excludes
      /\ Processes \subseteq Procs /\ {"parent", "second", "first"} \subseteq Procs
      /\ seqno \in Nat /\ reg \in [Processes -> Nat] /\ loop \in [Processes -> 0..nloop]
  BY DEF IInv, Shapes, Procs, Family, LockTypes, TypeOK
<1>2. /\ IsFiniteSet(Processes) /\ nloop \in Nat
      /\ \A p \in Processes : loop[p] \in Int
  BY <1>1, LocksAssumption
<1>3. ASSUME UNCHANGED <<seqno, loop, reg>>,
             \A p \in Processes : pc'[p] \in SeqPlaces => pc'[p] = pc[p] /\ lock'[p] = lock[p]
      PROVE  SeqInv'
  BY <1>3 DEF SeqInv, SeqPlaces, Increments
<1>4. ASSUME NEW p \in Procs, NEW to, to \notin SeqPlaces, Goto(p, to),
             UNCHANGED lock \/ \E type : SetLock(p, type), UNCHANGED <<seqno, loop, reg>>
      PROVE  SeqInv'
  <2>1. \A q \in Processes \ {p} : pc'[q] = pc[q] /\ lock'[q] = lock[q]
    BY <1>1, <1>4 DEF Goto, SetLock
  <2>2. pc'[p] = to
    BY <1>1, <1>4 DEF Goto
  <2> QED BY <1>3, <1>4, <2>1, <2>2
<1>5. ASSUME NEW p \in Processes, SeqLock(p) PROVE SeqInv'
  <2>1. /\ pc' = [pc EXCEPT ![p] = "seq_read"] /\ lock' = [lock EXCEPT ![p] = "write"]
        /\ UNCHANGED <<seqno, loop, reg>>
    BY <1>5 DEF SeqLock, LockWait, Goto, SetLock
  <2> QED BY <1>1, <2>1 DEF SeqInv, SeqPlaces, Increments
<1>6. ASSUME NEW p \in Processes, SeqRead(p) PROVE SeqInv'
  <2>1. /\ pc[p] = "seq_read" /\ pc' = [pc EXCEPT ![p] = "seq_write"] /\ reg' = [reg EXCEPT ![p] = seqno]
        /\ UNCHANGED <<seqno, loop, lock>>
    BY <1>6 DEF SeqRead, Goto
  <2> QED BY <1>1, <2>1 DEF SeqInv, SeqPlaces, Increments
<1>7. ASSUME NEW p \in Processes, SeqWrite(p) PROVE SeqInv'
  <2>1. /\ pc[p] = "seq_write" /\ pc' = [pc EXCEPT ![p] = "seq_unlock"] /\ seqno' = reg[p] + 1
        /\ loop' = [loop EXCEPT ![p] = @ - 1]
        /\ UNCHANGED <<reg, lock>>
    BY <1>7 DEF SeqWrite, Goto
  <2>2. seqno' = seqno + 1 /\ lock[p] = "write"
    BY <2>1 DEF SeqInv, SeqPlaces
  <2>3. \A q \in Processes \ {p} : pc[q] \notin SeqPlaces
    BY <1>1, <2>2 DEF SeqInv, Excludes
  <2>4. \A q \in Processes : (pc'[q] \in SeqPlaces => lock'[q] = "write") /\ pc'[q] # "seq_write"
    BY <1>1, <2>1, <2>2, <2>3 DEF SeqPlaces
  <2>5. PICK w, v : w = [q \in Processes |-> nloop - loop[q]] /\ v = [q \in Processes |-> nloop - loop'[q]]
    OBVIOUS
  <2>6. \A q \in Processes : w[q] \in Int
    BY <1>2, <2>5
  <2>7. v[p] = w[p] + 1 /\ \A q \in Processes \ {p} : v[q] = w[q]
    <3>1. loop'[p] = loop[p] - 1 /\ \A q \in Processes \ {p} : loop'[q] = loop[q]
      BY <1>1, <2>1
    <3>2. \A q \in Processes : w[q] = nloop - loop[q] /\ v[q] = nloop - loop'[q]
      BY <2>5
    <3>3. nloop - (loop[p] - 1) = nloop - loop[p] + 1
      BY ONLY <1>2, p \in Processes
    <3> QED BY <3>1, <3>2, <3>3
  <2>8. SumFunctionOnSet(v, Processes) = SumFunctionOnSet(w, Processes) + 1
    BY <1>2, <2>6, <2>7, SumGrows
  <2>9. seqno' = Increments'
    BY <2>2, <2>5, <2>8 DEF SeqInv, Increments
  <2> QED BY <2>4, <2>9 DEF SeqInv
<1>8. ASSUME NEW p \in Processes, SeqUnlock(p) \/ SeqReturn(p) PROVE SeqInv'
  BY <1>1, <1>4, <1>8 DEF SeqUnlock, SeqReturn, End, SeqPlaces
<1>9. ASSUME NEW p \in Processes, Onedaemon(p) PROVE SeqInv'
  BY <1>1, <1>4, <1>9
    DEF Onedaemon, DaemonOpen, DaemonLock, DaemonTruncate, DaemonWrite, LockOrFail, LockWait, End, SeqPlaces
<1>10. CASE ParentLock \/ ParentUnlock \/ ParentReturn
  BY <1>1, <1>4, <1>10 DEF ParentLock, ParentUnlock, ParentReturn, LockOrFail, LockWait, End, SeqPlaces
<1>11. ASSUME NEW kid \in {"second", "first"}, NEW from, NEW to \in {"fork_first", "test_unlock"},
             Fork(kid, from, to)
      PROVE  SeqInv'
  <2>1. /\ pc' = [pc EXCEPT !["parent"] = to, ![kid] = "child_lock"]
        /\ UNCHANGED <<lock, seqno, loop, reg>>
    BY <1>11 DEF Fork
  <2>2. \A q \in Processes : pc'[q] \in SeqPlaces => pc'[q] = pc[q]
    BY <1>1, <2>1 DEF SeqPlaces
  <2> QED BY <1>3, <2>1, <2>2
<1>12. ASSUME NEW c \in {"second", "first"}, Test3Child(c) PROVE SeqInv'
  BY <1>1, <1>4, <1>12 DEF Test3Child, ChildLock, ChildUnlock, LockWait, End, SeqPlaces
<1>13. ASSUME NEW p \in Procs, Kill(p) PROVE SeqInv'
  BY <1>4, <1>13 DEF Kill, End, SeqPlaces
<1>14. CASE UNCHANGED vars
  BY <1>3, <1>14 DEF vars
<1> QED
  BY <1>5, <1>6, <1>7, <1>8, <1>9, <1>10, <1>11, <1>12, <1>13, <1>14 DEF Next, Run, Lockmain, Test3Parent

LEMMA SeqnoFollows ==
  ASSUME LockTypes, SeqInv PROVE SeqnoIsExact
<1>1. /\ loop \in [Processes -> 0..nloop] /\ nloop \in Int /\ IsFiniteSet(Processes)
      /\ DOMAIN loop = Processes /\ \A p \in Processes : loop[p] \in Int
  BY LocksAssumption DEF LockTypes, TypeOK
<1>2. FoldFunctionOnSet(LAMBDA left, sum : sum + nloop - left, 0, loop, Processes) = Increments
  BY <1>1, DoneIsSum DEF Increments
<1> QED BY <1>1, <1>2 DEF SeqInv, SeqnoIsExact, FoldFunction

-----------------------------------------------------------------------------
(* The shared counters                                                      *)

Objects == Counters \cup Servers

\* Between Sem_wait and Sem_post.
Inside(p) == cpc[p] \in {"read", "write", "post"}

\* A process inside has the token of its semaphore, and no other process that
\* uses the semaphore is inside.
OneInside ==
  \A p \in Counters : Inside(p) =>
    /\ cmutex[sem[p]] = 0
    /\ \A q \in Counters \ {p} : Inside(q) => sem[q] # sem[p]

\* What a process has at its places.
UserHas ==
  \A p \in Counters :
    /\ cpc[p] \in {"sem_open", "wait", "read", "write", "post"} => mem[p] \in Servers
    /\ cpc[p] \in {"wait", "read", "write", "post"} => sem[p] \in Objects
    /\ cpc[p] \in {"read", "write"} => cloop[p] > 0

\* Nobody knows a semaphore before server1 has made it.
NotYetMade ==
  \A s \in Servers : ipc[s] # "done" => semname # s /\ \A p \in Counters : sem[p] # s

CounterInv == Counter!TypeOK /\ OneInside /\ UserHas /\ NotYetMade

LEMMA CounterBegins ==
  ASSUME Counter!Init PROVE CounterInv
<1>1. Counter!First \in Servers /\ increments \in Nat
  BY TheirConstants DEF Counter!First, Counter!CounterAssumption
<1>2. \A p \in Counters : Counter!Shares(p) \in Objects
  BY <1>1 DEF Counter!Shares, Objects
<1> HIDE DEF Counter!First, Counter!Shares
<1>3. Counter!TypeOK
  BY <1>1, <1>2 DEF Counter!Init, Counter!TypeOK, Counter!Objects, Objects
<1>4. \A p \in Counters : cpc[p] \in {"shm_open", "wait"} /\ (cpc[p] = "wait" => cprog # "client1")
  BY DEF Counter!Init
<1>5. OneInside
  BY <1>4 DEF OneInside, Inside
<1>6. UserHas
  BY <1>1, <1>2, <1>4 DEF Counter!Init, UserHas
<1>7. NotYetMade
  <2>1. CASE cprog = "client1"
    BY <2>1, TheirConstants DEF Counter!Init, NotYetMade, Counter!CounterAssumption
  <2>2. CASE cprog # "client1"
    BY <2>2 DEF Counter!Init, NotYetMade
  <2> QED BY <2>1, <2>2
<1> QED BY <1>3, <1>5, <1>6, <1>7 DEF CounterInv

CounterPlaces == {"shm_open", "sem_open", "wait", "read", "write", "post"} \cup Counter!Ended
ServerPlaces ==
  {"unlink_shm", "create_shm", "truncate", "unlink_sem", "create_sem", "done", "failed"}

\* A step of server1 that does not make a semaphore.
LEMMA ServerStep ==
  ASSUME CounterInv, NEW s \in Servers, NEW to \in ServerPlaces \ {"done"},
         ipc[s] # "done", ipc' = [ipc EXCEPT ![s] = to],
         shmname' \in Servers \cup {None}, semname' \in {semname, None}, count' \in [Servers -> Int],
         UNCHANGED <<cprog, cmutex, cpc, mem, sem, cloop, creg>>
  PROVE  CounterInv'
<1>1. None \notin Servers
  BY TheirConstants DEF Counter!CounterAssumption
<1>2. /\ Counter!TypeOK /\ OneInside /\ UserHas /\ NotYetMade
  BY DEF CounterInv
<1>3. Counter!TypeOK'
  BY <1>2 DEF Counter!TypeOK, ServerPlaces
<1>4. OneInside' /\ UserHas'
  BY <1>2 DEF OneInside, Inside, UserHas
<1>5. \A t \in Servers : ipc'[t] # "done" => ipc[t] # "done"
  BY <1>2 DEF Counter!TypeOK
<1>6. NotYetMade'
  BY <1>1, <1>2, <1>5 DEF NotYetMade
<1> QED BY <1>3, <1>4, <1>6 DEF CounterInv

LEMMA SemaphoreMade ==
  ASSUME CounterInv, NEW s \in Servers, Counter!ServerSemCreate(s)
  PROVE  CounterInv'
<1>1. /\ ipc[s] = "create_sem" /\ UNCHANGED <<cprog, shmname, count, cpc, mem, sem, cloop, creg>>
      /\ \/ ipc' = [ipc EXCEPT ![s] = "done"] /\ semname' = s /\ cmutex' = [cmutex EXCEPT ![s] = 1]
         \/ ipc' = [ipc EXCEPT ![s] = "failed"] /\ semname' = semname /\ cmutex' = cmutex
  BY DEF Counter!ServerSemCreate, Counter!ServerStep
<1>2. /\ Counter!TypeOK /\ OneInside /\ UserHas /\ NotYetMade
  BY DEF CounterInv
<1>3. CASE semname' = semname /\ cmutex' = cmutex /\ ipc' = [ipc EXCEPT ![s] = "failed"]
  BY <1>1, <1>2, <1>3, ServerStep DEF ServerPlaces, Counter!TypeOK
<1>4. CASE ipc' = [ipc EXCEPT ![s] = "done"] /\ semname' = s /\ cmutex' = [cmutex EXCEPT ![s] = 1]
  <2>1. ipc \in [Servers -> ServerPlaces] /\ cmutex \in [Objects -> {0, 1}]
    BY <1>2 DEF Counter!TypeOK, ServerPlaces, Counter!Objects, Objects
  <2>2. /\ ipc' \in [Servers -> ServerPlaces] /\ cmutex' \in [Objects -> {0, 1}]
        /\ ipc'[s] = "done" /\ \A t \in Servers \ {s} : ipc'[t] = ipc[t]
        /\ \A o \in Objects \ {s} : cmutex'[o] = cmutex[o]
    BY <1>4, <2>1 DEF ServerPlaces
  <2>3. Counter!TypeOK'
    BY <1>1, <1>2, <1>4, <2>2 DEF Counter!TypeOK, ServerPlaces, Counter!Objects, Objects
  <2>4. \A p \in Counters : sem[p] # s
    BY <1>1, <1>2 DEF NotYetMade
  <2>5. UserHas'
    BY <1>1, <1>2 DEF UserHas
  <2>6. OneInside'
    BY <1>1, <1>2, <2>2, <2>4 DEF OneInside, Inside, UserHas
  <2>7. NotYetMade'
    BY <1>1, <1>2, <1>4, <2>2, <2>4 DEF NotYetMade
  <2> QED BY <2>3, <2>5, <2>6, <2>7 DEF CounterInv
<1> QED BY <1>1, <1>3, <1>4

LEMMA CounterKeepsTypes ==
  ASSUME Counter!TypeOK, UNCHANGED <<cprog, shmname, semname, ipc>>,
         count' \in [Servers -> Int], cmutex' \in [Objects -> {0, 1}],
         cpc' \in [Counters -> CounterPlaces], mem' \in [Counters -> Servers \cup {None}],
         sem' \in [Counters -> Objects \cup {None}],
         cloop' \in [Counters -> 0..increments], creg' \in [Counters -> Int]
  PROVE  Counter!TypeOK'
BY DEF Counter!TypeOK, CounterPlaces, Objects, Counter!Objects

\* Who was not inside does not get there, and no semaphore is touched.
LEMMA NobodyEnters ==
  ASSUME OneInside, cmutex' = cmutex,
         \A p \in Counters : Inside(p)' => Inside(p) /\ sem'[p] = sem[p]
  PROVE  OneInside'
BY DEF OneInside

LEMMA ProcessKeeps ==
  ASSUME CounterInv, NEW p \in Counters, Counter!Process(p) \/ Counter!Kill(p)
  PROVE  CounterInv'
<1>1. /\ Counter!TypeOK /\ OneInside /\ UserHas /\ NotYetMade
  BY DEF CounterInv
<1>2. /\ shmname \in Servers \cup {None} /\ semname \in Servers \cup {None}
      /\ count \in [Servers -> Int] /\ cmutex \in [Objects -> {0, 1}]
      /\ cpc \in [Counters -> CounterPlaces] /\ mem \in [Counters -> Servers \cup {None}]
      /\ sem \in [Counters -> Objects \cup {None}]
      /\ cloop \in [Counters -> 0..increments] /\ creg \in [Counters -> Int]
  BY <1>1 DEF Counter!TypeOK, CounterPlaces, Objects, Counter!Objects
<1>3. /\ increments \in Nat /\ None \notin Servers
      /\ \A s \in Servers : s \in Objects
  BY TheirConstants DEF Counter!CounterAssumption, Objects
<1>4. ASSUME NEW to \in CounterPlaces, cpc' = [cpc EXCEPT ![p] = to]
      PROVE  cpc' \in [Counters -> CounterPlaces] /\ cpc'[p] = to
             /\ \A q \in Counters \ {p} : cpc'[q] = cpc[q]
  BY <1>2, <1>4
<1> USE DEF Counter!Step
<1>5. CASE Counter!ShmOpen(p)
  <2> DEFINE to == IF shmname = None THEN "failed" ELSE "sem_open"
  <2>1. /\ cpc[p] = "shm_open" /\ cpc' = [cpc EXCEPT ![p] = to] /\ to \in CounterPlaces
        /\ mem' = [mem EXCEPT ![p] = shmname]
        /\ UNCHANGED <<cprog, shmname, semname, ipc, count, cmutex, sem, cloop, creg>>
    BY <1>5 DEF Counter!ShmOpen, CounterPlaces, Counter!Ended, Counter!Dead
  <2> HIDE DEF to
  <2>2. cpc' \in [Counters -> CounterPlaces] /\ cpc'[p] = to /\ \A q \in Counters \ {p} : cpc'[q] = cpc[q]
    BY <1>4, <2>1
  <2>3. mem' \in [Counters -> Servers \cup {None}]
    BY <1>2, <2>1
  <2>4. Counter!TypeOK'
    BY <1>1, <1>2, <2>1, <2>2, <2>3, CounterKeepsTypes
  <2>5. OneInside'
    BY <1>1, <2>1, <2>2, NobodyEnters DEF Inside, to
  <2>6. UserHas'
    BY <1>1, <1>2, <2>1, <2>2 DEF UserHas, to
  <2>7. NotYetMade'
    BY <1>1, <2>1 DEF NotYetMade
  <2> QED BY <2>4, <2>5, <2>6, <2>7 DEF CounterInv
<1>6. CASE Counter!SemOpen(p)
  <2> DEFINE to == IF semname = None THEN "failed" ELSE "wait"
  <2>1. /\ cpc[p] = "sem_open" /\ cpc' = [cpc EXCEPT ![p] = to] /\ to \in CounterPlaces
        /\ sem' = [sem EXCEPT ![p] = semname]
        /\ UNCHANGED <<cprog, shmname, semname, ipc, count, cmutex, mem, cloop, creg>>
    BY <1>6 DEF Counter!SemOpen, CounterPlaces, Counter!Ended, Counter!Dead
  <2> HIDE DEF to
  <2>2. cpc' \in [Counters -> CounterPlaces] /\ cpc'[p] = to /\ \A q \in Counters \ {p} : cpc'[q] = cpc[q]
    BY <1>4, <2>1
  <2>3. sem' \in [Counters -> Objects \cup {None}] /\ sem'[p] = semname
        /\ \A q \in Counters \ {p} : sem'[q] = sem[q]
    BY <1>2, <1>3, <2>1
  <2>4. Counter!TypeOK'
    BY <1>1, <1>2, <2>1, <2>2, <2>3, CounterKeepsTypes
  <2>5. OneInside'
    BY <1>1, <2>1, <2>2, <2>3, NobodyEnters DEF Inside, to
  <2>6. UserHas'
    BY <1>1, <1>2, <1>3, <2>1, <2>2, <2>3 DEF UserHas, to
  <2>7. NotYetMade'
    BY <1>1, <2>1, <2>3 DEF NotYetMade
  <2> QED BY <2>4, <2>5, <2>6, <2>7 DEF CounterInv
<1>7. CASE Counter!Wait(p)
  <2>1. /\ cpc[p] = "wait" /\ cpc' = [cpc EXCEPT ![p] = "read"] /\ "read" \in CounterPlaces
        /\ cloop[p] > 0 /\ cmutex[sem[p]] > 0 /\ cmutex' = [cmutex EXCEPT ![sem[p]] = @ - 1]
        /\ UNCHANGED <<cprog, shmname, semname, ipc, count, mem, sem, cloop, creg>>
    BY <1>7 DEF Counter!Wait, CounterPlaces
  <2>2. cpc' \in [Counters -> CounterPlaces] /\ cpc'[p] = "read" /\ \A q \in Counters \ {p} : cpc'[q] = cpc[q]
    BY <1>4, <2>1
  <2>3. sem[p] \in Objects /\ cmutex[sem[p]] = 1
    BY <1>1, <1>2, <2>1 DEF UserHas
  <2>4. /\ cmutex' \in [Objects -> {0, 1}] /\ cmutex'[sem[p]] = 0
        /\ \A o \in Objects \ {sem[p]} : cmutex'[o] = cmutex[o]
    BY <1>2, <2>1, <2>3
  <2>5. Counter!TypeOK'
    BY <1>1, <1>2, <2>1, <2>2, <2>4, CounterKeepsTypes
  <2>6. \A q \in Counters : Inside(q) => sem[q] # sem[p] /\ sem[q] \in Objects /\ cmutex[sem[q]] = 0
    BY <1>1, <2>3 DEF OneInside, UserHas, Inside
  <2>7. OneInside'
    BY <1>1, <2>1, <2>2, <2>4, <2>6 DEF OneInside, Inside
  <2>8. UserHas' /\ NotYetMade'
    BY <1>1, <2>1, <2>2 DEF UserHas, NotYetMade
  <2> QED BY <2>5, <2>7, <2>8 DEF CounterInv
<1>8. CASE Counter!Read(p)
  <2> DEFINE to == IF count[mem[p]] < 0 THEN "sigbus" ELSE "write"
  <2>1. /\ cpc[p] = "read" /\ cpc' = [cpc EXCEPT ![p] = to] /\ to \in CounterPlaces
        /\ creg' = [creg EXCEPT ![p] = count[mem[p]]]
        /\ UNCHANGED <<cprog, shmname, semname, ipc, count, cmutex, mem, sem, cloop>>
    BY <1>8 DEF Counter!Read, CounterPlaces, Counter!Ended, Counter!Dead
  <2> HIDE DEF to
  <2>2. cpc' \in [Counters -> CounterPlaces] /\ cpc'[p] = to /\ \A q \in Counters \ {p} : cpc'[q] = cpc[q]
    BY <1>4, <2>1
  <2>3. creg' \in [Counters -> Int]
    <3>1. count[mem[p]] \in Int
      BY <1>1, <1>2, <2>1 DEF UserHas
    <3> QED BY <1>2, <2>1, <3>1
  <2>4. Counter!TypeOK'
    BY <1>1, <1>2, <2>1, <2>2, <2>3, CounterKeepsTypes
  <2>5. OneInside'
    BY <1>1, <2>1, <2>2, NobodyEnters DEF Inside
  <2>6. UserHas' /\ NotYetMade'
    BY <1>1, <2>1, <2>2 DEF UserHas, NotYetMade, to
  <2> QED BY <2>4, <2>5, <2>6 DEF CounterInv
<1>9. CASE Counter!Write(p)
  <2>1. /\ cpc[p] = "write" /\ cpc' = [cpc EXCEPT ![p] = "post"] /\ "post" \in CounterPlaces
        /\ count' = [count EXCEPT ![mem[p]] = creg[p] + 1] /\ cloop' = [cloop EXCEPT ![p] = @ - 1]
        /\ UNCHANGED <<cprog, shmname, semname, ipc, cmutex, mem, sem, creg>>
    BY <1>9 DEF Counter!Write, CounterPlaces
  <2>2. cpc' \in [Counters -> CounterPlaces] /\ cpc'[p] = "post" /\ \A q \in Counters \ {p} : cpc'[q] = cpc[q]
    BY <1>4, <2>1
  <2>3. cloop[p] - 1 \in 0..increments /\ creg[p] + 1 \in Int
    BY <1>1, <1>2, <1>3, <2>1 DEF UserHas
  <2>4. /\ count' \in [Servers -> Int] /\ cloop' \in [Counters -> 0..increments]
        /\ \A q \in Counters \ {p} : cloop'[q] = cloop[q]
    BY <1>2, <2>1, <2>3
  <2>5. Counter!TypeOK'
    BY <1>1, <1>2, <2>1, <2>2, <2>4, CounterKeepsTypes
  <2>6. OneInside'
    BY <1>1, <2>1, <2>2, NobodyEnters DEF Inside
  <2>7. UserHas' /\ NotYetMade'
    BY <1>1, <2>1, <2>2, <2>4 DEF UserHas, NotYetMade
  <2> QED BY <2>5, <2>6, <2>7 DEF CounterInv
<1>10. CASE Counter!Post(p)
  <2>1. /\ cpc[p] = "post" /\ cpc' = [cpc EXCEPT ![p] = "wait"] /\ "wait" \in CounterPlaces
        /\ cmutex' = [cmutex EXCEPT ![sem[p]] = @ + 1]
        /\ UNCHANGED <<cprog, shmname, semname, ipc, count, mem, sem, cloop, creg>>
    BY <1>10 DEF Counter!Post, CounterPlaces
  <2>2. cpc' \in [Counters -> CounterPlaces] /\ cpc'[p] = "wait" /\ \A q \in Counters \ {p} : cpc'[q] = cpc[q]
    BY <1>4, <2>1
  <2>3. /\ sem[p] \in Objects /\ cmutex[sem[p]] = 0
        /\ \A q \in Counters \ {p} : Inside(q) => sem[q] # sem[p] /\ sem[q] \in Objects
    BY <1>1, <2>1 DEF OneInside, Inside, UserHas
  <2>4. /\ cmutex' \in [Objects -> {0, 1}] /\ \A o \in Objects \ {sem[p]} : cmutex'[o] = cmutex[o]
    BY <1>2, <2>1, <2>3
  <2>5. Counter!TypeOK'
    BY <1>1, <1>2, <2>1, <2>2, <2>4, CounterKeepsTypes
  <2>6. OneInside'
    BY <1>1, <2>1, <2>2, <2>3, <2>4 DEF OneInside, Inside
  <2>7. UserHas' /\ NotYetMade'
    BY <1>1, <2>1, <2>2 DEF UserHas, NotYetMade
  <2> QED BY <2>5, <2>6, <2>7 DEF CounterInv
<1>11. CASE Counter!Return(p) \/ Counter!Kill(p)
  <2>1. PICK to \in Counter!Ended : cpc' = [cpc EXCEPT ![p] = to]
    BY <1>11 DEF Counter!Return, Counter!Kill, Counter!Ended, Counter!Dead
  <2>2. UNCHANGED <<cprog, shmname, semname, ipc, count, cmutex, mem, sem, cloop, creg>>
    BY <1>11 DEF Counter!Return, Counter!Kill
  <2>3. to \in CounterPlaces
    BY DEF CounterPlaces
  <2>4. cpc' \in [Counters -> CounterPlaces] /\ cpc'[p] = to /\ \A q \in Counters \ {p} : cpc'[q] = cpc[q]
    BY <1>4, <2>1, <2>3
  <2>5. Counter!TypeOK'
    BY <1>1, <1>2, <2>2, <2>4, CounterKeepsTypes
  <2>6. OneInside'
    BY <1>1, <2>2, <2>4, NobodyEnters DEF Inside, Counter!Ended, Counter!Dead
  <2>7. UserHas' /\ NotYetMade'
    BY <1>1, <2>2, <2>4 DEF UserHas, NotYetMade, Counter!Ended, Counter!Dead
  <2> QED BY <2>5, <2>6, <2>7 DEF CounterInv
<1> HIDE DEF Counter!Step
<1> QED BY <1>5, <1>6, <1>7, <1>8, <1>9, <1>10, <1>11 DEF Counter!Process

LEMMA CounterStep ==
  ASSUME CounterInv, Counter!Next PROVE CounterInv'
<1>1. Counter!TypeOK
  BY DEF CounterInv
<1>2. ASSUME NEW s \in Servers,
             Counter!ServerShmUnlink(s) \/ Counter!ServerShmCreate(s) \/ Counter!ServerTruncate(s)
             \/ Counter!ServerSemUnlink(s)
      PROVE  CounterInv'
  <2>1. /\ ipc[s] # "done" /\ \E to \in ServerPlaces \ {"done"} : ipc' = [ipc EXCEPT ![s] = to]
        /\ shmname' \in {shmname, None, s} /\ semname' \in {semname, None}
        /\ count' = count \/ count' = [count EXCEPT ![s] = 0]
        /\ UNCHANGED <<cprog, cmutex, cpc, mem, sem, cloop, creg>>
    <3> USE DEF Counter!ServerStep, ServerPlaces
    <3>1. CASE Counter!ServerShmUnlink(s)
      BY <3>1 DEF Counter!ServerShmUnlink
    <3>2. CASE Counter!ServerShmCreate(s)
      BY <3>2 DEF Counter!ServerShmCreate
    <3>3. CASE Counter!ServerTruncate(s)
      BY <3>3 DEF Counter!ServerTruncate
    <3>4. CASE Counter!ServerSemUnlink(s)
      BY <3>4 DEF Counter!ServerSemUnlink
    <3> QED BY <1>2, <3>1, <3>2, <3>3, <3>4
  <2>2. shmname' \in Servers \cup {None} /\ count' \in [Servers -> Int]
    BY <1>1, <2>1 DEF Counter!TypeOK
  <2> QED BY <2>1, <2>2, ServerStep
<1> QED BY <1>2, SemaphoreMade, ProcessKeeps DEF Counter!Next, Counter!Run, Counter!Server

LEMMA CounterStays ==
  ASSUME CounterInv, UNCHANGED counterVars PROVE CounterInv'
BY DEF CounterInv, counterVars, Counter!TypeOK, OneInside, Inside, UserHas, NotYetMade

LEMMA AlwaysCounter == MCSpec => []CounterInv
<1>1. MCInit => CounterInv
  BY CounterBegins DEF MCInit
<1>2. CounterInv /\ [MCNext]_allVars => CounterInv'
  BY CounterStep, CounterStays DEF MCNext, allVars
<1> QED BY <1>1, <1>2, PTL DEF MCSpec

\* Of the programs that increment the counter in shared memory, no two are between
\* sem_wait and sem_post of one semaphore, however the server makes and removes
\* the semaphores' names meanwhile, for any number of processes.
THEOREM OneIncrements == MCSpec => []OneInside
<1>1. CounterInv => OneInside
  BY DEF CounterInv
<1> QED BY <1>1, AlwaysCounter, PTL

-----------------------------------------------------------------------------
\* The increments that the processes using a counter have made.
Made(m) == SumFunctionOnSet([p \in Counters |-> increments - cloop[p]], Counter!Users(m))
OneSemaphore(m) == \A p, q \in Counter!Users(m) : sem[p] = sem[q]

\* Who has not opened the semaphore has not begun.
Beginners ==
  \A p \in Counters :
    cpc[p] \in {"shm_open", "sem_open"} => sem[p] = None /\ cloop[p] = increments

\* The memory of an increment that was begun or made has its size, which no run
\* of server1 gives to it again.
HasSize ==
  /\ \A s \in Servers : ipc[s] \in {"unlink_shm", "create_shm", "truncate"} => count[s] < 0
  /\ \A p \in Counters :
       /\ cpc[p] = "write" => creg[p] >= 0
       /\ mem[p] \in Servers /\ (cpc[p] = "write" \/ cloop[p] # increments) => count[mem[p]] >= 0

\* While the users of a counter share a semaphore, the one at its write still has
\* what the counter says, and the counter is what they have made.
Exact ==
  \A m \in Servers : OneSemaphore(m) =>
    /\ \A p \in Counter!Users(m) : cpc[p] = "write" => creg[p] = count[m]
    /\ count[m] >= 0 => count[m] = Made(m)

MadeInv == Beginners /\ HasSize /\ Exact

LEMMA UsersSum ==
  ASSUME CounterInv, NEW m \in Servers
  PROVE  /\ IsFiniteSet(Counter!Users(m)) /\ Counter!Users(m) \subseteq Counters
         /\ Made(m) \in Int
         /\ (\A p \in Counter!Users(m) : cloop[p] = increments) => Made(m) = 0
<1> DEFINE U == Counter!Users(m)
           w == [p \in Counters |-> increments - cloop[p]]
<1>1. IsFiniteSet(U) /\ U \subseteq Counters
  <2>1. IsFiniteSet(Counters)
    BY TheirConstants DEF Counter!CounterAssumption, Counter!IsFiniteSet, IsFiniteSet
  <2> QED BY <2>1, FS_Subset DEF Counter!Users
<1>2. increments \in Int /\ \A p \in Counters : cloop[p] \in Int
  BY TheirConstants DEF Counter!CounterAssumption, CounterInv, Counter!TypeOK
<1>3. \A p \in U : w[p] = increments - cloop[p] /\ w[p] \in Int
  BY <1>1, <1>2
<1> HIDE DEF U, w
<1>4. SumFunctionOnSet(w, U) \in Int
  BY <1>1, <1>3, SumIsInt
<1>5. ASSUME \A p \in U : cloop[p] = increments PROVE SumFunctionOnSet(w, U) = 0
  <2>1. \A p \in U : w[p] = 0
    BY <1>2, <1>3, <1>5
  <2> QED BY <1>1, <2>1, SumOfZeros
<1> QED BY <1>1, <1>4, <1>5 DEF Made, U, w

\* The sum of a counter whose users and their rounds stay the same.
LEMMA MadeStays ==
  ASSUME CounterInv, NEW m \in Servers, Counter!Users(m)' = Counter!Users(m),
         \A p \in Counter!Users(m) : cloop'[p] = cloop[p]
  PROVE  Made(m)' = Made(m)
<1>1. PICK U, w, v : /\ U = Counter!Users(m) /\ w = [p \in Counters |-> increments - cloop[p]]
                     /\ v = [p \in Counters |-> increments - cloop'[p]]
  OBVIOUS
<1>2. IsFiniteSet(U) /\ U \subseteq Counters
  BY <1>1, UsersSum
<1>3. increments \in Int /\ \A p \in Counters : cloop[p] \in Int
  BY TheirConstants DEF Counter!CounterAssumption, CounterInv, Counter!TypeOK
<1>4. \A p \in U : w[p] \in Int /\ v[p] = w[p]
  BY <1>1, <1>2, <1>3
<1>5. SumFunctionOnSet(v, U) = SumFunctionOnSet(w, U)
  BY <1>2, <1>4, SumSame
<1> QED BY <1>1, <1>5 DEF Made

LEMMA MadeBegins ==
  ASSUME Counter!Init, CounterInv PROVE MadeInv
<1>1. cloop = [p \in Counters |-> increments] /\ \A p \in Counters : cpc[p] # "write"
  BY DEF Counter!Init
<1>2. Beginners
  BY <1>1 DEF Counter!Init, Beginners
<1>3. HasSize
  BY <1>1 DEF Counter!Init, HasSize
<1>4. ASSUME NEW m \in Servers PROVE count[m] >= 0 => count[m] = Made(m)
  <2>1. count[m] \in {0, -1}
    BY DEF Counter!Init
  <2>2. \A p \in Counter!Users(m) : cloop[p] = increments
    BY <1>1, UsersSum
  <2> QED BY <2>1, <2>2, UsersSum
<1>5. Exact
  BY <1>1, <1>4, UsersSum DEF Exact
<1> QED BY <1>2, <1>3, <1>5 DEF MadeInv

\* A step that changes no counter and no user of one.
LEMMA NothingMade ==
  ASSUME CounterInv, MadeInv, UNCHANGED <<count, mem, sem, cloop>>,
         \A s \in Servers : ipc'[s] \in {"unlink_shm", "create_shm", "truncate"}
                              => ipc[s] \in {"unlink_shm", "create_shm", "truncate"},
         \A p \in Counters : cpc'[p] \in {"shm_open", "sem_open", "write"}
                              => cpc'[p] = cpc[p] /\ creg'[p] = creg[p]
  PROVE  MadeInv'
<1>1. \A m \in Servers : Counter!Users(m)' = Counter!Users(m)
  BY DEF Counter!Users
<1>2. \A m \in Servers : Made(m)' = Made(m)
  BY <1>1, MadeStays
<1>3. Beginners' /\ HasSize'
  BY DEF MadeInv, Beginners, HasSize
<1>4. \A m \in Servers : OneSemaphore(m)' => OneSemaphore(m)
  BY <1>1 DEF OneSemaphore
<1>5. Exact'
  BY <1>1, <1>2, <1>4, UsersSum DEF MadeInv, Exact
<1> QED BY <1>3, <1>5 DEF MadeInv

\* server1 gives the memory its size.
LEMMA SizeGiven ==
  ASSUME CounterInv, MadeInv, NEW s \in Servers, Counter!ServerTruncate(s)
  PROVE  MadeInv'
<1>1. /\ ipc[s] = "truncate" /\ ipc' = [ipc EXCEPT ![s] = "unlink_sem"] /\ count' = [count EXCEPT ![s] = 0]
      /\ UNCHANGED <<cpc, mem, sem, cloop, creg>>
      /\ Beginners /\ HasSize /\ Exact
  BY DEF Counter!ServerTruncate, Counter!ServerStep, MadeInv
<1>2. /\ count' \in [Servers -> Int] /\ count'[s] = 0 /\ \A m \in Servers \ {s} : count'[m] = count[m]
      /\ ipc'[s] = "unlink_sem" /\ \A m \in Servers \ {s} : ipc'[m] = ipc[m]
      /\ count[s] < 0
  BY <1>1 DEF CounterInv, Counter!TypeOK, HasSize
<1>3. \A m \in Servers : Counter!Users(m)' = Counter!Users(m)
  BY <1>1 DEF Counter!Users
<1>4. \A m \in Servers : Made(m)' = Made(m)
  BY <1>1, <1>3, MadeStays
<1>5. Beginners'
  BY <1>1 DEF Beginners
<1>6. \A m \in Servers : count[m] >= 0 => count'[m] >= 0
  BY <1>2
<1>7. HasSize'
  BY <1>1, <1>2, <1>6 DEF HasSize
<1>8. \A p \in Counter!Users(s) : cpc[p] # "write" /\ cloop[p] = increments
  <2>1. ~(count[s] >= 0)
    BY <1>2 DEF CounterInv, Counter!TypeOK
  <2>2. \A p \in Counter!Users(s) : p \in Counters /\ mem[p] = s
    BY DEF Counter!Users
  <2> QED BY <1>1, <2>1, <2>2 DEF HasSize
<1>9. \A m \in Servers : OneSemaphore(m)' => OneSemaphore(m)
  BY <1>1, <1>3 DEF OneSemaphore
<1>10. Made(s) = 0
  BY <1>8, UsersSum
<1>11. Exact'
  BY <1>1, <1>2, <1>3, <1>4, <1>8, <1>9, <1>10 DEF Exact
<1> QED BY <1>5, <1>7, <1>11 DEF MadeInv

LEMMA ShmOpened ==
  ASSUME CounterInv, MadeInv, NEW c \in Counters, Counter!ShmOpen(c)
  PROVE  MadeInv'
<1>1. /\ cpc[c] = "shm_open" /\ \E to \in {"failed", "sem_open"} : cpc' = [cpc EXCEPT ![c] = to]
      /\ mem' = [mem EXCEPT ![c] = shmname]
      /\ UNCHANGED <<count, ipc, sem, cloop, creg>>
      /\ Beginners /\ HasSize /\ Exact
  BY DEF Counter!ShmOpen, Counter!Step, MadeInv
<1>2. /\ cpc'[c] \in {"failed", "sem_open"} /\ \A p \in Counters \ {c} : cpc'[p] = cpc[p] /\ mem'[p] = mem[p]
  BY <1>1 DEF CounterInv, Counter!TypeOK
<1>3. sem[c] = None /\ cloop[c] = increments
  BY <1>1 DEF Beginners
<1>4. \A m \in Servers : Counter!Users(m)' = Counter!Users(m)
  BY <1>1, <1>2, <1>3 DEF Counter!Users
<1>5. \A m \in Servers : Made(m)' = Made(m)
  BY <1>1, <1>4, MadeStays
<1>6. Beginners' /\ HasSize'
  BY <1>1, <1>2, <1>3 DEF Beginners, HasSize
<1>7. \A m \in Servers : OneSemaphore(m)' => OneSemaphore(m)
  BY <1>1, <1>4 DEF OneSemaphore
<1>8. \A p \in Counters : cpc'[p] = "write" => cpc[p] = "write"
  BY <1>2
<1>9. Exact'
  BY <1>1, <1>4, <1>5, <1>7, <1>8, UsersSum DEF Exact
<1> QED BY <1>6, <1>9 DEF MadeInv

\* One more user of a counter, who has made no increments.
LEMMA SemOpened ==
  ASSUME CounterInv, MadeInv, NEW c \in Counters, Counter!SemOpen(c)
  PROVE  MadeInv'
<1>1. /\ cpc[c] = "sem_open" /\ \E to \in {"failed", "wait"} : cpc' = [cpc EXCEPT ![c] = to]
      /\ sem' = [sem EXCEPT ![c] = semname]
      /\ UNCHANGED <<count, ipc, mem, cloop, creg>>
      /\ Beginners /\ HasSize /\ Exact
  BY DEF Counter!SemOpen, Counter!Step, MadeInv
<1>2. /\ cpc'[c] \in {"failed", "wait"} /\ \A p \in Counters \ {c} : cpc'[p] = cpc[p] /\ sem'[p] = sem[p]
  BY <1>1 DEF CounterInv, Counter!TypeOK
<1>3. sem[c] = None /\ cloop[c] = increments
  BY <1>1 DEF Beginners
<1>4. ASSUME NEW m \in Servers
      PROVE  /\ c \notin Counter!Users(m)
             /\ Counter!Users(m)' \in {Counter!Users(m), Counter!Users(m) \cup {c}}
  BY <1>1, <1>2, <1>3 DEF Counter!Users
<1>5. ASSUME NEW m \in Servers PROVE Made(m)' = Made(m)
  <2>1. CASE Counter!Users(m)' = Counter!Users(m)
    BY <1>1, <2>1, MadeStays
  <2>2. CASE Counter!Users(m)' = Counter!Users(m) \cup {c}
    <3>1. PICK U, V, w : /\ U = Counter!Users(m) /\ V = Counter!Users(m) \cup {c}
                         /\ w = [p \in Counters |-> increments - cloop[p]]
      OBVIOUS
    <3>2. /\ IsFiniteSet(V) /\ V \subseteq Counters /\ c \in V /\ V \ {c} = U
      <4>1. IsFiniteSet(U) /\ U \subseteq Counters
        BY <3>1, UsersSum
      <4>2. V = U \cup {c} /\ c \notin U
        BY <1>4, <3>1
      <4> QED BY <4>1, <4>2, FS_AddElement
    <3>3. increments \in Int /\ \A p \in Counters : cloop[p] \in Int
      BY TheirConstants DEF Counter!CounterAssumption, CounterInv, Counter!TypeOK
    <3>4. w[c] = 0 /\ \A p \in V : w[p] \in Int
      BY <1>3, <3>1, <3>2, <3>3
    <3>5. SumFunctionOnSet(w, V) = w[c] + SumFunctionOnSet(w, U)
      BY <3>2, <3>4, SumWithout
    <3>6. Made(m) = SumFunctionOnSet(w, U) /\ Made(m)' = SumFunctionOnSet(w, V) /\ Made(m) \in Int
      BY <1>1, <2>2, <3>1, UsersSum DEF Made
    <3> QED BY ONLY <3>4, <3>5, <3>6
  <2> QED BY <1>4, <2>1, <2>2
<1>6. Beginners' /\ HasSize'
  BY <1>1, <1>2, <1>3 DEF Beginners, HasSize
<1>7. ASSUME NEW m \in Servers, OneSemaphore(m)' PROVE OneSemaphore(m)
  <2>1. \A p \in Counter!Users(m) : p \in Counter!Users(m)' /\ sem'[p] = sem[p]
    BY <1>2, <1>4, UsersSum
  <2> QED BY <1>7, <2>1 DEF OneSemaphore
<1>8. \A p \in Counters : cpc'[p] = "write" => cpc[p] = "write" /\ p # c
  BY <1>2
<1>9. \A m \in Servers : \A p \in Counter!Users(m)' : p \in Counters /\ (p # c => p \in Counter!Users(m))
  BY <1>4, UsersSum
<1>10. Exact'
  BY <1>1, <1>5, <1>7, <1>8, <1>9 DEF Exact
<1> QED BY <1>6, <1>10 DEF MadeInv

LEMMA CountRead ==
  ASSUME CounterInv, MadeInv, NEW c \in Counters, Counter!Read(c)
  PROVE  MadeInv'
<1>1. /\ cpc[c] = "read" /\ cpc' = [cpc EXCEPT ![c] = IF count[mem[c]] < 0 THEN "sigbus" ELSE "write"]
      /\ creg' = [creg EXCEPT ![c] = count[mem[c]]]
      /\ UNCHANGED <<count, ipc, mem, sem, cloop>>
      /\ Beginners /\ HasSize /\ Exact
  BY DEF Counter!Read, Counter!Step, MadeInv
<1>2. /\ \A p \in Counters \ {c} : cpc'[p] = cpc[p] /\ creg'[p] = creg[p]
      /\ creg'[c] = count[mem[c]]
  BY <1>1 DEF CounterInv, Counter!TypeOK
<1>3. mem[c] \in Servers /\ count[mem[c]] \in Int
  BY <1>1 DEF CounterInv, UserHas, Counter!TypeOK
<1>4. CASE count[mem[c]] < 0
  <2>1. cpc'[c] = "sigbus"
    BY <1>1, <1>4 DEF CounterInv, Counter!TypeOK
  <2> QED BY <1>1, <1>2, <2>1, NothingMade
<1>5. CASE ~(count[mem[c]] < 0)
  <2>1. cpc'[c] = "write" /\ count[mem[c]] >= 0
    BY <1>1, <1>3, <1>5 DEF CounterInv, Counter!TypeOK
  <2>2. Beginners' /\ HasSize'
    BY <1>1, <1>2, <2>1 DEF Beginners, HasSize
  <2>3. \A m \in Servers : Counter!Users(m)' = Counter!Users(m)
    BY <1>1 DEF Counter!Users
  <2>4. \A m \in Servers : Made(m)' = Made(m)
    BY <1>1, <2>3, MadeStays
  <2>5. \A m \in Servers : OneSemaphore(m)' => OneSemaphore(m)
    BY <1>1, <2>3 DEF OneSemaphore
  <2>6. \A m \in Servers : \A p \in Counter!Users(m) : p \in Counters /\ mem[p] = m
    BY DEF Counter!Users
  <2>7. Exact'
    BY <1>1, <1>2, <2>3, <2>4, <2>5, <2>6 DEF Exact
  <2> QED BY <2>2, <2>7 DEF MadeInv
<1> QED BY <1>4, <1>5
LEMMA CountWritten ==
  ASSUME CounterInv, MadeInv, NEW c \in Counters, Counter!Write(c)
  PROVE  MadeInv'
<1> DEFINE o == mem[c]
<1>1. /\ cpc[c] = "write" /\ cpc' = [cpc EXCEPT ![c] = "post"]
      /\ count' = [count EXCEPT ![o] = creg[c] + 1] /\ cloop' = [cloop EXCEPT ![c] = @ - 1]
      /\ UNCHANGED <<ipc, mem, sem, creg>>
      /\ Beginners /\ HasSize /\ Exact
  BY DEF Counter!Write, Counter!Step, MadeInv
<1>2. /\ cpc'[c] = "post" /\ \A p \in Counters \ {c} : cpc'[p] = cpc[p] /\ cloop'[p] = cloop[p]
      /\ cloop'[c] = cloop[c] - 1 /\ cloop[c] \in Int /\ creg[c] \in Int
  <2>1. cpc \in [Counters -> CounterPlaces] /\ cloop \in [Counters -> 0..increments]
        /\ creg \in [Counters -> Int]
    BY DEF CounterInv, Counter!TypeOK, CounterPlaces
  <2> QED BY <1>1, <2>1
<1>3. o \in Servers /\ c \in Counter!Users(o)
  BY <1>1, TheirConstants DEF CounterInv, UserHas, Counter!Users, Objects, Counter!CounterAssumption
<1>4. /\ count'[o] = creg[c] + 1 /\ \A m \in Servers \ {o} : count'[m] = count[m]
      /\ creg[c] >= 0 /\ count[o] >= 0 /\ count[o] \in Int
  BY <1>1, <1>3 DEF CounterInv, Counter!TypeOK, HasSize
<1>5. \A m \in Servers : /\ Counter!Users(m)' = Counter!Users(m)
                         /\ \A p \in Counter!Users(m) : p \in Counters /\ mem[p] = m
                         /\ OneSemaphore(m)' => OneSemaphore(m)
  BY <1>1 DEF Counter!Users, OneSemaphore
<1>6. Beginners'
  BY <1>1, <1>2 DEF Beginners
<1>7. HasSize'
  <2>1. \A m \in Servers : count[m] >= 0 => count'[m] >= 0
    BY <1>2, <1>4
  <2>2. \A s \in Servers : count[s] < 0 => s # o
    BY <1>4
  <2>3. \A s \in Servers : ipc'[s] \in {"unlink_shm", "create_shm", "truncate"} => count'[s] < 0
    BY <1>1, <1>4, <2>2 DEF HasSize
  <2>4. count'[mem'[c]] >= 0
    BY <1>1, <1>2, <1>4
  <2> QED BY <1>1, <1>2, <2>1, <2>3, <2>4 DEF HasSize
<1>8. ASSUME NEW m \in Servers \ {o}, OneSemaphore(m)'
      PROVE  /\ \A p \in Counter!Users(m)' : cpc'[p] = "write" => creg'[p] = count'[m]
             /\ count'[m] >= 0 => count'[m] = Made(m)'
  <2>1. c \notin Counter!Users(m)
    BY <1>5, <1>8
  <2>2. Made(m)' = Made(m)
    BY <1>2, <1>5, <2>1, MadeStays
  <2> QED BY <1>1, <1>2, <1>4, <1>5, <1>8, <2>1, <2>2 DEF Exact
<1>9. ASSUME OneSemaphore(o)
      PROVE  /\ \A p \in Counter!Users(o) : cpc'[p] # "write"
             /\ count'[o] = SumFunctionOnSet([p \in Counters |-> increments - cloop'[p]], Counter!Users(o))
  <2>1. creg[c] = count[o] /\ count[o] = Made(o)
    BY <1>1, <1>3, <1>4, <1>9 DEF Exact
  <2>2. ASSUME NEW p \in Counter!Users(o), cpc'[p] = "write" PROVE FALSE
    <3>1. p \in Counters /\ p # c /\ Inside(p) /\ Inside(c) /\ sem[p] = sem[c]
      BY <1>1, <1>2, <1>3, <1>5, <1>9, <2>2 DEF Inside, OneSemaphore
    <3> QED BY <3>1 DEF CounterInv, OneInside
  <2>3. PICK U, w, v : /\ U = Counter!Users(o) /\ w = [p \in Counters |-> increments - cloop[p]]
                       /\ v = [p \in Counters |-> increments - cloop'[p]]
    OBVIOUS
  <2>4. IsFiniteSet(U) /\ U \subseteq Counters /\ c \in U
    BY <1>3, <2>3, UsersSum
  <2>5. increments \in Int /\ \A p \in Counters : cloop[p] \in Int
    BY TheirConstants DEF Counter!CounterAssumption, CounterInv, Counter!TypeOK
  <2>6. \A p \in U : w[p] \in Int
    BY <2>3, <2>4, <2>5
  <2>7. v[c] = w[c] + 1 /\ \A p \in U \ {c} : v[p] = w[p]
    <3>1. \A p \in U : w[p] = increments - cloop[p] /\ v[p] = increments - cloop'[p]
      BY <2>3, <2>4
    <3>2. increments - (cloop[c] - 1) = increments - cloop[c] + 1
      BY ONLY <1>2, <2>5
    <3> QED BY <1>2, <2>4, <3>1, <3>2
  <2>8. SumFunctionOnSet(v, U) = SumFunctionOnSet(w, U) + 1
    BY <2>4, <2>6, <2>7, SumGrows
  <2>9. Made(o) = SumFunctionOnSet(w, U)
    BY <2>3 DEF Made
  <2>10. count'[o] = SumFunctionOnSet(v, U)
    BY <1>4, <2>1, <2>8, <2>9
  <2> QED BY <2>2, <2>3, <2>10
<1>10. Exact'
  <2> SUFFICES ASSUME NEW m \in Servers, OneSemaphore(m)'
               PROVE  /\ \A p \in Counter!Users(m)' : cpc'[p] = "write" => creg'[p] = count'[m]
                      /\ count'[m] >= 0 => count'[m] = Made(m)'
    BY DEF Exact
  <2>1. CASE m # o
    BY <1>8, <2>1
  <2>2. CASE m = o
    <3>1. OneSemaphore(o) /\ Counter!Users(m)' = Counter!Users(o)
      BY <1>5, <2>2
    <3>2. Made(m)' = SumFunctionOnSet([p \in Counters |-> increments - cloop'[p]], Counter!Users(o))
      BY <3>1 DEF Made
    <3> QED BY <1>9, <2>2, <3>1, <3>2
  <2> QED BY <2>1, <2>2
<1> QED BY <1>6, <1>7, <1>10 DEF MadeInv

LEMMA MadeKept ==
  ASSUME CounterInv, MadeInv, Counter!Next
  PROVE  MadeInv'
<1>1. ASSUME NEW s \in Servers, Counter!Server(s) PROVE MadeInv'
  <2>1. CASE Counter!ServerTruncate(s)
    BY <2>1, SizeGiven
  <2>2. CASE ~Counter!ServerTruncate(s)
    <3>1. /\ UNCHANGED <<count, mem, sem, cloop, cpc, creg>>
          /\ \E to \in {"create_shm", "failed", "truncate", "create_sem", "done"} : ipc' = [ipc EXCEPT ![s] = to]
          /\ ipc[s] \in {"unlink_sem", "create_sem"} =>
               \E to \in {"failed", "create_sem", "done"} : ipc' = [ipc EXCEPT ![s] = to]
          /\ ipc[s] \in {"unlink_shm", "create_shm", "unlink_sem", "create_sem"}
      <4> USE DEF Counter!ServerStep
      <4>1. CASE Counter!ServerShmUnlink(s)
        BY <4>1 DEF Counter!ServerShmUnlink
      <4>2. CASE Counter!ServerShmCreate(s)
        BY <4>2 DEF Counter!ServerShmCreate
      <4>3. CASE Counter!ServerSemUnlink(s)
        BY <4>3 DEF Counter!ServerSemUnlink
      <4>4. CASE Counter!ServerSemCreate(s)
        BY <4>4 DEF Counter!ServerSemCreate
      <4> QED BY <1>1, <2>2, <4>1, <4>2, <4>3, <4>4 DEF Counter!Server
    <3>2. DOMAIN ipc = Servers
      BY DEF CounterInv, Counter!TypeOK
    <3> QED BY <3>1, <3>2, NothingMade
  <2> QED BY <2>1, <2>2
<1>2. ASSUME NEW c \in Counters,
             Counter!Wait(c) \/ Counter!Post(c) \/ Counter!Return(c) \/ Counter!Kill(c)
      PROVE  MadeInv'
  <2>1. /\ UNCHANGED <<count, mem, sem, cloop, creg, ipc>>
        /\ \E to \in {"read", "wait", "done", "killed", "killed_inside"} : cpc' = [cpc EXCEPT ![c] = to]
    BY <1>2 DEF Counter!Wait, Counter!Post, Counter!Return, Counter!Kill, Counter!Step
  <2>2. DOMAIN cpc = Counters
    BY DEF CounterInv, Counter!TypeOK
  <2> QED BY <2>1, <2>2, NothingMade
<1> QED BY <1>1, <1>2, ShmOpened, SemOpened, CountRead, CountWritten
        DEF Counter!Next, Counter!Run, Counter!Process

LEMMA MadeStill ==
  ASSUME CounterInv, MadeInv, UNCHANGED counterVars
  PROVE  MadeInv'
BY NothingMade DEF counterVars

LEMMA AlwaysMade == MCSpec => []MadeInv
<1>1. MCInit => CounterInv /\ MadeInv
  BY CounterBegins, MadeBegins DEF MCInit
<1>2. CounterInv /\ MadeInv /\ [MCNext]_allVars => MadeInv'
  BY MadeKept, MadeStill DEF MCNext, allVars
<1> QED BY <1>1, <1>2, AlwaysCounter, PTL DEF MCSpec

LEMMA CountersFollow ==
  ASSUME CounterInv, MadeInv PROVE Counter!NoLostUpdate
<1> SUFFICES ASSUME NEW m \in Servers, count[m] >= 0, \A p, q \in Counter!Users(m) : sem[p] = sem[q]
             PROVE  count[m] = Counter!FoldFunctionOnSet(LAMBDA left, sum : sum + increments - left, 0, cloop, Counter!Users(m))
  BY DEF Counter!NoLostUpdate
<1>1. count[m] = Made(m)
  BY DEF MadeInv, Exact, OneSemaphore
<1>2. PICK U : U = Counter!Users(m)
  OBVIOUS
<1>3. IsFiniteSet(U) /\ U \subseteq Counters
  BY <1>2, UsersSum
<1>4. increments \in Int /\ \A p \in Counters : cloop[p] \in Int
  BY TheirConstants DEF Counter!CounterAssumption, CounterInv, Counter!TypeOK
<1>5. \A p \in U : cloop[p] \in Int
  BY <1>3, <1>4
<1>6. FoldFunctionOnSet(LAMBDA l, sum : sum + increments - l, 0, cloop, U)
        = SumFunctionOnSet([p \in U |-> increments - cloop[p]], U)
  BY <1>3, <1>4, <1>5, DoneIsSum
<1>7. PICK w, v : w = [p \in Counters |-> increments - cloop[p]] /\ v = [p \in U |-> increments - cloop[p]]
  OBVIOUS
<1>8. \A p \in U : w[p] \in Int /\ v[p] = w[p]
  BY <1>3, <1>4, <1>7
<1>9. SumFunctionOnSet(v, U) = SumFunctionOnSet(w, U)
  BY <1>3, <1>8, SumSame
<1>10. Counter!FoldFunctionOnSet(LAMBDA left, sum : sum + increments - left, 0, cloop, U)
         = FoldFunctionOnSet(LAMBDA l, sum : sum + increments - l, 0, cloop, U)
  BY DEF Counter!FoldFunctionOnSet, Counter!MapThenFoldSet, FoldFunctionOnSet, MapThenFoldSet
<1> QED BY <1>1, <1>2, <1>6, <1>7, <1>9, <1>10 DEF Made

-----------------------------------------------------------------------------
\* What is put in front of a sequence.
LEMMA FirstOfConcat ==
  ASSUME NEW S, NEW x \in S, NEW r \in Seq(S)
  PROVE  /\ <<x>> \o r \in Seq(S) /\ Len(<<x>> \o r) = Len(r) + 1
         /\ (<<x>> \o r)[1] = x /\ \A n \in 2..Len(<<x>> \o r) : (<<x>> \o r)[n] = r[n - 1]
BY ConcatProperties

LEMMA RestOfSeq ==
  ASSUME NEW S, NEW r \in Seq(S), r # <<>>
  PROVE  /\ Head(r) = r[1] /\ r[1] \in S /\ Len(r) \in Nat \ {0}
         /\ Tail(r) \in Seq(S) /\ Len(Tail(r)) = Len(r) - 1
         /\ \A n \in 1..Len(Tail(r)) : Tail(r)[n] = r[n + 1]
<1>1. Len(r) \in Nat \ {0} /\ \A n \in 1..Len(r) : r[n] \in S
  BY LenProperties, EmptySeq
<1> QED BY <1>1, HeadTailProperties

-----------------------------------------------------------------------------
(* rtsignals1                                                               *)

Signos == 0..2
ChildPlaces == {"block", "signal", "sleep6", "sleep3", "exit", "exited", "killed"}

SignalTypes ==
  /\ parent \in {"send", "waitpid", "done"}
  /\ signo \in Signos /\ j \in 0..Values-1
  /\ child \in ChildPlaces
  /\ blocked \subseteq Signos /\ handled \subseteq Signos
  /\ pending \in [Signos -> Seq(0..Values-1)]
  /\ running \in Seq(Signos \X (0..Values-1))
  /\ printed \in [Signos -> Seq(0..Values-1)]
  /\ early \in BOOLEAN /\ inTime \in BOOLEAN

\* How many signals of a number have been sent, and whether one of them is in
\* its handler.
Sent(s) == IF parent # "send" \/ s > signo THEN Values ELSE IF s = signo THEN j ELSE 0
InHandler(s) == \E n \in 1..Len(running) : running[n][1] = s
Begun(s) == Len(printed[s]) + (IF InHandler(s) THEN 1 ELSE 0)

\* The values printed, the one in the handler and those pending are 0, 1, 2, ...
Printed(s) == \A n \in 1..Len(printed[s]) : printed[s][n] = n - 1
Pending(s) ==
  /\ Begun(s) + Len(pending[s]) = Sent(s)
  /\ \A n \in 1..Len(pending[s]) : pending[s][n] = Begun(s) + n - 1
Handlers ==
  /\ \A n \in 1..Len(running) : running[n][2] = Len(printed[running[n][1]])
  /\ \A m, n \in 1..Len(running) : running[m][1] = running[n][1] => m = n

\* What the child has blocked and handles at each of its places.
ChildHas ==
  /\ child = "block" => blocked = {} /\ handled = {}
  /\ child \in {"signal", "sleep6"} => blocked = Signos
  /\ child \in {"sleep3", "exit"} => blocked = {}
  /\ child \in {"sleep6", "sleep3", "exit"} => handled = Signos
  /\ child \in {"block", "signal", "sleep6"} => running = <<>>
  /\ child = "block" /\ ~early => \A s \in Signos : pending[s] = <<>>
  /\ child = "killed" => early

\* Once everything has been sent and unblocked, everything is printed.
AllPrinted ==
  inTime =>
    /\ parent # "send" /\ child \in {"sleep3", "exit", "exited"}
    /\ child = "exit" => running = <<>> /\ \A s \in Signos : pending[s] = <<>>
    /\ child = "exited" => \A s \in Signos : Len(printed[s]) = Values

SignalsInv ==
  /\ SignalTypes
  /\ \A s \in Signos : Printed(s)
  /\ ~Signals!ChildEnded => Handlers /\ \A s \in Signos : Pending(s)
  /\ ChildHas
  /\ AllPrinted

LEMMA SignalsBegin ==
  ASSUME Signals!Init PROVE SignalsInv
<1> USE TheirConstants DEF Signals!Init, Signals!Signos, Signos, Signals!SignalsAssumption
<1>1. SignalTypes
  <2>1. /\ <<>> \in Seq(0..Values-1) /\ <<>> \in Seq((0..2) \X (0..Values-1))
        /\ 0 \in 0..Values-1
    BY EmptySeq
  <2>2. /\ pending \in [0..2 -> Seq(0..Values-1)] /\ printed \in [0..2 -> Seq(0..Values-1)]
        /\ running \in Seq((0..2) \X (0..Values-1))
    BY <2>1
  <2>3. /\ parent = "send" /\ signo \in 0..2 /\ j \in 0..Values-1 /\ child = "block"
        /\ blocked = {} /\ handled = {} /\ early \in BOOLEAN /\ inTime \in BOOLEAN
    BY <2>1
  <2> QED BY ONLY <2>2, <2>3 DEF SignalTypes, ChildPlaces, Signos
<1>2. \A s \in Signos : Sent(s) = 0 /\ Begun(s) = 0 /\ Len(printed[s]) = 0 /\ Len(pending[s]) = 0
  BY DEF Sent, Begun, InHandler
<1>3. \A s \in Signos : Printed(s) /\ Pending(s)
  BY <1>2 DEF Printed, Pending
<1>4. Handlers /\ ChildHas /\ AllPrinted
  BY DEF Handlers, ChildHas, AllPrinted
<1> QED BY <1>1, <1>3, <1>4 DEF SignalsInv

\* One value more of the signal that is sent, and none of the others.
LEMMA OneIsSent ==
  ASSUME SignalTypes, Signals!Send
  PROVE  /\ \A s \in Signos : s = signo => Sent(s) = j /\ Sent(s)' = j + 1
         /\ \A s \in Signos : s # signo => Sent(s)' = Sent(s)
         /\ parent' \in {"send", "waitpid"} /\ signo' \in Signos /\ j' \in 0..Values-1
<1>1. /\ parent = "send" /\ signo \in 0..2 /\ j \in 0..Values-1 /\ Values \in Nat \ {0}
      /\ IF j + 1 < Values
         THEN j' = j + 1 /\ parent' = parent /\ signo' = signo
         ELSE /\ j' = 0
              /\ IF signo > 0
                 THEN signo' = signo - 1 /\ parent' = parent
                 ELSE parent' = "waitpid" /\ signo' = signo
  BY TheirConstants DEF SignalTypes, Signals!Send, Signals!SignalsAssumption, Signos
<1>2. \A s \in 0..2 : Sent(s) = IF s > signo THEN Values ELSE IF s = signo THEN j ELSE 0
  BY ONLY <1>1 DEF Sent
<1>3. CASE j + 1 < Values
  <2>1. \A s \in 0..2 : Sent(s)' = IF s > signo THEN Values ELSE IF s = signo THEN j + 1 ELSE 0
    BY ONLY <1>1, <1>3 DEF Sent
  <2> QED BY ONLY <1>1, <1>2, <1>3, <2>1 DEF Signos
<1>4. CASE ~(j + 1 < Values) /\ signo > 0
  <2>1. j' = 0 /\ signo' = signo - 1 /\ parent' = "send" /\ j + 1 = Values
    BY ONLY <1>1, <1>4
  <2>2. \A s \in 0..2 : Sent(s)' = IF s > signo - 1 THEN Values ELSE 0
    BY ONLY <1>1, <2>1 DEF Sent
  <2> QED BY ONLY <1>1, <1>2, <1>4, <2>1, <2>2 DEF Signos
<1>5. CASE ~(j + 1 < Values) /\ ~(signo > 0)
  <2>1. j' = 0 /\ signo' = signo /\ signo = 0 /\ parent' = "waitpid" /\ j + 1 = Values
    BY ONLY <1>1, <1>5
  <2>2. \A s \in 0..2 : Sent(s)' = Values
    BY ONLY <2>1 DEF Sent
  <2> QED BY ONLY <1>1, <1>2, <2>1, <2>2 DEF Signos
<1> QED BY <1>3, <1>4, <1>5

LEMMA SendKeeps ==
  ASSUME SignalsInv, Signals!Send PROVE SignalsInv'
<1>1. /\ SignalTypes /\ ChildHas /\ AllPrinted /\ parent = "send"
      /\ pending' = IF Signals!ChildEnded THEN pending ELSE [pending EXCEPT ![signo] = Append(@, j)]
      /\ early' = (early \/ child = "block")
      /\ handled' = handled /\ printed' = printed /\ inTime' = inTime /\ child' = child
      /\ blocked' = blocked /\ running' = running
      /\ \A s \in Signos : Printed(s)
  BY DEF SignalsInv, Signals!Send, Signals!receiving
<1>2. /\ signo \in Signos /\ j \in 0..Values-1
      /\ pending \in [Signos -> Seq(0..Values-1)]
  BY <1>1 DEF SignalTypes
<1>3. /\ pending' \in [Signos -> Seq(0..Values-1)]
      /\ \A s \in Signos \ {signo} : pending'[s] = pending[s]
      /\ ~Signals!ChildEnded => pending'[signo] = Append(pending[signo], j)
  BY <1>1, <1>2
<1>4. SignalTypes'
  BY <1>1, <1>3, OneIsSent DEF SignalTypes
<1>5. ~inTime
  BY <1>1 DEF AllPrinted
<1>6. ChildHas' /\ AllPrinted'
  BY <1>1, <1>5 DEF ChildHas, AllPrinted, SignalTypes
<1>7. \A s \in Signos : Printed(s)' /\ Begun(s)' = Begun(s)
  BY <1>1 DEF Printed, Begun, InHandler
<1>8. ASSUME ~Signals!ChildEnded'
      PROVE  Handlers' /\ \A s \in Signos : Pending(s)'
  <2>1. ~Signals!ChildEnded
    BY <1>1, <1>8 DEF Signals!ChildEnded
  <2>2. Handlers /\ \A s \in Signos : Pending(s)
    BY <2>1 DEF SignalsInv
  <2>3. Handlers'
    BY <1>1, <2>2 DEF Handlers
  <2>4. ASSUME NEW s \in Signos \ {signo} PROVE Pending(s)'
    <3>1. pending'[s] = pending[s] /\ Begun(s)' = Begun(s) /\ Sent(s)' = Sent(s)
      BY <1>1, <1>3, <1>7, OneIsSent
    <3>2. Pending(s)
      BY <2>2
    <3> QED BY ONLY <3>1, <3>2 DEF Pending
  <2>5. ASSUME NEW s \in Signos, s = signo PROVE Pending(s)'
    <3> DEFINE q == pending[s]  b == Begun(s)  e == Append(q, j)
    <3>1. printed[s] \in Seq(0..Values-1) /\ q \in Seq(0..Values-1)
      BY <1>1, <1>2 DEF SignalTypes
    <3>2. b \in Nat /\ b + Len(q) = j /\ \A n \in 1..Len(q) : q[n] = b + n - 1
      <4>1. Begun(s) \in Nat
        <5>1. Len(printed[s]) \in Nat
          BY ONLY <3>1
        <5>2. CASE InHandler(s)
          BY ONLY <5>1, <5>2 DEF Begun
        <5>3. CASE ~InHandler(s)
          BY ONLY <5>1, <5>3 DEF Begun
        <5> QED BY ONLY <5>2, <5>3
      <4> QED BY <1>1, <2>2, <2>5, <4>1, OneIsSent DEF Pending
    <3>3. Begun(s)' = b /\ Sent(s)' = j + 1 /\ pending'[s] = e
      BY <1>1, <1>3, <1>7, <2>1, <2>5, OneIsSent
    <3> HIDE DEF q, b
    <3>4. Len(e) = Len(q) + 1 /\ e[Len(q) + 1] = j /\ \A n \in 1..Len(q) : e[n] = q[n]
      BY ONLY <1>2, <3>1
    <3>5. Len(q) \in Nat
      BY ONLY <3>1
    <3> HIDE DEF e
    <3>6. ASSUME NEW n \in 1..Len(e) PROVE e[n] = b + n - 1
      <4>1. n \in 1..Len(q) \/ n = Len(q) + 1
        BY ONLY <3>4, <3>5, <3>6
      <4> QED BY ONLY <3>2, <3>4, <3>5, <4>1, <1>2
    <3>7. b + Len(e) = j + 1
      BY ONLY <3>2, <3>4, <3>5
    <3> QED BY ONLY <3>3, <3>6, <3>7 DEF Pending
  <2> QED BY <2>3, <2>4, <2>5
<1> QED BY <1>4, <1>6, <1>7, <1>8 DEF SignalsInv

\* A handler begins: its value is the next one of its number.
LEMMA HandlerBegins ==
  ASSUME SignalsInv, NEW s \in Signos, s \notin blocked, s \in handled, ~InHandler(s),
         ~Signals!ChildEnded, pending[s] # <<>>, pending' = [pending EXCEPT ![s] = Tail(@)],
         running' = <<<<s, Head(pending[s])>>>> \o running,
         UNCHANGED <<parent, signo, j, early, handled, printed, inTime, child, blocked>>
  PROVE  SignalsInv'
<1> DEFINE x == <<s, Head(pending[s])>>
<1>1. /\ SignalTypes /\ Handlers /\ ChildHas /\ AllPrinted /\ \A t \in Signos : Printed(t) /\ Pending(t)
  BY DEF SignalsInv
<1>2. /\ pending \in [Signos -> Seq(0..Values-1)] /\ running \in Seq(Signos \X (0..Values-1))
      /\ printed[s] \in Seq(0..Values-1) /\ pending[s] \in Seq(0..Values-1)
  BY <1>1 DEF SignalTypes
<1>3. /\ Head(pending[s]) = pending[s][1] /\ pending[s][1] \in 0..Values-1 /\ Len(pending[s]) > 0
      /\ Tail(pending[s]) \in Seq(0..Values-1) /\ Len(Tail(pending[s])) = Len(pending[s]) - 1
      /\ \A n \in 1..Len(Tail(pending[s])) : Tail(pending[s])[n] = pending[s][n + 1]
  <2> DEFINE r == pending[s]
  <2>1. r \in Seq(0..Values-1) /\ r # <<>>
    BY <1>2
  <2> HIDE DEF r
  <2>2. /\ Head(r) = r[1] /\ r[1] \in 0..Values-1 /\ Len(r) \in Nat \ {0}
        /\ Tail(r) \in Seq(0..Values-1) /\ Len(Tail(r)) = Len(r) - 1
        /\ \A n \in 1..Len(Tail(r)) : Tail(r)[n] = r[n + 1]
    BY ONLY <2>1, RestOfSeq
  <2>3. Len(r) > 0
    BY ONLY <2>2
  <2> QED BY ONLY <2>2, <2>3 DEF r
<1>4. x \in Signos \X (0..Values-1) /\ x[1] = s /\ x[2] = pending[s][1]
  BY <1>3
<1> HIDE DEF x
<1>5. /\ running' \in Seq(Signos \X (0..Values-1)) /\ Len(running') = Len(running) + 1
      /\ running'[1] = x /\ \A n \in 2..Len(running') : running'[n] = running[n - 1]
  BY <1>2, <1>4, FirstOfConcat DEF x
<1>6. /\ pending' \in [Signos -> Seq(0..Values-1)] /\ pending'[s] = Tail(pending[s])
      /\ \A t \in Signos \ {s} : pending'[t] = pending[t]
  BY <1>2, <1>3
<1>7. SignalTypes'
  BY <1>1, <1>5, <1>6 DEF SignalTypes
<1>8. Begun(s) = Len(printed[s]) /\ pending[s][1] = Len(printed[s]) /\ Len(printed[s]) \in Nat
  <2>1. Len(printed[s]) \in Nat
    BY ONLY <1>2
  <2>2. Begun(s) = Len(printed[s])
    BY <2>1 DEF Begun
  <2>3. /\ Begun(s) + Len(pending[s]) = Sent(s) /\ Len(pending[s]) \in Nat \ {0}
        /\ \A n \in 1..Len(pending[s]) : pending[s][n] = Begun(s) + n - 1
    BY <1>1, <1>3 DEF Pending
  <2>4. 1 \in 1..Len(pending[s])
    BY ONLY <2>3
  <2>5. pending[s][1] = Begun(s) + 1 - 1
    BY ONLY <2>3, <2>4
  <2> QED BY ONLY <2>1, <2>2, <2>5
<1>9. InHandler(s)' /\ \A t \in Signos \ {s} : InHandler(t)' <=> InHandler(t)
  <2>1. Len(running) \in Nat
    BY ONLY <1>2
  <2>2. InHandler(s)'
    <3>1. 1 \in 1..Len(running')
      BY ONLY <1>5, <2>1
    <3> QED BY <1>4, <1>5, <3>1 DEF InHandler
  <2>3. ASSUME NEW t \in Signos \ {s} PROVE InHandler(t)' <=> InHandler(t)
    <3>1. ASSUME NEW n \in 1..Len(running'), running'[n][1] = t PROVE InHandler(t)
      <4>1. n # 1
        BY <1>4, <1>5, <3>1
      <4>2. n \in 2..Len(running') /\ n - 1 \in 1..Len(running)
        BY ONLY <1>5, <2>1, <3>1, <4>1
      <4> QED BY <1>5, <3>1, <4>2 DEF InHandler
    <3>2. ASSUME NEW n \in 1..Len(running), running[n][1] = t PROVE InHandler(t)'
      <4>1. n + 1 \in 2..Len(running') /\ (n + 1) - 1 = n /\ n + 1 \in 1..Len(running')
        BY ONLY <1>5, <2>1, <3>2
      <4>2. running'[n + 1][1] = t
        BY <1>5, <3>2, <4>1
      <4> QED BY <4>1, <4>2 DEF InHandler
    <3> QED BY <3>1, <3>2 DEF InHandler
  <2> QED BY <2>2, <2>3
<1>10. Begun(s)' = Begun(s) + 1 /\ \A t \in Signos \ {s} : Begun(t)' = Begun(t)
  BY <1>8, <1>9 DEF Begun
<1>11. \A t \in Signos : Printed(t)' /\ Sent(t)' = Sent(t)
  BY <1>1 DEF Printed, Sent
<1>12. \A t \in Signos : Pending(t)'
  <2>1. ASSUME NEW t \in Signos \ {s} PROVE Pending(t)'
    <3>1. pending'[t] = pending[t] /\ Begun(t)' = Begun(t) /\ Sent(t)' = Sent(t)
      BY <1>6, <1>10, <1>11
    <3> QED BY <1>1, <3>1 DEF Pending
  <2>2. Pending(s)'
    <3> DEFINE q == Tail(pending[s])  b == Begun(s)
    <3>1. /\ b \in Nat /\ Len(q) \in Nat /\ Len(pending[s]) \in Nat
          /\ b + Len(pending[s]) = Sent(s) /\ Len(q) = Len(pending[s]) - 1
      <4>1. Len(pending[s]) \in Nat
        BY ONLY <1>2
      <4>2. b \in Nat /\ Len(q) \in Nat /\ Len(q) = Len(pending[s]) - 1
        BY ONLY <1>3, <1>8, <4>1
      <4>3. b + Len(pending[s]) = Sent(s)
        BY <1>1 DEF Pending
      <4> HIDE DEF q, b
      <4> QED BY <4>1, <4>2, <4>3
    <3>2. b + 1 + Len(q) = Sent(s)
      <4> HIDE DEF q, b
      <4>1. PICK lq \in Nat, lp \in Nat, b0 \in Nat : lq = Len(q) /\ lp = Len(pending[s]) /\ b0 = b
        BY ONLY <3>1
      <4>2. lq = lp - 1 /\ Sent(s) = b0 + lp
        BY ONLY <3>1, <4>1
      <4>3. b0 + 1 + lq = b0 + lp
        BY ONLY <4>2, lq \in Nat, lp \in Nat, b0 \in Nat
      <4> QED BY ONLY <4>1, <4>2, <4>3
    <3>3. ASSUME NEW n \in 1..Len(q) PROVE q[n] = b + 1 + n - 1
      <4>1. q[n] = pending[s][n + 1]
        BY ONLY <1>3, <3>3
      <4>2. \A k \in 1..Len(pending[s]) : pending[s][k] = b + k - 1
        BY <1>1 DEF Pending
      <4> HIDE DEF q, b
      <4>3. n + 1 \in 1..Len(pending[s])
        BY ONLY <3>1, <3>3
      <4>4. pending[s][n + 1] = b + (n + 1) - 1
        BY ONLY <4>2, <4>3
      <4> QED BY ONLY <3>1, <3>3, <4>1, <4>4
    <3> HIDE DEF q, b
    <3>4. Begun(s)' = b + 1 /\ Sent(s)' = Sent(s) /\ pending'[s] = q
      BY <1>6, <1>10, <1>11 DEF b, q
    <3> QED BY ONLY <3>2, <3>3, <3>4 DEF Pending
  <2> QED BY <2>1, <2>2
<1>13. Handlers'
  <2>1. Len(running) \in Nat
    BY ONLY <1>2
  <2>2. \A n \in 2..Len(running') : n - 1 \in 1..Len(running) /\ running'[n][1] # s
    BY <1>5, <2>1 DEF InHandler
  <2>3. ASSUME NEW n \in 1..Len(running') PROVE running'[n][2] = Len(printed[running'[n][1]])
    <3>1. CASE n = 1
      BY <1>4, <1>5, <1>8, <3>1
    <3>2. CASE n # 1
      <4>1. n \in 2..Len(running') /\ n - 1 \in 1..Len(running)
        BY ONLY <1>5, <2>1, <2>3, <3>2
      <4> QED BY <1>1, <1>5, <4>1 DEF Handlers
    <3> QED BY <3>1, <3>2
  <2>4. ASSUME NEW m \in 1..Len(running'), NEW n \in 1..Len(running'), running'[m][1] = running'[n][1]
        PROVE  m = n
    <3>1. CASE m = 1
      <4>1. n \notin 2..Len(running')
        BY <1>4, <1>5, <2>2, <2>4, <3>1
      <4> QED BY ONLY <1>5, <2>1, <2>4, <3>1, <4>1
    <3>2. CASE n = 1
      <4>1. m \notin 2..Len(running')
        BY <1>4, <1>5, <2>2, <2>4, <3>2
      <4> QED BY ONLY <1>5, <2>1, <2>4, <3>2, <4>1
    <3>3. CASE m # 1 /\ n # 1
      <4>1. m \in 2..Len(running') /\ n \in 2..Len(running')
        BY ONLY <1>5, <2>1, <2>4, <3>3
      <4>2. m - 1 \in 1..Len(running) /\ n - 1 \in 1..Len(running)
        BY ONLY <2>2, <4>1
      <4>3. running[m - 1][1] = running[n - 1][1]
        BY ONLY <1>5, <2>4, <4>1
      <4>4. m - 1 = n - 1
        BY ONLY <1>1, <4>2, <4>3 DEF Handlers
      <4> QED BY ONLY <4>1, <4>4
    <3> QED BY <3>1, <3>2, <3>3
  <2>5. printed' = printed
    OBVIOUS
  <2> QED BY <2>3, <2>4, <2>5 DEF Handlers
<1>14. ChildHas' /\ AllPrinted'
  <2>1. child \in {"sleep3", "exit"} /\ (child = "exit" => ~inTime)
    BY <1>1 DEF ChildHas, SignalTypes, AllPrinted, ChildPlaces, Signals!ChildEnded, Signos
  <2>2. child # "block" /\ child # "exited"
    BY <2>1
  <2> QED BY <1>1, <2>1, <2>2 DEF ChildHas, AllPrinted
<1> QED BY <1>1, <1>7, <1>11, <1>12, <1>13, <1>14 DEF SignalsInv

LEMMA DeliverKeeps ==
  ASSUME SignalsInv, NEW s \in Signos, Signals!Deliver(s) PROVE SignalsInv'
<1>1. /\ ~Signals!ChildEnded /\ pending[s] # <<>> /\ s \notin blocked
      /\ \A n \in DOMAIN running : running[n][1] # s
      /\ pending' = [pending EXCEPT ![s] = Tail(@)]
      /\ IF s \in handled
         THEN running' = <<<<s, Head(pending[s])>>>> \o running /\ child' = child
         ELSE child' = "killed" /\ running' = running
      /\ UNCHANGED <<parent, signo, j, early, handled, printed, inTime, blocked>>
  BY DEF Signals!Deliver, Signals!Deliverable, Signals!sending, Signals!receiving
<1>2. /\ SignalTypes /\ ChildHas /\ AllPrinted /\ \A t \in Signos : Printed(t)
  BY DEF SignalsInv
<1>3. ~InHandler(s)
  <2>1. DOMAIN running = 1..Len(running)
    BY <1>2 DEF SignalTypes
  <2> QED BY <1>1, <2>1 DEF InHandler
<1>4. CASE s \in handled
  BY <1>1, <1>3, <1>4, HandlerBegins
<1>5. CASE s \notin handled
  <2>1. child' = "killed" /\ running' = running
    BY <1>1, <1>5
  <2>2. child = "block" /\ early
    BY <1>1, <1>2, <1>5 DEF ChildHas, SignalTypes, ChildPlaces, Signals!ChildEnded
  <2>3. Tail(pending[s]) \in Seq(0..Values-1)
    BY <1>1, <1>2 DEF SignalTypes
  <2>4. SignalTypes'
    BY <1>1, <1>2, <2>1, <2>3 DEF SignalTypes, ChildPlaces
  <2>5. ~inTime
    BY <1>2, <2>2 DEF AllPrinted
  <2>6. ChildHas' /\ AllPrinted' /\ Signals!ChildEnded'
    BY <1>1, <2>1, <2>2, <2>5 DEF ChildHas, AllPrinted, Signals!ChildEnded
  <2>7. \A t \in Signos : Printed(t)'
    BY <1>1, <1>2 DEF Printed
  <2> QED BY <2>4, <2>6, <2>7 DEF SignalsInv
<1> QED BY <1>4, <1>5

\* sig_rt prints the value of the innermost handler, which is the next one of
\* its number, and returns to a handler of another number.
LEMMA HandlerReturns ==
  ASSUME SignalsInv, ~Signals!ChildEnded, running # <<>>, NEW s \in Signos, running[1][1] = s,
         printed' = [printed EXCEPT ![s] = Append(@, running[1][2])], running' = Tail(running),
         UNCHANGED <<parent, signo, j, early, handled, inTime, child, blocked, pending>>
  PROVE  SignalsInv'
<1>1. SignalTypes /\ Handlers /\ ChildHas /\ AllPrinted /\ \A t \in Signos : Printed(t) /\ Pending(t)
  BY DEF SignalsInv
<1>2. running \in Seq(Signos \X (0..Values-1)) /\ printed \in [Signos -> Seq(0..Values-1)]
  BY <1>1 DEF SignalTypes
<1>3. /\ running[1] \in Signos \X (0..Values-1) /\ 1 \in 1..Len(running) /\ Len(running) \in Nat
      /\ running' \in Seq(Signos \X (0..Values-1)) /\ Len(running') = Len(running) - 1
      /\ \A n \in 1..Len(running') : running'[n] = running[n + 1]
  BY ONLY <1>2, running # <<>>, running' = Tail(running)
<1>4. /\ running[1][2] \in 0..Values-1 /\ printed[s] \in Seq(0..Values-1)
      /\ running[1][2] = Len(printed[s])
  BY <1>1, <1>2, <1>3 DEF Handlers
<1>5. /\ printed' \in [Signos -> Seq(0..Values-1)]
      /\ printed'[s] = Append(printed[s], running[1][2])
      /\ \A t \in Signos \ {s} : printed'[t] = printed[t]
  BY <1>2, <1>4
<1>6. SignalTypes'
  BY <1>1, <1>3, <1>5 DEF SignalTypes
<1>7. /\ Len(printed'[s]) = Len(printed[s]) + 1 /\ Len(printed[s]) \in Nat
      /\ printed'[s][Len(printed[s]) + 1] = Len(printed[s])
      /\ \A n \in 1..Len(printed[s]) : printed'[s][n] = printed[s][n]
  BY ONLY <1>4, <1>5
<1>8. \A t \in Signos : Printed(t)'
  <2>1. ASSUME NEW t \in Signos \ {s} PROVE Printed(t)'
    <3>1. Printed(t) /\ printed'[t] = printed[t]
      BY <1>1, <1>5
    <3> QED BY ONLY <3>1 DEF Printed
  <2>2. ASSUME NEW n \in 1..Len(printed'[s]) PROVE printed'[s][n] = n - 1
    <3>1. CASE n \in 1..Len(printed[s])
      BY <1>1, <1>7, <3>1 DEF Printed
    <3>2. CASE n \notin 1..Len(printed[s])
      <4>1. n = Len(printed[s]) + 1
        BY ONLY <1>7, <2>2, <3>2
      <4> QED BY ONLY <1>7, <4>1
    <3> QED BY <3>1, <3>2
  <2>3. Printed(s)'
    BY ONLY <2>2 DEF Printed
  <2> QED BY <2>1, <2>3
<1>9. ASSUME NEW n \in 1..Len(running')
      PROVE  n + 1 \in 1..Len(running) /\ running'[n] = running[n + 1] /\ running'[n][1] # s
  <2>1. n + 1 \in 1..Len(running) /\ n + 1 # 1 /\ running'[n] = running[n + 1]
    BY ONLY <1>3, <1>9
  <2> QED BY <1>1, <1>3, <2>1 DEF Handlers
<1>10. InHandler(s) /\ ~InHandler(s)'
  BY <1>3, <1>9 DEF InHandler
<1>11. ASSUME NEW t \in Signos \ {s} PROVE InHandler(t)' <=> InHandler(t)
  <2>1. ASSUME NEW n \in 1..Len(running), running[n][1] = t
        PROVE  \E m \in 1..Len(running') : running'[m][1] = t
    <3>1. n # 1
      BY <2>1
    <3>2. n - 1 \in 1..Len(running') /\ (n - 1) + 1 = n
      BY ONLY <1>3, <2>1, <3>1
    <3> QED BY <1>9, <2>1, <3>2
  <2> QED BY <1>9, <2>1 DEF InHandler
<1>12. \A t \in Signos : Begun(t)' = Begun(t) /\ Sent(t)' = Sent(t)
  <2>1. Begun(s)' = Begun(s)
    BY <1>7, <1>10 DEF Begun
  <2>2. ASSUME NEW t \in Signos \ {s} PROVE Begun(t)' = Begun(t)
    BY <1>5, <1>11 DEF Begun
  <2>3. \A t \in Signos : Sent(t)' = Sent(t)
    BY DEF Sent
  <2> QED BY <2>1, <2>2, <2>3
<1>13. \A t \in Signos : Pending(t)'
  BY <1>1, <1>12 DEF Pending
<1>14. Handlers'
  <2>1. ASSUME NEW n \in 1..Len(running') PROVE running'[n][2] = Len(printed'[running'[n][1]])
    <3>1. running'[n][1] \in Signos \ {s} /\ running[n + 1][2] = Len(printed[running[n + 1][1]])
      BY <1>1, <1>3, <1>9 DEF Handlers
    <3> QED BY <1>5, <1>9, <3>1
  <2>2. ASSUME NEW m \in 1..Len(running'), NEW n \in 1..Len(running'), running'[m][1] = running'[n][1]
        PROVE  m = n
    <3>1. m + 1 = n + 1
      BY <1>1, <1>9, <2>2 DEF Handlers
    <3> QED BY ONLY <3>1, <2>2
  <2> QED BY <2>1, <2>2 DEF Handlers
<1>15. ChildHas' /\ AllPrinted'
  <2>1. child \in {"sleep3", "exit"} /\ (child = "exit" => ~inTime)
    BY <1>1 DEF ChildHas, SignalTypes, AllPrinted, ChildPlaces, Signals!ChildEnded
  <2> QED BY <1>1, <2>1 DEF ChildHas, AllPrinted
<1> QED BY <1>6, <1>8, <1>13, <1>14, <1>15 DEF SignalsInv

LEMMA HandlerKeeps ==
  ASSUME SignalsInv, Signals!Handler PROVE SignalsInv'
<1>1. SignalTypes /\ running # <<>> /\ ~Signals!ChildEnded
  BY DEF SignalsInv, Signals!Handler
<1>2. Head(running) = running[1] /\ running[1][1] \in Signos
  BY <1>1 DEF SignalTypes
<1> PICK s \in Signos : s = running[1][1]
  BY <1>2
<1>3. /\ printed' = [printed EXCEPT ![s] = Append(@, running[1][2])] /\ running' = Tail(running)
      /\ UNCHANGED <<parent, signo, j, early, handled, inTime, child, blocked, pending>>
  BY <1>2 DEF Signals!Handler, Signals!sending
<1> QED BY <1>1, <1>3, HandlerReturns

\* The child goes on from one place to the next; only its last step, when nothing
\* is pending any more, says that everything is printed.
LEMMA ChildKeeps ==
  ASSUME SignalsInv, NEW from \in ChildPlaces \ {"exited", "killed"}, NEW to \in ChildPlaces, Signals!Step(from, to),
         blocked' \subseteq Signos, handled' \subseteq Signos, inTime' \in BOOLEAN,
         ChildHas', AllPrinted'
  PROVE  SignalsInv'
<1>1. /\ child' = to /\ UNCHANGED <<parent, signo, j, early, pending, running, printed>>
      /\ SignalTypes /\ \A t \in Signos : Printed(t)
  BY DEF SignalsInv, Signals!Step, Signals!sending
<1>2. SignalTypes'
  BY <1>1 DEF SignalTypes
<1>3. \A t \in Signos : Printed(t)'
  BY <1>1 DEF Printed
<1>4. Handlers => Handlers'
  BY <1>1 DEF Handlers
<1>5. \A t \in Signos : Pending(t) => Pending(t)'
  BY <1>1 DEF Pending, Begun, InHandler, Sent
<1>6. ~Signals!ChildEnded
  BY DEF Signals!Step, Signals!ChildEnded
<1> QED BY <1>2, <1>3, <1>4, <1>5, <1>6 DEF SignalsInv

LEMMA SignalsStep ==
  ASSUME SignalsInv, Signals!Next PROVE SignalsInv'
<1> USE DEF Signals!Step, ChildPlaces, Signos, Signals!Signos
<1>1. SignalTypes /\ ChildHas /\ AllPrinted
  BY DEF SignalsInv
<1>2. CASE Signals!Waitpid
  <2>1. /\ parent = "waitpid" /\ parent' = "done"
        /\ UNCHANGED <<signo, j, early, handled, printed, inTime, child, blocked, pending, running>>
    BY <1>2 DEF Signals!Waitpid, Signals!receiving
  <2>2. SignalTypes' /\ ChildHas' /\ AllPrinted'
    BY <1>1, <2>1 DEF SignalTypes, ChildHas, AllPrinted
  <2>3. \A t \in Signos : (Printed(t) => Printed(t)') /\ (Pending(t) => Pending(t)')
    BY <2>1 DEF Printed, Pending, Begun, InHandler, Sent
  <2>4. Handlers => Handlers'
    BY <2>1 DEF Handlers
  <2> QED BY <2>1, <2>2, <2>3, <2>4 DEF SignalsInv, Signals!ChildEnded
<1>3. CASE Signals!Block
  <2>1. /\ Signals!Step("block", "signal") /\ blocked' = 0..2 /\ handled' = handled /\ inTime' = inTime
        /\ child = "block" /\ child' = "signal" /\ running' = running /\ early' = early
    BY <1>3 DEF Signals!Block, Signals!sending
  <2>2. ChildHas' /\ AllPrinted'
    BY <1>1, <2>1 DEF ChildHas, AllPrinted
  <2>3. handled' \subseteq 0..2 /\ inTime' \in BOOLEAN
    BY <1>1, <2>1 DEF SignalTypes
  <2> HIDE DEF Signals!Step
  <2> QED BY <2>1, <2>2, <2>3, ChildKeeps
<1>4. ASSUME NEW s \in 0..2, Signals!SignalRt(s) PROVE SignalsInv'
  <2> DEFINE to == IF s = 0 THEN "sleep6" ELSE "signal"
  <2>1. /\ Signals!Step("signal", to) /\ blocked' = blocked /\ inTime' = inTime
        /\ handled = s + 1 .. 2 /\ handled' = handled \cup {s} /\ running' = running /\ early' = early
        /\ child = "signal" /\ child' = to
    BY <1>4 DEF Signals!SignalRt, Signals!sending
  <2>2. handled' \subseteq 0..2 /\ (to = "sleep6" => handled' = 0..2)
    BY <2>1
  <2>3. ChildHas' /\ AllPrinted'
    BY <1>1, <2>1, <2>2 DEF ChildHas, AllPrinted
  <2>4. blocked' \subseteq 0..2 /\ inTime' \in BOOLEAN /\ to \in ChildPlaces
    BY <1>1, <2>1 DEF SignalTypes
  <2> HIDE DEF Signals!Step, to
  <2> QED BY <2>1, <2>2, <2>3, <2>4, ChildKeeps
<1>5. CASE Signals!Unblock
  <2>1. /\ Signals!Step("sleep6", "sleep3") /\ blocked' = {} /\ handled' = handled
        /\ inTime' = (parent # "send") /\ parent' = parent /\ early' = early
        /\ child = "sleep6" /\ child' = "sleep3"
    BY <1>5 DEF Signals!Unblock, Signals!sending
  <2>2. ChildHas' /\ AllPrinted'
    BY <1>1, <2>1 DEF ChildHas, AllPrinted
  <2>3. handled' \subseteq 0..2 /\ inTime' \in BOOLEAN
    BY <1>1, <2>1 DEF SignalTypes
  <2> HIDE DEF Signals!Step
  <2> QED BY <2>1, <2>2, <2>3, ChildKeeps
<1>6. CASE Signals!Wake
  <2>1. /\ Signals!Step("sleep3", "exit") /\ UNCHANGED <<blocked, handled, inTime>>
        /\ child = "sleep3" /\ child' = "exit" /\ running = <<>>
        /\ UNCHANGED <<running, pending, parent, early>>
    BY <1>6 DEF Signals!Wake, Signals!sending
  <2>2. \A s \in 0..2 : pending[s] = <<>>
    BY <1>1, <1>6, <2>1 DEF Signals!Wake, Signals!Deliverable, ChildHas
  <2>3. ChildHas' /\ AllPrinted'
    BY <1>1, <2>1, <2>2 DEF ChildHas, AllPrinted
  <2>4. handled' \subseteq 0..2 /\ blocked' \subseteq 0..2 /\ inTime' \in BOOLEAN
    BY <1>1, <2>1 DEF SignalTypes
  <2> HIDE DEF Signals!Step
  <2> QED BY <2>1, <2>3, <2>4, ChildKeeps
<1>7. CASE Signals!Exit
  <2>1. /\ Signals!Step("exit", "exited") /\ UNCHANGED <<blocked, handled, inTime>>
        /\ child = "exit" /\ child' = "exited" /\ running = <<>>
        /\ UNCHANGED <<running, pending, printed, parent, early>>
    BY <1>7 DEF Signals!Exit, Signals!sending
  <2>2. inTime => \A s \in 0..2 : Len(printed'[s]) = Values
    <3> SUFFICES ASSUME inTime, NEW s \in 0..2 PROVE Len(printed[s]) = Values
      BY <2>1
    <3>1. Pending(s) /\ Sent(s) = Values /\ pending[s] = <<>>
      BY <1>1, <2>1 DEF SignalsInv, AllPrinted, Sent, Signals!ChildEnded
    <3>2. ~InHandler(s)
      BY <2>1 DEF InHandler
    <3>3. printed[s] \in Seq(0..Values-1)
      BY <1>1 DEF SignalTypes
    <3>4. Begun(s) = Len(printed[s]) /\ Len(printed[s]) \in Nat
      BY <3>2, <3>3 DEF Begun
    <3> QED BY <3>1, <3>4 DEF Pending
  <2>3. ChildHas' /\ AllPrinted'
    BY <1>1, <2>1, <2>2 DEF ChildHas, AllPrinted
  <2>4. handled' \subseteq 0..2 /\ blocked' \subseteq 0..2 /\ inTime' \in BOOLEAN
    BY <1>1, <2>1 DEF SignalTypes
  <2> HIDE DEF Signals!Step
  <2> QED BY <2>1, <2>3, <2>4, ChildKeeps
<1> QED
  BY <1>2, <1>3, <1>4, <1>5, <1>6, <1>7, SendKeeps, DeliverKeeps, HandlerKeeps DEF Signals!Next

LEMMA SignalsStay ==
  ASSUME SignalsInv, UNCHANGED signalVars PROVE SignalsInv'
<1>1. UNCHANGED <<parent, signo, j, child, blocked, handled, pending, running, printed, early, inTime>>
  BY DEF signalVars
<1>2. \A t \in Signos : (Printed(t) => Printed(t)') /\ (Pending(t) => Pending(t)')
  BY <1>1 DEF Printed, Pending, Begun, InHandler, Sent
<1>3. (Handlers => Handlers') /\ (ChildHas => ChildHas') /\ (AllPrinted => AllPrinted')
      /\ (SignalTypes => SignalTypes')
  BY <1>1 DEF Handlers, ChildHas, AllPrinted, SignalTypes
<1> QED BY <1>1, <1>2, <1>3 DEF SignalsInv, Signals!ChildEnded

LEMMA AlwaysSignals == MCSpec => []SignalsInv
<1>1. MCInit => SignalsInv
  BY SignalsBegin DEF MCInit
<1>2. SignalsInv /\ [MCNext]_allVars => SignalsInv'
  BY SignalsStep, SignalsStay DEF MCNext, allVars
<1> QED BY <1>1, <1>2, PTL DEF MCSpec

\* The child is killed only by a signal it has not blocked yet; values of a number
\* are printed in the order in which they were sent, and all of them if they were
\* sent before the child unblocked them: for any number of signals.
THEOREM SignalsArrive == MCSpec => []SignalsAreKept
<1>1. ASSUME SignalsInv PROVE SignalsAreKept
  <2>1. /\ child = "killed" => early
        /\ child = "exited" /\ inTime => \A s \in 0..2 : Len(printed[s]) = Values
    BY <1>1 DEF SignalsInv, ChildHas, AllPrinted, Signos
  <2>2. ASSUME NEW s \in 0..2 PROVE printed[s] = [n \in DOMAIN printed[s] |-> n - 1]
    <3>1. printed[s] \in Seq(0..Values-1) /\ \A n \in 1..Len(printed[s]) : printed[s][n] = n - 1
      BY <1>1 DEF SignalsInv, SignalTypes, Printed, Signos
    <3>2. DOMAIN printed[s] = 1..Len(printed[s]) /\ printed[s] = [n \in DOMAIN printed[s] |-> printed[s][n]]
      BY ONLY <3>1
    <3> QED BY ONLY <3>1, <3>2
  <2> QED BY <2>1, <2>2 DEF SignalsAreKept, Signals!SignalsAreKept, Signals!Signos
<1> QED BY <1>1, AlwaysSignals, PTL

-----------------------------------------------------------------------------
(* shm/client2                                                              *)

Posted == nstored + (IF readerpc = "read" THEN 1 ELSE 0)
\* The slot of the message at place m of due.
SlotOf(m) == (nread + m - 1) % NMESG

RingShapes ==
  /\ rmutex \in {0, 1} /\ noverflowmutex \in {0, 1}
  /\ nempty \in Nat /\ nstored \in Nat
  /\ nput \in Ring!Slots /\ noverflow \in Nat /\ nread \in Nat
  /\ msgdata \in [Ring!Slots -> (Ring!Messages \cup {Ring!Nothing}) \X (Ring!Messages \cup {Ring!Nothing})]
  /\ rpc \in [Clients -> {"trywait", "o_lock", "o_add", "o_unlock", "lock", "take",
                          "advance", "unlock", "copy1", "copy2", "post", "done"}]
  /\ i \in [Clients -> 0..messages]
  /\ offset \in [Clients -> Ring!Slots]
  /\ killed \subseteq Clients
  /\ readerpc \in {"wait", "read", "post"}
  /\ due \in Seq(Ring!Messages)
  /\ wrong \in BOOLEAN /\ overtaken \in BOOLEAN

\* The mutexes, and the message a client is in.
PutRegion == {"take", "advance", "unlock"}
OneInPut ==
  /\ \A c \in Clients : rpc[c] \in PutRegion => rmutex = 0
  /\ \A c, d \in Clients : rpc[c] \in PutRegion /\ rpc[d] \in PutRegion => c = d
OverflowRegion == {"o_add", "o_unlock"}
OneInOverflow ==
  /\ \A c \in Clients : rpc[c] \in OverflowRegion => noverflowmutex = 0
  /\ \A c, d \in Clients : rpc[c] \in OverflowRegion /\ rpc[d] \in OverflowRegion => c = d
RingClients ==
  /\ OneInPut
  /\ OneInOverflow
  /\ \A c \in Clients :
       /\ rpc[c] \notin {"trywait", "done"} => i[c] < messages
       /\ rpc[c] = "advance" => offset[c] = nput

\* A token of nempty is free, in a client's hands, stored or in the reader's hands,
\* and what is due has been posted or is yet to be posted.
RingCounts ==
  /\ nempty + nstored + Cardinality(Ring!InHand) + (IF readerpc = "wait" THEN 0 ELSE 1) = NMESG
  /\ Len(due) = Posted + Cardinality(Ring!HasSlot)
  /\ nput = (nread + Len(due)) % NMESG

\* The clients that have a slot are those of the messages that are not posted.
Unposted ==
  /\ \A m \in Posted + 1 .. Len(due) : \E c \in Ring!HasSlot :
       due[m] = Ring!Message(c) /\ offset[c] = SlotOf(m)
  /\ \A c \in Ring!HasSlot : \E m \in Posted + 1 .. Len(due) :
       due[m] = Ring!Message(c) /\ offset[c] = SlotOf(m)

\* What is posted is whole, and so is what the clients have copied.
Copied ==
  /\ ~wrong
  /\ \A m \in 1..Posted : msgdata[SlotOf(m)] = <<due[m], due[m]>>
  /\ \A c \in Clients :
       /\ rpc[c] \in {"copy2", "post"} => msgdata[offset[c]][1] = Ring!Message(c)
       /\ rpc[c] = "post" => msgdata[offset[c]][2] = Ring!Message(c)

RingInv ==
  /\ RingShapes /\ RingClients /\ RingCounts
  /\ ~overtaken => Unposted /\ Copied

LEMMA RingConstants == IsFiniteSet(Clients) /\ NMESG \in Nat \ {0} /\ messages \in Nat
BY TheirConstants DEF Ring!RingAssumption

\* Messages that differ by less than NMESG places are in different slots.
LEMMA SlotsDiffer ==
  ASSUME NEW m \in Nat, NEW n \in Nat, m < n, n - m < NMESG
  PROVE  m % NMESG # n % NMESG
<1> DEFINE p == n \div NMESG  q == m \div NMESG
<1>1. NMESG \in Nat /\ NMESG > 0
  BY RingConstants
<1>2. /\ p \in Int /\ q \in Int
      /\ m % NMESG = m - NMESG * q /\ n % NMESG = n - NMESG * p
  BY <1>1
<1> HIDE DEF p, q
<1>3. ASSUME m % NMESG = n % NMESG PROVE FALSE
  <2>1. NMESG * p \in Int /\ NMESG * q \in Int
    BY <1>1, <1>2
  <2>2. n - m = NMESG * p - NMESG * q
    BY <1>2, <1>3, <2>1
  <2>3. NMESG * p - NMESG * q = NMESG * (p - q)
    BY <1>1, <1>2
  <2>4. CASE p - q <= 0
    <3>1. NMESG * (p - q) <= 0
      BY <1>1, <1>2, <2>4
    <3> QED BY <2>2, <2>3, <3>1
  <2>5. CASE p - q >= 1
    <3>1. NMESG * (p - q) >= NMESG
      BY <1>1, <1>2, <2>5
    <3> QED BY <1>1, <2>2, <2>3, <3>1
  <2> QED BY <1>2, <2>4, <2>5
<1> QED BY <1>3

\* The slot after the slot of a number is the slot of the next number.
LEMMA NextSlot ==
  ASSUME NEW n \in Nat
  PROVE  (IF (n % NMESG) + 1 >= NMESG THEN 0 ELSE (n % NMESG) + 1) = (n + 1) % NMESG
<1>1. NMESG \in Nat /\ NMESG > 0
  BY RingConstants
<1> DEFINE r == n % NMESG  q == n \div NMESG
<1>2. r \in 0..NMESG-1 /\ q \in Nat /\ n = NMESG * q + r
  BY <1>1
<1> HIDE DEF r, q
<1>3. CASE r + 1 >= NMESG
  <2>1. n + 1 = NMESG * (q + 1)
    BY <1>1, <1>2, <1>3
  <2>2. (NMESG * (q + 1)) % NMESG = 0
    BY <1>1, <1>2
  <2> QED BY <1>3, <2>1, <2>2 DEF r
<1>4. CASE ~(r + 1 >= NMESG)
  <2>1. n + 1 = NMESG * q + (r + 1) /\ r + 1 \in 0..NMESG-1
    BY <1>1, <1>2, <1>4
  <2>2. (NMESG * q + (r + 1)) % NMESG = r + 1
    BY <1>1, <1>2, <2>1
  <2> QED BY <1>4, <2>1, <2>2 DEF r
<1> QED BY <1>3, <1>4

LEMMA SlotInRing == \A n \in Nat : n % NMESG \in Ring!Slots
BY RingConstants DEF Ring!Slots

LEMMA AtMoves ==
  ASSUME RingShapes, NEW c \in Clients, NEW from, NEW to, Ring!Step(c, from, to), NEW places
  PROVE  /\ Cardinality(Ring!At(places)) \in Nat
         /\ from \notin places /\ to \in places =>
              /\ Ring!At(places)' = Ring!At(places) \cup {c} /\ c \notin Ring!At(places)
              /\ Cardinality(Ring!At(places))' = Cardinality(Ring!At(places)) + 1
         /\ from \in places /\ to \notin places =>
              /\ Ring!At(places)' = Ring!At(places) \ {c} /\ c \in Ring!At(places)
              /\ Cardinality(Ring!At(places))' = Cardinality(Ring!At(places)) - 1
         /\ (from \in places <=> to \in places) => Ring!At(places)' = Ring!At(places)
<1>1. rpc[c] = from /\ rpc' = [rpc EXCEPT ![c] = to] /\ DOMAIN rpc = Clients
  BY DEF Ring!Step, RingShapes
<1>2. IsFiniteSet(Ring!At(places))
  BY RingConstants, FS_Subset DEF Ring!At
<1>3. CASE from \notin places /\ to \in places
  <2>1. Ring!At(places)' = Ring!At(places) \cup {c} /\ c \notin Ring!At(places)
    BY <1>1, <1>3 DEF Ring!At
  <2> QED BY <1>2, <1>3, <2>1, FS_AddElement, FS_CardinalityType
<1>4. CASE from \in places /\ to \notin places
  <2>1. Ring!At(places)' = Ring!At(places) \ {c} /\ c \in Ring!At(places)
    BY <1>1, <1>4 DEF Ring!At
  <2> QED BY <1>2, <1>4, <2>1, FS_RemoveElement, FS_CardinalityType
<1>5. CASE from \in places <=> to \in places
  <2>1. Ring!At(places)' = Ring!At(places)
    BY <1>1, <1>5 DEF Ring!At
  <2> QED BY <1>2, <1>5, <2>1, FS_CardinalityType
<1> QED BY <1>3, <1>4, <1>5

SlotPlaces == {"unlock", "copy1", "copy2", "post"}
HandPlaces == {"lock", "take", "advance"} \cup SlotPlaces

LEMMA SlotMoves ==
  ASSUME RingShapes, NEW c \in Clients, NEW from, NEW to, Ring!Step(c, from, to)
  PROVE  /\ from \notin SlotPlaces /\ to \in SlotPlaces =>
              /\ Ring!HasSlot' = Ring!HasSlot \cup {c} /\ c \notin Ring!HasSlot
              /\ Cardinality(Ring!HasSlot)' = Cardinality(Ring!HasSlot) + 1
         /\ from \in SlotPlaces /\ to \notin SlotPlaces =>
              /\ Ring!HasSlot' = Ring!HasSlot \ {c} /\ c \in Ring!HasSlot
              /\ Cardinality(Ring!HasSlot)' = Cardinality(Ring!HasSlot) - 1
         /\ (from \in SlotPlaces <=> to \in SlotPlaces) => Ring!HasSlot' = Ring!HasSlot
BY AtMoves DEF Ring!HasSlot, SlotPlaces

LEMMA HandMoves ==
  ASSUME RingShapes, NEW c \in Clients, NEW from, NEW to, Ring!Step(c, from, to)
  PROVE  /\ from \notin HandPlaces /\ to \in HandPlaces =>
              Cardinality(Ring!InHand)' = Cardinality(Ring!InHand) + 1
         /\ from \in HandPlaces /\ to \notin HandPlaces =>
              Cardinality(Ring!InHand)' = Cardinality(Ring!InHand) - 1
         /\ (from \in HandPlaces <=> to \in HandPlaces) => Ring!InHand' = Ring!InHand
<1>1. Ring!InHand = Ring!At(HandPlaces)
  BY DEF Ring!InHand, Ring!At, HandPlaces, SlotPlaces
<1>2. Ring!InHand' = Ring!At(HandPlaces)'
  BY DEF Ring!InHand, Ring!At, HandPlaces, SlotPlaces
<1>3. Cardinality(Ring!InHand)' = Cardinality(Ring!At(HandPlaces)')
  BY <1>2
<1> HIDE DEF HandPlaces
<1> QED BY <1>1, <1>2, <1>3, AtMoves

LEMMA HandIsMore ==
  ASSUME RingShapes
  PROVE  /\ Cardinality(Ring!InHand) \in Nat /\ Cardinality(Ring!HasSlot) \in Nat
         /\ Cardinality(Ring!HasSlot) <= Cardinality(Ring!InHand)
         /\ \A c \in Ring!InHand \ Ring!HasSlot : Cardinality(Ring!HasSlot) + 1 <= Cardinality(Ring!InHand)
<1>1. /\ IsFiniteSet(Ring!InHand) /\ IsFiniteSet(Ring!HasSlot)
      /\ Ring!HasSlot \subseteq Ring!InHand
  <2>1. Ring!InHand \subseteq Clients /\ Ring!HasSlot \subseteq Ring!InHand
    BY DEF Ring!InHand, Ring!HasSlot, Ring!At
  <2> QED BY <2>1, RingConstants, FS_Subset
<1>2. ASSUME NEW c \in Ring!InHand \ Ring!HasSlot
      PROVE  Cardinality(Ring!HasSlot) + 1 <= Cardinality(Ring!InHand)
  <2>1. /\ IsFiniteSet(Ring!HasSlot \cup {c}) /\ Ring!HasSlot \cup {c} \subseteq Ring!InHand
        /\ Cardinality(Ring!HasSlot \cup {c}) = Cardinality(Ring!HasSlot) + 1
    BY <1>1, <1>2, FS_AddElement
  <2> QED BY <1>1, <2>1, FS_Subset
<1> QED BY <1>1, <1>2, FS_Subset, FS_CardinalityType

\* A message that is due lies in the ring, and there is no room for more.
LEMMA DueFits ==
  ASSUME RingShapes, RingCounts
  PROVE  /\ Posted \in Nat /\ Posted <= Len(due) /\ Len(due) <= NMESG /\ Len(due) \in Nat
         /\ nempty \in 0..NMESG /\ nstored \in 0..NMESG
         /\ \A c \in Ring!InHand \ Ring!HasSlot : Len(due) + 1 <= NMESG
         /\ \A m, n \in 1..Len(due) : SlotOf(m) = SlotOf(n) => m = n
<1>1. /\ Posted \in Nat /\ Posted <= Len(due) /\ Len(due) <= NMESG /\ Len(due) \in Nat
      /\ nempty \in 0..NMESG /\ nstored \in 0..NMESG
      /\ \A c \in Ring!InHand \ Ring!HasSlot : Len(due) + 1 <= NMESG
  <2> DEFINE has == Cardinality(Ring!HasSlot)  hand == Cardinality(Ring!InHand)
  <2>1. /\ has \in Nat /\ hand \in Nat /\ has <= hand
        /\ \A c \in Ring!InHand \ Ring!HasSlot : has + 1 <= hand
    BY HandIsMore
  <2>2. /\ nempty \in Nat /\ nstored \in Nat /\ NMESG \in Nat
        /\ nempty + nstored + hand + (IF readerpc = "wait" THEN 0 ELSE 1) = NMESG
        /\ Len(due) = Posted + has
        /\ Posted = nstored + (IF readerpc = "read" THEN 1 ELSE 0)
    BY RingConstants DEF RingShapes, RingCounts, Posted
  <2> HIDE DEF has, hand
  <2>3. CASE readerpc = "wait"
    BY ONLY <2>1, <2>2, <2>3
  <2>4. CASE readerpc = "read"
    BY ONLY <2>1, <2>2, <2>4
  <2>5. CASE readerpc = "post"
    BY ONLY <2>1, <2>2, <2>5
  <2> QED BY <2>3, <2>4, <2>5 DEF RingShapes
<1>2. ASSUME NEW m \in 1..Len(due), NEW n \in 1..Len(due), m < n
      PROVE  SlotOf(m) # SlotOf(n)
  <2>1. /\ nread + m - 1 \in Nat /\ nread + n - 1 \in Nat
        /\ nread + m - 1 < nread + n - 1 /\ (nread + n - 1) - (nread + m - 1) < NMESG
    BY <1>1, <1>2, RingConstants DEF RingShapes
  <2> QED BY <2>1, SlotsDiffer DEF SlotOf
<1> QED BY <1>1, <1>2

LEMMA RingBegins ==
  ASSUME Ring!Init PROVE RingInv
<1> USE DEF Ring!Init
<1>1. RingShapes
  <2>1. <<>> \in Seq(Ring!Messages)
    BY EmptySeq
  <2>2. msgdata \in [Ring!Slots -> (Ring!Messages \cup {Ring!Nothing}) \X (Ring!Messages \cup {Ring!Nothing})]
    OBVIOUS
  <2>3. 0 \in Ring!Slots
    BY RingConstants DEF Ring!Slots
  <2> QED BY <2>1, <2>2, <2>3, RingConstants DEF RingShapes
<1>2. RingClients
  BY DEF RingClients, OneInPut, OneInOverflow, PutRegion, OverflowRegion
<1>3. Ring!InHand = {} /\ Ring!HasSlot = {} /\ Posted = 0 /\ Len(due) = 0
  BY DEF Ring!InHand, Ring!HasSlot, Ring!At, Posted
<1>4. RingCounts
  BY <1>3, FS_EmptySet, RingConstants DEF RingCounts
<1>5. Unposted /\ Copied
  BY <1>3 DEF Unposted, Copied
<1> QED BY <1>1, <1>2, <1>4, <1>5 DEF RingInv

\* A step that leaves the queue and the clients with a slot where they are.
LEMMA QueueKept ==
  ASSUME RingInv, Posted' = Posted, UNCHANGED <<nread, due, msgdata, wrong, overtaken>>,
         Ring!HasSlot' = Ring!HasSlot,
         \A c \in Ring!HasSlot : i'[c] = i[c] /\ offset'[c] = offset[c],
         \A c \in Clients : rpc'[c] \in {"copy2", "post"} => rpc'[c] = rpc[c]
  PROVE  ~overtaken' => (Unposted /\ Copied)'
<1> SUFFICES ASSUME ~overtaken PROVE (Unposted /\ Copied)'
  OBVIOUS
<1>1. Unposted /\ Copied
  BY DEF RingInv
<1>2. \A m : SlotOf(m)' = SlotOf(m)
  BY DEF SlotOf
<1>3. \A c \in Ring!HasSlot : Ring!Message(c)' = Ring!Message(c)
  BY DEF Ring!Message
<1>4. Unposted'
  BY <1>1, <1>2, <1>3 DEF Unposted
<1>5. Copied'
  <2>1. ASSUME NEW c \in Clients, rpc'[c] \in {"copy2", "post"}
        PROVE  c \in Ring!HasSlot /\ rpc[c] = rpc'[c]
    BY <2>1 DEF Ring!HasSlot, Ring!At
  <2>2. \A m \in 1..Posted : msgdata'[SlotOf(m)'] = <<due'[m], due'[m]>>
    BY <1>1, <1>2 DEF Copied
  <2>3. \A c \in Clients :
       /\ rpc'[c] \in {"copy2", "post"} => msgdata'[offset'[c]][1] = Ring!Message(c)'
       /\ rpc'[c] = "post" => msgdata'[offset'[c]][2] = Ring!Message(c)'
    BY <1>1, <1>3, <2>1 DEF Copied
  <2> QED BY <1>1, <2>2, <2>3 DEF Copied
<1> QED BY <1>4, <1>5

\* A client that goes into one of the two regions has taken its mutex, and gives it
\* back when it leaves.
LEMMA PutAlone ==
  ASSUME RingInv, NEW c \in Clients, NEW from, NEW to, Ring!Step(c, from, to),
         \/ (from \in PutRegion <=> to \in PutRegion) /\ rmutex' = rmutex
         \/ from \notin PutRegion /\ rmutex > 0 /\ rmutex' = rmutex - 1
         \/ from \in PutRegion /\ to \notin PutRegion /\ rmutex' = rmutex + 1
  PROVE  OneInPut' /\ rmutex' \in {0, 1}
<1>1. rpc[c] = from /\ rpc' = [rpc EXCEPT ![c] = to] /\ DOMAIN rpc = Clients /\ rmutex \in {0, 1}
  BY DEF Ring!Step, RingInv, RingShapes
<1>2. /\ \A d \in Clients : rpc[d] \in PutRegion => rmutex = 0
      /\ \A d, e \in Clients : rpc[d] \in PutRegion /\ rpc[e] \in PutRegion => d = e
  BY DEF RingInv, RingClients, OneInPut, OneInOverflow
<1>3. rpc'[c] = to /\ \A d \in Clients \ {c} : rpc'[d] = rpc[d]
  BY <1>1
<1> QED BY <1>1, <1>2, <1>3 DEF OneInPut, OneInOverflow

LEMMA OverflowAlone ==
  ASSUME RingInv, NEW c \in Clients, NEW from, NEW to, Ring!Step(c, from, to),
         \/ (from \in OverflowRegion <=> to \in OverflowRegion) /\ noverflowmutex' = noverflowmutex
         \/ from \notin OverflowRegion /\ noverflowmutex > 0 /\ noverflowmutex' = noverflowmutex - 1
         \/ from \in OverflowRegion /\ to \notin OverflowRegion /\ noverflowmutex' = noverflowmutex + 1
  PROVE  OneInOverflow' /\ noverflowmutex' \in {0, 1}
<1>1. /\ rpc[c] = from /\ rpc' = [rpc EXCEPT ![c] = to] /\ DOMAIN rpc = Clients
      /\ noverflowmutex \in {0, 1}
  BY DEF Ring!Step, RingInv, RingShapes
<1>2. /\ \A d \in Clients : rpc[d] \in OverflowRegion => noverflowmutex = 0
      /\ \A d, e \in Clients : rpc[d] \in OverflowRegion /\ rpc[e] \in OverflowRegion => d = e
  BY DEF RingInv, RingClients, OneInPut, OneInOverflow
<1>3. rpc'[c] = to /\ \A d \in Clients \ {c} : rpc'[d] = rpc[d]
  BY <1>1
<1> QED BY <1>1, <1>2, <1>3 DEF OneInPut, OneInOverflow

LEMMA TryWaitKeeps ==
  ASSUME RingInv, NEW c \in Clients, Ring!TryWait(c) PROVE RingInv'
<1>1. PICK to \in {"lock", "o_lock"} : Ring!Step(c, "trywait", to) /\ (to = "lock" <=> nempty > 0)
  BY DEF Ring!TryWait
<1>2. RingShapes'
  BY DEF RingInv, RingShapes, Ring!Step, Ring!TryWait
<1>3. RingClients'
  <2>1. OneInPut'
    BY <1>1, PutAlone DEF PutRegion, Ring!TryWait
  <2>2. OneInOverflow'
    BY <1>1, OverflowAlone DEF OverflowRegion, Ring!TryWait
  <2>3. /\ rpc' = [rpc EXCEPT ![c] = to] /\ DOMAIN rpc = Clients
        /\ i' = i /\ offset' = offset /\ nput' = nput /\ i[c] < messages
    BY <1>1 DEF RingInv, RingShapes, Ring!Step, Ring!TryWait
  <2>4. \A d \in Clients : /\ rpc'[d] \notin {"trywait", "done"} => i'[d] < messages
                           /\ rpc'[d] = "advance" => offset'[d] = nput'
    BY <2>3 DEF RingInv, RingClients
  <2> QED BY <2>1, <2>2, <2>4 DEF RingClients
<1>4. Ring!HasSlot' = Ring!HasSlot
  BY <1>1, SlotMoves DEF RingInv, SlotPlaces
<1>5. Posted' = Posted
  BY <1>1 DEF Posted, Ring!Step, Ring!TryWait
<1>6. RingCounts'
  <2>1. /\ Cardinality(Ring!InHand) \in Nat
        /\ to = "lock" => Cardinality(Ring!InHand)' = Cardinality(Ring!InHand) + 1
        /\ to = "o_lock" => Ring!InHand' = Ring!InHand
    BY <1>1, HandMoves, HandIsMore DEF RingInv, HandPlaces, SlotPlaces
  <2> QED BY <1>1, <1>4, <1>5, <2>1 DEF RingCounts, RingInv, RingShapes, Ring!Step, Ring!TryWait
<1>7. ~overtaken' => (Unposted /\ Copied)'
  BY <1>1, <1>4, <1>5, QueueKept DEF Ring!Step, RingInv, RingShapes, Ring!TryWait
<1> QED BY <1>2, <1>3, <1>6, <1>7 DEF RingInv

\* A step of a client that neither takes nor gives back anything of the ring.
LEMMA RingStays ==
  ASSUME RingInv, NEW c \in Clients, NEW from, NEW to, Ring!Step(c, from, to),
         from \in HandPlaces <=> to \in HandPlaces, from \in SlotPlaces <=> to \in SlotPlaces,
         UNCHANGED <<nempty, nstored, nput, due>>
  PROVE  Ring!HasSlot' = Ring!HasSlot /\ Posted' = Posted /\ RingCounts'
<1>1. Ring!HasSlot' = Ring!HasSlot /\ Ring!InHand' = Ring!InHand
  BY SlotMoves, HandMoves DEF RingInv
<1>2. Posted' = Posted /\ readerpc' = readerpc /\ nread' = nread
  BY DEF Posted, Ring!Step
<1> QED BY <1>1, <1>2 DEF RingCounts, RingInv

LEMMA OverflowKeeps ==
  ASSUME RingInv, NEW c \in Clients,
         Ring!OverflowLock(c) \/ Ring!OverflowAdd(c) \/ Ring!OverflowUnlock(c)
  PROVE  RingInv'
<1>1. PICK from \in {"o_lock", "o_add", "o_unlock"}, to \in {"o_add", "o_unlock", "trywait"} :
        /\ Ring!Step(c, from, to)
        /\ \/ from = "o_lock" /\ to = "o_add"
              /\ noverflowmutex > 0 /\ noverflowmutex' = noverflowmutex - 1
           \/ from = "o_add" /\ to = "o_unlock" /\ noverflowmutex' = noverflowmutex
           \/ from = "o_unlock" /\ to = "trywait" /\ noverflowmutex' = noverflowmutex + 1
        /\ IF to = "trywait" THEN i' = [i EXCEPT ![c] = @ + 1] ELSE i' = i
        /\ noverflow' \in {noverflow, noverflow + 1}
        /\ UNCHANGED <<rmutex, nempty, nstored, nput, msgdata, offset, due, overtaken>>
  BY DEF Ring!OverflowLock, Ring!OverflowAdd, Ring!OverflowUnlock, Ring!semaphores
<1>2. /\ rpc[c] = from /\ rpc' = [rpc EXCEPT ![c] = to] /\ DOMAIN rpc = Clients /\ DOMAIN i = Clients
      /\ UNCHANGED <<killed, readerpc, nread, wrong>>
  BY <1>1 DEF RingInv, RingShapes, Ring!Step
<1>3. OneInPut'
  BY <1>1, PutAlone DEF PutRegion
<1>4. OneInOverflow' /\ noverflowmutex' \in {0, 1}
  BY <1>1, OverflowAlone DEF OverflowRegion
<1>5. i[c] < messages
  BY <1>2 DEF RingInv, RingClients
<1>6. RingShapes'
  <2>1. i \in [Clients -> 0..messages] /\ noverflow \in Nat
    BY DEF RingInv, RingShapes
  <2>2. i' \in [Clients -> 0..messages] /\ noverflow' \in Nat
    BY <1>1, <1>5, <2>1, RingConstants
  <2>3. rpc' \in [Clients -> {"trywait", "o_lock", "o_add", "o_unlock", "lock", "take",
                             "advance", "unlock", "copy1", "copy2", "post", "done"}]
    BY <1>2 DEF RingInv, RingShapes
  <2> QED BY <1>1, <1>2, <1>4, <2>2, <2>3 DEF RingInv, RingShapes
<1>7. \A d \in Clients : /\ rpc'[d] \notin {"trywait", "done"} => i'[d] < messages
                         /\ rpc'[d] = "advance" => offset'[d] = nput'
  BY <1>1, <1>2, <1>5 DEF RingInv, RingClients
<1>8. Ring!HasSlot' = Ring!HasSlot /\ Posted' = Posted /\ RingCounts'
  BY <1>1, RingStays DEF HandPlaces, SlotPlaces
<1>9. ~overtaken' => (Unposted /\ Copied)'
  <2>1. c \notin Ring!HasSlot
    BY <1>2 DEF Ring!HasSlot, Ring!At
  <2>2. \A d \in Ring!HasSlot : i'[d] = i[d] /\ offset'[d] = offset[d]
    BY <1>1, <1>2, <2>1 DEF Ring!HasSlot, Ring!At
  <2>3. \A d \in Clients : rpc'[d] \in {"copy2", "post"} => rpc'[d] = rpc[d]
    BY <1>2
  <2> QED BY <1>1, <1>2, <1>8, <2>2, <2>3, QueueKept
<1> QED BY <1>3, <1>4, <1>6, <1>7, <1>8, <1>9 DEF RingInv, RingClients

LEMMA LockKeeps ==
  ASSUME RingInv, NEW c \in Clients, Ring!Lock(c) \/ Ring!Take(c) \/ Ring!Unlock(c) \/ Ring!Return(c)
  PROVE  RingInv'
<1>1. PICK from \in {"lock", "take", "unlock", "trywait"}, to \in {"take", "advance", "copy1", "done"} :
        /\ Ring!Step(c, from, to)
        /\ \/ from = "lock" /\ to = "take" /\ rmutex > 0 /\ rmutex' = rmutex - 1
           \/ from = "take" /\ to = "advance" /\ rmutex' = rmutex
           \/ from = "unlock" /\ to = "copy1" /\ rmutex' = rmutex + 1
           \/ from = "trywait" /\ to = "done" /\ rmutex' = rmutex
        /\ IF to = "advance" THEN offset' = [offset EXCEPT ![c] = nput] ELSE offset' = offset
        /\ UNCHANGED <<nempty, nstored, noverflowmutex, nput, noverflow, msgdata, i, due, overtaken>>
  BY DEF Ring!Lock, Ring!Take, Ring!Unlock, Ring!Return, Ring!semaphores
<1>2. /\ rpc[c] = from /\ rpc' = [rpc EXCEPT ![c] = to] /\ DOMAIN rpc = Clients /\ DOMAIN offset = Clients
      /\ UNCHANGED <<killed, readerpc, nread, wrong>>
  BY <1>1 DEF RingInv, RingShapes, Ring!Step
<1>3. OneInPut' /\ rmutex' \in {0, 1}
  BY <1>1, PutAlone DEF PutRegion
<1>4. OneInOverflow'
  BY <1>1, OverflowAlone DEF OverflowRegion
<1>5. from # "trywait" => i[c] < messages
  BY <1>2 DEF RingInv, RingClients
<1>6. RingShapes'
  BY <1>1, <1>2, <1>3 DEF RingInv, RingShapes
<1>7. \A d \in Clients : /\ rpc'[d] \notin {"trywait", "done"} => i'[d] < messages
                         /\ rpc'[d] = "advance" => offset'[d] = nput'
  BY <1>1, <1>2, <1>5 DEF RingInv, RingClients
<1>8. Ring!HasSlot' = Ring!HasSlot /\ Posted' = Posted /\ RingCounts'
  BY <1>1, RingStays DEF HandPlaces, SlotPlaces
<1>9. ~overtaken' => (Unposted /\ Copied)'
  <2>1. to = "advance" => c \notin Ring!HasSlot
    BY <1>1, <1>2 DEF Ring!HasSlot, Ring!At
  <2>2. \A d \in Ring!HasSlot : i'[d] = i[d] /\ offset'[d] = offset[d]
    BY <1>1, <1>2, <2>1 DEF Ring!HasSlot, Ring!At
  <2>3. \A d \in Clients : rpc'[d] \in {"copy2", "post"} => rpc'[d] = rpc[d]
    BY <1>2
  <2> QED BY <1>1, <1>2, <1>8, <2>2, <2>3, QueueKept
<1> QED BY <1>3, <1>4, <1>6, <1>7, <1>8, <1>9 DEF RingInv, RingClients

LEMMA AdvanceKeeps ==
  ASSUME RingInv, NEW c \in Clients, Ring!Advance(c) PROVE RingInv'
<1>1. /\ Ring!Step(c, "advance", "unlock")
      /\ nput' = IF nput + 1 >= NMESG THEN 0 ELSE nput + 1
      /\ due' = Append(due, Ring!Message(c))
      /\ UNCHANGED <<rmutex, nempty, nstored, noverflowmutex, noverflow, msgdata, i, offset, overtaken>>
  BY DEF Ring!Advance, Ring!semaphores
<1>2. /\ rpc[c] = "advance" /\ rpc' = [rpc EXCEPT ![c] = "unlock"] /\ DOMAIN rpc = Clients
      /\ UNCHANGED <<killed, readerpc, nread, wrong>>
  BY <1>1 DEF RingInv, RingShapes, Ring!Step
<1>3. OneInPut'
  BY <1>1, PutAlone DEF PutRegion
<1>4. OneInOverflow'
  BY <1>1, OverflowAlone DEF OverflowRegion
<1>5. i[c] < messages /\ offset[c] = nput
  BY <1>2 DEF RingInv, RingClients
<1>6. Ring!Message(c) \in Ring!Messages
  <2>1. i[c] \in 0..messages-1
    BY <1>5, RingConstants DEF RingInv, RingShapes
  <2> QED BY <2>1 DEF Ring!Message, Ring!Messages
<1>7. /\ Len(due) \in Nat /\ Len(due') = Len(due) + 1 /\ due' \in Seq(Ring!Messages)
      /\ due'[Len(due) + 1] = Ring!Message(c) /\ \A m \in 1..Len(due) : due'[m] = due[m]
  <2>1. due \in Seq(Ring!Messages)
    BY DEF RingInv, RingShapes
  <2> QED BY <1>1, <1>6, <2>1, AppendProperties, LenProperties
<1>8. nput' = (nread + Len(due) + 1) % NMESG /\ nread + Len(due) + 1 \in Nat
  <2>1. nread + Len(due) \in Nat /\ nput = (nread + Len(due)) % NMESG
    BY <1>7 DEF RingInv, RingShapes, RingCounts
  <2>2. PICK n \in Nat : n = nread + Len(due)
    BY <2>1
  <2>3. nput' = (n + 1) % NMESG
    BY <1>1, <2>1, <2>2, NextSlot
  <2> QED BY <2>2, <2>3
<1>9. RingShapes'
  <2>1. nput' \in Ring!Slots
    BY <1>8, SlotInRing
  <2>2. rpc' \in [Clients -> {"trywait", "o_lock", "o_add", "o_unlock", "lock", "take",
                             "advance", "unlock", "copy1", "copy2", "post", "done"}]
    BY <1>2 DEF RingInv, RingShapes
  <2> QED BY <1>1, <1>2, <1>7, <2>1, <2>2 DEF RingInv, RingShapes
<1>10. \A d \in Clients : /\ rpc'[d] \notin {"trywait", "done"} => i'[d] < messages
                          /\ rpc'[d] = "advance" => offset'[d] = nput'
  <2>1. \A d \in Clients : rpc'[d] # "advance"
    BY <1>2 DEF RingInv, RingClients, OneInPut, PutRegion
  <2> QED BY <1>1, <1>2, <1>5, <2>1 DEF RingInv, RingClients
<1>11. /\ Ring!HasSlot' = Ring!HasSlot \cup {c} /\ Ring!InHand' = Ring!InHand
       /\ Cardinality(Ring!HasSlot)' = Cardinality(Ring!HasSlot) + 1
  BY <1>1, SlotMoves, HandMoves DEF HandPlaces, SlotPlaces, RingInv
<1>12. Posted' = Posted
  BY <1>1, <1>2 DEF Posted
<1>13. Posted \in Nat /\ Posted <= Len(due) /\ Cardinality(Ring!HasSlot) \in Nat
  BY DueFits, HandIsMore DEF RingInv
<1>14. RingCounts'
  <2>1. Len(due') = Posted' + Cardinality(Ring!HasSlot)'
    BY <1>7, <1>11, <1>12, <1>13 DEF RingInv, RingCounts
  <2>2. nput' = (nread' + Len(due')) % NMESG
    <3>1. nread \in Nat
      BY DEF RingInv, RingShapes
    <3>2. nread + (Len(due) + 1) = nread + Len(due) + 1
      BY <3>1, <1>7
    <3> QED BY <1>2, <1>7, <1>8, <3>2
  <2>3. nempty' + nstored' + Cardinality(Ring!InHand)' + (IF readerpc' = "wait" THEN 0 ELSE 1) = NMESG
    BY <1>1, <1>2, <1>11 DEF RingInv, RingCounts
  <2> QED BY <2>1, <2>2, <2>3 DEF RingCounts
<1>15. ~overtaken' => (Unposted /\ Copied)'
  <2> SUFFICES ASSUME ~overtaken PROVE (Unposted /\ Copied)'
    BY <1>1
  <2>1. Unposted /\ Copied
    BY DEF RingInv
  <2>2. \A m : SlotOf(m)' = SlotOf(m)
    BY <1>2 DEF SlotOf
  <2>3. \A d : Ring!Message(d)' = Ring!Message(d)
    BY <1>1 DEF Ring!Message
  <2>4. offset[c] = SlotOf(Len(due) + 1)
    <3>1. nread \in Nat /\ nput = (nread + Len(due)) % NMESG
      BY DEF RingInv, RingShapes, RingCounts
    <3>2. nread + (Len(due) + 1) - 1 = nread + Len(due)
      BY <1>7, <3>1
    <3> QED BY <1>5, <3>1, <3>2 DEF SlotOf
  <2>5. ASSUME NEW m \in Posted' + 1 .. Len(due')
        PROVE  \E d \in Ring!HasSlot' : due'[m] = Ring!Message(d)' /\ offset'[d] = SlotOf(m)'
    <3>1. CASE m = Len(due) + 1
      BY <1>1, <1>7, <1>11, <2>2, <2>3, <2>4, <3>1
    <3>2. CASE m \in Posted + 1 .. Len(due)
      <4>1. PICK d \in Ring!HasSlot : due[m] = Ring!Message(d) /\ offset[d] = SlotOf(m)
        BY <2>1, <3>2 DEF Unposted
      <4>2. due'[m] = due[m]
        BY <1>7, <1>13, <3>2
      <4> QED BY <1>1, <1>11, <2>2, <2>3, <4>1, <4>2
    <3> QED BY <1>7, <1>12, <1>13, <3>1, <3>2
  <2>6. ASSUME NEW d \in Ring!HasSlot'
        PROVE  \E m \in Posted' + 1 .. Len(due') : due'[m] = Ring!Message(d)' /\ offset'[d] = SlotOf(m)'
    <3>1. CASE d = c
      <4>1. Len(due) + 1 \in Posted' + 1 .. Len(due')
        BY <1>7, <1>12, <1>13
      <4> QED BY <1>1, <1>7, <2>2, <2>3, <2>4, <3>1, <4>1
    <3>2. CASE d \in Ring!HasSlot
      <4>1. PICK m \in Posted + 1 .. Len(due) : due[m] = Ring!Message(d) /\ offset[d] = SlotOf(m)
        BY <2>1, <3>2 DEF Unposted
      <4>2. due'[m] = due[m] /\ m \in Posted' + 1 .. Len(due')
        BY <1>7, <1>12, <1>13
      <4> QED BY <1>1, <2>2, <2>3, <4>1, <4>2
    <3> QED BY <1>11, <3>1, <3>2
  <2>7. Unposted'
    BY <2>5, <2>6 DEF Unposted
  <2>8. Copied'
    <3>1. \A m \in 1..Posted' : due'[m] = due[m]
      BY <1>7, <1>12, <1>13
    <3>2. \A m \in 1..Posted' : msgdata'[SlotOf(m)'] = <<due'[m], due'[m]>>
      BY <1>1, <1>12, <2>1, <2>2, <3>1 DEF Copied
    <3>3. \A d \in Clients : rpc'[d] \in {"copy2", "post"} => rpc'[d] = rpc[d]
      BY <1>2
    <3> QED BY <1>1, <1>2, <2>1, <2>3, <3>2, <3>3 DEF Copied
  <2> QED BY <2>7, <2>8
<1> QED BY <1>3, <1>4, <1>9, <1>10, <1>14, <1>15 DEF RingInv, RingClients

\* The slots of clients differ from one another and from those of posted messages.
LEMMA OwnSlots ==
  ASSUME RingInv, ~overtaken
  PROVE  /\ \A c, d \in Ring!HasSlot : c # d => offset[c] # offset[d]
         /\ \A c \in Ring!HasSlot, m \in 1..Posted : offset[c] # SlotOf(m)
<1>1. /\ Posted \in Nat /\ Len(due) \in Nat /\ Posted <= Len(due)
      /\ \A m, n \in 1..Len(due) : SlotOf(m) = SlotOf(n) => m = n
  BY DueFits DEF RingInv
<1>2. \A c \in Ring!HasSlot : \E m \in Posted + 1 .. Len(due) :
         due[m] = Ring!Message(c) /\ offset[c] = SlotOf(m)
  BY DEF RingInv, Unposted
<1>3. ASSUME NEW c \in Ring!HasSlot, NEW d \in Ring!HasSlot, offset[c] = offset[d] PROVE c = d
  <2>1. PICK m \in Posted + 1 .. Len(due) : due[m] = Ring!Message(c) /\ offset[c] = SlotOf(m)
    BY <1>2
  <2>2. PICK n \in Posted + 1 .. Len(due) : due[n] = Ring!Message(d) /\ offset[d] = SlotOf(n)
    BY <1>2
  <2>3. m \in 1..Len(due) /\ n \in 1..Len(due)
    <3>1. Posted \in Nat /\ Len(due) \in Nat
      BY <1>1
    <3> QED BY ONLY <3>1, m \in Posted + 1 .. Len(due), n \in Posted + 1 .. Len(due)
  <2>4. m = n
    BY <1>1, <1>3, <2>1, <2>2, <2>3
  <2> QED BY <2>1, <2>2, <2>4 DEF Ring!Message
<1>4. ASSUME NEW c \in Ring!HasSlot, NEW k \in 1..Posted PROVE offset[c] # SlotOf(k)
  <2>1. PICK m \in Posted + 1 .. Len(due) : offset[c] = SlotOf(m)
    BY <1>2
  <2> QED BY <1>1, <2>1
<1> QED BY <1>3, <1>4

LEMMA CopyKeeps ==
  ASSUME RingInv, NEW c \in Clients, NEW half \in {1, 2}, Ring!Copy(c, half) PROVE RingInv'
<1>0. /\ msgdata' = [msgdata EXCEPT ![offset[c]][half] = Ring!Message(c)]
      /\ UNCHANGED <<rmutex, nempty, nstored, noverflowmutex, nput, noverflow, i, offset, due, overtaken>>
  BY DEF Ring!Copy, Ring!semaphores
<1>1. PICK from, to \in {"copy1", "copy2", "post"} :
        /\ Ring!Step(c, from, to)
        /\ \/ half = 1 /\ from = "copy1" /\ to = "copy2"
           \/ half = 2 /\ from = "copy2" /\ to = "post"
  <2>1. half = 1 => <<"copy1", "copy2">>[half] = "copy1" /\ <<"copy2", "post">>[half] = "copy2"
    OBVIOUS
  <2>2. half = 2 => <<"copy1", "copy2">>[half] = "copy2" /\ <<"copy2", "post">>[half] = "post"
    OBVIOUS
  <2> QED BY <2>1, <2>2 DEF Ring!Copy
<1>2. /\ rpc[c] = from /\ rpc' = [rpc EXCEPT ![c] = to] /\ DOMAIN rpc = Clients
      /\ UNCHANGED <<killed, readerpc, nread, wrong>>
  BY <1>0, <1>1 DEF RingInv, RingShapes, Ring!Step
<1>3. OneInPut'
  BY <1>0, <1>1, PutAlone DEF PutRegion
<1>4. OneInOverflow'
  BY <1>0, <1>1, OverflowAlone DEF OverflowRegion
<1>5. i[c] < messages /\ c \in Ring!HasSlot
  BY <1>2 DEF RingInv, RingClients, Ring!HasSlot, Ring!At
<1>6. Ring!Message(c) \in Ring!Messages
  <2>1. i[c] \in 0..messages-1
    BY <1>5, RingConstants DEF RingInv, RingShapes
  <2> QED BY <2>1 DEF Ring!Message, Ring!Messages
<1>7. PICK s \in Ring!Slots : s = offset[c]
  BY DEF RingInv, RingShapes
<1>8. PICK x \in Ring!Messages : x = Ring!Message(c)
  BY <1>6
<1>9. /\ msgdata' \in [Ring!Slots -> (Ring!Messages \cup {Ring!Nothing}) \X (Ring!Messages \cup {Ring!Nothing})]
      /\ \A t \in Ring!Slots \ {s} : msgdata'[t] = msgdata[t]
      /\ msgdata'[s][half] = x /\ \A h \in {1, 2} \ {half} : msgdata'[s][h] = msgdata[s][h]
  <2>1. PICK M : M = Ring!Messages \cup {Ring!Nothing}
    OBVIOUS
  <2>2. x \in M /\ msgdata \in [Ring!Slots -> M \X M] /\ msgdata' = [msgdata EXCEPT ![s][half] = x]
    BY <1>0, <1>1, <1>7, <1>8, <2>1 DEF RingInv, RingShapes
  <2>3. /\ msgdata' \in [Ring!Slots -> M \X M]
        /\ \A t \in Ring!Slots \ {s} : msgdata'[t] = msgdata[t]
        /\ msgdata'[s][half] = x /\ \A h \in {1, 2} \ {half} : msgdata'[s][h] = msgdata[s][h]
    BY ONLY <2>2, <1>7, half \in {1, 2}
  <2> QED BY <2>1, <2>3
<1>10. RingShapes'
  <2>1. rpc' \in [Clients -> {"trywait", "o_lock", "o_add", "o_unlock", "lock", "take",
                             "advance", "unlock", "copy1", "copy2", "post", "done"}]
    BY <1>0, <1>1, <1>2 DEF RingInv, RingShapes
  <2> QED BY <1>0, <1>1, <1>2, <1>9, <2>1 DEF RingInv, RingShapes
<1>11. \A d \in Clients : /\ rpc'[d] \notin {"trywait", "done"} => i'[d] < messages
                          /\ rpc'[d] = "advance" => offset'[d] = nput'
  BY <1>0, <1>1, <1>2, <1>5 DEF RingInv, RingClients
<1>12. Ring!HasSlot' = Ring!HasSlot /\ Posted' = Posted /\ RingCounts'
  BY <1>0, <1>1, RingStays DEF HandPlaces, SlotPlaces
<1>13. ~overtaken' => (Unposted /\ Copied)'
  <2> SUFFICES ASSUME ~overtaken PROVE (Unposted /\ Copied)'
    BY <1>0, <1>1
  <2>1. Unposted /\ Copied
    BY DEF RingInv
  <2>2. \A m : SlotOf(m)' = SlotOf(m)
    BY <1>2 DEF SlotOf
  <2>3. \A d : Ring!Message(d)' = Ring!Message(d)
    BY <1>0, <1>1 DEF Ring!Message
  <2>4. Unposted'
    BY <1>0, <1>1, <1>12, <2>1, <2>2, <2>3 DEF Unposted
  <2>5. ASSUME NEW m \in 1..Posted PROVE msgdata'[SlotOf(m)'] = <<due'[m], due'[m]>>
    <3>1. SlotOf(m) # s
      BY <1>5, <1>7, OwnSlots
    <3>2. SlotOf(m) \in Ring!Slots
      <4>1. nread + m - 1 \in Nat
        BY DueFits DEF RingInv, RingShapes
      <4> QED BY <4>1, SlotInRing DEF SlotOf
    <3> QED BY <1>0, <1>1, <1>9, <2>1, <2>2, <3>1, <3>2 DEF Copied
  <2>6. ASSUME NEW d \in Clients
        PROVE  /\ rpc'[d] \in {"copy2", "post"} => msgdata'[offset'[d]][1] = Ring!Message(d)'
               /\ rpc'[d] = "post" => msgdata'[offset'[d]][2] = Ring!Message(d)'
    <3>1. CASE d = c
      BY <1>0, <1>1, <1>2, <1>7, <1>8, <1>9, <2>1, <2>3, <3>1 DEF Copied
    <3>2. CASE d # c
      <4>1. SUFFICES ASSUME rpc'[d] \in {"copy2", "post"} PROVE msgdata'[offset'[d]] = msgdata[offset[d]]
        BY <1>2, <2>1, <2>3, <3>2 DEF Copied
      <4>2. d \in Ring!HasSlot
        BY <1>2, <3>2, <4>1 DEF Ring!HasSlot, Ring!At
      <4>3. offset[d] # s /\ offset[d] \in Ring!Slots
        BY <1>5, <1>7, <3>2, <4>2, OwnSlots DEF RingInv, RingShapes
      <4> QED BY <1>0, <1>1, <1>9, <4>3
    <3> QED BY <3>1, <3>2
  <2>7. Copied'
    BY <1>2, <1>12, <2>1, <2>5, <2>6 DEF Copied
  <2> QED BY <2>4, <2>7
<1> QED BY <1>3, <1>4, <1>10, <1>11, <1>12, <1>13 DEF RingInv, RingClients

\* If nobody is overtaken, the first message that is not posted is posted.
LEMMA PostsFirst ==
  ASSUME RingInv, ~overtaken, NEW c \in Ring!HasSlot, ~Ring!Overtakes(c)
  PROVE  /\ Posted + 1 \in Posted + 1 .. Len(due)
         /\ due[Posted + 1] = Ring!Message(c) /\ offset[c] = SlotOf(Posted + 1)
<1>1. /\ Posted \in Nat /\ Len(due) \in Nat /\ Posted <= Len(due) /\ DOMAIN due = 1..Len(due)
  BY DueFits, LenProperties DEF RingInv, RingShapes
<1>2. PICK n \in Posted + 1 .. Len(due) : due[n] = Ring!Message(c) /\ offset[c] = SlotOf(n)
  BY DEF RingInv, Unposted
<1>3. Posted + 1 \in Posted + 1 .. Len(due) /\ Posted + 1 \in DOMAIN due /\ n \in DOMAIN due
  BY <1>1, <1>2
<1>4. PICK d \in Ring!HasSlot : due[Posted + 1] = Ring!Message(d)
  BY <1>3 DEF RingInv, Unposted
<1>5. ~(Posted + 1 < n)
  BY <1>2, <1>3, <1>4 DEF Ring!Overtakes
<1>6. n = Posted + 1
  BY <1>1, <1>2, <1>5
<1> QED BY <1>2, <1>3, <1>6

LEMMA PostKeeps ==
  ASSUME RingInv, NEW c \in Clients, Ring!Post(c) PROVE RingInv'
<1>1. /\ Ring!Step(c, "post", "trywait")
      /\ nstored' = nstored + 1
      /\ i' = [i EXCEPT ![c] = @ + 1]
      /\ overtaken' = (overtaken \/ Ring!Overtakes(c))
      /\ UNCHANGED <<rmutex, nempty, noverflowmutex, nput, noverflow, msgdata, offset, due>>
  BY DEF Ring!Post
<1>2. /\ rpc[c] = "post" /\ rpc' = [rpc EXCEPT ![c] = "trywait"] /\ DOMAIN rpc = Clients
      /\ DOMAIN i = Clients
      /\ UNCHANGED <<killed, readerpc, nread, wrong>>
  BY <1>1 DEF RingInv, RingShapes, Ring!Step
<1>3. OneInPut'
  BY <1>1, PutAlone DEF PutRegion
<1>4. OneInOverflow'
  BY <1>1, OverflowAlone DEF OverflowRegion
<1>5. i[c] < messages /\ c \in Ring!HasSlot
  BY <1>2 DEF RingInv, RingClients, Ring!HasSlot, Ring!At
<1>6. RingShapes'
  <2>1. i \in [Clients -> 0..messages] /\ nstored \in Nat /\ overtaken \in BOOLEAN
    BY DEF RingInv, RingShapes
  <2>2. i' \in [Clients -> 0..messages] /\ nstored' \in Nat
    BY <1>1, <1>5, <2>1, RingConstants
  <2>3. rpc' \in [Clients -> {"trywait", "o_lock", "o_add", "o_unlock", "lock", "take",
                             "advance", "unlock", "copy1", "copy2", "post", "done"}]
    BY <1>2 DEF RingInv, RingShapes
  <2>4. overtaken' \in BOOLEAN
    BY <1>1, <2>1 DEF Ring!Overtakes
  <2> QED BY <1>1, <1>2, <2>2, <2>3, <2>4 DEF RingInv, RingShapes
<1>7. \A d \in Clients : /\ rpc'[d] \notin {"trywait", "done"} => i'[d] < messages
                         /\ rpc'[d] = "advance" => offset'[d] = nput'
  BY <1>1, <1>2 DEF RingInv, RingClients
<1>8. /\ Ring!HasSlot' = Ring!HasSlot \ {c}
      /\ Cardinality(Ring!HasSlot)' = Cardinality(Ring!HasSlot) - 1
      /\ Cardinality(Ring!InHand)' = Cardinality(Ring!InHand) - 1
      /\ Cardinality(Ring!HasSlot) \in Nat /\ Cardinality(Ring!InHand) \in Nat
  BY <1>1, SlotMoves, HandMoves, HandIsMore DEF HandPlaces, SlotPlaces, RingInv
<1>9. Posted' = Posted + 1 /\ Posted \in Nat /\ Len(due) \in Nat /\ Posted <= Len(due)
  <2>1. nstored \in Nat
    BY DEF RingInv, RingShapes
  <2>2. Posted' = Posted + 1
    BY <1>1, <1>2, <2>1 DEF Posted
  <2> QED BY <2>2, DueFits DEF RingInv
<1>10. RingCounts'
  <2>1. Len(due') = Posted' + Cardinality(Ring!HasSlot)'
    BY <1>1, <1>8, <1>9 DEF RingInv, RingCounts
  <2>2. nempty' + nstored' + Cardinality(Ring!InHand)' + (IF readerpc' = "wait" THEN 0 ELSE 1) = NMESG
    <3>1. nempty + nstored + Cardinality(Ring!InHand) + (IF readerpc = "wait" THEN 0 ELSE 1) = NMESG
      BY DEF RingInv, RingCounts
    <3>2. nempty \in Nat /\ nstored \in Nat /\ NMESG \in Nat
      BY RingConstants DEF RingInv, RingShapes
    <3>3. CASE readerpc = "wait"
      BY <1>1, <1>2, <1>8, <3>1, <3>2, <3>3
    <3>4. CASE readerpc # "wait"
      BY <1>1, <1>2, <1>8, <3>1, <3>2, <3>4
    <3> QED BY <3>3, <3>4
  <2>3. nput' = (nread' + Len(due')) % NMESG
    BY <1>1, <1>2 DEF RingInv, RingCounts
  <2> QED BY <2>1, <2>2, <2>3 DEF RingCounts
<1>11. ~overtaken' => (Unposted /\ Copied)'
  <2> SUFFICES ASSUME ~overtaken, ~Ring!Overtakes(c) PROVE (Unposted /\ Copied)'
    BY <1>1
  <2>1. Unposted /\ Copied
    BY DEF RingInv
  <2>2. \A m : SlotOf(m)' = SlotOf(m)
    BY <1>2 DEF SlotOf
  <2>3. \A d \in Clients \ {c} : Ring!Message(d)' = Ring!Message(d)
    BY <1>1, <1>2 DEF Ring!Message
  <2>4. /\ Posted + 1 \in Posted + 1 .. Len(due)
        /\ due[Posted + 1] = Ring!Message(c) /\ offset[c] = SlotOf(Posted + 1)
    BY <1>5, PostsFirst
  <2>5. Ring!HasSlot \subseteq Clients
    BY DEF Ring!HasSlot, Ring!At
  <2>6. ASSUME NEW m \in Posted' + 1 .. Len(due')
        PROVE  \E d \in Ring!HasSlot' : due'[m] = Ring!Message(d)' /\ offset'[d] = SlotOf(m)'
    <3>1. m \in Posted + 1 .. Len(due) /\ m # Posted + 1
      BY <1>1, <1>9
    <3>2. PICK d \in Ring!HasSlot : due[m] = Ring!Message(d) /\ offset[d] = SlotOf(m)
      BY <2>1, <3>1 DEF Unposted
    <3>3. d # c
      <4>1. m \in 1..Len(due) /\ Posted + 1 \in 1..Len(due)
        BY <1>9, <2>4, <3>1
      <4> QED BY <2>4, <3>1, <3>2, <4>1, DueFits DEF RingInv
    <3> QED BY <1>1, <1>8, <2>2, <2>3, <2>5, <3>2, <3>3
  <2>7. ASSUME NEW d \in Ring!HasSlot'
        PROVE  \E m \in Posted' + 1 .. Len(due') : due'[m] = Ring!Message(d)' /\ offset'[d] = SlotOf(m)'
    <3>1. d \in Ring!HasSlot /\ d # c
      BY <1>8
    <3>2. PICK m \in Posted + 1 .. Len(due) : due[m] = Ring!Message(d) /\ offset[d] = SlotOf(m)
      BY <2>1, <3>1 DEF Unposted
    <3>3. m # Posted + 1
      BY <2>4, <3>1, <3>2 DEF Ring!Message
    <3>4. m \in Posted' + 1 .. Len(due')
      BY <1>1, <1>9, <3>3
    <3> QED BY <1>1, <2>2, <2>3, <2>5, <3>1, <3>2, <3>4
  <2>8. Unposted'
    BY <2>6, <2>7 DEF Unposted
  <2>9. ASSUME NEW m \in 1..Posted' PROVE msgdata'[SlotOf(m)'] = <<due'[m], due'[m]>>
    <3>1. CASE m \in 1..Posted
      BY <1>1, <2>1, <2>2, <3>1 DEF Copied
    <3>2. CASE m = Posted + 1
      <4>1. msgdata[SlotOf(m)][1] = due[m] /\ msgdata[SlotOf(m)][2] = due[m]
        BY <1>2, <2>1, <2>4, <3>2 DEF Copied
      <4>2. SlotOf(m) \in Ring!Slots
        BY <1>5, <2>4, <2>5, <3>2 DEF RingInv, RingShapes
      <4>3. \E S : msgdata[SlotOf(m)] \in S \X S
        BY <4>2 DEF RingInv, RingShapes
      <4>4. msgdata[SlotOf(m)] = <<due[m], due[m]>>
        BY ONLY <4>1, <4>3
      <4> QED BY <1>1, <2>2, <4>4
    <3> QED BY <1>9, <3>1, <3>2
  <2>10. \A d \in Clients : rpc'[d] \in {"copy2", "post"} => d # c /\ rpc'[d] = rpc[d]
    BY <1>2
  <2>11. Copied'
    BY <1>1, <1>2, <2>1, <2>3, <2>9, <2>10 DEF Copied
  <2> QED BY <2>8, <2>11
<1> QED BY <1>3, <1>4, <1>6, <1>7, <1>10, <1>11 DEF RingInv, RingClients

LEMMA KillKeeps ==
  ASSUME RingInv, NEW c \in Clients, Ring!Kill(c) PROVE RingInv'
<1>1. /\ killed' = killed \cup {c}
      /\ UNCHANGED <<rmutex, nempty, nstored, noverflowmutex, nput, noverflow, msgdata, rpc, i,
                     offset, readerpc, nread, due, wrong, overtaken>>
  BY DEF Ring!Kill, Ring!semaphores, Ring!observed
<1>2. RingShapes' /\ RingClients'
  BY <1>1 DEF RingInv, RingShapes, RingClients, OneInPut, OneInOverflow
<1>3. Ring!HasSlot' = Ring!HasSlot /\ Ring!InHand' = Ring!InHand /\ Posted' = Posted
  BY <1>1 DEF Ring!HasSlot, Ring!InHand, Ring!At, Posted
<1>4. RingCounts'
  BY <1>1, <1>3 DEF RingInv, RingCounts
<1>5. ~overtaken' => (Unposted /\ Copied)'
  BY <1>1, <1>3, QueueKept
<1> QED BY <1>2, <1>4, <1>5 DEF RingInv

LEMMA ReaderKeeps ==
  ASSUME RingInv, Ring!ReaderWait \/ Ring!ReaderPost PROVE RingInv'
<1>1. /\ \/ /\ readerpc = "wait" /\ readerpc' = "read"
            /\ nstored > 0 /\ nstored' = nstored - 1 /\ nempty' = nempty
         \/ /\ readerpc = "post" /\ readerpc' = "wait"
            /\ nstored' = nstored /\ nempty' = nempty + 1
      /\ UNCHANGED <<rmutex, noverflowmutex, nput, noverflow, msgdata, rpc, i,
                     offset, killed, nread, due, wrong, overtaken>>
  BY DEF Ring!ReaderWait, Ring!ReaderPost, Ring!ReaderStep
<1>2. RingShapes' /\ RingClients'
  BY <1>1 DEF RingInv, RingShapes, RingClients, OneInPut, OneInOverflow
<1>3. Ring!HasSlot' = Ring!HasSlot /\ Ring!InHand' = Ring!InHand
  BY <1>1 DEF Ring!HasSlot, Ring!InHand, Ring!At
<1>4. nstored \in Nat /\ nempty \in Nat /\ Cardinality(Ring!InHand) \in Nat
  BY HandIsMore DEF RingInv, RingShapes
<1>5. Posted' = Posted
  BY <1>1, <1>4 DEF Posted
<1>6. RingCounts'
  <2>1. nempty + nstored + Cardinality(Ring!InHand) + (IF readerpc = "wait" THEN 0 ELSE 1) = NMESG
    BY DEF RingInv, RingCounts
  <2>2. nempty' + nstored' + Cardinality(Ring!InHand)' + (IF readerpc' = "wait" THEN 0 ELSE 1) = NMESG
    BY <1>1, <1>3, <1>4, <2>1
  <2> QED BY <1>1, <1>3, <1>5, <2>2 DEF RingInv, RingCounts
<1>7. ~overtaken' => (Unposted /\ Copied)'
  BY <1>1, <1>3, <1>5, QueueKept
<1> QED BY <1>2, <1>6, <1>7 DEF RingInv

LEMMA ReadKeeps ==
  ASSUME RingInv, Ring!ReaderRead PROVE RingInv'
<1>1. /\ readerpc = "read" /\ readerpc' = "post" /\ nread' = nread + 1
      /\ wrong' = (wrong \/ msgdata[nread % NMESG] # <<Head(due), Head(due)>>)
      /\ due' = Tail(due)
      /\ UNCHANGED <<rmutex, nempty, nstored, noverflowmutex, nput, noverflow, msgdata, rpc, i,
                     offset, killed, overtaken>>
  BY DEF Ring!ReaderRead, Ring!ReaderStep
<1>2. /\ nread \in Nat /\ nstored \in Nat /\ Posted = nstored + 1 /\ Posted' = nstored
      /\ Len(due) \in Nat /\ Posted <= Len(due)
  BY <1>1, DueFits DEF RingInv, RingShapes, Posted
<1>3. due \in Seq(Ring!Messages) /\ due # <<>>
  BY <1>2 DEF RingInv, RingShapes
<1>4. /\ Head(due) = due[1] /\ due' \in Seq(Ring!Messages) /\ Len(due') = Len(due) - 1
      /\ \A m \in 1..Len(due') : due'[m] = due[m + 1]
  BY <1>1, <1>3, RestOfSeq
<1>5. RingShapes'
  <2>1. wrong' \in BOOLEAN
    BY <1>1 DEF RingInv, RingShapes
  <2> QED BY <1>1, <1>2, <1>4, <2>1 DEF RingInv, RingShapes
<1>6. RingClients'
  BY <1>1 DEF RingInv, RingClients, OneInPut, OneInOverflow
<1>7. Ring!HasSlot' = Ring!HasSlot /\ Ring!InHand' = Ring!InHand
  BY <1>1 DEF Ring!HasSlot, Ring!InHand, Ring!At
<1>8. RingCounts'
  <2>1. Len(due') = Posted' + Cardinality(Ring!HasSlot)'
    BY <1>2, <1>4, <1>7, HandIsMore DEF RingInv, RingCounts
  <2>2. nread' + Len(due') = nread + Len(due)
    BY <1>1, <1>2, <1>4
  <2>3. nput' = (nread' + Len(due')) % NMESG
    BY <1>1, <2>2 DEF RingInv, RingCounts
  <2> QED BY <1>1, <1>7, <2>1, <2>3 DEF RingInv, RingCounts
<1>9. ~overtaken' => (Unposted /\ Copied)'
  <2> SUFFICES ASSUME ~overtaken PROVE (Unposted /\ Copied)'
    BY <1>1
  <2>1. Unposted /\ Copied
    BY DEF RingInv
  <2>2. ASSUME NEW m \in Nat PROVE SlotOf(m)' = SlotOf(m + 1)
    <3>1. nread + 1 + m - 1 = nread + (m + 1) - 1
      BY <1>2
    <3> QED BY <1>1, <3>1 DEF SlotOf
  <2>3. \A d : Ring!Message(d)' = Ring!Message(d)
    BY <1>1 DEF Ring!Message
  <2>4. ASSUME NEW m \in Posted' + 1 .. Len(due')
        PROVE  \E d \in Ring!HasSlot' : due'[m] = Ring!Message(d)' /\ offset'[d] = SlotOf(m)'
    <3>1. m \in Nat /\ m + 1 \in Posted + 1 .. Len(due) /\ due'[m] = due[m + 1]
      BY <1>2, <1>4
    <3>2. PICK d \in Ring!HasSlot : due[m + 1] = Ring!Message(d) /\ offset[d] = SlotOf(m + 1)
      BY <2>1, <3>1 DEF Unposted
    <3> QED BY <1>1, <1>7, <2>2, <2>3, <3>1, <3>2
  <2>5. ASSUME NEW d \in Ring!HasSlot'
        PROVE  \E m \in Posted' + 1 .. Len(due') : due'[m] = Ring!Message(d)' /\ offset'[d] = SlotOf(m)'
    <3>1. PICK n \in Posted + 1 .. Len(due) : due[n] = Ring!Message(d) /\ offset[d] = SlotOf(n)
      BY <1>7, <2>1 DEF Unposted
    <3>2. PICK m \in Posted' + 1 .. Len(due') : n = m + 1
      <4>1. n - 1 \in Posted' + 1 .. Len(due') /\ n = (n - 1) + 1
        BY <1>2, <1>4
      <4> QED BY <4>1
    <3>3. m \in Nat /\ due'[m] = due[m + 1]
      BY <1>2, <1>4
    <3> QED BY <1>1, <2>2, <2>3, <3>1, <3>2, <3>3
  <2>6. Unposted'
    BY <2>4, <2>5 DEF Unposted
  <2>7. ~wrong'
    <3>1. nread + 1 - 1 = nread /\ 1 \in 1..Posted
      BY <1>2
    <3>2. msgdata[nread % NMESG] = <<due[1], due[1]>>
      BY <2>1, <3>1 DEF Copied, SlotOf
    <3> QED BY <1>1, <1>4, <2>1, <3>2 DEF Copied
  <2>8. ASSUME NEW m \in 1..Posted' PROVE msgdata'[SlotOf(m)'] = <<due'[m], due'[m]>>
    <3>1. m \in Nat /\ m + 1 \in 1..Posted /\ due'[m] = due[m + 1]
      BY <1>2, <1>4
    <3> QED BY <1>1, <2>1, <2>2, <3>1 DEF Copied
  <2>9. Copied'
    BY <1>1, <2>1, <2>3, <2>7, <2>8 DEF Copied
  <2> QED BY <2>6, <2>9
<1> QED BY <1>5, <1>6, <1>8, <1>9 DEF RingInv

LEMMA RingStep ==
  ASSUME RingInv, Ring!Next PROVE RingInv'
<1>1. ASSUME NEW c \in Clients, Ring!Client(c) PROVE RingInv'
  BY <1>1, TryWaitKeeps, OverflowKeeps, LockKeeps, AdvanceKeeps, CopyKeeps, PostKeeps
     DEF Ring!Client
<1>2. CASE Ring!Reader
  BY <1>2, ReaderKeeps, ReadKeeps DEF Ring!Reader
<1>3. ASSUME NEW c \in Clients, Ring!Kill(c) PROVE RingInv'
  BY <1>3, KillKeeps
<1> QED BY <1>1, <1>2, <1>3 DEF Ring!Next, Ring!Run

LEMMA RingStill ==
  ASSUME RingInv, UNCHANGED ringVars PROVE RingInv'
<1>1. UNCHANGED <<rmutex, nempty, nstored, noverflowmutex, nput, noverflow, msgdata, rpc, i,
                  offset, killed, readerpc, nread, due, wrong, overtaken>>
  BY DEF ringVars
<1>2. RingShapes' /\ RingClients'
  BY <1>1 DEF RingInv, RingShapes, RingClients, OneInPut, OneInOverflow
<1>3. Ring!HasSlot' = Ring!HasSlot /\ Ring!InHand' = Ring!InHand /\ Posted' = Posted
  BY <1>1 DEF Ring!HasSlot, Ring!InHand, Ring!At, Posted
<1>4. RingCounts'
  BY <1>1, <1>3 DEF RingInv, RingCounts
<1>5. ~overtaken' => (Unposted /\ Copied)'
  BY <1>1, <1>3, QueueKept
<1> QED BY <1>2, <1>4, <1>5 DEF RingInv

LEMMA AlwaysRing == MCSpec => []RingInv
<1>1. MCInit => RingInv
  BY RingBegins DEF MCInit
<1>2. RingInv /\ [MCNext]_allVars => RingInv'
  BY RingStep, RingStill DEF MCNext, allVars
<1> QED BY <1>1, <1>2, PTL DEF MCSpec

\* Of any number of clients, killed or not, and for a ring of any size: until one
\* posts nstored before another that has an earlier slot, the reader finds every
\* message whole and in its turn, and no two clients have one slot.
THEOREM InTurn == MCSpec => []SafeInTurn
<1>1. RingInv => SafeInTurn
  BY OwnSlots DEF RingInv, Copied, SafeInTurn, Ring!SafeInTurn
<1> QED BY <1>1, AlwaysRing, PTL

\* What has been stored or was an overflow, and the rounds the clients have done:
\* between noverflow++ and the end of its round a client is counted, and its
\* round is not.
Unlocking == Cardinality(Ring!At({"o_unlock"}))
Rounds == SumFunctionOnSet(i, Clients)
RoundsCounted == noverflow + nread + Posted = Rounds + Unlocking

LEMMA RoundsBegin == Ring!Init => RoundsCounted
<1> SUFFICES ASSUME Ring!Init PROVE RoundsCounted
  OBVIOUS
<1>1. /\ noverflow = 0 /\ nread = 0 /\ nstored = 0 /\ readerpc = "wait"
      /\ \A c \in Clients : i[c] = 0 /\ rpc[c] = "trywait"
  BY DEF Ring!Init
<1>2. Rounds = 0
  BY <1>1, RingConstants, SumOfZeros DEF Rounds
<1>3. Ring!At({"o_unlock"}) = {}
  BY <1>1 DEF Ring!At
<1>4. Unlocking = 0
  BY <1>3, FS_EmptySet DEF Unlocking
<1> QED BY <1>1, <1>2, <1>4 DEF RoundsCounted, Posted

\* A round more, or none.
LEMMA RoundsStep ==
  ASSUME RingShapes
  PROVE  /\ Rounds \in Int
         /\ i' = i => Rounds' = Rounds
         /\ \A c \in Clients : i' = [i EXCEPT ![c] = @ + 1] => Rounds' = Rounds + 1
<1>1. IsFiniteSet(Clients) /\ DOMAIN i = Clients /\ \A x \in Clients : i[x] \in Int
  BY RingConstants DEF RingShapes
<1>2. Rounds \in Int /\ (i' = i => Rounds' = Rounds)
  BY <1>1, SumIsInt DEF Rounds
<1>3. ASSUME NEW c \in Clients, i' = [i EXCEPT ![c] = @ + 1] PROVE Rounds' = Rounds + 1
  <2>1. PICK w, v : w = i /\ v = i'
    OBVIOUS
  <2>2. \A x \in Clients : w[x] \in Int
    BY <1>1, <2>1
  <2>3. v[c] = w[c] + 1 /\ \A x \in Clients \ {c} : v[x] = w[x]
    BY <1>1, <1>3, <2>1
  <2>4. SumFunctionOnSet(v, Clients) = SumFunctionOnSet(w, Clients) + 1
    BY <1>1, <2>2, <2>3, SumGrows
  <2> QED BY <2>1, <2>4 DEF Rounds
<1> QED BY <1>2, <1>3

LEMMA RoundsKept ==
  ASSUME RingInv, RoundsCounted, Ring!Next
  PROVE  RoundsCounted'
<1>1. /\ noverflow \in Nat /\ nread \in Nat /\ nstored \in Nat /\ Posted \in Nat
      /\ RingShapes /\ readerpc \in {"wait", "read", "post"}
  BY DEF RingInv, RingShapes, Posted
<1>2. ASSUME UNCHANGED <<noverflow, nread, i>>, Posted' = Posted, Unlocking' = Unlocking
      PROVE  RoundsCounted'
  BY <1>1, <1>2, RoundsStep DEF RoundsCounted
<1>3. ASSUME NEW c \in Clients, NEW from, NEW to, Ring!Step(c, from, to)
      PROVE  /\ Unlocking \in Nat /\ nread' = nread /\ readerpc' = readerpc
             /\ from # "o_unlock" /\ to # "o_unlock" => Unlocking' = Unlocking
             /\ from # "o_unlock" /\ to = "o_unlock" => Unlocking' = Unlocking + 1
             /\ from = "o_unlock" /\ to # "o_unlock" => Unlocking' = Unlocking - 1
  <2>1. nread' = nread /\ readerpc' = readerpc
    BY <1>3 DEF Ring!Step
  <2> DEFINE places == {"o_unlock"}
  <2>2. /\ from \in places <=> from = "o_unlock"
        /\ to \in places <=> to = "o_unlock"
    OBVIOUS
  <2>3. Unlocking = Cardinality(Ring!At(places)) /\ Unlocking' = Cardinality(Ring!At(places)')
    BY DEF Unlocking
  <2> HIDE DEF places
  <2> QED BY <1>1, <1>3, <2>1, <2>2, <2>3, AtMoves
<1>4. ASSUME NEW c \in Clients,
             Ring!TryWait(c) \/ Ring!OverflowLock(c) \/ Ring!Lock(c) \/ Ring!Take(c) \/ Ring!Advance(c)
             \/ Ring!Unlock(c) \/ Ring!Copy(c, 1) \/ Ring!Copy(c, 2) \/ Ring!Return(c)
      PROVE  RoundsCounted'
  <2>1. /\ UNCHANGED <<noverflow, nstored, i>>
        /\ \E from, to \in {"trywait", "o_lock", "o_add", "lock", "take", "advance", "unlock", "copy1",
                            "copy2", "post", "done"} : Ring!Step(c, from, to)
    BY <1>4 DEF Ring!TryWait, Ring!OverflowLock, Ring!Lock, Ring!Take, Ring!Advance, Ring!Unlock,
                Ring!Copy, Ring!Return, Ring!semaphores
  <2> QED BY <1>2, <1>3, <2>1 DEF Posted
<1>5. ASSUME NEW c \in Clients, Ring!OverflowAdd(c) PROVE RoundsCounted'
  <2>1. Ring!Step(c, "o_add", "o_unlock") /\ noverflow' = noverflow + 1 /\ UNCHANGED <<nstored, i>>
    BY <1>5 DEF Ring!OverflowAdd, Ring!semaphores
  <2>2. Unlocking \in Nat /\ Unlocking' = Unlocking + 1 /\ nread' = nread /\ Posted' = Posted
    BY <1>3, <2>1 DEF Posted
  <2>3. Rounds \in Int /\ Rounds' = Rounds
    BY <1>1, <2>1, RoundsStep
  <2> QED BY ONLY RoundsCounted, <1>1, <2>1, <2>2, <2>3 DEF RoundsCounted
<1>6. ASSUME NEW c \in Clients, Ring!OverflowUnlock(c) PROVE RoundsCounted'
  <2>1. Ring!Step(c, "o_unlock", "trywait") /\ i' = [i EXCEPT ![c] = @ + 1] /\ UNCHANGED <<nstored, noverflow>>
    BY <1>6 DEF Ring!OverflowUnlock
  <2>2. Unlocking \in Nat /\ Unlocking' = Unlocking - 1 /\ nread' = nread /\ Posted' = Posted
    BY <1>3, <2>1 DEF Posted
  <2>3. Rounds \in Int /\ Rounds' = Rounds + 1
    BY <1>1, <2>1, RoundsStep
  <2> QED BY ONLY RoundsCounted, <1>1, <2>1, <2>2, <2>3 DEF RoundsCounted
<1>7. ASSUME NEW c \in Clients, Ring!Post(c) PROVE RoundsCounted'
  <2>1. Ring!Step(c, "post", "trywait") /\ i' = [i EXCEPT ![c] = @ + 1] /\ UNCHANGED noverflow
        /\ nstored' = nstored + 1
    BY <1>7 DEF Ring!Post
  <2>2. Unlocking \in Nat /\ Unlocking' = Unlocking /\ nread' = nread /\ Posted' = Posted + 1
    <3>1. Unlocking \in Nat /\ Unlocking' = Unlocking /\ nread' = nread /\ readerpc' = readerpc
      BY <1>3, <2>1
    <3>2. Posted' = Posted + 1
      BY ONLY <1>1, <2>1, <3>1 DEF Posted
    <3> QED BY <3>1, <3>2
  <2>3. Rounds \in Int /\ Rounds' = Rounds + 1
    BY <1>1, <2>1, RoundsStep
  <2> QED BY ONLY RoundsCounted, <1>1, <2>1, <2>2, <2>3 DEF RoundsCounted
<1>8. CASE Ring!Reader
  <2>1. noverflow' = noverflow /\ i' = i /\ Unlocking' = Unlocking /\ nread' + Posted' = nread + Posted
        /\ nread' \in Nat /\ Posted' \in Nat
    <3>1. /\ UNCHANGED <<noverflow, i, rpc>>
          /\ \/ readerpc = "wait" /\ readerpc' = "read" /\ nread' = nread /\ nstored' = nstored - 1 /\ nstored > 0
             \/ readerpc = "read" /\ readerpc' = "post" /\ nread' = nread + 1 /\ nstored' = nstored
             \/ readerpc = "post" /\ readerpc' = "wait" /\ nread' = nread /\ nstored' = nstored
      BY <1>8 DEF Ring!Reader, Ring!ReaderWait, Ring!ReaderRead, Ring!ReaderPost, Ring!ReaderStep
    <3>2. Unlocking' = Unlocking
      BY <3>1 DEF Unlocking, Ring!At
    <3>3. nread' + Posted' = nread + Posted /\ nread' \in Nat /\ Posted' \in Nat
      BY ONLY <1>1, <3>1 DEF Posted
    <3> QED BY <3>1, <3>2, <3>3
  <2>2. Unlocking \in Nat
    <3>1. IsFiniteSet(Ring!At({"o_unlock"}))
      BY RingConstants, FS_Subset DEF Ring!At
    <3> QED BY <3>1, FS_CardinalityType DEF Unlocking
  <2>3. Rounds \in Int /\ Rounds' = Rounds
    BY <1>1, <2>1, RoundsStep
  <2>4. PICK a \in Int, b \in Int, n \in Int, p \in Int, q \in Int :
          a = nread /\ b = Posted /\ n = noverflow /\ p = nread' /\ q = Posted'
    BY <1>1, <2>1
  <2>5. p + q = a + b
    BY <2>1, <2>4
  <2>6. n + p + q = n + a + b
    BY ONLY <2>5, a \in Int, b \in Int, n \in Int, p \in Int, q \in Int
  <2>7. noverflow' + nread' + Posted' = noverflow + nread + Posted
    BY <2>1, <2>4, <2>6
  <2> QED BY ONLY RoundsCounted, <2>1, <2>3, <2>7 DEF RoundsCounted
<1>9. ASSUME NEW c \in Clients, Ring!Kill(c) PROVE RoundsCounted'
  BY <1>2, <1>9 DEF Ring!Kill, Ring!semaphores, Posted, Unlocking, Ring!At
<1> QED BY <1>4, <1>5, <1>6, <1>7, <1>8, <1>9 DEF Ring!Next, Ring!Run, Ring!Client

LEMMA RoundsStill ==
  ASSUME RoundsCounted, UNCHANGED ringVars PROVE RoundsCounted'
BY DEF ringVars, RoundsCounted, Rounds, Unlocking, Posted, Ring!At

LEMMA AlwaysCounted == MCSpec => []RoundsCounted
<1>1. MCInit => RoundsCounted
  BY RoundsBegin DEF MCInit
<1>2. RingInv /\ RoundsCounted /\ [MCNext]_allVars => RoundsCounted'
  BY RoundsKept, RoundsStill DEF MCNext, allVars
<1> QED BY <1>1, <1>2, AlwaysRing, PTL DEF MCSpec

\* Of any number of clients, killed or not, and for a ring of any size: no slot is
\* lost or has two owners, and the messages stored and read and the overflows add
\* up to the rounds the clients have done.
THEOREM MessagesAreCounted == MCSpec => []EveryMessageCounts
<1>1. ASSUME RingInv, RoundsCounted PROVE EveryMessageCounts
  <2>1. DOMAIN i = Clients
    BY <1>1 DEF RingInv, RingShapes
  <2>2. Rounds = Ring!FoldFunction(+, 0, i)
    BY <2>1 DEF Rounds, SumFunctionOnSet, FoldFunctionOnSet, MapThenFoldSet,
                Ring!FoldFunction, Ring!FoldFunctionOnSet, Ring!MapThenFoldSet
  <2>3. /\ Ring!Cardinality(Ring!At({"o_unlock"})) = Cardinality(Ring!At({"o_unlock"}))
        /\ Ring!Cardinality(Ring!InHand) = Cardinality(Ring!InHand)
    BY DEF Ring!Cardinality, Cardinality
  <2>4. noverflow + nread + Posted = noverflow + nstored + nread + (IF readerpc = "read" THEN 1 ELSE 0)
    BY <1>1 DEF RingInv, RingShapes, Posted
  <2> QED BY <1>1, <2>2, <2>3, <2>4
      DEF RingInv, RingCounts, RoundsCounted, Unlocking, EveryMessageCounts, Ring!EveryMessageCounts
<1> QED BY <1>1, AlwaysRing, AlwaysCounted, PTL

-----------------------------------------------------------------------------
(* All programs                                                             *)

LEMMA AlwaysLocks == MCSpec => [](IInv /\ LockTypes /\ SeqInv)
<1>1. MCInit => IInv /\ LockTypes /\ SeqInv
  BY InitInv, LocksBegin, NothingIncremented DEF MCInit
<1>2. [MCNext]_allVars => [Next]_vars
  BY DEF MCNext, allVars
<1>3. IInv /\ LockTypes /\ SeqInv /\ [MCNext]_allVars => IInv' /\ LockTypes' /\ SeqInv'
  BY <1>2, StepInv, LocksKeepTypes, SeqKept
<1> QED BY <1>1, <1>3, PTL DEF MCSpec

\* Every variable of the four modules keeps its type: a semaphore never has more
\* tokens than it was made with, no counter or place in the ring leaves its range.
THEOREM TypesHold == MCSpec => []TypesOK
<1>1. LockTypes /\ CounterInv => TypeOK /\ Counter!TypeOK
  BY DEF LockTypes, CounterInv
<1>2. RingInv => Ring!TypeOK
  <2>1. RingInv => RingShapes /\ nempty \in 0..NMESG /\ nstored \in 0..NMESG
    BY DueFits DEF RingInv
  <2> QED BY <2>1 DEF RingShapes, Ring!TypeOK
<1>3. SignalsInv => Signals!TypeOK
  BY DEF SignalsInv, SignalTypes, Signos, ChildPlaces, Signals!TypeOK, Signals!Signos
<1> QED BY <1>1, <1>2, <1>3, AlwaysLocks, AlwaysCounter, AlwaysRing, AlwaysSignals, PTL DEF TypesOK

\* No increment is lost: in the file of lockmain for any number of processes, and
\* in each shared counter as long as those that use it share its semaphore, whoever
\* is killed and whatever runs of server1 remove and make again meanwhile.
THEOREM NothingIsLost == MCSpec => []NoIncrementLost
<1>1. LockTypes /\ SeqInv /\ CounterInv /\ MadeInv => NoIncrementLost
  BY SeqnoFollows, CountersFollow DEF NoIncrementLost
<1> QED BY <1>1, AlwaysLocks, AlwaysCounter, AlwaysMade, PTL
=============================================================================
