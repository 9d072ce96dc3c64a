---------------------------- MODULE NamedSemRing ----------------------------
(***************************************************************************)
(* pxsem/prodcons1, prodcons2 and mycat2: one producer thread and one      *)
(* consumer thread share a ring of NBUFF slots and three semaphores.       *)
(*                                                                         *)
(* The semaphores of prodcons1 have names and outlive the program: they    *)
(* are created, or found, by sem_open with O_CREAT but not O_EXCL, and     *)
(* unlinked one by one at the end.  Instances of the program can overlap,  *)
(* follow each other and crash in between.  The semaphores of prodcons2    *)
(* and mycat2 belong to the process.  mycat2 fills and reads the slot      *)
(* after it has posted the mutex again, and ends at the first empty block. *)
(***************************************************************************)
EXTENDS Integers, Sequences, FiniteSets

CONSTANTS
  Instances,  \* runs of the programs
  None,       \* no semaphore
  Programs,   \* the programs that may run
  nitems,     \* items produced; blocks of the file for mycat2
  NBUFF

ASSUME NamedAssumption ==
  /\ IsFiniteSet(Instances)
  /\ None \notin Instances
  /\ Programs \subseteq {"prodcons1", "prodcons2", "mycat2"}
  /\ nitems \in Nat
  /\ NBUFF \in Nat \ {0}

Sems == {"mutex", "nempty", "nstored"}
OpenOrder == <<"mutex", "nempty", "nstored">>

VARIABLES
  prog,          \* what each instance runs
  names,         \* the semaphore that each name refers to, or None
  value,         \* value[s][p] is the value of the semaphore s that p created
  main,          \* main's place in each instance
  next,          \* index in OpenOrder of the semaphore main works on
  sem,           \* sem[p][s] is the instance whose semaphore s p uses
  buff,
  ppc, pi,       \* the producer's place and item number
  cpc, ci,       \* the consumer's
  wrong          \* the consumer took something else than its next item

mainVars == <<names, main, next, sem>>
threadVars == <<buff, ppc, pi, cpc, ci, wrong>>
vars == <<prog, value, mainVars, threadVars>>

\* Mutant: a free slot too many.
InitialValueOneMore(s) ==
  CASE s = "mutex" -> 1 [] s = "nempty" -> NBUFF + 1 [] s = "nstored" -> 0

InitialValue(s) == CASE s = "mutex" -> 1 [] s = "nempty" -> NBUFF [] s = "nstored" -> 0

\* prodcons2 and mycat2 share nothing with other runs: one of them at a time.
FreshBuff == [slot \in 0..NBUFF-1 |-> 0]

Init ==
  /\ prog \in [Instances -> Programs]
  /\ Cardinality({p \in Instances : prog[p] # "prodcons1"}) <= 1
  /\ names = [s \in Sems |-> None]
  /\ value = [s \in Sems |-> [p \in Instances |-> 0]]
  /\ main = [p \in Instances |-> "new"]
  /\ next = [p \in Instances |-> 1]
  /\ sem = [p \in Instances |-> [s \in Sems |-> None]]
  /\ buff = [p \in Instances |-> FreshBuff]
  /\ ppc = [p \in Instances |-> "empty"]
  /\ pi = [p \in Instances |-> 0]
  /\ cpc = [p \in Instances |-> "stored"]
  /\ ci = [p \in Instances |-> 0]
  /\ wrong = [p \in Instances |-> FALSE]

-----------------------------------------------------------------------------
(* main                                                                     *)

Start(p) ==
  /\ main[p] = "new"
  /\ IF prog[p] = "prodcons1"
     THEN /\ main' = [main EXCEPT ![p] = "open"]
          /\ UNCHANGED <<value, sem>>
     ELSE /\ main' = [main EXCEPT ![p] = "join"]
          /\ sem' = [sem EXCEPT ![p] = [s \in Sems |-> p]]
          /\ value' = [s \in Sems |-> [value[s] EXCEPT ![p] = InitialValue(s)]]
  /\ UNCHANGED <<prog, names, next, threadVars>>

\* main is done with one semaphore; after the third it goes on to "then".
Advance(p, then) ==
  IF next[p] < Len(OpenOrder)
  THEN next' = [next EXCEPT ![p] = @ + 1] /\ UNCHANGED main
  ELSE next' = [next EXCEPT ![p] = 1] /\ main' = [main EXCEPT ![p] = then]

\* Mutant: the value is set also when the name exists.
SemOpenSetsValue(p) ==
  /\ main[p] = "open"
  /\ LET s == OpenOrder[next[p]]
         creator == IF names[s] = None THEN p ELSE names[s]
     IN /\ names' = [names EXCEPT ![s] = creator]
        /\ sem' = [sem EXCEPT ![p][s] = creator]
        /\ value' = [value EXCEPT ![s][creator] = InitialValue(s)]
  /\ Advance(p, "join")
  /\ UNCHANGED <<prog, threadVars>>

\* sem_open(name, O_CREAT, mode, value): the value counts only if the name
\* does not exist yet.
SemOpen(p) ==
  /\ main[p] = "open"
  /\ LET s == OpenOrder[next[p]]
     IN IF names[s] = None
        THEN /\ names' = [names EXCEPT ![s] = p]
             /\ sem' = [sem EXCEPT ![p][s] = p]
             /\ value' = [value EXCEPT ![s][p] = InitialValue(s)]
        ELSE /\ sem' = [sem EXCEPT ![p][s] = names[s]]
             /\ UNCHANGED <<names, value>>
  /\ Advance(p, "join")
  /\ UNCHANGED <<prog, threadVars>>

\* main joins both threads; prodcons2 and mycat2 then destroy their semaphores.
Joined(p) ==
  /\ main[p] = "join"
  /\ ppc[p] = "done" /\ cpc[p] = "done"
  /\ main' = [main EXCEPT ![p] = IF prog[p] = "prodcons1" THEN "unlink" ELSE "exit"]
  /\ UNCHANGED <<prog, value, names, next, sem, threadVars>>

\* Mutant: the last name is not unlinked.
SemUnlinkTwo(p) ==
  /\ main[p] = "unlink"
  /\ names' = IF next[p] = 3 THEN names ELSE [names EXCEPT ![OpenOrder[next[p]]] = None]
  /\ Advance(p, "exit")
  /\ UNCHANGED <<prog, value, sem, threadVars>>

\* sem_unlink removes the name; who has the semaphore open keeps it.
SemUnlink(p) ==
  /\ main[p] = "unlink"
  /\ names' = [names EXCEPT ![OpenOrder[next[p]]] = None]
  /\ Advance(p, "exit")
  /\ UNCHANGED <<prog, value, sem, threadVars>>

\* The process is killed: threads and memory are gone, names and values stay.
Crash(p) ==
  /\ prog[p] = "prodcons1"
  /\ main[p] \in {"open", "join", "unlink"}
  /\ main' = [main EXCEPT ![p] = "crashed"]
  /\ buff' = [buff EXCEPT ![p] = FreshBuff]
  /\ ppc' = [ppc EXCEPT ![p] = "empty"] /\ pi' = [pi EXCEPT ![p] = 0]
  /\ cpc' = [cpc EXCEPT ![p] = "stored"] /\ ci' = [ci EXCEPT ![p] = 0]
  /\ next' = [next EXCEPT ![p] = 1]
  /\ UNCHANGED <<prog, value, names, sem, wrong>>

-----------------------------------------------------------------------------
(* The threads                                                              *)

SemWait(p, s) ==
  /\ value[s][sem[p][s]] > 0
  /\ value' = [value EXCEPT ![s][sem[p][s]] = @ - 1]

SemPost(p, s) == value' = [value EXCEPT ![s][sem[p][s]] = @ + 1]

\* mycat2 gives the mutex back before it touches the slot.
EarlyUnlock(p) == prog[p] = "mycat2"

\* What the producer puts into the slot of item i: the number of the item, or
\* a block of the file, 0 standing for the empty read at end of file.
Content(p, i) ==
  IF prog[p] # "mycat2" THEN i ELSE IF i < nitems THEN i + 1 ELSE 0

Slot(i) == i % NBUFF

ProducerStep(p, from, to) ==
  /\ main[p] = "join"
  /\ ppc[p] = from
  /\ ppc' = [ppc EXCEPT ![p] = to]
  /\ UNCHANGED <<prog, mainVars, cpc, ci, wrong>>

ConsumerStep(p, from, to) ==
  /\ main[p] = "join"
  /\ cpc[p] = from
  /\ cpc' = [cpc EXCEPT ![p] = to]
  /\ UNCHANGED <<prog, mainVars, buff, ppc, pi>>

\* The for loops of prodcons1 and 2 end after nitems items.
LoopEnds(p, i) == prog[p] # "mycat2" /\ i = nitems

ProduceWaitEmpty(p) ==
  /\ ~LoopEnds(p, pi[p])
  /\ ProducerStep(p, "empty", "lock")
  /\ SemWait(p, "nempty")
  /\ UNCHANGED <<buff, pi>>

ProduceReturns(p) ==
  /\ LoopEnds(p, pi[p])
  /\ ProducerStep(p, "empty", "done")
  /\ UNCHANGED <<value, buff, pi>>

ProduceLock(p) ==
  /\ ProducerStep(p, "lock", IF EarlyUnlock(p) THEN "unlock" ELSE "store")
  /\ SemWait(p, "mutex")
  /\ UNCHANGED <<buff, pi>>

ProduceUnlock(p) ==
  /\ ProducerStep(p, "unlock", IF EarlyUnlock(p) THEN "store" ELSE "post")
  /\ SemPost(p, "mutex")
  /\ UNCHANGED <<buff, pi>>

ProduceStore(p) ==
  /\ ProducerStep(p, "store", IF EarlyUnlock(p) THEN "post" ELSE "unlock")
  /\ buff' = [buff EXCEPT ![p][Slot(pi[p])] = Content(p, pi[p])]
  /\ UNCHANGED <<value, pi>>

\* Mutant: at end of file the producer returns without the last post.
ProducePostNotAtEnd(p) ==
  LET last == prog[p] = "mycat2" /\ pi[p] = nitems
  IN /\ ProducerStep(p, "post", IF last THEN "done" ELSE "empty")
     /\ IF last THEN UNCHANGED value ELSE SemPost(p, "nstored")
     /\ pi' = [pi EXCEPT ![p] = IF last THEN @ ELSE @ + 1]
     /\ UNCHANGED buff

\* At end of file mycat2 posts nstored once more and returns.
ProducePost(p) ==
  LET last == prog[p] = "mycat2" /\ pi[p] = nitems
  IN /\ ProducerStep(p, "post", IF last THEN "done" ELSE "empty")
     /\ SemPost(p, "nstored")
     /\ pi' = [pi EXCEPT ![p] = IF last THEN @ ELSE @ + 1]
     /\ UNCHANGED buff

\* Mutant: the consumer waits for a free slot instead of a stored item.
ConsumeWaitEmpty(p) ==
  /\ ~LoopEnds(p, ci[p])
  /\ ConsumerStep(p, "stored", "lock")
  /\ SemWait(p, "nempty")
  /\ UNCHANGED <<ci, wrong>>

ConsumeWaitStored(p) ==
  /\ ~LoopEnds(p, ci[p])
  /\ ConsumerStep(p, "stored", "lock")
  /\ SemWait(p, "nstored")
  /\ UNCHANGED <<ci, wrong>>

ConsumeReturns(p) ==
  /\ LoopEnds(p, ci[p])
  /\ ConsumerStep(p, "stored", "done")
  /\ UNCHANGED <<value, ci, wrong>>

ConsumeLock(p) ==
  /\ ConsumerStep(p, "lock", IF EarlyUnlock(p) THEN "unlock" ELSE "check")
  /\ SemWait(p, "mutex")
  /\ UNCHANGED <<ci, wrong>>

ConsumeUnlock(p) ==
  /\ ConsumerStep(p, "unlock", IF EarlyUnlock(p) THEN "check" ELSE "post")
  /\ SemPost(p, "mutex")
  /\ UNCHANGED <<ci, wrong>>

\* prodcons1 and 2 print what they did not expect; mycat2 writes the block out
\* and returns at the first empty one.
ConsumeCheck(p) ==
  LET got == buff[p][Slot(ci[p])]
      eof == prog[p] = "mycat2" /\ got = 0
  IN /\ ConsumerStep(p, "check", IF eof THEN "done"
                                 ELSE IF EarlyUnlock(p) THEN "post" ELSE "unlock")
     /\ wrong' = [wrong EXCEPT ![p] = @ \/ got # Content(p, ci[p])]
     /\ UNCHANGED <<value, ci>>

ConsumePost(p) ==
  /\ ConsumerStep(p, "post", "stored")
  /\ SemPost(p, "nempty")
  /\ ci' = [ci EXCEPT ![p] = @ + 1]
  /\ UNCHANGED wrong

Main(p) == SemOpen(p) \/ Joined(p) \/ SemUnlink(p)
Produce(p) ==
  \/ ProduceWaitEmpty(p) \/ ProduceReturns(p) \/ ProduceLock(p)
  \/ ProduceUnlock(p) \/ ProduceStore(p) \/ ProducePost(p)
Consume(p) ==
  \/ ConsumeWaitStored(p) \/ ConsumeReturns(p) \/ ConsumeLock(p)
  \/ ConsumeUnlock(p) \/ ConsumeCheck(p) \/ ConsumePost(p)

Next == \E p \in Instances : Start(p) \/ Main(p) \/ Produce(p) \/ Consume(p) \/ Crash(p)

Spec == Init /\ [][Next]_vars

\* Every thread that can run is scheduled; nobody has to start a program.
FairSpec ==
  /\ Spec
  /\ \A p \in Instances : WF_vars(Main(p)) /\ WF_vars(Produce(p)) /\ WF_vars(Consume(p))

-----------------------------------------------------------------------------
(* Properties                                                               *)

\* The types.  A crash, or a run that overlaps, can take tokens away or mix them
\* up, but never makes a second token for the mutex.
TypeOK ==
  /\ prog \in [Instances -> Programs]
  /\ names \in [Sems -> Instances \cup {None}]
  /\ value \in [Sems -> [Instances -> Nat]]
  /\ \A p \in Instances : value["mutex"][p] \in {0, 1}
  /\ main \in [Instances -> {"new", "open", "join", "unlink", "exit", "crashed"}]
  /\ next \in [Instances -> 1..Len(OpenOrder)]
  /\ sem \in [Instances -> [Sems -> Instances \cup {None}]]
  /\ buff \in [Instances -> [0..NBUFF-1 -> 0..nitems]]
  /\ ppc \in [Instances -> {"empty", "lock", "store", "unlock", "post", "done"}]
  /\ cpc \in [Instances -> {"stored", "lock", "check", "unlock", "post", "done"}]
  /\ pi \in [Instances -> 0..nitems] /\ ci \in [Instances -> 0..nitems]
  /\ wrong \in [Instances -> BOOLEAN]

\* The instance found none of the names it opened and nobody else found its own.
Alone(p) ==
  /\ \A s \in Sems : sem[p][s] \in {p, None}
  /\ \A q \in Instances \ {p}, s \in Sems : sem[q][s] # p

\* A run that does not meet the semaphores of another one passes every item
\* in order, with no early end of file in mycat2, and its two threads are never
\* in the same slot, also in mycat2 where no mutex keeps them apart.
InOneSlot(p) ==
  /\ main[p] = "join" /\ ppc[p] = "store" /\ cpc[p] = "check"
  /\ Slot(pi[p]) = Slot(ci[p])
AloneIsRight == \A p \in Instances : Alone(p) => ~wrong[p] /\ ~InOneSlot(p)

\* A run that is not killed ends, however its threads interleave.
AloneEnds ==
  \A p \in Instances :
    main[p] # "new" ~> main[p] \in {"exit", "crashed"} \/ ~Alone(p)

\* Overlapping runs remove all the names they made: a name is left over only
\* after a crash.  So a run that follows starts afresh.
NoNameLeft ==
  (\A p \in Instances : main[p] \in {"new", "exit"}) => \A s \in Sems : names[s] = None

\* The check of the program itself: its printf is never reached, also not in
\* a run that follows a crash.
NoErrorReported == \A p \in Instances : ~wrong[p]
=============================================================================
