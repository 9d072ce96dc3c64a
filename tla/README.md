# Specifications of the IPC programs of UNPV2

This directory holds TLA+ specifications of the programs in `src/`: a library of
wrappers and locks (`lib/`) and some fifty small programs that use them to show
how threads and processes communicate on a Unix system. Each program is a page
of C++, but what it shows, a bounded buffer, a read-write lock, a notification,
an iterative server, is right or wrong in its interleavings, and those are what
the modules here are about.

Contents: [components](#components-of-the-system), [modules](#modules),
[runs](#runs), [what the runs found](#what-the-runs-found),
[fairness](#fairness), [proofs](#proofs), [limits](#what-is-not-modelled),
[plan](#plan).

## Components of the system

**Read-write lock** (`lib/pthread_rwlock*`, callers in `my_rwlock/`).
State: a mutex, two condition variables (`rw_condreaders`, `rw_condwriters`),
the counters `rw_nwaitreaders`, `rw_nwaitwriters`, `rw_refcount` (-1: a writer
has the lock, else the number of readers), a magic number. Operations: rdlock,
wrlock, unlock, destroy; `rwlock_cancelrdwait` and `rwlock_cancelwrwait` run
when a thread is cancelled inside `pthread_cond_wait`. Hard: cancellation
between a wakeup and the waiter's return, spurious wakeups, who is woken by an
unlock. Correct if: a writer is exclusive, the counters are exact through
cancellation, no wakeup is lost, waiting writers go before new readers, and
destroy notices a leaked lock.

**Producers and consumers over semaphores** (`pxsem/prodcons1` to `4`,
`pxsem/mycat2`). State: a ring of `NBUFF` slots, indices, the semaphores
`mutex`, `nempty`, `nstored`; in `prodcons1` these have names and outlive the
process. Hard: several producers and consumers that must all stop
(`prodcons3`, `4`), slots filled outside the mutex (`mycat2`), runs that overlap
or follow a crashed one (`prodcons1`). Correct if: items pass in order and once
each, no slot is read before it is filled or filled before it is read, every
thread stops, no name is left over.

**Producers and a consumer over mutexes** (`mutex/prodcons1`, `2`, `6`).
State: an array filled under `put.mutex`, and in `prodcons6` a counter `nready`
under a second mutex with a condition variable. Hard: the consumer reads the
array under no lock; a producer signals only when it sees the counter at zero.
Correct if: the consumer never reads ahead of the producers, misses no signal,
and ends.

**Receivers notified of queue messages** (`pxmsg/mqnotifysigl`, `2` to `5`,
`mqnotifythread1`; `mqsend` and `mqreceive`, waiting or not, are their environment). State: the
queue, the one registration `mq_notify` gives, the signal on its way, a flag or
the byte in a pipe. Hard: the registration is used up by one notification, and
only a message that arrives at an *empty* queue uses it; signals arrive between
any two steps. Correct if: the notification is neither lost nor doubled, the
program does not sleep on a flag already set, and no message stays behind.

**Shared counters** (`shm/server1`, `client1`, `incr2`, `incr3`, `incr4`,
`incr_dev_zero`). State: a counter in shared memory and a semaphore. Hard: an
increment is a read and a write; `server1` can be run again under running clients
and replaces memory and semaphore in two steps; a killed process takes the
semaphore with it. Correct if: no increment is lost, and nobody waits for ever
except on a semaphore lost that way.

**Message ring in shared memory** (`shm/client2`, `lib/cliserv2.h`). State: a
ring of `NMESG` slots with the index `nput`, four semaphores, a counter of the
messages that found no slot. Hard: a client takes a slot under the mutex and fills
it after giving the mutex back, posting `nstored` only then, so that clients
overtake one another; a killed client keeps its slot or the mutex. Correct if:
every message is stored or counted as an overflow, no slot is lost except with
its owner, two clients never share a slot, and a reader gets whole messages.

**Record locks** (`lock/lockmain`, `lock/onedaemon`, `lock/test3`,
`lib/lock_reg.cpp`). State: a lock on a file, which the kernel releases when its
owner ends; a number in a file; a file with a pid. Hard: the number is read and
written in two steps; the pid file is emptied and written after the lock was taken,
and daemons that fail to start open it as well. Correct if: no increment is
lost, one daemon runs and the file holds its pid, and nobody waits for ever.

**Real-time signals** (`rtsignals1`, `lib/signal_rt.cpp`). State: the signals the
kernel has queued, the child's mask and handlers, the handlers that are running.
Hard: parent and child are in step only by `sleep`; handlers interrupt one
another. Correct if: a signal is lost only when a sleep was too short, and the
values of one signal number arrive in order.

**FIFO client and server** (`fifocliserv/mainserver`, `mainclient`,
`lib/readline.cpp`). State: the well-known FIFO, a FIFO per client, the buffer
of `readline`. Hard: `open` of a FIFO waits for the other side, requests are
framed by newlines only, a write to a client that is gone raises SIGPIPE, and a
server that is started again finds the requests of the one that was killed. Correct
if: the server never sees end of file while clients come and go, answers each request
once and completely, and waits only for the client it is serving.

**Pairs of processes over pipes and FIFOs** (`pipe/`, `fifo/`). State: who holds
which end of which channel, and what is in it. Hard: `open` of a FIFO waits for
the other side, end of file is seen only when nobody holds the end for writing,
a descriptor closed by mistake or held by a third process changes who waits for
whom. Correct if: an answer read to its end is whole, and both processes end.

**Not modelled**: the one-call tools (see [limits](#what-is-not-modelled)).

The components share code, not state: every program calls the wrappers of
`lib/`, which end the process when a call fails. That is why an error return is
usually the end of a thread in these modules, and why `Mq_notify` on a
registration still in place is a failure and not a nuisance.

`PROJECT.json` gives for every definition the source lines it stands for, and
lists the hazards, each at its line, with the properties that watch it.

## Modules

| module | models |
| --- | --- |
| `AbstractRWLock` | what a writer-preferring read-write lock promises |
| `RWLock` | `lib/pthread_rwlock*` and its callers; implements `AbstractRWLock` |
| `RWLock_proofs` | theorems about `RWLock` |
| `BoundedFifo` | what a bounded buffer promises |
| `ProdCons4` | `pxsem/prodcons4`; implements `BoundedFifo` |
| `ProdCons4_proofs` | theorems about `ProdCons4` |
| `ProdCons3` | `pxsem/prodcons3` |
| `NamedSemRing` | `pxsem/prodcons1`, `prodcons2`, `mycat2` |
| `NamedSemRing_proofs` | theorems about `NamedSemRing` |
| `MutexProdCons` | `mutex/prodcons1`, `2`, `6` |
| `MutexProdCons_proofs` | theorems about `MutexProdCons` |
| `MqNotify` | `pxmsg/mqnotifysigl`, `2` to `5`, `mqnotifythread1` |
| `MqNotify_proofs` | theorems about `MqNotify` |
| `SharedCounter` | `shm/server1`, `client1`, `incr2`, `3`, `4`, `incr_dev_zero` |
| `ShmRing` | `shm/client2`, `lib/cliserv2.h` |
| `RecordLocks` | `lock/lockmain`, `onedaemon`, `test3`, `lib/lock_reg.cpp` |
| `RtSignals` | `rtsignals1`, `lib/signal_rt.cpp` |
| `MCPrograms` | runs the four modules above for TLC, one of them in each behaviour |
| `MCPrograms_proofs` | theorems about the four modules |
| `FifoCliServ` | `fifocliserv/mainserver`, `mainclient`, `lib/readline.cpp` |
| `FifoCliServ_proofs` | theorems about `FifoCliServ` |
| `PipePair` | `fifo/client`, `fifo/server`, `pipe`, `pipe/mainpipe`, `pipe/fduplex` |
| `PipePair_proofs` | theorems about `PipePair` |

Conventions. A thread's place is a string in `pc` (or `ppc`, `cpc`, `spc`); a
label is named for the operation that comes next. One system call, or one access
to shared state that no lock protects, is one step. Code under a lock is one
step only where the lock is known to exclude the others because the lock itself
is in the model; `ProdCons4` and `MutexProdCons` split their critical sections
as well, so that the mutex is what keeps them together. Definitions whose comment
begins with "Mutant" are broken variants of the definition that follows them.
Nothing refers to them; putting one in the place of its original shows that the
properties notice.

**RWLock.** `RdLoop` and `WrLoop` are the loops of rdlock and wrlock, taken with
the mutex free, from the call or from a wakeup: the loop test, then
`pthread_cond_wait` (which gives the mutex back) or the grant. `Unlock` is the
count, the choice of whom to wake, and the wakeup. Cancellation is a request
(`RequestCancel`) that takes effect at a cancellation point: in
`pthread_cond_wait` the thread leaves to its handler (`RdCancelPoint`,
`RdCancelHandler`), outside the lock functions it ends, with the lock if it holds
one (`CallerCancelled`). `held` records what each thread was granted; it is not
in the code, and is what the counters are compared with.

**ProdCons4.** One step per semaphore operation, two for each critical section.
The extra tokens with which finished threads let the others terminate are
`EndPostStored`, `EndPostEmpty` and `ConsumeEndPostStored`. The refinement reads
the abstract queue out of the ring: the slots from `nget` to `nput`.

**ProdCons3.** The same skeleton with the consumer's last post as it is in the
code (`nstored`). It serves the run that shows the consequence.

**NamedSemRing.** `Instances` are runs of the programs. `names` says which
semaphore each of the three names refers to, `value` holds the semaphores
themselves, by the instance that created them; so an instance that finds a
name takes over the semaphore behind it with whatever value it has. `Crash`
loses threads and buffer and leaves names and values. For `prodcons2` and
`mycat2` the semaphores are private and `Start` makes them at once; `mycat2`
differs in when it gives the mutex back (`EarlyUnlock`) and in how it ends.

**MutexProdCons.** The two mutexes are Booleans, `cpc` is the consumer:
`asleep` is `pthread_cond_wait`, which a signal or a spurious wakeup ends. In
`prodcons1` the consumer is created after all producers were joined. The `main`
of `prodcons6` is a stub that starts none of its threads; they are run here as
`prodcons2` runs its own.

**MqNotify.** `prog` picks the program; the kernel's part (`Send`,
`registered`, `pending`, `Deliverable`) is common to all, the handlers and the
steps of the loops are the programs' own. `NewmaskHasUsr1` is where
`mqnotifysigl2` and `mqnotifysigl3` differ. For `mqnotifythread1`, `pending` is
the notification that will start a thread; `fresh` and `spinning` count threads
in the read loop before and after the first -1. Other readers of the queue are
`OtherReceive` and, for one that waits in `mq_receive` without `-n`,
`SendToWaiter`: POSIX gives it the message and raises no notification.

**SharedCounter.** `shmname` and `semname` are what the two names of `client1`
refer to, and every run of `server1` makes objects of its own. The incr programs
start with one counter and one semaphore. `incr3` differs in
`Shares(p)`: it waits on the copy of the global struct that each process has
after `fork`.

**ShmRing.** A step for each semaphore call, for `offset = msgoff[nput]`, for the
advance of `nput`, and for each half of `strcpy`. Three variables are not in the
code: `due`, the messages that have slots, in slot order; `wrong`, that the reader
found something else; and `overtaken`, that a client posted `nstored` before one with
an earlier slot. The repository has no program that reads the ring. The reader here
does the least the semaphores allow (wait for `nstored`, read the next slot, post
`nempty`) and is marked external.

**RecordLocks.** `lock` is the kernel's table, `Lockable` its rule, `End` the
release at the end of a process. `LockWait` is `F_SETLKW`, `LockOrFail` is `F_SETLK`,
at whose failure `onedaemon` and `test3` end. The pid file is a sequence of bytes
that know only whose pid they belong to; pids may differ in length, so that a
shorter one written over a longer one would show. The sequence file is taken to
hold a number (of an empty one `lockmain` would use an unset variable).

**RtSignals.** `pending` is the kernel's queue for each signal number, `running`
the stack of handlers; a handler is interrupted by other numbers only, since
`Signal_rt` empties `sa_mask` and leaves the signal itself blocked. The sleeps
take any time at all. `early` and `inTime` record how they turned out.

**MCPrograms.** Four components with small state spaces and no common state are
checked in one run: `system` says whose programs run, the other modules stay in
one initial state. Its properties are those of the four modules, `NoIncrementLost`
and `TypesOK` being the conjunctions of what they say of counters and of types.

**FifoCliServ.** The well-known FIFO carries tokens (the client for "pid and
pathname", `Newline`), so that `readline` can run two requests together as it
does in the code when one has no newline. Opens that wait for each other are
joint steps (`OpenReply`). A client's FIFO stays in the file system when the
client is killed (`fifo`), which is what the server then waits on. The server can
be killed (`ServerCrash`), or dies of SIGPIPE, and be started again on the FIFO that
is there (`ServerRestart`). The kernel keeps what is in a FIFO as long as somebody has
it open, and clients do to their end (`Writers`): the new server finds the requests of
the old one, less what `readline` had read ahead. `cut` records in whose answer
a server died. Two kinds of
client, "bogus" and "nofifo", are no `mainclient` but somebody who writes a line
into the FIFO by hand: they reach the server's two error paths.

**PipePair.** `fds` holds the ends each process has; `CloseEnds`, and the end of
a process, drop ends, and what is in a channel nobody has open is gone. `PutBlock`
is `Write` with its two ways to fail (no such descriptor, nobody reads), `Serve`,
`ReadAnswer` and `Receive` are reads that wait while somebody can write. An open
of a FIFO counts from the call on and lets those return who waited for it
(`OpenFifo`). `fifo/server` is a third process that may be started at any time
beside `fifo/client`; the child of `fifo/client` does the same as it. Programs differ
in `Pipes` (what `fork` gives to both) and in their first places.
`pipe/mainpipe`'s parent closes `pipe1[1]` where it should close `pipe2[1]`, and so
ends in `err_sys` at its first write; `pipe/fduplex` works only where pipes go both
ways ("stream") and elsewhere ends in `err_sys` on both sides. Both are in the
model as they are in the code.

## Runs

Every cfg is checked with `tlc -config <cfg> <module>`.

| run | shows | bounds |
| --- | --- | --- |
| `rwlock` | counters exact, writer exclusive, no lost wakeup of writers, destroy sees leaks, refinement of `AbstractRWLock`, under cancellation of anybody anywhere; until somebody is cancelled, readers sleep for a writer only and every call returns | 3 threads, 2 lock calls each |
| `rwlock_stranded` | **violation** of `NoStrandedReader` | 3 threads, 1 call, 1 cancellable |
| `prodcons4` | order, no slot lost, termination with all items counted, refinement of `BoundedFifo` | 2 producers, 2 consumers, 3 items, 2 slots |
| `prodcons3_error` | **violation** of `NoErrorReported` | 2 producers, 3 items, 2 slots |
| `named_ring` | a run that meets nobody else's semaphores is right, free of slot races, and ends; names remain only after a crash; `mutex` never has a second token (in `TypeOK`) | 2 runs, 3 items, 2 slots |
| `named_crash` | **violation** of `NoErrorReported` | 2 runs of `prodcons1`, 3 items, 2 slots |
| `mutex_prodcons` | unlocked reads are safe, the two counters agree, termination (so no signal is missed) | 3 producers, 4 items |
| `mqnotify` | one notification at any time, no sleep on a set flag, queue drained | queue of 3, 7 messages |
| `mqnotify_sigl2` | **violation** of `AwakeWhenFlagged` | queue of 2, 3 messages |
| `small_programs` | no increment lost; no message of the ring lost, and no slot shared until a client overtakes another; one daemon, whose pid is in the file; no queued signal lost; everybody stops, but for those blocked on a semaphore whose holder died | counters: 2 processes, 2 runs of `server1`, 3 increments. Ring: 2 clients, 2 messages each, 2 slots. Locks: 3 processes, pids of 2 lengths, or the family of `test3`. Signals: 3 values. 1 kill anywhere |
| `fifo_cliserv` | server never sees end of file, answers whole and unmixed even over a restart, waits only for the client it serves; all who come while it lives are served if no client dies | 3 clients, 1 of them of any of 5 kinds, 1 may be killed; 2 runs of the server, the first of which may be killed; file of 2 blocks, FIFO of 1 |
| `pipe_pair` | an answer read to end of file is whole, even with two servers; both processes end if the line is not empty and there is one server | 5 programs, file of 3 blocks, channel of 2 |

Why these bounds are enough to be interesting. Three threads are the smallest
number for a reader, a writer and the one who unlocks between them; with two
calls each a cancelled waiter meets later callers. Three items in a ring of two
slots make the ring full, empty and wrapped around. Two producers and two
consumers are needed for the tokens of the wind-down to be taken by the wrong
thread. A queue of three messages can be empty, non-empty and full, and seven
messages re-arm the notification more than once. The server needs a third
client: one that broke off, one that is blocked behind it, one that runs its
request into another. Two clients with two messages each go once around
the ring of two slots and overflow it, and one overtakes the other. One kill at any point covers all the places where a lock
can be lost; a second adds nothing to be waited for. A file of three blocks does
not fit into a channel of two, so that writers wait for readers in `pipe_pair`.

Deadlock is checked where the program must end or go on (`prodcons4`,
`mutex_prodcons`). It is not where the system may rightly stop: a leaked lock after
cancellation, a queue nobody writes to, semaphores taken by a killed process, programs
that have ended or a daemon that pauses, a
server with no client, a pair of processes that has ended.

Some properties are conditional, and the condition is part of what is said:

- `ReaderSleepsForAWriter` and `AllCallsReturn` (`RWLock`) speak of the time, or
  the behaviours, in which nobody has been cancelled. A cancelled thread can keep a
  lock for ever, and `rwlock_stranded` shows what it can do to a reader.
- `AloneIsRight`, `AloneEnds` (`NamedSemRing`) are about a run
  that neither found another run's semaphore nor had its own found. Without the
  condition they are false, and `named_crash` is the proof.
- `NoLostUpdate` (`SharedCounter`, a part of `NoIncrementLost`) speaks of a
  counter whose users wait on the same semaphore. It is therefore silent about
  `incr3`, where they do not.
- `SafeInTurn` (`ShmRing`) speaks of the time before a client has overtaken another.
  After that the code promises little: `nstored` then counts a slot behind one
  that is still being filled, and without the condition TLC finds the reader with
  an unfinished message.
- `EverybodyStops` (`SharedCounter`, `ShmRing`) excuses a process only while it is
  blocked in a wait (`Stuck`): the semaphore it waits for is at 0, and a process that
  used the same one died between its wait and its post. `SharedCounter` keeps in `pc`
  whether the kill came there ("killed_inside", or "sigbus") or elsewhere ("killed"),
  `ShmRing` keeps `pc` and adds the client to `killed`. After a kill anywhere else the
  others must end. With record locks there is no excuse.
- `NoEndOfFile` (`FifoCliServ`) is about end of file only. The server can still die of
  SIGPIPE, which is in the model, or in `err_sys` when `Read` of the file fails (`open`
  of a directory succeeds, `read` does not), which leaves the FIFOs as `ServerCrash`
  does in the same place.
- `AnswerIsWhole` (`PipePair`) holds as long as no server is killed or fails in `Read`;
  the module has neither. `FifoCliServ`, where they happen, records them in `cut`. Of
  `pipe/mainpipe` it says nothing: the parent ends in `err_sys` before it reads.
- `SignalsAreKept` (`RtSignals`): a child that was killed got a signal before it
  had blocked them; one that exits has handled all values if they had all been sent
  before it unblocked the signals. That is what the sleeps of 3 and 6 seconds are for.
- `QueueIsDrained` (`MqNotify`) starts from an empty queue: the programs read
  nothing before the first notification, and POSIX raises none for messages that
  were there at registration.
- `Termination` of `mutex/prodcons2` is promised from the moment the producers
  are done. Before, the polling consumer can keep the mutex from them, as far
  as the scheduling of mutexes is specified at all.
- `ServedUnlessDisturbed` (`FifoCliServ`) excludes killed clients and requests
  with no newline, and promises nothing to a client whose server dies: its request
  may be lost, and it then waits in `open` for ever. `WaitsForTheCaller` says what
  remains when a client dies, `OneAnswer` what remains when the server does.
- `EverybodyEnds` (`PipePair`) excludes two cases in which the FIFO programs do
  wait for ever: an empty line, of which `client` writes nothing, so that it and
  the server wait for each other; and `fifo/server` run beside `fifo/client`, which
  has a server already: two hold FIFO1 and FIFO2 open, one gets the request, and
  the client waits for the other to close FIFO2.

## What the runs found

- `rwlock_stranded`. `unlock` wakes a writer if `rw_nwaitwriters > 0`. A writer
  that was cancelled in `pthread_cond_wait` is counted until its handler has got
  the mutex. If `unlock` runs in between, it signals `rw_condwriters`, where
  nobody is left, and wakes no reader; the handler then subtracts one and leaves.
  The readers sleep on a free lock. (A writer that is still waiting does get
  the signal: `NoStrandedWriter` holds, and is proved.)
- `prodcons3_error`. The consumer posts `nstored` where it should post
  `nempty`. Its own check, `error:buff[...]`, reports slots nobody has filled.
- `mqnotify_sigl2`. The mask meant to block SIGUSR1 around the test of `mqflag`
  is empty, so that the handler can run between the test and `sigsuspend`.
- `named_crash`. `prodcons1` opens its semaphores with `O_CREAT` alone. A run
  that overlaps another one, or follows one that was killed, works with tokens
  that count the other run's slots, and its own check fires.

## Fairness

Weak fairness of each thread's steps (`WF_vars(Program(t))` and the like): a
thread that can run is run some time. Nothing is assumed about who gets a mutex
or a semaphore that several threads want. In `MCPrograms` even less is assumed:
as long as some process can take a step, one does (`WF_vars(Run)`). Where
termination holds all the same, it is because the items, rounds or messages are
finite. Threads are never
obliged to cancel, crash, kill, wake spuriously, send a message, run `server1`,
start a program or start one again. Signal delivery is fair (`WF_vars(Handlers)`): the kernel
delivers a pending signal that is not blocked. In `FifoCliServ` both sides are
scheduled, and a client that is not killed does not stop by itself.

## Proofs

Eight modules are proved about, for every value of the constants. TLC has
checked each invariant named here on the bounds of the run before it was proved.

**`RWLock_proofs`** (from `RWAssumption`: finitely many threads, any number of
rounds, any of them cancellable).

| theorem | says |
| --- | --- |
| `TypeCorrect`, `LockExcludes`, `CountsAreExact` | `TypeOK`, `Exclusion`, `WaitCountsExact` |
| `UnlockNeverDumps` | `UnlockIsOfAHeldLock`: `err_dump` is out of reach of paired callers |
| `WriterIsNotStranded` | `NoStrandedWriter` |
| `DestroyFindsLeaks` | `DestroyOutcome` |
| `ReaderIsNotStranded` | `ReaderSleepsForAWriter`: it holds until a thread has been cancelled; `rwlock_stranded` shows that not longer |
| `Implementation` | `ImplementsAbstractLock` |

`IInv` adds to the properties: where in its code a thread holds a lock
(`HeldWhere`), who owns the mutex (`MutexOwner`), and that nothing happens after
destroy. `NoStrandedWriter` is in `IInv` because it is inductive only together
with the exactness of the counters, which needs `HeldWhere`. In each step the
sets of waiting and holding threads gain or lose one member and the counters
follow.

**`ProdCons4_proofs`** (from `PCAssumption`: finite disjoint sets of producers
and consumers, any `nitems`, any `NBUFF` but 0).

| theorem | says |
| --- | --- |
| `TypeCorrect` | `TypeOK` |
| `ItemsArriveInOrder` | `NoErrorReported` |
| `SlotsAreConserved` | `SlotsConserved` |
| `Implementation` | `ImplementsFifo` |

The invariant counts tokens. The semaphore `mutex` and the threads in a critical
section make one (`OneInside`); `nempty`, the slots in threads' hands and the
items make `NBUFF` (`SlotsConserved`); `nstored`, the consumers that have a token
and the producers that still owe one make the items plus one token for each
producer that has stopped (`ItemsConserved`). The last is what answers for the
extra tokens: a consumer that takes one early leaves an item to be found, because
producers stop only when everything is produced (`StopsLast`). A producer with a
token of `nempty` therefore has a free slot, which is not one of those in use
because numbers less than `NBUFF` apart differ modulo `NBUFF`; so the slots from
`nget` to `nput` keep their items (`Content`), and the consumer's check succeeds.

**`MqNotify_proofs`** (from `MqAssumption`: any capacity, any number of messages,
any of the programs).

| theorem | says |
| --- | --- |
| `TypeCorrect` | `TypeOK` |
| `NotificationIsKept` | `OneNotification` |
| `RegistersWhenFree` | `NeverBusy`: `Mq_notify` does not end the process (a consequence of `OneNotification`, in no run of its own) |
| `MaskKeepsAwake` | `AwakeWhenFlaggedBut2` |

`OneTrace` says without arithmetic that the notification is in exactly one of
five places; `Places` that the flag is set where it is about to be reset and that
each program keeps to its own labels; `Masked` that `mqnotifysigl3` tests the flag
and goes to sleep with SIGUSR1 blocked.

**`MCPrograms_proofs`** (from `LocksAssumption`, finitely many processes, the line
with a pid has a length and `nloop` is a number, and `TheirConstants`: finitely many
clients and processes, a ring of at least one slot, at least one value of each signal; any number of processes,
clients, increments and messages, any of them killed).

| theorem | says |
| --- | --- |
| `TypesHold` | `TypesOK`: the types of all four modules |
| `LockExcludes` | of `RecordLocks`: one writer, or readers only |
| `DaemonOwnsPidFile` | `OneDaemon` |
| `NothingIsLost` | `NoIncrementLost`: `NoLostUpdate` of `SharedCounter` and `SeqnoIsExact` of `RecordLocks` |
| `OneIncrements` | of `SharedCounter`: of the processes that use one semaphore, one at most is between its wait and its post |
| `InTurn` | `SafeInTurn` |
| `MessagesAreCounted` | `EveryMessageCounts` |
| `SignalsArrive` | `SignalsAreKept` |

The programs share nothing, so that each module has an invariant that only its own
steps can disturb, and `TypesHold` puts the four together. Three properties equate a
variable with a fold over all processes. The section "Sums" says what such a fold
computes: it is a function on the subsets of the set that takes members out one by one
(`FoldIsSum`, `DoneIsSum`), any member may be the first (`SumWithout`), and a value that
grows by one makes the sum one larger (`SumGrows`). Induction over a set takes the form
that a claim that is wrong of some subset is wrong of a smallest one (`Smallest`, from
`FS_StrictSubsetOrderingWellFounded`).

- `RecordLocks`. A process in one of the daemon's critical places has the write lock
  (`DaemonHasLock`), so that it is alone there and the file it has emptied stays empty
  until it writes (`EmptyToBeWritten`). Every action is either a step of a daemon there
  (`InsideStep`) or a step that leaves the file alone and leads elsewhere
  (`OutsideStep`). From `my_lock` to `my_unlock` a process of `lockmain` has the write
  lock, so that the number it has read is still in the file when it writes (`SeqInv`).
- `SharedCounter`. A process between its wait and its post has the one token of the
  semaphore it has opened (`OneInside`); what it has opened exists (`UserHas`), and
  nobody can have opened a semaphore that `server1` has not made yet (`NotYetMade`).
  For the sum (`MadeInv`): who has not opened the semaphore yet has not begun
  (`Beginners`), so that a new user of a counter adds nothing; memory somebody has
  incremented has its size and is not truncated again (`HasSize`); and while the users
  of a counter share a semaphore, the one about to write has read what the counter
  still is (`Exact`).
- `ShmRing`. Each token of `nempty` is in one of four places (`RingCounts`), so that the
  messages that are due never outnumber the slots and lie in different ones
  (`SlotsDiffer`). What is stored or read or was an overflow adds up to the rounds the
  clients have done and the client between `noverflow++` and the end of its round
  (`RoundsCounted`). As long as nobody was overtaken, the messages behind the posted ones
  are exactly those of the clients that have a slot (`Unposted`): the client that posts
  next is that of the first of them (`PostsFirst`), no client writes into the slot of
  another or of a posted message (`OwnSlots`), and posted messages stay whole (`Copied`).
- `RtSignals`. For each number, what is printed, what is in its handler and what is
  pending are together what was sent, in that order (`Printed`, `Pending`); a handler
  that interrupts another is for another number (`Handlers`), because a signal is masked
  while it is handled.

**`MutexProdCons_proofs`** (from the assumption of the module: finitely many producers, any
number of items).

| theorem | says |
| --- | --- |
| `TypeCorrect` | `TypeOK` |
| `ReadNeedsNoLock` | `UnlockedReadIsSafe`: what the consumer reads under no lock is written and stays |
| `CountersAgree` | `ReadyIsStored` |

`PutMutex` and `ReadyMutex` say who holds each mutex; `Filled` that the slots below
`nput` have their items and only a producer with the mutex is beyond; `Behind` why the
consumer's index is below `nput`, for another reason in each program: the producers
have all been joined (`prodcons1`), it has read `nput` itself (`prodcons2`), or it has
taken one of `nready` (`prodcons6`). For the last, `nready`, what has been consumed and
the producers between the two mutexes add up to `nput`; a producer that leaves the
set or joins it moves one between the terms.

**`NamedSemRing_proofs`** (any instances, items and ring size).

| theorem | says |
| --- | --- |
| `TypeCorrect` | `TypeOK`: in particular no mutex ever has two tokens |
| `AloneRunIsRight` | `AloneIsRight` |
| `NamesAreRemoved` | `NoNameLeft` |

The invariant has three layers. `Opened` and `Referred`: how far each run is with its
three semaphores, and that a semaphore somebody refers to was made by the run it is named
for, possibly under a name another run has since removed. `OneToken`: each mutex has
one token, in the semaphore or in one thread of one of the runs that share it.
`Ring`: in a run whose semaphores nobody else uses, `nempty`, `nstored` and the tokens
in its two threads' hands fit `pi` and `ci`, and the slots between them keep their
items. Numbers less than `NBUFF` apart differ modulo `NBUFF` (`SlotsDiffer`), which is
what keeps the two threads of `mycat2`, with no mutex, in different slots. `ToUnlink`
answers for the names: whoever made one is still to come to it, or has crashed, or the
name is gone.

**`FifoCliServ_proofs`** (from `FifoAssumption`: finitely many clients, any of them odd or
killed, any number of restarts; a buffer of `readline` that holds a pathname and its
newline, `MAXLINE` at least 3, because `fgets` of `mainclient` reads no more than fits).

| theorem | says |
| --- | --- |
| `TypeCorrect` | `TypeOK` |
| `ServerSeesNoEnd` | `NoEndOfFile` |
| `AnswerIsWhole` | `OneAnswer` |
| `ServerWaitsForCaller` | `WaitsForTheCaller` |

The proof follows a request. It is in the FIFO once, and one for a file has its newline
behind it (`Stream`), because a write of at most `PIPE_BUF` bytes is one step; then it
is at the head of the server's line (`Line`), and until it is answered its client is in
its open or dead (`Asked`). `Answer` adds up the blocks the client has read, those in
its FIFO and those the server has still to write; they are the whole file, or the one
message, for as long as the server has the FIFO open or the client was not cut off.

**`PipePair_proofs`** (from the assumption of the module: a file of any length, channels
of any size, any of the programs).

| theorem | says |
| --- | --- |
| `TypeCorrect` | `TypeOK` |
| `WholeAnswer` | `AnswerIsWhole`: at end of file a reader has all that one writer had to say |

End of file means that nobody holds the end for writing, so that the invariant says who
holds which end (`FifoEnds`, `Pipe`). `Said` says block by block that what was read,
and then what is in the channel, is the beginning of what the process says. For `fifo`
there may be two servers, and `FifoAsks` shows that one of them at most ever has the
request, while as long as none has it one of them keeps the second FIFO open: the parent
cannot meet end of file early and cannot get blocks of both.

## What is only model-checked

Liveness (`AllCallsReturn`, `Termination`, `AloneEnds`, `QueueIsDrained`,
`EverybodyEnds`, `EverybodyStops`, `ServedUnlessDisturbed`) rests on fairness and is
left to TLC, as is deadlock. `AllCounted` of `ProdCons4`, the sums of the producers' and
the consumers' counts when all have ended, is part of `Termination` and checked with it.

## What is not modelled

- A request of `fifocliserv` in pieces: "pid and pathname" is one token, so that a
  buffer that is full, or a read-ahead that is lost with a killed server, never ends in
  the middle of a pid.
- `PipePair`: a process killed from outside, and a `Read` of the file that fails.
- Errors that end the process in a wrapper (no memory, a queue that does not
  exist), except where another thread or process notices. Return values of
  `pthread_mutex_lock` and `pthread_cond_wait` are taken to be 0, as they are for
  the default attributes used.
- `sleep` is no synchronisation: the delays in `my_rwlock` make one order likely,
  and the model allows all orders.
- Text: what is printed, how a pathname or a message is put together. Items,
  blocks of a file and messages are numbers or tokens.
- `init`, `tryrdlock` and `trywrlock` of the lock, declared in
  `lib/pthread_rwlock.h` but defined nowhere in the repository.
- Sequences of a few system calls with no other party: `ftok`, `msgget`,
  `shm/shmcreate`, `shmread`, `shmwrite`, `test3`, `pxmsg/mqcreate1`,
  `mqgetattr`. They keep no state and no order of theirs matters.
- The creator and reader of the ring of `shm/client2`, which are not in the repository.
- The rest of `lib/`: wrappers that no program of the repository calls in a way that
  matters to its state, formatting of messages and error texts (`error.cpp`,
  `wrapstdio.cpp`), `px_ipc_name`, declarations and macros.

## Plan

Every invariant that a run checks is now a theorem. What is left is `AllCounted` of
`ProdCons4` as a statement of the states in which all threads have ended, with the sums of
`MCPrograms_proofs`.
