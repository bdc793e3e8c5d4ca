# TLA+ models of the Artemis native libaio layer

This directory holds TLA+ specifications of the native journal layer of Apache
ActiveMQ Artemis: the Java classes of `org.apache.activemq.artemis.nativo.jlibaio`
and the C library behind them. The models are checked with TLC on small
instances and, where noted, proved with TLAPS for every value of the constants.
Source paths below are relative to the repository; "C" is
`src/main/c/org_apache_activemq_artemis_nativo_jlibaio_LibaioContext.c` and "J" is
`src/main/java/org/apache/activemq/artemis/nativo/jlibaio/LibaioContext.java`.

## The system

A client creates a `LibaioContext` with a queue size, opens files, submits reads
and writes with a callback, and keeps one thread polling. The C side keeps an
`io_control` for each context.

| Part | State | Operations | Works with |
|---|---|---|---|
| iocb pool (C 448-486) | `iocb[]`, `iocbGet`, `iocbPut`, `used`, under `iocbLock` | `getIOCB`, `putIOCB` | submit, polls, `deleteContext` |
| asynchronous context (J 177-380, C 488-921) | `closed`, `ioSpace`; `pollLock`; the iocbs' contents; global references | `submitWrite`, `submitRead`, `poll()`, `poll(callbacks, min, max)`, `done`, `close` | everything |
| completion ring reader (C 134-209) | `head`, `tail`, `nr`, `io_events` shared with the kernel; `forceSysCall` | `ringio_get_events`, `setForceSyscall` | polls, `deleteContext` |
| callback cache (`util/CallbackCache.java`) | circular array, two indices, a count | `get`, `put` | clients |
| construction (J 177-192, C 550-639) | what it allocates | constructor, `newContext` | pool, context |
| loading and shutdown (J 72-120, C 298-434) | `dumbWriteHandler` and its file, `shuttingDown`, `contexts`, `totalMaxIO`, class references | `JNI_OnLoad`, `JNI_OnUnload`, the shutdown hook, `checkShutdown` | contexts |
| files (`LibaioFile.java`, C 687-711, 1009-1060) | a descriptor; the shared megabyte buffer | `open`, `close`, `lock`, `fill`, `fallocate` | context |
| aligned buffers (C 923-955, 1062-1077) | native memory | `newAlignedBuffer`, `freeBuffer`, `memsetBuffer` | files, requests |

The parts interact through shared memory (the ring, the pool, the flags), two
mutexes, one Java semaphore, and callbacks from the polling thread into the
client. What is hard about them:

* A permit of `ioSpace` and an iocb of the pool stand for the same thing, the
  room for one request, but they are taken and returned by different layers at
  different moments.
* `close()` has to get submitters and the polling thread out of the native code
  before it frees the memory they work in. It does so with the permits, with a
  "dumb write" that wakes the poller, and with `pollLock`.
* The ring is read without system calls while the kernel writes to it.
* `closed` is read before a semaphore or a mutex is taken and acted on after.
* Refused submissions, failing requests, a failing `fdatasync`, interruptions
  and time-outs each have a path of their own, and some of them lose something.
* Files are known by descriptor numbers, which the kernel uses again at once.
* Contexts of one process share the dumb file, which has to outlive all of them
  and to be gone after the last one, and one buffer that all files are filled from.

`PROJECT.json` lists these hazards line by line, with the properties that cover
them.

## Modules

| Module | Models |
|---|---|
| `AbstractIocbPool` | what the pool promises: a set of free structures and a set of taken ones |
| `IocbPool` | `getIOCB`, `putIOCB` on the circular array |
| `IocbPoolProofs` | proofs about `IocbPool` |
| `AbstractEventQueue` | what the ring promises: a queue read in batches |
| `AioRing` | `ringio_get_events`, step by step, against the kernel |
| `AioRingProofs` | proofs about `AioRing` |
| `LibaioContext` | one context: submitters, kernel, poller, closers. Uses `IocbPool` as `Pool` |
| `LibaioContextProofs`, `LibaioContextCloseProofs` | proofs about `LibaioContext`: delivery, and permits and closing |
| `NativeLibrary` | what contexts share: loading, the dumb file, the counters, construction and its failures, the shutdown hook |
| `NativeLibraryProofs` | proofs about `NativeLibrary` |
| `LibaioFile` | file objects, descriptors, locks, writes, `fill`, `fallocate` |
| `LibaioFileProofs` | proofs about `LibaioFile` |
| `BoundedFifo`, `CallbackCache`, `CallbackCacheProofs` | the callback cache, its abstraction, its proofs |
| `MCAioRing`, `MCLibaioContext`, `MCLibaioFile` | values of constants for TLC |

### LibaioContext

Each thread has a program counter that names what it does next, and each step is
one critical section, system call, atomic Java operation or callback. A submitter
goes `idle -> acquire -> native -> prep -> idle`; the poller in `poll()` goes
`enter -> events -> loop -> done -> release -> loop ...`, and in
`poll(callbacks, min, max)` `aevents -> aloop -> areturn`; a closer goes `drain ->
delete -> dumb -> wait -> reap -> free -> returned`, or to `failed` when `deleteContext`
throws. The pool's variables are the ones of
`IocbPool`, and the set of structures that are out is computed from where the
threads and the kernel hold them (`Held`), so that `PoolProtocol`, the pool's own
specification, says that all of them use the pool correctly.

The completion ring is a plain sequence here and a read takes its front (`Taken`).
That is the interface `AbstractEventQueue` states and `AioRing` is shown to
implement.

The history variables `outcome`, `failedIO`, `errored`, `masked`, `unsynced` record
what a client could observe. A request is identified with its callback. Contents of
buffers, positions and sizes are left out: nothing in this layer depends on them.

Which failures may happen is the constant `Faults`. A callback may throw, `done()` as
well as `onError()`. A `done()` that throws releases no permit. Nobody looks for the
exception: the native loop goes on with it pending, in which state JNI leaves open
whether a later Java call is run, so both outcomes are in the model (`masked` has the
failed requests whose events were treated in that state). When an `onError` throws in
`poll(callbacks, min, max)`, the exception takes the place of the result and the Java
method releases no permit for the batch (`pollArrayThrows`); `forfeited` counts these
permits. What the client promises about `close()` is `CloseAllowed`:
`SettledClose` (no thread is between the closed check of `poll()` and `pollLock`), and,
without the semaphore, that no request is on its way. The first is needed because of
the race in finding `doc_poll_close_race`; the second is what the documentation of
`close()` asks for (J 245). `poll(callbacks, min, max)` is called only when at least `min`
requests are on their way, as the tests do; otherwise it blocks for ever.

An `-EINTR` in `blockedPoll` is retried and is not a step. A `poll(callbacks, min, max)`
that a signal interrupts after the first event returns fewer than `min` (`pollArrayGet`). A submitter that has
called `io_submit` touches nothing of the `io_control` afterwards, so its return is
not a step either. The context has a non-null `ioContext`; the early returns for a
null one are out of reach, because `openFile` refuses it.

The places where the system may stop are written down (`Finished`), so that TLC
reports every other deadlock.

### NativeLibrary

The static initializer tries two libraries. `JNI_OnLoad(l, k)` is the call of which
`k` steps succeed, so every prefix of its steps is a possible outcome; what
came before a failure stays. The process's descriptors are a table in which number 0
is standard input, so that `close(0)` in `closeDumbHandlers` has its real effect.
Each context has a thread that constructs and closes it. `newContext` may
fail at each of its seven places, in the loop that fills the pool after any number of
iocbs. `held` and `members` are a ledger of what is allocated for the context.
`FailureFrees` has the list of frees of each failure path and `DeleteFrees` the one of
`deleteContext`, in the order of the code; `DestroyBound` is the number of iocbs each of
them frees. `misfreed` records each entry of a list that frees what is not there, what
the list has freed before, or what is pointed to from memory it has freed before.
`checkShutdown` is four steps, since nothing protects the two reads, the test of the
handler and the removal. `deleteContext` is one step or an exception: its
inside is `LibaioContext`. `SettledNew` says that clients construct no context while a
thread is between the two reads of `checkShutdown`; `doc_handler_race` shows why it is
needed. `JNI_OnUnload` can happen only when no library was accepted, for otherwise the
registered shutdown hook keeps the class.

### LibaioFile

Each object has a thread of its own and a descriptor number; `table` is the kernel's
view of the numbers. A number given to a system call stands for whatever has it
now (`Behind`), so that a stale number acts on a foreign file. A close that reports an
error has closed the descriptor, as on Linux. The kernel keeps the file of a write it
accepted; `fdatasync` goes by number again. `fill` is split at the mutex, the
allocation and the `memset` of the shared buffer, and at every `write`; a file's size
is counted in such writes, and a short write adds nothing (less than a whole one).
Asynchronous writes are taken to lie inside the file and do not change its size.
The client closes an object with none of its writes pending. Nothing stops it
from closing once more: `LibaioFile.close` goes to the kernel with the number it kept, and
takes the descriptor, and with it the lock, from whatever object has that number by
then (`Robbed`). `clashed` has the objects damaged in this way, those that later get a
number a damaged object still uses, and the ones they damage in turn; `target` is the
file the kernel really found for a write. The native memory of buffers is left out: the
library keeps no account of it. What the
permits, the pool and the closing do is in `LibaioContext` and left out here.

### AioRing

There is one reader. A call of `io_getevents` may be interrupted by a signal: with no
event so far it fails, with fewer than `min` it returns those (`io_geteventsInterrupted`).
The reader reads `head`, reads `tail`, decides, copies the events one
at a time, and stores `head`, each a step of its own; the kernel writes an event
and publishes `tail` in two steps; `forceSysCall` may be switched between any two of
them. Events are numbered as they are posted, so `BatchInOrder` is a statement
about loss, repetition and order. `CallHonoured` says that a call gives at most what it
has room for, and fewer than `min` events only after such an interruption. The difference of the unsigned indices is taken
as an integer: both are below `nr`, which is far below 2^31. The kernel never has
more events in the ring than there are iocbs. It may have the defect the code works
around (C 157-172): for a moment the reader may find any `tail` that makes at least
`max` events seem available (`TailsSeen`). `BatchInOrder` then says that the
workaround is sufficient against that defect; a wrong tail that shows fewer events
than `max` is not covered by the code, nor by the model.

### IocbPool and CallbackCache

Both are circular arrays with separately maintained indices and count, both run
under a lock, so every operation is one step. In `IocbPool` the clients give back
only what they hold; `LibaioContext` checks that they do. `CallbackCache` has no
such rule: a client may put an object twice.

## What TLC checks

| Run | Instance | Shows |
|---|---|---|
| `pool` | 4 iocbs | no index out of bounds, no sharing, no leak, NULL exactly when all are out; refines `AbstractIocbPool` |
| `cache` | 4 slots, 3 objects | no index out of bounds, no exception; refines `BoundedFifo` |
| `ring` | 5 slots, 3 in flight, 9 events, calls of all kinds, wrong tails | order and completeness of every batch; refines `AbstractEventQueue`; every posted event is read in the end |
| `context_safety` | queue 2, 2 submitters, 3 requests, 2 closers, both polling modes, with and without the semaphore; request errors, callbacks that throw, interruption, refused submissions, failing `io_getevents` | no use after free, no double free, no abandoned request, single and durable completion, errors reported, exact references, permits conserved, pool used as specified, no deadlock |
| `context_live` | blocked poll, close, request errors | requests complete, submissions settle, close stops the poll |
| `context_timeout` | null callback, callbacks that throw, refused submissions, failing `fdatasync`, close that gives up | close comes back; permits are lost only where the model says so |
| `library` | 3 contexts, queue 2, 2 libraries, every failure, the hook | the dumb file outlives the contexts and is removed after them; each failure path, and `deleteContext`, frees what there is, once, and leaves nothing but what is named below |
| `files` | 3 objects, two of them on one file, second closes, 3 fills, preallocations or writes, fills of 2 blocks | a lock has one owner, who keeps it, writes reach their own file, completion means durability, filled files are right |

Bounds. Two permits and three requests are the least with which the queue is full
while another request waits, an iocb is reused while another is out, structures
come back in another order, and a batch holds events of two files. Nine events go
almost twice around a ring of five slots, from every alignment, and five slots for
three requests leave room for a wrong tail. In `context_safety` the lock-free
`poll(callbacks, 1, 2)` also races `close()`: only the permits protect it. With three
contexts one can be closed by the last closer's rival while a third fails. Three objects
are the least with which two compete for the lock of a file while a number goes to an
object of another file, and two blocks the least for a fill to fail half way. `MaxTasks`
bounds the fills, preallocations and writes a client begins: with three, both objects
that fill can do so at the same time and one of them once more, or beside a write.
Each instance is
explored completely.

Deadlock is checked in `pool`, `cache`, `ring` and `context_safety`. It is not in the
others, where the program really may stop: in `context_live` a `close()` that comes
before any poll waits for requests nobody polls for, in `context_timeout` lost permits
leave submitters waiting, and in `library` and `files` every object ends closed.

Fairness (`FairSpec`): threads that are not blocked run on, the kernel completes
what it accepted, `tryAcquire` comes back after its time-out, and the client keeps a
thread in `poll()`, as the documentation of `poll()` requires. Nobody is obliged to
submit, close or fail. Only weak fairness is used for the context: the semaphore is
not a fair one, but finitely many requests compete. In `AioRing` strong fairness of
the successful read says that not every `io_getevents` is interrupted.

### Where code and documentation disagree

Four runs are violated on purpose; each states what a comment or document says.

* `doc_permit_leak`: a refused `io_submit` (or a full queue) keeps its permit, so
  that later submitters wait on an empty queue.
* `doc_poll_close_race`: `close()` between the closed check of `poll()` and
  `pollLock` leaves `blockedPoll` with freed memory.
* `doc_dumb_handler`: `closeDumbHandlers` closes descriptor 0 in place of its own.
* `doc_handler_race`: a closer reads `contexts` as 0, another thread constructs a
  context, the shutdown begins, the closer reads `shuttingDown` and removes the dumb
  file from under the new context.

### Observations

The models contain the following behaviour too, but no run states a property that it
breaks.

* The result of `fdatasync` is dropped (C 831): with the fault, `done()` is called for a
  write that is not durable, without `onError`. `DoneIsDurable` is checked without it.
* A null callback is taken for a duplicate event (`invalidRecord`, C 863-869): its
  iocb and permit are lost, `forceSysCall` is set for the process, and the message
  blames the kernel.
* A `done()` that throws keeps its permit (`infoDoneFails`). An `onError` that throws in
  `poll(callbacks, min, max)` costs all the permits of the batch (`pollArrayThrows`,
  J 350-353), and the client does not learn how many callbacks are in its array.
* With an exception pending, later failures of the same poll may go unreported, since
  the native code neither checks for it nor clears it (C 851, 907).
* A submitter that has passed the closed check (J 209) and waits for a permit when
  `close()` takes them all waits until it is interrupted.
* `poll(callbacks, min, max)` returns a negative error when a signal interrupts
  `io_getevents` (`pollArrayFails`), or fewer events than `min` (`pollArrayGet`), where the
  documentation says it blocks until `min` is reached (J 343).
* `totalMaxIO` is reduced before `deleteContext`, which may throw and leave the queue
  allocated; `contexts` then stays too high. So it does when `newContext` throws
  (J 179-180). In both cases the dumb file is never removed.
* A context constructed after the hook has run has no dumb file at all.
* With standard input closed at the start, the dumb file gets descriptor 0, which
  `closeDumbHandlers` takes for "no handler".
* Failing after `mkstemp`, `JNI_OnLoad` leaves the temporary file behind.
* Failure paths of `newContext` do not destroy the mutexes, and a failed
  `io_queue_init` is followed by `io_queue_release` of a queue that was not set up
  (C 563-567). `NothingOrphaned` names both as exceptions, the latter as the only entry
  of `misfreed`.
* When `NewDirectByteBuffer` returns null, the constructor succeeds with a null
  `ioContext`, and nothing of what was allocated is ever freed (`nobuffer`).
* A second `close()` of a `LibaioFile` closes whatever has its old number by then
  (`LibaioFile.java` 55-58): the other object loses its lock, and its writes, fills and
  its own close go to whatever gets the number next. The test that closes twice
  (`LibaioTest.java` 561-569) expects an `IOException`, which comes only while the number
  is free. `LockKept`, `WrittenToOwnFile`, `DurableOnFile` and `FilledAsAsked` leave out the
  objects in `clashed`; without that the first two are violated.
* `fill` ignores that `verifyBuffer` found no memory. If another thread has allocated
  the buffer since and not yet cleared it, what is written is not zeros;
  `FilledAsAsked` excepts this fill. The `OutOfMemoryError` that `LibaioFile.fill` waits
  for is never thrown.
* A short write in `fill` counts like a full one; `FilledAsAsked` excepts it too.
* `write` is documented to return false on a full queue (`LibaioFile.java` 70); it
  returns nothing and throws.

When `tryAcquire` in `close()` times out, the context is deleted with requests under
way (`drainTimeout`, only in `context_timeout`). The safety properties of
`context_safety` are about a close that got its permits.

## What is proved

All proofs are for every value of the constants under the modules' assumptions: any
queue size, any number of threads, requests, files and contexts. Every invariant and
every refinement of the passing runs is a theorem. Each proof has the same shape: an
inductive invariant, one lemma per conjunct (or per action) that a step keeps it, and
the properties as consequences. TLC has checked each inductive invariant on the
instances of the runs.

* `IocbPoolProofs` (`QueueSize` positive): `PoolInv` is inductive. `TypeOK` and
  the relation of the indices (`IndicesAgree`) are not enough, since a put writes to
  a slot the get index will reach later: the invariant also says that the slots
  between get and put hold each free structure exactly once and that `used` is the
  number of structures out. From it follow `NoSharing`, `NoLeak`,
  `NullOnlyWhenAllHeld` and the refinement of `AbstractIocbPool`.
* `AioRingProofs` (`QueueSize < Nr`): `RingInv` is inductive. Besides the
  counters it says what each unread slot holds and where the reader stands in its
  copy. The central facts are that the kernel's slot is never an unread one, which
  needs `QueueSize < Nr`, and that the copy loop without the modulo stays below
  `Nr` (`SlotAtNext`). It gives `TypeOK`, `CountsAgree`, `CopyInOrder` and
  `BatchInOrder`, also against the kernel with the wrong tail. `CallTracked` adds what
  a call was asked for, which gives `CallHonoured`, interrupted calls included. For the refinement of
  `AbstractEventQueue` the unread slots are shown to be the run of event numbers after
  those consumed (`UnreadIsRun`); a step of the kernel makes the run longer, a read
  splits it.
* `CallbackCacheProofs` (any size, 0 included): `CacheInv` is inductive, hence
  `NeverThrows`, and the cache refines `BoundedFifo`.
* `LibaioContextProofs`: `CoreInv` says where each structure is (pool, submitter, kernel,
  ring, batch, closer; in one of them only) and where each request is, and holds with
  every fault. It uses the invariant of the pool (`P!PoolInv`) for the structures that
  are out, those held and those the code has dropped. `DeliveryInv` adds
  the references, the errors under way and what `fdatasync` has covered. `ToldOnce` is not
  inductive without it: an iocb goes back to the pool before `done()` is called, and only
  the place of every request shows that its next user is another one. `TypeOK`,
  `ToldOnce`, `RefsExact` and `ErrorsReported` (which leaves out the events treated after
  a callback of the same poll threw) hold without further hypotheses, `DoneIsDurable`
  where `fdatasync` does not fail: the code drops its result.
* `LibaioContextCloseProofs`: `CloseInv` adds the balance of the permits and a bound on the
  structures in use. The central lemma (`Quiet`) is that a closer with all the
  permits is alone: no request is pending, no submitter is in native code, no
  `poll(callbacks)` is under way. From there on at most one structure is out, the one of the
  dumb write, and it goes back to the slot it came from (`Unshuffled`), so that
  `iocb_destroy` frees each structure once although the array was permuted before.
  The theorems are `PermitsConserved`, `NoOvercommit`, `NoRequestAbandoned`,
  `EachIocbFreedOnce`, `NoUseAfterFree` and the refinement of `IocbPool` (`PoolProtocol`), each
  with the hypotheses it needs:
  - `PermitsCount`: `poll(callbacks)` releases a permit for every event, so the balance
    holds with it only if there are no null callbacks and no dumb write it could
    read; with `poll()` alone it holds always;
  - `PermitsRule`: also, `tryAcquire` does not time out;
  - `NoUseAfterFree` also needs `SettledClose` (see `doc_poll_close_race`), the refinement
    that there are no null callbacks, whose iocbs are dropped.

  The constants of `context_safety` satisfy all of them.
* `LibaioFileProofs`: `FileInv` is inductive. It says that, but for the objects in
  `clashed`, objects and descriptor table agree number by number (`DescriptorsAgree`), so
  that a pending write's number keeps its meaning (`PendingIntact`), and that the
  shared buffer is other than zeros only while the holder of the mutex clears it
  (`BufferGuarded`). It gives `LockKept`, `WrittenToOwnFile`, `DurableOnFile` and
  `FilledAsAsked`, with second closes at any moment.
* `NativeLibraryProofs`: `LibraryInv` is inductive. `contexts` and `totalMaxIO` are the
  cardinalities of sets of contexts (`CountersExact`); while the file is there and nobody
  needs it, some thread is on its way to remove it (`RemovalPending`, which gives
  `HandlerRemoved`); a thread past the two tests of `checkShutdown` came when the contexts
  from before the shutdown were gone (`RemovalSafe`). `HandlerOutlivesContext` is proved
  under `SettledNew`, without which it is false (`doc_handler_race`); `TypeOK`,
  `HandlerRemoved` and `NothingOrphaned` are proved with every failure; for the last one
  each of the seven lists and the one of `deleteContext` is gone through entry by entry
  (the pool up to any `QueueSize`).

Assumptions on constants beyond the obvious ones: that the ring has more slots than the
queue (the kernel rounds up and adds), and that model values such as `None` and `Dumb`
are different from requests, files and threads. `io_getevents` refuses a `min` above `max`,
as the kernel does.

Only model-checked: the five liveness properties (`AllEventsRead`, `AcceptedIsDone`,
`SubmissionSettles`, `CloseStopsPoll`, `CloseReturns`) and the absence of deadlock, since
fairness and `ENABLED` are out of the prover's reach; and the four runs that are violated.

## Not modelled, and the plan

Not modelled: the aligned buffers (`newAlignedBuffer`, `freeBuffer`, `memsetBuffer`), each of
which is one call of the C library on memory that only the client accounts for; `getSize`, `getBlockSize`, `getBlockSizeFD`, `getNativeVersion` and
`isForceSyscall`, which read one value; `resetMaxAIO`, for tests; the throwing helpers of
`exception_helper.h`, formatting of messages and logging, which have no state. An
exception is an outcome of the step that throws it. Callbacks that submit or close are
client code: a callback that waits for its own context waits for its own thread.

What could be added: action properties of the context (what a thread may do to the
structures of another), and the composition of `AioRing` with `LibaioContext`, in which the
ring is a sequence that is read in one step, as `AbstractEventQueue` justifies.
