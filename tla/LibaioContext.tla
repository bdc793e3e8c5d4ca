----------------------------- MODULE LibaioContext -----------------------------
(***************************************************************************)
(* One LibaioContext and its native io_control: threads that submit reads  *)
(* and writes, the kernel that completes them in any order, the polling    *)
(* thread (either the blocking poll() loop or poll(callbacks, min, max)),  *)
(* and the threads that close the context.                                 *)
(*                                                                         *)
(* A thread's state names the next thing it will do.  The steps are the    *)
(* critical sections and the calls at which another thread can see a       *)
(* difference: an AtomicBoolean or Semaphore operation, a section under    *)
(* iocbLock, a system call, a Java callback.  The iocb pool is module      *)
(* IocbPool.  The completion ring is a queue here: ringio_get_events takes *)
(* its events from the front.  The counters totalMaxIO and contexts and    *)
(* the life of the dumb file belong to all contexts: module NativeLibrary. *)
(***************************************************************************)
EXTENDS Integers, Sequences, FiniteSets

CONSTANTS
  QueueSize,      \* size of the libaio queue, of the pool and of the semaphore
  Submitters,     \* threads that call write or read
  Closers,        \* threads that call close
  Requests,       \* the submissions; each carries a callback of its own ...
  NullRequests,   \* ... except these, whose callback is null
  WriteRequests,  \* the requests that are writes; the others are reads
  FileOf,         \* the file of each request
  SemaphoreModes, \* values the constructor argument useSemaphore may have
  UseFdatasync,   \* constructor argument useFdatasync
  PollModes,      \* how the polling thread polls: "blocked", "array"
  PollMin,        \* min and max of poll(callbacks, min, max)
  PollMax,
  Faults,         \* failures that may happen, see FaultKinds
  SettledClose,   \* clients close only while no thread is entering a poll
  None, Dumb      \* NULL, and the marks of deleteContext's dumb write
                  \* (its descriptor and the (void *) -1 in its data)

FaultKinds == {
  "interrupt",    \* a submitter is interrupted in Semaphore.acquire
  "submit",       \* io_submit returns an error
  "io",           \* a request completes with an error
  "getevents",    \* io_getevents returns an error
  "fdatasync",    \* fdatasync returns an error
  "callback",     \* SubmitInfo.done() or onError() throws
  "timeout" }     \* close goes on without the permits

ASSUME ContextAssumption ==
  /\ QueueSize \in Nat \ {0}
  /\ NullRequests \subseteq Requests
  /\ WriteRequests \subseteq Requests
  /\ SemaphoreModes \subseteq BOOLEAN /\ UseFdatasync \in BOOLEAN
  /\ PollModes \subseteq {"blocked", "array"}
  /\ PollMin \in Nat /\ PollMax \in Nat /\ PollMin <= PollMax /\ PollMax > 0
  /\ Faults \subseteq FaultKinds
  /\ SettledClose \in BOOLEAN
  /\ IsFiniteSet(Submitters) /\ IsFiniteSet(Requests)
  /\ None # Dumb /\ None \notin Requests \cup Nat /\ Dumb \notin Requests
  /\ None # "poller" /\ \A r \in Requests : FileOf[r] \notin {None, Dumb}

VARIABLES
  closed,           \* LibaioContext.closed
  ioSpace,          \* permits of the semaphore, None without a semaphore
  forfeited,        \* permits that a poll(callbacks, min, max) that threw did
                    \* not release
  forceSysCall,     \* native global
  control,          \* the io_control: "live" or "freed"
  iocb, iocbPut, iocbGet, used,  \* the pool in the io_control
  aio,              \* contents of each iocb: operation, aio_fildes, data
  pollLock,         \* control->pollLock
  kernel,           \* iocbs the kernel is working on
  ring,             \* completed events not yet read
  sub,              \* the submitters
  poller,           \* the polling thread
  closer,           \* the closers
  outcome,          \* what became of each request
  failedIO,         \* requests the kernel completed with an error
  errored,          \* requests whose onError was called
  masked,           \* requests that failed and whose event was treated while
                    \* an exception was pending
  unsynced,         \* completed writes no fdatasync has covered yet
  refs              \* callbacks with a JNI global reference

javaVars == <<closed, ioSpace, forfeited>>
nativeVars == <<forceSysCall, control, pollLock>>
poolVars == <<iocb, iocbPut, iocbGet, used>>
kernelVars == <<kernel, ring>>
threadVars == <<sub, poller, closer>>
historyVars == <<outcome, failedIO, errored, masked, unsynced, refs>>
vars == <<javaVars, nativeVars, poolVars, aio, kernelVars, threadVars,
          historyVars>>

Poller == "poller"   \* owner of pollLock
Iocbs == 0 .. QueueSize - 1
Events == [obj : Iocbs, res : {"ok", "error"}]

\* iocb->data of a request: NewGlobalRef of a null callback is NULL.
CallbackOf(r) == IF r \in NullRequests THEN None ELSE r

Objs(events) == {events[k].obj : k \in DOMAIN events}

\* The structures that are out of the pool, by who has them.
Held ==
  {sub[s].iocb : s \in {t \in Submitters : sub[t].pc = "prep"}}
    \cup {closer[c].iocb : c \in {d \in Closers : closer[d].pc = "dumb"}}
    \cup kernel \cup Objs(ring) \cup Objs(poller.batch)

Pool == INSTANCE IocbPool WITH held <- Held

\* if (ioSpace != null)
HasSemaphore == ioSpace # None

\* Mutated form: the permits are not given back.
ReleasedNone(n) == ioSpace

\* ioSpace.release(n), where there is a semaphore.
Released(n) == IF HasSemaphore THEN ioSpace + n ELSE ioSpace

-------------------------------------------------------------------------------
IdleSubmitter == [pc |-> "idle", req |-> None, iocb |-> None]
IdlePoller ==
  [pc |-> "idle", batch |-> <<>>, lastFile |-> None, obj |-> None, result |-> 0,
   pending |-> FALSE]

\* The state when the constructor has returned.
Init ==
  /\ closed = FALSE
  /\ ioSpace \in {IF useSemaphore THEN QueueSize ELSE None :
                    useSemaphore \in SemaphoreModes}
  /\ forfeited = 0
  /\ forceSysCall = FALSE
  /\ control = "live"
  /\ pollLock = None
  /\ iocb = [i \in Iocbs |-> i]
  /\ iocbPut = 0 /\ iocbGet = 0 /\ used = 0
  /\ aio = [i \in Iocbs |-> [op |-> None, fildes |-> None, data |-> None]]
  /\ kernel = {} /\ ring = <<>>
  /\ sub = [s \in Submitters |-> IdleSubmitter]
  /\ poller = IdlePoller
  /\ closer = [c \in Closers |-> [pc |-> "idle", iocb |-> None, drained |-> FALSE]]
  /\ outcome = [r \in Requests |-> "new"]
  /\ failedIO = {} /\ errored = {} /\ masked = {}
  /\ unsynced = {} /\ refs = {}

-------------------------------------------------------------------------------
(***************************************************************************)
(* Submitters: submitWrite and submitRead, Java part and native part.      *)
(***************************************************************************)

\* Leave the submission, the caller having been told that it failed: in Java
\* ("rejected") or in the native method, with the permit taken ("refused").
Reject(s, how) ==
  /\ outcome' = [outcome EXCEPT ![sub[s].req] = how]
  /\ sub' = [sub EXCEPT ![s] = IdleSubmitter]

\* The Java method: the closed flag is read once, before the semaphore.
startSubmit(s, r) ==
  /\ sub[s].pc = "idle" /\ outcome[r] = "new"
  /\ IF closed
     THEN /\ outcome' = [outcome EXCEPT ![r] = "rejected"]
          /\ UNCHANGED sub
     ELSE /\ outcome' = [outcome EXCEPT ![r] = "submitting"]
          /\ sub' = [sub EXCEPT ![s] = [pc |-> "acquire", req |-> r, iocb |-> None]]
  /\ UNCHANGED <<javaVars, nativeVars, poolVars, aio, kernelVars, poller,
                 closer, failedIO, errored, masked, unsynced, refs>>

submitWrite(s) == \E r \in WriteRequests : startSubmit(s, r)

submitRead(s) == \E r \in Requests \ WriteRequests : startSubmit(s, r)

\* ioSpace.acquire()
acquire(s) ==
  /\ sub[s].pc = "acquire"
  /\ HasSemaphore => ioSpace > 0
  /\ ioSpace' = IF HasSemaphore THEN ioSpace - 1 ELSE ioSpace
  /\ sub' = [sub EXCEPT ![s].pc = "native"]
  /\ UNCHANGED <<closed, forfeited, nativeVars, poolVars, aio, kernelVars,
                 poller, closer, historyVars>>

\* InterruptedException, rethrown as IOException
acquireInterrupted(s) ==
  /\ "interrupt" \in Faults /\ HasSemaphore
  /\ sub[s].pc = "acquire"
  /\ Reject(s, "rejected")
  /\ UNCHANGED <<javaVars, nativeVars, poolVars, aio, kernelVars, poller,
                 closer, failedIO, errored, masked, unsynced, refs>>

\* The native method finds no iocb and throws.
nativeFull(s) ==
  /\ sub[s].pc = "native" /\ control = "live"
  /\ Pool!Exhausted
  /\ Reject(s, "refused")
  /\ UNCHANGED <<javaVars, nativeVars, poolVars, aio, kernelVars, poller,
                 closer, failedIO, errored, masked, unsynced, refs>>

nativeGet(s) ==
  /\ sub[s].pc = "native" /\ control = "live"
  /\ \E i \in Iocbs : /\ Pool!getIOCB(i)
                      /\ sub' = [sub EXCEPT ![s].pc = "prep", ![s].iocb = i]
  /\ UNCHANGED <<javaVars, nativeVars, aio, kernelVars, poller, closer,
                 historyVars>>

\* io_prep_pwrite or io_prep_pread fills the iocb; iocb->data becomes a global
\* reference to the callback.
Fill(s, op) ==
  aio' = [aio EXCEPT ![sub[s].iocb] = [op |-> op, fildes |-> FileOf[sub[s].req],
                                       data |-> CallbackOf(sub[s].req)]]

prepWrite(s) == sub[s].req \in WriteRequests /\ Fill(s, "pwrite")

prepRead(s) == sub[s].req \notin WriteRequests /\ Fill(s, "pread")

prep(s) == prepWrite(s) \/ prepRead(s)

\* Mutated form: the callback is kept without a global reference.
NewGlobalRefNot(r) == refs

NewGlobalRef(r) == refs \cup ({r} \ NullRequests)

\* io_submit accepts the request.  Nothing of the io_control is touched by
\* the submitter after that.
nativeSubmit(s) ==
  /\ sub[s].pc = "prep"
  /\ prep(s)
  /\ refs' = NewGlobalRef(sub[s].req)
  /\ kernel' = kernel \cup {sub[s].iocb}
  /\ outcome' = [outcome EXCEPT ![sub[s].req] = "inflight"]
  /\ sub' = [sub EXCEPT ![s] = IdleSubmitter]
  /\ UNCHANGED <<javaVars, nativeVars, poolVars, ring, poller, closer,
                 failedIO, errored, masked, unsynced>>

\* io_submit refuses the request: the global reference is deleted and the
\* iocb put back before the exception.  The permit stays taken.
nativeSubmitFails(s) ==
  /\ "submit" \in Faults
  /\ sub[s].pc = "prep"
  /\ prep(s)
  /\ Pool!putIOCB(sub[s].iocb)
  /\ Reject(s, "refused")
  /\ UNCHANGED <<javaVars, nativeVars, kernelVars, poller, closer, failedIO,
                 errored, masked, unsynced, refs>>

-------------------------------------------------------------------------------
(***************************************************************************)
(* The kernel finishes its requests in any order.  The dumb write, of size *)
(* 0, does not fail.                                                       *)
(***************************************************************************)
complete(i, res) ==
  LET r == aio[i].data IN
  /\ i \in kernel
  /\ res = "error" => "io" \in Faults /\ r # Dumb
  /\ kernel' = kernel \ {i}
  /\ ring' = Append(ring, [obj |-> i, res |-> res])
  /\ outcome' = IF r \in Requests
                THEN [outcome EXCEPT ![r] = "completed"] ELSE outcome
  /\ failedIO' = IF res = "error" THEN failedIO \cup ({r} \cap Requests)
                                  ELSE failedIO
  /\ unsynced' = IF res = "ok" /\ aio[i].op = "pwrite"
                 THEN unsynced \cup ({r} \cap Requests) ELSE unsynced
  /\ UNCHANGED <<javaVars, nativeVars, poolVars, aio, threadVars, errored,
                 masked, refs>>


-------------------------------------------------------------------------------
(***************************************************************************)
(* The polling thread in poll(), that is blockedPoll.                      *)
(***************************************************************************)

\* poll() looks at the closed flag and calls the native method.
poll ==
  /\ "blocked" \in PollModes
  /\ poller.pc = "idle" /\ ~closed
  /\ poller' = [poller EXCEPT !.pc = "enter"]
  /\ UNCHANGED <<javaVars, nativeVars, poolVars, aio, kernelVars, sub, closer,
                 historyVars>>

lockPoll ==
  /\ poller.pc = "enter" /\ control = "live" /\ pollLock = None
  /\ pollLock' = Poller
  /\ poller' = [poller EXCEPT !.pc = "events"]
  /\ UNCHANGED <<javaVars, forceSysCall, control, poolVars, aio, kernelVars, sub,
                 closer, historyVars>>

\* ringio_get_events takes what is there, up to max.
Count(max) == IF Len(ring) < max THEN Len(ring) ELSE max

Taken(max) == SubSeq(ring, 1, Count(max))

\* Mutated form: the consumed events stay in the ring.
LeftAll(max) == ring

Left(max) == SubSeq(ring, Count(max) + 1, Len(ring))

\* Mutated form: a full batch is waited for.
EnoughForBatch == Len(ring) >= QueueSize

\* blockedPoll asks for at least one event.
Enough == Len(ring) >= 1

\* Mutated form: lastFile survives from the previous batch.
LastFileKept == poller.lastFile

\* lastFile = -1 before the events of a batch are treated.
LastFileReset == None

\* A successful ringio_get_events.  The loop goes on by itself after -EINTR,
\* which is a step that changes nothing.
getEvents ==
  /\ poller.pc = "events" /\ Enough
  /\ poller' = [poller EXCEPT !.pc = "loop", !.lastFile = LastFileReset,
                              !.batch = Taken(QueueSize)]
  /\ ring' = Left(QueueSize)
  /\ UNCHANGED <<javaVars, nativeVars, poolVars, aio, kernel, sub, closer,
                 historyVars>>

\* Any other error ends the loop with an exception.
getEventsFails ==
  /\ "getevents" \in Faults
  /\ poller.pc = "events"
  /\ pollLock' = None
  /\ poller' = IdlePoller
  /\ UNCHANGED <<javaVars, forceSysCall, control, poolVars, aio, kernelVars, sub,
                 closer, historyVars>>

Event == Head(poller.batch)
Fildes == aio[Event.obj].fildes
Data == aio[Event.obj].data

\* The dumb write arrived: the loop ends, the rest of the batch is forgotten.
stopOnDumb ==
  /\ poller.pc = "loop" /\ Fildes = Dumb
  /\ Pool!putIOCB(Event.obj)
  /\ pollLock' = None
  /\ poller' = IdlePoller
  /\ UNCHANGED <<javaVars, forceSysCall, control, aio, kernelVars, sub, closer,
                 historyVars>>

\* Completed writes that fdatasync(f) makes durable; its result is ignored.
fdatasync(f) ==
  \/ unsynced' = {r \in unsynced : FileOf[r] # f}
  \/ "fdatasync" \in Faults /\ UNCHANGED unsynced

\* fdatasync, once for each run of events of the same file in the batch.
sync ==
  IF UseFdatasync /\ poller.lastFile # Fildes
  THEN fdatasync(Fildes) ELSE UNCHANGED unsynced

\* Mutated form: the error is forgotten.
onErrorSkipped == UNCHANGED <<errored, masked>>

\* SubmitInfo.onError of a failed event.  A Java method called while an
\* exception is pending may not be run: JNI leaves that open.
onError ==
  LET failed == IF Event.res = "error" THEN {Data} \cap Requests ELSE {} IN
  /\ masked' = IF poller.pending THEN masked \cup failed ELSE masked
  /\ \/ errored' = errored \cup failed
     \/ poller.pending /\ UNCHANGED errored

\* onError itself throws: nobody looks for the exception, or clears it, before
\* the native method returns.
OnErrorMayThrow ==
  "callback" \in Faults /\ Event.res = "error" /\ Data \in Requests

\* Where the loop goes on when the events of batch are still to be treated.
Continue(batch) == IF batch = <<>> THEN "events" ELSE "loop"

\* An event of a request: sync, report the error, clear data, put the iocb
\* back.  What is left to do for obj comes after putIOCB.
handleEvent ==
  /\ poller.pc = "loop" /\ Fildes # Dumb /\ Data # None
  /\ sync
  /\ onError
  /\ aio' = [aio EXCEPT ![Event.obj].data = None]
  /\ Pool!putIOCB(Event.obj)
  /\ \E throws \in {FALSE, OnErrorMayThrow} :
       poller' = [poller EXCEPT !.pc = "done", !.obj = Data,
                         !.batch = Tail(poller.batch),
                         !.lastFile = IF UseFdatasync THEN Fildes ELSE @,
                         !.pending = @ \/ throws]
  /\ UNCHANGED <<javaVars, nativeVars, kernelVars, sub, closer, outcome,
                 failedIO, refs>>

\* An event whose iocb has no data: it is taken for a duplicate.  Nothing is
\* put back, no permit is released, and every context of the process reads
\* its events by system calls from now on.
invalidRecord ==
  /\ poller.pc = "loop" /\ Fildes # Dumb /\ Data = None
  /\ sync
  /\ forceSysCall' = TRUE
  /\ poller' = [poller EXCEPT !.pc = Continue(Tail(poller.batch)),
                       !.batch = Tail(poller.batch),
                       !.lastFile = IF UseFdatasync THEN Fildes ELSE @]
  /\ UNCHANGED <<javaVars, control, pollLock, poolVars, aio, kernelVars, sub,
                 closer, outcome, failedIO, errored, masked, refs>>

\* The client is told about r; telling it of a request that is not complete,
\* or twice, corrupts its state.
Tell(r, how) ==
  outcome' = [outcome EXCEPT ![r] = IF @ = "completed" THEN how ELSE "corrupt"]

\* LibaioContext.done, first line: info.done()
infoDone ==
  /\ poller.pc = "done"
  /\ Tell(poller.obj, "done")
  /\ poller' = [poller EXCEPT !.pc = "release"]
  /\ UNCHANGED <<javaVars, nativeVars, poolVars, aio, kernelVars, sub, closer,
                 failedIO, errored, masked, unsynced, refs>>

\* info.done() throws, or is not run because an exception is pending: no
\* permit is released, the native loop goes on with the exception pending.
infoDoneFails ==
  /\ poller.pc = "done"
  /\ \/ "callback" \in Faults /\ Tell(poller.obj, "threw")
     \/ poller.pending /\ Tell(poller.obj, "lost")
  /\ refs' = refs \ {poller.obj}
  /\ poller' = [poller EXCEPT !.pc = Continue(poller.batch), !.obj = None,
                              !.pending = TRUE]
  /\ UNCHANGED <<javaVars, nativeVars, poolVars, aio, kernelVars, sub, closer,
                 failedIO, errored, masked, unsynced>>

\* LibaioContext.done, ioSpace.release(), and then DeleteGlobalRef.
release ==
  /\ poller.pc = "release"
  /\ ioSpace' = Released(1)
  /\ refs' = refs \ {poller.obj}
  /\ poller' = [poller EXCEPT !.pc = Continue(poller.batch), !.obj = None]
  /\ UNCHANGED <<closed, forfeited, nativeVars, poolVars, aio, kernelVars, sub,
                 closer, outcome, failedIO, errored, masked, unsynced>>

-------------------------------------------------------------------------------
(***************************************************************************)
(* The polling thread in poll(callbacks, min, max).  It takes no lock and  *)
(* does not look at the closed flag; the client calls it only to wait for  *)
(* requests that are on their way.                                         *)
(***************************************************************************)
Pending == {r \in Requests : outcome[r] \in {"inflight", "completed"}}

pollArray ==
  /\ "array" \in PollModes
  /\ poller.pc = "idle"
  /\ Pending # {} /\ Cardinality(Pending) >= PollMin
  /\ poller' = [poller EXCEPT !.pc = "aevents"]
  /\ UNCHANGED <<javaVars, nativeVars, poolVars, aio, kernelVars, sub, closer,
                 historyVars>>

ContinueArray(batch) == IF batch = <<>> THEN "areturn" ELSE "aloop"

\* A signal after the first event makes ringio_get_events return with fewer
\* than min.
pollArrayGet ==
  /\ poller.pc = "aevents" /\ control = "live"
  /\ Len(ring) >= PollMin \/ ("getevents" \in Faults /\ ring # <<>>)
  /\ poller' = [poller EXCEPT !.pc = ContinueArray(Taken(PollMax)),
                              !.batch = Taken(PollMax),
                              !.result = Count(PollMax)]
  /\ ring' = Left(PollMax)
  /\ UNCHANGED <<javaVars, nativeVars, poolVars, aio, kernel, sub, closer,
                 historyVars>>

\* Interrupted or failed: the negative result goes to the caller.
pollArrayFails ==
  /\ "getevents" \in Faults
  /\ poller.pc = "aevents" /\ control = "live"
  /\ poller' = [poller EXCEPT !.pc = "areturn", !.result = -1]
  /\ UNCHANGED <<javaVars, nativeVars, poolVars, aio, kernelVars, sub, closer,
                 historyVars>>

\* One event: report the error, hand the callback over, drop the reference,
\* put the iocb back.  data keeps its value.
pollArrayEvent ==
  /\ poller.pc = "aloop"
  /\ onError
  /\ IF Data \in Requests
     THEN Tell(Data, "delivered") /\ refs' = refs \ {Data}
     ELSE UNCHANGED <<outcome, refs>>
  /\ Pool!putIOCB(Event.obj)
  /\ \E throws \in {FALSE, OnErrorMayThrow} :
       poller' = [poller EXCEPT !.pc = ContinueArray(Tail(poller.batch)),
                                !.batch = Tail(poller.batch),
                                !.pending = @ \/ throws]
  /\ UNCHANGED <<javaVars, nativeVars, aio, kernelVars, sub, closer, failedIO,
                 unsynced>>

\* Mutated form: the room in the array counts, not what was put into it.
ReturnedRoom == IF poller.result > 0 THEN PollMax ELSE 0

\* The callbacks returned; an error is a negative result.
Returned == IF poller.result > 0 THEN poller.result ELSE 0

\* Back in Java: as many permits as events are released.
pollArrayReturn ==
  /\ poller.pc = "areturn" /\ ~poller.pending
  /\ ioSpace' = Released(Returned)
  /\ poller' = IdlePoller
  /\ UNCHANGED <<closed, forfeited, nativeVars, poolVars, aio, kernelVars, sub,
                 closer, historyVars>>

\* An onError of the batch threw: the exception takes the place of the result,
\* the callbacks are in the array, and no permit of the batch is released.
pollArrayThrows ==
  /\ poller.pc = "areturn" /\ poller.pending
  /\ forfeited' = forfeited + Returned
  /\ poller' = IdlePoller
  /\ UNCHANGED <<closed, ioSpace, nativeVars, poolVars, aio, kernelVars, sub,
                 closer, historyVars>>

-------------------------------------------------------------------------------
(***************************************************************************)
(* close() and deleteContext.                                              *)
(***************************************************************************)

\* What the client promises about the moment it closes the context.  Without
\* a semaphore nothing but the client keeps requests away from the deletion.
CloseAllowed ==
  /\ SettledClose => poller.pc # "enter"
  /\ HasSemaphore \/ /\ Pending = {}
                     /\ \A s \in Submitters : sub[s].pc = "idle"
                     /\ poller.pc \notin {"aevents", "aloop", "areturn"}

Goto(c, pc) == closer' = [closer EXCEPT ![c].pc = pc]

\* closed.getAndSet(true)
close(c) ==
  /\ closer[c].pc = "idle" /\ CloseAllowed
  /\ closed' = TRUE
  /\ Goto(c, IF closed THEN "returned" ELSE "drain")
  /\ UNCHANGED <<ioSpace, forfeited, nativeVars, poolVars, aio, kernelVars, sub,
                 poller, historyVars>>

\* Mutated form: one permit is enough to go on.
PermitsAskedOne == 1

PermitsAsked == QueueSize

\* tryAcquire takes every permit.
drain(c) ==
  /\ closer[c].pc = "drain"
  /\ HasSemaphore => ioSpace >= PermitsAsked
  /\ ioSpace' = IF HasSemaphore THEN ioSpace - PermitsAsked ELSE ioSpace
  /\ closer' = [closer EXCEPT ![c].pc = "delete", ![c].drained = HasSemaphore]
  /\ UNCHANGED <<closed, forfeited, nativeVars, poolVars, aio, kernelVars, sub,
                 poller, historyVars>>

\* tryAcquire returns false after 10 seconds, which is ignored, or throws
\* because the closer was interrupted, which is logged.
drainTimeout(c) ==
  /\ "timeout" \in Faults /\ HasSemaphore
  /\ closer[c].pc = "drain"
  /\ Goto(c, "delete")
  /\ UNCHANGED <<javaVars, nativeVars, poolVars, aio, kernelVars, sub, poller,
                 historyVars>>

deleteGet(c) ==
  /\ closer[c].pc = "delete"
  /\ \E i \in Iocbs :
        /\ Pool!getIOCB(i)
        /\ closer' = [closer EXCEPT ![c].pc = "dumb", ![c].iocb = i]
  /\ UNCHANGED <<javaVars, nativeVars, aio, kernelVars, sub, poller,
                 historyVars>>

\* No iocb for the dumb write: deleteContext throws out of close.
deleteFull(c) ==
  /\ closer[c].pc = "delete" /\ Pool!Exhausted
  /\ Goto(c, "failed")
  /\ UNCHANGED <<javaVars, nativeVars, poolVars, aio, kernelVars, sub, poller,
                 historyVars>>

DumbWrite == [op |-> "pwrite", fildes |-> Dumb, data |-> Dumb]

\* Mutated form: the write is not recognised by the poller.
prepDumbUnmarked(c) ==
  aio' = [aio EXCEPT ![closer[c].iocb] = [DumbWrite EXCEPT !.fildes = None,
                                                           !.data = None]]

\* io_prep_pwrite on the dumb handler, and data (void *) -1.
prepDumb(c) == aio' = [aio EXCEPT ![closer[c].iocb] = DumbWrite]

deleteSubmit(c) ==
  /\ closer[c].pc = "dumb"
  /\ prepDumb(c)
  /\ kernel' = kernel \cup {closer[c].iocb}
  /\ Goto(c, "wait")
  /\ UNCHANGED <<javaVars, nativeVars, poolVars, ring, sub, poller, historyVars>>

\* io_submit refuses the dumb write: deleteContext throws out of close.
deleteSubmitFails(c) ==
  /\ "submit" \in Faults
  /\ closer[c].pc = "dumb"
  /\ prepDumb(c)
  /\ Pool!putIOCB(closer[c].iocb)
  /\ Goto(c, "failed")
  /\ UNCHANGED <<javaVars, nativeVars, kernelVars, sub, poller, historyVars>>

\* Mutated form: the poll lock is not waited for.
PollFinishedAssumed == TRUE

\* Locking and unlocking pollLock: the blocked poll, if there is one, is over.
PollFinished == pollLock = None

deleteWait(c) ==
  /\ closer[c].pc = "wait" /\ PollFinished
  /\ Goto(c, "reap")
  /\ UNCHANGED <<javaVars, nativeVars, poolVars, aio, kernelVars, sub, poller,
                 historyVars>>

\* ringio_get_events(.., 0, 1, ..): at most one event is returned to the pool;
\* an error is taken for no event.
deleteReap(c) ==
  /\ closer[c].pc = "reap"
  /\ \/ /\ ring = <<>> \/ "getevents" \in Faults
        /\ UNCHANGED <<ring, poolVars>>
     \/ /\ ring # <<>>
        /\ ring' = Tail(ring) /\ Pool!putIOCB(Head(ring).obj)
  /\ Goto(c, "free")
  /\ UNCHANGED <<javaVars, nativeVars, aio, kernel, sub, poller, historyVars>>

\* io_queue_release waits for the kernel; then everything is freed.
deleteFree(c) ==
  /\ closer[c].pc = "free" /\ kernel = {}
  /\ control' = "freed"
  /\ Goto(c, "returned")
  /\ UNCHANGED <<javaVars, forceSysCall, pollLock, poolVars, aio, kernelVars,
                 sub, poller, historyVars>>

-------------------------------------------------------------------------------
\* The steps a submitter takes without being told to.
submitterStep(s) ==
  acquire(s) \/ nativeFull(s) \/ nativeGet(s) \/ nativeSubmit(s)

pollerStep ==
  \/ lockPoll \/ getEvents \/ stopOnDumb \/ handleEvent \/ invalidRecord
  \/ infoDone \/ infoDoneFails \/ release
  \/ pollArrayGet \/ pollArrayEvent \/ pollArrayReturn \/ pollArrayThrows

closerStep(c) ==
  \/ drain(c) \/ drainTimeout(c)
  \/ deleteGet(c) \/ deleteFull(c) \/ deleteSubmit(c) \/ deleteWait(c)
  \/ deleteReap(c) \/ deleteFree(c)

\* A refused submission or a callback that threw kept a permit for good.
PermitsLost ==
  \/ \E r \in Requests : outcome[r] \in {"refused", "threw", "lost"}
  \/ forfeited > 0

\* Where the system may stop: every accepted request was told, the closers
\* are through, the poller at most waits in a context that is still there.
\* A submitter that waits for a permit waits for good only if the context was
\* closed or permits were lost; a closer that waits for the permits only in
\* the latter case (until its 10 seconds are over).
Finished ==
  /\ Pending = {}
  /\ \A c \in Closers : \/ closer[c].pc \in {"returned", "failed"}
                        \/ closer[c].pc = "drain" /\ PermitsLost
  /\ \A s \in Submitters : \/ sub[s].pc = "idle"
                           \/ sub[s].pc = "acquire" /\ (closed \/ PermitsLost)
  /\ poller.pc = "idle" \/ (poller.pc = "events" /\ control = "live")

Terminated == Finished /\ UNCHANGED vars

Next ==
  \/ \E s \in Submitters :
        \/ submitWrite(s) \/ submitRead(s)
        \/ submitterStep(s)
        \/ acquireInterrupted(s) \/ nativeSubmitFails(s)
  \/ \E i \in Iocbs, res \in {"ok", "error"} : complete(i, res)
  \/ poll \/ pollArray
  \/ pollerStep
  \/ getEventsFails \/ pollArrayFails
  \/ \E c \in Closers : close(c) \/ closerStep(c) \/ deleteSubmitFails(c)
  \/ Terminated

Spec == Init /\ [][Next]_vars

(***************************************************************************)
(* Threads run, the kernel finishes what it accepted, tryAcquire returns   *)
(* after its 10 seconds, and the client keeps a thread in poll().  Nobody  *)
(* has to submit, to close or to fail.  Weak fairness is enough: the       *)
(* semaphore is not a fair one, but the requests are finite.               *)
(***************************************************************************)
Fairness ==
  /\ \A s \in Submitters : WF_vars(submitterStep(s))
  /\ \A i \in Iocbs : WF_vars(\E res \in {"ok", "error"} : complete(i, res))
  /\ WF_vars(poll) /\ WF_vars(pollerStep)
  /\ \A c \in Closers : WF_vars(closerStep(c))

FairSpec == Spec /\ Fairness

-------------------------------------------------------------------------------
(***************************************************************************)
(* Properties.                                                             *)
(***************************************************************************)

\* Every variable has its type; the permits are not negative, the indices of
\* the pool stay inside the array of getIOCB and putIOCB.
TypeOK ==
  /\ closed \in BOOLEAN /\ forceSysCall \in BOOLEAN
  /\ ioSpace \in Nat \cup {None} /\ forfeited \in Nat
  /\ control \in {"live", "freed"}
  /\ pollLock \in {None, Poller}
  /\ Pool!TypeOK
  /\ DOMAIN aio = Iocbs
  /\ kernel \subseteq Iocbs
  /\ \A k \in DOMAIN ring : ring[k] \in Events
  /\ \A k \in DOMAIN poller.batch : poller.batch[k] \in Events
  /\ \A s \in Submitters : sub[s].pc \in {"idle", "acquire", "native", "prep"}
  /\ poller.pc \in {"idle", "enter", "events", "loop", "done", "release",
                    "aevents", "aloop", "areturn"}
  /\ poller.pending \in BOOLEAN
  /\ \A c \in Closers :
        /\ closer[c].pc \in {"idle", "drain", "delete", "dumb", "wait", "reap",
                             "free", "returned", "failed"}
        /\ closer[c].drained \in BOOLEAN
  /\ \A r \in Requests :
        outcome[r] \in {"new", "submitting", "rejected", "refused", "inflight",
                        "completed", "done", "delivered", "threw", "lost",
                        "corrupt"}
  /\ failedIO \subseteq Requests /\ errored \subseteq Requests
  /\ masked \subseteq Requests
  /\ unsynced \subseteq WriteRequests /\ refs \subseteq Requests

\* deleteContext frees the io_control only when no other thread is going to
\* touch it again: the permits keep the submitters and poll(callbacks) out,
\* pollLock and the dumb write keep blockedPoll out.
NoUseAfterFree ==
  control = "freed" =>
    /\ \A s \in Submitters : sub[s].pc \notin {"native", "prep"}
    /\ poller.pc \notin {"enter", "events", "loop", "done", "release",
                         "aevents", "aloop"}

\* The permits cover the pool: a submitter that got through the semaphore
\* never meets "Not enough space in libaio queue", although done() releases
\* the permit and the native code the iocb at different moments.
NoOvercommit ==
  HasSemaphore =>
    ioSpace + Cardinality({s \in Submitters : sub[s].pc = "native"}) + used
      <= QueueSize

\* close() never drops a request that the kernel accepted: its callback was
\* told before the io_control went away.
NoRequestAbandoned == control = "freed" => Pending = {}

\* iocb_destroy frees every structure once: although a slot keeps its pointer
\* while the structure is out, and the structures come back in another order,
\* the array is a permutation of them when deleteContext frees it.
EachIocbFreedOnce ==
  control = "freed" => \A i, j \in Iocbs : iocb[i] = iocb[j] => i = j

\* A callback learns of its request once, and only after the kernel is done
\* with it, although an iocb is back in the pool before done() is called.
ToldOnce == \A r \in Requests : outcome[r] # "corrupt"

\* With useFdatasync, done() of a write means the data was synced after the
\* write completed, or onError was called (one fdatasync serves a whole run
\* of events of one file).
DoneIsDurable ==
  UseFdatasync =>
    \A r \in WriteRequests :
       outcome[r] = "done" => r \notin unsynced \/ r \in errored

\* A failed request is reported by onError no later than its completion is,
\* and onError is called for nothing else: an iocb's data is read before the
\* structure is reused.  Only the events that a poll treats after a callback
\* of the same poll threw may go unreported.
ErrorsReported ==
  /\ errored \subseteq failedIO
  /\ \A r \in failedIO :
        outcome[r] \in {"done", "delivered"} => r \in errored \cup masked

\* The callbacks with a global reference are the ones still to be called and
\* the one being called: no callback is collected early and none leaks.
RefsExact ==
  refs = (Pending \ NullRequests)
           \cup (IF poller.pc = "release" THEN {poller.obj} ELSE {})

\* Submitters, poller and closer use the pool as its specification demands:
\* every iocb leaves it through getIOCB and comes back through putIOCB once.
PoolProtocol == Pool!Spec

\* The requests that have a permit: from acquire until done() has returned,
\* and for good if the native submit refused them or done() threw.
PermitHolders ==
  {r \in Requests : outcome[r] \in {"inflight", "completed", "refused", "threw",
                                    "lost"}}
    \cup {sub[s].req : s \in {t \in Submitters : sub[t].pc \in {"native", "prep"}}}
    \cup (IF poller.pc = "release" THEN {poller.obj} ELSE {})

\* Every permit is in the semaphore, with a request, with the callbacks that
\* poll(callbacks, min, max) is about to return, or with the closer that took
\* them all: submitters, callbacks, batches and closers, which take and give
\* permits at different moments and in different amounts, neither lose nor
\* invent one, except where a submission is refused or a callback throws.
PermitsConserved ==
  HasSemaphore =>
    ioSpace + Cardinality(PermitHolders)
      + (forfeited + (Returned - Len(poller.batch))
           * (IF poller.pc \in {"aloop", "areturn"} THEN 1 ELSE 0))
      + (IF \E c \in Closers : closer[c].drained THEN QueueSize ELSE 0)
      = QueueSize

\* A request that the kernel accepted while a thread is in blockedPoll gets
\* its done(), whether or not somebody closes the context meanwhile.
AcceptedIsDone ==
  \A r \in Requests :
     (r \in Pending /\ pollLock = Poller) ~> (outcome[r] = "done")

\* A submission either fails or completes, unless the context is closed
\* while it waits for a permit.
SubmissionSettles ==
  \A r \in Requests :
     (outcome[r] = "submitting") ~> (outcome[r] \in {"done", "rejected"} \/ closed)

\* close() ends the blocked poll and returns: the closer waiting for permits
\* and for pollLock and the poller waiting for events do not wait for each
\* other.
CloseStopsPoll ==
  \A c \in Closers :
     (closer[c].pc = "drain" /\ pollLock = Poller)
        ~> (closer[c].pc = "returned" /\ poller.pc = "idle")

\* close() comes back in every case, with an exception at worst, even when
\* permits are lost, a callback throws or no thread polls.
CloseReturns ==
  \A c \in Closers :
     (closer[c].pc = "drain") ~> (closer[c].pc \in {"returned", "failed"})

(***************************************************************************)
(* What the documentation says and the code does not do: the subject of a  *)
(* run that violates it.                                                   *)
(***************************************************************************)

\* "should block on a semaphore avoiding using more submits than what's
\* available": a submitter waits for a permit only while some request is
\* using the queue, or the context is being closed.
BlocksOnlyWhenFull ==
  (~closed /\ ioSpace = 0) =>
    \/ used > 0
    \/ \E s \in Submitters : sub[s].pc = "native"
    \/ poller.pc \in {"done", "release", "areturn"}
===============================================================================
