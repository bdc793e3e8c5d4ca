------------------------------- MODULE LibaioFile -------------------------------
(***************************************************************************)
(* LibaioFile objects and the native operations behind them: open, close,  *)
(* lock, fill, fallocate and asynchronous writes.  The library knows a     *)
(* file by its descriptor number only, which the kernel gives to the next  *)
(* file as soon as it is closed, and fills all files from one buffer.      *)
(* Each object is used by a thread of its own; one thread polls, as in     *)
(* module LibaioContext, which has the details.                            *)
(*                                                                         *)
(* The client closes an object when none of its writes is under way.  It   *)
(* may close it again, which closes whatever has the number by then; the   *)
(* history variable clashed follows the damage.                            *)
(***************************************************************************)
EXTENDS Integers, Sequences, FiniteSets

CONSTANTS
  Handles,    \* the LibaioFile objects
  Fillers,    \* those that are filled or preallocated
  PathOf,     \* the file each of them opens
  Requests,   \* the writes
  HandleOf,   \* the object each of them is submitted through
  Blocks,     \* the writes one fill is made of
  MaxTasks,   \* bound: the fills, fallocates and writes the client begins
  None

Paths == {PathOf[h] : h \in Handles}
Fds == 1 .. Cardinality(Handles)

ASSUME FileAssumption ==
  /\ IsFiniteSet(Handles) /\ Fillers \subseteq Handles
  /\ DOMAIN PathOf = Handles
  /\ HandleOf \in [Requests -> Handles]
  /\ Blocks \in Nat \ {0} /\ MaxTasks \in Nat
  /\ None \notin Handles /\ None \notin Fds
  /\ None \notin {"raw", "zero"}

VARIABLES
  table,          \* the process's descriptors: the object that opened each
  fd,             \* LibaioFile.fd, which keeps its value after close
  pc,             \* what the thread of each object does next
  holder,         \* the object whose descriptor has the flock of each file
  locked,         \* the objects whose lock() returned true
  clashed,        \* objects that lost their number to a second close, or
                  \* share it with one that did
  request,        \* what the client knows of each write
  kernel,         \* writes the kernel is working on
  fildes,         \* iocb->aio_fildes of each write
  target,         \* the file the kernel found for each write
  ring,           \* completed writes not yet read
  batch,          \* events blockedPoll is treating
  lastFile,
  unsynced,       \* completed writes no fdatasync has covered yet
  tasks,          \* what the client has begun, for the bound MaxTasks
  oneMegaBuffer,  \* native global: None, or its contents: "raw", "zero"
  oneMegaMutex,   \* its owner
  offset,         \* file offset of what each object has opened
  turn,           \* writes of the fill under way
  size,           \* size of each file, in blocks
  raw,            \* objects whose fill has written other bytes than zeros
  nobuffer,       \* objects whose fill was told that there is no buffer
  short,          \* objects whose fill has had a short write
  filled          \* objects that were filled, with full writes, or preallocated

handleVars == <<table, fd, holder, locked, clashed>>
writeVars == <<request, kernel, fildes, target, ring, batch, lastFile, unsynced>>
fillVars == <<oneMegaBuffer, oneMegaMutex, offset, turn, size, raw, nobuffer,
              short, filled>>
vars == <<handleVars, pc, tasks, writeVars, fillVars>>

Init ==
  /\ table = [d \in Fds |-> None]
  /\ fd = [h \in Handles |-> None]
  /\ pc = [h \in Handles |-> "none"]
  /\ holder = [p \in Paths |-> None] /\ locked = {} /\ clashed = {}
  /\ request = [r \in Requests |-> "new"]
  /\ kernel = {}
  /\ fildes = [r \in Requests |-> None] /\ target = [r \in Requests |-> None]
  /\ ring = <<>> /\ batch = <<>> /\ lastFile = None
  /\ unsynced = {}
  /\ tasks = 0
  /\ oneMegaBuffer = None /\ oneMegaMutex = None
  /\ offset = [h \in Handles |-> 0] /\ turn = [h \in Handles |-> 0]
  /\ size = [p \in Paths |-> 0]
  /\ raw = {} /\ nobuffer = {} /\ filled = {} /\ short = {}

Goto(h, l) == pc' = [pc EXCEPT ![h] = l]

\* The client begins something, within the bound.
Begin == tasks < MaxTasks /\ tasks' = tasks + 1

\* The number a system call gets is that of whatever has it now.
Behind(d) == table[d]

\* Objects the client uses.
Opened(h) == pc[h] \notin {"none", "closed"}

-------------------------------------------------------------------------------
(***************************************************************************)
(* Descriptors.                                                            *)
(***************************************************************************)
LowestFree ==
  CHOOSE d \in Fds : table[d] = None /\ \A e \in 1 .. d - 1 : table[e] # None

\* openFile or openControlFile.  An open that fails changes nothing.
open(h) ==
  /\ pc[h] = "none"
  /\ fd' = [fd EXCEPT ![h] = LowestFree]
  /\ table' = [table EXCEPT ![LowestFree] = h]
  /\ clashed' = IF \E g \in clashed : Opened(g) /\ fd[g] = LowestFree
                  THEN clashed \cup {h}
                  ELSE clashed
  /\ Goto(h, "open")
  /\ UNCHANGED <<holder, locked, tasks, writeVars, fillVars>>

\* Mutated form: LOCK_SH.
GrantedShared(d) == TRUE

\* LOCK_EX: the lock is free, or the descriptor has it already.
Granted(d) == holder[PathOf[d]] \in {None, d}

\* flock(LOCK_EX | LOCK_NB) == 0
lock(h) ==
  LET d == Behind(fd[h]) IN
  /\ pc[h] = "open" /\ d # None /\ Granted(d)
  /\ holder' = [holder EXCEPT ![PathOf[d]] = d]
  /\ locked' = locked \cup {h}
  /\ UNCHANGED <<table, fd, clashed, pc, tasks, writeVars, fillVars>>

Pending == {r \in Requests : request[r] = "pending"}

\* Mutated form: a close that failed is tried again.
AfterCloseErrorAgain == "open"

\* A close that failed has closed the descriptor all the same.
AfterCloseError == "closed"

\* What a close takes from another object: one that is repeated, or whose
\* own number was taken, closes what it finds under the number.
Robbed(h) ==
  IF pc[h] = "closed" \/ h \in clashed THEN {Behind(fd[h])} \ {h, None} ELSE {}

\* close(fd): the descriptor and its lock are gone, also when an error is
\* reported (EIO, EINTR).  fd keeps its value, and nothing stops the client
\* from closing again: EBADF if the number is free.
close(h) ==
  LET d == Behind(fd[h]) IN
  /\ pc[h] \in {"open", "closed"}
  /\ \A r \in Pending : HandleOf[r] # h
  /\ table' = [table EXCEPT ![fd[h]] = None]
  /\ holder' = [p \in Paths |-> IF holder[p] = d THEN None ELSE holder[p]]
  /\ locked' = locked \ {h}
  /\ clashed' = clashed \cup Robbed(h)
  /\ Goto(h, "closed") \/ Goto(h, AfterCloseError)
  /\ UNCHANGED <<fd, tasks, writeVars, fillVars>>

-------------------------------------------------------------------------------
(***************************************************************************)
(* Writes and the polling thread.                                          *)
(***************************************************************************)

\* LibaioFile.write: the number goes into the iocb.  The kernel looks the file
\* up and keeps it, or io_submit returns an error, and write throws.
write(r) ==
  LET h == HandleOf[r]
      d == Behind(fd[h]) IN
  /\ Begin
  /\ pc[h] = "open" /\ request[r] = "new"
  /\ fildes' = [fildes EXCEPT ![r] = fd[h]]
  /\ \/ /\ d # None
        /\ kernel' = kernel \cup {r}
        /\ target' = [target EXCEPT ![r] = PathOf[d]]
        /\ request' = [request EXCEPT ![r] = "pending"]
     \/ /\ request' = [request EXCEPT ![r] = "refused"]
        /\ UNCHANGED <<kernel, target>>
  /\ UNCHANGED <<handleVars, pc, ring, batch, lastFile, unsynced, fillVars>>

\* The kernel finishes a write.
complete(r) ==
  /\ r \in kernel
  /\ kernel' = kernel \ {r}
  /\ ring' = Append(ring, r)
  /\ unsynced' = unsynced \cup {r}
  /\ UNCHANGED <<handleVars, pc, tasks, request, fildes, target, batch,
                 lastFile, fillVars>>

\* Mutated form: lastFile survives from the previous batch.
LastFileKept == lastFile

\* lastFile = -1 before a batch.
LastFileReset == None

\* ringio_get_events in blockedPoll.
getEvents ==
  /\ batch = <<>> /\ ring # <<>>
  /\ batch' = ring /\ ring' = <<>>
  /\ lastFile' = LastFileReset
  /\ UNCHANGED <<handleVars, pc, tasks, request, kernel, fildes, target,
                 unsynced, fillVars>>

\* The writes that fdatasync(d) makes durable: those to the file that has the
\* number d at this moment.  EBADF is ignored.
SyncedBy(d) ==
  {r \in unsynced : Behind(d) # None /\ target[r] = PathOf[Behind(d)]}

\* One event: fdatasync if the file is not the last one, and done().
handleEvent ==
  LET r == Head(batch) IN
  /\ batch # <<>>
  /\ unsynced' = IF lastFile # fildes[r] THEN unsynced \ SyncedBy(fildes[r])
                                         ELSE unsynced
  /\ lastFile' = fildes[r]
  /\ request' = [request EXCEPT ![r] = "done"]
  /\ batch' = Tail(batch)
  /\ UNCHANGED <<handleVars, pc, tasks, kernel, fildes, target, ring,
                 fillVars>>

-------------------------------------------------------------------------------
(***************************************************************************)
(* fill and fallocate.                                                     *)
(***************************************************************************)
fill(h) ==
  /\ Begin
  /\ h \in Fillers /\ pc[h] = "open"
  /\ Goto(h, "verify")
  /\ filled' = filled \ {h}
  /\ UNCHANGED <<handleVars, writeVars, oneMegaBuffer, oneMegaMutex, offset,
                 turn, size, raw, nobuffer, short>>

\* Mutated form: the mutex is not waited for.
MutexFreeAssumed == TRUE

MutexFree == oneMegaMutex = None

\* verifyBuffer: the mutex, and the test.
verifyBuffer(h) ==
  /\ pc[h] = "verify" /\ MutexFree
  /\ oneMegaMutex' = h
  /\ Goto(h, IF oneMegaBuffer = None THEN "allocate" ELSE "unlock")
  /\ UNCHANGED <<handleVars, tasks, writeVars, oneMegaBuffer, offset, turn,
                 size, raw, nobuffer, filled, short>>

\* posix_memalign, which may find no memory: verifyBuffer then returns -1, and
\* fill goes on as if it had not.
allocate(h) ==
  /\ pc[h] = "allocate"
  /\ \/ oneMegaBuffer' = "raw" /\ Goto(h, "clear") /\ UNCHANGED nobuffer
     \/ /\ nobuffer' = nobuffer \cup {h} /\ Goto(h, "unlock")
        /\ UNCHANGED oneMegaBuffer
  /\ UNCHANGED <<handleVars, tasks, writeVars, oneMegaMutex, offset, turn,
                 size, raw, filled, short>>

clear(h) ==
  /\ pc[h] = "clear"
  /\ oneMegaBuffer' = "zero"
  /\ Goto(h, "unlock")
  /\ UNCHANGED <<handleVars, tasks, writeVars, oneMegaMutex, offset, turn,
                 size, raw, nobuffer, filled, short>>

\* Mutated form: the file is not rewound.
NotRewound(h) == offset

\* lseek(fd, 0, SEEK_SET); EBADF is ignored.
Rewound(h) == [g \in Handles |-> IF g = Behind(fd[h]) THEN 0 ELSE offset[g]]

\* The end of verifyBuffer, and the lseek before the loop.
unlock(h) ==
  /\ pc[h] = "unlock"
  /\ oneMegaMutex' = None
  /\ offset' = Rewound(h)
  /\ Goto(h, "write")
  /\ UNCHANGED <<handleVars, tasks, writeVars, oneMegaBuffer, turn, size, raw,
                 nobuffer, filled, short>>

\* One write of oneMegaBuffer, which is read without the mutex.  A short one
\* counts like a full one.
fillWrite(h, full) ==
  LET d == Behind(fd[h])
      end == IF full THEN offset[d] + 1 ELSE offset[d] IN
  /\ pc[h] = "write" /\ turn[h] < Blocks /\ oneMegaBuffer # None /\ d # None
  /\ turn' = [turn EXCEPT ![h] = @ + 1]
  /\ offset' = [offset EXCEPT ![d] = end]
  /\ size' = [size EXCEPT ![PathOf[d]] = IF end > @ THEN end ELSE @]
  /\ raw' = IF oneMegaBuffer = "raw" THEN raw \cup {h} ELSE raw
  /\ short' = IF full THEN short ELSE short \cup {h}
  /\ UNCHANGED <<handleVars, pc, tasks, writeVars, oneMegaBuffer, oneMegaMutex,
                 nobuffer, filled>>

\* fill returns or throws, and its history ends.
EndOfFill(h) ==
  /\ turn' = [turn EXCEPT ![h] = 0]
  /\ raw' = raw \ {h} /\ nobuffer' = nobuffer \ {h} /\ short' = short \ {h}
  /\ Goto(h, "open")

\* A write returns an error, EFAULT if there is no buffer, EBADF if nothing
\* has the number: fill throws.
fillFails(h) ==
  /\ pc[h] = "write" /\ turn[h] < Blocks
  /\ EndOfFill(h)
  /\ UNCHANGED <<handleVars, tasks, writeVars, oneMegaBuffer, oneMegaMutex,
                 offset, size, filled>>

\* The lseek after the loop.
fillReturns(h) ==
  /\ pc[h] = "write" /\ turn[h] = Blocks
  /\ offset' = Rewound(h)
  /\ filled' = filled \cup ({h} \ short)
  /\ EndOfFill(h)
  /\ UNCHANGED <<handleVars, tasks, writeVars, oneMegaBuffer, oneMegaMutex,
                 size>>

\* fallocate: fsync and lseek follow even an error.
fallocate(h) ==
  LET d == Behind(fd[h]) IN
  /\ Begin
  /\ h \in Fillers /\ pc[h] = "open"
  /\ \/ /\ d # None
        /\ size' = [size EXCEPT ![PathOf[d]] = IF @ < Blocks THEN Blocks ELSE @]
        /\ filled' = filled \cup {h}
     \/ UNCHANGED <<size, filled>>
  /\ offset' = Rewound(h)
  /\ UNCHANGED <<handleVars, pc, writeVars, oneMegaBuffer, oneMegaMutex, turn,
                 raw, nobuffer, short>>

-------------------------------------------------------------------------------
Next ==
  \/ \E h \in Handles :
       \/ open(h) \/ lock(h) \/ close(h)
       \/ fill(h) \/ verifyBuffer(h) \/ allocate(h) \/ clear(h) \/ unlock(h)
       \/ \E full \in BOOLEAN : fillWrite(h, full)
       \/ fillFails(h) \/ fillReturns(h) \/ fallocate(h)
  \/ \E r \in Requests : write(r) \/ complete(r)
  \/ getEvents \/ handleEvent

Spec == Init /\ [][Next]_vars

-------------------------------------------------------------------------------
(***************************************************************************)
(* Properties.                                                             *)
(***************************************************************************)

\* Files of which no object ever used a number that was not its own.
Undisturbed(p) == \A h \in clashed : PathOf[h] # p

\* Every variable has its type; no file grows beyond what fill was asked for,
\* also when a fill that failed half way is repeated.
TypeOK ==
  /\ table \in [Fds -> Handles \cup {None}]
  /\ fd \in [Handles -> Fds \cup {None}]
  /\ pc \in [Handles -> {"none", "open", "closed", "verify", "allocate", "clear",
                         "unlock", "write"}]
  /\ holder \in [Paths -> Handles \cup {None}] /\ locked \subseteq Handles
  /\ clashed \subseteq Handles
  /\ request \in [Requests -> {"new", "refused", "pending", "done"}]
  /\ kernel \subseteq Requests /\ unsynced \subseteq Requests
  /\ ring \in Seq(Requests) /\ batch \in Seq(Requests)
  /\ fildes \in [Requests -> Fds \cup {None}]
  /\ target \in [Requests -> Paths \cup {None}]
  /\ lastFile \in Fds \cup {None} /\ tasks \in 0 .. MaxTasks
  /\ oneMegaBuffer \in {None, "raw", "zero"}
  /\ oneMegaMutex \in Handles \cup {None}
  /\ offset \in [Handles -> Nat] /\ turn \in [Handles -> 0 .. Blocks]
  /\ size \in [Paths -> Nat]
  /\ \A p \in Paths : Undisturbed(p) => size[p] <= Blocks
  /\ raw \subseteq Handles /\ nobuffer \subseteq Handles
  /\ filled \subseteq Handles /\ short \subseteq Handles

\* An object whose lock() returned true is the only one, and has the lock
\* until it is closed: no first close of another object, failed or not, takes
\* its descriptor away, although the numbers are given out again at once.
\* Only a second close does (or the close of an object that lost its number
\* to one).
LockKept ==
  \A h \in locked \ clashed : /\ table[fd[h]] = h
                              /\ holder[PathOf[h]] = h

\* A write goes to the file of the object it was submitted through, although
\* the iocb has but a number and numbers are given out again at once.  Only
\* objects that a second close has robbed of their number write elsewhere.
WrittenToOwnFile ==
  \A r \in Requests : HandleOf[r] \notin clashed =>
                       target[r] \in {None, PathOf[HandleOf[r]]}

\* done() of a write means that its file was synced after the write, although
\* the file may be closed as soon as done() was called and its number be that
\* of another file in the next batch.
DurableOnFile ==
  \A r \in Requests : request[r] = "done" /\ HandleOf[r] \notin clashed =>
                       r \notin unsynced

\* A fill that returned has left (at least) the size asked for and nothing but
\* zeros, although all threads fill from one buffer that the first of them
\* allocates and clears.  The code has two gaps: a short write makes the file
\* shorter, and a fill whose verifyBuffer failed writes what another thread
\* has allocated since, cleared or not.
FilledAsAsked ==
  /\ raw \subseteq nobuffer
  /\ \A h \in filled \ clashed : size[PathOf[h]] >= Blocks
===============================================================================
