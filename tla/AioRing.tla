-------------------------------- MODULE AioRing --------------------------------
(***************************************************************************)
(* ringio_get_events: reading the kernel's completion ring from user       *)
(* space, with io_getevents as the fallback, while the kernel goes on      *)
(* posting events and other threads switch forceSysCall.                   *)
(*                                                                         *)
(* There is one reader at a time: blockedPoll reads under pollLock,        *)
(* deleteContext reads after it, and the callers of poll(callbacks, min,   *)
(* max) are asked not to call it concurrently.  The reader looks at head   *)
(* and at tail in two steps and copies the events one by one, so the       *)
(* kernel may post between any two of them.  The kernel may be one with    *)
(* the bug the code works around, which shows a wrong tail for a moment.   *)
(* Events are numbered in the order the kernel posts them.                 *)
(***************************************************************************)
EXTENDS Integers, Sequences

CONSTANTS
  Nr,          \* ring->nr, the slots of the ring
  QueueSize,   \* events that can be under way: one for each iocb of the pool
  Calls,       \* the pairs [min, max] ringio_get_events is called with
  UsableRing,  \* has_usable_ring(ring), fixed when the ring is mapped
  MaxEvents    \* bound: how many events the kernel posts

\* The kernel rounds nr up and keeps one slot free to tell full from empty.
ASSUME RingAssumption ==
  /\ QueueSize \in Nat \ {0} /\ Nr \in Nat /\ QueueSize < Nr
  /\ Calls \subseteq [min : Nat, max : Nat \ {0}]
  /\ UsableRing \in BOOLEAN
  /\ MaxEvents \in Nat

VARIABLES
  head, tail,    \* ring->head, ring->tail
  slots,         \* ring->io_events
  forceSysCall,  \* native global
  writing,       \* the kernel wrote an event and has not moved tail yet
  reader,        \* the thread in ringio_get_events
  events,        \* the caller's array, as the last call left it
  posted,        \* how many events tail has made visible
  consumed       \* how many events have been taken from the ring

ringVars == <<head, tail, slots>>
vars == <<ringVars, forceSysCall, writing, reader, events, posted, consumed>>

Slots == 0 .. Nr - 1
Readers == [pc : {"idle", "interrupted", "failed", "head", "tail", "none", "copy",
                  "syscall"},
            min : Nat, max : Nat \ {0}, head : Slots, n : Nat,
            needMod : {0, 1}, copied : Seq(Nat)]
IdleReader == [pc |-> "idle", min |-> 0, max |-> 1, head |-> 0, n |-> 0,
               needMod |-> 0, copied |-> <<>>]

Init ==
  /\ head = 0 /\ tail = 0
  /\ slots = [i \in Slots |-> 0]
  /\ forceSysCall \in BOOLEAN
  /\ writing = FALSE
  /\ reader = IdleReader
  /\ events = <<>>
  /\ posted = 0 /\ consumed = 0

\* The reader after it returned; min and max are those of the last call.
Returned(pc) == [pc |-> pc, min |-> reader.min, max |-> reader.max, head |-> 0,
                 n |-> 0, needMod |-> 0, copied |-> <<>>]

-------------------------------------------------------------------------------
(***************************************************************************)
(* The kernel.  An iocb goes back to the pool only after its event was     *)
(* consumed, so at most QueueSize events are in the ring.                  *)
(***************************************************************************)
kernelWrite ==
  /\ ~writing
  /\ posted < MaxEvents /\ posted - consumed < QueueSize
  /\ slots' = [slots EXCEPT ![tail] = posted + 1]
  /\ writing' = TRUE
  /\ UNCHANGED <<head, tail, forceSysCall, reader, events, posted, consumed>>

kernelPublish ==
  /\ writing
  /\ tail' = (tail + 1) % Nr
  /\ posted' = posted + 1
  /\ writing' = FALSE
  /\ UNCHANGED <<head, slots, forceSysCall, reader, events, consumed>>

\* LibaioContext.setForceSyscall from any thread, and blockedPoll's own
\* forceSysCall = JNI_TRUE in another context.
setForceSyscall(value) ==
  /\ forceSysCall # value
  /\ forceSysCall' = value
  /\ UNCHANGED <<ringVars, writing, reader, events, posted, consumed>>

-------------------------------------------------------------------------------
(***************************************************************************)
(* The reader.                                                             *)
(***************************************************************************)

\* available: unsigned tail - head as an int, corrected after a wrap.
Available(h, t) == IF t - h < 0 THEN t - h + Nr ELSE t - h

call(c) ==
  /\ reader.pc \in {"idle", "interrupted", "failed"}
  /\ reader' = [IdleReader EXCEPT
                  !.pc = IF forceSysCall \/ ~UsableRing THEN "syscall" ELSE "head",
                  !.min = c.min, !.max = c.max]
  /\ UNCHANGED <<ringVars, forceSysCall, writing, events, posted, consumed>>

readHead ==
  /\ reader.pc = "head"
  /\ reader' = [reader EXCEPT !.pc = "tail", !.head = head]
  /\ UNCHANGED <<ringVars, forceSysCall, writing, events, posted, consumed>>

\* Mutated form: the sum may reach ring_nr without the modulo.
NeedModLate(h, n) == IF h + n > Nr THEN 1 ELSE 0

\* needMod: the copy reaches the end of the ring.
NeedMod(h, n) == IF h + n >= Nr THEN 1 ELSE 0

\* Mutated form: the ring is read however few events it has.
TailRouteEager(available, min, max) ==
  IF available >= max THEN "syscall" ELSE "copy"

\* Mutated form: a tail that fills the caller's array is trusted.
TailRouteTrusting(available, min, max) ==
  IF available < min THEN "syscall" ELSE IF available = 0 THEN "none" ELSE "copy"

\* Mutated form: a full batch is answered with nothing.
TailRouteGivesUp(available, min, max) ==
  IF available < min THEN "syscall"
  ELSE IF available = 0 \/ available >= max THEN "none" ELSE "copy"

\* What the number of available events leads to.
TailRoute(available, min, max) ==
  IF available < min \/ available >= max THEN "syscall"
  ELSE IF available = 0 THEN "none" ELSE "copy"

\* ring->tail as the reader may find it.  The code defends itself against a
\* kernel that shows a wrong tail for a moment, in which case "available would
\* eventually be >= max".
TailsSeen(h, max) == {tail} \cup {t \in Slots : Available(h, t) >= max}

readTail ==
  /\ reader.pc = "tail"
  /\ \E t \in TailsSeen(reader.head, reader.max) :
       LET available == Available(reader.head, t)
           available_nr == IF available < reader.max THEN available ELSE reader.max
       IN  reader' = [reader EXCEPT
                        !.pc = TailRoute(available, reader.min, reader.max),
                        !.n = available_nr,
                        !.needMod = NeedMod(reader.head, available_nr)]
  /\ UNCHANGED <<ringVars, forceSysCall, writing, events, posted, consumed>>

\* Nothing there and nothing asked for.
returnNone ==
  /\ reader.pc = "none"
  /\ reader' = Returned("idle")
  /\ events' = <<>>
  /\ UNCHANGED <<ringVars, forceSysCall, writing, posted, consumed>>

\* Mutated form: head is advanced before the event is read.
EventReadLate == slots[(reader.head + 1) % Nr]

EventRead == slots[reader.head]

\* One turn of the copy loop.
copyEvent ==
  /\ reader.pc = "copy" /\ Len(reader.copied) < reader.n
  /\ reader' = [reader EXCEPT
                  !.copied = Append(@, EventRead),
                  !.head = IF reader.needMod = 1 THEN (@ + 1) % Nr ELSE @ + 1]
  /\ UNCHANGED <<ringVars, forceSysCall, writing, events, posted, consumed>>

\* Mutated form: ring->head is taken from the tail of the moment.
HeadStoredTail == tail

HeadStored == reader.head

\* ring->head = head, and return.
storeHead ==
  /\ reader.pc = "copy" /\ Len(reader.copied) = reader.n
  /\ head' = HeadStored
  /\ consumed' = consumed + reader.n
  /\ events' = reader.copied
  /\ reader' = Returned("idle")
  /\ UNCHANGED <<tail, slots, forceSysCall, writing, posted>>

\* The kernel takes the first n events out of the ring, and the call returns.
TakeEvents(n, pc) ==
  /\ events' = [k \in 1 .. n |-> slots[(head + k - 1) % Nr]]
  /\ head' = (head + n) % Nr
  /\ consumed' = consumed + n
  /\ reader' = Returned(pc)
  /\ UNCHANGED <<tail, slots, forceSysCall, writing, posted>>

\* io_getevents: waits for min events, takes up to max; a min above max is an
\* invalid argument.
io_getevents ==
  LET available == Available(head, tail)
  IN  /\ reader.pc = "syscall" /\ reader.min <= reader.max /\ available >= reader.min
      /\ TakeEvents(IF available < reader.max THEN available ELSE reader.max, "idle")

\* A signal arrives while io_getevents waits for more: it returns the events
\* it has, fewer than min but at least one, and no error.  Neither
\* ringio_get_events nor its callers look whether there are min of them.
io_geteventsInterrupted ==
  /\ reader.pc = "syscall" /\ reader.min <= reader.max
  /\ \E n \in 1 .. Available(head, tail) :
       n < reader.min /\ TakeEvents(n, "interrupted")

\* io_getevents returns an error, -EINTR for a signal before the first event,
\* and has taken nothing.
io_geteventsFails ==
  /\ reader.pc = "syscall"
  /\ reader' = Returned("failed")
  /\ events' = <<>>
  /\ UNCHANGED <<ringVars, forceSysCall, writing, posted, consumed>>

-------------------------------------------------------------------------------
kernelStep == kernelWrite \/ kernelPublish

readerStep ==
  readHead \/ readTail \/ returnNone \/ copyEvent \/ storeHead \/ io_getevents

Next ==
  \/ kernelStep
  \/ \E value \in BOOLEAN : setForceSyscall(value)
  \/ \E c \in Calls : call(c)
  \/ readerStep
  \/ io_geteventsInterrupted
  \/ io_geteventsFails

Spec == Init /\ [][Next]_vars

\* The kernel posts what it has written, and a thread keeps polling.
FairSpec ==
  Spec /\ WF_vars(kernelPublish) /\ WF_vars(\E c \in Calls : call(c))
       /\ WF_vars(readerStep) /\ SF_vars(storeHead \/ io_getevents)

-------------------------------------------------------------------------------
(***************************************************************************)
(* Properties.                                                             *)
(***************************************************************************)

\* Head and tail stay inside the ring, whatever the reader stores.
TypeOK ==
  /\ head \in Slots /\ tail \in Slots
  /\ slots \in [Slots -> Nat]
  /\ forceSysCall \in BOOLEAN /\ writing \in BOOLEAN
  /\ reader \in Readers
  /\ events \in Seq(Nat)
  /\ posted \in Nat /\ consumed \in Nat

\* The distance from head to tail, corrected for the wrap, is the number of
\* events that wait in the ring: never negative, never a full turn.
CountsAgree ==
  /\ Available(head, tail) = posted - consumed
  /\ posted - consumed \in 0 .. QueueSize

\* Each batch holds the next events in the order the kernel posted them:
\* nothing is lost, repeated or overwritten while it is copied, across the
\* wrap, across changes between user space and system call, and although the
\* tail may be read wrong.
BatchInOrder ==
  /\ Len(events) <= consumed
  /\ \A k \in 1 .. Len(events) : events[k] = consumed - Len(events) + k

\* The same for a copy that is under way while the kernel goes on posting.
CopyInOrder ==
  reader.pc = "copy" =>
    /\ reader.n <= posted - consumed
    /\ \A k \in 1 .. Len(reader.copied) : reader.copied[k] = consumed + k

\* A call that does not fail returns at most max events, and no more than the
\* queueSize entries of control->events.  It returns fewer than min only when a
\* signal cut the system call short, and then not an empty batch: whoever asks
\* for one event, as blockedPoll does, gets one.
CallHonoured ==
  reader.pc \in {"idle", "interrupted"} =>
    /\ Len(events) <= reader.max /\ Len(events) <= QueueSize
    /\ Len(events) < reader.min => reader.pc = "interrupted" /\ events # <<>>

\* The k-th slot from head on.
SlotAt(k) == IF head + k >= Nr THEN head + k - Nr ELSE head + k

\* The slots from head on hold the unread events, and the slot at tail the
\* one the kernel is about to publish.
UnreadIntact ==
  /\ \A k \in Slots : k < posted - consumed => slots[SlotAt(k)] = consumed + k + 1
  /\ writing => posted - consumed < QueueSize /\ slots[tail] = posted + 1

\* Where the reader is in its copy.
ReaderAligned ==
  /\ reader.pc \in {"head", "tail"} => reader.copied = <<>>
  /\ reader.pc = "tail" => reader.head = head
  /\ reader.pc = "copy" =>
        /\ Len(reader.copied) <= reader.n
        /\ reader.head = SlotAt(Len(reader.copied))
        /\ reader.needMod = NeedMod(head, reader.n)

\* The inductive invariant behind the properties above.
RingInv ==
  TypeOK /\ CountsAgree /\ UnreadIntact /\ ReaderAligned /\ CopyInOrder /\ BatchInOrder

Unread == [k \in 1 .. Available(head, tail) |-> slots[(head + k - 1) % Nr]]

Queue == INSTANCE AbstractEventQueue
           WITH Event <- 1 .. MaxEvents, queue <- Unread, batch <- events

\* Ring, reader and fallback together are a first-in first-out queue.
ImplementsQueue == Queue!Spec

\* Every event is read in the end, unless the callers go on asking for more
\* events than there are, though forceSysCall may change at any time and
\* calls may be interrupted.
AllEventsRead ==
  \A n \in 1 .. MaxEvents :
     (posted >= n) ~> (consumed >= n \/ [](reader.min > posted - consumed))
===============================================================================
