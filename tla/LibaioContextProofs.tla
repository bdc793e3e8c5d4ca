------------------------- MODULE LibaioContextProofs -------------------------
(***************************************************************************)
(* Proofs about a context, its submitters, its polling thread and its      *)
(* closers, for any number of threads and requests and every queue size.   *)
(***************************************************************************)
EXTENDS LibaioContext, FiniteSetTheorems, SequenceTheorems, TLAPS

(***************************************************************************)
(* The inductive invariant.                                                *)
(*                                                                         *)
(* CoreInv says where every iocb and every request is; it holds whatever   *)
(* fails.  The parts on errors and on fdatasync rest on it, and say in an  *)
(* implication which failure they leave out.  What the permits and closing *)
(* add is in module LibaioContextCloseProofs.                              *)
(***************************************************************************)

Files == {FileOf[r] : r \in Requests} \cup {None, Dumb}
Outcomes == {"new", "submitting", "rejected", "refused", "inflight", "completed",
             "done", "delivered", "threw", "lost"}

\* The types of an iocb's contents and of the threads.
AioType == [op : {None, "pwrite", "pread"}, fildes : Files,
            data : Requests \cup {None, Dumb}]
SubmitterLabels == {"idle", "acquire", "native", "prep"}
SubmitterType == [pc : SubmitterLabels, req : Requests \cup {None},
                  iocb : Iocbs \cup {None}]
PollerType == [pc : {"idle", "enter", "events", "loop", "done", "release", "aevents",
                     "aloop", "areturn"},
               batch : Seq(Events), lastFile : Files,
               obj : Requests \cup {None, Dumb}, result : Int, pending : BOOLEAN]
CloserLabels == {"idle", "drain", "delete", "dumb", "wait", "reap", "free",
                 "returned", "failed"}
CloserType == [pc : CloserLabels, iocb : Iocbs \cup {None}, drained : BOOLEAN]

\* Every variable has its type, as function and record spaces.
StateOK ==
  /\ closed \in BOOLEAN /\ forceSysCall \in BOOLEAN
  /\ ioSpace \in Nat \cup {None} /\ forfeited \in Nat
  /\ control \in {"live", "freed"}
  /\ pollLock \in {None, Poller}
  /\ aio \in [Iocbs -> AioType]
  /\ kernel \subseteq Iocbs /\ ring \in Seq(Events)
  /\ sub \in [Submitters -> SubmitterType]
  /\ poller \in PollerType
  /\ closer \in [Closers -> CloserType]
  /\ outcome \in [Requests -> Outcomes]
  /\ failedIO \subseteq Requests /\ errored \subseteq Requests
  /\ masked \subseteq Requests
  /\ unsynced \subseteq Requests /\ refs \subseteq Requests

\* The polling thread: when it has the lock, and when it has events.
PollerShape ==
  /\ pollLock = Poller <=> poller.pc \in {"events", "loop", "done", "release"}
  /\ poller.batch # <<>> => poller.pc \in {"loop", "done", "release", "aloop"}
  /\ poller.pc \in {"loop", "aloop"} => poller.batch # <<>>
  /\ poller.pc \in {"aloop", "areturn"} => Len(poller.batch) <= Returned
  /\ poller.pc \in {"aevents", "aloop", "areturn"} => "array" \in PollModes

-------------------------------------------------------------------------------
PrepIocbs == {sub[s].iocb : s \in {t \in Submitters : sub[t].pc = "prep"}}
DumbIocbs == {closer[c].iocb : c \in {d \in Closers : closer[d].pc = "dumb"}}
Queued == Objs(ring) \cup Objs(poller.batch)
InFlight == kernel \cup Queued

\* The structures that are not in a free slot: the ones held, and the ones
\* that invalidRecord and stopOnDumb have dropped.
Out == Iocbs \ {iocb[i] : i \in Pool!FreeSlots}

P == INSTANCE IocbPoolProofs WITH held <- Out

EachOnce(events) ==
  \A j, k \in DOMAIN events : events[j].obj = events[k].obj => j = k

\* A structure is in one hand at a time, and not in the pool.
HeldOnce ==
  /\ \A s, t \in Submitters :
       sub[s].pc = "prep" /\ sub[t].pc = "prep" /\ sub[s].iocb = sub[t].iocb => s = t
  /\ EachOnce(ring) /\ EachOnce(poller.batch)
  /\ PrepIocbs \cap DumbIocbs = {}
  /\ (PrepIocbs \cup DumbIocbs) \cap InFlight = {}
  /\ kernel \cap Queued = {} /\ Objs(ring) \cap Objs(poller.batch) = {}
  /\ Held \subseteq Out

-------------------------------------------------------------------------------
\* What an iocb says that was submitted.
Filled(i) ==
  LET r == aio[i].data IN
  /\ r = Dumb <=> aio[i].fildes = Dumb
  /\ r \in Requests => /\ r \notin NullRequests
                       /\ aio[i].fildes = FileOf[r]
                       /\ aio[i].op = "pwrite" <=> r \in WriteRequests
  /\ r = None => NullRequests # {}

\* Where each request is: with a submitter, in an iocb, with the poller.
SubmittersTracked ==
  /\ \A s \in Submitters :
       sub[s].pc # "idle" => /\ sub[s].req \in Requests
                             /\ outcome[sub[s].req] = "submitting"
  /\ \A s \in Submitters : sub[s].pc = "prep" => sub[s].iocb \in Iocbs
  /\ \A s, t \in Submitters :
       sub[s].pc # "idle" /\ sub[t].pc # "idle" /\ sub[s].req = sub[t].req => s = t

IocbsTracked ==
  /\ \A i \in InFlight : Filled(i)
  /\ \A i \in kernel : aio[i].data \in Requests => outcome[aio[i].data] = "inflight"
  /\ \A i \in Queued : aio[i].data \in Requests => outcome[aio[i].data] = "completed"
  /\ \A i, j \in InFlight :
       aio[i].data \in Requests \cup {Dumb} /\ aio[i].data = aio[j].data => i = j

PollerTracked ==
  /\ poller.pc = "done" => /\ poller.obj \in Requests \ NullRequests
                           /\ outcome[poller.obj] = "completed"
                           /\ \A i \in InFlight : aio[i].data # poller.obj
  /\ poller.pc = "release" => /\ poller.obj \in Requests \ NullRequests
                              /\ outcome[poller.obj] = "done"
  /\ poller.pc = "aevents" => Pending # {}

-------------------------------------------------------------------------------
DumbInFlight == \E i \in InFlight : aio[i].data = Dumb

Busy(c) == closer[c].pc \notin {"idle", "returned"}
PastDrain(c) == closer[c].pc \in {"delete", "dumb", "wait", "reap", "free", "failed"}
Gone == control = "freed" \/ \E c \in Closers : PastDrain(c)

\* One closer at most gets beyond the closed flag, and it sends one write.
CloserShape ==
  /\ ~closed => \A c \in Closers : closer[c].pc = "idle"
  /\ \A c, d \in Closers :
       (Busy(c) \/ closer[c].drained) /\ (Busy(d) \/ closer[d].drained) => c = d
  /\ \A c \in Closers : closer[c].pc \in {"idle", "drain"} => ~closer[c].drained
  /\ \A c \in Closers : closer[c].drained => HasSemaphore
  /\ \A c \in Closers : closer[c].pc = "dumb" => closer[c].iocb \in Iocbs
  /\ control = "freed" => closed /\ \A c \in Closers : ~Busy(c)
  /\ DumbInFlight => \/ control = "freed"
                     \/ \E c \in Closers : closer[c].pc \in {"wait", "reap", "free"}
  /\ HasSemaphore /\ "timeout" \notin Faults /\ Gone =>
       \E c \in Closers : closer[c].drained
  /\ ~HasSemaphore /\ closed => /\ Pending = {}
                                /\ \A s \in Submitters : sub[s].pc = "idle"
                                /\ poller.pc \notin {"aevents", "aloop", "areturn"}

-------------------------------------------------------------------------------
\* Events that say what became of their requests.
Truthful(events) ==
  \A k \in DOMAIN events :
    LET r == aio[events[k].obj].data IN
    r \in Requests => (events[k].res = "error" <=> r \in failedIO)

\* Errors on their way from the kernel to onError.
ErrorsTracked ==
  /\ Truthful(ring) /\ Truthful(poller.batch)
  /\ \A r \in failedIO : outcome[r] \in {"completed", "done", "delivered", "threw", "lost"}
  /\ errored \subseteq failedIO
  /\ poller.pc = "done" /\ poller.obj \in failedIO => poller.obj \in errored \cup masked
  /\ ErrorsReported

\* What fdatasync has covered.
SyncsTracked ==
  /\ unsynced \subseteq WriteRequests
  /\ UseFdatasync /\ "fdatasync" \notin Faults =>
       /\ poller.pc \in {"loop", "done", "release"} =>
            \A i \in Objs(poller.batch) :
              aio[i].data \in Requests /\ aio[i].fildes = poller.lastFile =>
                aio[i].data \notin unsynced
       /\ poller.pc = "done" => poller.obj \notin unsynced
       /\ \A r \in Requests : outcome[r] = "done" => r \notin unsynced

\* What every other part of the invariant rests on.
CoreInv ==
  /\ StateOK /\ PollerShape
  /\ P!PoolInv /\ HeldOnce
  /\ SubmittersTracked /\ IocbsTracked /\ PollerTracked
  /\ CloserShape

\* The inductive invariant about what the callbacks are told.
DeliveryInv == CoreInv /\ RefsExact /\ ErrorsTracked /\ SyncsTracked

-------------------------------------------------------------------------------
(***************************************************************************)
(* The pool, as module IocbPoolProofs knows it.                            *)
(***************************************************************************)

\* getIOCB hands out a structure that is not out.
LEMMA PoolGets ==
  ASSUME P!PoolInv, NEW i, Pool!getIOCB(i)
  PROVE  /\ P!PoolInv' /\ Out' = Out \cup {i}
         /\ i \in Iocbs /\ i \notin Out
         /\ used' = used + 1 /\ iocb' = iocb
<1>1. P!getIOCB(i)
  BY DEF P!getIOCB, Pool!getIOCB, P!Advance, Pool!Advance
<1>2. QueueSize \in Nat \ {0}
  BY ContextAssumption
<1>3. P!TypeOK /\ P!IndicesAgree /\ P!NoSharing
  BY DEF P!PoolInv
<1>4. iocbGet \in P!FreeSlots /\ P!FreeSlots' = P!FreeSlots \ {iocbGet}
  BY <1>1, <1>2, <1>3, P!FreeSlotsAfterGet DEF P!FreeSlotsAfterGet
<1>5. P!FreeSlots = Pool!FreeSlots /\ P!FreeSlots' = Pool!FreeSlots'
  BY DEF P!FreeSlots, Pool!FreeSlots, P!Slots, Pool!Slots
<1>6. i = iocb[iocbGet] /\ iocb' = iocb /\ used' = used + 1
  BY <1>1 DEF P!getIOCB
<1>7. i \in Iocbs
  BY <1>3, <1>6 DEF P!TypeOK, P!Slots, P!Iocbs, Iocbs
<1>8. i \notin Out
  BY <1>4, <1>5, <1>6 DEF Out
<1>9. Out' = Out \cup {i}
  BY <1>3, <1>4, <1>5, <1>6, <1>7 DEF Out, P!NoSharing
<1>10. P!Get
  BY <1>1, <1>7, <1>9 DEF P!Get, P!Iocbs, P!Slots, Iocbs
<1>11. P!PoolInv'
  BY <1>2, <1>10, P!GetPreservesPoolInv DEF P!GetPreservesPoolInv
<1> QED
  BY <1>6, <1>7, <1>8, <1>9, <1>11

\* putIOCB takes back a structure that is out.
LEMMA PoolPuts ==
  ASSUME P!PoolInv, NEW i \in Out, Pool!putIOCB(i)
  PROVE  /\ P!PoolInv' /\ Out' = Out \ {i}
         /\ used > 0 /\ used' = used - 1
         /\ iocb' = [iocb EXCEPT ![iocbPut] = i]
<1>1. P!putIOCB(i)
  BY DEF P!putIOCB, Pool!putIOCB, P!Advance, Pool!Advance
<1>2. QueueSize \in Nat \ {0}
  BY ContextAssumption
<1>3. P!TypeOK /\ P!IndicesAgree /\ P!NoSharing /\ P!UsedCountsHeld
  BY DEF P!PoolInv
<1>4. used > 0
  BY <1>2, <1>3, P!HeldMeansUsed DEF P!HeldMeansUsed
<1>5. iocbPut \notin P!FreeSlots /\ P!FreeSlots' = P!FreeSlots \cup {iocbPut}
  BY <1>1, <1>2, <1>3, <1>4, P!FreeSlotsAfterPut DEF P!FreeSlotsAfterPut
<1>6. P!FreeSlots = Pool!FreeSlots /\ P!FreeSlots' = Pool!FreeSlots'
  BY DEF P!FreeSlots, Pool!FreeSlots, P!Slots, Pool!Slots
<1>7. /\ iocb' = [iocb EXCEPT ![iocbPut] = i] /\ used' = used - 1
      /\ P!FreeSlots \subseteq P!Slots /\ iocbPut \in P!Slots
      /\ iocb \in [P!Slots -> P!Iocbs]
  BY <1>1, <1>3 DEF P!putIOCB, P!FreeSlots, P!TypeOK
<1>8. iocb'[iocbPut] = i /\ \A j \in P!FreeSlots : iocb'[j] = iocb[j]
  BY <1>5, <1>7
<1>9. Out' = Out \ {i}
  BY <1>5, <1>6, <1>8 DEF Out
<1>10. P!Put
  BY <1>1, <1>9 DEF P!Put
<1>11. P!PoolInv'
  BY <1>2, <1>10, P!PutPreservesPoolInv DEF P!PutPreservesPoolInv
<1> QED
  BY <1>4, <1>7, <1>9, <1>11

\* The pool changes by getIOCB and putIOCB only.
LEMMA PoolRests ==
  ASSUME P!PoolInv, UNCHANGED poolVars
  PROVE  P!PoolInv' /\ Out' = Out /\ used' = used
<1>1. Out' = Out
  BY DEF poolVars, Out, Pool!FreeSlots, Pool!Slots
<1>2. UNCHANGED P!vars
  BY <1>1 DEF P!vars, poolVars
<1>3. P!PoolInv'
  BY <1>2, ContextAssumption, P!NextPreservesPoolInv
<1> QED
  BY <1>1, <1>3 DEF poolVars

\* The count is a number, and zero only when everything is in its slot.
LEMMA PoolCounts ==
  ASSUME P!PoolInv
  PROVE  /\ used \in 0 .. QueueSize /\ iocb \in [Iocbs -> Iocbs]
         /\ iocbPut \in Iocbs /\ iocbGet \in Iocbs
BY DEF P!PoolInv, P!TypeOK, P!Slots, P!Iocbs, Iocbs

-------------------------------------------------------------------------------
(***************************************************************************)
(* Queues of events.                                                       *)
(***************************************************************************)

\* An event appended to a queue.
LEMMA AppendedEvent ==
  ASSUME NEW s \in Seq(Events), NEW e \in Events
  PROVE  /\ Append(s, e) \in Seq(Events)
         /\ Objs(Append(s, e)) = Objs(s) \cup {e.obj}
         /\ EachOnce(s) /\ e.obj \notin Objs(s) => EachOnce(Append(s, e))
         /\ DOMAIN Append(s, e) = DOMAIN s \cup {Len(s) + 1}
         /\ \A k \in DOMAIN s : Append(s, e)[k] = s[k]
         /\ Append(s, e)[Len(s) + 1] = e
<1>1. /\ Append(s, e) \in Seq(Events) /\ Len(s) \in Nat
      /\ DOMAIN s = 1 .. Len(s) /\ DOMAIN Append(s, e) = 1 .. Len(s) + 1
      /\ \A k \in 1 .. Len(s) : Append(s, e)[k] = s[k]
      /\ Append(s, e)[Len(s) + 1] = e
  BY AppendProperties, LenProperties
<1>2. DOMAIN Append(s, e) = DOMAIN s \cup {Len(s) + 1}
  BY <1>1
<1>3. Objs(Append(s, e)) = Objs(s) \cup {e.obj}
  BY <1>1, <1>2 DEF Objs
<1>4. EachOnce(s) /\ e.obj \notin Objs(s) => EachOnce(Append(s, e))
  BY <1>1, <1>2 DEF EachOnce, Objs
<1> QED
  BY <1>1, <1>2, <1>3, <1>4

\* The first event of a queue is taken out.
LEMMA TreatedEvent ==
  ASSUME NEW s \in Seq(Events), s # <<>>
  PROVE  /\ Head(s) \in Events /\ Tail(s) \in Seq(Events)
         /\ 1 \in DOMAIN s /\ Head(s) = s[1]
         /\ Len(Tail(s)) = Len(s) - 1 /\ Len(s) \in Nat \ {0}
         /\ Head(s).obj \in Objs(s) /\ Objs(Tail(s)) \subseteq Objs(s)
         /\ Objs(s) = Objs(Tail(s)) \cup {Head(s).obj}
         /\ \A k \in DOMAIN Tail(s) : k + 1 \in DOMAIN s /\ Tail(s)[k] = s[k + 1]
         /\ EachOnce(s) => EachOnce(Tail(s)) /\ Head(s).obj \notin Objs(Tail(s))
<1>1. Len(s) \in Nat \ {0} /\ DOMAIN s = 1 .. Len(s)
  BY LenProperties, EmptySeq
<1>2. /\ Head(s) = s[1] /\ Head(s) \in Events
      /\ Tail(s) \in Seq(Events) /\ Len(Tail(s)) = Len(s) - 1
      /\ DOMAIN Tail(s) = 1 .. Len(s) - 1
      /\ \A k \in 1 .. Len(s) - 1 : Tail(s)[k] = s[k + 1]
  BY <1>1, HeadTailProperties, LenProperties
<1>3. \A k \in DOMAIN Tail(s) : k + 1 \in DOMAIN s /\ Tail(s)[k] = s[k + 1]
  BY <1>1, <1>2
<1>4. Objs(s) = Objs(Tail(s)) \cup {Head(s).obj}
  <2>1. ASSUME NEW x \in Objs(s) PROVE x \in Objs(Tail(s)) \cup {Head(s).obj}
    <3>1. PICK k \in 1 .. Len(s) : x = s[k].obj
      BY <1>1 DEF Objs
    <3>2. k # 1 => k - 1 \in DOMAIN Tail(s) /\ Tail(s)[k - 1] = s[k]
      BY <1>1, <1>2
    <3> QED
      BY <1>2, <3>1, <3>2 DEF Objs
  <2>2. ASSUME NEW x \in Objs(Tail(s)) \cup {Head(s).obj} PROVE x \in Objs(s)
    BY <1>1, <1>2, <1>3 DEF Objs
  <2> QED
    BY <2>1, <2>2
<1>5. EachOnce(s) => EachOnce(Tail(s)) /\ Head(s).obj \notin Objs(Tail(s))
  BY <1>1, <1>2 DEF EachOnce, Objs
<1> QED
  BY <1>1, <1>2, <1>3, <1>4, <1>5

\* ringio_get_events splits the ring.
LEMMA TakenEvents ==
  ASSUME ring \in Seq(Events), NEW max \in Nat
  PROVE  /\ Taken(max) \in Seq(Events) /\ Left(max) \in Seq(Events)
         /\ Len(Taken(max)) = Count(max) /\ Count(max) \in Nat
         /\ Len(ring) \in Nat /\ Count(max) <= Len(ring)
         /\ Objs(ring) = Objs(Taken(max)) \cup Objs(Left(max))
         /\ \A k \in DOMAIN Taken(max) : k \in DOMAIN ring /\ Taken(max)[k] = ring[k]
         /\ \A k \in DOMAIN Left(max) : /\ k + Count(max) \in DOMAIN ring
                                        /\ Left(max)[k] = ring[k + Count(max)]
         /\ EachOnce(ring) => /\ EachOnce(Taken(max)) /\ EachOnce(Left(max))
                              /\ Objs(Taken(max)) \cap Objs(Left(max)) = {}
<1> DEFINE n == Count(max)
<1>1. Len(ring) \in Nat /\ DOMAIN ring = 1 .. Len(ring) /\ n \in Nat /\ n <= Len(ring)
  BY LenProperties DEF Count
<1> HIDE DEF n
<1>2. \A i \in 1 .. Len(ring) : ring[i] \in Events
  BY <1>1, ElementOfSeq
<1>3. /\ Taken(max) \in Seq(Events) /\ Len(Taken(max)) = n
      /\ DOMAIN Taken(max) = 1 .. n
      /\ \A k \in 1 .. n : Taken(max)[k] = ring[k]
  <2>1. \A i \in 1 .. n : ring[i] \in Events
    BY <1>1, <1>2
  <2>2. /\ SubSeq(ring, 1, n) \in Seq(Events)
        /\ Len(SubSeq(ring, 1, n)) = IF 1 <= n THEN n - 1 + 1 ELSE 0
        /\ \A i \in 1 .. n - 1 + 1 : SubSeq(ring, 1, n)[i] = ring[1 + i - 1]
    BY <1>1, <2>1, SubSeqProperties
  <2>3. Taken(max) = SubSeq(ring, 1, n)
    BY DEF Taken, n
  <2> QED
    BY <1>1, <2>2, <2>3, LenProperties
<1>4. /\ Left(max) \in Seq(Events) /\ Len(Left(max)) = Len(ring) - n
      /\ DOMAIN Left(max) = 1 .. Len(ring) - n
      /\ \A k \in 1 .. Len(ring) - n : Left(max)[k] = ring[k + n]
  <2>1. \A i \in n + 1 .. Len(ring) : ring[i] \in Events
    BY <1>1, <1>2
  <2>2. /\ SubSeq(ring, n + 1, Len(ring)) \in Seq(Events)
        /\ Len(SubSeq(ring, n + 1, Len(ring)))
             = IF n + 1 <= Len(ring) THEN Len(ring) - (n + 1) + 1 ELSE 0
        /\ \A i \in 1 .. Len(ring) - (n + 1) + 1 :
             SubSeq(ring, n + 1, Len(ring))[i] = ring[n + 1 + i - 1]
    BY <1>1, <2>1, SubSeqProperties
  <2>3. Left(max) = SubSeq(ring, n + 1, Len(ring))
    BY DEF Left, n
  <2>4. Len(ring) - (n + 1) + 1 = Len(ring) - n
    BY <1>1
  <2>5. Left(max) \in Seq(Events) /\ Len(Left(max)) = Len(ring) - n
    <3>1. CASE n + 1 <= Len(ring)
      BY <2>2, <2>3, <2>4, <3>1
    <3>2. CASE ~(n + 1 <= Len(ring))
      <4>1. \A a, b \in Nat : a <= b /\ ~(a + 1 <= b) => b - a = 0
        OBVIOUS
      <4>2. Len(ring) - n = 0
        BY <1>1, <3>2, <4>1, Zenon
      <4> QED
        BY <2>2, <2>3, <3>2, <4>2, Zenon
    <3> QED
      BY <3>1, <3>2
  <2>6. DOMAIN Left(max) = 1 .. Len(ring) - n
    BY <2>5, LenProperties
  <2>7. ASSUME NEW k \in 1 .. Len(ring) - n PROVE Left(max)[k] = ring[k + n]
    <3>1. n + 1 + k - 1 = k + n
      BY <1>1
    <3> QED
      BY <2>2, <2>3, <2>4, <3>1
  <2> QED
    BY <2>5, <2>6, <2>7
<1>5. \A k \in DOMAIN Taken(max) : k \in DOMAIN ring /\ Taken(max)[k] = ring[k]
  BY <1>1, <1>3
<1>6. \A k \in DOMAIN Left(max) : k + n \in DOMAIN ring /\ Left(max)[k] = ring[k + n]
  BY <1>1, <1>4
<1>7. Objs(ring) = Objs(Taken(max)) \cup Objs(Left(max))
  <2>1. ASSUME NEW x \in Objs(ring) PROVE x \in Objs(Taken(max)) \cup Objs(Left(max))
    <3>1. PICK k \in 1 .. Len(ring) : x = ring[k].obj
      BY <1>1 DEF Objs
    <3>2. CASE k <= n
      BY <1>1, <1>3, <3>1, <3>2 DEF Objs
    <3>3. CASE k > n
      <4>1. k - n \in 1 .. Len(ring) - n /\ k - n + n = k
        BY <1>1, <3>3
      <4>2. k - n \in DOMAIN Left(max) /\ Left(max)[k - n] = ring[k]
        BY <1>4, <4>1
      <4> QED
        BY <3>1, <4>2 DEF Objs
    <3> QED
      BY <1>1, <3>2, <3>3
  <2>2. Objs(Taken(max)) \cup Objs(Left(max)) \subseteq Objs(ring)
    BY <1>5, <1>6 DEF Objs
  <2> QED
    BY <2>1, <2>2
<1>8. ASSUME EachOnce(ring)
      PROVE  /\ EachOnce(Taken(max)) /\ EachOnce(Left(max))
             /\ Objs(Taken(max)) \cap Objs(Left(max)) = {}
  <2>1. EachOnce(Taken(max))
    BY <1>8, <1>5 DEF EachOnce
  <2>2. EachOnce(Left(max))
    BY <1>1, <1>8, <1>4, <1>6 DEF EachOnce
  <2>3. ASSUME NEW j \in DOMAIN Taken(max), NEW k \in DOMAIN Left(max),
               Taken(max)[j].obj = Left(max)[k].obj
        PROVE  FALSE
    <3>1. j \in 1 .. n /\ k \in 1 .. Len(ring) - n
      BY <1>3, <1>4
    <3>2. j # k + n
      BY <1>1, <3>1
    <3> QED
      BY <1>5, <1>6, <1>8, <2>3, <3>2 DEF EachOnce
  <2> QED
    BY <2>1, <2>2, <2>3 DEF Objs
<1> QED
  BY <1>1, <1>3, <1>4, <1>5, <1>6, <1>7, <1>8 DEF n

-------------------------------------------------------------------------------
(***************************************************************************)
(* Who takes a step, and what it leaves alone.                             *)
(***************************************************************************)
USE DEF javaVars, nativeVars, kernelVars, threadVars, historyVars

SubmitterAction(s) ==
  \/ submitWrite(s) \/ submitRead(s) \/ submitterStep(s)
  \/ acquireInterrupted(s) \/ nativeSubmitFails(s)
PollerAction == poll \/ pollArray \/ pollerStep \/ getEventsFails \/ pollArrayFails
CloserAction(c) == close(c) \/ closerStep(c) \/ deleteSubmitFails(c)

LEMMA NextByActor ==
  ASSUME [Next]_vars
  PROVE  \/ \E s \in Submitters : SubmitterAction(s)
         \/ \E i \in Iocbs, res \in {"ok", "error"} : complete(i, res)
         \/ PollerAction
         \/ \E c \in Closers : CloserAction(c)
         \/ UNCHANGED vars
BY DEF Next, SubmitterAction, PollerAction, CloserAction, Terminated

LEMMA SubmitterFrame ==
  ASSUME NEW s, SubmitterAction(s)
  PROVE  UNCHANGED <<closed, forfeited, nativeVars, ring, poller, closer, failedIO, errored,
                     masked, unsynced>>
BY DEF SubmitterAction, submitWrite, submitRead, submitterStep, startSubmit, acquire,
       acquireInterrupted, nativeFull, nativeGet, nativeSubmit, nativeSubmitFails

LEMMA PollerFrame ==
  ASSUME PollerAction
  PROVE  UNCHANGED <<closed, control, kernel, sub, closer, failedIO>>
BY DEF PollerAction, pollerStep, poll, lockPoll, getEvents, getEventsFails, stopOnDumb,
       handleEvent, invalidRecord, infoDone, infoDoneFails, release, pollArray,
       pollArrayGet, pollArrayFails, pollArrayEvent, pollArrayReturn, pollArrayThrows

LEMMA CloserFrame ==
  ASSUME NEW c, CloserAction(c)
  PROVE  UNCHANGED <<forfeited, forceSysCall, pollLock, sub, poller, historyVars>>
BY DEF CloserAction, closerStep, close, drain, drainTimeout, deleteGet, deleteFull,
       deleteSubmit, deleteSubmitFails, deleteWait, deleteReap, deleteFree

-------------------------------------------------------------------------------
(***************************************************************************)
(* Types.                                                                  *)
(***************************************************************************)

\* A submitter goes on.
LEMMA SubmitterGoes ==
  ASSUME StateOK, NEW s \in Submitters, NEW l \in SubmitterLabels,
         sub' = [sub EXCEPT ![s].pc = l]
  PROVE  /\ sub' \in [Submitters -> SubmitterType]
         /\ sub'[s].pc = l /\ sub'[s].req = sub[s].req /\ sub'[s].iocb = sub[s].iocb
         /\ \A t \in Submitters \ {s} : sub'[t] = sub[t]
<1> DEFINE new == [sub[s] EXCEPT !.pc = l]
<1>1. sub \in [Submitters -> SubmitterType] /\ sub[s] \in SubmitterType
  BY DEF StateOK
<1>2. new \in SubmitterType
  BY <1>1 DEF SubmitterType
<1>3. sub' = [sub EXCEPT ![s] = new]
  BY <1>1
<1>4. new.pc = l /\ new.req = sub[s].req /\ new.iocb = sub[s].iocb
  BY <1>1 DEF SubmitterType
<1> HIDE DEF new
<1> QED
  BY <1>1, <1>2, <1>3, <1>4

\* A submitter goes on with a structure.
LEMMA SubmitterGets ==
  ASSUME StateOK, NEW s \in Submitters, NEW l \in SubmitterLabels, NEW i \in Iocbs,
         sub' = [sub EXCEPT ![s].pc = l, ![s].iocb = i]
  PROVE  /\ sub' \in [Submitters -> SubmitterType]
         /\ sub'[s].pc = l /\ sub'[s].iocb = i /\ sub'[s].req = sub[s].req
         /\ \A t \in Submitters \ {s} : sub'[t] = sub[t]
<1> DEFINE new == [sub[s] EXCEPT !.pc = l, !.iocb = i]
<1>1. sub \in [Submitters -> SubmitterType] /\ sub[s] \in SubmitterType
  BY DEF StateOK
<1>2. new \in SubmitterType
  BY <1>1 DEF SubmitterType
<1>3. sub' = [sub EXCEPT ![s] = new]
  BY <1>1
<1>4. new.pc = l /\ new.iocb = i /\ new.req = sub[s].req
  BY <1>1 DEF SubmitterType
<1> HIDE DEF new
<1> QED
  BY <1>1, <1>2, <1>3, <1>4

\* A closer goes on.
LEMMA CloserGoes ==
  ASSUME StateOK, NEW c \in Closers, NEW l \in CloserLabels,
         closer' = [closer EXCEPT ![c].pc = l]
  PROVE  /\ closer' \in [Closers -> CloserType]
         /\ closer'[c].pc = l /\ closer'[c].iocb = closer[c].iocb /\ closer'[c].drained = closer[c].drained
         /\ \A t \in Closers \ {c} : closer'[t] = closer[t]
<1> DEFINE new == [closer[c] EXCEPT !.pc = l]
<1>1. closer \in [Closers -> CloserType] /\ closer[c] \in CloserType
  BY DEF StateOK
<1>2. new \in CloserType
  BY <1>1 DEF CloserType
<1>3. closer' = [closer EXCEPT ![c] = new]
  BY <1>1
<1>4. new.pc = l /\ new.iocb = closer[c].iocb /\ new.drained = closer[c].drained
  BY <1>1 DEF CloserType
<1> HIDE DEF new
<1> QED
  BY <1>1, <1>2, <1>3, <1>4

\* A closer goes on with a structure.
LEMMA CloserGets ==
  ASSUME StateOK, NEW c \in Closers, NEW l \in CloserLabels, NEW i \in Iocbs,
         closer' = [closer EXCEPT ![c].pc = l, ![c].iocb = i]
  PROVE  /\ closer' \in [Closers -> CloserType]
         /\ closer'[c].pc = l /\ closer'[c].iocb = i /\ closer'[c].drained = closer[c].drained
         /\ \A t \in Closers \ {c} : closer'[t] = closer[t]
<1> DEFINE new == [closer[c] EXCEPT !.pc = l, !.iocb = i]
<1>1. closer \in [Closers -> CloserType] /\ closer[c] \in CloserType
  BY DEF StateOK
<1>2. new \in CloserType
  BY <1>1 DEF CloserType
<1>3. closer' = [closer EXCEPT ![c] = new]
  BY <1>1
<1>4. new.pc = l /\ new.iocb = i /\ new.drained = closer[c].drained
  BY <1>1 DEF CloserType
<1> HIDE DEF new
<1> QED
  BY <1>1, <1>2, <1>3, <1>4

\* A closer goes on with all permits.
LEMMA CloserDrains ==
  ASSUME StateOK, NEW c \in Closers, NEW l \in CloserLabels, NEW b \in BOOLEAN,
         closer' = [closer EXCEPT ![c].pc = l, ![c].drained = b]
  PROVE  /\ closer' \in [Closers -> CloserType]
         /\ closer'[c].pc = l /\ closer'[c].drained = b /\ closer'[c].iocb = closer[c].iocb
         /\ \A t \in Closers \ {c} : closer'[t] = closer[t]
<1> DEFINE new == [closer[c] EXCEPT !.pc = l, !.drained = b]
<1>1. closer \in [Closers -> CloserType] /\ closer[c] \in CloserType
  BY DEF StateOK
<1>2. new \in CloserType
  BY <1>1 DEF CloserType
<1>3. closer' = [closer EXCEPT ![c] = new]
  BY <1>1
<1>4. new.pc = l /\ new.drained = b /\ new.iocb = closer[c].iocb
  BY <1>1 DEF CloserType
<1> HIDE DEF new
<1> QED
  BY <1>1, <1>2, <1>3, <1>4


\* The event the polling thread looks at.
LEMMA CurrentEvent ==
  ASSUME CoreInv, poller.batch # <<>>
  PROVE  /\ Event \in Events /\ Event.obj \in Iocbs /\ Event = poller.batch[1]
         /\ Event.obj \in Objs(poller.batch) /\ Event.obj \in Out
         /\ Tail(poller.batch) \in Seq(Events)
         /\ Objs(poller.batch) = Objs(Tail(poller.batch)) \cup {Event.obj}
         /\ Event.obj \notin Objs(Tail(poller.batch)) /\ EachOnce(Tail(poller.batch))
         /\ Len(Tail(poller.batch)) = Len(poller.batch) - 1
         /\ Data \in Requests \cup {None, Dumb} /\ Fildes \in Files
         /\ Filled(Event.obj)
         /\ Data \in Requests => outcome[Data] = "completed"
<1>1. poller.batch \in Seq(Events) /\ aio \in [Iocbs -> AioType]
  BY DEF CoreInv, StateOK, PollerType
<1>2. EachOnce(poller.batch) /\ Objs(poller.batch) \subseteq Out
  BY DEF CoreInv, HeldOnce, Held
<1>3. Event.obj \in Objs(poller.batch) /\ Event \in Events
  BY <1>1, TreatedEvent DEF Event
<1>4. Event.obj \in Iocbs
  BY <1>3 DEF Events
<1>5. aio[Event.obj] \in AioType
  BY <1>1, <1>4
<1>6. Data \in Requests \cup {None, Dumb} /\ Fildes \in Files
  BY <1>5 DEF Data, Fildes, AioType
<1>7. Event.obj \in Queued /\ Event.obj \in InFlight
  BY <1>3 DEF Queued, InFlight
<1>8. Filled(Event.obj) /\ (Data \in Requests => outcome[Data] = "completed")
  BY <1>7 DEF CoreInv, IocbsTracked, Data
<1> QED
  BY <1>1, <1>2, <1>3, <1>4, <1>6, <1>8, TreatedEvent DEF Event

\* A callback is told of a completed request.
LEMMA TellCompleted ==
  ASSUME StateOK, NEW r \in Requests, NEW how \in Outcomes, outcome[r] = "completed",
         Tell(r, how)
  PROVE  /\ outcome' = [outcome EXCEPT ![r] = how]
         /\ outcome' \in [Requests -> Outcomes]
BY DEF StateOK, Tell

\* The request of a submitter in the native method or before it.
LEMMA CurrentRequest ==
  ASSUME CoreInv, NEW s \in Submitters, sub[s].pc # "idle"
  PROVE  /\ sub[s].req \in Requests /\ outcome[sub[s].req] = "submitting"
         /\ FileOf[sub[s].req] \in Files \ {None, Dumb}
         /\ CallbackOf(sub[s].req) \in Requests \cup {None}
         /\ sub[s].pc = "prep" => sub[s].iocb \in Iocbs /\ sub[s].iocb \in PrepIocbs
BY ContextAssumption DEF CoreInv, SubmittersTracked, Files, CallbackOf, PrepIocbs

\* The submitter returns to its caller.
LEMMA SubmitterReturns ==
  ASSUME StateOK, NEW s \in Submitters, sub' = [sub EXCEPT ![s] = IdleSubmitter]
  PROVE  /\ sub' \in [Submitters -> SubmitterType]
         /\ sub'[s] = IdleSubmitter /\ sub'[s].pc = "idle"
         /\ \A t \in Submitters \ {s} : sub'[t] = sub[t]
<1>1. IdleSubmitter \in SubmitterType /\ IdleSubmitter.pc = "idle"
  BY DEF IdleSubmitter, SubmitterType, SubmitterLabels
<1> QED
  BY <1>1 DEF StateOK

\* The iocb that a submitter fills.
LEMMA PreparedIocb ==
  ASSUME CoreInv, NEW s \in Submitters, sub[s].pc = "prep", prep(s)
  PROVE  /\ aio' \in [Iocbs -> AioType]
         /\ aio'[sub[s].iocb].fildes = FileOf[sub[s].req]
         /\ aio'[sub[s].iocb].data = CallbackOf(sub[s].req)
         /\ aio'[sub[s].iocb].op = "pwrite" <=> sub[s].req \in WriteRequests
         /\ \A i \in Iocbs \ {sub[s].iocb} : aio'[i] = aio[i]
<1> DEFINE i0 == sub[s].iocb
           new(op) == [op |-> op, fildes |-> FileOf[sub[s].req],
                       data |-> CallbackOf(sub[s].req)]
<1>1. /\ FileOf[sub[s].req] \in Files /\ i0 \in Iocbs
      /\ CallbackOf(sub[s].req) \in Requests \cup {None}
  BY CurrentRequest
<1>2. aio \in [Iocbs -> AioType]
  BY DEF CoreInv, StateOK
<1>3. PICK op \in {"pwrite", "pread"} :
        /\ aio' = [aio EXCEPT ![i0] = new(op)]
        /\ op = "pwrite" <=> sub[s].req \in WriteRequests
  BY DEF prep, prepWrite, prepRead, Fill
<1>4. new(op) \in AioType
  BY <1>1 DEF AioType
<1>5. /\ new(op).op = op /\ new(op).fildes = FileOf[sub[s].req]
      /\ new(op).data = CallbackOf(sub[s].req)
  OBVIOUS
<1> HIDE DEF new
<1>6. /\ aio' \in [Iocbs -> AioType] /\ aio'[i0] = new(op)
      /\ \A i \in Iocbs \ {i0} : aio'[i] = aio[i]
  BY <1>1, <1>2, <1>3, <1>4
<1> QED
  BY <1>3, <1>5, <1>6

\* A submitter's step keeps the types.
LEMMA SubmitterTypes ==
  ASSUME CoreInv, NEW s \in Submitters, SubmitterAction(s)
  PROVE  StateOK'
<1> USE DEF CoreInv
<1>0. StateOK
  OBVIOUS
<1>1. ASSUME NEW r \in Requests, startSubmit(s, r)
      PROVE  StateOK'
  <2>1. [pc |-> "acquire", req |-> r, iocb |-> None] \in SubmitterType
    BY DEF SubmitterType, SubmitterLabels
  <2>2. outcome' \in [Requests -> Outcomes]
    BY <1>1, <1>0 DEF startSubmit, StateOK, Outcomes
  <2>3. sub' \in [Submitters -> SubmitterType]
    BY <1>1, <1>0, <2>1 DEF startSubmit, StateOK
  <2> QED
    BY <1>1, <1>0, <2>2, <2>3 DEF startSubmit, StateOK
<1>2. CASE acquire(s)
  <2>1. ioSpace' \in Nat \cup {None}
    BY <1>2, <1>0 DEF acquire, StateOK, HasSemaphore
  <2>2. sub' \in [Submitters -> SubmitterType]
    BY <1>2, <1>0, SubmitterGoes DEF acquire, SubmitterLabels
  <2> QED
    BY <1>2, <1>0, <2>1, <2>2 DEF acquire, StateOK
<1>3. ASSUME sub[s].pc # "idle", NEW how \in Outcomes, Reject(s, how)
      PROVE  /\ sub' \in [Submitters -> SubmitterType]
             /\ outcome' \in [Requests -> Outcomes]
  BY <1>3, <1>0, SubmitterReturns, CurrentRequest DEF Reject, StateOK
<1>4. CASE acquireInterrupted(s)
  BY <1>4, <1>0, <1>3 DEF acquireInterrupted, StateOK, Outcomes
<1>5. CASE nativeFull(s)
  BY <1>5, <1>0, <1>3 DEF nativeFull, StateOK, Outcomes
<1>6. CASE nativeGet(s)
  <2>1. sub' \in [Submitters -> SubmitterType]
    BY <1>6, <1>0, SubmitterGets DEF nativeGet, SubmitterLabels
  <2> QED
    BY <1>6, <1>0, <2>1 DEF nativeGet, StateOK
<1>7. CASE nativeSubmit(s)
  <2>1. sub[s].req \in Requests /\ sub[s].iocb \in Iocbs
    BY <1>7, CurrentRequest DEF nativeSubmit
  <2>2. aio' \in [Iocbs -> AioType]
    BY <1>7, PreparedIocb DEF nativeSubmit
  <2>3. sub' \in [Submitters -> SubmitterType]
    BY <1>7, <1>0, SubmitterReturns DEF nativeSubmit
  <2>4. outcome' \in [Requests -> Outcomes] /\ refs' \subseteq Requests
    BY <1>7, <1>0, <2>1 DEF nativeSubmit, NewGlobalRef, StateOK, Outcomes
  <2> QED
    BY <1>7, <1>0, <2>1, <2>2, <2>3, <2>4 DEF nativeSubmit, StateOK
<1>8. CASE nativeSubmitFails(s)
  <2>1. aio' \in [Iocbs -> AioType]
    BY <1>8, PreparedIocb DEF nativeSubmitFails
  <2> QED
    BY <1>8, <1>0, <1>3, <2>1 DEF nativeSubmitFails, StateOK, Outcomes
<1> QED
  BY <1>1, <1>2, <1>4, <1>5, <1>6, <1>7, <1>8, ContextAssumption
     DEF SubmitterAction, submitWrite, submitRead, submitterStep

\* What the kernel does keeps the types.
LEMMA CompleteTypes ==
  ASSUME CoreInv, NEW i \in Iocbs, NEW res \in {"ok", "error"}, complete(i, res)
  PROVE  StateOK'
<1>0. StateOK
  BY DEF CoreInv
<1>1. [obj |-> i, res |-> res] \in Events
  BY DEF Events
<1>2. ring' \in Seq(Events)
  BY <1>0, <1>1, AppendedEvent DEF complete, StateOK
<1>3. outcome' \in [Requests -> Outcomes]
  BY <1>0 DEF complete, StateOK, Outcomes
<1> QED
  BY <1>0, <1>2, <1>3 DEF complete, StateOK

\* The permits stay a number where there is a semaphore.
LEMMA PermitsType ==
  ASSUME StateOK, NEW n \in Nat, ioSpace' = Released(n)
  PROVE  ioSpace' \in Nat \cup {None} /\ (HasSemaphore' <=> HasSemaphore)
BY ContextAssumption DEF StateOK, Released, HasSemaphore

\* The polling thread's step keeps the types.
LEMMA PollerTypes ==
  ASSUME CoreInv, PollerAction
  PROVE  StateOK'
<1>0. StateOK /\ poller \in PollerType
  BY DEF CoreInv, StateOK
<1>1. ASSUME poller.pc \in {"loop", "aloop"}
      PROVE  poller.batch # <<>>
  BY <1>1 DEF CoreInv, PollerShape
<1>2. IdlePoller \in PollerType
  BY EmptySeq DEF IdlePoller, PollerType, Files
<1>3. ASSUME NEW batch \in Seq(Events)
      PROVE  /\ Continue(batch) \in {"events", "loop"}
             /\ ContinueArray(batch) \in {"areturn", "aloop"}
  BY DEF Continue, ContinueArray
<1>4. CASE poll
  BY <1>0, <1>4 DEF poll, StateOK, PollerType
<1>5. CASE lockPoll
  BY <1>0, <1>5 DEF lockPoll, StateOK, PollerType
<1>6. CASE getEvents
  <2>1. Taken(QueueSize) \in Seq(Events) /\ Left(QueueSize) \in Seq(Events)
    BY <1>0, ContextAssumption, TakenEvents DEF StateOK
  <2>2. poller' \in PollerType
    BY <1>0, <1>6, <2>1 DEF getEvents, PollerType, LastFileReset, Files
  <2> QED
    BY <1>0, <1>6, <2>1, <2>2 DEF getEvents, StateOK
<1>7. CASE getEventsFails
  BY <1>0, <1>2, <1>7 DEF getEventsFails, StateOK
<1>8. CASE stopOnDumb
  BY <1>0, <1>2, <1>8 DEF stopOnDumb, StateOK
<1>9. ASSUME sync PROVE unsynced' \subseteq Requests
  BY <1>0, <1>9 DEF sync, fdatasync, StateOK
<1>10. ASSUME onError PROVE errored' \subseteq Requests /\ masked' \subseteq Requests
  BY <1>0, <1>10 DEF onError, StateOK
<1>11. CASE handleEvent
  <2>1. /\ Tail(poller.batch) \in Seq(Events) /\ Event.obj \in Iocbs
        /\ Data \in Requests \cup {None, Dumb} /\ Fildes \in Files
    BY <1>1, <1>11, CurrentEvent DEF handleEvent
  <2>2. poller' \in PollerType
    BY <1>0, <1>11, <2>1 DEF handleEvent, PollerType
  <2>3. aio' \in [Iocbs -> AioType]
    <3>1. aio \in [Iocbs -> AioType] /\ aio[Event.obj] \in AioType
      BY <1>0, <2>1 DEF StateOK
    <3>2. [aio[Event.obj] EXCEPT !.data = None] \in AioType
      BY <3>1 DEF AioType
    <3>3. aio' = [aio EXCEPT ![Event.obj] = [aio[Event.obj] EXCEPT !.data = None]]
      BY <1>11, <2>1, <3>1 DEF handleEvent
    <3> QED
      BY <3>1, <3>2, <3>3
  <2> QED
    BY <1>0, <1>9, <1>10, <1>11, <2>2, <2>3 DEF handleEvent, StateOK
<1>12. CASE invalidRecord
  <2>1. Tail(poller.batch) \in Seq(Events) /\ Fildes \in Files
    BY <1>1, <1>12, CurrentEvent DEF invalidRecord
  <2>2. poller' \in PollerType
    BY <1>0, <1>3, <1>12, <2>1 DEF invalidRecord, PollerType
  <2> QED
    BY <1>0, <1>9, <1>12, <2>2 DEF invalidRecord, StateOK
<1>13. poller.pc = "done" => poller.obj \in Requests /\ outcome[poller.obj] = "completed"
  BY DEF CoreInv, PollerTracked
<1>14. CASE infoDone
  <2>1. outcome' \in [Requests -> Outcomes]
    BY <1>0, <1>13, <1>14, TellCompleted DEF infoDone, Outcomes
  <2>2. poller' \in PollerType
    BY <1>0, <1>14 DEF infoDone, PollerType
  <2> QED
    BY <1>0, <1>14, <2>1, <2>2 DEF infoDone, StateOK
<1>15. CASE infoDoneFails
  <2>1. outcome' \in [Requests -> Outcomes]
    BY <1>0, <1>13, <1>15, TellCompleted DEF infoDoneFails, Outcomes
  <2>2. Continue(poller.batch) \in {"events", "loop"}
    BY <1>0, <1>3 DEF PollerType
  <2>3. poller' \in PollerType
    BY <1>0, <1>15, <2>2 DEF infoDoneFails, PollerType
  <2> QED
    BY <1>0, <1>15, <2>1, <2>3 DEF infoDoneFails, StateOK
<1>16. CASE release
  <2>1. ioSpace' \in Nat \cup {None}
    BY <1>0, <1>16, PermitsType DEF release
  <2>2. Continue(poller.batch) \in {"events", "loop"}
    BY <1>0, <1>3 DEF PollerType
  <2>3. poller' \in PollerType
    BY <1>0, <1>16, <2>2 DEF release, PollerType
  <2> QED
    BY <1>0, <1>16, <2>1, <2>3 DEF release, StateOK
<1>17. CASE pollArray
  BY <1>0, <1>17 DEF pollArray, StateOK, PollerType
<1>18. CASE pollArrayGet
  <2>1. /\ Taken(PollMax) \in Seq(Events) /\ Left(PollMax) \in Seq(Events)
        /\ Count(PollMax) \in Nat
    BY <1>0, ContextAssumption, TakenEvents DEF StateOK
  <2>2. ContinueArray(Taken(PollMax)) \in {"areturn", "aloop"} /\ Count(PollMax) \in Int
    BY <1>3, <2>1
  <2>3. poller' \in PollerType
    BY <1>0, <1>18, <2>1, <2>2 DEF pollArrayGet, PollerType
  <2> QED
    BY <1>0, <1>18, <2>1, <2>3 DEF pollArrayGet, StateOK
<1>19. CASE pollArrayFails
  <2>1. poller' = [poller EXCEPT !.pc = "areturn", !.result = -1] /\ -1 \in Int
    BY <1>19 DEF pollArrayFails
  <2>2. poller' \in PollerType
    BY <1>0, <2>1 DEF PollerType
  <2> QED
    BY <1>0, <1>19, <2>2 DEF pollArrayFails, StateOK
<1>20. CASE pollArrayEvent
  <2>1. /\ Tail(poller.batch) \in Seq(Events)
        /\ Data \in Requests => outcome[Data] = "completed"
    BY <1>1, <1>20, CurrentEvent DEF pollArrayEvent
  <2>2. outcome' \in [Requests -> Outcomes] /\ refs' \subseteq Requests
    <3>1. CASE Data \in Requests
      BY <1>0, <1>20, <2>1, <3>1, TellCompleted DEF pollArrayEvent, Outcomes, StateOK
    <3>2. CASE Data \notin Requests
      BY <1>0, <1>20, <3>2 DEF pollArrayEvent, StateOK
    <3> QED
      BY <3>1, <3>2
  <2>3. ContinueArray(Tail(poller.batch)) \in {"areturn", "aloop"}
    BY <1>3, <2>1
  <2>4. poller' \in PollerType
    BY <1>0, <1>20, <2>1, <2>3 DEF pollArrayEvent, PollerType
  <2> QED
    BY <1>0, <1>10, <1>20, <2>2, <2>4 DEF pollArrayEvent, StateOK
<1>21. CASE pollArrayReturn
  <2>1. Returned \in Nat
    BY <1>0 DEF Returned, PollerType
  <2>2. ioSpace' \in Nat \cup {None}
    BY <1>0, <1>21, <2>1, PermitsType DEF pollArrayReturn
  <2> QED
    BY <1>0, <1>2, <1>21, <2>2 DEF pollArrayReturn, StateOK
<1>22. CASE pollArrayThrows
  <2>1. Returned \in Nat /\ forfeited \in Nat
    BY <1>0 DEF Returned, PollerType, StateOK
  <2>2. forfeited' \in Nat
    BY <1>22, <2>1 DEF pollArrayThrows
  <2> QED
    BY <1>0, <1>2, <1>22, <2>2 DEF pollArrayThrows, StateOK
<1> QED
  BY <1>4, <1>5, <1>6, <1>7, <1>8, <1>11, <1>12, <1>14, <1>15, <1>16, <1>17, <1>18,
     <1>19, <1>20, <1>21, <1>22 DEF PollerAction, pollerStep

\* A closer's step keeps the types.
LEMMA CloserTypes ==
  ASSUME CoreInv, NEW c \in Closers, CloserAction(c)
  PROVE  StateOK'
<1>0. StateOK
  BY DEF CoreInv
<1>1. ASSUME NEW l \in CloserLabels, Goto(c, l)
      PROVE  closer' \in [Closers -> CloserType]
  BY <1>0, <1>1, CloserGoes DEF Goto
<1>2. closer[c].pc = "dumb" => closer[c].iocb \in Iocbs
  BY DEF CoreInv, CloserShape
<1>3. ASSUME closer[c].pc = "dumb", prepDumb(c) PROVE aio' \in [Iocbs -> AioType]
  <2>1. DumbWrite \in AioType
    BY DEF DumbWrite, AioType, Files
  <2> QED
    BY <1>0, <1>2, <1>3, <2>1 DEF prepDumb, StateOK
<1>4. CASE close(c)
  <2>1. (IF closed THEN "returned" ELSE "drain") \in CloserLabels
    BY DEF CloserLabels
  <2> QED
    BY <1>0, <1>1, <1>4, <2>1 DEF close, StateOK
<1>5. CASE drain(c)
  <2>1. ioSpace' \in Nat \cup {None}
    BY <1>0, <1>5, ContextAssumption DEF drain, StateOK, HasSemaphore, PermitsAsked
  <2>2. closer' \in [Closers -> CloserType]
    <3>1. HasSemaphore \in BOOLEAN /\ "delete" \in CloserLabels
      BY DEF HasSemaphore, CloserLabels
    <3> QED
      BY <1>0, <1>5, <3>1, CloserDrains DEF drain
  <2> QED
    BY <1>0, <1>5, <2>1, <2>2 DEF drain, StateOK
<1>6. CASE drainTimeout(c)
  BY <1>0, <1>1, <1>6 DEF drainTimeout, StateOK, CloserLabels
<1>7. CASE deleteGet(c)
  <2>1. closer' \in [Closers -> CloserType]
    BY <1>0, <1>7, CloserGets DEF deleteGet, CloserLabels
  <2> QED
    BY <1>0, <1>7, <2>1 DEF deleteGet, StateOK
<1>8. CASE deleteFull(c)
  BY <1>0, <1>1, <1>8 DEF deleteFull, StateOK, CloserLabels
<1>9. CASE deleteSubmit(c)
  BY <1>0, <1>1, <1>2, <1>3, <1>9 DEF deleteSubmit, StateOK, CloserLabels
<1>10. CASE deleteSubmitFails(c)
  BY <1>0, <1>1, <1>3, <1>10 DEF deleteSubmitFails, StateOK, CloserLabels
<1>11. CASE deleteWait(c)
  BY <1>0, <1>1, <1>11 DEF deleteWait, StateOK, CloserLabels
<1>12. CASE deleteReap(c)
  <2>1. ring \in Seq(Events) /\ (ring # <<>> => Tail(ring) \in Seq(Events))
    BY <1>0, TreatedEvent DEF StateOK
  <2> QED
    BY <1>0, <1>1, <1>12, <2>1 DEF deleteReap, StateOK, CloserLabels
<1>13. CASE deleteFree(c)
  BY <1>0, <1>1, <1>13 DEF deleteFree, StateOK, CloserLabels
<1> QED
  BY <1>4, <1>5, <1>6, <1>7, <1>8, <1>9, <1>10, <1>11, <1>12, <1>13
     DEF CloserAction, closerStep

LEMMA NextKeepsTypes ==
  ASSUME CoreInv, [Next]_vars
  PROVE  StateOK'
<1>1. CASE UNCHANGED vars
  BY <1>1 DEF vars, CoreInv, StateOK
<1> QED
  BY <1>1, NextByActor, SubmitterTypes, CompleteTypes, PollerTypes, CloserTypes

-------------------------------------------------------------------------------
(***************************************************************************)
(* The polling thread's lock and batch.                                    *)
(***************************************************************************)
LEMMA NextKeepsPollerShape ==
  ASSUME CoreInv, [Next]_vars
  PROVE  PollerShape'
<1>0. PollerShape /\ poller \in PollerType /\ pollLock \in {None, Poller} /\ None # Poller
  BY ContextAssumption DEF CoreInv, StateOK, Poller
<1>1. ASSUME UNCHANGED <<pollLock, poller>> PROVE PollerShape'
  BY <1>0, <1>1 DEF PollerShape, Returned
<1>2. ASSUME PollerAction PROVE PollerShape'
  <2>1. CASE poll \/ lockPoll
    BY <1>0, <2>1 DEF poll, lockPoll, PollerShape, Returned, PollerType
  <2>2. CASE getEvents
    <3>1. /\ Len(Taken(QueueSize)) = Count(QueueSize) /\ Count(QueueSize) > 0
          /\ Taken(QueueSize) \in Seq(Events)
      BY <2>2, ContextAssumption, TakenEvents DEF getEvents, Enough, Count, CoreInv, StateOK
    <3>2. Taken(QueueSize) # <<>>
      BY <3>1, EmptySeq
    <3> QED
      BY <1>0, <2>2, <3>2 DEF getEvents, PollerShape, PollerType, Returned
  <2>3. CASE getEventsFails \/ stopOnDumb
    BY <1>0, <2>3 DEF getEventsFails, stopOnDumb, IdlePoller, PollerShape, Returned
  <2>4. CASE handleEvent
    BY <1>0, <2>4 DEF handleEvent, PollerShape, PollerType, Returned
  <2>5. CASE invalidRecord
    BY <1>0, <2>5 DEF invalidRecord, PollerShape, PollerType, Returned, Continue
  <2>6. CASE infoDone
    BY <1>0, <2>6 DEF infoDone, PollerShape, PollerType, Returned
  <2>7. CASE infoDoneFails \/ release
    BY <1>0, <2>7 DEF infoDoneFails, release, PollerShape, PollerType, Returned, Continue
  <2>8. CASE pollArray
    BY <1>0, <2>8 DEF pollArray, PollerShape, PollerType, Returned
  <2>9. CASE pollArrayGet
    <3>1. Len(Taken(PollMax)) = Count(PollMax) /\ Count(PollMax) \in Nat
      BY ContextAssumption, TakenEvents DEF CoreInv, StateOK
    <3>2. Len(poller'.batch) <= Returned'
      BY <1>0, <2>9, <3>1 DEF pollArrayGet, PollerType, Returned
    <3> QED
      BY <1>0, <2>9, <3>2 DEF pollArrayGet, PollerShape, PollerType, ContinueArray
  <2>10. CASE pollArrayFails
    <3>1. poller.batch = <<>> /\ poller'.batch = <<>> /\ poller'.pc = "areturn"
      BY <1>0, <2>10 DEF pollArrayFails, PollerShape, PollerType
    <3>2. Len(poller'.batch) <= Returned'
      BY <1>0, <2>10, <3>1, EmptySeq DEF pollArrayFails, PollerType, Returned
    <3> QED
      BY <1>0, <2>10, <3>1, <3>2 DEF pollArrayFails, PollerShape
  <2>11. CASE pollArrayEvent
    <3>1. /\ poller'.pc = ContinueArray(Tail(poller.batch))
          /\ poller'.batch = Tail(poller.batch) /\ poller'.result = poller.result
      BY <1>0, <2>11 DEF pollArrayEvent, PollerType
    <3>2. poller.batch # <<>> /\ poller.batch \in Seq(Events)
      BY <1>0, <2>11 DEF pollArrayEvent, PollerShape, PollerType
    <3>3. Len(Tail(poller.batch)) = Len(poller.batch) - 1 /\ Len(poller.batch) \in Nat
      BY <3>2, TreatedEvent
    <3>4. Len(poller.batch) <= Returned /\ Returned \in Nat
      BY <1>0, <2>11 DEF pollArrayEvent, PollerShape, PollerType, Returned
    <3>5. Returned' = Returned
      BY <3>1 DEF Returned
    <3>6. Len(poller'.batch) <= Returned'
      BY <3>1, <3>3, <3>4, <3>5
    <3> QED
      BY <1>0, <2>11, <3>1, <3>6 DEF pollArrayEvent, PollerShape, ContinueArray
  <2>12. CASE pollArrayReturn \/ pollArrayThrows
    BY <1>0, <2>12 DEF pollArrayReturn, pollArrayThrows, PollerShape, IdlePoller, Returned
  <2> QED
    BY <1>2, <2>1, <2>2, <2>3, <2>4, <2>5, <2>6, <2>7, <2>8, <2>9, <2>10, <2>11, <2>12
       DEF PollerAction, pollerStep
<1>3. ASSUME NEW i, NEW res, complete(i, res) PROVE UNCHANGED <<pollLock, poller>>
  BY <1>3 DEF complete
<1> QED
  BY <1>1, <1>2, <1>3, NextByActor, SubmitterFrame, CloserFrame DEF vars

-------------------------------------------------------------------------------
(***************************************************************************)
(* Which hand a structure is in.                                           *)
(***************************************************************************)

\* A submitter that neither gets nor gives up a structure.
LEMMA PrepRests ==
  ASSUME CoreInv, NEW s \in Submitters, sub[s].pc # "prep", sub'[s].pc # "prep",
         \A t \in Submitters \ {s} : sub'[t] = sub[t]
  PROVE  /\ PrepIocbs' = PrepIocbs
         /\ \A t \in Submitters : sub'[t].pc = "prep" => sub'[t] = sub[t]
<1>1. \A t \in Submitters : (sub'[t].pc = "prep" \/ sub[t].pc = "prep") => sub'[t] = sub[t]
  OBVIOUS
<1> QED
  BY <1>1 DEF PrepIocbs

\* A submitter that gives its structure away.
LEMMA PrepGives ==
  ASSUME CoreInv, NEW s \in Submitters, sub[s].pc = "prep", sub'[s].pc = "idle",
         \A t \in Submitters \ {s} : sub'[t] = sub[t]
  PROVE  /\ PrepIocbs' = PrepIocbs \ {sub[s].iocb}
         /\ \A t \in Submitters : sub'[t].pc = "prep" => t # s /\ sub'[t] = sub[t]
<1>1. \A t \in Submitters : sub[t].pc = "prep" /\ sub[t].iocb = sub[s].iocb => t = s
  BY DEF CoreInv, HeldOnce
<1>2. \A t \in Submitters : sub'[t].pc = "prep" => t # s /\ sub'[t] = sub[t]
  OBVIOUS
<1>3. \A t \in Submitters : sub[t].pc = "prep" /\ t # s => sub'[t] = sub[t]
  OBVIOUS
<1> QED
  BY <1>1, <1>2, <1>3 DEF PrepIocbs

\* The same for the structure of the dumb write.
LEMMA DumbRests ==
  ASSUME NEW c \in Closers, closer[c].pc # "dumb", closer'[c].pc # "dumb",
         \A d \in Closers \ {c} : closer'[d] = closer[d]
  PROVE  DumbIocbs' = DumbIocbs
<1>1. \A d \in Closers : (closer'[d].pc = "dumb" \/ closer[d].pc = "dumb")
                           => closer'[d] = closer[d]
  OBVIOUS
<1> QED
  BY <1>1 DEF DumbIocbs

LEMMA DumbGives ==
  ASSUME CoreInv, NEW c \in Closers, closer[c].pc = "dumb", closer'[c].pc # "dumb",
         \A d \in Closers \ {c} : closer'[d] = closer[d]
  PROVE  DumbIocbs = {closer[c].iocb} /\ DumbIocbs' = {}
<1>1. \A d \in Closers : closer[d].pc = "dumb" => d = c
  BY DEF CoreInv, CloserShape, Busy
<1>2. \A d \in Closers : closer'[d].pc # "dumb"
  BY <1>1
<1> QED
  BY <1>1, <1>2 DEF DumbIocbs

LEMMA NativeGetHands ==
  ASSUME CoreInv, NEW s \in Submitters, nativeGet(s)
  PROVE  \E i \in Iocbs \ Out :
           /\ P!PoolInv' /\ Out' = Out \cup {i} /\ used' = used + 1 /\ iocb' = iocb
           /\ PrepIocbs' = PrepIocbs \cup {i}
           /\ sub'[s].pc = "prep" /\ sub'[s].iocb = i /\ sub'[s].req = sub[s].req
           /\ \A t \in Submitters \ {s} : sub'[t] = sub[t]
<1>1. PICK i \in Iocbs : /\ Pool!getIOCB(i)
                         /\ sub' = [sub EXCEPT ![s].pc = "prep", ![s].iocb = i]
  BY DEF nativeGet
<1>2. /\ P!PoolInv' /\ Out' = Out \cup {i} /\ i \notin Out
      /\ used' = used + 1 /\ iocb' = iocb
  BY <1>1, PoolGets DEF CoreInv
<1>3. /\ sub'[s].pc = "prep" /\ sub'[s].iocb = i /\ sub'[s].req = sub[s].req
      /\ \A t \in Submitters \ {s} : sub'[t] = sub[t]
  BY <1>1, SubmitterGets DEF CoreInv, SubmitterLabels
<1>4. sub[s].pc # "prep"
  BY DEF nativeGet
<1>5. \A t \in Submitters : sub[t].pc = "prep" => sub'[t] = sub[t]
  BY <1>3, <1>4
<1>6. \A t \in Submitters : sub'[t].pc = "prep" => t = s \/ sub'[t] = sub[t]
  BY <1>3
<1>7. PrepIocbs' = PrepIocbs \cup {i}
  BY <1>3, <1>5, <1>6 DEF PrepIocbs
<1> QED
  BY <1>1, <1>2, <1>3, <1>7

LEMMA NativeSubmitHands ==
  ASSUME CoreInv, NEW s \in Submitters, nativeSubmit(s)
  PROVE  /\ P!PoolInv' /\ Out' = Out /\ used' = used
         /\ sub[s].iocb \in PrepIocbs /\ PrepIocbs' = PrepIocbs \ {sub[s].iocb}
         /\ kernel' = kernel \cup {sub[s].iocb}
         /\ sub'[s].pc = "idle" /\ \A t \in Submitters \ {s} : sub'[t] = sub[t]
<1>1. P!PoolInv' /\ Out' = Out /\ used' = used
  BY PoolRests DEF CoreInv, nativeSubmit
<1>2. sub'[s].pc = "idle" /\ \A t \in Submitters \ {s} : sub'[t] = sub[t]
  BY SubmitterReturns DEF CoreInv, nativeSubmit
<1>3. PrepIocbs' = PrepIocbs \ {sub[s].iocb} /\ sub[s].iocb \in PrepIocbs
  BY <1>2, PrepGives, CurrentRequest DEF nativeSubmit
<1> QED
  BY <1>1, <1>2, <1>3 DEF nativeSubmit

LEMMA NativeSubmitFailsHands ==
  ASSUME CoreInv, NEW s \in Submitters, nativeSubmitFails(s)
  PROVE  /\ P!PoolInv' /\ Out' = Out \ {sub[s].iocb} /\ used' = used - 1
         /\ sub[s].iocb \in PrepIocbs /\ PrepIocbs' = PrepIocbs \ {sub[s].iocb}
         /\ sub'[s].pc = "idle" /\ \A t \in Submitters \ {s} : sub'[t] = sub[t]
<1>1. sub[s].iocb \in PrepIocbs
  BY CurrentRequest DEF nativeSubmitFails
<1>2. sub[s].iocb \in Out
  BY <1>1 DEF CoreInv, HeldOnce, Held, PrepIocbs
<1>3. P!PoolInv' /\ Out' = Out \ {sub[s].iocb} /\ used' = used - 1
  BY <1>2, PoolPuts DEF CoreInv, nativeSubmitFails
<1>4. sub'[s].pc = "idle" /\ \A t \in Submitters \ {s} : sub'[t] = sub[t]
  BY SubmitterReturns DEF CoreInv, nativeSubmitFails, Reject
<1>5. PrepIocbs' = PrepIocbs \ {sub[s].iocb}
  BY <1>4, PrepGives DEF nativeSubmitFails
<1> QED
  BY <1>1, <1>3, <1>4, <1>5

LEMMA CompleteHands ==
  ASSUME CoreInv, NEW i \in Iocbs, NEW res \in {"ok", "error"}, complete(i, res)
  PROVE  /\ P!PoolInv' /\ Out' = Out /\ used' = used
         /\ i \in kernel /\ kernel' = kernel \ {i}
         /\ Objs(ring') = Objs(ring) \cup {i} /\ EachOnce(ring')
<1>1. P!PoolInv' /\ Out' = Out /\ used' = used
  BY PoolRests DEF CoreInv, complete
<1>2. [obj |-> i, res |-> res] \in Events /\ [obj |-> i, res |-> res].obj = i
  BY DEF Events
<1>3. ring \in Seq(Events) /\ EachOnce(ring) /\ i \notin Objs(ring)
  BY DEF CoreInv, StateOK, HeldOnce, Queued, complete
<1>4. ring' = Append(ring, [obj |-> i, res |-> res])
  BY DEF complete
<1>5. Objs(ring') = Objs(ring) \cup {i} /\ EachOnce(ring')
  BY <1>2, <1>3, <1>4, AppendedEvent
<1> QED
  BY <1>1, <1>5 DEF complete

\* A step of the poller that takes events from the ring.
LEMMA TakingHands ==
  ASSUME CoreInv, NEW max \in Nat, UNCHANGED poolVars, poller.batch = <<>>,
         ring' = Left(max), poller'.batch = Taken(max)
  PROVE  /\ P!PoolInv' /\ Out' = Out /\ used' = used
         /\ Objs(poller.batch) = {}
         /\ Objs(ring) = Objs(poller'.batch) \cup Objs(ring')
         /\ Objs(poller'.batch) \cap Objs(ring') = {}
         /\ EachOnce(ring') /\ EachOnce(poller'.batch)
<1>1. P!PoolInv' /\ Out' = Out /\ used' = used
  BY PoolRests DEF CoreInv
<1>2. Objs(poller.batch) = {}
  BY EmptySeq DEF Objs
<1>3. ring \in Seq(Events) /\ EachOnce(ring)
  BY DEF CoreInv, StateOK, HeldOnce
<1>4. /\ Objs(ring) = Objs(Taken(max)) \cup Objs(Left(max))
      /\ EachOnce(Taken(max)) /\ EachOnce(Left(max))
      /\ Objs(Taken(max)) \cap Objs(Left(max)) = {}
  BY <1>3, TakenEvents
<1> QED
  BY <1>1, <1>2, <1>4

\* A step of the poller that puts the structure of its event back.
LEMMA PuttingHands ==
  ASSUME CoreInv, poller.batch # <<>>, Pool!putIOCB(Event.obj)
  PROVE  /\ P!PoolInv' /\ Out' = Out \ {Event.obj} /\ used > 0 /\ used' = used - 1
         /\ iocb' = [iocb EXCEPT ![iocbPut] = Event.obj]
BY CurrentEvent, PoolPuts DEF CoreInv

LEMMA DeleteGetHands ==
  ASSUME CoreInv, NEW c \in Closers, deleteGet(c)
  PROVE  \E i \in Iocbs \ Out :
           /\ P!PoolInv' /\ Out' = Out \cup {i} /\ used' = used + 1 /\ iocb' = iocb
           /\ i = iocb[iocbGet] /\ used < QueueSize /\ iocbPut' = iocbPut
           /\ DumbIocbs = {} /\ DumbIocbs' = {i}
           /\ closer'[c].pc = "dumb" /\ closer'[c].iocb = i
           /\ closer'[c].drained = closer[c].drained
           /\ \A d \in Closers \ {c} : closer'[d] = closer[d]
<1>1. PICK i \in Iocbs : /\ Pool!getIOCB(i)
                         /\ closer' = [closer EXCEPT ![c].pc = "dumb", ![c].iocb = i]
  BY DEF deleteGet
<1>2. /\ P!PoolInv' /\ Out' = Out \cup {i} /\ i \notin Out
      /\ used' = used + 1 /\ iocb' = iocb
  BY <1>1, PoolGets DEF CoreInv
<1>3. i = iocb[iocbGet] /\ used < QueueSize /\ iocbPut' = iocbPut
  BY <1>1 DEF Pool!getIOCB
<1>4. /\ closer'[c].pc = "dumb" /\ closer'[c].iocb = i
      /\ closer'[c].drained = closer[c].drained
      /\ \A d \in Closers \ {c} : closer'[d] = closer[d]
  BY <1>1, CloserGets DEF CoreInv, CloserLabels
<1>5. \A d \in Closers : closer[d].pc # "dumb"
  BY DEF CoreInv, CloserShape, Busy, deleteGet
<1>6. \A d \in Closers : closer'[d].pc = "dumb" => d = c
  BY <1>4, <1>5
<1>7. DumbIocbs = {} /\ DumbIocbs' = {i}
  BY <1>4, <1>5, <1>6 DEF DumbIocbs
<1> QED
  BY <1>1, <1>2, <1>3, <1>4, <1>7

\* A closer that only goes on.
LEMMA ClosersMove ==
  ASSUME CoreInv, NEW c \in Closers, NEW l \in CloserLabels, Goto(c, l)
  PROVE  /\ closer'[c].pc = l /\ closer'[c].iocb = closer[c].iocb
         /\ closer'[c].drained = closer[c].drained
         /\ \A d \in Closers \ {c} : closer'[d] = closer[d]
BY CloserGoes DEF CoreInv, Goto

LEMMA DeleteSubmitHands ==
  ASSUME CoreInv, NEW c \in Closers, deleteSubmit(c)
  PROVE  /\ P!PoolInv' /\ Out' = Out /\ used' = used /\ closer[c].iocb \in Iocbs
         /\ DumbIocbs = {closer[c].iocb} /\ DumbIocbs' = {}
         /\ kernel' = kernel \cup {closer[c].iocb}
<1>1. P!PoolInv' /\ Out' = Out /\ used' = used
  BY PoolRests DEF CoreInv, deleteSubmit
<1>2. closer'[c].pc # "dumb" /\ \A d \in Closers \ {c} : closer'[d] = closer[d]
  BY ClosersMove DEF deleteSubmit, CloserLabels
<1>3. DumbIocbs = {closer[c].iocb} /\ DumbIocbs' = {}
  BY <1>2, DumbGives DEF deleteSubmit
<1> QED
  BY <1>1, <1>3 DEF deleteSubmit, CoreInv, CloserShape

LEMMA DeleteSubmitFailsHands ==
  ASSUME CoreInv, NEW c \in Closers, deleteSubmitFails(c)
  PROVE  /\ P!PoolInv' /\ Out' = Out \ {closer[c].iocb} /\ used > 0 /\ used' = used - 1
         /\ closer[c].iocb \in Iocbs
         /\ DumbIocbs = {closer[c].iocb} /\ DumbIocbs' = {}
         /\ iocb' = [iocb EXCEPT ![iocbPut] = closer[c].iocb]
<1>1. closer'[c].pc # "dumb" /\ \A d \in Closers \ {c} : closer'[d] = closer[d]
  BY ClosersMove DEF deleteSubmitFails, CloserLabels
<1>2. DumbIocbs = {closer[c].iocb} /\ DumbIocbs' = {}
  BY <1>1, DumbGives DEF deleteSubmitFails
<1>3. closer[c].iocb \in Out
  BY <1>2 DEF CoreInv, HeldOnce, Held, DumbIocbs
<1>4. /\ P!PoolInv' /\ Out' = Out \ {closer[c].iocb} /\ used > 0 /\ used' = used - 1
      /\ iocb' = [iocb EXCEPT ![iocbPut] = closer[c].iocb]
  BY <1>3, PoolPuts DEF CoreInv, deleteSubmitFails
<1> QED
  BY <1>2, <1>4 DEF deleteSubmitFails, CoreInv, CloserShape

\* deleteContext takes an event from the ring, or none.
LEMMA DeleteReapHands ==
  ASSUME CoreInv, NEW c \in Closers, deleteReap(c)
  PROVE  \/ ring' = ring /\ P!PoolInv' /\ Out' = Out /\ used' = used /\ UNCHANGED poolVars
         \/ /\ ring # <<>> /\ ring' = Tail(ring) /\ P!PoolInv'
            /\ Out' = Out \ {Head(ring).obj} /\ used > 0 /\ used' = used - 1
            /\ iocb' = [iocb EXCEPT ![iocbPut] = Head(ring).obj]
            /\ Objs(ring) = Objs(ring') \cup {Head(ring).obj}
            /\ Head(ring).obj \notin Objs(ring') /\ EachOnce(ring')
<1>1. CASE UNCHANGED <<ring, poolVars>>
  BY <1>1, PoolRests DEF CoreInv
<1>2. CASE ring # <<>> /\ ring' = Tail(ring) /\ Pool!putIOCB(Head(ring).obj)
  <2>1. ring \in Seq(Events) /\ EachOnce(ring) /\ Objs(ring) \subseteq Out
    BY DEF CoreInv, StateOK, HeldOnce, Held
  <2>2. /\ Head(ring).obj \in Objs(ring)
        /\ Objs(ring) = Objs(Tail(ring)) \cup {Head(ring).obj}
        /\ Head(ring).obj \notin Objs(Tail(ring)) /\ EachOnce(Tail(ring))
    BY <1>2, <2>1, TreatedEvent
  <2>3. /\ P!PoolInv' /\ Out' = Out \ {Head(ring).obj} /\ used > 0 /\ used' = used - 1
        /\ iocb' = [iocb EXCEPT ![iocbPut] = Head(ring).obj]
    BY <1>2, <2>1, <2>2, PoolPuts DEF CoreInv
  <2> QED
    BY <1>2, <2>2, <2>3
<1> QED
  BY <1>1, <1>2 DEF deleteReap

LEMMA NextKeepsHeldOnce ==
  ASSUME CoreInv, [Next]_vars
  PROVE  P!PoolInv' /\ HeldOnce'
<1> DEFINE R == Objs(ring)
           B == Objs(poller.batch)
           R1 == Objs(ring')
           B1 == Objs(poller'.batch)
           Apart1 == /\ PrepIocbs' \cap DumbIocbs' = {}
                     /\ (PrepIocbs' \cup DumbIocbs') \cap (kernel' \cup R1 \cup B1) = {}
                     /\ kernel' \cap (R1 \cup B1) = {} /\ R1 \cap B1 = {}
                     /\ PrepIocbs' \cup DumbIocbs' \cup kernel' \cup R1 \cup B1 \subseteq Out'
           Preps1 == \A s, t \in Submitters :
                       sub'[s].pc = "prep" /\ sub'[t].pc = "prep"
                         /\ sub'[s].iocb = sub'[t].iocb => s = t
<1>1. /\ PrepIocbs \cap DumbIocbs = {}
      /\ (PrepIocbs \cup DumbIocbs) \cap (kernel \cup R \cup B) = {}
      /\ kernel \cap (R \cup B) = {} /\ R \cap B = {}
      /\ PrepIocbs \cup DumbIocbs \cup kernel \cup R \cup B \subseteq Out
  BY DEF CoreInv, HeldOnce, Held, PrepIocbs, DumbIocbs, InFlight, Queued
<1>2. /\ \A s, t \in Submitters :
           sub[s].pc = "prep" /\ sub[t].pc = "prep" /\ sub[s].iocb = sub[t].iocb => s = t
      /\ EachOnce(ring) /\ EachOnce(poller.batch)
  BY DEF CoreInv, HeldOnce
<1>3. ASSUME EachOnce(ring'), EachOnce(poller'.batch), Apart1, Preps1
      PROVE  HeldOnce'
  BY <1>3 DEF HeldOnce, Held, PrepIocbs, DumbIocbs, InFlight, Queued, EachOnce, Objs
<1>4. P!PoolInv
  BY DEF CoreInv
<1> HIDE DEF R, B, R1, B1, Apart1
<1>5. ASSUME UNCHANGED <<ring, poller>> PROVE R1 = R /\ B1 = B
  BY <1>5 DEF R, B, R1, B1
<1>6. ASSUME UNCHANGED poolVars, R1 = R, B1 = B, EachOnce(ring'), EachOnce(poller'.batch),
             UNCHANGED <<kernel, sub>>, DumbIocbs' = DumbIocbs
      PROVE  P!PoolInv' /\ HeldOnce'
  <2>1. P!PoolInv' /\ Out' = Out /\ PrepIocbs' = PrepIocbs
    BY <1>4, <1>6, PoolRests DEF PrepIocbs
  <2>2. Apart1
    BY <1>1, <1>6, <2>1 DEF Apart1
  <2> QED
    BY <1>2, <1>3, <1>6, <2>1, <2>2
<1>7. ASSUME NEW s \in Submitters, SubmitterAction(s) PROVE P!PoolInv' /\ HeldOnce'
  <2>0. UNCHANGED <<ring, poller, closer>> /\ DumbIocbs' = DumbIocbs /\ R1 = R /\ B1 = B
    BY <1>5, <1>7, SubmitterFrame DEF DumbIocbs
  <2>1. ASSUME UNCHANGED <<poolVars, kernel>>, sub[s].pc # "prep", sub'[s].pc # "prep",
               \A t \in Submitters \ {s} : sub'[t] = sub[t]
        PROVE  P!PoolInv' /\ HeldOnce'
    <3>1. P!PoolInv' /\ Out' = Out
      BY <1>4, <2>1, PoolRests
    <3>2. PrepIocbs' = PrepIocbs /\ Preps1
      BY <1>2, <2>1, PrepRests
    <3>3. Apart1
      BY <1>1, <2>0, <2>1, <3>1, <3>2 DEF Apart1
    <3> QED
      BY <1>2, <1>3, <2>0, <3>1, <3>2, <3>3
  <2>2. ASSUME NEW r, startSubmit(s, r) PROVE P!PoolInv' /\ HeldOnce'
    <3>1. CASE closed
      BY <1>2, <1>6, <2>0, <2>2, <3>1 DEF startSubmit
    <3>2. CASE ~closed
      <4>1. /\ sub'[s].pc = "acquire"
            /\ \A t \in Submitters \ {s} : sub'[t] = sub[t]
        BY <2>2, <3>2 DEF startSubmit, CoreInv, StateOK
      <4> QED
        BY <2>1, <2>2, <4>1 DEF startSubmit
    <3> QED
      BY <3>1, <3>2
  <2>3. CASE acquire(s)
    <3>1. sub'[s].pc = "native" /\ \A t \in Submitters \ {s} : sub'[t] = sub[t]
      BY <2>3, SubmitterGoes DEF acquire, SubmitterLabels, CoreInv
    <3> QED
      BY <2>1, <2>3, <3>1 DEF acquire
  <2>4. CASE acquireInterrupted(s) \/ nativeFull(s)
    <3>1. sub'[s].pc = "idle" /\ \A t \in Submitters \ {s} : sub'[t] = sub[t]
      BY <2>4, SubmitterReturns DEF acquireInterrupted, nativeFull, Reject, CoreInv
    <3> QED
      BY <2>1, <2>4, <3>1 DEF acquireInterrupted, nativeFull
  <2>5. CASE nativeGet(s)
    <3>1. PICK i \in Iocbs \ Out :
            /\ P!PoolInv' /\ Out' = Out \cup {i}
            /\ PrepIocbs' = PrepIocbs \cup {i}
            /\ sub'[s].pc = "prep" /\ sub'[s].iocb = i
            /\ \A t \in Submitters \ {s} : sub'[t] = sub[t]
      BY <2>5, NativeGetHands
    <3>2. \A t \in Submitters : sub[t].pc = "prep" => sub[t].iocb \in PrepIocbs
      BY DEF PrepIocbs
    <3>3. Preps1
      BY <1>1, <1>2, <3>1, <3>2
    <3>4. Apart1
      BY <1>1, <2>0, <2>5, <3>1 DEF Apart1, nativeGet
    <3> QED
      BY <1>2, <1>3, <2>0, <3>1, <3>3, <3>4
  <2>6. CASE nativeSubmit(s)
    <3>1. /\ P!PoolInv' /\ Out' = Out
          /\ sub[s].iocb \in PrepIocbs /\ PrepIocbs' = PrepIocbs \ {sub[s].iocb}
          /\ kernel' = kernel \cup {sub[s].iocb}
          /\ sub'[s].pc = "idle" /\ \A t \in Submitters \ {s} : sub'[t] = sub[t]
      BY <2>6, NativeSubmitHands
    <3>2. Preps1
      BY <1>2, <3>1
    <3>3. Apart1
      BY <1>1, <2>0, <3>1 DEF Apart1
    <3> QED
      BY <1>2, <1>3, <2>0, <3>1, <3>2, <3>3
  <2>7. CASE nativeSubmitFails(s)
    <3>1. /\ P!PoolInv' /\ Out' = Out \ {sub[s].iocb}
          /\ sub[s].iocb \in PrepIocbs /\ PrepIocbs' = PrepIocbs \ {sub[s].iocb}
          /\ sub'[s].pc = "idle" /\ \A t \in Submitters \ {s} : sub'[t] = sub[t]
      BY <2>7, NativeSubmitFailsHands
    <3>2. Preps1
      BY <1>2, <3>1
    <3>3. Apart1
      BY <1>1, <2>0, <2>7, <3>1 DEF Apart1, nativeSubmitFails
    <3> QED
      BY <1>2, <1>3, <2>0, <3>1, <3>2, <3>3
  <2> QED
    BY <1>7, <2>2, <2>3, <2>4, <2>5, <2>6, <2>7
       DEF SubmitterAction, submitWrite, submitRead, submitterStep
<1>8. ASSUME NEW i \in Iocbs, NEW res \in {"ok", "error"}, complete(i, res)
      PROVE  P!PoolInv' /\ HeldOnce'
  <2>1. /\ P!PoolInv' /\ Out' = Out /\ i \in kernel /\ kernel' = kernel \ {i}
        /\ R1 = R \cup {i} /\ EachOnce(ring')
    BY <1>8, CompleteHands DEF R, R1
  <2>2. UNCHANGED <<sub, poller, closer>> /\ B1 = B
    BY <1>8 DEF complete, B, B1
  <2>3. PrepIocbs' = PrepIocbs /\ DumbIocbs' = DumbIocbs
    BY <2>2 DEF PrepIocbs, DumbIocbs
  <2>4. Apart1
    BY <1>1, <2>1, <2>2, <2>3 DEF Apart1
  <2> QED
    BY <1>2, <1>3, <2>1, <2>2, <2>4
<1>9. ASSUME PollerAction PROVE P!PoolInv' /\ HeldOnce'
  <2>0. UNCHANGED <<kernel, sub, closer>> /\ PrepIocbs' = PrepIocbs /\ DumbIocbs' = DumbIocbs
    BY <1>9, PollerFrame DEF PrepIocbs, DumbIocbs
  <2>1. PollerShape /\ poller \in PollerType
    BY DEF CoreInv, StateOK
  <2>2. ASSUME UNCHANGED <<poolVars, ring>>, poller'.batch = poller.batch
        PROVE  P!PoolInv' /\ HeldOnce'
    BY <1>2, <1>6, <2>0, <2>2 DEF R, R1, B, B1
  <2>3. CASE poll \/ lockPoll \/ infoDone \/ infoDoneFails \/ release \/ pollArray
             \/ pollArrayFails
    <3>1. poller'.batch = poller.batch
      BY <2>1, <2>3 DEF poll, lockPoll, infoDone, infoDoneFails, release, pollArray,
                        pollArrayFails, PollerType
    <3> QED
      BY <2>2, <2>3, <3>1 DEF poll, lockPoll, infoDone, infoDoneFails, release, pollArray,
                              pollArrayFails
  <2>4. CASE getEventsFails \/ pollArrayReturn \/ pollArrayThrows
    <3>1. poller.pc \in {"events", "areturn"}
      BY <2>4 DEF getEventsFails, pollArrayReturn, pollArrayThrows
    <3>2. poller'.batch = <<>> /\ UNCHANGED <<poolVars, ring>>
      BY <2>4 DEF getEventsFails, pollArrayReturn, pollArrayThrows, IdlePoller
    <3>3. poller.batch = <<>>
      BY <2>1, <3>1 DEF PollerShape
    <3> QED
      BY <2>2, <3>2, <3>3
  <2>5. CASE getEvents \/ pollArrayGet
    <3>1. poller.pc \in {"events", "aevents"}
      BY <2>5 DEF getEvents, pollArrayGet
    <3>2. poller.batch = <<>>
      BY <2>1, <3>1 DEF PollerShape
    <3>3. PICK max \in Nat : ring' = Left(max) /\ poller'.batch = Taken(max)
      BY <2>1, <2>5, ContextAssumption DEF getEvents, pollArrayGet, PollerType
    <3>4. /\ P!PoolInv' /\ Out' = Out /\ B = {} /\ R = B1 \cup R1 /\ B1 \cap R1 = {}
          /\ EachOnce(ring') /\ EachOnce(poller'.batch)
      BY <2>5, <3>2, <3>3, TakingHands DEF getEvents, pollArrayGet, R, R1, B, B1
    <3>5. Apart1
      BY <1>1, <2>0, <3>4 DEF Apart1
    <3> QED
      BY <1>2, <1>3, <2>0, <3>4, <3>5
  <2>6. CASE stopOnDumb
    <3>1. poller.batch # <<>>
      BY <2>1, <2>6 DEF stopOnDumb, PollerShape
    <3>2. P!PoolInv' /\ Out' = Out \ {Event.obj} /\ Event.obj \in B
      BY <2>6, <3>1, PuttingHands, CurrentEvent DEF stopOnDumb, B
    <3>3. poller'.batch = <<>> /\ UNCHANGED ring
      BY <2>6 DEF stopOnDumb, IdlePoller
    <3>4. B1 = {} /\ EachOnce(poller'.batch) /\ R1 = R
      BY <3>3, EmptySeq DEF B1, Objs, EachOnce, R, R1
    <3>5. Apart1
      BY <1>1, <2>0, <3>2, <3>4 DEF Apart1
    <3> QED
      BY <1>2, <1>3, <2>0, <3>2, <3>3, <3>4, <3>5
  <2>7. CASE handleEvent \/ pollArrayEvent
    <3>1. poller.batch # <<>>
      BY <2>1, <2>7 DEF handleEvent, pollArrayEvent, PollerShape
    <3>2. poller'.batch = Tail(poller.batch) /\ UNCHANGED ring
      BY <2>1, <2>7 DEF handleEvent, pollArrayEvent, PollerType
    <3>3. P!PoolInv' /\ Out' = Out \ {Event.obj}
      BY <2>7, <3>1, PuttingHands DEF handleEvent, pollArrayEvent
    <3>4. B = B1 \cup {Event.obj} /\ Event.obj \notin B1 /\ EachOnce(poller'.batch) /\ R1 = R
      BY <3>1, <3>2, CurrentEvent DEF B, B1, R, R1
    <3>5. Apart1
      BY <1>1, <2>0, <3>3, <3>4 DEF Apart1
    <3> QED
      BY <1>2, <1>3, <2>0, <3>2, <3>3, <3>4, <3>5
  <2>8. CASE invalidRecord
    <3>1. poller.batch # <<>>
      BY <2>1, <2>8 DEF invalidRecord, PollerShape
    <3>2. poller'.batch = Tail(poller.batch) /\ UNCHANGED <<ring, poolVars>>
      BY <2>1, <2>8 DEF invalidRecord, PollerType
    <3>3. P!PoolInv' /\ Out' = Out
      BY <1>4, <3>2, PoolRests
    <3>4. B = B1 \cup {Event.obj} /\ EachOnce(poller'.batch) /\ R1 = R
      BY <3>1, <3>2, CurrentEvent DEF B, B1, R, R1
    <3>5. Apart1
      BY <1>1, <2>0, <3>3, <3>4 DEF Apart1
    <3> QED
      BY <1>2, <1>3, <2>0, <3>2, <3>3, <3>4, <3>5
  <2> QED
    BY <1>9, <2>3, <2>4, <2>5, <2>6, <2>7, <2>8 DEF PollerAction, pollerStep
<1>10. ASSUME NEW c \in Closers, CloserAction(c) PROVE P!PoolInv' /\ HeldOnce'
  <2>0. UNCHANGED <<sub, poller>> /\ PrepIocbs' = PrepIocbs /\ B1 = B
    BY <1>10, CloserFrame DEF PrepIocbs, B, B1
  <2>1. ASSUME UNCHANGED <<poolVars, kernel, ring>>, closer[c].pc # "dumb",
               NEW l \in CloserLabels, l # "dumb", Goto(c, l)
        PROVE  P!PoolInv' /\ HeldOnce'
    BY <1>2, <1>5, <1>6, <2>0, <2>1, DumbRests, ClosersMove
  <2>2. CASE close(c)
    BY <2>1, <2>2 DEF close, CloserLabels
  <2>3. CASE drainTimeout(c) \/ deleteFull(c) \/ deleteWait(c) \/ deleteFree(c)
    BY <2>1, <2>3 DEF drainTimeout, deleteFull, deleteWait, deleteFree, CloserLabels
  <2>4. CASE drain(c)
    <3>1. closer'[c].pc = "delete" /\ \A d \in Closers \ {c} : closer'[d] = closer[d]
      BY <2>4, CloserDrains DEF drain, CloserLabels, CoreInv, HasSemaphore
    <3>2. DumbIocbs' = DumbIocbs
      BY <2>4, <3>1, DumbRests DEF drain
    <3> QED
      BY <1>2, <1>5, <1>6, <2>0, <2>4, <3>2 DEF drain
  <2>5. CASE deleteGet(c)
    <3>1. PICK i \in Iocbs \ Out : /\ P!PoolInv' /\ Out' = Out \cup {i}
                                   /\ DumbIocbs = {} /\ DumbIocbs' = {i}
      BY <2>5, DeleteGetHands
    <3>2. UNCHANGED <<kernel, ring>> /\ R1 = R
      BY <2>5 DEF deleteGet, R, R1
    <3>3. Apart1
      BY <1>1, <2>0, <3>1, <3>2 DEF Apart1
    <3> QED
      BY <1>2, <1>3, <2>0, <3>1, <3>2, <3>3
  <2>6. CASE deleteSubmit(c)
    <3>1. /\ P!PoolInv' /\ Out' = Out
          /\ DumbIocbs = {closer[c].iocb} /\ DumbIocbs' = {}
          /\ kernel' = kernel \cup {closer[c].iocb}
      BY <2>6, DeleteSubmitHands
    <3>2. UNCHANGED ring /\ R1 = R
      BY <2>6 DEF deleteSubmit, R, R1
    <3>3. Apart1
      BY <1>1, <2>0, <3>1, <3>2 DEF Apart1
    <3> QED
      BY <1>2, <1>3, <2>0, <3>1, <3>2, <3>3
  <2>7. CASE deleteSubmitFails(c)
    <3>1. /\ P!PoolInv' /\ Out' = Out \ {closer[c].iocb}
          /\ DumbIocbs = {closer[c].iocb} /\ DumbIocbs' = {}
      BY <2>7, DeleteSubmitFailsHands
    <3>2. UNCHANGED <<kernel, ring>> /\ R1 = R
      BY <2>7 DEF deleteSubmitFails, R, R1
    <3>3. Apart1
      BY <1>1, <2>0, <3>1, <3>2 DEF Apart1
    <3> QED
      BY <1>2, <1>3, <2>0, <3>1, <3>2, <3>3
  <2>8. CASE deleteReap(c)
    <3>1. closer'[c].pc # "dumb" /\ \A d \in Closers \ {c} : closer'[d] = closer[d]
      BY <2>8, ClosersMove DEF deleteReap, CloserLabels
    <3>2. DumbIocbs' = DumbIocbs /\ UNCHANGED kernel
      BY <2>8, <3>1, DumbRests DEF deleteReap
    <3>3. CASE ring' = ring /\ UNCHANGED poolVars
      BY <1>2, <1>5, <1>6, <2>0, <3>2, <3>3
    <3>4. CASE /\ P!PoolInv' /\ Out' = Out \ {Head(ring).obj}
               /\ Objs(ring) = Objs(ring') \cup {Head(ring).obj}
               /\ Head(ring).obj \notin Objs(ring') /\ EachOnce(ring')
      <4>1. R = R1 \cup {Head(ring).obj} /\ Head(ring).obj \notin R1
        BY <3>4 DEF R, R1
      <4>2. Apart1
        BY <1>1, <2>0, <3>2, <3>4, <4>1 DEF Apart1
      <4> QED
        BY <1>2, <1>3, <2>0, <3>4, <4>2
    <3> QED
      BY <2>8, <3>3, <3>4, DeleteReapHands
  <2> QED
    BY <1>10, <2>2, <2>3, <2>4, <2>5, <2>6, <2>7, <2>8 DEF CloserAction, closerStep
<1>11. CASE UNCHANGED vars
  <2>1. UNCHANGED <<poolVars, kernel, ring, sub, poller>> /\ DumbIocbs' = DumbIocbs
    BY <1>11 DEF vars, DumbIocbs
  <2> QED
    BY <1>2, <1>5, <1>6, <2>1
<1> QED
  BY <1>7, <1>8, <1>9, <1>10, <1>11, NextByActor

-------------------------------------------------------------------------------
(***************************************************************************)
(* Where the requests are.                                                 *)
(***************************************************************************)

\* A request in an iocb that was submitted is in flight or completed.
LEMMA FlyingRequests ==
  ASSUME CoreInv, NEW i \in InFlight
  PROVE  /\ i \in Iocbs /\ aio[i] \in AioType /\ aio[i].data \in Requests \cup {None, Dumb}
         /\ aio[i].data \in Requests =>
              outcome[aio[i].data] \in {"inflight", "completed"}
<1>1. i \in Out
  BY DEF CoreInv, HeldOnce, Held, InFlight, Queued
<1>2. i \in Iocbs
  BY <1>1 DEF Out
<1>3. aio[i] \in AioType
  BY <1>2 DEF CoreInv, StateOK
<1> QED
  BY <1>2, <1>3 DEF CoreInv, IocbsTracked, InFlight, AioType

\* Submitters whose requests nobody else touches.
LEMMA SubmittersKept ==
  ASSUME CoreInv, UNCHANGED sub,
         \A r \in Requests : outcome[r] = "submitting" => outcome'[r] = "submitting"
  PROVE  SubmittersTracked'
BY DEF CoreInv, SubmittersTracked

\* Iocbs that stay where they are, or leave.
LEMMA IocbsKept ==
  ASSUME CoreInv, kernel' \subseteq kernel, Queued' \subseteq Queued,
         \A i \in InFlight' : aio'[i] = aio[i],
         \A i \in InFlight' : aio[i].data \in Requests =>
                                outcome'[aio[i].data] = outcome[aio[i].data]
  PROVE  IocbsTracked' /\ InFlight' \subseteq InFlight
<1>1. InFlight' \subseteq InFlight
  BY DEF InFlight
<1>2. IocbsTracked
  BY DEF CoreInv
<1>3. \A i \in InFlight' : Filled(i)'
  BY <1>1, <1>2 DEF IocbsTracked, Filled
<1>4. \A i \in kernel' : aio'[i].data \in Requests => outcome'[aio'[i].data] = "inflight"
  BY <1>2 DEF IocbsTracked, InFlight
<1>5. \A i \in Queued' : aio'[i].data \in Requests => outcome'[aio'[i].data] = "completed"
  BY <1>2 DEF IocbsTracked, InFlight
<1>6. \A i, j \in InFlight' :
        aio'[i].data \in Requests \cup {Dumb} /\ aio'[i].data = aio'[j].data => i = j
  BY <1>1, <1>2 DEF IocbsTracked
<1> QED
  BY <1>1, <1>3, <1>4, <1>5, <1>6 DEF IocbsTracked

\* The poller keeps its request while the others run.
LEMMA PollerKept ==
  ASSUME CoreInv, UNCHANGED poller,
         \A r \in Requests : outcome[r] \in {"completed", "done"} => outcome'[r] = outcome[r],
         Pending # {} => Pending' # {},
         \A i \in InFlight' : aio'[i].data \in Requests =>
           \/ i \in InFlight /\ aio'[i].data = aio[i].data
           \/ outcome[aio'[i].data] # "completed"
  PROVE  PollerTracked'
<1>1. PollerTracked
  BY DEF CoreInv
<1>2. CASE poller.pc = "done"
  <2>1. poller.obj \in Requests \ NullRequests /\ outcome[poller.obj] = "completed"
    BY <1>1, <1>2 DEF PollerTracked
  <2>2. \A i \in InFlight' : aio'[i].data # poller.obj
    BY <1>1, <1>2, <2>1 DEF PollerTracked
  <2> QED
    BY <1>2, <2>1, <2>2 DEF PollerTracked
<1>3. CASE poller.pc # "done"
  BY <1>1, <1>3 DEF PollerTracked
<1> QED
  BY <1>2, <1>3

\* The submitters.
LEMMA SubmitterKeepsRequests ==
  ASSUME CoreInv, NEW s \in Submitters, SubmitterAction(s)
  PROVE  SubmittersTracked' /\ IocbsTracked' /\ PollerTracked'
<1>0. /\ UNCHANGED <<ring, poller>> /\ Queued' = Queued
      /\ sub \in [Submitters -> SubmitterType] /\ outcome \in [Requests -> Outcomes]
      /\ aio \in [Iocbs -> AioType] /\ SubmittersTracked
  BY SubmitterFrame DEF Queued, Objs, CoreInv, StateOK
<1>1. ASSUME NEW r \in Requests, outcome[r] \in {"new", "submitting"},
             NEW how \in {"rejected", "refused", "submitting"},
             outcome' = [outcome EXCEPT ![r] = how],
             UNCHANGED kernel, \A i \in InFlight : aio'[i] = aio[i]
      PROVE  IocbsTracked' /\ PollerTracked'
  <2>1. \A q \in Requests : outcome[q] \notin {"new", "submitting"} => outcome'[q] = outcome[q]
    BY <1>0, <1>1
  <2>2. InFlight' = InFlight
    BY <1>0, <1>1 DEF InFlight
  <2>3. IocbsTracked'
    BY <1>0, <1>1, <2>1, <2>2, IocbsKept, FlyingRequests
  <2>4. Pending' = Pending
    BY <1>0, <1>1 DEF Pending
  <2> QED
    BY <1>0, <1>1, <2>1, <2>2, <2>3, <2>4, PollerKept
<1>2. ASSUME UNCHANGED <<kernel, outcome, aio>> PROVE IocbsTracked' /\ PollerTracked'
  <2>1. InFlight' = InFlight /\ Pending' = Pending
    BY <1>0, <1>2 DEF InFlight, Pending
  <2> QED
    BY <1>0, <1>2, <2>1, IocbsKept, PollerKept
<1>3. ASSUME NEW how, outcome' = [outcome EXCEPT ![sub[s].req] = how],
             sub[s].pc # "idle", sub'[s].pc = "idle",
             \A t \in Submitters \ {s} : sub'[t] = sub[t]
      PROVE  SubmittersTracked'
  <2>1. \A t \in Submitters : sub'[t].pc # "idle" => t # s /\ sub'[t] = sub[t]
    BY <1>3
  <2>2. \A t \in Submitters : sub[t].pc # "idle" /\ t # s =>
                                 sub[t].req \in Requests /\ sub[t].req # sub[s].req
    BY <1>0, <1>3 DEF SubmittersTracked
  <2>3. \A t \in Submitters : sub[t].pc # "idle" /\ t # s =>
                                 outcome'[sub[t].req] = outcome[sub[t].req]
    BY <1>0, <1>3, <2>2
  <2> QED
    BY <1>0, <2>1, <2>2, <2>3 DEF SubmittersTracked
<1>4. ASSUME NEW r \in Requests, startSubmit(s, r)
      PROVE  SubmittersTracked' /\ IocbsTracked' /\ PollerTracked'
  <2>1. IocbsTracked' /\ PollerTracked'
    BY <1>1, <1>4 DEF startSubmit
  <2>2. SubmittersTracked'
    <3>1. CASE closed
      BY <1>0, <1>4, <3>1, SubmittersKept DEF startSubmit
    <3>2. CASE ~closed
      <4>1. /\ sub'[s].pc = "acquire" /\ sub'[s].req = r
            /\ \A t \in Submitters \ {s} : sub'[t] = sub[t]
        BY <1>0, <1>4, <3>2 DEF startSubmit
      <4>2. \A t \in Submitters \ {s} : sub[t].pc # "idle" => sub[t].req # r
        BY <1>0, <1>4 DEF SubmittersTracked, startSubmit
      <4>3. \A q \in Requests : outcome'[q] = IF q = r THEN "submitting" ELSE outcome[q]
        BY <1>0, <1>4, <3>2 DEF startSubmit
      <4> QED
        BY <1>0, <4>1, <4>2, <4>3 DEF SubmittersTracked
    <3> QED
      BY <3>1, <3>2
  <2> QED
    BY <2>1, <2>2
<1>5. CASE acquire(s)
  <2>1. /\ sub'[s].pc = "native" /\ sub'[s].req = sub[s].req
        /\ \A t \in Submitters \ {s} : sub'[t] = sub[t]
    BY <1>5, SubmitterGoes DEF acquire, SubmitterLabels, CoreInv
  <2>2. SubmittersTracked'
    BY <1>0, <1>5, <2>1 DEF acquire, SubmittersTracked
  <2> QED
    BY <1>2, <1>5, <2>2 DEF acquire
<1>6. CASE acquireInterrupted(s) \/ nativeFull(s)
  <2>1. /\ sub[s].req \in Requests /\ outcome[sub[s].req] = "submitting"
        /\ sub'[s].pc = "idle" /\ \A t \in Submitters \ {s} : sub'[t] = sub[t]
    BY <1>6, SubmitterReturns, CurrentRequest
       DEF acquireInterrupted, nativeFull, Reject, CoreInv
  <2>2. PICK how \in {"rejected", "refused"} :
          outcome' = [outcome EXCEPT ![sub[s].req] = how]
    BY <1>6 DEF acquireInterrupted, nativeFull, Reject
  <2> QED
    BY <1>1, <1>3, <1>6, <2>1, <2>2 DEF acquireInterrupted, nativeFull
<1>7. CASE nativeGet(s)
  <2>1. /\ sub'[s].pc = "prep" /\ sub'[s].iocb \in Iocbs /\ sub'[s].req = sub[s].req
        /\ \A t \in Submitters \ {s} : sub'[t] = sub[t]
    BY <1>7, NativeGetHands
  <2>2. SubmittersTracked'
    BY <1>0, <1>7, <2>1 DEF nativeGet, SubmittersTracked
  <2> QED
    BY <1>2, <1>7, <2>2 DEF nativeGet
<1>8. ASSUME sub[s].pc = "prep", prep(s)
      PROVE  /\ sub[s].iocb \notin InFlight /\ \A i \in InFlight : aio'[i] = aio[i]
             /\ sub[s].req \in Requests /\ outcome[sub[s].req] = "submitting"
  <2>1. sub[s].iocb \notin InFlight
    BY <1>8, CurrentRequest DEF CoreInv, HeldOnce
  <2>2. \A i \in InFlight : i \in Iocbs \ {sub[s].iocb}
    BY <2>1, FlyingRequests
  <2> QED
    BY <1>8, <2>1, <2>2, PreparedIocb, CurrentRequest
<1>9. CASE nativeSubmitFails(s)
  <2>1. sub'[s].pc = "idle" /\ \A t \in Submitters \ {s} : sub'[t] = sub[t]
    BY <1>9, NativeSubmitFailsHands
  <2>2. outcome' = [outcome EXCEPT ![sub[s].req] = "refused"] /\ UNCHANGED kernel
    BY <1>9 DEF nativeSubmitFails, Reject
  <2>3. SubmittersTracked'
    BY <1>3, <1>9, <2>1, <2>2 DEF nativeSubmitFails
  <2>4. /\ sub[s].req \in Requests /\ outcome[sub[s].req] = "submitting"
        /\ \A i \in InFlight : aio'[i] = aio[i]
    BY <1>8, <1>9 DEF nativeSubmitFails
  <2>5. IocbsTracked' /\ PollerTracked'
    <3>1. "refused" \in {"rejected", "refused", "submitting"}
      OBVIOUS
    <3> QED
      BY <1>1, <2>2, <2>4, <3>1, Zenon
  <2> QED
    BY <2>3, <2>5
<1>10. CASE nativeSubmit(s)
  <2> DEFINE r == sub[s].req
             i0 == sub[s].iocb
  <2>1. sub'[s].pc = "idle" /\ \A t \in Submitters \ {s} : sub'[t] = sub[t]
    BY <1>10, NativeSubmitHands
  <2>2. outcome' = [outcome EXCEPT ![r] = "inflight"] /\ kernel' = kernel \cup {i0}
    BY <1>10 DEF nativeSubmit
  <2>3. SubmittersTracked'
    BY <1>3, <1>10, <2>1, <2>2 DEF nativeSubmit
  <2>4. /\ i0 \notin InFlight /\ \A i \in InFlight : aio'[i] = aio[i]
        /\ r \in Requests /\ outcome[r] = "submitting" /\ i0 \in Iocbs
    BY <1>8, <1>10, CurrentRequest DEF nativeSubmit
  <2>5. InFlight' = InFlight \cup {i0}
    BY <1>0, <2>2 DEF InFlight
  <2>6. /\ aio'[i0].fildes = FileOf[r] /\ aio'[i0].data = CallbackOf(r)
        /\ aio'[i0].op = "pwrite" <=> r \in WriteRequests
    BY <1>10, PreparedIocb DEF nativeSubmit
  <2>7. aio'[i0].data = IF r \in NullRequests THEN None ELSE r
    BY <2>6 DEF CallbackOf
  <2>8. \A q \in Requests : outcome'[q] = IF q = r THEN "inflight" ELSE outcome[q]
    BY <1>0, <2>2, <2>4
  <2>9. \A i \in InFlight : aio[i].data # r
    BY <2>4, FlyingRequests
  <2>10. IocbsTracked
    BY DEF CoreInv
  <2> HIDE DEF r, i0
  <2>11. ASSUME NEW i \in InFlight' PROVE Filled(i)'
    <3>1. CASE i \in InFlight
      BY <2>4, <2>10, <3>1 DEF IocbsTracked, Filled
    <3>2. CASE i = i0
      BY <2>4, <2>6, <2>7, <3>2, ContextAssumption DEF Filled
    <3> QED
      BY <2>5, <3>1, <3>2
  <2>13. \A i \in kernel' : aio'[i].data \in Requests => outcome'[aio'[i].data] = "inflight"
    BY <2>2, <2>4, <2>7, <2>8, <2>10, ContextAssumption DEF IocbsTracked, InFlight
  <2>14. \A i \in Queued' : aio'[i].data \in Requests => outcome'[aio'[i].data] = "completed"
    BY <1>0, <2>4, <2>8, <2>9, <2>10 DEF IocbsTracked, InFlight
  <2>15. \A i, j \in InFlight' :
           aio'[i].data \in Requests \cup {Dumb} /\ aio'[i].data = aio'[j].data => i = j
    BY <2>4, <2>5, <2>7, <2>9, <2>10, ContextAssumption DEF IocbsTracked
  <2>16. IocbsTracked'
    BY <2>11, <2>13, <2>14, <2>15 DEF IocbsTracked
  <2>17. Pending' # {}
    BY <2>4, <2>8 DEF Pending
  <2>18. PollerTracked'
    BY <1>0, <2>4, <2>5, <2>7, <2>8, <2>17, PollerKept, ContextAssumption
  <2> QED
    BY <2>3, <2>16, <2>18
<1> QED
  BY <1>4, <1>5, <1>6, <1>7, <1>9, <1>10, ContextAssumption
     DEF SubmitterAction, submitWrite, submitRead, submitterStep

\* The kernel.
LEMMA CompleteKeepsRequests ==
  ASSUME CoreInv, NEW i0 \in Iocbs, NEW res \in {"ok", "error"}, complete(i0, res)
  PROVE  SubmittersTracked' /\ IocbsTracked' /\ PollerTracked'
<1> DEFINE r == aio[i0].data
<1>0. /\ UNCHANGED <<sub, poller, aio>>
      /\ outcome' = IF r \in Requests
                    THEN [outcome EXCEPT ![r] = "completed"] ELSE outcome
  BY DEF complete
<1>1. /\ i0 \in kernel /\ kernel' = kernel \ {i0}
      /\ Objs(ring') = Objs(ring) \cup {i0}
  BY CompleteHands
<1>2. /\ Queued' = Queued \cup {i0} /\ InFlight' = InFlight /\ i0 \in InFlight
      /\ kernel' \subseteq InFlight /\ Queued \subseteq InFlight
  BY <1>0, <1>1 DEF Queued, InFlight, Objs
<1>3. IocbsTracked /\ outcome \in [Requests -> Outcomes]
  BY DEF CoreInv, StateOK
<1>4. r \in Requests => outcome[r] = "inflight"
  BY <1>1, <1>3 DEF IocbsTracked
<1>5. \A i \in InFlight \ {i0} : aio[i].data \in Requests => aio[i].data # r
  BY <1>2, <1>3 DEF IocbsTracked
<1>6. \A q \in Requests : outcome'[q] = IF q = r THEN "completed" ELSE outcome[q]
  BY <1>0, <1>3
<1> HIDE DEF r
<1>7. SubmittersTracked'
  BY <1>0, <1>4, <1>6, SubmittersKept
<1>8. IocbsTracked'
  <2>1. \A i \in InFlight' : Filled(i)'
    BY <1>0, <1>2, <1>3 DEF IocbsTracked, Filled
  <2>2. \A i \in kernel' : aio'[i].data \in Requests => outcome'[aio'[i].data] = "inflight"
    BY <1>0, <1>1, <1>2, <1>3, <1>5, <1>6 DEF IocbsTracked
  <2>3. i0 \notin Queued
    BY <1>1 DEF CoreInv, HeldOnce
  <2>4. \A i \in Queued : aio'[i].data \in Requests => outcome'[aio'[i].data] = "completed"
    BY <1>0, <1>2, <1>3, <1>5, <1>6, <2>3 DEF IocbsTracked
  <2>5. aio'[i0].data \in Requests => outcome'[aio'[i0].data] = "completed"
    BY <1>0, <1>6 DEF r
  <2>6. \A i, j \in InFlight' :
          aio'[i].data \in Requests \cup {Dumb} /\ aio'[i].data = aio'[j].data => i = j
    BY <1>0, <1>2, <1>3 DEF IocbsTracked
  <2> QED
    BY <1>2, <2>1, <2>2, <2>4, <2>5, <2>6 DEF IocbsTracked
<1>9. PollerTracked'
  <2>1. Pending' = Pending
    BY <1>4, <1>6 DEF Pending
  <2> QED
    BY <1>0, <1>2, <1>4, <1>6, <2>1, PollerKept
<1> QED
  BY <1>7, <1>8, <1>9

\* The polling thread.
LEMMA PollerKeepsRequests ==
  ASSUME CoreInv, PollerAction
  PROVE  SubmittersTracked' /\ IocbsTracked' /\ PollerTracked'
<1>0. /\ UNCHANGED <<kernel, sub>> /\ PollerShape /\ PollerTracked /\ IocbsTracked
      /\ poller \in PollerType /\ outcome \in [Requests -> Outcomes]
      /\ aio \in [Iocbs -> AioType]
  BY PollerFrame DEF CoreInv, StateOK
<1>1. ASSUME UNCHANGED <<outcome, aio>>, Queued' \subseteq Queued
      PROVE  SubmittersTracked' /\ IocbsTracked' /\ Pending' = Pending
                /\ InFlight' \subseteq InFlight
  BY <1>0, <1>1, SubmittersKept, IocbsKept DEF Pending
<1>2. CASE poll \/ lockPoll \/ pollArray \/ pollArrayFails
  <2>1. poller'.batch = poller.batch /\ poller'.obj = poller.obj
    BY <1>0, <1>2 DEF poll, lockPoll, pollArray, pollArrayFails, PollerType
  <2>2. UNCHANGED <<outcome, aio, ring>>
    BY <1>2 DEF poll, lockPoll, pollArray, pollArrayFails
  <2>3. Queued' = Queued
    BY <2>1, <2>2 DEF Queued, Objs
  <2>4. poller'.pc \notin {"done", "release"} /\ (poller'.pc = "aevents" => Pending # {})
    BY <1>0, <1>2 DEF poll, lockPoll, pollArray, pollArrayFails, PollerType
  <2> QED
    BY <1>1, <2>2, <2>3, <2>4 DEF PollerTracked
<1>3. CASE getEvents \/ pollArrayGet
  <2>1. poller.pc \in {"events", "aevents"}
    BY <1>3 DEF getEvents, pollArrayGet
  <2>2. poller.batch = <<>>
    BY <1>0, <2>1 DEF PollerShape
  <2>3. PICK max \in Nat : ring' = Left(max) /\ poller'.batch = Taken(max)
    BY <1>0, <1>3, ContextAssumption DEF getEvents, pollArrayGet, PollerType
  <2>4. Objs(ring) = Objs(poller'.batch) \cup Objs(ring')
    BY <1>3, <2>2, <2>3, TakingHands DEF getEvents, pollArrayGet
  <2>5. Queued' \subseteq Queued
    BY <2>4 DEF Queued, Objs
  <2>6. poller'.pc \in {"loop", "areturn", "aloop"} /\ UNCHANGED <<outcome, aio>>
    BY <1>0, <1>3 DEF getEvents, pollArrayGet, PollerType, ContinueArray
  <2> QED
    BY <1>1, <2>5, <2>6 DEF PollerTracked
<1>4. CASE getEventsFails \/ stopOnDumb \/ pollArrayReturn \/ pollArrayThrows
  <2>1. UNCHANGED <<outcome, aio, ring>> /\ poller' = IdlePoller
    BY <1>4 DEF getEventsFails, stopOnDumb, pollArrayReturn, pollArrayThrows
  <2>2. Queued' \subseteq Queued
    BY <2>1 DEF Queued, Objs, IdlePoller
  <2> QED
    BY <1>1, <2>1, <2>2 DEF PollerTracked, IdlePoller
<1>5. CASE handleEvent
  <2>1. poller.batch # <<>> /\ Event.obj \in Queued /\ Event.obj \in InFlight
    BY <1>0, <1>5, CurrentEvent DEF handleEvent, PollerShape, Queued, InFlight
  <2>2. /\ poller'.batch = Tail(poller.batch) /\ poller'.obj = Data /\ poller'.pc = "done"
        /\ UNCHANGED <<outcome, ring>> /\ Data # None /\ Fildes # Dumb
    BY <1>0, <1>5 DEF handleEvent, PollerType
  <2>3. Queued' \subseteq Queued /\ Event.obj \notin Queued'
    <3>1. Event.obj \notin Objs(ring)
      BY <2>1, CurrentEvent DEF CoreInv, HeldOnce
    <3> QED
      BY <2>1, <2>2, <3>1, CurrentEvent DEF Queued, Objs
  <2>4. Event.obj \notin kernel
    BY <2>1 DEF CoreInv, HeldOnce
  <2>5. Event.obj \notin InFlight' /\ InFlight' \subseteq InFlight
    BY <1>0, <2>3, <2>4 DEF InFlight
  <2>6. ASSUME NEW i \in InFlight' PROVE aio'[i] = aio[i]
    <3>1. i \in Iocbs /\ i # Event.obj
      BY <2>5, FlyingRequests
    <3> QED
      BY <1>0, <1>5, <3>1 DEF handleEvent
  <2>7. SubmittersTracked' /\ IocbsTracked'
    BY <1>0, <2>2, <2>3, <2>6, SubmittersKept, IocbsKept
  <2>8. Data \in Requests \ NullRequests /\ outcome[Data] = "completed"
    BY <2>1, <2>2, CurrentEvent DEF Filled, Data, Fildes
  <2>9. \A i \in InFlight' : aio'[i].data # Data
    BY <1>0, <2>1, <2>5, <2>6, <2>8 DEF IocbsTracked, Data
  <2> QED
    BY <2>2, <2>7, <2>8, <2>9 DEF PollerTracked
<1>6. CASE invalidRecord
  <2>1. poller.batch # <<>>
    BY <1>0, <1>6 DEF invalidRecord, PollerShape
  <2>2. /\ poller'.batch = Tail(poller.batch) /\ poller'.pc \in {"events", "loop"}
        /\ UNCHANGED <<outcome, aio, ring>>
    BY <1>0, <1>6 DEF invalidRecord, PollerType, Continue
  <2>3. Queued' \subseteq Queued
    BY <2>1, <2>2, CurrentEvent DEF Queued, Objs
  <2> QED
    BY <1>1, <2>2, <2>3 DEF PollerTracked
<1>7. ASSUME NEW r \in Requests, NEW how \in Outcomes \ {"new", "submitting"},
             outcome[r] = "completed",
             outcome' = [outcome EXCEPT ![r] = how], UNCHANGED aio, Queued' \subseteq Queued,
             \A i \in InFlight' : aio[i].data # r
      PROVE  SubmittersTracked' /\ IocbsTracked'
  <2>1. \A q \in Requests : q # r => outcome'[q] = outcome[q]
    BY <1>0, <1>7
  <2> QED
    BY <1>0, <1>7, <2>1, SubmittersKept, IocbsKept
<1>8. CASE infoDone \/ infoDoneFails
  <2>1. /\ poller.obj \in Requests \ NullRequests /\ outcome[poller.obj] = "completed"
        /\ \A i \in InFlight : aio[i].data # poller.obj
    BY <1>0, <1>8 DEF infoDone, infoDoneFails, PollerTracked
  <2>2. PICK how \in {"done", "threw", "lost"} :
          /\ Tell(poller.obj, how)
          /\ poller'.pc = "release" => how = "done" /\ poller'.obj = poller.obj
    BY <1>0, <1>8 DEF infoDone, infoDoneFails, PollerType, Continue
  <2>3. outcome' = [outcome EXCEPT ![poller.obj] = how]
    BY <2>1, <2>2, TellCompleted DEF CoreInv, Outcomes
  <2>4. poller'.batch = poller.batch /\ UNCHANGED <<aio, ring>>
    BY <1>0, <1>8 DEF infoDone, infoDoneFails, PollerType
  <2>5. Queued' = Queued /\ InFlight' = InFlight
    BY <1>0, <2>4 DEF Queued, InFlight, Objs
  <2>6. SubmittersTracked' /\ IocbsTracked'
    BY <1>7, <2>1, <2>3, <2>4, <2>5 DEF Outcomes
  <2>7. poller'.pc \in {"release", "events", "loop"}
    BY <1>0, <1>8 DEF infoDone, infoDoneFails, PollerType, Continue
  <2>8. outcome'[poller.obj] = how
    BY <1>0, <2>1, <2>3
  <2> QED
    BY <2>1, <2>2, <2>6, <2>7, <2>8 DEF PollerTracked
<1>9. CASE release
  <2>1. /\ poller'.batch = poller.batch /\ UNCHANGED <<aio, ring, outcome>>
        /\ poller'.pc \in {"events", "loop"}
    BY <1>0, <1>9 DEF release, PollerType, Continue
  <2>2. Queued' = Queued
    BY <2>1 DEF Queued, Objs
  <2> QED
    BY <1>1, <2>1, <2>2 DEF PollerTracked
<1>10. CASE pollArrayEvent
  <2>1. poller.batch # <<>> /\ Event.obj \in Queued /\ Event.obj \in InFlight
    BY <1>0, <1>10, CurrentEvent DEF pollArrayEvent, PollerShape, Queued, InFlight
  <2>2. /\ poller'.batch = Tail(poller.batch) /\ poller'.pc \in {"areturn", "aloop"}
        /\ UNCHANGED <<aio, ring>>
    BY <1>0, <1>10 DEF pollArrayEvent, PollerType, ContinueArray
  <2>3. Queued' \subseteq Queued /\ Event.obj \notin Queued'
    <3>1. Event.obj \notin Objs(ring)
      BY <2>1, CurrentEvent DEF CoreInv, HeldOnce
    <3> QED
      BY <2>1, <2>2, <3>1, CurrentEvent DEF Queued, Objs
  <2>4. Event.obj \notin kernel
    BY <2>1 DEF CoreInv, HeldOnce
  <2>5. Event.obj \notin InFlight' /\ InFlight' \subseteq InFlight
    BY <1>0, <2>3, <2>4 DEF InFlight
  <2>6. PollerTracked'
    BY <2>2 DEF PollerTracked
  <2>7. CASE Data \notin Requests
    BY <1>1, <1>10, <2>2, <2>3, <2>6, <2>7 DEF pollArrayEvent
  <2>8. CASE Data \in Requests
    <3>1. outcome[Data] = "completed"
      BY <2>1, <2>8, CurrentEvent
    <3>2. outcome' = [outcome EXCEPT ![Data] = "delivered"]
      BY <1>10, <2>8, <3>1, TellCompleted DEF pollArrayEvent, CoreInv, Outcomes
    <3>3. \A i \in InFlight' : aio[i].data # Data
      BY <1>0, <2>1, <2>5, <2>8 DEF IocbsTracked, Data
    <3>4. "delivered" \in Outcomes \ {"new", "submitting"}
      BY DEF Outcomes
    <3>5. SubmittersTracked' /\ IocbsTracked'
      BY <1>7, <2>2, <2>3, <2>8, <3>1, <3>2, <3>3, <3>4
    <3> QED
      BY <2>6, <3>5
  <2> QED
    BY <2>7, <2>8
<1> QED
  BY <1>2, <1>3, <1>4, <1>5, <1>6, <1>8, <1>9, <1>10 DEF PollerAction, pollerStep

\* The iocb of the dumb write.
LEMMA DumbIocb ==
  ASSUME CoreInv, NEW c \in Closers, closer[c].pc = "dumb", prepDumb(c)
  PROVE  /\ closer[c].iocb \in Iocbs \ InFlight
         /\ aio'[closer[c].iocb].fildes = Dumb /\ aio'[closer[c].iocb].data = Dumb
         /\ \A i \in InFlight : aio'[i] = aio[i]
         /\ \A i \in InFlight : aio[i].data # Dumb
<1>1. closer[c].iocb \in Iocbs /\ closer[c].iocb \in DumbIocbs
  BY DEF CoreInv, CloserShape, DumbIocbs
<1>2. closer[c].iocb \notin InFlight
  BY <1>1 DEF CoreInv, HeldOnce
<1>3. /\ aio'[closer[c].iocb] = DumbWrite
      /\ \A i \in Iocbs \ {closer[c].iocb} : aio'[i] = aio[i]
  BY <1>1 DEF prepDumb, CoreInv, StateOK
<1>4. ~DumbInFlight
  BY DEF CoreInv, CloserShape, Busy
<1> QED
  BY <1>1, <1>2, <1>3, <1>4, FlyingRequests DEF DumbWrite, DumbInFlight

\* The closers.
LEMMA CloserKeepsRequests ==
  ASSUME CoreInv, NEW c \in Closers, CloserAction(c)
  PROVE  SubmittersTracked' /\ IocbsTracked' /\ PollerTracked'
<1>0. /\ UNCHANGED <<sub, poller, outcome>> /\ Pending' = Pending
      /\ IocbsTracked /\ outcome \in [Requests -> Outcomes]
  BY CloserFrame DEF Pending, CoreInv, StateOK
<1>1. SubmittersTracked'
  BY <1>0, SubmittersKept
<1>2. ASSUME UNCHANGED kernel, Objs(ring') \subseteq Objs(ring),
             \A i \in InFlight : aio'[i] = aio[i]
      PROVE  IocbsTracked' /\ PollerTracked'
  <2>1. Queued' \subseteq Queued
    BY <1>0, <1>2 DEF Queued, Objs
  <2>2. InFlight' \subseteq InFlight
    BY <1>2, <2>1 DEF InFlight
  <2>3. IocbsTracked'
    BY <1>0, <1>2, <2>1, <2>2, IocbsKept
  <2>4. PollerTracked'
    BY <1>0, <1>2, <2>2, PollerKept
  <2> QED
    BY <2>3, <2>4
<1>3. CASE \/ close(c) \/ drain(c) \/ drainTimeout(c) \/ deleteGet(c) \/ deleteFull(c)
           \/ deleteWait(c) \/ deleteFree(c)
  <2>1. UNCHANGED <<kernel, ring, aio>>
    BY <1>3 DEF close, drain, drainTimeout, deleteGet, deleteFull, deleteWait, deleteFree
  <2> QED
    BY <1>1, <1>2, <2>1
<1>4. CASE deleteReap(c)
  BY <1>1, <1>2, <1>4, DeleteReapHands DEF deleteReap
<1>5. CASE deleteSubmitFails(c)
  BY <1>1, <1>2, <1>5, DumbIocb DEF deleteSubmitFails
<1>6. CASE deleteSubmit(c)
  <2> DEFINE i0 == closer[c].iocb
  <2>1. /\ i0 \in Iocbs \ InFlight /\ aio'[i0].fildes = Dumb /\ aio'[i0].data = Dumb
        /\ \A i \in InFlight : aio'[i] = aio[i]
        /\ \A i \in InFlight : aio[i].data # Dumb
        /\ kernel' = kernel \cup {i0} /\ UNCHANGED ring
    BY <1>6, DumbIocb DEF deleteSubmit
  <2>2. Queued' = Queued /\ InFlight' = InFlight \cup {i0}
    BY <1>0, <2>1 DEF Queued, InFlight, Objs
  <2> HIDE DEF i0
  <2>3. Dumb \notin Requests /\ Dumb # None
    BY ContextAssumption
  <2>4. ASSUME NEW i \in InFlight' PROVE Filled(i)'
    <3>1. CASE i \in InFlight
      BY <1>0, <2>1, <3>1 DEF IocbsTracked, Filled
    <3>2. CASE i = i0
      BY <2>1, <2>3, <3>2 DEF Filled
    <3> QED
      BY <2>2, <3>1, <3>2
  <2>5. \A i \in kernel' : aio'[i].data \in Requests => outcome'[aio'[i].data] = "inflight"
    BY <1>0, <2>1, <2>3 DEF IocbsTracked, InFlight
  <2>6. \A i \in Queued' : aio'[i].data \in Requests => outcome'[aio'[i].data] = "completed"
    BY <1>0, <2>1, <2>2 DEF IocbsTracked, InFlight
  <2>7. \A i, j \in InFlight' :
          aio'[i].data \in Requests \cup {Dumb} /\ aio'[i].data = aio'[j].data => i = j
    BY <1>0, <2>1, <2>2 DEF IocbsTracked
  <2>8. IocbsTracked'
    BY <2>4, <2>5, <2>6, <2>7 DEF IocbsTracked
  <2>9. PollerTracked'
    BY <1>0, <2>1, <2>2, <2>3, PollerKept
  <2> QED
    BY <1>1, <2>8, <2>9
<1> QED
  BY <1>3, <1>4, <1>5, <1>6 DEF CloserAction, closerStep

LEMMA NextKeepsRequests ==
  ASSUME CoreInv, [Next]_vars
  PROVE  SubmittersTracked' /\ IocbsTracked' /\ PollerTracked'
<1>1. CASE UNCHANGED vars
  <2>1. UNCHANGED <<sub, poller, kernel, ring, aio, outcome>>
    BY <1>1 DEF vars
  <2>2. Queued' = Queued /\ InFlight' = InFlight /\ Pending' = Pending
    BY <2>1 DEF Queued, InFlight, Pending, Objs
  <2> QED
    BY <2>1, <2>2, SubmittersKept, IocbsKept, PollerKept
<1> QED
  BY <1>1, NextByActor, SubmitterKeepsRequests, CompleteKeepsRequests,
     PollerKeepsRequests, CloserKeepsRequests

-------------------------------------------------------------------------------
(***************************************************************************)
(* The closers.                                                            *)
(***************************************************************************)

\* There is a semaphore for good or never.
LEMMA SemaphoreStays ==
  ASSUME CoreInv, [Next]_vars
  PROVE  HasSemaphore' <=> HasSemaphore
<1>0. StateOK /\ poller \in PollerType /\ QueueSize \in Nat /\ None \notin Nat
  BY ContextAssumption DEF CoreInv, StateOK
<1>1. ASSUME UNCHANGED ioSpace PROVE HasSemaphore' <=> HasSemaphore
  BY <1>1 DEF HasSemaphore
<1>2. ASSUME NEW s, acquire(s) PROVE HasSemaphore' <=> HasSemaphore
  BY <1>0, <1>2 DEF acquire, HasSemaphore, StateOK
<1>3. ASSUME NEW c, drain(c) PROVE HasSemaphore' <=> HasSemaphore
  BY <1>0, <1>3 DEF drain, HasSemaphore, StateOK, PermitsAsked
<1>4. ASSUME release PROVE HasSemaphore' <=> HasSemaphore
  BY <1>0, <1>4, PermitsType DEF release
<1>5. ASSUME pollArrayReturn PROVE HasSemaphore' <=> HasSemaphore
  <2>1. Returned \in Nat
    BY <1>0 DEF Returned, PollerType
  <2> QED
    BY <1>0, <1>5, <2>1, PermitsType DEF pollArrayReturn
<1>6. \/ UNCHANGED ioSpace \/ (\E s \in Submitters : acquire(s))
      \/ (\E c \in Closers : drain(c)) \/ release \/ pollArrayReturn
  <2>1. ASSUME NEW s \in Submitters, SubmitterAction(s) PROVE UNCHANGED ioSpace \/ acquire(s)
    BY <2>1 DEF SubmitterAction, submitWrite, submitRead, submitterStep, startSubmit,
                acquireInterrupted, nativeFull, nativeGet, nativeSubmit, nativeSubmitFails
  <2>2. ASSUME NEW i, NEW res, complete(i, res) PROVE UNCHANGED ioSpace
    BY <2>2 DEF complete
  <2>3. ASSUME PollerAction PROVE UNCHANGED ioSpace \/ release \/ pollArrayReturn
    BY <2>3 DEF PollerAction, pollerStep, poll, lockPoll, getEvents, getEventsFails,
                stopOnDumb, handleEvent, invalidRecord, infoDone, infoDoneFails, pollArray,
                pollArrayGet, pollArrayFails, pollArrayEvent, pollArrayThrows
  <2>4. ASSUME NEW c \in Closers, CloserAction(c) PROVE UNCHANGED ioSpace \/ drain(c)
    BY <2>4 DEF CloserAction, closerStep, close, drainTimeout, deleteGet, deleteFull,
                deleteSubmit, deleteSubmitFails, deleteWait, deleteReap, deleteFree
  <2>5. CASE UNCHANGED vars
    BY <2>5 DEF vars
  <2> QED
    BY <2>1, <2>2, <2>3, <2>4, <2>5, NextByActor
<1> QED
  BY <1>1, <1>2, <1>3, <1>4, <1>5, <1>6

\* The poller takes iocbs out of flight only.
LEMMA PollerFlight ==
  ASSUME CoreInv, PollerAction
  PROVE  /\ Queued' \subseteq Queued /\ InFlight' \subseteq InFlight
         /\ \A i \in InFlight' : aio'[i] = aio[i]
<1>0. UNCHANGED kernel /\ PollerShape /\ poller \in PollerType /\ aio \in [Iocbs -> AioType]
  BY PollerFrame DEF CoreInv, StateOK
<1>1. ASSUME Queued' \subseteq Queued PROVE InFlight' \subseteq InFlight
  BY <1>0, <1>1 DEF InFlight
<1>2. CASE poll \/ lockPoll \/ infoDone \/ infoDoneFails \/ release \/ pollArray
           \/ pollArrayFails \/ getEventsFails \/ stopOnDumb \/ pollArrayReturn \/ pollArrayThrows
  <2>1. poller'.batch = poller.batch \/ poller'.batch = <<>>
    <3>1. CASE poll \/ lockPoll \/ infoDone \/ infoDoneFails \/ release \/ pollArray
               \/ pollArrayFails
      BY <1>0, <3>1 DEF poll, lockPoll, infoDone, infoDoneFails, release, pollArray,
                        pollArrayFails, PollerType
    <3>2. CASE getEventsFails \/ stopOnDumb \/ pollArrayReturn \/ pollArrayThrows
      BY <3>2 DEF getEventsFails, stopOnDumb, pollArrayReturn, pollArrayThrows, IdlePoller
    <3> QED
      BY <1>2, <3>1, <3>2
  <2>2. UNCHANGED <<ring, aio>>
    BY <1>2 DEF poll, lockPoll, infoDone, infoDoneFails, release, pollArray,
         pollArrayFails, getEventsFails, stopOnDumb, pollArrayReturn, pollArrayThrows
  <2>3. Queued' \subseteq Queued
    BY <2>1, <2>2 DEF Queued, Objs
  <2> QED
    BY <1>1, <2>2, <2>3
<1>3. CASE getEvents \/ pollArrayGet
  <2>1. poller.pc \in {"events", "aevents"}
    BY <1>3 DEF getEvents, pollArrayGet
  <2>2. poller.batch = <<>>
    BY <1>0, <2>1 DEF PollerShape
  <2>3. PICK max \in Nat : ring' = Left(max) /\ poller'.batch = Taken(max)
    BY <1>0, <1>3, ContextAssumption DEF getEvents, pollArrayGet, PollerType
  <2>4. Objs(ring) = Objs(poller'.batch) \cup Objs(ring')
    BY <1>3, <2>2, <2>3, TakingHands DEF getEvents, pollArrayGet
  <2>5. Queued' \subseteq Queued
    BY <2>4 DEF Queued, Objs
  <2> QED
    BY <1>1, <1>3, <2>5 DEF getEvents, pollArrayGet
<1>4. CASE handleEvent \/ invalidRecord \/ pollArrayEvent
  <2>1. poller.batch # <<>> /\ Event.obj \in Queued
    BY <1>0, <1>4, CurrentEvent
       DEF handleEvent, invalidRecord, pollArrayEvent, PollerShape, Queued
  <2>2. poller'.batch = Tail(poller.batch) /\ UNCHANGED ring
    BY <1>0, <1>4 DEF handleEvent, invalidRecord, pollArrayEvent, PollerType
  <2>3. Event.obj \notin Objs(ring) /\ Event.obj \notin kernel
    BY <2>1, CurrentEvent DEF CoreInv, HeldOnce
  <2>4. Queued' \subseteq Queued /\ Event.obj \notin Queued'
    BY <2>1, <2>2, <2>3, CurrentEvent DEF Queued, Objs
  <2>5. InFlight' \subseteq InFlight /\ Event.obj \notin InFlight'
    BY <1>0, <1>1, <2>3, <2>4 DEF InFlight
  <2>6. ASSUME NEW i \in InFlight' PROVE aio'[i] = aio[i]
    <3>1. i \in Iocbs /\ i # Event.obj
      BY <2>5, FlyingRequests
    <3> QED
      BY <1>0, <1>4, <3>1 DEF handleEvent, invalidRecord, pollArrayEvent
  <2> QED
    BY <2>4, <2>5, <2>6
<1> QED
  BY <1>2, <1>3, <1>4 DEF PollerAction, pollerStep

\* A submitter puts an iocb into flight that carries its request.
LEMMA SubmitterFlight ==
  ASSUME CoreInv, NEW s \in Submitters, SubmitterAction(s)
  PROVE  /\ Queued' = Queued
         /\ \A i \in InFlight : i \in InFlight' /\ aio'[i] = aio[i]
         /\ \A i \in InFlight' \ InFlight :
              /\ nativeSubmit(s) /\ i = sub[s].iocb
              /\ aio'[i].data = CallbackOf(sub[s].req)
<1>0. UNCHANGED <<ring, poller>> /\ Queued' = Queued
  BY SubmitterFrame DEF Queued, Objs
<1>1. CASE UNCHANGED <<kernel, aio>>
  BY <1>0, <1>1 DEF InFlight
<1>2. ASSUME sub[s].pc = "prep", prep(s)
      PROVE  /\ sub[s].iocb \notin InFlight /\ \A i \in InFlight : aio'[i] = aio[i]
             /\ aio'[sub[s].iocb].data = CallbackOf(sub[s].req)
  <2>1. sub[s].iocb \notin InFlight
    BY <1>2, CurrentRequest DEF CoreInv, HeldOnce
  <2>2. \A i \in InFlight : i \in Iocbs \ {sub[s].iocb}
    BY <2>1, FlyingRequests
  <2> QED
    BY <1>2, <2>1, <2>2, PreparedIocb
<1>3. CASE nativeSubmit(s)
  BY <1>0, <1>2, <1>3 DEF nativeSubmit, InFlight
<1>4. CASE nativeSubmitFails(s)
  BY <1>0, <1>2, <1>4 DEF nativeSubmitFails, InFlight
<1> QED
  BY <1>1, <1>3, <1>4 DEF SubmitterAction, submitWrite, submitRead, submitterStep,
       startSubmit, acquire, acquireInterrupted, nativeFull, nativeGet

\* Steps of the others leave the closers as they are.
LEMMA ClosersKept ==
  ASSUME CoreInv, UNCHANGED <<closed, control, closer>>, HasSemaphore' <=> HasSemaphore,
         DumbInFlight' => DumbInFlight,
         ~HasSemaphore /\ closed => /\ Pending' = {}
                                    /\ \A s \in Submitters : sub'[s].pc = "idle"
                                    /\ poller'.pc \notin {"aevents", "aloop", "areturn"}
  PROVE  CloserShape'
<1>1. CloserShape
  BY DEF CoreInv
<1>2. Gone' <=> Gone
  BY DEF Gone, PastDrain
<1>3. /\ (HasSemaphore /\ "timeout" \notin Faults /\ Gone =>
            \E c \in Closers : closer[c].drained)'
      /\ (~HasSemaphore /\ closed => /\ Pending = {}
                                     /\ \A s \in Submitters : sub[s].pc = "idle"
                                     /\ poller.pc \notin {"aevents", "aloop", "areturn"})'
  BY <1>1, <1>2 DEF CloserShape
<1>4. (DumbInFlight => \/ control = "freed"
                       \/ \E c \in Closers : closer[c].pc \in {"wait", "reap", "free"})'
  BY <1>1 DEF CloserShape
<1>5. /\ (~closed => \A c \in Closers : closer[c].pc = "idle")'
      /\ (\A c, d \in Closers :
            (Busy(c) \/ closer[c].drained) /\ (Busy(d) \/ closer[d].drained) => c = d)'
      /\ (\A c \in Closers : closer[c].pc \in {"idle", "drain"} => ~closer[c].drained)'
      /\ (\A c \in Closers : closer[c].drained => HasSemaphore)'
      /\ (\A c \in Closers : closer[c].pc = "dumb" => closer[c].iocb \in Iocbs)'
      /\ (control = "freed" => closed /\ \A c \in Closers : ~Busy(c))'
  BY <1>1 DEF CloserShape, Busy
<1> QED
  BY <1>3, <1>4, <1>5 DEF CloserShape

\* The closers, while the others run.
LEMMA OthersKeepClosers ==
  ASSUME CoreInv, [Next]_vars, UNCHANGED <<closed, control, closer>>,
         \/ \E s \in Submitters : SubmitterAction(s)
         \/ \E i \in Iocbs, res \in {"ok", "error"} : complete(i, res)
         \/ PollerAction \/ UNCHANGED vars
  PROVE  CloserShape'
<1> DEFINE Quiet == /\ Pending = {} /\ \A s \in Submitters : sub[s].pc = "idle"
                    /\ poller.pc \notin {"aevents", "aloop", "areturn"}
           Quiet1 == /\ Pending' = {} /\ \A s \in Submitters : sub'[s].pc = "idle"
                     /\ poller'.pc \notin {"aevents", "aloop", "areturn"}
<1>0. /\ HasSemaphore' <=> HasSemaphore
      /\ ~HasSemaphore /\ closed => Quiet
      /\ outcome \in [Requests -> Outcomes] /\ poller \in PollerType
      /\ sub \in [Submitters -> SubmitterType]
  BY SemaphoreStays DEF CoreInv, CloserShape, StateOK
<1>1. ASSUME DumbInFlight' => DumbInFlight, closed /\ Quiet => Quiet1 PROVE CloserShape'
  BY <1>0, <1>1, ClosersKept
<1>2. ASSUME NEW s \in Submitters, SubmitterAction(s) PROVE CloserShape'
  <2>1. DumbInFlight' => DumbInFlight
    <3>1. CallbackOf(sub[s].req) # Dumb \/ ~nativeSubmit(s)
      BY CurrentRequest, ContextAssumption DEF nativeSubmit
    <3> QED
      BY <1>2, <3>1, SubmitterFlight DEF DumbInFlight
  <2>2. ASSUME closed, Quiet PROVE Quiet1
    <3>1. PICK r \in Requests : startSubmit(s, r)
      BY <1>2, <2>2, ContextAssumption
         DEF SubmitterAction, submitWrite, submitRead, submitterStep, acquire,
             acquireInterrupted, nativeFull, nativeGet, nativeSubmit, nativeSubmitFails
    <3>2. /\ outcome' = [outcome EXCEPT ![r] = "rejected"] /\ UNCHANGED <<sub, poller>>
          /\ outcome[r] = "new"
      BY <2>2, <3>1 DEF startSubmit
    <3>3. Pending' = Pending
      BY <1>0, <3>2 DEF Pending
    <3> QED
      BY <2>2, <3>2, <3>3
  <2> QED
    BY <1>1, <2>1, <2>2
<1>3. ASSUME NEW i \in Iocbs, NEW res \in {"ok", "error"}, complete(i, res) PROVE CloserShape'
  <2>1. /\ UNCHANGED <<aio, sub, poller>> /\ i \in kernel /\ kernel' = kernel \ {i}
        /\ Objs(ring') = Objs(ring) \cup {i}
    BY <1>3, CompleteHands DEF complete
  <2>2. InFlight' = InFlight
    BY <2>1 DEF InFlight, Queued, Objs
  <2>3. DumbInFlight' => DumbInFlight
    BY <2>1, <2>2 DEF DumbInFlight
  <2>4. aio[i].data \in Requests => outcome[aio[i].data] = "inflight"
    BY <2>1 DEF CoreInv, IocbsTracked
  <2>5. ASSUME Quiet PROVE Quiet1
    <3>1. aio[i].data \notin Requests
      BY <2>4, <2>5 DEF Pending
    <3>2. Pending' = Pending
      BY <1>3, <3>1 DEF complete, Pending
    <3> QED
      BY <2>1, <2>5, <3>2
  <2> QED
    BY <1>1, <2>3, <2>5
<1>4. ASSUME PollerAction PROVE CloserShape'
  <2>1. DumbInFlight' => DumbInFlight
    BY <1>4, PollerFlight DEF DumbInFlight
  <2>2. ASSUME Quiet PROVE Quiet1
    <3>1. poller.pc # "done"
      BY <2>2 DEF CoreInv, PollerTracked, Pending
    <3>2. UNCHANGED <<sub, outcome>>
      BY <1>4, <2>2, <3>1, PollerFrame
         DEF PollerAction, pollerStep, poll, pollArray, lockPoll, getEvents, getEventsFails,
             stopOnDumb, handleEvent, invalidRecord, infoDone, infoDoneFails, release,
             pollArrayGet, pollArrayFails, pollArrayEvent, pollArrayReturn, pollArrayThrows
    <3>3. poller'.pc \notin {"aevents", "aloop", "areturn"}
      <4>1. CASE poll \/ lockPoll \/ getEvents \/ handleEvent \/ invalidRecord \/ release
        BY <1>0, <4>1 DEF poll, lockPoll, getEvents, handleEvent, invalidRecord, release,
                          PollerType, Continue
      <4>2. CASE getEventsFails \/ stopOnDumb
        BY <4>2 DEF getEventsFails, stopOnDumb, IdlePoller
      <4> QED
        BY <1>4, <2>2, <3>1, <4>1, <4>2
           DEF PollerAction, pollerStep, pollArray, infoDone, infoDoneFails, pollArrayGet,
               pollArrayFails, pollArrayEvent, pollArrayReturn, pollArrayThrows
    <3>4. Pending' = Pending
      BY <3>2 DEF Pending
    <3> QED
      BY <2>2, <3>2, <3>3, <3>4
  <2> QED
    BY <1>1, <2>1, <2>2
<1>5. CASE UNCHANGED vars
  <2>1. UNCHANGED <<sub, poller, outcome, aio, kernel, ring>>
    BY <1>5 DEF vars
  <2>2. (DumbInFlight' <=> DumbInFlight) /\ Pending' = Pending
    BY <2>1 DEF DumbInFlight, InFlight, Queued, Pending, Objs
  <2> QED
    BY <1>1, <2>1, <2>2
<1> QED
  BY <1>2, <1>3, <1>4, <1>5

\* A closer's step.
LEMMA CloserKeepsClosers ==
  ASSUME CoreInv, [Next]_vars, NEW c \in Closers, CloserAction(c)
  PROVE  CloserShape'
<1> DEFINE One == \A d, e \in Closers :
                    (Busy(d) \/ closer[d].drained) /\ (Busy(e) \/ closer[e].drained) => d = e
           Stages == /\ ~closed => \A d \in Closers : closer[d].pc = "idle"
                     /\ \A d \in Closers : closer[d].pc \in {"idle", "drain"} => ~closer[d].drained
                     /\ \A d \in Closers : closer[d].drained => HasSemaphore
                     /\ \A d \in Closers : closer[d].pc = "dumb" => closer[d].iocb \in Iocbs
                     /\ control = "freed" => closed /\ \A d \in Closers : ~Busy(d)
           Dumbs == DumbInFlight => \/ control = "freed"
                                    \/ \E d \in Closers : closer[d].pc \in {"wait", "reap", "free"}
           Drained == HasSemaphore /\ "timeout" \notin Faults /\ Gone =>
                        \E d \in Closers : closer[d].drained
           Quiet == ~HasSemaphore /\ closed =>
                      /\ Pending = {}
                      /\ \A s \in Submitters : sub[s].pc = "idle"
                      /\ poller.pc \notin {"aevents", "aloop", "areturn"}
<1>0. /\ One /\ Stages /\ Dumbs /\ Drained /\ Quiet
      /\ HasSemaphore' <=> HasSemaphore
      /\ UNCHANGED <<sub, poller, outcome>>
  BY SemaphoreStays, CloserFrame DEF CoreInv, CloserShape
<1>1. ASSUME One', Stages', Dumbs', Drained', Quiet' PROVE CloserShape'
  BY <1>1 DEF CloserShape
<1>2. Pending' = Pending
  BY <1>0 DEF Pending
<1>3. ASSUME UNCHANGED closed PROVE Quiet'
  BY <1>0, <1>2, <1>3
<1>4. ASSUME closer[c].pc # "idle", closer[c].pc # "returned",
             \A d \in Closers \ {c} : closer'[d] = closer[d],
             closer'[c].pc \notin {"idle", "returned"}
      PROVE  /\ One'
             /\ closed /\ control # "freed"
             /\ \A d \in Closers : closer'[d].pc \notin {"idle", "returned"} => d = c
  BY <1>0, <1>4 DEF Busy
<1>5. ASSUME UNCHANGED <<kernel, aio>>, Objs(ring') \subseteq Objs(ring)
      PROVE  DumbInFlight' => DumbInFlight
  BY <1>0, <1>5 DEF DumbInFlight, InFlight, Queued, Objs
<1>6. CASE close(c)
  <2>1. /\ closer'[c].pc = (IF closed THEN "returned" ELSE "drain")
        /\ closer'[c].drained = closer[c].drained
        /\ \A d \in Closers \ {c} : closer'[d] = closer[d]
    BY <1>6, ClosersMove DEF close, CloserLabels
  <2>2. closer[c].pc = "idle" /\ ~closer[c].drained /\ closed' = TRUE /\ UNCHANGED control
    BY <1>0, <1>6 DEF close
  <2>3. One'
    BY <1>0, <2>1, <2>2 DEF Busy
  <2>4. Stages'
    BY <1>0, <2>1, <2>2 DEF Busy
  <2>5. Dumbs'
    BY <1>0, <1>5, <1>6, <2>1, <2>2 DEF close
  <2>6. Drained'
    BY <1>0, <2>1, <2>2 DEF Gone, PastDrain
  <2>7. Quiet'
    BY <1>0, <1>2, <1>6 DEF close, CloseAllowed
  <2> QED
    BY <1>1, <2>3, <2>4, <2>5, <2>6, <2>7
<1>7. CASE drain(c)
  <2>1. /\ closer'[c].pc = "delete" /\ closer'[c].drained = HasSemaphore
        /\ \A d \in Closers \ {c} : closer'[d] = closer[d]
    BY <1>7, CloserDrains DEF drain, CloserLabels, CoreInv, HasSemaphore
  <2>2. closer[c].pc = "drain" /\ UNCHANGED <<closed, control>>
    BY <1>7 DEF drain
  <2>3. One' /\ closed /\ control # "freed"
    BY <1>4, <2>1, <2>2
  <2>4. Stages'
    BY <1>0, <2>1, <2>2, <2>3 DEF Busy
  <2>5. Dumbs'
    BY <1>0, <1>5, <1>7, <2>1, <2>2 DEF drain
  <2>6. Drained'
    BY <1>0, <2>1
  <2> QED
    BY <1>1, <1>3, <2>2, <2>3, <2>4, <2>5, <2>6
<1>8. CASE drainTimeout(c)
  <2>1. /\ closer'[c].pc = "delete" /\ closer'[c].drained = closer[c].drained
        /\ \A d \in Closers \ {c} : closer'[d] = closer[d]
    BY <1>8, ClosersMove DEF drainTimeout, CloserLabels
  <2>2. closer[c].pc = "drain" /\ UNCHANGED <<closed, control>> /\ "timeout" \in Faults
    BY <1>8 DEF drainTimeout
  <2>3. One' /\ closed /\ control # "freed"
    BY <1>4, <2>1, <2>2
  <2>4. Stages'
    BY <1>0, <2>1, <2>2, <2>3 DEF Busy
  <2>5. Dumbs'
    BY <1>0, <1>5, <1>8, <2>1, <2>2 DEF drainTimeout
  <2>6. Drained'
    BY <2>2
  <2> QED
    BY <1>1, <1>3, <2>2, <2>3, <2>4, <2>5, <2>6
<1>9. CASE deleteGet(c)
  <2>1. /\ closer'[c].pc = "dumb" /\ closer'[c].iocb \in Iocbs
        /\ closer'[c].drained = closer[c].drained
        /\ \A d \in Closers \ {c} : closer'[d] = closer[d]
    BY <1>9, DeleteGetHands
  <2>2. closer[c].pc = "delete" /\ UNCHANGED <<closed, control>>
    BY <1>9 DEF deleteGet
  <2>3. One' /\ closed /\ control # "freed"
    BY <1>4, <2>1, <2>2
  <2>4. Stages'
    BY <1>0, <2>1, <2>2, <2>3 DEF Busy
  <2>5. Dumbs'
    BY <1>0, <1>5, <1>9, <2>1, <2>2 DEF deleteGet
  <2>6. Drained'
    BY <1>0, <2>1, <2>2 DEF Gone, PastDrain
  <2> QED
    BY <1>1, <1>3, <2>2, <2>3, <2>4, <2>5, <2>6
<1>10. ASSUME closer[c].pc \in {"delete", "dumb", "wait", "reap"},
              NEW l \in {"failed", "wait", "reap", "free"}, Goto(c, l),
              UNCHANGED <<closed, control>>,
              l = "failed" => (DumbInFlight' => DumbInFlight) /\ ~DumbInFlight
       PROVE  CloserShape'
  <2>1. /\ closer'[c].pc = l /\ closer'[c].drained = closer[c].drained
        /\ \A d \in Closers \ {c} : closer'[d] = closer[d]
    BY <1>10, ClosersMove DEF CloserLabels
  <2>2. One' /\ closed /\ control # "freed"
    BY <1>4, <1>10, <2>1
  <2>3. Stages'
    BY <1>0, <1>10, <2>1, <2>2 DEF Busy
  <2>4. Dumbs'
    BY <1>0, <1>10, <2>1
  <2>5. Drained'
    BY <1>0, <1>10, <2>1 DEF Gone, PastDrain
  <2> QED
    BY <1>1, <1>3, <1>10, <2>2, <2>3, <2>4, <2>5
<1>11. ASSUME closer[c].pc \in {"delete", "dumb"} PROVE ~DumbInFlight
  BY <1>0, <1>11 DEF Busy
<1>12. CASE deleteFull(c)
  BY <1>5, <1>10, <1>11, <1>12 DEF deleteFull
<1>13. CASE deleteSubmitFails(c)
  <2>1. /\ closer[c].pc = "dumb" /\ Goto(c, "failed") /\ UNCHANGED <<closed, control>>
        /\ UNCHANGED <<kernel, ring>> /\ \A i \in InFlight : aio'[i] = aio[i]
    BY <1>13, DumbIocb DEF deleteSubmitFails
  <2>2. DumbInFlight' => DumbInFlight
    BY <1>0, <2>1 DEF DumbInFlight, InFlight, Queued, Objs
  <2> QED
    BY <1>10, <1>11, <2>1, <2>2
<1>14. CASE deleteSubmit(c) \/ deleteWait(c) \/ deleteReap(c)
  BY <1>10, <1>14 DEF deleteSubmit, deleteWait, deleteReap
<1>15. CASE deleteFree(c)
  <2>1. /\ closer'[c].pc = "returned" /\ closer'[c].drained = closer[c].drained
        /\ \A d \in Closers \ {c} : closer'[d] = closer[d]
    BY <1>15, ClosersMove DEF deleteFree, CloserLabels
  <2>2. closer[c].pc = "free" /\ UNCHANGED closed /\ control' = "freed"
    BY <1>15 DEF deleteFree
  <2>3. /\ closed /\ \A d \in Closers : Busy(d) \/ closer[d].drained => d = c
    BY <1>0, <2>2 DEF Busy
  <2>4. One'
    BY <2>1, <2>3 DEF Busy
  <2>5. Stages'
    BY <1>0, <2>1, <2>2, <2>3 DEF Busy
  <2>6. Dumbs'
    BY <2>2
  <2>7. Drained'
    BY <1>0, <2>1, <2>2 DEF Gone, PastDrain
  <2> QED
    BY <1>1, <1>3, <2>2, <2>4, <2>5, <2>6, <2>7
<1> QED
  BY <1>6, <1>7, <1>8, <1>9, <1>12, <1>13, <1>14, <1>15 DEF CloserAction, closerStep

LEMMA NextKeepsClosers ==
  ASSUME CoreInv, [Next]_vars
  PROVE  CloserShape'
<1>1. ASSUME NEW s \in Submitters, SubmitterAction(s) PROVE UNCHANGED <<closed, control, closer>>
  BY <1>1, SubmitterFrame
<1>2. ASSUME NEW i, NEW res, complete(i, res) PROVE UNCHANGED <<closed, control, closer>>
  BY <1>2 DEF complete
<1>3. ASSUME PollerAction PROVE UNCHANGED <<closed, control, closer>>
  BY <1>3, PollerFrame
<1>4. ASSUME UNCHANGED vars PROVE UNCHANGED <<closed, control, closer>>
  BY <1>4 DEF vars
<1> QED
  BY <1>1, <1>2, <1>3, <1>4, NextByActor, OthersKeepClosers, CloserKeepsClosers

-------------------------------------------------------------------------------
(***************************************************************************)
(* The core of the invariant.                                              *)
(***************************************************************************)
LEMMA InitEstablishesCore == Init => CoreInv
<1> SUFFICES ASSUME Init PROVE CoreInv
  OBVIOUS
<1> USE DEF Init
<1>1. StateOK
  <2>1. ioSpace \in Nat \cup {None} /\ pollLock \in {None, Poller}
    BY ContextAssumption
  <2>2. aio \in [Iocbs -> AioType]
    BY DEF AioType, Files
  <2>3. sub \in [Submitters -> SubmitterType]
    BY DEF IdleSubmitter, SubmitterType, SubmitterLabels
  <2>4. poller \in PollerType /\ ring \in Seq(Events)
    BY EmptySeq DEF IdlePoller, PollerType, Files
  <2>5. closer \in [Closers -> CloserType]
    BY DEF CloserType, CloserLabels
  <2> QED
    BY <2>1, <2>2, <2>3, <2>4, <2>5 DEF StateOK, Outcomes
<1>2. PollerShape
  BY ContextAssumption DEF PollerShape, IdlePoller, Poller
<1>3. Out = {}
  BY ContextAssumption DEF Out, Pool!FreeSlots, Pool!Slots, Iocbs
<1>4. P!PoolInv
  <2>1. P!Init
    BY <1>3 DEF P!Init, P!Slots, Iocbs
  <2> QED
    BY <2>1, ContextAssumption, P!InitEstablishesPoolInv
<1>5. \A s \in Submitters : sub[s].pc = "idle"
  BY DEF IdleSubmitter
<1>6. \A c \in Closers : closer[c].pc = "idle" /\ ~closer[c].drained
  OBVIOUS
<1>7. ring = <<>> /\ poller.batch = <<>> /\ poller.pc = "idle"
  BY DEF IdlePoller
<1>8. PrepIocbs = {} /\ DumbIocbs = {} /\ kernel = {} /\ Objs(ring) = {} /\ Objs(poller.batch) = {}
  BY <1>5, <1>6, <1>7, EmptySeq DEF PrepIocbs, DumbIocbs, Objs
<1>9. HeldOnce
  <2>1. EachOnce(ring) /\ EachOnce(poller.batch)
    BY <1>7, EmptySeq DEF EachOnce
  <2>2. Held = {} /\ InFlight = {} /\ Queued = {}
    BY <1>8 DEF Held, PrepIocbs, DumbIocbs, InFlight, Queued
  <2> QED
    BY <1>5, <1>8, <2>1, <2>2 DEF HeldOnce
<1>10. InFlight = {} /\ Queued = {}
  BY <1>8 DEF InFlight, Queued
<1>11. SubmittersTracked /\ IocbsTracked /\ PollerTracked
  BY <1>5, <1>7, <1>8, <1>10 DEF SubmittersTracked, IocbsTracked, PollerTracked
<1>12. CloserShape
  BY <1>6, <1>10 DEF CloserShape, Busy, Gone, PastDrain, DumbInFlight
<1> QED
  BY <1>1, <1>2, <1>4, <1>9, <1>11, <1>12 DEF CoreInv

LEMMA NextKeepsCore ==
  ASSUME CoreInv, [Next]_vars
  PROVE  CoreInv'
BY NextKeepsTypes, NextKeepsPollerShape, NextKeepsHeldOnce, NextKeepsRequests,
   NextKeepsClosers DEF CoreInv

-------------------------------------------------------------------------------
(***************************************************************************)
(* Requests that are accepted and not told.                                *)
(***************************************************************************)
LEMMA PendingBySubmitter ==
  ASSUME CoreInv, NEW s \in Submitters, SubmitterAction(s)
  PROVE  /\ nativeSubmit(s) => /\ Pending' = Pending \cup {sub[s].req}
                               /\ sub[s].req \in Requests \ Pending
         /\ ~nativeSubmit(s) => Pending' = Pending /\ UNCHANGED refs
<1>0. outcome \in [Requests -> Outcomes]
  BY DEF CoreInv, StateOK
<1>1. ASSUME NEW r \in Requests, outcome[r] \in {"new", "submitting"},
             NEW how \in {"rejected", "refused", "submitting"},
             outcome' = [outcome EXCEPT ![r] = how]
      PROVE  Pending' = Pending
  BY <1>0, <1>1 DEF Pending
<1>2. ASSUME NEW r \in Requests, startSubmit(s, r) PROVE Pending' = Pending
  BY <1>1, <1>2 DEF startSubmit
<1>3. ASSUME acquireInterrupted(s) \/ nativeFull(s) \/ nativeSubmitFails(s)
      PROVE  Pending' = Pending
  <2>1. sub[s].req \in Requests /\ outcome[sub[s].req] = "submitting"
    BY <1>3, CurrentRequest DEF acquireInterrupted, nativeFull, nativeSubmitFails
  <2>2. PICK how \in {"rejected", "refused"} :
          outcome' = [outcome EXCEPT ![sub[s].req] = how]
    BY <1>3 DEF acquireInterrupted, nativeFull, nativeSubmitFails, Reject
  <2> QED
    BY <1>1, <2>1, <2>2
<1>4. ASSUME acquire(s) \/ nativeGet(s) PROVE Pending' = Pending
  BY <1>4 DEF acquire, nativeGet, Pending
<1>5. ASSUME nativeSubmit(s)
      PROVE  Pending' = Pending \cup {sub[s].req} /\ sub[s].req \in Requests \ Pending
  <2>1. sub[s].req \in Requests /\ outcome[sub[s].req] = "submitting"
    BY <1>5, CurrentRequest DEF nativeSubmit
  <2>2. outcome' = [outcome EXCEPT ![sub[s].req] = "inflight"]
    BY <1>5 DEF nativeSubmit
  <2> QED
    BY <1>0, <2>1, <2>2 DEF Pending
<1>6. ~nativeSubmit(s) => UNCHANGED refs
  BY DEF SubmitterAction, submitWrite, submitRead, submitterStep, startSubmit, acquire,
         acquireInterrupted, nativeFull, nativeGet, nativeSubmitFails
<1> QED
  BY <1>2, <1>3, <1>4, <1>5, <1>6, ContextAssumption
     DEF SubmitterAction, submitWrite, submitRead, submitterStep

LEMMA PendingByKernel ==
  ASSUME CoreInv, NEW i \in Iocbs, NEW res \in {"ok", "error"}, complete(i, res)
  PROVE  Pending' = Pending
<1>1. aio[i].data \in Requests => outcome[aio[i].data] = "inflight"
  BY DEF complete, CoreInv, IocbsTracked
<1> QED
  BY <1>1 DEF complete, Pending, CoreInv, StateOK

LEMMA PendingByPoller ==
  ASSUME CoreInv, PollerAction
  PROVE  /\ infoDone \/ infoDoneFails => /\ poller.obj \in Pending \ NullRequests
                                         /\ Pending' = Pending \ {poller.obj}
         /\ pollArrayEvent => /\ Pending' = Pending \ {Data}
                              /\ Data \in Requests => Data \in Pending \ NullRequests
                              /\ Data \notin Requests => Pending' = Pending
         /\ ~(infoDone \/ infoDoneFails \/ pollArrayEvent) =>
              UNCHANGED outcome /\ Pending' = Pending
<1>0. outcome \in [Requests -> Outcomes] /\ StateOK
  BY DEF CoreInv, StateOK
<1>1. ASSUME NEW r \in Requests, outcome[r] = "completed",
             NEW how \in {"done", "threw", "lost", "delivered"}, Tell(r, how)
      PROVE  r \in Pending /\ Pending' = Pending \ {r}
  <2>1. outcome' = [outcome EXCEPT ![r] = how]
    BY <1>0, <1>1, TellCompleted DEF Outcomes
  <2> QED
    BY <1>0, <1>1, <2>1 DEF Pending
<1>2. ASSUME infoDone \/ infoDoneFails
      PROVE  poller.obj \in Pending \ NullRequests /\ Pending' = Pending \ {poller.obj}
  <2>1. poller.obj \in Requests \ NullRequests /\ outcome[poller.obj] = "completed"
    BY <1>2 DEF infoDone, infoDoneFails, CoreInv, PollerTracked
  <2>2. PICK how \in {"done", "threw", "lost"} : Tell(poller.obj, how)
    BY <1>2 DEF infoDone, infoDoneFails
  <2> QED
    BY <1>1, <2>1, <2>2
<1>3. ASSUME pollArrayEvent
      PROVE  /\ Pending' = Pending \ {Data}
             /\ Data \in Requests => Data \in Pending \ NullRequests
             /\ Data \notin Requests => Pending' = Pending
  <2>1. poller.batch # <<>>
    BY <1>3 DEF pollArrayEvent, CoreInv, PollerShape
  <2>2. CASE Data \in Requests
    <3>1. outcome[Data] = "completed" /\ Data \notin NullRequests
      BY <2>1, <2>2, CurrentEvent DEF Filled, Data
    <3>2. Tell(Data, "delivered")
      BY <1>3, <2>2 DEF pollArrayEvent
    <3> QED
      BY <1>1, <2>2, <3>1, <3>2
  <2>3. CASE Data \notin Requests
    <3>1. UNCHANGED outcome
      BY <1>3, <2>3 DEF pollArrayEvent
    <3> QED
      BY <2>3, <3>1 DEF Pending
  <2> QED
    BY <2>2, <2>3
<1>4. ~(infoDone \/ infoDoneFails \/ pollArrayEvent) => UNCHANGED outcome
  BY DEF PollerAction, pollerStep, poll, pollArray, lockPoll, getEvents, getEventsFails,
         stopOnDumb, handleEvent, invalidRecord, release, pollArrayGet, pollArrayFails,
         pollArrayReturn, pollArrayThrows
<1>5. UNCHANGED outcome => Pending' = Pending
  BY DEF Pending
<1> QED
  BY <1>2, <1>3, <1>4, <1>5

-------------------------------------------------------------------------------
(***************************************************************************)
(* Global references.                                                      *)
(***************************************************************************)
LEMMA InitEstablishesRefs == Init => RefsExact
BY DEF Init, RefsExact, Pending, IdlePoller

LEMMA NextKeepsRefs ==
  ASSUME CoreInv, RefsExact, [Next]_vars
  PROVE  RefsExact'
<1>0. poller \in PollerType
  BY DEF CoreInv, StateOK
<1>1. ASSUME NEW s \in Submitters, SubmitterAction(s) PROVE RefsExact'
  <2>1. UNCHANGED poller
    BY <1>1, SubmitterFrame
  <2>2. CASE nativeSubmit(s)
    BY <1>1, <2>1, <2>2, PendingBySubmitter DEF RefsExact, nativeSubmit, NewGlobalRef
  <2>3. CASE ~nativeSubmit(s)
    BY <1>1, <2>1, <2>3, PendingBySubmitter DEF RefsExact
  <2> QED
    BY <2>2, <2>3
<1>2. ASSUME NEW i \in Iocbs, NEW res \in {"ok", "error"}, complete(i, res) PROVE RefsExact'
  BY <1>2, PendingByKernel DEF RefsExact, complete
<1>3. ASSUME PollerAction PROVE RefsExact'
  <2>1. CASE infoDone
    <3>1. poller.pc = "done" /\ poller'.pc = "release" /\ poller'.obj = poller.obj /\ UNCHANGED refs
      BY <1>0, <2>1 DEF infoDone, PollerType
    <3> QED
      BY <1>3, <2>1, <3>1, PendingByPoller DEF RefsExact
  <2>2. CASE infoDoneFails
    <3>1. poller.pc = "done" /\ poller'.pc # "release" /\ refs' = refs \ {poller.obj}
      BY <1>0, <2>2 DEF infoDoneFails, PollerType, Continue
    <3> QED
      BY <1>3, <2>2, <3>1, PendingByPoller DEF RefsExact
  <2>3. CASE release
    <3>1. /\ poller.pc = "release" /\ poller'.pc # "release" /\ refs' = refs \ {poller.obj}
          /\ UNCHANGED outcome
      BY <1>0, <2>3 DEF release, PollerType, Continue
    <3>2. poller.obj \notin Pending /\ Pending' = Pending
      BY <3>1 DEF CoreInv, PollerTracked, Pending
    <3> QED
      BY <3>1, <3>2 DEF RefsExact
  <2>4. CASE pollArrayEvent
    <3>1. poller.pc # "release" /\ poller'.pc # "release"
      BY <1>0, <2>4 DEF pollArrayEvent, PollerType, ContinueArray
    <3>2. CASE Data \in Requests
      <4>1. refs' = refs \ {Data}
        BY <2>4, <3>2 DEF pollArrayEvent
      <4> QED
        BY <1>3, <2>4, <3>1, <4>1, PendingByPoller DEF RefsExact
    <3>3. CASE Data \notin Requests
      <4>1. UNCHANGED refs
        BY <2>4, <3>3 DEF pollArrayEvent
      <4> QED
        BY <1>3, <2>4, <3>1, <3>3, <4>1, PendingByPoller DEF RefsExact
    <3> QED
      BY <3>2, <3>3
  <2>5. CASE \/ poll \/ pollArray \/ lockPoll \/ getEvents \/ handleEvent
             \/ invalidRecord \/ pollArrayGet \/ pollArrayFails
    <3>1. poller.pc # "release" /\ poller'.pc # "release" /\ UNCHANGED <<refs, outcome>>
      BY <1>0, <2>5 DEF poll, pollArray, lockPoll, getEvents, handleEvent, invalidRecord,
                        pollArrayGet, pollArrayFails, PollerType, Continue, ContinueArray
    <3> QED
      BY <3>1 DEF RefsExact, Pending
  <2>6. CASE getEventsFails \/ stopOnDumb \/ pollArrayReturn \/ pollArrayThrows
    <3>1. poller.pc # "release" /\ poller'.pc # "release" /\ UNCHANGED <<refs, outcome>>
      BY <2>6 DEF getEventsFails, stopOnDumb, pollArrayReturn, pollArrayThrows, IdlePoller
    <3> QED
      BY <3>1 DEF RefsExact, Pending
  <2> QED
    BY <1>3, <2>1, <2>2, <2>3, <2>4, <2>5, <2>6 DEF PollerAction, pollerStep
<1>4. ASSUME NEW c \in Closers, CloserAction(c) PROVE RefsExact'
  BY <1>4, CloserFrame DEF RefsExact, Pending
<1>5. CASE UNCHANGED vars
  BY <1>5 DEF vars, RefsExact, Pending
<1> QED
  BY <1>1, <1>2, <1>3, <1>4, <1>5, NextByActor

-------------------------------------------------------------------------------
(***************************************************************************)
(* Errors.                                                                 *)
(***************************************************************************)
LEMMA InitEstablishesErrors == Init => ErrorsTracked
BY EmptySeq DEF Init, ErrorsTracked, ErrorsReported, Truthful, IdlePoller

\* The states of a request that the kernel has finished.
LateOutcomes == {"completed", "done", "delivered", "threw", "lost"}

\* Errors, while nobody completes a request and nobody is told.
LEMMA ErrorsKept ==
  ASSUME CoreInv, ErrorsTracked, UNCHANGED <<failedIO, errored, masked>>,
         \A i \in InFlight : aio'[i].data = aio[i].data,
         UNCHANGED poller, ring' = ring \/ (ring # <<>> /\ ring' = Tail(ring)),
         \A r \in Requests : outcome[r] \in LateOutcomes => outcome'[r] = outcome[r],
         \A r \in Requests : outcome'[r] \in LateOutcomes => outcome'[r] = outcome[r]
  PROVE  ErrorsTracked'
<1>0. ring \in Seq(Events) /\ failedIO \subseteq Requests
  BY DEF CoreInv, StateOK
<1>1. Truthful(poller.batch)'
  BY DEF ErrorsTracked, Truthful, InFlight, Queued, Objs
<1>2. Truthful(ring)'
  <2>1. CASE ring' = ring
    BY <2>1 DEF ErrorsTracked, Truthful, InFlight, Queued, Objs
  <2>2. CASE ring # <<>> /\ ring' = Tail(ring)
    <3>1. \A k \in DOMAIN ring' : k + 1 \in DOMAIN ring /\ ring'[k] = ring[k + 1]
      BY <1>0, <2>2, TreatedEvent
    <3> QED
      BY <3>1 DEF ErrorsTracked, Truthful, InFlight, Queued, Objs
  <2> QED
    BY <2>1, <2>2
<1>3. \A r \in failedIO' : outcome'[r] \in LateOutcomes /\ outcome'[r] = outcome[r]
  BY <1>0 DEF ErrorsTracked, LateOutcomes
<1> QED
  BY <1>1, <1>2, <1>3 DEF ErrorsTracked, ErrorsReported, LateOutcomes

\* Errors, while the poller works on its batch.
LEMMA BatchErrors ==
  ASSUME CoreInv, ErrorsTracked, PollerAction, ring' = ring,
         \/ poller'.batch = poller.batch
         \/ poller'.batch = <<>>
         \/ poller.batch # <<>> /\ poller'.batch = Tail(poller.batch)
  PROVE  Truthful(ring)' /\ Truthful(poller.batch)'
<1>0. poller.batch \in Seq(Events) /\ UNCHANGED failedIO
  BY PollerFrame DEF CoreInv, StateOK, PollerType
<1>1. \A i \in InFlight' : aio'[i] = aio[i]
  BY PollerFlight
<1>2. Truthful(ring)'
  BY <1>0, <1>1 DEF ErrorsTracked, Truthful, InFlight, Queued, Objs
<1>3. Truthful(poller.batch)'
  <2>1. CASE poller'.batch = poller.batch
    BY <1>0, <1>1, <2>1 DEF ErrorsTracked, Truthful, InFlight, Queued, Objs
  <2>2. CASE poller'.batch = <<>>
    BY <2>2, EmptySeq DEF Truthful
  <2>3. CASE poller.batch # <<>> /\ poller'.batch = Tail(poller.batch)
    <3>1. \A k \in DOMAIN poller'.batch :
             k + 1 \in DOMAIN poller.batch /\ poller'.batch[k] = poller.batch[k + 1]
      BY <1>0, <2>3, TreatedEvent
    <3> QED
      BY <1>0, <1>1, <3>1 DEF ErrorsTracked, Truthful, InFlight, Queued, Objs
  <2> QED
    BY <2>1, <2>2, <2>3
<1> QED
  BY <1>2, <1>3

\* onError tells of the current event what it says.
LEMMA OnErrorTells ==
  ASSUME CoreInv, ErrorsTracked, poller.batch # <<>>, onError
  PROVE  /\ errored \subseteq errored' /\ errored' \subseteq failedIO
         /\ masked \subseteq masked'
         /\ Data \in failedIO => Data \in (errored \cup masked)'
<1>1. /\ Event = poller.batch[1] /\ 1 \in DOMAIN poller.batch
  <2>1. poller.batch \in Seq(Events)
    BY DEF CoreInv, StateOK, PollerType
  <2> QED
    BY <2>1, TreatedEvent DEF Event
<1>2. Data \in Requests => (Event.res = "error" <=> Data \in failedIO)
  BY <1>1 DEF ErrorsTracked, Truthful, Data
<1>3. errored \subseteq failedIO /\ failedIO \subseteq Requests
  BY DEF ErrorsTracked, CoreInv, StateOK
<1> QED
  BY <1>2, <1>3 DEF onError

LEMMA NextKeepsErrors ==
  ASSUME CoreInv, ErrorsTracked, [Next]_vars
  PROVE  ErrorsTracked'
<1>0. /\ poller \in PollerType /\ outcome \in [Requests -> Outcomes]
      /\ failedIO \subseteq Requests /\ errored \subseteq Requests
  BY DEF CoreInv, StateOK
<1>1. ASSUME NEW s \in Submitters, SubmitterAction(s) PROVE ErrorsTracked'
  <2>1. UNCHANGED <<ring, poller, failedIO, errored, masked>>
    BY <1>1, SubmitterFrame
  <2>2. \A i \in InFlight : aio'[i].data = aio[i].data
    BY <1>1, SubmitterFlight
  <2>3. ASSUME NEW r \in Requests, outcome[r] \in {"new", "submitting"},
               NEW how \in {"rejected", "refused", "submitting", "inflight"},
               outcome' = [outcome EXCEPT ![r] = how]
        PROVE  /\ \A q \in Requests : outcome[q] \in LateOutcomes => outcome'[q] = outcome[q]
               /\ \A q \in Requests : outcome'[q] \in LateOutcomes => outcome'[q] = outcome[q]
    BY <1>0, <2>3 DEF LateOutcomes
  <2>4. \/ UNCHANGED outcome
        \/ \E r \in Requests, how \in {"rejected", "refused", "submitting", "inflight"} :
              outcome[r] \in {"new", "submitting"} /\ outcome' = [outcome EXCEPT ![r] = how]
    <3>1. ASSUME NEW r \in Requests, startSubmit(s, r) PROVE <2>4!2
      BY <3>1 DEF startSubmit
    <3>2. CASE \/ acquireInterrupted(s) \/ nativeFull(s) \/ nativeSubmitFails(s)
               \/ nativeSubmit(s)
      <4>1. sub[s].req \in Requests /\ outcome[sub[s].req] = "submitting"
        BY <3>2, CurrentRequest
           DEF acquireInterrupted, nativeFull, nativeSubmitFails, nativeSubmit
      <4> QED
        BY <3>2, <4>1 DEF acquireInterrupted, nativeFull, nativeSubmitFails, nativeSubmit,
                          Reject
    <3> QED
      BY <1>1, <3>1, <3>2, ContextAssumption
         DEF SubmitterAction, submitWrite, submitRead, submitterStep, acquire, nativeGet
  <2>5. CASE UNCHANGED outcome
    BY <2>1, <2>2, <2>5, ErrorsKept
  <2> QED
    BY <2>1, <2>2, <2>3, <2>4, <2>5, ErrorsKept
<1>2. ASSUME NEW i0 \in Iocbs, NEW res \in {"ok", "error"}, complete(i0, res)
      PROVE  ErrorsTracked'
  <2> DEFINE r == aio[i0].data
  <2>1. /\ UNCHANGED <<poller, aio, errored, masked>> /\ i0 \in kernel
        /\ ring' = Append(ring, [obj |-> i0, res |-> res])
        /\ outcome' = IF r \in Requests
                      THEN [outcome EXCEPT ![r] = "completed"] ELSE outcome
        /\ failedIO' = IF res = "error" THEN failedIO \cup ({r} \cap Requests) ELSE failedIO
    BY <1>2 DEF complete
  <2>2. i0 \in InFlight /\ i0 \notin Queued
    BY <2>1 DEF CoreInv, HeldOnce, InFlight
  <2>3. r \in Requests => outcome[r] = "inflight"
    BY <2>1 DEF CoreInv, IocbsTracked
  <2>4. \A i \in Queued : aio[i].data \in Requests => aio[i].data # r
    BY <2>2 DEF CoreInv, IocbsTracked, InFlight
  <2>5. r \in Requests => r \notin failedIO
    BY <2>3 DEF ErrorsTracked
  <2>6. [obj |-> i0, res |-> res] \in Events /\ ring \in Seq(Events)
    BY DEF Events, CoreInv, StateOK
  <2>7. /\ DOMAIN ring' = DOMAIN ring \cup {Len(ring) + 1}
        /\ \A k \in DOMAIN ring : ring'[k] = ring[k]
        /\ ring'[Len(ring) + 1].obj = i0 /\ ring'[Len(ring) + 1].res = res
    BY <2>1, <2>6, AppendedEvent
  <2> HIDE DEF r
  <2>8. Truthful(poller.batch)'
    BY <2>1, <2>4 DEF Truthful, ErrorsTracked, Queued, Objs
  <2>9. ASSUME NEW k \in DOMAIN ring', aio[ring'[k].obj].data \in Requests
        PROVE  ring'[k].res = "error" <=> aio[ring'[k].obj].data \in failedIO'
    <3>1. CASE k \in DOMAIN ring
      BY <2>1, <2>4, <2>7, <2>9, <3>1 DEF Truthful, ErrorsTracked, Queued, Objs
    <3>2. CASE k = Len(ring) + 1
      BY <2>1, <2>5, <2>7, <2>9, <3>2 DEF r
    <3> QED
      BY <2>7, <3>1, <3>2
  <2>10. Truthful(ring)'
    BY <2>1, <2>9 DEF Truthful
  <2>11. \A q \in Requests : outcome'[q] = IF q = r THEN "completed" ELSE outcome[q]
    BY <1>0, <2>1
  <2>12. \A q \in failedIO' : outcome'[q] \in LateOutcomes
    BY <1>0, <2>1, <2>11 DEF ErrorsTracked, LateOutcomes
  <2>13. errored' \subseteq failedIO'
    BY <2>1 DEF ErrorsTracked
  <2>14. poller.pc = "done" => poller.obj \in Requests /\ outcome[poller.obj] = "completed"
    BY DEF CoreInv, PollerTracked
  <2>15. poller.pc = "done" /\ poller.obj \in failedIO' => poller.obj \in failedIO
    BY <2>1, <2>3, <2>14
  <2>16. \A q \in failedIO' : outcome'[q] \in {"done", "delivered"} =>
           q \in failedIO /\ outcome[q] \in {"done", "delivered"}
    BY <1>0, <2>1, <2>11
  <2> QED
    BY <2>1, <2>8, <2>10, <2>12, <2>13, <2>15, <2>16
       DEF ErrorsTracked, ErrorsReported, LateOutcomes
<1>3. ASSUME PollerAction PROVE ErrorsTracked'
  <2>0. UNCHANGED failedIO
    BY <1>3, PollerFrame
  <2>1. CASE \/ poll \/ lockPoll \/ pollArray \/ pollArrayFails \/ release \/ invalidRecord
    <3>1. /\ UNCHANGED <<ring, outcome, errored, masked>>
          /\ poller'.pc # "done"
      BY <1>0, <2>1 DEF poll, lockPoll, pollArray, pollArrayFails, release, invalidRecord,
                        PollerType, Continue
    <3>2. \/ poller'.batch = poller.batch
          \/ poller.batch # <<>> /\ poller'.batch = Tail(poller.batch)
      BY <1>0, <2>1 DEF poll, lockPoll, pollArray, pollArrayFails, release, invalidRecord,
                        PollerType, CoreInv, PollerShape
    <3>3. Truthful(ring)' /\ Truthful(poller.batch)'
      BY <1>3, <3>1, <3>2, BatchErrors
    <3> QED
      BY <2>0, <3>1, <3>3 DEF ErrorsTracked, ErrorsReported
  <2>2. CASE getEventsFails \/ stopOnDumb \/ pollArrayReturn \/ pollArrayThrows
    <3>1. /\ UNCHANGED <<ring, outcome, errored, masked>>
          /\ poller'.pc # "done" /\ poller'.batch = <<>>
      BY <2>2 DEF getEventsFails, stopOnDumb, pollArrayReturn, pollArrayThrows, IdlePoller
    <3>2. Truthful(ring)' /\ Truthful(poller.batch)'
      BY <1>3, <3>1, BatchErrors
    <3> QED
      BY <2>0, <3>1, <3>2 DEF ErrorsTracked, ErrorsReported
  <2>3. CASE getEvents \/ pollArrayGet
    <3>1. PICK max \in Nat : ring' = Left(max) /\ poller'.batch = Taken(max)
      BY <1>0, <2>3, ContextAssumption DEF getEvents, pollArrayGet, PollerType
    <3>2. /\ UNCHANGED <<aio, outcome, errored, masked>>
          /\ poller'.pc # "done"
      BY <1>0, <2>3 DEF getEvents, pollArrayGet, PollerType, ContinueArray
    <3>3. /\ \A k \in DOMAIN Taken(max) : k \in DOMAIN ring /\ Taken(max)[k] = ring[k]
          /\ \A k \in DOMAIN Left(max) : /\ k + Count(max) \in DOMAIN ring
                                         /\ Left(max)[k] = ring[k + Count(max)]
      BY TakenEvents DEF CoreInv, StateOK
    <3>4. Truthful(ring)' /\ Truthful(poller.batch)'
      BY <2>0, <3>1, <3>2, <3>3 DEF ErrorsTracked, Truthful
    <3> QED
      BY <2>0, <3>2, <3>4 DEF ErrorsTracked, ErrorsReported
  <2>4. CASE handleEvent
    <3>1. poller.batch # <<>>
      BY <2>4 DEF handleEvent, CoreInv, PollerShape
    <3>2. /\ UNCHANGED <<ring, outcome>>
          /\ poller'.obj = Data /\ poller'.batch = Tail(poller.batch) /\ onError
      BY <1>0, <2>4 DEF handleEvent, PollerType
    <3>3. Truthful(ring)' /\ Truthful(poller.batch)'
      BY <1>3, <3>1, <3>2, BatchErrors
    <3> QED
      BY <2>0, <3>1, <3>2, <3>3, OnErrorTells DEF ErrorsTracked, ErrorsReported
  <2>5. CASE infoDone \/ infoDoneFails
    <3>1. /\ poller.pc = "done" /\ poller.obj \in Requests
          /\ outcome[poller.obj] = "completed"
      BY <2>5 DEF infoDone, infoDoneFails, CoreInv, PollerTracked
    <3>2. PICK how \in {"done", "threw", "lost"} : Tell(poller.obj, how)
      BY <2>5 DEF infoDone, infoDoneFails
    <3>3. outcome' = [outcome EXCEPT ![poller.obj] = how]
      BY <3>1, <3>2, TellCompleted DEF CoreInv, Outcomes
    <3>4. \A q \in Requests : outcome'[q] = IF q = poller.obj THEN how ELSE outcome[q]
      BY <1>0, <3>1, <3>3
    <3>5. /\ UNCHANGED <<ring, errored, masked>> /\ poller'.batch = poller.batch
          /\ poller'.pc # "done"
      BY <1>0, <2>5 DEF infoDone, infoDoneFails, PollerType, Continue
    <3>7. Truthful(ring)' /\ Truthful(poller.batch)'
      BY <1>3, <3>5, BatchErrors
    <3>8. \A q \in failedIO' : outcome'[q] \in LateOutcomes
      BY <1>0, <2>0, <3>4 DEF ErrorsTracked, LateOutcomes
    <3> QED
      BY <1>0, <2>0, <3>1, <3>4, <3>5, <3>7, <3>8
         DEF ErrorsTracked, ErrorsReported, LateOutcomes
  <2>6. CASE pollArrayEvent
    <3>1. poller.batch # <<>>
      BY <2>6 DEF pollArrayEvent, CoreInv, PollerShape
    <3>2. /\ UNCHANGED ring
          /\ poller'.batch = Tail(poller.batch) /\ onError /\ poller'.pc # "done"
      BY <1>0, <2>6 DEF pollArrayEvent, PollerType, ContinueArray
    <3>3. Truthful(ring)' /\ Truthful(poller.batch)'
      BY <1>3, <3>1, <3>2, BatchErrors
    <3>4. \A q \in Requests :
            outcome'[q] = IF q = Data THEN "delivered" ELSE outcome[q]
      <4>1. CASE Data \in Requests
        <5>1. outcome[Data] = "completed" /\ Tell(Data, "delivered")
          BY <2>6, <3>1, <4>1, CurrentEvent DEF pollArrayEvent
        <5>2. outcome' = [outcome EXCEPT ![Data] = "delivered"]
          BY <4>1, <5>1, TellCompleted DEF CoreInv, Outcomes
        <5> QED
          BY <1>0, <5>2
      <4>2. CASE Data \notin Requests
        BY <2>6, <4>2 DEF pollArrayEvent
      <4> QED
        BY <4>1, <4>2
    <3>5. \A q \in failedIO' : outcome'[q] \in LateOutcomes
      BY <1>0, <2>0, <3>4 DEF ErrorsTracked, LateOutcomes
    <3>6. /\ errored \subseteq errored' /\ errored' \subseteq failedIO
          /\ masked \subseteq masked'
          /\ Data \in failedIO => Data \in (errored \cup masked)'
      BY <3>1, <3>2, OnErrorTells
    <3> QED
      BY <1>0, <2>0, <3>2, <3>3, <3>4, <3>5, <3>6
         DEF ErrorsTracked, ErrorsReported, LateOutcomes
  <2> QED
    BY <1>3, <2>1, <2>2, <2>3, <2>4, <2>5, <2>6 DEF PollerAction, pollerStep
<1>4. ASSUME NEW c \in Closers, CloserAction(c) PROVE ErrorsTracked'
  <2>1. UNCHANGED <<poller, outcome, failedIO, errored, masked>>
    BY <1>4, CloserFrame
  <2>2. \A i \in InFlight : aio'[i].data = aio[i].data
    BY <1>4, DumbIocb
       DEF CloserAction, closerStep, close, drain, drainTimeout, deleteGet, deleteFull,
           deleteSubmit, deleteSubmitFails, deleteWait, deleteReap, deleteFree
  <2>3. ring' = ring \/ (ring # <<>> /\ ring' = Tail(ring))
    BY <1>4
       DEF CloserAction, closerStep, close, drain, drainTimeout, deleteGet, deleteFull,
           deleteSubmit, deleteSubmitFails, deleteWait, deleteReap, deleteFree
  <2> QED
    BY <2>1, <2>2, <2>3, ErrorsKept
<1>5. CASE UNCHANGED vars
  <2>1. UNCHANGED <<poller, outcome, failedIO, errored, masked, aio, ring>>
    BY <1>5 DEF vars
  <2> QED
    BY <2>1, ErrorsKept
<1> QED
  BY <1>1, <1>2, <1>3, <1>4, <1>5, NextByActor

-------------------------------------------------------------------------------
(***************************************************************************)
(* fdatasync.                                                              *)
(***************************************************************************)
LEMMA InitEstablishesSyncs == Init => SyncsTracked
BY DEF Init, SyncsTracked, IdlePoller

\* Syncs, while nobody completes a write or a request is told.
LEMMA SyncsKept ==
  ASSUME CoreInv, SyncsTracked, unsynced' \subseteq unsynced,
         Objs(poller'.batch) \subseteq Objs(poller.batch),
         \A i \in Objs(poller'.batch) : aio'[i] = aio[i],
         poller'.pc \in {"loop", "done", "release"} =>
           /\ poller.pc \in {"loop", "done", "release"}
           /\ poller'.lastFile = poller.lastFile,
         poller'.pc = "done" => poller.pc = "done" /\ poller'.obj = poller.obj,
         \A r \in Requests : outcome'[r] = "done" =>
           outcome[r] = "done" \/ (poller.pc = "done" /\ r = poller.obj)
  PROVE  SyncsTracked'
<1>1. UseFdatasync /\ "fdatasync" \notin Faults /\ poller'.pc \in {"loop", "done", "release"} =>
        \A i \in Objs(poller'.batch) :
          aio'[i].data \in Requests /\ aio'[i].fildes = poller'.lastFile =>
            aio'[i].data \notin unsynced'
  BY DEF SyncsTracked
<1>2. Objs(poller.batch)' = Objs(poller'.batch)
  BY DEF Objs
<1> QED
  BY <1>1, <1>2 DEF SyncsTracked

\* A batch after the sync of its first event.
LEMMA SyncedBatch ==
  ASSUME CoreInv, SyncsTracked, poller.pc = "loop", sync,
         UseFdatasync, "fdatasync" \notin Faults
  PROVE  /\ unsynced' \subseteq unsynced
         /\ \A i \in Objs(poller.batch) :
              aio[i].data \in Requests /\ aio[i].fildes = Fildes => aio[i].data \notin unsynced'
<1>1. ASSUME NEW i \in Objs(poller.batch), aio[i].data \in Requests, aio[i].fildes = Fildes
      PROVE  aio[i].data \notin unsynced'
  <2>1. aio[i].fildes = FileOf[aio[i].data]
    BY <1>1 DEF CoreInv, IocbsTracked, InFlight, Queued, Filled
  <2>2. CASE poller.lastFile # Fildes
    <3>1. unsynced' = {r \in unsynced : FileOf[r] # Fildes}
      BY <2>2 DEF sync, fdatasync
    <3> QED
      BY <1>1, <2>1, <3>1
  <2>3. CASE poller.lastFile = Fildes
    BY <1>1, <2>3 DEF sync, SyncsTracked
  <2> QED
    BY <2>2, <2>3
<1>2. unsynced' \subseteq unsynced
  BY DEF sync, fdatasync
<1> QED
  BY <1>1, <1>2

LEMMA NextKeepsSyncs ==
  ASSUME CoreInv, SyncsTracked, [Next]_vars
  PROVE  SyncsTracked'
<1>0. /\ poller \in PollerType /\ outcome \in [Requests -> Outcomes]
      /\ UseFdatasync \in BOOLEAN /\ PollerShape
  BY ContextAssumption DEF CoreInv, StateOK
<1>1. ASSUME NEW s \in Submitters, SubmitterAction(s) PROVE SyncsTracked'
  <2>1. UNCHANGED <<poller, unsynced>>
    BY <1>1, SubmitterFrame
  <2>2. \A i \in Objs(poller.batch) : aio'[i] = aio[i]
    BY <1>1, SubmitterFlight DEF InFlight, Queued
  <2>3. \A r \in Requests : outcome'[r] = "done" => outcome[r] = "done"
    <3>1. \A r \in Requests : startSubmit(s, r) =>
            outcome' \in {[outcome EXCEPT ![r] = "rejected"], [outcome EXCEPT ![r] = "submitting"]}
      BY DEF startSubmit
    <3>2. \/ acquireInterrupted(s) \/ nativeFull(s) \/ nativeSubmitFails(s) \/ nativeSubmit(s)
          => \E how \in {"rejected", "refused", "inflight"} :
               outcome' = [outcome EXCEPT ![sub[s].req] = how]
      BY DEF acquireInterrupted, nativeFull, nativeSubmitFails, nativeSubmit, Reject
    <3>3. acquire(s) \/ nativeGet(s) => outcome' = outcome
      BY DEF acquire, nativeGet
    <3> QED
      BY <1>0, <1>1, <3>1, <3>2, <3>3, ContextAssumption
         DEF SubmitterAction, submitWrite, submitRead, submitterStep
  <2> QED
    BY <2>1, <2>2, <2>3, SyncsKept
<1>2. ASSUME NEW i0 \in Iocbs, NEW res \in {"ok", "error"}, complete(i0, res)
      PROVE  SyncsTracked'
  <2> DEFINE r == aio[i0].data
  <2>1. /\ UNCHANGED <<poller, aio>> /\ i0 \in kernel
        /\ outcome' = IF r \in Requests
                      THEN [outcome EXCEPT ![r] = "completed"] ELSE outcome
        /\ unsynced' = IF res = "ok" /\ aio[i0].op = "pwrite"
                       THEN unsynced \cup ({r} \cap Requests) ELSE unsynced
    BY <1>2 DEF complete
  <2>2. i0 \in InFlight /\ i0 \notin Queued
    BY <2>1 DEF CoreInv, HeldOnce, InFlight
  <2>3. r \in Requests => /\ outcome[r] = "inflight"
                          /\ aio[i0].op = "pwrite" <=> r \in WriteRequests
    BY <2>1, <2>2 DEF CoreInv, IocbsTracked, Filled
  <2>4. \A i \in Objs(poller.batch) : aio[i].data \in Requests => aio[i].data # r
    BY <2>2 DEF CoreInv, IocbsTracked, InFlight, Queued
  <2> HIDE DEF r
  <2>5. unsynced' \subseteq WriteRequests
    BY <2>1, <2>3 DEF SyncsTracked
  <2>6. unsynced' \subseteq unsynced \cup {r}
    BY <2>1
  <2>7. Objs(poller.batch)' = Objs(poller.batch)
    BY <2>1 DEF Objs
  <2>8. \A q \in Requests : outcome'[q] = IF q = r THEN "completed" ELSE outcome[q]
    BY <1>0, <2>1
  <2>9. poller.pc = "done" => poller.obj # r
    BY <2>3 DEF CoreInv, PollerTracked
  <2> QED
    BY <2>1, <2>4, <2>5, <2>6, <2>7, <2>8, <2>9 DEF SyncsTracked
<1>3. ASSUME PollerAction PROVE SyncsTracked'
  <2>1. CASE poll \/ lockPoll \/ pollArray \/ pollArrayFails \/ release \/ infoDoneFails
    <3>1. /\ UNCHANGED <<aio, unsynced>> /\ poller'.batch = poller.batch
          /\ poller'.pc # "done" /\ poller'.lastFile = poller.lastFile
          /\ poller'.pc \in {"loop", "release"} => poller.pc \in {"loop", "done", "release"}
      BY <1>0, <2>1 DEF poll, lockPoll, pollArray, pollArrayFails, release, infoDoneFails,
                        PollerType, Continue
    <3>2. \A q \in Requests : outcome'[q] = "done" => outcome[q] = "done"
      <4>1. CASE infoDoneFails
        BY <1>0, <4>1 DEF infoDoneFails, Tell
      <4> QED
        BY <2>1, <4>1 DEF poll, lockPoll, pollArray, pollArrayFails, release
    <3> QED
      BY <3>1, <3>2, SyncsKept
  <2>2. CASE getEventsFails \/ stopOnDumb \/ pollArrayReturn \/ pollArrayThrows
    <3>1. UNCHANGED <<unsynced, outcome>> /\ poller'.pc = "idle"
      BY <2>2 DEF getEventsFails, stopOnDumb, pollArrayReturn, pollArrayThrows, IdlePoller
    <3> QED
      BY <3>1 DEF SyncsTracked
  <2>3. CASE pollArrayGet
    <3>1. UNCHANGED <<unsynced, outcome>> /\ poller'.pc \in {"areturn", "aloop"}
      BY <1>0, <2>3 DEF pollArrayGet, PollerType, ContinueArray
    <3> QED
      BY <3>1 DEF SyncsTracked
  <2>4. CASE pollArrayEvent
    <3>1. UNCHANGED unsynced /\ poller'.pc \in {"areturn", "aloop"}
      BY <1>0, <2>4 DEF pollArrayEvent, PollerType, ContinueArray
    <3>2. \A q \in Requests : outcome'[q] = "done" => outcome[q] = "done"
      BY <1>0, <2>4 DEF pollArrayEvent, Tell
    <3> QED
      BY <3>1, <3>2 DEF SyncsTracked
  <2>5. CASE getEvents
    <3>1. UNCHANGED <<aio, unsynced, outcome>> /\ poller'.pc = "loop" /\ poller'.lastFile = None
      BY <1>0, <2>5 DEF getEvents, PollerType, LastFileReset
    <3>2. Objs(poller.batch)' \subseteq InFlight'
      BY DEF InFlight, Queued
    <3>3. \A i \in InFlight' : aio'[i].data \in Requests => aio'[i].fildes # None
      <4>1. InFlight' \subseteq InFlight
        BY <1>3, PollerFlight
      <4> QED
        BY <3>1, <4>1, ContextAssumption DEF CoreInv, IocbsTracked, Filled
    <3> QED
      BY <3>1, <3>2, <3>3 DEF SyncsTracked
  <2>6. CASE handleEvent \/ invalidRecord
    <3>1. /\ poller.pc = "loop" /\ sync /\ UNCHANGED outcome
          /\ poller'.batch = Tail(poller.batch)
          /\ UseFdatasync => poller'.lastFile = Fildes
          /\ poller'.pc = "done" => poller'.obj = Data /\ Data # None /\ Fildes # Dumb
      BY <1>0, <2>6 DEF handleEvent, invalidRecord, PollerType, Continue
    <3>2. poller.batch # <<>>
      BY <1>0, <3>1 DEF PollerShape
    <3>3. /\ Objs(poller'.batch) \subseteq Objs(poller.batch) /\ Event.obj \in Objs(poller.batch)
          /\ Data \in Requests \cup {None, Dumb} /\ Filled(Event.obj)
      BY <3>1, <3>2, CurrentEvent
    <3>4. \A i \in Objs(poller'.batch) : aio'[i] = aio[i]
      BY <1>3, PollerFlight DEF InFlight, Queued, Objs
    <3>5. unsynced' \subseteq unsynced
      BY <3>1 DEF sync, fdatasync
    <3>6. ASSUME UseFdatasync, "fdatasync" \notin Faults
          PROVE  /\ poller'.pc \in {"loop", "done", "release"} =>
                      \A i \in Objs(poller'.batch) :
                        aio'[i].data \in Requests /\ aio'[i].fildes = poller'.lastFile =>
                          aio'[i].data \notin unsynced'
                 /\ poller'.pc = "done" => poller'.obj \notin unsynced'
      <4>1. \A i \in Objs(poller.batch) :
              aio[i].data \in Requests /\ aio[i].fildes = Fildes => aio[i].data \notin unsynced'
        BY <3>1, <3>6, SyncedBatch
      <4>2. poller'.pc = "done" => poller'.obj \in Requests
        BY <3>1, <3>3 DEF Filled, Data, Fildes
      <4> QED
        BY <3>1, <3>3, <3>4, <3>6, <4>1, <4>2 DEF Data, Fildes
    <3>7. Objs(poller.batch)' = Objs(poller'.batch)
      BY DEF Objs
    <3> QED
      BY <3>1, <3>5, <3>6, <3>7 DEF SyncsTracked
  <2>7. CASE infoDone
    <3>1. /\ UNCHANGED <<aio, unsynced>> /\ poller'.batch = poller.batch
          /\ poller.pc = "done" /\ poller'.pc = "release"
          /\ poller'.lastFile = poller.lastFile
      BY <1>0, <2>7 DEF infoDone, PollerType
    <3>2. \A q \in Requests : outcome'[q] = "done" => outcome[q] = "done" \/ q = poller.obj
      BY <1>0, <2>7 DEF infoDone, Tell
    <3> QED
      BY <3>1, <3>2, SyncsKept
  <2> QED
    BY <1>3, <2>1, <2>2, <2>3, <2>4, <2>5, <2>6, <2>7 DEF PollerAction, pollerStep
<1>4. ASSUME NEW c \in Closers, CloserAction(c) PROVE SyncsTracked'
  <2>1. UNCHANGED <<poller, outcome, unsynced>>
    BY <1>4, CloserFrame
  <2>2. \A i \in InFlight : aio'[i] = aio[i]
    BY <1>4, DumbIocb
       DEF CloserAction, closerStep, close, drain, drainTimeout, deleteGet, deleteFull,
           deleteSubmit, deleteSubmitFails, deleteWait, deleteReap, deleteFree
  <2>3. Objs(poller.batch) \subseteq InFlight
    BY DEF InFlight, Queued
  <2> QED
    BY <2>1, <2>2, <2>3, SyncsKept
<1>5. CASE UNCHANGED vars
  <2>1. UNCHANGED <<poller, outcome, unsynced, aio>>
    BY <1>5 DEF vars
  <2> QED
    BY <2>1, SyncsKept
<1> QED
  BY <1>1, <1>2, <1>3, <1>4, <1>5, NextByActor

-------------------------------------------------------------------------------
(***************************************************************************)
(* The theorems.                                                           *)
(***************************************************************************)

\* What the callbacks are told is tracked for good: where every iocb and every
\* request is, which global references there are, which errors are on their
\* way and what fdatasync has covered.
THEOREM DeliveryInvariant == Spec => []DeliveryInv
<1>1. Init => DeliveryInv
  BY InitEstablishesCore, InitEstablishesRefs, InitEstablishesErrors, InitEstablishesSyncs
     DEF DeliveryInv
<1>2. DeliveryInv /\ [Next]_vars => DeliveryInv'
  BY NextKeepsCore, NextKeepsRefs, NextKeepsErrors, NextKeepsSyncs DEF DeliveryInv
<1> QED
  BY <1>1, <1>2, PTL DEF Spec

\* Every variable has its type: the permits are not negative, getIOCB and
\* putIOCB stay inside their array, whatever the threads do and whatever fails.
THEOREM ContextTypeCorrect == Spec => []TypeOK
<1>1. DeliveryInv => TypeOK
  <2> SUFFICES ASSUME DeliveryInv PROVE TypeOK
    OBVIOUS
  <2>1. StateOK /\ unsynced \subseteq WriteRequests
    BY DEF DeliveryInv, CoreInv, SyncsTracked
  <2>2. Pool!TypeOK
    <3>1. Held \subseteq Iocbs
      BY DEF DeliveryInv, CoreInv, HeldOnce, Out
    <3>2. P!PoolInv
      BY DEF DeliveryInv, CoreInv
    <3> QED
      BY <3>1, <3>2, PoolCounts DEF Pool!TypeOK, Pool!Slots, Pool!Iocbs, Iocbs
  <2>3. /\ \A k \in DOMAIN ring : ring[k] \in Events
        /\ \A k \in DOMAIN poller.batch : poller.batch[k] \in Events
    <3>1. ring \in Seq(Events) /\ poller.batch \in Seq(Events)
      BY <2>1 DEF StateOK, PollerType
    <3> QED
      BY <3>1, ElementOfSeq, LenProperties
  <2>4. \A s \in Submitters : sub[s].pc \in {"idle", "acquire", "native", "prep"}
    BY <2>1 DEF StateOK, SubmitterType, SubmitterLabels
  <2>5. /\ poller.pc \in {"idle", "enter", "events", "loop", "done", "release",
                          "aevents", "aloop", "areturn"}
        /\ poller.pending \in BOOLEAN
    BY <2>1 DEF StateOK, PollerType
  <2>6. \A c \in Closers :
          /\ closer[c].pc \in {"idle", "drain", "delete", "dumb", "wait", "reap",
                               "free", "returned", "failed"}
          /\ closer[c].drained \in BOOLEAN
    BY <2>1 DEF StateOK, CloserType, CloserLabels
  <2>7. \A r \in Requests :
          outcome[r] \in {"new", "submitting", "rejected", "refused", "inflight",
                          "completed", "done", "delivered", "threw", "lost", "corrupt"}
    BY <2>1 DEF StateOK, Outcomes
  <2> QED
    BY <2>1, <2>2, <2>3, <2>4, <2>5, <2>6, <2>7 DEF StateOK, TypeOK
<1> QED
  BY <1>1, DeliveryInvariant, PTL

\* No callback is told twice or before the kernel is done with its request,
\* although blockedPoll puts the iocb back before it calls done() and another
\* submitter may fill the iocb again in between.
THEOREM ContextToldOnce == Spec => []ToldOnce
<1>1. DeliveryInv => ToldOnce
  BY DEF DeliveryInv, CoreInv, StateOK, Outcomes, ToldOnce
<1> QED
  BY <1>1, DeliveryInvariant, PTL

\* The callbacks with a global reference are exactly those still to be called
\* and the one being called, in either poll, with errors and exceptions.
THEOREM ContextRefsExact == Spec => []RefsExact
<1>1. DeliveryInv => RefsExact
  BY DEF DeliveryInv
<1> QED
  BY <1>1, DeliveryInvariant, PTL

\* onError is called for failed requests only, and for each of them before
\* its completion is reported, except those whose events a poll treats after
\* one of its callbacks threw.
THEOREM ContextErrorsReported == Spec => []ErrorsReported
<1>1. DeliveryInv => ErrorsReported
  BY DEF DeliveryInv, ErrorsTracked
<1> QED
  BY <1>1, DeliveryInvariant, PTL

\* done() of a write means that an fdatasync of its file came after the write
\* completed, although one call serves a run of events: if fdatasync works.
THEOREM ContextDoneIsDurable ==
  ASSUME "fdatasync" \notin Faults
  PROVE  Spec => []DoneIsDurable
<1>1. DeliveryInv => DoneIsDurable
  BY ContextAssumption DEF DeliveryInv, SyncsTracked, DoneIsDurable
<1> QED
  BY <1>1, DeliveryInvariant, PTL

===============================================================================
