----------------------- MODULE LibaioContextCloseProofs -----------------------
(***************************************************************************)
(* Proofs about the permits and about closing a context: the permits       *)
(* balance, and once a closer has all of them, no request and no thread is *)
(* left that could use what deleteContext frees.                           *)
(***************************************************************************)
EXTENDS LibaioContextProofs

USE DEF javaVars, nativeVars, kernelVars, threadVars, historyVars

(***************************************************************************)
(* The inductive invariant, beyond CoreInv.                                *)
(***************************************************************************)

\* The permits tell when the requests are over: all polls are blocked polls,
\* or those of poll(callbacks), which counts every event, meet neither a null
\* callback nor the dumb write of a close that did not wait.
PermitsCount ==
  \/ PollModes \subseteq {"blocked"}
  \/ NullRequests = {} /\ "timeout" \notin Faults

\* The closer has the permits it waits for.
PermitsRule == PermitsCount /\ "timeout" \notin Faults

\* The blocked poll stays away once the closer has waited for it.
PollerGone ==
  SettledClose =>
    /\ closed => poller.pc # "enter"
    /\ control = "freed" \/ (\E c \in Closers : closer[c].pc \in {"reap", "free"}) =>
         poller.pc \notin {"events", "loop", "done", "release"}

\* The requests that have a structure, or had one that carries a callback
\* still to be called.
PrepRequests == {sub[s].req : s \in {t \in Submitters : sub[t].pc = "prep"}}
Users == Pending \cup PrepRequests
DoneCount == IF poller.pc = "done" THEN 1 ELSE 0
DumbCount == IF DumbInFlight \/ DumbIocbs # {} THEN 1 ELSE 0

\* A structure is out for a request or for the dumb write.
UsedBound == used + DoneCount <= Cardinality(Users) + DumbCount

\* The permits, and what poll(callbacks) counts.
PermitsKept ==
  PermitsCount =>
    /\ PermitsConserved
    /\ poller.pc = "aloop" => \A i \in Objs(poller.batch) : aio[i].data \in Requests

\* The dumb write has, or had, its structure.
Deleting ==
  \/ control = "freed"
  \/ \E c \in Closers : closer[c].pc \in {"dumb", "wait", "reap", "free"}

\* From that moment on the array is a permutation, and the only slot that is
\* not free has the pointer of the structure that is out.
Unshuffled ==
  PermitsRule /\ Deleting =>
    /\ \A i, j \in Iocbs : iocb[i] = iocb[j] => i = j
    /\ used <= 1
    /\ used = 1 => iocb[iocbPut] \in Out

\* No structure is dropped between the poller and the pool.
NothingDropped == PermitsRule /\ NullRequests = {} => Out = Held

CloseInv ==
  /\ CoreInv /\ PollerGone
  /\ UsedBound /\ PermitsKept /\ Unshuffled /\ NothingDropped

-------------------------------------------------------------------------------
(***************************************************************************)
(* The blocked poll and the lock.                                          *)
(***************************************************************************)
LEMMA NextKeepsPollerGone ==
  ASSUME CoreInv, PollerGone, [Next]_vars
  PROVE  PollerGone'
<1> SUFFICES ASSUME SettledClose
             PROVE  /\ closed' => poller'.pc # "enter"
                    /\ control' = "freed" \/ (\E c \in Closers : closer'[c].pc \in {"reap", "free"})
                         => poller'.pc \notin {"events", "loop", "done", "release"}
  BY DEF PollerGone
<1> DEFINE Waited == control = "freed" \/ \E c \in Closers : closer[c].pc \in {"reap", "free"}
           Waited1 == control' = "freed" \/ \E c \in Closers : closer'[c].pc \in {"reap", "free"}
           Inside == {"events", "loop", "done", "release"}
<1>0. /\ closed => poller.pc # "enter" /\ (Waited => poller.pc \notin Inside)
      /\ Waited => poller.pc \notin Inside
      /\ Waited => closed
      /\ poller \in PollerType
  BY DEF PollerGone, CoreInv, CloserShape, StateOK
<1>1. ASSUME UNCHANGED <<closed, control, closer, poller>>
      PROVE  (closed' => poller'.pc # "enter") /\ (Waited1 => poller'.pc \notin Inside)
  BY <1>0, <1>1
<1>2. ASSUME NEW s \in Submitters, SubmitterAction(s) PROVE UNCHANGED <<closed, control, closer, poller>>
  BY <1>2, SubmitterFrame
<1>3. ASSUME NEW i, NEW res, complete(i, res) PROVE UNCHANGED <<closed, control, closer, poller>>
  BY <1>3 DEF complete
<1>4. ASSUME PollerAction
      PROVE  (closed' => poller'.pc # "enter") /\ (Waited1 => poller'.pc \notin Inside)
  <2>1. UNCHANGED <<closed, control, closer>>
    BY <1>4, PollerFrame
  <2>2. CASE poll
    BY <1>0, <2>1, <2>2 DEF poll, PollerType
  <2>3. CASE lockPoll
    BY <1>0, <2>1, <2>3 DEF lockPoll, PollerType
  <2>4. CASE getEventsFails \/ stopOnDumb \/ pollArrayReturn \/ pollArrayThrows
    BY <2>4 DEF getEventsFails, stopOnDumb, pollArrayReturn, pollArrayThrows, IdlePoller
  <2>5. CASE pollArray \/ pollArrayGet \/ pollArrayFails \/ pollArrayEvent
    <3>1. poller'.pc \in {"aevents", "aloop", "areturn"}
      BY <1>0, <2>5 DEF pollArray, pollArrayGet, pollArrayFails, pollArrayEvent, PollerType,
                        ContinueArray
    <3> QED
      BY <3>1
  <2>6. CASE getEvents \/ handleEvent \/ invalidRecord \/ infoDone \/ infoDoneFails \/ release
    <3>1. poller'.pc \in Inside
      BY <1>0, <2>6 DEF getEvents, handleEvent, invalidRecord, infoDone, infoDoneFails,
                        release, PollerType, Continue
    <3>2. poller.pc \in Inside
      BY <2>6 DEF getEvents, handleEvent, invalidRecord, infoDone, infoDoneFails, release
    <3> QED
      BY <1>0, <2>1, <3>1, <3>2
  <2> QED
    BY <1>4, <2>2, <2>3, <2>4, <2>5, <2>6 DEF PollerAction, pollerStep
<1>5. ASSUME NEW c \in Closers, CloserAction(c)
      PROVE  (closed' => poller'.pc # "enter") /\ (Waited1 => poller'.pc \notin Inside)
  <2>0. UNCHANGED <<poller, pollLock>>
    BY <1>5, CloserFrame
  <2>1. CASE close(c)
    <3>1. poller.pc # "enter" /\ UNCHANGED control
      BY <2>1 DEF close, CloseAllowed
    <3>2. /\ closer'[c].pc \in {"returned", "drain"}
          /\ \A d \in Closers \ {c} : closer'[d] = closer[d]
      BY <2>1, ClosersMove DEF close, CloserLabels
    <3> QED
      BY <1>0, <2>0, <3>1, <3>2
  <2>2. CASE deleteWait(c)
    <3>1. poller.pc \notin Inside
      BY <2>2, ContextAssumption DEF deleteWait, PollFinished, CoreInv, PollerShape, Poller
    <3>2. UNCHANGED closed
      BY <2>2 DEF deleteWait
    <3> QED
      BY <1>0, <2>0, <3>1, <3>2
  <2>3. CASE deleteReap(c) \/ deleteFree(c)
    <3>1. closer[c].pc \in {"reap", "free"} /\ UNCHANGED closed
      BY <2>3 DEF deleteReap, deleteFree
    <3> QED
      BY <1>0, <2>0, <3>1
  <2>4. CASE drain(c) \/ drainTimeout(c) \/ deleteGet(c)
    <3>1. /\ closer'[c].pc \in {"delete", "dumb"}
          /\ \A d \in Closers \ {c} : closer'[d] = closer[d]
      BY <2>4, ClosersMove, CloserDrains, DeleteGetHands
         DEF drain, drainTimeout, CloserLabels, CoreInv, HasSemaphore
    <3>2. UNCHANGED <<closed, control>>
      BY <2>4 DEF drain, drainTimeout, deleteGet
    <3> QED
      BY <1>0, <2>0, <3>1, <3>2
  <2>5. CASE deleteFull(c) \/ deleteSubmit(c) \/ deleteSubmitFails(c)
    <3>1. /\ closer'[c].pc \in {"failed", "wait"}
          /\ \A d \in Closers \ {c} : closer'[d] = closer[d]
      BY <2>5, ClosersMove DEF deleteFull, deleteSubmit, deleteSubmitFails, CloserLabels
    <3>2. UNCHANGED <<closed, control>>
      BY <2>5 DEF deleteFull, deleteSubmit, deleteSubmitFails
    <3> QED
      BY <1>0, <2>0, <3>1, <3>2
  <2> QED
    BY <1>5, <2>1, <2>2, <2>3, <2>4, <2>5 DEF CloserAction, closerStep
<1>6. UNCHANGED vars => UNCHANGED <<closed, control, closer, poller>>
  BY DEF vars
<1> QED
  BY <1>1, <1>2, <1>3, <1>4, <1>5, <1>6, NextByActor

-------------------------------------------------------------------------------
(***************************************************************************)
(* What the structures are out for.                                        *)
(***************************************************************************)
LEMMA UsersCounted ==
  ASSUME CoreInv
  PROVE  /\ Users \subseteq Requests /\ IsFiniteSet(Users) /\ Cardinality(Users) \in Nat
         /\ used \in Nat /\ DoneCount \in {0, 1} /\ DumbCount \in {0, 1}
<1>1. Users \subseteq Requests
  BY DEF Users, Pending, PrepRequests, CoreInv, SubmittersTracked
<1>2. IsFiniteSet(Users) /\ Cardinality(Users) \in Nat
  BY <1>1, ContextAssumption, FS_Subset, FS_CardinalityType
<1>3. used \in Nat
  BY PoolCounts, ContextAssumption DEF CoreInv
<1> QED
  BY <1>1, <1>2, <1>3 DEF DoneCount, DumbCount

LEMMA UsersGrow ==
  ASSUME CoreInv, NEW r, r \notin Users, Users' = Users \cup {r}
  PROVE  Cardinality(Users') = Cardinality(Users) + 1
BY UsersCounted, FS_AddElement

LEMMA UsersShrink ==
  ASSUME CoreInv, NEW r \in Users, Users' = Users \ {r}
  PROVE  Cardinality(Users') = Cardinality(Users) - 1
BY UsersCounted, FS_RemoveElement

\* A submitter that neither gets nor gives up a structure.
LEMMA PrepRequestsRest ==
  ASSUME NEW s \in Submitters, sub[s].pc # "prep", sub'[s].pc # "prep",
         \A t \in Submitters \ {s} : sub'[t] = sub[t]
  PROVE  PrepRequests' = PrepRequests
<1>1. \A t \in Submitters : (sub'[t].pc = "prep" \/ sub[t].pc = "prep") => sub'[t] = sub[t]
  OBVIOUS
<1> QED
  BY <1>1 DEF PrepRequests

\* A submitter that gives its structure away.
LEMMA PrepRequestsGive ==
  ASSUME CoreInv, NEW s \in Submitters, sub[s].pc = "prep", sub'[s].pc = "idle",
         \A t \in Submitters \ {s} : sub'[t] = sub[t]
  PROVE  PrepRequests' = PrepRequests \ {sub[s].req} /\ sub[s].req \in PrepRequests
<1>1. \A t \in Submitters : sub[t].pc = "prep" /\ sub[t].req = sub[s].req => t = s
  BY DEF CoreInv, SubmittersTracked
<1>2. \A t \in Submitters : sub'[t].pc = "prep" => t # s /\ sub'[t] = sub[t]
  OBVIOUS
<1>3. \A t \in Submitters : sub[t].pc = "prep" /\ t # s => sub'[t] = sub[t]
  OBVIOUS
<1> QED
  BY <1>1, <1>2, <1>3 DEF PrepRequests

\* The dumb write stays where it is, unless its own event is treated.
LEMMA PollerKeepsDumb ==
  ASSUME CoreInv, PollerAction, DumbInFlight, ~DumbInFlight'
  PROVE  stopOnDumb \/ (pollArrayEvent /\ Data = Dumb)
<1>0. UNCHANGED kernel /\ PollerShape /\ poller \in PollerType /\ aio \in [Iocbs -> AioType]
  BY PollerFrame DEF CoreInv, StateOK
<1>1. PICK i \in InFlight : aio[i].data = Dumb
  BY DEF DumbInFlight
<1>2. i \notin InFlight'
  BY <1>1, PollerFlight DEF DumbInFlight
<1>3. ASSUME Queued \subseteq Queued' PROVE FALSE
  BY <1>0, <1>1, <1>2, <1>3 DEF InFlight
<1>4. ASSUME poll \/ lockPoll \/ infoDone \/ infoDoneFails \/ release \/ pollArray
             \/ pollArrayFails
      PROVE  FALSE
  <2>1. poller'.batch = poller.batch /\ UNCHANGED ring
    BY <1>0, <1>4 DEF poll, lockPoll, infoDone, infoDoneFails, release, pollArray,
                      pollArrayFails, PollerType
  <2> QED
    BY <1>3, <2>1 DEF Queued, Objs
<1>5. ASSUME getEventsFails \/ pollArrayReturn \/ pollArrayThrows PROVE FALSE
  <2>1. poller.pc \in {"events", "areturn"}
    BY <1>5 DEF getEventsFails, pollArrayReturn, pollArrayThrows
  <2>2. poller.batch = <<>>
    BY <1>0, <2>1 DEF PollerShape
  <2>3. poller'.batch = <<>> /\ UNCHANGED ring
    BY <1>5 DEF getEventsFails, pollArrayReturn, pollArrayThrows, IdlePoller
  <2> QED
    BY <1>3, <2>2, <2>3 DEF Queued, Objs
<1>6. ASSUME getEvents \/ pollArrayGet PROVE FALSE
  <2>1. poller.pc \in {"events", "aevents"}
    BY <1>6 DEF getEvents, pollArrayGet
  <2>2. poller.batch = <<>>
    BY <1>0, <2>1 DEF PollerShape
  <2>3. PICK max \in Nat : ring' = Left(max) /\ poller'.batch = Taken(max)
    BY <1>0, <1>6, ContextAssumption DEF getEvents, pollArrayGet, PollerType
  <2>4. Objs(ring) = Objs(poller'.batch) \cup Objs(ring') /\ Objs(poller.batch) = {}
    BY <1>6, <2>2, <2>3, TakingHands DEF getEvents, pollArrayGet
  <2>5. Queued \subseteq Queued'
    BY <2>4 DEF Queued, Objs
  <2> QED
    BY <1>3, <2>5
<1>7. ASSUME handleEvent \/ invalidRecord \/ pollArrayEvent PROVE i = Event.obj
  <2>1. poller.batch # <<>>
    BY <1>0, <1>7 DEF handleEvent, invalidRecord, pollArrayEvent, PollerShape
  <2>2. poller'.batch = Tail(poller.batch) /\ UNCHANGED ring
    BY <1>0, <1>7 DEF handleEvent, invalidRecord, pollArrayEvent, PollerType
  <2>3. Objs(poller.batch) = Objs(poller'.batch) \cup {Event.obj}
    BY <2>1, <2>2, CurrentEvent
  <2>4. Queued \subseteq Queued' \cup {Event.obj}
    BY <2>2, <2>3 DEF Queued, Objs
  <2> QED
    BY <1>0, <1>1, <1>2, <2>4 DEF InFlight
<1>8. ASSUME handleEvent \/ invalidRecord PROVE FALSE
  <2>1. Data = Dumb /\ Fildes # Dumb
    BY <1>1, <1>7, <1>8 DEF handleEvent, invalidRecord, Data
  <2>2. Filled(Event.obj)
    BY <1>1, <1>7, <1>8 DEF CoreInv, IocbsTracked
  <2> QED
    BY <2>1, <2>2 DEF Filled, Data, Fildes
<1> QED
  BY <1>1, <1>4, <1>5, <1>6, <1>7, <1>8 DEF PollerAction, pollerStep, Data

LEMMA Between ==
  ASSUME NEW a \in Int, NEW b \in Int, NEW c \in Int, NEW d \in Int, NEW n \in Int,
         a <= b, c <= a + n, d >= b + n
  PROVE  c <= d
OBVIOUS

\* What the sums of UsedBound may do.
LEMMA UsedBoundKept ==
  ASSUME CoreInv, CoreInv', UsedBound,
         NEW n \in Int, used' + DoneCount' <= used + DoneCount + n,
         Cardinality(Users') + DumbCount' >= Cardinality(Users) + DumbCount + n
  PROVE  UsedBound'
<1>1. used \in Nat /\ used' \in Nat
  BY PoolCounts, ContextAssumption DEF CoreInv, PoolCounts, P!PoolInv, P!TypeOK
<1>2. Cardinality(Users) \in Nat
  BY UsersCounted
<1>3. Cardinality(Users)' \in Nat
  <2>1. Users' \subseteq Requests
    BY DEF Users, Pending, PrepRequests, CoreInv, SubmittersTracked
  <2> QED
    BY <2>1, ContextAssumption, FS_Subset, FS_CardinalityType
<1>4. /\ DoneCount \in Nat /\ DumbCount \in Nat
      /\ DoneCount' \in Nat /\ DumbCount' \in Nat
  BY DEF DoneCount, DumbCount
<1>5. /\ used + DoneCount \in Int /\ used' + DoneCount' \in Int
      /\ Cardinality(Users) + DumbCount \in Int
      /\ Cardinality(Users') + DumbCount' \in Int
  BY <1>1, <1>2, <1>3, <1>4
<1>6. used + DoneCount <= Cardinality(Users) + DumbCount
  BY DEF UsedBound
<1>7. used' + DoneCount' <= Cardinality(Users') + DumbCount'
  BY <1>5, <1>6, Between
<1> QED
  BY <1>7 DEF UsedBound

\* A submitter's steps.
LEMMA SubmitterKeepsUsed ==
  ASSUME CoreInv, CoreInv', UsedBound, NEW s \in Submitters, SubmitterAction(s)
  PROVE  UsedBound'
<1>0. /\ UNCHANGED <<poller, closer>> /\ PrepRequests \subseteq Requests
      /\ \A r \in PrepRequests : outcome[r] = "submitting"
      /\ sub \in [Submitters -> SubmitterType] /\ StateOK
  BY SubmitterFrame DEF CoreInv, StateOK, SubmittersTracked, PrepRequests
<1>1. DoneCount' = DoneCount /\ DumbCount' \in {0, 1} /\ DumbCount \in {0, 1} /\ DumbCount' >= DumbCount
  <2>1. DumbInFlight => DumbInFlight'
    BY SubmitterFlight DEF DumbInFlight
  <2>2. DumbIocbs' = DumbIocbs
    BY <1>0 DEF DumbIocbs
  <2> QED
    BY <1>0, <2>1, <2>2 DEF DoneCount, DumbCount
<1>2. CASE nativeGet(s)
  <2>1. PICK i \in Iocbs \ Out :
          /\ used' = used + 1
          /\ sub'[s].pc = "prep" /\ sub'[s].req = sub[s].req
          /\ \A t \in Submitters \ {s} : sub'[t] = sub[t]
    BY <1>2, NativeGetHands
  <2>2. sub[s].pc = "native" /\ UNCHANGED outcome
    BY <1>2 DEF nativeGet
  <2>3. /\ sub[s].req \in Requests /\ outcome[sub[s].req] = "submitting"
        /\ \A t \in Submitters : sub[t].pc = "prep" => sub[t].req # sub[s].req
    BY <2>2 DEF CoreInv, SubmittersTracked
  <2>4. PrepRequests' = PrepRequests \cup {sub[s].req}
    <3>1. \A t \in Submitters : sub'[t].pc = "prep" => t = s \/ sub'[t] = sub[t]
      BY <2>1
    <3>2. \A t \in Submitters : sub[t].pc = "prep" => sub'[t] = sub[t]
      BY <2>1, <2>2
    <3> QED
      BY <2>1, <3>1, <3>2 DEF PrepRequests
  <2>5. sub[s].req \notin Users
    BY <2>3 DEF Users, Pending, PrepRequests
  <2>6. Users' = Users \cup {sub[s].req}
    BY <2>2, <2>4 DEF Users, Pending
  <2>7. Cardinality(Users') = Cardinality(Users) + 1
    BY <2>5, <2>6, UsersGrow
  <2>8. /\ used' + DoneCount' <= used + DoneCount + 1
        /\ Cardinality(Users') + DumbCount' >= Cardinality(Users) + DumbCount + 1
    BY <1>1, <2>1, <2>7, UsersCounted
  <2>9. 1 \in Int
    OBVIOUS
  <2> QED
    BY <2>8, <2>9, UsedBoundKept
<1>3. CASE nativeSubmit(s)
  <2>1. used' = used /\ sub'[s].pc = "idle" /\ \A t \in Submitters \ {s} : sub'[t] = sub[t]
    BY <1>3, NativeSubmitHands
  <2>2. sub[s].pc = "prep"
    BY <1>3 DEF nativeSubmit
  <2>3. PrepRequests' = PrepRequests \ {sub[s].req} /\ sub[s].req \in PrepRequests
    BY <2>1, <2>2, PrepRequestsGive
  <2>4. Pending' = Pending \cup {sub[s].req}
    BY <1>3, PendingBySubmitter
  <2>5. Users' = Users
    BY <2>3, <2>4 DEF Users
  <2>6. /\ used' + DoneCount' <= used + DoneCount + 0
        /\ Cardinality(Users') + DumbCount' >= Cardinality(Users) + DumbCount + 0
    BY <1>1, <2>1, <2>5, UsersCounted
  <2>7. 0 \in Int
    OBVIOUS
  <2> QED
    BY <2>6, <2>7, UsedBoundKept
<1>4. CASE nativeSubmitFails(s)
  <2>1. used' = used - 1 /\ sub'[s].pc = "idle" /\ \A t \in Submitters \ {s} : sub'[t] = sub[t]
    BY <1>4, NativeSubmitFailsHands
  <2>2. sub[s].pc = "prep"
    BY <1>4 DEF nativeSubmitFails
  <2>3. PrepRequests' = PrepRequests \ {sub[s].req} /\ sub[s].req \in PrepRequests
    BY <2>1, <2>2, PrepRequestsGive
  <2>4. ~nativeSubmit(s)
    <3>1. ASSUME nativeSubmit(s) PROVE FALSE
      <4>1. outcome[sub[s].req] = "submitting" /\ sub[s].req \in Requests
        BY <2>2 DEF CoreInv, SubmittersTracked
      <4>2. outcome'[sub[s].req] = "inflight"
        BY <1>0, <3>1, <4>1 DEF nativeSubmit, StateOK
      <4>3. outcome'[sub[s].req] = "refused"
        BY <1>0, <1>4, <4>1 DEF nativeSubmitFails, Reject, StateOK
      <4> QED
        BY <4>2, <4>3
    <3> QED
      BY <3>1
  <2>5. Pending' = Pending /\ sub[s].req \notin Pending
    BY <1>0, <2>3, <2>4, PendingBySubmitter DEF Pending
  <2>6. Users' = Users \ {sub[s].req} /\ sub[s].req \in Users
    BY <2>3, <2>5 DEF Users
  <2>7. Cardinality(Users') = Cardinality(Users) - 1
    BY <2>6, UsersShrink
  <2>8. /\ used' + DoneCount' <= used + DoneCount + (-1)
        /\ Cardinality(Users') + DumbCount' >= Cardinality(Users) + DumbCount + (-1)
    BY <1>1, <2>1, <2>7, UsersCounted
  <2>9. -1 \in Int
    OBVIOUS
  <2> QED
    BY <2>8, <2>9, UsedBoundKept
<1>5. CASE \/ submitWrite(s) \/ submitRead(s) \/ acquire(s) \/ acquireInterrupted(s)
           \/ nativeFull(s)
  <2>1. /\ UNCHANGED used /\ sub[s].pc # "prep" /\ sub'[s].pc # "prep"
        /\ \A t \in Submitters \ {s} : sub'[t] = sub[t]
    <3>1. CASE submitWrite(s) \/ submitRead(s)
      BY <1>0, <3>1 DEF submitWrite, submitRead, startSubmit, poolVars
    <3>2. CASE acquire(s)
      BY <1>0, <3>2, SubmitterGoes DEF acquire, poolVars, SubmitterLabels
    <3>3. CASE acquireInterrupted(s) \/ nativeFull(s)
      BY <1>0, <3>3, SubmitterReturns DEF acquireInterrupted, nativeFull, Reject, poolVars
    <3> QED
      BY <1>5, <3>1, <3>2, <3>3
  <2>2. PrepRequests' = PrepRequests
    BY <2>1, PrepRequestsRest
  <2>3. ~nativeSubmit(s)
    BY <2>1 DEF nativeSubmit
  <2>4. Users' = Users
    BY <2>2, <2>3, PendingBySubmitter DEF Users
  <2>5. /\ used' + DoneCount' <= used + DoneCount + 0
        /\ Cardinality(Users') + DumbCount' >= Cardinality(Users) + DumbCount + 0
    BY <1>1, <2>1, <2>4, UsersCounted
  <2>6. 0 \in Int
    OBVIOUS
  <2> QED
    BY <2>5, <2>6, UsedBoundKept
<1> QED
  BY <1>2, <1>3, <1>4, <1>5 DEF SubmitterAction, submitterStep

LEMMA CompleteKeepsUsed ==
  ASSUME CoreInv, CoreInv', UsedBound, NEW i \in Iocbs, NEW res \in {"ok", "error"},
         complete(i, res)
  PROVE  UsedBound'
<1>0. /\ UNCHANGED <<sub, poller, closer, aio>>
      /\ used' = used /\ Objs(ring') = Objs(ring) \cup {i} /\ kernel' = kernel \ {i}
  BY CompleteHands DEF complete
<1>1. Users' = Users
  BY <1>0, PendingByKernel DEF Users, PrepRequests
<1>2. InFlight \subseteq InFlight'
  BY <1>0 DEF InFlight, Queued, Objs
<1>3. /\ DoneCount' = DoneCount /\ DumbCount' \in {0, 1} /\ DumbCount \in {0, 1}
      /\ DumbCount' >= DumbCount
  <2>1. DumbInFlight => DumbInFlight'
    BY <1>0, <1>2 DEF DumbInFlight
  <2>2. DumbIocbs' = DumbIocbs
    BY <1>0 DEF DumbIocbs
  <2> QED
    BY <1>0, <2>1, <2>2 DEF DoneCount, DumbCount
<1>4. /\ used' + DoneCount' <= used + DoneCount + 0
      /\ Cardinality(Users') + DumbCount' >= Cardinality(Users) + DumbCount + 0
  BY <1>0, <1>1, <1>3, UsersCounted
<1>5. 0 \in Int
  OBVIOUS
<1> QED
  BY <1>4, <1>5, UsedBoundKept

LEMMA PollerKeepsUsed ==
  ASSUME CoreInv, CoreInv', UsedBound, PollerAction
  PROVE  UsedBound'
<1>0. /\ UNCHANGED <<sub, closer>> /\ PollerShape /\ poller \in PollerType
      /\ DumbCount \in {0, 1} /\ DumbCount' \in {0, 1} /\ used \in Nat
      /\ Cardinality(Users) \in Nat /\ DoneCount \in {0, 1} /\ DoneCount' \in {0, 1}
  BY PollerFrame, UsersCounted DEF CoreInv, StateOK, DumbCount, DoneCount
<1>1. PrepRequests' = PrepRequests /\ DumbIocbs' = DumbIocbs
  BY <1>0 DEF PrepRequests, DumbIocbs
<1>2. \A r \in PrepRequests : outcome[r] = "submitting"
  BY DEF CoreInv, SubmittersTracked, PrepRequests
<1>3. ~stopOnDumb /\ ~(pollArrayEvent /\ Data = Dumb) => DumbCount' >= DumbCount
  BY <1>0, <1>1, PollerKeepsDumb DEF DumbCount
<1>4. 0 \in Int /\ -1 \in Int
  OBVIOUS
<1>5. CASE infoDone \/ infoDoneFails
  <2>1. poller.obj \in Pending /\ Pending' = Pending \ {poller.obj}
    BY <1>5, PendingByPoller
  <2>2. poller.obj \notin PrepRequests
    BY <1>2, <2>1 DEF Pending
  <2>3. Cardinality(Users') = Cardinality(Users) - 1
    BY <1>1, <2>1, <2>2, UsersShrink DEF Users
  <2>4. DoneCount = 1 /\ UNCHANGED used
    BY <1>5 DEF infoDone, infoDoneFails, DoneCount, poolVars
  <2>5. DoneCount' = 0
    BY <1>0, <1>5 DEF infoDone, infoDoneFails, DoneCount, PollerType, Continue
  <2>6. ~stopOnDumb /\ ~pollArrayEvent
    BY <1>5 DEF infoDone, infoDoneFails, stopOnDumb, pollArrayEvent
  <2>7. /\ used' + DoneCount' <= used + DoneCount + (-1)
        /\ Cardinality(Users') + DumbCount' >= Cardinality(Users) + DumbCount + (-1)
    BY <1>0, <1>3, <2>3, <2>4, <2>5, <2>6
  <2> QED
    BY <1>4, <2>7, UsedBoundKept
<1>6. CASE handleEvent
  <2>1. poller.pc = "loop" /\ Pool!putIOCB(Event.obj)
    BY <1>6 DEF handleEvent
  <2>2. used' = used - 1
    BY <1>0, <2>1, PuttingHands DEF PollerShape
  <2>3. DoneCount = 0 /\ DoneCount' = 1
    BY <1>0, <1>6 DEF handleEvent, DoneCount, PollerType
  <2>4. ~stopOnDumb /\ ~pollArrayEvent /\ ~infoDone /\ ~infoDoneFails
    BY <1>6 DEF handleEvent, stopOnDumb, pollArrayEvent, infoDone, infoDoneFails
  <2>5. Users' = Users
    BY <1>1, <2>4, PendingByPoller DEF Users
  <2>6. /\ used' + DoneCount' <= used + DoneCount + 0
        /\ Cardinality(Users') + DumbCount' >= Cardinality(Users) + DumbCount + 0
    BY <1>0, <1>3, <2>2, <2>3, <2>4, <2>5
  <2> QED
    BY <1>4, <2>6, UsedBoundKept
<1>7. CASE stopOnDumb
  <2>1. poller.pc = "loop" /\ Pool!putIOCB(Event.obj)
    BY <1>7 DEF stopOnDumb
  <2>2. used' = used - 1
    BY <1>0, <2>1, PuttingHands DEF PollerShape
  <2>3. DoneCount = 0 /\ DoneCount' = 0
    BY <1>7 DEF stopOnDumb, DoneCount, IdlePoller
  <2>4. ~pollArrayEvent /\ ~infoDone /\ ~infoDoneFails
    BY <1>7 DEF stopOnDumb, pollArrayEvent, infoDone, infoDoneFails
  <2>5. Users' = Users
    BY <1>1, <2>4, PendingByPoller DEF Users
  <2>6. /\ used' + DoneCount' <= used + DoneCount + (-1)
        /\ Cardinality(Users') + DumbCount' >= Cardinality(Users) + DumbCount + (-1)
    BY <1>0, <2>2, <2>3, <2>5
  <2> QED
    BY <1>4, <2>6, UsedBoundKept
<1>8. CASE pollArrayEvent
  <2>1. poller.pc = "aloop" /\ Pool!putIOCB(Event.obj)
    BY <1>8 DEF pollArrayEvent
  <2>2. used' = used - 1
    BY <1>0, <2>1, PuttingHands DEF PollerShape
  <2>3. DoneCount = 0 /\ DoneCount' = 0
    BY <1>0, <1>8 DEF pollArrayEvent, DoneCount, PollerType, ContinueArray
  <2>4. ~stopOnDumb
    BY <2>1 DEF stopOnDumb
  <2>5. CASE Data \in Requests
    <3>1. Data \in Pending /\ Pending' = Pending \ {Data}
      BY <1>8, <2>5, PendingByPoller
    <3>2. Data \notin PrepRequests
      BY <1>2, <3>1 DEF Pending
    <3>3. Cardinality(Users') = Cardinality(Users) - 1
      <4>1. Data \in Users /\ Users' = Users \ {Data}
        BY <1>1, <3>1, <3>2 DEF Users
      <4> DEFINE d == Data
      <4>2. d \in Users /\ Users' = Users \ {d}
        BY <4>1
      <4> HIDE DEF d
      <4> QED
        BY <4>2, UsersShrink
    <3>4. Data # Dumb
      BY <2>5, ContextAssumption
    <3>5. /\ used' + DoneCount' <= used + DoneCount + (-1)
          /\ Cardinality(Users') + DumbCount' >= Cardinality(Users) + DumbCount + (-1)
      BY <1>0, <1>3, <2>2, <2>3, <2>4, <3>3, <3>4
    <3> QED
      BY <1>4, <3>5, UsedBoundKept
  <2>6. CASE Data \notin Requests
    <3>1. Users' = Users
      BY <1>1, <1>8, <2>6, PendingByPoller DEF Users
    <3>2. /\ used' + DoneCount' <= used + DoneCount + (-1)
          /\ Cardinality(Users') + DumbCount' >= Cardinality(Users) + DumbCount + (-1)
      BY <1>0, <2>2, <2>3, <3>1
    <3> QED
      BY <1>4, <3>2, UsedBoundKept
  <2> QED
    BY <2>5, <2>6
<1>9. CASE \/ poll \/ lockPoll \/ getEvents \/ getEventsFails \/ invalidRecord \/ release
           \/ pollArray \/ pollArrayGet \/ pollArrayFails \/ pollArrayReturn \/ pollArrayThrows
  <2>1. UNCHANGED used /\ poller.pc # "done"
    BY <1>9 DEF poll, lockPoll, getEvents, getEventsFails, invalidRecord, release, pollArray,
                pollArrayGet, pollArrayFails, pollArrayReturn, pollArrayThrows, poolVars
  <2>2. poller'.pc # "done"
    <3>1. CASE getEventsFails \/ pollArrayReturn \/ pollArrayThrows
      BY <3>1 DEF getEventsFails, pollArrayReturn, pollArrayThrows, IdlePoller
    <3>2. CASE \/ poll \/ lockPoll \/ getEvents \/ invalidRecord \/ release
               \/ pollArray \/ pollArrayGet \/ pollArrayFails
      BY <1>0, <3>2 DEF poll, lockPoll, getEvents, invalidRecord, release, pollArray,
                        pollArrayGet, pollArrayFails, PollerType, Continue, ContinueArray
    <3> QED
      BY <1>9, <3>1, <3>2
  <2>3. ~pollArrayEvent /\ ~infoDone /\ ~infoDoneFails
    BY <1>9, <2>1
       DEF poll, lockPoll, getEvents, getEventsFails, invalidRecord, release, pollArray,
           pollArrayGet, pollArrayFails, pollArrayReturn, pollArrayThrows, pollArrayEvent,
           infoDone, infoDoneFails
  <2>4. ~stopOnDumb
    BY <1>9 DEF poll, lockPoll, getEvents, getEventsFails, invalidRecord, release, pollArray,
                pollArrayGet, pollArrayFails, pollArrayReturn, pollArrayThrows, stopOnDumb
  <2>5. Users' = Users
    BY <1>1, <2>3, PendingByPoller DEF Users
  <2>6. /\ used' + DoneCount' <= used + DoneCount + 0
        /\ Cardinality(Users') + DumbCount' >= Cardinality(Users) + DumbCount + 0
    BY <1>0, <1>3, <2>1, <2>2, <2>3, <2>4, <2>5 DEF DoneCount
  <2> QED
    BY <1>4, <2>6, UsedBoundKept
<1> QED
  BY <1>5, <1>6, <1>7, <1>8, <1>9 DEF PollerAction, pollerStep

LEMMA CloserKeepsUsed ==
  ASSUME CoreInv, CoreInv', UsedBound, NEW c \in Closers, CloserAction(c)
  PROVE  UsedBound'
<1>0. /\ UNCHANGED <<sub, poller, outcome>>
      /\ DumbCount \in {0, 1} /\ DumbCount' \in {0, 1} /\ used \in Nat
      /\ Cardinality(Users) \in Nat /\ DoneCount \in {0, 1}
  BY CloserFrame, UsersCounted DEF DumbCount
<1>1. Users' = Users /\ DoneCount' = DoneCount
  BY <1>0 DEF Users, Pending, PrepRequests, DoneCount
<1>2. 0 \in Int /\ -1 \in Int /\ 1 \in Int
  OBVIOUS
<1>3. ASSUME used' = used - 1 PROVE UsedBound'
  <2>1. /\ used' + DoneCount' <= used + DoneCount + (-1)
        /\ Cardinality(Users') + DumbCount' >= Cardinality(Users) + DumbCount + (-1)
    BY <1>0, <1>1, <1>3
  <2> QED
    BY <1>2, <2>1, UsedBoundKept
<1>4. ASSUME used' = used, DumbCount' >= DumbCount PROVE UsedBound'
  <2>1. /\ used' + DoneCount' <= used + DoneCount + 0
        /\ Cardinality(Users') + DumbCount' >= Cardinality(Users) + DumbCount + 0
    BY <1>0, <1>1, <1>4
  <2> QED
    BY <1>2, <2>1, UsedBoundKept
<1>5. CASE deleteGet(c)
  <2>1. used' = used + 1 /\ DumbIocbs = {} /\ DumbIocbs' # {}
    BY <1>5, DeleteGetHands
  <2>2. ~DumbInFlight
    <3>1. closer[c].pc = "delete" /\ Busy(c)
      BY <1>5 DEF deleteGet, Busy
    <3>2. control # "freed" /\ \A d \in Closers : Busy(d) => d = c
      BY <3>1 DEF CoreInv, CloserShape
    <3> QED
      BY <3>1, <3>2 DEF CoreInv, CloserShape, Busy
  <2>3. /\ used' + DoneCount' <= used + DoneCount + 1
        /\ Cardinality(Users') + DumbCount' >= Cardinality(Users) + DumbCount + 1
    BY <1>0, <1>1, <2>1, <2>2 DEF DumbCount
  <2> QED
    BY <1>2, <2>3, UsedBoundKept
<1>6. CASE deleteSubmit(c)
  <2>1. /\ used' = used /\ closer[c].iocb \in kernel'
    BY <1>6, DeleteSubmitHands
  <2>2. aio'[closer[c].iocb].data = Dumb
    BY <1>6, DumbIocb DEF deleteSubmit
  <2>3. DumbInFlight'
    BY <2>1, <2>2 DEF DumbInFlight, InFlight
  <2>4. DumbCount' >= DumbCount
    BY <1>0, <2>3 DEF DumbCount
  <2> QED
    BY <1>4, <2>1, <2>4
<1>7. CASE deleteSubmitFails(c)
  BY <1>3, <1>7, DeleteSubmitFailsHands
<1>8. CASE \/ close(c) \/ drain(c) \/ drainTimeout(c) \/ deleteFull(c) \/ deleteWait(c)
           \/ deleteFree(c) \/ (deleteReap(c) /\ UNCHANGED <<ring, used>>)
  <2>1. UNCHANGED <<used, kernel, ring, aio>> /\ closer[c].pc # "dumb"
    BY <1>8 DEF close, drain, drainTimeout, deleteFull, deleteWait, deleteFree, deleteReap,
                poolVars
  <2>2. closer'[c].pc # "dumb" /\ \A d \in Closers \ {c} : closer'[d] = closer[d]
    <3>1. CASE drain(c)
      BY <3>1, CloserDrains DEF drain, CloserLabels, CoreInv, HasSemaphore
    <3>2. CASE \/ close(c) \/ drainTimeout(c) \/ deleteFull(c) \/ deleteWait(c)
               \/ deleteFree(c) \/ deleteReap(c)
      BY <3>2, ClosersMove DEF close, drainTimeout, deleteFull, deleteWait, deleteFree,
                               deleteReap, CloserLabels
    <3> QED
      BY <1>8, <3>1, <3>2
  <2>3. DumbIocbs' = DumbIocbs
    BY <2>1, <2>2, DumbRests
  <2>4. InFlight' = InFlight /\ (DumbInFlight' <=> DumbInFlight)
    BY <1>0, <2>1 DEF DumbInFlight, InFlight, Queued, Objs
  <2>5. DumbCount' >= DumbCount
    BY <1>0, <2>3, <2>4 DEF DumbCount
  <2> QED
    BY <1>4, <2>1, <2>5
<1>9. CASE deleteReap(c)
  BY <1>3, <1>8, <1>9, DeleteReapHands DEF poolVars
<1> QED
  BY <1>5, <1>6, <1>7, <1>8, <1>9 DEF CloserAction, closerStep

LEMMA NextKeepsUsedBound ==
  ASSUME CoreInv, UsedBound, [Next]_vars
  PROVE  UsedBound'
<1>1. CoreInv'
  BY NextKeepsCore
<1>2. ASSUME UNCHANGED vars PROVE UsedBound'
  <2>1. UNCHANGED <<used, poller, outcome, sub, closer, kernel, ring, aio>>
    BY <1>2 DEF vars, poolVars
  <2>2. DoneCount' = DoneCount /\ Users' = Users
    BY <2>1 DEF DoneCount, Users, Pending, PrepRequests
  <2>3. InFlight' = InFlight
    BY <2>1 DEF InFlight, Queued, Objs
  <2>4. DumbCount' = DumbCount
    BY <2>1, <2>3 DEF DumbCount, DumbInFlight, DumbIocbs
  <2> QED
    BY <2>1, <2>2, <2>4 DEF UsedBound
<1> QED
  BY <1>1, <1>2, NextByActor, SubmitterKeepsUsed, CompleteKeepsUsed, PollerKeepsUsed,
     CloserKeepsUsed

-------------------------------------------------------------------------------
(***************************************************************************)
(* The permits balance.                                                    *)
(***************************************************************************)

\* The permits of the callbacks that poll(callbacks) has taken off its batches,
\* about to be released or forfeited, and those of the closer.
InBatch ==
  (Returned - Len(poller.batch)) * (IF poller.pc \in {"aloop", "areturn"} THEN 1 ELSE 0)
Carried == forfeited + InBatch
Drained == IF \E c \in Closers : closer[c].drained THEN QueueSize ELSE 0

HolderOutcomes == {"inflight", "completed", "refused", "threw", "lost"}

\* Numbers there are.
LEMMA PermitsCounted ==
  ASSUME CoreInv
  PROVE  /\ PermitHolders \subseteq Requests /\ IsFiniteSet(PermitHolders)
         /\ Cardinality(PermitHolders) \in Nat
         /\ Carried \in Nat /\ Drained \in {0, QueueSize}
         /\ HasSemaphore => ioSpace \in Nat
<1>1. PermitHolders \subseteq Requests
  <2>1. \A s \in Submitters : sub[s].pc \in {"native", "prep"} => sub[s].req \in Requests
    BY DEF CoreInv, SubmittersTracked
  <2>2. poller.pc = "release" => poller.obj \in Requests
    BY DEF CoreInv, PollerTracked
  <2> QED
    BY <2>1, <2>2 DEF PermitHolders
<1>2. IsFiniteSet(PermitHolders) /\ Cardinality(PermitHolders) \in Nat
  BY <1>1, ContextAssumption, FS_Subset, FS_CardinalityType
<1>3. Carried \in Nat
  <2>1. poller \in PollerType /\ PollerShape
    BY DEF CoreInv, StateOK
  <2>2. Len(poller.batch) \in Nat /\ Returned \in Nat
    BY <2>1, LenProperties DEF PollerType, Returned
  <2>3. poller.pc \in {"aloop", "areturn"} => Len(poller.batch) <= Returned
    BY <2>1 DEF PollerShape
  <2> DEFINE L == Len(poller.batch) R == Returned
  <2>4. L \in Nat /\ R \in Nat /\ (poller.pc \in {"aloop", "areturn"} => L <= R)
    BY <2>2, <2>3
  <2>5. (R - L) * (IF poller.pc \in {"aloop", "areturn"} THEN 1 ELSE 0) \in Nat
    <3> HIDE DEF L, R
    <3> QED
      BY <2>4
  <2>6. forfeited \in Nat /\ InBatch \in Nat
    BY <2>5 DEF InBatch, CoreInv, StateOK
  <2> QED
    BY <2>6 DEF Carried
<1>4. HasSemaphore => ioSpace \in Nat
  BY DEF CoreInv, StateOK, HasSemaphore
<1> QED
  BY <1>1, <1>2, <1>3, <1>4 DEF Drained

LEMMA BalanceStays ==
  ASSUME NEW a \in Int, NEW b \in Int, NEW c \in Int, NEW d \in Int,
         NEW a1 \in Int, NEW b1 \in Int, NEW c1 \in Int, NEW d1 \in Int, NEW q \in Int,
         a + b + c + d = q, a1 + b1 + c1 + d1 = a + b + c + d
  PROVE  a1 + b1 + c1 + d1 = q
OBVIOUS

\* A step that moves permits loses none.
LEMMA PermitsMoved ==
  ASSUME CoreInv, CoreInv', PermitsConserved, HasSemaphore' <=> HasSemaphore,
         HasSemaphore =>
           ioSpace' + Cardinality(PermitHolders') + Carried' + Drained'
             = ioSpace + Cardinality(PermitHolders) + Carried + Drained
  PROVE  PermitsConserved'
<1> SUFFICES ASSUME HasSemaphore'
             PROVE  ioSpace' + Cardinality(PermitHolders') + Carried' + Drained' = QueueSize
  BY DEF PermitsConserved, InBatch, Carried, Drained
<1>1. HasSemaphore
  OBVIOUS
<1>2. ioSpace + Cardinality(PermitHolders) + Carried + Drained = QueueSize
  BY <1>1 DEF PermitsConserved, InBatch, Carried, Drained
<1>3. QueueSize \in Nat
  BY ContextAssumption
<1>4. /\ ioSpace \in Int /\ Cardinality(PermitHolders) \in Int
      /\ Carried \in Int /\ Drained \in Int
  BY <1>1, <1>3, PermitsCounted
<1>5. ioSpace' \in Int
  BY DEF CoreInv, StateOK, HasSemaphore
<1>6. Cardinality(PermitHolders') \in Int
  <2>1. \A s \in Submitters : sub'[s].pc \in {"native", "prep"} => sub'[s].req \in Requests
    BY DEF CoreInv, SubmittersTracked
  <2>2. poller'.pc = "release" => poller'.obj \in Requests
    BY DEF CoreInv, PollerTracked
  <2>3. PermitHolders' \subseteq Requests
    BY <2>1, <2>2 DEF PermitHolders
  <2>4. Cardinality(PermitHolders') \in Nat
    BY <2>3, ContextAssumption, FS_Subset, FS_CardinalityType
  <2> QED
    BY <2>4
<1>7. Carried' \in Int
  <2>1. poller' \in PollerType
    BY DEF CoreInv, StateOK
  <2>2. Len(poller'.batch) \in Nat /\ Returned' \in Int
    BY <2>1, LenProperties DEF PollerType, Returned
  <2> DEFINE L == Len(poller'.batch) R == Returned'
  <2>3. L \in Int /\ R \in Int
    BY <2>2
  <2>4. (R - L) * (IF poller'.pc \in {"aloop", "areturn"} THEN 1 ELSE 0) \in Int
    <3> HIDE DEF L, R
    <3> QED
      BY <2>3
  <2>5. forfeited' \in Nat /\ InBatch' \in Int
    BY <2>4 DEF InBatch, CoreInv, StateOK
  <2> QED
    BY <2>5 DEF Carried
<1>8. Drained' \in Int
  BY <1>3 DEF Drained
<1> QED
  BY <1>1, <1>2, <1>3, <1>4, <1>5, <1>6, <1>7, <1>8, BalanceStays

\* Who has a permit.
LEMMA HolderIs ==
  ASSUME NEW r
  PROVE  r \in PermitHolders <=>
           \/ r \in Requests /\ outcome[r] \in HolderOutcomes
           \/ \E s \in Submitters : sub[s].pc \in {"native", "prep"} /\ sub[s].req = r
           \/ poller.pc = "release" /\ poller.obj = r
BY DEF PermitHolders, HolderOutcomes

LEMMA HolderIsThen ==
  ASSUME NEW r
  PROVE  r \in PermitHolders' <=>
           \/ r \in Requests /\ outcome'[r] \in HolderOutcomes
           \/ \E s \in Submitters : sub'[s].pc \in {"native", "prep"} /\ sub'[s].req = r
           \/ poller'.pc = "release" /\ poller'.obj = r
BY DEF PermitHolders, HolderOutcomes

\* A submitter's step concerns its own request.
LEMMA OtherHolders ==
  ASSUME CoreInv, NEW s \in Submitters, NEW r0, UNCHANGED poller,
         \A t \in Submitters \ {s} : sub'[t] = sub[t],
         \A r \in Requests \ {r0} : outcome'[r] = outcome[r],
         sub[s].pc # "idle" => sub[s].req = r0,
         sub'[s].pc # "idle" => sub'[s].req = r0
  PROVE  \A r : r # r0 => (r \in PermitHolders' <=> r \in PermitHolders)
<1> SUFFICES ASSUME NEW r, r # r0 PROVE r \in PermitHolders' <=> r \in PermitHolders
  OBVIOUS
<1>1. r \in Requests => outcome'[r] = outcome[r]
  OBVIOUS
<1>2. (\E t \in Submitters : sub'[t].pc \in {"native", "prep"} /\ sub'[t].req = r)
        <=> (\E t \in Submitters : sub[t].pc \in {"native", "prep"} /\ sub[t].req = r)
  OBVIOUS
<1> QED
  BY <1>1, <1>2, HolderIs, HolderIsThen

LEMMA SubmitterKeepsPermits ==
  ASSUME CoreInv, CoreInv', PermitsConserved, HasSemaphore' <=> HasSemaphore,
         NEW s \in Submitters, SubmitterAction(s)
  PROVE  PermitsConserved'
<1>0. UNCHANGED <<poller, closer, forfeited>> /\ StateOK /\ sub \in [Submitters -> SubmitterType]
      /\ outcome \in [Requests -> Outcomes]
  BY SubmitterFrame DEF CoreInv, StateOK
<1>1. Carried' = Carried /\ Drained' = Drained
  BY <1>0 DEF Carried, InBatch, Drained, Returned
<1>2. ASSUME PermitHolders' = PermitHolders, UNCHANGED ioSpace PROVE PermitsConserved'
  BY <1>1, <1>2, PermitsMoved
<1>3. CASE submitWrite(s) \/ submitRead(s)
  <2>1. PICK r0 \in Requests : startSubmit(s, r0)
    BY <1>3, ContextAssumption DEF submitWrite, submitRead
  <2>2. /\ sub[s].pc = "idle" /\ UNCHANGED ioSpace
        /\ sub'[s].pc # "idle" => sub'[s].req = r0 /\ sub'[s].pc = "acquire"
        /\ \A t \in Submitters \ {s} : sub'[t] = sub[t]
        /\ \A r \in Requests \ {r0} : outcome'[r] = outcome[r]
        /\ outcome[r0] = "new" /\ outcome'[r0] \in {"rejected", "submitting"}
    BY <1>0, <2>1 DEF startSubmit
  <2>3. \A t \in Submitters : sub[t].pc \in {"native", "prep"} => t # s /\ sub[t].req # r0
    BY <2>2 DEF CoreInv, SubmittersTracked
  <2>4. ~(poller.pc = "release" /\ poller.obj = r0)
    BY <2>2 DEF CoreInv, PollerTracked
  <2>5. r0 \notin PermitHolders
    BY <2>2, <2>3, <2>4, HolderIs DEF HolderOutcomes
  <2>6. r0 \notin PermitHolders'
    BY <1>0, <2>2, <2>3, <2>4, HolderIsThen DEF HolderOutcomes
  <2>7. \A r : r # r0 => (r \in PermitHolders' <=> r \in PermitHolders)
    BY <1>0, <2>2, OtherHolders
  <2>8. PermitHolders' = PermitHolders
    BY <2>5, <2>6, <2>7
  <2> QED
    BY <1>2, <2>2, <2>8
<1> DEFINE r0 == sub[s].req
<1>4. CASE \/ acquire(s) \/ acquireInterrupted(s) \/ nativeFull(s) \/ nativeGet(s)
           \/ nativeSubmit(s) \/ nativeSubmitFails(s)
  <2>1. sub[s].pc # "idle"
    BY <1>4 DEF acquire, acquireInterrupted, nativeFull, nativeGet, nativeSubmit,
                nativeSubmitFails
  <2>2. /\ r0 \in Requests /\ outcome[r0] = "submitting"
        /\ \A t \in Submitters \ {s} : sub[t].pc # "idle" => sub[t].req # r0
    BY <2>1 DEF CoreInv, SubmittersTracked
  <2>3. ~(poller.pc = "release" /\ poller.obj = r0)
    BY <2>2 DEF CoreInv, PollerTracked
  <2>4. r0 \in PermitHolders <=> sub[s].pc \in {"native", "prep"}
    BY <2>2, <2>3, HolderIs DEF HolderOutcomes
  <2>5. CASE acquire(s) \/ nativeGet(s)
    <3>1. /\ sub'[s].pc \in {"native", "prep"} /\ sub'[s].req = r0
          /\ \A t \in Submitters \ {s} : sub'[t] = sub[t]
      <4>1. CASE acquire(s)
        BY <1>0, <4>1, SubmitterGoes DEF acquire, SubmitterLabels
      <4>2. CASE nativeGet(s)
        BY <4>2, NativeGetHands
      <4> QED
        BY <2>5, <4>1, <4>2
    <3>2. UNCHANGED outcome
      BY <2>5 DEF acquire, nativeGet
    <3>3. \A r : r # r0 => (r \in PermitHolders' <=> r \in PermitHolders)
      <4> HIDE DEF r0
      <4>1. sub[s].req = r0
        BY DEF r0
      <4> QED
        BY <1>0, <3>1, <3>2, <4>1, OtherHolders
    <3>4. r0 \in PermitHolders'
      BY <3>1, HolderIsThen
    <3>5. CASE nativeGet(s)
      <4>1. sub[s].pc = "native" /\ UNCHANGED ioSpace
        BY <3>5 DEF nativeGet
      <4>2. PermitHolders' = PermitHolders
        BY <2>4, <3>3, <3>4, <4>1
      <4> QED
        BY <1>2, <4>1, <4>2
    <3>6. CASE acquire(s)
      <4>1. sub[s].pc = "acquire" /\ (HasSemaphore => ioSpace' = ioSpace - 1)
        BY <3>6 DEF acquire
      <4>2. PermitHolders' = PermitHolders \cup {r0} /\ r0 \notin PermitHolders
        BY <2>4, <3>3, <3>4, <4>1
      <4>3. Cardinality(PermitHolders') = Cardinality(PermitHolders) + 1
        <5> HIDE DEF r0
        <5> QED
          BY <4>2, PermitsCounted, FS_AddElement
      <4>4. HasSemaphore => ioSpace' + Cardinality(PermitHolders') = ioSpace + Cardinality(PermitHolders)
        BY <4>1, <4>3, PermitsCounted
      <4> QED
        BY <1>1, <4>4, PermitsMoved
    <3> QED
      BY <2>5, <3>5, <3>6
  <2>6. CASE acquireInterrupted(s) \/ nativeFull(s) \/ nativeSubmit(s) \/ nativeSubmitFails(s)
    <3>1. sub' = [sub EXCEPT ![s] = IdleSubmitter] /\ UNCHANGED ioSpace
      BY <2>6 DEF acquireInterrupted, nativeFull, nativeSubmit, nativeSubmitFails, Reject
    <3>2. sub'[s].pc = "idle" /\ \A t \in Submitters \ {s} : sub'[t] = sub[t]
      BY <1>0, <3>1, SubmitterReturns
    <3>3. \A r \in Requests \ {r0} : outcome'[r] = outcome[r]
      BY <1>0, <2>6 DEF acquireInterrupted, nativeFull, nativeSubmit, nativeSubmitFails, Reject
    <3>4. IF sub[s].pc \in {"native", "prep"} THEN outcome'[r0] \in HolderOutcomes
                                              ELSE outcome'[r0] = "rejected"
      BY <1>0, <2>2, <2>6 DEF acquireInterrupted, nativeFull, nativeSubmit, nativeSubmitFails,
                              Reject, HolderOutcomes
    <3>5. \A r : r # r0 => (r \in PermitHolders' <=> r \in PermitHolders)
      <4> HIDE DEF r0
      <4>1. sub[s].req = r0
        BY DEF r0
      <4> QED
        BY <1>0, <3>2, <3>3, <4>1, OtherHolders
    <3>6. r0 \in PermitHolders' <=> sub[s].pc \in {"native", "prep"}
      <4>1. \A t \in Submitters : sub'[t].pc \in {"native", "prep"} => sub'[t].req # r0
        BY <2>2, <3>2
      <4>2. r0 \in PermitHolders' <=> outcome'[r0] \in HolderOutcomes
        BY <1>0, <2>2, <2>3, <4>1, HolderIsThen
      <4> QED
        BY <3>4, <4>2 DEF HolderOutcomes
    <3>7. PermitHolders' = PermitHolders
      BY <2>4, <3>5, <3>6
    <3> QED
      BY <1>2, <3>1, <3>7
  <2> QED
    BY <1>4, <2>5, <2>6
<1> QED
  BY <1>3, <1>4 DEF SubmitterAction, submitterStep

LEMMA CompleteKeepsPermits ==
  ASSUME CoreInv, CoreInv', PermitsConserved, HasSemaphore' <=> HasSemaphore,
         NEW i \in Iocbs, NEW res \in {"ok", "error"}, complete(i, res)
  PROVE  PermitsConserved'
<1>0. UNCHANGED <<sub, poller, closer, ioSpace, forfeited>> /\ outcome \in [Requests -> Outcomes]
      /\ i \in kernel
  BY DEF complete, CoreInv, StateOK
<1>1. Carried' = Carried /\ Drained' = Drained
  BY <1>0 DEF Carried, InBatch, Drained, Returned
<1>2. \A r \in Requests : outcome'[r] \in HolderOutcomes <=> outcome[r] \in HolderOutcomes
  <2>1. aio[i].data \in Requests => outcome[aio[i].data] = "inflight"
    BY <1>0 DEF CoreInv, IocbsTracked
  <2> QED
    BY <1>0, <2>1 DEF complete, HolderOutcomes
<1>3. PermitHolders' = PermitHolders
  <2>1. ASSUME NEW r PROVE r \in PermitHolders' <=> r \in PermitHolders
    BY <1>0, <1>2, HolderIs, HolderIsThen
  <2> QED
    BY <2>1
<1> QED
  BY <1>0, <1>1, <1>3, PermitsMoved

LEMMA NothingCarried ==
  ASSUME poller \in PollerType, forfeited \in Nat
  PROVE  /\ poller.pc \notin {"aloop", "areturn"} => Carried = forfeited
         /\ poller.pc \in {"aloop", "areturn"} =>
              Carried = forfeited + (Returned - Len(poller.batch))
<1>1. Len(poller.batch) \in Nat /\ Returned \in Int
  BY LenProperties DEF PollerType, Returned
<1> DEFINE n == Returned - Len(poller.batch)
<1>2. n \in Int
  BY <1>1
<1>3. n * 0 = 0 /\ n * 1 = n
  <2> HIDE DEF n
  <2> QED
    BY <1>2
<1> QED
  BY <1>2, <1>3 DEF Carried, InBatch

LEMMA NothingCarriedThen ==
  ASSUME poller' \in PollerType, forfeited' \in Nat
  PROVE  /\ poller'.pc \notin {"aloop", "areturn"} => Carried' = forfeited'
         /\ poller'.pc \in {"aloop", "areturn"} =>
              Carried' = forfeited' + (Returned' - Len(poller'.batch))
<1>1. Len(poller'.batch) \in Nat /\ Returned' \in Int
  BY LenProperties DEF PollerType, Returned
<1> DEFINE n == Returned' - Len(poller'.batch)
<1>2. n \in Int
  BY <1>1
<1>3. n * 0 = 0 /\ n * 1 = n
  <2> HIDE DEF n
  <2> QED
    BY <1>2
<1> QED
  BY <1>2, <1>3 DEF Carried, InBatch

LEMMA HandledIsNext ==
  ASSUME poller \in PollerType, handleEvent
  PROVE  poller'.pc = "done"
BY DEF handleEvent, PollerType

LEMMA PollerKeepsPermits ==
  ASSUME CoreInv, CoreInv', PermitsConserved, HasSemaphore' <=> HasSemaphore, PollerAction,
         poller.pc = "aloop" => \A i \in Objs(poller.batch) : aio[i].data \in Requests
  PROVE  PermitsConserved'
<1>0. /\ UNCHANGED <<sub, closer>> /\ poller \in PollerType /\ poller' \in PollerType
      /\ outcome \in [Requests -> Outcomes] /\ PollerShape /\ StateOK /\ ring \in Seq(Events)
      /\ forfeited \in Nat /\ forfeited' \in Nat
  BY PollerFrame DEF CoreInv, StateOK
<1>1. Drained' = Drained
  BY <1>0 DEF Drained
<1>2. ASSUME PermitHolders' = PermitHolders, UNCHANGED ioSpace, Carried' = Carried
      PROVE  PermitsConserved'
  BY <1>1, <1>2, PermitsMoved
<1>3. CASE \/ poll \/ lockPoll \/ getEvents \/ getEventsFails \/ stopOnDumb \/ handleEvent
           \/ invalidRecord \/ pollArray
  <2>1. /\ UNCHANGED <<ioSpace, forfeited, outcome>>
        /\ poller.pc \notin {"release", "aloop", "areturn"}
    BY <1>3 DEF poll, lockPoll, getEvents, getEventsFails, stopOnDumb, handleEvent,
                invalidRecord, pollArray
  <2>2. poller'.pc \notin {"release", "aloop", "areturn"}
    <3>1. CASE getEventsFails \/ stopOnDumb
      BY <3>1 DEF getEventsFails, stopOnDumb, IdlePoller
    <3>2. CASE poll \/ lockPoll \/ getEvents \/ invalidRecord \/ pollArray
      BY <1>0, <3>2 DEF poll, lockPoll, getEvents, invalidRecord, pollArray, PollerType,
                        Continue
    <3>3. CASE handleEvent
      BY <1>0, <3>3, HandledIsNext
    <3> QED
      BY <1>3, <3>1, <3>2, <3>3
  <2>3. PermitHolders' = PermitHolders
    BY <1>0, <2>1, <2>2 DEF PermitHolders
  <2> QED
    BY <1>0, <1>2, <2>1, <2>2, <2>3, NothingCarried, NothingCarriedThen
<1>4. CASE pollArrayGet \/ pollArrayFails
  <2>1. UNCHANGED <<ioSpace, forfeited, outcome>> /\ poller.pc = "aevents"
    BY <1>4 DEF pollArrayGet, pollArrayFails
  <2>2. poller'.pc \in {"aloop", "areturn"}
    BY <1>0, <1>4 DEF pollArrayGet, pollArrayFails, PollerType, ContinueArray
  <2>3. PermitHolders' = PermitHolders
    BY <1>0, <2>1, <2>2 DEF PermitHolders
  <2>4. Returned' = Len(poller'.batch)
    <3>1. CASE pollArrayGet
      <4>1. poller'.batch = Taken(PollMax) /\ poller'.result = Count(PollMax)
        BY <1>0, <3>1 DEF pollArrayGet, PollerType
      <4>2. Len(Taken(PollMax)) = Count(PollMax) /\ Count(PollMax) \in Nat
        BY <1>0, ContextAssumption, TakenEvents
      <4> QED
        BY <4>1, <4>2 DEF Returned
    <3>2. CASE pollArrayFails
      <4>1. poller.batch = <<>>
        BY <1>0, <2>1 DEF PollerShape
      <4>2. poller'.batch = <<>> /\ poller'.result = -1
        BY <1>0, <3>2, <4>1 DEF pollArrayFails, PollerType
      <4> QED
        BY <4>2 DEF Returned
    <3> QED
      BY <1>4, <3>1, <3>2
  <2>5. Len(poller'.batch) \in Nat
    BY <1>0, LenProperties DEF PollerType
  <2>6. Carried = forfeited /\ Carried' = forfeited' + (Returned' - Len(poller'.batch))
    BY <1>0, <2>1, <2>2, NothingCarried, NothingCarriedThen
  <2>7. Carried' = Carried
    BY <1>0, <2>1, <2>4, <2>5, <2>6
  <2> QED
    BY <1>2, <2>1, <2>3, <2>7
<1>5. CASE pollArrayReturn \/ pollArrayThrows
  <2>1. /\ UNCHANGED outcome /\ poller.pc = "areturn"
        /\ \/ ioSpace' = Released(Returned) /\ forfeited' = forfeited
           \/ ioSpace' = ioSpace /\ forfeited' = forfeited + Returned
    BY <1>5 DEF pollArrayReturn, pollArrayThrows
  <2>2. poller'.pc = "idle"
    BY <1>5 DEF pollArrayReturn, pollArrayThrows, IdlePoller
  <2>3. PermitHolders' = PermitHolders
    BY <1>0, <2>1, <2>2 DEF PermitHolders
  <2>4. poller.batch = <<>>
    BY <1>0, <2>1 DEF PollerShape
  <2>5. Len(poller.batch) = 0 /\ Returned \in Nat
    BY <1>0, <2>4, EmptySeq DEF PollerType, Returned
  <2>6. Carried' = forfeited' /\ Carried = forfeited + Returned
    BY <1>0, <2>1, <2>2, <2>5, NothingCarried, NothingCarriedThen
  <2>7. HasSemaphore => ioSpace' + forfeited' = ioSpace + (forfeited + Returned)
    BY <1>0, <2>1, <2>5, PermitsCounted DEF Released
  <2>8. HasSemaphore =>
          ioSpace' + Cardinality(PermitHolders') + Carried' = ioSpace + Cardinality(PermitHolders) + Carried
    <3>1. ASSUME HasSemaphore
          PROVE  ioSpace \in Int /\ ioSpace' \in Int /\ Cardinality(PermitHolders) \in Int
      BY <1>0, <3>1, PermitsCounted DEF CoreInv, StateOK, HasSemaphore
    <3> QED
      BY <1>0, <2>3, <2>5, <2>6, <2>7, <3>1
  <2> QED
    BY <1>1, <2>8, PermitsMoved
<1>6. CASE release
  <2>1. /\ UNCHANGED <<forfeited, outcome>> /\ poller.pc = "release"
        /\ ioSpace' = Released(1)
    BY <1>6 DEF release
  <2>2. poller'.pc \in {"events", "loop"}
    BY <1>0, <1>6 DEF release, PollerType, Continue
  <2>3. poller.obj \in Requests /\ outcome[poller.obj] = "done"
    BY <2>1 DEF CoreInv, PollerTracked
  <2>4. \A s \in Submitters : sub[s].pc \in {"native", "prep"} => sub[s].req # poller.obj
    BY <2>3 DEF CoreInv, SubmittersTracked
  <2>5. PermitHolders' = PermitHolders \ {poller.obj} /\ poller.obj \in PermitHolders
    BY <1>0, <2>1, <2>2, <2>3, <2>4 DEF PermitHolders
  <2>6. Cardinality(PermitHolders') = Cardinality(PermitHolders) - 1
    BY <2>5, PermitsCounted, FS_RemoveElement
  <2>7. Carried' = Carried
    BY <1>0, <2>1, <2>2, NothingCarried, NothingCarriedThen
  <2>8. HasSemaphore => ioSpace' = ioSpace + 1
    BY <2>1 DEF Released
  <2>9. HasSemaphore =>
          ioSpace' + Cardinality(PermitHolders') + Carried' = ioSpace + Cardinality(PermitHolders) + Carried
    BY <2>6, <2>7, <2>8, PermitsCounted
  <2> QED
    BY <1>1, <2>9, PermitsMoved
<1>7. CASE infoDone \/ infoDoneFails
  <2>1. poller.pc = "done" /\ UNCHANGED <<ioSpace, forfeited>>
    BY <1>7 DEF infoDone, infoDoneFails
  <2>2. poller.obj \in Requests /\ outcome[poller.obj] = "completed"
    BY <2>1 DEF CoreInv, PollerTracked
  <2>3. \A r \in Requests \ {poller.obj} : outcome'[r] = outcome[r]
    BY <1>0, <1>7 DEF infoDone, infoDoneFails, Tell
  <2>4. \/ outcome'[poller.obj] = "done" /\ poller'.pc = "release" /\ poller'.obj = poller.obj
        \/ outcome'[poller.obj] \in {"threw", "lost"} /\ poller'.pc \in {"events", "loop"}
    BY <1>0, <1>7, <2>2 DEF infoDone, infoDoneFails, Tell, PollerType, Continue
  <2>5. PermitHolders' = PermitHolders
    <3>1. ASSUME NEW r, r # poller.obj PROVE r \in PermitHolders' <=> r \in PermitHolders
      BY <1>0, <2>1, <2>3, <2>4, <3>1, HolderIs, HolderIsThen
    <3>2. poller.obj \in PermitHolders
      BY <2>2, HolderIs DEF HolderOutcomes
    <3>3. poller.obj \in PermitHolders'
      <4> DEFINE o == poller.obj
      <4>1. \/ poller'.pc = "release" /\ poller'.obj = o
            \/ o \in Requests /\ outcome'[o] \in HolderOutcomes
        BY <2>2, <2>4 DEF HolderOutcomes
      <4> HIDE DEF o
      <4>2. o \in PermitHolders'
        BY <4>1, HolderIsThen
      <4> QED
        BY <4>2 DEF o
    <3> QED
      BY <3>1, <3>2, <3>3
  <2>6. Carried' = Carried
    BY <1>0, <2>1, <2>4, NothingCarried, NothingCarriedThen
  <2> QED
    BY <1>2, <2>1, <2>5, <2>6
<1>8. CASE pollArrayEvent
  <2>1. poller.pc = "aloop" /\ UNCHANGED <<ioSpace, forfeited>>
    BY <1>8 DEF pollArrayEvent
  <2>2. poller.batch # <<>>
    BY <1>0, <2>1 DEF PollerShape
  <2>3. Event.obj \in Objs(poller.batch) /\ Len(Tail(poller.batch)) = Len(poller.batch) - 1
    BY <2>2, CurrentEvent
  <2>4. Data \in Requests
    BY <2>1, <2>3 DEF Data
  <2>5. outcome[Data] = "completed"
    BY <2>2, <2>4, CurrentEvent
  <2> DEFINE d == Data
  <2>6. d \in Requests /\ outcome[d] = "completed"
    BY <2>4, <2>5
  <2>7. outcome' = [outcome EXCEPT ![d] = "delivered"]
    BY <1>8, <2>4, <2>5 DEF pollArrayEvent, Tell
  <2>8. /\ poller'.pc \in {"aloop", "areturn"} /\ poller'.batch = Tail(poller.batch)
        /\ Returned' = Returned
    BY <1>0, <1>8 DEF pollArrayEvent, PollerType, ContinueArray, Returned
  <2> HIDE DEF d
  <2>9. \A s \in Submitters : sub[s].pc \in {"native", "prep"} => sub[s].req # d
    BY <2>6 DEF CoreInv, SubmittersTracked
  <2>10. PermitHolders' = PermitHolders \ {d} /\ d \in PermitHolders
    BY <1>0, <2>1, <2>6, <2>7, <2>8, <2>9 DEF PermitHolders
  <2>11. Cardinality(PermitHolders') = Cardinality(PermitHolders) - 1
    BY <2>10, PermitsCounted, FS_RemoveElement
  <2>12. Len(poller.batch) \in Nat /\ Returned \in Int
    BY <1>0, LenProperties DEF PollerType, Returned
  <2>13. Carried' = Carried + 1
    <3>1. Carried = forfeited + (Returned - Len(poller.batch))
      BY <1>0, <2>1, NothingCarried
    <3>2. Carried' = forfeited + (Returned - (Len(poller.batch) - 1))
      BY <1>0, <2>1, <2>3, <2>8, NothingCarriedThen
    <3> QED
      BY <1>0, <2>12, <3>1, <3>2
  <2>14. HasSemaphore =>
          ioSpace' + Cardinality(PermitHolders') + Carried' = ioSpace + Cardinality(PermitHolders) + Carried
    BY <2>1, <2>11, <2>13, PermitsCounted
  <2> QED
    BY <1>1, <2>14, PermitsMoved
<1> QED
  BY <1>3, <1>4, <1>5, <1>6, <1>7, <1>8 DEF PollerAction, pollerStep

LEMMA CloserKeepsPermits ==
  ASSUME CoreInv, CoreInv', PermitsConserved, HasSemaphore' <=> HasSemaphore,
         NEW c \in Closers, CloserAction(c)
  PROVE  PermitsConserved'
<1>0. UNCHANGED <<sub, poller, forfeited, outcome>> /\ QueueSize \in Nat
  BY CloserFrame, ContextAssumption
<1>1. PermitHolders' = PermitHolders /\ Carried' = Carried
  BY <1>0 DEF PermitHolders, Carried, InBatch, Returned
<1>2. CASE drain(c)
  <2>1. closer' = [closer EXCEPT ![c].pc = "delete", ![c].drained = HasSemaphore]
    BY <1>2 DEF drain
  <2>2. HasSemaphore => closer'[c].drained
    BY <2>1, CloserDrains DEF CloserLabels, CoreInv, HasSemaphore
  <2>3. HasSemaphore => Drained' = QueueSize
    BY <2>2 DEF Drained
  <2>4. closer[c].pc = "drain" /\ Busy(c) /\ ~closer[c].drained
    BY <1>2 DEF drain, Busy, CoreInv, CloserShape
  <2>5. \A d \in Closers : ~closer[d].drained
    BY <2>4 DEF CoreInv, CloserShape
  <2>6. Drained = 0
    BY <2>5 DEF Drained
  <2>7. HasSemaphore => ioSpace' = ioSpace - QueueSize
    BY <1>2 DEF drain, PermitsAsked
  <2>8. HasSemaphore =>
          ioSpace' + Cardinality(PermitHolders') + Carried' + Drained'
            = ioSpace + Cardinality(PermitHolders) + Carried + Drained
    BY <1>0, <1>1, <2>3, <2>6, <2>7, PermitsCounted
  <2> QED
    BY <2>8, PermitsMoved
<1>3. CASE ~drain(c)
  <2>1. UNCHANGED ioSpace
    BY <1>3 DEF CloserAction, closerStep, close, drainTimeout, deleteGet, deleteFull,
                deleteSubmit, deleteSubmitFails, deleteWait, deleteReap, deleteFree
  <2>2. \A d \in Closers : closer'[d].drained = closer[d].drained
    <3>1. CASE deleteGet(c)
      BY <3>1, DeleteGetHands
    <3>2. CASE ~deleteGet(c)
      <4>1. PICK l \in CloserLabels : Goto(c, l)
        BY <1>3, <3>2 DEF CloserAction, closerStep, close, drainTimeout, deleteFull,
                deleteSubmit, deleteSubmitFails, deleteWait, deleteReap, deleteFree, CloserLabels
      <4> QED
        BY <4>1, ClosersMove
    <3> QED
      BY <3>1, <3>2
  <2>3. Drained' = Drained
    BY <2>2 DEF Drained
  <2> QED
    BY <1>1, <2>1, <2>3, PermitsMoved
<1> QED
  BY <1>2, <1>3

-------------------------------------------------------------------------------
(***************************************************************************)
(* With all the permits, the closer is alone.                              *)
(***************************************************************************)
LEMMA Quiet ==
  ASSUME CoreInv, PermitsKept, PermitsRule, Gone
  PROVE  /\ Pending = {} /\ \A s \in Submitters : sub[s].pc \notin {"native", "prep"}
         /\ poller.pc \notin {"aevents", "aloop", "done"}
         /\ HasSemaphore => ioSpace = 0
<1>0. CloserShape /\ PollerShape /\ PollerTracked /\ poller \in PollerType
  BY DEF CoreInv, StateOK
<1>1. closed
  BY <1>0 DEF Gone, PastDrain, CloserShape
<1>2. CASE ~HasSemaphore
  <2>1. Pending = {} /\ \A s \in Submitters : sub[s].pc = "idle"
    BY <1>0, <1>1, <1>2 DEF CloserShape
  <2>2. poller.pc \notin {"aevents", "aloop"}
    BY <1>0, <1>1, <1>2 DEF CloserShape
  <2>3. poller.pc # "done"
    BY <1>0, <2>1 DEF PollerTracked, Pending
  <2> QED
    BY <1>2, <2>1, <2>2, <2>3
<1>3. CASE HasSemaphore
  <2>1. \E c \in Closers : closer[c].drained
    BY <1>0, <1>3 DEF CloserShape, PermitsRule
  <2>2. Drained = QueueSize
    BY <2>1 DEF Drained
  <2>3. ioSpace + Cardinality(PermitHolders) + Carried + Drained = QueueSize
    BY <1>3 DEF PermitsKept, PermitsRule, PermitsConserved, InBatch, Carried, Drained
  <2>4. ioSpace = 0 /\ Cardinality(PermitHolders) = 0
    BY <1>3, <2>2, <2>3, PermitsCounted, ContextAssumption
  <2>5. PermitHolders = {}
    BY <2>4, PermitsCounted, FS_EmptySet
  <2>6. Pending = {} /\ \A s \in Submitters : sub[s].pc \notin {"native", "prep"}
    BY <2>5 DEF PermitHolders, Pending
  <2>7. poller.pc \notin {"aevents", "done"}
    BY <1>0, <2>6 DEF PollerTracked, Pending
  <2>8. poller.pc # "aloop"
    <3>1. SUFFICES ASSUME poller.pc = "aloop" PROVE FALSE
      OBVIOUS
    <3>2. poller.batch # <<>>
      BY <1>0, <3>1 DEF PollerShape
    <3>3. Event.obj \in Objs(poller.batch) /\ (Data \in Requests => outcome[Data] = "completed")
      BY <3>2, CurrentEvent
    <3>4. Data \in Requests
      BY <3>1, <3>3 DEF PermitsKept, PermitsRule, Data
    <3> QED
      BY <2>6, <3>3, <3>4 DEF Pending
  <2> QED
    BY <2>4, <2>6, <2>7, <2>8
<1> QED
  BY <1>2, <1>3

\* The dumb write flies only when the closer is alone.
LEMMA DumbMeansGone ==
  ASSUME CoreInv, DumbInFlight \/ DumbIocbs # {}
  PROVE  Gone
BY DEF CoreInv, CloserShape, Gone, PastDrain, DumbIocbs

LEMMA NextKeepsPermits ==
  ASSUME CoreInv, PermitsKept, [Next]_vars
  PROVE  PermitsKept'
<1> SUFFICES ASSUME PermitsCount
             PROVE  /\ PermitsConserved'
                    /\ poller'.pc = "aloop" =>
                         \A i \in Objs(poller'.batch) : aio'[i].data \in Requests
  BY DEF PermitsKept, PermitsCount, Objs
<1>0. /\ CoreInv' /\ (HasSemaphore' <=> HasSemaphore) /\ PermitsConserved
      /\ poller.pc = "aloop" => \A i \in Objs(poller.batch) : aio[i].data \in Requests
  BY NextKeepsCore, SemaphoreStays DEF PermitsKept
<1>1. PermitsConserved'
  <2>1. ASSUME UNCHANGED vars PROVE PermitsConserved'
    BY <1>0, <2>1 DEF vars, PermitsConserved, PermitHolders, Returned, HasSemaphore
  <2> QED
    BY <1>0, <2>1, NextByActor, SubmitterKeepsPermits, CompleteKeepsPermits,
       PollerKeepsPermits, CloserKeepsPermits
<1>2. ASSUME poller'.pc = "aloop", UNCHANGED poller, \A i \in InFlight : aio'[i] = aio[i]
      PROVE  \A i \in Objs(poller'.batch) : aio'[i].data \in Requests
  BY <1>0, <1>2 DEF InFlight, Queued
<1>3. ASSUME poller'.pc = "aloop"
      PROVE  \A i \in Objs(poller'.batch) : aio'[i].data \in Requests
  <2>1. ASSUME NEW s \in Submitters, SubmitterAction(s)
        PROVE  UNCHANGED poller /\ \A i \in InFlight : aio'[i] = aio[i]
    BY <2>1, SubmitterFrame, SubmitterFlight
  <2>2. ASSUME NEW i \in Iocbs, NEW res \in {"ok", "error"}, complete(i, res)
        PROVE  UNCHANGED <<poller, aio>>
    BY <2>2 DEF complete
  <2>3. ASSUME NEW c \in Closers, CloserAction(c)
        PROVE  UNCHANGED poller /\ \A i \in InFlight : aio'[i] = aio[i]
    <3>1. UNCHANGED poller
      BY <2>3, CloserFrame
    <3>2. CASE deleteSubmit(c) \/ deleteSubmitFails(c)
      BY <3>1, <3>2, DumbIocb DEF deleteSubmit, deleteSubmitFails
    <3>3. CASE ~(deleteSubmit(c) \/ deleteSubmitFails(c))
      BY <2>3, <3>1, <3>3 DEF CloserAction, closerStep, close, drain, drainTimeout, deleteGet,
                              deleteFull, deleteWait, deleteReap, deleteFree
    <3> QED
      BY <3>2, <3>3
  <2>4. ASSUME PollerAction PROVE \A i \in Objs(poller'.batch) : aio'[i].data \in Requests
    <3>0. /\ poller \in PollerType /\ PollerShape /\ poller' \in PollerType
          /\ \A i \in InFlight' : aio'[i] = aio[i]
      BY <1>0, <2>4, PollerFlight DEF CoreInv, StateOK
    <3>1. pollArrayGet \/ pollArrayEvent
      <4>1. ASSUME getEventsFails \/ stopOnDumb \/ pollArrayReturn \/ pollArrayThrows
            PROVE  FALSE
        BY <1>3, <4>1 DEF getEventsFails, stopOnDumb, pollArrayReturn, pollArrayThrows,
                          IdlePoller
      <4>2. ASSUME poll \/ lockPoll \/ getEvents \/ handleEvent \/ invalidRecord
            PROVE  FALSE
        <5>1. CASE poll \/ lockPoll \/ getEvents \/ invalidRecord
          BY <1>3, <3>0, <5>1 DEF poll, lockPoll, getEvents, invalidRecord, PollerType, Continue
        <5>2. CASE handleEvent
          BY <1>3, <3>0, <5>2, HandledIsNext
        <5> QED
          BY <4>2, <5>1, <5>2
      <4>3. ASSUME infoDone \/ infoDoneFails \/ release \/ pollArray \/ pollArrayFails
            PROVE  FALSE
        <5>1. poller'.pc \in {"release", "events", "loop", "aevents", "areturn"}
          BY <3>0, <4>3 DEF infoDone, infoDoneFails, release, pollArray, pollArrayFails,
                            PollerType, Continue
        <5> QED
          BY <1>3, <5>1
      <4> QED
        BY <2>4, <4>1, <4>2, <4>3 DEF PollerAction, pollerStep
    <3>2. Objs(poller'.batch) \subseteq InFlight'
      BY DEF InFlight, Queued, Objs
    <3>3. CASE pollArrayEvent
      <4>1. poller.pc = "aloop" /\ poller.batch # <<>> /\ poller'.batch = Tail(poller.batch)
        BY <3>0, <3>3 DEF pollArrayEvent, PollerType, PollerShape
      <4>2. Objs(poller'.batch) \subseteq Objs(poller.batch)
        BY <4>1, CurrentEvent
      <4> QED
        BY <1>0, <3>0, <3>2, <4>1, <4>2
    <3>4. CASE pollArrayGet
      <4>1. poller.pc = "aevents"
        BY <3>4 DEF pollArrayGet
      <4>2. PermitsRule /\ NullRequests = {}
        BY <3>0, <4>1 DEF PollerShape, PermitsCount, PermitsRule
      <4>3. ~DumbInFlight
        BY <4>1, <4>2, Quiet, DumbMeansGone
      <4>4. ASSUME NEW i \in Objs(poller'.batch) PROVE aio'[i].data \in Requests
        <5>1. i \in InFlight'
          BY <3>2
        <5>2. i \in InFlight /\ aio'[i] = aio[i]
          BY <2>4, <5>1, PollerFlight
        <5>3. aio[i].data \in Requests \cup {None, Dumb} /\ Filled(i)
          BY <5>2, FlyingRequests DEF CoreInv, IocbsTracked
        <5>4. aio[i].data # Dumb
          BY <4>3, <5>2 DEF DumbInFlight
        <5>5. aio[i].data # None
          BY <4>2, <5>3 DEF Filled
        <5> QED
          BY <5>2, <5>3, <5>4, <5>5
      <4> QED
        BY <4>4
    <3> QED
      BY <3>1, <3>3, <3>4
  <2>5. UNCHANGED vars => UNCHANGED <<poller, aio>>
    BY DEF vars
  <2> QED
    BY <1>2, <1>3, <2>1, <2>2, <2>3, <2>4, <2>5, NextByActor
<1> QED
  BY <1>1, <1>3

-------------------------------------------------------------------------------
(***************************************************************************)
(* The array of the pool.                                                  *)
(***************************************************************************)

\* What a step may do to the pool.
LEMMA PoolStep ==
  ASSUME CoreInv, [Next]_vars
  PROVE  \/ UNCHANGED poolVars
         \/ \E s \in Submitters : nativeGet(s)
         \/ \E c \in Closers : deleteGet(c)
         \/ \E x \in Out : Pool!putIOCB(x)
<1>0. HeldOnce /\ PollerShape /\ ring \in Seq(Events)
  BY DEF CoreInv, StateOK
<1>1. ASSUME NEW s \in Submitters, SubmitterAction(s)
      PROVE  UNCHANGED poolVars \/ nativeGet(s) \/ \E x \in Out : Pool!putIOCB(x)
  <2>1. CASE nativeSubmitFails(s)
    <3>1. sub[s].iocb \in PrepIocbs /\ Pool!putIOCB(sub[s].iocb)
      BY <2>1, NativeSubmitFailsHands DEF nativeSubmitFails
    <3>2. sub[s].iocb \in Out
      BY <1>0, <3>1 DEF HeldOnce, Held, PrepIocbs
    <3> QED
      BY <3>1, <3>2
  <2> QED
    BY <1>1, <2>1 DEF SubmitterAction, submitWrite, submitRead, submitterStep, startSubmit,
         acquire, acquireInterrupted, nativeFull, nativeSubmit
<1>2. ASSUME NEW i, NEW res, complete(i, res) PROVE UNCHANGED poolVars
  BY <1>2 DEF complete
<1>3. ASSUME PollerAction PROVE UNCHANGED poolVars \/ \E x \in Out : Pool!putIOCB(x)
  <2>1. CASE stopOnDumb \/ handleEvent \/ pollArrayEvent
    <3>1. poller.batch # <<>> /\ Pool!putIOCB(Event.obj)
      BY <1>0, <2>1 DEF stopOnDumb, handleEvent, pollArrayEvent, PollerShape
    <3> QED
      BY <3>1, CurrentEvent
  <2> QED
    BY <1>3, <2>1
       DEF PollerAction, pollerStep, poll, lockPoll, getEvents, getEventsFails, invalidRecord,
           infoDone, infoDoneFails, release, pollArray, pollArrayGet, pollArrayFails,
           pollArrayReturn, pollArrayThrows
<1>4. ASSUME NEW c \in Closers, CloserAction(c)
      PROVE  UNCHANGED poolVars \/ deleteGet(c) \/ \E x \in Out : Pool!putIOCB(x)
  <2>1. CASE deleteSubmitFails(c)
    <3>1. closer[c].iocb \in DumbIocbs /\ Pool!putIOCB(closer[c].iocb)
      BY <2>1, DeleteSubmitFailsHands DEF deleteSubmitFails
    <3>2. closer[c].iocb \in Out
      BY <1>0, <3>1 DEF HeldOnce, Held, DumbIocbs
    <3> QED
      BY <3>1, <3>2
  <2>2. CASE deleteReap(c)
    <3>1. CASE ring # <<>> /\ Pool!putIOCB(Head(ring).obj)
      <4>1. Head(ring).obj \in Objs(ring)
        BY <1>0, <3>1, TreatedEvent
      <4>2. Head(ring).obj \in Out
        BY <1>0, <4>1 DEF HeldOnce, Held
      <4> QED
        BY <3>1, <4>2
    <3> QED
      BY <2>2, <3>1 DEF deleteReap
  <2> QED
    BY <1>4, <2>1, <2>2 DEF CloserAction, closerStep, close, drain, drainTimeout, deleteFull,
         deleteSubmit, deleteWait, deleteFree
<1>5. UNCHANGED vars => UNCHANGED poolVars
  BY DEF vars
<1> QED
  BY <1>1, <1>2, <1>3, <1>4, <1>5, NextByActor

\* Alone, the closer has at most the structure of the dumb write.
LEMMA QuietUsed ==
  ASSUME CoreInv, PermitsKept, UsedBound, PermitsRule, Gone
  PROVE  used <= DumbCount
<1>1. Users = {} /\ DoneCount = 0
  BY Quiet DEF Users, PrepRequests, DoneCount
<1>2. Cardinality(Users) = 0
  BY <1>1, FS_EmptySet
<1> QED
  BY <1>1, <1>2, UsersCounted DEF UsedBound

\* A full pool is in order.
LEMMA FullPool ==
  ASSUME P!PoolInv, used = 0
  PROVE  /\ Out = {} /\ iocbGet = iocbPut
         /\ \A i, j \in Iocbs : iocb[i] = iocb[j] => i = j
<1>0. QueueSize \in Nat \ {0} /\ iocbPut \in Iocbs /\ iocbGet \in Iocbs
  BY PoolCounts, ContextAssumption
<1>1. iocbGet = iocbPut
  BY <1>0 DEF P!PoolInv, P!IndicesAgree, Iocbs
<1>2. P!FreeSlots = Iocbs
  BY <1>0, <1>1 DEF P!FreeSlots, P!Slots, Iocbs
<1>3. \A i, j \in Iocbs : iocb[i] = iocb[j] => i = j
  BY <1>2 DEF P!PoolInv, P!NoSharing
<1>4. ASSUME NEW x \in Out PROVE FALSE
  <2>1. used > 0
    BY <1>0, P!HeldMeansUsed DEF P!PoolInv, P!HeldMeansUsed
  <2> QED
    BY <2>1
<1> QED
  BY <1>1, <1>3, <1>4

\* The last structure goes back to the slot it came from.
LEMMA LastPut ==
  ASSUME P!PoolInv, used <= 1, used = 1 => iocb[iocbPut] \in Out,
         NEW x \in Out, Pool!putIOCB(x)
  PROVE  iocb' = iocb /\ used' = 0
<1>1. /\ used > 0 /\ used' = used - 1 /\ iocb' = [iocb EXCEPT ![iocbPut] = x]
  BY PoolPuts
<1>2. used = 1 /\ iocb \in [Iocbs -> Iocbs] /\ iocbPut \in Iocbs
  BY <1>1, PoolCounts
<1>3. QueueSize \in Nat \ {0} /\ iocb[iocbPut] \in Out
  BY <1>2, ContextAssumption
<1>4. x = iocb[iocbPut]
  BY <1>2, <1>3, P!OneHeld DEF P!PoolInv, P!OneHeld
<1> QED
  BY <1>1, <1>2, <1>4

\* Only deleteGet begins the deletion.
LEMMA DeletingBegins ==
  ASSUME CoreInv, [Next]_vars, Deleting'
  PROVE  Deleting \/ \E c \in Closers : deleteGet(c)
<1>1. ASSUME UNCHANGED <<control, closer>> PROVE Deleting
  BY <1>1 DEF Deleting
<1>2. ASSUME NEW s \in Submitters, SubmitterAction(s) PROVE Deleting
  BY <1>1, <1>2, SubmitterFrame
<1>3. ASSUME NEW i, NEW res, complete(i, res) PROVE Deleting
  BY <1>1, <1>3 DEF complete
<1>4. ASSUME PollerAction PROVE Deleting
  BY <1>1, <1>4, PollerFrame
<1>5. ASSUME NEW c \in Closers, CloserAction(c), ~deleteGet(c) PROVE Deleting
  <2>1. CASE deleteSubmit(c) \/ deleteSubmitFails(c) \/ deleteWait(c) \/ deleteReap(c) \/ deleteFree(c)
    BY <2>1 DEF deleteSubmit, deleteSubmitFails, deleteWait, deleteReap, deleteFree, Deleting
  <2>2. CASE close(c) \/ drain(c) \/ drainTimeout(c) \/ deleteFull(c)
    <3>1. /\ closer'[c].pc \in {"returned", "drain", "delete", "failed"}
          /\ \A d \in Closers \ {c} : closer'[d] = closer[d]
      <4>1. CASE drain(c)
        BY <4>1, CloserDrains DEF drain, CloserLabels, CoreInv, HasSemaphore
      <4>2. CASE close(c) \/ drainTimeout(c) \/ deleteFull(c)
        BY <4>2, ClosersMove DEF close, drainTimeout, deleteFull, CloserLabels
      <4> QED
        BY <2>2, <4>1, <4>2
    <3>2. UNCHANGED control
      BY <2>2 DEF close, drain, drainTimeout, deleteFull
    <3> QED
      BY <3>1, <3>2 DEF Deleting
  <2> QED
    BY <1>5, <2>1, <2>2 DEF CloserAction, closerStep
<1>6. UNCHANGED vars => UNCHANGED <<control, closer>>
  BY DEF vars
<1> QED
  BY <1>1, <1>2, <1>3, <1>4, <1>5, <1>6, NextByActor

LEMMA NextKeepsUnshuffled ==
  ASSUME CoreInv, PermitsKept, UsedBound, Unshuffled, [Next]_vars
  PROVE  Unshuffled'
<1> SUFFICES ASSUME PermitsRule, Deleting'
             PROVE  /\ \A i, j \in Iocbs : iocb'[i] = iocb'[j] => i = j
                    /\ used' <= 1
                    /\ used' = 1 => iocb'[iocbPut'] \in Out'
  BY DEF Unshuffled, PermitsRule, PermitsCount
<1>0. P!PoolInv /\ used \in Nat
  BY UsersCounted DEF CoreInv
<1>1. CASE \E c \in Closers : deleteGet(c)
  <2>1. PICK c \in Closers : deleteGet(c)
    BY <1>1
  <2>2. closer[c].pc = "delete" /\ Busy(c) /\ Gone
    BY <2>1 DEF deleteGet, Busy, Gone, PastDrain
  <2>3. control # "freed" /\ \A d \in Closers : Busy(d) => d = c
    BY <2>2 DEF CoreInv, CloserShape
  <2>4. ~DumbInFlight /\ DumbIocbs = {}
    BY <2>2, <2>3 DEF CoreInv, CloserShape, Busy, DumbIocbs
  <2>5. used = 0
    BY <1>0, <2>2, <2>4, QuietUsed DEF DumbCount
  <2>6. iocbGet = iocbPut /\ \A i, j \in Iocbs : iocb[i] = iocb[j] => i = j
    BY <1>0, <2>5, FullPool
  <2>7. PICK i : /\ Out' = Out \cup {i} /\ used' = used + 1 /\ iocb' = iocb
                 /\ i = iocb[iocbGet] /\ iocbPut' = iocbPut
    BY <2>1, DeleteGetHands
  <2> QED
    BY <2>5, <2>6, <2>7
<1>2. CASE ~\E c \in Closers : deleteGet(c)
  <2>1. Deleting
    BY <1>2, DeletingBegins
  <2>2. Gone
    BY <2>1 DEF Deleting, Gone, PastDrain
  <2>3. /\ \A i, j \in Iocbs : iocb[i] = iocb[j] => i = j
        /\ used <= 1 /\ (used = 1 => iocb[iocbPut] \in Out)
    BY <2>1 DEF Unshuffled
  <2>4. ASSUME NEW s \in Submitters, nativeGet(s) PROVE FALSE
    BY <2>2, <2>4, Quiet DEF nativeGet
  <2>5. CASE UNCHANGED poolVars
    BY <1>0, <2>3, <2>5, PoolRests DEF poolVars
  <2>6. ASSUME NEW x \in Out, Pool!putIOCB(x)
        PROVE  iocb' = iocb /\ used' = 0
    BY <1>0, <2>3, <2>6, LastPut
  <2> QED
    BY <1>2, <2>3, <2>4, <2>5, <2>6, PoolStep
<1> QED
  BY <1>1, <1>2

-------------------------------------------------------------------------------
(***************************************************************************)
(* What is out of the pool is in somebody's hands.                         *)
(***************************************************************************)
LEMMA HeldIs ==
  Held = PrepIocbs \cup DumbIocbs \cup kernel \cup Objs(ring) \cup Objs(poller.batch)
BY DEF Held, PrepIocbs, DumbIocbs

LEMMA HeldIsThen ==
  Held' = PrepIocbs' \cup DumbIocbs' \cup kernel' \cup Objs(ring') \cup Objs(poller'.batch)
BY DEF Held, PrepIocbs, DumbIocbs, Objs

\* stopOnDumb forgets no event but its own.
LEMMA DumbComesLast ==
  ASSUME CoreInv, PermitsKept, PermitsRule, NullRequests = {}, stopOnDumb
  PROVE  Objs(poller.batch) = {Event.obj}
<1>1. poller.pc = "loop" /\ Fildes = Dumb /\ poller.batch # <<>>
  BY DEF stopOnDumb, CoreInv, PollerShape
<1>2. Event.obj \in Objs(poller.batch) /\ Filled(Event.obj)
  BY <1>1, CurrentEvent
<1>3. aio[Event.obj].data = Dumb
  BY <1>1, <1>2 DEF Filled, Fildes
<1>4. Event.obj \in InFlight /\ Objs(poller.batch) \subseteq Queued
  BY <1>2 DEF InFlight, Queued
<1>5. Pending = {}
  BY <1>3, <1>4, Quiet, DumbMeansGone DEF DumbInFlight
<1>6. ASSUME NEW i \in Objs(poller.batch) PROVE i = Event.obj
  <2>1. i \in InFlight /\ i \in Queued
    BY <1>4 DEF InFlight
  <2>2. aio[i].data \in Requests \cup {None, Dumb} /\ Filled(i)
    BY <2>1, FlyingRequests DEF CoreInv, IocbsTracked
  <2>3. aio[i].data \notin Requests
    BY <1>5, <2>1 DEF CoreInv, IocbsTracked, Pending
  <2>4. aio[i].data # None
    BY <2>2 DEF Filled
  <2>5. aio[i].data = Dumb
    BY <2>2, <2>3, <2>4
  <2> QED
    BY <1>3, <1>4, <2>1, <2>5 DEF CoreInv, IocbsTracked
<1> QED
  BY <1>2, <1>6

LEMMA NextKeepsHands ==
  ASSUME CoreInv, PermitsKept, NothingDropped, [Next]_vars
  PROVE  NothingDropped'
<1> SUFFICES ASSUME PermitsRule, NullRequests = {}
             PROVE  Out' = Held'
  BY DEF NothingDropped, PermitsRule, PermitsCount
<1>0. /\ Out = Held /\ HeldOnce /\ PollerShape /\ poller \in PollerType /\ P!PoolInv /\ StateOK
      /\ ring \in Seq(Events)
  BY DEF NothingDropped, CoreInv, StateOK
<1>1. Held' \subseteq Out'
  BY NextKeepsCore DEF CoreInv, HeldOnce
<1> SUFFICES Out' \subseteq Held'
  BY <1>1
<1>3. ASSUME NEW s \in Submitters, SubmitterAction(s) PROVE Out' \subseteq Held'
  <2>0. UNCHANGED <<ring, poller, closer>>
    BY <1>3, SubmitterFrame
  <2>1. DumbIocbs' = DumbIocbs
    BY <2>0 DEF DumbIocbs
  <2>2. CASE nativeGet(s)
    <3>1. PICK i : Out' = Out \cup {i} /\ PrepIocbs' = PrepIocbs \cup {i}
      BY <2>2, NativeGetHands
    <3>2. UNCHANGED kernel
      BY <2>2 DEF nativeGet
    <3> QED
      BY <1>0, <2>0, <2>1, <3>1, <3>2, HeldIs, HeldIsThen
  <2>3. CASE nativeSubmit(s)
    <3>1. /\ Out' = Out /\ sub[s].iocb \in PrepIocbs /\ PrepIocbs' = PrepIocbs \ {sub[s].iocb}
          /\ kernel' = kernel \cup {sub[s].iocb}
      BY <2>3, NativeSubmitHands
    <3> QED
      BY <1>0, <2>0, <2>1, <3>1, HeldIs, HeldIsThen
  <2>4. CASE nativeSubmitFails(s)
    <3>1. Out' = Out \ {sub[s].iocb} /\ PrepIocbs' = PrepIocbs \ {sub[s].iocb}
      BY <2>4, NativeSubmitFailsHands
    <3>2. UNCHANGED kernel
      BY <2>4 DEF nativeSubmitFails
    <3> QED
      BY <1>0, <2>0, <2>1, <3>1, <3>2, HeldIs, HeldIsThen
  <2>5. CASE submitWrite(s) \/ submitRead(s) \/ acquire(s) \/ acquireInterrupted(s) \/ nativeFull(s)
    <3>1. /\ UNCHANGED <<poolVars, kernel>> /\ sub[s].pc # "prep" /\ sub'[s].pc # "prep"
          /\ \A t \in Submitters \ {s} : sub'[t] = sub[t]
      <4>0. sub \in [Submitters -> SubmitterType]
        BY <1>0 DEF StateOK
      <4>1. CASE submitWrite(s) \/ submitRead(s)
        BY <4>0, <4>1 DEF submitWrite, submitRead, startSubmit
      <4>2. CASE acquire(s)
        BY <1>0, <4>2, SubmitterGoes DEF acquire, SubmitterLabels
      <4>3. CASE acquireInterrupted(s) \/ nativeFull(s)
        BY <1>0, <4>3, SubmitterReturns DEF acquireInterrupted, nativeFull, Reject
      <4> QED
        BY <2>5, <4>1, <4>2, <4>3
    <3>2. PrepIocbs' = PrepIocbs
      BY <3>1, PrepRests
    <3>3. Out' = Out
      BY <1>0, <3>1, PoolRests
    <3> QED
      BY <1>0, <2>0, <2>1, <3>1, <3>2, <3>3, HeldIs, HeldIsThen
  <2> QED
    BY <1>3, <2>2, <2>3, <2>4, <2>5 DEF SubmitterAction, submitterStep
<1>4. ASSUME NEW i \in Iocbs, NEW res \in {"ok", "error"}, complete(i, res)
      PROVE  Out' \subseteq Held'
  <2>1. Out' = Out /\ kernel' = kernel \ {i} /\ Objs(ring') = Objs(ring) \cup {i}
    BY <1>4, CompleteHands
  <2>2. UNCHANGED <<sub, closer, poller>>
    BY <1>4 DEF complete
  <2>3. PrepIocbs' = PrepIocbs /\ DumbIocbs' = DumbIocbs
    BY <2>2 DEF PrepIocbs, DumbIocbs
  <2> QED
    BY <1>0, <2>1, <2>2, <2>3, HeldIs, HeldIsThen
<1>5. ASSUME PollerAction PROVE Out' \subseteq Held'
  <2>0. UNCHANGED <<kernel, sub, closer>>
    BY <1>5, PollerFrame
  <2>1. PrepIocbs' = PrepIocbs /\ DumbIocbs' = DumbIocbs
    BY <2>0 DEF PrepIocbs, DumbIocbs
  <2>2. CASE handleEvent \/ pollArrayEvent
    <3>1. poller.batch # <<>> /\ Pool!putIOCB(Event.obj) /\ UNCHANGED ring
      BY <1>0, <2>2 DEF handleEvent, pollArrayEvent, PollerShape
    <3>2. poller'.batch = Tail(poller.batch)
      BY <1>0, <2>2 DEF handleEvent, pollArrayEvent, PollerType
    <3>3. Out' = Out \ {Event.obj}
      BY <3>1, PuttingHands
    <3>4. Objs(poller.batch) = Objs(poller'.batch) \cup {Event.obj}
      BY <3>1, <3>2, CurrentEvent
    <3> QED
      BY <1>0, <2>0, <2>1, <3>1, <3>3, <3>4, HeldIs, HeldIsThen
  <2>3. CASE stopOnDumb
    <3>1. poller.batch # <<>> /\ Pool!putIOCB(Event.obj) /\ UNCHANGED ring
      BY <1>0, <2>3 DEF stopOnDumb, PollerShape
    <3>2. Out' = Out \ {Event.obj}
      BY <3>1, PuttingHands
    <3>3. Objs(poller.batch) = {Event.obj}
      BY <2>3, DumbComesLast
    <3> QED
      BY <1>0, <2>0, <2>1, <3>1, <3>2, <3>3, HeldIs, HeldIsThen
  <2>4. CASE invalidRecord
    <3>1. poller.batch # <<>> /\ Data = None
      BY <1>0, <2>4 DEF invalidRecord, PollerShape
    <3> QED
      BY <3>1, CurrentEvent DEF Filled, Data
  <2>5. CASE getEvents \/ pollArrayGet
    <3>1. poller.batch = <<>> /\ UNCHANGED poolVars
      BY <1>0, <2>5 DEF getEvents, pollArrayGet, PollerShape
    <3>2. PICK max \in Nat : ring' = Left(max) /\ poller'.batch = Taken(max)
      BY <1>0, <2>5, ContextAssumption DEF getEvents, pollArrayGet, PollerType
    <3>3. Out' = Out /\ Objs(poller.batch) = {} /\ Objs(ring) = Objs(poller'.batch) \cup Objs(ring')
      BY <3>1, <3>2, TakingHands
    <3> QED
      BY <1>0, <2>0, <2>1, <3>3, HeldIs, HeldIsThen
  <2>6. CASE \/ poll \/ lockPoll \/ getEventsFails \/ infoDone \/ infoDoneFails \/ release
             \/ pollArray \/ pollArrayFails \/ pollArrayReturn \/ pollArrayThrows
    <3>1. UNCHANGED <<poolVars, ring>>
      BY <2>6 DEF poll, lockPoll, getEventsFails, infoDone, infoDoneFails, release, pollArray,
                  pollArrayFails, pollArrayReturn, pollArrayThrows
    <3>2. poller'.batch = poller.batch
      <4>1. CASE getEventsFails \/ pollArrayReturn \/ pollArrayThrows
        <5>1. poller.batch = <<>>
          BY <1>0, <4>1 DEF getEventsFails, pollArrayReturn, pollArrayThrows, PollerShape
        <5> QED
          BY <4>1, <5>1 DEF getEventsFails, pollArrayReturn, pollArrayThrows, IdlePoller
      <4>2. CASE \/ poll \/ lockPoll \/ infoDone \/ infoDoneFails \/ release
                 \/ pollArray \/ pollArrayFails
        BY <1>0, <4>2 DEF poll, lockPoll, infoDone, infoDoneFails, release, pollArray,
                          pollArrayFails, PollerType
      <4> QED
        BY <2>6, <4>1, <4>2
    <3>3. Out' = Out
      BY <1>0, <3>1, PoolRests
    <3> QED
      BY <1>0, <2>0, <2>1, <3>1, <3>2, <3>3, HeldIs, HeldIsThen
  <2> QED
    BY <1>5, <2>2, <2>3, <2>4, <2>5, <2>6 DEF PollerAction, pollerStep
<1>6. ASSUME NEW c \in Closers, CloserAction(c) PROVE Out' \subseteq Held'
  <2>0. UNCHANGED <<sub, poller>>
    BY <1>6, CloserFrame
  <2>1. PrepIocbs' = PrepIocbs
    BY <2>0 DEF PrepIocbs
  <2>2. CASE deleteGet(c)
    <3>1. PICK i : Out' = Out \cup {i} /\ DumbIocbs = {} /\ DumbIocbs' = {i}
      BY <2>2, DeleteGetHands
    <3>2. UNCHANGED <<kernel, ring>>
      BY <2>2 DEF deleteGet
    <3> QED
      BY <1>0, <2>0, <2>1, <3>1, <3>2, HeldIs, HeldIsThen
  <2>3. CASE deleteSubmit(c)
    <3>1. /\ Out' = Out /\ DumbIocbs = {closer[c].iocb}
          /\ kernel' = kernel \cup {closer[c].iocb}
      BY <2>3, DeleteSubmitHands
    <3>2. UNCHANGED ring
      BY <2>3 DEF deleteSubmit
    <3> QED
      BY <1>0, <2>0, <2>1, <3>1, <3>2, HeldIs, HeldIsThen
  <2>4. CASE deleteSubmitFails(c)
    <3>1. Out' = Out \ {closer[c].iocb} /\ DumbIocbs = {closer[c].iocb}
      BY <2>4, DeleteSubmitFailsHands
    <3>2. UNCHANGED <<kernel, ring>>
      BY <2>4 DEF deleteSubmitFails
    <3> QED
      BY <1>0, <2>0, <2>1, <3>1, <3>2, HeldIs, HeldIsThen
  <2>5. CASE \/ close(c) \/ drain(c) \/ drainTimeout(c) \/ deleteFull(c) \/ deleteWait(c)
             \/ deleteReap(c) \/ deleteFree(c)
    <3>1. closer[c].pc # "dumb" /\ UNCHANGED kernel
      BY <2>5 DEF close, drain, drainTimeout, deleteFull, deleteWait, deleteReap, deleteFree
    <3>2. closer'[c].pc # "dumb" /\ \A d \in Closers \ {c} : closer'[d] = closer[d]
      <4>1. CASE drain(c)
        BY <4>1, CloserDrains DEF drain, CloserLabels, CoreInv, HasSemaphore
      <4>2. CASE \/ close(c) \/ drainTimeout(c) \/ deleteFull(c) \/ deleteWait(c)
                 \/ deleteFree(c) \/ deleteReap(c)
        BY <4>2, ClosersMove DEF close, drainTimeout, deleteFull, deleteWait, deleteFree,
                                 deleteReap, CloserLabels
      <4> QED
        BY <2>5, <4>1, <4>2
    <3>3. DumbIocbs' = DumbIocbs
      BY <3>1, <3>2, DumbRests
    <3>4. CASE deleteReap(c)
      <4>1. \/ ring' = ring /\ Out' = Out
            \/ /\ Out' = Out \ {Head(ring).obj}
               /\ Objs(ring) = Objs(ring') \cup {Head(ring).obj}
        BY <3>4, DeleteReapHands
      <4> QED
        BY <1>0, <2>0, <2>1, <3>1, <3>3, <4>1, HeldIs, HeldIsThen
    <3>5. CASE ~deleteReap(c)
      <4>1. UNCHANGED <<poolVars, ring>>
        BY <2>5, <3>5 DEF close, drain, drainTimeout, deleteFull, deleteWait, deleteFree
      <4>2. Out' = Out
        BY <1>0, <4>1, PoolRests
      <4> QED
        BY <1>0, <2>0, <2>1, <3>1, <3>3, <4>1, <4>2, HeldIs, HeldIsThen
    <3> QED
      BY <3>4, <3>5
  <2> QED
    BY <1>6, <2>2, <2>3, <2>4, <2>5 DEF CloserAction, closerStep
<1>7. ASSUME UNCHANGED vars PROVE Out' \subseteq Held'
  <2>1. UNCHANGED <<poolVars, sub, closer, poller, kernel, ring>>
    BY <1>7 DEF vars
  <2>2. Out' = Out
    BY <1>0, <2>1, PoolRests
  <2>3. Held' = Held
    BY <2>1 DEF Held, Objs
  <2> QED
    BY <1>0, <2>2, <2>3
<1> QED
  BY <1>3, <1>4, <1>5, <1>6, <1>7, NextByActor

-------------------------------------------------------------------------------
(***************************************************************************)
(* The theorems.                                                           *)
(***************************************************************************)
LEMMA InitEstablishesClose == Init => CloseInv
<1> SUFFICES ASSUME Init PROVE CloseInv
  OBVIOUS
<1>0. /\ CoreInv /\ used = 0 /\ closed = FALSE /\ control = "live"
      /\ poller = IdlePoller /\ poller.pc = "idle" /\ poller.batch = <<>>
      /\ \A s \in Submitters : sub[s].pc = "idle"
      /\ \A c \in Closers : closer[c].pc = "idle" /\ ~closer[c].drained
      /\ \A r \in Requests : outcome[r] = "new"
      /\ kernel = {} /\ ring = <<>>
  BY InitEstablishesCore DEF Init, IdlePoller, IdleSubmitter
<1>1. PollerGone
  BY <1>0 DEF PollerGone
<1>2. UsedBound
  BY <1>0, UsersCounted DEF UsedBound, DoneCount
<1>3. PermitsConserved
  <2>1. PermitHolders = {}
    BY <1>0 DEF PermitHolders
  <2>2. Cardinality(PermitHolders) = 0
    BY <2>1, FS_EmptySet
  <2>3. Carried = 0
    BY <1>0, NothingCarried DEF CoreInv, StateOK, Init
  <2>4. Drained = 0
    BY <1>0 DEF Drained
  <2>5. HasSemaphore => ioSpace = QueueSize
    BY DEF Init, HasSemaphore
  <2>6. HasSemaphore => ioSpace + Cardinality(PermitHolders) + Carried + Drained = QueueSize
    BY <2>2, <2>3, <2>4, <2>5, ContextAssumption
  <2> QED
    BY <2>6 DEF PermitsConserved, InBatch, Carried, Drained
<1>4. PermitsKept
  BY <1>0, <1>3 DEF PermitsKept
<1>5. Unshuffled
  BY <1>0 DEF Unshuffled, Deleting
<1>6. NothingDropped
  <2>1. Out = {}
    BY <1>0, FullPool DEF CoreInv
  <2>2. Held \subseteq Out
    BY <1>0 DEF CoreInv, HeldOnce
  <2> QED
    BY <2>1, <2>2 DEF NothingDropped
<1> QED
  BY <1>0, <1>1, <1>2, <1>4, <1>5, <1>6 DEF CloseInv

LEMMA NextKeepsClose ==
  ASSUME CloseInv, [Next]_vars
  PROVE  CloseInv'
BY NextKeepsCore, NextKeepsPollerGone, NextKeepsUsedBound, NextKeepsPermits,
   NextKeepsUnshuffled, NextKeepsHands DEF CloseInv

\* The permits, the structures in use, the array of the pool and the poller
\* are related as CloseInv says in every state, whoever runs when.
THEOREM CloseInvariant == Spec => []CloseInv
<1>1. Init => CloseInv
  BY InitEstablishesClose
<1>2. CloseInv /\ [Next]_vars => CloseInv'
  BY NextKeepsClose
<1> QED
  BY <1>1, <1>2, PTL DEF Spec

\* The semaphore loses and invents no permit: acquire, done(), the return of
\* poll(callbacks) and the closer's tryAcquire balance.  Two mixtures are left
\* out, in which poll(callbacks) releases a permit for an event that is not a
\* request's: null callbacks, and a close that went on without the permits.
THEOREM ContextPermitsConserved ==
  ASSUME PermitsCount
  PROVE  Spec => []PermitsConserved
<1>1. CloseInv => PermitsConserved
  BY DEF CloseInv, PermitsKept
<1> QED
  BY <1>1, CloseInvariant, PTL

\* A thread that got through the semaphore finds a structure in the pool,
\* also while the closer takes one for its dumb write.
THEOREM ContextNoOvercommit ==
  ASSUME PermitsRule
  PROVE  Spec => []NoOvercommit
<1>1. ASSUME CloseInv PROVE NoOvercommit
  <2> SUFFICES ASSUME HasSemaphore
               PROVE  ioSpace + Cardinality({s \in Submitters : sub[s].pc = "native"}) + used
                        <= QueueSize
    BY DEF NoOvercommit
  <2> DEFINE N == {s \in Submitters : sub[s].pc = "native"}
  <2>0. /\ CoreInv /\ PermitsKept /\ UsedBound /\ QueueSize \in Nat \ {0}
        /\ ioSpace \in Nat /\ used \in Nat
    BY <1>1, PermitsCounted, UsersCounted, ContextAssumption DEF CloseInv
  <2>1. CASE Gone
    <3>1. N = {} /\ ioSpace = 0
      BY <2>0, <2>1, Quiet
    <3>2. used <= 1
      BY <2>0, <2>1, QuietUsed, UsersCounted
    <3>3. Cardinality(N) = 0
      BY <3>1, FS_EmptySet
    <3> QED
      BY <2>0, <3>1, <3>2, <3>3
  <2>2. CASE ~Gone
    <3>1. DumbCount = 0
      BY <2>0, <2>2, DumbMeansGone DEF DumbCount
    <3> DEFINE T == PermitHolders \ Users
               f == [s \in N |-> sub[s].req]
    <3>2. Users \subseteq PermitHolders
      BY DEF Users, Pending, PrepRequests, PermitHolders
    <3>3. \A s \in N : sub[s].req \in T
      <4>1. ASSUME NEW s \in N PROVE sub[s].req \in PermitHolders /\ sub[s].req \notin Users
        <5>1. outcome[sub[s].req] = "submitting"
          BY <2>0 DEF CoreInv, SubmittersTracked
        <5>2. \A t \in Submitters : sub[t].pc = "prep" => sub[t].req # sub[s].req
          BY <2>0 DEF CoreInv, SubmittersTracked
        <5> QED
          BY <5>1, <5>2 DEF PermitHolders, Users, Pending, PrepRequests
      <4> QED
        BY <4>1
    <3>4. \A s, t \in N : sub[s].req = sub[t].req => s = t
      BY <2>0 DEF CoreInv, SubmittersTracked
    <3>5. f \in Injection(N, T)
      BY <3>3, <3>4 DEF Injection, IsInjective
    <3>6. IsFiniteSet(T) /\ IsFiniteSet(Users) /\ IsFiniteSet(PermitHolders)
      BY <2>0, PermitsCounted, UsersCounted, FS_Subset
    <3>7. Cardinality(N) \in Nat /\ Cardinality(N) <= Cardinality(T)
      <4> HIDE DEF N, T, f
      <4> QED
        BY <3>5, <3>6, FS_Injection, FS_CardinalityType
    <3>8. Cardinality(PermitHolders) = Cardinality(Users) + Cardinality(T)
      <4>1. PermitHolders = Users \cup T /\ Users \cap T = {}
        BY <3>2
      <4>2. Cardinality(Users \cup T) = Cardinality(Users) + Cardinality(T) - Cardinality(Users \cap T)
        BY <3>6, FS_Union
      <4>3. Cardinality(Users \cap T) = 0
        BY <4>1, FS_EmptySet
      <4>4. Cardinality(Users) \in Nat /\ Cardinality(T) \in Nat
        BY <3>6, FS_CardinalityType
      <4> HIDE DEF T
      <4> QED
        BY <4>1, <4>2, <4>3, <4>4
    <3>9. ioSpace + Cardinality(PermitHolders) + Carried + Drained = QueueSize
      BY <2>0 DEF PermitsKept, PermitsRule, PermitsConserved, InBatch, Carried, Drained
    <3>10. /\ Carried \in Nat /\ Drained \in Nat /\ Cardinality(PermitHolders) \in Nat
           /\ Cardinality(Users) \in Nat /\ Cardinality(T) \in Nat /\ DoneCount \in Nat
      BY <2>0, <3>6, PermitsCounted, UsersCounted, FS_CardinalityType
    <3>11. used <= Cardinality(Users)
      BY <2>0, <3>1, <3>10 DEF UsedBound
    <3>12. ioSpace + Cardinality(N) + used <= QueueSize
      <4> HIDE DEF N, T
      <4> QED
        BY <2>0, <3>7, <3>8, <3>9, <3>10, <3>11
    <3> QED
      BY <3>12
  <2> QED
    BY <2>1, <2>2
<1> QED
  BY <1>1, CloseInvariant, PTL

\* deleteContext frees the io_control only when every request the kernel had
\* accepted has been told to its callback, if the closer has waited for the
\* permits.
THEOREM ContextNoRequestAbandoned ==
  ASSUME PermitsRule
  PROVE  Spec => []NoRequestAbandoned
<1>1. CloseInv => NoRequestAbandoned
  BY Quiet DEF CloseInv, NoRequestAbandoned, Gone
<1> QED
  BY <1>1, CloseInvariant, PTL

\* iocb_destroy frees each structure once, if the closer has waited for the
\* permits: when the dumb write takes its structure all the others are back,
\* and it is put back where it came from.
THEOREM ContextEachIocbFreedOnce ==
  ASSUME PermitsRule
  PROVE  Spec => []EachIocbFreedOnce
<1>1. CloseInv => EachIocbFreedOnce
  BY DEF CloseInv, Unshuffled, Deleting, EachIocbFreedOnce
<1> QED
  BY <1>1, CloseInvariant, PTL

\* No submitter and no poller is inside the native code, or on its way into
\* it, when deleteContext frees the io_control: if the closer has waited for
\* the permits, and nobody closes while a thread is between the closed flag
\* and the lock of blockedPoll.
THEOREM ContextNoUseAfterFree ==
  ASSUME PermitsRule, SettledClose
  PROVE  Spec => []NoUseAfterFree
<1>1. CloseInv => NoUseAfterFree
  <2> SUFFICES ASSUME CloseInv, control = "freed"
               PROVE  /\ \A s \in Submitters : sub[s].pc \notin {"native", "prep"}
                      /\ poller.pc \notin {"enter", "events", "loop", "done", "release",
                                           "aevents", "aloop"}
    BY DEF NoUseAfterFree
  <2>1. /\ \A s \in Submitters : sub[s].pc \notin {"native", "prep"}
        /\ poller.pc \notin {"aevents", "aloop"}
    BY Quiet DEF CloseInv, Gone
  <2>2. closed
    BY DEF CloseInv, CoreInv, CloserShape
  <2>3. poller.pc \notin {"enter", "events", "loop", "done", "release"}
    BY <2>2 DEF CloseInv, PollerGone
  <2> QED
    BY <2>1, <2>3
<1> QED
  BY <1>1, CloseInvariant, PTL

\* Submitters, poller and closers together are a client of the pool that
\* module IocbPool describes: each of their steps takes one structure, puts
\* one back that they hold, or leaves the pool and what they hold alone.
THEOREM ContextUsesPool ==
  ASSUME PermitsRule, NullRequests = {}
  PROVE  Spec => PoolProtocol
<1>1. Init => Pool!Init
  <2> SUFFICES ASSUME Init PROVE Pool!Init
    OBVIOUS
  <2>1. Held = {}
    <3>1. Out = {}
      BY InitEstablishesCore, FullPool DEF Init, CoreInv
    <3> QED
      BY <3>1, InitEstablishesCore DEF CoreInv, HeldOnce
  <2> QED
    BY <2>1 DEF Init, Pool!Init, Pool!Slots, Iocbs
<1>2. CloseInv /\ [Next]_vars => [Pool!Next]_(Pool!vars)
  <2> SUFFICES ASSUME CloseInv, [Next]_vars PROVE [Pool!Next]_(Pool!vars)
    OBVIOUS
  <2>0. CloseInv' /\ CoreInv /\ P!PoolInv
    BY NextKeepsClose DEF CloseInv, CoreInv
  <2>1. Held = Out
    BY DEF CloseInv, NothingDropped
  <2>2. Held' = Out'
    BY <2>0 DEF CloseInv, NothingDropped, PermitsRule, PermitsCount
  <2>3. CASE UNCHANGED poolVars
    BY <2>0, <2>1, <2>2, <2>3, PoolRests DEF poolVars, Pool!vars
  <2>4. ASSUME NEW i \in Iocbs, Pool!getIOCB(i) PROVE Pool!Next
    <3>1. Out' = Out \cup {i}
      BY <2>0, <2>4, PoolGets
    <3>2. i \in Pool!Iocbs
      BY DEF Iocbs, Pool!Iocbs, Pool!Slots
    <3> QED
      BY <2>1, <2>2, <2>4, <3>1, <3>2 DEF Pool!Next, Pool!Get
  <2>5. ASSUME NEW s \in Submitters, nativeGet(s) PROVE Pool!Next
    BY <2>4, <2>5 DEF nativeGet
  <2>6. ASSUME NEW c \in Closers, deleteGet(c) PROVE Pool!Next
    BY <2>4, <2>6 DEF deleteGet
  <2>7. ASSUME NEW x \in Out, Pool!putIOCB(x) PROVE Pool!Next
    <3>1. Out' = Out \ {x}
      BY <2>0, <2>7, PoolPuts
    <3> QED
      BY <2>1, <2>2, <2>7, <3>1 DEF Pool!Next, Pool!Put
  <2> QED
    BY <2>0, <2>3, <2>5, <2>6, <2>7, PoolStep
<1> QED
  BY <1>1, <1>2, CloseInvariant, PTL DEF Spec, PoolProtocol, Pool!Spec

===============================================================================
