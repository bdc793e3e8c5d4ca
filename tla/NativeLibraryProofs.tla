-------------------------- MODULE NativeLibraryProofs --------------------------
(***************************************************************************)
(* Proofs about what the contexts of a process share, for any number of    *)
(* contexts and every queue size.                                          *)
(***************************************************************************)
EXTENDS NativeLibrary, FiniteSetTheorems, TLAPS

USE DEF loadVars, staticVars, ledgerVars

(***************************************************************************)
(* The inductive invariant.                                                *)
(***************************************************************************)
LibType == [mapped : BOOLEAN, mutex : BOOLEAN, dumbWriteHandler : Descriptors \cup {-1},
            file : BOOLEAN, classes : SUBSET Classes]
HookLabels == {"none", "checkContexts", "checkShutdown", "testHandler", "sweep", "returned"}
Checking == {"checkContexts", "checkShutdown", "testHandler", "sweep"}

\* Every variable but the two counters has its type.
StateOK ==
  /\ loading \in 1 .. 3 /\ loaded \in 0 .. 2
  /\ lib \in [Libraries -> LibType]
  /\ descriptors \in [Descriptors -> Libraries \cup {StdIn, Closed}]
  /\ pc \in [Threads -> Labels] /\ pc[Hook] \in HookLabels
  /\ shuttingDown \in BOOLEAN
  /\ contexts \in Int /\ totalMaxIO \in Int
  /\ held \in [Contexts -> SUBSET Resources]
  /\ members \in [Contexts -> SUBSET Pool(QueueSize)]
  /\ misfreed \in [Contexts -> SUBSET ((0 .. 7) \X Resources)]
  /\ early \subseteq Contexts

\* Before a library is accepted nothing runs, and there is a descriptor for
\* each library that is still to be tried; the handler of the library that is
\* accepted is the descriptor of its file, until both are given up.
HandlerTracked ==
  /\ loaded = 0 => (\A t \in Threads : pc[t] = "none") /\ ~shuttingDown /\ early = {}
  /\ loaded = 0 /\ loading \in Libraries =>
       descriptors[0] = StdIn /\ \A d \in loading .. 2 : descriptors[d] = Closed
  /\ loaded # 0 =>
       IF lib[loaded].file
       THEN /\ lib[loaded].dumbWriteHandler \in {1, 2}
            /\ descriptors[lib[loaded].dumbWriteHandler] = loaded
       ELSE lib[loaded].dumbWriteHandler = 0

\* The counters: contexts counts from the beginning of the constructor to
\* close(), and for good where one of them fails.
Counted == {"new", "failed", "native", "nobuffer", "open", "openNull", "delete", "broken",
            "decrement"}
Alive == {x \in Contexts : pc[x] \in Counted}
Open == {x \in Contexts : pc[x] \in {"open", "openNull"}}
CountersExact ==
  /\ contexts = Cardinality(Alive)
  /\ totalMaxIO = QueueSize * Cardinality(Open)

\* What newContext has allocated, and what the lists of frees have left.
Locks == {"iocbLock", "pollLock"}
LedgerTracked ==
  \A x \in Contexts :
    /\ pc[x] \in {"native", "open", "delete"} =>
         held[x] = Allocated(9) /\ members[x] = Pool(QueueSize)
    /\ pc[x] \in {"nobuffer", "openNull"} => "buffer" \notin held[x]
    /\ pc[x] = "failed" => held[x] \subseteq Locks /\ members[x] = {}
    /\ Deleted(x) => held[x] = {"buffer"} /\ members[x] = {}
    /\ misfreed[x] \subseteq {<<2, "queue">>}

\* The shutdown: as long as the file is there and nobody needs it, some
\* thread is on its way to remove it.
RemovalPending ==
  /\ shuttingDown <=> pc[Hook] # "none"
  /\ shuttingDown /\ contexts = 0 /\ lib[loaded].file =>
       \E t \in Threads : pc[t] \in Checking

\* A thread that is about to remove the file, or has done so, came when the
\* contexts from before the shutdown were gone.
EarlyGone == \A x \in early : pc[x] \notin Counted
RemovalSafe ==
  /\ \A x \in early : pc[x] # "none"
  /\ SettledNew =>
       /\ (\E t \in Threads : pc[t] = "checkShutdown") => Alive = {}
       /\ (\E t \in Threads : pc[t] \in {"testHandler", "sweep"}) => shuttingDown /\ EarlyGone
       /\ loaded # 0 /\ ~lib[loaded].file => shuttingDown /\ EarlyGone

LibraryInv ==
  /\ StateOK /\ HandlerTracked /\ CountersExact /\ LedgerTracked
  /\ RemovalPending /\ RemovalSafe

-------------------------------------------------------------------------------
(***************************************************************************)
(* The ledger of newContext.                                               *)
(***************************************************************************)
LEMMA WhatNewContextAllocates ==
  /\ Resources = {"control", "queue", "iocb", "members", "iocbLock", "pollLock",
                  "events", "thisObject", "buffer"}
  /\ Allocated(0) = {}
  /\ Allocated(1) = {"control"}
  /\ Allocated(2) = {"control", "queue"}
  /\ Allocated(3) = {"control", "queue", "iocb"}
  /\ Allocated(4) = {"control", "queue", "iocb"}
  /\ Allocated(5) = {"control", "queue", "iocb", "iocbLock"}
  /\ Allocated(6) = {"control", "queue", "iocb", "iocbLock", "pollLock"}
  /\ Allocated(8) = Resources \ {"members", "buffer"}
  /\ Allocated(9) = Resources \ {"members"}
<1>1. /\ Order[1] = "control" /\ Order[2] = "queue" /\ Order[3] = "iocb"
      /\ Order[4] = "members" /\ Order[5] = "iocbLock" /\ Order[6] = "pollLock"
      /\ Order[7] = "events" /\ Order[8] = "thisObject" /\ Order[9] = "buffer"
      /\ DOMAIN Order = 1 .. 9
  BY DEF Order
<1>2. /\ 1 .. 0 = {} /\ 1 .. 1 = {1} /\ 1 .. 2 = {1, 2} /\ 1 .. 3 = {1, 2, 3}
      /\ 1 .. 4 = {1, 2, 3, 4} /\ 1 .. 5 = {1, 2, 3, 4, 5}
      /\ 1 .. 6 = {1, 2, 3, 4, 5, 6} /\ 1 .. 8 = {1, 2, 3, 4, 5, 6, 7, 8}
      /\ 1 .. 9 = {1, 2, 3, 4, 5, 6, 7, 8, 9}
  OBVIOUS
<1>3. Resources = {"control", "queue", "iocb", "members", "iocbLock", "pollLock",
                   "events", "thisObject", "buffer"}
  BY <1>1, <1>2 DEF Resources
<1>4. /\ Allocated(0) = {} /\ Allocated(1) = {"control"}
      /\ Allocated(2) = {"control", "queue"}
      /\ Allocated(3) = {"control", "queue", "iocb"}
  BY <1>1, <1>2 DEF Allocated
<1>5. /\ Allocated(4) = {"control", "queue", "iocb"}
      /\ Allocated(5) = {"control", "queue", "iocb", "iocbLock"}
  BY <1>1, <1>2 DEF Allocated
<1>6. Allocated(6) = {"control", "queue", "iocb", "iocbLock", "pollLock"}
  BY <1>1, <1>2 DEF Allocated
<1>7. Allocated(8) = Resources \ {"members", "buffer"}
  BY <1>1, <1>2, <1>3 DEF Allocated
<1>8. Allocated(9) = Resources \ {"members"}
  BY <1>1, <1>2, <1>3 DEF Allocated
<1> QED
  BY <1>3, <1>4, <1>5, <1>6, <1>7, <1>8

\* A list of two frees.
LEMMA QueueAndControl ==
  ASSUME NEW things, NEW pool, NEW bound, "control" \in things
  PROVE  LET frees == <<"queue", "control">> IN
         /\ Freed(frees) = {"queue", "control"}
         /\ Misfreed(things, pool, frees, bound) \subseteq {"queue"}
         /\ "queue" \in things => Misfreed(things, pool, frees, bound) = {}
<1> DEFINE frees == <<"queue", "control">>
<1>1. DOMAIN frees = {1, 2} /\ frees[1] = "queue" /\ frees[2] = "control"
  OBVIOUS
<1> HIDE DEF frees
<1>2. Freed(frees) = {"queue", "control"}
  BY <1>1 DEF Freed
<1>3. /\ 1 .. 1 - 1 = {} /\ 1 .. 2 - 1 = {1}
  OBVIOUS
<1>4. ASSUME NEW r \in Misfreed(things, pool, frees, bound)
      PROVE  r = "queue" /\ "queue" \notin things
  <2>1. PICK j \in {1, 2} :
          /\ r = frees[j]
          /\ \/ IF frees[j] = "members" THEN ~ Pool(bound) \subseteq pool
                                        ELSE frees[j] \notin things
             \/ \E i \in 1 .. j - 1 : frees[i] \in {frees[j]} \cup PointedToFrom(frees[j])
    BY <1>1 DEF Misfreed
  <2>2. CASE j = 1
    BY <1>1, <1>3, <2>1, <2>2
  <2>3. CASE j = 2
    <3>1. r = "control" /\ PointedToFrom("control") = {"control"}
      BY <1>1, <2>1, <2>3 DEF PointedToFrom
    <3>2. \A i \in 1 .. j - 1 : frees[i] = "queue"
      BY <1>1, <1>3, <2>3
    <3> QED
      BY <1>1, <2>1, <2>3, <3>1, <3>2
  <2> QED
    BY <2>1, <2>2, <2>3
<1> QED
  BY <1>2, <1>4 DEF frees

\* The list with the pool.
LEMMA PoolQueueAndControl ==
  ASSUME NEW things, NEW pool, NEW bound, {"control", "queue", "iocb"} \subseteq things,
         Pool(bound) \subseteq pool
  PROVE  LET frees == <<"members", "iocb", "queue", "control">> IN
         /\ Freed(frees) = {"members", "iocb", "queue", "control"}
         /\ Misfreed(things, pool, frees, bound) = {}
<1> DEFINE frees == <<"members", "iocb", "queue", "control">>
<1>1. /\ DOMAIN frees = {1, 2, 3, 4} /\ frees[1] = "members" /\ frees[2] = "iocb"
      /\ frees[3] = "queue" /\ frees[4] = "control"
  OBVIOUS
<1> HIDE DEF frees
<1>2. Freed(frees) = {"members", "iocb", "queue", "control"}
  BY <1>1 DEF Freed
<1>3. /\ 1 .. 1 - 1 = {} /\ 1 .. 2 - 1 = {1} /\ 1 .. 3 - 1 = {1, 2} /\ 1 .. 4 - 1 = {1, 2, 3}
  OBVIOUS
<1>4. ASSUME NEW j \in {1, 2, 3, 4}
      PROVE  /\ IF frees[j] = "members" THEN Pool(bound) \subseteq pool
                                        ELSE frees[j] \in things
             /\ \A i \in 1 .. j - 1 : frees[i] \notin {frees[j]} \cup PointedToFrom(frees[j])
  BY <1>1, <1>3, <1>4 DEF PointedToFrom
<1>5. Misfreed(things, pool, frees, bound) = {}
  BY <1>1, <1>4 DEF Misfreed
<1> QED
  BY <1>2, <1>5 DEF frees

\* The list of deleteContext.
LEMMA DeleteList ==
  ASSUME NEW things, NEW pool, NEW bound, Allocated(8) \subseteq things,
         Pool(bound) \subseteq pool
  PROVE  /\ Freed(DeleteFrees) = Allocated(8) \cup {"members"}
         /\ Misfreed(things, pool, DeleteFrees, bound) = {}
<1>1. /\ DOMAIN DeleteFrees = {1, 2, 3, 4, 5, 6, 7, 8}
      /\ DeleteFrees[1] = "queue" /\ DeleteFrees[2] = "pollLock"
      /\ DeleteFrees[3] = "iocbLock" /\ DeleteFrees[4] = "members"
      /\ DeleteFrees[5] = "iocb" /\ DeleteFrees[6] = "thisObject"
      /\ DeleteFrees[7] = "events" /\ DeleteFrees[8] = "control"
  BY DEF DeleteFrees
<1>2. Freed(DeleteFrees) = Allocated(8) \cup {"members"}
  BY <1>1, WhatNewContextAllocates DEF Freed
<1>3. /\ 1 .. 1 - 1 = {} /\ 1 .. 2 - 1 = {1} /\ 1 .. 3 - 1 = {1, 2} /\ 1 .. 4 - 1 = {1, 2, 3}
      /\ 1 .. 5 - 1 = {1, 2, 3, 4} /\ 1 .. 6 - 1 = {1, 2, 3, 4, 5}
      /\ 1 .. 7 - 1 = {1, 2, 3, 4, 5, 6} /\ 1 .. 8 - 1 = {1, 2, 3, 4, 5, 6, 7}
  OBVIOUS
<1>4. \A j \in {1, 2, 3, 4, 5, 6, 7, 8} :
        IF DeleteFrees[j] = "members" THEN Pool(bound) \subseteq pool
                                      ELSE DeleteFrees[j] \in things
  BY <1>1, WhatNewContextAllocates
<1>5. ASSUME NEW j \in {1, 2, 3, 4}
      PROVE  \A i \in 1 .. j - 1 :
               DeleteFrees[i] \notin {DeleteFrees[j]} \cup PointedToFrom(DeleteFrees[j])
  BY <1>1, <1>3 DEF PointedToFrom
<1>6. ASSUME NEW j \in {5, 6, 7, 8}
      PROVE  \A i \in 1 .. j - 1 :
               DeleteFrees[i] \notin {DeleteFrees[j]} \cup PointedToFrom(DeleteFrees[j])
  BY <1>1, <1>3 DEF PointedToFrom
<1>7. Misfreed(things, pool, DeleteFrees, bound) = {}
  BY <1>1, <1>4, <1>5, <1>6 DEF Misfreed
<1> QED
  BY <1>2, <1>7

\* What each failure of newContext leaves.
LEMMA WhatFailureLeaves ==
  ASSUME NEW k \in 1 .. 7, NEW n \in Nat,
         k < 4 => n = 0, k > 4 => n = QueueSize
  PROVE  LET things == Allocated(k - 1)
             pool == Pool(n)
             frees == FailureFrees[k]
             bound == DestroyBound(k, n) IN
         /\ things \ Freed(frees) \subseteq Locks
         /\ (IF "members" \in Freed(frees) THEN pool \ Pool(bound) ELSE pool) = {}
         /\ {<<k, r>> : r \in Misfreed(things, pool, frees, bound)} \subseteq {<<2, "queue">>}
<1> USE WhatNewContextAllocates
<1> DEFINE bound == DestroyBound(k, n)
<1>1. CASE k = 1
  <2>1. FailureFrees[1] = <<>> /\ k - 1 = 0 /\ n = 0
    BY <1>1 DEF FailureFrees
  <2>2. DOMAIN <<>> = {}
    OBVIOUS
  <2>3. Freed(<<>>) = {} /\ Misfreed(Allocated(0), Pool(n), <<>>, bound) = {}
    BY <2>2 DEF Freed, Misfreed
  <2>4. Pool(n) = {}
    BY <2>1 DEF Pool
  <2> QED
    BY <1>1, <2>1, <2>3, <2>4
<1>2. CASE k \in {2, 3}
  <2>1. FailureFrees[k] = <<"queue", "control">> /\ n = 0
    BY <1>2 DEF FailureFrees
  <2>2. k - 1 = IF k = 2 THEN 1 ELSE 2
    BY <1>2
  <2>3. /\ "control" \in Allocated(k - 1) /\ Allocated(k - 1) \subseteq {"control", "queue"}
        /\ k = 3 => "queue" \in Allocated(k - 1)
    BY <1>2, <2>2
  <2>4. Pool(n) = {}
    BY <2>1 DEF Pool
  <2>5. /\ Freed(FailureFrees[k]) = {"queue", "control"}
        /\ Misfreed(Allocated(k - 1), Pool(n), FailureFrees[k], bound) \subseteq {"queue"}
        /\ k = 3 => Misfreed(Allocated(k - 1), Pool(n), FailureFrees[k], bound) = {}
    BY <2>1, <2>3, QueueAndControl
  <2> QED
    BY <1>2, <2>3, <2>4, <2>5
<1>3. CASE k \in {4, 5, 6, 7}
  <2>1. FailureFrees[k] = <<"members", "iocb", "queue", "control">>
    BY <1>3 DEF FailureFrees
  <2>2. k - 1 = CASE k = 4 -> 3 [] k = 5 -> 4 [] k = 6 -> 5 [] OTHER -> 6
    BY <1>3
  <2>3. /\ {"control", "queue", "iocb"} \subseteq Allocated(k - 1)
        /\ Allocated(k - 1) \subseteq {"control", "queue", "iocb"} \cup Locks
    BY <1>3, <2>2 DEF Locks
  <2>4. bound = n
    BY <1>3 DEF DestroyBound
  <2>5. /\ Freed(FailureFrees[k]) = {"members", "iocb", "queue", "control"}
        /\ Misfreed(Allocated(k - 1), Pool(n), FailureFrees[k], bound) = {}
    BY <2>1, <2>3, <2>4, PoolQueueAndControl
  <2> QED
    BY <2>3, <2>4, <2>5
<1>4. k = 1 \/ k \in {2, 3} \/ k \in {4, 5, 6, 7}
  OBVIOUS
<1> QED
  BY <1>1, <1>2, <1>3, <1>4

-------------------------------------------------------------------------------
(***************************************************************************)
(* Loading.                                                                *)
(***************************************************************************)
LEMMA WhatOnLoadDoes ==
  /\ Len(OnLoadSteps) = 10
  /\ \A k \in 1 .. 10 : "mkstemp" \in Succeeded(k) <=> k >= 3
  /\ "pthread_mutex_init" \in Succeeded(10)
<1>1. Len(OnLoadSteps) = 10
  BY DEF OnLoadSteps
<1>2. ASSUME NEW k \in 1 .. 10, k >= 3 PROVE "mkstemp" \in Succeeded(k)
  <2>1. 3 \in 1 .. k /\ OnLoadSteps[3] = "mkstemp"
    BY <1>2 DEF OnLoadSteps
  <2> QED
    BY <2>1 DEF Succeeded
<1>3. ASSUME NEW k \in 1 .. 10, k < 3 PROVE "mkstemp" \notin Succeeded(k)
  <2>1. \A j \in 1 .. k : j \in {1, 2}
    BY <1>3
  <2>2. OnLoadSteps[1] = "GetEnv" /\ OnLoadSteps[2] = "pthread_mutex_init"
    BY DEF OnLoadSteps
  <2> QED
    BY <2>1, <2>2 DEF Succeeded
<1>4. "pthread_mutex_init" \in Succeeded(10)
  <2>1. 2 \in 1 .. 10 /\ OnLoadSteps[2] = "pthread_mutex_init"
    BY DEF OnLoadSteps
  <2> QED
    BY <2>1 DEF Succeeded
<1>5. \A k \in 1 .. 10 : k >= 3 \/ k < 3
  OBVIOUS
<1> QED
  BY <1>1, <1>2, <1>3, <1>4, <1>5

\* mkstemp never gets descriptor 0.
LEMMA NewDescriptor ==
  ASSUME StateOK, HandlerTracked, loaded = 0, loading \in Libraries
  PROVE  LowestFree \in {1, 2} /\ LowestFree <= loading /\ descriptors[LowestFree] = Closed
<1>1. descriptors[0] = StdIn /\ descriptors[2] = Closed /\ (loading = 1 => descriptors[1] = Closed)
  BY DEF HandlerTracked, Libraries
<1>2. StdIn # Closed /\ loading \in {1, 2}
  BY LibraryAssumption DEF StdIn, Libraries
<1> DEFINE Q(d) == descriptors[d] = Closed /\ \A e \in 0 .. d - 1 : descriptors[e] # Closed
<1>3. CASE descriptors[1] = Closed
  <2>1. 1 \in Descriptors /\ Q(1)
    BY <1>1, <1>2, <1>3 DEF Descriptors
  <2>2. \A d \in Descriptors : Q(d) => d = 1
    <3>1. \A d \in Descriptors : d \in {0, 1, 2} /\ (d = 2 => 1 \in 0 .. d - 1)
      BY DEF Descriptors
    <3> QED
      BY <1>1, <1>2, <1>3, <3>1
  <2>3. LowestFree = 1
    BY <2>1, <2>2 DEF LowestFree
  <2> QED
    BY <1>2, <1>3, <2>3
<1>4. CASE descriptors[1] # Closed
  <2>1. loading = 2
    BY <1>1, <1>2, <1>4
  <2>2. 2 \in Descriptors /\ Q(2)
    <3>1. \A e \in 0 .. 2 - 1 : e \in {0, 1}
      OBVIOUS
    <3> QED
      BY <1>1, <1>2, <1>4, <3>1 DEF Descriptors
  <2>3. \A d \in Descriptors : Q(d) => d = 2
    BY <1>1, <1>2, <1>4 DEF Descriptors
  <2>4. LowestFree = 2
    BY <2>2, <2>3 DEF LowestFree
  <2> QED
    BY <1>1, <2>1, <2>4
<1> QED
  BY <1>3, <1>4

\* What JNI_OnLoad leaves behind, at whatever step it ends.
LEMMA OnLoad ==
  ASSUME StateOK, HandlerTracked, loaded = 0, loading \in Libraries,
         NEW k \in 1 .. 10, JNI_OnLoad(loading, k)
  PROVE  /\ lib' \in [Libraries -> LibType]
         /\ descriptors' \in [Descriptors -> Libraries \cup {StdIn, Closed}]
         /\ descriptors'[0] = StdIn
         /\ \A d \in Descriptors : d > loading => descriptors'[d] = descriptors[d]
         /\ k = 10 => /\ lib'[loading].file /\ lib'[loading].dumbWriteHandler \in {1, 2}
                      /\ descriptors'[lib'[loading].dumbWriteHandler] = loading
<1> DEFINE f == LowestFree
           ok == "mkstemp" \in Succeeded(k)
           new == [mapped |-> k = Len(OnLoadSteps),
                   mutex |-> "pthread_mutex_init" \in Succeeded(k),
                   dumbWriteHandler |-> IF ok THEN f
                                        ELSE IF "pthread_mutex_init" \in Succeeded(k) THEN -1
                                        ELSE 0,
                   file |-> ok, classes |-> Succeeded(k) \cap Classes]
<1>1. f \in {1, 2} /\ f <= loading
  BY NewDescriptor
<1>2. lib' = [lib EXCEPT ![loading] = new]
  BY DEF JNI_OnLoad
<1>3. descriptors' = IF ok THEN [descriptors EXCEPT ![f] = loading] ELSE descriptors
  BY DEF JNI_OnLoad
<1>4. k = 10 => ok
  BY WhatOnLoadDoes
<1>5. /\ lib \in [Libraries -> LibType] /\ loading \in {1, 2} /\ descriptors[0] = StdIn
      /\ descriptors \in [Descriptors -> Libraries \cup {StdIn, Closed}]
  BY DEF StateOK, HandlerTracked, Libraries
<1> DEFINE h == IF ok THEN f ELSE IF "pthread_mutex_init" \in Succeeded(k) THEN -1 ELSE 0
<1>6. h \in Descriptors \cup {-1}
  <2> HIDE DEF ok, f
  <2> QED
    BY <1>1 DEF Descriptors
<1>7. new \in LibType /\ new.file = ok /\ new.dumbWriteHandler = h
  <2> HIDE DEF h
  <2>1. new = [mapped |-> k = Len(OnLoadSteps),
               mutex |-> "pthread_mutex_init" \in Succeeded(k),
               dumbWriteHandler |-> h, file |-> ok, classes |-> Succeeded(k) \cap Classes]
    BY DEF h
  <2>2. (k = Len(OnLoadSteps)) \in BOOLEAN /\ ("pthread_mutex_init" \in Succeeded(k)) \in BOOLEAN
        /\ ok \in BOOLEAN
    OBVIOUS
  <2> HIDE DEF new, ok
  <2> QED
    BY <1>6, <2>1, <2>2 DEF LibType
<1> HIDE DEF new
<1>8. lib' \in [Libraries -> LibType] /\ lib'[loading] = new
  BY <1>2, <1>5, <1>7
<1>9. ok => h = f
  OBVIOUS
<1> HIDE DEF f, ok, h
<1>10. /\ descriptors' \in [Descriptors -> Libraries \cup {StdIn, Closed}]
       /\ descriptors'[0] = StdIn
       /\ \A d \in Descriptors : d > loading => descriptors'[d] = descriptors[d]
       /\ ok => descriptors'[f] = loading
  BY <1>1, <1>3, <1>5 DEF Descriptors, Libraries
<1> QED
  BY <1>1, <1>4, <1>7, <1>8, <1>9, <1>10

-------------------------------------------------------------------------------
(***************************************************************************)
(* Who does what.                                                          *)
(***************************************************************************)
LoadStep == loadLibrary \/ loadLibraryFails \/ \E l \in Libraries : JNI_OnUnload(l)
ContextStep(x) ==
  \/ construct(x) \/ newContext(x) \/ newContextFails(x) \/ constructed(x)
  \/ close(x) \/ deleteContext(x) \/ deleteContextThrows(x) \/ decrement(x)
CheckStep(t) == checkContexts(t) \/ checkShutdown(t) \/ testHandler(t) \/ closeDumbHandlers(t)

LEMMA NextByActor ==
  ASSUME [Next]_vars
  PROVE  \/ LoadStep \/ shutdown
         \/ \E x \in Contexts : ContextStep(x)
         \/ \E t \in Threads : CheckStep(t)
         \/ UNCHANGED vars
BY DEF Next, LoadStep, ContextStep, CheckStep

\* A thread goes on.
LEMMA ThreadMoves ==
  ASSUME StateOK, NEW t \in Threads, NEW l \in Labels, Goto(t, l)
  PROVE  /\ pc' \in [Threads -> Labels] /\ pc'[t] = l
         /\ \A u \in Threads \ {t} : pc'[u] = pc[u]
         /\ (t # Hook \/ l \in HookLabels) => pc'[Hook] \in HookLabels
BY DEF StateOK, Goto, Threads

\* The thread of a context.
LEMMA ContextMoves ==
  ASSUME StateOK, NEW x \in Contexts, ContextStep(x)
  PROVE  /\ x \in Threads /\ x # Hook
         /\ UNCHANGED <<loadVars, shuttingDown>>
         /\ pc' \in [Threads -> Labels] /\ pc'[Hook] = pc[Hook]
         /\ \A u \in Threads \ {x} : pc'[u] = pc[u]
         /\ pc[x] \in Labels \ {"checkContexts", "checkShutdown", "testHandler", "sweep", "returned"}
         /\ pc'[x] \in Labels \ {"none", "checkShutdown", "testHandler", "sweep", "returned"}
<1>1. x \in Threads /\ x # Hook /\ Hook \in Threads
  BY LibraryAssumption DEF Threads
<1>2. UNCHANGED <<loadVars, shuttingDown>>
  BY DEF ContextStep, construct, newContext, newContextFails, constructed, close,
         deleteContext, deleteContextThrows, decrement
<1>3. PICK l \in Labels \ {"none", "checkShutdown", "testHandler", "sweep", "returned"} : Goto(x, l)
  BY DEF ContextStep, construct, newContext, newContextFails, constructed, close,
         deleteContext, deleteContextThrows, decrement, Labels
<1>4. pc[x] \in Labels \ {"checkContexts", "checkShutdown", "testHandler", "sweep", "returned"}
  BY DEF ContextStep, construct, newContext, newContextFails, constructed, close,
         deleteContext, deleteContextThrows, decrement, Labels
<1> QED
  BY <1>1, <1>2, <1>3, <1>4, ThreadMoves

\* A thread in checkShutdown.
LEMMA CheckMoves ==
  ASSUME StateOK, NEW t \in Threads, CheckStep(t)
  PROVE  /\ UNCHANGED <<loading, loaded, staticVars, ledgerVars, early>>
         /\ pc' \in [Threads -> Labels] /\ \A u \in Threads \ {t} : pc'[u] = pc[u]
         /\ pc[t] \in Checking
         /\ pc'[t] \in {"checkShutdown", "testHandler", "sweep", "returned"}
         /\ pc'[Hook] \in HookLabels
         /\ (pc'[Hook] = "none" <=> pc[Hook] = "none")
<1>1. UNCHANGED <<loading, loaded, staticVars, ledgerVars, early>> /\ pc[t] \in Checking
  BY DEF CheckStep, checkContexts, checkShutdown, testHandler, closeDumbHandlers, Checking
<1>2. PICK l \in {"checkShutdown", "testHandler", "sweep", "returned"} : Goto(t, l)
  BY DEF CheckStep, checkContexts, checkShutdown, testHandler, closeDumbHandlers, Return
<1>3. l \in Labels /\ l \in HookLabels /\ l # "none"
  BY <1>2 DEF Labels, HookLabels
<1>4. /\ pc' \in [Threads -> Labels] /\ pc'[t] = l
      /\ \A u \in Threads \ {t} : pc'[u] = pc[u] /\ pc'[Hook] \in HookLabels
  BY <1>2, <1>3, ThreadMoves DEF StateOK
<1>5. pc'[Hook] = "none" <=> pc[Hook] = "none"
  BY <1>1, <1>3, <1>4 DEF Checking, Threads
<1>6. pc'[Hook] \in HookLabels
  BY <1>2, <1>3, ThreadMoves
<1> QED
  BY <1>1, <1>2, <1>4, <1>5, <1>6

\* Once something runs, a library is in use.
LEMMA LibraryInUse ==
  ASSUME StateOK, HandlerTracked, NEW t \in Threads, pc[t] # "none"
  PROVE  loaded \in Libraries
BY DEF StateOK, HandlerTracked, Libraries

\* What closeDumbHandlers leaves.
LEMMA SweptLibrary ==
  ASSUME StateOK, NEW l \in Libraries
  PROVE  /\ Swept(l) \in LibType
         /\ Swept(l).dumbWriteHandler = 0 /\ Swept(l).file = FALSE
<1>1. lib[l] \in LibType /\ 0 \in Descriptors
  BY DEF StateOK, Descriptors
<1>2. \A r \in LibType : [r EXCEPT !.dumbWriteHandler = 0, !.file = FALSE] \in LibType
  BY <1>1 DEF LibType
<1>3. \A r \in LibType : /\ [r EXCEPT !.dumbWriteHandler = 0, !.file = FALSE].dumbWriteHandler = 0
                         /\ [r EXCEPT !.dumbWriteHandler = 0, !.file = FALSE].file = FALSE
  BY DEF LibType
<1>4. PICK r \in LibType : r = lib[l]
  BY <1>1
<1>5. Swept(l) = [r EXCEPT !.dumbWriteHandler = 0, !.file = FALSE]
  BY <1>4 DEF Swept
<1> QED
  BY <1>2, <1>3, <1>5, Zenon

-------------------------------------------------------------------------------
(***************************************************************************)
(* Types.                                                                  *)
(***************************************************************************)
\* A failed newContext.
LEMMA FailureLedger ==
  ASSUME NEW x \in Contexts, newContextFails(x)
  PROVE  \E h \in SUBSET Locks, f \in SUBSET {<<2, "queue">>} :
           /\ held' = [held EXCEPT ![x] = h]
           /\ members' = [members EXCEPT ![x] = {}]
           /\ misfreed' = [misfreed EXCEPT ![x] = @ \cup f]
<1>1. PICK k \in 1 .. 7, n \in 0 .. QueueSize :
        /\ k < 4 => n = 0
        /\ k > 4 => n = QueueSize
        /\ Free(x, k, Allocated(k - 1), Pool(n), FailureFrees[k], DestroyBound(k, n))
  BY DEF newContextFails
<1> DEFINE h == Allocated(k - 1) \ Freed(FailureFrees[k])
           m == IF "members" \in Freed(FailureFrees[k])
                THEN Pool(n) \ Pool(DestroyBound(k, n)) ELSE Pool(n)
           f == {<<k, r>> : r \in Misfreed(Allocated(k - 1), Pool(n), FailureFrees[k],
                                            DestroyBound(k, n))}
<1>2. n \in Nat
  BY LibraryAssumption
<1>3. h \subseteq Locks /\ m = {} /\ f \subseteq {<<2, "queue">>}
  BY <1>1, <1>2, WhatFailureLeaves
<1>4. /\ held' = [held EXCEPT ![x] = h]
      /\ members' = [members EXCEPT ![x] = m]
      /\ misfreed' = [misfreed EXCEPT ![x] = @ \cup f]
  BY <1>1 DEF Free
<1> HIDE DEF h, m, f
<1> QED
  BY <1>3, <1>4

\* A deleteContext that does not throw.
LEMMA DeletionLedger ==
  ASSUME LedgerTracked, NEW x \in Contexts, deleteContext(x)
  PROVE  /\ held' = [held EXCEPT ![x] = {"buffer"}]
         /\ members' = [members EXCEPT ![x] = {}]
         /\ misfreed' = [misfreed EXCEPT ![x] = @ \cup {}]
<1> DEFINE frees == DeleteFrees
<1>1. held[x] = Allocated(9) /\ members[x] = Pool(QueueSize)
  BY DEF deleteContext, LedgerTracked
<1>2. DestroyBound(0, QueueSize) = QueueSize
  BY DEF DestroyBound
<1>3. Allocated(8) \subseteq held[x]
  BY <1>1, WhatNewContextAllocates
<1>4. /\ Freed(frees) = Allocated(8) \cup {"members"}
      /\ Misfreed(held[x], members[x], frees, QueueSize) = {}
  BY <1>1, <1>3, DeleteList
<1>5. held[x] \ Freed(frees) = {"buffer"}
  BY <1>1, <1>4, WhatNewContextAllocates
<1>6. /\ held' = [held EXCEPT ![x] = held[x] \ Freed(frees)]
      /\ members' = [members EXCEPT ![x] = members[x] \ Pool(QueueSize)]
      /\ misfreed' = [misfreed EXCEPT ![x] =
            @ \cup {<<0, r>> : r \in Misfreed(held[x], members[x], frees, QueueSize)}]
  BY <1>2, <1>4 DEF deleteContext, Free
<1>7. {<<0, r>> : r \in Misfreed(held[x], members[x], frees, QueueSize)} = {}
  BY <1>4
<1> QED
  BY <1>1, <1>5, <1>6, <1>7

LEMMA NextKeepsTypes ==
  ASSUME StateOK, HandlerTracked, LedgerTracked, [Next]_vars
  PROVE  StateOK'
<1>0. /\ loading \in 1 .. 3 /\ loaded \in 0 .. 2 /\ lib \in [Libraries -> LibType]
      /\ descriptors \in [Descriptors -> Libraries \cup {StdIn, Closed}]
      /\ contexts \in Int /\ totalMaxIO \in Int /\ QueueSize \in Nat \ {0}
      /\ held \in [Contexts -> SUBSET Resources]
      /\ members \in [Contexts -> SUBSET Pool(QueueSize)]
      /\ misfreed \in [Contexts -> SUBSET ((0 .. 7) \X Resources)]
      /\ pc \in [Threads -> Labels] /\ pc[Hook] \in HookLabels
  BY LibraryAssumption DEF StateOK
<1>1. ASSUME LoadStep PROVE StateOK'
  <2>0. UNCHANGED <<staticVars, ledgerVars, pc, early>> /\ loaded = 0
    BY <1>1 DEF LoadStep, loadLibrary, loadLibraryFails, JNI_OnUnload
  <2>1. CASE loadLibrary
    <3>1. loading \in Libraries /\ JNI_OnLoad(loading, 10) /\ loaded' = loading /\ UNCHANGED loading
      BY <2>1, WhatOnLoadDoes DEF loadLibrary
    <3>2. lib' \in [Libraries -> LibType] /\ descriptors' \in [Descriptors -> Libraries \cup {StdIn, Closed}]
      <4>1. 10 \in 1 .. 10
        OBVIOUS
      <4> QED
        BY <2>0, <3>1, <4>1, OnLoad
    <3> QED
      BY <1>0, <2>0, <3>1, <3>2 DEF StateOK, Libraries
  <2>2. CASE loadLibraryFails
    <3>1. loading \in Libraries /\ loading' = loading + 1 /\ UNCHANGED loaded
      BY <2>2 DEF loadLibraryFails
    <3>2. UNCHANGED <<lib, descriptors>> \/ \E k \in 1 .. 10 : JNI_OnLoad(loading, k)
      BY <2>2, WhatOnLoadDoes DEF loadLibraryFails
    <3>3. lib' \in [Libraries -> LibType] /\ descriptors' \in [Descriptors -> Libraries \cup {StdIn, Closed}]
      BY <1>0, <2>0, <3>1, <3>2, OnLoad
    <3> QED
      BY <1>0, <2>0, <3>1, <3>3 DEF StateOK, Libraries
  <2>3. CASE \E l \in Libraries : JNI_OnUnload(l)
    <3>1. PICK l \in Libraries : JNI_OnUnload(l)
      BY <2>3
    <3>2. UNCHANGED <<loading, loaded>>
      BY <3>1 DEF JNI_OnUnload
    <3>3. Unmapped \in LibType
      BY DEF Unmapped, LibType, Descriptors
    <3>4. lib' \in [Libraries -> LibType]
      <4>1. [lib[l] EXCEPT !.mapped = FALSE] \in LibType
        BY <1>0 DEF LibType
      <4>2. lib' = [lib EXCEPT ![l] = Unmapped] \/ lib' = [lib EXCEPT ![l] = [lib[l] EXCEPT !.mapped = FALSE]]
        BY <3>1 DEF JNI_OnUnload
      <4> HIDE DEF LibType, Unmapped
      <4> QED
        BY <1>0, <3>3, <4>1, <4>2
    <3>5. descriptors' \in [Descriptors -> Libraries \cup {StdIn, Closed}]
      BY <1>0, <3>1 DEF JNI_OnUnload, DescriptorsSwept
    <3> QED
      BY <1>0, <2>0, <3>2, <3>4, <3>5 DEF StateOK
  <2> QED
    BY <1>1, <2>1, <2>2, <2>3 DEF LoadStep
<1>2. ASSUME NEW x \in Contexts, ContextStep(x) PROVE StateOK'
  <2>0. /\ UNCHANGED <<loadVars, shuttingDown>> /\ pc' \in [Threads -> Labels]
        /\ pc'[Hook] \in HookLabels
    BY <1>0, <1>2, ContextMoves
  <2>1. contexts' \in Int /\ totalMaxIO' \in Int /\ early' \subseteq Contexts
    BY <1>0, <1>2 DEF ContextStep, construct, newContext, newContextFails, constructed, close,
         deleteContext, deleteContextThrows, decrement, StateOK
  <2>2. /\ held' \in [Contexts -> SUBSET Resources]
        /\ members' \in [Contexts -> SUBSET Pool(QueueSize)]
        /\ misfreed' \in [Contexts -> SUBSET ((0 .. 7) \X Resources)]
    <3>1. CASE newContext(x)
      <4>1. PICK h \in {Allocated(8), Allocated(9)} :
              /\ held' = [held EXCEPT ![x] = h] /\ members' = [members EXCEPT ![x] = Pool(QueueSize)]
              /\ UNCHANGED misfreed
        BY <3>1 DEF newContext
      <4>2. h \subseteq Resources
        BY <4>1, WhatNewContextAllocates
      <4> QED
        BY <1>0, <4>1, <4>2
    <3>2. CASE newContextFails(x)
      <4>1. PICK h \in SUBSET Locks, f \in SUBSET {<<2, "queue">>} :
              /\ held' = [held EXCEPT ![x] = h]
              /\ members' = [members EXCEPT ![x] = {}]
              /\ misfreed' = [misfreed EXCEPT ![x] = @ \cup f]
        BY <3>2, FailureLedger
      <4>2. Locks \subseteq Resources /\ "queue" \in Resources
        BY WhatNewContextAllocates DEF Locks
      <4>3. misfreed[x] \cup f \subseteq (0 .. 7) \X Resources
        BY <1>0, <4>2
      <4> QED
        BY <1>0, <4>1, <4>2, <4>3
    <3>3. CASE deleteContext(x)
      <4>1. "buffer" \in Resources
        BY WhatNewContextAllocates
      <4>2. misfreed[x] \cup {} \subseteq (0 .. 7) \X Resources
        BY <1>0
      <4> QED
        BY <1>0, <3>3, <4>1, <4>2, DeletionLedger
    <3>4. CASE ~(newContext(x) \/ newContextFails(x) \/ deleteContext(x))
      BY <1>0, <1>2, <3>4 DEF ContextStep, construct, constructed, close, deleteContextThrows, decrement
    <3> QED
      BY <3>1, <3>2, <3>3, <3>4
  <2> QED
    BY <2>0, <2>1, <2>2 DEF StateOK
<1>3. ASSUME shutdown PROVE StateOK'
  <2>1. UNCHANGED <<loadVars, contexts, totalMaxIO, ledgerVars, early>> /\ shuttingDown' = TRUE
    BY <1>3 DEF shutdown
  <2>2. Hook \in Threads /\ "checkContexts" \in Labels /\ "checkContexts" \in HookLabels
    BY DEF Threads, Labels, HookLabels
  <2>3. pc' \in [Threads -> Labels] /\ pc'[Hook] \in HookLabels
    BY <1>3, <2>2, ThreadMoves DEF shutdown
  <2> QED
    BY <2>1, <2>3 DEF StateOK
<1>4. ASSUME NEW t \in Threads, CheckStep(t) PROVE StateOK'
  <2>1. /\ UNCHANGED <<loading, loaded, staticVars, ledgerVars, early>>
        /\ pc' \in [Threads -> Labels] /\ pc'[Hook] \in HookLabels /\ pc[t] \in Checking
    BY <1>4, CheckMoves
  <2>2. loaded \in Libraries
    BY <2>1, LibraryInUse DEF Checking
  <2>3. CASE closeDumbHandlers(t)
    <3>1. Swept(loaded) \in LibType
      BY <2>2, SweptLibrary
    <3>2. lib' \in [Libraries -> LibType]
      <4> HIDE DEF LibType
      <4> QED
        BY <1>0, <2>2, <2>3, <3>1 DEF closeDumbHandlers
    <3>3. descriptors' \in [Descriptors -> Libraries \cup {StdIn, Closed}]
      BY <1>0, <2>3 DEF closeDumbHandlers, DescriptorsSwept
    <3> QED
      BY <2>1, <3>2, <3>3 DEF StateOK
  <2>4. CASE ~closeDumbHandlers(t)
    <3>1. UNCHANGED loadVars
      BY <1>4, <2>4 DEF CheckStep, checkContexts, checkShutdown, testHandler
    <3> QED
      BY <2>1, <3>1 DEF StateOK
  <2> QED
    BY <2>3, <2>4
<1>5. UNCHANGED vars => StateOK'
  BY DEF vars, StateOK
<1> QED
  BY <1>1, <1>2, <1>3, <1>4, <1>5, NextByActor

-------------------------------------------------------------------------------
(***************************************************************************)
(* The handler of the dumb file.                                           *)
(***************************************************************************)
LEMMA NextKeepsHandler ==
  ASSUME StateOK, HandlerTracked, [Next]_vars
  PROVE  HandlerTracked'
<1>0. /\ lib \in [Libraries -> LibType] /\ loading \in 1 .. 3 /\ loaded \in 0 .. 2
      /\ descriptors \in [Descriptors -> Libraries \cup {StdIn, Closed}]
  BY DEF StateOK
<1>1. ASSUME LoadStep PROVE HandlerTracked'
  <2>0. /\ UNCHANGED <<pc, shuttingDown, early>> /\ loaded = 0
        /\ (\A t \in Threads : pc[t] = "none") /\ ~shuttingDown /\ early = {}
    BY <1>1 DEF LoadStep, loadLibrary, loadLibraryFails, JNI_OnUnload, HandlerTracked
  <2>1. CASE loadLibrary
    <3>1. loading \in Libraries /\ JNI_OnLoad(loading, 10) /\ loaded' = loading /\ 10 \in 1 .. 10
      BY <2>1, WhatOnLoadDoes DEF loadLibrary
    <3>2. /\ lib'[loading].file /\ lib'[loading].dumbWriteHandler \in {1, 2}
          /\ descriptors'[lib'[loading].dumbWriteHandler] = loading
      BY <2>0, <3>1, OnLoad
    <3>3. loaded' # 0
      BY <3>1 DEF Libraries
    <3> QED
      BY <3>1, <3>2, <3>3 DEF HandlerTracked
  <2>2. CASE loadLibraryFails
    <3>1. loading \in Libraries /\ loading' = loading + 1 /\ loaded' = 0
      BY <2>0, <2>2 DEF loadLibraryFails
    <3>2. UNCHANGED <<lib, descriptors>> \/ \E k \in 1 .. 10 : JNI_OnLoad(loading, k)
      BY <2>2, WhatOnLoadDoes DEF loadLibraryFails
    <3>3. /\ descriptors'[0] = StdIn
          /\ \A d \in Descriptors : d > loading => descriptors'[d] = descriptors[d]
      BY <2>0, <3>1, <3>2, OnLoad DEF HandlerTracked
    <3>4. \A d \in loading' .. 2 : d \in Descriptors /\ d > loading /\ d \in loading .. 2
      BY <1>0, <3>1 DEF Descriptors
    <3>5. \A d \in loading' .. 2 : descriptors'[d] = Closed
      BY <2>0, <3>1, <3>3, <3>4 DEF HandlerTracked
    <3> QED
      BY <2>0, <3>1, <3>3, <3>5 DEF HandlerTracked
  <2>3. CASE \E l \in Libraries : JNI_OnUnload(l)
    <3>1. UNCHANGED <<loading, loaded>> /\ loading \notin Libraries
      BY <2>3 DEF JNI_OnUnload
    <3> QED
      BY <2>0, <3>1 DEF HandlerTracked
  <2> QED
    BY <1>1, <2>1, <2>2, <2>3 DEF LoadStep
<1>2. ASSUME NEW x \in Contexts, ContextStep(x) PROVE HandlerTracked'
  <2>1. UNCHANGED loadVars /\ x \in Threads
    BY <1>2, ContextMoves
  <2>2. loaded # 0
    BY <1>0, <1>2, <2>1 DEF ContextStep, construct, newContext, newContextFails, constructed,
         close, deleteContext, deleteContextThrows, decrement, HandlerTracked
  <2> QED
    BY <2>1, <2>2 DEF HandlerTracked
<1>3. ASSUME shutdown PROVE HandlerTracked'
  BY <1>3 DEF shutdown, HandlerTracked
<1>4. ASSUME NEW t \in Threads, CheckStep(t) PROVE HandlerTracked'
  <2>1. UNCHANGED <<loading, loaded>> /\ pc[t] # "none"
    BY <1>4, CheckMoves DEF Checking
  <2>2. loaded \in Libraries /\ loaded # 0
    BY <1>0, <2>1, LibraryInUse DEF Libraries
  <2>3. CASE closeDumbHandlers(t)
    <3>1. lib'[loaded] = Swept(loaded)
      BY <1>0, <2>2, <2>3 DEF closeDumbHandlers
    <3> QED
      BY <2>1, <2>2, <3>1, SweptLibrary DEF HandlerTracked
  <2>4. CASE ~closeDumbHandlers(t)
    <3>1. UNCHANGED loadVars
      BY <1>4, <2>4 DEF CheckStep, checkContexts, checkShutdown, testHandler
    <3> QED
      BY <2>2, <3>1 DEF HandlerTracked
  <2> QED
    BY <2>3, <2>4
<1>5. UNCHANGED vars => HandlerTracked'
  BY DEF vars, HandlerTracked
<1> QED
  BY <1>1, <1>2, <1>3, <1>4, <1>5, NextByActor

-------------------------------------------------------------------------------
(***************************************************************************)
(* The counters.                                                           *)
(***************************************************************************)
LEMMA OneMore ==
  ASSUME NEW q \in Int, NEW n \in Int
  PROVE  q * (n + 1) = q * n + q /\ q * (n - 1) = q * n - q
OBVIOUS

LEMMA SubsetsCounted ==
  ASSUME StateOK
  PROVE  /\ IsFiniteSet(Alive) /\ Cardinality(Alive) \in Nat
         /\ Cardinality(Alive) <= Cardinality(Contexts)
         /\ IsFiniteSet(Open) /\ Cardinality(Open) \in Nat
         /\ Cardinality(Open) <= Cardinality(Contexts)
         /\ Cardinality(Contexts) \in Nat
<1>1. Alive \subseteq Contexts /\ Open \subseteq Contexts
  BY DEF Alive, Open
<1> QED
  BY <1>1, LibraryAssumption, FS_Subset, FS_CardinalityType

LEMMA NextKeepsCounters ==
  ASSUME StateOK, CountersExact, [Next]_vars
  PROVE  CountersExact'
<1>0. pc \in [Threads -> Labels] /\ QueueSize \in Int /\ contexts \in Int /\ totalMaxIO \in Int
  BY LibraryAssumption DEF StateOK
<1>1. ASSUME UNCHANGED <<contexts, totalMaxIO>>,
             \A x \in Contexts : /\ pc'[x] \in Counted <=> pc[x] \in Counted
                                 /\ pc'[x] \in {"open", "openNull"} <=> pc[x] \in {"open", "openNull"}
      PROVE  CountersExact'
  <2>1. Alive' = Alive /\ Open' = Open
    BY <1>1 DEF Alive, Open
  <2> QED
    BY <1>1, <2>1 DEF CountersExact
<1>2. ASSUME UNCHANGED <<contexts, totalMaxIO, pc>> PROVE CountersExact'
  BY <1>1, <1>2
<1>3. ASSUME LoadStep PROVE CountersExact'
  BY <1>2, <1>3 DEF LoadStep, loadLibrary, loadLibraryFails, JNI_OnUnload
<1>4. ASSUME NEW x \in Contexts, ContextStep(x) PROVE CountersExact'
  <2>0. \A y \in Contexts \ {x} : pc'[y] = pc[y]
    BY <1>4, ContextMoves DEF Threads
  <2>1. x \in Threads
    BY DEF Threads
  <2>2. CASE construct(x)
    <3>1. pc[x] = "none" /\ pc'[x] = "new" /\ contexts' = contexts + 1 /\ UNCHANGED totalMaxIO
      BY <1>0, <2>1, <2>2 DEF construct, Goto
    <3>2. Alive' = Alive \cup {x} /\ x \notin Alive /\ Open' = Open
      BY <2>0, <3>1 DEF Alive, Open, Counted
    <3>3. Cardinality(Alive') = Cardinality(Alive) + 1
      BY <3>2, SubsetsCounted, FS_AddElement
    <3> QED
      BY <3>1, <3>2, <3>3 DEF CountersExact
  <2>3. CASE decrement(x)
    <3>1. /\ pc[x] = "decrement" /\ pc'[x] = "checkContexts" /\ contexts' = contexts - 1
          /\ UNCHANGED totalMaxIO
      BY <1>0, <2>1, <2>3 DEF decrement, Goto
    <3>2. Alive' = Alive \ {x} /\ x \in Alive /\ Open' = Open
      BY <2>0, <3>1 DEF Alive, Open, Counted
    <3>3. Cardinality(Alive') = Cardinality(Alive) - 1
      BY <3>2, SubsetsCounted, FS_RemoveElement
    <3> QED
      BY <3>1, <3>2, <3>3 DEF CountersExact
  <2>4. CASE constructed(x)
    <3>1. /\ pc[x] \in {"native", "nobuffer"} /\ pc'[x] \in {"open", "openNull"}
          /\ UNCHANGED contexts /\ totalMaxIO' = totalMaxIO + QueueSize
      BY <1>0, <2>1, <2>4 DEF constructed, Goto
    <3>2. Alive' = Alive /\ Open' = Open \cup {x} /\ x \notin Open
      BY <2>0, <3>1 DEF Alive, Open, Counted
    <3>3. Cardinality(Open') = Cardinality(Open) + 1
      BY <3>2, SubsetsCounted, FS_AddElement
    <3>4. QueueSize * Cardinality(Open') = QueueSize * Cardinality(Open) + QueueSize
      BY <1>0, <3>3, SubsetsCounted, OneMore
    <3> QED
      BY <3>1, <3>2, <3>4 DEF CountersExact
  <2>5. CASE close(x)
    <3>1. /\ pc[x] \in {"open", "openNull"} /\ pc'[x] \in {"delete", "decrement"}
          /\ UNCHANGED contexts /\ totalMaxIO' = totalMaxIO - QueueSize
      BY <1>0, <2>1, <2>5 DEF close, Goto
    <3>2. Alive' = Alive /\ Open' = Open \ {x} /\ x \in Open
      BY <2>0, <3>1 DEF Alive, Open, Counted
    <3>3. Cardinality(Open') = Cardinality(Open) - 1
      BY <3>2, SubsetsCounted, FS_RemoveElement
    <3>4. QueueSize * Cardinality(Open') = QueueSize * Cardinality(Open) - QueueSize
      BY <1>0, <3>3, SubsetsCounted, OneMore
    <3> QED
      BY <3>1, <3>2, <3>4 DEF CountersExact
  <2>6. CASE newContext(x) \/ newContextFails(x) \/ deleteContext(x) \/ deleteContextThrows(x)
    <3>1. /\ pc[x] \in {"new", "delete"} /\ pc'[x] \in {"native", "nobuffer", "failed", "decrement", "broken"}
          /\ UNCHANGED <<contexts, totalMaxIO>>
      BY <1>0, <2>1, <2>6 DEF newContext, newContextFails, deleteContext, deleteContextThrows, Goto
    <3> QED
      BY <1>1, <2>0, <3>1 DEF Counted
  <2> QED
    BY <1>4, <2>2, <2>3, <2>4, <2>5, <2>6 DEF ContextStep
<1>5. ASSUME shutdown PROVE CountersExact'
  <2>1. UNCHANGED <<contexts, totalMaxIO>> /\ \A x \in Contexts : pc'[x] = pc[x]
    BY <1>0, <1>5, LibraryAssumption DEF shutdown, Goto, Threads
  <2> QED
    BY <1>1, <2>1
<1>6. ASSUME NEW t \in Threads, CheckStep(t) PROVE CountersExact'
  <2>1. /\ UNCHANGED <<contexts, totalMaxIO>> /\ \A u \in Threads \ {t} : pc'[u] = pc[u]
        /\ pc[t] \in Checking /\ pc'[t] \in {"checkShutdown", "testHandler", "sweep", "returned"}
    BY <1>6, CheckMoves
  <2> QED
    BY <1>1, <2>1 DEF Threads, Checking, Counted
<1>7. UNCHANGED vars => CountersExact'
  BY <1>2 DEF vars
<1> QED
  BY <1>3, <1>4, <1>5, <1>6, <1>7, NextByActor

-------------------------------------------------------------------------------
(***************************************************************************)
(* The ledger.                                                             *)
(***************************************************************************)
\* What the next step of a context's thread says of its ledger.
LedgerClass(l) ==
  CASE l \in {"native", "open", "delete"} -> "complete"
    [] l \in {"nobuffer", "openNull"} -> "unreachable"
    [] l = "failed" -> "failed"
    [] l \in {"decrement", "checkContexts", "checkShutdown", "testHandler", "sweep",
              "returned"} -> "deleted"
    [] OTHER -> "none"

LEMMA NextKeepsLedger ==
  ASSUME StateOK, LedgerTracked, [Next]_vars
  PROVE  LedgerTracked'
<1>0. /\ pc \in [Threads -> Labels] /\ Contexts \subseteq Threads
      /\ held \in [Contexts -> SUBSET Resources]
      /\ members \in [Contexts -> SUBSET Pool(QueueSize)]
      /\ misfreed \in [Contexts -> SUBSET ((0 .. 7) \X Resources)]
  BY DEF StateOK, Threads
<1>1. ASSUME UNCHANGED ledgerVars,
             \A x \in Contexts : LedgerClass(pc'[x]) = LedgerClass(pc[x]) \/ LedgerClass(pc'[x]) = "none"
      PROVE  LedgerTracked'
  BY <1>1 DEF LedgerTracked, LedgerClass, Deleted
<1>2. ASSUME UNCHANGED <<ledgerVars, pc>> PROVE LedgerTracked'
  BY <1>1, <1>2
<1>3. ASSUME LoadStep PROVE LedgerTracked'
  BY <1>2, <1>3 DEF LoadStep, loadLibrary, loadLibraryFails, JNI_OnUnload
<1>4. ASSUME NEW x \in Contexts, ContextStep(x) PROVE LedgerTracked'
  <2>0. \A y \in Contexts \ {x} : pc'[y] = pc[y]
    BY <1>0, <1>4, ContextMoves
  <2>1. CASE newContext(x)
    <3>1. PICK h, l :
            /\ <<h, l>> \in {<<Allocated(9), "native">>, <<Allocated(8), "nobuffer">>}
            /\ held' = [held EXCEPT ![x] = h] /\ pc' = [pc EXCEPT ![x] = l]
            /\ members' = [members EXCEPT ![x] = Pool(QueueSize)] /\ UNCHANGED misfreed
      BY <2>1 DEF newContext, Goto
    <3>2. /\ held'[x] = h /\ pc'[x] = l /\ members'[x] = Pool(QueueSize)
          /\ \A y \in Contexts \ {x} : held'[y] = held[y] /\ members'[y] = members[y]
      BY <1>0, <3>1
    <3>3. "buffer" \notin Allocated(8)
      BY WhatNewContextAllocates
    <3>4. \/ pc'[x] = "native" /\ held'[x] = Allocated(9)
          \/ pc'[x] = "nobuffer" /\ "buffer" \notin held'[x]
      BY <3>1, <3>2, <3>3
    <3> QED
      BY <2>0, <3>1, <3>2, <3>4 DEF LedgerTracked, Deleted
  <2>2. CASE newContextFails(x)
    <3>1. PICK h \in SUBSET Locks, f \in SUBSET {<<2, "queue">>} :
            /\ held' = [held EXCEPT ![x] = h]
            /\ members' = [members EXCEPT ![x] = {}]
            /\ misfreed' = [misfreed EXCEPT ![x] = @ \cup f]
      BY <2>2, FailureLedger
    <3>2. /\ held'[x] \subseteq Locks /\ members'[x] = {} /\ misfreed'[x] \subseteq {<<2, "queue">>}
          /\ \A y \in Contexts \ {x} : /\ held'[y] = held[y] /\ members'[y] = members[y]
                                        /\ misfreed'[y] = misfreed[y]
      BY <1>0, <3>1 DEF LedgerTracked
    <3>3. pc'[x] = "failed"
      BY <1>0, <2>2 DEF newContextFails, Goto
    <3> QED
      BY <2>0, <3>2, <3>3 DEF LedgerTracked, Deleted
  <2>3. CASE deleteContext(x)
    <3>1. /\ held' = [held EXCEPT ![x] = {"buffer"}]
          /\ members' = [members EXCEPT ![x] = {}]
          /\ misfreed' = [misfreed EXCEPT ![x] = @ \cup {}]
      BY <2>3, DeletionLedger
    <3>2. /\ held'[x] = {"buffer"} /\ members'[x] = {} /\ misfreed'[x] \subseteq {<<2, "queue">>}
          /\ \A y \in Contexts \ {x} : /\ held'[y] = held[y] /\ members'[y] = members[y]
                                        /\ misfreed'[y] = misfreed[y]
      BY <1>0, <3>1 DEF LedgerTracked
    <3>3. pc'[x] = "decrement"
      BY <1>0, <2>3 DEF deleteContext, Goto
    <3> QED
      BY <2>0, <3>2, <3>3 DEF LedgerTracked, Deleted
  <2>4. CASE construct(x) \/ constructed(x) \/ deleteContextThrows(x) \/ decrement(x)
    <3>1. UNCHANGED ledgerVars
      BY <2>4 DEF construct, constructed, deleteContextThrows, decrement
    <3>2. LedgerClass(pc'[x]) = LedgerClass(pc[x]) \/ LedgerClass(pc'[x]) = "none"
      BY <1>0, <2>4 DEF construct, constructed, deleteContextThrows, decrement, Goto, LedgerClass
    <3> QED
      BY <1>1, <2>0, <3>1, <3>2
  <2>5. CASE close(x)
    <3>1. UNCHANGED ledgerVars
      BY <2>5 DEF close
    <3>2. \/ pc[x] = "open" /\ pc'[x] = "delete"
          \/ pc[x] = "openNull" /\ pc'[x] = "decrement"
      BY <1>0, <2>5 DEF close, Goto
    <3> QED
      BY <2>0, <3>1, <3>2 DEF LedgerTracked, Deleted
  <2> QED
    BY <1>4, <2>1, <2>2, <2>3, <2>4, <2>5 DEF ContextStep
<1>5. ASSUME shutdown PROVE LedgerTracked'
  <2>1. UNCHANGED ledgerVars /\ \A x \in Contexts : pc'[x] = pc[x]
    BY <1>0, <1>5, LibraryAssumption DEF shutdown, Goto
  <2> QED
    BY <1>1, <2>1
<1>6. ASSUME NEW t \in Threads, CheckStep(t) PROVE LedgerTracked'
  <2>1. /\ UNCHANGED ledgerVars /\ \A u \in Threads \ {t} : pc'[u] = pc[u]
        /\ pc'[t] \in {"checkShutdown", "testHandler", "sweep", "returned"}
        /\ pc[t] \in Checking
    BY <1>6, CheckMoves
  <2>2. LedgerClass(pc'[t]) = "deleted" /\ LedgerClass(pc[t]) = "deleted"
    BY <2>1 DEF LedgerClass, Checking
  <2> QED
    BY <1>0, <1>1, <2>1, <2>2
<1>7. UNCHANGED vars => LedgerTracked'
  BY <1>2 DEF vars
<1> QED
  BY <1>3, <1>4, <1>5, <1>6, <1>7, NextByActor

-------------------------------------------------------------------------------
(***************************************************************************)
(* The shutdown.                                                           *)
(***************************************************************************)
\* No context is counted exactly when none is between constructor and close().
LEMMA NobodyCounted ==
  ASSUME StateOK, CountersExact
  PROVE  contexts >= 0 /\ (contexts = 0 <=> Alive = {})
BY SubsetsCounted, FS_EmptySet DEF CountersExact

LEMMA NextKeepsRemovalPending ==
  ASSUME StateOK, HandlerTracked, CountersExact, RemovalPending, [Next]_vars
  PROVE  RemovalPending'
<1>0. /\ pc \in [Threads -> Labels] /\ Hook \in Threads /\ shuttingDown \in BOOLEAN
      /\ contexts \in Int /\ lib \in [Libraries -> LibType]
  BY DEF StateOK, Threads
<1>1. ASSUME LoadStep PROVE RemovalPending'
  <2>1. UNCHANGED <<pc, shuttingDown>> /\ ~shuttingDown
    BY <1>1 DEF LoadStep, loadLibrary, loadLibraryFails, JNI_OnUnload, HandlerTracked
  <2> QED
    BY <2>1 DEF RemovalPending
<1>2. ASSUME NEW x \in Contexts, ContextStep(x) PROVE RemovalPending'
  <2>1. /\ x \in Threads /\ UNCHANGED <<loadVars, shuttingDown>> /\ pc'[Hook] = pc[Hook]
        /\ \A u \in Threads \ {x} : pc'[u] = pc[u]
        /\ pc[x] \notin Checking
    BY <1>2, ContextMoves DEF Checking
  <2>2. CASE construct(x)
    <3>1. contexts' # 0
      BY <1>0, <2>2, NobodyCounted DEF construct
    <3> QED
      BY <2>1, <3>1 DEF RemovalPending
  <2>3. CASE decrement(x)
    <3>1. pc'[x] \in Checking
      BY <1>0, <2>1, <2>3 DEF decrement, Goto, Checking
    <3> QED
      BY <2>1, <3>1 DEF RemovalPending
  <2>4. CASE ~construct(x) /\ ~decrement(x)
    <3>1. UNCHANGED contexts
      BY <1>2, <2>4 DEF ContextStep, newContext, newContextFails, constructed, close,
           deleteContext, deleteContextThrows
    <3>2. \A u \in Threads : pc[u] \in Checking => pc'[u] \in Checking
      BY <2>1
    <3> QED
      BY <2>1, <3>1, <3>2 DEF RemovalPending
  <2> QED
    BY <2>2, <2>3, <2>4
<1>3. ASSUME shutdown PROVE RemovalPending'
  <2>1. shuttingDown' = TRUE /\ pc'[Hook] = "checkContexts"
    BY <1>0, <1>3 DEF shutdown, Goto
  <2> QED
    BY <1>0, <2>1 DEF RemovalPending, Checking
<1>4. ASSUME NEW t \in Threads, CheckStep(t) PROVE RemovalPending'
  <2>1. /\ UNCHANGED <<loaded, staticVars>> /\ pc[t] # "none"
        /\ pc'[Hook] = "none" <=> pc[Hook] = "none"
    BY <1>4, CheckMoves DEF Checking
  <2>2. loaded \in Libraries /\ loaded # 0
    BY <2>1, LibraryInUse DEF Libraries
  <2>3. ASSUME shuttingDown, contexts = 0, lib'[loaded].file PROVE pc'[t] \in Checking
    <3>1. CASE checkContexts(t)
      BY <1>0, <2>3, <3>1 DEF checkContexts, NoContexts, Goto, Checking
    <3>2. CASE checkShutdown(t)
      BY <1>0, <2>3, <3>2 DEF checkShutdown, Goto, Checking
    <3>3. CASE testHandler(t)
      <4>1. lib[loaded].dumbWriteHandler # 0
        BY <2>2, <2>3, <3>3 DEF testHandler, HandlerTracked
      <4> QED
        BY <1>0, <3>3, <4>1 DEF testHandler, Goto, Checking
    <3>4. CASE closeDumbHandlers(t)
      <4>1. lib'[loaded] = Swept(loaded)
        BY <1>0, <2>2, <3>4 DEF closeDumbHandlers
      <4> QED
        BY <2>2, <2>3, <4>1, SweptLibrary
    <3> QED
      BY <1>4, <3>1, <3>2, <3>3, <3>4 DEF CheckStep
  <2> QED
    BY <2>1, <2>3 DEF RemovalPending
<1>5. UNCHANGED vars => RemovalPending'
  BY DEF vars, RemovalPending
<1> QED
  BY <1>1, <1>2, <1>3, <1>4, <1>5, NextByActor

LEMMA NextKeepsRemovalSafe ==
  ASSUME StateOK, HandlerTracked, CountersExact, RemovalSafe, [Next]_vars
  PROVE  RemovalSafe'
<1>0. /\ pc \in [Threads -> Labels] /\ Contexts \subseteq Threads /\ shuttingDown \in BOOLEAN
      /\ early \subseteq Contexts /\ lib \in [Libraries -> LibType]
  BY DEF StateOK, Threads
<1>1. ASSUME LoadStep PROVE RemovalSafe'
  <2>1. UNCHANGED <<pc, shuttingDown, early>> /\ early = {} /\ \A t \in Threads : pc[t] = "none"
    BY <1>1 DEF LoadStep, loadLibrary, loadLibraryFails, JNI_OnUnload, HandlerTracked
  <2>2. loaded' = 0 \/ lib'[loaded'].file
    <3>1. CASE loadLibrary
      <4>1. /\ loaded = 0 /\ loading \in Libraries /\ JNI_OnLoad(loading, 10) /\ loaded' = loading
            /\ 10 \in 1 .. 10
        BY <3>1, WhatOnLoadDoes DEF loadLibrary
      <4> QED
        BY <4>1, OnLoad
    <3>2. CASE ~loadLibrary
      BY <1>1, <3>2 DEF LoadStep, loadLibraryFails, JNI_OnUnload
    <3> QED
      BY <3>1, <3>2
  <2> QED
    BY <2>1, <2>2 DEF RemovalSafe
<1>2. ASSUME NEW x \in Contexts, ContextStep(x) PROVE RemovalSafe'
  <2>1. /\ x \in Threads /\ UNCHANGED <<loadVars, shuttingDown>>
        /\ \A u \in Threads \ {x} : pc'[u] = pc[u]
        /\ pc'[x] \notin {"none", "checkShutdown", "testHandler", "sweep"}
    BY <1>2, ContextMoves
  <2>2. \A t \in Threads : pc'[t] \in {"checkShutdown", "testHandler", "sweep"} => pc'[t] = pc[t]
    BY <2>1
  <2>3. CASE construct(x)
    <3>1. /\ pc[x] = "none" /\ early' = IF shuttingDown THEN early ELSE early \cup {x}
          /\ SettledNew => \A t \in Threads : pc[t] # "checkShutdown"
      BY <2>3 DEF construct
    <3>2. \A y \in early' : pc'[y] # "none"
      BY <1>0, <2>1, <3>1 DEF RemovalSafe
    <3>3. shuttingDown /\ EarlyGone => EarlyGone'
      BY <1>0, <2>1, <3>1 DEF EarlyGone, RemovalSafe
    <3> QED
      BY <2>1, <2>2, <3>1, <3>2, <3>3 DEF RemovalSafe
  <2>4. CASE ~construct(x)
    <3>1. UNCHANGED early /\ pc[x] \in Counted
      BY <1>2, <2>4 DEF ContextStep, newContext, newContextFails, constructed, close,
           deleteContext, deleteContextThrows, decrement, Counted
    <3>2. \A y \in early' : pc'[y] # "none"
      BY <1>0, <2>1, <3>1 DEF RemovalSafe
    <3>3. EarlyGone => EarlyGone'
      BY <1>0, <2>1, <3>1 DEF EarlyGone
    <3>4. Alive = {} => Alive' = {}
      BY <3>1 DEF Alive
    <3> QED
      BY <2>1, <2>2, <3>1, <3>2, <3>3, <3>4 DEF RemovalSafe
  <2> QED
    BY <2>3, <2>4
<1>3. ASSUME shutdown PROVE RemovalSafe'
  <2>1. /\ shuttingDown' = TRUE /\ UNCHANGED <<loadVars, early>> /\ Hook \in Threads
        /\ pc'[Hook] = "checkContexts" /\ \A u \in Threads \ {Hook} : pc'[u] = pc[u]
    BY <1>0, <1>3 DEF shutdown, Goto, Threads
  <2>2. Hook \notin Contexts
    BY LibraryAssumption
  <2>3. \A y \in Contexts : pc'[y] = pc[y]
    BY <1>0, <2>1, <2>2
  <2>4. Alive' = Alive /\ (EarlyGone => EarlyGone')
    BY <1>0, <2>1, <2>3 DEF Alive, EarlyGone
  <2>5. \A t \in Threads : pc'[t] \in {"checkShutdown", "testHandler", "sweep"} => pc'[t] = pc[t]
    BY <2>1
  <2> QED
    BY <1>0, <2>1, <2>3, <2>4, <2>5 DEF RemovalSafe
<1>4. ASSUME NEW t \in Threads, CheckStep(t) PROVE RemovalSafe'
  <2>1. /\ UNCHANGED <<loaded, staticVars, early>> /\ \A u \in Threads \ {t} : pc'[u] = pc[u]
        /\ pc[t] \in Checking /\ pc'[t] \in {"checkShutdown", "testHandler", "sweep", "returned"}
    BY <1>4, CheckMoves
  <2>2. Alive' = Alive
    BY <1>0, <2>1 DEF Alive, Checking, Counted
  <2>3. EarlyGone => EarlyGone'
    BY <1>0, <2>1 DEF EarlyGone, Counted
  <2>4. \A y \in early' : pc'[y] # "none"
    BY <1>0, <2>1 DEF RemovalSafe
  <2>5. loaded \in Libraries
    BY <2>1, LibraryInUse DEF Checking
  <2>6. pc'[t] = "checkShutdown" => Alive = {}
    <3>1. pc'[t] = "checkShutdown" => contexts = 0
      BY <1>0, <1>4 DEF CheckStep, checkContexts, checkShutdown, testHandler, closeDumbHandlers,
           NoContexts, Goto, Return
    <3> QED
      BY <3>1, NobodyCounted
  <2>7. SettledNew /\ pc'[t] \in {"testHandler", "sweep"} => shuttingDown /\ EarlyGone
    <3>1. CASE checkShutdown(t)
      <4>1. pc[t] = "checkShutdown" /\ (pc'[t] \in {"testHandler", "sweep"} => shuttingDown)
        BY <1>0, <3>1 DEF checkShutdown, Goto, Return
      <4>2. SettledNew => Alive = {}
        BY <4>1 DEF RemovalSafe
      <4> QED
        BY <1>0, <4>1, <4>2 DEF Alive, EarlyGone
    <3>2. CASE testHandler(t)
      BY <3>2 DEF testHandler, RemovalSafe
    <3>3. CASE checkContexts(t) \/ closeDumbHandlers(t)
      BY <1>0, <3>3 DEF checkContexts, closeDumbHandlers, Goto, Return
    <3> QED
      BY <1>4, <3>1, <3>2, <3>3 DEF CheckStep
  <2>8. SettledNew /\ ~lib'[loaded].file => shuttingDown /\ EarlyGone
    <3>1. CASE closeDumbHandlers(t)
      BY <3>1 DEF closeDumbHandlers, RemovalSafe
    <3>2. CASE ~closeDumbHandlers(t)
      <4>1. UNCHANGED lib /\ loaded # 0
        BY <1>4, <2>5, <3>2 DEF CheckStep, checkContexts, checkShutdown, testHandler, Libraries
      <4> QED
        BY <4>1 DEF RemovalSafe
    <3> QED
      BY <3>1, <3>2
  <2>9. SettledNew /\ (\E u \in Threads : pc'[u] = "checkShutdown") => Alive' = {}
    BY <2>1, <2>2, <2>6 DEF RemovalSafe
  <2>10. SettledNew /\ (\E u \in Threads : pc'[u] \in {"testHandler", "sweep"}) => shuttingDown' /\ EarlyGone'
    BY <2>1, <2>3, <2>7 DEF RemovalSafe
  <2>11. SettledNew /\ loaded' # 0 /\ ~lib'[loaded'].file => shuttingDown' /\ EarlyGone'
    BY <2>1, <2>3, <2>8
  <2> QED
    BY <2>4, <2>9, <2>10, <2>11 DEF RemovalSafe
<1>5. UNCHANGED vars => RemovalSafe'
  BY DEF vars, RemovalSafe, Alive, EarlyGone
<1> QED
  BY <1>1, <1>2, <1>3, <1>4, <1>5, NextByActor

-------------------------------------------------------------------------------
(***************************************************************************)
(* The theorems.                                                           *)
(***************************************************************************)
LEMMA InitLibrary == Init => LibraryInv
<1> SUFFICES ASSUME Init PROVE LibraryInv
  OBVIOUS
<1>1. /\ loading = 1 /\ loaded = 0 /\ pc = [t \in Threads |-> "none"] /\ Hook \in Threads
      /\ shuttingDown = FALSE /\ contexts = 0 /\ totalMaxIO = 0
      /\ held = [x \in Contexts |-> {}] /\ members = [x \in Contexts |-> {}] /\ early = {}
      /\ misfreed = [x \in Contexts |-> {}]
      /\ \A x \in Contexts : pc[x] = "none"
  BY DEF Init, Threads
<1>2. StateOK
  <2>1. lib \in [Libraries -> LibType]
    <3>1. Unmapped \in LibType
      BY DEF Unmapped, LibType, Descriptors
    <3> QED
      BY <3>1 DEF Init
  <2>2. descriptors \in [Descriptors -> Libraries \cup {StdIn, Closed}]
    BY DEF Init
  <2>3. pc \in [Threads -> Labels] /\ pc[Hook] \in HookLabels
    BY <1>1 DEF Labels, HookLabels
  <2>4. /\ held \in [Contexts -> SUBSET Resources]
        /\ members \in [Contexts -> SUBSET Pool(QueueSize)]
      /\ misfreed \in [Contexts -> SUBSET ((0 .. 7) \X Resources)] /\ early \subseteq Contexts
    BY <1>1
  <2>5. loading \in 1 .. 3 /\ loaded \in 0 .. 2 /\ contexts \in Int /\ totalMaxIO \in Int
    BY <1>1
  <2> QED
    BY <1>1, <2>1, <2>2, <2>3, <2>4, <2>5 DEF StateOK
<1>3. HandlerTracked
  <2>1. \A d \in 1 .. 2 : d \in Descriptors /\ d # 0
    BY DEF Descriptors
  <2>2. 0 \in Descriptors
    BY DEF Descriptors
  <2>3. descriptors[0] = StdIn /\ \A d \in 1 .. 2 : descriptors[d] = Closed
    BY <2>1, <2>2 DEF Init
  <2> QED
    BY <1>1, <2>3 DEF HandlerTracked
<1>4. CountersExact
  <2>1. Alive = {} /\ Open = {}
    BY <1>1 DEF Alive, Open, Counted
  <2>2. QueueSize * 0 = 0
    BY LibraryAssumption
  <2> QED
    BY <1>1, <2>1, <2>2, FS_EmptySet DEF CountersExact
<1>5. LedgerTracked
  BY <1>1 DEF LedgerTracked, Deleted
<1>6. RemovalPending /\ RemovalSafe
  BY <1>1 DEF RemovalPending, RemovalSafe
<1> QED
  BY <1>2, <1>3, <1>4, <1>5, <1>6 DEF LibraryInv

\* The static initializer, the constructors, the closes and the shutdown hook
\* keep the inductive invariant in every interleaving: the counters count, the
\* handler is that of the dumb file, and what newContext allocates is known.
THEOREM LibraryInvariant == Spec => []LibraryInv
<1>1. LibraryInv /\ [Next]_vars => LibraryInv'
  BY NextKeepsTypes, NextKeepsHandler, NextKeepsCounters, NextKeepsLedger,
     NextKeepsRemovalPending, NextKeepsRemovalSafe DEF LibraryInv
<1> QED
  BY InitLibrary, <1>1, PTL DEF Spec

\* A count times the queue size stays within the whole.
LEMMA ProductBound ==
  ASSUME NEW q \in Nat, NEW n \in Nat, NEW m \in Nat, n <= m
  PROVE  q * n \in 0 .. q * m
<1>1. q * (m - n) >= 0
  OBVIOUS
<1>2. q * (m - n) = q * m - q * n
  OBVIOUS
<1>3. q * n \in Nat /\ q * m \in Nat
  OBVIOUS
<1> QED
  BY <1>1, <1>2, <1>3

\* Whatever fails in newContext or in close(), contexts never goes below zero
\* or above the contexts there are, totalMaxIO never below zero or above what
\* they ask for together, and a pool never has a member out of range.
THEOREM LibraryTypeCorrect == Spec => []TypeOK
<1>1. ASSUME LibraryInv PROVE TypeOK
  <2>1. StateOK /\ CountersExact
    BY <1>1 DEF LibraryInv
  <2>2. contexts \in 0 .. Cardinality(Contexts)
    BY <2>1, SubsetsCounted DEF CountersExact
  <2>3. totalMaxIO \in 0 .. QueueSize * Cardinality(Contexts)
    <3>1. QueueSize \in Nat
      BY LibraryAssumption
    <3> QED
      BY <2>1, <3>1, SubsetsCounted, ProductBound DEF CountersExact
  <2>4. \A l \in Libraries : /\ lib[l].dumbWriteHandler \in Descriptors \cup {-1}
                             /\ lib[l].classes \subseteq Classes
    BY <2>1 DEF StateOK, LibType
  <2>5. \A x \in Contexts : /\ held[x] \subseteq Resources
                            /\ members[x] \subseteq 0 .. QueueSize - 1
                            /\ misfreed[x] \subseteq (0 .. 7) \X Resources
    BY <2>1 DEF StateOK, Pool
  <2> QED
    BY <2>1, <2>2, <2>3, <2>4, <2>5 DEF TypeOK, StateOK
<1> QED
  BY <1>1, LibraryInvariant, PTL

\* closeDumbHandlers runs too early for no context that was constructed before
\* the shutdown, as long as no constructor overlaps checkShutdown in another
\* thread: the file is there and behind dumbWriteHandler until deleteContext
\* is over.
THEOREM LibraryHandlerOutlivesContext ==
  ASSUME SettledNew PROVE Spec => []HandlerOutlivesContext
<1>1. ASSUME LibraryInv PROVE HandlerOutlivesContext
  <2> SUFFICES ASSUME NEW x \in early, pc[x] \in {"native", "open", "delete", "broken"}
               PROVE  /\ lib[loaded].file
                      /\ lib[loaded].dumbWriteHandler # 0
                      /\ descriptors[lib[loaded].dumbWriteHandler] = loaded
    BY DEF HandlerOutlivesContext
  <2>1. StateOK /\ HandlerTracked /\ RemovalSafe
    BY <1>1 DEF LibraryInv
  <2>2. x \in Threads /\ pc[x] # "none" /\ pc[x] \in Counted
    BY <2>1 DEF StateOK, Threads, Counted
  <2>3. loaded # 0
    BY <2>1, <2>2 DEF HandlerTracked
  <2>4. lib[loaded].file
    BY <2>1, <2>2, <2>3 DEF RemovalSafe, EarlyGone
  <2> QED
    BY <2>1, <2>3, <2>4 DEF HandlerTracked
<1> QED
  BY <1>1, LibraryInvariant, PTL

\* checkShutdown, called by close() and by the shutdown hook, leaves the dumb
\* file to nobody: when the hook has returned, no context is left and no
\* close() is in it, the file is gone.
THEOREM LibraryHandlerRemoved == Spec => []HandlerRemoved
<1>1. ASSUME LibraryInv PROVE HandlerRemoved
  <2> SUFFICES ASSUME pc[Hook] = "returned", contexts = 0,
                      \A x \in Contexts : pc[x] \notin Checking
               PROVE  ~lib[loaded].file
    BY DEF HandlerRemoved, Checking
  <2>1. shuttingDown
    BY <1>1 DEF LibraryInv, RemovalPending
  <2>2. \A t \in Threads : pc[t] \notin Checking
    BY DEF Threads, Checking
  <2> QED
    BY <1>1, <2>1, <2>2 DEF LibraryInv, RemovalPending
<1> QED
  BY <1>1, LibraryInvariant, PTL

\* For every queue size, the list of frees of each failing step of newContext
\* and that of deleteContext fit what has been allocated by then: nothing is
\* left but the mutexes after a failure, and nothing is freed that is not
\* there, twice or through freed memory, but for the queue that io_queue_init
\* could not set up.
THEOREM LibraryNothingOrphaned == Spec => []NothingOrphaned
<1>1. ASSUME LibraryInv PROVE NothingOrphaned
  BY <1>1 DEF LibraryInv, LedgerTracked, Locks, NothingOrphaned
<1> QED
  BY <1>1, LibraryInvariant, PTL

===============================================================================
