----------------------------- MODULE NativeLibrary -----------------------------
(***************************************************************************)
(* What all contexts of a process share: the native library (JNI_OnLoad,   *)
(* JNI_OnUnload), the dumb file that stops blocked polls, the counters     *)
(* contexts and totalMaxIO, and the JVM's shutdown hook.  Each context is  *)
(* constructed and closed by a thread of its own.  A ledger says which     *)
(* native resources a context holds: newContext may fail at each of its    *)
(* steps and frees what the list of that step names, deleteContext what    *)
(* its own list names.  What deleteContext does to the threads of a        *)
(* context is module LibaioContext: here it frees its list or throws.      *)
(***************************************************************************)
EXTENDS Integers, Sequences, FiniteSets

CONSTANTS
  Contexts,   \* the contexts a program constructs
  Hook,       \* the thread of the shutdown hook
  QueueSize,  \* constructor argument of each context
  SettledNew, \* clients construct no context while another is in checkShutdown
  Closed      \* an unused entry of the descriptor table

ASSUME LibraryAssumption ==
  /\ IsFiniteSet(Contexts) /\ Hook \notin Contexts
  /\ QueueSize \in Nat \ {0} /\ SettledNew \in BOOLEAN
  /\ Closed \notin Int

VARIABLES
  lib,           \* globals of each native library
  loading,       \* the library the static initializer tries next
  loaded,        \* the library in use, or 0
  descriptors,   \* the file behind each descriptor: StdIn or a dumb file
  pc,            \* the next step of each context's thread and of the hook
  shuttingDown, contexts, totalMaxIO,  \* static fields of LibaioContext
  held,          \* native resources of each context, but for ...
  members,       \* ... the iocbs of its pool
  misfreed,      \* what was freed wrongly: the list and the resource
  early          \* contexts whose constructor began before the shutdown

loadVars == <<lib, loading, loaded, descriptors>>
staticVars == <<shuttingDown, contexts, totalMaxIO>>
ledgerVars == <<held, members, misfreed>>
vars == <<loadVars, staticVars, ledgerVars, pc, early>>

Libraries == 1 .. 2             \* artemis-native-64 and artemis-native-32
StdIn == 0                      \* the file behind descriptor 0 at the start
Descriptors == 0 .. 2           \* StdIn and one for each library
Threads == Contexts \cup {Hook}

\* A library that is not in memory.
Unmapped == [mapped |-> FALSE, mutex |-> FALSE, dumbWriteHandler |-> 0,
             file |-> FALSE, classes |-> {}]

Init ==
  /\ lib = [l \in Libraries |-> Unmapped]
  /\ loading = 1 /\ loaded = 0
  /\ descriptors = [d \in Descriptors |-> IF d = 0 THEN StdIn ELSE Closed]
  /\ pc = [t \in Threads |-> "none"]
  /\ shuttingDown = FALSE /\ contexts = 0 /\ totalMaxIO = 0
  /\ held = [x \in Contexts |-> {}] /\ members = [x \in Contexts |-> {}]
  /\ misfreed = [x \in Contexts |-> {}] /\ early = {}

-------------------------------------------------------------------------------
(***************************************************************************)
(* Loading: the static initializer of LibaioContext, in one thread.        *)
(***************************************************************************)

\* The steps of JNI_OnLoad that may fail: three calls, then the classes that
\* get a global reference and the methods looked up in them.
OnLoadSteps == <<"GetEnv", "pthread_mutex_init", "mkstemp", "RuntimeException",
                 "IOException", "SubmitInfo", "onError", "done", "LibaioContext",
                 "libaioContextDone">>
Classes == {"RuntimeException", "IOException", "SubmitInfo", "LibaioContext"}
Succeeded(k) == {OnLoadSteps[j] : j \in 1 .. k}

\* The descriptor that the next open returns.
LowestFree ==
  CHOOSE d \in Descriptors :
     descriptors[d] = Closed /\ \A e \in 0 .. d - 1 : descriptors[e] # Closed

\* JNI_OnLoad of library l, of which k steps succeed.  A failed mkstemp leaves
\* -1 in the handler; what came before a failure is not undone.
JNI_OnLoad(l, k) ==
  LET created == "mkstemp" \in Succeeded(k) IN
  /\ lib' = [lib EXCEPT ![l] =
       [mapped |-> k = Len(OnLoadSteps),
        mutex |-> "pthread_mutex_init" \in Succeeded(k),
        dumbWriteHandler |-> IF created THEN LowestFree
                             ELSE IF "pthread_mutex_init" \in Succeeded(k) THEN -1
                             ELSE 0,
        file |-> created,
        classes |-> Succeeded(k) \cap Classes]]
  /\ descriptors' = IF created THEN [descriptors EXCEPT ![LowestFree] = l]
                               ELSE descriptors

\* The library is there, initialises itself and has the expected version.
loadLibrary ==
  /\ loaded = 0 /\ loading \in Libraries
  /\ JNI_OnLoad(loading, Len(OnLoadSteps))
  /\ loaded' = loading
  /\ UNCHANGED <<loading, staticVars, ledgerVars, pc, early>>

\* It is not found, JNI_OnLoad returns JNI_ERR, or it has another version: the
\* next one is tried.
loadLibraryFails ==
  /\ loaded = 0 /\ loading \in Libraries
  /\ \/ UNCHANGED <<lib, descriptors>>
     \/ \E k \in 1 .. Len(OnLoadSteps) : JNI_OnLoad(loading, k)
  /\ loading' = loading + 1
  /\ UNCHANGED <<loaded, staticVars, ledgerVars, pc, early>>

\* closeDumbHandlers after its test: the handler is set to 0 before
\* close(dumbWriteHandler) reads it, and the file is unlinked.
Swept(l) == [lib[l] EXCEPT !.dumbWriteHandler = 0, !.file = FALSE]
DescriptorsSwept == [descriptors EXCEPT ![0] = Closed]

\* JNI_OnUnload: the class goes away, which it can only while no library was
\* accepted, for the shutdown hook refers to it.  (oneMegaBuffer is not there
\* yet: nothing was filled.)  Without a JNIEnv it does nothing.
JNI_OnUnload(l) ==
  /\ loaded = 0 /\ loading \notin Libraries /\ lib[l].mapped
  /\ \/ /\ lib' = [lib EXCEPT ![l] = Unmapped]
        /\ descriptors' = IF lib[l].dumbWriteHandler # 0 THEN DescriptorsSwept
                                                         ELSE descriptors
     \/ /\ lib' = [lib EXCEPT ![l].mapped = FALSE]
        /\ UNCHANGED descriptors
  /\ UNCHANGED <<loading, loaded, staticVars, ledgerVars, pc, early>>

-------------------------------------------------------------------------------
(***************************************************************************)
(* The constructor.                                                        *)
(***************************************************************************)
Goto(t, l) == pc' = [pc EXCEPT ![t] = l]

\* contexts.incrementAndGet()
construct(x) ==
  /\ loaded # 0 /\ pc[x] = "none"
  /\ SettledNew => \A t \in Threads : pc[t] # "checkShutdown"
  /\ contexts' = contexts + 1
  /\ early' = IF shuttingDown THEN early ELSE early \cup {x}
  /\ Goto(x, "new")
  /\ UNCHANGED <<loadVars, shuttingDown, totalMaxIO, ledgerVars>>

\* What newContext allocates, in its order; the last is the ByteBuffer through
\* which Java reaches the rest.
Order == <<"control", "queue", "iocb", "members", "iocbLock", "pollLock",
           "events", "thisObject", "buffer">>
Resources == {Order[j] : j \in DOMAIN Order}
Allocated(k) == {Order[j] : j \in 1 .. k} \ {"members"}

\* Mutated form: the loop runs once more.
PoolOneMore(n) == 0 .. n

Pool(n) == 0 .. n - 1

\* What is freed, in this order, when step k of newContext fails.  The second
\* list releases the queue that could not be initialised.
FailureFrees == << <<>>,
                   <<"queue", "control">>,
                   <<"queue", "control">>,
                   <<"members", "iocb", "queue", "control">>,
                   <<"members", "iocb", "queue", "control">>,
                   <<"members", "iocb", "queue", "control">>,
                   <<"members", "iocb", "queue", "control">> >>

\* What deleteContext frees.
DeleteFrees == <<"queue", "pollLock", "iocbLock", "members", "iocb", "thisObject",
                 "events", "control">>

\* Mutated form: iocb_destroy where only a part of the pool is there.
DestroyBoundWhole(k, n) == QueueSize

\* How far iocb_destroy_members goes: iocb_destroy_bounded up to the loop's
\* counter n while the pool is filled, iocb_destroy up to queueSize.
DestroyBound(k, n) == IF k = 4 THEN n ELSE QueueSize

\* Where the pointer to a resource is kept.
PointedToFrom(r) == IF r = "members" THEN {"iocb", "control"} ELSE {"control"}

Freed(frees) == {frees[j] : j \in DOMAIN frees}

\* What a list frees wrongly, given what there is: something that was not
\* allocated, that the list freed before, or whose pointer it has freed.
Misfreed(things, pool, frees, bound) ==
  {frees[j] : j \in {j \in DOMAIN frees :
     \/ IF frees[j] = "members" THEN ~ Pool(bound) \subseteq pool
                                ELSE frees[j] \notin things
     \/ \E i \in 1 .. j - 1 : frees[i] \in {frees[j]} \cup PointedToFrom(frees[j])}}

\* The frees of one list; k is the step that failed, 0 for deleteContext.
Free(x, k, things, pool, frees, bound) ==
  /\ held' = [held EXCEPT ![x] = things \ Freed(frees)]
  /\ members' = [members EXCEPT ![x] =
                   IF "members" \in Freed(frees) THEN pool \ Pool(bound) ELSE pool]
  /\ misfreed' = [misfreed EXCEPT ![x] =
                    @ \cup {<<k, r>> : r \in Misfreed(things, pool, frees, bound)}]

\* Step k fails, after n members of the pool were allocated.
newContextFails(x) ==
  /\ pc[x] = "new"
  /\ \E k \in 1 .. 7, n \in 0 .. QueueSize :
       /\ k < 4 => n = 0
       /\ k = 4 => n < QueueSize
       /\ k > 4 => n = QueueSize
       /\ Free(x, k, Allocated(k - 1), Pool(n), FailureFrees[k], DestroyBound(k, n))
  /\ Goto(x, "failed")
  /\ UNCHANGED <<loadVars, staticVars, early>>

\* Everything is allocated, or all but the buffer: NewDirectByteBuffer returns
\* NULL, which is not looked at.
newContext(x) ==
  /\ pc[x] = "new"
  /\ \/ held' = [held EXCEPT ![x] = Allocated(9)] /\ Goto(x, "native")
     \/ held' = [held EXCEPT ![x] = Allocated(8)] /\ Goto(x, "nobuffer")
  /\ members' = [members EXCEPT ![x] = Pool(QueueSize)]
  /\ UNCHANGED <<loadVars, staticVars, misfreed, early>>

\* totalMaxIO.addAndGet(queueSize).  A null ioContext is accepted here.
constructed(x) ==
  /\ pc[x] \in {"native", "nobuffer"}
  /\ totalMaxIO' = totalMaxIO + QueueSize
  /\ Goto(x, IF pc[x] = "native" THEN "open" ELSE "openNull")
  /\ UNCHANGED <<loadVars, shuttingDown, contexts, ledgerVars, early>>

-------------------------------------------------------------------------------
(***************************************************************************)
(* close(), for the one caller that finds closed false.                    *)
(***************************************************************************)
close(x) ==
  /\ pc[x] \in {"open", "openNull"}
  /\ totalMaxIO' = totalMaxIO - QueueSize
  /\ Goto(x, IF pc[x] = "open" THEN "delete" ELSE "decrement")
  /\ UNCHANGED <<loadVars, shuttingDown, contexts, ledgerVars, early>>

\* The dumb write of deleteContext goes to dumbWriteHandler, whatever that is.
HandlerOpen == descriptors[lib[loaded].dumbWriteHandler] # Closed

deleteContext(x) ==
  /\ pc[x] = "delete" /\ HandlerOpen
  /\ Free(x, 0, held[x], members[x], DeleteFrees, DestroyBound(0, QueueSize))
  /\ Goto(x, "decrement")
  /\ UNCHANGED <<loadVars, staticVars, early>>

\* No iocb is free or io_submit fails: close() throws out of deleteContext.
deleteContextThrows(x) ==
  /\ pc[x] = "delete"
  /\ Goto(x, "broken")
  /\ UNCHANGED <<loadVars, staticVars, ledgerVars, early>>

\* contexts.decrementAndGet()
decrement(x) ==
  /\ pc[x] = "decrement"
  /\ contexts' = contexts - 1
  /\ Goto(x, "checkContexts")
  /\ UNCHANGED <<loadVars, shuttingDown, totalMaxIO, ledgerVars, early>>

-------------------------------------------------------------------------------
(***************************************************************************)
(* The shutdown hook, and checkShutdown, which close() calls as well.      *)
(***************************************************************************)

\* shuttingDown.set(true)
shutdown ==
  /\ loaded # 0 /\ pc[Hook] = "none"
  /\ shuttingDown' = TRUE
  /\ Goto(Hook, "checkContexts")
  /\ UNCHANGED <<loadVars, contexts, totalMaxIO, ledgerVars, early>>

Return(t) == Goto(t, "returned")

\* Mutated forms: the context being closed is taken for the last one; close()
\* leaves the file to the hook.
NoContextsOther(t) == contexts <= 1
NoContextsHook(t) == contexts = 0 /\ t = Hook

NoContexts(t) == contexts = 0

\* contexts.get() == 0
checkContexts(t) ==
  /\ pc[t] = "checkContexts"
  /\ IF NoContexts(t) THEN Goto(t, "checkShutdown") ELSE Return(t)
  /\ UNCHANGED <<loadVars, staticVars, ledgerVars, early>>

\* shuttingDown.get()
checkShutdown(t) ==
  /\ pc[t] = "checkShutdown"
  /\ IF shuttingDown THEN Goto(t, "testHandler") ELSE Return(t)
  /\ UNCHANGED <<loadVars, staticVars, ledgerVars, early>>

\* shutdownHook, the test in closeDumbHandlers: nothing is locked, two threads
\* may pass it.
testHandler(t) ==
  /\ pc[t] = "testHandler"
  /\ IF lib[loaded].dumbWriteHandler # 0 THEN Goto(t, "sweep") ELSE Return(t)
  /\ UNCHANGED <<loadVars, staticVars, ledgerVars, early>>

closeDumbHandlers(t) ==
  /\ pc[t] = "sweep"
  /\ lib' = [lib EXCEPT ![loaded] = Swept(loaded)]
  /\ descriptors' = DescriptorsSwept
  /\ Return(t)
  /\ UNCHANGED <<loading, loaded, staticVars, ledgerVars, early>>

-------------------------------------------------------------------------------
Next ==
  \/ loadLibrary \/ loadLibraryFails
  \/ \E l \in Libraries : JNI_OnUnload(l)
  \/ \E x \in Contexts :
       \/ construct(x) \/ newContext(x) \/ newContextFails(x) \/ constructed(x)
       \/ close(x) \/ deleteContext(x) \/ deleteContextThrows(x) \/ decrement(x)
  \/ shutdown
  \/ \E t \in Threads : \/ checkContexts(t) \/ checkShutdown(t) \/ testHandler(t)
                        \/ closeDumbHandlers(t)

Spec == Init /\ [][Next]_vars

-------------------------------------------------------------------------------
(***************************************************************************)
(* Properties.                                                             *)
(***************************************************************************)
Labels == {"none", "new", "failed", "native", "nobuffer", "open", "openNull",
           "delete", "broken", "decrement", "checkContexts", "checkShutdown",
           "testHandler", "sweep", "returned"}

\* Every variable has its type: the counters stay between nothing and all
\* contexts, the pool between its first and its last structure.
TypeOK ==
  /\ loading \in 1 .. 3 /\ loaded \in 0 .. 2
  /\ \A l \in Libraries : /\ lib[l].dumbWriteHandler \in Descriptors \cup {-1}
                          /\ lib[l].classes \subseteq Classes
  /\ descriptors \in [Descriptors -> Libraries \cup {StdIn, Closed}]
  /\ pc \in [Threads -> Labels]
  /\ shuttingDown \in BOOLEAN
  /\ contexts \in 0 .. Cardinality(Contexts)
  /\ totalMaxIO \in 0 .. QueueSize * Cardinality(Contexts)
  /\ \A x \in Contexts : /\ held[x] \subseteq Resources
                         /\ members[x] \subseteq 0 .. QueueSize - 1
                         /\ misfreed[x] \subseteq (0 .. 7) \X Resources
  /\ early \subseteq Contexts

\* A context constructed before the JVM shuts down finds the dumb file behind
\* dumbWriteHandler until its deleteContext is over, however the closing of
\* other contexts and the shutdown hook interleave with it, and whatever
\* other constructors and closes fail.
HandlerOutlivesContext ==
  \A x \in early :
    pc[x] \in {"native", "open", "delete", "broken"} =>
      /\ lib[loaded].file
      /\ lib[loaded].dumbWriteHandler # 0
      /\ descriptors[lib[loaded].dumbWriteHandler] = loaded

\* Whichever of close() and the shutdown hook comes last removes the file,
\* although each reads what the other writes (contexts and shuttingDown).
HandlerRemoved ==
  (/\ pc[Hook] = "returned" /\ contexts = 0
   /\ \A x \in Contexts : pc[x] \notin {"checkContexts", "checkShutdown",
                                        "testHandler", "sweep"})
     => ~ lib[loaded].file

\* Past deleteContext, for a context that had its buffer.
Deleted(x) ==
  /\ pc[x] \in {"decrement", "checkContexts", "checkShutdown", "testHandler",
                "sweep", "returned"}
  /\ "buffer" \in held[x]

\* At whichever of its steps newContext fails, the list of frees of that step
\* leaves nothing behind but the mutexes, which are never destroyed, and
\* deleteContext leaves nothing; no list frees what was not allocated, frees
\* something twice or reaches through freed memory.  The one exception is the
\* queue released after io_queue_init has failed.
NothingOrphaned ==
  \A x \in Contexts :
    /\ pc[x] = "failed" => held[x] \subseteq {"iocbLock", "pollLock"} /\ members[x] = {}
    /\ Deleted(x) => held[x] = {"buffer"} /\ members[x] = {}
    /\ misfreed[x] \subseteq {<<2, "queue">>}

\* "Closing and removing dump handler": the descriptor of the dumb file is
\* closed when the file is removed.  The code does not do this; the subject
\* of a run that violates it.
DumbHandlerClosed ==
  (loaded # 0 /\ ~ lib[loaded].file) =>
     \A d \in Descriptors : descriptors[d] # loaded
===============================================================================
