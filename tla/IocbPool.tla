------------------------------- MODULE IocbPool -------------------------------
(***************************************************************************)
(* The reusable pool of iocb structures inside struct io_control: a        *)
(* circular array of pointers with a get index, a put index and a count of *)
(* the structures in use.  getIOCB and putIOCB run under iocbLock, so each *)
(* is one step.                                                            *)
(*                                                                         *)
(* The structure malloc'ed by newContext for slot i is named i.  The       *)
(* variable held is the set of structures the pool's clients own; the      *)
(* clients promise to put back only what they hold, once.                  *)
(***************************************************************************)
EXTENDS Integers, FiniteSets

CONSTANT QueueSize

\* io_queue_init refuses a queue of size 0 or less, so newContext never
\* builds such a pool.
ASSUME QueueSizeAssumption == QueueSize \in Nat \ {0}

VARIABLES
  iocb,      \* control->iocb, the circular array
  iocbPut,   \* control->iocbPut
  iocbGet,   \* control->iocbGet
  used,      \* control->used
  held       \* the structures that are out of the pool

vars == <<iocb, iocbPut, iocbGet, used, held>>

Slots == 0 .. QueueSize - 1
Iocbs == Slots

-------------------------------------------------------------------------------
Init ==
  /\ iocb = [i \in Slots |-> i]
  /\ iocbPut = 0
  /\ iocbGet = 0
  /\ used = 0
  /\ held = {}

\* Mutated form: the comparison lets the index run one past the array.
AdvanceLate(k) == IF k + 1 > QueueSize THEN 0 ELSE k + 1

\* control->iocbXxx++ followed by the reset to 0 at the end of the array.
Advance(k) == IF k + 1 >= QueueSize THEN 0 ELSE k + 1

\* Mutated form: one structure too many is handed out.
getIOCBTooMany(x) ==
  /\ used <= QueueSize
  /\ x = iocb[iocbGet]
  /\ used' = used + 1
  /\ iocbGet' = Advance(iocbGet)
  /\ UNCHANGED <<iocb, iocbPut>>

\* getIOCB returns x.
getIOCB(x) ==
  /\ used < QueueSize
  /\ x = iocb[iocbGet]
  /\ used' = used + 1
  /\ iocbGet' = Advance(iocbGet)
  /\ UNCHANGED <<iocb, iocbPut>>

\* getIOCB returns NULL exactly in these states, and changes nothing.
Exhausted == used >= QueueSize

\* Mutated form: the structure goes back to the slot that is next to be read.
putIOCBAtGet(x) ==
  /\ used' = used - 1
  /\ iocb' = [iocb EXCEPT ![iocbGet] = x]
  /\ iocbPut' = Advance(iocbPut)
  /\ UNCHANGED iocbGet

\* Mutated form: the count is not maintained.
putIOCBNoCount(x) ==
  /\ iocb' = [iocb EXCEPT ![iocbPut] = x]
  /\ iocbPut' = Advance(iocbPut)
  /\ UNCHANGED <<iocbGet, used>>

putIOCB(x) ==
  /\ used' = used - 1
  /\ iocb' = [iocb EXCEPT ![iocbPut] = x]
  /\ iocbPut' = Advance(iocbPut)
  /\ UNCHANGED iocbGet

-------------------------------------------------------------------------------
Get == \E x \in Iocbs : getIOCB(x) /\ held' = held \cup {x}

Put == \E x \in held : putIOCB(x) /\ held' = held \ {x}

Next == Get \/ Put

Spec == Init /\ [][Next]_vars

-------------------------------------------------------------------------------
(***************************************************************************)
(* Properties.                                                             *)
(***************************************************************************)

\* The indices stay inside the array and the count inside 0 .. QueueSize:
\* getIOCB and putIOCB never read or write control->iocb out of bounds.
TypeOK ==
  /\ iocb \in [Slots -> Iocbs]
  /\ iocbPut \in Slots
  /\ iocbGet \in Slots
  /\ used \in 0 .. QueueSize
  /\ held \subseteq Iocbs

\* The slots getIOCB will read before it meets the put index again.
FreeSlots ==
  {i \in Slots : /\ used < QueueSize
                 /\ IF iocbGet < iocbPut
                    THEN iocbGet <= i /\ i < iocbPut
                    ELSE iocbGet <= i \/ i < iocbPut}

\* The two indices and the count, each updated by a separate statement of
\* getIOCB or putIOCB, never drift apart.
IndicesAgree ==
  \/ iocbGet = iocbPut + used
  \/ iocbGet + QueueSize = iocbPut + used

\* No slot between get and put holds a structure that a client still owns,
\* or that another slot also holds: getIOCB never hands out an iocb that is
\* in use, in whatever order the structures come back through putIOCB.
NoSharing ==
  /\ \A i \in FreeSlots : iocb[i] \notin held
  /\ \A i, j \in FreeSlots : iocb[i] = iocb[j] => i = j

\* Every structure is either owned or waiting in a slot: none leaks however
\* often the pool wraps around.
NoLeak == Iocbs = held \cup {iocb[i] : i \in FreeSlots}

\* getIOCB returns NULL ("Not enough space in libaio queue") only when the
\* clients really own every structure, and then always.
NullOnlyWhenAllHeld == Exhausted <=> held = Iocbs

\* control->used counts the structures that are out of the pool, no matter
\* who holds them: the guard of getIOCB looks at nothing else.
UsedCountsHeld == Cardinality(held) = used

\* The inductive invariant behind the properties above.
PoolInv == TypeOK /\ IndicesAgree /\ NoSharing /\ NoLeak /\ UsedCountsHeld

-------------------------------------------------------------------------------
Abstract == INSTANCE AbstractIocbPool WITH free <- {iocb[i] : i \in FreeSlots}

\* The circular array implements the abstract pool: what getIOCB hands out
\* is a structure of the free set, and putIOCB returns exactly one to it.
ImplementsAbstractPool == Abstract!Spec
===============================================================================
