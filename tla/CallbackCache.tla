----------------------------- MODULE CallbackCache -----------------------------
(***************************************************************************)
(* The CallbackCache utility: a circular array in which clients keep       *)
(* callback objects between two uses.  get and put are synchronized on one *)
(* lock, so each is one step; put(null) returns before the lock and changes *)
(* nothing.                                                                *)
(***************************************************************************)
EXTENDS Integers, Sequences

CONSTANTS
  size,        \* constructor argument
  Callbacks,   \* the objects clients put, possibly the same one twice
  Null

ASSUME CacheAssumption == size \in Nat /\ Null \notin Callbacks

VARIABLES
  pool,        \* the array
  put, get,    \* the indices
  available,   \* how many objects are there
  result,      \* what the last get() returned
  npe          \* get() has thrown its NullPointerException

vars == <<pool, put, get, available, result, npe>>

Slots == 0 .. size - 1

Init ==
  /\ pool = [i \in Slots |-> Null]
  /\ put = 0 /\ get = 0 /\ available = 0
  /\ result = Null /\ npe = FALSE

\* Mutated form: the index runs one past the array.
AdvanceLate(k) == IF k + 1 > size THEN 0 ELSE k + 1

\* Increment an index and start again at the end of the array.
Advance(k) == IF k + 1 >= size THEN 0 ELSE k + 1

Empty == available <= 0

\* get() on an empty cache returns null.
GetNull ==
  /\ Empty
  /\ result' = Null
  /\ UNCHANGED <<pool, put, get, available, npe>>

\* What get() does when it is not empty, after it cleared the slot: it throws
\* "You should initialize the pool before using it" if nothing was there.
Hand(cb, count) ==
  IF cb = Null
  THEN npe' = TRUE /\ UNCHANGED <<get, available, result>>
  ELSE /\ result' = cb
       /\ available' = count
       /\ get' = Advance(get)
       /\ UNCHANGED npe

\* Mutated form: the count is not maintained.
GetKeepsCount ==
  /\ ~Empty
  /\ pool' = [pool EXCEPT ![get] = Null]
  /\ Hand(pool[get], available)
  /\ UNCHANGED put

\* get() takes the object at the get index and clears its slot.
Get ==
  /\ ~Empty
  /\ pool' = [pool EXCEPT ![get] = Null]
  /\ Hand(pool[get], available - 1)
  /\ UNCHANGED put

\* Mutated form: a full cache overwrites its oldest object.
HasRoomAlways == size > 0

HasRoom == available < size

\* put(cb) stores cb, or forgets it when the cache is full.
Put(cb) ==
  /\ IF HasRoom
     THEN /\ available' = available + 1
          /\ pool' = [pool EXCEPT ![put] = cb]
          /\ put' = Advance(put)
     ELSE UNCHANGED <<pool, put, available>>
  /\ UNCHANGED <<get, result, npe>>

Next == GetNull \/ Get \/ \E cb \in Callbacks : Put(cb)

Spec == Init /\ [][Next]_vars

-------------------------------------------------------------------------------
(***************************************************************************)
(* Properties.                                                             *)
(***************************************************************************)

\* The indices stay in the array and the count in 0 .. size: get and put do
\* not throw ArrayIndexOutOfBoundsException.
TypeOK ==
  /\ pool \in [Slots -> Callbacks \cup {Null}]
  /\ put \in 0 .. size /\ get \in 0 .. size
  /\ size > 0 => put \in Slots /\ get \in Slots
  /\ available \in 0 .. size
  /\ result \in Callbacks \cup {Null} /\ npe \in BOOLEAN

\* The k-th slot from the get index on.
At(k) == IF get + k >= size THEN get + k - size ELSE get + k

\* The two indices and the count agree, and exactly the slots from get on to
\* put hold objects: a slot that was emptied keeps no object from collection.
SlotsAgree ==
  /\ size > 0 => put = IF available = size THEN get ELSE At(available)
  /\ \A k \in Slots : pool[At(k)] # Null <=> k < available

\* The NullPointerException of get() cannot be reached, not even in a cache
\* that was never filled.
NeverThrows == ~npe

\* The inductive invariant behind the properties above.
CacheInv == TypeOK /\ SlotsAgree /\ NeverThrows

\* The objects in the order get() will hand them out.
Contents == [k \in 1 .. available |-> pool[At(k - 1)]]

Fifo == INSTANCE BoundedFifo WITH queue <- Contents

\* The circular array is a bounded first-in first-out store.
ImplementsFifo == Fifo!Spec
===============================================================================
