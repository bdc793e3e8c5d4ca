---------------------------- MODULE IocbPoolProofs ----------------------------
(***************************************************************************)
(* Proofs about the iocb pool, for every queue size.                       *)
(***************************************************************************)
EXTENDS IocbPool, FiniteSetTheorems, TLAPS

\* Moving an index of the circular array keeps it inside the array.
LEMMA AdvanceType ==
  ASSUME NEW k \in Slots
  PROVE  Advance(k) \in Slots
BY QueueSizeAssumption DEF Advance, Slots

\* What getIOCB does to the free slots: the slot at the get index leaves
\* them, and nothing else changes.
LEMMA FreeSlotsAfterGet ==
  ASSUME TypeOK, IndicesAgree, NEW x, getIOCB(x)
  PROVE  /\ iocbGet \in FreeSlots
         /\ FreeSlots' = FreeSlots \ {iocbGet}
BY QueueSizeAssumption
   DEF TypeOK, IndicesAgree, getIOCB, FreeSlots, Advance, Slots

\* What putIOCB does to the free slots: the slot at the put index, which was
\* not one of them, joins them.
LEMMA FreeSlotsAfterPut ==
  ASSUME TypeOK, IndicesAgree, used > 0, NEW x, putIOCB(x)
  PROVE  /\ iocbPut \notin FreeSlots
         /\ FreeSlots' = FreeSlots \cup {iocbPut}
BY QueueSizeAssumption
   DEF TypeOK, IndicesAgree, putIOCB, FreeSlots, Advance, Slots

\* There are finitely many structures, hence finitely many held ones.
LEMMA HeldIsFinite ==
  ASSUME TypeOK
  PROVE  IsFiniteSet(held)
<1>1. IsFiniteSet(0 .. QueueSize - 1)
  <2>1. 0 \in Int /\ QueueSize - 1 \in Int
    BY QueueSizeAssumption
  <2> QED
    BY <2>1, FS_Interval
<1>2. held \subseteq 0 .. QueueSize - 1
  BY DEF TypeOK, Iocbs, Slots
<1> QED
  BY <1>1, <1>2, FS_Subset

\* A client which holds a structure finds the count positive.
LEMMA HeldMeansUsed ==
  ASSUME TypeOK, UsedCountsHeld, NEW x \in held
  PROVE  used > 0
<1>1. IsFiniteSet(held)
  BY HeldIsFinite
<1>2. Cardinality(held) \in Nat /\ Cardinality(held) # 0
  BY <1>1, FS_CardinalityType, FS_EmptySet
<1> QED
  BY <1>2 DEF UsedCountsHeld

\* The only structure in use.
LEMMA OneHeld ==
  ASSUME TypeOK, UsedCountsHeld, used = 1, NEW x \in held, NEW y \in held
  PROVE  x = y
<1>1. IsFiniteSet(held) /\ Cardinality(held) = 1
  BY HeldIsFinite DEF UsedCountsHeld
<1>2. PICK z : held = {z}
  BY <1>1, FS_Singleton
<1> QED
  BY <1>2

\* The pool newContext builds satisfies the invariant.
LEMMA InitEstablishesPoolInv == Init => PoolInv
<1> SUFFICES ASSUME Init PROVE PoolInv
  OBVIOUS
<1>1. TypeOK /\ IndicesAgree
  BY QueueSizeAssumption DEF Init, TypeOK, IndicesAgree, Slots, Iocbs
<1>2. FreeSlots = Slots
  BY QueueSizeAssumption DEF Init, FreeSlots, Slots
<1>3. NoSharing /\ NoLeak
  BY <1>2 DEF Init, NoSharing, NoLeak, Iocbs
<1>4. UsedCountsHeld
  BY FS_EmptySet DEF Init, UsedCountsHeld
<1> QED
  BY <1>1, <1>3, <1>4 DEF PoolInv

\* A client that takes a structure keeps the invariant.
LEMMA GetPreservesPoolInv ==
  ASSUME PoolInv, Get
  PROVE  PoolInv'
<1> USE DEF PoolInv
<1>1. PICK x \in Iocbs : getIOCB(x) /\ held' = held \cup {x}
  BY DEF Get
<1>2. iocbGet \in FreeSlots /\ FreeSlots' = FreeSlots \ {iocbGet}
  BY <1>1, FreeSlotsAfterGet
<1>3. x = iocb[iocbGet] /\ x \notin held /\ iocb' = iocb
  BY <1>1, <1>2 DEF getIOCB, NoSharing
<1>4. TypeOK'
  <2>1. iocbGet' \in Slots
    BY <1>1, AdvanceType DEF getIOCB, TypeOK
  <2> QED
    BY <1>1, <2>1, QueueSizeAssumption DEF getIOCB, TypeOK
<1>5. IndicesAgree'
  BY <1>1, QueueSizeAssumption DEF getIOCB, TypeOK, IndicesAgree, Advance, Slots
<1>6. NoSharing'
  BY <1>1, <1>2, <1>3 DEF NoSharing
<1>7. NoLeak'
  BY <1>1, <1>2, <1>3 DEF NoLeak
<1>8. UsedCountsHeld'
  <2>1. IsFiniteSet(held)
    BY HeldIsFinite
  <2>2. Cardinality(held \cup {x}) = Cardinality(held) + 1
    BY <2>1, <1>3, FS_AddElement
  <2> QED
    BY <1>1, <2>2 DEF UsedCountsHeld, getIOCB
<1> QED
  BY <1>4, <1>5, <1>6, <1>7, <1>8

\* A client that puts back a structure it holds keeps the invariant.
LEMMA PutPreservesPoolInv ==
  ASSUME PoolInv, Put
  PROVE  PoolInv'
<1> USE DEF PoolInv
<1>1. PICK x \in held : putIOCB(x) /\ held' = held \ {x}
  BY DEF Put
<1>2. used > 0
  BY HeldMeansUsed
<1>3. iocbPut \notin FreeSlots /\ FreeSlots' = FreeSlots \cup {iocbPut}
  BY <1>1, <1>2, FreeSlotsAfterPut
<1>4. x \in Iocbs
  BY DEF TypeOK
<1>5. iocb' = [iocb EXCEPT ![iocbPut] = x] /\ iocbPut \in DOMAIN iocb
  BY <1>1 DEF putIOCB, TypeOK
<1>6. FreeSlots \subseteq Slots
  BY DEF FreeSlots
<1>7. iocb'[iocbPut] = x /\ \A i \in FreeSlots : iocb'[i] = iocb[i]
  BY <1>3, <1>5, <1>6 DEF TypeOK
<1>8. TypeOK'
  <2>1. iocbPut' \in Slots
    BY <1>1, AdvanceType DEF putIOCB, TypeOK
  <2>2. iocb' \in [Slots -> Iocbs]
    BY <1>4, <1>5 DEF TypeOK
  <2> QED
    BY <1>1, <1>2, <2>1, <2>2, QueueSizeAssumption DEF putIOCB, TypeOK
<1>9. IndicesAgree'
  BY <1>1, <1>2, QueueSizeAssumption
     DEF putIOCB, TypeOK, IndicesAgree, Advance, Slots
<1>10. NoSharing'
  BY <1>1, <1>3, <1>7 DEF NoSharing
<1>11. NoLeak'
  BY <1>1, <1>3, <1>7 DEF NoLeak
<1>12. UsedCountsHeld'
  <2>1. IsFiniteSet(held)
    BY HeldIsFinite
  <2>2. Cardinality(held \ {x}) = Cardinality(held) - 1
    BY <2>1, FS_RemoveElement
  <2> QED
    BY <1>1, <2>2 DEF UsedCountsHeld, putIOCB
<1> QED
  BY <1>8, <1>9, <1>10, <1>11, <1>12

\* Every step of the pool's clients preserves the invariant.
LEMMA NextPreservesPoolInv == PoolInv /\ [Next]_vars => PoolInv'
<1> SUFFICES ASSUME PoolInv, [Next]_vars PROVE PoolInv'
  OBVIOUS
<1>1. CASE Get
  BY <1>1, GetPreservesPoolInv
<1>2. CASE Put
  BY <1>2, PutPreservesPoolInv
<1>3. CASE UNCHANGED vars
  BY <1>3 DEF vars, PoolInv, TypeOK, IndicesAgree, NoSharing, NoLeak,
              UsedCountsHeld, FreeSlots
<1> QED
  BY <1>1, <1>2, <1>3 DEF Next

\* The inductive invariant holds for every queue size.
THEOREM PoolInvariant == Spec => []PoolInv
<1>1. Init => PoolInv
  BY InitEstablishesPoolInv
<1>2. PoolInv /\ [Next]_vars => PoolInv'
  BY NextPreservesPoolInv
<1> QED
  BY <1>1, <1>2, PTL DEF Spec

\* getIOCB and putIOCB never leave the array, for every queue size.
THEOREM PoolTypeCorrect == Spec => []TypeOK
<1>1. PoolInv => TypeOK
  BY DEF PoolInv
<1> QED
  BY <1>1, PoolInvariant, PTL

\* getIOCB never hands out an iocb that is in use, for every queue size and
\* whatever the order in which the clients return theirs.
THEOREM PoolNeverShares == Spec => []NoSharing
<1>1. PoolInv => NoSharing
  BY DEF PoolInv
<1> QED
  BY <1>1, PoolInvariant, PTL

\* No structure is lost however often the indices wrap around, for every
\* queue size.
THEOREM PoolNeverLeaks == Spec => []NoLeak
<1>1. PoolInv => NoLeak
  BY DEF PoolInv
<1> QED
  BY <1>1, PoolInvariant, PTL

\* getIOCB answers NULL exactly when every structure is held, for every
\* queue size.
THEOREM PoolNullOnlyWhenAllHeld == Spec => []NullOnlyWhenAllHeld
<1>1. PoolInv => NullOnlyWhenAllHeld
  <2> SUFFICES ASSUME PoolInv PROVE NullOnlyWhenAllHeld
    OBVIOUS
  <2> USE DEF PoolInv
  <2>1. ASSUME Exhausted PROVE held = Iocbs
    <3>1. FreeSlots = {}
      BY <2>1, QueueSizeAssumption DEF Exhausted, FreeSlots, TypeOK
    <3> QED
      BY <3>1 DEF NoLeak
  <2>2. ASSUME ~Exhausted PROVE held # Iocbs
    <3>1. iocbGet \in FreeSlots
      BY <2>2, QueueSizeAssumption
         DEF Exhausted, FreeSlots, TypeOK, IndicesAgree, Slots
    <3>2. iocb[iocbGet] \in Iocbs /\ iocb[iocbGet] \notin held
      BY <3>1 DEF TypeOK, NoSharing
    <3> QED
      BY <3>2
  <2> QED
    BY <2>1, <2>2 DEF NullOnlyWhenAllHeld
<1> QED
  BY <1>1, PoolInvariant, PTL

-------------------------------------------------------------------------------
\* The free set the circular array stands for.
FreeIocbs == {iocb[i] : i \in FreeSlots}

\* The circular array implements the abstract pool, for every queue size:
\* each getIOCB takes one structure from the free set, each putIOCB returns
\* one that was missing from it.
THEOREM PoolImplementsAbstract == Spec => ImplementsAbstractPool
<1>1. Init => Abstract!Init
  <2> SUFFICES ASSUME Init PROVE FreeIocbs = Iocbs
    BY DEF Init, Abstract!Init, FreeIocbs
  <2>1. FreeSlots = Slots
    BY QueueSizeAssumption DEF Init, FreeSlots, Slots
  <2> QED
    BY <2>1 DEF Init, FreeIocbs, Iocbs
<1>2. PoolInv /\ [Next]_vars => [Abstract!Next]_<<FreeIocbs, held>>
  <2> SUFFICES ASSUME PoolInv, [Next]_vars
               PROVE  [Abstract!Next]_<<FreeIocbs, held>>
    OBVIOUS
  <2> USE DEF PoolInv
  <2>1. CASE Get
    <3>1. PICK x \in Iocbs : getIOCB(x) /\ held' = held \cup {x}
      BY <2>1 DEF Get
    <3>2. iocbGet \in FreeSlots /\ FreeSlots' = FreeSlots \ {iocbGet}
      BY <3>1, FreeSlotsAfterGet
    <3>3. x = iocb[iocbGet] /\ iocb' = iocb
      BY <3>1 DEF getIOCB
    <3>4. x \in FreeIocbs /\ FreeIocbs' = FreeIocbs \ {x}
      BY <3>2, <3>3 DEF NoSharing, FreeIocbs
    <3>5. Abstract!Take(x)
      BY <3>1, <3>4 DEF Abstract!Take, FreeIocbs
    <3> QED
      BY <3>5 DEF Abstract!Next
  <2>2. CASE Put
    <3>1. PICK x \in held : putIOCB(x) /\ held' = held \ {x}
      BY <2>2 DEF Put
    <3>2. used > 0
      BY HeldMeansUsed
    <3>3. iocbPut \notin FreeSlots /\ FreeSlots' = FreeSlots \cup {iocbPut}
      BY <3>1, <3>2, FreeSlotsAfterPut
    <3>4. x \in Iocbs /\ x \notin FreeIocbs
      BY DEF TypeOK, NoSharing, FreeIocbs
    <3>5. FreeSlots \subseteq Slots /\ iocbPut \in Slots
      BY DEF FreeSlots, TypeOK
    <3>6. iocb'[iocbPut] = x /\ \A i \in FreeSlots : iocb'[i] = iocb[i]
      BY <3>1, <3>3, <3>5 DEF putIOCB, TypeOK
    <3>7. FreeIocbs' = FreeIocbs \cup {x}
      BY <3>3, <3>6 DEF FreeIocbs
    <3>8. Abstract!GiveBack(x)
      BY <3>1, <3>4, <3>7 DEF Abstract!GiveBack, FreeIocbs
    <3> QED
      BY <3>4, <3>8 DEF Abstract!Next
  <2>3. CASE UNCHANGED vars
    BY <2>3 DEF vars, FreeIocbs, FreeSlots
  <2> QED
    BY <2>1, <2>2, <2>3 DEF Next
<1> QED
  BY <1>1, <1>2, PoolInvariant, PTL
     DEF Spec, ImplementsAbstractPool, Abstract!Spec, FreeIocbs

===============================================================================
