-------------------------- MODULE CallbackCacheProofs --------------------------
(***************************************************************************)
(* Proofs about CallbackCache, for a cache of any size, also 0, and any    *)
(* set of callbacks.                                                       *)
(***************************************************************************)
EXTENDS CallbackCache, SequenceTheorems, TLAPS

\* The slots counted from the get index are slots of the array, each is
\* counted once, and each is counted.
LEMMA AtFacts ==
  ASSUME size \in Nat \ {0}, get \in Slots
  PROVE  /\ \A k \in Slots : At(k) \in Slots
         /\ \A k, l \in Slots : At(k) = At(l) => k = l
  BY DEF At, Slots

\* Initially every slot is empty and the indices coincide.
LEMMA InitCacheInv == Init => CacheInv
<1> SUFFICES ASSUME Init PROVE CacheInv
  OBVIOUS
<1>1. TypeOK
  <2>1. pool \in [Slots -> Callbacks \cup {Null}] /\ result \in Callbacks \cup {Null}
    BY DEF Init
  <2>2. /\ put \in 0 .. size /\ get \in 0 .. size /\ available \in 0 .. size
        /\ size > 0 => put \in Slots /\ get \in Slots
    BY CacheAssumption DEF Init, Slots
  <2>3. npe \in BOOLEAN
    BY DEF Init
  <2> QED BY <2>1, <2>2, <2>3 DEF TypeOK
<1>2. SlotsAgree
  BY CacheAssumption DEF Init, SlotsAgree, Slots, At
<1>3. NeverThrows
  BY DEF Init, NeverThrows
<1> QED BY <1>1, <1>2, <1>3 DEF CacheInv

\* get() on a non-empty cache hands out an object and keeps the invariant.
LEMMA GetCacheInv ==
  ASSUME CacheInv, Get
  PROVE  CacheInv' /\ pool[get] # Null
<1> USE CacheAssumption DEF CacheInv
<1>1. size \in Nat \ {0} /\ get \in Slots /\ available \in 1 .. size
  BY DEF Get, Empty, TypeOK, Slots
<1>2. At(0) = get
  BY <1>1 DEF At, Slots
<1>3. pool[get] # Null
  BY <1>1, <1>2 DEF SlotsAgree, Slots
<1>4. /\ pool' = [pool EXCEPT ![get] = Null] /\ put' = put
      /\ result' = pool[get] /\ available' = available - 1
      /\ get' = Advance(get) /\ npe' = npe
  BY <1>3 DEF Get, Hand
<1>5. TypeOK'
  BY <1>1, <1>3, <1>4 DEF TypeOK, Advance, Slots
<1>6. SlotsAgree'
  <2>1. put' = IF available' = size THEN get' ELSE At(available)'
    BY <1>1, <1>4 DEF SlotsAgree, TypeOK, At, Advance, Slots
  <2>2. ASSUME NEW k \in Slots
        PROVE  (pool[At(k)])' # Null <=> k < available'
    <3>1. CASE k + 1 < size
      <4>1. k + 1 \in Slots /\ At(k)' = At(k + 1) /\ At(k + 1) \in Slots
        BY <1>1, <1>4, <2>2, <3>1 DEF At, Advance, Slots
      <4>2. At(k + 1) # get
        BY <1>1, <2>2, <3>1 DEF At, Slots
      <4>3. pool'[At(k + 1)] = pool[At(k + 1)]
        BY <1>4, <4>1, <4>2 DEF TypeOK
      <4>4. pool[At(k + 1)] # Null <=> k + 1 < available
        BY <4>1 DEF SlotsAgree
      <4> QED BY <1>1, <1>4, <2>2, <4>1, <4>3, <4>4 DEF Slots
    <3>2. CASE k + 1 = size
      <4>1. At(k)' = get
        BY <1>1, <1>4, <2>2, <3>2 DEF At, Advance, Slots
      <4>2. pool'[get] = Null
        BY <1>1, <1>4 DEF TypeOK
      <4> QED BY <1>1, <1>4, <3>2, <2>2, <4>1, <4>2 DEF Slots
    <3> QED BY <1>1, <2>2, <3>1, <3>2 DEF Slots
  <2> QED BY <2>1, <2>2 DEF SlotsAgree
<1>7. NeverThrows'
  BY <1>4 DEF NeverThrows
<1> QED BY <1>3, <1>5, <1>6, <1>7

\* put(cb) fills the first empty slot, or changes nothing.
LEMMA PutCacheInv ==
  ASSUME CacheInv, NEW cb \in Callbacks, Put(cb)
  PROVE  CacheInv'
<1> USE CacheAssumption DEF CacheInv
<1>1. CASE ~HasRoom
  BY <1>1 DEF Put, TypeOK, SlotsAgree, NeverThrows, At
<1>2. CASE HasRoom
  <2>1. size \in Nat \ {0} /\ available \in 0 .. size - 1 /\ put \in Slots
        /\ get \in Slots
    BY <1>2 DEF HasRoom, TypeOK, Slots
  <2>2. /\ available' = available + 1 /\ pool' = [pool EXCEPT ![put] = cb]
        /\ put' = Advance(put) /\ get' = get /\ result' = result /\ npe' = npe
    BY <1>2 DEF Put
  <2>3. put = At(available)
    BY <2>1 DEF SlotsAgree
  <2>4. TypeOK'
    BY <2>1, <2>2 DEF TypeOK, Advance, Slots
  <2>5. put' = IF available' = size THEN get' ELSE At(available)'
    BY <2>1, <2>2, <2>3 DEF At, Advance, Slots
  <2>6. ASSUME NEW k \in Slots
        PROVE  (pool[At(k)])' # Null <=> k < available'
    <3>1. At(k)' = At(k) /\ At(k) \in Slots
      BY <2>1, <2>2, <2>6, AtFacts DEF At
    <3>2. pool[At(k)] # Null <=> k < available
      BY <2>6 DEF SlotsAgree
    <3>3. CASE k = available
      <4>1. pool'[At(k)] = cb
        BY <2>1, <2>2, <2>3, <3>3 DEF TypeOK
      <4> QED BY <2>1, <2>2, <3>1, <3>3, <4>1
    <3>4. CASE k # available
      <4>1. At(k) # put
        BY <2>1, <2>3, <2>6, <3>4 DEF At, Slots
      <4>2. pool'[At(k)] = pool[At(k)]
        BY <2>2, <3>1, <4>1 DEF TypeOK
      <4> QED BY <2>1, <2>2, <2>6, <3>1, <3>2, <3>4, <4>2 DEF Slots
    <3> QED BY <3>3, <3>4
  <2>7. SlotsAgree'
    BY <2>5, <2>6 DEF SlotsAgree
  <2> QED BY <2>2, <2>4, <2>7 DEF NeverThrows
<1> QED BY <1>1, <1>2

\* Indices, count and contents of the array agree after any number of calls
\* of get and put.
THEOREM CacheInvariant == Spec => []CacheInv
<1>1. ASSUME CacheInv, [Next]_vars PROVE CacheInv'
  <2>1. CASE GetNull
    BY <1>1, <2>1 DEF GetNull, CacheInv, TypeOK, SlotsAgree, NeverThrows, At
  <2>2. CASE Get
    BY <1>1, <2>2, GetCacheInv
  <2>3. CASE \E cb \in Callbacks : Put(cb)
    BY <1>1, <2>3, PutCacheInv
  <2>4. CASE UNCHANGED vars
    BY <1>1, <2>4 DEF vars, CacheInv, TypeOK, SlotsAgree, NeverThrows, At
  <2> QED BY <1>1, <2>1, <2>2, <2>3, <2>4 DEF Next
<1> QED BY InitCacheInv, <1>1, PTL DEF Spec

\* The indices used by get() and put() stay inside the array.
THEOREM CacheTypeCorrect == Spec => []TypeOK
  BY CacheInvariant, PTL DEF CacheInv

\* get() never throws its NullPointerException.
THEOREM CacheNeverThrows == Spec => []NeverThrows
  BY CacheInvariant, PTL DEF CacheInv

-------------------------------------------------------------------------------
\* The contents of the array are a sequence of length available.
LEMMA ContentsSeq ==
  ASSUME CacheInv
  PROVE  /\ Contents \in Seq(Callbacks) /\ Len(Contents) = available
         /\ \A k \in 1 .. available : Contents[k] = pool[At(k - 1)]
<1> USE CacheAssumption DEF CacheInv
<1>1. available \in Nat
  BY DEF TypeOK
<1>2. ASSUME NEW k \in 1 .. available PROVE pool[At(k - 1)] \in Callbacks
  <2>1. size \in Nat \ {0} /\ get \in Slots /\ k - 1 \in Slots /\ k - 1 < available
    BY <1>2 DEF TypeOK, Slots
  <2>2. At(k - 1) \in Slots /\ pool[At(k - 1)] # Null
    BY <2>1, AtFacts DEF SlotsAgree
  <2> QED BY <2>2 DEF TypeOK
<1>3. Contents \in [1 .. available -> Callbacks]
  BY <1>2 DEF Contents
<1> QED BY <1>1, <1>3 DEF Contents

\* A function on 1 .. n is a sequence of length n.
LEMMA FunctionIsSeq ==
  ASSUME NEW S, NEW n \in Nat, NEW f \in [1 .. n -> S]
  PROVE  f \in Seq(S) /\ Len(f) = n
OBVIOUS

\* get() removes the first object of the contents.
LEMMA GetRefines ==
  ASSUME CacheInv, Get
  PROVE  Contents # <<>> /\ result' = Head(Contents) /\ Contents' = Tail(Contents)
<1> USE CacheAssumption DEF CacheInv
<1>1. pool[get] # Null /\ CacheInv'
  BY GetCacheInv
<1>2. size \in Nat \ {0} /\ get \in Slots /\ available \in 1 .. size
  BY DEF Get, Empty, TypeOK, Slots
<1>3. /\ pool' = [pool EXCEPT ![get] = Null]
      /\ result' = pool[get] /\ available' = available - 1
      /\ get' = Advance(get)
  BY <1>1 DEF Get, Hand
<1>4. /\ Contents \in Seq(Callbacks) /\ Len(Contents) = available
      /\ \A k \in 1 .. available : Contents[k] = pool[At(k - 1)]
  BY ContentsSeq
<1>5. Contents # <<>> /\ result' = Head(Contents)
  <2>1. At(0) = get
    BY <1>2 DEF At, Slots
  <2>2. Contents[1] = pool[get]
    BY <1>2, <1>4, <2>1
  <2> QED BY <1>2, <1>3, <1>4, <2>2
<1>6. Contents' = Tail(Contents)
  <2>1. ASSUME NEW k \in 1 .. available - 1
        PROVE  (pool[At(k - 1)])' = pool[At(k)]
    <3>1. At(k - 1)' = At(k) /\ At(k) # get /\ At(k) \in Slots
      BY <1>2, <1>3, <2>1 DEF At, Advance, Slots
    <3> QED BY <1>3, <3>1 DEF TypeOK
  <2>2. Contents' = [k \in 1 .. available - 1 |-> (pool[At(k - 1)])']
    BY <1>3 DEF Contents
  <2>3. \A k \in 1 .. available - 1 : Contents[k + 1] = pool[At(k)]
    BY <1>2, <1>4
  <2>4. /\ Contents' \in Seq(Callbacks) /\ Len(Contents') = available - 1
        /\ \A k \in 1 .. available - 1 : Contents'[k] = Contents[k + 1]
    <3>1. \A k \in 1 .. available - 1 : Contents[k + 1] \in Callbacks
      BY <1>2, <1>4, ElementOfSeq
    <3>2. Contents' \in [1 .. available - 1 -> Callbacks]
      BY <2>1, <2>2, <2>3, <3>1
    <3>3. Contents' \in Seq(Callbacks) /\ Len(Contents') = available - 1
      BY <1>2, <3>2, FunctionIsSeq
    <3>4. \A k \in 1 .. available - 1 : Contents'[k] = (pool[At(k - 1)])'
      BY <2>2
    <3>5. \A k \in 1 .. available - 1 : Contents'[k] = Contents[k + 1]
      BY <2>1, <2>3, <3>4
    <3> QED BY <3>3, <3>5
  <2>5. /\ Tail(Contents) \in Seq(Callbacks) /\ Len(Tail(Contents)) = available - 1
        /\ \A k \in 1 .. available - 1 : Tail(Contents)[k] = Contents[k + 1]
    BY <1>4, <1>5, HeadTailProperties
  <2> QED BY <2>4, <2>5, SeqEqual
<1> QED BY <1>5, <1>6

\* put(cb) appends cb to the contents when there is room.
LEMMA PutRefines ==
  ASSUME CacheInv, NEW cb \in Callbacks, Put(cb)
  PROVE  /\ Contents' = IF Len(Contents) < size THEN Append(Contents, cb)
                                               ELSE Contents
         /\ result' = result
<1> USE CacheAssumption DEF CacheInv
<1>1. /\ Contents \in Seq(Callbacks) /\ Len(Contents) = available
      /\ \A k \in 1 .. available : Contents[k] = pool[At(k - 1)]
  BY ContentsSeq
<1>2. result' = result
  BY DEF Put
<1>3. CASE ~HasRoom
  <2>1. Contents' = Contents
    BY <1>3 DEF Put, Contents, At
  <2> QED BY <1>1, <1>2, <1>3, <2>1 DEF HasRoom
<1>4. CASE HasRoom
  <2>1. size \in Nat \ {0} /\ available \in 0 .. size - 1 /\ get \in Slots
    BY <1>4 DEF HasRoom, TypeOK, Slots
  <2>2. /\ available' = available + 1 /\ pool' = [pool EXCEPT ![put] = cb]
        /\ get' = get
    BY <1>4 DEF Put
  <2>3. put = At(available) /\ put \in Slots
    BY <2>1 DEF SlotsAgree, TypeOK
  <2>4. ASSUME NEW k \in 1 .. available + 1
        PROVE  (pool[At(k - 1)])' = IF k = available + 1 THEN cb ELSE Contents[k]
    <3>1. At(k - 1)' = At(k - 1) /\ At(k - 1) \in Slots
      BY <2>1, <2>2, <2>4 DEF At, Slots
    <3>2. CASE k = available + 1
      <4>1. At(k - 1) = put
        BY <2>1, <2>3, <3>2
      <4> QED BY <2>2, <2>3, <3>1, <3>2, <4>1 DEF TypeOK
    <3>3. CASE k # available + 1
      <4>1. k \in 1 .. available /\ At(k - 1) # put
        BY <2>1, <2>3, <2>4, <3>3 DEF At, Slots
      <4> QED BY <1>1, <2>2, <3>1, <3>3, <4>1 DEF TypeOK
    <3> QED BY <3>2, <3>3
  <2>5. Contents' = [k \in 1 .. available + 1 |-> (pool[At(k - 1)])']
    BY <2>2 DEF Contents
  <2>6. /\ Contents' \in Seq(Callbacks) /\ Len(Contents') = available + 1
        /\ \A k \in 1 .. available : Contents'[k] = Contents[k]
        /\ Contents'[available + 1] = cb
    <3>1. \A k \in 1 .. available : Contents[k] \in Callbacks
      BY <1>1, ElementOfSeq
    <3>2. ASSUME NEW k \in 1 .. available + 1
          PROVE  (pool[At(k - 1)])' \in Callbacks
      <4>1. k = available + 1 \/ k \in 1 .. available
        BY <2>1, <3>2
      <4> QED BY <2>4, <3>1, <3>2, <4>1
    <3>3. Contents' \in [1 .. available + 1 -> Callbacks]
      BY <2>5, <3>2
    <3>4. Contents' \in Seq(Callbacks) /\ Len(Contents') = available + 1
      BY <2>1, <3>3, FunctionIsSeq
    <3>5. \A k \in 1 .. available + 1 :
             Contents'[k] = IF k = available + 1 THEN cb ELSE Contents[k]
      BY <2>4, <2>5
    <3>6. /\ \A k \in 1 .. available : k \in 1 .. available + 1 /\ k # available + 1
          /\ available + 1 \in 1 .. available + 1
      BY <2>1
    <3> QED BY <3>4, <3>5, <3>6
  <2>7. Contents' = Append(Contents, cb)
    <3>1. /\ Append(Contents, cb) \in Seq(Callbacks)
          /\ Len(Append(Contents, cb)) = available + 1
          /\ \A k \in 1 .. available : Append(Contents, cb)[k] = Contents[k]
          /\ Append(Contents, cb)[available + 1] = cb
      BY <1>1, AppendProperties
    <3>2. \A k \in 1 .. available + 1 : Contents'[k] = Append(Contents, cb)[k]
      BY <2>1, <2>6, <3>1
    <3> QED BY <2>6, <3>1, <3>2, SeqEqual
  <2> QED BY <1>1, <1>2, <1>4, <2>7 DEF HasRoom
<1> QED BY <1>3, <1>4

\* The circular array of CallbackCache is a bounded first-in first-out store.
THEOREM CacheImplementsFifo == Spec => ImplementsFifo
<1>1. Init => Fifo!Init
  BY DEF Init, Fifo!Init, Contents
<1>2. ASSUME CacheInv, [Next]_vars
      PROVE  [Fifo!Next]_<<Contents, result>>
  <2>1. CASE GetNull
    <3>1. available = 0 /\ Contents' = Contents /\ result' = Null
      BY <1>2, <2>1, CacheAssumption
         DEF GetNull, Empty, CacheInv, TypeOK, Contents, At
    <3>2. Contents = <<>>
      BY <3>1 DEF Contents
    <3> QED BY <3>1, <3>2 DEF Fifo!Next, Fifo!Poll
  <2>2. CASE Get
    BY <1>2, <2>2, GetRefines DEF Fifo!Next, Fifo!Poll
  <2>3. ASSUME NEW cb \in Callbacks, Put(cb) PROVE Fifo!Next
    BY <1>2, <2>3, PutRefines DEF Fifo!Next, Fifo!Offer
  <2>4. CASE UNCHANGED vars
    BY <2>4 DEF vars, Contents, At
  <2> QED BY <1>2, <2>1, <2>2, <2>3, <2>4 DEF Next
<1> QED BY <1>1, <1>2, CacheInvariant, PTL DEF Spec, ImplementsFifo, Fifo!Spec
===============================================================================
