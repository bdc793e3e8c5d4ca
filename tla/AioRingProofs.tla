----------------------------- MODULE AioRingProofs -----------------------------
(***************************************************************************)
(* Proofs about AioRing, for a ring and a queue of any size, any set of    *)
(* calls and any number of events.                                         *)
(***************************************************************************)
EXTENDS AioRing, SequenceTheorems, TLAPS

\* The remainder of a number below twice the modulus.
LEMMA ModWrap ==
  ASSUME NEW n \in Nat \ {0}, NEW x \in 0 .. 2 * n - 1
  PROVE  x % n = IF x < n THEN x ELSE x - n
<1>1. CASE x < n
  BY <1>1, Z3
<1>2. CASE x >= n
  <2> DEFINE q == x \div n
             r == x % n
  <2>1. x = n * q + r /\ r \in 0 .. n - 1 /\ q \in Int
    BY Z3
  <2>2. q = 1
    BY <1>2, <2>1, Z3
  <2> QED BY <1>2, <2>1, <2>2
<1> QED BY <1>1, <1>2

\* Moving an index of the ring on by at most one turn.
LEMMA Wrapped ==
  ASSUME NEW h \in Slots, NEW k \in 0 .. Nr
  PROVE  (h + k) % Nr = IF h + k >= Nr THEN h + k - Nr ELSE h + k
<1>1. Nr \in Nat \ {0}
  BY RingAssumption
<1>2. PICK x \in 0 .. 2 * Nr - 1 : x = h + k
  BY <1>1 DEF Slots
<1>3. x % Nr = IF x < Nr THEN x ELSE x - Nr
  BY <1>1, ModWrap
<1>4. x % Nr = IF x >= Nr THEN x - Nr ELSE x
  BY <1>1, <1>3
<1>5. (h + k) % Nr = x % Nr
  BY <1>2
<1> QED BY <1>1, <1>2, <1>4, <1>5 DEF Slots

\* Initially the ring is empty.
LEMMA InitRingInv == Init => RingInv
<1> SUFFICES ASSUME Init PROVE RingInv
  OBVIOUS
<1> USE RingAssumption
<1>1. TypeOK
  <2>1. head \in Slots /\ tail \in Slots /\ slots \in [Slots -> Nat]
    BY DEF Init, Slots
  <2>2. forceSysCall \in BOOLEAN /\ writing \in BOOLEAN
    BY DEF Init
  <2>3. reader \in Readers
    BY DEF Init, IdleReader, Readers, Slots
  <2>4. events \in Seq(Nat) /\ posted \in Nat /\ consumed \in Nat
    BY DEF Init
  <2> QED BY <2>1, <2>2, <2>3, <2>4 DEF TypeOK
<1>2. CountsAgree
  BY DEF Init, CountsAgree, Available
<1>3. UnreadIntact
  BY DEF Init, UnreadIntact, Slots
<1>4. ReaderAligned /\ CopyInOrder
  BY DEF Init, IdleReader, ReaderAligned, CopyInOrder
<1>5. BatchInOrder
  BY DEF Init, BatchInOrder
<1> QED BY <1>1, <1>2, <1>3, <1>4, <1>5 DEF RingInv

\* The kernel writes to a slot that holds no unread event.
LEMMA KernelWriteInv == ASSUME RingInv, kernelWrite PROVE RingInv'
<1> USE RingAssumption DEF RingInv
<1>1. /\ slots' = [slots EXCEPT ![tail] = posted + 1] /\ writing' = TRUE
      /\ posted - consumed < QueueSize
      /\ head' = head /\ tail' = tail /\ forceSysCall' = forceSysCall
      /\ reader' = reader /\ events' = events
      /\ posted' = posted /\ consumed' = consumed
  BY DEF kernelWrite
<1>2. /\ head \in Slots /\ tail \in Slots /\ slots \in [Slots -> Nat]
      /\ posted \in Nat /\ consumed \in Nat /\ Nr \in Nat /\ QueueSize \in Nat
  BY DEF TypeOK
<1>3. TypeOK'
  <2>1. slots' \in [Slots -> Nat]
    BY <1>1, <1>2
  <2>2. writing' \in BOOLEAN
    BY <1>1
  <2> QED BY <1>1, <2>1, <2>2 DEF TypeOK
<1>4. CountsAgree' /\ ReaderAligned' /\ CopyInOrder' /\ BatchInOrder'
  BY <1>1 DEF CountsAgree, Available, ReaderAligned, SlotAt, CopyInOrder,
              BatchInOrder
<1>5. UnreadIntact'
  <2>1. ASSUME NEW k \in Slots, k < posted - consumed
        PROVE  slots'[SlotAt(k)] = consumed + k + 1
    <3>1. SlotAt(k) # tail /\ SlotAt(k) \in Slots
      BY <1>1, <1>2, <2>1 DEF CountsAgree, Available, SlotAt, Slots
    <3>2. slots[SlotAt(k)] = consumed + k + 1
      BY <2>1 DEF UnreadIntact
    <3> QED BY <1>1, <1>2, <3>1, <3>2
  <2>2. slots'[tail] = posted + 1
    BY <1>1, <1>2
  <2> QED BY <1>1, <2>1, <2>2 DEF UnreadIntact, SlotAt
<1> QED BY <1>3, <1>4, <1>5

\* The kernel's move of tail makes one more event available.
LEMMA KernelPublishInv == ASSUME RingInv, kernelPublish PROVE RingInv'
<1> USE RingAssumption DEF RingInv
<1>1. /\ writing /\ tail' = (tail + 1) % Nr /\ posted' = posted + 1
      /\ writing' = FALSE
      /\ head' = head /\ slots' = slots /\ forceSysCall' = forceSysCall
      /\ reader' = reader /\ events' = events /\ consumed' = consumed
  BY DEF kernelPublish
<1>2. /\ head \in Slots /\ tail \in Slots /\ slots \in [Slots -> Nat]
      /\ posted \in Nat /\ consumed \in Nat /\ Nr \in Nat /\ QueueSize \in Nat
  BY DEF TypeOK
<1>3. tail' = IF tail + 1 >= Nr THEN tail + 1 - Nr ELSE tail + 1
  BY <1>1, <1>2, Wrapped DEF Slots
<1>4. posted - consumed < QueueSize /\ slots[tail] = posted + 1
  BY <1>1 DEF UnreadIntact
<1>5. TypeOK'
  <2>1. tail' \in Slots /\ posted' \in Nat
    BY <1>1, <1>2, <1>3 DEF Slots
  <2>2. writing' \in BOOLEAN
    BY <1>1
  <2> QED BY <1>1, <2>1, <2>2 DEF TypeOK
<1>6. CountsAgree'
  BY <1>1, <1>2, <1>3, <1>4 DEF CountsAgree, Available, Slots
<1>7. UnreadIntact'
  <2>1. ASSUME NEW k \in Slots, k < posted + 1 - consumed
        PROVE  slots[SlotAt(k)] = consumed + k + 1
    <3>1. CASE k < posted - consumed
      BY <2>1, <3>1 DEF UnreadIntact
    <3>2. CASE k = posted - consumed
      <4>1. SlotAt(k) = tail
        BY <1>2, <1>4, <3>2 DEF CountsAgree, Available, SlotAt, Slots
      <4> QED BY <1>2, <1>4, <3>2, <4>1
    <3> QED BY <1>2, <2>1, <3>1, <3>2 DEF Slots
  <2>2. ASSUME NEW k \in Slots, (k < posted - consumed)'
        PROVE  (slots[SlotAt(k)] = consumed + k + 1)'
    <3>1. SlotAt(k)' = SlotAt(k)
      BY <1>1 DEF SlotAt
    <3>2. k < posted + 1 - consumed
      BY <1>1, <1>2, <2>2 DEF Slots
    <3> QED BY <1>1, <2>1, <3>1, <3>2
  <2>3. ~ writing'
    BY <1>1
  <2> QED BY <2>2, <2>3, Zenon DEF UnreadIntact, SlotAt, Slots
<1>8. CopyInOrder'
  BY <1>1, <1>2 DEF CopyInOrder, TypeOK, Readers
<1>9. ReaderAligned' /\ BatchInOrder'
  BY <1>1 DEF ReaderAligned, SlotAt, BatchInOrder
<1> QED BY <1>5, <1>6, <1>7, <1>8, <1>9

\* Steps of the reader that leave ring and counters alone: what is left to
\* show is about the reader and its array.
LEMMA ReaderOnly ==
  ASSUME RingInv, UNCHANGED <<ringVars, writing, posted, consumed>>,
         forceSysCall' \in BOOLEAN,
         reader' \in Readers,
         events' \in Seq(Nat),
         ReaderAligned', CopyInOrder', BatchInOrder'
  PROVE  RingInv'
<1>1. TypeOK'
  BY DEF RingInv, TypeOK, ringVars
<1>2. CountsAgree' /\ UnreadIntact'
  BY DEF RingInv, CountsAgree, Available, UnreadIntact, SlotAt, ringVars
<1> QED BY <1>1, <1>2 DEF RingInv

\* A step that starts a call, or that only switches forceSysCall.
LEMMA CallInv == ASSUME RingInv, NEW c \in Calls, call(c) PROVE RingInv'
<1> USE RingAssumption
<1>1. c.min \in Nat /\ c.max \in Nat \ {0}
  OBVIOUS
<1>2. /\ reader' = [IdleReader EXCEPT
                      !.pc = IF forceSysCall \/ ~UsableRing THEN "syscall" ELSE "head",
                      !.min = c.min, !.max = c.max]
      /\ UNCHANGED <<ringVars, forceSysCall, writing, events, posted, consumed>>
  BY DEF call
<1>3. PICK pc \in {"syscall", "head"} :
        reader' = [IdleReader EXCEPT !.pc = pc, !.min = c.min, !.max = c.max]
  BY <1>2
<1>4. reader' \in Readers /\ reader'.pc \in {"syscall", "head"}
      /\ reader'.copied = <<>>
  <2>1. reader' = [pc |-> pc, min |-> c.min, max |-> c.max, head |-> 0, n |-> 0,
                   needMod |-> 0, copied |-> <<>>]
    BY <1>3 DEF IdleReader
  <2>2. 0 \in Slots /\ <<>> \in Seq(Nat)
    BY DEF Slots
  <2> QED BY <1>1, <2>1, <2>2 DEF Readers
<1>5. ReaderAligned' /\ CopyInOrder'
  BY <1>4 DEF ReaderAligned, CopyInOrder
<1>6. BatchInOrder' /\ events' \in Seq(Nat)
  BY <1>2 DEF RingInv, BatchInOrder, TypeOK
<1>7. forceSysCall' \in BOOLEAN
  BY <1>2 DEF RingInv, TypeOK
<1> QED BY <1>2, <1>4, <1>5, <1>6, <1>7, ReaderOnly

\* The reader's look at head.
LEMMA ReadHeadInv == ASSUME RingInv, readHead PROVE RingInv'
<1>1. /\ reader.pc = "head" /\ reader' = [reader EXCEPT !.pc = "tail", !.head = head]
      /\ UNCHANGED <<ringVars, forceSysCall, writing, events, posted, consumed>>
  BY DEF readHead
<1>2. reader \in Readers /\ head \in Slots
  BY DEF RingInv, TypeOK
<1>3. reader.copied = <<>>
  BY <1>1 DEF RingInv, ReaderAligned
<1>4. reader' \in Readers /\ reader'.pc = "tail" /\ reader'.head = head
      /\ reader'.copied = <<>>
  BY <1>1, <1>2, <1>3 DEF Readers
<1>5. ReaderAligned' /\ CopyInOrder'
  BY <1>1, <1>4 DEF ReaderAligned, CopyInOrder, ringVars
<1>6. BatchInOrder' /\ events' \in Seq(Nat)
  BY <1>1 DEF RingInv, BatchInOrder, TypeOK
<1>7. forceSysCall' \in BOOLEAN
  BY <1>1 DEF RingInv, TypeOK
<1> QED BY <1>1, <1>4, <1>5, <1>6, <1>7, ReaderOnly

\* The reader's look at tail: if it goes on to copy, then the tail it saw was
\* the right one, and what it found available is what is unread.
LEMMA ReadTailInv == ASSUME RingInv, readTail PROVE RingInv'
<1> USE RingAssumption
<1>1. PICK t \in TailsSeen(reader.head, reader.max) :
        reader' = [reader EXCEPT
          !.pc = TailRoute(Available(reader.head, t), reader.min, reader.max),
          !.n = IF Available(reader.head, t) < reader.max
                THEN Available(reader.head, t) ELSE reader.max,
          !.needMod = NeedMod(reader.head,
                              IF Available(reader.head, t) < reader.max
                              THEN Available(reader.head, t) ELSE reader.max)]
  BY DEF readTail
<1> DEFINE available == Available(reader.head, t)
           route == TailRoute(available, reader.min, reader.max)
           n == IF available < reader.max THEN available ELSE reader.max
<1>2. /\ reader.pc = "tail"
      /\ UNCHANGED <<ringVars, forceSysCall, writing, events, posted, consumed>>
  BY DEF readTail
<1>3. /\ reader \in Readers /\ head \in Slots /\ tail \in Slots
      /\ posted \in Nat /\ consumed \in Nat
  BY DEF RingInv, TypeOK
<1>4. reader.copied = <<>> /\ reader.head = head
  BY <1>2 DEF RingInv, ReaderAligned
<1>5. reader.min \in Nat /\ reader.max \in Nat \ {0}
  BY <1>3 DEF Readers
<1>6. available \in Nat
  BY <1>1, <1>3, <1>4 DEF TailsSeen, Available, Slots
<1>7. route \in {"syscall", "none", "copy"}
  BY DEF TailRoute
<1>8. n \in Nat
  <2> HIDE DEF available
  <2> QED BY <1>5, <1>6
<1>9. route = "copy" => n = posted - consumed
  <2>1. SUFFICES ASSUME route = "copy" PROVE n = posted - consumed
    OBVIOUS
  <2>2. ~ (available >= reader.max)
    BY <2>1 DEF TailRoute
  <2>3. t = tail
    BY <1>1, <2>2 DEF TailsSeen
  <2>4. available = posted - consumed
    BY <1>4, <2>3 DEF RingInv, CountsAgree
  <2>5. available < reader.max
    <3> HIDE DEF available
    <3> QED BY <1>5, <1>6, <2>2
  <2> QED BY <2>4, <2>5
<1>10. NeedMod(reader.head, n) \in {0, 1}
  BY DEF NeedMod
<1>11. /\ reader' \in Readers /\ reader'.pc = route
       /\ reader'.copied = <<>> /\ reader'.head = head
       /\ reader'.n = n /\ reader'.needMod = NeedMod(head, n)
  <2>1. reader' = [reader EXCEPT !.pc = route, !.n = n,
                                 !.needMod = NeedMod(reader.head, n)]
    BY <1>1
  <2> HIDE DEF available, route, n
  <2> QED BY <1>3, <1>4, <1>7, <1>8, <1>10, <2>1 DEF Readers
<1> HIDE DEF route, n
<1>12. ReaderAligned'
  <2>1. head' = head /\ Len(reader'.copied) = 0 /\ SlotAt(0)' = head
    BY <1>2, <1>3, <1>11 DEF SlotAt, Slots, ringVars
  <2>2. NeedMod(head, n) = NeedMod(head', reader'.n)
    BY <1>11, <2>1
  <2>3. Len(reader'.copied) <= reader'.n
    BY <1>8, <1>11, <2>1
  <2> QED BY <1>7, <1>11, <2>1, <2>2, <2>3 DEF ReaderAligned, NeedMod
<1>13. CopyInOrder'
  BY <1>2, <1>3, <1>9, <1>11 DEF CopyInOrder
<1>14. BatchInOrder' /\ events' \in Seq(Nat)
  BY <1>2 DEF RingInv, BatchInOrder, TypeOK
<1>15. forceSysCall' \in BOOLEAN
  BY <1>2 DEF RingInv, TypeOK
<1> QED BY <1>2, <1>11, <1>12, <1>13, <1>14, <1>15, ReaderOnly

\* What a reader looks like once it has returned.
LEMMA ReturnedFacts ==
  ASSUME RingInv, NEW pc \in {"idle", "interrupted", "failed"}
  PROVE  Returned(pc) \in Readers /\ Returned(pc).pc = pc
<1>1. reader.min \in Nat /\ reader.max \in Nat \ {0}
  BY DEF RingInv, TypeOK, Readers
<1>2. 0 \in Slots /\ <<>> \in Seq(Nat)
  BY RingAssumption DEF Slots
<1> QED BY <1>1, <1>2 DEF Returned, Readers

\* A call that returns nothing, because there was nothing or by an error.
LEMMA NothingReadInv ==
  ASSUME RingInv, returnNone \/ io_geteventsFails
  PROVE  RingInv'
<1>1. /\ events' = <<>>
      /\ UNCHANGED <<ringVars, forceSysCall, writing, posted, consumed>>
  BY DEF returnNone, io_geteventsFails
<1>2. PICK pc \in {"idle", "failed"} : reader' = Returned(pc)
  BY DEF returnNone, io_geteventsFails
<1>3. reader' \in Readers /\ reader'.pc \in {"idle", "failed"}
  BY <1>2, ReturnedFacts
<1>4. ReaderAligned' /\ CopyInOrder'
  BY <1>3 DEF ReaderAligned, CopyInOrder
<1>5. BatchInOrder' /\ events' \in Seq(Nat)
  BY <1>1 DEF BatchInOrder, RingInv, TypeOK
<1>6. forceSysCall' \in BOOLEAN
  BY <1>1 DEF RingInv, TypeOK
<1> QED BY <1>1, <1>3, <1>4, <1>5, <1>6, ReaderOnly

\* The slots counted from head on follow each other, with or without the
\* wrap.
LEMMA SlotAtNext ==
  ASSUME head \in Slots, NEW k \in Nat, k + 1 < Nr
  PROVE  /\ SlotAt(k) \in Slots /\ SlotAt(k + 1) \in Slots
         /\ (SlotAt(k) + 1) % Nr = SlotAt(k + 1)
         /\ head + k + 1 < Nr => SlotAt(k) + 1 = SlotAt(k + 1)
<1> USE RingAssumption
<1>1. SlotAt(k) \in Slots /\ SlotAt(k + 1) \in Slots
  BY DEF SlotAt, Slots
<1>2. (SlotAt(k) + 1) % Nr = IF SlotAt(k) + 1 >= Nr THEN SlotAt(k) + 1 - Nr
                                                    ELSE SlotAt(k) + 1
  BY <1>1, Wrapped
<1>3. SlotAt(k + 1) = IF SlotAt(k) + 1 >= Nr THEN SlotAt(k) + 1 - Nr
                                             ELSE SlotAt(k) + 1
  BY DEF SlotAt, Slots
<1>4. head + k + 1 < Nr => SlotAt(k) + 1 = SlotAt(k + 1)
  BY DEF SlotAt, Slots
<1> QED BY <1>1, <1>2, <1>3, <1>4

\* Copying one event reads the slot of the next unread event, and the modulo
\* is taken whenever the copy reaches the end of the ring.
LEMMA CopyEventInv == ASSUME RingInv, copyEvent PROVE RingInv'
<1> USE RingAssumption
<1> DEFINE m == Len(reader.copied)
<1>1. /\ reader.pc = "copy" /\ m < reader.n
      /\ reader' = [reader EXCEPT
                      !.copied = Append(@, slots[reader.head]),
                      !.head = IF reader.needMod = 1 THEN (@ + 1) % Nr ELSE @ + 1]
      /\ UNCHANGED <<ringVars, forceSysCall, writing, events, posted, consumed>>
  BY DEF copyEvent, EventRead
<1>2. /\ reader \in Readers /\ head \in Slots /\ posted \in Nat /\ consumed \in Nat
      /\ slots \in [Slots -> Nat]
  BY DEF RingInv, TypeOK
<1>3. /\ reader.head = SlotAt(m) /\ reader.needMod = NeedMod(head, reader.n)
      /\ reader.n <= posted - consumed
      /\ \A k \in 1 .. m : reader.copied[k] = consumed + k
  BY <1>1 DEF RingInv, ReaderAligned, CopyInOrder
<1>4. /\ m \in Nat /\ reader.n \in Nat /\ reader.head \in Slots
      /\ reader.copied \in Seq(Nat)
  BY <1>2 DEF Readers
<1>5. posted - consumed <= QueueSize
  BY DEF RingInv, CountsAgree
<1>6. slots[reader.head] = consumed + m + 1 /\ slots[reader.head] \in Nat
  <2>1. m \in Slots /\ m < posted - consumed
    BY <1>1, <1>2, <1>3, <1>4, <1>5 DEF Slots
  <2>2. slots[SlotAt(m)] = consumed + m + 1
    BY <2>1 DEF RingInv, UnreadIntact
  <2> QED BY <1>2, <1>3, <1>4, <2>2
<1>7. (IF reader.needMod = 1 THEN (reader.head + 1) % Nr ELSE reader.head + 1)
        = SlotAt(m + 1)
  <2> HIDE DEF m
  <2>1. m + 1 <= reader.n /\ m + 1 < Nr
    BY <1>1, <1>2, <1>3, <1>4, <1>5
  <2>2. /\ (SlotAt(m) + 1) % Nr = SlotAt(m + 1)
        /\ head + m + 1 < Nr => SlotAt(m) + 1 = SlotAt(m + 1)
    BY <1>2, <1>4, <2>1, SlotAtNext
  <2>3. reader.needMod # 1 => head + m + 1 < Nr
    BY <1>2, <1>3, <1>4, <2>1 DEF NeedMod, Slots
  <2> QED BY <1>3, <2>2, <2>3
<1>8. SlotAt(m + 1) \in Slots
  <2> HIDE DEF m
  <2>1. m + 1 < Nr
    BY <1>1, <1>2, <1>3, <1>4, <1>5
  <2> QED BY <1>2, <1>4, <2>1, SlotAtNext
<1>9. /\ Append(reader.copied, slots[reader.head]) \in Seq(Nat)
      /\ Len(Append(reader.copied, slots[reader.head])) = m + 1
      /\ \A k \in 1 .. m : Append(reader.copied, slots[reader.head])[k] = reader.copied[k]
      /\ Append(reader.copied, slots[reader.head])[m + 1] = slots[reader.head]
  BY <1>4, <1>6, AppendProperties
<1>10. reader' = [reader EXCEPT !.copied = Append(reader.copied, slots[reader.head]),
                                !.head = SlotAt(m + 1)]
  BY <1>1, <1>7
<1>11. /\ reader' \in Readers /\ reader'.pc = "copy" /\ reader'.n = reader.n
       /\ reader'.needMod = reader.needMod /\ reader'.head = SlotAt(m + 1)
       /\ reader'.copied = Append(reader.copied, slots[reader.head])
  BY <1>1, <1>2, <1>8, <1>9, <1>10 DEF Readers
<1>12. ReaderAligned'
  <2>1. head' = head /\ Len(reader'.copied) = m + 1 /\ Len(reader'.copied) <= reader'.n
    BY <1>1, <1>4, <1>9, <1>11 DEF ringVars
  <2>2. SlotAt(m + 1) = IF head' + Len(reader'.copied) >= Nr
                        THEN head' + Len(reader'.copied) - Nr
                        ELSE head' + Len(reader'.copied)
    BY <2>1 DEF SlotAt
  <2>3. reader'.needMod = NeedMod(head', reader'.n)
    BY <1>3, <1>11, <2>1
  <2> QED BY <1>11, <2>1, <2>2, <2>3 DEF ReaderAligned, NeedMod, SlotAt
<1>13. CopyInOrder'
  <2>1. \A k \in 1 .. m + 1 : reader'.copied[k] = consumed + k
    <3>1. \A k \in 1 .. m + 1 : k \in 1 .. m \/ k = m + 1
      BY <1>4
    <3>2. reader'.copied[m + 1] = consumed + (m + 1)
      BY <1>2, <1>4, <1>6, <1>9, <1>11
    <3>3. \A k \in 1 .. m : reader'.copied[k] = consumed + k
      BY <1>3, <1>9, <1>11
    <3> QED BY <3>1, <3>2, <3>3
  <2>2. Len(reader'.copied) = m + 1 /\ posted' = posted /\ consumed' = consumed
    BY <1>1, <1>9, <1>11
  <2> QED BY <1>3, <1>11, <2>1, <2>2 DEF CopyInOrder
<1>14. BatchInOrder' /\ events' \in Seq(Nat)
  BY <1>1 DEF RingInv, BatchInOrder, TypeOK
<1>15. forceSysCall' \in BOOLEAN
  BY <1>1 DEF RingInv, TypeOK
<1> QED BY <1>1, <1>11, <1>12, <1>13, <1>14, <1>15, ReaderOnly

\* Taking the first n unread events, whoever moves head.
LEMMA ConsumeInv ==
  ASSUME RingInv, NEW n \in Nat, n <= posted - consumed,
         head' = SlotAt(n), consumed' = consumed + n,
         events' \in Seq(Nat), Len(events') = n,
         \A k \in 1 .. n : events'[k] = consumed + k,
         reader' = Returned("idle") \/ reader' = Returned("interrupted"),
         UNCHANGED <<tail, slots, forceSysCall, writing, posted>>
  PROVE  RingInv'
<1> USE RingAssumption
<1>1. /\ head \in Slots /\ tail \in Slots /\ posted \in Nat /\ consumed \in Nat
      /\ posted - consumed \in 0 .. QueueSize
      /\ Available(head, tail) = posted - consumed
  BY DEF RingInv, TypeOK, CountsAgree
<1>2. reader' \in Readers /\ reader'.pc \in {"idle", "interrupted"}
  <2>1. /\ Returned("idle") \in Readers /\ Returned("idle").pc = "idle"
        /\ Returned("interrupted") \in Readers
        /\ Returned("interrupted").pc = "interrupted"
    BY ReturnedFacts
  <2> QED BY <2>1
<1>3. TypeOK'
  <2>1. head' \in Slots /\ consumed' \in Nat
    BY <1>1 DEF SlotAt, Slots
  <2> QED BY <1>2, <2>1 DEF RingInv, TypeOK
<1>4. CountsAgree'
  <2>1. Available(SlotAt(n), tail) = posted - (consumed + n)
    BY <1>1 DEF Available, SlotAt, Slots
  <2>2. posted - (consumed + n) \in 0 .. QueueSize
    BY <1>1
  <2> QED BY <2>1, <2>2 DEF CountsAgree, Available
<1>5. UnreadIntact'
  <2>1. ASSUME NEW k \in Slots, (k < posted - consumed)'
        PROVE  (slots[SlotAt(k)] = consumed + k + 1)'
    <3>1. n + k \in Slots /\ n + k < posted - consumed
      BY <1>1, <2>1 DEF Slots
    <3>2. slots[SlotAt(n + k)] = consumed + (n + k) + 1
      BY <3>1 DEF RingInv, UnreadIntact
    <3>3. SlotAt(k)' = SlotAt(n + k)
      BY <1>1, <3>1 DEF SlotAt, Slots
    <3> QED BY <1>1, <3>2, <3>3 DEF Slots
  <2>2. ASSUME writing
        PROVE  (posted - consumed < QueueSize /\ slots[tail] = posted + 1)'
    <3>1. posted - consumed < QueueSize /\ slots[tail] = posted + 1
      BY <2>2 DEF RingInv, UnreadIntact
    <3> QED BY <1>1, <3>1
  <2> QED BY <2>1, <2>2, Zenon DEF UnreadIntact, SlotAt, Slots
<1>6. ReaderAligned' /\ CopyInOrder'
  BY <1>2 DEF ReaderAligned, CopyInOrder
<1>7. BatchInOrder'
  BY <1>1 DEF BatchInOrder
<1> QED BY <1>3, <1>4, <1>5, <1>6, <1>7 DEF RingInv

\* Storing head after a complete copy.
LEMMA StoreHeadInv == ASSUME RingInv, storeHead PROVE RingInv'
<1>1. /\ reader.pc = "copy" /\ Len(reader.copied) = reader.n
      /\ head' = reader.head /\ consumed' = consumed + reader.n
      /\ events' = reader.copied /\ reader' = Returned("idle")
      /\ UNCHANGED <<tail, slots, forceSysCall, writing, posted>>
  BY DEF storeHead, HeadStored
<1>2. reader.n \in Nat /\ reader.copied \in Seq(Nat)
  BY DEF RingInv, TypeOK, Readers
<1>3. reader.head = SlotAt(reader.n)
  BY <1>1 DEF RingInv, ReaderAligned
<1>4. /\ reader.n <= posted - consumed
      /\ \A k \in 1 .. reader.n : reader.copied[k] = consumed + k
  BY <1>1 DEF RingInv, CopyInOrder
<1> QED BY <1>1, <1>2, <1>3, <1>4, ConsumeInv

\* The kernel takes the first n events, at a signal or because there are
\* enough of them.
LEMMA TakeEventsInv ==
  ASSUME RingInv, NEW n \in Nat, n <= posted - consumed,
         NEW pc \in {"idle", "interrupted"}, TakeEvents(n, pc)
  PROVE  RingInv'
<1> DEFINE batch == [k \in 1 .. n |-> slots[(head + k - 1) % Nr]]
<1> USE RingAssumption
<1>1. /\ head \in Slots /\ posted \in Nat /\ consumed \in Nat
      /\ posted - consumed \in 0 .. QueueSize /\ slots \in [Slots -> Nat]
  BY DEF RingInv, TypeOK, CountsAgree
<1>2. n \in Nat /\ n <= posted - consumed
  OBVIOUS
<1>3. /\ events' = batch /\ head' = (head + n) % Nr /\ consumed' = consumed + n
      /\ reader' = Returned("idle") \/ reader' = Returned("interrupted")
      /\ UNCHANGED <<tail, slots, forceSysCall, writing, posted>>
  BY DEF TakeEvents
<1>4. head' = SlotAt(n)
  <2>1. n \in 0 .. Nr
    BY <1>1, <1>2
  <2> QED BY <1>1, <1>3, <2>1, Wrapped DEF SlotAt
<1>5. ASSUME NEW k \in 1 .. n
      PROVE  slots[(head + k - 1) % Nr] = consumed + k
  <2>1. k - 1 \in Slots /\ k - 1 < posted - consumed /\ k - 1 \in 0 .. Nr
    BY <1>1, <1>2, <1>5 DEF Slots
  <2>2. (head + k - 1) % Nr = SlotAt(k - 1)
    <3>1. (head + (k - 1)) % Nr = SlotAt(k - 1)
      BY <1>1, <2>1, Wrapped DEF SlotAt
    <3>2. head + k - 1 = head + (k - 1)
      BY <1>1, <1>5 DEF Slots
    <3> QED BY <3>1, <3>2
  <2>3. slots[SlotAt(k - 1)] = consumed + (k - 1) + 1
    BY <2>1 DEF RingInv, UnreadIntact
  <2> QED BY <1>1, <1>5, <2>2, <2>3
<1>6. /\ batch \in Seq(Nat) /\ Len(batch) = n
      /\ \A k \in 1 .. n : batch[k] = consumed + k
  <2>1. batch \in [1 .. n -> Nat]
    BY <1>1, <1>2, <1>5
  <2> QED BY <1>2, <1>5, <2>1
<1> HIDE DEF batch
<1> QED BY <1>2, <1>3, <1>4, <1>6, ConsumeInv

\* How many events io_getevents takes: all there are or max, or fewer at a
\* signal.
LEMMA EventsTaken ==
  ASSUME RingInv, io_getevents \/ io_geteventsInterrupted
  PROVE  \E n \in Nat, pc \in {"idle", "interrupted"} :
           /\ n <= posted - consumed /\ n <= reader.max
           /\ n < reader.min => n > 0 /\ pc = "interrupted"
           /\ TakeEvents(n, pc)
<1> DEFINE available == Available(head, tail)
           n == IF available < reader.max THEN available ELSE reader.max
<1>1. /\ reader.max \in Nat /\ reader.min \in Nat /\ posted \in Nat /\ consumed \in Nat
      /\ available = posted - consumed /\ posted - consumed \in Nat
  BY DEF RingInv, TypeOK, CountsAgree, Readers
<1>2. CASE io_getevents
  <2>1. TakeEvents(n, "idle") /\ reader.min <= reader.max /\ available >= reader.min
    BY <1>2 DEF io_getevents
  <2>2. n \in Nat /\ n <= posted - consumed /\ n <= reader.max /\ ~(n < reader.min)
    <3> HIDE DEF available
    <3> QED BY <1>1, <2>1
  <2> HIDE DEF n
  <2> QED BY <2>1, <2>2
<1>3. CASE io_geteventsInterrupted
  <2>1. PICK m \in 1 .. available : m < reader.min /\ TakeEvents(m, "interrupted")
    BY <1>3 DEF io_geteventsInterrupted
  <2>2. reader.min <= reader.max
    BY <1>3 DEF io_geteventsInterrupted
  <2>3. m \in Nat /\ m <= posted - consumed /\ m <= reader.max /\ m > 0
    <3> HIDE DEF available
    <3> QED BY <1>1, <2>1, <2>2
  <2> QED BY <2>1, <2>3
<1> QED BY <1>2, <1>3

\* io_getevents, whether a signal cuts it short or not.
LEMMA GetEventsInv ==
  ASSUME RingInv, io_getevents \/ io_geteventsInterrupted
  PROVE  RingInv'
<1>1. PICK n \in Nat, pc \in {"idle", "interrupted"} :
        n <= posted - consumed /\ TakeEvents(n, pc)
  BY EventsTaken
<1> QED BY <1>1, TakeEventsInv

\* Switching forceSysCall touches nothing else.
LEMMA SetForceSyscallInv ==
  ASSUME RingInv, NEW value \in BOOLEAN, setForceSyscall(value)
  PROVE  RingInv'
<1>1. /\ forceSysCall' = value
      /\ UNCHANGED <<ringVars, writing, reader, events, posted, consumed>>
  BY DEF setForceSyscall
<1>2. forceSysCall' \in BOOLEAN
  BY <1>1
<1>3. ReaderAligned' /\ CopyInOrder' /\ BatchInOrder'
  BY <1>1 DEF RingInv, ReaderAligned, CopyInOrder, BatchInOrder, SlotAt, ringVars
<1>4. reader' \in Readers /\ events' \in Seq(Nat)
  BY <1>1 DEF RingInv, TypeOK
<1> QED BY <1>1, <1>2, <1>3, <1>4, ReaderOnly

-------------------------------------------------------------------------------
\* Ring, counters and reader agree after any interleaving of the kernel, the
\* reader and the threads that switch forceSysCall.
THEOREM RingInvariant == Spec => []RingInv
<1>1. ASSUME RingInv, [Next]_vars PROVE RingInv'
  <2>1. CASE kernelStep
    BY <1>1, <2>1, KernelWriteInv, KernelPublishInv DEF kernelStep
  <2>2. CASE \E value \in BOOLEAN : setForceSyscall(value)
    BY <1>1, <2>2, SetForceSyscallInv
  <2>3. CASE \E c \in Calls : call(c)
    BY <1>1, <2>3, CallInv
  <2>4. CASE readerStep
    BY <1>1, <2>4, ReadHeadInv, ReadTailInv, NothingReadInv, CopyEventInv,
       StoreHeadInv, GetEventsInv DEF readerStep
  <2>5. CASE io_geteventsFails
    BY <1>1, <2>5, NothingReadInv
  <2>7. CASE io_geteventsInterrupted
    BY <1>1, <2>7, GetEventsInv
  <2>6. CASE UNCHANGED vars
    BY <1>1, <2>6 DEF vars, ringVars, RingInv, TypeOK, CountsAgree, Available,
       UnreadIntact, SlotAt, ReaderAligned, CopyInOrder, BatchInOrder
  <2> QED BY <1>1, <2>1, <2>2, <2>3, <2>4, <2>5, <2>6, <2>7 DEF Next
<1> QED BY InitRingInv, <1>1, PTL DEF Spec

\* Head, tail and the reader's own head never leave the ring.
THEOREM RingTypeCorrect == Spec => []TypeOK
  BY RingInvariant, PTL DEF RingInv

\* The reader's arithmetic on head and tail counts the unread events.
THEOREM RingCountsAgree == Spec => []CountsAgree
  BY RingInvariant, PTL DEF RingInv

\* ringio_get_events returns the next events in order, none lost or repeated.
THEOREM RingBatchInOrder == Spec => []BatchInOrder
  BY RingInvariant, PTL DEF RingInv

\* While ringio_get_events copies, what it has copied so far is the next of
\* the events, although the kernel goes on posting into the same ring.
THEOREM RingCopyInOrder == Spec => []CopyInOrder
  BY RingInvariant, PTL DEF RingInv

-------------------------------------------------------------------------------
(***************************************************************************)
(* How many events a call returns.                                         *)
(***************************************************************************)
\* A copy is of as many events as were asked for; the kernel writes only
\* events that it may post.
CallTracked ==
  /\ CallHonoured
  /\ reader.pc = "none" => reader.min = 0
  /\ reader.pc = "copy" => reader.min <= reader.n /\ reader.n <= reader.max
  /\ writing => posted < MaxEvents

LEMMA InitCallTracked == Init => CallTracked
BY RingAssumption DEF Init, IdleReader, CallTracked, CallHonoured

\* What the reader makes of the tail it finds.
LEMMA TailLookedAt ==
  ASSUME RingInv, readTail
  PROVE  \E a \in Nat :
           /\ reader'.pc = TailRoute(a, reader.min, reader.max)
           /\ reader'.n = IF a < reader.max THEN a ELSE reader.max
           /\ reader'.min = reader.min /\ reader'.max = reader.max
<1> USE RingAssumption
<1>1. PICK t \in TailsSeen(reader.head, reader.max) :
        reader' = [reader EXCEPT
          !.pc = TailRoute(Available(reader.head, t), reader.min, reader.max),
          !.n = IF Available(reader.head, t) < reader.max
                THEN Available(reader.head, t) ELSE reader.max,
          !.needMod = NeedMod(reader.head,
                              IF Available(reader.head, t) < reader.max
                              THEN Available(reader.head, t) ELSE reader.max)]
  BY DEF readTail
<1>2. reader \in Readers /\ reader.head = head /\ head \in Slots /\ tail \in Slots /\ Nr \in Nat
  BY DEF readTail, RingInv, TypeOK, ReaderAligned
<1>3. Available(reader.head, t) \in Nat
  BY <1>1, <1>2 DEF TailsSeen, Available, Slots
<1>4. /\ reader'.pc = TailRoute(Available(reader.head, t), reader.min, reader.max)
      /\ reader'.n = IF Available(reader.head, t) < reader.max
                     THEN Available(reader.head, t) ELSE reader.max
      /\ reader'.min = reader.min /\ reader'.max = reader.max
  BY <1>1, <1>2 DEF Readers
<1> QED
  BY <1>3, <1>4

LEMMA NextKeepsCallTracked ==
  ASSUME RingInv, CallTracked, [Next]_vars
  PROVE  CallTracked'
<1>0. /\ reader \in Readers /\ posted \in Nat /\ consumed \in Nat /\ MaxEvents \in Nat
      /\ reader.min \in Nat /\ reader.max \in Nat \ {0} /\ reader.n \in Nat
      /\ head \in Slots /\ tail \in Slots /\ Nr \in Nat /\ QueueSize \in Nat
  BY RingAssumption DEF RingInv, TypeOK, Readers
<1>1. CASE kernelStep
  <2>1. UNCHANGED <<reader, events>> /\ (writing' => posted' < MaxEvents)
    BY <1>1 DEF kernelStep, kernelWrite, kernelPublish
  <2> QED
    BY <2>1 DEF CallTracked, CallHonoured
<1>2. CASE \E value \in BOOLEAN : setForceSyscall(value)
  BY <1>2 DEF setForceSyscall, CallTracked, CallHonoured
<1>3. CASE \E c \in Calls : call(c)
  <2>1. PICK c \in Calls : call(c)
    BY <1>3
  <2>2. reader'.pc \in {"syscall", "head"} /\ UNCHANGED <<writing, posted>>
    BY <2>1 DEF call, IdleReader
  <2> QED
    BY <2>2 DEF CallTracked, CallHonoured
<1>4. CASE readHead
  <2>1. reader'.pc = "tail" /\ UNCHANGED <<writing, posted>>
    BY <1>0, <1>4 DEF readHead, Readers
  <2> QED
    BY <2>1 DEF CallTracked, CallHonoured
<1>5. CASE readTail
  <2>1. PICK a \in Nat :
           /\ reader'.pc = TailRoute(a, reader.min, reader.max)
           /\ reader'.n = IF a < reader.max THEN a ELSE reader.max
           /\ reader'.min = reader.min /\ reader'.max = reader.max
    BY <1>5, TailLookedAt
  <2>2. UNCHANGED <<writing, posted>>
    BY <1>5 DEF readTail
  <2>5. /\ reader'.pc \in {"syscall", "none", "copy"}
        /\ reader'.pc = "none" => a = 0 /\ ~(a < reader.min)
        /\ reader'.pc = "copy" => ~(a < reader.min) /\ ~(a >= reader.max)
    BY <2>1 DEF TailRoute
  <2> QED
    BY <1>0, <2>1, <2>2, <2>5 DEF CallTracked, CallHonoured
<1>6. CASE returnNone
  <2>1. /\ reader.pc = "none" /\ reader'.min = reader.min /\ reader'.max = reader.max
        /\ reader'.pc = "idle" /\ events' = <<>> /\ UNCHANGED <<writing, posted>>
    BY <1>6 DEF returnNone, Returned
  <2>2. ~(Len(events') < reader'.min) /\ Len(events') <= reader'.max /\ Len(events') <= QueueSize
    BY <1>0, <2>1 DEF CallTracked
  <2> QED
    BY <2>1, <2>2 DEF CallTracked, CallHonoured
<1>7. CASE copyEvent
  <2>1. /\ reader'.pc = "copy" /\ reader.pc = "copy" /\ UNCHANGED <<writing, posted>>
        /\ reader'.min = reader.min /\ reader'.max = reader.max /\ reader'.n = reader.n
    BY <1>0, <1>7 DEF copyEvent, Readers
  <2> QED
    BY <2>1 DEF CallTracked, CallHonoured
<1>8. CASE storeHead
  <2>1. /\ reader.pc = "copy" /\ reader'.min = reader.min /\ reader'.max = reader.max
        /\ reader'.pc = "idle" /\ Len(events') = reader.n /\ UNCHANGED <<writing, posted>>
    BY <1>8 DEF storeHead, Returned
  <2>2. reader.n <= posted - consumed /\ posted - consumed <= QueueSize
    BY <2>1 DEF RingInv, CopyInOrder, CountsAgree
  <2>3. ~(Len(events') < reader'.min) /\ Len(events') <= reader'.max /\ Len(events') <= QueueSize
    BY <1>0, <2>1, <2>2 DEF CallTracked
  <2> QED
    BY <2>1, <2>3 DEF CallTracked, CallHonoured
<1>9. CASE io_getevents \/ io_geteventsInterrupted
  <2>1. PICK n \in Nat, pc \in {"idle", "interrupted"} :
           /\ n <= posted - consumed /\ n <= reader.max
           /\ n < reader.min => n > 0 /\ pc = "interrupted"
           /\ TakeEvents(n, pc)
    BY <1>9, EventsTaken
  <2>2. /\ reader'.min = reader.min /\ reader'.max = reader.max
        /\ reader'.pc = pc /\ UNCHANGED <<writing, posted>>
    BY <2>1 DEF TakeEvents, Returned
  <2>3. posted - consumed \in 0 .. QueueSize
    BY DEF RingInv, CountsAgree
  <2>4. n <= QueueSize
    BY <1>0, <2>1, <2>3
  <2>5. Len(events') = n
    BY <2>1 DEF TakeEvents
  <2>6. n > 0 => events' # <<>>
    BY <2>5
  <2> QED
    BY <1>0, <2>1, <2>2, <2>4, <2>5, <2>6 DEF CallTracked, CallHonoured
<1>10. CASE io_geteventsFails
  <2>1. reader'.pc = "failed" /\ UNCHANGED <<writing, posted>>
    BY <1>10 DEF io_geteventsFails, Returned
  <2> QED
    BY <2>1 DEF CallTracked, CallHonoured
<1>11. CASE UNCHANGED vars
  BY <1>11 DEF vars, ringVars, CallTracked, CallHonoured
<1> QED
  BY <1>1, <1>2, <1>3, <1>4, <1>5, <1>6, <1>7, <1>8, <1>9, <1>10, <1>11
     DEF Next, readerStep

\* The ring and the calls together.
LEMMA CallsInvariant == Spec => [](RingInv /\ CallTracked)
<1>1. RingInv /\ CallTracked /\ [Next]_vars => CallTracked'
  BY NextKeepsCallTracked
<1> QED
  BY InitCallTracked, <1>1, RingInvariant, PTL DEF Spec

\* ringio_get_events returns at most max events, whether it read the ring or
\* asked the kernel, and they fit into control->events; it returns fewer than
\* min only after a signal, and then at least one.
THEOREM RingCallHonoured == Spec => []CallHonoured
  BY CallsInvariant, PTL DEF CallTracked

-------------------------------------------------------------------------------
(***************************************************************************)
(* The ring implements the queue.                                          *)
(***************************************************************************)
\* The n events after the first a.
Run(a, n) == [k \in 1 .. n |-> a + k]

LEMMA RunFacts ==
  ASSUME NEW a \in Nat, NEW n \in Nat
  PROVE  /\ Run(a, n) \in Seq(Nat) /\ Len(Run(a, n)) = n
         /\ \A k \in 1 .. n : Run(a, n)[k] = a + k
BY DEF Run

\* A sequence of the events after a is the run.
LEMMA RunOf ==
  ASSUME NEW a \in Nat, NEW n \in Nat, NEW s \in Seq(Nat), Len(s) = n,
         \A k \in 1 .. n : s[k] = a + k
  PROVE  s = Run(a, n)
<1>1. s \in [1 .. n -> Nat]
  OBVIOUS
<1> QED
  BY <1>1 DEF Run

LEMMA RunAppend ==
  ASSUME NEW a \in Nat, NEW n \in Nat
  PROVE  Append(Run(a, n), a + n + 1) = Run(a, n + 1)
<1> DEFINE s == Append(Run(a, n), a + n + 1)
<1>1. /\ s \in Seq(Nat) /\ Len(s) = n + 1 /\ s[n + 1] = a + n + 1
      /\ \A k \in 1 .. n : s[k] = Run(a, n)[k]
  <2>1. Run(a, n) \in Seq(Nat) /\ Len(Run(a, n)) = n /\ a + n + 1 \in Nat
    BY RunFacts
  <2> QED
    BY <2>1, AppendProperties
<1>2. \A k \in 1 .. n + 1 : s[k] = a + k
  <2> HIDE DEF s
  <2>1. \A k \in 1 .. n + 1 : k \in 1 .. n \/ k = n + 1
    OBVIOUS
  <2>2. a + n + 1 = a + (n + 1)
    OBVIOUS
  <2> QED
    BY <1>1, <2>1, <2>2, RunFacts
<1> HIDE DEF s
<1>3. s = Run(a, n + 1)
  BY <1>1, <1>2, RunOf
<1> QED
  BY <1>3 DEF s

LEMMA RunSplit ==
  ASSUME NEW a \in Nat, NEW m \in Nat, NEW n \in 0 .. m
  PROVE  /\ SubSeq(Run(a, m), 1, n) = Run(a, n)
         /\ SubSeq(Run(a, m), n + 1, m) = Run(a + n, m - n)
<1>1. SubSeq(Run(a, m), 1, n) = [k \in 1 .. n |-> Run(a, m)[k]]
  BY RunFacts
<1>2. [k \in 1 .. n |-> Run(a, m)[k]] = Run(a, n)
  BY RunFacts DEF Run
<1>3. SubSeq(Run(a, m), n + 1, m) = [k \in 1 .. m - n |-> Run(a, m)[n + k]]
  BY RunFacts
<1>4. ASSUME NEW k \in 1 .. m - n PROVE Run(a, m)[n + k] = (a + n) + k
  BY RunFacts
<1>5. [k \in 1 .. m - n |-> Run(a, m)[n + k]] = Run(a + n, m - n)
  BY <1>4 DEF Run
<1> QED
  BY <1>1, <1>2, <1>3, <1>5

\* The unread events are the next ones.
LEMMA UnreadIsRun ==
  ASSUME RingInv
  PROVE  Unread = Run(consumed, posted - consumed)
<1>1. /\ head \in Slots /\ consumed \in Nat /\ posted \in Nat
      /\ Available(head, tail) = posted - consumed /\ posted - consumed \in 0 .. QueueSize
      /\ Nr \in Nat /\ QueueSize \in Nat /\ QueueSize < Nr
  BY RingAssumption DEF RingInv, TypeOK, CountsAgree
<1>2. ASSUME NEW k \in 1 .. posted - consumed
      PROVE  slots[(head + k - 1) % Nr] = consumed + k
  <2>1. k - 1 \in Slots /\ k - 1 < posted - consumed /\ k - 1 \in 0 .. Nr
    BY <1>1 DEF Slots
  <2>2. (head + k - 1) % Nr = SlotAt(k - 1)
    <3>1. (head + (k - 1)) % Nr = SlotAt(k - 1)
      BY <1>1, <2>1, Wrapped DEF SlotAt
    <3>2. head + k - 1 = head + (k - 1)
      BY <1>1 DEF Slots
    <3> QED
      BY <3>1, <3>2
  <2>3. slots[SlotAt(k - 1)] = consumed + (k - 1) + 1
    BY <2>1 DEF RingInv, UnreadIntact
  <2> QED
    BY <1>1, <2>2, <2>3
<1> QED
  BY <1>1, <1>2 DEF Unread, Run

\* The same after a step.
LEMMA UnreadIsRunNext == RingInv' => (Unread = Run(consumed, posted - consumed))'
<1>1. RingInv => Unread = Run(consumed, posted - consumed)
  BY UnreadIsRun
<1> QED
  BY <1>1, PTL


\* A read of n events takes them from the front of the queue.
LEMMA TakesFromFront ==
  ASSUME RingInv, RingInv', NEW n \in Nat, n <= posted - consumed,
         consumed' = consumed + n, UNCHANGED posted, Len(events') = n
  PROVE  Queue!Next
<1>1. /\ consumed \in Nat /\ posted \in Nat /\ posted - consumed \in Nat
      /\ events' \in Seq(Nat)
  BY DEF RingInv, TypeOK, CountsAgree
<1>2. /\ Unread = Run(consumed, posted - consumed)
      /\ Unread' = Run(consumed + n, (posted - consumed) - n)
  <2>1. Unread' = Run(consumed', posted' - consumed')
    BY UnreadIsRunNext
  <2>2. posted' - consumed' = (posted - consumed) - n
    BY <1>1
  <2> QED
    BY <2>1, <2>2, UnreadIsRun
<1>3. events' = Run(consumed, n)
  <2>1. \A k \in 1 .. n : events'[k] = consumed' - n + k
    BY DEF RingInv, BatchInOrder
  <2>2. \A k \in 1 .. n : events'[k] = consumed + k
    BY <1>1, <2>1
  <2> QED
    BY <1>1, <2>2, RunOf
<1>4. Len(Unread) = posted - consumed /\ n \in 0 .. Len(Unread)
  <2>1. Len(Run(consumed, posted - consumed)) = posted - consumed
    BY <1>1, RunFacts
  <2> QED
    BY <1>1, <1>2, <2>1
<1>5. Queue!Take(n)
  <2> DEFINE m == posted - consumed
  <2>1. m \in Nat /\ n \in 0 .. m
    BY <1>1
  <2> HIDE DEF m
  <2>2. /\ SubSeq(Run(consumed, m), 1, n) = Run(consumed, n)
        /\ SubSeq(Run(consumed, m), n + 1, m) = Run(consumed + n, m - n)
    BY <1>1, <2>1, RunSplit
  <2> QED
    BY <1>2, <1>3, <1>4, <2>2 DEF m, Queue!Take
<1> QED
  BY <1>4, <1>5 DEF Queue!Next

\* Each step of kernel and reader is one of the queue, or changes nothing of it.
LEMMA StepOfQueue ==
  ASSUME RingInv, CallTracked, RingInv', [Next]_vars
  PROVE  Queue!Next \/ UNCHANGED <<Unread, events>>
<1>0. /\ consumed \in Nat /\ posted \in Nat /\ posted - consumed \in Nat
      /\ Unread = Run(consumed, posted - consumed)
      /\ Unread' = Run(consumed', posted' - consumed')
  <2>1. consumed \in Nat /\ posted \in Nat /\ posted - consumed \in Nat
    BY DEF RingInv, TypeOK, CountsAgree
  <2>2. Unread = Run(consumed, posted - consumed)
    BY UnreadIsRun
  <2>3. Unread' = Run(consumed', posted' - consumed')
    BY UnreadIsRunNext
  <2> QED
    BY <2>1, <2>2, <2>3
<1>1. ASSUME UNCHANGED <<posted, consumed, events>>
      PROVE  UNCHANGED <<Unread, events>>
  BY <1>0, <1>1
<1>2. CASE kernelWrite
  BY <1>1, <1>2 DEF kernelWrite
<1>3. CASE kernelPublish
  <2>1. writing /\ posted' = posted + 1 /\ UNCHANGED <<consumed, events>>
    BY <1>3 DEF kernelPublish
  <2>2. posted + 1 \in 1 .. MaxEvents
    BY <1>0, <2>1, RingAssumption DEF CallTracked
  <2>3. Append(Unread, posted + 1) = Unread'
    <3> DEFINE n == posted - consumed
    <3>1. posted + 1 = consumed + n + 1 /\ posted' - consumed' = n + 1 /\ n \in Nat
      BY <1>0, <2>1
    <3> HIDE DEF n
    <3>2. Append(Run(consumed, n), consumed + n + 1) = Run(consumed, n + 1)
      BY <1>0, <3>1, RunAppend
    <3> QED
      BY <1>0, <2>1, <3>1, <3>2 DEF n
  <2> QED
    BY <2>1, <2>2, <2>3 DEF Queue!Next, Queue!Post
<1>4. CASE \E value \in BOOLEAN : setForceSyscall(value)
  BY <1>1, <1>4 DEF setForceSyscall
<1>5. CASE \E c \in Calls : call(c)
  BY <1>1, <1>5 DEF call
<1>6. CASE readHead \/ readTail \/ copyEvent
  BY <1>1, <1>6 DEF readHead, readTail, copyEvent
<1>7. CASE returnNone \/ io_geteventsFails
  <2>1. UNCHANGED <<posted, consumed>> /\ events' = <<>>
    BY <1>7 DEF returnNone, io_geteventsFails
  <2>2. 0 \in Nat /\ 0 <= posted - consumed /\ consumed' = consumed + 0 /\ Len(events') = 0
    BY <1>0, <2>1
  <2> QED
    BY <2>1, <2>2, TakesFromFront
<1>8. CASE storeHead
  <2>1. /\ reader.pc = "copy" /\ consumed' = consumed + reader.n /\ Len(events') = reader.n
        /\ UNCHANGED posted
    BY <1>8 DEF storeHead
  <2>2. reader.n \in Nat /\ reader.n <= posted - consumed
    BY <2>1 DEF RingInv, TypeOK, Readers, CopyInOrder
  <2> QED
    BY <2>1, <2>2, TakesFromFront
<1>9. CASE io_getevents \/ io_geteventsInterrupted
  <2>1. PICK n \in Nat, pc \in {"idle", "interrupted"} :
          n <= posted - consumed /\ TakeEvents(n, pc)
    BY <1>9, EventsTaken
  <2>2. consumed' = consumed + n /\ UNCHANGED posted /\ Len(events') = n
    BY <2>1 DEF TakeEvents
  <2> QED
    BY <2>1, <2>2, TakesFromFront
<1>10. CASE UNCHANGED vars
  BY <1>1, <1>10 DEF vars
<1> QED
  BY <1>2, <1>3, <1>4, <1>5, <1>6, <1>7, <1>8, <1>9, <1>10 DEF Next, kernelStep, readerStep

\* Ring, reader and fallback together are a first-in first-out queue: for
\* the code that polls there is no difference between the copy out of the
\* mapped ring, with its wraps and its mistrust of tail, and io_getevents.
THEOREM RingImplementsQueue == Spec => ImplementsQueue
<1>1. Init => Queue!Init
  <2> SUFFICES ASSUME Init PROVE Queue!Init
    OBVIOUS
  <2>1. RingInv /\ posted = 0 /\ consumed = 0 /\ events = <<>>
    BY InitRingInv DEF Init
  <2>2. Unread = Run(0, 0)
    BY <2>1, UnreadIsRun
  <2>3. Run(0, 0) = <<>>
    <3>1. 0 \in Nat
      OBVIOUS
    <3>2. Run(0, 0) \in Seq(Nat) /\ Len(Run(0, 0)) = 0
      BY <3>1, RunFacts
    <3> QED
      BY <3>2, EmptySeq
  <2> QED
    BY <2>1, <2>2, <2>3 DEF Queue!Init
<1>2. RingInv /\ CallTracked /\ RingInv' /\ [Next]_vars => [Queue!Next]_<<Unread, events>>
  BY StepOfQueue
<1> QED
  BY <1>1, <1>2, CallsInvariant, PTL DEF Spec, ImplementsQueue, Queue!Spec

===============================================================================
