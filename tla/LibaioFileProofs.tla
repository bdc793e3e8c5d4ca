--------------------------- MODULE LibaioFileProofs ---------------------------
(***************************************************************************)
(* Proofs about LibaioFile objects, their descriptors, writes and fills,   *)
(* for any number of objects, files, writes and blocks.                    *)
(***************************************************************************)
EXTENDS LibaioFile, FiniteSetTheorems, SequenceTheorems, TLAPS

(***************************************************************************)
(* The inductive invariant.                                                *)
(***************************************************************************)

\* Objects and descriptor table say the same, number by number, except for the
\* objects that a second close robbed of their number: they may share it with
\* another one, which clashes with them.
DescriptorsAgree ==
  /\ \A h \in Handles : pc[h] # "none" => fd[h] \in Fds
  /\ \A h \in Handles : Opened(h) => table[fd[h]] \in {None, h} \cup clashed
  /\ \A h \in Handles \ clashed : Opened(h) => table[fd[h]] = h
  /\ \A d \in Fds : table[d] # None => Opened(table[d]) /\ fd[table[d]] = d

\* Where a write can be: with the kernel, in the ring or in the batch, once.
InRing == {ring[k] : k \in DOMAIN ring}
InBatch == {batch[k] : k \in DOMAIN batch}
EachOnce(events) == \A j, k \in DOMAIN events : events[j] = events[k] => j = k

WritesTracked ==
  /\ kernel \cup InRing \cup InBatch \subseteq Pending
  /\ kernel \cap InRing = {} /\ kernel \cap InBatch = {} /\ InRing \cap InBatch = {}
  /\ EachOnce(ring) /\ EachOnce(batch)

\* Since the object of a pending write is not closed, the number in its iocb
\* keeps its meaning.
PendingIntact ==
  \A r \in Pending :
    /\ Opened(HandleOf[r])
    /\ fildes[r] = fd[HandleOf[r]]
    /\ HandleOf[r] \notin clashed => target[r] = PathOf[HandleOf[r]]

\* The fdatasync of lastFile has covered the rest of its file's events.
LastFileSynced ==
  \A r \in InBatch : fildes[r] = lastFile /\ HandleOf[r] \notin clashed =>
                      r \notin unsynced

\* The shared buffer is other than clear only while somebody clears it.
BufferGuarded ==
  /\ \A h \in Handles : pc[h] \in {"allocate", "clear", "unlock"} <=> oneMegaMutex = h
  /\ \A h \in Handles : pc[h] = "allocate" => oneMegaBuffer = None
  /\ oneMegaBuffer = "raw" => \E h \in Handles : pc[h] = "clear"
  /\ \A h \in Handles : pc[h] \in {"unlock", "write"} =>
                          h \in nobuffer \/ oneMegaBuffer = "zero"

\* How far a fill has come.
FillsTracked ==
  \A h \in Handles :
    /\ pc[h] # "write" => turn[h] = 0
    /\ pc[h] = "write" /\ h \notin clashed => offset[h] <= turn[h]
    /\ pc[h] = "write" /\ h \notin short \cup clashed =>
         offset[h] = turn[h] /\ size[PathOf[h]] >= turn[h]

FileInv ==
  /\ TypeOK
  /\ DescriptorsAgree /\ LockKept /\ \A h \in locked : Opened(h)
  /\ WritesTracked /\ PendingIntact /\ WrittenToOwnFile
  /\ LastFileSynced /\ DurableOnFile
  /\ BufferGuarded /\ FillsTracked /\ FilledAsAsked

-------------------------------------------------------------------------------
(***************************************************************************)
(* The three groups of the invariant, by the state they are about.         *)
(***************************************************************************)
HandlesInv == DescriptorsAgree /\ LockKept /\ \A h \in locked : Opened(h)
WritesInv == /\ WritesTracked /\ PendingIntact /\ WrittenToOwnFile
             /\ LastFileSynced /\ DurableOnFile
FillsInv == BufferGuarded /\ FillsTracked /\ FilledAsAsked

-------------------------------------------------------------------------------
(***************************************************************************)
(* Descriptors and events.                                                 *)
(***************************************************************************)

\* While an object is not open, some descriptor is free: there are as many
\* numbers as objects, and the open objects have one each.
LEMMA SomeDescriptorFree ==
  ASSUME TypeOK, DescriptorsAgree, NEW h \in Handles, ~Opened(h)
  PROVE  \E d \in Fds : table[d] = None
<1> SUFFICES ASSUME \A d \in Fds : table[d] # None PROVE FALSE
  OBVIOUS
<1>1. IsFiniteSet(Handles) /\ Cardinality(Handles) \in Nat
  BY FileAssumption, FS_CardinalityType
<1>2. IsFiniteSet(Handles \ {h}) /\ Cardinality(Handles \ {h}) = Cardinality(Handles) - 1
  BY <1>1, FS_RemoveElement
<1>3. IsFiniteSet(Fds) /\ Cardinality(Fds) = Cardinality(Handles)
  BY <1>1, FS_Interval DEF Fds
<1>4. table \in [Fds -> Handles \ {h}]
  BY DEF TypeOK, DescriptorsAgree
<1>5. Cardinality(Handles \ {h}) < Cardinality(Fds)
  BY <1>1, <1>2, <1>3
<1>6. \E d, e \in Fds : d # e /\ table[d] = table[e]
  BY <1>2, <1>3, <1>4, <1>5, FS_PigeonHole
<1> QED
  BY <1>6 DEF DescriptorsAgree

\* A nonempty set of numbers has a least one.
LEMMA LeastNumber ==
  ASSUME NEW T, T \subseteq Nat, T # {}
  PROVE  \E d \in T : \A e \in T : d <= e
<1>1. \E d \in T : \A e \in T : ~ (<<e, d>> \in OpToRel(<, Nat))
  BY NatLessThanWellFounded, WFMin
<1>2. PICK d \in T : \A e \in T : ~ (<<e, d>> \in OpToRel(<, Nat))
  BY <1>1
<1>3. ASSUME NEW e \in T PROVE ~(e < d)
  <2>1. e \in Nat /\ d \in Nat
    OBVIOUS
  <2> QED
    BY <1>2, <2>1, Zenon DEF OpToRel
<1> QED
  BY <1>3

\* The kernel finds a descriptor for every open.
LEMMA LowestFreeIsFree ==
  ASSUME TypeOK, DescriptorsAgree, NEW h \in Handles, ~Opened(h)
  PROVE  LowestFree \in Fds /\ table[LowestFree] = None
<1> DEFINE free == {d \in Fds : table[d] = None}
<1>1. Cardinality(Handles) \in Nat
  BY FileAssumption, FS_CardinalityType
<1>2. free \subseteq Nat /\ free # {}
  BY <1>1, SomeDescriptorFree DEF Fds
<1>3. PICK d \in free : \A e \in free : d <= e
  BY <1>2, LeastNumber
<1>4. \A e \in 1 .. d - 1 : e \in Fds /\ ~(d <= e)
  BY <1>1, <1>2 DEF Fds
<1>5. d \in Fds /\ table[d] = None /\ \A e \in 1 .. d - 1 : table[e] # None
  BY <1>3, <1>4
<1> QED
  BY <1>5 DEF LowestFree

\* The writes among the events of a queue.
EventsIn(events) == {events[k] : k \in DOMAIN events}

\* An event appended to a queue joins its events, once.
LEMMA AppendedEvent ==
  ASSUME NEW s \in Seq(Requests), NEW r \in Requests
  PROVE  /\ Append(s, r) \in Seq(Requests)
         /\ EventsIn(Append(s, r)) = EventsIn(s) \cup {r}
         /\ EachOnce(s) /\ r \notin EventsIn(s) => EachOnce(Append(s, r))
<1>1. /\ Append(s, r) \in Seq(Requests) /\ Len(s) \in Nat
      /\ DOMAIN s = 1 .. Len(s) /\ DOMAIN Append(s, r) = 1 .. Len(s) + 1
      /\ \A i \in 1 .. Len(s) : Append(s, r)[i] = s[i]
      /\ Append(s, r)[Len(s) + 1] = r
  BY AppendProperties, LenProperties
<1>2. EventsIn(Append(s, r)) = EventsIn(s) \cup {r}
  BY <1>1 DEF EventsIn
<1>3. EachOnce(s) /\ r \notin EventsIn(s) => EachOnce(Append(s, r))
  BY <1>1 DEF EachOnce, EventsIn
<1> QED
  BY <1>1, <1>2, <1>3

\* The first event of a queue leaves it.
LEMMA TreatedEvent ==
  ASSUME NEW s \in Seq(Requests), s # <<>>, EachOnce(s)
  PROVE  /\ Head(s) \in EventsIn(s) /\ Head(s) \in Requests
         /\ Tail(s) \in Seq(Requests)
         /\ EventsIn(Tail(s)) = EventsIn(s) \ {Head(s)}
         /\ EachOnce(Tail(s))
<1>1. Len(s) \in Nat \ {0} /\ DOMAIN s = 1 .. Len(s)
  BY LenProperties, EmptySeq
<1>2. /\ Head(s) = s[1] /\ Head(s) \in Requests
      /\ Tail(s) \in Seq(Requests) /\ DOMAIN Tail(s) = 1 .. Len(s) - 1
      /\ \A i \in 1 .. Len(s) - 1 : Tail(s)[i] = s[i + 1]
  BY <1>1, HeadTailProperties, LenProperties
<1>3. EachOnce(Tail(s))
  BY <1>1, <1>2 DEF EachOnce
<1>4. EventsIn(Tail(s)) = EventsIn(s) \ {Head(s)}
  <2>1. ASSUME NEW x \in EventsIn(Tail(s)) PROVE x \in EventsIn(s) \ {Head(s)}
    BY <1>1, <1>2 DEF EventsIn, EachOnce
  <2>2. ASSUME NEW x \in EventsIn(s) \ {Head(s)} PROVE x \in EventsIn(Tail(s))
    <3>1. PICK k \in 1 .. Len(s) : x = s[k]
      BY <1>1 DEF EventsIn
    <3>2. k # 1 /\ k - 1 \in 1 .. Len(s) - 1 /\ Tail(s)[k - 1] = s[k]
      BY <1>1, <1>2, <3>1
    <3> QED
      BY <1>2, <3>1, <3>2 DEF EventsIn
  <2> QED
    BY <2>1, <2>2
<1>5. Head(s) \in EventsIn(s)
  BY <1>1, <1>2 DEF EventsIn
<1> QED
  BY <1>2, <1>3, <1>4, <1>5

-------------------------------------------------------------------------------
(***************************************************************************)
(* What each group of the invariant depends on.                            *)
(***************************************************************************)

\* The descriptors agree as long as no object is opened or closed.
LEMMA HandlesFrame ==
  ASSUME TypeOK, HandlesInv, UNCHANGED handleVars,
         \A h \in Handles : /\ Opened(h)' <=> Opened(h)
                            /\ pc'[h] = "none" <=> pc[h] = "none"
  PROVE  HandlesInv'
<1>1. UNCHANGED <<table, fd, holder, locked, clashed>>
  BY DEF handleVars
<1>2. DescriptorsAgree'
  <2>1. \A h \in Handles : pc'[h] # "none" => fd[h] \in Fds
    BY DEF HandlesInv, DescriptorsAgree
  <2>2. \A h \in Handles : Opened(h)' => /\ table[fd[h]] \in {None, h} \cup clashed
                                         /\ h \notin clashed => table[fd[h]] = h
    BY DEF HandlesInv, DescriptorsAgree
  <2>3. ASSUME NEW d \in Fds, table[d] # None
        PROVE  pc'[table[d]] \notin {"none", "closed"} /\ fd[table[d]] = d
    <3>1. table[d] \in Handles /\ Opened(table[d]) /\ fd[table[d]] = d
      BY <2>3 DEF HandlesInv, DescriptorsAgree, TypeOK
    <3>2. Opened(table[d])' <=> pc'[table[d]] \notin {"none", "closed"}
      BY <1>1 DEF Opened
    <3>3. \A h \in Handles : pc'[h] \notin {"none", "closed"} <=> Opened(h)
      BY DEF Opened
    <3> QED
      BY <3>1, <3>3
  <2> QED
    BY <1>1, <2>1, <2>2, <2>3 DEF DescriptorsAgree, Opened
<1>3. LockKept' /\ \A h \in locked' : Opened(h)'
  BY <1>1 DEF HandlesInv, LockKept, TypeOK
<1> QED
  BY <1>2, <1>3 DEF HandlesInv

\* The writes keep their guarantees as long as no object with a pending one
\* is closed.
LEMMA WritesFrame ==
  ASSUME TypeOK, WritesInv, UNCHANGED writeVars, clashed \subseteq clashed',
         \A r \in Pending : /\ Opened(HandleOf[r])'
                            /\ fd'[HandleOf[r]] = fd[HandleOf[r]]
  PROVE  WritesInv'
<1>1. WritesTracked' <=> WritesTracked
  BY DEF writeVars, WritesTracked, InRing, InBatch, Pending, EachOnce
<1>2. PendingIntact'
  BY DEF WritesInv, PendingIntact, writeVars, Pending
<1>3. WrittenToOwnFile' /\ LastFileSynced' /\ DurableOnFile'
  BY DEF WritesInv, WrittenToOwnFile, LastFileSynced, DurableOnFile, InBatch,
         writeVars
<1> QED
  BY <1>1, <1>2, <1>3 DEF WritesInv

\* The fills do not notice objects that are opened or closed.
LEMMA FillsFrame ==
  ASSUME TypeOK, FillsInv, UNCHANGED fillVars, clashed \subseteq clashed',
         \A h \in Handles : \/ pc'[h] = pc[h]
                            \/ /\ pc[h] \in {"none", "open", "closed"}
                               /\ pc'[h] \in {"none", "open", "closed"}
  PROVE  FillsInv'
<1>1. BufferGuarded'
  BY DEF FillsInv, BufferGuarded, fillVars
<1>2. FillsTracked'
  BY DEF FillsInv, FillsTracked, fillVars
<1>3. FilledAsAsked'
  BY DEF FillsInv, FilledAsAsked, fillVars
<1> QED
  BY <1>1, <1>2, <1>3 DEF FillsInv

-------------------------------------------------------------------------------
(***************************************************************************)
(* The actions that open, lock and close.                                  *)
(***************************************************************************)

\* The number an open gets belonged to nobody, unless to an object that was
\* robbed of it.
LEMMA openPreserves ==
  ASSUME FileInv, NEW h \in Handles, open(h)
  PROVE  FileInv'
<1> USE DEF FileInv
<1>1. /\ ~Opened(h) /\ pc[h] = "none"
      /\ fd' = [fd EXCEPT ![h] = LowestFree]
      /\ table' = [table EXCEPT ![LowestFree] = h]
      /\ clashed' = IF \E g \in clashed : Opened(g) /\ fd[g] = LowestFree
                      THEN clashed \cup {h} ELSE clashed
      /\ pc' = [pc EXCEPT ![h] = "open"]
      /\ UNCHANGED <<holder, locked, tasks, writeVars, fillVars>>
  BY DEF open, Goto, Opened
<1>2. LowestFree \in Fds /\ table[LowestFree] = None
  BY <1>1, LowestFreeIsFree
<1>0. clashed \subseteq clashed' /\ clashed' \subseteq Handles
  BY <1>1 DEF TypeOK
<1>3. TypeOK'
  BY <1>0, <1>1, <1>2 DEF TypeOK, writeVars, fillVars, Undisturbed
<1>4. /\ \A g \in Handles \ {h} : (Opened(g)' <=> Opened(g)) /\ fd'[g] = fd[g]
      /\ \A g \in Handles \ {h} : pc'[g] = pc[g]
      /\ Opened(h)' /\ fd'[h] = LowestFree
      /\ \A d \in Fds \ {LowestFree} : table'[d] = table[d]
      /\ table'[LowestFree] = h
  BY <1>1, <1>2 DEF TypeOK, Opened
<1>5. DescriptorsAgree'
  <2>1. \A g \in Handles \ clashed : Opened(g) => fd[g] # LowestFree
    BY <1>2, FileAssumption DEF DescriptorsAgree
  <2>2. \A d \in Fds : table[d] # h
    BY <1>1, FileAssumption DEF DescriptorsAgree
  <2>3. ASSUME NEW g \in Handles, pc'[g] # "none" PROVE fd'[g] \in Fds
    <3>1. CASE g = h
      BY <1>2, <1>4, <3>1
    <3>2. CASE g # h
      BY <1>4, <2>3, <3>2 DEF DescriptorsAgree
    <3> QED
      BY <3>1, <3>2
  <2>4. ASSUME NEW g \in Handles, Opened(g)'
        PROVE  /\ table'[fd'[g]] \in {None, g} \cup clashed'
               /\ g \notin clashed' => table'[fd'[g]] = g
    <3>1. CASE g = h
      BY <1>2, <1>4, <3>1
    <3>2. CASE g # h /\ fd[g] = LowestFree
      <4>1. Opened(g) /\ g \in clashed /\ fd'[g] = LowestFree
        BY <1>4, <2>1, <2>4, <3>2
      <4>2. h \in clashed'
        BY <1>1, <3>2, <4>1
      <4> QED
        BY <1>0, <1>4, <4>1, <4>2
    <3>3. CASE g # h /\ fd[g] # LowestFree
      <4>1. Opened(g) /\ fd'[g] = fd[g] /\ fd[g] \in Fds
        BY <1>4, <2>4, <3>3 DEF DescriptorsAgree, Opened
      <4>2. table'[fd'[g]] = table[fd[g]]
        BY <1>4, <3>3, <4>1
      <4> QED
        BY <1>0, <4>1, <4>2 DEF DescriptorsAgree
    <3> QED
      BY <3>1, <3>2, <3>3
  <2>5. ASSUME NEW d \in Fds, table'[d] # None
        PROVE  pc'[table'[d]] \notin {"none", "closed"} /\ fd'[table'[d]] = d
    <3>1. CASE d = LowestFree
      BY <1>4, <3>1 DEF Opened
    <3>2. CASE d # LowestFree
      BY <1>4, <2>2, <2>5, <3>2 DEF DescriptorsAgree, TypeOK, Opened
    <3> QED
      BY <3>1, <3>2
  <2> QED
    BY <2>3, <2>4, <2>5 DEF DescriptorsAgree, Opened
<1>6. \A g \in locked : Opened(g) /\ g \in Handles \ {h}
  BY <1>1 DEF TypeOK
<1>7. LockKept' /\ \A g \in locked' : Opened(g)'
  <2>1. \A g \in locked' : Opened(g)'
    BY <1>1, <1>4, <1>6
  <2>2. ASSUME NEW g, g \in locked' \ clashed'
        PROVE  table'[fd'[g]] = g /\ holder'[PathOf[g]] = g
    <3>1. g \in locked \ clashed /\ g \in Handles /\ Opened(g)'
      BY <1>0, <1>1, <1>6, <2>1, <2>2
    <3> QED
      BY <1>1, <1>5, <2>2, <3>1 DEF LockKept, DescriptorsAgree
  <2> QED
    BY <2>1, <2>2 DEF LockKept
<1>8. WritesInv'
  BY <1>0, <1>1, <1>4, WritesFrame, FileAssumption DEF WritesInv, PendingIntact, Pending
<1>9. FillsInv'
  BY <1>0, <1>1, FillsFrame DEF FillsInv, TypeOK
<1> QED
  BY <1>3, <1>5, <1>7, <1>8, <1>9 DEF WritesInv, FillsInv

\* A lock is granted to one descriptor at a time.
LEMMA lockPreserves ==
  ASSUME FileInv, NEW h \in Handles, lock(h)
  PROVE  FileInv'
<1> USE DEF FileInv
<1> DEFINE d == table[fd[h]]
<1>1. /\ pc[h] = "open" /\ d # None /\ holder[PathOf[d]] \in {None, d}
      /\ holder' = [holder EXCEPT ![PathOf[d]] = d]
      /\ locked' = locked \cup {h}
      /\ UNCHANGED <<table, fd, clashed, pc, tasks, writeVars, fillVars>>
  BY DEF lock, Behind, Granted
<1>2. /\ Opened(h) /\ d \in Handles /\ PathOf[d] \in Paths
      /\ h \notin clashed => d = h
  BY <1>1 DEF Opened, DescriptorsAgree, TypeOK, Paths
<1> HIDE DEF d
<1>3. TypeOK'
  BY <1>1, <1>2 DEF TypeOK, writeVars, fillVars, Undisturbed
<1>4. \A g \in Handles : Opened(g)' <=> Opened(g)
  BY <1>1 DEF Opened
<1>5. DescriptorsAgree'
  BY <1>1, <1>4 DEF DescriptorsAgree, TypeOK
<1>6. LockKept' /\ \A g \in locked' : Opened(g)'
  <2>1. ASSUME NEW g, g \in locked \ clashed
        PROVE  g \in Handles /\ table[fd[g]] = g /\ holder'[PathOf[g]] = g
    <3>1. g \in Handles /\ PathOf[g] \in Paths /\ table[fd[g]] = g
          /\ holder[PathOf[g]] = g
      BY <2>1 DEF LockKept, TypeOK, Paths
    <3>2. PathOf[g] = PathOf[d] => d = g
      BY <1>1, <3>1, FileAssumption
    <3> QED
      BY <1>1, <1>2, <3>1, <3>2 DEF TypeOK
  <2>2. h \notin clashed => table[fd[h]] = h /\ holder'[PathOf[h]] = h
    BY <1>1, <1>2 DEF DescriptorsAgree, TypeOK
  <2>3. LockKept'
    BY <1>1, <2>1, <2>2 DEF LockKept
  <2> QED
    BY <1>1, <1>2, <1>4, <2>3 DEF TypeOK
<1>7. WritesInv'
  BY <1>1, <1>4, WritesFrame, FileAssumption DEF WritesInv, PendingIntact, Pending
<1>8. FillsInv'
  BY <1>1, FillsFrame DEF FillsInv
<1> QED
  BY <1>3, <1>5, <1>6, <1>7, <1>8 DEF WritesInv, FillsInv

\* A first close frees the number and the lock of its own object; a second one
\* those of the object it robs.
LEMMA closePreserves ==
  ASSUME FileInv, NEW h \in Handles, close(h)
  PROVE  FileInv'
<1> USE DEF FileInv
<1> DEFINE d == table[fd[h]]
<1>1. /\ pc[h] \in {"open", "closed"}
      /\ \A r \in Pending : HandleOf[r] # h
      /\ table' = [table EXCEPT ![fd[h]] = None]
      /\ holder' = [p \in Paths |-> IF holder[p] = d THEN None ELSE holder[p]]
      /\ locked' = locked \ {h}
      /\ clashed' = clashed \cup Robbed(h)
      /\ pc' = [pc EXCEPT ![h] = "closed"]
      /\ UNCHANGED <<fd, tasks, writeVars, fillVars>>
  BY DEF close, Behind, Goto, AfterCloseError
<1>2. fd[h] \in Fds /\ d \in Handles \cup {None}
  BY <1>1 DEF DescriptorsAgree, TypeOK
<1>3. d \in {None, h} \cup clashed'
  <2>1. CASE pc[h] = "closed" \/ h \in clashed
    BY <1>1, <2>1 DEF Robbed, Behind
  <2>2. CASE pc[h] # "closed" /\ h \notin clashed
    BY <1>1, <2>2 DEF DescriptorsAgree, Opened
  <2> QED
    BY <2>1, <2>2
<1>0. clashed \subseteq clashed' /\ clashed' \subseteq Handles
  BY <1>1, <1>2 DEF TypeOK, Robbed, Behind
<1>4. TypeOK'
  BY <1>0, <1>1 DEF TypeOK, writeVars, fillVars, Undisturbed
<1>5. /\ \A g \in Handles \ {h} : (Opened(g)' <=> Opened(g)) /\ pc'[g] = pc[g]
      /\ pc'[h] = "closed" /\ ~Opened(h)'
      /\ \A e \in Fds : table'[e] = IF e = fd[h] THEN None ELSE table[e]
  BY <1>1, <1>2 DEF TypeOK, Opened
<1>6. DescriptorsAgree'
  <2>1. ASSUME NEW g \in Handles, pc'[g] # "none" PROVE fd'[g] \in Fds
    BY <1>1, <1>5, <2>1 DEF DescriptorsAgree
  <2>2. ASSUME NEW g \in Handles, Opened(g)'
        PROVE  /\ table'[fd'[g]] \in {None, g} \cup clashed'
               /\ g \notin clashed' => table'[fd'[g]] = g
    <3>1. g # h /\ Opened(g) /\ fd'[g] = fd[g] /\ fd[g] \in Fds
      BY <1>1, <1>5, <2>2 DEF DescriptorsAgree, Opened
    <3>2. table'[fd[g]] = IF fd[g] = fd[h] THEN None ELSE table[fd[g]]
      BY <1>5, <3>1
    <3>3. table[fd[g]] \in {None, g} \cup clashed /\ (g \notin clashed => table[fd[g]] = g)
      BY <3>1 DEF DescriptorsAgree
    <3>4. g \notin clashed' => fd[g] # fd[h]
      BY <1>0, <1>3, <3>1, <3>3, FileAssumption
    <3> QED
      BY <1>0, <3>1, <3>2, <3>3, <3>4
  <2>3. ASSUME NEW e \in Fds, table'[e] # None
        PROVE  pc'[table'[e]] \notin {"none", "closed"} /\ fd'[table'[e]] = e
    <3>1. e # fd[h] /\ table'[e] = table[e]
      BY <1>5, <2>3
    <3>2. table[e] \in Handles /\ Opened(table[e]) /\ fd[table[e]] = e
      BY <2>3, <3>1 DEF DescriptorsAgree, TypeOK
    <3> QED
      BY <1>1, <1>5, <3>1, <3>2 DEF Opened
  <2> QED
    BY <2>1, <2>2, <2>3 DEF DescriptorsAgree, Opened
<1>7. LockKept' /\ \A g \in locked' : Opened(g)'
  <2>1. \A g \in locked' : g \in Handles \ {h} /\ g \in locked /\ Opened(g)'
    BY <1>1, <1>5 DEF TypeOK
  <2>2. ASSUME NEW g, g \in locked' \ clashed'
        PROVE  table'[fd'[g]] = g /\ holder'[PathOf[g]] = g
    <3>1. g \in Handles \ {h} /\ g \in locked \ clashed /\ Opened(g)'
      BY <1>0, <2>1, <2>2
    <3>2. holder[PathOf[g]] = g /\ PathOf[g] \in Paths
      BY <3>1 DEF LockKept, Paths
    <3>3. d # g
      BY <1>3, <2>2, <3>1, FileAssumption
    <3> QED
      BY <1>1, <1>6, <2>2, <3>1, <3>2, <3>3 DEF DescriptorsAgree
  <2> QED
    BY <2>1, <2>2 DEF LockKept
<1>8. WritesInv'
  BY <1>0, <1>1, <1>5, WritesFrame, FileAssumption DEF WritesInv, PendingIntact, Pending
<1>9. FillsInv'
  BY <1>0, <1>1, FillsFrame DEF FillsInv, TypeOK
<1> QED
  BY <1>4, <1>6, <1>7, <1>8, <1>9 DEF WritesInv, FillsInv

-------------------------------------------------------------------------------
(***************************************************************************)
(* The actions on buffers and writes.                                      *)
(***************************************************************************)

\* A step that concerns writes only leaves the other groups alone.
LEMMA WriteStepFrame ==
  ASSUME FileInv, UNCHANGED <<handleVars, pc, fillVars>>, TypeOK', WritesInv'
  PROVE  FileInv'
<1>1. HandlesInv'
  BY HandlesFrame DEF FileInv, HandlesInv, Opened
<1>2. FillsInv'
  BY FillsFrame DEF FileInv, FillsInv, handleVars
<1> QED
  BY <1>1, <1>2 DEF FileInv, HandlesInv, WritesInv, FillsInv

\* A write that throws was not submitted; one that returns went to whatever
\* has the number, its own file unless the object clashed.
LEMMA writePreserves ==
  ASSUME FileInv, NEW r \in Requests, write(r)
  PROVE  FileInv'
<1> USE DEF FileInv
<1> DEFINE h == HandleOf[r]
           d == table[fd[h]]
<1>1. /\ pc[h] = "open" /\ request[r] = "new"
      /\ fildes' = [fildes EXCEPT ![r] = fd[h]]
      /\ tasks < MaxTasks /\ tasks' = tasks + 1
      /\ UNCHANGED <<handleVars, pc, ring, batch, lastFile, unsynced, fillVars>>
  BY DEF write, Begin
<1>2. \/ /\ d # None /\ kernel' = kernel \cup {r}
         /\ target' = [target EXCEPT ![r] = PathOf[d]]
         /\ request' = [request EXCEPT ![r] = "pending"]
      \/ /\ request' = [request EXCEPT ![r] = "refused"]
         /\ kernel' = kernel /\ target' = target
  BY DEF write, Behind
<1>3. /\ h \in Handles /\ Opened(h) /\ r \notin Pending /\ fd[h] \in Fds
      /\ d # None => d \in Handles /\ PathOf[d] \in Paths
      /\ h \notin clashed => d = h
  BY <1>1, FileAssumption DEF Opened, Pending, DescriptorsAgree, TypeOK, Paths
<1> HIDE DEF h, d
<1>4. TypeOK'
  <2>1. tasks' \in 0 .. MaxTasks
    BY <1>1, FileAssumption DEF TypeOK
  <2>2. /\ kernel' \subseteq Requests /\ target' \in [Requests -> Paths \cup {None}]
        /\ request' \in [Requests -> {"new", "refused", "pending", "done"}]
        /\ fildes' \in [Requests -> Fds \cup {None}]
    BY <1>1, <1>2, <1>3 DEF TypeOK
  <2> QED
    BY <1>1, <2>1, <2>2 DEF TypeOK, handleVars, fillVars, Undisturbed
<1>5. /\ InRing' = InRing /\ InBatch' = InBatch
      /\ r \notin InRing \cup InBatch \cup kernel
      /\ Pending' = IF request'[r] = "pending" THEN Pending \cup {r} ELSE Pending
  <2>1. InRing' = InRing /\ InBatch' = InBatch
    BY <1>1 DEF InRing, InBatch
  <2>2. Pending' = IF request'[r] = "pending" THEN Pending \cup {r} ELSE Pending
    BY <1>2, <1>3 DEF Pending, TypeOK
  <2> QED
    BY <1>3, <2>1, <2>2 DEF WritesTracked
<1>6. WritesTracked'
  <2>1. kernel' # kernel => request'[r] = "pending"
    BY <1>2 DEF TypeOK
  <2> QED
    BY <1>1, <1>2, <1>5, <2>1 DEF WritesTracked, EachOnce
<1>7. /\ r \in Pending' /\ HandleOf[r] \notin clashed => target'[r] = PathOf[h]
      /\ HandleOf[r] \notin clashed => target'[r] \in {None, target[r], PathOf[h]}
  BY <1>2, <1>3 DEF TypeOK, Pending, h
<1>8. PendingIntact'
  <2>1. ASSUME NEW q \in Pending'
        PROVE  /\ Opened(HandleOf[q]) /\ fildes'[q] = fd[HandleOf[q]]
               /\ HandleOf[q] \notin clashed => target'[q] = PathOf[HandleOf[q]]
    <3>1. CASE q = r
      BY <1>1, <1>3, <1>7, <2>1, <3>1 DEF TypeOK, h
    <3>2. CASE q # r
      <4>1. q \in Pending /\ q \in Requests
        BY <1>5, <2>1, <3>2 DEF Pending
      <4>2. target'[q] = target[q] /\ fildes'[q] = fildes[q]
        BY <1>1, <1>2, <3>2, <4>1 DEF TypeOK
      <4> QED
        BY <4>1, <4>2 DEF PendingIntact
    <3> QED
      BY <3>1, <3>2
  <2> QED
    BY <1>1, <2>1 DEF PendingIntact, Opened, handleVars
<1>9. WrittenToOwnFile'
  BY <1>1, <1>2, <1>7 DEF WrittenToOwnFile, TypeOK, handleVars, h
<1>10. LastFileSynced'
  BY <1>1, <1>5 DEF LastFileSynced, TypeOK, WritesTracked, Pending, handleVars
<1>11. DurableOnFile'
  BY <1>1, <1>2 DEF DurableOnFile, TypeOK, handleVars
<1> QED
  BY <1>1, <1>4, <1>6, <1>8, <1>9, <1>10, <1>11, WriteStepFrame DEF WritesInv

\* A completed write moves from the kernel to the ring, not yet synced.
LEMMA completePreserves ==
  ASSUME FileInv, NEW r \in Requests, complete(r)
  PROVE  FileInv'
<1> USE DEF FileInv
<1>1. /\ r \in kernel /\ kernel' = kernel \ {r}
      /\ ring' = Append(ring, r)
      /\ unsynced' = unsynced \cup {r}
      /\ UNCHANGED <<handleVars, pc, tasks, request, fildes, target, batch,
                     lastFile, fillVars>>
  BY DEF complete
<1>2. ring \in Seq(Requests) /\ EachOnce(ring) /\ r \notin EventsIn(ring)
  BY <1>1 DEF TypeOK, WritesTracked, EventsIn, InRing
<1>3. ring' \in Seq(Requests) /\ InRing' = InRing \cup {r} /\ EachOnce(ring)'
  <2>1. ring' \in Seq(Requests) /\ EventsIn(ring') = EventsIn(ring) \cup {r}
    BY <1>1, <1>2, AppendedEvent
  <2>2. EachOnce(ring')
    BY <1>1, <1>2, AppendedEvent
  <2> QED
    BY <2>1, <2>2 DEF EventsIn, InRing, EachOnce
<1>4. TypeOK'
  BY <1>1, <1>3 DEF TypeOK, handleVars, fillVars, Undisturbed
<1>5. InBatch' = InBatch /\ Pending' = Pending /\ r \in Pending /\ r \notin InBatch
  BY <1>1 DEF InBatch, Pending, WritesTracked
<1>6. WritesTracked'
  BY <1>1, <1>3, <1>5 DEF WritesTracked, EachOnce
<1>7. PendingIntact'
  BY <1>1, <1>5 DEF PendingIntact, Opened, handleVars
<1>8. LastFileSynced' /\ WrittenToOwnFile'
  BY <1>1, <1>5 DEF LastFileSynced, WrittenToOwnFile, handleVars
<1>9. DurableOnFile'
  BY <1>1, <1>5 DEF DurableOnFile, Pending, handleVars
<1> QED
  BY <1>1, <1>4, <1>6, <1>7, <1>8, <1>9, WriteStepFrame DEF WritesInv

\* A new batch starts without a last file.
LEMMA getEventsPreserves ==
  ASSUME FileInv, getEvents
  PROVE  FileInv'
<1> USE DEF FileInv
<1>1. /\ batch = <<>> /\ batch' = ring /\ ring' = <<>> /\ lastFile' = None
      /\ UNCHANGED <<handleVars, pc, tasks, request, kernel, fildes, target,
                     unsynced, fillVars>>
  BY DEF getEvents, LastFileReset
<1>2. TypeOK'
  BY <1>1, EmptySeq DEF TypeOK, handleVars, fillVars, Undisturbed
<1>3. /\ InBatch' = InRing /\ InRing' = {} /\ InBatch = {} /\ Pending' = Pending
      /\ EachOnce(ring') /\ (EachOnce(batch') <=> EachOnce(ring))
  BY <1>1 DEF InBatch, InRing, Pending, EachOnce
<1>4. WritesTracked'
  BY <1>1, <1>3 DEF WritesTracked, EachOnce
<1>5. PendingIntact'
  BY <1>1, <1>3 DEF PendingIntact, Opened, handleVars
<1>6. LastFileSynced'
  <2>1. \A r \in InRing : fildes[r] \in Fds
    BY FileAssumption
       DEF WritesTracked, PendingIntact, DescriptorsAgree, Pending, Opened
  <2> QED
    BY <1>1, <1>3, <2>1, FileAssumption DEF LastFileSynced
<1>7. DurableOnFile' /\ WrittenToOwnFile'
  BY <1>1 DEF DurableOnFile, WrittenToOwnFile, handleVars
<1> QED
  BY <1>1, <1>2, <1>4, <1>5, <1>6, <1>7, WriteStepFrame DEF WritesInv

\* The fdatasync of a pending write's number reaches the write's file, and
\* with it all writes of the batch that have the same number.
LEMMA SyncReaches ==
  ASSUME FileInv, NEW r \in Pending, NEW q \in Pending \cap unsynced,
         fildes[q] = fildes[r], HandleOf[q] \notin clashed
  PROVE  q \in SyncedBy(fildes[r])
<1> USE DEF FileInv
<1>1. /\ HandleOf[q] \in Handles /\ fildes[q] = fd[HandleOf[q]]
      /\ target[q] = PathOf[HandleOf[q]] /\ Opened(HandleOf[q])
  BY FileAssumption DEF Pending, PendingIntact
<1>2. table[fildes[q]] = HandleOf[q]
  BY <1>1 DEF DescriptorsAgree
<1> QED
  BY <1>1, <1>2, FileAssumption DEF SyncedBy, Behind

\* A write is reported when its file has been synced.
LEMMA handleEventPreserves ==
  ASSUME FileInv, handleEvent
  PROVE  FileInv'
<1> USE DEF FileInv
<1> DEFINE r == Head(batch)
<1>1. /\ batch # <<>>
      /\ unsynced' = IF lastFile # fildes[r] THEN unsynced \ SyncedBy(fildes[r])
                                             ELSE unsynced
      /\ lastFile' = fildes[r]
      /\ request' = [request EXCEPT ![r] = "done"]
      /\ batch' = Tail(batch)
      /\ UNCHANGED <<handleVars, pc, tasks, kernel, fildes, target, ring,
                     fillVars>>
  BY DEF handleEvent
<1>2. batch \in Seq(Requests) /\ EachOnce(batch)
  BY DEF TypeOK, WritesTracked
<1>3. /\ r \in InBatch /\ r \in Requests /\ batch' \in Seq(Requests)
      /\ InBatch' = InBatch \ {r} /\ EachOnce(batch)'
  <2>1. /\ r \in EventsIn(batch) /\ r \in Requests /\ batch' \in Seq(Requests)
        /\ EventsIn(batch') = EventsIn(batch) \ {r} /\ EachOnce(batch')
    BY <1>1, <1>2, TreatedEvent
  <2> QED
    BY <2>1 DEF EventsIn, InBatch, EachOnce
<1> HIDE DEF r
<1>4. TypeOK'
  BY <1>1, <1>3 DEF TypeOK, handleVars, fillVars, Undisturbed
<1>5. r \in Pending /\ Pending' = Pending \ {r} /\ InRing' = InRing
  BY <1>1, <1>3 DEF WritesTracked, Pending, TypeOK, InRing
<1>6. WritesTracked'
  BY <1>1, <1>3, <1>5 DEF WritesTracked, EachOnce
<1>7. PendingIntact'
  BY <1>1, <1>5 DEF PendingIntact, Opened, handleVars
<1>8. \A q \in InBatch : fildes[q] = fildes[r] /\ HandleOf[q] \notin clashed =>
                           q \notin unsynced'
  <2>1. CASE lastFile = fildes[r]
    BY <1>1, <2>1 DEF LastFileSynced
  <2>2. CASE lastFile # fildes[r]
    BY <1>1, <1>5, <2>2, SyncReaches DEF WritesTracked
  <2> QED
    BY <2>1, <2>2
<1>9. LastFileSynced' /\ WrittenToOwnFile'
  BY <1>1, <1>3, <1>8 DEF LastFileSynced, WrittenToOwnFile, handleVars
<1>10. DurableOnFile'
  BY <1>1, <1>3, <1>8 DEF DurableOnFile, TypeOK, handleVars
<1> QED
  BY <1>1, <1>4, <1>6, <1>7, <1>9, <1>10, WriteStepFrame DEF WritesInv

-------------------------------------------------------------------------------
(***************************************************************************)
(* The actions of fill and fallocate.                                      *)
(***************************************************************************)

\* A step of a fill leaves the other groups alone: no object is opened or
\* closed by it.
LEMMA FillStepFrame ==
  ASSUME FileInv, UNCHANGED <<handleVars, writeVars>>,
         \A g \in Handles : /\ Opened(g)' <=> Opened(g)
                            /\ pc'[g] = "none" <=> pc[g] = "none",
         TypeOK', FillsInv'
  PROVE  FileInv'
<1>1. HandlesInv'
  BY HandlesFrame DEF FileInv, HandlesInv
<1>2. \A r \in Pending : /\ Opened(HandleOf[r])'
                         /\ fd'[HandleOf[r]] = fd[HandleOf[r]]
  BY FileAssumption DEF FileInv, PendingIntact, Pending, handleVars
<1>3. WritesInv'
  BY <1>2, WritesFrame DEF FileInv, WritesInv, handleVars
<1> QED
  BY <1>1, <1>3 DEF FileInv, HandlesInv, WritesInv, FillsInv

\* What a fill finds under its number: its own file, unless its object clashed,
\* and then only files of others that did.
LEMMA FoundByFill ==
  ASSUME FileInv, NEW h \in Handles, Opened(h)
  PROVE  /\ table[fd[h]] \in {None, h} \cup clashed
         /\ h \notin clashed => table[fd[h]] = h
         /\ table[fd[h]] # None => table[fd[h]] \in Handles
BY DEF FileInv, DescriptorsAgree, Opened, TypeOK

\* A rewind leaves the offsets of all objects that did not clash, but its own.
LEMMA RewoundOffsets ==
  ASSUME FileInv, NEW h \in Handles, Opened(h), offset' = Rewound(h)
  PROVE  /\ offset' \in [Handles -> Nat]
         /\ \A g \in Handles \ clashed : g # h => offset'[g] = offset[g]
         /\ h \notin clashed => offset'[h] = 0
<1>1. /\ table[fd[h]] \in {None, h} \cup clashed
      /\ h \notin clashed => table[fd[h]] = h
  BY FoundByFill
<1>2. offset' = [g \in Handles |-> IF g = table[fd[h]] THEN 0 ELSE offset[g]]
  BY DEF Rewound, Behind
<1>3. offset \in [Handles -> Nat]
  BY DEF FileInv, TypeOK
<1> QED
  BY <1>1, <1>2, <1>3, FileAssumption

\* A fill begins.
LEMMA fillPreserves ==
  ASSUME FileInv, NEW h \in Handles, fill(h)
  PROVE  FileInv'
<1> USE DEF FileInv
<1>1. /\ pc[h] = "open" /\ pc' = [pc EXCEPT ![h] = "verify"]
      /\ filled' = filled \ {h} /\ tasks < MaxTasks /\ tasks' = tasks + 1
      /\ UNCHANGED <<handleVars, writeVars, oneMegaBuffer, oneMegaMutex, offset,
                     turn, size, raw, nobuffer, short>>
  BY DEF fill, Goto, Begin
<1>2. TypeOK'
  <2>1. tasks' \in 0 .. MaxTasks
    BY <1>1, FileAssumption DEF TypeOK
  <2> QED
    BY <1>1, <2>1 DEF TypeOK, handleVars, writeVars, Undisturbed
<1>3. \A g \in Handles : /\ Opened(g)' <=> Opened(g)
                         /\ pc'[g] = "none" <=> pc[g] = "none"
  BY <1>1 DEF TypeOK, Opened
<1>4. BufferGuarded'
  BY <1>1 DEF BufferGuarded, TypeOK
<1>5. FillsTracked'
  BY <1>1 DEF FillsTracked, TypeOK, handleVars
<1>6. FilledAsAsked'
  BY <1>1 DEF FilledAsAsked, TypeOK, handleVars
<1> QED
  BY <1>1, <1>2, <1>3, <1>4, <1>5, <1>6, FillStepFrame DEF FillsInv

\* Whoever gets the mutex finds no buffer or a clear one.
LEMMA verifyBufferPreserves ==
  ASSUME FileInv, NEW h \in Handles, verifyBuffer(h)
  PROVE  FileInv'
<1> USE DEF FileInv
<1>1. /\ pc[h] = "verify" /\ oneMegaMutex = None /\ oneMegaMutex' = h
      /\ pc' = [pc EXCEPT ![h] = IF oneMegaBuffer = None THEN "allocate" ELSE "unlock"]
      /\ UNCHANGED <<handleVars, tasks, writeVars, oneMegaBuffer, offset, turn, size, raw,
                     nobuffer, filled, short>>
  BY DEF verifyBuffer, MutexFree, Goto
<1>2. TypeOK'
  BY <1>1 DEF TypeOK, handleVars, writeVars, Undisturbed
<1>3. \A g \in Handles : /\ Opened(g)' <=> Opened(g)
                         /\ pc'[g] = "none" <=> pc[g] = "none"
  BY <1>1 DEF TypeOK, Opened
<1>4. BufferGuarded'
  <2>1. \A g \in Handles : pc[g] \notin {"allocate", "clear", "unlock"}
    BY <1>1, FileAssumption DEF BufferGuarded
  <2>2. oneMegaBuffer \in {None, "zero"}
    BY <2>1 DEF BufferGuarded, TypeOK
  <2> QED
    BY <1>1, <2>1, <2>2, FileAssumption DEF BufferGuarded, TypeOK
<1>5. FillsTracked'
  BY <1>1 DEF FillsTracked, TypeOK, handleVars
<1>6. FilledAsAsked'
  BY <1>1 DEF FilledAsAsked, TypeOK, handleVars
<1> QED
  BY <1>1, <1>2, <1>3, <1>4, <1>5, <1>6, FillStepFrame DEF FillsInv

\* A new buffer is not clear yet; nobody who was told that there is one looks
\* at it.
LEMMA allocatePreserves ==
  ASSUME FileInv, NEW h \in Handles, allocate(h)
  PROVE  FileInv'
<1> USE DEF FileInv
<1>1. /\ pc[h] = "allocate"
      /\ \/ /\ oneMegaBuffer' = "raw" /\ pc' = [pc EXCEPT ![h] = "clear"]
            /\ nobuffer' = nobuffer
         \/ /\ nobuffer' = nobuffer \cup {h} /\ pc' = [pc EXCEPT ![h] = "unlock"]
            /\ oneMegaBuffer' = oneMegaBuffer
      /\ UNCHANGED <<handleVars, tasks, writeVars, oneMegaMutex, offset, turn, size, raw,
                     filled, short>>
  BY DEF allocate, Goto
<1>2. TypeOK'
  BY <1>1 DEF TypeOK, handleVars, writeVars, Undisturbed
<1>3. \A g \in Handles : /\ Opened(g)' <=> Opened(g)
                         /\ pc'[g] = "none" <=> pc[g] = "none"
  BY <1>1 DEF TypeOK, Opened
<1>4. BufferGuarded'
  <2>1. oneMegaMutex = h /\ oneMegaBuffer = None
    BY <1>1 DEF BufferGuarded
  <2>2. \A g \in Handles : pc[g] \in {"unlock", "write"} => g \in nobuffer
    BY <2>1, FileAssumption DEF BufferGuarded
  <2> QED
    BY <1>1, <2>1, <2>2, FileAssumption DEF BufferGuarded, TypeOK
<1>5. FillsTracked'
  BY <1>1 DEF FillsTracked, TypeOK, handleVars
<1>6. FilledAsAsked'
  BY <1>1 DEF FilledAsAsked, TypeOK, handleVars
<1> QED
  BY <1>1, <1>2, <1>3, <1>4, <1>5, <1>6, FillStepFrame DEF FillsInv

\* The buffer becomes clear before the mutex is given back.
LEMMA clearPreserves ==
  ASSUME FileInv, NEW h \in Handles, clear(h)
  PROVE  FileInv'
<1> USE DEF FileInv
<1>1. /\ pc[h] = "clear" /\ oneMegaBuffer' = "zero"
      /\ pc' = [pc EXCEPT ![h] = "unlock"]
      /\ UNCHANGED <<handleVars, tasks, writeVars, oneMegaMutex, offset, turn, size, raw,
                     nobuffer, filled, short>>
  BY DEF clear, Goto
<1>2. TypeOK'
  BY <1>1 DEF TypeOK, handleVars, writeVars, Undisturbed
<1>3. \A g \in Handles : /\ Opened(g)' <=> Opened(g)
                         /\ pc'[g] = "none" <=> pc[g] = "none"
  BY <1>1 DEF TypeOK, Opened
<1>4. BufferGuarded'
  <2>1. oneMegaMutex = h /\ \A g \in Handles : pc[g] = "allocate" => g = h
    BY <1>1 DEF BufferGuarded
  <2> QED
    BY <1>1, <2>1 DEF BufferGuarded, TypeOK
<1>5. FillsTracked'
  BY <1>1 DEF FillsTracked, TypeOK, handleVars
<1>6. FilledAsAsked'
  BY <1>1 DEF FilledAsAsked, TypeOK, handleVars
<1> QED
  BY <1>1, <1>2, <1>3, <1>4, <1>5, <1>6, FillStepFrame DEF FillsInv

\* The loop starts at the beginning of the file.
LEMMA unlockPreserves ==
  ASSUME FileInv, NEW h \in Handles, unlock(h)
  PROVE  FileInv'
<1> USE DEF FileInv
<1>1. /\ pc[h] = "unlock" /\ oneMegaMutex' = None
      /\ offset' = Rewound(h)
      /\ pc' = [pc EXCEPT ![h] = "write"]
      /\ UNCHANGED <<handleVars, tasks, writeVars, oneMegaBuffer, turn, size, raw,
                     nobuffer, filled, short>>
  BY DEF unlock, Goto
<1>0. /\ offset' \in [Handles -> Nat]
      /\ \A g \in Handles \ clashed : g # h => offset'[g] = offset[g]
      /\ h \notin clashed => offset'[h] = 0
  BY <1>1, RewoundOffsets DEF Opened
<1>2. TypeOK'
  BY <1>0, <1>1, FileAssumption DEF TypeOK, handleVars, writeVars, Undisturbed
<1>3. \A g \in Handles : /\ Opened(g)' <=> Opened(g)
                         /\ pc'[g] = "none" <=> pc[g] = "none"
  BY <1>1 DEF TypeOK, Opened
<1>4. BufferGuarded'
  <2>1. /\ oneMegaMutex = h
        /\ \A g \in Handles : pc[g] \in {"allocate", "clear", "unlock"} => g = h
    BY <1>1 DEF BufferGuarded
  <2> QED
    BY <1>1, <2>1, FileAssumption DEF BufferGuarded, TypeOK
<1>5. FillsTracked'
  <2>1. PathOf[h] \in Paths /\ turn[h] = 0
    BY <1>1 DEF Paths, FillsTracked
  <2>2. size[PathOf[h]] >= 0
    BY <2>1, FileAssumption DEF TypeOK
  <2> QED
    BY <1>0, <1>1, <2>1, <2>2, FileAssumption DEF FillsTracked, TypeOK, handleVars
<1>6. FilledAsAsked'
  BY <1>1 DEF FilledAsAsked, TypeOK, handleVars
<1> QED
  BY <1>1, <1>2, <1>3, <1>4, <1>5, <1>6, FillStepFrame DEF FillsInv

\* A write of the loop does not leave the size asked for, and writes zeros
\* unless its fill was told that there is no buffer.
LEMMA fillWritePreserves ==
  ASSUME FileInv, NEW h \in Handles, NEW full \in BOOLEAN, fillWrite(h, full)
  PROVE  FileInv'
<1> USE DEF FileInv
<1> DEFINE d == table[fd[h]]
           end == IF full THEN offset[d] + 1 ELSE offset[d]
           p == PathOf[d]
<1>1. /\ pc[h] = "write" /\ turn[h] < Blocks /\ d # None
      /\ turn' = [turn EXCEPT ![h] = turn[h] + 1]
      /\ offset' = [offset EXCEPT ![d] = end]
      /\ size' = [size EXCEPT ![p] = IF end > size[p] THEN end ELSE size[p]]
      /\ raw' = IF oneMegaBuffer = "raw" THEN raw \cup {h} ELSE raw
      /\ short' = IF full THEN short ELSE short \cup {h}
      /\ UNCHANGED <<handleVars, pc, tasks, writeVars, oneMegaBuffer, oneMegaMutex,
                     nobuffer, filled>>
  BY DEF fillWrite, Behind
<1>0. d \in Handles /\ d \in {h} \cup clashed /\ (h \notin clashed => d = h)
  BY <1>1, FoundByFill DEF Opened
<1>2. /\ p \in Paths /\ Blocks \in Nat /\ turn[h] \in 0 .. Blocks
      /\ offset[d] \in Nat /\ size[p] \in Nat
      /\ h \notin clashed => offset[d] <= turn[h]
      /\ h \notin short \cup clashed => offset[d] = turn[h] /\ size[p] >= turn[h]
  BY <1>0, <1>1, FileAssumption DEF Paths, TypeOK, FillsTracked
<1>3. /\ end \in Nat /\ (full => end = offset[d] + 1)
      /\ h \notin clashed => end <= turn[h] + 1
  BY <1>1, <1>2
<1> DEFINE grown == IF end > size[p] THEN end ELSE size[p]
<1>4. /\ grown \in Nat /\ grown >= size[p] /\ grown >= end
      /\ grown \in {end, size[p]}
  BY <1>2, <1>3
<1>5. Undisturbed(p) => grown <= Blocks
  <2>1. SUFFICES ASSUME Undisturbed(p) PROVE grown <= Blocks
    OBVIOUS
  <2>2. d \notin clashed /\ size[p] <= Blocks
    BY <1>2, <2>1 DEF Undisturbed, TypeOK
  <2>3. h \notin clashed
    BY <1>0, <2>2
  <2> QED
    BY <1>1, <1>2, <1>3, <1>4, <2>2, <2>3
<1>6. size' = [size EXCEPT ![p] = grown]
  BY <1>1
<1> HIDE DEF d, end, p, grown
<1>7. TypeOK'
  <2>1. \A q \in Paths : Undisturbed(q)' <=> Undisturbed(q)
    BY <1>1 DEF Undisturbed, handleVars
  <2>2. /\ size' \in [Paths -> Nat]
        /\ \A q \in Paths : Undisturbed(q) => size'[q] <= Blocks
    BY <1>2, <1>4, <1>5, <1>6 DEF TypeOK
  <2>3. offset' \in [Handles -> Nat] /\ turn' \in [Handles -> 0 .. Blocks]
    <3>1. offset \in [Handles -> Nat] /\ turn \in [Handles -> 0 .. Blocks]
      BY DEF TypeOK
    <3>2. turn[h] + 1 \in 0 .. Blocks
      BY <1>1, <1>2
    <3> QED
      BY <1>1, <1>3, <3>1, <3>2
  <2>4. raw' \subseteq Handles /\ short' \subseteq Handles
    BY <1>1 DEF TypeOK
  <2> QED
    BY <1>1, <2>1, <2>2, <2>3, <2>4 DEF TypeOK, handleVars, writeVars
<1>8. \A g \in Handles : /\ Opened(g)' <=> Opened(g)
                         /\ pc'[g] = "none" <=> pc[g] = "none"
  BY <1>1 DEF Opened
<1>9. \A q \in Paths : size[q] \in Nat /\ size'[q] \in Nat /\ size'[q] >= size[q]
  BY <1>2, <1>4, <1>6 DEF TypeOK
<1>10. BufferGuarded'
  BY <1>1 DEF BufferGuarded
<1>11. FillsTracked'
  <2>1. ASSUME NEW g \in Handles \ {h}, g \notin clashed, pc[g] = "write"
        PROVE  /\ offset'[g] <= turn'[g]
               /\ g \notin short => offset'[g] = turn'[g] /\ size'[PathOf[g]] >= turn'[g]
    <3>1. offset'[g] = offset[g] /\ turn'[g] = turn[g]
      BY <1>0, <1>1, <2>1 DEF TypeOK
    <3>2. PathOf[g] \in Paths /\ turn[g] \in 0 .. Blocks
      BY <2>1 DEF Paths, TypeOK
    <3>3. /\ offset[g] <= turn[g]
          /\ g \notin short => offset[g] = turn[g] /\ size[PathOf[g]] >= turn[g]
      BY <2>1 DEF FillsTracked
    <3> QED
      BY <1>2, <1>9, <3>1, <3>2, <3>3
  <2>2. ASSUME h \notin clashed
        PROVE  /\ offset'[h] <= turn'[h]
               /\ h \notin short' => offset'[h] = turn'[h] /\ size'[PathOf[h]] >= turn'[h]
    <3>1. d = h /\ offset'[h] = end /\ turn'[h] = turn[h] + 1 /\ size'[p] = grown
      BY <1>0, <1>1, <1>2, <1>6, <2>2 DEF TypeOK
    <3>2. h \notin short' => full /\ h \notin short
      BY <1>1
    <3>3. p = PathOf[h]
      BY <3>1 DEF p
    <3> QED
      BY <1>2, <1>3, <1>4, <2>2, <3>1, <3>2, <3>3
  <2>3. \A g \in Handles : pc[g] # "write" => turn'[g] = 0
    BY <1>1 DEF FillsTracked, TypeOK
  <2>4. \A g \in Handles : g \notin short' => g \notin short
    BY <1>1
  <2> QED
    BY <1>1, <2>1, <2>2, <2>3, <2>4 DEF FillsTracked, handleVars
<1>12. FilledAsAsked'
  <2>1. oneMegaBuffer = "raw" => h \in nobuffer
    BY <1>1 DEF BufferGuarded
  <2>2. ASSUME NEW g \in filled \ clashed PROVE size'[PathOf[g]] >= Blocks
    <3>1. g \in Handles /\ PathOf[g] \in Paths /\ size[PathOf[g]] >= Blocks
      BY <1>1 DEF FilledAsAsked, TypeOK, Paths
    <3> QED
      BY <1>2, <1>9, <3>1
  <2> QED
    BY <1>1, <2>1, <2>2 DEF FilledAsAsked, handleVars
<1> QED
  BY <1>1, <1>7, <1>8, <1>10, <1>11, <1>12, FillStepFrame DEF FillsInv

\* A fill that throws forgets how far it came.
LEMMA fillFailsPreserves ==
  ASSUME FileInv, NEW h \in Handles, fillFails(h)
  PROVE  FileInv'
<1> USE DEF FileInv
<1>1. /\ pc[h] = "write" /\ turn' = [turn EXCEPT ![h] = 0]
      /\ raw' = raw \ {h} /\ nobuffer' = nobuffer \ {h} /\ short' = short \ {h}
      /\ pc' = [pc EXCEPT ![h] = "open"]
      /\ UNCHANGED <<handleVars, tasks, writeVars, oneMegaBuffer, oneMegaMutex,
                     offset, size, filled>>
  BY DEF fillFails, EndOfFill, Goto
<1>2. TypeOK'
  BY <1>1, FileAssumption DEF TypeOK, handleVars, writeVars, Undisturbed
<1>3. \A g \in Handles : /\ Opened(g)' <=> Opened(g)
                         /\ pc'[g] = "none" <=> pc[g] = "none"
  BY <1>1 DEF TypeOK, Opened
<1>4. BufferGuarded'
  BY <1>1 DEF BufferGuarded, TypeOK
<1>5. FillsTracked'
  BY <1>1 DEF FillsTracked, TypeOK, handleVars
<1>6. FilledAsAsked'
  BY <1>1 DEF FilledAsAsked, TypeOK, handleVars
<1> QED
  BY <1>1, <1>2, <1>3, <1>4, <1>5, <1>6, FillStepFrame DEF FillsInv

\* A fill that returns has written every block, if no write was short.
LEMMA fillReturnsPreserves ==
  ASSUME FileInv, NEW h \in Handles, fillReturns(h)
  PROVE  FileInv'
<1> USE DEF FileInv
<1>1. /\ pc[h] = "write" /\ turn[h] = Blocks
      /\ offset' = Rewound(h) /\ turn' = [turn EXCEPT ![h] = 0]
      /\ filled' = filled \cup ({h} \ short)
      /\ raw' = raw \ {h} /\ nobuffer' = nobuffer \ {h} /\ short' = short \ {h}
      /\ pc' = [pc EXCEPT ![h] = "open"]
      /\ UNCHANGED <<handleVars, tasks, writeVars, oneMegaBuffer, oneMegaMutex, size>>
  BY DEF fillReturns, EndOfFill, Goto
<1>0. /\ offset' \in [Handles -> Nat]
      /\ \A g \in Handles \ clashed : g # h => offset'[g] = offset[g]
  BY <1>1, RewoundOffsets DEF Opened
<1>2. TypeOK'
  BY <1>0, <1>1, FileAssumption DEF TypeOK, handleVars, writeVars, Undisturbed
<1>3. \A g \in Handles : /\ Opened(g)' <=> Opened(g)
                         /\ pc'[g] = "none" <=> pc[g] = "none"
  BY <1>1 DEF TypeOK, Opened
<1>4. BufferGuarded'
  BY <1>1 DEF BufferGuarded, TypeOK
<1>5. FillsTracked'
  BY <1>0, <1>1 DEF FillsTracked, TypeOK, handleVars
<1>6. FilledAsAsked'
  <2>1. h \notin short \cup clashed => size[PathOf[h]] >= Blocks
    BY <1>1 DEF FillsTracked
  <2> QED
    BY <1>1, <2>1 DEF FilledAsAsked, TypeOK, handleVars
<1> QED
  BY <1>1, <1>2, <1>3, <1>4, <1>5, <1>6, FillStepFrame DEF FillsInv

\* fallocate gives the file the size asked for, or leaves it.
LEMMA fallocatePreserves ==
  ASSUME FileInv, NEW h \in Handles, fallocate(h)
  PROVE  FileInv'
<1> USE DEF FileInv
<1> DEFINE d == table[fd[h]]
           p == PathOf[d]
           grown == IF size[p] < Blocks THEN Blocks ELSE size[p]
<1>1. /\ pc[h] = "open" /\ offset' = Rewound(h)
      /\ tasks < MaxTasks /\ tasks' = tasks + 1
      /\ UNCHANGED <<handleVars, pc, writeVars, oneMegaBuffer, oneMegaMutex, turn,
                     raw, nobuffer, short>>
  BY DEF fallocate, Begin
<1>2. \/ /\ d # None /\ size' = [size EXCEPT ![p] = grown]
         /\ filled' = filled \cup {h}
      \/ size' = size /\ filled' = filled
  BY DEF fallocate, Behind
<1>3. /\ d # None => d \in Handles /\ p \in Paths
      /\ h \notin clashed => d = h
  BY <1>1, FoundByFill DEF Opened, Paths
<1>4. Blocks \in Nat /\ size \in [Paths -> Nat]
  BY FileAssumption DEF TypeOK
<1>5. ASSUME p \in Paths
      PROVE  /\ grown \in Nat /\ grown >= size[p] /\ grown >= Blocks
             /\ size[p] <= Blocks => grown <= Blocks
  BY <1>4, <1>5
<1> HIDE DEF d, p, grown
<1>6. /\ size' \in [Paths -> Nat]
      /\ \A q \in Paths : size'[q] >= size[q]
      /\ \A q \in Paths : size[q] <= Blocks => size'[q] <= Blocks
  BY <1>2, <1>3, <1>4, <1>5
<1>0. /\ offset' \in [Handles -> Nat]
      /\ \A g \in Handles \ clashed : g # h => offset'[g] = offset[g]
  BY <1>1, RewoundOffsets DEF Opened
<1>7. TypeOK'
  <2>1. tasks' \in 0 .. MaxTasks
    BY <1>1, FileAssumption DEF TypeOK
  <2>2. \A q \in Paths : Undisturbed(q)' => size'[q] <= Blocks
    BY <1>1, <1>6 DEF TypeOK, handleVars, Undisturbed
  <2>3. filled' \subseteq Handles
    BY <1>2 DEF TypeOK
  <2> QED
    BY <1>0, <1>1, <1>6, <2>1, <2>2, <2>3 DEF TypeOK, handleVars, writeVars
<1>8. \A g \in Handles : /\ Opened(g)' <=> Opened(g)
                         /\ pc'[g] = "none" <=> pc[g] = "none"
  BY <1>1 DEF Opened
<1>9. BufferGuarded'
  <2>1. UNCHANGED <<pc, oneMegaBuffer, oneMegaMutex, nobuffer>>
    BY <1>1
  <2> QED
    BY <2>1 DEF BufferGuarded
<1>10. FillsTracked'
  <2>1. ASSUME NEW g \in Handles, pc[g] = "write", g \notin short \cup clashed
        PROVE  size'[PathOf[g]] >= turn[g]
    <3>1. PathOf[g] \in Paths /\ size[PathOf[g]] >= turn[g] /\ turn[g] \in 0 .. Blocks
      BY <2>1 DEF FillsTracked, Paths, TypeOK
    <3> QED
      BY <1>4, <1>6, <3>1
  <2>2. \A g \in Handles \ clashed : pc[g] = "write" => offset'[g] = offset[g]
    BY <1>0, <1>1
  <2> QED
    BY <1>1, <2>1, <2>2 DEF FillsTracked, TypeOK, handleVars
<1>11. FilledAsAsked'
  <2>1. filled' # filled /\ h \notin clashed => size'[PathOf[h]] >= Blocks
    <3>1. SUFFICES ASSUME filled' # filled, h \notin clashed
                   PROVE  size'[PathOf[h]] >= Blocks
      OBVIOUS
    <3>2. d = h /\ p \in Paths /\ size' = [size EXCEPT ![p] = grown]
      BY <1>2, <1>3, <3>1
    <3>3. size'[p] = grown /\ p = PathOf[h]
      BY <1>4, <3>2 DEF p
    <3> QED
      BY <1>5, <3>2, <3>3
  <2>2. ASSUME NEW g \in filled \ clashed PROVE size'[PathOf[g]] >= Blocks
    <3>1. PathOf[g] \in Paths /\ size[PathOf[g]] >= Blocks
      BY DEF FilledAsAsked, TypeOK, Paths
    <3> QED
      BY <1>4, <1>6, <3>1
  <2>3. \A g \in filled' : g \in filled \/ (g = h /\ filled' # filled)
    BY <1>2
  <2> QED
    BY <1>1, <2>1, <2>2, <2>3 DEF FilledAsAsked, handleVars
<1> QED
  BY <1>1, <1>7, <1>8, <1>9, <1>10, <1>11, FillStepFrame DEF FillsInv

-------------------------------------------------------------------------------
(***************************************************************************)
(* The theorems.                                                           *)
(***************************************************************************)

\* Nothing is open, submitted or filled at the start.
LEMMA InitEstablishesFileInv == Init => FileInv
<1> SUFFICES ASSUME Init PROVE FileInv
  OBVIOUS
<1> USE FileAssumption DEF Init
<1>1. TypeOK
  BY EmptySeq DEF TypeOK
<1>2. DescriptorsAgree /\ LockKept /\ \A h \in locked : Opened(h)
  BY DEF DescriptorsAgree, LockKept, Opened
<1>3. WritesTracked
  BY DEF WritesTracked, InRing, InBatch, EachOnce, Pending
<1>4. PendingIntact /\ WrittenToOwnFile /\ LastFileSynced /\ DurableOnFile
  BY DEF PendingIntact, WrittenToOwnFile, LastFileSynced, DurableOnFile, Pending,
         InBatch
<1>5. BufferGuarded /\ FillsTracked /\ FilledAsAsked
  BY DEF BufferGuarded, FillsTracked, FilledAsAsked
<1> QED
  BY <1>1, <1>2, <1>3, <1>4, <1>5 DEF FileInv

\* Every step preserves the invariant.
LEMMA NextPreservesFileInv == FileInv /\ [Next]_vars => FileInv'
<1> SUFFICES ASSUME FileInv, [Next]_vars PROVE FileInv'
  OBVIOUS
<1>1. ASSUME NEW h \in Handles,
             \/ open(h) \/ lock(h) \/ close(h)
             \/ fill(h) \/ verifyBuffer(h) \/ allocate(h) \/ clear(h) \/ unlock(h)
             \/ \E full \in BOOLEAN : fillWrite(h, full)
             \/ fillFails(h) \/ fillReturns(h) \/ fallocate(h)
      PROVE  FileInv'
  BY <1>1, openPreserves, lockPreserves, closePreserves, fillPreserves,
     verifyBufferPreserves, allocatePreserves, clearPreserves, unlockPreserves,
     fillWritePreserves, fillFailsPreserves, fillReturnsPreserves,
     fallocatePreserves
<1>2. ASSUME NEW r \in Requests,
             write(r) \/ complete(r)
      PROVE  FileInv'
  BY <1>2, writePreserves, completePreserves
<1>3. CASE getEvents \/ handleEvent
  BY <1>3, getEventsPreserves, handleEventPreserves
<1>4. CASE UNCHANGED vars
  <2>1. UNCHANGED <<handleVars, pc, tasks, writeVars, fillVars>>
    BY <1>4 DEF vars
  <2>2. TypeOK'
    BY <2>1 DEF FileInv, TypeOK, handleVars, writeVars, fillVars, Undisturbed
  <2>3. \A g \in Handles : /\ Opened(g)' <=> Opened(g)
                           /\ pc'[g] = "none" <=> pc[g] = "none"
    BY <2>1 DEF Opened
  <2>4. FillsInv'
    BY <2>1, FillsFrame DEF FileInv, FillsInv, handleVars
  <2> QED
    BY <2>1, <2>2, <2>3, <2>4, FillStepFrame
<1> QED
  BY <1>1, <1>2, <1>3, <1>4 DEF Next

\* The inductive invariant holds for any number of objects, writes and blocks.
THEOREM FileInvariant == Spec => []FileInv
<1>1. Init => FileInv
  BY InitEstablishesFileInv
<1>2. FileInv /\ [Next]_vars => FileInv'
  BY NextPreservesFileInv
<1> QED
  BY <1>1, <1>2, PTL DEF Spec

\* Every variable has its type, and no file grows beyond what was asked for,
\* unless a number that was not its own led an object there.
THEOREM FileTypeCorrect == Spec => []TypeOK
<1>1. FileInv => TypeOK
  BY DEF FileInv
<1> QED
  BY <1>1, FileInvariant, PTL

\* An object that was told it has the lock keeps it, alone, until it is
\* closed, although descriptor numbers are reused at once.  A second close of
\* another object may take it: such victims are the only exception.
THEOREM FileLockKept == Spec => []LockKept
<1>1. FileInv => LockKept
  BY DEF FileInv
<1> QED
  BY <1>1, FileInvariant, PTL

\* A write goes to the file of its object, whatever its number meant before;
\* victims of a second close are the only exception.
THEOREM FileWrittenToOwnFile == Spec => []WrittenToOwnFile
<1>1. FileInv => WrittenToOwnFile
  BY DEF FileInv
<1> QED
  BY <1>1, FileInvariant, PTL

\* done() of a write is called after an fdatasync of its own file, whatever
\* the number in its iocb came to mean before and after.
THEOREM FileDurable == Spec => []DurableOnFile
<1>1. FileInv => DurableOnFile
  BY DEF FileInv
<1> QED
  BY <1>1, FileInvariant, PTL

\* A fill that returned has left the size asked for, and zeros, except for
\* the two gaps of the code (short writes, a buffer that was not there).
THEOREM FileFilledAsAsked == Spec => []FilledAsAsked
<1>1. FileInv => FilledAsAsked
  BY DEF FileInv
<1> QED
  BY <1>1, FileInvariant, PTL

===============================================================================
