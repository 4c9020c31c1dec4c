--------------------------- MODULE SpscRingProofs ---------------------------
(***************************************************************************)
(* Proofs about SpscRing, for every capacity, batch size and number of     *)
(* messages.                                                               *)
(***************************************************************************)
EXTENDS SpscRing, TLAPS

-----------------------------------------------------------------------------
(* Index arithmetic. *)

\* The parts of TypeOK that the arithmetic below needs.
LEMMA Typed ==
  ASSUME TypeOK
  PROVE  /\ {writeIdx, readIdx, readIdxCache, writeIdxCache, cw} \subseteq Index
         /\ {pushed, popped, capacity} \subseteq Nat
         /\ {Used, Usable, psize, csize} \subseteq Int
         /\ 0 \in Index /\ 1 \in 0 .. Usable
  BY DEF TypeOK, Used, Usable, Index

\* freeSlots and usedSlots share out the capacity minus the slack slot.
LEMMA FreeAndUsed ==
  ASSUME TypeOK, NEW w \in Index, NEW r \in Index
  PROVE  /\ usedSlots(w, r) \in 0 .. Usable
         /\ freeSlots(w, r) \in 0 .. Usable
         /\ freeSlots(w, r) + usedSlots(w, r) = Usable
         /\ usedSlots(w, r) = 0 <=> w = r
  BY DEF TypeOK, Index, Usable, usedSlots, freeSlots

\* Moving an index by k is the wrap of push_n and pop_n, and for k = 1 that of
\* try_push and pop().
LEMMA MovedIndex ==
  ASSUME TypeOK, NEW i \in Index, NEW k \in 0 .. Usable
  PROVE  /\ WrapIdx(i, k) = SlotAt(i, k)
         /\ NextIdx(i) = SlotAt(i, 1)
         /\ SlotAt(i, k) \in Index
         /\ SlotAt(i, 1) \in Index
  BY DEF TypeOK, Index, Usable, WrapIdx, NextIdx, SlotAt

\* Publishing k messages that fit uses k slots.
LEMMA AdvanceWrite ==
  ASSUME TypeOK, NEW w \in Index, NEW r \in Index,
         NEW k \in 0 .. freeSlots(w, r)
  PROVE  /\ k \in 0 .. Usable
         /\ usedSlots(SlotAt(w, k), r) = usedSlots(w, r) + k
         /\ freeSlots(SlotAt(w, k), r) = freeSlots(w, r) - k
<1> USE DEF TypeOK, Index, Usable, usedSlots, freeSlots, SlotAt
<1>1. CASE r > w
  BY <1>1
<1>2. CASE r <= w
  BY <1>2
<1> QED BY <1>1, <1>2

\* Releasing k messages that are there frees k slots.
LEMMA AdvanceRead ==
  ASSUME TypeOK, NEW w \in Index, NEW r \in Index,
         NEW k \in 0 .. usedSlots(w, r)
  PROVE  /\ k \in 0 .. Usable
         /\ usedSlots(w, SlotAt(r, k)) = usedSlots(w, r) - k
         /\ freeSlots(w, SlotAt(r, k)) = freeSlots(w, r) + k
  BY DEF TypeOK, Index, Usable, usedSlots, freeSlots, SlotAt

\* Counting from a moved index is counting further from the original one.
LEMMA SlotAtShift ==
  ASSUME TypeOK, NEW r \in Index, NEW k \in 0 .. Usable, NEW j \in 0 .. Usable,
         k + j <= Usable
  PROVE  SlotAt(SlotAt(r, k), j) = SlotAt(r, k + j)
  BY DEF TypeOK, Index, Usable, SlotAt

\* The two memcpys of a batch touch exactly the count slots from start on.
LEMMA RegionIsRun ==
  ASSUME TypeOK, NEW start \in Index, NEW count \in 0 .. Usable
  PROVE  /\ Region(start, count) \subseteq Index
         /\ \A j \in 0 .. Usable : SlotAt(start, j) \in Region(start, count) <=> j < count
         /\ \A s \in Region(start, count) : \E j \in 0 .. count - 1 : s = SlotAt(start, j)
<1> USE DEF TypeOK, Index, Usable, Region, FirstRun, MinOf, SlotAt
<1>1. Region(start, count) \subseteq Index
  OBVIOUS
<1>2. \A j \in 0 .. Usable : SlotAt(start, j) \in Region(start, count) <=> j < count
  OBVIOUS
<1>3. ASSUME NEW s \in Region(start, count)
      PROVE  \E j \in 0 .. count - 1 : s = SlotAt(start, j)
  <2>1. CASE s >= start
    <3>1. s - start \in 0 .. count - 1 /\ s = SlotAt(start, s - start)
      BY <2>1
    <3> QED BY <3>1
  <2>2. CASE s < start
    <3>1. s + capacity - start \in 0 .. count - 1 /\ s = SlotAt(start, s + capacity - start)
      BY <2>2
    <3> QED BY <3>1
  <2> QED BY <2>1, <2>2
<1> QED BY <1>1, <1>2, <1>3

\* The slots from the write index on that count as free lie outside the ones
\* that hold messages.
LEMMA FreeNotUsed ==
  ASSUME TypeOK, NEW w \in Index, NEW r \in Index,
         NEW k \in 0 .. freeSlots(w, r) - 1, NEW j \in 0 .. usedSlots(w, r) - 1
  PROVE  SlotAt(w, k) # SlotAt(r, j)
  BY DEF TypeOK, Index, Usable, usedSlots, freeSlots, SlotAt

\* CopyIn puts message base + j in the j-th slot from start and leaves the
\* other slots alone.
LEMMA CopyInEffect ==
  ASSUME TypeOK, NEW start \in Index, NEW count \in 0 .. Usable, NEW base \in Nat
  PROVE  /\ CopyIn(start, count, base) \in [Index -> Int]
         /\ \A j \in 0 .. count - 1 : CopyIn(start, count, base)[SlotAt(start, j)] = base + j
         /\ \A s \in Index \ Region(start, count) : CopyIn(start, count, base)[s] = slots[s]
<1> DEFINE C == CopyIn(start, count, base)
<1>1. C \in [Index -> Int]
  BY DEF TypeOK, Index, Usable, CopyIn, FirstRun, MinOf
<1>2. \A j \in 0 .. count - 1 : C[SlotAt(start, j)] = base + j
  BY DEF TypeOK, Index, Usable, CopyIn, FirstRun, MinOf, SlotAt
<1>3. \A s \in Index \ Region(start, count) : C[s] = slots[s]
  BY DEF TypeOK, Index, Usable, CopyIn, FirstRun, MinOf, Region
<1> QED BY <1>1, <1>2, <1>3

\* CopyOut reads the count slots from start on, in order.
LEMMA CopyOutEffect ==
  ASSUME TypeOK, NEW start \in Index, NEW count \in 0 .. Usable
  PROVE  /\ CopyOut(start, count) \in Seq(Int)
         /\ Len(CopyOut(start, count)) = count
         /\ \A i \in 1 .. count : CopyOut(start, count)[i] = slots[SlotAt(start, i - 1)]
<1> DEFINE C == CopyOut(start, count)
<1>1. C = [i \in 1 .. count |-> slots[SlotAt(start, i - 1)]]
  BY DEF TypeOK, Index, Usable, CopyOut, FirstRun, MinOf, SlotAt
<1>2. \A i \in 1 .. count : slots[SlotAt(start, i - 1)] \in Int
  BY DEF TypeOK, Index, Usable, SlotAt
<1> HIDE DEF C
<1>3. count \in Nat
  BY DEF TypeOK, Usable
<1>4. C \in Seq(Int) /\ Len(C) = count
  BY <1>1, <1>2, <1>3
<1> QED BY <1>1, <1>4 DEF C

-----------------------------------------------------------------------------
(* Init and the producer's steps keep IndInv. *)

\* create() leaves an empty ring with exact caches.
LEMMA InitInv == Init => IndInv
<1> SUFFICES ASSUME Init PROVE IndInv
  OBVIOUS
<1>1. capacity \in Nat /\ capacity >= 2
  BY RequestedAssumption DEF Init
<1>2. TypeOK
  <2>1. slots \in [Index -> Int]
    BY DEF Init, Index, Torn
  <2>2. 0 \in Index /\ <<>> \in Seq(Int) /\ NoVal \in Int
    BY <1>1 DEF Index, NoVal
  <2>3. peek \in BOOLEAN
    BY DEF Init
  <2> QED BY <1>1, <2>1, <2>2, <2>3 DEF Init, TypeOK
<1>3. RingHoldsUsed /\ CachesConservative /\ SizeSafeForEndpoint
  BY <1>1 DEF Init, RingHoldsUsed, CachesConservative, SizeSafeForEndpoint, Used, Usable,
     usedSlots, freeSlots, NoVal
<1>4. ProducerLocals /\ ConsumerLocals /\ DeliveredInOrder
  BY <1>1 DEF Init, ProducerLocals, ConsumerLocals, DeliveredInOrder
<1> QED BY <1>2, <1>3, <1>4 DEF IndInv

\* A producer step keeps what the invariant says of the consumer as long as it
\* takes no message out of the ring.
LEMMA ConsumerSideKept ==
  ASSUME IndInv, UNCHANGED <<capacity, consumerOnly>>, pushed' \in Nat, pushed <= pushed'
  PROVE  /\ ConsumerLocals'
         /\ DeliveredInOrder'
         /\ usedSlots(writeIdxCache, readIdx)' <= Used'
         /\ csize' # NoVal => csize' \in 0 .. Used'
<1> USE DEF IndInv, consumerOnly
<1>1. usedSlots(cw, readIdx) \in Int /\ usedSlots(writeIdxCache, readIdx) \in Int
  BY Typed, FreeAndUsed
<1>2. Used \in Int /\ Used' \in Int /\ Used <= Used'
  BY Typed DEF Used
<1>3. /\ usedSlots(cw, readIdx)' = usedSlots(cw, readIdx)
      /\ usedSlots(writeIdxCache, readIdx)' = usedSlots(writeIdxCache, readIdx)
  BY DEF usedSlots
<1>4. ConsumerLocals'
  BY <1>1, <1>2, <1>3 DEF ConsumerLocals, NoVal
<1>5. DeliveredInOrder'
  BY DEF DeliveredInOrder
<1>6. usedSlots(writeIdxCache, readIdx)' <= Used'
  BY <1>1, <1>2, <1>3 DEF CachesConservative
<1>7. csize' # NoVal => csize' \in 0 .. Used'
  BY <1>2, Typed DEF SizeSafeForEndpoint
<1> QED BY <1>4, <1>5, <1>6, <1>7

\* Steps of the producer that store nothing the consumer reads.
LEMMA ProducerPrivateStep ==
  ASSUME IndInv, UNCHANGED <<capacity, consumerOnly, writeIdx, slots, pushed>>,
         TypeOK', ProducerLocals',
         readIdxCache' \in {readIdxCache, readIdx},
         psize' \in {psize, NoVal, usedSlots(writeIdx, readIdx)}
  PROVE  IndInv'
<1> USE DEF IndInv
<1>1. Used' = Used /\ Used \in Int /\ Usable' = Usable /\ Usable \in Int
  BY Typed DEF Used, Usable, consumerOnly
<1>2. RingHoldsUsed'
  BY <1>1 DEF RingHoldsUsed, usedSlots, SlotAt, consumerOnly
<1>3. freeSlots(writeIdx, readIdxCache)' <= Usable' - Used'
  <2>1. freeSlots(writeIdx, readIdx) = Usable - Used
    BY <1>1, Typed, FreeAndUsed DEF RingHoldsUsed
  <2>2. freeSlots(writeIdx, readIdxCache)' = freeSlots(writeIdx, readIdxCache')
    BY DEF freeSlots
  <2> QED BY <1>1, <2>1, <2>2 DEF CachesConservative
<1>4. psize' # NoVal => psize' \in Used' .. Usable'
  BY <1>1, Typed, FreeAndUsed DEF SizeSafeForEndpoint, RingHoldsUsed
<1>5. pushed' \in Nat /\ pushed <= pushed'
  BY Typed
<1> QED BY <1>2, <1>3, <1>4, <1>5, ConsumerSideKept DEF CachesConservative, SizeSafeForEndpoint

\* TypeOK is kept by a producer step if the producer's variables keep their types.
LEMMA ProducerTypes ==
  ASSUME TypeOK, UNCHANGED <<capacity, consumerOnly>>,
         writeIdx' \in Index, slots' \in [Index -> Int], pushed' \in Nat,
         ppc' \in {"idle", "try_refresh", "batch_refresh", "copy", "copying",
                   "publish", "size"},
         readIdxCache' \in Index, pn' \in Nat, pcount' \in Nat, pnext' \in Index,
         pret' \in Nat, psize' \in Int
  PROVE  TypeOK'
<1>1. Index' = Index
  BY DEF Index
<1> QED BY <1>1 DEF TypeOK, consumerOnly

\* try_push's fast path keeps the invariant: a free slot by the cached readIdx is free.
LEMMA TryPushInv ==
  ASSUME IndInv, TryPush, UNCHANGED <<capacity, consumerOnly>>
  PROVE  IndInv'
<1> USE DEF IndInv, TryPush
<1>1. NextIdx(writeIdx) = SlotAt(writeIdx, 1) /\ SlotAt(writeIdx, 1) \in Index
  BY Typed, MovedIndex
<1>2. TypeOK'
  <2>1. ppc' \in {"try_refresh", "copy"} /\ psize' \in Int
    BY DEF NoVal
  <2> QED BY <1>1, <2>1, ProducerTypes DEF TypeOK
<1>3. NextIdx(writeIdx) # readIdxCache => 1 <= freeSlots(writeIdx, readIdxCache)
  BY Typed DEF NextIdx, freeSlots, Index
<1>4. ProducerLocals'
  BY <1>1, <1>3 DEF ProducerLocals, SlotAt, freeSlots
<1> QED BY <1>2, <1>4, ProducerPrivateStep

\* try_push's reload of readIdx keeps it: the fresh index bounds the free slots exactly.
LEMMA TryPushRefreshInv ==
  ASSUME IndInv, TryPushRefresh, UNCHANGED <<capacity, consumerOnly>>
  PROVE  IndInv'
<1> USE DEF IndInv, TryPushRefresh, ProducerReturns
<1>1. pnext = NextIdx(writeIdx)
  BY Typed, MovedIndex DEF ProducerLocals
<1>2. TypeOK'
  <2>1. UNCHANGED <<writeIdx, slots, pushed, psize>> /\ readIdxCache' = readIdx
    OBVIOUS
  <2>2. /\ pn' \in {0, pn} /\ pcount' \in {0, pcount} /\ pnext' \in {0, pnext}
        /\ pret' \in {0, pret} /\ ppc' \in {"idle", "copy"}
    OBVIOUS
  <2>3. 0 \in Index
    BY Typed DEF Index
  <2>4. /\ pn \in Nat /\ pcount \in Nat /\ pnext \in Index /\ pret \in Nat
        /\ psize \in Int /\ pushed \in Nat /\ slots \in [Index -> Int]
        /\ writeIdx \in Index /\ readIdx \in Index
    BY DEF TypeOK
  <2> HIDE DEF IndInv, TryPushRefresh
  <2>5. TypeOK
    BY DEF IndInv
  <2>6. /\ pn' \in Nat /\ pcount' \in Nat /\ pnext' \in Index /\ pret' \in Nat
    BY <2>2, <2>3, <2>4
  <2> QED BY <2>1, <2>2, <2>4, <2>5, <2>6, ProducerTypes
<1>3. pnext # readIdx => 1 <= freeSlots(writeIdx, readIdx)
  BY <1>1, Typed DEF NextIdx, freeSlots, Index
<1>4. ProducerLocals'
  BY <1>1, <1>3 DEF ProducerLocals, SlotAt, freeSlots
<1> QED BY <1>2, <1>4, ProducerPrivateStep

\* push_n(src, 0) returns at once and keeps it.
LEMMA PushNZeroInv ==
  ASSUME IndInv, PushNZero, UNCHANGED <<capacity, consumerOnly>>
  PROVE  IndInv'
<1> USE DEF IndInv, PushNZero
<1>1. TypeOK'
  <2>1. psize' \in Int
    BY DEF NoVal
  <2> QED BY <2>1, ProducerTypes DEF TypeOK
<1>2. ProducerLocals'
  BY DEF ProducerLocals, SlotAt, freeSlots
<1> QED BY <1>1, <1>2, ProducerPrivateStep

\* push_n's test against the cached readIdx keeps it.
LEMMA PushNInv ==
  ASSUME IndInv, NEW n \in 1 .. MaxBatch, PushN(n), UNCHANGED <<capacity, consumerOnly>>
  PROVE  IndInv'
<1> USE DEF IndInv, PushN
<1>1. n \in Nat /\ n >= 1
  BY BoundsAssumption
<1>2. freeSlots(writeIdx, readIdxCache) >= n =>
        WrapIdx(writeIdx, n) = SlotAt(writeIdx, n) /\ SlotAt(writeIdx, n) \in Index
  <2>1. freeSlots(writeIdx, readIdxCache) \in 0 .. Usable
    BY Typed, FreeAndUsed
  <2>2. freeSlots(writeIdx, readIdxCache) >= n => n \in 0 .. Usable
    BY <1>1, <2>1, Typed
  <2> QED BY <2>2, Typed, MovedIndex
<1>3. TypeOK'
  <2>1. ppc' \in {"batch_refresh", "copy"} /\ psize' \in Int
    BY DEF NoVal
  <2> QED BY <1>1, <1>2, <2>1, ProducerTypes DEF TypeOK
<1>4. ProducerLocals'
  BY <1>1, <1>2, Typed, FreeAndUsed DEF ProducerLocals, SlotAt, freeSlots
<1> QED BY <1>3, <1>4, ProducerPrivateStep

\* push_n's reload and its cut of the batch to what fits keep it.
LEMMA PushNRefreshInv ==
  ASSUME IndInv, PushNRefresh, UNCHANGED <<capacity, consumerOnly>>
  PROVE  IndInv'
<1> DEFINE free  == freeSlots(writeIdx, readIdx)
           count == MinOf(pn, free)
<1> USE DEF IndInv, ProducerReturns
<1>1. pn \in Nat /\ pn >= 1 /\ free \in 0 .. Usable
  <2>1. pn \in Nat /\ pn >= 1
    BY DEF PushNRefresh, ProducerLocals, TypeOK
  <2> QED BY <2>1, Typed, FreeAndUsed
<1>2. free > 0 => /\ count \in 1 .. pn /\ count <= free /\ count \in 0 .. Usable
  BY <1>1, Typed DEF MinOf
<1>3. free > 0 => WrapIdx(writeIdx, count) = SlotAt(writeIdx, count)
                  /\ SlotAt(writeIdx, count) \in Index
  BY <1>2, Typed, MovedIndex
<1>4. \/ /\ free = 0 /\ ppc' = "idle" /\ pn' = 0 /\ pcount' = 0 /\ pnext' = 0 /\ pret' = 0
      \/ /\ free > 0 /\ ppc' = "copy" /\ pn' = pn /\ pcount' = count
         /\ pnext' = WrapIdx(writeIdx, count) /\ pret' = pret
  BY DEF PushNRefresh
<1>5. /\ readIdxCache' = readIdx /\ ppc = "batch_refresh"
      /\ UNCHANGED <<psize, writeIdx, slots, pushed>>
  BY DEF PushNRefresh
<1>6. freeSlots(writeIdx, readIdxCache)' = free
  BY <1>5 DEF freeSlots
<1> HIDE DEF free, count
<1>7. TypeOK'
  <2>1. /\ writeIdx' \in Index /\ slots' \in [Index -> Int] /\ pushed' \in Nat
        /\ readIdxCache' \in Index /\ pret \in Nat /\ psize' \in Int
    BY <1>5 DEF TypeOK
  <2>2. pn' \in Nat /\ pcount' \in Nat /\ pnext' \in Index /\ pret' \in Nat
    BY <1>1, <1>2, <1>3, <1>4, <2>1, Typed
  <2> QED BY <1>4, <2>1, <2>2, ProducerTypes
<1>8. ProducerLocals'
  BY <1>1, <1>2, <1>3, <1>4, <1>5, <1>6 DEF ProducerLocals, SlotAt
<1> QED BY <1>5, <1>7, <1>8, ProducerPrivateStep

\* size() by the producer keeps it: pops after its load of readIdx only make room.
LEMMA ProducerSizeInv ==
  ASSUME IndInv, ProducerSize \/ ProducerSizeReturn, UNCHANGED <<capacity, consumerOnly>>
  PROVE  IndInv'
<1> USE DEF IndInv, ProducerSize, ProducerSizeReturn
<1>1. usedSlots(writeIdx, readIdx) \in Int
  BY Typed, FreeAndUsed
<1>2. TypeOK'
  BY <1>1, ProducerTypes DEF TypeOK
<1>3. ProducerLocals'
  BY DEF ProducerLocals, SlotAt, freeSlots
<1> QED BY <1>2, <1>3, ProducerPrivateStep

\* The copies go to slots the invariant says nothing about yet.
LEMMA CopyKeepsRing ==
  ASSUME IndInv, ppc \in {"copy", "copying"}, slots' \in [Index -> Int],
         \A s \in Index \ Region(writeIdx, pcount) : slots'[s] = slots[s],
         UNCHANGED <<capacity, consumerOnly, writeIdx, pushed>>
  PROVE  RingHoldsUsed'
<1> USE DEF IndInv
<1>1. pcount \in 0 .. Usable /\ pcount <= freeSlots(writeIdx, readIdx)
  <2>1. /\ freeSlots(writeIdx, readIdx) = Usable - Used
        /\ freeSlots(writeIdx, readIdxCache) \in 0 .. Usable
    BY Typed, FreeAndUsed DEF RingHoldsUsed
  <2>2. pcount \in Nat /\ pcount <= freeSlots(writeIdx, readIdxCache)
    BY DEF ProducerLocals, TypeOK
  <2> QED BY <2>1, <2>2, Typed DEF CachesConservative
<1>2. ASSUME NEW j \in 0 .. Used - 1
      PROVE  SlotAt(readIdx, j) \in Index \ Region(writeIdx, pcount)
  <2>1. Used \in 0 .. Usable /\ Used = usedSlots(writeIdx, readIdx)
    BY Typed, FreeAndUsed DEF RingHoldsUsed
  <2>2. SlotAt(readIdx, j) \in Index
    <3>1. j \in 0 .. Usable
      BY <2>1, Typed
    <3> QED BY <3>1, Typed, MovedIndex
  <2>3. ASSUME SlotAt(readIdx, j) \in Region(writeIdx, pcount)
        PROVE  FALSE
    <3>1. PICK k \in 0 .. pcount - 1 : SlotAt(readIdx, j) = SlotAt(writeIdx, k)
      BY <1>1, <2>3, Typed, RegionIsRun
    <3>2. k \in 0 .. freeSlots(writeIdx, readIdx) - 1
      BY <1>1, Typed, FreeAndUsed
    <3> QED BY <2>1, <3>1, <3>2, Typed, FreeNotUsed
  <2> QED BY <2>2, <2>3
<1>3. Used' = Used /\ \A j : SlotAt(readIdx, j)' = SlotAt(readIdx, j)
  BY DEF Used, SlotAt, consumerOnly
<1>4. readIdx' = readIdx /\ popped' = popped
  BY DEF consumerOnly
<1>5. usedSlots(writeIdx, readIdx)' = usedSlots(writeIdx, readIdx)
  BY <1>4 DEF usedSlots
<1> QED BY <1>2, <1>3, <1>4, <1>5 DEF RingHoldsUsed

\* The memcpys of a push keep it: they touch no slot that holds a message.
LEMMA PushCopyInv ==
  ASSUME IndInv, PushCopyBegin \/ PushCopyEnd, UNCHANGED <<capacity, consumerOnly>>
  PROVE  IndInv'
<1> USE DEF IndInv
<1>1. /\ ppc \in {"copy", "copying"} /\ ppc' \in {"copying", "publish"}
      /\ UNCHANGED <<readIdxCache, pn, pcount, pnext, pret, psize, writeIdx, pushed>>
  BY DEF PushCopyBegin, PushCopyEnd
<1>2. pcount \in 0 .. Usable
  BY <1>1, Typed, FreeAndUsed DEF ProducerLocals
<1>3. /\ slots' \in [Index -> Int]
      /\ \A s \in Index \ Region(writeIdx, pcount) : slots'[s] = slots[s]
      /\ ppc' = "publish" =>
           \A j \in 0 .. pcount - 1 : slots'[SlotAt(writeIdx, j)] = pushed + j
  <2>1. CASE PushCopyBegin
    BY <2>1 DEF PushCopyBegin, Torn, TypeOK, Index
  <2>2. CASE PushCopyEnd
    <3>1. slots' = CopyIn(writeIdx, pcount, pushed) /\ writeIdx \in Index /\ pushed \in Nat
      BY <2>2, Typed DEF PushCopyEnd
    <3> QED BY <3>1, <1>2, CopyInEffect
  <2> QED BY <2>1, <2>2
<1>4. TypeOK'
  <2>1. /\ writeIdx' \in Index /\ pushed' \in Nat
        /\ readIdxCache' \in Index /\ pn' \in Nat /\ pcount' \in Nat
        /\ pnext' \in Index /\ pret' \in Nat /\ psize' \in Int
    BY <1>1 DEF TypeOK
  <2> QED BY <1>1, <1>3, <2>1, ProducerTypes
<1>5. RingHoldsUsed'
  BY <1>1, <1>3, CopyKeepsRing
<1>6. ProducerLocals'
  <2>1. freeSlots(writeIdx, readIdxCache)' = freeSlots(writeIdx, readIdxCache)
    BY <1>1 DEF freeSlots
  <2>2. \A i, j : SlotAt(i, j)' = SlotAt(i, j)
    BY DEF SlotAt
  <2> QED BY <1>1, <1>3, <2>1, <2>2 DEF ProducerLocals
<1>7. freeSlots(writeIdx, readIdxCache)' <= Usable' - Used'
  BY <1>1 DEF CachesConservative, freeSlots, Usable, Used, consumerOnly
<1>8. psize' # NoVal => psize' \in Used' .. Usable'
  BY <1>1 DEF ProducerLocals
<1> QED BY <1>1, <1>4, <1>5, <1>6, <1>7, <1>8, Typed, ConsumerSideKept
        DEF CachesConservative, SizeSafeForEndpoint

\* The store of writeIdx keeps it: the copied batch becomes the newest messages.
LEMMA PushPublishInv ==
  ASSUME IndInv, PushPublish, UNCHANGED <<capacity, consumerOnly>>
  PROVE  IndInv'
<1> USE DEF IndInv
<1>1. /\ ppc = "publish" /\ writeIdx' = pnext /\ pushed' = pushed + pcount
      /\ pret' = pcount /\ ppc' = "idle" /\ pn' = 0 /\ pcount' = 0 /\ pnext' = 0
      /\ UNCHANGED <<readIdxCache, psize, slots>>
      /\ readIdx' = readIdx /\ popped' = popped /\ capacity' = capacity
  BY DEF PushPublish, ProducerReturns, consumerOnly
<1>2. /\ pcount \in Nat /\ pcount >= 1 /\ pcount <= freeSlots(writeIdx, readIdxCache)
      /\ pnext = SlotAt(writeIdx, pcount) /\ pnext \in Index /\ psize = NoVal
  BY <1>1 DEF ProducerLocals, TypeOK
<1>3. /\ freeSlots(writeIdx, readIdx) = Usable - Used
      /\ freeSlots(writeIdx, readIdxCache) \in 0 .. Usable
      /\ Used \in 0 .. Usable /\ Used = usedSlots(writeIdx, readIdx)
  BY Typed, FreeAndUsed DEF RingHoldsUsed
<1>4. pcount \in 0 .. Usable /\ pcount <= freeSlots(writeIdx, readIdx)
  BY <1>2, <1>3, Typed DEF CachesConservative
<1>5. TypeOK'
  <2>1. /\ writeIdx' \in Index /\ slots' \in [Index -> Int] /\ pushed' \in Nat
        /\ readIdxCache' \in Index /\ pn' \in Nat /\ pcount' \in Nat
        /\ pnext' \in Index /\ pret' \in Nat /\ psize' \in Int
    BY <1>1, <1>2, Typed DEF TypeOK
  <2> QED BY <1>1, <2>1, ProducerTypes
<1>6. Used' = Used + pcount /\ Usable' = Usable
  BY <1>1, <1>2, Typed DEF Used, Usable
<1>7. RingHoldsUsed'
  <2>1. usedSlots(writeIdx, readIdx)' = usedSlots(SlotAt(writeIdx, pcount), readIdx)
    BY <1>1, <1>2 DEF usedSlots
  <2>2. usedSlots(SlotAt(writeIdx, pcount), readIdx) = Used + pcount
    BY <1>3, <1>4, Typed, AdvanceWrite
  <2>3. writeIdx = SlotAt(readIdx, Used)
    BY <1>3, Typed DEF usedSlots, SlotAt, Index
  <2>4. ASSUME NEW j \in 0 .. Used + pcount - 1
        PROVE  slots[SlotAt(readIdx, j)] = popped + j
    <3>1. CASE j < Used
      BY <3>1, <1>3 DEF RingHoldsUsed
    <3>2. CASE j >= Used
      <4>1. j - Used \in 0 .. pcount - 1
        BY <3>2, <1>2, Typed
      <4>2. SlotAt(writeIdx, j - Used) = SlotAt(readIdx, j)
        BY <4>1, <2>3, <1>3, <1>4, Typed, SlotAtShift
      <4>3. slots[SlotAt(writeIdx, j - Used)] = pushed + (j - Used)
        BY <4>1, <1>1 DEF ProducerLocals
      <4> QED BY <4>2, <4>3, <1>3, Typed DEF Used
    <3> QED BY <3>1, <3>2, <1>3, <1>2
  <2>5. ASSUME NEW j \in 0 .. Used' - 1
        PROVE  slots'[SlotAt(readIdx, j)'] = popped' + j
    <3>1. SlotAt(readIdx, j)' = SlotAt(readIdx, j)
      BY <1>1 DEF SlotAt
    <3>2. j \in 0 .. Used + pcount - 1
      BY <1>2, <1>6, Typed
    <3>3. slots[SlotAt(readIdx, j)] = popped + j
      BY <2>4, <3>2
    <3> QED BY <1>1, <3>1, <3>3
  <2>6. Used' = usedSlots(writeIdx, readIdx)'
    BY <1>6, <2>1, <2>2
  <2> QED BY <2>5, <2>6 DEF RingHoldsUsed
<1>8. freeSlots(writeIdx, readIdxCache)' <= Usable' - Used'
  <2>1. freeSlots(writeIdx, readIdxCache)' = freeSlots(SlotAt(writeIdx, pcount), readIdxCache)
    BY <1>1, <1>2 DEF freeSlots
  <2>2. freeSlots(SlotAt(writeIdx, pcount), readIdxCache)
          = freeSlots(writeIdx, readIdxCache) - pcount
    BY <1>2, <1>3, Typed, AdvanceWrite
  <2> QED BY <1>2, <1>3, <1>6, <2>1, <2>2, Typed DEF CachesConservative
<1>9. ProducerLocals'
  BY <1>1 DEF ProducerLocals
<1>10. psize' # NoVal => psize' \in Used' .. Usable'
  BY <1>1, <1>2 DEF NoVal
<1>11. pushed' \in Nat /\ pushed <= pushed'
  BY <1>1, <1>2, Typed
<1> QED BY <1>5, <1>7, <1>8, <1>9, <1>10, <1>11, ConsumerSideKept
        DEF CachesConservative, SizeSafeForEndpoint

-----------------------------------------------------------------------------
(* The consumer's steps keep IndInv. *)

\* A consumer step that keeps its variables' types keeps TypeOK.
LEMMA ConsumerTypes ==
  ASSUME TypeOK, UNCHANGED <<capacity, producerOnly>>,
         readIdx' \in Index, popped' \in Nat,
         cpc' \in {"idle", "front_refresh", "try_refresh", "try_copy", "try_release",
                   "batch_refresh", "batch_copy", "batch_release", "size"},
         writeIdxCache' \in Index, cn' \in Nat, ccount' \in Nat,
         dst' \in Seq(Int), out' \in Seq(Int), peek' \in BOOLEAN,
         cw' \in Index, csize' \in Int
  PROVE  TypeOK'
<1>1. Index' = Index
  BY DEF Index
<1> QED BY <1>1 DEF TypeOK, producerOnly

\* A consumer step keeps what the invariant says of the producer as long as it
\* puts no message into the ring.
LEMMA ProducerSideKept ==
  ASSUME IndInv, UNCHANGED <<capacity, producerOnly>>, popped' \in Nat, popped <= popped'
  PROVE  /\ ProducerLocals'
         /\ freeSlots(writeIdx, readIdxCache)' <= Usable' - Used'
         /\ psize' # NoVal => psize' \in Used' .. Usable'
<1> USE DEF IndInv, producerOnly
<1>1. Used' \in Int /\ Used' <= Used /\ Usable' = Usable
  BY Typed DEF Used, Usable
<1>2. /\ freeSlots(writeIdx, readIdxCache)' = freeSlots(writeIdx, readIdxCache)
      /\ freeSlots(writeIdx, readIdxCache) \in Int
  BY Typed, FreeAndUsed DEF freeSlots
<1>3. ProducerLocals'
  BY <1>2 DEF ProducerLocals, SlotAt
<1>4. freeSlots(writeIdx, readIdxCache)' <= Usable' - Used'
  BY <1>1, <1>2, Typed DEF CachesConservative
<1>5. psize' # NoVal => psize' \in Used' .. Usable'
  BY <1>1, Typed DEF SizeSafeForEndpoint
<1> QED BY <1>3, <1>4, <1>5

\* Steps of the consumer that store nothing the producer reads.
LEMMA ConsumerPrivateStep ==
  ASSUME IndInv, UNCHANGED <<capacity, producerOnly, readIdx, popped>>,
         TypeOK', ConsumerLocals', DeliveredInOrder',
         writeIdxCache' \in {writeIdxCache, writeIdx},
         csize' \in {csize, NoVal} \/ (cpc = "size" /\ csize' = usedSlots(cw, readIdx))
  PROVE  IndInv'
<1> USE DEF IndInv
<1>1. Used' = Used /\ Used \in Int
  BY Typed DEF Used, producerOnly
<1>2. RingHoldsUsed'
  BY <1>1 DEF RingHoldsUsed, usedSlots, SlotAt, producerOnly
<1>3. usedSlots(writeIdxCache, readIdx)' <= Used'
  <2>1. usedSlots(writeIdxCache, readIdx)' = usedSlots(writeIdxCache', readIdx)
    BY DEF usedSlots
  <2> QED BY <1>1, <2>1 DEF CachesConservative, RingHoldsUsed
<1>4. csize' # NoVal => csize' \in 0 .. Used'
  BY <1>1, Typed, FreeAndUsed DEF SizeSafeForEndpoint, ConsumerLocals
<1>5. popped' \in Nat /\ popped <= popped'
  BY Typed
<1> QED BY <1>2, <1>3, <1>4, <1>5, ProducerSideKept DEF CachesConservative, SizeSafeForEndpoint

\* The release store: the k oldest messages leave the ring.
LEMMA ReleaseStep ==
  ASSUME IndInv, UNCHANGED <<capacity, producerOnly, writeIdxCache>>,
         NEW k \in 1 .. usedSlots(writeIdxCache, readIdx),
         readIdx' = SlotAt(readIdx, k), popped' = popped + k,
         cpc' = "idle", cn' = 0, peek' = FALSE, csize' = NoVal, TypeOK'
  PROVE  IndInv'
<1> USE DEF IndInv
<1>1. /\ usedSlots(writeIdxCache, readIdx) \in 0 .. Usable
      /\ Used = usedSlots(writeIdx, readIdx) /\ Used \in 0 .. Usable
      /\ usedSlots(writeIdxCache, readIdx) <= Used
  BY Typed, FreeAndUsed DEF RingHoldsUsed, CachesConservative
<1>2. k \in 0 .. Usable /\ k <= Used /\ k >= 1
  BY <1>1, Typed
<1>3. Used' = Used - k
  BY <1>2, Typed DEF Used, producerOnly
<1>4. RingHoldsUsed'
  <2>1. usedSlots(writeIdx, readIdx)' = usedSlots(writeIdx, SlotAt(readIdx, k))
    BY DEF usedSlots, producerOnly
  <2>2. usedSlots(writeIdx, SlotAt(readIdx, k)) = Used - k
    BY <1>1, <1>2, Typed, AdvanceRead
  <2>3. ASSUME NEW j \in 0 .. Used' - 1
        PROVE  slots'[SlotAt(readIdx, j)'] = popped' + j
    <3>1. j + k \in 0 .. Used - 1 /\ j \in 0 .. Usable /\ k + j <= Usable
      BY <1>1, <1>2, <1>3, Typed
    <3>2. SlotAt(readIdx, j)' = SlotAt(SlotAt(readIdx, k), j)
      BY DEF SlotAt
    <3>3. SlotAt(SlotAt(readIdx, k), j) = SlotAt(readIdx, j + k)
      BY <1>2, <3>1, Typed, SlotAtShift
    <3>4. slots[SlotAt(readIdx, j + k)] = popped + (j + k)
      BY <3>1 DEF RingHoldsUsed
    <3>5. slots' = slots
      BY DEF producerOnly
    <3> QED BY <1>2, <3>1, <3>2, <3>3, <3>4, <3>5, Typed
  <2>4. Used' = usedSlots(writeIdx, readIdx)'
    BY <1>3, <2>1, <2>2
  <2> QED BY <2>3, <2>4 DEF RingHoldsUsed
<1>5. usedSlots(writeIdxCache, readIdx)' <= Used'
  <2>1. usedSlots(writeIdxCache, readIdx)' = usedSlots(writeIdxCache, SlotAt(readIdx, k))
    BY DEF usedSlots
  <2>2. usedSlots(writeIdxCache, SlotAt(readIdx, k)) = usedSlots(writeIdxCache, readIdx) - k
    BY <1>1, <1>2, Typed, AdvanceRead
  <2> QED BY <1>1, <1>2, <1>3, <2>1, <2>2, Typed
<1>6. ConsumerLocals' /\ DeliveredInOrder'
  BY DEF ConsumerLocals, DeliveredInOrder
<1>7. popped' \in Nat /\ popped <= popped'
  BY <1>2, Typed
<1> QED BY <1>4, <1>5, <1>6, <1>7, ProducerSideKept DEF CachesConservative, SizeSafeForEndpoint

\* front(), with or without its reload of writeIdx, keeps it.
LEMMA FrontInv ==
  ASSUME IndInv, Front \/ FrontRefresh, UNCHANGED <<capacity, producerOnly>>
  PROVE  IndInv'
<1> USE DEF IndInv
<1>1. /\ cpc \in {"idle", "front_refresh"} /\ cpc' \in {"idle", "front_refresh"}
      /\ writeIdxCache' \in {writeIdxCache, writeIdx}
      /\ csize' = NoVal
      /\ peek' => peek \/ readIdx # writeIdxCache'
      /\ cpc' = "front_refresh" => readIdx = writeIdxCache /\ peek' = peek
      /\ peek' = peek \/ peek' = TRUE
      /\ out' \in {out, <<>>, <<slots[readIdx]>>}
      /\ UNCHANGED <<cn, ccount, dst, cw, readIdx, popped>>
  BY DEF Front, FrontRefresh, ConsumerLocals
<1>2. cpc = "front_refresh" => ~peek
  BY DEF ConsumerLocals
<1>3. peek => readIdx # writeIdxCache
  BY DEF ConsumerLocals
<1>4. peek' => readIdx # writeIdxCache'
  BY <1>2, <1>3 DEF Front, FrontRefresh
<1>5. TypeOK'
  <2>1. slots[readIdx] \in Int
    BY DEF TypeOK
  <2>2. out' \in Seq(Int)
    <3>1. {out, <<>>, <<slots[readIdx]>>} \subseteq Seq(Int)
      BY <2>1 DEF TypeOK
    <3> QED BY <1>1, <3>1
  <2>3. peek' \in BOOLEAN
    BY <1>1 DEF TypeOK
  <2>4. /\ writeIdxCache' \in Index /\ cn' \in Nat /\ ccount' \in Nat /\ cw' \in Index
        /\ readIdx' \in Index /\ popped' \in Nat /\ dst' \in Seq(Int) /\ csize' \in Int
    BY <1>1 DEF TypeOK, NoVal
  <2> QED BY <1>1, <2>2, <2>3, <2>4, ConsumerTypes
<1>6. ConsumerLocals'
  BY <1>1, <1>3, <1>4 DEF ConsumerLocals
<1>7. DeliveredInOrder'
  BY <1>1 DEF DeliveredInOrder
<1> QED BY <1>1, <1>5, <1>6, <1>7, ConsumerPrivateStep

\* The store of readIdx, by pop() or at the end of try_pop and pop_n, keeps it: the
\* oldest messages leave the ring.
LEMMA PopInv ==
  ASSUME IndInv, Pop \/ TryPopRelease \/ PopNRelease, UNCHANGED <<capacity, producerOnly>>
  PROVE  IndInv'
<1> USE DEF IndInv
<1> DEFINE k == IF Pop THEN 1 ELSE ccount
<1>1. /\ cpc' = "idle" /\ cn' = 0 /\ csize' = NoVal /\ peek' = FALSE
      /\ UNCHANGED <<writeIdxCache, cw>>
      /\ out' \in {out, dst} /\ dst' \in {<<>>, dst} /\ ccount' \in {0, ccount}
  BY DEF Pop, TryPopRelease, PopNRelease, ConsumerReturns, ConsumerLocals, TypeOK
<1>2. usedSlots(writeIdxCache, readIdx) \in 0 .. Usable
  BY Typed, FreeAndUsed
<1>3. k \in 1 .. usedSlots(writeIdxCache, readIdx)
  <2>1. CASE Pop
    <3>1. readIdx # writeIdxCache
      BY <2>1 DEF Pop, ConsumerLocals
    <3>2. usedSlots(writeIdxCache, readIdx) # 0
      BY <3>1, Typed, FreeAndUsed
    <3> QED BY <2>1, <3>2, <1>2, Typed
  <2>2. CASE ~Pop
    <3>1. ccount >= 1 /\ ccount <= usedSlots(writeIdxCache, readIdx) /\ ccount \in Nat
      BY <2>2 DEF TryPopRelease, PopNRelease, ConsumerLocals, TypeOK
    <3> QED BY <2>2, <3>1, <1>2, Typed
  <2> QED BY <2>1, <2>2
<1>4. k \in 0 .. Usable
  BY <1>2, <1>3, Typed
<1>5. readIdx' = SlotAt(readIdx, k) /\ popped' = popped + k
  <2>1. NextIdx(readIdx) = SlotAt(readIdx, 1) /\ WrapIdx(readIdx, k) = SlotAt(readIdx, k)
    BY <1>4, Typed, MovedIndex
  <2>2. CASE Pop
    BY <2>1, <2>2 DEF Pop
  <2>3. CASE ~Pop /\ TryPopRelease
    BY <2>1, <2>3 DEF TryPopRelease, ConsumerLocals
  <2>4. CASE ~Pop /\ PopNRelease
    BY <2>1, <2>4 DEF PopNRelease
  <2> QED BY <2>2, <2>3, <2>4
<1> HIDE DEF k
<1>6. TypeOK'
  <2>1. readIdx' \in Index /\ popped' \in Nat
    BY <1>4, <1>5, Typed, MovedIndex
  <2>2. {out, dst, <<>>} \subseteq Seq(Int) /\ {0, ccount} \subseteq Nat
    BY DEF TypeOK
  <2>3. csize' \in Int /\ cn' \in Nat /\ writeIdxCache' \in Index /\ cw' \in Index
    BY <1>1, Typed DEF NoVal
  <2>4. dst' \in Seq(Int) /\ out' \in Seq(Int) /\ ccount' \in Nat
    BY <1>1, <2>2, Zenon
  <2>5. peek' \in BOOLEAN
    BY <1>1
  <2> QED BY <1>1, <2>1, <2>3, <2>4, <2>5, ConsumerTypes
<1> QED BY <1>1, <1>3, <1>5, <1>6, ReleaseStep

\* try_pop and pop_n up to their copy keep it, zero-length calls included.
LEMMA PopStartInv ==
  ASSUME IndInv, UNCHANGED <<capacity, producerOnly>>,
         TryPop \/ TryPopRefresh \/ PopNZero \/ PopNRefresh
           \/ (\E n \in 1 .. MaxBatch : PopN(n))
  PROVE  IndInv'
<1> USE DEF IndInv, ConsumerReturns
<1> DEFINE avail == usedSlots(writeIdxCache', readIdx)
<1>1. avail \in 0 .. Usable /\ (avail = 0 <=> readIdx = writeIdxCache')
  <2>1. writeIdxCache' \in {writeIdxCache, writeIdx}
    BY DEF TryPop, TryPopRefresh, PopNZero, PopN, PopNRefresh
  <2> QED BY <2>1, Typed, FreeAndUsed
<1>2. /\ cw' = cw /\ readIdx' = readIdx /\ popped' = popped
      /\ writeIdxCache' \in {writeIdxCache, writeIdx}
      /\ out' \in {out, <<>>} /\ dst' \in {dst, <<>>} /\ csize' = NoVal
  BY DEF TryPop, TryPopRefresh, PopNZero, PopN, PopNRefresh, ConsumerLocals
<1>0. /\ cn \in Nat /\ ccount \in Nat
      /\ cpc = "idle" => cn = 0
      /\ cpc = "try_refresh" => cn = 1 /\ ccount = 1
      /\ cpc = "batch_refresh" => cn >= 1
      /\ cpc \in {"try_refresh", "batch_refresh"} => peek = FALSE
  BY DEF ConsumerLocals, TypeOK
<1>3. /\ cpc' \in {"idle", "try_refresh", "try_copy", "batch_refresh", "batch_copy"}
      /\ cn' \in Nat /\ ccount' \in Nat
      /\ cpc' = "idle" => cn' = 0
      /\ cpc' # "idle" => cn' >= 1 /\ peek' = FALSE
      /\ cpc' \in {"try_refresh", "try_copy"} => cn' = 1 /\ ccount' = 1
      /\ cpc' \in {"try_copy", "batch_copy"} => ccount' \in 1 .. cn' /\ ccount' <= avail
      /\ peek' = FALSE \/ (peek' = peek /\ writeIdxCache' = writeIdxCache)
  <2>0. Usable \in Nat
    BY Typed
  <2> HIDE DEF IndInv
  <2>1. CASE TryPop
    <3>1. avail >= 1 \/ readIdx = writeIdxCache
      BY <1>1, <2>0, <2>1 DEF TryPop
    <3> HIDE DEF avail
    <3> QED BY <1>0, <1>1, <2>0, <2>1, <3>1 DEF TryPop
  <2>2. CASE TryPopRefresh
    <3>1. avail >= 1 \/ readIdx = writeIdx
      BY <1>1, <2>0, <2>2 DEF TryPopRefresh
    <3> HIDE DEF avail
    <3> QED BY <1>0, <1>1, <2>0, <2>2, <3>1 DEF TryPopRefresh
  <2>3. CASE PopNZero
    BY <1>0, <2>3 DEF PopNZero
  <2>4. ASSUME NEW n \in 1 .. MaxBatch, PopN(n)
        PROVE  <1>3!:
    <3>1. n \in Nat /\ n >= 1
      BY BoundsAssumption
    <3>2. avail = usedSlots(writeIdxCache, readIdx)
      BY <2>4 DEF PopN
    <3> HIDE DEF avail
    <3> QED BY <1>0, <1>1, <2>0, <2>4, <3>1, <3>2 DEF PopN
  <2>5. CASE PopNRefresh
    <3>1. avail = usedSlots(writeIdx, readIdx)
      BY <2>5 DEF PopNRefresh
    <3> HIDE DEF avail
    <3> QED BY <1>0, <1>1, <2>0, <2>5, <3>1 DEF PopNRefresh, MinOf
  <2> QED BY <2>1, <2>2, <2>3, <2>4, <2>5
<1>4. usedSlots(writeIdxCache, readIdx)' = avail
  BY <1>2 DEF usedSlots
<1> HIDE DEF avail
<1>5. TypeOK'
  <2>1. peek' \in BOOLEAN
    BY <1>3 DEF TypeOK
  <2>2. /\ readIdx' \in Index /\ popped' \in Nat /\ writeIdxCache' \in Index
        /\ cw' \in Index /\ csize' \in Int
    BY <1>2, Typed DEF NoVal
  <2>3. {out, dst, <<>>} \subseteq Seq(Int)
    BY DEF TypeOK
  <2>4. dst' \in Seq(Int) /\ out' \in Seq(Int)
    BY <1>2, <2>3
  <2> QED BY <1>3, <2>1, <2>2, <2>4, ConsumerTypes
<1>6. ConsumerLocals'
  BY <1>2, <1>3, <1>4 DEF ConsumerLocals
<1>7. DeliveredInOrder'
  BY <1>3 DEF DeliveredInOrder
<1> QED BY <1>2, <1>5, <1>6, <1>7, ConsumerPrivateStep

\* The memcpys of a pop keep it: the buffer gets the oldest messages in order.
LEMMA PopCopyInv ==
  ASSUME IndInv, TryPopCopy \/ PopNCopy, UNCHANGED <<capacity, producerOnly>>
  PROVE  IndInv'
<1> USE DEF IndInv
<1>1. /\ cpc \in {"try_copy", "batch_copy"}
      /\ cpc = "try_copy" => cpc' = "try_release"
      /\ cpc = "batch_copy" => cpc' = "batch_release"
      /\ UNCHANGED <<writeIdxCache, cn, ccount, cw, out, peek, csize, readIdx, popped>>
  BY DEF TryPopCopy, PopNCopy
<1>2. /\ usedSlots(writeIdxCache, readIdx) \in 0 .. Usable
      /\ Used \in 0 .. Usable /\ usedSlots(writeIdxCache, readIdx) <= Used
  BY Typed, FreeAndUsed DEF RingHoldsUsed, CachesConservative
<1>3. ccount \in 1 .. Usable /\ ccount <= Used
  <2>1. ccount \in Nat /\ ccount >= 1 /\ ccount <= usedSlots(writeIdxCache, readIdx)
    BY <1>1 DEF ConsumerLocals, TypeOK
  <2> QED BY <2>1, <1>2, Typed
<1>4. /\ dst' \in Seq(Int) /\ Len(dst') = ccount
      /\ \A i \in 1 .. ccount : dst'[i] = slots[SlotAt(readIdx, i - 1)]
  <2>1. CASE TryPopCopy
    <3>1. dst' = <<slots[readIdx]>> /\ ccount = 1
      BY <2>1 DEF TryPopCopy, ConsumerLocals
    <3>2. SlotAt(readIdx, 0) = readIdx /\ slots[readIdx] \in Int
      BY DEF SlotAt, TypeOK, Index
    <3> QED BY <3>1, <3>2
  <2>2. CASE PopNCopy
    <3>1. dst' = CopyOut(readIdx, ccount) /\ ccount \in 0 .. Usable
      BY <2>2, <1>3, Typed DEF PopNCopy
    <3> QED BY <3>1, Typed, CopyOutEffect
  <2> QED BY <2>1, <2>2
<1>5. \A i \in 1 .. ccount : dst'[i] = popped + (i - 1)
  <2> SUFFICES ASSUME NEW i \in 1 .. ccount PROVE dst'[i] = popped + (i - 1)
    OBVIOUS
  <2>1. i - 1 \in 0 .. Used - 1
    BY <1>3, Typed
  <2> QED BY <1>4, <2>1 DEF RingHoldsUsed
<1>6. TypeOK'
  <2>1. /\ readIdx' \in Index /\ popped' \in Nat /\ writeIdxCache' \in Index
        /\ cn' \in Nat /\ ccount' \in Nat /\ out' \in Seq(Int)
        /\ cw' \in Index /\ csize' \in Int
    BY <1>1 DEF TypeOK
  <2>2. peek' \in BOOLEAN
    BY <1>1 DEF TypeOK
  <2> QED BY <1>1, <1>4, <2>1, <2>2, ConsumerTypes
<1>7. ConsumerLocals'
  <2>1. /\ usedSlots(writeIdxCache, readIdx)' = usedSlots(writeIdxCache, readIdx)
    BY <1>1 DEF usedSlots
  <2> QED BY <1>1, <2>1 DEF ConsumerLocals
<1>8. DeliveredInOrder'
  BY <1>1, <1>4, <1>5 DEF DeliveredInOrder
<1> QED BY <1>1, <1>6, <1>7, <1>8, ConsumerPrivateStep

\* size() by the consumer keeps it: messages seen at its load of writeIdx stay.
LEMMA ConsumerSizeInv ==
  ASSUME IndInv, ConsumerSize \/ ConsumerSizeReturn, UNCHANGED <<capacity, producerOnly>>
  PROVE  IndInv'
<1> USE DEF IndInv
<1>1. usedSlots(cw, readIdx) \in Int
  BY Typed, FreeAndUsed
<1>2. /\ cpc \in {"idle", "size"} /\ cpc' \in {"idle", "size"} /\ cw' \in {writeIdx, 0}
      /\ csize' = csize \/ (cpc = "size" /\ csize' = usedSlots(cw, readIdx))
      /\ UNCHANGED <<writeIdxCache, cn, ccount, dst, out, peek, readIdx, popped>>
      /\ cpc' = "size" => cw' = writeIdx
  BY DEF ConsumerSize, ConsumerSizeReturn
<1>3. TypeOK'
  <2>1. /\ readIdx' \in Index /\ popped' \in Nat /\ writeIdxCache' \in Index
        /\ cn' \in Nat /\ ccount' \in Nat /\ out' \in Seq(Int) /\ dst' \in Seq(Int)
    BY <1>2 DEF TypeOK
  <2>2. cw' \in Index /\ csize' \in Int
    BY <1>1, <1>2, Typed
  <2>3. peek' \in BOOLEAN
    BY <1>2 DEF TypeOK
  <2> QED BY <1>2, <2>1, <2>2, <2>3, ConsumerTypes
<1>4. ConsumerLocals'
  <2>1. cpc' = "size" => usedSlots(cw, readIdx)' <= Used'
    <3>1. Used' = Used /\ Used \in Int
      BY <1>2, Typed DEF Used, producerOnly
    <3>2. cpc' = "size" => usedSlots(cw, readIdx)' = usedSlots(writeIdx, readIdx)
      BY <1>2 DEF usedSlots
    <3> QED BY <3>1, <3>2 DEF RingHoldsUsed
  <2> QED BY <1>2, <2>1 DEF ConsumerLocals
<1>5. DeliveredInOrder'
  BY <1>2 DEF DeliveredInOrder
<1> QED BY <1>2, <1>3, <1>4, <1>5, ConsumerPrivateStep

-----------------------------------------------------------------------------
(* The theorems. *)

\* IndInv is inductive.
LEMMA NextInv == IndInv /\ [Next]_vars => IndInv'
<1> SUFFICES ASSUME IndInv, [Next]_vars PROVE IndInv'
  OBVIOUS
<1>1. CASE UNCHANGED vars
  <2> USE <1>1 DEF vars, producerOnly, consumerOnly, IndInv
  <2>1. TypeOK'
    BY DEF TypeOK, Index
  <2>2. RingHoldsUsed' /\ CachesConservative'
    BY DEF RingHoldsUsed, CachesConservative, Used, Usable, usedSlots, freeSlots, SlotAt
  <2>3. ProducerLocals'
    BY DEF ProducerLocals, freeSlots, SlotAt
  <2>4. ConsumerLocals'
    BY DEF ConsumerLocals, Used, usedSlots
  <2>5. DeliveredInOrder' /\ SizeSafeForEndpoint'
    BY DEF DeliveredInOrder, SizeSafeForEndpoint, Used, Usable
  <2> QED BY <2>1, <2>2, <2>3, <2>4, <2>5
<1>2. CASE (ProducerCalls \/ ProducerCarries) /\ UNCHANGED <<capacity, consumerOnly>>
  BY <1>2, TryPushInv, TryPushRefreshInv, PushNZeroInv, PushNInv, PushNRefreshInv,
     PushCopyInv, PushPublishInv, ProducerSizeInv
     DEF ProducerCalls, ProducerCarries
<1>3. CASE (ConsumerCalls \/ ConsumerCarries) /\ UNCHANGED <<capacity, producerOnly>>
  BY <1>3, FrontInv, PopInv, PopStartInv, PopCopyInv, ConsumerSizeInv
     DEF ConsumerCalls, ConsumerCarries
<1> QED BY <1>1, <1>2, <1>3 DEF Next

\* The inductive invariant holds in every state of the ring.
THEOREM RingInvariant == Spec => []IndInv
  BY InitInv, NextInv, PTL DEF Spec

\* Indices, cached indices and slots keep their types: no index ever leaves
\* 0 .. capacity - 1, so no copy runs off the slots.
THEOREM TypeCorrect == Spec => []TypeOK
<1>1. IndInv => TypeOK
  BY DEF IndInv
<1> QED BY <1>1, RingInvariant, PTL

\* What try_pop and pop_n hand out are the next messages in sending order, for
\* every capacity and batch size.
THEOREM Delivery == Spec => []DeliveredInOrder
<1>1. IndInv => DeliveredInOrder
  BY DEF IndInv
<1> QED BY <1>1, RingInvariant, PTL

\* A cached index never promises a slot or a message that is not there.
THEOREM CachesSafe == Spec => []CachesConservative
<1>1. IndInv => CachesConservative
  BY DEF IndInv
<1> QED BY <1>1, RingInvariant, PTL

\* An endpoint may rely on its own size() until its next call.
THEOREM SizeSafe == Spec => []SizeSafeForEndpoint
<1>1. IndInv => SizeSafeForEndpoint
  BY DEF IndInv
<1> QED BY <1>1, RingInvariant, PTL

\* The pointer from front() shows the oldest message until pop().
THEOREM FrontStable == Spec => []PeekStable
<1>1. IndInv => PeekStable
  <2> SUFFICES ASSUME IndInv, peek PROVE slots[readIdx] = popped
    BY DEF PeekStable
  <2> USE DEF IndInv
  <2>1. usedSlots(writeIdxCache, readIdx) \in 0 .. Usable /\ usedSlots(writeIdxCache, readIdx) # 0
    BY Typed, FreeAndUsed DEF ConsumerLocals
  <2>2. 0 \in 0 .. Used - 1
    BY <2>1, Typed DEF CachesConservative
  <2>3. SlotAt(readIdx, 0) = readIdx
    BY DEF SlotAt, TypeOK, Index
  <2> QED BY <2>2, <2>3, Typed DEF RingHoldsUsed
<1> QED BY <1>1, RingInvariant, PTL

\* The debug assertion of pop() never fires.
THEOREM PopNeverOnEmpty == Spec => []PopAssert
<1>1. IndInv => PopAssert
  <2> SUFFICES ASSUME IndInv, peek \/ cpc = "try_release" PROVE writeIdx # readIdx
    BY DEF PopAssert
  <2> USE DEF IndInv
  <2>1. usedSlots(writeIdxCache, readIdx) \in 0 .. Usable /\ usedSlots(writeIdxCache, readIdx) # 0
    BY Typed, FreeAndUsed DEF ConsumerLocals
  <2>2. usedSlots(writeIdx, readIdx) # 0
    BY <2>1, Typed DEF CachesConservative, RingHoldsUsed
  <2> QED BY <2>2, Typed, FreeAndUsed
<1> QED BY <1>1, RingInvariant, PTL

\* The producer's memcpys and the consumer's reads never touch the same slot.
THEOREM SlotsNotShared == Spec => []NoSlotRace
<1>1. IndInv => NoSlotRace
  <2> SUFFICES ASSUME IndInv, NEW s \in Writing, s \in Reading PROVE FALSE
    BY DEF NoSlotRace
  <2> USE DEF IndInv
  <2>1. /\ freeSlots(writeIdx, readIdx) = Usable - Used
        /\ freeSlots(writeIdx, readIdxCache) \in 0 .. Usable
        /\ usedSlots(writeIdxCache, readIdx) \in 0 .. Usable
        /\ usedSlots(writeIdxCache, readIdx) <= Used
        /\ Used = usedSlots(writeIdx, readIdx) /\ Used \in 0 .. Usable
    BY Typed, FreeAndUsed DEF RingHoldsUsed, CachesConservative
  <2>2. \E k \in 0 .. freeSlots(writeIdx, readIdx) - 1 : s = SlotAt(writeIdx, k)
    <3>1. ppc \in {"copy", "copying"} /\ s \in Region(writeIdx, pcount)
      BY DEF Writing
    <3>2. /\ pcount \in Nat /\ pcount <= freeSlots(writeIdx, readIdxCache)
      BY <3>1 DEF ProducerLocals, TypeOK
    <3>3. pcount \in 0 .. Usable /\ pcount <= freeSlots(writeIdx, readIdx)
      BY <2>1, <3>2, Typed DEF CachesConservative
    <3>4. PICK k \in 0 .. pcount - 1 : s = SlotAt(writeIdx, k)
      BY <3>1, <3>3, Typed, RegionIsRun
    <3> QED BY <2>1, <3>3, <3>4, Typed
  <2>3. \E j \in 0 .. Used - 1 : s = SlotAt(readIdx, j)
    <3>1. CASE cpc \in {"try_copy", "batch_copy"} /\ s \in Region(readIdx, ccount)
      <4>1. /\ ccount \in Nat /\ ccount <= usedSlots(writeIdxCache, readIdx)
        BY <3>1 DEF ConsumerLocals, TypeOK
      <4>2. ccount \in 0 .. Usable /\ ccount <= Used
        BY <2>1, <4>1, Typed
      <4>3. PICK j \in 0 .. ccount - 1 : s = SlotAt(readIdx, j)
        BY <3>1, <4>2, Typed, RegionIsRun
      <4> QED BY <4>2, <4>3, Typed
    <3>2. CASE peek /\ s = readIdx
      <4>1. usedSlots(writeIdxCache, readIdx) # 0
        BY <3>2, Typed, FreeAndUsed DEF ConsumerLocals
      <4>2. 0 \in 0 .. Used - 1 /\ readIdx = SlotAt(readIdx, 0)
        BY <2>1, <4>1, Typed DEF SlotAt, Index
      <4> QED BY <3>2, <4>2
    <3> QED BY <3>1, <3>2 DEF Reading
  <2> QED BY <2>1, <2>2, <2>3, Typed, FreeNotUsed
<1> QED BY <1>1, RingInvariant, PTL

\* A push takes as many messages as fit when it decides, and gives up only on a
\* full ring, however stale its cached index was.
THEOREM PushExact == Spec => PushTakesWhatFits
<1> DEFINE A == /\ ppc # "copy" /\ ppc' = "copy" => pcount' = MinOf(pn', Usable - Used)
                /\ ppc \in {"try_refresh", "batch_refresh"} /\ ppc' = "idle" => Used = Usable
<1>1. IndInv /\ [Next]_vars => [A]_vars
  <2> SUFFICES ASSUME IndInv, Next PROVE A
    OBVIOUS
  <2> USE DEF IndInv
  <2>1. /\ freeSlots(writeIdx, readIdx) = Usable - Used
        /\ freeSlots(writeIdx, readIdxCache) \in 0 .. Usable
        /\ freeSlots(writeIdx, readIdxCache) <= Usable - Used
        /\ Used = usedSlots(writeIdx, readIdx) /\ Used \in 0 .. Usable
    BY Typed, FreeAndUsed DEF RingHoldsUsed, CachesConservative
  <2>2. /\ NextIdx(writeIdx) = readIdx <=> freeSlots(writeIdx, readIdx) = 0
        /\ NextIdx(writeIdx) = readIdxCache <=> freeSlots(writeIdx, readIdxCache) = 0
        /\ ppc = "try_refresh" => pnext = NextIdx(writeIdx) /\ pcount = 1 /\ pn = 1
    <3>1. ppc = "try_refresh" => pnext = NextIdx(writeIdx) /\ pcount = 1 /\ pn = 1
      BY Typed, MovedIndex DEF ProducerLocals
    <3> QED BY <3>1, Typed DEF NextIdx, freeSlots, Index
  <2>3. CASE TryPush
    BY <2>1, <2>2, <2>3, Typed DEF TryPush, MinOf
  <2>4. CASE TryPushRefresh
    BY <2>1, <2>2, <2>4, Typed DEF TryPushRefresh, ProducerReturns, MinOf
  <2>5. ASSUME NEW n \in 1 .. MaxBatch, PushN(n) PROVE A
    BY <2>1, <2>5, BoundsAssumption, Typed DEF PushN, MinOf
  <2>6. CASE PushNRefresh
    BY <2>1, <2>6, Typed DEF PushNRefresh, ProducerReturns
  <2>7. CASE PushNZero \/ ProducerSize \/ PushCopyBegin \/ PushCopyEnd \/ PushPublish
               \/ ProducerSizeReturn
    BY <2>7 DEF PushNZero, ProducerSize, PushCopyBegin, PushCopyEnd, PushPublish,
       ProducerReturns, ProducerSizeReturn
  <2>8. CASE UNCHANGED producerOnly
    BY <2>8 DEF producerOnly
  <2> QED BY <2>3, <2>4, <2>5, <2>6, <2>7, <2>8 DEF Next, ProducerCalls, ProducerCarries
<1> QED BY <1>1, RingInvariant, PTL DEF Spec, PushTakesWhatFits

\* A pop takes as many messages as are there when it decides, and comes back
\* empty-handed only from an empty ring.
THEOREM PopExact == Spec => PopTakesWhatIsThere
<1> DEFINE A ==
      /\ cpc \notin {"try_copy", "batch_copy"} /\ cpc' \in {"try_copy", "batch_copy"}
           => ccount' = MinOf(cn', Used)
      /\ cpc \in {"front_refresh", "try_refresh", "batch_refresh"} /\ cpc' = "idle"
           => (out' = <<>> <=> Used = 0)
<1>1. IndInv /\ [Next]_vars => [A]_vars
  <2> SUFFICES ASSUME IndInv, Next PROVE A
    OBVIOUS
  <2> USE DEF IndInv
  <2>1. /\ usedSlots(writeIdxCache, readIdx) \in 0 .. Usable
        /\ usedSlots(writeIdxCache, readIdx) <= Used
        /\ Used = usedSlots(writeIdx, readIdx) /\ Used \in 0 .. Usable
    BY Typed, FreeAndUsed DEF RingHoldsUsed, CachesConservative
  <2>2. /\ readIdx = writeIdx <=> Used = 0
        /\ readIdx = writeIdxCache <=> usedSlots(writeIdxCache, readIdx) = 0
        /\ cpc = "try_refresh" => cn = 1 /\ ccount = 1
        /\ <<slots[readIdx]>> # <<>>
    BY <2>1, Typed, FreeAndUsed DEF ConsumerLocals
  <2>3. CASE Front \/ FrontRefresh
    BY <2>2, <2>3 DEF Front, FrontRefresh
  <2>4. CASE TryPop
    BY <2>1, <2>2, <2>4, Typed DEF TryPop, MinOf
  <2>5. CASE TryPopRefresh
    BY <2>1, <2>2, <2>5, Typed DEF TryPopRefresh, ConsumerReturns, MinOf
  <2>6. ASSUME NEW n \in 1 .. MaxBatch, PopN(n) PROVE A
    BY <2>1, <2>6, BoundsAssumption, Typed DEF PopN, MinOf
  <2>7. CASE PopNRefresh
    BY <2>1, <2>7, Typed DEF PopNRefresh, ConsumerReturns
  <2>8. CASE Pop \/ PopNZero \/ ConsumerSize \/ TryPopCopy \/ TryPopRelease \/ PopNCopy
               \/ PopNRelease \/ ConsumerSizeReturn
    BY <2>8 DEF Pop, PopNZero, ConsumerSize, TryPopCopy, TryPopRelease, PopNCopy,
       PopNRelease, ConsumerReturns, ConsumerSizeReturn
  <2>9. CASE UNCHANGED consumerOnly
    BY <2>9 DEF consumerOnly
  <2> QED BY <2>3, <2>4, <2>5, <2>6, <2>7, <2>8, <2>9 DEF Next, ConsumerCalls, ConsumerCarries
<1> QED BY <1>1, RingInvariant, PTL DEF Spec, PopTakesWhatIsThere

=============================================================================
