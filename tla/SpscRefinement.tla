--------------------------- MODULE SpscRefinement ---------------------------
(***************************************************************************)
(* The ring implements BoundedFifo, for every capacity and batch size.     *)
(***************************************************************************)
EXTENDS SpscRingProofs

\* The n messages from number base on, in sending order.
Run(base, n) == [i \in 1 .. n |-> base + (i - 1)]

popAsk == IF cpc = "front_refresh" THEN 1 ELSE cn

\* A run of consecutive message numbers, as Contents is, is a sequence of its length.
LEMMA RunIsSeq ==
  ASSUME NEW base \in Nat, NEW n \in Nat
  PROVE  /\ Run(base, n) \in Seq(Nat)
         /\ Len(Run(base, n)) = n
         /\ \A i \in 1 .. n : Run(base, n)[i] = base + (i - 1)
         /\ Run(base, n) = <<>> <=> n = 0
<1>1. Run(base, n) \in Seq(Nat) /\ Len(Run(base, n)) = n
  BY DEF Run
<1> QED BY <1>1 DEF Run

\* What leaves the FIFO is a run, and what stays is the run after it.
LEMMA RunPrefix ==
  ASSUME NEW base \in Nat, NEW n \in Nat, NEW k \in 0 .. n
  PROVE  /\ SubSeq(Run(base, n), 1, k) = Run(base, k)
         /\ SubSeq(Run(base, n), k + 1, n) = Run(base + k, n - k)
  BY RunIsSeq DEF Run

\* Publishing k messages appends their numbers to the run in the ring.
LEMMA RunAppend ==
  ASSUME NEW base \in Nat, NEW n \in Nat, NEW k \in Nat
  PROVE  Run(base, n) \o Run(base + n, k) = Run(base, n + k)
  BY RunIsSeq DEF Run

\* The messages in the ring are the run from the oldest unreleased one on.
LEMMA ContentsIsRun == IndInv => Contents = Run(popped, Used) /\ Used \in Nat /\ Used <= Usable
<1> SUFFICES ASSUME IndInv PROVE Contents = Run(popped, Used) /\ Used \in Nat /\ Used <= Usable
  OBVIOUS
<1> USE DEF IndInv
<1>1. Used \in Nat /\ Used <= Usable
  BY Typed, FreeAndUsed DEF RingHoldsUsed
<1>2. ASSUME NEW i \in 1 .. Used PROVE slots[SlotAt(readIdx, i - 1)] = popped + (i - 1)
  <2>1. i - 1 \in 0 .. Used - 1
    BY <1>1
  <2> QED BY <2>1 DEF RingHoldsUsed
<1> QED BY <1>1, <1>2 DEF Contents, Run

\* The same of the state after a step.
LEMMA ContentsIsRunNext ==
  ASSUME IndInv'
  PROVE  Contents' = Run(popped', Used') /\ Used' \in Nat /\ Used' <= Usable'
<1>1. (Contents = Run(popped, Used) /\ Used \in Nat /\ Used <= Usable)'
  BY ContentsIsRun, PTL
<1>2. Run(popped, Used)' = Run(popped', Used')
  BY DEF Run
<1> QED BY <1>1, <1>2

\* create() leaves an empty FIFO.
LEMMA InitRefines == Init => Fifo!Init
<1> SUFFICES ASSUME Init PROVE Fifo!Init
  OBVIOUS
<1>1. IndInv
  BY InitInv
<1>2. Contents = <<>>
  BY <1>1, ContentsIsRun, RunIsSeq, Typed DEF Init, Used, IndInv
<1>3. Usable \in Nat \ {0}
  BY <1>1 DEF IndInv, TypeOK, Usable
<1> QED BY <1>2, <1>3 DEF Init, Fifo!Init

\* A producer step is a step of the FIFO's producer, or invisible.
LEMMA ProducerRefines ==
  ASSUME IndInv, IndInv', ProducerCalls \/ ProducerCarries,
         UNCHANGED <<capacity, consumerOnly>>
  PROVE  [Fifo!Next]_(Fifo!vars)
<1>1. /\ Contents = Run(popped, Used) /\ Contents' = Run(popped', Used')
      /\ Used \in Nat /\ Used' \in Nat /\ Used <= Usable /\ Used' <= Usable'
  BY ContentsIsRun, ContentsIsRunNext
<1> USE DEF IndInv
<1>2. /\ popped' = popped /\ Usable' = Usable /\ popAsk' = popAsk /\ out' = out
      /\ popped \in Nat /\ pushed \in Nat
  BY Typed DEF consumerOnly, Usable, popAsk
<1>3. pushed' = pushed => Contents' = Contents
  BY <1>1, <1>2 DEF Used
<1>4. ppc = "idle" => pn = 0
  BY DEF ProducerLocals
<1> USE DEF Fifo!Next, Fifo!vars
<1>5. CASE TryPush
  BY <1>2, <1>3, <1>4, <1>5 DEF TryPush, Fifo!PushCall, popAsk
<1>6. CASE \E n \in 1 .. MaxBatch : PushN(n)
  <2>1. pn = 0 /\ pn' \in Nat \ {0} /\ UNCHANGED <<pushed, pret>>
    BY <1>4, <1>6, BoundsAssumption DEF PushN
  <2> QED BY <1>2, <1>3, <2>1 DEF Fifo!PushCall, popAsk
<1>7. CASE PushNZero
  BY <1>2, <1>3, <1>4, <1>7 DEF PushNZero, Fifo!PushNothing, popAsk
<1>8. CASE ProducerSize \/ ProducerSizeReturn \/ PushCopyBegin \/ PushCopyEnd
  <2>1. UNCHANGED <<pn, pret, pushed>>
    BY <1>8 DEF ProducerSize, ProducerSizeReturn, PushCopyBegin, PushCopyEnd
  <2> QED BY <1>2, <1>3, <2>1 DEF popAsk
<1>9. CASE TryPushRefresh \/ PushNRefresh
  <2>1. CASE ppc' = "idle"
    <3>1. /\ pn >= 1 /\ pn' = 0 /\ pret' = 0 /\ pushed' = pushed
      BY <1>9, <2>1 DEF TryPushRefresh, PushNRefresh, ProducerReturns, ProducerLocals
    <3>2. Used = Usable
      <4>1. freeSlots(writeIdx, readIdx) = Usable - Used
        BY Typed, FreeAndUsed DEF RingHoldsUsed
      <4>2. CASE TryPushRefresh
        <5>1. NextIdx(writeIdx) = readIdx
          BY <4>2, <2>1, Typed, MovedIndex DEF TryPushRefresh, ProducerLocals
        <5>2. freeSlots(writeIdx, readIdx) = 0
          BY <5>1, Typed DEF NextIdx, freeSlots, Index
        <5> QED BY <4>1, <5>2, Typed
      <4>3. CASE PushNRefresh
        BY <4>1, <4>3, <2>1, Typed DEF PushNRefresh
      <4> QED BY <4>2, <4>3, <1>9
    <3>3. Len(Contents) = Usable
      BY <1>1, <1>2, <3>2, RunIsSeq
    <3> QED BY <1>2, <1>3, <3>1, <3>3 DEF Fifo!PushRefused, popAsk
  <2>2. CASE ppc' # "idle"
    <3>1. UNCHANGED <<pn, pret, pushed>>
      BY <1>9, <2>2 DEF TryPushRefresh, PushNRefresh, ProducerReturns
    <3> QED BY <1>2, <1>3, <3>1 DEF popAsk
  <2> QED BY <2>1, <2>2
<1>10. CASE PushPublish
  <2>1. /\ pushed' = pushed + pcount /\ pret' = pcount /\ pn' = 0
        /\ pcount \in 1 .. pn /\ pcount \in Nat /\ Used' = Used + pcount
    BY <1>2, <1>10, Typed DEF PushPublish, ProducerReturns, ProducerLocals, TypeOK, Used
  <2>2. pushed = popped + Used
    BY <1>2 DEF Used
  <2>3. Contents' = Contents \o Run(pushed, pcount)
    <3>1. Run(popped, Used) \o Run(popped + Used, pcount) = Run(popped, Used + pcount)
      <4>1. popped \in Nat /\ Used \in Nat /\ pcount \in Nat
        BY <1>1, <1>2, <2>1
      <4> QED BY <4>1, RunAppend
    <3> QED BY <1>1, <1>2, <2>1, <2>2, <3>1
  <2>4. Len(Contents) + pcount <= Usable
    BY <1>1, <1>2, <2>1, RunIsSeq
  <2> QED BY <1>2, <2>1, <2>3, <2>4 DEF Fifo!PushDone, popAsk, Run
<1> QED BY <1>5, <1>6, <1>7, <1>8, <1>9, <1>10 DEF ProducerCalls, ProducerCarries

\* A consumer step is a step of the FIFO's consumer, or invisible.
LEMMA ConsumerRefines ==
  ASSUME IndInv, IndInv', ConsumerCalls \/ ConsumerCarries,
         UNCHANGED <<capacity, producerOnly>>
  PROVE  [Fifo!Next]_(Fifo!vars)
<1>1. /\ Contents = Run(popped, Used) /\ Contents' = Run(popped', Used')
      /\ Used \in Nat /\ Used' \in Nat /\ Used <= Usable /\ Used' <= Usable'
  BY ContentsIsRun, ContentsIsRunNext
<1> USE DEF IndInv
<1>2. /\ pushed' = pushed /\ Usable' = Usable /\ pn' = pn /\ pret' = pret
      /\ popped \in Nat /\ pushed \in Nat
  BY Typed DEF producerOnly, Usable
<1>3. popped' = popped => Contents' = Contents
  BY <1>1, <1>2 DEF Used
<1>4. cpc \in {"idle", "size", "front_refresh"} => cn = 0
  BY DEF ConsumerLocals
<1>5. Contents = <<>> <=> readIdx = writeIdx
  <2>1. Used = 0 <=> readIdx = writeIdx
    BY Typed, FreeAndUsed DEF RingHoldsUsed
  <2> QED BY <1>1, <1>2, <2>1, RunIsSeq
<1>6. Contents # <<>> => Contents[1] = slots[readIdx]
  <2>1. readIdx # writeIdx => 1 \in 1 .. Used
    BY <1>1, Typed, FreeAndUsed DEF RingHoldsUsed
  <2>2. SlotAt(readIdx, 0) = readIdx
    BY Typed DEF SlotAt, Index
  <2> QED BY <1>5, <2>1, <2>2 DEF Contents
<1> USE DEF Fifo!Next, Fifo!vars
<1>7. CASE Front
  <2>1. UNCHANGED popped /\ cn' = 0 /\ cn = 0 /\ cpc = "idle"
    BY <1>4, <1>7 DEF Front
  <2>2. CASE readIdx # writeIdxCache
    <3>1. readIdx # writeIdx
      <4>1. usedSlots(writeIdxCache, readIdx) \in 0 .. Usable
            /\ usedSlots(writeIdxCache, readIdx) # 0
        BY <2>2, Typed, FreeAndUsed
      <4>2. usedSlots(writeIdx, readIdx) # 0
        BY <4>1, Typed DEF CachesConservative, RingHoldsUsed
      <4> QED BY <4>2, Typed, FreeAndUsed
    <3>2. out' = <<slots[readIdx]>> /\ cpc' = "idle"
      BY <1>7, <2>2 DEF Front
    <3> QED BY <1>2, <1>3, <1>5, <1>6, <2>1, <3>1, <3>2 DEF Fifo!Peek, popAsk
  <2>3. CASE readIdx = writeIdxCache
    <3>1. cpc' = "front_refresh" /\ out' = out
      BY <1>7, <2>3 DEF Front
    <3> QED BY <1>2, <1>3, <2>1, <3>1 DEF Fifo!PopCall, popAsk
  <2> QED BY <2>2, <2>3
<1>8. CASE FrontRefresh
  <2>1. UNCHANGED popped /\ cn' = 0 /\ cn = 0 /\ cpc = "front_refresh" /\ cpc' = "idle"
    BY <1>4, <1>8 DEF FrontRefresh
  <2>2. CASE readIdx = writeIdx
    <3>1. out' = <<>>
      BY <1>8, <2>2 DEF FrontRefresh
    <3> QED BY <1>2, <1>3, <1>5, <2>1, <2>2, <3>1 DEF Fifo!PopRefused, popAsk
  <2>3. CASE readIdx # writeIdx
    <3>1. out' = <<slots[readIdx]>>
      BY <1>8, <2>3 DEF FrontRefresh
    <3> QED BY <1>2, <1>3, <1>5, <1>6, <2>1, <2>3, <3>1 DEF Fifo!Peek, popAsk
  <2> QED BY <2>2, <2>3
<1>9. CASE Pop
  <2>1. /\ cpc = "idle" /\ cpc' = cpc /\ cn = 0 /\ cn' = cn /\ out' = out
        /\ popped' = popped + 1 /\ Used' = Used - 1
    BY <1>2, <1>4, <1>9, Typed DEF Pop, Used
  <2>2. Used >= 1 /\ Contents # <<>>
    BY <1>1, <1>2, <2>1, RunIsSeq, Typed
  <2>3. Contents' = SubSeq(Contents, 2, Len(Contents))
    <3>1. 1 \in 0 .. Used
      BY <1>1, <2>2
    <3>2. SubSeq(Run(popped, Used), 1 + 1, Used) = Run(popped + 1, Used - 1)
      BY <1>1, <1>2, <3>1, RunPrefix
    <3>3. Len(Contents) = Used /\ 1 + 1 = 2
      BY <1>1, <1>2, RunIsSeq
    <3> QED BY <1>1, <2>1, <3>2, <3>3
  <2> QED BY <1>2, <2>1, <2>2, <2>3 DEF Fifo!Discard, popAsk
<1>10. CASE TryPop \/ \E n \in 1 .. MaxBatch : PopN(n)
  <2>1. /\ cpc = "idle" /\ cn = 0 /\ cn' \in Nat \ {0} /\ cpc' # "front_refresh"
        /\ UNCHANGED <<out, popped>>
    BY <1>4, <1>10, BoundsAssumption DEF TryPop, PopN
  <2> QED BY <1>2, <1>3, <2>1 DEF Fifo!PopCall, popAsk
<1>11. CASE PopNZero
  <2>1. cpc = "idle" /\ cpc' = cpc /\ cn = 0 /\ cn' = cn /\ out' = <<>> /\ popped' = popped
    BY <1>4, <1>11 DEF PopNZero
  <2> QED BY <1>2, <1>3, <2>1 DEF Fifo!PopNothing, popAsk
<1>12. CASE ConsumerSize \/ ConsumerSizeReturn \/ TryPopCopy \/ PopNCopy
  <2>1. /\ UNCHANGED <<cn, out, popped>> /\ cpc # "front_refresh" /\ cpc' # "front_refresh"
    BY <1>12 DEF ConsumerSize, ConsumerSizeReturn, TryPopCopy, PopNCopy
  <2> QED BY <1>2, <1>3, <2>1 DEF popAsk
<1>13. CASE TryPopRefresh \/ PopNRefresh
  <2>1. CASE cpc' = "idle"
    <3>1. /\ cn >= 1 /\ cn' = 0 /\ out' = <<>> /\ popped' = popped
          /\ cpc # "front_refresh" /\ cpc' # "front_refresh"
      BY <1>13, <2>1 DEF TryPopRefresh, PopNRefresh, ConsumerReturns, ConsumerLocals
    <3>2. readIdx = writeIdx
      BY <1>13, <2>1, Typed, FreeAndUsed DEF TryPopRefresh, PopNRefresh
    <3> QED BY <1>2, <1>3, <1>5, <3>1, <3>2 DEF Fifo!PopRefused, popAsk
  <2>2. CASE cpc' # "idle"
    <3>1. UNCHANGED <<cn, out, popped>> /\ cpc # "front_refresh" /\ cpc' # "front_refresh"
      BY <1>13, <2>2 DEF TryPopRefresh, PopNRefresh, ConsumerReturns
    <3> QED BY <1>2, <1>3, <3>1 DEF popAsk
  <2> QED BY <2>1, <2>2
<1>14. CASE TryPopRelease \/ PopNRelease
  <2>1. /\ cpc \in {"try_release", "batch_release"} /\ cpc' = "idle" /\ cn' = 0 /\ out' = dst
        /\ ccount \in 1 .. cn /\ ccount \in Nat /\ popped' = popped + ccount
    <3>1. CASE TryPopRelease
      BY <3>1 DEF TryPopRelease, ConsumerReturns, ConsumerLocals
    <3>2. CASE PopNRelease
      <4>1. ccount \in Nat
        BY DEF TypeOK
      <4> QED BY <3>2, <4>1 DEF PopNRelease, ConsumerReturns, ConsumerLocals
    <3> QED BY <3>1, <3>2, <1>14
  <2>2. Used' = Used - ccount /\ ccount \in 0 .. Used
    BY <1>1, <1>2, <2>1 DEF Used
  <2>3. dst = Run(popped, ccount)
    <3>1. dst \in Seq(Int) /\ Len(dst) = ccount
          /\ \A i \in 1 .. ccount : dst[i] = popped + (i - 1)
      BY <2>1 DEF DeliveredInOrder, TypeOK
    <3> QED BY <1>2, <2>1, <3>1 DEF Run
  <2>4. /\ SubSeq(Contents, 1, ccount) = Run(popped, ccount)
        /\ SubSeq(Contents, ccount + 1, Len(Contents)) = Run(popped + ccount, Used - ccount)
        /\ Len(Contents) = Used
    <3>1. Len(Contents) = Used
      BY <1>1, <1>2, RunIsSeq
    <3>2. /\ SubSeq(Run(popped, Used), 1, ccount) = Run(popped, ccount)
          /\ SubSeq(Run(popped, Used), ccount + 1, Used) = Run(popped + ccount, Used - ccount)
      BY <1>1, <1>2, <2>2, RunPrefix
    <3> QED BY <1>1, <3>1, <3>2
  <2>5. Contents' = SubSeq(Contents, ccount + 1, Len(Contents))
    BY <1>1, <2>1, <2>2, <2>4
  <2> QED BY <1>2, <2>1, <2>2, <2>3, <2>4, <2>5 DEF Fifo!PopDone, popAsk
<1> QED BY <1>7, <1>8, <1>9, <1>10, <1>11, <1>12, <1>13, <1>14
        DEF ConsumerCalls, ConsumerCarries

\* Every behaviour of the ring is a behaviour of the bounded FIFO.
THEOREM Refinement == Spec => ImplementsFifo
<1>1. Init => Fifo!Init
  BY InitRefines
<1>2. IndInv /\ IndInv' /\ [Next]_vars => [Fifo!Next]_(Fifo!vars)
  <2> SUFFICES ASSUME IndInv, IndInv', [Next]_vars PROVE [Fifo!Next]_(Fifo!vars)
    OBVIOUS
  <2>1. CASE UNCHANGED vars
    BY <2>1 DEF vars, producerOnly, consumerOnly, Fifo!vars, Usable, Contents, Used, SlotAt
  <2>2. CASE Next
    BY <2>2, ProducerRefines, ConsumerRefines DEF Next
  <2> QED BY <2>1, <2>2
<1> QED BY <1>1, <1>2, RingInvariant, PTL DEF Spec, ImplementsFifo, Fifo!Spec

=============================================================================
