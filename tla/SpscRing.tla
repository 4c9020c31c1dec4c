------------------------------ MODULE SpscRing ------------------------------
(***************************************************************************)
(* The ring of ShmSpscQueue (include/shmspsc/ShmSpscQueue.h): one producer *)
(* handle and one consumer handle on one shared segment, after both have   *)
(* attached.  Every access to a word the other side writes is a step of    *)
(* its own.  Loads of a side's own index are merged with the step that     *)
(* uses them, because nobody else stores that index.  Message number k is  *)
(* the k-th message the producer sends, counted from 0, as Message::seq is *)
(* in the demo.                                                            *)
(***************************************************************************)
EXTENDS Integers, Sequences

CONSTANTS Requested,  \* capacities that create() may be asked for
          MaxBatch,   \* largest n passed to push_n and pop_n (bound)
          MaxMsgs     \* number of messages the producer sends (bound)

ASSUME RequestedAssumption == Requested \subseteq Nat
ASSUME BoundsAssumption == MaxBatch \in Nat /\ MaxMsgs \in Nat

VARIABLES
  \* The shared segment.
  capacity, writeIdx, readIdx, slots,
  \* The producer handle: program counter, cached peer index, locals of the call
  \* in progress, what the last push and the last size() returned.
  ppc, readIdxCache, pn, pcount, pnext, pret, psize,
  \* The consumer handle, likewise.  dst is the buffer a pop copies to, out what
  \* the last pop or front handed to the caller, peek says that front() returned
  \* a pointer that pop() has not released yet, cw is the first load of size().
  cpc, writeIdxCache, cn, ccount, dst, cw, out, peek, csize,
  \* History: messages published and messages released since create().
  pushed, popped

producerOnly == <<ppc, readIdxCache, pn, pcount, pnext, pret, psize, writeIdx,
                  slots, pushed>>
consumerOnly == <<cpc, writeIdxCache, cn, ccount, dst, cw, out, peek, csize,
                  readIdx, popped>>
vars == <<capacity, producerOnly, consumerOnly>>

Torn  == -1   \* a slot whose bytes are being copied, or were never written
NoVal == -1   \* no size() result at hand

MinOf(a, b) == IF a <= b THEN a ELSE b

-----------------------------------------------------------------------------
(* Index arithmetic and copies.  Definitions named X_Fault are X with one slip *)
(* of the kind the tests look for; the mutation runs put them in X's place.   *)

usedSlots_StrictCompare(w, r) == IF w > r THEN w - r ELSE w + capacity - r
usedSlots(w, r) == IF w >= r THEN w - r ELSE w + capacity - r

freeSlots_NoSlack(w, r) == IF r > w THEN r - w ELSE r + capacity - w
freeSlots(w, r) == (IF r > w THEN r - w ELSE r + capacity - w) - 1

NextIdx_NoWrap(i) == i + 1
NextIdx(i) == IF i + 1 = capacity THEN 0 ELSE i + 1

WrapIdx_OffByOne(i, k) == IF i + k > capacity THEN i + k - capacity ELSE i + k
WrapIdx(i, k) == IF i + k >= capacity THEN i + k - capacity ELSE i + k

\* Length of the first of the two memcpys of a batch; the second starts at slot
\* 0.  A single-item copy is a batch of one, which never wraps.
FirstRun(start, count) == MinOf(count, capacity - start)

Region(start, count) ==
  LET first == FirstRun(start, count)
  IN  {s \in 0 .. capacity - 1 : (start <= s /\ s < start + first) \/ s < count - first}

\* slots after messages base, base + 1, ... were copied to it from start on.
CopyIn_SecondRunFromSrc(start, count, base) ==
  LET first == FirstRun(start, count)
  IN  [s \in 0 .. capacity - 1 |->
         IF start <= s /\ s < start + first THEN base + (s - start)
         ELSE IF s < count - first THEN base + s ELSE slots[s]]

CopyIn(start, count, base) ==
  LET first == FirstRun(start, count)
  IN  [s \in 0 .. capacity - 1 |->
         IF start <= s /\ s < start + first THEN base + (s - start)
         ELSE IF s < count - first THEN base + (first + s) ELSE slots[s]]

\* The caller's buffer after count slots were copied to it from start on.
CopyOut(start, count) ==
  LET first == FirstRun(start, count)
  IN  [i \in 1 .. count |-> IF i <= first THEN slots[start + (i - 1)]
                            ELSE slots[(i - 1) - first]]

-----------------------------------------------------------------------------
(* create() and the two bind()s: an empty ring, both caches exact. *)

Init ==
  /\ \E c \in Requested : capacity = (IF c < 1 THEN 1 ELSE c) + 1
  /\ writeIdx = 0 /\ readIdx = 0
  /\ slots = [s \in 0 .. capacity - 1 |-> Torn]
  /\ ppc = "idle" /\ readIdxCache = 0
  /\ pn = 0 /\ pcount = 0 /\ pnext = 0 /\ pret = 0 /\ psize = NoVal
  /\ cpc = "idle" /\ writeIdxCache = 0
  /\ cn = 0 /\ ccount = 0 /\ dst = <<>> /\ cw = 0
  /\ out = <<>> /\ peek = FALSE /\ csize = NoVal
  /\ pushed = 0 /\ popped = 0

-----------------------------------------------------------------------------
(* Producer.  Every step leaves the consumer's variables alone (see Next). *)

ProducerReturns == ppc' = "idle" /\ pn' = 0 /\ pcount' = 0 /\ pnext' = 0

\* try_push up to the test against the cached read index.
TryPush ==
  /\ ppc = "idle"
  /\ pushed < MaxMsgs
  /\ pn' = 1 /\ pcount' = 1 /\ pnext' = NextIdx(writeIdx)
  /\ ppc' = IF NextIdx(writeIdx) = readIdxCache THEN "try_refresh" ELSE "copy"
  /\ psize' = NoVal
  /\ UNCHANGED <<readIdxCache, pret, writeIdx, slots, pushed>>

\* try_push's slow path: the acquire load of readIdx and the second test.
TryPushRefresh_Spins ==
  /\ ppc = "try_refresh"
  /\ readIdxCache' = readIdx
  /\ ppc' = IF pnext = readIdx THEN "try_refresh" ELSE "copy"
  /\ UNCHANGED <<pn, pcount, pnext, pret, psize, writeIdx, slots, pushed>>

TryPushRefresh ==
  /\ ppc = "try_refresh"
  /\ readIdxCache' = readIdx
  /\ \/ pnext = readIdx /\ ProducerReturns /\ pret' = 0
     \/ pnext # readIdx /\ ppc' = "copy" /\ UNCHANGED <<pn, pcount, pnext, pret>>
  /\ UNCHANGED <<psize, writeIdx, slots, pushed>>

\* push_n up to the test against the cached read index.
PushNZero ==
  /\ ppc = "idle"
  /\ pret' = 0 /\ psize' = NoVal
  /\ UNCHANGED <<ppc, readIdxCache, pn, pcount, pnext, writeIdx, slots, pushed>>

PushN(n) ==
  /\ ppc = "idle"
  /\ pushed + n <= MaxMsgs
  /\ pn' = n /\ psize' = NoVal
  /\ \/ /\ freeSlots(writeIdx, readIdxCache) < n
        /\ ppc' = "batch_refresh"
        /\ UNCHANGED <<pcount, pnext>>
     \/ /\ freeSlots(writeIdx, readIdxCache) >= n
        /\ pcount' = n /\ pnext' = WrapIdx(writeIdx, n)
        /\ ppc' = "copy"
  /\ UNCHANGED <<readIdxCache, pret, writeIdx, slots, pushed>>

\* push_n's slow path: reload readIdx, give up only if nothing fits.
PushNRefresh_KeepsStaleFree ==
  LET free == freeSlots(writeIdx, readIdxCache) IN
  /\ ppc = "batch_refresh"
  /\ readIdxCache' = readIdx
  /\ \/ free = 0 /\ ProducerReturns /\ pret' = 0
     \/ /\ free > 0
        /\ pcount' = MinOf(pn, free) /\ pnext' = WrapIdx(writeIdx, MinOf(pn, free))
        /\ ppc' = "copy"
        /\ UNCHANGED <<pn, pret>>
  /\ UNCHANGED <<psize, writeIdx, slots, pushed>>

PushNRefresh ==
  LET free == freeSlots(writeIdx, readIdx) IN
  /\ ppc = "batch_refresh"
  /\ readIdxCache' = readIdx
  /\ \/ free = 0 /\ ProducerReturns /\ pret' = 0
     \/ /\ free > 0
        /\ pcount' = MinOf(pn, free) /\ pnext' = WrapIdx(writeIdx, MinOf(pn, free))
        /\ ppc' = "copy"
        /\ UNCHANGED <<pn, pret>>
  /\ UNCHANGED <<psize, writeIdx, slots, pushed>>

\* The memcpys take time: until they are over the slots they touch hold no
\* message.
PushCopyBegin ==
  /\ ppc = "copy" /\ ppc' = "copying"
  /\ slots' = [s \in 0 .. capacity - 1 |->
                 IF s \in Region(writeIdx, pcount) THEN Torn ELSE slots[s]]
  /\ UNCHANGED <<readIdxCache, pn, pcount, pnext, pret, psize, writeIdx, pushed>>

PushCopyEnd ==
  /\ ppc = "copying" /\ ppc' = "publish"
  /\ slots' = CopyIn(writeIdx, pcount, pushed)
  /\ UNCHANGED <<readIdxCache, pn, pcount, pnext, pret, psize, writeIdx, pushed>>

\* The release store of writeIdx.
PushPublish ==
  /\ ppc = "publish"
  /\ writeIdx' = pnext
  /\ pushed' = pushed + pcount
  /\ pret' = pcount
  /\ ProducerReturns
  /\ UNCHANGED <<readIdxCache, psize, slots>>

\* size() and empty() called by the producer: its own writeIdx, then readIdx.
ProducerSize ==
  /\ ppc = "idle" /\ ppc' = "size"
  /\ UNCHANGED <<readIdxCache, pn, pcount, pnext, pret, psize, writeIdx, slots,
                 pushed>>

ProducerSizeReturn ==
  /\ ppc = "size" /\ ppc' = "idle"
  /\ psize' = usedSlots(writeIdx, readIdx)
  /\ UNCHANGED <<readIdxCache, pn, pcount, pnext, pret, writeIdx, slots, pushed>>

-----------------------------------------------------------------------------
(* Consumer.  Every step leaves the producer's variables alone (see Next). *)

ConsumerReturns == cpc' = "idle" /\ cn' = 0 /\ ccount' = 0 /\ dst' = <<>>

\* front(): the test against the cached write index, then the pointer to slot
\* readIdx, whose message the caller sees, or the slow path.
Front ==
  /\ cpc = "idle"
  /\ \/ readIdx # writeIdxCache /\ out' = <<slots[readIdx]>> /\ peek' = TRUE /\ UNCHANGED cpc
     \/ readIdx = writeIdxCache /\ cpc' = "front_refresh" /\ UNCHANGED <<out, peek>>
  /\ csize' = NoVal
  /\ UNCHANGED <<writeIdxCache, cn, ccount, dst, cw, readIdx, popped>>

FrontRefresh_NoRecheck ==
  /\ cpc = "front_refresh" /\ cpc' = "idle"
  /\ writeIdxCache' = writeIdx
  /\ out' = <<slots[readIdx]>> /\ peek' = TRUE
  /\ UNCHANGED <<cn, ccount, dst, cw, csize, readIdx, popped>>

FrontRefresh ==
  /\ cpc = "front_refresh" /\ cpc' = "idle"
  /\ writeIdxCache' = writeIdx
  /\ \/ readIdx = writeIdx /\ out' = <<>> /\ UNCHANGED peek
     \/ readIdx # writeIdx /\ out' = <<slots[readIdx]>> /\ peek' = TRUE
  /\ UNCHANGED <<cn, ccount, dst, cw, csize, readIdx, popped>>

\* pop(), which its caller may only call after front() returned a pointer.
Pop ==
  /\ cpc = "idle"
  /\ peek /\ peek' = FALSE
  /\ readIdx' = NextIdx(readIdx)
  /\ popped' = popped + 1
  /\ csize' = NoVal
  /\ UNCHANGED <<cpc, writeIdxCache, cn, ccount, dst, cw, out>>

\* try_pop up to front()'s test against the cached write index.
TryPop ==
  /\ cpc = "idle"
  /\ cpc' = IF readIdx = writeIdxCache THEN "try_refresh" ELSE "try_copy"
  /\ cn' = 1 /\ ccount' = 1
  /\ peek' = FALSE /\ csize' = NoVal
  /\ UNCHANGED <<writeIdxCache, dst, cw, out, readIdx, popped>>

TryPopRefresh ==
  /\ cpc = "try_refresh"
  /\ writeIdxCache' = writeIdx
  /\ \/ readIdx = writeIdx /\ ConsumerReturns /\ out' = <<>>
     \/ readIdx # writeIdx /\ cpc' = "try_copy" /\ UNCHANGED <<cn, ccount, dst, out>>
  /\ UNCHANGED <<cw, peek, csize, readIdx, popped>>

TryPopCopy ==
  /\ cpc = "try_copy" /\ cpc' = "try_release"
  /\ dst' = <<slots[readIdx]>>
  /\ UNCHANGED <<writeIdxCache, cn, ccount, cw, out, peek, csize, readIdx, popped>>

\* The pop() at the end of try_pop: the release store of readIdx.
TryPopRelease ==
  /\ cpc = "try_release"
  /\ readIdx' = NextIdx(readIdx)
  /\ popped' = popped + 1
  /\ out' = dst
  /\ ConsumerReturns
  /\ UNCHANGED <<writeIdxCache, cw, peek, csize>>

\* pop_n up to the test against the cached write index.
PopNZero ==
  /\ cpc = "idle"
  /\ out' = <<>> /\ csize' = NoVal
  /\ UNCHANGED <<cpc, writeIdxCache, cn, ccount, dst, cw, peek, readIdx, popped>>

PopN(n) ==
  /\ cpc = "idle"
  /\ cn' = n /\ peek' = FALSE /\ csize' = NoVal
  /\ \/ /\ usedSlots(writeIdxCache, readIdx) < n
        /\ cpc' = "batch_refresh"
        /\ UNCHANGED ccount
     \/ /\ usedSlots(writeIdxCache, readIdx) >= n
        /\ cpc' = "batch_copy"
        /\ ccount' = n
  /\ UNCHANGED <<writeIdxCache, dst, cw, out, readIdx, popped>>

PopNRefresh_KeepsStaleAvail ==
  LET avail == usedSlots(writeIdxCache, readIdx) IN
  /\ cpc = "batch_refresh"
  /\ writeIdxCache' = writeIdx
  /\ \/ avail = 0 /\ ConsumerReturns /\ out' = <<>>
     \/ /\ avail > 0
        /\ cpc' = "batch_copy" /\ ccount' = MinOf(cn, avail)
        /\ UNCHANGED <<cn, dst, out>>
  /\ UNCHANGED <<cw, peek, csize, readIdx, popped>>

PopNRefresh ==
  LET avail == usedSlots(writeIdx, readIdx) IN
  /\ cpc = "batch_refresh"
  /\ writeIdxCache' = writeIdx
  /\ \/ avail = 0 /\ ConsumerReturns /\ out' = <<>>
     \/ /\ avail > 0
        /\ cpc' = "batch_copy" /\ ccount' = MinOf(cn, avail)
        /\ UNCHANGED <<cn, dst, out>>
  /\ UNCHANGED <<cw, peek, csize, readIdx, popped>>

PopNCopy ==
  /\ cpc = "batch_copy" /\ cpc' = "batch_release"
  /\ dst' = CopyOut(readIdx, ccount)
  /\ UNCHANGED <<writeIdxCache, cn, ccount, cw, out, peek, csize, readIdx, popped>>

PopNRelease ==
  /\ cpc = "batch_release"
  /\ readIdx' = WrapIdx(readIdx, ccount)
  /\ popped' = popped + ccount
  /\ out' = dst
  /\ ConsumerReturns
  /\ UNCHANGED <<writeIdxCache, cw, peek, csize>>

\* size() and empty() called by the consumer: writeIdx, then its own readIdx.
ConsumerSize ==
  /\ cpc = "idle" /\ cpc' = "size"
  /\ cw' = writeIdx
  /\ UNCHANGED <<writeIdxCache, cn, ccount, dst, out, peek, csize, readIdx, popped>>

ConsumerSizeReturn ==
  /\ cpc = "size" /\ cpc' = "idle"
  /\ csize' = usedSlots(cw, readIdx) /\ cw' = 0
  /\ UNCHANGED <<writeIdxCache, cn, ccount, dst, out, peek, readIdx, popped>>

-----------------------------------------------------------------------------
(* Callers begin a call when they please; a call once begun is carried on. *)

ProducerCalls   == TryPush \/ PushNZero \/ (\E n \in 1 .. MaxBatch : PushN(n)) \/ ProducerSize
ProducerCarries == \/ TryPushRefresh \/ PushNRefresh \/ PushCopyBegin
                   \/ PushCopyEnd \/ PushPublish \/ ProducerSizeReturn
ConsumerCalls   == \/ Front \/ Pop \/ TryPop \/ PopNZero
                   \/ (\E n \in 1 .. MaxBatch : PopN(n)) \/ ConsumerSize
ConsumerCarries == \/ FrontRefresh \/ TryPopRefresh \/ TryPopCopy \/ TryPopRelease
                   \/ PopNRefresh \/ PopNCopy \/ PopNRelease \/ ConsumerSizeReturn

Next == \/ (ProducerCalls \/ ProducerCarries) /\ UNCHANGED <<capacity, consumerOnly>>
        \/ (ConsumerCalls \/ ConsumerCarries) /\ UNCHANGED <<capacity, producerOnly>>

Fairness == /\ WF_vars(ProducerCarries /\ UNCHANGED <<capacity, consumerOnly>>)
            /\ WF_vars(ConsumerCarries /\ UNCHANGED <<capacity, producerOnly>>)

Spec == Init /\ [][Next]_vars /\ Fairness

-----------------------------------------------------------------------------
(* Properties. *)

Used   == pushed - popped
Usable == capacity - 1
Index  == 0 .. capacity - 1

TypeOK ==
  /\ capacity \in Nat /\ capacity >= 2
  /\ writeIdx \in Index /\ readIdx \in Index
  /\ slots \in [Index -> Int]
  /\ ppc \in {"idle", "try_refresh", "batch_refresh", "copy", "copying",
              "publish", "size"}
  /\ readIdxCache \in Index
  /\ pn \in Nat /\ pcount \in Nat /\ pnext \in Index /\ pret \in Nat
  /\ psize \in Int
  /\ cpc \in {"idle", "front_refresh", "try_refresh", "try_copy", "try_release",
              "batch_refresh", "batch_copy", "batch_release", "size"}
  /\ writeIdxCache \in Index
  /\ cn \in Nat /\ ccount \in Nat
  /\ dst \in Seq(Int) /\ out \in Seq(Int)
  /\ peek \in BOOLEAN
  /\ cw \in Index /\ csize \in Int
  /\ pushed \in Nat /\ popped \in Nat

\* What a pop is about to hand to its caller is the next messages in sending
\* order: no gap, duplicate, reordering or half-copied message.  This is the
\* check testCrossProcess makes on every message (test_queue.cpp:676).
DeliveredInOrder ==
  cpc \in {"try_release", "batch_release"} =>
    /\ Len(dst) = ccount
    /\ \A i \in 1 .. ccount : dst[i] = popped + (i - 1)

\* The pointer returned by front() keeps pointing at the oldest unreleased
\* message, whatever the producer does, until pop().
PeekStable == peek => slots[readIdx] = popped

\* Slots the producer's memcpys write and slots the consumer reads (through
\* its memcpys or the front() pointer) never overlap.
Writing == IF ppc \in {"copy", "copying"} THEN Region(writeIdx, pcount) ELSE {}
Reading == (IF cpc \in {"try_copy", "batch_copy"} THEN Region(readIdx, ccount) ELSE {})
             \cup (IF peek THEN {readIdx} ELSE {})
NoSlotRace == Writing \cap Reading = {}

\* A stale cached index errs towards "no space" and "nothing there", never the
\* other way (README.md:108).
CachesConservative ==
  /\ freeSlots(writeIdx, readIdxCache) <= Usable - Used
  /\ usedSlots(writeIdxCache, readIdx) <= Used

\* The debug assertion in pop(): pop never runs on an empty ring.
PopAssert == (peek \/ cpc = "try_release") => writeIdx # readIdx

\* The moment push_n or try_push decides to copy, it takes as many of the n
\* messages as fit then; a stale cache never makes it take fewer.  A call that
\* gives up does so only when the ring is full.
PushTakesWhatFits ==
  [][/\ ppc # "copy" /\ ppc' = "copy" => pcount' = MinOf(pn', Usable - Used)
     /\ ppc \in {"try_refresh", "batch_refresh"} /\ ppc' = "idle" => Used = Usable]_vars

\* The same for the consumer's calls and the messages that are there.
PopTakesWhatIsThere ==
  [][/\ cpc \notin {"try_copy", "batch_copy"} /\ cpc' \in {"try_copy", "batch_copy"}
          => ccount' = MinOf(cn', Used)
     /\ cpc \in {"front_refresh", "try_refresh", "batch_refresh"} /\ cpc' = "idle"
          => (out' = <<>> <=> Used = 0)]_vars

\* Although size() loads the two indices separately, an endpoint can rely on
\* its result until its own next call: the consumer can pop that many, the
\* producer has at least the complement free.  The comment on size()
\* (ShmSpscQueue.h:354) warns of a value near capacity when the peer advances
\* between the loads; an endpoint never gets one, because its own index stands
\* still.
SizeSafeForEndpoint ==
  /\ csize # NoVal => csize \in 0 .. Used
  /\ psize # NoVal => psize \in Used .. Usable

\* Slot number j of the ring counted from start.
SlotAt(start, j) == IF start + j < capacity THEN start + j ELSE start + j - capacity

\* The messages published and not released, oldest first, read off the slots.
Contents == [i \in 1 .. Used |-> slots[SlotAt(readIdx, i - 1)]]

\* The ring implements the bounded FIFO: every call takes effect at once, in the
\* store of writeIdx or readIdx, or in the load that finds the ring full or
\* empty, and returns what the FIFO returns.
Fifo == INSTANCE BoundedFifo WITH
          bound <- Usable, fifo <- Contents, sent <- pushed,
          pushAsk <- pn, pushRet <- pret,
          popAsk <- IF cpc = "front_refresh" THEN 1 ELSE cn, popRet <- out
ImplementsFifo == Fifo!Spec

\* Every call returns, whatever the other side does: the queue is wait-free.
CallsReturn ==
  /\ (ppc # "idle") ~> (ppc = "idle")
  /\ (cpc # "idle") ~> (cpc = "idle")

-----------------------------------------------------------------------------
(* The inductive invariant behind the safety properties. *)

\* The indices tell how many messages are in the ring, and the ring holds them.
RingHoldsUsed ==
  /\ Used = usedSlots(writeIdx, readIdx)
  /\ \A j \in 0 .. Used - 1 : slots[SlotAt(readIdx, j)] = popped + j

\* A push past its tests has room for its batch by its own cached index.
ProducerLocals ==
  /\ IF ppc \in {"idle", "size"} THEN pn = 0 ELSE psize = NoVal
  /\ ppc = "try_refresh" => pn = 1 /\ pcount = 1 /\ pnext = SlotAt(writeIdx, 1)
  /\ ppc = "batch_refresh" => pn >= 1
  /\ ppc \in {"copy", "copying", "publish"} =>
       /\ pcount \in 1 .. pn
       /\ pcount <= freeSlots(writeIdx, readIdxCache)
       /\ pnext = SlotAt(writeIdx, pcount)
  /\ ppc = "publish" =>
       \A j \in 0 .. pcount - 1 : slots[SlotAt(writeIdx, j)] = pushed + j

\* A pop past its tests has its messages by its own cached index.
ConsumerLocals ==
  /\ cpc \in {"idle", "size", "front_refresh"} => cn = 0
  /\ cpc \notin {"idle", "size"} => csize = NoVal /\ ~peek
  /\ cpc \in {"try_refresh", "try_copy", "try_release"} => cn = 1 /\ ccount = 1
  /\ cpc \in {"batch_refresh", "batch_copy", "batch_release"} => cn >= 1
  /\ cpc \in {"batch_copy", "batch_release"} => ccount \in 1 .. cn
  /\ cpc \in {"try_copy", "try_release", "batch_copy", "batch_release"} =>
       ccount <= usedSlots(writeIdxCache, readIdx)
  /\ peek => readIdx # writeIdxCache
  /\ cpc = "size" => usedSlots(cw, readIdx) <= Used

IndInv ==
  /\ TypeOK
  /\ RingHoldsUsed
  /\ CachesConservative
  /\ ProducerLocals
  /\ ConsumerLocals
  /\ DeliveredInOrder
  /\ SizeSafeForEndpoint

=============================================================================
