------------------------ MODULE SpscTakeoverProofs --------------------------
(***************************************************************************)
(* Proofs about SpscTakeover, for a ring of any capacity and any number of *)
(* producers and consumers that die and take over from each other.         *)
(***************************************************************************)
EXTENDS SpscTakeover, Sequences, TLAPS

\* The facts about one pid slot are those of RoleSlotProofs.
PS == INSTANCE RoleSlotProofs WITH Handles <- Producers, PidOf <- [h \in Producers |-> h],
        UserOf <- [p \in Procs |-> 0], PidsReused <- FALSE,
        slot <- producerPid, pc <- ppc, expected <- pexpected
CS == INSTANCE RoleSlotProofs WITH Handles <- Consumers, PidOf <- [h \in Consumers |-> h],
        UserOf <- [p \in Procs |-> 0], PidsReused <- FALSE,
        slot <- consumerPid, pc <- cpc, expected <- cexpected

Index == 0 .. Capacity - 1
Binding == {"load", "test", "cas"}

Types ==
  /\ writeIdx \in Index /\ readIdx \in Index /\ slots \in [Index -> Int]
  /\ pushed \in Nat /\ popped \in Nat /\ got \in Int
  /\ cache \in [Procs -> Index] /\ inCall \subseteq Procs

\* A handle in a call is bound.
CallInv ==
  /\ \A h \in Producers \cap inCall : ppc[h] = "bound"
  /\ \A h \in Consumers \cap inCall : cpc[h] = "bound"

\* A handle whose cached index is a bound: it is the owner, or it is in bind()
\* and the owner's index has not moved since it loaded its own.
Produces(h) == ppc[h] = "bound" \/ (ppc[h] \in Binding /\ h \notin overtaken)
Consumes(h) == cpc[h] = "bound" \/ (cpc[h] \in Binding /\ h \notin overtaken)

\* What holds after clean takeovers.  A producer in a call has a free slot, and a
\* consumer in a call has copied the oldest message.
RingInv ==
  /\ Used = usedSlots(writeIdx, readIdx)
  /\ \A j \in 0 .. Used - 1 : slots[SlotAt(readIdx, j)] = popped + j
  /\ \A h \in Producers : Produces(h) =>
       usedSlots(writeIdx, readIdx) <= usedSlots(writeIdx, cache[h])
  /\ \A h \in Producers \cap inCall : usedSlots(writeIdx, cache[h]) < Capacity - 1
  /\ \A h \in Consumers : Consumes(h) =>
       usedSlots(cache[h], readIdx) <= usedSlots(writeIdx, readIdx)
  /\ \A h \in Consumers \cap inCall : 0 < usedSlots(cache[h], readIdx) /\ got = popped

TakeoverInv == Types /\ CallInv /\ PS!SlotInv /\ CS!SlotInv /\ (clean => RingInv)

-----------------------------------------------------------------------------
(* The two pid slots. *)

\* Both pid slots are instances of RoleSlot with one handle per process.
LEMMA SlotsConstants == PS!SlotConstants /\ PS!OneHandleEach /\ CS!SlotConstants /\ CS!OneHandleEach
BY TakeoverConstants DEF Procs, PS!SlotConstants, PS!OneHandleEach, CS!SlotConstants, CS!OneHandleEach

\* What SlotInv says to the ring: at most one handle of a role is bound.
LEMMA OneOwner ==
  ASSUME PS!SlotInv, CS!SlotInv
  PROVE  /\ \A g, h \in Producers : ppc[g] = "bound" /\ ppc[h] = "bound" => g = h
         /\ \A g, h \in Consumers : cpc[g] = "bound" /\ cpc[h] = "bound" => g = h
         /\ ppc \in [Producers -> {"out", "load", "test", "cas", "bound"}]
         /\ cpc \in [Consumers -> {"out", "load", "test", "cas", "bound"}]
         /\ proc \in [Procs -> {"new", "running", "zombie", "gone"}]
<1>1. \A g, h \in Producers : ppc[g] = "bound" /\ ppc[h] = "bound" => g = h
  BY DEF PS!SlotInv
<1>2. \A g, h \in Consumers : cpc[g] = "bound" /\ cpc[h] = "bound" => g = h
  BY DEF CS!SlotInv
<1> QED
  BY <1>1, <1>2 DEF PS!SlotInv, PS!TypeOK, CS!SlotInv, CS!TypeOK

\* A producer's steps on its pid slot are steps of RoleSlot.
LEMMA ProducerSlotActions ==
  ASSUME NEW h \in Producers
  PROVE  /\ P!BindStart(h) => PS!BindStart(h)
         /\ P!BindLoad(h) => PS!BindLoad(h)
         /\ P!BindTest(h) => PS!BindTest(h)
         /\ P!BindCas(h) => PS!BindCas(h)
         /\ P!BindCasSpurious(h) => PS!BindCasSpurious(h)
         /\ P!Detach(h) => PS!Detach(h)
BY DEF P!BindStart, P!BindLoad, P!BindTest, P!BindCas, P!BindCasSpurious, P!Detach,
  P!Goto, P!processAlive, P!kill, P!Detached,
  PS!BindStart, PS!BindLoad, PS!BindTest, PS!BindCas, PS!BindCasSpurious, PS!Detach,
  PS!Goto, PS!processAlive, PS!kill, PS!Detached

\* A consumer's steps on its pid slot are steps of RoleSlot.
LEMMA ConsumerSlotActions ==
  ASSUME NEW h \in Consumers
  PROVE  /\ C!BindStart(h) => CS!BindStart(h)
         /\ C!BindLoad(h) => CS!BindLoad(h)
         /\ C!BindTest(h) => CS!BindTest(h)
         /\ C!BindCas(h) => CS!BindCas(h)
         /\ C!BindCasSpurious(h) => CS!BindCasSpurious(h)
         /\ C!Detach(h) => CS!Detach(h)
BY DEF C!BindStart, C!BindLoad, C!BindTest, C!BindCas, C!BindCasSpurious, C!Detach,
  C!Goto, C!processAlive, C!kill, C!Detached,
  CS!BindStart, CS!BindLoad, CS!BindTest, CS!BindCas, CS!BindCasSpurious, CS!Detach,
  CS!Goto, CS!processAlive, CS!kill, CS!Detached

\* Starts, deaths and reaps are steps of RoleSlot for both slots.
LEMMA ProcessActions ==
  ASSUME NEW p \in Procs, Spawn(p) \/ Die(p) \/ Reap(p)
  PROVE  PS!Next /\ CS!Next
<1>1. PS!Spawn(p) \/ PS!Die(p) \/ PS!Reap(p)
  BY DEF Spawn, Die, Reap, P!Spawn, P!Die, P!Reap, PS!Spawn, PS!Die, PS!Reap
<1>2. CS!Spawn(p) \/ CS!Die(p) \/ CS!Reap(p)
  BY DEF Spawn, Die, Reap, P!Spawn, C!Die, P!Reap, CS!Spawn, CS!Die, CS!Reap, cslot
<1> QED
  BY <1>1, <1>2 DEF PS!Next, CS!Next

\* Every step is a step of the producers' slot, or leaves it alone.
LEMMA ProducerSlotNext == ASSUME [Next]_vars PROVE [PS!Next]_(PS!vars)
<1>1. ASSUME NEW h \in Producers,
             ProducerBindStart(h) \/ ProducerBind(h) \/ P!Detach(h)
      PROVE  [PS!Next]_(PS!vars)
  BY <1>1, ProducerSlotActions DEF ProducerBindStart, ProducerBind, PS!Next
<1>2. ASSUME NEW p \in Procs, Spawn(p) \/ Die(p) \/ Reap(p) PROVE [PS!Next]_(PS!vars)
  BY <1>2, ProcessActions
<1>3. ASSUME UNCHANGED <<pslot, proc>> PROVE [PS!Next]_(PS!vars)
  BY <1>3 DEF pslot, PS!vars
<1>4. ASSUME NEW h \in Producers, TryPush(h) \/ PushPublish(h) PROVE UNCHANGED <<pslot, proc>>
  BY <1>4 DEF TryPush, PushPublish
<1>5. ASSUME NEW h \in Consumers, TryPop(h) \/ PopRelease(h) PROVE UNCHANGED <<pslot, proc>>
  BY <1>5 DEF TryPop, PopRelease
<1>6. ASSUME NEW h \in Consumers, ConsumerBindStart(h) \/ ConsumerBind(h) \/ C!Detach(h)
      PROVE  UNCHANGED proc
  BY <1>6 DEF ConsumerBindStart, ConsumerBind, C!BindStart, C!BindLoad, C!BindTest, C!BindCas,
     C!BindCasSpurious, C!Detach
<1>7. ASSUME NEW h \in Consumers, ConsumerBindStart(h) \/ ConsumerBind(h) PROVE UNCHANGED pslot
  BY <1>7 DEF ConsumerBindStart, ConsumerBind
<1>8. ASSUME NEW h \in Procs, Detach(h)
      PROVE  \/ h \in Producers /\ P!Detach(h)
             \/ h \in Consumers /\ C!Detach(h) /\ UNCHANGED pslot
  BY <1>8 DEF Detach
<1> QED
  BY <1>1, <1>2, <1>3, <1>4, <1>5, <1>6, <1>7, <1>8 DEF Next, vars

\* Every step keeps the invariant of the producers' pid slot.
LEMMA ProducerSlotStep ==
  ASSUME PS!SlotInv, [Next]_vars PROVE PS!SlotInv'
BY ProducerSlotNext, SlotsConstants, PS!SlotStep

\* Every step is a step of the consumers' slot, or leaves it alone.
LEMMA ConsumerSlotNext == ASSUME [Next]_vars PROVE [CS!Next]_(CS!vars)
<1>1. ASSUME NEW h \in Consumers,
             ConsumerBindStart(h) \/ ConsumerBind(h) \/ C!Detach(h)
      PROVE  [CS!Next]_(CS!vars)
  BY <1>1, ConsumerSlotActions DEF ConsumerBindStart, ConsumerBind, CS!Next
<1>2. ASSUME NEW p \in Procs, Spawn(p) \/ Die(p) \/ Reap(p) PROVE [CS!Next]_(CS!vars)
  BY <1>2, ProcessActions
<1>3. ASSUME UNCHANGED <<cslot, proc>> PROVE [CS!Next]_(CS!vars)
  BY <1>3 DEF cslot, CS!vars
<1>4. ASSUME NEW h \in Producers, TryPush(h) \/ PushPublish(h) PROVE UNCHANGED <<cslot, proc>>
  BY <1>4 DEF TryPush, PushPublish
<1>5. ASSUME NEW h \in Consumers, TryPop(h) \/ PopRelease(h) PROVE UNCHANGED <<cslot, proc>>
  BY <1>5 DEF TryPop, PopRelease
<1>6. ASSUME NEW h \in Producers, ProducerBindStart(h) \/ ProducerBind(h) \/ P!Detach(h)
      PROVE  UNCHANGED proc
  BY <1>6 DEF ProducerBindStart, ProducerBind, P!BindStart, P!BindLoad, P!BindTest, P!BindCas,
     P!BindCasSpurious, P!Detach
<1>7. ASSUME NEW h \in Producers, ProducerBindStart(h) \/ ProducerBind(h) PROVE UNCHANGED cslot
  BY <1>7 DEF ProducerBindStart, ProducerBind
<1>8. ASSUME NEW h \in Procs, Detach(h)
      PROVE  \/ h \in Consumers /\ C!Detach(h)
             \/ h \in Producers /\ P!Detach(h) /\ UNCHANGED cslot
  BY <1>8 DEF Detach
<1> QED
  BY <1>1, <1>2, <1>3, <1>4, <1>5, <1>6, <1>7, <1>8 DEF Next, vars

\* Every step keeps the invariant of the consumers' pid slot.
LEMMA ConsumerSlotStep ==
  ASSUME CS!SlotInv, [Next]_vars PROVE CS!SlotInv'
BY ConsumerSlotNext, SlotsConstants, CS!SlotStep

-----------------------------------------------------------------------------
(* The indices. *)

\* usedSlots is a number of slots below the capacity.
LEMMA UsedRange ==
  ASSUME NEW w \in Index, NEW r \in Index
  PROVE  usedSlots(w, r) \in Index /\ NextIdx(w) \in Index /\ 0 \in Index
BY TakeoverConstants DEF Index, usedSlots, NextIdx

\* Writing: full is one slot short of the capacity, and the slot at w is not used.
LEMMA WriteOne ==
  ASSUME NEW w \in Index, NEW r \in Index
  PROVE  /\ NextIdx(w) = r <=> usedSlots(w, r) = Capacity - 1
         /\ usedSlots(w, r) < Capacity - 1 => usedSlots(NextIdx(w), r) = usedSlots(w, r) + 1
         /\ SlotAt(r, usedSlots(w, r)) = w
         /\ \A j \in 0 .. usedSlots(w, r) - 1 : SlotAt(r, j) # w
BY TakeoverConstants DEF Index, usedSlots, NextIdx, SlotAt

\* Reading: the slot at r is the first used one.
LEMMA ReadOne ==
  ASSUME NEW w \in Index, NEW r \in Index
  PROVE  /\ w = r <=> usedSlots(w, r) = 0
         /\ usedSlots(w, r) > 0 => usedSlots(w, NextIdx(r)) = usedSlots(w, r) - 1
         /\ SlotAt(r, 0) = r
         /\ \A j \in 0 .. Capacity - 2 : SlotAt(NextIdx(r), j) = SlotAt(r, j + 1)
BY TakeoverConstants DEF Index, usedSlots, NextIdx, SlotAt

\* The slots of the unreleased messages are slots of the ring.
LEMMA SlotInIndex ==
  ASSUME NEW r \in Index, NEW j \in Index PROVE SlotAt(r, j) \in Index
BY TakeoverConstants DEF Index, SlotAt

-----------------------------------------------------------------------------
(* The ring. *)

\* Steps that move no index: a handle's cache stays or is loaded afresh, and no
\* handle enters a call.
LEMMA RingKept ==
  ASSUME RingInv, UNCHANGED ring,
         \A h \in Producers : Produces(h)' => (Produces(h) /\ cache'[h] = cache[h]) \/ cache'[h] = readIdx,
         \A h \in Consumers : Consumes(h)' => (Consumes(h) /\ cache'[h] = cache[h]) \/ cache'[h] = writeIdx,
         \A h \in inCall' : h \in inCall /\ cache'[h] = cache[h],
         Types, Types', Consumers \cap inCall' # {} => got' = got
  PROVE  RingInv'
<1>1. usedSlots(writeIdx, readIdx)' = usedSlots(writeIdx, readIdx) /\ Used' = Used
  BY DEF usedSlots, Used, ring
<1>2. \A h \in Procs : /\ usedSlots(writeIdx, cache[h])' = usedSlots(writeIdx, cache'[h])
                       /\ usedSlots(cache[h], readIdx)' = usedSlots(cache'[h], readIdx)
  BY DEF usedSlots, ring
<1>3. usedSlots(writeIdx, readIdx) \in Int
  BY UsedRange DEF Index, Types
<1>4. \A j \in 0 .. Used' - 1 : slots'[SlotAt(readIdx', j)] = popped' + j
  BY <1>1 DEF RingInv, ring
<1>5. \A h \in Producers : Produces(h)' =>
        usedSlots(writeIdx, readIdx)' <= usedSlots(writeIdx, cache[h])'
  BY <1>1, <1>2, <1>3 DEF RingInv, Procs
<1>6. \A h \in Consumers : Consumes(h)' =>
        usedSlots(cache[h], readIdx)' <= usedSlots(writeIdx, readIdx)'
  BY <1>1, <1>2, <1>3 DEF RingInv, Procs
<1>7. \A h \in Producers \cap inCall' : usedSlots(writeIdx, cache[h])' < Capacity - 1
  BY <1>2 DEF RingInv, Procs
<1>8. \A h \in Consumers \cap inCall' : 0 < usedSlots(cache[h], readIdx)' /\ got' = popped'
  BY <1>2 DEF RingInv, Procs, ring
<1> QED
  BY <1>1, <1>4, <1>5, <1>6, <1>7, <1>8 DEF RingInv, SlotAt

Kept == Types' /\ CallInv' /\ (clean' => RingInv')

\* The end of a handle leaves the cached indices of the others alone.
LEMMA HandleEnded ==
  ASSUME Types, NEW h \in Procs, HandleEnds(h)
  PROVE  /\ cache' \in [Procs -> Index]
         /\ \A k \in Procs \ {h} : cache'[k] = cache[k] /\ (k \in overtaken' <=> k \in overtaken)
BY UsedRange DEF HandleEnds, Types

\* Loading the indices in a producer's bind() preserves the invariant.
LEMMA ProducerBindStartKept ==
  ASSUME TakeoverInv, NEW h \in Producers, ProducerBindStart(h) PROVE Kept
<1>1. Types /\ CallInv /\ (clean => RingInv) /\ ppc \in [Producers -> {"out", "load", "test", "cas", "bound"}]
  BY OneOwner DEF TakeoverInv
<1>2. /\ ppc[h] = "out" /\ ppc' = [ppc EXCEPT ![h] = "load"] /\ cache' = [cache EXCEPT ![h] = readIdx]
      /\ UNCHANGED <<ring, cpc, inCall, got, overtaken, clean>> /\ h \in Procs
  BY DEF ProducerBindStart, P!BindStart, P!Goto, cslot, history, Procs
<1>3. Types'
  BY <1>1, <1>2 DEF Types, ring
<1>4. h \notin inCall /\ CallInv'
  BY <1>1, <1>2 DEF CallInv
<1>5. \A k \in Procs : k # h => cache'[k] = cache[k]
  BY <1>1, <1>2 DEF Types
<1>6. \A k \in Producers : Produces(k)' => (Produces(k) /\ cache'[k] = cache[k]) \/ cache'[k] = readIdx
  BY <1>1, <1>2, <1>5 DEF Produces, Procs, Types
<1>7. \A k \in Consumers : Consumes(k)' => (Consumes(k) /\ cache'[k] = cache[k]) \/ cache'[k] = writeIdx
  BY <1>2, <1>5, TakeoverConstants DEF Consumes, Procs
<1>8. \A k \in inCall' : k \in inCall /\ cache'[k] = cache[k]
  BY <1>1, <1>2, <1>4, <1>5 DEF Types
<1> QED
  BY <1>1, <1>2, <1>3, <1>4, <1>6, <1>7, <1>8, RingKept DEF Kept

\* Loading the indices in a consumer's bind() preserves the invariant.
LEMMA ConsumerBindStartKept ==
  ASSUME TakeoverInv, NEW h \in Consumers, ConsumerBindStart(h) PROVE Kept
<1>1. Types /\ CallInv /\ (clean => RingInv) /\ cpc \in [Consumers -> {"out", "load", "test", "cas", "bound"}]
  BY OneOwner DEF TakeoverInv
<1>2. /\ cpc[h] = "out" /\ cpc' = [cpc EXCEPT ![h] = "load"] /\ cache' = [cache EXCEPT ![h] = writeIdx]
      /\ UNCHANGED <<ring, ppc, inCall, got, overtaken, clean>> /\ h \in Procs
  BY DEF ConsumerBindStart, C!BindStart, C!Goto, pslot, history, Procs
<1>3. Types'
  BY <1>1, <1>2 DEF Types, ring
<1>4. h \notin inCall /\ CallInv'
  BY <1>1, <1>2 DEF CallInv
<1>5. \A k \in Procs : k # h => cache'[k] = cache[k]
  BY <1>1, <1>2 DEF Types
<1>6. \A k \in Consumers : Consumes(k)' => (Consumes(k) /\ cache'[k] = cache[k]) \/ cache'[k] = writeIdx
  BY <1>1, <1>2, <1>5 DEF Consumes, Procs, Types
<1>7. \A k \in Producers : Produces(k)' => (Produces(k) /\ cache'[k] = cache[k]) \/ cache'[k] = readIdx
  BY <1>2, <1>5, TakeoverConstants DEF Produces, Procs
<1>8. \A k \in inCall' : k \in inCall /\ cache'[k] = cache[k]
  BY <1>1, <1>2, <1>4, <1>5 DEF Types
<1> QED
  BY <1>1, <1>2, <1>3, <1>4, <1>6, <1>7, <1>8, RingKept DEF Kept

\* A producer's claim of its role preserves the invariant.
LEMMA ProducerBindKept ==
  ASSUME TakeoverInv, NEW h \in Producers, ProducerBind(h) PROVE Kept
<1>1. Types /\ CallInv /\ (clean => RingInv) /\ ppc \in [Producers -> {"out", "load", "test", "cas", "bound"}]
  BY OneOwner DEF TakeoverInv
<1>2. ppc[h] \in Binding /\ \E x \in {"test", "cas", "out", "bound"} : ppc' = [ppc EXCEPT ![h] = x]
  BY DEF ProducerBind, P!BindLoad, P!BindTest, P!BindCas, P!BindCasSpurious, P!Goto, Binding
<1>3. /\ UNCHANGED <<ring, cpc, inCall, got>> /\ h \in Procs
      /\ clean' => clean /\ ~(ppc'[h] = "bound" /\ h \in overtaken)
  BY DEF ProducerBind, cslot, Procs
<1>4. /\ cache' \in [Procs -> Index]
      /\ \A k \in Procs \ {h} : cache'[k] = cache[k] /\ (k \in overtaken' <=> k \in overtaken)
      /\ ppc'[h] # "out" => cache'[h] = cache[h] /\ (h \in overtaken' <=> h \in overtaken)
  BY <1>1, <1>3, HandleEnded DEF ProducerBind, Types
<1>5. Types'
  BY <1>1, <1>3, <1>4 DEF Types, ring
<1>6. h \notin inCall /\ CallInv'
  BY <1>1, <1>2, <1>3 DEF CallInv, Binding
<1>7. clean' => \A k \in Producers : Produces(k)' => Produces(k) /\ cache'[k] = cache[k]
  BY <1>1, <1>2, <1>3, <1>4 DEF Produces, Procs, Binding
<1>8. \A k \in Consumers : Consumes(k)' => Consumes(k) /\ cache'[k] = cache[k]
  BY <1>3, <1>4, TakeoverConstants DEF Consumes, Procs
<1>9. \A k \in inCall' : k \in inCall /\ cache'[k] = cache[k]
  BY <1>1, <1>3, <1>4, <1>6 DEF Types
<1> QED
  BY <1>1, <1>3, <1>5, <1>6, <1>7, <1>8, <1>9, RingKept DEF Kept

\* A consumer's claim of its role preserves the invariant.
LEMMA ConsumerBindKept ==
  ASSUME TakeoverInv, NEW h \in Consumers, ConsumerBind(h) PROVE Kept
<1>1. Types /\ CallInv /\ (clean => RingInv) /\ cpc \in [Consumers -> {"out", "load", "test", "cas", "bound"}]
  BY OneOwner DEF TakeoverInv
<1>2. cpc[h] \in Binding /\ \E x \in {"test", "cas", "out", "bound"} : cpc' = [cpc EXCEPT ![h] = x]
  BY DEF ConsumerBind, C!BindLoad, C!BindTest, C!BindCas, C!BindCasSpurious, C!Goto, Binding
<1>3. /\ UNCHANGED <<ring, ppc, inCall, got>> /\ h \in Procs
      /\ clean' => clean /\ ~(cpc'[h] = "bound" /\ h \in overtaken)
  BY DEF ConsumerBind, pslot, Procs
<1>4. /\ cache' \in [Procs -> Index]
      /\ \A k \in Procs \ {h} : cache'[k] = cache[k] /\ (k \in overtaken' <=> k \in overtaken)
      /\ cpc'[h] # "out" => cache'[h] = cache[h] /\ (h \in overtaken' <=> h \in overtaken)
  BY <1>1, <1>3, HandleEnded DEF ConsumerBind, Types
<1>5. Types'
  BY <1>1, <1>3, <1>4 DEF Types, ring
<1>6. h \notin inCall /\ CallInv'
  BY <1>1, <1>2, <1>3 DEF CallInv, Binding
<1>7. clean' => \A k \in Consumers : Consumes(k)' => Consumes(k) /\ cache'[k] = cache[k]
  BY <1>1, <1>2, <1>3, <1>4 DEF Consumes, Procs, Binding
<1>8. \A k \in Producers : Produces(k)' => Produces(k) /\ cache'[k] = cache[k]
  BY <1>3, <1>4, TakeoverConstants DEF Produces, Procs
<1>9. \A k \in inCall' : k \in inCall /\ cache'[k] = cache[k]
  BY <1>1, <1>3, <1>4, <1>6 DEF Types
<1> QED
  BY <1>1, <1>3, <1>5, <1>6, <1>7, <1>8, <1>9, RingKept DEF Kept

\* try_push up to its copy preserves the invariant.
LEMMA TryPushKept ==
  ASSUME TakeoverInv, NEW h \in Producers, TryPush(h) PROVE Kept
<1>1. Types /\ CallInv /\ (clean => RingInv) /\ h \in Procs
  BY DEF TakeoverInv, Procs
<1>2. /\ ppc[h] = "bound" /\ h \notin inCall
      /\ UNCHANGED <<writeIdx, readIdx, pushed, popped, ppc, cpc, got, overtaken, clean>>
  BY DEF TryPush, pslot, cslot, history
<1>3. PICK c \in Index : /\ cache' = [cache EXCEPT ![h] = c]
                         /\ c = IF NextIdx(writeIdx) = cache[h] THEN readIdx ELSE cache[h]
  BY <1>1 DEF TryPush, Types
<1>4. \/ UNCHANGED <<slots, inCall>>
      \/ /\ NextIdx(writeIdx) # c /\ slots' = [slots EXCEPT ![writeIdx] = Torn]
         /\ inCall' = inCall \cup {h}
  BY <1>1, <1>3 DEF TryPush, Types
<1>5. Types'
  BY <1>1, <1>2, <1>3, <1>4 DEF Types, Torn
<1>6. CallInv'
  BY <1>1, <1>2, <1>4, TakeoverConstants DEF CallInv
<1>7. ASSUME clean PROVE RingInv'
  <2>1. RingInv /\ Used' = Used /\ writeIdx \in Index /\ readIdx \in Index
    BY <1>1, <1>2, <1>7 DEF Used, Types
  <2>2. usedSlots(writeIdx, readIdx) <= usedSlots(writeIdx, c)
    <3>1. usedSlots(writeIdx, readIdx) <= usedSlots(writeIdx, cache[h])
      BY <1>2, <2>1 DEF RingInv, Produces
    <3>2. usedSlots(writeIdx, readIdx) \in Int
      BY <2>1, UsedRange DEF Index
    <3> QED
      BY <1>3, <3>1, <3>2
  <2>3. inCall' # inCall => usedSlots(writeIdx, c) < Capacity - 1
    BY <1>4, <1>3, <2>1, UsedRange, WriteOne, TakeoverConstants DEF Index
  <2>4. \A j \in 0 .. Used - 1 : slots'[SlotAt(readIdx, j)] = popped + j
    <3> SUFFICES ASSUME NEW j \in 0 .. Used - 1 PROVE slots'[SlotAt(readIdx, j)] = slots[SlotAt(readIdx, j)]
      BY <2>1 DEF RingInv
    <3>1. SlotAt(readIdx, j) # writeIdx
      BY <2>1, WriteOne DEF RingInv
    <3>2. j \in Index
      <4>1. Used \in Index
        BY <2>1, UsedRange DEF RingInv
      <4> QED
        BY <4>1, TakeoverConstants DEF Index
    <3>3. SlotAt(readIdx, j) \in Index
      BY <2>1, <3>2, SlotInIndex
    <3> QED
      BY <1>1, <1>4, <3>1, <3>3 DEF Types
  <2>5. \A k \in Procs : cache'[k] = IF k = h THEN c ELSE cache[k]
    BY <1>1, <1>3 DEF Types
  <2>6. \A k \in Producers : Produces(k)' =>
          usedSlots(writeIdx, readIdx) <= usedSlots(writeIdx, cache'[k])
    BY <1>2, <2>1, <2>2, <2>5 DEF RingInv, Produces, Procs
  <2>7. \A k \in Producers \cap inCall' : usedSlots(writeIdx, cache'[k]) < Capacity - 1
    BY <1>2, <1>4, <2>1, <2>3, <2>5 DEF RingInv, Procs
  <2>8. \A k \in Consumers : /\ cache'[k] = cache[k] /\ (Consumes(k)' <=> Consumes(k))
                             /\ (k \in inCall' <=> k \in inCall)
    BY <1>2, <1>4, <2>5, TakeoverConstants DEF Consumes, Procs
  <2> QED
    BY <1>2, <2>1, <2>4, <2>6, <2>7, <2>8 DEF RingInv, usedSlots, SlotAt
<1> QED
  BY <1>2, <1>5, <1>6, <1>7 DEF Kept

\* The store of writeIdx preserves the invariant.
LEMMA PushPublishKept ==
  ASSUME TakeoverInv, NEW h \in Producers, PushPublish(h) PROVE Kept
<1>1. Types /\ CallInv /\ (clean => RingInv) /\ h \in Procs
  BY DEF TakeoverInv, Procs
<1>2. /\ h \in inCall /\ inCall' = inCall \ {h} /\ pushed' = pushed + 1
      /\ slots' = [slots EXCEPT ![writeIdx] = pushed] /\ writeIdx' = NextIdx(writeIdx)
      /\ overtaken' = overtaken \cup {g \in Producers : ppc[g] \in Binding}
      /\ UNCHANGED <<readIdx, popped, ppc, cpc, cache, got, clean>>
  BY DEF PushPublish, pslot, cslot, Binding
<1>3. Types'
  BY <1>1, <1>2, UsedRange DEF Types
<1>4. CallInv'
  BY <1>1, <1>2 DEF CallInv
<1>5. ASSUME clean PROVE RingInv'
  <2>1. /\ RingInv /\ writeIdx \in Index /\ readIdx \in Index
        /\ pushed \in Nat /\ popped \in Nat /\ cache \in [Procs -> Index]
    BY <1>1, <1>5 DEF Types
  <2>2. ppc[h] = "bound" /\ \A g \in Producers : ppc[g] = "bound" => g = h
    BY <1>1, <1>2, OneOwner DEF CallInv, TakeoverInv
  <2>3. /\ usedSlots(writeIdx, readIdx) <= usedSlots(writeIdx, cache[h])
        /\ usedSlots(writeIdx, cache[h]) < Capacity - 1
    BY <1>2, <2>1, <2>2 DEF RingInv, Produces
  <2>4. /\ usedSlots(writeIdx', readIdx) = usedSlots(writeIdx, readIdx) + 1
        /\ usedSlots(writeIdx', cache[h]) = usedSlots(writeIdx, cache[h]) + 1
        /\ usedSlots(writeIdx, readIdx) \in Index
    BY <1>1, <1>2, <2>1, <2>3, UsedRange, WriteOne, TakeoverConstants DEF Index
  <2>5. Used' = Used + 1 /\ Used' = usedSlots(writeIdx', readIdx) /\ Used \in 0 .. Capacity - 2
    <3>1. Used' = Used + 1
      BY <1>2, <2>1 DEF Used
    <3>2. Used = usedSlots(writeIdx, readIdx)
      BY <2>1 DEF RingInv
    <3>3. usedSlots(writeIdx, cache[h]) \in Index
      BY <1>1, <2>1, UsedRange
    <3> QED
      BY <2>3, <2>4, <3>1, <3>2, <3>3, TakeoverConstants DEF Index
  <2>6. \A j \in 0 .. Used' - 1 : slots'[SlotAt(readIdx, j)] = popped + j
    <3> SUFFICES ASSUME NEW j \in 0 .. Used PROVE slots'[SlotAt(readIdx, j)] = popped + j
      BY <2>5
    <3>1. CASE j = Used
      <4>1. SlotAt(readIdx, j) = writeIdx
        BY <2>1, <3>1, WriteOne DEF RingInv
      <4> QED
        BY <1>1, <1>2, <2>1, <3>1, <4>1 DEF Types, Used
    <3>2. CASE j # Used
      <4>1. j \in 0 .. Used - 1 /\ j \in Index
        BY <2>5, <3>2, TakeoverConstants DEF Index
      <4>2. SlotAt(readIdx, j) # writeIdx /\ SlotAt(readIdx, j) \in Index
        BY <2>1, <4>1, WriteOne, SlotInIndex DEF RingInv
      <4> QED
        BY <1>1, <1>2, <2>1, <4>1, <4>2 DEF Types, RingInv
    <3> QED
      BY <3>1, <3>2
  <2>7. \A k \in Producers : Produces(k)' =>
          usedSlots(writeIdx', readIdx) <= usedSlots(writeIdx', cache[k])
    <3>1. \A k \in Producers : Produces(k)' => k = h
      BY <1>2, <2>2 DEF Produces, Binding
    <3>2. usedSlots(writeIdx, cache[h]) \in Index
      BY <1>1, <2>1, UsedRange
    <3> QED
      BY <2>3, <2>4, <3>1, <3>2 DEF Index
  <2>8. Producers \cap inCall' = {}
    BY <1>1, <1>2, <2>2 DEF CallInv
  <2>9. \A k \in Consumers : Consumes(k)' =>
          usedSlots(cache[k], readIdx) <= usedSlots(writeIdx', readIdx)
    <3> SUFFICES ASSUME NEW k \in Consumers, Consumes(k)'
                 PROVE  usedSlots(cache[k], readIdx) <= usedSlots(writeIdx', readIdx)
      OBVIOUS
    <3>1. Consumes(k)
      BY <1>2, TakeoverConstants DEF Consumes
    <3>2. usedSlots(cache[k], readIdx) \in Index
      BY <2>1, UsedRange DEF Procs
    <3> QED
      BY <2>1, <2>4, <3>1, <3>2 DEF RingInv, Index
  <2>10. \A k \in Consumers \cap inCall' : 0 < usedSlots(cache[k], readIdx) /\ got' = popped
    BY <1>2, <2>1 DEF RingInv
  <2> QED
    BY <1>2, <2>5, <2>6, <2>7, <2>8, <2>9, <2>10 DEF RingInv, usedSlots, SlotAt
<1> QED
  BY <1>2, <1>3, <1>4, <1>5 DEF Kept

\* try_pop up to its copy preserves the invariant.
LEMMA TryPopKept ==
  ASSUME TakeoverInv, NEW h \in Consumers, TryPop(h) PROVE Kept
<1>1. Types /\ CallInv /\ (clean => RingInv) /\ h \in Procs
  BY DEF TakeoverInv, Procs
<1>2. /\ cpc[h] = "bound" /\ h \notin inCall
      /\ UNCHANGED <<writeIdx, readIdx, pushed, popped, slots, ppc, cpc, overtaken, clean>>
  BY DEF TryPop, ring, pslot, cslot, history
<1>3. PICK c \in Index : /\ cache' = [cache EXCEPT ![h] = c]
                         /\ c = IF readIdx = cache[h] THEN writeIdx ELSE cache[h]
  BY <1>1 DEF TryPop, Types
<1>4. \/ UNCHANGED <<got, inCall>>
      \/ readIdx # c /\ got' = slots[readIdx] /\ inCall' = inCall \cup {h}
  BY <1>1, <1>3 DEF TryPop, Types
<1>5. Types'
  BY <1>1, <1>2, <1>3, <1>4 DEF Types
<1>6. CallInv'
  BY <1>1, <1>2, <1>4, TakeoverConstants DEF CallInv
<1>7. ASSUME clean PROVE RingInv'
  <2>1. RingInv /\ Used' = Used /\ writeIdx \in Index /\ readIdx \in Index
    BY <1>1, <1>2, <1>7 DEF Used, Types
  <2>2. usedSlots(c, readIdx) <= usedSlots(writeIdx, readIdx)
    <3>1. usedSlots(cache[h], readIdx) <= usedSlots(writeIdx, readIdx)
      BY <1>2, <2>1 DEF RingInv, Consumes
    <3>2. usedSlots(writeIdx, readIdx) \in Int
      BY <2>1, UsedRange DEF Index
    <3> QED
      BY <1>3, <3>1, <3>2
  <2>3. Consumers \cap inCall = {}
    BY <1>1, <1>2, OneOwner DEF CallInv, TakeoverInv
  <2>4. h \in inCall' => 0 < usedSlots(c, readIdx) /\ got' = popped
    <3> SUFFICES ASSUME h \in inCall' PROVE 0 < usedSlots(c, readIdx) /\ got' = popped
      OBVIOUS
    <3>1. readIdx # c /\ got' = slots[readIdx]
      BY <1>2, <1>4
    <3>2. usedSlots(c, readIdx) \in Index /\ usedSlots(c, readIdx) # 0
      BY <2>1, <3>1, UsedRange, ReadOne
    <3>3. 0 < usedSlots(c, readIdx)
      BY <3>2 DEF Index
    <3>4. Used = usedSlots(writeIdx, readIdx) /\ usedSlots(writeIdx, readIdx) \in Index
      BY <2>1, UsedRange DEF RingInv
    <3>5. 0 \in 0 .. Used - 1
      BY <2>2, <3>2, <3>3, <3>4 DEF Index
    <3>6. slots[readIdx] = popped + 0
      BY <2>1, <3>5, ReadOne DEF RingInv
    <3> QED
      BY <1>1, <3>1, <3>3, <3>6 DEF Types
  <2>5. \A k \in Procs : cache'[k] = IF k = h THEN c ELSE cache[k]
    BY <1>1, <1>3 DEF Types
  <2>6. \A k \in Consumers : Consumes(k)' =>
          usedSlots(cache'[k], readIdx) <= usedSlots(writeIdx, readIdx)
    BY <1>2, <2>1, <2>2, <2>5 DEF RingInv, Consumes, Procs
  <2>7. \A k \in Consumers \cap inCall' : 0 < usedSlots(cache'[k], readIdx) /\ got' = popped
    BY <1>4, <2>3, <2>4, <2>5 DEF Procs
  <2>8. \A k \in Producers : /\ cache'[k] = cache[k] /\ (Produces(k)' <=> Produces(k))
                             /\ (k \in inCall' <=> k \in inCall)
    BY <1>2, <1>4, <2>5, TakeoverConstants DEF Produces, Procs
  <2> QED
    BY <1>2, <2>1, <2>6, <2>7, <2>8 DEF RingInv, usedSlots, SlotAt
<1> QED
  BY <1>2, <1>5, <1>6, <1>7 DEF Kept

\* The store of readIdx preserves the invariant.
LEMMA PopReleaseKept ==
  ASSUME TakeoverInv, NEW h \in Consumers, PopRelease(h) PROVE Kept
<1>1. Types /\ CallInv /\ (clean => RingInv) /\ h \in Procs
  BY DEF TakeoverInv, Procs
<1>2. /\ h \in inCall /\ inCall' = inCall \ {h} /\ popped' = popped + 1
      /\ readIdx' = NextIdx(readIdx) /\ got' = Torn
      /\ overtaken' = overtaken \cup {g \in Consumers : cpc[g] \in Binding}
      /\ UNCHANGED <<writeIdx, pushed, slots, ppc, cpc, cache, clean>>
  BY DEF PopRelease, pslot, cslot, Binding
<1>3. Types'
  BY <1>1, <1>2, UsedRange DEF Types, Torn
<1>4. CallInv'
  BY <1>1, <1>2 DEF CallInv
<1>5. ASSUME clean PROVE RingInv'
  <2>1. /\ RingInv /\ writeIdx \in Index /\ readIdx \in Index
        /\ pushed \in Nat /\ popped \in Nat /\ cache \in [Procs -> Index]
    BY <1>1, <1>5 DEF Types
  <2>2. cpc[h] = "bound" /\ \A g \in Consumers : cpc[g] = "bound" => g = h
    BY <1>1, <1>2, OneOwner DEF CallInv, TakeoverInv
  <2>3. /\ usedSlots(cache[h], readIdx) <= usedSlots(writeIdx, readIdx)
        /\ 0 < usedSlots(cache[h], readIdx)
    BY <1>2, <2>1, <2>2 DEF RingInv, Consumes
  <2>4. /\ usedSlots(writeIdx, readIdx) \in Index /\ usedSlots(cache[h], readIdx) \in Index
    BY <1>1, <2>1, UsedRange
  <2>5. /\ usedSlots(writeIdx, readIdx') = usedSlots(writeIdx, readIdx) - 1
        /\ usedSlots(cache[h], readIdx') = usedSlots(cache[h], readIdx) - 1
    BY <1>1, <1>2, <2>1, <2>3, <2>4, ReadOne DEF Index
  <2>6. Used' = Used - 1 /\ Used' = usedSlots(writeIdx, readIdx') /\ Used \in 1 .. Capacity - 1
    <3>1. Used' = Used - 1
      BY <1>2, <2>1 DEF Used
    <3>2. Used = usedSlots(writeIdx, readIdx)
      BY <2>1 DEF RingInv
    <3> QED
      BY <2>3, <2>4, <2>5, <3>1, <3>2 DEF Index
  <2>7. \A j \in 0 .. Used' - 1 : slots[SlotAt(readIdx', j)] = popped' + j
    <3> SUFFICES ASSUME NEW j \in 0 .. Used - 2 PROVE slots[SlotAt(readIdx', j)] = popped' + j
      BY <2>6
    <3>1. j \in 0 .. Capacity - 2 /\ j + 1 \in 0 .. Used - 1
      BY <2>6, TakeoverConstants
    <3>2. SlotAt(readIdx', j) = SlotAt(readIdx, j + 1)
      BY <1>2, <2>1, <3>1, ReadOne
    <3>3. slots[SlotAt(readIdx, j + 1)] = popped + (j + 1)
      BY <2>1, <3>1 DEF RingInv
    <3> QED
      BY <1>2, <2>1, <3>2, <3>3
  <2>8. \A k \in Producers : Produces(k)' =>
          usedSlots(writeIdx, readIdx') <= usedSlots(writeIdx, cache[k])
    <3> SUFFICES ASSUME NEW k \in Producers, Produces(k)'
                 PROVE  usedSlots(writeIdx, readIdx') <= usedSlots(writeIdx, cache[k])
      OBVIOUS
    <3>1. Produces(k)
      BY <1>2, TakeoverConstants DEF Produces
    <3>2. usedSlots(writeIdx, cache[k]) \in Index
      BY <2>1, UsedRange DEF Procs
    <3> QED
      BY <2>1, <2>4, <2>5, <3>1, <3>2 DEF RingInv, Index
  <2>9. \A k \in Producers \cap inCall' : usedSlots(writeIdx, cache[k]) < Capacity - 1
    BY <1>2, <2>1 DEF RingInv
  <2>10. \A k \in Consumers : Consumes(k)' =>
           usedSlots(cache[k], readIdx') <= usedSlots(writeIdx, readIdx')
    <3>1. \A k \in Consumers : Consumes(k)' => k = h
      BY <1>2, <2>2 DEF Consumes, Binding
    <3> QED
      BY <2>3, <2>4, <2>5, <3>1 DEF Index
  <2>11. Consumers \cap inCall' = {}
    BY <1>1, <1>2, <2>2 DEF CallInv
  <2> QED
    BY <1>2, <2>6, <2>7, <2>8, <2>9, <2>10, <2>11 DEF RingInv, usedSlots, SlotAt
<1> QED
  BY <1>2, <1>3, <1>4, <1>5 DEF Kept

\* A handle leaves, by detach() or with its process.
LEMMA HandleGone ==
  ASSUME TakeoverInv, NEW h \in Procs, HandleEnds(h), UNCHANGED <<ring, clean>>,
         inCall' = inCall \ {h},
         Consumers \cap inCall' # {} => got' = got, got' \in Int,
         \A k \in Producers : ppc'[k] = IF k = h THEN "out" ELSE ppc[k],
         \A k \in Consumers : cpc'[k] = IF k = h THEN "out" ELSE cpc[k]
  PROVE  Kept
<1>1. Types /\ CallInv /\ (clean => RingInv)
  BY DEF TakeoverInv
<1>2. /\ cache' \in [Procs -> Index]
      /\ \A k \in Procs \ {h} : cache'[k] = cache[k] /\ (k \in overtaken' <=> k \in overtaken)
  BY <1>1, HandleEnded
<1>3. Types'
  BY <1>1, <1>2 DEF Types, ring
<1>4. CallInv'
  BY <1>1 DEF CallInv
<1>5. \A k \in Producers : Produces(k)' => Produces(k) /\ cache'[k] = cache[k]
  BY <1>2 DEF Produces, Procs, Binding
<1>6. \A k \in Consumers : Consumes(k)' => Consumes(k) /\ cache'[k] = cache[k]
  BY <1>2 DEF Consumes, Procs, Binding
<1>7. \A k \in inCall' : k \in inCall /\ cache'[k] = cache[k]
  BY <1>1, <1>2 DEF Types
<1> QED
  BY <1>1, <1>3, <1>4, <1>5, <1>6, <1>7, RingKept DEF Kept

\* The release of the pid slot in detach() preserves the invariant.
LEMMA DetachKept ==
  ASSUME TakeoverInv, NEW h \in Procs, Detach(h) PROVE Kept
<1>1. /\ ppc \in [Producers -> {"out", "load", "test", "cas", "bound"}]
      /\ cpc \in [Consumers -> {"out", "load", "test", "cas", "bound"}]
  BY OneOwner DEF TakeoverInv
<1>2. HandleEnds(h) /\ UNCHANGED <<ring, clean, got, inCall>> /\ inCall' = inCall \ {h}
  BY DEF Detach
<1>3. got' \in Int
  BY <1>2 DEF TakeoverInv, Types
<1>4. /\ \A k \in Producers : ppc'[k] = IF k = h THEN "out" ELSE ppc[k]
      /\ \A k \in Consumers : cpc'[k] = IF k = h THEN "out" ELSE cpc[k]
  <2>1. CASE h \in Producers /\ P!Detach(h) /\ UNCHANGED cslot
    BY <1>1, <2>1, TakeoverConstants DEF P!Detach, P!Goto, cslot
  <2>2. CASE h \in Consumers /\ C!Detach(h) /\ UNCHANGED pslot
    BY <1>1, <2>2, TakeoverConstants DEF C!Detach, C!Goto, pslot
  <2> QED
    BY <2>1, <2>2 DEF Detach
<1> QED
  BY <1>2, <1>3, <1>4, HandleGone

\* The death of a process preserves the invariant.
LEMMA DieKept ==
  ASSUME TakeoverInv, NEW p \in Procs, Die(p) PROVE Kept
<1>1. /\ HandleEnds(p) /\ UNCHANGED <<ring, clean>> /\ inCall' = inCall \ {p}
      /\ got' = IF p \in Consumers \cap inCall THEN Torn ELSE got
  BY DEF Die
<1>2. /\ \A k \in Producers : ppc'[k] = IF k = p THEN "out" ELSE ppc[k]
      /\ \A k \in Consumers : cpc'[k] = IF k = p THEN "out" ELSE cpc[k]
  BY DEF Die, P!Die, C!Die
<1>3. got' \in Int
  BY <1>1 DEF TakeoverInv, Types, Torn
<1>4. Consumers \cap inCall' # {} => got' = got
  BY <1>1, OneOwner DEF TakeoverInv, CallInv
<1> QED
  BY <1>1, <1>2, <1>3, <1>4, HandleGone

\* Every step preserves the invariant.
LEMMA TakeoverStep == TakeoverInv /\ [Next]_vars => TakeoverInv'
<1> SUFFICES ASSUME TakeoverInv, [Next]_vars PROVE TakeoverInv'
  OBVIOUS
<1>1. PS!SlotInv' /\ CS!SlotInv'
  BY ProducerSlotStep, ConsumerSlotStep DEF TakeoverInv
<1>2. ASSUME UNCHANGED <<ring, ppc, cpc, call, history>> PROVE Kept
  <2>1. Types' /\ CallInv'
    BY <1>2 DEF TakeoverInv, Types, CallInv, ring, call
  <2>2. clean => RingInv'
    BY <1>2, <2>1, RingKept DEF TakeoverInv, call, history, Produces, Consumes
  <2> QED
    BY <1>2, <2>1, <2>2 DEF Kept, history
<1>3. ASSUME UNCHANGED vars PROVE Kept
  BY <1>2, <1>3 DEF vars, pslot, cslot
<1>4. ASSUME NEW p \in Procs, Spawn(p) \/ Reap(p) PROVE Kept
  BY <1>2, <1>4 DEF Spawn, Reap, pslot, cslot
<1>5. ASSUME Next PROVE Kept
  BY <1>4, <1>5, ProducerBindStartKept, ProducerBindKept, TryPushKept, PushPublishKept,
     ConsumerBindStartKept, ConsumerBindKept, TryPopKept, PopReleaseKept, DetachKept, DieKept DEF Next
<1>6. Kept
  BY <1>3, <1>5
<1> QED
  BY <1>1, <1>6 DEF TakeoverInv, Kept

\* The invariant holds after create().
LEMMA TakeoverInit == Init => TakeoverInv
<1> SUFFICES ASSUME Init PROVE TakeoverInv
  OBVIOUS
<1>1. PS!SlotInv
  BY TakeoverConstants DEF Init, P!Init, PS!SlotInv, PS!TypeOK, Procs
<1>2. CS!SlotInv
  BY TakeoverConstants DEF Init, C!Init, CS!SlotInv, CS!TypeOK, Procs
<1>3. Types /\ CallInv
  BY TakeoverConstants DEF Init, Types, CallInv, Index, Torn
<1>4. RingInv
  BY TakeoverConstants DEF Init, P!Init, C!Init, RingInv, Produces, Consumes, Binding, Used, usedSlots
<1> QED
  BY <1>1, <1>2, <1>3, <1>4 DEF TakeoverInv

\* The invariant holds in every state, whoever dies and whoever takes over.
LEMMA TakeoverInvariant == Spec => []TakeoverInv
BY TakeoverInit, TakeoverStep, PTL DEF Spec

-----------------------------------------------------------------------------
(* The segment as one FIFO. *)

\* The n messages from number base on, in sending order.
Run(base, n) == [i \in 1 .. n |-> base + (i - 1)]

\* A run of message numbers, and what sending and releasing one message make of it.
LEMMA RunSteps ==
  ASSUME NEW base \in Nat, NEW n \in Nat
  PROVE  /\ Run(base, n) \in Seq(Nat) /\ Len(Run(base, n)) = n
         /\ Append(Run(base, n), base + n) = Run(base, n + 1)
         /\ n = 0 <=> Run(base, n) = <<>>
         /\ n > 0 => Head(Run(base, n)) = base /\ Tail(Run(base, n)) = Run(base + 1, n - 1)
<1>1. Run(base, n) \in Seq(Nat) /\ Len(Run(base, n)) = n
  BY DEF Run
<1>2. Append(Run(base, n), base + n) = Run(base, n + 1)
  BY <1>1 DEF Run
<1>3. ASSUME n > 0 PROVE Head(Run(base, n)) = base /\ Tail(Run(base, n)) = Run(base + 1, n - 1)
  <2>1. Head(Run(base, n)) = base
    BY <1>1, <1>3 DEF Run
  <2>2. Tail(Run(base, n)) \in Seq(Nat) /\ Len(Tail(Run(base, n))) = n - 1
    BY <1>1, <1>3
  <2>3. Run(base + 1, n - 1) \in Seq(Nat) /\ Len(Run(base + 1, n - 1)) = n - 1
    BY <1>3 DEF Run
  <2>4. ASSUME NEW i \in 1 .. n - 1 PROVE Tail(Run(base, n))[i] = Run(base + 1, n - 1)[i]
    <3>1. Tail(Run(base, n))[i] = Run(base, n)[i + 1]
      BY <1>1, <1>3
    <3> QED
      BY <1>3, <3>1 DEF Run
  <2>5. \A s, t \in Seq(Nat) : Len(s) = Len(t) /\ (\A i \in 1 .. Len(s) : s[i] = t[i]) => s = t
    OBVIOUS
  <2> QED
    BY <2>1, <2>2, <2>3, <2>4, <2>5
<1> QED
  BY <1>1, <1>2, <1>3

\* The ring holds the run from the oldest unreleased message on, and a consumer in
\* a call has the first of it.
HoldsRun ==
  /\ Contents = Run(popped, Used) /\ Used \in 0 .. Capacity - 1
  /\ popped \in Nat /\ pushed = popped + Used
  /\ InHand # <<>> => InHand = <<popped>> /\ Used > 0

\* It does after clean takeovers.
LEMMA ContentsAreRun == TakeoverInv /\ clean => HoldsRun
<1> SUFFICES ASSUME TakeoverInv, clean PROVE HoldsRun
  OBVIOUS
<1>1. RingInv /\ Types
  BY DEF TakeoverInv
<1>2. Used \in 0 .. Capacity - 1 /\ Used = usedSlots(writeIdx, readIdx)
  BY <1>1, UsedRange DEF RingInv, Types, Index
<1>3. popped \in Nat /\ pushed = popped + Used
  BY <1>1 DEF Types, Used
<1>4. ASSUME NEW i \in 1 .. Used PROVE slots[SlotAt(readIdx, i - 1)] = popped + (i - 1)
  <2>1. i - 1 \in 0 .. Used - 1
    BY <1>2
  <2> QED
    BY <1>1, <2>1 DEF RingInv
<1>5. Contents = Run(popped, Used)
  BY <1>4 DEF Contents, Run
<1>6. ASSUME InHand # <<>> PROVE InHand = <<popped>> /\ Used > 0
  <2>1. PICK h \in Consumers \cap inCall : TRUE
    BY <1>6 DEF InHand
  <2>2. cpc[h] = "bound" /\ usedSlots(cache[h], readIdx) \in Index
    BY <2>1, <1>1, UsedRange DEF TakeoverInv, CallInv, Types, Procs
  <2>3. 0 < usedSlots(cache[h], readIdx) /\ usedSlots(cache[h], readIdx) <= Used /\ got = popped
    BY <1>1, <1>2, <2>1, <2>2 DEF RingInv, Consumes
  <2>4. Used > 0
    BY <1>2, <2>2, <2>3 DEF Index
  <2> QED
    BY <2>1, <2>3, <2>4 DEF InHand
<1> QED
  BY <1>2, <1>3, <1>5, <1>6 DEF HoldsRun

\* Before and after a step.
LEMMA RunsInRing ==
  ASSUME TakeoverInv, TakeoverInv', clean, clean'
  PROVE  /\ HoldsRun
         /\ Contents' = Run(popped', Used') /\ Used' \in 0 .. Capacity - 1
         /\ popped' \in Nat /\ pushed' = popped' + Used'
         /\ InHand' # <<>> => InHand' = <<popped'>> /\ Used' > 0
<1>1. HoldsRun
  BY ContentsAreRun, Zenon
<1>2. HoldsRun'
  BY ContentsAreRun, PTL
<1>3. Run(popped, Used)' = Run(popped', Used')
  BY DEF Run
<1> QED
  BY <1>1, <1>2, <1>3 DEF HoldsRun

\* A step the FIFO's users do not see.
LEMMA QuietStep ==
  ASSUME TakeoverInv, TakeoverInv', clean, clean', UNCHANGED <<pushed, popped>>, InHand' = InHand
  PROVE  UNCHANGED Fifo!vars
<1>1. Used' = Used
  BY DEF Used
<1>2. Contents' = Contents
  BY <1>1, RunsInRing DEF HoldsRun
<1> QED
  BY <1>2 DEF Fifo!vars

\* The store of writeIdx sends a message, for which there is room.
LEMMA PublishSends ==
  ASSUME TakeoverInv, TakeoverInv', clean, clean', NEW h \in Producers, PushPublish(h)
  PROVE  Fifo!Send
<1>1. pushed' = pushed + 1 /\ popped' = popped /\ InHand' = InHand
  BY TakeoverConstants DEF PushPublish, InHand
<1>2. /\ Contents = Run(popped, Used) /\ Used \in 0 .. Capacity - 1
      /\ popped \in Nat /\ pushed = popped + Used
  BY RunsInRing DEF HoldsRun
<1>3. Contents' = Run(popped', Used') /\ Used' \in 0 .. Capacity - 1
  BY RunsInRing
<1>4. Used' = Used + 1
  BY <1>1, <1>2 DEF Used
<1>5. Len(Contents) = Used /\ Contents' = Append(Contents, pushed)
  <2>1. Used \in Nat
    BY <1>2
  <2>2. Len(Run(popped, Used)) = Used /\ Append(Run(popped, Used), popped + Used) = Run(popped, Used + 1)
    BY <1>2, <2>1, RunSteps
  <2> QED
    BY <1>1, <1>2, <1>3, <1>4, <2>2
<1>6. Len(Contents) < Capacity - 1
  BY <1>2, <1>3, <1>4, <1>5, TakeoverConstants
<1> QED
  BY <1>1, <1>5, <1>6 DEF Fifo!Send

\* try_pop either finds the ring empty, which nobody sees, or receives the oldest
\* message and leaves it where it is.
LEMMA TryPopReceives ==
  ASSUME TakeoverInv, TakeoverInv', clean, clean', NEW h \in Consumers, TryPop(h)
  PROVE  Fifo!Receive \/ UNCHANGED Fifo!vars
<1>1. UNCHANGED <<pushed, popped>> /\ cpc[h] = "bound" /\ h \notin inCall
  BY DEF TryPop, ring
<1>2. CASE UNCHANGED <<inCall, got>>
  BY <1>1, <1>2, QuietStep DEF InHand
<1>3. CASE inCall' = inCall \cup {h}
  <2>1. InHand = <<>>
    <3>1. \A g \in Consumers : cpc[g] = "bound" => g = h
      BY <1>1, OneOwner DEF TakeoverInv
    <3>2. inCall \cap Consumers = {}
      BY <1>1, <3>1 DEF TakeoverInv, CallInv
    <3> QED
      BY <3>2 DEF InHand
  <2>2. InHand' # <<>>
    BY <1>3 DEF InHand
  <2>3. InHand' = <<popped>> /\ Used' = Used /\ Used' > 0
    BY <1>1, <2>2, RunsInRing DEF Used
  <2>4. Contents = Run(popped, Used) /\ Contents' = Contents /\ popped \in Nat /\ Used \in Nat
    BY <1>1, <2>3, RunsInRing DEF HoldsRun
  <2>5. Contents # <<>> /\ Head(Contents) = popped
    <3>1. Used > 0 /\ Used # 0
      BY <2>3, <2>4
    <3>2. Run(popped, Used) # <<>> /\ Head(Run(popped, Used)) = popped
      BY <2>4, <3>1, RunSteps
    <3> QED
      BY <2>4, <3>2
  <2> QED
    BY <1>1, <2>1, <2>3, <2>4, <2>5 DEF Fifo!Receive
<1> QED
  BY <1>2, <1>3 DEF TryPop

\* The store of readIdx releases the message in hand.
LEMMA ReleaseReleases ==
  ASSUME TakeoverInv, TakeoverInv', clean, clean', NEW h \in Consumers, PopRelease(h)
  PROVE  Fifo!Release
<1>1. pushed' = pushed /\ popped' = popped + 1 /\ h \in inCall /\ inCall' = inCall \ {h}
  BY DEF PopRelease
<1>2. InHand # <<>> /\ InHand' = <<>>
  <2>1. cpc[h] = "bound"
    BY <1>1 DEF TakeoverInv, CallInv
  <2>2. \A g \in Consumers : cpc[g] = "bound" => g = h
    BY <2>1, OneOwner DEF TakeoverInv
  <2>3. inCall \cap Consumers # {} /\ inCall' \cap Consumers = {}
    BY <1>1, <2>2 DEF TakeoverInv, CallInv
  <2> QED
    BY <2>3 DEF InHand
<1>3. Contents = Run(popped, Used) /\ Used \in Nat /\ Used > 0 /\ popped \in Nat /\ pushed = popped + Used
  BY <1>2, RunsInRing DEF HoldsRun
<1>4. Contents' = Run(popped', Used')
  BY RunsInRing
<1>5. Used' = Used - 1
  BY <1>1, <1>3 DEF Used
<1>6. Contents' = Tail(Contents)
  BY <1>1, <1>3, <1>4, <1>5, RunSteps
<1> QED
  BY <1>1, <1>2, <1>6 DEF Fifo!Release

\* A death takes the message out of the hand it was in, and leaves it in the ring.
LEMMA DeathAbandons ==
  ASSUME TakeoverInv, TakeoverInv', clean, clean', NEW p \in Procs, Die(p)
  PROVE  Fifo!Abandon \/ UNCHANGED Fifo!vars
<1>1. UNCHANGED <<pushed, popped>> /\ inCall' = inCall \ {p}
      /\ got' = IF p \in Consumers \cap inCall THEN Torn ELSE got
  BY DEF Die, ring
<1>2. CASE p \in Consumers \cap inCall
  <2>1. InHand # <<>> /\ InHand' = <<>>
    BY <1>1, <1>2, OneOwner DEF TakeoverInv, CallInv, InHand
  <2>2. Used' = Used
    BY <1>1 DEF Used
  <2>3. Contents' = Contents
    BY <1>1, <2>2, RunsInRing DEF HoldsRun
  <2> QED
    BY <1>1, <2>1, <2>3 DEF Fifo!Abandon
<1>3. CASE p \notin Consumers \cap inCall
  <2>1. inCall' \cap Consumers = inCall \cap Consumers /\ got' = got
    BY <1>1, <1>3
  <2> QED
    BY <1>1, <2>1, QuietStep DEF InHand
<1> QED
  BY <1>2, <1>3

\* Every step of a history whose takeovers are clean is a step of the FIFO or not seen.
LEMMA StepIsFifo ==
  ASSUME TakeoverInv, TakeoverInv', clean', [Next]_vars
  PROVE  Fifo!Next \/ UNCHANGED Fifo!vars
<1>1. clean
  BY DEF Next, ProducerBindStart, ProducerBind, TryPush, PushPublish, ConsumerBindStart, ConsumerBind,
         TryPop, PopRelease, Detach, Spawn, Die, Reap, history, vars
<1>2. CASE UNCHANGED <<ring, inCall, got>>
  BY <1>1, <1>2, QuietStep DEF ring, InHand
<1>3. ASSUME NEW h \in Producers, TryPush(h) PROVE UNCHANGED Fifo!vars
  <2>1. UNCHANGED <<pushed, popped, got>> /\ inCall' \cap Consumers = inCall \cap Consumers
    BY <1>3, TakeoverConstants DEF TryPush
  <2> QED
    BY <1>1, <2>1, QuietStep DEF InHand
<1>4. CASE \E h \in Producers : ProducerBindStart(h) \/ ProducerBind(h)
  BY <1>2, <1>4 DEF ProducerBindStart, ProducerBind
<1>5. CASE \E h \in Consumers : ConsumerBindStart(h) \/ ConsumerBind(h)
  BY <1>2, <1>5 DEF ConsumerBindStart, ConsumerBind
<1>6. CASE \E h \in Procs : Detach(h) \/ Spawn(h) \/ Reap(h)
  BY <1>2, <1>6 DEF Detach, Spawn, Reap, call
<1>7. CASE UNCHANGED vars
  BY <1>2, <1>7 DEF vars, call
<1> QED
  BY <1>1, <1>3, <1>4, <1>5, <1>6, <1>7, PublishSends, TryPopReceives, ReleaseReleases, DeathAbandons
     DEF Next, Fifo!Next

\* However many processes die in the middle of a push or a pop and however many
\* take over, clean takeovers lose nothing, repeat nothing released and show no
\* torn message.
THEOREM InOrderAcrossTakeovers == Spec => []TakeoverInOrder
<1>1. TakeoverInv => TakeoverInOrder
  BY DEF TakeoverInv, RingInv, TakeoverInOrder
<1> QED
  BY <1>1, TakeoverInvariant, PTL

\* The messages published and not released are in the ring whoever died.
THEOREM UnreleasedAlwaysKept == Spec => []UnreleasedKept
<1>1. TakeoverInv => UnreleasedKept
  BY DEF TakeoverInv, RingInv, UnreleasedKept
<1> QED
  BY <1>1, TakeoverInvariant, PTL

\* After clean takeovers the owners' cached indices promise neither space nor
\* messages that are not there.
THEOREM CachesAfterTakeovers == Spec => []CleanTakeoverConservative
<1>1. TakeoverInv => CleanTakeoverConservative
  <2> SUFFICES ASSUME TakeoverInv, clean PROVE OwnersCacheConservative
    BY DEF CleanTakeoverConservative
  <2>1. RingInv
    BY DEF TakeoverInv
  <2>2. Used = usedSlots(writeIdx, readIdx) /\ usedSlots(writeIdx, readIdx) \in Int
    <3>1. writeIdx \in Index /\ readIdx \in Index
      BY DEF TakeoverInv, Types
    <3>2. Used = usedSlots(writeIdx, readIdx)
      BY <2>1, Zenon DEF RingInv
    <3>3. usedSlots(writeIdx, readIdx) \in Index /\ Index \subseteq Int
      BY <3>1, UsedRange DEF Index
    <3> QED
      BY <3>2, <3>3, Zenon
  <2>3. \A h \in Producers : usedSlots(writeIdx, cache[h]) \in Int
    BY UsedRange DEF TakeoverInv, Types, Index, Procs
  <2> QED
    BY <2>1, <2>2, <2>3 DEF RingInv, Produces, Consumes, OwnersCacheConservative
<1> QED
  BY <1>1, TakeoverInvariant, PTL

\* With any number of producers and consumers that die in the middle of a call and
\* are replaced, a segment whose takeovers are clean is one bounded FIFO: what is
\* published is received in order, and what is not released is received again.
THEOREM TakeoversShareFifo == Spec => TakeoverIsFifo
<1>1. Init => Fifo!Init
  <2> SUFFICES ASSUME Init PROVE Fifo!Init
    OBVIOUS
  <2>1. TakeoverInv /\ clean /\ pushed = 0 /\ popped = 0 /\ inCall = {}
    BY TakeoverInit DEF Init
  <2>2. HoldsRun
    BY <2>1, ContentsAreRun, Zenon
  <2>3. Contents = Run(0, 0) /\ InHand = <<>>
    BY <2>1, <2>2 DEF HoldsRun, Used, InHand
  <2>4. Contents = <<>> /\ Capacity - 1 \in Nat \ {0}
    BY <2>3, RunSteps, TakeoverConstants
  <2> QED
    BY <2>1, <2>3, <2>4 DEF Fifo!Init
<1>2. TakeoverInv /\ TakeoverInv' /\ [Next]_vars => [clean' => Fifo!Next \/ UNCHANGED Fifo!vars]_vars
  BY StepIsFifo
<1> QED
  BY <1>1, <1>2, TakeoverInvariant, PTL DEF Spec, TakeoverIsFifo

\* Beside the ring, with calls, deaths and takeovers of the other role in between,
\* each of the two claims is still granted as a lock is.
THEOREM RolesStayLocks == Spec => PS!RoleIsLock /\ CS!RoleIsLock
<1>1. Init => PS!Lock!Init /\ CS!Lock!Init
  <2>1. Init => PS!Lock!Init
    BY DEF Init, P!Init, PS!Lock!Init, PS!Lock!None, PS!Owner, PS!Detached
  <2>2. Init => CS!Lock!Init
    BY DEF Init, P!Init, C!Init, CS!Lock!Init, CS!Lock!None, CS!Owner, CS!Detached
  <2> QED
    BY <2>1, <2>2
<1>2. TakeoverInv /\ [Next]_vars => [PS!Lock!Next]_(PS!Lock!vars)
  BY ProducerSlotNext, SlotsConstants, PS!LockStep DEF TakeoverInv
<1>3. TakeoverInv /\ [Next]_vars => [CS!Lock!Next]_(CS!Lock!vars)
  BY ConsumerSlotNext, SlotsConstants, CS!LockStep DEF TakeoverInv
<1> QED
  BY <1>1, <1>2, <1>3, TakeoverInvariant, PTL DEF Spec, PS!RoleIsLock, CS!RoleIsLock, PS!Lock!Spec, CS!Lock!Spec

=============================================================================
