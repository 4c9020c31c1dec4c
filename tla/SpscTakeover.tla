---------------------------- MODULE SpscTakeover ----------------------------
(***************************************************************************)
(* The ring and its two pid slots together, over the life of several       *)
(* processes: owners die in the middle of a call or detach, and other      *)
(* processes take the role over.  try_push and try_pop are cut only where  *)
(* a crash shows: between the copy and the store that publishes it.        *)
(* SpscRing has their finer steps.  Every process has one handle, named by *)
(* its pid.                                                                *)
(***************************************************************************)
EXTENDS Integers

CONSTANTS Capacity,   \* slots of the ring, the slack slot included
          Producers,  \* processes that attach as producer
          Consumers,  \* processes that attach as consumer
          MaxMsgs     \* messages published over all producers (bound)

ASSUME TakeoverConstants ==
  /\ Capacity \in Nat \ {0, 1}
  /\ Producers \cup Consumers \subseteq Nat \ {0}
  /\ Producers \cap Consumers = {}
  /\ MaxMsgs \in Nat

Procs == Producers \cup Consumers

VARIABLES
  writeIdx, readIdx, slots, producerPid, consumerPid,  \* the segment
  proc,            \* the processes
  ppc, pexpected,  \* bind() of the producers' handles
  cpc, cexpected,  \* bind() of the consumers' handles
  cache,           \* each handle's cached peer index
  inCall,          \* handles between their copy and the store that ends the call
  got,             \* the message the consumer in a call has copied
  pushed, popped,  \* history: messages published and released
  overtaken,       \* history: handles in bind() whose role's index moved since
                   \* they loaded their cache
  clean            \* history: no overtaken handle has claimed its role

ring    == <<writeIdx, readIdx, slots, pushed, popped>>
pslot   == <<producerPid, ppc, pexpected>>
cslot   == <<consumerPid, cpc, cexpected>>
call    == <<cache, inCall, got>>
history == <<overtaken, clean>>
vars    == <<ring, pslot, cslot, proc, call, history>>

P == INSTANCE RoleSlot WITH Handles <- Producers, PidOf <- [h \in Producers |-> h],
       UserOf <- [p \in Procs |-> 0], PidsReused <- FALSE,
       slot <- producerPid, pc <- ppc, expected <- pexpected
C == INSTANCE RoleSlot WITH Handles <- Consumers, PidOf <- [h \in Consumers |-> h],
       UserOf <- [p \in Procs |-> 0], PidsReused <- FALSE,
       slot <- consumerPid, pc <- cpc, expected <- cexpected

Torn == -1

NextIdx(i) == IF i + 1 = Capacity THEN 0 ELSE i + 1
usedSlots(w, r) == IF w >= r THEN w - r ELSE w + Capacity - r

\* Messages published and not released, and where the j-th of them belongs.
Used == pushed - popped
SlotAt(start, j) == IF start + j < Capacity THEN start + j ELSE start + j - Capacity

Init ==
  /\ writeIdx = 0 /\ readIdx = 0
  /\ slots = [s \in 0 .. Capacity - 1 |-> Torn]
  /\ pushed = 0 /\ popped = 0
  /\ P!Init /\ C!Init
  /\ cache = [h \in Procs |-> 0] /\ inCall = {} /\ got = Torn
  /\ overtaken = {} /\ clean = TRUE

-----------------------------------------------------------------------------
(* bind(): the cached indices are loaded first, then the slot is claimed. *)

\* The handle is destroyed, or its process gone; another one starts afresh.
HandleEnds(h) ==
  /\ cache' = [cache EXCEPT ![h] = 0]
  /\ overtaken' = overtaken \ {h}

ProducerBindStart_NoLoad(h) ==
  /\ P!BindStart(h)
  /\ UNCHANGED <<ring, cslot, call, history>>

ProducerBindStart(h) ==
  /\ P!BindStart(h)
  /\ cache' = [cache EXCEPT ![h] = readIdx]
  /\ UNCHANGED <<ring, cslot, inCall, got, history>>

ConsumerBindStart_NoLoad(h) ==
  /\ C!BindStart(h)
  /\ UNCHANGED <<ring, pslot, call, history>>

ConsumerBindStart(h) ==
  /\ C!BindStart(h)
  /\ cache' = [cache EXCEPT ![h] = writeIdx]
  /\ UNCHANGED <<ring, pslot, inCall, got, history>>

ProducerBind(h) ==
  /\ P!BindLoad(h) \/ P!BindTest(h) \/ P!BindCas(h) \/ P!BindCasSpurious(h)
  /\ clean' = (clean /\ ~(ppc'[h] = "bound" /\ h \in overtaken))
  /\ IF ppc'[h] = "out" THEN HandleEnds(h) ELSE UNCHANGED <<cache, overtaken>>
  /\ UNCHANGED <<ring, cslot, inCall, got>>

ConsumerBind(h) ==
  /\ C!BindLoad(h) \/ C!BindTest(h) \/ C!BindCas(h) \/ C!BindCasSpurious(h)
  /\ clean' = (clean /\ ~(cpc'[h] = "bound" /\ h \in overtaken))
  /\ IF cpc'[h] = "out" THEN HandleEnds(h) ELSE UNCHANGED <<cache, overtaken>>
  /\ UNCHANGED <<ring, pslot, inCall, got>>

-----------------------------------------------------------------------------
(* The producer and the consumer. *)

\* try_push up to the copy, which leaves the slot torn if the process dies.
TryPush(h) ==
  LET next == NextIdx(writeIdx) IN
  /\ ppc[h] = "bound" /\ h \notin inCall /\ pushed < MaxMsgs
  /\ cache' = [cache EXCEPT ![h] = IF next = @ THEN readIdx ELSE @]
  /\ \/ next = cache'[h] /\ UNCHANGED <<slots, inCall>>
     \/ /\ next # cache'[h]
        /\ slots' = [slots EXCEPT ![writeIdx] = Torn]
        /\ inCall' = inCall \cup {h}
  /\ UNCHANGED <<writeIdx, readIdx, pushed, popped, pslot, cslot, proc, got, history>>

\* The end of the copy and the store of writeIdx.
PushPublish(h) ==
  /\ h \in Producers \cap inCall
  /\ slots' = [slots EXCEPT ![writeIdx] = pushed]
  /\ writeIdx' = NextIdx(writeIdx)
  /\ pushed' = pushed + 1
  /\ inCall' = inCall \ {h}
  /\ overtaken' = overtaken \cup {g \in Producers : ppc[g] \in {"load", "test", "cas"}}
  /\ UNCHANGED <<readIdx, popped, pslot, cslot, proc, cache, got, clean>>

\* try_pop up to and with the copy.
TryPop(h) ==
  /\ cpc[h] = "bound" /\ h \notin inCall
  /\ cache' = [cache EXCEPT ![h] = IF readIdx = @ THEN writeIdx ELSE @]
  /\ \/ readIdx = cache'[h] /\ UNCHANGED <<inCall, got>>
     \/ readIdx # cache'[h] /\ got' = slots[readIdx] /\ inCall' = inCall \cup {h}
  /\ UNCHANGED <<ring, pslot, cslot, proc, history>>

\* The store of readIdx.
PopRelease(h) ==
  /\ h \in Consumers \cap inCall
  /\ readIdx' = NextIdx(readIdx)
  /\ popped' = popped + 1
  /\ inCall' = inCall \ {h}
  /\ got' = Torn
  /\ overtaken' = overtaken \cup {g \in Consumers : cpc[g] \in {"load", "test", "cas"}}
  /\ UNCHANGED <<writeIdx, slots, pushed, pslot, cslot, proc, cache, clean>>

-----------------------------------------------------------------------------
(* The end of a handle and of a process. *)

Detach(h) ==
  /\ h \notin inCall
  /\ \/ h \in Producers /\ P!Detach(h) /\ UNCHANGED cslot
     \/ h \in Consumers /\ C!Detach(h) /\ UNCHANGED pslot
  /\ HandleEnds(h)
  /\ UNCHANGED <<ring, inCall, got, clean>>

Spawn(p) == P!Spawn(p) /\ UNCHANGED <<ring, pslot, cslot, call, history>>

Die(p) ==
  /\ P!Die(p) /\ C!Die(p)
  /\ inCall' = inCall \ {p}
  /\ got' = IF p \in Consumers \cap inCall THEN Torn ELSE got
  /\ HandleEnds(p)
  /\ UNCHANGED <<ring, clean>>

Reap(p) == P!Reap(p) /\ UNCHANGED <<ring, pslot, cslot, call, history>>

Next ==
  \/ \E h \in Producers : ProducerBindStart(h) \/ ProducerBind(h) \/ TryPush(h) \/ PushPublish(h)
  \/ \E h \in Consumers : ConsumerBindStart(h) \/ ConsumerBind(h) \/ TryPop(h) \/ PopRelease(h)
  \/ \E h \in Procs : Detach(h) \/ Spawn(h) \/ Die(h) \/ Reap(h)

Spec == Init /\ [][Next]_vars

-----------------------------------------------------------------------------
(* Properties. *)

\* A takeover in the middle of which the old owner did not move its index loses
\* nothing, repeats nothing released and shows no torn message, whoever died in
\* the middle of a push or a pop before (README.md:214).
TakeoverInOrder == clean /\ inCall \cap Consumers # {} => got = popped

\* The message a consumer has copied and not released survives its death: it is
\* still in the ring, for the next consumer.
UnreleasedKept ==
  clean => /\ Used = usedSlots(writeIdx, readIdx)
           /\ \A j \in 0 .. Used - 1 : slots[SlotAt(readIdx, j)] = popped + j

\* The cached indices of the current owners err towards "no space" and "nothing
\* there" (README.md:108).
OwnersCacheConservative ==
  /\ \A h \in Producers : ppc[h] = "bound" =>
       usedSlots(writeIdx, cache[h]) >= Used
  /\ \A h \in Consumers : cpc[h] = "bound" => usedSlots(cache[h], readIdx) <= Used

\* They do after every clean takeover.
CleanTakeoverConservative == clean => OwnersCacheConservative

\* The messages published and not released, oldest first, read off the slots, and
\* what the consumer in a call has copied.
Contents == [i \in 1 .. Used |-> slots[SlotAt(readIdx, i - 1)]]
InHand   == IF inCall \cap Consumers # {} THEN <<got>> ELSE <<>>

\* As long as takeovers are clean, all the producers and consumers of a segment's
\* life together use one bounded FIFO: each publication adds one message at its
\* end and only if there is room, each release takes away the one message the
\* consumer has read at its front, and a death in the middle of a call takes
\* nothing out and adds nothing.
Fifo == INSTANCE CrashFifo WITH
          bound <- Capacity - 1, fifo <- Contents, sent <- pushed, hand <- InHand
TakeoverIsFifo ==
  Fifo!Init /\ [][clean' => Fifo!Next \/ UNCHANGED Fifo!vars]_vars

=============================================================================
