------------------------------ MODULE Blocking ------------------------------
(***************************************************************************)
(* The calls that wait, push(v), pop(out) and waitForPeer, in the programs *)
(* that use them: producers that send Total messages each and a consumer   *)
(* that drains the ring (src/demo_producer.cpp, src/demo_consumer.cpp).    *)
(* try_push, try_pop and pop_n are single steps on the ring, as SpscRing   *)
(* shows they may be.  A process runs its program once, and is named by    *)
(* its pid.                                                                *)
(***************************************************************************)
EXTENDS Integers, Sequences, FiniteSets

CONSTANTS Producers,       \* pids of the producers
          Consumer,        \* pid of the consumer
          Creators,        \* the processes that may be the one to call create()
          ParentOf,        \* who waits for a process: another one, or 0, a shell
          Bound,           \* capacity() of the ring
          Batch,           \* size of the demo's buffer
          PeerCheckSpins,  \* push and pop look for the peer after so many tries
          Total            \* messages each producer sends

Procs == Producers \cup {Consumer}

ASSUME BlockingConstants ==
  /\ Procs \subseteq Nat \ {0} /\ Consumer \notin Producers
  /\ Creators \subseteq Procs
  /\ ParentOf \in [Procs -> Procs \cup {0}]
  /\ {Bound, Batch} \subseteq Nat \ {0} /\ {PeerCheckSpins, Total} \subseteq Nat

VARIABLES
  creator,      \* who calls create(); the others call attach()
  style,        \* how the consumer drains: "pop", or "pop_n" as in the demo
  slots, writeIdx, readIdx,  \* the ring of messages, each with its sender and seq
  producerPid, consumerPid, named,  \* the pid slots, and whether the name exists
  proc, pc,     \* each process, and where its program is
  cache,        \* each handle's copy of the peer's index
  spins, seen,  \* locals of push, pop, peerAlive and bind
  sent, expect, errors,  \* locals of the demo's main()s
  gaveUp,       \* history: the processes that gave up on their peer
  goneThen,     \* history: producers that had ended when the consumer saw no peer
  heard,        \* history: senders of the messages received
  overtaken,    \* history: producers in bind() since whose load writeIdx moved
  clean         \* history: none of them has claimed the role

program == <<creator, style>>
ring    == <<slots, writeIdx, readIdx>>
segment == <<ring, producerPid, consumerPid, named>>
locals  == <<cache, spins, seen, sent, expect, errors>>
takeovers == <<overtaken, clean>>
history == <<gaveUp, goneThen, heard, takeovers>>
vars    == <<program, segment, proc, pc, locals, history>>

MinOf(a, b) == IF a <= b THEN a ELSE b
Detached == -1

\* capacity_, one slot more than the ring holds.
Size == Bound + 1

usedSlots(w, r) == IF w >= r THEN w - r ELSE w + Size - r
SlotAt(start, j) == IF start + j < Size THEN start + j ELSE start + j - Size

\* The n messages from readIdx on, and all of them.
Oldest(n) == [i \in 1 .. n |-> slots[SlotAt(readIdx, i - 1)]]
fifo == Oldest(usedSlots(writeIdx, readIdx))

OwnSlot(p)  == IF p = Consumer THEN consumerPid ELSE producerPid
PeerSlot(p) == IF p = Consumer THEN producerPid ELSE consumerPid
Ended == {p \in Procs : proc[p] \in {"zombie", "gone"}}

Init ==
  /\ creator \in Creators /\ style \in {"pop", "pop_n"}
  /\ slots = [i \in 0 .. Bound |-> [from |-> 0, seq |-> 0]] /\ writeIdx = 0 /\ readIdx = 0
  /\ producerPid = 0 /\ consumerPid = 0 /\ named = FALSE
  /\ proc = [p \in Procs |-> "new"] /\ pc = [p \in Procs |-> "out"]
  /\ cache = [p \in Procs |-> 0] /\ spins = [p \in Procs |-> 0] /\ seen = [p \in Procs |-> 0]
  /\ sent = [p \in Producers |-> 0] /\ expect = 0 /\ errors = 0
  /\ gaveUp = {} /\ goneThen = {} /\ heard = {} /\ overtaken = {} /\ clean = TRUE

\* A call returns, or a loop goes round.
Goto(p, where) == pc' = [pc EXCEPT ![p] = where]

\* A process ends; its variables end with it.
Exit(p) ==
  /\ proc' = [proc EXCEPT ![p] = "zombie"] /\ Goto(p, "out")
  /\ cache' = [cache EXCEPT ![p] = 0]
  /\ spins' = [spins EXCEPT ![p] = 0] /\ seen' = [seen EXCEPT ![p] = 0]
  /\ overtaken' = overtaken \ {p} /\ UNCHANGED clean

\* main() returns: the destructor of the queue detaches, and unlinks the name if
\* this process made it.
Finish_ClearsSlot(p) ==
  /\ producerPid' = IF producerPid = p THEN 0 ELSE producerPid
  /\ consumerPid' = IF consumerPid = p THEN 0 ELSE consumerPid
  /\ named' = (named /\ p # creator)
  /\ Exit(p)
Finish(p) ==
  /\ producerPid' = IF producerPid = p THEN Detached ELSE producerPid
  /\ consumerPid' = IF consumerPid = p THEN Detached ELSE consumerPid
  /\ named' = (named /\ p # creator)
  /\ Exit(p)

-----------------------------------------------------------------------------
(* Beginning: create() or attach(), then waitForPeer(). *)

processAlive(pid) == pid > 0 /\ proc[pid] \in {"running", "zombie"}

Start(p) ==
  /\ proc[p] = "new" /\ (ParentOf[p] # 0 => proc[ParentOf[p]] = "running")
  /\ proc' = [proc EXCEPT ![p] = "running"] /\ Goto(p, "start")
  /\ UNCHANGED <<program, segment, locals, history>>

Takes(p) ==
  IF p = Consumer THEN consumerPid' = p /\ UNCHANGED producerPid
                  ELSE producerPid' = p /\ UNCHANGED consumerPid

\* create(), whose bind() nobody else can disturb.  The creator may wait for its
\* peer; the others have one.
Create(p) ==
  /\ pc[p] = "start" /\ p = creator
  /\ named' = TRUE /\ Takes(p)
  /\ \E where \in {"wait", "main"} : Goto(p, where)
  /\ UNCHANGED <<program, ring, proc, locals, history>>

\* attach() as far as the load of the cached index in bind().
AttachOpen(p) ==
  /\ pc[p] = "start" /\ p # creator /\ named
  /\ cache' = [cache EXCEPT ![p] = IF p = Consumer THEN writeIdx ELSE readIdx]
  /\ Goto(p, "bind")
  /\ UNCHANGED <<program, segment, proc, spins, seen, sent, expect, errors, history>>

\* bind() looks at the slot; it claims it in one step (RoleLock), or throws because
\* of an owner it has seen.
BindLook(p) ==
  /\ pc[p] = "bind"
  /\ seen' = [seen EXCEPT ![p] = OwnSlot(p)]
  /\ UNCHANGED <<program, segment, proc, pc, cache, spins, sent, expect, errors, history>>

BindClaim(p) ==
  /\ pc[p] = "bind" /\ ~processAlive(OwnSlot(p))
  /\ Takes(p)
  /\ seen' = [seen EXCEPT ![p] = 0]
  /\ clean' = (clean /\ p \notin overtaken) /\ overtaken' = overtaken \ {p}
  /\ Goto(p, "main")
  /\ UNCHANGED <<program, ring, named, proc, cache, spins, sent, expect, errors, gaveUp, goneThen, heard>>

\* attach() throws: the deadline passes, or the role is taken.
AttachThrows(p) ==
  /\ \/ pc[p] = "start" /\ p # creator /\ ~named
     \/ pc[p] = "bind" /\ processAlive(seen[p])
  /\ Finish(p)
  /\ UNCHANGED <<program, ring, sent, expect, errors, gaveUp, goneThen, heard>>

\* waitForPeer() looks at the peer's slot until its deadline.  The demo calls it
\* again when it returns false, until g_stop is set; the programs whose producer
\* creates the queue end.
WaitForPeer(p) ==
  /\ pc[p] = "wait" /\ PeerSlot(p) > 0
  /\ Goto(p, "main")
  /\ UNCHANGED <<program, segment, proc, locals, history>>

WaitTimesOut(p) ==
  /\ pc[p] = "wait" /\ PeerSlot(p) <= 0 /\ p \in Producers
  /\ Finish(p)
  /\ UNCHANGED <<program, ring, sent, expect, errors, gaveUp, goneThen, heard>>

-----------------------------------------------------------------------------
(* The loops of the two main()s. *)

LoopEnds(p) ==
  /\ p \in Producers /\ pc[p] = "main" /\ sent[p] = Total
  /\ Finish(p)
  /\ UNCHANGED <<program, ring, sent, expect, errors, gaveUp, goneThen, heard>>

LoopCalls(p) ==
  /\ pc[p] = "main" /\ (p \in Producers => sent[p] < Total)
  /\ Goto(p, "try")
  /\ UNCHANGED <<program, segment, proc, locals, history>>

\* push or pop returns; their count of tries is gone.
Returns(p) == Goto(p, "main") /\ spins' = [spins EXCEPT ![p] = 0]

\* A try failed: another one, or time to look for the peer.  The demo's loop
\* looks every time.
TryFailed(p) ==
  LET limit == IF p = Consumer /\ style = "pop_n" THEN 0 ELSE PeerCheckSpins
  IN  \/ spins[p] < limit /\ spins' = [spins EXCEPT ![p] = @ + 1] /\ UNCHANGED pc
      \/ spins[p] >= limit /\ Goto(p, "peer") /\ UNCHANGED spins

PushTry(p) ==
  LET next == SlotAt(writeIdx, 1) IN
  /\ p \in Producers /\ pc[p] = "try"
  /\ cache' = [cache EXCEPT ![p] = IF next = @ THEN readIdx ELSE @]
  /\ \/ /\ next # cache'[p]
        /\ slots' = [slots EXCEPT ![writeIdx] = [from |-> p, seq |-> sent[p]]]
        /\ writeIdx' = next
        /\ sent' = [sent EXCEPT ![p] = @ + 1]
        /\ overtaken' = overtaken \cup {q \in Producers : pc[q] = "bind"}
        /\ Returns(p)
     \/ next = cache'[p] /\ TryFailed(p) /\ UNCHANGED <<slots, writeIdx, sent, overtaken>>
  /\ UNCHANGED <<program, readIdx, producerPid, consumerPid, named, proc, seen, expect, errors,
                 gaveUp, goneThen, heard, clean>>

\* The messages of a batch whose seq is not the one after the message before.
Gaps_NoResync(batch, first) ==
  {i \in DOMAIN batch : batch[i].seq # first + (i - 1)}
Gaps(batch, first) ==
  {i \in DOMAIN batch : batch[i].seq # IF i = 1 THEN first ELSE batch[i - 1].seq + 1}

\* try_pop and pop_n load writeIdx when the cached one does not promise enough.
PopTry(p) ==
  LET wanted == IF style = "pop_n" THEN Batch ELSE 1
      upTo == IF usedSlots(cache[p], readIdx) < wanted THEN writeIdx ELSE cache[p]
      n == MinOf(wanted, usedSlots(upTo, readIdx))
  IN
  /\ p = Consumer /\ pc[p] = "try"
  /\ cache' = [cache EXCEPT ![p] = upTo]
  /\ \/ /\ n > 0
        /\ readIdx' = SlotAt(readIdx, n)
        /\ errors' = errors + Cardinality(Gaps(Oldest(n), expect))
        /\ expect' = Oldest(n)[n].seq + 1
        /\ heard' = heard \cup {Oldest(n)[i].from : i \in 1 .. n}
        /\ Returns(p)
     \/ n = 0 /\ TryFailed(p) /\ UNCHANGED <<readIdx, errors, expect, heard>>
  /\ UNCHANGED <<program, slots, writeIdx, producerPid, consumerPid, named, proc, seen, sent,
                 gaveUp, goneThen, takeovers>>

-----------------------------------------------------------------------------
(* peerAlive(): the load of the pid, then kill(). *)

PeerLoad(p) ==
  /\ pc[p] = "peer"
  /\ seen' = [seen EXCEPT ![p] = PeerSlot(p)]
  /\ Goto(p, "kill")
  /\ UNCHANGED <<program, segment, proc, cache, spins, sent, expect, errors, history>>

\* Back to the top of the loop: inside push and pop, or in the demo's main().
TryAgain(p) ==
  /\ IF p = Consumer /\ style = "pop_n"
     THEN Returns(p)
     ELSE Goto(p, "try") /\ spins' = [spins EXCEPT ![p] = 1]
  /\ seen' = [seen EXCEPT ![p] = 0]
  /\ UNCHANGED <<segment, proc, cache, gaveUp, takeovers>>

\* push or pop returns false, and the program ends.
GiveUp(p) == Finish(p) /\ gaveUp' = gaveUp \cup {p} /\ UNCHANGED ring

peerAlive_ZeroIsDead(p) == processAlive(seen[p])
peerAlive_NoPidIsAlive(p) == seen[p] <= 0 \/ processAlive(seen[p])
peerAlive(p) == seen[p] = 0 \/ processAlive(seen[p])

PeerAnswer_NoEmptyTest(p) ==
  /\ pc[p] = "kill"
  /\ \/ peerAlive(p) /\ TryAgain(p) /\ UNCHANGED goneThen
     \/ /\ ~peerAlive(p) /\ GiveUp(p)
        /\ goneThen' = IF p = Consumer THEN Ended \cap Producers ELSE goneThen
  /\ UNCHANGED <<program, sent, expect, errors, heard>>

PeerAnswer(p) ==
  /\ pc[p] = "kill"
  /\ \/ peerAlive(p) /\ TryAgain(p) /\ UNCHANGED goneThen
     \/ ~peerAlive(p) /\ p \in Producers /\ GiveUp(p) /\ UNCHANGED goneThen
     \/ /\ ~peerAlive(p) /\ p = Consumer
        /\ goneThen' = Ended \cap Producers
        /\ Goto(p, "empty")
        /\ seen' = [seen EXCEPT ![p] = 0]
        /\ UNCHANGED <<segment, proc, cache, spins, gaveUp, takeovers>>
  /\ UNCHANGED <<program, sent, expect, errors, heard>>

\* The consumer's empty() after it saw no peer.
EmptyTest(p) ==
  /\ pc[p] = "empty"
  /\ \/ writeIdx = readIdx /\ GiveUp(p)
     \/ writeIdx # readIdx /\ TryAgain(p)
  /\ UNCHANGED <<program, sent, expect, errors, goneThen, heard>>

-----------------------------------------------------------------------------
(* Processes and signals. *)

\* SIGINT or SIGTERM set g_stop at some time; the loops see it when they look.
Stopped(p) ==
  /\ pc[p] \in {"wait", "main"}
  /\ Finish(p)
  /\ UNCHANGED <<program, ring, sent, expect, errors, gaveUp, goneThen, heard>>

Die(p) ==
  /\ proc[p] = "running"
  /\ Exit(p)
  /\ UNCHANGED <<program, segment, sent, expect, errors, gaveUp, goneThen, heard>>

\* A shell waits for its children at once, another parent after its program.
Reap(p) ==
  /\ proc[p] = "zombie" /\ (ParentOf[p] # 0 => proc[ParentOf[p]] # "running")
  /\ proc' = [proc EXCEPT ![p] = "gone"]
  /\ UNCHANGED <<program, segment, pc, locals, history>>

Runs(p) ==
  \/ Create(p) \/ AttachOpen(p) \/ BindLook(p) \/ BindClaim(p) \/ AttachThrows(p)
  \/ WaitForPeer(p) \/ WaitTimesOut(p) \/ LoopEnds(p) \/ LoopCalls(p)
  \/ PushTry(p) \/ PopTry(p) \/ PeerLoad(p) \/ PeerAnswer(p) \/ EmptyTest(p)

Next == \E p \in Procs : Start(p) \/ Runs(p) \/ Stopped(p) \/ Die(p) \/ Reap(p)

\* A running process is scheduled, and parents wait for their children.
Fairness == \A p \in Procs : WF_vars(Runs(p)) /\ WF_vars(Reap(p))

Spec == Init /\ [][Next]_vars /\ Fairness

-----------------------------------------------------------------------------
(* Properties. *)

\* pop() and the demo give up on a producer only after its last message: when
\* they do, nothing in the ring is from a producer that had ended by the time
\* the consumer saw its peer dead, however it ended.
NothingLeftBehind ==
  Consumer \in gaveUp => \A i \in DOMAIN fifo : fifo[i].from \notin goneThen

\* push() gives up only on a consumer that has come and gone, not on one that is
\* attached or still to attach.
GivesUpOnGonePeer == gaveUp \cap Producers # {} => Consumer \in Ended

\* As long as no producer claims the role with an index that its predecessor has
\* overtaken (ShmSpscQueue.h:435), the demo counts one sequence error each time
\* another producer takes over, and no other: nothing is lost within the stream of
\* one producer.
ErrorsAreRestarts == clean /\ heard # {} => errors = Cardinality(heard) - 1

\* A producer that has had a peer does not stay in push(): either the consumer
\* makes room, or it is gone and push() says so (ShmSpscQueue.h:323).
InPush(p) == p \in Producers /\ pc[p] \in {"try", "peer", "kill"}
PushReturns == \A p \in Producers : (InPush(p) /\ consumerPid # 0) ~> ~InPush(p)

\* The steps of its own that a push() has left before it returns, when its peer is
\* gone and left a pid or the mark of a detach in its slot.
PushLeft(p) ==
  CASE pc[p] = "try"  -> 3 + (IF spins[p] < PeerCheckSpins THEN PeerCheckSpins - spins[p] ELSE 0)
    [] pc[p] = "peer" -> 2
    [] pc[p] = "kill" -> IF seen[p] = 0 THEN PeerCheckSpins + 4 ELSE 1

\* Once the consumer is gone, push() gives up (ShmSpscQueue.h:323) within a bounded
\* number of its own steps, wherever in its loop it was then and however the
\* consumer ended: each of them comes nearer to the return.
PushGivesUp ==
  [][\A p \in Producers :
       InPush(p) /\ consumerPid # 0 /\ proc[Consumer] = "gone" =>
         \/ UNCHANGED <<pc[p], spins[p], seen[p]>>
         \/ ~InPush(p)'
         \/ PushLeft(p)' < PushLeft(p)]_vars

\* A consumer that has had a producer gets to the end of the stream.
DrainEnds == (pc[Consumer] = "main" /\ producerPid # 0) ~> (pc[Consumer] = "out")

\* The messages the consumer may still take: up to its cached index, and from there
\* to writeIdx.
ToTake == usedSlots(cache[Consumer], readIdx) + usedSlots(writeIdx, cache[Consumer])

\* The steps of its own that the consumer has left, when all producers are gone and
\* one left a pid or the mark of a detach in its slot.  As long as there are
\* messages a try takes some of them; after the last one the tries, the look at the
\* peer and empty() follow.
InDrain == pc[Consumer] \in {"main", "try", "peer", "kill", "empty"}
DrainPlace ==
  LET at == pc[Consumer]
      looks == PeerCheckSpins + 6
  IN  IF ToTake > 0
      THEN CASE at = "try" -> 1 [] at = "main" -> 2 [] at = "empty" -> 3 [] at = "kill" -> 4
             [] at = "peer" -> 5 [] OTHER -> 0
      ELSE CASE at = "main" -> looks
             [] at = "try" -> 4 + (IF spins[Consumer] < PeerCheckSpins
                                   THEN PeerCheckSpins - spins[Consumer] ELSE 0)
             [] at = "peer" -> 3
             [] at = "kill" -> IF seen[Consumer] = 0 THEN looks + 1 ELSE 2
             [] at = "empty" -> 1 [] OTHER -> 0
DrainLeft == ToTake * (PeerCheckSpins + 7) + DrainPlace

\* Once all producers are gone, the consumer, with pop() or as the demo does with
\* pop_n, takes what they left and gives up within a bounded number of its own
\* steps, wherever it was then: each of them comes nearer to its end.
DrainBounded ==
  [][InDrain /\ producerPid # 0 /\ (\A p \in Producers : proc[p] = "gone") =>
       \/ UNCHANGED <<ring, pc[Consumer], spins[Consumer], seen[Consumer]>>
       \/ pc'[Consumer] = "out"
       \/ DrainLeft' < DrainLeft]_vars

\* waitForPeer() returns after the peer has attached (ShmSpscQueue.h:393): the
\* demo's consumer does not wait for a producer that has attached and sent.
PeerNoticed ==
  (pc[Consumer] = "wait" /\ producerPid > 0 /\ fifo # <<>>) ~> (pc[Consumer] # "wait")

=============================================================================
