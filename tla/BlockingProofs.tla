--------------------------- MODULE BlockingProofs ---------------------------
(***************************************************************************)
(* Proofs about Blocking, for any number of producers, any capacity and    *)
(* any batch: where the programs of the processes are, who gives up on     *)
(* whom, and how long it takes.                                            *)
(***************************************************************************)
EXTENDS Blocking, FiniteSetTheorems, TLAPS

Index    == 0 .. Bound
Messages == [from : Producers \cup {0}, seq : Nat]
Active   == {"wait", "main", "try", "peer", "kill"}
Places   == {"out", "start", "bind", "empty"} \cup Active

Types ==
  /\ creator \in Procs
  /\ slots \in [Index -> Messages] /\ writeIdx \in Index /\ readIdx \in Index
  /\ producerPid \in Producers \cup {0, Detached}
  /\ consumerPid \in {Consumer, 0, Detached}
  /\ named \in BOOLEAN
  /\ proc \in [Procs -> {"new", "running", "zombie", "gone"}]
  /\ pc \in [Procs -> Places]
  /\ cache \in [Procs -> Index]
  /\ seen \in [Procs -> Procs \cup {0, Detached}]
  /\ sent \in [Producers -> Nat] /\ expect \in Nat /\ errors \in Nat

\* A process that has not come out of create() or attach().
Pristine(p) == proc[p] = "new" \/ pc[p] \in {"start", "bind"}

\* Nothing happens to the segment before the creator has made it.
CreatorFirst ==
  Pristine(creator) =>
    /\ ~named /\ producerPid = 0 /\ consumerPid = 0
    /\ writeIdx = 0 /\ readIdx = 0 /\ cache[creator] = 0
    /\ \A p \in Procs : pc[p] \in {"out", "start"}

\* Only running processes are in their program.
ProgramInv ==
  /\ Types
  /\ \A p \in Procs : pc[p] # "out" => proc[p] = "running"
  /\ \A p \in Producers : pc[p] # "empty"
  /\ CreatorFirst

\* What producers know about the consumer from its slot.
GoneInv ==
  /\ consumerPid = Detached => Consumer \in Ended
  /\ consumerPid = Consumer => proc[Consumer] # "new"
  /\ \A p \in Producers : pc[p] = "kill" =>
       /\ seen[p] \in {0, Detached, Consumer}
       /\ seen[p] = Detached => Consumer \in Ended
       /\ seen[p] = Consumer => proc[Consumer] # "new"
  /\ gaveUp \cap Producers # {} => Consumer \in Ended

BlockingInv == ProgramInv /\ GoneInv

-----------------------------------------------------------------------------
(* Indices and the ring. *)

\* The pids are numbers above 0.
LEMMA Pids ==
  /\ Producers \subseteq Procs /\ Consumer \in Procs /\ Consumer \notin Producers
  /\ \A p \in Procs : p \in Nat /\ p > 0 /\ p # 0 /\ p # Detached
  /\ Bound \in Nat \ {0} /\ Batch \in Nat \ {0}
  /\ \A p \in Procs : p \in Producers \/ p = Consumer
BY BlockingConstants DEF Procs, Detached

\* usedSlots() is at most capacity(), and 0 only between equal indices.
LEMMA UsedRange ==
  \A a, b \in Index :
    /\ usedSlots(a, b) \in 0 .. Bound /\ usedSlots(a, b) \in Nat
    /\ usedSlots(a, b) = 0 <=> a = b
BY Pids DEF Index, usedSlots, Size

\* From a to c it is no further than by way of b.
LEMMA UsedByWay ==
  \A a, b, c \in Index : usedSlots(a, c) <= usedSlots(b, c) + usedSlots(a, b)
BY Pids DEF Index, usedSlots, Size

\* A write index that moves on by one slot.
LEMMA WriteOne ==
  \A a, b \in Index :
    /\ SlotAt(a, 1) \in Index
    /\ SlotAt(a, 1) = b <=> usedSlots(a, b) = Bound
    /\ usedSlots(a, b) < Bound => usedSlots(SlotAt(a, 1), b) = usedSlots(a, b) + 1
BY Pids DEF Index, usedSlots, SlotAt, Size

\* A read index that moves on by n slots.
LEMMA ReadMany ==
  \A a, b \in Index, n \in Nat : n <= usedSlots(a, b) =>
    SlotAt(b, n) \in Index /\ usedSlots(a, SlotAt(b, n)) = usedSlots(a, b) - n
BY Pids DEF Index, usedSlots, SlotAt, Size

\* The slots that hold messages are slots, none of them is the next to be written,
\* which follows them, and they are counted from any of them.
LEMMA SlotPlaces ==
  \A a, b \in Index :
    /\ \A j \in Nat : j <= usedSlots(a, b) => SlotAt(b, j) \in Index
    /\ \A j \in Nat : j < usedSlots(a, b) => SlotAt(b, j) # a
    /\ SlotAt(b, usedSlots(a, b)) = a
    /\ \A n, j \in Nat : n + j <= usedSlots(a, b) => SlotAt(SlotAt(b, n), j) = SlotAt(b, n + j)
BY Pids DEF Index, usedSlots, SlotAt, Size

\* The messages between two indices, oldest first.
Held(s, w, r) == [i \in 1 .. usedSlots(w, r) |-> s[SlotAt(r, i - 1)]]

\* fifo is what the indices hold, now and after a step.
LEMMA FifoIs == fifo = Held(slots, writeIdx, readIdx) /\ fifo' = Held(slots', writeIdx', readIdx')
BY DEF fifo, Oldest, Held

\* A step that leaves the ring alone leaves its messages alone.
LEMMA SameRing == UNCHANGED <<slots, writeIdx, readIdx>> => fifo' = fifo
BY DEF fifo, Oldest

\* They are a sequence of messages.
LEMMA HeldType ==
  ASSUME NEW s \in [Index -> Messages], NEW w \in Index, NEW r \in Index
  PROVE  /\ Held(s, w, r) \in Seq(Messages) /\ Len(Held(s, w, r)) = usedSlots(w, r)
         /\ \A i \in 1 .. usedSlots(w, r) : Held(s, w, r)[i] = s[SlotAt(r, i - 1)]
<1>1. usedSlots(w, r) \in Nat
  BY UsedRange
<1>2. ASSUME NEW i \in 1 .. usedSlots(w, r) PROVE s[SlotAt(r, i - 1)] \in Messages
  <2>1. i - 1 \in Nat /\ i - 1 <= usedSlots(w, r)
    BY <1>1
  <2> QED
    BY <2>1, SlotPlaces
<1> HIDE DEF Messages
<1>3. Held(s, w, r) \in [1 .. usedSlots(w, r) -> Messages]
  BY <1>2 DEF Held
<1>4. \A i \in 1 .. usedSlots(w, r) : Held(s, w, r)[i] = s[SlotAt(r, i - 1)]
  BY DEF Held
<1> HIDE DEF Held
<1> QED
  BY <1>1, <1>3, <1>4

\* So fifo is one, as long as usedSlots() says.
LEMMA FifoType ==
  ASSUME Types
  PROVE  /\ fifo \in Seq(Messages) /\ Len(fifo) = usedSlots(writeIdx, readIdx) /\ Len(fifo) \in Nat
         /\ Len(fifo) <= Bound /\ (Len(fifo) = 0 <=> writeIdx = readIdx)
         /\ \A i \in 1 .. Len(fifo) : fifo[i] = slots[SlotAt(readIdx, i - 1)]
<1>1. slots \in [Index -> Messages] /\ writeIdx \in Index /\ readIdx \in Index
  BY DEF Types
<1>2. /\ fifo \in Seq(Messages) /\ Len(fifo) = usedSlots(writeIdx, readIdx)
      /\ \A i \in 1 .. usedSlots(writeIdx, readIdx) : fifo[i] = slots[SlotAt(readIdx, i - 1)]
  BY <1>1, FifoIs, HeldType, Zenon
<1>3. usedSlots(writeIdx, readIdx) \in 0 .. Bound /\ (usedSlots(writeIdx, readIdx) = 0 <=> writeIdx = readIdx)
  BY <1>1, UsedRange
<1> QED
  BY <1>2, <1>3, Pids

-----------------------------------------------------------------------------
(* Programs. *)

\* What the end of a process does, however it ends.
LEMMA FinishFacts ==
  ASSUME Types, NEW p \in Procs, Finish(p)
  PROVE  /\ proc' = [proc EXCEPT ![p] = "zombie"] /\ pc' = [pc EXCEPT ![p] = "out"]
         /\ cache' = [cache EXCEPT ![p] = 0] /\ seen' = [seen EXCEPT ![p] = 0]
         /\ overtaken' = overtaken \ {p} /\ clean' = clean
         /\ producerPid' \in {producerPid, Detached} /\ consumerPid' \in {consumerPid, Detached}
         /\ consumerPid' = Detached => consumerPid = Detached \/ p = Consumer
         /\ \A q \in Procs : producerPid = q /\ q # p => producerPid' = q
         /\ named' \in BOOLEAN /\ (named' => named)
         /\ producerPid = 0 => producerPid' = 0
         /\ consumerPid = 0 => consumerPid' = 0
BY Pids DEF Finish, Exit, Goto, Types

\* An ending process keeps the programs consistent.
LEMMA FinishProgram ==
  ASSUME ProgramInv, NEW p \in Procs, Finish(p), pc[p] # "out",
         UNCHANGED <<creator, slots, writeIdx, readIdx, sent, expect, errors>>
  PROVE  ProgramInv'
<1>0. /\ proc' = [proc EXCEPT ![p] = "zombie"] /\ pc' = [pc EXCEPT ![p] = "out"]
      /\ cache' = [cache EXCEPT ![p] = 0] /\ seen' = [seen EXCEPT ![p] = 0]
      /\ producerPid' \in {producerPid, Detached} /\ consumerPid' \in {consumerPid, Detached}
      /\ named' \in BOOLEAN
  BY FinishFacts DEF ProgramInv
<1>1. Types'
  <2>1. proc' \in [Procs -> {"new", "running", "zombie", "gone"}] /\ pc' \in [Procs -> Places]
    BY <1>0 DEF ProgramInv, Types, Places
  <2>2. seen' \in [Procs -> Procs \cup {0, Detached}]
    BY <1>0 DEF ProgramInv, Types
  <2>3. producerPid' \in Producers \cup {0, Detached} /\ consumerPid' \in {Consumer, 0, Detached}
    BY <1>0 DEF ProgramInv, Types
  <2>4. /\ creator' \in Procs /\ slots' \in [Index -> Messages] /\ writeIdx' \in Index /\ readIdx' \in Index
        /\ sent' \in [Producers -> Nat] /\ expect' \in Nat /\ errors' \in Nat
    BY DEF ProgramInv, Types
  <2>5. cache' \in [Procs -> Index]
    BY <1>0, Pids DEF ProgramInv, Types, Index
  <2> QED
    BY <1>0, <2>1, <2>2, <2>3, <2>4, <2>5 DEF Types
<1>2. (\A q \in Procs : pc[q] # "out" => proc[q] = "running")' /\ (\A q \in Producers : pc[q] # "empty")'
  <2>1. \A q \in Procs : q # p => pc'[q] = pc[q] /\ proc'[q] = proc[q]
    BY <1>0 DEF ProgramInv, Types
  <2>2. pc'[p] = "out"
    BY <1>0 DEF ProgramInv, Types
  <2> QED
    BY <2>1, <2>2, Pids DEF ProgramInv
<1>3. CreatorFirst'
  <2>1. SUFFICES ASSUME Pristine(creator)' PROVE CreatorFirst'
    BY DEF CreatorFirst
  <2>2. creator \in Procs /\ p # creator /\ Pristine(creator)
    BY <1>0, <2>1 DEF ProgramInv, Types, Pristine
  <2>3. \A q \in Procs : pc'[q] \in {"out", "start"}
    BY <1>0, <2>2 DEF ProgramInv, Types, CreatorFirst
  <2> QED
    BY <1>0, <2>2, <2>3, FinishFacts, Zenon DEF ProgramInv, Types, CreatorFirst
<1> QED
  BY <1>1, <1>2, <1>3 DEF ProgramInv

\* A process that goes on inside its program, from bind() on, keeps the programs
\* consistent.
LEMMA MoveProgram ==
  ASSUME ProgramInv, NEW p \in Procs, NEW where \in Places \ {"out", "start", "bind"},
         where = "empty" => p = Consumer,
         pc[p] \notin {"out", "start"}, Goto(p, where),
         slots' \in [Index -> Messages], writeIdx' \in Index, readIdx' \in Index,
         producerPid' \in Producers \cup {0, Detached}, consumerPid' \in {Consumer, 0, Detached},
         cache' \in [Procs -> Index], seen' \in [Procs -> Procs \cup {0, Detached}],
         sent' \in [Producers -> Nat], expect' \in Nat, errors' \in Nat,
         UNCHANGED <<creator, named, proc>>
  PROVE  ProgramInv'
<1>1. Types'
  BY Zenon DEF ProgramInv, Types, Goto
<1>2. (\A q \in Procs : pc[q] # "out" => proc[q] = "running")' /\ (\A q \in Producers : pc[q] # "empty")'
  BY Pids DEF ProgramInv, Types, Goto
<1>3. ~Pristine(creator)
  BY DEF ProgramInv, CreatorFirst
<1>4. ~Pristine(creator)'
  BY <1>3 DEF ProgramInv, Types, Goto, Pristine
<1> QED
  BY <1>1, <1>2, <1>4 DEF ProgramInv, CreatorFirst

\* So does one that stays where it is.
LEMMA StayProgram ==
  ASSUME ProgramInv, NEW p \in Procs, pc[p] \notin {"out", "start"}, Types',
         UNCHANGED <<creator, pc, proc>>
  PROVE  ProgramInv'
<1>1. ~Pristine(creator)
  BY DEF ProgramInv, CreatorFirst
<1>2. ~Pristine(creator)'
  BY <1>1 DEF Pristine
<1> QED
  BY <1>2 DEF ProgramInv, CreatorFirst

\* The push of one message, where the cached index leaves room, or a try that failed.
LEMMA PushFacts ==
  ASSUME ProgramInv, NEW p \in Procs, PushTry(p)
  PROVE  /\ p \in Producers /\ pc[p] = "try"
         /\ \E c \in {cache[p], readIdx} :
              /\ cache' = [cache EXCEPT ![p] = c]
              /\ \/ /\ SlotAt(writeIdx, 1) # c
                    /\ slots' = [slots EXCEPT ![writeIdx] = [from |-> p, seq |-> sent[p]]]
                    /\ writeIdx' = SlotAt(writeIdx, 1)
                    /\ sent' = [sent EXCEPT ![p] = @ + 1]
                    /\ overtaken' = overtaken \cup {q \in Producers : pc[q] = "bind"}
                    /\ pc' = [pc EXCEPT ![p] = "main"]
                 \/ /\ UNCHANGED <<slots, writeIdx, sent, overtaken>>
                    /\ (pc' = pc \/ pc' = [pc EXCEPT ![p] = "peer"])
         /\ UNCHANGED <<creator, readIdx, producerPid, consumerPid, named, proc, seen, expect, errors,
                        gaveUp, goneThen, heard, clean>>
<1> DEFINE c == IF SlotAt(writeIdx, 1) = cache[p] THEN readIdx ELSE cache[p]
<1>1. p \in Producers /\ pc[p] = "try" /\ cache' = [cache EXCEPT ![p] = c]
      /\ UNCHANGED <<creator, readIdx, producerPid, consumerPid, named, proc, seen, expect, errors,
                     gaveUp, goneThen, heard, clean>>
  BY DEF PushTry, program
<1>2. cache'[p] = c /\ c \in {cache[p], readIdx}
  BY <1>1 DEF ProgramInv, Types
<1>3. \/ /\ SlotAt(writeIdx, 1) # c
         /\ slots' = [slots EXCEPT ![writeIdx] = [from |-> p, seq |-> sent[p]]]
         /\ writeIdx' = SlotAt(writeIdx, 1)
         /\ sent' = [sent EXCEPT ![p] = @ + 1]
         /\ overtaken' = overtaken \cup {q \in Producers : pc[q] = "bind"}
         /\ pc' = [pc EXCEPT ![p] = "main"]
      \/ /\ UNCHANGED <<slots, writeIdx, sent, overtaken>>
         /\ (pc' = pc \/ pc' = [pc EXCEPT ![p] = "peer"])
  <2> HIDE DEF c
  <2> QED
    BY <1>2 DEF PushTry, Returns, TryFailed, Goto
<1> HIDE DEF c
<1> QED
  BY <1>1, <1>2, <1>3, Zenon

\* The pop of n messages, up to the cached index or the one just loaded, or a try
\* that failed, for which the ring was empty.
LEMMA PopFacts ==
  ASSUME ProgramInv, NEW p \in Procs, PopTry(p)
  PROVE  /\ p = Consumer /\ pc[p] = "try"
         /\ \E upTo \in {cache[p], writeIdx} :
              /\ cache' = [cache EXCEPT ![p] = upTo]
              /\ \/ /\ pc' = [pc EXCEPT ![p] = "main"]
                    /\ \E n \in 1 .. usedSlots(upTo, readIdx) :
                         /\ readIdx' = SlotAt(readIdx, n)
                         /\ errors' = errors + Cardinality(Gaps(Oldest(n), expect))
                         /\ expect' = Oldest(n)[n].seq + 1
                         /\ heard' = heard \cup {Oldest(n)[i].from : i \in 1 .. n}
                 \/ /\ UNCHANGED <<readIdx, errors, expect, heard>> /\ upTo = readIdx /\ writeIdx = readIdx
                    /\ TryFailed(p) /\ (pc' = pc \/ pc' = [pc EXCEPT ![p] = "peer"])
         /\ UNCHANGED <<creator, slots, writeIdx, producerPid, consumerPid, named, proc, seen, sent, gaveUp,
                        goneThen, overtaken, clean>>
<1> DEFINE wanted == IF style = "pop_n" THEN Batch ELSE 1
           upTo == IF usedSlots(cache[p], readIdx) < wanted THEN writeIdx ELSE cache[p]
           n == MinOf(wanted, usedSlots(upTo, readIdx))
<1>1. /\ p = Consumer /\ pc[p] = "try" /\ cache' = [cache EXCEPT ![p] = upTo]
      /\ UNCHANGED <<creator, slots, writeIdx, producerPid, consumerPid, named, proc, seen, sent, gaveUp,
                     goneThen, overtaken, clean>>
  BY DEF PopTry, program, takeovers
<1>2. \/ /\ n > 0
         /\ readIdx' = SlotAt(readIdx, n)
         /\ errors' = errors + Cardinality(Gaps(Oldest(n), expect))
         /\ expect' = Oldest(n)[n].seq + 1
         /\ heard' = heard \cup {Oldest(n)[i].from : i \in 1 .. n}
         /\ pc' = [pc EXCEPT ![p] = "main"]
      \/ n = 0 /\ TryFailed(p) /\ UNCHANGED <<readIdx, errors, expect, heard>>
  BY Zenon DEF PopTry, Returns, Goto
<1>3. /\ wanted \in Nat /\ wanted > 0 /\ upTo \in {cache[p], writeIdx}
      /\ writeIdx \in Index /\ readIdx \in Index /\ cache[p] \in Index /\ upTo \in Index
  BY Pids DEF ProgramInv, Types
<1>4. usedSlots(upTo, readIdx) \in Nat /\ usedSlots(cache[p], readIdx) \in Nat
  BY <1>3, UsedRange
<1>5. n \in Nat /\ (n > 0 => n \in 1 .. usedSlots(upTo, readIdx)) /\ (n = 0 => usedSlots(upTo, readIdx) = 0)
  <2> HIDE DEF wanted, upTo
  <2> QED
    BY <1>3, <1>4 DEF MinOf
<1>6. n = 0 => upTo = readIdx /\ upTo = writeIdx
  <2>1. n = 0 => upTo = readIdx
    BY <1>3, <1>5, UsedRange
  <2>2. ~(usedSlots(cache[p], readIdx) < wanted) => usedSlots(upTo, readIdx) # 0
    BY <1>3, <1>4
  <2> QED
    BY <1>5, <2>1, <2>2
<1>7. TryFailed(p) => pc' = pc \/ pc' = [pc EXCEPT ![p] = "peer"]
  BY DEF TryFailed, Goto
<1> HIDE DEF n, upTo
<1> QED
  BY <1>1, <1>2, <1>3, <1>5, <1>6, <1>7, Zenon

\* TryAgain, the end of a look at the peer that goes on, is a move in the program.
LEMMA TryAgainFacts ==
  ASSUME ProgramInv, NEW p \in Procs, TryAgain(p)
  PROVE  /\ \E where \in {"main", "try"} : Goto(p, where)
         /\ seen' = [seen EXCEPT ![p] = 0]
         /\ UNCHANGED <<slots, writeIdx, readIdx, producerPid, consumerPid, named, proc, cache, gaveUp,
                        overtaken, clean>>
BY DEF TryAgain, Returns, Goto, segment, ring, takeovers

\* The answer of kill(): on with the program, or its end, or empty().
LEMMA AnswerFacts ==
  ASSUME ProgramInv, NEW p \in Procs, PeerAnswer(p)
  PROVE  /\ pc[p] = "kill" /\ UNCHANGED <<creator, slots, writeIdx, readIdx, sent, expect, errors, heard>>
         /\ \/ TryAgain(p) /\ UNCHANGED goneThen
            \/ /\ p \in Producers /\ ~peerAlive(p) /\ Finish(p)
               /\ gaveUp' = gaveUp \cup {p} /\ UNCHANGED goneThen
            \/ /\ p = Consumer /\ Goto(p, "empty") /\ seen' = [seen EXCEPT ![p] = 0]
               /\ goneThen' = Ended \cap Producers
               /\ UNCHANGED <<producerPid, consumerPid, named, proc, cache, gaveUp, overtaken, clean>>
<1>1. pc[p] = "kill" /\ UNCHANGED <<creator, sent, expect, errors, heard>>
  BY DEF PeerAnswer, program
<1>2. CASE peerAlive(p) /\ TryAgain(p) /\ UNCHANGED goneThen
  BY <1>1, <1>2, TryAgainFacts
<1>3. CASE ~peerAlive(p) /\ p \in Producers /\ GiveUp(p) /\ UNCHANGED goneThen
  BY <1>1, <1>3 DEF GiveUp, ring
<1>4. CASE /\ ~peerAlive(p) /\ p = Consumer /\ goneThen' = Ended \cap Producers /\ Goto(p, "empty")
           /\ seen' = [seen EXCEPT ![p] = 0] /\ UNCHANGED <<segment, proc, cache, spins, gaveUp, takeovers>>
  BY <1>1, <1>4 DEF segment, ring, takeovers
<1> QED
  BY <1>2, <1>3, <1>4 DEF PeerAnswer

\* empty(): the consumer ends, and there is nothing in the ring, or it goes on.
LEMMA EmptyFacts ==
  ASSUME ProgramInv, NEW p \in Procs, EmptyTest(p)
  PROVE  /\ p = Consumer /\ pc[p] = "empty"
         /\ UNCHANGED <<creator, slots, writeIdx, readIdx, sent, expect, errors, goneThen, heard>>
         /\ \/ Len(fifo) = 0 /\ Finish(p) /\ gaveUp' = gaveUp \cup {p}
            \/ TryAgain(p)
<1>1. pc[p] = "empty" /\ UNCHANGED <<creator, sent, expect, errors, goneThen, heard>>
  BY DEF EmptyTest, program
<1>2. p = Consumer
  BY <1>1, Pids DEF ProgramInv
<1>3. CASE writeIdx = readIdx /\ GiveUp(p)
  <2>1. Len(fifo) = 0
    BY <1>3, FifoType DEF ProgramInv
  <2> QED
    BY <1>1, <1>2, <1>3, <2>1 DEF GiveUp, ring
<1>4. CASE TryAgain(p)
  BY <1>1, <1>2, <1>4, TryAgainFacts
<1> QED
  BY <1>3, <1>4 DEF EmptyTest

\* The steps that end a program.
LEMMA EndFacts ==
  ASSUME NEW p \in Procs, AttachThrows(p) \/ WaitTimesOut(p) \/ LoopEnds(p) \/ Stopped(p)
  PROVE  /\ pc[p] # "out" /\ Finish(p)
         /\ UNCHANGED <<creator, slots, writeIdx, readIdx, sent, expect, errors, gaveUp, goneThen, heard>>
BY DEF AttachThrows, WaitTimesOut, LoopEnds, Stopped, program, ring

\* bind() gets the role: nobody alive has it.
LEMMA ClaimFacts ==
  ASSUME Types, NEW p \in Procs, BindClaim(p)
  PROVE  /\ pc[p] = "bind" /\ pc' = [pc EXCEPT ![p] = "main"] /\ Goto(p, "main")
         /\ ~processAlive(OwnSlot(p)) /\ seen' = [seen EXCEPT ![p] = 0]
         /\ producerPid' = IF p = Consumer THEN producerPid ELSE p
         /\ consumerPid' = IF p = Consumer THEN p ELSE consumerPid
         /\ clean' = (clean /\ p \notin overtaken) /\ overtaken' = overtaken \ {p}
         /\ UNCHANGED <<creator, slots, writeIdx, readIdx, named, proc, cache, sent, expect, errors,
                        gaveUp, goneThen, heard>>
BY DEF BindClaim, Takes, Goto, program, ring

\* create(), before which nothing has happened.
LEMMA CreateFacts ==
  ASSUME ProgramInv, NEW p \in Procs, Create(p)
  PROVE  /\ p = creator /\ pc[p] = "start" /\ named' = TRUE
         /\ writeIdx = 0 /\ readIdx = 0 /\ cache[p] = 0 /\ \A q \in Procs : pc[q] \in {"out", "start"}
         /\ producerPid' = IF p = Consumer THEN producerPid ELSE p
         /\ consumerPid' = IF p = Consumer THEN p ELSE consumerPid
         /\ \E where \in {"wait", "main"} : pc' = [pc EXCEPT ![p] = where]
         /\ UNCHANGED <<creator, slots, writeIdx, readIdx, proc, cache, seen, sent, expect, errors,
                        gaveUp, goneThen, heard, overtaken, clean>>
<1>1. p = creator /\ pc[p] = "start" /\ Pristine(creator)
  BY DEF Create, Pristine
<1>2. writeIdx = 0 /\ readIdx = 0 /\ cache[p] = 0 /\ \A q \in Procs : pc[q] \in {"out", "start"}
  BY <1>1 DEF ProgramInv, CreatorFirst
<1>3. /\ named' = TRUE /\ \E where \in {"wait", "main"} : pc' = [pc EXCEPT ![p] = where]
      /\ producerPid' = IF p = Consumer THEN producerPid ELSE p
      /\ consumerPid' = IF p = Consumer THEN p ELSE consumerPid
      /\ UNCHANGED <<creator, slots, writeIdx, readIdx, proc, cache, seen, sent, expect, errors,
                     gaveUp, goneThen, heard, overtaken, clean>>
  BY Zenon DEF Create, Takes, Goto, program, ring, locals, history, takeovers
<1> QED
  BY <1>1, <1>2, <1>3, Zenon

\* attach() up to the load of the peer's index.
LEMMA OpenFacts ==
  ASSUME NEW p \in Procs, AttachOpen(p)
  PROVE  /\ p # creator /\ pc[p] = "start" /\ named /\ pc' = [pc EXCEPT ![p] = "bind"]
         /\ cache' = [cache EXCEPT ![p] = IF p = Consumer THEN writeIdx ELSE readIdx]
         /\ UNCHANGED <<creator, slots, writeIdx, readIdx, producerPid, consumerPid, named, proc, seen,
                        sent, expect, errors, gaveUp, goneThen, heard, overtaken, clean>>
BY DEF AttachOpen, Goto, program, segment, ring, history, takeovers

\* The steps that change only a place in a program, or what is seen of a slot.
LEMMA QuietFacts ==
  ASSUME NEW p \in Procs, WaitForPeer(p) \/ LoopCalls(p) \/ PeerLoad(p) \/ BindLook(p)
  PROVE  /\ UNCHANGED <<creator, slots, writeIdx, readIdx, producerPid, consumerPid, named, proc, cache,
                        sent, expect, errors, gaveUp, goneThen, heard, overtaken, clean>>
         /\ \/ pc[p] = "wait" /\ Goto(p, "main") /\ UNCHANGED seen
            \/ pc[p] = "main" /\ Goto(p, "try") /\ UNCHANGED seen
            \/ pc[p] = "peer" /\ Goto(p, "kill") /\ seen' = [seen EXCEPT ![p] = PeerSlot(p)]
            \/ pc[p] = "bind" /\ UNCHANGED pc /\ seen' = [seen EXCEPT ![p] = OwnSlot(p)]
<1>1. CASE WaitForPeer(p) \/ LoopCalls(p)
  BY <1>1 DEF WaitForPeer, LoopCalls, program, segment, ring, locals, history, takeovers
<1>2. CASE PeerLoad(p) \/ BindLook(p)
  BY <1>2 DEF PeerLoad, BindLook, program, segment, ring, history, takeovers
<1> QED
  BY <1>1, <1>2

\* The system takes a step for a process: it starts, dies or is reaped.
LEMMA SystemFacts ==
  ASSUME NEW p \in Procs, Start(p) \/ Die(p) \/ Reap(p)
  PROVE  /\ \/ /\ proc[p] = "new" /\ proc' = [proc EXCEPT ![p] = "running"]
               /\ pc' = [pc EXCEPT ![p] = "start"] /\ UNCHANGED <<cache, seen, overtaken>>
            \/ /\ proc[p] = "running" /\ proc' = [proc EXCEPT ![p] = "zombie"]
               /\ pc' = [pc EXCEPT ![p] = "out"] /\ overtaken' = overtaken \ {p}
               /\ cache' = [cache EXCEPT ![p] = 0] /\ seen' = [seen EXCEPT ![p] = 0]
            \/ /\ proc[p] = "zombie" /\ proc' = [proc EXCEPT ![p] = "gone"]
               /\ UNCHANGED <<pc, cache, seen, overtaken>>
         /\ UNCHANGED <<creator, slots, writeIdx, readIdx, producerPid, consumerPid, named,
                        sent, expect, errors, gaveUp, goneThen, heard, clean>>
<1>1. CASE Start(p) \/ Reap(p)
  BY <1>1 DEF Start, Reap, Goto, program, segment, ring, locals, history, takeovers
<1>2. CASE Die(p)
  BY <1>2 DEF Die, Exit, Goto, program, segment, ring
<1> QED
  BY <1>1, <1>2

\* Every step keeps the programs consistent.
LEMMA ProgramStep ==
  ASSUME ProgramInv, [Next]_vars PROVE ProgramInv'
<1>0. Types /\ creator \in Procs
  BY DEF ProgramInv, Types
<1>1. CASE UNCHANGED vars
  BY <1>1 DEF ProgramInv, Types, CreatorFirst, Pristine, vars, program, segment, ring, locals
<1>2. ASSUME NEW p \in Procs, Start(p) \/ Die(p) \/ Reap(p) PROVE ProgramInv'
  <2>1. UNCHANGED <<creator, slots, writeIdx, readIdx, producerPid, consumerPid, named, sent, expect, errors>>
    BY <1>2, SystemFacts
  <2>2. /\ cache' = cache \/ cache' = [cache EXCEPT ![p] = 0]
        /\ seen' = seen \/ seen' = [seen EXCEPT ![p] = 0]
        /\ \/ proc[p] = "new" /\ proc' = [proc EXCEPT ![p] = "running"] /\ pc' = [pc EXCEPT ![p] = "start"]
           \/ proc[p] = "running" /\ proc' = [proc EXCEPT ![p] = "zombie"] /\ pc' = [pc EXCEPT ![p] = "out"]
           \/ proc[p] = "zombie" /\ proc' = [proc EXCEPT ![p] = "gone"] /\ pc' = pc
    BY <1>2, SystemFacts
  <2>3. Types'
    <3>0. 0 \in Index
      BY Pids DEF Index
    <3>1. cache' \in [Procs -> Index] /\ seen' \in [Procs -> Procs \cup {0, Detached}]
      BY <1>0, <2>2, <3>0, Zenon DEF Types
    <3>2. proc' \in [Procs -> {"new", "running", "zombie", "gone"}] /\ pc' \in [Procs -> Places]
      BY <1>0, <2>2, Zenon DEF Types, Places
    <3> QED
      BY <1>0, <2>1, <3>1, <3>2 DEF Types
  <2>4. (\A q \in Procs : pc[q] # "out" => proc[q] = "running")' /\ (\A q \in Producers : pc[q] # "empty")'
    <3>1. \A q \in Procs : q # p => pc'[q] = pc[q] /\ proc'[q] = proc[q]
      BY <1>0, <2>2 DEF Types
    <3>2. pc'[p] = "out" \/ (pc'[p] = "start" /\ proc'[p] = "running") \/ (pc'[p] = pc[p] /\ proc[p] = "zombie")
      BY <1>0, <2>2 DEF Types
    <3>3. pc'[p] = "out" \/ (pc'[p] = "start" /\ proc'[p] = "running")
      BY <3>2 DEF ProgramInv
    <3> QED
      BY <3>1, <3>3, Pids DEF ProgramInv
  <2>5. CreatorFirst'
    <3>1. SUFFICES ASSUME Pristine(creator)' PROVE CreatorFirst'
      BY DEF CreatorFirst
    <3>2. Pristine(creator) /\ (p = creator => cache' = cache \/ proc[p] # "running")
      BY <1>0, <2>1, <2>2, <3>1 DEF Types, Pristine
    <3>3. \A q \in Procs : pc'[q] \in {"out", "start"}
      BY <1>0, <2>2, <3>2 DEF Types, ProgramInv, CreatorFirst
    <3>4. cache'[creator] = 0
      <4>1. cache[creator] = 0
        BY <3>2 DEF ProgramInv, CreatorFirst
      <4> QED
        BY <1>0, <2>2, <4>1 DEF Types
    <3> QED
      BY <2>1, <3>2, <3>3, <3>4 DEF ProgramInv, CreatorFirst
  <2> QED
    BY <2>3, <2>4, <2>5 DEF ProgramInv
<1>3. ASSUME NEW p \in Procs, Create(p) PROVE ProgramInv'
  <2>1. /\ p = creator /\ pc[p] = "start" /\ named' = TRUE
        /\ \E where \in {"wait", "main"} : pc' = [pc EXCEPT ![p] = where]
        /\ producerPid' = IF p = Consumer THEN producerPid ELSE p
        /\ consumerPid' = IF p = Consumer THEN p ELSE consumerPid
        /\ UNCHANGED <<creator, slots, writeIdx, readIdx, proc, cache, seen, sent, expect, errors>>
    BY <1>3, CreateFacts, Zenon
  <2>2. Types'
    <3>1. producerPid' \in Producers \cup {0, Detached} /\ consumerPid' \in {Consumer, 0, Detached}
      BY <1>0, <2>1, Pids DEF Types
    <3>2. pc' \in [Procs -> Places]
      BY <1>0, <2>1 DEF Types, Places, Active
    <3> QED
      BY <1>0, <2>1, <3>1, <3>2 DEF Types
  <2>3. (\A q \in Procs : pc[q] # "out" => proc[q] = "running")' /\ (\A q \in Producers : pc[q] # "empty")'
    BY <2>1, Pids DEF ProgramInv, Types
  <2>4. ~Pristine(creator)'
    BY <2>1 DEF ProgramInv, Types, Pristine
  <2> QED
    BY <2>2, <2>3, <2>4 DEF ProgramInv, CreatorFirst
<1>4. ASSUME NEW p \in Procs, AttachOpen(p) PROVE ProgramInv'
  <2>1. /\ p # creator /\ pc[p] = "start" /\ named /\ pc' = [pc EXCEPT ![p] = "bind"]
        /\ cache' = [cache EXCEPT ![p] = IF p = Consumer THEN writeIdx ELSE readIdx]
        /\ UNCHANGED <<creator, slots, writeIdx, readIdx, producerPid, consumerPid, named, proc, seen,
                       sent, expect, errors>>
    BY <1>4, OpenFacts
  <2>2. Types'
    <3>1. cache' \in [Procs -> Index] /\ pc' \in [Procs -> Places]
      BY <1>0, <2>1 DEF Types, Places
    <3> QED
      BY <1>0, <2>1, <3>1 DEF Types
  <2>3. (\A q \in Procs : pc[q] # "out" => proc[q] = "running")' /\ (\A q \in Producers : pc[q] # "empty")'
    BY <2>1, Pids DEF ProgramInv, Types
  <2>4. ~Pristine(creator)'
    BY <2>1 DEF ProgramInv, Types, CreatorFirst, Pristine
  <2> QED
    BY <2>2, <2>3, <2>4 DEF ProgramInv, CreatorFirst
<1>5. ASSUME NEW p \in Procs, BindClaim(p) PROVE ProgramInv'
  <2>1. producerPid' \in Producers \cup {0, Detached} /\ consumerPid' \in {Consumer, 0, Detached}
    BY <1>0, <1>5, ClaimFacts, Pids DEF Types
  <2>2. seen' \in [Procs -> Procs \cup {0, Detached}]
    BY <1>0, <1>5, ClaimFacts DEF Types
  <2>3. /\ pc[p] = "bind" /\ Goto(p, "main")
        /\ UNCHANGED <<creator, slots, writeIdx, readIdx, named, proc, cache, sent, expect, errors>>
    BY <1>0, <1>5, ClaimFacts
  <2> QED
    BY <2>1, <2>2, <2>3, MoveProgram, Zenon DEF ProgramInv, Types, Places, Active
<1>6. ASSUME NEW p \in Procs, AttachThrows(p) \/ WaitTimesOut(p) \/ LoopEnds(p) \/ Stopped(p) PROVE ProgramInv'
  BY <1>6, EndFacts, FinishProgram
<1>7. ASSUME NEW p \in Procs, WaitForPeer(p) \/ LoopCalls(p) \/ PeerLoad(p) \/ BindLook(p) PROVE ProgramInv'
  <2>1. UNCHANGED <<creator, slots, writeIdx, readIdx, producerPid, consumerPid, named, proc, cache,
                    sent, expect, errors>>
    BY <1>7, QuietFacts
  <2>2. PeerSlot(p) \in Procs \cup {0, Detached} /\ OwnSlot(p) \in Procs \cup {0, Detached}
    BY <1>0, Pids DEF Types, PeerSlot, OwnSlot
  <2>3. seen' \in [Procs -> Procs \cup {0, Detached}]
    BY <1>0, <1>7, <2>2, QuietFacts DEF Types
  <2>4. CASE pc[p] = "bind" /\ UNCHANGED pc
    <3>1. Types'
      BY <1>0, <2>1, <2>3, <2>4 DEF Types
    <3> QED
      BY <2>1, <2>4, <3>1, StayProgram
  <2>5. ASSUME NEW where \in {"main", "try", "kill"}, Goto(p, where), pc[p] \in {"wait", "main", "peer"}
        PROVE  ProgramInv'
    BY <2>1, <2>3, <2>5, MoveProgram, Zenon DEF ProgramInv, Types, Places, Active
  <2> QED
    BY <1>7, <2>4, <2>5, QuietFacts, Zenon
<1>8. ASSUME NEW p \in Procs, PushTry(p) PROVE ProgramInv'
  <2>0. p \in Producers /\ pc[p] = "try" /\ cache[p] \in Index /\ readIdx \in Index /\ writeIdx \in Index
        /\ sent[p] \in Nat
    BY <1>0, <1>8, PushFacts, Zenon DEF Types
  <2>1. p \in Producers /\ pc[p] = "try" /\ cache[p] \in Index /\ readIdx \in Index /\ writeIdx \in Index
        /\ sent[p] \in Nat /\ sent[p] + 1 \in Nat
    BY <2>0
  <2>2. UNCHANGED <<creator, readIdx, producerPid, consumerPid, named, proc, seen, expect, errors>>
    BY <1>8, PushFacts, Zenon
  <2>3. cache' \in [Procs -> Index]
    <3>1. PICK c \in {cache[p], readIdx} : cache' = [cache EXCEPT ![p] = c]
      BY <1>8, PushFacts, Zenon
    <3> QED
      BY <1>0, <2>1, <3>1 DEF Types
  <2>4. [from |-> p, seq |-> sent[p]] \in Messages
    BY <2>1 DEF Messages
  <2>5. slots' \in [Index -> Messages] /\ writeIdx' \in Index /\ sent' \in [Producers -> Nat]
    <3>1. CASE /\ slots' = [slots EXCEPT ![writeIdx] = [from |-> p, seq |-> sent[p]]]
               /\ writeIdx' = SlotAt(writeIdx, 1) /\ sent' = [sent EXCEPT ![p] = @ + 1]
      BY <1>0, <2>1, <2>4, <3>1, WriteOne, Zenon DEF Types
    <3>2. CASE UNCHANGED <<slots, writeIdx, sent>>
      BY <1>0, <3>2 DEF Types
    <3> QED
      BY <1>8, <3>1, <3>2, PushFacts, Zenon
  <2>6. CASE pc' = pc
    <3>1. Types'
      BY <1>0, <2>2, <2>3, <2>5, <2>6, Zenon DEF Types
    <3> QED
      BY <2>1, <2>2, <2>6, <3>1, StayProgram
  <2>7. ASSUME NEW where \in {"main", "peer"}, Goto(p, where) PROVE ProgramInv'
    BY <2>1, <2>2, <2>3, <2>5, <2>7, MoveProgram, Zenon DEF ProgramInv, Types, Places, Active
  <2> QED
    BY <1>8, <2>6, <2>7, PushFacts, Zenon DEF Goto
<1>9. ASSUME NEW p \in Procs, PopTry(p) PROVE ProgramInv'
  <2>1. p = Consumer /\ pc[p] = "try" /\ cache[p] \in Index /\ readIdx \in Index /\ writeIdx \in Index
        /\ UNCHANGED <<creator, slots, writeIdx, producerPid, consumerPid, named, proc, seen, sent>>
    BY <1>0, <1>9, PopFacts DEF Types
  <2>2. cache' \in [Procs -> Index]
    <3>1. PICK upTo \in {cache[p], writeIdx} : cache' = [cache EXCEPT ![p] = upTo]
      BY <1>9, PopFacts, Zenon
    <3> QED
      BY <1>0, <2>1, <3>1 DEF Types
  <2>3. readIdx' \in Index /\ expect' \in Nat /\ errors' \in Nat
    <3>1. CASE UNCHANGED <<readIdx, errors, expect>>
      BY <1>0, <3>1 DEF Types
    <3>2. ASSUME NEW upTo \in {cache[p], writeIdx}, NEW n \in 1 .. usedSlots(upTo, readIdx),
                 readIdx' = SlotAt(readIdx, n),
                 errors' = errors + Cardinality(Gaps(Oldest(n), expect)),
                 expect' = Oldest(n)[n].seq + 1
          PROVE  readIdx' \in Index /\ expect' \in Nat /\ errors' \in Nat
      <4>1. upTo \in Index /\ usedSlots(upTo, readIdx) \in Nat
        BY <2>1, UsedRange
      <4>2. n \in Nat /\ n \in Int /\ n <= usedSlots(upTo, readIdx) /\ n - 1 \in Nat
            /\ n - 1 <= usedSlots(upTo, readIdx) /\ n \in 1 .. n
        BY <4>1
      <4>3. SlotAt(readIdx, n) \in Index /\ SlotAt(readIdx, n - 1) \in Index
        BY <2>1, <4>1, <4>2, SlotPlaces
      <4>4. Oldest(n)[n] \in Messages
        BY <1>0, <4>2, <4>3 DEF Types, Oldest
      <4>5. Oldest(n)[n].seq \in Nat
        BY <4>4 DEF Messages
      <4>6. Cardinality(Gaps(Oldest(n), expect)) \in Nat
        <5>1. Gaps(Oldest(n), expect) \subseteq 1 .. n
          BY DEF Gaps, Oldest
        <5>2. IsFiniteSet(1 .. n)
          BY <4>2, FS_Interval
        <5>3. IsFiniteSet(Gaps(Oldest(n), expect))
          BY <5>1, <5>2, FS_Subset
        <5> QED
          BY <5>3, FS_CardinalityType
      <4>7. errors \in Nat
        BY <1>0 DEF Types
      <4>8. Oldest(n)[n].seq + 1 \in Nat /\ errors + Cardinality(Gaps(Oldest(n), expect)) \in Nat
        BY <4>5, <4>6, <4>7
      <4> QED
        BY <3>2, <4>3, <4>8, Zenon
    <3> QED
      BY <1>9, <3>1, <3>2, PopFacts, Zenon
  <2>4. CASE pc' = pc
    <3>1. Types'
      BY <1>0, <2>1, <2>2, <2>3, <2>4, Zenon DEF Types
    <3> QED
      BY <2>1, <2>4, <3>1, StayProgram
  <2>5. ASSUME NEW where \in {"main", "peer"}, Goto(p, where) PROVE ProgramInv'
    BY <2>1, <2>2, <2>3, <2>5, MoveProgram, Zenon DEF ProgramInv, Types, Places, Active
  <2> QED
    BY <1>9, <2>4, <2>5, PopFacts, Zenon DEF Goto
<1>10. ASSUME NEW p \in Procs, PeerAnswer(p) \/ EmptyTest(p) PROVE ProgramInv'
  <2>1. pc[p] \in {"kill", "empty"} /\ UNCHANGED <<creator, slots, writeIdx, readIdx, sent, expect, errors>>
    BY <1>10, AnswerFacts, EmptyFacts
  <2>2. CASE Finish(p)
    BY <2>1, <2>2, FinishProgram
  <2>3. CASE TryAgain(p)
    <3>1. seen' \in [Procs -> Procs \cup {0, Detached}]
      BY <2>3, TryAgainFacts, Zenon DEF ProgramInv, Types
    <3>2. PICK where \in {"main", "try"} : Goto(p, where)
      BY <2>3, TryAgainFacts, Zenon
    <3>3. where \in Places \ {"out", "start", "bind"} /\ where # "empty" /\ pc[p] \notin {"out", "start"}
      BY <2>1 DEF Places, Active
    <3>4. UNCHANGED <<slots, writeIdx, readIdx, producerPid, consumerPid, named, proc, cache>>
      BY <2>3, TryAgainFacts, Zenon
    <3> QED
      BY <2>1, <3>1, <3>2, <3>3, <3>4, MoveProgram, Zenon DEF ProgramInv, Types
  <2>4. CASE p = Consumer /\ Goto(p, "empty") /\ seen' = [seen EXCEPT ![p] = 0]
             /\ UNCHANGED <<producerPid, consumerPid, named, proc, cache, gaveUp>>
    <3>1. seen' \in [Procs -> Procs \cup {0, Detached}]
      BY <2>4 DEF ProgramInv, Types
    <3> QED
      BY <2>1, <2>4, <3>1, MoveProgram, Zenon DEF ProgramInv, Types, Places
  <2> QED
    BY <1>10, <2>2, <2>3, <2>4, AnswerFacts, EmptyFacts
<1> QED
  BY <1>1, <1>2, <1>3, <1>4, <1>5, <1>6, <1>7, <1>8, <1>9, <1>10 DEF Next, Runs

-----------------------------------------------------------------------------
(* Who gives up on whom. *)

\* A process that has ended stays ended, and one that has started stays so.
LEMMA EndedStays ==
  ASSUME ProgramInv, [Next]_vars
  PROVE  /\ Ended \subseteq Ended'
         /\ \A p \in Procs : proc[p] # "new" => proc'[p] # "new"
<1>1. ASSUME NEW p \in Procs, Finish(p), pc[p] # "out"
      PROVE  proc' = [proc EXCEPT ![p] = "zombie"] /\ proc[p] = "running"
  BY <1>1, FinishFacts DEF ProgramInv
<1>2. \/ proc' = proc
      \/ \E p \in Procs : \/ proc' = [proc EXCEPT ![p] = "running"] /\ proc[p] = "new"
                          \/ proc' = [proc EXCEPT ![p] = "zombie"] /\ proc[p] = "running"
                          \/ proc' = [proc EXCEPT ![p] = "gone"] /\ proc[p] = "zombie"
  <2>1. CASE UNCHANGED vars
    BY <2>1 DEF vars
  <2>2. ASSUME NEW p \in Procs, AttachThrows(p) \/ WaitTimesOut(p) \/ LoopEnds(p) \/ Stopped(p)
        PROVE  Finish(p) /\ pc[p] # "out"
    BY <2>2, EndFacts
  <2>3. ASSUME NEW p \in Procs, PeerAnswer(p) \/ EmptyTest(p) PROVE (Finish(p) /\ pc[p] # "out") \/ proc' = proc
    BY <2>3, AnswerFacts, EmptyFacts, TryAgainFacts
  <2>4. ASSUME NEW p \in Procs, PushTry(p) \/ PopTry(p) PROVE proc' = proc
    BY <2>4, PushFacts, PopFacts, Zenon
  <2>5. ASSUME NEW p \in Procs, WaitForPeer(p) \/ LoopCalls(p) \/ PeerLoad(p) \/ BindLook(p) PROVE proc' = proc
    BY <2>5, QuietFacts
  <2>6. ASSUME NEW p \in Procs, Create(p) \/ AttachOpen(p) \/ BindClaim(p) PROVE proc' = proc
    BY <2>6 DEF Create, AttachOpen, BindClaim
  <2>7. ASSUME NEW p \in Procs, Start(p) \/ Die(p) \/ Reap(p)
        PROVE  \/ proc' = [proc EXCEPT ![p] = "running"] /\ proc[p] = "new"
               \/ proc' = [proc EXCEPT ![p] = "zombie"] /\ proc[p] = "running"
               \/ proc' = [proc EXCEPT ![p] = "gone"] /\ proc[p] = "zombie"
    BY <2>7, SystemFacts
  <2> QED
    BY <1>1, <2>1, <2>2, <2>3, <2>4, <2>5, <2>6, <2>7 DEF Next, Runs
<1>3. proc \in [Procs -> {"new", "running", "zombie", "gone"}]
  BY DEF ProgramInv, Types
<1> QED
  BY <1>2, <1>3 DEF Ended

\* How a step changes the consumer's slot, what is seen of it, and who gave up.
LEMMA GoneChanges ==
  ASSUME ProgramInv, GoneInv, [Next]_vars
  PROVE  /\ \/ consumerPid' = consumerPid
            \/ consumerPid' = Detached /\ Consumer \in Ended'
            \/ consumerPid' = Consumer /\ proc'[Consumer] # "new"
         /\ \A q \in Producers : pc'[q] = "kill" =>
              (pc[q] = "kill" /\ seen'[q] = seen[q]) \/ seen'[q] = consumerPid
         /\ gaveUp' = gaveUp \/ (\E p \in Producers : gaveUp' = gaveUp \cup {p} /\ Consumer \in Ended)
            \/ gaveUp' = gaveUp \cup {Consumer}
<1> DEFINE Pid == \/ consumerPid' = consumerPid
                  \/ consumerPid' = Detached /\ Consumer \in Ended'
                  \/ consumerPid' = Consumer /\ proc'[Consumer] # "new"
           Seen == \A q \in Producers : pc'[q] = "kill" =>
                     (pc[q] = "kill" /\ seen'[q] = seen[q]) \/ seen'[q] = consumerPid
<1>0. pc \in [Procs -> Places] /\ seen \in [Procs -> Procs \cup {0, Detached}] /\ Types
  BY DEF ProgramInv, Types
<1>1. ASSUME NEW p \in Procs, NEW where, pc' = [pc EXCEPT ![p] = where], where # "kill",
             seen' = seen \/ seen' = [seen EXCEPT ![p] = 0]
      PROVE  Seen
  BY <1>0, <1>1, Pids
<1>2. ASSUME NEW p \in Procs, pc' = pc, seen' = seen \/ (pc[p] # "kill" /\ \E x : seen' = [seen EXCEPT ![p] = x])
      PROVE  Seen
  BY <1>0, <1>2, Pids
<1>3. ASSUME NEW p \in Procs, Finish(p) PROVE Pid /\ Seen
  <2>1. consumerPid' = consumerPid \/ p = Consumer
    BY <1>3, FinishFacts DEF ProgramInv
  <2>2. p = Consumer => Consumer \in Ended'
    BY <1>3, FinishFacts, Pids DEF ProgramInv, Types, Ended
  <2>3. consumerPid' \in {consumerPid, Detached}
    BY <1>3, FinishFacts DEF ProgramInv
  <2>4. pc' = [pc EXCEPT ![p] = "out"] /\ seen' = [seen EXCEPT ![p] = 0]
    BY <1>0, <1>3, FinishFacts
  <2>5. Seen
    BY <1>1, <2>4, Zenon
  <2> QED
    BY <2>1, <2>2, <2>3, <2>5
<1>4. ASSUME NEW p \in Procs, TryAgain(p) PROVE Pid /\ Seen /\ gaveUp' = gaveUp
  <2>1. PICK where \in {"main", "try"} : pc' = [pc EXCEPT ![p] = where]
    BY <1>4, TryAgainFacts DEF Goto
  <2>2. seen' = [seen EXCEPT ![p] = 0] /\ UNCHANGED <<consumerPid, gaveUp>>
    BY <1>4, TryAgainFacts
  <2> QED
    BY <1>1, <2>1, <2>2, Zenon
<1>5. ASSUME UNCHANGED vars PROVE Pid /\ Seen /\ gaveUp' = gaveUp
  BY <1>5 DEF vars, segment, locals, history
<1>6. ASSUME NEW p \in Procs, AttachThrows(p) \/ WaitTimesOut(p) \/ LoopEnds(p) \/ Stopped(p)
      PROVE  Pid /\ Seen /\ gaveUp' = gaveUp
  BY <1>3, <1>6, EndFacts
<1>7. ASSUME NEW p \in Procs, EmptyTest(p) PROVE Pid /\ Seen /\ gaveUp' \in {gaveUp, gaveUp \cup {Consumer}}
  BY <1>3, <1>4, <1>7, EmptyFacts
<1>8. ASSUME NEW p \in Procs, PeerAnswer(p)
      PROVE  Pid /\ Seen /\ (gaveUp' = gaveUp \/ \E q \in Producers : gaveUp' = gaveUp \cup {q} /\ Consumer \in Ended)
  <2>0. pc[p] = "kill"
    BY <1>8, AnswerFacts
  <2>1. CASE TryAgain(p)
    BY <1>4, <2>1, Zenon
  <2>2. CASE p \in Producers /\ ~peerAlive(p) /\ Finish(p) /\ gaveUp' = gaveUp \cup {p}
    <3>1. seen[p] # 0 /\ ~processAlive(seen[p])
      BY <2>2 DEF peerAlive
    <3>2. Consumer \in Ended
      <4>1. CASE seen[p] = Detached
        BY <2>0, <2>2, <4>1 DEF GoneInv
      <4>2. CASE seen[p] = Consumer
        <5>1. proc[Consumer] \notin {"new", "running", "zombie"}
          BY <2>0, <2>2, <3>1, <4>2, Pids DEF GoneInv, processAlive
        <5> QED
          BY <5>1, Pids DEF ProgramInv, Types, Ended
      <4> QED
        BY <2>0, <2>2, <3>1, <4>1, <4>2 DEF GoneInv
    <3> QED
      BY <1>3, <2>2, <3>2
  <2>3. CASE p = Consumer /\ Goto(p, "empty") /\ seen' = [seen EXCEPT ![p] = 0] /\ UNCHANGED <<consumerPid, gaveUp>>
    <3>1. pc' = [pc EXCEPT ![p] = "empty"] /\ "empty" # "kill"
      BY <2>3 DEF Goto
    <3> QED
      BY <1>1, <2>3, <3>1, Zenon
  <2> QED
    BY <1>8, <2>1, <2>2, <2>3, AnswerFacts
<1>9. ASSUME NEW p \in Procs, Create(p) \/ BindClaim(p) PROVE Pid /\ Seen /\ gaveUp' = gaveUp
  <2>1. /\ pc[p] \in {"start", "bind"} /\ gaveUp' = gaveUp /\ proc' = proc
        /\ seen' = seen \/ seen' = [seen EXCEPT ![p] = 0]
        /\ consumerPid' = IF p = Consumer THEN p ELSE consumerPid
        /\ \E where \in {"wait", "main"} : pc' = [pc EXCEPT ![p] = where]
    BY <1>0, <1>9, CreateFacts, ClaimFacts, Zenon
  <2>2. proc[p] = "running"
    BY <2>1 DEF ProgramInv
  <2>3. Seen
    BY <1>1, <2>1, Zenon
  <2> QED
    BY <2>1, <2>2, <2>3
<1>10. ASSUME NEW p \in Procs, AttachOpen(p) PROVE Pid /\ Seen /\ gaveUp' = gaveUp
  <2>1. pc' = [pc EXCEPT ![p] = "bind"] /\ UNCHANGED <<seen, consumerPid, gaveUp>>
    BY <1>10, OpenFacts
  <2> QED
    BY <1>1, <2>1
<1>11. ASSUME NEW p \in Procs, WaitForPeer(p) \/ LoopCalls(p) \/ PeerLoad(p) \/ BindLook(p)
       PROVE  Pid /\ Seen /\ gaveUp' = gaveUp
  <2>1. UNCHANGED <<consumerPid, gaveUp>>
    BY <1>11, QuietFacts
  <2>2. ASSUME NEW where \in {"main", "try"}, Goto(p, where), UNCHANGED seen PROVE Seen
    BY <1>1, <2>2 DEF Goto
  <2>3. CASE Goto(p, "kill") /\ seen' = [seen EXCEPT ![p] = PeerSlot(p)]
    <3>1. p \in Producers => PeerSlot(p) = consumerPid
      BY Pids DEF PeerSlot
    <3> QED
      BY <1>0, <2>1, <2>3, <3>1, Pids DEF Goto
  <2>4. CASE pc[p] = "bind" /\ UNCHANGED pc /\ seen' = [seen EXCEPT ![p] = OwnSlot(p)]
    BY <1>2, <2>1, <2>4
  <2> HIDE DEF Seen
  <2> QED
    BY <1>11, <2>1, <2>2, <2>3, <2>4, QuietFacts, Zenon
<1>12. ASSUME NEW p \in Procs, PushTry(p) \/ PopTry(p) PROVE Pid /\ Seen /\ gaveUp' = gaveUp
  <2>1. /\ pc' = pc \/ \E where \in {"main", "peer"} : pc' = [pc EXCEPT ![p] = where]
        /\ UNCHANGED <<seen, consumerPid, gaveUp>>
    BY <1>12, PushFacts, PopFacts, Zenon
  <2> QED
    BY <1>1, <1>2, <2>1
<1>13. ASSUME NEW p \in Procs, Start(p) \/ Die(p) \/ Reap(p) PROVE Pid /\ Seen /\ gaveUp' = gaveUp
  <2>1. /\ (pc' = pc /\ seen' = seen) \/ \E where \in {"start", "out"} : pc' = [pc EXCEPT ![p] = where]
        /\ seen' = seen \/ seen' = [seen EXCEPT ![p] = 0]
        /\ UNCHANGED <<consumerPid, gaveUp>>
    BY <1>13, SystemFacts, Zenon
  <2> QED
    BY <1>1, <1>2, <2>1
<1> HIDE DEF Pid, Seen
<1>14. Pid /\ Seen /\ (\/ gaveUp' = gaveUp \/ (\E p \in Producers : gaveUp' = gaveUp \cup {p} /\ Consumer \in Ended)
                       \/ gaveUp' = gaveUp \cup {Consumer})
  BY <1>5, <1>6, <1>7, <1>8, <1>9, <1>10, <1>11, <1>12, <1>13 DEF Next, Runs
<1> QED
  BY <1>14, Zenon DEF Pid, Seen

\* Every step keeps what producers know about the consumer.
LEMMA GoneStep ==
  ASSUME ProgramInv, GoneInv, [Next]_vars PROVE GoneInv'
<1>1. /\ Ended \subseteq Ended' /\ (proc[Consumer] # "new" => proc'[Consumer] # "new")
  BY EndedStays, Pids
<1>2. (consumerPid = Detached => Consumer \in Ended)' /\ (consumerPid = Consumer => proc[Consumer] # "new")'
  BY <1>1, GoneChanges, Pids DEF GoneInv
<1>3. ASSUME NEW p \in Producers, pc'[p] = "kill"
      PROVE  (/\ seen[p] \in {0, Detached, Consumer}
              /\ seen[p] = Detached => Consumer \in Ended
              /\ seen[p] = Consumer => proc[Consumer] # "new")'
  <2>1. (pc[p] = "kill" /\ seen'[p] = seen[p]) \/ seen'[p] = consumerPid
    BY <1>3, GoneChanges
  <2>2. consumerPid \in {Consumer, 0, Detached}
    BY DEF ProgramInv, Types
  <2> QED
    BY <1>1, <2>1, <2>2, Pids DEF GoneInv, Detached
<1>4. (gaveUp \cap Producers # {} => Consumer \in Ended)'
  BY <1>1, GoneChanges, Pids DEF GoneInv
<1> QED
  BY <1>2, <1>3, <1>4 DEF GoneInv

-----------------------------------------------------------------------------
(* Theorems. *)

\* The invariant holds before any process has started.
LEMMA BlockingInit == Init => BlockingInv
<1> SUFFICES ASSUME Init PROVE BlockingInv
  OBVIOUS
<1>1. creator \in Procs /\ 0 \in Index
  BY BlockingConstants, Pids DEF Init, Index
<1>2. slots \in [Index -> Messages] /\ writeIdx \in Index /\ readIdx \in Index
  BY <1>1 DEF Init, Index, Messages
<1>3. cache \in [Procs -> Index]
  BY <1>1 DEF Init
<1>4. Types
  BY <1>1, <1>2, <1>3, Pids, Zenon DEF Init, Types, Places
<1>5. \A p \in Procs : pc[p] = "out" /\ cache[p] = 0
  BY DEF Init
<1>6. CreatorFirst
  BY <1>1, <1>5 DEF Init, CreatorFirst
<1>7. GoneInv
  BY Pids DEF Init, GoneInv, Detached
<1> QED
  BY <1>4, <1>5, <1>6, <1>7, Pids DEF BlockingInv, ProgramInv

\* The invariant holds in every state.
LEMMA BlockingInvariant == Spec => []BlockingInv
<1>1. BlockingInv /\ [Next]_vars => BlockingInv'
  BY ProgramStep, GoneStep DEF BlockingInv
<1> QED
  BY <1>1, BlockingInit, PTL DEF Spec

\* push() gives up only on a consumer that has come and gone.
THEOREM GivesUpRightly == Spec => []GivesUpOnGonePeer
<1>1. BlockingInv => GivesUpOnGonePeer
  BY DEF BlockingInv, GoneInv, GivesUpOnGonePeer
<1> QED
  BY <1>1, BlockingInvariant, PTL

-----------------------------------------------------------------------------
(* push() and a peer that is gone. *)

SpinsInv == spins \in [Procs -> Nat]
LocalsOf(p) == <<pc[p], cache[p], spins[p], seen[p]>>

\* A step of one process leaves the others where they are, and counts tries.
LEMMA StepIsLocal ==
  ASSUME Types, SpinsInv, NEW q \in Procs, Start(q) \/ Runs(q) \/ Stopped(q) \/ Die(q) \/ Reap(q)
  PROVE  SpinsInv' /\ \A p \in Procs \ {q} : UNCHANGED LocalsOf(p)
<1> USE DEF Types, SpinsInv, LocalsOf
<1>1. CASE Start(q) \/ Create(q) \/ WaitForPeer(q) \/ LoopCalls(q) \/ Reap(q)
  BY <1>1, Zenon DEF Start, Create, WaitForPeer, LoopCalls, Reap, Goto, locals
<1>2. ASSUME Exit(q) PROVE SpinsInv' /\ \A p \in Procs \ {q} : UNCHANGED LocalsOf(p)
  BY <1>2 DEF Exit, Goto
<1>3. CASE AttachThrows(q) \/ WaitTimesOut(q) \/ LoopEnds(q) \/ Stopped(q) \/ Die(q)
  BY <1>2, <1>3, Zenon DEF AttachThrows, WaitTimesOut, LoopEnds, Stopped, Die, Finish
<1>4. CASE AttachOpen(q) \/ BindLook(q) \/ BindClaim(q)
  BY <1>4 DEF AttachOpen, BindLook, BindClaim, Goto
<1>5. CASE PushTry(q) \/ PopTry(q)
  <2>1. UNCHANGED seen /\ (Returns(q) \/ TryFailed(q)) /\ \E c : cache' = [cache EXCEPT ![q] = c]
    BY <1>5, Zenon DEF PushTry, PopTry
  <2>2. \A p \in Procs \ {q} : cache'[p] = cache[p] /\ seen'[p] = seen[p]
    BY <2>1
  <2>3. CASE Returns(q)
    BY <2>2, <2>3 DEF Returns, Goto
  <2>4. CASE TryFailed(q)
    <3>1. CASE spins' = [spins EXCEPT ![q] = @ + 1] /\ UNCHANGED pc
      <4>1. spins[q] + 1 \in Nat
        OBVIOUS
      <4>2. spins' \in [Procs -> Nat]
        BY <3>1, <4>1
      <4> QED
        BY <2>2, <3>1, <4>2
    <3>2. CASE Goto(q, "peer") /\ UNCHANGED spins
      BY <2>2, <3>2 DEF Goto
    <3> QED
      BY <2>4, <3>1, <3>2 DEF TryFailed
  <2> QED
    BY <2>1, <2>3, <2>4
<1>6. CASE PeerLoad(q)
  BY <1>6 DEF PeerLoad, Goto
<1>7. ASSUME TryAgain(q) PROVE SpinsInv' /\ \A p \in Procs \ {q} : UNCHANGED LocalsOf(p)
  BY <1>7 DEF TryAgain, Returns, Goto
<1>8. CASE PeerAnswer(q)
  <2>1. CASE GiveUp(q)
    BY <1>2, <2>1 DEF GiveUp, Finish
  <2>2. CASE Goto(q, "empty") /\ seen' = [seen EXCEPT ![q] = 0] /\ UNCHANGED <<cache, spins>>
    BY <2>2 DEF Goto
  <2> QED
    BY <1>7, <1>8, <2>1, <2>2 DEF PeerAnswer
<1>9. CASE EmptyTest(q)
  BY <1>2, <1>7, <1>9 DEF EmptyTest, GiveUp, Finish
<1> QED
  BY <1>1, <1>3, <1>4, <1>5, <1>6, <1>8, <1>9, Zenon DEF Runs

\* The counts of tries are numbers in every state.
LEMMA SpinsInvariant == Spec => []SpinsInv
<1>1. Init => SpinsInv
  BY DEF Init, SpinsInv
<1>2. BlockingInv /\ SpinsInv /\ [Next]_vars => SpinsInv'
  <2> SUFFICES ASSUME BlockingInv, SpinsInv, [Next]_vars PROVE SpinsInv'
    OBVIOUS
  <2>1. CASE UNCHANGED vars
    BY <2>1 DEF SpinsInv, vars, locals
  <2>2. CASE Next
    BY <2>2, StepIsLocal, Zenon DEF Next, BlockingInv, ProgramInv
  <2> QED
    BY <2>1, <2>2
<1> QED
  BY <1>1, <1>2, BlockingInvariant, PTL DEF Spec

\* One more try is one fewer left.
LEMMA FewerTries ==
  \A n, k \in Nat : n < k =>
    3 + (IF n + 1 < k THEN k - (n + 1) ELSE 0) < 3 + (IF n < k THEN k - n ELSE 0)
OBVIOUS

\* A look at a slot that still said 0 costs less than a round of tries.
LEMMA RoundOfTries == \A k \in Nat : 3 + (IF 1 < k THEN k - 1 ELSE 0) < k + 4
OBVIOUS

\* A step of push() itself, with the consumer gone.
LEMMA PushStep ==
  ASSUME BlockingInv, SpinsInv, NEW p \in Producers, InPush(p), consumerPid # 0, proc[Consumer] = "gone",
         Start(p) \/ Runs(p) \/ Stopped(p) \/ Die(p) \/ Reap(p)
  PROVE  \/ ~InPush(p)'
         \/ PushLeft(p)' < PushLeft(p)
<1>1. /\ p \in Procs /\ p # Consumer /\ pc[p] \in {"try", "peer", "kill"} /\ proc[p] = "running"
      /\ pc \in [Procs -> Places] /\ spins \in [Procs -> Nat] /\ seen \in [Procs -> Procs \cup {0, Detached}]
      /\ spins[p] \in Nat /\ PeerCheckSpins \in Nat
  BY Pids, BlockingConstants DEF BlockingInv, ProgramInv, Types, SpinsInv, InPush
<1>2. ASSUME pc'[p] \notin {"try", "peer", "kill"} PROVE ~InPush(p)'
  BY <1>2, Zenon DEF InPush
<1>3. CASE Die(p)
  <2>1. pc'[p] = "out"
    BY <1>1, <1>3 DEF Die, Exit, Goto
  <2> QED
    BY <1>2, <2>1
<1>4. CASE PushTry(p)
  <2>1. pc[p] = "try" /\ seen' = seen
    BY <1>4, Zenon DEF PushTry
  <2>2. CASE Returns(p)
    <3>1. pc'[p] = "main"
      BY <1>1, <2>2 DEF Returns, Goto
    <3> QED
      BY <1>2, <3>1
  <2>3. CASE spins[p] < PeerCheckSpins /\ spins' = [spins EXCEPT ![p] = @ + 1] /\ UNCHANGED pc
    <3>1. spins'[p] = spins[p] + 1 /\ pc'[p] = "try"
      BY <1>1, <2>1, <2>3
    <3>2. PushLeft(p) = 3 + (IF spins[p] < PeerCheckSpins THEN PeerCheckSpins - spins[p] ELSE 0)
      BY <2>1 DEF PushLeft
    <3>3. PushLeft(p)' = 3 + (IF spins[p] + 1 < PeerCheckSpins THEN PeerCheckSpins - (spins[p] + 1) ELSE 0)
      BY <3>1 DEF PushLeft
    <3>4. 3 + (IF spins[p] + 1 < PeerCheckSpins THEN PeerCheckSpins - (spins[p] + 1) ELSE 0)
            < 3 + (IF spins[p] < PeerCheckSpins THEN PeerCheckSpins - spins[p] ELSE 0)
      BY <1>1, <2>3, FewerTries
    <3> QED
      BY <3>2, <3>3, <3>4
  <2>4. CASE spins[p] >= PeerCheckSpins /\ Goto(p, "peer") /\ UNCHANGED spins
    <3>1. pc'[p] = "peer"
      BY <1>1, <2>4 DEF Goto
    <3>2. PushLeft(p) = 3 /\ PushLeft(p)' = 2
      BY <1>1, <2>1, <2>4, <3>1 DEF PushLeft
    <3> QED
      BY <3>2
  <2> QED
    BY <1>1, <1>4, <2>2, <2>3, <2>4, Zenon DEF PushTry, TryFailed
<1>5. CASE PeerLoad(p)
  <2>1. pc[p] = "peer" /\ pc'[p] = "kill" /\ seen'[p] = consumerPid
    BY <1>1, <1>5 DEF PeerLoad, Goto, PeerSlot
  <2>2. PushLeft(p) = 2 /\ PushLeft(p)' = 1
    BY <2>1 DEF PushLeft
  <2> QED
    BY <2>2
<1>6. CASE PeerAnswer(p)
  <2>1. pc[p] = "kill"
    BY <1>6 DEF PeerAnswer
  <2>2. CASE GiveUp(p)
    <3>1. pc'[p] = "out"
      BY <1>1, <2>2 DEF GiveUp, Finish, Exit, Goto
    <3> QED
      BY <1>2, <3>1
  <2>3. CASE peerAlive(p) /\ TryAgain(p)
    <3>1. seen[p] \in {0, Detached, Consumer}
      BY <2>1 DEF BlockingInv, GoneInv
    <3>2. seen[p] = 0
      BY <2>3, <3>1 DEF peerAlive, processAlive, Detached
    <3>3. pc'[p] = "try" /\ spins'[p] = 1
      BY <1>1, <2>3 DEF TryAgain, Goto
    <3>4. PushLeft(p) = PeerCheckSpins + 4
      BY <2>1, <3>2 DEF PushLeft
    <3>5. PushLeft(p)' = 3 + (IF 1 < PeerCheckSpins THEN PeerCheckSpins - 1 ELSE 0)
      BY <3>3 DEF PushLeft
    <3> QED
      BY <1>1, <3>4, <3>5, RoundOfTries
  <2> QED
    BY <1>1, <1>6, <2>2, <2>3 DEF PeerAnswer
<1> QED
  BY <1>1, <1>3, <1>4, <1>5, <1>6, Zenon
     DEF Start, Runs, Reap, Create, AttachOpen, BindLook, BindClaim, AttachThrows, WaitForPeer, WaitTimesOut,
         LoopEnds, LoopCalls, Stopped, PopTry, EmptyTest

\* For any number of producers, any capacity and any count of tries: with the
\* consumer gone, every step of a push() brings it nearer to its return.
THEOREM PushIsBounded == Spec => PushGivesUp
<1>1. ASSUME BlockingInv, SpinsInv, [Next]_vars, NEW p \in Producers,
             InPush(p), consumerPid # 0, proc[Consumer] = "gone"
      PROVE  UNCHANGED LocalsOf(p) \/ ~InPush(p)' \/ PushLeft(p)' < PushLeft(p)
  <2>1. CASE UNCHANGED vars
    BY <2>1 DEF vars, locals, LocalsOf
  <2>2. ASSUME NEW q \in Procs, q # p, Start(q) \/ Runs(q) \/ Stopped(q) \/ Die(q) \/ Reap(q)
        PROVE  UNCHANGED LocalsOf(p)
    BY <1>1, <2>2, Pids, StepIsLocal DEF BlockingInv, ProgramInv
  <2> QED
    BY <1>1, <2>1, <2>2, PushStep DEF Next
<1>2. BlockingInv /\ SpinsInv /\ [Next]_vars =>
        [\A p \in Producers :
           InPush(p) /\ consumerPid # 0 /\ proc[Consumer] = "gone" =>
             \/ UNCHANGED <<pc[p], spins[p], seen[p]>>
             \/ ~InPush(p)'
             \/ PushLeft(p)' < PushLeft(p)]_vars
  BY <1>1, Zenon DEF LocalsOf
<1> QED
  BY <1>2, BlockingInvariant, SpinsInvariant, PTL DEF Spec, PushGivesUp

-----------------------------------------------------------------------------
(* The consumer and producers that are gone. *)

\* What the consumer's peerAlive() looks for is a producer, and when it looks the
\* cached index promises nothing any more.
SeenInv ==
  /\ pc[Consumer] = "kill" => seen[Consumer] \in Producers \cup {0, Detached}
  /\ pc[Consumer] \in {"peer", "kill", "empty"} => cache[Consumer] = readIdx

\* Every step keeps what the consumer has seen in the producers' slot.
LEMMA SeenStep == ASSUME BlockingInv, SpinsInv, SeenInv, [Next]_vars PROVE SeenInv'
<1> DEFINE c == Consumer
<1>1. /\ c \in Procs /\ ProgramInv /\ Types /\ pc \in [Procs -> Places]
      /\ cache \in [Procs -> Index] /\ seen \in [Procs -> Procs \cup {0, Detached}]
      /\ producerPid \in Producers \cup {0, Detached}
  BY Pids DEF BlockingInv, ProgramInv, Types
<1>2. ASSUME pc'[c] \notin {"peer", "kill", "empty"} PROVE SeenInv'
  BY <1>2 DEF SeenInv
<1>3. ASSUME UNCHANGED <<pc[c], seen[c], cache[c], readIdx>> PROVE SeenInv'
  BY <1>3 DEF SeenInv
<1>4. ASSUME NEW q \in Procs, q # c, Start(q) \/ Runs(q) \/ Stopped(q) \/ Die(q) \/ Reap(q)
      PROVE  SeenInv'
  <2>1. UNCHANGED LocalsOf(c)
    BY <1>1, <1>4, StepIsLocal
  <2>2. ASSUME PushTry(q) PROVE UNCHANGED readIdx
    BY <2>2 DEF PushTry
  <2>3. ~PopTry(q)
    BY <1>4, Zenon DEF PopTry
  <2>4. UNCHANGED readIdx
    BY <1>1, <1>4, <2>2, <2>3, CreateFacts, OpenFacts, ClaimFacts, QuietFacts, EndFacts, SystemFacts,
       AnswerFacts, EmptyFacts, Zenon DEF Runs
  <2> QED
    BY <1>3, <2>1, <2>4 DEF LocalsOf
<1>5. ASSUME NEW where \in {"out", "start", "bind", "wait", "main", "try"}, pc' = [pc EXCEPT ![c] = where]
      PROVE  SeenInv'
  BY <1>1, <1>2, <1>5
<1>6. ASSUME Create(c) \/ AttachOpen(c) \/ BindClaim(c) PROVE SeenInv'
  <2>1. \E where \in {"bind", "wait", "main"} : pc' = [pc EXCEPT ![c] = where]
    BY <1>1, <1>6, CreateFacts, OpenFacts, ClaimFacts, Zenon
  <2> QED
    BY <1>5, <2>1, Zenon
<1>7. ASSUME Finish(c) PROVE SeenInv'
  BY <1>1, <1>5, <1>7, FinishFacts
<1>8. ASSUME Start(c) \/ Die(c) \/ Reap(c) PROVE SeenInv'
  <2>1. CASE \E where \in {"start", "out"} : pc' = [pc EXCEPT ![c] = where]
    BY <1>5, <2>1, Zenon
  <2>2. CASE UNCHANGED <<pc, seen, cache, readIdx>>
    BY <1>3, <2>2
  <2> QED
    BY <1>1, <1>8, <2>1, <2>2, SystemFacts
<1>9. ASSUME TryAgain(c) PROVE SeenInv'
  <2>1. \E where \in {"main", "try"} : pc' = [pc EXCEPT ![c] = where]
    BY <1>1, <1>9, TryAgainFacts DEF Goto
  <2> QED
    BY <1>5, <2>1, Zenon
<1>10. ASSUME PeerAnswer(c) \/ EmptyTest(c) PROVE SeenInv'
  <2>1. CASE pc[c] = "kill" /\ Goto(c, "empty") /\ UNCHANGED <<cache, readIdx>>
    BY <1>1, <2>1 DEF Goto, SeenInv
  <2> QED
    BY <1>1, <1>7, <1>9, <1>10, <2>1, AnswerFacts, EmptyFacts
<1>11. ASSUME WaitForPeer(c) \/ LoopCalls(c) \/ PeerLoad(c) \/ BindLook(c) PROVE SeenInv'
  <2>1. UNCHANGED <<cache, readIdx>>
    BY <1>1, <1>11, QuietFacts
  <2>2. CASE \E where \in {"main", "try"} : pc' = [pc EXCEPT ![c] = where]
    BY <1>5, <2>2, Zenon
  <2>3. CASE pc[c] = "peer" /\ Goto(c, "kill") /\ seen' = [seen EXCEPT ![c] = PeerSlot(c)]
    <3>1. pc'[c] = "kill" /\ seen'[c] = producerPid
      BY <1>1, <2>3 DEF Goto, PeerSlot
    <3> QED
      BY <1>1, <2>1, <2>3, <3>1 DEF SeenInv
  <2>4. CASE pc[c] = "bind" /\ UNCHANGED pc
    BY <1>2, <2>4
  <2> QED
    BY <1>1, <1>11, <2>2, <2>3, <2>4, QuietFacts DEF Goto
<1>12. ASSUME PopTry(c) PROVE SeenInv'
  <2>1. CASE pc' = [pc EXCEPT ![c] = "main"]
    BY <1>5, <2>1
  <2>2. CASE /\ cache' = [cache EXCEPT ![c] = readIdx] /\ UNCHANGED readIdx /\ pc[c] = "try"
             /\ (pc' = pc \/ pc' = [pc EXCEPT ![c] = "peer"])
    <3>1. cache'[c] = readIdx' /\ pc'[c] \in {"try", "peer"}
      BY <1>1, <2>2
    <3> QED
      BY <3>1 DEF SeenInv
  <2> QED
    BY <1>1, <1>12, <2>1, <2>2, PopFacts, Zenon
<1>13. ASSUME AttachThrows(c) \/ WaitTimesOut(c) \/ LoopEnds(c) \/ Stopped(c) PROVE SeenInv'
  BY <1>1, <1>7, <1>13, EndFacts
<1>14. ~PushTry(c)
  BY Pids DEF PushTry
<1>15. CASE UNCHANGED vars
  BY <1>3, <1>15 DEF vars, segment, ring, locals
<1> QED
  BY <1>4, <1>6, <1>8, <1>10, <1>11, <1>12, <1>13, <1>14, <1>15 DEF Next, Runs

\* What the consumer has seen is a producer's pid, nobody or a detach, in every state.
LEMMA SeenInvariant == Spec => []SeenInv
<1>1. Init => SeenInv
  BY Pids DEF Init, SeenInv
<1>2. BlockingInv /\ SpinsInv /\ SeenInv /\ [Next]_vars => SeenInv'
  BY SeenStep
<1> QED
  BY <1>1, <1>2, BlockingInvariant, SpinsInvariant, PTL DEF Spec

\* A pop leaves fewer messages to take, wherever the cached index was, and after a
\* try that failed there are none.
LEMMA FewerToTake ==
  ASSUME ProgramInv, PopTry(Consumer)
  PROVE  \/ pc'[Consumer] = "main" /\ ToTake' < ToTake
         \/ TryFailed(Consumer) /\ ToTake' = 0
<1> DEFINE c == Consumer
<1>1. /\ c \in Procs /\ pc \in [Procs -> Places] /\ cache \in [Procs -> Index] /\ cache[c] \in Index
      /\ writeIdx \in Index /\ readIdx \in Index
  BY Pids DEF ProgramInv, Types
<1>2. UNCHANGED writeIdx
  BY <1>1, PopFacts, Zenon
<1>3. PICK upTo \in {cache[c], writeIdx} :
        /\ cache' = [cache EXCEPT ![c] = upTo]
        /\ \/ /\ pc' = [pc EXCEPT ![c] = "main"]
              /\ \E n \in 1 .. usedSlots(upTo, readIdx) : readIdx' = SlotAt(readIdx, n)
           \/ UNCHANGED readIdx /\ upTo = readIdx /\ writeIdx = readIdx /\ TryFailed(c)
  BY <1>1, PopFacts, Zenon
<1>4. cache'[c] = upTo /\ upTo \in Index
  BY <1>1, <1>3
<1>5. ToTake' = usedSlots(upTo, readIdx') + usedSlots(writeIdx, upTo)
  BY <1>2, <1>4 DEF ToTake
<1>6. /\ usedSlots(cache[c], readIdx) \in Nat /\ usedSlots(writeIdx, cache[c]) \in Nat
      /\ usedSlots(writeIdx, readIdx) \in Nat /\ usedSlots(upTo, readIdx) \in Nat
      /\ usedSlots(writeIdx, writeIdx) = 0
  BY <1>1, <1>4, UsedRange
<1>7. usedSlots(upTo, readIdx) + usedSlots(writeIdx, upTo) <= ToTake
  <2>1. CASE upTo = cache[c]
    BY <1>6, <2>1 DEF ToTake
  <2>2. CASE upTo = writeIdx
    <3>1. usedSlots(writeIdx, readIdx) <= usedSlots(cache[c], readIdx) + usedSlots(writeIdx, cache[c])
      BY <1>1, UsedByWay
    <3> QED
      BY <1>6, <2>2, <3>1 DEF ToTake
  <2> QED
    BY <2>1, <2>2
<1>8. ASSUME NEW n \in 1 .. usedSlots(upTo, readIdx), readIdx' = SlotAt(readIdx, n) PROVE ToTake' < ToTake
  <2>1. n \in Nat /\ n > 0 /\ n <= usedSlots(upTo, readIdx) /\ usedSlots(writeIdx, upTo) \in Nat /\ ToTake \in Nat
    <3>1. usedSlots(writeIdx, upTo) \in Nat
      BY <1>1, <1>4, UsedRange
    <3>2. ToTake \in Nat
      BY <1>6 DEF ToTake
    <3> QED
      BY <1>6, <3>1, <3>2
  <2>2. usedSlots(upTo, readIdx') = usedSlots(upTo, readIdx) - n
    BY <1>1, <1>4, <1>8, <2>1, ReadMany
  <2> QED
    BY <1>5, <1>6, <1>7, <2>1, <2>2
<1>9. CASE UNCHANGED readIdx /\ upTo = readIdx /\ writeIdx = readIdx /\ TryFailed(c)
  <2>1. usedSlots(readIdx, readIdx) = 0
    BY <1>1, UsedRange
  <2>2. ToTake' = 0
    BY <1>5, <1>9, <2>1
  <2> QED
    BY <1>9, <2>2
<1>10. pc' = [pc EXCEPT ![c] = "main"] => pc'[c] = "main"
  BY <1>1
<1> QED
  BY <1>3, <1>8, <1>9, <1>10

\* Fewer messages, or as many and a place nearer to the end, is less left.
LEMMA LessLeft ==
  /\ \A k, a, x, y \in Nat : x < y => a * k + x < a * k + y
  /\ \A k, a, b, x, y \in Nat : a < b /\ x < k => a * k + x < b * k + y
<1>1. ASSUME NEW k \in Nat, NEW a \in Nat, NEW x \in Nat, NEW y \in Nat, x < y
      PROVE  a * k + x < a * k + y
  <2>1. a * k \in Nat
    OBVIOUS
  <2> QED
    BY <1>1, <2>1
<1>2. ASSUME NEW k \in Nat, NEW a \in Nat, NEW b \in Nat, NEW x \in Nat, NEW y \in Nat, a < b, x < k
      PROVE  a * k + x < b * k + y
  <2>1. PICK d \in Nat : b = (a + 1) + d
    <3>1. b - (a + 1) \in Nat /\ b = (a + 1) + (b - (a + 1))
      BY <1>2
    <3> QED
      BY <3>1
  <2>2. a * k \in Nat /\ d * k \in Nat
    OBVIOUS
  <2>3. b * k = a * k + k + d * k
    BY <2>1
  <2> QED
    BY <1>2, <2>2, <2>3
<1> QED
  BY <1>1, <1>2

\* A step of the consumer, with all producers gone.
LEMMA DrainStep ==
  ASSUME BlockingInv, SpinsInv, SeenInv, InDrain, producerPid # 0, \A p \in Producers : proc[p] = "gone",
         Start(Consumer) \/ Runs(Consumer) \/ Stopped(Consumer) \/ Die(Consumer) \/ Reap(Consumer)
  PROVE  pc'[Consumer] = "out" \/ DrainLeft' < DrainLeft
<1> DEFINE c == Consumer
           k == PeerCheckSpins + 7
<1>1. /\ c \in Procs /\ c \notin Producers /\ pc[c] \in {"main", "try", "peer", "kill", "empty"}
      /\ proc[c] = "running" /\ pc \in [Procs -> Places] /\ spins \in [Procs -> Nat]
      /\ seen \in [Procs -> Procs \cup {0, Detached}] /\ spins[c] \in Nat /\ PeerCheckSpins \in Nat
      /\ ProgramInv /\ Types
  BY Pids, BlockingConstants DEF BlockingInv, ProgramInv, Types, SpinsInv, InDrain
<1>2. ToTake \in Nat /\ (ToTake > 0 <=> ToTake # 0)
  <2>1. cache[c] \in Index /\ writeIdx \in Index /\ readIdx \in Index
    BY <1>1 DEF Types
  <2>2. usedSlots(cache[c], readIdx) \in Nat /\ usedSlots(writeIdx, cache[c]) \in Nat
    BY <2>1, UsedRange
  <2> QED
    BY <2>2 DEF ToTake
<1>3. DrainPlace \in Nat /\ k \in Nat
  BY <1>1 DEF DrainPlace
<1>4. ASSUME ToTake' = ToTake, DrainPlace' \in Nat, DrainPlace' < DrainPlace PROVE DrainLeft' < DrainLeft
  <2>1. ToTake * k + DrainPlace' < ToTake * k + DrainPlace
    BY <1>2, <1>3, <1>4, LessLeft, Zenon
  <2> QED
    BY <1>4, <2>1 DEF DrainLeft
<1>5. ASSUME ToTake' \in Nat, ToTake' < ToTake, NEW x \in Nat, DrainPlace' = x, x < k PROVE DrainLeft' < DrainLeft
  <2>1. ToTake' * k + x < ToTake * k + DrainPlace
    <3> HIDE DEF k
    <3> QED
      BY <1>2, <1>3, <1>5, LessLeft, Zenon
  <2> QED
    BY <1>5, <2>1 DEF DrainLeft
<1>6. ASSUME UNCHANGED <<writeIdx, readIdx, cache>> PROVE ToTake' = ToTake
  BY <1>6 DEF ToTake
<1>7. ASSUME pc' = [pc EXCEPT ![c] = "out"] PROVE pc'[c] = "out"
  BY <1>1, <1>7
<1>8. CASE Die(c) \/ LoopEnds(c) \/ Stopped(c)
  BY <1>7, <1>8 DEF Die, LoopEnds, Stopped, Finish, Exit, Goto
<1>9. CASE LoopCalls(c)
  <2>1. pc[c] = "main" /\ pc'[c] = "try" /\ spins' = spins /\ UNCHANGED <<writeIdx, readIdx, cache>>
    BY <1>1, <1>9 DEF LoopCalls, Goto, locals, segment, ring
  <2>2. ToTake' = ToTake
    BY <1>6, <2>1
  <2>3. CASE ToTake > 0
    <3>1. DrainPlace' \in Nat /\ DrainPlace' < DrainPlace
      BY <2>1, <2>2, <2>3 DEF DrainPlace
    <3> QED
      BY <1>4, <2>2, <3>1
  <2>4. CASE ~(ToTake > 0)
    <3> DEFINE x == 4 + (IF spins[c] < PeerCheckSpins THEN PeerCheckSpins - spins[c] ELSE 0)
    <3>1. DrainPlace = PeerCheckSpins + 6 /\ DrainPlace' = x
      BY <2>1, <2>2, <2>4 DEF DrainPlace
    <3>2. x \in Nat /\ x < PeerCheckSpins + 6
      BY <1>1
    <3> HIDE DEF x
    <3>3. DrainPlace' \in Nat /\ DrainPlace' < DrainPlace
      BY <3>1, <3>2, Zenon
    <3> QED
      BY <1>4, <2>2, <3>3
  <2> QED
    BY <2>3, <2>4
<1>10. CASE PopTry(c)
  <2>1. pc[c] = "try" /\ seen' = seen
    BY <1>10, Zenon DEF PopTry
  <2>2. CASE pc'[c] = "main" /\ ToTake' < ToTake
    <3>1. ToTake' \in Nat
      <4>1. Types'
        BY <1>1, <1>10, ProgramStep DEF Next, Runs, ProgramInv
      <4>2. cache'[c] \in Index /\ writeIdx' \in Index /\ readIdx' \in Index
        BY <1>1, <4>1 DEF Types
      <4>3. usedSlots(cache'[c], readIdx') \in Nat /\ usedSlots(writeIdx', cache'[c]) \in Nat
        BY <4>2, UsedRange
      <4> QED
        BY <4>3 DEF ToTake
    <3>2. DrainPlace' = PeerCheckSpins + 6 \/ DrainPlace' = 2
      BY <2>2 DEF DrainPlace
    <3>3. PeerCheckSpins + 6 \in Nat /\ PeerCheckSpins + 6 < k /\ 2 \in Nat /\ 2 < k
      BY <1>1
    <3> QED
      BY <1>5, <2>2, <3>1, <3>2, <3>3
  <2>3. CASE TryFailed(c) /\ ToTake' = 0
    <3> DEFINE x == 4 + (IF spins[c] + 1 < PeerCheckSpins THEN PeerCheckSpins - (spins[c] + 1) ELSE 0)
               y == 4 + (IF spins[c] < PeerCheckSpins THEN PeerCheckSpins - spins[c] ELSE 0)
    <3>1. ~(ToTake' > 0)
      BY <2>3
    <3>2. (DrainPlace' = x /\ spins[c] < PeerCheckSpins) \/ DrainPlace' = 3
      <4>1. CASE spins[c] < PeerCheckSpins /\ spins' = [spins EXCEPT ![c] = @ + 1] /\ UNCHANGED pc
        <5>1. spins'[c] = spins[c] + 1 /\ pc'[c] = "try"
          BY <1>1, <2>1, <4>1
        <5> QED
          BY <3>1, <4>1, <5>1 DEF DrainPlace
      <4>2. CASE Goto(c, "peer") /\ UNCHANGED spins
        <5>1. pc'[c] = "peer"
          BY <1>1, <4>2 DEF Goto
        <5> QED
          BY <3>1, <5>1 DEF DrainPlace
      <4>3. \/ spins[c] < PeerCheckSpins /\ spins' = [spins EXCEPT ![c] = @ + 1] /\ UNCHANGED pc
            \/ Goto(c, "peer") /\ UNCHANGED spins
        BY <1>1, <2>3 DEF TryFailed
      <4> QED
        BY <4>1, <4>2, <4>3
    <3>3. /\ x \in Nat /\ x < k /\ 3 \in Nat /\ 3 < k /\ y \in Nat /\ 3 < y
          /\ spins[c] < PeerCheckSpins => x < y
      BY <1>1
    <3> HIDE DEF x, k
    <3>4. CASE ToTake > 0
      <4>1. ToTake' \in Nat /\ ToTake' < ToTake
        BY <2>3, <3>4
      <4> QED
        BY <1>5, <3>2, <3>3, <4>1, Zenon
    <3>5. CASE ~(ToTake > 0)
      <4>1. DrainPlace = y
        BY <2>1, <3>5 DEF DrainPlace
      <4>2. ToTake' = ToTake
        BY <1>2, <2>3, <3>5
      <4> HIDE DEF y
      <4>3. DrainPlace' \in Nat /\ DrainPlace' < DrainPlace
        BY <3>2, <3>3, <4>1, Zenon
      <4> QED
        BY <1>4, <4>2, <4>3
    <3> QED
      BY <3>4, <3>5
  <2> QED
    BY <1>1, <1>10, <2>2, <2>3, FewerToTake
<1>11. CASE PeerLoad(c)
  <2>1. pc[c] = "peer" /\ pc'[c] = "kill" /\ seen'[c] = producerPid /\ UNCHANGED <<writeIdx, readIdx, cache>>
    BY <1>1, <1>11 DEF PeerLoad, Goto, PeerSlot, segment, ring
  <2>2. ToTake' = ToTake
    BY <1>6, <2>1, Zenon
  <2>3. DrainPlace' \in Nat /\ DrainPlace' < DrainPlace
    BY <2>1, <2>2 DEF DrainPlace
  <2> QED
    BY <1>4, <2>2, <2>3
<1>12. ASSUME TryAgain(c) PROVE ToTake' = ToTake /\ (pc'[c] = "main" \/ (pc'[c] = "try" /\ spins'[c] = 1))
  <2>1. UNCHANGED <<writeIdx, readIdx, cache>>
    BY <1>12 DEF TryAgain, segment, ring
  <2> QED
    BY <1>1, <1>6, <1>12, <2>1 DEF TryAgain, Returns, Goto
<1>13. CASE PeerAnswer(c)
  <2>1. pc[c] = "kill"
    BY <1>13, ZenonT(30) DEF PeerAnswer
  <2>2. CASE peerAlive(c) /\ TryAgain(c)
    <3>1. seen[c] = 0
      <4>1. seen[c] \in Producers \cup {0, -1}
        BY <2>1, Zenon DEF SeenInv, Detached
      <4>2. seen[c] = 0 \/ (seen[c] > 0 /\ proc[seen[c]] # "gone")
        BY <2>2 DEF peerAlive, processAlive
      <4>3. ~(-1 > 0)
        OBVIOUS
      <4> QED
        BY <4>1, <4>2, <4>3, Zenon
    <3>2. ToTake' = ToTake /\ (pc'[c] = "main" \/ (pc'[c] = "try" /\ spins'[c] = 1))
      BY <1>12, <2>2, Zenon
    <3>3. CASE ToTake > 0
      <4>1. DrainPlace' \in Nat /\ DrainPlace' < DrainPlace
        BY <2>1, <3>2, <3>3 DEF DrainPlace
      <4> QED
        BY <1>4, <3>2, <4>1, Zenon
    <3>4. CASE ~(ToTake > 0)
      <4> DEFINE x == 4 + (IF 1 < PeerCheckSpins THEN PeerCheckSpins - 1 ELSE 0)
      <4>1. DrainPlace = PeerCheckSpins + 6 + 1
        BY <2>1, <3>1, <3>4 DEF DrainPlace
      <4>2. DrainPlace' = PeerCheckSpins + 6 \/ DrainPlace' = x
        BY <3>2, <3>4 DEF DrainPlace
      <4>3. /\ x \in Nat /\ x < PeerCheckSpins + 6 + 1
            /\ PeerCheckSpins + 6 \in Nat /\ PeerCheckSpins + 6 < PeerCheckSpins + 6 + 1
        BY <1>1
      <4> HIDE DEF x
      <4>4. DrainPlace' \in Nat /\ DrainPlace' < DrainPlace
        BY <4>1, <4>2, <4>3, Zenon
      <4> QED
        BY <1>4, <3>2, <4>4
    <3> QED
      BY <3>3, <3>4
  <2>3. CASE ~peerAlive(c) /\ Goto(c, "empty") /\ UNCHANGED <<segment, cache>>
    <3>1. pc'[c] = "empty" /\ UNCHANGED <<writeIdx, readIdx, cache>> /\ seen[c] # 0
      BY <1>1, <2>3 DEF Goto, segment, ring, peerAlive
    <3>2. ToTake' = ToTake
      BY <1>6, <3>1
    <3>3. DrainPlace' \in Nat /\ DrainPlace' < DrainPlace
      BY <2>1, <3>1, <3>2 DEF DrainPlace
    <3> QED
      BY <1>4, <3>2, <3>3
  <2> QED
    BY <1>1, <1>13, <2>2, <2>3 DEF PeerAnswer
<1>14. CASE EmptyTest(c)
  <2>1. pc[c] = "empty"
    BY <1>14 DEF EmptyTest
  <2>2. CASE GiveUp(c)
    BY <1>7, <2>2 DEF GiveUp, Finish, Exit, Goto
  <2>3. CASE writeIdx # readIdx /\ TryAgain(c)
    <3>1. ToTake' = ToTake /\ (pc'[c] = "main" \/ (pc'[c] = "try" /\ spins'[c] = 1))
      BY <1>12, <2>3, Zenon
    <3>2. ToTake > 0
      <4>1. cache[c] = readIdx /\ writeIdx \in Index /\ readIdx \in Index
        BY <1>1, <2>1 DEF SeenInv, Types
      <4>2. usedSlots(writeIdx, cache[c]) # 0
        BY <2>3, <4>1, UsedRange
      <4>3. usedSlots(cache[c], readIdx) \in Nat /\ usedSlots(writeIdx, cache[c]) \in Nat
        BY <4>1, UsedRange
      <4> QED
        BY <4>2, <4>3 DEF ToTake
    <3>3. DrainPlace' \in Nat /\ DrainPlace' < DrainPlace
      BY <2>1, <3>1, <3>2 DEF DrainPlace
    <3> QED
      BY <1>4, <3>1, <3>3
  <2> QED
    BY <1>14, <2>2, <2>3 DEF EmptyTest
<1> QED
  BY <1>1, <1>8, <1>9, <1>10, <1>11, <1>13, <1>14, ZenonT(30)
     DEF Start, Runs, Reap, Create, AttachOpen, BindLook, BindClaim, AttachThrows, WaitForPeer, WaitTimesOut, PushTry

\* For any number of producers, any capacity, batch and count of tries: with all
\* producers gone, every step of the consumer brings it nearer to its end.
THEOREM DrainIsBounded == Spec => DrainBounded
<1>1. ASSUME BlockingInv, SpinsInv, SeenInv, [Next]_vars, InDrain, producerPid # 0,
             \A p \in Producers : proc[p] = "gone"
      PROVE  UNCHANGED <<ring, LocalsOf(Consumer)>> \/ pc'[Consumer] = "out" \/ DrainLeft' < DrainLeft
  <2>1. CASE UNCHANGED vars
    BY <2>1 DEF vars, locals, segment, LocalsOf
  <2>2. ASSUME NEW q \in Producers, Start(q) \/ Runs(q) \/ Stopped(q) \/ Die(q) \/ Reap(q) PROVE FALSE
    <3>1. proc[q] = "gone" /\ pc[q] = "out"
      BY <1>1, Pids DEF BlockingInv, ProgramInv
    <3> QED
      BY <2>2, <3>1, Zenon DEF Start, Runs, Stopped, Die, Reap, Create, AttachOpen, BindLook, BindClaim, AttachThrows,
         WaitForPeer, WaitTimesOut, LoopEnds, LoopCalls, PushTry, PopTry, PeerLoad, PeerAnswer, EmptyTest
  <2> QED
    BY <1>1, <2>1, <2>2, Pids, DrainStep DEF Next
<1>2. BlockingInv /\ SpinsInv /\ SeenInv /\ [Next]_vars =>
        [InDrain /\ producerPid # 0 /\ (\A p \in Producers : proc[p] = "gone") =>
           \/ UNCHANGED <<ring, pc[Consumer], spins[Consumer], seen[Consumer]>>
           \/ pc'[Consumer] = "out"
           \/ DrainLeft' < DrainLeft]_vars
  BY <1>1 DEF LocalsOf
<1> QED
  BY <1>2, BlockingInvariant, SpinsInvariant, SeenInvariant, PTL DEF Spec, DrainBounded
=============================================================================
