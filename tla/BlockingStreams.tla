--------------------------- MODULE BlockingStreams ---------------------------
(***************************************************************************)
(* Proofs about the messages of Blocking: what is left in the ring when    *)
(* the consumer gives up, and what the demo's sequence check counts.       *)
(***************************************************************************)
EXTENDS BlockingProofs

\* What is left when the consumer gives up.
LeftInv ==
  /\ goneThen \subseteq Ended \cap Producers
  /\ Consumer \in gaveUp =>
       Consumer \in Ended /\ \A i \in 1 .. Len(fifo) : fifo[i].from \notin goneThen

\* A producer whose cached index is a bound: it is at work, or in bind() and the
\* owner has not moved writeIdx since it loaded readIdx.
Produces(p) == pc[p] \in Active \/ (pc[p] = "bind" /\ p \notin overtaken)
Consumes == pc[Consumer] \in Active \cup {"bind", "empty"}

\* The cached indices after clean takeovers: the producer knows of no more room
\* than there is, and the consumer of no more messages.
RingInv ==
  /\ \A p \in Producers : Produces(p) =>
       usedSlots(writeIdx, readIdx) <= usedSlots(writeIdx, cache[p])
  /\ Consumes => usedSlots(cache[Consumer], readIdx) <= usedSlots(writeIdx, readIdx)

\* The messages in the ring: each producer's are in one run, which starts at 0
\* unless its beginning has been received.
Chain(q, known, next) ==
  \A i \in 1 .. Len(q) :
    /\ i = 1 => q[1].seq = IF q[1].from \in known THEN next ELSE 0
    /\ i > 1 /\ q[i].from = q[i-1].from => q[i].seq = q[i-1].seq + 1
    /\ i > 1 /\ q[i].from # q[i-1].from =>
         q[i].seq = 0 /\ q[i].from \notin known /\ \A j \in 1 .. i - 1 : q[j].from # q[i].from
    /\ q[i].from \notin known =>
         \E k \in 1 .. i : q[k].from = q[i].from /\ (k = 1 \/ q[k-1].from # q[k].from)

NotSeen(p) == p \notin heard /\ \A i \in 1 .. Len(fifo) : fifo[i].from # p

\* A producer at work goes on where its last message ended.
Continues(p) ==
  \/ sent[p] = 0 /\ NotSeen(p)
  \/ Len(fifo) > 0 /\ fifo[Len(fifo)].from = p /\ sent[p] = fifo[Len(fifo)].seq + 1
  \/ Len(fifo) = 0 /\ p \in heard /\ sent[p] = expect

\* What producer p may send after the messages q, and what is left of q when the
\* first n messages are gone.
Fits(q, known, next, p, s) ==
  \/ s = 0 /\ p \notin known /\ \A i \in 1 .. Len(q) : q[i].from # p
  \/ Len(q) > 0 /\ q[Len(q)].from = p /\ s = q[Len(q)].seq + 1
  \/ Len(q) = 0 /\ p \in known /\ s = next
IsRest(q, n, r) == Len(r) = Len(q) - n /\ \A i \in 1 .. Len(q) - n : r[i] = q[i + n]

CountInv ==
  /\ IsFiniteSet(heard)
  /\ heard = {} => expect = 0 /\ errors = 0
  /\ heard # {} => expect # 0 /\ errors = Cardinality(heard) - 1

StreamInv ==
  /\ Chain(fifo, heard, expect)
  /\ \A p \in Producers : Pristine(p) => sent[p] = 0 /\ NotSeen(p)
  /\ \A p \in Producers : pc[p] \in Active => producerPid = p /\ Continues(p)
  /\ CountInv

ContentsInv == LeftInv /\ (clean => RingInv /\ StreamInv)

-----------------------------------------------------------------------------
(* The ring. *)

\* A message written behind the others, where there is room.
LEMMA HeldPush ==
  ASSUME NEW s \in [Index -> Messages], NEW w \in Index, NEW r \in Index, NEW m \in Messages,
         usedSlots(w, r) < Bound
  PROVE  Held([s EXCEPT ![w] = m], SlotAt(w, 1), r) = Append(Held(s, w, r), m)
<1> DEFINE n == usedSlots(w, r)
           t == [s EXCEPT ![w] = m]
           q == Held(s, w, r)
           q1 == Held(t, SlotAt(w, 1), r)
<1>1. n \in Nat /\ SlotAt(w, 1) \in Index /\ usedSlots(SlotAt(w, 1), r) = n + 1 /\ SlotAt(r, n) = w
  BY UsedRange, WriteOne, SlotPlaces
<1>2. t \in [Index -> Messages] /\ t[w] = m /\ \A i \in Index : i # w => t[i] = s[i]
  OBVIOUS
<1> HIDE DEF t
<1>3. q1 \in Seq(Messages) /\ Len(q1) = n + 1 /\ \A i \in 1 .. n + 1 : q1[i] = t[SlotAt(r, i - 1)]
  <2>1. ASSUME NEW v \in Index
        PROVE  LET h == Held(t, v, r) IN
               h \in Seq(Messages) /\ Len(h) = usedSlots(v, r) /\ \A i \in 1 .. usedSlots(v, r) : h[i] = t[SlotAt(r, i - 1)]
    BY <1>2, HeldType, Zenon
  <2> QED
    BY <1>1, <2>1, Zenon
<1>4. q \in Seq(Messages) /\ Len(q) = n /\ \A i \in 1 .. n : q[i] = s[SlotAt(r, i - 1)]
  BY HeldType
<1>5. ASSUME NEW i \in 1 .. n PROVE q1[i] = q[i]
  <2>1. i - 1 \in Nat /\ i - 1 < n /\ i \in 1 .. n + 1
    BY <1>1
  <2>2. SlotAt(r, i - 1) \in Index /\ SlotAt(r, i - 1) # w
    BY <1>1, <2>1, SlotPlaces
  <2> QED
    BY <1>2, <1>3, <1>4, <2>1, <2>2
<1>6. q1[n + 1] = m
  BY <1>1, <1>2, <1>3
<1> HIDE DEF q, q1, n, Messages
<1>7. q1 = Append(q, m)
  BY <1>1, <1>3, <1>4, <1>5, <1>6
<1> QED
  BY <1>7, Zenon DEF q1, t, q

\* Written into a full ring, it leaves nothing between the indices.
LEMMA HeldOverrun ==
  ASSUME NEW s \in [Index -> Messages], NEW w \in Index, NEW r \in Index, NEW m \in Messages,
         ~(usedSlots(w, r) < Bound)
  PROVE  Len(Held([s EXCEPT ![w] = m], SlotAt(w, 1), r)) = 0
<1>1. usedSlots(w, r) = Bound
  BY UsedRange, Pids
<1>2. SlotAt(w, 1) \in Index /\ usedSlots(SlotAt(w, 1), r) = 0
  BY <1>1, WriteOne, UsedRange
<1>3. [s EXCEPT ![w] = m] \in [Index -> Messages]
  OBVIOUS
<1> QED
  BY <1>2, <1>3, HeldType, Zenon

\* The messages left when the n oldest are read.
LEMMA HeldPop ==
  ASSUME NEW s \in [Index -> Messages], NEW w \in Index, NEW r \in Index, NEW n \in Nat,
         n <= usedSlots(w, r)
  PROVE  IsRest(Held(s, w, r), n, Held(s, w, SlotAt(r, n)))
<1> DEFINE u == usedSlots(w, r)
<1>1. u \in Nat /\ SlotAt(r, n) \in Index /\ usedSlots(w, SlotAt(r, n)) = u - n
  BY UsedRange, ReadMany
<1>2. /\ Len(Held(s, w, r)) = u /\ \A i \in 1 .. u : Held(s, w, r)[i] = s[SlotAt(r, i - 1)]
      /\ Len(Held(s, w, SlotAt(r, n))) = u - n
      /\ \A i \in 1 .. u - n : Held(s, w, SlotAt(r, n))[i] = s[SlotAt(SlotAt(r, n), i - 1)]
  BY <1>1, HeldType, Zenon
<1>3. ASSUME NEW i \in 1 .. u - n PROVE Held(s, w, SlotAt(r, n))[i] = Held(s, w, r)[i + n]
  <2>1. i - 1 \in Nat /\ n + (i - 1) <= u /\ i + n \in 1 .. u /\ (i + n) - 1 = n + (i - 1)
    BY <1>1
  <2>2. SlotAt(SlotAt(r, n), i - 1) = SlotAt(r, n + (i - 1))
    BY <2>1, SlotPlaces
  <2>3. Held(s, w, r)[i + n] = s[SlotAt(r, n + (i - 1))]
    BY <1>2, <2>1
  <2> QED
    BY <1>2, <2>2, <2>3
<1> QED
  BY <1>2, <1>3 DEF IsRest

\* What it leaves in the ring: the message behind the others, or, when the cached
\* index promised room that there was not, nothing.
LEMMA PushRing ==
  ASSUME ProgramInv, NEW p \in Procs, PushTry(p)
  PROVE  /\ \/ UNCHANGED <<fifo, sent>>
            \/ /\ fifo' = Append(fifo, [from |-> p, seq |-> sent[p]]) \/ Len(fifo') = 0
               /\ sent' = [sent EXCEPT ![p] = @ + 1] /\ pc' = [pc EXCEPT ![p] = "main"]
         /\ RingInv =>
              \/ UNCHANGED <<fifo, sent>> /\ (pc' = pc \/ pc' = [pc EXCEPT ![p] = "peer"])
              \/ /\ fifo' = Append(fifo, [from |-> p, seq |-> sent[p]])
                 /\ sent' = [sent EXCEPT ![p] = @ + 1] /\ pc' = [pc EXCEPT ![p] = "main"]
<1> DEFINE m == [from |-> p, seq |-> sent[p]]
<1>1. p \in Producers /\ pc[p] = "try" /\ UNCHANGED readIdx
  BY PushFacts
<1>2. slots \in [Index -> Messages] /\ writeIdx \in Index /\ readIdx \in Index /\ cache[p] \in Index
  BY DEF ProgramInv, Types
<1>3. m \in Messages
  BY <1>1 DEF ProgramInv, Types, Messages
<1>4. CASE UNCHANGED <<slots, writeIdx, sent>> /\ (pc' = pc \/ pc' = [pc EXCEPT ![p] = "peer"])
  BY <1>1, <1>4, SameRing
<1>5. ASSUME NEW c \in {cache[p], readIdx}, SlotAt(writeIdx, 1) # c, RingInv PROVE usedSlots(writeIdx, readIdx) < Bound
  <2>1. usedSlots(writeIdx, readIdx) <= usedSlots(writeIdx, c)
    <3>1. usedSlots(writeIdx, readIdx) <= usedSlots(writeIdx, cache[p])
      BY <1>1, <1>5 DEF RingInv, Produces, Active
    <3>2. usedSlots(writeIdx, readIdx) \in Nat
      BY <1>2, UsedRange
    <3> QED
      BY <3>1, <3>2
  <2>2. usedSlots(writeIdx, c) \in 0 .. Bound /\ usedSlots(writeIdx, readIdx) \in Nat
    BY <1>2, UsedRange
  <2>3. usedSlots(writeIdx, c) # Bound
    BY <1>2, <1>5, WriteOne
  <2> QED
    BY <2>1, <2>2, <2>3, Pids
<1>6. ASSUME NEW c \in {cache[p], readIdx}, SlotAt(writeIdx, 1) # c,
             slots' = [slots EXCEPT ![writeIdx] = m], writeIdx' = SlotAt(writeIdx, 1)
      PROVE  /\ fifo' = Append(fifo, m) \/ Len(fifo') = 0
             /\ RingInv => fifo' = Append(fifo, m)
  <2> HIDE DEF m
  <2>1. fifo' = Held([slots EXCEPT ![writeIdx] = m], SlotAt(writeIdx, 1), readIdx)
    BY <1>1, <1>6, FifoIs
  <2>2. CASE usedSlots(writeIdx, readIdx) < Bound
    BY <1>2, <1>3, <2>1, <2>2, FifoIs, HeldPush, Zenon
  <2>3. CASE ~(usedSlots(writeIdx, readIdx) < Bound)
    BY <1>2, <1>3, <1>5, <1>6, <2>1, <2>3, HeldOverrun, Zenon
  <2> QED
    BY <2>2, <2>3
<1> QED
  BY <1>4, <1>6, PushFacts, Zenon

\* The gaps in the sequence that the demo finds in the first n messages.
GapsIn(n) == {i \in 1 .. n : fifo[i].seq # IF i = 1 THEN expect ELSE fifo[i-1].seq + 1}

\* After clean takeovers the messages taken are the oldest of the ring, and the
\* others stay.
LEMMA PopRing ==
  ASSUME ProgramInv, RingInv, NEW p \in Procs, PopTry(p)
  PROVE  \/ /\ pc' = [pc EXCEPT ![p] = "main"]
            /\ \E n \in 1 .. Len(fifo) :
                 /\ fifo' \in Seq(Messages) /\ IsRest(fifo, n, fifo')
                 /\ errors' = errors + Cardinality(GapsIn(n))
                 /\ expect' = fifo[n].seq + 1
                 /\ heard' = heard \cup {fifo[i].from : i \in 1 .. n}
         \/ UNCHANGED <<fifo, errors, expect, heard>> /\ (pc' = pc \/ pc' = [pc EXCEPT ![p] = "peer"])
<1>1. /\ p = Consumer /\ pc[p] = "try" /\ UNCHANGED <<slots, writeIdx>>
      /\ slots \in [Index -> Messages] /\ writeIdx \in Index /\ readIdx \in Index /\ cache[p] \in Index
  BY PopFacts DEF ProgramInv, Types
<1>2. CASE UNCHANGED <<readIdx, errors, expect, heard>> /\ (pc' = pc \/ pc' = [pc EXCEPT ![p] = "peer"])
  BY <1>1, <1>2, SameRing
<1>3. ASSUME NEW upTo \in {cache[p], writeIdx}, NEW n \in 1 .. usedSlots(upTo, readIdx),
             readIdx' = SlotAt(readIdx, n),
             errors' = errors + Cardinality(Gaps(Oldest(n), expect)),
             expect' = Oldest(n)[n].seq + 1,
             heard' = heard \cup {Oldest(n)[i].from : i \in 1 .. n}
      PROVE  /\ n \in 1 .. Len(fifo)
             /\ fifo' \in Seq(Messages) /\ IsRest(fifo, n, fifo')
             /\ errors' = errors + Cardinality(GapsIn(n))
             /\ expect' = fifo[n].seq + 1
             /\ heard' = heard \cup {fifo[i].from : i \in 1 .. n}
  <2> DEFINE u == usedSlots(writeIdx, readIdx)
             b == Oldest(n)
  <2>1. u \in Nat /\ usedSlots(upTo, readIdx) \in Nat /\ usedSlots(cache[p], readIdx) \in Nat
    BY <1>1, UsedRange
  <2>2. usedSlots(upTo, readIdx) <= u
    <3>1. usedSlots(cache[p], readIdx) <= u
      BY <1>1 DEF RingInv, Consumes, Active
    <3> QED
      BY <2>1, <3>1
  <2>3. n \in Nat /\ n > 0 /\ n <= u
    BY <2>1, <2>2
  <2>4. Len(fifo) = u /\ \A i \in 1 .. u : fifo[i] = slots[SlotAt(readIdx, i - 1)]
    BY FifoType DEF ProgramInv
  <2>5. DOMAIN b = 1 .. n /\ \A i \in 1 .. n : b[i] = fifo[i]
    <3>1. \A i \in 1 .. n : i \in 1 .. u
      BY <2>1, <2>3
    <3> QED
      BY <2>4, <3>1 DEF Oldest
  <2> HIDE DEF b, u
  <2>6. Gaps(b, expect) = GapsIn(n)
    <3>1. \A i \in 1 .. n : i # 1 => i - 1 \in 1 .. n /\ b[i-1] = fifo[i-1]
      BY <2>3, <2>5
    <3> QED
      BY <2>5, <3>1 DEF Gaps, GapsIn
  <2>7. fifo' = Held(slots, writeIdx, SlotAt(readIdx, n)) /\ fifo = Held(slots, writeIdx, readIdx)
    BY <1>1, <1>3, FifoIs
  <2>8. fifo' \in Seq(Messages) /\ IsRest(fifo, n, fifo')
    <3>1. SlotAt(readIdx, n) \in Index
      BY <1>1, <2>3, ReadMany DEF u
    <3>2. IsRest(Held(slots, writeIdx, readIdx), n, Held(slots, writeIdx, SlotAt(readIdx, n)))
      BY <1>1, <2>3, HeldPop DEF u
    <3> QED
      BY <1>1, <2>7, <3>1, <3>2, HeldType, Zenon
  <2>9. {b[i].from : i \in 1 .. n} = {fifo[i].from : i \in 1 .. n}
    BY <2>5
  <2>10. b[n] = fifo[n] /\ n \in 1 .. Len(fifo)
    BY <2>1, <2>3, <2>4, <2>5
  <2> QED
    BY <1>3, <2>6, <2>8, <2>9, <2>10, Zenon DEF b
<1> QED
  BY <1>2, <1>3, PopFacts, Zenon

-----------------------------------------------------------------------------
(* What is left behind. *)

\* Every step keeps what is left behind a consumer that has given up.
LEMMA LeftStep ==
  ASSUME ProgramInv, LeftInv, [Next]_vars PROVE LeftInv'
<1> DEFINE Clear == \A i \in 1 .. Len(fifo) : fifo[i].from \notin goneThen
<1> USE DEF LeftInv
<1>1. Ended \subseteq Ended'
  BY EndedStays
<1>2. Consumer \in gaveUp => pc[Consumer] = "out"
  BY Pids DEF ProgramInv, Types, Ended
<1>3. ASSUME UNCHANGED <<fifo, gaveUp, goneThen>> PROVE LeftInv'
  BY <1>1, <1>3
<1>4. ASSUME NEW p \in Producers, UNCHANGED <<fifo, goneThen>>, gaveUp' = gaveUp \cup {p} PROVE LeftInv'
  BY <1>1, <1>4, Pids
<1>5. ASSUME NEW p \in Procs, PushTry(p) PROVE LeftInv'
  <2>1. p \in Producers /\ proc[p] = "running" /\ UNCHANGED <<gaveUp, goneThen>>
    BY <1>5, PushFacts, Zenon DEF ProgramInv
  <2>2. p \notin goneThen
    BY <2>1 DEF Ended
  <2>3. Clear => Clear'
    <3>1. CASE UNCHANGED fifo
      BY <2>1, <3>1
    <3>2. CASE fifo' = Append(fifo, [from |-> p, seq |-> sent[p]])
      <4>1. /\ Len(fifo') = Len(fifo) + 1 /\ Len(fifo) \in Nat
            /\ \A i \in 1 .. Len(fifo) : fifo'[i] = fifo[i]
            /\ fifo'[Len(fifo) + 1].from = p
        BY <3>2, FifoType DEF ProgramInv
      <4> QED
        BY <2>1, <2>2, <4>1
    <3>3. CASE Len(fifo') = 0
      BY <3>3
    <3> QED
      BY <1>5, <3>1, <3>2, <3>3, PushRing
  <2> QED
    BY <1>1, <2>1, <2>3
<1>6. ASSUME NEW p \in Procs, PopTry(p) PROVE LeftInv'
  <2>1. p = Consumer /\ pc[p] = "try" /\ UNCHANGED <<gaveUp, goneThen>>
    BY <1>6, PopFacts
  <2> QED
    BY <1>1, <1>2, <2>1
<1>7. ASSUME NEW p \in Procs, PeerAnswer(p) PROVE LeftInv'
  <2>0. fifo' = fifo
    BY <1>7, AnswerFacts, SameRing, Zenon
  <2>1. CASE TryAgain(p) /\ UNCHANGED goneThen
    BY <1>3, <2>0, <2>1, TryAgainFacts
  <2>2. CASE p \in Producers /\ gaveUp' = gaveUp \cup {p} /\ UNCHANGED goneThen
    BY <1>4, <2>0, <2>2
  <2>3. CASE p = Consumer /\ pc[p] = "kill" /\ goneThen' = Ended \cap Producers /\ UNCHANGED gaveUp
    BY <1>1, <1>2, <2>3
  <2> QED
    BY <1>7, <2>1, <2>2, <2>3, AnswerFacts, Zenon
<1>8. ASSUME NEW p \in Procs, EmptyTest(p) PROVE LeftInv'
  <2>0. fifo' = fifo
    BY <1>8, EmptyFacts, SameRing
  <2>1. CASE TryAgain(p)
    BY <1>3, <1>8, <2>0, <2>1, TryAgainFacts, EmptyFacts
  <2>2. CASE p = Consumer /\ Len(fifo) = 0 /\ Finish(p) /\ gaveUp' = gaveUp \cup {p} /\ UNCHANGED goneThen
    <3>1. Consumer \in Ended'
      BY <2>2, FinishFacts, Pids DEF ProgramInv, Types, Ended
    <3> QED
      BY <1>1, <2>0, <2>2, <3>1
  <2> QED
    BY <1>8, <2>1, <2>2, EmptyFacts
<1>9. ASSUME NEW p \in Procs, \/ Create(p) \/ AttachOpen(p) \/ BindClaim(p) \/ BindLook(p) \/ AttachThrows(p)
                             \/ WaitForPeer(p) \/ WaitTimesOut(p) \/ LoopEnds(p) \/ LoopCalls(p) \/ PeerLoad(p)
                             \/ Start(p) \/ Stopped(p) \/ Die(p) \/ Reap(p)
      PROVE  UNCHANGED <<fifo, gaveUp, goneThen>>
  <2>1. Types
    BY DEF ProgramInv
  <2>2. UNCHANGED <<slots, writeIdx, readIdx, gaveUp, goneThen>>
    BY <1>9, <2>1, CreateFacts, OpenFacts, ClaimFacts, QuietFacts, EndFacts, SystemFacts, Zenon
  <2> QED
    BY <2>2, SameRing
<1>10. CASE UNCHANGED vars
  <2>1. UNCHANGED <<slots, writeIdx, readIdx, gaveUp, goneThen>>
    BY <1>10 DEF vars, segment, ring, history
  <2> QED
    BY <1>3, <2>1, SameRing
<1> HIDE DEF LeftInv
<1> QED
  BY <1>3, <1>5, <1>6, <1>7, <1>8, <1>9, <1>10 DEF Next, Runs

-----------------------------------------------------------------------------
(* The cached indices. *)

\* A step of p that moves no index: p leaves its program, or goes on in it with the
\* cached index it had.
LEMMA RingQuiet ==
  ASSUME ProgramInv, RingInv, NEW p \in Procs, UNCHANGED <<writeIdx, readIdx>>,
         \A q \in Procs : q # p => pc'[q] = pc[q] /\ cache'[q] = cache[q] /\ (q \in overtaken => q \in overtaken'),
         \/ pc'[p] \in {"out", "start"}
         \/ pc'[p] \in Active \cup {"empty"} /\ pc[p] \in Active \cup {"empty"} /\ cache'[p] = cache[p]
         \/ pc'[p] = pc[p] /\ cache'[p] = cache[p] /\ (p \in overtaken => p \in overtaken')
  PROVE  RingInv'
<1>1. ASSUME NEW q \in Producers, Produces(q)' PROVE Produces(q) /\ cache'[q] = cache[q]
  <2>1. CASE q # p
    BY <1>1, <2>1, Pids DEF Produces
  <2>2. CASE q = p
    <3>1. pc[p] # "empty"
      BY <2>2 DEF ProgramInv
    <3> QED
      BY <1>1, <2>2, <3>1 DEF Produces, Active
  <2> QED
    BY <2>1, <2>2
<1>2. ASSUME Consumes' PROVE Consumes /\ cache'[Consumer] = cache[Consumer]
  BY <1>2, Pids DEF Consumes, Active
<1>3. \A q \in Producers : Produces(q)' => usedSlots(writeIdx, readIdx) <= usedSlots(writeIdx, cache'[q])
  BY <1>1 DEF RingInv
<1>4. Consumes' => usedSlots(cache'[Consumer], readIdx) <= usedSlots(writeIdx, readIdx)
  BY <1>2 DEF RingInv
<1> QED
  BY <1>3, <1>4 DEF RingInv

\* A process that ends.
LEMMA RingEnd ==
  ASSUME ProgramInv, RingInv, NEW p \in Procs, pc' = [pc EXCEPT ![p] = "out"], cache' = [cache EXCEPT ![p] = 0],
         overtaken' = overtaken \ {p}, UNCHANGED <<writeIdx, readIdx>>
  PROVE  RingInv'
<1>1. pc \in [Procs -> Places] /\ cache \in [Procs -> Index]
  BY DEF ProgramInv, Types
<1>2. pc'[p] = "out" /\ \A q \in Procs : q # p => pc'[q] = pc[q] /\ cache'[q] = cache[q]
  BY <1>1
<1> QED
  BY <1>2, RingQuiet

\* A process that goes on in its program.
LEMMA RingMove ==
  ASSUME ProgramInv, RingInv, NEW p \in Procs, NEW where \in {"start", "empty"} \cup Active,
         pc' = [pc EXCEPT ![p] = where], where = "start" \/ pc[p] \in Active \cup {"empty"},
         UNCHANGED <<writeIdx, readIdx, cache, overtaken>>
  PROVE  RingInv'
<1>1. pc \in [Procs -> Places]
  BY DEF ProgramInv, Types
<1>2. pc'[p] = where /\ \A q \in Procs : q # p => pc'[q] = pc[q]
  BY <1>1
<1> QED
  BY <1>2, RingQuiet

\* create() begins with an empty ring, and attach() with the index it loads.
LEMMA RingAttach ==
  ASSUME ProgramInv, RingInv, NEW p \in Procs, Create(p) \/ AttachOpen(p) PROVE RingInv'
<1>1. /\ pc \in [Procs -> Places] /\ cache \in [Procs -> Index] /\ writeIdx \in Index /\ readIdx \in Index
      /\ UNCHANGED <<writeIdx, readIdx, overtaken>> /\ \E where : pc' = [pc EXCEPT ![p] = where]
      /\ cache' = [cache EXCEPT ![p] = IF p = Consumer THEN writeIdx ELSE readIdx]
  <2>1. CASE Create(p)
    <3>1. cache[p] = writeIdx /\ cache[p] = readIdx /\ cache' = cache /\ UNCHANGED <<writeIdx, readIdx, overtaken>>
      BY <2>1, CreateFacts, Zenon
    <3>2. \E where : pc' = [pc EXCEPT ![p] = where]
      BY <2>1, CreateFacts, Zenon
    <3>3. pc \in [Procs -> Places] /\ cache \in [Procs -> Index] /\ writeIdx \in Index /\ readIdx \in Index
      BY DEF ProgramInv, Types
    <3> QED
      BY <3>1, <3>2, <3>3, Zenon
  <2>2. CASE AttachOpen(p)
    BY <2>2, OpenFacts DEF ProgramInv, Types
  <2> QED
    BY <2>1, <2>2
<1>2. \A q \in Procs : q # p => pc'[q] = pc[q] /\ cache'[q] = cache[q]
  BY <1>1
<1>3. cache'[p] = IF p = Consumer THEN writeIdx ELSE readIdx
  BY <1>1
<1>4. usedSlots(writeIdx, readIdx) \in Nat
  BY <1>1, UsedRange
<1>5. ASSUME NEW q \in Producers, Produces(q)' PROVE usedSlots(writeIdx, readIdx) <= usedSlots(writeIdx, cache'[q])
  <2>1. CASE q = p
    BY <1>3, <1>4, <2>1, Pids
  <2>2. CASE q # p
    BY <1>1, <1>2, <1>5, <2>2, Pids DEF RingInv, Produces
  <2> QED
    BY <2>1, <2>2
<1>6. ASSUME Consumes' PROVE usedSlots(cache'[Consumer], readIdx) <= usedSlots(writeIdx, readIdx)
  <2>1. CASE Consumer = p
    BY <1>3, <1>4, <2>1
  <2>2. CASE Consumer # p
    BY <1>2, <1>6, <2>2, Pids DEF RingInv, Consumes
  <2> QED
    BY <2>1, <2>2
<1> QED
  BY <1>1, <1>5, <1>6 DEF RingInv

\* A claim by a process that was not overtaken.
LEMMA RingClaim ==
  ASSUME ProgramInv, RingInv, NEW p \in Procs, BindClaim(p), clean' PROVE RingInv'
<1>1. /\ pc[p] = "bind" /\ pc' = [pc EXCEPT ![p] = "main"] /\ p \notin overtaken
      /\ overtaken' = overtaken \ {p} /\ UNCHANGED <<writeIdx, readIdx, cache>> /\ pc \in [Procs -> Places]
  BY ClaimFacts, Zenon DEF ProgramInv, Types
<1>2. \A q \in Procs : q # p => pc'[q] = pc[q]
  BY <1>1
<1>3. \A q \in Producers : Produces(q)' => Produces(q)
  BY <1>1, <1>2, Pids DEF Produces
<1>4. Consumes' => Consumes
  BY <1>1, <1>2, Pids DEF Consumes
<1> QED
  BY <1>1, <1>3, <1>4 DEF RingInv

\* A message sent: the others in bind() are overtaken, and there was room.
LEMMA RingPush ==
  ASSUME ProgramInv, RingInv, StreamInv, NEW p \in Procs, PushTry(p) PROVE RingInv'
<1>1. /\ p \in Producers /\ pc[p] = "try" /\ UNCHANGED readIdx
      /\ pc \in [Procs -> Places] /\ cache \in [Procs -> Index] /\ cache[p] \in Index
      /\ writeIdx \in Index /\ readIdx \in Index
  BY PushFacts, Zenon DEF ProgramInv, Types
<1>2. PICK c \in {cache[p], readIdx} :
        /\ cache' = [cache EXCEPT ![p] = c]
        /\ \/ /\ SlotAt(writeIdx, 1) # c
              /\ writeIdx' = SlotAt(writeIdx, 1)
              /\ overtaken' = overtaken \cup {q \in Producers : pc[q] = "bind"}
              /\ pc' = [pc EXCEPT ![p] = "main"]
           \/ /\ UNCHANGED <<writeIdx, overtaken>>
              /\ (pc' = pc \/ pc' = [pc EXCEPT ![p] = "peer"])
  BY PushFacts, Zenon
<1>3. cache'[p] = c /\ c \in Index /\ \A q \in Procs : q # p => cache'[q] = cache[q] /\ pc'[q] = pc[q]
  BY <1>1, <1>2
<1>4. /\ usedSlots(writeIdx, readIdx) \in Nat /\ usedSlots(writeIdx, c) \in 0 .. Bound
      /\ usedSlots(cache[Consumer], readIdx) \in Nat
  BY <1>1, <1>3, UsedRange, Pids
<1>5. usedSlots(writeIdx, readIdx) <= usedSlots(writeIdx, c)
  <2>1. usedSlots(writeIdx, readIdx) <= usedSlots(writeIdx, cache[p])
    BY <1>1 DEF RingInv, Produces, Active
  <2> QED
    BY <1>4, <2>1
<1>6. ASSUME NEW q \in Producers, q # p PROVE pc[q] \notin Active
  <2>1. producerPid = p
    BY <1>1 DEF StreamInv, Active
  <2> QED
    BY <1>6, <2>1, Zenon DEF StreamInv
<1>7. CASE /\ SlotAt(writeIdx, 1) # c /\ writeIdx' = SlotAt(writeIdx, 1)
           /\ overtaken' = overtaken \cup {q \in Producers : pc[q] = "bind"}
           /\ pc' = [pc EXCEPT ![p] = "main"]
  <2>1. usedSlots(writeIdx, c) < Bound /\ usedSlots(writeIdx, readIdx) < Bound
    <3>1. usedSlots(writeIdx, c) # Bound
      BY <1>1, <1>3, <1>7, WriteOne
    <3> QED
      BY <1>4, <1>5, <3>1, Pids
  <2>2. /\ usedSlots(writeIdx', c) = usedSlots(writeIdx, c) + 1
        /\ usedSlots(writeIdx', readIdx) = usedSlots(writeIdx, readIdx) + 1
    BY <1>1, <1>3, <1>7, <2>1, WriteOne
  <2>3. ASSUME NEW q \in Producers, Produces(q)' PROVE q = p
    BY <1>3, <1>6, <1>7, <2>3, Pids DEF Produces
  <2>4. usedSlots(writeIdx', readIdx) <= usedSlots(writeIdx', c)
    BY <1>4, <1>5, <2>2
  <2>5. ASSUME Consumes' PROVE usedSlots(cache[Consumer], readIdx) <= usedSlots(writeIdx', readIdx)
    <3>1. Consumes
      BY <1>1, <1>3, <2>5, Pids DEF Consumes
    <3>2. usedSlots(cache[Consumer], readIdx) <= usedSlots(writeIdx, readIdx)
      BY <3>1 DEF RingInv
    <3> QED
      BY <1>4, <2>2, <3>2
  <2>6. cache'[Consumer] = cache[Consumer]
    BY <1>1, <1>3, Pids
  <2>7. \A q \in Producers : Produces(q)' => usedSlots(writeIdx', readIdx') <= usedSlots(writeIdx', cache'[q])
    BY <1>1, <1>3, <2>3, <2>4
  <2>8. Consumes' => usedSlots(cache'[Consumer], readIdx') <= usedSlots(writeIdx', readIdx')
    BY <1>1, <2>5, <2>6
  <2> QED
    BY <2>7, <2>8 DEF RingInv
<1>8. CASE UNCHANGED <<writeIdx, overtaken>> /\ (pc' = pc \/ pc' = [pc EXCEPT ![p] = "peer"])
  <2>1. \A q \in Producers : Produces(q)' => Produces(q)
    BY <1>1, <1>8, Pids DEF Produces, Active
  <2>2. \A q \in Producers : Produces(q)' => usedSlots(writeIdx', readIdx') <= usedSlots(writeIdx', cache'[q])
    BY <1>1, <1>3, <1>5, <1>8, <2>1, Pids DEF RingInv
  <2>3. cache'[Consumer] = cache[Consumer] /\ (Consumes' => Consumes)
    BY <1>1, <1>3, Pids DEF Consumes
  <2>4. Consumes' => usedSlots(cache'[Consumer], readIdx') <= usedSlots(writeIdx', readIdx')
    BY <1>1, <1>8, <2>3 DEF RingInv
  <2> QED
    BY <2>2, <2>4 DEF RingInv
<1> QED
  BY <1>2, <1>7, <1>8

\* Messages received.
LEMMA RingPop ==
  ASSUME ProgramInv, RingInv, NEW p \in Procs, PopTry(p) PROVE RingInv'
<1>1. /\ p = Consumer /\ pc[p] = "try" /\ UNCHANGED <<writeIdx, overtaken>>
      /\ pc \in [Procs -> Places] /\ cache \in [Procs -> Index] /\ cache[p] \in Index
      /\ writeIdx \in Index /\ readIdx \in Index
  BY PopFacts, Zenon DEF ProgramInv, Types
<1>2. PICK upTo \in {cache[p], writeIdx} :
        /\ cache' = [cache EXCEPT ![p] = upTo]
        /\ \/ /\ pc' = [pc EXCEPT ![p] = "main"]
              /\ \E n \in 1 .. usedSlots(upTo, readIdx) : readIdx' = SlotAt(readIdx, n)
           \/ UNCHANGED readIdx /\ (pc' = pc \/ pc' = [pc EXCEPT ![p] = "peer"])
  BY PopFacts, Zenon
<1>3. cache'[p] = upTo /\ upTo \in Index /\ \A q \in Procs : q # p => cache'[q] = cache[q] /\ pc'[q] = pc[q]
  BY <1>1, <1>2
<1>4. /\ usedSlots(writeIdx, readIdx) \in Nat /\ usedSlots(upTo, readIdx) \in Nat
      /\ \A q \in Procs : usedSlots(writeIdx, cache[q]) \in Nat
  BY <1>1, <1>3, UsedRange
<1>5. usedSlots(upTo, readIdx) <= usedSlots(writeIdx, readIdx)
  <2>1. usedSlots(cache[p], readIdx) <= usedSlots(writeIdx, readIdx)
    BY <1>1 DEF RingInv, Consumes, Active
  <2> QED
    BY <1>4, <2>1
<1>6. \A q \in Producers : /\ q # p /\ (Produces(q)' => Produces(q)) /\ cache'[q] = cache[q]
                           /\ (Produces(q) => usedSlots(writeIdx, readIdx) <= usedSlots(writeIdx, cache[q]))
  BY <1>1, <1>3, Pids DEF Produces, RingInv
<1>7. ASSUME NEW n \in 1 .. usedSlots(upTo, readIdx), readIdx' = SlotAt(readIdx, n) PROVE RingInv'
  <2>1. n \in Nat /\ n <= usedSlots(upTo, readIdx) /\ n <= usedSlots(writeIdx, readIdx)
    BY <1>4, <1>5
  <2>2. /\ usedSlots(writeIdx, readIdx') = usedSlots(writeIdx, readIdx) - n
        /\ usedSlots(upTo, readIdx') = usedSlots(upTo, readIdx) - n
    BY <1>1, <1>3, <1>7, <2>1, ReadMany
  <2>3. \A q \in Producers : Produces(q)' => usedSlots(writeIdx', readIdx') <= usedSlots(writeIdx', cache'[q])
    BY <1>1, <1>4, <1>6, <2>1, <2>2, Pids
  <2>4. usedSlots(upTo, readIdx') <= usedSlots(writeIdx, readIdx')
    BY <1>4, <1>5, <2>1, <2>2
  <2> QED
    BY <1>1, <1>3, <2>3, <2>4 DEF RingInv
<1>8. CASE UNCHANGED readIdx
  <2>1. \A q \in Producers : Produces(q)' => usedSlots(writeIdx', readIdx') <= usedSlots(writeIdx', cache'[q])
    BY <1>1, <1>6, <1>8
  <2> QED
    BY <1>1, <1>3, <1>5, <1>8, <2>1 DEF RingInv
<1> QED
  BY <1>2, <1>7, <1>8

\* Every step keeps the cached indices right, as long as the takeovers are clean.
LEMMA RingStep ==
  ASSUME ProgramInv, RingInv, StreamInv, [Next]_vars, clean' PROVE RingInv'
<1>0. Types /\ pc \in [Procs -> Places] /\ cache \in [Procs -> Index]
  BY DEF ProgramInv, Types
<1>1. CASE UNCHANGED vars
  BY <1>1, Zenon DEF RingInv, Produces, Consumes, vars, segment, ring, locals, history, takeovers
<1>2. ASSUME NEW p \in Procs, Finish(p), UNCHANGED <<writeIdx, readIdx>> PROVE RingInv'
  BY <1>0, <1>2, FinishFacts, RingEnd, Zenon
<1>3. ASSUME NEW p \in Procs, AttachThrows(p) \/ WaitTimesOut(p) \/ LoopEnds(p) \/ Stopped(p) PROVE RingInv'
  BY <1>2, <1>3, EndFacts
<1>4. ASSUME NEW p \in Procs, WaitForPeer(p) \/ LoopCalls(p) \/ PeerLoad(p) \/ BindLook(p) PROVE RingInv'
  <2>1. UNCHANGED <<writeIdx, readIdx, cache, overtaken>>
    BY <1>4, QuietFacts, Zenon
  <2>2. CASE UNCHANGED pc
    BY <2>1, <2>2 DEF RingInv, Produces, Consumes
  <2>3. ASSUME NEW where \in Active, Goto(p, where), pc[p] \in Active PROVE RingInv'
    BY <2>1, <2>3, RingMove, Zenon DEF Goto
  <2> QED
    BY <1>4, <2>2, <2>3, QuietFacts, Zenon DEF Active
<1>5. ASSUME NEW p \in Procs, PeerAnswer(p) \/ EmptyTest(p) PROVE RingInv'
  <2>1. pc[p] \in Active \cup {"empty"} /\ UNCHANGED <<writeIdx, readIdx>>
    BY <1>5, AnswerFacts, EmptyFacts, Zenon DEF Active
  <2>2. CASE Finish(p)
    BY <1>2, <2>1, <2>2
  <2>3. CASE TryAgain(p)
    <3>1. PICK where \in {"main", "try"} : pc' = [pc EXCEPT ![p] = where]
      BY <2>3, TryAgainFacts, Zenon DEF Goto
    <3>2. where \in {"start", "empty"} \cup Active /\ UNCHANGED <<cache, overtaken>>
      BY <2>3, TryAgainFacts, Zenon DEF Active
    <3> QED
      BY <2>1, <3>1, <3>2, RingMove, Zenon
  <2>4. CASE Goto(p, "empty") /\ UNCHANGED <<cache, overtaken>>
    BY <2>1, <2>4, RingMove, Zenon DEF Goto
  <2> QED
    BY <1>5, <2>2, <2>3, <2>4, AnswerFacts, EmptyFacts, Zenon
<1>6. ASSUME NEW p \in Procs, Start(p) \/ Die(p) \/ Reap(p) PROVE RingInv'
  <2>1. UNCHANGED <<writeIdx, readIdx>>
    BY <1>6, SystemFacts, Zenon
  <2>2. CASE pc' = [pc EXCEPT ![p] = "start"] /\ UNCHANGED <<cache, overtaken>>
    BY <2>1, <2>2, RingMove, Zenon
  <2>3. CASE pc' = [pc EXCEPT ![p] = "out"] /\ overtaken' = overtaken \ {p} /\ cache' = [cache EXCEPT ![p] = 0]
    BY <2>1, <2>3, RingEnd, Zenon
  <2>4. CASE UNCHANGED <<pc, cache, overtaken>>
    BY <2>1, <2>4 DEF RingInv, Produces, Consumes
  <2> QED
    BY <1>6, <2>2, <2>3, <2>4, SystemFacts, Zenon
<1> QED
  BY <1>1, <1>3, <1>4, <1>5, <1>6, RingAttach, RingClaim, RingPush, RingPop DEF Next, Runs

-----------------------------------------------------------------------------
(* What the sequence check counts. *)

\* Places in a ring of n messages to which one is added.
LEMMA Below ==
  ASSUME NEW n \in Nat, NEW i \in 1 .. n + 1, i <= n
  PROVE  /\ i \in 1 .. n /\ 1 \in 1 .. n /\ (i > 1 => i - 1 \in 1 .. n)
         /\ \A j \in 1 .. i - 1 : j \in 1 .. n
         /\ \A k \in 1 .. i : k \in 1 .. n /\ (k # 1 => k - 1 \in 1 .. n)
OBVIOUS

\* A number after another, and what is left of a after n, or n but not all, are gone.
LEMMA After ==
  /\ \A x \in Nat : x + 1 > 0 /\ x + 1 # 0
  /\ \A a \in Nat, n \in Nat : n > 0 /\ n <= a /\ n # a =>
       a - n \in 1 .. a - n /\ (a - n) + n = a /\ a - n > 0
  /\ \A a \in Nat, n \in Nat : n > 0 /\ n <= a =>
       (\A i \in 1 .. a - n : i + n \in 1 .. a) /\ \A i \in 1 .. n : i \in 1 .. a
OBVIOUS

\* Sending: a message that goes on where its producer ended, or that is the first
\* of a new one, keeps the runs.
LEMMA ChainPush ==
  ASSUME NEW q \in Seq(Messages), NEW known, NEW next \in Nat, Chain(q, known, next),
         NEW p \in Producers, NEW s \in Nat, Fits(q, known, next, p, s)
  PROVE  Chain(Append(q, [from |-> p, seq |-> s]), known, next)
<1> DEFINE m == [from |-> p, seq |-> s]
           r == Append(q, m)
           n == Len(q)
<1>1. n \in Nat /\ Len(r) = n + 1 /\ r[n + 1] = m /\ \A i \in 1 .. n : r[i] = q[i]
  OBVIOUS
<1>2. m.from = p /\ m.seq = s
  OBVIOUS
<1> HIDE DEF m, r, n
<1>3. ASSUME NEW i \in 1 .. n + 1
      PROVE  /\ i = 1 => r[1].seq = IF r[1].from \in known THEN next ELSE 0
             /\ i > 1 /\ r[i].from = r[i-1].from => r[i].seq = r[i-1].seq + 1
             /\ i > 1 /\ r[i].from # r[i-1].from =>
                  r[i].seq = 0 /\ r[i].from \notin known /\ \A j \in 1 .. i - 1 : r[j].from # r[i].from
             /\ r[i].from \notin known =>
                  \E k \in 1 .. i : r[k].from = r[i].from /\ (k = 1 \/ r[k-1].from # r[k].from)
  <2>1. CASE i <= n
    <3>1. i \in 1 .. n /\ \A k \in 1 .. i : r[k] = q[k] /\ (k # 1 => r[k-1] = q[k-1])
      BY <1>1, <2>1, Below, Zenon
    <3>2. /\ i = 1 => q[1].seq = IF q[1].from \in known THEN next ELSE 0
          /\ i > 1 /\ q[i].from = q[i-1].from => q[i].seq = q[i-1].seq + 1
          /\ i > 1 /\ q[i].from # q[i-1].from =>
               q[i].seq = 0 /\ q[i].from \notin known /\ \A j \in 1 .. i - 1 : q[j].from # q[i].from
          /\ q[i].from \notin known =>
               \E k \in 1 .. i : q[k].from = q[i].from /\ (k = 1 \/ q[k-1].from # q[k].from)
      BY <3>1, Zenon DEF Chain, n
    <3>3. r[i] = q[i] /\ r[1] = q[1] /\ (i > 1 => r[i-1] = q[i-1]) /\ \A j \in 1 .. i - 1 : r[j] = q[j]
      BY <1>1, <2>1, Below, Zenon
    <3>4. r[i].from \notin known =>
            \E k \in 1 .. i : r[k].from = r[i].from /\ (k = 1 \/ r[k-1].from # r[k].from)
      <4> SUFFICES ASSUME r[i].from \notin known
                   PROVE  \E k \in 1 .. i : r[k].from = r[i].from /\ (k = 1 \/ r[k-1].from # r[k].from)
        OBVIOUS
      <4>1. PICK k \in 1 .. i : q[k].from = q[i].from /\ (k = 1 \/ q[k-1].from # q[k].from)
        BY <3>2, <3>3, Zenon
      <4>2. r[k] = q[k] /\ (k # 1 => r[k-1] = q[k-1])
        BY <3>1
      <4> QED
        BY <3>3, <4>1, <4>2, Zenon
    <3>5. i > 1 /\ r[i].from # r[i-1].from =>
            r[i].seq = 0 /\ r[i].from \notin known /\ \A j \in 1 .. i - 1 : r[j].from # r[i].from
      BY <3>2, <3>3
    <3> QED
      BY <3>2, <3>3, <3>4, <3>5, Zenon
  <2>2. CASE i = n + 1
    <3>1. CASE n = 0
      <4>1. i = 1 /\ 1 \in 1 .. i /\ ~(i > 1) /\ r[1].from = p /\ r[1].seq = s
        BY <1>1, <1>2, <2>2, <3>1
      <4>2. (p \notin known /\ s = 0) \/ (p \in known /\ s = next)
        BY <3>1 DEF n, Fits
      <4> QED
        BY <4>1, <4>2, Zenon
    <3>2. CASE n > 0 /\ q[n].from # p
      <4>0. n # 0
        BY <1>1, <3>2
      <4>1. s = 0 /\ p \notin known /\ \A j \in 1 .. n : q[j].from # p
        BY <3>2, <4>0, Zenon DEF n, Fits
      <4>2. i # 1 /\ i - 1 = n /\ i \in 1 .. i /\ n \in 1 .. n
        BY <1>1, <2>2, <3>2
      <4>3. r[i].from = p /\ r[i].seq = s /\ r[i-1] = q[n]
        BY <1>1, <1>2, <2>2, <4>2
      <4>4. \A j \in 1 .. i - 1 : r[j].from # p
        BY <1>1, <4>1, <4>2
      <4> QED
        BY <3>2, <4>1, <4>2, <4>3, <4>4
    <3>3. CASE n > 0 /\ q[n].from = p
      <4>0. n # 0 /\ n \in 1 .. n
        BY <1>1, <3>3
      <4>1. s = q[n].seq + 1
        BY <3>3, <4>0, Zenon DEF n, Fits
      <4>2. n \in 1 .. n /\ (p \notin known =>
              \E k \in 1 .. n : q[k].from = p /\ (k = 1 \/ q[k-1].from # q[k].from))
        BY <3>3, <4>0, Zenon DEF Chain, n
      <4>3. p \notin known => \E k \in 1 .. i : r[k].from = p /\ (k = 1 \/ r[k-1].from # r[k].from)
        BY <1>1, <2>2, <4>2
      <4>4. i # 1 /\ i - 1 = n
        BY <1>1, <2>2, <3>3
      <4>5. r[i].from = p /\ r[i].seq = s /\ r[i-1] = q[n]
        BY <1>1, <1>2, <2>2, <4>2, <4>4
      <4> QED
        BY <3>3, <4>1, <4>3, <4>4, <4>5
    <3>4. n = 0 \/ n > 0
      BY <1>1
    <3> QED
      BY <3>1, <3>2, <3>3, <3>4, Zenon
  <2>3. i <= n \/ i = n + 1
    BY <1>1
  <2> QED
    BY <2>1, <2>2, <2>3, Zenon
<1> QED
  BY <1>1, <1>3, Zenon DEF Chain, r, m

\* The number of messages taken from a ring that has as many.
LEMMA InRing ==
  ASSUME NEW q \in Seq(Messages), NEW n \in 1 .. Len(q)
  PROVE  Len(q) \in Nat /\ n \in Nat /\ n > 0 /\ n <= Len(q) /\ Len(q) # 0 /\ q[n] \in Messages
OBVIOUS

\* Receiving n messages keeps the runs of the others.
LEMMA ChainPop ==
  ASSUME NEW q \in Seq(Messages), NEW known, NEW next, Chain(q, known, next),
         NEW n \in 1 .. Len(q), NEW r \in Seq(Messages), IsRest(q, n, r)
  PROVE  Chain(r, known \cup {q[i].from : i \in 1 .. n}, q[n].seq + 1)
<1> DEFINE now == known \cup {q[i].from : i \in 1 .. n}
<1>1. Len(q) \in Nat /\ n \in Nat /\ n > 0
  BY InRing
<1>3. \A x : x \in now <=> x \in known \/ \E j \in 1 .. n : q[j].from = x
  OBVIOUS
<1>4. \A i \in 1 .. Len(q) - n : r[i] = q[i + n]
  BY DEF IsRest
<1>5. Len(r) = Len(q) - n
  BY DEF IsRest
<1> HIDE DEF now
<1>2. ASSUME NEW i \in 1 .. Len(r)
      PROVE  /\ i = 1 => r[1].seq = IF r[1].from \in now THEN q[n].seq + 1 ELSE 0
             /\ i > 1 /\ r[i].from = r[i-1].from => r[i].seq = r[i-1].seq + 1
             /\ i > 1 /\ r[i].from # r[i-1].from =>
                  r[i].seq = 0 /\ r[i].from \notin now /\ \A j \in 1 .. i - 1 : r[j].from # r[i].from
             /\ r[i].from \notin now =>
                  \E k \in 1 .. i : r[k].from = r[i].from /\ (k = 1 \/ r[k-1].from # r[k].from)
  <2>0. i + n \in 1 .. Len(q) /\ i + n > 1 /\ i \in Nat /\ i > 0 /\ i \in 1 .. Len(q) - n
    BY <1>1, <1>5
  <2>1. i + n \in 1 .. Len(q) /\ i + n > 1 /\ r[i] = q[i + n] /\ i \in Nat /\ i > 0
    BY <1>4, <2>0, Zenon
  <2>2. /\ q[i+n].from = q[(i+n)-1].from => q[i+n].seq = q[(i+n)-1].seq + 1
        /\ q[i+n].from # q[(i+n)-1].from =>
             q[i+n].seq = 0 /\ q[i+n].from \notin known /\ \A j \in 1 .. (i + n) - 1 : q[j].from # q[i+n].from
        /\ q[i+n].from \notin known =>
             \E k \in 1 .. i + n : q[k].from = q[i+n].from /\ (k = 1 \/ q[k-1].from # q[k].from)
    <3> DEFINE x == i + n
    <3>1. x \in 1 .. Len(q) /\ x > 1
      BY <2>1
    <3> HIDE DEF x
    <3>2. /\ q[x].from = q[x-1].from => q[x].seq = q[x-1].seq + 1
          /\ q[x].from # q[x-1].from =>
               q[x].seq = 0 /\ q[x].from \notin known /\ \A j \in 1 .. x - 1 : q[j].from # q[x].from
          /\ q[x].from \notin known =>
               \E k \in 1 .. x : q[k].from = q[x].from /\ (k = 1 \/ q[k-1].from # q[k].from)
      BY <3>1, Zenon DEF Chain
    <3> QED
      BY <3>2, Zenon DEF x
  <2>3. i > 1 => r[i-1] = q[(i+n)-1] /\ (i + n) - 1 = (i - 1) + n
    <3>1. i > 1 => i - 1 \in 1 .. Len(q) - n /\ (i + n) - 1 = (i - 1) + n
      BY <1>1, <2>0
    <3> QED
      BY <1>4, <3>1
  <2>4. i = 1 => (i + n) - 1 = n
    BY <1>1
  <2>5. q[i+n].from # q[(i+n)-1].from => r[i].from \notin now
    <3>1. \A j \in 1 .. n : j \in 1 .. (i + n) - 1
      BY <1>1, <2>0
    <3> QED
      BY <1>3, <2>1, <2>2, <3>1, Zenon
  <2>6. i = 1 => r[1].seq = IF r[1].from \in now THEN q[n].seq + 1 ELSE 0
    <3>1. n \in 1 .. n
      BY <1>1
    <3>2. q[n].from \in now
      BY <1>3, <3>1
    <3> QED
      BY <2>1, <2>2, <2>4, <2>5, <3>2
  <2>7. i > 1 /\ r[i].from = r[i-1].from => r[i].seq = r[i-1].seq + 1
    BY <2>1, <2>2, <2>3, Zenon
  <2>8. i > 1 /\ r[i].from # r[i-1].from =>
          r[i].seq = 0 /\ r[i].from \notin now /\ \A j \in 1 .. i - 1 : r[j].from # r[i].from
    <3> SUFFICES ASSUME i > 1, r[i].from # r[i-1].from
                 PROVE  r[i].seq = 0 /\ r[i].from \notin now /\ \A j \in 1 .. i - 1 : r[j].from # r[i].from
      BY Zenon
    <3>1. q[i+n].from # q[(i+n)-1].from
      BY <2>1, <2>3
    <3>2. ASSUME NEW j \in 1 .. i - 1 PROVE r[j].from # r[i].from
      <4>1. j \in Nat /\ j + n \in 1 .. (i + n) - 1 /\ j \in 1 .. Len(q) - n
        BY <1>1, <2>0
      <4>2. r[j] = q[j + n]
        BY <1>4, <4>1
      <4> QED
        BY <2>1, <2>2, <3>1, <4>1, <4>2
    <3> QED
      BY <2>1, <2>2, <2>5, <3>1, <3>2, Zenon
  <2>9. r[i].from \notin now =>
          \E k \in 1 .. i : r[k].from = r[i].from /\ (k = 1 \/ r[k-1].from # r[k].from)
    <3> SUFFICES ASSUME r[i].from \notin now
                 PROVE  \E k \in 1 .. i : r[k].from = r[i].from /\ (k = 1 \/ r[k-1].from # r[k].from)
      OBVIOUS
    <3>1. PICK k \in 1 .. i + n : q[k].from = q[i+n].from /\ (k = 1 \/ q[k-1].from # q[k].from)
      BY <1>3, <2>1, <2>2
    <3>2. k > n
      <4>1. k \in 1 .. n => q[k].from \in now
        BY <1>3
      <4>2. k \in 1 .. n \/ k > n
        BY <1>1, <2>0
      <4> QED
        BY <2>1, <3>1, <4>1, <4>2
    <3>3. k - n \in 1 .. i /\ r[k-n] = q[k] /\ (k - n # 1 => r[(k-n)-1] = q[k-1])
      <4>1. k - n \in 1 .. i /\ k - n \in 1 .. Len(q) - n /\ (k - n) + n = k
        BY <1>1, <2>0, <3>2
      <4>2. k - n # 1 => (k - n) - 1 \in 1 .. Len(q) - n /\ ((k - n) - 1) + n = k - 1
        BY <1>1, <2>0, <3>2
      <4>3. r[k-n] = q[(k - n) + n]
        BY <1>4, <4>1
      <4>4. k - n # 1 => r[(k-n)-1] = q[((k - n) - 1) + n]
        BY <1>4, <4>2
      <4> QED
        BY <4>1, <4>2, <4>3, <4>4
    <3>4. r[k-n].from = r[i].from /\ (k - n = 1 \/ r[(k-n)-1].from # r[k-n].from)
      <4>1. k # 1
        BY <1>1, <3>2
      <4> QED
        BY <2>1, <3>1, <3>3, <4>1
    <3> QED
      BY <3>3, <3>4, Zenon
  <2> QED
    BY <2>6, <2>7, <2>8, <2>9, Zenon
<1> QED
  BY <1>2, Zenon DEF Chain, now

\* The demo counts the producers it hears for the first time, but for the first of
\* all: in every batch, the gaps are where a new producer's run begins.
LEMMA GapsAreNew ==
  ASSUME ProgramInv, StreamInv, NEW n \in 1 .. Len(fifo)
  PROVE  LET now == heard \cup {fifo[i].from : i \in 1 .. n}
         IN  /\ IsFiniteSet(now) /\ now # {}
             /\ errors + Cardinality(GapsIn(n)) = Cardinality(now) - 1
<1> DEFINE New == {fifo[i].from : i \in 1 .. n} \ heard
           Begins == {i \in 1 .. n : fifo[i].from \notin heard /\ (i = 1 \/ fifo[i-1].from # fifo[i].from)}
           f == [i \in Begins |-> fifo[i].from]
           now == heard \cup {fifo[i].from : i \in 1 .. n}
<1>1. n \in Nat /\ n > 0 /\ Len(fifo) \in Nat /\ 1 .. n \subseteq 1 .. Len(fifo) /\ expect \in Nat /\ errors \in Nat
  BY FifoType DEF ProgramInv, Types
<1>2. \A i \in 1 .. Len(fifo) : fifo[i].seq \in Nat
  <2>1. \A i \in 1 .. Len(fifo) : fifo[i] \in Messages
    BY FifoType DEF ProgramInv
  <2> QED
    BY <2>1 DEF Messages
<1>3. \A i \in 1 .. n :
        /\ i = 1 => fifo[1].seq = IF fifo[1].from \in heard THEN expect ELSE 0
        /\ i > 1 /\ fifo[i].from = fifo[i-1].from => fifo[i].seq = fifo[i-1].seq + 1
        /\ i > 1 /\ fifo[i].from # fifo[i-1].from =>
             fifo[i].seq = 0 /\ fifo[i].from \notin heard /\ \A j \in 1 .. i - 1 : fifo[j].from # fifo[i].from
        /\ fifo[i].from \notin heard =>
             \E k \in 1 .. i : fifo[k].from = fifo[i].from /\ (k = 1 \/ fifo[k-1].from # fifo[k].from)
  BY <1>1, Zenon DEF StreamInv, Chain
<1>4. IsFiniteSet(Begins) /\ Begins \subseteq 1 .. n
  <2>1. IsFiniteSet(1 .. n)
    BY <1>1, FS_Interval
  <2> QED
    BY <2>1, FS_Subset
<1>5. f \in Bijection(Begins, New)
  <2>1. f \in [Begins -> New]
    OBVIOUS
  <2>2. ASSUME NEW i \in Begins, NEW k \in Begins, f[i] = f[k] PROVE i = k
    <3>1. ASSUME NEW a \in Begins, NEW b \in Begins, a < b PROVE f[a] # f[b]
      <4>1. b > 1 /\ a \in 1 .. b - 1 /\ b \in 1 .. n /\ fifo[b].from # fifo[b-1].from
        BY <1>1, <1>4, <3>1
      <4> QED
        BY <1>3, <4>1, Zenon
    <3>2. i \in Nat /\ k \in Nat
      BY <1>1, <1>4
    <3>3. i < k \/ k < i \/ i = k
      BY <3>2
    <3> HIDE DEF f, Begins
    <3> QED
      BY <2>2, <3>1, <3>3
  <2>3. ASSUME NEW p \in New PROVE \E i \in Begins : f[i] = p
    <3>1. PICK i \in 1 .. n : fifo[i].from = p
      OBVIOUS
    <3>2. PICK k \in 1 .. i : fifo[k].from = fifo[i].from /\ (k = 1 \/ fifo[k-1].from # fifo[k].from)
      BY <1>3, <3>1, Zenon
    <3>3. k \in Begins
      BY <1>1, <3>1, <3>2
    <3> QED
      BY <3>1, <3>2, <3>3
  <2> HIDE DEF f, Begins, New
  <2> QED
    BY <2>1, <2>2, <2>3 DEF Bijection, Injection, Surjection, IsInjective
<1>6. IsFiniteSet(New) /\ Cardinality(New) = Cardinality(Begins) /\ Cardinality(New) \in Nat
  <2>1. ExistsBijection(Begins, New)
    BY <1>5 DEF ExistsBijection
  <2>2. IsFiniteSet(New) /\ Cardinality(New) = Cardinality(Begins)
    BY <1>4, <2>1, FS_Bijection
  <2> QED
    BY <2>2, FS_CardinalityType
<1>7. GapsIn(n) = IF heard = {} THEN Begins \ {1} ELSE Begins
  <2>1. heard = {} <=> expect = 0
    BY DEF StreamInv, CountInv
  <2>2. ASSUME NEW i \in 1 .. n PROVE i \in GapsIn(n) <=> (i \in Begins /\ (heard = {} => i # 1))
    <3>1. CASE i = 1
      BY <1>1, <1>2, <1>3, <2>1, <3>1 DEF GapsIn
    <3>2. CASE i > 1
      <4>1. i - 1 \in 1 .. Len(fifo) /\ i # 1
        BY <1>1, <3>2
      <4>2. fifo[i-1].seq \in Nat /\ fifo[i].seq \in Nat
        BY <1>1, <1>2, <4>1
      <4>3. i \in GapsIn(n) <=> fifo[i].seq # fifo[i-1].seq + 1
        BY <4>1 DEF GapsIn
      <4>4. CASE fifo[i].from = fifo[i-1].from
        BY <1>3, <3>2, <4>1, <4>3, <4>4
      <4>5. CASE fifo[i].from # fifo[i-1].from
        <5>1. fifo[i].seq = 0 /\ fifo[i].from \notin heard
          BY <1>3, <3>2, <4>5
        <5>2. i \in GapsIn(n)
          BY <4>2, <4>3, <5>1
        <5> QED
          BY <4>1, <4>5, <5>1, <5>2
      <4> QED
        BY <4>4, <4>5
    <3> QED
      BY <1>1, <3>1, <3>2
  <2>3. GapsIn(n) \subseteq 1 .. n
    BY DEF GapsIn
  <2> HIDE DEF Begins
  <2> QED
    BY <1>4, <2>2, <2>3, Zenon
<1>8. heard = {} => 1 \in Begins
  BY <1>1
<1>9. IsFiniteSet(heard) /\ heard \cap New = {} /\ now = heard \cup New
  BY Zenon DEF StreamInv, CountInv
<1>10. now # {}
  <2>1. 1 \in 1 .. n
    BY <1>1
  <2>2. fifo[1].from \in now
    BY <2>1
  <2> QED
    BY <2>2, Zenon
<1> HIDE DEF New, Begins, now
<1>11. IsFiniteSet(now) /\ Cardinality(now) = Cardinality(heard) + Cardinality(New)
  <2>1. IsFiniteSet(heard \cup New)
        /\ Cardinality(heard \cup New) = Cardinality(heard) + Cardinality(New) - Cardinality(heard \cap New)
    BY <1>6, <1>9, FS_Union
  <2>2. Cardinality(heard) \in Nat
    BY <1>9, FS_CardinalityType
  <2>3. Cardinality(heard \cap New) = 0
    BY <1>9, FS_EmptySet, Zenon
  <2> QED
    BY <1>6, <1>9, <2>1, <2>2, <2>3
<1>12. errors + Cardinality(GapsIn(n)) = Cardinality(now) - 1
  <2>1. CASE heard = {}
    <3>1. Cardinality(GapsIn(n)) = Cardinality(Begins) - 1
      BY <1>4, <1>7, <1>8, <2>1, FS_RemoveElement, Zenon
    <3>2. Cardinality(heard) = 0 /\ errors = 0
      BY <2>1, FS_EmptySet DEF StreamInv, CountInv
    <3> QED
      BY <1>6, <1>11, <3>1, <3>2
  <2>2. CASE heard # {}
    <3>1. GapsIn(n) = Begins /\ errors = Cardinality(heard) - 1
      BY <1>7, <2>2 DEF StreamInv, CountInv
    <3>2. Cardinality(heard) \in Nat
      BY <1>9, FS_CardinalityType
    <3> QED
      BY <1>6, <1>11, <3>1, <3>2
  <2> QED
    BY <2>1, <2>2
<1> QED
  BY <1>10, <1>11, <1>12, Zenon DEF now

\* A step that sends and receives nothing: producers only move on in their programs.
LEMMA StreamQuiet ==
  ASSUME StreamInv, UNCHANGED <<fifo, sent, expect, errors, heard>>,
         \A p \in Producers : Pristine(p)' => Pristine(p),
         \A p \in Producers : pc'[p] \in Active =>
           producerPid' = p /\ (pc[p] \in Active \/ Pristine(p))
  PROVE  StreamInv'
<1>1. Chain(fifo, heard, expect)' /\ CountInv'
  BY Zenon DEF StreamInv, CountInv
<1>2. \A p \in Producers : NotSeen(p) => NotSeen(p)'
  BY Zenon DEF NotSeen
<1>3. (\A p \in Producers : Pristine(p) => sent[p] = 0 /\ NotSeen(p))'
  BY <1>2 DEF StreamInv
<1>4. ASSUME NEW p \in Producers, pc'[p] \in Active PROVE Continues(p)'
  <2>1. Continues(p)
    BY <1>4, Zenon DEF StreamInv, Continues
  <2> QED
    BY <2>1, Zenon DEF Continues, NotSeen
<1> QED
  BY <1>1, <1>3, <1>4, Zenon DEF StreamInv

\* Ending is such a step: the slot stays the other producer's.
LEMMA StreamFinish ==
  ASSUME ProgramInv, StreamInv, NEW p \in Procs, Finish(p), UNCHANGED <<fifo, sent, expect, errors, heard>>
  PROVE  StreamInv'
<1>1. proc' = [proc EXCEPT ![p] = "zombie"] /\ pc' = [pc EXCEPT ![p] = "out"]
      /\ \A q \in Procs : producerPid = q /\ q # p => producerPid' = q
  BY FinishFacts DEF ProgramInv
<1>2. proc \in [Procs -> {"new", "running", "zombie", "gone"}] /\ pc \in [Procs -> Places]
  BY DEF ProgramInv, Types
<1>3. \A q \in Producers : Pristine(q)' => Pristine(q)
  BY <1>1, <1>2, Pids DEF Pristine
<1>4. \A q \in Producers : pc'[q] \in Active => pc[q] \in Active /\ q # p
  BY <1>1, <1>2, Pids DEF Active
<1>5. \A q \in Producers : pc[q] \in Active => producerPid = q
  BY DEF StreamInv
<1>6. \A q \in Producers : pc'[q] \in Active => producerPid' = q
  BY <1>1, <1>4, <1>5, Pids
<1> QED
  BY <1>3, <1>4, <1>6, StreamQuiet

\* So is a move from one place of a program to another.
LEMMA StreamMove ==
  ASSUME ProgramInv, StreamInv, NEW p \in Procs, NEW where \in Places \ {"start", "bind"}, Goto(p, where),
         pc[p] \in Active \cup {"empty"}, UNCHANGED <<fifo, sent, expect, errors, heard, proc, producerPid>>
  PROVE  StreamInv'
<1>1. proc \in [Procs -> {"new", "running", "zombie", "gone"}] /\ pc \in [Procs -> Places]
      /\ pc' = [pc EXCEPT ![p] = where]
  BY DEF ProgramInv, Types, Goto
<1>2. \A q \in Producers : Pristine(q)' => Pristine(q)
  BY <1>1, Pids DEF Pristine
<1>3. p \in Producers => pc[p] \in Active
  BY DEF ProgramInv
<1>4. \A q \in Producers : pc'[q] \in Active => pc[q] \in Active
  BY <1>1, <1>3, Pids
<1>5. \A q \in Producers : pc[q] \in Active => producerPid = q
  BY Zenon DEF StreamInv
<1> QED
  BY <1>2, <1>4, <1>5, StreamQuiet

\* No other producer is at work when one comes out of create() or attach().
LEMMA StreamEnter ==
  ASSUME ProgramInv, StreamInv, NEW p \in Procs, Create(p) \/ BindClaim(p) PROVE StreamInv'
<1>0. Types
  BY DEF ProgramInv
<1>1. /\ pc[p] \in {"start", "bind"} /\ UNCHANGED <<slots, writeIdx, readIdx, sent, expect, errors, heard, proc>>
      /\ \E where \in {"wait", "main"} : pc' = [pc EXCEPT ![p] = where]
      /\ producerPid' = IF p = Consumer THEN producerPid ELSE p
  BY <1>0, CreateFacts, ClaimFacts, Zenon
<1>2. proc \in [Procs -> {"new", "running", "zombie", "gone"}] /\ pc \in [Procs -> Places] /\ fifo' = fifo
  BY <1>1, SameRing DEF ProgramInv, Types
<1>3. \A q \in Producers : Pristine(q)' => Pristine(q)
  BY <1>1, <1>2, Pids DEF Pristine
<1>4. ASSUME NEW q \in Producers, pc[q] \in Active, p # Consumer PROVE FALSE
  <2>1. producerPid = q /\ proc[q] = "running"
    BY <1>4, Pids DEF StreamInv, ProgramInv, Active
  <2>2. processAlive(producerPid)
    BY <2>1, Pids DEF processAlive
  <2>3. CASE Create(p)
    BY <1>4, <2>3, CreateFacts, Pids, Zenon DEF Active
  <2>4. CASE BindClaim(p)
    BY <1>0, <1>4, <2>2, <2>4, ClaimFacts DEF OwnSlot
  <2> QED
    BY <2>3, <2>4
<1>5. \A q \in Producers : pc[q] \in Active => producerPid = q
  BY DEF StreamInv
<1>6. ASSUME NEW q \in Producers, pc'[q] \in Active
      PROVE  producerPid' = q /\ (pc[q] \in Active \/ Pristine(q))
  <2>1. CASE q = p
    BY <1>1, <2>1, Pids DEF Pristine
  <2>2. CASE q # p
    <3>1. pc[q] \in Active
      BY <1>1, <1>2, <1>6, <2>2, Pids
    <3> QED
      BY <1>1, <1>4, <1>5, <3>1
  <2> QED
    BY <2>1, <2>2
<1> QED
  BY <1>1, <1>2, <1>3, <1>6, StreamQuiet

\* A message sent.
LEMMA StreamPush ==
  ASSUME ProgramInv, StreamInv, NEW p \in Producers, pc[p] = "try",
         fifo' = Append(fifo, [from |-> p, seq |-> sent[p]]), sent' = [sent EXCEPT ![p] = @ + 1],
         pc' = [pc EXCEPT ![p] = "main"], UNCHANGED <<proc, producerPid, expect, errors, heard>>
  PROVE  StreamInv'
<1>1. /\ fifo \in Seq(Messages) /\ sent \in [Producers -> Nat] /\ expect \in Nat
      /\ proc \in [Procs -> {"new", "running", "zombie", "gone"}] /\ pc \in [Procs -> Places]
  BY FifoType DEF ProgramInv, Types
<1>2. sent[p] \in Nat /\ Continues(p) /\ producerPid = p /\ proc[p] = "running" /\ Chain(fifo, heard, expect)
  BY <1>1, Pids DEF StreamInv, ProgramInv, Active
<1>3. Chain(fifo', heard, expect)
  BY <1>1, <1>2, ChainPush, Zenon DEF Continues, NotSeen, Fits
<1>4. /\ Len(fifo') = Len(fifo) + 1 /\ Len(fifo) \in Nat
      /\ \A i \in 1 .. Len(fifo) : fifo'[i] = fifo[i]
      /\ fifo'[Len(fifo) + 1].from = p /\ fifo'[Len(fifo) + 1].seq = sent[p]
  BY <1>1
<1>5. ASSUME NEW q \in Producers, Pristine(q)' PROVE sent'[q] = 0 /\ NotSeen(q)'
  <2>1. q # p /\ Pristine(q)
    BY <1>1, <1>2, <1>5, Pids DEF Pristine
  <2>2. sent[q] = 0 /\ NotSeen(q)
    BY <2>1 DEF StreamInv
  <2>3. sent'[q] = sent[q]
    BY <1>1, <2>1
  <2>4. \A i \in 1 .. Len(fifo') : i \in 1 .. Len(fifo) \/ i = Len(fifo) + 1
    BY <1>4
  <2> QED
    BY <1>4, <2>1, <2>2, <2>3, <2>4 DEF NotSeen
<1>6. ASSUME NEW q \in Producers, pc'[q] \in Active PROVE q = p
  <2>1. q # p => pc[q] \in Active
    BY <1>1, <1>6, Pids
  <2> QED
    BY <1>2, <2>1 DEF StreamInv
<1>7. Continues(p)'
  <2>1. sent'[p] = sent[p] + 1
    BY <1>1
  <2>2. Len(fifo') > 0 /\ fifo'[Len(fifo')].from = p /\ fifo'[Len(fifo')].seq = sent[p]
    BY <1>4, After, Zenon
  <2> QED
    BY <2>1, <2>2, Zenon DEF Continues
<1>8. CountInv'
  BY DEF StreamInv, CountInv
<1> QED
  BY <1>2, <1>3, <1>5, <1>6, <1>7, <1>8 DEF StreamInv

\* Messages received.
LEMMA StreamPop ==
  ASSUME ProgramInv, StreamInv, NEW n \in 1 .. Len(fifo),
         fifo' \in Seq(Messages), IsRest(fifo, n, fifo'),
         errors' = errors + Cardinality(GapsIn(n)), expect' = fifo[n].seq + 1,
         heard' = heard \cup {fifo[i].from : i \in 1 .. n},
         pc' = [pc EXCEPT ![Consumer] = "main"], pc[Consumer] = "try",
         UNCHANGED <<proc, producerPid, sent>>
  PROVE  StreamInv'
<1>1. /\ fifo \in Seq(Messages) /\ Len(fifo) \in Nat /\ n \in Nat /\ n > 0 /\ n <= Len(fifo)
      /\ pc \in [Procs -> Places] /\ Len(fifo) # 0 /\ fifo[n] \in Messages
  <2>1. fifo \in Seq(Messages) /\ pc \in [Procs -> Places]
    BY FifoType, Zenon DEF ProgramInv, Types
  <2> QED
    BY <2>1, InRing, Zenon
<1>2. Chain(fifo', heard', expect')
  BY <1>1, ChainPop, Zenon DEF StreamInv
<1>3. \A q \in Producers : pc'[q] = pc[q] /\ (Pristine(q)' <=> Pristine(q))
  BY <1>1, Pids, Zenon DEF Pristine
<1>4. ASSUME NEW q \in Producers, NotSeen(q) PROVE NotSeen(q)'
  <2>1. \A i \in 1 .. Len(fifo) - n : i + n \in 1 .. Len(fifo)
    BY <1>1, After, Zenon
  <2>2. \A i \in 1 .. n : i \in 1 .. Len(fifo)
    BY <1>1, After, Zenon
  <2> QED
    BY <1>4, <2>1, <2>2, Zenon DEF NotSeen, IsRest
<1>5. ASSUME NEW q \in Producers, Continues(q) PROVE Continues(q)'
  <2>1. CASE sent[q] = 0 /\ NotSeen(q)
    BY <1>4, <2>1, Zenon DEF Continues
  <2>2. CASE fifo[Len(fifo)].from = q /\ sent[q] = fifo[Len(fifo)].seq + 1
    <3>1. CASE n = Len(fifo)
      <4>1. Len(fifo') = 0 /\ n \in 1 .. n
        BY <1>1, <3>1 DEF IsRest
      <4>2. q \in heard' /\ sent'[q] = expect'
        BY <2>2, <3>1, <4>1
      <4> QED
        BY <4>1, <4>2 DEF Continues
    <3>2. CASE n # Len(fifo)
      <4>1. /\ Len(fifo) - n \in 1 .. Len(fifo) - n /\ (Len(fifo) - n) + n = Len(fifo)
            /\ Len(fifo) - n > 0
        BY <1>1, <3>2, After, Zenon
      <4>2. fifo'[Len(fifo')] = fifo[Len(fifo)] /\ Len(fifo') > 0
        BY <4>1, Zenon DEF IsRest
      <4> QED
        BY <2>2, <4>2 DEF Continues
    <3> QED
      BY <3>1, <3>2
  <2> QED
    BY <1>1, <1>5, <2>1, <2>2, Zenon DEF Continues
<1>6. CountInv'
  <2>1. IsFiniteSet(heard') /\ heard' # {} /\ errors' = Cardinality(heard') - 1
    BY GapsAreNew, Zenon
  <2>2. fifo[n].seq \in Nat
    BY <1>1 DEF Messages
  <2>3. expect' # 0
    BY <2>2, After, Zenon
  <2> QED
    BY <2>1, <2>3, Zenon DEF CountInv
<1>7. (\A q \in Producers : Pristine(q) => sent[q] = 0 /\ NotSeen(q))'
  BY <1>3, <1>4, Zenon DEF StreamInv
<1>8. (\A q \in Producers : pc[q] \in Active => producerPid = q /\ Continues(q))'
  BY <1>3, <1>5, Zenon DEF StreamInv
<1> QED
  BY <1>2, <1>6, <1>7, <1>8, Zenon DEF StreamInv

\* Every step keeps the stream and the count.
\* Every step keeps the stream and the count, as long as the cached indices are right.
LEMMA StreamStep ==
  ASSUME ProgramInv, RingInv, StreamInv, [Next]_vars PROVE StreamInv'
<1>0. Types
  BY DEF ProgramInv
<1>1. ASSUME UNCHANGED <<fifo, sent, expect, errors, heard, proc, pc, producerPid>> PROVE StreamInv'
  BY <1>1, StreamQuiet, Zenon DEF StreamInv, Pristine
<1>2. ASSUME NEW p \in Procs, Start(p) \/ Die(p) \/ Reap(p) PROVE StreamInv'
  <2>1. /\ \/ proc[p] = "new" /\ proc' = [proc EXCEPT ![p] = "running"] /\ pc' = [pc EXCEPT ![p] = "start"]
           \/ proc[p] = "running" /\ proc' = [proc EXCEPT ![p] = "zombie"] /\ pc' = [pc EXCEPT ![p] = "out"]
           \/ proc[p] = "zombie" /\ proc' = [proc EXCEPT ![p] = "gone"] /\ pc' = pc
        /\ UNCHANGED <<slots, writeIdx, readIdx, producerPid, sent, expect, errors, heard>>
    BY <1>2, SystemFacts
  <2>2. \A q \in Producers : Pristine(q)' => Pristine(q)
    BY <2>1, Pids DEF Pristine, ProgramInv, Types
  <2>3. \A q \in Producers : pc'[q] \in Active => pc[q] \in Active
    BY <2>1, Pids DEF Active, ProgramInv, Types
  <2>4. \A q \in Producers : pc[q] \in Active => producerPid = q
    BY DEF StreamInv
  <2> QED
    BY <2>1, <2>2, <2>3, <2>4, StreamQuiet, SameRing
<1>3. ASSUME NEW p \in Procs, AttachThrows(p) \/ WaitTimesOut(p) \/ LoopEnds(p) \/ Stopped(p) PROVE StreamInv'
  BY <1>3, StreamFinish, EndFacts, SameRing
<1>4. ASSUME NEW p \in Procs, WaitForPeer(p) \/ LoopCalls(p) \/ PeerLoad(p) \/ BindLook(p) PROVE StreamInv'
  <2>1. UNCHANGED <<fifo, sent, expect, errors, heard, proc, producerPid>>
    BY <1>4, QuietFacts, SameRing
  <2>2. CASE UNCHANGED pc
    BY <1>1, <2>1, <2>2
  <2>3. ASSUME NEW where \in Active, Goto(p, where), pc[p] \in Active PROVE StreamInv'
    BY <2>1, <2>3, StreamMove DEF Places, Active
  <2> QED
    BY <1>4, <2>2, <2>3, QuietFacts, Zenon DEF Active
<1>5. ASSUME NEW p \in Procs, AttachOpen(p) PROVE StreamInv'
  <2>1. /\ pc[p] = "start" /\ pc' = [pc EXCEPT ![p] = "bind"]
        /\ UNCHANGED <<slots, writeIdx, readIdx, producerPid, proc, sent, expect, errors, heard>>
    BY <1>5, OpenFacts
  <2>2. \A q \in Producers : Pristine(q)' => Pristine(q)
    BY <2>1, Pids DEF Pristine, ProgramInv, Types
  <2>3. \A q \in Producers : pc'[q] \in Active => pc[q] \in Active
    BY <2>1, Pids DEF Active, ProgramInv, Types
  <2>4. \A q \in Producers : pc[q] \in Active => producerPid = q
    BY DEF StreamInv
  <2> QED
    BY <2>1, <2>2, <2>3, <2>4, StreamQuiet, SameRing
<1>6. ASSUME NEW p \in Procs, PushTry(p) PROVE StreamInv'
  <2>0. /\ p \in Producers /\ pc[p] = "try"
        /\ UNCHANGED <<proc, producerPid, expect, errors, heard>>
    BY <1>6, PushFacts, Zenon
  <2>1. CASE /\ fifo' = Append(fifo, [from |-> p, seq |-> sent[p]]) /\ sent' = [sent EXCEPT ![p] = @ + 1]
             /\ pc' = [pc EXCEPT ![p] = "main"]
    BY <2>0, <2>1, StreamPush, Zenon
  <2>2. CASE UNCHANGED <<fifo, sent>> /\ pc' = pc
    BY <1>1, <2>0, <2>2
  <2>3. CASE UNCHANGED <<fifo, sent>> /\ pc' = [pc EXCEPT ![p] = "peer"]
    BY <2>0, <2>3, StreamMove, Zenon DEF Goto, Places, Active
  <2> QED
    BY <1>6, <2>1, <2>2, <2>3, PushRing
<1>7. ASSUME NEW p \in Procs, PopTry(p) PROVE StreamInv'
  <2>0. p = Consumer /\ pc[p] = "try" /\ UNCHANGED <<proc, producerPid, sent>>
    BY <1>7, PopFacts, Zenon
  <2>1. CASE /\ pc' = [pc EXCEPT ![p] = "main"]
             /\ \E n \in 1 .. Len(fifo) :
                  /\ fifo' \in Seq(Messages) /\ IsRest(fifo, n, fifo')
                  /\ errors' = errors + Cardinality(GapsIn(n))
                  /\ expect' = fifo[n].seq + 1
                  /\ heard' = heard \cup {fifo[i].from : i \in 1 .. n}
    BY <2>0, <2>1, StreamPop, Zenon
  <2>2. CASE UNCHANGED <<fifo, errors, expect, heard>> /\ pc' = pc
    BY <1>1, <2>0, <2>2
  <2>3. CASE UNCHANGED <<fifo, errors, expect, heard>> /\ pc' = [pc EXCEPT ![p] = "peer"]
    BY <2>0, <2>3, StreamMove, Zenon DEF Goto, Places, Active
  <2> QED
    BY <1>7, <2>1, <2>2, <2>3, PopRing
<1>8. ASSUME NEW p \in Procs, PeerAnswer(p) \/ EmptyTest(p) PROVE StreamInv'
  <2>1. pc[p] \in {"kill", "empty"} /\ UNCHANGED <<fifo, sent, expect, errors, heard>>
    BY <1>8, AnswerFacts, EmptyFacts, SameRing
  <2>2. CASE Finish(p)
    BY <2>1, <2>2, StreamFinish
  <2>3. CASE TryAgain(p)
    BY <2>1, <2>3, TryAgainFacts, StreamMove DEF Places, Active
  <2>4. CASE Goto(p, "empty") /\ UNCHANGED <<producerPid, proc>>
    BY <2>1, <2>4, StreamMove DEF Places, Active
  <2> QED
    BY <1>8, <2>2, <2>3, <2>4, AnswerFacts, EmptyFacts
<1>9. CASE UNCHANGED vars
  <2>1. UNCHANGED <<slots, writeIdx, readIdx, sent, expect, errors, heard, proc, pc, producerPid>>
    BY <1>9 DEF vars, segment, ring, locals, history
  <2> QED
    BY <1>1, <2>1, SameRing
<1> QED
  BY <1>2, <1>3, <1>4, <1>5, <1>6, <1>7, <1>8, <1>9, StreamEnter DEF Next, Runs

-----------------------------------------------------------------------------
(* Theorems. *)

\* Nothing is left and nothing is counted before any process has started.
LEMMA ContentsInit == Init => ContentsInv
<1> SUFFICES ASSUME Init PROVE ContentsInv
  OBVIOUS
<1>1. Len(fifo) = 0
  BY BlockingInit, FifoType DEF BlockingInv, ProgramInv, Init
<1>2. LeftInv
  BY Pids DEF Init, LeftInv
<1>3. RingInv
  BY Pids DEF Init, RingInv, Produces, Consumes, Active
<1>4. CountInv
  BY FS_EmptySet DEF Init, CountInv
<1>5. \A p \in Producers : sent[p] = 0 /\ NotSeen(p) /\ pc[p] = "out"
  BY <1>1, Pids DEF Init, NotSeen
<1>6. Chain(fifo, heard, expect)
  <2>1. \A i : i \notin 1 .. Len(fifo)
    BY <1>1
  <2> QED
    BY <2>1, Zenon DEF Chain
<1>7. StreamInv
  BY <1>4, <1>5, <1>6 DEF StreamInv, Active
<1> QED
  BY <1>2, <1>3, <1>7 DEF ContentsInv

\* A history that is clean after a step was clean before it.
LEMMA CleanBefore == ASSUME ProgramInv, [Next]_vars, clean' PROVE clean
<1>1. Types
  BY DEF ProgramInv
<1>2. CASE UNCHANGED vars
  BY <1>2 DEF vars, history, takeovers
<1>3. ASSUME NEW p \in Procs, Finish(p) \/ TryAgain(p) PROVE clean
  BY <1>1, <1>3, FinishFacts, TryAgainFacts, Zenon
<1>4. ASSUME NEW p \in Procs, PeerAnswer(p) \/ EmptyTest(p) PROVE clean
  BY <1>3, <1>4, AnswerFacts, EmptyFacts, Zenon
<1>5. ASSUME NEW p \in Procs, AttachThrows(p) \/ WaitTimesOut(p) \/ LoopEnds(p) \/ Stopped(p) PROVE clean
  BY <1>3, <1>5, EndFacts
<1>6. ASSUME NEW p \in Procs, \/ Create(p) \/ AttachOpen(p) \/ BindClaim(p) \/ BindLook(p) \/ WaitForPeer(p)
                             \/ LoopCalls(p) \/ PeerLoad(p) \/ Start(p) \/ Die(p) \/ Reap(p)
      PROVE  clean
  BY <1>1, <1>6, CreateFacts, OpenFacts, ClaimFacts, QuietFacts, SystemFacts, Zenon
<1>7. ASSUME NEW p \in Procs, PushTry(p) \/ PopTry(p) PROVE clean
  BY <1>7, PushFacts, PopFacts, Zenon
<1> QED
  BY <1>2, <1>4, <1>5, <1>6, <1>7 DEF Next, Runs

\* The invariant of the ring's contents holds in every state.
LEMMA ContentsInvariant == Spec => []ContentsInv
<1>1. BlockingInv /\ ContentsInv /\ [Next]_vars => ContentsInv'
  <2> SUFFICES ASSUME BlockingInv, ContentsInv, [Next]_vars PROVE ContentsInv'
    OBVIOUS
  <2>1. LeftInv'
    BY LeftStep DEF BlockingInv, ContentsInv
  <2>2. ASSUME clean' PROVE RingInv' /\ StreamInv'
    BY <2>2, CleanBefore, RingStep, StreamStep DEF BlockingInv, ContentsInv
  <2> QED
    BY <2>1, <2>2 DEF ContentsInv
<1> QED
  BY <1>1, ContentsInit, BlockingInvariant, PTL DEF Spec

\* For any number of producers: when pop() or the demo gives up on its peer, the
\* ring holds nothing of a producer that had ended by then.
THEOREM NothingLeftEver == Spec => []NothingLeftBehind
<1>1. BlockingInv /\ ContentsInv => NothingLeftBehind
  <2>1. ASSUME BlockingInv PROVE DOMAIN fifo = 1 .. Len(fifo)
    BY <2>1, FifoType DEF BlockingInv, ProgramInv
  <2> QED
    BY <2>1 DEF ContentsInv, LeftInv, NothingLeftBehind
<1> QED
  BY <1>1, BlockingInvariant, ContentsInvariant, PTL

\* For any number of producers that follow each other by clean takeovers, any
\* capacity and any batch, the demo's sequence check counts the changes of producer
\* and nothing else.
THEOREM CountsRestarts == Spec => []ErrorsAreRestarts
<1>1. ContentsInv => ErrorsAreRestarts
  BY Zenon DEF ContentsInv, StreamInv, CountInv, ErrorsAreRestarts
<1> QED
  BY <1>1, ContentsInvariant, PTL
=============================================================================
