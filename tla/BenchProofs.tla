---------------------------- MODULE BenchProofs ----------------------------
(***************************************************************************)
(* Proofs about Bench, for any capacity, number of messages and batch      *)
(* sizes: what a benchmark reports has been delivered, and its two         *)
(* processes never wait for each other.                                    *)
(***************************************************************************)
EXTENDS Bench, TLAPS

Types ==
  /\ batch \in Batches \cup {0}
  /\ ping \in Seq(Nat) /\ pong \in Seq(Nat) /\ attached \in Nat
  /\ sent \in Nat /\ got \in Nat /\ m \in Nat \cup {Nothing} /\ killed \in BOOLEAN
  /\ cpc \in {"none", "attach", "loop", "zombie", "gone"}

\* The parent sends after the child has attached, and stops at the total; a child
\* that has attached ends its loop or is killed.
LoopInv ==
  /\ pc = "fork" => cpc = "none"
  /\ cpc \in {"none", "attach"} => attached < Queues
  /\ attached <= Queues
  /\ pc \in {"send", "receive", "reap", "done"} => attached = Queues
  /\ sent <= ParentRounds /\ (pc = "receive" => sent < ParentRounds)
  /\ pc \in {"reap", "done"} => sent = ParentRounds
  /\ pc = "done" => cpc = "gone"
  /\ cpc = "gone" => pc \in {"done", "failed"}
  /\ pc = "give_up" => cpc \in {"zombie", "none"}
  /\ cpc \in {"zombie", "gone"} /\ attached = Queues /\ ~killed => m = Nothing /\ got >= ChildRounds

\* Messages on their way: in a throughput run what was sent and not received; in
\* the latency benchmark the one the parent waits for.
InHand  == IF m = Nothing THEN 0 ELSE 1
Awaited == IF pc = "receive" THEN 1 ELSE 0

FlowInv ==
  /\ ~Latency => Len(ping) = sent - got /\ pong = <<>> /\ m = Nothing /\ pc # "receive"
  /\ Latency => Len(ping) + InHand + Len(pong) = Awaited /\ got = sent + Len(pong)

BenchInv == Types /\ LoopInv /\ FlowInv

\* The loops' bounds are numbers, and the two loops have the same.
LEMMA Rounds ==
  ASSUME Types
  PROVE  ParentRounds \in Nat /\ ChildRounds = ParentRounds /\ Queues \in {1, 2} /\ batch \in Nat
         /\ (Latency <=> batch = 0) /\ Bound \in Nat \ {0}
BY BenchConstants DEF Types, ParentRounds, ChildRounds, Queues, Latency, warmup

\* A run keeps its kind, so its loops keep their bounds.
LEMMA SameRun ==
  ASSUME batch' = batch
  PROVE  ParentRounds' = ParentRounds /\ ChildRounds' = ChildRounds /\ Queues' = Queues
         /\ (Latency' <=> Latency)
BY DEF ParentRounds, ChildRounds, Queues, Latency, warmup

\* Every step keeps the types.
LEMMA TypesStep == ASSUME Types, [Next]_vars PROVE Types'
<1>1. CASE Fork \/ WaitForPeer \/ WaitTimesOut \/ SendingDone \/ waitpid \/ ChildExit \/ Killed \/ UNCHANGED vars
  BY <1>1 DEF Types, Fork, WaitForPeer, WaitTimesOut, SendingDone, waitpid, ChildExit, Killed, vars, queues
<1>2. CASE SendPing \/ ReceivePong
  <2>1. CASE SendPing
    <3>1. Append(ping, sent) \in Seq(Nat)
      BY DEF Types
    <3> QED
      BY <2>1, <3>1 DEF Types, SendPing
  <2>2. CASE ReceivePong
    <3>1. pong # <<>> => Tail(pong) \in Seq(Nat)
      BY DEF Types
    <3> QED
      BY <2>2, <3>1 DEF Types, ReceivePong
  <2> QED
    BY <1>2, <2>1, <2>2
<1>3. CASE SendBatch
  <2> DEFINE n == MinOf(want, Bound - Len(ping))
  <2>1. /\ n > 0 /\ ping' = ping \o [i \in 1 .. n |-> sent + i - 1] /\ sent' = sent + n
        /\ UNCHANGED <<batch, pong, attached, cpc, got, m, killed>>
    BY <1>3 DEF SendBatch
  <2>2. n \in Nat
    BY <2>1, Rounds DEF Types, MinOf, want
  <2> HIDE DEF n
  <2>3. [i \in 1 .. n |-> sent + i - 1] \in Seq(Nat)
    BY <2>2 DEF Types
  <2> QED
    BY <2>1, <2>2, <2>3 DEF Types
<1>4. CASE ChildAttach \/ ChildPop \/ ChildEcho
  <2>1. CASE ChildAttach
    BY <2>1 DEF Types, ChildAttach, queues
  <2>2. CASE ChildPop
    <3>1. ping # <<>> => Tail(ping) \in Seq(Nat) /\ Head(ping) \in Nat
      BY DEF Types
    <3> QED
      BY <2>2, <3>1 DEF Types, ChildPop
  <2>3. CASE ChildEcho
    <3>1. m # Nothing => Append(pong, m) \in Seq(Nat)
      BY DEF Types
    <3> QED
      BY <2>3, <3>1 DEF Types, ChildEcho
  <2> QED
    BY <1>4, <2>1, <2>2, <2>3
<1>5. CASE ChildDrain
  <2> DEFINE n == MinOf(batch, Len(ping))
  <2>1. n > 0 /\ ping' = SubSeq(ping, n + 1, Len(ping)) /\ got' = got + n
        /\ UNCHANGED <<batch, pong, attached, cpc, sent, m, killed>>
    BY <1>5 DEF ChildDrain
  <2>2. n \in Nat
    BY Rounds DEF Types, MinOf
  <2> HIDE DEF n
  <2> QED
    BY <2>1, <2>2 DEF Types
<1> QED
  BY <1>1, <1>2, <1>3, <1>4, <1>5 DEF Next, Parent, Child

\* What a batch that is sent does to the queue and the counter.
LEMMA SendFacts ==
  ASSUME Types, SendBatch
  PROVE  \E n \in Nat : n > 0 /\ n <= ParentRounds - sent /\ sent' = sent + n /\ Len(ping') = Len(ping) + n
<1> DEFINE n == MinOf(want, Bound - Len(ping))
<1>1. n > 0 /\ ping' = ping \o [i \in 1 .. n |-> sent + i - 1] /\ sent' = sent + n
  BY DEF SendBatch
<1>2. n \in Nat /\ n <= ParentRounds - sent
  BY <1>1, Rounds DEF Types, MinOf, want
<1> HIDE DEF n
<1>3. [i \in 1 .. n |-> sent + i - 1] \in Seq(Nat) /\ Len([i \in 1 .. n |-> sent + i - 1]) = n
  BY <1>2 DEF Types
<1>4. Len(ping') = Len(ping) + n
  BY <1>1, <1>2, <1>3 DEF Types
<1> QED
  BY <1>1, <1>2, <1>4

\* What a batch that is received does.
LEMMA DrainFacts ==
  ASSUME Types, ChildDrain
  PROVE  \E n \in Nat : n > 0 /\ got' = got + n /\ Len(ping') = Len(ping) - n
<1> DEFINE n == MinOf(batch, Len(ping))
<1>1. n > 0 /\ ping' = SubSeq(ping, n + 1, Len(ping)) /\ got' = got + n
  BY DEF ChildDrain
<1>2. n \in Nat /\ n <= Len(ping)
  BY Rounds DEF Types, MinOf
<1> HIDE DEF n
<1>3. Len(ping') = Len(ping) - n
  BY <1>1, <1>2 DEF Types
<1> QED
  BY <1>1, <1>2, <1>3

\* Every step keeps the loops in their bounds.
LEMMA LoopStep == ASSUME Types, LoopInv, FlowInv, [Next]_vars PROVE LoopInv'
<1>1. batch' = batch
  BY DEF Next, Parent, Child, Fork, WaitForPeer, WaitTimesOut, SendPing, ReceivePong, SendBatch,
         SendingDone, waitpid, ChildAttach, ChildPop, ChildEcho, ChildDrain, ChildExit, Killed, vars
<1>2. ParentRounds' = ParentRounds /\ ChildRounds' = ChildRounds /\ Queues' = Queues
  BY <1>1, SameRun
<1>3. ParentRounds \in Nat /\ ChildRounds = ParentRounds /\ Queues \in {1, 2}
  BY Rounds
<1>4. CASE Fork \/ WaitForPeer \/ WaitTimesOut \/ SendingDone \/ waitpid \/ ChildExit \/ Killed \/ UNCHANGED vars
  BY <1>2, <1>3, <1>4
     DEF Types, LoopInv, Fork, WaitForPeer, WaitTimesOut, SendingDone, waitpid, ChildExit, Killed, vars, queues
<1>5. CASE SendPing
  BY <1>2, <1>3, <1>5 DEF Types, LoopInv, SendPing
<1>6. CASE ReceivePong
  BY <1>2, <1>3, <1>6 DEF Types, LoopInv, FlowInv, ReceivePong
<1>7. CASE SendBatch
  <2>1. pc = "send" /\ UNCHANGED <<attached, pc, cpc, got, m, killed>>
    BY <1>7 DEF SendBatch
  <2>2. sent' <= ParentRounds
    BY <1>3, <1>7, SendFacts DEF Types
  <2> QED
    BY <1>2, <2>1, <2>2 DEF LoopInv
<1>8. CASE ChildAttach
  BY <1>2, <1>3, <1>8 DEF Types, LoopInv, ChildAttach
<1>9. CASE ChildPop \/ ChildEcho
  BY <1>2, <1>3, <1>9 DEF Types, LoopInv, ChildPop, ChildEcho
<1>10. CASE ChildDrain
  BY <1>2, <1>3, <1>10 DEF Types, LoopInv, ChildDrain
<1> QED
  BY <1>4, <1>5, <1>6, <1>7, <1>8, <1>9, <1>10 DEF Next, Parent, Child

\* Every step keeps the messages on their way.
LEMMA FlowStep == ASSUME Types, LoopInv, FlowInv, [Next]_vars PROVE FlowInv'
<1>1. batch' = batch
  BY DEF Next, Parent, Child, Fork, WaitForPeer, WaitTimesOut, SendPing, ReceivePong, SendBatch,
         SendingDone, waitpid, ChildAttach, ChildPop, ChildEcho, ChildDrain, ChildExit, Killed, vars
<1>2. Latency' <=> Latency
  BY <1>1, SameRun
<1>3. CASE Fork \/ WaitForPeer \/ WaitTimesOut \/ SendingDone \/ waitpid \/ ChildAttach \/ ChildExit \/ Killed \/ UNCHANGED vars
  <2>1. UNCHANGED <<ping, pong, sent, got, m>> /\ (pc' = "receive" <=> pc = "receive")
    BY <1>3 DEF Fork, WaitForPeer, WaitTimesOut, SendingDone, waitpid, ChildAttach, ChildExit, Killed, vars, queues
  <2> QED
    BY <1>2, <2>1 DEF FlowInv, InHand, Awaited
<1>4. CASE SendPing
  BY <1>2, <1>4 DEF Types, FlowInv, SendPing, InHand, Awaited
<1>5. CASE ReceivePong
  <2>1. Len(pong) > 0 /\ Len(pong') = Len(pong) - 1 /\ sent' = sent + 1 /\ pc = "receive" /\ pc' = "send"
        /\ UNCHANGED <<ping, got, m>>
    BY <1>5 DEF Types, ReceivePong
  <2> QED
    BY <1>2, <2>1 DEF Types, FlowInv, InHand, Awaited
<1>6. CASE SendBatch
  <2>1. ~Latency /\ UNCHANGED <<pong, pc, got, m>>
    BY <1>6 DEF SendBatch
  <2>2. Len(ping') = sent' - got
    BY <1>6, <2>1, SendFacts DEF Types, FlowInv
  <2> QED
    BY <1>2, <2>1, <2>2 DEF FlowInv
<1>7. CASE ChildPop
  <2>1. /\ Latency /\ Len(ping) > 0 /\ Len(ping') = Len(ping) - 1 /\ m = Nothing /\ m' # Nothing
        /\ UNCHANGED <<pong, pc, sent, got>>
    BY <1>7 DEF Types, ChildPop, Nothing
  <2>2. Len(ping) + 0 + Len(pong) = Awaited /\ got = sent + Len(pong)
    BY <2>1 DEF FlowInv, InHand
  <2>3. Len(ping') + 1 + Len(pong) = Awaited
    BY <2>1, <2>2 DEF Types
  <2> QED
    BY <1>2, <2>1, <2>2, <2>3 DEF FlowInv, InHand, Awaited
<1>8. CASE ChildEcho
  <2>1. m # Nothing /\ Len(pong') = Len(pong) + 1 /\ m' = Nothing /\ got' = got + 1 /\ UNCHANGED <<ping, pc, sent>>
    BY <1>8 DEF Types, ChildEcho
  <2>2. Latency /\ Len(ping) + 1 + Len(pong) = Awaited /\ got = sent + Len(pong)
    BY <2>1 DEF FlowInv, InHand
  <2>3. Len(ping) + 0 + Len(pong') = Awaited /\ got' = sent + Len(pong')
    BY <2>1, <2>2 DEF Types
  <2> QED
    BY <1>2, <2>1, <2>2, <2>3 DEF FlowInv, InHand, Awaited
<1>9. CASE ChildDrain
  <2>1. ~Latency /\ UNCHANGED <<pong, pc, sent, m>>
    BY <1>9 DEF ChildDrain
  <2>2. Len(ping') = sent - got'
    BY <1>9, <2>1, DrainFacts DEF Types, FlowInv
  <2> QED
    BY <1>2, <2>1, <2>2 DEF FlowInv
<1> QED
  BY <1>3, <1>4, <1>5, <1>6, <1>7, <1>8, <1>9 DEF Next, Parent, Child

\* The invariant holds in every state a benchmark reaches.
LEMMA BenchInvariant == Spec => []BenchInv
<1>1. Init => BenchInv
  <2> SUFFICES ASSUME Init PROVE BenchInv
    OBVIOUS
  <2>1. Types
    <3>1. <<>> \in Seq(Nat)
      OBVIOUS
    <3> QED
      BY <3>1, Zenon DEF Init, Types
  <2>2. LoopInv
    BY <2>1, Rounds DEF Init, LoopInv
  <2>3. FlowInv
    BY DEF Init, FlowInv, InHand, Awaited
  <2> QED
    BY <2>1, <2>2, <2>3 DEF BenchInv
<1>2. BenchInv /\ [Next]_vars => BenchInv'
  BY TypesStep, LoopStep, FlowStep DEF BenchInv
<1> QED
  BY <1>1, <1>2, PTL DEF Spec

\* For any capacity, number of messages and batch size: when a benchmark reports,
\* everything it sent was received and both queues are empty, unless the child was
\* killed from outside.
THEOREM DeliveredAlways == Spec => []AllDelivered
<1>1. BenchInv => AllDelivered
  <2> SUFFICES ASSUME BenchInv, pc = "done", ~killed PROVE got = ParentRounds /\ ping = <<>> /\ pong = <<>>
    BY DEF AllDelivered
  <2>1. sent = ParentRounds /\ got >= ParentRounds /\ m = Nothing /\ ParentRounds \in Nat
    BY Rounds DEF BenchInv, LoopInv
  <2>2. Len(ping) = 0 /\ Len(pong) = 0 /\ got = ParentRounds
    BY <2>1 DEF BenchInv, Types, FlowInv, InHand, Awaited
  <2> QED
    BY <2>2 DEF BenchInv, Types
<1> QED
  BY <1>1, BenchInvariant, PTL

-----------------------------------------------------------------------------
(* The two processes and each other. *)

\* A parent that waits for the child still has a message on its way to it or from
\* it, or has sent everything; a child that is not killed keeps up with it.
LEMMA WaitingParent ==
  ASSUME BenchInv, ~killed, ParentWaits PROVE ~ChildStuck
<1>1. /\ ParentRounds \in Nat /\ ChildRounds = ParentRounds /\ Bound \in Nat \ {0}
      /\ ping \in Seq(Nat) /\ pong \in Seq(Nat) /\ sent \in Nat /\ got \in Nat
  BY Rounds DEF BenchInv, Types
<1>2. /\ ping = <<>> => Len(ping) = 0
      /\ pong = <<>> => Len(pong) = 0
      /\ Len(ping) \in Nat /\ Len(pong) \in Nat
  BY <1>1
<1>3. pc # "give_up"
  BY DEF BenchInv, LoopInv, ParentWaits
<1>4. CASE pc = "send"
  <2>1. sent < ParentRounds /\ Len(ping) >= Bound /\ attached = Queues
    BY <1>4 DEF ParentWaits, BenchInv, LoopInv
  <2>2. ~Latency /\ m = Nothing /\ Len(ping) = sent - got
    BY <1>1, <1>2, <1>4, <2>1 DEF BenchInv, FlowInv, InHand, Awaited
  <2>3. got < ChildRounds /\ ping # <<>>
    BY <1>1, <1>2, <2>1, <2>2
  <2>4. cpc \notin {"none", "zombie", "gone"}
    BY <1>1, <2>1, <2>3, Rounds DEF BenchInv, LoopInv
  <2> QED
    BY <2>2, <2>3, <2>4 DEF ChildStuck
<1>5. CASE pc = "receive"
  <2>1. pong = <<>> /\ sent < ParentRounds /\ attached = Queues
    BY <1>5 DEF ParentWaits, BenchInv, LoopInv
  <2>2. Len(ping) + InHand = 1 /\ got = sent
    BY <1>1, <1>2, <1>5, <2>1 DEF BenchInv, FlowInv, InHand, Awaited
  <2>3. got < ChildRounds /\ Len(pong) < Bound /\ (m = Nothing => ping # <<>>)
    <3>1. m = Nothing => InHand = 0
      BY DEF InHand
    <3>2. m = Nothing => Len(ping) = 1
      BY <1>2, <2>2, <3>1
    <3>3. Len(pong) = 0 /\ (m = Nothing => ping # <<>>)
      BY <1>2, <2>1, <3>2
    <3> QED
      BY <1>1, <2>1, <2>2, <3>3
  <2>4. cpc \notin {"none", "zombie", "gone"}
    BY <1>1, <2>1, <2>3, Rounds DEF BenchInv, LoopInv
  <2> QED
    BY <1>1, <1>2, <2>3, <2>4 DEF ChildStuck
<1>6. CASE pc = "reap"
  <2>1. sent = ParentRounds /\ cpc \notin {"none", "zombie", "gone"}
    BY <1>6 DEF ParentWaits, BenchInv, LoopInv
  <2>2. m = Nothing /\ (ping = <<>> => got = ParentRounds)
    BY <1>1, <1>2, <1>6, <2>1 DEF BenchInv, FlowInv, InHand, Awaited
  <2> QED
    BY <1>1, <2>1, <2>2 DEF ChildStuck
<1> QED
  BY <1>3, <1>4, <1>5, <1>6 DEF ParentWaits

\* For any capacity, number of messages and batch size: the parent and a child that
\* nobody killed never wait for each other.
THEOREM NeverStandoff == Spec => []NoStandoff
<1>1. BenchInv => NoStandoff
  BY WaitingParent DEF NoStandoff
<1> QED
  BY <1>1, BenchInvariant, PTL
=============================================================================
