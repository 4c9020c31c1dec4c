------------------------------- MODULE Bench -------------------------------
(***************************************************************************)
(* The two benchmarks (src/bench_latency.cpp, and run() of                 *)
(* src/bench_throughput.cpp): a parent that creates the queues, forks,     *)
(* waits for the child to attach, sends, and waits for the child to end.   *)
(* Neither looks whether its peer is alive.  Queues are bounded FIFOs of   *)
(* numbered messages; the time stamps are left out.                        *)
(***************************************************************************)
EXTENDS Integers, Sequences

CONSTANTS Bound,    \* capacity() of the queues
          Iters,    \* round trips the latency benchmark measures
          Total,    \* messages of a throughput run
          Batches   \* the batch sizes of the throughput runs

ASSUME BenchConstants ==
  Bound \in Nat \ {0} /\ Iters \in Nat /\ Total \in Nat /\ Batches \subseteq Nat \ {0}

VARIABLES
  batch,       \* 0: the latency benchmark; else a throughput run with this batch
  ping, pong,  \* the queues, pong for latency only
  attached,    \* the number of queues the child has attached to
  pc, cpc,     \* parent and child
  sent, got,   \* the counters of their loops
  m,           \* the message the child is echoing
  killed       \* history: the child was killed from outside

queues == <<ping, pong>>
vars   == <<batch, queues, attached, pc, cpc, sent, got, m, killed>>

Latency  == batch = 0
Queues   == IF Latency THEN 2 ELSE 1
Nothing  == -1
MinOf(a, b) == IF a <= b THEN a ELSE b

warmup == Iters \div 10 + 1

\* How often the parent's loop and the child's go round.
ParentRounds == IF Latency THEN Iters + warmup ELSE Total
ChildRounds_NoWarmup == IF Latency THEN Iters ELSE Total
ChildRounds == IF Latency THEN Iters + warmup ELSE Total

Init ==
  /\ batch \in Batches \cup {0}
  /\ ping = <<>> /\ pong = <<>> /\ attached = 0
  /\ pc = "fork" /\ cpc = "none"
  /\ sent = 0 /\ got = 0 /\ m = Nothing /\ killed = FALSE

-----------------------------------------------------------------------------
(* The parent. *)

\* A fork() that fails goes unnoticed: the parent waits for a child that is not
\* there.
Fork ==
  /\ pc = "fork" /\ pc' = "wait" /\ cpc' \in {"attach", "none"}
  /\ UNCHANGED <<batch, queues, attached, sent, got, m, killed>>

WaitForPeer ==
  /\ pc = "wait" /\ attached = Queues /\ pc' = "send"
  /\ UNCHANGED <<batch, queues, attached, cpc, sent, got, m, killed>>

\* After 5 s without a peer the parent kills the child.  Where there is none,
\* its pid is -1, and the kill() goes to processes outside this module.
WaitTimesOut ==
  /\ pc = "wait" /\ attached < Queues
  /\ pc' = "give_up" /\ cpc' = IF cpc = "none" THEN "none" ELSE "zombie"
  /\ UNCHANGED <<batch, queues, attached, sent, got, m, killed>>

SendPing ==
  /\ Latency /\ pc = "send" /\ sent < ParentRounds /\ Len(ping) < Bound
  /\ ping' = Append(ping, sent) /\ pc' = "receive"
  /\ UNCHANGED <<batch, pong, attached, cpc, sent, got, m, killed>>

ReceivePong ==
  /\ pc = "receive" /\ pong # <<>>
  /\ pong' = Tail(pong) /\ sent' = sent + 1 /\ pc' = "send"
  /\ UNCHANGED <<batch, ping, attached, cpc, got, m, killed>>

\* try_push of one message, or push_n of what is left of the total.
want_WholeBatch == batch
want == MinOf(batch, ParentRounds - sent)

SendBatch ==
  LET n == MinOf(want, Bound - Len(ping)) IN
  /\ ~Latency /\ pc = "send" /\ sent < ParentRounds /\ n > 0
  /\ ping' = ping \o [i \in 1 .. n |-> sent + i - 1]
  /\ sent' = sent + n
  /\ UNCHANGED <<batch, pong, attached, pc, cpc, got, m, killed>>

SendingDone ==
  /\ pc = "send" /\ sent >= ParentRounds /\ pc' = "reap"
  /\ UNCHANGED <<batch, queues, attached, cpc, sent, got, m, killed>>

\* Waits for the child to end; without one it fails at once.
waitpid ==
  /\ pc \in {"reap", "give_up"} /\ cpc \in {"zombie", "none"}
  /\ pc' = IF pc = "reap" THEN "done" ELSE "failed"
  /\ cpc' = "gone"
  /\ UNCHANGED <<batch, queues, attached, sent, got, m, killed>>

Parent ==
  Fork \/ WaitForPeer \/ WaitTimesOut \/ SendPing \/ ReceivePong \/ SendBatch
  \/ SendingDone \/ waitpid

-----------------------------------------------------------------------------
(* The child. *)

\* Each attach() succeeds, or throws and ends the child.
ChildAttach ==
  /\ cpc = "attach"
  /\ \/ /\ attached' = attached + 1
        /\ cpc' = IF attached' = Queues THEN "loop" ELSE "attach"
     \/ cpc' = "zombie" /\ UNCHANGED attached
  /\ UNCHANGED <<batch, queues, pc, sent, got, m, killed>>

ChildPop ==
  /\ Latency /\ cpc = "loop" /\ got < ChildRounds /\ m = Nothing /\ ping # <<>>
  /\ m' = Head(ping) /\ ping' = Tail(ping)
  /\ UNCHANGED <<batch, pong, attached, pc, cpc, sent, got, killed>>

ChildEcho ==
  /\ cpc = "loop" /\ m # Nothing /\ Len(pong) < Bound
  /\ pong' = Append(pong, m) /\ m' = Nothing /\ got' = got + 1
  /\ UNCHANGED <<batch, ping, attached, pc, cpc, sent, killed>>

ChildDrain ==
  LET n == MinOf(batch, Len(ping)) IN
  /\ ~Latency /\ cpc = "loop" /\ got < ChildRounds /\ n > 0
  /\ ping' = SubSeq(ping, n + 1, Len(ping)) /\ got' = got + n
  /\ UNCHANGED <<batch, pong, attached, pc, cpc, sent, m, killed>>

ChildExit ==
  /\ cpc = "loop" /\ m = Nothing /\ got >= ChildRounds /\ cpc' = "zombie"
  /\ UNCHANGED <<batch, queues, attached, pc, sent, got, m, killed>>

Child == ChildAttach \/ ChildPop \/ ChildEcho \/ ChildDrain \/ ChildExit

Killed ==
  /\ cpc \in {"attach", "loop"} /\ cpc' = "zombie" /\ killed' = TRUE
  /\ UNCHANGED <<batch, queues, attached, pc, sent, got, m>>

Next == Parent \/ Child \/ Killed

\* Both processes are scheduled, and the wait for the peer has a timeout.
Spec == Init /\ [][Next]_vars /\ WF_vars(Parent) /\ WF_vars(Child)

-----------------------------------------------------------------------------
(* Properties. *)

\* What a benchmark reports has been delivered (bench_throughput.cpp:21): the
\* child received every message, no more than were asked for, and both queues
\* are empty, unless somebody killed it.
AllDelivered ==
  pc = "done" /\ ~killed => got = ParentRounds /\ ping = <<>> /\ pong = <<>>

\* Where the two processes spin or block on each other: on a full or an empty
\* queue, in waitpid() of a child that goes on; the child is stuck when it has
\* ended, too.
ParentWaits ==
  \/ pc = "send" /\ sent < ParentRounds /\ Len(ping) >= Bound
  \/ pc = "receive" /\ pong = <<>>
  \/ pc \in {"reap", "give_up"} /\ cpc \notin {"zombie", "none"}
ChildStuck ==
  \/ cpc \in {"none", "zombie", "gone"}
  \/ cpc = "loop" /\ m # Nothing /\ Len(pong) >= Bound
  \/ cpc = "loop" /\ m = Nothing /\ got < ChildRounds /\ ping = <<>>

\* The two never wait for each other (bench_latency.cpp:46): whenever the parent
\* spins on a queue or waits for the child to end, the child can go on, unless it
\* was killed from outside.
NoStandoff == ~killed => ~(ParentWaits /\ ChildStuck)

\* Neither loop waits for ever for the other, whoever is slow and wherever the
\* attach() fails; only a child killed from outside can leave the parent spinning.
BenchEnds == (pc = "wait") ~> (pc \in {"done", "failed"} \/ killed)

=============================================================================
