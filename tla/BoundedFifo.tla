---------------------------- MODULE BoundedFifo ----------------------------
(***************************************************************************)
(* What the queue promises to one producer and one consumer: a bounded     *)
(* FIFO whose operations take effect at one instant between call and       *)
(* return.  Message k is the k-th message sent, counted from 0.            *)
(***************************************************************************)
EXTENDS Integers, Sequences

VARIABLES bound,    \* capacity()
          fifo,     \* messages sent and not yet released, oldest first
          sent,     \* number of messages sent so far
          pushAsk,  \* messages offered by the push call in progress, 0 if none
          pushRet,  \* what the last push call returned
          popAsk,   \* messages wanted by the pop call in progress, 0 if none
          popRet    \* the messages the last pop or front call handed out

vars == <<bound, fifo, sent, pushAsk, pushRet, popAsk, popRet>>

Init ==
  /\ bound \in Nat \ {0}
  /\ fifo = <<>> /\ sent = 0
  /\ pushAsk = 0 /\ pushRet = 0
  /\ popAsk = 0 /\ popRet = <<>>

PushCall ==
  /\ pushAsk = 0
  /\ pushAsk' \in Nat \ {0}
  /\ UNCHANGED <<bound, fifo, sent, pushRet, popAsk, popRet>>

\* Some of the messages offered are accepted, and the call says how many.
PushDone ==
  /\ \E k \in 1 .. pushAsk :
       /\ Len(fifo) + k <= bound
       /\ fifo' = fifo \o [i \in 1 .. k |-> sent + (i - 1)]
       /\ sent' = sent + k
       /\ pushRet' = k
  /\ pushAsk' = 0
  /\ UNCHANGED <<bound, popAsk, popRet>>

\* A push call gives up only when the queue is full.
PushRefused ==
  /\ pushAsk # 0
  /\ Len(fifo) = bound
  /\ pushRet' = 0
  /\ pushAsk' = 0
  /\ UNCHANGED <<bound, fifo, sent, popAsk, popRet>>

\* An empty batch.
PushNothing ==
  /\ pushAsk = 0
  /\ pushRet' = 0
  /\ UNCHANGED <<bound, fifo, sent, pushAsk, popAsk, popRet>>

PopCall ==
  /\ popAsk = 0
  /\ popAsk' \in Nat \ {0}
  /\ UNCHANGED <<bound, fifo, sent, pushAsk, pushRet, popRet>>

PopDone ==
  /\ \E k \in 1 .. popAsk :
       /\ k <= Len(fifo)
       /\ popRet' = SubSeq(fifo, 1, k)
       /\ fifo' = SubSeq(fifo, k + 1, Len(fifo))
  /\ popAsk' = 0
  /\ UNCHANGED <<bound, sent, pushAsk, pushRet>>

\* A pop call gives up only when the queue is empty.
PopRefused ==
  /\ popAsk # 0
  /\ fifo = <<>>
  /\ popRet' = <<>>
  /\ popAsk' = 0
  /\ UNCHANGED <<bound, fifo, sent, pushAsk, pushRet>>

PopNothing ==
  /\ popAsk = 0
  /\ popRet' = <<>>
  /\ UNCHANGED <<bound, fifo, sent, pushAsk, pushRet, popAsk>>

\* front() shows the oldest message and leaves it in the queue; pop() then
\* discards it.
Peek ==
  /\ fifo # <<>>
  /\ popRet' = <<fifo[1]>>
  /\ popAsk' = 0
  /\ UNCHANGED <<bound, fifo, sent, pushAsk, pushRet>>

Discard ==
  /\ popAsk = 0
  /\ fifo # <<>>
  /\ fifo' = SubSeq(fifo, 2, Len(fifo))
  /\ UNCHANGED <<bound, sent, pushAsk, pushRet, popAsk, popRet>>

Next ==
  \/ PushCall \/ PushDone \/ PushRefused \/ PushNothing
  \/ PopCall \/ PopDone \/ PopRefused \/ PopNothing \/ Peek \/ Discard

Spec == Init /\ [][Next]_vars

=============================================================================
