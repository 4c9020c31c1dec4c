----------------------------- MODULE CrashFifo -----------------------------
(***************************************************************************)
(* What the queue promises when its producer and its consumer may die at   *)
(* any time and others take their roles over: a bounded FIFO from which a  *)
(* message goes only when a consumer has had it in hand and releases it.   *)
(* The message in the hands of a consumer that dies is delivered again;    *)
(* the one a producer was copying when it died was never sent.             *)
(***************************************************************************)
EXTENDS Integers, Sequences

VARIABLES bound,  \* capacity()
          fifo,   \* messages sent and not yet released, oldest first
          sent,   \* number of messages sent so far, by all producers
          hand    \* the message a consumer has in hand, as a sequence

vars == <<bound, fifo, sent, hand>>

Init == bound \in Nat \ {0} /\ fifo = <<>> /\ sent = 0 /\ hand = <<>>

Send ==
  /\ Len(fifo) < bound
  /\ fifo' = Append(fifo, sent) /\ sent' = sent + 1
  /\ UNCHANGED <<bound, hand>>

Receive ==
  /\ hand = <<>> /\ fifo # <<>>
  /\ hand' = <<Head(fifo)>>
  /\ UNCHANGED <<bound, fifo, sent>>

Release ==
  /\ hand # <<>> /\ hand' = <<>>
  /\ fifo' = Tail(fifo)
  /\ UNCHANGED <<bound, sent>>

\* The consumer dies.
Abandon ==
  /\ hand # <<>> /\ hand' = <<>>
  /\ UNCHANGED <<bound, fifo, sent>>

Next == Send \/ Receive \/ Release \/ Abandon

=============================================================================
