----------------------------- MODULE MCBlocking -----------------------------
EXTENDS Blocking, TLC

\* All processes started from shells, or the consumer forked by producer 1.
Shells == [p \in Procs |-> 0]
Forked == 3 :> 1 @@ [p \in Procs |-> 0]

=============================================================================
