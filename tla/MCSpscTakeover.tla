--------------------------- MODULE MCSpscTakeover ---------------------------
EXTENDS SpscTakeover, FiniteSets

\* Bound: at most three processes run, of either role.  Which pid a process of a
\* role gets does not matter, so they are given in order.
MaxProcs == 3
Spawned == {p \in Procs : proc[p] # "new"}
FewProcs ==
  /\ Cardinality(Spawned) <= MaxProcs
  /\ \A R \in {Producers, Consumers} : \A p, q \in R : p < q /\ q \in Spawned => p \in Spawned

=============================================================================
