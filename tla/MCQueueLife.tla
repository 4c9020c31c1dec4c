---------------------------- MODULE MCQueueLife ----------------------------
EXTENDS QueueLife, TLC

\* Two handles in process 1, one in process 2.
Homes == 1 :> 1 @@ 2 :> 1 @@ 3 :> 2

\* One element type, or a second one in the second handle of process 1.
Pair   == [size |-> 2, align |-> 2]
Triple == [size |-> 3, align |-> 1]
OneType  == 1 :> Pair @@ 2 :> Pair @@ 3 :> Pair
TwoTypes == 1 :> Pair @@ 2 :> Triple @@ 3 :> Pair

\* All handles in one role, or both roles in process 1 and one of them in 2.
Producers == 1 :> "producer" @@ 2 :> "producer" @@ 3 :> "producer"
BothRoles == 1 :> "producer" @@ 2 :> "consumer" @@ 3 :> "consumer"

=============================================================================
