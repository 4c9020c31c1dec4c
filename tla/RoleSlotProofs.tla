--------------------------- MODULE RoleSlotProofs ---------------------------
(***************************************************************************)
(* Proofs about RoleSlot, for any number of processes and handles.         *)
(***************************************************************************)
EXTENDS RoleSlot, TLAPS

\* processAlive() is false exactly of the special values and of pids whose
\* process is not there, whoever asks.
LEMMA AliveMeans ==
  ASSUME TypeOK, NEW q \in Procs, NEW p \in Procs \cup {0, Detached}
  PROVE  processAlive(q, p) <=> p \in Procs /\ proc[p] \in {"running", "zombie"}
<1>1. CASE p \in Procs
  <2>1. p > 0 /\ proc[p] \in {"new", "running", "zombie", "gone"}
    BY <1>1, SlotConstants DEF TypeOK
  <2> QED BY <1>1, <2>1 DEF processAlive, kill
<1>2. CASE p \in {0, Detached}
  <2>1. ~(p > 0) /\ p \notin Procs
    BY <1>2, SlotConstants DEF Detached
  <2> QED BY <2>1 DEF processAlive
<1> QED BY <1>1, <1>2

\* What holds however many handles a process has, as long as pids are not
\* reused: a claim is attempted only on a slot nobody alive is registered in.
StalenessInv ==
  /\ TypeOK
  /\ \A h \in Handles :
       /\ pc[h] # "out" => proc[PidOf[h]] = "running"
       /\ (pc[h] = "cas" /\ expected[h] \in Procs) => proc[expected[h]] = "gone"
       /\ expected[h] \in Procs => proc[expected[h]] # "new"
  /\ slot \in Procs => proc[slot] # "new"

\* No step of bind(), detach() or the processes breaks StalenessInv.
LEMMA StalenessStep ==
  ASSUME ~PidsReused, StalenessInv, [Next]_vars
  PROVE  StalenessInv'
<1> USE SlotConstants DEF StalenessInv, TypeOK, Goto, Detached
<1>1. CASE UNCHANGED vars
  BY <1>1 DEF vars
<1>2. ASSUME NEW h \in Handles, BindStart(h) PROVE StalenessInv'
  BY <1>2 DEF BindStart
<1>3. ASSUME NEW h \in Handles, BindLoad(h) PROVE StalenessInv'
  BY <1>3 DEF BindLoad
<1>4. ASSUME NEW h \in Handles, BindTest(h) PROVE StalenessInv'
  <2>1. processAlive(PidOf[h], expected[h])
          <=> expected[h] \in Procs /\ proc[expected[h]] \in {"running", "zombie"}
    BY AliveMeans
  <2>2. CASE expected[h] = PidOf[h] /\ Goto(h, "bound", 0)
    BY <1>4, <2>2 DEF BindTest
  <2>3. CASE Goto(h, "out", 0)
    BY <1>4, <2>3 DEF BindTest
  <2>4. CASE /\ expected[h] # PidOf[h] /\ ~processAlive(PidOf[h], expected[h])
             /\ Goto(h, "cas", expected[h])
    <3>1. expected[h] \in Procs => proc[expected[h]] = "gone"
      BY <2>1, <2>4
    <3> QED BY <1>4, <2>4, <3>1 DEF BindTest
  <2> QED BY <1>4, <2>2, <2>3, <2>4 DEF BindTest
<1>5. ASSUME NEW h \in Handles, BindCas(h) PROVE StalenessInv'
  BY <1>5 DEF BindCas
<1>6. ASSUME NEW h \in Handles, BindCasSpurious(h) PROVE StalenessInv'
  BY <1>6 DEF BindCasSpurious
<1>7. ASSUME NEW h \in Handles, Detach(h) PROVE StalenessInv'
  BY <1>7 DEF Detach
<1>8. ASSUME NEW p \in Procs, Spawn(p) PROVE StalenessInv'
  BY <1>8 DEF Spawn
<1>9. ASSUME NEW p \in Procs, Die(p) PROVE StalenessInv'
  BY <1>9 DEF Die
<1>10. ASSUME NEW p \in Procs, Reap(p) PROVE StalenessInv'
  BY <1>10 DEF Reap
<1> QED BY <1>1, <1>2, <1>3, <1>4, <1>5, <1>6, <1>7, <1>8, <1>9, <1>10 DEF Next

\* No step of bind(), detach() or the processes breaks SlotInv.
LEMMA SlotStep ==
  ASSUME ~PidsReused, OneHandleEach, SlotInv, [Next]_vars
  PROVE  SlotInv'
<1>0. \A h \in Handles : expected[h] \in Procs
                           => proc[expected[h]] \in {"running", "zombie", "gone"}
  BY DEF SlotInv, TypeOK
<1> USE SlotConstants DEF SlotInv, TypeOK, Goto, Detached
<1>1. CASE UNCHANGED vars
  BY <1>1 DEF vars
<1>2. ASSUME NEW h \in Handles, BindStart(h) PROVE SlotInv'
  BY <1>2 DEF BindStart
<1>3. ASSUME NEW h \in Handles, BindLoad(h) PROVE SlotInv'
  BY <1>3 DEF BindLoad
<1>4. ASSUME NEW h \in Handles, BindTest(h) PROVE SlotInv'
  <2>1. processAlive(PidOf[h], expected[h])
          <=> expected[h] \in Procs /\ proc[expected[h]] \in {"running", "zombie"}
    BY AliveMeans
  <2>2. CASE expected[h] = PidOf[h] /\ Goto(h, "bound", 0)
    BY <1>4, <2>2 DEF BindTest
  <2>3. CASE Goto(h, "out", 0)
    BY <1>4, <2>3 DEF BindTest
  <2>4. CASE /\ expected[h] # PidOf[h] /\ ~processAlive(PidOf[h], expected[h])
             /\ Goto(h, "cas", expected[h])
    <3>1. expected[h] \in Procs => proc[expected[h]] = "gone"
      BY <1>0, <2>1, <2>4, Zenon
    <3> QED BY <1>4, <2>4, <3>1 DEF BindTest
  <2> QED BY <1>4, <2>2, <2>3, <2>4 DEF BindTest
<1>5. ASSUME NEW h \in Handles, BindCas(h) PROVE SlotInv'
  BY <1>5 DEF BindCas, OneHandleEach
<1>6. ASSUME NEW h \in Handles, BindCasSpurious(h) PROVE SlotInv'
  BY <1>6 DEF BindCasSpurious
<1>7. ASSUME NEW h \in Handles, Detach(h) PROVE SlotInv'
  BY <1>7 DEF Detach, OneHandleEach
<1>8. ASSUME NEW p \in Procs, Spawn(p) PROVE SlotInv'
  BY <1>8 DEF Spawn
<1>9. ASSUME NEW p \in Procs, Die(p) PROVE SlotInv'
  BY <1>9 DEF Die
<1>10. ASSUME NEW p \in Procs, Reap(p) PROVE SlotInv'
  BY <1>10 DEF Reap
<1> QED BY <1>1, <1>2, <1>3, <1>4, <1>5, <1>6, <1>7, <1>8, <1>9, <1>10 DEF Next

\* With one handle per process and no pid reuse, a handle is bound exactly when
\* the slot names its running process.
THEOREM SlotInvariant ==
  ASSUME ~PidsReused, OneHandleEach
  PROVE  Spec => []SlotInv
<1>1. Init => SlotInv
  BY SlotConstants DEF Init, SlotInv, TypeOK
<1>2. SlotInv /\ [Next]_vars => SlotInv'
  BY SlotStep
<1> QED BY <1>1, <1>2, PTL DEF Spec

\* Under the same assumptions no two processes ever own the role: the claim by
\* compare-and-swap in bind() lets exactly one win.
THEOREM Exclusion ==
  ASSUME ~PidsReused, OneHandleEach
  PROVE  Spec => []OneOwningProcess
<1>1. SlotInv => OneOwningProcess
  BY SlotConstants DEF SlotInv, OneOwningProcess
<1> QED BY <1>1, SlotInvariant, PTL

\* Under the same assumptions peerAlive() never denies an attached, running owner.
THEOREM OwnerVisible ==
  ASSUME ~PidsReused, OneHandleEach
  PROVE  Spec => []OwnerSeenAlive
<1>1. SlotInv => OwnerSeenAlive
  <2> SUFFICES ASSUME SlotInv, NEW h \in Handles, pc[h] = "bound", NEW q \in Procs
               PROVE  slot # 0 /\ peerAlive(q)
    BY DEF OwnerSeenAlive
  <2>1. slot = PidOf[h] /\ slot \in Procs /\ proc[slot] = "running" /\ TypeOK
    BY SlotConstants DEF SlotInv
  <2> QED BY <2>1, AliveMeans, SlotConstants DEF peerAlive
<1> QED BY <1>1, SlotInvariant, PTL

\* However many handles a process has, reclaiming a stale pid never evicts a
\* running process, as long as pids are not reused.
THEOREM LiveOwnerKept ==
  ASSUME ~PidsReused
  PROVE  Spec => ReleasedOnlyByOwner
<1> DEFINE A == (slot \in Procs /\ proc[slot] = "running" /\ slot' # slot)
                  => \E h \in Handles : PidOf[h] = slot /\ pc[h] = "bound" /\ pc'[h] = "out"
<1>1. Init => StalenessInv
  BY SlotConstants DEF Init, StalenessInv, TypeOK
<1>2. StalenessInv /\ [Next]_vars => StalenessInv'
  BY StalenessStep
<1>3. StalenessInv /\ [Next]_vars => [A]_vars
  <2> SUFFICES ASSUME StalenessInv, Next PROVE A
    OBVIOUS
  <2>1. ASSUME NEW h \in Handles, BindCas(h) PROVE A
    BY <2>1, SlotConstants DEF BindCas, StalenessInv
  <2>2. ASSUME NEW h \in Handles, Detach(h) PROVE A
    BY <2>2, SlotConstants DEF Detach, Goto, StalenessInv, TypeOK
  <2>3. CASE UNCHANGED slot
    BY <2>3
  <2> QED BY <2>1, <2>2, <2>3 DEF Next, BindStart, BindLoad, BindTest, BindCasSpurious,
          Spawn, Die, Reap
<1> QED BY <1>1, <1>2, <1>3, PTL DEF Spec, ReleasedOnlyByOwner

\* The steps of bind() as steps of the lock, or of nobody's concern to it: a claim
\* that succeeds finds the role free, as what it expected was dead when it tested.
LEMMA LockStep ==
  ASSUME ~PidsReused, OneHandleEach, SlotInv, [Next]_vars
  PROVE  [Lock!Next]_(Lock!vars)
<1> DEFINE asking == {h \in Handles : pc[h] \in {"load", "test", "cas"}}
           metBy(h) == IF pc[h] \in {"test", "cas"} THEN Owner(expected[h]) ELSE 0
           met == [h \in Handles |-> metBy(h)]
<1> USE SlotConstants DEF SlotInv, TypeOK, Goto, Detached, Lock!Next
<1>0. ASSUME NEW h \in Handles, NEW where, NEW new, Goto(h, where, new)
      PROVE  met' = [met EXCEPT ![h] = IF where \in {"test", "cas"} THEN Owner(new) ELSE 0]
  <2>1. \A g \in Handles : metBy(g)' = IF g = h THEN IF where \in {"test", "cas"} THEN Owner(new) ELSE 0
                                     ELSE metBy(g)
    BY <1>0 DEF Owner
  <2> HIDE DEF metBy
  <2> QED BY <2>1
<1>1. CASE UNCHANGED vars
  BY <1>1 DEF vars, Lock!vars, Owner
<1>2. ASSUME NEW h \in Handles, BindStart(h) PROVE Lock!Ask(h)
  BY <1>2 DEF BindStart, Lock!Ask, Owner
<1>3. ASSUME NEW h \in Handles, BindLoad(h) PROVE Lock!Look(h)
  <2>1. met' = [met EXCEPT ![h] = Owner(slot)]
    BY <1>0, <1>3 DEF BindLoad
  <2>2. UNCHANGED <<slot, proc>> /\ h \in asking /\ asking' = asking
    BY <1>3 DEF BindLoad
  <2> QED BY <2>1, <2>2 DEF Lock!Look, Owner
<1>4. ASSUME NEW h \in Handles, BindTest(h) PROVE Lock!Refuse(h) \/ UNCHANGED Lock!vars
  <2>1. processAlive(PidOf[h], expected[h])
          <=> expected[h] \in Procs /\ proc[expected[h]] \in {"running", "zombie"}
    BY AliveMeans
  <2>2. CASE processAlive(PidOf[h], expected[h]) /\ Goto(h, "out", 0)
    <3>1. met' = [met EXCEPT ![h] = 0]
      BY <1>0, <2>2
    <3>2. UNCHANGED <<slot, proc>> /\ h \in asking /\ asking' = asking \ {h}
      BY <1>4, <2>2 DEF BindTest
    <3>3. met[h] = expected[h] /\ met[h] # 0 /\ proc[met[h]] \in {"running", "zombie"}
      BY <1>4, <2>1, <2>2 DEF BindTest, Owner
    <3> QED BY <3>1, <3>2, <3>3 DEF Lock!Refuse, Lock!Answer, Lock!None, Owner
  <2>3. CASE Goto(h, "cas", expected[h])
    BY <1>4, <2>3 DEF BindTest, Lock!vars, Owner
  <2> QED
    BY <1>4, <2>2, <2>3 DEF BindTest
<1>5. ASSUME NEW h \in Handles, BindCas(h) PROVE Lock!Grant(h) \/ Lock!Look(h)
  <2>1. CASE slot = expected[h] /\ slot' = PidOf[h] /\ Goto(h, "bound", 0)
    <3>1. met' = [met EXCEPT ![h] = 0]
      BY <1>0, <2>1
    <3>2. UNCHANGED proc /\ h \in asking /\ asking' = asking \ {h}
      BY <1>5, <2>1 DEF BindCas
    <3>3. (Owner(slot) = 0 \/ proc[Owner(slot)] = "gone") /\ Owner(slot)' = PidOf[h]
      BY <1>5, <2>1 DEF BindCas, Owner
    <3> QED BY <3>1, <3>2, <3>3 DEF Lock!Grant, Lock!Answer, Lock!None
  <2>2. CASE slot # expected[h] /\ Goto(h, "test", slot) /\ UNCHANGED slot
    <3>1. met' = [met EXCEPT ![h] = Owner(slot)]
      BY <1>0, <2>2
    <3>2. UNCHANGED <<slot, proc>> /\ h \in asking /\ asking' = asking
      BY <1>5, <2>2 DEF BindCas
    <3> QED BY <3>1, <3>2 DEF Lock!Look, Owner
  <2> QED
    BY <1>5, <2>1, <2>2 DEF BindCas
<1>6. ASSUME NEW h \in Handles, BindCasSpurious(h) PROVE UNCHANGED Lock!vars
  BY <1>6 DEF BindCasSpurious, Lock!vars, Owner
<1>7. ASSUME NEW h \in Handles, Detach(h) PROVE Lock!Release(h)
  BY <1>7 DEF Detach, Lock!Release, Lock!None, Owner
<1>8. ASSUME NEW p \in Procs, Spawn(p) PROVE Lock!Spawn(p)
  BY <1>8 DEF Spawn, Lock!Spawn, Owner
<1>9. ASSUME NEW p \in Procs, Die(p) PROVE Lock!Die(p)
  BY <1>9 DEF Die, Lock!Die, Lock!None, Owner
<1>10. ASSUME NEW p \in Procs, Reap(p) PROVE Lock!Reap(p)
  BY <1>10 DEF Reap, Lock!Reap, Owner
<1> QED BY <1>1, <1>2, <1>3, <1>4, <1>5, <1>6, <1>7, <1>8, <1>9, <1>10 DEF Next

\* With one handle per process and no pid reuse, the compare-and-swap loop of
\* bind() implements a lock that is granted in one step, never while the process
\* that has it is there, and refused only because of such a process.
THEOREM ClaimIsAtomic ==
  ASSUME ~PidsReused, OneHandleEach
  PROVE  Spec => RoleIsLock
<1>1. Init => Lock!Init
  BY SlotConstants DEF Init, Lock!Init, Lock!None, Owner, Detached
<1>2. SlotInv /\ [Next]_vars => [Lock!Next]_(Lock!vars)
  BY LockStep
<1> QED BY <1>1, <1>2, SlotInvariant, PTL DEF Spec, RoleIsLock, Lock!Spec

=============================================================================
