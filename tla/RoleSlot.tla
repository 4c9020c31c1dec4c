------------------------------ MODULE RoleSlot ------------------------------
(***************************************************************************)
(* One pid slot of the control block (producerPid or consumerPid) and the  *)
(* handles that claim it with bind() and give it up with detach().  A      *)
(* process may hold several handles, may die at any step, stays a zombie   *)
(* until it is reaped, and its pid may come back.                          *)
(***************************************************************************)
EXTENDS Integers

CONSTANTS Procs,      \* the pids
          Handles,    \* the ShmSpscQueue objects of this role
          PidOf,      \* the process each handle lives in
          UserOf,     \* the user each process runs as
          PidsReused  \* whether the system hands out a pid again

ASSUME SlotConstants ==
  /\ Procs \subseteq Nat \ {0}
  /\ PidOf \in [Handles -> Procs]
  /\ PidsReused \in BOOLEAN

VARIABLES slot,     \* the shared word: 0 never claimed, -1 detached, else a pid
          proc,     \* the state of each process
          pc,       \* where each handle is in bind()
          expected  \* bind's local of that name

vars == <<slot, proc, pc, expected>>

Detached == -1

-----------------------------------------------------------------------------
(* kill(pid, 0) and what the code makes of its answer. *)

kill(observer, p) ==
  IF proc[p] \in {"new", "gone"} THEN "ESRCH"
  ELSE IF UserOf[p] # UserOf[observer] THEN "EPERM" ELSE "ok"

processAlive_EpermIsDead(observer, p) == p > 0 /\ kill(observer, p) = "ok"
processAlive(observer, p) == p > 0 /\ kill(observer, p) # "ESRCH"

peerAlive(observer) == slot = 0 \/ processAlive(observer, slot)

-----------------------------------------------------------------------------
(* bind() and detach(). *)

Init ==
  /\ slot = 0
  /\ proc = [p \in Procs |-> "new"]
  /\ pc = [h \in Handles |-> "out"]
  /\ expected = [h \in Handles |-> 0]

Goto(h, where, seen) ==
  /\ pc' = [pc EXCEPT ![h] = where]
  /\ expected' = [expected EXCEPT ![h] = seen]

\* The part of bind() that comes before it looks at the slot.
BindStart(h) ==
  /\ pc[h] = "out" /\ proc[PidOf[h]] = "running"
  /\ Goto(h, "load", 0)
  /\ UNCHANGED <<slot, proc>>

BindLoad(h) ==
  /\ pc[h] = "load"
  /\ Goto(h, "test", slot)
  /\ UNCHANGED <<slot, proc>>

\* The three ways out of the tests at the top of the loop: this process holds
\* the slot already, a live process holds it (bind throws), or try to claim it.
BindTest(h) ==
  LET self == PidOf[h] IN
  /\ pc[h] = "test"
  /\ \/ expected[h] = self /\ Goto(h, "bound", 0)
     \/ /\ expected[h] # self /\ processAlive(self, expected[h])
        /\ Goto(h, "out", 0)
     \/ /\ expected[h] # self /\ ~processAlive(self, expected[h])
        /\ Goto(h, "cas", expected[h])
  /\ UNCHANGED <<slot, proc>>

BindCas_PlainStore(h) ==
  /\ pc[h] = "cas"
  /\ slot' = PidOf[h] /\ Goto(h, "bound", 0)
  /\ UNCHANGED proc

BindCas_KeepsExpected(h) ==
  /\ pc[h] = "cas"
  /\ \/ slot = expected[h] /\ slot' = PidOf[h] /\ Goto(h, "bound", 0)
     \/ slot # expected[h] /\ Goto(h, "test", expected[h]) /\ UNCHANGED slot
  /\ UNCHANGED proc

BindCas(h) ==
  /\ pc[h] = "cas"
  /\ \/ slot = expected[h] /\ slot' = PidOf[h] /\ Goto(h, "bound", 0)
     \/ slot # expected[h] /\ Goto(h, "test", slot) /\ UNCHANGED slot
  /\ UNCHANGED proc

\* compare_exchange_weak may fail although the slot holds the expected value.
BindCasSpurious(h) ==
  /\ pc[h] = "cas" /\ slot = expected[h]
  /\ Goto(h, "test", slot)
  /\ UNCHANGED <<slot, proc>>

\* detach() of a bound handle; for any other handle it leaves the slot alone.
Detach(h) ==
  /\ pc[h] = "bound"
  /\ slot' = IF slot = PidOf[h] THEN Detached ELSE slot
  /\ Goto(h, "out", 0)
  /\ UNCHANGED proc

-----------------------------------------------------------------------------
(* Processes. *)

Spawn(p) ==
  /\ proc[p] \in (IF PidsReused THEN {"new", "gone"} ELSE {"new"})
  /\ proc' = [proc EXCEPT ![p] = "running"]
  /\ UNCHANGED <<slot, pc, expected>>

\* A process ends, by exit or by a signal, without detaching.
Die(p) ==
  /\ proc[p] = "running"
  /\ proc' = [proc EXCEPT ![p] = "zombie"]
  /\ pc' = [h \in Handles |-> IF PidOf[h] = p THEN "out" ELSE pc[h]]
  /\ expected' = [h \in Handles |-> IF PidOf[h] = p THEN 0 ELSE expected[h]]
  /\ UNCHANGED slot

\* Its parent waits for it.
Reap(p) ==
  /\ proc[p] = "zombie"
  /\ proc' = [proc EXCEPT ![p] = "gone"]
  /\ UNCHANGED <<slot, pc, expected>>

Next ==
  \/ \E h \in Handles : \/ BindStart(h) \/ BindLoad(h) \/ BindTest(h)
                        \/ BindCas(h) \/ BindCasSpurious(h) \/ Detach(h)
  \/ \E p \in Procs : Spawn(p) \/ Die(p) \/ Reap(p)

\* A handle inside bind() keeps running while its process does, and its
\* compare_exchange_weak does not fail spuriously for ever.
Fairness == \A h \in Handles : /\ WF_vars(BindLoad(h)) /\ WF_vars(BindTest(h))
                               /\ SF_vars(BindCas(h))

Spec == Init /\ [][Next]_vars /\ Fairness

-----------------------------------------------------------------------------
(* Properties. *)

TypeOK ==
  /\ slot \in Procs \cup {0, Detached}
  /\ proc \in [Procs -> {"new", "running", "zombie", "gone"}]
  /\ pc \in [Handles -> {"out", "load", "test", "cas", "bound"}]
  /\ expected \in [Handles -> Procs \cup {0, Detached}]

\* The role is exclusive between processes (README.md:204): handles that
\* finished bind() all live in one process.
OneOwningProcess ==
  \A g, h \in Handles : pc[g] = "bound" /\ pc[h] = "bound" => PidOf[g] = PidOf[h]

\* As long as an owner is attached and running, peerAlive() tells every other
\* process so; a blocking push or pop then does not give up on it.
OwnerSeenAlive ==
  \A h \in Handles : pc[h] = "bound" => \A q \in Procs : slot # 0 /\ peerAlive(q)

\* Only a process's own detach() takes its pid out of the slot while it runs:
\* reclaiming a stale pid never hits a live owner.
ReleasedOnlyByOwner ==
  [][(slot \in Procs /\ proc[slot] = "running" /\ slot' # slot)
       => \E h \in Handles : PidOf[h] = slot /\ pc[h] = "bound" /\ pc'[h] = "out"]_vars

\* For processes with one handle each whose pids are not reused, the loop of
\* bind() is as good as one step: the role is granted at one instant, at which
\* nobody has it or only a dead process does, and bind() throws only because of a
\* process that had it during the call and has not been waited for.
Owner(pid) == IF pid = Detached THEN 0 ELSE pid
Lock == INSTANCE RoleLock WITH
          holder <- Owner(slot), asking <- {h \in Handles : pc[h] \in {"load", "test", "cas"}},
          met <- [h \in Handles |-> IF pc[h] \in {"test", "cas"} THEN Owner(expected[h]) ELSE 0]
RoleIsLock == Lock!Spec

\* bind() returns or throws, whoever competes for the slot.
BindEnds == \A h \in Handles : (pc[h] = "load") ~> (pc[h] \in {"out", "bound"})

-----------------------------------------------------------------------------
(* The inductive invariant behind the exclusion, for processes with one      *)
(* handle each whose pids are not reused.                                    *)

OneHandleEach == \A g, h \in Handles : PidOf[g] = PidOf[h] => g = h

\* A handle is bound exactly when the slot names its running process.
SlotInv ==
  /\ TypeOK
  /\ \A h \in Handles :
       /\ pc[h] # "out" => proc[PidOf[h]] = "running"
       /\ proc[PidOf[h]] = "running" => (pc[h] = "bound" <=> slot = PidOf[h])
       /\ pc[h] = "test" => expected[h] # PidOf[h]
       /\ pc[h] = "cas" => expected[h] # PidOf[h]
            /\ (expected[h] \in Procs => proc[expected[h]] = "gone")
  /\ slot \in Procs => proc[slot] # "new"
  /\ \A h \in Handles : expected[h] \in Procs => proc[expected[h]] # "new"

=============================================================================
