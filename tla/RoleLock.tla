------------------------------ MODULE RoleLock ------------------------------
(***************************************************************************)
(* What a role of a segment promises: a lock that is granted in one step,  *)
(* to one process at a time, that outlives its holder's death by no more   *)
(* than the wait of the holder's parent, and that is refused only because  *)
(* of a process that held it during the call and is still there.           *)
(***************************************************************************)
CONSTANTS Procs, Handles, PidOf

VARIABLES holder,  \* the pid that has the role, or None
          proc,    \* the processes
          asking,  \* handles in bind()
          met      \* the holder each of them found when it last looked, or None

vars == <<holder, proc, asking, met>>

None == 0

Init ==
  /\ holder = None /\ proc = [p \in Procs |-> "new"]
  /\ asking = {} /\ met = [h \in Handles |-> None]

Ask(h) ==
  /\ proc[PidOf[h]] = "running" /\ h \notin asking /\ holder # PidOf[h]
  /\ asking' = asking \cup {h}
  /\ UNCHANGED <<holder, proc, met>>

Look(h) ==
  /\ h \in asking
  /\ met' = [met EXCEPT ![h] = holder]
  /\ UNCHANGED <<holder, proc, asking>>

\* A call ends.
Answer(h) == h \in asking /\ asking' = asking \ {h} /\ met' = [met EXCEPT ![h] = None]

Grant(h) ==
  /\ holder = None \/ proc[holder] = "gone"
  /\ Answer(h)
  /\ holder' = PidOf[h]
  /\ UNCHANGED proc

Refuse(h) ==
  /\ met[h] # None /\ proc[met[h]] \in {"running", "zombie"}
  /\ Answer(h)
  /\ UNCHANGED <<holder, proc>>

Release(h) ==
  /\ holder = PidOf[h] /\ proc[holder] = "running"
  /\ holder' = None
  /\ UNCHANGED <<proc, asking, met>>

Spawn(p) ==
  /\ proc[p] = "new" /\ proc' = [proc EXCEPT ![p] = "running"]
  /\ UNCHANGED <<holder, asking, met>>

Die(p) ==
  /\ proc[p] = "running" /\ proc' = [proc EXCEPT ![p] = "zombie"]
  /\ asking' = {h \in asking : PidOf[h] # p}
  /\ met' = [h \in Handles |-> IF PidOf[h] = p THEN None ELSE met[h]]
  /\ UNCHANGED holder

Reap(p) ==
  /\ proc[p] = "zombie" /\ proc' = [proc EXCEPT ![p] = "gone"]
  /\ UNCHANGED <<holder, asking, met>>

Next ==
  \/ \E h \in Handles : Ask(h) \/ Look(h) \/ Grant(h) \/ Refuse(h) \/ Release(h)
  \/ \E p \in Procs : Spawn(p) \/ Die(p) \/ Reap(p)

Spec == Init /\ [][Next]_vars

=============================================================================
