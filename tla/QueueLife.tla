----------------------------- MODULE QueueLife -----------------------------
(***************************************************************************)
(* The life of queues under one shared-memory name: create(), attach(),    *)
(* detach(), moves between handles, and the ShmSegment underneath.  A      *)
(* handle is a C++ object; handles at rest without a segment are empty.    *)
(* The pid slots are those of RoleSlot, claimed here in one step.          *)
(***************************************************************************)
EXTENDS Geometry

CONSTANTS Procs,     \* the pids
          Handles,   \* the ShmSpscQueue objects
          ProcOf,    \* the process each lives in
          LayoutOf,  \* its sizeof(T) and alignof(T)
          Requested, \* the capacities create() is called with
          RoleOf,    \* the role its program creates or attaches it in
          MaxObjs    \* shared-memory objects made in all (bound)

Roles == {"producer", "consumer"}

ASSUME LifeConstants ==
  /\ Procs \subseteq Nat \ {0}
  /\ ProcOf \in [Handles -> Procs]
  /\ LayoutOf \in [Handles -> [size : Nat \ {0}, align : Nat]]
  /\ Requested \subseteq 0 .. SizeMax
  /\ RoleOf \in [Handles -> Roles]
  /\ MaxObjs \in Nat

VARIABLES
  name,      \* the object the name stands for, or None
  made,      \* number of objects made so far
  obj,       \* the objects: size, geometry in the control block, ready, pids
  hd,        \* the members of each handle: seg_ and its owner_, ctrl_, bound_, role_
  pc,        \* the call in progress on each handle
  asked,     \* the capacity a create() in progress was called with
  fd,        \* the object it has open and not yet mapped
  source,    \* the handle a move assignment takes its value from
  late,      \* whether the deadline of an attach() has passed
  alive,     \* the running processes
  contested  \* history: the name was removed, or created over a live owner or creator

vars == <<name, made, obj, hd, pc, asked, fd, source, late, alive, contested>>

None     == 0
Detached == -1
Empty    == [seg |-> None, owner |-> FALSE, ctrl |-> None, bound |-> FALSE,
             role |-> "producer"]
Blank    == [layout |-> [size |-> 0, align |-> 0], slots |-> 0, total |-> 0]
NewObj   == [bytes |-> 0, geo |-> Blank, ready |-> FALSE, pid |-> [r \in Roles |-> 0]]

Creating  == {"c_open", "c_size", "c_map", "c_fill", "c_bind", "c_ready"}
Attaching == {"a_open", "a_ready", "a_last", "a_bind"}

Init ==
  /\ name = None /\ made = 0 /\ obj = <<>>
  /\ hd = [h \in Handles |-> Empty]
  /\ pc = [h \in Handles |-> "rest"]
  /\ asked = [h \in Handles |-> 0]
  /\ fd = [h \in Handles |-> None]
  /\ source = [h \in Handles |-> h]
  /\ late = [h \in Handles |-> FALSE]
  /\ alive = Procs
  /\ contested = FALSE

Goto(h, where) == pc' = [pc EXCEPT ![h] = where]
AtRest(h) == pc[h] = "rest" /\ ProcOf[h] \in alive

-----------------------------------------------------------------------------
(* What detach() and the destructor do to the pid slot and the name. *)

ClearSlot_NoBoundGuard(h) ==
  LET m == hd[h] IN
  IF m.ctrl # None /\ obj[m.ctrl].pid[m.role] = ProcOf[h]
  THEN [obj EXCEPT ![m.ctrl].pid[m.role] = Detached] ELSE obj

ClearSlot(h) ==
  LET m == hd[h] IN
  IF m.ctrl # None /\ m.bound /\ obj[m.ctrl].pid[m.role] = ProcOf[h]
  THEN [obj EXCEPT ![m.ctrl].pid[m.role] = Detached] ELSE obj

NameAfterReset_AnyHandle(h) == None
NameAfterReset(h) == IF hd[h].owner THEN None ELSE name

\* An exception leaves create() or attach(): the destructor of the local handle
\* runs.
Throw(h) ==
  /\ obj' = ClearSlot(h)
  /\ name' = NameAfterReset(h)
  /\ hd' = [hd EXCEPT ![h] = Empty]
  /\ late' = [late EXCEPT ![h] = FALSE]
  /\ asked' = [asked EXCEPT ![h] = 0]
  /\ Goto(h, "rest")

-----------------------------------------------------------------------------
(* create(). *)

\* The bytes create() asks ShmSegment::create() for.
BytesAsked(h) == bytesNeeded(Capacity(asked[h]), LayoutOf[h].size)

\* A capacity whose size overflows is refused before anything is done.
CreateUnlink(h) ==
  /\ AtRest(h) /\ hd[h].seg = None
  /\ made < MaxObjs
  /\ \E c \in Requested :
       /\ ~Overflows(Capacity(c), LayoutOf[h].size)
       /\ bytesNeeded(Capacity(c), LayoutOf[h].size) # 0
       /\ asked' = [asked EXCEPT ![h] = c]
  /\ name' = None
  /\ Goto(h, "c_open")
  /\ contested' = (contested \/ \E g \in Handles : hd[g].owner \/ pc[g] \in Creating)
  /\ UNCHANGED <<made, obj, hd, fd, source, late, alive>>

\* shm_open(O_CREAT | O_EXCL) fails if another creator was faster.
CreateOpen(h) ==
  /\ pc[h] = "c_open"
  /\ \/ name # None /\ Throw(h) /\ UNCHANGED <<made, fd>>
     \/ /\ name = None /\ made < MaxObjs
        /\ made' = made + 1 /\ name' = made'
        /\ obj' = [o \in 1 .. made' |-> IF o = made' THEN NewObj ELSE obj[o]]
        /\ fd' = [fd EXCEPT ![h] = made']
        /\ Goto(h, "c_size")
        /\ UNCHANGED <<hd, late, asked>>
  /\ UNCHANGED <<source, alive, contested>>

\* ftruncate and mmap; when one fails the name is unlinked again.
CreateSize(h) ==
  /\ pc[h] = "c_size"
  /\ \/ /\ obj' = [obj EXCEPT ![fd[h]].bytes = BytesAsked(h)]
        /\ Goto(h, "c_map")
        /\ UNCHANGED <<name, fd, asked>>
     \/ /\ name' = None
        /\ fd' = [fd EXCEPT ![h] = None] /\ asked' = [asked EXCEPT ![h] = 0]
        /\ Goto(h, "rest")
        /\ UNCHANGED obj
  /\ UNCHANGED <<made, hd, source, late, alive, contested>>

CreateMap_FailureKeepsName(h) ==
  /\ pc[h] = "c_map"
  /\ fd' = [fd EXCEPT ![h] = None]
  /\ \/ /\ hd' = [hd EXCEPT ![h].seg = fd[h], ![h].owner = TRUE, ![h].ctrl = fd[h]]
        /\ Goto(h, "c_fill")
        /\ UNCHANGED asked
     \/ Goto(h, "rest") /\ asked' = [asked EXCEPT ![h] = 0] /\ UNCHANGED hd
  /\ UNCHANGED <<name, made, obj, source, late, alive, contested>>

CreateMap(h) ==
  /\ pc[h] = "c_map"
  /\ fd' = [fd EXCEPT ![h] = None]
  /\ \/ /\ hd' = [hd EXCEPT ![h].seg = fd[h], ![h].owner = TRUE, ![h].ctrl = fd[h]]
        /\ Goto(h, "c_fill")
        /\ UNCHANGED <<name, asked>>
     \/ /\ name' = None /\ asked' = [asked EXCEPT ![h] = 0]
        /\ Goto(h, "rest") /\ UNCHANGED hd
  /\ UNCHANGED <<made, obj, source, late, alive, contested>>

\* The size() of a handle's segment.
Mapped(h) ==
  LET bytes == obj[hd[h].seg].bytes IN IF hd[h].owner THEN bytes ELSE StatSize(bytes)

\* The memset and the fields of the control block.
CreateFill(h) ==
  /\ pc[h] = "c_fill"
  /\ obj' = [obj EXCEPT ![hd[h].ctrl].geo =
                [layout |-> LayoutOf[h], slots |-> Slots(asked[h]), total |-> Mapped(h)]]
  /\ asked' = [asked EXCEPT ![h] = 0]
  /\ Goto(h, "c_bind")
  /\ UNCHANGED <<name, made, hd, fd, source, late, alive, contested>>

\* bind(): the slot is free, stale or this process's own, or bind() throws.
CanBind(h) ==
  LET holder == obj[hd[h].ctrl].pid[RoleOf[h]]
  IN  holder = ProcOf[h] \/ holder \notin alive

Claim(h) ==
  /\ obj' = [obj EXCEPT ![hd[h].ctrl].pid[RoleOf[h]] = ProcOf[h]]
  /\ hd' = [hd EXCEPT ![h].bound = TRUE, ![h].role = RoleOf[h]]

\* The bind() of create() never throws, which AttachedComplete checks.
CreateBind(h) ==
  /\ pc[h] = "c_bind"
  /\ CanBind(h) /\ Claim(h)
  /\ Goto(h, "c_ready")
  /\ UNCHANGED <<name, made, asked, fd, source, late, alive, contested>>

CreateReady(h) ==
  /\ pc[h] = "c_ready"
  /\ obj' = [obj EXCEPT ![hd[h].ctrl].ready = TRUE]
  /\ Goto(h, "rest")
  /\ UNCHANGED <<name, made, hd, asked, fd, source, late, alive, contested>>

-----------------------------------------------------------------------------
(* attach(). *)

AttachStart(h) ==
  /\ AtRest(h) /\ hd[h].seg = None
  /\ Goto(h, "a_open")
  /\ UNCHANGED <<name, made, obj, hd, asked, fd, source, late, alive, contested>>

Deadline(h) ==
  /\ pc[h] \in Attaching /\ ~late[h]
  /\ late' = [late EXCEPT ![h] = TRUE]
  /\ UNCHANGED <<name, made, obj, hd, pc, asked, fd, source, alive, contested>>

\* ShmSegment::open() needs the name and a size that is set.
CanOpen == name # None /\ obj[name].bytes > 0

\* One round of the loop: the look at the clock and open(), which replaces the
\* segment of the round before.  open() may fail even if it could succeed (fstat,
\* mmap); when it fails the last round throws and any other goes on.
AttachOpen(h) ==
  /\ pc[h] = "a_open"
  /\ \/ /\ CanOpen
        /\ hd' = [hd EXCEPT ![h].seg = name, ![h].ctrl = name]
        /\ Goto(h, IF late[h] THEN "a_last" ELSE "a_ready")
        /\ UNCHANGED <<name, obj, late, asked>>
     \/ late[h] /\ Throw(h)
     \/ ~late[h] /\ UNCHANGED <<name, obj, hd, pc, late, asked>>
  /\ UNCHANGED <<made, fd, source, alive, contested>>

AttachReady_AnySegment(h) ==
  /\ pc[h] \in {"a_ready", "a_last"}
  /\ Goto(h, "a_bind")
  /\ UNCHANGED <<name, made, obj, hd, asked, fd, source, late, alive, contested>>

AttachReady_LastRoundGoesOn(h) ==
  LET ready == obj[hd[h].ctrl].ready IN
  /\ pc[h] \in {"a_ready", "a_last"}
  /\ Goto(h, IF ready THEN "a_bind" ELSE "a_open")
  /\ UNCHANGED <<name, made, obj, hd, asked, fd, source, late, alive, contested>>

AttachReady(h) ==
  LET ready == obj[hd[h].ctrl].ready IN
  /\ pc[h] \in {"a_ready", "a_last"}
  /\ \/ ready /\ Goto(h, "a_bind") /\ UNCHANGED <<name, obj, hd, late, asked>>
     \/ ~ready /\ pc[h] = "a_last" /\ Throw(h)
     \/ ~ready /\ pc[h] = "a_ready" /\ Goto(h, "a_open") /\ UNCHANGED <<name, obj, hd, late, asked>>
  /\ UNCHANGED <<made, fd, source, alive, contested>>

\* validate(): the control block is written, for this binary's layout, and the
\* slots are inside what its creator and this process mapped.
Fits(h) ==
  LET geo == obj[hd[h].ctrl].geo
  IN  /\ geo # Blank /\ geo.layout = LayoutOf[h]
      /\ needed(geo.slots, geo.layout.size) <= geo.total /\ geo.total <= Mapped(h)

\* validate(), then bind(); either may throw.
AttachBind(h) ==
  /\ pc[h] = "a_bind"
  /\ \/ /\ Fits(h) /\ CanBind(h) /\ Claim(h)
        /\ late' = [late EXCEPT ![h] = FALSE]
        /\ Goto(h, "rest")
        /\ UNCHANGED <<name, asked>>
     \/ ~(Fits(h) /\ CanBind(h)) /\ Throw(h)
  /\ UNCHANGED <<made, fd, source, alive, contested>>

-----------------------------------------------------------------------------
(* detach(), moves, and the end of a process. *)

\* What swapWith() makes of the two handles' members.
Swapped_CopiesMembers(m, g, h) ==
  [m EXCEPT ![h] = m[g], ![g].seg = m[h].seg, ![g].owner = m[h].owner]
Swapped(m, g, h) == [m EXCEPT ![h] = m[g], ![g] = m[h]]

\* detach() by itself, from the destructor (g = h), or as the first part of the
\* move assignment h = std::move(g): the pid slot first.
Detach(h, g) ==
  /\ AtRest(h) /\ AtRest(g) /\ hd[h].seg # None
  /\ ProcOf[g] = ProcOf[h] /\ LayoutOf[g] = LayoutOf[h]
  /\ obj' = ClearSlot(h)
  /\ hd' = [hd EXCEPT ![h].ctrl = None, ![h].bound = FALSE]
  /\ pc' = [[pc EXCEPT ![g] = "moving"] EXCEPT ![h] = "d_reset"]
  /\ source' = [source EXCEPT ![h] = g]
  /\ UNCHANGED <<name, made, asked, fd, late, alive, contested>>

\* Then the segment: munmap, and shm_unlink of the name if this handle made it.
\* A move assignment swaps the members last.
DetachReset(h) ==
  /\ pc[h] = "d_reset"
  /\ name' = NameAfterReset(h)
  /\ hd' = Swapped([hd EXCEPT ![h] = Empty], source[h], h)
  /\ pc' = [pc EXCEPT ![h] = "rest", ![source[h]] = "rest"]
  /\ source' = [source EXCEPT ![h] = h]
  /\ UNCHANGED <<made, obj, asked, fd, late, alive, contested>>

\* Move construction, and move assignment to an empty handle.
MoveToEmpty(h, g) ==
  /\ AtRest(h) /\ AtRest(g) /\ hd[h].seg = None /\ hd[g].seg # None
  /\ ProcOf[g] = ProcOf[h] /\ LayoutOf[g] = LayoutOf[h]
  /\ hd' = Swapped(hd, g, h)
  /\ UNCHANGED <<name, made, obj, pc, asked, fd, source, late, alive, contested>>

\* ShmSegment::remove().
Remove ==
  /\ name # None /\ name' = None
  /\ contested' = TRUE
  /\ UNCHANGED <<made, obj, hd, pc, asked, fd, source, late, alive>>

\* A process ends without running destructors: its mappings go, names and pids stay.
Die(p) ==
  /\ p \in alive /\ alive' = alive \ {p}
  /\ hd' = [h \in Handles |-> IF ProcOf[h] = p THEN Empty ELSE hd[h]]
  /\ pc' = [h \in Handles |-> IF ProcOf[h] = p THEN "rest" ELSE pc[h]]
  /\ fd' = [h \in Handles |-> IF ProcOf[h] = p THEN None ELSE fd[h]]
  /\ source' = [h \in Handles |-> IF ProcOf[h] = p THEN h ELSE source[h]]
  /\ late' = [h \in Handles |-> ProcOf[h] # p /\ late[h]]
  /\ asked' = [h \in Handles |-> IF ProcOf[h] = p THEN 0 ELSE asked[h]]
  /\ UNCHANGED <<name, made, obj, contested>>

AttachSteps(h) == AttachOpen(h) \/ AttachReady(h) \/ AttachBind(h)

Next ==
  \/ \E h \in Handles :
       \/ CreateUnlink(h) \/ CreateOpen(h) \/ CreateSize(h) \/ CreateMap(h) \/ CreateFill(h)
       \/ CreateBind(h) \/ CreateReady(h)
       \/ AttachStart(h) \/ Deadline(h) \/ AttachOpen(h) \/ AttachReady(h) \/ AttachBind(h)
       \/ \E g \in Handles : Detach(h, g) \/ MoveToEmpty(h, g)
       \/ DetachReset(h)
  \/ Remove
  \/ \E p \in Procs : Die(p)

\* Time passes, and a process that runs goes on with its attach().
Fairness == \A h \in Handles : WF_vars(Deadline(h)) /\ WF_vars(AttachSteps(h))

Spec == Init /\ [][Next]_vars /\ Fairness

-----------------------------------------------------------------------------
(* Properties. *)

\* A handle that passed attach()'s look at ready, or is bound, has a control
\* block its creator has completely written, of its own layout once bound; and
\* no attach() is ahead of the creator's own bind(), which finds the slot free.
AttachedComplete ==
  \A h \in Handles :
    /\ pc[h] = "a_bind" => obj[hd[h].ctrl].geo # Blank /\ \E r \in Roles : obj[hd[h].ctrl].pid[r] # 0
    /\ hd[h].bound => obj[hd[h].ctrl].geo # Blank /\ Fits(h)
    /\ pc[h] = "c_bind" => CanBind(h)

\* Every slot of a bound handle's ring is inside the memory the handle mapped, by
\* exact arithmetic: no capacity wraps round bytesNeeded() into a segment that the
\* indices run off (the comment on bytesNeeded), and validate()'s own arithmetic,
\* which wraps unchecked, is never fooled.
SlotsMapped ==
  \A h \in Handles : hd[h].bound =>
    CtrlBytes + obj[hd[h].ctrl].geo.slots * LayoutOf[h].size <= Mapped(h)

\* No handle uses memory it has not mapped: after any sequence of moves, detaches
\* and retries, ctrl_ points into the handle's own segment, and a handle without
\* one is not bound and owns nothing (the comment on the move constructor).
CtrlIsMapped ==
  \A h \in Handles :
    /\ hd[h].ctrl # None => hd[h].ctrl = hd[h].seg
    /\ hd[h].bound => hd[h].ctrl # None
    /\ hd[h].owner => hd[h].seg # None

\* As long as nobody removes the name or creates over a live owner, a segment
\* stays reachable by name while the handle that made it, or the one it was moved
\* to, is alive.
OwnerKeepsName ==
  ~contested => \A h \in Handles : hd[h].owner => name = hd[h].seg

\* No name is left behind by processes that live: a name stands for a segment
\* with an owner, or one that is being made.
NoNameLeaked ==
  alive = Procs /\ name # None =>
    \E h \in Handles : (hd[h].owner /\ hd[h].seg = name) \/ fd[h] = name

\* A live process's pid leaves its slot only when one of its bound handles is
\* detached: a failed attach() disturbs no registration, its own process's included.
SlotClearedByDetachOnly ==
  [][\A o \in 1 .. made : \A r \in Roles :
       (obj[o].pid[r] \in alive /\ obj'[o].pid[r] # obj[o].pid[r])
         => \E h \in Handles : /\ ProcOf[h] = obj[o].pid[r] /\ pc'[h] = "d_reset"
                               /\ hd[h].bound /\ hd[h].ctrl = o /\ hd[h].role = r]_vars

\* The steps an attach() has left once its deadline has passed: a round that began
\* before it may end, then there is one last round.
AttachLeft(h) ==
  CASE pc[h] = "a_ready" -> 4 [] pc[h] = "a_open" -> 3 [] pc[h] = "a_last" -> 2
    [] pc[h] = "a_bind" -> 1 [] OTHER -> 0

\* Once its deadline has passed, attach() is out of its loop after at most four
\* steps of its own, whatever creators, removals and other attach() calls do to the
\* name between them: a deadline stays passed, and no step leads back.
AttachBounded ==
  [][\A h \in Handles : pc[h] \in Attaching /\ late[h] =>
       /\ pc'[h] = pc[h] \/ AttachLeft(h)' < AttachLeft(h)
       /\ pc'[h] \in Attaching => late'[h]]_vars

\* attach() returns or throws once its deadline has passed.
AttachEnds == \A h \in Handles : (pc[h] \in Attaching) ~> (pc[h] \notin Attaching)

=============================================================================
