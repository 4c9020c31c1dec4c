-------------------------- MODULE QueueLifeProofs --------------------------
(***************************************************************************)
(* Proofs about QueueLife, for any number of handles, processes, objects   *)
(* and capacities.  The invariant comes in three layers: the members of a  *)
(* handle against the call in progress on it, the name against its owner,  *)
(* and the objects against the handles that use them.                      *)
(***************************************************************************)
EXTENDS QueueLife, TLAPS

(* The arithmetic of Geometry, for every width of std::size_t. *)

\* A size_t holds what is at most SizeMax.
LEMMA WrapExact == ASSUME NEW x \in 0 .. SizeMax PROVE Wrap(x) = x
BY GeometryConstants DEF Wrap

\* The division in bytesNeeded()'s test bounds the product.
LEMMA DivBound ==
  ASSUME NEW a \in Nat, NEW s \in Nat \ {0}, NEW n \in Nat, n <= a \div s
  PROVE  n * s <= a
<1>1. (a \div s) \in Nat
  OBVIOUS
<1>2. s * (a \div s) <= a
  OBVIOUS
<1>3. s * n <= s * (a \div s)
  BY <1>1
<1> QED
  BY <1>1, <1>2, <1>3

\* fstat() of a segment reports no less than was asked for.
LEMMA RoundUp == ASSUME NEW b \in Nat PROVE StatSize(b) \in Nat /\ b <= StatSize(b)
<1> DEFINE q == (b + Page - 1) \div Page
<1>1. q \in Nat
  BY GeometryConstants
<1>2. b + Page - 1 < Page * q + Page
  BY GeometryConstants
<1> QED
  BY <1>1, <1>2, GeometryConstants DEF StatSize

\* A capacity that bytesNeeded() accepts wraps nothing: not the number of slots,
\* not the size asked for, and not what validate() works out from them.
THEOREM BytesExact ==
  ASSUME NEW c \in 0 .. SizeMax, NEW s \in Nat \ {0}, ~Overflows(Capacity(c), s)
  PROVE  /\ Slots(c) \in Nat
         /\ bytesNeeded(Capacity(c), s) \in Nat
         /\ bytesNeeded(Capacity(c), s) = CtrlBytes + Slots(c) * s
         /\ needed(Slots(c), s) = bytesNeeded(Capacity(c), s)
<1> DEFINE n == Capacity(c) + 1
<1>1. n \in Nat /\ n <= SizeMax + 1 /\ Capacity(c) # SizeMax /\ n <= (SizeMax - CtrlBytes) \div s
  <2>1. SizeMax - CtrlBytes \in Nat
    BY GeometryConstants
  <2>2. (SizeMax - CtrlBytes) \div s \in Nat
    BY <2>1
  <2> QED
    BY <2>2, GeometryConstants DEF Capacity, Overflows
<1>2. n * s \in Nat /\ n * s <= SizeMax - CtrlBytes
  BY <1>1, DivBound, GeometryConstants
<1>3. Slots(c) = n
  <2>1. n <= SizeMax
    <3>1. n <= n * s
      BY <1>1
    <3> QED
      BY <1>1, <1>2, <3>1, GeometryConstants
  <2> QED
    BY <1>1, <2>1, WrapExact, GeometryConstants DEF Slots
<1> HIDE DEF n
<1>4. CtrlBytes + n * s \in 0 .. SizeMax
  BY <1>2, GeometryConstants
<1>5. Wrap(CtrlBytes + n * s) = CtrlBytes + n * s
  BY <1>4, WrapExact
<1> QED
  BY <1>1, <1>3, <1>4, <1>5 DEF bytesNeeded, needed, n

-----------------------------------------------------------------------------
(* The invariant. *)

Layouts == [size : Nat, align : Nat]
Geos    == [layout : Layouts, slots : Nat, total : Nat]
Objs    == [bytes : Nat, geo : Geos, ready : BOOLEAN, pid : [Roles -> Int]]
Members == [seg : Nat, owner : BOOLEAN, ctrl : Nat, bound : BOOLEAN, role : Roles]

HandleTypes ==
  /\ made \in Nat /\ name \in 0 .. made
  /\ hd \in [Handles -> Members]
  /\ pc \in [Handles -> {"rest", "moving", "d_reset"} \cup Creating \cup Attaching]
  /\ asked \in [Handles -> 0 .. SizeMax]
  /\ fd \in [Handles -> 0 .. made]
  /\ source \in [Handles -> Handles]
  /\ alive \subseteq Procs

\* The members of one handle, and where its call is.
Shape(h) ==
  /\ hd[h].seg \in 0 .. made
  /\ hd[h].seg = None => ~hd[h].owner /\ hd[h].ctrl = None
  /\ hd[h].ctrl # None => hd[h].ctrl = hd[h].seg
  /\ hd[h].bound => hd[h].ctrl # None
  /\ pc[h] \in {"c_open", "c_size", "c_map"} => hd[h].seg = None
  /\ pc[h] \in {"c_fill", "c_bind", "c_ready"} => hd[h].owner /\ hd[h].ctrl # None
  /\ pc[h] \in {"c_fill", "c_bind"} \cup Attaching => ~hd[h].bound
  /\ pc[h] = "c_ready" => hd[h].bound
  /\ pc[h] \in Attaching => ~hd[h].owner
  /\ pc[h] \in Attaching \ {"a_open"} => hd[h].ctrl # None
  /\ pc[h] \in {"rest", "moving"} /\ hd[h].seg # None => hd[h].bound
  /\ fd[h] # None <=> pc[h] \in {"c_size", "c_map"}

\* A move assignment in progress has its source to itself.
MoveInv ==
  \A h \in Handles :
    /\ pc[h] = "d_reset" =>
         /\ hd[h].ctrl = None /\ hd[h].seg # None
         /\ ProcOf[source[h]] = ProcOf[h] /\ LayoutOf[source[h]] = LayoutOf[h]
         /\ source[h] # h => pc[source[h]] = "moving"
         /\ \A g \in Handles : pc[g] = "d_reset" /\ source[g] = source[h] => g = h
    /\ pc[h] # "d_reset" => source[h] = h

HandleInv == HandleTypes /\ (\A h \in Handles : Shape(h)) /\ MoveInv

\* The object a handle owns or is making, and whether it is about to make one.
Mine(h) == IF fd[h] # None THEN fd[h] ELSE IF hd[h].owner THEN hd[h].seg ELSE None
Acts(h) == hd[h].owner \/ pc[h] \in Creating

NameInv ==
  /\ \A g, h \in Handles : Mine(g) # None /\ Mine(g) = Mine(h) => g = h
  /\ ~contested => /\ \A g, h \in Handles : Acts(g) /\ Acts(h) => g = h
                   /\ \A h \in Handles : Mine(h) # None => name = Mine(h)
  /\ alive = Procs /\ name # None => \E h \in Handles : Mine(h) = name

\* The geometry is written, and exact for an object of this size.
GeoFits(geo, bytes) ==
  /\ geo # Blank /\ geo.total = bytes
  /\ CtrlBytes + geo.slots * geo.layout.size = bytes
  /\ needed(geo.slots, geo.layout.size) = bytes

Fresh(o) == ~obj[o].ready /\ \A r \in Roles : obj[o].pid[r] = 0

\* What the object of a create() in progress, and that of a bound handle, look like.
ObjOf(h) ==
  /\ pc[h] \in {"c_open", "c_size", "c_map", "c_fill"} =>
       ~Overflows(Capacity(asked[h]), LayoutOf[h].size)
  /\ pc[h] \in {"c_size", "c_map", "c_fill", "c_bind"} => Fresh(Mine(h))
  /\ pc[h] \in {"c_size", "c_map", "c_fill"} => obj[Mine(h)].geo = Blank
  /\ pc[h] \in {"c_map", "c_fill"} => obj[Mine(h)].bytes = BytesAsked(h)
  /\ pc[h] \in {"c_bind", "c_ready"} =>
       /\ obj[Mine(h)].geo.layout = LayoutOf[h] /\ ~obj[Mine(h)].ready
       /\ GeoFits(obj[Mine(h)].geo, obj[Mine(h)].bytes)
  /\ pc[h] = "a_bind" => obj[hd[h].ctrl].ready
  /\ hd[h].bound => /\ obj[hd[h].ctrl].geo.layout = LayoutOf[h]
                    /\ GeoFits(obj[hd[h].ctrl].geo, obj[hd[h].ctrl].bytes)
                    /\ \E r \in Roles : obj[hd[h].ctrl].pid[r] # 0

ReadyInv ==
  \A o \in 1 .. made : obj[o].ready =>
    GeoFits(obj[o].geo, obj[o].bytes) /\ \E r \in Roles : obj[o].pid[r] # 0

ObjInv == obj \in [1 .. made -> Objs] /\ (\A h \in Handles : ObjOf(h)) /\ ReadyInv

-----------------------------------------------------------------------------
(* The handles. *)

\* An exception out of create() or attach() touches neither the pid slots nor
\* the name: the local handle is not bound and owns nothing.
LEMMA ThrowHarmless ==
  ASSUME HandleInv, NEW h \in Handles, pc[h] \in {"c_open"} \cup Attaching, Throw(h)
  PROVE  obj' = obj /\ name' = name /\ ~hd[h].owner /\ ~hd[h].bound
<1>1. ~hd[h].owner /\ ~hd[h].bound
  BY DEF HandleInv, HandleTypes, Shape, None, Attaching, Members
<1> QED
  BY <1>1 DEF Throw, ClearSlot, NameAfterReset

\* An empty handle is a handle.
LEMMA EmptyTyped == Empty \in Members /\ 0 \in 0 .. SizeMax
BY GeometryConstants DEF Empty, Members, None, Roles

\* The process and the role of a handle, from the constants.
LEMMA HomeAndRole ==
  ASSUME NEW h \in Handles PROVE ProcOf[h] \in Int \ {0} /\ RoleOf[h] \in Roles
<1>1. ProcOf[h] \in Procs /\ RoleOf[h] \in Roles
  BY LifeConstants
<1>2. Procs \subseteq Nat \ {0}
  BY LifeConstants
<1>3. ProcOf[h] \in Nat \ {0}
  BY <1>1, <1>2
<1>4. ProcOf[h] \in Int \ {0}
  BY <1>3
<1> QED
  BY <1>1, <1>4

\* bind() leaves well-formed handles.
LEMMA ClaimTyped ==
  ASSUME HandleInv, NEW h \in Handles, Claim(h) PROVE hd' \in [Handles -> Members]
<1>1. hd' = [hd EXCEPT ![h] = [hd[h] EXCEPT !.bound = TRUE, !.role = RoleOf[h]]]
  BY DEF Claim, HandleInv, HandleTypes
<1>2. RoleOf[h] \in Roles
  BY HomeAndRole
<1>3. [hd[h] EXCEPT !.bound = TRUE, !.role = RoleOf[h]] \in Members
  <2>1. hd[h] \in Members
    BY DEF HandleInv, HandleTypes
  <2> QED
    BY <1>2, <2>1 DEF Members
<1> QED
  BY <1>1, <1>3 DEF HandleInv, HandleTypes

\* The destructor run by an exception keeps the handles' members consistent.
LEMMA ThrowKeepsHandles ==
  ASSUME HandleInv, NEW h \in Handles, pc[h] \in {"c_open"} \cup Attaching, Throw(h),
         UNCHANGED <<made, fd, source, alive, contested>>
  PROVE  HandleInv'
<1>1. name' = name
  BY ThrowHarmless
<1>2. HandleTypes'
  BY <1>1, EmptyTyped DEF HandleInv, HandleTypes, Throw, Goto
<1>3. ASSUME NEW k \in Handles PROVE Shape(k)'
  BY DEF HandleInv, HandleTypes, Shape, Throw, Goto, Members, Empty, None, Attaching
<1>4. MoveInv'
  BY DEF HandleInv, HandleTypes, MoveInv, Throw, Goto, Attaching
<1> QED
  BY <1>2, <1>3, <1>4 DEF HandleInv

\* At first every handle is empty and at rest.
LEMMA HandleInit == Init => HandleInv
<1> SUFFICES ASSUME Init PROVE HandleInv
  OBVIOUS
<1>1. HandleTypes
  BY EmptyTyped DEF Init, HandleTypes, None
<1>2. ASSUME NEW h \in Handles PROVE Shape(h)
  BY DEF Init, Shape, Empty, None, Attaching
<1>3. MoveInv
  BY DEF Init, MoveInv
<1> QED
  BY <1>1, <1>2, <1>3 DEF HandleInv

\* create()'s unlink of the name keeps the handles' members consistent.
LEMMA CreateUnlinkHandles ==
  ASSUME HandleInv, NEW h \in Handles, CreateUnlink(h) PROVE HandleInv'
<1>1. HandleTypes'
  BY LifeConstants DEF HandleInv, HandleTypes, Shape, CreateUnlink, AtRest, Goto, Members, Creating, Attaching, None, Roles
<1>2. ASSUME NEW k \in Handles PROVE Shape(k)'
  BY DEF HandleInv, HandleTypes, Shape, CreateUnlink, AtRest, Goto, Members, Creating, Attaching, None
<1>3. MoveInv'
  BY DEF HandleInv, HandleTypes, MoveInv, CreateUnlink, AtRest, Goto, Members, Creating, Attaching, None
<1> QED
  BY <1>1, <1>2, <1>3 DEF HandleInv

\* ftruncate in create(), done or failed keeps the handles' members consistent.
LEMMA CreateSizeHandles ==
  ASSUME HandleInv, NEW h \in Handles, CreateSize(h) PROVE HandleInv'
<1>1. HandleTypes'
  BY EmptyTyped DEF HandleInv, HandleTypes, CreateSize, Goto, Creating, None
<1>2. ASSUME NEW k \in Handles PROVE Shape(k)'
  BY DEF HandleInv, HandleTypes, Shape, CreateSize, Goto, Members, Creating, Attaching, None
<1>3. MoveInv'
  BY DEF HandleInv, HandleTypes, MoveInv, CreateSize, Goto, Members, Creating, Attaching, None
<1> QED
  BY <1>1, <1>2, <1>3 DEF HandleInv

\* mmap in create(), done or failed keeps the handles' members consistent.
LEMMA CreateMapHandles ==
  ASSUME HandleInv, NEW h \in Handles, CreateMap(h) PROVE HandleInv'
<1>1. HandleTypes'
  <2>1. hd' \in [Handles -> Members]
    BY DEF HandleInv, HandleTypes, CreateMap, Members
  <2>2. pc' \in [Handles -> {"rest", "moving", "d_reset"} \cup Creating \cup Attaching]
    BY DEF HandleInv, HandleTypes, CreateMap, Goto, Creating
  <2>3. fd' \in [Handles -> 0 .. made] /\ name' \in 0 .. made
    BY DEF HandleInv, HandleTypes, CreateMap, None
  <2> QED
    BY <2>1, <2>2, <2>3, EmptyTyped DEF HandleInv, HandleTypes, CreateMap
<1>2. ASSUME NEW k \in Handles PROVE Shape(k)'
  BY DEF HandleInv, HandleTypes, Shape, CreateMap, Goto, Members, Creating, Attaching, None
<1>3. MoveInv'
  BY DEF HandleInv, HandleTypes, MoveInv, CreateMap, Goto, Members, Creating, Attaching, None
<1> QED
  BY <1>1, <1>2, <1>3 DEF HandleInv

\* The writing of the control block keeps the handles' members consistent.
LEMMA CreateFillHandles ==
  ASSUME HandleInv, NEW h \in Handles, CreateFill(h) PROVE HandleInv'
<1>1. HandleTypes'
  BY EmptyTyped DEF HandleInv, HandleTypes, CreateFill, Goto, Creating, None
<1>2. ASSUME NEW k \in Handles PROVE Shape(k)'
  BY DEF HandleInv, HandleTypes, Shape, CreateFill, Goto, Members, Creating, Attaching, None
<1>3. MoveInv'
  BY DEF HandleInv, HandleTypes, MoveInv, CreateFill, Goto, Members, Creating, Attaching, None
<1> QED
  BY <1>1, <1>2, <1>3 DEF HandleInv

\* The bind() of create() keeps the handles' members consistent.
LEMMA CreateBindHandles ==
  ASSUME HandleInv, NEW h \in Handles, CreateBind(h) PROVE HandleInv'
<1>1. HandleTypes'
  <2>1. hd' \in [Handles -> Members]
    BY ClaimTyped DEF CreateBind
  <2> QED
    BY <2>1 DEF HandleInv, HandleTypes, CreateBind, Goto, Creating
<1>2. ASSUME NEW k \in Handles PROVE Shape(k)'
  BY DEF HandleInv, HandleTypes, Shape, CreateBind, Claim, Goto, Members, Creating, Attaching, None
<1>3. MoveInv'
  BY DEF HandleInv, HandleTypes, MoveInv, CreateBind, Claim, Goto, Members, Creating, Attaching, None
<1> QED
  BY <1>1, <1>2, <1>3 DEF HandleInv

\* The store of ready keeps the handles' members consistent.
LEMMA CreateReadyHandles ==
  ASSUME HandleInv, NEW h \in Handles, CreateReady(h) PROVE HandleInv'
<1>1. HandleTypes'
  BY LifeConstants DEF HandleInv, HandleTypes, Shape, CreateReady, Goto, Members, Creating, Attaching, None, Roles
<1>2. ASSUME NEW k \in Handles PROVE Shape(k)'
  BY DEF HandleInv, HandleTypes, Shape, CreateReady, Goto, Members, Creating, Attaching, None
<1>3. MoveInv'
  BY DEF HandleInv, HandleTypes, MoveInv, CreateReady, Goto, Members, Creating, Attaching, None
<1> QED
  BY <1>1, <1>2, <1>3 DEF HandleInv

\* The call of attach() keeps the handles' members consistent.
LEMMA AttachStartHandles ==
  ASSUME HandleInv, NEW h \in Handles, AttachStart(h) PROVE HandleInv'
<1>1. HandleTypes'
  BY LifeConstants DEF HandleInv, HandleTypes, Shape, AttachStart, AtRest, Goto, Members, Creating, Attaching, None, Roles
<1>2. ASSUME NEW k \in Handles PROVE Shape(k)'
  BY DEF HandleInv, HandleTypes, Shape, AttachStart, AtRest, Goto, Members, Creating, Attaching, None
<1>3. MoveInv'
  BY DEF HandleInv, HandleTypes, MoveInv, AttachStart, AtRest, Goto, Members, Creating, Attaching, None
<1> QED
  BY <1>1, <1>2, <1>3 DEF HandleInv

\* The passing of a deadline keeps the handles' members consistent.
LEMMA DeadlineHandles ==
  ASSUME HandleInv, NEW h \in Handles, Deadline(h) PROVE HandleInv'
<1>1. HandleTypes'
  BY LifeConstants DEF HandleInv, HandleTypes, Shape, Deadline, Members, Creating, Attaching, None, Roles
<1>2. ASSUME NEW k \in Handles PROVE Shape(k)'
  BY DEF HandleInv, HandleTypes, Shape, Deadline, Members, Creating, Attaching, None
<1>3. MoveInv'
  BY DEF HandleInv, HandleTypes, MoveInv, Deadline, Members, Creating, Attaching, None
<1> QED
  BY <1>1, <1>2, <1>3 DEF HandleInv

\* shm_open in create(), done or failed keeps the handles' members consistent.
LEMMA CreateOpenHandles ==
  ASSUME HandleInv, NEW h \in Handles, CreateOpen(h) PROVE HandleInv'
<1>1. CASE Throw(h) /\ UNCHANGED <<made, fd>>
  BY <1>1, ThrowKeepsHandles DEF CreateOpen
<1>2. CASE ~(Throw(h) /\ UNCHANGED <<made, fd>>)
  <2>1. HandleTypes'
    <3>1. /\ made' = made + 1 /\ name' = made' /\ fd' = [fd EXCEPT ![h] = made']
          /\ pc' = [pc EXCEPT ![h] = "c_size"] /\ UNCHANGED <<hd, asked, source, alive>>
      BY <1>2 DEF CreateOpen, Goto
    <3>2. made' \in Nat /\ name' \in 0 .. made' /\ fd' \in [Handles -> 0 .. made']
      BY <3>1 DEF HandleInv, HandleTypes
    <3> QED
      BY <3>1, <3>2 DEF HandleInv, HandleTypes, Creating
  <2>2. ASSUME NEW k \in Handles PROVE Shape(k)'
    BY <1>2 DEF HandleInv, HandleTypes, Shape, CreateOpen, Goto, Members, Creating, Attaching, None
  <2>3. MoveInv'
    BY <1>2 DEF HandleInv, HandleTypes, MoveInv, CreateOpen, Goto, Members, Creating, Attaching, None
  <2> QED
    BY <2>1, <2>2, <2>3 DEF HandleInv
<1> QED
  BY <1>1, <1>2

\* open() in a round of attach() keeps the handles' members consistent.
LEMMA AttachOpenHandles ==
  ASSUME HandleInv, NEW h \in Handles, AttachOpen(h) PROVE HandleInv'
<1>1. CASE Throw(h)
  BY <1>1, ThrowKeepsHandles DEF AttachOpen, Attaching
<1>2. CASE ~Throw(h)
  <2>1. HandleTypes'
    <3>1. hd' \in [Handles -> Members]
      BY <1>2 DEF HandleInv, HandleTypes, AttachOpen, Members
    <3> QED
      BY <1>2, <3>1 DEF HandleInv, HandleTypes, AttachOpen, Goto, Attaching
  <2>2. ASSUME NEW k \in Handles PROVE Shape(k)'
    BY <1>2 DEF HandleInv, HandleTypes, Shape, AttachOpen, CanOpen, Goto, Members, Creating, Attaching, None
  <2>3. MoveInv'
    BY <1>2 DEF HandleInv, HandleTypes, MoveInv, AttachOpen, CanOpen, Goto, Members, Creating, Attaching, None
  <2> QED
    BY <2>1, <2>2, <2>3 DEF HandleInv
<1> QED
  BY <1>1, <1>2

\* attach()'s look at ready keeps the handles' members consistent.
LEMMA AttachReadyHandles ==
  ASSUME HandleInv, NEW h \in Handles, AttachReady(h) PROVE HandleInv'
<1>1. CASE Throw(h)
  BY <1>1, ThrowKeepsHandles DEF AttachReady, Attaching
<1>2. CASE ~Throw(h)
  <2>1. HandleTypes'
    BY <1>2 DEF HandleInv, HandleTypes, AttachReady, Goto, Creating, Attaching
  <2>2. ASSUME NEW k \in Handles PROVE Shape(k)'
    BY <1>2 DEF HandleInv, HandleTypes, Shape, AttachReady, Goto, Members, Creating, Attaching, None
  <2>3. MoveInv'
    BY <1>2 DEF HandleInv, HandleTypes, MoveInv, AttachReady, Goto, Members, Creating, Attaching, None
  <2> QED
    BY <2>1, <2>2, <2>3 DEF HandleInv
<1> QED
  BY <1>1, <1>2

\* validate() and bind() in attach() keeps the handles' members consistent.
LEMMA AttachBindHandles ==
  ASSUME HandleInv, NEW h \in Handles, AttachBind(h) PROVE HandleInv'
<1>1. CASE Throw(h)
  BY <1>1, ThrowKeepsHandles DEF AttachBind, Attaching
<1>2. CASE ~Throw(h)
  <2>1. HandleTypes'
    <3>1. hd' \in [Handles -> Members]
      BY <1>2, ClaimTyped DEF AttachBind
    <3> QED
      BY <1>2, <3>1 DEF HandleInv, HandleTypes, AttachBind, Goto
  <2>2. ASSUME NEW k \in Handles PROVE Shape(k)'
    BY <1>2 DEF HandleInv, HandleTypes, Shape, AttachBind, Claim, Goto, Members, Creating, Attaching, None
  <2>3. MoveInv'
    BY <1>2 DEF HandleInv, HandleTypes, MoveInv, AttachBind, Claim, Goto, Members, Creating, Attaching, None
  <2> QED
    BY <2>1, <2>2, <2>3 DEF HandleInv
<1> QED
  BY <1>1, <1>2

\* The release of the pid slot in detach() keeps the handles' members consistent.
LEMMA DetachHandles ==
  ASSUME HandleInv, NEW h \in Handles, NEW g \in Handles, Detach(h, g) PROVE HandleInv'
<1>1. /\ pc' = [k \in Handles |-> IF k = h THEN "d_reset" ELSE IF k = g THEN "moving" ELSE pc[k]]
      /\ hd' = [hd EXCEPT ![h] = [hd[h] EXCEPT !.ctrl = None, !.bound = FALSE]]
  BY DEF Detach, HandleInv, HandleTypes
<1>2. HandleTypes'
  <2>1. hd' \in [Handles -> Members]
    BY <1>1 DEF HandleInv, HandleTypes, Members, None
  <2> QED
    BY <1>1, <2>1 DEF HandleInv, HandleTypes, Detach
<1>3. ASSUME NEW k \in Handles PROVE Shape(k)'
  BY <1>1 DEF HandleInv, HandleTypes, Shape, Detach, AtRest, Members, None, Attaching
<1>4. MoveInv'
  BY <1>1 DEF HandleInv, HandleTypes, Shape, MoveInv, Detach, AtRest, Members, None
<1> QED
  BY <1>2, <1>3, <1>4 DEF HandleInv

\* The end of detach(), with the swap of a move assignment keeps the handles' members consistent.
LEMMA DetachResetHandles ==
  ASSUME HandleInv, NEW h \in Handles, DetachReset(h) PROVE HandleInv'
<1> DEFINE g == source[h]
<1>1. /\ hd' = [k \in Handles |-> IF k = g THEN Empty ELSE IF k = h THEN hd[g] ELSE hd[k]]
      /\ pc' = [k \in Handles |-> IF k = h \/ k = g THEN "rest" ELSE pc[k]]
      /\ source' = [k \in Handles |-> IF k = h THEN h ELSE source[k]]
      /\ g \in Handles
  BY DEF DetachReset, Swapped, HandleInv, HandleTypes
<1>2. pc[h] = "d_reset" /\ name' = NameAfterReset(h) /\ UNCHANGED <<made, asked, fd, alive>>
  BY DEF DetachReset
<1> HIDE DEF g
<1>7. HandleTypes'
  <2>1. hd' \in [Handles -> Members] /\ source' \in [Handles -> Handles]
    BY <1>1, EmptyTyped DEF HandleInv, HandleTypes
  <2>2. name' \in 0 .. made
    BY <1>2 DEF HandleInv, HandleTypes, NameAfterReset, None
  <2> QED
    BY <1>1, <1>2, <2>1, <2>2 DEF HandleInv, HandleTypes
<1>3. g = h \/ pc[g] = "moving"
  BY DEF g, DetachReset, HandleInv, MoveInv
<1>4. ASSUME NEW k \in Handles PROVE Shape(k)'
  <2>1. CASE k = g
    BY <1>1, <1>2, <1>3, <2>1 DEF HandleInv, HandleTypes, Shape, Empty, None, Attaching
  <2>2. CASE k = h /\ k # g
    BY <1>1, <1>2, <1>3, <2>2 DEF HandleInv, HandleTypes, Shape, Members, None, Attaching
  <2>3. CASE k # h /\ k # g
    BY <1>1, <1>2, <2>3 DEF HandleInv, Shape
  <2> QED
    BY <2>1, <2>2, <2>3
<1>5. ASSUME NEW k \in Handles, k # h, pc[k] = "d_reset" PROVE k # g /\ source[k] # g
  BY <1>3, <1>5 DEF g, HandleInv, MoveInv, DetachReset
<1>6. MoveInv'
  <2> SUFFICES ASSUME NEW k \in Handles
               PROVE  /\ pc'[k] = "d_reset" =>
                           /\ hd'[k].ctrl = None /\ hd'[k].seg # None
                           /\ ProcOf[source'[k]] = ProcOf[k] /\ LayoutOf[source'[k]] = LayoutOf[k]
                           /\ source'[k] # k => pc'[source'[k]] = "moving"
                           /\ \A j \in Handles : pc'[j] = "d_reset" /\ source'[j] = source'[k] => j = k
                      /\ pc'[k] # "d_reset" => source'[k] = k
    BY DEF MoveInv
  <2>1. CASE k = h \/ k = g
    BY <1>1, <1>2, <1>3, <2>1 DEF HandleInv, MoveInv
  <2>2. CASE k # h /\ k # g
    BY <1>1, <1>2, <1>3, <1>5, <2>2 DEF HandleInv, HandleTypes, MoveInv
  <2> QED
    BY <2>1, <2>2
<1> QED
  BY <1>4, <1>6, <1>7 DEF HandleInv

\* A move to an empty handle keeps the handles' members consistent.
LEMMA MoveToEmptyHandles ==
  ASSUME HandleInv, NEW h \in Handles, NEW g \in Handles, MoveToEmpty(h, g) PROVE HandleInv'
<1>1. hd' = [k \in Handles |-> IF k = g THEN hd[h] ELSE IF k = h THEN hd[g] ELSE hd[k]]
  BY DEF MoveToEmpty, Swapped, HandleInv, HandleTypes
<1>2. HandleTypes'
  BY <1>1 DEF HandleInv, HandleTypes, MoveToEmpty
<1>3. ASSUME NEW k \in Handles PROVE Shape(k)'
  BY <1>1 DEF HandleInv, HandleTypes, Shape, MoveToEmpty, AtRest, Members, None, Attaching
<1>4. MoveInv'
  BY <1>1 DEF HandleInv, HandleTypes, MoveInv, MoveToEmpty, AtRest
<1> QED
  BY <1>2, <1>3, <1>4 DEF HandleInv

\* The death of a process keeps the handles' members consistent.
LEMMA DieHandles ==
  ASSUME HandleInv, NEW p \in Procs, Die(p) PROVE HandleInv'
<1>1. HandleTypes'
  BY LifeConstants, GeometryConstants DEF HandleInv, HandleTypes, Die, Members, Empty, Roles, None
<1>2. ASSUME NEW k \in Handles PROVE Shape(k)'
  BY DEF HandleInv, HandleTypes, Shape, Die, Members, Empty, None, Attaching
<1>3. MoveInv'
  BY DEF HandleInv, HandleTypes, MoveInv, Die, Empty
<1> QED
  BY <1>1, <1>2, <1>3 DEF HandleInv


\* Every step keeps the handles' members consistent.
LEMMA HandleStep == HandleInv /\ [Next]_vars => HandleInv'
<1> SUFFICES ASSUME HandleInv, [Next]_vars PROVE HandleInv'
  OBVIOUS
<1>1. CASE UNCHANGED vars
  BY <1>1 DEF vars, HandleInv, HandleTypes, Shape, MoveInv
<1>2. CASE Remove
  BY <1>2 DEF Remove, HandleInv, HandleTypes, Shape, MoveInv, None
<1>3. CASE Next /\ ~Remove
  BY <1>3, CreateUnlinkHandles, CreateOpenHandles, CreateSizeHandles, CreateMapHandles,
     CreateFillHandles, CreateBindHandles, CreateReadyHandles, AttachStartHandles,
     DeadlineHandles, AttachOpenHandles, AttachReadyHandles, AttachBindHandles,
     DetachHandles, DetachResetHandles, MoveToEmptyHandles, DieHandles DEF Next
<1> QED
  BY <1>1, <1>2, <1>3

-----------------------------------------------------------------------------
(* The name. *)

\* Only an owner, or a handle inside create(), has an object of its own.
LEMMA MineFacts ==
  ASSUME HandleInv, NEW h \in Handles
  PROVE  /\ Mine(h) \in 0 .. made
         /\ Mine(h) # None => Acts(h)
         /\ hd[h].owner => Mine(h) = hd[h].seg /\ hd[h].seg # None
BY DEF HandleInv, HandleTypes, Shape, Mine, Acts, Creating, None

\* Steps that give no handle an object: those that take one away from a handle
\* also take the name away, or end a process.
LEMMA NameKept ==
  ASSUME HandleInv, NameInv, contested' = contested,
         \A k \in Handles : Mine(k)' \in {None, Mine(k)} /\ (Acts(k)' => Acts(k)),
         name' = name \/ \E h \in Handles : Acts(h) /\ Mine(h)' = None,
         \/ name' = None
         \/ name' = name /\ (alive' = Procs => alive = Procs /\ \A k \in Handles : Mine(k)' = Mine(k))
  PROVE  NameInv'
<1>1. (\A g, h \in Handles : Mine(g) # None /\ Mine(g) = Mine(h) => g = h)'
  BY DEF NameInv, None
<1>2. ASSUME ~contested, NEW k \in Handles, Mine(k)' # None PROVE name' = Mine(k)'
  BY <1>2, MineFacts DEF NameInv
<1> QED
  BY <1>1, <1>2 DEF NameInv, None

\* The destructor run by an exception keeps what is known of the name and its owner.
LEMMA ThrowName ==
  ASSUME HandleInv, NameInv, NEW h \in Handles, pc[h] \in {"c_open"} \cup Attaching, Throw(h),
         UNCHANGED <<made, fd, source, alive, contested>>
  PROVE  NameInv'
<1>1. name' = name /\ ~hd[h].owner
  BY ThrowHarmless
<1>2. \A k \in Handles : Mine(k)' = Mine(k) /\ (Acts(k)' => Acts(k))
  BY <1>1 DEF Throw, Goto, Mine, Acts, Empty, Creating, HandleInv, HandleTypes
<1> QED
  BY <1>1, <1>2, NameKept

\* The writing of the control block keeps what is known of the name and its owner.
LEMMA CreateFillName ==
  ASSUME HandleInv, NameInv, NEW h \in Handles, CreateFill(h) PROVE NameInv'
<1>1. \A k \in Handles : Mine(k)' = Mine(k) /\ (Acts(k)' => Acts(k))
  BY DEF CreateFill, Goto, Mine, Acts, Creating, HandleInv, HandleTypes, Members
<1>2. UNCHANGED <<name, alive, contested>>
  BY DEF CreateFill
<1> QED
  BY <1>1, <1>2, NameKept

\* The bind() of create() keeps what is known of the name and its owner.
LEMMA CreateBindName ==
  ASSUME HandleInv, NameInv, NEW h \in Handles, CreateBind(h) PROVE NameInv'
<1>1. \A k \in Handles : Mine(k)' = Mine(k) /\ (Acts(k)' => Acts(k))
  BY DEF CreateBind, Claim, Goto, Mine, Acts, Creating, HandleInv, HandleTypes, Members
<1>2. UNCHANGED <<name, alive, contested>>
  BY DEF CreateBind
<1> QED
  BY <1>1, <1>2, NameKept

\* The store of ready keeps what is known of the name and its owner.
LEMMA CreateReadyName ==
  ASSUME HandleInv, NameInv, NEW h \in Handles, CreateReady(h) PROVE NameInv'
<1>1. \A k \in Handles : Mine(k)' = Mine(k) /\ (Acts(k)' => Acts(k))
  BY DEF CreateReady, Goto, Mine, Acts, Creating, HandleInv, HandleTypes, Members, Shape
<1>2. UNCHANGED <<name, alive, contested>>
  BY DEF CreateReady
<1> QED
  BY <1>1, <1>2, NameKept

\* The call of attach() keeps what is known of the name and its owner.
LEMMA AttachStartName ==
  ASSUME HandleInv, NameInv, NEW h \in Handles, AttachStart(h) PROVE NameInv'
<1>1. \A k \in Handles : Mine(k)' = Mine(k) /\ (Acts(k)' => Acts(k))
  BY DEF AttachStart, Goto, Mine, Acts, Creating, HandleInv, HandleTypes, Members
<1>2. UNCHANGED <<name, alive, contested>>
  BY DEF AttachStart
<1> QED
  BY <1>1, <1>2, NameKept

\* The passing of a deadline keeps what is known of the name and its owner.
LEMMA DeadlineName ==
  ASSUME HandleInv, NameInv, NEW h \in Handles, Deadline(h) PROVE NameInv'
<1>1. \A k \in Handles : Mine(k)' = Mine(k) /\ (Acts(k)' => Acts(k))
  BY DEF Deadline, Mine, Acts, Creating, HandleInv, HandleTypes, Members
<1>2. UNCHANGED <<name, alive, contested>>
  BY DEF Deadline
<1> QED
  BY <1>1, <1>2, NameKept

\* The release of the pid slot in detach() keeps what is known of the name and its owner.
LEMMA DetachName ==
  ASSUME HandleInv, NameInv, NEW h \in Handles, NEW g \in Handles, Detach(h, g) PROVE NameInv'
<1>1. \A k \in Handles : Mine(k)' = Mine(k) /\ (Acts(k)' => Acts(k))
  BY DEF Detach, AtRest, Mine, Acts, Creating, HandleInv, HandleTypes, Members, Shape
<1>2. UNCHANGED <<name, alive, contested>>
  BY DEF Detach
<1> QED
  BY <1>1, <1>2, NameKept

\* open() in a round of attach() keeps what is known of the name and its owner.
LEMMA AttachOpenName ==
  ASSUME HandleInv, NameInv, NEW h \in Handles, AttachOpen(h) PROVE NameInv'
<1>1. CASE Throw(h)
  BY <1>1, ThrowName DEF AttachOpen, Attaching
<1>2. CASE ~Throw(h)
  <2>1. \A k \in Handles : Mine(k)' = Mine(k) /\ (Acts(k)' => Acts(k))
    BY <1>2 DEF AttachOpen, CanOpen, Goto, Mine, Acts, Creating, Attaching, HandleInv, HandleTypes, Members, Shape
  <2>2. UNCHANGED <<name, alive, contested>>
    BY <1>2 DEF AttachOpen
  <2> QED
    BY <2>1, <2>2, NameKept
<1> QED
  BY <1>1, <1>2

\* attach()'s look at ready keeps what is known of the name and its owner.
LEMMA AttachReadyName ==
  ASSUME HandleInv, NameInv, NEW h \in Handles, AttachReady(h) PROVE NameInv'
<1>1. CASE Throw(h)
  BY <1>1, ThrowName DEF AttachReady, Attaching
<1>2. CASE ~Throw(h)
  <2>1. \A k \in Handles : Mine(k)' = Mine(k) /\ (Acts(k)' => Acts(k))
    BY <1>2 DEF AttachReady, Goto, Mine, Acts, Creating, Attaching, HandleInv, HandleTypes, Members, Shape
  <2>2. UNCHANGED <<name, alive, contested>>
    BY <1>2 DEF AttachReady
  <2> QED
    BY <2>1, <2>2, NameKept
<1> QED
  BY <1>1, <1>2

\* validate() and bind() in attach() keeps what is known of the name and its owner.
LEMMA AttachBindName ==
  ASSUME HandleInv, NameInv, NEW h \in Handles, AttachBind(h) PROVE NameInv'
<1>1. CASE Throw(h)
  BY <1>1, ThrowName DEF AttachBind, Attaching
<1>2. CASE ~Throw(h)
  <2>1. /\ hd' = [hd EXCEPT ![h].bound = TRUE, ![h].role = RoleOf[h]]
        /\ pc' = [pc EXCEPT ![h] = "rest"]
        /\ UNCHANGED <<name, fd, alive, contested>>
    BY <1>2 DEF AttachBind, Claim, Goto
  <2>2. \A k \in Handles : Mine(k)' = Mine(k) /\ (Acts(k)' => Acts(k))
    BY <2>1 DEF Mine, Acts, Creating, HandleInv, HandleTypes, Members
  <2> QED
    BY <2>1, <2>2, NameKept
<1> QED
  BY <1>1, <1>2

\* create()'s unlink of the name keeps what is known of the name and its owner.
LEMMA CreateUnlinkName ==
  ASSUME HandleInv, NameInv, NEW h \in Handles, CreateUnlink(h) PROVE NameInv'
<1>1. \A k \in Handles : Mine(k)' = Mine(k) /\ (Acts(k)' => Acts(k) \/ k = h)
  BY DEF CreateUnlink, Goto, Mine, Acts, Creating, HandleInv, HandleTypes
<1>2. name' = None
  BY DEF CreateUnlink
<1>3. ASSUME ~contested' PROVE \A k \in Handles : ~Acts(k) /\ Mine(k) = None
  BY <1>3, MineFacts DEF CreateUnlink, Acts
<1> QED
  BY <1>1, <1>2, <1>3 DEF NameInv

\* shm_open in create(), done or failed keeps what is known of the name and its owner.
LEMMA CreateOpenName ==
  ASSUME HandleInv, NameInv, NEW h \in Handles, CreateOpen(h) PROVE NameInv'
<1>1. CASE Throw(h) /\ UNCHANGED <<made, fd>>
  BY <1>1, ThrowName DEF CreateOpen
<1>2. CASE ~(Throw(h) /\ UNCHANGED <<made, fd>>)
  <2>1. /\ made' = made + 1 /\ name' = made' /\ fd' = [fd EXCEPT ![h] = made']
        /\ pc[h] = "c_open" /\ pc' = [pc EXCEPT ![h] = "c_size"]
        /\ UNCHANGED <<hd, alive, contested>>
    BY <1>2 DEF CreateOpen, Goto
  <2>2. made \in Nat
    BY DEF HandleInv, HandleTypes
  <2>3. Acts(h) /\ \A k \in Handles : Acts(k)' => Acts(k)
    BY <2>1 DEF Acts, Creating, HandleInv, HandleTypes
  <2>4. Mine(h)' = made + 1 /\ \A k \in Handles : k # h => Mine(k)' = Mine(k)
    BY <2>1, <2>2 DEF Mine, None, HandleInv, HandleTypes
  <2> QED
    BY <2>1, <2>2, <2>3, <2>4, MineFacts DEF NameInv, None
<1> QED
  BY <1>1, <1>2

\* ftruncate in create(), done or failed keeps what is known of the name and its owner.
LEMMA CreateSizeName ==
  ASSUME HandleInv, NameInv, NEW h \in Handles, CreateSize(h) PROVE NameInv'
<1>1. hd[h].seg = None /\ ~hd[h].owner /\ Acts(h)
  BY DEF CreateSize, HandleInv, Shape, Acts, Creating
<1>2. CASE UNCHANGED <<name, fd>>
  <2>1. \A k \in Handles : Mine(k)' = Mine(k) /\ (Acts(k)' => Acts(k))
    BY <1>1, <1>2 DEF CreateSize, Goto, Mine, Acts, Creating, HandleInv, HandleTypes
  <2> QED
    BY <1>2, <2>1, NameKept DEF CreateSize
<1>3. CASE name' = None /\ fd' = [fd EXCEPT ![h] = None] /\ pc' = [pc EXCEPT ![h] = "rest"]
  <2>1. Mine(h)' = None /\ \A k \in Handles : k # h => Mine(k)' = Mine(k)
    BY <1>1, <1>3 DEF CreateSize, Mine, HandleInv, HandleTypes
  <2>2. \A k \in Handles : Acts(k)' => Acts(k)
    BY <1>1, <1>3 DEF CreateSize, Acts, Creating, HandleInv, HandleTypes
  <2> QED
    BY <1>1, <1>3, <2>1, <2>2, NameKept DEF CreateSize
<1> QED
  BY <1>2, <1>3 DEF CreateSize, Goto

\* mmap in create(), done or failed keeps what is known of the name and its owner.
LEMMA CreateMapName ==
  ASSUME HandleInv, NameInv, NEW h \in Handles, CreateMap(h) PROVE NameInv'
<1>1. ~hd[h].owner /\ Acts(h) /\ fd[h] # None /\ fd' = [fd EXCEPT ![h] = None]
  BY DEF CreateMap, HandleInv, Shape, Acts, Creating
<1>2. \A k \in Handles : Acts(k)' => Acts(k)
  BY <1>1 DEF CreateMap, Goto, Acts, Creating, HandleInv, HandleTypes, Members
<1>3. CASE name' = name /\ hd' = [hd EXCEPT ![h].seg = fd[h], ![h].owner = TRUE, ![h].ctrl = fd[h]]
  <2>1. \A k \in Handles : Mine(k)' = Mine(k)
    BY <1>1, <1>3 DEF Mine, HandleInv, HandleTypes, Members
  <2> QED
    BY <1>2, <1>3, <2>1, NameKept DEF CreateMap
<1>4. CASE name' = None /\ UNCHANGED hd
  <2>1. Mine(h)' = None /\ \A k \in Handles : k # h => Mine(k)' = Mine(k)
    BY <1>1, <1>4 DEF Mine, HandleInv, HandleTypes
  <2> QED
    BY <1>1, <1>2, <1>4, <2>1, NameKept DEF CreateMap
<1> QED
  BY <1>3, <1>4 DEF CreateMap

\* The death of a process keeps what is known of the name and its owner.
LEMMA DieName ==
  ASSUME HandleInv, NameInv, NEW p \in Procs, Die(p) PROVE NameInv'
<1>1. \A k \in Handles : Mine(k)' \in {None, Mine(k)} /\ (Acts(k)' => Acts(k))
  BY DEF Die, Mine, Acts, Creating, Empty, None, HandleInv, HandleTypes
<1>2. UNCHANGED <<name, contested>> /\ alive' # Procs
  BY DEF Die
<1> QED
  BY <1>1, <1>2, NameKept

\* A handle h takes over what g has, and g is left with nothing.
LEMMA NameMoves ==
  ASSUME HandleInv, NameInv, NEW h \in Handles, NEW g \in Handles, h # g,
         UNCHANGED <<alive, contested>>,
         Mine(h)' = Mine(g) /\ (Acts(h)' => Acts(g)) /\ Mine(g)' = None /\ ~Acts(g)',
         \A k \in Handles \ {g, h} : Mine(k)' = Mine(k) /\ (Acts(k)' => Acts(k)),
         name' = IF hd[h].owner THEN None ELSE name,
         ~hd[h].owner => Mine(h) = None
  PROVE  NameInv'
<1>1. (\A j, k \in Handles : Mine(j) # None /\ Mine(j) = Mine(k) => j = k)'
  BY DEF NameInv
<1>2. ASSUME ~contested PROVE (\A j, k \in Handles : Acts(j) /\ Acts(k) => j = k)'
  BY <1>2 DEF NameInv
<1>3. ASSUME ~contested, NEW k \in Handles, Mine(k)' # None PROVE name' = Mine(k)'
  <2>1. CASE hd[h].owner
    BY <1>3, <2>1, MineFacts DEF NameInv, Acts
  <2>2. CASE ~hd[h].owner
    BY <1>3, <2>2 DEF NameInv
  <2> QED
    BY <2>1, <2>2
<1>4. ASSUME alive' = Procs, name' # None PROVE \E k \in Handles : Mine(k)' = name'
  BY <1>4 DEF NameInv
<1> QED
  BY <1>1, <1>2, <1>3, <1>4 DEF NameInv

\* The end of detach(), with the swap of a move assignment keeps what is known of the name and its owner.
LEMMA DetachResetName ==
  ASSUME HandleInv, NameInv, NEW h \in Handles, DetachReset(h) PROVE NameInv'
<1>0. PICK g \in Handles : g = source[h]
  BY DEF HandleInv, HandleTypes
<1>1. /\ hd' = [k \in Handles |-> IF k = g THEN Empty ELSE IF k = h THEN hd[g] ELSE hd[k]]
      /\ pc' = [k \in Handles |-> IF k = h \/ k = g THEN "rest" ELSE pc[k]]
  BY <1>0 DEF DetachReset, Swapped, HandleInv, HandleTypes
<1>2. /\ pc[h] = "d_reset" /\ name' = IF hd[h].owner THEN None ELSE name
      /\ UNCHANGED <<fd, alive, contested>>
  BY DEF DetachReset, NameAfterReset
<1>3. g = h \/ pc[g] = "moving"
  BY <1>0 DEF DetachReset, HandleInv, MoveInv
<1>4. fd[h] = None /\ fd[g] = None
  BY <1>1, <1>2, <1>3 DEF HandleInv, Shape
<1>5. Mine(g)' = None /\ ~Acts(g)'
  BY <1>1, <1>2, <1>4 DEF Mine, Acts, Empty, Creating
<1>6. \A k \in Handles \ {g, h} : Mine(k)' = Mine(k) /\ (Acts(k)' => Acts(k))
  BY <1>1, <1>2 DEF Mine, Acts
<1>7. ~hd[h].owner => Mine(h) = None
  BY <1>4 DEF Mine
<1>8. CASE g = h
  BY <1>1, <1>2, <1>5, <1>6, <1>7, <1>8, NameKept DEF Acts
<1>9. CASE g # h
  <2>1. Mine(h)' = Mine(g) /\ (Acts(h)' => Acts(g))
    BY <1>1, <1>2, <1>4, <1>9 DEF Mine, Acts, Creating
  <2> QED
    BY <1>1, <1>2, <1>5, <1>6, <1>7, <1>9, <2>1, NameMoves
<1> QED
  BY <1>8, <1>9

\* A move to an empty handle keeps what is known of the name and its owner.
LEMMA MoveToEmptyName ==
  ASSUME HandleInv, NameInv, NEW h \in Handles, NEW g \in Handles, MoveToEmpty(h, g) PROVE NameInv'
<1>1. /\ hd' = [k \in Handles |-> IF k = g THEN hd[h] ELSE IF k = h THEN hd[g] ELSE hd[k]]
      /\ UNCHANGED <<name, pc, fd, alive, contested>>
      /\ pc[h] = "rest" /\ pc[g] = "rest" /\ hd[h].seg = None /\ h # g
  BY DEF MoveToEmpty, AtRest, Swapped, HandleInv, HandleTypes
<1>2. fd[h] = None /\ fd[g] = None /\ ~hd[h].owner
  BY <1>1 DEF HandleInv, Shape
<1>3. Mine(h) = None /\ Mine(h)' = Mine(g) /\ (Acts(h)' => Acts(g)) /\ Mine(g)' = None /\ ~Acts(g)'
  BY <1>1, <1>2 DEF Mine, Acts, Creating
<1>4. \A k \in Handles \ {g, h} : Mine(k)' = Mine(k) /\ (Acts(k)' => Acts(k))
  BY <1>1 DEF Mine, Acts
<1> QED
  BY <1>1, <1>2, <1>3, <1>4, NameMoves

\* At first there is no name.
LEMMA NameInit == Init => NameInv
BY DEF Init, NameInv, Mine, Acts, Empty, Creating, None

\* Every step keeps what is known of the name and its owner.
LEMMA NameStep == HandleInv /\ NameInv /\ [Next]_vars => NameInv'
<1> SUFFICES ASSUME HandleInv, NameInv, [Next]_vars PROVE NameInv'
  OBVIOUS
<1>1. CASE UNCHANGED vars
  BY <1>1 DEF vars, NameInv, Mine, Acts
<1>2. CASE Remove
  BY <1>2 DEF Remove, NameInv, Mine, Acts
<1>3. CASE Next /\ ~Remove
  BY <1>3, CreateUnlinkName, CreateOpenName, CreateSizeName, CreateMapName,
     CreateFillName, CreateBindName, CreateReadyName, AttachStartName,
     DeadlineName, AttachOpenName, AttachReadyName, AttachBindName,
     DetachName, DetachResetName, MoveToEmptyName, DieName DEF Next
<1> QED
  BY <1>1, <1>2, <1>3


-----------------------------------------------------------------------------
(* The objects. *)

\* Where the object of a create() in progress is.
LEMMA ObjPlaces ==
  ASSUME HandleInv, NEW h \in Handles
  PROVE  /\ hd[h].ctrl \in 0 .. made
         /\ pc[h] \in Creating \ {"c_open"} => Mine(h) \in 1 .. made
         /\ pc[h] \in {"c_size", "c_map"} => Mine(h) = fd[h]
         /\ pc[h] \in {"c_fill", "c_bind", "c_ready"} =>
              Mine(h) = hd[h].ctrl /\ hd[h].ctrl = hd[h].seg /\ hd[h].owner
BY DEF HandleInv, HandleTypes, Shape, Mine, None, Creating, Members

\* The control block of a bound handle, or of one at bind(), is the start of its segment.
LEMMA CtrlPlaces ==
  ASSUME HandleInv, NEW k \in Handles
  PROVE  hd[k].bound \/ pc[k] = "a_bind" => hd[k].ctrl \in 1 .. made /\ hd[k].ctrl = hd[k].seg
<1>1. Shape(k) /\ made \in Nat
  BY DEF HandleInv, HandleTypes
<1>2. hd[k].bound \/ pc[k] = "a_bind" => hd[k].ctrl # None
  BY <1>1 DEF Shape, Attaching
<1> QED
  BY <1>1, <1>2 DEF Shape, None

\* A handle that a step leaves alone, and whose object it does not spoil.
LEMMA Untouched ==
  ASSUME HandleInv, NEW k \in Handles, ObjOf(k),
         pc'[k] = pc[k], hd'[k] = hd[k], fd'[k] = fd[k], asked'[k] = asked[k],
         pc[k] \in Creating \ {"c_open"} =>
           /\ obj'[Mine(k)].geo = obj[Mine(k)].geo /\ obj'[Mine(k)].bytes = obj[Mine(k)].bytes
           /\ obj'[Mine(k)].ready = obj[Mine(k)].ready,
         pc[k] \in Creating \ {"c_open", "c_ready"} => obj'[Mine(k)].pid = obj[Mine(k)].pid,
         pc[k] = "a_bind" => (obj[hd[k].ctrl].ready => obj'[hd[k].ctrl].ready),
         hd[k].bound => /\ obj'[hd[k].ctrl].geo = obj[hd[k].ctrl].geo
                        /\ obj'[hd[k].ctrl].bytes = obj[hd[k].ctrl].bytes
                        /\ \A r \in Roles : obj[hd[k].ctrl].pid[r] # 0 => obj'[hd[k].ctrl].pid[r] # 0
  PROVE  ObjOf(k)'
<1>1. Mine(k)' = Mine(k) /\ BytesAsked(k)' = BytesAsked(k)
  BY DEF Mine, BytesAsked
<1>2. pc[k] \in {"c_size", "c_map", "c_fill", "c_bind"} => Fresh(Mine(k))'
  BY <1>1 DEF ObjOf, Fresh, Creating
<1> QED
  BY <1>1, <1>2 DEF ObjOf, Creating

\* A handle at rest, moving or being reset, whose object has not changed.
LEMMA OnlyBound ==
  ASSUME NEW k \in Handles, pc'[k] \in {"rest", "moving", "d_reset", "a_open", "a_ready", "a_last"},
         hd'[k].bound => /\ obj'[hd'[k].ctrl].geo.layout = LayoutOf[k]
                         /\ GeoFits(obj'[hd'[k].ctrl].geo, obj'[hd'[k].ctrl].bytes)
                         /\ \E r \in Roles : obj'[hd'[k].ctrl].pid[r] # 0
  PROVE  ObjOf(k)'
BY DEF ObjOf

\* A step on handle h that changes no object.
LEMMA ObjsSame ==
  ASSUME HandleInv, ObjInv, NEW h \in Handles, ObjOf(h)', UNCHANGED <<obj, made>>,
         \A k \in Handles \ {h} : /\ pc'[k] = pc[k] /\ hd'[k] = hd[k]
                                  /\ fd'[k] = fd[k] /\ asked'[k] = asked[k]
  PROVE  ObjInv'
<1>1. ASSUME NEW k \in Handles, k # h PROVE ObjOf(k)'
  BY <1>1, Untouched DEF ObjInv
<1> QED
  BY <1>1 DEF ObjInv, ReadyInv

\* The destructor run by an exception keeps the objects' contents right.
LEMMA ThrowObjs ==
  ASSUME HandleInv, ObjInv, NEW h \in Handles, pc[h] \in {"c_open"} \cup Attaching, Throw(h),
         UNCHANGED <<made, fd, source, alive, contested>>
  PROVE  ObjInv'
<1>1. obj' = obj
  BY ThrowHarmless
<1>2. ObjOf(h)'
  BY OnlyBound DEF Throw, Goto, Empty, HandleInv, HandleTypes
<1>3. \A k \in Handles \ {h} : /\ pc'[k] = pc[k] /\ hd'[k] = hd[k]
                              /\ fd'[k] = fd[k] /\ asked'[k] = asked[k]
  BY DEF Throw, Goto, HandleInv, HandleTypes
<1> QED
  BY <1>1, <1>2, <1>3, ObjsSame

\* create()'s unlink of the name keeps the objects' contents right.
LEMMA CreateUnlinkObjs ==
  ASSUME HandleInv, ObjInv, NEW h \in Handles, CreateUnlink(h) PROVE ObjInv'
<1>1. PICK c \in Requested : ~Overflows(Capacity(c), LayoutOf[h].size) /\ asked' = [asked EXCEPT ![h] = c]
  BY DEF CreateUnlink
<1>2. pc' = [pc EXCEPT ![h] = "c_open"] /\ UNCHANGED <<obj, made, hd, fd>> /\ ~hd[h].bound
  BY DEF CreateUnlink, Goto, HandleInv, Shape
<1>3. ObjOf(h)'
  BY <1>1, <1>2 DEF ObjOf, HandleInv, HandleTypes
<1> QED
  BY <1>1, <1>2, <1>3, ObjsSame DEF HandleInv, HandleTypes

\* shm_open in create(), done or failed keeps the objects' contents right.
LEMMA CreateOpenObjs ==
  ASSUME HandleInv, ObjInv, NEW h \in Handles, CreateOpen(h) PROVE ObjInv'
<1>1. CASE Throw(h) /\ UNCHANGED <<made, fd>>
  BY <1>1, ThrowObjs DEF CreateOpen
<1>2. CASE ~(Throw(h) /\ UNCHANGED <<made, fd>>)
  <2>1. /\ made' = made + 1 /\ fd' = [fd EXCEPT ![h] = made']
        /\ obj' = [o \in 1 .. made' |-> IF o = made' THEN NewObj ELSE obj[o]]
        /\ pc[h] = "c_open" /\ pc' = [pc EXCEPT ![h] = "c_size"]
        /\ UNCHANGED <<hd, asked>>
    BY <1>2 DEF CreateOpen, Goto
  <2>2. made \in Nat
    BY DEF HandleInv, HandleTypes
  <2>3. NewObj \in Objs
    BY DEF NewObj, Blank, Objs, Geos, Layouts
  <2>4. obj' \in [1 .. made' -> Objs] /\ \A o \in 1 .. made : obj'[o] = obj[o]
    BY <2>1, <2>2, <2>3 DEF ObjInv
  <2>5. obj'[made'] = NewObj
    BY <2>1, <2>2
  <2>6. ReadyInv'
    BY <2>1, <2>2, <2>4, <2>5 DEF ObjInv, ReadyInv, NewObj
  <2>7. ObjOf(h)'
    <3>1. Mine(h)' = made' /\ ~hd[h].bound
      BY <2>1, <2>2 DEF Mine, None, HandleInv, HandleTypes, Shape
    <3>2. pc'[h] = "c_size" /\ hd'[h] = hd[h] /\ asked'[h] = asked[h]
      BY <2>1 DEF HandleInv, HandleTypes
    <3>3. /\ obj'[made'].geo = Blank /\ ~obj'[made'].ready
          /\ \A r \in Roles : obj'[made'].pid[r] = 0
      <4>1. NewObj.geo = Blank /\ ~NewObj.ready /\ \A r \in Roles : NewObj.pid[r] = 0
        BY DEF NewObj
      <4> QED
        BY <2>5, <4>1
    <3>4. ~Overflows(Capacity(asked[h]), LayoutOf[h].size)
      BY <2>1 DEF ObjInv, ObjOf
    <3> QED
      BY <3>1, <3>2, <3>3, <3>4 DEF ObjOf, Fresh
  <2>8. ASSUME NEW k \in Handles, k # h PROVE ObjOf(k)'
    <3>1. hd[k].ctrl \in 0 .. made /\ (pc[k] \in Creating \ {"c_open"} => Mine(k) \in 1 .. made)
      BY ObjPlaces
    <3>2. hd[k].bound \/ pc[k] = "a_bind" => hd[k].ctrl \in 1 .. made
      BY CtrlPlaces
    <3> QED
      BY <2>1, <2>4, <2>8, <3>1, <3>2, Untouched DEF ObjInv, HandleInv, HandleTypes
  <2> QED
    BY <2>4, <2>6, <2>7, <2>8 DEF ObjInv
<1> QED
  BY <1>1, <1>2

\* mmap in create(), done or failed keeps the objects' contents right.
LEMMA CreateMapObjs ==
  ASSUME HandleInv, ObjInv, NEW h \in Handles, CreateMap(h) PROVE ObjInv'
<1>1. /\ pc[h] = "c_map" /\ UNCHANGED <<obj, made>> /\ ~hd[h].bound /\ ~hd[h].owner
      /\ fd[h] # None /\ fd' = [fd EXCEPT ![h] = None]
  BY DEF CreateMap, HandleInv, Shape
<1>2. \A k \in Handles \ {h} : /\ pc'[k] = pc[k] /\ hd'[k] = hd[k]
                              /\ fd'[k] = fd[k] /\ asked'[k] = asked[k]
  BY DEF CreateMap, Goto, HandleInv, HandleTypes
<1>3. ObjOf(h)'
  <2>1. CASE /\ hd' = [hd EXCEPT ![h].seg = fd[h], ![h].owner = TRUE, ![h].ctrl = fd[h]]
             /\ pc' = [pc EXCEPT ![h] = "c_fill"] /\ UNCHANGED asked
    <3>1. Mine(h)' = Mine(h) /\ ~hd'[h].bound /\ BytesAsked(h)' = BytesAsked(h)
      BY <1>1, <2>1 DEF Mine, BytesAsked, HandleInv, HandleTypes, Members
    <3>2. pc'[h] = "c_fill" /\ asked'[h] = asked[h] /\ obj' = obj
      BY <1>1, <2>1 DEF HandleInv, HandleTypes
    <3>3. ObjOf(h)
      BY DEF ObjInv
    <3> QED
      BY <1>1, <3>1, <3>2, <3>3 DEF ObjOf, Fresh
  <2>2. CASE pc' = [pc EXCEPT ![h] = "rest"] /\ UNCHANGED hd
    BY <1>1, <2>2, OnlyBound DEF HandleInv, HandleTypes
  <2> QED
    BY <2>1, <2>2 DEF CreateMap, Goto
<1> QED
  BY <1>1, <1>2, <1>3, ObjsSame

\* The call of attach() keeps the objects' contents right.
LEMMA AttachStartObjs ==
  ASSUME HandleInv, ObjInv, NEW h \in Handles, AttachStart(h) PROVE ObjInv'
<1>1. pc' = [pc EXCEPT ![h] = "a_open"] /\ UNCHANGED <<obj, made, hd, fd, asked>> /\ ~hd[h].bound
  BY DEF AttachStart, Goto, HandleInv, Shape
<1>2. ObjOf(h)'
  BY <1>1, OnlyBound DEF HandleInv, HandleTypes
<1> QED
  BY <1>1, <1>2, ObjsSame DEF HandleInv, HandleTypes

\* The passing of a deadline keeps the objects' contents right.
LEMMA DeadlineObjs ==
  ASSUME HandleInv, ObjInv, NEW h \in Handles, Deadline(h) PROVE ObjInv'
<1>1. UNCHANGED <<obj, made, hd, pc, fd, asked>>
  BY DEF Deadline
<1>2. ObjOf(h)'
  BY <1>1, Untouched DEF ObjInv
<1> QED
  BY <1>1, <1>2, ObjsSame

\* open() in a round of attach() keeps the objects' contents right.
LEMMA AttachOpenObjs ==
  ASSUME HandleInv, ObjInv, NEW h \in Handles, AttachOpen(h) PROVE ObjInv'
<1>1. CASE Throw(h)
  BY <1>1, ThrowObjs DEF AttachOpen, Attaching
<1>2. CASE ~Throw(h)
  <2>1. UNCHANGED <<obj, made, fd, asked>> /\ ~hd[h].bound
    BY <1>2 DEF AttachOpen, HandleInv, Shape, Attaching
  <2>2. /\ pc'[h] \in {"a_open", "a_ready", "a_last"} /\ ~hd'[h].bound
        /\ \A k \in Handles \ {h} : pc'[k] = pc[k] /\ hd'[k] = hd[k]
    BY <1>2, <2>1 DEF AttachOpen, Goto, HandleInv, HandleTypes, Members
  <2>3. ObjOf(h)'
    BY <2>2, OnlyBound
  <2> QED
    BY <2>1, <2>2, <2>3, ObjsSame
<1> QED
  BY <1>1, <1>2

\* attach()'s look at ready keeps the objects' contents right.
LEMMA AttachReadyObjs ==
  ASSUME HandleInv, ObjInv, NEW h \in Handles, AttachReady(h) PROVE ObjInv'
<1>1. CASE Throw(h)
  BY <1>1, ThrowObjs DEF AttachReady, Attaching
<1>2. CASE ~Throw(h)
  <2>1. UNCHANGED <<obj, made, hd, fd, asked>> /\ ~hd[h].bound
    BY <1>2 DEF AttachReady, HandleInv, Shape, Attaching
  <2>2. \/ obj[hd[h].ctrl].ready /\ pc' = [pc EXCEPT ![h] = "a_bind"]
        \/ pc' = [pc EXCEPT ![h] = "a_open"]
    BY <1>2 DEF AttachReady, Goto
  <2>3. ObjOf(h)'
    BY <2>1, <2>2 DEF ObjOf, HandleInv, HandleTypes
  <2> QED
    BY <2>1, <2>2, <2>3, ObjsSame DEF HandleInv, HandleTypes
<1> QED
  BY <1>1, <1>2


\* The object of a create() in progress is nobody else's, up to its bind().
LEMMA Alone ==
  ASSUME HandleInv, NameInv, ObjInv, NEW h \in Handles, NEW k \in Handles, k # h,
         pc[h] \in {"c_size", "c_map", "c_fill", "c_bind"}
  PROVE  /\ pc[k] \in Creating \ {"c_open"} => Mine(k) # Mine(h)
         /\ pc[k] = "a_bind" => hd[k].ctrl # Mine(h)
         /\ hd[k].bound => hd[k].ctrl # Mine(h)
<1>1. Fresh(Mine(h))
  BY DEF ObjInv, ObjOf
<1>2. Mine(h) # None
  BY ObjPlaces DEF Creating, None, HandleInv, HandleTypes
<1>3. pc[k] = "a_bind" => obj[hd[k].ctrl].ready
  BY DEF ObjInv, ObjOf
<1>4. hd[k].bound => \E r \in Roles : obj[hd[k].ctrl].pid[r] # 0
  BY DEF ObjInv, ObjOf
<1> QED
  BY <1>1, <1>2, <1>3, <1>4 DEF Fresh, NameInv

\* So the creator may change it.
LEMMA ObjMade ==
  ASSUME HandleInv, NameInv, ObjInv, NEW h \in Handles, ObjOf(h)',
         pc[h] \in {"c_size", "c_map", "c_fill", "c_bind"},
         made' = made, obj' \in [1 .. made -> Objs], ~obj'[Mine(h)].ready,
         \A o \in 1 .. made : o # Mine(h) => obj'[o] = obj[o],
         \A k \in Handles \ {h} : /\ pc'[k] = pc[k] /\ hd'[k] = hd[k]
                                  /\ fd'[k] = fd[k] /\ asked'[k] = asked[k]
  PROVE  ObjInv'
<1>1. ASSUME NEW k \in Handles, k # h PROVE ObjOf(k)'
  <2>1. hd[k].ctrl \in 0 .. made /\ (pc[k] \in Creating \ {"c_open"} => Mine(k) \in 1 .. made)
    BY ObjPlaces
  <2>2. hd[k].bound \/ pc[k] = "a_bind" => hd[k].ctrl \in 1 .. made
    BY CtrlPlaces
  <2>3. /\ pc[k] \in Creating \ {"c_open"} => obj'[Mine(k)] = obj[Mine(k)]
        /\ hd[k].bound \/ pc[k] = "a_bind" => obj'[hd[k].ctrl] = obj[hd[k].ctrl]
    BY <1>1, <2>1, <2>2, Alone
  <2>4. ObjOf(k)
    BY DEF ObjInv
  <2> QED
    BY <1>1, <2>3, <2>4, Untouched
<1>2. ReadyInv'
  BY DEF ObjInv, ReadyInv
<1> QED
  BY <1>1, <1>2 DEF ObjInv

\* ftruncate in create(), done or failed keeps the objects' contents right.
LEMMA CreateSizeObjs ==
  ASSUME HandleInv, NameInv, ObjInv, NEW h \in Handles, CreateSize(h) PROVE ObjInv'
<1>1. pc[h] = "c_size" /\ made' = made /\ UNCHANGED hd /\ ~hd[h].bound
  BY DEF CreateSize, HandleInv, Shape
<1>2. \A k \in Handles \ {h} : /\ pc'[k] = pc[k] /\ hd'[k] = hd[k]
                              /\ fd'[k] = fd[k] /\ asked'[k] = asked[k]
  BY DEF CreateSize, Goto, HandleInv, HandleTypes
<1>3. CASE obj' = obj /\ pc' = [pc EXCEPT ![h] = "rest"]
  <2>1. ObjOf(h)'
    BY <1>1, <1>3, OnlyBound DEF HandleInv, HandleTypes
  <2> QED
    BY <1>1, <1>2, <1>3, <2>1, ObjsSame
<1>4. CASE /\ obj' = [obj EXCEPT ![fd[h]].bytes = BytesAsked(h)]
           /\ pc' = [pc EXCEPT ![h] = "c_map"] /\ UNCHANGED <<fd, asked>>
  <2>1. Mine(h) = fd[h] /\ Mine(h) \in 1 .. made
    BY <1>1, ObjPlaces DEF Creating
  <2>2. BytesAsked(h) \in Nat
    <3>1. ~Overflows(Capacity(asked[h]), LayoutOf[h].size)
      BY <1>1 DEF ObjInv, ObjOf
    <3>2. asked[h] \in 0 .. SizeMax /\ LayoutOf[h].size \in Nat \ {0}
      BY LifeConstants DEF HandleInv, HandleTypes
    <3> QED
      BY <3>1, <3>2, BytesExact DEF BytesAsked
  <2>3. /\ obj' \in [1 .. made -> Objs]
        /\ \A o \in 1 .. made : o # Mine(h) => obj'[o] = obj[o]
        /\ obj'[Mine(h)] = [obj[Mine(h)] EXCEPT !.bytes = BytesAsked(h)]
    BY <1>4, <2>1, <2>2 DEF ObjInv, Objs
  <2>4. /\ obj'[Mine(h)].bytes = BytesAsked(h) /\ obj'[Mine(h)].geo = obj[Mine(h)].geo
        /\ obj'[Mine(h)].ready = obj[Mine(h)].ready /\ obj'[Mine(h)].pid = obj[Mine(h)].pid
    BY <2>1, <2>3 DEF ObjInv, Objs
  <2>5. Mine(h)' = Mine(h) /\ BytesAsked(h)' = BytesAsked(h)
    BY <1>1, <1>4 DEF Mine, BytesAsked
  <2>6. ObjOf(h)
    BY DEF ObjInv
  <2>7. ObjOf(h)' /\ ~obj'[Mine(h)].ready
    BY <1>1, <1>4, <2>4, <2>5, <2>6 DEF ObjOf, Fresh, HandleInv, HandleTypes
  <2> QED
    BY <1>1, <1>2, <2>3, <2>7, ObjMade
<1> QED
  BY <1>3, <1>4 DEF CreateSize, Goto

\* The writing of the control block keeps the objects' contents right.
LEMMA CreateFillObjs ==
  ASSUME HandleInv, NameInv, ObjInv, NEW h \in Handles, CreateFill(h) PROVE ObjInv'
<1> DEFINE geo == [layout |-> LayoutOf[h], slots |-> Slots(asked[h]), total |-> Mapped(h)]
<1>1. PICK o \in 1 .. made : o = Mine(h) /\ o = hd[h].ctrl /\ o = hd[h].seg /\ hd[h].owner
  BY ObjPlaces DEF CreateFill, Creating
<1>2. /\ pc[h] = "c_fill" /\ pc' = [pc EXCEPT ![h] = "c_bind"] /\ UNCHANGED <<made, hd, fd>>
      /\ obj' = [obj EXCEPT ![o].geo = geo]
      /\ asked' = [asked EXCEPT ![h] = 0] /\ ~hd[h].bound
  BY <1>1 DEF CreateFill, Goto, HandleInv, Shape
<1>3. ObjOf(h) /\ obj[o] \in Objs
  BY <1>1 DEF ObjInv
<1>4. ~Overflows(Capacity(asked[h]), LayoutOf[h].size) /\ obj[o].bytes = BytesAsked(h) /\ Fresh(o)
  BY <1>1, <1>2, <1>3 DEF ObjOf
<1>5. asked[h] \in 0 .. SizeMax /\ LayoutOf[h].size \in Nat \ {0} /\ LayoutOf[h] \in Layouts
  BY LifeConstants DEF HandleInv, HandleTypes, Layouts
<1>6. /\ Slots(asked[h]) \in Nat /\ obj[o].bytes \in Nat
      /\ CtrlBytes + Slots(asked[h]) * LayoutOf[h].size = obj[o].bytes
      /\ needed(Slots(asked[h]), LayoutOf[h].size) = obj[o].bytes
  BY <1>4, <1>5, BytesExact DEF BytesAsked
<1>7. Mapped(h) = obj[o].bytes
  BY <1>1 DEF Mapped
<1>8. geo \in Geos /\ geo # Blank /\ GeoFits(geo, obj[o].bytes)
  <2>1. geo.layout.size # 0
    BY <1>5
  <2>2. geo # Blank
    BY <2>1 DEF Blank
  <2>3. geo \in Geos
    BY <1>5, <1>6, <1>7 DEF Geos
  <2>4. GeoFits(geo, obj[o].bytes)
    BY <1>5, <1>6, <1>7, <2>2 DEF GeoFits
  <2> QED
    BY <2>2, <2>3, <2>4
<1> HIDE DEF geo
<1>9. /\ obj' \in [1 .. made -> Objs] /\ \A x \in 1 .. made : x # o => obj'[x] = obj[x]
      /\ obj'[o].geo = geo /\ obj'[o].bytes = obj[o].bytes
      /\ obj'[o].ready = obj[o].ready /\ obj'[o].pid = obj[o].pid
  BY <1>2, <1>8 DEF ObjInv, Objs
<1>10. Mine(h)' = o
  BY <1>1, <1>2 DEF Mine
<1>11. geo.layout = LayoutOf[h]
  BY DEF geo
<1>12. ObjOf(h)' /\ ~obj'[o].ready
  BY <1>2, <1>4, <1>8, <1>9, <1>10, <1>11 DEF ObjOf, Fresh, HandleInv, HandleTypes
<1> QED
  BY <1>1, <1>2, <1>9, <1>12, ObjMade DEF HandleInv, HandleTypes

\* Writing a pid into a slot.
LEMMA PidSet ==
  ASSUME HandleInv, ObjInv, NEW o \in 1 .. made, NEW r \in Roles, NEW v \in Int \ {0},
         obj' = [obj EXCEPT ![o].pid[r] = v]
  PROVE  /\ obj' \in [1 .. made -> Objs]
         /\ \A x \in 1 .. made :
              /\ x # o => obj'[x] = obj[x]
              /\ obj'[x].geo = obj[x].geo /\ obj'[x].bytes = obj[x].bytes /\ obj'[x].ready = obj[x].ready
              /\ \A q \in Roles : obj[x].pid[q] # 0 => obj'[x].pid[q] # 0
         /\ obj'[o].pid[r] # 0
<1>1. obj[o] \in Objs /\ obj \in [1 .. made -> Objs]
  BY DEF ObjInv
<1>2. obj' = [obj EXCEPT ![o] = [obj[o] EXCEPT !.pid = [obj[o].pid EXCEPT ![r] = v]]]
  BY <1>1
<1>3. [obj[o].pid EXCEPT ![r] = v] \in [Roles -> Int]
  BY <1>1 DEF Objs
<1>4. /\ [obj[o] EXCEPT !.pid = [obj[o].pid EXCEPT ![r] = v]] \in Objs
      /\ obj'[o].pid = [obj[o].pid EXCEPT ![r] = v]
      /\ obj'[o].geo = obj[o].geo /\ obj'[o].bytes = obj[o].bytes /\ obj'[o].ready = obj[o].ready
  <2>1. obj'[o] = [obj[o] EXCEPT !.pid = [obj[o].pid EXCEPT ![r] = v]]
    BY <1>1, <1>2
  <2>2. [obj[o] EXCEPT !.pid = [obj[o].pid EXCEPT ![r] = v]] \in Objs
    BY <1>1, <1>3 DEF Objs
  <2>3. /\ obj'[o].pid = [obj[o].pid EXCEPT ![r] = v]
        /\ obj'[o].geo = obj[o].geo /\ obj'[o].bytes = obj[o].bytes /\ obj'[o].ready = obj[o].ready
    BY <1>1, <2>1 DEF Objs
  <2> QED
    BY <2>2, <2>3
<1>5. \A q \in Roles : obj[o].pid[q] # 0 => obj'[o].pid[q] # 0
  BY <1>1, <1>4 DEF Objs
<1>6. obj'[o].pid[r] # 0
  BY <1>1, <1>4 DEF Objs
<1> QED
  BY <1>1, <1>2, <1>4, <1>5, <1>6

\* The bind() of create() keeps the objects' contents right.
LEMMA CreateBindObjs ==
  ASSUME HandleInv, NameInv, ObjInv, NEW h \in Handles, CreateBind(h) PROVE ObjInv'
<1>1. PICK o \in 1 .. made : o = Mine(h) /\ o = hd[h].ctrl /\ o = hd[h].seg /\ hd[h].owner
  BY ObjPlaces DEF CreateBind, Creating
<1>2. /\ pc[h] = "c_bind" /\ pc' = [pc EXCEPT ![h] = "c_ready"] /\ UNCHANGED <<made, fd, asked>>
      /\ obj' = [obj EXCEPT ![o].pid[RoleOf[h]] = ProcOf[h]]
      /\ hd' = [hd EXCEPT ![h].bound = TRUE, ![h].role = RoleOf[h]]
  BY <1>1 DEF CreateBind, Claim, Goto
<1>3. RoleOf[h] \in Roles /\ ProcOf[h] \in Int \ {0}
  BY HomeAndRole
<1>4. /\ obj' \in [1 .. made -> Objs]
      /\ \A x \in 1 .. made : x # o => obj'[x] = obj[x]
      /\ obj'[o].geo = obj[o].geo /\ obj'[o].bytes = obj[o].bytes /\ obj'[o].ready = obj[o].ready
      /\ obj'[o].pid[RoleOf[h]] # 0
  BY <1>2, <1>3, PidSet
<1>5. Mine(h)' = o /\ hd'[h].ctrl = o /\ \A k \in Handles \ {h} : hd'[k] = hd[k]
  BY <1>1, <1>2 DEF Mine, HandleInv, HandleTypes, Members
<1>6. obj[o].geo.layout = LayoutOf[h] /\ GeoFits(obj[o].geo, obj[o].bytes) /\ ~obj[o].ready
  BY <1>1, <1>2 DEF ObjInv, ObjOf
<1>7. ObjOf(h)' /\ ~obj'[o].ready
  <2>1. pc'[h] = "c_ready"
    BY <1>2 DEF HandleInv, HandleTypes
  <2>2. \E r \in Roles : obj'[hd'[h].ctrl].pid[r] # 0
    BY <1>3, <1>4, <1>5
  <2> QED
    BY <1>4, <1>5, <1>6, <2>1, <2>2 DEF ObjOf
<1> QED
  BY <1>1, <1>2, <1>4, <1>5, <1>7, ObjMade DEF HandleInv, HandleTypes

\* The store of ready keeps the objects' contents right.
LEMMA CreateReadyObjs ==
  ASSUME HandleInv, NameInv, ObjInv, NEW h \in Handles, CreateReady(h) PROVE ObjInv'
<1>1. PICK o \in 1 .. made : o = Mine(h) /\ o = hd[h].ctrl
  BY ObjPlaces DEF CreateReady, Creating
<1>2. /\ pc[h] = "c_ready" /\ pc' = [pc EXCEPT ![h] = "rest"] /\ UNCHANGED <<made, hd, fd, asked>>
      /\ obj' = [obj EXCEPT ![o].ready = TRUE] /\ hd[h].bound
  BY <1>1 DEF CreateReady, Goto, HandleInv, Shape
<1>3. /\ obj' \in [1 .. made -> Objs] /\ \A x \in 1 .. made : x # o => obj'[x] = obj[x]
      /\ obj'[o].geo = obj[o].geo /\ obj'[o].bytes = obj[o].bytes
      /\ obj'[o].ready /\ obj'[o].pid = obj[o].pid
  BY <1>2 DEF ObjInv, Objs
<1>4. /\ obj[o].geo.layout = LayoutOf[h] /\ GeoFits(obj[o].geo, obj[o].bytes)
      /\ \E r \in Roles : obj[o].pid[r] # 0
  BY <1>1, <1>2 DEF ObjInv, ObjOf
<1>5. ReadyInv'
  BY <1>2, <1>3, <1>4 DEF ObjInv, ReadyInv
<1>6. ObjOf(h)'
  <2>1. pc'[h] = "rest" /\ hd'[h].ctrl = o
    BY <1>1, <1>2 DEF HandleInv, HandleTypes
  <2> QED
    BY <1>3, <1>4, <2>1, OnlyBound
<1>7. ASSUME NEW k \in Handles, k # h PROVE ObjOf(k)'
  <2>1. hd[k].ctrl \in 0 .. made /\ (pc[k] \in Creating \ {"c_open"} => Mine(k) \in 1 .. made)
    BY ObjPlaces
  <2>2. hd[k].bound \/ pc[k] = "a_bind" => hd[k].ctrl \in 1 .. made
    BY CtrlPlaces
  <2>3. pc[k] \in Creating \ {"c_open"} => Mine(k) # o
    <3>1. o # None
      BY DEF None, HandleInv, HandleTypes
    <3> QED
      BY <1>1, <1>7, <3>1 DEF NameInv
  <2>4. /\ pc'[k] = pc[k] /\ hd'[k] = hd[k] /\ fd'[k] = fd[k] /\ asked'[k] = asked[k]
        /\ ObjOf(k)
    BY <1>2, <1>7 DEF ObjInv, HandleInv, HandleTypes
  <2>5. pc[k] \in Creating \ {"c_open"} => obj'[Mine(k)] = obj[Mine(k)]
    BY <1>3, <2>1, <2>3
  <2>6. pc[k] = "a_bind" => (obj[hd[k].ctrl].ready => obj'[hd[k].ctrl].ready)
    BY <1>3, <2>2
  <2>7. hd[k].bound => /\ obj'[hd[k].ctrl].geo = obj[hd[k].ctrl].geo
                       /\ obj'[hd[k].ctrl].bytes = obj[hd[k].ctrl].bytes
                       /\ obj'[hd[k].ctrl].pid = obj[hd[k].ctrl].pid
    BY <1>3, <2>2
  <2> QED
    BY <2>4, <2>5, <2>6, <2>7, Untouched
<1> QED
  BY <1>2, <1>3, <1>5, <1>6, <1>7 DEF ObjInv


\* validate() and bind() in attach() keeps the objects' contents right.
LEMMA AttachBindObjs ==
  ASSUME HandleInv, NameInv, ObjInv, NEW h \in Handles, AttachBind(h) PROVE ObjInv'
<1>1. CASE Throw(h)
  BY <1>1, ThrowObjs DEF AttachBind, Attaching
<1>2. CASE ~Throw(h)
  <2>1. PICK o \in 1 .. made : o = hd[h].ctrl
    BY CtrlPlaces DEF AttachBind
  <2>2. /\ pc[h] = "a_bind" /\ pc' = [pc EXCEPT ![h] = "rest"] /\ UNCHANGED <<made, fd, asked>>
        /\ obj' = [obj EXCEPT ![o].pid[RoleOf[h]] = ProcOf[h]] /\ Fits(h)
        /\ hd' = [hd EXCEPT ![h].bound = TRUE, ![h].role = RoleOf[h]]
    BY <1>2, <2>1 DEF AttachBind, Claim, Goto
  <2>3. RoleOf[h] \in Roles /\ ProcOf[h] \in Int \ {0}
    BY HomeAndRole
  <2>4. obj[o].ready /\ obj[o].geo.layout = LayoutOf[h]
    BY <2>1, <2>2 DEF ObjInv, ObjOf, Fits
  <2>5. /\ obj' \in [1 .. made -> Objs]
        /\ \A x \in 1 .. made :
             /\ x # o => obj'[x] = obj[x]
             /\ obj'[x].geo = obj[x].geo /\ obj'[x].bytes = obj[x].bytes /\ obj'[x].ready = obj[x].ready
             /\ \A q \in Roles : obj[x].pid[q] # 0 => obj'[x].pid[q] # 0
        /\ obj'[o].pid[RoleOf[h]] # 0
    BY <2>2, <2>3, PidSet
  <2>6. ReadyInv'
    BY <2>2, <2>5 DEF ObjInv, ReadyInv
  <2>7. pc'[h] = "rest" /\ hd'[h].ctrl = o /\ \A k \in Handles \ {h} : hd'[k] = hd[k] /\ pc'[k] = pc[k]
    BY <2>1, <2>2 DEF HandleInv, HandleTypes, Members
  <2>8. ObjOf(h)'
    <3>1. GeoFits(obj[o].geo, obj[o].bytes)
      BY <2>4 DEF ObjInv, ReadyInv
    <3> QED
      BY <2>3, <2>4, <2>5, <2>7, <3>1, OnlyBound
  <2>9. ASSUME NEW k \in Handles, k # h PROVE ObjOf(k)'
    <3>1. hd[k].ctrl \in 0 .. made /\ (pc[k] \in Creating \ {"c_open"} => Mine(k) \in 1 .. made)
      BY ObjPlaces
    <3>2. hd[k].bound \/ pc[k] = "a_bind" => hd[k].ctrl \in 1 .. made
      BY CtrlPlaces
    <3>3. pc[k] \in Creating \ {"c_open"} => ~obj[Mine(k)].ready
      BY DEF ObjInv, ObjOf, Fresh, Creating
    <3>4. pc[k] \in Creating \ {"c_open"} => obj'[Mine(k)] = obj[Mine(k)]
      BY <2>4, <2>5, <3>1, <3>3
    <3>5. /\ pc'[k] = pc[k] /\ hd'[k] = hd[k] /\ fd'[k] = fd[k] /\ asked'[k] = asked[k]
          /\ ObjOf(k)
      BY <2>2, <2>7, <2>9 DEF ObjInv
    <3>6. pc[k] = "a_bind" => (obj[hd[k].ctrl].ready => obj'[hd[k].ctrl].ready)
      BY <2>5, <3>2
    <3>7. hd[k].bound => /\ obj'[hd[k].ctrl].geo = obj[hd[k].ctrl].geo
                         /\ obj'[hd[k].ctrl].bytes = obj[hd[k].ctrl].bytes
                         /\ \A r \in Roles : obj[hd[k].ctrl].pid[r] # 0 => obj'[hd[k].ctrl].pid[r] # 0
      BY <2>5, <3>2
    <3> QED
      BY <3>4, <3>5, <3>6, <3>7, Untouched
  <2> QED
    BY <2>2, <2>5, <2>6, <2>8, <2>9 DEF ObjInv
<1> QED
  BY <1>1, <1>2

\* The release of the pid slot in detach() keeps the objects' contents right.
LEMMA DetachObjs ==
  ASSUME HandleInv, NameInv, ObjInv, NEW h \in Handles, NEW g \in Handles, Detach(h, g)
  PROVE  ObjInv'
<1>1. /\ pc' = [k \in Handles |-> IF k = h THEN "d_reset" ELSE IF k = g THEN "moving" ELSE pc[k]]
      /\ hd' = [hd EXCEPT ![h] = [hd[h] EXCEPT !.ctrl = None, !.bound = FALSE]]
      /\ obj' = ClearSlot(h) /\ UNCHANGED <<made, fd, asked>> /\ pc[g] = "rest"
  BY DEF Detach, AtRest, HandleInv, HandleTypes
<1>2. /\ obj' \in [1 .. made -> Objs]
      /\ \A x \in 1 .. made :
           /\ x # hd[h].ctrl => obj'[x] = obj[x]
           /\ obj'[x].geo = obj[x].geo /\ obj'[x].bytes = obj[x].bytes /\ obj'[x].ready = obj[x].ready
           /\ \A q \in Roles : obj[x].pid[q] # 0 => obj'[x].pid[q] # 0
      /\ (obj' # obj => hd[h].ctrl \in 1 .. made /\ \E q \in Roles : obj[hd[h].ctrl].pid[q] # 0)
  <2>1. CASE obj' = obj
    <3>1. obj \in [1 .. made -> Objs]
      BY DEF ObjInv
    <3>2. obj' \in [1 .. made -> Objs]
      BY <2>1, <3>1
    <3> QED
      BY <2>1, <3>2
  <2>2. CASE obj' # obj
    <3>1. PICK o \in 1 .. made : o = hd[h].ctrl
      BY <1>1, <2>2, ObjPlaces DEF ClearSlot, None, HandleInv, HandleTypes
    <3>2. /\ obj' = [obj EXCEPT ![o].pid[hd[h].role] = Detached]
          /\ obj[o].pid[hd[h].role] = ProcOf[h]
      BY <1>1, <2>2, <3>1 DEF ClearSlot
    <3>3. hd[h].role \in Roles /\ Detached \in Int \ {0} /\ ProcOf[h] # 0
      BY HomeAndRole DEF HandleInv, HandleTypes, Members, Detached
    <3> QED
      BY <3>1, <3>2, <3>3, PidSet
  <2> QED
    BY <2>1, <2>2
<1>3. ReadyInv'
  BY <1>1, <1>2 DEF ObjInv, ReadyInv
<1>4. ObjOf(h)'
  <2>1. pc'[h] = "d_reset" /\ ~hd'[h].bound
    BY <1>1 DEF HandleInv, HandleTypes, Members
  <2> QED
    BY <2>1, OnlyBound
<1>5. ASSUME NEW k \in Handles, k # h PROVE ObjOf(k)'
  <2>1. hd[k].ctrl \in 0 .. made /\ (pc[k] \in Creating \ {"c_open"} => Mine(k) \in 1 .. made)
    BY ObjPlaces
  <2>2. hd[k].bound \/ pc[k] = "a_bind" => hd[k].ctrl \in 1 .. made
    BY CtrlPlaces
  <2>3. hd'[k] = hd[k] /\ ObjOf(k)
    BY <1>1, <1>5 DEF HandleInv, HandleTypes, ObjInv
  <2>4. CASE k = g
    <3>1. pc'[k] = "moving"
      BY <1>1, <1>5, <2>4
    <3>2. hd[k].bound => /\ obj[hd[k].ctrl].geo.layout = LayoutOf[k]
                         /\ GeoFits(obj[hd[k].ctrl].geo, obj[hd[k].ctrl].bytes)
                         /\ \E r \in Roles : obj[hd[k].ctrl].pid[r] # 0
      BY <2>3 DEF ObjOf
    <3>3. hd[k].bound => /\ obj'[hd[k].ctrl].geo = obj[hd[k].ctrl].geo
                         /\ obj'[hd[k].ctrl].bytes = obj[hd[k].ctrl].bytes
                         /\ \A q \in Roles : obj[hd[k].ctrl].pid[q] # 0 => obj'[hd[k].ctrl].pid[q] # 0
      BY <1>2, <2>2
    <3> QED
      BY <2>3, <3>1, <3>2, <3>3, OnlyBound
  <2>5. CASE k # g
    <3>1. pc'[k] = pc[k]
      BY <1>1, <1>5, <2>5
    <3>2. pc[k] \in Creating \ {"c_open", "c_ready"} => obj'[Mine(k)] = obj[Mine(k)]
      <4> SUFFICES ASSUME pc[k] \in Creating \ {"c_open", "c_ready"}, obj' # obj
                   PROVE  obj'[Mine(k)] = obj[Mine(k)]
        OBVIOUS
      <4>1. \A q \in Roles : obj[Mine(k)].pid[q] = 0
        BY <2>3 DEF ObjOf, Fresh, Creating
      <4>2. Mine(k) # hd[h].ctrl
        BY <1>2, <4>1
      <4> QED
        BY <1>2, <2>1, <4>2
    <3> QED
      BY <1>1, <1>2, <2>1, <2>2, <2>3, <3>1, <3>2, Untouched
  <2> QED
    BY <2>4, <2>5
<1> QED
  BY <1>1, <1>2, <1>3, <1>4, <1>5 DEF ObjInv


\* The end of detach(), with the swap of a move assignment keeps the objects' contents right.
LEMMA DetachResetObjs ==
  ASSUME HandleInv, ObjInv, NEW h \in Handles, DetachReset(h) PROVE ObjInv'
<1>1. PICK g \in Handles : g = source[h]
  BY DEF HandleInv, HandleTypes
<1>2. /\ hd' = [k \in Handles |-> IF k = g THEN Empty ELSE IF k = h THEN hd[g] ELSE hd[k]]
      /\ pc' = [k \in Handles |-> IF k = h \/ k = g THEN "rest" ELSE pc[k]]
      /\ UNCHANGED <<obj, made, fd, asked>>
  BY <1>1 DEF DetachReset, Swapped, HandleInv, HandleTypes
<1>3. LayoutOf[g] = LayoutOf[h]
  BY <1>1 DEF DetachReset, HandleInv, MoveInv
<1>4. ASSUME NEW k \in Handles PROVE ObjOf(k)'
  <2>1. CASE k = g
    <3>1. pc'[k] = "rest" /\ ~hd'[k].bound
      BY <1>2, <2>1 DEF Empty
    <3> QED
      BY <3>1, OnlyBound
  <2>2. CASE k = h /\ k # g
    <3>1. pc'[k] = "rest" /\ hd'[k] = hd[g]
      BY <1>2, <2>2
    <3>2. hd[g].bound => /\ obj[hd[g].ctrl].geo.layout = LayoutOf[g]
                         /\ GeoFits(obj[hd[g].ctrl].geo, obj[hd[g].ctrl].bytes)
                         /\ \E r \in Roles : obj[hd[g].ctrl].pid[r] # 0
      BY DEF ObjInv, ObjOf
    <3> QED
      BY <1>2, <1>3, <2>2, <3>1, <3>2, OnlyBound
  <2>3. CASE k # h /\ k # g
    BY <1>2, <2>3, Untouched DEF ObjInv
  <2> QED
    BY <2>1, <2>2, <2>3
<1> QED
  BY <1>2, <1>4 DEF ObjInv, ReadyInv

\* A move to an empty handle keeps the objects' contents right.
LEMMA MoveToEmptyObjs ==
  ASSUME HandleInv, ObjInv, NEW h \in Handles, NEW g \in Handles, MoveToEmpty(h, g) PROVE ObjInv'
<1>1. /\ hd' = [k \in Handles |-> IF k = g THEN hd[h] ELSE IF k = h THEN hd[g] ELSE hd[k]]
      /\ UNCHANGED <<obj, made, pc, fd, asked>> /\ LayoutOf[g] = LayoutOf[h] /\ h # g
      /\ pc[h] = "rest" /\ pc[g] = "rest" /\ ~hd[h].bound
  BY DEF MoveToEmpty, AtRest, Swapped, HandleInv, HandleTypes, Shape
<1>2. ASSUME NEW k \in Handles PROVE ObjOf(k)'
  <2>1. CASE k = g
    BY <1>1, <2>1, OnlyBound
  <2>2. CASE k = h
    <3>1. hd[g].bound => /\ obj[hd[g].ctrl].geo.layout = LayoutOf[g]
                         /\ GeoFits(obj[hd[g].ctrl].geo, obj[hd[g].ctrl].bytes)
                         /\ \E r \in Roles : obj[hd[g].ctrl].pid[r] # 0
      BY DEF ObjInv, ObjOf
    <3> QED
      BY <1>1, <2>2, <3>1, OnlyBound
  <2>3. CASE k # h /\ k # g
    BY <1>1, <2>3, Untouched DEF ObjInv
  <2> QED
    BY <2>1, <2>2, <2>3
<1> QED
  BY <1>1, <1>2 DEF ObjInv, ReadyInv

\* The death of a process keeps the objects' contents right.
LEMMA DieObjs ==
  ASSUME HandleInv, ObjInv, NEW p \in Procs, Die(p) PROVE ObjInv'
<1>1. ASSUME NEW k \in Handles PROVE ObjOf(k)'
  <2>1. CASE ProcOf[k] = p
    <3>1. pc'[k] = "rest" /\ ~hd'[k].bound
      BY <2>1 DEF Die, Empty
    <3> QED
      BY <3>1, OnlyBound
  <2>2. CASE ProcOf[k] # p
    <3>1. /\ pc'[k] = pc[k] /\ hd'[k] = hd[k] /\ fd'[k] = fd[k] /\ asked'[k] = asked[k]
          /\ UNCHANGED obj
      BY <2>2 DEF Die
    <3> QED
      BY <3>1, Untouched DEF ObjInv
  <2> QED
    BY <2>1, <2>2
<1> QED
  BY <1>1 DEF Die, ObjInv, ReadyInv

\* At first there are no objects.
LEMMA ObjInit == Init => ObjInv
<1> SUFFICES ASSUME Init PROVE ObjInv
  OBVIOUS
<1>1. obj \in [1 .. made -> Objs]
  BY DEF Init
<1>2. ReadyInv
  BY DEF Init, ReadyInv
<1>3. ASSUME NEW h \in Handles PROVE ObjOf(h)
  BY DEF Init, ObjOf, Empty
<1> QED
  BY <1>1, <1>2, <1>3 DEF ObjInv

\* Every step keeps the objects' contents right.
LEMMA ObjStep == HandleInv /\ NameInv /\ ObjInv /\ [Next]_vars => ObjInv'
<1> SUFFICES ASSUME HandleInv, NameInv, ObjInv, [Next]_vars PROVE ObjInv'
  OBVIOUS
<1>1. ASSUME UNCHANGED <<made, obj, hd, pc, asked, fd>> PROVE ObjInv'
  <2>1. ASSUME NEW k \in Handles PROVE ObjOf(k)'
    BY <1>1, Untouched DEF ObjInv
  <2> QED
    BY <1>1, <2>1 DEF ObjInv, ReadyInv
<1>2. CASE UNCHANGED vars
  BY <1>1, <1>2 DEF vars
<1>3. CASE Remove
  BY <1>1, <1>3 DEF Remove
<1>4. CASE Next /\ ~Remove
  BY <1>4, CreateUnlinkObjs, CreateOpenObjs, CreateSizeObjs, CreateMapObjs,
     CreateFillObjs, CreateBindObjs, CreateReadyObjs, AttachStartObjs,
     DeadlineObjs, AttachOpenObjs, AttachReadyObjs, AttachBindObjs,
     DetachObjs, DetachResetObjs, MoveToEmptyObjs, DieObjs DEF Next
<1> QED
  BY <1>2, <1>3, <1>4

-----------------------------------------------------------------------------
(* The theorems. *)

LifeInv == HandleInv /\ NameInv /\ ObjInv

\* The three layers together hold in every state of every life.
LEMMA LifeInvariant == Spec => []LifeInv
<1>1. Init => LifeInv
  BY HandleInit, NameInit, ObjInit DEF LifeInv
<1>2. LifeInv /\ [Next]_vars => LifeInv'
  BY HandleStep, NameStep, ObjStep DEF LifeInv
<1> QED
  BY <1>1, <1>2, PTL DEF Spec

\* The size a handle sees is at least the bytes its creator asked for.
LEMMA MappedBytes ==
  ASSUME LifeInv, NEW h \in Handles, hd[h].bound
  PROVE  obj[hd[h].ctrl].bytes \in Nat /\ obj[hd[h].ctrl].bytes <= Mapped(h)
<1>1. hd[h].ctrl \in 1 .. made /\ hd[h].ctrl = hd[h].seg
  BY CtrlPlaces DEF LifeInv
<1>2. obj[hd[h].ctrl].bytes \in Nat
  BY <1>1 DEF LifeInv, ObjInv, Objs
<1>3. obj[hd[h].ctrl].bytes <= StatSize(obj[hd[h].ctrl].bytes)
  BY <1>2, RoundUp
<1>4. Mapped(h) \in {obj[hd[h].ctrl].bytes, StatSize(obj[hd[h].ctrl].bytes)}
  BY <1>1 DEF Mapped
<1>5. obj[hd[h].ctrl].bytes <= obj[hd[h].ctrl].bytes
  BY <1>2
<1> QED
  BY <1>2, <1>3, <1>4, <1>5, Zenon

\* No sequence of moves, detaches, failed calls and deaths leaves a handle with a
\* control block it has not mapped (the comment on the move constructor), for any
\* number of handles in any number of processes.
THEOREM MappedAlways == Spec => []CtrlIsMapped
<1>1. LifeInv => CtrlIsMapped
  BY DEF LifeInv, HandleInv, HandleTypes, Shape, CtrlIsMapped
<1> QED
  BY <1>1, LifeInvariant, PTL

\* The name stands for the owner's segment as long as nobody removes it or
\* creates over it: the unlink in reset() is the owner's own.
THEOREM NameKeptAlways == Spec => []OwnerKeepsName
<1>1. LifeInv => OwnerKeepsName
  <2> SUFFICES ASSUME LifeInv, ~contested, NEW h \in Handles, hd[h].owner PROVE name = hd[h].seg
    BY DEF OwnerKeepsName
  <2>1. Mine(h) = hd[h].seg /\ hd[h].seg # None
    BY MineFacts DEF LifeInv
  <2> QED
    BY <2>1 DEF LifeInv, NameInv
<1> QED
  BY <1>1, LifeInvariant, PTL

\* Processes that live leave no name behind, whichever of the steps of create(),
\* attach() or a move fails.
THEOREM NoLeakEver == Spec => []NoNameLeaked
<1>1. LifeInv => NoNameLeaked
  <2> SUFFICES ASSUME LifeInv, alive = Procs, name # None
               PROVE  \E h \in Handles : (hd[h].owner /\ hd[h].seg = name) \/ fd[h] = name
    BY DEF NoNameLeaked
  <2>1. PICK h \in Handles : Mine(h) = name
    BY DEF LifeInv, NameInv
  <2> QED
    BY <2>1 DEF Mine
<1> QED
  BY <1>1, LifeInvariant, PTL

\* Every handle that gets past attach()'s test of ready, or is bound, sees a
\* complete control block of its own layout, and create() cannot fail in bind().
THEOREM CompleteAlways == Spec => []AttachedComplete
<1>1. LifeInv => AttachedComplete
  <2> SUFFICES ASSUME LifeInv, NEW h \in Handles
               PROVE  /\ pc[h] = "a_bind" =>
                           obj[hd[h].ctrl].geo # Blank /\ \E r \in Roles : obj[hd[h].ctrl].pid[r] # 0
                      /\ hd[h].bound => obj[hd[h].ctrl].geo # Blank /\ Fits(h)
                      /\ pc[h] = "c_bind" => CanBind(h)
    BY DEF AttachedComplete
  <2>1. ASSUME pc[h] = "a_bind" \/ hd[h].bound PROVE hd[h].ctrl \in 1 .. made /\ hd[h].ctrl = hd[h].seg
    BY <2>1, CtrlPlaces DEF LifeInv
  <2>2. ASSUME pc[h] = "a_bind"
        PROVE  obj[hd[h].ctrl].geo # Blank /\ \E r \in Roles : obj[hd[h].ctrl].pid[r] # 0
    BY <2>1, <2>2 DEF LifeInv, ObjInv, ObjOf, ReadyInv, GeoFits
  <2>3. ASSUME hd[h].bound PROVE obj[hd[h].ctrl].geo # Blank /\ Fits(h)
    <3>1. /\ obj[hd[h].ctrl].geo.layout = LayoutOf[h]
          /\ GeoFits(obj[hd[h].ctrl].geo, obj[hd[h].ctrl].bytes)
      BY <2>3 DEF LifeInv, ObjInv, ObjOf
    <3>2. obj[hd[h].ctrl].bytes \in Nat /\ obj[hd[h].ctrl].bytes <= Mapped(h)
      BY <2>3, MappedBytes
    <3>3. LET geo == obj[hd[h].ctrl].geo IN
            /\ geo # Blank /\ geo.total = obj[hd[h].ctrl].bytes
            /\ needed(geo.slots, geo.layout.size) = obj[hd[h].ctrl].bytes
      BY <3>1 DEF GeoFits
    <3>4. LET geo == obj[hd[h].ctrl].geo IN
            needed(geo.slots, geo.layout.size) <= geo.total /\ geo.total <= Mapped(h)
      <4>1. obj[hd[h].ctrl].bytes <= obj[hd[h].ctrl].bytes
        BY <3>2
      <4> QED
        BY <3>2, <3>3, <4>1, Zenon
    <3> QED
      BY <3>1, <3>3, <3>4 DEF Fits
  <2>4. ASSUME pc[h] = "c_bind" PROVE CanBind(h)
    <3>1. Fresh(hd[h].ctrl)
      BY <2>4, ObjPlaces DEF LifeInv, ObjInv, ObjOf
    <3>2. obj[hd[h].ctrl].pid[RoleOf[h]] = 0
      BY <3>1, HomeAndRole DEF Fresh
    <3>3. 0 \notin alive
      BY LifeConstants DEF LifeInv, HandleInv, HandleTypes
    <3> QED
      BY <3>2, <3>3 DEF CanBind
  <2> QED
    BY <2>2, <2>3, <2>4
<1> QED
  BY <1>1, LifeInvariant, PTL

\* For every width of std::size_t, every element size and every capacity asked
\* for, the slots of a bound handle are inside the memory it has mapped.
THEOREM SlotsMappedAlways == Spec => []SlotsMapped
<1>1. LifeInv => SlotsMapped
  <2> SUFFICES ASSUME LifeInv, NEW h \in Handles, hd[h].bound
               PROVE  CtrlBytes + obj[hd[h].ctrl].geo.slots * LayoutOf[h].size <= Mapped(h)
    BY DEF SlotsMapped
  <2>1. CtrlBytes + obj[hd[h].ctrl].geo.slots * LayoutOf[h].size = obj[hd[h].ctrl].bytes
    BY DEF LifeInv, ObjInv, ObjOf, GeoFits
  <2>2. obj[hd[h].ctrl].bytes <= Mapped(h)
    BY MappedBytes
  <2> QED
    BY <2>1, <2>2
<1> QED
  BY <1>1, LifeInvariant, PTL

\* A live process's pid is taken out of its slot only by the detach() of one of
\* its own handles bound in that role, whoever fails to attach meanwhile.
THEOREM SlotClearedByDetachAlways == Spec => SlotClearedByDetachOnly
<1> DEFINE Clears(o, r) ==
      \E h \in Handles : /\ ProcOf[h] = obj[o].pid[r] /\ pc'[h] = "d_reset"
                         /\ hd[h].bound /\ hd[h].ctrl = o /\ hd[h].role = r
<1>1. ASSUME LifeInv, Next, NEW o \in 1 .. made, NEW r \in Roles,
             obj[o].pid[r] \in alive, obj'[o].pid[r] # obj[o].pid[r]
      PROVE  Clears(o, r)
  <2>1. obj[o] \in Objs /\ obj \in [1 .. made -> Objs]
    BY <1>1 DEF LifeInv, ObjInv
  <2>2. ASSUME NEW h \in Handles, NEW g \in Handles, Detach(h, g) PROVE Clears(o, r)
    <3>1. /\ hd[h].ctrl = o /\ hd[h].bound /\ hd[h].role = r /\ obj[o].pid[r] = ProcOf[h]
      BY <1>1, <2>1, <2>2 DEF Detach, ClearSlot, Objs
    <3>2. pc'[h] = "d_reset"
      BY <1>1, <2>2 DEF Detach, LifeInv, HandleInv, HandleTypes
    <3> QED
      BY <3>1, <3>2
  <2>3. ASSUME NEW h \in Handles, CanBind(h), Claim(h) PROVE FALSE
    BY <1>1, <2>1, <2>3 DEF CanBind, Claim, Objs
  <2>4. ASSUME NEW h \in Handles, pc[h] \in {"c_open"} \cup Attaching, Throw(h) PROVE FALSE
    BY <1>1, <2>4, ThrowHarmless DEF LifeInv
  <2>5. ASSUME NEW h \in Handles, CreateOpen(h) PROVE FALSE
    <3>1. made \in Nat
      BY <1>1 DEF LifeInv, HandleInv, HandleTypes
    <3>2. ~Throw(h)
      BY <2>4, <2>5 DEF CreateOpen
    <3>3. obj'[o] = obj[o]
      BY <2>5, <3>1, <3>2 DEF CreateOpen
    <3> QED
      BY <1>1, <3>3
  <2>6. ASSUME NEW h \in Handles, CreateSize(h) \/ CreateFill(h) \/ CreateReady(h) PROVE FALSE
    <3>1. CASE CreateSize(h)
      <4>1. CASE obj' = obj
        BY <1>1, <4>1
      <4>2. CASE obj' = [obj EXCEPT ![fd[h]].bytes = BytesAsked(h)]
        BY <1>1, <2>1, <4>2 DEF Objs
      <4> QED
        BY <3>1, <4>1, <4>2 DEF CreateSize
    <3>2. CASE CreateFill(h)
      BY <1>1, <2>1, <3>2 DEF CreateFill, Objs
    <3>3. CASE CreateReady(h)
      BY <1>1, <2>1, <3>3 DEF CreateReady, Objs
    <3> QED
      BY <2>6, <3>1, <3>2, <3>3
  <2>7. ASSUME NEW h \in Handles, AttachOpen(h) \/ AttachReady(h) \/ AttachBind(h) PROVE FALSE
    BY <1>1, <2>3, <2>4, <2>7 DEF AttachOpen, AttachReady, AttachBind, Attaching
  <2> QED
    BY <1>1, <2>2, <2>3, <2>5, <2>6, <2>7
       DEF Next, CreateUnlink, CreateMap, CreateBind, AttachStart, Deadline, DetachReset,
           MoveToEmpty, Remove, Die
<1>2. LifeInv /\ [Next]_vars =>
        [\A o \in 1 .. made : \A r \in Roles :
           (obj[o].pid[r] \in alive /\ obj'[o].pid[r] # obj[o].pid[r]) => Clears(o, r)]_vars
  BY <1>1
<1> QED
  BY <1>2, LifeInvariant, PTL DEF Spec, SlotClearedByDetachOnly

-----------------------------------------------------------------------------
(* attach() after its deadline. *)

LateInv == late \in [Handles -> BOOLEAN]

\* Every step keeps the deadlines of all handles.
LEMMA LateStep == LateInv /\ [Next]_vars => LateInv'
<1> SUFFICES ASSUME LateInv, [Next]_vars PROVE LateInv'
  OBVIOUS
<1>1. ASSUME NEW h \in Handles, late' = [late EXCEPT ![h] = TRUE] \/ late' = [late EXCEPT ![h] = FALSE]
      PROVE  LateInv'
  BY <1>1 DEF LateInv
<1>2. CASE late' = late
  BY <1>2 DEF LateInv
<1>3. ASSUME NEW h \in Handles, CreateOpen(h) \/ AttachOpen(h) \/ AttachReady(h) PROVE LateInv'
  BY <1>1, <1>2, <1>3 DEF CreateOpen, AttachOpen, AttachReady, Throw
<1>4. ASSUME NEW h \in Handles, Deadline(h) \/ AttachBind(h) PROVE LateInv'
  BY <1>1, <1>4 DEF Deadline, AttachBind, Throw
<1>5. ASSUME NEW p \in Procs, Die(p) PROVE LateInv'
  BY <1>5 DEF Die, LateInv
<1>6. ASSUME NEW h \in Handles,
             \/ CreateUnlink(h) \/ CreateSize(h) \/ CreateMap(h) \/ CreateFill(h) \/ CreateBind(h)
             \/ CreateReady(h) \/ AttachStart(h) \/ DetachReset(h)
      PROVE  LateInv'
  BY <1>2, <1>6 DEF CreateUnlink, CreateSize, CreateMap, CreateFill, CreateBind, CreateReady, AttachStart, DetachReset
<1>7. ASSUME NEW h \in Handles, NEW g \in Handles, Detach(h, g) \/ MoveToEmpty(h, g) PROVE LateInv'
  BY <1>2, <1>7 DEF Detach, MoveToEmpty
<1>8. CASE Remove \/ UNCHANGED vars
  BY <1>2, <1>8 DEF Remove, vars
<1> QED
  BY <1>3, <1>4, <1>5, <1>6, <1>7, <1>8 DEF Next

\* What AttachBounded says of one handle and one step.
LateStepOf(h) ==
  /\ pc'[h] = pc[h] \/ AttachLeft(h)' < AttachLeft(h)
  /\ pc'[h] \in Attaching => late'[h]

\* An attach() that is out of its loop has nothing left; one in it has something.
LEMMA LeftOutside ==
  ASSUME NEW h \in Handles, pc[h] \in Attaching, pc'[h] = "rest" PROVE LateStepOf(h)
BY DEF LateStepOf, AttachLeft, Attaching

\* A step that is not one of this attach() leaves it where it is.
LEMMA OtherHandles ==
  ASSUME HandleInv, LateInv, NEW h \in Handles, pc[h] \in Attaching, late[h], NEW g \in Handles,
         \/ CreateUnlink(g) \/ CreateOpen(g) \/ CreateSize(g) \/ CreateMap(g) \/ CreateFill(g)
         \/ CreateBind(g) \/ CreateReady(g) \/ AttachStart(g) \/ Deadline(g) \/ DetachReset(g)
         \/ \E k \in Handles : Detach(g, k) \/ MoveToEmpty(g, k)
         \/ g # h /\ AttachSteps(g)
  PROVE  LateStepOf(h)
<1>1. pc \in [Handles -> {"rest", "moving", "d_reset"} \cup Creating \cup Attaching] /\ late \in [Handles -> BOOLEAN]
  BY DEF HandleInv, HandleTypes, LateInv
<1>2. pc[h] \notin Creating \cup {"rest", "moving", "d_reset"}
  BY DEF Attaching, Creating
<1>3. ASSUME UNCHANGED <<pc[h], late[h]>> PROVE LateStepOf(h)
  BY <1>3 DEF LateStepOf
<1>4. ASSUME g # h, NEW w, Goto(g, w), late' = late \/ late' = [late EXCEPT ![g] = FALSE] PROVE LateStepOf(h)
  BY <1>1, <1>3, <1>4 DEF Goto
<1>5. ASSUME g # h, Throw(g) PROVE LateStepOf(h)
  BY <1>4, <1>5 DEF Throw
<1>6. CASE CreateUnlink(g) \/ CreateOpen(g) \/ CreateSize(g) \/ CreateMap(g)
  <2>1. g # h
    BY <1>2, <1>6 DEF CreateUnlink, CreateOpen, CreateSize, CreateMap, AtRest, Creating
  <2> QED
    BY <1>4, <1>5, <1>6, <2>1 DEF CreateUnlink, CreateOpen, CreateSize, CreateMap
<1>7. CASE CreateFill(g) \/ CreateBind(g) \/ CreateReady(g) \/ AttachStart(g)
  <2>1. g # h
    BY <1>2, <1>7 DEF CreateFill, CreateBind, CreateReady, AttachStart, AtRest, Creating
  <2> QED
    BY <1>4, <1>7, <2>1 DEF CreateFill, CreateBind, CreateReady, AttachStart
<1>8. CASE Deadline(g)
  BY <1>1, <1>3, <1>8 DEF Deadline
<1>9. CASE DetachReset(g)
  <2>1. pc[g] = "d_reset" /\ pc[source[g]] \in {"d_reset", "moving"} /\ source[g] \in Handles
    BY <1>9 DEF DetachReset, HandleInv, HandleTypes, MoveInv
  <2>2. g # h /\ source[g] # h
    BY <1>2, <2>1
  <2>3. pc' = [pc EXCEPT ![g] = "rest", ![source[g]] = "rest"] /\ late' = late
    BY <1>9 DEF DetachReset
  <2> QED
    BY <1>1, <1>3, <2>2, <2>3
<1>10. ASSUME NEW k \in Handles, Detach(g, k) \/ MoveToEmpty(g, k) PROVE LateStepOf(h)
  <2>1. g # h /\ k # h
    BY <1>2, <1>10 DEF Detach, MoveToEmpty, AtRest
  <2>2. CASE MoveToEmpty(g, k)
    BY <1>3, <2>2 DEF MoveToEmpty
  <2>3. CASE Detach(g, k)
    <3>1. pc' = [[pc EXCEPT ![k] = "moving"] EXCEPT ![g] = "d_reset"] /\ late' = late
      BY <2>3 DEF Detach
    <3> QED
      BY <1>1, <1>3, <2>1, <3>1
  <2> QED
    BY <1>10, <2>2, <2>3
<1>11. CASE g # h /\ AttachSteps(g)
  BY <1>3, <1>4, <1>5, <1>11 DEF AttachSteps, AttachOpen, AttachReady, AttachBind
<1> QED
  BY <1>6, <1>7, <1>8, <1>9, <1>10, <1>11

\* A step of a late attach() leads towards its end.
LEMMA OwnAttachStep ==
  ASSUME HandleInv, LateInv, NEW h \in Handles, pc[h] \in Attaching, late[h], AttachSteps(h)
  PROVE  LateStepOf(h)
<1>1. pc \in [Handles -> {"rest", "moving", "d_reset"} \cup Creating \cup Attaching]
  BY DEF HandleInv, HandleTypes
<1>2. ASSUME Throw(h) PROVE LateStepOf(h)
  BY <1>1, <1>2, LeftOutside DEF Throw, Goto
<1>3. ASSUME Goto(h, "rest") PROVE LateStepOf(h)
  BY <1>1, <1>3, LeftOutside DEF Goto
<1>4. CASE pc[h] = "a_open" /\ Goto(h, "a_last") /\ late' = late
  <2>1. pc'[h] = "a_last"
    BY <1>1, <1>4 DEF Goto
  <2> QED
    BY <1>4, <2>1 DEF LateStepOf, AttachLeft
<1>5. CASE pc[h] \in {"a_ready", "a_last"} /\ Goto(h, "a_bind") /\ late' = late
  <2>1. pc'[h] = "a_bind"
    BY <1>1, <1>5 DEF Goto
  <2> QED
    BY <1>5, <2>1 DEF LateStepOf, AttachLeft
<1>6. CASE pc[h] = "a_ready" /\ Goto(h, "a_open") /\ late' = late
  <2>1. pc'[h] = "a_open"
    BY <1>1, <1>6 DEF Goto
  <2> QED
    BY <1>6, <2>1 DEF LateStepOf, AttachLeft
<1>7. CASE AttachOpen(h)
  BY <1>2, <1>4, <1>7 DEF AttachOpen
<1>8. CASE AttachReady(h)
  BY <1>2, <1>5, <1>6, <1>8 DEF AttachReady
<1>9. CASE AttachBind(h)
  BY <1>2, <1>3, <1>9 DEF AttachBind
<1> QED
  BY <1>7, <1>8, <1>9 DEF AttachSteps

\* For any number of handles, processes and objects: an attach() whose deadline has
\* passed is over after at most four more steps of its own.
THEOREM AttachIsBounded == Spec => AttachBounded
<1>1. ASSUME HandleInv, LateInv, [Next]_vars, NEW h \in Handles, pc[h] \in Attaching, late[h]
      PROVE  LateStepOf(h)
  <2>1. CASE UNCHANGED vars \/ Remove
    BY <1>1, <2>1 DEF vars, Remove, LateStepOf
  <2>2. ASSUME NEW p \in Procs, Die(p) PROVE LateStepOf(h)
    <3>1. CASE ProcOf[h] = p
      BY <1>1, <2>2, <3>1, LeftOutside DEF Die
    <3>2. CASE ProcOf[h] # p
      BY <1>1, <2>2, <3>2 DEF Die, LateStepOf
    <3> QED
      BY <3>1, <3>2
  <2> QED
    BY <1>1, <2>1, <2>2, OtherHandles, OwnAttachStep DEF Next, AttachSteps
<1>2. LifeInv /\ LateInv /\ [Next]_vars =>
        [\A h \in Handles : pc[h] \in Attaching /\ late[h] =>
           /\ pc'[h] = pc[h] \/ AttachLeft(h)' < AttachLeft(h)
           /\ pc'[h] \in Attaching => late'[h]]_vars
  BY <1>1 DEF LateStepOf, LifeInv
<1>3. Init => LateInv
  BY DEF Init, LateInv
<1> QED
  BY <1>2, <1>3, LateStep, LifeInvariant, PTL DEF Spec, AttachBounded

=============================================================================
