# TLA+ specifications of shmspsc

The specifications in this directory model the shared-memory queue of
`include/shmspsc/` and the demo and benchmark programs in `src/`. They are model-checked
with TLC on small instances, and the theorems in the `*Proofs`, `SpscRefinement` and
`BlockingStreams` modules are proved with TLAPS for every value of the constants.

Line numbers without a file name refer to `include/shmspsc/ShmSpscQueue.h`.

## The system

| part | state | operations |
| --- | --- | --- |
| ring | `writeIdx`, `readIdx`, the slots; per handle the cached index of the peer | `try_push`, `push_n`, `front`, `pop`, `try_pop`, `pop_n`, `size`, `empty` |
| role slots | `producerPid`, `consumerPid`: 0 never claimed, -1 detached, else a pid | `bind`, `detach`, `peerAlive`, `processAlive` |
| blocking calls | spin counter | `push(v)`, `pop(out)`, `waitForPeer` |
| life of a queue | control block, `ready` | `create`, `attach`, `validate`, `bytesNeeded` |
| handle | members of `ShmSpscQueue`, `bound_` | move construction and assignment, destructor |
| segment | names, objects, mappings, `owner_` | `ShmSegment::create`, `open`, `exists`, `remove`, `reset` |
| programs | sequence counters | demo producer and consumer, two benchmarks |

How they interact: a process creates a segment and binds one role; another
attaches, validates the layout and binds the other role. From then on the two
share only the two indices and the slots. A side that finds the ring full or
empty for long asks the peer's pid slot whether the peer is alive. A process that
dies leaves its pid in the slot, and the next process to bind that role reclaims
it.

What makes it hard: each side decides on a stale copy of the other side's index;
an index says nothing about which lap it belongs to; copies are not atomic; a
process may die between any two instructions; liveness is asked of the kernel by
pid, and the answer may be old when it is used; several handles may share a pid.
The `hazards` of `PROJECT.json` list these at their lines.

## Modules

| module | models |
| --- | --- |
| `BoundedFifo` | what the queue promises: a bounded FIFO with atomic operations (abstract) |
| `SpscRing` | the ring between one producer handle and one consumer handle |
| `SpscRingProofs` | its inductive invariant and safety theorems |
| `SpscRefinement` | `SpscRing` implements `BoundedFifo` |
| `RoleLock` | what a role promises: a lock that is granted in one step and that a death gives back (abstract) |
| `RoleSlot` | one pid slot, the handles that bind and detach, the processes they live in |
| `RoleSlotProofs` | exclusion and visibility of the owner; `RoleSlot` implements `RoleLock` |
| `CrashFifo` | what the queue promises when its users may die: a FIFO that loses nothing (abstract) |
| `SpscTakeover` | the ring and two instances of `RoleSlot` together, across crashes and takeovers |
| `SpscTakeoverProofs` | order and safety of takeovers, on top of `RoleSlotProofs`; `SpscTakeover` implements `CrashFifo` |
| `Blocking` | `push(v)`, `pop(out)`, `waitForPeer`, and the two demo programs that use them |
| `BlockingProofs` | who gives up on whom, and how soon |
| `BlockingStreams` | what is left in the ring then, and what the demo counts |
| `Geometry` | the size arithmetic of `bytesNeeded` and `validate`, with its width |
| `QueueLife` | queues under one name: `create`, `attach`, `detach`, moves, and `ShmSegment` |
| `QueueLifeProofs` | the exactness of that arithmetic; the inductive invariant and safety theorems of `QueueLife`, and the bound on a late `attach` |
| `Bench`, `BenchProofs` | the two processes of each benchmark; that they deliver what they report and never wait for each other |
| `MC*` | the modules TLC runs, with the values of function-valued constants |

### SpscRing

The shared words are `capacity`, `writeIdx`, `readIdx` and `slots`; the other
variables are the members and locals of the two handles, named after them, and
the counts `pushed` and `popped`, which are history. Message k is the k-th
message sent, as `Message::seq` is in the demo, so a wrong, lost, repeated or
half-copied message is a wrong number in a slot or a buffer.

A call is cut wherever it touches a word the other side writes.

| actions | code |
| --- | --- |
| `TryPush`, `TryPushRefresh` | 211-222: the test on the cached index; the reload and the second test |
| `PushNZero`, `PushN`, `PushNRefresh` | 229-246 |
| `PushCopyBegin`, `PushCopyEnd` | 223 and 247-250: the memcpys; the slots are torn in between |
| `PushPublish` | 224 and 251-256: the store of `writeIdx` |
| `Front`, `FrontRefresh`, `Pop` | 260-283 |
| `TryPop`, `TryPopRefresh`, `TryPopCopy`, `TryPopRelease` | 285-293 |
| `PopNZero`, `PopN`, `PopNRefresh`, `PopNCopy`, `PopNRelease` | 295-321 |
| `ProducerSize`, `ConsumerSize` and their `Return` | 360-371: the two loads |

Loads of a side's own index are merged with the step that uses them, since nobody
else stores it. Steps are interleaved, which is what the release/acquire pairs of
the code give to data that is published by one index store; weaker orders are not
explored. A handle is used in its own role only, and `pop()` only after a `front()`
that returned a pointer, as its comment (271-273) requires.

### RoleSlot

`BindStart`, `BindLoad`, `BindTest`, `BindCas` and `BindCasSpurious` are `bind()`
(430-468) up to each access to the slot; a weak compare-and-swap may fail for no
reason. `Detach` is `detach()` (414-427) of a bound handle. A bind that throws
ends in `out` and leaves the slot alone. `Spawn`, `Die` and `Reap` are the
environment: a dead process is a zombie, which `kill(pid, 0)` still finds, until
it is reaped. `UserOf` makes `kill` answer EPERM; `PidsReused` lets a pid come
back.

### SpscTakeover

Uses `RoleSlot` twice and adds a ring with `try_push` and `try_pop` cut between
the copy and the index store, where a crash shows. `ProducerBindStart` and
`ConsumerBindStart` load the cached index (435-436) before the slot is looked at.
The history variable `overtaken` names the handles inside `bind()` whose role's
index the old owner moved after that load; `clean` says that none of them has
claimed its role. Any process may be the first to bind; in the code that is the
creator.

### Blocking

Producers that send `Total` messages each, and a consumer that drains the ring, each
a process that runs its program once. The ring has its two indices, and each handle
its cached one. `try_push`, `try_pop` and `pop_n` are one step each, which
`SpscRefinement` justifies between one producer and one consumer, and
`TakeoversShareFifo` across producers as long as takeovers are clean. An attach is three
steps: the load of the cached index, a look at the slot, and the claim, which is one
step because `RoleSlot` implements `RoleLock` (`ClaimIsAtomic`; a process has one handle
here, and no pid comes back).

As in `SpscTakeover`, `overtaken` names the producers in `bind()` since whose load
`writeIdx` has moved, and `clean` says that none of them has claimed the role. There is
one consumer, so only producers take over. A takeover that is not clean is not excluded:
the producer then trusts an index of an earlier lap (435-436) and may run over the ring,
and the model follows what this does to the indices and to the count of messages. What
it does not show in such a history is a slot torn between two copies, and the `assert`
of `pop()` (276), which the release build leaves out.

| actions | code |
| --- | --- |
| `Create` | `create` at the head of `demo_consumer.cpp` (30-36), or in a program whose producer creates the queue |
| `AttachOpen` | `attach` (182-209), and `bind` as far as the loads of the cached indices (430-436) |
| `BindLook`, `BindClaim`, `AttachThrows` | `bind` (447-468): it claims a slot with no live owner, or throws because of the owner it saw; `attach` also throws at its deadline |
| `WaitForPeer`, `WaitTimesOut` | `waitForPeer` (396-412) sees a pid; or its deadline passes (407-409). The demo's consumer then calls it again (`demo_consumer.cpp` 37); a producer that created the queue calls it once and ends (`bench_latency.cpp` 56, `bench_throughput.cpp` 46) |
| `PushTry`, `PopTry` | one turn of the loops of `push` and `pop` (324-352), or of the demo's drain loop with its sequence check (`demo_consumer.cpp` 53-82) |
| `PeerLoad`, `PeerAnswer`, `EmptyTest` | `peerAlive` (378-387): the load of the pid and `kill` are two steps; then `empty` |
| `LoopCalls`, `LoopEnds` | the loops' conditions: messages left |
| `Stopped` | a loop that reads `g_stop` finds it set by SIGINT or SIGTERM |
| `Die`, `Reap` | a process ends without destructors; its parent waits for it |

`style` chooses between a consumer that calls `pop(out)` and the demo's `pop_n`.
`ParentOf` says who reaps a process: a shell, which does so at once, or another of
the processes, which does so after its program. The latency samples, the reports and
the checksum of the demo are left out; message contents are `SpscRing`'s matter.

### Bench

`batch = 0` is `bench_latency`, any other value one `run()` of `bench_throughput`.
The parent forks, waits for the child to attach to every queue, sends and reaps; the
child echoes or drains and exits. `Fork` may fail without the parent noticing,
`ChildAttach` may throw, and `Killed` ends the child from outside. Time stamps,
samples and output are left out.

### QueueLife

The shared-memory name, the objects made under it (a name may be unlinked while
objects are still mapped), and the handles with the members that decide what a
destructor releases: `seg_` with `owner_`, `ctrl_`, `bound_`, `role_`.

| actions | code |
| --- | --- |
| `CreateUnlink`, `CreateOpen`, `CreateSize`, `CreateMap` | `ShmSegment.h` 36-57 and 113-131, with the failures of `shm_open`, `ftruncate` and `mmap` |
| `CreateFill`, `CreateBind`, `CreateReady` | 157-176 |
| `AttachStart`, `Deadline`, `AttachOpen`, `AttachReady`, `AttachBind` | 182-209: the polling loop, then `validate` and `bind` |
| `Throw` (part of the above) | an exception leaves the call and the local handle is destroyed |
| `Detach`, `DetachReset` | 414-427; with another handle as source, the move assignment (116-122) |
| `MoveToEmpty` | move construction (114), and assignment to an empty handle |
| `Remove`, `Die` | `ShmSegment::remove`; a process ends without destructors |

`bind()` is one step here, which `ClaimIsAtomic` justifies; `RoleSlot` has its steps. Objects have a size, and
control blocks the geometry `create()` writes (`Geometry`): `bytesNeeded` (139-148) is
evaluated in a `size_t` that wraps at `SizeMax + 1`, behind the test that is meant to
keep it from wrapping, and `validate()` (470-504) computes what the slots need with no
such test. A process that opens a segment sees its size rounded up to `Page` bytes or
not, as the kernel does it. The magic, version and cache line size are one with
`layout`: every process runs this library. Handles in one process may act at the same time, as threads with a
handle each do. `contested` is history: the name was removed, or created over a
living owner or creator. In such a history an owner does lose its name, because
`reset()` unlinks by name (`ShmSegment.h` 105): with `q = create(sameName, ...)` the
new object is made first, and the old handle then unlinks the new object's name.
The peers of the new queue can no longer find it. No document promises otherwise,
and `OwnerKeepsName` is stated for histories that are not contested.

## Runs

| run | question | result |
| --- | --- | --- |
| `ring` | do all interleavings of all calls deliver in order, race-free and wait-free, and implement the FIFO? | holds, 144,393 states |
| `role_exclusive` | do three processes of two users exclude each other, see each other, and keep what they own; is a role a lock? | holds, 2,605 states |
| `role_two_handles` | two handles in one process: is the role still exclusive? | no |
| `role_pid_reuse` | is it exclusive when pids come back? | no |
| `takeover` | do crashes and takeovers lose, repeat or tear messages; is there one FIFO throughout? | not if the old owner's index stood still during `bind()`; 613,489 states |
| `takeover_stale_cache` | is the new owner's cached index always safe? | no |
| `life_moves` | does every handle use only what it has mapped, keep its name, and leave none behind? | holds, 391,986 states |
| `life_attach` | does an attach see a complete queue with all its slots in mapped memory, disturb no registration when it fails, and end, soon after its deadline? | holds, 146,912 states |
| `blocking` | does a waiting call give up when, and only when, it should; is everything drained; does everybody get to the end, and how soon? | holds, 297,297 states |
| `blocking_forked` | does `push` return when the consumer is a dead child of the producer? | no |
| `blocking_missed` | does the demo's consumer notice every producer that attaches and sends? | no |
| `bench` | is what the benchmarks report delivered, do the two processes ever wait for each other, and do they end? | holds, 337 states |

The five runs that end in a violation:

- `role_two_handles`. `bind()` accepts a second handle of the owning process
  (449-450). When either handle detaches, the slot becomes -1 and another process
  may attach while the other handle is still in use. `README.md:204` says that a
  second producer or consumer is refused.
- `role_pid_reuse`. Process 2 finds the pid of dead process 1 in the slot. Before
  its compare-and-swap a new process gets that pid and binds by the re-attach exit
  (449). The compare-and-swap of 2 still succeeds. The comment at 442-446 says
  exactly one wins.
- `takeover_stale_cache`. Producer 2 loads `readIdx` in `bind()` while producer 1
  still runs. Producer 1 sends more, wraps and detaches. Producer 2 claims the role
  with a cached index from the lap before and takes a full ring for an empty one.
  `README.md:108` says that a stale value never errs toward "space available".
- `blocking_forked`. The consumer is a child of the producer and dies. Nobody has
  waited for it, so `kill(pid, 0)` still succeeds, and the producer, which would wait
  for it later, spins in `push()` for ever. The comment at 323 says that `push`
  "Returns false if the peer process exited."
- `blocking_missed`. The consumer has created the queue. A producer attaches, sends and
  detaches between two looks of `waitForPeer()`. The slot then holds -1 and the ring the
  message. Each call of `waitForPeer()` runs into its deadline, and `demo_consumer.cpp` 37
  calls it again for ever. The comment at 393 says that it "Blocks until the peer has
  attached." `PeerNoticed` is stated of this consumer only: a producer that creates the
  queue gives up at the deadline (`WaitTimesOut`).

One disagreement with a document is a property that holds. The comment at 354-357 and
`README.md:208-212` say that `size()` can report a value near capacity for a nearly empty
queue if the peer advances between its two loads. For the producer and the consumer it
cannot (`SizeSafeForEndpoint`, checked by `ring`, proved as `SizeSafe`): the endpoint's own
index stands still during its call, so the other one is merely old. The consumer gets at
most what is there, the producer at least that, and never more than `capacity()`. The
warning holds for an observer beside which both indices move, such as another thread that
calls `size()` on an endpoint's handle; the library gives out no handle without a role.

What the properties of `blocking` say: when `pop` or the demo gives up, the ring holds
nothing of a producer that had ended when the consumer saw it dead
(`NothingLeftBehind`); a producer gives up only on a consumer that has come and gone
(`GivesUpOnGonePeer`); the demo counts one sequence error per change of producer and no
other as long as every takeover is clean (`ErrorsAreRestarts`; `takeover_stale_cache` shows
why the premise is needed); a producer that has had a peer gets out of `push`
(`PushReturns`), and a consumer that has had one gets to the end (`DrainEnds`). `PushGivesUp` and
`DrainBounded` say how: once its peers are gone, every step of the waiting side's own
makes a measure of the steps left smaller (`PushLeft`, `DrainLeft`), wherever in its loop
it was when they went. Before the first peer attaches both may wait for ever, as the code intends (383-385).

### Bounds

`ring`: `Requested = {0, 2, 3}` gives rings of 2, 3 and 4 slots, with the smallest
one reached through `create()`'s correction of 0. `MaxBatch = 3` fills the largest
ring and splits a batch at every position of the wrap. `MaxMsgs = 6` lets the
indices pass the end of every ring, so a batch meets slots of an earlier lap, and
caches go stale by as much as a ring holds. The proofs cover all other values.

`RoleSlot`: three processes give an owner and two competitors, the least for which
a lost compare-and-swap can follow a reclaimed pid. The mixed-user case needs the
third process to be of another user. The two-handle run has two processes, one
with two handles; what holds for any number of handles per process
(`ReleasedOnlyByOwner`) is proved.

`SpscTakeover`: three slots, two producers and two consumers, of which at most three
run in one behaviour (`FewProcs`, a constraint on the states TLC explores, with
`MaxProcs = 3`): two in turn in one role against one in the other, for either role.
The pids of a role are handed out in order. Four messages are enough for the old owner
to go around the ring while the new one is in `bind()`. The proofs need no bound.

`Blocking`: two producers, one after the other or at once, and one consumer; `Creators` says
who may create the queue: the consumer as in the demo, or producer 1 as in the benchmarks. A ring of two with three
messages per producer fills up, wraps, and holds the last messages of one producer when
the next attaches; a producer in `bind()` can be overtaken by a whole lap. `PeerCheckSpins = 1` stands for 4096: there is one try that does not
look for the peer and one that does. `Batch = 2` takes messages of both producers in
one batch.

`QueueLife`: two handles in one process, so that moves have a source and a target,
and one in another; two objects, the least for a name to change its meaning.
`life_moves` has one element type and both roles, so moves mix roles;
`life_attach` has two types and one role, so both `validate` and `bind` refuse.
`SizeMax = 15` is a four-bit `size_t`, and the requested capacities are accepted, wrap
in the product, or wrap in `capacity + 1`.

`Bench`: queues of three; ten round trips and two for warming up; nine messages
in batches of 1, 2 and 4, so that a total that is no multiple of the batch occurs, and
a batch that does not fit the ring.

`CHECK_DEADLOCK FALSE` is set for all runs but `ring`: processes are finite in number,
and when all are gone nothing happens. The `ring` run checks deadlock.

### Fairness

`SpscRing`: weak fairness of the steps that carry on a call already begun, each
side on its own. Calls are straight-line code, so this only says that a running
process is scheduled. Nothing is assumed about callers beginning calls.

`RoleSlot`: weak fairness of the load and the tests, strong fairness of the
compare-and-swap, which says that `compare_exchange_weak` does not fail spuriously
for ever. A dead process's handle is out of `bind()`, so nothing is asked of it.

`QueueLife`: weak fairness of the deadline, since time passes, and of the steps of an
`attach()` in a running process. Creators owe nothing: one may die or stall anywhere.

`Blocking`: weak fairness of each process's own steps, since a running
process is scheduled (`push` and `pop` even yield), and of a parent's wait for its
children. No process has to start, and none has to be signalled.

`Bench`: weak fairness of the parent and of the child. The parent's wait for its peer
has a timeout, so that the parent moves on when the child never attaches.

### Faults

Definitions named `X_Fault` are `X` with one slip, such as a dropped test, a
missing wrap or a stale value kept. Each property of a passing run is violated when
one of them takes the place of `X`; `mutants` in `PROJECT.json` says which.

## Proofs

Ring (`SpscRingProofs`), for every set of capacities, batch size and number of
messages:

- `RingInvariant`: `IndInv` is inductive. It says that the indices count the
  messages (`usedSlots(writeIdx, readIdx) = pushed - popped`), that the slots from
  `readIdx` on hold exactly the messages `popped, popped + 1, ...`, that the cached
  indices are conservative, and, for a call under way, that its batch fits by the
  cached index. The last part is what makes it inductive: between its test and its
  index store a call relies on its cached index only, and the other side's steps
  can only add to what that index promises.
- From it: `TypeCorrect`, `Delivery`, `CachesSafe`, `SizeSafe`, `FrontStable`,
  `PopNeverOnEmpty`, `SlotsNotShared`, and the action properties `PushExact` and
  `PopExact`.

The arithmetic is in a few lemmas: how `freeSlots` and `usedSlots` change when an
index moves (`AdvanceWrite`, `AdvanceRead`), that the two memcpys touch the run of
slots from the index on (`RegionIsRun`), and that free slots are not used ones
(`FreeNotUsed`).

`SpscRefinement.Refinement`: the mapping reads the FIFO off the slots; a push takes
effect at its index store, a pop at its index store, a refused call at the load that
finds the ring full or empty. Every other step stutters.

Roles (`RoleSlotProofs`), for any number of processes: `SlotInvariant`, `Exclusion`
and `OwnerVisible` assume one handle per process and no pid reuse, and the
violation runs show that neither assumption can be dropped for exclusion.
`LiveOwnerKept` assumes no pid reuse only.

`ClaimIsAtomic`, under the assumptions of `Exclusion`: `RoleSlot` implements `RoleLock`.
The holder is the pid in the slot, or nobody while the slot is 0 or -1; a handle asks from
`BindStart` on, meets a holder when it loads the slot or a compare-and-swap fails, is
granted the role by the compare-and-swap, and is refused by the test that finds the pid
alive. `bind()` judges a pid dead some time before it swaps; the proof needs that a
process judged dead stays dead and that nobody else can have put its pid back.

`SpscTakeoverProofs.RolesStayLocks`: the same of each of the two slots of `SpscTakeover`.

Takeover (`SpscTakeoverProofs`), for any capacity, any sets of producers and
consumers and any number of messages: `InOrderAcrossTakeovers`, `UnreleasedAlwaysKept`
and `CachesAfterTakeovers`. The invariant `TakeoverInv` has the two role slots'
`SlotInv`, taken from `RoleSlotProofs` through `INSTANCE` (every step of the whole is a
step of each slot, or leaves it alone), and, for clean histories, `RingInv`: the
indices count the messages, the unreleased ones are in place, and the cached index is
conservative not only for an owner but for every handle in `bind()` that has not been
overtaken. The last part is needed for the step in which such a handle becomes the
owner. That a role has one owner at a time is what keeps an old owner from moving the
index afterwards.

`TakeoversShareFifo`: `SpscTakeover` implements `CrashFifo` as long as takeovers are clean.
The FIFO is read off the slots from `readIdx` on; a publication sends, the copy in
`try_pop` receives, the store of `readIdx` releases, and the death of a consumer between
the two puts nothing back, since nothing was taken. A producer that dies before its store
has sent nothing. `takeover_stale_cache` shows that the restriction to clean histories is
needed.

Sizes (`QueueLifeProofs.BytesExact`): for every width, element size and capacity, a
capacity that `bytesNeeded` accepts wraps neither there nor in `validate`.

Life of a queue (`QueueLifeProofs`), for any number of processes, handles, objects and
requested capacities: `MappedAlways`, `NameKeptAlways`, `NoLeakEver`, `CompleteAlways`,
`SlotsMappedAlways` and the action property `SlotClearedByDetachAlways`. The invariant
`LifeInv` has three layers, each proved from the ones before:

1. `HandleInv`: the members of a handle fit the call in progress on it, and the source
   of a move assignment belongs to that assignment alone until it ends. Without the
   last part two assignments could leave one segment in two handles.
2. `NameInv`: no two handles own or make the same object; in a history that is not
   contested only one handle does either, and the name is its object's.
3. `ObjInv`: what is written in the object of a `create()` in progress at each of its
   steps, and that every ready object has a complete and exact geometry. Here
   `BytesExact` enters: an exact geometry is what makes `validate`'s unchecked
   arithmetic right.

`AttachIsBounded`: once its deadline has passed, an `attach()` has at most four steps
left, and what other handles do adds none (`OtherHandles`; for the end of a move
assignment this needs `HandleInv`, which says whose source a handle may be).

Blocking calls and the demo, for any number of producers, any capacity, batch and number
of messages. `BlockingProofs` has `GivesUpRightly`, from the invariant `BlockingInv`:

1. `ProgramInv`: types, only running processes are in their programs, and nothing has
   happened to the segment while the creator has not come out of `create`
   (`CreatorFirst`).
2. `GoneInv`: what a producer has read from the consumer's slot stays true. A pid there
   means that the consumer has started, and a detached slot that it has ended.

`BlockingStreams` has `NothingLeftEver` and `CountsRestarts`, from `ContentsInv` on top of
it:

3. `LeftInv`: when the consumer has given up, nothing in the ring is from a producer
   that had ended when the consumer saw it dead. This needs the last `empty` test to come
   after the answer of `kill`, and an ended producer to push no more. It holds in
   unclean histories too.
4. `RingInv`, for clean histories: the cached indices promise no room and no message that
   is not there, for the producer at work and for each one in `bind()` that has not been
   overtaken. A push then appends and a pop takes the oldest (`PushRing`, `PopRing`).
5. `StreamInv`, for clean histories: the messages in the ring are one run per producer,
   with consecutive numbers; a run starts at 0 unless its beginning has been received, and
   then it goes on at `expect`. A producer at work holds the role and goes on where the
   last run ends. The gaps the demo counts in a batch are then the starts of runs but for
   the first of all (`GapsAreNew`), so their number is the number of producers heard, less
   one.

`CountsRestarts` says nothing of a history that is not clean: there a producer may run over
messages that nobody has received, and the count means nothing.

`PushIsBounded` and `DrainIsBounded` (`BlockingProofs`) prove the two measures, clean or
not, with the types of the spin counters (`SpinsInv`), and that the consumer never took a
consumer's pid for its peer's and looks for its peer only when its cached index has met
`readIdx` (`SeenInv`). A 0 that was read before the peer attached sends either loop round
once more, which is why the measure is larger there. The drain's measure counts what the
consumer may still take, up to its cached index and from there to `writeIdx` (`ToTake`),
and gives each of these messages more than a whole turn of the loop, so that taking a
batch pays for looking again.

Benchmarks (`BenchProofs.DeliveredAlways`), for any capacity, total and batch sizes: the
invariant says where the messages on their way are (in the queue for a throughput run,
at most one in ping, hand or pong for latency), and that a child which has attached ends
by finishing its loop or is killed. From the same invariant `NeverStandoff`: when the
parent waits, the message or the room it waits for is the child's to give, and the child
can go on. Nothing like this holds of a child that is killed: the parent then spins for
ever (`bench_latency.cpp` 72), and `BenchEnds` excepts it.

Assumptions: `RequestedAssumption`, `BoundsAssumption`, `SlotConstants`,
`TakeoverConstants`, `GeometryConstants`, `LifeConstants`, `BlockingConstants` and
`BenchConstants`, which give the constants their types.

Checked by TLC only: `CallsReturn`, `BindEnds`, `AttachEnds`, `PushReturns`,
`DrainEnds` and `BenchEnds`: liveness under fairness, and ENABLED, are beyond the proof
system. For four of them a part that is safety is proved: `AttachIsBounded`,
`PushIsBounded`, `DrainIsBounded`, and for `BenchEnds` `NeverStandoff`. What is left to TLC
is that a running process is scheduled, for `PushReturns` and `DrainEnds` that a peer which
is not gone makes progress, and for `BenchEnds` that the loops come to their end. For `BindEnds`
no such measure exists, since a weak compare-and-swap may fail any number of times.

## Not modelled

- Memory orders weaker than interleaving: every model takes the release/acquire pairs
  to order what the code wants them to order.
- Batches, `front` and `size` across a takeover. They store the same index once, at
  their end, as `try_push` and `try_pop` do.
- `common.h`: the checksum, the clock and the percentiles are computed from data and
  decide nothing. `printLatency` takes the last element of its samples (73) and
  `bench_latency` calls it without a test for none.
- What `kill` does with the pid -1 of a `fork` that failed (`bench_throughput.cpp` 48,
  `bench_latency.cpp` 58): `Bench` has the failed fork and the timeout, not the other
  processes of the machine.
- `validateName`, a test on strings; `exists`, which changes nothing; `release`, which
  nobody calls.
- Timing, progress reports and output of the programs; the test suite.
