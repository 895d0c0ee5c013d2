# TSL: a verification project

TLA+ models of `tsl`, the C support library of trading_base: what its lock-free
queues, threads, allocators, heaps, timers, trees, tables and its logger promise,
checked by TLC on small instances and, for all but the tree, proved with TLAPS for
every instance.

Contents: [the system](#the-system), [modules](#modules), [runs](#runs),
[bounds and fairness](#bounds-and-fairness), [proofs](#proofs),
[where code and documentation disagree](#where-code-and-documentation-disagree),
[what is not modelled](#what-is-not-modelled), [status](#status).

## The system

| Part (under `src/tsl/`) | State | Operations | Hard because | Correct when |
|---|---|---|---|---|
| `megaqueue/` cursors | `head`, `tail`, `_delete` and the slots, in shared memory | `next_slot`, `advance`, `read_next_slot`, `read_advance`, `read_only_advance`, `delete_advance` | three processes without a lock; a process may die between two stores | a reader gets every item once, in order and whole; a reserved slot can be published |
| `megaqueue/` open, close | the shared memory object, the header, each process's handle | `megaqueue_open`, `megaqueue_close` | a consumer may open at any step of the producer's set-up | a handle is given out for a complete queue only |
| `threading` | `struct thread`: state, pthread, result | create, start, join, destroy | state is written by both sides; `cpu_mask_apply` fails in the new thread | used by the next two |
| `worker_thread` | the state word `st` | new, request_shutdown, delete, is_running | loads, stores and a compare-and-swap of `st` interleave | a requested shutdown sticks and happens; delete returns |
| `work_queue` | a `ck_ring` of pointers | push, pop (single and multi consumer) | full, empty | nothing is lost, duplicated or reordered |
| `offload/` | pool, work threads, their endpoint queues and lists | add_thread, add_endpoint, shutdown, destroy; the work thread's loop | a controlling thread against its work threads; failures of either | no struct is freed under its thread; every endpoint is polled by one thread, and shut down |
| `alloc/allocator` | pages of a shared pool, slabs, lazily built free lists | new, alloc, free, delete | free lists mix untouched and returned items; the pool runs dry half way | no item is handed out twice, no page is shared |
| `fixed_heap` | an array, its capacity and its fill | push, pop, peek, remove_item, resize | incomplete last level, removal from the middle | the root is the best item, nothing is lost |
| `timer` | deadlines in a `fixed_heap`, a list of live timers | arm, arm_at, disarm, fire_next | the clock moves; callbacks re-arm; keys change in the heap | timers fire once, in order, and no sleep is too long |
| `rbtree` | links, colours, cached rightmost node | insert, find_or_insert, remove, find, successor, predecessor, traverse | rebalancing over several levels, swaps of neighbours | a balanced search tree of what was inserted |
| `refcnt` | the count of an object | init, get, release, check | gets use a compare-and-swap, releases do not | the count is the number of references, the destructor runs once, for the last |
| `alloc/logalloc` | cells with headers, `log_head`, reference counts of one byte | new, alloc, reference, free, prepare_region, finalize_region, delete | runs of cells are joined, cut and skipped at the end of the log, next to bytes users write | objects share no cell; when all are freed everything fits again |
| `logger/` | `state`, a tree of handlers, `out_queue`, `in_queue` | initialize, add_message_handler, start; the endpoint's startup, poll, shutdown | three threads; queues fill, the work thread stops | a message is handled once, in order, and comes back to its sender |
| `hash_table`, `list` | buckets, links, stored hashes | init, insert, find, delete, cleanup; append, del, traversal | collisions; links mended through remembered neighbours | a bucket's list is what was put in; find agrees with it |
| `bits`, `cpumask`, `config`, `app`, `time`, `panic`, headers | little or none | | | |

Interaction: `worker_thread` and `offload` are built on `threading`; `offload`
hands endpoints to its threads through a `work_queue`; `timer` keeps its
deadlines in a `fixed_heap`; the logger is an endpoint of `offload`, with two
`work_queue`s and an `rbtree` of handlers; `hash_table` keeps its nodes in `list`s.
Megaqueue, worker thread, offload, the allocator's page pool, reference counts (of
`refcnt` and of `logalloc`'s cells) and the logger are shared between threads or
processes; everything else belongs to one thread.

## Modules

Definitions have the names of the C functions where there is one function to
name; a function whose steps interleave with another thread is split into one
action per access to shared state. Definitions marked *Mutant* are plausible
mistakes in the code; substituting one for the definition that follows it must
break a property, which shows that the property says something about the code.

**BoundedLog.** The abstract specification: a log of at most `Capacity` retained
items; publish the next, consume the oldest unread, release consumed ones.

**Megaqueue** (`megaqueue_priv.h`). `head`, `tail`, `del` are the header's
cursors and `mem` the payloads. Each process has a control point: the producer
asks for a slot, fills it in two steps (in between it is `Torn`), checks and
publishes; the reader takes a slot, copies it in two steps and advances with
`read_advance` (two stores) or `read_only_advance`; the deleter checks and stores.
`ReaderCrash` and `DeleterCrash` lose the locals and leave the cursors. Memory is
assumed to be ordered as on x86.

**MegaqueueOpen** (`megaqueue.c`). The producer's `shm_open`, `ftruncate`,
prefault and the stores of the superblock, each a step, against consumers that
open, read the header, map, check and close. Objects are unlinked names with a
size and a header.

**Threading** (`threading.c`). The life of a `struct thread` as operations on a
record. **WorkerThread** (`worker_thread.c`) keeps one per worker, and makes every
load, store and compare-and-swap of `st` a step. **WorkPool** (`offload/`) keeps
one per work thread, with its endpoint queue, its list and `signal_death`; the
controlling thread's traversals take one step per thread, the work thread's loop
one per access to what is shared. Lists are sets: their order is left open.

**WorkQueue** (`work_queue.h`). Creation, push, pop and fill of both kinds of
queue as functions of the ring's contents, over an external `ck_ring`.
**WorkQueueSpmc** adds a producer and a consumer that believe the results of the
multi-consumer kind.

**Logger** (`logger/logger.c`) composes two such queues with the three activities
around them: the thread that registers handlers and calls `logger_start`, the
sender (external: the library has no function for sending), and the work thread of
`offload`, reduced to what an endpoint sees of it: startup, polls, shutdown, or
never being started. The poll function takes one step per access to a queue. A
poll of an empty queue reads `lmsg` uninitialized, which at `-O0` (the logger's
makefile) is what the previous poll left there: `PollEmpty` and the copies `-m`.

**Refcnt** (`refcnt.h`). Owners that get and release references to one object,
each load, store and compare-and-swap a step. Nothing keeps the calls of different
owners apart, although line 145 ("Don't need to do this atomically") would need it.
Three interleavings go wrong, and `races` remembers which of them have happened: a
release stored over a count that had changed since its load (`"lost"`), a get swapped
a 0 for a 1 (`"revived"`), the count reached 0 while another release was about to
test it (`"together"`). The test of line 148 may read the count again or use the value
just stored: it is a plain variable.

**Logalloc** (`alloc/logalloc.c`). `hdr` is what each cell starts with, read as a
header, whether a header was written there or a user's bytes (`Payloads`). Walks
along the headers are a recursive function (`Positions`), and a search stops at the
first of the cells they reach that meets one of the code's conditions. `live` are the objects the callers
hold. `faults` records the four places where the code goes wrong on its own (see
the disagreements), so that the properties can be stated for logs without one; a
log with a fault that is not in `Explored` is left alone.

**List** (`list.h`) and **HashTable** (`hash_table.c`). Links are two functions
from entries to entries, changed store by store; buckets are entries 0, 1, ... and
nodes are model values. `FREED` stands for a bucket that was given back. The
caller's hash function, `&` and the comparison function's failures are constants.

**SlabAllocator** (`allocator.c`). Pages with a slab header, items with their
`next` field (untouched, `LINK` for the lazily linked neighbour, or an item), and
the pool. `allocator_new` and `allocator_delete` take one step per page, because
another thread's allocator may take or return pages in between.

**HeapOps** (`fixed_heap.h`): sift up, sift down, pop, as operators on an array.
The two loops are recursive functions of the place and the array, and the
comparison function a table of its results, which is what can be proved about.
**FixedHeap** is the container, **TimerManager** (`timer.c`, `timer.h`) the timers
on top of the same operators: arming, disarming, firing with a callback that does
nothing or re-arms, and a clock. The comparison function's result is cut to
`IntBits` bits as the C function's is to 32; `cut` remembers that deadlines have met
in the heap whose difference does not survive that.

**RBTree** (`rbtree.c`, `rbtree.h`). The pointer structure as a record; code that
the library has twice, mirrored, is written once with the side as a parameter.

The `MC` modules only define values for constants. **WorkerThreadProofs**,
**WorkPoolProofs**, **SlabAllocatorProofs**, **LoggerProofs** and **HashTableProofs**
hold the theorems about the module they are named after, **MegaqueueProofs** those
about Megaqueue and MegaqueueOpen, **HeapProofs** those about HeapOps, TimerManager
and FixedHeap, **ReferenceProofs** those about Refcnt and Logalloc. Where one proof
module extends two components, the second one's initial predicate, next-state
relation and specification have names of their own (`OpenSpec`, `HeapSpec`,
`LogSpec`).

## Runs

Run each with `tlc -config <cfg> <module>`.

| Run | What it asks | What it shows |
|---|---|---|
| `megaqueue` | 4 slots, 7 items, both ways of advancing, up to four deaths | retained slots are intact (`RetainedIntact`), a reservation holds (`ReservationHolds`), delivery is in order and untorn (`DeliveredInOrder`), a dead reader costs one slot at most (`LockstepLag`), the queue implements BoundedLog (`Refinement`) and everything is delivered (`AllDelivered`), unless `Count - 1` lockstep readers have died, which can leave the queue empty and full (`NeverEmptyAndFull` below) |
| `megaqueue_open` | a producer that unlinks what it closes, two consumers, two geometries | handles are given out for complete queues (`OpenIsComplete`) |
| `worker_thread` | two workers with failing creation and masks | no thread outlives its struct (`NoOrphan`), a request is not undone (`RequestSticks`) and is honoured (`RequestIsHonoured`), delete returns (`DeleteReturns`) |
| `work_pool` | two threads, two endpoints, all failures | no use after free (`NoUseAfterFree`), a started endpoint has one poller until it is shut down, which is done before its thread leaves (`StartedIsListed`), signalled threads exit (`SignalledExits`), queued endpoints leave the queue (`QueuedIsPicked`) |
| `slab_allocator` | two allocators of different item size, three pages | free lists are sound (`FreeListSound`), pages have one owner and held items live in owned pages (`PagesOwned`), there is always a first slab, and it has room if any has (`FirstSlabServes`) |
| `fixed_heap` | six items, two equal, resizing | nothing is lost (`NothingLost`), and until `remove_item` is used the array is a heap (`HeapOrdered`) |
| `timer_manager` | four timers on a manager for three, deadlines that an int of two bits tells apart and others | armed timers are in the heap (`ArmedIsPending`) and fire (`ArmedFires`); until `timer_disarm` is used they fire once each (`FiresOnce`) and, until a difference of deadlines was cut, in order (`EarliestFirst`), and `*pnext` is a safe time to sleep to (`SleepIsSafe`) |
| `rbtree` | twelve nodes, two with one key | red-black rules (`RedBlack`), lookups and traversal (`FindsAll`), successor, predecessor and rightmost (`NeighboursInOrder`) agree with the set of nodes inside |
| `refcnt` | three owners, gets and releases in any order | until one of the races the module names, the count is exact (`CountIsExact`) and the destructor runs once, also when the last reference is dropped during a get (`DestroyedOnce`); a get loops only as long as others change the count (`GetReturns`) |
| `logalloc` | six cells, three objects, counts up to 3 | no overlap (`NoOverlap`), true headers (`HeadersTrue`), a log without objects serves whatever fits (`EmptyServes`), as long as there was no fault |
| `logger` | queues of 8, messages of three types, one of them unregistered, senders with 7 or 8 messages out | every message is in one place or lost for a known reason (`EveryMessageAccounted`), handlers get theirs once and in order (`HandledOnceInOrder`), `state` only advances (`StateAdvances`), messages come back (`MessagesComeBack`) |
| `hash_table` | four nodes, tables of 2, 3 and 4 buckets | bucket lists are sound in both directions (`BucketsAreRings`), lookups agree with what is inside (`FindAgrees`) |

`TypeOK`, `CursorOrder` and `WorkIsVisible` are not checked by a run: they are
proved.

Claims of the code's comments that the code does not meet are
stated in the modules too; the [table of disagreements](#where-code-and-documentation-disagree)
says how TLC refutes each, and eight of them have a configuration ready:

| Configuration, module | Claim | Counterexample |
|---|---|---|
| `MegaqueueWedge.cfg`, Megaqueue | `NeverEmptyAndFull` | three readers in a row die between the stores of `tail` and `_delete` |
| `WorkPoolShutdownRace.cfg`, MCWorkPool | `ShutdownReachesAll` (under fairness) | the pool is shut down between `thread_start` and the thread's first instruction |
| `WorkQueueSpmc.cfg`, WorkQueueSpmc | `SpmcExactlyOnce` | the first push answers A_E_BUSY, and the item is pushed again |
| `FixedHeapRemove.cfg`, MCFixedHeap | `RemoveKeepsHeap` | the last item replaces one of another subtree and is greater than its new parent |
| `TimerDisarm.cfg`, MCTimerManager | `DisarmedStaysQuiet` | a timer is armed, disarmed and fires |
| `TimerTruncation.cfg`, MCTimerManager | `SortedByTime` | two deadlines four units apart with an int of three bits |
| `RefcntRace.cfg`, MCRefcnt | `ReferenceIsSafe` | a get succeeds between the load and the store of a release |
| `RefcntRevive.cfg`, MCRefcnt | `LastReleaseDestroys` | the last release stores 0 between the check and the load of a get |

## Bounds and fairness

Bounds are constants, named in the guards they appear in.

- Megaqueue: 4 slots keep 3 items; 7 items go around the ring almost twice, so
  every cursor wraps while the others are at any distance; three deaths
  (`Count - 1`) are enough for the lag to fill the ring, four go beyond. The proofs
  have no bound on the number of slots.
- MegaqueueOpen: two objects let a name be unlinked and created again under a
  consumer that still uses the first; two geometries let consumer and producer
  disagree.
- WorkPool: two threads and two endpoints, a queue of size 4 in place of 32. The
  budget of one round is half the queue's size in the code and in the model, so
  two endpoints use it up. Queue size and budget appear nowhere else.
- SlabAllocator: three pages for two allocators that want two or more each: the
  pool runs dry in every operation. An allocator grows up to `MaxTotal` items;
  the bound is needed because `max_items` never shrinks (see below).
- TimerManager: a heap of three has a root with two children, a fourth timer finds
  it full. With `IntBits = 2` and times from 1 to 3 a difference of 1 is exact and one
  of 2 is cut, so heaps with and without a cut comparison are reached. What
  `fire_next` answered is forgotten with the next step.
- Refcnt: with three owners a get races with a get and a release at once, or with
  two releases, and each of the three races happens; `Modulus = 4` in place of 2^32
  is more than the number of owners, so the count does not overflow. The proofs need
  only that.
- Logalloc: six cells, and headers that count to 3 in place of 255: an object can
  be as long as a header can say, the log is longer than that, and a count reaches
  its limit with three references. Sizes need 1, 2, 3 and 5 cells, the last of
  them refused. Two payloads look like a free run and like an object.
- Logger: a queue of 8, the smallest allowed, holds 7; a sender with 7 messages out
  fits, one with 8 does not; 9 messages; one poll that reads an uninitialized lmsg
  (`MaxStrays`).
- HashTable: two nodes with one key, a key with the same hash, a key that shares
  the bucket in a table of two and not in one of four, a key with hash 0; three
  buckets are not a power of two, which the header asks for and the code does not
  check.
- RBTree: trees of up to eleven nodes reach every case of both rebalancing loops,
  with propagation over two levels.

Symmetry is not used in runs with temporal properties.

Fairness is weak throughout. Megaqueue: producer, reader and deleter are polling
loops in processes the operating system schedules; no fairness on crashes.
WorkerThread and WorkPool: threads are scheduled, application callbacks return,
a controlling thread inside a call of the library finishes it; nobody has to call
anything. Refcnt: a thread inside a call is scheduled. Logger: the work thread
keeps polling and the sender keeps collecting; nobody has to send. TimerManager: time passes and the owner
keeps calling `timer_manager_fire_next`, which is what it is for.
`CHECK_DEADLOCK FALSE` is set for MegaqueueOpen only, where the producer may have
used up the objects and everybody has closed.

## Proofs

`tlapm MegaqueueProofs.tla`. Assumptions: `Count >= 2` and that the two bounds are
natural numbers (`CountAssumption`, `BoundsAssumption`, evaluated by TLC on the
`megaqueue` run). Proved for every number of slots, items and deaths:

- `ItemsRetained`, `ReservationsHold`, `DeliveryOrdered`, `LagBounded`: the
  invariants of the `megaqueue` run;
- `TypeCorrect`, `CursorsOrdered`: types, and the order of the three cursors;
- `CursorsAdvance`: no step moves a cursor backwards or past the one before it;
- `ImplementsLog`: the megaqueue implements BoundedLog with `Count - 1` items.

The invariants are not inductive, because each process acts on a cursor it loaded
earlier. `Inv` adds what stays true between a check and its store: the producer's
slot is `head` and the queue cannot have become full (`ProducerInv`: the deleter
only makes room); the reader's slot is `tail` and the queue cannot have become
empty, and what it has copied so far is the item at `tail` (`ReaderInv`: the slot
is not deleted before it is read); the deleter stays behind the reader
(`DeleterInv`); and no more items are retained than published (`CountInv`, needed
for item numbers to be natural). `SuccCases` replaces the modulus by its two
cases, which lets the SMT solver do the rest. Each process's steps are one lemma
with one step per action.

`tlapm WorkerThreadProofs.tla`. No assumptions; proved for every set of workers:

- `ThreadsReaped`: the invariant of the `worker_thread` run;
- `TypeCorrect`, `WorkVisible`: types, and that work is done only while `st` says
  that the worker has started;
- `RequestsStick`: nothing but the end of the thread takes `st` out of
  SHUTDOWN_REQUESTED while the struct is in use, the start-up included.

Here the missing part is `LifeCycle`, which ties three views of one thread: its
control point, the `state` field that both sides write, and the pthread. A thread
inside `__worker_thread_function` is RUNNING and live; an exited one has said
TERMINATED before; `worker_thread_delete` joins only a thread that was created.
With it, delete finding the pthread exited means that the function was left, which
is what `NoOrphan` needs. `CreateOps` and `ThreadOps` say once what the operations
of `threading.c` leave in each field.

`tlapm ReferenceProofs.tla`, first part. Assumptions: a finite set of owners and a modulus greater
than 1 (`OwnersAssumption`, `ModulusAssumption`, evaluated on the `refcnt` run), and
in the theorems `FewOwners`: there are fewer owners than the count can say. Proved
for every interleaving of gets and releases:

- `CountExact`: until a release has stored over a count that changed or a get has
  swapped a 0, the count is the number of references;
- `DestructorRunsOnce`: until one of the three races, the destructor has run if and
  only if the last reference is gone and its release is over, and it has run once.

So there is no fourth way to go wrong. That the three ways do go wrong is what
`RefcntRace.cfg` and `RefcntRevive.cfg` show. `EndInv` is what makes the theorems inductive:
while the count is not 0 the object was not destroyed; when it is 0, one release is
about to test it or has done so, and no other one is; and a release about to test sees
the same whether or not it reads the count again. `CallsInv` says that an owner inside
a call holds no reference. `OneMore` and `OneLess` do the counting, on the finite-set
library.

`tlapm WorkPoolProofs.tla`. Assumptions: an even queue size and what the failing
calls may answer (`QueueAssumption`, `ResultsAssumption`, evaluated on the
`work_pool` run). Proved for every set of work threads and endpoints and every queue
size: `TypeCorrect`, `NoUseAfterFreeHolds` and `StartedListed`. `LifeCycle` is the
same idea as for worker threads, with the life of the struct added: one that was
freed had its pthread joined. `QueuedOnce` and `ListedOnce` say that an endpoint is
at one place of one queue before it is started and in one list afterwards, and
`Traversal` that what a traversal on the way out has still to visit is the whole
list, so that the list is empty when the thread leaves.

`tlapm MegaqueueProofs.tla`, second part. Assumption on the constants: `GeometryAssumption`.
`OpenComplete` is proved for every number of consumers, geometries and queues made
under one name, under the hypothesis that a producer always unlinks what it closes
(`UnlinkChoices \subseteq {TRUE}`; without it the claim is false, see
`PrefaultOnFreshPages` below). The invariant is the order of the producer's stores
against the order of the consumer's loads: the producer works on an object nobody
used before, each of whose fields is zero until its store (`FreshObject`), and a
consumer past its first look at the header knows that `object_size` was stored
(`PassedSize`).

`tlapm LoggerProofs.tla`. Assumptions: those on the constants of Logger, evaluated on
the `logger` run. Proved for every queue depth that `work_queue_new` accepts (the powers of two above 4), every set of types and any number of
messages: `MessagesAccounted`, `HandledInOrder`, `LifeAdvances`, and `TypeCorrect`.
The invariant cuts the messages sent at one place: those after `Popped` wait in
`out_queue` (`Outward`), one may be in the hands of the poll function, the others are
on their way back in order unless lost (`Inward`), and handlers were given the
registered ones among those looked up (`Dispatched`). `Window` counts: a sender that
has no more messages out than a queue holds never finds `in_queue` full.

`tlapm SlabAllocatorProofs.tla`. Assumption: `SizeAssumption` (items are not
empty, and a slab has room for its header). Proved for every set of allocators and pages, all
item sizes and bounds: `TypeCorrect`, `FreeListsSound`, `PagesAreOwned`,
`FirstServes`. `FreeListSound` follows a list whose tail was never written, so it is
defined by iteration; the invariant (`Lists`) says instead that there is a listing of
the free items, each once, whose links are explicit up to some place and from there
on are the lazily linked neighbours. `ConsList`, `TailList` and `DelList` say what
taking and returning an item does to a listing, and `WalkList` that walking the
links visits the listing. Pages are in one place each (`Placed`), items in use are
on pages of living allocators (`InUse`), and `PageStep` treats every action that
moves a page, the one-page steps of `allocator_new` and `allocator_delete` included.

`tlapm HeapProofs.tla`. Assumptions: `TimerAssumption`, and for FixedHeap
`KeyAssumption`, `SizesAssumption` and `NullAssumption`, all evaluated on the two
runs. Proved for every capacity, any items and keys, any number of calls:

- `ItemsKept` and `HeapStaysOrdered`, the invariants of the `fixed_heap` run;
- `ArmedPending` and `FiredOnce` of the `timer_manager` run;
- `EarliestAtRoot` and `SleepSafe` of the same run, for every width of the int. Both
  properties end where `timer_disarm` is used or two deadlines have met in the heap
  that the comparison function does not tell apart (`cut`); `IntHolds` and
  `NearComparable` show that with the 32 bits of the code this needs deadlines 2^31 ns
  apart. `TimerTruncation.cfg` shows what happens then.

A sifting loop is a recursive function, so two things are shown first for any loop
whose places have a decreasing rank: the function exists (`LoopExists`: defined up to
rank n, it can be defined up to n + 1), and what holds where the loop ends and is
carried back by a round holds wherever it starts (`LoopInduction`). The loops permute
the entries in use and nothing else (`SiftUpPermutes`, `HeapifyPermutes`), whatever
the comparison function says; that alone is why an armed timer stays in the heap even
when `timer_disarm` has broken its order. If the comparison orders items by a key, an
array ordered but for one entry is a heap once that entry has risen or sunk
(`SiftUpOrders`, `HeapifyOrders`; between two rounds the parent of the misplaced entry
still beats its children). For timers, `HeldOnce` says that without `timer_disarm`
the heap holds each armed timer once and no other, so that arming a timer changes no
key inside the heap, and `Sorted` keeps with the order of a heap that all its deadlines
are comparable: the order is one only on the timers that are inside.

`tlapm ReferenceProofs.tla`, second part: Logalloc. Assumption: `SizeAssumption`,
evaluated on the `logalloc` run. Proved for every number of cells, every cell and
header size, every limit of the two header fields, all sizes asked for, whatever the
users write, and any number of objects:

- `ObjectsDisjoint`, `HeadersStayTrue` and `EmptyLogServes`: the three invariants of
  the run;
- `LogInvariance`: the invariant they follow from.

Hypothesis: one thread takes references (`OneTaker`). With two, `HeadersTrue` is
false, as the table below says; `ReferenceIncStep` is where the hypothesis is used. The
properties and the invariant are about logs in which no fault has happened; the
theorems also show that nothing else can break the headers.

`HeadersTrue` speaks of a walk from the first cell, which every store changes. The
invariant (`LogInv`) says instead that *some* set of cells R cuts the log: the run at
each cell of R ends at the next one or at the end of the log (`Cut`), log_head is in
R, and the runs of R in use are exactly the objects (`Agree`). `WalkFinds` connects
the two: a walk from a cell of R visits the cells of R from there on. An operation
that writes headers replaces the cuts of one stretch of free runs by others
(`Recut`): `RecutCuts`, `RecutFree` and `RecutTaken` say once what that does to the
log and the objects, and for each operation it remains to show that it is one
(`AllocatedRecut`, `SkippedRecut`, `PreparedRecut`, `FinalizedRecut`), from what its
walk found (`GatherFinds`, `RegionFinds`). In `logalloc_prepare_region` the
stretch ends where the runs gathered end, even though the count of free cells is
wrong at a 0 header: the proof needs only that everything up to the end is free then.
`RegionFree` is what `logalloc_finalize_region` relies on, `TakersSafe` what a thread
relies on between the test and the increment of `logalloc_reference`.

`tlapm HashTableProofs.tla`. Assumptions: `CountAssumption`, `MaskAssumption` (the
mask selects one of the buckets), `LateAssumption` and `NodeAssumption`, evaluated on
the `hash_table` run. Proved for every set of nodes, every hash function, every
number of buckets and any sequence of tables:

- `RingsHold`, if nodes are deleted only while their table exists (`~DeletesLate`,
  what `hash_table.h` asks for; see `NothingFreedIsWritten` below);
- `FindIsSearch`, if moreover the comparison function does not fail
  (`Unreadable = {}`; see `NotFoundIsAbsent` below).

The invariant names the entries of each bucket's ring in their order (`HasRing`):
consecutive ones are linked both ways (`Ring`), they are the bucket's nodes (`Lists`),
in the order of their insertion (`Sorted`), so that all are different. What
`list_append` and `list_del` store makes of one ring another (`RingAppend`,
`RingDelete`) and leaves the rings of other buckets alone, because rings of different
buckets share no entry. A traversal of a ring meets its entries and ends.

Induction over numbers is done throughout without an induction rule: `NatSet` and
lemmas like it take the least counterexample, from the well-foundedness of `<`.

Only model-checked: liveness under fairness (`AllDelivered`, `RequestIsHonoured`,
`DeleteReturns`, `SignalledExits`, `QueuedIsPicked`, `ArmedFires`, `GetReturns`,
`MessagesComeBack`), which the prover cannot do; and RBTree (`RedBlack`, `FindsAll`,
`NeighboursInOrder`), whose operators are RECURSIVE: the rebalancing loops, the
traversal and the measure of black height walk a tree of pointers, and a module with
such operators cannot be proved about. Every other invariant and action property of
a run is a theorem.

## Where code and documentation disagree

For each disagreement the module states the documented claim as a property that TLC
refutes. Eight of them have a configuration of their own (in bold). For the others, check the
named property in place of those of the run's configuration, with the constants given
in brackets changed.

| Claim | Property, run | What the code does |
|---|---|---|
| `offload/pool.h:71` shutdown makes the threads "gracefully shut down" | `ShutdownReachesAll`, **`WorkPoolShutdownRace.cfg`** | `work_thread_shutdown` does not signal a thread that was started and is not yet RUNNING; it runs for ever |
| `fixed_heap.h:267` the last item is sifted "appropriately" | `RemoveKeepsHeap`, **`FixedHeapRemove.cfg`** | it is only sifted down; taken from another subtree it may have to rise |
| `timer.h:135` a disarmed timer is prevented from firing | `DisarmedStaysQuiet`, **`TimerDisarm.cfg`** | the timer stays in the heap with deadline 0 and fires at once |
| `megaqueue_priv.h:125` tail and `_delete` move in lockstep | `NeverEmptyAndFull`, **`MegaqueueWedge.cfg`** | `Count - 1` readers that die between the two stores in a row leave a queue that is empty and full |
| `megaqueue.c:74` "Do not run on initialized pages" | `PrefaultOnFreshPages`, `megaqueue_open` [`UnlinkChoices <- Sometimes`] | `O_CREAT` on an existing object prefaults over it |
| `megaqueue.h:40` `region_size` is the full region | `RegionCoversQueue`, `megaqueue_open` | the size comes from a header read before the producer completed it |
| `megaqueue.c:216` object size comes from the descriptor | `StrideAgrees`, `megaqueue_open` | the handle keeps the size that was asked for |
| `megaqueue.c:113` `megaqueue_open` returns a result | `OpenReturns`, `megaqueue_open` | an object of size 0 is mapped and touched |
| `worker_thread.h:94` SHUTDOWN is terminal | `ShutdownIsTerminal`, `worker_thread` | a request that loaded RUNNING stores over it |
| `worker_thread.h:94` a dead thread is flagged | `DeadIsFlagged`, `worker_thread` | not when its mask could not be applied |
| `work_queue.h:199`, `:221` A_OK on success | `SpmcExactlyOnce`, **`WorkQueueSpmc.cfg`** | the SPMC results are inverted |
| `offload/thread.h:68` endpoints are picked up | `AcceptedIsStarted`, `work_pool` | the one that exhausts the budget is popped and dropped |
| `offload/thread.h:56` destroy fails for an active thread | `DestroyedIsReaped`, `work_pool` | it answers A_OK and the pool is freed |
| `offload/thread.h:59`, `pool.h:51` an error is returned | `NothingUndefined`, `work_pool` | a NULL pointer is followed; a thread that was never created is joined |
| `alloc/alloc_priv.h:53` `max_items` is the maximum count | `MaxItemsIsCapacity`, `slab_allocator` | it is not reduced when a slab is given back |
| `alloc/allocator.c:399` "Should free memory!" | `PagesConserved`, `slab_allocator` | it does not |
| `alloc.h:58` non-growable allocators do not grow | `NoGrowHolds`, `slab_allocator` [`NoGrowFlags <- AskedOnce`] | the flags are never stored |
| `alloc.h:47` at least `item_count` items | `CapacityAsAsked`, `slab_allocator` | the slab header is not counted |
| `fixed_heap.h:87` a failed resize leaves the heap alone | `ResizeKeepsBuffer`, `fixed_heap` [`Sizes = {0, 4}`] | `realloc` to zero frees the array |
| `timer.h:56` sorted by time | `SortedByTime`, **`TimerTruncation.cfg`** | differences beyond an int change sign |
| `timer.h:83` A_OK on success | `FiringIsSuccess`, `timer_manager` | firing the last timer answers A_E_EMPTY |
| `timer.h:58` list of live timers | `LinkedOnce`, `timer_manager` | a timer that found the heap full is linked again |
| `refcnt.h:86`, `:145` a reference is "safe", the decrement need not be atomic | `ReferenceIsSafe`, **`RefcntRace.cfg`** | a release that races with a get or a release loses a count: the destructor runs under a holder |
| `refcnt.h:129` at 0 the destructor is called; `:115` a get expects the last reference to be dropped meanwhile | `LastReleaseDestroys`, **`RefcntRevive.cfg`** | a get that loads the 0 swaps it for a 1 and fails; the release finds 1, and nobody destroys the object |
| `refcnt.h:86` get increments the count | `CountIsExact`, `refcnt` [`Modulus = 3`] | with 2^32 - 1 references the next get makes the count 0 and succeeds |
| `logalloc.h:91` objects are allocated | `NeverOverlap`, `logalloc` [`Explored = {"wrapped over"}` or `{"not marked"}`] | a request that wraps around marks the cells up to the end as free although an object may be among them (`logalloc.c:194`), and a region used to its last cell is never marked as in use (`:442`) |
| `logalloc.h:110` A_E_BUSY at the limit | `HeadersTrue`, `logalloc` [`Threads <- TwoThreads`] | two threads pass the test and the count wraps around to 0 |
| `logalloc.h:134` prepare gives the head of a region | `StaysInside`, `logalloc` | the walk goes on while it has found *more* than it needs, past the end of the log, and the mark behind a region that ends the log is written outside of it |
| `logalloc.h:93` CEIL(size / cell_size) cells | `FitsItsCells`, `logalloc` [`Sizes <- FullSizes`] | the header is not counted: an object that fills its cells writes over the next header |
| `logalloc.h:11` allocation from any thread | none | `log_head` and headers are plain variables; the model has one allocating thread |
| `logger.c:284` "message delayed in returning" | `OnlyDelayed`, `logger` | with `in_queue` full the message is dropped |
| `logger.h:12` a returned message is released | `ReturnedOnce`, `logger` | a poll of an empty queue may return the previous message again (`lmsg` is read uninitialized, `logger.c:281`) |
| `hash_table.h:131` cleanup "does not release tracked data structures" | `NothingFreedIsWritten`, `hash_table` [`DeletesLate = TRUE`] | their nodes stay linked into the freed buckets: `ht_delete` writes there |
| `hash_table.h:160` find: "A_E_NOTFOUND if the key could not be found, an error code otherwise" | `NotFoundIsAbsent`, `hash_table` [`Unreadable = {n3}`] | a comparison that fails ends the search with A_E_NOTFOUND (`hash_table.c:185`) |
| `list.h` splice | none | splicing an empty list links the source's head into the target (`list.h:258`); nobody calls it |
| `rbtree.c:47` nodes need not be initialized | none | insertion never writes `left` and `right`; the model starts from zeroed nodes |

The properties of the passing runs, and the comments on them, say under which
condition they hold where such a disagreement limits them.

## What is not modelled

- Memory allocation failures that leave no state behind, logging, and arguments
  the assertions reject.
- `work_queue_size`, which reads a constant; of `list.h`, `list_insert_at` and
  `list_prepend` (`__list_add` with other neighbours), the other iterators and
  `list_splice`; the hash functions of `hash_table.c`, which are pure arithmetic on
  the caller's key; `logalloc_hugepage.c`, which maps memory.
- The second page class of the allocator, which is the same code on other data,
  and `allocator_squeeze`, which does nothing.
- `bits.h`: two rounding functions; reading them shows that `tsl_round_up_2_32`
  lacks the final increment its 64-bit sibling has.
- `cpumask` and `config`: wrappers of CPU sets and of a JSON library without state
  of their own. (`config_get_integer` answers A_OK for a value that is no integer, so
  `cpu_mask_from_config` never reaches its branch for arrays.) `app`, `time`, `panic`: straight lines of system calls. `notifier.h`
  does not compile and nothing includes it. `assert.h`, `diag.h`, `result.h`,
  `errors.h`, `cal.h`, `basic.h`, `sections.h`, `speed.h`, `version.h`: macros.
- Weaker memory models than that of x86.

## Status

Every module but WorkQueueSpmc, which states a claim the code does not meet and has
a configuration to show it, is part of a run, and every run passes;
Megaqueue with BoundedLog, MegaqueueOpen, Threading with WorkerThread and WorkPool,
WorkQueue with Logger, SlabAllocator, HeapOps with
FixedHeap and TimerManager, Refcnt, Logalloc, and List with HashTable also have
their proofs.

What would come next is RBTree: its loops as recursive functions, as those of HeapOps
are, and an invariant that names the nodes in their order, of which a rotation
changes nothing.
