# Verification of the immix garbage collector

TLA+ models, TLC runs and TLAPS proofs for the multi-mutator Immix collector in
`src/src`. Paths below are relative to the repository unless they name a module.

## 1. Inventory

| Component | State it keeps | Operations | What makes it correct |
|---|---|---|---|
| Stop-the-world protocol (`concurrent/MutatorSync.cpp`, `Heap_Collect`) | registered threads, the request flag, per thread `parked`, `parkedStackSize` | register, unregister, poll, begin and end a collection, visit threads | nobody else runs while the collector does; recorded stacks are current; one driver; every request ends; sleepers are woken |
| Entry points (`ImmixGC.c`) | thread-local handle | register, unregister, allocate (polls first), collect | a thread is visible with a NULL allocator for a while |
| Heap (`Heap.c`) | small and large heap bounds | create, allocate small/large with retry, recycle, grow | retry after a collection finds room; growth keeps alignment; sweep sees every block |
| Global block allocator (`concurrent/GlobalBlockAllocator.cpp`) | free and recycled lists, counters of the last sweep | get block, get free block, add, begin recycle, growth heuristics | lists stay exact; one owner per block; heuristics promise enough blocks |
| Block list (`datastructures/BlockList.c`) | first, last; links in block headers (0 = physically next) | remove first, add last, splice, clear | pointers encode the queue |
| Thread-local allocator (`ThreadLocalAllocator.c`) | two bump cursors, their limits and blocks | prime cursors, allocate, next hole, next block, overflow allocation | allocation stays in holes and free blocks, zeroes one extra word |
| Blocks and lines (`Block.c`, `Line.h`, headers) | flags, mark bits, hole lists, first-object offsets | sweep a block, unmark, record first object | holes are exactly the unmarked lines; live objects survive |
| Marker (`Marker.c`, `StackoverflowHandler.c`, `Stack.c`) | mark stack, overflow flag and scan address | mark roots, trace, double the stack, rescan both heaps | every reachable object is marked when marking ends |
| Objects (`Object.c`) | object headers | size, next object, object at an inner pointer, mark with lines | the walk meets every object and stops |
| Large allocator (`LargeAllocator.c`, `concurrent/GlobalLargeAllocator.cpp`) | size-class lists, chunks | add chunk, get block with split, sweep with coalescing, grow | chunks tile the heap; what the lists offer is free; a sweep finds everything that is dead |
| Bitmap (`datastructures/Bitmap.c`) | one bit per minimum block | set, clear, grow | bits are exactly chunk starts |
| Integer helpers (`utils/MathUtils.h`) | none | log2, round up | right within 32 bits |
| Memory limit, stack traces, logging | none | system queries, output | not modelled: pure I/O. `Log.h` defines NDEBUG, so the asserts of the source are not guards |

Interaction: a mutator allocates through its thread-local allocator, which takes
blocks from the global block allocator. When both are exhausted it calls
`Heap_Collect`; `MutatorSync` elects one collector and parks the others; the
collector marks from the recorded stacks and the modules, sweeps all blocks and
large chunks, grows if needed and primes every thread's cursors; then the
threads are released and retry.

What is hard here: threads joining and leaving around a collection, lost
wake-ups, a thread woken by one collection meeting the next, cursors that
outlive a sweep, an intrusive list with two special link values, growth that is
asked for once only, a bounded mark stack, several notions of heap size. The
list with source lines is `hazards` in `PROJECT.json`.

The tree is in the middle of a rename: a few helpers are used but not defined in
it (`Block_GetFirstWord`, `Block_GetBlockEnd`, `Block_GetLineWord`, `LAST_HOLE`,
`Object_IsObjectArray`). They are taken to be what their uses require: the bounds of a
block's lines, a slot of a line, a negative line index, and a flag. One renamed function
matters for behaviour: `Block_GetLineAddress` (`headers/BlockHeader.h:49`) returns
`void *`, so the `+ SLOTS_IN_LINE` of three callers adds bytes and not words: every walk over the
objects of a line covers 32 of its 256 bytes. The models walk as far as the code does (finding 4).

## 2. Modules

| Module | Models |
|---|---|
| `StopTheWorld` | abstract: what a stop-the-world collection promises, with no lock or flag |
| `MutatorSync` | `MutatorSync.cpp` and its callers in `ImmixGC.c`, `Heap.c`, `Marker.c`; refines `StopTheWorld` |
| `BlockList` | operators of the intrusive list, and what it means that a list encodes a sequence |
| `GlobalBlockAllocator` | the shared pool, the blocks under the threads' cursors, and the sweep, growth and re-priming of `Heap_Recycle` at block level |
| `Tracing` | abstract: what the marking phase promises, with no stack and no walk |
| `Marker` | `Marker.c`, `StackoverflowHandler.c`, `Stack.c`, `Object_Mark`; refines `Tracing` |
| `ObjectStore` | abstract: what a heap promises its mutator, with no cursors, holes, lines or chunks, until an event its code does not defend against excuses it |
| `SmallHeap` | `ThreadLocalAllocator.c`, `Block.c`, `Line.h`, the walk of `Object.c` and the small-object path, growth and re-priming of `Heap.c`, word by word; refines `ObjectStore` |
| `MathUtils` | `utils/MathUtils.h` on the set of a word's bits |
| `LargeAllocator` | `LargeAllocator.c`, `GlobalLargeAllocator.cpp`, `Bitmap.c`, the large-object path of `Heap.c` and `Object.c`; refines `ObjectStore` |
| `MCMutatorSync`, `MCGlobalBlockAllocator`, `MCMarker`, `MCSmallHeap`, `MCLargeAllocator` | symmetry sets, layouts, sizes and graphs for TLC; the other constants are in the `.cfg` files |
| `StopTheWorld_proofs`, `MutatorSync_proofs`, `BlockList_proofs`, `GlobalBlockAllocator_proofs`, `Marker_proofs`, `SmallHeap_proofs`, `LargeAllocator_proofs` | theorems |
| `RecursionFacts` | what proofs need of recursive functions and of least and greatest elements |

### MutatorSync

One `pc` per thread names the place in the code; `Labels` in the module says
which. A critical section of `g_mutex` is one step. That is no loss: the only
variable also touched outside the mutex is the atomic `g_stwRequested`, each
section reads or writes it in one place, and everything else a section touches is
protected by the mutex or owned by the thread. The unlocked load at the head of
`MutatorSync_Poll`, the compare-exchange and the winner's unlocked write of its
own `parkedStackSize` are steps of their own. A wait on `g_cv` has two states,
asleep and notified without the mutex, so a woken thread may find the world
changed; spurious wake-ups are an action.

`stackSize` is what `ValStack_CurrentSize` would return now, `parkedStackSize`
what the thread recorded. `cursors` abstracts the thread-local allocator to
NULL, primed, or stale (set before the last sweep). `scanned` records which
entries the marker visited. `awaiting` is a history variable: this thread lost
the compare-exchange and that collection has not ended.

Two constants say what the embedding program does, which the code does not
control: `LateRegistration` (a thread may register while a collector is past the
barrier) and `ExitDuringRequest` (a thread may unregister while a collection is
requested). Both are documented nowhere as forbidden. Each property is checked
and proved under the weakest of the two it needs.

The process exit of an exhausted heap is not an action here; it is one in
`GlobalBlockAllocator`.

### GlobalBlockAllocator and BlockList

Blocks are indices, pointers are block indices or NULL, header links keep the
code's encoding (`LAST_BLOCK` = -1, 0 = physically next). `Heap_Recycle` is a
sequence of steps: clear the lists, sweep one block per step in address order,
decide about growth, prime the threads one by one. That mutators stand still
meanwhile is what `MutatorSync` proves, and is a guard (`phase = "mutating"`) here.
What a sweep finds in a block is a choice: a block handed out since it was last
free may be empty, partly live or full; a block never handed out is empty. Memory is
counted in half blocks, a block with holes freeing one half, so that the third
clause of `ShouldGrow` goes both ways. `freeQueue` and `recycledQueue` are history
variables: the blocks put on each list and not taken since. An overflow cursor set
from NULL is kept as NULL, and an overflow allocation through it ends the run in
`"crashed"`; running out of memory ends it in `"exited"`. That is why these runs do
not check deadlock.

### Marker

The collector marks alone, so there is one process; what is hard is the recovery
from a full mark stack. `pending` holds the references the innermost loop still has
to look at (roots, then the fields of the object popped), taken in any order because
nothing fixes the layout of an object or of a stack. `Marker_Mark` and
`CheckForOverflow` call each other; the only thing an activation of the latter keeps
is that it is in its loop, so the C stack is the counter `depth`, and everything else
(`overflow`, `currentOverflowAddress`, the mark stack) is shared by all activations,
as in the code. A step of a walk is one block or one chunk. Inside a block the walk
meets the marked objects whose first line is marked, in address order, up to where the
code ends its walk of a line (`WalkReaches`, with the pointer arithmetic as it is: 32
bytes); the address itself moves by blocks, never by lines. Roots and references outside
the heap are not in the graph, since every loop skips them.

`Beyond` are the objects of the small heap that start where no walk gets to. Two things can happen to
them only. A sweep does not clear their marks, so a phase may begin with some of them marked: `heap.stale`, which
is what `NoMarkInReach` of `SmallHeap` leaves open. And one that is marked while the stack is full is never found
again. `lost` is the history of both: marked objects whose fields nobody will look at. Neither variable is read by a
step of the marker. `Tracing` may lose such objects too; what it then promises is exact
(`Exact`): the objects marked are those reachable without passing through a lost one, and the stale ones. That this
falls short of the full re-scan that `documentation/README.md:38` speaks of is in section 5.

### SmallHeap

Memory is an array of words, because the code keeps headers of objects, data and
headers of holes in the same words and tells them apart only by where it looks. An
object's header carries its size, its first line's header the slot of the first
object; a hole's first word carries the length of the hole and the next one. The walk
over a line follows sizes until a zero word or its end, and reports
anything that is no header as met, so that `WalkMeetsLive` fails if it could happen.
The walk ends after `WalkSlots` slots of the line, any number of them: in the source it
is 4 of 32. An object that starts behind may carry its mark into the next phase, where the marker passes it over
with whatever only it leads to, and its lines become holes. A collection therefore chooses two sets, the objects that are
reachable and those the marker found among them, which differ only if one of the first carries a mark.
`passedOver` is the history of that. Properties that hang on it say so: they hold up to that point, with the walk as
short as the code's, and what happens behind it is finding 4.

`live` is what one thread, whose allocator is modelled in full, can reach. Of the others there is what this thread can be
disturbed by: they take blocks from the pool at any time while the world runs (`OthersTake`), they are primed before and after it in
the visit at the end of a collection (`OtherInitCursors`), and their objects cover lines of the blocks they took, all or none
per block and collection (`theirs`). The pool is two sets of which the lowest block is taken, the order in which the sweep fills
the lists. Collections that another thread drives are the same step, taken between two calls.

Behind the sweep `Heap_Recycle` is in steps as in the code: it keeps the size, or grows once by `GROWTH_RATE` without asking again
(`Grow`; `short` is the history of that having been too little), or exits; then the visit primes each thread once, in any order,
from NULL where the pool is empty. The number of threads is chosen anew at each collection. An allocation that
fails again after its collection reaches `pc = "grow"`, one through an overflow cursor primed from NULL `"crashed"`. Whether
`ShouldGrow` asks for growth, and whether the large heap has left room for it, is open here; `GlobalBlockAllocator` has the first.

### LargeAllocator and MathUtils

Sizes and addresses are words of `OBJ_ALIGN` bytes; a unit is `MIN_BLOCK_SIZE`. `header` holds
the words that are not zero: a chunk's size, flag and the word behind them, which is `next` in a
free chunk and the first word of the object in an allocated one. Headers that coalescing or a
larger object bury stay in it, stale, as they stay in memory: `Object_GetLargeObject` meets them.
`Pieces` is the cutting of a range into powers of two that creation, splitting, growing
and sweeping share.

The lock of `GlobalLargeAllocator` makes `GetBlock` and `Grow` one step each. `Heap_AllocLarge`
around them is in steps, since it holds no lock: the first try, the collection, the retry, the
reading of the heap's end, the moving of it, the registering of the range, the last try,
and the stamping of size and type pointer into the object. Several threads take them in any order.
`+=` on the shared bounds adds to what was read before or to what is there now. A collection is one
step because the world is stopped; it finds threads where `MutatorSync` lets them be, before an allocation
or waiting for that collection. Without a block after the last try the thread writes through NULL
(`"crashed"`), beyond the limit the process exits (`"exited"`): no deadlock check.

Nothing keeps two threads from growing at once, or one from taking the chunks another has just added, and nothing does
in the model. Three history variables say that it happened: `overlapped` (a growth began while another was between its
read of the bounds and its registration), `robbed` (the threads from which another took a chunk before their last try) and
`overwritten` (memory of a live object was handed out). Until two growths overlap the large heap is right, whatever
else threads do meanwhile; from then on nothing is claimed, since the heap may be anything (finding 5). In `OnlyRobbedFail`
`robbed` tells the one cause that makes a last try fail otherwise.

`MathUtils` works on the set of positions of the bits that are 1, because `log2_floor` folds only the
low 32 of them. `LargeAssumption` keeps the heap below 2 GB, where that is enough, also for the doubled value of `Log2Ceil`;
`Log2Right` in `MCLargeAllocator`, evaluated by TLC, says it is right there and wrong from bit 32 on.

`Object_GetLargeObject` is called by `Marker_markConservative` only, which nothing calls; it is modelled
because it is what the bitmap is kept for, as an operator that `InnerPointersResolve` is about.

## 3. Runs

| Run | Bounds | Shows |
|---|---|---|
| `sync_safety` | 3 threads, stacks of 0 or 1 entry, exits allowed, no late registration | `WorldStopped`, current snapshots, no stale cursors, re-priming meets every allocator and as many as were counted, refinement of `StopTheWorld` |
| `sync_open` | 3 threads, late registration and exits | what survives an undisciplined host: one driver, losers wait, no sleep in `Poll` without a request |
| `sync_live` | 3 threads, neither | collections end, parked threads are released, no lost wake-up at the barrier |
| `sync_late_registration` | 2 threads | violated: `WorldStopped` with late registration |
| `sync_exit_during_request` | 2 threads | violated: the collector sleeps forever for a thread that left |
| `blocks_safety` | 2 threads, heap of 3 growing to 5 blocks | exact lists, one owner per block, flags match lists, the sweep accounts for all blocks, `CanInitCursors` keeps its promise |
| `blocks_growth_too_small` | 2 threads, heap of 4 growing to 6 blocks | violated: after growth not every thread has an overflow block |
| `marker` | six objects, 62 080 graphs, a stack of one word doubling twice; one object out of any walk's reach, with or without a mark from before | nothing a walk can find is forgotten, marks for the sweep exact, no doubling in vain, marking ends, refinement of `Tracing` |
| `small_heap` | 2 threads, a heap of 2 blocks growing to 3, blocks of 3 lines of 4 words of which a walk covers three, objects of 2 and 7 words, 2 collections that leave at most one object of the thread | memory on offer is dead and offered once, walks meet the live objects in their reach and no garbage and leave no mark there, allocations fail only where growth was too small, no NULL cursor is bumped, refinement of `ObjectStore` |
| `small_heap_short_walk` | as `small_heap` | violated: an object keeps its mark after the sweep |
| `large_heap` | 2 threads, a heap of 2 units growing to at most 10, objects of 1 and (rounded) 3 units, 2 collections | chunks tile the heap the three notions of size agree on, bits are chunk starts, lists offer free memory once, a sweep makes every gap available, inner pointers resolve, a last try fails only if another thread took the chunk, refinement of `ObjectStore` |
| `large_heap_growth_race` | the same with objects of 1 unit, one collection | violated: a unit of memory is handed out under a live object |

Bounds. Three threads are a collector, a loser of the race and a bystander, or
a thread still parked from the previous collection; no guard distinguishes more
roles. One stack entry is enough to tell a current size from a stale one. Runs whose
properties do not mention stacks use none. In `blocks_safety` growth is 60% instead of
the code's 30% so that three blocks grow by two and a splice of more than one block
happens in a small state space; `blocks_growth_too_small` uses 30%. `GROWTH_RATE`
is a constant for that reason.

`marker`: a second overflow inside the recovery from the first takes five objects (two
roots, one of them dropped with three children); the sixth is what must still be found
after it. The layout has an empty block, an object over two lines, a line shared by
two objects, of which one starts at slot 20, and a free chunk. The proofs hold for every graph and layout.

`small_heap`: two blocks are one under each cursor, as `Heap_Create` leaves them; the third is the one block by which 30%
lets the heap grow. One thread has enough then, two have not, so both outcomes of growth occur, and the visit has orders to choose from. Three lines
allow two holes in a block, around a live line, so a list of holes has a link to follow. Objects of two words start in all places
of a line, in and out of the reach of a walk of three words, and one after the other within it; objects of seven go through either
cursor and cover two or three lines, so that a block may be full. Two collections are needed for memory to be reused and swept again: dead
headers and old hole headers under new objects. One survivor of the thread's own objects and any of the other thread's lines give blocks that
are empty, with one or two holes, and full. That two threads both get their cursors from a pool large enough for both
takes four blocks, which is beyond TLC here; `blocks_safety` has that case at block level, and the proofs have it in full.

`CONSTRAINT NonePassedOver` and `Unoverlapped` stop TLC from following behaviours behind the event of which the properties say
nothing more. They hide no state for which something is claimed; the proofs use neither.

`large_heap`: the object of three units is cut from a chunk of four, so a chunk is split; eight bits in a word of
the bitmap and ten units make the bitmap grow past a word. Growing for the small object adds 8 units (see section 5
on bytes and words), for the other one more than the limit allows. Two collections let dead neighbours be merged, be given out
again and be swept again over stale headers. Threads are symmetric and both runs check safety only, so
symmetry is sound. The limit leaves room for one growth, and two threads that fail their second try race for it: one exits
or takes what the other added, or both read the same end.

In `blocks_safety` a block with holes frees exactly half of itself, so the memory counted after a sweep is a coarse measure; it decides
only the third clause of `ShouldGrow`, which goes both ways.

Variants. A definition commented "Variant" is a plausible slip in the definition
that follows it. It is part of no specification; each property of a passing run is
known to fail when one of them takes the definition's place
(`mutants` in `PROJECT.json`).

Fairness. `FairSpec` of `Marker` is weak fairness of its one process. `FairSpec` of
`MutatorSync` is weak fairness of every thread's own steps: the scheduler runs
every thread, the mutex is not withheld forever from a thread that waits for it
(critical sections are steps, so no step ever disables another's for good), and a live mutator keeps
allocating, which `documentation/concurrent/MutatorSync.md:147-151` states as the
design's assumption. Registering, exiting, touching the stack, an explicit
collection and spurious wake-ups are not fair. Weak fairness does not release a
parked thread if collections follow each other forever (woken, it finds the next
request), so `ParkedReleased` assumes that requests stop.

## 4. Proofs

For every finite set of threads and every stack bound (`MutatorSync_proofs`):

* `TypeCorrect`: the type invariant.
* `OpenHostSafety`, for any host. Inductive invariant `OpenInv`: a thread is
  registered iff it is not outside; `parked` iff blocked in the wait of `Poll`; the
  flag is up iff somebody drives, and only one does; sleeping in `Poll` implies the
  flag; a loser stays in `Poll` and the flag up. The flag clause is what makes the
  rest inductive: only the driver can lower it.
* `WorldIsStopped` and `CollectionSeesEveryThread`, if no thread registers past the
  barrier. `ClosedInv` adds: the barrier's predicate stays true behind the
  barrier; whoever is blocked or drives has recorded its stack and not touched it;
  the allocator is NULL only outside and between the two halves of
  registration; a stale cursor implies that somebody is about to prime. `NoStaleCursors` is
  not inductive alone: it needs that last clause together with `WorldStopped`.
* `BarrierNeverSleepsInVain`, if no thread exits during a request.
* `Refinement`: `Spec => STW!Spec`, again without late registration. A thread
  in the wait of `Poll` is stopped, at `mark` collecting, after it scanned;
  parking, returning, passing the barrier, marking and ending map to the abstract actions,
  everything else stutters.

`StopTheWorld_proofs` proves `StoppedAndExact`: the abstract specification keeps exclusion and exact
roots, so the refinement is not of something empty.

`Marker_proofs`, for every graph, layout and initial stack size. Inductive invariant
`MarkerInv`: types; the stack holds marked objects, and is empty with nothing pending
and no flag while a walk looks for an object; what is pending was referred to by a
root or a marked object; block and line marks are those of the marked objects; and
`NoChildForgotten`, which covers a marked object with an unmarked child by one of the
stack, the pending references, the overflow flag or the part of the heap ahead of the
walk. The last clause is inductive only because a nested walk resets the shared
address to the start of the heap, and because marks hide no marked object from a walk
(`WalkMeetsAll`). Only objects that are `lost` are under none of these clauses, and those are out of every
walk's reach. No theorem assumes anything about where objects start.

* `NothingForgotten` and `MarkerRefinement`.
* `TracingIsExact`: the abstract phase ends with exactly those objects marked that are reachable without passing through a lost one,
  where reachable means in every set that holds the roots and is closed under the references of its members, and those marked before.
  With the refinement, `MarksExactlyTheReachable` says it of the marker, and that without a doubling nothing is lost but what
  was marked before: a first collection whose stack suffices marks exactly the live objects.
* `WalkPushesAndDoublesSafely`, `GrowthIsJustified`: the second by `GrowthInv`, which adds that
  the stack is never longer than the number of marked objects.

`SmallHeap_proofs`, for every number of blocks, geometry of lines, set of object sizes and number of collections, in two
layers. `Shape` is inductive however far the walk over a line goes (`ShapeHolds`):
* `Pool` and `Holes`: the lines in which the holes of a recycled block begin form a chain that `first` leads into, that
  goes up, ends in `LAST_HOLE`, and in which no hole reaches into the next. Hole headers are words of memory, so every
  write has to be shown not to hit one; this is what the clause about their order is for.
* `Cursors`: no cursor is in a listed block, in another thread's or in the block of the other cursor, the limit is the end of a line,
  and the holes the cursor's block has left lie behind the limit (`Behind`). Only claimed while `Primed`: between a sweep and the
  visit that follows it cursors point anywhere.
* `Control`: what an allocation has been through. Unless growth was `short`, the pool has what the threads that are yet to be primed
  need (`Enough`), for each one block of any kind and a free one; so a primed thread has both cursors and a retried allocation fits one.

`TypesHold`, `FailuresOnlyWhenShort` and `NullNeverBumped` follow from it. What hangs on the walk is inductive up to the
first object passed over: `IInv` is `Shape` and (`passedOver` or `Contents`), shown by `IInvHolds` for every `WalkSlots`:
* `BlankPool`, `BlankCursors`: what can still be handed out touches no live object of any thread **and** holds no line whose header
  names a first object. The second half is what `OfferedIsDead` alone lacks: an object put into a line must be the first the line's header
  leads to, or be led to by the one in front.
* `Headers(open)`: following sizes from a line's first object, to the line's end or to a cursor that is in the line, one meets
  object headers only, and every live object that starts there. It speaks of the whole line and the walk covers a part of it. An allocation
  extends it because the code zeroes the word behind the object; a sweep keeps it because lines that stay keep all their words.
* A mark that is left is on an object out of the walk's reach, because the walk of every line that stays meets all survivors in its reach.
* Nothing was `overwritten`.

From it `WalksMeetLive`, `NoMarksInReach` and `OfferedMemoryIsDead` follow, and `SmallHeapImplementsStore`: a bump writes only
blank words. `LiveObjectsApart` shows that the abstract store keeps live objects apart and hands none out twice, and `ObjectsApart`
that the small heap does.

`RecursionFacts`: the walk over a line and the chain of holes are recursive functions. That they compute what the declarative
clauses say is an induction over naturals; it is done by a least counterexample, that is by the least element of a set of naturals,
since a theorem that takes the induction predicate as a parameter is out of the provers' reach.

`BlockList_proofs`, for every set of blocks, every list and all links: what each operation does to the sequence
the list encodes. Taking the first block leaves the rest (`TakenFirst`, also when it was the only one or there is none);
adding a block or a range of zeroed blocks appends (`AddedBlock`, `AddedRange`) and changes no link of other blocks, so
another list is untouched (`UntouchedList`). Adding needs that block 0 goes only onto an empty list, since a link of 0
would mean the physically next block.

`GlobalBlockAllocator_proofs`, for every finite set of threads, heap size, limit and growth rate. The inductive
invariant `IInv` adds to the properties:

* `Lists`: both lists encode their queues of distinct blocks, and no block is on both. `ListsEncodeQueues` alone is not
  inductive: an append could close a cycle, and a zeroed header could be one of the other list.
* `Cursors`: blocks under primed cursors are on no list and under one cursor each. While the world sweeps no cursor
  means anything, so the clause is about `Primed`; a thread enters it when the visit gives it its blocks.
* `Extent`: behind `heapEnd` headers are zero, flags free, nothing queued. It is what `Heap_Grow` relies on when it
  appends a range by its ends only.
* `Swept`: so far the lists hold exactly the blocks passed that are not full, and the counters their lengths. It also
  gives that block 0 is only ever added to empty lists, being swept first.
* `Outside`: threads outside have no cursors.

From it `TypeCorrect`, `ListsCorrect`, `BlocksUnshared` (a block has at most one owner), `FlagsCorrect`, `SweepComplete` and
`CanInitCursorsSuffices` follow. The last needs that a visit takes at most two blocks and only a free one for
the overflow cursor (`ReinitTakes`). `IncrementPositive` shows that the rounded percentage never grows by nothing.

`LargeAllocator_proofs`, for every finite set of threads, sizes of objects, size and limit of the heap (below 2 GB), width of the
bitmap's words and number of collections, and every interleaving of threads. The inductive invariant is `overlapped` or `IInv`
(`InvariantHolds`); an overlapping growth may leave anything behind, so nothing is claimed of what follows one, and
`large_heap_growth_race` shows that nothing can be. `IInv`:

* `Layout`: the bits are the addresses of chunks, and these tile the heap. A chunk's length is what its header says, except
  between `GetBlock` and the stamping of the object's size, when it is what its thread asked for: `Length`. `ChunksTile` is not
  inductive alone, because it says nothing of the chunks in that state.
* `Free`: a free chunk links to nothing, and a list offers a free chunk of its class. Two lists never offer one chunk, since its
  size fixes the class.
* `Live` and `Taken`: an object is a chunk marked as allocated whose first word is not zero, or whose thread has yet to write
  that; a thread's chunk is no other thread's.
* `Growth`: one thread grows at a time and saw the heap's true bounds; when it tries again, the lists offer a large enough chunk, or
  it was `robbed`.

Three facts about tilings carry the steps. Splitting a chunk, or sweeping a run of dead ones, replaces one stretch by a tiling of
it (`RunPieces`, `LeftCut`); growing appends a tiling. `Pieces`, which cuts a stretch into powers of two, is a recursive function
on lengths, and `Chain`, the walk of a sweep, is one on addresses: that the first tiles its stretch (`Cut`) and that the second
meets all bits (`ChainIsBits`) is shown by least counterexamples, as in `RecursionFacts`. The logarithms are proved correct from
`DeBruijnTable` in `MathUtils`: that the multiplication and table undo 32 words, a closed finite statement
that TLC evaluates completely on each run of this module.

* `TypesHold`, `ChunksAlwaysTile`, `ListsAlwaysOfferFree`, `InnerPointersAlwaysResolve`, `OnlyTheRobbedFail`, `SweepAlwaysOffers`: what
  `large_heap` checks. `InnerPointersAlwaysResolve` needs of the bitmap only that it holds chunk starts: the word it finds below an address
  is then a current header, never a stale one. `SweepAlwaysOffers` uses that a run of dead chunks between two live objects is
  recut greedily, the largest power of two first (`RecutFacts`).
* `LargeHeapImplementsStore`, and from it `LargeObjectsApart`: until two growths overlap no memory of a live object is handed out, not even
  exactly its place, though other threads allocate between a growth and the last try.

Every safety property a passing run checks is stated by a theorem. Only model-checked: liveness, which is outside the
prover's reach (`sync_live` and the end of marking in `marker`).

## 5. Findings

1. Late registration breaks the stopped world (`sync_late_registration`).
2. `MutatorSync_UnregisterThread` loses the wake-up of the barrier
   (`sync_exit_during_request`).
3. Growth is not re-checked (`blocks_growth_too_small`).
4. The walk over a line's objects ends after an eighth of the line, so marks survive the sweep
   (`small_heap_short_walk`). The search of `Object_getInLine` (`Object.c:43`) ends at the same sum.
5. Growing the large heap is under no lock (`large_heap_growth_race`): two threads register the same range, and the
   second stamps free chunks over objects of the first.

Observations that are in no run of their own; the properties named are in the modules, and TLC violates each within a minute
under the constants of the run in brackets:

* `AllReachableMarked` (`marker`): the recovery walk of the marker (`StackoverflowHandler.c:129`) ends where the walk of finding 4 does, so an object behind
  that point that a full stack dropped is marked and never traced, in the first collection already.
* `RetrySucceeds` (`small_heap`): where growth was too small (finding 3) the retry in `Heap_allocSmallSlow` may fail, since other threads were primed
  before and have the blocks. It then calls `Heap_Grow` with a size in bytes (`Heap.c:102`), against the assertion at `Heap.c:215`.
* `GrowthSuffices` (`large_heap`): growing and the last try are two critical sections. Another thread takes what was added, and the assertion at
  `Heap.c:85`, which `Log.h` compiles out, would have failed.
* `freeListAddBlockLast` (`LargeAllocator.c:39-45`) never links the old last chunk to the new one, so a list offers one
  chunk and the rest is lost until the next sweep; that is why `ListsOfferFree` says "what the lists offer is free" and not
  the converse. A try may fail although a lost chunk would do (`NullMeansNone`, not part of a run, is violated), where
  `documentation/LargeAllocator.md:37-39` describes an append. What holds is `SweepOffers`: after a sweep every gap can be had.
* `Heap_GrowLarge` (`Heap.c:238-249`) rounds the object's size in bytes up to a power of two and adds that many words.

## 6. Plan

1. Done: `StopTheWorld`, `MutatorSync`, `BlockList`, `GlobalBlockAllocator`, `Tracing`, `Marker`, `ObjectStore` and their
   proofs; `SmallHeap`, `MathUtils`, `LargeAllocator`.
2. Done: proofs for `SmallHeap`: types, what is offered, marks, and the refinement of `ObjectStore`.
3. Done: proofs for `LargeAllocator` up to the first overlapping growth: tiling, lists, inner pointers, growth, sweeps and the refinement.

## 7. Not modelled

Printing, stack traces, logging, reading the memory limit: output and system queries. `Object_GetObject`, the search of a
small block for an object, has no caller but `Marker_markConservative`, and that has none. Large heaps from 2 GB on. What
`Heap_Grow` makes of a size in bytes: the runs end where it is called.
