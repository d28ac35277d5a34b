------------------------ MODULE GlobalBlockAllocator ------------------------
(***************************************************************************)
(* The block level of the small heap: the two shared block lists of        *)
(* concurrent/GlobalBlockAllocator.cpp, the blocks every thread's cursors  *)
(* hold (ThreadLocalAllocator.c), and Heap_Recycle, which takes all blocks *)
(* back, sweeps them in address order, decides whether to grow and primes  *)
(* every thread's cursors again (Heap.c).                                  *)
(*                                                                         *)
(* Each operation of the global allocator is one critical section of its   *)
(* mutex and one step here.  A collection runs in a stopped world: that is *)
(* MutatorSync's theorem WorldIsStopped, taken here as the guards that     *)
(* keep mutators from moving while phase is not "mutating".  Lines and     *)
(* objects are abstracted: what the sweep makes of a block is a choice     *)
(* among the outcomes the block's use allows.                              *)
(***************************************************************************)
EXTENDS BlockList, FiniteSets, SequencesExt

CONSTANTS
    Threads,        \* the threads that may register
    InitialBlocks,  \* blocks of the small heap Heap_Create maps
    MaxBlocks,      \* blocks that fit below memoryLimit
    GROWTH_RATE     \* percentage by which Heap_Recycle grows the small heap

ASSUME ThreadsAssumption == IsFiniteSet(Threads)

\* Heap_Create asserts initialSize >= 2 * BLOCK_TOTAL_SIZE.
ASSUME BlocksAssumption ==
    /\ InitialBlocks \in Nat /\ MaxBlocks \in Nat
    /\ 2 <= InitialBlocks /\ InitialBlocks <= MaxBlocks
    /\ GROWTH_RATE \in 1 .. 100

Blocks == 0 .. MaxBlocks - 1
SLOTS_IN_BLOCK == 4096

\* Memory is counted in half blocks: a recyclable block frees half of itself.
BLOCK_TOTAL_SIZE == 2

VARIABLES
    nextBlock,      \* BlockHeader.nextBlock of every block
    flags,          \* BlockHeader.flags of every block
    free,           \* struct GlobalBlockAllocator: freeBlocks,
    recycled,       \*   recycledBlocks,
    counts,         \*   blockCount and the counters of the last sweep
    heapEnd,        \* Heap.heapEnd, in blocks
    pc,             \* registration of each thread
    block,          \* block of each thread's normal cursor
    largeBlock,     \* block of each thread's overflow cursor
    phase,          \* where Heap_Recycle is
    sweepAt,        \* the block it sweeps next
    pending,        \* threads its last visit has not primed yet
    used,           \* history: blocks handed out since they were last free
    freeQueue,      \* history: the blocks put on freeBlocks, in order,
    recycledQueue,  \*   and on recycledBlocks, minus those taken
    promised        \* history: CanInitCursors held when the visit began

pool == <<free, recycled, freeQueue, recycledQueue>>
heap == <<nextBlock, flags, counts, heapEnd>>
threads == <<pc, block, largeBlock>>
vars == <<heap, pool, threads, phase, sweepAt, pending, used, promised>>

Registered == {t \in Threads : pc[t] # "outside"}
BlocksOrNull == Blocks \cup {NULL}

TypeOK ==
    /\ nextBlock \in [Blocks -> Blocks \cup {LAST_BLOCK}]
    /\ flags \in [Blocks -> {"free", "recyclable", "unavailable"}]
    /\ {free, recycled} \subseteq [first : BlocksOrNull, last : BlocksOrNull]
    /\ counts \in [blocks : Nat, free : Nat, recycled : Nat, memory : Nat]
    /\ heapEnd \in 0 .. MaxBlocks
    /\ pc \in [Threads -> {"outside", "primeNormal", "primeOverflow", "running"}]
    /\ block \in [Threads -> BlocksOrNull]
    /\ largeBlock \in [Threads -> BlocksOrNull]
    /\ phase \in {"mutating", "sweep", "reinit", "exited", "crashed"}
    /\ sweepAt \in 0 .. MaxBlocks
    /\ pending \subseteq Threads
    /\ used \subseteq Blocks
    /\ freeQueue \in Seq(Blocks) /\ recycledQueue \in Seq(Blocks)
    /\ promised \in BOOLEAN

\* Heap_Create and GlobalBlockAllocator_Create: the whole heap is one list
\* through zeroed headers.
Init ==
    /\ nextBlock = [b \in Blocks |-> IF b = InitialBlocks - 1 THEN LAST_BLOCK ELSE 0]
    /\ flags = [b \in Blocks |-> "free"]
    /\ free = [first |-> 0, last |-> InitialBlocks - 1]
    /\ recycled = EmptyList
    /\ counts = [blocks |-> InitialBlocks, free |-> InitialBlocks,
                 recycled |-> 0, memory |-> 0]
    /\ heapEnd = InitialBlocks
    /\ pc = [t \in Threads |-> "outside"]
    /\ block = [t \in Threads |-> NULL]
    /\ largeBlock = [t \in Threads |-> NULL]
    /\ phase = "mutating" /\ sweepAt = 0 /\ pending = {}
    /\ used = {}
    /\ freeQueue = [i \in 1 .. InitialBlocks |-> i - 1]
    /\ recycledQueue = <<>>
    /\ promised = FALSE

-----------------------------------------------------------------------------
(* The shared allocator                                                    *)

\* The block GlobalBlockAllocator_GetFreeBlock returns, NULL if there is none.
FreeBlock == free.first

\* GlobalBlockAllocator_GetFreeBlock.
GetFreeBlock ==
    /\ IF IsEmpty(free)
       THEN UNCHANGED <<free, freeQueue, used>>
       ELSE /\ free' = WithoutFirst(free, nextBlock)
            /\ freeQueue' = Tail(freeQueue)
            /\ used' = used \cup {FreeBlock}
    /\ UNCHANGED <<recycled, recycledQueue>>

\* The block GlobalBlockAllocator_GetBlock returns: recycled blocks first.
AnyBlock == IF IsEmpty(recycled) THEN free.first ELSE recycled.first

\* GlobalBlockAllocator_GetBlock.
GetBlock ==
    IF IsEmpty(recycled)
    THEN GetFreeBlock
    ELSE /\ recycled' = WithoutFirst(recycled, nextBlock)
         /\ recycledQueue' = Tail(recycledQueue)
         /\ used' = used \cup {AnyBlock}
         /\ UNCHANGED <<free, freeQueue>>

\* Variant: recycled blocks count as overflow blocks.
CanInitCursorsByTotal(c, threadCount) ==
    LET n == IF threadCount = 0 THEN 1 ELSE threadCount
    IN  c.free + c.recycled >= 2 * n

\* GlobalBlockAllocator_CanInitCursors.
CanInitCursors(c, threadCount) ==
    LET n == IF threadCount = 0 THEN 1 ELSE threadCount
    IN  \/ c.free >= 2 * n
        \/ c.free >= n /\ c.free + c.recycled >= 2 * n

\* GlobalBlockAllocator_ShouldGrow.
ShouldGrow(c) ==
    \/ c.free < c.blocks \div 3
    \/ 4 * (c.blocks - (c.free + c.recycled)) > c.blocks
    \/ c.memory * 2 < c.blocks * BLOCK_TOTAL_SIZE

-----------------------------------------------------------------------------
(* Threads                                                                 *)

Idle == UNCHANGED <<phase, sweepAt, pending, promised>>

\* ImmixGC_RegisterThread up to ThreadLocalAllocator_InitCursors.
Register(t) ==
    /\ phase = "mutating" /\ pc[t] = "outside"
    /\ pc' = [pc EXCEPT ![t] = "primeNormal"]
    /\ UNCHANGED <<heap, pool, block, largeBlock, used>> /\ Idle

\* InitCursors, first half: getNextLine takes a block for the normal cursor;
\* without one the cursor stays NULL.
PrimeNormal(t) ==
    /\ phase = "mutating" /\ pc[t] = "primeNormal"
    /\ GetBlock
    /\ block' = [block EXCEPT ![t] = AnyBlock]
    /\ pc' = [pc EXCEPT ![t] = "primeOverflow"]
    /\ UNCHANGED <<heap, largeBlock>> /\ Idle

\* Variant: the overflow cursor takes whatever block comes first.
PrimeOverflowFromAny(t) ==
    /\ phase = "mutating" /\ pc[t] = "primeOverflow"
    /\ GetBlock
    /\ largeBlock' = [largeBlock EXCEPT ![t] = AnyBlock]
    /\ pc' = [pc EXCEPT ![t] = "running"]
    /\ UNCHANGED <<heap, block>> /\ Idle

\* InitCursors, second half: the assertion that there is a free block is
\* compiled out, so the overflow cursor may be set from NULL.
PrimeOverflow(t) ==
    /\ phase = "mutating" /\ pc[t] = "primeOverflow"
    /\ GetFreeBlock
    /\ largeBlock' = [largeBlock EXCEPT ![t] = FreeBlock]
    /\ pc' = [pc EXCEPT ![t] = "running"]
    /\ UNCHANGED <<heap, block>> /\ Idle

\* The normal cursor's block is exhausted: getNextLine takes another one; if
\* there is none, Alloc fails and the cursor's block is kept.
NextNormal(t) ==
    /\ phase = "mutating" /\ pc[t] = "running" /\ AnyBlock # NULL
    /\ GetBlock
    /\ block' = [block EXCEPT ![t] = AnyBlock]
    /\ UNCHANGED <<heap, pc, largeBlock>> /\ Idle

\* overflowAllocation runs past largeLimit: the next overflow block has to be a
\* free one.
NextOverflow(t) ==
    /\ phase = "mutating" /\ pc[t] = "running"
    /\ largeBlock[t] # NULL /\ FreeBlock # NULL
    /\ GetFreeBlock
    /\ largeBlock' = [largeBlock EXCEPT ![t] = FreeBlock]
    /\ UNCHANGED <<heap, pc, block>> /\ Idle

\* overflowAllocation through a cursor set from NULL writes near address 0.
OverflowThroughNull(t) ==
    /\ phase = "mutating" /\ pc[t] = "running" /\ largeBlock[t] = NULL
    /\ phase' = "crashed"
    /\ UNCHANGED <<heap, pool, threads, used, sweepAt, pending, promised>>

\* ImmixGC_UnregisterThread: the thread's blocks go back to no list; the next
\* sweep finds them.
Unregister(t) ==
    /\ phase = "mutating" /\ pc[t] = "running"
    /\ pc' = [pc EXCEPT ![t] = "outside"]
    /\ block' = [block EXCEPT ![t] = NULL]
    /\ largeBlock' = [largeBlock EXCEPT ![t] = NULL]
    /\ UNCHANGED <<heap, pool, used>> /\ Idle

-----------------------------------------------------------------------------
(* Heap_Recycle                                                            *)

\* Variant: the list of recycled blocks is not cleared.
BeginRecycleKeepingRecycled ==
    /\ phase = "mutating" /\ Registered # {}
    /\ \A t \in Registered : pc[t] = "running"
    /\ free' = EmptyList /\ freeQueue' = <<>>
    /\ counts' = [counts EXCEPT !.free = 0, !.recycled = 0, !.memory = 0]
    /\ phase' = "sweep" /\ sweepAt' = 0
    /\ UNCHANGED <<nextBlock, flags, recycled, recycledQueue, heapEnd, threads,
                   pending, used, promised>>

\* GlobalBlockAllocator_BeginRecycle, by a registered thread that found every
\* other one parked, and so none half registered.
BeginRecycle ==
    /\ phase = "mutating" /\ Registered # {}
    /\ \A t \in Registered : pc[t] = "running"
    /\ free' = EmptyList /\ recycled' = EmptyList
    /\ freeQueue' = <<>> /\ recycledQueue' = <<>>
    /\ counts' = [counts EXCEPT !.free = 0, !.recycled = 0, !.memory = 0]
    /\ phase' = "sweep" /\ sweepAt' = 0
    /\ UNCHANGED <<nextBlock, flags, heapEnd, threads, pending, used, promised>>

SweepNext == sweepAt' = sweepAt + 1 /\ UNCHANGED <<heapEnd, threads, phase, pending, promised>>

\* Block_recycleUnmarkedBlock: the header is zeroed, then linked, then flagged.
SweepUnmarked ==
    /\ phase = "sweep" /\ sweepAt < heapEnd
    /\ LET b == sweepAt
           zeroed == [nextBlock EXCEPT ![b] = 0]
       IN  /\ free' = AddLast(free, b, b)
           /\ nextBlock' = LinksAddLast(free, zeroed, b, b)
           /\ flags' = [flags EXCEPT ![b] = "free"]
           /\ freeQueue' = Append(freeQueue, b)
           /\ used' = used \ {b}
    /\ counts' = [counts EXCEPT !.free = @ + 1, !.memory = @ + BLOCK_TOTAL_SIZE]
    /\ UNCHANGED <<recycled, recycledQueue>>
    /\ SweepNext

\* Block_Recycle of a marked block with holes.
SweepRecyclable ==
    /\ phase = "sweep" /\ sweepAt < heapEnd /\ sweepAt \in used
    /\ LET b == sweepAt
       IN  /\ recycled' = AddLast(recycled, b, b)
           /\ nextBlock' = LinksAddLast(recycled, nextBlock, b, b)
           /\ flags' = [flags EXCEPT ![b] = "recyclable"]
           /\ recycledQueue' = Append(recycledQueue, b)
    /\ counts' = [counts EXCEPT !.recycled = @ + 1, !.memory = @ + 1]
    /\ UNCHANGED <<free, freeQueue, used>>
    /\ SweepNext

\* Block_Recycle of a marked block with every line marked.
SweepUnavailable ==
    /\ phase = "sweep" /\ sweepAt < heapEnd /\ sweepAt \in used
    /\ flags' = [flags EXCEPT ![sweepAt] = "unavailable"]
    /\ UNCHANGED <<nextBlock, pool, counts, used>>
    /\ SweepNext

\* Variant: the sweep stops one block early.
SweepDoneEarly == phase = "sweep" /\ sweepAt + 1 = heapEnd

\* The loop of Heap_Recycle has reached heapEnd: is there enough for everyone?
SweepDone == phase = "sweep" /\ sweepAt = heapEnd
NeedsGrowth ==
    ~CanInitCursors(counts, Cardinality(Registered)) \/ ShouldGrow(counts)
Increment == ((heapEnd * SLOTS_IN_BLOCK * GROWTH_RATE) \div 100 - 1) \div SLOTS_IN_BLOCK + 1
IsGrowingPossible == heapEnd + Increment <= MaxBlocks

StartReinit == phase' = "reinit" /\ pending' = Registered
SweptHeap == UNCHANGED <<flags, threads, sweepAt, used, recycled, recycledQueue>>

\* Enough is free, or Heap_Grow finds the memory limit reached but every thread
\* can still be primed.
KeepSize ==
    /\ SweepDone
    /\ \/ ~NeedsGrowth
       \/ ~IsGrowingPossible /\ CanInitCursors(counts, Cardinality(Registered))
    /\ promised' = TRUE
    /\ StartReinit /\ SweptHeap
    /\ UNCHANGED <<nextBlock, counts, heapEnd, free, freeQueue>>

\* Heap_Grow: the new blocks are chained by their zeroed headers already and
\* are appended in one piece.  CanInitCursors is not asked again.
Grow ==
    /\ SweepDone /\ NeedsGrowth /\ IsGrowingPossible
    /\ LET first == heapEnd
           last == heapEnd + Increment - 1
           grown == [counts EXCEPT !.blocks = @ + Increment, !.free = @ + Increment]
       IN  /\ heapEnd' = heapEnd + Increment
           /\ free' = AddLast(free, first, last)
           /\ nextBlock' = LinksAddLast(free, nextBlock, first, last)
           /\ freeQueue' = freeQueue \o [i \in 1 .. Increment |-> first + i - 1]
           /\ counts' = grown
           /\ promised' = CanInitCursors(grown, Cardinality(Registered))
    /\ StartReinit /\ SweptHeap

\* Heap_exitWithOutOfMemory.
ExitOutOfMemory ==
    /\ SweepDone /\ ~IsGrowingPossible
    /\ ~CanInitCursors(counts, Cardinality(Registered))
    /\ phase' = "exited"
    /\ UNCHANGED <<heap, pool, threads, sweepAt, pending, used, promised>>

\* Heap_reinitThreadCursors: InitCursors for one thread, both halves at once
\* since nobody else runs; g_threads is visited in an order of its own.
ReinitThread(t) ==
    /\ phase = "reinit" /\ t \in pending
    /\ LET afterNormal == IF IsEmpty(recycled) /\ ~IsEmpty(free)
                          THEN WithoutFirst(free, nextBlock) ELSE free
       IN  /\ block' = [block EXCEPT ![t] = AnyBlock]
           /\ largeBlock' = [largeBlock EXCEPT ![t] = afterNormal.first]
           /\ free' = IF IsEmpty(afterNormal) THEN afterNormal
                      ELSE WithoutFirst(afterNormal, nextBlock)
           /\ recycled' = IF IsEmpty(recycled) THEN recycled
                          ELSE WithoutFirst(recycled, nextBlock)
           /\ used' = used \cup ({AnyBlock, afterNormal.first} \ {NULL})
    /\ recycledQueue' = IF recycledQueue = <<>> THEN <<>> ELSE Tail(recycledQueue)
    /\ freeQueue' = SubSeq(freeQueue, IF recycledQueue = <<>> THEN 3 ELSE 2, Len(freeQueue))
    /\ pending' = pending \ {t}
    /\ UNCHANGED <<heap, pc, phase, sweepAt, promised>>

\* MutatorSync_EndCollection lets the mutators run again.
EndRecycle ==
    /\ phase = "reinit" /\ pending = {}
    /\ phase' = "mutating" /\ promised' = FALSE
    /\ UNCHANGED <<heap, pool, threads, sweepAt, pending, used>>

Recycle ==
    \/ BeginRecycle \/ SweepUnmarked \/ SweepRecyclable \/ SweepUnavailable
    \/ KeepSize \/ Grow \/ ExitOutOfMemory \/ EndRecycle

Next ==
    \/ \E t \in Threads :
           \/ Register(t) \/ PrimeNormal(t) \/ PrimeOverflow(t) \/ Unregister(t)
           \/ NextNormal(t) \/ NextOverflow(t) \/ OverflowThroughNull(t)
           \/ ReinitThread(t)
    \/ Recycle

Spec == Init /\ [][Next]_vars

-----------------------------------------------------------------------------
(* Properties                                                              *)

\* The pointers and the header links encode exactly the blocks put on each list
\* and not taken since, in order: the removal of the only block, the zeroing of
\* a header before it is linked, the order of the sweep (no link can name block
\* 0) and the splice of a grown range all keep it so.
ListsEncodeQueues ==
    /\ Encodes(free, nextBlock, freeQueue)
    /\ Encodes(recycled, nextBlock, recycledQueue)

\* The threads whose cursors mean something: none before the visit reaches it.
Primed == IF phase \in {"mutating", "reinit"} THEN Threads \ pending ELSE {}

\* The places a block can be in, as <<kind, index or thread>>.
Owners(b) ==
    {<<"free", i>> : i \in {j \in DOMAIN freeQueue : freeQueue[j] = b}}
    \cup {<<"recycled", i>> : i \in {j \in DOMAIN recycledQueue : recycledQueue[j] = b}}
    \cup {<<"normal", t>> : t \in {u \in Primed : block[u] = b}}
    \cup {<<"overflow", t>> : t \in {u \in Primed : largeBlock[u] = b}}

\* No two cursors bump through the same block and no list still offers a block
\* a cursor is in (documentation/concurrent/GlobalBlockAllocator.md:99-110).
NoBlockShared == \A b \in Blocks : Cardinality(Owners(b)) <= 1

\* A block on freeBlocks or under an overflow cursor is free from its first word
\* on; a block on recycledBlocks has a hole list to follow.
FlagsMatchLists ==
    /\ \A b \in ToSet(freeQueue) : flags[b] = "free" /\ b \notin used
    /\ \A b \in ToSet(recycledQueue) : flags[b] = "recyclable"
    /\ \A t \in Primed : largeBlock[t] # NULL => flags[largeBlock[t]] = "free"

\* When Heap_Recycle decides about growth, its counters describe the lists, no
\* block of the heap has been lost, and the two notions of the heap's size agree.
SweepAccountsForAll ==
    SweepDone =>
        /\ counts.free = Len(freeQueue) /\ counts.recycled = Len(recycledQueue)
        /\ counts.blocks = heapEnd
        /\ ToSet(freeQueue) \cup ToSet(recycledQueue)
               = {b \in 0 .. heapEnd - 1 : flags[b] # "unavailable"}

\* CanInitCursors promises enough: if it held when the visit began, every visited
\* thread finds a block for each of its two cursors, whatever the order.
PromiseKept ==
    phase = "reinit" /\ promised =>
        /\ \A t \in Registered \ pending : block[t] # NULL /\ largeBlock[t] # NULL
        /\ Len(freeQueue) >= Cardinality(pending)
        /\ Len(freeQueue) + Len(recycledQueue) >= 2 * Cardinality(pending)

\* After a collection every registered thread has both its cursors primed
\* (documentation/Heap.md:255-262: the growth check means enough for everyone).
EveryThreadPrimed ==
    phase = "reinit" =>
        \A t \in Registered \ pending : block[t] # NULL /\ largeBlock[t] # NULL

=============================================================================
