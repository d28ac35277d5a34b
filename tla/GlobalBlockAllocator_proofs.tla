-------------------- MODULE GlobalBlockAllocator_proofs ---------------------
(* The invariants of GlobalBlockAllocator, for every set of threads, every  *)
(* heap size and every growth rate.  The inductive invariant IInv says what *)
(* each list encodes, which blocks the primed cursors may be in, what lies  *)
(* beyond heapEnd and what the sweep has done so far; PromiseKept closes    *)
(* the argument about CanInitCursors.                                       *)
EXTENDS GlobalBlockAllocator, BlockList_proofs, FiniteSetTheorems

Free == ToSet(freeQueue)
Recyclable == ToSet(recycledQueue)

\* Both lists encode their queue and no block is on both.
Lists ==
    /\ IsList(Blocks, free, nextBlock, freeQueue)
    /\ IsList(Blocks, recycled, nextBlock, recycledQueue)
    /\ Free \cap Recyclable = {}

\* A cursor that means something is in no queued block, and alone in its own.
Cursors ==
    /\ \A t \in Primed : block[t] \notin Free \union Recyclable
    /\ \A t \in Primed : largeBlock[t] \notin Free \union Recyclable
    /\ \A t, u \in Primed : block[t] # NULL /\ block[t] = block[u] => t = u
    /\ \A t, u \in Primed : largeBlock[t] # NULL /\ largeBlock[t] = largeBlock[u] => t = u
    /\ \A t, u \in Primed : block[t] # NULL => block[t] # largeBlock[u]

\* Beyond heapEnd every header is still zero, and no list leads there.
Extent ==
    /\ heapEnd \in 2 .. MaxBlocks
    /\ counts.blocks = heapEnd
    /\ Free \union Recyclable \subseteq 0 .. heapEnd - 1
    /\ \A b \in heapEnd .. MaxBlocks - 1 :
           nextBlock[b] = 0 /\ flags[b] = "free" /\ b \notin used

\* The lists hold just what the sweep has passed and found to be of use.
Swept ==
    phase = "sweep" =>
        /\ sweepAt \in 0 .. heapEnd
        /\ counts.free = Len(freeQueue) /\ counts.recycled = Len(recycledQueue)
        /\ Free \union Recyclable = {b \in 0 .. sweepAt - 1 : flags[b] # "unavailable"}

\* A thread outside has no cursors, and the visit of threads knows only others.
Outside ==
    /\ \A t \in Threads : pc[t] = "outside" => block[t] = NULL /\ largeBlock[t] = NULL
    /\ phase = "reinit" => pending \subseteq Registered

IInv ==
    /\ TypeOK /\ Lists /\ Cursors /\ FlagsMatchLists /\ Extent /\ Swept /\ Outside
    /\ PromiseKept

-----------------------------------------------------------------------------
LEMMA BlocksFacts ==
    /\ Blocks \in SUBSET Nat /\ NULL \notin Blocks /\ 0 \in Blocks
    /\ InitialBlocks \in Nat /\ MaxBlocks \in Nat /\ 2 <= InitialBlocks
    /\ InitialBlocks <= MaxBlocks
  BY BlocksAssumption DEF Blocks, NULL

LEMMA RegisteredFinite ==
    IsFiniteSet(Registered) /\ Cardinality(Registered) \in Nat
  BY ThreadsAssumption, FS_Subset, FS_CardinalityType DEF Registered

\* Heap_Grow always adds at least a block: the percentage is rounded up.
LEMMA IncrementPositive ==
    ASSUME heapEnd \in 2 .. MaxBlocks PROVE Increment \in Nat \ {0}
<1>1. heapEnd \in Nat /\ heapEnd >= 2 /\ GROWTH_RATE \in Nat /\ GROWTH_RATE >= 1
  BY BlocksAssumption
<1> DEFINE w == heapEnd * SLOTS_IN_BLOCK
           x == w * GROWTH_RATE
<1>2. w \in Nat /\ w >= 8192
  BY <1>1 DEF SLOTS_IN_BLOCK
<1> HIDE DEF w
<1>3. x \in Nat /\ x >= w
  <2>1. \A g \in Nat : g >= 1 => w * g \in Nat /\ w * g >= w
    BY <1>2
  <2> QED
    BY <1>1, <2>1
<1> HIDE DEF x
<1>4. x \div 100 \in Nat /\ x \div 100 >= 1
  BY <1>2, <1>3
<1> DEFINE y == x \div 100
<1> HIDE DEF y
<1>5. (y - 1) \div 4096 \in Nat
  BY <1>4 DEF y
<1>6. Increment = (y - 1) \div 4096 + 1
  BY DEF Increment, SLOTS_IN_BLOCK, w, x, y
<1> QED
  BY <1>5, <1>6

\* What CanInitCursors grants n > 0 threads.
LEMMA CanInitCursorsMeans ==
    ASSUME NEW c, c.free \in Nat, c.recycled \in Nat, NEW n \in Nat,
           CanInitCursors(c, n)
    PROVE  c.free >= n /\ c.free + c.recycled >= 2 * n
  BY DEF CanInitCursors

-----------------------------------------------------------------------------
\* What it means that the shared allocator gives out b, NULL standing for nothing.
Taken(b) ==
    /\ b \in Free \union Recyclable \union {NULL}
    /\ IsList(Blocks, free', nextBlock, freeQueue')
    /\ IsList(Blocks, recycled', nextBlock, recycledQueue')
    /\ ToSet(freeQueue') = Free \ {b}
    /\ ToSet(recycledQueue') = Recyclable \ {b}
    /\ used' = used \union ({b} \ {NULL})

LEMMA GetFreeBlockTakes ==
    ASSUME Lists, GetFreeBlock PROVE Taken(FreeBlock) /\ FreeBlock \in Free \union {NULL}
<1>1. Blocks \in SUBSET Nat /\ NULL \notin Blocks
  BY BlocksFacts
<1>2. IsList(Blocks, free, nextBlock, freeQueue) /\ Free \subseteq Blocks
      /\ IsList(Blocks, recycled, nextBlock, recycledQueue) /\ Recyclable \subseteq Blocks
  BY <1>1, EmptyIffNoBlock DEF Lists, Free, Recyclable
<1>3. /\ free' = Rest(free, nextBlock) /\ freeQueue' = RestOf(freeQueue)
      /\ used' = used \union ({FreeBlock} \ {NULL})
      /\ UNCHANGED <<recycled, recycledQueue>>
  <2>1. IsEmpty(free) <=> freeQueue = <<>>
    BY <1>1, <1>2, EmptyIffNoBlock DEF IsList
  <2>2. IsEmpty(free) <=> FreeBlock = NULL
    BY DEF IsEmpty, FreeBlock
  <2> QED
    BY <2>1, <2>2 DEF GetFreeBlock, Rest, RestOf
<1>4. /\ IsList(Blocks, free', nextBlock, freeQueue')
      /\ ToSet(freeQueue') = Free \ {FreeBlock}
      /\ FreeBlock \in Free \union {NULL}
  BY <1>1, <1>2, <1>3, TakenFirst DEF FreeBlock, Free
<1>5. FreeBlock \notin Recyclable
  BY <1>1, <1>2, <1>4 DEF Lists
<1> QED
  BY <1>2, <1>3, <1>4, <1>5 DEF Taken, Recyclable

LEMMA GetBlockTakes ==
    ASSUME Lists, GetBlock PROVE Taken(AnyBlock)
<1>1. Blocks \in SUBSET Nat /\ NULL \notin Blocks
  BY BlocksFacts
<1>2. IsList(Blocks, free, nextBlock, freeQueue) /\ Free \subseteq Blocks
      /\ IsList(Blocks, recycled, nextBlock, recycledQueue) /\ Recyclable \subseteq Blocks
  BY <1>1, EmptyIffNoBlock DEF Lists, Free, Recyclable
<1>3. CASE IsEmpty(recycled)
  BY <1>3, GetFreeBlockTakes DEF GetBlock, AnyBlock, FreeBlock
<1>4. CASE ~IsEmpty(recycled)
  <2>1. AnyBlock = recycled.first /\ AnyBlock # NULL
    BY <1>4 DEF AnyBlock, IsEmpty
  <2>2. /\ recycled' = Rest(recycled, nextBlock) /\ recycledQueue' = RestOf(recycledQueue)
        /\ used' = used \union {AnyBlock}
        /\ UNCHANGED <<free, freeQueue>>
    <3>1. recycledQueue # <<>>
      BY <1>1, <1>2, <1>4, EmptyIffNoBlock DEF IsList
    <3> QED
      BY <1>4, <3>1 DEF GetBlock, Rest, RestOf
  <2>3. /\ IsList(Blocks, recycled', nextBlock, recycledQueue')
        /\ ToSet(recycledQueue') = Recyclable \ {AnyBlock}
        /\ AnyBlock \in Recyclable
    BY <1>1, <1>2, <1>4, <2>1, <2>2, TakenFirst DEF Recyclable
  <2>4. AnyBlock \notin Free
    BY <2>3 DEF Lists
  <2> QED
    BY <1>2, <2>1, <2>2, <2>3, <2>4 DEF Taken, Free
<1> QED
  BY <1>3, <1>4
\* Taking a block off its list keeps what the lists and the heap promise.
LEMMA TakenKeepsHeap ==
    ASSUME TypeOK, Lists, Extent, FlagsMatchLists, NEW b, Taken(b), UNCHANGED heap
    PROVE  /\ Lists' /\ Extent'
           /\ {free', recycled'} \subseteq [first : BlocksOrNull, last : BlocksOrNull]
           /\ freeQueue' \in Seq(Blocks) /\ recycledQueue' \in Seq(Blocks)
           /\ used' \subseteq Blocks /\ b \in BlocksOrNull
           /\ \A c \in Free' : flags'[c] = "free" /\ c \notin used'
           /\ \A c \in Recyclable' : flags'[c] = "recyclable"
<1>1. Blocks \in SUBSET Nat /\ NULL \notin Blocks
  BY BlocksFacts
<1>2. Free \subseteq Blocks /\ Recyclable \subseteq Blocks
  BY <1>1, EmptyIffNoBlock DEF Lists, Free, Recyclable
<1>3. Free' = Free \ {b} /\ Recyclable' = Recyclable \ {b}
  BY DEF Taken, Free, Recyclable
<1>4. /\ nextBlock' = nextBlock /\ flags' = flags /\ heapEnd' = heapEnd
      /\ counts' = counts /\ Blocks' = Blocks
  BY DEF heap, Blocks
<1>5. Lists'
  BY <1>3, <1>4 DEF Lists, Taken
<1>6. used' = used \union ({b} \ {NULL}) /\ b \in Free \union Recyclable \union {NULL}
  BY DEF Taken
<1>7. Extent'
  <2>1. Free' \union Recyclable' \subseteq 0 .. heapEnd - 1
    BY <1>3 DEF Extent
  <2>2. ASSUME NEW c \in heapEnd .. MaxBlocks - 1 PROVE c \notin used'
    <3>1. b \in 0 .. heapEnd - 1 \/ b = NULL
      BY <1>6 DEF Extent
    <3>2. c # b \/ b = NULL
      BY <3>1 DEF Extent
    <3> QED
      BY <1>6, <3>2 DEF Extent
  <2> QED
    BY <1>4, <2>1, <2>2 DEF Extent
<1>8. {free', recycled'} \subseteq [first : BlocksOrNull, last : BlocksOrNull]
      /\ freeQueue' \in Seq(Blocks) /\ recycledQueue' \in Seq(Blocks)
  BY DEF Taken, IsList, BlocksOrNull
<1>9. used' \subseteq Blocks /\ b \in BlocksOrNull
  BY <1>2, <1>6 DEF TypeOK, BlocksOrNull
<1>10. /\ \A c \in Free' : flags'[c] = "free" /\ c \notin used'
       /\ \A c \in Recyclable' : flags'[c] = "recyclable"
  BY <1>3, <1>4, <1>6 DEF FlagsMatchLists, Free, Recyclable
<1> QED
  BY <1>5, <1>7, <1>8, <1>9, <1>10

\* ... and the cursor it goes to is alone in it.
LEMMA TakenByNormal ==
    ASSUME TypeOK, Lists, Cursors, NEW b, Taken(b), NEW t \in Threads, phase = "mutating", Idle,
           block' = [block EXCEPT ![t] = b], largeBlock' = largeBlock
    PROVE  Cursors'
<1>1. Primed' = Primed /\ Primed \subseteq Threads
  BY DEF Idle, Primed
<1>2. Free' = Free \ {b} /\ Recyclable' = Recyclable \ {b} /\ NULL \notin Free \union Recyclable
  BY BlocksFacts, EmptyIffNoBlock DEF Taken, Free, Recyclable, Lists
<1>3. /\ \A u \in Threads : block'[u] = IF u = t THEN b ELSE block[u]
      /\ b \in Free \union Recyclable \union {NULL}
  BY DEF TypeOK, Taken
<1> QED
  BY <1>1, <1>2, <1>3 DEF Cursors

LEMMA TakenByOverflow ==
    ASSUME TypeOK, Lists, Cursors, NEW b, Taken(b), NEW t \in Threads, phase = "mutating", Idle,
           largeBlock' = [largeBlock EXCEPT ![t] = b], block' = block
    PROVE  Cursors'
<1>1. Primed' = Primed /\ Primed \subseteq Threads
  BY DEF Idle, Primed
<1>2. Free' = Free \ {b} /\ Recyclable' = Recyclable \ {b} /\ NULL \notin Free \union Recyclable
  BY BlocksFacts, EmptyIffNoBlock DEF Taken, Free, Recyclable, Lists
<1>3. /\ \A u \in Threads : largeBlock'[u] = IF u = t THEN b ELSE largeBlock[u]
      /\ b \in Free \union Recyclable \union {NULL}
  BY DEF TypeOK, Taken
<1> QED
  BY <1>1, <1>2, <1>3 DEF Cursors

-----------------------------------------------------------------------------
(* The steps of the mutators                                               *)

LEMMA NormalStep ==
    ASSUME IInv, NEW t \in Threads, phase = "mutating", GetBlock,
           block' = [block EXCEPT ![t] = AnyBlock],
           pc' \in [Threads -> {"outside", "primeNormal", "primeOverflow", "running"}],
           pc'[t] # "outside", \A u \in Threads \ {t} : pc'[u] = pc[u],
           UNCHANGED <<heap, largeBlock>>, Idle
    PROVE  IInv'
<1>1. Taken(AnyBlock)
  BY GetBlockTakes DEF IInv
<1>2. /\ Lists' /\ Extent'
      /\ {free', recycled'} \subseteq [first : BlocksOrNull, last : BlocksOrNull]
      /\ freeQueue' \in Seq(Blocks) /\ recycledQueue' \in Seq(Blocks)
      /\ used' \subseteq Blocks /\ AnyBlock \in BlocksOrNull
      /\ \A c \in Free' : flags'[c] = "free" /\ c \notin used'
      /\ \A c \in Recyclable' : flags'[c] = "recyclable"
  BY <1>1, TakenKeepsHeap DEF IInv
<1>3. TypeOK'
  BY <1>2 DEF IInv, TypeOK, Idle, heap, Blocks, BlocksOrNull
<1>4. Cursors'
  BY <1>1, TakenByNormal DEF IInv
<1>5. FlagsMatchLists'
  <2>1. Primed' = Primed
    BY DEF Primed, Idle
  <2> QED
    BY <1>2, <2>1 DEF FlagsMatchLists, IInv, Free, Recyclable, heap
<1>6. phase' = "mutating"
  BY DEF Idle
<1>7. Swept' /\ PromiseKept'
  BY <1>6 DEF Swept, PromiseKept
<1>8. Outside'
  BY <1>6 DEF Outside, IInv, TypeOK
<1> QED
  BY <1>2, <1>3, <1>4, <1>5, <1>7, <1>8 DEF IInv

LEMMA OverflowStep ==
    ASSUME IInv, NEW t \in Threads, phase = "mutating", GetFreeBlock,
           largeBlock' = [largeBlock EXCEPT ![t] = FreeBlock],
           pc' \in [Threads -> {"outside", "primeNormal", "primeOverflow", "running"}],
           pc'[t] # "outside", \A u \in Threads \ {t} : pc'[u] = pc[u],
           UNCHANGED <<heap, block>>, Idle
    PROVE  IInv'
<1>1. Taken(FreeBlock) /\ FreeBlock \in Free \union {NULL}
  BY GetFreeBlockTakes DEF IInv
<1>2. /\ Lists' /\ Extent'
      /\ {free', recycled'} \subseteq [first : BlocksOrNull, last : BlocksOrNull]
      /\ freeQueue' \in Seq(Blocks) /\ recycledQueue' \in Seq(Blocks)
      /\ used' \subseteq Blocks /\ FreeBlock \in BlocksOrNull
      /\ \A c \in Free' : flags'[c] = "free" /\ c \notin used'
      /\ \A c \in Recyclable' : flags'[c] = "recyclable"
  BY <1>1, TakenKeepsHeap DEF IInv
<1>3. TypeOK'
  BY <1>2 DEF IInv, TypeOK, Idle, heap, Blocks, BlocksOrNull
<1>4. Cursors'
  BY <1>1, TakenByOverflow DEF IInv
<1>5. FlagsMatchLists'
  <2>1. Primed' = Primed /\ Primed \subseteq Threads
    BY DEF Primed, Idle
  <2>2. \A u \in Threads : largeBlock'[u] = IF u = t THEN FreeBlock ELSE largeBlock[u]
    BY DEF IInv, TypeOK
  <2>3. flags' = flags /\ (FreeBlock # NULL => flags[FreeBlock] = "free")
    BY <1>1 DEF heap, IInv, FlagsMatchLists, Free
  <2>4. \A u \in Primed : largeBlock'[u] # NULL => flags'[largeBlock'[u]] = "free"
    BY <2>1, <2>2, <2>3 DEF IInv, FlagsMatchLists
  <2> QED
    BY <1>2, <2>1, <2>4 DEF FlagsMatchLists, Free, Recyclable
<1>6. phase' = "mutating"
  BY DEF Idle
<1>7. Swept' /\ PromiseKept'
  BY <1>6 DEF Swept, PromiseKept
<1>8. Outside'
  BY <1>6 DEF Outside, IInv, TypeOK
<1> QED
  BY <1>2, <1>3, <1>4, <1>5, <1>7, <1>8 DEF IInv

\* The steps of a thread that leave the pool alone.
LEMMA MutatorStep ==
    ASSUME IInv, NEW t \in Threads,
           Register(t) \/ Unregister(t) \/ OverflowThroughNull(t)
    PROVE  IInv'
<1>1. /\ UNCHANGED <<heap, pool, used, sweepAt, pending, promised>> /\ phase = "mutating"
      /\ phase' \in {"mutating", "crashed"}
      /\ \A u \in Threads : block'[u] \in {block[u], NULL}
                            /\ largeBlock'[u] \in {largeBlock[u], NULL}
      /\ block' \in [Threads -> BlocksOrNull] /\ largeBlock' \in [Threads -> BlocksOrNull]
      /\ pc' \in [Threads -> {"outside", "primeNormal", "primeOverflow", "running"}]
      /\ \A u \in Threads : pc'[u] = "outside" => block'[u] = NULL /\ largeBlock'[u] = NULL
  BY DEF IInv, TypeOK, Outside, Register, Unregister, OverflowThroughNull, Idle, threads, heap,
         pool, BlocksOrNull
<1>2. TypeOK'
  BY <1>1 DEF IInv, TypeOK, heap, pool, Blocks, BlocksOrNull
<1>3. Lists' /\ Extent'
  BY <1>1 DEF IInv, Lists, Extent, heap, pool, Free, Recyclable, Blocks
<1>4. Primed' \subseteq Primed /\ Primed \subseteq Threads
  BY <1>1 DEF Primed
<1>5. Free' = Free /\ Recyclable' = Recyclable /\ NULL \notin Free \union Recyclable
      /\ flags' = flags /\ used' = used
  BY <1>1, BlocksFacts, EmptyIffNoBlock DEF Free, Recyclable, pool, heap, IInv, Lists
<1>6. Cursors'
  BY <1>1, <1>4, <1>5 DEF IInv, Cursors
<1>7. FlagsMatchLists'
  <2>1. \A u \in Primed' : largeBlock'[u] # NULL => flags'[largeBlock'[u]] = "free"
    BY <1>1, <1>4, <1>5 DEF IInv, FlagsMatchLists
  <2> QED
    BY <1>5, <2>1 DEF IInv, FlagsMatchLists, Free, Recyclable
<1>8. Swept' /\ PromiseKept' /\ Outside'
  BY <1>1 DEF Swept, PromiseKept, Outside
<1> QED
  BY <1>2, <1>3, <1>6, <1>7, <1>8 DEF IInv

-----------------------------------------------------------------------------
(* The steps of Heap_Recycle                                               *)

LEMMA BeginRecycleStep ==
    ASSUME IInv, BeginRecycle PROVE IInv'
<1>1. /\ UNCHANGED <<nextBlock, flags, heapEnd, threads, pending, used, promised>>
      /\ free' = EmptyList /\ recycled' = EmptyList
      /\ freeQueue' = <<>> /\ recycledQueue' = <<>>
      /\ counts' = [counts EXCEPT !.free = 0, !.recycled = 0, !.memory = 0]
      /\ phase' = "sweep" /\ sweepAt' = 0
  BY DEF BeginRecycle
<1>2. Free' = {} /\ Recyclable' = {}
  BY <1>1, EmptyIsList DEF Free, Recyclable
<1>3. /\ counts'.blocks = counts.blocks /\ counts'.free = 0 /\ counts'.recycled = 0
      /\ counts' \in [blocks : Nat, free : Nat, recycled : Nat, memory : Nat]
  BY <1>1 DEF IInv, TypeOK
<1>4. TypeOK'
  <2>1. {free', recycled'} \subseteq [first : BlocksOrNull, last : BlocksOrNull]
    BY <1>1 DEF EmptyList, BlocksOrNull
  <2>2. freeQueue' \in Seq(Blocks) /\ recycledQueue' \in Seq(Blocks) /\ sweepAt' \in 0 .. MaxBlocks
    BY <1>1, BlocksFacts
  <2> QED
    BY <1>1, <1>3, <2>1, <2>2 DEF IInv, TypeOK, threads, Blocks, BlocksOrNull
<1>5. Lists'
  BY <1>1, <1>2, EmptyIsList DEF Lists
<1>6. Primed' = {}
  BY <1>1 DEF Primed
<1>7. Cursors' /\ FlagsMatchLists'
  BY <1>2, <1>6 DEF Cursors, FlagsMatchLists, Free, Recyclable
<1>8. Extent'
  BY <1>1, <1>2, <1>3 DEF IInv, Extent
<1>9. Swept'
  <2>1. Len(freeQueue') = 0 /\ Len(recycledQueue') = 0 /\ 0 .. 0 - 1 = {}
    BY <1>1
  <2>2. sweepAt' \in 0 .. heapEnd'
    BY <1>1 DEF IInv, Extent
  <2> QED
    BY <1>1, <1>2, <1>3, <2>1, <2>2 DEF Swept
<1>10. Outside' /\ PromiseKept'
  BY <1>1 DEF IInv, Outside, PromiseKept, threads
<1> QED
  BY <1>4, <1>5, <1>7, <1>8, <1>9, <1>10 DEF IInv

\* What every step of the sweep keeps once it has said what it does to the lists.
LEMMA SweepStep ==
    ASSUME IInv, phase = "sweep", sweepAt < heapEnd, SweepNext,
           Lists', TypeOK',
           NEW f \in {"free", "recyclable", "unavailable"},
           flags' = [flags EXCEPT ![sweepAt] = f],
           used' = IF f = "free" THEN used \ {sweepAt} ELSE used,
           Free' = Free \union (IF f = "free" THEN {sweepAt} ELSE {}),
           Recyclable' = Recyclable \union (IF f = "recyclable" THEN {sweepAt} ELSE {}),
           counts'.blocks = counts.blocks,
           counts'.free = Len(freeQueue'), counts'.recycled = Len(recycledQueue'),
           \A c \in heapEnd .. MaxBlocks - 1 : nextBlock'[c] = nextBlock[c]
    PROVE  IInv'
<1>1. /\ sweepAt' = sweepAt + 1 /\ heapEnd' = heapEnd /\ phase' = "sweep" /\ promised' = promised
      /\ pending' = pending /\ UNCHANGED threads
  BY DEF SweepNext
<1>2. /\ heapEnd \in 2 .. MaxBlocks /\ sweepAt \in 0 .. heapEnd - 1
      /\ sweepAt \in Blocks /\ MaxBlocks \in Nat
  BY BlocksFacts DEF IInv, Extent, Swept, Blocks
<1>3. \A c \in Blocks : flags'[c] = IF c = sweepAt THEN f ELSE flags[c]
  BY DEF IInv, TypeOK
<1>4. Free \union Recyclable = {b \in 0 .. sweepAt - 1 : flags[b] # "unavailable"}
  BY DEF IInv, Swept
<1>5. \A c \in Free \union Recyclable : c # sweepAt /\ c \in Blocks
  BY <1>2, <1>4 DEF Blocks
<1>6. Primed' = {}
  BY <1>1 DEF Primed
<1>7. Cursors'
  BY <1>6 DEF Cursors
<1>8. FlagsMatchLists'
  <2>1. \A c \in Free' : flags'[c] = "free" /\ c \notin used'
    BY <1>2, <1>3, <1>5 DEF IInv, FlagsMatchLists, Free
  <2>2. \A c \in Recyclable' : flags'[c] = "recyclable"
    BY <1>2, <1>3, <1>5 DEF IInv, FlagsMatchLists, Recyclable
  <2> QED
    BY <1>6, <2>1, <2>2 DEF FlagsMatchLists, Free, Recyclable
<1>9. Extent'
  <2>1. Free' \union Recyclable' \subseteq 0 .. heapEnd - 1
    BY <1>2, <1>4
  <2>2. ASSUME NEW c \in heapEnd .. MaxBlocks - 1
        PROVE  nextBlock'[c] = 0 /\ flags'[c] = "free" /\ c \notin used'
    <3>1. c \in Blocks /\ c # sweepAt
      BY <1>2 DEF Blocks
    <3> QED
      BY <1>3, <3>1 DEF IInv, Extent
  <2> QED
    BY <1>1, <2>1, <2>2 DEF Extent, IInv
<1>10. Swept'
  <2>1. sweepAt' \in 0 .. heapEnd' /\ (0 .. sweepAt' - 1) = (0 .. sweepAt - 1) \union {sweepAt}
    BY <1>1, <1>2
  <2>2. \A c \in 0 .. sweepAt - 1 : c \in Blocks /\ c # sweepAt
    BY <1>2 DEF Blocks
  <2>3. Free' \union Recyclable'
            = (Free \union Recyclable) \union (IF f = "unavailable" THEN {} ELSE {sweepAt})
    OBVIOUS
  <2>4. Free' \union Recyclable' = {b \in 0 .. sweepAt' - 1 : flags'[b] # "unavailable"}
    BY <1>2, <1>3, <1>4, <2>1, <2>2, <2>3
  <2> QED
    BY <1>1, <2>1, <2>4 DEF Swept
<1>11. Outside' /\ PromiseKept'
  BY <1>1 DEF IInv, Outside, PromiseKept, threads
<1> QED
  BY <1>7, <1>8, <1>9, <1>10, <1>11 DEF IInv

LEMMA SweepFacts ==
    ASSUME IInv, phase = "sweep", sweepAt < heapEnd
    PROVE  /\ sweepAt \in Blocks /\ sweepAt + 1 \in 0 .. MaxBlocks
           /\ sweepAt \notin heapEnd .. MaxBlocks - 1
           /\ sweepAt \notin Free /\ sweepAt \notin Recyclable
           /\ sweepAt = 0 => Free = {} /\ Recyclable = {}
           /\ counts.free = Len(freeQueue) /\ counts.recycled = Len(recycledQueue)
           /\ IsList(Blocks, free, nextBlock, freeQueue)
           /\ IsList(Blocks, recycled, nextBlock, recycledQueue)
           /\ Free \subseteq 0 .. heapEnd - 1 /\ Recyclable \subseteq 0 .. heapEnd - 1
           /\ Free \subseteq Blocks /\ Recyclable \subseteq Blocks
           /\ Free \cap Recyclable = {}
           /\ nextBlock \in [Blocks -> Blocks \union {LAST_BLOCK, 0}]
<1>1. /\ heapEnd \in 2 .. MaxBlocks /\ sweepAt \in 0 .. heapEnd - 1 /\ MaxBlocks \in Nat
      /\ counts.free = Len(freeQueue) /\ counts.recycled = Len(recycledQueue)
      /\ Free \union Recyclable = {b \in 0 .. sweepAt - 1 : flags[b] # "unavailable"}
      /\ Free \union Recyclable \subseteq 0 .. heapEnd - 1
  BY BlocksFacts DEF IInv, Extent, Swept
<1>2. /\ sweepAt \in Blocks /\ sweepAt + 1 \in 0 .. MaxBlocks
      /\ sweepAt \notin heapEnd .. MaxBlocks - 1
  BY <1>1 DEF Blocks
<1>3. sweepAt \notin Free \union Recyclable
  BY <1>1
<1>4. /\ IsList(Blocks, free, nextBlock, freeQueue) /\ Free \cap Recyclable = {}
      /\ IsList(Blocks, recycled, nextBlock, recycledQueue)
  BY DEF IInv, Lists
<1>5. Free \subseteq Blocks /\ Recyclable \subseteq Blocks
  BY <1>4, BlocksFacts, EmptyIffNoBlock DEF Free, Recyclable
<1>6. sweepAt = 0 => Free = {} /\ Recyclable = {}
  BY <1>1
<1>7. nextBlock \in [Blocks -> Blocks \union {LAST_BLOCK, 0}]
  BY BlocksFacts DEF IInv, TypeOK
<1> QED
  BY <1>1, <1>2, <1>3, <1>4, <1>5, <1>6, <1>7

LEMMA SweepUnmarkedStep ==
    ASSUME IInv, SweepUnmarked PROVE IInv'
<1> DEFINE b == sweepAt
           zeroed == [nextBlock EXCEPT ![b] = 0]
<1>1. /\ phase = "sweep" /\ sweepAt < heapEnd /\ SweepNext
      /\ free' = AddLast(free, b, b) /\ nextBlock' = LinksAddLast(free, zeroed, b, b)
      /\ flags' = [flags EXCEPT ![b] = "free"] /\ freeQueue' = Append(freeQueue, b)
      /\ used' = used \ {b}
      /\ counts' = [counts EXCEPT !.free = @ + 1, !.memory = @ + BLOCK_TOTAL_SIZE]
      /\ recycled' = recycled /\ recycledQueue' = recycledQueue
  BY DEF SweepUnmarked
<1>2. /\ b \in Blocks /\ b + 1 \in 0 .. MaxBlocks /\ b \notin heapEnd .. MaxBlocks - 1
      /\ b \notin Free /\ b \notin Recyclable /\ (b = 0 => Free = {})
      /\ counts.free = Len(freeQueue) /\ counts.recycled = Len(recycledQueue)
      /\ IsList(Blocks, free, nextBlock, freeQueue)
      /\ IsList(Blocks, recycled, nextBlock, recycledQueue)
      /\ Free \subseteq 0 .. heapEnd - 1 /\ Free \subseteq Blocks /\ Recyclable \subseteq Blocks
      /\ Free \cap Recyclable = {}
      /\ nextBlock \in [Blocks -> Blocks \union {LAST_BLOCK, 0}]
  BY <1>1, SweepFacts
\* The header is zeroed while the block is on no list.
<1>3. /\ zeroed \in [Blocks -> Blocks \union {LAST_BLOCK, 0}]
      /\ \A c \in Blocks \ {b} : zeroed[c] = nextBlock[c]
  BY <1>2
<1> HIDE DEF zeroed
<1>4. IsList(Blocks, free, zeroed, freeQueue)
  <2>1. \A c \in ToSet(freeQueue) : zeroed[c] = nextBlock[c]
    BY <1>2, <1>3 DEF Free
  <2> QED
    BY <1>2, <2>1, BlocksFacts, UntouchedList
<1>5. /\ IsList(Blocks, free', nextBlock', freeQueue')
      /\ ToSet(freeQueue') = ToSet(freeQueue) \union {b}
      /\ Len(freeQueue') = Len(freeQueue) + 1
      /\ nextBlock' \in [Blocks -> Blocks \union {LAST_BLOCK, 0}]
      /\ \A c \in Blocks \ (ToSet(freeQueue) \union {b}) : nextBlock'[c] = zeroed[c]
  <2>1. b \notin ToSet(freeQueue) /\ (b = 0 => ToSet(freeQueue) = {})
    BY <1>2 DEF Free
  <2>2. Blocks \in SUBSET Nat /\ b \in Blocks
        /\ IsList(Blocks, free, zeroed, freeQueue) /\ zeroed \in [Blocks -> Blocks \union {LAST_BLOCK, 0}]
    BY <1>2, <1>3, <1>4, BlocksFacts
  <2> HIDE DEF b
  <2>3. IsList(Blocks, AddLast(free, b, b), LinksAddLast(free, zeroed, b, b), Append(freeQueue, b))
    BY <2>1, <2>2, AddedBlock
  <2>4. ToSet(Append(freeQueue, b)) = ToSet(freeQueue) \union {b} /\ Len(Append(freeQueue, b)) = Len(freeQueue) + 1
    BY <2>1, <2>2, AddedBlock
  <2>5. LinksAddLast(free, zeroed, b, b) \in [Blocks -> Blocks \union {LAST_BLOCK, 0}]
    BY <2>1, <2>2, AddedBlock
  <2>6. \A c \in Blocks \ (ToSet(freeQueue) \union {b}) : LinksAddLast(free, zeroed, b, b)[c] = zeroed[c]
    BY <2>1, <2>2, AddedBlock
  <2> QED
    BY <1>1, <2>3, <2>4, <2>5, <2>6
<1>6. \A c \in Blocks \ (Free \union {b}) : nextBlock'[c] = nextBlock[c]
  BY <1>3, <1>5 DEF Free
<1>7. Free' = Free \union {b} /\ Recyclable' = Recyclable
  BY <1>1, <1>5 DEF Free, Recyclable
<1>8. IsList(Blocks, recycled', nextBlock', recycledQueue')
  <2>1. \A c \in ToSet(recycledQueue) : nextBlock'[c] = nextBlock[c]
    BY <1>2, <1>6 DEF Recyclable
  <2> QED
    BY <1>1, <1>2, <2>1, BlocksFacts, UntouchedList
<1>9. Lists'
  <2>1. Blocks' = Blocks
    BY DEF Blocks
  <2> QED
    BY <1>2, <1>5, <1>7, <1>8, <2>1 DEF Lists
<1>10. /\ counts' \in [blocks : Nat, free : Nat, recycled : Nat, memory : Nat]
       /\ counts'.blocks = counts.blocks /\ counts'.free = counts.free + 1
       /\ counts'.recycled = counts.recycled
  <2>1. counts \in [blocks : Nat, free : Nat, recycled : Nat, memory : Nat]
    BY DEF IInv, TypeOK
  <2>2. counts' = [blocks |-> counts.blocks, free |-> counts.free + 1,
                    recycled |-> counts.recycled, memory |-> counts.memory + 2]
    BY <1>1, <2>1 DEF BLOCK_TOTAL_SIZE
  <2> QED
    BY <2>1, <2>2
<1>11. TypeOK'
  <2>1. {free', recycled'} \subseteq [first : BlocksOrNull, last : BlocksOrNull]
        /\ freeQueue' \in Seq(Blocks) /\ recycledQueue' \in Seq(Blocks)
    BY <1>5, <1>8 DEF IsList, BlocksOrNull
  <2>2. nextBlock' \in [Blocks -> Blocks \union {LAST_BLOCK}]
    BY <1>5, BlocksFacts
  <2>3. flags' \in [Blocks -> {"free", "recyclable", "unavailable"}]
    BY <1>1 DEF IInv, TypeOK
  <2>4. sweepAt' \in 0 .. MaxBlocks
    BY <1>1, <1>2 DEF SweepNext
  <2> QED
    BY <1>1, <1>10, <2>1, <2>2, <2>3, <2>4
       DEF IInv, TypeOK, SweepNext, threads, Blocks, BlocksOrNull
<1>12. \A c \in heapEnd .. MaxBlocks - 1 : nextBlock'[c] = nextBlock[c]
  <2>1. heapEnd \in Nat /\ MaxBlocks \in Nat
    BY BlocksFacts DEF IInv, Extent
  <2>2. \A c \in heapEnd .. MaxBlocks - 1 : c \in Blocks \ (Free \union {b})
    BY <1>2, <2>1 DEF Blocks
  <2> QED
    BY <1>6, <2>2
<1> QED
  BY <1>1, <1>2, <1>5, <1>7, <1>9, <1>10, <1>11, <1>12, SweepStep

LEMMA SweepRecyclableStep ==
    ASSUME IInv, SweepRecyclable PROVE IInv'
<1> DEFINE b == sweepAt
<1>1. /\ phase = "sweep" /\ sweepAt < heapEnd /\ SweepNext
      /\ recycled' = AddLast(recycled, b, b) /\ nextBlock' = LinksAddLast(recycled, nextBlock, b, b)
      /\ flags' = [flags EXCEPT ![b] = "recyclable"]
      /\ recycledQueue' = Append(recycledQueue, b)
      /\ counts' = [counts EXCEPT !.recycled = @ + 1, !.memory = @ + 1]
      /\ free' = free /\ freeQueue' = freeQueue /\ used' = used
  BY DEF SweepRecyclable
<1>2. /\ b \in Blocks /\ b + 1 \in 0 .. MaxBlocks /\ b \notin heapEnd .. MaxBlocks - 1
      /\ b \notin Free /\ b \notin Recyclable /\ (b = 0 => Recyclable = {})
      /\ counts.free = Len(freeQueue) /\ counts.recycled = Len(recycledQueue)
      /\ IsList(Blocks, free, nextBlock, freeQueue)
      /\ IsList(Blocks, recycled, nextBlock, recycledQueue)
      /\ Recyclable \subseteq 0 .. heapEnd - 1 /\ Free \subseteq Blocks
      /\ Recyclable \subseteq Blocks /\ Free \cap Recyclable = {}
      /\ nextBlock \in [Blocks -> Blocks \union {LAST_BLOCK, 0}]
  BY <1>1, SweepFacts
<1>3. /\ IsList(Blocks, recycled', nextBlock', recycledQueue')
      /\ ToSet(recycledQueue') = ToSet(recycledQueue) \union {b}
      /\ Len(recycledQueue') = Len(recycledQueue) + 1
      /\ nextBlock' \in [Blocks -> Blocks \union {LAST_BLOCK, 0}]
      /\ \A c \in Blocks \ (ToSet(recycledQueue) \union {b}) : nextBlock'[c] = nextBlock[c]
  <2>1. b \notin ToSet(recycledQueue) /\ (b = 0 => ToSet(recycledQueue) = {})
    BY <1>2 DEF Recyclable
  <2>2. Blocks \in SUBSET Nat /\ b \in Blocks
        /\ IsList(Blocks, recycled, nextBlock, recycledQueue) /\ nextBlock \in [Blocks -> Blocks \union {LAST_BLOCK, 0}]
    BY <1>2, BlocksFacts
  <2> HIDE DEF b
  <2>3. IsList(Blocks, AddLast(recycled, b, b), LinksAddLast(recycled, nextBlock, b, b), Append(recycledQueue, b))
    BY <2>1, <2>2, AddedBlock
  <2>4. ToSet(Append(recycledQueue, b)) = ToSet(recycledQueue) \union {b} /\ Len(Append(recycledQueue, b)) = Len(recycledQueue) + 1
    BY <2>1, <2>2, AddedBlock
  <2>5. LinksAddLast(recycled, nextBlock, b, b) \in [Blocks -> Blocks \union {LAST_BLOCK, 0}]
    BY <2>1, <2>2, AddedBlock
  <2>6. \A c \in Blocks \ (ToSet(recycledQueue) \union {b}) : LinksAddLast(recycled, nextBlock, b, b)[c] = nextBlock[c]
    BY <2>1, <2>2, AddedBlock
  <2> QED
    BY <1>1, <2>3, <2>4, <2>5, <2>6
<1>4. Recyclable' = Recyclable \union {b} /\ Free' = Free
  BY <1>1, <1>3 DEF Free, Recyclable
<1>5. IsList(Blocks, free', nextBlock', freeQueue')
  <2>1. \A c \in ToSet(freeQueue) : nextBlock'[c] = nextBlock[c]
    BY <1>2, <1>3 DEF Free, Recyclable
  <2> QED
    BY <1>1, <1>2, <2>1, BlocksFacts, UntouchedList
<1>6. Lists'
  <2>1. Blocks' = Blocks
    BY DEF Blocks
  <2> QED
    BY <1>2, <1>3, <1>4, <1>5, <2>1 DEF Lists
<1>7. /\ counts' \in [blocks : Nat, free : Nat, recycled : Nat, memory : Nat]
      /\ counts'.blocks = counts.blocks /\ counts'.free = counts.free
      /\ counts'.recycled = counts.recycled + 1
  <2>1. counts \in [blocks : Nat, free : Nat, recycled : Nat, memory : Nat]
    BY DEF IInv, TypeOK
  <2>2. counts' = [blocks |-> counts.blocks, free |-> counts.free,
                    recycled |-> counts.recycled + 1, memory |-> counts.memory + 1]
    BY <1>1, <2>1
  <2> QED
    BY <2>1, <2>2
<1>8. TypeOK'
  <2>1. {free', recycled'} \subseteq [first : BlocksOrNull, last : BlocksOrNull]
        /\ freeQueue' \in Seq(Blocks) /\ recycledQueue' \in Seq(Blocks)
    BY <1>3, <1>5 DEF IsList, BlocksOrNull
  <2>2. nextBlock' \in [Blocks -> Blocks \union {LAST_BLOCK}]
    BY <1>3, BlocksFacts
  <2>3. flags' \in [Blocks -> {"free", "recyclable", "unavailable"}]
    BY <1>1 DEF IInv, TypeOK
  <2>4. sweepAt' \in 0 .. MaxBlocks
    BY <1>1, <1>2 DEF SweepNext
  <2> QED
    BY <1>1, <1>7, <2>1, <2>2, <2>3, <2>4
       DEF IInv, TypeOK, SweepNext, threads, Blocks, BlocksOrNull
<1>9. \A c \in heapEnd .. MaxBlocks - 1 : nextBlock'[c] = nextBlock[c]
  <2>1. heapEnd \in Nat /\ MaxBlocks \in Nat
    BY BlocksFacts DEF IInv, Extent
  <2>2. \A c \in heapEnd .. MaxBlocks - 1 : c \in Blocks \ (Recyclable \union {b})
    BY <1>2, <2>1 DEF Blocks
  <2> QED
    BY <1>3, <2>2 DEF Recyclable
<1> QED
  BY <1>1, <1>2, <1>3, <1>4, <1>6, <1>7, <1>8, <1>9, SweepStep

LEMMA SweepUnavailableStep ==
    ASSUME IInv, SweepUnavailable PROVE IInv'
<1>1. /\ phase = "sweep" /\ sweepAt < heapEnd /\ SweepNext
      /\ flags' = [flags EXCEPT ![sweepAt] = "unavailable"]
      /\ nextBlock' = nextBlock /\ UNCHANGED pool /\ counts' = counts /\ used' = used
  BY DEF SweepUnavailable
<1>2. sweepAt + 1 \in 0 .. MaxBlocks
      /\ counts.free = Len(freeQueue) /\ counts.recycled = Len(recycledQueue)
  BY <1>1, SweepFacts
<1>3. Free' = Free /\ Recyclable' = Recyclable /\ Lists'
  BY <1>1 DEF pool, Free, Recyclable, IInv, Lists, Blocks
<1>4. TypeOK'
  <2>1. flags' \in [Blocks -> {"free", "recyclable", "unavailable"}]
    BY <1>1 DEF IInv, TypeOK
  <2>2. sweepAt' \in 0 .. MaxBlocks
    BY <1>1, <1>2 DEF SweepNext
  <2> QED
    BY <1>1, <2>1, <2>2 DEF IInv, TypeOK, SweepNext, pool, threads, Blocks, BlocksOrNull
<1>5. freeQueue' = freeQueue /\ recycledQueue' = recycledQueue
  BY <1>1 DEF pool
<1>6. Free' = Free \union {} /\ Recyclable' = Recyclable \union {}
  BY <1>3
<1> QED
  BY <1>1, <1>2, <1>3, <1>4, <1>5, <1>6, SweepStep

\* Before the visit of the threads only those outside are primed, with NULLs.
LEMMA NobodyPrimed ==
    ASSUME IInv, StartReinit, UNCHANGED threads, NULL \notin Free' \union Recyclable'
    PROVE  /\ Cursors' /\ Outside'
           /\ \A t \in Primed' : largeBlock'[t] = NULL
           /\ Registered' \ pending' = {} /\ pending' = Registered /\ phase' = "reinit"
<1>1. phase' = "reinit" /\ pending' = Registered /\ pc' = pc /\ block' = block
      /\ largeBlock' = largeBlock /\ Registered' = Registered
  BY DEF StartReinit, threads, Registered
<1>2. \A t \in Primed' : t \in Threads /\ block'[t] = NULL /\ largeBlock'[t] = NULL
  BY <1>1 DEF Primed, Registered, IInv, Outside
<1> QED
  BY <1>1, <1>2 DEF Cursors, Outside, IInv

LEMMA PromiseHolds ==
    ASSUME phase' = "reinit", Registered' \ pending' = {}, pending' = Registered,
           NEW c, c.free \in Nat, c.recycled \in Nat,
           promised' => CanInitCursors(c, Cardinality(Registered)),
           Len(freeQueue') = c.free, Len(recycledQueue') = c.recycled
    PROVE  PromiseKept'
<1>1. promised' => c.free >= Cardinality(Registered)
                   /\ c.free + c.recycled >= 2 * Cardinality(Registered)
  BY RegisteredFinite, CanInitCursorsMeans
<1> QED
  BY <1>1 DEF PromiseKept

LEMMA KeepSizeStep ==
    ASSUME IInv, KeepSize PROVE IInv'
<1>1. /\ phase = "sweep" /\ sweepAt = heapEnd /\ promised' = TRUE
      /\ CanInitCursors(counts, Cardinality(Registered))
      /\ StartReinit /\ UNCHANGED threads
      /\ UNCHANGED <<nextBlock, flags, counts, heapEnd, sweepAt, used>> /\ UNCHANGED pool
  BY DEF KeepSize, SweepDone, NeedsGrowth, SweptHeap, pool
<1>2. Free' = Free /\ Recyclable' = Recyclable /\ Lists' /\ NULL \notin Free \union Recyclable
  BY <1>1, BlocksFacts, EmptyIffNoBlock DEF pool, Free, Recyclable, IInv, Lists, Blocks
<1>3. /\ Cursors' /\ Outside' /\ phase' = "reinit"
      /\ \A t \in Primed' : largeBlock'[t] = NULL
      /\ Registered' \ pending' = {} /\ pending' = Registered
  BY <1>1, <1>2, NobodyPrimed
<1>4. TypeOK'
  <2>1. pending' \subseteq Threads
    BY <1>3 DEF Registered
  <2> QED
    BY <1>1, <1>3, <2>1 DEF IInv, TypeOK, pool, threads, Blocks, BlocksOrNull
<1>5. FlagsMatchLists'
  BY <1>1, <1>2, <1>3 DEF IInv, FlagsMatchLists, Free, Recyclable
<1>6. Extent'
  BY <1>1, <1>2 DEF IInv, Extent
<1>7. Swept'
  BY <1>3 DEF Swept
<1>8. PromiseKept'
  <2>1. /\ counts.free = Len(freeQueue) /\ counts.recycled = Len(recycledQueue)
        /\ counts.free \in Nat /\ counts.recycled \in Nat
        /\ freeQueue' = freeQueue /\ recycledQueue' = recycledQueue
    BY <1>1 DEF IInv, Swept, TypeOK, pool
  <2> QED
    BY <1>1, <1>3, <2>1, PromiseHolds
<1> QED
  BY <1>2, <1>3, <1>4, <1>5, <1>6, <1>7, <1>8 DEF IInv

LEMMA GrowStep ==
    ASSUME IInv, Grow PROVE IInv'
<1> DEFINE k == Increment
           f == heapEnd
           e == f + k - 1
           grown == [counts EXCEPT !.blocks = @ + k, !.free = @ + k]
<1>1. /\ phase = "sweep" /\ sweepAt = heapEnd /\ f + k <= MaxBlocks
      /\ heapEnd' = f + k /\ counts' = grown
      /\ free' = AddLast(free, f, e) /\ nextBlock' = LinksAddLast(free, nextBlock, f, e)
      /\ freeQueue' = freeQueue \o [i \in 1 .. k |-> f + i - 1]
      /\ promised' = CanInitCursors(grown, Cardinality(Registered))
      /\ StartReinit /\ UNCHANGED threads
      /\ UNCHANGED <<flags, sweepAt, used, recycled, recycledQueue>>
  BY DEF Grow, SweepDone, IsGrowingPossible, SweptHeap
<1>2. /\ f \in Nat /\ f >= 2 /\ f <= MaxBlocks /\ MaxBlocks \in Nat /\ k \in Nat \ {0}
      /\ f \in 2 .. MaxBlocks
  BY BlocksFacts, IncrementPositive DEF IInv, Extent
<1> HIDE DEF k, f
<1>3. /\ e \in Nat /\ e <= MaxBlocks - 1 /\ f .. e \subseteq f .. MaxBlocks - 1
      /\ f .. e \subseteq Blocks /\ e = f + k - 1 /\ f + k - 1 >= f
  BY <1>1, <1>2 DEF Blocks
<1>4. /\ Free \subseteq 0 .. f - 1 /\ Recyclable \subseteq 0 .. f - 1
      /\ Free \subseteq Blocks /\ Recyclable \subseteq Blocks
      /\ \A c \in f .. MaxBlocks - 1 : nextBlock[c] = 0 /\ flags[c] = "free" /\ c \notin used
      /\ Free \cap Recyclable = {}
      /\ IsList(Blocks, free, nextBlock, freeQueue)
      /\ IsList(Blocks, recycled, nextBlock, recycledQueue)
      /\ nextBlock \in [Blocks -> Blocks \union {LAST_BLOCK, 0}]
      /\ counts.blocks = f /\ Len(freeQueue) = counts.free /\ Len(recycledQueue) = counts.recycled
      /\ counts \in [blocks : Nat, free : Nat, recycled : Nat, memory : Nat]
  <2>1. /\ Free \union Recyclable \subseteq 0 .. f - 1
        /\ \A c \in f .. MaxBlocks - 1 : nextBlock[c] = 0 /\ flags[c] = "free" /\ c \notin used
        /\ counts.blocks = f
    BY DEF IInv, Extent, f
  <2>2. Free \subseteq Blocks /\ Recyclable \subseteq Blocks
    BY <1>2, <2>1 DEF Blocks
  <2>3. nextBlock \in [Blocks -> Blocks \union {LAST_BLOCK, 0}]
    BY BlocksFacts DEF IInv, TypeOK
  <2> QED
    BY <1>1, <2>1, <2>2, <2>3 DEF IInv, Lists, Swept, TypeOK
<1> HIDE DEF e
<1>5. /\ IsList(Blocks, free', nextBlock', freeQueue')
      /\ ToSet(freeQueue') = ToSet(freeQueue) \union f .. e
      /\ Len(freeQueue') = Len(freeQueue) + k
      /\ nextBlock' \in [Blocks -> Blocks \union {LAST_BLOCK, 0}]
      /\ \A c \in Blocks \ (ToSet(freeQueue) \union f .. e) : nextBlock'[c] = nextBlock[c]
  <2>1. Appendable(Blocks, free, nextBlock, freeQueue, f, k, e)
    <3>1. \A c \in f .. e : c \notin 0 .. f - 1
      BY <1>2, <1>3
    <3>2. f .. e \subseteq Blocks \ ToSet(freeQueue) /\ \A c \in f .. e : nextBlock[c] = 0
      BY <1>3, <1>4, <3>1 DEF Free
    <3>3. f # 0 /\ Blocks \in SUBSET Nat
      BY <1>2, BlocksFacts
    <3> QED
      BY <1>2, <1>3, <1>4, <3>2, <3>3 DEF Appendable
  <2>2. /\ freeQueue' = Appended(freeQueue, f, k)
        /\ nextBlock' = LinksAddLast(free, nextBlock, f, e) /\ free' = AddLast(free, f, e)
    BY <1>1 DEF Appended
  <2> QED
    BY <2>1, <2>2, AddedRange
<1>6. Free' = Free \union f .. e /\ Recyclable' = Recyclable
  BY <1>1, <1>5 DEF Free, Recyclable
<1>7. IsList(Blocks, recycled', nextBlock', recycledQueue')
  <2>1. \A c \in ToSet(recycledQueue) : c \in Blocks \ (ToSet(freeQueue) \union f .. e)
    <3>1. \A c \in f .. e : c \notin 0 .. f - 1
      BY <1>2, <1>3
    <3> QED
      BY <1>4, <3>1 DEF Free, Recyclable
  <2>2. \A c \in ToSet(recycledQueue) : nextBlock'[c] = nextBlock[c]
    BY <1>5, <2>1
  <2> QED
    BY <1>1, <1>4, <2>2, BlocksFacts, UntouchedList
<1>8. Lists'
  <2>1. Blocks' = Blocks
    BY DEF Blocks
  <2>2. \A c \in f .. e : c \notin 0 .. f - 1
    BY <1>2, <1>3
  <2> QED
    BY <1>4, <1>5, <1>6, <1>7, <2>1, <2>2 DEF Lists
<1>9. Free' \subseteq Blocks /\ NULL \notin Free' \union Recyclable'
  BY <1>3, <1>4, <1>6, BlocksFacts
<1>10. /\ Cursors' /\ Outside' /\ phase' = "reinit"
       /\ \A t \in Primed' : largeBlock'[t] = NULL
       /\ Registered' \ pending' = {} /\ pending' = Registered
  BY <1>1, <1>9, NobodyPrimed
<1>11. /\ counts' \in [blocks : Nat, free : Nat, recycled : Nat, memory : Nat]
       /\ counts'.blocks = f + k /\ counts'.free = counts.free + k
       /\ counts'.recycled = counts.recycled
  <2>1. counts' = [blocks |-> counts.blocks + k, free |-> counts.free + k,
                   recycled |-> counts.recycled, memory |-> counts.memory]
    BY <1>1, <1>4
  <2> QED
    BY <1>2, <1>4, <2>1
<1>12. TypeOK'
  <2>1. {free', recycled'} \subseteq [first : BlocksOrNull, last : BlocksOrNull]
        /\ freeQueue' \in Seq(Blocks) /\ recycledQueue' \in Seq(Blocks)
    BY <1>5, <1>7 DEF IsList, BlocksOrNull
  <2>2. nextBlock' \in [Blocks -> Blocks \union {LAST_BLOCK}]
    BY <1>5, BlocksFacts
  <2>3. heapEnd' \in 0 .. MaxBlocks
    BY <1>1, <1>2
  <2>4. pending' \subseteq Threads
    BY <1>10 DEF Registered
  <2>5. promised' \in BOOLEAN
    BY <1>1 DEF CanInitCursors
  <2> QED
    BY <1>1, <1>10, <1>11, <2>1, <2>2, <2>3, <2>4, <2>5
       DEF IInv, TypeOK, threads, Blocks, BlocksOrNull
<1>13. FlagsMatchLists'
  <2>1. \A c \in Free' : flags'[c] = "free" /\ c \notin used'
    BY <1>1, <1>3, <1>4, <1>6 DEF IInv, FlagsMatchLists, Free
  <2>2. \A c \in Recyclable' : flags'[c] = "recyclable"
    BY <1>1, <1>6 DEF IInv, FlagsMatchLists, Recyclable
  <2> QED
    BY <1>10, <2>1, <2>2 DEF FlagsMatchLists, Free, Recyclable
<1>14. Extent'
  <2>1. heapEnd' \in 2 .. MaxBlocks /\ counts'.blocks = heapEnd'
    BY <1>1, <1>2, <1>11
  <2>2. Free' \union Recyclable' \subseteq 0 .. heapEnd' - 1
    <3>1. 0 .. f - 1 \subseteq 0 .. (f + k) - 1 /\ f .. e \subseteq 0 .. (f + k) - 1
      BY <1>2, <1>3
    <3> QED
      BY <1>1, <1>4, <1>6, <3>1
  <2>3. ASSUME NEW c \in heapEnd' .. MaxBlocks - 1
        PROVE  nextBlock'[c] = 0 /\ flags'[c] = "free" /\ c \notin used'
    <3>1. c \in f .. MaxBlocks - 1 /\ c \notin f .. e /\ c \notin 0 .. f - 1 /\ c \in Blocks
      BY <1>1, <1>2, <1>3, <2>3 DEF Blocks
    <3>2. nextBlock'[c] = nextBlock[c]
      BY <1>4, <1>5, <3>1 DEF Free
    <3> QED
      BY <1>1, <1>4, <3>1, <3>2
  <2> QED
    BY <2>1, <2>2, <2>3 DEF Extent
<1>15. Swept'
  BY <1>10 DEF Swept
<1>16. PromiseKept'
  <2>1. /\ Len(freeQueue') = counts'.free /\ Len(recycledQueue') = counts'.recycled
        /\ counts'.free \in Nat /\ counts'.recycled \in Nat
        /\ promised' => CanInitCursors(counts', Cardinality(Registered))
    BY <1>1, <1>4, <1>5, <1>11
  <2> QED
    BY <1>10, <2>1, PromiseHolds
<1> QED
  BY <1>8, <1>10, <1>12, <1>13, <1>14, <1>15, <1>16 DEF IInv

\* What the visit of a thread takes: a block b for the normal cursor and c for
\* the overflow cursor, either of them NULL if the lists are too short.
LEMMA ReinitTakes ==
    ASSUME IInv, NEW t \in Threads, ReinitThread(t)
    PROVE  \E b \in Free \union Recyclable \union {NULL}, c \in Free \union {NULL} :
               /\ block' = [block EXCEPT ![t] = b] /\ largeBlock' = [largeBlock EXCEPT ![t] = c]
               /\ b = c => b = NULL
               /\ used' = used \union ({b, c} \ {NULL})
               /\ IsList(Blocks, free', nextBlock, freeQueue')
               /\ IsList(Blocks, recycled', nextBlock, recycledQueue')
               /\ Free' = Free \ {b, c} /\ Recyclable' = Recyclable \ {b}
               /\ \A n \in Nat : Len(freeQueue) >= n + 1
                                 /\ Len(freeQueue) + Len(recycledQueue) >= 2 * n + 2
                     => /\ b # NULL /\ c # NULL
                        /\ Len(freeQueue') >= n
                        /\ Len(freeQueue') + Len(recycledQueue') >= 2 * n
<1> DEFINE after == IF IsEmpty(recycled) /\ ~IsEmpty(free)
                    THEN WithoutFirst(free, nextBlock) ELSE free
           b == AnyBlock
           c == after.first
           F == Len(freeQueue)
           R == Len(recycledQueue)
<1>1. /\ block' = [block EXCEPT ![t] = b] /\ largeBlock' = [largeBlock EXCEPT ![t] = c]
      /\ free' = Rest(after, nextBlock) /\ recycled' = Rest(recycled, nextBlock)
      /\ used' = used \union ({b, c} \ {NULL})
      /\ recycledQueue' = RestOf(recycledQueue)
      /\ freeQueue' = SubSeq(freeQueue, IF recycledQueue = <<>> THEN 3 ELSE 2, F)
  BY DEF ReinitThread, Rest, RestOf
<1>2. /\ IsList(Blocks, free, nextBlock, freeQueue) /\ freeQueue \in Seq(Blocks)
      /\ IsList(Blocks, recycled, nextBlock, recycledQueue) /\ recycledQueue \in Seq(Blocks)
      /\ Blocks \in SUBSET Nat /\ NULL \notin Blocks /\ Free \cap Recyclable = {}
      /\ Free \subseteq Blocks /\ Recyclable \subseteq Blocks
  BY BlocksFacts, EmptyIffNoBlock DEF IInv, Lists, IsList, Free, Recyclable
<1>3. /\ IsList(Blocks, recycled', nextBlock, recycledQueue')
      /\ Recyclable' = Recyclable \ {recycled.first}
      /\ R \in Nat /\ Len(recycledQueue') = IF R = 0 THEN 0 ELSE R - 1
      /\ recycled.first \in Recyclable \union {NULL}
      /\ recycled.first = NULL <=> R = 0
  BY <1>1, <1>2, TakenFirst DEF Recyclable
<1>4. /\ IsList(Blocks, Rest(free, nextBlock), nextBlock, RestOf(freeQueue))
      /\ ToSet(RestOf(freeQueue)) = Free \ {free.first}
      /\ F \in Nat /\ Len(RestOf(freeQueue)) = IF F = 0 THEN 0 ELSE F - 1
      /\ free.first \in Free \union {NULL}
      /\ free.first = NULL <=> F = 0
  BY <1>2, TakenFirst DEF Free
<1>5. recycledQueue = <<>> <=> R = 0
  BY <1>2
<1>6. SubSeq(freeQueue, 2, F) = RestOf(freeQueue)
      /\ SubSeq(freeQueue, 3, F) = RestOf(RestOf(freeQueue))
  BY <1>2, Dropped
<1> SUFFICES
      /\ b \in Free \union Recyclable \union {NULL} /\ c \in Free \union {NULL}
      /\ b = c => b = NULL
      /\ IsList(Blocks, free', nextBlock, freeQueue')
      /\ Free' = Free \ {b, c} /\ Recyclable' = Recyclable \ {b}
      /\ \A n \in Nat : F >= n + 1 /\ F + R >= 2 * n + 2
            => /\ b # NULL /\ c # NULL
               /\ Len(freeQueue') >= n
               /\ Len(freeQueue') + Len(recycledQueue') >= 2 * n
  <2> HIDE DEF b, c
  <2> QED
    BY <1>1, <1>3
<1>7. CASE R = 0
  <2> DEFINE s == RestOf(freeQueue)
             l == Rest(free, nextBlock)
  <2>1. /\ b = free.first /\ after = l /\ recycled.first = NULL
        /\ free' = Rest(l, nextBlock) /\ freeQueue' = RestOf(s)
    BY <1>1, <1>3, <1>5, <1>6, <1>7 DEF AnyBlock, IsEmpty, Rest
  <2>2. IsList(Blocks, l, nextBlock, s) /\ ToSet(s) = Free \ {b}
        /\ Len(s) = IF F = 0 THEN 0 ELSE F - 1
    BY <1>4, <2>1
  <2> HIDE DEF s, l
  <2>3. /\ IsList(Blocks, free', nextBlock, freeQueue')
        /\ ToSet(freeQueue') = ToSet(s) \ {l.first}
        /\ Len(freeQueue') = IF Len(s) = 0 THEN 0 ELSE Len(s) - 1
        /\ l.first \in ToSet(s) \union {NULL}
        /\ l.first = NULL <=> Len(s) = 0
    BY <1>2, <2>1, <2>2, TakenFirst
  <2>4. c = l.first
    BY <2>1
  <2> HIDE DEF b, c
  <2>5. /\ b \in Free \union {NULL} /\ c \in Free \union {NULL} /\ (b = c => b = NULL)
        /\ Free' = Free \ {b, c}
    BY <1>2, <1>4, <2>1, <2>2, <2>3, <2>4 DEF Free
  <2>6. Recyclable' = Recyclable \ {b}
    BY <1>2, <1>3, <2>1, <2>5
  <2>7. ASSUME NEW n \in Nat, F >= n + 1, F + R >= 2 * n + 2
        PROVE  /\ b # NULL /\ c # NULL
               /\ Len(freeQueue') >= n
               /\ Len(freeQueue') + Len(recycledQueue') >= 2 * n
    <3> DEFINE g == Len(freeQueue')
               m == Len(s)
               h == Len(recycledQueue')
    <3>1. /\ F \in Nat /\ (b = NULL <=> F = 0) /\ (c = NULL <=> m = 0)
          /\ m = (IF F = 0 THEN 0 ELSE F - 1) /\ g = (IF m = 0 THEN 0 ELSE m - 1)
          /\ R = 0 /\ h = 0
      BY <1>3, <1>4, <1>7, <2>1, <2>2, <2>3, <2>4
    <3> HIDE DEF F, R, g, m, h
    <3>2. F # 0 /\ m # 0 /\ g \in Nat /\ g >= 2 * n
      BY <2>7, <3>1
    <3>3. g >= n /\ g + h >= 2 * n
      BY <3>1, <3>2
    <3> QED
      BY <3>1, <3>2, <3>3 DEF g, h
  <2> QED
    BY <2>3, <2>5, <2>6, <2>7
<1>8. CASE R # 0
  <2>1. /\ b = recycled.first /\ b # NULL /\ after = free /\ c = free.first
        /\ free' = Rest(free, nextBlock) /\ freeQueue' = RestOf(freeQueue)
    BY <1>1, <1>3, <1>5, <1>6, <1>8 DEF AnyBlock, IsEmpty
  <2> HIDE DEF b, c
  <2>2. /\ b \in Recyclable /\ c \in Free \union {NULL} /\ b # c
        /\ Free' = Free \ {b, c} /\ Recyclable' = Recyclable \ {b}
    BY <1>2, <1>3, <1>4, <2>1 DEF Free
  <2>3. \A n \in Nat : F >= n + 1 /\ F + R >= 2 * n + 2
            => /\ b # NULL /\ c # NULL
               /\ Len(freeQueue') >= n
               /\ Len(freeQueue') + Len(recycledQueue') >= 2 * n
    BY <1>3, <1>4, <1>8, <2>1
  <2> QED
    BY <1>4, <2>1, <2>2, <2>3
<1> QED
  BY <1>3, <1>7, <1>8

LEMMA ReinitThreadStep ==
    ASSUME IInv, NEW t \in Threads, ReinitThread(t) PROVE IInv'
<1>1. PICK b \in Free \union Recyclable \union {NULL}, c \in Free \union {NULL} :
          /\ block' = [block EXCEPT ![t] = b] /\ largeBlock' = [largeBlock EXCEPT ![t] = c]
          /\ b = c => b = NULL
          /\ used' = used \union ({b, c} \ {NULL})
          /\ IsList(Blocks, free', nextBlock, freeQueue')
          /\ IsList(Blocks, recycled', nextBlock, recycledQueue')
          /\ Free' = Free \ {b, c} /\ Recyclable' = Recyclable \ {b}
          /\ \A n \in Nat : Len(freeQueue) >= n + 1
                            /\ Len(freeQueue) + Len(recycledQueue) >= 2 * n + 2
                => /\ b # NULL /\ c # NULL
                   /\ Len(freeQueue') >= n
                   /\ Len(freeQueue') + Len(recycledQueue') >= 2 * n
  BY ReinitTakes
<1>2. /\ phase = "reinit" /\ phase' = "reinit" /\ t \in pending /\ pending' = pending \ {t}
      /\ UNCHANGED <<nextBlock, flags, counts, heapEnd, pc, sweepAt, promised>>
  BY DEF ReinitThread, heap
<1>3. /\ Free \subseteq Blocks /\ Recyclable \subseteq Blocks /\ NULL \notin Blocks
      /\ Free \cap Recyclable = {} /\ Blocks' = Blocks
      /\ Len(freeQueue) \in Nat /\ Len(recycledQueue) \in Nat
      /\ Len(freeQueue') \in Nat /\ Len(recycledQueue') \in Nat
  <2>1. Blocks \in SUBSET Nat /\ NULL \notin Blocks /\ Blocks' = Blocks
    BY BlocksFacts DEF Blocks
  <2>2. IsList(Blocks, free, nextBlock, freeQueue) /\ Free \cap Recyclable = {}
        /\ IsList(Blocks, recycled, nextBlock, recycledQueue)
    BY DEF IInv, Lists
  <2>3. Free \subseteq Blocks /\ Recyclable \subseteq Blocks
        /\ Len(freeQueue) \in Nat /\ Len(recycledQueue) \in Nat
    BY <2>1, <2>2, EmptyIffNoBlock DEF Free, Recyclable
  <2>4. Len(freeQueue') \in Nat /\ Len(recycledQueue') \in Nat
    BY <1>1, <2>1, EmptyIffNoBlock
  <2> QED
    BY <2>1, <2>2, <2>3, <2>4
<1>4. Lists'
  BY <1>1, <1>2, <1>3 DEF Lists
<1>5. TypeOK'
  <2>1. {free', recycled'} \subseteq [first : BlocksOrNull, last : BlocksOrNull]
        /\ freeQueue' \in Seq(Blocks) /\ recycledQueue' \in Seq(Blocks)
    BY <1>1 DEF IsList, BlocksOrNull
  <2>2. used' \subseteq Blocks /\ b \in BlocksOrNull /\ c \in BlocksOrNull
    BY <1>1, <1>3 DEF IInv, TypeOK, BlocksOrNull
  <2> QED
    BY <1>1, <1>2, <2>1, <2>2 DEF IInv, TypeOK, Blocks, BlocksOrNull
<1>6. /\ \A u \in Threads : block'[u] = IF u = t THEN b ELSE block[u]
      /\ \A u \in Threads : largeBlock'[u] = IF u = t THEN c ELSE largeBlock[u]
  BY <1>1 DEF IInv, TypeOK
<1>7. Primed' = Primed \union {t} /\ t \notin Primed /\ Primed \subseteq Threads
  BY <1>2 DEF Primed
<1>8. /\ \A u \in Primed : block[u] \notin Free \union Recyclable
      /\ \A u \in Primed : largeBlock[u] \notin Free \union Recyclable
      /\ \A u, v \in Primed : block[u] # NULL /\ block[u] = block[v] => u = v
      /\ \A u, v \in Primed : largeBlock[u] # NULL /\ largeBlock[u] = largeBlock[v] => u = v
      /\ \A u, v \in Primed : block[u] # NULL => block[u] # largeBlock[v]
  BY DEF IInv, Cursors
<1>9. Cursors'
  <2>1. \A u \in Primed' : block'[u] \notin Free' \union Recyclable'
    BY <1>1, <1>3, <1>6, <1>7, <1>8
  <2>2. \A u \in Primed' : largeBlock'[u] \notin Free' \union Recyclable'
    BY <1>1, <1>3, <1>6, <1>7, <1>8
  <2>3. \A u, v \in Primed' : block'[u] # NULL /\ block'[u] = block'[v] => u = v
    BY <1>1, <1>3, <1>6, <1>7, <1>8
  <2>4. \A u, v \in Primed' : largeBlock'[u] # NULL /\ largeBlock'[u] = largeBlock'[v] => u = v
    BY <1>1, <1>3, <1>6, <1>7, <1>8
  <2>5. \A u, v \in Primed' : block'[u] # NULL => block'[u] # largeBlock'[v]
    BY <1>1, <1>3, <1>6, <1>7, <1>8
  <2> QED
    BY <2>1, <2>2, <2>3, <2>4, <2>5 DEF Cursors
<1>10. FlagsMatchLists'
  <2>1. \A d \in Free : flags[d] = "free" /\ d \notin used
    BY DEF IInv, FlagsMatchLists, Free
  <2>2. \A d \in Free' : flags'[d] = "free" /\ d \notin used'
    BY <1>1, <1>2, <2>1
  <2>3. \A d \in Recyclable' : flags'[d] = "recyclable"
    BY <1>1, <1>2 DEF IInv, FlagsMatchLists, Recyclable
  <2>4. \A u \in Primed' : largeBlock'[u] # NULL => flags'[largeBlock'[u]] = "free"
    <3>1. \A u \in Primed : largeBlock[u] # NULL => flags[largeBlock[u]] = "free"
      BY DEF IInv, FlagsMatchLists
    <3> QED
      BY <1>1, <1>2, <1>6, <1>7, <2>1, <3>1
  <2> QED
    BY <2>2, <2>3, <2>4 DEF FlagsMatchLists, Free, Recyclable
<1>11. Extent'
  <2>1. Free \union Recyclable \subseteq 0 .. heapEnd - 1 /\ heapEnd \in 2 .. MaxBlocks
    BY DEF IInv, Extent
  <2>2. ASSUME NEW d \in heapEnd .. MaxBlocks - 1 PROVE d \notin used'
    <3>1. d \notin Free \union Recyclable /\ d \notin used /\ d # NULL
      BY <2>1 DEF IInv, Extent, NULL
    <3> QED
      BY <1>1, <3>1
  <2>3. Free' \union Recyclable' \subseteq 0 .. heapEnd - 1
    BY <1>1, <2>1
  <2> QED
    BY <1>2, <2>2, <2>3 DEF IInv, Extent
<1>12. Swept'
  BY <1>2 DEF Swept
<1>13. Outside'
  <2>1. t \in Registered
    BY <1>2 DEF IInv, Outside
  <2>2. \A u \in Threads : pc'[u] = "outside" => u # t
    BY <1>2, <2>1 DEF Registered
  <2>3. pending' \subseteq Registered'
    BY <1>2 DEF IInv, Outside, Registered
  <2> QED
    BY <1>2, <1>6, <2>2, <2>3 DEF IInv, Outside
<1>14. PromiseKept'
  <2> SUFFICES ASSUME promised
               PROVE  /\ \A u \in Registered' \ pending' : block'[u] # NULL /\ largeBlock'[u] # NULL
                      /\ Len(freeQueue') >= Cardinality(pending')
                      /\ Len(freeQueue') + Len(recycledQueue') >= 2 * Cardinality(pending')
    BY <1>2 DEF PromiseKept
  <2>1. /\ \A u \in Registered \ pending : block[u] # NULL /\ largeBlock[u] # NULL
        /\ Len(freeQueue) >= Cardinality(pending)
        /\ Len(freeQueue) + Len(recycledQueue) >= 2 * Cardinality(pending)
    BY <1>2 DEF IInv, PromiseKept
  <2>2. IsFiniteSet(pending)
    BY ThreadsAssumption, FS_Subset DEF IInv, TypeOK
  <2> DEFINE n == Cardinality(pending')
             m == Cardinality(pending)
  <2>3. n \in Nat /\ m = n + 1
    <3>1. m \in Nat /\ n = m - 1
      BY <1>2, <2>2, FS_RemoveElement, FS_CardinalityType
    <3>2. n \in Nat
      BY <1>2, <2>2, FS_RemoveElement, FS_CardinalityType
    <3> HIDE DEF n, m
    <3> QED
      BY <3>1, <3>2
  <2> HIDE DEF n, m
  <2>4. Len(freeQueue) >= n + 1 /\ Len(freeQueue) + Len(recycledQueue) >= 2 * n + 2
    BY <1>3, <2>1, <2>3 DEF m
  <2>5. /\ b # NULL /\ c # NULL /\ Len(freeQueue') >= n
        /\ Len(freeQueue') + Len(recycledQueue') >= 2 * n
    BY <1>1, <2>3, <2>4
  <2>6. \A u \in Registered' \ pending' : block'[u] # NULL /\ largeBlock'[u] # NULL
    <3>1. Registered' \ pending' \subseteq (Registered \ pending) \union {t}
          /\ Registered' \subseteq Threads
      BY <1>2 DEF Registered
    <3> QED
      BY <1>6, <2>1, <2>5, <3>1
  <2> QED
    BY <2>5, <2>6 DEF n
<1> QED
  BY <1>4, <1>5, <1>9, <1>10, <1>11, <1>12, <1>13, <1>14 DEF IInv

\* The two ends of a collection that only change the phase.
LEMMA PhaseStep ==
    ASSUME IInv, ExitOutOfMemory \/ EndRecycle PROVE IInv'
<1>1. /\ UNCHANGED <<heap, pool, threads, sweepAt, pending, used>>
      /\ \/ phase' = "exited" /\ promised' = promised
         \/ phase = "reinit" /\ pending = {} /\ phase' = "mutating" /\ promised' = FALSE
  BY DEF ExitOutOfMemory, EndRecycle
<1>2. TypeOK'
  BY <1>1 DEF IInv, TypeOK, heap, pool, threads, Blocks, BlocksOrNull
<1>3. Lists' /\ Extent'
  BY <1>1 DEF IInv, Lists, Extent, heap, pool, Free, Recyclable, Blocks
<1>4. Primed' \subseteq Primed
  BY <1>1 DEF Primed
<1>5. block' = block /\ largeBlock' = largeBlock /\ Free' = Free /\ Recyclable' = Recyclable
      /\ flags' = flags
  BY <1>1 DEF threads, pool, heap, Free, Recyclable
<1>6. Cursors'
  BY <1>4, <1>5 DEF IInv, Cursors
<1>7. FlagsMatchLists'
  <2>1. \A u \in Primed' : largeBlock'[u] # NULL => flags'[largeBlock'[u]] = "free"
    BY <1>4, <1>5 DEF IInv, FlagsMatchLists
  <2> QED
    BY <1>1, <1>5, <2>1 DEF IInv, FlagsMatchLists, pool
<1>8. Swept' /\ PromiseKept' /\ Outside'
  BY <1>1 DEF IInv, Swept, PromiseKept, Outside, threads
<1> QED
  BY <1>2, <1>3, <1>6, <1>7, <1>8 DEF IInv

-----------------------------------------------------------------------------
LEMMA InitStep ==
    ASSUME Init PROVE IInv
<1> DEFINE k == InitialBlocks
           e == k - 1
           zero == [b \in Blocks |-> 0]
<1>1. /\ Blocks \in SUBSET Nat /\ NULL \notin Blocks /\ 0 \in Blocks /\ e \in Blocks
      /\ k \in Nat \ {0} /\ k >= 2 /\ e \in Nat /\ MaxBlocks \in Nat /\ k <= MaxBlocks
      /\ 0 .. e \subseteq Blocks
  BY BlocksFacts DEF Blocks
<1>2. Appendable(Blocks, EmptyList, zero, <<>>, 0, k, e)
  <2>1. IsList(Blocks, EmptyList, zero, <<>>) /\ ToSet(<<>>) = {}
    BY EmptyIsList
  <2>2. zero \in [Blocks -> Blocks \union {LAST_BLOCK, 0}] /\ \A c \in 0 .. e : zero[c] = 0
    BY <1>1
  <2> QED
    BY <1>1, <2>1, <2>2 DEF Appendable
<1>3. /\ free = AddLast(EmptyList, 0, e)
      /\ nextBlock = LinksAddLast(EmptyList, zero, 0, e)
  BY <1>1 DEF Init, AddLast, LinksAddLast, EmptyList, IsEmpty
<1>4. freeQueue = Appended(<<>>, 0, k)
  <2>1. freeQueue = [i \in 1 .. k |-> i - 1]
    BY DEF Init
  <2>2. [i \in 1 .. k |-> 0 + i - 1] = [i \in 1 .. k |-> i - 1]
    OBVIOUS
  <2> DEFINE r == [i \in 1 .. k |-> i - 1]
  <2>3. r \in Seq(Nat)
    BY <1>1
  <2> HIDE DEF r
  <2>4. <<>> \o r = r
    BY <2>3
  <2> QED
    BY <2>1, <2>2, <2>4 DEF Appended, r
<1>5. /\ IsList(Blocks, free, nextBlock, freeQueue)
      /\ ToSet(freeQueue) = ToSet(<<>>) \union 0 .. e
      /\ nextBlock \in [Blocks -> Blocks \union {LAST_BLOCK, 0}]
  BY <1>2, <1>3, <1>4, AddedRange
<1>6. Free = 0 .. e /\ Recyclable = {} /\ IsList(Blocks, recycled, nextBlock, recycledQueue)
  BY <1>5, EmptyIsList DEF Free, Recyclable, Init
<1>7. Lists
  BY <1>5, <1>6 DEF Lists
<1>8. TypeOK
  <2>1. nextBlock \in [Blocks -> Blocks \union {LAST_BLOCK}]
    BY <1>1, <1>5
  <2>2. {free, recycled} \subseteq [first : BlocksOrNull, last : BlocksOrNull]
        /\ freeQueue \in Seq(Blocks) /\ recycledQueue \in Seq(Blocks)
    BY <1>5, <1>6 DEF IsList, BlocksOrNull
  <2>3. counts \in [blocks : Nat, free : Nat, recycled : Nat, memory : Nat]
        /\ heapEnd \in 0 .. MaxBlocks /\ sweepAt \in 0 .. MaxBlocks
    BY <1>1 DEF Init
  <2>4. /\ flags \in [Blocks -> {"free", "recyclable", "unavailable"}]
        /\ pc \in [Threads -> {"outside", "primeNormal", "primeOverflow", "running"}]
        /\ block \in [Threads -> BlocksOrNull] /\ largeBlock \in [Threads -> BlocksOrNull]
    BY DEF Init, BlocksOrNull
  <2>5. phase \in {"mutating", "sweep", "reinit", "exited", "crashed"}
        /\ pending \subseteq Threads /\ used \subseteq Blocks /\ promised \in BOOLEAN
    BY DEF Init
  <2> QED
    BY <2>1, <2>2, <2>3, <2>4, <2>5 DEF TypeOK
<1>9. \A t \in Threads : block[t] = NULL /\ largeBlock[t] = NULL
  BY DEF Init
<1>10. Primed \subseteq Threads
  BY DEF Primed, Init
<1>11. Cursors
  BY <1>1, <1>6, <1>9, <1>10 DEF Cursors
<1>12. FlagsMatchLists
  <2>1. \A c \in Free : flags[c] = "free" /\ c \notin used
    BY <1>1, <1>6 DEF Init
  <2> QED
    BY <1>6, <1>9, <1>10, <2>1 DEF FlagsMatchLists, Free, Recyclable
<1>13. Extent
  <2>1. heapEnd = k /\ counts.blocks = k
    BY DEF Init
  <2>2. ASSUME NEW c \in k .. MaxBlocks - 1
        PROVE  nextBlock[c] = 0 /\ flags[c] = "free" /\ c \notin used
    <3>1. c \in Blocks /\ c # k - 1
      BY <1>1 DEF Blocks
    <3> QED
      BY <3>1 DEF Init
  <2> QED
    BY <1>1, <1>6, <2>1, <2>2 DEF Extent
<1>14. Swept /\ Outside /\ PromiseKept
  BY <1>9 DEF Init, Swept, Outside, PromiseKept
<1> QED
  BY <1>7, <1>8, <1>11, <1>12, <1>13, <1>14 DEF IInv

LEMMA NextStep ==
    ASSUME IInv, [Next]_vars PROVE IInv'
<1>1. ASSUME NEW t \in Threads, Register(t) \/ Unregister(t) \/ OverflowThroughNull(t)
      PROVE  IInv'
  BY <1>1, MutatorStep
<1>2. ASSUME NEW t \in Threads, PrimeNormal(t) PROVE IInv'
  <2>1. /\ pc' \in [Threads -> {"outside", "primeNormal", "primeOverflow", "running"}]
        /\ pc'[t] # "outside" /\ \A u \in Threads \ {t} : pc'[u] = pc[u]
    BY <1>2 DEF PrimeNormal, IInv, TypeOK
  <2> QED
    BY <1>2, <2>1, NormalStep DEF PrimeNormal
<1>3. ASSUME NEW t \in Threads, PrimeOverflow(t) PROVE IInv'
  <2>1. /\ pc' \in [Threads -> {"outside", "primeNormal", "primeOverflow", "running"}]
        /\ pc'[t] # "outside" /\ \A u \in Threads \ {t} : pc'[u] = pc[u]
    BY <1>3 DEF PrimeOverflow, IInv, TypeOK
  <2> QED
    BY <1>3, <2>1, OverflowStep DEF PrimeOverflow
<1>4. ASSUME NEW t \in Threads, NextNormal(t) PROVE IInv'
  <2>1. /\ pc' \in [Threads -> {"outside", "primeNormal", "primeOverflow", "running"}]
        /\ pc'[t] # "outside" /\ \A u \in Threads \ {t} : pc'[u] = pc[u]
    BY <1>4 DEF NextNormal, IInv, TypeOK
  <2> QED
    BY <1>4, <2>1, NormalStep DEF NextNormal
<1>5. ASSUME NEW t \in Threads, NextOverflow(t) PROVE IInv'
  <2>1. /\ pc' \in [Threads -> {"outside", "primeNormal", "primeOverflow", "running"}]
        /\ pc'[t] # "outside" /\ \A u \in Threads \ {t} : pc'[u] = pc[u]
    BY <1>5 DEF NextOverflow, IInv, TypeOK
  <2> QED
    BY <1>5, <2>1, OverflowStep DEF NextOverflow
<1>6. ASSUME NEW t \in Threads, ReinitThread(t) PROVE IInv'
  BY <1>6, ReinitThreadStep
<1>7. CASE Recycle
  BY <1>7, BeginRecycleStep, SweepUnmarkedStep, SweepRecyclableStep, SweepUnavailableStep,
     KeepSizeStep, GrowStep, PhaseStep DEF Recycle
<1>8. CASE UNCHANGED vars
  <2>1. /\ UNCHANGED <<nextBlock, flags, counts, heapEnd, free, recycled, freeQueue, recycledQueue>>
        /\ UNCHANGED <<pc, block, largeBlock, phase, sweepAt, pending, used, promised>>
    BY <1>8 DEF vars, heap, pool, threads
  <2> QED
    BY <2>1 DEF IInv, TypeOK, Lists, Cursors, FlagsMatchLists, Extent, Swept, Outside,
                PromiseKept, Free, Recyclable, Primed, Registered, Blocks, BlocksOrNull
<1> QED
  BY <1>1, <1>2, <1>3, <1>4, <1>5, <1>6, <1>7, <1>8 DEF Next

\* Every reachable state of GlobalBlockAllocator satisfies the inductive invariant.
THEOREM Inductive == Spec => []IInv
<1>1. Init => IInv
  BY InitStep
<1>2. IInv /\ [Next]_vars => IInv'
  BY NextStep
<1> QED
  BY <1>1, <1>2, PTL DEF Spec

\* The pool, the cursors and the phases have their types: in particular no list
\* ever leads out of the heap.
THEOREM TypeCorrect == Spec => []TypeOK
<1>1. IInv => TypeOK
  BY DEF IInv
<1> QED
  BY <1>1, Inductive, PTL

\* The pointers and header links of both lists encode exactly the blocks queued.
THEOREM ListsCorrect == Spec => []ListsEncodeQueues
<1>1. IInv => ListsEncodeQueues
  BY DEF IInv, Lists, IsList, ListsEncodeQueues
<1> QED
  BY <1>1, Inductive, PTL

\* Queued and primed blocks have the flag their place requires.
THEOREM FlagsCorrect == Spec => []FlagsMatchLists
<1>1. IInv => FlagsMatchLists
  BY DEF IInv
<1> QED
  BY <1>1, Inductive, PTL

\* When growth is decided the counters are right and no block has been lost.
THEOREM SweepComplete == Spec => []SweepAccountsForAll
<1>1. IInv => SweepAccountsForAll
  BY DEF IInv, Extent, Swept, SweepAccountsForAll, SweepDone, Free, Recyclable
<1> QED
  BY <1>1, Inductive, PTL

\* If CanInitCursors held when the visit began, no thread is left without blocks.
THEOREM CanInitCursorsSuffices == Spec => []PromiseKept
<1>1. IInv => PromiseKept
  BY DEF IInv
<1> QED
  BY <1>1, Inductive, PTL

LEMMA AtMostOne ==
    ASSUME NEW S, \A x, y \in S : x = y PROVE Cardinality(S) <= 1
<1>1. CASE S = {}
  BY <1>1, FS_EmptySet
<1>2. CASE S # {}
  <2>1. PICK x \in S : TRUE
    BY <1>2
  <2>2. S = {x}
    BY <2>1
  <2> QED
    BY <2>2, FS_Singleton
<1> QED
  BY <1>1, <1>2

\* No block is in two places at once: no two cursors bump through the same block,
\* and no list offers a block a cursor is in or that the other list offers too.
THEOREM BlocksUnshared == Spec => []NoBlockShared
<1>1. IInv => NoBlockShared
  <2> SUFFICES ASSUME IInv, NEW b \in Blocks PROVE Cardinality(Owners(b)) <= 1
    BY DEF NoBlockShared
  <2> DEFINE A == {j \in DOMAIN freeQueue : freeQueue[j] = b}
             R == {j \in DOMAIN recycledQueue : recycledQueue[j] = b}
             N == {u \in Primed : block[u] = b}
             O == {u \in Primed : largeBlock[u] = b}
  <2>1. b # NULL
    BY BlocksFacts
  <2>2. /\ \A i, j \in A : i = j
        /\ \A i, j \in R : i = j
    BY DEF IInv, Lists, IsList, Distinct
  <2>3. /\ \A i \in A : b \in Free
        /\ \A i \in R : b \in Recyclable
    BY DEF Free, Recyclable, ToSet
  <2>4. /\ \A t, u \in N : t = u
        /\ \A t, u \in O : t = u
        /\ \A t \in N, u \in O : FALSE
        /\ \A t \in N \union O : b \notin Free \union Recyclable
    BY <2>1 DEF IInv, Cursors
  <2>5. \A i \in A, j \in R : FALSE
    BY <2>3 DEF IInv, Lists
  <2>6. \A i \in A \union R, t \in N \union O : FALSE
    BY <2>3, <2>4
  <2> HIDE DEF A, R, N, O
  <2>7. Owners(b) = {<<"free", i>> : i \in A} \union {<<"recycled", i>> : i \in R}
                    \union {<<"normal", t>> : t \in N} \union {<<"overflow", t>> : t \in O}
    BY DEF Owners, A, R, N, O
  <2>8. \A x, y \in Owners(b) : x = y
    BY <2>2, <2>4, <2>5, <2>6, <2>7
  <2> QED
    BY <2>8, AtMostOne
<1> QED
  BY <1>1, Inductive, PTL

=============================================================================
