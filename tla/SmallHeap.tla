----------------------------- MODULE SmallHeap -----------------------------
(* The inside of blocks: ThreadLocalAllocator.c, Block.c, Line.h, the walk  *)
(* of Object.c and the small-object path of Heap.c, seen from one mutator   *)
(* thread.  Memory is modelled word by word, since the code keeps three     *)
(* things in it that must not be taken for one another: object headers, the *)
(* data of objects, and the headers of holes.  Of the other threads the     *)
(* module keeps the blocks they take and the lines their objects cover: how *)
(* they share the lists is the subject of GlobalBlockAllocator.  Here the   *)
(* pool is two sets, of which the lowest block is taken: a sweep fills the  *)
(* lists in address order, and they are taken from the front.               *)
EXTENDS Integers, FiniteSets, FiniteSetsExt

CONSTANTS
    MaxThreads,     \* bound on the threads registered at a collection
    InitialBlocks,  \* blocks of the heap that Heap_Create maps
    NumBlocks,      \* blocks that fit below memoryLimit
    GROWTH_RATE,    \* percentage by which Heap_Recycle grows the heap
    LINE_COUNT,
    SLOTS_IN_LINE,
    WalkSlots,      \* slots of a line that the walk over its objects covers
    Sizes,          \* sizes of objects in words, with their headers
    MaxCollections, \* bound on the number of collections
    MaxSurvivors,   \* bound on the objects a collection leaves
    NULL

Blocks == 0 .. NumBlocks - 1
Lines == 0 .. LINE_COUNT - 1
BlockSlots == LINE_COUNT * SLOTS_IN_LINE
LAST_HOLE == -1
EMPTY == -1         \* of a line header: no object starts in the line

ASSUME SizesAssumption ==
    /\ MaxThreads \in Nat \ {0} /\ GROWTH_RATE \in 1 .. 100
    /\ InitialBlocks \in Nat \ {0, 1} /\ NumBlocks \in Nat /\ InitialBlocks <= NumBlocks
    /\ LINE_COUNT \in Nat \ {0} /\ SLOTS_IN_LINE \in Nat \ {0}
    /\ WalkSlots \in 1 .. SLOTS_IN_LINE
    /\ Sizes \subseteq 1 .. BlockSlots
    /\ MaxCollections \in Nat /\ MaxSurvivors \in Nat
    /\ NULL \notin Blocks \X (0 .. BlockSlots)

VARIABLES
    mem,            \* what each word of each block holds
    lineHeader,     \* per block and line, offset of the first object or EMPTY
    flags,          \* "free", "recyclable" or "unavailable"
    first,          \* per block, its first hole that is left
    objectMarks,    \* live objects whose header says marked, as <<block, word>>
    heapEnd,        \* blocks the heap has
    free, recycled, \* the pool
    taken,          \* blocks other threads have taken since the last sweep
    theirs,         \* lines that other threads' objects covered then
    cursor, limit,  \* the normal cursor: NULL or <<block, word>>
    largeCursor,    \* the overflow cursor: NULL, or its limit is the end of its block
    live,           \* the objects this thread has and the mutator can reach
    request,        \* size of the allocation under way, 0 for none
    retried,        \* that allocation has collected already
    collections,
    unprimed,       \* threads that the visit at the end of a collection has to prime
    pc,
    short,          \* history: the last visit began without blocks for all threads,
    passedOver,     \*   a marker passed a live object over for a mark it had before,
    overwritten     \*   memory of a live object was handed out

pool == <<heapEnd, free, recycled, taken>>
cursors == <<cursor, limit, largeCursor>>
store == <<mem, lineHeader, flags, first, objectMarks>>
population == <<live, theirs, passedOver, overwritten>>
visit == <<unprimed, short>>
control == <<request, retried, collections, pc>>
vars == <<store, pool, cursors, population, visit, control>>

S == INSTANCE ObjectStore WITH excused <- passedOver

-----------------------------------------------------------------------------
(* Words and lines.                                                          *)
Zero == <<"zero">>
Data == <<"data">>
Obj(size) == <<"object", size>>
Hole(next, size) == <<"hole", next, size>>

IsObj(w) == w[1] = "object"
IsHole(w) == w[1] = "hole"

LineOf(s) == s \div SLOTS_IN_LINE
LineStart(l) == l * SLOTS_IN_LINE

\* The objects a walk from word s meets before `end`; a word that reads as
\* size 0 ends it.  A word that is no header at all is reported as met.
WalkFrom(words, start, end) ==
    LET walk[s \in 0 .. BlockSlots] ==
            IF s >= end \/ words[s] = Zero THEN {}
            ELSE IF ~IsObj(words[s]) \/ s + words[s][2] > BlockSlots THEN {s}
            ELSE {s} \union walk[s + words[s][2]]
    IN walk[start]

\* The walk over the objects of a line.  It ends SLOTS_IN_LINE behind a line
\* address that is a void pointer (headers/BlockHeader.h), so after an eighth of
\* the line.
WalkLine(b, l) ==
    IF lineHeader[b][l] = EMPTY THEN {}
    ELSE WalkFrom(mem[b], LineStart(l) + lineHeader[b][l], LineStart(l) + WalkSlots)

-----------------------------------------------------------------------------
(* Bumping a cursor.                                                         *)

WriteNoTerminator(b, start, size, lim) ==   \* Variant: nothing zeroed behind.
    mem' = [mem EXCEPT ![b] = [s \in DOMAIN mem[b] |->
              IF s = start THEN Obj(size)
              ELSE IF s \in start + 1 .. start + size - 1 THEN Data
              ELSE mem[b][s]]]

\* The words of the new object: a header, and data of which the mutator does
\* what it likes.  The word behind is zeroed unless the limit is there.
Write(b, start, size, lim) ==
    mem' = [mem EXCEPT ![b] = [s \in DOMAIN mem[b] |->
              IF s = start THEN Obj(size)
              ELSE IF s \in start + 1 .. start + size - 1 THEN Data
              ELSE IF s = start + size /\ s < lim THEN Zero
              ELSE mem[b][s]]]

LineUpdateAlways(b, start) ==               \* Variant: the last object, not the first.
    lineHeader' = [lineHeader EXCEPT ![b][LineOf(start)] = start % SLOTS_IN_LINE]

LineUpdate(b, start) ==
    lineHeader' = [lineHeader EXCEPT ![b][LineOf(start)] =
                     IF @ = EMPTY THEN start % SLOTS_IN_LINE ELSE @]

\* Memory is handed out, headed as an object and returned to the mutator.
Bump(b, start, size, lim) ==
    /\ Write(b, start, size, lim)
    /\ LineUpdate(b, start)
    /\ LET new == [block |-> b, start |-> start, size |-> size] IN
          /\ live' = live \union {new}
          /\ overwritten' = (overwritten \/ S!Overlaps(new))
    /\ request' = 0 /\ retried' = FALSE
    /\ pc' = "idle"
    /\ UNCHANGED <<flags, first, objectMarks, pool, theirs, passedOver, visit, collections>>

\* cursor + size <= limit; NULL counts as address 0.
Fits(size) == limit # NULL /\ (cursor # NULL => cursor[2] + size <= limit[2])

\* A call from the mutator, or the same call again after the cursor moved on.
Called(size) == pc = "idle" \/ (pc = "alloc" /\ request = size)

Alloc(size) ==
    /\ Called(size)
    /\ Fits(size) /\ cursor # NULL
    /\ Bump(cursor[1], cursor[2], size, limit[2])
    /\ cursor' = <<cursor[1], cursor[2] + size>>
    /\ UNCHANGED <<limit, largeCursor>>

\* The cursor moved on, and the same call is made again.
Again(size) == request' = size /\ pc' = "alloc"

GiveUp(size) == request' = 0 /\ pc' = "idle"    \* Variant: the mutator gets NULL.

\* The allocation failed: collect and retry, or, the second time, Heap_Grow.
Fail(size) == request' = size /\ pc' = IF retried THEN "grow" ELSE "collect"

-----------------------------------------------------------------------------
(* The next hole, the next block.                                            *)

\* The header of the hole that begins in a line.  What is no such header reads
\* as a last hole without lines.
HoleIn(b, l) ==
    LET w == mem[b][LineStart(l)] IN IF IsHole(w) THEN w ELSE Hole(LAST_HOLE, 0)

TakeHole(b) ==
    LET l == first[b] hole == HoleIn(b, l) IN
    /\ cursor' = <<b, LineStart(l)>>
    /\ limit' = <<b, LineStart(l + hole[3])>>
    /\ first' = [first EXCEPT ![b] = hole[2]]

TakeFreeBlock(b) ==
    /\ cursor' = <<b, 0>>
    /\ limit' = <<b, BlockSlots>>
    /\ UNCHANGED first

\* Recycled blocks first.  An empty pool leaves the cursor as it is.
GetNextBlock ==
    \/ /\ recycled # {}
       /\ recycled' = recycled \ {Min(recycled)}
       /\ TakeHole(Min(recycled))
       /\ UNCHANGED free
    \/ /\ recycled = {} /\ free # {}
       /\ free' = free \ {Min(free)}
       /\ TakeFreeBlock(Min(free))
       /\ UNCHANGED recycled

NextLine(size) == Called(size) /\ ~Fits(size) /\ size <= SLOTS_IN_LINE

InFreeBlock == cursor # NULL /\ flags[cursor[1]] = "free"
BlockIsSpent == cursor # NULL /\ ~InFreeBlock => first[cursor[1]] = LAST_HOLE

NextLineRecycled(size) ==
    /\ NextLine(size) /\ ~BlockIsSpent
    /\ TakeHole(cursor[1])
    /\ Again(size)
    /\ UNCHANGED <<mem, lineHeader, flags, objectMarks, pool, largeCursor, population, visit,
                   retried, collections>>

NextBlock(size) ==
    /\ NextLine(size) /\ BlockIsSpent
    /\ GetNextBlock
    /\ Again(size)
    /\ UNCHANGED <<mem, lineHeader, flags, objectMarks, heapEnd, taken, largeCursor, population,
                   visit, retried, collections>>

\* Behind the last hole the cursor becomes NULL, and the limit stays.
NoBlock(size) ==
    /\ NextLine(size) /\ BlockIsSpent
    /\ free \union recycled = {}
    /\ cursor' = IF InFreeBlock THEN cursor ELSE NULL
    /\ Fail(size)
    /\ UNCHANGED <<store, pool, limit, largeCursor, population, visit, retried, collections>>

-----------------------------------------------------------------------------
(* Overflow allocation.                                                      *)
Overflow(size) == Called(size) /\ ~Fits(size) /\ size > SLOTS_IN_LINE
LargeFits(size) == largeCursor # NULL => largeCursor[2] + size <= BlockSlots

OverflowAlloc(size) ==
    /\ Overflow(size) /\ LargeFits(size) /\ largeCursor # NULL
    /\ Bump(largeCursor[1], largeCursor[2], size, BlockSlots)
    /\ largeCursor' = <<largeCursor[1], largeCursor[2] + size>>
    /\ UNCHANGED <<cursor, limit>>

\* An overflow cursor primed from NULL, as it is where the assertion in
\* InitCursors is compiled out, has a block's room at address 0.
OverflowThroughNull(size) ==
    /\ Overflow(size) /\ largeCursor = NULL
    /\ pc' = "crashed"
    /\ UNCHANGED <<store, pool, cursors, population, visit, request, retried, collections>>

OverflowBlock(size) ==
    /\ Overflow(size) /\ ~LargeFits(size)
    /\ free # {}
    /\ free' = free \ {Min(free)}
    /\ largeCursor' = <<Min(free), 0>>
    /\ Again(size)
    /\ UNCHANGED <<store, heapEnd, recycled, taken, cursor, limit, population, visit, retried,
                   collections>>

OverflowNoBlock(size) ==
    /\ Overflow(size) /\ ~LargeFits(size)
    /\ free = {}
    /\ Fail(size)
    /\ UNCHANGED <<store, pool, cursors, population, visit, retried, collections>>

-----------------------------------------------------------------------------
(* The other threads, while they run: GlobalBlockAllocator_GetBlock and      *)
(* GlobalBlockAllocator_GetFreeBlock from their allocators.                  *)

OthersTake ==
    /\ MaxThreads > 1 /\ pc \in {"idle", "alloc", "collect"}
    /\ \/ recycled # {} /\ recycled' = recycled \ {Min(recycled)} /\ UNCHANGED free
       \/ free # {} /\ free' = free \ {Min(free)} /\ UNCHANGED recycled
    /\ taken' = taken \union ((free \union recycled) \ (free' \union recycled'))
    /\ UNCHANGED <<store, heapEnd, cursors, population, visit, control>>

-----------------------------------------------------------------------------
(* Collection: Marker marks, Block_Recycle sweeps every block.               *)

Heads(objects) == {<<o.block, o.start>> : o \in objects}

FirstLineOf(b, objects) ==                  \* Variant: of each object its first line.
    {LineOf(o.start) : o \in {p \in objects : p.block = b}}

\* The lines of a block that objects cover.
LinesOf(b, objects) ==
    {LineOf(s) : s \in UNION {o.start .. o.start + o.size - 1 :
                              o \in {p \in objects : p.block = b}}}

\* The holes of a block are the maximal runs of its unmarked lines U.
Starts(U) == {l \in U : l - 1 \notin U}

RunSizeAndOne(U, l) == Min({k \in l .. LINE_COUNT : k \notin U}) - l + 1  \* Variant.

RunSize(U, l) == Min({k \in l .. LINE_COUNT : k \notin U}) - l
NextStart(U, l) ==
    LET later == {k \in Starts(U) : k > l} IN IF later = {} THEN LAST_HOLE ELSE Min(later)

\* What the sweep makes of the heap after `marked` were marked, and objects of
\* other threads that cover the lines `others`.  The mark of an object is cleared
\* if the walk of a marked line meets the object.  Behind heapEnd, where no sweep
\* comes, everything is as in a freed block already.
Sweep(marked, others) ==
    LET U == [b \in Blocks |-> {l \in Lines \ LinesOf(b, marked) : <<b, l>> \notin others}]
        Freed == {b \in Blocks : U[b] = Lines}
        Cleared == {x \in (Blocks \ Freed) \X (0 .. BlockSlots - 1) :
                      \E l \in Lines \ U[x[1]] : x[2] \in WalkLine(x[1], l)}
    IN
    /\ free' = {b \in Freed : b < heapEnd}
    /\ recycled' = {b \in Blocks \ Freed : U[b] # {}}
    /\ flags' = [b \in Blocks |-> IF b \in Freed THEN "free"
                                  ELSE IF U[b] # {} THEN "recyclable" ELSE "unavailable"]
    /\ lineHeader' = [b \in Blocks |-> [l \in Lines |->
                        IF l \in U[b] THEN EMPTY ELSE lineHeader[b][l]]]
    /\ first' = [b \in Blocks |-> IF b \in Freed THEN 0
                                  ELSE IF U[b] # {} THEN Min(U[b]) ELSE first[b]]
    /\ mem' = [b \in Blocks |-> [s \in DOMAIN mem[b] |->
                 LET l == LineOf(s) IN
                 IF b \notin Freed /\ l \in Starts(U[b]) /\ s = LineStart(l)
                   THEN Hole(NextStart(U[b], l), RunSize(U[b], l))
                   ELSE mem[b][s]]]
    /\ objectMarks' = ((objectMarks \union Heads(marked)) \ Cleared) \intersect Heads(live')

\* Lines that an object of another thread can be in: those it was in before the
\* last sweep, and the holes and blocks that other threads took since.
TheirLines == theirs \union
    {x \in taken \X Lines : x[2] \notin LinesOf(x[1], live)}

HasMark(o) == <<o.block, o.start>> \in objectMarks

\* The collection of a failed allocation, or, between calls, one that the thread
\* asks for or that another thread drives while this one is parked.
\* Any object may have become unreachable.  One whose header says marked before
\* the phase begins is passed over by the marker, with what only it leads to:
\* its lines, and those of whatever else is not found, stay unmarked.  A passed
\* object of another thread is not to be told from a dead one here, but it counts.
\* Of the others' objects in a block all are taken to live, or none.
Collect ==
    /\ pc \in {"idle", "collect"}
    /\ collections < MaxCollections
    /\ \E reached \in UNION {kSubset(n, live) : n \in 0 .. MaxSurvivors},
          busy \in SUBSET {x[1] : x \in TheirLines} :
          \E found \in SUBSET {o \in reached : ~HasMark(o)}, theyPass \in {FALSE, theirs # {}} :
             /\ found = reached \/ theyPass \/ \E o \in reached : HasMark(o)
             /\ live' = reached
             /\ theirs' = {x \in TheirLines : x[1] \in busy}
             /\ Sweep(found, theirs')
             /\ passedOver' = (passedOver \/ theyPass \/ found # reached)
    /\ taken' = {}
    /\ collections' = collections + 1
    /\ retried' = (request # 0)
    /\ pc' = "recycled"
    /\ UNCHANGED <<heapEnd, cursors, overwritten, visit, request>>

\* Variant: recycled blocks count as overflow blocks.
CanInitCursorsByTotal(f, r, n) == Cardinality(f \union r) >= 2 * n

CanInitCursors(f, r, n) ==
    \/ Cardinality(f) >= 2 * n
    \/ Cardinality(f) >= n /\ Cardinality(f \union r) >= 2 * n

\* Heap_Recycle behind the loop, for n registered threads.  Whether the ratios of
\* ShouldGrow ask for more is left open, and so is whether the large heap has
\* left anything of the memory limit.
StartVisit(n) ==
    /\ pc = "recycled"
    /\ unprimed' = n
    /\ pc' = "visit"
    /\ UNCHANGED <<store, recycled, taken, cursors, population, request, retried, collections>>

KeepSize(n) ==
    /\ StartVisit(n)
    /\ CanInitCursors(free, recycled, n)
    /\ short' = FALSE
    /\ UNCHANGED <<heapEnd, free>>

\* One step of growth; CanInitCursors is not asked again.
SLOTS_IN_BLOCK == 4096
Increment == ((heapEnd * SLOTS_IN_BLOCK * GROWTH_RATE) \div 100 - 1) \div SLOTS_IN_BLOCK + 1

Grow(n) ==
    /\ StartVisit(n)
    /\ heapEnd + Increment <= NumBlocks
    /\ heapEnd' = heapEnd + Increment
    /\ free' = free \union heapEnd .. heapEnd' - 1
    /\ short' = ~CanInitCursors(free', recycled, n)

OutOfMemory(n) ==
    /\ pc = "recycled" /\ ~CanInitCursors(free, recycled, n)
    /\ pc' = "exited"
    /\ UNCHANGED <<store, pool, cursors, population, visit, request, retried, collections>>

\* The free blocks that are left for the overflow cursor when the normal one has
\* its block, or has found none.
FreeBehind == IF recycled = {} /\ free # {} THEN free \ {Min(free)} ELSE free

\* A thread is primed: a block for its normal cursor, a free one for the other.
Prime ==
    /\ unprimed' = unprimed - 1
    /\ recycled' = IF recycled = {} THEN {} ELSE recycled \ {Min(recycled)}
    /\ free' = IF FreeBehind = {} THEN {} ELSE FreeBehind \ {Min(FreeBehind)}
    /\ UNCHANGED <<mem, lineHeader, flags, objectMarks, heapEnd, population, short, request,
                   retried, collections>>

\* The visit is in no order; this thread is primed at any place in it.
OtherInitCursors ==
    /\ \/ pc = "visit" /\ unprimed > 1
       \/ pc = "primed" /\ unprimed > 0
    /\ Prime
    /\ taken' = taken \union ((free \union recycled) \ (free' \union recycled'))
    /\ UNCHANGED <<first, cursors, pc>>

InitCursors ==
    /\ \/ recycled # {} /\ TakeHole(Min(recycled))
       \/ recycled = {} /\ free # {} /\ TakeFreeBlock(Min(free))
       \/ free \union recycled = {} /\ cursor' = NULL /\ limit' = NULL /\ UNCHANGED first
    /\ largeCursor' = IF FreeBehind = {} THEN NULL ELSE <<Min(FreeBehind), 0>>

ReinitCursors ==
    /\ pc = "visit"
    /\ Prime
    /\ InitCursors
    /\ pc' = "primed"
    /\ UNCHANGED taken

\* The world runs again.
EndCollection ==
    /\ pc = "primed" /\ unprimed = 0
    /\ pc' = IF request = 0 THEN "idle" ELSE "alloc"
    /\ UNCHANGED <<store, pool, cursors, population, visit, request, retried, collections>>

-----------------------------------------------------------------------------
Init ==
    /\ mem = [b \in Blocks |-> [s \in 0 .. BlockSlots - 1 |-> Zero]]
    /\ lineHeader = [b \in Blocks |-> [l \in Lines |-> EMPTY]]
    /\ flags = [b \in Blocks |-> "free"]
    /\ first = [b \in Blocks |-> 0]
    /\ objectMarks = {}
    /\ recycled = {}
    /\ cursor = <<0, 0>> /\ limit = <<0, BlockSlots>> /\ largeCursor = <<1, 0>>
    /\ heapEnd = InitialBlocks
    /\ free = 2 .. heapEnd - 1
    /\ taken = {} /\ theirs = {}
    /\ live = {}
    /\ request = 0
    /\ retried = FALSE
    /\ collections = 0
    /\ unprimed = 0
    /\ pc = "idle"
    /\ short = FALSE /\ passedOver = FALSE /\ overwritten = FALSE

Next ==
    \/ \E size \in Sizes :
          \/ Alloc(size)
          \/ NextLineRecycled(size) \/ NextBlock(size) \/ NoBlock(size)
          \/ OverflowAlloc(size) \/ OverflowBlock(size) \/ OverflowNoBlock(size)
          \/ OverflowThroughNull(size)
    \/ OthersTake
    \/ Collect
    \/ \E n \in 1 .. MaxThreads : KeepSize(n) \/ Grow(n) \/ OutOfMemory(n)
    \/ OtherInitCursors \/ ReinitCursors \/ EndCollection

Spec == Init /\ [][Next]_vars

-----------------------------------------------------------------------------
Words == {Zero, Data} \union {Obj(n) : n \in Sizes}
           \union {Hole(n, k) : n \in Lines \union {LAST_HOLE}, k \in 1 .. LINE_COUNT}
Positions == Blocks \X (0 .. BlockSlots)

TypeOK ==
    /\ mem \in [Blocks -> [0 .. BlockSlots - 1 -> Words]]
    /\ lineHeader \in [Blocks -> [Lines -> {EMPTY} \union 0 .. SLOTS_IN_LINE - 1]]
    /\ flags \in [Blocks -> {"free", "recyclable", "unavailable"}]
    /\ first \in [Blocks -> Lines \union {LAST_HOLE}]
    /\ objectMarks \subseteq Heads(live)
    /\ heapEnd \in InitialBlocks .. NumBlocks
    /\ free \subseteq 0 .. heapEnd - 1 /\ recycled \subseteq 0 .. heapEnd - 1
    /\ taken \subseteq 0 .. heapEnd - 1
    /\ theirs \subseteq (0 .. heapEnd - 1) \X Lines
    /\ {cursor, limit} \subseteq Positions \union {NULL}
    /\ largeCursor \in Positions \union {NULL}
    /\ live \subseteq S!Places
    /\ request \in Sizes \union {0}
    /\ retried \in BOOLEAN
    /\ collections \in 0 .. MaxCollections
    /\ unprimed \in 0 .. MaxThreads
    /\ pc \in {"idle", "alloc", "collect", "recycled", "visit", "primed", "grow", "exited",
               "crashed"}
    /\ {short, passedOver, overwritten} \subseteq BOOLEAN

LiveWords == UNION {S!WordsOf(o) : o \in live}

InReach(s) == s % SLOTS_IN_LINE < WalkSlots

\* The walk of a line meets every live object that starts in it as far as the
\* walk goes, and takes nothing but object headers for object headers, whatever
\* was in the line before.  (Line_Update, the zeroed word behind an object,
\* Object_NextObject.)
WalkMeetsLive ==
    passedOver \/ \A o \in live :
        /\ InReach(o.start) => o.start \in WalkLine(o.block, LineOf(o.start))
        /\ \A l \in LinesOf(o.block, {o}) : \A s \in WalkLine(o.block, l) :
              IsObj(mem[o.block][s]) /\ s + mem[o.block][s][2] <= BlockSlots

\* An object in reach of the walk of its line carries no mark into the next
\* marking phase: only one behind can be passed over there.
\* (Block_recycleMarkedLine.)
NoMarkInReach == passedOver \/ \A x \in objectMarks : ~InReach(x[2])

\* No object carries a mark into the next marking phase, which would pass it
\* and everything behind it over.
\* (documentation/headers/BlockHeader.md, Block_recycleMarkedLine.)
NoMarkSurvives == objectMarks = {}

\* The holes a block still offers, by the list that is written into the holes
\* themselves.
HolesLeft(b) ==
    LET from[l \in Lines \union {LAST_HOLE}] ==
            IF l = LAST_HOLE THEN {}
            ELSE {<<l, HoleIn(b, l)[3]>>} \union from[HoleIn(b, l)[2]]
    IN from[first[b]]

\* Between a sweep and the priming that follows the cursors mean nothing.
Primed == pc \notin {"recycled", "visit", "exited"}

Region(from, to) == {<<from[1], s>> : s \in from[2] .. to - 1}
CursorRegion == IF Primed /\ cursor # NULL THEN Region(cursor, limit[2]) ELSE {}
LargeRegion == IF Primed /\ largeCursor # NULL THEN Region(largeCursor, BlockSlots) ELSE {}
HoleRegion(b, h) == Region(<<b, LineStart(h[1])>>, LineStart(h[1] + h[2]))

\* Blocks whose list of holes will still be read.
Listed == recycled \union
    IF Primed /\ cursor # NULL /\ flags[cursor[1]] = "recyclable" THEN {cursor[1]} ELSE {}

\* What other threads have: the lines of their objects, and all of the blocks
\* they took but what this thread has there.
TheirWords ==
    {x \in Blocks \X (0 .. BlockSlots - 1) :
        <<x[1], LineOf(x[2])>> \in theirs \/ (x[1] \in taken /\ x \notin LiveWords)}

\* Whatever memory can still be handed out to this thread holds no live object,
\* of this thread or of another: what is left under either cursor, the holes
\* still listed and the free blocks.  Nor is any of it to be handed out twice.
\* (Block_Recycle, nextLineRecycled, the two cursors of the allocator.)
OfferedIsDead ==
    passedOver \/
        LET holes == UNION {{<<b, h>> : h \in HolesLeft(b)} : b \in Listed}
            regions == {CursorRegion, LargeRegion}
                         \union {HoleRegion(x[1], x[2]) : x \in holes}
                         \union {Region(<<b, 0>>, BlockSlots) : b \in free}
        IN /\ \A x \in holes : x[2][2] > 0
           /\ \A r \in regions : r \intersect (LiveWords \union TheirWords) = {}
           /\ \A r, q \in regions : r # q => r \intersect q = {}

\* The allocation that is retried after a collection finds room, and no thread
\* bumps a cursor primed from NULL, unless one step of growth was too little
\* for all the threads of that collection.
\* (Heap_allocSmallSlow, Heap_Recycle, ThreadLocalAllocator_InitCursors.)
FailsOnlyWhenShort == pc \in {"grow", "crashed"} => short

\* The retry finds room, so that Heap_Grow is never asked for a number of words
\* that is no multiple of a block's. This is not so when growth was short and other
\* threads were primed before. (Heap_allocSmallSlow, Heap_Grow.)
RetrySucceeds == pc # "grow"

\* A NULL cursor is never bumped: no call finds it with an old limit, which it
\* would fit below.
\* (nextLineRecycled, Alloc.)
NoNullBump == \A size \in Sizes : Called(size) /\ Fits(size) => cursor # NULL

\* The small heap implements the object store.
ImplementsObjectStore == S!Spec

\* The collections up to the first that passes a live object over.
NonePassedOver == ~passedOver
=============================================================================
