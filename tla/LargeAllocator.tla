-------------------------- MODULE LargeAllocator --------------------------
(* The large heap: LargeAllocator.c under the mutex of GlobalLargeAllocator, *)
(* its Bitmap, and the ladder of Heap_AllocLarge with Heap_GrowLarge, which  *)
(* is under no lock.  Sizes and addresses are counted in words of OBJ_ALIGN  *)
(* bytes.  A collection stops the world and is one step; it finds threads    *)
(* where MutatorSync lets it find them, before an allocation or waiting.     *)
EXTENDS MathUtils, Functions

CONSTANTS
    Threads,
    Sizes,                  \* of the objects asked for, with their headers
    InitialSize,            \* of the large heap
    MemoryLimit,            \* less what the small heap takes of it
    BITS_PER_BITMAP_WORD,
    MaxCollections,         \* bound on the number of collections
    NULL

OBJ_ALIGN_BITS == 3
LARGE_OBJECT_MIN_SIZE_BITS == 13
MIN_BLOCK_SIZE == 1024      \* words
Classes == 0 .. 21          \* FREE_LIST_COUNT lists
INFO == -1                  \* a type pointer, no address in the heap

Units == 0 .. (MemoryLimit \div MIN_BLOCK_SIZE) - 1
Multiples == {MIN_BLOCK_SIZE * n : n \in 0 .. 2 * Cardinality(Units)}

\* Below 2 GB the 32 bits of log2_floor and of a chunk's size are enough.
ASSUME LargeAssumption ==
    /\ MemoryLimit \in Nat /\ Sizes \subseteq MIN_BLOCK_SIZE .. MemoryLimit
    /\ {InitialSize, MemoryLimit} \subseteq Multiples \ {0}
    /\ InitialSize <= MemoryLimit /\ MemoryLimit < 2^28
    /\ BITS_PER_BITMAP_WORD \in Nat \ {0} /\ MaxCollections \in Nat
    /\ NULL \notin Nat \union {INFO} \union [end : Nat, size : Nat]

VARIABLES
    header,         \* what is not zero: address -> [size, flag, word], where word
                    \*   is a chunk's next or the first word of an object
    bits,           \* addresses whose bit is set
    freeLists,      \* class -> [first, last]
    size,           \* of the allocator, which is that of the bitmap
    largeHeapEnd, largeHeapSize,
    live,           \* reachable objects, in units of MIN_BLOCK_SIZE
    request,        \* thread -> size asked for
    object,         \* thread -> chunk it got
    seen,           \* thread -> largeHeapEnd and largeHeapSize it read
    collections,
    pc,
    \* History, which no step reads:
    overlapped,     \* a growth began while another was under way
    robbed,         \* threads that another took a chunk before the last try of
    overwritten     \* memory of a live object was handed out

heap == <<header, bits, freeLists, size>>
bounds == <<largeHeapEnd, largeHeapSize>>
history == <<overlapped, robbed, overwritten>>
vars == <<heap, bounds, live, request, object, seen, collections, pc, history>>

S == INSTANCE ObjectStore WITH
        excused <- overlapped, Blocks <- {"large"}, BlockSlots <- Cardinality(Units),
        Sizes <- {DivAndRoundUp(n, MIN_BLOCK_SIZE) : n \in Sizes}

-----------------------------------------------------------------------------
(* Sizes and classes.  The logarithms are of bytes.                          *)
Bytes(n) == {b + OBJ_ALIGN_BITS : b \in Bits(n)}
FloorOf == [n \in Multiples \ {0} |-> log2_floor(Bytes(n))]
CeilOf == [n \in (Sizes \union Multiples) \ {0} |-> Log2Ceil(Bytes(n))]
PowerOfTwo(bytesLog) == 2^(bytesLog - OBJ_ALIGN_BITS)

sizeToLinkedListIndex(n) == FloorOf[n] - LARGE_OBJECT_MIN_SIZE_BITS
Actual(n) == RoundToNextMultiple(n, MIN_BLOCK_SIZE)
ChunkSize(a) == Actual(header[a].size)

\* Chunks from an address to the end of the heap.
Chain ==
    LET from[a \in Multiples] ==
            IF a >= size \/ a \notin DOMAIN header \/ ChunkSize(a) = 0 THEN {}
            ELSE {a} \union from[a + ChunkSize(a)]
    IN from[0]

-----------------------------------------------------------------------------
(* Chunks and lists.                                                         *)

\* AddChunk cuts a range into powers of two, the largest first.
Pieces(chunk, total) ==
    LET cut[n \in Multiples] ==
            IF n = 0 THEN {}
            ELSE {[at |-> chunk + total - n, size |-> PowerOfTwo(FloorOf[n])]}
                   \union cut[n - PowerOfTwo(FloorOf[n])]
    IN cut[total]

At(pieces) == {p.at : p \in pieces}
Stamped(pieces, h) ==
    [a \in At(pieces) \union DOMAIN h |->
        IF a \notin At(pieces) THEN h[a]
        ELSE [size |-> (CHOOSE p \in pieces : p.at = a).size, flag |-> "free", word |-> NULL]]

\* freeListAddBlockLast of every piece, in address order.  No piece is linked
\* behind another.
AddedLast(lists, pieces) ==
    [k \in Classes |->
        LET of == At({p \in pieces : sizeToLinkedListIndex(p.size) = k}) IN
        IF of = {} THEN lists[k]
        ELSE [first |-> IF lists[k].first = NULL THEN Min(of) ELSE lists[k].first,
              last |-> Max(of)]]

RemovedFirst(lists, k) ==
    [lists EXCEPT ![k] = [first |-> header[@.first].word,
                          last |-> IF @.first = @.last THEN NULL ELSE @.last]]

RequiredFloor(n) == FloorOf[Actual(n)]          \* Variant: rounded down.

Required(n) == CeilOf[Actual(n)]

\* The non-empty lists that GetBlock searches; it takes from the first.
Fitting(n) ==
    {k \in Classes : k >= Required(n) - LARGE_OBJECT_MIN_SIZE_BITS
                       /\ freeLists[k].first # NULL}

SplitOffUnlisted(lists, k, pieces) == AddedLast(lists, pieces)   \* Variant: not removed.

SplitOff(lists, k, pieces) == AddedLast(RemovedFirst(lists, k), pieces)

LiveUnits == UNION {o.start .. o.start + o.size - 1 : o \in live}
UnitsOf(a, n) == a \div MIN_BLOCK_SIZE .. (a + n) \div MIN_BLOCK_SIZE - 1

GetBlock(t) ==
    \E k \in {Min(Fitting(request'[t]))}, actual \in {Actual(request'[t])} :
    LET chunk == freeLists[k].first
        rest == header[chunk].size - actual
        pieces == IF rest >= MIN_BLOCK_SIZE THEN Pieces(chunk + actual, rest) ELSE {}
        inside == {a \in DOMAIN header : chunk < a /\ a < chunk + actual}
    IN
    /\ freeLists' = SplitOff(freeLists, k, pieces)
    /\ header' = Stamped(pieces, [Restrict(header, DOMAIN header \ inside)
                    EXCEPT ![chunk].flag = "allocated", ![chunk].word = NULL])
    /\ bits' = bits \union {chunk} \union At(pieces)
    /\ object' = [object EXCEPT ![t] = chunk]
    /\ live' = live \union {[block |-> "large", start |-> chunk \div MIN_BLOCK_SIZE,
                             size |-> actual \div MIN_BLOCK_SIZE]}
    /\ overwritten' = (overwritten \/ UnitsOf(chunk, actual) \intersect LiveUnits # {})
    /\ robbed' = robbed \union {u \in Threads \ {t} : pc[u] = "last"}

\* Where a try to get a block leads, with and without one.
Try(t, failed) ==
    /\ IF Fitting(request'[t]) # {}
         THEN GetBlock(t) /\ pc' = [pc EXCEPT ![t] = "got"]
         ELSE /\ pc' = failed
              /\ UNCHANGED <<header, bits, freeLists, object, live, robbed, overwritten>>
    /\ UNCHANGED <<size, bounds, seen, collections, overlapped>>

-----------------------------------------------------------------------------
(* Heap_AllocLarge: try, collect, try, grow, try.                            *)

FirstTry(t) ==
    /\ pc[t] = "idle"
    /\ \E n \in Sizes : request' = [request EXCEPT ![t] = n]
    /\ Try(t, [pc EXCEPT ![t] = "collect"])

Retry(t) ==
    /\ pc[t] = "retry"
    /\ UNCHANGED request
    /\ Try(t, [pc EXCEPT ![t] = "grow"])

\* Without a block the next line writes through NULL, which ends the process.
LastTry(t) ==
    /\ pc[t] = "last"
    /\ UNCHANGED request
    /\ Try(t, [u \in Threads |-> IF u = t THEN "crashed" ELSE "exited"])

\* The header is stamped and the type pointer stored, without the lock.
Stamp(t) ==
    /\ pc[t] = "got"
    /\ header' = [header EXCEPT ![object[t]].size = request[t], ![object[t]].word = INFO]
    /\ request' = [request EXCEPT ![t] = 0]
    /\ object' = [object EXCEPT ![t] = NULL]
    /\ pc' = [pc EXCEPT ![t] = "idle"]
    /\ UNCHANGED <<bits, freeLists, size, bounds, live, seen, collections, history>>

IncrementOfSize(n) == Actual(n)                 \* Variant: no power of two.

\* A number of bytes, taken for a number of words.
Increment(n) == 2^CeilOf[n]

MayGrowAlways(n) == TRUE                        \* Variant: no limit.

MayGrow(n) == largeHeapSize + Increment(n) <= MemoryLimit

GrowLarge(t) ==
    /\ pc[t] = "grow"
    /\ IF MayGrow(request[t])
         THEN /\ seen' = [seen EXCEPT ![t] = [end |-> largeHeapEnd, size |-> largeHeapSize]]
              /\ pc' = [pc EXCEPT ![t] = "end"]
         ELSE pc' = [u \in Threads |-> "exited"] /\ UNCHANGED seen
    /\ overlapped' = (overlapped \/ \E u \in Threads : pc[u] \in {"end", "register"})
    /\ UNCHANGED <<heap, bounds, live, request, object, collections, robbed, overwritten>>

\* Plain += on shared variables: from the value read before or read again.
MoveEnd(t) ==
    /\ pc[t] = "end"
    /\ \E e \in {seen[t].end, largeHeapEnd}, s \in {seen[t].size, largeHeapSize} :
          /\ largeHeapEnd' = e + Increment(request[t])
          /\ largeHeapSize' = s + Increment(request[t])
    /\ pc' = [pc EXCEPT ![t] = "register"]
    /\ UNCHANGED <<heap, live, request, object, seen, collections, history>>

BitsKeptDown(old) ==                            \* Variant: the last word is lost.
    {a \in bits : a \div MIN_BLOCK_SIZE
                    < (old \div BITS_PER_BITMAP_WORD) * BITS_PER_BITMAP_WORD}

\* Bitmap_Grow zeroes the words behind those it had.
BitsKept(old) ==
    {a \in bits : a \div MIN_BLOCK_SIZE < RoundToNextMultiple(old, BITS_PER_BITMAP_WORD)}

Grow(t) ==
    LET inc == Increment(request[t]) pieces == Pieces(seen[t].end, inc) IN
    /\ pc[t] = "register"
    /\ size' = size + inc
    /\ freeLists' = AddedLast(freeLists, pieces)
    /\ header' = Stamped(pieces, header)
    /\ bits' = BitsKept(size \div MIN_BLOCK_SIZE) \union At(pieces)
    /\ seen' = [seen EXCEPT ![t] = NULL]
    /\ pc' = [pc EXCEPT ![t] = "last"]
    /\ robbed' = robbed \ {t}
    /\ UNCHANGED <<bounds, live, request, object, collections, overlapped, overwritten>>

-----------------------------------------------------------------------------
(* Collection.                                                               *)

RunEndNext(dead, a) == a + ChunkSize(a)         \* Variant: no coalescing.

\* Where the run of dead chunks ends that begins with one.
RunEnd(dead, a) == Min({b \in Chain \union {size} : b > a /\ b \notin dead})

\* The dead chunks behind which a run begins.
Heads(dead) == {a \in dead : \A b \in dead : RunEnd(dead, b) # RunEnd(dead, a) \/ a <= b}

BitsSweptNone(dead) == bits                     \* Variant: no bit is cleared.

BitsSwept(dead) == bits \ (dead \ Heads(dead))

Sweep(marked) ==
    LET dead == Chain \ marked
        pieces == UNION {Pieces(a, RunEnd(dead, a) - a) : a \in Heads(dead)}
    IN
    /\ freeLists' = AddedLast([k \in Classes |-> [first |-> NULL, last |-> NULL]], pieces)
    /\ header' = Stamped(pieces, header)
    /\ bits' = BitsSwept(dead) \union At(pieces)
    /\ UNCHANGED size

\* Any object may have become unreachable.  Threads that wait for a collection
\* return from it to their second try, whoever drove it.
Collect ==
    /\ \A t \in Threads : pc[t] \in {"idle", "collect"}
    /\ collections < MaxCollections
    /\ live' \in SUBSET live
    /\ Sweep({o.start * MIN_BLOCK_SIZE : o \in live'})
    /\ collections' = collections + 1
    /\ pc' = [t \in Threads |-> IF pc[t] = "collect" THEN "retry" ELSE pc[t]]
    /\ UNCHANGED <<bounds, request, object, seen, history>>

-----------------------------------------------------------------------------
(* Object_GetLargeObject: the object in which an address lies.               *)
GetLargeObject(a) ==
    LET start == Max({b \in bits : b <= a}) IN
    IF a < start + ChunkSize(start) /\
         ((a = start /\ header[a].flag = "allocated") \/ header[start].word # NULL)
      THEN start
      ELSE NULL

Init ==
    LET pieces == Pieces(0, InitialSize) IN
    /\ header = Stamped(pieces, <<>>)
    /\ bits = At(pieces)
    /\ freeLists = AddedLast([k \in Classes |-> [first |-> NULL, last |-> NULL]], pieces)
    /\ size = InitialSize
    /\ largeHeapEnd = InitialSize /\ largeHeapSize = InitialSize
    /\ live = {}
    /\ request = [t \in Threads |-> 0]
    /\ object = [t \in Threads |-> NULL]
    /\ seen = [t \in Threads |-> NULL]
    /\ collections = 0
    /\ pc = [t \in Threads |-> "idle"]
    /\ overlapped = FALSE /\ robbed = {} /\ overwritten = FALSE

Next ==
    \/ \E t \in Threads :
          \/ FirstTry(t) \/ Retry(t) \/ LastTry(t) \/ Stamp(t)
          \/ GrowLarge(t) \/ MoveEnd(t) \/ Grow(t)
    \/ Collect

Spec == Init /\ [][Next]_vars

-----------------------------------------------------------------------------
Addresses == {MIN_BLOCK_SIZE * u : u \in Units}
Chunks == [size : 1 .. MemoryLimit, flag : {"free", "allocated"},
           word : {NULL, INFO} \union Addresses]

HeapTyped ==
    /\ DOMAIN header \subseteq Addresses
    /\ \A a \in DOMAIN header : header[a] \in Chunks
    /\ bits \subseteq Addresses
    /\ freeLists \in [Classes -> [first : Addresses \union {NULL},
                                  last : Addresses \union {NULL}]]
    /\ {size, largeHeapEnd, largeHeapSize} \subseteq Multiples
    /\ Max({size, largeHeapEnd, largeHeapSize}) <= MemoryLimit
    /\ live \subseteq S!Places
    /\ request \in [Threads -> Sizes \union {0}]
    /\ object \in [Threads -> Addresses \union {NULL}]
    /\ seen \in [Threads -> {NULL} \union [end : Multiples, size : Multiples]]
    /\ collections \in 0 .. MaxCollections
    /\ pc \in [Threads -> {"idle", "collect", "retry", "grow", "end", "register", "last",
                           "got", "crashed", "exited"}]
    /\ robbed \subseteq Threads /\ overwritten \in BOOLEAN

\* The types, and the heap's limit.  Like what follows they are void once two
\* growths overlapped: from then on the heap may be anything.
TypeOK == overlapped \/ HeapTyped

\* No thread is between getting its block and stamping it, or growing the heap.
Settled == \A t \in Threads : object[t] = NULL /\ seen[t] = NULL

\* What a collection walks: chunk follows chunk from the start of the heap to
\* its end, on which allocator, Heap and marker agree; the bits are those of
\* chunks; live objects are chunks of their own.
\* (AddChunk, GetBlock's split, Sweep's coalescing, Heap_GrowLarge, Bitmap_Grow.)
ChunksTile ==
    ~overlapped /\ Settled =>
        /\ size = largeHeapEnd /\ size = largeHeapSize
        /\ Max({a + ChunkSize(a) : a \in Chain}) = size
        /\ bits = Chain
        /\ \A o \in live : LET a == o.start * MIN_BLOCK_SIZE IN
              a \in Chain /\ header[a].flag = "allocated"
                /\ ChunkSize(a) = o.size * MIN_BLOCK_SIZE

\* What the lists offer is free memory of the list's size, whatever was split,
\* swept or added since: a chunk on offer overlaps no live object and no other
\* chunk on offer.
\* (freeListAddBlockLast, freeListRemoveFirstBlock.)
ListsOfferFree ==
    LET offered == {k \in Classes : freeLists[k].first # NULL}
        units(k) == UnitsOf(freeLists[k].first, header[freeLists[k].first].size)
    IN overlapped \/ \A k \in offered :
          /\ header[freeLists[k].first].flag = "free"
          /\ header[freeLists[k].first].size
                = PowerOfTwo(k + LARGE_OBJECT_MIN_SIZE_BITS)
          /\ units(k) \intersect LiveUnits = {}
          /\ \A j \in offered \ {k} : units(j) \intersect units(k) = {}

\* After a sweep every power of two that fits between live objects can be had,
\* though the lists keep one chunk per class: dead neighbours are merged and
\* chunks the lists had lost are found again. (LargeAllocator_Sweep.)
Offers(n) == \E k \in Classes : k >= sizeToLinkedListIndex(n) /\ freeLists[k].first # NULL
SweepOffers ==
    [][~overlapped /\ collections' # collections =>
        \A a, b \in Units : a <= b /\ b * MIN_BLOCK_SIZE < size
              /\ (a .. b) \intersect LiveUnits' = {}
            => Offers((b - a + 1) * MIN_BLOCK_SIZE)']_vars

\* An address in a live object leads to that object and one in free memory to
\* none, by the bitmap and the stale words below it. (Object_GetLargeObject.)
InnerPointersResolve ==
    ~overlapped /\ Settled =>
        /\ \A o \in live : \A u \in o.start .. o.start + o.size - 1 :
              GetLargeObject(u * MIN_BLOCK_SIZE) = o.start * MIN_BLOCK_SIZE
        /\ \A a \in Chain : header[a].flag = "free" =>
              \A u \in UnitsOf(a, ChunkSize(a)) : GetLargeObject(u * MIN_BLOCK_SIZE) = NULL

\* Without an overlapping growth only one thing makes the last try fail: another
\* thread took a chunk in between. The heap that was grown for an object has room
\* for it, whatever is allocated while it grows.
\* (Heap_AllocLarge, Heap_GrowLarge, Log2Ceil against the class searched.)
OnlyRobbedFail == \A t \in Threads : pc[t] = "crashed" => t \in robbed \/ overlapped

\* The heap that was grown for an object has room for it, so no object is made
\* at NULL. This is not so when another thread takes the new chunks.
\* (The assertion behind Heap_GrowLarge in Heap_AllocLarge.)
GrowthSuffices == \A t \in Threads : pc[t] # "crashed"

\* Memory handed out is in no live object, though growing is under no lock.
\* (GlobalLargeAllocator_GetBlock, Heap_GrowLarge.)
FreshMemory ==
    [][\A t \in Threads : object[t] = NULL /\ object'[t] # NULL =>
          UnitsOf(object'[t], Actual(request'[t])) \intersect LiveUnits = {}]_vars

\* The large heap implements the object store, until two growths overlap.
ImplementsObjectStore == S!Spec

\* GetBlock returns NULL only if no free chunk would do. (LargeAllocator_GetBlock.)
NullMeansNone ==
    [][\A t \in Threads : pc[t] = "idle" /\ pc'[t] = "collect" =>
        \A a \in Chain : header[a].flag = "free" =>
            FloorOf[header[a].size] < Required(request'[t])]_vars

\* How far TLC follows a behaviour: nothing is claimed of what comes behind.
Unoverlapped == ~overlapped
=============================================================================
