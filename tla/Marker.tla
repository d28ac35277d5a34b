------------------------------- MODULE Marker -------------------------------
(* The marking phase: Marker.c, StackoverflowHandler.c, Stack.c and         *)
(* Object_Mark.  The mark stack is bounded; an object that does not fit is  *)
(* marked all the same and only a flag remembers that something was         *)
(* dropped.  When the stack runs empty with the flag up, it is doubled and  *)
(* the heap is walked for marked objects with unmarked children.  Each one  *)
(* found is traced by Marker_Mark, which may overflow again and then walks  *)
(* the heap itself, nested, sharing the scan address with the outer walk.   *)
(*                                                                          *)
(* Addresses.  Blocks are the addresses 1 .. NumBlocks, chunks of the large *)
(* heap follow; LargeHeapEnd is one past the last.  Objects are numbered in *)
(* address order; a chunk holds at most one object, or none if it is free.  *)
EXTENDS Naturals, Sequences, FiniteSets

CONSTANTS
    Objects,            \* allocated objects, numbered in address order
    Heaps,              \* the object graphs considered
    Home,               \* the block or chunk of an object
    FirstLine,          \* the lines of its block an object of the small heap
    LastLine,           \*   covers, from the first to the last
    Slot,               \* where in its first line it starts
    SLOTS_IN_LINE,
    OBJ_ALIGN,          \* bytes in a slot
    NumBlocks,          \* blocks of the small heap
    NumChunks,          \* chunks of the large heap
    InitialStackSize    \* words of the mark stack at first

VARIABLES
    heap,               \* [refs, roots, stale]: the object graph and the objects that
                        \*   carry a mark from the phase before
    marked,             \* objects whose header says marked
    blockMarked,        \* blocks whose header says marked
    lineMarked,         \* lines <<block, line>> whose header says marked
    stack,              \* the mark stack, top last
    nbWords,            \* its capacity
    overflow,           \* a push failed since the last walk began
    currentOverflowAddress,
    pending,            \* references the innermost loop still has to look at
    lost,               \* history: marked objects that nothing will lead to again
    depth,              \* activations of CheckForOverflow inside its loop
    pc                  \* "roots", "mark", "scan" or "done"

vars == <<heap, marked, blockMarked, lineMarked, stack, nbWords, overflow,
          currentOverflowAddress, pending, lost, depth, pc>>

HeapStart == 1
LargeHeapStart == NumBlocks + 1
LargeHeapEnd == NumBlocks + NumChunks + 1
Addresses == HeapStart .. LargeHeapEnd - 1

IsWordInSmallHeap(a) == a \in HeapStart .. NumBlocks
Small(o) == IsWordInSmallHeap(Home[o])

ASSUME LayoutAssumption ==
    /\ Objects \subseteq Nat /\ IsFiniteSet(Objects)
    /\ NumBlocks \in Nat \ {0} /\ NumChunks \in Nat \ {0}
    /\ InitialStackSize \in Nat \ {0}
    /\ Home \in [Objects -> Addresses]
    /\ FirstLine \in [Objects -> Nat] /\ LastLine \in [Objects -> Nat]
    /\ \A o \in Objects : FirstLine[o] <= LastLine[o]
    /\ SLOTS_IN_LINE \in Nat \ {0} /\ OBJ_ALIGN \in Nat \ {0}
    /\ Slot \in [Objects -> 0 .. SLOTS_IN_LINE - 1]
    /\ \A o, p \in Objects : Home[o] = Home[p] /\ ~Small(o) => o = p

\* The walk of a line ends SLOTS_IN_LINE bytes, not slots, behind its start:
\* Block_GetLineAddress returns a void pointer.
WalkReaches(o) == Slot[o] * OBJ_ALIGN < SLOTS_IN_LINE

\* The objects no walk gets to.
Beyond == {o \in Objects : Small(o) /\ ~WalkReaches(o)}

T == INSTANCE Tracing WITH finished <- (pc = "done")

ASSUME GraphAssumption == Heaps \subseteq T!HeapShape

-----------------------------------------------------------------------------
\* The initial states: MarkRoots is called with an empty stack; the sweep before
\* left no block or line marked, and no object but those its walks do not get to,
\* which end where the walks here do.
Init ==
    /\ heap \in Heaps
    /\ marked = heap.stale
    /\ blockMarked = {}
    /\ lineMarked = {}
    /\ stack = <<>>
    /\ nbWords = InitialStackSize
    /\ overflow = FALSE
    /\ currentOverflowAddress = 0
    /\ pending = heap.roots
    /\ lost = heap.stale
    /\ depth = 0
    /\ pc = "roots"

StackFullEarly == Len(stack) + 1 >= nbWords     \* Variant: off by one.

StackFull == Len(stack) >= nbWords
Pushed(o) == IF StackFull THEN stack ELSE Append(stack, o)

\* The lines an object covers, and the one that walks to it: its first.
LinesOf(o) == {<<Home[o], l>> : l \in FirstLine[o] .. LastLine[o]}
StartLine(o) == <<Home[o], FirstLine[o]>>

ObjectMarkFirstLine(o) ==       \* Variant: the line loop stops after one line.
    /\ marked' = marked \union {o}
    /\ blockMarked' = IF Small(o) THEN blockMarked \union {Home[o]} ELSE blockMarked
    /\ lineMarked' = IF Small(o) THEN lineMarked \union {StartLine(o)} ELSE lineMarked

ObjectMark(o) ==
    /\ marked' = marked \union {o}
    /\ blockMarked' = IF Small(o) THEN blockMarked \union {Home[o]} ELSE blockMarked
    /\ lineMarked' = IF Small(o) THEN lineMarked \union LinesOf(o) ELSE lineMarked

\* An object is marked in any case, and pushed only while nothing was dropped.
MarkObject(o) ==
    /\ ObjectMark(o)
    /\ IF overflow
         THEN UNCHANGED <<stack, overflow>>
         ELSE stack' = Pushed(o) /\ overflow' = StackFull
    /\ lost' = IF overflow' /\ o \in Beyond THEN lost \union {o} ELSE lost

VisitMarkedToo ==               \* Variant: the test for the mark is gone.
    \E o \in pending :
        /\ pending' = pending \ {o}
        /\ MarkObject(o)
        /\ UNCHANGED <<heap, nbWords, currentOverflowAddress, depth, pc>>

\* One turn of the loops over the threads' stacks and the modules, or over
\* the fields of an object: in any order, since any layout is possible.
Visit ==
    \E o \in pending :
        /\ pending' = pending \ {o}
        /\ IF o \in marked
             THEN UNCHANGED <<marked, blockMarked, lineMarked, stack, overflow, lost>>
             ELSE MarkObject(o)
        /\ UNCHANGED <<heap, nbWords, currentOverflowAddress, depth, pc>>

RootsDone ==
    /\ pc = "roots"
    /\ pending = {}
    /\ pc' = "mark"
    /\ UNCHANGED <<heap, marked, blockMarked, lineMarked, stack, nbWords, overflow,
                   currentOverflowAddress, pending, lost, depth>>

Pop ==
    /\ pc = "mark"
    /\ pending = {}
    /\ stack # <<>>
    /\ stack' = SubSeq(stack, 1, Len(stack) - 1)
    /\ pending' = heap.refs[stack[Len(stack)]]
    /\ UNCHANGED <<heap, marked, blockMarked, lineMarked, nbWords, overflow,
                   currentOverflowAddress, lost, depth, pc>>

-----------------------------------------------------------------------------
BeginWalkInPlace ==             \* Variant: a nested walk goes on where the outer one is.
    /\ overflow' = FALSE
    /\ nbWords' = 2 * nbWords
    /\ currentOverflowAddress' =
         IF depth = 0 THEN HeapStart ELSE currentOverflowAddress
    /\ depth' = depth + 1
    /\ pc' = "scan"

\* The head of CheckForOverflow: from the start of the heap, with twice the stack.
BeginWalk ==
    /\ overflow' = FALSE
    /\ nbWords' = 2 * nbWords
    /\ currentOverflowAddress' = HeapStart
    /\ depth' = depth + 1
    /\ pc' = "scan"

HandleOverflow ==
    /\ IF overflow
         THEN BeginWalk
         ELSE /\ pc' = IF depth = 0 THEN "done" ELSE "scan"
              /\ UNCHANGED <<nbWords, overflow, currentOverflowAddress, depth>>
    /\ UNCHANGED <<heap, marked, blockMarked, lineMarked, stack, pending, lost>>

CheckForOverflowEarly ==        \* Variant: as soon as an object is done.
    pc = "mark" /\ pending = {} /\ (overflow \/ stack = <<>>) /\ HandleOverflow

\* Marker_Mark has emptied the stack and calls CheckForOverflow.
CheckForOverflow == pc = "mark" /\ pending = {} /\ stack = <<>> /\ HandleOverflow

\* A marked object with an unmarked child: overflowMark.
Overflowed(o) == o \in marked /\ heap.refs[o] \ marked # {}

\* What a walk over the marked lines of a block meets that has to be traced.
FoundInBlock(b) ==
    IF b \in blockMarked
      THEN {o \in Objects : /\ Home[o] = b
                            /\ StartLine(o) \in lineMarked /\ WalkReaches(o)
                            /\ Overflowed(o)}
      ELSE {}

FoundInChunk(c) == {o \in Objects : Home[o] = c /\ Overflowed(o)}

\* The walk stops at the first object in address order and pushes it; the
\* result of that push is not looked at.
PushFirst(found) ==
    \E o \in found :
        /\ \A p \in found : o <= p
        /\ stack' = Pushed(o)

ScanBlockSkippingRest ==        \* Variant: the address moves on behind a hit.
    LET a == currentOverflowAddress
        found == FoundInBlock(a) IN
    /\ IsWordInSmallHeap(a)
    /\ IF found # {}
         THEN PushFirst(found) /\ pc' = "mark"
         ELSE UNCHANGED stack /\ pc' = IF a = NumBlocks THEN "mark" ELSE "scan"
    /\ currentOverflowAddress' = a + 1

\* One block of smallHeapOverflowHeapScan.  A hit leaves the address at the
\* block, which is walked again from its first line after the trace; behind
\* the last block the walk moves to the large heap.
ScanBlock ==
    LET a == currentOverflowAddress
        found == FoundInBlock(a) IN
    /\ IsWordInSmallHeap(a)
    /\ IF found # {}
         THEN /\ PushFirst(found)
              /\ pc' = "mark"
              /\ UNCHANGED currentOverflowAddress
         ELSE /\ currentOverflowAddress' = IF a = NumBlocks THEN LargeHeapStart ELSE a + 1
              /\ pc' = IF a = NumBlocks THEN "mark" ELSE "scan"
              /\ UNCHANGED stack

WalkChunk(a) ==
    LET found == FoundInChunk(a) IN
    IF found # {}
      THEN /\ PushFirst(found)
           /\ pc' = "mark"
           /\ UNCHANGED currentOverflowAddress
      ELSE /\ currentOverflowAddress' = a + 1
           /\ pc' = IF a + 1 = LargeHeapEnd THEN "mark" ELSE "scan"
           /\ UNCHANGED stack

ScanChunkPastEnd ==             \* Variant: the walk does not know the end.
    currentOverflowAddress >= LargeHeapStart /\ WalkChunk(currentOverflowAddress)

\* One chunk of largeHeapOverflowHeapScan.
ScanChunk ==
    /\ currentOverflowAddress \in LargeHeapStart .. LargeHeapEnd - 1
    /\ WalkChunk(currentOverflowAddress)

ScanStep ==
    /\ pc = "scan"
    /\ ScanBlock \/ ScanChunk
    /\ UNCHANGED <<heap, marked, blockMarked, lineMarked, nbWords, overflow, pending,
                   lost, depth>>

\* The loop of an activation ends at the end of the large heap and returns to
\* the Marker_Mark that called it, and through it to the enclosing loop, if any.
EndWalk ==
    /\ pc = "scan"
    /\ currentOverflowAddress = LargeHeapEnd
    /\ depth' = depth - 1
    /\ pc' = IF depth = 1 THEN "done" ELSE "scan"
    /\ UNCHANGED <<heap, marked, blockMarked, lineMarked, stack, nbWords, overflow,
                   currentOverflowAddress, pending, lost>>

Next == Visit \/ RootsDone \/ Pop \/ CheckForOverflow \/ ScanStep \/ EndWalk

Spec == Init /\ [][Next]_vars

\* The collector runs alone and is not stopped: it takes its next step.
FairSpec == Spec /\ WF_vars(Next)

-----------------------------------------------------------------------------
TypeOK ==
    /\ heap \in T!HeapShape
    /\ marked \subseteq Objects
    /\ blockMarked \subseteq HeapStart .. NumBlocks
    /\ lineMarked \subseteq (HeapStart .. NumBlocks) \X Nat
    /\ stack \in Seq(Objects)
    /\ nbWords \in Nat \ {0}
    /\ overflow \in BOOLEAN
    /\ currentOverflowAddress \in 0 .. LargeHeapEnd
    /\ pending \subseteq Objects
    /\ lost \subseteq Beyond
    /\ depth \in Nat
    /\ pc \in {"roots", "mark", "scan", "done"}

OnStack == {stack[i] : i \in 1 .. Len(stack)}

\* A marked object whose child is unmarked is never forgotten, unless no walk gets
\* to it and it was marked before or dropped by a full stack: it is on the stack, or
\* its field is about to be looked at, or a walk does get to it, and the overflow flag
\* will start one over all of the heap or the one under way has not passed it.
\* (Marker_markObject and the shared address of nested walks.)
NoChildForgotten ==
    \A o \in marked \ lost : \A c \in heap.refs[o] \ marked :
        \/ o \in OnStack
        \/ pc = "mark" /\ c \in pending
        \/ o \notin Beyond /\ (overflow \/ (depth > 0 /\ currentOverflowAddress <= Home[o]))

\* The block and line marks the sweep relies on are exactly those of the
\* objects marked in this phase: a line it would hand out again holds no part of
\* one, and no other line is withheld.  (Object_Mark, for Block_Recycle.)
LineMarksExact ==
    /\ lineMarked = UNION {LinesOf(o) : o \in {p \in marked \ heap.stale : Small(p)}}
    /\ blockMarked = {Home[o] : o \in {p \in marked \ heap.stale : Small(p)}}

\* The stack is never doubled in vain: a doubled stack is smaller than twice
\* the number of objects marked in this phase, so the nesting of walks, one per doubling,
\* is logarithmic in the live objects.  It rests on every word pushed being
\* paid for by an object marked just then, never by one marked before.
\* (Stack_DoubleSize called by CheckForOverflow.)
GrowthJustified ==
    /\ nbWords > InitialStackSize => nbWords < 2 * Cardinality(marked \ heap.stale)
    /\ overflow => nbWords < Cardinality(marked \ heap.stale)

\* An object a walk found is really pushed, and the stack is empty when it is
\* replaced: the two places that ignore this are right.  (The unchecked
\* Stack_Push of overflowMark; the assertion of Stack_DoubleSize.)
WalkOwnsStack ==
    [][ /\ pc = "scan" /\ pc' = "mark" /\ currentOverflowAddress' = currentOverflowAddress
             => Len(stack') = 1
        /\ nbWords' # nbWords => stack = <<>> ]_vars

\* Marking ends, whatever the graph and however often the stack overflows.
\* (The loops of Marker_Mark and CheckForOverflow.)
MarkingEnds == <>(pc = "done")

\* The marker implements tracing: it marks only what the roots or an object it has
\* traced refer to, and ends only when no marked object refers to an unmarked one
\* but those no walk gets to that were marked before or dropped by a full stack.
ImplementsTracing == T!Spec

\* Every object the program can reach is marked when marking ends, however small
\* the stack. This is not so where some object is Beyond: TLC finds one that a full
\* stack dropped and no walk gets to. (StackOverflowHandler_CheckForOverflow.)
AllReachableMarked == pc = "done" => T!Reachable(heap, {}) \subseteq marked
=============================================================================
