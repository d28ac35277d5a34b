---------------------------- MODULE Marker_proofs ----------------------------
(* The marking phase is right for every object graph, every layout of the    *)
(* heap and every size of the mark stack.                                    *)
EXTENDS Marker, TLAPS, FiniteSetTheorems, SequenceTheorems

-----------------------------------------------------------------------------
(* The stack and the addresses.                                              *)

LEMMA AddressFacts ==
    /\ HeapStart \in Nat /\ LargeHeapStart \in Nat /\ LargeHeapEnd \in Nat
    /\ 1 < LargeHeapStart /\ LargeHeapStart < LargeHeapEnd
    /\ \A o \in Objects : Home[o] \in Nat /\ 1 <= Home[o] /\ Home[o] < LargeHeapEnd
    /\ \A o \in Objects : Small(o) <=> Home[o] <= NumBlocks
BY LayoutAssumption DEF HeapStart, LargeHeapStart, LargeHeapEnd, Addresses, Small,
     IsWordInSmallHeap

\* Stack_Push keeps a sequence of objects, and what was on it.
LEMMA PushFacts ==
    ASSUME TypeOK, NEW o \in Objects
    PROVE  /\ Pushed(o) \in Seq(Objects)
           /\ {Pushed(o)[i] : i \in 1 .. Len(Pushed(o))} =
                 IF StackFull THEN OnStack ELSE OnStack \union {o}
           /\ Len(Pushed(o)) = IF StackFull THEN Len(stack) ELSE Len(stack) + 1
<1>1. CASE StackFull
  BY <1>1 DEF Pushed, OnStack, TypeOK
<1>2. CASE ~StackFull
  <2> DEFINE s == Append(stack, o)
  <2>1. /\ Pushed(o) = s
        /\ s \in Seq(Objects)
        /\ Len(s) = Len(stack) + 1
        /\ \A i \in 1 .. Len(stack) : s[i] = stack[i]
        /\ s[Len(stack) + 1] = o
    BY <1>2 DEF Pushed, TypeOK
  <2>2. Len(stack) \in Nat
    BY DEF TypeOK
  <2>3. {s[i] : i \in 1 .. Len(s)} = OnStack \union {o}
    <3>1. ASSUME NEW i \in 1 .. Len(s) PROVE s[i] \in OnStack \union {o}
      <4>1. CASE i \in 1 .. Len(stack)
        BY <4>1, <2>1 DEF OnStack
      <4>2. CASE i = Len(stack) + 1
        BY <4>2, <2>1
      <4> QED
        BY <4>1, <4>2, <2>1, <2>2
    <3>2. ASSUME NEW i \in 1 .. Len(stack) PROVE stack[i] \in {s[j] : j \in 1 .. Len(s)}
      <4>1. i \in 1 .. Len(s) /\ s[i] = stack[i]
        BY <2>1, <2>2
      <4> QED
        BY <4>1
    <3>3. o \in {s[j] : j \in 1 .. Len(s)}
      <4>1. Len(s) \in 1 .. Len(s) /\ s[Len(s)] = o
        BY <2>1, <2>2
      <4> QED
        BY <4>1
    <3> QED
      BY <3>1, <3>2, <3>3 DEF OnStack
  <2> QED
    BY <1>2, <2>1, <2>3
<1> QED
  BY <1>1, <1>2

\* Stack_Pop takes the top away and leaves the rest.
LEMMA PopFacts ==
    ASSUME TypeOK, stack # <<>>
    PROVE  LET s == SubSeq(stack, 1, Len(stack) - 1)
               top == stack[Len(stack)]
           IN /\ s \in Seq(Objects)
              /\ top \in Objects
              /\ Len(s) = Len(stack) - 1
              /\ OnStack = {s[i] : i \in 1 .. Len(s)} \union {top}
<1> DEFINE s == SubSeq(stack, 1, Len(stack) - 1)
           top == stack[Len(stack)]
<1>1. Len(stack) \in Nat /\ Len(stack) > 0 /\ top \in Objects
  BY DEF TypeOK
<1>2. s \in Seq(Objects) /\ Len(s) = Len(stack) - 1
      /\ \A i \in 1 .. Len(stack) - 1 : s[i] = stack[i]
  <2>1. \A i \in 1 .. Len(stack) - 1 : stack[i] \in Objects
    BY <1>1 DEF TypeOK
  <2> DEFINE n == Len(stack) - 1
  <2>2. n \in Int /\ 1 \in Int /\ \A i \in 1 .. n : stack[i] \in Objects
    BY <1>1, <2>1
  <2>3. /\ SubSeq(stack, 1, n) \in Seq(Objects)
        /\ Len(SubSeq(stack, 1, n)) = IF 1 <= n THEN n - 1 + 1 ELSE 0
        /\ \A i \in 1 .. n - 1 + 1 : SubSeq(stack, 1, n)[i] = stack[1 + i - 1]
    <3> HIDE DEF n
    <3> QED
      BY <2>2, SubSeqProperties
  <2>4. n - 1 + 1 = n /\ (1 <= n \/ n = 0) /\ \A i \in 1 .. n : 1 + i - 1 = i
    BY <1>1
  <2> QED
    BY <2>3, <2>4
<1>3. ASSUME NEW i \in 1 .. Len(stack)
      PROVE  stack[i] \in {s[j] : j \in 1 .. Len(s)} \union {top}
  <2>1. CASE i = Len(stack)
    BY <2>1
  <2>2. CASE i \in 1 .. Len(s) /\ s[i] = stack[i]
    BY <2>2
  <2> QED
    BY <2>1, <2>2, <1>1, <1>2
<1>4. ASSUME NEW i \in 1 .. Len(s) PROVE s[i] \in OnStack
  <2>1. i \in 1 .. Len(stack) /\ s[i] = stack[i]
    BY <1>1, <1>2
  <2> QED
    BY <2>1 DEF OnStack
<1>5. top \in OnStack
  BY <1>1 DEF OnStack
<1> QED
  BY <1>1, <1>2, <1>3, <1>4, <1>5 DEF OnStack

-----------------------------------------------------------------------------
(* Marking one object.                                                       *)

LEMMA LineFacts ==
    ASSUME NEW o \in Objects
    PROVE  /\ StartLine(o) \in LinesOf(o)
           /\ Small(o) => LinesOf(o) \subseteq (HeapStart .. NumBlocks) \X Nat
BY LayoutAssumption DEF StartLine, LinesOf, Small, IsWordInSmallHeap

\* Marker_markObject marks the object, and pushes it or leaves the flag up.
LEMMA MarkObjectFacts ==
    ASSUME TypeOK, NEW o \in Objects, MarkObject(o)
    PROVE  /\ marked' = marked \union {o}
           /\ stack' \in Seq(Objects)
           /\ overflow' \in BOOLEAN
           /\ blockMarked' \subseteq HeapStart .. NumBlocks
           /\ lineMarked' \subseteq (HeapStart .. NumBlocks) \X Nat
           /\ OnStack \subseteq OnStack' /\ OnStack' \subseteq OnStack \union {o}
           /\ o \in OnStack' \/ overflow'
           /\ o \in Beyond => o \in OnStack' \/ o \in lost'
           /\ lost \subseteq lost' /\ lost' \subseteq lost \union ({o} \intersect Beyond)
           /\ overflow => overflow'
           /\ overflow' => OnStack' = OnStack
<1>1. /\ blockMarked' \subseteq HeapStart .. NumBlocks
      /\ lineMarked' \subseteq (HeapStart .. NumBlocks) \X Nat
      /\ marked' = marked \union {o}
      /\ lost \subseteq lost' /\ lost' \subseteq lost \union ({o} \intersect Beyond)
      /\ o \in Beyond => ~overflow' \/ o \in lost'
  BY LineFacts DEF MarkObject, ObjectMark, TypeOK, Small, IsWordInSmallHeap
<1>2. CASE overflow
  BY <1>1, <1>2 DEF MarkObject, TypeOK, OnStack
<1>3. CASE ~overflow
  <2>1. stack' = Pushed(o) /\ overflow' = StackFull
    BY <1>3 DEF MarkObject
  <2>2. OnStack' = {Pushed(o)[i] : i \in 1 .. Len(Pushed(o))}
    BY <2>1 DEF OnStack
  <2>3. StackFull \in BOOLEAN
    BY DEF StackFull
  <2> QED
    BY <1>1, <1>3, <2>1, <2>2, <2>3, PushFacts
<1> QED
  BY <1>2, <1>3

-----------------------------------------------------------------------------
(* The inductive invariant.                                                  *)

\* Which loop runs says what is left of the stack, the flag and the address.
PhaseInv ==
    /\ OnStack \subseteq marked \ lost
    /\ heap.stale \subseteq lost /\ lost \subseteq marked
    /\ nbWords >= InitialStackSize
    /\ depth > 0 => currentOverflowAddress >= HeapStart
    /\ pc = "roots" => depth = 0
    /\ pc \in {"scan", "done"} => stack = <<>> /\ pending = {} /\ ~overflow
    /\ pc = "scan" => depth > 0
    /\ pc = "done" => depth = 0

\* The loops look only at what the roots or a marked object refer to, and at
\* every root.
PendingInv ==
    /\ pc = "roots" => pending \subseteq heap.roots
    /\ pc = "mark" => \A c \in pending : \E p \in marked \ lost : c \in heap.refs[p]
    /\ pc = "roots" => heap.roots \subseteq marked \union pending
    /\ pc # "roots" => heap.roots \subseteq marked

MarkerInv ==
    TypeOK /\ PhaseInv /\ PendingInv /\ LineMarksExact /\ NoChildForgotten

LEMMA InitInv == Init => MarkerInv
<1> SUFFICES ASSUME Init PROVE MarkerInv
  OBVIOUS
<1>1. heap \in T!HeapShape
  BY GraphAssumption DEF Init
<1>2. OnStack = {}
  BY DEF Init, OnStack
<1>3. heap.roots \subseteq Objects /\ heap.stale \subseteq Beyond /\ Beyond \subseteq Objects
  BY <1>1 DEF T!HeapShape, Beyond
<1>4. <<>> \in Seq(Objects) /\ 0 \in 0 .. LargeHeapEnd /\ InitialStackSize \in Nat \ {0}
  BY LayoutAssumption, AddressFacts
<1>5. TypeOK
  BY <1>1, <1>3, <1>4 DEF Init, TypeOK
<1>6. LineMarksExact /\ NoChildForgotten
  <2>1. marked \ heap.stale = {} /\ marked \ lost = {} /\ lineMarked = {} /\ blockMarked = {}
    BY DEF Init
  <2> QED
    BY <2>1 DEF LineMarksExact, NoChildForgotten
<1>7. PhaseInv /\ PendingInv
  BY <1>2, LayoutAssumption DEF Init, PhaseInv, PendingInv
<1> QED
  BY <1>5, <1>6, <1>7 DEF MarkerInv

\* One turn of a loop over references.  The object looked at was referred to;
\* if it is marked now, its children are not forgotten: it is on the stack or
\* the flag is up.
LEMMA VisitStep == ASSUME MarkerInv, Visit PROVE MarkerInv'
<1> PICK o \in pending :
        /\ pending' = pending \ {o}
        /\ IF o \in marked
             THEN UNCHANGED <<marked, blockMarked, lineMarked, stack, overflow, lost>>
             ELSE MarkObject(o)
        /\ UNCHANGED <<heap, nbWords, currentOverflowAddress, depth, pc>>
  BY DEF Visit
<1>1. TypeOK /\ o \in Objects
  BY DEF MarkerInv, TypeOK
<1>2. CASE o \in marked
  <2>1. TypeOK' /\ PhaseInv' /\ LineMarksExact'
    BY <1>2 DEF MarkerInv, TypeOK, PhaseInv, LineMarksExact, OnStack
  <2>2. PendingInv'
    BY <1>2 DEF MarkerInv, PendingInv
  <2>3. NoChildForgotten'
    BY <1>2 DEF MarkerInv, NoChildForgotten, OnStack
  <2> QED
    BY <2>1, <2>2, <2>3 DEF MarkerInv
<1>3. CASE o \notin marked
  <2>1. MarkObject(o)
    BY <1>3
  <2>2. /\ marked' = marked \union {o}
        /\ stack' \in Seq(Objects)
        /\ overflow' \in BOOLEAN
        /\ blockMarked' \subseteq HeapStart .. NumBlocks
        /\ lineMarked' \subseteq (HeapStart .. NumBlocks) \X Nat
        /\ OnStack \subseteq OnStack' /\ OnStack' \subseteq OnStack \union {o}
        /\ o \in OnStack' \/ overflow'
        /\ o \in Beyond => o \in OnStack' \/ o \in lost'
        /\ lost \subseteq lost' /\ lost' \subseteq lost \union ({o} \intersect Beyond)
        /\ overflow => overflow'
        /\ overflow' => OnStack' = OnStack
    BY <1>1, <2>1, MarkObjectFacts
  <2>3. TypeOK'
    BY <1>1, <2>2 DEF TypeOK
  <2>8. o \notin lost /\ (o \in lost' => overflow')
    BY <1>3, <2>1 DEF MarkerInv, PhaseInv, MarkObject
  <2>4. PhaseInv'
    BY <1>3, <2>2, <2>8 DEF MarkerInv, PhaseInv
  <2>5. PendingInv'
    BY <1>3, <2>2, <2>8 DEF MarkerInv, PendingInv
  <2>6. LineMarksExact'
    <3>1. (marked \ heap.stale)' = (marked \ heap.stale) \union {o}
      BY <1>3, <2>2 DEF MarkerInv, PhaseInv
    <3> QED
      BY <2>1, <3>1 DEF MarkerInv, LineMarksExact, MarkObject, ObjectMark
  <2>7. NoChildForgotten'
    <3> SUFFICES ASSUME NEW q \in (marked \ lost)', NEW c \in heap.refs[q] \ marked'
                 PROVE  \/ q \in OnStack'
                        \/ pc' = "mark" /\ c \in pending'
                        \/ /\ q \notin Beyond
                           /\ overflow' \/ (depth > 0 /\ currentOverflowAddress <= Home[q])
      BY DEF NoChildForgotten
    <3>1. CASE q = o
      BY <2>2, <3>1
    <3>2. CASE q # o
      <4>1. q \in marked \ lost /\ c \in heap.refs[q] \ marked /\ c # o
        BY <2>2, <3>2
      <4>2. \/ q \in OnStack
            \/ pc = "mark" /\ c \in pending
            \/ q \notin Beyond /\ (overflow \/ (depth > 0 /\ currentOverflowAddress <= Home[q]))
        BY <4>1 DEF MarkerInv, NoChildForgotten
      <4> QED
        BY <2>2, <4>1, <4>2
    <3> QED
      BY <3>1, <3>2
  <2> QED
    BY <2>3, <2>4, <2>5, <2>6, <2>7 DEF MarkerInv
<1> QED
  BY <1>2, <1>3

\* The object popped leaves the stack, and its fields are looked at next.
LEMMA PopStep == ASSUME MarkerInv, Pop PROVE MarkerInv'
<1> DEFINE top == stack[Len(stack)]
<1>1. /\ stack' \in Seq(Objects)
      /\ top \in Objects
      /\ OnStack = OnStack' \union {top}
  BY PopFacts DEF MarkerInv, Pop, OnStack
<1>2. pending' = heap.refs[top] /\ pending' \subseteq Objects
  BY <1>1 DEF Pop, MarkerInv, TypeOK, T!HeapShape
<1> HIDE DEF top
<1>3. TypeOK'
  BY <1>1, <1>2 DEF Pop, MarkerInv, TypeOK
<1>4. PhaseInv' /\ PendingInv'
  BY <1>1, <1>2 DEF Pop, MarkerInv, PhaseInv, PendingInv
<1>5. LineMarksExact'
  BY DEF Pop, MarkerInv, LineMarksExact
<1>6. NoChildForgotten'
  BY <1>1, <1>2 DEF Pop, MarkerInv, NoChildForgotten
<1> QED
  BY <1>3, <1>4, <1>5, <1>6 DEF MarkerInv

LEMMA RootsDoneStep == ASSUME MarkerInv, RootsDone PROVE MarkerInv'
BY DEF RootsDone, MarkerInv, TypeOK, PhaseInv, PendingInv, LineMarksExact,
       NoChildForgotten, OnStack

\* A walk begins in front of every object, so whatever was dropped is ahead.
LEMMA CheckForOverflowStep == ASSUME MarkerInv, CheckForOverflow PROVE MarkerInv'
<1> USE DEF CheckForOverflow, HandleOverflow, MarkerInv
<1>1. OnStack' = OnStack /\ OnStack = {}
  BY DEF OnStack
<1>2. LineMarksExact'
  BY DEF LineMarksExact
<1>3. CASE overflow
  <2> USE <1>3 DEF BeginWalk
  <2>1. HeapStart \in 0 .. LargeHeapEnd
    BY AddressFacts DEF HeapStart
  <2>2. TypeOK'
    <3>1. nbWords' \in Nat \ {0} /\ depth' \in Nat
      BY DEF TypeOK
    <3>2. overflow' = FALSE /\ currentOverflowAddress' = HeapStart /\ pc' = "scan"
      OBVIOUS
    <3>3. UNCHANGED <<heap, marked, blockMarked, lineMarked, stack, pending, lost>>
      OBVIOUS
    <3> QED
      BY <2>1, <3>1, <3>2, <3>3 DEF TypeOK
  <2>3. PhaseInv' /\ PendingInv'
    <3>1. nbWords' >= InitialStackSize
      BY LayoutAssumption DEF PhaseInv, TypeOK
    <3> QED
      BY <1>1, <2>1, <3>1 DEF PhaseInv, PendingInv, TypeOK, HeapStart
  <2>4. NoChildForgotten'
    <3> SUFFICES ASSUME NEW o \in marked \ lost, NEW c \in heap.refs[o] \ marked
                 PROVE  o \notin Beyond /\ depth' > 0 /\ HeapStart <= Home[o]
      BY DEF NoChildForgotten
    <3>1. o \notin Beyond
      BY <1>1 DEF NoChildForgotten
    <3> QED
      BY <3>1, AddressFacts DEF TypeOK, HeapStart
  <2> QED
    BY <1>2, <2>2, <2>3, <2>4
<1>4. CASE ~overflow
  <2>1. TypeOK' /\ PhaseInv' /\ PendingInv'
    BY <1>1, <1>4 DEF TypeOK, PhaseInv, PendingInv
  <2>2. NoChildForgotten'
    BY <1>1, <1>4 DEF NoChildForgotten
  <2> QED
    BY <1>2, <2>1, <2>2
<1> QED
  BY <1>3, <1>4 DEF TypeOK

\* A hit of the walk ends up on the stack: it was empty and has room.
LEMMA HitStep ==
    ASSUME MarkerInv, pc = "scan", NEW found, found \subseteq marked \ lost, PushFirst(found)
    PROVE  stack' \in Seq(Objects) /\ Len(stack') = 1 /\ OnStack' \subseteq marked \ lost
<1> PICK o \in found : stack' = Pushed(o)
  BY DEF PushFirst
<1>1. o \in Objects /\ o \in marked \ lost
  BY DEF MarkerInv, TypeOK
<1>2. ~StackFull /\ Len(stack) = 0 /\ OnStack = {}
  BY DEF MarkerInv, PhaseInv, TypeOK, StackFull, OnStack
<1>3. OnStack' = {Pushed(o)[i] : i \in 1 .. Len(Pushed(o))}
  BY DEF OnStack
<1> QED
  BY <1>1, <1>2, <1>3, PushFacts DEF MarkerInv

\* The marks on blocks and lines hide no marked object from the walk.
LEMMA WalkMeetsAll ==
    ASSUME MarkerInv, NEW o \in marked, o \notin Beyond, Overflowed(o)
    PROVE  IF Small(o) THEN o \in FoundInBlock(Home[o]) ELSE o \in FoundInChunk(Home[o])
<1>1. o \in Objects
  BY DEF MarkerInv, TypeOK
<1>2. CASE Small(o)
  <2>1. StartLine(o) \in LinesOf(o)
    BY <1>1, LineFacts
  <2>2. Home[o] \in blockMarked /\ StartLine(o) \in lineMarked
    <3>1. o \in {p \in marked \ heap.stale : Small(p)}
      BY <1>1, <1>2 DEF MarkerInv, TypeOK, T!HeapShape
    <3> QED
      BY <2>1, <3>1 DEF MarkerInv, LineMarksExact
  <2>3. WalkReaches(o)
    BY <1>1, <1>2 DEF Beyond
  <2> QED
    BY <1>1, <1>2, <2>2, <2>3 DEF FoundInBlock
<1>3. CASE ~Small(o)
  BY <1>1, <1>3 DEF FoundInChunk
<1> QED
  BY <1>2, <1>3

\* What the walk passes without a hit has no unmarked children.
LEMMA PassStep ==
    ASSUME MarkerInv, pc = "scan", NEW a \in Nat,
           currentOverflowAddress = a, currentOverflowAddress' = a + 1,
           a <= NumBlocks => FoundInBlock(a) = {},
           a > NumBlocks => FoundInChunk(a) = {},
           UNCHANGED <<heap, marked, overflow, lost, depth, stack>>
    PROVE  NoChildForgotten'
<1> SUFFICES ASSUME NEW o \in marked \ lost, NEW c \in heap.refs[o] \ marked
             PROVE  o \notin Beyond /\ depth > 0 /\ currentOverflowAddress' <= Home[o]
  BY DEF NoChildForgotten
<1>1. o \in Objects /\ Overflowed(o) /\ Home[o] \in Nat /\ NumBlocks \in Nat
  BY AddressFacts, LayoutAssumption DEF MarkerInv, TypeOK, Overflowed
<1>2. o \notin OnStack
  BY DEF MarkerInv, PhaseInv, OnStack
<1>3. o \notin Beyond /\ depth > 0 /\ a <= Home[o]
  BY <1>2 DEF MarkerInv, PhaseInv, NoChildForgotten
<1>4. Home[o] # a
  BY <1>1, <1>3, WalkMeetsAll, AddressFacts
<1> QED
  BY <1>1, <1>3, <1>4

\* One block or chunk of a walk.
LEMMA ScanStepStep == ASSUME MarkerInv, ScanStep PROVE MarkerInv'
<1> DEFINE a == currentOverflowAddress
           Hit(found) == /\ PushFirst(found)
                         /\ pc' = "mark"
                         /\ UNCHANGED currentOverflowAddress
           Pass == /\ currentOverflowAddress' = a + 1
                   /\ pc' \in {"mark", "scan"}
                   /\ UNCHANGED stack
<1>1. /\ pc = "scan"
      /\ UNCHANGED <<heap, marked, blockMarked, lineMarked, nbWords, overflow, pending,
                     lost, depth>>
      /\ a \in Nat /\ a <= LargeHeapEnd
      /\ stack = <<>> /\ pending = {} /\ ~overflow /\ depth > 0 /\ a >= 1
  BY DEF ScanStep, MarkerInv, PhaseInv, TypeOK, HeapStart
<1>0. lost \subseteq Beyond
  BY DEF MarkerInv, TypeOK
<1>2. LineMarksExact'
  BY <1>1 DEF MarkerInv, LineMarksExact
<1>3. PendingInv'
  BY <1>1 DEF MarkerInv, PendingInv, ScanStep, ScanBlock, ScanChunk, WalkChunk
<1>4. ASSUME NEW found, found \subseteq marked \ lost, Hit(found) PROVE MarkerInv'
  <2>1. stack' \in Seq(Objects) /\ OnStack' \subseteq marked \ lost
    BY <1>1, <1>4, HitStep
  <2>2. TypeOK'
    BY <1>1, <1>4, <2>1 DEF MarkerInv, TypeOK
  <2>3. PhaseInv'
    BY <1>1, <1>4, <2>1 DEF MarkerInv, PhaseInv
  <2>4. OnStack = {}
    BY <1>1 DEF OnStack
  <2>5. NoChildForgotten'
    BY <1>1, <1>4, <2>4 DEF MarkerInv, NoChildForgotten
  <2> QED
    BY <1>2, <1>3, <2>2, <2>3, <2>5 DEF MarkerInv
<1>5. ASSUME Pass, a < LargeHeapEnd,
             a <= NumBlocks => FoundInBlock(a) = {},
             a > NumBlocks => FoundInChunk(a) = {}
      PROVE  MarkerInv'
  <2>1. a + 1 \in 0 .. LargeHeapEnd
    BY <1>1, <1>5, AddressFacts
  <2>2. TypeOK'
    BY <1>1, <1>5, <2>1 DEF MarkerInv, TypeOK
  <2>3. OnStack' = OnStack
    BY <1>5 DEF OnStack
  <2>4. PhaseInv'
    BY <1>1, <1>5, <2>3 DEF MarkerInv, PhaseInv, HeapStart
  <2>5. NoChildForgotten'
    BY <1>1, <1>5, PassStep
  <2> QED
    BY <1>2, <1>3, <2>2, <2>4, <2>5 DEF MarkerInv
<1> HIDE DEF Hit, Pass
<1>6. CASE ScanBlock
  <2>1. a <= NumBlocks /\ a < LargeHeapEnd /\ NumBlocks \in Nat
    BY <1>1, <1>6, AddressFacts, LayoutAssumption DEF ScanBlock, IsWordInSmallHeap, LargeHeapEnd
  <2>2. FoundInBlock(a) \subseteq marked \ lost
    BY <1>0 DEF FoundInBlock, Overflowed, Beyond
  <2>3. CASE FoundInBlock(a) # {}
    <3>1. Hit(FoundInBlock(a))
      BY <1>6, <2>3 DEF ScanBlock, Hit
    <3> QED
      BY <1>4, <2>2, <3>1
  <2>4. CASE FoundInBlock(a) = {}
    <3>1. Pass
      BY <1>6, <2>4 DEF ScanBlock, Pass, LargeHeapStart
    <3> QED
      BY <1>1, <1>5, <2>1, <2>4, <3>1
  <2> QED
    BY <2>3, <2>4
<1>7. CASE ScanChunk
  <2>1. a > NumBlocks /\ a < LargeHeapEnd /\ NumBlocks \in Nat
    BY <1>1, <1>7, AddressFacts, LayoutAssumption DEF ScanChunk, LargeHeapStart
  <2>2. FoundInChunk(a) \subseteq marked \ lost
    BY <1>0, <2>1, AddressFacts DEF FoundInChunk, Overflowed, Beyond
  <2>3. CASE FoundInChunk(a) # {}
    <3>1. Hit(FoundInChunk(a))
      BY <1>7, <2>3 DEF ScanChunk, WalkChunk, Hit
    <3> QED
      BY <1>4, <2>2, <3>1
  <2>4. CASE FoundInChunk(a) = {}
    <3>1. Pass
      BY <1>7, <2>4 DEF ScanChunk, WalkChunk, Pass
    <3> QED
      BY <1>1, <1>5, <2>1, <2>4, <3>1
  <2> QED
    BY <2>3, <2>4
<1> QED
  BY <1>6, <1>7 DEF ScanStep

\* A walk that came to the end passed every object, so nothing is open.
LEMMA EndWalkStep == ASSUME MarkerInv, EndWalk PROVE MarkerInv'
<1>1. OnStack' = OnStack /\ OnStack = {}
  BY DEF OnStack, EndWalk, MarkerInv, PhaseInv
<1>2. TypeOK' /\ PhaseInv' /\ PendingInv'
  BY <1>1 DEF EndWalk, MarkerInv, TypeOK, PhaseInv, PendingInv
<1>3. LineMarksExact'
  BY DEF EndWalk, MarkerInv, LineMarksExact
<1>4. ASSUME NEW o \in marked \ lost PROVE heap.refs[o] \subseteq marked
  <2>1. Home[o] \in Nat /\ Home[o] < LargeHeapEnd
    BY AddressFacts DEF MarkerInv, TypeOK
  <2>2. ~(currentOverflowAddress <= Home[o])
    BY <2>1, AddressFacts DEF EndWalk
  <2> QED
    BY <1>1, <1>4, <2>2 DEF EndWalk, MarkerInv, PhaseInv, NoChildForgotten
<1>5. NoChildForgotten'
  BY <1>4 DEF EndWalk, NoChildForgotten
<1> QED
  BY <1>2, <1>3, <1>5 DEF MarkerInv

LEMMA NextInv == ASSUME MarkerInv, [Next]_vars PROVE MarkerInv'
<1>1. CASE UNCHANGED vars
  BY <1>1 DEF vars, MarkerInv, TypeOK, PhaseInv, PendingInv, LineMarksExact,
              NoChildForgotten, OnStack
<1> QED
  BY <1>1, VisitStep, RootsDoneStep, PopStep, CheckForOverflowStep, ScanStepStep, EndWalkStep
     DEF Next

-----------------------------------------------------------------------------
\* The types of the marker's state. (Marker_MarkRoots.)
THEOREM TypeCorrect == Spec => []TypeOK
<1>1. MarkerInv => TypeOK
  BY DEF MarkerInv
<1> QED
  BY <1>1, InitInv, NextInv, PTL DEF Spec

\* No dropped object that a walk gets to is forgotten, whatever nests in whatever,
\* and the marks on blocks and lines are those of the objects marked.
\* (StackOverflowHandler_CheckForOverflow; Object_Mark.)
THEOREM NothingForgotten ==
    Spec => [](NoChildForgotten /\ LineMarksExact)
<1>1. MarkerInv => NoChildForgotten /\ LineMarksExact
  BY DEF MarkerInv
<1> QED
  BY <1>1, InitInv, NextInv, PTL DEF Spec

\* The marker implements tracing: it marks only what is found, and ends only when
\* nothing but a lost object refers to an unmarked one. (Marker_MarkRoots.)
THEOREM MarkerRefinement == Spec => ImplementsTracing
<1>1. Init => T!Init
  BY GraphAssumption DEF Init, T!Init
<1>2. ASSUME MarkerInv, [Next]_vars PROVE [T!Next]_(T!vars)
  <2> USE DEF MarkerInv
  <2>1. CASE Visit
    <3> PICK o \in pending :
            /\ IF o \in marked
                 THEN UNCHANGED <<marked, blockMarked, lineMarked, stack, overflow, lost>>
                 ELSE MarkObject(o)
            /\ UNCHANGED <<heap, pc>>
      BY <2>1 DEF Visit
    <3>1. CASE o \in marked
      BY <3>1 DEF T!vars
    <3>2. CASE o \notin marked
      <4>1. o \in Objects /\ pc \in {"roots", "mark"}
        BY <1>2 DEF TypeOK, PhaseInv
      <4>2. T!Found(o)
        BY <1>2, <4>1 DEF T!Found, PendingInv
      <4>3. marked' = marked \union {o} /\ pc' = pc /\ heap' = heap
        BY <3>2 DEF MarkObject, ObjectMark
      <4>4. lost' \in {lost, lost \union ({o} \intersect Beyond)}
        BY <3>2 DEF MarkObject
      <4>5. T!MarkOne(o)
        BY <3>2, <4>1, <4>2, <4>3, <4>4 DEF T!MarkOne
      <4> QED
        BY <4>1, <4>5 DEF T!Next
    <3> QED
      BY <3>1, <3>2
  <2>2. ASSUME pc # "done", pc' = "done", UNCHANGED <<heap, marked, lost>>, MarkerInv'
        PROVE  T!Finish
    <3>1. OnStack' = {}
      BY <2>2 DEF PhaseInv, OnStack
    <3>2. heap.roots \subseteq marked
      BY <2>2 DEF PendingInv
    <3>3. \A o \in marked \ lost : heap.refs[o] \subseteq marked
      BY <2>2, <3>1 DEF NoChildForgotten, PhaseInv
    <3> QED
      BY <2>2, <3>2, <3>3 DEF T!Finish, T!Closed
  <2>3. CASE CheckForOverflow \/ EndWalk
    <3>1. UNCHANGED <<heap, marked, lost>> /\ pc # "done"
      BY <2>3 DEF CheckForOverflow, HandleOverflow, EndWalk
    <3>2. MarkerInv'
      BY <1>2, NextInv
    <3>3. CASE pc' = "done"
      BY <2>2, <3>1, <3>2, <3>3 DEF T!Next
    <3>4. CASE pc' # "done"
      BY <3>1, <3>4 DEF T!vars
    <3> QED
      BY <3>3, <3>4
  <2>4. CASE RootsDone \/ Pop
    BY <2>4 DEF RootsDone, Pop, T!vars
  <2>5. CASE ScanStep
    BY <2>5 DEF ScanStep, ScanBlock, ScanChunk, WalkChunk, T!vars
  <2>6. CASE UNCHANGED vars
    BY <2>6 DEF vars, T!vars
  <2> QED
    BY <1>2, <2>1, <2>3, <2>4, <2>5, <2>6 DEF Next
<1> QED
  BY <1>1, <1>2, InitInv, NextInv, PTL DEF Spec, T!Spec, ImplementsTracing

-----------------------------------------------------------------------------
\* S holds the roots and what the objects traced so far and in S refer to.
ClosedSoFar(S) ==
    /\ heap.roots \subseteq S
    /\ \A o \in S \intersect (marked \ lost) : heap.refs[o] \subseteq S

\* Tracing marks exactly what is reachable past no lost object, for every heap,
\* finite or not: what it marks lies in every set that holds the roots and is
\* closed under the references traced; what is marked in the end is such a set.
TracingInv ==
    /\ T!TypeOK
    /\ \A S \in SUBSET Objects : ClosedSoFar(S) => marked \ heap.stale \subseteq S
    /\ pc = "done" => T!Closed(heap, marked, lost)

\* The abstract phase ends with exactly the objects marked that are reachable past
\* no lost one, and those marked before. (The loops of Marker_Mark.)
THEOREM TracingIsExact == T!Spec => []T!Exact
<1>1. T!Init => TracingInv
  <2> SUFFICES ASSUME T!Init PROVE TracingInv
    OBVIOUS
  <2>1. heap.stale \subseteq Beyond /\ Beyond \subseteq Objects
    BY DEF T!Init, T!HeapShape, Beyond
  <2> QED
    BY <2>1 DEF T!Init, TracingInv, T!TypeOK
<1>2. TracingInv /\ [T!Next]_T!vars => TracingInv'
  <2> SUFFICES ASSUME TracingInv, [T!Next]_T!vars PROVE TracingInv'
    OBVIOUS
  <2> USE DEF TracingInv, T!TypeOK, T!HeapShape
  <2>1. ASSUME NEW o \in Objects, T!MarkOne(o) PROVE TracingInv'
    <3>1. /\ marked' = marked \union {o} /\ o \notin marked /\ heap' = heap
          /\ ~(pc = "done") /\ ~(pc' = "done")
          /\ lost \subseteq lost' /\ lost' \subseteq lost \union ({o} \intersect Beyond)
      BY <2>1 DEF T!MarkOne
    <3>2. T!TypeOK'
      BY <3>1
    <3>3. ASSUME NEW S \in SUBSET Objects, ClosedSoFar(S)' PROVE marked' \ heap.stale \subseteq S
      <4>1. ClosedSoFar(S)
        BY <3>1, <3>3 DEF ClosedSoFar
      <4>2. marked \ heap.stale \subseteq S
        BY <4>1
      <4>3. marked \ lost \subseteq S
        BY <4>2
      <4>4. o \in S
        BY <2>1, <4>1, <4>3 DEF T!MarkOne, T!Found, ClosedSoFar
      <4> QED
        BY <3>1, <4>2, <4>4
    <3> QED
      BY <3>1, <3>2, <3>3
  <2>2. CASE T!Finish
    BY <2>2 DEF T!Finish, ClosedSoFar
  <2>3. CASE UNCHANGED T!vars
    BY <2>3 DEF T!vars, ClosedSoFar, T!Closed
  <2> QED
    BY <2>1, <2>2, <2>3 DEF T!Next
<1>3. TracingInv => T!Exact
  <2> SUFFICES ASSUME TracingInv, pc = "done"
               PROVE  marked = T!Reachable(heap, lost) \union heap.stale
    BY DEF T!Exact
  <2>1. ASSUME NEW o \in marked \ heap.stale PROVE o \in T!Reachable(heap, lost)
    <3>1. ASSUME NEW S \in SUBSET Objects, T!Closed(heap, S, lost) PROVE o \in S
      <4>1. ClosedSoFar(S)
        BY <3>1 DEF T!Closed, ClosedSoFar
      <4> QED
        BY <4>1 DEF TracingInv
    <3> QED
      BY <3>1 DEF TracingInv, T!TypeOK, T!Reachable
  <2>2. T!Reachable(heap, lost) \subseteq marked
    BY DEF TracingInv, T!TypeOK, T!Reachable
  <2>3. heap.stale \subseteq marked
    BY DEF TracingInv, T!TypeOK
  <2> QED
    BY <2>1, <2>2, <2>3
<1> QED
  BY <1>1, <1>2, <1>3, PTL DEF T!Spec

\* Without an overflow nothing is lost but what was marked before.
OverflowInv == overflow \/ nbWords > InitialStackSize \/ lost = heap.stale

\* When marking ends, exactly the objects are marked that are reachable past no lost
\* one, and those marked before; and if the stack never had to grow, none was lost but
\* these. (Marker_MarkRoots, for every layout, graph and size of the stack.)
THEOREM MarksExactlyTheReachable ==
    Spec => [](T!Exact /\ (pc = "done" /\ nbWords = InitialStackSize => lost = heap.stale))
<1>1. Init => OverflowInv
  BY DEF Init, OverflowInv
<1>2. ASSUME MarkerInv, OverflowInv, [Next]_vars PROVE OverflowInv'
  <2> USE DEF OverflowInv
  <2>1. CASE Visit
    BY <1>2, <2>1 DEF Visit, MarkObject
  <2>2. CASE CheckForOverflow
    <3>1. nbWords \in Nat \ {0} /\ InitialStackSize \in Nat \ {0}
      BY <1>2, LayoutAssumption DEF MarkerInv, TypeOK
    <3>2. nbWords' = 2 * nbWords \/ UNCHANGED <<nbWords, overflow, lost, heap>>
      BY <2>2 DEF CheckForOverflow, HandleOverflow, BeginWalk
    <3>3. nbWords >= InitialStackSize
      BY <1>2 DEF MarkerInv, PhaseInv
    <3> QED
      BY <1>2, <3>1, <3>2, <3>3
  <2>3. CASE RootsDone \/ Pop \/ ScanStep \/ EndWalk \/ UNCHANGED vars
    BY <1>2, <2>3 DEF RootsDone, Pop, ScanStep, EndWalk, vars
  <2> QED
    BY <1>2, <2>1, <2>2, <2>3 DEF Next
<1>3. MarkerInv /\ OverflowInv
        => (pc = "done" /\ nbWords = InitialStackSize => lost = heap.stale)
  BY LayoutAssumption DEF OverflowInv, MarkerInv, PhaseInv
<1> QED
  BY <1>1, <1>2, <1>3, InitInv, NextInv, MarkerRefinement, TracingIsExact, PTL
     DEF Spec, ImplementsTracing

-----------------------------------------------------------------------------
\* A block or chunk of a walk is passed, or something marked and not lost is pushed.
LEMMA ScanPushes ==
    ASSUME MarkerInv, ScanStep
    PROVE  \/ UNCHANGED stack /\ currentOverflowAddress' # currentOverflowAddress
           \/ \E found \in SUBSET (marked \ lost) : PushFirst(found)
<1>1. currentOverflowAddress \in Nat /\ NumBlocks \in Nat /\ LargeHeapStart = NumBlocks + 1
  BY LayoutAssumption DEF MarkerInv, TypeOK, LargeHeapStart
<1>2. CASE ScanBlock
  <2>1. FoundInBlock(currentOverflowAddress) \subseteq marked \ lost
    BY DEF FoundInBlock, Overflowed, Beyond, MarkerInv, TypeOK
  <2> QED
    BY <1>1, <1>2, <2>1 DEF ScanBlock
<1>3. CASE ScanChunk
  <2>1. FoundInChunk(currentOverflowAddress) \subseteq marked \ lost
    BY <1>1, <1>3, AddressFacts DEF ScanChunk, FoundInChunk, Overflowed, Beyond, MarkerInv, TypeOK
  <2> QED
    BY <1>1, <1>3, <2>1 DEF ScanChunk, WalkChunk
<1> QED
  BY <1>2, <1>3 DEF ScanStep

\* A walk pushes onto an empty stack, and only an empty stack is replaced.
\* (overflowMark; Stack_DoubleSize.)
THEOREM WalkPushesAndDoublesSafely == Spec => WalkOwnsStack
<1>1. ASSUME MarkerInv, [Next]_vars
      PROVE  [ /\ pc = "scan" /\ pc' = "mark" /\ currentOverflowAddress' = currentOverflowAddress
                    => Len(stack') = 1
               /\ nbWords' # nbWords => stack = <<>> ]_vars
  <2>1. CASE Visit \/ RootsDone \/ Pop
    BY <1>1, <2>1 DEF Visit, RootsDone, Pop, MarkerInv, PhaseInv
  <2>2. CASE CheckForOverflow
    BY <2>2 DEF CheckForOverflow
  <2>3. CASE ScanStep
    <3>1. nbWords' = nbWords /\ pc = "scan"
      BY <2>3 DEF ScanStep
    <3>2. CASE UNCHANGED stack /\ currentOverflowAddress' # currentOverflowAddress
      BY <3>1, <3>2
    <3>3. CASE \E found \in SUBSET (marked \ lost) : PushFirst(found)
      BY <1>1, <3>1, <3>3, HitStep
    <3> QED
      BY <1>1, <2>3, <3>2, <3>3, ScanPushes
  <2>4. CASE EndWalk
    BY <2>4 DEF EndWalk
  <2>5. CASE UNCHANGED vars
    BY <2>5
  <2> QED
    BY <1>1, <2>1, <2>2, <2>3, <2>4, <2>5 DEF Next
<1> QED
  BY <1>1, InitInv, NextInv, PTL DEF Spec, WalkOwnsStack

\* A word of the stack costs a marked object, which is what makes
\* GrowthJustified inductive.
GrowthInv == Len(stack) <= Cardinality(marked \ heap.stale) /\ GrowthJustified

LEMMA MarkedIsFinite ==
    ASSUME TypeOK
    PROVE  IsFiniteSet(marked \ heap.stale) /\ Cardinality(marked \ heap.stale) \in Nat
BY LayoutAssumption, FS_Subset, FS_CardinalityType DEF TypeOK

\* The mark stack is doubled only for more live objects than it holds.
\* (Stack_Push, Stack_DoubleSize.)
THEOREM GrowthIsJustified == Spec => []GrowthJustified
<1>1. Init => GrowthInv
  <2> SUFFICES ASSUME Init PROVE GrowthInv
    OBVIOUS
  <2>1. marked \ heap.stale = {} /\ stack = <<>> /\ nbWords = InitialStackSize /\ ~overflow
    BY DEF Init
  <2>2. Cardinality(marked \ heap.stale) = 0 /\ Len(stack) = 0
    BY <2>1, FS_EmptySet
  <2>3. InitialStackSize \in Nat
    BY LayoutAssumption
  <2> QED
    BY <2>1, <2>2, <2>3 DEF GrowthInv, GrowthJustified
<1>2. ASSUME MarkerInv, GrowthInv, [Next]_vars PROVE GrowthInv'
  <2>1. /\ TypeOK /\ Len(stack) \in Nat /\ nbWords \in Nat \ {0}
        /\ Cardinality(marked \ heap.stale) \in Nat /\ IsFiniteSet(marked \ heap.stale)
        /\ InitialStackSize \in Nat
    BY <1>2, MarkedIsFinite, LayoutAssumption DEF MarkerInv, TypeOK
  <2>2. CASE Visit
    <3> PICK o \in pending :
            /\ IF o \in marked
                 THEN UNCHANGED <<marked, blockMarked, lineMarked, stack, overflow, lost>>
                 ELSE MarkObject(o)
            /\ UNCHANGED <<heap, nbWords>>
      BY <2>2 DEF Visit
    <3>1. CASE o \in marked
      BY <1>2, <3>1 DEF GrowthInv, GrowthJustified
    <3>2. CASE o \notin marked
      <4>1. o \in Objects /\ MarkObject(o)
        BY <2>1, <3>2 DEF TypeOK
      <4>2. Cardinality((marked \ heap.stale)') = Cardinality(marked \ heap.stale) + 1
        <5>1. (marked \ heap.stale)' = (marked \ heap.stale) \union {o}
          BY <1>2, <3>2, <4>1 DEF MarkObject, ObjectMark, MarkerInv, PhaseInv
        <5>2. o \notin marked \ heap.stale
          BY <3>2
        <5> HIDE <4>1
        <5> QED
          BY <2>1, <5>1, <5>2, FS_AddElement
      <4>3. CASE overflow
        BY <1>2, <2>1, <4>1, <4>2, <4>3 DEF MarkObject, GrowthInv, GrowthJustified
      <4>4. CASE ~overflow
        <5>1. stack' = Pushed(o) /\ overflow' = StackFull
          BY <4>1, <4>4 DEF MarkObject
        <5>2. Len(stack') = IF StackFull THEN Len(stack) ELSE Len(stack) + 1
          BY <2>1, <4>1, <5>1, PushFacts
        <5>3. Len(stack') <= Cardinality((marked \ heap.stale)')
          BY <1>2, <2>1, <4>2, <5>2 DEF GrowthInv
        <5>4. overflow' => nbWords' < Cardinality((marked \ heap.stale)')
          <6>1. overflow' => Len(stack) >= nbWords
            BY <5>1 DEF StackFull
          <6>2. nbWords' = nbWords
            OBVIOUS
          <6> QED
            BY <1>2, <2>1, <4>2, <6>1, <6>2 DEF GrowthInv
        <5>5. nbWords' > InitialStackSize => nbWords' < 2 * Cardinality((marked \ heap.stale)')
          BY <1>2, <2>1, <4>2 DEF GrowthInv, GrowthJustified
        <5> QED
          BY <5>3, <5>4, <5>5 DEF GrowthInv, GrowthJustified
      <4> QED
        BY <4>3, <4>4
    <3> QED
      BY <3>1, <3>2
  <2>3. CASE Pop
    <3>1. Len(stack') = Len(stack) - 1
      BY <2>1, <2>3, PopFacts DEF Pop
    <3> QED
      BY <1>2, <2>1, <2>3, <3>1 DEF Pop, GrowthInv, GrowthJustified
  <2>4. CASE CheckForOverflow
    BY <1>2, <2>1, <2>4 DEF CheckForOverflow, HandleOverflow, BeginWalk, GrowthInv, GrowthJustified
  <2>5. CASE ScanStep
    <3>1. UNCHANGED <<heap, marked, nbWords, overflow>> /\ pc = "scan"
      BY <2>5 DEF ScanStep
    <3>2. CASE stack' = stack
      BY <1>2, <3>1, <3>2 DEF GrowthInv, GrowthJustified
    <3>3. ASSUME NEW found, found \subseteq marked \ lost, PushFirst(found)
          PROVE  Len(stack') <= Cardinality(marked \ heap.stale)
      <4>1. Len(stack') = 1
        BY <1>2, <3>1, <3>3, HitStep
      <4>2. marked \ heap.stale # {}
        BY <1>2, <3>3 DEF PushFirst, MarkerInv, PhaseInv
      <4> QED
        BY <2>1, <4>1, <4>2, FS_EmptySet
    <3> QED
      BY <1>2, <2>5, <3>1, <3>2, <3>3, ScanPushes DEF GrowthInv, GrowthJustified
  <2>6. CASE RootsDone \/ EndWalk \/ UNCHANGED vars
    BY <1>2, <2>6 DEF RootsDone, EndWalk, vars, GrowthInv, GrowthJustified
  <2> QED
    BY <1>2, <2>2, <2>3, <2>4, <2>5, <2>6 DEF Next
<1>3. GrowthInv => GrowthJustified
  BY DEF GrowthInv
<1> QED
  BY <1>1, <1>2, <1>3, InitInv, NextInv, PTL DEF Spec
=============================================================================
