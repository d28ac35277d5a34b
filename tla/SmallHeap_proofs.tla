-------------------------- MODULE SmallHeap_proofs --------------------------
(* The invariants of SmallHeap, for every number of blocks, every geometry   *)
(* of lines, every reach of the walk over a line's objects and every set of  *)
(* object sizes.  What hangs on that walk is proved up to the first live     *)
(* object that a marker passes over for a mark the walk has left.            *)
EXTENDS SmallHeap, RecursionFacts, FiniteSetTheorems

\* The free blocks, and those behind the end of the heap, which will be free.
Fresh == free \union heapEnd .. NumBlocks - 1

\* Words that no live object touches, in lines where no object starts and that
\* no object of another thread covers.
Blank(b, from, to) ==
    /\ \A o \in live : o.block = b => o.start + o.size <= from \/ to <= o.start
    /\ \A l \in Lines : <<b, l>> \in theirs =>
          LineStart(l + 1) <= from \/ to <= LineStart(l)
    /\ \A l \in Lines : from <= LineStart(l) /\ LineStart(l) < to => lineHeader[b][l] = EMPTY

NextOf(H, l) ==
    LET later == {k \in H : k > l} IN IF later = {} THEN LAST_HOLE ELSE Min(later)

\* H are the lines in which the holes begin that block b has left: each leads
\* to the next, and none reaches into it.
HoleEnd(b, l) == l + HoleIn(b, l)[3]

Holes(b, H) ==
    /\ H \subseteq Lines
    /\ first[b] = IF H = {} THEN LAST_HOLE ELSE Min(H)
    /\ \A l \in H :
          /\ HoleIn(b, l)[2] = NextOf(H, l)
          /\ l < HoleEnd(b, l) /\ HoleEnd(b, l) \in 1 .. LINE_COUNT
          /\ \A k \in H : l < k => HoleEnd(b, l) <= k

BlankHoles(b, H) == \A l \in H : Blank(b, LineStart(l), LineStart(HoleEnd(b, l)))

\* What the sweep lists is what its header says, a recycled block has a hole, no
\* listed block is another thread's, and nothing lives behind the heap's end.
Pool ==
    /\ Fresh \intersect recycled = {} /\ (Fresh \union recycled) \intersect taken = {}
    /\ \A b \in Fresh : flags[b] = "free"
    /\ \A b \in recycled :
          flags[b] = "recyclable" /\ \E H \in SUBSET Lines : H # {} /\ Holes(b, H)
    /\ \A o \in live : o.block < heapEnd

\* H are holes that lie behind the limit of the normal cursor.
Behind(H) == \A l \in H : limit[2] <= LineStart(l)

\* No cursor is in a block that is listed or another thread's, or in the block of
\* the other cursor.  The normal cursor moves up to a line of its own block, and
\* the holes that this block has left lie behind.
Cursors ==
    /\ largeCursor # NULL => largeCursor[1] \notin Fresh \union recycled \union taken
    /\ cursor # NULL =>
          /\ limit # NULL
          /\ cursor[1] \notin Fresh \union recycled \union taken
          /\ largeCursor # NULL => cursor[1] # largeCursor[1]
          /\ cursor[2] <= limit[2]
          /\ \E e \in 0 .. LINE_COUNT : limit[2] = LineStart(e)
          /\ flags[cursor[1]] # "free" =>
                /\ flags[cursor[1]] = "recyclable"
                /\ \E H \in SUBSET Lines : Holes(cursor[1], H) /\ Behind(H)

\* What an allocation under way has been through.  If the last visit had blocks
\* for everyone, the cursors were not primed from NULL, and a retry finds room.
\* The normal cursor is NULL with a limit only from the failure of an allocation
\* to the priming of the cursors.
Finds == Fits(request) \/ (request > SLOTS_IN_LINE /\ LargeFits(request))
Enough ==
    Cardinality(free) >= unprimed /\ Cardinality(free \union recycled) >= 2 * unprimed

Control ==
    /\ pc \in {"grow", "crashed"} => short
    /\ Primed /\ ~short => limit # NULL /\ largeCursor # NULL
    /\ pc = "idle" => request = 0 /\ retried = FALSE
    /\ pc \in {"alloc", "collect"} => request # 0
    /\ pc = "collect" => retried = FALSE
    /\ pc \in {"recycled", "visit", "primed"} => retried = (request # 0)
    /\ pc \in {"alloc", "primed"} /\ retried /\ ~short => Finds
    /\ pc = "visit" => unprimed >= 1 /\ (~short => Enough)
    /\ cursor = NULL /\ limit # NULL => pc \notin {"idle", "alloc", "primed"}

\* What holds however far the walk over the objects of a line goes.
Shape == TypeOK /\ Pool /\ Control /\ (Primed => Cursors)

\* What is on offer is blank.
BlankPool ==
    /\ \A b \in Fresh : Blank(b, 0, BlockSlots)
    /\ \A b \in recycled : \E H \in SUBSET Lines : H # {} /\ Holes(b, H) /\ BlankHoles(b, H)

BlankCursors ==
    /\ largeCursor # NULL => Blank(largeCursor[1], largeCursor[2], BlockSlots)
    /\ cursor # NULL =>
          /\ Blank(cursor[1], cursor[2], limit[2])
          /\ flags[cursor[1]] # "free" =>
                \E H \in SUBSET Lines :
                    Holes(cursor[1], H) /\ Behind(H) /\ BlankHoles(cursor[1], H)

\* Where the next object may be put behind others.
Open ==
    IF Primed
      THEN {c \in {cursor} \ {NULL} : c[2] < limit[2]}
             \union {c \in {largeCursor} \ {NULL} : c[2] < BlockSlots}
      ELSE {}

End(b, s) == s + mem[b][s][2]

\* P are the objects that a walk of line l meets: one behind the other from
\* the first one the line header knows, up to the end of the line, to a zero
\* word or to a cursor in the line.  Live ones that start in the line are
\* among them.
Walked(b, l, P, open) ==
    /\ LineStart(l) + lineHeader[b][l] \in P
    /\ \A s \in P :
          /\ IsObj(mem[b][s]) /\ End(b, s) <= BlockSlots
          /\ s # LineStart(l) + lineHeader[b][l] => \E r \in P : End(b, r) = s
          /\ End(b, s) \in P \/ End(b, s) >= LineStart(l + 1) \/ mem[b][End(b, s)] = Zero
    /\ \A o \in live : o.block = b /\ LineOf(o.start) = l => o.start \in P
    /\ \A c \in open : c[1] = b /\ LineOf(c[2]) = l =>
          (\A s \in P : End(b, s) <= c[2]) /\ (\E s \in P : End(b, s) = c[2])

LineSlots(l) == LineStart(l) .. LineStart(l + 1) - 1

Headers(open) ==
    /\ \A o \in live : lineHeader[o.block][LineOf(o.start)] # EMPTY
    /\ \A b \in Blocks, l \in Lines : lineHeader[b][l] # EMPTY =>
          \E P \in SUBSET LineSlots(l) : Walked(b, l, P, open)

\* What else holds until a live object is passed over.
Contents ==
    /\ ~overwritten
    /\ \A x \in objectMarks : ~InReach(x[2])
    /\ Headers(Open)
    /\ BlankPool
    /\ Primed => BlankCursors

IInv == Shape /\ (passedOver \/ Contents)

-----------------------------------------------------------------------------
(* Lines and words.                                                          *)

LEMMA Geometry ==
    /\ SLOTS_IN_LINE \in Nat /\ SLOTS_IN_LINE >= 1
    /\ LINE_COUNT \in Nat /\ LINE_COUNT >= 1
    /\ BlockSlots \in Nat /\ BlockSlots >= 1
    /\ LineStart(0) = 0 /\ LineStart(LINE_COUNT) = BlockSlots
<1>1. SLOTS_IN_LINE \in Nat \ {0} /\ LINE_COUNT \in Nat \ {0}
  BY SizesAssumption
<1>2. \A m, n \in Nat \ {0} : m * n \in Nat /\ m * n >= 1
  OBVIOUS
<1>3. BlockSlots \in Nat /\ BlockSlots >= 1
  BY <1>1, <1>2 DEF BlockSlots
<1> QED
  BY <1>1, <1>3 DEF LineStart, BlockSlots

LEMMA LineStarts ==
    \A l \in Nat :
        /\ LineStart(l) \in Nat
        /\ LineStart(l + 1) = LineStart(l) + SLOTS_IN_LINE
        /\ LineStart(l) < LineStart(l + 1)
  BY Geometry DEF LineStart

LEMMA LinesInOrder ==
    ASSUME NEW l \in Nat, NEW k \in Nat, l < k
    PROVE  LineStart(l + 1) <= LineStart(k) /\ LineStart(l) < LineStart(k)
<1>1. PICK d \in Nat : k = l + 1 + d
  <2>1. k - l - 1 \in Nat /\ k = l + 1 + (k - l - 1)
    OBVIOUS
  <2> QED
    BY <2>1
<1>2. d * SLOTS_IN_LINE \in Nat
  BY Geometry
<1>3. k * SLOTS_IN_LINE = (l + 1) * SLOTS_IN_LINE + d * SLOTS_IN_LINE
  BY <1>1, Geometry
<1> QED
  BY <1>2, <1>3, LineStarts, Geometry DEF LineStart

LEMMA LinesOrdered ==
    ASSUME NEW l \in Nat, NEW k \in Nat
    PROVE  /\ l <= k <=> LineStart(l) <= LineStart(k)
           /\ l < k <=> LineStart(l) < LineStart(k)
           /\ l < k <=> LineStart(l + 1) <= LineStart(k)
<1>1. LineStart(l) \in Nat /\ LineStart(k) \in Nat /\ LineStart(l + 1) \in Nat
      /\ LineStart(l) < LineStart(l + 1)
  BY LineStarts
<1>2. CASE l < k
  <2>1. LineStart(l + 1) <= LineStart(k)
    BY <1>2, LinesInOrder
  <2> QED
    BY <1>1, <1>2, <2>1
<1>3. CASE k < l
  <2>1. LineStart(k) < LineStart(l)
    BY <1>3, LinesInOrder
  <2> QED
    BY <1>1, <1>3, <2>1
<1>4. CASE l = k
  BY <1>1, <1>4
<1> QED
  BY <1>2, <1>3, <1>4

LEMMA LineOfBounds ==
    ASSUME NEW s \in Nat
    PROVE  /\ LineOf(s) \in Nat
           /\ LineStart(LineOf(s)) <= s /\ s < LineStart(LineOf(s) + 1)
           /\ s % SLOTS_IN_LINE = s - LineStart(LineOf(s))
<1>1. \A n \in Nat \ {0} : s \div n \in Nat /\ s = (n * (s \div n)) + (s % n)
                              /\ s % n \in 0 .. n - 1
  OBVIOUS
<1> QED
  BY <1>1, Geometry, LineStarts DEF LineOf, LineStart

LEMMA LineOfIs ==
    ASSUME NEW s \in Nat, NEW l \in Nat
    PROVE  LineOf(s) = l <=> LineStart(l) <= s /\ s < LineStart(l + 1)
<1> DEFINE m == LineOf(s)
<1>1. m \in Nat /\ LineStart(m) <= s /\ s < LineStart(m + 1) /\ LineStart(m) \in Nat
      /\ LineStart(l) \in Nat /\ LineStart(l + 1) \in Nat /\ LineStart(m + 1) \in Nat
  BY LineOfBounds, LineStarts
<1> HIDE DEF m
<1>2. CASE m < l
  <2>1. LineStart(m + 1) <= LineStart(l)
    BY <1>1, <1>2, LinesInOrder
  <2> QED
    BY <1>1, <1>2, <2>1 DEF m
<1>3. CASE l < m
  <2>1. LineStart(l + 1) <= LineStart(m)
    BY <1>1, <1>3, LinesInOrder
  <2> QED
    BY <1>1, <1>3, <2>1 DEF m
<1>4. CASE l = m
  BY <1>1, <1>4 DEF m
<1> QED
  BY <1>1, <1>2, <1>3, <1>4

LEMMA LineOfInLines ==
    ASSUME NEW s \in 0 .. BlockSlots - 1
    PROVE  LineOf(s) \in Lines
<1> DEFINE m == LineOf(s)
<1>1. s \in Nat /\ s < BlockSlots
  BY Geometry
<1>2. m \in Nat /\ LineStart(m) <= s /\ LineStart(m) \in Nat
  BY <1>1, LineOfBounds, LineStarts
<1> HIDE DEF m
<1>3. LineStart(m) < LineStart(LINE_COUNT)
  BY <1>1, <1>2, Geometry
<1>4. m < LINE_COUNT
  BY <1>2, <1>3, LinesOrdered, Geometry
<1> QED
  BY <1>2, <1>4, Geometry DEF Lines, m

LEMMA LineSlotsInBlock ==
    ASSUME NEW l \in Lines
    PROVE  /\ l \in Nat /\ LineStart(l) \in 0 .. BlockSlots - 1
           /\ LineStart(l + 1) <= BlockSlots
<1>1. l \in Nat /\ l < LINE_COUNT
  BY Geometry DEF Lines
<1> QED
  BY <1>1, LinesInOrder, LineStarts, Geometry

LEMMA LinesFacts ==
    /\ \A l : l \in Lines <=> l \in Nat /\ l < LINE_COUNT
    /\ Lines \in SUBSET Nat /\ Lines \in SUBSET (0 .. LINE_COUNT) /\ LAST_HOLE \notin Lines
    /\ 0 \in Lines /\ LAST_HOLE < 0
<1>1. \A l : l \in Lines <=> l \in Nat /\ l < LINE_COUNT
  BY Geometry DEF Lines
<1> QED
  BY <1>1, Geometry DEF LAST_HOLE

LEMMA WordFacts ==
    /\ \A n : IsObj(Obj(n)) /\ ~IsHole(Obj(n)) /\ Obj(n)[2] = n /\ Obj(n) # Zero
    /\ \A n, k : IsHole(Hole(n, k)) /\ ~IsObj(Hole(n, k))
                   /\ Hole(n, k)[2] = n /\ Hole(n, k)[3] = k /\ Hole(n, k) # Zero
    /\ ~IsObj(Zero) /\ ~IsHole(Zero) /\ ~IsObj(Data) /\ ~IsHole(Data)
  BY DEF IsObj, IsHole, Obj, Hole, Zero, Data

LEMMA ObjWord ==
    ASSUME NEW w \in Words, IsObj(w)
    PROVE  w[2] \in Sizes /\ w[2] \in Nat /\ 1 <= w[2] /\ w[2] <= BlockSlots /\ w = Obj(w[2])
<1>1. w[2] \in Sizes /\ w = Obj(w[2])
  BY DEF Words, IsObj, Obj, Hole, Zero, Data
<1>2. \A n \in Sizes : n \in Nat /\ 1 <= n /\ n <= BlockSlots
  BY SizesAssumption, Geometry
<1> QED
  BY <1>1, <1>2

-----------------------------------------------------------------------------
(* The walk over the objects of a line.                                      *)

LEMMA WalkEquation ==
    ASSUME NEW words \in [0 .. BlockSlots - 1 -> Words], NEW end \in 0 .. BlockSlots
    PROVE  \A s \in 0 .. BlockSlots :
             WalkFrom(words, s, end) =
                 IF s >= end \/ words[s] = Zero THEN {}
                 ELSE IF ~IsObj(words[s]) \/ s + words[s][2] > BlockSlots THEN {s}
                 ELSE {s} \union WalkFrom(words, s + words[s][2], end)
<1> DEFINE D == 0 .. BlockSlots
           Nil(s) == s >= end \/ words[s] = Zero
           Bad(s) == ~IsObj(words[s]) \/ s + words[s][2] > BlockSlots
           stop == {s \in D : Nil(s) \/ Bad(s)}
           base == [s \in D |-> IF Nil(s) THEN {} ELSE {s}]
           item == [s \in D |-> s]
           next == [s \in D |-> s + words[s][2]]
           Body(f) == [s \in D |-> IF Nil(s) THEN {}
                                   ELSE IF Bad(s) THEN {s} ELSE {s} \union f[s + words[s][2]]]
           walk == CHOOSE f : f = Body(f)
<1>1. ASSUME NEW s \in D, s \notin stop PROVE next[s] \in D
  <2>1. ~Nil(s) /\ ~Bad(s) /\ s \in 0 .. BlockSlots - 1
    BY <1>1, Geometry
  <2>2. words[s] \in Words /\ IsObj(words[s]) /\ ~(s + words[s][2] > BlockSlots)
    BY <2>1
  <2>3. words[s][2] \in Nat
    BY <2>2, ObjWord
  <2> QED
    BY <2>1, <2>2, <2>3, Geometry
<1> DEFINE f == Followed(D, stop, base, item, next)
<1>2. Follows(f, D, stop, base, item, next)
  <2> HIDE DEF D, stop, base, item, next
  <2> QED
    BY <1>1, FollowedDefined
<1> HIDE DEF f
<1>3. f = Body(f)
  <2>1. ASSUME NEW s \in D
        PROVE  (IF s \in stop THEN base[s] ELSE {item[s]} \union f[next[s]])
                 = IF Nil(s) THEN {}
                   ELSE IF Bad(s) THEN {s} ELSE {s} \union f[s + words[s][2]]
    <3> HIDE DEF Nil, Bad, D
    <3> QED
      BY <2>1
  <2> HIDE DEF D, stop, base, item, next, Nil, Bad
  <2> QED
    BY <1>2, <2>1 DEF Follows
<1>4. walk = Body(walk)
  <2> HIDE DEF Body
  <2> QED
    BY <1>3
<1>5. \A s : WalkFrom(words, s, end) = walk[s]
  BY DEF WalkFrom
<1> HIDE DEF walk
<1>6. ASSUME NEW s \in D
      PROVE  WalkFrom(words, s, end) =
                 IF Nil(s) THEN {}
                 ELSE IF Bad(s) THEN {s}
                 ELSE {s} \union WalkFrom(words, s + words[s][2], end)
  <2>1. walk[s] = IF Nil(s) THEN {}
                  ELSE IF Bad(s) THEN {s} ELSE {s} \union walk[s + words[s][2]]
    <3> HIDE DEF Nil, Bad
    <3> QED
      BY <1>4
  <2>2. WalkFrom(words, s, end) = walk[s]
        /\ WalkFrom(words, s + words[s][2], end) = walk[s + words[s][2]]
    BY <1>5
  <2> HIDE DEF Nil, Bad
  <2> QED
    BY <2>1, <2>2
<1> QED
  BY <1>6

\* Of what Walked describes the walk meets what is in its reach.
LEMMA WalkMeets ==
    ASSUME TypeOK, NEW b \in Blocks, NEW l \in Lines,
           lineHeader[b][l] # EMPTY,
           NEW P \in SUBSET LineSlots(l), NEW open, Walked(b, l, P, open)
    PROVE  WalkLine(b, l) = {s \in P : s < LineStart(l) + WalkSlots}
<1> DEFINE end == LineStart(l) + WalkSlots
           start == LineStart(l) + lineHeader[b][l]
           W(s) == WalkFrom(mem[b], s, end)
           Met == {s \in P : s < end}
<1>1. mem[b] \in [0 .. BlockSlots - 1 -> Words]
  BY DEF TypeOK
<1>2. end \in 0 .. BlockSlots /\ l \in Nat /\ LineStart(l) \in Nat
      /\ end <= LineStart(l + 1) /\ LineStart(l + 1) \in 0 .. BlockSlots
  <2>1. WalkSlots \in Nat /\ WalkSlots <= SLOTS_IN_LINE
    BY SizesAssumption, Geometry
  <2>2. /\ l \in Nat /\ LineStart(l) \in Nat /\ LineStart(l + 1) \in Nat
        /\ LineStart(l + 1) <= BlockSlots /\ LineStart(l + 1) = LineStart(l) + SLOTS_IN_LINE
    BY LineSlotsInBlock, LineStarts, Geometry
  <2> QED
    BY <2>1, <2>2, Geometry
<1>3. P \in SUBSET (0 .. BlockSlots - 1) /\ P \in SUBSET Nat
  BY <1>2, Geometry DEF LineSlots
<1>4. start \in P /\ start \in Nat
  BY <1>3 DEF Walked
<1>5. ASSUME NEW s \in P
      PROVE  /\ End(b, s) \in 0 .. BlockSlots /\ s < End(b, s)
             /\ W(s) = IF s < end THEN {s} \union W(End(b, s)) ELSE {}
             /\ End(b, s) \notin P => W(End(b, s)) = {}
  <2>1. s \in 0 .. BlockSlots - 1
    BY <1>3
  <2>2. mem[b][s] \in Words /\ IsObj(mem[b][s]) /\ mem[b][s] # Zero
    BY <1>1, <2>1, WordFacts DEF Walked
  <2>3. mem[b][s][2] \in Nat /\ 1 <= mem[b][s][2]
    BY <2>2, ObjWord
  <2>4. s + mem[b][s][2] <= BlockSlots
    BY DEF Walked, End
  <2>5. End(b, s) \in 0 .. BlockSlots /\ s < End(b, s)
    BY <2>1, <2>3, <2>4, Geometry DEF End
  <2>6. W(s) = IF s < end THEN {s} \union W(End(b, s)) ELSE {}
    <3>1. W(s) = IF s >= end \/ mem[b][s] = Zero THEN {}
                 ELSE IF ~IsObj(mem[b][s]) \/ s + mem[b][s][2] > BlockSlots THEN {s}
                 ELSE {s} \union W(s + mem[b][s][2])
      <4> HIDE DEF end
      <4>1. \A x \in 0 .. BlockSlots :
              W(x) = IF x >= end \/ mem[b][x] = Zero THEN {}
                     ELSE IF ~IsObj(mem[b][x]) \/ x + mem[b][x][2] > BlockSlots THEN {x}
                     ELSE {x} \union W(x + mem[b][x][2])
        BY <1>1, <1>2, WalkEquation
      <4> HIDE DEF W
      <4> QED
        BY <2>1, <4>1, Geometry
    <3>2. (s >= end <=> ~(s < end)) /\ ~(s + mem[b][s][2] > BlockSlots)
      BY <2>1, <2>3, <2>4, <1>2, Geometry
    <3> HIDE DEF W
    <3> QED
      BY <2>2, <3>1, <3>2 DEF End
  <2>7. ASSUME End(b, s) \notin P PROVE W(End(b, s)) = {}
    <3>1. End(b, s) >= end \/ mem[b][End(b, s)] = Zero
      <4>1. End(b, s) >= LineStart(l + 1) \/ mem[b][End(b, s)] = Zero
        BY <2>7 DEF Walked
      <4> HIDE DEF end
      <4> QED
        BY <1>2, <2>5, <4>1
    <3> QED
      BY <1>1, <1>2, <2>5, <3>1, WalkEquation
  <2> QED
    BY <2>5, <2>6, <2>7
<1>6. WalkLine(b, l) = W(start)
  BY <1>2 DEF WalkLine
<1> HIDE DEF W, start, end
<1>7. \A s \in P : W(s) \subseteq Met
  <2> DEFINE Bad == {s \in P : ~(W(s) \subseteq Met)}
  <2> SUFFICES ASSUME Bad # {} PROVE FALSE
    OBVIOUS
  <2>1. Bad \in SUBSET (0 .. BlockSlots) /\ BlockSlots \in Nat
    <3>1. Bad \in SUBSET P /\ \A s \in 0 .. BlockSlots - 1 : s \in 0 .. BlockSlots
      BY Geometry
    <3> HIDE DEF Bad
    <3> QED
      BY <1>3, <3>1, Geometry
  <2>2. PICK s \in Bad : \A r \in Bad : s >= r
    <3> HIDE DEF Bad
    <3> QED
      BY <2>1, GreatestNatural
  <2>3. End(b, s) \notin Bad
    BY <1>5, <2>1, <2>2
  <2>4. W(End(b, s)) \subseteq Met
    BY <1>5, <2>3
  <2> QED
    BY <1>5, <2>2, <2>4
<1>8. \A s \in Met : W(s) \subseteq W(start) /\ s \in W(start)
  <2> DEFINE Bad == {s \in Met : ~(W(s) \subseteq W(start) /\ s \in W(start))}
  <2> SUFFICES ASSUME Bad # {} PROVE FALSE
    OBVIOUS
  <2>1. Bad \in SUBSET Nat
    BY <1>3
  <2>2. PICK s \in Bad : \A r \in Bad : s <= r
    <3> HIDE DEF Bad
    <3> QED
      BY <2>1, LeastNatural
  <2>3. s # start
    BY <1>4, <1>5, <2>2
  <2>4. PICK r \in P : End(b, r) = s
    BY <2>2, <2>3 DEF Walked, start
  <2>5. r \notin Bad /\ r \in Met
    <3>1. r \in Nat /\ s \in Nat /\ end \in Nat /\ r < s /\ s < end
      BY <1>2, <1>3, <1>5, <2>2, <2>4, Geometry
    <3> QED
      BY <2>2, <2>4, <3>1
  <2>6. W(s) \subseteq W(start) /\ s \in W(s)
    BY <1>5, <2>2, <2>4, <2>5
  <2> QED
    BY <2>2, <2>6
<1>9. \A s \in Met : s \in W(start)
  BY <1>8
<1> QED
  BY <1>4, <1>6, <1>7, <1>9 DEF end

-----------------------------------------------------------------------------
(* The list of holes that is written into the holes.                         *)

LEMMA HoleWord ==
    ASSUME TypeOK, NEW b \in Blocks, NEW l \in Lines
    PROVE  /\ HoleIn(b, l)[2] \in Lines \union {LAST_HOLE}
           /\ HoleIn(b, l)[3] \in 0 .. LINE_COUNT
           /\ \A n, k : mem[b][LineStart(l)] = Hole(n, k) => HoleIn(b, l) = Hole(n, k)
<1>1. mem[b][LineStart(l)] \in Words
  BY LineSlotsInBlock DEF TypeOK
<1>2. IsHole(mem[b][LineStart(l)]) =>
        /\ mem[b][LineStart(l)][2] \in Lines \union {LAST_HOLE}
        /\ mem[b][LineStart(l)][3] \in 0 .. LINE_COUNT
  BY <1>1, Geometry DEF Words, IsHole, Hole, Obj, Zero, Data
<1>3. 0 \in 0 .. LINE_COUNT
  BY Geometry
<1> QED
  BY <1>2, <1>3, WordFacts DEF HoleIn

LEMMA NextOfFacts ==
    ASSUME NEW H \in SUBSET Lines, NEW l \in Lines
    PROVE  \/ NextOf(H, l) = LAST_HOLE /\ \A k \in H : k <= l
           \/ /\ NextOf(H, l) \in H /\ l < NextOf(H, l)
              /\ \A k \in H : l < k => NextOf(H, l) <= k
<1> DEFINE later == {k \in H : k > l}
<1>1. Lines \in SUBSET Nat /\ later \in SUBSET Nat
  BY LinesFacts
<1>2. CASE later = {}
  BY <1>1, <1>2 DEF NextOf
<1>3. CASE later # {}
  <2>1. Min(later) \in later /\ \A k \in later : Min(later) <= k
    BY <1>1, <1>3, MinFacts
  <2> QED
    BY <1>3, <2>1 DEF NextOf
<1> QED
  BY <1>2, <1>3

\* HolesLeft reads that list.
LEMMA HolesLeftAre ==
    ASSUME TypeOK, NEW b \in Blocks, NEW H \in SUBSET Lines, Holes(b, H)
    PROVE  HolesLeft(b) = {<<l, HoleIn(b, l)[3]>> : l \in H}
<1> DEFINE D == Lines \union {LAST_HOLE}
           stop == {LAST_HOLE}
           base == [l \in D |-> {}]
           item == [l \in D |-> <<l, HoleIn(b, l)[3]>>]
           next == [l \in D |-> HoleIn(b, l)[2]]
           Body(f) == [l \in D |-> IF l = LAST_HOLE THEN {}
                                   ELSE {<<l, HoleIn(b, l)[3]>>} \union f[HoleIn(b, l)[2]]]
           from == CHOOSE f : f = Body(f)
           g == Followed(D, stop, base, item, next)
<1>1. ASSUME NEW l \in D, l \notin stop PROVE next[l] \in D
  BY <1>1, HoleWord
<1>2. Follows(g, D, stop, base, item, next)
  <2> HIDE DEF D, stop, base, item, next
  <2> QED
    BY <1>1, FollowedDefined
<1> HIDE DEF g
<1>3. g = Body(g)
  <2>1. ASSUME NEW l \in D
        PROVE  (IF l \in stop THEN base[l] ELSE {item[l]} \union g[next[l]])
                 = IF l = LAST_HOLE THEN {}
                   ELSE {<<l, HoleIn(b, l)[3]>>} \union g[HoleIn(b, l)[2]]
    BY <2>1
  <2> HIDE DEF D, stop, base, item, next
  <2> QED
    BY <1>2, <2>1 DEF Follows
<1>4. from = Body(from)
  <2> HIDE DEF Body
  <2> QED
    BY <1>3
<1>5. HolesLeft(b) = from[first[b]]
  BY DEF HolesLeft
<1> HIDE DEF from
<1>6. from[LAST_HOLE] = {}
      /\ \A l \in Lines : from[l] = {<<l, HoleIn(b, l)[3]>>} \union from[HoleIn(b, l)[2]]
  <2>1. \A l \in Lines : l # LAST_HOLE
    BY Geometry DEF Lines, LAST_HOLE
  <2> QED
    BY <1>4, <2>1
<1> HIDE DEF Body
<1>7. \A l \in H : HoleIn(b, l)[2] = NextOf(H, l)
  BY DEF Holes
<1> DEFINE Rest(l) == {<<k, HoleIn(b, k)[3]>> : k \in {j \in H : l <= j}}
           Bad == {l \in H : from[l] # Rest(l)}
<1>8. Bad = {}
  <2> SUFFICES ASSUME Bad # {} PROVE FALSE
    OBVIOUS
  <2>1. Lines \in SUBSET Nat /\ LINE_COUNT \in Nat /\ Bad \in SUBSET (0 .. LINE_COUNT)
        /\ H \in SUBSET Nat
    BY LinesFacts, Geometry
  <2>2. PICK l \in Bad : \A k \in Bad : l >= k
    <3> HIDE DEF Bad
    <3> QED
      BY <2>1, GreatestNatural
  <2>3. from[l] = {<<l, HoleIn(b, l)[3]>>} \union from[NextOf(H, l)]
    BY <1>6, <1>7, <2>2
  <2>4. CASE NextOf(H, l) = LAST_HOLE /\ \A k \in H : k <= l
    <3>1. \A j \in H : l <= j <=> j = l
      BY <2>1, <2>2, <2>4
    <3>2. Rest(l) = {<<l, HoleIn(b, l)[3]>>}
      BY <2>2, <3>1
    <3> QED
      BY <1>6, <2>2, <2>3, <2>4, <3>2
  <2>5. CASE /\ NextOf(H, l) \in H /\ l < NextOf(H, l)
             /\ \A k \in H : l < k => NextOf(H, l) <= k
    <3> DEFINE n == NextOf(H, l)
    <3> HIDE DEF n
    <3>1. n \in H /\ l < n /\ \A k \in H : l < k => n <= k
      BY <2>5 DEF n
    <3>2. n \notin Bad
      BY <2>1, <2>2, <3>1
    <3>3. \A j \in H : l <= j <=> j = l \/ n <= j
      BY <2>1, <2>2, <3>1
    <3>4. Rest(l) = {<<l, HoleIn(b, l)[3]>>} \union Rest(n)
      BY <2>2, <3>3
    <3> HIDE DEF Rest
    <3> QED
      BY <2>2, <2>3, <3>1, <3>2, <3>4 DEF n
  <2> QED
    BY <2>2, <2>4, <2>5, NextOfFacts
<1>9. CASE H = {}
  BY <1>5, <1>6, <1>9 DEF Holes
<1>10. CASE H # {}
  <2>1. H \in SUBSET Nat
    BY Geometry DEF Lines
  <2>2. Min(H) \in H /\ \A k \in H : Min(H) <= k
    BY <1>10, <2>1, MinFacts
  <2>3. first[b] = Min(H)
    BY <1>10 DEF Holes
  <2>4. {j \in H : Min(H) <= j} = H
    BY <2>2
  <2> QED
    BY <1>5, <1>8, <2>2, <2>3, <2>4
<1> QED
  BY <1>9, <1>10

-----------------------------------------------------------------------------
(* What becomes of blank stretches and of the holes of a block in a step.    *)

\* Objects that come into being elsewhere leave a stretch blank.
LEMMA BlankKept ==
    ASSUME NEW b, NEW from, NEW to, Blank(b, from, to),
           \A o \in live' : o \in live \/ o.block # b \/ o.start + o.size <= from \/ to <= o.start,
           \A l \in Lines : from <= LineStart(l) /\ LineStart(l) < to =>
                              lineHeader'[b][l] = lineHeader[b][l],
           theirs' = theirs
    PROVE  Blank(b, from, to)'
  BY DEF Blank, LineStart

LEMMA BlankPart ==
    ASSUME NEW b, NEW from \in Nat, NEW to \in Nat, NEW c \in Nat, from <= c, c <= to,
           TypeOK, Blank(b, from, to)
    PROVE  Blank(b, c, to)
<1>1. ASSUME NEW o \in live, o.block = b PROVE o.start + o.size <= c \/ to <= o.start
  <2>1. o.start \in Nat /\ o.size \in Nat
    <3>1. \A n \in Sizes : n \in Nat
      BY SizesAssumption, Geometry
    <3> QED
      BY <3>1, Geometry DEF TypeOK, S!Places, S!Slots
  <2> QED
    BY <1>1, <2>1 DEF Blank
<1>2. ASSUME NEW l \in Lines, c <= LineStart(l), LineStart(l) < to
      PROVE  lineHeader[b][l] = EMPTY
  <2>1. from <= LineStart(l)
    BY <1>2, LineSlotsInBlock
  <2> QED
    BY <1>2, <2>1 DEF Blank
<1>3. ASSUME NEW l \in Lines, <<b, l>> \in theirs
      PROVE  LineStart(l + 1) <= c \/ to <= LineStart(l)
  <2>1. LineStart(l + 1) <= from \/ to <= LineStart(l)
    BY <1>3 DEF Blank
  <2> QED
    BY <2>1, LineSlotsInBlock, LineStarts
<1> QED
  BY <1>1, <1>2, <1>3 DEF Blank

LEMMA HolesKept ==
    ASSUME NEW b, NEW H \in SUBSET Lines, Holes(b, H),
           first'[b] = first[b],
           \A l \in H : mem'[b][LineStart(l)] = mem[b][LineStart(l)]
    PROVE  Holes(b, H)' /\ \A l \in H : HoleEnd(b, l)' = HoleEnd(b, l)
<1>1. \A l \in H : HoleIn(b, l)' = HoleIn(b, l)
  BY DEF HoleIn, LineStart
<1>2. \A l \in H : HoleEnd(b, l)' = HoleEnd(b, l)
  BY <1>1 DEF HoleEnd
<1> QED
  BY <1>1, <1>2 DEF Holes, NextOf

\* The normal cursor takes the first hole of a block.
LEMMA TakeHoleTakes ==
    ASSUME TypeOK, NEW b \in Blocks, NEW H \in SUBSET Lines, H # {}, Holes(b, H),
           TakeHole(b), UNCHANGED mem
    PROVE  \E l \in H, e \in 1 .. LINE_COUNT :
             /\ l < e /\ e = HoleEnd(b, l)
             /\ cursor' = <<b, LineStart(l)>> /\ limit' = <<b, LineStart(e)>>
             /\ first' = [first EXCEPT ![b] = NextOf(H, l)]
             /\ NextOf(H, l) \in Lines \union {LAST_HOLE}
             /\ \E K \in SUBSET H : Holes(b, K)' /\ \A k \in K : e <= k
<1>1. H \in SUBSET Nat /\ \A k \in H : k \in Nat
  BY LinesFacts
<1>2. PICK l \in H : l = first[b] /\ \A k \in H : l <= k
  <2>1. Min(H) \in H /\ \A k \in H : Min(H) <= k
    BY <1>1, MinFacts
  <2>2. first[b] = Min(H)
    BY DEF Holes
  <2> QED
    BY <2>1, <2>2
<1>3. l \in Lines /\ l \in Nat
  BY <1>1, <1>2
<1>4. PICK e \in 1 .. LINE_COUNT : e = HoleEnd(b, l) /\ l < e /\ \A k \in H : l < k => e <= k
  BY <1>2 DEF Holes
<1>5. HoleIn(b, l)[2] = NextOf(H, l)
  BY DEF Holes
<1>6. /\ cursor' = <<b, LineStart(l)>> /\ limit' = <<b, LineStart(e)>>
      /\ first' = [first EXCEPT ![b] = NextOf(H, l)]
  BY <1>2, <1>4, <1>5 DEF TakeHole, HoleEnd
<1>7. NextOf(H, l) \in Lines \union {LAST_HOLE}
  BY <1>3, NextOfFacts
<1>8. PICK K : K = H \ {l}
  OBVIOUS
<1>9. K \in SUBSET Lines /\ K \in SUBSET H
  BY <1>1, <1>8
<1>10. \A k : k \in K <=> k \in H /\ k > l
  <2>1. ASSUME NEW k \in H PROVE k # l <=> k > l
    BY <1>1, <1>2, <1>3
  <2> QED
    BY <1>8, <2>1
<1>11. first'[b] = IF K = {} THEN LAST_HOLE ELSE Min(K)
  <2>1. first'[b] = NextOf(H, l)
    BY <1>6 DEF TypeOK
  <2>2. K = {k \in H : k > l}
    BY <1>10
  <2> QED
    BY <2>1, <2>2 DEF NextOf
<1>12. \A k \in K : NextOf(K, k) = NextOf(H, k)
  <2>1. ASSUME NEW k \in K PROVE \A j : j \in K /\ j > k <=> j \in H /\ j > k
    <3>1. ASSUME NEW j \in H, j > k PROVE j \in K
      <4>1. j \in Nat /\ k \in Nat /\ l \in Nat /\ k > l
        BY <1>1, <1>3, <1>10
      <4> QED
        BY <1>10, <3>1, <4>1
    <3> QED
      BY <1>10, <3>1
  <2>2. ASSUME NEW k \in K PROVE {j \in K : j > k} = {j \in H : j > k}
    BY <2>1
  <2> QED
    BY <2>2 DEF NextOf
<1>13. \A k \in K : HoleIn(b, k)' = HoleIn(b, k)
  BY DEF HoleIn, LineStart
<1>14. Holes(b, K)'
  <2>1. ASSUME NEW k \in K
        PROVE  /\ HoleIn(b, k)[2] = NextOf(K, k)
               /\ k < HoleEnd(b, k) /\ HoleEnd(b, k) \in 1 .. LINE_COUNT
               /\ \A j \in K : k < j => HoleEnd(b, k) <= j
    BY <1>9, <1>12 DEF Holes
  <2> QED
    BY <1>9, <1>11, <1>13, <2>1 DEF Holes, HoleEnd, NextOf
<1>15. \A k \in K : e <= k
  BY <1>1, <1>4, <1>10
<1> QED
  BY <1>4, <1>6, <1>7, <1>9, <1>14, <1>15

-----------------------------------------------------------------------------
(* The objects in a line: what a step makes of them.                         *)

LEMMA WalkedEnds ==
    ASSUME TypeOK, NEW b \in Blocks, NEW l \in Lines, NEW P \in SUBSET LineSlots(l),
           NEW open, Walked(b, l, P, open), NEW s \in P
    PROVE  /\ s \in 0 .. BlockSlots - 1 /\ LineStart(l) <= s /\ s < LineStart(l + 1)
           /\ mem[b][s] \in Words /\ IsObj(mem[b][s])
           /\ End(b, s) \in 0 .. BlockSlots /\ s < End(b, s)
<1>1. LineStart(l) \in Nat /\ LineStart(l + 1) \in Nat /\ LineStart(l + 1) <= BlockSlots
  BY LineSlotsInBlock, LineStarts, LinesFacts
<1>2. s \in 0 .. BlockSlots - 1 /\ LineStart(l) <= s /\ s < LineStart(l + 1)
  BY <1>1, Geometry DEF LineSlots
<1>3. mem[b][s] \in Words
  BY <1>2 DEF TypeOK
<1>4. IsObj(mem[b][s]) /\ End(b, s) <= BlockSlots
  BY DEF Walked
<1>5. mem[b][s][2] \in Nat /\ 1 <= mem[b][s][2]
  BY <1>3, <1>4, ObjWord
<1> QED
  BY <1>2, <1>3, <1>4, <1>5, Geometry DEF End

\* A line in which nothing is written keeps its walk.
LEMMA WalkedKept ==
    ASSUME TypeOK, NEW b \in Blocks, NEW l \in Lines, NEW P \in SUBSET LineSlots(l),
           NEW open, Walked(b, l, P, open), NEW open2,
           lineHeader'[b][l] = lineHeader[b][l],
           \A s \in LineSlots(l) : mem'[b][s] = mem[b][s],
           \A o \in live' : o \in live \/ o.block # b \/ LineOf(o.start) # l,
           \A x \in open2 : x \in open \/ x[1] # b \/ LineOf(x[2]) # l
    PROVE  Walked(b, l, P, open2)'
<1>1. \A s \in P : End(b, s)' = End(b, s) /\ mem'[b][s] = mem[b][s]
  BY DEF End
<1>2. ASSUME NEW s \in P, End(b, s) \notin P
      PROVE  End(b, s) >= LineStart(l + 1) \/ mem'[b][End(b, s)] = Zero
  <2>1. End(b, s) >= LineStart(l + 1) \/ mem[b][End(b, s)] = Zero
    BY <1>2 DEF Walked
  <2>2. CASE End(b, s) < LineStart(l + 1)
    <3>1. LineStart(l) \in Nat /\ LineStart(l + 1) \in Nat /\ s \in Nat
          /\ LineStart(l) <= s /\ End(b, s) \in Nat /\ s < End(b, s)
      BY WalkedEnds, LineStarts, LinesFacts, Geometry
    <3>2. End(b, s) \in LineSlots(l)
      BY <2>2, <3>1 DEF LineSlots
    <3> QED
      BY <2>1, <2>2, <3>1, <3>2
  <2>3. CASE ~(End(b, s) < LineStart(l + 1))
    <3>1. LineStart(l + 1) \in Nat /\ End(b, s) \in Nat
      BY WalkedEnds, LineStarts, LinesFacts, Geometry
    <3> QED
      BY <2>3, <3>1
  <2> QED
    BY <2>2, <2>3
<1> DEFINE start == LineStart(l) + lineHeader[b][l]
<1>3. start \in P
  BY DEF Walked
<1>4. \A s \in P : /\ IsObj(mem[b][s]) /\ End(b, s) <= BlockSlots
                   /\ s # start => \E r \in P : End(b, r) = s
  BY DEF Walked
<1>5. \A o \in live' : o.block = b /\ LineOf(o.start) = l => o.start \in P
  BY DEF Walked
<1>6. \A c \in open2 : c[1] = b /\ LineOf(c[2]) = l =>
          (\A s \in P : End(b, s) <= c[2]) /\ (\E s \in P : End(b, s) = c[2])
  BY DEF Walked
<1>7. (LineStart(l) + lineHeader[b][l])' = start /\ LineStart(l + 1)' = LineStart(l + 1)
  BY DEF LineStart
<1>8. \A s \in P : /\ IsObj(mem[b][s])' /\ End(b, s)' <= BlockSlots
                   /\ s # start => \E r \in P : End(b, r)' = s
                   /\ End(b, s)' \in P \/ End(b, s)' >= LineStart(l + 1)
                        \/ mem'[b][End(b, s)'] = Zero
  BY <1>1, <1>2, <1>4 DEF IsObj
<1>9. \A c \in open2 : c[1] = b /\ LineOf(c[2]) = l =>
          (\A s \in P : End(b, s)' <= c[2]) /\ (\E s \in P : End(b, s)' = c[2])
  BY <1>1, <1>6
<1> HIDE DEF start
<1> QED
  BY <1>3, <1>5, <1>7, <1>8, <1>9 DEF Walked, LineOf, IsObj

\* Nothing is written and a cursor is set only into lines without objects.
LEMMA HeadersKept ==
    ASSUME TypeOK, NEW open, Headers(open), NEW open2,
           UNCHANGED <<mem, lineHeader, live>>,
           \A x \in open2 : x \in open \/ (x[1] \in Blocks /\ LineOf(x[2]) \in Lines
                                            /\ lineHeader[x[1]][LineOf(x[2])] = EMPTY)
    PROVE  Headers(open2)'
<1>1. \A o \in live' : lineHeader'[o.block][LineOf(o.start)] # EMPTY
  BY DEF Headers
<1>2. ASSUME NEW b \in Blocks, NEW l \in Lines, lineHeader'[b][l] # EMPTY
      PROVE  \E P \in SUBSET LineSlots(l) : Walked(b, l, P, open2)'
  <2>1. PICK P \in SUBSET LineSlots(l) : Walked(b, l, P, open)
    BY <1>2 DEF Headers
  <2>2. \A x \in open2 : x \in open \/ x[1] # b \/ LineOf(x[2]) # l
    BY <1>2
  <2>3. Walked(b, l, P, open2)'
    BY <2>1, <2>2, WalkedKept
  <2> QED
    BY <2>3
<1> QED
  BY <1>1, <1>2 DEF Headers, LineOf, LineSlots, LineStart

\* What Bump does to memory and line headers, word by word and line by line.
LEMMA BumpWrites ==
    ASSUME TypeOK, NEW b \in Blocks, NEW c \in Nat, NEW size \in Sizes, NEW lim \in Nat,
           c + size <= lim, lim <= BlockSlots, Bump(b, c, size, lim)
    PROVE  /\ \A d \in Blocks \ {b} : mem'[d] = mem[d] /\ lineHeader'[d] = lineHeader[d]
           /\ mem'[b][c] = Obj(size)
           /\ \A s \in 0 .. BlockSlots - 1 : s < c \/ s >= lim => mem'[b][s] = mem[b][s]
           /\ c + size < lim => mem'[b][c + size] = Zero
           /\ \A l \in Lines \ {LineOf(c)} : lineHeader'[b][l] = lineHeader[b][l]
           /\ lineHeader'[b][LineOf(c)] = IF lineHeader[b][LineOf(c)] = EMPTY
                                            THEN c - LineStart(LineOf(c))
                                            ELSE lineHeader[b][LineOf(c)]
           /\ mem' \in [Blocks -> [0 .. BlockSlots - 1 -> Words]]
           /\ lineHeader' \in [Blocks -> [Lines -> {EMPTY} \union 0 .. SLOTS_IN_LINE - 1]]
<1>1. size \in Nat /\ 1 <= size
  BY SizesAssumption, Geometry
<1>2. c \in 0 .. BlockSlots - 1 /\ LineOf(c) \in Lines
  BY <1>1, LineOfInLines, Geometry
<1>3. c % SLOTS_IN_LINE = c - LineStart(LineOf(c)) /\ c % SLOTS_IN_LINE \in 0 .. SLOTS_IN_LINE - 1
  BY LineOfBounds, Geometry
<1>4. DOMAIN mem[b] = 0 .. BlockSlots - 1 /\ DOMAIN mem = Blocks
  BY DEF TypeOK
<1> DEFINE word(s) == IF s = c THEN Obj(size)
                      ELSE IF s \in c + 1 .. c + size - 1 THEN Data
                      ELSE IF s = c + size /\ s < lim THEN Zero
                      ELSE mem[b][s]
<1>5. mem' = [mem EXCEPT ![b] = [s \in 0 .. BlockSlots - 1 |-> word(s)]]
  BY <1>4 DEF Bump, Write
<1>6. \A s \in 0 .. BlockSlots - 1 : word(s) \in Words
  <2>1. Obj(size) \in Words /\ Data \in Words /\ Zero \in Words
    BY DEF Words
  <2>2. \A s \in 0 .. BlockSlots - 1 : mem[b][s] \in Words
    BY DEF TypeOK
  <2> QED
    BY <2>1, <2>2
<1>7. \A s \in 0 .. BlockSlots - 1 : s < c \/ s >= lim => word(s) = mem[b][s]
  BY <1>1
<1>8. word(c) = Obj(size)
  OBVIOUS
<1>9. c + size < lim => word(c + size) = Zero /\ c + size \in 0 .. BlockSlots - 1
  BY <1>1, Geometry
<1> HIDE DEF word
<1>10. /\ \A d \in Blocks \ {b} : mem'[d] = mem[d]
       /\ mem'[b] = [s \in 0 .. BlockSlots - 1 |-> word(s)]
       /\ mem' \in [Blocks -> [0 .. BlockSlots - 1 -> Words]]
  BY <1>4, <1>5, <1>6 DEF TypeOK
<1>11. lineHeader' = [lineHeader EXCEPT ![b][LineOf(c)] =
                        IF lineHeader[b][LineOf(c)] = EMPTY THEN c % SLOTS_IN_LINE
                        ELSE lineHeader[b][LineOf(c)]]
  BY <1>2 DEF Bump, LineUpdate, TypeOK
<1>12. /\ \A d \in Blocks \ {b} : lineHeader'[d] = lineHeader[d]
       /\ \A l \in Lines \ {LineOf(c)} : lineHeader'[b][l] = lineHeader[b][l]
       /\ lineHeader'[b][LineOf(c)] = IF lineHeader[b][LineOf(c)] = EMPTY
                                        THEN c - LineStart(LineOf(c))
                                        ELSE lineHeader[b][LineOf(c)]
       /\ lineHeader' \in [Blocks -> [Lines -> {EMPTY} \union 0 .. SLOTS_IN_LINE - 1]]
  BY <1>2, <1>3, <1>11 DEF TypeOK
<1> QED
  BY <1>2, <1>7, <1>8, <1>9, <1>10, <1>12

\* An object put behind the others in a line, or into an empty line, extends
\* the walk of that line and of no other.
LEMMA HeadersWritten ==
    ASSUME TypeOK, NEW b \in Blocks, NEW c \in Nat, NEW size \in Sizes,
           NEW e \in 0 .. LINE_COUNT, NEW lim \in Nat, lim = LineStart(e),
           c + size <= lim, Bump(b, c, size, lim), Blank(b, c, lim),
           NEW open, Headers(open), <<b, c>> \in open, NEW open2,
           \A x \in open2 : \/ x = <<b, c + size>> /\ c + size < lim
                            \/ x \in open /\ x[1] # b
    PROVE  Headers(open2)'
<1> DEFINE m == LineOf(c)
           new == [block |-> b, start |-> c, size |-> size]
<1>1. size \in Nat /\ 1 <= size /\ lim <= BlockSlots
  <2>1. e < LINE_COUNT => LineStart(e) < LineStart(LINE_COUNT)
    BY LinesOrdered, Geometry
  <2> QED
    BY <2>1, SizesAssumption, Geometry
<1>2. c \in 0 .. BlockSlots - 1 /\ m \in Lines /\ m \in Nat
  BY <1>1, LineOfInLines, LinesFacts, Geometry
<1>3. LineStart(m) \in Nat /\ LineStart(m + 1) \in Nat /\ LineStart(m) <= c
      /\ c < LineStart(m + 1)
  BY <1>2, LineOfBounds, LineStarts
<1>4. LineStart(m + 1) <= lim
  <2>1. LineStart(m) < LineStart(e)
    BY <1>1, <1>3
  <2> QED
    BY <1>2, <2>1, LinesOrdered
<1>5. live' = live \union {new}
  BY DEF Bump
<1>6. \A o \in live' : o \in live \/ (o.block = b /\ o.start = c)
  BY <1>5
<1> DEFINE Writes ==
           /\ \A d \in Blocks \ {b} : mem'[d] = mem[d] /\ lineHeader'[d] = lineHeader[d]
           /\ mem'[b][c] = Obj(size)
           /\ \A s \in 0 .. BlockSlots - 1 : s < c \/ s >= lim => mem'[b][s] = mem[b][s]
           /\ c + size < lim => mem'[b][c + size] = Zero
           /\ \A l \in Lines \ {m} : lineHeader'[b][l] = lineHeader[b][l]
           /\ lineHeader'[b][m] = IF lineHeader[b][m] = EMPTY
                                    THEN c - LineStart(m) ELSE lineHeader[b][m]
<1>7. Writes
  BY <1>1, BumpWrites
<1>8. \A x \in open2 : x[1] = b => x = <<b, c + size>> /\ c + size < lim
  OBVIOUS
<1> HIDE DEF m, new
<1>9. ASSUME NEW o \in live' PROVE lineHeader'[o.block][LineOf(o.start)] # EMPTY
  <2>1. CASE o.block = b /\ o.start = c
    <3>1. lineHeader'[b][m] # EMPTY
      BY <1>3, <1>7 DEF EMPTY
    <3> QED
      BY <2>1, <3>1 DEF m
  <2>2. CASE o \in live
    <3>1. o.block \in Blocks /\ o.start \in 0 .. BlockSlots - 1
      BY <2>2 DEF TypeOK, S!Places, S!Slots
    <3>2. LineOf(o.start) \in Lines /\ lineHeader[o.block][LineOf(o.start)] # EMPTY
      BY <2>2, <3>1, LineOfInLines DEF Headers
    <3> QED
      BY <1>3, <1>7, <3>1, <3>2 DEF EMPTY
  <2> QED
    BY <1>6, <2>1, <2>2
<1>10. ASSUME NEW d \in Blocks, NEW l \in Lines, lineHeader'[d][l] # EMPTY, d # b \/ l # m
       PROVE  \E P \in SUBSET LineSlots(l) : Walked(d, l, P, open2)'
  <2>1. lineHeader'[d][l] = lineHeader[d][l]
    BY <1>7, <1>10
  <2>2. PICK P \in SUBSET LineSlots(l) : Walked(d, l, P, open)
    BY <1>10, <2>1 DEF Headers
  <2>3. /\ l \in Nat /\ LineStart(l) \in Nat /\ LineStart(l + 1) \in Nat
        /\ LineStart(l + 1) <= BlockSlots
    BY LinesFacts, LineStarts, LineSlotsInBlock
  <2>4. CASE d # b
    <3>1. \A s \in LineSlots(l) : mem'[d][s] = mem[d][s]
      BY <1>7, <2>4
    <3>2. \A o \in live' : o \in live \/ o.block # d \/ LineOf(o.start) # l
      BY <1>6, <2>4
    <3>3. \A x \in open2 : x \in open \/ x[1] # d \/ LineOf(x[2]) # l
      BY <1>8, <2>4
    <3>4. Walked(d, l, P, open2)'
      BY <2>1, <2>2, <3>1, <3>2, <3>3, WalkedKept
    <3> QED
      BY <3>4
  <2>5. CASE d = b
    <3>1. l # m
      BY <1>10, <2>5
    <3>2. LineStart(l + 1) <= c \/ lim <= LineStart(l)
      <4>1. CASE l < m
        <5>1. LineStart(l + 1) <= LineStart(m)
          BY <4>1, <1>2, <2>3, LinesInOrder
        <5> QED
          BY <1>3, <2>3, <5>1
      <4>2. CASE m < l
        <5>1. LineStart(m + 1) <= LineStart(l)
          BY <4>2, <1>2, <2>3, LinesInOrder
        <5>2. c <= LineStart(l)
          BY <1>3, <2>3, <5>1
        <5>3. ~(LineStart(l) < lim)
          BY <5>2, <1>10, <2>1, <2>5 DEF Blank
        <5> QED
          BY <2>3, <5>3
      <4> QED
        BY <3>1, <4>1, <4>2, <1>2, <2>3
    <3>3. \A s \in LineSlots(l) : mem'[d][s] = mem[d][s]
      <4>1. ASSUME NEW s \in LineSlots(l)
            PROVE  s \in 0 .. BlockSlots - 1 /\ (s < c \/ s >= lim)
        BY <2>3, <3>2, Geometry DEF LineSlots
      <4> QED
        BY <1>7, <2>5, <4>1
    <3>4. \A o \in live' : o \in live \/ o.block # d \/ LineOf(o.start) # l
      BY <1>6, <3>1 DEF m
    <3>5. \A x \in open2 : x \in open \/ x[1] # d \/ LineOf(x[2]) # l
      <4>1. ASSUME c + size < lim PROVE LineOf(c + size) # l
        BY <1>1, <2>3, <3>2, <4>1, LineOfIs
      <4> QED
        BY <1>8, <2>5, <4>1
    <3>6. Walked(d, l, P, open2)'
      BY <2>1, <2>2, <3>3, <3>4, <3>5, WalkedKept
    <3> QED
      BY <3>6
  <2> QED
    BY <2>4, <2>5
<1>11. \E P \in SUBSET LineSlots(m) : Walked(b, m, P, open2)'
  <2>1. End(b, c)' = c + size /\ IsObj(mem'[b][c])
    BY <1>7, WordFacts DEF End
  <2>2. \/ End(b, c)' >= LineStart(m + 1)
        \/ End(b, c)' < LineStart(m + 1) /\ mem'[b][End(b, c)'] = Zero
    BY <1>1, <1>3, <1>4, <1>7, <2>1
  <2>3. CASE lineHeader[b][m] = EMPTY
    <3>1. LineStart(m) + lineHeader'[b][m] = c
      BY <1>3, <1>7, <2>3
    <3>2. \A o \in live' : o.block = b /\ LineOf(o.start) = m => o.start = c
      <4>1. \A o \in live : o.block = b => LineOf(o.start) # m
        BY <2>3 DEF Headers
      <4> QED
        BY <1>6, <4>1
    <3>3. c \in LineSlots(m)
      BY <1>3 DEF LineSlots
    <3>4. \A x \in open2 : x[1] = b => x[2] = c + size
      BY <1>8
    <3>5. Walked(b, m, {c}, open2)'
      <4>1. \A s \in {c} :
              /\ IsObj(mem'[b][s]) /\ End(b, s)' <= BlockSlots
              /\ s # LineStart(m) + lineHeader'[b][m] => \E r \in {c} : End(b, r)' = s
              /\ End(b, s)' \in {c} \/ End(b, s)' >= LineStart(m + 1)
                   \/ mem'[b][End(b, s)'] = Zero
        BY <1>1, <2>1, <2>2, <3>1, Geometry
      <4>2. \A x \in open2 : x[1] = b =>
              (\A s \in {c} : End(b, s)' <= x[2]) /\ (\E s \in {c} : End(b, s)' = x[2])
        BY <1>1, <2>1, <3>4
      <4> QED
        BY <3>1, <3>2, <4>1, <4>2 DEF Walked, LineOf, LineStart, IsObj
    <3> QED
      BY <3>3, <3>5
  <2>4. CASE lineHeader[b][m] # EMPTY
    <3>1. PICK P \in SUBSET LineSlots(m) : Walked(b, m, P, open)
      BY <1>2, <2>4 DEF Headers
    <3>2. (\A s \in P : End(b, s) <= c) /\ (\E s \in P : End(b, s) = c)
      BY <3>1 DEF Walked, m
    <3>3. ASSUME NEW s \in P
          PROVE  /\ s \in 0 .. BlockSlots - 1 /\ s < c /\ mem'[b][s] = mem[b][s]
                 /\ End(b, s)' = End(b, s) /\ s < End(b, s) /\ End(b, s) \in Nat
                 /\ IsObj(mem'[b][s]) /\ End(b, s) <= BlockSlots
      <4>1. s \in 0 .. BlockSlots - 1 /\ End(b, s) \in 0 .. BlockSlots /\ s < End(b, s)
            /\ IsObj(mem[b][s])
        BY <1>2, <3>1, WalkedEnds
      <4>2. s < c
        BY <3>2, <4>1
      <4>3. mem'[b][s] = mem[b][s]
        BY <1>7, <4>1, <4>2
      <4> QED
        BY <4>1, <4>2, <4>3, Geometry DEF End
    <3> DEFINE start == LineStart(m) + lineHeader[b][m]
               Q == P \union {c}
    <3>4. start \in P /\ LineStart(m) + lineHeader'[b][m] = start
      BY <1>7, <2>4, <3>1 DEF Walked
    <3>5. ASSUME NEW s \in Q, s # start PROVE \E r \in Q : End(b, r)' = s
      <4>1. CASE s \in P
        <5>1. PICK r \in P : End(b, r) = s
          BY <3>1, <3>5, <4>1 DEF Walked
        <5> QED
          BY <3>3, <5>1
      <4>2. CASE s = c
        BY <3>2, <3>3, <4>2
      <4> QED
        BY <4>1, <4>2
    <3>6. ASSUME NEW s \in Q
          PROVE  \/ End(b, s)' \in Q \/ End(b, s)' >= LineStart(m + 1)
                 \/ mem'[b][End(b, s)'] = Zero
      <4>1. CASE s = c
        BY <2>2, <4>1
      <4>2. CASE s \in P /\ End(b, s) # c
        <5>1. End(b, s) < c /\ End(b, s) \in 0 .. BlockSlots - 1 /\ End(b, s)' = End(b, s)
          BY <1>2, <3>2, <3>3, <4>2, Geometry
        <5>2. mem'[b][End(b, s)] = mem[b][End(b, s)]
          BY <1>7, <5>1
        <5> QED
          BY <3>1, <4>2, <5>1, <5>2 DEF Walked
      <4>3. CASE s \in P /\ End(b, s) = c
        BY <3>3, <4>3
      <4> QED
        BY <4>1, <4>2, <4>3
    <3>7. \A s \in Q : IsObj(mem'[b][s]) /\ End(b, s)' <= BlockSlots
      BY <1>1, <2>1, <3>3, Geometry
    <3>8. \A o \in live' : o.block = b /\ LineOf(o.start) = m => o.start \in Q
      BY <1>6, <3>1 DEF Walked
    <3>9. \A x \in open2 : x[1] = b =>
            (\A s \in Q : End(b, s)' <= x[2]) /\ (\E s \in Q : End(b, s)' = x[2])
      <4>1. \A s \in P : End(b, s)' <= c + size
        BY <1>1, <3>2, <3>3
      <4> QED
        BY <1>1, <1>8, <2>1, <4>1
    <3>10. Q \in SUBSET LineSlots(m)
      BY <1>3 DEF LineSlots
    <3> HIDE DEF Q, start
    <3>11. start \in Q
      BY <3>4 DEF Q
    <3>12. Walked(b, m, Q, open2)'
      BY <3>4, <3>5, <3>6, <3>7, <3>8, <3>9, <3>11 DEF Walked, LineOf, LineStart, IsObj
    <3> QED
      BY <3>10, <3>12
  <2> QED
    BY <2>3, <2>4
<1> QED
  <2>1. \A d \in Blocks, l \in Lines : lineHeader'[d][l] # EMPTY =>
          \E P \in SUBSET LineSlots(l) : Walked(d, l, P, open2)'
    BY <1>10, <1>11
  <2> QED
    BY <1>9, <2>1 DEF Headers, LineOf, LineSlots, LineStart

-----------------------------------------------------------------------------
(* Types, the pool, the cursors and the control of a call: however far the   *)
(* walk over the objects of a line goes.                                     *)

LEMMA SizesFacts ==
    \A n \in Sizes : n \in Nat /\ 1 <= n /\ n <= BlockSlots
  BY SizesAssumption, Geometry

LEMMA TypeFacts ==
    ASSUME TypeOK
    PROVE  /\ \A o \in live : /\ o.block \in Blocks /\ o.start \in 0 .. BlockSlots - 1
                              /\ o.size \in Sizes /\ o.start + o.size <= BlockSlots
           /\ cursor # NULL => /\ cursor[1] \in Blocks /\ cursor[2] \in 0 .. BlockSlots
                               /\ cursor = <<cursor[1], cursor[2]>>
           /\ limit # NULL => limit[1] \in Blocks /\ limit[2] \in 0 .. BlockSlots
           /\ largeCursor # NULL => /\ largeCursor[1] \in Blocks
                                    /\ largeCursor[2] \in 0 .. BlockSlots
                                    /\ largeCursor = <<largeCursor[1], largeCursor[2]>>
  BY DEF TypeOK, Positions, S!Places, S!Slots

LEMMA PositionFacts ==
    ASSUME NEW b \in Blocks, NEW s \in 0 .. BlockSlots
    PROVE  /\ <<b, s>> \in Positions /\ <<b, s>> # NULL
           /\ <<b, s>>[1] = b /\ <<b, s>>[2] = s
  BY SizesAssumption DEF Positions

\* What a step of this thread leaves to the others and to the collections.
outside == <<heapEnd, taken, theirs, passedOver, unprimed, short>>

\* An allocation that has to look further has not collected before, or not for
\* enough blocks.
LEMMA NotRetried ==
    ASSUME Shape, NEW size \in Sizes, Called(size), ~Fits(size),
           ~(size > SLOTS_IN_LINE /\ LargeFits(size))
    PROVE  retried = FALSE \/ short
  BY DEF Shape, TypeOK, Control, Called, Finds

LEMMA CalledPrimed ==
    ASSUME Shape, NEW size \in Sizes, Called(size)
    PROVE  /\ TypeOK /\ Pool /\ Control /\ Primed /\ Cursors
           /\ cursor # NULL => limit # NULL
           /\ limit # NULL => cursor # NULL
  BY DEF Shape, Control, Called, Primed, Cursors

LEMMA BlocksFacts ==
    /\ Blocks \in SUBSET Nat /\ 0 \in Blocks /\ 1 \in Blocks /\ NumBlocks \in Nat
    /\ InitialBlocks \in Nat /\ 2 <= InitialBlocks /\ InitialBlocks <= NumBlocks
    /\ \A b : b \in Blocks <=> b \in Nat /\ b < NumBlocks
    /\ IsFiniteSet(Blocks)
<1>1. /\ NumBlocks \in Nat /\ InitialBlocks \in Nat /\ 2 <= InitialBlocks
      /\ InitialBlocks <= NumBlocks
  BY SizesAssumption
<1>2. \A b : b \in Blocks <=> b \in Nat /\ b < NumBlocks
  BY <1>1 DEF Blocks
<1>3. IsFiniteSet(Blocks)
  BY <1>1, FS_Interval DEF Blocks
<1> QED
  BY <1>1, <1>2, <1>3

LEMMA HeapFacts ==
    ASSUME TypeOK
    PROVE  /\ heapEnd \in Nat /\ heapEnd <= NumBlocks
           /\ free \subseteq Blocks /\ recycled \subseteq Blocks /\ taken \subseteq Blocks
           /\ free \subseteq Fresh /\ Fresh \subseteq Blocks
           /\ \A b \in free \union recycled \union taken : b < heapEnd
           /\ \A b \in Blocks : b \in Fresh <=> b \in free \/ ~(b < heapEnd)
<1>1. heapEnd \in Nat /\ heapEnd <= NumBlocks /\ NumBlocks \in Nat
  BY BlocksFacts DEF TypeOK
<1>2. \A b \in 0 .. heapEnd - 1 : b \in Blocks /\ b < heapEnd
  BY <1>1, BlocksFacts
<1>3. \A b \in heapEnd .. NumBlocks - 1 : b \in Blocks
  BY <1>1, BlocksFacts
<1>4. \A b \in Blocks : b \in heapEnd .. NumBlocks - 1 <=> ~(b < heapEnd)
  BY <1>1, BlocksFacts
<1>5. /\ free \subseteq 0 .. heapEnd - 1 /\ recycled \subseteq 0 .. heapEnd - 1
      /\ taken \subseteq 0 .. heapEnd - 1
  BY DEF TypeOK
<1> QED
  BY <1>1, <1>2, <1>3, <1>4, <1>5 DEF Fresh

\* A free block that is taken is no fresh one any more.
LEMMA FreshLess ==
    ASSUME TypeOK, heapEnd' = heapEnd, free' \subseteq free
    PROVE  /\ Fresh' \subseteq Fresh
           /\ \A b \in free \ free' : b \notin Fresh'
<1>1. Fresh' = free' \union heapEnd .. NumBlocks - 1
  BY DEF Fresh
<1>2. \A b \in free : b \notin heapEnd .. NumBlocks - 1
  <2>1. \A b \in free : b < heapEnd /\ b \in Nat /\ heapEnd \in Nat
    BY HeapFacts, BlocksFacts
  <2> QED
    BY <2>1
<1> QED
  BY <1>1, <1>2 DEF Fresh

LEMMA LowestBlock ==
    ASSUME NEW T \in SUBSET Blocks, T # {}
    PROVE  Min(T) \in T /\ Min(T) \in Blocks
  BY MinFacts, BlocksFacts

-----------------------------------------------------------------------------
\* Writing an object below the limit disturbs no hole that lies behind it.
LEMMA BumpKeepsHoles ==
    ASSUME TypeOK, NEW b \in Blocks, NEW c \in Nat, NEW size \in Sizes, NEW lim \in Nat,
           c + size <= lim, lim <= BlockSlots, Bump(b, c, size, lim),
           NEW d \in Blocks, NEW H \in SUBSET Lines, Holes(d, H),
           d # b \/ \A l \in H : lim <= LineStart(l)
    PROVE  Holes(d, H)' /\ \A l \in H : HoleEnd(d, l)' = HoleEnd(d, l)
<1>1. first' = first
  BY DEF Bump
<1>2. \A l \in H : mem'[d][LineStart(l)] = mem[d][LineStart(l)]
  <2>1. \A l \in H : LineStart(l) \in 0 .. BlockSlots - 1
    BY LineSlotsInBlock
  <2>2. CASE d # b
    BY <2>2, BumpWrites
  <2>3. CASE d = b /\ \A l \in H : lim <= LineStart(l)
    <3>1. \A s \in 0 .. BlockSlots - 1 : s < c \/ s >= lim => mem'[b][s] = mem[b][s]
      BY BumpWrites
    <3>2. \A l \in H : LineStart(l) >= lim
      BY <2>1, <2>3, Geometry
    <3> QED
      BY <2>1, <2>3, <3>1, <3>2
  <2> QED
    BY <2>2, <2>3
<1> QED
  BY <1>1, <1>2, HolesKept

LEMMA BumpShape ==
    ASSUME Shape, NEW b \in Blocks, NEW c \in Nat, NEW size \in Sizes, NEW lim \in Nat,
           c + size <= lim, lim <= BlockSlots, Bump(b, c, size, lim),
           b \notin Fresh \union recycled,
           {cursor', limit', largeCursor'} \subseteq Positions \union {NULL}
    PROVE  TypeOK' /\ Pool'
<1>1. TypeOK /\ Pool
  BY DEF Shape
<1>2. mem' \in [Blocks -> [0 .. BlockSlots - 1 -> Words]]
      /\ lineHeader' \in [Blocks -> [Lines -> {EMPTY} \union 0 .. SLOTS_IN_LINE - 1]]
  BY <1>1, BumpWrites
<1>3. PICK new : /\ new = [block |-> b, start |-> c, size |-> size]
                 /\ live' = live \union {new} /\ overwritten' \in BOOLEAN
  BY <1>1 DEF Bump, TypeOK
<1>4. live' \subseteq S!Places /\ \A o \in live' : o.block < heapEnd
  <2>1. [block |-> b, start |-> c, size |-> size] \in S!Places
    BY SizesFacts, Geometry DEF S!Places, S!Slots
  <2>2. b < heapEnd
    BY <1>1, HeapFacts
  <2> QED
    BY <1>1, <1>3, <2>1, <2>2 DEF TypeOK, Pool
<1>5. objectMarks' \subseteq Heads(live)'
  BY <1>1, <1>3 DEF Bump, TypeOK, Heads
<1>6. /\ flags' = flags /\ first' = first /\ objectMarks' = objectMarks
      /\ free' = free /\ recycled' = recycled /\ collections' = collections
      /\ UNCHANGED outside
      /\ request' = 0 /\ retried' = FALSE /\ pc' = "idle"
  BY DEF Bump, pool, visit, outside
<1>7. TypeOK'
  BY <1>1, <1>2, <1>3, <1>4, <1>5, <1>6 DEF TypeOK, outside
<1>8. \A d \in recycled : \E H \in SUBSET Lines : H # {} /\ Holes(d, H)'
  <2> SUFFICES ASSUME NEW d \in recycled PROVE \E H \in SUBSET Lines : H # {} /\ Holes(d, H)'
    OBVIOUS
  <2>1. d \in Blocks /\ d # b
    BY <1>1, HeapFacts
  <2>2. PICK H \in SUBSET Lines : H # {} /\ Holes(d, H)
    BY <1>1 DEF Pool
  <2>3. Holes(d, H)'
    BY <1>1, <2>1, <2>2, BumpKeepsHoles
  <2> QED
    BY <2>2, <2>3
<1>9. Pool'
  BY <1>1, <1>4, <1>6, <1>8 DEF Pool, Fresh, outside, Lines
<1> QED
  BY <1>7, <1>9

\* What Bump leaves alone, and how the call ends.
LEMMA BumpLeaves ==
    ASSUME NEW b, NEW c, NEW size, NEW lim, Bump(b, c, size, lim)
    PROVE  /\ flags' = flags /\ first' = first /\ objectMarks' = objectMarks
           /\ free' = free /\ recycled' = recycled /\ collections' = collections
           /\ UNCHANGED outside /\ Fresh' = Fresh
           /\ request' = 0 /\ retried' = FALSE /\ pc' = "idle"
  BY DEF Bump, pool, visit, outside, Fresh

LEMMA AllocShape ==
    ASSUME Shape, NEW size \in Sizes, Alloc(size)
    PROVE  Shape'
<1>1. TypeOK /\ Control /\ Primed /\ Cursors /\ cursor # NULL /\ limit # NULL
  BY CalledPrimed DEF Alloc
<1>2. PICK b \in Blocks, c \in 0 .. BlockSlots : cursor = <<b, c>> /\ b = cursor[1] /\ c = cursor[2]
  BY <1>1, TypeFacts
<1>3. PICK lim \in 0 .. BlockSlots : lim = limit[2]
  BY <1>1, TypeFacts
<1>4. size \in Nat /\ 1 <= size /\ c \in Nat /\ lim \in Nat /\ lim <= BlockSlots
      /\ c + size <= lim
  BY <1>1, <1>2, <1>3, SizesFacts, Geometry DEF Alloc, Fits
<1>5. /\ Bump(b, c, size, lim)
      /\ cursor' = <<b, c + size>> /\ limit' = limit /\ largeCursor' = largeCursor
  BY <1>2, <1>3 DEF Alloc
<1>6. c + size \in 0 .. BlockSlots
  BY <1>4, Geometry
<1>7. cursor' \in Positions /\ cursor' # NULL /\ cursor'[1] = b /\ cursor'[2] = c + size
  BY <1>5, <1>6, PositionFacts
<1>8. b \notin Fresh \union recycled \union taken /\ (largeCursor # NULL => b # largeCursor[1])
  BY <1>1, <1>2 DEF Cursors
<1>9. TypeOK' /\ Pool'
  <2>1. {cursor', limit', largeCursor'} \subseteq Positions \union {NULL}
    BY <1>1, <1>5, <1>7 DEF TypeOK
  <2> QED
    BY <1>4, <1>5, <1>8, <2>1, BumpShape
<1>10. /\ flags' = flags /\ free' = free /\ recycled' = recycled /\ Fresh' = Fresh
       /\ UNCHANGED outside
       /\ request' = 0 /\ retried' = FALSE /\ pc' = "idle"
  BY <1>5, BumpLeaves
<1>11. Control'
  BY <1>1, <1>5, <1>7, <1>10 DEF Control, Primed, outside
<1>12. flags[b] # "free" =>
          flags[b] = "recyclable" /\ \E H \in SUBSET Lines : Holes(b, H)' /\ Behind(H)'
  <2> SUFFICES ASSUME flags[b] # "free"
               PROVE  flags[b] = "recyclable"
                      /\ \E H \in SUBSET Lines : Holes(b, H)' /\ Behind(H)'
    OBVIOUS
  <2>1. flags[b] = "recyclable"
    BY <1>1, <1>2 DEF Cursors
  <2>2. PICK H \in SUBSET Lines : Holes(b, H) /\ \A l \in H : lim <= LineStart(l)
    BY <1>1, <1>2, <1>3 DEF Cursors, Behind
  <2>3. Holes(b, H)'
    BY <1>1, <1>4, <1>5, <2>2, BumpKeepsHoles
  <2>4. Behind(H)'
    BY <1>3, <1>5, <2>2 DEF Behind, LineStart
  <2> QED
    BY <2>1, <2>3, <2>4
<1>13. Cursors'
  <2>1. \E e \in 0 .. LINE_COUNT : limit[2] = LineStart(e)
    BY <1>1 DEF Cursors
  <2>2. taken' = taken
    BY <1>10 DEF outside
  <2> QED
    BY <1>1, <1>3, <1>4, <1>5, <1>7, <1>8, <1>10, <1>12, <2>1, <2>2 DEF Cursors, Lines, LineStart
<1> QED
  BY <1>9, <1>11, <1>13 DEF Shape

LEMMA OverflowAllocShape ==
    ASSUME Shape, NEW size \in Sizes, OverflowAlloc(size)
    PROVE  Shape'
<1>1. TypeOK /\ Control /\ Primed /\ Cursors /\ largeCursor # NULL
      /\ (limit # NULL => cursor # NULL)
  BY CalledPrimed DEF OverflowAlloc, Overflow
<1>2. PICK b \in Blocks, c \in 0 .. BlockSlots :
         largeCursor = <<b, c>> /\ b = largeCursor[1] /\ c = largeCursor[2]
  BY <1>1, TypeFacts
<1>3. size \in Nat /\ 1 <= size /\ c \in Nat /\ BlockSlots \in Nat /\ c + size <= BlockSlots
  BY <1>1, <1>2, SizesFacts, Geometry DEF OverflowAlloc, LargeFits
<1>4. /\ Bump(b, c, size, BlockSlots)
      /\ largeCursor' = <<b, c + size>> /\ limit' = limit /\ cursor' = cursor
  BY <1>2 DEF OverflowAlloc
<1>5. largeCursor' \in Positions /\ largeCursor' # NULL /\ largeCursor'[1] = b
  BY <1>3, <1>4, PositionFacts
<1>6. b \notin Fresh \union recycled \union taken /\ (cursor # NULL => cursor[1] # b)
  BY <1>1, <1>2 DEF Cursors
<1>7. TypeOK' /\ Pool'
  <2>1. {cursor', limit', largeCursor'} \subseteq Positions \union {NULL}
    BY <1>1, <1>4, <1>5 DEF TypeOK
  <2> QED
    BY <1>3, <1>4, <1>5, <1>6, <2>1, BumpShape
<1>8. /\ flags' = flags /\ free' = free /\ recycled' = recycled /\ Fresh' = Fresh
      /\ UNCHANGED outside /\ taken' = taken
      /\ request' = 0 /\ retried' = FALSE /\ pc' = "idle"
  BY <1>4, BumpLeaves DEF outside
<1>9. Control'
  BY <1>1, <1>4, <1>5, <1>8 DEF Control, Primed, outside
<1>10. cursor # NULL /\ flags[cursor[1]] # "free" =>
          \E H \in SUBSET Lines : Holes(cursor[1], H)' /\ Behind(H)'
  <2> SUFFICES ASSUME cursor # NULL, flags[cursor[1]] # "free"
               PROVE  \E H \in SUBSET Lines : Holes(cursor[1], H)' /\ Behind(H)'
    OBVIOUS
  <2>1. PICK d \in Blocks : d = cursor[1]
    BY <1>1, TypeFacts
  <2>2. PICK H \in SUBSET Lines : Holes(d, H) /\ Behind(H)
    BY <1>1, <2>1 DEF Cursors
  <2>3. Holes(d, H)'
    <3>1. d # b /\ c \in Nat /\ BlockSlots \in Nat /\ BlockSlots <= BlockSlots
      BY <1>3, <1>6, <2>1
    <3>2. c + size <= BlockSlots /\ Bump(b, c, size, BlockSlots)
      BY <1>3, <1>4
    <3> QED
      BY <1>1, <2>2, <3>1, <3>2, BumpKeepsHoles
  <2>4. Behind(H)'
    BY <1>4, <2>2 DEF Behind, LineStart
  <2>5. Holes(cursor[1], H)'
    BY <1>4, <2>1, <2>3
  <2> QED
    BY <2>4, <2>5
<1>11. Cursors'
  BY <1>1, <1>4, <1>5, <1>6, <1>8, <1>10 DEF Cursors, Lines, LineStart
<1> QED
  BY <1>7, <1>9, <1>11 DEF Shape

-----------------------------------------------------------------------------
\* A hole taken from a block leaves the cursor with a line at least, and the
\* other holes of the block behind it.
LEMMA TakeHoleCursor ==
    ASSUME TypeOK, NEW b \in Blocks, NEW H \in SUBSET Lines, H # {}, Holes(b, H),
           TakeHole(b), UNCHANGED mem
    PROVE  /\ cursor' \in Positions /\ cursor' # NULL /\ limit' \in Positions /\ limit' # NULL
           /\ cursor'[1] = b /\ cursor'[2] <= limit'[2]
           /\ \A size \in Sizes : size <= SLOTS_IN_LINE => Fits(size)'
           /\ \E e \in 0 .. LINE_COUNT : limit'[2] = LineStart(e)
           /\ \E K \in SUBSET Lines : Holes(b, K)' /\ Behind(K)'
           /\ first' \in [Blocks -> Lines \union {LAST_HOLE}]
           /\ \A d \in Blocks \ {b} : first'[d] = first[d]
<1>1. PICK l \in H, e \in 1 .. LINE_COUNT :
             /\ l < e /\ e = HoleEnd(b, l)
             /\ cursor' = <<b, LineStart(l)>> /\ limit' = <<b, LineStart(e)>>
             /\ first' = [first EXCEPT ![b] = NextOf(H, l)]
             /\ NextOf(H, l) \in Lines \union {LAST_HOLE}
             /\ \E K \in SUBSET H : Holes(b, K)' /\ \A k \in K : e <= k
  BY TakeHoleTakes
<1>2. l \in Lines /\ l \in Nat /\ e \in Nat /\ e - 1 \in Lines /\ e - 1 \in Nat
      /\ (e - 1) + 1 = e /\ l + 1 <= e
  BY <1>1, LinesFacts, Geometry
<1>3. LineStart(l) \in 0 .. BlockSlots /\ LineStart(e) \in 0 .. BlockSlots
      /\ LineStart(l) + SLOTS_IN_LINE <= LineStart(e)
  <2>1. LineStart(l) \in 0 .. BlockSlots - 1 /\ LineStart((e - 1) + 1) <= BlockSlots
    BY <1>2, LineSlotsInBlock
  <2>2. LineStart(l + 1) <= LineStart(e) /\ LineStart(l + 1) = LineStart(l) + SLOTS_IN_LINE
        /\ LineStart(e) \in Nat
    BY <1>1, <1>2, LinesInOrder, LineStarts
  <2> QED
    BY <1>2, <2>1, <2>2, Geometry
<1>4. /\ cursor' \in Positions /\ cursor' # NULL /\ cursor'[1] = b /\ cursor'[2] = LineStart(l)
      /\ limit' \in Positions /\ limit' # NULL /\ limit'[2] = LineStart(e)
  BY <1>1, <1>3, PositionFacts
<1>5. cursor'[2] <= limit'[2] /\ \A size \in Sizes : size <= SLOTS_IN_LINE => Fits(size)'
  <2>1. ASSUME NEW size \in Sizes, size <= SLOTS_IN_LINE
        PROVE  LineStart(l) + size <= LineStart(e)
    BY <1>3, <2>1, SizesFacts, Geometry
  <2> QED
    BY <1>3, <1>4, <2>1, Geometry DEF Fits
<1>6. PICK K \in SUBSET H : Holes(b, K)' /\ \A k \in K : e <= k
  BY <1>1
<1>7. K \in SUBSET Lines
  OBVIOUS
<1>8. Behind(K)'
  <2>1. ASSUME NEW k \in K PROVE LineStart(e) <= LineStart(k)
    <3>1. k \in Nat /\ e <= k
      BY <1>6, LinesFacts
    <3> QED
      BY <1>2, <3>1, LinesOrdered
  <2> QED
    BY <1>4, <2>1 DEF Behind, LineStart
<1>9. first' \in [Blocks -> Lines \union {LAST_HOLE}] /\ \A d \in Blocks \ {b} : first'[d] = first[d]
  BY <1>1 DEF TypeOK
<1>10. \E x \in 0 .. LINE_COUNT : limit'[2] = LineStart(x)
  BY <1>4, Geometry
<1> QED
  BY <1>4, <1>5, <1>6, <1>7, <1>8, <1>9, <1>10

\* Blocks that no hole is taken from and nothing is written to keep theirs.
LEMMA PoolKept ==
    ASSUME TypeOK, Pool, UNCHANGED <<mem, flags, live, heapEnd>>,
           free' \subseteq free, recycled' \subseteq recycled,
           taken' \subseteq taken \union ((free \union recycled) \ (free' \union recycled')),
           \A d \in recycled' : first'[d] = first[d]
    PROVE  Pool'
<1>1. ASSUME NEW d \in recycled' PROVE \E H \in SUBSET Lines : H # {} /\ Holes(d, H)'
  <2>1. PICK H \in SUBSET Lines : H # {} /\ Holes(d, H)
    BY <1>1 DEF Pool
  <2>2. Holes(d, H)'
    BY <2>1, HolesKept
  <2> QED
    BY <2>1, <2>2
<1>2. Fresh' \subseteq Fresh /\ \A b \in free \ free' : b \notin Fresh'
  BY FreshLess
<1>3. free \subseteq Fresh
  BY HeapFacts
<1> QED
  BY <1>1, <1>2, <1>3 DEF Pool, Lines

LEMMA NextLineRecycledShape ==
    ASSUME Shape, NEW size \in Sizes, NextLineRecycled(size)
    PROVE  Shape'
<1>1. TypeOK /\ Pool /\ Primed /\ Cursors /\ Control /\ cursor # NULL
  BY CalledPrimed DEF NextLineRecycled, NextLine, BlockIsSpent
<1>2. (retried = FALSE \/ short) /\ size # 0
  <2>1. size <= SLOTS_IN_LINE /\ size \in Nat /\ SLOTS_IN_LINE \in Nat /\ 1 <= size
    BY SizesFacts, Geometry DEF NextLineRecycled, NextLine
  <2>2. ~(size > SLOTS_IN_LINE)
    BY <2>1
  <2>3. Called(size) /\ ~Fits(size)
    BY DEF NextLineRecycled, NextLine
  <2>4. retried = FALSE \/ short
    BY <2>2, <2>3, NotRetried
  <2> QED
    BY <2>1, <2>4
<1>3. PICK b \in Blocks : b = cursor[1]
  BY <1>1, TypeFacts
<1>4. flags[b] # "free" /\ first[b] # LAST_HOLE
  BY <1>3 DEF NextLineRecycled, BlockIsSpent, InFreeBlock
<1>5. flags[b] = "recyclable" /\ b \notin Fresh \union recycled \union taken
      /\ (largeCursor # NULL => b # largeCursor[1])
  BY <1>1, <1>3, <1>4 DEF Cursors
<1>6. PICK H \in SUBSET Lines : Holes(b, H)
  BY <1>1, <1>3, <1>4 DEF Cursors
<1>7. H # {}
  BY <1>4, <1>6 DEF Holes
<1>8. /\ UNCHANGED <<mem, lineHeader, flags, objectMarks, free, recycled, largeCursor, live,
                     overwritten, retried, collections, heapEnd, taken, theirs, passedOver,
                     unprimed, short>>
      /\ request' = size /\ pc' = "alloc" /\ TakeHole(b) /\ Fresh' = Fresh
  BY <1>3 DEF NextLineRecycled, Again, pool, population, visit, Fresh
<1>9. /\ cursor' \in Positions /\ cursor' # NULL /\ limit' \in Positions /\ limit' # NULL
      /\ cursor'[1] = b /\ cursor'[2] <= limit'[2]
      /\ \E e \in 0 .. LINE_COUNT : limit'[2] = LineStart(e)
      /\ \E K \in SUBSET Lines : Holes(b, K)' /\ Behind(K)'
      /\ first' \in [Blocks -> Lines \union {LAST_HOLE}]
      /\ \A d \in Blocks \ {b} : first'[d] = first[d]
  BY <1>1, <1>6, <1>7, <1>8, TakeHoleCursor
<1>10. TypeOK'
  BY <1>1, <1>8, <1>9 DEF TypeOK, Heads
<1>11. Pool'
  <2>1. \A d \in recycled' : first'[d] = first[d]
    BY <1>1, <1>5, <1>8, <1>9, HeapFacts
  <2> QED
    BY <1>1, <1>8, <2>1, PoolKept
<1>12. Control'
  BY <1>1, <1>2, <1>8, <1>9 DEF Control, Primed
<1>13. Cursors'
  BY <1>1, <1>5, <1>8, <1>9 DEF Cursors, Lines, LineStart
<1> QED
  BY <1>10, <1>11, <1>12, <1>13 DEF Shape

\* A block whose header says free has no list of holes to be kept.
LEMMA NextBlockShape ==
    ASSUME Shape, NEW size \in Sizes, NextBlock(size)
    PROVE  Shape'
<1>1. TypeOK /\ Pool /\ Cursors /\ Control /\ Primed
  BY CalledPrimed DEF NextBlock, NextLine
<1>2. (retried = FALSE \/ short) /\ size # 0
  <2>1. size <= SLOTS_IN_LINE /\ size \in Nat /\ SLOTS_IN_LINE \in Nat /\ 1 <= size
    BY SizesFacts, Geometry DEF NextBlock, NextLine
  <2>2. ~(size > SLOTS_IN_LINE)
    BY <2>1
  <2>3. Called(size) /\ ~Fits(size)
    BY DEF NextBlock, NextLine
  <2>4. retried = FALSE \/ short
    BY <2>2, <2>3, NotRetried
  <2> QED
    BY <2>1, <2>4
<1>3. /\ UNCHANGED <<mem, lineHeader, flags, objectMarks, largeCursor, live, overwritten,
                     retried, collections, heapEnd, taken, theirs, passedOver, unprimed, short>>
      /\ request' = size /\ pc' = "alloc"
  BY DEF NextBlock, Again, population, visit
<1>4. /\ free \subseteq Blocks /\ recycled \subseteq Blocks /\ free \subseteq Fresh
      /\ (largeCursor # NULL => largeCursor[1] \notin Fresh \union recycled \union taken)
      /\ Fresh \intersect recycled = {} /\ (Fresh \union recycled) \intersect taken = {}
  BY <1>1, HeapFacts DEF Pool, Cursors
<1>5. CASE /\ recycled # {}
           /\ recycled' = recycled \ {Min(recycled)}
           /\ TakeHole(Min(recycled))
           /\ UNCHANGED free
  <2>1. PICK b \in Blocks : b = Min(recycled) /\ b \in recycled
    BY <1>4, <1>5, LowestBlock
  <2>2. flags[b] = "recyclable" /\ (largeCursor # NULL => b # largeCursor[1]) /\ b \notin Fresh
        /\ b \notin taken /\ recycled' = recycled \ {b} /\ TakeHole(b) /\ Fresh' = Fresh
    BY <1>1, <1>3, <1>4, <1>5, <2>1 DEF Pool, Fresh
  <2>3. PICK H \in SUBSET Lines : H # {} /\ Holes(b, H)
    BY <1>1, <2>1 DEF Pool
  <2>4. /\ cursor' \in Positions /\ cursor' # NULL /\ limit' \in Positions /\ limit' # NULL
        /\ cursor'[1] = b /\ cursor'[2] <= limit'[2]
        /\ \E e \in 0 .. LINE_COUNT : limit'[2] = LineStart(e)
        /\ \E K \in SUBSET Lines : Holes(b, K)' /\ Behind(K)'
        /\ first' \in [Blocks -> Lines \union {LAST_HOLE}]
        /\ \A d \in Blocks \ {b} : first'[d] = first[d]
    BY <1>1, <1>3, <2>2, <2>3, TakeHoleCursor
  <2>5. TypeOK'
    BY <1>1, <1>3, <1>5, <2>2, <2>4 DEF TypeOK, Heads
  <2>6. Pool'
    <3>1. \A d \in recycled' : first'[d] = first[d]
      BY <1>4, <2>2, <2>4
    <3> QED
      BY <1>1, <1>3, <1>5, <2>2, <3>1, PoolKept
  <2>7. Control'
    BY <1>1, <1>2, <1>3, <2>4 DEF Control, Primed
  <2>8. Cursors'
    <3>1. b \notin recycled'
      BY <2>2
    <3> QED
      BY <1>3, <1>4, <1>5, <2>1, <2>2, <2>4, <3>1 DEF Cursors, Lines, LineStart
  <2> QED
    BY <2>5, <2>6, <2>7, <2>8 DEF Shape
<1>6. CASE /\ recycled = {} /\ free # {}
           /\ free' = free \ {Min(free)}
           /\ TakeFreeBlock(Min(free))
           /\ UNCHANGED recycled
  <2>1. PICK b \in Blocks : b = Min(free) /\ b \in free
    BY <1>4, <1>6, LowestBlock
  <2>2. flags[b] = "free" /\ (largeCursor # NULL => b # largeCursor[1]) /\ b \notin recycled
        /\ b \notin taken /\ free' = free \ {b} /\ TakeFreeBlock(b)
    BY <1>1, <1>4, <1>6, <2>1 DEF Pool
  <2>3. /\ cursor' \in Positions /\ cursor' # NULL /\ limit' \in Positions /\ limit' # NULL
        /\ cursor'[1] = b /\ cursor'[2] <= limit'[2] /\ first' = first
        /\ \E e \in 0 .. LINE_COUNT : limit'[2] = LineStart(e)
    <3>1. 0 \in 0 .. BlockSlots /\ BlockSlots \in 0 .. BlockSlots /\ LINE_COUNT \in 0 .. LINE_COUNT
          /\ BlockSlots = LineStart(LINE_COUNT) /\ 0 <= BlockSlots
      BY Geometry
    <3> QED
      BY <2>2, <3>1, PositionFacts DEF TakeFreeBlock
  <2>4. TypeOK'
    BY <1>1, <1>3, <1>6, <2>2, <2>3 DEF TypeOK, Heads
  <2>5. Pool'
    BY <1>1, <1>3, <1>6, <2>2, <2>3, PoolKept
  <2>6. Control'
    BY <1>1, <1>2, <1>3, <2>3 DEF Control, Primed
  <2>7. Fresh' \subseteq Fresh /\ b \notin Fresh'
    BY <1>1, <1>3, <2>1, <2>2, FreshLess
  <2>8. Cursors'
    BY <1>3, <1>4, <1>6, <2>1, <2>2, <2>3, <2>7 DEF Cursors, Lines, LineStart
  <2> QED
    BY <2>4, <2>5, <2>6, <2>8 DEF Shape
<1> QED
  BY <1>5, <1>6 DEF NextBlock, GetNextBlock

\* A normal cursor that stays where it is, or is dropped.
LEMMA CursorsKept ==
    ASSUME TypeOK, Cursors, UNCHANGED <<mem, flags, first, limit>>, cursor' \in {cursor, NULL},
           largeCursor' # NULL => largeCursor'[1] \notin Fresh' \union recycled' \union taken',
           cursor' # NULL => /\ cursor[1] \notin Fresh' \union recycled' \union taken'
                             /\ largeCursor' # NULL => cursor[1] # largeCursor'[1]
    PROVE  Cursors'
<1>1. CASE cursor' = NULL
  BY <1>1 DEF Cursors
<1>2. CASE cursor' # NULL
  <2>1. cursor # NULL /\ cursor' = cursor
    BY <1>2
  <2>2. PICK b \in Blocks : b = cursor[1] /\ b = cursor'[1]
    BY <2>1, TypeFacts
  <2>3. /\ limit' # NULL /\ cursor'[2] <= limit'[2]
        /\ \E e \in 0 .. LINE_COUNT : limit'[2] = LineStart(e)
    BY <2>1 DEF Cursors
  <2>4. flags[b] # "free" =>
          flags[b] = "recyclable" /\ \E H \in SUBSET Lines : Holes(b, H)' /\ Behind(H)'
    <3> SUFFICES ASSUME flags[b] # "free"
                 PROVE  flags[b] = "recyclable"
                        /\ \E H \in SUBSET Lines : Holes(b, H)' /\ Behind(H)'
      OBVIOUS
    <3>1. flags[b] = "recyclable"
      BY <2>1, <2>2 DEF Cursors
    <3>2. PICK H \in SUBSET Lines : Holes(b, H) /\ Behind(H)
      BY <2>1, <2>2 DEF Cursors
    <3>3. Holes(b, H)'
      BY <3>2, HolesKept
    <3>4. Behind(H)'
      BY <3>2 DEF Behind, LineStart
    <3> QED
      BY <3>1, <3>3, <3>4
  <2>5. b \notin Fresh' \union recycled' \union taken' /\ flags' = flags
        /\ (largeCursor' # NULL => b # largeCursor'[1])
    BY <1>2, <2>2
  <2> QED
    BY <2>2, <2>3, <2>4, <2>5 DEF Cursors, Lines, LineStart
<1> QED
  BY <1>1, <1>2

LEMMA OverflowBlockShape ==
    ASSUME Shape, NEW size \in Sizes, OverflowBlock(size)
    PROVE  Shape'
<1>1. /\ TypeOK /\ Pool /\ Cursors /\ Control /\ Primed
      /\ (retried = FALSE \/ short) /\ size # 0 /\ (limit # NULL => cursor # NULL)
  <2>1. size # 0
    BY SizesFacts
  <2>2. retried = FALSE \/ short
    BY NotRetried DEF OverflowBlock, Overflow
  <2> QED
    BY <2>1, <2>2, CalledPrimed DEF OverflowBlock, Overflow
<1>2. /\ UNCHANGED <<mem, lineHeader, flags, first, objectMarks, recycled, cursor, limit, live,
                     overwritten, retried, collections, heapEnd, taken, theirs, passedOver,
                     unprimed, short>>
      /\ request' = size /\ pc' = "alloc"
  BY DEF OverflowBlock, Again, store, population, visit
<1>3. PICK b \in Blocks : b = Min(free) /\ b \in free
  BY <1>1, HeapFacts, LowestBlock DEF OverflowBlock
<1>4. free' = free \ {b} /\ largeCursor' = <<b, 0>>
  BY <1>3 DEF OverflowBlock
<1>5. largeCursor' \in Positions /\ largeCursor'[1] = b /\ largeCursor' # NULL
  BY <1>4, PositionFacts, Geometry
<1>6. TypeOK'
  BY <1>1, <1>2, <1>4, <1>5 DEF TypeOK, Heads
<1>7. Pool'
  BY <1>1, <1>2, <1>4, PoolKept
<1>8. Control'
  BY <1>1, <1>2, <1>5 DEF Control, Primed
<1>9. Cursors'
  <2>1. b \in Fresh /\ Fresh' \subseteq Fresh /\ b \notin Fresh'
    BY <1>1, <1>2, <1>3, <1>4, FreshLess, HeapFacts
  <2>2. b \notin recycled /\ b \notin taken
    BY <1>1, <2>1 DEF Pool
  <2>3. cursor # NULL => cursor[1] # b /\ cursor[1] \notin Fresh \union recycled \union taken
    BY <1>1, <2>1 DEF Cursors
  <2> QED
    BY <1>1, <1>2, <1>5, <2>1, <2>2, <2>3, CursorsKept
<1> QED
  BY <1>6, <1>7, <1>8, <1>9 DEF Shape

\* The cursor becomes NULL, or the call fails, and nothing else changes.
LEMMA FailShape ==
    ASSUME Shape, NEW size \in Sizes, Called(size), ~Fits(size),
           ~(size > SLOTS_IN_LINE /\ LargeFits(size)), Fail(size),
           cursor' \in {cursor, NULL},
           UNCHANGED <<store, pool, limit, largeCursor, population, visit, retried, collections>>
    PROVE  Shape'
<1>1. /\ TypeOK /\ Pool /\ Cursors /\ Control /\ Primed
      /\ (retried = FALSE \/ short) /\ size # 0
  <2>1. size # 0
    BY SizesFacts
  <2>2. retried = FALSE \/ short
    BY NotRetried
  <2>3. TypeOK /\ Pool /\ Cursors /\ Control /\ Primed
    BY CalledPrimed
  <2> QED
    BY <2>1, <2>2, <2>3
<1>2. /\ UNCHANGED <<mem, lineHeader, flags, first, objectMarks, free, recycled, limit,
                     largeCursor, live, overwritten, retried, collections, heapEnd, taken,
                     theirs, passedOver, unprimed, short>>
      /\ request' = size /\ pc' = IF retried THEN "grow" ELSE "collect"
  BY DEF Fail, store, pool, population, visit
<1>3. TypeOK'
  BY <1>1, <1>2 DEF TypeOK, Heads
<1>4. Pool'
  BY <1>1, <1>2, PoolKept
<1>5. Control'
  BY <1>1, <1>2 DEF Control, Primed, TypeOK
<1>6. Cursors'
  <2>1. Fresh' = Fresh
    BY <1>2 DEF Fresh
  <2>2. /\ largeCursor # NULL => largeCursor[1] \notin Fresh' \union recycled' \union taken'
        /\ cursor # NULL => /\ cursor[1] \notin Fresh' \union recycled' \union taken'
                            /\ largeCursor # NULL => cursor[1] # largeCursor[1]
    BY <1>1, <1>2, <2>1 DEF Cursors
  <2> QED
    BY <1>1, <1>2, <2>2, CursorsKept
<1> QED
  BY <1>3, <1>4, <1>5, <1>6 DEF Shape

\* Only a visit that was short leaves an overflow cursor primed from NULL.
LEMMA OverflowThroughNullShape ==
    ASSUME Shape, NEW size \in Sizes, OverflowThroughNull(size)
    PROVE  Shape'
<1>1. /\ TypeOK /\ Pool /\ Cursors /\ Control /\ Primed /\ largeCursor = NULL
  BY CalledPrimed DEF OverflowThroughNull, Overflow
<1>2. /\ UNCHANGED <<mem, lineHeader, flags, first, objectMarks, free, recycled, cursor, limit,
                     largeCursor, live, overwritten, request, retried, collections, heapEnd,
                     taken, theirs, passedOver, unprimed, short>>
      /\ pc' = "crashed"
  BY DEF OverflowThroughNull, store, pool, cursors, population, visit
<1>3. TypeOK'
  BY <1>1, <1>2 DEF TypeOK, Heads
<1>4. Pool'
  BY <1>1, <1>2, PoolKept
<1>5. Control'
  BY <1>1, <1>2 DEF Control, Primed
<1>6. Cursors'
  <2>1. cursor # NULL => cursor[1] \notin Fresh' \union recycled' \union taken'
    BY <1>1, <1>2 DEF Cursors, Fresh
  <2> QED
    BY <1>1, <1>2, <2>1, CursorsKept
<1> QED
  BY <1>3, <1>4, <1>5, <1>6 DEF Shape

\* Another thread takes a block off the lists, and this one will not see it again.
LEMMA OthersTakeShape ==
    ASSUME Shape, OthersTake
    PROVE  Shape'
<1>1. TypeOK /\ Pool /\ Cursors /\ Control /\ Primed
  BY DEF Shape, OthersTake, Primed
<1>2. UNCHANGED <<mem, lineHeader, flags, first, objectMarks, cursor, limit, largeCursor, live,
                  overwritten, request, retried, collections, pc, heapEnd, theirs, passedOver,
                  unprimed, short>>
  BY DEF OthersTake, store, cursors, population, visit, control
<1>3. /\ free' \subseteq free /\ recycled' \subseteq recycled
      /\ taken' = taken \union ((free \union recycled) \ (free' \union recycled'))
  BY DEF OthersTake
<1>4. TypeOK'
  BY <1>1, <1>2, <1>3 DEF TypeOK, Heads
<1>5. Pool'
  BY <1>1, <1>2, <1>3, PoolKept
<1>6. Control'
  BY <1>1, <1>2 DEF Control, Primed, OthersTake, Fits, LargeFits, Finds
<1>7. Cursors'
  <2>1. Fresh' \subseteq Fresh /\ free \subseteq Fresh
    BY <1>1, <1>2, <1>3, FreshLess, HeapFacts
  <2>2. Fresh' \union recycled' \union taken' \subseteq Fresh \union recycled \union taken
    BY <1>3, <2>1
  <2>3. /\ largeCursor # NULL => largeCursor[1] \notin Fresh \union recycled \union taken
        /\ cursor # NULL => /\ cursor[1] \notin Fresh \union recycled \union taken
                            /\ largeCursor # NULL => cursor[1] # largeCursor[1]
    BY <1>1 DEF Cursors
  <2> QED
    BY <1>1, <1>2, <2>2, <2>3, CursorsKept
<1> QED
  BY <1>4, <1>5, <1>6, <1>7 DEF Shape

-----------------------------------------------------------------------------
(* The sweep.                                                                *)

\* A run of unmarked lines ends at the first line behind that is none.
LEMMA RunFacts ==
    ASSUME NEW U \in SUBSET Lines, NEW l \in U
    PROVE  /\ RunSize(U, l) \in 1 .. LINE_COUNT /\ l + RunSize(U, l) \in 1 .. LINE_COUNT
           /\ l + RunSize(U, l) \notin U
           /\ \A k \in Nat : l <= k /\ k < l + RunSize(U, l) => k \in U
<1> DEFINE T == {k \in l .. LINE_COUNT : k \notin U}
<1>1. l \in Nat /\ l < LINE_COUNT /\ LINE_COUNT \in Nat /\ LINE_COUNT \notin U
      /\ l \in Lines
  BY LinesFacts, Geometry
<1>2. T \in SUBSET Nat /\ LINE_COUNT \in T
  BY <1>1
<1>3. PICK m : m = Min(T)
  OBVIOUS
<1>4. m \in T /\ \A k \in T : m <= k
  BY <1>2, <1>3, MinFacts
<1>5. m \in Nat /\ l < m /\ m <= LINE_COUNT /\ m \notin U
  BY <1>1, <1>4
<1>6. RunSize(U, l) = m - l
  BY <1>3 DEF RunSize
<1>7. ASSUME NEW k \in Nat, l <= k, k < m PROVE k \in U
  <2>1. k \in l .. LINE_COUNT
    BY <1>1, <1>5, <1>7
  <2>2. k \notin T
    BY <1>4, <1>5, <1>7
  <2> QED
    BY <2>1, <2>2
<1> QED
  BY <1>1, <1>5, <1>6, <1>7

\* The first unmarked line begins the first run.
LEMMA StartsFacts ==
    ASSUME NEW U \in SUBSET Lines
    PROVE  /\ Starts(U) \in SUBSET Lines /\ Starts(U) \in SUBSET U
           /\ U # {} => Starts(U) # {} /\ Min(Starts(U)) = Min(U) /\ Min(U) \in Lines
           /\ \A l \in U : \E k \in Starts(U) : k <= l /\ l < k + RunSize(U, k)
           /\ \A l, k \in Starts(U) : l < k => l + RunSize(U, l) <= k
           /\ \A l : NextStart(U, l) = NextOf(Starts(U), l)
<1>1. U \in SUBSET Nat /\ Starts(U) \in SUBSET U
  BY LinesFacts DEF Starts
<1>2. ASSUME U # {}
      PROVE  Starts(U) # {} /\ Min(Starts(U)) = Min(U) /\ Min(U) \in Lines
  <2>1. PICK m \in U : m = Min(U) /\ \A k \in U : m <= k
    BY <1>1, <1>2, MinFacts
  <2>2. m - 1 \notin U
    BY <1>1, <2>1
  <2>3. m \in Starts(U)
    BY <2>1, <2>2 DEF Starts
  <2>4. PICK n \in Starts(U) : n = Min(Starts(U)) /\ \A k \in Starts(U) : n <= k
    <3>1. Starts(U) \in SUBSET Nat /\ Starts(U) # {}
      BY <1>1, <2>3
    <3> QED
      BY <3>1, MinFacts
  <2>5. m <= n /\ n <= m /\ m \in Nat /\ n \in Nat
    BY <1>1, <2>1, <2>3, <2>4
  <2> QED
    BY <2>1, <2>3, <2>4, <2>5
<1>3. ASSUME NEW l \in U PROVE \E k \in Starts(U) : k <= l /\ l < k + RunSize(U, k)
  <2> DEFINE T == {k \in 0 .. l : \A j \in k .. l : j \in U}
  <2>1. l \in Nat /\ T \in SUBSET Nat /\ l \in T
    <3>1. l \in Nat
      BY <1>1
    <3>2. \A j \in l .. l : j = l
      BY <3>1
    <3> QED
      BY <3>1, <3>2
  <2>2. PICK k \in T : \A j \in T : k <= j
    <3> HIDE DEF T
    <3> QED
      BY <2>1, LeastNatural
  <2>3. k \in Nat /\ k <= l /\ k \in U /\ \A j \in k .. l : j \in U
    BY <2>1
  <2>4. k - 1 \notin U
    <3> SUFFICES ASSUME k - 1 \in U PROVE FALSE
      OBVIOUS
    <3>1. k - 1 \in Nat
      BY <1>1
    <3>2. \A j \in k - 1 .. l : j = k - 1 \/ j \in k .. l
      BY <2>1, <2>3, <3>1
    <3>3. \A j \in k - 1 .. l : j \in U
      BY <2>3, <3>2
    <3>4. k - 1 \in T
      BY <2>1, <2>3, <3>1, <3>3
    <3> QED
      BY <2>2, <2>3, <3>4
  <2>5. k \in Starts(U)
    BY <2>3, <2>4 DEF Starts
  <2>6. l < k + RunSize(U, k)
    <3>1. k + RunSize(U, k) \notin U /\ k + RunSize(U, k) \in Nat /\ k <= k + RunSize(U, k)
      BY <2>3, RunFacts, Geometry
    <3>2. k + RunSize(U, k) \notin k .. l
      BY <2>3, <3>1
    <3> QED
      BY <2>1, <2>3, <3>1, <3>2
  <2> QED
    BY <2>3, <2>5, <2>6
<1>4. ASSUME NEW l \in Starts(U), NEW k \in Starts(U), l < k
      PROVE  l + RunSize(U, l) <= k
  <2>1. l \in Nat /\ k \in Nat /\ l \in U /\ k - 1 \notin U /\ k - 1 \in Nat
        /\ l + RunSize(U, l) \in Nat
    <3>1. l \in Nat /\ k \in Nat /\ l \in U /\ k - 1 \notin U
      BY <1>1 DEF Starts
    <3>2. l + RunSize(U, l) \in Nat
      BY <3>1, RunFacts, Geometry
    <3> QED
      BY <1>4, <3>1, <3>2
  <2>2. ~(l <= k - 1 /\ k - 1 < l + RunSize(U, l))
    BY <2>1, RunFacts
  <2> QED
    BY <1>4, <2>1, <2>2
<1>5. \A l : NextStart(U, l) = NextOf(Starts(U), l)
  BY DEF NextStart, NextOf
<1> QED
  BY <1>1, <1>2, <1>3, <1>4, <1>5

\* What Sweep makes of each variable, by the unmarked lines U of each block.
Swept(U, Freed) ==
    /\ free' = {b \in Freed : b < heapEnd}
    /\ recycled' = {b \in Blocks \ Freed : U[b] # {}}
    /\ flags' = [b \in Blocks |-> IF b \in Freed THEN "free"
                                  ELSE IF U[b] # {} THEN "recyclable" ELSE "unavailable"]
    /\ lineHeader' = [b \in Blocks |-> [l \in Lines |->
                        IF l \in U[b] THEN EMPTY ELSE lineHeader[b][l]]]
    /\ first' = [b \in Blocks |-> IF b \in Freed THEN 0
                                  ELSE IF U[b] # {} THEN Min(U[b]) ELSE first[b]]
    /\ \A b \in Blocks, s \in 0 .. BlockSlots - 1 :
          mem'[b][s] = IF b \notin Freed /\ LineOf(s) \in Starts(U[b]) /\ s = LineStart(LineOf(s))
                         THEN Hole(NextStart(U[b], LineOf(s)), RunSize(U[b], LineOf(s)))
                         ELSE mem[b][s]
    /\ objectMarks' \subseteq Heads(live')

LEMMA SweepDoes ==
    ASSUME TypeOK, NEW marked, NEW others, Sweep(marked, others)
    PROVE  \E U \in [Blocks -> SUBSET Lines], Freed \in SUBSET Blocks :
             /\ \A b \in Blocks : U[b] = {l \in Lines \ LinesOf(b, marked) : <<b, l>> \notin others}
             /\ \A b \in Blocks : b \in Freed <=> U[b] = Lines
             /\ Swept(U, Freed)
             /\ mem' = [b \in Blocks |-> [s \in 0 .. BlockSlots - 1 |-> mem'[b][s]]]
             /\ \A x \in objectMarks', l \in Lines :
                   x \in (Blocks \ Freed) \X (0 .. BlockSlots - 1) /\ l \notin U[x[1]] =>
                     x[2] \notin WalkLine(x[1], l)
<1>1. PICK U :
         U = [b \in Blocks |-> {l \in Lines \ LinesOf(b, marked) : <<b, l>> \notin others}]
  OBVIOUS
<1>2. PICK Freed : Freed = {b \in Blocks : U[b] = Lines}
  OBVIOUS
<1>3. \A b \in Blocks : DOMAIN mem[b] = 0 .. BlockSlots - 1
  BY DEF TypeOK
<1>4. U \in [Blocks -> SUBSET Lines] /\ Freed \in SUBSET Blocks
      /\ (\A b \in Blocks : U[b] = {l \in Lines \ LinesOf(b, marked) : <<b, l>> \notin others})
      /\ \A b \in Blocks : b \in Freed <=> U[b] = Lines
  BY <1>1, <1>2
<1>5. mem' = [b \in Blocks |-> [s \in 0 .. BlockSlots - 1 |->
                 IF b \notin Freed /\ LineOf(s) \in Starts(U[b]) /\ s = LineStart(LineOf(s))
                   THEN Hole(NextStart(U[b], LineOf(s)), RunSize(U[b], LineOf(s)))
                   ELSE mem[b][s]]]
  BY <1>1, <1>2, <1>3 DEF Sweep
<1>6. Swept(U, Freed)
  <2>1. /\ free' = {b \in Freed : b < heapEnd}
        /\ recycled' = {b \in Blocks \ Freed : U[b] # {}}
        /\ flags' = [b \in Blocks |-> IF b \in Freed THEN "free"
                                      ELSE IF U[b] # {} THEN "recyclable" ELSE "unavailable"]
        /\ lineHeader' = [b \in Blocks |-> [l \in Lines |->
                            IF l \in U[b] THEN EMPTY ELSE lineHeader[b][l]]]
        /\ first' = [b \in Blocks |-> IF b \in Freed THEN 0
                                      ELSE IF U[b] # {} THEN Min(U[b]) ELSE first[b]]
    BY <1>1, <1>2 DEF Sweep
  <2>2. objectMarks' \subseteq Heads(live')
    BY DEF Sweep
  <2> QED
    BY <1>5, <2>1, <2>2 DEF Swept
<1>7. mem' = [b \in Blocks |-> [s \in 0 .. BlockSlots - 1 |-> mem'[b][s]]]
  BY <1>5
<1>8. PICK Cleared :
         Cleared = {x \in (Blocks \ Freed) \X (0 .. BlockSlots - 1) :
                      \E l \in Lines \ U[x[1]] : x[2] \in WalkLine(x[1], l)}
  OBVIOUS
<1>9. objectMarks' = ((objectMarks \union Heads(marked)) \ Cleared) \intersect Heads(live')
  BY <1>1, <1>2, <1>8 DEF Sweep
<1>10. \A x \in objectMarks', l \in Lines :
          x \in (Blocks \ Freed) \X (0 .. BlockSlots - 1) /\ l \notin U[x[1]] =>
            x[2] \notin WalkLine(x[1], l)
  BY <1>8, <1>9
<1> QED
  BY <1>4, <1>6, <1>7, <1>10

\* The holes that a sweep writes into a block are the runs of its unmarked lines.
LEMMA SweptHoles ==
    ASSUME NEW U \in [Blocks -> SUBSET Lines], NEW Freed \in SUBSET Blocks, Swept(U, Freed),
           NEW b \in Blocks \ Freed, U[b] # {}
    PROVE  /\ Holes(b, Starts(U[b]))'
           /\ \A l \in Starts(U[b]) : HoleEnd(b, l)' = l + RunSize(U[b], l)
<1>1. PICK V \in SUBSET Lines : V = U[b] /\ V # {}
  OBVIOUS
<1>2. PICK H \in SUBSET Lines : H = Starts(V)
  BY StartsFacts
<1>3. ASSUME NEW l \in H
      PROVE  /\ HoleIn(b, l)' = Hole(NextOf(H, l), RunSize(V, l))
             /\ HoleEnd(b, l)' = l + RunSize(V, l)
             /\ l \in Nat /\ l + RunSize(V, l) \in 1 .. LINE_COUNT /\ l < l + RunSize(V, l)
  <2>1. l \in Lines /\ l \in Nat /\ LineStart(l) \in 0 .. BlockSlots - 1
    BY LineSlotsInBlock
  <2>2. LineOf(LineStart(l)) = l
    <3>1. LineStart(l) \in Nat /\ LineStart(l) <= LineStart(l) /\ LineStart(l) < LineStart(l + 1)
      BY <2>1, LineStarts
    <3> QED
      BY <2>1, <3>1, LineOfIs
  <2>3. mem'[b][LineStart(l)] = Hole(NextStart(V, l), RunSize(V, l))
    <3>1. \A s \in 0 .. BlockSlots - 1 : LineOf(s) \in Starts(V) /\ s = LineStart(LineOf(s)) =>
             mem'[b][s] = Hole(NextStart(V, LineOf(s)), RunSize(V, LineOf(s)))
      BY <1>1 DEF Swept
    <3> QED
      BY <1>2, <2>1, <2>2, <3>1
  <2>4. NextStart(V, l) = NextOf(H, l)
    BY <1>2, StartsFacts
  <2>5. HoleIn(b, l)' = Hole(NextOf(H, l), RunSize(V, l))
    BY <2>3, <2>4, WordFacts DEF HoleIn, LineStart
  <2>6. HoleEnd(b, l)' = l + RunSize(V, l)
    BY <2>5, WordFacts DEF HoleEnd
  <2>7. l \in V /\ RunSize(V, l) \in 1 .. LINE_COUNT /\ l + RunSize(V, l) \in 1 .. LINE_COUNT
    <3>1. l \in V
      BY <1>2, StartsFacts
    <3> QED
      BY <3>1, RunFacts
  <2> QED
    BY <2>1, <2>5, <2>6, <2>7, Geometry
<1>4. first'[b] = IF H = {} THEN LAST_HOLE ELSE Min(H)
  <2>1. first'[b] = Min(V)
    BY <1>1 DEF Swept
  <2> QED
    BY <1>1, <1>2, <2>1, StartsFacts
<1>5. ASSUME NEW l \in H, NEW k \in H, l < k PROVE HoleEnd(b, l)' <= k
  BY <1>2, <1>3, <1>5, StartsFacts
<1>6. Holes(b, H)'
  <2>1. ASSUME NEW l \in H
        PROVE  HoleIn(b, l)'[2] = NextOf(H, l)
               /\ l < HoleEnd(b, l)' /\ HoleEnd(b, l)' \in 1 .. LINE_COUNT
               /\ \A k \in H : l < k => HoleEnd(b, l)' <= k
    BY <1>3, <1>5, WordFacts
  <2> QED
    BY <1>4, <2>1 DEF Holes, NextOf
<1> QED
  BY <1>1, <1>2, <1>3, <1>6

LEMMA SweptShape ==
    ASSUME TypeOK, Pool, live' \subseteq live, heapEnd' = heapEnd, taken' = {},
           NEW U \in [Blocks -> SUBSET Lines], NEW Freed \in SUBSET Blocks,
           \A b \in Blocks : b \in Freed <=> U[b] = Lines,
           \A b \in Blocks : b \in Freed \/ b < heapEnd,
           Swept(U, Freed),
           mem' = [b \in Blocks |-> [s \in 0 .. BlockSlots - 1 |-> mem'[b][s]]]
    PROVE  /\ mem' \in [Blocks -> [0 .. BlockSlots - 1 -> Words]]
           /\ lineHeader' \in [Blocks -> [Lines -> {EMPTY} \union 0 .. SLOTS_IN_LINE - 1]]
           /\ flags' \in [Blocks -> {"free", "recyclable", "unavailable"}]
           /\ first' \in [Blocks -> Lines \union {LAST_HOLE}]
           /\ free' \subseteq 0 .. heapEnd - 1 /\ recycled' \subseteq 0 .. heapEnd - 1
           /\ objectMarks' \subseteq Heads(live')
           /\ Pool'
<1>1. ASSUME NEW b \in Blocks, NEW s \in 0 .. BlockSlots - 1 PROVE mem'[b][s] \in Words
  <2>1. mem[b][s] \in Words
    <3>1. mem \in [Blocks -> [0 .. BlockSlots - 1 -> Words]]
      BY DEF TypeOK
    <3>2. mem[b] \in [0 .. BlockSlots - 1 -> Words]
      BY ONLY <3>1, b \in Blocks
    <3> QED
      BY ONLY <3>2, s \in 0 .. BlockSlots - 1
  <2>2. ASSUME LineOf(s) \in Starts(U[b])
        PROVE  Hole(NextStart(U[b], LineOf(s)), RunSize(U[b], LineOf(s))) \in Words
    <3>1. PICK V \in SUBSET Lines : V = U[b]
      OBVIOUS
    <3>2. PICK l \in V : l = LineOf(s)
      BY <2>2, <3>1, StartsFacts
    <3>3. RunSize(V, l) \in 1 .. LINE_COUNT
      BY RunFacts
    <3>4. NextStart(V, l) \in Lines \union {LAST_HOLE}
      <4>1. Starts(V) \in SUBSET Lines /\ l \in Lines
        BY StartsFacts
      <4>2. NextOf(Starts(V), l) \in Lines \union {LAST_HOLE}
        BY <4>1, NextOfFacts
      <4> QED
        BY <4>2, StartsFacts
    <3> QED
      BY <3>1, <3>2, <3>3, <3>4 DEF Words
  <2> QED
    BY <2>1, <2>2 DEF Swept
<1>2. mem' \in [Blocks -> [0 .. BlockSlots - 1 -> Words]]
  BY <1>1
<1>3. \A b \in Blocks, l \in Lines : lineHeader[b][l] \in {EMPTY} \union 0 .. SLOTS_IN_LINE - 1
  BY DEF TypeOK
<1>4. lineHeader' \in [Blocks -> [Lines -> {EMPTY} \union 0 .. SLOTS_IN_LINE - 1]]
  BY <1>3 DEF Swept
<1>5. first' \in [Blocks -> Lines \union {LAST_HOLE}]
  <2>1. \A b \in Blocks : U[b] # {} => Min(U[b]) \in Lines
    BY StartsFacts
  <2>2. 0 \in Lines /\ \A b \in Blocks : first[b] \in Lines \union {LAST_HOLE}
    BY LinesFacts DEF TypeOK
  <2> QED
    BY <2>1, <2>2 DEF Swept
<1>6. /\ flags' \in [Blocks -> {"free", "recyclable", "unavailable"}]
      /\ free' = {b \in Freed : b < heapEnd} /\ recycled' \subseteq Blocks \ Freed
      /\ \A b \in Freed : flags'[b] = "free"
      /\ \A b \in recycled' : U[b] # {} /\ flags'[b] = "recyclable"
      /\ objectMarks' \subseteq Heads(live')
  BY DEF Swept
<1>7. ASSUME NEW b \in recycled' PROVE \E H \in SUBSET Lines : H # {} /\ Holes(b, H)'
  <2>1. b \in Blocks \ Freed /\ U[b] # {} /\ U[b] \in SUBSET Lines
    BY <1>6
  <2>2. Starts(U[b]) \in SUBSET Lines /\ Starts(U[b]) # {}
    BY <2>1, StartsFacts
  <2>3. Holes(b, Starts(U[b]))'
    BY <2>1, SweptHoles
  <2> QED
    BY <2>2, <2>3
<1>8. /\ free' \subseteq 0 .. heapEnd - 1 /\ recycled' \subseteq 0 .. heapEnd - 1
      /\ Fresh' \subseteq Freed
  <2>1. heapEnd \in Nat /\ heapEnd <= NumBlocks /\ NumBlocks \in Nat
    BY HeapFacts, BlocksFacts
  <2>2. \A b \in Blocks : b < heapEnd => b \in 0 .. heapEnd - 1
    BY <2>1, BlocksFacts
  <2>3. \A b \in heapEnd .. NumBlocks - 1 : b \in Blocks /\ ~(b < heapEnd)
    BY <2>1, BlocksFacts
  <2>4. \A b \in free' : b \in Freed /\ b \in Blocks /\ b < heapEnd
    BY <1>6
  <2>5. \A b \in recycled' : b \in Blocks /\ b < heapEnd
    BY <1>6
  <2> QED
    BY <2>2, <2>3, <2>4, <2>5 DEF Fresh
<1>9. Pool'
  <2>1. \A o \in live' : o.block < heapEnd'
    BY DEF Pool
  <2> QED
    BY <1>6, <1>7, <1>8, <2>1 DEF Pool, Lines
<1> QED
  BY <1>2, <1>4, <1>5, <1>6, <1>8, <1>9

\* What a collection leaves, and what it does to the call under way.
LEMMA CollectLeaves ==
    ASSUME TypeOK, Collect
    PROVE  /\ live' \subseteq live /\ theirs' \subseteq TheirLines
           /\ \E found \in SUBSET live' :
                 /\ Sweep(found, theirs')
                 /\ \A o \in found : ~HasMark(o)
                 /\ ~passedOver' => ~passedOver /\ found = live'
           /\ passedOver' \in BOOLEAN /\ taken' = {}
           /\ collections < MaxCollections /\ collections' = collections + 1
           /\ retried' = (request # 0) /\ pc' = "recycled"
           /\ UNCHANGED <<heapEnd, cursor, limit, largeCursor, overwritten, unprimed, short,
                          request>>
<1>1. PICK reached \in UNION {kSubset(n, live) : n \in 0 .. MaxSurvivors},
           busy \in SUBSET {x[1] : x \in TheirLines} :
         \E found \in SUBSET {o \in reached : ~HasMark(o)}, theyPass \in {FALSE, theirs # {}} :
             /\ found = reached \/ theyPass \/ \E o \in reached : HasMark(o)
             /\ live' = reached
             /\ theirs' = {x \in TheirLines : x[1] \in busy}
             /\ Sweep(found, theirs')
             /\ passedOver' = (passedOver \/ theyPass \/ found # reached)
  BY Zenon DEF Collect
<1>2. PICK found \in SUBSET {o \in reached : ~HasMark(o)}, theyPass \in {FALSE, theirs # {}} :
             /\ live' = reached
             /\ theirs' = {x \in TheirLines : x[1] \in busy}
             /\ Sweep(found, theirs')
             /\ passedOver' = (passedOver \/ theyPass \/ found # reached)
  BY <1>1
<1>3. reached \subseteq live
  BY DEF kSubset
<1>4. found \in SUBSET live' /\ \A o \in found : ~HasMark(o)
  BY <1>2
<1>5. passedOver' \in BOOLEAN /\ (~passedOver' => ~passedOver /\ found = live')
  BY <1>2
<1>6. /\ taken' = {} /\ collections < MaxCollections /\ collections' = collections + 1
      /\ retried' = (request # 0) /\ pc' = "recycled"
      /\ UNCHANGED <<heapEnd, cursor, limit, largeCursor, overwritten, unprimed, short, request>>
  BY DEF Collect, cursors, visit
<1> QED
  BY <1>2, <1>3, <1>4, <1>5, <1>6

\* Other threads have nothing behind the end of the heap.
LEMMA TheirLinesFacts ==
    ASSUME TypeOK
    PROVE  TheirLines \subseteq (0 .. heapEnd - 1) \X Lines
<1>1. taken \subseteq 0 .. heapEnd - 1 /\ theirs \subseteq (0 .. heapEnd - 1) \X Lines
  BY DEF TypeOK
<1> QED
  BY <1>1 DEF TheirLines

\* Nothing lives behind the end of the heap.
LEMMA NothingBehind ==
    ASSUME TypeOK, Pool, NEW b \in Blocks, ~(b < heapEnd), theirs' \subseteq TheirLines,
           NEW objects \in SUBSET live
    PROVE  LinesOf(b, objects) = {} /\ \A l : <<b, l>> \notin theirs'
<1>1. {o \in objects : o.block = b} = {}
  BY DEF Pool
<1>2. LinesOf(b, objects) = {}
  BY <1>1 DEF LinesOf
<1>3. b \notin 0 .. heapEnd - 1
  BY HeapFacts
<1> QED
  BY <1>2, <1>3, TheirLinesFacts

LEMMA CollectShape ==
    ASSUME Shape, Collect
    PROVE  Shape'
<1>1. TypeOK /\ Control /\ Pool
  BY DEF Shape
<1>2. /\ live' \subseteq live /\ theirs' \subseteq TheirLines
      /\ passedOver' \in BOOLEAN /\ taken' = {}
      /\ collections < MaxCollections /\ collections' = collections + 1
      /\ retried' = (request # 0) /\ pc' = "recycled"
      /\ UNCHANGED <<heapEnd, cursor, limit, largeCursor, overwritten, unprimed, short, request>>
  BY <1>1, CollectLeaves
<1>3. PICK found \in SUBSET live' : Sweep(found, theirs')
  BY <1>1, CollectLeaves
<1>4. PICK U \in [Blocks -> SUBSET Lines], Freed \in SUBSET Blocks :
             /\ \A b \in Blocks :
                  U[b] = {l \in Lines \ LinesOf(b, found) : <<b, l>> \notin theirs'}
             /\ \A b \in Blocks : b \in Freed <=> U[b] = Lines
             /\ Swept(U, Freed)
             /\ mem' = [b \in Blocks |-> [s \in 0 .. BlockSlots - 1 |-> mem'[b][s]]]
  BY <1>1, <1>3, SweepDoes
<1>5. theirs' \subseteq (0 .. heapEnd - 1) \X Lines
  BY <1>1, <1>2, TheirLinesFacts
<1>6. \A b \in Blocks : b \in Freed \/ b < heapEnd
  <2> SUFFICES ASSUME NEW b \in Blocks, ~(b < heapEnd) PROVE U[b] = Lines
    BY <1>4
  <2>1. LinesOf(b, found) = {} /\ \A l : <<b, l>> \notin theirs'
    BY <1>1, <1>2, NothingBehind
  <2> QED
    BY <1>4, <2>1
<1>7. /\ mem' \in [Blocks -> [0 .. BlockSlots - 1 -> Words]]
      /\ lineHeader' \in [Blocks -> [Lines -> {EMPTY} \union 0 .. SLOTS_IN_LINE - 1]]
      /\ flags' \in [Blocks -> {"free", "recyclable", "unavailable"}]
      /\ first' \in [Blocks -> Lines \union {LAST_HOLE}]
      /\ free' \subseteq 0 .. heapEnd - 1 /\ recycled' \subseteq 0 .. heapEnd - 1
      /\ objectMarks' \subseteq Heads(live')
      /\ Pool'
  BY <1>1, <1>2, <1>4, <1>6, SweptShape
<1>8. collections' \in 0 .. MaxCollections
  <2>1. collections \in 0 .. MaxCollections /\ MaxCollections \in Nat
    BY <1>1, SizesAssumption DEF TypeOK
  <2> QED
    BY <1>2, <2>1
<1>9. live' \subseteq S!Places
  BY <1>1, <1>2 DEF TypeOK
<1>10. TypeOK'
  BY <1>1, <1>2, <1>5, <1>7, <1>8, <1>9 DEF TypeOK, Heads, Lines
<1>11. Control' /\ ~Primed'
  BY <1>1, <1>2 DEF Control, Primed
<1> QED
  BY <1>7, <1>10, <1>11 DEF Shape

-----------------------------------------------------------------------------
(* The end of a collection: the size of the heap, and the visit to threads.  *)

LEMMA EnoughBlocks ==
    ASSUME NEW f \in SUBSET Blocks, NEW r \in SUBSET Blocks, NEW n \in Nat,
           CanInitCursors(f, r, n)
    PROVE  Cardinality(f) >= n /\ Cardinality(f \union r) >= 2 * n
<1>1. f \union r \in SUBSET Blocks
  OBVIOUS
<1>2. IsFiniteSet(f) /\ IsFiniteSet(f \union r)
  BY <1>1, BlocksFacts, FS_Subset
<1>3. Cardinality(f) \in Nat /\ Cardinality(f \union r) \in Nat
  BY <1>2, FS_CardinalityType
<1>4. Cardinality(f) <= Cardinality(f \union r)
  <2>1. f \in SUBSET (f \union r)
    OBVIOUS
  <2> QED
    BY <1>2, <2>1, FS_Subset
<1> QED
  BY <1>3, <1>4 DEF CanInitCursors

LEMMA KeepSizeShape ==
    ASSUME Shape, NEW n \in 1 .. MaxThreads, KeepSize(n)
    PROVE  Shape'
<1>1. TypeOK /\ Pool /\ Control /\ pc = "recycled"
  BY DEF Shape, KeepSize, StartVisit
<1>2. /\ UNCHANGED <<mem, lineHeader, flags, first, objectMarks, heapEnd, free, recycled, taken,
                     cursor, limit, largeCursor, live, theirs, passedOver, overwritten, request,
                     retried, collections>>
      /\ unprimed' = n /\ short' = FALSE /\ pc' = "visit"
  BY DEF KeepSize, StartVisit, store, cursors, population
<1>3. n \in Nat /\ n >= 1 /\ n \in 0 .. MaxThreads
  BY SizesAssumption
<1>4. TypeOK'
  BY <1>1, <1>2, <1>3 DEF TypeOK, Heads
<1>5. Pool'
  BY <1>1, <1>2, PoolKept
<1>6. Enough'
  BY <1>1, <1>2, <1>3, HeapFacts, EnoughBlocks DEF KeepSize, Enough
<1>7. Control' /\ ~Primed'
  BY <1>1, <1>2, <1>3, <1>6 DEF Control, Primed
<1> QED
  BY <1>4, <1>5, <1>7 DEF Shape

LEMMA IncrementFacts ==
    ASSUME TypeOK
    PROVE  Increment \in Nat
<1>1. heapEnd \in Nat /\ GROWTH_RATE \in Nat
  BY SizesAssumption, HeapFacts
<1>2. \A m, n \in Nat : m * n \in Nat
  OBVIOUS
<1>3. PICK a \in Nat : a = heapEnd * SLOTS_IN_BLOCK * GROWTH_RATE
  <2>1. SLOTS_IN_BLOCK \in Nat
    BY SMT DEF SLOTS_IN_BLOCK
  <2>2. heapEnd * SLOTS_IN_BLOCK \in Nat
    BY <1>1, <1>2, <2>1
  <2> QED
    BY <1>1, <1>2, <2>2
<1>4. PICK q \in Nat : q = a \div 100
  BY SMT
<1>5. (q - 1) \div SLOTS_IN_BLOCK + 1 \in Nat
  BY SMT DEF SLOTS_IN_BLOCK
<1> QED
  BY <1>3, <1>4, <1>5 DEF Increment

LEMMA GrowShape ==
    ASSUME Shape, NEW n \in 1 .. MaxThreads, Grow(n)
    PROVE  Shape'
<1>1. TypeOK /\ Pool /\ Control /\ pc = "recycled"
  BY DEF Shape, Grow, StartVisit
<1>2. /\ UNCHANGED <<mem, lineHeader, flags, first, objectMarks, recycled, taken,
                     cursor, limit, largeCursor, live, theirs, passedOver, overwritten, request,
                     retried, collections>>
      /\ unprimed' = n /\ pc' = "visit"
  BY DEF Grow, StartVisit, store, cursors, population
<1>3. n \in Nat /\ n >= 1 /\ n \in 0 .. MaxThreads
  BY SizesAssumption
<1>4. PICK end \in Nat : /\ end = heapEnd' /\ heapEnd <= end /\ end <= NumBlocks
                         /\ free' = free \union heapEnd .. end - 1
                         /\ short' = ~CanInitCursors(free', recycled, n)
  <2>1. Increment \in Nat /\ heapEnd \in Nat
    BY <1>1, IncrementFacts, HeapFacts
  <2> QED
    BY <2>1 DEF Grow
<1>5. /\ heapEnd \in Nat /\ InitialBlocks <= heapEnd /\ InitialBlocks \in Nat
      /\ NumBlocks \in Nat
  BY <1>1, BlocksFacts DEF TypeOK
<1>6. \A b : b \in 0 .. heapEnd - 1 \/ b \in heapEnd .. end - 1 => b \in 0 .. end - 1
  BY <1>4, <1>5
<1>7. /\ free' \subseteq 0 .. end - 1 /\ recycled' \subseteq 0 .. end - 1
      /\ taken' \subseteq 0 .. end - 1 /\ theirs' \subseteq (0 .. end - 1) \X Lines
  BY <1>1, <1>2, <1>4, <1>6 DEF TypeOK
<1>8. TypeOK'
  <2>1. heapEnd' \in InitialBlocks .. NumBlocks /\ short' \in BOOLEAN
    BY <1>4, <1>5
  <2> QED
    BY <1>1, <1>2, <1>3, <1>4, <1>7, <2>1 DEF TypeOK, Heads, Lines
<1>9. Fresh' = Fresh
  <2>1. \A b : b \in heapEnd .. end - 1 \/ b \in end .. NumBlocks - 1
                 <=> b \in heapEnd .. NumBlocks - 1
    BY <1>4, <1>5
  <2> QED
    BY <1>4, <2>1 DEF Fresh
<1>10. Pool'
  <2>1. \A o \in live : o.block < end
    BY <1>1, <1>4, <1>5, TypeFacts, BlocksFacts DEF Pool
  <2>2. \A d \in recycled : \E H \in SUBSET Lines : H # {} /\ Holes(d, H)'
    <3> SUFFICES ASSUME NEW d \in recycled PROVE \E H \in SUBSET Lines : H # {} /\ Holes(d, H)'
      OBVIOUS
    <3>1. PICK H \in SUBSET Lines : H # {} /\ Holes(d, H)
      BY <1>1 DEF Pool
    <3> QED
      BY <1>2, <3>1, HolesKept
  <2> QED
    BY <1>1, <1>2, <1>4, <1>9, <2>1, <2>2 DEF Pool, Lines
<1>11. ~short' => Enough'
  <2>1. free' \in SUBSET Blocks /\ recycled' \in SUBSET Blocks
    <3>1. \A b \in 0 .. end - 1 : b \in Blocks
      <4>1. end <= NumBlocks /\ NumBlocks \in Nat
        BY <1>4, <1>5
      <4> QED
        BY <4>1 DEF Blocks
    <3>2. free' \subseteq 0 .. end - 1 /\ recycled' \subseteq 0 .. end - 1
      BY <1>7
    <3> QED
      BY <3>1, <3>2
  <2> QED
    BY <1>2, <1>3, <1>4, <2>1, EnoughBlocks DEF Enough
<1>12. Control' /\ ~Primed'
  BY <1>1, <1>2, <1>3, <1>11 DEF Control, Primed
<1> QED
  BY <1>8, <1>10, <1>12 DEF Shape

LEMMA OutOfMemoryShape ==
    ASSUME Shape, NEW n, OutOfMemory(n)
    PROVE  Shape'
<1>1. TypeOK /\ Pool /\ Control
  BY DEF Shape
<1>2. /\ UNCHANGED <<mem, lineHeader, flags, first, objectMarks, heapEnd, free, recycled, taken,
                     cursor, limit, largeCursor, live, theirs, passedOver, overwritten, unprimed,
                     short, request, retried, collections>>
      /\ pc' = "exited"
  BY DEF OutOfMemory, store, pool, cursors, population, visit
<1>3. TypeOK'
  BY <1>1, <1>2 DEF TypeOK, Heads
<1>4. Pool'
  BY <1>1, <1>2, PoolKept
<1>5. Control' /\ ~Primed'
  BY <1>1, <1>2 DEF Control, Primed
<1> QED
  BY <1>3, <1>4, <1>5 DEF Shape

\* What is left when a thread is primed: if there was enough for all that were to
\* be primed there is for the others, and this one gets two blocks.
LEMMA PrimeTakes ==
    ASSUME TypeOK, Pool, Prime
    PROVE  /\ free' \subseteq free /\ recycled' \subseteq recycled /\ FreeBehind \subseteq free
           /\ free' = IF FreeBehind = {} THEN {} ELSE FreeBehind \ {Min(FreeBehind)}
           /\ FreeBehind # {} => Min(FreeBehind) \in FreeBehind /\ Min(FreeBehind) \in free
           /\ unprimed >= 1 /\ Enough => free # {} /\ FreeBehind # {} /\ Enough'
<1>1. /\ unprimed' = unprimed - 1 /\ unprimed \in Nat
      /\ recycled' = IF recycled = {} THEN {} ELSE recycled \ {Min(recycled)}
      /\ free' = IF FreeBehind = {} THEN {} ELSE FreeBehind \ {Min(FreeBehind)}
  BY SizesAssumption DEF Prime, TypeOK
<1>2. free \in SUBSET Blocks /\ recycled \in SUBSET Blocks /\ free \intersect recycled = {}
  BY HeapFacts DEF Pool
<1>3. FreeBehind \in SUBSET free /\ FreeBehind \in SUBSET Blocks
  BY <1>2 DEF FreeBehind
<1>4. FreeBehind # {} => Min(FreeBehind) \in FreeBehind
  BY <1>3, LowestBlock
<1>5. ASSUME unprimed >= 1, Enough PROVE free # {} /\ FreeBehind # {} /\ Enough'
  <2> DEFINE both == free \union recycled
  <2>1. IsFiniteSet(free) /\ IsFiniteSet(both)
    BY <1>2, BlocksFacts, FS_Subset
  <2>2. /\ Cardinality(free) \in Nat /\ Cardinality(both) \in Nat
        /\ Cardinality(free) >= unprimed /\ Cardinality(both) >= 2 * unprimed
    BY <1>5, <2>1, FS_CardinalityType DEF Enough
  <2>3. free # {}
    <3>1. Cardinality(free) # 0
      <4>1. unprimed >= 1 /\ unprimed \in Nat
        BY <1>1, <1>5
      <4> QED
        BY <2>2, <4>1
    <3> QED
      BY <3>1, FS_EmptySet
  <2>4. CASE recycled # {}
    <3>1. PICK r \in recycled : recycled' = recycled \ {r}
      <4>1. Min(recycled) \in recycled
        BY <1>2, <2>4, LowestBlock
      <4> QED
        BY <1>1, <2>4, <4>1
    <3>2. FreeBehind = free
      BY <2>4 DEF FreeBehind
    <3>3. PICK m \in free : free' = free \ {m}
      BY <1>1, <1>4, <2>3, <3>2
    <3>4. free' \union recycled' = (both \ {r}) \ {m} /\ m # r /\ m \in both \ {r} /\ r \in both
      BY <1>2, <3>1, <3>3
    <3>5. Cardinality(free') = Cardinality(free) - 1
      BY <2>1, <3>3, FS_RemoveElement
    <3>6. IsFiniteSet(both \ {r}) /\ Cardinality(both \ {r}) = Cardinality(both) - 1
      BY <2>1, <3>4, FS_RemoveElement
    <3>7. Cardinality((both \ {r}) \ {m}) = Cardinality(both) - 2
      BY <2>2, <3>4, <3>6, FS_RemoveElement
    <3> HIDE DEF both
    <3>8. Cardinality(free') >= unprimed' /\ Cardinality(free' \union recycled') >= 2 * unprimed'
      <4>1. PICK u \in Nat, f \in Nat, c \in Nat :
               u = unprimed /\ f = Cardinality(free) /\ c = Cardinality(both)
        BY <1>1, <2>2
      <4>2. Cardinality(free') = f - 1 /\ Cardinality(free' \union recycled') = c - 2
        BY <3>4, <3>5, <3>7, <4>1
      <4>3. unprimed' = u - 1 /\ f >= u /\ c >= 2 * u
        BY <1>1, <2>2, <4>1
      <4>4. f - 1 >= u - 1 /\ c - 2 >= 2 * (u - 1)
        BY <4>3
      <4> QED
        BY <4>2, <4>3, <4>4
    <3> QED
      BY <2>3, <3>2, <3>8 DEF Enough
  <2>5. CASE recycled = {}
    <3>1. recycled' = {} /\ both = free
      BY <1>1, <2>5
    <3>2. PICK r \in free : FreeBehind = free \ {r}
      <4>1. Min(free) \in free
        BY <1>2, <2>3, LowestBlock
      <4> QED
        BY <2>3, <2>5, <4>1 DEF FreeBehind
    <3>3. IsFiniteSet(FreeBehind) /\ Cardinality(FreeBehind) = Cardinality(free) - 1
      BY <2>1, <3>2, FS_RemoveElement
    <3>4. Cardinality(free) >= 2 * unprimed
      BY <2>2, <3>1
    <3> HIDE DEF both
    <3>5. FreeBehind # {}
      <4>1. Cardinality(FreeBehind) >= 1
        BY <1>1, <1>5, <2>2, <3>3, <3>4
      <4> QED
        BY <4>1, FS_EmptySet
    <3>6. PICK m \in FreeBehind : free' = FreeBehind \ {m}
      BY <1>1, <1>4, <3>5
    <3>7. Cardinality(free') = Cardinality(free) - 2
      BY <2>2, <3>3, <3>6, FS_RemoveElement
    <3>8. free' \union recycled' = free'
      BY <3>1
    <3>9. Cardinality(free') >= unprimed' /\ Cardinality(free' \union recycled') >= 2 * unprimed'
      <4>1. PICK u \in Nat, f \in Nat : u = unprimed /\ f = Cardinality(free)
        BY <1>1, <2>2
      <4>2. Cardinality(free') = f - 2 /\ Cardinality(free' \union recycled') = f - 2
        BY <3>7, <3>8, <4>1
      <4>3. unprimed' = u - 1 /\ f >= 2 * u /\ u >= 1
        BY <1>1, <1>5, <3>4, <4>1
      <4>4. f - 2 >= u - 1 /\ f - 2 >= 2 * (u - 1)
        BY <4>3
      <4> QED
        BY <4>2, <4>3, <4>4
    <3> QED
      BY <2>3, <3>5, <3>9 DEF Enough
  <2> QED
    BY <2>4, <2>5
<1>6. free' \subseteq free /\ recycled' \subseteq recycled
  BY <1>1, <1>3
<1> QED
  BY <1>1, <1>3, <1>4, <1>5, <1>6

LEMMA CountDown ==
    ASSUME NEW u \in 0 .. MaxThreads, u >= 1
    PROVE  u - 1 \in 0 .. MaxThreads
  BY SizesAssumption

LEMMA OtherInitCursorsShape ==
    ASSUME Shape, OtherInitCursors
    PROVE  Shape'
<1>1. TypeOK /\ Pool /\ Control /\ (Primed => Cursors) /\ unprimed \in Nat
  BY SizesAssumption DEF Shape, TypeOK
<1>2. /\ UNCHANGED <<mem, lineHeader, flags, first, objectMarks, heapEnd, cursor, limit,
                     largeCursor, live, theirs, passedOver, overwritten, short, request, retried,
                     collections, pc>>
      /\ unprimed' = unprimed - 1 /\ Prime
      /\ (pc = "visit" /\ unprimed > 1) \/ (pc = "primed" /\ unprimed > 0)
      /\ taken' = taken \union ((free \union recycled) \ (free' \union recycled'))
  BY DEF OtherInitCursors, Prime, cursors, population
<1>3. /\ free' \subseteq free /\ recycled' \subseteq recycled
      /\ unprimed >= 1 /\ Enough => Enough'
  BY <1>1, <1>2, PrimeTakes
<1>4. TypeOK'
  <2>1. unprimed' \in 0 .. MaxThreads
    <3>1. unprimed \in 0 .. MaxThreads /\ unprimed >= 1
      BY <1>1, <1>2 DEF TypeOK
    <3> QED
      BY <1>2, <3>1, CountDown
  <2> QED
    BY <1>1, <1>2, <1>3, <2>1 DEF TypeOK, Heads
<1>5. Pool'
  BY <1>1, <1>2, <1>3, PoolKept
<1>6. Control'
  BY <1>1, <1>2, <1>3 DEF Control, Primed, Fits, LargeFits, Finds
<1>7. Primed' => Cursors'
  <2> SUFFICES ASSUME Primed' PROVE Cursors'
    OBVIOUS
  <2>1. Cursors
    BY <1>1, <1>2 DEF Primed
  <2>2. Fresh' \subseteq Fresh /\ free \subseteq Fresh
    BY <1>1, <1>2, <1>3, FreshLess, HeapFacts
  <2>3. Fresh' \union recycled' \union taken' \subseteq Fresh \union recycled \union taken
    BY <1>2, <1>3, <2>2
  <2>4. /\ largeCursor # NULL => largeCursor[1] \notin Fresh \union recycled \union taken
        /\ cursor # NULL => /\ cursor[1] \notin Fresh \union recycled \union taken
                            /\ largeCursor # NULL => cursor[1] # largeCursor[1]
    BY <2>1 DEF Cursors
  <2> QED
    BY <1>1, <1>2, <2>1, <2>3, <2>4, CursorsKept
<1> QED
  BY <1>4, <1>5, <1>6, <1>7 DEF Shape

\* A call that collected finds room under one of the cursors primed for it.
LEMMA PrimedControl ==
    ASSUME TypeOK, Control, pc = "visit", pc' = "primed", UNCHANGED <<request, retried, short>>,
           cursor' = NULL => limit' = NULL,
           ~short => /\ limit' # NULL
                     /\ \E b \in Blocks : largeCursor' = <<b, 0>>
                     /\ \A size \in Sizes : size <= SLOTS_IN_LINE => Fits(size)'
    PROVE  Control'
<1>1. retried = (request # 0)
  BY DEF Control
<1>2. ASSUME ~short, request # 0 PROVE Finds'
  <2>1. PICK size \in Sizes : size = request
    BY <1>2 DEF TypeOK
  <2>2. PICK b \in Blocks : largeCursor' = <<b, 0>>
    BY <1>2
  <2>3. size \in Nat /\ size <= BlockSlots /\ SLOTS_IN_LINE \in Nat
    BY SizesFacts, Geometry
  <2>4. LargeFits(size)'
    BY <2>2, <2>3 DEF LargeFits
  <2>5. Fits(size)' \/ (size > SLOTS_IN_LINE /\ LargeFits(size)')
    <3>1. size <= SLOTS_IN_LINE \/ size > SLOTS_IN_LINE
      BY <2>3
    <3> QED
      BY <1>2, <2>4, <3>1
  <2> QED
    BY <2>1, <2>5 DEF Finds, Fits, LargeFits
<1>3. ~short => largeCursor' # NULL
  BY PositionFacts, Geometry
<1> QED
  BY <1>1, <1>2, <1>3 DEF Control, Primed

LEMMA ReinitCursorsShape ==
    ASSUME Shape, ReinitCursors
    PROVE  Shape'
<1>1. /\ TypeOK /\ Pool /\ Control /\ pc = "visit" /\ unprimed \in Nat /\ unprimed >= 1
      /\ (~short => Enough)
  BY SizesAssumption DEF Shape, ReinitCursors, Control, TypeOK
<1>2. /\ UNCHANGED <<mem, lineHeader, flags, objectMarks, heapEnd, taken, live, theirs,
                     passedOver, overwritten, short, request, retried, collections>>
      /\ unprimed' = unprimed - 1 /\ pc' = "primed" /\ Prime /\ InitCursors
      /\ recycled' = IF recycled = {} THEN {} ELSE recycled \ {Min(recycled)}
  BY DEF ReinitCursors, Prime, population
<1>3. /\ free' \subseteq free /\ recycled' \subseteq recycled /\ FreeBehind \subseteq free
      /\ free' = IF FreeBehind = {} THEN {} ELSE FreeBehind \ {Min(FreeBehind)}
      /\ FreeBehind # {} => Min(FreeBehind) \in FreeBehind /\ Min(FreeBehind) \in free
      /\ Enough => free # {} /\ FreeBehind # {}
  BY <1>1, <1>2, PrimeTakes
<1>4. /\ free \subseteq Blocks /\ recycled \subseteq Blocks /\ free \subseteq Fresh
      /\ Fresh' \subseteq Fresh /\ \A b \in free \ free' : b \notin Fresh'
      /\ Fresh \intersect recycled = {} /\ (Fresh \union recycled) \intersect taken = {}
  BY <1>1, <1>2, <1>3, HeapFacts, FreshLess DEF Pool
<1>5. unprimed' \in 0 .. MaxThreads
  <2>1. unprimed \in 0 .. MaxThreads
    BY <1>1 DEF TypeOK
  <2> QED
    BY <1>1, <1>2, <2>1, CountDown
<1>6. /\ largeCursor' \in Positions \union {NULL}
      /\ largeCursor' # NULL =>
            /\ largeCursor'[1] \in FreeBehind /\ largeCursor'[1] \in Blocks
            /\ largeCursor'[1] \notin Fresh' \union recycled' \union taken'
      /\ ~short => \E b \in Blocks : largeCursor' = <<b, 0>>
  <2>1. CASE FreeBehind = {}
    <3>1. largeCursor' = NULL /\ short
      BY <1>1, <1>2, <1>3, <2>1 DEF InitCursors, TypeOK
    <3> QED
      BY <3>1
  <2>2. CASE FreeBehind # {}
    <3>1. PICK f \in Blocks : f = Min(FreeBehind) /\ f \in FreeBehind /\ f \in free
      BY <1>3, <1>4, <2>2
    <3>2. largeCursor' = <<f, 0>> /\ free' = FreeBehind \ {f}
      BY <1>2, <1>3, <2>2, <3>1 DEF InitCursors
    <3>3. largeCursor' \in Positions /\ largeCursor'[1] = f
      BY <3>2, PositionFacts, Geometry
    <3>4. f \notin Fresh' \union recycled' \union taken'
      BY <1>2, <1>3, <1>4, <3>1, <3>2
    <3> QED
      BY <3>1, <3>2, <3>3, <3>4
  <2> QED
    BY <2>1, <2>2
<1>7. CASE recycled # {}
  <2>1. PICK b \in Blocks : b = Min(recycled) /\ b \in recycled
    BY <1>4, <1>7, LowestBlock
  <2>2. /\ flags[b] = "recyclable" /\ b \notin Fresh
        /\ recycled' = recycled \ {b} /\ TakeHole(b)
    BY <1>1, <1>2, <1>4, <1>7, <2>1 DEF Pool, InitCursors
  <2>3. PICK H \in SUBSET Lines : H # {} /\ Holes(b, H)
    BY <1>1, <2>1 DEF Pool
  <2>4. /\ cursor' \in Positions /\ cursor' # NULL /\ limit' \in Positions /\ limit' # NULL
        /\ cursor'[1] = b /\ cursor'[2] <= limit'[2]
        /\ \A size \in Sizes : size <= SLOTS_IN_LINE => Fits(size)'
        /\ \E e \in 0 .. LINE_COUNT : limit'[2] = LineStart(e)
        /\ \E K \in SUBSET Lines : Holes(b, K)' /\ Behind(K)'
        /\ first' \in [Blocks -> Lines \union {LAST_HOLE}]
        /\ \A d \in Blocks \ {b} : first'[d] = first[d]
    BY <1>1, <1>2, <2>2, <2>3, TakeHoleCursor
  <2>5. TypeOK'
    BY <1>1, <1>2, <1>3, <1>5, <1>6, <2>4 DEF TypeOK, Heads
  <2>6. Pool'
    <3>1. \A d \in recycled' : first'[d] = first[d]
      BY <1>4, <2>2, <2>4
    <3> QED
      BY <1>1, <1>2, <1>3, <3>1, PoolKept
  <2>7. Control'
    BY <1>1, <1>2, <1>6, <2>4, PrimedControl
  <2>8. Cursors'
    <3>1. b \notin Fresh' \union recycled' \union taken' /\ flags'[b] = "recyclable"
      BY <1>2, <1>4, <2>1, <2>2
    <3>2. largeCursor' # NULL => largeCursor'[1] # b
      BY <1>3, <1>4, <1>6, <2>2
    <3> QED
      BY <1>6, <2>4, <3>1, <3>2 DEF Cursors, Lines, LineStart
  <2> QED
    BY <2>5, <2>6, <2>7, <2>8 DEF Shape
<1>8. CASE recycled = {} /\ free # {}
  <2>1. PICK f \in Blocks : f = Min(free) /\ f \in free
    BY <1>4, <1>8, LowestBlock
  <2>2. /\ cursor' = <<f, 0>> /\ limit' = <<f, BlockSlots>> /\ first' = first
        /\ FreeBehind = free \ {f} /\ flags[f] = "free" /\ f \notin taken
    BY <1>1, <1>2, <1>4, <1>8, <2>1 DEF InitCursors, TakeFreeBlock, FreeBehind, Pool
  <2>3. 0 \in 0 .. BlockSlots /\ BlockSlots \in 0 .. BlockSlots /\ LINE_COUNT \in 0 .. LINE_COUNT
        /\ BlockSlots = LineStart(LINE_COUNT) /\ 0 <= BlockSlots
    BY Geometry
  <2>4. /\ cursor' \in Positions /\ cursor' # NULL /\ cursor'[1] = f /\ cursor'[2] = 0
        /\ limit' \in Positions /\ limit' # NULL /\ limit'[2] = BlockSlots
    BY <2>2, <2>3, PositionFacts
  <2>5. \A size \in Sizes : Fits(size)'
    <3>1. \A size \in Sizes : 0 + size <= BlockSlots
      BY SizesFacts
    <3> QED
      BY <2>4, <3>1 DEF Fits
  <2>6. TypeOK'
    BY <1>1, <1>2, <1>3, <1>5, <1>6, <2>2, <2>4 DEF TypeOK, Heads
  <2>7. Pool'
    BY <1>1, <1>2, <1>3, <2>2, PoolKept
  <2>8. Control'
    BY <1>1, <1>2, <1>6, <2>4, <2>5, PrimedControl
  <2>9. Cursors'
    <3>1. f \notin free'
      BY <1>3, <2>2
    <3>2. f \notin Fresh' \union recycled' \union taken' /\ flags'[f] = "free"
      BY <1>2, <1>4, <1>8, <2>1, <2>2, <3>1
    <3>3. largeCursor' # NULL => largeCursor'[1] # f
      BY <1>6, <2>2
    <3> QED
      BY <1>6, <2>3, <2>4, <3>2, <3>3 DEF Cursors
  <2> QED
    BY <2>6, <2>7, <2>8, <2>9 DEF Shape
<1>9. CASE free \union recycled = {}
  <2>1. /\ cursor' = NULL /\ limit' = NULL /\ largeCursor' = NULL /\ first' = first
        /\ short
    BY <1>1, <1>2, <1>3, <1>9 DEF InitCursors, TypeOK
  <2>2. TypeOK'
    BY <1>1, <1>2, <1>3, <1>5, <1>6, <2>1 DEF TypeOK, Heads
  <2>3. Pool'
    BY <1>1, <1>2, <1>3, <2>1, PoolKept
  <2>4. Control'
    BY <1>1, <1>2, <2>1, PrimedControl
  <2>5. Cursors'
    BY <2>1 DEF Cursors
  <2> QED
    BY <2>2, <2>3, <2>4, <2>5 DEF Shape
<1> QED
  BY <1>7, <1>8, <1>9

LEMMA EndCollectionShape ==
    ASSUME Shape, EndCollection
    PROVE  Shape'
<1>1. TypeOK /\ Pool /\ Control /\ Cursors /\ pc = "primed"
  BY DEF Shape, EndCollection, Primed
<1>2. /\ UNCHANGED <<mem, lineHeader, flags, first, objectMarks, heapEnd, free, recycled, taken,
                     cursor, limit, largeCursor, live, theirs, passedOver, overwritten, unprimed,
                     short, request, retried, collections>>
      /\ pc' = IF request = 0 THEN "idle" ELSE "alloc"
  BY DEF EndCollection, store, pool, cursors, population, visit
<1>3. TypeOK'
  BY <1>1, <1>2 DEF TypeOK, Heads
<1>4. Pool'
  BY <1>1, <1>2, PoolKept
<1>5. Control'
  BY <1>1, <1>2 DEF Control, Primed, Finds, Fits, LargeFits
<1>6. Cursors'
  <2>1. Fresh' = Fresh
    BY <1>2 DEF Fresh
  <2>2. /\ largeCursor # NULL => largeCursor[1] \notin Fresh' \union recycled' \union taken'
        /\ cursor # NULL => /\ cursor[1] \notin Fresh' \union recycled' \union taken'
                            /\ largeCursor # NULL => cursor[1] # largeCursor[1]
    BY <1>1, <1>2, <2>1 DEF Cursors
  <2> QED
    BY <1>1, <1>2, <2>2, CursorsKept
<1> QED
  BY <1>3, <1>4, <1>5, <1>6 DEF Shape

LEMMA InitShape == Init => Shape
<1> SUFFICES ASSUME Init PROVE Shape
  OBVIOUS
<1>1. 0 \in Blocks /\ 1 \in Blocks /\ 0 # 1 /\ 0 \in 0 .. BlockSlots /\ BlockSlots \in 0 .. BlockSlots
      /\ BlockSlots = LineStart(LINE_COUNT) /\ LINE_COUNT \in 0 .. LINE_COUNT /\ 0 \in Lines
      /\ 0 <= BlockSlots
  BY BlocksFacts, Geometry, LinesFacts
<1>2. /\ cursor \in Positions /\ cursor # NULL /\ cursor[1] = 0 /\ cursor[2] = 0
      /\ limit \in Positions /\ limit # NULL /\ limit[2] = BlockSlots
      /\ largeCursor \in Positions /\ largeCursor # NULL /\ largeCursor[1] = 1
  BY <1>1, PositionFacts DEF Init
<1>3. TypeOK
  <2>1. mem \in [Blocks -> [0 .. BlockSlots - 1 -> Words]]
    BY DEF Init, Words
  <2>2. 0 \in 0 .. MaxCollections
    BY SizesAssumption
  <2>3. /\ heapEnd = InitialBlocks /\ heapEnd \in InitialBlocks .. NumBlocks
        /\ free \subseteq 0 .. heapEnd - 1
    BY BlocksFacts DEF Init
  <2>4. 0 \in 0 .. MaxThreads
    BY SizesAssumption
  <2> QED
    BY <1>1, <1>2, <2>1, <2>2, <2>3, <2>4 DEF Init, TypeOK
<1>4. 0 \notin Fresh /\ 1 \notin Fresh /\ Fresh \subseteq Blocks
  <2>1. \A b \in Fresh : b >= 2
    BY BlocksFacts DEF Init, Fresh
  <2> QED
    BY <1>3, <2>1, HeapFacts
<1>5. Pool
  BY <1>4 DEF Init, Pool
<1>6. Control
  BY <1>2 DEF Init, Control, Primed
<1>7. Cursors
  BY <1>1, <1>2, <1>4 DEF Init, Cursors
<1> QED
  BY <1>3, <1>5, <1>6, <1>7 DEF Shape

LEMMA NextShape == Shape /\ [Next]_vars => Shape'
<1> SUFFICES ASSUME Shape, [Next]_vars PROVE Shape'
  OBVIOUS
<1>1. ASSUME NEW size \in Sizes, Alloc(size) PROVE Shape'
  BY <1>1, AllocShape
<1>2. ASSUME NEW size \in Sizes, NextLineRecycled(size) PROVE Shape'
  BY <1>2, NextLineRecycledShape
<1>3. ASSUME NEW size \in Sizes, NextBlock(size) PROVE Shape'
  BY <1>3, NextBlockShape
<1>4. ASSUME NEW size \in Sizes, NoBlock(size) PROVE Shape'
  <2>1. ~(size > SLOTS_IN_LINE)
    BY <1>4, SizesFacts, Geometry DEF NoBlock, NextLine
  <2>2. /\ Called(size) /\ ~Fits(size) /\ Fail(size) /\ cursor' \in {cursor, NULL}
        /\ UNCHANGED <<store, pool, limit, largeCursor, population, visit, retried, collections>>
    BY <1>4 DEF NoBlock, NextLine
  <2> QED
    BY <2>1, <2>2, FailShape
<1>5. ASSUME NEW size \in Sizes, OverflowAlloc(size) PROVE Shape'
  BY <1>5, OverflowAllocShape
<1>6. ASSUME NEW size \in Sizes, OverflowBlock(size) PROVE Shape'
  BY <1>6, OverflowBlockShape
<1>7. ASSUME NEW size \in Sizes, OverflowNoBlock(size) PROVE Shape'
  <2>1. /\ Called(size) /\ ~Fits(size) /\ ~LargeFits(size) /\ Fail(size)
        /\ UNCHANGED <<store, pool, cursor, limit, largeCursor, population, visit, retried,
                        collections>>
    BY <1>7 DEF OverflowNoBlock, Overflow, cursors
  <2> QED
    BY <2>1, FailShape
<1>8. ASSUME UNCHANGED vars PROVE Shape'
  <2>1. UNCHANGED <<mem, lineHeader, flags, first, objectMarks, heapEnd, free, recycled, taken,
                    cursor, limit, largeCursor, live, theirs, passedOver, overwritten, unprimed,
                    short, request, retried, collections, pc>>
    BY <1>8 DEF vars, store, pool, cursors, population, visit, control
  <2>2. TypeOK /\ Pool /\ Control
    BY DEF Shape
  <2>3. TypeOK'
    BY <2>1, <2>2 DEF TypeOK, Heads
  <2>4. Pool'
    BY <2>1, <2>2, PoolKept
  <2>5. Control'
    BY <2>1, <2>2 DEF Control, Primed, Finds, Fits, LargeFits, Enough
  <2>6. Primed' => Cursors'
    <3>1. Fresh' = Fresh
      BY <2>1 DEF Fresh
    <3>2. Cursors =>
            /\ largeCursor # NULL => largeCursor[1] \notin Fresh' \union recycled' \union taken'
            /\ cursor # NULL => /\ cursor[1] \notin Fresh' \union recycled' \union taken'
                                /\ largeCursor # NULL => cursor[1] # largeCursor[1]
      BY <2>1, <3>1 DEF Cursors
    <3>3. Cursors => Cursors'
      BY <2>1, <2>2, <3>2, CursorsKept
    <3> QED
      BY <2>1, <3>3 DEF Shape, Primed
  <2> QED
    BY <2>3, <2>4, <2>5, <2>6 DEF Shape
<1>9. ASSUME NEW size \in Sizes, OverflowThroughNull(size) PROVE Shape'
  BY <1>9, OverflowThroughNullShape
<1>10. ASSUME NEW n \in 1 .. MaxThreads, KeepSize(n) \/ Grow(n) \/ OutOfMemory(n) PROVE Shape'
  BY <1>10, KeepSizeShape, GrowShape, OutOfMemoryShape
<1> QED
  BY <1>1, <1>2, <1>3, <1>4, <1>5, <1>6, <1>7, <1>8, <1>9, <1>10, OthersTakeShape, CollectShape,
     OtherInitCursorsShape, ReinitCursorsShape, EndCollectionShape DEF Next

\* However far a walk over a line goes: what the sweep lists is what its header
\* says, the holes a block has left form a chain that ends, no cursor is in a
\* listed block, in another thread's or in the other cursor's, and the threads
\* still to be primed find their blocks if the visit began with enough of them.
\* (Block_Recycle, nextLineRecycled, Heap_Recycle.)
THEOREM ShapeHolds == Spec => []Shape
  BY InitShape, NextShape, PTL DEF Spec

\* Every variable of the small heap keeps its type: headers of holes, of lines
\* and of blocks hold nothing but what the code can read back.
THEOREM TypesHold == Spec => []TypeOK
<1>1. Shape => TypeOK
  BY DEF Shape
<1> QED
  BY <1>1, ShapeHolds, PTL

\* An allocation is retried without success, or an overflow cursor primed from
\* NULL is bumped, only after a collection whose one step of growth was too small
\* for its threads; for every number of threads, and in every order in which they
\* are primed and take blocks.
\* (Heap_allocSmallSlow, Heap_Recycle, ThreadLocalAllocator_InitCursors.)
THEOREM FailuresOnlyWhenShort == Spec => []FailsOnlyWhenShort
<1>1. Shape => FailsOnlyWhenShort
  BY DEF Shape, Control, FailsOnlyWhenShort
<1> QED
  BY <1>1, ShapeHolds, PTL

\* No call finds a NULL cursor with an old limit that it would fit below: such
\* a cursor lasts from the failed call to the sweep and priming behind it.
\* (nextLineRecycled, Alloc.)
THEOREM NullNeverBumped == Spec => []NoNullBump
<1>1. Shape => NoNullBump
  BY DEF Shape, Control, NoNullBump, Called, Fits
<1> QED
  BY <1>1, ShapeHolds, PTL

-----------------------------------------------------------------------------
(* What a walk over a line finds, and what is on offer, up to the first live *)
(* object that is passed over.                                               *)

\* An object written below a stretch, or in another block, leaves it blank.
LEMMA BumpKeepsBlank ==
    ASSUME TypeOK, NEW b \in Blocks, NEW c \in Nat, NEW size \in Sizes, NEW lim \in Nat,
           c + size <= lim, lim <= BlockSlots, Bump(b, c, size, lim),
           NEW d \in Blocks, NEW from \in Nat, NEW to \in Nat, Blank(d, from, to),
           d # b \/ c + size <= from
    PROVE  Blank(d, from, to)'
<1>1. \A o \in live' : o \in live \/ o.block # d \/ o.start + o.size <= from \/ to <= o.start
  BY DEF Bump
<1>2. ASSUME NEW l \in Lines, from <= LineStart(l), LineStart(l) < to
      PROVE  lineHeader'[d][l] = lineHeader[d][l]
  <2>1. CASE d # b
    BY <2>1, BumpWrites
  <2>2. CASE d = b
    <3>1. LineStart(LineOf(c)) <= c /\ LineStart(LineOf(c)) \in Nat /\ LineStart(l) \in Nat
          /\ size \in Nat /\ 1 <= size
      BY LineOfBounds, LineStarts, LinesFacts, SizesFacts
    <3>2. l # LineOf(c)
      BY <1>2, <2>2, <3>1
    <3> QED
      BY <2>2, <3>2, BumpWrites
  <2> QED
    BY <2>1, <2>2
<1>3. theirs' = theirs
  BY BumpLeaves DEF outside
<1> QED
  BY <1>1, <1>2, <1>3, BlankKept

\* Holes that are blank stay so if an object is written elsewhere.
LEMMA BumpKeepsBlankHoles ==
    ASSUME TypeOK, NEW b \in Blocks, NEW c \in Nat, NEW size \in Sizes, NEW lim \in Nat,
           c + size <= lim, lim <= BlockSlots, Bump(b, c, size, lim),
           NEW d \in Blocks, NEW H \in SUBSET Lines, Holes(d, H), BlankHoles(d, H),
           d # b \/ \A l \in H : lim <= LineStart(l)
    PROVE  Holes(d, H)' /\ BlankHoles(d, H)'
<1>1. Holes(d, H)' /\ \A l \in H : HoleEnd(d, l)' = HoleEnd(d, l)
  BY BumpKeepsHoles
<1>2. ASSUME NEW l \in H PROVE Blank(d, LineStart(l), LineStart(HoleEnd(d, l)))'
  <2>1. PICK e \in Nat : e = HoleEnd(d, l)
    BY Geometry DEF Holes
  <2>2. LineStart(l) \in Nat /\ LineStart(e) \in Nat
    BY LinesFacts, LineStarts
  <2>3. d # b \/ c + size <= LineStart(l)
    BY <2>2, SizesFacts
  <2>4. Blank(d, LineStart(l), LineStart(e))
    BY <2>1 DEF BlankHoles
  <2>5. PICK from \in Nat, to \in Nat : from = LineStart(l) /\ to = LineStart(e)
    BY <2>2
  <2>6. Blank(d, from, to)'
    BY <2>3, <2>4, <2>5, BumpKeepsBlank
  <2> QED
    BY <1>1, <2>1, <2>5, <2>6 DEF LineStart, Blank
<1> QED
  BY <1>1, <1>2 DEF BlankHoles

LEMMA BumpKeepsBlankPool ==
    ASSUME TypeOK, BlankPool,
           NEW b \in Blocks, NEW c \in Nat, NEW size \in Sizes, NEW lim \in Nat,
           c + size <= lim, lim <= BlockSlots, Bump(b, c, size, lim),
           b \notin Fresh \union recycled
    PROVE  BlankPool'
<1>1. Fresh' = Fresh /\ recycled' = recycled /\ Fresh \subseteq Blocks /\ recycled \subseteq Blocks
  BY BumpLeaves, HeapFacts
<1>2. ASSUME NEW d \in Fresh PROVE Blank(d, 0, BlockSlots)'
  <2>1. Blank(d, 0, BlockSlots) /\ d \in Blocks /\ d # b
    BY <1>1 DEF BlankPool
  <2>2. PICK to \in Nat : to = BlockSlots
    BY Geometry
  <2>3. Blank(d, 0, to)'
    BY <2>1, <2>2, BumpKeepsBlank
  <2> QED
    BY <2>2, <2>3
<1>3. ASSUME NEW d \in recycled
      PROVE  \E H \in SUBSET Lines : H # {} /\ Holes(d, H)' /\ BlankHoles(d, H)'
  <2>1. PICK H \in SUBSET Lines : H # {} /\ Holes(d, H) /\ BlankHoles(d, H)
    BY DEF BlankPool
  <2>2. Holes(d, H)' /\ BlankHoles(d, H)'
    BY <1>1, <2>1, BumpKeepsBlankHoles
  <2> QED
    BY <2>1, <2>2
<1> QED
  BY <1>1, <1>2, <1>3 DEF BlankPool, Lines

\* An object put into blank memory overwrites none.
LEMMA BumpApart ==
    ASSUME TypeOK, ~overwritten, NEW b, NEW c \in Nat, NEW size \in Sizes, NEW lim \in Nat,
           c + size <= lim, Bump(b, c, size, lim), Blank(b, c, lim)
    PROVE  ~overwritten'
<1>1. PICK new : new = [block |-> b, start |-> c, size |-> size]
                 /\ overwritten' = (overwritten \/ S!Overlaps(new))
  BY DEF Bump
<1>2. ASSUME NEW o \in live PROVE S!WordsOf(o) \intersect S!WordsOf(new) = {}
  <2>1. CASE o.block # b
    BY <1>1, <2>1 DEF S!WordsOf
  <2>2. CASE o.block = b
    <3>1. PICK s \in Nat, n \in Nat, k \in Nat : s = o.start /\ n = o.size /\ k = size
      BY TypeFacts, SizesFacts, Geometry
    <3>2. s + n <= c \/ lim <= s
      BY <2>2, <3>1 DEF Blank
    <3>3. \A x \in s .. s + n - 1 : x \notin c .. c + k - 1
      BY <3>1, <3>2
    <3>4. \A x \in S!WordsOf(o) : x[2] \in s .. s + n - 1
      BY <3>1 DEF S!WordsOf
    <3>5. \A x \in S!WordsOf(new) : x[2] \in c .. c + k - 1
      BY <1>1, <3>1 DEF S!WordsOf
    <3> QED
      BY <3>3, <3>4, <3>5
  <2> QED
    BY <2>1, <2>2
<1>3. ~S!Overlaps(new)
  BY <1>2 DEF S!Overlaps
<1> QED
  BY <1>1, <1>3

LEMMA AllocContents ==
    ASSUME Shape, Contents, NEW size \in Sizes, Alloc(size)
    PROVE  Contents'
<1>1. TypeOK /\ Primed /\ Cursors /\ cursor # NULL /\ limit # NULL
      /\ BlankCursors /\ BlankPool /\ Headers(Open) /\ ~overwritten
  BY CalledPrimed DEF Alloc, Contents
<1>2. PICK b \in Blocks, c \in 0 .. BlockSlots : cursor = <<b, c>> /\ b = cursor[1] /\ c = cursor[2]
  BY <1>1, TypeFacts
<1>3. PICK lim \in 0 .. BlockSlots : lim = limit[2]
  BY <1>1, TypeFacts
<1>4. size \in Nat /\ 1 <= size /\ c \in Nat /\ lim \in Nat /\ lim <= BlockSlots
      /\ c + size <= lim /\ c < lim
  BY <1>1, <1>2, <1>3, SizesFacts, Geometry DEF Alloc, Fits
<1>5. /\ Bump(b, c, size, lim)
      /\ cursor' = <<b, c + size>> /\ limit' = limit /\ largeCursor' = largeCursor
  BY <1>2, <1>3 DEF Alloc
<1>6. b \notin Fresh \union recycled /\ (largeCursor # NULL => b # largeCursor[1])
  BY <1>1, <1>2 DEF Cursors
<1>7. flags' = flags /\ objectMarks' = objectMarks /\ pc' = "idle"
  BY <1>5, BumpLeaves
<1>8. Headers(Open)'
  <2>1. PICK e \in 0 .. LINE_COUNT : lim = LineStart(e)
    BY <1>1, <1>3 DEF Cursors
  <2>2. <<b, c>> \in Open
    BY <1>1, <1>2, <1>3, <1>4 DEF Open
  <2>3. Blank(b, c, lim)
    BY <1>1, <1>2, <1>3 DEF BlankCursors
  <2>4. PICK open : open = Open
    OBVIOUS
  <2>5. PICK open2 : open2 = Open'
    OBVIOUS
  <2>6. \A x \in open2 : \/ x = <<b, c + size>> /\ c + size < lim
                         \/ x \in open /\ x[1] # b
    BY <1>1, <1>3, <1>5, <1>6, <2>4, <2>5 DEF Open, Primed
  <2>7. Headers(open) /\ <<b, c>> \in open
    BY <1>1, <2>2, <2>4
  <2>8. Headers(open2)'
    BY <1>1, <1>4, <1>5, <2>1, <2>3, <2>6, <2>7, HeadersWritten
  <2> QED
    BY <2>5, <2>8 DEF Headers, Walked
<1>9. BlankPool'
  BY <1>1, <1>4, <1>5, <1>6, BumpKeepsBlankPool
<1>10. largeCursor # NULL => Blank(largeCursor[1], largeCursor[2], BlockSlots)'
  <2> SUFFICES ASSUME largeCursor # NULL
               PROVE  Blank(largeCursor[1], largeCursor[2], BlockSlots)'
    OBVIOUS
  <2>1. PICK d \in Blocks, from \in Nat, to \in Nat :
           d = largeCursor[1] /\ from = largeCursor[2] /\ to = BlockSlots
    BY <1>1, TypeFacts, Geometry
  <2>2. Blank(d, from, to) /\ d # b
    BY <1>1, <1>6, <2>1 DEF BlankCursors
  <2>3. Blank(d, from, to)'
    BY <1>1, <1>4, <1>5, <2>2, BumpKeepsBlank
  <2> QED
    BY <1>5, <2>1, <2>3
<1>11. Blank(b, c + size, lim)'
  <2>1. Blank(b, c, lim)
    BY <1>1, <1>2, <1>3 DEF BlankCursors
  <2>2. PICK from \in Nat : from = c + size /\ c <= from /\ from <= lim
    BY <1>4
  <2>3. Blank(b, from, lim)
    BY <1>1, <1>4, <2>1, <2>2, BlankPart
  <2>4. c + size <= from
    BY <2>2
  <2>5. Blank(b, from, lim)'
    BY <1>1, <1>4, <1>5, <2>3, <2>4, BumpKeepsBlank
  <2> QED
    BY <2>2, <2>5
<1>12. flags[b] # "free" =>
          \E H \in SUBSET Lines : Holes(b, H)' /\ Behind(H)' /\ BlankHoles(b, H)'
  <2> SUFFICES ASSUME flags[b] # "free"
               PROVE  \E H \in SUBSET Lines : Holes(b, H)' /\ Behind(H)' /\ BlankHoles(b, H)'
    OBVIOUS
  <2>1. PICK H \in SUBSET Lines : Holes(b, H) /\ Behind(H) /\ BlankHoles(b, H)
    BY <1>1, <1>2 DEF BlankCursors
  <2>2. \A l \in H : lim <= LineStart(l)
    BY <1>3, <2>1 DEF Behind
  <2>3. Holes(b, H)' /\ BlankHoles(b, H)'
    BY <1>1, <1>4, <1>5, <2>1, <2>2, BumpKeepsBlankHoles
  <2>4. Behind(H)'
    BY <1>3, <1>5, <2>2 DEF Behind, LineStart
  <2> QED
    BY <2>3, <2>4
<1>13. BlankCursors'
  BY <1>3, <1>5, <1>7, <1>10, <1>11, <1>12 DEF BlankCursors, Lines
<1>14. ~overwritten'
  <2>1. Blank(b, c, lim)
    BY <1>1, <1>2, <1>3 DEF BlankCursors
  <2> QED
    BY <1>1, <1>4, <1>5, <2>1, BumpApart
<1> QED
  BY <1>7, <1>8, <1>9, <1>13, <1>14 DEF Contents, InReach

LEMMA OverflowAllocContents ==
    ASSUME Shape, Contents, NEW size \in Sizes, OverflowAlloc(size)
    PROVE  Contents'
<1>1. TypeOK /\ Primed /\ Cursors /\ largeCursor # NULL /\ (cursor # NULL => limit # NULL)
      /\ BlankCursors /\ BlankPool /\ Headers(Open) /\ ~overwritten
  BY CalledPrimed DEF OverflowAlloc, Overflow, Contents
<1>2. PICK b \in Blocks, c \in 0 .. BlockSlots :
         largeCursor = <<b, c>> /\ b = largeCursor[1] /\ c = largeCursor[2]
  BY <1>1, TypeFacts
<1>3. PICK lim \in Nat : lim = BlockSlots
  BY Geometry
<1>4. size \in Nat /\ 1 <= size /\ c \in Nat /\ lim <= BlockSlots /\ c + size <= lim /\ c < lim
  BY <1>2, <1>3, SizesFacts, Geometry DEF OverflowAlloc, LargeFits
<1>5. /\ Bump(b, c, size, lim)
      /\ largeCursor' = <<b, c + size>> /\ limit' = limit /\ cursor' = cursor
  BY <1>2, <1>3 DEF OverflowAlloc
<1>6. cursor # NULL => cursor[1] # b
  BY <1>1, <1>2 DEF Cursors
<1>7. b \notin Fresh \union recycled
  BY <1>1, <1>2 DEF Cursors
<1>8. flags' = flags /\ objectMarks' = objectMarks /\ pc' = "idle"
  BY <1>5, BumpLeaves
<1>9. Blank(b, c, lim)
  BY <1>1, <1>2, <1>3 DEF BlankCursors
<1>10. Headers(Open)'
  <2>1. PICK e \in 0 .. LINE_COUNT : lim = LineStart(e)
    BY <1>3, Geometry
  <2>2. <<b, c>> \in Open
    BY <1>1, <1>2, <1>3, <1>4 DEF Open
  <2>3. PICK open : open = Open
    OBVIOUS
  <2>4. PICK open2 : open2 = Open'
    OBVIOUS
  <2>5. \A x \in open2 : \/ x = <<b, c + size>> /\ c + size < lim
                         \/ x \in open /\ x[1] # b
    BY <1>1, <1>3, <1>5, <1>6, <2>3, <2>4 DEF Open, Primed
  <2>6. Headers(open) /\ <<b, c>> \in open
    BY <1>1, <2>2, <2>3
  <2>7. Headers(open2)'
    BY <1>1, <1>4, <1>5, <1>9, <2>1, <2>5, <2>6, HeadersWritten
  <2> QED
    BY <2>4, <2>7 DEF Headers, Walked
<1>11. BlankPool'
  BY <1>1, <1>4, <1>5, <1>7, BumpKeepsBlankPool
<1>12. Blank(b, c + size, lim)'
  <2>1. PICK x \in Nat : x = c + size /\ c <= x /\ x <= lim
    BY <1>4
  <2>2. Blank(b, x, lim)
    BY <1>1, <1>4, <1>9, <2>1, BlankPart
  <2>3. c + size <= x
    BY <2>1
  <2>4. Blank(b, x, lim)'
    BY <1>1, <1>4, <1>5, <2>2, <2>3, BumpKeepsBlank
  <2> QED
    BY <2>1, <2>4
<1>13. ASSUME cursor # NULL
       PROVE  /\ Blank(cursor[1], cursor[2], limit[2])'
              /\ flags[cursor[1]] # "free" =>
                   \E H \in SUBSET Lines :
                       Holes(cursor[1], H)' /\ Behind(H)' /\ BlankHoles(cursor[1], H)'
  <2>1. PICK d \in Blocks, from \in Nat, to \in Nat :
           d = cursor[1] /\ from = cursor[2] /\ to = limit[2]
    BY <1>1, <1>13, TypeFacts, Geometry
  <2>2. d # b
    BY <1>6, <1>13, <2>1
  <2>3. Blank(d, from, to)'
    <3>1. Blank(d, from, to) /\ d # b
      BY <1>1, <1>6, <1>13, <2>1 DEF BlankCursors
    <3> QED
      BY <1>1, <1>4, <1>5, <3>1, BumpKeepsBlank
  <2>4. flags[d] # "free" =>
          \E H \in SUBSET Lines : Holes(d, H)' /\ Behind(H)' /\ BlankHoles(d, H)'
    <3> SUFFICES ASSUME flags[d] # "free"
                 PROVE  \E H \in SUBSET Lines : Holes(d, H)' /\ Behind(H)' /\ BlankHoles(d, H)'
      OBVIOUS
    <3>1. PICK H \in SUBSET Lines : Holes(d, H) /\ Behind(H) /\ BlankHoles(d, H)
      BY <1>1, <1>13, <2>1 DEF BlankCursors
    <3>2. Holes(d, H)' /\ BlankHoles(d, H)'
      BY <1>1, <1>4, <1>5, <2>2, <3>1, BumpKeepsBlankHoles
    <3>3. Behind(H)'
      BY <1>5, <3>1 DEF Behind, LineStart
    <3> QED
      BY <3>2, <3>3
  <2> QED
    BY <1>5, <2>1, <2>3, <2>4
<1>14. BlankCursors'
  BY <1>3, <1>5, <1>8, <1>12, <1>13 DEF BlankCursors, Lines
<1>15. ~overwritten'
  BY <1>1, <1>4, <1>5, <1>9, BumpApart
<1> QED
  BY <1>8, <1>10, <1>11, <1>14, <1>15 DEF Contents, InReach

\* Holes that are not written to are as blank as before.
LEMMA BlankHolesKept ==
    ASSUME NEW b, NEW H \in SUBSET Lines, Holes(b, H), BlankHoles(b, H),
           first'[b] = first[b], UNCHANGED <<mem, lineHeader, live, theirs>>
    PROVE  Holes(b, H)' /\ BlankHoles(b, H)'
<1>1. Holes(b, H)' /\ \A l \in H : HoleEnd(b, l)' = HoleEnd(b, l)
  BY HolesKept
<1>2. ASSUME NEW l \in H PROVE Blank(b, LineStart(l), LineStart(HoleEnd(b, l)))'
  BY <1>1 DEF BlankHoles, Blank, LineStart, Lines
<1> QED
  BY <1>1, <1>2 DEF BlankHoles

LEMMA BlankPoolKept ==
    ASSUME BlankPool, UNCHANGED <<mem, lineHeader, live, theirs>>,
           Fresh' \subseteq Fresh, recycled' \subseteq recycled,
           \A d \in recycled' : first'[d] = first[d]
    PROVE  BlankPool'
<1>1. ASSUME NEW d \in Fresh' PROVE Blank(d, 0, BlockSlots)'
  BY <1>1 DEF BlankPool, Blank, LineStart, Lines
<1>2. ASSUME NEW d \in recycled'
      PROVE  \E H \in SUBSET Lines : H # {} /\ Holes(d, H)' /\ BlankHoles(d, H)'
  <2>1. PICK H \in SUBSET Lines : H # {} /\ Holes(d, H) /\ BlankHoles(d, H)
    BY <1>2 DEF BlankPool
  <2>2. Holes(d, H)' /\ BlankHoles(d, H)'
    BY <1>2, <2>1, BlankHolesKept
  <2> QED
    BY <2>1, <2>2
<1> QED
  BY <1>1, <1>2 DEF BlankPool, Lines

\* A cursor set to a blank hole is in a line where no object starts, with
\* blank memory up to its limit and blank holes behind.
LEMMA TakeHoleBlank ==
    ASSUME TypeOK, NEW b \in Blocks, NEW H \in SUBSET Lines, H # {},
           Holes(b, H), BlankHoles(b, H), TakeHole(b), UNCHANGED <<mem, lineHeader, live, theirs>>
    PROVE  /\ Blank(b, cursor[2], limit[2])'
           /\ cursor'[1] = b /\ LineOf(cursor'[2]) \in Lines
           /\ lineHeader[b][LineOf(cursor'[2])] = EMPTY
           /\ \E K \in SUBSET Lines : Holes(b, K)' /\ Behind(K)' /\ BlankHoles(b, K)'
<1>1. PICK l \in H, e \in 1 .. LINE_COUNT :
             /\ l < e /\ e = HoleEnd(b, l)
             /\ cursor' = <<b, LineStart(l)>> /\ limit' = <<b, LineStart(e)>>
             /\ first' = [first EXCEPT ![b] = NextOf(H, l)]
             /\ NextOf(H, l) \in Lines \union {LAST_HOLE}
             /\ \E K \in SUBSET H : Holes(b, K)' /\ \A k \in K : e <= k
  BY TakeHoleTakes
<1>2. l \in Lines /\ l \in Nat /\ e \in Nat /\ cursor'[1] = b /\ cursor'[2] = LineStart(l)
      /\ limit'[2] = LineStart(e)
  BY <1>1, LinesFacts, Geometry
<1>3. Blank(b, LineStart(l), LineStart(e))
  BY <1>1 DEF BlankHoles
<1>4. Blank(b, cursor[2], limit[2])'
  BY <1>2, <1>3 DEF Blank, LineStart, Lines
<1>5. LineOf(LineStart(l)) = l /\ LineStart(l) <= LineStart(l) /\ LineStart(l) < LineStart(e)
  <2>1. LineStart(l) \in Nat /\ LineStart(l) <= LineStart(l) /\ LineStart(l) < LineStart(l + 1)
    BY <1>2, LineStarts
  <2>2. LineOf(LineStart(l)) = l
    BY <1>2, <2>1, LineOfIs
  <2> QED
    BY <1>1, <1>2, <2>1, <2>2, LinesOrdered
<1>6. lineHeader[b][l] = EMPTY
  BY <1>2, <1>3, <1>5 DEF Blank
<1>7. PICK K \in SUBSET H : Holes(b, K)' /\ \A k \in K : e <= k
  BY <1>1
<1>8. Behind(K)'
  <2>1. ASSUME NEW k \in K PROVE LineStart(e) <= LineStart(k)
    <3>1. k \in Nat /\ e <= k
      BY <1>7, LinesFacts
    <3> QED
      BY <1>2, <3>1, LinesOrdered
  <2> QED
    BY <1>2, <2>1 DEF Behind, LineStart
<1>9. BlankHoles(b, K)'
  BY DEF BlankHoles, Blank, HoleEnd, HoleIn, LineStart, Lines
<1> QED
  BY <1>2, <1>4, <1>5, <1>6, <1>7, <1>8, <1>9

LEMMA TakeFreeBlank ==
    ASSUME NEW b \in Blocks, Blank(b, 0, BlockSlots), UNCHANGED <<lineHeader, live, theirs>>
    PROVE  /\ Blank(b, 0, BlockSlots)' /\ LineOf(0) \in Lines
           /\ lineHeader[b][LineOf(0)] = EMPTY
<1>1. 0 \in Lines /\ LineStart(0) = 0 /\ 0 < LineStart(0 + 1) /\ BlockSlots \in Nat
      /\ 0 < BlockSlots
  BY LinesFacts, LineStarts, Geometry
<1>2. LineOf(0) = 0
  BY <1>1, LineOfIs
<1>3. lineHeader[b][0] = EMPTY
  BY <1>1 DEF Blank
<1> QED
  BY <1>1, <1>2, <1>3 DEF Blank, LineStart, Lines

\* Cursors that are left where they are, dropped or set into empty lines.
LEMMA HeadersMoved ==
    ASSUME TypeOK, Headers(Open), UNCHANGED <<mem, lineHeader, live>>,
           \A x \in Open' : x \in Open \/ (x[1] \in Blocks /\ LineOf(x[2]) \in Lines
                                             /\ lineHeader[x[1]][LineOf(x[2])] = EMPTY)
    PROVE  Headers(Open)'
<1>1. PICK open : open = Open
  OBVIOUS
<1>2. PICK open2 : open2 = Open'
  OBVIOUS
<1>3. Headers(open2)'
  BY <1>1, <1>2, HeadersKept
<1> QED
  BY <1>2, <1>3 DEF Headers, Walked

\* The overflow cursor and the blank memory behind it stay.
LEMMA LargeBlankKept ==
    ASSUME BlankCursors, UNCHANGED <<lineHeader, live, theirs, largeCursor>>
    PROVE  largeCursor # NULL => Blank(largeCursor[1], largeCursor[2], BlockSlots)'
  BY DEF BlankCursors, Blank, LineStart, Lines

LEMMA NextLineRecycledContents ==
    ASSUME Shape, Contents, NEW size \in Sizes, NextLineRecycled(size)
    PROVE  Contents'
<1>1. TypeOK /\ Primed /\ Cursors /\ cursor # NULL
      /\ BlankCursors /\ BlankPool /\ Headers(Open) /\ ~overwritten
  BY CalledPrimed DEF NextLineRecycled, NextLine, BlockIsSpent, Contents
<1>2. PICK b \in Blocks : b = cursor[1]
  BY <1>1, TypeFacts
<1>3. flags[b] # "free" /\ first[b] # LAST_HOLE
  BY <1>2 DEF NextLineRecycled, BlockIsSpent, InFreeBlock
<1>4. PICK H \in SUBSET Lines : Holes(b, H) /\ BlankHoles(b, H)
  BY <1>1, <1>2, <1>3 DEF BlankCursors
<1>5. H # {}
  BY <1>3, <1>4 DEF Holes
<1>6. /\ UNCHANGED <<mem, lineHeader, flags, objectMarks, heapEnd, free, recycled, largeCursor, live,
                     theirs, overwritten>>
      /\ pc' = "alloc" /\ TakeHole(b)
  BY <1>2 DEF NextLineRecycled, Again, pool, population
<1>7. /\ Blank(b, cursor[2], limit[2])'
      /\ cursor'[1] = b /\ LineOf(cursor'[2]) \in Lines
      /\ lineHeader[b][LineOf(cursor'[2])] = EMPTY
      /\ \E K \in SUBSET Lines : Holes(b, K)' /\ Behind(K)' /\ BlankHoles(b, K)'
  BY <1>1, <1>4, <1>5, <1>6, TakeHoleBlank
<1>8. Headers(Open)'
  <2>1. \A x \in Open' : x = cursor' \/ x \in Open
    BY <1>1, <1>6 DEF Open, Primed
  <2> QED
    BY <1>1, <1>6, <1>7, <2>1, HeadersMoved
<1>9. BlankPool'
  <2>1. \A d \in recycled' : first'[d] = first[d]
    BY <1>1, <1>2, <1>6 DEF TypeOK, Cursors, TakeHole
  <2>2. Fresh' = Fresh
    BY <1>6 DEF Fresh
  <2> QED
    BY <1>1, <1>6, <2>1, <2>2, BlankPoolKept
<1>10. BlankCursors'
  BY <1>1, <1>6, <1>7, LargeBlankKept DEF BlankCursors, Lines
<1> QED
  BY <1>1, <1>6, <1>8, <1>9, <1>10 DEF Contents, InReach

LEMMA NextBlockContents ==
    ASSUME Shape, Contents, NEW size \in Sizes, NextBlock(size)
    PROVE  Contents'
<1>1. TypeOK /\ Pool /\ Primed /\ Cursors
      /\ BlankCursors /\ BlankPool /\ Headers(Open) /\ ~overwritten
  BY CalledPrimed DEF NextBlock, NextLine, Contents
<1>2. /\ UNCHANGED <<mem, lineHeader, flags, objectMarks, heapEnd, largeCursor, live, theirs,
                     overwritten>>
      /\ pc' = "alloc"
  BY DEF NextBlock, Again, population
<1>3. /\ free \subseteq Blocks /\ recycled \subseteq Blocks /\ free \subseteq Fresh
      /\ Fresh \intersect recycled = {}
      /\ (free' \subseteq free => Fresh' \subseteq Fresh)
  BY <1>1, <1>2, HeapFacts, FreshLess DEF Pool
<1>4. \A x \in Open' : x = cursor' \/ x \in Open
  BY <1>1, <1>2 DEF Open, Primed
<1>5. CASE /\ recycled # {}
           /\ recycled' = recycled \ {Min(recycled)}
           /\ TakeHole(Min(recycled))
           /\ UNCHANGED free
  <2>1. PICK b \in Blocks : b = Min(recycled) /\ b \in recycled
    BY <1>3, <1>5, LowestBlock
  <2>2. PICK H \in SUBSET Lines : H # {} /\ Holes(b, H) /\ BlankHoles(b, H)
    BY <1>1, <2>1 DEF BlankPool
  <2>3. TakeHole(b) /\ recycled' = recycled \ {b} /\ free' = free
    BY <1>5, <2>1
  <2>4. /\ Blank(b, cursor[2], limit[2])'
        /\ cursor'[1] = b /\ LineOf(cursor'[2]) \in Lines
        /\ lineHeader[b][LineOf(cursor'[2])] = EMPTY
        /\ \E K \in SUBSET Lines : Holes(b, K)' /\ Behind(K)' /\ BlankHoles(b, K)'
    BY <1>1, <1>2, <2>2, <2>3, TakeHoleBlank
  <2>5. Headers(Open)'
    BY <1>1, <1>2, <1>4, <2>4, HeadersMoved
  <2>6. BlankPool'
    <3>1. \A d \in recycled' : first'[d] = first[d]
      BY <1>1, <1>3, <2>3 DEF TypeOK, TakeHole
    <3> QED
      BY <1>1, <1>2, <1>3, <2>3, <3>1, BlankPoolKept
  <2>7. BlankCursors'
    BY <1>1, <1>2, <2>4, LargeBlankKept DEF BlankCursors, Lines
  <2> QED
    BY <1>1, <1>2, <2>5, <2>6, <2>7 DEF Contents, InReach
<1>6. CASE /\ recycled = {} /\ free # {}
           /\ free' = free \ {Min(free)}
           /\ TakeFreeBlock(Min(free))
           /\ UNCHANGED recycled
  <2>1. PICK b \in Blocks : b = Min(free) /\ b \in free
    BY <1>3, <1>6, LowestBlock
  <2>2. Blank(b, 0, BlockSlots) /\ flags[b] = "free"
    BY <1>1, <1>3, <2>1 DEF BlankPool, Pool
  <2>3. Blank(b, 0, BlockSlots)' /\ LineOf(0) \in Lines /\ lineHeader[b][LineOf(0)] = EMPTY
    BY <1>2, <2>2, TakeFreeBlank
  <2>4. /\ cursor' = <<b, 0>> /\ limit' = <<b, BlockSlots>> /\ first' = first
        /\ recycled' = recycled /\ free' \subseteq free
    BY <1>6, <2>1 DEF TakeFreeBlock
  <2>5. cursor'[1] = b /\ cursor'[2] = 0 /\ limit'[2] = BlockSlots
    BY <2>4
  <2>6. Headers(Open)'
    BY <1>1, <1>2, <1>4, <2>3, <2>5, HeadersMoved
  <2>7. BlankPool'
    BY <1>1, <1>2, <1>3, <2>4, BlankPoolKept
  <2>8. BlankCursors'
    BY <1>1, <1>2, <2>2, <2>3, <2>5, LargeBlankKept DEF BlankCursors
  <2> QED
    BY <1>1, <1>2, <2>6, <2>7, <2>8 DEF Contents, InReach
<1> QED
  BY <1>5, <1>6 DEF NextBlock, GetNextBlock

\* The normal cursor stays where it is, or is dropped, and nothing is written.
LEMMA NormalBlankKept ==
    ASSUME BlankCursors, UNCHANGED <<mem, lineHeader, flags, first, live, theirs, limit>>,
           cursor' \in {cursor, NULL}
    PROVE  cursor' # NULL =>
             /\ Blank(cursor[1], cursor[2], limit[2])'
             /\ flags'[cursor'[1]] # "free" =>
                   \E H \in SUBSET Lines :
                       Holes(cursor[1], H)' /\ Behind(H)' /\ BlankHoles(cursor[1], H)'
<1> SUFFICES ASSUME cursor' # NULL
             PROVE  /\ Blank(cursor[1], cursor[2], limit[2])'
                    /\ flags'[cursor'[1]] # "free" =>
                        \E H \in SUBSET Lines :
                            Holes(cursor[1], H)' /\ Behind(H)' /\ BlankHoles(cursor[1], H)'
  OBVIOUS
<1>1. cursor' = cursor /\ cursor # NULL
  OBVIOUS
<1>2. PICK b, from, to : b = cursor[1] /\ from = cursor[2] /\ to = limit[2]
  OBVIOUS
<1>3. Blank(b, from, to)'
  BY <1>1, <1>2 DEF BlankCursors, Blank, LineStart, Lines
<1>4. ASSUME flags[b] # "free"
      PROVE  \E H \in SUBSET Lines : Holes(b, H)' /\ Behind(H)' /\ BlankHoles(b, H)'
  <2>1. PICK H \in SUBSET Lines : Holes(b, H) /\ Behind(H) /\ BlankHoles(b, H)
    BY <1>1, <1>2, <1>4 DEF BlankCursors
  <2>2. Holes(b, H)' /\ BlankHoles(b, H)'
    BY <2>1, BlankHolesKept
  <2>3. Behind(H)'
    BY <2>1 DEF Behind, LineStart
  <2> QED
    BY <2>2, <2>3
<1> QED
  BY <1>1, <1>2, <1>3, <1>4

LEMMA OverflowBlockContents ==
    ASSUME Shape, Contents, NEW size \in Sizes, OverflowBlock(size)
    PROVE  Contents'
<1>1. TypeOK /\ Pool /\ Primed /\ Cursors
      /\ BlankCursors /\ BlankPool /\ Headers(Open) /\ ~overwritten
  BY CalledPrimed DEF OverflowBlock, Overflow, Contents
<1>2. /\ UNCHANGED <<mem, lineHeader, flags, first, objectMarks, heapEnd, recycled, cursor, limit,
                     live, theirs, overwritten>>
      /\ pc' = "alloc"
  BY DEF OverflowBlock, Again, store, population
<1>3. PICK b \in Blocks : b = Min(free) /\ b \in free
  BY <1>1, HeapFacts, LowestBlock DEF OverflowBlock
<1>4. /\ free' \subseteq free /\ largeCursor' = <<b, 0>>
      /\ largeCursor'[1] = b /\ largeCursor'[2] = 0
  BY <1>3 DEF OverflowBlock
<1>5. Blank(b, 0, BlockSlots)
  BY <1>1, <1>3, HeapFacts DEF BlankPool
<1>6. Blank(b, 0, BlockSlots)' /\ LineOf(0) \in Lines /\ lineHeader[b][LineOf(0)] = EMPTY
  BY <1>2, <1>5, TakeFreeBlank
<1>7. Headers(Open)'
  <2>1. \A x \in Open' : x = largeCursor' \/ x \in Open
    BY <1>1, <1>2 DEF Open, Primed
  <2> QED
    BY <1>1, <1>2, <1>4, <1>6, <2>1, HeadersMoved
<1>8. BlankPool'
  BY <1>1, <1>2, <1>4, FreshLess, BlankPoolKept
<1>9. BlankCursors'
  BY <1>1, <1>2, <1>4, <1>6, NormalBlankKept DEF BlankCursors, Lines
<1> QED
  BY <1>1, <1>2, <1>7, <1>8, <1>9 DEF Contents, InReach

\* Nothing is written and no cursor is set.
LEMMA StillContents ==
    ASSUME Shape, Contents,
           UNCHANGED <<mem, lineHeader, flags, first, objectMarks, live, theirs, overwritten, limit,
                       largeCursor>>,
           Fresh' \subseteq Fresh, recycled' \subseteq recycled,
           cursor' \in {cursor, NULL}, Primed' => Primed
    PROVE  Contents'
<1>1. TypeOK /\ BlankPool /\ Headers(Open) /\ (Primed => BlankCursors)
  BY DEF Contents, Shape
<1>2. Headers(Open)'
  <2>1. \A x \in Open' : x \in Open
    BY DEF Open
  <2> QED
    BY <1>1, <2>1, HeadersMoved
<1>3. BlankPool'
  BY <1>1, BlankPoolKept
<1>4. Primed' => BlankCursors'
  <2> SUFFICES ASSUME Primed' PROVE BlankCursors'
    OBVIOUS
  <2>1. BlankCursors
    BY <1>1
  <2> QED
    BY <2>1, LargeBlankKept, NormalBlankKept DEF BlankCursors, Lines
<1> QED
  BY <1>2, <1>3, <1>4 DEF Contents, InReach

LEMMA OtherInitCursorsContents ==
    ASSUME Shape, Contents, OtherInitCursors
    PROVE  Contents'
<1>1. TypeOK /\ Pool
  BY DEF Shape
<1>2. /\ UNCHANGED <<mem, lineHeader, flags, first, objectMarks, heapEnd, live, theirs, overwritten,
                     cursor, limit, largeCursor, pc>>
      /\ Prime
  BY DEF OtherInitCursors, Prime, population, cursors
<1>3. free' \subseteq free /\ recycled' \subseteq recycled
  BY <1>1, <1>2, PrimeTakes
<1>4. Fresh' \subseteq Fresh /\ (Primed' => Primed)
  BY <1>1, <1>2, <1>3, FreshLess DEF Primed
<1> QED
  BY <1>2, <1>3, <1>4, StillContents

LEMMA ReinitCursorsContents ==
    ASSUME Shape, Contents, ReinitCursors
    PROVE  Contents'
<1>1. TypeOK /\ Pool /\ BlankPool /\ Headers(Open) /\ ~overwritten
  BY DEF Contents, Shape
<1>2. /\ UNCHANGED <<mem, lineHeader, flags, objectMarks, heapEnd, live, theirs, overwritten>>
      /\ Prime /\ InitCursors
      /\ recycled' = IF recycled = {} THEN {} ELSE recycled \ {Min(recycled)}
  BY DEF ReinitCursors, Prime, population
<1>3. /\ free' \subseteq free /\ recycled' \subseteq recycled /\ FreeBehind \subseteq free
      /\ FreeBehind # {} => Min(FreeBehind) \in FreeBehind
  BY <1>1, <1>2, PrimeTakes
<1>4. /\ free \subseteq Blocks /\ recycled \subseteq Blocks /\ free \subseteq Fresh
      /\ Fresh' \subseteq Fresh
  BY <1>1, <1>2, <1>3, HeapFacts, FreshLess
<1>5. \A x \in Open' : (x = cursor' /\ cursor' # NULL) \/ (x = largeCursor' /\ largeCursor' # NULL)
  BY DEF Open
<1>6. \A b \in free : /\ b \in Blocks /\ Blank(b, 0, BlockSlots)' /\ LineOf(0) \in Lines
                      /\ lineHeader[b][LineOf(0)] = EMPTY /\ flags[b] = "free"
  BY <1>1, <1>2, <1>4, TakeFreeBlank DEF BlankPool, Pool
<1>7. largeCursor' # NULL =>
        /\ Blank(largeCursor[1], largeCursor[2], BlockSlots)'
        /\ largeCursor'[1] \in Blocks /\ LineOf(largeCursor'[2]) \in Lines
        /\ lineHeader[largeCursor'[1]][LineOf(largeCursor'[2])] = EMPTY
  <2> SUFFICES ASSUME largeCursor' # NULL
               PROVE  /\ Blank(largeCursor[1], largeCursor[2], BlockSlots)'
                      /\ largeCursor'[1] \in Blocks /\ LineOf(largeCursor'[2]) \in Lines
                      /\ lineHeader[largeCursor'[1]][LineOf(largeCursor'[2])] = EMPTY
    OBVIOUS
  <2>1. PICK f \in free : f = Min(FreeBehind) /\ largeCursor' = <<f, 0>>
    BY <1>2, <1>3 DEF InitCursors
  <2>2. largeCursor'[1] = f /\ largeCursor'[2] = 0
    BY <2>1
  <2> QED
    BY <1>6, <2>2
<1>8. CASE recycled # {}
  <2>1. PICK b \in Blocks : b = Min(recycled) /\ b \in recycled
    BY <1>4, <1>8, LowestBlock
  <2>2. recycled' = recycled \ {b} /\ TakeHole(b)
    BY <1>2, <1>8, <2>1 DEF InitCursors
  <2>3. PICK H \in SUBSET Lines : H # {} /\ Holes(b, H) /\ BlankHoles(b, H)
    BY <1>1, <2>1 DEF BlankPool
  <2>4. /\ Blank(b, cursor[2], limit[2])'
        /\ cursor'[1] = b /\ LineOf(cursor'[2]) \in Lines
        /\ lineHeader[b][LineOf(cursor'[2])] = EMPTY
        /\ \E K \in SUBSET Lines : Holes(b, K)' /\ Behind(K)' /\ BlankHoles(b, K)'
    BY <1>1, <1>2, <2>2, <2>3, TakeHoleBlank
  <2>5. Headers(Open)'
    BY <1>1, <1>2, <1>5, <1>7, <2>4, HeadersMoved
  <2>6. BlankPool'
    <3>1. \A d \in recycled' : first'[d] = first[d]
      BY <1>1, <1>4, <2>2 DEF TypeOK, TakeHole
    <3> QED
      BY <1>1, <1>2, <1>3, <1>4, <3>1, BlankPoolKept
  <2>7. BlankCursors'
    BY <1>7, <2>4 DEF BlankCursors, Lines
  <2> QED
    BY <1>1, <1>2, <2>5, <2>6, <2>7 DEF Contents, InReach
<1>9. CASE recycled = {} /\ free # {}
  <2>1. PICK f \in Blocks : f = Min(free) /\ f \in free
    BY <1>4, <1>9, LowestBlock
  <2>2. /\ cursor' = <<f, 0>> /\ limit' = <<f, BlockSlots>> /\ first' = first
    BY <1>2, <1>9, <2>1 DEF InitCursors, TakeFreeBlock
  <2>3. cursor'[1] = f /\ cursor'[2] = 0 /\ limit'[2] = BlockSlots
    BY <2>2
  <2>4. Headers(Open)'
    BY <1>1, <1>2, <1>5, <1>6, <1>7, <2>1, <2>3, HeadersMoved
  <2>5. BlankPool'
    BY <1>1, <1>2, <1>3, <1>4, <2>2, BlankPoolKept
  <2>6. flags'[f] = "free"
    BY <1>2, <1>6, <2>1
  <2>7. BlankCursors'
    BY <1>6, <1>7, <2>1, <2>3, <2>6 DEF BlankCursors
  <2> QED
    BY <1>1, <1>2, <2>4, <2>5, <2>7 DEF Contents, InReach
<1>10. CASE free \union recycled = {}
  <2>1. cursor' = NULL /\ first' = first
    BY <1>2, <1>10 DEF InitCursors
  <2>2. Headers(Open)'
    BY <1>1, <1>2, <1>5, <1>7, <2>1, HeadersMoved
  <2>3. BlankPool'
    BY <1>1, <1>2, <1>3, <1>4, <2>1, BlankPoolKept
  <2>4. BlankCursors'
    BY <1>7, <2>1 DEF BlankCursors
  <2> QED
    BY <1>1, <1>2, <2>2, <2>3, <2>4 DEF Contents, InReach
<1> QED
  BY <1>8, <1>9, <1>10

LEMMA InitContents ==
    ASSUME Init
    PROVE  Contents
<1>1. /\ live = {} /\ objectMarks = {} /\ theirs = {} /\ ~overwritten
      /\ \A b \in Blocks, l \in Lines : lineHeader[b][l] = EMPTY
  BY DEF Init
<1>2. \A b \in Blocks : \A from, to : Blank(b, from, to)
  BY <1>1 DEF Blank
<1>3. Headers(Open)
  BY <1>1 DEF Headers
<1>4. Fresh \subseteq Blocks
  BY InitShape, HeapFacts DEF Shape
<1>5. BlankPool
  BY <1>2, <1>4 DEF BlankPool, Init
<1>6. BlankCursors
  <2>1. 0 \in Blocks /\ 1 \in Blocks /\ flags[0] = "free"
    BY BlocksFacts DEF Init
  <2>2. cursor[1] = 0 /\ largeCursor[1] = 1
    BY DEF Init
  <2> QED
    BY <1>2, <2>1, <2>2 DEF BlankCursors
<1> QED
  BY <1>1, <1>3, <1>5, <1>6 DEF Contents

\* The words of an object lie in the lines it covers, and those are all.
LEMMA LinesOfFacts ==
    ASSUME TypeOK, NEW objects \in SUBSET live, NEW b \in Blocks
    PROVE  /\ LinesOf(b, objects) \in SUBSET Lines
           /\ \A o \in objects : o.block = b =>
                \A s \in Nat : o.start <= s /\ s < o.start + o.size => LineOf(s) \in LinesOf(b, objects)
           /\ \A l \in LinesOf(b, objects) : \E o \in objects : o.block = b /\
                \E s \in Nat : o.start <= s /\ s < o.start + o.size /\ LineOf(s) = l
<1>1. ASSUME NEW o \in objects
      PROVE  /\ o.start \in Nat /\ o.size \in Nat /\ o.start + o.size <= BlockSlots
             /\ \A s : s \in o.start .. o.start + o.size - 1 <=>
                         s \in Nat /\ o.start <= s /\ s < o.start + o.size
             /\ \A s \in o.start .. o.start + o.size - 1 : LineOf(s) \in Lines
  <2>1. o.start \in Nat /\ o.size \in Nat /\ o.start + o.size <= BlockSlots
    BY TypeFacts, SizesFacts, Geometry
  <2>2. \A s : s \in o.start .. o.start + o.size - 1 <=>
                         s \in Nat /\ o.start <= s /\ s < o.start + o.size
    BY <2>1
  <2>3. \A s \in o.start .. o.start + o.size - 1 : s \in 0 .. BlockSlots - 1
    BY <2>1, Geometry
  <2>4. \A s \in o.start .. o.start + o.size - 1 : LineOf(s) \in Lines
    BY <2>3, LineOfInLines
  <2> QED
    BY <2>1, <2>2, <2>4
<1>2. \A l : l \in LinesOf(b, objects) <=>
         \E o \in objects : o.block = b /\ \E s \in o.start .. o.start + o.size - 1 : LineOf(s) = l
  BY DEF LinesOf
<1> QED
  BY <1>1, <1>2

\* After a sweep the runs of unmarked lines are blank.
LEMMA SweptBlank ==
    ASSUME TypeOK, live' \subseteq live,
           NEW U \in [Blocks -> SUBSET Lines], NEW Freed \in SUBSET Blocks, Swept(U, Freed),
           NEW b \in Blocks,
           U[b] = {l \in Lines \ LinesOf(b, live') : <<b, l>> \notin theirs'},
           NEW l \in Nat, NEW e \in Nat, l < e, e <= LINE_COUNT,
           \A k \in Nat : l <= k /\ k < e => k \in U[b]
    PROVE  Blank(b, LineStart(l), LineStart(e))'
<1>1. LineStart(l) \in Nat /\ LineStart(e) \in Nat
  BY LineStarts
<1>2. ASSUME NEW o \in live', o.block = b
      PROVE  o.start + o.size <= LineStart(l) \/ LineStart(e) <= o.start
  <2>1. PICK start \in Nat, size \in Nat : start = o.start /\ size = o.size /\ 1 <= size
    BY TypeFacts, SizesFacts, Geometry
  <2> SUFFICES ASSUME start + size > LineStart(l), start < LineStart(e) PROVE FALSE
    BY <1>1, <2>1
  <2>2. LineStart(l) < LineStart(e)
    BY LinesOrdered
  <2>3. PICK s \in Nat : /\ start <= s /\ s < start + size
                         /\ LineStart(l) <= s /\ s < LineStart(e)
    <3>1. CASE start <= LineStart(l)
      BY <1>1, <2>2, <3>1
    <3>2. CASE start > LineStart(l)
      BY <1>1, <2>1, <3>2
    <3> QED
      BY <1>1, <3>1, <3>2
  <2>4. PICK k \in Nat : k = LineOf(s) /\ LineStart(k) <= s /\ s < LineStart(k + 1)
                         /\ LineStart(k) \in Nat /\ LineStart(k + 1) \in Nat
    BY LineOfBounds, LineStarts
  <2>5. k < e
    <3>1. LineStart(k) < LineStart(e)
      BY <1>1, <2>3, <2>4
    <3> QED
      BY <3>1, LinesOrdered
  <2>6. l <= k
    <3> SUFFICES ASSUME k < l PROVE FALSE
      OBVIOUS
    <3>1. LineStart(k + 1) <= LineStart(l)
      BY LinesInOrder
    <3> QED
      BY <1>1, <2>3, <2>4, <3>1
  <2>7. k \in LinesOf(b, live')
    BY <1>2, <2>1, <2>3, <2>4, LinesOfFacts
  <2> QED
    BY <2>5, <2>6, <2>7
<1>3. ASSUME NEW k \in Lines, LineStart(l) <= LineStart(k), LineStart(k) < LineStart(e)
      PROVE  lineHeader'[b][k] = EMPTY
  <2>1. k \in Nat /\ l <= k /\ k < e
    BY <1>3, LinesFacts, LinesOrdered
  <2> QED
    BY <2>1 DEF Swept
<1>4. ASSUME NEW k \in Lines, <<b, k>> \in theirs'
      PROVE  LineStart(k + 1) <= LineStart(l) \/ LineStart(e) <= LineStart(k)
  <2>1. k \in Nat /\ (k < l \/ e <= k)
    <3>1. k \in Nat /\ k \notin U[b]
      BY <1>4, LinesFacts
    <3>2. ~(l <= k /\ k < e)
      BY <3>1
    <3> QED
      BY <3>1, <3>2
  <2> QED
    BY <2>1, LinesOrdered
<1> QED
  BY <1>2, <1>3, <1>4 DEF Blank, LineStart, Lines

\* A sweep writes to unmarked lines only.
LEMMA SweptLine ==
    ASSUME TypeOK, NEW U \in [Blocks -> SUBSET Lines], NEW Freed \in SUBSET Blocks,
           Swept(U, Freed), NEW b \in Blocks, NEW l \in Lines, l \notin U[b]
    PROVE  /\ lineHeader'[b][l] = lineHeader[b][l]
           /\ \A s \in LineSlots(l) : mem'[b][s] = mem[b][s]
<1>1. ASSUME NEW s \in LineSlots(l) PROVE s \in 0 .. BlockSlots - 1 /\ LineOf(s) = l
  <2>1. l \in Nat /\ LineStart(l) \in Nat /\ LineStart(l + 1) \in Nat
        /\ LineStart(l + 1) <= BlockSlots /\ BlockSlots \in Nat
    BY LineSlotsInBlock, LineStarts, LinesFacts, Geometry
  <2>2. s \in Nat /\ LineStart(l) <= s /\ s < LineStart(l + 1) /\ s < BlockSlots
    BY <2>1 DEF LineSlots
  <2>3. LineOf(s) = l
    BY <2>1, <2>2, LineOfIs
  <2> QED
    BY <2>1, <2>2, <2>3
<1>2. l \notin Starts(U[b])
  BY DEF Starts
<1> QED
  BY <1>1, <1>2 DEF Swept

LEMMA CollectContents ==
    ASSUME Shape, Contents, ~passedOver', Collect
    PROVE  Contents'
<1>1. TypeOK /\ Pool /\ Headers(Open) /\ ~overwritten
  BY DEF Contents, Shape
<1>2. PICK marked : /\ marked = live' /\ Sweep(marked, theirs') /\ live' \subseteq live
                    /\ theirs' \subseteq TheirLines /\ pc' = "recycled"
                    /\ overwritten' = overwritten /\ heapEnd' = heapEnd
  BY <1>1, CollectLeaves
<1>3. PICK U \in [Blocks -> SUBSET Lines], Freed \in SUBSET Blocks :
             /\ \A b \in Blocks : U[b] = {l \in Lines \ LinesOf(b, marked) : <<b, l>> \notin theirs'}
             /\ \A b \in Blocks : b \in Freed <=> U[b] = Lines
             /\ Swept(U, Freed)
             /\ mem' = [b \in Blocks |-> [s \in 0 .. BlockSlots - 1 |-> mem'[b][s]]]
             /\ \A x \in objectMarks', l \in Lines :
                   x \in (Blocks \ Freed) \X (0 .. BlockSlots - 1) /\ l \notin U[x[1]] =>
                     x[2] \notin WalkLine(x[1], l)
  BY <1>1, <1>2, SweepDoes
<1>4. \A b \in Blocks : U[b] = {l \in Lines \ LinesOf(b, live') : <<b, l>> \notin theirs'}
  BY <1>2, <1>3
<1>5. free' = {b \in Freed : b < heapEnd} /\ recycled' = {b \in Blocks \ Freed : U[b] # {}}
      /\ objectMarks' \subseteq Heads(live')
  BY <1>3 DEF Swept
<1>6. ASSUME NEW o \in live'
      PROVE  \E b \in Blocks, l \in Lines :
               /\ b = o.block /\ o.start \in 0 .. BlockSlots - 1 /\ l = LineOf(o.start)
               /\ l \notin U[b] /\ lineHeader[b][l] # EMPTY
  <2>1. o \in live /\ o.block \in Blocks /\ o.start \in 0 .. BlockSlots - 1
        /\ o.start \in Nat /\ o.size \in Nat /\ 1 <= o.size
    BY <1>1, <1>2, TypeFacts, SizesFacts, Geometry
  <2>2. LineOf(o.start) \in Lines
    BY <2>1, LineOfInLines
  <2>3. PICK objects \in SUBSET live : objects = live'
    BY <1>2
  <2>4. LineOf(o.start) \in LinesOf(o.block, objects)
    BY <1>1, <2>1, <2>3, LinesOfFacts
  <2>5. lineHeader[o.block][LineOf(o.start)] # EMPTY
    BY <1>1, <2>1 DEF Headers
  <2> QED
    BY <1>4, <2>1, <2>2, <2>3, <2>4, <2>5
<1>7. \A x \in objectMarks' : ~InReach(x[2])
  <2> SUFFICES ASSUME NEW x \in objectMarks', InReach(x[2]) PROVE FALSE
    OBVIOUS
  <2>1. PICK o \in live' : x = <<o.block, o.start>>
    BY <1>5 DEF Heads
  <2>2. PICK b \in Blocks, l \in Lines :
               /\ b = o.block /\ o.start \in 0 .. BlockSlots - 1 /\ l = LineOf(o.start)
               /\ l \notin U[b] /\ lineHeader[b][l] # EMPTY
    BY <1>6
  <2>3. PICK P \in SUBSET LineSlots(l) : Walked(b, l, P, Open)
    BY <1>1, <2>2 DEF Headers
  <2>4. PICK open : open = Open
    OBVIOUS
  <2>5. WalkLine(b, l) = {s \in P : s < LineStart(l) + WalkSlots}
    BY <1>1, <2>2, <2>3, <2>4, WalkMeets
  <2>6. o.start \in P
    BY <1>2, <2>2, <2>3 DEF Walked
  <2>7. o.start < LineStart(l) + WalkSlots
    <3>1. PICK s \in Nat : s = o.start /\ x[2] = s
      BY <2>1, <2>2, Geometry
    <3>2. s % SLOTS_IN_LINE = s - LineStart(l) /\ LineStart(l) \in Nat
      BY <2>2, <3>1, LineOfBounds, LineStarts
    <3>3. s % SLOTS_IN_LINE < WalkSlots /\ WalkSlots \in Nat
      BY <3>1, SizesAssumption, Geometry DEF InReach
    <3> QED
      BY <3>1, <3>2, <3>3
  <2>8. b \notin Freed
    BY <1>3, <2>2
  <2> QED
    BY <1>3, <2>1, <2>2, <2>5, <2>6, <2>7, <2>8
<1>8. Headers({})'
  <2>1. \A o \in live' : lineHeader'[o.block][LineOf(o.start)] # EMPTY
    BY <1>1, <1>3, <1>6, SweptLine
  <2>2. ASSUME NEW b \in Blocks, NEW l \in Lines, lineHeader'[b][l] # EMPTY
        PROVE  \E P \in SUBSET LineSlots(l) : Walked(b, l, P, {})'
    <3>1. l \notin U[b]
      BY <1>3, <2>2 DEF Swept
    <3>2. lineHeader'[b][l] = lineHeader[b][l] /\ \A s \in LineSlots(l) : mem'[b][s] = mem[b][s]
      BY <1>1, <1>3, <3>1, SweptLine
    <3> PICK open : open = Open
      OBVIOUS
    <3>3. PICK P \in SUBSET LineSlots(l) : Walked(b, l, P, open)
      BY <1>1, <2>2, <3>2 DEF Headers
    <3>4. PICK open2 : open2 = {}
      OBVIOUS
    <3>5. Walked(b, l, P, open2)'
      BY <1>1, <1>2, <3>2, <3>3, <3>4, WalkedKept
    <3> QED
      BY <3>4, <3>5
  <2> QED
    BY <2>1, <2>2 DEF Headers, LineOf, LineSlots, LineStart
<1>9. Headers(Open)' /\ ~Primed'
  <2>1. Open' = {} /\ ~Primed'
    BY <1>2 DEF Open, Primed
  <2> QED
    BY <1>8, <2>1 DEF Headers, Walked
<1>10. BlankPool'
  <2>1. ASSUME NEW b \in Freed PROVE Blank(b, 0, BlockSlots)'
    <3>1. 0 \in Nat /\ LINE_COUNT \in Nat /\ 0 < LINE_COUNT /\ LINE_COUNT <= LINE_COUNT
          /\ \A k \in Nat : 0 <= k /\ k < LINE_COUNT => k \in U[b]
      BY <1>3, LinesFacts, Geometry
    <3>2. Blank(b, LineStart(0), LineStart(LINE_COUNT))'
      BY <1>1, <1>2, <1>3, <1>4, <3>1, SweptBlank
    <3> QED
      BY <3>2, Geometry DEF Blank, LineStart
  <2>2. ASSUME NEW b \in Blocks \ Freed, U[b] # {}
        PROVE  \E H \in SUBSET Lines : H # {} /\ Holes(b, H)' /\ BlankHoles(b, H)'
    <3>1. PICK V \in SUBSET Lines, H \in SUBSET Lines : V = U[b] /\ H = Starts(V) /\ H # {}
      BY <2>2, StartsFacts
    <3>2. Holes(b, H)' /\ \A l \in H : HoleEnd(b, l)' = l + RunSize(V, l)
      BY <1>3, <2>2, <3>1, SweptHoles
    <3>3. ASSUME NEW l \in H PROVE Blank(b, LineStart(l), LineStart(HoleEnd(b, l)))'
      <4>1. l \in V /\ l \in Nat
        BY <3>1, StartsFacts, LinesFacts
      <4>2. PICK e \in Nat : e = l + RunSize(V, l) /\ l < e /\ e <= LINE_COUNT
                /\ \A k \in Nat : l <= k /\ k < e => k \in V
        BY <4>1, RunFacts, Geometry
      <4>3. Blank(b, LineStart(l), LineStart(e))'
        BY <1>1, <1>2, <1>3, <1>4, <3>1, <4>1, <4>2, SweptBlank
      <4> QED
        BY <3>2, <4>2, <4>3 DEF Blank, LineStart
    <3>4. BlankHoles(b, H)'
      BY <3>3 DEF BlankHoles
    <3> QED
      BY <3>1, <3>2, <3>4
  <2>3. Fresh' \subseteq Freed
    <3>1. ASSUME NEW b \in Blocks, ~(b < heapEnd) PROVE b \in Freed
      <4>1. PICK objects \in SUBSET live : objects = live'
        BY <1>2
      <4>2. LinesOf(b, objects) = {} /\ \A l : <<b, l>> \notin theirs'
        BY <1>1, <1>2, <3>1, NothingBehind
      <4> QED
        BY <1>3, <1>4, <4>1, <4>2
    <3>2. heapEnd \in Nat /\ \A b \in heapEnd .. NumBlocks - 1 : b \in Blocks /\ ~(b < heapEnd)
      BY <1>1, HeapFacts, BlocksFacts
    <3> QED
      BY <1>2, <1>5, <3>1, <3>2 DEF Fresh
  <2> QED
    BY <1>5, <2>1, <2>2, <2>3 DEF BlankPool, Lines
<1> QED
  BY <1>1, <1>2, <1>7, <1>9, <1>10 DEF Contents, InReach

\* Only a collection passes objects over, and what was passed over stays so.
LEMMA PassedOverStays ==
    ASSUME TypeOK, [Next]_vars, ~passedOver'
    PROVE  ~passedOver
<1>1. ASSUME NEW size \in Sizes,
             \/ Alloc(size) \/ OverflowAlloc(size)
             \/ NextLineRecycled(size) \/ NextBlock(size) \/ NoBlock(size)
             \/ OverflowBlock(size) \/ OverflowNoBlock(size) \/ OverflowThroughNull(size)
      PROVE  passedOver' = passedOver
  BY <1>1 DEF Alloc, OverflowAlloc, Bump, NextLineRecycled, NextBlock, NoBlock, OverflowBlock,
              OverflowNoBlock, OverflowThroughNull, population
<1>2. ASSUME NEW n \in 1 .. MaxThreads, KeepSize(n) \/ Grow(n) \/ OutOfMemory(n)
      PROVE  passedOver' = passedOver
  BY <1>2 DEF KeepSize, Grow, StartVisit, OutOfMemory, population
<1>3. OthersTake \/ OtherInitCursors \/ ReinitCursors \/ EndCollection \/ UNCHANGED vars
        => passedOver' = passedOver
  BY DEF OthersTake, OtherInitCursors, ReinitCursors, Prime, EndCollection, population, vars
<1>4. Collect => ~passedOver
  BY CollectLeaves
<1> QED
  BY <1>1, <1>2, <1>3, <1>4 DEF Next

\* The steps of the visit, and of a call, that neither write nor set a cursor.
LEMMA QuietContents ==
    ASSUME Shape, Contents,
           UNCHANGED <<store, heapEnd, limit, largeCursor, live, theirs, overwritten>>,
           free' \subseteq free, recycled' \subseteq recycled,
           cursor' \in {cursor, NULL}, Primed' => Primed
    PROVE  Contents'
<1>1. Fresh' \subseteq Fresh
  BY FreshLess DEF Shape
<1> QED
  BY <1>1, StillContents DEF store

LEMMA GrowContents ==
    ASSUME Shape, Contents, NEW n \in 1 .. MaxThreads, Grow(n)
    PROVE  Contents'
<1>1. TypeOK /\ Increment \in Nat
  BY IncrementFacts DEF Shape
<1>2. /\ UNCHANGED <<store, recycled, cursor, limit, largeCursor, live, theirs, overwritten>>
      /\ ~Primed'
  BY DEF Grow, StartVisit, cursors, population, Primed
<1>3. Fresh' \subseteq Fresh
  <2>1. PICK end \in Nat : /\ end = heapEnd' /\ heapEnd <= end /\ end <= NumBlocks
                           /\ free' = free \union heapEnd .. end - 1
    <3>1. heapEnd \in Nat
      BY <1>1, HeapFacts
    <3> QED
      BY <1>1, <3>1 DEF Grow
  <2>2. heapEnd \in Nat /\ NumBlocks \in Nat
    BY <1>1, HeapFacts, BlocksFacts
  <2>3. \A b : b \in heapEnd .. end - 1 \/ b \in end .. NumBlocks - 1
                 => b \in heapEnd .. NumBlocks - 1
    BY <2>1, <2>2
  <2> QED
    BY <2>1, <2>3 DEF Fresh
<1> QED
  BY <1>2, <1>3, StillContents DEF store

LEMMA NextIInv ==
    ASSUME IInv, [Next]_vars
    PROVE  IInv'
<1>1. Shape /\ Shape'
  BY NextShape DEF IInv
<1> SUFFICES ASSUME ~passedOver' PROVE Contents'
  BY <1>1 DEF IInv
<1>2. Contents
  BY <1>1, PassedOverStays DEF IInv, Shape
<1>3. ASSUME NEW size \in Sizes,
             \/ Alloc(size) \/ OverflowAlloc(size)
             \/ NextLineRecycled(size) \/ NextBlock(size) \/ OverflowBlock(size)
      PROVE  Contents'
  BY <1>1, <1>2, <1>3, AllocContents, OverflowAllocContents, NextLineRecycledContents,
     NextBlockContents, OverflowBlockContents
<1>4. ASSUME NEW size \in Sizes,
             NoBlock(size) \/ OverflowNoBlock(size) \/ OverflowThroughNull(size)
      PROVE  Contents'
  <2>1. Primed
    BY <1>1, <1>4, CalledPrimed DEF NoBlock, NextLine, OverflowNoBlock, OverflowThroughNull, Overflow
  <2>2. /\ UNCHANGED <<store, heapEnd, free, recycled, limit, largeCursor, live, theirs,
                       overwritten>>
        /\ cursor' \in {cursor, NULL}
    BY <1>4 DEF NoBlock, OverflowNoBlock, OverflowThroughNull, pool, cursors, population
  <2> QED
    BY <1>1, <1>2, <2>1, <2>2, QuietContents
<1>5. ASSUME NEW n \in 1 .. MaxThreads, KeepSize(n) \/ Grow(n) \/ OutOfMemory(n) PROVE Contents'
  <2>1. CASE Grow(n)
    BY <1>1, <1>2, <2>1, GrowContents
  <2>2. CASE KeepSize(n) \/ OutOfMemory(n)
    <3>1. /\ UNCHANGED <<store, heapEnd, free, recycled, cursor, limit, largeCursor, live, theirs,
                         overwritten>>
          /\ ~Primed'
      BY <2>2 DEF KeepSize, StartVisit, OutOfMemory, pool, cursors, population, Primed
    <3> QED
      BY <1>1, <1>2, <3>1, QuietContents
  <2> QED
    BY <1>5, <2>1, <2>2
<1>6. ASSUME OthersTake PROVE Contents'
  <2>1. /\ UNCHANGED <<store, heapEnd, cursor, limit, largeCursor, live, theirs, overwritten, pc>>
        /\ free' \subseteq free /\ recycled' \subseteq recycled
    BY <1>6 DEF OthersTake, cursors, population, control
  <2> QED
    BY <1>1, <1>2, <2>1, QuietContents DEF Primed
<1>7. ASSUME EndCollection \/ UNCHANGED vars PROVE Contents'
  <2>1. /\ UNCHANGED <<store, heapEnd, free, recycled, cursor, limit, largeCursor, live, theirs,
                       overwritten>>
        /\ Primed' => Primed
    BY <1>7 DEF EndCollection, vars, pool, cursors, population, control, Primed
  <2> QED
    BY <1>1, <1>2, <2>1, QuietContents
<1>8. Collect \/ OtherInitCursors \/ ReinitCursors => Contents'
  BY <1>1, <1>2, CollectContents, OtherInitCursorsContents, ReinitCursorsContents
<1> QED
  BY <1>3, <1>4, <1>5, <1>6, <1>7, <1>8 DEF Next

\* Until a live object is passed over: what is under a cursor, in a hole listed
\* or in a free block is blank, every line's header leads through the objects
\* that start in it and nothing else, and marks are left only behind the reach
\* of a walk. (Line_Update, Block_recycleMarkedLine.)
THEOREM IInvHolds == Spec => []IInv
<1>1. Init => IInv
  BY InitShape, InitContents DEF IInv
<1>2. IInv /\ [Next]_vars => IInv'
  BY NextIInv
<1> QED
  BY <1>1, <1>2, PTL DEF Spec

\* The walk over a line meets every live object that starts in it as far as the
\* walk goes, and takes nothing but headers for headers, whatever was in the
\* line before. (Line_Update, the zeroed word behind an object.)
THEOREM WalksMeetLive == Spec => []WalkMeetsLive
<1>1. ASSUME IInv PROVE WalkMeetsLive
  <2> SUFFICES ASSUME ~passedOver, NEW o \in live
               PROVE  /\ InReach(o.start) => o.start \in WalkLine(o.block, LineOf(o.start))
                      /\ \A l \in LinesOf(o.block, {o}) : \A s \in WalkLine(o.block, l) :
                            IsObj(mem[o.block][s]) /\ s + mem[o.block][s][2] <= BlockSlots
    BY DEF WalkMeetsLive
  <2>1. TypeOK /\ Headers(Open)
    BY <1>1 DEF IInv, Shape, Contents
  <2>2. PICK open : open = Open
    OBVIOUS
  <2>3. PICK b \in Blocks : b = o.block /\ LineOf(o.start) \in Lines
    BY <2>1, TypeFacts, LineOfInLines
  <2>4. ASSUME NEW l \in Lines, lineHeader[b][l] # EMPTY
        PROVE  \E P \in SUBSET LineSlots(l) :
                 Walked(b, l, P, open) /\ WalkLine(b, l) = {s \in P : s < LineStart(l) + WalkSlots}
    <3>1. PICK P \in SUBSET LineSlots(l) : Walked(b, l, P, open)
      BY <2>1, <2>2, <2>4 DEF Headers
    <3> QED
      BY <2>1, <2>4, <3>1, WalkMeets
  <2>5. ASSUME InReach(o.start) PROVE o.start \in WalkLine(b, LineOf(o.start))
    <3>1. PICK l \in Lines : l = LineOf(o.start) /\ lineHeader[b][l] # EMPTY
      BY <2>1, <2>3 DEF Headers
    <3>2. PICK P \in SUBSET LineSlots(l) :
             Walked(b, l, P, open) /\ WalkLine(b, l) = {s \in P : s < LineStart(l) + WalkSlots}
      BY <2>4, <3>1
    <3>3. o.start \in P
      BY <2>3, <3>1, <3>2 DEF Walked
    <3>4. o.start < LineStart(l) + WalkSlots
      <4>1. PICK s \in Nat : s = o.start
        BY <2>1, TypeFacts, Geometry
      <4>2. s % SLOTS_IN_LINE = s - LineStart(l) /\ LineStart(l) \in Nat
        BY <3>1, <4>1, LineOfBounds, LineStarts
      <4>3. s % SLOTS_IN_LINE < WalkSlots /\ WalkSlots \in Nat
        BY <2>5, <4>1, SizesAssumption, Geometry DEF InReach
      <4> QED
        BY <4>1, <4>2, <4>3
    <3> QED
      BY <3>1, <3>2, <3>3, <3>4
  <2>6. ASSUME NEW l \in LinesOf(b, {o}), NEW s \in WalkLine(b, l)
        PROVE  IsObj(mem[b][s]) /\ s + mem[b][s][2] <= BlockSlots
    <3>1. l \in Lines
      <4>1. {o} \in SUBSET live
        OBVIOUS
      <4> QED
        BY <2>1, <4>1, LinesOfFacts
    <3>2. lineHeader[b][l] # EMPTY
      BY <2>6 DEF WalkLine
    <3>3. PICK P \in SUBSET LineSlots(l) : Walked(b, l, P, open) /\ s \in P
      BY <2>4, <2>6, <3>1, <3>2
    <3> QED
      BY <3>3 DEF Walked, End
  <2> QED
    BY <2>3, <2>5, <2>6
<1>2. IInv => WalkMeetsLive
  BY <1>1
<1> QED
  BY <1>2, IInvHolds, PTL

\* An object in reach of the walk of its line carries no mark into the next
\* marking phase, so that the first object to be passed over is one behind.
\* (Block_recycleMarkedLine.)
THEOREM NoMarksInReach == Spec => []NoMarkInReach
<1>1. IInv => NoMarkInReach
  BY DEF IInv, Contents, NoMarkInReach
<1> QED
  BY <1>1, IInvHolds, PTL

-----------------------------------------------------------------------------
(* Memory on offer.                                                          *)

LEMMA RegionFacts ==
    ASSUME NEW b, NEW from \in Nat, NEW to \in Nat
    PROVE  \A p : p \in Region(<<b, from>>, to) <=>
                    \E s \in Nat : p = <<b, s>> /\ from <= s /\ s < to
<1>1. \A s : s \in from .. to - 1 <=> s \in Nat /\ from <= s /\ s < to
  OBVIOUS
<1> QED
  BY <1>1 DEF Region

LEMMA BlankRegion ==
    ASSUME TypeOK, NEW b, NEW from \in Nat, NEW to \in Nat, Blank(b, from, to)
    PROVE  /\ Region(<<b, from>>, to) \intersect LiveWords = {}
           /\ b \notin taken => Region(<<b, from>>, to) \intersect TheirWords = {}
<1>1. ASSUME NEW p \in Region(<<b, from>>, to), p \in LiveWords PROVE FALSE
  <2>1. PICK s \in Nat : p = <<b, s>> /\ from <= s /\ s < to
    BY <1>1, RegionFacts
  <2>2. PICK o \in live : p \in S!WordsOf(o)
    BY <1>1 DEF LiveWords
  <2>3. o.start \in Nat /\ o.size \in Nat
    BY TypeFacts, SizesFacts, Geometry
  <2>4. b = o.block /\ o.start <= s /\ s < o.start + o.size
    BY <2>1, <2>2, <2>3 DEF S!WordsOf
  <2> QED
    BY <2>1, <2>3, <2>4 DEF Blank
<1>2. ASSUME NEW p \in Region(<<b, from>>, to), p \in TheirWords, b \notin taken PROVE FALSE
  <2>1. PICK s \in Nat : p = <<b, s>> /\ from <= s /\ s < to
    BY <1>2, RegionFacts
  <2>2. <<b, LineOf(s)>> \in theirs /\ s \in 0 .. BlockSlots - 1
    BY <1>2, <2>1 DEF TheirWords
  <2>3. PICK l \in Lines : l = LineOf(s) /\ l \in Nat
    BY <2>2, LineOfInLines, LinesFacts
  <2>4. LineStart(l) <= s /\ s < LineStart(l + 1) /\ LineStart(l) \in Nat /\ LineStart(l + 1) \in Nat
    BY <2>1, <2>3, LineOfBounds, LineStarts
  <2>5. LineStart(l + 1) <= from \/ to <= LineStart(l)
    BY <2>2, <2>3 DEF Blank
  <2> QED
    BY <2>1, <2>4, <2>5
<1> QED
  BY <1>1, <1>2

\* The lists that will still be read.
LEMMA ListedFacts ==
    ASSUME Shape, Contents, NEW b \in Listed
    PROVE  /\ b \in Blocks /\ b \notin free /\ b \notin taken
           /\ Primed /\ largeCursor # NULL => b # largeCursor[1]
           /\ \E H \in SUBSET Lines :
                 /\ Holes(b, H) /\ BlankHoles(b, H)
                 /\ HolesLeft(b) = {<<l, HoleIn(b, l)[3]>> : l \in H}
                 /\ Primed /\ cursor # NULL /\ b = cursor[1] => Behind(H)
<1>1. TypeOK /\ Pool /\ BlankPool /\ (Primed => Cursors /\ BlankCursors)
      /\ free \subseteq Fresh /\ recycled \subseteq Blocks
  BY HeapFacts DEF Shape, Contents
<1>2. CASE b \in recycled
  <2>1. b \in Blocks /\ b \notin free /\ b \notin taken
        /\ (Primed /\ largeCursor # NULL => b # largeCursor[1])
        /\ (Primed /\ cursor # NULL => b # cursor[1])
    BY <1>1, <1>2 DEF Pool, Cursors
  <2>2. PICK H \in SUBSET Lines : Holes(b, H) /\ BlankHoles(b, H)
    BY <1>1, <1>2 DEF BlankPool
  <2>3. HolesLeft(b) = {<<l, HoleIn(b, l)[3]>> : l \in H}
    BY <1>1, <2>1, <2>2, HolesLeftAre
  <2> QED
    BY <2>1, <2>2, <2>3
<1>3. CASE b \notin recycled
  <2>1. Primed /\ cursor # NULL /\ flags[cursor[1]] = "recyclable" /\ b = cursor[1]
    BY <1>3 DEF Listed
  <2>2. b \in Blocks /\ b \notin free /\ b \notin taken /\ flags[b] # "free"
        /\ (largeCursor # NULL => b # largeCursor[1])
    BY <1>1, <2>1, TypeFacts DEF Cursors
  <2>3. PICK H \in SUBSET Lines : Holes(b, H) /\ Behind(H) /\ BlankHoles(b, H)
    BY <1>1, <2>1, <2>2 DEF BlankCursors
  <2>4. HolesLeft(b) = {<<l, HoleIn(b, l)[3]>> : l \in H}
    BY <1>1, <2>2, <2>3, HolesLeftAre
  <2> QED
    BY <2>2, <2>3, <2>4
<1> QED
  BY <1>2, <1>3

\* Who offers a region: a cursor, a hole of a listed block or a free block.
ByCursor(b, from, to) ==
    Primed /\ cursor # NULL /\ b = cursor[1] /\ from = cursor[2] /\ to = limit[2]
ByLarge(b, from, to) ==
    Primed /\ largeCursor # NULL /\ b = largeCursor[1] /\ from = largeCursor[2] /\ to = BlockSlots

ByHole(b, from, to) ==
    b \in Listed /\ \E h \in HolesLeft(b) : from = LineStart(h[1]) /\ to = LineStart(h[1] + h[2])
ByFree(b, from, to) == b \in free /\ from = 0 /\ to = BlockSlots

Offered(b, from, to) ==
    ByCursor(b, from, to) \/ ByLarge(b, from, to) \/ ByHole(b, from, to) \/ ByFree(b, from, to)

LEMMA HoleFacts ==
    ASSUME Shape, Contents, NEW b, NEW from, NEW to, ByHole(b, from, to)
    PROVE  \E H \in SUBSET Lines : \E l \in H, e \in 1 .. LINE_COUNT :
              /\ Holes(b, H) /\ BlankHoles(b, H) /\ e = HoleEnd(b, l) /\ l < e
              /\ HolesLeft(b) = {<<k, HoleIn(b, k)[3]>> : k \in H}
              /\ Primed /\ cursor # NULL /\ b = cursor[1] => Behind(H)
              /\ from = LineStart(l) /\ to = LineStart(e)
<1>1. PICK H \in SUBSET Lines :
           /\ Holes(b, H) /\ BlankHoles(b, H)
           /\ HolesLeft(b) = {<<l, HoleIn(b, l)[3]>> : l \in H}
           /\ Primed /\ cursor # NULL /\ b = cursor[1] => Behind(H)
  BY ListedFacts DEF ByHole
<1>2. PICK h \in HolesLeft(b) : from = LineStart(h[1]) /\ to = LineStart(h[1] + h[2])
  BY DEF ByHole
<1>3. PICK l \in H : h = <<l, HoleIn(b, l)[3]>>
  BY <1>1, <1>2
<1>4. h[1] = l /\ h[1] + h[2] = HoleEnd(b, l)
  BY <1>3 DEF HoleEnd
<1>5. HoleEnd(b, l) \in 1 .. LINE_COUNT /\ l < HoleEnd(b, l)
  BY <1>1 DEF Holes
<1> QED
  BY <1>1, <1>2, <1>4, <1>5

\* All of it is blank.
LEMMA OfferedBlank ==
    ASSUME Shape, Contents, NEW b, NEW from, NEW to, Offered(b, from, to)
    PROVE  from \in Nat /\ to \in Nat /\ Blank(b, from, to) /\ b \notin taken
<1>1. TypeOK /\ Pool /\ BlankPool /\ (Primed => Cursors /\ BlankCursors) /\ BlockSlots \in Nat
      /\ free \subseteq Fresh
  BY Geometry, HeapFacts DEF Shape, Contents
<1>2. CASE ByCursor(b, from, to)
  <2>1. from \in Nat /\ to \in Nat /\ b \notin taken
    BY <1>1, <1>2, TypeFacts, Geometry DEF ByCursor, Cursors
  <2> QED
    BY <1>1, <1>2, <2>1 DEF ByCursor, BlankCursors
<1>3. CASE ByLarge(b, from, to)
  <2>1. from \in Nat /\ to \in Nat /\ b \notin taken
    BY <1>1, <1>3, TypeFacts, Geometry DEF ByLarge, Cursors
  <2> QED
    BY <1>1, <1>3, <2>1 DEF ByLarge, BlankCursors
<1>4. CASE ByHole(b, from, to)
  <2> PICK H \in SUBSET Lines : \E l \in H, e \in 1 .. LINE_COUNT :
              /\ BlankHoles(b, H) /\ e = HoleEnd(b, l)
              /\ from = LineStart(l) /\ to = LineStart(e)
    BY <1>4, HoleFacts
  <2>1. PICK l \in H, e \in 1 .. LINE_COUNT :
              /\ BlankHoles(b, H) /\ e = HoleEnd(b, l)
              /\ from = LineStart(l) /\ to = LineStart(e)
    OBVIOUS
  <2>2. LineStart(l) \in Nat /\ LineStart(e) \in Nat
    BY LinesFacts, LineStarts, Geometry
  <2>3. b \notin taken
    BY <1>4, ListedFacts DEF ByHole
  <2> QED
    BY <2>1, <2>2, <2>3 DEF BlankHoles
<1>5. CASE ByFree(b, from, to)
  BY <1>1, <1>5, Geometry DEF ByFree, BlankPool, Pool
<1> QED
  BY <1>2, <1>3, <1>4, <1>5 DEF Offered

\* No word is on offer twice.
LEMMA OfferedOnce ==
    ASSUME Shape, Contents, NEW b, NEW s \in Nat,
           NEW from, NEW to, Offered(b, from, to), from <= s, s < to,
           NEW from2, NEW to2, Offered(b, from2, to2), from2 <= s, s < to2
    PROVE  from = from2 /\ to = to2
<1>1. TypeOK /\ Pool /\ (Primed => Cursors) /\ free \subseteq Fresh
  BY HeapFacts DEF Shape
<1>2. from \in Nat /\ to \in Nat /\ from2 \in Nat /\ to2 \in Nat
  BY OfferedBlank
<1>3. ByFree(b, from, to) \/ ByFree(b, from2, to2) =>
         ByFree(b, from, to) /\ ByFree(b, from2, to2)
  BY <1>1, ListedFacts DEF Cursors, Offered, ByCursor, ByLarge, ByHole, ByFree
<1>4. ByLarge(b, from, to) \/ ByLarge(b, from2, to2) =>
         ByLarge(b, from, to) /\ ByLarge(b, from2, to2)
  BY <1>1, ListedFacts DEF Cursors, Offered, ByCursor, ByLarge, ByHole, ByFree
<1>5. ASSUME NEW f1 \in Nat, NEW t1 \in Nat, NEW f2 \in Nat, NEW t2 \in Nat,
             ByCursor(b, f1, t1), ByHole(b, f2, t2), f2 <= s, s < t1
      PROVE  FALSE
  <2> PICK H \in SUBSET Lines : Behind(H) /\ \E l \in H : f2 = LineStart(l)
    BY <1>5, HoleFacts DEF ByCursor
  <2>1. PICK l \in H : Behind(H) /\ f2 = LineStart(l)
    OBVIOUS
  <2>2. t1 <= f2
    BY <1>5, <2>1 DEF Behind, ByCursor
  <2> QED
    BY <1>5, <2>2
<1>6. CASE ByCursor(b, from, to) /\ ByCursor(b, from2, to2)
  BY <1>6 DEF ByCursor
<1>7. CASE ByHole(b, from, to) /\ ByHole(b, from2, to2)
  <2> PICK H \in SUBSET Lines : \E l \in H, e \in 1 .. LINE_COUNT :
              /\ Holes(b, H) /\ e = HoleEnd(b, l)
              /\ HolesLeft(b) = {<<k, HoleIn(b, k)[3]>> : k \in H}
              /\ from = LineStart(l) /\ to = LineStart(e)
    BY <1>7, HoleFacts
  <2>1. PICK l \in H, e \in 1 .. LINE_COUNT :
              /\ Holes(b, H) /\ e = HoleEnd(b, l)
              /\ HolesLeft(b) = {<<k, HoleIn(b, k)[3]>> : k \in H}
              /\ from = LineStart(l) /\ to = LineStart(e)
    OBVIOUS
  <2>2. PICK l2 \in H, e2 \in 1 .. LINE_COUNT :
              /\ e2 = HoleEnd(b, l2) /\ from2 = LineStart(l2) /\ to2 = LineStart(e2)
    <3>1. PICK h \in HolesLeft(b) : from2 = LineStart(h[1]) /\ to2 = LineStart(h[1] + h[2])
      BY <1>7 DEF ByHole
    <3>2. PICK k \in H : h = <<k, HoleIn(b, k)[3]>>
      BY <2>1, <3>1
    <3>3. h[1] = k /\ h[1] + h[2] = HoleEnd(b, k)
      BY <3>2 DEF HoleEnd
    <3>4. HoleEnd(b, k) \in 1 .. LINE_COUNT
      BY <2>1 DEF Holes
    <3> QED
      BY <3>1, <3>3, <3>4
  <2>3. l \in Nat /\ l2 \in Nat /\ e \in Nat /\ e2 \in Nat
    BY LinesFacts, Geometry
  <2>4. ~(l < l2)
    <3> SUFFICES ASSUME l < l2 PROVE FALSE
      OBVIOUS
    <3>1. e <= l2
      BY <2>1, <2>2 DEF Holes
    <3>2. LineStart(e) <= LineStart(l2)
      BY <2>3, <3>1, LinesOrdered
    <3> QED
      BY <1>2, <2>1, <2>2, <3>2
  <2>5. ~(l2 < l)
    <3> SUFFICES ASSUME l2 < l PROVE FALSE
      OBVIOUS
    <3>1. e2 <= l
      BY <2>1, <2>2 DEF Holes
    <3>2. LineStart(e2) <= LineStart(l)
      BY <2>3, <3>1, LinesOrdered
    <3> QED
      BY <1>2, <2>1, <2>2, <3>2
  <2>6. l = l2
    BY <2>3, <2>4, <2>5
  <2> QED
    BY <2>1, <2>2, <2>6
<1>8. CASE ByFree(b, from, to) /\ ByFree(b, from2, to2)
  BY <1>8 DEF ByFree
<1>9. CASE ByLarge(b, from, to) /\ ByLarge(b, from2, to2)
  BY <1>9 DEF ByLarge
<1>10. ~(ByCursor(b, from, to) /\ ByHole(b, from2, to2))
  BY <1>2, <1>5
<1>11. ~(ByHole(b, from, to) /\ ByCursor(b, from2, to2))
  BY <1>2, <1>5
<1> QED
  BY <1>3, <1>4, <1>6, <1>7, <1>8, <1>9, <1>10, <1>11 DEF Offered

\* Whatever memory can still be handed out to this thread holds no live object,
\* of this thread or of another, and no word of it is on offer twice: what is
\* left under either cursor, the holes listed and the free blocks.
\* (Block_Recycle, nextLineRecycled, both cursors.)
THEOREM OfferedMemoryIsDead == Spec => []OfferedIsDead
<1>1. ASSUME IInv PROVE OfferedIsDead
  <2> DEFINE holes == UNION {{<<b, h>> : h \in HolesLeft(b)} : b \in Listed}
             regions == {CursorRegion, LargeRegion}
                          \union {HoleRegion(x[1], x[2]) : x \in holes}
                          \union {Region(<<b, 0>>, BlockSlots) : b \in free}
  <2> SUFFICES ASSUME ~passedOver
               PROVE  /\ \A x \in holes : x[2][2] > 0
                      /\ \A r \in regions : r \intersect (LiveWords \union TheirWords) = {}
                      /\ \A r, q \in regions : r # q => r \intersect q = {}
    BY DEF OfferedIsDead
  <2>1. TypeOK /\ Shape /\ Contents
    BY <1>1 DEF IInv, Shape
  <2>2. ASSUME NEW x \in holes
        PROVE  \E b \in Listed : \E h \in HolesLeft(b) : x = <<b, h>>
    OBVIOUS
  <2>3. \A x \in holes : x[2][2] > 0
    <3> SUFFICES ASSUME NEW x \in holes PROVE x[2][2] > 0
      OBVIOUS
    <3> PICK b \in Listed : \E h \in HolesLeft(b) : x = <<b, h>>
      BY <2>2
    <3>1. PICK h \in HolesLeft(b) : x = <<b, h>>
      OBVIOUS
    <3>2. PICK H \in SUBSET Lines :
             Holes(b, H) /\ HolesLeft(b) = {<<l, HoleIn(b, l)[3]>> : l \in H}
      BY <2>1, ListedFacts
    <3>3. PICK l \in H : h = <<l, HoleIn(b, l)[3]>>
      BY <3>1, <3>2
    <3>4. x[2][2] = HoleIn(b, l)[3] /\ HoleEnd(b, l) = l + HoleIn(b, l)[3]
      BY <3>1, <3>3 DEF HoleEnd
    <3>5. x[2][2] \in 0 .. LINE_COUNT
      BY <2>1, <3>1, <3>4, HoleWord, ListedFacts
    <3>6. l < l + x[2][2] /\ l \in Nat
      BY <3>2, <3>4, LinesFacts DEF Holes
    <3> QED
      BY <3>5, <3>6, Geometry
  <2>4. ASSUME NEW r \in regions
        PROVE  r = {} \/ \E b, from, to : r = Region(<<b, from>>, to) /\ Offered(b, from, to)
    <3>1. CASE r = CursorRegion
      <4>1. CASE ~(Primed /\ cursor # NULL)
        BY <3>1, <4>1 DEF CursorRegion
      <4>2. CASE Primed /\ cursor # NULL
        <5>1. cursor = <<cursor[1], cursor[2]>>
          BY <2>1, <4>2, TypeFacts
        <5>2. r = Region(<<cursor[1], cursor[2]>>, limit[2])
          BY <3>1, <4>2, <5>1 DEF CursorRegion
        <5> QED
          BY <4>2, <5>2 DEF Offered, ByCursor
      <4> QED
        BY <4>1, <4>2
    <3>2. CASE r = LargeRegion
      <4>1. CASE ~(Primed /\ largeCursor # NULL)
        BY <3>2, <4>1 DEF LargeRegion
      <4>2. CASE Primed /\ largeCursor # NULL
        <5>1. largeCursor = <<largeCursor[1], largeCursor[2]>>
          BY <2>1, <4>2, TypeFacts
        <5>2. r = Region(<<largeCursor[1], largeCursor[2]>>, BlockSlots)
          BY <3>2, <4>2, <5>1 DEF LargeRegion
        <5> QED
          BY <4>2, <5>2 DEF Offered, ByLarge
      <4> QED
        BY <4>1, <4>2
    <3>3. CASE \E x \in holes : r = HoleRegion(x[1], x[2])
      <4> PICK b \in Listed : \E h \in HolesLeft(b) : r = HoleRegion(b, h)
        BY <2>2, <3>3
      <4>1. PICK h \in HolesLeft(b) : r = HoleRegion(b, h)
        OBVIOUS
      <4> QED
        BY <4>1 DEF HoleRegion, Offered, ByHole
    <3>4. CASE \E b \in free : r = Region(<<b, 0>>, BlockSlots)
      BY <3>4 DEF Offered, ByFree
    <3> QED
      BY <3>1, <3>2, <3>3, <3>4
  <2> HIDE DEF regions, holes
  <2>5. \A r \in regions : r \intersect (LiveWords \union TheirWords) = {}
    <3> SUFFICES ASSUME NEW r \in regions, r # {}
                 PROVE  r \intersect (LiveWords \union TheirWords) = {}
      OBVIOUS
    <3>1. PICK b, from, to : r = Region(<<b, from>>, to) /\ Offered(b, from, to)
      BY <2>4
    <3>2. from \in Nat /\ to \in Nat /\ Blank(b, from, to) /\ b \notin taken
      BY <2>1, <3>1, OfferedBlank
    <3> QED
      BY <2>1, <3>1, <3>2, BlankRegion
  <2>6. ASSUME NEW r \in regions, NEW q \in regions, NEW p \in r, p \in q PROVE r = q
    <3>1. PICK b, from, to : r = Region(<<b, from>>, to) /\ Offered(b, from, to)
      BY <2>4, <2>6
    <3>2. PICK b2, from2, to2 : q = Region(<<b2, from2>>, to2) /\ Offered(b2, from2, to2)
      BY <2>4, <2>6
    <3>3. from \in Nat /\ to \in Nat /\ from2 \in Nat /\ to2 \in Nat
      BY <2>1, <3>1, <3>2, OfferedBlank
    <3>4. PICK s \in Nat : p = <<b, s>> /\ from <= s /\ s < to
      BY <2>6, <3>1, <3>3, RegionFacts
    <3>5. PICK s2 \in Nat : p = <<b2, s2>> /\ from2 <= s2 /\ s2 < to2
      BY <2>6, <3>2, <3>3, RegionFacts
    <3>6. b = b2 /\ s = s2
      BY <3>4, <3>5
    <3>7. from = from2 /\ to = to2
      BY <2>1, <3>1, <3>2, <3>4, <3>5, <3>6, OfferedOnce
    <3> QED
      BY <3>1, <3>2, <3>6, <3>7
  <2> QED
    BY <2>3, <2>5, <2>6
<1>2. IInv => OfferedIsDead
  BY <1>1
<1> QED
  BY <1>2, IInvHolds, PTL

-----------------------------------------------------------------------------
(* The abstract object store.                                                *)

\* A cursor only hands out memory that no live object uses.
LEMMA BumpIsAlloc ==
    ASSUME TypeOK, ~passedOver, ~overwritten,
           NEW b \in Blocks, NEW c \in Nat, NEW size \in Sizes, NEW lim \in Nat,
           c + size <= lim, lim <= BlockSlots, Bump(b, c, size, lim), Blank(b, c, lim)
    PROVE  S!Next
<1>1. PICK o : /\ o = [block |-> b, start |-> c, size |-> size]
               /\ live' = live \union {o} /\ overwritten' = (overwritten \/ S!Overlaps(o))
  BY DEF Bump
<1>2. size \in Nat /\ 1 <= size /\ BlockSlots \in Nat
  BY SizesFacts, Geometry
<1>3. o \in S!Places
  BY <1>1, <1>2 DEF S!Places, S!Slots
<1>4. ASSUME NEW q \in S!WordsOf(o) PROVE q \in Region(<<b, c>>, lim)
  <2>1. PICK s \in Nat : q = <<b, s>> /\ c <= s /\ s < c + size
    BY <1>1, <1>2 DEF S!WordsOf
  <2>2. s < lim
    BY <1>2, <2>1
  <2> QED
    BY <2>1, <2>2, RegionFacts
<1>5. ~S!Overlaps(o)
  <2>1. Region(<<b, c>>, lim) \intersect LiveWords = {}
    BY BlankRegion
  <2>2. \A p \in live : S!WordsOf(p) \intersect S!WordsOf(o) = {}
    BY <1>4, <2>1 DEF LiveWords
  <2> QED
    BY <2>2 DEF S!Overlaps
<1>6. UNCHANGED <<overwritten, passedOver>>
  <2>1. overwritten = FALSE
    BY DEF TypeOK
  <2>2. overwritten' = (overwritten \/ FALSE)
    BY <1>1, <1>5, Zenon
  <2>3. passedOver' = passedOver
    BY DEF Bump
  <2> QED
    BY <2>1, <2>2, <2>3
<1>7. S!Alloc(o)
  BY <1>1, <1>5, <1>6 DEF S!Alloc
<1> QED
  BY <1>3, <1>7 DEF S!Next

\* The small heap implements the object store: a new object overwrites none
\* that the mutator can reach, be it all of it, and none moves or disappears but
\* by a collection.  What excuses it is a live object passed over by the marker.
\* (Heap_AllocSmall, Heap_Collect.)
THEOREM SmallHeapImplementsStore == Spec => ImplementsObjectStore
<1>1. Init => S!Init
  BY DEF Init, S!Init
<1>2. ASSUME IInv, [Next]_vars, ~passedOver' PROVE [S!Next]_(S!vars)
  <2>1. TypeOK /\ Shape /\ Contents /\ ~passedOver /\ ~overwritten
    BY <1>2, PassedOverStays DEF IInv, Shape, Contents
  <2>2. ASSUME NEW size \in Sizes, Alloc(size) PROVE S!Next
    <3>1. Primed /\ Cursors /\ BlankCursors /\ cursor # NULL /\ limit # NULL
      BY <2>1, <2>2, CalledPrimed DEF Alloc, Contents
    <3>2. PICK b \in Blocks, c \in Nat, lim \in Nat :
             /\ b = cursor[1] /\ c = cursor[2] /\ lim = limit[2] /\ lim <= BlockSlots
      BY <2>1, <3>1, TypeFacts, Geometry
    <3>3. c + size <= lim /\ Bump(b, c, size, lim) /\ Blank(b, c, lim)
      BY <2>2, <3>1, <3>2 DEF Alloc, Fits, BlankCursors
    <3> QED
      BY <2>1, <3>2, <3>3, BumpIsAlloc
  <2>3. ASSUME NEW size \in Sizes, OverflowAlloc(size) PROVE S!Next
    <3>1. BlankCursors /\ largeCursor # NULL
      BY <2>1, <2>3, CalledPrimed DEF OverflowAlloc, Overflow, Contents
    <3>2. PICK b \in Blocks, c \in Nat, lim \in Nat :
             /\ b = largeCursor[1] /\ c = largeCursor[2] /\ lim = BlockSlots /\ lim <= BlockSlots
      BY <2>1, <3>1, TypeFacts, Geometry
    <3>3. c + size <= lim /\ Bump(b, c, size, lim) /\ Blank(b, c, lim)
      BY <2>3, <3>1, <3>2 DEF OverflowAlloc, LargeFits, BlankCursors
    <3> QED
      BY <2>1, <3>2, <3>3, BumpIsAlloc
  <2>4. ASSUME Collect PROVE S!Next
    <3>1. live' \subseteq live /\ overwritten' = overwritten
      BY <2>1, <2>4, CollectLeaves
    <3>2. passedOver' = passedOver
      <4>1. passedOver = FALSE /\ passedOver' \in BOOLEAN
        BY <2>1, <2>4, CollectLeaves DEF TypeOK
      <4> QED
        BY <1>2, <4>1
    <3> QED
      BY <2>1, <3>1, <3>2 DEF S!Next, S!Collect
  <2>5. ASSUME NEW size \in Sizes,
               NextLineRecycled(size) \/ NextBlock(size) \/ NoBlock(size)
                 \/ OverflowBlock(size) \/ OverflowNoBlock(size) \/ OverflowThroughNull(size)
        PROVE  UNCHANGED population
    BY <2>5 DEF NextLineRecycled, NextBlock, NoBlock, OverflowBlock, OverflowNoBlock,
                OverflowThroughNull
  <2>6. ASSUME NEW n \in 1 .. MaxThreads, KeepSize(n) \/ Grow(n) \/ OutOfMemory(n)
        PROVE  UNCHANGED population
    BY <2>6 DEF KeepSize, Grow, StartVisit, OutOfMemory
  <2>7. OthersTake \/ OtherInitCursors \/ ReinitCursors \/ EndCollection \/ UNCHANGED vars
          => UNCHANGED population
    BY DEF OthersTake, OtherInitCursors, ReinitCursors, Prime, EndCollection, vars
  <2>8. UNCHANGED population => UNCHANGED S!vars
    BY DEF population, S!vars
  <2> QED
    BY <1>2, <2>2, <2>3, <2>4, <2>5, <2>6, <2>7, <2>8 DEF Next
<1>3. IInv /\ [Next]_vars => [S!Next]_(S!vars)
  BY <1>2 DEF S!Next
<1> QED
  BY <1>1, <1>3, IInvHolds, PTL DEF Spec, S!Spec, ImplementsObjectStore

\* In the store live objects never overlap and none is ever handed out again, so
\* whatever implements it never overwrites one. (The promise of Heap_AllocSmall.)
THEOREM LiveObjectsApart == S!Spec => []S!Sound
<1>1. S!Init => S!Sound
  BY DEF S!Init, S!Sound, S!Disjoint
<1>2. ASSUME S!Sound, [S!Next]_(S!vars) PROVE S!Sound'
  <2> SUFFICES ASSUME ~passedOver' PROVE S!Disjoint' /\ ~overwritten'
    BY DEF S!Sound
  <2>1. CASE S!Next
    <3>1. ~passedOver /\ S!Disjoint /\ ~overwritten
      BY <1>2, <2>1 DEF S!Next, S!Sound
    <3>2. CASE S!Collect
      BY <3>1, <3>2 DEF S!Collect, S!Disjoint, S!WordsOf
    <3>3. ASSUME NEW o \in S!Places, S!Alloc(o) PROVE S!Disjoint' /\ ~overwritten'
      <4>1. /\ live' = live \union {o} /\ ~overwritten'
            /\ \A x \in live : S!WordsOf(x) \intersect S!WordsOf(o) = {}
        BY <3>1, <3>3 DEF S!Alloc, S!Overlaps
      <4> SUFFICES ASSUME NEW p \in live', NEW q \in live', p # q
                   PROVE  S!WordsOf(p) \intersect S!WordsOf(q) = {}
        BY <4>1 DEF S!Disjoint, S!WordsOf
      <4> QED
        BY <3>1, <4>1 DEF S!Disjoint
    <3> QED
      BY <2>1, <3>2, <3>3 DEF S!Next
  <2>2. CASE UNCHANGED S!vars
    BY <1>2, <2>2 DEF S!vars, S!Sound, S!Disjoint, S!WordsOf
  <2> QED
    BY <1>2, <2>1, <2>2
<1> QED
  BY <1>1, <1>2, PTL DEF S!Spec

\* Until a live object is passed over, no two live objects of the small heap share
\* a word, and no memory of one is ever handed out, be it exactly its place.
THEOREM ObjectsApart == Spec => []S!Sound
  BY SmallHeapImplementsStore, LiveObjectsApart, PTL DEF ImplementsObjectStore
=============================================================================
