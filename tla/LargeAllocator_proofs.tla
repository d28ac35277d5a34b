----------------------- MODULE LargeAllocator_proofs -----------------------
(* The invariants of LargeAllocator, for every set of threads, sizes of      *)
(* objects, size and limit of the heap.  They hold until two growths of the  *)
(* heap overlap, which no lock of the code prevents.                         *)
EXTENDS LargeAllocator, RecursionFacts, FiniteSetTheorems

\* The addresses T tile a range into chunks of the lengths len.
Tiles(T, len, from, to) ==
    /\ T \subseteq Multiples \intersect from .. to - 1
    /\ from \in T \union {to}
    /\ \A a \in T :
          /\ len[a] \in Multiples \ {0}
          /\ a + len[a] \in T \union {to}
          /\ \A b \in T : a < b => a + len[a] <= b

\* The length a chunk will have: that of a chunk just handed out is in its
\* header only when its thread has stamped it.
TakenBy(a) == {t \in Threads : object[t] = a}
Length == [a \in bits |-> IF TakenBy(a) = {} THEN ChunkSize(a)
                          ELSE Actual(request[CHOOSE t \in TakenBy(a) : TRUE])]

\* The bits are those of chunks, which tile the heap.
Layout == bits \subseteq DOMAIN header /\ Tiles(bits, Length, 0, size)

\* A free chunk leads nowhere; a list that offers one offers a chunk of its class.
Free ==
    /\ \A a \in bits : header[a].flag = "free" => header[a].word = NULL
    /\ \A k \in Classes : LET a == freeLists[k].first IN
          a # NULL => /\ a \in bits /\ header[a].flag = "free"
                      /\ header[a].size = PowerOfTwo(k + LARGE_OBJECT_MIN_SIZE_BITS)

\* An object is a chunk of its own, which looks free to nobody.
Live ==
    \A o \in live : LET a == o.start * MIN_BLOCK_SIZE IN
        /\ a \in bits /\ header[a].flag = "allocated"
        /\ Length[a] = o.size * MIN_BLOCK_SIZE
        /\ header[a].word # NULL \/ TakenBy(a) # {}

\* What a thread has been given is a chunk that no other thread was given.
Taken ==
    \A t \in Threads :
        /\ pc[t] \notin {"idle", "exited"} => request[t] \in Sizes
        /\ pc[t] = "got" => object[t] # NULL
        /\ object[t] # NULL =>
              /\ pc[t] \in {"got", "exited"} /\ request[t] \in Sizes
              /\ object[t] \in bits /\ header[object[t]].flag = "allocated"
              /\ TakenBy(object[t]) = {t}

\* One thread grows the heap at a time; allocator and Heap agree on its size but
\* between the two steps of it, and what was added is there for the last try if
\* nobody took it.  A process that ends may leave a growth unfinished.
Growing == {"end", "register"}
Growth ==
    /\ \A t, u \in Threads : pc[t] \in Growing /\ pc[u] \in Growing => t = u
    /\ \A t, u \in Threads : pc[t] = "exited" => pc[u] \in {"exited", "crashed"}
    /\ (\A t \in Threads : pc[t] \in {"register", "exited"} => seen[t] = NULL)
         => largeHeapEnd = size /\ largeHeapSize = size
    /\ \A t \in Threads :
          /\ pc[t] \in Growing =>
                /\ seen[t] = [end |-> size, size |-> size]
                /\ size + Increment(request[t]) <= MemoryLimit
          /\ pc[t] = "register" =>
                /\ largeHeapEnd = size + Increment(request[t])
                /\ largeHeapSize = size + Increment(request[t])
          /\ pc[t] \notin Growing \union {"exited"} => seen[t] = NULL
          /\ pc[t] = "last" /\ t \notin robbed => Fitting(request[t]) # {}
          /\ pc[t] = "crashed" => t \in robbed

Apart == overlapped = FALSE /\ overwritten = FALSE

IInv == Apart /\ HeapTyped /\ Layout /\ Free /\ Live /\ Taken /\ Growth

-----------------------------------------------------------------------------
(* Powers of two, for the exponents that occur, and the bits of a number.    *)

Power == [k \in 0 .. 31 |-> 2^k]

LEMMA PowerStep ==
    ASSUME NEW k \in 0 .. 30
    PROVE  Power[k] \in Nat \ {0} /\ Power[k + 1] = 2 * Power[k]
<1> USE DEF Power
<1>0. CASE k = 0 BY <1>0
<1>1. CASE k = 1 BY <1>1
<1>2. CASE k = 2 BY <1>2
<1>3. CASE k = 3 BY <1>3
<1>4. CASE k = 4 BY <1>4
<1>5. CASE k = 5 BY <1>5
<1>6. CASE k = 6 BY <1>6
<1>7. CASE k = 7 BY <1>7
<1>8. CASE k = 8 BY <1>8
<1>9. CASE k = 9 BY <1>9
<1>10. CASE k = 10 BY <1>10
<1>11. CASE k = 11 BY <1>11
<1>12. CASE k = 12 BY <1>12
<1>13. CASE k = 13 BY <1>13
<1>14. CASE k = 14 BY <1>14
<1>15. CASE k = 15 BY <1>15
<1>16. CASE k = 16 BY <1>16
<1>17. CASE k = 17 BY <1>17
<1>18. CASE k = 18 BY <1>18
<1>19. CASE k = 19 BY <1>19
<1>20. CASE k = 20 BY <1>20
<1>21. CASE k = 21 BY <1>21
<1>22. CASE k = 22 BY <1>22
<1>23. CASE k = 23 BY <1>23
<1>24. CASE k = 24 BY <1>24
<1>25. CASE k = 25 BY <1>25
<1>26. CASE k = 26 BY <1>26
<1>27. CASE k = 27 BY <1>27
<1>28. CASE k = 28 BY <1>28
<1>29. CASE k = 29 BY <1>29
<1>30. CASE k = 30 BY <1>30
<1> QED
    BY <1>0, <1>1, <1>2, <1>3, <1>4, <1>5, <1>6, <1>7, <1>8, <1>9, <1>10, <1>11, <1>12, <1>13,
     <1>14, <1>15, <1>16, <1>17, <1>18, <1>19, <1>20, <1>21, <1>22, <1>23, <1>24, <1>25, <1>26,
     <1>27, <1>28, <1>29, <1>30

LEMMA PowerZero == Power[0] = 1 /\ Power[10] = MIN_BLOCK_SIZE
  BY DEF MIN_BLOCK_SIZE, Power

LEMMA PowerNat == \A k \in 0 .. 31 : Power[k] \in Nat \ {0}
<1>1. Power[31] = 2 * Power[30] /\ Power[30] \in Nat \ {0}
  BY PowerStep
<1>2. ASSUME NEW k \in 0 .. 31 PROVE Power[k] \in Nat \ {0}
  <2>1. k \in 0 .. 30 \/ k = 31
    OBVIOUS
  <2> QED
    BY <1>1, <2>1, PowerStep
<1> QED
  BY <1>2

LEMMA PowerGrows ==
    ASSUME NEW j \in 0 .. 31, NEW k \in 0 .. 31, j < k
    PROVE  2 * Power[j] <= Power[k]
<1> DEFINE Bad == {i \in j + 1 .. 31 : ~(2 * Power[j] <= Power[i])}
<1> SUFFICES ASSUME Bad # {} PROVE FALSE
  OBVIOUS
<1>1. Bad \in SUBSET Nat
  OBVIOUS
<1>2. PICK i \in Bad : \A x \in Bad : i <= x
  <2> HIDE DEF Bad
  <2> QED
    BY <1>1, LeastNatural
<1>3. j \in 0 .. 30 /\ i - 1 \in 0 .. 30
  OBVIOUS
<1>4. Power[j + 1] = 2 * Power[j] /\ Power[i - 1 + 1] = 2 * Power[i - 1]
  BY <1>3, PowerStep
<1>5. i # j + 1
  BY <1>3, <1>4, PowerNat
<1>6. i - 1 \in j + 1 .. 31 /\ i - 1 + 1 = i
  BY <1>5
<1>7. 2 * Power[j] <= Power[i - 1]
  BY <1>2, <1>6
<1>8. Power[i - 1] \in Nat /\ Power[j] \in Nat
  BY <1>3, PowerNat
<1> QED
  BY <1>4, <1>6, <1>7, <1>8

\* An exponent is known by the power below it.
LEMMA PowerOrder ==
    ASSUME NEW j \in 0 .. 31, NEW k \in 0 .. 31, Power[j] < 2 * Power[k]
    PROVE  j <= k
<1> SUFFICES ASSUME k < j PROVE FALSE
  OBVIOUS
<1>1. 2 * Power[k] <= Power[j]
  BY PowerGrows
<1> QED
  BY <1>1, PowerNat

LEMMA PowerMonotone ==
    ASSUME NEW j \in 0 .. 31, NEW k \in 0 .. 31, j <= k
    PROVE  Power[j] <= Power[k]
<1>1. CASE j = k
  BY <1>1, PowerNat
<1>2. CASE j < k
  <2>1. 2 * Power[j] <= Power[k] /\ Power[j] \in Nat
    BY <1>2, PowerGrows, PowerNat
  <2> QED
    BY <2>1, PowerNat
<1> QED
  BY <1>1, <1>2

\* Every number up to 2^31 lies between two powers.
LEMMA FloorExists ==
    ASSUME NEW n \in Nat \ {0}, NEW m \in 0 .. 31, n < Power[m]
    PROVE  \E h \in 0 .. 30 : h < m /\ Power[h] <= n /\ n < Power[h + 1]
<1> DEFINE Up == {k \in 0 .. m : n < Power[k]}
<1>1. m \in Up /\ Up \in SUBSET Nat
  OBVIOUS
<1>2. PICK k \in Up : \A x \in Up : k <= x
  <2> HIDE DEF Up
  <2> QED
    BY <1>1, LeastNatural
<1>3. k # 0
  BY PowerZero
<1>4. k - 1 \in 0 .. m /\ k - 1 \in 0 .. 30 /\ k - 1 \notin Up /\ k - 1 + 1 = k
  BY <1>2, <1>3
<1>5. ~(n < Power[k - 1]) /\ Power[k - 1] \in Nat
  BY <1>4, PowerNat
<1> QED
  BY <1>2, <1>4, <1>5

\* The k highest places of h + 1 are ones, and there are no ones above.
TopOnes(w, h, k) == w \subseteq 0 .. h /\ \A x \in 0 .. h : x > h - k => x \in w

\* One of the five shifts doubles the run of ones below the highest.
LEMMA ShiftDoubles ==
    ASSUME NEW h \in 0 .. 31, NEW w, NEW k \in 1 .. 16, TopOnes(w, h, k)
    PROVE  TopOnes(w \union ShiftRight(w, k), h, 2 * k)
<1>1. ASSUME NEW x \in ShiftRight(w, k) PROVE x \in 0 .. h
  <2>1. PICK b \in w : b >= k /\ x = b - k
    BY DEF ShiftRight
  <2>2. b \in 0 .. h
    BY DEF TopOnes
  <2> QED
    BY <2>1, <2>2
<1>2. ASSUME NEW x \in 0 .. h, x > h - 2 * k, x \notin w PROVE x \in ShiftRight(w, k)
  <2>1. x + k \in 0 .. h /\ x + k > h - k
    BY <1>2 DEF TopOnes
  <2>2. x + k \in w /\ x = x + k - k /\ x + k >= k
    BY <2>1 DEF TopOnes
  <2> QED
    BY <2>2 DEF ShiftRight
<1> QED
  BY <1>1, <1>2 DEF TopOnes

LEMMA FoldedIs ==
    ASSUME NEW h \in 0 .. 31, NEW v \in SUBSET (0 .. h), h \in v
    PROVE  Folded(v) = 0 .. h
<1> DEFINE or(w, k) == w \union ShiftRight(w, k)
<1>1. TopOnes(v, h, 1)
  BY DEF TopOnes
<1>2. ASSUME NEW w, NEW k \in 1 .. 16, TopOnes(w, h, k), NEW d, d = 2 * k
      PROVE  TopOnes(or(w, k), h, d)
  BY <1>2, ShiftDoubles
<1> HIDE DEF or
<1>3. TopOnes(or(v, 1), h, 2)
  BY <1>1, <1>2
<1>4. TopOnes(or(or(v, 1), 2), h, 4)
  BY <1>3, <1>2
<1>5. TopOnes(or(or(or(v, 1), 2), 4), h, 8)
  BY <1>4, <1>2
<1>6. TopOnes(or(or(or(or(v, 1), 2), 4), 8), h, 16)
  BY <1>5, <1>2
<1>7. TopOnes(or(or(or(or(or(v, 1), 2), 4), 8), 16), h, 32)
  BY <1>6, <1>2
<1>8. Folded(v) = or(or(or(or(or(v, 1), 2), 4), 8), 16)
  BY DEF Folded, or
<1>9. TopOnes(Folded(v), h, 32)
  BY <1>7, <1>8
<1>10. \A x \in 0 .. h : x > h - 32
  OBVIOUS
<1> QED
  BY <1>9, <1>10 DEF TopOnes

\* log2_floor finds the highest one of a word of 32 bits. (MathUtils.h.)
LEMMA HighestOne ==
    ASSUME NEW h \in 0 .. 31, NEW v \in SUBSET (0 .. h), h \in v
    PROVE  log2_floor(v) = h
<1>1. Folded(v) = 0 .. h /\ Folded(0 .. h) = 0 .. h
  BY FoldedIs
<1>2. log2_floor(v) = log2_floor(0 .. h)
  BY <1>1 DEF log2_floor
<1> QED
  BY <1>2, DeBruijnTable

LEMMA Quotient ==
    ASSUME NEW n \in Nat, NEW p \in Nat \ {0}
    PROVE  /\ n \div p \in Nat
           /\ n < p => n \div p = 0
           /\ p <= n /\ n < 2 * p => n \div p = 1
           /\ n = p * (n \div p) /\ (n \div p) % 2 # 1
                => n = 2 * p * (n \div (2 * p))
<1>1. n \div p \in Nat /\ (n < p => n \div p = 0) /\ (p <= n /\ n < 2 * p => n \div p = 1)
  OBVIOUS
<1>2. ASSUME n = p * (n \div p), (n \div p) % 2 # 1 PROVE n = 2 * p * (n \div (2 * p))
  <2>1. PICK q \in Nat : q = n \div p
    BY <1>1
  <2>2. q = 2 * (q \div 2) /\ q \div 2 \in Nat
    BY <1>2, <2>1
  <2>3. PICK s \in Nat : q = 2 * s
    BY <2>2
  <2>4. n = 2 * p * s
    BY <1>2, <2>1, <2>3
  <2>5. PICK d \in Nat \ {0} : d = 2 * p
    OBVIOUS
  <2>6. n = d * s
    BY <2>4, <2>5
  <2>7. n \div d = s
    BY <2>6
  <2> QED
    BY <2>5, <2>6, <2>7
<1> QED
  BY <1>1, <1>2

\* The bits of a number between two powers.
LEMMA BitsOf ==
    ASSUME NEW n \in Nat, NEW h \in 0 .. 30, Power[h] <= n, n < Power[h + 1]
    PROVE  /\ Bits(n) \in SUBSET (0 .. h) /\ h \in Bits(n)
           /\ Bits(n) = {h} => n = Power[h]
<1>1. \A b \in 0 .. 30 : Power[b] \in Nat \ {0} /\ (b \in Bits(n) <=> (n \div Power[b]) % 2 = 1)
  <2>1. \A b \in 0 .. 30 : Power[b] \in Nat \ {0}
    BY PowerStep
  <2>2. ASSUME NEW b \in 0 .. 30 PROVE Power[b] = 2^b
    BY DEF Power
  <2>3. Bits(n) = {b \in 0 .. 30 : (n \div Power[b]) % 2 = 1}
    BY <2>2, Zenon DEF Bits
  <2> QED
    BY <2>1, <2>3
<1>2. h \in Bits(n)
  <2>1. n \div Power[h] = 1
    BY <1>1, PowerStep, Quotient
  <2> QED
    BY <1>1, <2>1
<1>3. ASSUME NEW b \in Bits(n), b > h PROVE FALSE
  <2>1. b \in 0 .. 30
    BY DEF Bits
  <2>2. Power[h + 1] <= Power[b]
    BY <1>3, <2>1, PowerMonotone
  <2>3. n < Power[b]
    BY <1>1, <2>1, <2>2, PowerNat
  <2>4. n \div Power[b] = 0
    BY <1>1, <2>1, <2>3, Quotient
  <2> QED
    BY <1>1, <2>1, <2>4
<1>4. ASSUME Bits(n) = {h} PROVE n = Power[h]
  <2> DEFINE Bad == {b \in 0 .. h : n # Power[b] * (n \div Power[b])}
  <2>1. Bad = {}
    <3> SUFFICES ASSUME Bad # {} PROVE FALSE
      OBVIOUS
    <3>1. Bad \in SUBSET Nat
      OBVIOUS
    <3>2. PICK b \in Bad : \A x \in Bad : b <= x
      <4> HIDE DEF Bad
      <4> QED
        BY <3>1, LeastNatural
    <3>3. b # 0
      BY PowerZero
    <3>4. b - 1 \in 0 .. h /\ b - 1 \in 0 .. 30 /\ b - 1 \notin Bad /\ b - 1 # h /\ b - 1 + 1 = b
      BY <3>2, <3>3
    <3>5. b - 1 \notin Bits(n) /\ Power[b] = 2 * Power[b - 1] /\ Power[b - 1] \in Nat \ {0}
      BY <1>4, <3>4, PowerStep
    <3>6. n = Power[b - 1] * (n \div Power[b - 1]) /\ (n \div Power[b - 1]) % 2 # 1
      BY <1>1, <3>4, <3>5
    <3>7. n = 2 * Power[b - 1] * (n \div (2 * Power[b - 1]))
      BY <3>5, <3>6, Quotient
    <3> QED
      BY <3>5, <3>7
  <2>2. n = Power[h] * (n \div Power[h])
    BY <2>1
  <2>3. n \div Power[h] = 1 /\ Power[h] \in Nat
    BY <1>1, PowerStep, Quotient
  <2> QED
    BY <2>2, <2>3
<1>5. Bits(n) \subseteq 0 .. 30
  BY DEF Bits
<1>6. Bits(n) \subseteq 0 .. h
  BY <1>3, <1>5
<1> QED
  BY <1>2, <1>4, <1>6

LEMMA LogOfBytes ==
    ASSUME NEW n \in Nat, NEW h \in 0 .. 28, Power[h] <= n, n < Power[h + 1]
    PROVE  log2_floor(Bytes(n)) = h + 3
<1>1. h \in 0 .. 30
  OBVIOUS
<1>2. Bits(n) \in SUBSET (0 .. h) /\ h \in Bits(n)
  BY <1>1, BitsOf
<1>3. Bytes(n) \in SUBSET (0 .. h + 3) /\ h + 3 \in Bytes(n) /\ h + 3 \in 0 .. 31
  BY <1>2 DEF Bytes, OBJ_ALIGN_BITS
<1> QED
  BY <1>3, HighestOne

LEMMA CeilOfBytes ==
    ASSUME NEW n \in Nat, NEW h \in 0 .. 27, Power[h] <= n, n < Power[h + 1]
    PROVE  /\ Log2Ceil(Bytes(n)) \in {h + 3, h + 4}
           /\ n # Power[h] => Log2Ceil(Bytes(n)) = h + 4
<1>1. h \in 0 .. 30 /\ h + 3 \in 0 .. 31 /\ h + 4 \in 0 .. 31
  OBVIOUS
<1>2. Bits(n) \in SUBSET (0 .. h) /\ h \in Bits(n) /\ (Bits(n) = {h} => n = Power[h])
  BY <1>1, BitsOf
<1> DEFINE v == Bytes(n)
           twice == {b + 1 : b \in v \ {63}}
           low == Min(twice)
           w == (twice \ {low}) \union 0 .. low - 1
<1>3. v \in SUBSET (3 .. h + 3) /\ h + 3 \in v
  BY <1>2 DEF Bytes, OBJ_ALIGN_BITS
<1>4. twice \in SUBSET (4 .. h + 4) /\ h + 4 \in twice
  BY <1>3
<1>5. low \in twice /\ \A y \in twice : low <= y
  <2>1. twice \in SUBSET Nat /\ twice # {}
    BY <1>4
  <2> HIDE DEF twice
  <2> QED
    BY <2>1, MinFacts
<1>6. TwiceLessOne(Bytes(n)) = w
  BY DEF TwiceLessOne
<1>7. CASE low = h + 4
  <2>1. w = 0 .. h + 3
    BY <1>4, <1>5, <1>7
  <2>2. log2_floor(w) = h + 3
    <3>1. w \in SUBSET (0 .. h + 3) /\ h + 3 \in w
      BY <2>1
    <3> HIDE DEF w
    <3> QED
      BY <1>1, <3>1, HighestOne
  <2>3. Bits(n) = {h}
    <3> SUFFICES ASSUME NEW b \in Bits(n), b # h PROVE FALSE
      BY <1>2
    <3>1. b + 3 \in v \ {63} /\ b \in 0 .. h
      BY <1>2 DEF Bytes, OBJ_ALIGN_BITS
    <3>2. b + 3 + 1 \in twice
      BY <3>1
    <3> QED
      BY <1>5, <1>7, <3>1, <3>2
  <2> QED
    BY <1>2, <1>6, <2>2, <2>3 DEF Log2Ceil
<1>8. CASE low # h + 4
  <2>1. w \in SUBSET (0 .. h + 4) /\ h + 4 \in w
    BY <1>4, <1>5, <1>8
  <2>2. log2_floor(w) = h + 4
    <3> HIDE DEF w
    <3> QED
      BY <1>1, <2>1, HighestOne
  <2> QED
    BY <1>6, <2>2 DEF Log2Ceil
<1> QED
  BY <1>7, <1>8

-----------------------------------------------------------------------------
(* Sizes and classes.                                                        *)

NumUnits == MemoryLimit \div MIN_BLOCK_SIZE

LEMMA Limits ==
    /\ MemoryLimit \in Nat /\ NumUnits \in Nat /\ MemoryLimit = 1024 * NumUnits
    /\ MemoryLimit < Power[28]
    /\ Units = 0 .. NumUnits - 1
    /\ \A x : x \in Multiples <=> \E n \in 0 .. 2 * NumUnits : x = 1024 * n
<1>1. MemoryLimit \in Nat /\ MemoryLimit \in Multiples /\ NumUnits \in Nat
  BY LargeAssumption DEF NumUnits, MIN_BLOCK_SIZE
<1>2. Units = 0 .. NumUnits - 1
  BY DEF Units, NumUnits
<1>3. Cardinality(Units) = NumUnits
  <2>1. 0 \in Int /\ NumUnits - 1 \in Int
    BY <1>1
  <2>2. Cardinality(0 .. NumUnits - 1) = IF 0 > NumUnits - 1 THEN 0 ELSE NumUnits - 1 - 0 + 1
    BY <2>1, FS_Interval
  <2> QED
    BY <1>1, <1>2, <2>2
<1>4. \A x : x \in Multiples <=> \E n \in 0 .. 2 * NumUnits : x = 1024 * n
  BY <1>3 DEF Multiples, MIN_BLOCK_SIZE
<1>5. PICK n \in 0 .. 2 * NumUnits : MemoryLimit = 1024 * n
  BY <1>1, <1>4
<1>6. NumUnits = n
  BY <1>1, <1>5 DEF NumUnits, MIN_BLOCK_SIZE
<1>7. MemoryLimit < Power[28]
  BY LargeAssumption DEF Power
<1> QED
  BY <1>1, <1>2, <1>4, <1>5, <1>6, <1>7

LEMMA MultipleFacts ==
    /\ Multiples \subseteq 0 .. 2 * MemoryLimit
    /\ \A a, b \in Multiples : a + b <= 2 * MemoryLimit => a + b \in Multiples
    /\ \A a, b \in Multiples : b <= a => a - b \in Multiples
    /\ \A a, b \in Multiples : a < b => a + 1024 <= b
    /\ \A a \in Multiples : a # 0 => 1024 <= a
    /\ 0 \in Multiples /\ InitialSize \in Multiples \ {0} /\ InitialSize <= MemoryLimit
    /\ MemoryLimit \in Multiples
    /\ \A a \in Multiples : a < MemoryLimit => a \in Addresses
    /\ Addresses \subseteq Multiples
<1>1. ASSUME NEW a \in Multiples, NEW b \in Multiples
      PROVE  /\ a + b <= 2 * MemoryLimit => a + b \in Multiples
             /\ b <= a => a - b \in Multiples
             /\ a < b => a + 1024 <= b
             /\ a # 0 => 1024 <= a
             /\ a \in 0 .. 2 * MemoryLimit
             /\ a < MemoryLimit => a \in Addresses
  <2>1. PICK m \in 0 .. 2 * NumUnits : a = 1024 * m
    BY Limits
  <2>2. PICK n \in 0 .. 2 * NumUnits : b = 1024 * n
    BY Limits
  <2>3. a + b = 1024 * (m + n) /\ a - b = 1024 * (m - n)
    BY <2>1, <2>2, Limits
  <2>4. a + b <= 2 * MemoryLimit => m + n \in 0 .. 2 * NumUnits
    BY <2>1, <2>2, Limits
  <2>5. b <= a => m - n \in 0 .. 2 * NumUnits
    BY <2>1, <2>2, Limits
  <2>6. /\ a < b => a + 1024 <= b
        /\ a # 0 => 1024 <= a
        /\ a \in 0 .. 2 * MemoryLimit
    BY <2>1, <2>2, Limits
  <2>7. a < MemoryLimit => m \in Units
    BY <2>1, Limits
  <2>8. a < MemoryLimit => a \in Addresses
    BY <2>1, <2>7 DEF Addresses, MIN_BLOCK_SIZE
  <2>9. a + b <= 2 * MemoryLimit => a + b \in Multiples
    BY <2>3, <2>4, Limits
  <2>10. ASSUME b <= a PROVE a - b \in Multiples
    <3>1. a - b = 1024 * (m - n) /\ m - n \in 0 .. 2 * NumUnits
      BY <2>3, <2>5, <2>10
    <3> QED
      BY <3>1, Limits
  <2> QED
    BY <2>6, <2>8, <2>9, <2>10
<1>2. 0 \in Multiples
  BY Limits
<1>3. Addresses \subseteq Multiples
  BY Limits DEF Addresses, MIN_BLOCK_SIZE
<1>4. MemoryLimit \in Multiples /\ InitialSize \in Multiples \ {0} /\ InitialSize <= MemoryLimit
  BY LargeAssumption
<1>5. Multiples \subseteq 0 .. 2 * MemoryLimit
  BY <1>1
<1>6. /\ \A a, b \in Multiples : a + b <= 2 * MemoryLimit => a + b \in Multiples
      /\ \A a, b \in Multiples : b <= a => a - b \in Multiples
      /\ \A a, b \in Multiples : a < b => a + 1024 <= b
  BY <1>1
<1>7. /\ \A a \in Multiples : a # 0 => 1024 <= a
      /\ \A a \in Multiples : a < MemoryLimit => a \in Addresses
  BY <1>1
<1> QED
  BY <1>2, <1>3, <1>4, <1>5, <1>6, <1>7

LEMMA LimitType ==
    /\ MemoryLimit \in Nat /\ MemoryLimit < Power[28] /\ Power[28] \in Nat
    /\ \A n \in Multiples : n \in Nat /\ n <= 2 * MemoryLimit
<1>1. MemoryLimit \in Nat /\ MemoryLimit < Power[28]
  BY Limits
<1>2. Power[28] \in Nat
  BY PowerNat
<1> QED
  BY <1>1, <1>2, MultipleFacts

LEMMA ActualFacts ==
    /\ \A n \in 1 .. MemoryLimit :
          /\ Actual(n) \in Multiples \ {0}
          /\ n <= Actual(n) /\ Actual(n) < n + 1024 /\ Actual(n) <= MemoryLimit
    /\ \A n \in Multiples : Actual(n) = n
    /\ \A n \in 1 .. MemoryLimit : Actual(n) = 1024 * DivAndRoundUp(n, MIN_BLOCK_SIZE)
<1>1. ASSUME NEW n \in 1 .. MemoryLimit
      PROVE  /\ Actual(n) \in Multiples \ {0}
             /\ n <= Actual(n) /\ Actual(n) < n + 1024 /\ Actual(n) <= MemoryLimit
             /\ Actual(n) = 1024 * DivAndRoundUp(n, MIN_BLOCK_SIZE)
  <2>1. PICK q \in Nat : q = (n + 1024 - 1) \div 1024
    BY Limits
  <2>2. Actual(n) = 1024 * q /\ DivAndRoundUp(n, MIN_BLOCK_SIZE) = q
    BY <2>1 DEF Actual, RoundToNextMultiple, DivAndRoundUp, MIN_BLOCK_SIZE
  <2>3. n <= 1024 * q /\ 1024 * q < n + 1024
    BY <2>1, Limits
  <2>4. q \in 0 .. 2 * NumUnits /\ 1024 * q <= MemoryLimit /\ q # 0
    BY <2>3, Limits
  <2> QED
    BY <2>2, <2>3, <2>4, Limits
<1>2. ASSUME NEW n \in Multiples PROVE Actual(n) = n
  <2>1. PICK m \in 0 .. 2 * NumUnits : n = 1024 * m
    BY Limits
  <2>2. (n + 1024 - 1) \div 1024 = m
    BY <2>1, Limits
  <2> QED
    BY <2>1, <2>2, Limits DEF Actual, RoundToNextMultiple, DivAndRoundUp, MIN_BLOCK_SIZE
<1> QED
  BY <1>1, <1>2

LEMMA PowerTimes == \A k \in 0 .. 21 : Power[k + 10] = 1024 * Power[k]
<1> DEFINE Bad == {k \in 0 .. 21 : Power[k + 10] # 1024 * Power[k]}
<1> SUFFICES ASSUME Bad # {} PROVE FALSE
  OBVIOUS
<1>1. Bad \in SUBSET Nat
  OBVIOUS
<1>2. PICK k \in Bad : \A x \in Bad : k <= x
  <2> HIDE DEF Bad
  <2> QED
    BY <1>1, LeastNatural
<1>3. k # 0
  BY PowerZero DEF MIN_BLOCK_SIZE
<1>4. k - 1 \in 0 .. 21 /\ k - 1 \notin Bad /\ k - 1 \in 0 .. 30 /\ k + 9 \in 0 .. 30
      /\ k - 1 + 1 = k /\ k + 9 + 1 = k + 10 /\ k - 1 + 10 = k + 9
  BY <1>2, <1>3
<1>5. Power[k + 10] = 2 * Power[k + 9] /\ Power[k] = 2 * Power[k - 1] /\ Power[k - 1] \in Nat
  BY <1>4, PowerStep
<1>6. Power[k + 9] = 1024 * Power[k - 1]
  BY <1>4
<1> QED
  BY <1>5, <1>6

LEMMA PowerOfTwoIs == \A k \in 0 .. 31 : PowerOfTwo(k + 3) = Power[k]
<1>1. ASSUME NEW k \in 0 .. 31 PROVE PowerOfTwo(k + 3) = Power[k]
  <2>1. ASSUME NEW x \in 3 .. 34 PROVE PowerOfTwo(x) = Power[x - 3]
    BY DEF PowerOfTwo, Power, OBJ_ALIGN_BITS
  <2>2. k + 3 \in 3 .. 34 /\ k + 3 - 3 = k
    OBVIOUS
  <2> QED
    BY <2>1, <2>2
<1> QED
  BY <1>1

LEMMA FloorFacts ==
    ASSUME NEW n \in Multiples \ {0}
    PROVE  \E h \in 10 .. 28 : Power[h] <= n /\ n < Power[h + 1] /\ FloorOf[n] = h + 3
<1>1. n \in Nat \ {0} /\ 1024 <= n /\ n <= 2 * MemoryLimit
  BY MultipleFacts, Limits
<1>2. Power[28 + 1] = 2 * Power[28] /\ Power[28] \in Nat
  BY PowerStep
<1>3. n < Power[29]
  BY <1>1, <1>2, Limits
<1>4. PICK h \in 0 .. 30 : h < 29 /\ Power[h] <= n /\ n < Power[h + 1]
  BY <1>1, <1>3, FloorExists
<1>5. 10 <= h
  <2> SUFFICES ASSUME h + 1 <= 10 PROVE FALSE
    BY SMT
  <2>1. Power[h + 1] <= Power[10] /\ Power[h + 1] \in Nat
    BY PowerMonotone, PowerNat
  <2> QED
    BY <1>1, <1>4, <2>1, PowerZero DEF MIN_BLOCK_SIZE
<1>6. h \in 0 .. 28 /\ h \in 10 .. 28
  BY <1>4, <1>5
<1>7. FloorOf[n] = h + 3
  <2>1. log2_floor(Bytes(n)) = h + 3
    BY <1>1, <1>4, <1>6, LogOfBytes
  <2> QED
    BY <2>1 DEF FloorOf
<1> QED
  BY <1>4, <1>6, <1>7

\* A power of two that is big enough is a size of chunks, of the class found
\* by its logarithm.
LEMMA PowerIsSize ==
    ASSUME NEW h \in 10 .. 28, Power[h] <= 2 * MemoryLimit
    PROVE  /\ Power[h] \in Multiples \ {0} /\ FloorOf[Power[h]] = h + 3
           /\ sizeToLinkedListIndex(Power[h]) = h - 10 /\ h - 10 \in Classes
           /\ PowerOfTwo(h - 10 + LARGE_OBJECT_MIN_SIZE_BITS) = Power[h]
<1>1. Power[h] = 1024 * Power[h - 10] /\ Power[h - 10] \in Nat \ {0} /\ Power[h] \in Nat \ {0}
  <2>1. h - 10 \in 0 .. 21 /\ h - 10 \in 0 .. 31 /\ h - 10 + 10 = h /\ h \in 0 .. 31
    OBVIOUS
  <2> QED
    BY <2>1, PowerTimes, PowerNat
<1>2. Power[h - 10] \in 0 .. 2 * NumUnits
  BY <1>1, Limits
<1>3. Power[h] \in Multiples \ {0}
  BY <1>1, <1>2, Limits
<1>4. PICK k \in 10 .. 28 : /\ Power[k] <= Power[h] /\ Power[h] < Power[k + 1]
                            /\ FloorOf[Power[h]] = k + 3
  BY <1>3, FloorFacts
<1>5. k = h
  <2>1. k \in 0 .. 31 /\ h \in 0 .. 31 /\ k + 1 \in 0 .. 31 /\ k \in 0 .. 30
    OBVIOUS
  <2>2. Power[k + 1] = 2 * Power[k] /\ Power[k] \in Nat \ {0}
    BY <2>1, PowerStep
  <2>3. h <= k
    BY <1>4, <2>1, <2>2, PowerOrder
  <2>4. Power[k] < 2 * Power[h]
    BY <1>1, <1>4, <2>2
  <2>5. k <= h
    BY <2>1, <2>4, PowerOrder
  <2> QED
    BY <2>3, <2>5
<1>6. PowerOfTwo(h + 3) = Power[h] /\ h - 10 + 13 = h + 3 /\ h + 3 - 13 = h - 10
  BY PowerOfTwoIs
<1> QED
  BY <1>3, <1>4, <1>5, <1>6
     DEF sizeToLinkedListIndex, LARGE_OBJECT_MIN_SIZE_BITS, Classes

\* What AddChunk cuts off first is a chunk of a class.
Largest(n) == PowerOfTwo(FloorOf[n])

IsChunkSize(n) ==
    /\ n \in Multiples \ {0} /\ sizeToLinkedListIndex(n) \in Classes
    /\ n = PowerOfTwo(sizeToLinkedListIndex(n) + LARGE_OBJECT_MIN_SIZE_BITS)

LEMMA LargestFacts ==
    ASSUME NEW n \in Multiples \ {0}
    PROVE  Largest(n) <= n /\ IsChunkSize(Largest(n))
<1>1. PICK h \in 10 .. 28 : Power[h] <= n /\ n < Power[h + 1] /\ FloorOf[n] = h + 3
  BY FloorFacts
<1>2. h \in 0 .. 31 /\ Power[h] \in Nat /\ n \in Nat /\ n <= 2 * MemoryLimit /\ MemoryLimit \in Nat
  BY PowerNat, LimitType
<1>3. Largest(n) = Power[h]
  BY <1>1, <1>2, PowerOfTwoIs DEF Largest
<1>4. Power[h] <= 2 * MemoryLimit
  BY <1>1, <1>2
<1> QED
  BY <1>1, <1>3, <1>4, PowerIsSize DEF IsChunkSize

\* The exponents on the way from an object's size to what is looked for and to
\* what the heap grows by.
LEMMA CeilFacts ==
    ASSUME NEW n \in Sizes \union Multiples, n \in 1024 .. MemoryLimit
    PROVE  \E h \in 10 .. 27 : /\ Power[h] <= n /\ n < Power[h + 1]
                               /\ CeilOf[n] \in {h + 3, h + 4}
                               /\ n # Power[h] => CeilOf[n] = h + 4
<1>1. n \in Nat \ {0} /\ n < Power[28]
  BY LimitType
<1>2. PICK h \in 0 .. 30 : h < 28 /\ Power[h] <= n /\ n < Power[h + 1]
  BY <1>1, FloorExists
<1>3. 10 <= h
  <2> SUFFICES ASSUME h + 1 <= 10 PROVE FALSE
    BY SMT
  <2>1. Power[h + 1] <= Power[10] /\ Power[h + 1] \in Nat
    BY PowerMonotone, PowerNat
  <2> QED
    BY <1>1, <1>2, <2>1, PowerZero DEF MIN_BLOCK_SIZE
<1>4. h \in 0 .. 27 /\ h \in 10 .. 27
  BY <1>2, <1>3
<1>5. /\ Log2Ceil(Bytes(n)) \in {h + 3, h + 4}
      /\ n # Power[h] => Log2Ceil(Bytes(n)) = h + 4
  BY <1>1, <1>2, <1>4, CeilOfBytes
<1>6. CeilOf[n] = Log2Ceil(Bytes(n))
  BY <1>1 DEF CeilOf
<1> QED
  BY <1>2, <1>4, <1>5, <1>6

LEMMA SizesAre == Sizes \subseteq 1024 .. MemoryLimit /\ Sizes \subseteq 1 .. MemoryLimit
  BY LargeAssumption, Limits DEF MIN_BLOCK_SIZE

LEMMA SizeFacts ==
    ASSUME NEW n \in Sizes
    PROVE  /\ Actual(n) \in Multiples \ {0} /\ Actual(n) \in 1024 .. MemoryLimit
           /\ Actual(n) \in Nat /\ Actual(n) < n + 1024
           /\ n \in 1024 .. MemoryLimit /\ n \in 1 .. MemoryLimit /\ n \in Nat
<1>1. n \in 1024 .. MemoryLimit /\ n \in 1 .. MemoryLimit /\ n \in Nat
  BY SizesAre
<1>2. Actual(n) \in Multiples \ {0} /\ n <= Actual(n) /\ Actual(n) < n + 1024
      /\ Actual(n) <= MemoryLimit
  BY <1>1, ActualFacts
<1>3. Actual(n) \in Nat
  BY <1>2, LimitType
<1> QED
  BY <1>1, <1>2, <1>3, LimitType

\* A list that is searched for an object holds chunks that are big enough.
LEMMA FitFacts ==
    ASSUME NEW n \in Sizes
    PROVE  /\ Required(n) - LARGE_OBJECT_MIN_SIZE_BITS \in Classes
           /\ \A k \in Classes : k >= Required(n) - LARGE_OBJECT_MIN_SIZE_BITS
                => Actual(n) <= PowerOfTwo(k + LARGE_OBJECT_MIN_SIZE_BITS)
<1>1. Actual(n) \in Multiples /\ Actual(n) \in 1024 .. MemoryLimit /\ Actual(n) \in Nat
  BY SizeFacts
<1>2. PICK h \in 10 .. 27 : /\ Power[h] <= Actual(n) /\ Actual(n) < Power[h + 1]
                            /\ Required(n) \in {h + 3, h + 4}
                            /\ Actual(n) # Power[h] => Required(n) = h + 4
  BY <1>1, CeilFacts DEF Required
<1>3. Required(n) - 13 \in Classes
  BY <1>2 DEF Classes
<1>4. ASSUME NEW k \in Classes, k >= Required(n) - 13
      PROVE  Actual(n) <= PowerOfTwo(k + 13)
  <2>1. k + 10 \in 0 .. 31 /\ k + 10 + 3 = k + 13 /\ h \in 0 .. 31 /\ h + 1 \in 0 .. 31
    BY DEF Classes
  <2>2. PowerOfTwo(k + 13) = Power[k + 10]
    BY <2>1, PowerOfTwoIs
  <2>3. CASE Required(n) = h + 4
    <3>1. h + 1 <= k + 10
      BY <1>4, <2>3 DEF Classes
    <3>2. Power[h + 1] <= Power[k + 10]
      BY <2>1, <3>1, PowerMonotone
    <3>3. Power[h + 1] \in Nat /\ Power[k + 10] \in Nat
      BY <2>1, PowerNat
    <3> QED
      BY <1>1, <1>2, <2>2, <3>3, <3>2
  <2>4. CASE Required(n) # h + 4
    <3>1. Actual(n) = Power[h] /\ Required(n) = h + 3
      BY <1>2, <2>4
    <3>2. h <= k + 10
      BY <1>4, <3>1 DEF Classes
    <3>3. Power[h] <= Power[k + 10]
      BY <2>1, <3>2, PowerMonotone
    <3> QED
      BY <2>2, <3>1, <3>3
  <2> QED
    BY <2>3, <2>4
<1> QED
  BY <1>3, <1>4 DEF LARGE_OBJECT_MIN_SIZE_BITS

\* The heap grows by one chunk, of a class that is searched for the object.
LEMMA IncrementFacts ==
    ASSUME NEW n \in Sizes
    PROVE  /\ Increment(n) \in Nat \ {0}
           /\ Increment(n) <= MemoryLimit =>
                 /\ IsChunkSize(Increment(n)) /\ Largest(Increment(n)) = Increment(n)
                 /\ Required(n) - LARGE_OBJECT_MIN_SIZE_BITS
                       <= sizeToLinkedListIndex(Increment(n))
<1>1. Actual(n) \in Multiples /\ Actual(n) \in 1024 .. MemoryLimit /\ Actual(n) \in Nat
      /\ Actual(n) < n + 1024 /\ n \in 1024 .. MemoryLimit /\ n \in Nat
  BY SizeFacts
<1>2. PICK h \in 10 .. 27 : /\ Power[h] <= n /\ n < Power[h + 1]
                            /\ CeilOf[n] \in {h + 3, h + 4}
  BY <1>1, CeilFacts
<1>3. PICK j \in 10 .. 27 : /\ Power[j] <= Actual(n) /\ Actual(n) < Power[j + 1]
                            /\ Required(n) \in {j + 3, j + 4}
  BY <1>1, CeilFacts DEF Required
<1>4. j <= h + 1
  <2>1. h + 1 \in 0 .. 31 /\ j \in 0 .. 31 /\ Power[h + 1] \in Nat /\ Power[j] \in Nat
    BY PowerNat
  <2>2. Power[j] < 2 * Power[h + 1]
    BY <1>1, <1>2, <1>3, <2>1
  <2> QED
    BY <2>1, <2>2, PowerOrder
<1>5. PICK c \in 13 .. 31 : c = CeilOf[n] /\ h + 3 <= c
  BY <1>2
<1>6. Increment(n) = Power[c] /\ c \in 0 .. 31
  BY <1>5 DEF Increment, Power
<1>7. Increment(n) \in Nat \ {0}
  BY <1>6, PowerNat
<1>8. ASSUME Increment(n) <= MemoryLimit
      PROVE  /\ IsChunkSize(Increment(n)) /\ Largest(Increment(n)) = Increment(n)
             /\ Required(n) - 13 <= sizeToLinkedListIndex(Increment(n))
  <2>1. Power[c] < Power[28] /\ Power[28] \in Nat /\ Power[c] \in Nat
        /\ Power[c] <= 2 * MemoryLimit
    BY <1>6, <1>8, LimitType, PowerNat
  <2>2. c < 28
    <3> SUFFICES ASSUME 28 <= c PROVE FALSE
      BY <1>5
    <3>1. Power[28] <= Power[c]
      BY <1>6, PowerMonotone
    <3> QED
      BY <2>1, <3>1
  <2>3. c \in 10 .. 28
    BY <2>2
  <2>4. /\ Power[c] \in Multiples \ {0} /\ FloorOf[Power[c]] = c + 3
        /\ sizeToLinkedListIndex(Power[c]) = c - 10 /\ c - 10 \in Classes
        /\ PowerOfTwo(c - 10 + LARGE_OBJECT_MIN_SIZE_BITS) = Power[c]
    BY <2>1, <2>3, PowerIsSize
  <2>5. PowerOfTwo(c + 3) = Power[c]
    BY <1>6, PowerOfTwoIs
  <2>6. Required(n) - 13 <= c - 10
    BY <1>3, <1>4, <1>5
  <2> QED
    BY <1>6, <2>4, <2>5, <2>6 DEF IsChunkSize, Largest
<1> QED
  BY <1>7, <1>8 DEF LARGE_OBJECT_MIN_SIZE_BITS

-----------------------------------------------------------------------------
(* Cutting a range into chunks.                                              *)

\* The pieces cover the range from end to end without overlap, each of them a
\* chunk of a class.
Cut(P, from, to) ==
    /\ from \in At(P) \union {to}
    /\ \A p \in P :
          /\ IsChunkSize(p.size) /\ p.at \in Multiples
          /\ from <= p.at /\ p.at + p.size <= to /\ p.at + p.size \in At(P) \union {to}
    /\ \A p, q \in P : /\ p.at < q.at => p.at + p.size <= q.at
                       /\ p.at = q.at => p = q

LEMMA AtFacts ==
    /\ \A P, a : a \in At(P) <=> \E p \in P : a = p.at
    /\ \A P, p : At({p} \union P) = {p.at} \union At(P)
<1>1. \A P, a : a \in At(P) <=> \E p \in P : a = p.at
  BY DEF At
<1>2. ASSUME NEW P, NEW p PROVE At({p} \union P) = {p.at} \union At(P)
  <2>1. \A a : a \in At({p} \union P) <=> a \in {p.at} \union At(P)
    BY <1>1
  <2> QED
    BY <2>1
<1> QED
  BY <1>1, <1>2

LEMMA CutMore ==
    ASSUME NEW P, NEW at \in Multiples, NEW n, IsChunkSize(n), NEW to \in Multiples,
           at + n <= to, Cut(P, at + n, to)
    PROVE  Cut({[at |-> at, size |-> n]} \union P, at, to)
<1> DEFINE p0 == [at |-> at, size |-> n]
           Q == {p0} \union P
<1>1. n \in Nat /\ n > 0 /\ at \in Nat /\ to \in Nat
  BY LimitType DEF IsChunkSize
<1>2. p0.at = at /\ p0.size = n
  OBVIOUS
<1>3. At(Q) = {at} \union At(P)
  BY <1>2, AtFacts, Zenon
<1>4. ASSUME NEW p \in P
      PROVE  /\ IsChunkSize(p.size) /\ p.at \in Multiples /\ p.at \in Nat /\ p.size \in Nat
             /\ at + n <= p.at /\ p.at + p.size <= to
             /\ p.at + p.size \in At(P) \union {to}
  BY LimitType DEF Cut, IsChunkSize
<1>5. at + n \in At(P) \union {to}
  BY DEF Cut
<1>6. ASSUME NEW p \in Q
      PROVE  /\ IsChunkSize(p.size) /\ p.at \in Multiples
             /\ at <= p.at /\ p.at + p.size <= to /\ p.at + p.size \in At(Q) \union {to}
  <2>1. CASE p = p0
    BY <1>1, <1>3, <1>2, <1>5, <2>1
  <2>2. CASE p \in P
    <3>1. /\ IsChunkSize(p.size) /\ p.at \in Multiples
          /\ p.at + p.size <= to /\ p.at + p.size \in At(P) \union {to}
      BY <1>4, <2>2
    <3>2. at <= p.at
      BY <1>1, <1>4, <2>2
    <3> QED
      BY <1>3, <3>1, <3>2
  <2> QED
    BY <2>1, <2>2
<1>7. ASSUME NEW p \in Q, NEW q \in Q
      PROVE  /\ p.at < q.at => p.at + p.size <= q.at
             /\ p.at = q.at => p = q
  <2>1. CASE p \in P /\ q \in P
    BY <2>1 DEF Cut
  <2>2. CASE p = p0 /\ q \in P
    BY <1>1, <1>2, <1>4, <2>2
  <2>3. CASE p \in P /\ q = p0
    BY <1>1, <1>2, <1>4, <2>3
  <2>4. CASE p = p0 /\ q = p0
    BY <1>1, <1>2, <2>4
  <2> QED
    BY <2>1, <2>2, <2>3, <2>4
<1>8. at \in At(Q) \union {to}
  BY <1>3
<1> HIDE DEF Q
<1>9. Cut(Q, at, to)
  BY <1>6, <1>7, <1>8 DEF Cut
<1> QED
  BY <1>9 DEF Q

\* AddChunk cuts the whole range.
LEMMA PiecesCut ==
    ASSUME NEW chunk \in Multiples, NEW total \in Multiples, chunk + total \in Multiples
    PROVE  /\ Cut(Pieces(chunk, total), chunk, chunk + total)
           /\ total # 0 => [at |-> chunk, size |-> Largest(total)] \in Pieces(chunk, total)
<1> DEFINE to == chunk + total
           D == Multiples
           stop == {0}
           base == [n \in D |-> {}]
           item == [n \in D |-> [at |-> chunk + total - n, size |-> Largest(n)]]
           next == [n \in D |-> n - Largest(n)]
           Body(f) == [n \in D |->
                         IF n = 0 THEN {}
                         ELSE {[at |-> chunk + total - n, size |-> PowerOfTwo(FloorOf[n])]}
                                \union f[n - PowerOfTwo(FloorOf[n])]]
           cut == CHOOSE f : f = Body(f)
<1>1. ASSUME NEW n \in D, n # 0
      PROVE  /\ Largest(n) \in Multiples \ {0} /\ Largest(n) <= n /\ IsChunkSize(Largest(n))
             /\ n - Largest(n) \in D
  BY <1>1, LargestFacts, MultipleFacts DEF IsChunkSize
<1>2. \A n \in D : n \notin stop => next[n] \in D
  BY <1>1
<1> DEFINE f == Followed(D, stop, base, item, next)
<1>3. Follows(f, D, stop, base, item, next)
  <2> HIDE DEF D, stop, base, item, next
  <2> QED
    BY <1>2, FollowedDefined
<1> HIDE DEF f
<1>4. f = Body(f)
  <2>1. ASSUME NEW n \in D
        PROVE  (IF n \in stop THEN base[n] ELSE {item[n]} \union f[next[n]])
                 = IF n = 0 THEN {}
                   ELSE {[at |-> chunk + total - n, size |-> PowerOfTwo(FloorOf[n])]}
                          \union f[n - PowerOfTwo(FloorOf[n])]
    BY DEF Largest
  <2> HIDE DEF D, stop, base, item, next
  <2> QED
    BY <1>3, <2>1 DEF Follows
<1>5. cut = Body(cut)
  <2> HIDE DEF Body
  <2> QED
    BY <1>4
<1>6. Pieces(chunk, total) = cut[total]
  BY DEF Pieces
<1> HIDE DEF cut
<1>7. ASSUME NEW n \in D
      PROVE  cut[n] = IF n = 0 THEN {}
                      ELSE {[at |-> chunk + total - n, size |-> Largest(n)]}
                             \union cut[n - Largest(n)]
  BY <1>5 DEF Largest
<1> HIDE DEF stop, base, item, next, Body
<1> DEFINE Bad == {n \in D : n <= total /\ ~Cut(cut[n], to - n, to)}
<1>8. Bad = {}
  <2> SUFFICES ASSUME Bad # {} PROVE FALSE
    OBVIOUS
  <2>1. Bad \in SUBSET Nat
    BY LimitType
  <2>2. PICK n \in Bad : \A x \in Bad : n <= x
    <3> HIDE DEF Bad
    <3> QED
      BY <2>1, LeastNatural
  <2>3. n \in D /\ n \in Nat /\ n <= total /\ total \in Nat /\ to \in Nat /\ chunk \in Nat
    BY LimitType
  <2>4. CASE n = 0
    <3>1. cut[n] = {}
      <4> HIDE DEF Bad
      <4> QED
        BY <1>7, <2>3, <2>4
    <3>2. to - n = to
      BY <2>3, <2>4
    <3> QED
      BY <2>2, <3>1, <3>2 DEF Cut
  <2>5. CASE n # 0
    <3>1. PICK c : c = Largest(n)
      OBVIOUS
    <3>2. c \in Multiples \ {0} /\ c \in Nat /\ c > 0 /\ c <= n /\ IsChunkSize(c) /\ n - c \in D
      <4>1. Largest(n) \in Multiples \ {0} /\ Largest(n) <= n /\ IsChunkSize(Largest(n))
            /\ n - Largest(n) \in D
        BY <1>1, <2>3, <2>5
      <4>2. \A x \in Multiples \ {0} : x \in Nat /\ x > 0
        BY LimitType
      <4> HIDE DEF Bad
      <4> QED
        BY <3>1, <4>1, <4>2
    <3>3. n - c <= total /\ n - c < n /\ n - c \in Nat
      BY <2>3, <3>2
    <3>4. Cut(cut[n - c], to - (n - c), to)
      BY <2>2, <3>2, <3>3, <2>3
    <3>5. to - (n - c) = (to - n) + c /\ (to - n) + c <= to
      BY <2>3, <3>2
    <3>6. to - n \in Multiples
      BY <2>3, MultipleFacts
    <3>7. PICK at \in Multiples : at = to - n
      BY <3>6
    <3>8. Cut({[at |-> at, size |-> c]} \union cut[n - c], at, to)
      BY <3>2, <3>4, <3>5, <3>7, CutMore
    <3>9. cut[n] = {[at |-> at, size |-> c]} \union cut[n - c]
      <4>1. at = chunk + total - n
        BY <2>3, <3>7
      <4> HIDE DEF Bad, to
      <4> QED
        BY <1>7, <2>3, <2>5, <3>1, <4>1
    <3> QED
      BY <2>2, <3>7, <3>8, <3>9
  <2> QED
    BY <2>4, <2>5
<1>9. Cut(cut[total], to - total, to)
  BY <1>8, LimitType
<1>10. to - total = chunk /\ chunk + total - total = chunk
  BY LimitType
<1>11. total # 0 => [at |-> chunk, size |-> Largest(total)] \in cut[total]
  <2> HIDE DEF Bad
  <2> QED
    BY <1>7, <1>10
<1> QED
  BY <1>6, <1>9, <1>10, <1>11

\* A list has the first chunk it had or one of the new ones of its class.
LEMMA AddedFacts ==
    ASSUME NEW lists \in [Classes -> [first : Addresses \union {NULL},
                                      last : Addresses \union {NULL}]],
           NEW P, \A p \in P : p.at \in Addresses /\ sizeToLinkedListIndex(p.size) \in Classes
    PROVE  /\ AddedLast(lists, P) \in [Classes -> [first : Addresses \union {NULL},
                                                   last : Addresses \union {NULL}]]
           /\ \A k \in Classes :
                 \/ AddedLast(lists, P)[k].first = lists[k].first
                 \/ \E p \in P : /\ AddedLast(lists, P)[k].first = p.at
                                 /\ sizeToLinkedListIndex(p.size) = k
           /\ \A k \in Classes : lists[k].first # NULL => AddedLast(lists, P)[k].first # NULL
           /\ \A p \in P : AddedLast(lists, P)[sizeToLinkedListIndex(p.size)].first # NULL
<1> DEFINE of(k) == At({p \in P : sizeToLinkedListIndex(p.size) = k})
<1>1. ASSUME NEW k
      PROVE  /\ of(k) \subseteq Addresses /\ of(k) \in SUBSET (0 .. 2 * MemoryLimit)
             /\ \A a \in of(k) : \E p \in P : a = p.at /\ sizeToLinkedListIndex(p.size) = k
  <2>1. \A a \in of(k) : \E p \in P : a = p.at /\ sizeToLinkedListIndex(p.size) = k
    BY AtFacts
  <2>2. of(k) \subseteq Addresses
    BY <2>1
  <2>3. of(k) \subseteq 0 .. 2 * MemoryLimit
    BY <2>2, MultipleFacts
  <2> QED
    BY <2>1, <2>2, <2>3
<1>2. ASSUME NEW k, of(k) # {}
      PROVE  Min(of(k)) \in of(k) /\ Max(of(k)) \in of(k)
  <2>1. of(k) \in SUBSET Nat /\ of(k) \in SUBSET (0 .. 2 * MemoryLimit) /\ 2 * MemoryLimit \in Nat
    <3>1. \A x \in 0 .. 2 * MemoryLimit : x \in Nat
      BY LimitType
    <3> HIDE DEF of
    <3> QED
      BY <1>1, <3>1, LimitType
  <2> HIDE DEF of
  <2> QED
    BY <1>2, <2>1, MinFacts, MaxFacts
<1>3. ASSUME NEW k \in Classes
      PROVE  AddedLast(lists, P)[k] =
                IF of(k) = {} THEN lists[k]
                ELSE [first |-> IF lists[k].first = NULL THEN Min(of(k)) ELSE lists[k].first,
                      last |-> Max(of(k))]
  BY DEF AddedLast
<1>4. NULL \notin Addresses
  BY LargeAssumption, MultipleFacts, LimitType
<1>5. \A p \in P : p.at \in of(sizeToLinkedListIndex(p.size))
  BY DEF At
<1> HIDE DEF of
<1>6. ASSUME NEW k \in Classes
      PROVE  /\ AddedLast(lists, P)[k] \in [first : Addresses \union {NULL},
                                            last : Addresses \union {NULL}]
             /\ \/ AddedLast(lists, P)[k].first = lists[k].first
                \/ AddedLast(lists, P)[k].first \in of(k)
             /\ lists[k].first # NULL => AddedLast(lists, P)[k].first # NULL
             /\ of(k) # {} => AddedLast(lists, P)[k].first # NULL
  <2>1. CASE of(k) = {}
    BY <1>3, <2>1
  <2>2. CASE of(k) # {}
    <3>1. Min(of(k)) \in Addresses /\ Max(of(k)) \in Addresses /\ Min(of(k)) # NULL
          /\ Min(of(k)) \in of(k)
      BY <1>1, <1>2, <1>4, <2>2
    <3>2. PICK m, n : m = Min(of(k)) /\ n = Max(of(k))
      OBVIOUS
    <3>3. AddedLast(lists, P)[k] =
             IF of(k) = {} THEN lists[k]
             ELSE [first |-> IF lists[k].first = NULL THEN m ELSE lists[k].first, last |-> n]
      BY <1>3, <3>2, Zenon
    <3>4. AddedLast(lists, P)[k] =
             [first |-> IF lists[k].first = NULL THEN m ELSE lists[k].first, last |-> n]
      BY <2>2, <3>3
    <3>5. lists[k].first \in Addresses \union {NULL}
      OBVIOUS
    <3> QED
      BY <3>1, <3>2, <3>3, <3>4, <3>5
  <2> QED
    BY <2>1, <2>2
<1>7. AddedLast(lists, P) = [k \in Classes |-> AddedLast(lists, P)[k]]
  BY DEF AddedLast
<1>8. AddedLast(lists, P) \in [Classes -> [first : Addresses \union {NULL},
                                           last : Addresses \union {NULL}]]
  BY <1>6, <1>7
<1> QED
  BY <1>1, <1>5, <1>6, <1>8

-----------------------------------------------------------------------------
(* Tilings.                                                                  *)

LEMMA TilesOf ==
    ASSUME NEW P, NEW from \in Multiples, NEW to \in Multiples, Cut(P, from, to),
           NEW len, \A p \in P : len[p.at] = p.size
    PROVE  Tiles(At(P), len, from, to)
<1>1. from \in Nat /\ to \in Nat
  BY LimitType
<1>2. ASSUME NEW a \in At(P)
      PROVE  /\ a \in Multiples /\ a \in from .. to - 1
             /\ len[a] \in Multiples \ {0} /\ a + len[a] \in At(P) \union {to}
             /\ \A b \in At(P) : a < b => a + len[a] <= b
  <2>1. PICK p \in P : a = p.at
    BY AtFacts
  <2>2. /\ p.size \in Multiples \ {0} /\ p.at \in Multiples
        /\ from <= p.at /\ p.at + p.size <= to /\ p.at + p.size \in At(P) \union {to}
    BY DEF Cut, IsChunkSize
  <2>3. p.size \in Nat \ {0} /\ p.at \in Nat
    BY <2>2, LimitType
  <2>4. ASSUME NEW b \in At(P), a < b PROVE a + len[a] <= b
    <3>1. PICK q \in P : b = q.at
      BY AtFacts
    <3> QED
      BY <2>1, <2>4, <3>1 DEF Cut
  <2>5. a \in from .. to - 1
    BY <1>1, <2>1, <2>2, <2>3
  <2> QED
    BY <2>1, <2>2, <2>4, <2>5
<1>3. from \in At(P) \union {to}
  BY DEF Cut
<1> QED
  BY <1>2, <1>3 DEF Tiles

LEMMA TileFacts ==
    ASSUME NEW T, NEW len, NEW from \in Nat, NEW to \in Nat, Tiles(T, len, from, to),
           NEW a \in T
    PROVE  /\ a \in Multiples /\ a \in Nat /\ from <= a
           /\ len[a] \in Multiples \ {0} /\ len[a] \in Nat \ {0}
           /\ a + len[a] \in T \union {to} /\ a + len[a] <= to
           /\ \A b \in T : b \in Nat /\ (a < b => a + len[a] <= b)
<1>1. T \subseteq Multiples /\ T \subseteq from .. to - 1 /\ T \subseteq Nat
  BY LimitType DEF Tiles
<1>2. /\ len[a] \in Multiples \ {0} /\ a + len[a] \in T \union {to}
      /\ \A b \in T : a < b => a + len[a] <= b
  BY DEF Tiles
<1>3. len[a] \in Nat \ {0}
  BY <1>2, LimitType
<1>4. a + len[a] <= to
  <2>1. \A b \in T : b <= to
    BY <1>1
  <2>2. CASE a + len[a] = to
    BY <2>2
  <2>3. CASE a + len[a] \in T
    BY <2>1, <2>3
  <2> QED
    BY <1>2, <2>2, <2>3
<1> QED
  BY <1>1, <1>2, <1>3, <1>4

\* Chunks of a tiling may be cut independently: F is what becomes of each.
Refines(F, L, T, len) == \A a \in T : Tiles(F[a], L, a, a + len[a])
AllOf(F, T) == UNION {F[a] : a \in T}

LEMMA RefineTiles ==
    ASSUME NEW T, NEW len, NEW from \in Nat, NEW to \in Nat, Tiles(T, len, from, to),
           NEW F, NEW L, Refines(F, L, T, len)
    PROVE  Tiles(AllOf(F, T), L, from, to)
<1> DEFINE U == UNION {F[a] : a \in T}
<1>1. AllOf(F, T) = U /\ \A a \in T : Tiles(F[a], L, a, a + len[a])
  BY DEF AllOf, Refines
<1>2. \A x : x \in U <=> \E a \in T : x \in F[a]
  OBVIOUS
<1>3. ASSUME NEW a \in T
      PROVE  /\ a \in Nat /\ a + len[a] \in Nat /\ a < a + len[a] /\ from <= a /\ a + len[a] <= to
             /\ a + len[a] \in T \union {to}
             /\ \A b \in T : b \in Nat /\ (a < b => a + len[a] <= b)
             /\ a \in F[a]
  <2>1. Tiles(F[a], L, a, a + len[a])
    BY <1>1
  <2>2. /\ a \in Nat /\ from <= a /\ len[a] \in Nat \ {0}
        /\ a + len[a] \in T \union {to} /\ a + len[a] <= to
        /\ \A b \in T : b \in Nat /\ (a < b => a + len[a] <= b)
    BY TileFacts
  <2>3. a + len[a] \in Nat /\ a < a + len[a]
    BY <2>2
  <2>4. a \in F[a]
    BY <2>1, <2>2, <2>3 DEF Tiles
  <2> QED
    BY <2>2, <2>3, <2>4
<1>4. ASSUME NEW a \in T, NEW x \in F[a]
      PROVE  /\ x \in Multiples /\ x \in Nat /\ a <= x
             /\ L[x] \in Multiples \ {0} /\ L[x] \in Nat \ {0}
             /\ x + L[x] \in F[a] \union {a + len[a]} /\ x + L[x] <= a + len[a]
             /\ \A y \in F[a] : y \in Nat /\ (x < y => x + L[x] <= y)
  <2>1. a \in Nat /\ a + len[a] \in Nat /\ Tiles(F[a], L, a, a + len[a])
    BY <1>1, <1>3
  <2>2. PICK m \in Nat : m = a + len[a]
    BY <2>1
  <2>3. Tiles(F[a], L, a, m)
    BY <2>1, <2>2
  <2>4. /\ x \in Multiples /\ x \in Nat /\ a <= x
        /\ L[x] \in Multiples \ {0} /\ L[x] \in Nat \ {0}
        /\ x + L[x] \in F[a] \union {m} /\ x + L[x] <= m
        /\ \A y \in F[a] : y \in Nat /\ (x < y => x + L[x] <= y)
    BY <2>1, <2>3, TileFacts
  <2> QED
    BY <2>2, <2>4
<1> HIDE DEF U
<1>5. ASSUME NEW x \in U
      PROVE  /\ x \in Multiples /\ x \in from .. to - 1
             /\ L[x] \in Multiples \ {0} /\ x + L[x] \in U \union {to}
             /\ \A y \in U : x < y => x + L[x] <= y
  <2>1. PICK a \in T : x \in F[a]
    BY <1>2
  <2>2. /\ x \in Multiples /\ x \in Nat /\ a <= x
        /\ L[x] \in Multiples \ {0} /\ L[x] \in Nat \ {0}
        /\ x + L[x] \in F[a] \union {a + len[a]} /\ x + L[x] <= a + len[a]
    BY <1>4, <2>1
  <2>3. /\ a \in Nat /\ a + len[a] \in Nat /\ from <= a /\ a + len[a] <= to
        /\ a + len[a] \in T \union {to}
    BY <1>3
  <2>4. x \in from .. to - 1
    BY <2>2, <2>3
  <2>5. x + L[x] \in U \union {to}
    <3>1. CASE x + L[x] \in F[a]
      BY <1>2, <3>1
    <3>2. CASE x + L[x] = a + len[a] /\ a + len[a] \in T
      BY <1>2, <1>3, <3>2
    <3> QED
      BY <2>2, <2>3, <3>1, <3>2
  <2>6. ASSUME NEW y \in U, x < y PROVE x + L[x] <= y
    <3>1. PICK b \in T : y \in F[b]
      BY <1>2
    <3>2. b \in Nat /\ y \in Nat /\ b <= y /\ b + len[b] \in Nat /\ y < b + len[b]
      <4>1. /\ y \in Nat /\ b <= y /\ L[y] \in Nat \ {0} /\ y + L[y] <= b + len[b]
        BY <1>4, <3>1
      <4>2. b \in Nat /\ b + len[b] \in Nat
        BY <1>3
      <4> QED
        BY <4>1, <4>2
    <3>3. CASE b = a
      BY <1>4, <2>1, <2>6, <3>1, <3>3
    <3>4. CASE a < b
      <4>1. a + len[a] <= b
        BY <1>3, <3>4
      <4> QED
        BY <2>2, <2>3, <3>2, <4>1
    <3>5. CASE b < a
      <4>1. b + len[b] <= a
        BY <1>3, <3>5
      <4> QED
        BY <2>2, <2>3, <2>6, <3>2, <4>1
    <3> QED
      BY <2>3, <3>2, <3>3, <3>4, <3>5
  <2> QED
    BY <2>2, <2>4, <2>5, <2>6
<1>6. from \in U \union {to}
  <2>1. from \in T \union {to}
    BY DEF Tiles
  <2> QED
    BY <1>2, <1>3, <2>1
<1>7. Tiles(U, L, from, to)
  BY <1>5, <1>6 DEF Tiles
<1> QED
  BY <1>1, <1>7 DEF U

LEMMA AppendTiles ==
    ASSUME NEW T, NEW R, NEW L, NEW from \in Nat, NEW mid \in Nat, NEW to \in Nat,
           Tiles(T, L, from, mid), Tiles(R, L, mid, to), from <= mid, mid <= to
    PROVE  Tiles(T \union R, L, from, to)
<1>1. ASSUME NEW x \in T \union R
      PROVE  /\ x \in Multiples /\ x \in from .. to - 1
             /\ L[x] \in Multiples \ {0} /\ x + L[x] \in T \union R \union {to}
             /\ \A y \in T \union R : x < y => x + L[x] <= y
  <2>1. CASE x \in T
    <3>1. /\ x \in Multiples /\ x \in Nat /\ from <= x
          /\ L[x] \in Multiples \ {0} /\ L[x] \in Nat \ {0}
          /\ x + L[x] \in T \union {mid} /\ x + L[x] <= mid
          /\ \A y \in T : y \in Nat /\ (x < y => x + L[x] <= y)
      BY <2>1, TileFacts
    <3>2. mid \in R \union {to}
      BY DEF Tiles
    <3>3. \A y \in R : y \in Nat /\ mid <= y
      BY TileFacts
    <3> QED
      BY <3>1, <3>2, <3>3
  <2>2. CASE x \in R
    <3>1. /\ x \in Multiples /\ x \in Nat /\ mid <= x
          /\ L[x] \in Multiples \ {0} /\ L[x] \in Nat \ {0}
          /\ x + L[x] \in R \union {to} /\ x + L[x] <= to
          /\ \A y \in R : y \in Nat /\ (x < y => x + L[x] <= y)
      BY <2>2, TileFacts
    <3>2. \A y \in T : y \in Nat /\ y < mid
      BY DEF Tiles
    <3> QED
      BY <3>1, <3>2
  <2> QED
    BY <2>1, <2>2
<1>2. from \in T \union R \union {to}
  BY DEF Tiles
<1>3. T \union R \subseteq Multiples \intersect from .. to - 1
  BY <1>1
<1>4. \A x \in T \union R :
         /\ L[x] \in Multiples \ {0} /\ x + L[x] \in T \union R \union {to}
         /\ \A y \in T \union R : x < y => x + L[x] <= y
  BY <1>1
<1> QED
  BY <1>2, <1>3, <1>4 DEF Tiles

-----------------------------------------------------------------------------
(* What the walk over the chunks meets.                                      *)

LEMMA TypeFacts ==
    ASSUME HeapTyped
    PROVE  /\ bits \subseteq Addresses /\ bits \subseteq Multiples
           /\ DOMAIN header \subseteq Addresses /\ DOMAIN header \subseteq Multiples
           /\ \A a \in DOMAIN header :
                 /\ header[a].size \in 1 .. MemoryLimit
                 /\ header[a].flag \in {"free", "allocated"}
                 /\ header[a].word \in {NULL, INFO} \union Addresses
                 /\ ChunkSize(a) \in Multiples \ {0} /\ ChunkSize(a) <= MemoryLimit
           /\ size \in Multiples /\ size \in Nat /\ size <= MemoryLimit
           /\ largeHeapEnd \in Multiples /\ largeHeapEnd <= MemoryLimit
           /\ largeHeapSize \in Multiples /\ largeHeapSize <= MemoryLimit
<1>1. /\ DOMAIN header \subseteq Addresses /\ bits \subseteq Addresses
      /\ {size, largeHeapEnd, largeHeapSize} \in SUBSET Multiples
      /\ Max({size, largeHeapEnd, largeHeapSize}) <= MemoryLimit
  BY DEF HeapTyped
<1>2. ASSUME NEW a \in DOMAIN header
      PROVE  /\ header[a].size \in 1 .. MemoryLimit
             /\ header[a].flag \in {"free", "allocated"}
             /\ header[a].word \in {NULL, INFO} \union Addresses
             /\ ChunkSize(a) \in Multiples \ {0} /\ ChunkSize(a) <= MemoryLimit
  <2>1. header[a] \in Chunks
    BY <1>2 DEF HeapTyped
  <2>2. /\ header[a].size \in 1 .. MemoryLimit
        /\ header[a].flag \in {"free", "allocated"}
        /\ header[a].word \in {NULL, INFO} \union Addresses
    BY <2>1 DEF Chunks
  <2>3. Actual(header[a].size) \in Multiples \ {0} /\ Actual(header[a].size) <= MemoryLimit
    BY <2>2, ActualFacts
  <2> QED
    BY <2>2, <2>3 DEF ChunkSize
<1> DEFINE three == {size, largeHeapEnd, largeHeapSize}
<1>3. three \in SUBSET (0 .. 2 * MemoryLimit) /\ 2 * MemoryLimit \in Nat /\ three # {}
  BY <1>1, LimitType
<1>4. Max(three) \in three /\ \A y \in three : Max(three) >= y
  <2> HIDE DEF three
  <2> QED
    BY <1>3, MaxFacts
<1>5. \A y \in three : y <= MemoryLimit
  <2> \A y \in three : y \in Nat
    BY <1>3
  <2> HIDE DEF three
  <2> QED
    BY <1>1, <1>4, LimitType DEF three
<1>6. Addresses \subseteq Multiples
  BY MultipleFacts
<1> QED
  BY <1>1, <1>2, <1>5, <1>6, LimitType

LEMMA ChainEquation ==
    ASSUME HeapTyped
    PROVE  \E from :
             /\ Chain = from[0]
             /\ \A a \in Multiples : a >= size => from[a] = {}
             /\ \A a \in Multiples : a < size /\ a \in DOMAIN header /\ ChunkSize(a) # 0
                                      => from[a] = {a} \union from[a + ChunkSize(a)]
<1> DEFINE D == Multiples
           Ends(a) == a >= size \/ a \notin DOMAIN header \/ ChunkSize(a) = 0
           stop == {a \in D : Ends(a)}
           base == [a \in D |-> {}]
           item == [a \in D |-> a]
           next == [a \in D |-> a + ChunkSize(a)]
           Body(f) == [a \in D |-> IF Ends(a) THEN {} ELSE {a} \union f[a + ChunkSize(a)]]
           from == CHOOSE f : f = Body(f)
<1>1. ASSUME NEW a \in D, a \notin stop PROVE next[a] \in D
  <2>1. ~Ends(a)
    BY <1>1
  <2>2. ChunkSize(a) \in Multiples /\ ChunkSize(a) <= MemoryLimit /\ a <= MemoryLimit
    BY <2>1, TypeFacts, LimitType
  <2>3. ChunkSize(a) \in Nat /\ a \in Nat /\ a + ChunkSize(a) <= 2 * MemoryLimit
    BY <2>2, LimitType
  <2>4. a + ChunkSize(a) \in Multiples
    BY <2>2, <2>3, MultipleFacts
  <2> QED
    BY <2>4
<1> DEFINE f == Followed(D, stop, base, item, next)
<1>2. Follows(f, D, stop, base, item, next)
  <2> HIDE DEF D, stop, base, item, next
  <2> QED
    BY <1>1, FollowedDefined
<1> HIDE DEF f
<1>3. f = Body(f)
  <2>1. ASSUME NEW a \in D
        PROVE  (IF a \in stop THEN base[a] ELSE {item[a]} \union f[next[a]])
                 = IF Ends(a) THEN {} ELSE {a} \union f[a + ChunkSize(a)]
    <3> HIDE DEF Ends, D
    <3> QED
      BY <2>1
  <2> HIDE DEF D, stop, base, item, next, Ends
  <2> QED
    BY <1>2, <2>1 DEF Follows
<1>4. from = Body(from)
  <2> HIDE DEF Body
  <2> QED
    BY <1>3
<1>5. Chain = from[0]
  BY DEF Chain
<1> HIDE DEF from
<1>6. \A a \in D : from[a] = IF Ends(a) THEN {} ELSE {a} \union from[a + ChunkSize(a)]
  <2> HIDE DEF Ends
  <2> QED
    BY <1>4
<1>7. \A a \in D : a >= size => from[a] = {}
  BY <1>6
<1>8. \A a \in D : a < size /\ a \in DOMAIN header /\ ChunkSize(a) # 0 => ~Ends(a)
  BY TypeFacts, LimitType
<1>9. \A a \in D : ~Ends(a) => from[a] = {a} \union from[a + ChunkSize(a)]
  <2> HIDE DEF Ends
  <2> QED
    BY <1>6
<1>10. \A a \in D : a < size /\ a \in DOMAIN header /\ ChunkSize(a) # 0
                       => from[a] = {a} \union from[a + ChunkSize(a)]
  <2> HIDE DEF Ends, D
  <2> QED
    BY <1>8, <1>9
<1> QED
  BY <1>5, <1>7, <1>10

\* Where chunks tile the heap the walk meets them all and nothing else.
LEMMA ChainIs ==
    ASSUME HeapTyped, bits \subseteq DOMAIN header,
           NEW len, \A a \in bits : len[a] = ChunkSize(a), Tiles(bits, len, 0, size)
    PROVE  Chain = bits
<1>1. PICK from :
         /\ Chain = from[0]
         /\ \A a \in Multiples : a >= size => from[a] = {}
         /\ \A a \in Multiples : a < size /\ a \in DOMAIN header /\ ChunkSize(a) # 0
                                  => from[a] = {a} \union from[a + ChunkSize(a)]
  BY ChainEquation
<1>2. size \in Multiples /\ size \in Nat
  BY TypeFacts
<1>3. ASSUME NEW a \in bits
      PROVE  /\ a \in Multiples /\ a \in Nat /\ a < size
             /\ a + ChunkSize(a) \in bits \union {size} /\ a < a + ChunkSize(a)
             /\ \A b \in bits : b \in Nat /\ (a < b => a + ChunkSize(a) <= b)
             /\ from[a] = {a} \union from[a + ChunkSize(a)]
  <2>1. /\ a \in Multiples /\ a \in Nat /\ 0 <= a
        /\ len[a] \in Nat \ {0} /\ a + len[a] \in bits \union {size} /\ a + len[a] <= size
        /\ \A b \in bits : b \in Nat /\ (a < b => a + len[a] <= b)
    BY <1>2, TileFacts
  <2>2. len[a] = ChunkSize(a) /\ ChunkSize(a) # 0 /\ a < size /\ a \in DOMAIN header
    BY <1>2, <2>1
  <2> QED
    BY <1>1, <1>2, <2>1, <2>2
<1> DEFINE Bad == {a \in bits \union {size} : from[a] # {b \in bits : b >= a}}
<1>4. Bad = {}
  <2> SUFFICES ASSUME Bad # {} PROVE FALSE
    OBVIOUS
  <2>1. Bad \in SUBSET (0 .. size)
    BY <1>2, <1>3
  <2>2. PICK a \in Bad : \A x \in Bad : a >= x
    <3> HIDE DEF Bad
    <3> QED
      BY <1>2, <2>1, GreatestNatural
  <2>3. CASE a = size
    <3>1. from[a] = {}
      BY <1>1, <1>2, <2>3
    <3>2. {b \in bits : b >= a} = {}
      BY <1>2, <1>3, <2>3
    <3> QED
      BY <2>2, <3>1, <3>2
  <2>4. CASE a \in bits
    <3>1. PICK n : n = a + ChunkSize(a)
      OBVIOUS
    <3>2. n \in bits \union {size} /\ n \in Nat /\ a < n /\ n \notin Bad
      BY <1>2, <1>3, <2>2, <2>4, <3>1
    <3>3. from[a] = {a} \union {b \in bits : b >= n}
      BY <1>3, <2>4, <3>1, <3>2
    <3>4. \A b \in bits : b >= a <=> b = a \/ b >= n
      BY <1>3, <2>4, <3>1, <3>2
    <3> QED
      BY <2>2, <2>4, <3>3, <3>4
  <2> QED
    BY <2>3, <2>4
<1>5. 0 \in bits \union {size}
  BY DEF Tiles
<1>6. from[0] = {b \in bits : b >= 0}
  BY <1>4, <1>5
<1> QED
  BY <1>1, <1>3, <1>6

-----------------------------------------------------------------------------
(* What the invariant says of a chunk and of a list.                         *)

LEMMA LayoutFacts ==
    ASSUME HeapTyped, Layout, NEW a \in bits
    PROVE  /\ a \in DOMAIN header /\ a \in Addresses /\ a \in Multiples /\ a \in Nat
           /\ Length[a] \in Multiples \ {0} /\ Length[a] \in Nat \ {0}
           /\ a + Length[a] \in bits \union {size} /\ a + Length[a] <= size
           /\ \A b \in bits : b \in Nat /\ (a < b => a + Length[a] <= b)
<1>1. size \in Nat /\ Tiles(bits, Length, 0, size) /\ bits \subseteq DOMAIN header
      /\ bits \subseteq Addresses
  BY TypeFacts DEF Layout
<1> QED
  BY <1>1, TileFacts

LEMMA NullFacts ==
    ASSUME HeapTyped
    PROVE  /\ NULL \notin bits /\ NULL \notin Addresses /\ NULL # INFO
           /\ \A x \in Multiples, y \in Multiples : NULL # [end |-> x, size |-> y]
<1>1. bits \subseteq Nat /\ Addresses \subseteq Nat
  BY TypeFacts, MultipleFacts, LimitType
<1>2. \A x \in Multiples, y \in Multiples : [end |-> x, size |-> y] \in [end : Nat, size : Nat]
  BY LimitType
<1> QED
  BY <1>1, <1>2, LargeAssumption

LEMMA LengthFacts ==
    ASSUME HeapTyped, Taken
    PROVE  /\ \A a \in bits : TakenBy(a) = {} => Length[a] = ChunkSize(a)
           /\ \A a \in bits : header[a].flag = "free" => TakenBy(a) = {}
           /\ \A t \in Threads : object[t] # NULL =>
                 /\ object[t] \in bits /\ TakenBy(object[t]) = {t} /\ request[t] \in Sizes
                 /\ header[object[t]].flag = "allocated"
                 /\ Length[object[t]] = Actual(request[t])
<1>1. \A a \in bits : TakenBy(a) = {} => Length[a] = ChunkSize(a)
  BY DEF Length
<1>2. ASSUME NEW t \in Threads, object[t] # NULL
      PROVE  /\ object[t] \in bits /\ TakenBy(object[t]) = {t} /\ request[t] \in Sizes
             /\ header[object[t]].flag = "allocated"
             /\ Length[object[t]] = Actual(request[t])
  <2>1. /\ object[t] \in bits /\ TakenBy(object[t]) = {t} /\ request[t] \in Sizes
        /\ header[object[t]].flag = "allocated"
    BY <1>2 DEF Taken
  <2>2. (CHOOSE u \in TakenBy(object[t]) : TRUE) = t
    BY <2>1
  <2> QED
    BY <2>1, <2>2 DEF Length
<1>3. ASSUME NEW a \in bits, header[a].flag = "free", NEW t \in TakenBy(a) PROVE FALSE
  <2>1. t \in Threads /\ object[t] = a /\ a # NULL
    BY NullFacts DEF TakenBy
  <2> QED
    BY <1>2, <1>3, <2>1
<1> QED
  BY <1>1, <1>2, <1>3

LEMMA ClassSize ==
    ASSUME NEW n \in 1 .. MemoryLimit, NEW k \in Classes,
           n = PowerOfTwo(k + LARGE_OBJECT_MIN_SIZE_BITS)
    PROVE  IsChunkSize(n) /\ sizeToLinkedListIndex(n) = k
<1>1. PICK h \in 10 .. 31 : h = k + 10
  BY DEF Classes
<1>2. k + 13 = h + 3 /\ h \in 0 .. 31 /\ k = h - 10
  BY <1>1 DEF Classes
<1>3. n = Power[h]
  BY <1>2, PowerOfTwoIs DEF LARGE_OBJECT_MIN_SIZE_BITS
<1>4. Power[h] <= MemoryLimit /\ Power[h] \in Nat /\ MemoryLimit < Power[28]
      /\ MemoryLimit \in Nat /\ Power[28] \in Nat
  BY <1>3, LimitType
<1>5. h <= 28
  <2> SUFFICES ASSUME 28 < h PROVE FALSE
    BY <1>1
  <2>1. Power[28] <= Power[h]
    BY <1>2, PowerMonotone
  <2> QED
    BY <1>4, <2>1
<1>6. h \in 10 .. 28 /\ Power[h] <= 2 * MemoryLimit
  BY <1>4, <1>5
<1> QED
  BY <1>2, <1>3, <1>6, PowerIsSize DEF IsChunkSize

\* A list that offers something offers a free chunk of its class.
LEMMA ListFacts ==
    ASSUME HeapTyped, Layout, Free, Taken, NEW k \in Classes, NEW a, a = freeLists[k].first, a # NULL
    PROVE  /\ a \in bits /\ header[a].flag = "free" /\ header[a].word = NULL
           /\ IsChunkSize(header[a].size) /\ sizeToLinkedListIndex(header[a].size) = k
           /\ header[a].size = PowerOfTwo(k + LARGE_OBJECT_MIN_SIZE_BITS)
           /\ TakenBy(a) = {} /\ ChunkSize(a) = header[a].size /\ Length[a] = header[a].size
<1>1. /\ a \in bits /\ header[a].flag = "free" /\ header[a].word = NULL
      /\ header[a].size = PowerOfTwo(k + LARGE_OBJECT_MIN_SIZE_BITS)
  BY DEF Free
<1>2. header[a].size \in 1 .. MemoryLimit
  BY <1>1, LayoutFacts, TypeFacts
<1>3. IsChunkSize(header[a].size) /\ sizeToLinkedListIndex(header[a].size) = k
  BY <1>1, <1>2, ClassSize
<1>4. ChunkSize(a) = header[a].size
  BY <1>3, ActualFacts DEF ChunkSize, IsChunkSize
<1>5. TakenBy(a) = {} /\ Length[a] = ChunkSize(a)
  BY <1>1, LengthFacts
<1> QED
  BY <1>1, <1>3, <1>4, <1>5

LEMMA FittingIs ==
    \A n \in Sizes : Fitting(n) = {k \in Required(n) - LARGE_OBJECT_MIN_SIZE_BITS .. 21 :
                                      freeLists[k].first # NULL}
<1> SUFFICES ASSUME NEW n \in Sizes
             PROVE  Fitting(n) = {k \in Required(n) - LARGE_OBJECT_MIN_SIZE_BITS .. 21 :
                                    freeLists[k].first # NULL}
  OBVIOUS
<1>1. PICK r : r = Required(n) - LARGE_OBJECT_MIN_SIZE_BITS
  OBVIOUS
<1>2. r \in 0 .. 21
  BY <1>1, FitFacts DEF Classes
<1>3. Fitting(n) = {k \in 0 .. 21 : k >= r /\ freeLists[k].first # NULL}
  BY <1>1 DEF Fitting, Classes
<1>4. Fitting(n) = {k \in r .. 21 : freeLists[k].first # NULL}
  BY <1>2, <1>3
<1> QED
  BY <1>1, <1>4

-----------------------------------------------------------------------------
(* What adding pieces does to headers and lists.                             *)

\* Pieces that may become chunks of the heap.
Fresh(P) ==
    /\ \A p \in P : IsChunkSize(p.size) /\ p.at \in Multiples /\ p.at + p.size <= MemoryLimit
    /\ \A p, q \in P : p.at = q.at => p = q

LEMMA CutFresh ==
    ASSUME NEW P, NEW from \in Multiples, NEW to \in Multiples, Cut(P, from, to),
           to <= MemoryLimit
    PROVE  Fresh(P)
<1>1. ASSUME NEW p \in P PROVE p.at + p.size <= MemoryLimit
  <2>1. p.at \in Nat /\ p.size \in Nat /\ to \in Nat /\ p.at + p.size <= to
    BY LimitType DEF Cut, IsChunkSize
  <2> QED
    BY <2>1, LimitType
<1> QED
  BY <1>1 DEF Cut, Fresh

LEMMA FreshFacts ==
    ASSUME NEW P, Fresh(P), NEW p \in P
    PROVE  /\ p.at \in Addresses /\ p.at \in Nat /\ p.size \in Multiples \ {0}
           /\ p.size \in 1 .. MemoryLimit /\ Actual(p.size) = p.size
           /\ sizeToLinkedListIndex(p.size) \in Classes
           /\ p.size = PowerOfTwo(sizeToLinkedListIndex(p.size) + LARGE_OBJECT_MIN_SIZE_BITS)
<1>1. /\ p.at \in Multiples /\ p.size \in Multiples \ {0} /\ p.at + p.size <= MemoryLimit
      /\ sizeToLinkedListIndex(p.size) \in Classes
      /\ p.size = PowerOfTwo(sizeToLinkedListIndex(p.size) + LARGE_OBJECT_MIN_SIZE_BITS)
  BY DEF Fresh, IsChunkSize
<1>2. p.at \in Nat /\ p.size \in Nat \ {0} /\ p.at < MemoryLimit /\ p.size <= MemoryLimit
  BY <1>1, LimitType
<1>3. p.at \in Addresses /\ Actual(p.size) = p.size
  BY <1>1, <1>2, MultipleFacts, ActualFacts
<1> QED
  BY <1>1, <1>2, <1>3, LimitType

IsHeader(h) == DOMAIN h \subseteq Addresses /\ \A a \in DOMAIN h : h[a] \in Chunks

\* The headers H that AddChunk leaves where it found h.
IsStamped(H, P, h) ==
    /\ DOMAIN H = At(P) \union DOMAIN h /\ IsHeader(H)
    /\ \A p \in P : H[p.at].size = p.size /\ H[p.at].flag = "free" /\ H[p.at].word = NULL
    /\ \A a \in DOMAIN h \ At(P) : H[a] = h[a]

LEMMA StampedChunks ==
    ASSUME NEW P, Fresh(P), NEW h, IsHeader(h)
    PROVE  IsStamped(Stamped(P, h), P, h)
<1> DEFINE H == Stamped(P, h)
<1>1. /\ DOMAIN H = At(P) \union DOMAIN h
      /\ \A p \in P : H[p.at] = [size |-> p.size, flag |-> "free", word |-> NULL]
      /\ \A a \in DOMAIN h \ At(P) : H[a] = h[a]
  <2>1. \A p, q \in P : p.at = q.at => p = q
    BY DEF Fresh
  <2>2. ASSUME NEW p \in P
        PROVE  H[p.at] = [size |-> p.size, flag |-> "free", word |-> NULL]
    <3>1. p.at \in At(P)
      BY DEF At
    <3>2. (CHOOSE q \in P : q.at = p.at) = p
      BY <2>1
    <3> QED
      BY <3>1, <3>2 DEF Stamped
  <2> QED
    BY <2>2 DEF Stamped
<1> HIDE DEF H
<1>2. ASSUME NEW p \in P
      PROVE  /\ p.at \in Addresses /\ H[p.at] \in Chunks
             /\ H[p.at].size = p.size /\ H[p.at].flag = "free" /\ H[p.at].word = NULL
  <2>1. p.at \in Addresses /\ p.size \in 1 .. MemoryLimit
    BY FreshFacts
  <2>2. [size |-> p.size, flag |-> "free", word |-> NULL] \in Chunks
    BY <2>1 DEF Chunks
  <2>3. H[p.at] = [size |-> p.size, flag |-> "free", word |-> NULL]
    BY <1>1
  <2> QED
    BY <2>1, <2>2, <2>3
<1>3. ASSUME NEW a \in DOMAIN H PROVE a \in Addresses /\ H[a] \in Chunks
  <2>1. CASE a \in At(P)
    <3>1. PICK p \in P : a = p.at
      BY <2>1, AtFacts
    <3> QED
      BY <1>2, <3>1
  <2>2. CASE a \notin At(P)
    BY <1>1, <2>2 DEF IsHeader
  <2> QED
    BY <2>1, <2>2
<1>4. \A p \in P : H[p.at].size = p.size /\ H[p.at].flag = "free" /\ H[p.at].word = NULL
  BY <1>2
<1>5. IsHeader(H)
  BY <1>3 DEF IsHeader
<1>6. /\ DOMAIN H = At(P) \union DOMAIN h
      /\ \A a \in DOMAIN h \ At(P) : H[a] = h[a]
  BY <1>1
<1> QED
  BY <1>4, <1>5, <1>6 DEF H, IsStamped

Lists == [Classes -> [first : Addresses \union {NULL}, last : Addresses \union {NULL}]]

\* What the lists offer when pieces were added to them.
IsAdded(added, P, lists) ==
    /\ added \in Lists
    /\ \A k \in Classes :
          \/ added[k].first = lists[k].first
          \/ \E p \in P : /\ added[k].first = p.at
                          /\ p.size = PowerOfTwo(k + LARGE_OBJECT_MIN_SIZE_BITS)
    /\ \A k \in Classes : lists[k].first # NULL => added[k].first # NULL
    /\ \A p \in P : added[sizeToLinkedListIndex(p.size)].first # NULL

LEMMA AddedChunks ==
    ASSUME NEW P, Fresh(P), NEW lists \in Lists
    PROVE  IsAdded(AddedLast(lists, P), P, lists)
<1>1. \A p \in P : /\ p.at \in Addresses /\ sizeToLinkedListIndex(p.size) \in Classes
                   /\ p.size = PowerOfTwo(sizeToLinkedListIndex(p.size)
                                            + LARGE_OBJECT_MIN_SIZE_BITS)
  BY FreshFacts
<1>2. /\ AddedLast(lists, P) \in Lists
      /\ \A k \in Classes :
            \/ AddedLast(lists, P)[k].first = lists[k].first
            \/ \E p \in P : /\ AddedLast(lists, P)[k].first = p.at
                            /\ sizeToLinkedListIndex(p.size) = k
      /\ \A k \in Classes : lists[k].first # NULL => AddedLast(lists, P)[k].first # NULL
      /\ \A p \in P : AddedLast(lists, P)[sizeToLinkedListIndex(p.size)].first # NULL
  BY <1>1, AddedFacts DEF Lists
<1>3. \A k \in Classes :
        \/ AddedLast(lists, P)[k].first = lists[k].first
        \/ \E p \in P : /\ AddedLast(lists, P)[k].first = p.at
                        /\ p.size = PowerOfTwo(k + LARGE_OBJECT_MIN_SIZE_BITS)
  BY <1>1, <1>2
<1> QED
  BY <1>2, <1>3 DEF IsAdded

LEMMA LargestOfThree ==
    ASSUME NEW x \in Multiples, NEW y \in Multiples, NEW z \in Multiples,
           x <= MemoryLimit, y <= MemoryLimit, z <= MemoryLimit
    PROVE  Max({x, y, z}) <= MemoryLimit
<1>1. {x, y, z} \in SUBSET (0 .. MemoryLimit) /\ {x, y, z} # {} /\ MemoryLimit \in Nat
  BY LimitType
<1>2. Max({x, y, z}) \in {x, y, z}
  BY <1>1, MaxFacts
<1> QED
  BY <1>2

-----------------------------------------------------------------------------
(* The invariant holds at the start.                                         *)

EmptyLists == [k \in Classes |-> [first |-> NULL, last |-> NULL]]

LEMMA EmptyListsFacts ==
    EmptyLists \in Lists /\ \A k \in Classes : EmptyLists[k].first = NULL
  BY DEF EmptyLists, Lists

\* The first chunks are cut from the whole heap.
LEMMA InitInv ==
    ASSUME Init
    PROVE  IInv
<1> DEFINE P == Pieces(0, InitialSize)
<1>1. /\ InitialSize \in Multiples \ {0} /\ InitialSize <= MemoryLimit /\ 0 \in Multiples
      /\ InitialSize \in Nat
  BY MultipleFacts, LimitType
<1>2. Cut(P, 0, InitialSize)
  <2>1. 0 + InitialSize = InitialSize
    BY <1>1
  <2> QED
    BY <1>1, <2>1, PiecesCut
<1> HIDE DEF P
<1>3. Fresh(P)
  BY <1>1, <1>2, CutFresh
<1>4. /\ header = Stamped(P, <<>>) /\ bits = At(P)
      /\ freeLists = AddedLast(EmptyLists, P)
      /\ size = InitialSize /\ largeHeapEnd = InitialSize /\ largeHeapSize = InitialSize
      /\ live = {} /\ request = [t \in Threads |-> 0]
      /\ object = [t \in Threads |-> NULL] /\ seen = [t \in Threads |-> NULL]
      /\ collections = 0 /\ pc = [t \in Threads |-> "idle"]
      /\ overlapped = FALSE /\ robbed = {} /\ overwritten = FALSE
  BY DEF Init, P, EmptyLists
<1>5. /\ DOMAIN header = bits /\ IsHeader(header)
      /\ \A p \in P : header[p.at].size = p.size /\ header[p.at].flag = "free"
                      /\ header[p.at].word = NULL
  <2>1. PICK h : h = <<>>
    OBVIOUS
  <2>2. DOMAIN h = {}
    BY <2>1
  <2>3. header = Stamped(P, h) /\ bits = At(P)
    BY <1>4, <2>1
  <2>4. IsHeader(h)
    BY <2>2 DEF IsHeader
  <2>5. /\ DOMAIN header = At(P) \union DOMAIN h /\ IsHeader(header)
        /\ \A p \in P : header[p.at].size = p.size /\ header[p.at].flag = "free"
                        /\ header[p.at].word = NULL
    BY <1>3, <2>3, <2>4, StampedChunks DEF IsStamped
  <2> QED
    BY <2>2, <2>3, <2>5
<1>6. /\ freeLists \in Lists
      /\ \A k \in Classes : freeLists[k].first = NULL
            \/ \E p \in P : /\ freeLists[k].first = p.at
                            /\ p.size = PowerOfTwo(k + LARGE_OBJECT_MIN_SIZE_BITS)
  <2>1. IsAdded(freeLists, P, EmptyLists)
    BY <1>3, <1>4, AddedChunks, EmptyListsFacts
  <2> QED
    BY <2>1, EmptyListsFacts DEF IsAdded
<1>7. \A a \in bits : \E p \in P : a = p.at
  BY <1>4, AtFacts
<1>8. \A p \in P : p.at \in bits /\ p.at # NULL
  <2>1. \A p \in P : p.at \in Nat
    BY <1>3, FreshFacts
  <2> QED
    BY <1>4, <2>1, AtFacts, LargeAssumption
<1>9. HeapTyped
  <2>1. {size, largeHeapEnd, largeHeapSize} \subseteq Multiples
        /\ Max({size, largeHeapEnd, largeHeapSize}) <= MemoryLimit
    BY <1>1, <1>4, LargestOfThree
  <2>2. collections \in 0 .. MaxCollections
    BY <1>4, LargeAssumption
  <2>3. freeLists \in [Classes -> [first : Addresses \union {NULL}, last : Addresses \union {NULL}]]
    BY <1>6 DEF Lists
  <2>4. live \subseteq S!Places /\ request \in [Threads -> Sizes \union {0}]
        /\ object \in [Threads -> Addresses \union {NULL}]
        /\ seen \in [Threads -> {NULL} \union [end : Multiples, size : Multiples]]
    BY <1>4
  <2>5. pc \in [Threads -> {"idle", "collect", "retry", "grow", "end", "register", "last",
                            "got", "crashed", "exited"}]
    BY <1>4
  <2>6. robbed \subseteq Threads /\ overwritten \in BOOLEAN
    BY <1>4
  <2> QED
    BY <1>5, <2>1, <2>2, <2>3, <2>4, <2>5, <2>6 DEF HeapTyped, IsHeader
<1>10. Layout
  <2>1. \A p \in P : Length[p.at] = p.size
    <3>1. ASSUME NEW p \in P PROVE Length[p.at] = p.size
      <4>1. TakenBy(p.at) = {}
        BY <1>4, <1>8 DEF TakenBy
      <4>2. Length[p.at] = ChunkSize(p.at)
        BY <1>8, <4>1 DEF Length
      <4>3. header[p.at].size = p.size /\ Actual(p.size) = p.size
        BY <1>3, <1>5, FreshFacts
      <4> QED
        BY <4>2, <4>3 DEF ChunkSize
    <3> QED
      BY <3>1
  <2>2. Tiles(At(P), Length, 0, InitialSize)
    BY <1>1, <1>2, <2>1, TilesOf
  <2> QED
    BY <1>4, <1>5, <2>2 DEF Layout
<1>11. Free
  BY <1>5, <1>6, <1>7, <1>8 DEF Free
<1>12. Live /\ Taken
  BY <1>4 DEF Live, Taken
<1>13. Growth
  BY <1>4 DEF Growth, Growing
<1>14. Apart
  BY <1>4 DEF Apart
<1> QED
  BY <1>14, <1>9, <1>10, <1>11, <1>12, <1>13 DEF IInv

-----------------------------------------------------------------------------
(* The steps of growing.                                                     *)

PCs == {"idle", "collect", "retry", "grow", "end", "register", "last", "got", "crashed", "exited"}
Sightings == {NULL} \union [end : Multiples, size : Multiples]

LEMMA TypeIs ==
    ASSUME IsHeader(header'), bits' \subseteq Addresses, freeLists' \in Lists,
           size' \in Multiples, size' <= MemoryLimit,
           largeHeapEnd' \in Multiples, largeHeapEnd' <= MemoryLimit,
           largeHeapSize' \in Multiples, largeHeapSize' <= MemoryLimit,
           live' \subseteq S!Places, request' \in [Threads -> Sizes \union {0}],
           object' \in [Threads -> Addresses \union {NULL}],
           collections' \in 0 .. MaxCollections,
           pc' \in [Threads -> PCs], seen' \in [Threads -> Sightings],
           robbed' \subseteq Threads, overwritten' \in BOOLEAN
    PROVE  HeapTyped'
<1>1. Max({size', largeHeapEnd', largeHeapSize'}) <= MemoryLimit
  BY LargestOfThree
<1> QED
  BY <1>1 DEF HeapTyped, IsHeader, Lists, PCs, Sightings

LEMMA Typed ==
    ASSUME HeapTyped
    PROVE  /\ IsHeader(header) /\ freeLists \in Lists
           /\ live \subseteq S!Places /\ request \in [Threads -> Sizes \union {0}]
           /\ object \in [Threads -> Addresses \union {NULL}]
           /\ collections \in 0 .. MaxCollections
           /\ pc \in [Threads -> PCs] /\ seen \in [Threads -> Sightings]
           /\ robbed \subseteq Threads /\ overwritten \in BOOLEAN
  BY DEF HeapTyped, IsHeader, Lists, PCs, Sightings

\* Steps of Heap_AllocLarge outside the allocator leave the heap as it was.
LEMMA SameHeap ==
    ASSUME Layout, Free, Live, UNCHANGED <<heap, live, request, object>>
    PROVE  Layout' /\ Free' /\ Live' /\ \A a : TakenBy(a)' = TakenBy(a)
<1>1. UNCHANGED <<header, bits, freeLists, size, live, request, object>>
  BY DEF heap
<1>2. \A a : TakenBy(a)' = TakenBy(a) /\ ChunkSize(a)' = ChunkSize(a)
  BY <1>1 DEF TakenBy, ChunkSize
<1>3. Length' = Length
  BY <1>1 DEF Length, TakenBy, ChunkSize
<1>4. Layout'
  BY <1>1, <1>3 DEF Layout, Tiles
<1>5. Free'
  BY <1>1 DEF Free
<1>6. Live'
  BY <1>1, <1>2, <1>3 DEF Live
<1> QED
  BY <1>2, <1>4, <1>5, <1>6

LEMMA SameHeapTyped ==
    ASSUME HeapTyped, UNCHANGED <<heap, live, request, object, collections>>,
           largeHeapEnd' \in Multiples, largeHeapEnd' <= MemoryLimit,
           largeHeapSize' \in Multiples, largeHeapSize' <= MemoryLimit,
           pc' \in [Threads -> PCs], seen' \in [Threads -> Sightings],
           robbed' \subseteq Threads, overwritten' \in BOOLEAN
    PROVE  HeapTyped'
<1>1. UNCHANGED <<header, bits, freeLists, size, live, request, object, collections>>
  BY DEF heap
<1>2. size \in Multiples /\ size <= MemoryLimit
  BY TypeFacts
<1>3. Max({size, largeHeapEnd', largeHeapSize'}) <= MemoryLimit
  BY <1>2, LargestOfThree
<1> QED
  BY <1>1, <1>2, <1>3 DEF HeapTyped, PCs, Sightings

LEMMA GrowLargeInv ==
    ASSUME IInv, NEW t \in Threads, GrowLarge(t)
    PROVE  overlapped' \/ IInv'
<1>1. /\ pc[t] = "grow"
      /\ UNCHANGED <<heap, bounds, live, request, object, collections, robbed, overwritten>>
      /\ UNCHANGED <<largeHeapEnd, largeHeapSize, size, freeLists, header, bits>>
  BY DEF GrowLarge, heap, bounds
<1>2. \/ /\ MayGrow(request[t])
         /\ seen' = [seen EXCEPT ![t] = [end |-> largeHeapEnd, size |-> largeHeapSize]]
         /\ pc' = [pc EXCEPT ![t] = "end"]
      \/ pc' = [u \in Threads |-> "exited"] /\ seen' = seen
  BY DEF GrowLarge
<1>3. CASE \E u \in Threads : pc[u] \in Growing
  <2>1. overlapped'
    BY <1>3 DEF GrowLarge, Growing
  <2> QED
    BY <2>1
<1>4. CASE \A u \in Threads : pc[u] \notin Growing
  <2>1. Apart'
    BY <1>1, <1>4 DEF GrowLarge, Growing, IInv, Apart
  <2>2. pc \in [Threads -> PCs] /\ pc' \in [Threads -> PCs]
    BY <1>2 DEF IInv, HeapTyped, PCs
  <2>3. seen \in [Threads -> Sightings] /\ seen' \in [Threads -> Sightings]
    <3>1. [end |-> largeHeapEnd, size |-> largeHeapSize] \in Sightings
      BY TypeFacts DEF IInv, Sightings
    <3>2. seen \in [Threads -> Sightings]
      BY DEF IInv, HeapTyped, Sightings
    <3> QED
      BY <1>2, <3>1, <3>2
  <2>4. HeapTyped'
    BY <1>1, <2>2, <2>3, Typed, TypeFacts, SameHeapTyped DEF IInv
  <2>5. Layout' /\ Free' /\ Live' /\ \A a : TakenBy(a)' = TakenBy(a)
    BY <1>1, SameHeap DEF IInv
  <2>6. Taken'
    BY <1>1, <1>2, <2>2, <2>5 DEF IInv, Taken
  <2>7. \A u \in Threads : pc[u] # "exited" /\ seen[u] = NULL
    BY <1>1, <1>4 DEF IInv, Growth
  <2>8. largeHeapEnd = size /\ largeHeapSize = size
    BY <2>7 DEF IInv, Growth
  <2>9. \A x : Fitting(x)' = Fitting(x)
    BY <1>1 DEF Fitting
  <2>10. Growth'
    <3>1. CASE pc' = [u \in Threads |-> "exited"] /\ seen' = seen
      BY <1>1, <2>7, <2>8, <3>1 DEF Growth, Growing
    <3>2. CASE /\ MayGrow(request[t])
               /\ seen' = [seen EXCEPT ![t] = [end |-> largeHeapEnd, size |-> largeHeapSize]]
               /\ pc' = [pc EXCEPT ![t] = "end"]
      <4>1. /\ pc'[t] = "end" /\ seen'[t] = [end |-> size, size |-> size]
            /\ \A u \in Threads : u # t => pc'[u] = pc[u] /\ seen'[u] = NULL
        BY <2>2, <2>3, <2>7, <2>8, <3>2
      <4>2. size + Increment(request'[t]) <= MemoryLimit
        BY <1>1, <2>8, <3>2 DEF MayGrow
      <4> QED
        BY <1>1, <1>4, <2>7, <2>8, <2>9, <4>1, <4>2 DEF IInv, Growth, Growing
    <3> QED
      BY <1>2, <3>1, <3>2
  <2> QED
    BY <2>1, <2>4, <2>5, <2>6, <2>10 DEF IInv
<1> QED
  BY <1>3, <1>4

LEMMA MoveEndInv ==
    ASSUME IInv, NEW t \in Threads, MoveEnd(t)
    PROVE  IInv'
<1>1. /\ pc[t] = "end" /\ pc' = [pc EXCEPT ![t] = "register"]
      /\ UNCHANGED <<heap, live, request, object, seen, collections, history>>
      /\ UNCHANGED <<size, freeLists, header, bits, overlapped, robbed, overwritten>>
  BY DEF MoveEnd, heap, history
<1>2. /\ largeHeapEnd = size /\ largeHeapSize = size /\ seen[t] = [end |-> size, size |-> size]
      /\ size + Increment(request[t]) <= MemoryLimit
      /\ \A u \in Threads : u # t => pc[u] \notin Growing
      /\ \A u \in Threads : pc[u] # "exited"
  BY <1>1 DEF IInv, Growth, Growing
<1>3. largeHeapEnd' = size + Increment(request[t]) /\ largeHeapSize' = size + Increment(request[t])
  BY <1>2 DEF MoveEnd
<1>4. size + Increment(request[t]) \in Multiples
  <2>1. request[t] \in Sizes
    BY <1>1 DEF IInv, Taken
  <2>2. size \in Multiples /\ size \in Nat /\ Increment(request[t]) \in Nat
    BY <2>1, TypeFacts, IncrementFacts DEF IInv
  <2>3. Increment(request[t]) <= MemoryLimit /\ size + Increment(request[t]) <= 2 * MemoryLimit
    BY <1>2, <2>2, LimitType
  <2>4. Increment(request[t]) \in Multiples
    BY <2>1, <2>3, IncrementFacts DEF IsChunkSize
  <2> QED
    BY <2>2, <2>3, <2>4, MultipleFacts
<1>5. pc \in [Threads -> PCs] /\ pc' \in [Threads -> PCs]
  BY <1>1 DEF IInv, HeapTyped, PCs
<1>6. seen' \in [Threads -> Sightings]
  BY <1>1 DEF IInv, HeapTyped, Sightings
<1>7. HeapTyped'
  BY <1>1, <1>2, <1>3, <1>4, <1>5, <1>6, Typed, SameHeapTyped DEF IInv
<1>8. Layout' /\ Free' /\ Live' /\ \A a : TakenBy(a)' = TakenBy(a)
  BY <1>1, SameHeap DEF IInv
<1>9. Taken'
  BY <1>1, <1>5, <1>8 DEF IInv, Taken
<1>10. Growth'
  <2>1. \A x : Fitting(x)' = Fitting(x)
    BY <1>1 DEF Fitting
  <2>2. pc'[t] = "register" /\ \A u \in Threads : u # t => pc'[u] = pc[u]
    BY <1>1, <1>5
  <2>3. seen[t] # NULL
    BY <1>2, NullFacts, TypeFacts DEF IInv
  <2> QED
    BY <1>1, <1>2, <1>3, <2>1, <2>2, <2>3 DEF IInv, Growth, Growing
<1> QED
  BY <1>1, <1>7, <1>8, <1>9, <1>10 DEF IInv, Apart

-----------------------------------------------------------------------------
(* The header of a new object.                                               *)

LEMMA TakenIs ==
    ASSUME \A t \in Threads :
              /\ pc'[t] \notin {"idle", "exited"} => request'[t] \in Sizes
              /\ pc'[t] = "got" => object'[t] # NULL
              /\ object'[t] # NULL =>
                    /\ pc'[t] \in {"got", "exited"} /\ request'[t] \in Sizes
                    /\ object'[t] \in bits' /\ header'[object'[t]].flag = "allocated"
                    /\ \A u \in Threads : object'[u] = object'[t] => u = t
    PROVE  Taken'
<1>1. ASSUME NEW t \in Threads,
             \A u \in Threads : object'[u] = object'[t] => u = t
      PROVE  TakenBy(object[t])' = {t}
  BY <1>1 DEF TakenBy
<1> QED
  BY <1>1 DEF Taken

LEMMA StampInv ==
    ASSUME IInv, NEW t \in Threads, Stamp(t)
    PROVE  IInv'
<1>1. /\ pc[t] = "got" /\ pc' = [pc EXCEPT ![t] = "idle"]
      /\ request' = [request EXCEPT ![t] = 0] /\ object' = [object EXCEPT ![t] = NULL]
      /\ UNCHANGED <<bits, freeLists, size, largeHeapEnd, largeHeapSize, live, seen, collections>>
      /\ UNCHANGED <<overlapped, robbed, overwritten>>
  BY DEF Stamp, bounds, history
<1>2. Apart /\ HeapTyped /\ Layout /\ Free /\ Live /\ Taken /\ Growth
  BY DEF IInv
<1>3. PICK c : c = object[t]
  OBVIOUS
<1>4. PICK n : n = request[t]
  OBVIOUS
<1>5. c \in bits /\ c # NULL /\ TakenBy(c) = {t} /\ n \in Sizes /\ Length[c] = Actual(n)
      /\ header[c].flag = "allocated" /\ c \in DOMAIN header /\ c \in Addresses
  BY <1>1, <1>2, <1>3, <1>4, LengthFacts, LayoutFacts DEF Taken
<1>6. IsHeader(header) /\ header[c] \in Chunks
  BY <1>2, <1>5, Typed DEF IsHeader
<1>7. PICK r : r = [header[c] EXCEPT !.size = n, !.word = INFO]
  OBVIOUS
<1>8. r \in Chunks /\ r.size = n /\ r.word = INFO /\ r.flag = "allocated"
  <2>1. n \in 1 .. MemoryLimit
    BY <1>5, SizeFacts
  <2> QED
    BY <1>5, <1>6, <1>7, <2>1 DEF Chunks
<1>9. header' = [header EXCEPT ![c] = r]
  BY <1>1, <1>3, <1>4, <1>7 DEF Stamp
<1>10. /\ DOMAIN header' = DOMAIN header /\ header'[c] = r
       /\ \A a \in DOMAIN header : a # c => header'[a] = header[a]
       /\ \A a \in DOMAIN header : header'[a].flag = header[a].flag
  BY <1>5, <1>8, <1>9
<1>11. \A u \in Threads : u # t => request'[u] = request[u] /\ object'[u] = object[u]
                                   /\ pc'[u] = pc[u]
  BY <1>1, <1>2, Typed
<1>12. object'[t] = NULL /\ pc'[t] = "idle"
  BY <1>1, <1>2, Typed
<1>13. \A u \in Threads : u # t => object[u] # c
  <2>1. \A u \in Threads : object[u] = c => u \in TakenBy(c)
    BY DEF TakenBy
  <2> QED
    BY <1>5, <2>1
<1>14. \A a : a # NULL /\ a # c => TakenBy(a)' = TakenBy(a)
  BY <1>3, <1>11, <1>12 DEF TakenBy
<1>15. TakenBy(c)' = {}
  BY <1>5, <1>11, <1>12, <1>13 DEF TakenBy
<1>16. \A a \in bits : a # NULL /\ a \in DOMAIN header
  BY <1>2, NullFacts, LayoutFacts
<1>17. ASSUME NEW a \in bits PROVE Length'[a] = Length[a]
  <2>1. Length'[a] = IF TakenBy(a)' = {} THEN ChunkSize(a)'
                     ELSE Actual(request'[CHOOSE u \in TakenBy(a)' : TRUE])
    BY <1>1 DEF Length
  <2>2. CASE a = c
    BY <1>5, <1>8, <1>10, <1>15, <2>1, <2>2 DEF ChunkSize
  <2>3. CASE a # c /\ TakenBy(a) = {}
    BY <1>10, <1>14, <1>16, <2>1, <2>3 DEF ChunkSize, Length
  <2>4. CASE a # c /\ TakenBy(a) # {}
    <3>1. PICK u : u = CHOOSE v \in TakenBy(a) : TRUE
      OBVIOUS
    <3>2. u \in TakenBy(a)
      BY <2>4, <3>1
    <3>3. u \in Threads /\ u # t
      BY <1>3, <2>4, <3>2 DEF TakenBy
    <3>4. Length[a] = Actual(request[u])
      BY <2>4, <3>1 DEF Length
    <3>5. Length'[a] = Actual(request'[u])
      BY <1>14, <1>16, <2>1, <2>4, <3>1
    <3> QED
      BY <1>11, <3>3, <3>4, <3>5
  <2> QED
    BY <2>2, <2>3, <2>4
<1>18. HeapTyped'
  <2>1. IsHeader(header')
    BY <1>6, <1>8, <1>10 DEF IsHeader
  <2>2. request' \in [Threads -> Sizes \union {0}] /\ object' \in [Threads -> Addresses \union {NULL}]
        /\ pc' \in [Threads -> PCs]
    BY <1>1, <1>2, Typed DEF PCs
  <2> QED
    BY <1>1, <1>2, <2>1, <2>2, Typed, TypeFacts, TypeIs
<1>19. Layout'
  BY <1>1, <1>2, <1>10, <1>17 DEF Layout, Tiles
<1>20. Free'
  BY <1>1, <1>2, <1>5, <1>10, <1>16 DEF Free
<1>21. Live'
  <2>1. ASSUME NEW o \in live, NEW a, a = o.start * MIN_BLOCK_SIZE
        PROVE  /\ a \in bits' /\ header'[a].flag = "allocated"
               /\ Length'[a] = o.size * MIN_BLOCK_SIZE
               /\ header'[a].word # NULL \/ TakenBy(a)' # {}
    <3>1. a \in bits /\ header[a].flag = "allocated" /\ Length[a] = o.size * MIN_BLOCK_SIZE
          /\ (header[a].word # NULL \/ TakenBy(a) # {})
      BY <1>2, <2>1 DEF Live
    <3>2. a = c => header'[a].word # NULL
      BY <1>2, <1>8, <1>10, NullFacts
    <3>3. a # c => header'[a] = header[a] /\ TakenBy(a)' = TakenBy(a)
      BY <1>10, <1>14, <1>16, <3>1
    <3> QED
      BY <1>1, <1>10, <1>16, <1>17, <3>1, <3>2, <3>3
  <2> QED
    BY <1>1, <2>1 DEF Live
<1>22. Taken'
  <2>1. ASSUME NEW u \in Threads, object'[u] # NULL
        PROVE  /\ pc'[u] \in {"got", "exited"} /\ request'[u] \in Sizes
               /\ object'[u] \in bits' /\ header'[object'[u]].flag = "allocated"
               /\ \A v \in Threads : object'[v] = object'[u] => v = u
    <3>1. u # t
      BY <1>12, <2>1
    <3>2. PICK d : d = object[u]
      OBVIOUS
    <3>3. object'[u] = d /\ d # NULL /\ d # c
      BY <1>11, <1>13, <2>1, <3>1, <3>2
    <3>4. pc[u] \in {"got", "exited"} /\ request[u] \in Sizes /\ d \in bits
          /\ header[d].flag = "allocated" /\ TakenBy(d) = {u}
      BY <1>2, <3>2, <3>3 DEF Taken
    <3>5. \A v \in Threads : object'[v] = d => v = u
      BY <1>11, <1>12, <3>3, <3>4 DEF TakenBy
    <3> QED
      BY <1>1, <1>10, <1>11, <1>16, <3>1, <3>3, <3>4, <3>5
  <2>2. ASSUME NEW u \in Threads
        PROVE  /\ pc'[u] \notin {"idle", "exited"} => request'[u] \in Sizes
               /\ pc'[u] = "got" => object'[u] # NULL
    BY <1>2, <1>11, <1>12 DEF Taken
  <2> QED
    BY <2>1, <2>2, TakenIs
<1>23. Growth'
  <2>1. \A x : Fitting(x)' = Fitting(x)
    BY <1>1 DEF Fitting
  <2> QED
    BY <1>1, <1>2, <1>11, <1>12, <2>1 DEF Growth, Growing
<1>24. Apart'
  BY <1>1, <1>2 DEF Apart
<1> QED
  BY <1>24, <1>18, <1>19, <1>20, <1>21, <1>22, <1>23 DEF IInv

-----------------------------------------------------------------------------
(* A thread's tries to get a block.                                          *)

LEMMA SameLength ==
    ASSUME NEW a \in bits, a \in bits', header'[a] = header[a], TakenBy(a)' = TakenBy(a),
           \A u \in TakenBy(a) : request'[u] = request[u]
    PROVE  Length'[a] = Length[a]
<1>1. Length'[a] = IF TakenBy(a)' = {} THEN ChunkSize(a)'
                   ELSE Actual(request'[CHOOSE u \in TakenBy(a)' : TRUE])
  BY DEF Length
<1>2. ChunkSize(a)' = ChunkSize(a)
  BY DEF ChunkSize
<1>3. CASE TakenBy(a) = {}
  BY <1>1, <1>2, <1>3 DEF Length
<1>4. CASE TakenBy(a) # {}
  <2>1. PICK u : u = CHOOSE v \in TakenBy(a) : TRUE
    OBVIOUS
  <2>2. u \in TakenBy(a)
    BY <1>4, <2>1
  <2>3. Length[a] = Actual(request[u])
    BY <1>4, <2>1 DEF Length
  <2>4. Length'[a] = Actual(request'[u])
    BY <1>1, <1>4, <2>1
  <2> QED
    BY <2>2, <2>3, <2>4
<1> QED
  BY <1>3, <1>4

LEMMA OneTile ==
    ASSUME NEW L, NEW a \in Multiples, NEW to, L[a] \in Multiples \ {0}, to = a + L[a]
    PROVE  Tiles({a}, L, a, to)
<1>1. a \in Nat /\ L[a] \in Nat \ {0}
  BY LimitType
<1> QED
  BY <1>1 DEF Tiles

\* A try that finds nothing only moves the thread on.
LEMMA NoBlockInv ==
    ASSUME IInv, NEW t \in Threads, pc[t] \in {"idle", "retry", "last"},
           NEW n \in Sizes, request' = [request EXCEPT ![t] = n],
           \/ \E failed \in {"collect", "grow"} : pc' = [pc EXCEPT ![t] = failed]
           \/ /\ pc[t] = "last" /\ n = request[t] /\ Fitting(n) = {}
              /\ pc' = [u \in Threads |-> IF u = t THEN "crashed" ELSE "exited"],
           UNCHANGED <<heap, bounds, live, object, seen, collections, history>>
    PROVE  IInv'
<1>1. UNCHANGED <<header, bits, freeLists, size, largeHeapEnd, largeHeapSize, live, object,
                  seen, collections, overlapped, robbed, overwritten>>
  BY DEF heap, bounds, history
<1>2. Apart /\ HeapTyped /\ Layout /\ Free /\ Live /\ Taken /\ Growth
  BY DEF IInv
<1>3. object[t] = NULL
  BY <1>2 DEF Taken
<1>4. \A u \in Threads : u # t => request'[u] = request[u] /\ pc'[u] \in {pc[u], "exited"}
  BY <1>2, Typed
<1>5. request'[t] = n /\ pc'[t] \in {"collect", "grow", "crashed"}
  BY <1>2, Typed
<1>6. \A a : TakenBy(a)' = TakenBy(a)
  BY <1>1 DEF TakenBy
<1>7. \A a \in bits : \A u \in TakenBy(a) : request'[u] = request[u]
  BY <1>2, <1>3, <1>4, NullFacts DEF TakenBy
<1>8. \A a \in bits : Length'[a] = Length[a]
  BY <1>1, <1>6, <1>7, SameLength
<1>9. HeapTyped'
  <2>1. request' \in [Threads -> Sizes \union {0}] /\ pc' \in [Threads -> PCs]
    BY <1>2, Typed DEF PCs
  <2> QED
    BY <1>1, <1>2, <2>1, Typed, TypeFacts, TypeIs
<1>10. Layout'
  BY <1>1, <1>2, <1>8 DEF Layout, Tiles
<1>11. Free'
  BY <1>1, <1>2 DEF Free
<1>12. Live'
  BY <1>1, <1>2, <1>6, <1>8 DEF Live
<1>13. Taken'
  BY <1>1, <1>2, <1>3, <1>4, <1>5, <1>6 DEF Taken
<1>14. Growth'
  <2>1. \A x : Fitting(x)' = Fitting(x)
    BY <1>1 DEF Fitting
  <2>2. CASE pc[t] = "last" /\ n = request[t] /\ Fitting(n) = {}
               /\ pc' = [u \in Threads |-> IF u = t THEN "crashed" ELSE "exited"]
    <3>1. /\ pc'[t] = "crashed" /\ \A u \in Threads : u # t => pc'[u] = "exited"
          /\ t \in robbed /\ seen[t] = NULL
      BY <1>2, <2>2 DEF Growth, Growing
    <3>2. \A u \in Threads : pc[u] # "exited"
      BY <1>2, <2>2 DEF Growth
    <3>3. (\A u \in Threads : seen[u] = NULL) => largeHeapEnd = size /\ largeHeapSize = size
      BY <1>2 DEF Growth
    <3>4. \A u \in Threads : pc'[u] \notin Growing \union {"last"}
      BY <3>1 DEF Growing
    <3>5. \A u \in Threads : pc'[u] \in {"register", "exited"} <=> u # t
      BY <3>1
    <3> QED
      BY <1>1, <3>1, <3>3, <3>4, <3>5 DEF Growth
  <2>3. ASSUME NEW failed \in {"collect", "grow"}, pc' = [pc EXCEPT ![t] = failed]
        PROVE  Growth'
    <3>1. /\ pc'[t] \in {"collect", "grow"} /\ \A u \in Threads : u # t => pc'[u] = pc[u]
          /\ seen[t] = NULL
      BY <1>2, <2>3, Typed DEF Growth, Growing
    <3> QED
      BY <1>1, <1>2, <1>4, <2>1, <3>1 DEF Growth, Growing
  <2> QED
    BY <2>2, <2>3
<1>15. Apart'
  BY <1>1, <1>2 DEF Apart
<1> QED
  BY <1>15, <1>9, <1>10, <1>11, <1>12, <1>13, <1>14 DEF IInv

\* The chunk that GetBlock takes for a size, and what it leaves of it.
Found(n) == freeLists[Min(Fitting(n))].first
Left(n) ==
    LET rest == header[Found(n)].size - Actual(n) IN
    IF rest >= MIN_BLOCK_SIZE THEN Pieces(Found(n) + Actual(n), rest) ELSE {}

LEMMA FoundFacts ==
    ASSUME IInv, NEW n \in Sizes, Fitting(n) # {}
    PROVE  /\ Min(Fitting(n)) \in Classes
           /\ Found(n) \in bits /\ Found(n) # NULL /\ header[Found(n)].flag = "free"
           /\ header[Found(n)].word = NULL /\ TakenBy(Found(n)) = {}
           /\ Length[Found(n)] = header[Found(n)].size
           /\ Actual(n) <= Length[Found(n)]
<1>1. HeapTyped /\ Layout /\ Free /\ Taken
  BY DEF IInv
<1>2. Required(n) - LARGE_OBJECT_MIN_SIZE_BITS \in Classes
      /\ \A k \in Classes : k >= Required(n) - LARGE_OBJECT_MIN_SIZE_BITS
           => Actual(n) <= PowerOfTwo(k + LARGE_OBJECT_MIN_SIZE_BITS)
  BY FitFacts
<1>3. PICK r : r = Required(n) - LARGE_OBJECT_MIN_SIZE_BITS
  OBVIOUS
<1>4. Fitting(n) = {k \in r .. 21 : freeLists[k].first # NULL}
  BY <1>3, FittingIs
<1>5. r \in 0 .. 21
  BY <1>2, <1>3 DEF Classes
<1>6. Fitting(n) \in SUBSET Nat
  BY <1>4, <1>5
<1>7. PICK k : k = Min(Fitting(n))
  OBVIOUS
<1>8. k \in Fitting(n)
  BY <1>6, <1>7, MinFacts
<1>9. k \in Classes /\ k >= r /\ freeLists[k].first # NULL
  BY <1>4, <1>5, <1>8 DEF Classes
<1>10. PICK c : c = freeLists[k].first
  OBVIOUS
<1>11. c = Found(n)
  BY <1>7, <1>10 DEF Found
<1>12. /\ c \in bits /\ header[c].flag = "free" /\ header[c].word = NULL
       /\ header[c].size = PowerOfTwo(k + LARGE_OBJECT_MIN_SIZE_BITS)
       /\ TakenBy(c) = {} /\ Length[c] = header[c].size
  BY <1>1, <1>9, <1>10, ListFacts
<1>13. Actual(n) <= Length[c]
  BY <1>2, <1>3, <1>9, <1>12
<1> QED
  BY <1>7, <1>9, <1>10, <1>11, <1>12, <1>13

LEMMA LeftCut ==
    ASSUME IInv, NEW n \in Sizes, Fitting(n) # {}
    PROVE  /\ Found(n) + Actual(n) \in Multiples
           /\ Found(n) + Length[Found(n)] \in Multiples
           /\ Found(n) + Length[Found(n)] <= MemoryLimit
           /\ Cut(Left(n), Found(n) + Actual(n), Found(n) + Length[Found(n)])
<1>1. HeapTyped /\ Layout
  BY DEF IInv
<1>2. PICK c : c = Found(n)
  OBVIOUS
<1>3. PICK l : l = Length[c]
  OBVIOUS
<1>4. PICK m : m = Actual(n)
  OBVIOUS
<1>5. c \in bits /\ header[c].size = l /\ m <= l
  BY <1>2, <1>3, <1>4, FoundFacts
<1>6. c \in Multiples /\ c \in Nat /\ l \in Multiples /\ l \in Nat /\ c + l <= size
  BY <1>1, <1>3, <1>5, LayoutFacts
<1>7. m \in Multiples \ {0} /\ m \in Nat /\ size <= MemoryLimit /\ size \in Nat
      /\ MemoryLimit \in Nat
  BY <1>1, <1>4, SizeFacts, TypeFacts, LimitType
<1>8. l - m \in Multiples /\ c + l \in Multiples /\ c + m \in Multiples /\ l - m \in Nat
  <2>1. c + l <= 2 * MemoryLimit /\ c + m <= 2 * MemoryLimit
    BY <1>5, <1>6, <1>7
  <2> QED
    BY <1>5, <1>6, <1>7, <2>1, MultipleFacts
<1>9. c + m + (l - m) = c + l
  BY <1>6, <1>7
<1>10. Cut(Left(n), c + m, c + l)
  <2>1. CASE l - m >= 1024
    <3>1. Left(n) = Pieces(c + m, l - m)
      BY <1>2, <1>4, <1>5, <2>1 DEF Left, MIN_BLOCK_SIZE
    <3> QED
      BY <1>8, <1>9, <3>1, PiecesCut
  <2>2. CASE ~(l - m >= 1024)
    <3>1. Left(n) = {}
      BY <1>2, <1>4, <1>5, <2>2 DEF Left, MIN_BLOCK_SIZE
    <3>2. l - m = 0
      BY <1>8, <2>2, MultipleFacts
    <3>3. c + m = c + l
      BY <1>6, <1>7, <3>2
    <3> QED
      BY <3>1, <3>3 DEF Cut
  <2> QED
    BY <2>1, <2>2
<1>11. c + l <= MemoryLimit
  BY <1>6, <1>7
<1> QED
  BY <1>2, <1>3, <1>4, <1>8, <1>10, <1>11

LEMMA UnitCount == Cardinality(Units) = NumUnits
<1>1. NumUnits \in Nat /\ Units = 0 .. NumUnits - 1
  BY Limits
<1>2. Cardinality(0 .. NumUnits - 1) = IF 0 > NumUnits - 1 THEN 0 ELSE NumUnits - 1 - 0 + 1
  BY <1>1, FS_Interval
<1> QED
  BY <1>1, <1>2

LEMMA NewObject ==
    ASSUME NEW c \in Multiples, NEW n \in Sizes, c + Actual(n) <= MemoryLimit,
           NEW o, o = [block |-> "large", start |-> c \div MIN_BLOCK_SIZE,
                       size |-> Actual(n) \div MIN_BLOCK_SIZE]
    PROVE  /\ o \in S!Places
           /\ o.start * MIN_BLOCK_SIZE = c /\ o.size * MIN_BLOCK_SIZE = Actual(n)
<1>1. PICK i \in Nat : c = 1024 * i
  BY Limits
<1>2. PICK j : j = DivAndRoundUp(n, MIN_BLOCK_SIZE)
  OBVIOUS
<1>3. Actual(n) = 1024 * j
  BY <1>2, SizeFacts, ActualFacts
<1>4. PICK k \in Nat : Actual(n) = 1024 * k /\ k # 0
  BY SizeFacts, Limits
<1>5. j = k
  <2>1. j \in Int
    BY <1>2, SizeFacts DEF DivAndRoundUp, MIN_BLOCK_SIZE
  <2> QED
    BY <1>3, <1>4, <2>1
<1>6. o.start = i /\ o.size = k /\ o.block = "large"
  BY <1>1, <1>4 DEF MIN_BLOCK_SIZE
<1>7. i + k <= NumUnits /\ NumUnits \in Nat
  BY <1>1, <1>4, Limits
<1>8. i \in 0 .. NumUnits - 1
  BY <1>4, <1>7
<1>9. o \in S!Places
  <2>1. k \in {DivAndRoundUp(x, MIN_BLOCK_SIZE) : x \in Sizes}
    BY <1>2, <1>5
  <2>2. o = [block |-> "large", start |-> i, size |-> k]
    BY <1>1, <1>4 DEF MIN_BLOCK_SIZE
  <2> QED
    BY <1>7, <1>8, <2>1, <2>2, UnitCount DEF S!Places, S!Slots
<1> QED
  BY <1>1, <1>4, <1>6, <1>9 DEF MIN_BLOCK_SIZE

\* Two chunks share no unit.
LEMMA ChunksApart ==
    ASSUME IInv, NEW a \in bits, NEW b \in bits, a # b
    PROVE  UnitsOf(a, Length[a]) \intersect UnitsOf(b, Length[b]) = {}
<1>1. ASSUME NEW x \in bits, NEW y \in bits, x < y
      PROVE  UnitsOf(x, Length[x]) \intersect UnitsOf(y, Length[y]) = {}
  <2>1. /\ x \in Multiples /\ y \in Multiples /\ Length[x] \in Multiples /\ Length[y] \in Multiples
        /\ x + Length[x] <= y
    BY <1>1, LayoutFacts DEF IInv
  <2>2. PICK i \in Nat : x = 1024 * i
    BY <2>1, Limits
  <2>3. PICK j \in Nat : y = 1024 * j
    BY <2>1, Limits
  <2>4. PICK m \in Nat : Length[x] = 1024 * m
    BY <2>1, Limits
  <2>5. PICK n \in Nat : Length[y] = 1024 * n
    BY <2>1, Limits
  <2>6. UnitsOf(x, Length[x]) = i .. i + m - 1
    BY <2>2, <2>4 DEF UnitsOf, MIN_BLOCK_SIZE
  <2>7. UnitsOf(y, Length[y]) = j .. j + n - 1
    BY <2>3, <2>5 DEF UnitsOf, MIN_BLOCK_SIZE
  <2>8. i + m <= j
    BY <2>1, <2>2, <2>3, <2>4
  <2> QED
    BY <2>6, <2>7, <2>8
<1>2. a \in Nat /\ b \in Nat
  BY LayoutFacts DEF IInv
<1> QED
  BY <1>1, <1>2

\* The units of a live object are those of its chunk.
LEMMA ObjectUnits ==
    ASSUME IInv, NEW o \in live, NEW a, a = o.start * MIN_BLOCK_SIZE
    PROVE  /\ a \in bits /\ header[a].flag = "allocated" /\ Length[a] = o.size * MIN_BLOCK_SIZE
           /\ header[a].word # NULL \/ TakenBy(a) # {}
           /\ o.start \in Nat /\ o.size \in Nat /\ o.block = "large"
           /\ o.start .. o.start + o.size - 1 = UnitsOf(a, Length[a])
<1>1. /\ a \in bits /\ header[a].flag = "allocated" /\ Length[a] = o.size * MIN_BLOCK_SIZE
      /\ header[a].word # NULL \/ TakenBy(a) # {}
  BY DEF IInv, Live
<1>2. o.start \in Nat /\ o.size \in Nat /\ o.block = "large"
  <2>1. o \in S!Places
    BY Typed DEF IInv
  <2>2. \A n \in Sizes : DivAndRoundUp(n, MIN_BLOCK_SIZE) \in Nat
    BY SizeFacts DEF DivAndRoundUp, MIN_BLOCK_SIZE
  <2> QED
    BY <2>1, <2>2, Limits, UnitCount DEF S!Places, S!Slots
<1>3. PICK s \in Nat : s = o.start
  BY <1>2
<1>4. PICK z \in Nat : z = o.size
  BY <1>2
<1>5. PICK l : l = Length[a]
  OBVIOUS
<1>6. a = s * 1024 /\ l = z * 1024
  BY <1>1, <1>3, <1>4, <1>5 DEF MIN_BLOCK_SIZE
<1>7. a \div 1024 = s /\ (a + l) \div 1024 = s + z
  BY <1>6
<1>8. UnitsOf(a, Length[a]) = s .. s + z - 1
  BY <1>5, <1>7 DEF UnitsOf, MIN_BLOCK_SIZE
<1> QED
  BY <1>1, <1>2, <1>3, <1>4, <1>8

\* Which a chunk without a live object shares with none.
LEMMA NotLive ==
    ASSUME IInv, NEW a \in bits, \A o \in live : a # o.start * MIN_BLOCK_SIZE
    PROVE  UnitsOf(a, Length[a]) \intersect LiveUnits = {}
<1>1. ASSUME NEW u \in UnitsOf(a, Length[a]), NEW o \in live, u \in o.start .. o.start + o.size - 1
      PROVE  FALSE
  <2>1. PICK b : b = o.start * MIN_BLOCK_SIZE
    OBVIOUS
  <2>2. b \in bits /\ u \in UnitsOf(b, Length[b]) /\ a # b
    BY <1>1, <2>1, ObjectUnits
  <2> QED
    BY <1>1, <2>2, ChunksApart
<1> QED
  BY <1>1 DEF LiveUnits

\* The chunk a thread is handed is in no live object.
LEMMA HandedIsFree ==
    ASSUME IInv, NEW n \in Sizes, Fitting(n) # {}
    PROVE  /\ Found(n) \in bits /\ \A o \in live : Found(n) # o.start * MIN_BLOCK_SIZE
           /\ UnitsOf(Found(n), Actual(n)) \subseteq UnitsOf(Found(n), Length[Found(n)])
           /\ UnitsOf(Found(n), Actual(n)) \intersect LiveUnits = {}
<1>1. PICK c : c = Found(n)
  OBVIOUS
<1>2. c \in bits /\ header[c].flag = "free" /\ Actual(n) <= Length[c]
  BY <1>1, FoundFacts
<1>3. \A o \in live : c # o.start * MIN_BLOCK_SIZE
  BY <1>2 DEF IInv, Live
<1>4. UnitsOf(c, Actual(n)) \subseteq UnitsOf(c, Length[c])
  <2>1. c \in Multiples /\ Length[c] \in Multiples /\ Actual(n) \in Multiples
    BY <1>2, LayoutFacts, SizeFacts DEF IInv
  <2>2. PICK i \in Nat : c = 1024 * i
    BY <2>1, Limits
  <2>3. PICK l : l = Length[c]
    OBVIOUS
  <2>4. PICK m \in Nat : l = 1024 * m
    BY <2>1, <2>3, Limits
  <2>5. PICK k : k = Actual(n)
    OBVIOUS
  <2>6. PICK j \in Nat : k = 1024 * j
    BY <2>1, <2>5, Limits
  <2>7. UnitsOf(c, k) = i .. i + j - 1 /\ UnitsOf(c, l) = i .. i + m - 1 /\ j <= m
    BY <1>2, <2>2, <2>3, <2>4, <2>5, <2>6 DEF UnitsOf, MIN_BLOCK_SIZE
  <2>8. UnitsOf(c, k) \subseteq UnitsOf(c, l)
    BY <2>7
  <2> QED
    BY <2>3, <2>5, <2>8
<1>5. UnitsOf(c, Length[c]) \intersect LiveUnits = {}
  BY <1>2, <1>3, NotLive
<1>6. UnitsOf(c, Actual(n)) \intersect LiveUnits = {}
  BY <1>4, <1>5
<1> QED
  BY <1>1, <1>2, <1>3, <1>4, <1>6

\* What GetBlock does, in terms of the chunk found and what is left of it.
LEMMA GetBlockIs ==
    ASSUME NEW t, NEW n, request'[t] = n, GetBlock(t)
    PROVE  LET inside == {a \in DOMAIN header : Found(n) < a /\ a < Found(n) + Actual(n)} IN
           /\ freeLists' = SplitOff(freeLists, Min(Fitting(n)), Left(n))
           /\ header' = Stamped(Left(n), [Restrict(header, DOMAIN header \ inside)
                           EXCEPT ![Found(n)].flag = "allocated", ![Found(n)].word = NULL])
           /\ bits' = bits \union {Found(n)} \union At(Left(n))
           /\ object' = [object EXCEPT ![t] = Found(n)]
           /\ live' = live \union {[block |-> "large", start |-> Found(n) \div MIN_BLOCK_SIZE,
                                    size |-> Actual(n) \div MIN_BLOCK_SIZE]}
           /\ overwritten' = (overwritten
                                 \/ UnitsOf(Found(n), Actual(n)) \intersect LiveUnits # {})
<1>1. PICK k, m :
         /\ k = Min(Fitting(n)) /\ m = Actual(n)
         /\ LET chunk == freeLists[k].first
                rest == header[chunk].size - m
                pieces == IF rest >= MIN_BLOCK_SIZE THEN Pieces(chunk + m, rest) ELSE {}
                inside == {a \in DOMAIN header : chunk < a /\ a < chunk + m}
            IN
            /\ freeLists' = SplitOff(freeLists, k, pieces)
            /\ header' = Stamped(pieces, [Restrict(header, DOMAIN header \ inside)
                            EXCEPT ![chunk].flag = "allocated", ![chunk].word = NULL])
            /\ bits' = bits \union {chunk} \union At(pieces)
            /\ object' = [object EXCEPT ![t] = chunk]
            /\ live' = live \union {[block |-> "large", start |-> chunk \div MIN_BLOCK_SIZE,
                                     size |-> m \div MIN_BLOCK_SIZE]}
            /\ overwritten' = (overwritten \/ UnitsOf(chunk, m) \intersect LiveUnits # {})
  BY Zenon DEF GetBlock
<1> QED
  BY <1>1, Zenon DEF Found, Left

\* A chunk is handed out and what it has too much goes back to the lists.
LEMMA GetBlockInv ==
    ASSUME IInv, NEW t \in Threads, pc[t] \in {"idle", "retry", "last"},
           NEW n \in Sizes, request' = [request EXCEPT ![t] = n], Fitting(n) # {},
           GetBlock(t), pc' = [pc EXCEPT ![t] = "got"],
           UNCHANGED <<size, bounds, seen, collections, overlapped>>
    PROVE  IInv' /\ \E o \in S!Places : /\ live' = live \union {o}
                                        /\ o.start * MIN_BLOCK_SIZE = Found(n)
                                        /\ o.size * MIN_BLOCK_SIZE = Actual(n)
<1>1. Apart /\ HeapTyped /\ Layout /\ Free /\ Live /\ Taken /\ Growth
  BY DEF IInv
<1>2. PICK c : c = Found(n)
  OBVIOUS
<1>3. PICK l : l = Length[c]
  OBVIOUS
<1>4. PICK m : m = Actual(n)
  OBVIOUS
<1>5. PICK P : P = Left(n)
  OBVIOUS
<1>6. PICK k : k = Min(Fitting(n))
  OBVIOUS
<1>7. /\ c \in bits /\ c # NULL /\ header[c].flag = "free" /\ header[c].word = NULL
      /\ TakenBy(c) = {} /\ header[c].size = l /\ m <= l /\ k \in Classes
      /\ c = freeLists[k].first
  BY <1>2, <1>3, <1>4, <1>6, FoundFacts DEF Found
<1>8. /\ c \in Multiples /\ c \in Nat /\ l \in Multiples /\ l \in Nat /\ c + l <= size
      /\ c + l \in bits \union {size} /\ c \in Addresses /\ c \in DOMAIN header
      /\ \A b \in bits : b \in Nat /\ (c < b => c + l <= b) /\ (b < c => b + Length[b] <= c)
  BY <1>1, <1>3, <1>7, LayoutFacts
<1>9. m \in Multiples \ {0} /\ m \in Nat \ {0} /\ size \in Nat /\ size \in Multiples
      /\ size <= MemoryLimit /\ MemoryLimit \in Nat
  BY <1>1, <1>4, SizeFacts, TypeFacts, LimitType
<1>10. /\ c + m \in Multiples /\ c + l \in Multiples /\ c + l <= MemoryLimit
       /\ Cut(P, c + m, c + l)
  BY <1>2, <1>3, <1>4, <1>5, LeftCut
<1>11. Fresh(P)
  BY <1>10, CutFresh
<1>12. ASSUME NEW p \in P
       PROVE  /\ p.at \in Nat /\ p.at \in Addresses /\ p.at # NULL /\ c < p.at /\ p.at \notin bits
              /\ p.at \in At(P)
  <2>1. p.at \in Nat /\ p.size \in Nat \ {0} /\ p.at \in Addresses
    BY <1>11, FreshFacts, LimitType
  <2>2. c + m <= p.at /\ p.at + p.size <= c + l
    BY <1>10 DEF Cut
  <2>3. c < p.at /\ p.at < c + l
    BY <1>8, <1>9, <2>1, <2>2
  <2>4. p.at # NULL
    BY <2>1, LargeAssumption
  <2> QED
    BY <1>8, <2>1, <2>3, <2>4, AtFacts
<1>13. ASSUME NEW a \in At(P) PROVE a \in Addresses /\ a # NULL /\ a # c /\ a \notin bits
  <2>1. PICK p \in P : a = p.at
    BY AtFacts
  <2> QED
    BY <1>8, <1>12, <2>1
<1> DEFINE inside == {a \in DOMAIN header : c < a /\ a < c + m}
           kept == [Restrict(header, DOMAIN header \ inside)
                      EXCEPT ![c].flag = "allocated", ![c].word = NULL]
<1>14. request'[t] = n
  BY <1>1, Typed
<1>15. /\ freeLists' = SplitOff(freeLists, k, P)
       /\ header' = Stamped(P, kept) /\ bits' = bits \union {c} \union At(P)
       /\ object' = [object EXCEPT ![t] = c]
       /\ live' = live \union {[block |-> "large", start |-> c \div MIN_BLOCK_SIZE,
                                size |-> m \div MIN_BLOCK_SIZE]}
  BY <1>2, <1>4, <1>5, <1>6, <1>14, GetBlockIs, Zenon
<1>16. PICK r : r = [header[c] EXCEPT !.flag = "allocated", !.word = NULL]
  OBVIOUS
<1>17. IsHeader(header) /\ header[c] \in Chunks
  BY <1>1, <1>8, Typed DEF IsHeader
<1>18. r \in Chunks /\ r.size = l /\ r.flag = "allocated" /\ r.word = NULL
  BY <1>7, <1>16, <1>17 DEF Chunks
<1>19. c \notin inside
  BY <1>8
<1>20. kept = [a \in DOMAIN header \ inside |-> IF a = c THEN r ELSE header[a]]
  <2> HIDE DEF inside
  <2> QED
    BY <1>8, <1>16, <1>19 DEF Restrict
<1>21. \A a \in bits : a \in DOMAIN header \ inside
  BY <1>1, <1>7, <1>8, <1>9, LayoutFacts
<1> HIDE DEF inside, kept
<1>22. IsHeader(kept) /\ DOMAIN kept = DOMAIN header \ inside
  BY <1>17, <1>18, <1>20 DEF IsHeader
<1>23. /\ DOMAIN header' = At(P) \union DOMAIN kept /\ IsHeader(header')
       /\ \A p \in P : /\ header'[p.at].size = p.size
                       /\ header'[p.at].flag = "free"
                       /\ header'[p.at].word = NULL
       /\ \A a \in DOMAIN kept \ At(P) : header'[a] = kept[a]
  <2>1. IsStamped(header', P, kept)
    BY <1>11, <1>15, <1>22, StampedChunks
  <2> QED
    BY <2>1 DEF IsStamped
<1>24. header'[c] = r /\ \A a \in bits : a # c => header'[a] = header[a]
  BY <1>7, <1>13, <1>20, <1>21, <1>22, <1>23
<1>25. PICK L : L = RemovedFirst(freeLists, k)
  OBVIOUS
<1>26. L \in Lists /\ L[k].first = NULL /\ \A j \in Classes : j # k => L[j] = freeLists[j]
  <2>1. PICK e : e = [first |-> header[freeLists[k].first].word,
                      last |-> IF freeLists[k].first = freeLists[k].last THEN NULL
                               ELSE freeLists[k].last]
    OBVIOUS
  <2>2. freeLists \in Lists
    BY <1>1, Typed
  <2>3. e.first = NULL /\ e \in [first : Addresses \union {NULL}, last : Addresses \union {NULL}]
    BY <1>7, <2>1, <2>2 DEF Lists
  <2>4. L = [freeLists EXCEPT ![k] = e]
    BY <1>25, <2>1 DEF RemovedFirst
  <2> QED
    BY <1>7, <2>2, <2>3, <2>4 DEF Lists
<1>27. IsAdded(freeLists', P, L)
  BY <1>11, <1>15, <1>25, <1>26, AddedChunks DEF SplitOff
<1>28. /\ object'[t] = c /\ pc'[t] = "got" /\ object[t] = NULL
       /\ \A u \in Threads : u # t => object'[u] = object[u] /\ pc'[u] = pc[u]
                                       /\ request'[u] = request[u]
       /\ \A u \in Threads : object[u] # NULL => object[u] \in bits /\ object[u] # c
  <2>1. object[t] = NULL
    BY <1>1 DEF Taken
  <2>2. \A u \in Threads : object[u] # NULL => object[u] \in bits /\ object[u] # c
    BY <1>1, <1>7 DEF Taken, TakenBy
  <2>3. object'[t] = c /\ pc'[t] = "got"
    BY <1>1, <1>15, Typed
  <2> QED
    BY <1>1, <1>15, <2>1, <2>2, <2>3, Typed
<1>29. /\ TakenBy(c)' = {t}
       /\ \A a \in bits : a # c => TakenBy(a)' = TakenBy(a) /\ t \notin TakenBy(a)
       /\ \A p \in P : TakenBy(p.at)' = {}
  <2>1. TakenBy(c)' = {t}
    BY <1>7, <1>28 DEF TakenBy
  <2>2. ASSUME NEW a \in bits, a # c PROVE TakenBy(a)' = TakenBy(a) /\ t \notin TakenBy(a)
    BY <1>1, <1>28, <2>2, NullFacts DEF TakenBy
  <2>3. ASSUME NEW p \in P PROVE TakenBy(p.at)' = {}
    <3>1. p.at # NULL /\ p.at \notin bits
      BY <1>12
    <3>2. \A u \in Threads : object'[u] # p.at
      BY <1>7, <1>28, <3>1
    <3>3. PICK a : a = p.at
      OBVIOUS
    <3>4. TakenBy(a)' = {}
      BY <3>2, <3>3 DEF TakenBy
    <3> QED
      BY <3>3, <3>4
  <2> QED
    BY <2>1, <2>2, <2>3
<1>30. bits' = bits \union At(P)
  BY <1>7, <1>15
<1>31. /\ Length'[c] = m
       /\ \A a \in bits : a # c => Length'[a] = Length[a]
       /\ \A p \in P : Length'[p.at] = p.size
  <2>1. Length'[c] = m
    <3>1. Length'[c] = Actual(request'[CHOOSE u \in TakenBy(c)' : TRUE])
      BY <1>7, <1>29, <1>30 DEF Length
    <3>2. (CHOOSE u \in {t} : TRUE) = t
      OBVIOUS
    <3>3. (CHOOSE u \in TakenBy(c)' : TRUE) = t
      BY <1>29, <3>2
    <3> QED
      BY <1>4, <1>14, <3>1, <3>3
  <2>2. ASSUME NEW a \in bits, a # c PROVE Length'[a] = Length[a]
    <3>1. a \in bits' /\ header'[a] = header[a] /\ TakenBy(a)' = TakenBy(a)
      BY <1>24, <1>29, <1>30, <2>2
    <3>2. \A u \in TakenBy(a) : request'[u] = request[u]
      BY <1>28, <1>29, <2>2 DEF TakenBy
    <3> QED
      BY <3>1, <3>2, SameLength
  <2>3. ASSUME NEW p \in P PROVE Length'[p.at] = p.size
    <3>1. p.at \in bits'
      BY <1>12, <1>30
    <3>2. Length'[p.at] = Actual(header'[p.at].size)
      BY <1>29, <3>1 DEF Length, ChunkSize
    <3> QED
      BY <1>11, <1>23, <3>2, FreshFacts
  <2> QED
    BY <2>1, <2>2, <2>3
<1>32. Layout'
  <2> DEFINE F == [a \in bits |-> IF a = c THEN {c} \union At(P) ELSE {a}]
  <2>1. ASSUME NEW a \in bits PROVE Tiles(F[a], Length', a, a + Length[a])
    <3>1. CASE a = c
      <4>1. Tiles({c}, Length', c, c + m)
        BY <1>8, <1>9, <1>31, OneTile
      <4>2. Tiles(At(P), Length', c + m, c + l)
        BY <1>10, <1>31, TilesOf
      <4>3. c <= c + m /\ c + m <= c + l /\ c + m \in Nat /\ c + l \in Nat
        BY <1>7, <1>8, <1>9
      <4>4. Tiles({c} \union At(P), Length', c, c + l)
        BY <1>8, <4>1, <4>2, <4>3, AppendTiles
      <4> QED
        BY <1>3, <1>7, <3>1, <4>4
    <3>2. CASE a # c
      <4>1. a \in Multiples /\ Length[a] \in Multiples \ {0}
        BY <1>1, LayoutFacts
      <4>2. Tiles({a}, Length', a, a + Length[a])
        BY <1>31, <3>2, <4>1, OneTile
      <4> QED
        BY <3>2, <4>2
    <3> QED
      BY <3>1, <3>2
  <2>2. AllOf(F, bits) = bits'
    BY <1>7, <1>30 DEF AllOf
  <2>3. Tiles(bits, Length, 0, size)
    BY <1>1 DEF Layout
  <2> HIDE DEF F
  <2>4. Tiles(AllOf(F, bits), Length', 0, size)
    BY <1>9, <2>1, <2>3, RefineTiles DEF Refines
  <2>5. Tiles(bits', Length', 0, size')
    BY <2>2, <2>4
  <2>6. bits' \subseteq DOMAIN header'
    BY <1>13, <1>21, <1>22, <1>23, <1>30
  <2> QED
    BY <2>5, <2>6 DEF Layout
<1>33. Free'
  <2>1. ASSUME NEW a \in bits', header'[a].flag = "free" PROVE header'[a].word = NULL
    <3>1. CASE a \in bits
      <4>1. a # c
        BY <1>18, <1>24, <2>1
      <4> QED
        BY <1>1, <1>24, <2>1, <3>1, <4>1 DEF Free
    <3>2. CASE a \in At(P)
      BY <1>23, <3>2, AtFacts
    <3> QED
      BY <1>30, <3>1, <3>2
  <2>2. ASSUME NEW j \in Classes, NEW a, a = freeLists'[j].first, a # NULL
        PROVE  /\ a \in bits' /\ header'[a].flag = "free"
               /\ header'[a].size = PowerOfTwo(j + LARGE_OBJECT_MIN_SIZE_BITS)
    <3>1. CASE a = L[j].first
      <4>1. j # k /\ a = freeLists[j].first
        BY <1>26, <2>2, <3>1
      <4>2. /\ a \in bits /\ header[a].flag = "free"
            /\ header[a].size = PowerOfTwo(j + LARGE_OBJECT_MIN_SIZE_BITS)
            /\ sizeToLinkedListIndex(header[a].size) = j
        BY <1>1, <2>2, <4>1, ListFacts
      <4>3. sizeToLinkedListIndex(header[c].size) = k
        BY <1>1, <1>7, ListFacts
      <4>4. a # c
        BY <4>1, <4>2, <4>3
      <4> QED
        BY <1>24, <1>30, <4>2, <4>4
    <3>2. CASE \E p \in P : a = p.at /\ p.size = PowerOfTwo(j + LARGE_OBJECT_MIN_SIZE_BITS)
      BY <1>12, <1>23, <1>30, <3>2
    <3> QED
      BY <1>27, <2>2, <3>1, <3>2 DEF IsAdded
  <2> QED
    BY <2>1, <2>2 DEF Free
<1>34. PICK new : new = [block |-> "large", start |-> c \div MIN_BLOCK_SIZE,
                         size |-> m \div MIN_BLOCK_SIZE]
  OBVIOUS
<1>35. /\ live' = live \union {new} /\ new \in S!Places
       /\ new.start * MIN_BLOCK_SIZE = c /\ new.size * MIN_BLOCK_SIZE = m
  <2>1. c + m <= MemoryLimit
    BY <1>7, <1>8, <1>9, <1>10
  <2> QED
    BY <1>4, <1>8, <1>15, <1>34, <2>1, NewObject
<1>36. Live'
  <2>1. ASSUME NEW o \in live', NEW a, a = o.start * MIN_BLOCK_SIZE
        PROVE  /\ a \in bits' /\ header'[a].flag = "allocated"
               /\ Length'[a] = o.size * MIN_BLOCK_SIZE
               /\ header'[a].word # NULL \/ TakenBy(a)' # {}
    <3>1. CASE o \in live
      <4>1. a \in bits /\ header[a].flag = "allocated" /\ Length[a] = o.size * MIN_BLOCK_SIZE
            /\ (header[a].word # NULL \/ TakenBy(a) # {})
        BY <1>1, <2>1, <3>1 DEF Live
      <4>2. a # c
        BY <1>7, <4>1
      <4> QED
        BY <1>24, <1>29, <1>30, <1>31, <4>1, <4>2
    <3>2. CASE o = new
      <4>1. a = c
        BY <1>35, <2>1, <3>2
      <4> QED
        BY <1>7, <1>18, <1>24, <1>29, <1>30, <1>31, <1>35, <3>2, <4>1
    <3> QED
      BY <1>35, <3>1, <3>2
  <2> QED
    BY <2>1 DEF Live
<1>37. Taken'
  <2>1. ASSUME NEW u \in Threads, object'[u] # NULL
        PROVE  /\ pc'[u] \in {"got", "exited"} /\ request'[u] \in Sizes
               /\ object'[u] \in bits' /\ header'[object'[u]].flag = "allocated"
               /\ \A v \in Threads : object'[v] = object'[u] => v = u
    <3>1. CASE u = t
      BY <1>7, <1>14, <1>18, <1>24, <1>28, <1>30, <3>1
    <3>2. CASE u # t
      <4>1. PICK d : d = object[u]
        OBVIOUS
      <4>2. object'[u] = d /\ d # NULL /\ d # c /\ pc'[u] = pc[u] /\ request'[u] = request[u]
        BY <1>28, <2>1, <3>2, <4>1
      <4>3. pc[u] \in {"got", "exited"} /\ request[u] \in Sizes /\ d \in bits
            /\ header[d].flag = "allocated" /\ TakenBy(d) = {u}
        BY <1>1, <4>1, <4>2 DEF Taken
      <4>4. \A v \in Threads : object'[v] = d => v = u
        BY <1>28, <4>2, <4>3 DEF TakenBy
      <4> QED
        BY <1>24, <1>30, <4>2, <4>3, <4>4
    <3> QED
      BY <3>1, <3>2
  <2>2. ASSUME NEW u \in Threads
        PROVE  /\ pc'[u] \notin {"idle", "exited"} => request'[u] \in Sizes
               /\ pc'[u] = "got" => object'[u] # NULL
    BY <1>1, <1>7, <1>14, <1>28 DEF Taken
  <2> QED
    BY <2>1, <2>2, TakenIs
<1>38. UNCHANGED <<size, largeHeapEnd, largeHeapSize, seen, collections, overlapped>>
  BY DEF bounds
<1>39. Growth'
  <2>1. \A u \in Threads : pc'[u] = "last" \/ pc'[u] = "crashed" => u \in robbed'
    BY <1>1, <1>28 DEF GetBlock, Growth
  <2>2. seen[t] = NULL /\ \A u \in Threads : pc[u] # "exited"
    BY <1>1 DEF Growth, Growing
  <2> QED
    BY <1>1, <1>28, <1>38, <2>1, <2>2 DEF Growth, Growing
<1>42. Apart'
  <2>1. UnitsOf(c, m) \intersect LiveUnits = {}
    BY <1>2, <1>4, HandedIsFree
  <2>2. overwritten' = (overwritten \/ UnitsOf(c, m) \intersect LiveUnits # {})
    BY <1>2, <1>4, <1>14, GetBlockIs, Zenon
  <2> QED
    BY <1>1, <1>38, <2>1, <2>2 DEF Apart
<1>40. HeapTyped'
  <2>1. bits' \subseteq Addresses
    BY <1>1, <1>13, <1>30, TypeFacts
  <2>2. request' \in [Threads -> Sizes \union {0}] /\ object' \in [Threads -> Addresses \union {NULL}]
        /\ pc' \in [Threads -> PCs]
    BY <1>1, <1>8, <1>15, Typed DEF PCs
  <2>3. live' \subseteq S!Places
    BY <1>1, <1>35, Typed
  <2>4. robbed' \subseteq Threads
    BY <1>1, Typed DEF GetBlock
  <2> QED
    BY <1>1, <1>23, <1>27, <1>38, <1>42, <2>1, <2>2, <2>3, <2>4, Typed, TypeFacts, TypeIs
       DEF IsAdded, Apart
<1>41. IInv'
  BY <1>42, <1>32, <1>33, <1>36, <1>37, <1>39, <1>40 DEF IInv
<1> QED
  BY <1>2, <1>4, <1>35, <1>41

-----------------------------------------------------------------------------
(* Chunks behind the old end of the heap.                                    *)

LEMMA RoundedUp ==
    ASSUME NEW v \in Nat, NEW d \in Nat \ {0}
    PROVE  v <= RoundToNextMultiple(v, d)
<1>1. PICK q : q = (v + d - 1) \div d
  OBVIOUS
<1>2. PICK r : r = (v + d - 1) % d
  OBVIOUS
<1>3. q \in Int /\ r \in 0 .. d - 1 /\ v + d - 1 = d * q + r
  BY <1>1, <1>2
<1>4. v <= d * q
  BY <1>3
<1>5. d * q = q * d
  BY <1>3
<1> QED
  BY <1>1, <1>3, <1>4, <1>5 DEF RoundToNextMultiple, DivAndRoundUp

\* Bitmap_Grow loses no bit of a chunk.
LEMMA AllBitsKept ==
    ASSUME HeapTyped, Layout
    PROVE  BitsKept(size \div MIN_BLOCK_SIZE) = bits
<1>1. PICK j \in Nat : size = 1024 * j
  BY TypeFacts, Limits
<1>2. j <= RoundToNextMultiple(j, BITS_PER_BITMAP_WORD)
      /\ RoundToNextMultiple(j, BITS_PER_BITMAP_WORD) \in Int
  <2>1. BITS_PER_BITMAP_WORD \in Nat \ {0}
    BY LargeAssumption
  <2>2. (j + BITS_PER_BITMAP_WORD - 1) \div BITS_PER_BITMAP_WORD \in Int
    BY <2>1
  <2>3. RoundToNextMultiple(j, BITS_PER_BITMAP_WORD) \in Int
    BY <2>1, <2>2 DEF RoundToNextMultiple, DivAndRoundUp
  <2> QED
    BY <2>1, <2>3, RoundedUp
<1>3. ASSUME NEW a \in bits PROVE a \div 1024 < j
  <2>1. a \in Multiples /\ a < size
    BY LayoutFacts, TypeFacts
  <2>2. PICK i \in Nat : a = 1024 * i
    BY <2>1, Limits
  <2> QED
    BY <1>1, <2>1, <2>2
<1>4. \A a \in bits : a \div 1024 \in Int
  <2>1. \A a \in bits : a \in Nat
    BY LayoutFacts
  <2> QED
    BY <2>1
<1>5. size \div 1024 = j
  BY <1>1
<1> QED
  BY <1>2, <1>3, <1>4, <1>5 DEF BitsKept, MIN_BLOCK_SIZE

LEMMA GrowInv ==
    ASSUME IInv, NEW t \in Threads, Grow(t)
    PROVE  IInv'
<1>1. Apart /\ HeapTyped /\ Layout /\ Free /\ Live /\ Taken /\ Growth
  BY DEF IInv
<1>2. PICK n : n = request[t]
  OBVIOUS
<1>3. PICK i : i = Increment(n)
  OBVIOUS
<1>4. pc[t] = "register" /\ pc' = [pc EXCEPT ![t] = "last"]
  BY DEF Grow
<1>5. /\ seen[t] = [end |-> size, size |-> size] /\ size + i <= MemoryLimit /\ n \in Sizes
      /\ largeHeapEnd = size + i /\ largeHeapSize = size + i
      /\ \A u \in Threads : u # t => pc[u] \notin Growing
      /\ \A u \in Threads : pc[u] # "exited"
  BY <1>1, <1>2, <1>3, <1>4 DEF Growth, Growing, Taken
<1>6. PICK P : P = Pieces(size, i)
  OBVIOUS
<1>7. /\ size' = size + i /\ freeLists' = AddedLast(freeLists, P) /\ header' = Stamped(P, header)
      /\ bits' = bits \union At(P) /\ seen' = [seen EXCEPT ![t] = NULL]
      /\ UNCHANGED <<largeHeapEnd, largeHeapSize, live, request, object, collections>>
      /\ UNCHANGED <<overlapped, overwritten>> /\ robbed' = robbed \ {t}
  BY <1>1, <1>2, <1>3, <1>5, <1>6, AllBitsKept DEF Grow, bounds
<1>8. /\ size \in Multiples /\ size \in Nat /\ i \in Multiples \ {0} /\ i \in Nat \ {0}
      /\ size + i \in Multiples /\ size + i \in Nat /\ IsChunkSize(i) /\ Largest(i) = i
      /\ Required(n) - LARGE_OBJECT_MIN_SIZE_BITS <= sizeToLinkedListIndex(i)
  <2>1. size \in Multiples /\ size \in Nat /\ i \in Nat \ {0} /\ MemoryLimit \in Nat
    BY <1>1, <1>3, <1>5, TypeFacts, IncrementFacts, LimitType
  <2>2. i <= MemoryLimit /\ size + i <= 2 * MemoryLimit
    BY <1>5, <2>1
  <2>3. /\ IsChunkSize(i) /\ Largest(i) = i
        /\ Required(n) - LARGE_OBJECT_MIN_SIZE_BITS <= sizeToLinkedListIndex(i)
    BY <1>3, <1>5, <2>2, IncrementFacts
  <2>4. i \in Multiples \ {0}
    BY <2>3 DEF IsChunkSize
  <2>5. size + i \in Multiples
    BY <2>1, <2>2, <2>4, MultipleFacts
  <2> QED
    BY <2>1, <2>3, <2>4, <2>5
<1>9. Cut(P, size, size + i) /\ \E p \in P : p.size = i
  <2>1. Cut(P, size, size + i)
    BY <1>6, <1>8, PiecesCut
  <2>2. [at |-> size, size |-> Largest(i)] \in P
    BY <1>6, <1>8, PiecesCut
  <2> QED
    BY <1>8, <2>1, <2>2
<1>10. Fresh(P)
  BY <1>5, <1>8, <1>9, CutFresh
<1>11. ASSUME NEW p \in P
       PROVE  /\ p.at \in Nat /\ p.at \in Addresses /\ p.at # NULL /\ p.at \notin bits
              /\ p.at \in At(P)
  <2>1. p.at \in Nat /\ p.at \in Addresses
    BY <1>10, FreshFacts
  <2>2. size <= p.at
    BY <1>9 DEF Cut
  <2>3. \A a \in bits : a < size /\ a \in Nat
    BY <1>1, <1>8, LayoutFacts
  <2>4. p.at \notin bits
    BY <1>8, <2>1, <2>2, <2>3
  <2>5. p.at # NULL
    BY <2>1, LargeAssumption
  <2> QED
    BY <2>1, <2>4, <2>5, AtFacts
<1>12. ASSUME NEW a \in At(P) PROVE a \in Addresses /\ a \notin bits
  <2>1. PICK p \in P : a = p.at
    BY AtFacts
  <2> QED
    BY <1>11, <2>1
<1>13. /\ DOMAIN header' = At(P) \union DOMAIN header /\ IsHeader(header')
       /\ \A p \in P : header'[p.at].size = p.size /\ header'[p.at].flag = "free"
                       /\ header'[p.at].word = NULL
       /\ \A a \in bits : header'[a] = header[a]
  <2>1. IsStamped(header', P, header)
    BY <1>1, <1>7, <1>10, Typed, StampedChunks
  <2>2. \A a \in bits : a \in DOMAIN header \ At(P)
    BY <1>1, <1>12, LayoutFacts
  <2> QED
    BY <2>1, <2>2 DEF IsStamped
<1>14. IsAdded(freeLists', P, freeLists)
  BY <1>1, <1>7, <1>10, Typed, AddedChunks
<1>15. \A a : TakenBy(a)' = TakenBy(a)
  BY <1>7 DEF TakenBy
<1>16. \A a \in bits : Length'[a] = Length[a]
  BY <1>7, <1>13, <1>15, SameLength
<1>17. ASSUME NEW p \in P PROVE Length'[p.at] = p.size
  <2>1. PICK a : a = p.at
    OBVIOUS
  <2>2. \A u \in Threads : object[u] # a
    BY <1>1, <1>11, <2>1, LengthFacts
  <2>3. TakenBy(a)' = {}
    BY <1>15, <2>2 DEF TakenBy
  <2>4. a \in bits'
    BY <1>7, <1>11, <2>1
  <2>5. Length'[a] = Actual(header'[a].size)
    BY <2>3, <2>4 DEF Length, ChunkSize
  <2> QED
    BY <1>10, <1>13, <2>1, <2>5, FreshFacts
<1>18. Layout'
  <2>1. Tiles(bits, Length, 0, size) /\ bits \subseteq DOMAIN header
    BY <1>1 DEF Layout
  <2>2. Tiles(bits, Length', 0, size)
    BY <1>16, <2>1 DEF Tiles
  <2>3. Tiles(At(P), Length', size, size + i)
    BY <1>8, <1>9, <1>17, TilesOf
  <2>4. Tiles(bits \union At(P), Length', 0, size + i)
    <3>1. 0 <= size /\ size <= size + i
      BY <1>8
    <3> QED
      BY <1>8, <2>2, <2>3, <3>1, AppendTiles
  <2> QED
    BY <1>7, <1>13, <2>1, <2>4 DEF Layout
<1>19. Free'
  <2>1. ASSUME NEW a \in bits', header'[a].flag = "free" PROVE header'[a].word = NULL
    <3>1. CASE a \in bits
      BY <1>1, <1>13, <2>1, <3>1 DEF Free
    <3>2. CASE a \in At(P)
      BY <1>13, <3>2, AtFacts
    <3> QED
      BY <1>7, <3>1, <3>2
  <2>2. ASSUME NEW j \in Classes, NEW a, a = freeLists'[j].first, a # NULL
        PROVE  /\ a \in bits' /\ header'[a].flag = "free"
               /\ header'[a].size = PowerOfTwo(j + LARGE_OBJECT_MIN_SIZE_BITS)
    <3>1. CASE a = freeLists[j].first
      BY <1>1, <1>7, <1>13, <2>2, <3>1 DEF Free
    <3>2. CASE \E p \in P : a = p.at /\ p.size = PowerOfTwo(j + LARGE_OBJECT_MIN_SIZE_BITS)
      BY <1>7, <1>11, <1>13, <3>2
    <3> QED
      BY <1>14, <2>2, <3>1, <3>2 DEF IsAdded
  <2> QED
    BY <2>1, <2>2 DEF Free
<1>20. Live'
  <2>1. ASSUME NEW o \in live, NEW a, a = o.start * MIN_BLOCK_SIZE
        PROVE  /\ a \in bits' /\ header'[a].flag = "allocated"
               /\ Length'[a] = o.size * MIN_BLOCK_SIZE
               /\ header'[a].word # NULL \/ TakenBy(a)' # {}
    <3>1. a \in bits /\ header[a].flag = "allocated" /\ Length[a] = o.size * MIN_BLOCK_SIZE
          /\ (header[a].word # NULL \/ TakenBy(a) # {})
      BY <1>1, <2>1 DEF Live
    <3> QED
      BY <1>7, <1>13, <1>15, <1>16, <3>1
  <2> QED
    BY <1>7, <2>1 DEF Live
<1>21. \A u \in Threads : u # t => pc'[u] = pc[u] /\ seen'[u] = seen[u]
  BY <1>1, <1>4, <1>7, Typed
<1>22. pc'[t] = "last" /\ seen'[t] = NULL
  BY <1>1, <1>4, <1>7, Typed
<1>23. Taken'
  <2>1. ASSUME NEW u \in Threads, object'[u] # NULL
        PROVE  /\ pc'[u] \in {"got", "exited"} /\ request'[u] \in Sizes
               /\ object'[u] \in bits' /\ header'[object'[u]].flag = "allocated"
               /\ \A v \in Threads : object'[v] = object'[u] => v = u
    <3>1. PICK d : d = object[u]
      OBVIOUS
    <3>2. d # NULL /\ object'[u] = d
      BY <1>7, <2>1, <3>1
    <3>3. pc[u] \in {"got", "exited"} /\ request[u] \in Sizes /\ d \in bits
          /\ header[d].flag = "allocated" /\ TakenBy(d) = {u}
      BY <1>1, <3>1, <3>2 DEF Taken
    <3>4. \A v \in Threads : object'[v] = d => v = u
      BY <1>7, <3>3 DEF TakenBy
    <3>5. u # t
      BY <1>4, <3>3
    <3> QED
      BY <1>7, <1>13, <1>21, <3>2, <3>3, <3>4, <3>5
  <2>2. ASSUME NEW u \in Threads
        PROVE  /\ pc'[u] \notin {"idle", "exited"} => request'[u] \in Sizes
               /\ pc'[u] = "got" => object'[u] # NULL
    BY <1>1, <1>2, <1>5, <1>7, <1>21, <1>22 DEF Taken
  <2> QED
    BY <2>1, <2>2, TakenIs
<1>24. Fitting(n)' # {}
  <2>1. PICK p \in P : p.size = i
    BY <1>9
  <2>2. PICK k : k = sizeToLinkedListIndex(i)
    OBVIOUS
  <2>3. freeLists'[k].first # NULL
    BY <1>14, <2>1, <2>2 DEF IsAdded
  <2>4. PICK r : r = Required(n) - LARGE_OBJECT_MIN_SIZE_BITS
    OBVIOUS
  <2>5. k \in 0 .. 21 /\ r \in 0 .. 21 /\ r <= k
    BY <1>5, <1>8, <2>2, <2>4, FitFacts DEF IsChunkSize, Classes
  <2>6. Fitting(n)' = {x \in Classes : x >= r /\ freeLists'[x].first # NULL}
    BY <2>4 DEF Fitting
  <2> QED
    BY <2>3, <2>5, <2>6 DEF Classes
<1>25. Growth'
  <2>1. \A u \in Threads : u # t => seen[u] = NULL
    BY <1>1, <1>5 DEF Growth
  <2>2. ASSUME NEW u \in Threads, u # t, pc'[u] = "last", u \notin robbed'
        PROVE  Fitting(request[u])' # {}
    <3>1. PICK r : r = request[u]
      OBVIOUS
    <3>2. request'[u] = r /\ pc[u] = "last" /\ u \notin robbed
      BY <1>7, <1>21, <2>2, <3>1
    <3>3. Fitting(r) # {}
      BY <1>1, <3>1, <3>2 DEF Growth
    <3>4. PICK k \in Fitting(r) : TRUE
      BY <3>3
    <3>5. r \in Sizes
      BY <1>1, <3>1, <3>2 DEF Taken
    <3>6. k \in Classes /\ freeLists[k].first # NULL
      <4>1. PICK q : q = Required(r) - LARGE_OBJECT_MIN_SIZE_BITS
        OBVIOUS
      <4>2. q \in 0 .. 21 /\ Fitting(r) = {x \in q .. 21 : freeLists[x].first # NULL}
        BY <3>5, <4>1, FitFacts, FittingIs DEF Classes
      <4> QED
        BY <3>4, <4>2 DEF Classes
    <3>7. freeLists'[k].first # NULL
      BY <1>14, <3>6 DEF IsAdded
    <3>8. k \in Fitting(r)'
      BY <3>4, <3>7 DEF Fitting
    <3> QED
      BY <3>2, <3>8
  <2> QED
    BY <1>1, <1>2, <1>5, <1>7, <1>21, <1>22, <1>24, <2>1, <2>2 DEF Growth, Growing
<1>27. Apart' /\ robbed' \subseteq Threads /\ overwritten' \in BOOLEAN
  BY <1>1, <1>7, Typed DEF Apart
<1>26. HeapTyped'
  <2>1. bits' \subseteq Addresses
    BY <1>1, <1>7, <1>12, TypeFacts
  <2>2. pc' \in [Threads -> PCs] /\ seen' \in [Threads -> Sightings]
    BY <1>1, <1>4, <1>7, Typed DEF PCs, Sightings
  <2>3. size' \in Multiples /\ size' <= MemoryLimit
    BY <1>5, <1>7, <1>8
  <2> QED
    BY <1>1, <1>7, <1>13, <1>14, <2>1, <2>2, <2>3, <1>27, Typed, TypeFacts, TypeIs DEF IsAdded
<1> QED
  BY <1>18, <1>19, <1>20, <1>23, <1>25, <1>26, <1>27 DEF IInv

-----------------------------------------------------------------------------
(* Sweeping.                                                                 *)

\* A run ends where the next live chunk begins, or the heap ends.
LEMMA RunFacts ==
    ASSUME HeapTyped, Layout, Chain = bits, NEW dead \in SUBSET bits, NEW a \in dead
    PROVE  /\ RunEnd(dead, a) \in bits \union {size} /\ RunEnd(dead, a) \notin dead
           /\ RunEnd(dead, a) \in Multiples /\ RunEnd(dead, a) \in Nat /\ a < RunEnd(dead, a)
           /\ RunEnd(dead, a) <= size
           /\ \A b \in bits \union {size} : a < b /\ b \notin dead => RunEnd(dead, a) <= b
<1> DEFINE T == {b \in Chain \union {size} : b > a /\ b \notin dead}
<1>1. size \in Nat /\ size \in Multiples /\ a \in bits
  BY TypeFacts
<1>2. \A b \in bits : b \in Nat /\ b \in Multiples /\ b < size
  <2>1. ASSUME NEW b \in bits PROVE b \in Nat /\ b \in Multiples /\ b < size
    <3>1. b \in Nat /\ b \in Multiples /\ Length[b] \in Nat \ {0} /\ b + Length[b] <= size
      BY LayoutFacts
    <3> QED
      BY <1>1, <3>1
  <2> QED
    BY <2>1
<1>3. T \in SUBSET Nat /\ size \in T
  BY <1>1, <1>2
<1>4. RunEnd(dead, a) = Min(T)
  BY DEF RunEnd
<1>5. Min(T) \in T /\ \A b \in T : Min(T) <= b
  <2> HIDE DEF T
  <2> QED
    BY <1>3, MinFacts
<1>6. PICK e : e = Min(T)
  OBVIOUS
<1>7. e \in bits \union {size} /\ e > a /\ e \notin dead
  BY <1>5, <1>6
<1>8. \A b \in bits \union {size} : a < b /\ b \notin dead => e <= b
  BY <1>5, <1>6
<1>9. e \in Multiples /\ e \in Nat /\ e <= size
  BY <1>1, <1>2, <1>7
<1> QED
  BY <1>1, <1>2, <1>4, <1>6, <1>7, <1>8, <1>9

RunLength(dead) ==
    [a \in bits |-> IF a \in Heads(dead) THEN RunEnd(dead, a) - a ELSE Length[a]]

\* Live chunks and runs of dead ones tile the heap.
LEMMA RunsTile ==
    ASSUME HeapTyped, Layout, Chain = bits, NEW dead \in SUBSET bits
    PROVE  Tiles(BitsSwept(dead), RunLength(dead), 0, size)
<1> DEFINE e(a) == RunEnd(dead, a)
           H == Heads(dead)
           K == BitsSwept(dead)
           len == RunLength(dead)
<1>1. ASSUME NEW a \in dead
      PROVE  /\ e(a) \in bits \union {size} /\ e(a) \notin dead
             /\ e(a) \in Multiples /\ e(a) \in Nat /\ a < e(a) /\ e(a) <= size
             /\ \A b \in bits \union {size} : a < b /\ b \notin dead => e(a) <= b
  BY RunFacts
<1>2. \A a : a \in H <=> a \in dead /\ \A b \in dead : e(b) # e(a) \/ a <= b
  BY DEF Heads
<1>3. \A a : a \in K <=> a \in bits /\ (a \notin dead \/ a \in H)
  BY <1>2 DEF BitsSwept
<1>4. ASSUME NEW a \in bits
      PROVE  /\ a \in Nat /\ a \in Multiples /\ a < size
             /\ Length[a] \in Multiples \ {0} /\ Length[a] \in Nat \ {0}
             /\ a + Length[a] \in bits \union {size}
             /\ \A b \in bits : b \in Nat /\ (a < b => a + Length[a] <= b)
  BY LayoutFacts, TypeFacts
<1>5. /\ \A a \in bits : a \in H => len[a] = e(a) - a
      /\ \A a \in bits : a \notin H => len[a] = Length[a]
  BY DEF RunLength
<1>6. size \in Nat /\ 0 \in bits \union {size}
  BY TypeFacts DEF Layout, Tiles
<1> HIDE DEF e, H, K, len
<1>7. 0 \in K \union {size}
  <2>1. CASE 0 \in dead
    BY <1>2, <1>3, <1>4, <2>1
  <2>2. CASE 0 \notin dead
    BY <1>3, <1>6, <2>2
  <2> QED
    BY <2>1, <2>2
<1>8. ASSUME NEW a \in K, a \in H
      PROVE  /\ len[a] \in Multiples \ {0} /\ a + len[a] \in K \union {size}
             /\ \A b \in K : a < b => a + len[a] <= b
  <2>1. /\ a \in dead /\ a \in bits /\ a \in Nat /\ a \in Multiples
        /\ e(a) \in Nat /\ e(a) \in Multiples /\ a < e(a)
        /\ e(a) \in bits \union {size} /\ e(a) \notin dead
    BY <1>1, <1>2, <1>4, <1>8
  <2>2. len[a] = e(a) - a /\ a + len[a] = e(a) /\ len[a] \in Multiples \ {0}
    <3>1. PICK x : x = e(a)
      OBVIOUS
    <3>2. len[a] = x - a
      BY <1>5, <1>8, <2>1, <3>1
    <3>3. x \in Nat /\ x \in Multiples /\ a \in Nat /\ a \in Multiples /\ a < x
      BY <2>1, <3>1
    <3>4. a <= x /\ x - a # 0 /\ a + (x - a) = x
      BY <3>3
    <3>5. x - a \in Multiples
      BY <3>3, <3>4, MultipleFacts
    <3> QED
      BY <3>1, <3>2, <3>4, <3>5
  <2>3. e(a) \in K \union {size}
    BY <1>3, <2>1
  <2>4. ASSUME NEW b \in K, a < b PROVE e(a) <= b
    <3>1. CASE b \notin dead
      BY <1>1, <1>3, <2>1, <2>4, <3>1
    <3>2. CASE b \in dead
      <4>1. b \in H /\ b \in Nat /\ e(b) \in Nat /\ b < e(b) /\ e(b) \notin dead
            /\ e(b) \in bits \union {size}
        BY <1>1, <1>3, <1>4, <3>2
      <4>2. SUFFICES ASSUME b < e(a) PROVE FALSE
        BY <2>1, <4>1
      <4>3. e(b) <= e(a)
        BY <1>1, <2>1, <3>2, <4>2
      <4>4. e(a) <= e(b)
        <5>1. a < e(b)
          BY <2>1, <2>4, <4>1
        <5> QED
          BY <1>1, <2>1, <4>1, <5>1
      <4>5. e(a) = e(b)
        BY <2>1, <4>1, <4>3, <4>4
      <4>6. b <= a
        BY <1>2, <2>1, <4>1, <4>5
      <4> QED
        BY <2>1, <2>4, <4>1, <4>6
    <3> QED
      BY <3>1, <3>2
  <2> QED
    BY <2>2, <2>3, <2>4
<1>9. ASSUME NEW a \in K, a \notin H
      PROVE  /\ len[a] \in Multiples \ {0} /\ a + len[a] \in K \union {size}
             /\ \A b \in K : a < b => a + len[a] <= b
  <2>1. a \in bits /\ a \notin dead /\ len[a] = Length[a]
    BY <1>3, <1>5, <1>9
  <2>2. PICK n : n = a + Length[a]
    OBVIOUS
  <2>3. /\ a \in Nat /\ n \in Nat /\ a < n /\ n \in bits \union {size}
        /\ \A b \in bits : b \in Nat /\ (a < b => n <= b)
    BY <1>4, <2>1, <2>2
  <2>4. n \in K \union {size}
    <3>1. CASE n \in dead
      <4>1. ASSUME NEW b \in dead, e(b) = e(n), b < n PROVE FALSE
        <5>1. b \in Nat /\ b # a /\ b < a
          BY <2>1, <2>3, <4>1
        <5>2. e(b) <= a
          BY <1>1, <2>1, <5>1
        <5>3. n < e(n) /\ e(n) \in Nat
          BY <1>1, <3>1
        <5> QED
          BY <2>3, <4>1, <5>2, <5>3
      <4>2. \A b \in dead : e(b) # e(n) \/ n <= b
        BY <2>3, <4>1
      <4> QED
        BY <1>2, <1>3, <3>1, <4>2
    <3>2. CASE n \notin dead
      BY <1>3, <2>3, <3>2
    <3> QED
      BY <3>1, <3>2
  <2>5. \A b \in K : a < b => n <= b
    BY <1>3, <2>3
  <2>6. Length[a] \in Multiples \ {0}
    BY <1>4, <2>1
  <2> QED
    BY <2>1, <2>2, <2>4, <2>5, <2>6
<1>10. K \subseteq Multiples \intersect 0 .. size - 1
  BY <1>3, <1>4, <1>6
<1>11. Tiles(K, len, 0, size)
  BY <1>7, <1>8, <1>9, <1>10 DEF Tiles
<1> QED
  BY <1>11 DEF K, len

\* What a sweep makes of the runs of dead chunks.
Recut(dead) == UNION {Pieces(a, RunEnd(dead, a) - a) : a \in Heads(dead)}

LEMMA RunPieces ==
    ASSUME HeapTyped, Layout, Chain = bits, NEW dead \in SUBSET bits, NEW a \in Heads(dead)
    PROVE  /\ a \in dead /\ a \in BitsSwept(dead)
           /\ a \in Nat /\ a \in Multiples
           /\ RunEnd(dead, a) \in Nat /\ RunEnd(dead, a) \in Multiples /\ RunEnd(dead, a) <= size
           /\ Cut(Pieces(a, RunEnd(dead, a) - a), a, RunEnd(dead, a))
           /\ Fresh(Pieces(a, RunEnd(dead, a) - a))
           /\ a \in At(Pieces(a, RunEnd(dead, a) - a))
           /\ \A p \in Pieces(a, RunEnd(dead, a) - a) :
                 p.at \in Nat /\ a <= p.at /\ p.at < RunEnd(dead, a)
<1>1. a \in dead /\ a \in BitsSwept(dead)
  BY DEF Heads, BitsSwept
<1>2. PICK e : e = RunEnd(dead, a)
  OBVIOUS
<1>3. e \in Nat /\ e \in Multiples /\ a < e /\ e <= size
  BY <1>1, <1>2, RunFacts
<1>4. a \in Nat /\ a \in Multiples /\ size \in Nat /\ size <= MemoryLimit /\ MemoryLimit \in Nat
  BY <1>1, LayoutFacts, TypeFacts, LimitType
<1>5. e - a \in Multiples /\ e - a # 0 /\ a + (e - a) = e
  BY <1>3, <1>4, MultipleFacts
<1>6. PICK P : P = Pieces(a, e - a)
  OBVIOUS
<1>7. Cut(P, a, e) /\ [at |-> a, size |-> Largest(e - a)] \in P
  <2>1. PICK d : d = e - a
    OBVIOUS
  <2>2. d \in Multiples /\ a + d \in Multiples /\ d # 0 /\ a + d = e
    BY <1>3, <1>5, <2>1
  <2>3. Cut(Pieces(a, d), a, a + d) /\ [at |-> a, size |-> Largest(d)] \in Pieces(a, d)
    BY <1>4, <2>2, PiecesCut
  <2> QED
    BY <1>6, <2>1, <2>2, <2>3
<1>8. Fresh(P)
  BY <1>3, <1>4, <1>7, CutFresh
<1>9. a \in At(P)
  BY <1>7, AtFacts
<1>10. ASSUME NEW p \in P PROVE p.at \in Nat /\ a <= p.at /\ p.at < e
  <2>1. p.at \in Nat /\ p.size \in Nat \ {0}
    BY <1>8, FreshFacts, LimitType
  <2>2. a <= p.at /\ p.at + p.size <= e
    BY <1>7 DEF Cut
  <2> QED
    BY <1>3, <2>1, <2>2
<1> QED
  BY <1>1, <1>2, <1>3, <1>4, <1>6, <1>7, <1>8, <1>9, <1>10

LEMMA RecutFacts ==
    ASSUME HeapTyped, Layout, Chain = bits, NEW dead \in SUBSET bits
    PROVE  /\ Fresh(Recut(dead))
           /\ At(Recut(dead)) \intersect (bits \ dead) = {}
           /\ Heads(dead) \subseteq At(Recut(dead))
<1> DEFINE e(a) == RunEnd(dead, a)
           Run(a) == Pieces(a, e(a) - a)
           K == BitsSwept(dead)
           len == RunLength(dead)
<1>1. \A p : p \in Recut(dead) <=> \E a \in Heads(dead) : p \in Run(a)
  BY DEF Recut
<1>2. ASSUME NEW a \in Heads(dead)
      PROVE  /\ a \in dead /\ a \in K /\ a \in Nat /\ a \in Multiples /\ e(a) \in Nat
             /\ Cut(Run(a), a, e(a)) /\ Fresh(Run(a)) /\ a \in At(Run(a))
             /\ \A p \in Run(a) : p.at \in Nat /\ a <= p.at /\ p.at < e(a)
  BY RunPieces
<1>3. ASSUME NEW a \in K
      PROVE  a \in Nat /\ len[a] \in Nat \ {0} /\ \A b \in K : a < b => a + len[a] <= b
  <2>1. Tiles(K, len, 0, size) /\ size \in Nat
    BY RunsTile, TypeFacts
  <2> HIDE DEF K, len
  <2> QED
    BY <2>1, TileFacts
<1>4. ASSUME NEW a \in Heads(dead), NEW b \in K, a < b PROVE e(a) <= b
  <2>1. a \in K /\ a \in bits /\ a \in Nat /\ e(a) \in Nat
    BY <1>2
  <2>2. len[a] = e(a) - a
    BY <2>1 DEF RunLength
  <2>3. a + len[a] = e(a)
    <3>1. PICK x : x = e(a)
      OBVIOUS
    <3> QED
      BY <2>1, <2>2, <3>1
  <2> QED
    BY <1>3, <1>4, <2>1, <2>3
<1> HIDE DEF e, Run, K, len
<1>5. ASSUME NEW p \in Recut(dead)
      PROVE  IsChunkSize(p.size) /\ p.at \in Multiples /\ p.at + p.size <= MemoryLimit
  BY <1>1, <1>2 DEF Fresh
<1>6. ASSUME NEW p \in Recut(dead), NEW q \in Recut(dead), p.at = q.at PROVE p = q
  <2>1. PICK a \in Heads(dead) : p \in Run(a)
    BY <1>1
  <2>2. PICK b \in Heads(dead) : q \in Run(b)
    BY <1>1
  <2>3. /\ p.at \in Nat /\ a <= p.at /\ p.at < e(a) /\ q.at \in Nat /\ b <= q.at /\ q.at < e(b)
        /\ a \in K /\ b \in K /\ a \in Nat /\ b \in Nat /\ e(a) \in Nat /\ e(b) \in Nat
    BY <1>2, <2>1, <2>2
  <2>4. ~(a < b)
    BY <1>4, <1>6, <2>3
  <2>5. ~(b < a)
    BY <1>4, <1>6, <2>3
  <2>6. a = b
    BY <2>3, <2>4, <2>5
  <2> QED
    BY <1>2, <1>6, <2>1, <2>2, <2>6 DEF Fresh
<1>7. ASSUME NEW x \in At(Recut(dead)), x \in bits, x \notin dead PROVE FALSE
  <2>1. PICK p \in Recut(dead) : x = p.at
    BY AtFacts
  <2>2. PICK a \in Heads(dead) : p \in Run(a)
    BY <1>1
  <2>3. /\ x \in Nat /\ a <= x /\ x < e(a) /\ a \in dead /\ a \in Nat /\ e(a) \in Nat
    BY <1>2, <2>1, <2>2
  <2>4. x \in K
    BY <1>7 DEF K, BitsSwept
  <2>5. a < x
    BY <1>7, <2>3
  <2> QED
    BY <1>4, <2>3, <2>4, <2>5
<1>8. ASSUME NEW a \in Heads(dead) PROVE a \in At(Recut(dead))
  <2>1. PICK p \in Run(a) : a = p.at
    BY <1>2, AtFacts
  <2> QED
    BY <1>1, <2>1, AtFacts
<1>9. Fresh(Recut(dead))
  BY <1>5, <1>6 DEF Fresh
<1>10. At(Recut(dead)) \intersect (bits \ dead) = {}
  BY <1>7
<1> QED
  BY <1>8, <1>9, <1>10

\* Where no thread has a chunk it has not stamped, the walk meets the chunks.
LEMMA ChainIsBits ==
    ASSUME HeapTyped, Layout, \A t \in Threads : object[t] = NULL
    PROVE  /\ Chain = bits
           /\ \A a \in bits : TakenBy(a) = {} /\ Length[a] = ChunkSize(a)
<1>1. \A a \in bits : TakenBy(a) = {}
  BY NullFacts DEF TakenBy
<1>2. \A a \in bits : Length[a] = ChunkSize(a)
  BY <1>1 DEF Length
<1>3. Tiles(bits, Length, 0, size) /\ bits \subseteq DOMAIN header
  BY DEF Layout
<1>4. Chain = bits
  <2>1. PICK len : len = Length
    OBVIOUS
  <2>2. \A a \in bits : len[a] = ChunkSize(a)
    BY <1>2, <2>1
  <2>3. Tiles(bits, len, 0, size)
    BY <1>3, <2>1
  <2> QED
    BY <1>3, <2>2, <2>3, ChainIs
<1> QED
  BY <1>1, <1>2, <1>4

LEMMA CollectInv ==
    ASSUME IInv, Collect
    PROVE  IInv'
<1>1. Apart /\ HeapTyped /\ Layout /\ Free /\ Live /\ Taken /\ Growth
  BY DEF IInv
<1>2. /\ \A t \in Threads : pc[t] \in {"idle", "collect"}
      /\ pc' = [t \in Threads |-> IF pc[t] = "collect" THEN "retry" ELSE pc[t]]
      /\ live' \in SUBSET live /\ collections < MaxCollections /\ collections' = collections + 1
      /\ UNCHANGED <<size, largeHeapEnd, largeHeapSize, request, object, seen>>
      /\ UNCHANGED <<overlapped, robbed, overwritten>>
  BY DEF Collect, Sweep, bounds, history
<1>3. \A t \in Threads : object[t] = NULL /\ seen[t] = NULL
  BY <1>1, <1>2 DEF Taken, Growth, Growing
<1>4. Chain = bits /\ \A a \in bits : TakenBy(a) = {} /\ Length[a] = ChunkSize(a)
  BY <1>1, <1>3, ChainIsBits
<1> DEFINE marked == {o.start * MIN_BLOCK_SIZE : o \in live'}
<1>5. PICK dead : dead = Chain \ marked
  OBVIOUS
<1>6. PICK P : P = Recut(dead)
  OBVIOUS
<1>7. /\ freeLists' = AddedLast(EmptyLists, P) /\ header' = Stamped(P, header)
      /\ bits' = BitsSwept(dead) \union At(P)
  BY <1>5, <1>6 DEF Collect, Sweep, EmptyLists, Recut
<1>8. marked \subseteq bits
  BY <1>1, <1>2 DEF Live
<1>9. dead \in SUBSET bits /\ marked = bits \ dead
  BY <1>4, <1>5, <1>8
<1> HIDE DEF marked
<1>10. /\ Fresh(P) /\ At(P) \intersect marked = {} /\ Heads(dead) \subseteq At(P)
  BY <1>1, <1>4, <1>6, <1>9, RecutFacts
<1>11. bits' = marked \union At(P)
  BY <1>7, <1>9, <1>10 DEF BitsSwept
<1>12. /\ DOMAIN header' = At(P) \union DOMAIN header /\ IsHeader(header')
       /\ \A p \in P : header'[p.at].size = p.size /\ header'[p.at].flag = "free"
                       /\ header'[p.at].word = NULL
       /\ \A a \in marked : header'[a] = header[a]
  <2>1. IsStamped(header', P, header)
    BY <1>1, <1>7, <1>10, Typed, StampedChunks
  <2>2. \A a \in marked : a \in DOMAIN header \ At(P)
    BY <1>1, <1>8, <1>10, LayoutFacts
  <2> QED
    BY <2>1, <2>2 DEF IsStamped
<1>13. IsAdded(freeLists', P, EmptyLists)
  BY <1>7, <1>10, EmptyListsFacts, AddedChunks
<1>14. \A p \in P : p.at \in Addresses /\ p.at # NULL /\ p.at \in At(P)
  <2>1. \A p \in P : p.at \in Addresses
    BY <1>10, FreshFacts
  <2> QED
    BY <1>1, <2>1, NullFacts, AtFacts
<1>15. \A a \in At(P) : a \in Addresses /\ \E p \in P : a = p.at
  BY <1>14, AtFacts
<1>16. \A a \in bits' : a # NULL /\ TakenBy(a)' = {}
  <2>1. \A a \in bits' : a # NULL
    BY <1>1, <1>8, <1>11, <1>14, <1>15, NullFacts
  <2>2. \A t \in Threads : object'[t] = NULL
    BY <1>2, <1>3
  <2> QED
    BY <2>1, <2>2 DEF TakenBy
<1>17. \A a \in bits' : Length'[a] = Actual(header'[a].size)
  BY <1>16 DEF Length, ChunkSize
<1>18. /\ \A a \in marked : Length'[a] = Length[a]
       /\ \A p \in P : Length'[p.at] = p.size
  <2>1. ASSUME NEW a \in marked PROVE Length'[a] = Length[a]
    BY <1>4, <1>8, <1>11, <1>12, <1>17 DEF ChunkSize
  <2>2. ASSUME NEW p \in P PROVE Length'[p.at] = p.size
    BY <1>10, <1>11, <1>12, <1>14, <1>17, FreshFacts
  <2> QED
    BY <2>1, <2>2
<1>19. Layout'
  <2> DEFINE K == BitsSwept(dead)
             len == RunLength(dead)
             F == [a \in K |-> IF a \in Heads(dead)
                                 THEN At(Pieces(a, RunEnd(dead, a) - a)) ELSE {a}]
  <2>1. Tiles(K, len, 0, size) /\ size \in Nat
    BY <1>1, <1>4, <1>9, RunsTile, TypeFacts
  <2>2. K = marked \union Heads(dead) /\ Heads(dead) \subseteq dead
    BY <1>9 DEF BitsSwept, Heads
  <2>3. ASSUME NEW a \in K PROVE Tiles(F[a], Length', a, a + len[a])
    <3>1. CASE a \in Heads(dead)
      <4>1. PICK e : e = RunEnd(dead, a)
        OBVIOUS
      <4>2. /\ a \in bits /\ a \in Nat /\ a \in Multiples /\ e \in Nat /\ e \in Multiples
            /\ Cut(Pieces(a, e - a), a, e)
        BY <1>1, <1>4, <1>9, <3>1, <4>1, RunPieces
      <4>3. a + len[a] = e
        BY <3>1, <4>1, <4>2 DEF RunLength
      <4>4. PICK R : R = Pieces(a, e - a)
        OBVIOUS
      <4>5. \A p \in R : p \in P
        BY <1>6, <3>1, <4>1, <4>4 DEF Recut
      <4>6. \A p \in R : Length'[p.at] = p.size
        BY <1>18, <4>5
      <4>7. Tiles(At(R), Length', a, e)
        BY <4>2, <4>4, <4>6, TilesOf
      <4>8. F[a] = At(R)
        BY <3>1, <4>1, <4>4
      <4> QED
        BY <4>3, <4>7, <4>8
    <3>2. CASE a \notin Heads(dead)
      <4>1. a \in marked /\ a \in bits
        BY <1>8, <2>2, <3>2
      <4>2. len[a] = Length[a] /\ Length'[a] = Length[a]
        BY <1>18, <3>2, <4>1 DEF RunLength
      <4>3. a \in Multiples /\ Length[a] \in Multiples \ {0}
        BY <1>1, <4>1, LayoutFacts
      <4>4. Tiles({a}, Length', a, a + Length[a])
        BY <4>2, <4>3, OneTile
      <4>5. F[a] = {a}
        BY <3>2
      <4> QED
        BY <4>2, <4>4, <4>5
    <3> QED
      BY <3>1, <3>2
  <2>4. AllOf(F, K) = bits'
    <3>1. ASSUME NEW x \in AllOf(F, K) PROVE x \in bits'
      <4>1. PICK a \in K : x \in F[a]
        BY <3>1 DEF AllOf
      <4>2. CASE a \in Heads(dead)
        <5>1. PICK p \in Pieces(a, RunEnd(dead, a) - a) : x = p.at
          BY <4>1, <4>2, AtFacts
        <5>2. p \in P
          BY <1>6, <4>2, <5>1 DEF Recut
        <5> QED
          BY <1>11, <1>14, <5>1, <5>2
      <4>3. CASE a \notin Heads(dead)
        BY <1>11, <2>2, <4>1, <4>3
      <4> QED
        BY <4>2, <4>3
    <3>2. ASSUME NEW x \in marked PROVE x \in AllOf(F, K)
      <4>1. x \in K /\ x \notin Heads(dead)
        BY <1>9, <2>2, <3>2
      <4>2. x \in F[x]
        BY <4>1
      <4> QED
        BY <4>1, <4>2 DEF AllOf
    <3>3. ASSUME NEW x \in At(P) PROVE x \in AllOf(F, K)
      <4>1. PICK p \in P : x = p.at
        BY <3>3, AtFacts
      <4>2. PICK a \in Heads(dead) : p \in Pieces(a, RunEnd(dead, a) - a)
        BY <1>6, <4>1 DEF Recut
      <4>3. a \in K /\ x \in F[a]
        BY <2>2, <4>1, <4>2, AtFacts
      <4> QED
        BY <4>3 DEF AllOf
    <3> QED
      BY <1>11, <3>1, <3>2, <3>3
  <2> HIDE DEF F, K, len
  <2>5. Refines(F, Length', K, len)
    BY <2>3 DEF Refines
  <2>6. Tiles(AllOf(F, K), Length', 0, size)
    BY <2>1, <2>5, RefineTiles
  <2>7. bits' \subseteq DOMAIN header'
    <3>1. marked \subseteq DOMAIN header
      BY <1>1, <1>8, LayoutFacts
    <3> QED
      BY <1>11, <1>12, <3>1
  <2> QED
    BY <1>2, <2>4, <2>6, <2>7 DEF Layout
<1>20. Free'
  <2>1. ASSUME NEW a \in bits', header'[a].flag = "free" PROVE header'[a].word = NULL
    <3>1. CASE a \in marked
      BY <1>1, <1>8, <1>12, <2>1, <3>1 DEF Free
    <3>2. CASE a \in At(P)
      BY <1>12, <1>15, <3>2
    <3> QED
      BY <1>11, <3>1, <3>2
  <2>2. ASSUME NEW j \in Classes, NEW a, a = freeLists'[j].first, a # NULL
        PROVE  /\ a \in bits' /\ header'[a].flag = "free"
               /\ header'[a].size = PowerOfTwo(j + LARGE_OBJECT_MIN_SIZE_BITS)
    <3>1. PICK p \in P : a = p.at /\ p.size = PowerOfTwo(j + LARGE_OBJECT_MIN_SIZE_BITS)
      BY <1>13, <2>2, EmptyListsFacts DEF IsAdded
    <3> QED
      BY <1>11, <1>12, <1>14, <3>1
  <2> QED
    BY <2>1, <2>2 DEF Free
<1>21. Live'
  <2>1. ASSUME NEW o \in live', NEW a, a = o.start * MIN_BLOCK_SIZE
        PROVE  /\ a \in bits' /\ header'[a].flag = "allocated"
               /\ Length'[a] = o.size * MIN_BLOCK_SIZE /\ header'[a].word # NULL
    <3>1. a \in marked
      BY <2>1 DEF marked
    <3>2. /\ a \in bits /\ header[a].flag = "allocated" /\ Length[a] = o.size * MIN_BLOCK_SIZE
          /\ (header[a].word # NULL \/ TakenBy(a) # {})
      BY <1>1, <1>2, <2>1 DEF Live
    <3> QED
      BY <1>4, <1>11, <1>12, <1>18, <3>1, <3>2
  <2> QED
    BY <2>1 DEF Live
<1>22. ASSUME NEW t \in Threads
       PROVE  /\ pc'[t] \in {"idle", "retry"} /\ (pc'[t] # "idle" => pc[t] = "collect")
              /\ object'[t] = NULL /\ seen'[t] = NULL /\ request'[t] = request[t]
  BY <1>2, <1>3
<1>23. Taken'
  <2>1. ASSUME NEW t \in Threads
        PROVE  /\ pc'[t] \notin {"idle", "exited"} => request'[t] \in Sizes
               /\ pc'[t] # "got" /\ object'[t] = NULL
    BY <1>1, <1>22 DEF Taken
  <2> QED
    BY <2>1, TakenIs
<1>24. Growth'
  <2>1. largeHeapEnd = size /\ largeHeapSize = size
    BY <1>1, <1>2 DEF Growth, Growing
  <2> QED
    BY <1>2, <1>22, <2>1 DEF Growth, Growing
<1>25. HeapTyped'
  <2>1. bits' \subseteq Addresses
    BY <1>1, <1>8, <1>11, <1>15, TypeFacts
  <2>2. pc' \in [Threads -> PCs] /\ live' \subseteq S!Places /\ collections' \in 0 .. MaxCollections
    BY <1>1, <1>2, Typed, LargeAssumption DEF PCs
  <2> QED
    BY <1>1, <1>2, <1>12, <1>13, <2>1, <2>2, Typed, TypeFacts, TypeIs DEF IsAdded
<1>26. Apart'
  BY <1>1, <1>2 DEF Apart
<1> QED
  BY <1>26, <1>19, <1>20, <1>21, <1>23, <1>24, <1>25 DEF IInv

-----------------------------------------------------------------------------
(* The invariant.                                                            *)

LEMMA TryInv ==
    ASSUME IInv, NEW t \in Threads, pc[t] \in {"idle", "retry", "last"},
           NEW n \in Sizes, request' = [request EXCEPT ![t] = n], NEW failed, Try(t, failed),
           \/ \E to \in {"collect", "grow"} : failed = [pc EXCEPT ![t] = to]
           \/ /\ pc[t] = "last" /\ n = request[t]
              /\ failed = [u \in Threads |-> IF u = t THEN "crashed" ELSE "exited"]
    PROVE  /\ IInv'
           /\ \/ Fitting(n) # {} /\ GetBlock(t) /\ object'[t] = Found(n)
                 /\ \E o \in S!Places : /\ live' = live \union {o}
                                        /\ o.start * MIN_BLOCK_SIZE = Found(n)
                                        /\ o.size * MIN_BLOCK_SIZE = Actual(n)
              \/ UNCHANGED <<object, live>>
<1>1. /\ UNCHANGED <<size, bounds, seen, collections, overlapped>>
      /\ request'[t] = n /\ object \in [Threads -> Addresses \union {NULL}]
  <2>1. request'[t] = n /\ object \in [Threads -> Addresses \union {NULL}]
    BY Typed DEF IInv
  <2> QED
    BY <2>1 DEF Try
<1>2. CASE Fitting(n) # {}
  <2>1. GetBlock(t) /\ pc' = [pc EXCEPT ![t] = "got"]
    BY <1>1, <1>2 DEF Try
  <2>2. object'[t] = Found(n)
    <3>1. object' = [object EXCEPT ![t] = Found(n)]
      BY <1>1, <2>1, GetBlockIs, Zenon
    <3> QED
      BY <1>1, <3>1
  <2> QED
    BY <1>1, <1>2, <2>1, <2>2, GetBlockInv
<1>3. CASE Fitting(n) = {}
  <2>1. pc' = failed /\ UNCHANGED <<heap, bounds, live, object, seen, collections, history>>
    BY <1>1, <1>3 DEF Try, heap, history
  <2>2. IInv'
    BY <1>3, <2>1, NoBlockInv
  <2> QED
    BY <2>1, <2>2
<1> QED
  BY <1>2, <1>3

\* What a step does to the objects.
Handed(t, n) ==
    /\ n \in Sizes /\ Fitting(n) # {} /\ request' = [request EXCEPT ![t] = n]
    /\ object'[t] = Found(n)
    /\ \A u \in Threads : u # t => object'[u] = object[u]
    /\ \E o \in S!Places : /\ live' = live \union {o}
                           /\ o.start * MIN_BLOCK_SIZE = Found(n)
                           /\ o.size * MIN_BLOCK_SIZE = Actual(n)
Dropped == live' \subseteq live /\ \A t \in Threads : object'[t] \in {object[t], NULL}

LEMMA TryStep ==
    ASSUME IInv, NEW t \in Threads, FirstTry(t) \/ Retry(t) \/ LastTry(t)
    PROVE  IInv' /\ (Dropped \/ \E n \in Sizes : Handed(t, n))
<1>1. request \in [Threads -> Sizes \union {0}] /\ object \in [Threads -> Addresses \union {NULL}]
  BY Typed DEF IInv
<1>2. PICK n \in Sizes :
         /\ pc[t] \in {"idle", "retry", "last"} /\ request' = [request EXCEPT ![t] = n]
         /\ \/ Try(t, [pc EXCEPT ![t] = "collect"])
            \/ Try(t, [pc EXCEPT ![t] = "grow"])
            \/ /\ pc[t] = "last" /\ n = request[t]
               /\ Try(t, [u \in Threads |-> IF u = t THEN "crashed" ELSE "exited"])
  <2>1. CASE FirstTry(t)
    BY <2>1 DEF FirstTry
  <2>2. CASE Retry(t) \/ LastTry(t)
    <3>1. pc[t] \in {"retry", "last"} /\ request' = request
      BY <2>2 DEF Retry, LastTry
    <3>2. request[t] \in Sizes
      BY <3>1 DEF IInv, Taken
    <3>3. request' = [request EXCEPT ![t] = request[t]]
      BY <1>1, <3>1
    <3> QED
      BY <2>2, <3>1, <3>2, <3>3 DEF Retry, LastTry
  <2> QED
    BY <2>1, <2>2
<1>3. PICK failed :
         /\ Try(t, failed)
         /\ \/ \E to \in {"collect", "grow"} : failed = [pc EXCEPT ![t] = to]
            \/ /\ pc[t] = "last" /\ n = request[t]
               /\ failed = [u \in Threads |-> IF u = t THEN "crashed" ELSE "exited"]
  BY <1>2
<1>4. /\ IInv'
      /\ \/ Fitting(n) # {} /\ GetBlock(t) /\ object'[t] = Found(n)
            /\ \E o \in S!Places : /\ live' = live \union {o}
                                   /\ o.start * MIN_BLOCK_SIZE = Found(n)
                                   /\ o.size * MIN_BLOCK_SIZE = Actual(n)
         \/ UNCHANGED <<object, live>>
  BY <1>2, <1>3, TryInv
<1>5. GetBlock(t) => \A u \in Threads : u # t => object'[u] = object[u]
  BY <1>1 DEF GetBlock
<1> QED
  BY <1>2, <1>4, <1>5 DEF Handed, Dropped

LEMMA NextInv ==
    ASSUME IInv, Next
    PROVE  overlapped' \/ (IInv' /\ (Dropped \/ \E t \in Threads, n \in Sizes : Handed(t, n)))
<1>1. object \in [Threads -> Addresses \union {NULL}]
  BY Typed DEF IInv
<1>2. ASSUME NEW t \in Threads, FirstTry(t) \/ Retry(t) \/ LastTry(t)
      PROVE  IInv' /\ (Dropped \/ \E n \in Sizes : Handed(t, n))
  BY <1>2, TryStep
<1>3. ASSUME NEW t \in Threads, Stamp(t) PROVE IInv' /\ Dropped
  BY <1>1, <1>3, StampInv DEF Stamp, Dropped
<1>4. ASSUME NEW t \in Threads, GrowLarge(t) PROVE overlapped' \/ (IInv' /\ Dropped)
  BY <1>4, GrowLargeInv DEF GrowLarge, Dropped
<1>5. ASSUME NEW t \in Threads, MoveEnd(t) PROVE IInv' /\ Dropped
  BY <1>5, MoveEndInv DEF MoveEnd, Dropped
<1>6. ASSUME NEW t \in Threads, Grow(t) PROVE IInv' /\ Dropped
  BY <1>6, GrowInv DEF Grow, Dropped
<1>7. ASSUME Collect PROVE IInv' /\ Dropped
  BY <1>7, CollectInv DEF Collect, Dropped
<1> QED
  BY <1>2, <1>3, <1>4, <1>5, <1>6, <1>7 DEF Next

LEMMA StutterInv ==
    ASSUME IInv, UNCHANGED vars
    PROVE  IInv' /\ Dropped
<1>1. UNCHANGED <<heap, bounds, live, request, object, seen, collections, pc, history>>
  BY DEF vars
<1>2. UNCHANGED <<largeHeapEnd, largeHeapSize, size, freeLists, header, bits, overlapped,
                  robbed, overwritten>>
  BY <1>1 DEF heap, bounds, history
<1>3. Layout' /\ Free' /\ Live' /\ \A a : TakenBy(a)' = TakenBy(a)
  BY <1>1, SameHeap DEF IInv
<1>4. HeapTyped'
  BY <1>1, <1>2, Typed, TypeFacts, SameHeapTyped DEF IInv
<1>5. Taken'
  BY <1>1, <1>2, <1>3 DEF IInv, Taken
<1>6. Growth'
  BY <1>1, <1>2 DEF IInv, Growth, Fitting
<1>7. Apart'
  BY <1>2 DEF IInv, Apart
<1> QED
  BY <1>1, <1>3, <1>4, <1>5, <1>6, <1>7 DEF IInv, Dropped

\* Nothing that happens afterwards takes back that two growths overlapped.
LEMMA OverlapStays ==
    ASSUME overlapped, [Next]_vars
    PROVE  overlapped'
<1>1. UNCHANGED vars => overlapped'
  BY DEF vars, history
<1>2. ASSUME NEW t \in Threads, FirstTry(t) \/ Retry(t) \/ LastTry(t) PROVE overlapped'
  BY <1>2 DEF FirstTry, Retry, LastTry, Try
<1>3. ASSUME NEW t \in Threads, Stamp(t) \/ GrowLarge(t) \/ MoveEnd(t) \/ Grow(t)
      PROVE  overlapped'
  BY <1>3 DEF Stamp, GrowLarge, MoveEnd, Grow, history
<1>4. Collect => overlapped'
  BY DEF Collect, history
<1> QED
  BY <1>1, <1>2, <1>3, <1>4 DEF Next

\* The inductive invariant: chunks tile the heap, what the lists offer and what
\* objects and threads hold are different chunks, no memory was handed out twice,
\* and a heap that was grown has a chunk for its thread unless another took it.
\* It holds until a growth begins while another is under way.
THEOREM InvariantHolds == Spec => [](overlapped \/ IInv)
<1>1. Init => overlapped \/ IInv
  BY InitInv
<1>2. (overlapped \/ IInv) /\ [Next]_vars => (overlapped \/ IInv)'
  BY NextInv, StutterInv, OverlapStays
<1> QED
  BY <1>1, <1>2, PTL DEF Spec

-----------------------------------------------------------------------------
(* What follows from it.                                                     *)

LEMMA SettledFacts ==
    ASSUME IInv, Settled
    PROVE  /\ Chain = bits /\ \A a \in bits : TakenBy(a) = {} /\ Length[a] = ChunkSize(a)
           /\ largeHeapEnd = size /\ largeHeapSize = size
<1>1. \A t \in Threads : object[t] = NULL /\ seen[t] = NULL
  BY DEF Settled
<1> QED
  BY <1>1, ChainIsBits DEF IInv, Growth

\* The chunk in which an address lies is the last that begins before it.
LEMMA BeginsBefore ==
    ASSUME IInv, NEW a \in bits, NEW x \in Nat, a <= x, x < a + Length[a]
    PROVE  Max({b \in bits : b <= x}) = a
<1> DEFINE T == {b \in bits : b <= x}
<1>1. T \in SUBSET (0 .. x) /\ a \in T
  BY LayoutFacts DEF IInv
<1>2. Max(T) \in T /\ \A b \in T : Max(T) >= b
  <2> HIDE DEF T
  <2> QED
    BY <1>1, MaxFacts
<1>3. PICK m : m = Max(T)
  OBVIOUS
<1>4. m \in bits /\ m <= x /\ a <= m
  BY <1>1, <1>2, <1>3
<1>5. m \in Nat /\ a \in Nat /\ Length[a] \in Nat /\ (a < m => a + Length[a] <= m)
  BY <1>4, LayoutFacts DEF IInv
<1>6. m = a
  BY <1>4, <1>5
<1> QED
  BY <1>3, <1>6

-----------------------------------------------------------------------------
(* The theorems.                                                             *)

\* The state stays in its types until two growths overlap: chunks begin within the
\* heap, on multiples of a unit, and the heap stays within its limit.
\* (LargeAllocator.c, Heap.c.)
THEOREM TypesHold == Spec => []TypeOK
<1>1. overlapped \/ IInv => TypeOK
  BY DEF IInv, TypeOK
<1> QED
  BY <1>1, InvariantHolds, PTL

\* The heap that was grown for an object has room for it, whatever is allocated
\* and swept while it grows: without an overlapping growth GetBlock returns NULL
\* after it only to a thread that another robbed of the chunk. (Heap_AllocLarge.)
THEOREM OnlyTheRobbedFail == Spec => []OnlyRobbedFail
<1>1. overlapped \/ IInv => OnlyRobbedFail
  BY DEF IInv, Growth, OnlyRobbedFail
<1> QED
  BY <1>1, InvariantHolds, PTL

\* The heap never shrinks to nothing.
LEMMA HeapRemains == Spec => [](overlapped \/ size # 0)
<1>1. Init => size # 0
  BY MultipleFacts DEF Init
<1>2. (overlapped \/ IInv) /\ (overlapped \/ size # 0) /\ [Next]_vars => (overlapped \/ size # 0)'
  <2> SUFFICES ASSUME IInv, size # 0, [Next]_vars PROVE size' # 0
    BY OverlapStays
  <2>1. ASSUME NEW t \in Threads, Grow(t) PROVE size' # 0
    <3>1. request[t] \in Sizes /\ size' = size + Increment(request[t])
      BY <2>1 DEF Grow, IInv, Taken
    <3>2. Increment(request[t]) \in Nat \ {0} /\ size \in Nat
      BY <3>1, IncrementFacts, TypeFacts DEF IInv
    <3> QED
      BY <3>1, <3>2
  <2>2. ASSUME NEW t \in Threads, Stamp(t) \/ GrowLarge(t) \/ MoveEnd(t) PROVE size' = size
    BY <2>2 DEF Stamp, GrowLarge, MoveEnd, heap
  <2>3. ASSUME NEW t \in Threads, FirstTry(t) \/ Retry(t) \/ LastTry(t) PROVE size' = size
    BY <2>3 DEF FirstTry, Retry, LastTry, Try
  <2>4. Collect => size' = size
    BY DEF Collect, Sweep
  <2>5. UNCHANGED vars => size' = size
    BY DEF vars, heap
  <2> QED
    BY <2>1, <2>2, <2>3, <2>4, <2>5 DEF Next
<1> QED
  BY <1>1, <1>2, InvariantHolds, PTL DEF Spec

\* What a collection walks is all of the heap: its chunks meet without a gap
\* from its start to the end on which allocator and Heap agree, a bit is set for
\* each of them and live objects are among them, whatever was split, swept or
\* grown before. (AddChunk, GetBlock, Sweep, Heap_GrowLarge, Bitmap_Grow.)
THEOREM ChunksAlwaysTile == Spec => []ChunksTile
<1>1. (overlapped \/ IInv) /\ (overlapped \/ size # 0) => ChunksTile
  <2> SUFFICES ASSUME IInv, size # 0, Settled
               PROVE  /\ size = largeHeapEnd /\ size = largeHeapSize
                      /\ Max({a + ChunkSize(a) : a \in Chain}) = size
                      /\ bits = Chain
                      /\ \A o \in live : LET a == o.start * MIN_BLOCK_SIZE IN
                            a \in Chain /\ header[a].flag = "allocated"
                              /\ ChunkSize(a) = o.size * MIN_BLOCK_SIZE
    BY DEF ChunksTile
  <2>1. /\ Chain = bits /\ \A a \in bits : TakenBy(a) = {} /\ Length[a] = ChunkSize(a)
        /\ largeHeapEnd = size /\ largeHeapSize = size
    BY SettledFacts
  <2>2. ASSUME NEW o \in live, NEW a, a = o.start * MIN_BLOCK_SIZE
        PROVE  a \in Chain /\ header[a].flag = "allocated" /\ ChunkSize(a) = o.size * MIN_BLOCK_SIZE
    BY <2>1, <2>2, ObjectUnits
  <2> DEFINE E == {a + ChunkSize(a) : a \in Chain}
  <2>3. ASSUME NEW a \in bits
        PROVE  /\ a \in Nat /\ ChunkSize(a) \in Nat \ {0} /\ a + ChunkSize(a) \in bits \union {size}
               /\ a + ChunkSize(a) <= size
    BY <2>1, LayoutFacts DEF IInv
  <2>4. size \in Nat /\ 0 \in bits
    BY TypeFacts DEF IInv, Layout, Tiles
  <2>5. E \in SUBSET (0 .. size) /\ E # {}
    BY <2>1, <2>3, <2>4
  <2>6. size \in E
    <3>1. bits \in SUBSET (0 .. size) /\ bits # {}
      <4>1. ASSUME NEW a \in bits PROVE a \in 0 .. size
        <5>1. PICK c : c = ChunkSize(a)
          OBVIOUS
        <5> QED
          BY <2>3, <2>4, <5>1
      <4> QED
        BY <2>4, <4>1
    <3>2. PICK a \in bits : \A b \in bits : a >= b
      BY <2>4, <3>1, GreatestNatural
    <3>3. PICK n : n = a + ChunkSize(a)
      OBVIOUS
    <3>4. n \in Nat /\ a < n /\ n \in bits \union {size} /\ a \in Nat
      BY <2>3, <3>3
    <3>5. n = size
      BY <3>2, <3>4
    <3> QED
      BY <2>1, <3>3, <3>5
  <2>7. Max(E) = size
    <3>1. Max(E) \in E /\ \A y \in E : Max(E) >= y
      <4> HIDE DEF E
      <4> QED
        BY <2>4, <2>5, MaxFacts
    <3>2. PICK m : m = Max(E)
      OBVIOUS
    <3>3. m \in 0 .. size /\ m >= size
      BY <2>5, <2>6, <3>1, <3>2
    <3> QED
      BY <2>4, <3>2, <3>3
  <2> QED
    BY <2>1, <2>2, <2>7
<1> QED
  BY <1>1, InvariantHolds, HeapRemains, PTL

\* Every list that offers something offers a free chunk of its class, which is
\* in no live object and on no other list. (freeListAddBlockLast,
\* freeListRemoveFirstBlock.)
THEOREM ListsAlwaysOfferFree == Spec => []ListsOfferFree
<1>1. overlapped \/ IInv => ListsOfferFree
  <2> SUFFICES ASSUME IInv PROVE ListsOfferFree
    BY DEF ListsOfferFree
  <2> DEFINE offered == {k \in Classes : freeLists[k].first # NULL}
             units(k) == UnitsOf(freeLists[k].first, header[freeLists[k].first].size)
  <2>1. ASSUME NEW k \in offered, NEW a, a = freeLists[k].first
        PROVE  /\ a \in bits /\ header[a].flag = "free"
               /\ header[a].size = PowerOfTwo(k + LARGE_OBJECT_MIN_SIZE_BITS)
               /\ sizeToLinkedListIndex(header[a].size) = k
               /\ units(k) = UnitsOf(a, Length[a])
    BY <2>1, ListFacts DEF IInv
  <2>2. ASSUME NEW k \in offered PROVE units(k) \intersect LiveUnits = {}
    <3>1. PICK a : a = freeLists[k].first
      OBVIOUS
    <3>2. a \in bits /\ header[a].flag = "free" /\ units(k) = UnitsOf(a, Length[a])
      BY <2>1, <3>1
    <3>3. \A o \in live : a # o.start * MIN_BLOCK_SIZE
      BY <3>2 DEF IInv, Live
    <3> QED
      BY <3>2, <3>3, NotLive
  <2>3. ASSUME NEW k \in offered, NEW j \in offered \ {k}
        PROVE  units(j) \intersect units(k) = {}
    <3>1. PICK a : a = freeLists[k].first
      OBVIOUS
    <3>2. PICK b : b = freeLists[j].first
      OBVIOUS
    <3>3. /\ a \in bits /\ units(k) = UnitsOf(a, Length[a])
          /\ sizeToLinkedListIndex(header[a].size) = k
      BY <2>1, <3>1
    <3>4. /\ b \in bits /\ units(j) = UnitsOf(b, Length[b])
          /\ sizeToLinkedListIndex(header[b].size) = j
      BY <2>1, <3>2
    <3>5. a # b
      BY <3>3, <3>4
    <3> QED
      BY <3>3, <3>4, <3>5, ChunksApart
  <2> QED
    BY <2>1, <2>2, <2>3 DEF ListsOfferFree
<1> QED
  BY <1>1, InvariantHolds, PTL

\* An address inside a live object leads to that object, and one in free memory
\* to none: the bits below it and the stale words there never mislead.
\* (Object_GetLargeObject, Bitmap, the words that AddChunk and Sweep clear.)
THEOREM InnerPointersAlwaysResolve == Spec => []InnerPointersResolve
<1>1. overlapped \/ IInv => InnerPointersResolve
  <2> SUFFICES ASSUME IInv, Settled
               PROVE  /\ \A o \in live : \A u \in o.start .. o.start + o.size - 1 :
                            GetLargeObject(u * MIN_BLOCK_SIZE) = o.start * MIN_BLOCK_SIZE
                      /\ \A a \in Chain : header[a].flag = "free" =>
                            \A u \in UnitsOf(a, ChunkSize(a)) :
                                GetLargeObject(u * MIN_BLOCK_SIZE) = NULL
    BY DEF InnerPointersResolve
  <2>1. Chain = bits /\ \A a \in bits : TakenBy(a) = {} /\ Length[a] = ChunkSize(a)
    BY SettledFacts
  <2>2. ASSUME NEW a \in bits, NEW u \in UnitsOf(a, Length[a])
        PROVE  /\ u * MIN_BLOCK_SIZE < a + ChunkSize(a)
               /\ Max({b \in bits : b <= u * MIN_BLOCK_SIZE}) = a
    <3>1. a \in Multiples /\ Length[a] \in Multiples
      BY LayoutFacts DEF IInv
    <3>2. PICK i \in Nat : a = 1024 * i
      BY <3>1, Limits
    <3>3. PICK l : l = Length[a]
      OBVIOUS
    <3>4. PICK m \in Nat : l = 1024 * m
      BY <3>1, <3>3, Limits
    <3>5. u \in i .. i + m - 1
      BY <3>2, <3>3, <3>4 DEF UnitsOf, MIN_BLOCK_SIZE
    <3>6. PICK x \in Nat : x = u * MIN_BLOCK_SIZE
      BY <3>5 DEF MIN_BLOCK_SIZE
    <3>7. a <= x /\ x < a + l
      BY <3>2, <3>4, <3>5, <3>6 DEF MIN_BLOCK_SIZE
    <3>8. Max({b \in bits : b <= x}) = a
      BY <3>3, <3>7, BeginsBefore
    <3> QED
      BY <2>1, <3>3, <3>6, <3>7, <3>8
  <2>3. ASSUME NEW o \in live, NEW u \in o.start .. o.start + o.size - 1
        PROVE  GetLargeObject(u * MIN_BLOCK_SIZE) = o.start * MIN_BLOCK_SIZE
    <3>1. PICK a : a = o.start * MIN_BLOCK_SIZE
      OBVIOUS
    <3>2. a \in bits /\ header[a].word # NULL /\ u \in UnitsOf(a, Length[a])
      BY <2>1, <3>1, ObjectUnits
    <3>3. PICK x : x = u * MIN_BLOCK_SIZE
      OBVIOUS
    <3>4. x < a + ChunkSize(a) /\ Max({b \in bits : b <= x}) = a
      BY <2>2, <3>2, <3>3
    <3>5. GetLargeObject(x) = a
      BY <3>2, <3>4 DEF GetLargeObject
    <3> QED
      BY <3>1, <3>3, <3>5
  <2>4. ASSUME NEW a \in bits, header[a].flag = "free", NEW u \in UnitsOf(a, ChunkSize(a))
        PROVE  GetLargeObject(u * MIN_BLOCK_SIZE) = NULL
    <3>1. u \in UnitsOf(a, Length[a])
      BY <2>1, <2>4
    <3>2. PICK x : x = u * MIN_BLOCK_SIZE
      OBVIOUS
    <3>3. Max({b \in bits : b <= x}) = a
      BY <2>2, <3>1, <3>2
    <3>4. header[a].word = NULL /\ ~(x = a /\ header[x].flag = "allocated")
      BY <2>4 DEF IInv, Free
    <3>5. GetLargeObject(x) = NULL
      BY <3>3, <3>4 DEF GetLargeObject
    <3> QED
      BY <3>2, <3>5
  <2> QED
    BY <2>1, <2>3, <2>4
<1> QED
  BY <1>1, InvariantHolds, PTL

LEMMA PlaceUnits ==
    ASSUME NEW o \in S!Places
    PROVE  /\ o.start \in Nat /\ o.size \in Nat /\ o.block = "large"
           /\ o.start .. o.start + o.size - 1
                = UnitsOf(o.start * MIN_BLOCK_SIZE, o.size * MIN_BLOCK_SIZE)
<1>1. o.start \in Nat /\ o.size \in Nat /\ o.block = "large"
  <2>1. \A n \in Sizes : DivAndRoundUp(n, MIN_BLOCK_SIZE) \in Nat
    BY SizeFacts DEF DivAndRoundUp, MIN_BLOCK_SIZE
  <2> QED
    BY <2>1, Limits, UnitCount DEF S!Places, S!Slots
<1>2. PICK s \in Nat : s = o.start
  BY <1>1
<1>3. PICK z \in Nat : z = o.size
  BY <1>1
<1>4. UnitsOf(s * MIN_BLOCK_SIZE, z * MIN_BLOCK_SIZE) = s .. s + z - 1
  <2>1. (s * 1024) \div 1024 = s /\ (s * 1024 + z * 1024) \div 1024 = s + z
    OBVIOUS
  <2> QED
    BY <2>1 DEF UnitsOf, MIN_BLOCK_SIZE
<1> QED
  BY <1>1, <1>2, <1>3, <1>4

\* Two objects share a word only if they share a unit.
LEMMA WordsApart ==
    ASSUME NEW o \in S!Places, NEW p \in S!Places,
           UnitsOf(o.start * MIN_BLOCK_SIZE, o.size * MIN_BLOCK_SIZE)
             \intersect UnitsOf(p.start * MIN_BLOCK_SIZE, p.size * MIN_BLOCK_SIZE) = {}
    PROVE  S!WordsOf(o) \intersect S!WordsOf(p) = {}
<1>1. PICK T : T = o.start .. o.start + o.size - 1
  OBVIOUS
<1>2. PICK R : R = p.start .. p.start + p.size - 1
  OBVIOUS
<1>3. T \intersect R = {}
  BY <1>1, <1>2, PlaceUnits
<1>4. S!WordsOf(o) = {<<o.block, s>> : s \in T} /\ S!WordsOf(p) = {<<p.block, s>> : s \in R}
  BY <1>1, <1>2 DEF S!WordsOf
<1> QED
  BY <1>3, <1>4

\* To its mutator the large heap is the object store: an allocation returns
\* memory that no live object uses, and an object stays where it is until a
\* collection finds it dead. What excuses it is an overlapping growth, not other
\* threads that allocate while the heap grows.
\* (The components together, behind Heap_AllocLarge.)
THEOREM LargeHeapImplementsStore == Spec => ImplementsObjectStore
<1>1. Init => S!Init
  BY DEF Init, S!Init
<1>2. (overlapped \/ IInv) /\ [Next]_vars => [S!Next]_(S!vars)
  <2> SUFFICES ASSUME IInv, [Next]_vars, ~overlapped' PROVE S!Next
    BY OverlapStays DEF S!Next
  <2>4. /\ IInv' /\ (Dropped \/ \E t \in Threads, n \in Sizes : Handed(t, n))
    BY NextInv, StutterInv
  <2>5. ~overlapped /\ UNCHANGED <<overwritten, overlapped>>
    BY <2>4 DEF IInv, Apart
  <2>1. CASE Dropped
    BY <2>1, <2>5 DEF Dropped, S!Next, S!Collect
  <2>2. ASSUME NEW t \in Threads, NEW n \in Sizes, Handed(t, n) PROVE S!Next
    <3>1. PICK o \in S!Places : /\ live' = live \union {o}
                                /\ o.start * MIN_BLOCK_SIZE = Found(n)
                                /\ o.size * MIN_BLOCK_SIZE = Actual(n)
      BY <2>2 DEF Handed
    <3>2. /\ UnitsOf(Found(n), Actual(n)) \intersect LiveUnits = {}
      BY <2>2, HandedIsFree DEF Handed
    <3>3. ASSUME NEW p \in live PROVE S!WordsOf(p) \intersect S!WordsOf(o) = {}
      <4>1. p \in S!Places
        BY Typed DEF IInv
      <4>2. UnitsOf(p.start * MIN_BLOCK_SIZE, p.size * MIN_BLOCK_SIZE) \subseteq LiveUnits
        BY <4>1, PlaceUnits DEF LiveUnits
      <4>3. UnitsOf(p.start * MIN_BLOCK_SIZE, p.size * MIN_BLOCK_SIZE)
              \intersect UnitsOf(o.start * MIN_BLOCK_SIZE, o.size * MIN_BLOCK_SIZE) = {}
        BY <3>1, <3>2, <4>2
      <4> QED
        BY <4>1, <4>3, WordsApart
    <3> QED
      BY <2>5, <3>1, <3>3 DEF S!Next, S!Alloc, S!Overlaps
  <2> QED
    BY <2>1, <2>2, <2>4
<1> QED
  BY <1>1, <1>2, InvariantHolds, PTL DEF Spec, ImplementsObjectStore, S!Spec

\* Without an overlapping growth no two live large objects overlap, and no memory
\* of one is ever handed out, be it exactly its place. (GetBlock, Sweep.)
THEOREM LargeObjectsApart == Spec => []S!Sound
<1>1. IInv => S!Disjoint
  <2> SUFFICES ASSUME IInv, NEW o \in live, NEW p \in live, o # p
               PROVE  S!WordsOf(o) \intersect S!WordsOf(p) = {}
    BY DEF S!Disjoint
  <2>1. PICK a : a = o.start * MIN_BLOCK_SIZE
    OBVIOUS
  <2>2. PICK b : b = p.start * MIN_BLOCK_SIZE
    OBVIOUS
  <2>3. /\ a \in bits /\ Length[a] = o.size * MIN_BLOCK_SIZE
        /\ b \in bits /\ Length[b] = p.size * MIN_BLOCK_SIZE
    BY <2>1, <2>2, ObjectUnits
  <2>4. o \in S!Places /\ p \in S!Places
    BY Typed DEF IInv
  <2>5. a # b
    <3> SUFFICES ASSUME a = b PROVE FALSE
      OBVIOUS
    <3>1. o.start = p.start /\ o.size = p.size /\ o.block = p.block
      <4>1. /\ o.start \in Nat /\ o.size \in Nat /\ p.start \in Nat /\ p.size \in Nat
            /\ o.block = p.block
        BY <2>4, PlaceUnits
      <4>2. /\ o.start * MIN_BLOCK_SIZE = p.start * MIN_BLOCK_SIZE
            /\ o.size * MIN_BLOCK_SIZE = p.size * MIN_BLOCK_SIZE
        BY <2>1, <2>2, <2>3, Zenon
      <4> QED
        BY <4>1, <4>2 DEF MIN_BLOCK_SIZE
    <3>2. o = p
      BY <2>4, <3>1 DEF S!Places
    <3> QED
      BY <3>2
  <2>6. UnitsOf(a, Length[a]) \intersect UnitsOf(b, Length[b]) = {}
    BY <2>3, <2>5, ChunksApart
  <2> QED
    BY <2>1, <2>2, <2>3, <2>4, <2>6, WordsApart
<1>2. overlapped \/ IInv => S!Sound
  BY <1>1 DEF S!Sound, IInv, Apart
<1> QED
  BY <1>2, InvariantHolds, PTL

\* The larger a range, the larger the first chunk AddChunk cuts from it.
LEMMA LargestGrows ==
    ASSUME NEW n \in Multiples \ {0}, NEW m \in Multiples \ {0}, n <= m
    PROVE  sizeToLinkedListIndex(n) <= sizeToLinkedListIndex(Largest(m))
<1>1. PICK h \in 10 .. 28 : Power[h] <= n /\ n < Power[h + 1] /\ FloorOf[n] = h + 3
  BY FloorFacts
<1>2. PICK k \in 10 .. 28 : Power[k] <= m /\ m < Power[k + 1] /\ FloorOf[m] = k + 3
  BY FloorFacts
<1>3. h \in 0 .. 31 /\ k \in 0 .. 30 /\ k \in 0 .. 31 /\ Power[k + 1] = 2 * Power[k]
      /\ Power[k] \in Nat /\ Power[h] \in Nat
  BY PowerStep, PowerNat
<1>4. n \in Nat /\ m \in Nat /\ m <= 2 * MemoryLimit /\ MemoryLimit \in Nat
  BY LimitType
<1>5. Power[h] < 2 * Power[k]
  BY <1>1, <1>2, <1>3, <1>4
<1>6. h <= k
  BY <1>3, <1>5, PowerOrder
<1>7. Power[k] <= 2 * MemoryLimit
  BY <1>2, <1>3, <1>4
<1>8. Largest(m) = Power[k]
  BY <1>2, <1>3, PowerOfTwoIs DEF Largest
<1>9. sizeToLinkedListIndex(Largest(m)) = k - 10
  BY <1>7, <1>8, PowerIsSize
<1>10. sizeToLinkedListIndex(n) = h - 10
  BY <1>1 DEF sizeToLinkedListIndex, LARGE_OBJECT_MIN_SIZE_BITS
<1> QED
  BY <1>6, <1>9, <1>10

\* Every address of the heap is in a tile.
LEMMA InSomeTile ==
    ASSUME NEW T, NEW len, NEW to \in Nat, Tiles(T, len, 0, to), NEW x \in Nat, x < to
    PROVE  \E y \in T : y <= x /\ x < y + len[y]
<1> DEFINE Below == {y \in T : y <= x}
<1>1. ASSUME NEW y \in T
      PROVE  y \in Nat /\ len[y] \in Nat \ {0} /\ y + len[y] \in T \union {to}
  BY TileFacts
<1>2. 0 \in T
  BY DEF Tiles
<1>3. Below \in SUBSET (0 .. x) /\ Below # {}
  BY <1>1, <1>2
<1>4. PICK y \in Below : \A z \in Below : y >= z
  <2> HIDE DEF Below
  <2> QED
    BY <1>3, GreatestNatural
<1>5. PICK n : n = y + len[y]
  OBVIOUS
<1>6. y \in T /\ y \in Nat /\ y <= x /\ n \in Nat /\ y < n /\ n \in T \union {to}
  BY <1>1, <1>4, <1>5
<1>7. x < n
  BY <1>4, <1>6
<1> QED
  BY <1>5, <1>6, <1>7

\* After a sweep every range of memory without a live object can be had, though
\* the lists keep one chunk of a class: what is left of a run after the chunk
\* that a list offers is smaller. (LargeAllocator_Sweep, AddChunk.)
LEMMA CollectOffers ==
    ASSUME IInv, Collect, NEW a \in Units, NEW b \in Units, a <= b, b * MIN_BLOCK_SIZE < size,
           (a .. b) \intersect LiveUnits' = {}
    PROVE  Offers((b - a + 1) * MIN_BLOCK_SIZE)'
<1>1. HeapTyped /\ Layout /\ Live /\ Taken
  BY DEF IInv
<1>2. (\A t \in Threads : pc[t] \in {"idle", "collect"}) /\ live' \in SUBSET live
  BY DEF Collect
<1>3. \A t \in Threads : object[t] = NULL
  BY <1>1, <1>2 DEF Taken
<1>4. Chain = bits
  BY <1>1, <1>3, ChainIsBits
<1> DEFINE marked == {o.start * MIN_BLOCK_SIZE : o \in live'}
<1>5. PICK dead : dead = Chain \ marked
  OBVIOUS
<1>6. dead \in SUBSET bits
  BY <1>4, <1>5
<1>7. freeLists' = AddedLast(EmptyLists, Recut(dead))
  BY <1>5 DEF Collect, Sweep, EmptyLists, Recut
<1>8. Fresh(Recut(dead))
  BY <1>1, <1>4, <1>6, RecutFacts
<1>9. IsAdded(freeLists', Recut(dead), EmptyLists)
  BY <1>7, <1>8, EmptyListsFacts, AddedChunks
<1>10. /\ a \in Nat /\ b \in Nat /\ NumUnits \in Nat /\ a < NumUnits /\ b < NumUnits
       /\ size \in Nat /\ size \in Multiples
  BY <1>1, Limits, TypeFacts
<1>11. \A x \in bits : x \in marked =>
          \E i \in Nat, m \in Nat \ {0} : /\ x = 1024 * i /\ Length[x] = 1024 * m
                                          /\ \A u \in i .. i + m - 1 : u \notin a .. b
  <2> SUFFICES ASSUME NEW x \in bits, x \in marked
               PROVE  \E i \in Nat, m \in Nat \ {0} :
                         /\ x = 1024 * i /\ Length[x] = 1024 * m
                         /\ \A u \in i .. i + m - 1 : u \notin a .. b
    OBVIOUS
  <2>1. PICK o \in live' : x = o.start * MIN_BLOCK_SIZE
    OBVIOUS
  <2>2. /\ o \in live /\ Length[x] = o.size * MIN_BLOCK_SIZE
        /\ o.start \in Nat /\ o.size \in Nat
    BY <1>2, <2>1, ObjectUnits
  <2>3. PICK i \in Nat : i = o.start
    BY <2>2
  <2>4. PICK m \in Nat : m = o.size
    BY <2>2
  <2>5. x = 1024 * i /\ Length[x] = 1024 * m
    BY <2>1, <2>2, <2>3, <2>4 DEF MIN_BLOCK_SIZE
  <2>6. Length[x] \in Nat \ {0}
    BY <1>1, LayoutFacts
  <2>7. m # 0
    BY <2>5, <2>6
  <2>8. \A u \in i .. i + m - 1 : u \in LiveUnits'
    BY <2>1, <2>3, <2>4 DEF LiveUnits
  <2> HIDE DEF marked
  <2> QED
    BY <2>5, <2>7, <2>8
<1> HIDE DEF marked
<1>12. PICK x \in Nat : x = 1024 * a
  BY <1>10
<1>13. x < size
  BY <1>10, <1>12 DEF MIN_BLOCK_SIZE
<1>14. PICK y \in BitsSwept(dead) : y <= x /\ x < y + RunLength(dead)[y]
  <2>1. Tiles(BitsSwept(dead), RunLength(dead), 0, size)
    BY <1>1, <1>4, <1>6, RunsTile
  <2> QED
    BY <1>10, <1>13, <2>1, InSomeTile
<1>15. y \in Heads(dead)
  <2> SUFFICES ASSUME y \notin Heads(dead) PROVE FALSE
    OBVIOUS
  <2>1. y \in bits /\ y \in marked
    BY <1>4, <1>5, <1>14 DEF BitsSwept
  <2>2. RunLength(dead)[y] = Length[y]
    BY <2>1 DEF RunLength
  <2>3. PICK i \in Nat, m \in Nat \ {0} : /\ y = 1024 * i /\ Length[y] = 1024 * m
                                          /\ \A u \in i .. i + m - 1 : u \notin a .. b
    BY <1>11, <2>1
  <2>4. a \in i .. i + m - 1
    BY <1>10, <1>12, <1>14, <2>2, <2>3
  <2>5. a \in a .. b
    BY <1>10
  <2> QED
    BY <2>3, <2>4, <2>5
<1>16. PICK e : e = RunEnd(dead, y)
  OBVIOUS
<1>17. /\ y \in dead /\ y \in Nat /\ y \in Multiples /\ e \in Nat /\ e \in Multiples
       /\ y < e /\ e \in bits \union {size} /\ e \notin dead
  BY <1>1, <1>4, <1>6, <1>15, <1>16, RunPieces, RunFacts
<1>18. x < e
  <2>1. y \in bits
    BY <1>6, <1>17
  <2>2. RunLength(dead)[y] = e - y
    BY <1>15, <1>16, <2>1 DEF RunLength
  <2> QED
    BY <1>12, <1>14, <1>17, <2>2
<1>19. 1024 * (b + 1) <= e
  <2>1. PICK j \in Nat : e = 1024 * j
    BY <1>17, Limits
  <2>2. CASE e = size
    BY <1>10, <2>1, <2>2 DEF MIN_BLOCK_SIZE
  <2>3. CASE e \in bits
    <3>1. e \in marked
      BY <1>4, <1>5, <1>17, <2>3
    <3>2. PICK i \in Nat, m \in Nat \ {0} : /\ e = 1024 * i /\ Length[e] = 1024 * m
                                            /\ \A u \in i .. i + m - 1 : u \notin a .. b
      BY <1>11, <2>3, <3>1
    <3>3. i \notin a .. b
      BY <3>2
    <3>4. a < i
      BY <1>10, <1>12, <1>18, <3>2
    <3>5. b < i
      BY <1>10, <3>2, <3>3, <3>4
    <3> QED
      BY <1>10, <3>2, <3>5
  <2> QED
    BY <1>17, <2>2, <2>3
<1>20. PICK n : n = (b - a + 1) * MIN_BLOCK_SIZE
  OBVIOUS
<1>21. PICK m : m = e - y
  OBVIOUS
<1>22. n \in Multiples \ {0} /\ m \in Multiples \ {0} /\ n <= m
  <2>1. n \in Nat \ {0} /\ n = 1024 * (b - a + 1) /\ b - a + 1 \in 0 .. 2 * NumUnits
    BY <1>10, <1>20 DEF MIN_BLOCK_SIZE
  <2>2. n \in Multiples
    <3>1. PICK c \in 0 .. 2 * NumUnits : c = b - a + 1
      BY <2>1
    <3>2. n = 1024 * c
      BY <2>1, <3>1
    <3> QED
      BY <3>2, Limits
  <2>3. m \in Multiples /\ m # 0
    BY <1>17, <1>21, MultipleFacts
  <2>4. n <= m
    BY <1>10, <1>12, <1>14, <1>17, <1>19, <1>21, <2>1
  <2> QED
    BY <2>1, <2>2, <2>3, <2>4
<1>23. [at |-> y, size |-> Largest(m)] \in Recut(dead)
  <2>1. y + m \in Multiples
    BY <1>17, <1>21
  <2>2. [at |-> y, size |-> Largest(m)] \in Pieces(y, m)
    BY <1>17, <1>22, <2>1, PiecesCut
  <2> QED
    BY <1>15, <1>16, <1>21, <2>2 DEF Recut
<1>24. PICK k : k = sizeToLinkedListIndex(Largest(m))
  OBVIOUS
<1>25. PICK p \in Recut(dead) : p.size = Largest(m)
  BY <1>23
<1>26. k \in Classes /\ freeLists'[k].first # NULL
  BY <1>8, <1>9, <1>24, <1>25, FreshFacts DEF IsAdded
<1>27. sizeToLinkedListIndex(n) <= k
  BY <1>22, <1>24, LargestGrows
<1>28. sizeToLinkedListIndex(n) \in Int /\ k \in Int
  BY <1>22, <1>26, FloorFacts DEF sizeToLinkedListIndex, LARGE_OBJECT_MIN_SIZE_BITS, Classes
<1>29. Offers(n)'
  BY <1>26, <1>27, <1>28 DEF Offers
<1> QED
  BY <1>20, <1>29

\* After a sweep every power of two that fits between live objects can be had:
\* dead neighbours were merged, and chunks the lists had lost were found again.
\* (LargeAllocator_Sweep.)
THEOREM SweepAlwaysOffers == Spec => SweepOffers
<1>1. (overlapped \/ IInv) /\ [Next]_vars =>
        [~overlapped /\ collections' # collections =>
            \A a, b \in Units : a <= b /\ b * MIN_BLOCK_SIZE < size
                  /\ (a .. b) \intersect LiveUnits' = {}
                => Offers((b - a + 1) * MIN_BLOCK_SIZE)']_vars
  <2>1. IInv /\ [Next]_vars /\ collections' # collections => Collect
    BY DEF Next, FirstTry, Retry, LastTry, Try, Stamp, GrowLarge, MoveEnd, Grow, vars
  <2> QED
    BY <2>1, CollectOffers
<1> QED
  BY <1>1, InvariantHolds, PTL DEF Spec, SweepOffers
=============================================================================
