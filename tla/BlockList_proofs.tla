-------------------------- MODULE BlockList_proofs --------------------------
(* What the operations of BlockList do to the sequence a list encodes.  The *)
(* lemmas are about any set of blocks and any links; GlobalBlockAllocator's *)
(* proofs use the lists only through them.                                  *)
EXTENDS BlockList, SequencesExt, SequenceTheorems, TLAPS

Distinct(s) == \A i, j \in DOMAIN s : s[i] = s[j] => i = j

\* The list, with links nb, is that of the sequence s of distinct blocks of B.
IsList(B, list, nb, s) ==
    /\ s \in Seq(B) /\ Distinct(s) /\ Encodes(list, nb, s)
    /\ list \in [first : B \union {NULL}, last : B \union {NULL}]

LEMMA EmptyIsList ==
    ASSUME NEW B, NEW nb
    PROVE  IsList(B, EmptyList, nb, <<>>) /\ ToSet(<<>>) = {}
  BY DEF IsList, EmptyList, Encodes, Distinct, IsEmpty, ToSet

LEMMA EmptyIffNoBlock ==
    ASSUME NEW B \in SUBSET Nat, NEW list, NEW nb, NEW s, IsList(B, list, nb, s)
    PROVE  /\ IsEmpty(list) <=> s = <<>>
           /\ IsEmpty(list) <=> ToSet(s) = {}
           /\ IsEmpty(list) <=> list.first = NULL
           /\ Len(s) \in Nat /\ ToSet(s) \subseteq B /\ NULL \notin ToSet(s)
           /\ ~IsEmpty(list) => list.first = s[1] /\ list.first \in ToSet(s) /\ Len(s) >= 1
           /\ list.first \in ToSet(s) \union {NULL}
<1>1. NULL \notin B
  BY DEF NULL
<1>2. CASE s = <<>>
  BY <1>1, <1>2 DEF IsList, Encodes, IsEmpty, ToSet
<1>3. CASE s # <<>>
  <2>1. Len(s) \in Nat /\ Len(s) >= 1 /\ DOMAIN s = 1 .. Len(s) /\ 1 \in DOMAIN s
    BY <1>3 DEF IsList
  <2>2. list.first = s[1] /\ s[1] \in B /\ s[1] \in ToSet(s)
    BY <1>3, <2>1 DEF IsList, Encodes, ToSet
  <2>3. ToSet(s) \subseteq B
    BY <2>1 DEF IsList, ToSet
  <2> QED
    BY <1>1, <1>3, <2>1, <2>2, <2>3 DEF IsEmpty
<1> QED
  BY <1>2, <1>3

\* Another list is untouched by links that do not change in its blocks.
LEMMA UntouchedList ==
    ASSUME NEW B \in SUBSET Nat, NEW list, NEW nb, NEW nb2, NEW s, IsList(B, list, nb, s),
           \A b \in ToSet(s) : nb2[b] = nb[b]
    PROVE  IsList(B, list, nb2, s)
<1>1. CASE s = <<>>
  BY <1>1 DEF IsList, Encodes
<1>2. CASE s # <<>>
  <2>1. Len(s) \in Nat /\ Len(s) >= 1 /\ DOMAIN s = 1 .. Len(s)
    BY <1>2 DEF IsList
  <2>2. \A i \in 1 .. Len(s) : nb2[s[i]] = nb[s[i]]
    BY <2>1 DEF ToSet
  <2>3. \A i \in 1 .. Len(s) : NextBlock(nb2, s[i]) = NextBlock(nb, s[i])
    BY <2>2 DEF NextBlock
  <2> QED
    BY <1>2, <2>1, <2>2, <2>3 DEF IsList, Encodes
<1> QED
  BY <1>1, <1>2

\* BlockList_RemoveFirstBlock takes the first block and leaves the rest.
LEMMA RemovedFirst ==
    ASSUME NEW B \in SUBSET Nat, NEW list, NEW nb, NEW s, IsList(B, list, nb, s),
           ~IsEmpty(list)
    PROVE  /\ IsList(B, WithoutFirst(list, nb), nb, Tail(s))
           /\ ToSet(Tail(s)) = ToSet(s) \ {list.first}
           /\ Len(Tail(s)) = Len(s) - 1
<1> DEFINE t == Tail(s)
<1>1. s # <<>> /\ list.first = s[1]
  BY EmptyIffNoBlock
<1>2. Len(s) \in Nat /\ Len(s) >= 1 /\ DOMAIN s = 1 .. Len(s)
  BY <1>1 DEF IsList
<1>3. /\ t \in Seq(B) /\ Len(t) = Len(s) - 1 /\ DOMAIN t = 1 .. Len(s) - 1
      /\ \A i \in 1 .. Len(s) - 1 : t[i] = s[i + 1]
  BY <1>1, <1>2 DEF IsList
<1>4. Distinct(t)
  BY <1>2, <1>3 DEF Distinct, IsList
<1>5. ToSet(t) = ToSet(s) \ {s[1]}
  <2>1. ASSUME NEW i \in 1 .. Len(s) - 1 PROVE t[i] \in ToSet(s) /\ t[i] # s[1]
    <3>1. i + 1 \in DOMAIN s /\ 1 \in DOMAIN s /\ t[i] = s[i + 1] /\ i + 1 # 1
      BY <1>2, <1>3
    <3> QED
      BY <3>1 DEF Distinct, IsList, ToSet
  <2>2. ASSUME NEW i \in 1 .. Len(s), s[i] # s[1] PROVE s[i] \in ToSet(t)
    <3>1. i - 1 \in DOMAIN t /\ t[i - 1] = s[i]
      BY <1>2, <1>3, <2>2
    <3> QED
      BY <3>1 DEF ToSet
  <2> QED
    BY <1>2, <1>3, <2>1, <2>2 DEF ToSet
<1>6. WithoutFirst(list, nb) = [first |-> NextBlock(nb, s[1]), last |-> list.last]
  BY <1>1 DEF WithoutFirst, IsList
<1>7. CASE Len(s) = 1
  <2>1. t = <<>> /\ nb[s[1]] = LAST_BLOCK
    BY <1>1, <1>3, <1>7 DEF IsList, Encodes
  <2>2. NextBlock(nb, s[1]) = NULL
    BY <2>1 DEF NextBlock, LAST_BLOCK, NULL
  <2> QED
    BY <1>1, <1>3, <1>4, <1>5, <1>6, <2>1, <2>2 DEF IsList, Encodes, IsEmpty
<1>8. CASE Len(s) >= 2
  <2> DEFINE m == Len(s) - 1
  <2>1. /\ m \in Nat /\ m >= 1 /\ m = Len(t) /\ m + 1 = Len(s)
        /\ 1 \in 1 .. m /\ m \in 1 .. m /\ 1 + 1 = 2
    BY <1>2, <1>3, <1>8
  <2>1a. t[1] = s[1 + 1] /\ t[m] = s[m + 1] /\ t[1] \in B
    BY <1>3, <2>1
  <2>1c. t # <<>>
    <3>1. DOMAIN t = 1 .. m
      BY <1>3
    <3>2. DOMAIN <<>> = {}
      OBVIOUS
    <3> QED
      BY <2>1, <3>1, <3>2
  <2>1b. t # <<>> /\ t[1] = s[2] /\ t[Len(t)] = s[Len(s)] /\ t[1] \in B
    BY <2>1, <2>1a, <2>1c
  <2>2. NextBlock(nb, s[1]) = t[1]
    BY <1>1, <1>2, <1>8, <2>1b DEF IsList, Encodes
  <2>3. \A i \in 1 .. Len(t) - 1 : NextBlock(nb, t[i]) = t[i + 1]
    BY <1>1, <1>2, <1>3, <1>8 DEF IsList, Encodes
  <2>4. list.last = t[Len(t)] /\ nb[t[Len(t)]] = LAST_BLOCK
    BY <1>1, <2>1b DEF IsList, Encodes
  <2> QED
    BY <1>1, <1>3, <1>4, <1>5, <1>6, <2>1b, <2>2, <2>3, <2>4 DEF IsList, Encodes
<1> QED
  BY <1>2, <1>7, <1>8

\* BlockList_AddLast: the block joins the end, provided it is in no place of
\* the list yet and is not block 0 unless it comes first.
LEMMA AddedBlock ==
    ASSUME NEW B \in SUBSET Nat, NEW list, NEW nb, NEW s, IsList(B, list, nb, s),
           nb \in [B -> B \union {LAST_BLOCK, 0}],
           NEW b \in B, b \notin ToSet(s), b = 0 => ToSet(s) = {}
    PROVE  /\ IsList(B, AddLast(list, b, b), LinksAddLast(list, nb, b, b), Append(s, b))
           /\ ToSet(Append(s, b)) = ToSet(s) \union {b}
           /\ Len(Append(s, b)) = Len(s) + 1
           /\ LinksAddLast(list, nb, b, b) \in [B -> B \union {LAST_BLOCK, 0}]
           /\ \A c \in B \ (ToSet(s) \union {b}) : LinksAddLast(list, nb, b, b)[c] = nb[c]
<1> DEFINE a == Append(s, b)
           l == AddLast(list, b, b)
           n == LinksAddLast(list, nb, b, b)
<1>1. s \in Seq(B) /\ Len(s) \in Nat /\ DOMAIN s = 1 .. Len(s)
  BY DEF IsList
<1>2. /\ a \in Seq(B) /\ Len(a) = Len(s) + 1 /\ DOMAIN a = 1 .. Len(s) + 1 /\ a # <<>>
      /\ \A i \in 1 .. Len(s) : a[i] = s[i]
      /\ a[Len(s) + 1] = b
  <2>1. /\ a \in Seq(B) /\ Len(a) = Len(s) + 1 /\ a # <<>>
        /\ \A i \in 1 .. Len(s) : a[i] = s[i]
        /\ a[Len(s) + 1] = b
    BY <1>1, AppendProperties
  <2> QED
    BY <1>1, <2>1
<1>3. \A i \in 1 .. Len(s) : s[i] # b /\ s[i] \in ToSet(s) /\ s[i] \in B
  BY <1>1 DEF ToSet
<1>4. ToSet(a) = ToSet(s) \union {b}
  <2>1. \A i \in 1 .. Len(s) + 1 : a[i] \in ToSet(s) \union {b}
    BY <1>1, <1>2, <1>3
  <2>2. \A i \in 1 .. Len(s) : s[i] \in ToSet(a)
    BY <1>1, <1>2 DEF ToSet
  <2>3. b \in ToSet(a)
    BY <1>1, <1>2 DEF ToSet
  <2> QED
    BY <1>1, <1>2, <2>1, <2>2, <2>3 DEF ToSet
<1>5. Distinct(a)
  BY <1>1, <1>2, <1>3 DEF Distinct, IsList
<1>6. l \in [first : B \union {NULL}, last : B \union {NULL}]
  BY DEF AddLast, IsList
<1>7. CASE s = <<>>
  <2>1. l = [first |-> b, last |-> b] /\ n = [nb EXCEPT ![b] = LAST_BLOCK]
    BY <1>7 DEF AddLast, LinksAddLast, IsList, Encodes
  <2>2. Encodes(l, n, a)
    BY <1>2, <1>7, <2>1 DEF Encodes
  <2> QED
    BY <1>2, <1>4, <1>5, <1>6, <2>1, <2>2 DEF IsList
<1>8. CASE s # <<>>
  <2>1. /\ ~IsEmpty(list) /\ list.first = s[1] /\ list.last = s[Len(s)] /\ Len(s) >= 1
        /\ nb[s[Len(s)]] = LAST_BLOCK
    <3>1. list.first = s[1] /\ list.last = s[Len(s)] /\ nb[s[Len(s)]] = LAST_BLOCK
      BY <1>8 DEF IsList, Encodes
    <3>2. ~IsEmpty(list) /\ Len(s) >= 1
      BY <1>1, <1>8, EmptyIffNoBlock
    <3> QED
      BY <3>1, <3>2
  <2>2. n = [nb EXCEPT ![s[Len(s)]] = b, ![b] = LAST_BLOCK]
    BY <2>1 DEF LinksAddLast
  <2>3. l = [first |-> s[1], last |-> b]
    BY <2>1 DEF AddLast
  <2>4. s[Len(s)] \in B /\ s[Len(s)] # b /\ s[Len(s)] \in ToSet(s)
    BY <1>3, <1>1, <2>1
  <2>5. n[s[Len(s)]] = b /\ n[b] = LAST_BLOCK
    BY <2>2, <2>4
  <2>6. \A c \in B : c # s[Len(s)] /\ c # b => n[c] = nb[c]
    BY <2>2
  <2>7. ASSUME NEW i \in 1 .. Len(s) PROVE NextBlock(n, a[i]) = a[i + 1]
    <3>1. CASE i = Len(s)
      <4>1. a[i] = s[Len(s)] /\ a[i + 1] = b
        BY <1>1, <1>2, <3>1
      <4>2. b # 0 /\ b # LAST_BLOCK
        <5>1. s[1] \in ToSet(s)
          BY <1>1, <1>8 DEF ToSet
        <5> QED
          BY <5>1 DEF LAST_BLOCK
      <4> QED
        BY <2>5, <4>1, <4>2 DEF NextBlock
    <3>2. CASE i < Len(s)
      <4>1. i \in 1 .. Len(s) - 1 /\ i + 1 \in 1 .. Len(s) /\ Len(s) \in DOMAIN s
        BY <1>1, <2>7, <3>2
      <4>2. a[i] = s[i] /\ a[i + 1] = s[i + 1] /\ NextBlock(nb, s[i]) = s[i + 1]
        BY <1>2, <1>8, <2>7, <4>1 DEF IsList, Encodes
      <4>3. s[i] # s[Len(s)] /\ s[i] # b /\ s[i] \in B
        BY <1>1, <1>3, <3>2, <4>1 DEF Distinct, IsList
      <4>4. n[s[i]] = nb[s[i]]
        BY <2>6, <4>3
      <4> QED
        BY <4>2, <4>4 DEF NextBlock
    <3>3. i = Len(s) \/ i < Len(s)
      <4>1. Len(s) \in Nat
        BY <1>1
      <4>2. i \in Int /\ i <= Len(s)
        BY <4>1, <2>7
      <4> QED
        BY <4>1, <4>2
    <3> QED
      BY <3>1, <3>2, <3>3
  <2>8. Encodes(l, n, a)
    BY <1>1, <1>2, <2>1, <2>3, <2>5, <2>7 DEF Encodes
  <2>9. n \in [B -> B \union {LAST_BLOCK, 0}]
    BY <2>2, <2>4
  <2> QED
    BY <1>2, <1>4, <1>5, <1>6, <2>4, <2>6, <2>8, <2>9 DEF IsList
<1> QED
  BY <1>7, <1>8

\* The k zeroed blocks f .. e may follow the blocks of the list.
Appendable(B, list, nb, s, f, k, e) ==
    /\ B \in SUBSET Nat /\ IsList(B, list, nb, s)
    /\ nb \in [B -> B \union {LAST_BLOCK, 0}]
    /\ f \in Nat /\ k \in Nat \ {0} /\ e = f + k - 1
    /\ f .. e \subseteq B \ ToSet(s) /\ (f = 0 => ToSet(s) = {})
    /\ \A c \in f .. e : nb[c] = 0

Appended(s, f, k) == s \o [i \in 1 .. k |-> f + i - 1]

\* BlockList_AddBlocksLast: so does a range of zeroed blocks, with only its last
\* header written.
LEMMA AddedRange ==
    ASSUME NEW B, NEW list, NEW nb, NEW s, NEW f, NEW k, NEW e,
           Appendable(B, list, nb, s, f, k, e)
    PROVE  /\ IsList(B, AddLast(list, f, e), LinksAddLast(list, nb, f, e), Appended(s, f, k))
           /\ ToSet(Appended(s, f, k)) = ToSet(s) \union f .. e
           /\ Len(Appended(s, f, k)) = Len(s) + k
           /\ LinksAddLast(list, nb, f, e) \in [B -> B \union {LAST_BLOCK, 0}]
           /\ \A c \in B \ (ToSet(s) \union f .. e) : LinksAddLast(list, nb, f, e)[c] = nb[c]
<1> DEFINE r == [i \in 1 .. k |-> f + i - 1]
           a == s \o r
           l == AddLast(list, f, e)
           n == LinksAddLast(list, nb, f, e)
<1>0. /\ B \in SUBSET Nat /\ IsList(B, list, nb, s)
      /\ nb \in [B -> B \union {LAST_BLOCK, 0}]
      /\ f \in Nat /\ k \in Nat \ {0} /\ e = f + k - 1
      /\ f .. e \subseteq B \ ToSet(s) /\ (f = 0 => ToSet(s) = {})
      /\ \A c \in f .. e : nb[c] = 0
  BY DEF Appendable
<1> USE <1>0
<1>1. s \in Seq(B) /\ Len(s) \in Nat /\ DOMAIN s = 1 .. Len(s)
  BY DEF IsList
<1>2. /\ e \in Nat /\ f <= e /\ f \in B /\ e \in B
      /\ \A i \in 1 .. k : r[i] = f + i - 1 /\ r[i] \in f .. e
  OBVIOUS
<1>3. r \in Seq(B) /\ Len(r) = k
  BY <1>2
<1> DEFINE p == Len(s)
<1>4. /\ a \in Seq(B) /\ Len(a) = p + k /\ DOMAIN a = 1 .. p + k
      /\ \A i \in 1 .. p : a[i] = s[i]
      /\ \A i \in 1 .. k : a[p + i] = f + i - 1
  <2>1. a \in Seq(B) /\ Len(a) = p + k /\ DOMAIN a = 1 .. p + k
    BY <1>1, <1>3
  <2>2. \A i \in 1 .. p : a[i] = s[i]
    BY <1>1, <1>3
  <2>3. ASSUME NEW i \in 1 .. k PROVE a[p + i] = f + i - 1
    <3>1. p + i \in 1 .. p + k /\ p + i > p /\ (p + i) - p = i
      BY <1>1
    <3>2. a[p + i] = r[(p + i) - p]
      BY <1>1, <1>3, <3>1
    <3> QED
      BY <1>2, <3>1, <3>2
  <2> QED
    BY <2>1, <2>2, <2>3
<1> HIDE DEF r, a, l, n, p
<1>5. p \in Nat /\ p = Len(s)
  BY <1>1 DEF p
<1>6. \A i \in 1 .. p + k : i \in 1 .. p \/ \E j \in 1 .. k : i = p + j
  <2>1. ASSUME NEW i \in 1 .. p + k, i \notin 1 .. p PROVE i - p \in 1 .. k /\ i = p + (i - p)
    BY <1>5, <2>1
  <2> QED
    BY <2>1
<1>7. \A i \in 1 .. p : s[i] \in ToSet(s) /\ s[i] \notin f .. e /\ s[i] \in B
  BY <1>1, <1>5 DEF ToSet
<1>8. ToSet(a) = ToSet(s) \union f .. e
  <2>1. ASSUME NEW x \in ToSet(a) PROVE x \in ToSet(s) \union f .. e
    <3>1. PICK i \in 1 .. p + k : x = a[i]
      BY <1>4 DEF ToSet
    <3>2. CASE i \in 1 .. p
      BY <1>4, <1>7, <3>1, <3>2
    <3>3. ASSUME NEW j \in 1 .. k, i = p + j PROVE x \in f .. e
      BY <1>2, <1>4, <3>1, <3>3
    <3> QED
      BY <1>6, <3>2, <3>3
  <2>2. ASSUME NEW x \in ToSet(s) PROVE x \in ToSet(a)
    <3>1. PICK i \in 1 .. p : x = s[i]
      BY <1>1, <1>5 DEF ToSet
    <3>2. i \in 1 .. p + k /\ a[i] = x
      BY <1>4, <1>5, <3>1
    <3> QED
      BY <1>4, <3>2 DEF ToSet
  <2>3. ASSUME NEW x \in f .. e PROVE x \in ToSet(a)
    <3> DEFINE j == x - f + 1
    <3>1. j \in 1 .. k /\ f + j - 1 = x
      BY <2>3
    <3> HIDE DEF j
    <3>2. p + j \in 1 .. p + k
      BY <1>5, <3>1
    <3>3. a[p + j] = x
      BY <1>4, <3>1
    <3> QED
      BY <1>4, <3>2, <3>3 DEF ToSet
  <2> QED
    BY <2>1, <2>2, <2>3
<1>9. Distinct(a)
  <2> SUFFICES ASSUME NEW i \in 1 .. p + k, NEW j \in 1 .. p + k, a[i] = a[j] PROVE i = j
    BY <1>4 DEF Distinct
  <2>1. CASE i \in 1 .. p /\ j \in 1 .. p
    BY <1>1, <1>4, <1>5, <2>1 DEF Distinct, IsList
  <2>2. ASSUME NEW u \in 1 .. p, NEW v \in 1 .. k PROVE a[u] # a[p + v]
    <3>1. a[p + v] \in f .. e
      BY <1>2, <1>4
    <3> QED
      BY <1>4, <1>7, <3>1
  <2>3. ASSUME NEW u \in 1 .. k, NEW v \in 1 .. k, i = p + u, j = p + v PROVE i = j
    <3>1. f + u - 1 = f + v - 1
      BY <1>4, <2>3
    <3> QED
      BY <2>3, <3>1
  <2> QED
    BY <1>6, <2>1, <2>2, <2>3
<1>10. l \in [first : B \union {NULL}, last : B \union {NULL}]
  BY <1>2 DEF AddLast, IsList, l
<1>11. a[p + k] = e /\ p + k \in 1 .. p + k /\ a # <<>>
  <2>1. k \in 1 .. k
    OBVIOUS
  <2>2. a[p + k] = f + k - 1
    BY <1>4, <2>1
  <2>3. p + k \in 1 .. p + k
    BY <1>5
  <2>4. DOMAIN <<>> = {}
    OBVIOUS
  <2> QED
    BY <1>4, <2>2, <2>3, <2>4
<1>12. a[p + 1] = f
  <2>1. 1 \in 1 .. k /\ f + 1 - 1 = f
    OBVIOUS
  <2> QED
    BY <1>4, <2>1
\* Inside the range a zero link leads to the next block.
<1>13. ASSUME n[e] = LAST_BLOCK, \A c \in f .. e : c # e => n[c] = 0,
              NEW j \in 1 .. k, j # k
       PROVE  NextBlock(n, a[p + j]) = a[p + j + 1]
  <2>1. j + 1 \in 1 .. k /\ p + (j + 1) = p + j + 1 /\ f + j - 1 \in f .. e
        /\ f + j - 1 # e /\ f + (j + 1) - 1 = (f + j - 1) + 1
    BY <1>5, <1>13
  <2>2. a[p + j] = f + j - 1 /\ a[p + j + 1] = (f + j - 1) + 1
    BY <1>4, <1>13, <2>1
  <2>3. n[a[p + j]] = 0
    BY <1>13, <2>1, <2>2
  <2> QED
    BY <2>2, <2>3 DEF NextBlock, LAST_BLOCK
<1>14. CASE s = <<>>
  <2>1. l = [first |-> f, last |-> e] /\ n = [nb EXCEPT ![e] = LAST_BLOCK] /\ p = 0
    BY <1>5, <1>14 DEF AddLast, LinksAddLast, IsList, Encodes, l, n
  <2>2. n[e] = LAST_BLOCK /\ \A c \in B : c # e => n[c] = nb[c]
    BY <1>2, <2>1
  <2>3. \A i \in 1 .. Len(a) - 1 : NextBlock(n, a[i]) = a[i + 1]
    <3> SUFFICES ASSUME NEW i \in 1 .. Len(a) - 1 PROVE NextBlock(n, a[i]) = a[i + 1]
      OBVIOUS
    <3>1. i \in 1 .. k /\ i # k /\ p + i = i /\ p + i + 1 = i + 1
      BY <1>4, <2>1
    <3>2. \A c \in f .. e : c # e => n[c] = 0
      BY <2>2
    <3>3. NextBlock(n, a[p + i]) = a[p + i + 1]
      BY <1>13, <2>2, <3>1, <3>2
    <3> QED
      BY <3>1, <3>3
  <2>4. Len(a) = p + k /\ a[1] = f /\ l.first = f /\ l.last = e
    BY <1>4, <1>12, <2>1
  <2>5. Encodes(l, n, a)
    BY <1>11, <2>2, <2>3, <2>4 DEF Encodes
  <2>6. n \in [B -> B \union {LAST_BLOCK, 0}]
    BY <1>2, <2>1
  <2> QED
    BY <1>2, <1>4, <1>5, <1>8, <1>9, <1>10, <2>2, <2>5, <2>6 DEF IsList, Appended, r, a, l, n
<1>15. CASE s # <<>>
  <2> DEFINE z == s[p]
  <2>1. /\ ~IsEmpty(list) /\ list.first = s[1] /\ list.last = z /\ p >= 1
        /\ nb[z] = LAST_BLOCK
    <3>1. list.first = s[1] /\ list.last = s[Len(s)] /\ nb[s[Len(s)]] = LAST_BLOCK
      BY <1>15 DEF IsList, Encodes
    <3>2. ~IsEmpty(list)
      BY <1>15, EmptyIffNoBlock
    <3>3. p # 0
      BY <1>1, <1>5, <1>15
    <3> QED
      BY <1>5, <3>1, <3>2, <3>3
  <2>2. n = [nb EXCEPT ![z] = f, ![e] = LAST_BLOCK]
    BY <2>1 DEF LinksAddLast, n
  <2>3. l = [first |-> s[1], last |-> e]
    BY <2>1 DEF AddLast, l
  <2>4. z \in B /\ z \notin f .. e /\ z \in ToSet(s) /\ z # e
    BY <1>2, <1>5, <1>7, <2>1
  <2>5. n[z] = f /\ n[e] = LAST_BLOCK
    BY <1>2, <2>2, <2>4
  <2>6. \A c \in B : c # z /\ c # e => n[c] = nb[c]
    BY <2>2
  <2>7. ASSUME NEW i \in 1 .. Len(a) - 1 PROVE NextBlock(n, a[i]) = a[i + 1]
    <3>1. i \in 1 .. p + k /\ i < p + k
      BY <1>4, <1>5, <2>7
    <3>2. CASE i < p
      <4>a. i \in Nat /\ i >= 1
        BY <3>1
      <4>b. i \in 1 .. p - 1 /\ i \in 1 .. p /\ i + 1 \in 1 .. p /\ p \in 1 .. p /\ i # p
        BY <1>5, <3>2, <4>a
      <4>1. i \in 1 .. p - 1 /\ i \in 1 .. p /\ i + 1 \in 1 .. p /\ p \in DOMAIN s /\ i \in DOMAIN s /\ i # p
        BY <1>1, <1>5, <4>b
      <4>2. a[i] = s[i] /\ a[i + 1] = s[i + 1] /\ NextBlock(nb, s[i]) = s[i + 1]
        BY <1>4, <1>5, <1>15, <4>1 DEF IsList, Encodes
      <4>3. s[i] # z /\ s[i] # e /\ s[i] \in B
        BY <1>2, <1>7, <4>1 DEF Distinct, IsList
      <4>4. n[s[i]] = nb[s[i]]
        BY <2>6, <4>3
      <4> QED
        BY <4>2, <4>4 DEF NextBlock
    <3>3. CASE i = p
      <4>1. a[i] = z /\ a[i + 1] = f
        BY <1>4, <1>5, <1>12, <2>1, <3>3
      <4>2. f # 0 /\ f # LAST_BLOCK
        BY <2>4 DEF LAST_BLOCK
      <4> QED
        BY <2>5, <4>1, <4>2 DEF NextBlock
    <3>4. CASE i > p
      <4>1. i - p \in 1 .. k /\ i - p # k /\ p + (i - p) = i
        BY <1>5, <3>1, <3>4
      <4>2. \A c \in f .. e : c # e => n[c] = 0
        BY <2>4, <2>6
      <4>3. NextBlock(n, a[p + (i - p)]) = a[p + (i - p) + 1]
        BY <1>13, <2>5, <4>1, <4>2
      <4> QED
        BY <4>1, <4>3
    <3>5. i < p \/ i = p \/ i > p
      BY <1>5, <3>1
    <3> QED
      BY <3>2, <3>3, <3>4, <3>5
  <2>8. Len(a) = p + k /\ a[1] = s[1] /\ l.first = s[1] /\ l.last = e
    BY <1>4, <1>5, <2>1, <2>3
  <2>9. Encodes(l, n, a)
    BY <1>11, <2>5, <2>7, <2>8 DEF Encodes
  <2>10. n \in [B -> B \union {LAST_BLOCK, 0}]
    BY <1>2, <2>2, <2>4
  <2> QED
    BY <1>2, <1>4, <1>5, <1>8, <1>9, <1>10, <2>4, <2>6, <2>9, <2>10 DEF IsList, Appended, r, a, l, n
<1> QED
  BY <1>14, <1>15
\* What the Get operations leave: an empty list stays as it is.
Rest(list, nb) == IF IsEmpty(list) THEN list ELSE WithoutFirst(list, nb)
RestOf(s) == IF s = <<>> THEN <<>> ELSE Tail(s)

\* The same for a list that may be empty: then the block taken is NULL.
LEMMA TakenFirst ==
    ASSUME NEW B \in SUBSET Nat, NEW list, NEW nb, NEW s, IsList(B, list, nb, s)
    PROVE  /\ IsList(B, Rest(list, nb), nb, RestOf(s))
           /\ ToSet(RestOf(s)) = ToSet(s) \ {list.first}
           /\ Len(s) \in Nat /\ Len(RestOf(s)) = IF Len(s) = 0 THEN 0 ELSE Len(s) - 1
           /\ list.first \in ToSet(s) \union {NULL}
           /\ list.first = NULL <=> Len(s) = 0
<1>1. CASE s = <<>>
  <2>1. IsEmpty(list) /\ list.first = NULL /\ ToSet(s) = {} /\ Len(s) = 0
    BY <1>1, EmptyIffNoBlock
  <2> QED
    BY <1>1, <2>1 DEF Rest, RestOf
<1>2. CASE s # <<>>
  <2>1. ~IsEmpty(list) /\ list.first # NULL /\ list.first \in ToSet(s)
        /\ Len(s) \in Nat /\ Len(s) >= 1
    BY <1>2, EmptyIffNoBlock
  <2> QED
    BY <1>2, <2>1, RemovedFirst DEF Rest, RestOf
<1> QED
  BY <1>1, <1>2

\* Dropping the first one or two blocks of a sequence, however short it is.
LEMMA Dropped ==
    ASSUME NEW B, NEW s \in Seq(B)
    PROVE  SubSeq(s, 2, Len(s)) = RestOf(s) /\ SubSeq(s, 3, Len(s)) = RestOf(RestOf(s))
<1>1. Len(s) \in Nat /\ (s = <<>> <=> Len(s) = 0)
  OBVIOUS
<1>2. CASE s = <<>>
  <2>1. RestOf(s) = <<>> /\ RestOf(RestOf(s)) = <<>>
    BY <1>2 DEF RestOf
  <2>2. SubSeq(s, 2, 0) = <<>> /\ SubSeq(s, 3, 0) = <<>>
    BY SubSeqEmpty
  <2> QED
    BY <1>1, <1>2, <2>1, <2>2
<1>3. CASE s # <<>>
  <2>1. Tail(s) = SubSeq(s, 2, Len(s)) /\ Tail(s) \in Seq(B) /\ Len(Tail(s)) = Len(s) - 1
        /\ RestOf(s) = Tail(s)
    BY <1>3, TailIsSubSeq, HeadTailProperties DEF RestOf
  <2>2. CASE Len(s) = 1
    <3>1. Tail(s) = <<>>
      BY <2>1, <2>2
    <3>2. RestOf(<<>>) = <<>>
      BY DEF RestOf
    <3>3. RestOf(RestOf(s)) = <<>>
      BY <2>1, <3>1, <3>2
    <3>4. SubSeq(s, 3, 1) = <<>>
      BY SubSeqEmpty
    <3> QED
      BY <1>1, <2>1, <2>2, <3>3, <3>4
  <2>3. CASE Len(s) # 1
    <3> DEFINE n == Len(s)
    <3>4. n \in Nat /\ n # 0 /\ n # 1
      BY <1>1, <1>3, <2>3
    <3>5. Len(Tail(s)) = n - 1
      BY <2>1
    <3> HIDE DEF n
    <3>6. 2 \in 1 .. n /\ n \in 2 .. n /\ n - 1 # 0
      BY <3>4
    <3>1. Tail(s) # <<>>
      <4>1. Len(<<>>) = 0
        OBVIOUS
      <4> QED
        BY <3>5, <3>6, <4>1
    <3>2. Tail(SubSeq(s, 2, n)) = SubSeq(s, 3, n)
      <4>1. 2 \in 1 .. Len(s) /\ n \in 2 .. Len(s)
        BY <3>6 DEF n
      <4>2. Tail(SubSeq(s, 2, n)) = SubSeq(s, 2 + 1, n)
        BY <4>1, HeadTailOfSubSeq
      <4>3. 2 + 1 = 3
        OBVIOUS
      <4> QED
        BY <4>2, <4>3, Zenon
    <3>3. RestOf(RestOf(s)) = Tail(Tail(s))
      <4> DEFINE r == Tail(s)
      <4>1. r # <<>>
        BY <3>1
      <4> HIDE DEF r
      <4>2. RestOf(r) = Tail(r)
        BY <4>1 DEF RestOf
      <4> QED
        BY <2>1, <4>2 DEF r
    <3> QED
      BY <2>1, <3>2, <3>3 DEF n
  <2> QED
    BY <2>2, <2>3
<1> QED
  BY <1>2, <1>3

=============================================================================
