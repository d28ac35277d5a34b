--------------------------- MODULE RecursionFacts ---------------------------
(* Induction over data and recursive functions, in the form the proofs of    *)
(* the heaps use: about sets and functions, never about operators.           *)
EXTENDS Integers, FiniteSetsExt, WellFoundedInduction, TLAPS

\* A set of naturals that is not empty has a least element.
LEMMA LeastNatural ==
    ASSUME NEW T \in SUBSET Nat, T # {}
    PROVE  \E x \in T : \A y \in T : x <= y
<1> DEFINE R == OpToRel(<, Nat)
<1>1. IsWellFoundedOn(R, Nat)
  BY NatLessThanWellFounded
<1>2. \A x, y \in Nat : <<x, y>> \in R <=> x < y
  BY DEF OpToRel
<1> HIDE DEF R
<1>3. PICK x \in T : \A y \in T : ~ (<<y, x>> \in R)
  BY <1>1, WFMin
<1>4. \A y \in T : ~ (y < x)
  BY <1>2, <1>3
<1> QED
  BY <1>4

\* A set of naturals below a bound that is not empty has a greatest element.
LEMMA GreatestNatural ==
    ASSUME NEW N \in Nat, NEW T \in SUBSET (0 .. N), T # {}
    PROVE  \E x \in T : \A y \in T : x >= y
<1> DEFINE D == {d \in 0 .. N : N - d \in T}
<1>1. D \in SUBSET Nat /\ D # {}
  <2>1. PICK x \in T : x \in 0 .. N
    OBVIOUS
  <2>2. N - x \in D
    BY <2>1
  <2>3. D \in SUBSET Nat
    OBVIOUS
  <2> QED
    BY <2>2, <2>3
<1>2. PICK d \in D : \A y \in D : d <= y
  BY <1>1, LeastNatural
<1>3. \A y \in T : N - y \in D
  OBVIOUS
<1>4. \A y \in T : N - d >= y
  BY <1>2, <1>3
<1> QED
  BY <1>2, <1>4

\* Min and Max pick such elements.
LEMMA MinFacts ==
    ASSUME NEW T \in SUBSET Nat, T # {}
    PROVE  Min(T) \in T /\ \A y \in T : Min(T) <= y
  BY LeastNatural DEF Min

LEMMA MaxFacts ==
    ASSUME NEW N \in Nat, NEW T \in SUBSET (0 .. N), T # {}
    PROVE  Max(T) \in T /\ \A y \in T : Max(T) >= y
  BY GreatestNatural DEF Max

\* The equation of a recursion that follows one pointer at a time.
Follows(f, D, stop, base, item, next) ==
    /\ f = [x \in D |-> f[x]]
    /\ \A x \in D : f[x] = IF x \in stop THEN base[x] ELSE {item[x]} \union f[next[x]]

Followed(D, stop, base, item, next) == CHOOSE f : Follows(f, D, stop, base, item, next)

\* It has a solution whether or not the recursion ends, so a function that is
\* defined by such a recursion satisfies its equation.
LEMMA FollowedDefined ==
    ASSUME NEW D, NEW stop, NEW base, NEW item, NEW next,
           \A x \in D : x \notin stop => next[x] \in D
    PROVE  Follows(Followed(D, stop, base, item, next), D, stop, base, item, next)
<1> DEFINE Closed(x, T) == x \in T /\ \A y \in T : y \notin stop => next[y] \in T
           Reach(x) == {y \in D : \A T \in SUBSET D : Closed(x, T) => y \in T}
           Value(y) == IF y \in stop THEN base[y] ELSE {item[y]}
           f == [x \in D |-> UNION {Value(y) : y \in Reach(x)}]
<1>1. ASSUME NEW x \in D, x \in stop PROVE Reach(x) = {x}
  <2>1. {x} \in SUBSET D /\ Closed(x, {x})
    BY <1>1
  <2> QED
    BY <2>1
<1>2. ASSUME NEW x \in D, x \notin stop PROVE Reach(x) = {x} \union Reach(next[x])
  <2>1. next[x] \in D
    BY <1>2
  <2>2. ASSUME NEW y \in Reach(x) PROVE y \in {x} \union Reach(next[x])
    <3> SUFFICES ASSUME NEW T \in SUBSET D, Closed(next[x], T), y # x PROVE y \in T
      BY <2>2
    <3>1. T \union {x} \in SUBSET D /\ Closed(x, T \union {x})
      OBVIOUS
    <3> QED
      BY <3>1
  <2>3. ASSUME NEW y \in Reach(next[x]) PROVE y \in Reach(x)
    <3> SUFFICES ASSUME NEW T \in SUBSET D, Closed(x, T) PROVE y \in T
      BY <2>3
    <3>1. Closed(next[x], T)
      BY <1>2
    <3> QED
      BY <3>1, <2>3
  <2>4. x \in Reach(x)
    OBVIOUS
  <2> HIDE DEF Reach
  <2> QED
    BY <2>2, <2>3, <2>4
<1> HIDE DEF Reach
<1>3. ASSUME NEW x \in D
      PROVE  f[x] = IF x \in stop THEN base[x] ELSE {item[x]} \union f[next[x]]
  <2>1. CASE x \in stop
    BY <1>1, <2>1
  <2>2. CASE x \notin stop
    <3>1. next[x] \in D
      BY <2>2
    <3>2. f[x] = Value(x) \union UNION {Value(y) : y \in Reach(next[x])}
      BY <1>2, <2>2
    <3> QED
      BY <2>2, <3>1, <3>2
  <2> QED
    BY <2>1, <2>2
<1>4. f = [x \in D |-> f[x]]
  OBVIOUS
<1> HIDE DEF f
<1> QED
  BY <1>3, <1>4 DEF Followed, Follows
=============================================================================
