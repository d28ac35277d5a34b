------------------------ MODULE StopTheWorld_proofs ------------------------
(* The abstract collection keeps the promises it is there for.             *)
EXTENDS StopTheWorld, TLAPS

LEMMA TypeStep == ASSUME MaxStack \in Nat, TypeOK, [Next]_vars PROVE TypeOK'
<1> USE DEF TypeOK, Modes, Become
<1>1. ASSUME NEW t \in Threads, NEW n \in 0 .. MaxStack, Join(t, n) \/ Mutate(t, n)
      PROVE  TypeOK'
  BY <1>1 DEF Join, Mutate
<1>2. ASSUME NEW t \in Threads, Leave(t) \/ Stop(t) \/ Resume(t) PROVE TypeOK'
  BY <1>2 DEF Leave, Stop, Resume
<1>3. ASSUME NEW t \in Threads, StartCollection(t) \/ Scan(t) \/ Finish(t)
      PROVE  TypeOK'
  BY <1>3 DEF StartCollection, Scan, Finish
<1>4. CASE UNCHANGED vars
  BY <1>4 DEF vars
<1> QED
  BY <1>1, <1>2, <1>3, <1>4 DEF Next

\* A collector has the heap to itself, and the roots it scanned stay the roots
\* until it has finished.
THEOREM StoppedAndExact ==
    ASSUME MaxStack \in Nat
    PROVE  Spec => [](Exclusion /\ RootsExact)
<1> DEFINE Inv == TypeOK /\ Exclusion /\ RootsExact
<1>1. Init => Inv
  BY DEF Init, TypeOK, Modes, Exclusion, RootsExact, Collectors
<1>2. Inv /\ [Next]_vars => Inv'
  <2> SUFFICES ASSUME Inv, [Next]_vars PROVE Inv'
    OBVIOUS
  <2>t. TypeOK'
    BY TypeStep
  <2> USE DEF TypeOK, Modes, Exclusion, RootsExact, Collectors, Become
  <2>1. ASSUME NEW t \in Threads, NEW n \in 0 .. MaxStack, Join(t, n) PROVE Inv'
    BY <2>t, <2>1 DEF Join
  <2>2. ASSUME NEW t \in Threads, NEW n \in 0 .. MaxStack, Mutate(t, n) PROVE Inv'
    BY <2>t, <2>2 DEF Mutate
  <2>3. ASSUME NEW t \in Threads, Leave(t) PROVE Inv'
    BY <2>t, <2>3 DEF Leave
  <2>4. ASSUME NEW t \in Threads, Stop(t) PROVE Inv'
    BY <2>t, <2>4 DEF Stop
  <2>5. ASSUME NEW t \in Threads, Resume(t) PROVE Inv'
    BY <2>t, <2>5 DEF Resume
  <2>6. ASSUME NEW t \in Threads, StartCollection(t) PROVE Inv'
    BY <2>t, <2>6 DEF StartCollection
  <2>7. ASSUME NEW t \in Threads, Scan(t) PROVE Inv'
    BY <2>t, <2>7 DEF Scan
  <2>8. ASSUME NEW t \in Threads, Finish(t) PROVE Inv'
    BY <2>t, <2>8 DEF Finish
  <2>9. CASE UNCHANGED vars
    BY <2>t, <2>9 DEF vars
  <2> QED
    BY <2>1, <2>2, <2>3, <2>4, <2>5, <2>6, <2>7, <2>8, <2>9 DEF Next
<1> QED
  BY <1>1, <1>2, PTL DEF Spec

=============================================================================
