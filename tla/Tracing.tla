------------------------------ MODULE Tracing ------------------------------
(* What the marking phase promises, with no stack and no scan: starting     *)
(* from the roots, objects that something traced refers to are marked one   *)
(* by one, and the phase may end only when nothing traced refers to an      *)
(* unmarked object.  Of some objects the marker may lose sight: those that  *)
(* carry a mark from before, and those it marks without tracing them.       *)
(* Marker_proofs shows that what is marked then is what is reachable        *)
(* without passing through one of these.                                    *)
EXTENDS Naturals

CONSTANTS
    Objects,    \* the objects of the heap
    Beyond      \* those the marker may lose sight of

VARIABLES
    heap,       \* [refs, roots, stale]: fixed while the world is stopped
    marked,     \* the objects marked so far, and those marked before
    lost,       \* marked objects that are not traced
    finished    \* the phase is over

vars == <<heap, marked, lost, finished>>

\* Who refers to whom, the roots (a reference out of the heap is skipped by the
\* marker and left out of both), and who carries a mark from before.
HeapShape == [refs : [Objects -> SUBSET Objects], roots : SUBSET Objects,
              stale : SUBSET Beyond]

TypeOK ==
    /\ heap \in HeapShape
    /\ marked \subseteq Objects
    /\ heap.stale \subseteq lost /\ lost \subseteq marked \intersect Beyond
    /\ finished \in BOOLEAN

Found(o) == o \in heap.roots \/ \E p \in marked \ lost : o \in heap.refs[p]

\* S holds the roots and what its objects refer to, but for the lost ones.
Closed(h, S, L) == h.roots \subseteq S /\ \A o \in S \ L : h.refs[o] \subseteq S

Reachable(h, L) == {o \in Objects : \A S \in SUBSET Objects : Closed(h, S, L) => o \in S}

Init ==
    /\ heap \in HeapShape
    /\ marked = heap.stale
    /\ lost = heap.stale
    /\ finished = FALSE

MarkOne(o) ==
    /\ ~finished
    /\ o \notin marked
    /\ Found(o)
    /\ marked' = marked \union {o}
    /\ lost' \in {lost, lost \union ({o} \intersect Beyond)}
    /\ UNCHANGED <<heap, finished>>

Finish ==
    /\ ~finished
    /\ Closed(heap, marked, lost)
    /\ finished' = TRUE
    /\ UNCHANGED <<heap, marked, lost>>

Next == (\E o \in Objects : MarkOne(o)) \/ Finish

Spec == Init /\ [][Next]_vars

\* When marking ends, exactly the objects are marked that are reachable without
\* passing through a lost one, and those marked before: if none is lost no live
\* object will be swept away, and no garbage is ever kept but what was marked before.
Exact == finished => marked = Reachable(heap, lost) \union heap.stale
=============================================================================
