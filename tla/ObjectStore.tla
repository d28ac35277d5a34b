---------------------------- MODULE ObjectStore ----------------------------
(* What a heap promises its mutator, with no cursors, holes, lines or       *)
(* lists: an allocation returns memory that no live object uses, and an     *)
(* object stays where it is until a collection finds it dead.  The promise  *)
(* ends where the code's own defences do: each heap says which event in its *)
(* history excuses it from then on.                                         *)
EXTENDS Integers

CONSTANTS
    Blocks,     \* names of the blocks
    BlockSlots, \* words of data in a block
    Sizes       \* sizes of objects in words, with their headers

VARIABLES
    live,           \* the live objects: block, first word, size
    overwritten,    \* memory of a live object was handed out, be it all of it
    excused         \* what the code does not defend against has happened

vars == <<live, overwritten, excused>>

Slots == 0 .. BlockSlots - 1

\* The words an object occupies, and all the places one could be.
WordsOf(o) == {<<o.block, s>> : s \in o.start .. o.start + o.size - 1}
Places == {o \in [block : Blocks, start : Slots, size : Sizes] :
             o.start + o.size <= BlockSlots}

Overlaps(o) == \E p \in live : WordsOf(p) \intersect WordsOf(o) # {}

Init == live = {} /\ overwritten = FALSE /\ excused = FALSE

Alloc(o) ==
    /\ ~Overlaps(o)
    /\ live' = live \union {o}
    /\ UNCHANGED <<overwritten, excused>>

Collect == live' \subseteq live /\ UNCHANGED <<overwritten, excused>>

Next ==
    \/ ~excused /\ (Collect \/ \E o \in Places : Alloc(o))
    \/ excused'

Spec == Init /\ [][Next]_vars

\* No word belongs to two live objects, and none of a live object was handed out.
Disjoint == \A o, p \in live : o # p => WordsOf(o) \intersect WordsOf(p) = {}
Sound == excused \/ (Disjoint /\ ~overwritten)
=============================================================================
