------------------------- MODULE MCLargeAllocator -------------------------
(* TLC instance of LargeAllocator.  An object of one unit and one that has   *)
(* to be rounded up to three, whose chunk of four is split.  Growing for the *)
(* smaller one adds eight units to the heap's two, for the larger one it is  *)
(* beyond the limit of ten.                                                  *)
EXTENDS LargeAllocator, TLC

MCSizes == {1024, 2500}
MCSizesOneUnit == {1024}
Symmetry == Permutations(Threads)

\* log2_floor finds the highest of 32 bits whatever is below, Log2Ceil the
\* next power of two; from 4 GB on they do not.
ASSUME Log2Right ==
    /\ \A h \in 0 .. 31 : \A below \in {{}, 0 .. h - 1} \union {{b} : b \in 0 .. h - 1} :
          log2_floor({h} \union below) = h
    /\ \A h \in 1 .. 30 : Log2Ceil({h}) = h /\ Log2Ceil({h, 0}) = h + 1
    /\ \A h \in 32 .. 63 : log2_floor({h}) # h
=============================================================================
