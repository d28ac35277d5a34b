----------------------- MODULE MCGlobalBlockAllocator -----------------------
(* TLC instance of GlobalBlockAllocator.                                   *)
EXTENDS GlobalBlockAllocator, TLC

\* The threads are interchangeable: no definition names one of them.
Symmetry == Permutations(Threads)

=============================================================================
