--------------------------- MODULE MCMutatorSync ---------------------------
(* TLC instance of MutatorSync.                                            *)
EXTENDS MutatorSync, TLC

\* The threads are interchangeable: no definition names one of them.
Symmetry == Permutations(Threads)

=============================================================================
