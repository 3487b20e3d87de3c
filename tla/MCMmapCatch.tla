---------------------------- MODULE MCMmapCatch ----------------------------
(* Model-checking instance of MmapCatch: two adjacent mappings, of two pages *)
(* and of one page, and interchangeable threads.                             *)
EXTENDS MmapCatch, TLC

TwoRegions == {[start |-> 2, len |-> 3], [start |-> 6, len |-> 1]}
OneRegion  == {[start |-> 2, len |-> 3]}

Symmetry == Permutations(Threads)

=============================================================================
