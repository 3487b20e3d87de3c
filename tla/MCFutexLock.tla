---------------------------- MODULE MCFutexLock ----------------------------
(* Model-checking instance of FutexLock: interchangeable threads. *)
EXTENDS FutexLock, TLC

Symmetry == Permutations(Threads)

=============================================================================
