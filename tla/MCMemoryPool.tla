---------------------------- MODULE MCMemoryPool ----------------------------
(***************************************************************************)
(* Instances of QuietMemoryPool.                                           *)
(***************************************************************************)
EXTENDS QuietMemoryPool, TLC

ThreadSymmetry == Permutations(Threads)
=============================================================================
