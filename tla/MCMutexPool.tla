---------------------------- MODULE MCMutexPool ----------------------------
(* Small instances of MutexPool, with the same user data as MCLockFreePool. *)
EXTENDS MutexPool, TLC

CONSTANT Junk

MCUserData == {Junk, 1}
ThreadSymmetry == Permutations(Threads)
=============================================================================
