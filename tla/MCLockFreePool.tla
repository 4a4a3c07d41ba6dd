--------------------------- MODULE MCLockFreePool ---------------------------
(* Small instances of LockFreePool.  The first word of a held slot may be    *)
(* left as something that is no pointer (Junk) or as bits that look like the *)
(* address of slot 1.                                                        *)
EXTENDS LockFreePool, TLC

CONSTANT Junk

MCUserData == {Junk, 1}
ThreadSymmetry == Permutations(Threads)
=============================================================================
