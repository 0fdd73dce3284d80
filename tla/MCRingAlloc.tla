---------------------------- MODULE MCRingAlloc -----------------------------
(* A few threads on a buffer of 4 bytes, asking for up to one byte more    *)
(* than the buffer; the head goes more than once around.                   *)
EXTENDS RingAllocFailure, TLC

CONSTANTS t1, t2, t3

MCSizes == {1, 2, 3, 5}

Perms == Permutations(Threads)

=============================================================================
