---------------------------- MODULE MCCoroutines ----------------------------
EXTENDS Coroutines, TLC

CONSTANTS r1, r2, c1, w1, w2, x1
=============================================================================
