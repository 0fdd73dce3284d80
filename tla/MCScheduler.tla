---------------------------- MODULE MCScheduler -----------------------------
EXTENDS Scheduler, TLC

CONSTANTS th1, th2, th3, t1, t2, t3

Perms == Permutations(Threads) \cup Permutations(Tasks)
=============================================================================
