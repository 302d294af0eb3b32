---------------------------- MODULE MCLiveQuery ----------------------------
EXTENDS LiveQuery, TLC

CONSTANTS x1, x2, t1, t2, q1

\* Threads are interchangeable.
Symmetric == Permutations(Threads)
============================================================================
