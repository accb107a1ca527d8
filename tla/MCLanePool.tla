------------------------------- MODULE MCLanePool -----------------------------
EXTENDS LanePool, TLC

CONSTANTS s1, s2, r1, r2, r3, o1, o2

Names == Permutations(Session) \cup Permutations(Request) \cup Permutations(Op)
=============================================================================
