------------------------------ MODULE MCAdmission -----------------------------
EXTENDS Admission, TLC

CONSTANTS c1, c2, c3, r1, r2, r3, r4

Names == Permutations(Caller) \cup Permutations(Request)
=============================================================================
