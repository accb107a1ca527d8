-------------------------------- MODULE MCSignIn --------------------------------
EXTENDS SignIn, TLC

CONSTANTS l1, l2, l3, n1, n2, n3, n4, a1, a2, a3, a4

\* Logins are not permuted: with them TLC would spend its time on permutations.
Names == Permutations(Name) \cup Permutations(Address)
=============================================================================
