---------------------------- MODULE MCDurableWriter ---------------------------
EXTENDS DurableWriter, TLC

CONSTANTS s1, s2

Sessions == Permutations(Session)
=============================================================================
