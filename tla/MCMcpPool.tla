------------------------------ MODULE MCMcpPool -------------------------------
EXTENDS McpPool, TLC

CONSTANTS c1, c2, c3, c4, k1, k2, o1, o2, o3, p1, t1

OnePrincipal == [k \in Key |-> p1]
Names == Permutations(Client) \cup Permutations(Key)
=============================================================================
