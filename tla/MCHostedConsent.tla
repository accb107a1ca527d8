---------------------------- MODULE MCHostedConsent --------------------------
EXTENDS HostedConsent, TLC

CONSTANTS a, b, p, r, q1, q2, t1, t2, t3

Deployment(l, m, c) == [ledger |-> l, rules |-> m, carrier |-> c]

\* Two replicas over one shared ledger, which differ in their rules.
SharedBuilds == {Deployment("store", 1, 1), Deployment("store", 2, 1)}

\* A redeploy changes the ledger, and with one of them the format of a saved pause.
RedeployBuilds == {Deployment("store", 1, 1), Deployment("process", 1, 2),
                   Deployment("own", 1, 1)}

EachItsOwn == (a :> p) @@ (b :> r)
AllInOne == [d \in Door |-> p]

TurnsAndReplicas == Permutations(Turn) \cup {(a :> b) @@ (b :> a) @@ (p :> r) @@ (r :> p)}
=============================================================================
