---------------------------- MODULE SavedProgress -----------------------------
(***************************************************************************)
(* What a session is promised about the progress of its runs, without the  *)
(* writer: its store only moves forward, never past what a run reached,    *)
(* and a caller is told of nothing the store does not hold.                *)
(***************************************************************************)
EXTENDS Naturals

CONSTANT Session

VARIABLES
  reached,  \* per session: the newest conversation a run of it committed
  saved,    \* per session: the conversation its store holds
  told      \* per session: the conversation its callers were last told of

vars == <<reached, saved, told>>

Zero == [s \in Session |-> 0]

Init == reached = Zero /\ saved = Zero /\ told = Zero

\* A run of s commits, a write of it lands, its caller is told: any of the
\* three, in one step or in several.
Advance(s) ==
  /\ reached'[s] >= reached[s]
  /\ saved'[s] >= saved[s] /\ saved'[s] <= reached'[s]
  /\ told'[s] # told[s] => told'[s] = saved'[s] /\ saved'[s] = reached'[s]

Others(s) ==
  \A u \in Session \ {s} :
    reached'[u] = reached[u] /\ saved'[u] = saved[u] /\ told'[u] = told[u]

Next == \E s \in Session : Advance(s) /\ Others(s)

Spec == Init /\ [][Next]_vars
=============================================================================
