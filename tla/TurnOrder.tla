------------------------------- MODULE TurnOrder ------------------------------
(***************************************************************************)
(* What a host promises of the turns it takes in: a turn runs once all     *)
(* turns of its session, and all turns on its agent, that were taken in    *)
(* before it are over, and not before. LanePool implements it, whichever   *)
(* agents its pool builds and evicts in between.                           *)
(***************************************************************************)
CONSTANTS
  Request,  \* turns
  Session,  \* whose turns
  Agent,    \* what runs them
  Nothing   \* neither a session nor an agent

VARIABLES
  stage,  \* per turn: "out", "waiting", "running", "over"
  whose,  \* per turn taken in: its session
  where,  \* per turn taken in: its agent
  ahead   \* per turn taken in: the turns it waits behind

vars == <<stage, whose, where, ahead>>

TakenIn == {r \in Request : stage[r] \in {"waiting", "running"}}

Init ==
  /\ stage = [r \in Request |-> "out"]
  /\ whose = [r \in Request |-> Nothing] /\ where = [r \in Request |-> Nothing]
  /\ ahead = [r \in Request |-> {}]

\* The turn of session s goes to agent a, behind what either has in already.
Join(r, s, a) ==
  /\ stage[r] = "out"
  /\ stage' = [stage EXCEPT ![r] = "waiting"]
  /\ whose' = [whose EXCEPT ![r] = s]
  /\ where' = [where EXCEPT ![r] = a]
  /\ ahead' = [ahead EXCEPT ![r] = {q \in TakenIn : whose[q] = s \/ where[q] = a}]

Leave(r) ==
  /\ stage[r] = "out"
  /\ stage' = [stage EXCEPT ![r] = "over"]
  /\ UNCHANGED <<whose, where, ahead>>

Start(r) ==
  /\ stage[r] = "waiting" /\ ahead[r] = {}
  /\ stage' = [stage EXCEPT ![r] = "running"]
  /\ UNCHANGED <<whose, where, ahead>>

Finish(r) ==
  /\ stage[r] = "running"
  /\ stage' = [stage EXCEPT ![r] = "over"]
  /\ whose' = [whose EXCEPT ![r] = Nothing]
  /\ where' = [where EXCEPT ![r] = Nothing]
  /\ ahead' = [q \in Request |-> ahead[q] \ {r}]

Next ==
  \E r \in Request :
    Leave(r) \/ Start(r) \/ Finish(r) \/ \E s \in Session, a \in Agent : Join(r, s, a)

Spec == Init /\ [][Next]_vars
=============================================================================
