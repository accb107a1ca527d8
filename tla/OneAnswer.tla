------------------------------- MODULE OneAnswer ------------------------------
(***************************************************************************)
(* What a consent gate promises of every request it mints: it is settled   *)
(* once - a person approves it, a person declines it, or a host closes it  *)
(* because nobody can answer it - and its call runs only if it was         *)
(* approved, in one turn. HostedConsent implements it for the requests     *)
(* whose ledger every process shares.                                      *)
(***************************************************************************)
CONSTANTS
  Request,  \* consent requests
  Turn      \* the turns that may run an approved call

VARIABLES
  verdict,  \* per request: how it was settled
  by        \* per request: the turns that ran its call

vars == <<verdict, by>>

Verdicts == {"open", "approve", "decline", "close"}

TypeOK == verdict \in [Request -> Verdicts] /\ by \in [Request -> SUBSET Turn]

Init == verdict = [q \in Request |-> "open"] /\ by = [q \in Request |-> {}]

Settle(q, v) ==
  /\ verdict[q] = "open"
  /\ verdict' = [verdict EXCEPT ![q] = v]
  /\ UNCHANGED by

Run(q, t) ==
  /\ verdict[q] = "approve" /\ by[q] = {}
  /\ by' = [by EXCEPT ![q] = {t}]
  /\ UNCHANGED verdict

Next == \E q \in Request : \/ \E v \in Verdicts \ {"open"} : Settle(q, v)
                           \/ \E t \in Turn : Run(q, t)

Spec == Init /\ [][Next]_vars
=============================================================================
