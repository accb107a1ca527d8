------------------------------- MODULE Admission ------------------------------
(***************************************************************************)
(* Who is let in: the rolling window of turns per caller and the policy    *)
(* that reads it (hosting/admission.ts), asked by the door before a lane   *)
(* is chosen (hosting/standingAgent.ts, answerRequest).                    *)
(***************************************************************************)
EXTENDS Integers, Sequences, FiniteSets

CONSTANTS
  Caller,      \* ledger keys: users the door verified, and the anonymous one
  NoCaller,    \* "no caller yet"
  Request,
  Limit,       \* turnsPerHour's limit
  Window,      \* the length of the window, in ticks
  MaxCallers,  \* callers the ledger holds
  MaxNow       \* bound: ticks of the clock

ASSUME CountsAssumption ==
  /\ Limit \in Nat /\ Window \in Nat \ {0} /\ MaxCallers \in Nat \ {0}
  /\ MaxNow \in Nat
ASSUME RequestAssumption == IsFiniteSet(Request)

VARIABLES
  now,       \* the clock
  byCaller,  \* per caller: its turns on record, admitted at req[r].at
  touched,   \* the callers the ledger holds, least recently admitted first
  forgot,    \* the callers the ledger ever forgot
  req        \* per request: caller, phase, the turns its policy saw, when it was admitted,
             \* what was asked about before it, and what beside it

vars == <<now, byCaller, touched, forgot, req>>

-----------------------------------------------------------------------------
(* The ledger                                                              *)

\* Mutant: a turn as old as the window still counts.
MutantPrune(entries) == {r \in entries : req[r].at >= now - Window}

\* prune: the turns older than the window go; they are the first, in time order.
Prune(entries) == {r \in entries : req[r].at > now - Window}

Holds(c) == \E i \in DOMAIN touched : touched[i] = c

\* touch: a caller the ledger does not hold takes the place of the one touched
\* longest ago once the ledger is full.
Forgotten(c) == IF ~Holds(c) /\ Len(touched) >= MaxCallers THEN {Head(touched)} ELSE {}

Touch(c) ==
  /\ touched' = Append(SelectSeq(touched, LAMBDA u : u # c /\ u \notin Forgotten(c)), c)
  /\ forgot' = forgot \cup Forgotten(c)

\* Mutant: touch makes a fresh list for a caller the ledger already holds.
MutantAdmit(c, r) ==
  /\ Touch(c)
  /\ byCaller' = [u \in Caller |->
       IF u \in Forgotten(c) THEN {}
       ELSE IF u = c THEN {r}
       ELSE byCaller[u]]

\* admit: one more turn of the caller, r, now.
Admit(c, r) ==
  /\ Touch(c)
  /\ byCaller' = [u \in Caller |->
       IF u \in Forgotten(c) THEN {}
       ELSE IF u = c THEN Prune(byCaller[u]) \cup {r}
       ELSE byCaller[u]]

-----------------------------------------------------------------------------
(* The door                                                                *)

Deciding == {r \in Request : req[r].phase = "deciding"}

AskedOf(c) == {r \in Deciding : req[r].caller = c}

\* The door reads the window and asks the policy, which answers on what was read
\* but may take its time: other requests are asked about and answered meanwhile.
\* before and beside are bookkeeping no guard reads: the requests asked about
\* earlier, and those of the same caller the policy still had in hand.
Ask(r, c) ==
  /\ req[r].phase = "new"
  /\ LET held == Prune(byCaller[c]) IN
     /\ byCaller' = [byCaller EXCEPT ![c] = held]
     /\ req' = [req EXCEPT ![r].phase = "deciding", ![r].caller = c,
                           ![r].seen = Cardinality(held),
                           ![r].before = {s \in Request : req[s].phase # "new"},
                           ![r].beside = AskedOf(c)]
  /\ UNCHANGED <<now, touched, forgot>>

\* turnsPerHour lets the request in below the limit, and the door counts it.
Allow(r) ==
  /\ req[r].phase = "deciding" /\ req[r].seen < Limit
  /\ Admit(req[r].caller, r)
  /\ req' = [req EXCEPT ![r].phase = "admitted", ![r].at = now]
  /\ UNCHANGED now

Refuse(r) ==
  /\ req[r].phase = "deciding" /\ req[r].seen >= Limit
  /\ req' = [req EXCEPT ![r].phase = "refused"]
  /\ UNCHANGED <<now, byCaller, touched, forgot>>

Tick ==
  /\ now < MaxNow
  /\ now' = now + 1
  /\ UNCHANGED <<byCaller, touched, forgot, req>>

Init ==
  /\ now = 0
  /\ byCaller = [c \in Caller |-> {}]
  /\ touched = <<>> /\ forgot = {}
  /\ req = [r \in Request |-> [phase |-> "new", caller |-> NoCaller, seen |-> 0, at |-> 0,
                              before |-> {}, beside |-> {}]]

Next ==
  \/ \E r \in Request : (\E c \in Caller : Ask(r, c)) \/ Allow(r) \/ Refuse(r)
  \/ Tick

Spec == Init /\ [][Next]_vars

-----------------------------------------------------------------------------
(* Properties                                                              *)

TypeOK ==
  /\ now \in 0..MaxNow
  /\ byCaller \in [Caller -> SUBSET Request]
  /\ touched \in Seq(Caller) /\ Len(touched) <= MaxCallers
  /\ forgot \subseteq Caller
  /\ req \in [Request -> [phase : {"new", "deciding", "admitted", "refused"},
                          caller : Caller \cup {NoCaller}, seen : Nat, at : 0..MaxNow,
                          before : SUBSET Request, beside : SUBSET Request]]

\* The turns of the caller admitted in the window that ends now.
Turns(c) ==
  {r \in Request : req[r].phase = "admitted" /\ req[r].caller = c /\ req[r].at > now - Window}

\* No caller has more turns admitted in a window than the limit, unless the
\* ledger once forgot it. The count is taken at admission because otherwise "a
\* burst of simultaneous requests would each be decided against a window none of
\* them had joined, and walk straight through the ceiling. A bound that a burst
\* defeats is not a bound." (standingAgent.ts:795-798). The code does not have
\* it: the policy is awaited between the read and the count.
CeilingHolds == \A c \in Caller \ forgot : Cardinality(Turns(c)) <= Limit

\* What the code does keep: when a turn is let in, its caller is over the ceiling
\* by no more than the requests of its own that the policy had in hand when that
\* turn was asked about, unless the ledger once forgot it.
OverByItsBurst ==
  \A c \in Caller \ forgot : \A r \in Turns(c) :
    Cardinality(Turns(c) \cap (req[r].before \cup {r})) <= Limit + Cardinality(req[r].beside)

\* The policy turns nobody away that has a turn left when its window is read: a
\* ledger that forgets callers errs on the side of letting them in.
RefusesAtTheCeilingOnly ==
  [][\A r \in Request, c \in Caller :
       Ask(r, c) /\ req'[r].seen >= Limit => Cardinality(Turns(c)) >= Limit]_vars
=============================================================================
