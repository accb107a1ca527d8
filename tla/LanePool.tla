------------------------------- MODULE LanePool -------------------------------
(***************************************************************************)
(* Which agent answers which request of a hosted session: the lanes of     *)
(* hosting/standingAgent.ts, the pool that keeps them, the queue of each,  *)
(* the artifact calls that run beside the queue, and the shutdown.         *)
(***************************************************************************)
EXTENDS Integers, Sequences, FiniteSets

CONSTANTS
  Session,        \* sessions requests name
  Anonymous,      \* "no session"
  None,           \* "no request"
  Request,        \* requests for a turn
  Op,             \* callers of artifact calls
  Shapes,         \* deployments: agentFactory (pooled) or one shared agent (not)
  Rejects,        \* onConcurrentInvoke is 'reject'
  MaxActive,      \* maxActiveSessions
  OpsPerSession,  \* artifactOpsPerSession
  MaxBuilt,       \* bound: agents the factory hands out
  MaxFaults       \* bound: calls of the factory that fail

ASSUME NamesAssumption == Anonymous \notin Session /\ None \notin Request
ASSUME BoundsAssumption ==
  /\ MaxActive \in Nat \ {0} /\ OpsPerSession \in Nat \ {0}
  /\ MaxBuilt \in Nat \ {0} /\ MaxFaults \in Nat
ASSUME ShapeAssumption == Shapes \subseteq BOOLEAN /\ Rejects \in BOOLEAN
ASSUME FinitenessAssumption ==
  IsFiniteSet(Session) /\ IsFiniteSet(Request) /\ IsFiniteSet(Op)

Key == Session \cup {Anonymous}  \* laneKeyOf
Agent == 1..MaxBuilt

VARIABLES
  pooled,    \* the shape of this deployment
  pool,      \* the agent of a key's lane; 0: no lane
  older,     \* pairs of agents of lanes, the first used in an earlier ms
  waiting,   \* per agent: the requests behind the one that runs, in order
  active,    \* per agent: the request it runs
  admitted,  \* per agent: requests and artifact calls that hold its lane
  built,     \* how many agents the factory handed out
  reader,    \* the agent of artifact calls without a lane; 0: none
  retired,   \* agents the pool evicted
  leaving,   \* agents being shut down
  stopped,   \* agents shut down
  req,       \* per request: where it is
  op,        \* per caller of artifact calls: where it is
  busy,      \* per session: artifact calls in flight
  door,      \* the host: "open", "closing", "closed"
  faults     \* calls of the factory that failed, against MaxFaults

lanes == <<pooled, pool, older, waiting, active, admitted>>
agents == <<built, reader, retired, leaving, stopped>>
vars == <<lanes, agents, req, op, busy, door, faults>>

-----------------------------------------------------------------------------
(* The pool                                                                *)

Live == {pool[k] : k \in Key} \ {0}
Size == Cardinality({k \in Key : pool[k] # 0})

\* No request runs or waits on the lane, and no artifact call reads through it.
Idle(a) == admitted[a] = 0

\* How many lanes have to go for one more to fit.
Surplus == Size - MaxActive + 1

\* evictToFit goes through the lanes in the order they were built in, and of two
\* that were used at the same time the first goes.
Sooner(b, a) == <<b, a>> \in older \/ (<<a, b>> \notin older /\ b < a)

\* evictToFit: the least recently used lanes without work, as many as it takes
\* or as there are.
Evicted ==
  LET idle == {a \in Live : Idle(a)} IN
  {a \in idle : Cardinality({b \in idle : Sooner(b, a)}) < Surplus}

Among(live) == {p \in older : {p[1], p[2]} \subseteq live}
Latest(live) == {b \in live : \A c \in live : <<b, c>> \notin older}

\* Lanes in order of use, `a` last, or with those used last before it: the clock
\* counts milliseconds (Date.now).
UsedLast(live, a) ==
  {Among(live \ {a}) \cup {<<b, a>> : b \in live \ ({a} \cup same)} :
     same \in {{}, Latest(live \ {a})}}

Touch(a) == older' \in UsedLast(Live, a)

Fault == faults < MaxFaults /\ faults' = faults + 1

\* retire: out of the pool, detached, and on its way to be shut down.
Retire(gone) ==
  /\ retired' = retired \cup gone
  /\ leaving' = leaving \cup gone

Emptied == [k \in Key |-> IF pool[k] \in Evicted THEN 0 ELSE pool[k]]

-----------------------------------------------------------------------------
(* A request for a turn (answerRequest, laneFor, serialize)                *)

NewRequest == [phase |-> "new", session |-> Anonymous, lane |-> 0, anyway |-> FALSE]

\* The request reaches the door, and the admission policy is asked.
Arrive(r, k) ==
  /\ req[r].phase = "new" /\ door = "open"
  /\ req' = [req EXCEPT ![r].phase = "deciding", ![r].session = k]
  /\ UNCHANGED <<lanes, agents, op, busy, door, faults>>

Refuse(r) ==
  /\ req[r].phase = "deciding"
  /\ req' = [req EXCEPT ![r].phase = "done"]
  /\ UNCHANGED <<lanes, agents, op, busy, door, faults>>

\* Mutant: a request collides with the one that runs only.
MutantCollides(r, a) ==
  /\ req[r].session # Anonymous
  /\ \E q \in Request : q = active[a] /\ req[q].session = req[r].session

\* The session key is that of a request running or waiting on the lane; each
\* request without a session has a key of its own.
Collides(r, a) ==
  /\ req[r].session # Anonymous
  /\ \E q \in Request : /\ req[q].lane = a /\ req[q].phase \in {"queued", "running"}
                        /\ req[q].session = req[r].session

Enqueue(r, a, anyway) ==
  /\ req' = [req EXCEPT ![r].phase = "queued", ![r].lane = a, ![r].anyway = anyway]
  /\ waiting' = [waiting EXCEPT ![a] = Append(@, r)]
  /\ admitted' = [admitted EXCEPT ![a] = @ + 1]
  /\ UNCHANGED active

\* The policy admits the request, or lets it wait where a second turn of the
\* session is refused (`anyway`), and the key has a lane.
JoinLane(r, anyway) ==
  LET a == pool[req[r].session] IN
  /\ req[r].phase = "deciding" /\ a # 0
  /\ Rejects /\ ~anyway => ~Collides(r, a)
  /\ Touch(a)
  /\ Enqueue(r, a, anyway)
  /\ UNCHANGED <<pooled, pool, agents, op, busy, door, faults>>

RefuseConcurrent(r) ==
  LET a == pool[req[r].session] IN
  /\ req[r].phase = "deciding" /\ a # 0
  /\ Rejects /\ Collides(r, a)
  /\ Touch(a)
  /\ req' = [req EXCEPT ![r].phase = "done"]
  /\ UNCHANGED <<pooled, pool, waiting, active, admitted, agents, op, busy, door, faults>>

\* The key has none: idle lanes make room and the factory builds one more agent.
BuildLane(r, anyway) ==
  /\ req[r].phase = "deciding" /\ pool[req[r].session] = 0
  /\ built < MaxBuilt
  /\ built' = built + 1
  /\ pool' = [Emptied EXCEPT ![req[r].session] = built + 1]
  /\ older' \in UsedLast(Live \ Evicted, built + 1)
  /\ Enqueue(r, built + 1, anyway)
  /\ Retire(Evicted)
  /\ UNCHANGED <<pooled, reader, stopped, op, busy, door, faults>>

\* The factory returns nothing, or an agent it already returned: the idle
\* lanes are gone all the same.
BuildFails(r) ==
  /\ req[r].phase = "deciding" /\ pool[req[r].session] = 0
  /\ Fault
  /\ pool' = Emptied
  /\ older' = Among(Live \ Evicted)
  /\ req' = [req EXCEPT ![r].phase = "done"]
  /\ Retire(Evicted)
  /\ UNCHANGED <<pooled, waiting, active, admitted, built, reader, stopped, op, busy, door>>

\* Mutant: the chain does not wait for the turn before.
MutantStart(r) ==
  LET a == req[r].lane IN
  /\ req[r].phase = "queued" /\ Head(waiting[a]) = r
  /\ req' = [req EXCEPT ![r].phase = "running"]
  /\ waiting' = [waiting EXCEPT ![a] = Tail(@)]
  /\ active' = [active EXCEPT ![a] = r]
  /\ UNCHANGED <<pooled, pool, older, admitted, agents, op, busy, door, faults>>

\* The chain of the lane reached the request.
Start(r) ==
  LET a == req[r].lane IN
  /\ req[r].phase = "queued" /\ active[a] = None /\ Head(waiting[a]) = r
  /\ req' = [req EXCEPT ![r].phase = "running"]
  /\ waiting' = [waiting EXCEPT ![a] = Tail(@)]
  /\ active' = [active EXCEPT ![a] = r]
  /\ UNCHANGED <<pooled, pool, older, admitted, agents, op, busy, door, faults>>

\* Mutant: a turn that ends does not give its agent back.
MutantFinish(r) ==
  LET a == req[r].lane IN
  /\ req[r].phase = "running"
  /\ req' = [req EXCEPT ![r].phase = "done"]
  /\ admitted' = [admitted EXCEPT ![a] = @ - 1]
  /\ Touch(a)
  /\ UNCHANGED <<pooled, pool, waiting, active, agents, op, busy, door, faults>>

\* The turn ended, with an answer or an error.
Finish(r) ==
  LET a == req[r].lane IN
  /\ req[r].phase = "running"
  /\ req' = [req EXCEPT ![r].phase = "done"]
  /\ active' = [active EXCEPT ![a] = None]
  /\ admitted' = [admitted EXCEPT ![a] = @ - 1]
  /\ Touch(a)
  /\ UNCHANGED <<pooled, pool, waiting, agents, op, busy, door, faults>>

-----------------------------------------------------------------------------
(* An artifact call (answerArtifact, artifactsForRequest, heldBinding)     *)

\* `held` is a binding artifactsForRequest handed out, which calls again.
NewOp == [step |-> "new", session |-> Anonymous, agent |-> 0, lane |-> 0, held |-> FALSE]

\* Mutant: a call that waited does not look at the door again.
MutantClosing == FALSE

Closing == door # "open"

\* The call reads the stored conversation first, to know whose it is.
Ask(o, s, held) ==
  /\ op[o].step = "new" /\ door = "open"
  /\ op' = [op EXCEPT ![o].step = "asking", ![o].session = s, ![o].held = held]
  /\ UNCHANGED <<lanes, agents, req, busy, door, faults>>

\* Not the owner, the store failed, or the host closed meanwhile.
Deny(o) ==
  /\ op[o].step = "asking"
  /\ op' = [op EXCEPT ![o].step = "done"]
  /\ UNCHANGED <<lanes, agents, req, busy, door, faults>>

Free(s) == busy[s] < OpsPerSession

\* redeemerFor: the session's lane, which is then used last, or else the reader,
\* built on first need, which no lane makes room for.
Redeem(o, a, lane) ==
  IF pool[op[o].session] # 0
  THEN a = pool[op[o].session] /\ lane = a /\ Touch(a) /\ UNCHANGED <<built, reader>>
  ELSE /\ lane = 0 /\ UNCHANGED older
       /\ IF reader # 0 THEN a = reader /\ UNCHANGED <<built, reader>>
          ELSE built < MaxBuilt /\ a = built + 1 /\ built' = a /\ reader' = a

\* The call holds the lane it reads through, and a slot of its session.
Holds(o, lane) ==
  /\ admitted' = IF lane = 0 THEN admitted ELSE [admitted EXCEPT ![lane] = @ + 1]
  /\ busy' = [busy EXCEPT ![op[o].session] = @ + 1]

Read(o) ==
  /\ op[o].step = "asking" /\ ~op[o].held /\ ~Closing /\ Free(op[o].session)
  /\ \E a \in Agent, lane \in Agent \cup {0} :
       /\ Redeem(o, a, lane)
       /\ Holds(o, lane)
       /\ op' = [op EXCEPT ![o].step = "reading", ![o].agent = a, ![o].lane = lane]
  /\ UNCHANGED <<pooled, pool, waiting, active, retired, leaving, stopped, req, door, faults>>

Bind(o) ==
  /\ op[o].step = "asking" /\ op[o].held /\ ~Closing
  /\ \E a \in Agent, lane \in Agent \cup {0} :
       /\ Redeem(o, a, lane)
       /\ op' = [op EXCEPT ![o].step = "bound", ![o].agent = a, ![o].lane = lane]
  /\ UNCHANGED <<pooled, pool, waiting, active, admitted, retired, leaving, stopped, req, busy, door, faults>>

\* Mutant: a binding does not know its agent was retired.
MutantRevoked(o) == Closing

Revoked(o) == Closing \/ op[o].agent \in retired

\* A verb of the binding; one called over the bound, or once revoked, is refused.
Use(o) ==
  /\ op[o].step = "bound" /\ ~Revoked(o) /\ Free(op[o].session)
  /\ Holds(o, op[o].lane)
  /\ op' = [op EXCEPT ![o].step = "reading"]
  /\ UNCHANGED <<pooled, pool, older, waiting, active, agents, req, door, faults>>

\* Mutant: a call that ends leaves its lane as it found it.
MutantReleases(o) == UNCHANGED <<admitted, older>>

\* The call lets go of its lane.
Releases(o) ==
  IF op[o].lane = 0 THEN UNCHANGED <<admitted, older>>
  ELSE /\ admitted' = [admitted EXCEPT ![op[o].lane] = @ - 1]
       /\ IF op[o].lane \in Live THEN Touch(op[o].lane) ELSE UNCHANGED older

Return(o) ==
  /\ op[o].step = "reading"
  /\ Releases(o)
  /\ busy' = [busy EXCEPT ![op[o].session] = @ - 1]
  /\ op' = [op EXCEPT ![o].step = IF op[o].held THEN "bound" ELSE "done"]
  /\ UNCHANGED <<pooled, pool, waiting, active, agents, req, door, faults>>

-----------------------------------------------------------------------------
(* Shutdown                                                                *)

Stop(a) ==
  /\ a \in leaving
  /\ leaving' = leaving \ {a} /\ stopped' = stopped \cup {a}
  /\ UNCHANGED <<lanes, built, reader, retired, req, op, busy, door, faults>>

\* close: the host takes nothing more.
Close ==
  /\ door = "open"
  /\ door' = "closing"
  /\ UNCHANGED <<lanes, agents, req, op, busy, faults>>

\* The host waited for what it was serving: turns and calls of the wire.
Served ==
  /\ \A r \in Request : req[r].phase \in {"new", "done"}
  /\ \A o \in Op : op[o].held \/ op[o].step \in {"new", "done"}

\* The pool is dropped. An agent of the factory is shut down, a shared one is
\* the caller's.
CloseLanes ==
  /\ door = "closing" /\ Served
  /\ door' = "closed"
  /\ IF pooled
     THEN /\ pool' = [k \in Key |-> 0] /\ older' = {}
          /\ leaving' = leaving \cup Live \cup ({reader} \ {0})
     ELSE UNCHANGED <<pool, older, leaving>>
  /\ UNCHANGED <<pooled, waiting, active, admitted, built, reader, retired, stopped, req, op, busy, faults>>

-----------------------------------------------------------------------------

Init ==
  /\ pooled \in Shapes
  /\ pool = [k \in Key |-> IF pooled THEN 0 ELSE 1]
  /\ older = {}
  /\ waiting = [a \in Agent |-> <<>>]
  /\ active = [a \in Agent |-> None]
  /\ admitted = [a \in Agent |-> 0]
  /\ built = IF pooled THEN 0 ELSE 1
  /\ reader = 0 /\ retired = {} /\ leaving = {} /\ stopped = {}
  /\ req = [r \in Request |-> NewRequest]
  /\ op = [o \in Op |-> NewOp]
  /\ busy = [s \in Session |-> 0]
  /\ door = "open"
  /\ faults = 0

Decide(r) ==
  \/ Refuse(r) \/ RefuseConcurrent(r) \/ BuildFails(r)
  \/ \E anyway \in BOOLEAN : JoinLane(r, anyway) \/ BuildLane(r, anyway)

TurnStep(r) == Decide(r) \/ Start(r) \/ Finish(r)

CallStep(o) == Deny(o) \/ Read(o) \/ Bind(o) \/ Return(o)

Next ==
  \/ \E r \in Request : (\E k \in Key : Arrive(r, k)) \/ TurnStep(r)
  \/ \E o \in Op : (\E s \in Session, held \in BOOLEAN : Ask(o, s, held)) \/ CallStep(o) \/ Use(o)
  \/ \E a \in Agent : Stop(a)
  \/ Close \/ CloseLanes

Spec == Init /\ [][Next]_vars

-----------------------------------------------------------------------------
(* Properties                                                              *)

Phase == {"new", "deciding", "queued", "running", "done"}
Stage == {"new", "asking", "bound", "reading", "done"}

RequestRecord == [phase : Phase, session : Key, lane : Agent \cup {0}, anyway : BOOLEAN]

OpRecord == [step : Stage, session : Key, agent : Agent \cup {0}, lane : Agent \cup {0}, held : BOOLEAN]

TypeOK ==
  /\ pooled \in BOOLEAN
  /\ pool \in [Key -> Agent \cup {0}] /\ older \subseteq Agent \X Agent
  /\ waiting \in [Agent -> Seq(Request)] /\ active \in [Agent -> Request \cup {None}]
  /\ admitted \in [Agent -> Nat] /\ busy \in [Session -> Nat]
  /\ built \in Agent \cup {0} /\ reader \in Agent \cup {0}
  /\ retired \subseteq Agent /\ leaving \subseteq Agent /\ stopped \subseteq Agent
  /\ req \in [Request -> RequestRecord] /\ op \in [Op -> OpRecord]
  /\ door \in {"open", "closing", "closed"} /\ faults \in 0..MaxFaults

AtWork(r) == req[r].phase \in {"queued", "running"}
Reading(o) == op[o].step = "reading"

\* The count that keeps a lane from eviction is the work it has: no turn and no
\* artifact call is counted twice or forgotten, however it ends.
AdmittedIsWork ==
  \A a \in Agent :
    admitted[a] = Cardinality({r \in Request : AtWork(r) /\ req[r].lane = a})
                + Cardinality({o \in Op : Reading(o) /\ op[o].lane = a})

\* Nobody's agent is evicted or shut down under them: a turn queued or running
\* is on the lane its session has in the pool, and an artifact call reads
\* through an agent that is not retired (a binding's may stop with the host).
WorkKeepsItsAgent ==
  /\ \A r \in Request : AtWork(r) => /\ req[r].lane = pool[req[r].session]
                                     /\ req[r].lane \notin retired \cup leaving \cup stopped
  /\ \A o \in Op : Reading(o) => /\ op[o].agent \notin retired
                                 /\ op[o].agent \in leaving \cup stopped => door = "closed" /\ op[o].held

\* Two turns that run at the same time share neither their session, although the
\* pool may have built it a second agent in between, nor their agent.
OneTurnAtATime ==
  \A r, q \in Request :
    /\ req[r].phase = "running" /\ req[q].phase = "running"
    /\ req[r].session = req[q].session \/ req[r].lane = req[q].lane
    => r = q

\* Under 'reject' a second turn of a session waits only if the admission policy
\* let it.
SecondTurnWasLet ==
  Rejects => \A r, q \in Request :
    /\ AtWork(r) /\ AtWork(q) /\ r # q
    /\ req[r].session = req[q].session /\ req[r].session # Anonymous
    => req[r].anyway \/ req[q].anyway

\* The bound on a session's artifact calls holds, over calls of the wire and of
\* bindings.
CallsBounded ==
  \A s \in Session :
    /\ busy[s] = Cardinality({o \in Op : Reading(o) /\ op[o].session = s})
    /\ busy[s] <= OpsPerSession

\* What the option says of the pool: "the bound is on how many idle instances
\* are RETAINED. It comes back under the bound as soon as a run finishes."
IdleBounded == pooled => Cardinality({a \in Live : Idle(a)}) <= MaxActive

-----------------------------------------------------------------------------
(* The order of turns: LanePool implements TurnOrder                       *)

\* In the queue `line`, q stands before r.
StandsBefore(line, q, r) == \E i, j \in 1..Len(line) : i < j /\ line[i] = q /\ line[j] = r

\* The turns a queued one waits behind: the one its lane runs, and those before
\* it in the queue.
Ahead(r) ==
  {q \in Request : \/ req[q].phase = "running" /\ req[q].lane = req[r].lane
                   \/ StandsBefore(waiting[req[r].lane], q, r)}

StageOf(r) ==
  CASE req[r].phase = "queued" -> "waiting"
    [] req[r].phase = "running" -> "running"
    [] req[r].phase = "done" -> "over"
    [] OTHER -> "out"

WhoseOf(r) == IF AtWork(r) THEN req[r].session ELSE 0
WhereOf(r) == IF AtWork(r) THEN req[r].lane ELSE 0
AheadOf(r) == IF req[r].phase = "queued" THEN Ahead(r) ELSE {}

Order == INSTANCE TurnOrder WITH
  Session <- Key,
  Nothing <- 0,
  stage <- [r \in Request |-> StageOf(r)],
  whose <- [r \in Request |-> WhoseOf(r)],
  where <- [r \in Request |-> WhereOf(r)],
  ahead <- [r \in Request |-> AheadOf(r)]

\* A turn runs once all turns of its session, and all turns on its agent, that
\* were queued before it are over: 'enqueue' is first in, first out, also for a
\* session whose agent was evicted and built anew.
KeepsTurnOrder == Order!Spec

-----------------------------------------------------------------------------
(* Fairness: policy, store, model and tools answer one way or another, and   *)
(* what is runnable runs. Nobody has to call, nor to close the host.         *)

Fairness ==
  /\ \A r \in Request : WF_vars(TurnStep(r))
  /\ \A o \in Op : WF_vars(CallStep(o))
  /\ \A a \in Agent : WF_vars(Stop(a))
  /\ WF_vars(CloseLanes)

FairSpec == Spec /\ Fairness

\* Every request the door took is answered, whatever it waits behind.
EveryRequestEnds == \A r \in Request : req[r].phase = "deciding" ~> req[r].phase = "done"

\* Once the host is closing, every agent the factory ever built is shut down:
\* those of the pool, those it evicted, and the reader.
NothingLeftRunning ==
  pooled => ((door = "closing") ~> [](stopped = 1..built))
=============================================================================
