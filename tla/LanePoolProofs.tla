---------------------------- MODULE LanePoolProofs ----------------------------
(***************************************************************************)
(* Proofs about LanePool, for any number of sessions, requests, callers of *)
(* artifact calls and agents, and any bounds.                              *)
(***************************************************************************)
EXTENDS LanePool, FiniteSetTheorems, WellFoundedInduction, TLAPS

-----------------------------------------------------------------------------
(* The inductive invariant                                                 *)

Gone == retired \cup leaving \cup stopped

\* A shared agent is every key's lane, and nobody's to retire. A pooled one is
\* one key's, was built, and is no longer in the pool once it is on its way out.
PoolInv ==
  /\ ~pooled => /\ \A k \in Key : pool[k] = 1
                /\ built = 1 /\ reader = 0 /\ Gone = {}
  /\ pooled => \A j, k \in Key : pool[j] = pool[k] /\ pool[j] # 0 => j = k
  /\ \A k \in Key : pool[k] <= built /\ pool[k] \notin Gone
  /\ \A a \in Gone : a <= built

\* The reader is no lane's agent, and leaves with the host.
ReaderInv ==
  /\ reader <= built /\ reader \notin retired
  /\ reader # 0 => \A k \in Key : pool[k] # reader
  /\ door # "closed" => reader \notin Gone

\* A turn at work is on its session's lane; the one that runs is the lane's.
TurnInv ==
  \A r \in Request :
    /\ AtWork(r) => req[r].lane # 0 /\ req[r].lane = pool[req[r].session]
    /\ req[r].phase = "running" => active[req[r].lane] = r
    /\ req[r].phase = "queued" =>
         \E i \in 1..Len(waiting[req[r].lane]) : waiting[req[r].lane][i] = r

\* An artifact call or a binding uses its session's lane, or the reader, until
\* that agent is retired or the host closed; none reads through a retired one.
Uses(o) ==
  /\ op[o].step \in {"asking", "bound", "reading"} => op[o].session \in Session
  /\ op[o].step \in {"bound", "reading"} => op[o].agent # 0
  /\ op[o].step \in {"bound", "reading"} /\ op[o].agent \notin retired /\ door # "closed" =>
       /\ op[o].lane # 0 => op[o].agent = op[o].lane /\ op[o].lane = pool[op[o].session]
       /\ op[o].lane = 0 => op[o].agent = reader
  /\ Reading(o) => op[o].agent \notin retired

CallInv == \A o \in Op : Uses(o)

\* A host that closed its lanes serves nothing any more.
ClosedInv ==
  door = "closed" => /\ \A r \in Request : req[r].phase \in {"new", "done"}
                     /\ \A o \in Op : op[o].held \/ op[o].step \in {"new", "done"}

IInv ==
  /\ TypeOK /\ PoolInv /\ ReaderInv /\ TurnInv /\ CallInv /\ ClosedInv
  /\ AdmittedIsWork /\ CallsBounded /\ SecondTurnWasLet

-----------------------------------------------------------------------------
(* Counting                                                                *)

TurnsOn(a) == {r \in Request : AtWork(r) /\ req[r].lane = a}
CallsOn(a) == {o \in Op : Reading(o) /\ op[o].lane = a}
CallsOf(s) == {o \in Op : Reading(o) /\ op[o].session = s}

\* A part of what the host serves is finite.
LEMMA PartsAreFinite ==
  ASSUME NEW S, S \subseteq Request \/ S \subseteq Op
  PROVE  IsFiniteSet(S) /\ Cardinality(S) \in Nat
  <1>1. IsFiniteSet(Request) /\ IsFiniteSet(Op)
    BY FinitenessAssumption
  <1>2. IsFiniteSet(S)
    <2>1. CASE S \subseteq Request
      <3>1. S \in SUBSET Request  BY <2>1
      <3> QED BY <1>1, <3>1, FS_Subset, SMT
    <2>2. CASE S \subseteq Op
      <3>1. S \in SUBSET Op  BY <2>2
      <3> QED BY <1>1, <3>1, FS_Subset, SMT
    <2> QED BY <2>1, <2>2
  <1> QED BY <1>2, FS_CardinalityType, SMT

\* What is counted is finite.
LEMMA CountsAreFinite ==
  ASSUME NEW a
  PROVE  /\ IsFiniteSet(TurnsOn(a)) /\ Cardinality(TurnsOn(a)) \in Nat
         /\ IsFiniteSet(CallsOn(a)) /\ Cardinality(CallsOn(a)) \in Nat
         /\ IsFiniteSet(CallsOf(a)) /\ Cardinality(CallsOf(a)) \in Nat
  <1>1. TurnsOn(a) \subseteq Request /\ CallsOn(a) \subseteq Op /\ CallsOf(a) \subseteq Op
    BY DEF TurnsOn, CallsOn, CallsOf
  <1> QED BY <1>1, PartsAreFinite, SMT

\* One count goes up by one when one element joins what it counts.
LEMMA OneMore ==
  ASSUME NEW S, IsFiniteSet(S), Cardinality(S) \in Nat, NEW x, x \notin S
  PROVE  Cardinality(S \cup {x}) = Cardinality(S) + 1
  BY FS_AddElement, SMT

\* It goes down by one when one element leaves it, and it was positive before.
LEMMA OneLess ==
  ASSUME NEW S, IsFiniteSet(S), Cardinality(S) \in Nat, NEW x \in S
  PROVE  Cardinality(S \ {x}) = Cardinality(S) - 1 /\ Cardinality(S) > 0
  <1>1. Cardinality(S \ {x}) = Cardinality(S) - 1
    BY FS_RemoveElement, SMT
  <1>2. Cardinality(S) # 0
    BY FS_EmptySet, SMT
  <1> QED BY <1>1, <1>2

\* The invariants that count, in terms of what is counted.
Counted ==
  /\ \A a \in Agent : admitted[a] = Cardinality(TurnsOn(a)) + Cardinality(CallsOn(a))
  /\ \A s \in Session : busy[s] = Cardinality(CallsOf(s)) /\ busy[s] <= OpsPerSession

\* They are those of the specification.
LEMMA CountedIs ==
  /\ AdmittedIsWork /\ CallsBounded <=> Counted
  /\ (AdmittedIsWork /\ CallsBounded <=> Counted)'
  BY DEF AdmittedIsWork, CallsBounded, Counted, TurnsOn, CallsOn, CallsOf

\* A lane without work has no turn and no artifact call.
LEMMA IdleHasNone ==
  ASSUME Counted, NEW a \in Agent, Idle(a)
  PROVE  /\ \A r \in Request : AtWork(r) => req[r].lane # a
         /\ \A o \in Op : Reading(o) => op[o].lane # a
  <1>1. Cardinality(TurnsOn(a)) = 0 /\ Cardinality(CallsOn(a)) = 0
    BY CountsAreFinite, SMT DEF Counted, Idle
  <1>2. TurnsOn(a) = {} /\ CallsOn(a) = {}
    BY <1>1, CountsAreFinite, FS_EmptySet, SMT
  <1> QED BY <1>2 DEF TurnsOn, CallsOn

\* The counts are right when nobody's work begins or ends.
LEMMA SameWork ==
  ASSUME Counted, UNCHANGED <<admitted, busy>>,
         \A r \in Request : AtWork(r)' = AtWork(r) /\ (AtWork(r) => req'[r].lane = req[r].lane),
         \A o \in Op : /\ Reading(o)' = Reading(o)
                       /\ Reading(o) => op'[o].lane = op[o].lane /\ op'[o].session = op[o].session
  PROVE  Counted'
  <1>1. ASSUME NEW a PROVE TurnsOn(a)' = TurnsOn(a) /\ CallsOn(a)' = CallsOn(a) /\ CallsOf(a)' = CallsOf(a)
    BY DEF TurnsOn, CallsOn, CallsOf
  <1> QED BY <1>1 DEF Counted

\* The counts are right when one turn joins a lane.
LEMMA TurnBegins ==
  ASSUME Counted, admitted \in [Agent -> Nat], NEW r \in Request, NEW b \in Agent, ~AtWork(r),
         UNCHANGED <<busy, op>>, admitted' = [admitted EXCEPT ![b] = @ + 1],
         AtWork(r)', req'[r].lane = b, \A q \in Request \ {r} : req'[q] = req[q]
  PROVE  Counted'
  <1>1. r \notin TurnsOn(b) /\ TurnsOn(b)' = TurnsOn(b) \cup {r}
    BY DEF TurnsOn, AtWork
  <1>2. \A a : a # b => TurnsOn(a)' = TurnsOn(a)
    BY DEF TurnsOn, AtWork
  <1>3. \A a : CallsOn(a)' = CallsOn(a) /\ CallsOf(a)' = CallsOf(a)
    BY DEF CallsOn, CallsOf, Reading
  <1>4. Cardinality(TurnsOn(b) \cup {r}) = Cardinality(TurnsOn(b)) + 1
    BY <1>1, CountsAreFinite, OneMore, SMT
  <1>5. ASSUME NEW a \in Agent
        PROVE  admitted'[a] = Cardinality(TurnsOn(a)') + Cardinality(CallsOn(a)')
    <2>1. Cardinality(TurnsOn(a)) \in Nat /\ Cardinality(CallsOn(a)) \in Nat
      BY CountsAreFinite
    <2> QED BY <2>1, <1>1, <1>2, <1>3, <1>4, SMT DEF Counted
  <1> QED BY <1>3, <1>5 DEF Counted

\* The counts are right when one turn ends, which was counted.
LEMMA TurnEnds ==
  ASSUME Counted, admitted \in [Agent -> Nat], NEW r \in Request, NEW b \in Agent, AtWork(r),
         UNCHANGED <<busy, op>>, admitted' = [admitted EXCEPT ![b] = @ - 1],
         req[r].lane = b, ~AtWork(r)', \A q \in Request \ {r} : req'[q] = req[q]
  PROVE  Counted' /\ admitted[b] > 0
  <1>1. r \in TurnsOn(b) /\ TurnsOn(b)' = TurnsOn(b) \ {r}
    BY DEF TurnsOn, AtWork
  <1>2. \A a : a # b => TurnsOn(a)' = TurnsOn(a)
    BY DEF TurnsOn, AtWork
  <1>3. \A a : CallsOn(a)' = CallsOn(a) /\ CallsOf(a)' = CallsOf(a)
    BY DEF CallsOn, CallsOf, Reading
  <1>4. Cardinality(TurnsOn(b) \ {r}) = Cardinality(TurnsOn(b)) - 1 /\ Cardinality(TurnsOn(b)) > 0
    BY <1>1, CountsAreFinite, OneLess, SMT
  <1>5. ASSUME NEW a \in Agent
        PROVE  /\ admitted'[a] = Cardinality(TurnsOn(a)') + Cardinality(CallsOn(a)')
               /\ a = b => admitted[a] > 0
    <2>1. Cardinality(TurnsOn(a)) \in Nat /\ Cardinality(CallsOn(a)) \in Nat
      BY CountsAreFinite
    <2> QED BY <2>1, <1>1, <1>2, <1>3, <1>4, SMT DEF Counted
  <1> QED BY <1>3, <1>5 DEF Counted

\* They are right when an artifact call of a session that has a slot begins.
LEMMA CallBegins ==
  ASSUME Counted, admitted \in [Agent -> Nat], busy \in [Session -> Nat], NEW o \in Op,
         NEW s \in Session, NEW b \in Agent \cup {0}, ~Reading(o), Free(s), UNCHANGED req,
         admitted' = IF b = 0 THEN admitted ELSE [admitted EXCEPT ![b] = @ + 1],
         busy' = [busy EXCEPT ![s] = @ + 1],
         Reading(o)', op'[o].lane = b, op'[o].session = s, \A q \in Op \ {o} : op'[q] = op[q]
  PROVE  Counted'
  <1>1. o \notin CallsOn(b) /\ CallsOn(b)' = CallsOn(b) \cup {o}
    BY DEF CallsOn, Reading
  <1>2. \A a : a # b => CallsOn(a)' = CallsOn(a)
    BY DEF CallsOn, Reading
  <1>3. o \notin CallsOf(s) /\ CallsOf(s)' = CallsOf(s) \cup {o}
    BY DEF CallsOf, Reading
  <1>4. \A u : u # s => CallsOf(u)' = CallsOf(u)
    BY DEF CallsOf, Reading
  <1>5. \A a : TurnsOn(a)' = TurnsOn(a)
    BY DEF TurnsOn, AtWork
  <1>6. /\ Cardinality(CallsOn(b) \cup {o}) = Cardinality(CallsOn(b)) + 1
        /\ Cardinality(CallsOf(s) \cup {o}) = Cardinality(CallsOf(s)) + 1
    BY <1>1, <1>3, CountsAreFinite, OneMore, SMT
  <1>7. ASSUME NEW a \in Agent
        PROVE  admitted'[a] = Cardinality(TurnsOn(a)') + Cardinality(CallsOn(a)')
    <2>1. Cardinality(TurnsOn(a)) \in Nat /\ Cardinality(CallsOn(a)) \in Nat
      BY CountsAreFinite
    <2>2. admitted[a] = Cardinality(TurnsOn(a)) + Cardinality(CallsOn(a)) /\ a # 0
      BY DEF Counted, Agent
    <2>3. CASE a = b
      BY <2>1, <2>2, <2>3, <1>1, <1>5, <1>6, SMT
    <2>4. CASE a # b
      BY <2>1, <2>2, <2>4, <1>2, <1>5, SMT
    <2> QED BY <2>3, <2>4
  <1>8. ASSUME NEW u \in Session
        PROVE  busy'[u] = Cardinality(CallsOf(u)') /\ busy'[u] <= OpsPerSession
    <2>1. Cardinality(CallsOf(u)) \in Nat
      BY CountsAreFinite
    <2>2. busy[u] = Cardinality(CallsOf(u)) /\ busy[u] <= OpsPerSession
      BY DEF Counted
    <2>3. CASE u = s
      BY <2>1, <2>2, <2>3, <1>3, <1>6, BoundsAssumption, SMT DEF Free
    <2>4. CASE u # s
      BY <2>1, <2>2, <2>4, <1>4, SMT
    <2> QED BY <2>3, <2>4
  <1> QED BY <1>7, <1>8 DEF Counted

\* They are right when an artifact call ends, which was counted.
LEMMA CallEnds ==
  ASSUME Counted, admitted \in [Agent -> Nat], busy \in [Session -> Nat], NEW o \in Op,
         NEW s \in Session, NEW b \in Agent \cup {0}, Reading(o), UNCHANGED req,
         admitted' = IF b = 0 THEN admitted ELSE [admitted EXCEPT ![b] = @ - 1],
         busy' = [busy EXCEPT ![s] = @ - 1],
         ~Reading(o)', op[o].lane = b, op[o].session = s, \A q \in Op \ {o} : op'[q] = op[q]
  PROVE  Counted' /\ busy[s] > 0 /\ (b # 0 => admitted[b] > 0)
  <1>1. o \in CallsOn(b) /\ CallsOn(b)' = CallsOn(b) \ {o}
    BY DEF CallsOn, Reading
  <1>2. \A a : a # b => CallsOn(a)' = CallsOn(a)
    BY DEF CallsOn, Reading
  <1>3. o \in CallsOf(s) /\ CallsOf(s)' = CallsOf(s) \ {o}
    BY DEF CallsOf, Reading
  <1>4. \A u : u # s => CallsOf(u)' = CallsOf(u)
    BY DEF CallsOf, Reading
  <1>5. \A a : TurnsOn(a)' = TurnsOn(a)
    BY DEF TurnsOn, AtWork
  <1>6. /\ Cardinality(CallsOn(b) \ {o}) = Cardinality(CallsOn(b)) - 1 /\ Cardinality(CallsOn(b)) > 0
        /\ Cardinality(CallsOf(s) \ {o}) = Cardinality(CallsOf(s)) - 1 /\ Cardinality(CallsOf(s)) > 0
    <2>1. Cardinality(CallsOn(b) \ {o}) = Cardinality(CallsOn(b)) - 1 /\ Cardinality(CallsOn(b)) > 0
      BY <1>1, CountsAreFinite, OneLess, SMT
    <2>2. Cardinality(CallsOf(s) \ {o}) = Cardinality(CallsOf(s)) - 1 /\ Cardinality(CallsOf(s)) > 0
      BY <1>3, CountsAreFinite, OneLess, SMT
    <2> QED BY <2>1, <2>2
  <1>7. ASSUME NEW a \in Agent
        PROVE  /\ admitted'[a] = Cardinality(TurnsOn(a)') + Cardinality(CallsOn(a)')
               /\ a = b => admitted[a] > 0
    <2>1. Cardinality(TurnsOn(a)) \in Nat /\ Cardinality(CallsOn(a)) \in Nat
      BY CountsAreFinite
    <2>2. admitted[a] = Cardinality(TurnsOn(a)) + Cardinality(CallsOn(a)) /\ a # 0
      BY DEF Counted, Agent
    <2>3. CASE a = b
      BY <2>1, <2>2, <2>3, <1>1, <1>5, <1>6, SMT
    <2>4. CASE a # b
      BY <2>1, <2>2, <2>4, <1>2, <1>5, SMT
    <2> QED BY <2>3, <2>4
  <1>8. ASSUME NEW u \in Session
        PROVE  /\ busy'[u] = Cardinality(CallsOf(u)') /\ busy'[u] <= OpsPerSession
               /\ u = s => busy[u] > 0
    <2>1. Cardinality(CallsOf(u)) \in Nat
      BY CountsAreFinite
    <2>2. busy[u] = Cardinality(CallsOf(u)) /\ busy[u] <= OpsPerSession
      BY DEF Counted
    <2>3. CASE u = s
      BY <2>1, <2>2, <2>3, <1>3, <1>6, BoundsAssumption, SMT
    <2>4. CASE u # s
      BY <2>1, <2>2, <2>4, <1>4, SMT
    <2> QED BY <2>3, <2>4
  <1> QED BY <1>7, <1>8 DEF Counted

-----------------------------------------------------------------------------
(* The pool                                                                *)

\* Only lanes without work are evicted.
LEMMA EvictedAreIdle ==
  ASSUME TypeOK
  PROVE  /\ Live \subseteq Agent /\ Evicted \subseteq Live
         /\ \A a \in Evicted : Idle(a)
  <1>1. Live \subseteq Agent
    BY DEF TypeOK, Live
  <1>2. Evicted \subseteq Live /\ \A a \in Evicted : Idle(a)
    BY DEF Evicted
  <1> QED BY <1>1, <1>2

\* The order of use is one of agents.
LEMMA OrderTyped ==
  ASSUME older \subseteq Agent \X Agent, NEW live \in SUBSET Agent, NEW a \in Agent,
         NEW o \in UsedLast(live, a)
  PROVE  o \subseteq Agent \X Agent
  BY DEF UsedLast, Among

\* A step that leaves the pool, the agents and the door alone keeps what is
\* known of them.
LEMMA PoolSame ==
  ASSUME PoolInv, ReaderInv, UNCHANGED <<pooled, pool, built, reader, retired, leaving, stopped, door>>
  PROVE  PoolInv' /\ ReaderInv'
  BY DEF PoolInv, ReaderInv, Gone

\* One that leaves the artifact calls alone as well keeps what is known of those.
LEMMA CallsSame ==
  ASSUME CallInv, UNCHANGED <<op, retired, reader, door, pool>>
  PROVE  CallInv'
  BY DEF CallInv, Uses, Reading

\* One that leaves the turns alone keeps what is known of them.
LEMMA TurnsSame ==
  ASSUME TurnInv, SecondTurnWasLet, UNCHANGED <<req, pool, active, waiting>>
  PROVE  TurnInv' /\ SecondTurnWasLet'
  BY DEF TurnInv, SecondTurnWasLet, AtWork

-----------------------------------------------------------------------------
(* Turns                                                                   *)

\* The other requests are where they were.
Alone(r) == \A q \in Request \ {r} : req'[q] = req[q]

\* A request that moves on keeps its type, its session and its lane.
LEMMA Moves ==
  ASSUME TypeOK, NEW r \in Request, NEW p \in Phase, req' = [req EXCEPT ![r].phase = p]
  PROVE  /\ req' \in [Request -> RequestRecord] /\ Alone(r)
         /\ req'[r].phase = p /\ req'[r].session = req[r].session
         /\ req'[r].lane = req[r].lane /\ req'[r].anyway = req[r].anyway
  <1>1. req[r] \in RequestRecord
    BY DEF TypeOK
  <1>2. [req[r] EXCEPT !.phase = p] \in RequestRecord
    BY <1>1 DEF RequestRecord
  <1> QED BY <1>1, <1>2 DEF TypeOK, RequestRecord, Alone

\* One that arrives names its session.
LEMMA Names ==
  ASSUME TypeOK, NEW r \in Request, NEW p \in Phase, NEW k \in Key,
         req' = [req EXCEPT ![r].phase = p, ![r].session = k]
  PROVE  req' \in [Request -> RequestRecord] /\ Alone(r) /\ req'[r].phase = p
  <1>1. req[r] \in RequestRecord
    BY DEF TypeOK
  <1>2. [req[r] EXCEPT !.phase = p, !.session = k] \in RequestRecord
    BY <1>1 DEF RequestRecord
  <1> QED BY <1>1, <1>2 DEF TypeOK, RequestRecord, Alone

\* One that is queued has a lane.
LEMMA Queues ==
  ASSUME TypeOK, NEW r \in Request, NEW p \in Phase, NEW a \in Agent, NEW b \in BOOLEAN,
         req' = [req EXCEPT ![r].phase = p, ![r].lane = a, ![r].anyway = b]
  PROVE  /\ req' \in [Request -> RequestRecord] /\ Alone(r)
         /\ req'[r].phase = p /\ req'[r].session = req[r].session
         /\ req'[r].lane = a /\ req'[r].anyway = b
  <1>1. req[r] \in RequestRecord
    BY DEF TypeOK
  <1>2. [req[r] EXCEPT !.phase = p, !.lane = a, !.anyway = b] \in RequestRecord
    BY <1>1 DEF RequestRecord
  <1> QED BY <1>1, <1>2 DEF TypeOK, RequestRecord, Alone

\* What is known of the turns stays right when a request that is not at work
\* moves on and takes up no work.
LEMMA NoTurn ==
  ASSUME TurnInv, SecondTurnWasLet, NEW r \in Request, Alone(r), ~AtWork(r), ~AtWork(r)',
         UNCHANGED <<pool, active, waiting>>
  PROVE  TurnInv' /\ SecondTurnWasLet'
  <1>1. TurnInv'
    BY DEF TurnInv, AtWork, Alone
  <1>2. SecondTurnWasLet'
    BY DEF SecondTurnWasLet, AtWork, Alone
  <1> QED BY <1>1, <1>2

\* A request that reaches the door keeps the invariant.
LEMMA ArriveKeeps ==
  ASSUME IInv, NEW r \in Request, NEW k \in Key, Arrive(r, k)
  PROVE  IInv'
  <1> USE DEF IInv, lanes, agents
  <1>1. req' \in [Request -> RequestRecord] /\ Alone(r) /\ req'[r].phase = "deciding"
    BY Names DEF Arrive, Phase
  <1>2. ~AtWork(r) /\ ~AtWork(r)'
    BY <1>1 DEF AtWork, Arrive
  <1>3. TypeOK'
    BY <1>1 DEF TypeOK, Arrive
  <1>4. PoolInv' /\ ReaderInv' /\ CallInv'
    BY PoolSame, CallsSame DEF Arrive
  <1>5. TurnInv' /\ SecondTurnWasLet'
    BY <1>1, <1>2, NoTurn DEF Arrive
  <1>6. ClosedInv'
    BY DEF ClosedInv, Arrive
  <1>7. Counted'
    <2>1. Counted
      BY CountedIs
    <2> QED BY <1>1, <1>2, <2>1, SameWork DEF Arrive, Alone, AtWork, Reading
  <1> QED BY <1>3, <1>4, <1>5, <1>6, <1>7, CountedIs

\* A request that ends without a turn keeps the invariant.
LEMMA EndsKeeps ==
  ASSUME IInv, NEW r \in Request, req[r].phase = "deciding",
         req' = [req EXCEPT ![r].phase = "done"], older' \subseteq Agent \X Agent,
         UNCHANGED <<pooled, pool, waiting, active, admitted, agents, op, busy, door, faults>>
  PROVE  IInv'
  <1> USE DEF IInv, agents
  <1>1. req' \in [Request -> RequestRecord] /\ Alone(r) /\ req'[r].phase = "done"
    BY Moves DEF Phase
  <1>2. ~AtWork(r) /\ ~AtWork(r)'
    BY <1>1 DEF AtWork
  <1>3. TypeOK'
    BY <1>1 DEF TypeOK
  <1>4. PoolInv' /\ ReaderInv' /\ CallInv'
    BY PoolSame, CallsSame
  <1>5. TurnInv' /\ SecondTurnWasLet'
    BY <1>1, <1>2, NoTurn
  <1>6. ClosedInv'
    BY <1>1 DEF ClosedInv, Alone
  <1>7. Counted'
    <2>1. Counted
      BY CountedIs
    <2> QED BY <1>1, <1>2, <2>1, SameWork DEF Alone, AtWork, Reading
  <1> QED BY <1>3, <1>4, <1>5, <1>6, <1>7, CountedIs

\* A refused request keeps the invariant.
LEMMA RefuseKeeps ==
  ASSUME IInv, NEW r \in Request, Refuse(r) \/ RefuseConcurrent(r)
  PROVE  IInv'
  <1>1. CASE Refuse(r)
    BY <1>1, EndsKeeps DEF Refuse, lanes, IInv, TypeOK
  <1>2. CASE RefuseConcurrent(r)
    <2>1. older' \subseteq Agent \X Agent
      <3>1. pool[req[r].session] \in Agent /\ Live \in SUBSET Agent
        <4>1. req[r].session \in Key
          BY DEF IInv, TypeOK, RequestRecord
        <4> QED BY <1>2, <4>1, EvictedAreIdle DEF RefuseConcurrent, IInv, TypeOK
      <3> QED BY <1>2, <3>1, OrderTyped DEF RefuseConcurrent, Touch, IInv, TypeOK
    <2> QED BY <1>2, <2>1, EndsKeeps DEF RefuseConcurrent, agents
  <1> QED BY <1>1, <1>2

\* What is known of the turns stays right when a request joins a lane's queue,
\* if that lane is its session's and nobody of its session is at work unless it
\* was let wait.
LEMMA TurnJoins ==
  ASSUME TypeOK, TurnInv, SecondTurnWasLet, NEW r \in Request, NEW a \in Agent, NEW b \in BOOLEAN,
         Alone(r), req'[r].phase = "queued", req'[r].session = req[r].session, req'[r].lane = a,
         req'[r].anyway = b, waiting' = [waiting EXCEPT ![a] = Append(@, r)], UNCHANGED active,
         pool'[req[r].session] = a,
         \A q \in Request \ {r} : AtWork(q) => pool'[req[q].session] = pool[req[q].session],
         Rejects /\ ~b /\ req[r].session # Anonymous =>
           \A q \in Request \ {r} : AtWork(q) => req[q].session # req[r].session
  PROVE  TurnInv' /\ SecondTurnWasLet'
  <1>1. ASSUME NEW q \in Request, AtWork(q)'
        PROVE  req'[q].lane # 0 /\ req'[q].lane = pool'[req'[q].session]
    BY <1>1 DEF TurnInv, AtWork, Alone, Agent
  <1>2. ASSUME NEW q \in Request, req'[q].phase = "running"
        PROVE  active'[req'[q].lane] = q
    BY <1>2 DEF TurnInv, AtWork, Alone
  <1>3. ASSUME NEW q \in Request, req'[q].phase = "queued"
        PROVE  \E i \in 1..Len(waiting'[req'[q].lane]) : waiting'[req'[q].lane][i] = q
    <2>1. waiting[a] \in Seq(Request) /\ waiting'[a] = Append(waiting[a], r)
      BY DEF TypeOK
    <2>2. CASE q = r
      <3>1. Len(waiting'[a]) \in 1..Len(waiting'[a]) /\ waiting'[a][Len(waiting'[a])] = r
        BY <2>1
      <3> QED BY <2>2, <3>1
    <2>3. CASE q # r
      <3>1. req'[q] = req[q] /\ req[q].phase = "queued"
        BY <1>3, <2>3 DEF Alone
      <3>2. PICK i \in 1..Len(waiting[req[q].lane]) : waiting[req[q].lane][i] = q
        BY <3>1 DEF TurnInv
      <3>3. CASE req[q].lane = a
        <4>1. i \in 1..Len(waiting'[a]) /\ waiting'[a][i] = q
          BY <2>1, <3>2, <3>3
        <4> QED BY <3>1, <3>3, <4>1
      <3>4. CASE req[q].lane # a
        <4>1. waiting'[req[q].lane] = waiting[req[q].lane]
          <5>1. req[q].lane \in Agent
            BY <3>1 DEF TurnInv, AtWork, TypeOK, RequestRecord
          <5> QED BY <5>1, <3>4 DEF TypeOK
        <4> QED BY <3>1, <3>2, <4>1
      <3> QED BY <3>3, <3>4
    <2> QED BY <2>2, <2>3
  <1>4. TurnInv'
    BY <1>1, <1>2, <1>3 DEF TurnInv
  <1>5. SecondTurnWasLet'
    BY DEF SecondTurnWasLet, AtWork, Alone
  <1> QED BY <1>4, <1>5

\* A request that joins its session's lane keeps the invariant.
LEMMA JoinKeeps ==
  ASSUME IInv, NEW r \in Request, NEW b \in BOOLEAN, JoinLane(r, b)
  PROVE  IInv'
  <1> DEFINE a == pool[req[r].session]
  <1> USE DEF IInv, agents
  <1>0. req[r].session \in Key /\ a \in Agent /\ req[r].phase = "deciding"
    BY DEF JoinLane, TypeOK, RequestRecord
  <1>1. /\ req' \in [Request -> RequestRecord] /\ Alone(r) /\ req'[r].phase = "queued"
        /\ req'[r].session = req[r].session /\ req'[r].lane = a /\ req'[r].anyway = b
    BY ZenonT(60), <1>0, Queues DEF JoinLane, Enqueue, Phase
  <1>2. ~AtWork(r) /\ AtWork(r)'
    BY <1>0, <1>1 DEF AtWork
  <1>3. TypeOK'
    <2>1. older' \subseteq Agent \X Agent
      BY <1>0, EvictedAreIdle, OrderTyped DEF JoinLane, Touch, TypeOK
    <2>2. waiting' \in [Agent -> Seq(Request)] /\ admitted' \in [Agent -> Nat]
      BY <1>0 DEF JoinLane, Enqueue, TypeOK
    <2> QED BY <1>1, <2>1, <2>2 DEF TypeOK, JoinLane, Enqueue
  <1>4. PoolInv' /\ ReaderInv' /\ CallInv'
    BY PoolSame, CallsSame DEF JoinLane
  <1>5. TurnInv' /\ SecondTurnWasLet'
    <2>1. Rejects /\ ~b /\ req[r].session # Anonymous =>
            \A q \in Request \ {r} : AtWork(q) => req[q].session # req[r].session
      BY DEF JoinLane, Collides, TurnInv, AtWork
    <2> QED BY <1>0, <1>1, <2>1, TurnJoins DEF JoinLane, Enqueue
  <1>6. ClosedInv'
    BY <1>0 DEF ClosedInv, JoinLane
  <1>7. Counted'
    <2>1. Counted /\ admitted \in [Agent -> Nat]
      BY CountedIs DEF TypeOK
    <2> QED BY <1>0, <1>1, <1>2, <2>1, TurnBegins DEF JoinLane, Enqueue, Alone
  <1> QED BY <1>3, <1>4, <1>5, <1>6, <1>7, CountedIs

\* Eviction takes no agent of a turn at work, of an artifact call that reads, or
\* of the reader; and it happens only in a pool, while the host is open.
LEMMA EvictionSpares ==
  ASSUME IInv, NEW r \in Request, req[r].phase = "deciding", pool[req[r].session] = 0
  PROVE  /\ pooled /\ door # "closed" /\ Evicted \subseteq Live /\ Live \subseteq Agent
         /\ \A q \in Request : AtWork(q) => req[q].lane \notin Evicted
         /\ \A o \in Op : Reading(o) => op[o].agent \notin Evicted
         /\ reader \notin Evicted
  <1> USE DEF IInv
  <1>1. req[r].session \in Key
    BY DEF TypeOK, RequestRecord
  <1>2. pooled /\ door # "closed"
    BY <1>1 DEF PoolInv, ClosedInv
  <1>3. Evicted \subseteq Live /\ Live \subseteq Agent /\ \A a \in Evicted : Idle(a)
    BY EvictedAreIdle
  <1>4. \A a \in Evicted : /\ \A q \in Request : AtWork(q) => req[q].lane # a
                           /\ \A o \in Op : Reading(o) => op[o].lane # a
    BY <1>3, CountedIs, IdleHasNone
  <1>5. reader \notin Evicted
    <2>1. reader \notin Live
      BY DEF Live, ReaderInv
    <2> QED BY <1>3, <2>1
  <1>6. ASSUME NEW o \in Op, Reading(o) PROVE op[o].agent \notin Evicted
    <2>1. op[o].lane # 0 => op[o].agent = op[o].lane
      BY <1>2, <1>6 DEF CallInv, Uses, Reading
    <2>2. op[o].lane = 0 => op[o].agent = reader
      BY <1>2, <1>6 DEF CallInv, Uses, Reading
    <2> QED BY <1>4, <1>5, <1>6, <2>1, <2>2
  <1> QED BY <1>2, <1>3, <1>4, <1>5, <1>6

\* What is known of the artifact calls stays right when lanes are evicted and
\* a key without a lane may get one.
LEMMA CallsLoseLanes ==
  ASSUME IInv, NEW r \in Request, req[r].phase = "deciding", pool[req[r].session] = 0,
         retired' = retired \cup Evicted, UNCHANGED <<op, reader, door>>,
         \A k \in Key : pool[k] # 0 /\ pool[k] \notin Evicted => pool'[k] = pool[k]
  PROVE  CallInv'
  <1>1. \A o \in Op : Reading(o) => op[o].agent \notin Evicted
    BY EvictionSpares
  <1>2. ASSUME NEW o \in Op, op[o].step \in {"bound", "reading"}, op[o].agent \notin retired',
               door # "closed", op[o].lane # 0
        PROVE  op[o].lane = pool'[op[o].session]
    <2>1. op[o].agent = op[o].lane /\ op[o].lane = pool[op[o].session] /\ op[o].session \in Key
      BY <1>2 DEF IInv, CallInv, Uses, Key
    <2> QED BY <1>2, <2>1
  <1> QED BY <1>1, <1>2 DEF IInv, CallInv, Uses, Reading

\* A factory that fails keeps the invariant, although lanes were evicted for it.
LEMMA BuildFailsKeeps ==
  ASSUME IInv, NEW r \in Request, BuildFails(r)
  PROVE  IInv'
  <1> USE DEF IInv
  <1>0. /\ req[r].session \in Key /\ req[r].phase = "deciding" /\ pool[req[r].session] = 0
        /\ pool' = [k \in Key |-> IF pool[k] \in Evicted THEN 0 ELSE pool[k]]
        /\ retired' = retired \cup Evicted /\ leaving' = leaving \cup Evicted
        /\ UNCHANGED <<pooled, waiting, active, admitted, built, reader, stopped, op, busy, door>>
    BY DEF BuildFails, TypeOK, RequestRecord, Emptied, Retire
  <1>s. /\ pooled /\ Evicted \subseteq Live /\ Live \subseteq Agent /\ reader \notin Evicted
        /\ \A q \in Request : AtWork(q) => req[q].lane \notin Evicted
    BY <1>0, EvictionSpares
  <1>1. req' \in [Request -> RequestRecord] /\ Alone(r) /\ req'[r].phase = "done"
    BY Moves DEF BuildFails, Phase
  <1>2. ~AtWork(r) /\ ~AtWork(r)'
    BY <1>0, <1>1 DEF AtWork
  <1>3. TypeOK'
    <2>1. older' \subseteq Agent \X Agent /\ faults' \in 0..MaxFaults
      BY BoundsAssumption DEF BuildFails, Among, TypeOK, Fault
    <2>2. pool' \in [Key -> Agent \cup {0}] /\ retired' \subseteq Agent /\ leaving' \subseteq Agent
      BY <1>0, <1>s DEF TypeOK
    <2> QED BY <1>0, <1>1, <2>1, <2>2 DEF TypeOK
  <1>4. PoolInv' /\ ReaderInv'
    <2>1. \A a \in Evicted : a # 0 /\ a <= built
      BY <1>s DEF Live, PoolInv, Agent
    <2>2. \A k \in Key : pool[k] \in Evicted \/ pool'[k] = pool[k]
      BY <1>0
    <2> QED BY <1>0, <1>s, <2>1 DEF PoolInv, ReaderInv, Gone, TypeOK, Agent
  <1>5. CallInv'
    BY <1>0, CallsLoseLanes
  <1>6. TurnInv' /\ SecondTurnWasLet'
    <2>1. ASSUME NEW q \in Request, AtWork(q) PROVE pool'[req[q].session] = pool[req[q].session]
      <3>1. req[q].session \in Key /\ req[q].lane = pool[req[q].session]
        BY <2>1 DEF TurnInv, TypeOK, RequestRecord
      <3> QED BY <1>0, <1>s, <2>1, <3>1
    <2> QED BY SMTT(30), <1>0, <1>1, <1>2, <2>1 DEF TurnInv, SecondTurnWasLet, AtWork, Alone
  <1>7. ClosedInv'
    BY <1>0, EvictionSpares DEF ClosedInv
  <1>8. Counted'
    BY <1>0, <1>1, <1>2, CountedIs, SameWork DEF Alone, AtWork, Reading
  <1> QED BY <1>3, <1>4, <1>5, <1>6, <1>7, <1>8, CountedIs

\* A lane built for a request, over the lanes evicted for it, keeps the invariant.
LEMMA BuildKeeps ==
  ASSUME IInv, NEW r \in Request, NEW b \in BOOLEAN, BuildLane(r, b)
  PROVE  IInv'
  <1> DEFINE a == built + 1
             s == req[r].session
  <1> USE DEF IInv
  <1>0. /\ s \in Key /\ a \in Agent /\ req[r].phase = "deciding" /\ pool[s] = 0
        /\ pool' = [k \in Key |-> IF k = s THEN a ELSE IF pool[k] \in Evicted THEN 0 ELSE pool[k]]
        /\ retired' = retired \cup Evicted /\ leaving' = leaving \cup Evicted /\ built' = a
        /\ UNCHANGED <<pooled, active, reader, stopped, op, busy, door, faults>>
    <2>1. s \in Key /\ req[r].phase = "deciding" /\ pool[s] = 0
      BY DEF BuildLane, TypeOK, RequestRecord
    <2>2. a \in Agent
      BY BoundsAssumption DEF BuildLane, TypeOK, Agent
    <2>3. pool' = [k \in Key |-> IF k = s THEN a ELSE IF pool[k] \in Evicted THEN 0 ELSE pool[k]]
      <3>1. pool' = [Emptied EXCEPT ![s] = a]
        BY DEF BuildLane
      <3> HIDE DEF a, s
      <3> QED BY <2>1, <3>1 DEF Emptied
    <2> QED BY <2>1, <2>2, <2>3 DEF BuildLane, Retire, Enqueue
  <1>s. /\ pooled /\ door # "closed" /\ Evicted \subseteq Live /\ Live \subseteq Agent /\ reader \notin Evicted
        /\ \A q \in Request : AtWork(q) => req[q].lane \notin Evicted
    BY <1>0, EvictionSpares
  <1>1. /\ req' \in [Request -> RequestRecord] /\ Alone(r) /\ req'[r].phase = "queued"
        /\ req'[r].session = s /\ req'[r].lane = a /\ req'[r].anyway = b
    <2>1. req' = [req EXCEPT ![r].phase = "queued", ![r].lane = a, ![r].anyway = b]
      BY DEF BuildLane, Enqueue
    <2> HIDE DEF a
    <2> QED BY ZenonT(60), <1>0, <2>1, Queues DEF Phase
  <1>2. ~AtWork(r) /\ AtWork(r)'
    BY <1>0, <1>1 DEF AtWork
  <1>3. TypeOK'
    <2>1. older' \subseteq Agent \X Agent
      <3>1. Live \ Evicted \in SUBSET Agent
        BY <1>s
      <3> QED BY <1>0, <3>1, OrderTyped DEF BuildLane, TypeOK
    <2>2. pool' \in [Key -> Agent \cup {0}] /\ retired' \subseteq Agent /\ leaving' \subseteq Agent
      BY <1>0, <1>s DEF TypeOK
    <2>3. waiting' \in [Agent -> Seq(Request)] /\ admitted' \in [Agent -> Nat]
      BY <1>0 DEF BuildLane, Enqueue, TypeOK
    <2> QED BY <1>0, <1>1, <2>1, <2>2, <2>3 DEF TypeOK
  <1>4. PoolInv' /\ ReaderInv'
    <2>1. \A e \in Evicted : e # 0 /\ e <= built
      BY <1>s DEF Live, PoolInv, Agent
    <2>2. built \in Nat /\ a > built /\ a \notin Evicted
      BY <2>1 DEF TypeOK, Agent
    <2> QED BY <1>0, <1>s, <2>1, <2>2 DEF PoolInv, ReaderInv, Gone, TypeOK, Agent
  <1>5. CallInv'
    BY <1>0, CallsLoseLanes
  <1>6. TurnInv' /\ SecondTurnWasLet'
    <2>1. ASSUME NEW q \in Request \ {r}, AtWork(q)
          PROVE  pool'[req[q].session] = pool[req[q].session] /\ req[q].session # s
      <3>1. req[q].session \in Key /\ req[q].lane = pool[req[q].session] /\ req[q].lane # 0
        BY <2>1 DEF TurnInv, TypeOK, RequestRecord
      <3> QED BY <1>0, <1>s, <2>1, <3>1
    <2>2. pool'[s] = a
      BY <1>0
    <2> QED BY <1>0, <1>1, <2>1, <2>2, TurnJoins DEF BuildLane, Enqueue
  <1>7. ClosedInv'
    BY <1>0, <1>s DEF ClosedInv
  <1>8. Counted'
    <2>1. Counted /\ admitted \in [Agent -> Nat]
      BY CountedIs DEF TypeOK
    <2> QED BY <1>0, <1>1, <1>2, <2>1, TurnBegins DEF BuildLane, Enqueue, Alone
  <1> QED BY <1>3, <1>4, <1>5, <1>6, <1>7, <1>8, CountedIs

\* Who waited behind the first of a lane still waits, one place further on.
LEMMA BehindTheHead ==
  ASSUME NEW s \in Seq(Request), NEW i \in 2..Len(s)
  PROVE  i - 1 \in 1..Len(Tail(s)) /\ Tail(s)[i - 1] = s[i]
  <1>1. i \in Nat /\ Len(s) \in Nat /\ i >= 2 /\ i <= Len(s)
    OBVIOUS
  <1>2. s # <<>>
    BY <1>1
  <1>3. Len(Tail(s)) = Len(s) - 1 /\ \A j \in 1..Len(Tail(s)) : Tail(s)[j] = s[j + 1]
    BY <1>1, <1>2
  <1>4. i - 1 \in 1..Len(Tail(s))
    BY <1>1, <1>3
  <1>5. Tail(s)[i - 1] = s[(i - 1) + 1]
    BY <1>3, <1>4
  <1>6. (i - 1) + 1 = i
    BY <1>1
  <1> QED BY <1>4, <1>5, <1>6

\* A turn that starts keeps the invariant: it was queued and its lane was free.
LEMMA StartKeeps ==
  ASSUME IInv, NEW r \in Request, Start(r)
  PROVE  IInv'
  <1> DEFINE a == req[r].lane
  <1> USE DEF IInv
  <1>0. /\ a \in Agent /\ req[r].phase = "queued" /\ AtWork(r) /\ door # "closed"
        /\ waiting[a] \in Seq(Request) /\ Len(waiting[a]) > 0
        /\ active[a] = None /\ Head(waiting[a]) = r
        /\ waiting' = [waiting EXCEPT ![a] = Tail(@)] /\ active' = [active EXCEPT ![a] = r]
    <2>1. a \in Agent /\ req[r].phase = "queued" /\ AtWork(r)
      BY DEF Start, TurnInv, AtWork, TypeOK, RequestRecord
    <2>2. waiting[a] \in Seq(Request) /\ Len(waiting[a]) > 0
      BY <2>1 DEF TurnInv, TypeOK
    <2> QED BY <2>1, <2>2 DEF Start, ClosedInv
  <1>1. /\ req' \in [Request -> RequestRecord] /\ Alone(r) /\ req'[r].phase = "running"
        /\ req'[r].session = req[r].session /\ req'[r].lane = a /\ req'[r].anyway = req[r].anyway
    BY Moves DEF Start, Phase
  <1>3. TypeOK'
    <2>1. waiting' \in [Agent -> Seq(Request)] /\ active' \in [Agent -> Request \cup {None}]
      <3>1. Tail(waiting[a]) \in Seq(Request)
        BY <1>0
      <3> QED BY <1>0, <3>1 DEF TypeOK
    <2> QED BY <1>1, <2>1 DEF TypeOK, Start, agents
  <1>4. PoolInv' /\ ReaderInv' /\ CallInv'
    BY PoolSame, CallsSame DEF Start, agents
  <1>5. TurnInv'
    <2>1. ASSUME NEW q \in Request, AtWork(q)'
          PROVE  req'[q].lane # 0 /\ req'[q].lane = pool'[req'[q].session]
      BY <1>0, <1>1, <2>1 DEF TurnInv, AtWork, Alone, Start
    <2>2. ASSUME NEW q \in Request, req'[q].phase = "running"
          PROVE  active'[req'[q].lane] = q
      <3>1. CASE q = r
        BY <1>0, <1>1, <3>1 DEF TypeOK
      <3>2. CASE q # r
        <4>1. req'[q] = req[q] /\ active[req[q].lane] = q
          BY <1>1, <2>2, <3>2 DEF TurnInv, Alone
        <4>2. req[q].lane # a
          BY <1>0, <4>1, NamesAssumption
        <4> QED BY <1>0, <4>1, <4>2 DEF TypeOK, RequestRecord
      <3> QED BY <3>1, <3>2
    <2>3. ASSUME NEW q \in Request, req'[q].phase = "queued"
          PROVE  \E i \in 1..Len(waiting'[req'[q].lane]) : waiting'[req'[q].lane][i] = q
      <3>1. q # r /\ req'[q] = req[q]
        BY <1>1, <2>3 DEF Alone
      <3>2. PICK i \in 1..Len(waiting[req[q].lane]) : waiting[req[q].lane][i] = q
        BY <2>3, <3>1 DEF TurnInv
      <3>3. CASE req[q].lane = a
        <4>1. waiting'[a] = Tail(waiting[a])
          BY <1>0 DEF TypeOK
        <4>2. i # 1
          BY <1>0, <3>1, <3>2, <3>3
        <4>3. i \in 2..Len(waiting[a]) /\ waiting[a][i] = q
          BY <3>2, <3>3, <4>2
        <4>4. i - 1 \in 1..Len(waiting'[a]) /\ waiting'[a][i - 1] = q
          BY <1>0, <4>1, <4>3, BehindTheHead
        <4> QED BY <3>1, <3>3, <4>4
      <3>4. CASE req[q].lane # a
        <4>1. waiting'[req[q].lane] = waiting[req[q].lane]
          <5>1. req[q].lane \in Agent
            BY <2>3, <3>1 DEF TurnInv, AtWork, TypeOK, RequestRecord
          <5> QED BY <1>0, <5>1, <3>4 DEF TypeOK
        <4> QED BY <3>1, <3>2, <4>1
      <3> QED BY <3>3, <3>4
    <2> QED BY <2>1, <2>2, <2>3 DEF TurnInv
  <1>6. SecondTurnWasLet' /\ ClosedInv'
    BY <1>0, <1>1 DEF SecondTurnWasLet, ClosedInv, AtWork, Alone, Start
  <1>7. Counted'
    BY <1>0, <1>1, CountedIs, SameWork DEF Start, Alone, AtWork, Reading
  <1> QED BY <1>3, <1>4, <1>5, <1>6, <1>7, CountedIs

\* A turn that ends keeps the invariant: nobody else ran on its lane.
LEMMA FinishKeeps ==
  ASSUME IInv, NEW r \in Request, Finish(r)
  PROVE  IInv'
  <1> DEFINE a == req[r].lane
  <1> USE DEF IInv
  <1>0. /\ a \in Agent /\ req[r].phase = "running" /\ AtWork(r) /\ door # "closed"
        /\ active' = [active EXCEPT ![a] = None]
        /\ admitted' = [admitted EXCEPT ![a] = @ - 1]
    <2>1. req[r].phase = "running" /\ AtWork(r)
      BY DEF Finish, AtWork
    <2>2. req[r] \in RequestRecord
      BY DEF TypeOK
    <2>3. a \in Agent
      BY <2>1, <2>2 DEF TurnInv, RequestRecord
    <2>4. door # "closed"
      BY <2>1 DEF ClosedInv
    <2> QED BY <2>1, <2>3, <2>4 DEF Finish
  <1>1. /\ req' \in [Request -> RequestRecord] /\ Alone(r) /\ req'[r].phase = "done"
        /\ req'[r].session = req[r].session /\ req'[r].lane = a /\ req'[r].anyway = req[r].anyway
    BY Moves DEF Finish, Phase
  <1>2. Counted' /\ admitted[a] > 0
    <2>1. Counted /\ admitted \in [Agent -> Nat] /\ ~AtWork(r)'
      BY <1>1, CountedIs DEF TypeOK, AtWork
    <2> QED BY <1>0, <1>1, <2>1, TurnEnds DEF Finish, Alone
  <1>3. TypeOK'
    <2>1. older' \subseteq Agent \X Agent
      BY <1>0, EvictedAreIdle, OrderTyped DEF Finish, Touch, TypeOK
    <2>2. admitted' \in [Agent -> Nat] /\ active' \in [Agent -> Request \cup {None}]
      BY <1>0, <1>2 DEF TypeOK
    <2> QED BY <1>1, <2>1, <2>2 DEF TypeOK, Finish, agents
  <1>4. PoolInv' /\ ReaderInv' /\ CallInv'
    BY PoolSame, CallsSame DEF Finish, agents
  <1>5. TurnInv'
    <2>1. ASSUME NEW q \in Request, req'[q].phase = "running"
          PROVE  active'[req'[q].lane] = q
      <3>1. q # r /\ req'[q] = req[q] /\ active[req[q].lane] = q /\ active[a] = r
        BY <1>0, <1>1, <2>1 DEF TurnInv, Alone
      <3> QED BY <1>0, <3>1 DEF TypeOK, RequestRecord
    <2> QED BY <1>0, <1>1, <2>1 DEF TurnInv, AtWork, Alone, Finish
  <1>6. SecondTurnWasLet' /\ ClosedInv'
    BY <1>0, <1>1 DEF SecondTurnWasLet, ClosedInv, AtWork, Alone, Finish
  <1> QED BY <1>2, <1>3, <1>4, <1>5, <1>6, CountedIs

-----------------------------------------------------------------------------
(* Artifact calls                                                          *)

\* The other calls are where they were.
Others(o) == \A q \in Op \ {o} : op'[q] = op[q]

\* A call that goes one step on keeps its type, its session and its agent.
LEMMA Steps ==
  ASSUME TypeOK, NEW o \in Op, NEW p \in Stage, op' = [op EXCEPT ![o].step = p]
  PROVE  /\ op' \in [Op -> OpRecord] /\ Others(o)
         /\ op'[o].step = p /\ op'[o].session = op[o].session
         /\ op'[o].agent = op[o].agent /\ op'[o].lane = op[o].lane /\ op'[o].held = op[o].held
  <1>1. op[o] \in OpRecord
    BY DEF TypeOK
  <1>2. [op[o] EXCEPT !.step = p] \in OpRecord
    BY <1>1 DEF OpRecord
  <1> QED BY <1>1, <1>2 DEF TypeOK, OpRecord, Others

\* One that is made names its session.
LEMMA Asks ==
  ASSUME TypeOK, NEW o \in Op, NEW p \in Stage, NEW s \in Session, NEW h \in BOOLEAN,
         op' = [op EXCEPT ![o].step = p, ![o].session = s, ![o].held = h]
  PROVE  op' \in [Op -> OpRecord] /\ Others(o) /\ op'[o].step = p /\ op'[o].session = s
  <1>1. op[o] \in OpRecord /\ s \in Key
    BY DEF TypeOK, Key
  <1>2. [op[o] EXCEPT !.step = p, !.session = s, !.held = h] \in OpRecord
    BY <1>1 DEF OpRecord
  <1> QED BY <1>1, <1>2 DEF TypeOK, OpRecord, Others

\* What is known of the other calls stays right when one moves.
LEMMA OneCall ==
  ASSUME CallInv, NEW o \in Op, Others(o), Uses(o)', UNCHANGED <<retired, reader, door, pool>>
  PROVE  CallInv'
  BY DEF CallInv, Uses, Others, Reading

\* A call that begins to ask keeps the invariant.
LEMMA AskKeeps ==
  ASSUME IInv, NEW o \in Op, NEW s \in Session, NEW h \in BOOLEAN, Ask(o, s, h)
  PROVE  IInv'
  <1> USE DEF IInv, lanes, agents
  <1>1. op' \in [Op -> OpRecord] /\ Others(o) /\ op'[o].step = "asking" /\ op'[o].session = s
    BY Asks DEF Ask, Stage
  <1>2. TypeOK'
    BY <1>1 DEF TypeOK, Ask
  <1>3. PoolInv' /\ ReaderInv' /\ TurnInv' /\ SecondTurnWasLet'
    BY PoolSame, TurnsSame DEF Ask
  <1>4. CallInv'
    BY <1>1, OneCall DEF Ask, Uses, Reading
  <1>5. ClosedInv'
    BY DEF ClosedInv, Ask
  <1>6. Counted'
    BY <1>1, CountedIs, SameWork DEF Ask, Others, Reading, AtWork
  <1> QED BY <1>2, <1>3, <1>4, <1>5, <1>6, CountedIs

\* A call that is denied keeps the invariant.
LEMMA DenyKeeps ==
  ASSUME IInv, NEW o \in Op, Deny(o)
  PROVE  IInv'
  <1> USE DEF IInv, lanes, agents
  <1>1. op' \in [Op -> OpRecord] /\ Others(o) /\ op'[o].step = "done"
    <2>1. TypeOK /\ "done" \in Stage
      BY DEF Stage
    <2>2. op' = [op EXCEPT ![o].step = "done"]
      BY DEF Deny
    <2> HIDE DEF IInv
    <2> QED BY <2>1, <2>2, Steps
  <1>2. TypeOK'
    BY <1>1 DEF TypeOK, Deny
  <1>3. PoolInv' /\ ReaderInv' /\ TurnInv' /\ SecondTurnWasLet'
    BY PoolSame, TurnsSame DEF Deny
  <1>4. CallInv'
    BY <1>1, OneCall DEF Deny, Uses, Reading
  <1>5. ClosedInv'
    BY <1>1 DEF ClosedInv, Deny, Others
  <1>6. Counted'
    BY <1>1, CountedIs, SameWork DEF Deny, Others, Reading, AtWork
  <1> QED BY <1>2, <1>3, <1>4, <1>5, <1>6, CountedIs

\* A call that gets its agent, of the session's lane or else the reader, leaves
\* everyone else's alone.
LEMMA RedeemKeeps ==
  ASSUME IInv, NEW o \in Op, op[o].step = "asking", ~Closing,
         NEW a \in Agent, NEW b \in Agent \cup {0}, Redeem(o, a, b), NEW p \in {"bound", "reading"},
         op' = [op EXCEPT ![o].step = p, ![o].agent = a, ![o].lane = b],
         UNCHANGED <<pooled, pool, waiting, active, retired, leaving, stopped, req, door, faults>>
  PROVE  /\ PoolInv' /\ ReaderInv' /\ TurnInv' /\ SecondTurnWasLet' /\ CallInv' /\ ClosedInv'
         /\ built' \in Agent \cup {0} /\ reader' \in Agent \cup {0} /\ older' \subseteq Agent \X Agent
         /\ op[o].session \in Session /\ op' \in [Op -> OpRecord] /\ Others(o)
         /\ op'[o].step = p /\ op'[o].session = op[o].session /\ op'[o].lane = b
  <1> DEFINE s == op[o].session
  <1> USE DEF IInv
  <1>1. /\ op' \in [Op -> OpRecord] /\ Others(o) /\ op'[o].step = p /\ op'[o].session = s
        /\ op'[o].agent = a /\ op'[o].lane = b
    <2>1. op[o] \in OpRecord
      BY DEF TypeOK
    <2>2. [op[o] EXCEPT !.step = p, !.agent = a, !.lane = b] \in OpRecord
      BY <2>1 DEF OpRecord, Stage
    <2> QED BY <2>1, <2>2 DEF TypeOK, OpRecord, Others
  <1>2. s \in Session /\ s \in Key /\ door = "open" /\ a # 0
    BY DEF CallInv, Uses, Key, Closing, Agent
  <1>3. TurnInv' /\ SecondTurnWasLet' /\ ClosedInv'
    BY <1>2, TurnsSame DEF ClosedInv
  <1>4. CASE pool[s] # 0
    <2>1. a = pool[s] /\ b = pool[s] /\ UNCHANGED <<built, reader>> /\ older' \in UsedLast(Live, a)
      BY <1>4 DEF Redeem, Touch
    <2>2. older' \subseteq Agent \X Agent
      <3>1. Live \in SUBSET Agent
        BY EvictedAreIdle
      <3> QED BY <2>1, <3>1, OrderTyped DEF TypeOK
    <2>3. PoolInv' /\ ReaderInv'
      BY <2>1, PoolSame
    <2>4. a \notin retired
      BY <1>2, <2>1 DEF PoolInv, Gone
    <2>5. Uses(o)'
      BY <1>1, <1>2, <2>1, <2>4 DEF Uses, Reading
    <2>6. CallInv'
      BY <1>1, <2>1, <2>5, OneCall
    <2> QED BY <1>1, <1>2, <1>3, <2>1, <2>2, <2>3, <2>6 DEF TypeOK
  <1>5. CASE pool[s] = 0 /\ reader # 0
    <2>1. a = reader /\ b = 0 /\ UNCHANGED <<built, reader, older>>
      BY <1>5 DEF Redeem
    <2>2. PoolInv' /\ ReaderInv'
      BY <2>1, PoolSame
    <2>3. Uses(o)'
      BY <1>1, <1>2, <2>1 DEF Uses, Reading, ReaderInv
    <2>4. CallInv'
      BY <1>1, <2>1, <2>3, OneCall
    <2> QED BY <1>1, <1>2, <1>3, <2>1, <2>2, <2>4 DEF TypeOK
  <1>6. CASE pool[s] = 0 /\ reader = 0
    <2>1. a = built + 1 /\ b = 0 /\ built' = a /\ reader' = a /\ UNCHANGED older
      BY <1>6 DEF Redeem
    <2>2. built \in Nat /\ a > built /\ \A e \in Gone : e \in Nat /\ e <= built
      BY <2>1 DEF TypeOK, PoolInv, Gone, Agent
    <2>3. a \notin Gone
      BY <2>2
    <2>4. \A k \in Key : pool[k] \in Nat /\ pool[k] <= built
      BY DEF PoolInv, TypeOK, Agent
    <2>5. pooled
      BY <1>2, <1>6 DEF PoolInv
    <2>6. PoolInv'
      <3>1. Gone' = Gone
        BY DEF Gone
      <3>2. \A k \in Key : pool[k] <= built' /\ pool[k] \notin Gone
        BY <2>1, <2>2, <2>4 DEF PoolInv
      <3>3. \A e \in Gone : e <= built'
        BY <2>1, <2>2
      <3> QED BY <2>5, <3>1, <3>2, <3>3 DEF PoolInv
    <2>7. ReaderInv'
      BY <2>1, <2>2, <2>3, <2>4 DEF ReaderInv, Gone
    <2>8. Uses(o)'
      BY <1>1, <1>2, <2>1, <2>3 DEF Uses, Reading, Gone
    <2>9. ASSUME NEW q \in Op, q # o
          PROVE  Uses(q)'
      <3>1. op'[q] = op[q] /\ Uses(q) /\ UNCHANGED <<pool, retired, door>>
        BY <1>1, <2>9 DEF Others, CallInv
      <3>2. op[q].step \in {"bound", "reading"} /\ op[q].agent \notin retired => op[q].lane # 0
        BY <1>2, <1>6, <3>1 DEF Uses
      <3> QED BY <3>1, <3>2 DEF Uses, Reading
    <2> QED BY <1>1, <1>2, <1>3, <2>1, <2>6, <2>7, <2>8, <2>9 DEF CallInv, TypeOK
  <1> QED BY <1>4, <1>5, <1>6

\* A call that reads keeps the invariant: it counts against its lane and its
\* session's bound.
LEMMA ReadKeeps ==
  ASSUME IInv, NEW o \in Op, Read(o)
  PROVE  IInv'
  <1>1. PICK a \in Agent, b \in Agent \cup {0} :
             /\ Redeem(o, a, b) /\ Holds(o, b)
             /\ op' = [op EXCEPT ![o].step = "reading", ![o].agent = a, ![o].lane = b]
    BY DEF Read
  <1>2. /\ op[o].step = "asking" /\ ~Closing /\ Free(op[o].session)
        /\ UNCHANGED <<pooled, pool, waiting, active, retired, leaving, stopped, req, door, faults>>
    BY DEF Read
  <1>3. /\ PoolInv' /\ ReaderInv' /\ TurnInv' /\ SecondTurnWasLet' /\ CallInv' /\ ClosedInv'
        /\ built' \in Agent \cup {0} /\ reader' \in Agent \cup {0} /\ older' \subseteq Agent \X Agent
        /\ op[o].session \in Session /\ op' \in [Op -> OpRecord] /\ Others(o)
        /\ op'[o].step = "reading" /\ op'[o].session = op[o].session /\ op'[o].lane = b
    BY <1>1, <1>2, RedeemKeeps
  <1>4. TypeOK /\ Counted /\ admitted \in [Agent -> Nat] /\ busy \in [Session -> Nat]
    BY CountedIs DEF IInv, TypeOK
  <1>5. /\ admitted' = IF b = 0 THEN admitted ELSE [admitted EXCEPT ![b] = @ + 1]
        /\ busy' = [busy EXCEPT ![op[o].session] = @ + 1]
    BY <1>1 DEF Holds
  <1>6. Counted'
    <2>1. ~Reading(o) /\ Reading(o)'
      BY <1>2, <1>3 DEF Reading
    <2> QED BY <1>2, <1>3, <1>4, <1>5, <2>1, CallBegins DEF Others
  <1>7. TypeOK'
    <2>1. admitted' \in [Agent -> Nat] /\ busy' \in [Session -> Nat]
      BY <1>3, <1>4, <1>5
    <2> QED BY <1>2, <1>3, <1>4, <2>1 DEF TypeOK
  <1> QED BY <1>3, <1>6, <1>7, CountedIs DEF IInv

\* A binding that is handed out keeps the invariant.
LEMMA BindKeeps ==
  ASSUME IInv, NEW o \in Op, Bind(o)
  PROVE  IInv'
  <1>1. PICK a \in Agent, b \in Agent \cup {0} :
             /\ Redeem(o, a, b)
             /\ op' = [op EXCEPT ![o].step = "bound", ![o].agent = a, ![o].lane = b]
    BY DEF Bind
  <1>2. /\ op[o].step = "asking" /\ ~Closing /\ UNCHANGED <<admitted, busy>>
        /\ UNCHANGED <<pooled, pool, waiting, active, retired, leaving, stopped, req, door, faults>>
    BY DEF Bind
  <1>3. /\ PoolInv' /\ ReaderInv' /\ TurnInv' /\ SecondTurnWasLet' /\ CallInv' /\ ClosedInv'
        /\ built' \in Agent \cup {0} /\ reader' \in Agent \cup {0} /\ older' \subseteq Agent \X Agent
        /\ op' \in [Op -> OpRecord] /\ Others(o) /\ op'[o].step = "bound"
    BY <1>1, <1>2, RedeemKeeps
  <1>4. TypeOK'
    BY <1>2, <1>3 DEF IInv, TypeOK
  <1>5. Counted'
    <2>1. Counted
      BY CountedIs DEF IInv
    <2> QED BY <1>2, <1>3, <2>1, SameWork DEF Others, Reading, AtWork
  <1> QED BY <1>3, <1>4, <1>5, CountedIs DEF IInv

\* A verb of a binding keeps the invariant: the agent is not a retired one.
LEMMA UseKeeps ==
  ASSUME IInv, NEW o \in Op, Use(o)
  PROVE  IInv'
  <1> DEFINE s == op[o].session
             b == op[o].lane
  <1> USE DEF IInv, agents
  <1>1. /\ op' \in [Op -> OpRecord] /\ Others(o) /\ op'[o].step = "reading"
        /\ op'[o].session = s /\ op'[o].agent = op[o].agent /\ op'[o].lane = b
    <2>1. TypeOK /\ "reading" \in Stage
      BY DEF Stage
    <2>2. op' = [op EXCEPT ![o].step = "reading"]
      BY DEF Use
    <2> HIDE DEF IInv
    <2> QED BY <2>1, <2>2, Steps
  <1>2. op[o].step = "bound" /\ Uses(o) /\ s \in Session /\ op[o].agent \notin retired /\ door = "open"
    BY DEF Use, CallInv, Uses, Revoked, Closing
  <1>3. b \in Agent \cup {0} /\ admitted \in [Agent -> Nat] /\ busy \in [Session -> Nat]
    BY DEF TypeOK, OpRecord
  <1>4. /\ admitted' = IF b = 0 THEN admitted ELSE [admitted EXCEPT ![b] = @ + 1]
        /\ busy' = [busy EXCEPT ![s] = @ + 1] /\ Free(s)
    BY DEF Use, Holds
  <1>5. TypeOK'
    <2>1. admitted' \in [Agent -> Nat] /\ busy' \in [Session -> Nat]
      BY <1>2, <1>3, <1>4
    <2> QED BY <1>1, <2>1 DEF TypeOK, Use
  <1>6. PoolInv' /\ ReaderInv' /\ TurnInv' /\ SecondTurnWasLet'
    BY PoolSame, TurnsSame DEF Use
  <1>7. CallInv'
    <2>1. Uses(o)'
      BY <1>1, <1>2 DEF Use, Uses, Reading
    <2> QED BY <1>1, <2>1, OneCall DEF Use
  <1>8. ClosedInv'
    BY <1>2 DEF ClosedInv, Use
  <1>9. Counted'
    <2>1. Counted /\ ~Reading(o) /\ Reading(o)' /\ UNCHANGED req
      BY <1>1, <1>2, CountedIs DEF Reading, Use
    <2> HIDE DEF IInv
    <2> QED BY <1>1, <1>2, <1>3, <1>4, <2>1, CallBegins DEF Others
  <1> QED BY <1>5, <1>6, <1>7, <1>8, <1>9, CountedIs

\* A call that ends keeps the invariant.
LEMMA ReturnKeeps ==
  ASSUME IInv, NEW o \in Op, Return(o)
  PROVE  IInv'
  <1> DEFINE s == op[o].session
             b == op[o].lane
             p == IF op[o].held THEN "bound" ELSE "done"
  <1> USE DEF IInv, agents
  <1>1. /\ op' \in [Op -> OpRecord] /\ Others(o) /\ op'[o].step = p /\ op'[o].held = op[o].held
        /\ op'[o].session = s /\ op'[o].agent = op[o].agent /\ op'[o].lane = b
    <2>1. TypeOK /\ p \in Stage
      BY DEF Stage
    <2>2. op' = [op EXCEPT ![o].step = p]
      BY DEF Return
    <2> HIDE DEF IInv, p
    <2> QED BY <2>1, <2>2, Steps
  <1>2. op[o].step = "reading" /\ Uses(o) /\ s \in Session /\ Reading(o)
    BY DEF Return, CallInv, Uses, Reading
  <1>3. b \in Agent \cup {0} /\ admitted \in [Agent -> Nat] /\ busy \in [Session -> Nat]
    BY DEF TypeOK, OpRecord
  <1>4. /\ admitted' = IF b = 0 THEN admitted ELSE [admitted EXCEPT ![b] = @ - 1]
        /\ busy' = [busy EXCEPT ![s] = @ - 1]
    BY DEF Return, Releases
  <1>5. Counted' /\ busy[s] > 0 /\ (b # 0 => admitted[b] > 0)
    <2>1. Counted /\ ~Reading(o)' /\ UNCHANGED req
      BY <1>1, CountedIs DEF Reading, Return
    <2> HIDE DEF IInv, p
    <2> QED BY <1>1, <1>2, <1>3, <1>4, <2>1, CallEnds DEF Others
  <1>6. TypeOK'
    <2>1. admitted' \in [Agent -> Nat] /\ busy' \in [Session -> Nat]
      BY <1>2, <1>3, <1>4, <1>5
    <2>2. older' \subseteq Agent \X Agent
      <3>1. Live \in SUBSET Agent
        BY EvictedAreIdle
      <3> QED BY <1>3, <3>1, OrderTyped DEF Return, Releases, Touch, TypeOK
    <2> QED BY <1>1, <2>1, <2>2 DEF TypeOK, Return
  <1>7. PoolInv' /\ ReaderInv' /\ TurnInv' /\ SecondTurnWasLet'
    BY PoolSame, TurnsSame DEF Return
  <1>8. CallInv'
    <2>1. Uses(o)'
      BY <1>1, <1>2 DEF Return, Uses, Reading
    <2> QED BY <1>1, <2>1, OneCall DEF Return
  <1>9. ClosedInv'
    BY <1>1 DEF ClosedInv, Return, Others
  <1> QED BY <1>5, <1>6, <1>7, <1>8, <1>9, CountedIs

-----------------------------------------------------------------------------
(* Shutdown                                                                *)

\* Nobody's work or call changes: what is counted stays right.
LEMMA NobodyMoves ==
  ASSUME Counted, UNCHANGED <<admitted, busy, req, op>>
  PROVE  Counted'
  BY DEF Counted, TurnsOn, CallsOn, CallsOf, AtWork, Reading

\* An agent that stopped was leaving.
LEMMA StopKeeps ==
  ASSUME IInv, NEW a \in Agent, Stop(a)
  PROVE  IInv'
  <1> USE DEF IInv, lanes
  <1>1. TypeOK'
    BY DEF TypeOK, Stop
  <1>2. PoolInv' /\ ReaderInv'
    <2>1. Gone' = Gone
      BY DEF Gone, Stop
    <2> QED BY <2>1 DEF PoolInv, ReaderInv, Stop
  <1>3. TurnInv' /\ SecondTurnWasLet' /\ CallInv'
    BY TurnsSame, CallsSame DEF Stop
  <1>4. ClosedInv'
    BY DEF ClosedInv, Stop
  <1>5. Counted'
    BY CountedIs, NobodyMoves DEF Stop
  <1> QED BY <1>1, <1>2, <1>3, <1>4, <1>5, CountedIs

\* A host that closes keeps the invariant.
LEMMA CloseKeeps ==
  ASSUME IInv, Close
  PROVE  IInv'
  <1> USE DEF IInv, lanes, agents
  <1>1. TypeOK'
    BY DEF TypeOK, Close
  <1>2. PoolInv' /\ ReaderInv'
    BY DEF PoolInv, ReaderInv, Gone, Close
  <1>3. TurnInv' /\ SecondTurnWasLet'
    BY TurnsSame DEF Close
  <1>4. CallInv' /\ ClosedInv'
    BY DEF CallInv, Uses, Reading, ClosedInv, Close
  <1>5. Counted'
    BY CountedIs, NobodyMoves DEF Close
  <1> QED BY <1>1, <1>2, <1>3, <1>4, <1>5, CountedIs

\* A host that drops its pool serves nobody, and keeps the invariant.
LEMMA CloseLanesKeeps ==
  ASSUME IInv, CloseLanes
  PROVE  IInv'
  <1> USE DEF IInv
  <1>1. /\ door' = "closed" /\ Served
        /\ UNCHANGED <<pooled, waiting, active, admitted, built, reader, retired, stopped>>
        /\ UNCHANGED <<req, op, busy, faults>>
    BY DEF CloseLanes
  <1>2. /\ pooled => /\ pool' = [k \in Key |-> 0] /\ older' = {}
                     /\ leaving' = leaving \cup Live \cup ({reader} \ {0})
        /\ ~pooled => UNCHANGED <<pool, older, leaving>>
    BY DEF CloseLanes
  <1>3. Live \subseteq Agent /\ reader \in Agent \cup {0} /\ built \in Agent \cup {0}
    BY EvictedAreIdle DEF TypeOK
  <1>4. TypeOK'
    <2>1. CASE pooled
      BY <1>1, <1>2, <1>3, <2>1 DEF TypeOK
    <2>2. CASE ~pooled
      BY <1>1, <1>2, <2>2 DEF TypeOK
    <2> QED BY <2>1, <2>2
  <1>5. PoolInv' /\ ReaderInv'
    <2>1. CASE pooled
      <3>1. \A e \in Gone' : e \in Agent /\ e <= built
        BY <1>1, <1>2, <1>3, <2>1 DEF PoolInv, ReaderInv, Gone, Live, TypeOK
      <3>2. 0 \notin Gone' /\ 0 <= built
        BY <1>3, <3>1 DEF Agent
      <3> QED BY <1>1, <1>2, <2>1, <3>1, <3>2 DEF PoolInv, ReaderInv
    <2>2. CASE ~pooled
      BY <1>1, <1>2, <2>2 DEF PoolInv, ReaderInv, Gone
    <2> QED BY <2>1, <2>2
  <1>6. TurnInv' /\ SecondTurnWasLet'
    BY <1>1 DEF TurnInv, SecondTurnWasLet, AtWork, Served
  <1>7. CallInv' /\ ClosedInv'
    BY <1>1 DEF CallInv, Uses, Reading, ClosedInv, Served
  <1>8. Counted'
    BY <1>1, CountedIs, NobodyMoves
  <1> QED BY <1>4, <1>5, <1>6, <1>7, <1>8, CountedIs

-----------------------------------------------------------------------------
(* The theorems                                                            *)

\* A deployment starts with its invariant.
LEMMA InitHolds ==
  ASSUME Init
  PROVE  IInv
  <1> USE DEF Init
  <1>1. Agent \in SUBSET Nat /\ 1 \in Agent /\ 0 \notin Agent
    BY BoundsAssumption DEF Agent
  <1>2. NewRequest \in RequestRecord /\ NewOp \in OpRecord
    BY DEF NewRequest, NewOp, RequestRecord, OpRecord, Phase, Stage, Key
  <1>3. TypeOK
    <2>1. pooled \in BOOLEAN /\ faults \in 0..MaxFaults
      BY ShapeAssumption, BoundsAssumption
    <2>2. waiting \in [Agent -> Seq(Request)]
      OBVIOUS
    <2> QED BY <1>1, <1>2, <2>1, <2>2 DEF TypeOK
  <1>4. PoolInv /\ ReaderInv
    BY DEF PoolInv, ReaderInv, Gone
  <1>5. /\ \A r \in Request : ~AtWork(r) /\ req[r].phase = "new"
        /\ \A o \in Op : ~Reading(o) /\ op[o].step = "new"
    BY DEF AtWork, Reading, NewRequest, NewOp
  <1>6. TurnInv /\ CallInv /\ ClosedInv /\ SecondTurnWasLet
    BY <1>5 DEF TurnInv, CallInv, Uses, ClosedInv, SecondTurnWasLet, AtWork
  <1>7. Counted
    <2>1. ASSUME NEW x PROVE TurnsOn(x) = {} /\ CallsOn(x) = {} /\ CallsOf(x) = {}
      BY <1>5 DEF TurnsOn, CallsOn, CallsOf
    <2>2. Cardinality({}) = 0
      BY FS_EmptySet, SMT
    <2>3. ASSUME NEW a \in Agent
          PROVE  admitted[a] = Cardinality(TurnsOn(a)) + Cardinality(CallsOn(a))
      <3>1. Cardinality(TurnsOn(a)) = 0 /\ Cardinality(CallsOn(a)) = 0
        BY <2>1, <2>2, Zenon
      <3>2. admitted[a] = 0
        OBVIOUS
      <3> QED BY <3>1, <3>2
    <2>4. ASSUME NEW s \in Session
          PROVE  busy[s] = Cardinality(CallsOf(s)) /\ busy[s] <= OpsPerSession
      <3>1. Cardinality(CallsOf(s)) = 0
        BY <2>1, <2>2, Zenon
      <3>2. busy[s] = 0 /\ 0 <= OpsPerSession
        BY BoundsAssumption
      <3> QED BY <3>1, <3>2
    <2> QED BY <2>3, <2>4 DEF Counted
  <1> QED BY <1>3, <1>4, <1>6, <1>7, CountedIs DEF IInv

\* Every step keeps it.
LEMMA NextKeeps ==
  ASSUME IInv, [Next]_vars
  PROVE  IInv'
  <1>1. CASE UNCHANGED vars
    <2> USE <1>1 DEF vars, lanes, agents, IInv
    <2>1. TypeOK' /\ PoolInv' /\ ReaderInv' /\ ClosedInv'
      BY PoolSame DEF TypeOK, ClosedInv
    <2>2. TurnInv' /\ SecondTurnWasLet' /\ CallInv'
      BY TurnsSame, CallsSame
    <2>3. Counted'
      BY CountedIs, NobodyMoves
    <2> QED BY <2>1, <2>2, <2>3, CountedIs
  <1>2. ASSUME NEW r \in Request, (\E k \in Key : Arrive(r, k)) \/ TurnStep(r)
        PROVE  IInv'
    BY <1>2, ArriveKeeps, RefuseKeeps, BuildFailsKeeps, JoinKeeps, BuildKeeps, StartKeeps, FinishKeeps
       DEF TurnStep, Decide
  <1>3. ASSUME NEW o \in Op,
               (\E s \in Session, h \in BOOLEAN : Ask(o, s, h)) \/ CallStep(o) \/ Use(o)
        PROVE  IInv'
    BY <1>3, AskKeeps, DenyKeeps, ReadKeeps, BindKeeps, ReturnKeeps, UseKeeps DEF CallStep
  <1>4. ASSUME (\E a \in Agent : Stop(a)) \/ Close \/ CloseLanes
        PROVE  IInv'
    BY <1>4, StopKeeps, CloseKeeps, CloseLanesKeeps
  <1> QED BY <1>1, <1>2, <1>3, <1>4 DEF Next

\* Whatever requests and artifact calls come, in whatever order the deployment
\* answers them, its invariant holds.
THEOREM PoolInvariance == Spec => []IInv
  <1> QED BY InitHolds, NextKeeps, PTL DEF Spec

\* Every variable keeps its type.
THEOREM PoolTypes == Spec => []TypeOK
  <1>1. IInv => TypeOK  BY DEF IInv
  <1> QED BY <1>1, PoolInvariance, PTL

\* The count that keeps a lane from eviction is the work it has, at every moment.
THEOREM CountsWork == Spec => []AdmittedIsWork
  <1>1. IInv => AdmittedIsWork  BY DEF IInv
  <1> QED BY <1>1, PoolInvariance, PTL

\* A session has no more artifact calls in flight than its bound.
THEOREM CallsAreBounded == Spec => []CallsBounded
  <1>1. IInv => CallsBounded  BY DEF IInv
  <1> QED BY <1>1, PoolInvariance, PTL

\* Under 'reject', a second turn of a session waits only if the policy let it.
THEOREM SecondTurnIsLet == Spec => []SecondTurnWasLet
  <1>1. IInv => SecondTurnWasLet  BY DEF IInv
  <1> QED BY <1>1, PoolInvariance, PTL

\* Two turns never run at once on one agent, nor for one session.
THEOREM TurnsTakeTurns == Spec => []OneTurnAtATime
  <1>1. IInv => OneTurnAtATime
    BY DEF IInv, TurnInv, OneTurnAtATime, AtWork
  <1> QED BY <1>1, PoolInvariance, PTL

\* Nobody's agent is evicted or shut down while it works for them.
THEOREM AgentsAreKept == Spec => []WorkKeepsItsAgent
  <1>1. ASSUME IInv PROVE WorkKeepsItsAgent
    <2> USE <1>1 DEF IInv
    <2>1. ASSUME NEW r \in Request, AtWork(r)
          PROVE  /\ req[r].lane = pool[req[r].session]
                 /\ req[r].lane \notin retired \cup leaving \cup stopped
      <3>1. req[r].session \in Key
        BY DEF TypeOK, RequestRecord
      <3> QED BY <2>1, <3>1 DEF TurnInv, PoolInv, Gone
    <2>2. ASSUME NEW o \in Op, Reading(o)
          PROVE  /\ op[o].agent \notin retired
                 /\ op[o].agent \in leaving \cup stopped => door = "closed" /\ op[o].held
      <3>1. Uses(o) /\ op[o].step = "reading"
        BY <2>2 DEF CallInv, Reading
      <3>2. op[o].agent \notin retired /\ op[o].session \in Key
        BY <2>2, <3>1 DEF Uses, Key
      <3>3. ASSUME op[o].agent \in leaving \cup stopped, door # "closed" PROVE FALSE
        <4>1. CASE op[o].lane # 0
          BY <3>1, <3>2, <3>3, <4>1 DEF Uses, PoolInv, Gone
        <4>2. CASE op[o].lane = 0
          BY <3>1, <3>2, <3>3, <4>2 DEF Uses, ReaderInv, Gone
        <4> QED BY <4>1, <4>2
      <3>4. door = "closed" => op[o].held
        BY <3>1 DEF ClosedInv
      <3> QED BY <3>2, <3>3, <3>4
    <2> QED BY <2>1, <2>2 DEF WorkKeepsItsAgent
  <1> QED BY <1>1, PoolInvariance, PTL

-----------------------------------------------------------------------------
(* The bound of the pool: what eviction makes room for                     *)

\* The order of use, among lanes: nothing comes before itself, before means before
\* whatever comes after, and whatever is not after the first of two is before the
\* second (lanes used in the same millisecond stand alike to all others).
Ordered(o, live) ==
  /\ \A a \in live : <<a, a>> \notin o
  /\ \A a, b, c \in live : <<a, b>> \in o /\ <<b, c>> \in o => <<a, c>> \in o
  /\ \A a, b, c \in live : <<a, c>> \in o => <<a, b>> \in o \/ <<b, c>> \in o

OrderInv == Ordered(older, Live)

\* Some of the lanes are in order as all are.
LEMMA AmongOrders ==
  ASSUME OrderInv, NEW live \in SUBSET Live
  PROVE  Ordered(Among(live), live) /\ Ordered(older, live)
  BY DEF OrderInv, Ordered, Among

\* A lane used last comes after those of an order, or with the last of them.
LEMMA UsedLastOrders ==
  ASSUME NEW live \in SUBSET Live, NEW a \in Agent, OrderInv, NEW o \in UsedLast(live, a)
  PROVE  Ordered(o, live \cup {a})
  <1> DEFINE others == live \ {a}
  <1>1. PICK same \in {{}, Latest(others)} : o = Among(others) \cup {<<b, a>> : b \in live \ ({a} \cup same)}
    BY DEF UsedLast
  <1>2. /\ \A b, c \in others : <<b, c>> \in o <=> <<b, c>> \in older
        /\ \A b \in others : <<b, a>> \in o <=> b \notin same
        /\ \A b \in live \cup {a} : <<a, b>> \notin o
    BY <1>1 DEF Among
  <1>3. Ordered(older, others)
    BY AmongOrders
  <1>4. \A b \in others : b \in same => same = Latest(others) /\ \A c \in others : <<b, c>> \notin older
    BY <1>1 DEF Latest
  <1>5. \A b \in others : b \notin same => same = {} \/ \E c \in others : <<b, c>> \in older
    BY <1>1 DEF Latest
  <1> HIDE DEF others
  <1>6. \A b \in live \cup {a} : b \in others \/ b = a
    BY DEF others
  <1>7. \A b \in live \cup {a} : <<b, b>> \notin o
    BY <1>2, <1>3, <1>6 DEF Ordered
  <1>8. ASSUME NEW x \in live \cup {a}, NEW y \in live \cup {a}, NEW z \in live \cup {a},
               <<x, y>> \in o, <<y, z>> \in o
        PROVE  <<x, z>> \in o
    <2>1. x \in others /\ y \in others
      BY <1>2, <1>6, <1>8
    <2>2. CASE z \in others
      BY <1>2, <1>3, <1>8, <2>1, <2>2 DEF Ordered
    <2>3. CASE z = a
      BY <1>2, <1>4, <1>8, <2>1, <2>3
    <2> QED BY <1>6, <2>2, <2>3
  <1>9. ASSUME NEW x \in live \cup {a}, NEW y \in live \cup {a}, NEW z \in live \cup {a},
               <<x, z>> \in o
        PROVE  <<x, y>> \in o \/ <<y, z>> \in o
    <2>1. x \in others
      BY <1>2, <1>6, <1>9
    <2>2. CASE y \in others /\ z \in others
      BY <1>2, <1>3, <1>9, <2>1, <2>2 DEF Ordered
    <2>3. CASE y = a /\ z \in others
      BY <1>2, <1>4, <1>9, <2>1, <2>3
    <2>4. CASE y \in others /\ z = a
      <3>1. CASE y \in same
        <4>1. same # {} /\ x \notin same
          BY <1>2, <1>9, <2>1, <2>4, <3>1
        <4>2. PICK c \in others : <<x, c>> \in older
          BY <1>5, <2>1, <4>1
        <4>3. <<x, y>> \in older \/ <<y, c>> \in older
          BY <1>3, <2>1, <2>4, <4>2 DEF Ordered
        <4> QED BY <1>2, <1>4, <2>1, <2>4, <3>1, <4>3
      <3>2. CASE y \notin same
        BY <1>2, <2>4, <3>2
      <3> QED BY <3>1, <3>2
    <2>5. CASE y = a /\ z = a
      BY <1>9, <2>5
    <2> QED BY <1>6, <2>2, <2>3, <2>4, <2>5
  <1> QED BY <1>7, <1>8, <1>9 DEF Ordered

\* A touched lane keeps the order one.
LEMMA TouchOrders ==
  ASSUME TypeOK, OrderInv, NEW a \in Agent, Touch(a), UNCHANGED pool
  PROVE  OrderInv'
  <1>1. Ordered(older', Live \cup {a}) /\ Live' = Live
    BY UsedLastOrders DEF Touch, Live
  <1> QED BY <1>1 DEF Ordered, OrderInv

\* Every step keeps it.
LEMMA OrderKept ==
  ASSUME IInv, OrderInv, [Next]_vars
  PROVE  OrderInv'
  <1> USE DEF IInv
  <1>0. /\ \A k \in Key : pool[k] \in Agent \cup {0}
        /\ \A r \in Request : req[r].session \in Key /\ req[r].lane \in Agent \cup {0}
        /\ \A o \in Op : op[o].session \in Key /\ op[o].lane \in Agent \cup {0}
    BY DEF TypeOK, RequestRecord, OpRecord
  <1>1. CASE UNCHANGED <<older, pool>>
    BY <1>1 DEF OrderInv, Live
  <1>2. ASSUME NEW r \in Request, TurnStep(r) PROVE OrderInv'
    <2>1. CASE Refuse(r) \/ Start(r)
      BY <1>1, <2>1 DEF Refuse, Start, lanes
    <2>2. CASE RefuseConcurrent(r) \/ \E anyway \in BOOLEAN : JoinLane(r, anyway)
      BY <1>0, <2>2, TouchOrders DEF RefuseConcurrent, JoinLane
    <2>3. CASE Finish(r)
      BY <1>0, <2>3, TouchOrders DEF Finish, TurnInv, AtWork
    <2>4. CASE BuildFails(r)
      <3>1. Ordered(older', Live \ Evicted)
        BY <2>4, AmongOrders DEF BuildFails
      <3>2. Live' \subseteq Live \ Evicted
        BY <2>4 DEF BuildFails, Emptied, Live
      <3> QED BY <3>1, <3>2 DEF OrderInv, Ordered
    <2>5. ASSUME NEW anyway \in BOOLEAN, BuildLane(r, anyway) PROVE OrderInv'
      <3>1. built + 1 \in Agent
        BY <2>5, BoundsAssumption DEF BuildLane, TypeOK, Agent
      <3>2. Ordered(older', (Live \ Evicted) \cup {built + 1})
        BY <2>5, <3>1, UsedLastOrders DEF BuildLane
      <3>3. Live' \subseteq (Live \ Evicted) \cup {built + 1}
        BY <2>5 DEF BuildLane, Emptied, Live
      <3> QED BY <3>2, <3>3 DEF OrderInv, Ordered
    <2> QED BY <1>2, <2>1, <2>2, <2>3, <2>4, <2>5 DEF TurnStep, Decide
  <1>3. ASSUME NEW o \in Op, CallStep(o) PROVE OrderInv'
    <2>1. CASE Deny(o)
      BY <1>1, <2>1 DEF Deny, lanes
    <2>2. ASSUME NEW a \in Agent, NEW lane \in Agent \cup {0}, Redeem(o, a, lane), UNCHANGED pool
          PROVE  OrderInv'
      BY <1>1, <2>2, TouchOrders DEF Redeem
    <2>3. CASE Return(o)
      <3>1. CASE UNCHANGED <<older, pool>>  BY <1>1, <3>1
      <3>2. CASE op[o].lane # 0 /\ Touch(op[o].lane) /\ UNCHANGED pool
        BY <1>0, <3>2, TouchOrders
      <3> QED BY <2>3, <3>1, <3>2 DEF Return, Releases
    <2> QED BY <1>3, <2>1, <2>2, <2>3 DEF CallStep, Read, Bind
  <1>4. CASE CloseLanes
    BY <1>1, <1>4 DEF CloseLanes, OrderInv, Ordered
  <1>5. CASE \/ \E r \in Request, k \in Key : Arrive(r, k)
             \/ \E o \in Op : (\E s \in Session, h \in BOOLEAN : Ask(o, s, h)) \/ Use(o)
             \/ (\E a \in Agent : Stop(a)) \/ Close \/ UNCHANGED vars
    BY <1>1, <1>5 DEF Arrive, Ask, Use, Stop, Close, vars, lanes
  <1> QED BY <1>2, <1>3, <1>4, <1>5 DEF Next

\* Those of the lanes S that go sooner than `a`.
Before(S, a) == {b \in S : Sooner(b, a)}

\* Of two lanes one goes sooner, and one that goes sooner than a second goes sooner
\* than a third that does so after the second.
LEMMA SoonerOrders ==
  ASSUME TypeOK, OrderInv, NEW a \in Live, NEW b \in Live, NEW c \in Live
  PROVE  /\ ~Sooner(a, a) /\ (a # b => Sooner(a, b) \/ Sooner(b, a))
         /\ Sooner(a, b) => ~Sooner(b, a)
         /\ Sooner(a, b) /\ Sooner(b, c) => Sooner(a, c)
  <1>1. a \in Int /\ b \in Int /\ c \in Int
    BY EvictedAreIdle DEF Agent
  <1> QED BY <1>1 DEF OrderInv, Ordered, Sooner

\* Of two lanes the one that goes sooner has fewer before it.
LEMMA FewerBefore ==
  ASSUME TypeOK, OrderInv, NEW S \in SUBSET Live, NEW a \in S, NEW b \in S, Sooner(b, a)
  PROVE  /\ Cardinality(Before(S, a)) \in Nat /\ Cardinality(Before(S, b)) \in Nat
         /\ Cardinality(Before(S, b)) < Cardinality(Before(S, a))
  <1>1. IsFiniteSet(Before(S, a))
    <2>1. IsFiniteSet(Agent)
      BY BoundsAssumption, FS_Interval DEF Agent
    <2>2. Before(S, a) \in SUBSET Agent
      BY EvictedAreIdle DEF Before
    <2> QED BY <2>1, <2>2, FS_Subset, SMT
  <1>2. Before(S, b) \in SUBSET Before(S, a)
    BY SoonerOrders DEF Before
  <1>3. b \in Before(S, a) /\ b \notin Before(S, b)
    BY SoonerOrders DEF Before
  <1>4. /\ IsFiniteSet(Before(S, b)) /\ Cardinality(Before(S, b)) <= Cardinality(Before(S, a))
        /\ Cardinality(Before(S, a)) = Cardinality(Before(S, b)) => Before(S, a) = Before(S, b)
    BY <1>1, <1>2, FS_Subset
  <1>5. Cardinality(Before(S, a)) \in Nat /\ Cardinality(Before(S, b)) \in Nat
    BY <1>1, <1>4, FS_CardinalityType
  <1>6. Cardinality(Before(S, a)) # Cardinality(Before(S, b))
    BY <1>3, <1>4
  <1> QED BY <1>4, <1>5, <1>6

\* Of some lanes, one goes sooner than all the others.
LEMMA OneIsOldest ==
  ASSUME TypeOK, OrderInv, NEW S \in SUBSET Live, S # {}
  PROVE  \E a \in S : \A b \in S : ~Sooner(b, a)
  <1>1. ASSUME NEW a \in S PROVE Cardinality(Before(S, a)) \in Nat
    <2>1. IsFiniteSet(Agent)
      BY BoundsAssumption, FS_Interval DEF Agent
    <2>2. Before(S, a) \in SUBSET Agent
      BY EvictedAreIdle DEF Before
    <2>3. IsFiniteSet(Before(S, a))
      BY <2>1, <2>2, FS_Subset, SMT
    <2> QED BY <2>3, FS_CardinalityType, SMT
  <1> DEFINE T == {Cardinality(Before(S, a)) : a \in S}
  <1>2. T \in SUBSET Nat /\ T # {}
    BY <1>1
  <1>3. PICK x \in T : \A y \in T : ~(<<y, x>> \in OpToRel(<, Nat))
    BY <1>2, NatLessThanWellFounded, WFMin
  <1>4. \A y \in T : ~(y < x)
    BY <1>2, <1>3 DEF OpToRel
  <1>5. PICK a \in S : x = Cardinality(Before(S, a))
    OBVIOUS
  <1>6. ASSUME NEW b \in S, Sooner(b, a) PROVE FALSE
    <2>1. Cardinality(Before(S, b)) < Cardinality(Before(S, a))
      BY <1>6, FewerBefore
    <2>2. Cardinality(Before(S, b)) \in T
      OBVIOUS
    <2> QED BY <1>4, <1>5, <2>1, <2>2
  <1> QED BY <1>6

\* There are finitely many keys.
LEMMA KeysAreFinite == IsFiniteSet(Key)
  <1>1. IsFiniteSet(Session)
    BY FinitenessAssumption
  <1>2. IsFiniteSet(Session \cup {Anonymous})
    BY <1>1, FS_AddElement, SMT
  <1> QED BY <1>2 DEF Key

\* So the surplus is a number.
LEMMA SurplusTyped == Surplus \in Int
  <1>1. IsFiniteSet({k \in Key : pool[k] # 0})
    BY KeysAreFinite, FS_Subset
  <1> QED BY <1>1, FS_CardinalityType, BoundsAssumption DEF Surplus, Size

\* With one element more, a set has at most one more.
LEMMA AtMostOneMore ==
  ASSUME NEW S, IsFiniteSet(S), NEW x
  PROVE  Cardinality(S \cup {x}) <= Cardinality(S) + 1 /\ Cardinality(S \cup {x}) \in Nat
  <1>1. /\ Cardinality(S) \in Nat
        /\ Cardinality(S \cup {x}) = IF x \in S THEN Cardinality(S) ELSE Cardinality(S) + 1
    BY FS_AddElement, FS_CardinalityType
  <1> QED BY <1>1

IdleLanes == {a \in Live : Idle(a)}

\* Which idle lanes go: those with fewer idle lanes used before them than there
\* are lanes too many.
LEMMA WhoIsEvicted ==
  Evicted = {a \in IdleLanes : Cardinality(Before(IdleLanes, a)) < Surplus}
  BY DEF Evicted, IdleLanes, Before

\* Eviction makes enough room for one lane more, or leaves no lane idle.
LEMMA EvictionMakesRoom ==
  ASSUME TypeOK, OrderInv, IdleLanes # Evicted
  PROVE  IsFiniteSet(Evicted) /\ Cardinality(Evicted) >= Surplus
  <1>0. Live \in SUBSET Agent /\ Evicted \subseteq IdleLanes /\ IdleLanes \in SUBSET Agent
    BY EvictedAreIdle, WhoIsEvicted DEF IdleLanes
  <1>1. PICK a \in IdleLanes \ Evicted : \A b \in IdleLanes \ Evicted : ~Sooner(b, a)
    <2>1. IdleLanes \ Evicted \in SUBSET Live /\ IdleLanes \ Evicted # {}
      BY <1>0 DEF IdleLanes
    <2> QED BY <2>1, OneIsOldest
  <1>2. Before(IdleLanes, a) \in SUBSET Evicted
    BY <1>1 DEF Before
  <1>3. IsFiniteSet(Evicted)
    <2>1. IsFiniteSet(Agent)
      BY BoundsAssumption, FS_Interval DEF Agent
    <2>2. Evicted \in SUBSET Agent
      BY <1>0
    <2> QED BY <2>1, <2>2, FS_Subset, SMT
  <1>4. /\ Cardinality(Before(IdleLanes, a)) <= Cardinality(Evicted)
        /\ IsFiniteSet(Before(IdleLanes, a))
    BY <1>2, <1>3, FS_Subset, SMT
  <1>5. Cardinality(Before(IdleLanes, a)) \in Nat /\ Cardinality(Evicted) \in Nat
    BY <1>3, <1>4, FS_CardinalityType, SMT
  <1>6. ~(Cardinality(Before(IdleLanes, a)) < Surplus)
    BY <1>1, WhoIsEvicted
  <1>7. Surplus \in Int
    BY SurplusTyped
  <1> QED BY <1>3, <1>4, <1>5, <1>6, <1>7

\* The keys of lanes, and those of lanes at work.
Keys == {k \in Key : pool[k] # 0}
Busy == {k \in Key : pool[k] # 0 /\ ~Idle(pool[k])}

\* The lanes of the pool are as many as its keys, less those whose agent went.
LEMMA KeysLeft ==
  ASSUME TypeOK, OrderInv, IdleLanes # Evicted
  PROVE  /\ IsFiniteSet({k \in Key : Emptied[k] # 0})
         /\ Cardinality({k \in Key : Emptied[k] # 0}) \in Nat
         /\ Cardinality({k \in Key : Emptied[k] # 0}) + 1 <= MaxActive
  <1> DEFINE out == {k \in Key : pool[k] \in Evicted}
             left == {k \in Key : Emptied[k] # 0}
  <1>0. Evicted \subseteq Live /\ Live \subseteq Agent /\ 0 \notin Agent
    BY EvictedAreIdle, BoundsAssumption DEF Agent
  <1>1. IsFiniteSet(Keys) /\ IsFiniteSet(out) /\ IsFiniteSet(left) /\ IsFiniteSet(Evicted)
    <2>1. Keys \in SUBSET Key /\ out \in SUBSET Key /\ left \in SUBSET Key
      BY DEF Keys
    <2> QED BY <2>1, KeysAreFinite, FS_Subset, EvictionMakesRoom
  <1>2. Cardinality(Evicted) <= Cardinality(out)
    <2> DEFINE f == [k \in out |-> pool[k]]
    <2>1. f \in Surjection(out, Evicted)
      BY <1>0 DEF Surjection, Live
    <2> QED BY <1>1, <2>1, FS_Surjection
  <1>3. left = Keys \ out /\ Keys \cap out = out
    BY <1>0 DEF Emptied, Keys
  <1>4. Cardinality(left) = Cardinality(Keys) - Cardinality(out)
    <2>1. Cardinality(Keys \ out) = Cardinality(Keys) - Cardinality(Keys \cap out)
      BY <1>1, FS_Difference, Zenon
    <2> QED BY <1>3, <2>1, Zenon
  <1>5. /\ Cardinality(left) \in Nat /\ Cardinality(Keys) \in Nat
        /\ Cardinality(out) \in Nat /\ Cardinality(Evicted) \in Nat
    BY <1>1, FS_CardinalityType
  <1>6. Cardinality(Evicted) >= Cardinality(Keys) - MaxActive + 1
    BY EvictionMakesRoom DEF Surplus, Size, Keys
  <1> HIDE DEF left, out
  <1>7. Cardinality(left) + 1 <= MaxActive
    BY <1>2, <1>4, <1>5, <1>6, BoundsAssumption
  <1> QED BY <1>1, <1>5, <1>7 DEF left

\* A lane that was added has room within the bound, or every lane of the pool is
\* at work.
RoomOrWork == Size <= MaxActive \/ \A k \in Keys : k \in Busy

LaneAdded == \E k \in Key : pool[k] = 0 /\ pool'[k] # 0

\* It is so after every step that adds one.
LEMMA AddedLaneFits ==
  ASSUME IInv, OrderInv, [Next]_vars, LaneAdded
  PROVE  RoomOrWork'
  <1> USE DEF IInv
  <1>1. PICK r \in Request, anyway \in BOOLEAN : BuildLane(r, anyway)
    <2>1. pool' # pool
      BY DEF LaneAdded
    <2>2. ~CloseLanes
      BY DEF LaneAdded, CloseLanes
    <2>3. ASSUME NEW r \in Request, BuildFails(r) PROVE FALSE
      BY <2>3 DEF BuildFails, LaneAdded, Emptied
    <2> QED BY <2>1, <2>2, <2>3
        DEF Next, TurnStep, CallStep, Decide, Arrive, Refuse, RefuseConcurrent, JoinLane, Start, Finish,
            Ask, Deny, Read, Bind, Use, Return, Stop, Close, vars, lanes
  <1> DEFINE k == req[r].session
  <1>2. k \in Key /\ built + 1 \in Agent /\ built + 1 # 0
    BY <1>1, BoundsAssumption DEF BuildLane, TypeOK, RequestRecord, Agent
  <1>3. pool' = [Emptied EXCEPT ![k] = built + 1] /\ k \in Key
    BY <1>1, <1>2 DEF BuildLane
  <1>4. Keys' = {j \in Key : Emptied[j] # 0} \cup {k}
    BY <1>2, <1>3 DEF Keys, Emptied
  <1>5. CASE IdleLanes # Evicted
    <2>1. /\ IsFiniteSet({j \in Key : Emptied[j] # 0})
          /\ Cardinality({j \in Key : Emptied[j] # 0}) \in Nat
          /\ Cardinality({j \in Key : Emptied[j] # 0}) + 1 <= MaxActive
      BY <1>5, KeysLeft
    <2>2. Cardinality(Keys') <= Cardinality({j \in Key : Emptied[j] # 0}) + 1
          /\ Cardinality(Keys') \in Nat
      BY <1>4, <2>1, AtMostOneMore, Zenon
    <2>3. Size' = Cardinality(Keys')
      BY DEF Size, Keys
    <2> QED BY <2>1, <2>2, <2>3, BoundsAssumption DEF RoomOrWork
  <1>6. CASE IdleLanes = Evicted
    <2>1. ASSUME NEW j \in Keys' PROVE j \in Busy'
      <3>1. CASE j = k
        <4>1. admitted' = [admitted EXCEPT ![built + 1] = @ + 1]
          BY <1>1 DEF BuildLane, Enqueue
        <4>2. admitted[built + 1] \in Nat /\ admitted'[built + 1] = admitted[built + 1] + 1
          BY <1>2, <4>1 DEF TypeOK
        <4>3. pool'[j] = built + 1
          BY <1>3, <3>1 DEF Emptied
        <4> QED BY <1>2, <3>1, <4>2, <4>3 DEF Busy, Idle
      <3>2. CASE j # k
        <4>1. j \in Key /\ pool'[j] = Emptied[j] /\ Emptied[j] # 0
          BY <1>3, <1>4, <3>2 DEF Emptied
        <4>2. pool[j] = Emptied[j] /\ pool[j] \notin Evicted /\ pool[j] \in Live
          BY <4>1 DEF Emptied, Live
        <4>3. ~Idle(pool[j]) /\ pool[j] \in Agent
          BY <1>6, <4>2, EvictedAreIdle DEF IdleLanes
        <4>4. pool[j] # built + 1
          <5>1. pool[j] <= built /\ built \in Nat
            BY <4>1, BoundsAssumption DEF PoolInv, TypeOK, Agent
          <5> QED BY <5>1
        <4>5. admitted'[pool[j]] = admitted[pool[j]]
          BY <1>1, <4>3, <4>4 DEF BuildLane, Enqueue, TypeOK
        <4> QED BY <4>1, <4>2, <4>3, <4>5 DEF Busy, Idle
      <3> QED BY <3>1, <3>2
    <2> QED BY <2>1 DEF RoomOrWork
  <1> QED BY <1>5, <1>6

\* A lane is added only when there is room for it within maxActiveSessions, once
\* idle lanes went, or when no lane of the pool is idle: the pool of evictToFit
\* grows beyond its bound for overlapping work alone, however the requests,
\* artifact calls and evictions before it fell.
THEOREM RoomIsMade == Spec => [][LaneAdded => RoomOrWork']_vars
  <1>1. Init => OrderInv
    BY DEF Init, OrderInv, Ordered
  <1>2. IInv /\ OrderInv /\ [Next]_vars => [LaneAdded => RoomOrWork']_vars
    BY AddedLaneFits
  <1> QED BY <1>1, <1>2, OrderKept, PoolInvariance, PTL DEF Spec

\* A pool of which never more than n lanes work at once, n at least
\* maxActiveSessions, never holds more than n agents: idle ones are never kept on
\* top of them.
AtMostBusy(n) == Cardinality(Busy) <= n
PoolWithin(n) == pooled => Size <= n

THEOREM PoolIsBounded ==
  ASSUME NEW n \in Nat, MaxActive <= n
  PROVE  Spec /\ []AtMostBusy(n) => []PoolWithin(n)
  <1>1. Init => OrderInv /\ PoolWithin(n)
    <2> SUFFICES ASSUME Init PROVE OrderInv /\ PoolWithin(n)
      OBVIOUS
    <2>1. OrderInv
      BY DEF Init, OrderInv, Ordered
    <2>2. ASSUME pooled PROVE Size = 0
      <3>1. {k \in Key : pool[k] # 0} = {}
        BY <2>2 DEF Init
      <3> QED BY <3>1, FS_EmptySet, Zenon DEF Size
    <2> QED BY <2>1, <2>2 DEF PoolWithin
  <1>2. ASSUME IInv, OrderInv, PoolWithin(n), AtMostBusy(n)', [Next]_vars
        PROVE  PoolWithin(n)'
    <2> SUFFICES ASSUME pooled' PROVE Size' <= n
      BY DEF PoolWithin
    <2>0. pooled' = pooled
      BY <1>2 DEF Next, TurnStep, CallStep, Decide, Arrive, Refuse, RefuseConcurrent, BuildFails,
                  JoinLane, BuildLane, Start, Finish, Ask, Deny, Read, Bind, Use, Return, Stop, Close,
                  CloseLanes, vars, lanes
    <2>1. IsFiniteSet(Keys) /\ IsFiniteSet(Keys') /\ IsFiniteSet(Busy')
      <3>1. Keys \in SUBSET Key /\ Keys' \in SUBSET Key /\ Busy' \in SUBSET Key
        BY DEF Keys, Busy
      <3> QED BY <3>1, KeysAreFinite, FS_Subset
    <2>2. /\ Cardinality(Keys) \in Nat /\ Cardinality(Keys') \in Nat /\ Cardinality(Busy') \in Nat
          /\ Size = Cardinality(Keys) /\ Size' = Cardinality(Keys')
      BY <2>1, FS_CardinalityType DEF Size, Keys
    <2>3. CASE LaneAdded
      <3>1. RoomOrWork'
        BY <1>2, <2>3, AddedLaneFits
      <3>2. CASE Size' <= MaxActive
        BY <2>2, <3>2, BoundsAssumption
      <3>3. CASE \A k \in Keys' : k \in Busy'
        <4>1. Keys' \in SUBSET Busy'
          BY <3>3
        <4>2. Cardinality(Keys') <= Cardinality(Busy')
          BY <2>1, <4>1, FS_Subset
        <4>3. Cardinality(Busy') <= n
          BY <1>2 DEF AtMostBusy
        <4> QED BY <2>2, <4>2, <4>3
      <3> QED BY <3>1, <3>2, <3>3 DEF RoomOrWork
    <2>4. CASE ~LaneAdded
      <3>1. Keys' \in SUBSET Keys
        BY <2>4 DEF LaneAdded, Keys
      <3>2. Cardinality(Keys') <= Cardinality(Keys)
        BY <2>1, <3>1, FS_Subset
      <3> QED BY <1>2, <2>0, <2>2, <3>2 DEF PoolWithin
    <2> QED BY <2>3, <2>4
  <1>3. IInv /\ OrderInv /\ PoolWithin(n) /\ AtMostBusy(n)' /\ [Next]_vars => PoolWithin(n)'
    BY <1>2
  <1> QED BY <1>1, <1>3, OrderKept, PoolInvariance, PTL DEF Spec

\* The lanes that go are the ones used least recently: each was used before every
\* idle lane that stays, or within the same millisecond and built before it.
EvictsTheOldest ==
  [][\A a \in retired' \ retired, b \in Live \ retired' : Idle(b) => Sooner(a, b)]_vars

THEOREM OldestGoFirst == Spec => EvictsTheOldest
  <1> DEFINE Oldest == \A a \in retired' \ retired, b \in Live \ retired' :
                         Idle(b) => Sooner(a, b)
  <1>1. Init => OrderInv
    BY DEF Init, OrderInv, Ordered
  <1>2. ASSUME IInv, OrderInv, [Next]_vars PROVE Oldest
    <2> USE DEF IInv
    <2>1. CASE UNCHANGED retired
      BY <2>1
    <2>2. CASE retired' = retired \cup Evicted
      <3> SUFFICES ASSUME NEW a \in Evicted, NEW b \in Live \ Evicted, Idle(b), ~Sooner(a, b)
                   PROVE  FALSE
        BY <2>2
      <3>1. IdleLanes \in SUBSET Live /\ a \in IdleLanes /\ b \in IdleLanes
        BY <1>2, EvictedAreIdle DEF IdleLanes
      <3>0. Sooner(b, a)
        BY <1>2, <3>1, SoonerOrders
      <3>2. /\ Cardinality(Before(IdleLanes, a)) \in Nat /\ Cardinality(Before(IdleLanes, b)) \in Nat
            /\ Cardinality(Before(IdleLanes, b)) < Cardinality(Before(IdleLanes, a))
        BY <1>2, <3>0, <3>1, FewerBefore
      <3>3. Cardinality(Before(IdleLanes, a)) < Surplus
        BY WhoIsEvicted
      <3>4. ~(Cardinality(Before(IdleLanes, b)) < Surplus)
        BY <3>1, WhoIsEvicted
      <3>5. Surplus \in Int
        BY SurplusTyped
      <3> QED BY <3>2, <3>3, <3>4, <3>5
    <2> QED BY <1>2, <2>1, <2>2
        DEF Next, TurnStep, CallStep, Decide, Arrive, Refuse, RefuseConcurrent, BuildFails, JoinLane,
            BuildLane, Retire, Start, Finish, Ask, Deny, Read, Bind, Use, Return, Stop, Close, CloseLanes,
            vars, agents
  <1>3. IInv /\ OrderInv /\ [Next]_vars => [Oldest]_vars
    BY <1>2
  <1> QED BY <1>1, <1>3, OrderKept, PoolInvariance, PTL DEF Spec, EvictsTheOldest

-----------------------------------------------------------------------------
(* The order of turns: LanePool implements TurnOrder                       *)

\* A lane's queue holds the requests queued on it, each once.
QueueInv ==
  \A a \in Agent : \A i \in 1..Len(waiting[a]) :
    /\ req[waiting[a][i]].phase = "queued" /\ req[waiting[a][i]].lane = a
    /\ \A j \in 1..Len(waiting[a]) : waiting[a][j] = waiting[a][i] => j = i

\* A step that leaves the queues and who is queued keeps it.
LEMMA QueueSame ==
  ASSUME TypeOK, QueueInv, UNCHANGED waiting,
         \A q \in Request : req[q].phase = "queued" => req'[q] = req[q]
  PROVE  QueueInv'
  <1>1. ASSUME NEW a \in Agent, NEW i \in 1..Len(waiting[a])
        PROVE  waiting[a][i] \in Request
    <2>1. waiting[a] \in Seq(Request)
      BY DEF TypeOK
    <2> QED BY <2>1
  <1> QED BY <1>1 DEF QueueInv

\* What a queue is after a request joined it: the places before are as they were.
LEMMA JoinedLine ==
  ASSUME NEW line \in Seq(Request), NEW r \in Request
  PROVE  /\ Append(line, r) \in Seq(Request) /\ Len(line) \in Nat
         /\ Len(Append(line, r)) = Len(line) + 1
         /\ \A i \in 1..Len(line) : Append(line, r)[i] = line[i] /\ line[i] \in Request
         /\ Append(line, r)[Len(line) + 1] = r
  OBVIOUS

\* After the first left it: everyone stands one place further on.
LEMMA LeftLine ==
  ASSUME NEW line \in Seq(Request), Len(line) > 0
  PROVE  /\ Tail(line) \in Seq(Request) /\ Len(line) \in Nat
         /\ Len(Tail(line)) = Len(line) - 1 /\ Head(line) = line[1] /\ line[1] \in Request
         /\ \A i \in 1..Len(Tail(line)) : Tail(line)[i] = line[i + 1]
  <1>1. line # <<>>
    OBVIOUS
  <1> QED BY <1>1

\* A request that joins stands behind all the others, and nobody else's place
\* changes.
LEMMA JoinsBehind ==
  ASSUME NEW line \in Seq(Request), NEW r \in Request, \A i \in 1..Len(line) : line[i] # r,
         NEW q
  PROVE  /\ StandsBefore(Append(line, r), q, r) <=> \E i \in 1..Len(line) : line[i] = q
         /\ \A p : p # r => (StandsBefore(Append(line, r), q, p) <=> StandsBefore(line, q, p))
  <1>1. /\ Len(line) \in Nat /\ Len(Append(line, r)) = Len(line) + 1
        /\ \A i \in 1..Len(line) : Append(line, r)[i] = line[i]
        /\ Append(line, r)[Len(line) + 1] = r
    BY JoinedLine
  <1> DEFINE l == Append(line, r)
  <1> HIDE DEF l
  <1>2. StandsBefore(l, q, r) <=> \E i \in 1..Len(line) : line[i] = q
    BY <1>1 DEF StandsBefore, l
  <1>3. ASSUME NEW p, p # r PROVE StandsBefore(l, q, p) <=> StandsBefore(line, q, p)
    BY <1>1, <1>3 DEF StandsBefore, l
  <1> QED BY <1>2, <1>3 DEF l

\* When the first leaves, the others stand before each other as they did.
LEMMA LeavesFromFront ==
  ASSUME NEW line \in Seq(Request), Len(line) > 0,
         \A i, j \in 1..Len(line) : line[i] = line[j] => i = j,
         NEW q, NEW p, NEW k \in 1..Len(line), line[k] = p, p # line[1]
  PROVE  StandsBefore(line, q, p) <=> q = line[1] \/ StandsBefore(Tail(line), q, p)
  <1>1. /\ Len(line) \in Nat /\ Len(Tail(line)) = Len(line) - 1
        /\ \A i \in 1..Len(Tail(line)) : Tail(line)[i] = line[i + 1]
    BY LeftLine
  <1> DEFINE l == Tail(line)
  <1> HIDE DEF l
  <1>2. ASSUME NEW i \in 2..Len(line) PROVE i - 1 \in 1..Len(l) /\ l[i - 1] = line[i]
    <2>1. i - 1 \in 1..Len(l) /\ (i - 1) + 1 = i
      BY <1>1 DEF l
    <2>2. l[i - 1] = line[(i - 1) + 1]
      BY <1>1, <2>1 DEF l
    <2> QED BY <2>1, <2>2
  <1>3. ASSUME StandsBefore(line, q, p), q # line[1] PROVE StandsBefore(l, q, p)
    <2>1. PICK i, j \in 1..Len(line) : i < j /\ line[i] = q /\ line[j] = p
      BY <1>3 DEF StandsBefore
    <2>2. i # 1 /\ i \in 2..Len(line) /\ j \in 2..Len(line)
      BY <1>1, <1>3, <2>1
    <2>3. /\ i - 1 \in 1..Len(l) /\ l[i - 1] = q /\ j - 1 \in 1..Len(l) /\ l[j - 1] = p
          /\ i - 1 < j - 1
      BY <1>2, <2>1, <2>2
    <2> QED BY <2>3 DEF StandsBefore
  <1>4. ASSUME StandsBefore(l, q, p) PROVE StandsBefore(line, q, p)
    <2>1. PICK i, j \in 1..Len(l) : i < j /\ l[i] = q /\ l[j] = p
      BY <1>4 DEF StandsBefore
    <2>2. /\ i + 1 \in 1..Len(line) /\ j + 1 \in 1..Len(line) /\ i + 1 < j + 1
          /\ line[i + 1] = q /\ line[j + 1] = p
      BY <1>1, <2>1 DEF l
    <2> QED BY <2>2 DEF StandsBefore
  <1>5. ASSUME q = line[1] PROVE StandsBefore(line, q, p)
    <2>1. 1 \in 1..Len(line) /\ 1 < k
      BY <1>1
    <2> QED BY <1>5, <2>1 DEF StandsBefore
  <1> QED BY <1>3, <1>4, <1>5 DEF l

\* What a request that joins does to the queues.
LEMMA EnqueueKeeps ==
  ASSUME TypeOK, QueueInv, NEW r \in Request, NEW a \in Agent, NEW b \in BOOLEAN,
         req[r].phase = "deciding", Enqueue(r, a, b)
  PROVE  QueueInv'
  <1>1. /\ req'[r].phase = "queued" /\ req'[r].lane = a
        /\ \A q \in Request \ {r} : req'[q] = req[q]
    BY DEF Enqueue, TypeOK, RequestRecord
  <1>2. /\ waiting[a] \in Seq(Request) /\ waiting'[a] = Append(waiting[a], r)
        /\ \A c \in Agent \ {a} : waiting'[c] = waiting[c]
        /\ \A c \in Agent : waiting[c] \in Seq(Request)
    BY DEF Enqueue, TypeOK
  <1>3. ASSUME NEW c \in Agent, NEW i \in 1..Len(waiting[c])
        PROVE  waiting[c][i] \in Request /\ waiting[c][i] # r
    BY <1>2 DEF QueueInv
  <1>4. ASSUME NEW c \in Agent \ {a}, NEW i \in 1..Len(waiting'[c])
        PROVE  /\ req'[waiting'[c][i]].phase = "queued" /\ req'[waiting'[c][i]].lane = c
               /\ \A j \in 1..Len(waiting'[c]) : waiting'[c][j] = waiting'[c][i] => j = i
    BY <1>1, <1>2, <1>3 DEF QueueInv
  <1>5. ASSUME NEW i \in 1..Len(waiting'[a])
        PROVE  /\ req'[waiting'[a][i]].phase = "queued" /\ req'[waiting'[a][i]].lane = a
               /\ \A j \in 1..Len(waiting'[a]) : waiting'[a][j] = waiting'[a][i] => j = i
    <2> DEFINE line == waiting[a]
    <2>1. /\ Len(line) \in Nat /\ Len(waiting'[a]) = Len(line) + 1
          /\ \A j \in 1..Len(line) : waiting'[a][j] = line[j]
          /\ waiting'[a][Len(line) + 1] = r
      BY <1>2, JoinedLine
    <2>2. \A j \in 1..Len(waiting'[a]) : j \in 1..Len(line) \/ j = Len(line) + 1
      BY <2>1
    <2>3. CASE i \in 1..Len(line)
      <3>1. /\ waiting'[a][i] = line[i] /\ line[i] # r /\ line[i] \in Request
            /\ req[line[i]].phase = "queued" /\ req[line[i]].lane = a
            /\ \A j \in 1..Len(line) : line[j] = line[i] => j = i
        BY <1>3, <2>1, <2>3 DEF QueueInv
      <3> HIDE DEF line
      <3> QED BY <1>1, <2>1, <2>2, <2>3, <3>1
    <2>4. CASE i = Len(line) + 1
      BY <1>1, <1>3, <2>1, <2>2, <2>4
    <2> QED BY <2>2, <2>3, <2>4
  <1> QED BY <1>4, <1>5 DEF QueueInv

\* What a turn that starts does to them.
LEMMA StartKeepsQueues ==
  ASSUME IInv, QueueInv, NEW r \in Request, Start(r)
  PROVE  QueueInv'
  <1> DEFINE a == req[r].lane
             line == waiting[a]
  <1> USE DEF IInv
  <1>1. a \in Agent /\ line \in Seq(Request) /\ Len(line) > 0 /\ Head(line) = r
    BY DEF Start, TurnInv, AtWork, TypeOK, RequestRecord
  <1>2. /\ \A q \in Request \ {r} : req'[q] = req[q]
        /\ waiting'[a] = Tail(line) /\ \A c \in Agent \ {a} : waiting'[c] = waiting[c]
        /\ \A c \in Agent : waiting[c] \in Seq(Request)
    BY <1>1 DEF Start, TypeOK
  <1>3. /\ Len(line) \in Nat /\ Len(Tail(line)) = Len(line) - 1 /\ line[1] = r
        /\ \A i \in 1..Len(Tail(line)) : Tail(line)[i] = line[i + 1]
    BY <1>1, LeftLine
  <1>4. ASSUME NEW c \in Agent \ {a}, NEW i \in 1..Len(waiting'[c])
        PROVE  /\ req'[waiting'[c][i]].phase = "queued" /\ req'[waiting'[c][i]].lane = c
               /\ \A j \in 1..Len(waiting'[c]) : waiting'[c][j] = waiting'[c][i] => j = i
    <2>1. waiting[c][i] \in Request /\ waiting[c][i] # r
      BY <1>2 DEF QueueInv
    <2> QED BY <1>2, <2>1 DEF QueueInv
  <1>5. ASSUME NEW i \in 1..Len(waiting'[a])
        PROVE  /\ req'[waiting'[a][i]].phase = "queued" /\ req'[waiting'[a][i]].lane = a
               /\ \A j \in 1..Len(waiting'[a]) : waiting'[a][j] = waiting'[a][i] => j = i
    <2>0. Len(waiting'[a]) = Len(line) - 1 /\ Len(line) \in Nat
      BY <1>2, <1>3
    <2>1. \A j \in 1..Len(waiting'[a]) : j + 1 \in 1..Len(line) /\ waiting'[a][j] = line[j + 1]
      <3> SUFFICES ASSUME NEW j \in 1..Len(waiting'[a])
                   PROVE  j + 1 \in 1..Len(line) /\ waiting'[a][j] = line[j + 1]
        OBVIOUS
      <3>1. j \in 1..Len(Tail(line)) /\ j + 1 \in 1..Len(line)
        BY <1>3, <2>0
      <3> QED BY <1>2, <1>3, <3>1
    <2>2. line[i + 1] \in Request /\ line[i + 1] # line[1]
      <3>1. i + 1 \in 1..Len(line) /\ 1 \in 1..Len(line) /\ i + 1 # 1
        BY <1>1, <1>3, <2>1
      <3>2. \A j, k \in 1..Len(line) : line[j] = line[k] => j = k
        BY <1>1 DEF QueueInv
      <3>3. line[i + 1] # line[1]
        BY <3>1, <3>2
      <3> QED BY <1>1, <3>1, <3>3
    <2>3. req'[line[i + 1]].phase = "queued" /\ req'[line[i + 1]].lane = a
      BY <1>1, <1>2, <1>3, <2>1, <2>2 DEF QueueInv
    <2>4. ASSUME NEW j \in 1..Len(waiting'[a]), line[j + 1] = line[i + 1] PROVE j = i
      <3>1. j + 1 = i + 1
        BY <1>1, <2>1, <2>4 DEF QueueInv
      <3> QED BY <1>2, <1>3, <3>1
    <2> QED BY <2>1, <2>3, <2>4
  <1> QED BY <1>4, <1>5 DEF QueueInv

\* A step that is about no queue and no queued turn.
NoQueue == UNCHANGED waiting /\ \A q \in Request : req[q].phase = "queued" => req'[q] = req[q]

\* All but a turn that joins or starts.
LEMMA QueuesMove ==
  ASSUME IInv, [Next]_vars
  PROVE  \/ NoQueue
         \/ \E r \in Request : Start(r) \/ \E b \in BOOLEAN : JoinLane(r, b) \/ BuildLane(r, b)
  <1>0. DOMAIN req = Request
    BY DEF IInv, TypeOK
  <1>1. ASSUME NEW r \in Request, \/ \E k \in Key : Arrive(r, k)
                                  \/ Refuse(r) \/ RefuseConcurrent(r) \/ BuildFails(r) \/ Finish(r)
        PROVE  NoQueue
    <2>1. UNCHANGED waiting
      BY <1>1 DEF Arrive, Refuse, RefuseConcurrent, BuildFails, Finish, lanes
    <2>2. req[r].phase # "queued" /\ \A q \in Request \ {r} : req'[q] = req[q]
      BY <1>0, <1>1 DEF Arrive, Refuse, RefuseConcurrent, BuildFails, Finish
    <2> QED BY <2>1, <2>2 DEF NoQueue
  <1>2. CASE \/ UNCHANGED vars
             \/ \E o \in Op : (\E s \in Session, h \in BOOLEAN : Ask(o, s, h)) \/ CallStep(o) \/ Use(o)
             \/ (\E a \in Agent : Stop(a)) \/ Close \/ CloseLanes
    <2>1. UNCHANGED <<waiting, req>>
      BY <1>2 DEF Ask, CallStep, Deny, Read, Bind, Return, Use, Stop, Close, CloseLanes, vars, lanes
    <2> QED BY <2>1 DEF NoQueue
  <1> QED BY <1>1, <1>2 DEF Next, TurnStep, Decide

\* Every step keeps the queues.
LEMMA QueueKept ==
  ASSUME IInv, QueueInv, [Next]_vars
  PROVE  QueueInv'
  <1>1. CASE NoQueue
    BY <1>1, QueueSame DEF NoQueue, IInv
  <1>2. ASSUME NEW r \in Request, NEW b \in BOOLEAN, JoinLane(r, b) PROVE QueueInv'
    <2>1. pool[req[r].session] \in Agent /\ req[r].phase = "deciding"
      BY <1>2 DEF JoinLane, IInv, TypeOK, RequestRecord
    <2> QED BY <1>2, <2>1, EnqueueKeeps DEF JoinLane, IInv
  <1>3. ASSUME NEW r \in Request, NEW b \in BOOLEAN, BuildLane(r, b) PROVE QueueInv'
    <2>1. built + 1 \in Agent /\ req[r].phase = "deciding"
      BY <1>3, BoundsAssumption DEF BuildLane, IInv, TypeOK, Agent
    <2> QED BY <1>3, <2>1, EnqueueKeeps DEF BuildLane, IInv
  <1> QED BY <1>1, <1>2, <1>3, QueuesMove, StartKeepsQueues

\* What a turn is to TurnOrder: nothing of it changes.
SameTurn(q) ==
  /\ StageOf(q)' = StageOf(q) /\ WhoseOf(q)' = WhoseOf(q) /\ WhereOf(q)' = WhereOf(q)

\* A turn whose record stays, or that was not taken in before or after, is the
\* same to it.
LEMMA StaysTheSame ==
  ASSUME NEW q, req'[q] = req[q] \/ {req[q].phase, req'[q].phase} \subseteq {"new", "deciding"}
  PROVE  SameTurn(q)
  BY DEF SameTurn, StageOf, WhoseOf, WhereOf, AtWork

\* Whom a queued turn waits behind stays when no queue changes and no turn
\* starts or ends.
LEMMA StaysBehind ==
  ASSUME UNCHANGED waiting,
         \A q \in Request : \/ req'[q] = req[q]
                            \/ {req[q].phase, req'[q].phase} \subseteq {"new", "deciding", "done"},
         NEW r \in Request
  PROVE  AheadOf(r)' = AheadOf(r)
  BY DEF AheadOf, Ahead

\* Nothing happens in TurnOrder when a request arrives, or none moves.
LEMMA OrderStays ==
  ASSUME UNCHANGED waiting,
         \A q \in Request : \/ req'[q] = req[q]
                            \/ {req[q].phase, req'[q].phase} \subseteq {"new", "deciding"}
  PROVE  UNCHANGED Order!vars
  <1>1. \A q \in Request : SameTurn(q) /\ AheadOf(q)' = AheadOf(q)
    BY StaysTheSame, StaysBehind
  <1> QED BY <1>1 DEF Order!vars, SameTurn

\* A request that is turned away leaves.
LEMMA OrderLeaves ==
  ASSUME NEW r \in Request, UNCHANGED waiting, req[r].phase = "deciding", req'[r].phase = "done",
         \A q \in Request \ {r} : req'[q] = req[q]
  PROVE  Order!Next
  <1>1. \A q \in Request \ {r} : SameTurn(q)
    BY StaysTheSame
  <1>2. \A q \in Request : AheadOf(q)' = AheadOf(q)
    BY StaysBehind
  <1>3. /\ StageOf(r) = "out" /\ StageOf(r)' = "over"
        /\ WhoseOf(r)' = WhoseOf(r) /\ WhereOf(r)' = WhereOf(r)
    BY DEF StageOf, WhoseOf, WhereOf, AtWork
  <1>4. Order!Leave(r)
    BY <1>1, <1>2, <1>3 DEF Order!Leave, SameTurn
  <1> QED BY <1>4 DEF Order!Next

\* A request that joins a lane stands behind the turns of that lane; they are
\* all those of its session and of its agent.
LEMMA OrderJoins ==
  ASSUME IInv, QueueInv, NEW r \in Request, NEW a \in Agent, NEW b \in BOOLEAN,
         req[r].phase = "deciding", Enqueue(r, a, b),
         \A q \in Request : AtWork(q) /\ req[q].session = req[r].session => req[q].lane = a
  PROVE  Order!Next
  <1> DEFINE s == req[r].session
             line == waiting[a]
  <1> USE DEF IInv
  <1>1. /\ req'[r].phase = "queued" /\ req'[r].lane = a /\ req'[r].session = s /\ s \in Key
        /\ \A q \in Request \ {r} : req'[q] = req[q]
    BY DEF Enqueue, TypeOK, RequestRecord
  <1>2. /\ line \in Seq(Request) /\ waiting'[a] = Append(line, r)
        /\ \A c \in Agent \ {a} : waiting'[c] = waiting[c]
    BY DEF Enqueue, TypeOK
  <1>3. \A i \in 1..Len(line) : line[i] \in Request /\ line[i] # r
    BY <1>2, JoinedLine DEF QueueInv
  <1>4. \A q \in Request \ {r} : SameTurn(q)
    BY <1>1, StaysTheSame
  <1>5. /\ StageOf(r) = "out" /\ StageOf(r)' = "waiting"
        /\ WhoseOf(r)' = s /\ WhereOf(r)' = a
    BY <1>1 DEF StageOf, WhoseOf, WhereOf, AtWork
  <1>6. ASSUME NEW q \in Request \ {r} PROVE AheadOf(q)' = AheadOf(q)
    <2>1. CASE req[q].phase # "queued"
      BY <1>1, <2>1 DEF AheadOf
    <2>2. CASE req[q].phase = "queued"
      <3>1. req[q].lane \in Agent
        BY <2>2 DEF TurnInv, AtWork, TypeOK, RequestRecord
      <3>2. ASSUME NEW p
            PROVE  StandsBefore(waiting'[req[q].lane], p, q) <=> StandsBefore(waiting[req[q].lane], p, q)
        <4>1. CASE req[q].lane = a
          <5>1. StandsBefore(Append(line, r), p, q) <=> StandsBefore(line, p, q)
            BY <1>2, <1>3, JoinsBehind
          <5> QED BY <1>2, <4>1, <5>1
        <4>2. CASE req[q].lane # a
          BY <1>2, <3>1, <4>2
        <4> QED BY <4>1, <4>2
      <3>3. \A p \in Request : req'[p].phase = "running" /\ req'[p].lane = req[q].lane
                               <=> req[p].phase = "running" /\ req[p].lane = req[q].lane
        BY <1>1
      <3>4. Ahead(q)' = Ahead(q)
        BY <1>1, <3>2, <3>3 DEF Ahead
      <3> QED BY <1>1, <2>2, <3>4 DEF AheadOf
    <2> QED BY <2>1, <2>2
  <1>7. AheadOf(r)' = {q \in Request : AtWork(q) /\ req[q].lane = a}
    <2>1. ASSUME NEW q \in Request
          PROVE  (\/ req'[q].phase = "running" /\ req'[q].lane = a
                  \/ StandsBefore(waiting'[a], q, r))
                 <=> AtWork(q) /\ req[q].lane = a
      <3>1. StandsBefore(waiting'[a], q, r) <=> \E i \in 1..Len(line) : line[i] = q
        BY <1>2, <1>3, JoinsBehind
      <3>2. (\E i \in 1..Len(line) : line[i] = q) <=> req[q].phase = "queued" /\ req[q].lane = a
        BY DEF QueueInv, TurnInv
      <3>3. req'[q].phase = "running" /\ req'[q].lane = a <=> req[q].phase = "running" /\ req[q].lane = a
        BY <1>1
      <3> QED BY <3>1, <3>2, <3>3 DEF AtWork
    <2> QED BY <1>1, <2>1 DEF AheadOf, Ahead
  <1>8. {q \in Order!TakenIn : WhoseOf(q) = s \/ WhereOf(q) = a}
          = {q \in Request : AtWork(q) /\ req[q].lane = a}
    <2>1. Order!TakenIn = {q \in Request : AtWork(q)}
      BY DEF Order!TakenIn, StageOf, AtWork
    <2>2. ASSUME NEW q \in Request, AtWork(q)
          PROVE  WhoseOf(q) = s \/ WhereOf(q) = a <=> req[q].lane = a
      BY <2>2 DEF WhoseOf, WhereOf
    <2> QED BY <2>1, <2>2
  <1>9. Order!Join(r, s, a)
    <2>1. [q \in Request |-> StageOf(q)]' = [[q \in Request |-> StageOf(q)] EXCEPT ![r] = "waiting"]
      BY <1>4, <1>5 DEF SameTurn
    <2>2. [q \in Request |-> WhoseOf(q)]' = [[q \in Request |-> WhoseOf(q)] EXCEPT ![r] = s]
      BY <1>4, <1>5 DEF SameTurn
    <2>3. [q \in Request |-> WhereOf(q)]' = [[q \in Request |-> WhereOf(q)] EXCEPT ![r] = a]
      BY <1>4, <1>5 DEF SameTurn
    <2>4. [q \in Request |-> AheadOf(q)]'
            = [[q \in Request |-> AheadOf(q)] EXCEPT ![r] = {q \in Request : AtWork(q) /\ req[q].lane = a}]
      BY <1>6, <1>7
    <2>5. {q \in Order!TakenIn : \/ [p \in Request |-> WhoseOf(p)][q] = s
                                 \/ [p \in Request |-> WhereOf(p)][q] = a}
            = {q \in Request : AtWork(q) /\ req[q].lane = a}
      BY <1>8 DEF Order!TakenIn
    <2> QED BY <1>5, <2>1, <2>2, <2>3, <2>4, <2>5 DEF Order!Join
  <1> QED BY <1>1, <1>9 DEF Order!Next

\* A turn that starts waits behind nobody, and those behind it still do.
LEMMA OrderStarts ==
  ASSUME IInv, QueueInv, NEW r \in Request, Start(r)
  PROVE  Order!Next
  <1> DEFINE a == req[r].lane
             line == waiting[a]
  <1> USE DEF IInv
  <1>1. /\ a \in Agent /\ line \in Seq(Request) /\ Len(line) > 0 /\ Head(line) = r
        /\ req[r].phase = "queued" /\ active[a] = None
    BY DEF Start, TurnInv, AtWork, TypeOK, RequestRecord
  <1>2. /\ req'[r].phase = "running" /\ req'[r].lane = a /\ req'[r].session = req[r].session
        /\ \A q \in Request \ {r} : req'[q] = req[q]
        /\ waiting'[a] = Tail(line) /\ \A c \in Agent \ {a} : waiting'[c] = waiting[c]
    BY <1>1 DEF Start, TypeOK, RequestRecord
  <1>3. /\ Len(line) \in Nat /\ line[1] = r
        /\ \A i, j \in 1..Len(line) : line[i] = line[j] => i = j
    <2>1. line[1] = r /\ Len(line) \in Nat
      BY <1>1, LeftLine
    <2>2. \A i, j \in 1..Len(line) : line[i] = line[j] => i = j
      BY <1>1 DEF QueueInv
    <2> QED BY <2>1, <2>2
  <1>4. \A q \in Request \ {r} : SameTurn(q)
    BY <1>2, StaysTheSame
  <1>5. /\ StageOf(r) = "waiting" /\ StageOf(r)' = "running"
        /\ WhoseOf(r)' = WhoseOf(r) /\ WhereOf(r)' = WhereOf(r)
    BY <1>1, <1>2 DEF StageOf, WhoseOf, WhereOf, AtWork
  <1>6. \A q \in Request : req[q].phase = "running" => req[q].lane # a
    BY <1>1, NamesAssumption DEF TurnInv
  <1>7. AheadOf(r) = {} /\ AheadOf(r)' = {}
    <2>1. ASSUME NEW q PROVE ~StandsBefore(line, q, r)
      <3> SUFFICES ASSUME NEW i \in 1..Len(line), NEW j \in 1..Len(line), i < j, line[j] = r
                   PROVE  FALSE
        BY DEF StandsBefore
      <3>1. j = 1
        BY <1>3
      <3> QED BY <1>3, <3>1
    <2>2. Ahead(r) = {}
      BY <1>6, <2>1 DEF Ahead
    <2> QED BY <1>2, <2>2 DEF AheadOf
  <1>8. ASSUME NEW q \in Request \ {r} PROVE AheadOf(q)' = AheadOf(q)
    <2>1. CASE req[q].phase # "queued"
      BY <1>2, <2>1 DEF AheadOf
    <2>2. CASE req[q].phase = "queued"
      <3>1. req[q].lane \in Agent
        BY <2>2 DEF TurnInv, AtWork, TypeOK, RequestRecord
      <3>2. CASE req[q].lane # a
        <4>1. waiting'[req[q].lane] = waiting[req[q].lane]
          BY <1>2, <3>1, <3>2
        <4>2. \A p \in Request : req'[p].phase = "running" /\ req'[p].lane = req[q].lane
                                 <=> req[p].phase = "running" /\ req[p].lane = req[q].lane
          BY <1>1, <1>2, <3>2
        <4>3. Ahead(q)' = Ahead(q)
          BY <1>2, <4>1, <4>2 DEF Ahead
        <4> QED BY <1>2, <2>2, <4>3 DEF AheadOf
      <3>3. CASE req[q].lane = a
        <4>1. PICK k \in 1..Len(line) : line[k] = q
          BY <2>2, <3>3 DEF TurnInv
        <4>2. ASSUME NEW p \in Request
              PROVE  StandsBefore(line, p, q) <=> p = r \/ StandsBefore(Tail(line), p, q)
          BY <1>1, <1>3, <4>1, LeavesFromFront
        <4>3. \A p \in Request : req'[p].phase = "running" /\ req'[p].lane = a <=> p = r
          BY <1>2, <1>6
        <4>4. Ahead(q)' = Ahead(q)
          BY <1>2, <1>6, <3>3, <4>2, <4>3 DEF Ahead
        <4> QED BY <1>2, <2>2, <4>4 DEF AheadOf
      <3> QED BY <3>2, <3>3
    <2> QED BY <2>1, <2>2
  <1>9. Order!Start(r)
    BY <1>4, <1>5, <1>7, <1>8 DEF Order!Start, SameTurn
  <1> QED BY <1>9 DEF Order!Next

\* A turn that ends is ahead of nobody any more.
LEMMA OrderFinishes ==
  ASSUME IInv, QueueInv, NEW r \in Request, Finish(r)
  PROVE  Order!Next
  <1> USE DEF IInv
  <1>1. /\ req[r].phase = "running" /\ req'[r].phase = "done" /\ UNCHANGED waiting
        /\ \A q \in Request \ {r} : req'[q] = req[q]
    BY DEF Finish, TypeOK, RequestRecord
  <1>2. \A q \in Request \ {r} : SameTurn(q)
    BY <1>1, StaysTheSame
  <1>3. /\ StageOf(r) = "running" /\ StageOf(r)' = "over" /\ WhoseOf(r)' = 0 /\ WhereOf(r)' = 0
    BY <1>1 DEF StageOf, WhoseOf, WhereOf, AtWork
  <1>4. ASSUME NEW q \in Request PROVE AheadOf(q)' = AheadOf(q) \ {r}
    <2>1. CASE req[q].phase # "queued"
      BY <1>1, <2>1 DEF AheadOf
    <2>2. CASE req[q].phase = "queued"
      <3>1. q # r /\ req'[q] = req[q] /\ req[q].lane \in Agent
        BY <1>1, <2>2 DEF TurnInv, AtWork, TypeOK, RequestRecord
      <3>2. ~StandsBefore(waiting[req[q].lane], r, q)
        BY <1>1, <3>1 DEF StandsBefore, QueueInv
      <3>3. Ahead(q)' = Ahead(q) \ {r}
        BY <1>1, <3>1, <3>2 DEF Ahead
      <3> QED BY <1>1, <2>2, <3>1, <3>3 DEF AheadOf
    <2> QED BY <2>1, <2>2
  <1>5. Order!Finish(r)
    BY <1>2, <1>3, <1>4 DEF Order!Finish, SameTurn
  <1> QED BY <1>5 DEF Order!Next

\* Every step is one of TurnOrder, or none.
LEMMA StepsInOrder ==
  ASSUME IInv, QueueInv, [Next]_vars
  PROVE  [Order!Next]_(Order!vars)
  <1> USE DEF IInv
  <1>0. DOMAIN req = Request
    BY DEF TypeOK
  <1>1. ASSUME NEW r \in Request, NEW k \in Key, Arrive(r, k) PROVE UNCHANGED Order!vars
    <2>1. /\ UNCHANGED waiting /\ req[r].phase = "new" /\ req'[r].phase = "deciding"
          /\ \A q \in Request \ {r} : req'[q] = req[q]
      BY <1>1 DEF Arrive, lanes, TypeOK, RequestRecord
    <2> QED BY <2>1, OrderStays
  <1>2. ASSUME NEW r \in Request, Refuse(r) \/ RefuseConcurrent(r) \/ BuildFails(r)
        PROVE  Order!Next
    <2>1. /\ UNCHANGED waiting /\ req[r].phase = "deciding" /\ req'[r].phase = "done"
          /\ \A q \in Request \ {r} : req'[q] = req[q]
      BY <1>2 DEF Refuse, RefuseConcurrent, BuildFails, lanes, TypeOK, RequestRecord
    <2> QED BY <2>1, OrderLeaves
  <1>3. ASSUME NEW r \in Request, NEW b \in BOOLEAN, JoinLane(r, b) PROVE Order!Next
    <2>1. pool[req[r].session] \in Agent /\ req[r].phase = "deciding"
      BY <1>3 DEF JoinLane, TypeOK, RequestRecord
    <2>2. \A q \in Request : AtWork(q) /\ req[q].session = req[r].session
                             => req[q].lane = pool[req[r].session]
      BY DEF TurnInv
    <2> QED BY <1>3, <2>1, <2>2, OrderJoins DEF JoinLane
  <1>4. ASSUME NEW r \in Request, NEW b \in BOOLEAN, BuildLane(r, b) PROVE Order!Next
    <2>1. built + 1 \in Agent /\ req[r].phase = "deciding" /\ pool[req[r].session] = 0
      BY <1>4, BoundsAssumption DEF BuildLane, TypeOK, Agent
    <2>2. \A q \in Request : AtWork(q) => req[q].session # req[r].session
      BY <2>1 DEF TurnInv
    <2> QED BY <1>4, <2>1, <2>2, OrderJoins DEF BuildLane
  <1>5. CASE \/ UNCHANGED vars
             \/ \E o \in Op : (\E s \in Session, h \in BOOLEAN : Ask(o, s, h)) \/ CallStep(o) \/ Use(o)
             \/ (\E a \in Agent : Stop(a)) \/ Close \/ CloseLanes
    <2>1. UNCHANGED <<waiting, req>>
      BY <1>5 DEF Ask, CallStep, Deny, Read, Bind, Return, Use, Stop, Close, CloseLanes, vars, lanes
    <2> QED BY <2>1, OrderStays
  <1> QED BY <1>1, <1>2, <1>3, <1>4, <1>5, OrderStarts, OrderFinishes DEF Next, TurnStep, Decide

\* LanePool implements TurnOrder: a turn runs once all turns of its session, and
\* all turns on its agent, that were queued before it are over. 'enqueue' is
\* first in, first out for any number of sessions, requests and agents, and for a
\* session whose agent was evicted and built anew too.
THEOREM TurnsInOrder == Spec => KeepsTurnOrder
  <1>1. Init => Order!Init /\ QueueInv
    <2> SUFFICES ASSUME Init PROVE Order!Init /\ QueueInv
      OBVIOUS
    <2>1. ASSUME NEW r \in Request
          PROVE  StageOf(r) = "out" /\ WhoseOf(r) = 0 /\ WhereOf(r) = 0 /\ AheadOf(r) = {}
      BY DEF Init, NewRequest, StageOf, WhoseOf, WhereOf, AheadOf, AtWork
    <2>2. Order!Init
      BY <2>1 DEF Order!Init
    <2>3. \A a \in Agent : Len(waiting[a]) = 0
      BY DEF Init
    <2> QED BY <2>2, <2>3 DEF QueueInv
  <1>2. IInv /\ QueueInv /\ [Next]_vars => [Order!Next]_(Order!vars)
    BY StepsInOrder
  <1> QED BY <1>1, <1>2, QueueKept, PoolInvariance, PTL DEF Spec, KeepsTurnOrder, Order!Spec
=============================================================================
