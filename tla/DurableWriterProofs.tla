------------------------- MODULE DurableWriterProofs --------------------------
(***************************************************************************)
(* Proofs about DurableWriter, for any number of sessions, requests, tool  *)
(* batches, refusals and crashes.                                          *)
(***************************************************************************)
EXTENDS DurableWriter, TLAPS

-----------------------------------------------------------------------------
(* The inductive invariant                                                 *)

Active == run.step \in {"initialize", "run", "dispatch", "tools"}

\* Where a run can be says whose it is.
RunInv ==
  /\ ~At("none") => run.number > 0
  /\ run.kind = "decision" \/ run.used \/ run.step \in {"persist", "mark"} => Hosted
  /\ Hosted /\ ~At("none") => run.version <= reached[Mine]

\* The writes of a run carry ever newer conversations of its session.
WriterInv ==
  /\ QueueMoves
  /\ WritesEndWithTheirRun
  /\ inFlight # None => Hosted /\ saved[Mine] <= inFlight.version /\ inFlight.version <= reached[Mine]
  /\ queued # None => inFlight.version < queued.version /\ queued.version <= reached[Mine]

\* The newest of them carries the conversation the run is at.
NewestInv ==
  Active => /\ queued # None => queued.version = run.version
            /\ queued = None /\ inFlight # None => inFlight.version = run.version

\* Nothing outstanding and nothing refused: the store has that conversation.
SavedInv == Active /\ Hosted /\ Drained /\ failure = 0 => saved[Mine] = run.version

SettledInv ==
  /\ Sync /\ At("tools") => Drained /\ failure = 0
  /\ At("persist") => Drained

\* A question in the store is not of the future, and a run that stored its own
\* has nothing more to write.
StoreInv ==
  \A s \in Session :
    /\ saved[s] <= reached[s]
    /\ asks[s] <= run.number
    /\ asks[s] = run.number /\ ~At("none") => Drained /\ run.step \in {"failed", "mark", "drain"}

IInv ==
  TypeOK /\ RunInv /\ WriterInv /\ NewestInv /\ SavedInv /\ SettledInv /\ StoreInv

-----------------------------------------------------------------------------

\* The invariant holds when the process starts.
LEMMA InitHolds == Init => IInv
  BY SessionAssumption, BoundsAssumption, NoneAssumption, SMT
  DEF Init, IInv, TypeOK, RunInv, WriterInv, NewestInv, SavedInv, SettledInv, StoreInv, Active,
      QueueMoves, WritesEndWithTheirRun, Drained, NoRun, RunRecord, Kind, Steps, Snapshot, At, Hosted, Mine

USE DEF IInv, RunInv, WriterInv, NewestInv, SavedInv, SettledInv, StoreInv, Active,
        QueueMoves, WritesEndWithTheirRun, Drained, At, Hosted, Mine
USE DEF TypeOK, RunRecord, Kind, Steps, Snapshot, writer, store, lane, vars

\* A request begins on a lane nothing is outstanding on.
LEMMA BeginHolds ==
  ASSUME IInv, NEW s \in Session \cup {Anonymous}, NEW kind \in Kind, NEW step \in Steps \ {"none", "persist", "mark", "tools"},
         kind = "decision" => s \in Session,
         Begin(s, kind, step)
  PROVE  IInv'
  BY SessionAssumption, NoneAssumption, SMT DEF Begin

\* A commit hands the writer a conversation newer than any before it.
LEMMA CommitsHolds ==
  ASSUME IInv, NEW next \in RunRecord, Active,
         next.number = run.number, next.session = run.session, next.kind = run.kind,
         next.used = run.used, next.version = run.version,
         next.step \in {"run", "deliver"},
         Commits(next), UNCHANGED <<store, told, old, faults>>
  PROVE  IInv'
<1> DEFINE v == reached[Mine] + 1
           snapshot == [session |-> Mine, run |-> run.number, version |-> v]
<1>1. CASE ~Hosted
  <2>1. run' = next /\ UNCHANGED <<writer, reached>>
    BY <1>1 DEF Commits
  <2>2. TypeOK' /\ RunInv' /\ WriterInv' /\ StoreInv'
    BY <1>1, <2>1
  <2>3. NewestInv' /\ SavedInv' /\ SettledInv'
    BY <1>1, <2>1
  <2> QED  BY <2>2, <2>3
<1>2. CASE Hosted
  <2>1. /\ v \in Nat /\ reached' = [reached EXCEPT ![Mine] = v]
        /\ run' = [next EXCEPT !.version = v]
        /\ Enqueue(snapshot)
    BY <1>2 DEF Commits
  <2>2. run'.step = next.step /\ run'.number = run.number /\ run'.session = run.session
        /\ run'.kind = run.kind /\ run'.used = run.used /\ run'.version = v /\ run' \in RunRecord
    BY <2>1
  <2>3. snapshot \in Snapshot /\ snapshot # None
    BY <1>2, <2>1, NoneAssumption
  <2>4. reached'[Mine] = v /\ \A s \in Session : reached'[s] >= reached[s] /\ reached'[s] \in Nat
    BY <1>2, <2>1
  <2>5. TypeOK'
    BY <1>2, <2>1, <2>2, <2>3 DEF Enqueue
  <2>6. RunInv'
    BY <1>2, <2>2, <2>4
  <2>7. WriterInv'
    BY <1>2, <2>1, <2>2, <2>3, <2>4 DEF Enqueue
  <2>8. NewestInv' /\ SavedInv' /\ SettledInv'
    BY <1>2, <2>1, <2>2, <2>3 DEF Enqueue
  <2>9. StoreInv'
    BY <1>2, <2>1, <2>2, <2>4
  <2> QED  BY <2>5, <2>6, <2>7, <2>8, <2>9
<1> QED  BY <1>1, <1>2

\* A write that ended, landed or not, is the run's own; the next one starts.
LEMMA WriteEndsHolds ==
  ASSUME IInv, inFlight # None, Pump, UNCHANGED <<run, lane>>, faults' \in 0..MaxFaults,
         \/ Stores(inFlight.session, inFlight.version, 0) /\ failure' \in {0, inFlight.run}
         \/ UNCHANGED store /\ failure' = inFlight.run
  PROVE  IInv'
<1>1. inFlight \in Snapshot /\ inFlight.session = Mine /\ inFlight.run = run.number /\ ~At("none")
      /\ Hosted /\ run.number > 0
  OBVIOUS
<1>2. /\ saved'[Mine] \in {saved[Mine], inFlight.version}
      /\ saved' \in [Session -> Nat] /\ asks' \in [Session -> Nat]
      /\ \A s \in Session : s # Mine => saved'[s] = saved[s] /\ asks'[s] = asks[s]
      /\ asks'[Mine] \in {asks[Mine], 0}
      /\ failure' = 0 => saved'[Mine] = inFlight.version
  BY <1>1 DEF Stores
<1>3. inFlight' = queued /\ queued' = None
  BY DEF Pump
<1>4. TypeOK' /\ RunInv'
  BY <1>1, <1>2, <1>3
<1>5. WriterInv' /\ NewestInv'
  BY <1>1, <1>2, <1>3
<1>6. SavedInv' /\ SettledInv'
  BY <1>1, <1>2, <1>3
<1>7. StoreInv'
  BY <1>1, <1>2, <1>3
<1> QED  BY <1>4, <1>5, <1>6, <1>7

\* A step that moves the run on and nothing else.
LEMMA GoesHolds ==
  ASSUME IInv, NEW step \in Steps, run' = [run EXCEPT !.step = step, !.laps = run'.laps, !.used = run'.used],
         run'.laps \in Nat, run'.used \in BOOLEAN, UNCHANGED <<writer, store, lane, faults>>,
         run'.used => run.used \/ run.kind = "decision",
         ~At("none"), step \in {"initialize", "run", "dispatch"} => Active,
         step = "tools" => Active /\ (Sync => Drained /\ failure = 0),
         step = "persist" => Drained /\ Hosted /\ At("deliver"), step = "mark" => Hosted,
         step = "none" => Drained,
         step \in {"failed", "mark", "drain", "none"} \/ ~(run.step \in {"failed", "mark", "drain"})
  PROVE  IInv'
<1>1. run' \in RunRecord /\ run'.step = step /\ run'.number = run.number /\ run'.session = run.session
      /\ run'.kind = run.kind /\ run'.version = run.version
  OBVIOUS
<1>2. TypeOK' /\ RunInv'
  BY <1>1
<1>3. WriterInv' /\ NewestInv' /\ SavedInv'
  BY <1>1
<1>4. SettledInv' /\ StoreInv'
  BY <1>1
<1> QED  BY <1>2, <1>3, <1>4

\* A write of the store by the request itself, once the writer has settled.
LEMMA StoresHolds ==
  ASSUME IInv, Drained, Hosted, ~At("none"), NEW asker \in {0, run.number}, NEW step \in {"none", "failed", "drain"},
         asks[Mine] < run.number,
         UNCHANGED store \/ Stores(Mine, Final, asker),
         reached' = [reached EXCEPT ![Mine] = Final],
         told' \in [Session -> Nat], old' = old, faults' \in 0..MaxFaults,
         Goes(step), UNCHANGED writer
  PROVE  IInv'
<1>1. Final \in Nat /\ Final = reached[Mine] + 1
  BY DEF Final
<1>2. run' \in RunRecord /\ run'.step = step /\ run'.number = run.number /\ run'.session = run.session
      /\ run'.kind = run.kind /\ run'.version = run.version /\ run'.used = run.used
  BY DEF Goes
<1>3. /\ reached' \in [Session -> Nat] /\ saved' \in [Session -> Nat] /\ asks' \in [Session -> Nat]
      /\ \A s \in Session : reached'[s] >= reached[s] /\ saved'[s] <= reached'[s]
      /\ \A s \in Session : asks'[s] = asks[s] \/ (s = Mine /\ asks'[s] = asker)
  BY <1>1 DEF Stores
<1>4. TypeOK' /\ RunInv' /\ WriterInv' /\ NewestInv'
  BY <1>1, <1>2, <1>3
<1>5. SavedInv' /\ SettledInv' /\ StoreInv'
  BY <1>1, <1>2, <1>3
<1> QED  BY <1>4, <1>5

\* Crash: the writer's memory is gone, the store is what it kept.
LEMMA CrashHolds ==
  ASSUME IInv, Crash
  PROVE  IInv'
<1>1. run' \in RunRecord /\ run'.step = "none" /\ run'.number = run.number /\ ~run'.used
      /\ run'.kind = "none" /\ run'.session = Anonymous
  BY DEF Crash, NoRun
<1>2. inFlight' = None /\ queued' = None /\ failure' = 0 /\ old' \in Nat /\ UNCHANGED <<reached, told>>
      /\ faults' \in 0..MaxFaults
  BY BoundsAssumption DEF Crash, Fault
<1>3. /\ saved' \in [Session -> Nat] /\ asks' \in [Session -> Nat]
      /\ \A s \in Session : saved'[s] <= reached[s] /\ asks'[s] \in {asks[s], 0}
  BY DEF Crash, Stores
<1>4. TypeOK' /\ RunInv' /\ WriterInv' /\ NewestInv'
  BY <1>1, <1>2, <1>3
<1>5. SavedInv' /\ SettledInv' /\ StoreInv'
  BY <1>1, <1>2, <1>3
<1> QED  BY <1>4, <1>5

\* Every step of the model keeps the invariant.
LEMMA StepHolds == IInv /\ [Next]_vars => IInv'
<1> SUFFICES ASSUME IInv, [Next]_vars  PROVE IInv'
  OBVIOUS
<1>1. ASSUME NEW s \in Session \cup {Anonymous}, Message(s)  PROVE IInv'
  BY <1>1, BeginHolds DEF Message
<1>2. ASSUME NEW s \in Session, Decision(s)  PROVE IInv'
  BY <1>2, BeginHolds DEF Decision
<1>3. ASSUME NEW s \in Session, CloseWithoutRun(s)  PROVE IInv'
  BY <1>3, BeginHolds DEF CloseWithoutRun
<1>4. CASE Initialize
  <2> DEFINE next == [run EXCEPT !.step = "run"]
  <2>1. next \in RunRecord /\ next.number = run.number /\ next.session = run.session
        /\ next.kind = run.kind /\ next.used = run.used /\ next.version = run.version /\ next.step = "run"
    OBVIOUS
  <2> QED  BY <1>4, <2>1, CommitsHolds DEF Initialize
<1>5. CASE Reshape
  <2> DEFINE next == [run EXCEPT !.laps = @ + 1]
  <2>1. next \in RunRecord /\ next.number = run.number /\ next.session = run.session
        /\ next.kind = run.kind /\ next.used = run.used /\ next.version = run.version /\ next.step = "run"
    BY <1>5 DEF Reshape
  <2> QED  BY <1>5, <2>1, CommitsHolds DEF Reshape
<1>6. CASE ToolsCommit
  <2> DEFINE next == [run EXCEPT !.step = "run"]
  <2>1. next \in RunRecord /\ next.number = run.number /\ next.session = run.session
        /\ next.kind = run.kind /\ next.used = run.used /\ next.version = run.version /\ next.step = "run"
    OBVIOUS
  <2> QED  BY <1>6, <2>1, CommitsHolds DEF ToolsCommit
<1>7. CASE Pauses
  <2> DEFINE next == [run EXCEPT !.step = "deliver", !.asking = TRUE]
  <2>1. next \in RunRecord /\ next.number = run.number /\ next.session = run.session
        /\ next.kind = run.kind /\ next.used = run.used /\ next.version = run.version /\ next.step = "deliver"
    OBVIOUS
  <2> QED  BY <1>7, <2>1, CommitsHolds DEF Pauses
<1>8. CASE CallTools
  BY <1>8, GoesHolds DEF CallTools, Goes
<1>9. CASE RunTools
  BY <1>9, GoesHolds DEF RunTools, Goes, BarrierPasses
<1>10. CASE BarrierThrows
  BY <1>10, GoesHolds DEF BarrierThrows, Goes
<1>11. CASE RunThrows
  BY <1>11, GoesHolds DEF RunThrows, Goes
<1>12. CASE RunEnds
  BY <1>12, GoesHolds DEF RunEnds, Goes
<1>13. CASE Settle
  BY <1>13, GoesHolds DEF Settle, Goes, Settled
<1>14. CASE Persist
  <2>1. Drained /\ Hosted /\ ~At("none") /\ asks[Mine] < run.number /\ Asker \in {0, run.number}
    BY <1>14 DEF Persist, Asker
  <2>2. told' \in [Session -> Nat]
    BY <1>14 DEF Persist, Final
  <2> QED  BY <1>14, <2>1, <2>2, StoresHolds DEF Persist
<1>15. CASE PersistRefused
  <2>1. Drained /\ Hosted /\ ~At("none") /\ asks[Mine] < run.number /\ Asker \in {0, run.number}
    BY <1>15 DEF PersistRefused, Asker
  <2>2. faults' \in 0..MaxFaults
    BY <1>15, BoundsAssumption DEF PersistRefused, Fault
  <2> QED  BY <1>15, <2>1, <2>2, StoresHolds DEF PersistRefused
<1>16. CASE Fails
  BY <1>16, GoesHolds DEF Fails, Goes
<1>17. CASE Mark /\ NewerPause
  BY <1>17, GoesHolds DEF Mark, Goes, Settled
<1>18. CASE Mark /\ ~NewerPause
  <2>1. Drained /\ Hosted /\ ~At("none") /\ asks[Mine] < run.number
    BY <1>18 DEF Mark, Settled, NewerPause
  <2>2. faults' \in 0..MaxFaults
    BY <1>18, BoundsAssumption DEF Mark, Fault
  <2> QED  BY <1>18, <2>1, <2>2, StoresHolds DEF Mark
<1>19. CASE Drain
  BY <1>19, GoesHolds DEF Drain, Goes, Settled
<1>20. CASE WriteLands
  BY <1>20, WriteEndsHolds DEF WriteLands
<1>21. CASE WriteRefused
  <2>1. faults' \in 0..MaxFaults
    BY <1>21, BoundsAssumption DEF WriteRefused, Fault
  <2> QED  BY <1>21, <2>1, WriteEndsHolds DEF WriteRefused
<1>22. CASE Crash
  BY <1>22, CrashHolds
<1>23. CASE UNCHANGED vars
  BY <1>23
<1> QED
  BY <1>1, <1>2, <1>3, <1>4, <1>5, <1>6, <1>7, <1>8, <1>9, <1>10, <1>11, <1>12, <1>13, <1>14,
     <1>15, <1>16, <1>17, <1>18, <1>19, <1>20, <1>21, <1>22, <1>23
  DEF Next, Arrive, Step

-----------------------------------------------------------------------------

HIDE DEF IInv, TypeOK, QueueMoves, WritesEndWithTheirRun, vars

\* The invariant holds of every reachable state.
THEOREM WriterInvariance == Spec => []IInv
  BY InitHolds, StepHolds, PTL DEF Spec

\* Every variable of the writer and of its lane keeps its type.
THEOREM WriterTypes == Spec => []TypeOK
<1>1. IInv => TypeOK
  BY DEF IInv
<1> QED  BY <1>1, WriterInvariance, PTL

\* No write is left on the wire, or waiting for it, for the next request.
THEOREM WritesEnd == Spec => []WritesEndWithTheirRun
<1>1. IInv => WritesEndWithTheirRun
  BY DEF IInv
<1> QED  BY <1>1, WriterInvariance, PTL

\* A queued snapshot always has a write before it that will start it.
THEOREM QueueKeepsMoving == Spec => []QueueMoves
<1>1. IInv => QueueMoves
  BY DEF IInv
<1> QED  BY <1>1, WriterInvariance, PTL

\* Under 'sync' tools run only while the store holds the conversation before.
THEOREM ToolsAfterSave == Spec => []ToolsRunOnSavedState
<1>1. IInv => ToolsRunOnSavedState
  BY DEF IInv, TypeOK, ToolsRunOnSavedState
<1> QED  BY <1>1, WriterInvariance, PTL

\* A question a run stored leaves the store only for a later request of its
\* session.
THEOREM QuestionsStay == Spec => QuestionStays
<1> DEFINE Stays ==
      \A s \in Session : asks[s] # 0 /\ asks'[s] # asks[s] => ~At("none") /\ Mine = s /\ run.number > asks[s]
<1>1. IInv /\ [Next]_vars => [Stays]_vars
  <2> SUFFICES ASSUME IInv, Next, NEW s \in Session, asks[s] # 0, asks'[s] # asks[s]
               PROVE  ~At("none") /\ Mine = s /\ run.number > asks[s]
    BY DEF vars
  <2>1. asks' # asks
    OBVIOUS
  <2>2. \/ WriteLands \/ WriteRefused \/ Persist \/ PersistRefused \/ Mark \/ Crash
    BY <2>1 DEF Next, Arrive, Step, Message, Decision, CloseWithoutRun, Begin, Initialize, Reshape,
       ToolsCommit, Pauses, CallTools, RunTools, BarrierThrows, RunThrows, RunEnds, Settle, Fails, Drain
  <2>3. CASE WriteLands \/ WriteRefused \/ Crash
    <3>1. inFlight # None /\ asks' = [asks EXCEPT ![inFlight.session] = 0]
      BY <2>1, <2>3 DEF WriteLands, WriteRefused, Crash, Stores
    <3>2. inFlight.session = Mine /\ ~At("none")
      BY <3>1 DEF IInv, WritesEndWithTheirRun
    <3> QED  BY <3>1, <3>2 DEF IInv, TypeOK
  <2>4. CASE Persist \/ PersistRefused \/ Mark
    <3>1. ~At("none") /\ asks' = [asks EXCEPT ![Mine] = asks'[Mine]] /\ asks[Mine] # run.number
      BY <2>1, <2>4 DEF Persist, PersistRefused, Mark, Stores, NewerPause, IInv, TypeOK
    <3> QED  BY <3>1 DEF IInv, TypeOK
  <2> QED  BY <2>2, <2>3, <2>4
<1> QED  BY <1>1, WriterInvariance, PTL DEF Spec, QuestionStays

-----------------------------------------------------------------------------
(* The writer implements SavedProgress: every step advances the session of  *)
(* the run, or changes nothing the promise is about.                        *)

\* The first state is one of the promise's.
LEMMA StartsAtZero == Init => Promise!Init
  BY DEF Init, Promise!Init, Promise!Zero

\* A step of the writer is a step of the promise, or a stutter.
LEMMA StepAdvances == IInv /\ [Next]_vars => [Promise!Next]_(Promise!vars)
<1> USE DEF Promise!Next, Promise!vars, Promise!Advance, Promise!Others
<1> SUFFICES ASSUME IInv, [Next]_vars, UNCHANGED <<reached, saved, told>> => FALSE
             PROVE  \E s \in Session : Promise!Advance(s) /\ Promise!Others(s)
  OBVIOUS
<1>1. TypeOK
  BY DEF IInv
<1>2. \/ Initialize \/ Reshape \/ ToolsCommit \/ Pauses
      \/ WriteLands \/ WriteRefused \/ Crash
      \/ Persist \/ PersistRefused \/ Mark
  BY DEF Next, Arrive, Step, Message, Decision, CloseWithoutRun, Begin, CallTools, BarrierThrows,
     RunTools, RunThrows, RunEnds, Settle, Fails, Drain, vars
<1>3. CASE Initialize \/ Reshape \/ ToolsCommit \/ Pauses
  <2>1. Hosted /\ reached' = [reached EXCEPT ![Mine] = reached[Mine] + 1] /\ UNCHANGED <<saved, told>>
    BY <1>3 DEF Initialize, Reshape, ToolsCommit, Pauses, Commits
  <2> QED  BY <2>1, <1>1 DEF TypeOK, IInv
<1>4. CASE WriteLands \/ WriteRefused \/ Crash
  <2>1. inFlight # None /\ saved' = [saved EXCEPT ![inFlight.session] = inFlight.version]
        /\ UNCHANGED <<reached, told>>
    BY <1>4 DEF WriteLands, WriteRefused, Crash, Stores
  <2>2. Hosted /\ inFlight.session = Mine /\ saved[Mine] <= inFlight.version
        /\ inFlight.version <= reached[Mine] /\ inFlight.version \in Nat
    BY <2>1, <1>1 DEF IInv, WritesEndWithTheirRun, TypeOK
  <2> QED  BY <2>1, <2>2, <1>1 DEF TypeOK
<1>5. CASE Persist \/ PersistRefused \/ Mark
  <2>1. Hosted /\ Final = reached[Mine] + 1
    BY <1>5 DEF Persist, PersistRefused, Mark, IInv, Final
  <2>2. /\ reached' = [reached EXCEPT ![Mine] = Final]
        /\ saved' = saved \/ saved' = [saved EXCEPT ![Mine] = Final]
        /\ told' = told \/ (told' = [told EXCEPT ![Mine] = Final] /\ saved' = [saved EXCEPT ![Mine] = Final])
    BY <1>5 DEF Persist, PersistRefused, Mark, Stores
  <2> QED  BY <2>1, <2>2, <1>1 DEF TypeOK, IInv
<1> QED  BY <1>2, <1>3, <1>4, <1>5

\* Whatever is refused, coalesced or lost, the store only moves forward, and a
\* caller is told only of what it holds.
THEOREM ProgressIsKept == Spec => KeepsProgress
  BY InitHolds, StartsAtZero, StepAdvances, WriterInvariance, PTL DEF Spec, KeepsProgress, Promise!Spec

-----------------------------------------------------------------------------
(* Liveness: nobody waits for the writer for good                          *)

\* When the lane, and the store, can take a step: what the guards of the actions say.
StepReady ==
  \/ run.step \in {"initialize", "run", "tools", "persist", "failed"}
  \/ At("dispatch") /\ (Sync => Drained)
  \/ run.step \in {"deliver", "mark", "drain"} /\ Drained

\* Who is ready and stays ready takes its step in the end.
Scheduled ==
  /\ []<>~StepReady \/ []<><<Step>>_vars
  /\ []<>(inFlight = None) \/ []<><<WriteLands \/ WriteRefused>>_vars

\* A run that ended, one way or another, and what it still has to do.
Ending == run.step \in {"deliver", "persist", "failed", "mark", "drain"}
Writes == (IF inFlight = None THEN 0 ELSE 1) + (IF queued = None THEN 0 ELSE 1)
Left ==
  Writes + (IF At("deliver") THEN 15 ELSE IF At("persist") THEN 12 ELSE IF At("failed") THEN 9
            ELSE IF At("mark") THEN 6 ELSE 3)

\* The writer only writes what it has while the lane waits for it.
LEMMA WriterEmpties ==
  ASSUME IInv, Next, Ending \/ At("dispatch")
  PROVE  \/ UNCHANGED <<inFlight, queued>> /\ run' # run
         \/ At("none")'
         \/ inFlight # None /\ Pump /\ run' = run
<1>1. IInv /\ ~At("none") /\ ~At("initialize") /\ ~At("run") /\ ~At("tools")
  BY DEF Ending
<1>2. CASE Step
  BY <1>1, <1>2 DEF Step, Initialize, RunTools, BarrierThrows, ToolsCommit, RunEnds, Pauses, Settle,
     Persist, Fails, Mark, Drain, Goes, IInv, TypeOK
<1>3. CASE CallTools \/ Reshape \/ Arrive
  BY <1>1, <1>3 DEF CallTools, Reshape, Arrive, Message, Decision, CloseWithoutRun, Begin
<1>4. CASE RunThrows \/ PersistRefused
  BY <1>1, <1>4 DEF RunThrows, PersistRefused, Goes, IInv, TypeOK
<1>5. CASE WriteLands \/ WriteRefused
  BY <1>5 DEF WriteLands, WriteRefused
<1>6. CASE Crash
  BY <1>6 DEF Crash, NoRun, IInv, TypeOK
<1> QED BY <1>2, <1>3, <1>4, <1>5, <1>6 DEF Next

\* What an ended run does next brings it nearer to the next request.
LEMMA EndingFalls ==
  ASSUME IInv, Next, Ending
  PROVE  At("none")' \/ (Ending' /\ Left' < Left)
<1>1. CASE inFlight # None /\ Pump /\ run' = run
  BY <1>1 DEF Pump, Left, Writes, Ending, IInv
<1>2. CASE UNCHANGED <<inFlight, queued>> /\ run' # run
  <2>1. Writes' = Writes /\ Writes \in 0..2
    BY <1>2 DEF Writes
  <2>2. \/ At("none")'
        \/ At("deliver") /\ run'.step \in {"persist", "failed"}
        \/ At("persist") /\ run'.step = "failed"
        \/ At("failed") /\ run'.step \in {"mark", "drain"}
        \/ At("mark") /\ run'.step = "drain"
    BY <1>2 DEF Ending, Next, Step, Initialize, RunTools, BarrierThrows, ToolsCommit, RunEnds, Pauses,
       Settle, Persist, Fails, Mark, Drain, Goes, IInv, TypeOK, CallTools, Reshape, Arrive, Message, Decision,
       CloseWithoutRun, Begin, RunThrows, PersistRefused, WriteLands, WriteRefused, Crash, NoRun
  <2> QED BY <2>1, <2>2 DEF Left, Ending
<1> QED BY <1>1, <1>2, WriterEmpties

\* However much an ended run has left to do, the lane is free or less is left in the end.
Within(n) == At("none") \/ (Ending /\ Left <= n)
Falls(n, m) == Within(n) ~> Within(m)

\* Every step of an ended run is such a fall.
LEMMA EndingComesWithin ==
  ASSUME IInv, Next, Ending, NEW n \in 3..17, Left = n
  PROVE  Within(n - 1)'
<1>1. IInv' /\ (At("none")' \/ (Ending' /\ Left' < n))
  BY EndingFalls, StepHolds
<1>2. Ending' => Left' \in 3..17
  BY <1>1 DEF Left, Writes, Ending
<1> QED BY <1>1, <1>2 DEF Within

\* A run left with n is, in the end, left with less.
LEMMA EndingLeads ==
  ASSUME NEW n \in 3..17, NEW m \in Nat, m = n - 1
  PROVE  Spec /\ Scheduled => Falls(n, m)
<1> DEFINE OnWire == Ending /\ Left = n /\ inFlight # None
           AtLane == Ending /\ Left = n /\ inFlight = None
<1>l. IInv /\ Ending => Left \in 3..17
  BY DEF Left, Writes, Ending
<1>1. IInv /\ Within(n) => Within(m) \/ OnWire \/ AtLane
  BY <1>l DEF Within
<1>2. IInv /\ (OnWire \/ AtLane) /\ Next => Within(m)'
  BY EndingComesWithin
<1>3. IInv /\ OnWire /\ [Next]_vars => OnWire' \/ Within(m)'
  BY <1>2 DEF vars, Left, Writes, Ending
<1>4. IInv /\ AtLane /\ [Next]_vars => AtLane' \/ Within(m)'
  BY <1>2 DEF vars, Left, Writes, Ending
<1>5. /\ IInv /\ OnWire /\ <<WriteLands \/ WriteRefused>>_vars => Within(m)'
      /\ IInv /\ AtLane /\ <<Step>>_vars => Within(m)'
  BY <1>2 DEF Next
<1>6. OnWire => ~(inFlight = None)
  OBVIOUS
<1>7. IInv /\ AtLane => StepReady
  BY DEF StepReady, Ending, Drained, IInv, WriterInv, QueueMoves
<1> QED BY <1>1, <1>3, <1>4, <1>5, <1>6, <1>7, WriterInvariance, PTL DEF Spec, Scheduled, Falls

\* Once a run has ended its lane is free again, whatever the store refuses.
EndedRunFreesLane == Ending ~> At("none")

THEOREM EndedRunsFree == Spec /\ Scheduled => EndedRunFreesLane
<1>1. IInv /\ Ending => Within(17)
  BY DEF Within, Left, Writes, Ending
<1>2. IInv /\ Within(2) => At("none")
  BY DEF Within, Left, Writes, Ending
<1>3. Spec /\ Scheduled =>
        /\ Falls(17, 16) /\ Falls(16, 15) /\ Falls(15, 14) /\ Falls(14, 13) /\ Falls(13, 12)
        /\ Falls(12, 11) /\ Falls(11, 10) /\ Falls(10, 9) /\ Falls(9, 8) /\ Falls(8, 7)
        /\ Falls(7, 6) /\ Falls(6, 5) /\ Falls(5, 4) /\ Falls(4, 3) /\ Falls(3, 2)
  BY EndingLeads
<1> QED BY <1>1, <1>2, <1>3, WriterInvariance, PTL DEF Falls, EndedRunFreesLane

\* No tool waits at the barrier for good, whatever the writer still has to write.
BarrierEnds == At("dispatch") ~> ~At("dispatch")
Behind(n) == At("dispatch") /\ Writes <= n

THEOREM BarriersEnd == Spec /\ Scheduled => BarrierEnds
<1>1. ASSUME IInv, At("dispatch"), [Next]_vars
      PROVE  ~At("dispatch")' \/ UNCHANGED <<inFlight, queued>> \/ (inFlight # None /\ Pump)
  BY <1>1, WriterEmpties DEF vars
<1>2. IInv /\ At("dispatch") => Behind(2)
  BY DEF Behind, Writes
<1>3. IInv /\ Behind(2) /\ [Next]_vars => Behind(2)' \/ ~At("dispatch")'
  BY <1>1 DEF Behind, Writes, Pump
<1>4. IInv /\ Behind(1) /\ [Next]_vars => Behind(1)' \/ ~At("dispatch")'
  BY <1>1 DEF Behind, Writes, Pump, IInv
<1>5. IInv /\ Behind(0) /\ [Next]_vars => Behind(0)' \/ ~At("dispatch")'
  BY <1>1 DEF Behind, Writes, Pump
<1>6. IInv /\ Behind(2) /\ <<WriteLands \/ WriteRefused>>_vars => Behind(1)'
  BY DEF Behind, Writes, Pump, WriteLands, WriteRefused
<1>7. IInv /\ Behind(1) /\ <<WriteLands \/ WriteRefused>>_vars => Behind(0)'
  BY DEF Behind, Writes, Pump, WriteLands, WriteRefused, IInv
<1>8. IInv /\ Behind(0) /\ <<Step>>_vars => ~At("dispatch")'
  BY DEF Behind, Step, Initialize, RunTools, BarrierThrows, ToolsCommit, RunEnds, Pauses,
     Settle, Persist, Fails, Mark, Drain, Goes, IInv, TypeOK
<1>9. /\ Behind(2) => Behind(1) \/ ~(inFlight = None)
      /\ IInv /\ Behind(1) => Behind(0) \/ ~(inFlight = None)
      /\ IInv /\ Behind(0) => StepReady /\ At("dispatch")
  BY DEF Behind, Writes, StepReady, Drained, IInv, WriterInv, QueueMoves
<1> QED BY <1>2, <1>3, <1>4, <1>5, <1>6, <1>7, <1>8, <1>9, WriterInvariance, PTL
        DEF Spec, Scheduled, BarrierEnds

\* Weak fairness is that schedule, once what is ready is enabled.
ReadyIsEnabled ==
  /\ StepReady => ENABLED <<Step>>_vars
  /\ inFlight # None => ENABLED <<WriteLands \/ WriteRefused>>_vars

\* So both hold of the specification the runs check.
THEOREM FairWriter == FairSpec /\ []ReadyIsEnabled => EndedRunFreesLane /\ BarrierEnds
<1>1. ReadyIsEnabled => (StepReady => ENABLED <<Step>>_vars)
  BY DEF ReadyIsEnabled
<1>2. ReadyIsEnabled => ((inFlight = None) \/ ENABLED <<WriteLands \/ WriteRefused>>_vars)
  BY DEF ReadyIsEnabled
<1> QED BY <1>1, <1>2, EndedRunsFree, BarriersEnd, PTL DEF FairSpec, Scheduled
=============================================================================
