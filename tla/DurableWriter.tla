---------------------------- MODULE DurableWriter -----------------------------
(***************************************************************************)
(* How the progress of a hosted run becomes durable: the writer of one     *)
(* lane (hosting/durability.ts), the runs the lane serves one after the    *)
(* other (hosting/standingAgent.ts, answerOne and deliver), the barrier    *)
(* their tools wait at, and the session store, which may refuse.           *)
(***************************************************************************)
EXTENDS Naturals

CONSTANTS
  Session,     \* sessions the lane serves
  Anonymous,   \* "no session"
  None,        \* "no write"
  Sync,        \* durability is 'sync': tools wait for the writer
  MaxRuns,     \* bound: requests the lane serves
  MaxLaps,     \* bound: tool batches and window changes of a run
  MaxFaults    \* bound: refusals of the store, crashes

ASSUME SessionAssumption == Anonymous \notin Session
ASSUME BoundsAssumption ==
  MaxRuns \in Nat /\ MaxLaps \in Nat /\ MaxFaults \in Nat
ASSUME ModeAssumption == Sync \in BOOLEAN
ASSUME NoneAssumption == None \notin [session : Session, run : Nat, version : Nat]

VARIABLES
  inFlight,  \* the write on the wire
  queued,    \* the newest snapshot not started yet
  failure,   \* the run whose write was the newest to fail; 0: it landed
  run,       \* the request the lane is answering
  reached,   \* per session: the newest conversation a run committed
  saved,     \* per session: the conversation in the store
  asks,      \* per session: the run whose question the store holds; 0: none
  old,       \* the runs up to this one were an earlier deployment's
  told,      \* per session: the conversation a caller was last told of
  faults     \* how many faults happened, against MaxFaults

writer == <<inFlight, queued, failure>>
store == <<saved, asks>>
lane == <<reached, told, old>>
vars == <<writer, run, store, lane, faults>>

-----------------------------------------------------------------------------
(* The writer                                                              *)

Snapshot == [session : Session, run : Nat, version : Nat]

Drained == inFlight = None /\ queued = None

\* enqueue and pump: the newest snapshot replaces the one that waits, and
\* goes on the wire when nothing is.
Enqueue(snapshot) ==
  /\ IF inFlight = None THEN inFlight' = snapshot /\ UNCHANGED queued
                        ELSE queued' = snapshot /\ UNCHANGED inFlight
  /\ UNCHANGED failure

\* Mutant: the write that ended does not start the next one.
MutantNoPump == inFlight' = None /\ UNCHANGED queued

Pump == inFlight' = queued /\ queued' = None

Fault == faults < MaxFaults /\ faults' = faults + 1

\* A progress write is a plain conversation: it replaces a pause, too.
Stores(s, version, asker) ==
  /\ saved' = [saved EXCEPT ![s] = version]
  /\ asks' = [asks EXCEPT ![s] = asker]

WriteLands ==
  /\ inFlight # None
  /\ Stores(inFlight.session, inFlight.version, 0)
  /\ failure' = 0
  /\ Pump
  /\ UNCHANGED <<run, lane, faults>>

\* A store that throws may have taken the write.
WriteRefused ==
  /\ inFlight # None
  /\ Fault
  /\ UNCHANGED store \/ Stores(inFlight.session, inFlight.version, 0)
  /\ failure' = inFlight.run
  /\ Pump
  /\ UNCHANGED <<run, lane>>

-----------------------------------------------------------------------------
(* The request at the lane                                                 *)

\* `version` is the conversation the run is at, `laps` how many tool batches
\* and window changes it began, `used` whether it spent a decision, `asking` whether it paused.
NoRun == [number |-> 0, session |-> Anonymous, kind |-> "none", step |-> "none",
          version |-> 0, laps |-> 0, used |-> FALSE, asking |-> FALSE]

At(step) == run.step = step
Goes(step) == run' = [run EXCEPT !.step = step]
Mine == run.session
Hosted == Mine \in Session

Begin(session, kind, step) ==
  /\ At("none") /\ run.number < MaxRuns
  /\ run' = [number |-> run.number + 1, session |-> session, kind |-> kind, step |-> step,
             version |-> IF session \in Session THEN saved[session] ELSE 0,
             laps |-> 0, used |-> FALSE, asking |-> FALSE]
  /\ UNCHANGED <<writer, store, lane, faults>>

Waits(s) == s \in Session /\ asks[s] # 0

\* This deployment cannot answer a question an earlier one asked.
Answerable(s) == asks[s] > old

\* A message starts a run. It is refused over a pause somebody can answer, and
\* closes any other first.
Message(s) == (Waits(s) => ~Answerable(s)) /\ Begin(s, "message", "initialize")

\* A decision resumes the pause that waits, at its tools.
Decision(s) == Waits(s) /\ Answerable(s) /\ Begin(s, "decision", "dispatch")

\* A pause whose saved carrier is unreadable is closed, and an input request
\* is cancelled, without a run.
CloseWithoutRun(s) == Waits(s) /\ Begin(s, "close", "deliver")

\* What onCommit does when a stage that leaves the run at `next` committed to
\* the conversation.
Commits(next) ==
  IF Hosted
  THEN LET v == reached[Mine] + 1 IN
       /\ reached' = [reached EXCEPT ![Mine] = v]
       /\ run' = [next EXCEPT !.version = v]
       /\ Enqueue([session |-> Mine, run |-> run.number, version |-> v])
  ELSE run' = next /\ UNCHANGED <<writer, reached>>

Initialize ==
  /\ At("initialize")
  /\ Commits([run EXCEPT !.step = "run"])
  /\ UNCHANGED <<store, told, old, faults>>

\* Between two calls of the model other stages commit as well: a delivered
\* injection, a window strategy, a correction, the wrap-up.
Reshape ==
  /\ At("run") /\ run.laps < MaxLaps
  /\ Commits([run EXCEPT !.laps = @ + 1])
  /\ UNCHANGED <<store, told, old, faults>>

\* The model calls tools.
CallTools ==
  /\ At("run") /\ run.laps < MaxLaps
  /\ Goes("dispatch")
  /\ UNCHANGED <<writer, store, lane, faults>>

\* Mutant: a barrier that waits for the write on the wire and asks no more.
MutantBarrierPasses == inFlight = None

\* The barrier lets the tools run at once, once nothing is outstanding, or
\* never: a write that did not land fails the run.
BarrierPasses == Sync => Drained /\ failure = 0

RunTools ==
  /\ At("dispatch") /\ BarrierPasses
  /\ run' = [run EXCEPT !.step = "tools", !.laps = @ + 1,
                        !.used = (run.kind = "decision") \/ @]
  /\ UNCHANGED <<writer, store, lane, faults>>

BarrierThrows ==
  /\ At("dispatch") /\ Sync /\ Drained /\ failure # 0
  /\ Goes("failed")
  /\ UNCHANGED <<writer, store, lane, faults>>

ToolsCommit ==
  /\ At("tools")
  /\ Commits([run EXCEPT !.step = "run"])
  /\ UNCHANGED <<store, told, old, faults>>

\* A tool, the model or a middleware throws, or the caller hung up.
RunThrows ==
  /\ run.step \in {"initialize", "run", "dispatch", "tools"}
  /\ Goes("failed")
  /\ UNCHANGED <<writer, store, lane, faults>>

\* The run ends with an answer.
RunEnds ==
  /\ At("run")
  /\ Goes("deliver")
  /\ UNCHANGED <<writer, store, lane, faults>>

\* One of its tools asked a question: the stage commits the calls that led to
\* it, and the run ends paused.
Pauses ==
  /\ At("tools")
  /\ Commits([run EXCEPT !.step = "deliver", !.asking = TRUE])
  /\ UNCHANGED <<store, told, old, faults>>

-----------------------------------------------------------------------------
(* What the lane stores of it (deliver, afterFailedAnswer, answerOne)      *)

\* Mutant: the terminal write does not wait for the writer.
MutantSettled == TRUE

\* settle: nothing is on the wire and nothing waits.
Settled == Drained

\* The writer settles before the terminal envelope, and rejects when its
\* newest write did not land.
Settle ==
  /\ At("deliver") /\ Settled
  /\ IF failure # 0 THEN Goes("failed")
     ELSE IF Hosted THEN Goes("persist") ELSE Goes("none")
  /\ UNCHANGED <<writer, store, lane, faults>>

\* The conversation as the run ended it, and its question, if that is how.
Final == reached[Mine] + 1

Asker == IF run.asking THEN run.number ELSE 0

Persist ==
  /\ At("persist")
  /\ Stores(Mine, Final, Asker)
  /\ reached' = [reached EXCEPT ![Mine] = Final]
  /\ told' = [told EXCEPT ![Mine] = Final]
  /\ Goes("none")
  /\ UNCHANGED <<writer, old, faults>>

PersistRefused ==
  /\ At("persist")
  /\ Fault
  /\ UNCHANGED store \/ Stores(Mine, Final, Asker)
  /\ reached' = [reached EXCEPT ![Mine] = Final]
  /\ Goes("failed")
  /\ UNCHANGED <<writer, told, old>>

\* A failed resume that used its decision marks the pause answered; every
\* failed request drains the writer before the next one starts.
Fails ==
  /\ At("failed")
  /\ Goes(IF run.used THEN "mark" ELSE "drain")
  /\ UNCHANGED <<writer, store, lane, faults>>

\* The mark goes on from the conversation the store holds, and leaves a newer
\* pause, which is one this very run stored, alone.
NewerPause == asks[Mine] = run.number

Mark ==
  /\ At("mark") /\ Settled
  /\ IF NewerPause THEN UNCHANGED <<store, reached, faults>>
     ELSE /\ reached' = [reached EXCEPT ![Mine] = Final]
          /\ \/ Stores(Mine, Final, 0) /\ UNCHANGED faults
             \/ Fault /\ (UNCHANGED store \/ Stores(Mine, Final, 0))
  /\ Goes("drain")
  /\ UNCHANGED <<writer, told, old>>

\* Mutant: a failed request does not drain the writer.
MutantDrain ==
  /\ At("drain")
  /\ Goes("none")
  /\ UNCHANGED <<writer, store, lane, faults>>

Drain ==
  /\ At("drain") /\ Settled
  /\ Goes("none")
  /\ UNCHANGED <<writer, store, lane, faults>>

\* The process stops and comes back, perhaps redeployed: the store is what it
\* kept. A write that was on the wire landed, or never will.
Crash ==
  /\ Fault
  /\ \/ UNCHANGED store
     \/ inFlight # None /\ Stores(inFlight.session, inFlight.version, 0)
  /\ inFlight' = None /\ queued' = None /\ failure' = 0
  /\ run' = [NoRun EXCEPT !.number = run.number]
  /\ old' \in {old, run.number}
  /\ UNCHANGED <<reached, told>>

-----------------------------------------------------------------------------

Init ==
  /\ inFlight = None /\ queued = None /\ failure = 0
  /\ run = NoRun
  /\ reached = [s \in Session |-> 0]
  /\ saved = [s \in Session |-> 0]
  /\ asks = [s \in Session |-> 0]
  /\ told = [s \in Session |-> 0]
  /\ old = 0
  /\ faults = 0

Arrive ==
  \/ \E s \in Session \cup {Anonymous} : Message(s)
  \/ \E s \in Session : Decision(s) \/ CloseWithoutRun(s)

Step ==
  \/ Initialize \/ RunTools \/ BarrierThrows \/ ToolsCommit \/ RunEnds \/ Pauses
  \/ Settle \/ Persist \/ Fails \/ Mark \/ Drain

Next ==
  \/ Arrive \/ Step \/ Reshape \/ CallTools \/ RunThrows
  \/ WriteLands \/ WriteRefused \/ PersistRefused \/ Crash

Spec == Init /\ [][Next]_vars

-----------------------------------------------------------------------------
(* Properties                                                              *)

Kind == {"none", "message", "decision", "close"}
Steps == {"none", "initialize", "run", "dispatch", "tools", "deliver", "persist",
          "failed", "mark", "drain"}

RunRecord ==
  [number : Nat, session : Session \cup {Anonymous}, kind : Kind, step : Steps,
   version : Nat, laps : Nat, used : BOOLEAN, asking : BOOLEAN]

TypeOK ==
  /\ inFlight \in Snapshot \cup {None} /\ queued \in Snapshot \cup {None}
  /\ failure \in Nat
  /\ run \in RunRecord
  /\ reached \in [Session -> Nat] /\ saved \in [Session -> Nat] /\ told \in [Session -> Nat]
  /\ asks \in [Session -> Nat] /\ old \in Nat
  /\ faults \in 0..MaxFaults

\* No write of a request is left on the wire for the request after it, which
\* it would race ("answerOne" drains, "deliver" settles).
WritesEndWithTheirRun ==
  \A w \in {inFlight, queued} \ {None} :
    w.run = run.number /\ w.session = Mine /\ ~At("none")

\* A queued snapshot never waits for a write nobody started: pump is called
\* wherever one could be.
QueueMoves == queued # None => inFlight # None

\* Under 'sync' the tools of a batch run only while the store holds the
\* conversation up to the batch before: a crash re-runs this one batch.
ToolsRunOnSavedState == Sync /\ At("tools") /\ Hosted => saved[Mine] = run.version

\* A question a run stored leaves the store only for a later request of its
\* session: no progress write lands on top of the pause.
QuestionStays ==
  [][\A s \in Session : asks[s] # 0 /\ asks'[s] # asks[s] =>
       ~At("none") /\ Mine = s /\ run.number > asks[s]]_vars

\* A run fails for what the store did to its own progress, as the error of the
\* writer says ("the session store did not accept this run's progress").
FailsForItself ==
  [][BarrierThrows \/ (Settle /\ run'.step = "failed") => failure = run.number]_vars

Promise == INSTANCE SavedProgress

\* The store only moves forward, whatever was refused, coalesced or lost in a
\* crash, and a caller is told only of what it holds.
KeepsProgress == Promise!Spec

-----------------------------------------------------------------------------
(* Fairness: the process runs what is runnable, the store answers every     *)
(* write one way or the other, and tools and model end. No request arrives  *)
(* and nothing fails because it must.                                       *)

FairSpec == Spec /\ WF_vars(Step) /\ WF_vars(WriteLands \/ WriteRefused)

\* No request waits for the writer for good: the lane is free again for the
\* next one.
LaneFrees == ~At("none") ~> At("none")
=============================================================================
