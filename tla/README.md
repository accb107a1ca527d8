# A TLA+ verification of agentfootprint

agentfootprint is a TypeScript library for building agents. A run is a walk of
a flowchart (call a model, run its tools, go round); everything it did is
recorded; and a *hosted* agent serves sessions whose conversations live in a
store between turns. Most of the library is a function of one run. The parts
where two things can happen in an order nobody wrote a test for are the host
(several requests, sessions, processes and stores around one conversation) and
the resources runs share: the clients of tool servers, the sessions tools hold
open, the queue every exporter ships through. Those are the parts modelled here.

1. [The system](#the-system)
2. [The modules](#the-modules)
3. [HostedConsent](#hostedconsent-a-question-and-its-answer)
4. [DurableWriter](#durablewriter-the-progress-of-a-run)
5. [LanePool](#lanepool-who-answers-whom)
6. [Admission](#admission-who-is-let-in)
7. [McpPool](#mcppool-clients-of-tool-servers)
8. [Outbox](#outbox-what-an-exporter-has-yet-to-ship)
9. [ToolSessions](#toolsessions-what-a-tool-holds-open)
10. [SignIn](#signin-who-may-try-a-password)
11. [The runs](#the-runs)
12. [Fairness](#fairness)
13. [The proofs](#the-proofs)
14. [Where the code and its words differ](#where-the-code-and-its-words-differ)
15. [Not modelled](#not-modelled)
16. [Plan](#plan)

Paths below are relative to the library's own source directory (`src/` of the
repository).

## The system

### Hosting (20 600 lines)

A *door* (`hosting/standingAgent.ts`, composed behind `httpHost.ts` or
`nodeHost.ts`) takes requests for a session and answers each with one turn.

| part | state it keeps | operations | talks to |
|---|---|---|---|
| Door: the composed turn (`standingAgent.ts`) | per request: what it read, whether a run was handed the decision, what is left to store | `answerRequest`, `answerOne`, `deliver`, `closeOnce` | everything below |
| Lanes and their pool (`standingAgent.ts`) | per session key an agent, in order of use; per agent a chain of requests and a count of work; the reader | `laneFor`, `evictToFit`, `serialize`, `retire`, `redeemerFor`, `heldBinding` | the agent factory, the door |
| Admission (`admission.ts`) | per caller the times of its turns in a rolling window | `admit`, `turnsPerHour` | asked before a lane is chosen |
| Durable writer (`durability.ts`) | one write on the wire, one snapshot that waits, the newest failure | `capture`, `enqueue`, `pump`, `settle`, the barrier | the session store, the tools of a run |
| Answered pauses (`answeredPause.ts`) | none of its own: it reads and rewrites the stored pause | `afterFailedAnswer`, `markAnswered`, `closeUnanswerable`, `closedConversation` | session store, consent ledger |
| Session stores (`memorySessions.ts`, `sqliteSessions.ts`) | one envelope per session | read, replace, forget | — |
| Password door (`signin/limits.ts`, `signin/checkGate.ts`, `signin/door.ts`) | a bounded table of attempts per name and one per address; slots and a queue for checks | `begin`, `failed`, `succeeded`, `abandoned`, `run` | the browser, the directory that checks passwords |
| Stream (`stream.ts`) | a queue and one waiter | push, next, end | a run and its consumer |

### Core (90 000 lines)

`core/Agent.ts` builds the chart of a run and hands it to an engine that is not
in this repository (footprintjs). Inside it, `core/consentRequest.ts` and
`core/consentLedger.ts` are a protocol of their own: a run that pauses to ask a
person *mints* a request; an answer, anywhere, *spends* it once in a *ledger*;
a host that can no longer have it answered *closes* it, by spending it itself
and then recording a marker, and may then say that the call never ran.

### Around them

| part | state it keeps | operations | talks to |
|---|---|---|---|
| MCP client pool (`mcp/pool/`) | clients by conversation key, leases of operations and of the app, endings under way and put off, three budgets | `callTool`, `listTools`, `acquire` and its release, `terminate`, `close`, the sweep | the server's client; tools of a run |
| Tool sessions (`tools/toolSessions.ts`, `core/agent/componentResources.ts`, `core/codeRunnerTool.ts`) | registrations in order of use, who borrows a turn's, the tool's map of open sessions | `register`, `borrow`, `seed`, `restore`, `endCall`, `finish`, `closeToolSessions`, `shutdown` | the vendor's sandbox; the stored pause |
| Outbox (`adapters/observability/outbox.ts`) | counts of accepted, taken and settled items, a chain of deliveries, a timer | `add`, `drain`, `stop` | the exporter's `deliver` |
| Resilience (`resilience/`, `reliability/`) | a breaker's state and counts | call, retry, fall back | a provider |

- `memory/`, `rag/`, `injection-engine/`, `strategies/`, `thinking/`, `cache/` —
  functions from a scope to a request.
- `recorders/`, `events/`, `time-travel/`, `trace-toolpack/` — observers.
- `integrity/`, `semantics/`, `answer-account/` — checks over a recorded run.
- `adapters/` (44 000 lines) — conversions to and from vendors' messages.

`PROJECT.json` lists them all, with what is and is not modelled.

### How they interact

A request passes the door's admission, takes a lane (which may evict one and
build one), waits for the chain of that lane, reads the session's envelope,
and then either runs or resumes. While the run goes on its commits feed the
writer of the lane. At its end the door settles the writer and replaces the
envelope. The agent underneath asks a ledger before it executes a call a person
was asked about. Beside all that artifact calls read through the same agents,
outside the chains; a second process may serve the same sessions from the same
store and ledger; and the host may close at any moment.

The tools of a run lease a client of the MCP pool for each call, and may
register the end of whatever they keep between calls with the tier of tool
sessions; the run hands those registrations to its stored pause and takes them
back when it is resumed. Events go to sinks, whose outboxes ship them while the
run goes on and are drained when it is flushed or shut down.

### What is hard

- **Interleaving.** Two replicas answer, or decline, or close one question.
  A lane's agent is evicted while somebody else still counts on it. A client is
  named by a `terminate`, evicted or closed while an operation opens it, waits
  for it, or is about to keep it.
- **Reads that age.** `closeUnanswerable` reads a pause, awaits a ledger, and
  writes; the policy is asked about a window that is counted later; a binding
  keeps the agent it was redeemed at.
- **Answers that get lost.** A ledger that throws may have recorded the spend,
  may do so yet, or never; a store that throws may have taken the write.
- **Hang-ups.** The engine stops waiting on a stage; the stage goes on, and a
  session it opens is there after its turn has ended. A caller gives up on an
  open; the open goes on.
- **Put off, and then?** An ending that finds no slot, a batch a limit left
  behind, an item below the trigger: each waits for somebody to come back to it.
- **Restarts and redeploys** between any two steps, with other rules, another
  ledger or another saved format.
- **Bounds.** A full pool whose lanes all have work, a bounded memory of
  closed requests, a bounded ledger of callers, a full table of sign-in attempts
  each of which holds a name back.

What makes each part correct follows from that: consent must be *true* (what the
conversation says of a call is so) and *final*; progress must *never go back*;
agents, clients and sessions must be *kept* while they work and *released* when
they do not; what is put off must be *taken up again*; bounds must hold over
every kind of work they are a bound on.

## The modules

| module | models | composes |
|---|---|---|
| `OneAnswer` | what a consent gate promises: settled once, run once and only if approved | — |
| `HostedConsent` | questions, answers, ledgers, doors, processes | refines `OneAnswer` |
| `SavedProgress` | what a session is promised: the store only moves forward, callers are told of what it holds | — |
| `DurableWriter` | the writer of a lane and the runs it serves | refines `SavedProgress` |
| `TurnOrder` | what a host promises of turns: each runs once all of its session and all on its agent that were taken in before it are over | — |
| `LanePool` | lanes, pool, queues, artifact calls, shutdown | refines `TurnOrder` |
| `Admission` | the rolling window and the policy that reads it | — |
| `McpPool` | clients, leases, evictions, endings, terminate and close | — |
| `Outbox` | the delivery chain and its drains | — |
| `ToolSessions` | registrations of a conversation's turns, the tool that makes them | — |
| `SignIn` | attempts and their counters, the gate of checks, the directory's lockout | — |
| `MC*` | constants and symmetry for TLC | extends its module |
| `HostedConsentProofs`, `DurableWriterProofs`, `LanePoolProofs`, `AdmissionProofs`, `McpPoolProofs`, `OutboxProofs`, `ToolSessionsProofs`, `SignInProofs` | the theorems | extend their module |

The modules overlap where the system does, and each takes from its neighbour
only what it promises. `HostedConsent` knows of the writer that it may store
the conversation of a run before its end (`ProgressLands`) and is drained before
the door writes; `DurableWriter` shows why that is so. `DurableWriter` takes
one request at a time from a lane; `LanePool` shows why only one runs.
`LanePool` lets any request in; `Admission` is the policy. `ToolSessions` takes
from the host that a pause is stored, resumed by one door at a time or given up;
`SignIn` takes of the directory only how it counts wrong passwords; the other two
have no neighbour but their callers.

A definition named `Mutant...` is the code with a plausible bug in it. It is
used by no action: `PROJECT.json` names, for every property, the mutant under
which TLC finds that property violated.

## HostedConsent: a question and its answer

One session, several doors in several processes, requests `q` that its runs may
mint, and turns `t` (messages or decisions handed to a door).

**State.** `build` is what each door is deployed with: which kind of ledger
(`store`: shared; `process`: the one a process makes for agents that name none;
`own`: an agent's own, which has no identity), which version of the rules, which
format of a saved pause. `life` counts restarts, so that a ledger in memory is
another one afterwards. `pending[q]` is what the pause recorded of its request
(`PendingRequest`), `spent` what ledgers recorded, `wire` the spends a shared
ledger was handed and has not applied, `receipts` the bounded memory of closes
a process witnessed, `heard[t]` the attempts at spending that the watch of turn
`t` recorded (a watch hears every attempt of its process on its request, whoever
made it), `stored` the envelope, `turn[t]` the request at a door and
the stage it left running, `ran` the turns that executed their call. A
conversation is, per request, what it says of the call: `open`, `result`,
`declined`, `unknown` or `notRun`. The last two matter: *unknown* is what may
honestly be said when nobody can tell; *notRun* is a claim.

**A turn** has two program counters. `step` is where the door is (`read`,
`resume`, `run`, `deliver`, `watch`, `markRead`, `markWrite`, `closeRead`,
`prove`, `proving`, `marking`, `closeWrite`), `leg` where the stage is that was
handed the decision (`check`, `held`, `spending`, `won`, `executing`,
`settled`). They part company in `Abort`: the caller hangs up, the engine stops
waiting, the door goes on to `watch` what became of the answer, and the stage
runs until it looks at its run again. Every `await` of the code separates two
actions; what happens between two awaits is one.

**The correspondence** by section of the module: *reading the session* is
`answerOne`; *the resumed stage* is `Agent.resume`, `spendDecision`,
`runEndedBy`, `refuseIfAborted` and the execution of a resumed call; *the run's
end* is `deliver` and `mintConsentRequest`; *after a failed answer* is
`afterFailedAnswer`, `mayHaveBeenUsed` and `closeUnanswerable`; *closing* is
`proveNeverRan`.

**Abstractions.** A decision over another request, over no request and over a
pause that does not wait end alike. `carrier` stands for every way a saved pause
can be unreadable to a build. The refusals for a changed call and for an
unrecorded request need an edited store and are left out, as is the pause that
waits for typed input. A stage that outlives its run commits nothing to it
(the engine drops it). A spend whose caller saw an exception may land later or
never. `by` and the kind of decision in a ledger's entry are bookkeeping the
code does not have: actions read the key alone.

**Properties.** `NotRunIsTrue`, `DeclinedIsTrue`: what a conversation says, in
the store or about to be stored, is true for ever. `RunsOnce`, which no run checks
and `OnceCorrect` proves: a request that one ledger decides runs its call at most
once. `UsedIsSettled`: a door whose
decision reached a ledger leaves no pause for it on offer. `PauseNeverReopens`:
what somebody settled is never offered again. `NewerPauseKept`: a door never
replaces a newer pause of its own. `KeepsOneAnswer`: refinement. `EveryTurnEnds`,
`EveryStageStops`: liveness.

Two of them are conditional. `OneLedger(q)` holds of a request whose ledger has
an identity and, if it is a process's, of a session no other process can reach:
without it the code cannot know, and claims nothing. `NewerPauseKept` leaves out
a door that could not read the store (it marks anyway, on purpose) and pauses of
*other* doors, which may be replaced: see [the findings](#where-the-code-and-its-words-differ).

## DurableWriter: the progress of a run

The writer of one lane, the runs it serves one after the other, and the store.
`inFlight`, `queued`, `failure` are the writer's variables; `run` is the request
at the lane; `reached`, `saved`, `told` are, per session, how many commits its
history has had, how many the store has, and how many a caller was told of.
A conversation is abstracted to its number of commits, which is what "newer"
means; `asks[s]` is the run whose question the store holds.

The module is `pump`, `enqueue`, `settle` and the barrier of `durability.ts`,
each with the whole of what it changes, and around them the turn: a message, a
decision or a close begins; `Initialize`, `ToolsCommit`, `Reshape` (any stage
that commits between two calls of the model) and `Pauses` hand the writer a
snapshot; `RunTools` is behind the barrier; `Settle` and `Persist` are
`deliver`; `Mark` and `Drain` are what a failed turn does.

A write that fails may have been taken. A process that crashes loses the writer;
its write landed or never will. A request of no session (`Anonymous`) commits
nothing that is written but waits at the same writer, which matters for
`FailsForItself`.

**Properties.** `QueueMoves` (a snapshot waits only for a write somebody
started; proved, not run), `WritesEndWithTheirRun` (no write races the next request's),
`ToolsRunOnSavedState` (under `sync`, what a crash can cost is one batch),
`QuestionStays` (no progress write lands on a pause), `KeepsProgress`
(refinement of `SavedProgress`), `LaneFrees`.

## LanePool: who answers whom

`pool[k]` is the agent of key `k` (a session, or "no session"), `older` the order
of use as a relation (which lane was used in an earlier millisecond: a lane that is
used may be so in the one the clock showed before, and `evictToFit` then takes the
one built first, `Sooner`; the clock is monotone), `waiting`, `active`
and `admitted` are each agent's queue, running request and count of work,
`reader` the agent for artifact calls of sessions without a lane, `retired`,
`leaving`, `stopped` the way out of an agent, `busy` the artifact calls in flight
per session.

Both shapes of a deployment are in one module: `pooled` (an `agentFactory`) or
one shared agent, chosen at `Init`. A turn goes `Arrive`, then one of `Refuse`,
`RefuseConcurrent`, `JoinLane`, `BuildLane`, `BuildFails`, then `Start` and
`Finish`. An artifact call goes `Ask`, then `Deny`, or `Read` and `Return`; a
*binding* that was handed out goes `Bind` and then `Use`, `Return` as often as
it likes. `Close`, `CloseLanes` and `Stop` are the shutdown.

`evictToFit` runs only when a key without a lane arrives, and makes room for one:
so `Evicted` is part of `BuildLane` and `BuildFails`, and of nothing else.
The host's `close` waits for the handlers of the wire (`httpHost.ts`), which is
the guard `Served`; a binding is not a handler and may read while the host
closes. `shutdown: 'none'` and an agent whose shutdown never ends are left out.

**Properties.** `AdmittedIsWork` (the count that keeps a lane from eviction is
the work it has), `WorkKeepsItsAgent` (nobody's agent is evicted or shut down
under them), `SecondTurnWasLet`, `KeepsTurnOrder` (the module implements
`TurnOrder`: a turn starts once whatever it was queued behind is over, also when
its session got another agent in between), `EveryRequestEnds`,
`NothingLeftRunning` (after close every agent ever built is shut down). Proved and
not run: `OneTurnAtATime` (which the order implies), `CallsBounded`, and what the
bound on the pool amounts to (`RoomIsMade`, `PoolIsBounded`, `OldestGoFirst`).

## Admission: who is let in

Callers, a clock, the bounded ledger of `admission.ts` and the policy
`turnsPerHour`. `Ask` reads the window and prunes it; `Allow` counts the turn;
they are two actions because the policy is awaited between them, and other
requests are asked about and answered meanwhile. `forgot`, `before` and `beside`
are bookkeeping that no guard reads: the callers the ledger dropped, of whom no
bound is promised, and for each request what was asked about before it and what of
its caller's the policy still had in hand. `CeilingHolds`, no caller has more turns
in a window than the limit, is what a comment says of the count and what a burst
contradicts ([below](#where-the-code-and-its-words-differ)). `OverByItsBurst` is what holds: a turn that is let in
puts its caller over the limit by no more than the requests that were in hand
beside it. `RefusesAtTheCeilingOnly`: nobody is turned away whose window had room
when it was read. The window moves with a monotone clock in ticks. A caller's turns on record are a set, each
with the time it was admitted: the code's array is in that order, so that those
`prune` drops from its front are the old ones.

## McpPool: clients of tool servers

The pool keeps at most one client for new leases per conversation key. `state[c]`
is the life of a client (`opening`, `open`, `ending`, `gone`), `current[k]` the
client of a key, `closedToNew` those that were lost, named or came late. An open
has two sides: `ready[c]` is what it answers those who wait for it (it may give up
at `initTimeoutMs`), `work[c]` how far the work behind it is, which goes on for
nobody and whose operation `owner[c]` stays charged. `op[o]` is one operation of a
caller, `held[o]` the client the app keeps after an `acquire`.

**Actions.** Every interaction starts with a sweep (`Interact`: app leases past
their time, then idle clients). An operation is `Admit`ted, *looks* (finds an open
client, joins one that opens, opens one, evicts for it, is refused), *waits*,
works under a lease, is answered (`Answer`) and, when the work it sent has
settled, `Settle`s. `Lose` is a call that finds its session expired. `OpenTimesOut`,
`OpenSucceeds`, `OpenFails`, `OpenSettles`, `EndingSettles` are a client's;
`Terminate` and `Close` name clients and end them once idle or out of time.

`EndDeferred` is the operation the module turns on: `endClient` and
`retryDeferred`. An ending takes an ending slot *and* an operation slot, so every
step that frees one, or the last use of a client, runs it and starts as many
endings as there is room for. A client put off for being idle or evicted
(`"weak"`) is kept if somebody uses it again; one put off for any other reason
(`"strong"`) is not.

**Abstractions.** Which clients are idle, and which app leases have expired, is
any subset (`MaybeIdle`, `Holders`): the module has no clock. Which victim is
evicted, and which deferred clients end first, is any choice. A caller has one
operation, one app lease at a time. `close` ends what is idle in rounds; what a later
round would end has been deferred by the first. Clients stand for incarnations
and are used again once nobody refers to them.

**Properties.** `InUseStaysOpen`: nobody's client is ended under him, and nobody
waits for one that was. `OneServesAKey`: a conversation is never served by two
clients. `BudgetsHold`: clients, clients of a principal, endings, operations.
`DeferredHasNoRoom`: no ending waits while all it needs is there.
`ClosedHoldsNothing`: also the `acquire` that was on its way when the pool closed
keeps nothing. `EveryOperationSettles`, `CloseEndsEveryClient`: liveness.

## Outbox: what an exporter has yet to ship

The code counts what was ever accepted, taken and settled. Deliveries take the
oldest items first, so only the differences are read, and only they are kept:
`waiting` = accepted − taken, `inFlight` = taken − settled, and for each drain
`ahead`, its target − settled. The promise chain has at most one delivery in
flight and, as far as anybody can tell, one queued behind it (a delivery that
finds nothing is over at once): `deliveryQueued`.

`Add` is `add` with both triggers, `OnTimer` the timer, `Stop` disarms it.
`DeliveryStarts` is `deliverNext` up to its `await`, `DeliverySettles` the rest:
delivered or dropped and reported, its items settle once. A `drain` is two passes
of `settleThrough` (`Drain`, `Sweep`), each a series of rounds (`Round`, `Wake`)
that await the end of the chain as it was when the round began.

**Properties.** `DrainKeepsItsWord`: a pass ends only when what it was for has
settled; the code's other way out, a round that settled nothing, is never taken.
`NothingStranded`: whatever waits has something to leave by. `EveryDrainEnds`,
although items keep arriving for ever.

## ToolSessions: what a tool holds open

One conversation. A tool that keeps a session between calls (the code runner is
the one in the repository) opens it under a key of its scope (`call`, `run`, or
`session`: the conversation), keeps it in a map (`open`) and registers its end
with the tier (`rows`). The tier runs each cleanup once: at the end of the call
or the turn, when idle, when there are too many rows, when somebody closes.

A turn's registrations are *borrowed* by one run of the agent at a time, a `Leg`:
the first run of the turn, a resume of its stored pause (`saved`), or the host
that gives the pause up (`Abandon`). `leg[l]` is the run, its view of the tier
and the call it is in. A call finds the key's session (`Reuse`), waits for the
one that opens it (`Join`) or opens one (`OpenOne`, then `Opened` or
`OpenFails`); a hang-up ends the turn and leaves the call going, so that
`Opened` may come when its view is retired (`Refused`), and the session then has
to be stopped there and then (`RejectLate`). `stops` are the cleanups that run and
who waits for each: a wait is bounded (`StopTimesOut`), the cleanup is not.

`Fire` is what every way of firing shares: the rows are claimed in the same step
that starts their cleanups, and each cleanup first takes the session out of the
tool's map. `Register` is `registerOwned`: sweep, file or touch, evict.

**Abstractions.** The calls of a leg run one at a time. A step of the vendor
(opening, stopping) may take any time and a stop may never end. The clock is in
ticks and only the age of registrations reads it.

**Properties.** `NothingOutlivesItsTurn`: a registration of a turn means that a
leg borrows it or that its pause can be resumed. `UnansweredStopsNothing`: a
resume that took no answer leaves what the pause holds. `NoSessionIsLost`: a
session that runs is the one its tool hands out, and its end is registered.
`StopsOnce`. `EveryBorrowIsReturned`, whatever the cleanups do.

`NoSessionIsLost` and `StopsOnce` hold as long as no registration idles out; what
happens when one does is [a finding](#where-the-code-and-its-words-differ), and the
run `ToolSessions` therefore has `IdleMs` beyond its clock. The other properties
do not depend on it, and their theorems include idle sweeps.

## SignIn: who may try a password

A directory locks an account after a number of wrong passwords, whoever typed
them. The door in front of it must therefore let nobody try one name more often
than the directory stands, and must do so out of memory it bounds.

**State.** `names` and `addresses` are the two tables of `boundedCounters`: a
counter has its `attempts`, the attempts `inFlight` and when it was last used.
`login[l]` is one request at the door: its name, its address, and how far it is
(`delayed`, `queued`, `checking`, then what the check came to). `running` and
`queue` are `checkGate`'s. `bad[n]`, `badAt[n]` are the directory's own count of
wrong passwords: they are what the promise is about, and no action of the door
reads them.

**Actions.** `Begin` is `attemptLimiter.begin` when it lets an attempt through:
both counters are found or made, and count it at once. `Refuse` is each of its
refusals that changes a table (a refusal by the name changes none). Then the door:
`EndFails` (the sign-in the browser still had cannot be ended), `Enter` (a slot, or
a place in the queue), `GateRefuses`, `Check` (right, wrong, failed, or the
directory out of reach), `Answer`, which is `release` followed by the settling of
the ticket (`failed`, `succeeded`, `abandoned`). `Get`, `Made`, `Droppable` are the
table: a counter nobody used for a window is forgotten when it is looked up; a full
table drops a counter that has nothing in flight and holds nobody back, and when
there is none the attempt is refused as busy. `Tick` is the clock.

**Abstractions.** How long a delay is; which of the counters that may go does go
(the code takes the one used longest ago); redirect doors, cookies and the store
of sign-ins. A name is an account. The clock is monotone and in ticks. A check that
*failed* may have reached the directory, and was then charged before the door
hears of it; one that found the directory out of reach was not. Two processes have
two tables: the budget is that of one process, as the code's own header says.

**Properties.** `BudgetReachesTheDirectory`: within its window, the directory
charges no account more wrong passwords than a name may attempt, although
counters are forgotten, dropped, cleared and taken back while checks are slow.
`TicketsAreCounted`: a counter is in flight as often as its name or address is,
one check per name at a time: each ticket is settled once on each way out.
`SlotsAreUsed`: checks run in slots, none is lost, and nobody waits for one that is
free. `RefusedAddressStays`: an address that is refused for its failures stays
refused until a full window has passed, whoever else signs in, from there or from
elsewhere: its failures are not dropped for another's counter or taken back. (An
attempt in flight counts too, but only until it is answered: an address refused on
account of one may be let in again.) `TablesAreBounded` is proved, not run.

## The runs

Twelve runs: ten show what holds, two what does not.

| run | instance | shows | states |
|---|---|---|---|
| `Shared` | 2 replicas with different rules, one shared ledger and store, 3 turns, 2 requests (an ask and a check-in), 1 fault, durable writer | truth, settlement, newer pauses, refinement of `OneAnswer` | 600 000 |
| `Redeploy` | 2 agents in one process, 1 request, 2 turns, 1 redeploy to another carrier or another kind of ledger, 1 fault, fairness | liveness | 240 000 |
| `Writer` | 2 sessions and anonymous requests, 3 runs of 2 laps, 2 faults, `sync`, fairness | everything of `DurableWriter` | 680 000 |
| `Pool` | both shapes, 1 session and anonymous, 2 turns, 2 artifact callers, pool of 1, `reject`, 1 fault, fairness | everything of `LanePool` | 330 000 |
| `Ceiling` | 3 callers, ledger for 2, limit 2, window 3, 4 requests, 7 ticks, a policy that takes its time | how far the bound holds | 400 000 |
| `McpPool` | 2 clients, 2 keys of one principal, 2 callers (one acquires), a caller of terminate, 1 ending slot, 2 operation slots, 2 rounds | safety of `McpPool` | 620 000 |
| `McpClose` | as `McpPool` with room for 1 client and no terminate, fairness | the budgets; liveness of `McpPool`; an arrival that evicts | 110 000 |
| `Outbox` | 2 drainers, at most 4 waiting, trigger at 3, 2 a delivery, a byte limit, a timer, fairness | everything of `Outbox` | 75 000 |
| `ToolSessions` | 2 turns, 3 legs, 2 sessions, a call- and a conversation-scoped tool, 1 registration, fairness | everything of `ToolSessions` | 270 000 |
| `SignIn` | 3 logins, 4 names, 4 addresses, tables of 3, 1 slot, 1 place in the queue, 1 attempt a name, 2 an address, window of 1, 2 ticks | everything of `SignIn` | 96 000 |
| `ClosesNewer`, `IdleTouch` | as small as the counterexample needs | two disagreements, below | — |

Deadlock is checked in `McpPool`, `McpClose` and `Outbox`, whose callers come back
for ever. In the other modules the requests, turns or legs are finitely many, and
when they are all answered the system rightly stands still.

**Why these bounds are enough for what they show.** Two doors are the fewest
that can disagree, and every interaction in the code is pairwise (a reader and
a writer of one envelope; a spend and a close of one request). Three turns let
a question be asked, answered and answered again or written over; the second
request is the *newer* pause. `Shared` has no restarts, which matter to a ledger
that lives in memory: `Redeploy` has one, with two turns and for liveness; what a
restart could make untrue is left to the theorems, which have any number. One fault of each kind is chosen at every
possible place; two are needed only where one is to be survived and a second
to bite (`Writer`). A pool of one has lanes that are idle, queued on, running
and evicted at once, and the reader is another agent. Two laps of a run are what it takes
for a snapshot to wait behind a write. Two MCP clients and one ending slot make the second ending wait;
two operation slots, which an ending shares, make it wait for an operation as
well; two clients and two keys where there is room for one (`McpClose`) put every
arrival of the other key at the budget, and make it evict and open beside the ending of
its victim (the share of a principal binds in no run: `WithinBudgets` has all four
for every value); two rounds let an operation lose a client
it waited for and look again. Deliveries of two out of four waiting items leave
a batch behind, and a drain can begin in between. A bound of one registration
makes every second session evict the first; three legs are a turn, its resume, and
a second turn or a resume that is refused, and a conversation-scoped session is
shared by two turns. Three logins are one that is checked, one that waits and
one the gate refuses; four names and four addresses on tables of three
make one be dropped for another or refused as busy. A name has one attempt and an
address two: the first failure of a name is kept, that of an address may be dropped. What larger instances might show is covered for safety by
the theorems, which have no bounds.

Symmetry (turns, replicas, clients, keys, callers, names, addresses) is used in runs of safety
properties only.

## Fairness

`FairSpec` of each module assumes that a process runs what became runnable and
that what it awaits (store, ledger, model, tool, factory, policy, shutdown of an
agent, delivery of a batch, work of a server's client) answers one way or
another: weak fairness of each turn's, stage's, agent's, operation's, client's or
drain's steps, and of a shared ledger applying what it was handed. This is
what an event loop gives, plus the absence of calls that hang, against which
the code has no timeout and promises nothing. No arrival, failure, restart or
closing is assumed to happen. Weak fairness suffices since no step is disabled
by others once it is enabled for good: a lane is handed on in order, a ledger's
answer stays. `EveryTurnEnds` accepts a turn whose process stopped. In
`HostedConsent` the fairness of the ledger is per spend (`LedgerFair`): one that
answers others for ever still answers this one.

In particular: `McpPool` assumes nothing of the app (no sweep, release,
terminate or close need come), only that promises and deadlines pass and that
opens, calls and endings settle. `Outbox` assumes that deliveries settle and that
the timer fires, and nothing of `Add`: items may arrive for ever. `ToolSessions`
assumes only that the tier's own timeouts pass; a cleanup may hang for good.
`SignIn` states no fairness: that nobody waits for a free slot is an invariant.

## The proofs

All theorems hold for every value of the constants that the named assumptions
admit: any number of processes, doors, sessions, requests, turns, agents,
restarts, faults, clients, budgets, drainers, tools, logins and table sizes. The assumptions say that names are distinct (`None` is no
request), that bounds are natural numbers, that every door lives in a process,
that a store in memory is reached by one process only, and in `LanePool` that
sessions, requests and callers, in `McpPool` that clients and callers, in
`SignIn` that logins, names and addresses,
and in `Admission` that requests are finitely many (so that they can be counted).

| theorem | states |
|---|---|
| `HostedConsentProofs!Invariance`, `TypeCorrect` | the inductive invariant, types |
| `NotRunCorrect`, `DeclinedCorrect`, `OnceCorrect` | `NotRunIsTrue`, `DeclinedIsTrue`, `RunsOnce` |
| `PauseOfferedOnce`, `UsedSettled`, `NewerIsKept` | `PauseNeverReopens`, `UsedIsSettled`, `NewerPauseKept` |
| `OneAnswerIsKept` | `KeepsOneAnswer`: `HostedConsent` implements `OneAnswer` |
| `OneDoorClosesItsOwn` | `ClosesItsPauseOnly`, with one door |
| `WaitCorrect` | what a turn waits for is its own |
| `TurnsEnd`, `StagesStop` | `EveryTurnEnds`, `EveryStageStops`, when `Scheduled` |
| `FairTurnsEnd` | both of `FairSpec`, once what is ready is enabled |
| `DurableWriterProofs!WriterInvariance`, `WriterTypes` | the inductive invariant, types |
| `WritesEnd`, `QueueKeepsMoving`, `ToolsAfterSave`, `QuestionsStay` | `WritesEndWithTheirRun`, `QueueMoves`, `ToolsRunOnSavedState`, `QuestionStays` |
| `ProgressIsKept` | `KeepsProgress`: `DurableWriter` implements `SavedProgress` |
| `EndedRunsFree`, `BarriersEnd` | a run that ended frees its lane, every wait for a save ends, when `Scheduled` |
| `FairWriter` | both of `FairSpec`, once what is ready is enabled |
| `LanePoolProofs!PoolInvariance`, `PoolTypes` | the inductive invariant, types |
| `CountsWork`, `AgentsAreKept`, `TurnsTakeTurns`, `SecondTurnIsLet`, `CallsAreBounded` | `AdmittedIsWork`, `WorkKeepsItsAgent`, `OneTurnAtATime`, `SecondTurnWasLet`, `CallsBounded` |
| `TurnsInOrder` | `KeepsTurnOrder`: `LanePool` implements `TurnOrder` |
| `RoomIsMade` | a lane is added only if it fits once idle ones went, or if none is idle |
| `PoolIsBounded` | of at most `n` lanes at work at once come at most `n` agents, `n >= MaxActive` |
| `OldestGoFirst` | a lane that is evicted was used before every idle one that stays, or in the same millisecond and built before it |
| `AdmissionProofs!BurstIsBounded` | with at most `n` requests of a caller asked about at once, its window holds at most `Limit + n - 1` |
| `OverTheCeiling`, `RefusedAtTheCeiling` | `OverByItsBurst`, `RefusesAtTheCeilingOnly` |
| `McpPoolProofs!TypeCorrect` | types |
| `InUseIsKept`, `OneClientServes`, `ClosedIsEmpty` | `InUseStaysOpen`, `OneServesAKey`, `ClosedHoldsNothing` |
| `WithinBudgets`, `NothingLeftToRetry` | `BudgetsHold`, `DeferredHasNoRoom` |
| `NamedAreEnded` | `NamedIsEnded`, as long as no terminate gives up on a client that still opens |
| `OutboxProofs!TypeCorrect`, `DrainSettles`, `WhatWaitsLeaves` | types, `DrainKeepsItsWord`, `NothingStranded` |
| `ToolSessionsProofs!TypeCorrect`, `TurnsLeaveNothing`, `UnansweredKeepsAll` | `TypeOK`, `NothingOutlivesItsTurn`, `UnansweredStopsNothing` |
| `NoneIsLost`, `OneStopEach` | `NoSessionIsLost`, `StopsOnce`, as long as no call takes up a session whose row idled out (`InTime`) |
| `NeverIdleIsInTime` | which holds of every behaviour in which no row idles out |
| `SignInProofs!TypeCorrect`, `NoLockout` | types, `BudgetReachesTheDirectory` |
| `EveryTicketCounts`, `BoundedTables`, `NoSlotIsLost`, `Refused` | `TicketsAreCounted`, `TablesAreBounded`, `SlotsAreUsed`, `RefusedAddressStays` |

**HostedConsent.** None of the three claims is inductive: whether a call ran is
decided in a ledger, steps before or after anything is said of it. `IInv` ties
the two together. (1) Every spend of a request that `OneLedger` holds of goes to
the ledger it was minted under: the check of the resumed stage compares it, and
no door changes its ledger while a turn of it is past that check, since a
redeploy ends its turns. (2) A ledger records a key once (`SpentOnce`). (3)
Whoever ran a call holds an approving spend (`RanInv`). (4) Every `notRun`, in
the store, at a door or in what a door is about to store, is backed by a closing
spend, every `declined` by a declining one (`Backed`). Two spends of one key in
one ledger are the same spend, so an approving and a closing one cannot both be
there. The rest of the invariant (`OpenOnly`, `OpenAsked`) says that nothing but
the paused call is open when a conversation is settled: otherwise settling it as
`notRun` would claim it of another call as well.

`PauseNeverReopens` rests on a second invariant, `FreshInv`: nobody - the store,
a conversation, what a door read or is about to store - speaks of a request
before it is minted, and between its minting and the write of its pause only the
turn that asked it does. What a door stores at its other ends never says that it
waits, so a pause comes on offer in one write only, before anyone can have
settled it (`OfferedByAsker`). `UsedIsSettled` follows: a door that ends with a
decision its ledger took has overwritten the pause or found it gone (one case per
way to end, `DoorSettles`), and what went off offer stays off it (`StaysShut`). Its
invariant `UsedInv` also says how far a stage with a spend in flight is, since
the ledger's answer to an aborted one may come after its door ended.

`NewerPauseKept` is about the awaits between what a door reads and what it
writes. `OwnInv` says that any other pause on offer meanwhile is another door's:
the lane lets one request at a time be active at a door (`LaneInv`), and a new
pause comes on offer only from an active turn at the door that asked it
(`AskerInv`, with `OfferedByAsker`). So the lane is what protects a door against
itself, and nothing protects it against a replica: that is `ClosesNewer`.

With one door, though, nobody else can ask: the question such a door
closes, when nobody can answer it, is the one the pause still holds
(`OneDoorClosesItsOwn`). So the violation of `ClosesNewer` is one of replicas only.

`TurnsEnd` is liveness, proved by a measure: `MovesLeft` counts the moves from
where a turn stands to its end, and `Left` counts one more for a spend the door
waits for. Of the ledger, the stage and the door exactly one has the next move
(`NextIsReady`), its step lowers `Left`, and no step of another turn, redeploy or
fault raises it. That needs `WaitInv`: a door waits on a stage it resumed, and the
spend on the wire is about the request it holds, or a turn could wait for an answer
nobody owes it. The measure is at most 30, so the fall is a chain of that many
leads-to steps, and no induction over an unbounded count. The assumption is
`Scheduled`: a stage, door or ledger that stays ready takes its step. It is weak
fairness with the guard spelt out (`StageReady`, `DoorReady`, `LedgerReady`) in
place of ENABLED, and `FairTurnsEnd` goes from `FairSpec` to it by the one thing the
prover cannot say, that what is ready is enabled (`ReadyIsEnabled`, a state predicate
that TLC finds true in every state of the instances here). `StagesStop` does the
same for a stage its door gave up on.

**OneAnswer.** A step of `HostedConsent` records at most one spend or runs at
most one call (`OneEffect`). A recorded spend settles one request that was open;
a turn that runs its call holds the approving spend, and with `SpentOnce` it is
the only one that can.

**DurableWriter.** The safety properties hold because of what the writer's two
slots say of each other: a queued snapshot is newer than the one on the wire,
both are the present run's, and the newest of them is where the run is
(`NewestInv`); so once nothing is outstanding and nothing failed, the store has
exactly that (`SavedInv`). `StoreInv` adds that a run which stored its own
question has nothing left to write. The proof is for both `sync` and `async`.

`EndedRunsFree` measures what an ended run has left: three for each step
to its end, by which it may hand the writer two writes, and one for each write
outstanding: at most 17. `BarriersEnd` is the same for a wait for a
save, where at most two writes are ahead. Both assume the writer's `Scheduled`.

**LanePool.** The invariant says of every turn at work that it is on its
session's lane in the pool (`TurnInv`), of every call and binding that it uses
that lane or the reader until the agent is retired (`CallInv`), and of agents
that those on their way out are in no lane (`PoolInv`). What ties it to
eviction is the count: an evicted lane has `admitted = 0`, and since the count
is the cardinality of the lane's turns and calls, it has none (`IdleHasNone`).
So the proof counts: `TurnBegins`, `TurnEnds`, `CallBegins`, `CallEnds` say
what one more or one fewer of either does to the cardinalities.

`TurnsInOrder` maps a queue to what it means: the turns a queued one waits behind
are those of its lane's queue before it and the one at work there (`Ahead`). The map
holds because a session's lane stays while any turn of it is queued, so that all
turns of the session it can wait behind are in that one queue (`QueueInv`: a queue
holds the requests queued on its lane, each once). What the pool does between, build,
evict, be read from and close, is a stutter of `TurnOrder`.

The bound on the pool is not an invariant: a pool whose lanes all work grows past
`maxActiveSessions`, as it should. `RoomIsMade` says when: only if no lane of it is
idle. Eviction goes by order of use, one lane at a time, and what it leaves is
either within the bound or at work; that there *is* an oldest idle lane to begin with
rests on the order being one (`OrderInv`) and a finite order having a least
element. `PoolIsBounded` turns this into a number for a deployment: if at most `n`
lanes ever work at once, there are never more than `n` agents.

**McpPool.** That a client in use stays open is an invariant of the whole table at
once: whoever leases or waits is mentioned in `op`, whoever opens in `work`, and
whoever takes new leases in `current` (`IInv`). `EndDeferredKeeps` shows once that
an ending disturbs none of it, since what it ends nobody uses; every action is
then its own change followed by that lemma. The budgets are a proof by counting:
`EndingsFit` bounds what `EndDeferred` starts by the smaller of the two rooms,
and an ending moves its client out of one budget and into two others.
`NothingLeftToRetry` follows the other way round: after `EndDeferred` either all
that could end does, or a room is used up, and a step that does not run it frees
neither a slot nor a client. `NamedAreEnded` is about who remembers a client that
takes no new leases: a terminate or the close that still waits for it, or else its
deferral, and for good (`NamedInv`). The one step that forgets is a terminate that
gives up on a client that still opens: the theorem excludes just that, and so says that the
last of the findings below is the only way for such a client to be left over.

**Outbox.** `DrainKeepsItsWord` needs to know where each drain stands in the
chain: a drain that awaits the flight counts on items in it, one that awaits what
is queued has a delivery queued (`PassAt`), so that something has settled each
time one wakes; `DueLeaves` says that what a limit left behind is requeued.

**ToolSessions.** `IInv` relates the three places that know of a turn: its legs
(one that runs is the borrower, and one that finishes has left no row), the opens
under way, and the stops somebody waits for. `SInv` is about sessions: a running one is
in a row and in the map (`Sound`), one that stops is in neither (`Stoppings`), one
that opens is in nothing else yet (`Openings`). `SInv` needs `InTime`: a touch
that finds its own row just swept files a session that is being stopped, which is
the finding below. Rows may idle out and be swept otherwise, by calls of other
keys: the theorems allow all of the idle timeouts but that one.

**SignIn.** `NoLockout` needs what the directory cannot tell the door: `DirectoryInv`
says of every name with a charge younger than the window that its counter is
there, is as young, and has at least as many attempts as there are charges, one
more while a check that may be charged is in flight. A counter so aged is not
forgotten, one with an attempt is not dropped, and one that is cleared belongs to
a right password, which clears the directory's count as well; one attempt in
flight per name (`NamesInv`) is what makes the last case exact. `AddressesInv` is
the counting half for addresses, where several are in flight, and `SlotsInv` the
gate: who is in the queue waits, once, and the slots taken are the logins that
have one, also when a slot is handed on.

**Admission.** What the ledger holds of a caller are turns of its own
(`HeldInv`), all of its window unless it was forgotten (`WindowInv`). A request
that was asked about and saw room will be let in, whatever happens meanwhile; so
what counts is the turns in the window together with those (`Counted`). Asking is
the only step that adds to it, and a request that sees room sees fewer turns than
the limit: of `n` requests asked about at once at most `n - 1` others do so on top
(`BurstInv`, which is inductive for every `n`). `OverTheCeiling` says which burst:
what is asked about later is in no request's past (`OrderInv`), so the bound a
request met when it was asked about stays met (`OverInv`).
`RefusedAtTheCeiling` is about the moment the window is read: what the ledger holds
of it are turns of the caller, so that a full window is full.

**Only model-checked.** The step from what the model calls ready to ENABLED, which
the provers cannot expand (`ReadyIsEnabled`). The other liveness properties:
`LaneFrees`, `EveryRequestEnds`, `NothingLeftRunning`, `EveryOperationSettles`,
`CloseEndsEveryClient`, `EveryDrainEnds` and `EveryBorrowIsReturned` depend on a
queue, a set or a run of any length being worked off, so that their measure has no
bound and the proof is an induction over it, inside a temporal formula, which the
installed provers do not do; those proved above have a bounded one. And
`Admission!TypeOK`: the order in which the ledger forgets is a sequence filtered by
`SelectSeq`, whose recursion the provers cannot follow.

## Where the code and its words differ

Two runs state what a comment or a method's documentation says, and TLC finds the behaviour that contradicts it.

- **`ClosesNewer`.** `hosting/answeredPause.ts:346` says a pause is closed "never
  over a newer pause". The door reads it, awaits its ledger, and writes without
  reading again. Two replicas: while one proves, the other settles the
  question, runs on and pauses anew; the newer question is lost. It takes two: with
  one door it cannot happen (`OneDoorClosesItsOwn`).
- **`IdleTouch`.** `core/RunnerBase.ts:1005` promises that a tool's session idles
  out, is evicted or is taken by `shutdown()`. `registerOwned`
  (`tools/toolSessions.ts:336`) sweeps before it looks for the row a call
  touches. A call that reuses a session nobody used for `idleMs` sweeps that very
  session and files a new row for it; the call goes on with a session that is
  being stopped, and the session the *next* call opens finds its key taken, so
  that its own end is never registered: nothing will stop it.

Four more were met while modelling and have a definition but no run of their
own:

- `hosting/standingAgent.ts:795` says that counting at admission keeps
  a burst from being decided against a window none of it had joined. The window is
  read (`:777`) before the policy is awaited (`:774`), and the turn is counted after
  (`:799`): two requests of one caller whose decisions overlap are decided on the
  same window, with a slow policy easily and with `turnsPerHour` when both arrive in
  one turn of the event loop. How far the limit is exceeded at most is
  `OverByItsBurst`, and for a burst of `n` `BurstIsBounded`. `Admission!CeilingHolds`
  as an invariant of `Ceiling`.
- `hosting/durability.ts:142` says that the store "did not accept this run's
  progress". The writer is the lane's and its `failure` is cleared only by a
  write that lands: the next request, of another session, fails for it.
  `DurableWriter!FailsForItself` as a property of `Writer` with four runs.
- `hosting/types.ts:1775` says the pool "comes back under the bound as soon as a
  run finishes"; eviction happens when a session without a lane arrives
  (`standingAgent.ts:591` says so). `LanePool!IdleBounded` as an invariant of
  `Pool`. What does hold of its size is `RoomIsMade` and `PoolIsBounded`.
- A client that `terminate` named while it opened, and that opens after the wait
  of terminate is over, is idle, closed to new leases and not ended until the
  next sweep finds it idle: `endNow` (`mcp/pool/pool.ts:969`) passes over what is
  not open. `McpPool!NamedIsEnded` as an invariant of `McpPool`; that it is the only way
  is `NamedAreEnded`.

## Not modelled

The engine (footprintjs) is outside the repository: of it the modules assume
that a run executes, pauses, completes, fails or is aborted. HTTP, WebSocket,
SSE and MCP framing, providers and stores are I/O behind interfaces: the store
and the shared ledger appear as what may answer, refuse, or throw having done
its work. Recorders, views, integrity checks, retrieval and prompt assembly
change nothing that a run decides and share no state between runs. In
`standingAgent.ts` itself the shape of replies, titles, sealed questions and
measured usage are left out. Of the MCP pool the tool lists are left out (what a
client lists, what two clients share of it, the permission a bound tool is
checked against): they are read within one lease and change no client's life.
Of the tier of tool sessions the registrations that have no owner are left out,
which an MCP *server* makes for its own calls (`register`, `fireCall`, `fireRun`):
they have no borrow and no pause. Of sign-in the store of sign-ins, sealing,
cookies and the redirect doors are left out: conversions around one lookup, with no
attempt to count. Of the exporters everything but the outbox is a
format.

## Plan

In the order of what is left:

1. `CircuitBreaker` — `resilience/withCircuitBreaker.ts`: late results of calls
   admitted in an earlier state; a half-open breaker that lets everybody in.
2. `Stream` — `hosting/stream.ts`: a queue and one waiter.
3. A composition of `LanePool` with two lanes' `DurableWriter`.
