---------------------------- MODULE HostedConsent ----------------------------
(***************************************************************************)
(* One hosted session whose run pauses to ask a person whether a tool call *)
(* may run, and everything that may happen to that question afterwards:    *)
(* answers and new messages at several processes that serve the session,   *)
(* aborted requests whose stage goes on, ledgers that throw with or        *)
(* without recording, stores that refuse, redeploys and restarts.          *)
(*                                                                         *)
(* The door is hosting/standingAgent.ts, what it does about a failed       *)
(* answer is hosting/answeredPause.ts, and the request, its ledger and the *)
(* proof that its call never ran are core/consentRequest.ts and            *)
(* core/consentLedger.ts.                                                  *)
(***************************************************************************)
EXTENDS Naturals, FiniteSets

CONSTANTS
  Process,      \* operating-system processes
  Door,         \* hosted agents that serve the session
  HostOf,       \* the process each door lives in
  Request,      \* consent requests the session's runs may mint
  Turn,         \* requests handed to a door: messages and decisions
  None,         \* "no request", "not minted"
  AskGate,      \* the requests a middleware ask mints (the others: a check-in)
  Rules,        \* versions of an agent's middleware chain
  Carrier,      \* formats of a saved pause
  Build,        \* what a door may be deployed with: ledger, rules, carrier
  StoreIsLocal, \* the session store is a process's memory
  Progress,     \* the composer has a durable writer (durability # 'exit')
  MaxRestarts,  \* bound: restarts and redeploys
  MaxFaults     \* bound: aborts, refusals of a store, throws of a ledger

ASSUME NoneAssumption == None \notin Request /\ None \notin Door
ASSUME HostAssumption == HostOf \in [Door -> Process]
ASSUME GateAssumption == AskGate \subseteq Request
ASSUME BoundAssumption == MaxRestarts \in Nat /\ MaxFaults \in Nat
ASSUME BuildAssumption ==
  Build \subseteq [ledger : {"store", "process", "own"}, rules : Rules, carrier : Carrier]
\* A store in a process's memory is reached by the doors of that process alone.
ASSUME StoreAssumption ==
  /\ StoreIsLocal \in BOOLEAN
  /\ Progress \in BOOLEAN
  /\ StoreIsLocal => \A d, e \in Door : HostOf[d] = HostOf[e]

VARIABLES
  build,     \* what each door is deployed with
  life,      \* how often each process was restarted
  receipts,  \* per process: the closes it witnessed (rememberLocalClose)
  heard,     \* per turn: the turns whose use its watch recorded (watchDecisionUse)
  pending,   \* per request: what its pause recorded (PendingRequest), and who asked
  spent,     \* what the ledgers recorded
  wire,      \* spends handed to a shared ledger that it has not applied yet
  stored,    \* the session's envelope
  turn,      \* the requests at the doors, and the stages they left running
  ran,       \* the turns that executed the call their decision approved
  faults     \* how many faults happened, against MaxFaults

vars == <<build, life, receipts, heard, pending, spent, wire, stored, turn, ran, faults>>
memory == <<build, life, receipts, heard>>

-----------------------------------------------------------------------------
(* Data                                                                    *)

\* What a conversation says of the call a request was about. "notRun" and
\* "declined" are the claims that it never ran.
Outcome == {"absent", "open", "result", "declined", "unknown", "notRun"}

Conversation == [Request -> Outcome]

NewConversation == [q \in Request |-> "absent"]

\* A stored envelope. "waiting" and "answered" are paused runs, before and
\* after the mark; `asked` is the request a paused run asked.
Envelope == [format : {"nothing", "conversation", "waiting", "answered"},
             asked : Request \cup {None}, conv : Conversation]

NoEnvelope == [format |-> "nothing", asked |-> None, conv |-> NewConversation]
ConversationEnvelope(c) == [format |-> "conversation", asked |-> None, conv |-> c]

\* A ledger: the shared store's, the one a process makes for every agent that
\* names none, or an agent's own. A restart replaces the last two.
SharedLedger == [kind |-> "store", at |-> None, life |-> 0]
ProcessLedger(p) == [kind |-> "process", at |-> p, life |-> life[p]]
OwnLedger(d) == [kind |-> "own", at |-> d, life |-> life[HostOf[d]]]

LedgerOf(d) == IF build[d].ledger = "store" THEN SharedLedger
               ELSE IF build[d].ledger = "process" THEN ProcessLedger(HostOf[d])
               ELSE OwnLedger(d)

\* A ledger made by inMemoryDecisionLedger has no identity of its own.
NoIdentity == [kind |-> "own", at |-> None, life |-> 0]
IdentityOf(d) == IF build[d].ledger = "own" THEN NoIdentity ELSE LedgerOf(d)

\* The library issued every ledger but the shared one: it can read them.
Issued(d) == build[d].ledger # "store"

\* What a ledger recorded: the request itself, spent for a decision or by a
\* closing door, or the marker of the close. `by` and the kind of decision
\* are the model's own bookkeeping; the code reads the key alone.
KeyOf(use) == IF use = "marker" THEN "marker" ELSE "request"

Spent(l, q) == \E e \in spent : e.ledger = l /\ e.request = q /\ KeyOf(e.use) = "request"
Marked(l, q) == \E e \in spent : e.ledger = l /\ e.request = q /\ KeyOf(e.use) = "marker"

\* Mutant: a ledger records every decision, and not every request, once.
MutantRecorded(w) == w \in spent

Recorded(w) == \E e \in spent : /\ e.ledger = w.ledger
                                /\ e.request = w.request
                                /\ KeyOf(e.use) = KeyOf(w.use)

Spend(t, use, q) ==
  [ledger |-> LedgerOf(turn[t].door), request |-> q, use |-> use, by |-> t]

-----------------------------------------------------------------------------
(* What a door can say about a request                                     *)

\* `door`, the one whose run asked, is the model's own bookkeeping.
NotMinted == [minted |-> FALSE, ledger |-> NoIdentity, rules |-> None, carrier |-> None,
              door |-> None]
Minted(q) == pending[q].minted
Identified(q) == pending[q].ledger # NoIdentity

CarrierUnreadable(d, q) == build[d].carrier # pending[q].carrier
ChainChanged(d, q) == q \in AskGate /\ build[d].rules # pending[q].rules

\* Minted in another process's memory, or in an earlier life of this one.
ForeignMemory(d, q) ==
  /\ pending[q].ledger.kind = "process"
  /\ pending[q].ledger # ProcessLedger(HostOf[d])

SpentElsewhere(d, q) ==
  Identified(q) /\ ~ForeignMemory(d, q) /\ IdentityOf(d) # pending[q].ledger

RequestRefusal(d, q) == ChainChanged(d, q) \/ SpentElsewhere(d, q)
Unanswerable(d, q) == CarrierUnreadable(d, q) \/ RequestRefusal(d, q)

\* The ledger of d may prove that the call of q never ran.
Proving(d, q) ==
  /\ Identified(q)
  /\ IdentityOf(d) = pending[q].ledger
  /\ pending[q].ledger.kind = "process" => StoreIsLocal

LocalClose(d, q) == ~Issued(d) /\ q \in receipts[HostOf[d]]

CloseRecorded(d, q) == (Issued(d) /\ Marked(LedgerOf(d), q)) \/ LocalClose(d, q)
KnownSpent(d, q) == (Issued(d) /\ Spent(LedgerOf(d), q)) \/ LocalClose(d, q)

-----------------------------------------------------------------------------
(* Conversations                                                           *)

Settle(c, outcome) == [q \in Request |-> IF c[q] = "open" THEN outcome ELSE c[q]]

\* settleOpenCalls: the paused call as `outcome`, every other one as unknown.
SettleCall(c, asked, outcome) ==
  [q \in Request |-> IF c[q] # "open" THEN c[q]
                     ELSE IF q = asked THEN outcome ELSE "unknown"]

Waiting(e, q) == e.format = "waiting" /\ e.asked = q

\* Mutant: any failed decline counts, whatever the ledger answered it.
MutantAnyDecline(t) == ~turn[t].approved

\* Whether the watch of t saw a decline spent, and no approval tried.
SpentAsDecline(t) ==
  /\ \E u \in heard[t] : turn[u].attempt = "spent" /\ ~turn[u].approved
  /\ \A u \in heard[t] : turn[u].attempt # "none" => ~turn[u].approved

\* Mutant: the mark keeps the format of a pause that waits.
MutantMarkStillWaits(t, c) ==
  [format |-> "waiting", asked |-> turn[t].held.asked,
   conv |-> SettleCall(c, turn[t].held.asked, "unknown")]

MarkAnswered(t, c) ==
  LET asked == turn[t].held.asked IN
  [format |-> "answered", asked |-> asked,
   conv |-> SettleCall(c, asked, IF SpentAsDecline(t) THEN "declined" ELSE "unknown")]

-----------------------------------------------------------------------------
(* Turns                                                                   *)

\* A request at a door. `step` is where the door is; `leg` is where the stage
\* that was handed the decision is, which may go on after the door ended.
Idle == [kind |-> "none", door |-> None, request |-> None, approved |-> FALSE,
         step |-> "idle", leg |-> "none", aborted |-> FALSE, attempt |-> "none",
         knownSpent |-> FALSE, refusal |-> FALSE, storeFailed |-> FALSE,
         unread |-> FALSE,
         held |-> NoEnvelope, conv |-> NewConversation, out |-> NoEnvelope]

Ended == {"idle", "done", "dead"}

\* Mutant: a door without lanes.
MutantNoLane(d) == FALSE

\* A door answers one request of the session at a time (its lane).
Busy(d) == \E t \in Turn : turn[t].door = d /\ turn[t].step \notin Ended

At(t, step) == turn[t].step = step
Leg(t, leg) == turn[t].leg = leg

Becomes(t, record) == turn' = [turn EXCEPT ![t] = record]
Goes(t, step) == Becomes(t, [turn[t] EXCEPT !.step = step])
LegGoes(t, leg) == Becomes(t, [turn[t] EXCEPT !.leg = leg])

\* Mutant: the refusal of the ledger never reaches the door.
MutantUnheard(t) == turn[t].step

\* Where the door is once its stage failed: a door that stopped waiting on
\* the stage (an abort) does not learn of it.
Failed(t) == IF At(t, "resume") THEN "watch" ELSE turn[t].step

Fault == faults < MaxFaults /\ faults' = faults + 1

Init ==
  /\ build \in [Door -> Build]
  /\ life = [p \in Process |-> 0]
  /\ receipts = [p \in Process |-> {}]
  /\ heard = [t \in Turn |-> {}]
  /\ pending = [q \in Request |-> NotMinted]
  /\ spent = {}
  /\ wire = {}
  /\ stored = NoEnvelope
  /\ turn = [t \in Turn |-> Idle]
  /\ ran = {}
  /\ faults = 0

-----------------------------------------------------------------------------
(* The door: reading the session (answerOne)                               *)

Message(t, d) ==
  /\ At(t, "idle") /\ ~Busy(d)
  /\ Becomes(t, [turn[t] EXCEPT !.kind = "message", !.door = d, !.step = "read"])
  /\ UNCHANGED <<memory, pending, spent, wire, stored, ran, faults>>

\* A decision names a request some pause asked, this one's or an older one's.
Decision(t, d, q, approved) ==
  /\ At(t, "idle") /\ ~Busy(d)
  /\ Minted(q)
  /\ Becomes(t, [turn[t] EXCEPT !.kind = "decision", !.door = d, !.step = "read",
                                  !.request = q, !.approved = approved])
  /\ UNCHANGED <<memory, pending, spent, wire, stored, ran, faults>>

ReadFails(t) ==
  /\ At(t, "read")
  /\ Fault
  /\ Goes(t, "done")
  /\ UNCHANGED <<memory, pending, spent, wire, stored, ran>>

\* A message continues a conversation or an answered pause, is refused over a
\* pause somebody can still answer, and closes one nobody can.
ReadForMessage(t) ==
  /\ At(t, "read") /\ turn[t].kind = "message"
  /\ Becomes(t, [turn[t] EXCEPT !.held = stored, !.conv = stored.conv,
       !.step = IF stored.format # "waiting" THEN "run"
                ELSE IF Unanswerable(turn[t].door, stored.asked) THEN "prove"
                ELSE "done"])
  /\ UNCHANGED <<memory, pending, spent, wire, stored, ran, faults>>

\* A decision resumes the pause still waiting. One whose saved carrier this
\* build cannot read is closed, and anything else waits for no decision.
ReadForDecision(t) ==
  /\ At(t, "read") /\ turn[t].kind = "decision"
  /\ IF stored.format # "waiting" THEN Goes(t, "done")
     ELSE LET readable == ~CarrierUnreadable(turn[t].door, stored.asked) IN
          Becomes(t, [turn[t] EXCEPT !.held = stored, !.conv = stored.conv,
                       !.step = IF readable THEN "resume" ELSE "prove",
                       !.leg = IF readable THEN "check" ELSE "none"])
  /\ UNCHANGED <<memory, pending, spent, wire, stored, ran, faults>>

-----------------------------------------------------------------------------
(* The resumed stage: held to the request, spent once, then run            *)

\* The watch u's door opened sees what t does about their request: a door keeps
\* one for each answer it hands over, for the answers of its process.
Watches(u, t) ==
  /\ turn[u].kind = "decision" /\ turn[u].step \in {"resume", "deliver", "watch", "markRead"}
  /\ turn[u].held.asked = turn[t].held.asked
  /\ HostOf[turn[u].door] = HostOf[turn[t].door]

HeardOf(t) == [u \in Turn |-> IF Watches(u, t) THEN heard[u] \cup {t} ELSE heard[u]]

\* checkDecisionAgainst and refuseKnownSpentAnswer, before anything moves.
CheckDecision(t) ==
  LET d == turn[t].door
      q == turn[t].held.asked
      other == turn[t].request # q
      refused == ~other /\ RequestRefusal(d, q)
      known == ~other /\ ~refused /\ KnownSpent(d, q)
      holds == ~(other \/ refused \/ known)
  IN /\ Leg(t, "check") /\ ~turn[t].aborted
     /\ Becomes(t, [turn[t] EXCEPT !.refusal = refused, !.knownSpent = known,
                                !.leg = IF holds THEN "held" ELSE "gone",
                                !.step = IF holds THEN @ ELSE "watch"])
     /\ heard' = IF known THEN HeardOf(t) ELSE heard
     /\ UNCHANGED <<build, life, receipts, pending, spent, wire, stored, ran, faults>>

\* A ledger in memory records at once, the shared one when it applies it.
Send(w) ==
  IF w.ledger.kind = "store"
  THEN wire' = wire \cup {w} /\ UNCHANGED spent
  ELSE /\ spent' = IF Recorded(w) THEN spent ELSE spent \cup {w}
       /\ UNCHANGED wire

Apply(w) ==
  /\ w \in wire
  /\ wire' = wire \ {w}
  /\ spent' = IF Recorded(w) THEN spent ELSE spent \cup {w}
  /\ UNCHANGED <<memory, pending, stored, turn, ran, faults>>

DecisionSpend(t) ==
  Spend(t, IF turn[t].approved THEN "approve" ELSE "decline", turn[t].held.asked)

SpendDecision(t) ==
  /\ Leg(t, "held") /\ ~turn[t].aborted
  /\ Send(DecisionSpend(t))
  /\ Becomes(t, [turn[t] EXCEPT !.leg = "spending", !.attempt = "unanswered"])
  /\ heard' = HeardOf(t)
  /\ UNCHANGED <<build, life, receipts, pending, stored, ran, faults>>

\* The spend answered `true`: this decision is the one. A run aborted
\* meanwhile goes no further, and a decline is what the model reads.
SpendWon(t) ==
  LET next == IF turn[t].aborted THEN "gone"
              ELSE IF turn[t].approved THEN "won" ELSE "settled"
  IN /\ Leg(t, "spending") /\ DecisionSpend(t) \in spent
     /\ Becomes(t, [turn[t] EXCEPT !.attempt = "spent", !.leg = next,
          !.conv = IF next = "settled" THEN [@ EXCEPT ![turn[t].held.asked] = "declined"]
                   ELSE @])
     /\ UNCHANGED <<memory, pending, spent, wire, stored, ran, faults>>

SpendRefused(t) ==
  /\ Leg(t, "spending") /\ DecisionSpend(t) \notin spent \cup wire
  /\ Becomes(t, [turn[t] EXCEPT !.attempt = "refused", !.leg = "gone", !.step = Failed(t)])
  /\ UNCHANGED <<memory, pending, spent, wire, stored, ran, faults>>

\* The shared ledger throws: it may have recorded the spend, may do so yet,
\* or never.
SpendThrows(t) ==
  /\ Leg(t, "spending") /\ ~Issued(turn[t].door)
  /\ Fault
  /\ Becomes(t, [turn[t] EXCEPT !.attempt = "failed", !.leg = "gone", !.step = Failed(t)])
  /\ UNCHANGED <<memory, pending, spent, wire, stored, ran>>

Execute(t) ==
  /\ Leg(t, "won") /\ ~turn[t].aborted
  /\ ran' = ran \cup {t}
  /\ LegGoes(t, "executing")
  /\ UNCHANGED <<memory, pending, spent, wire, stored, faults>>

\* Mutant: a stage that was left behind goes on to commit to its run.
MutantSettledAborted(t) ==
  /\ Leg(t, "executing") \/ (Leg(t, "won") /\ ~turn[t].aborted)
  /\ Becomes(t, [turn[t] EXCEPT !.leg = "settled", !.conv[turn[t].held.asked] = "result"])
  /\ UNCHANGED <<memory, pending, spent, wire, stored, ran, faults>>

\* The call returned, or the rest of the chain denied it: the run records it.
CallSettled(t) ==
  /\ Leg(t, "executing") \/ (Leg(t, "won") /\ ~turn[t].aborted)
  /\ IF turn[t].aborted THEN LegGoes(t, "gone")
     ELSE Becomes(t, [turn[t] EXCEPT !.leg = "settled", !.conv[turn[t].held.asked] = "result"])
  /\ UNCHANGED <<memory, pending, spent, wire, stored, ran, faults>>

\* The resumed run throws, before its decision is used or after.
ResumeFails(t) ==
  /\ At(t, "resume") /\ turn[t].leg \in {"held", "won", "settled"}
  /\ Becomes(t, [turn[t] EXCEPT !.leg = "gone", !.step = "watch"])
  /\ UNCHANGED <<memory, pending, spent, wire, stored, ran, faults>>

\* The caller hangs up. The engine stops waiting on the stage, which goes on.
Abort(t) ==
  /\ At(t, "resume")
  /\ Fault
  /\ Becomes(t, [turn[t] EXCEPT !.aborted = TRUE, !.step = "watch",
                                  !.leg = IF @ = "settled" THEN "gone" ELSE @])
  /\ UNCHANGED <<memory, pending, spent, wire, stored, ran>>

\* refuseIfAborted and runEndedBy: the stage of an aborted run stops.
StageStops(t) ==
  /\ turn[t].aborted /\ turn[t].leg \in {"check", "held", "won"}
  /\ LegGoes(t, "gone")
  /\ UNCHANGED <<memory, pending, spent, wire, stored, ran, faults>>

-----------------------------------------------------------------------------
(* The run's end, and what the door stores of it (deliver)                 *)

Runs(t) == At(t, "run") \/ (At(t, "resume") /\ Leg(t, "settled"))

RunCompletes(t) ==
  /\ Runs(t)
  /\ Becomes(t, [turn[t] EXCEPT !.step = "deliver", !.leg = "none",
                                  !.out = ConversationEnvelope(turn[t].conv)])
  /\ UNCHANGED <<memory, pending, spent, wire, stored, ran, faults>>

\* The run pauses to ask about another call (mintConsentRequest).
RunPauses(t, q) ==
  LET d == turn[t].door
      c == [turn[t].conv EXCEPT ![q] = "open"]
  IN /\ Runs(t)
     /\ ~Minted(q)
     /\ pending' = [pending EXCEPT ![q] =
          [minted |-> TRUE, ledger |-> IdentityOf(d), rules |-> build[d].rules,
           carrier |-> build[d].carrier, door |-> d]]
     /\ Becomes(t, [turn[t] EXCEPT !.step = "deliver", !.leg = "none", !.conv = c,
                                     !.out = [format |-> "waiting", asked |-> q, conv |-> c]])
     /\ UNCHANGED <<memory, spent, wire, stored, ran, faults>>

RunThrows(t) ==
  /\ At(t, "run")
  /\ Goes(t, "done")
  /\ UNCHANGED <<memory, pending, spent, wire, stored, ran, faults>>

\* A durable writer stores the conversation a run has committed so far.
\* The door drains it (settle) before anything it writes itself.
ProgressLands(t) ==
  /\ Progress
  /\ \/ At(t, "run")
     \/ /\ turn[t].step \in {"resume", "watch"} /\ ~Leg(t, "none")
        /\ turn[t].conv[turn[t].held.asked] # "open"
  /\ stored' = ConversationEnvelope(turn[t].conv)
  /\ UNCHANGED <<memory, pending, spent, wire, turn, ran, faults>>

Persist(t, step) ==
  /\ stored' = turn[t].out
  /\ Goes(t, step)
  /\ UNCHANGED <<memory, pending, spent, wire, ran, faults>>

\* A store that throws may have taken the write.
PersistFails(t, step) ==
  /\ Fault
  /\ stored' \in {stored, turn[t].out}
  /\ Becomes(t, [turn[t] EXCEPT !.step = step, !.storeFailed = TRUE])
  /\ UNCHANGED <<memory, pending, spent, wire, ran>>

Deliver(t) ==
  /\ At(t, "deliver")
  /\ \/ Persist(t, "done")
     \/ PersistFails(t, IF turn[t].kind = "message" THEN "done" ELSE "watch")

-----------------------------------------------------------------------------
(* After a failed answer (afterFailedAnswer)                               *)

\* Mutant: only a spend that was won counts as a use.
MutantUsedIfWon(t, used) ==
  used <=> \E u \in heard[t] : turn[u].knownSpent \/ turn[u].attempt = "spent"

\* What the watch answers (mayHaveBeenUsed). A spend that failed is asked of
\* its ledger again; anything but a read that it is not there counts as used.
MayHaveBeenUsed(t, used) ==
  IF used THEN heard[t] # {}
  ELSE \A u \in heard[t] : /\ turn[u].attempt = "failed"
                           /\ ~Spent(LedgerOf(turn[u].door), turn[t].held.asked)

AfterFailedAnswer(t) ==
  LET d == turn[t].door
      q == turn[t].held.asked
      closed == Proving(d, q) /\ CloseRecorded(d, q)
  IN /\ At(t, "watch")
     /\ \E used \in BOOLEAN :
          /\ MayHaveBeenUsed(t, used)
          /\ Goes(t, IF used /\ ~closed THEN "markRead"
                     ELSE IF used \/ turn[t].refusal THEN "closeRead"
                     ELSE "done")
     /\ UNCHANGED <<memory, pending, spent, wire, stored, ran, faults>>

\* What the store holds decides what the mark goes on from; a store that
\* cannot be read is marked anyway, and an expired session is left alone.
MarkRead(t) ==
  LET q == turn[t].held.asked
      keep == \/ stored.format \in {"nothing", "answered"}
              \/ stored.format = "waiting" /\ stored.asked # q
      from == IF stored.format = "conversation" THEN stored.conv ELSE turn[t].held.conv
  IN /\ At(t, "markRead")
     /\ \/ /\ UNCHANGED faults
           /\ IF keep THEN Goes(t, "done")
              ELSE Becomes(t, [turn[t] EXCEPT !.step = "markWrite",
                                              !.out = MarkAnswered(t, from)])
        \/ /\ Fault
           /\ Becomes(t, [turn[t] EXCEPT !.step = "markWrite", !.unread = TRUE,
                                           !.out = MarkAnswered(t, turn[t].held.conv)])
     /\ UNCHANGED <<memory, pending, spent, wire, stored, ran>>

MarkWrite(t) ==
  /\ At(t, "markWrite")
  /\ Persist(t, "done") \/ PersistFails(t, "done")

\* closeUnanswerable: only over the same pause, still waiting.
CloseRead(t) ==
  /\ At(t, "closeRead")
  /\ \/ /\ IF Waiting(stored, turn[t].held.asked)
           THEN Becomes(t, [turn[t] EXCEPT !.conv = stored.conv, !.step = "prove"])
           ELSE Goes(t, "done")
        /\ UNCHANGED faults
     \/ /\ Fault
        /\ Becomes(t, [turn[t] EXCEPT !.step = "done", !.storeFailed = TRUE])
  /\ UNCHANGED <<memory, pending, spent, wire, stored, ran>>

-----------------------------------------------------------------------------
(* Closing a pause nobody can answer (closedConversation, proveNeverRan)   *)

CloseSpend(t) == Spend(t, "close", turn[t].held.asked)
MarkerSpend(t) == Spend(t, "marker", turn[t].held.asked)

\* What closing turn t to outcome does: the message goes on, a decision's
\* door stores the closed conversation.
Closed(t, outcome) ==
  LET c == Settle(turn[t].conv, outcome) IN
  Becomes(t, [turn[t] EXCEPT !.conv = c,
                             !.step = IF turn[t].kind = "message" THEN "run" ELSE "closeWrite",
                             !.out = ConversationEnvelope(c)])

ProveNeverRan(t) ==
  /\ At(t, "prove")
  /\ IF Proving(turn[t].door, turn[t].held.asked)
     THEN Send(CloseSpend(t)) /\ Goes(t, "proving")
     ELSE Closed(t, "unknown") /\ UNCHANGED <<spent, wire>>
  /\ UNCHANGED <<memory, pending, stored, ran, faults>>

\* Won: no decision reached the ledger and none ever can. The marker that
\* says so is spent next.
CloseWon(t) ==
  /\ At(t, "proving") /\ CloseSpend(t) \in spent
  /\ Send(MarkerSpend(t))
  /\ Goes(t, "marking")
  /\ UNCHANGED <<memory, pending, stored, ran, faults>>

\* Mutant: a close the ledger refused is taken for one it accepted.
MutantLostIsWon(t) ==
  /\ At(t, "proving") /\ CloseSpend(t) \notin spent \cup wire
  /\ Closed(t, "notRun")
  /\ UNCHANGED <<memory, pending, spent, wire, stored, ran, faults>>

CloseLost(t) ==
  /\ At(t, "proving") /\ CloseSpend(t) \notin spent \cup wire
  /\ Closed(t, IF CloseRecorded(turn[t].door, turn[t].held.asked) THEN "notRun" ELSE "unknown")
  /\ UNCHANGED <<memory, pending, spent, wire, stored, ran, faults>>

CloseThrows(t) ==
  /\ At(t, "proving") /\ ~Issued(turn[t].door)
  /\ Fault
  /\ Closed(t, "unknown")
  /\ UNCHANGED <<memory, pending, spent, wire, stored, ran>>

\* The marker landed, or not, which costs a retry its proof and no more.
CloseMarked(t) ==
  LET d == turn[t].door
      landed == MarkerSpend(t) \in spent
  IN /\ At(t, "marking") /\ MarkerSpend(t) \notin wire
     /\ receipts' = IF landed /\ ~Issued(d)
                    THEN [receipts EXCEPT ![HostOf[d]] = @ \cup {turn[t].held.asked}]
                    ELSE receipts
     /\ Closed(t, "notRun")
     /\ UNCHANGED <<build, life, heard, pending, spent, wire, stored, ran, faults>>

MarkerThrows(t) ==
  /\ At(t, "marking") /\ ~Issued(turn[t].door)
  /\ Fault
  /\ Closed(t, "notRun")
  /\ UNCHANGED <<memory, pending, spent, wire, stored, ran>>

CloseWrite(t) ==
  /\ At(t, "closeWrite")
  /\ Persist(t, "done") \/ PersistFails(t, "done")

-----------------------------------------------------------------------------
(* The world                                                               *)

\* A process stops, and its doors come back with what they are redeployed
\* with. What it held in memory is gone: its turns, its stages, its receipts,
\* its ledgers, and the sessions when it keeps those (and its watches, which
\* nobody asks any more).
Restart(p) ==
  /\ life[p] < MaxRestarts
  /\ build' \in {f \in [Door -> Build] : \A d \in Door : HostOf[d] # p => f[d] = build[d]}
  /\ life' = [life EXCEPT ![p] = @ + 1]
  /\ receipts' = [receipts EXCEPT ![p] = {}]
  /\ turn' = [t \in Turn |->
       IF turn[t].step = "idle" \/ HostOf[turn[t].door] # p THEN turn[t]
       ELSE [turn[t] EXCEPT !.leg = "gone",
                            !.step = IF @ = "done" THEN "done" ELSE "dead"]]
  /\ stored' = IF StoreIsLocal THEN NoEnvelope ELSE stored
  /\ UNCHANGED <<heard, pending, spent, wire, ran, faults>>

\* A retention sweep forgets the session.
Expire ==
  /\ stored # NoEnvelope
  /\ Fault
  /\ stored' = NoEnvelope
  /\ UNCHANGED <<memory, pending, spent, wire, turn, ran>>

\* The bounded map of close receipts drops its oldest.
Evict(p, q) ==
  /\ q \in receipts[p]
  /\ Fault
  /\ receipts' = [receipts EXCEPT ![p] = @ \ {q}]
  /\ UNCHANGED <<build, life, heard, pending, spent, wire, stored, turn, ran>>

-----------------------------------------------------------------------------

Arrive(t) ==
  \E d \in Door : \/ Message(t, d)
                  \/ \E q \in Request, b \in BOOLEAN : Decision(t, d, q, b)

StageStep(t) ==
  \/ CheckDecision(t) \/ SpendDecision(t) \/ SpendWon(t) \/ SpendRefused(t)
  \/ Execute(t) \/ CallSettled(t) \/ StageStops(t)

DoorStep(t) ==
  \/ ReadForMessage(t) \/ ReadForDecision(t)
  \/ RunCompletes(t) \/ Deliver(t)
  \/ AfterFailedAnswer(t) \/ MarkRead(t) \/ MarkWrite(t)
  \/ CloseRead(t) \/ ProveNeverRan(t) \/ CloseWon(t) \/ CloseLost(t)
  \/ CloseMarked(t) \/ CloseWrite(t)

\* What a turn may do and need not.
Otherwise(t) ==
  \/ ReadFails(t) \/ SpendThrows(t) \/ ResumeFails(t) \/ Abort(t)
  \/ RunThrows(t) \/ ProgressLands(t) \/ CloseThrows(t) \/ MarkerThrows(t)
  \/ \E q \in Request : RunPauses(t, q)

World ==
  \/ \E w \in wire : Apply(w)
  \/ \E p \in Process : Restart(p)
  \/ \E p \in Process, q \in Request : Evict(p, q)
  \/ Expire

Next ==
  \/ \E t \in Turn : Arrive(t) \/ StageStep(t) \/ DoorStep(t) \/ Otherwise(t)
  \/ World

Spec == Init /\ [][Next]_vars

-----------------------------------------------------------------------------
(* Properties                                                              *)

Ledger == [kind : {"store", "process", "own"}, at : Door \cup Process \cup {None}, life : Nat]

Use == {"approve", "decline", "close", "marker"}

Entry == [ledger : Ledger, request : Request, use : Use, by : Turn]

Kind == {"none", "message", "decision"}
Step == {"read", "resume", "run", "deliver", "watch", "markRead", "markWrite", "closeRead",
         "prove", "proving", "marking", "closeWrite"} \cup Ended
StageLeg == {"none", "check", "held", "spending", "won", "executing", "settled", "gone"}
Attempt == {"none", "unanswered", "spent", "refused", "failed"}

TurnRecord ==
  [kind : Kind, door : Door \cup {None}, request : Request \cup {None}, approved : BOOLEAN,
   step : Step, leg : StageLeg, aborted : BOOLEAN, attempt : Attempt, knownSpent : BOOLEAN,
   refusal : BOOLEAN, storeFailed : BOOLEAN, unread : BOOLEAN,
   held : Envelope, conv : Conversation, out : Envelope]

\* Every variable holds what the code can put there.
TypeOK ==
  /\ build \in [Door -> Build]
  /\ life \in [Process -> Nat]
  /\ receipts \in [Process -> SUBSET Request]
  /\ heard \in [Turn -> SUBSET Turn]
  /\ pending \in [Request -> [minted : BOOLEAN, ledger : Ledger, rules : Rules \cup {None},
                              carrier : Carrier \cup {None}, door : Door \cup {None}]]
  /\ spent \subseteq Entry
  /\ wire \subseteq Entry
  /\ stored \in Envelope
  /\ turn \in [Turn -> TurnRecord]
  /\ ran \subseteq Turn
  /\ faults \in 0..MaxFaults

\* A conversation anywhere says o of the call q asked about: in the store, in
\* a run, or in what a door is about to store or stored before.
Says(q, o) ==
  \/ stored.conv[q] = o
  \/ \E t \in Turn : turn[t].conv[q] = o \/ turn[t].out.conv[q] = o

Ran(q) == {t \in ran : turn[t].held.asked = q}

\* "That call did not run" is only ever said of a call that never ran and
\* never will, however decisions, closes and redeploys interleave.
NotRunIsTrue == \A q \in Request : Says(q, "notRun") => Ran(q) = {}

\* One ledger takes every decision for q: a shared one with an identity, or
\* this process's, while no other process reaches the session.
OneLedger(q) ==
  /\ Minted(q) /\ Identified(q)
  /\ pending[q].ledger.kind = "process" => StoreIsLocal

\* Such a request runs its call at most once, over every door, restart and
\* redeploy that can resume it.
RunsOnce == \A q \in Request : OneLedger(q) => \A t, u \in Ran(q) : t = u

\* Its call, recorded as declined, never ran: a decline the ledger refused is
\* never recorded as one.
DeclinedIsTrue ==
  \A q \in Request : OneLedger(q) /\ Says(q, "declined") => Ran(q) = {}

\* A door that saw its decision taken to a ledger leaves no pause for it on
\* offer, unless the session store refused it.
UsedIsSettled ==
  \A t \in Turn :
    /\ turn[t].kind = "decision" /\ At(t, "done") /\ ~turn[t].storeFailed
    /\ turn[t].attempt \in {"spent", "refused"}
    => ~Waiting(stored, turn[t].held.asked)

\* A pause somebody settled, anywhere, is never offered for an answer again.
Offered(q) == Waiting(stored, q)
PauseNeverReopens ==
  [][\A q \in Request : Offered(q)' /\ ~Offered(q) =>
       \A o \in {"result", "declined", "unknown", "notRun"} : ~Says(q, o)]_vars

\* What a door writes about a pause it read never replaces a newer one, unless
\* that one is another door's.
Replaces(t) ==
  /\ turn[t].step \in {"markWrite", "closeWrite"} /\ ~turn[t].unread
  /\ turn'[t].step = "done" /\ stored' = turn[t].out
AskedElsewhere(t, q) == pending[q].door # turn[t].door
NewerPauseKept ==
  [][\A t \in Turn : Replaces(t) =>
       \A q \in Request : Offered(q) => q = turn[t].held.asked \/ AskedElsewhere(t, q)]_vars

\* What the comment on closeUnanswerable says of every door: it closes a
\* pause only over that same pause, never over a newer one.
ClosesItsPauseOnly ==
  [][\A t \in Turn :
       At(t, "closeWrite") /\ turn[t].refusal /\ turn'[t].step = "done"
         /\ stored' = turn[t].out
       => \A q \in Request : Offered(q) => q = turn[t].held.asked]_vars

\* What the shared ledger says of q, and who ran it: the abstract promise.
Verdict(q) ==
  LET uses == {e.use : e \in {f \in spent : f.ledger = SharedLedger /\ f.request = q}}
  IN IF uses \subseteq {"marker"} THEN "open" ELSE CHOOSE u \in uses : u # "marker"

Once == INSTANCE OneAnswer WITH
  verdict <- [q \in Request |-> Verdict(q)],
  by <- [q \in Request |-> IF Minted(q) /\ pending[q].ledger = SharedLedger
                          THEN Ran(q) ELSE {}]

\* A request minted under a shared ledger keeps that promise.
KeepsOneAnswer == Once!Spec

-----------------------------------------------------------------------------
(* Fairness: a process runs what became runnable, and what it awaits - its *)
(* stores, its ledger, the tool, the model - ends. Nobody has to arrive,   *)
(* to restart or to fail.                                                  *)

\* A spend is one call of the shared ledger: whatever else it has to do, it answers.
ApplySpend(t, use) == \E w \in wire : w.by = t /\ w.use = use /\ Apply(w)

StageFair(t) == WF_vars(StageStep(t))
DoorFair(t) == WF_vars(DoorStep(t))
LedgerFair(t, use) == WF_vars(ApplySpend(t, use))

Fairness == \A t \in Turn : /\ StageFair(t) /\ DoorFair(t)
                            /\ \A use \in Use : LedgerFair(t, use)

FairSpec == Spec /\ Fairness

\* Every request a door took is answered, or its process stopped; and the
\* stage a hang-up left behind stops too.
EveryTurnEnds == \A t \in Turn : At(t, "read") ~> turn[t].step \in {"done", "dead"}
EveryStageStops ==
  \A t \in Turn : turn[t].aborted ~> turn[t].leg \in {"none", "gone"}
=============================================================================
