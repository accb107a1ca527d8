-------------------------- MODULE HostedConsentProofs -------------------------
(***************************************************************************)
(* Proofs about HostedConsent, for every number of doors, processes,       *)
(* requests, turns, restarts and faults: type correctness, that "did not   *)
(* run" and "declined" are only said of calls that never run, that a       *)
(* request decided in one ledger runs its call at most once, and that a    *)
(* pause somebody settled or used is not on offer (FreshInv, UsedInv) and  *)
(* no door writes over a newer one of its own (OwnInv), that all this      *)
(* implements OneAnswer, and that every turn ends (MovesLeft).             *)
(*                                                                         *)
(* The argument: every spend of a request minted under a ledger that can   *)
(* prove goes to that ledger (LedgerInv, and the door's ledger in TurnInv),*)
(* a ledger records one spend per key, a run needs an approving spend, and *)
(* each claim in a conversation is backed by a closing or a declining one. *)
(***************************************************************************)
EXTENDS HostedConsent, TLAPS

-----------------------------------------------------------------------------
(* The inductive invariant                                                 *)

\* A spend with this use is recorded for q in the ledger it was minted under.
RecordedFor(q, use) ==
  \E e \in spent : e.use = use /\ e.request = q /\ e.ledger = pending[q].ledger

ClosedFor(q) == OneLedger(q) /\ RecordedFor(q, "close")
DeclinedFor(q) == Minted(q) /\ (OneLedger(q) => RecordedFor(q, "decline"))

\* What a conversation claims is backed by the ledger.
Backed(c) == \A q \in Request : /\ c[q] = "notRun" => ClosedFor(q)
                                /\ c[q] = "declined" => DeclinedFor(q)

Asks(e) == e.format \in {"waiting", "answered"} => e.asked \in Request /\ Minted(e.asked)

\* Only the call a pause waits on is open.
OpenOnly(c, r) == \A q \in Request : c[q] = "open" => q = r
NoneOpen(c) == \A q \in Request : c[q] # "open"
OpenAsked(e) == e.format # "waiting" => NoneOpen(e.conv)
OpenWaits(e) == e.format = "waiting" => OpenOnly(e.conv, e.asked)

\* A pause in a process's memory was minted in that process's present life.
Current(q) ==
  StoreIsLocal /\ pending[q].ledger.kind = "process" =>
    \A d \in Door : pending[q].ledger = ProcessLedger(HostOf[d])
CurrentPause(e) == e.format = "waiting" => Current(e.asked)

EnvelopeInv(e) == Backed(e.conv) /\ Asks(e) /\ OpenAsked(e) /\ OpenWaits(e)

StoredInv == EnvelopeInv(stored) /\ CurrentPause(stored)

DecisionUse == {"approve", "decline"}

EntryInv(e) ==
  /\ Minted(e.request)
  /\ OneLedger(e.request) => e.ledger = pending[e.request].ledger
  /\ e.use \in {"close", "marker"} => OneLedger(e.request)
  /\ e.use = "marker" => ClosedFor(e.request)
  /\ e.use \in DecisionUse =>
       /\ turn[e.by].held.asked = e.request
       /\ turn[e.by].step \notin {"idle", "read"}
       /\ turn[e.by].approved <=> e.use = "approve"

\* A ledger records a key once.
SpentOnce ==
  \A e, f \in spent : /\ e.ledger = f.ledger /\ e.request = f.request
                      /\ KeyOf(e.use) = KeyOf(f.use)
                      => e = f

LedgerInv ==
  /\ SpentOnce
  /\ \A e \in spent \cup wire : EntryInv(e)
  /\ \A h \in Process : \A q \in receipts[h] : ClosedFor(q)

PastCheck == {"held", "spending", "won", "executing", "settled"}
OnStage(r) == r.leg \in PastCheck \cup {"check"}
Asking == {"resume", "watch", "markRead", "markWrite", "closeRead", "prove", "proving", "marking"}
Writing == {"deliver", "markWrite", "closeWrite"}

HeldInv(r) ==
  /\ r.step # "idle" => r.door \in Door
  /\ OnStage(r) => r.step \notin {"idle", "read"} /\ r.kind = "decision"
  /\ OnStage(r) /\ ~r.aborted => r.step = "resume"
  /\ OnStage(r) \/ r.step \in Asking => r.held.format = "waiting" /\ Current(r.held.asked)
  /\ Asks(r.held)
  /\ r.step \in Writing => CurrentPause(r.out)
  /\ r.step = "run" => r.kind = "message"
  /\ r.step = "deliver" =>
       /\ r.leg = "none"
       /\ r.kind # "message" => r.held.format = "waiting" /\ Current(r.held.asked)

SaidInv(r) == Backed(r.conv) /\ Backed(r.held.conv) /\ EnvelopeInv(r.out)

\* Whoever is past the check spends where the request was minted.
SpendInv(r) ==
  /\ r.leg \in PastCheck /\ OneLedger(r.held.asked) =>
       LedgerOf(r.door) = pending[r.held.asked].ledger
  /\ r.step \in {"proving", "marking"} =>
       OneLedger(r.held.asked) /\ LedgerOf(r.door) = pending[r.held.asked].ledger
  /\ r.step = "marking" => ClosedFor(r.held.asked)

OpenInv(r) ==
  /\ r.step \in {"prove", "proving", "marking"} => OpenOnly(r.conv, r.held.asked)
  /\ r.step = "run" => NoneOpen(r.conv)
  /\ r.step \in {"resume", "watch"} /\ r.leg # "none" => OpenOnly(r.conv, r.held.asked)
  /\ r.leg = "settled" => r.step = "resume" /\ r.conv[r.held.asked] # "open"

Used(t, use) == \E e \in spent : e.by = t /\ e.use = use

RanInv(t, r) ==
  /\ t \in ran \/ r.leg \in {"won", "executing"} => Used(t, "approve")
  /\ r.attempt = "spent" => Used(t, "approve") \/ Used(t, "decline")
  /\ r.leg = "spending" \/ r.attempt # "none" => t \in heard[t]

RecordInv(t, r) == HeldInv(r) /\ SaidInv(r) /\ SpendInv(r) /\ OpenInv(r) /\ RanInv(t, r)
TurnInv(t) == RecordInv(t, turn[t])

\* Two turns that answer one request: what a watch recorded is about its own.
Hears(t, u) ==
  /\ u \in Turn /\ turn[u].held.asked = turn[t].held.asked
  /\ turn[t].step \notin {"idle", "read"} /\ turn[u].step \notin {"idle", "read"}

HeardInv == \A t \in Turn : \A u \in heard[t] : Hears(t, u)

IInv == TypeOK /\ StoredInv /\ LedgerInv /\ HeardInv /\ \A t \in Turn : TurnInv(t)

-----------------------------------------------------------------------------
(* What the ledgers, the pauses and the watches recorded is kept           *)

\* A watch records what it hears of its own request, and forgets nothing.
HeardMore ==
  \A t \in Turn : heard[t] \subseteq heard'[t] /\ \A u \in heard'[t] \ heard[t] : Hears(t, u)

Kept == /\ spent \subseteq spent'
        /\ \A q \in Request : Minted(q) => pending'[q] = pending[q]
        /\ HeardMore

\* What is known of a request stays known while no door changes: it is minted, one
\* ledger takes its decisions or not, it is closed for good.
LEMMA ClaimsKept ==
  ASSUME Kept
  PROVE  \A q \in Request : /\ Minted(q) => Minted(q)' /\ (OneLedger(q)' <=> OneLedger(q))
                            /\ ClosedFor(q) => ClosedFor(q)'
                            /\ DeclinedFor(q) => DeclinedFor(q)'
BY DEF Kept, Minted, OneLedger, Identified, ClosedFor, DeclinedFor, RecordedFor

-----------------------------------------------------------------------------
(* Frames: what a step of one turn leaves of the invariant                 *)

\* A turn whose door has ended, with no stage at work, holds on to nothing.
Quiet(r) == r.step \in Ended /\ ~OnStage(r)

\* The process a door runs in goes on, with the ledgers it has.
GoesOn(d) ==
  /\ \A q \in Request : Minted(q) => (Current(q) <=> Current(q)')
  /\ LedgerOf(d)' = LedgerOf(d)

\* Without a restart or a redeploy every door goes on with the ledger it had.
LEMMA NoRestart == ASSUME Kept, UNCHANGED <<build, life>>, NEW d PROVE GoesOn(d)
<1>1. \A q \in Request : Minted(q) => (Current(q) <=> Current(q)')
  BY DEF Kept, Current, ProcessLedger
<1>2. LedgerOf(d)' = LedgerOf(d)
  BY DEF LedgerOf, SharedLedger, ProcessLedger, OwnLedger
<1> QED BY <1>1, <1>2 DEF GoesOn

\* What a record says, holds and spends outlives every step that keeps what was
\* recorded.
LEMMA RecordGoesOn ==
  ASSUME Kept, NEW r, HeldInv(r), SaidInv(r), SpendInv(r), OpenInv(r), Quiet(r) \/ GoesOn(r.door)
  PROVE  HeldInv(r)' /\ SaidInv(r)' /\ SpendInv(r)' /\ OpenInv(r)'
<1>1. SaidInv(r)'
  BY ClaimsKept DEF SaidInv, Backed, EnvelopeInv, Asks, OpenAsked, OpenWaits, NoneOpen, OpenOnly
<1>2. OpenInv(r)'
  BY DEF OpenInv, OpenOnly, NoneOpen
<1>3. CASE Quiet(r)
  <2>1. HeldInv(r)'
    BY <1>3, ClaimsKept DEF HeldInv, Quiet, OnStage, Asks, Asking, Writing, Ended
  <2>2. SpendInv(r)'
    BY <1>3 DEF SpendInv, Quiet, OnStage, Ended
  <2> QED BY <1>1, <1>2, <2>1, <2>2
<1>4. CASE GoesOn(r.door)
  <2>1. HeldInv(r)'
    BY <1>4, ClaimsKept DEF HeldInv, SaidInv, EnvelopeInv, OnStage, Asks, CurrentPause, Asking, GoesOn
  <2>2. SpendInv(r)'
    BY <1>4, ClaimsKept DEF HeldInv, SpendInv, OnStage, Asks, Asking, Kept, GoesOn
  <2> QED BY <1>1, <1>2, <2>1, <2>2
<1> QED BY <1>3, <1>4

\* So does its whole invariant, while its call is not run by another.
LEMMA RecordKept ==
  ASSUME Kept, NEW t \in Turn, NEW r, RecordInv(t, r), Quiet(r) \/ GoesOn(r.door),
         t \in ran' => t \in ran \/ r.leg = "executing"
  PROVE  RecordInv(t, r)'
<1>1. HeldInv(r)' /\ SaidInv(r)' /\ SpendInv(r)' /\ OpenInv(r)'
  BY RecordGoesOn DEF RecordInv
<1>2. RanInv(t, r)'
  BY DEF RecordInv, RanInv, Used, Kept, HeardMore
<1> QED BY <1>1, <1>2 DEF RecordInv

\* A turn keeps what it held and what was decided once it is past its reading.
Keeps(s, r) ==
  s.step \notin {"idle", "read"} =>
    r.step \notin {"idle", "read"} /\ r.held = s.held /\ r.approved = s.approved

\* A ledger's entry stays right while the turns it names only move forward.
LEMMA EntryKept ==
  ASSUME Kept, NEW e \in Entry, EntryInv(e), \A u \in Turn : Keeps(turn[u], turn'[u])
  PROVE  EntryInv(e)'
<1>1. e.request \in Request /\ e.by \in Turn
  BY DEF Entry
<1>2. Minted(e.request) => pending'[e.request] = pending[e.request]
  BY <1>1 DEF Kept
<1>3. e.use \in DecisionUse => (/\ turn[e.by].held.asked = e.request
                               /\ turn[e.by].step \notin {"idle", "read"}
                               /\ (turn[e.by].approved <=> e.use = "approve"))'
  BY <1>1 DEF EntryInv, Keeps, DecisionUse
<1> QED BY <1>1, <1>2, <1>3, ClaimsKept DEF EntryInv

\* An envelope that is right when it is stored is a right stored envelope.
LEMMA StoredKept ==
  ASSUME Kept, UNCHANGED <<build, life>>, NEW e, EnvelopeInv(e), CurrentPause(e), stored' = e
  PROVE  StoredInv'
<1>1. \A q \in Request : Minted(q) => (Current(q) <=> Current(q)')
  BY NoRestart DEF GoesOn
<1> QED BY <1>1, ClaimsKept DEF StoredInv, EnvelopeInv, Asks, CurrentPause, Backed, OpenAsked,
                                OpenWaits, NoneOpen, OpenOnly

\* A step keeps the invariant when what it adds to each part does.
LEMMA AnyStep ==
  ASSUME IInv, TypeOK', Kept, \A u \in Turn : TurnInv(u)' /\ Keeps(turn[u], turn'[u]),
         StoredInv', SpentOnce',
         \A e \in spent' \cup wire' : e \in spent \cup wire \/ (e \in Entry /\ EntryInv(e)),
         \A h \in Process : \A q \in receipts'[h] : q \in receipts[h] \/ ClosedFor(q)
  PROVE  IInv'
<1>1. \A e \in spent' \cup wire' : EntryInv(e)'
  <2> SUFFICES ASSUME NEW e \in spent' \cup wire' PROVE EntryInv(e)'
    OBVIOUS
  <2>1. e \in Entry /\ EntryInv(e)
    BY DEF IInv, LedgerInv, TypeOK
  <2> QED BY <2>1, EntryKept
<1>2. \A h \in Process : \A q \in receipts'[h] : ClosedFor(q)'
  <2> SUFFICES ASSUME NEW h \in Process, NEW q \in receipts'[h] PROVE ClosedFor(q)'
    OBVIOUS
  <2>1. q \in Request /\ ClosedFor(q)
    BY DEF IInv, LedgerInv, TypeOK
  <2> QED BY <2>1, ClaimsKept
<1>3. HeardInv'
  <2> SUFFICES ASSUME NEW t \in Turn, NEW u \in heard'[t] PROVE Hears(t, u)'
    BY DEF HeardInv
  <2>1. Hears(t, u)
    BY DEF Kept, HeardMore, IInv, HeardInv
  <2> QED BY <2>1 DEF Hears, Keeps
<1> QED BY <1>1, <1>2, <1>3 DEF IInv, LedgerInv

\* A step that leaves the turns alone keeps what is known of each of them.
LEMMA NoTurnSteps ==
  ASSUME IInv, Kept, UNCHANGED <<build, life, turn, ran>>
  PROVE  \A u \in Turn : TurnInv(u)' /\ Keeps(turn[u], turn'[u])
BY RecordKept, NoRestart DEF IInv, TurnInv, Keeps

\* Turn t becomes r, and nothing else of the doors or of what ran changes.
Only(t, r) ==
  /\ Becomes(t, r)
  /\ \A u \in ran' : u \in ran \/ (u = t /\ r.leg = "executing")

\* A step of one turn keeps what is known of all of them, if its new record is right.
LEMMA OneTurnSteps ==
  ASSUME IInv, Kept, UNCHANGED <<build, life>>, NEW t \in Turn, NEW r,
         Only(t, r), Keeps(turn[t], r), RecordInv(t, r) \/ RecordInv(t, r)'
  PROVE  \A u \in Turn : TurnInv(u)' /\ Keeps(turn[u], turn'[u])
<1>1. turn'[t] = r /\ \A u \in Turn \ {t} : turn'[u] = turn[u]
  BY DEF Only, Becomes, IInv, TypeOK
<1>2. TurnInv(t)'
  BY <1>1, RecordKept, NoRestart DEF TurnInv, Only
<1>3. ASSUME NEW u \in Turn \ {t} PROVE TurnInv(u)'
  BY <1>1, RecordKept, NoRestart DEF IInv, TurnInv, Only
<1>4. \A u \in Turn : Keeps(turn[u], turn'[u])
  BY <1>1 DEF Keeps
<1> QED BY <1>2, <1>3, <1>4

\* A step that changes nothing but one turn, what ran, and what the watches heard.
LEMMA TurnHeard ==
  ASSUME IInv, TypeOK', UNCHANGED <<build, life, receipts, pending, spent, wire, stored>>, HeardMore,
         NEW t \in Turn, NEW r, Only(t, r), Keeps(turn[t], r), RecordInv(t, r)
  PROVE  IInv'
<1>1. Kept
  BY DEF Kept
<1>2. StoredInv'
  BY <1>1, StoredKept DEF IInv, StoredInv
<1>3. SpentOnce'
  BY DEF IInv, LedgerInv, SpentOnce
<1> QED BY <1>1, <1>2, <1>3, OneTurnSteps, AnyStep

\* A step that changes nothing but one turn (and what ran).
LEMMA TurnOnly ==
  ASSUME IInv, TypeOK', UNCHANGED <<memory, pending, spent, wire, stored>>, NEW t \in Turn, NEW r,
         Only(t, r), Keeps(turn[t], r), RecordInv(t, r)
  PROVE  IInv'
BY TurnHeard DEF memory, HeardMore

-----------------------------------------------------------------------------
(* Type correctness                                                        *)

\* A turn that is under way has a door, and asks its ledger about a request only.
LEMMA HeldTyped ==
  ASSUME IInv, NEW t \in Turn, turn[t].step # "idle"
  PROVE  /\ turn[t].door \in Door
         /\ OnStage(turn[t]) \/ turn[t].step \in Asking =>
              turn[t].held.asked \in Request /\ Minted(turn[t].held.asked)
BY DEF IInv, TurnInv, RecordInv, HeldInv, Asks

\* The ledgers of a door are ledgers.
LEMMA LedgersTyped ==
  ASSUME TypeOK, NEW d \in Door
  PROVE  LedgerOf(d) \in Ledger /\ IdentityOf(d) \in Ledger
BY HostAssumption DEF TypeOK, LedgerOf, IdentityOf, NoIdentity, SharedLedger, ProcessLedger,
                      OwnLedger, Ledger

\* What a turn hands to its ledger is an entry.
LEMMA SpendTyped ==
  ASSUME IInv, NEW t \in Turn, NEW use \in {"approve", "decline", "close", "marker"},
         turn[t].step # "idle", OnStage(turn[t]) \/ turn[t].step \in Asking
  PROVE  Spend(t, use, turn[t].held.asked) \in Entry
BY HeldTyped, LedgersTyped DEF IInv, Spend, Entry, Use

\* A handed entry is recorded or on the wire.
LEMMA SendTyped ==
  ASSUME TypeOK, NEW w \in Entry, Send(w)
  PROVE  spent' \subseteq Entry /\ wire' \subseteq Entry
BY DEF TypeOK, Send

\* The fields of a turn have their types.
LEMMA FieldsTyped ==
  \A r \in TurnRecord :
    /\ r.door \in Door \cup {None} /\ r.step \in Step /\ r.leg \in StageLeg /\ r.approved \in BOOLEAN
    /\ r.held \in Envelope /\ r.out \in Envelope /\ r.conv \in Conversation
    /\ r.held.conv \in Conversation /\ r.held.asked \in Request \cup {None}
BY DEF TurnRecord, Envelope

\* A turn with one field replaced by a value of that field's type is a turn.
LEMMA FieldsSet ==
  \A r \in TurnRecord :
    /\ \A x \in Kind : [r EXCEPT !.kind = x] \in TurnRecord
    /\ \A x \in Door : [r EXCEPT !.door = x] \in TurnRecord
    /\ \A x \in Request : [r EXCEPT !.request = x] \in TurnRecord
    /\ \A x \in BOOLEAN : /\ [r EXCEPT !.approved = x] \in TurnRecord
                          /\ [r EXCEPT !.aborted = x] \in TurnRecord
                          /\ [r EXCEPT !.knownSpent = x] \in TurnRecord
                          /\ [r EXCEPT !.refusal = x] \in TurnRecord
                          /\ [r EXCEPT !.storeFailed = x] \in TurnRecord
                          /\ [r EXCEPT !.unread = x] \in TurnRecord
    /\ \A x \in Step : [r EXCEPT !.step = x] \in TurnRecord
    /\ \A x \in StageLeg : [r EXCEPT !.leg = x] \in TurnRecord
    /\ \A x \in Attempt : [r EXCEPT !.attempt = x] \in TurnRecord
    /\ \A x \in Envelope : [r EXCEPT !.held = x] \in TurnRecord /\ [r EXCEPT !.out = x] \in TurnRecord
    /\ \A x \in Conversation : [r EXCEPT !.conv = x] \in TurnRecord
BY DEF TurnRecord

\* The steps, legs and kinds the actions name belong to their sets.
LEMMA Literals ==
  /\ {"none", "message", "decision"} \subseteq Kind
  /\ {"read", "resume", "run", "deliver", "watch", "markRead", "markWrite", "closeRead", "prove",
      "proving", "marking", "closeWrite", "idle", "done", "dead"} \subseteq Step
  /\ {"none", "check", "held", "spending", "won", "executing", "settled", "gone"} \subseteq StageLeg
  /\ {"none", "unanswered", "spent", "refused", "failed"} \subseteq Attempt
BY DEF Kind, Step, StageLeg, Attempt, Ended

\* The outcomes the actions name are all of them.
LEMMA Outcomes == {"absent", "open", "result", "declined", "unknown", "notRun"} = Outcome
BY DEF Outcome

\* A conversation with the word on one request replaced is a conversation.
LEMMA ConversationSet ==
  \A c \in Conversation, q \in Request \cup {None}, o \in Outcome : [c EXCEPT ![q] = o] \in Conversation
BY DEF Conversation

\* The envelopes the actions build are envelopes.
LEMMA EnvelopesTyped ==
  /\ NewConversation \in Conversation /\ NoEnvelope \in Envelope
  /\ \A c \in Conversation : ConversationEnvelope(c) \in Envelope
  /\ \A c \in Conversation, o \in Outcome : Settle(c, o) \in Conversation
  /\ \A c \in Conversation, o \in Outcome, q \in Request \cup {None} :
       /\ SettleCall(c, q, o) \in Conversation
       /\ [format |-> "answered", asked |-> q, conv |-> SettleCall(c, q, o)] \in Envelope
BY DEF NewConversation, NoEnvelope, Conversation, Outcome, Envelope, ConversationEnvelope, Settle,
       SettleCall

\* The answered pause a mark stores is an envelope (markAnswered).
LEMMA MarkTyped ==
  ASSUME NEW t \in Turn, turn[t] \in TurnRecord, NEW c \in Conversation
  PROVE  MarkAnswered(t, c) \in Envelope
BY EnvelopesTyped, FieldsTyped, Outcomes DEF MarkAnswered

TurnsTyped == turn \in [Turn -> TurnRecord]

\* A turn that becomes a record of its type leaves every turn typed.
LEMMA Becoming ==
  ASSUME TurnsTyped, NEW t \in Turn, NEW r \in TurnRecord, Becomes(t, r)
  PROVE  TurnsTyped' /\ turn'[t] = r /\ \A u \in Turn \ {t} : turn'[u] = turn[u]
BY DEF Becomes, TurnsTyped

\* Closing a call keeps the turns typed (closedConversation).
LEMMA ClosedTyped ==
  ASSUME TurnsTyped, NEW t \in Turn, NEW o \in Outcome, Closed(t, o)
  PROVE  TurnsTyped'
<1>1. turn[t] \in TurnRecord
  BY DEF TurnsTyped
<1>2. /\ Settle(turn[t].conv, o) \in Conversation
      /\ ConversationEnvelope(Settle(turn[t].conv, o)) \in Envelope
  BY <1>1, FieldsTyped, EnvelopesTyped
<1> QED BY <1>1, <1>2, FieldsSet, Literals, Becoming DEF Closed

\* Every step keeps the turns typed.
LEMMA TurnsKept == TypeOK /\ [Next]_vars => TurnsTyped'
<1> SUFFICES ASSUME TurnsTyped, stored \in Envelope, stored.conv \in Conversation, [Next]_vars
             PROVE  TurnsTyped'
  BY DEF TypeOK, TurnsTyped, Envelope
<1> USE FieldsTyped, FieldsSet, Literals, Becoming DEF Goes, LegGoes
<1>t. \A t \in Turn : turn[t] \in TurnRecord
  BY DEF TurnsTyped
<1>1. ASSUME NEW t \in Turn, Arrive(t) PROVE TurnsTyped'
  <2>1. ASSUME NEW d \in Door, Message(t, d) PROVE TurnsTyped'
    BY <2>1, <1>t DEF Message
  <2>2. ASSUME NEW d \in Door, NEW q \in Request, NEW b \in BOOLEAN, Decision(t, d, q, b)
        PROVE  TurnsTyped'
    BY <2>2, <1>t DEF Decision
  <2> QED BY <1>1, <2>1, <2>2 DEF Arrive
<1>2. ASSUME NEW t \in Turn, StageStep(t) PROVE TurnsTyped'
  <2>1. CASE CheckDecision(t)
    BY <2>1, <1>t DEF CheckDecision
  <2>2. CASE SpendDecision(t)
    BY <2>2, <1>t DEF SpendDecision
  <2>3. CASE SpendWon(t)
    BY <2>3, <1>t, Outcomes, ConversationSet DEF SpendWon
  <2>4. CASE SpendRefused(t)
    BY <2>4, <1>t DEF SpendRefused, Failed
  <2>5. CASE Execute(t)
    BY <2>5, <1>t DEF Execute
  <2>6. CASE CallSettled(t)
    BY <2>6, <1>t, Outcomes, ConversationSet DEF CallSettled
  <2>7. CASE StageStops(t)
    BY <2>7, <1>t DEF StageStops
  <2> QED BY <1>2, <2>1, <2>2, <2>3, <2>4, <2>5, <2>6, <2>7 DEF StageStep
<1>3. ASSUME NEW t \in Turn, DoorStep(t) PROVE TurnsTyped'
  <2>1. CASE ReadForMessage(t)
    BY <2>1, <1>t DEF ReadForMessage
  <2>2. CASE ReadForDecision(t)
    BY <2>2, <1>t DEF ReadForDecision
  <2>3. CASE RunCompletes(t)
    BY <2>3, <1>t, EnvelopesTyped DEF RunCompletes
  <2>4. CASE Deliver(t)
    BY <2>4, <1>t DEF Deliver, Persist, PersistFails
  <2>5. CASE AfterFailedAnswer(t)
    BY <2>5, <1>t DEF AfterFailedAnswer
  <2>6. CASE MarkRead(t)
    <3>1. /\ MarkAnswered(t, turn[t].held.conv) \in Envelope
          /\ MarkAnswered(t, stored.conv) \in Envelope
      BY <1>t, MarkTyped
    <3> QED BY <2>6, <3>1, <1>t DEF MarkRead
  <2>7. CASE MarkWrite(t)
    BY <2>7, <1>t DEF MarkWrite, Persist, PersistFails
  <2>8. CASE CloseRead(t)
    BY <2>8, <1>t DEF CloseRead
  <2>9. CASE ProveNeverRan(t)
    BY <2>9, <1>t, ClosedTyped, Outcomes DEF ProveNeverRan
  <2>10. CASE CloseWon(t)
    BY <2>10, <1>t DEF CloseWon
  <2>11. CASE CloseLost(t)
    BY <2>11, ClosedTyped, Outcomes DEF CloseLost
  <2>12. CASE CloseMarked(t)
    BY <2>12, ClosedTyped, Outcomes DEF CloseMarked
  <2>13. CASE CloseWrite(t)
    BY <2>13, <1>t DEF CloseWrite, Persist, PersistFails
  <2> QED BY <1>3, <2>1, <2>2, <2>3, <2>4, <2>5, <2>6, <2>7, <2>8, <2>9, <2>10, <2>11, <2>12, <2>13 DEF DoorStep
<1>4. ASSUME NEW t \in Turn, Otherwise(t) PROVE TurnsTyped'
  <2>1. CASE ReadFails(t)
    BY <2>1, <1>t DEF ReadFails
  <2>2. CASE SpendThrows(t)
    BY <2>2, <1>t DEF SpendThrows, Failed
  <2>3. CASE ResumeFails(t)
    BY <2>3, <1>t DEF ResumeFails
  <2>4. CASE Abort(t)
    BY <2>4, <1>t DEF Abort
  <2>5. CASE RunThrows(t)
    BY <2>5, <1>t DEF RunThrows
  <2>6. CASE ProgressLands(t)
    BY <2>6, <1>t DEF ProgressLands, TurnsTyped
  <2>7. CASE CloseThrows(t)
    BY <2>7, ClosedTyped, Outcomes DEF CloseThrows
  <2>8. CASE MarkerThrows(t)
    BY <2>8, ClosedTyped, Outcomes DEF MarkerThrows
  <2>9. ASSUME NEW q \in Request, RunPauses(t, q) PROVE TurnsTyped'
    <3> DEFINE c == [turn[t].conv EXCEPT ![q] = "open"]
    <3>1. c \in Conversation
      BY <1>t, Outcomes, ConversationSet
    <3>2. [format |-> "waiting", asked |-> q, conv |-> c] \in Envelope
      BY <3>1 DEF Envelope
    <3> QED BY <2>9, <3>1, <3>2, <1>t DEF RunPauses
  <2> QED BY <1>4, <2>1, <2>2, <2>3, <2>4, <2>5, <2>6, <2>7, <2>8, <2>9 DEF Otherwise
<1>5. ASSUME World PROVE TurnsTyped'
  <2>1. ASSUME NEW p \in Process, Restart(p) PROVE TurnsTyped'
    <3>1. \A u \in Turn : [turn[u] EXCEPT !.leg = "gone", !.step = IF @ = "done" THEN "done" ELSE "dead"]
                             \in TurnRecord
      BY <1>t
    <3> QED BY <2>1, <3>1, <1>t DEF Restart, TurnsTyped
  <2> QED BY <1>5, <2>1 DEF World, Apply, Evict, Expire, memory, TurnsTyped
<1>6. CASE UNCHANGED vars
  BY <1>6 DEF vars, TurnsTyped
<1> QED BY <1>1, <1>2, <1>3, <1>4, <1>5, <1>6 DEF Next

\* TypeOK but for the turns.
RestTyped ==
  /\ build \in [Door -> Build] /\ life \in [Process -> Nat]
  /\ receipts \in [Process -> SUBSET Request] /\ heard \in [Turn -> SUBSET Turn]
  /\ pending \in [Request -> [minted : BOOLEAN, ledger : Ledger, rules : Rules \cup {None},
                              carrier : Carrier \cup {None}, door : Door \cup {None}]]
  /\ spent \subseteq Entry /\ wire \subseteq Entry
  /\ stored \in Envelope /\ ran \subseteq Turn /\ faults \in 0..MaxFaults

\* A restart counts the lives of a process.
LEMMA LifeTyped ==
  \A f \in [Process -> Nat], p \in Process : [f EXCEPT ![p] = @ + 1] \in [Process -> Nat]
OBVIOUS

\* Every step keeps all that is not a turn typed.
LEMMA RestKept == IInv /\ [Next]_vars => RestTyped'
<1> SUFFICES ASSUME IInv, TypeOK, RestTyped, [Next]_vars PROVE RestTyped'
  BY DEF IInv, TypeOK, RestTyped
<1> USE FieldsTyped, Literals, EnvelopesTyped, BoundAssumption DEF memory, Fault
<1>t. \A t \in Turn : turn[t] \in TurnRecord
  BY DEF TypeOK
<1>1. ASSUME NEW t \in Turn, Arrive(t) PROVE RestTyped'
  BY <1>1 DEF Arrive, Message, Decision, RestTyped
<1>2. ASSUME NEW t \in Turn, StageStep(t) PROVE RestTyped'
  <2>1. CASE CheckDecision(t)
    BY <2>1 DEF CheckDecision, HeardOf, RestTyped
  <2>2. CASE SpendDecision(t)
    <3>1. OnStage(turn[t]) /\ turn[t].step # "idle"
      BY <2>2 DEF SpendDecision, Leg, OnStage, PastCheck, IInv, TurnInv, RecordInv, HeldInv
    <3>2. DecisionSpend(t) \in Entry
      BY <3>1, SpendTyped DEF DecisionSpend
    <3> QED BY <2>2, <3>2, SendTyped DEF SpendDecision, HeardOf, RestTyped
  <2>3. CASE SpendWon(t)
    BY <2>3 DEF SpendWon, RestTyped
  <2>4. CASE SpendRefused(t)
    BY <2>4 DEF SpendRefused, RestTyped
  <2>5. CASE Execute(t)
    BY <2>5 DEF Execute, RestTyped
  <2>6. CASE CallSettled(t)
    BY <2>6 DEF CallSettled, RestTyped
  <2>7. CASE StageStops(t)
    BY <2>7 DEF StageStops, RestTyped
  <2> QED BY <1>2, <2>1, <2>2, <2>3, <2>4, <2>5, <2>6, <2>7 DEF StageStep
<1>3. ASSUME NEW t \in Turn, DoorStep(t) PROVE RestTyped'
  <2>1. CASE ReadForMessage(t)
    BY <2>1 DEF ReadForMessage, RestTyped
  <2>2. CASE ReadForDecision(t)
    BY <2>2 DEF ReadForDecision, RestTyped
  <2>3. CASE RunCompletes(t)
    BY <2>3 DEF RunCompletes, RestTyped
  <2>4. CASE Deliver(t)
    BY <1>t, <2>4 DEF Deliver, RestTyped, Persist, PersistFails
  <2>5. CASE AfterFailedAnswer(t)
    BY <2>5 DEF AfterFailedAnswer, RestTyped
  <2>6. CASE MarkRead(t)
    BY <2>6 DEF MarkRead, RestTyped
  <2>7. CASE MarkWrite(t)
    BY <1>t, <2>7 DEF MarkWrite, RestTyped, Persist, PersistFails
  <2>8. CASE CloseRead(t)
    BY <2>8 DEF CloseRead, RestTyped
  <2>9. CASE ProveNeverRan(t)
    <3>1. CloseSpend(t) \in Entry
      BY <2>9, SpendTyped DEF ProveNeverRan, CloseSpend, At, Asking
    <3> QED BY <2>9, <3>1, SendTyped DEF ProveNeverRan, RestTyped
  <2>10. CASE CloseWon(t)
    <3>1. MarkerSpend(t) \in Entry
      BY <2>10, SpendTyped DEF CloseWon, MarkerSpend, At, Asking
    <3> QED BY <2>10, <3>1, SendTyped DEF CloseWon, RestTyped
  <2>11. CASE CloseLost(t)
    BY <2>11 DEF CloseLost, RestTyped
  <2>12. CASE CloseMarked(t)
    BY <1>t, HeldTyped, HostAssumption, <2>12 DEF CloseMarked, RestTyped, At, Asking
  <2>13. CASE CloseWrite(t)
    BY <1>t, <2>13 DEF CloseWrite, RestTyped, Persist, PersistFails
  <2> QED BY <1>3, <2>1, <2>2, <2>3, <2>4, <2>5, <2>6, <2>7, <2>8, <2>9, <2>10, <2>11, <2>12, <2>13 DEF DoorStep
<1>4. ASSUME NEW t \in Turn, Otherwise(t) PROVE RestTyped'
  <2>1. CASE ReadFails(t)
    BY <2>1 DEF ReadFails, RestTyped
  <2>2. CASE SpendThrows(t)
    BY <2>2 DEF SpendThrows, RestTyped
  <2>3. CASE ResumeFails(t)
    BY <2>3 DEF ResumeFails, RestTyped
  <2>4. CASE Abort(t)
    BY <2>4 DEF Abort, RestTyped
  <2>5. CASE RunThrows(t)
    BY <2>5 DEF RunThrows, RestTyped
  <2>6. CASE ProgressLands(t)
    BY <1>t, <2>6 DEF ProgressLands, RestTyped
  <2>7. CASE CloseThrows(t)
    BY <2>7 DEF CloseThrows, RestTyped
  <2>8. CASE MarkerThrows(t)
    BY <2>8 DEF MarkerThrows, RestTyped
  <2>9. ASSUME NEW q \in Request, RunPauses(t, q) PROVE RestTyped'
    <3>1. turn[t].door \in Door
      BY <2>9, HeldTyped DEF RunPauses, Runs, At
    <3> QED BY <2>9, <3>1, LedgersTyped, BuildAssumption DEF RunPauses, RestTyped
  <2> QED BY <1>4, <2>1, <2>2, <2>3, <2>4, <2>5, <2>6, <2>7, <2>8, <2>9 DEF Otherwise
<1>5. ASSUME World PROVE RestTyped'
  <2>1. ASSUME NEW p \in Process, Restart(p) PROVE RestTyped'
    <3>1. build' \in [Door -> Build]
      BY <2>1 DEF Restart
    <3>3. life' \in [Process -> Nat]
      BY <2>1, LifeTyped DEF Restart, RestTyped
    <3>2. receipts' \in [Process -> SUBSET Request] /\ stored' \in Envelope
      BY <2>1 DEF Restart, RestTyped
    <3> QED BY <2>1, <3>1, <3>2, <3>3 DEF Restart, RestTyped
  <2>2. ASSUME NEW p \in Process, NEW q \in Request, Evict(p, q) PROVE RestTyped'
    BY <2>2 DEF Evict, RestTyped
  <2> QED BY <1>5, <2>1, <2>2 DEF World, Apply, Expire, RestTyped
<1>6. CASE UNCHANGED vars
  BY <1>6 DEF vars, RestTyped
<1> QED BY <1>1, <1>2, <1>3, <1>4, <1>5, <1>6 DEF Next

\* Every step keeps the type invariant.
LEMMA TypeKept == IInv /\ [Next]_vars => TypeOK'
BY TurnsKept, RestKept DEF IInv, RestTyped, TurnsTyped, TypeOK

-----------------------------------------------------------------------------
(* Steps that only move a door or a stage                          *)

\* A step that only moves the door or the stage of a turn already reading on.
Moves(t, r) ==
  LET s == turn[t] IN
  /\ r.door = s.door /\ r.held = s.held /\ r.approved = s.approved /\ r.kind = s.kind
  /\ r.conv = s.conv /\ r.out = s.out
  /\ s.step # "idle" /\ r.step \notin {"idle", "read"}
  /\ r.step = "deliver" => r.leg = s.leg
  /\ OnStage(r) => OnStage(s)
  /\ OnStage(r) /\ ~r.aborted => ~s.aborted /\ r.step = s.step
  /\ r.step \in Asking => OnStage(s) \/ s.step \in Asking
  /\ r.step \in Writing \cup {"run", "prove", "proving", "marking"} => r.step = s.step
  /\ r.leg \in PastCheck => s.leg \in PastCheck
  /\ r.step \in {"resume", "watch"} /\ r.leg # "none" => s.step \in {"resume", "watch"} /\ s.leg # "none"
  /\ r.leg = "settled" => s.leg = "settled" /\ r.step = s.step
  /\ r.leg \in {"won", "executing"} => s.leg \in {"won", "executing"}
  /\ r.attempt = "spent" => s.attempt = "spent"
  /\ r.leg = "spending" \/ r.attempt # "none" => s.leg = "spending" \/ s.attempt # "none"

\* A step that moves one turn and stores, spends and mints nothing keeps the
\* invariant if what the turn knows stays right.
LEMMA Moving ==
  ASSUME IInv, TypeOK', UNCHANGED <<memory, pending, spent, wire, stored>>, NEW t \in Turn, NEW r,
         Only(t, r), Moves(t, r)
  PROVE  IInv'
<1>1. RecordInv(t, turn[t])
  BY DEF IInv, TurnInv
<1>2. HeldInv(r)
  BY <1>1 DEF RecordInv, HeldInv, Moves, Writing
<1>3. SaidInv(r)
  BY <1>1 DEF RecordInv, SaidInv, Moves
<1>4. SpendInv(r)
  BY <1>1 DEF RecordInv, SpendInv, Moves
<1>5. OpenInv(r)
  BY <1>1 DEF RecordInv, OpenInv, Moves, Writing
<1>6. RanInv(t, r)
  BY <1>1 DEF RecordInv, RanInv, Moves
<1>7. Keeps(turn[t], r)
  BY DEF Keeps, Moves
<1> QED BY <1>2, <1>3, <1>4, <1>5, <1>6, <1>7, TurnOnly DEF RecordInv

\* A request found spent keeps the invariant (spendDecision).
LEMMA SpendRefusedKeeps == ASSUME IInv, TypeOK', NEW t \in Turn, SpendRefused(t) PROVE IInv'
<1> DEFINE r == [turn[t] EXCEPT !.attempt = "refused", !.leg = "gone", !.step = Failed(t)]
<1>1. turn[t] \in TurnRecord /\ HeldInv(turn[t]) /\ OpenInv(turn[t])
  BY DEF IInv, TypeOK, TurnInv, RecordInv
<1>2. /\ r.door = turn[t].door /\ r.held = turn[t].held /\ r.approved = turn[t].approved
      /\ r.kind = turn[t].kind
      /\ r.conv = turn[t].conv /\ r.out = turn[t].out
      /\ r.step = Failed(t) /\ r.leg = "gone"
      /\ r.attempt = "refused" /\ r.aborted = turn[t].aborted
  BY <1>1 DEF TurnRecord
<1> HIDE DEF r
<1>3. Moves(t, r)
  BY <1>1, <1>2 DEF SpendRefused, Moves, HeldInv, OpenInv, At, Leg, OnStage, PastCheck, Asking, Writing, Failed
<1>4. Only(t, r)
  BY DEF SpendRefused, Only, Goes, LegGoes, r
<1> QED BY <1>3, <1>4, Moving DEF SpendRefused

\* A ledger that throws on a decision keeps the invariant.
LEMMA SpendThrowsKeeps == ASSUME IInv, TypeOK', NEW t \in Turn, SpendThrows(t) PROVE IInv'
<1> DEFINE r == [turn[t] EXCEPT !.attempt = "failed", !.leg = "gone", !.step = Failed(t)]
<1>1. turn[t] \in TurnRecord /\ HeldInv(turn[t]) /\ OpenInv(turn[t])
  BY DEF IInv, TypeOK, TurnInv, RecordInv
<1>2. /\ r.door = turn[t].door /\ r.held = turn[t].held /\ r.approved = turn[t].approved
      /\ r.kind = turn[t].kind
      /\ r.conv = turn[t].conv /\ r.out = turn[t].out
      /\ r.step = Failed(t) /\ r.leg = "gone"
      /\ r.attempt = "failed" /\ r.aborted = turn[t].aborted
  BY <1>1 DEF TurnRecord
<1> HIDE DEF r
<1>3. Moves(t, r)
  BY <1>1, <1>2 DEF SpendThrows, Moves, HeldInv, OpenInv, At, Leg, OnStage, PastCheck, Asking, Writing, Failed
<1>4. Only(t, r)
  BY DEF SpendThrows, Only, Goes, LegGoes, r
<1> QED BY <1>3, <1>4, Moving DEF SpendThrows

\* Starting the approved call keeps the invariant.
LEMMA ExecuteKeeps == ASSUME IInv, TypeOK', NEW t \in Turn, Execute(t) PROVE IInv'
<1> DEFINE r == [turn[t] EXCEPT !.leg = "executing"]
<1>1. turn[t] \in TurnRecord /\ HeldInv(turn[t]) /\ OpenInv(turn[t])
  BY DEF IInv, TypeOK, TurnInv, RecordInv
<1>2. /\ r.door = turn[t].door /\ r.held = turn[t].held /\ r.approved = turn[t].approved
      /\ r.kind = turn[t].kind
      /\ r.conv = turn[t].conv /\ r.out = turn[t].out
      /\ r.step = turn[t].step /\ r.leg = "executing"
      /\ r.attempt = turn[t].attempt /\ r.aborted = turn[t].aborted
  BY <1>1 DEF TurnRecord
<1> HIDE DEF r
<1>3. Moves(t, r)
  BY <1>1, <1>2 DEF Execute, Moves, HeldInv, OpenInv, At, Leg, OnStage, PastCheck, Asking, Writing
<1>4. Only(t, r)
  BY DEF Execute, Only, Goes, LegGoes, r, IInv, TypeOK
<1> QED BY <1>3, <1>4, Moving DEF Execute

\* A stage left behind by a hang-up that stops keeps the invariant.
LEMMA StageStopsKeeps == ASSUME IInv, TypeOK', NEW t \in Turn, StageStops(t) PROVE IInv'
<1> DEFINE r == [turn[t] EXCEPT !.leg = "gone"]
<1>1. turn[t] \in TurnRecord /\ HeldInv(turn[t]) /\ OpenInv(turn[t])
  BY DEF IInv, TypeOK, TurnInv, RecordInv
<1>2. /\ r.door = turn[t].door /\ r.held = turn[t].held /\ r.approved = turn[t].approved
      /\ r.kind = turn[t].kind
      /\ r.conv = turn[t].conv /\ r.out = turn[t].out
      /\ r.step = turn[t].step /\ r.leg = "gone"
      /\ r.attempt = turn[t].attempt /\ r.aborted = turn[t].aborted
  BY <1>1 DEF TurnRecord
<1> HIDE DEF r
<1>3. Moves(t, r)
  BY <1>1, <1>2 DEF StageStops, Moves, HeldInv, OpenInv, At, Leg, OnStage, PastCheck, Asking, Writing
<1>4. Only(t, r)
  BY DEF StageStops, Only, Goes, LegGoes, r
<1> QED BY <1>3, <1>4, Moving DEF StageStops

\* A resume that fails keeps the invariant.
LEMMA ResumeFailsKeeps == ASSUME IInv, TypeOK', NEW t \in Turn, ResumeFails(t) PROVE IInv'
<1> DEFINE r == [turn[t] EXCEPT !.leg = "gone", !.step = "watch"]
<1>1. turn[t] \in TurnRecord /\ HeldInv(turn[t]) /\ OpenInv(turn[t])
  BY DEF IInv, TypeOK, TurnInv, RecordInv
<1>2. /\ r.door = turn[t].door /\ r.held = turn[t].held /\ r.approved = turn[t].approved
      /\ r.kind = turn[t].kind
      /\ r.conv = turn[t].conv /\ r.out = turn[t].out
      /\ r.step = "watch" /\ r.leg = "gone"
      /\ r.attempt = turn[t].attempt /\ r.aborted = turn[t].aborted
  BY <1>1 DEF TurnRecord
<1> HIDE DEF r
<1>3. Moves(t, r)
  BY <1>1, <1>2 DEF ResumeFails, Moves, HeldInv, OpenInv, At, Leg, OnStage, PastCheck, Asking, Writing
<1>4. Only(t, r)
  BY DEF ResumeFails, Only, Goes, LegGoes, r
<1> QED BY <1>3, <1>4, Moving DEF ResumeFails

\* A run that fails keeps the invariant.
LEMMA RunThrowsKeeps == ASSUME IInv, TypeOK', NEW t \in Turn, RunThrows(t) PROVE IInv'
<1> DEFINE r == [turn[t] EXCEPT !.step = "done"]
<1>1. turn[t] \in TurnRecord /\ HeldInv(turn[t]) /\ OpenInv(turn[t])
  BY DEF IInv, TypeOK, TurnInv, RecordInv
<1>2. /\ r.door = turn[t].door /\ r.held = turn[t].held /\ r.approved = turn[t].approved
      /\ r.kind = turn[t].kind
      /\ r.conv = turn[t].conv /\ r.out = turn[t].out
      /\ r.step = "done" /\ r.leg = turn[t].leg
      /\ r.attempt = turn[t].attempt /\ r.aborted = turn[t].aborted
  BY <1>1 DEF TurnRecord
<1> HIDE DEF r
<1>3. Moves(t, r)
  BY <1>1, <1>2 DEF RunThrows, Moves, HeldInv, OpenInv, At, Leg, OnStage, PastCheck, Asking, Writing
<1>4. Only(t, r)
  BY DEF RunThrows, Only, Goes, LegGoes, r
<1> QED BY <1>3, <1>4, Moving DEF RunThrows

\* A session that cannot be read keeps the invariant.
LEMMA ReadFailsKeeps == ASSUME IInv, TypeOK', NEW t \in Turn, ReadFails(t) PROVE IInv'
<1> DEFINE r == [turn[t] EXCEPT !.step = "done"]
<1>1. turn[t] \in TurnRecord /\ HeldInv(turn[t]) /\ OpenInv(turn[t])
  BY DEF IInv, TypeOK, TurnInv, RecordInv
<1>2. /\ r.door = turn[t].door /\ r.held = turn[t].held /\ r.approved = turn[t].approved
      /\ r.kind = turn[t].kind
      /\ r.conv = turn[t].conv /\ r.out = turn[t].out
      /\ r.step = "done" /\ r.leg = turn[t].leg
      /\ r.attempt = turn[t].attempt /\ r.aborted = turn[t].aborted
  BY <1>1 DEF TurnRecord
<1> HIDE DEF r
<1>3. Moves(t, r)
  BY <1>1, <1>2 DEF ReadFails, Moves, HeldInv, OpenInv, At, Leg, OnStage, PastCheck, Asking, Writing
<1>4. Only(t, r)
  BY DEF ReadFails, Only, Goes, LegGoes, r
<1> QED BY <1>3, <1>4, Moving DEF ReadFails

\* A caller that hangs up keeps the invariant.
LEMMA AbortKeeps == ASSUME IInv, TypeOK', NEW t \in Turn, Abort(t) PROVE IInv'
<1> DEFINE r == [turn[t] EXCEPT !.aborted = TRUE, !.step = "watch", !.leg = IF @ = "settled" THEN "gone" ELSE @]
<1>1. turn[t] \in TurnRecord /\ HeldInv(turn[t]) /\ OpenInv(turn[t])
  BY DEF IInv, TypeOK, TurnInv, RecordInv
<1>2. /\ r.door = turn[t].door /\ r.held = turn[t].held /\ r.approved = turn[t].approved
      /\ r.kind = turn[t].kind
      /\ r.conv = turn[t].conv /\ r.out = turn[t].out
      /\ r.step = "watch" /\ r.leg = (IF turn[t].leg = "settled" THEN "gone" ELSE turn[t].leg)
      /\ r.attempt = turn[t].attempt /\ r.aborted = TRUE
  BY <1>1 DEF TurnRecord
<1> HIDE DEF r
<1>3. Moves(t, r)
  BY <1>1, <1>2 DEF Abort, Moves, HeldInv, OpenInv, At, Leg, OnStage, PastCheck, Asking, Writing
<1>4. Only(t, r)
  BY DEF Abort, Only, Goes, LegGoes, r
<1> QED BY <1>3, <1>4, Moving DEF Abort

\* Choosing what to do about a failed answer keeps the invariant.
LEMMA AfterFailedAnswerKeeps ==
  ASSUME IInv, TypeOK', NEW t \in Turn, AfterFailedAnswer(t) PROVE IInv'
<1>0. PICK x \in {"markRead", "closeRead", "done"} : Goes(t, x)
  BY DEF AfterFailedAnswer
<1> DEFINE r == [turn[t] EXCEPT !.step = x]
<1>1. turn[t] \in TurnRecord /\ HeldInv(turn[t]) /\ OpenInv(turn[t])
  BY DEF IInv, TypeOK, TurnInv, RecordInv
<1>2. /\ r.door = turn[t].door /\ r.held = turn[t].held /\ r.approved = turn[t].approved
      /\ r.kind = turn[t].kind
      /\ r.conv = turn[t].conv /\ r.out = turn[t].out
      /\ r.step = x /\ r.leg = turn[t].leg /\ r.attempt = turn[t].attempt
      /\ r.aborted = turn[t].aborted
  BY <1>1 DEF TurnRecord
<1> HIDE DEF r
<1>3. Moves(t, r)
  BY <1>1, <1>2 DEF AfterFailedAnswer, Moves, HeldInv, OpenInv, At, OnStage, PastCheck, Asking, Writing
<1>4. Only(t, r)
  BY <1>0 DEF AfterFailedAnswer, Only, Goes, r
<1> QED BY <1>3, <1>4, Moving DEF AfterFailedAnswer

\* A door that gives up: it is done, whatever it remembers of its store.
LEMMA GivesUp ==
  ASSUME IInv, TypeOK', UNCHANGED <<memory, pending, spent, wire, stored, ran>>,
         NEW t \in Turn, turn[t].step \notin {"idle", "resume"}, NEW failed \in BOOLEAN,
         Becomes(t, [turn[t] EXCEPT !.step = "done", !.storeFailed = failed])
  PROVE  IInv'
<1> DEFINE r == [turn[t] EXCEPT !.step = "done", !.storeFailed = failed]
<1>1. turn[t] \in TurnRecord /\ HeldInv(turn[t]) /\ OpenInv(turn[t])
  BY DEF IInv, TypeOK, TurnInv, RecordInv
<1>2. /\ r.door = turn[t].door /\ r.held = turn[t].held /\ r.approved = turn[t].approved
      /\ r.kind = turn[t].kind
      /\ r.conv = turn[t].conv /\ r.out = turn[t].out
      /\ r.step = "done" /\ r.leg = turn[t].leg /\ r.attempt = turn[t].attempt
      /\ r.aborted = turn[t].aborted
  BY <1>1 DEF TurnRecord
<1> HIDE DEF r
<1>3. Moves(t, r)
  BY <1>1, <1>2 DEF Moves, HeldInv, OpenInv, OnStage, PastCheck, Asking, Writing
<1>4. Only(t, r)
  BY DEF Only, r
<1> QED BY <1>3, <1>4, Moving

\* A turn that goes to its end becomes the same turn, ended.
LEMMA DoneAtOnce ==
  ASSUME NEW t \in Turn, turn[t] \in TurnRecord, Goes(t, "done")
  PROVE  Becomes(t, [turn[t] EXCEPT !.step = "done", !.storeFailed = turn[t].storeFailed])
BY DEF Goes, Becomes, TurnRecord

-----------------------------------------------------------------------------
(* Steps that read the session, or change what a conversation claims       *)

\* A request that arrives at a door keeps the invariant.
LEMMA ArriveKeeps == ASSUME IInv, TypeOK', NEW t \in Turn, Arrive(t) PROVE IInv'
<1>1. turn[t] \in TurnRecord /\ RecordInv(t, turn[t])
  BY DEF IInv, TypeOK, TurnInv
<1>2. ASSUME NEW d \in Door, Message(t, d) PROVE IInv'
  <2> DEFINE r == [turn[t] EXCEPT !.kind = "message", !.door = d, !.step = "read"]
  <2>1. /\ r.door = d /\ r.held = turn[t].held /\ r.conv = turn[t].conv /\ r.out = turn[t].out
        /\ r.step = "read" /\ r.leg = turn[t].leg /\ r.attempt = turn[t].attempt
        /\ r.aborted = turn[t].aborted
    BY <1>1 DEF TurnRecord
  <2> HIDE DEF r
  <2>2. turn[t].step = "idle"
    BY <1>2 DEF Message, At
  <2>3. RecordInv(t, r)
    BY <1>1, <2>1, <2>2 DEF RecordInv, HeldInv, SaidInv, SpendInv, OpenInv, RanInv, OnStage,
                            PastCheck, Asking, Writing
  <2>4. Only(t, r) /\ Keeps(turn[t], r)
    BY <1>2, <2>2 DEF Message, Only, Keeps, r
  <2> QED BY <1>2, <2>3, <2>4, TurnOnly DEF Message
<1>3. ASSUME NEW d \in Door, NEW q \in Request, NEW b \in BOOLEAN, Decision(t, d, q, b) PROVE IInv'
  <2> DEFINE r == [turn[t] EXCEPT !.kind = "decision", !.door = d, !.step = "read", !.request = q,
                                  !.approved = b]
  <2>1. /\ r.door = d /\ r.held = turn[t].held /\ r.conv = turn[t].conv /\ r.out = turn[t].out
        /\ r.step = "read" /\ r.leg = turn[t].leg /\ r.attempt = turn[t].attempt
        /\ r.aborted = turn[t].aborted
    BY <1>1 DEF TurnRecord
  <2> HIDE DEF r
  <2>2. turn[t].step = "idle"
    BY <1>3 DEF Decision, At
  <2>3. RecordInv(t, r)
    BY <1>1, <2>1, <2>2 DEF RecordInv, HeldInv, SaidInv, SpendInv, OpenInv, RanInv, OnStage,
                            PastCheck, Asking, Writing
  <2>4. Only(t, r) /\ Keeps(turn[t], r)
    BY <1>3, <2>2 DEF Decision, Only, Keeps, r
  <2> QED BY <1>3, <2>3, <2>4, TurnOnly DEF Decision
<1> QED BY <1>2, <1>3 DEF Arrive

\* A message that reads the session keeps the invariant.
LEMMA ReadForMessageKeeps ==
  ASSUME IInv, TypeOK', NEW t \in Turn, ReadForMessage(t) PROVE IInv'
<1>1. /\ turn[t] \in TurnRecord /\ RecordInv(t, turn[t]) /\ turn[t].step = "read"
      /\ EnvelopeInv(stored) /\ CurrentPause(stored)
  BY DEF IInv, TypeOK, TurnInv, StoredInv, ReadForMessage, At
<1> DEFINE next == IF stored.format # "waiting" THEN "run"
                   ELSE IF Unanswerable(turn[t].door, stored.asked) THEN "prove" ELSE "done"
           r == [turn[t] EXCEPT !.held = stored, !.conv = stored.conv, !.step = next]
<1>2. /\ r.door = turn[t].door /\ r.held = stored /\ r.conv = stored.conv /\ r.out = turn[t].out
      /\ r.step = next /\ r.leg = turn[t].leg /\ r.attempt = turn[t].attempt
      /\ r.kind = "message"
  BY <1>1 DEF TurnRecord, ReadForMessage
<1>3. Only(t, r) /\ Keeps(turn[t], r)
  BY <1>1 DEF ReadForMessage, Only, Keeps
<1>4. /\ next = "run" => stored.format # "waiting"
      /\ next # "run" => stored.format = "waiting"
      /\ next \in {"run", "prove", "done"}
  OBVIOUS
<1> HIDE DEF r, next
<1>5. ~OnStage(turn[t])
  BY <1>1 DEF RecordInv, HeldInv
<1>6. HeldInv(r)
  BY <1>1, <1>2, <1>4, <1>5 DEF RecordInv, HeldInv, OnStage, Asking, Writing, EnvelopeInv,
                                CurrentPause
<1>7. SaidInv(r)
  BY <1>1, <1>2 DEF RecordInv, SaidInv, EnvelopeInv
<1>8. SpendInv(r) /\ OpenInv(r)
  BY <1>1, <1>2, <1>4, <1>5 DEF SpendInv, OpenInv, OnStage, PastCheck, EnvelopeInv, OpenAsked,
                                OpenWaits
<1>9. RanInv(t, r)
  BY <1>1, <1>2 DEF RecordInv, RanInv
<1> QED BY <1>3, <1>6, <1>7, <1>8, <1>9, TurnOnly DEF RecordInv, ReadForMessage

\* A decision that reads the session keeps the invariant.
LEMMA ReadForDecisionKeeps ==
  ASSUME IInv, TypeOK', NEW t \in Turn, ReadForDecision(t) PROVE IInv'
<1>1. /\ turn[t] \in TurnRecord /\ RecordInv(t, turn[t]) /\ turn[t].step = "read"
      /\ EnvelopeInv(stored) /\ CurrentPause(stored)
  BY DEF IInv, TypeOK, TurnInv, StoredInv, ReadForDecision, At
<1>2. CASE stored.format # "waiting"
  BY <1>1, <1>2, DoneAtOnce, GivesUp DEF ReadForDecision, TurnRecord
<1>3. CASE stored.format = "waiting"
  <2> DEFINE readable == ~CarrierUnreadable(turn[t].door, stored.asked)
             r == [turn[t] EXCEPT !.held = stored, !.conv = stored.conv,
                                  !.step = IF readable THEN "resume" ELSE "prove",
                                  !.leg = IF readable THEN "check" ELSE "none"]
  <2>1. /\ r.door = turn[t].door /\ r.held = stored /\ r.conv = stored.conv /\ r.out = turn[t].out
        /\ r.attempt = turn[t].attempt /\ r.kind = "decision"
        /\ \/ r.step = "resume" /\ r.leg = "check"
           \/ r.step = "prove" /\ r.leg = "none"
    BY <1>1 DEF TurnRecord, ReadForDecision
  <2>2. Only(t, r) /\ Keeps(turn[t], r)
    BY <1>1, <1>3 DEF ReadForDecision, Only, Keeps
  <2> HIDE DEF r
  <2>3. HeldInv(r)
    BY <1>1, <1>3, <2>1 DEF RecordInv, HeldInv, OnStage, PastCheck, Asking, Writing, EnvelopeInv,
                            CurrentPause
  <2>4. SaidInv(r)
    BY <1>1, <2>1 DEF RecordInv, SaidInv, EnvelopeInv
  <2>5. SpendInv(r) /\ OpenInv(r)
    BY <1>1, <1>3, <2>1 DEF SpendInv, OpenInv, PastCheck, EnvelopeInv, OpenWaits
  <2>6. RanInv(t, r)
    BY <1>1, <2>1 DEF RecordInv, RanInv
  <2> QED BY <2>2, <2>3, <2>4, <2>5, <2>6, TurnOnly DEF RecordInv, ReadForDecision
<1> QED BY <1>2, <1>3

\* The check lets a decision through only to the ledger its request names.
LEMMA CheckedLedger ==
  ASSUME TypeOK, NEW d \in Door, NEW q \in Request, ~RequestRefusal(d, q), Current(q), OneLedger(q)
  PROVE  LedgerOf(d) = pending[q].ledger
<1>1. ~ForeignMemory(d, q)
  BY DEF OneLedger, Current, ForeignMemory
<1>2. IdentityOf(d) = pending[q].ledger /\ pending[q].ledger # NoIdentity
  BY <1>1 DEF RequestRefusal, SpentElsewhere, OneLedger, Identified
<1> QED BY <1>2 DEF IdentityOf

\* What the watches hear of a turn is about their own request.
LEMMA HeardNew ==
  ASSUME TypeOK, NEW t \in Turn, turn[t].step \notin {"idle", "read"}, heard' = HeardOf(t)
  PROVE  HeardMore
BY DEF TypeOK, HeardOf, Watches, HeardMore, Hears

\* Checking a decision against the stored pause keeps the invariant (requestRefusal).
LEMMA CheckDecisionKeeps ==
  ASSUME IInv, TypeOK', NEW t \in Turn, CheckDecision(t) PROVE IInv'
<1>1. /\ turn[t] \in TurnRecord /\ RecordInv(t, turn[t]) /\ turn[t].leg = "check"
      /\ ~turn[t].aborted
  BY DEF IInv, TypeOK, TurnInv, CheckDecision, Leg
<1> DEFINE d == turn[t].door
           q == turn[t].held.asked
           other == turn[t].request # q
           refused == ~other /\ RequestRefusal(d, q)
           known == ~other /\ ~refused /\ KnownSpent(d, q)
           holds == ~(other \/ refused \/ known)
           r == [turn[t] EXCEPT !.refusal = refused, !.knownSpent = known,
                   !.leg = IF holds THEN "held" ELSE "gone",
                   !.step = IF holds THEN @ ELSE "watch"]
<1>2. /\ r.door = d /\ r.held = turn[t].held /\ r.conv = turn[t].conv /\ r.out = turn[t].out
      /\ r.attempt = turn[t].attempt /\ r.approved = turn[t].approved
      /\ r.kind = turn[t].kind
      /\ \/ r.step = turn[t].step /\ r.leg = "held" /\ ~RequestRefusal(d, q)
         \/ r.step = "watch" /\ r.leg = "gone"
  BY <1>1 DEF TurnRecord
<1>3. Only(t, r)
  BY <1>1 DEF CheckDecision, Only
<1> HIDE DEF r
<1>4. turn[t].step = "resume" /\ Current(q) /\ d \in Door /\ q \in Request
  BY <1>1 DEF RecordInv, HeldInv, OnStage, Asks
<1>5. HeldInv(r) /\ Keeps(turn[t], r)
  BY <1>1, <1>2, <1>4 DEF RecordInv, HeldInv, OnStage, PastCheck, Asking, Writing, Keeps
<1>6. SaidInv(r) /\ OpenInv(r) /\ RanInv(t, r)
  BY <1>1, <1>2, <1>4 DEF RecordInv, SaidInv, OpenInv, RanInv
<1>7. SpendInv(r)
  BY <1>2, <1>4, CheckedLedger DEF SpendInv, PastCheck, IInv
<1>8. HeardMore
  <2>1. heard' = HeardOf(t) \/ heard' = heard
    BY DEF CheckDecision
  <2> QED BY <1>4, <2>1, HeardNew DEF IInv, HeardMore
<1> QED BY <1>3, <1>5, <1>6, <1>7, <1>8, TurnHeard DEF RecordInv, CheckDecision

\* A decline its ledger spent is recorded where its request was minted.
LEMMA DeclineRecorded ==
  ASSUME IInv, NEW t \in Turn, Used(t, "approve") \/ Used(t, "decline"), ~turn[t].approved,
         turn[t].held.asked \in Request, Minted(turn[t].held.asked)
  PROVE  DeclinedFor(turn[t].held.asked)
<1>1. PICK e \in spent : e.by = t /\ e.use \in {"approve", "decline"}
  BY DEF Used
<1>2. e.use = "decline" /\ e.request = turn[t].held.asked
  BY <1>1 DEF IInv, LedgerInv, EntryInv, DecisionUse
<1> QED BY <1>1, <1>2 DEF IInv, LedgerInv, EntryInv, DeclinedFor, RecordedFor

\* A decision the ledger took keeps the invariant: nobody else was told the same.
LEMMA SpendWonKeeps == ASSUME IInv, TypeOK', NEW t \in Turn, SpendWon(t) PROVE IInv'
<1>1. /\ turn[t] \in TurnRecord /\ RecordInv(t, turn[t]) /\ turn[t].leg = "spending"
      /\ turn[t].conv \in Conversation
  BY FieldsTyped DEF IInv, TypeOK, TurnInv, SpendWon, Leg
<1> DEFINE q == turn[t].held.asked
           next == IF turn[t].aborted THEN "gone" ELSE IF turn[t].approved THEN "won" ELSE "settled"
           c == IF next = "settled" THEN [turn[t].conv EXCEPT ![q] = "declined"] ELSE turn[t].conv
           r == [turn[t] EXCEPT !.attempt = "spent", !.leg = next, !.conv = c]
<1>2. /\ r.door = turn[t].door /\ r.held = turn[t].held /\ r.conv = c /\ r.out = turn[t].out
      /\ r.attempt = "spent" /\ r.approved = turn[t].approved /\ r.step = turn[t].step
      /\ r.leg = next /\ r.aborted = turn[t].aborted /\ r.kind = turn[t].kind
  BY <1>1 DEF TurnRecord
<1>3. Only(t, r)
  BY DEF SpendWon, Only, Becomes
<1> HIDE DEF r
<1>4. Minted(q) /\ q \in Request /\ turn[t].step \notin {"idle", "read"}
  BY <1>1 DEF RecordInv, HeldInv, OnStage, PastCheck, Asks
<1>5. Used(t, IF turn[t].approved THEN "approve" ELSE "decline")
  BY DEF SpendWon, DecisionSpend, Spend, Used
<1>6. next \in {"gone", "won", "settled"} /\ (next = "settled" => ~turn[t].approved /\ ~turn[t].aborted)
      /\ (next = "won" => turn[t].approved)
  OBVIOUS
<1>7. /\ \A x \in Request : c[x] # turn[t].conv[x] => x = q /\ c[x] = "declined" /\ next = "settled"
      /\ next = "settled" => c[q] = "declined"
  BY <1>1, <1>4 DEF Conversation
<1> HIDE DEF next, c
<1>8. Used(t, "approve") \/ Used(t, "decline")
  BY <1>5
<1>9. HeldInv(r) /\ Keeps(turn[t], r)
  BY <1>1, <1>2, <1>6 DEF RecordInv, HeldInv, OnStage, PastCheck, Keeps
<1>10. SaidInv(r)
  <2>1. next = "settled" => DeclinedFor(q)
    BY <1>4, <1>6, <1>8, DeclineRecorded
  <2>2. Backed(c)
    BY <1>1, <1>7, <2>1 DEF RecordInv, SaidInv, Backed
  <2> QED BY <1>1, <1>2, <2>2 DEF RecordInv, SaidInv
<1>11. SpendInv(r)
  BY <1>1, <1>2 DEF RecordInv, SpendInv, PastCheck
<1>12. OpenInv(r)
  <2>1. \A x \in Request : c[x] = "open" => turn[t].conv[x] = "open"
    BY <1>7
  <2>2. /\ OpenOnly(turn[t].conv, q) => OpenOnly(c, q)
        /\ NoneOpen(turn[t].conv) => NoneOpen(c)
    BY <2>1 DEF OpenOnly, NoneOpen
  <2>3. next = "settled" => turn[t].step = "resume"
    BY <1>1, <1>6 DEF RecordInv, HeldInv, OnStage, PastCheck
  <2> QED BY <1>1, <1>2, <1>7, <2>2, <2>3 DEF RecordInv, OpenInv
<1>13. RanInv(t, r)
  BY <1>1, <1>2, <1>5, <1>6 DEF RecordInv, RanInv
<1> QED BY <1>3, <1>9, <1>10, <1>11, <1>12, <1>13, TurnOnly DEF RecordInv, SpendWon

\* A call that ran or was declined keeps the invariant: what the conversation says of
\* it is backed by the entry its turn won.
LEMMA CallSettledKeeps == ASSUME IInv, TypeOK', NEW t \in Turn, CallSettled(t) PROVE IInv'
<1>1. /\ turn[t] \in TurnRecord /\ RecordInv(t, turn[t]) /\ turn[t].leg \in {"executing", "won"}
      /\ turn[t].conv \in Conversation
  BY FieldsTyped DEF IInv, TypeOK, TurnInv, CallSettled, Leg
<1> DEFINE q == turn[t].held.asked
<1>2. Minted(q) /\ q \in Request /\ turn[t].step \notin {"idle", "read"}
  BY <1>1 DEF RecordInv, HeldInv, OnStage, PastCheck, Asks
<1>3. CASE turn[t].aborted
  <2> DEFINE r == [turn[t] EXCEPT !.leg = "gone"]
  <2>1. /\ r.door = turn[t].door /\ r.held = turn[t].held /\ r.approved = turn[t].approved
        /\ r.kind = turn[t].kind
        /\ r.conv = turn[t].conv /\ r.out = turn[t].out
        /\ r.step = turn[t].step /\ r.leg = "gone" /\ r.attempt = turn[t].attempt
        /\ r.aborted = turn[t].aborted
    BY <1>1 DEF TurnRecord
  <2> HIDE DEF r
  <2>2. Moves(t, r)
    BY <1>1, <1>2, <2>1 DEF Moves, RecordInv, HeldInv, OpenInv, OnStage, PastCheck, Asking, Writing
  <2>3. Only(t, r)
    BY <1>3 DEF CallSettled, Only, LegGoes, r
  <2> QED BY <2>2, <2>3, Moving DEF CallSettled
<1>4. CASE ~turn[t].aborted
  <2> DEFINE c == [turn[t].conv EXCEPT ![q] = "result"]
             r == [turn[t] EXCEPT !.leg = "settled", !.conv = c]
  <2>1. /\ r.door = turn[t].door /\ r.held = turn[t].held /\ r.approved = turn[t].approved
        /\ r.kind = turn[t].kind
        /\ r.conv = c /\ r.out = turn[t].out
        /\ r.step = turn[t].step /\ r.leg = "settled" /\ r.attempt = turn[t].attempt
        /\ r.aborted = turn[t].aborted
    BY <1>1 DEF TurnRecord
  <2>2. Only(t, r)
    BY <1>4 DEF CallSettled, Only, Becomes
  <2> HIDE DEF r
  <2>3. c[q] = "result" /\ \A x \in Request : c[x] # turn[t].conv[x] => c[x] = "result"
    BY <1>1, <1>2 DEF Conversation
  <2> HIDE DEF c
  <2>4. turn[t].step = "resume"
    BY <1>1, <1>4 DEF RecordInv, HeldInv, OnStage, PastCheck
  <2>5. HeldInv(r) /\ Keeps(turn[t], r)
    BY <1>1, <2>1, <2>4 DEF RecordInv, HeldInv, OnStage, PastCheck, Keeps, Asking, Writing
  <2>6. SaidInv(r)
    BY <1>1, <2>1, <2>3 DEF RecordInv, SaidInv, Backed
  <2>7. SpendInv(r) /\ RanInv(t, r)
    BY <1>1, <2>1 DEF RecordInv, SpendInv, RanInv, PastCheck
  <2>8. OpenInv(r)
    BY <1>1, <2>1, <2>3, <2>4 DEF RecordInv, OpenInv, OpenOnly
  <2> QED BY <2>2, <2>5, <2>6, <2>7, <2>8, TurnOnly DEF RecordInv, CallSettled
<1> QED BY <1>3, <1>4

\* What a run that goes on has of its paused call.
LEMMA RunsSettled ==
  ASSUME NEW t \in Turn, RecordInv(t, turn[t]), Runs(t)
  PROVE  turn[t].step \in {"run", "resume"} /\ NoneOpen(turn[t].conv)
BY DEF RecordInv, OpenInv, Runs, At, Leg, NoneOpen, OpenOnly

\* A conversation with no open question is a right thing to store.
LEMMA ConversationStored ==
  \A c : Backed(c) /\ NoneOpen(c) =>
           EnvelopeInv(ConversationEnvelope(c)) /\ CurrentPause(ConversationEnvelope(c))
BY DEF EnvelopeInv, CurrentPause, ConversationEnvelope, Asks, OpenAsked, OpenWaits

\* A run that completes keeps the invariant.
LEMMA RunCompletesKeeps == ASSUME IInv, TypeOK', NEW t \in Turn, RunCompletes(t) PROVE IInv'
<1>1. /\ turn[t] \in TurnRecord /\ RecordInv(t, turn[t])
      /\ turn[t].step \in {"run", "resume"} /\ NoneOpen(turn[t].conv)
  BY RunsSettled DEF IInv, TypeOK, TurnInv, RunCompletes
<1> DEFINE r == [turn[t] EXCEPT !.step = "deliver", !.leg = "none",
                                !.out = ConversationEnvelope(turn[t].conv)]
<1>2. /\ r.door = turn[t].door /\ r.held = turn[t].held /\ r.approved = turn[t].approved
      /\ r.kind = turn[t].kind
      /\ r.conv = turn[t].conv /\ r.out = ConversationEnvelope(turn[t].conv)
      /\ r.step = "deliver" /\ r.leg = "none" /\ r.attempt = turn[t].attempt
  BY <1>1 DEF TurnRecord
<1>3. Only(t, r)
  BY DEF RunCompletes, Only
<1> HIDE DEF r
<1>4. EnvelopeInv(r.out) /\ CurrentPause(r.out)
  BY <1>1, <1>2, ConversationStored DEF RecordInv, SaidInv
<1>5. HeldInv(r) /\ SaidInv(r) /\ SpendInv(r) /\ OpenInv(r) /\ RanInv(t, r) /\ Keeps(turn[t], r)
  BY <1>1, <1>2, <1>4 DEF RecordInv, HeldInv, SaidInv, SpendInv, OpenInv, RanInv, Keeps, OnStage,
                          PastCheck, Asking
<1> QED BY <1>3, <1>5, TurnOnly DEF RecordInv, RunCompletes

\* The turn a close leaves, whoever closes: its call is the only open one.
ClosedTurn(t, o) ==
  LET c == Settle(turn[t].conv, o) IN
  [turn[t] EXCEPT !.conv = c,
     !.step = IF turn[t].kind = "message" THEN "run" ELSE "closeWrite",
     !.out = ConversationEnvelope(c)]

\* Closing a call keeps the invariant, if `not run` is only said of a closed request.
LEMMA Closing ==
  ASSUME IInv, NEW t \in Turn, turn[t].step \in {"prove", "proving", "marking"},
         NEW o \in {"unknown", "notRun"}, o = "notRun" => ClosedFor(turn[t].held.asked),
         Closed(t, o), ran' = ran
  PROVE  /\ Only(t, ClosedTurn(t, o)) /\ Keeps(turn[t], ClosedTurn(t, o))
         /\ RecordInv(t, ClosedTurn(t, o))
<1> DEFINE q == turn[t].held.asked
           c == Settle(turn[t].conv, o)
           r == ClosedTurn(t, o)
<1>1. /\ turn[t] \in TurnRecord /\ RecordInv(t, turn[t]) /\ turn[t].conv \in Conversation
  BY FieldsTyped DEF IInv, TypeOK, TurnInv
<1>2. /\ r.door = turn[t].door /\ r.held = turn[t].held /\ r.approved = turn[t].approved
      /\ r.kind = turn[t].kind
      /\ r.conv = c /\ r.out = ConversationEnvelope(c)
      /\ r.step \in {"run", "closeWrite"} /\ (r.step = "run" => r.kind = "message")
      /\ r.leg = turn[t].leg /\ r.attempt = turn[t].attempt
      /\ r.aborted = turn[t].aborted
  BY <1>1 DEF TurnRecord, ClosedTurn
<1>3. Only(t, r)
  BY DEF Closed, Only, ClosedTurn
<1> HIDE DEF r
<1>4. \A x \in Request : c[x] = (IF turn[t].conv[x] = "open" THEN o ELSE turn[t].conv[x])
  BY DEF Settle
<1>5. OpenOnly(turn[t].conv, q) /\ turn[t].held.format = "waiting" /\ Current(q)
  BY <1>1 DEF RecordInv, HeldInv, OpenInv, Asking
<1> HIDE DEF c
<1>6. NoneOpen(c) /\ Backed(c)
  BY <1>1, <1>4, <1>5 DEF NoneOpen, OpenOnly, Backed, RecordInv, SaidInv
<1>7. ~(OnStage(turn[t]) /\ ~turn[t].aborted) /\ turn[t].leg # "settled"
  BY <1>1 DEF RecordInv, HeldInv, OpenInv
<1>8. HeldInv(r) /\ Keeps(turn[t], r)
  BY <1>1, <1>2, <1>5, <1>6, <1>7, ConversationStored DEF RecordInv, HeldInv, Keeps, OnStage, PastCheck,
                                                         Asking
<1>9. SaidInv(r)
  BY <1>1, <1>2, <1>6, ConversationStored DEF RecordInv, SaidInv
<1>10. SpendInv(r) /\ OpenInv(r) /\ RanInv(t, r)
  BY <1>1, <1>2, <1>6, <1>7 DEF RecordInv, SpendInv, OpenInv, RanInv
<1> QED BY <1>3, <1>8, <1>9, <1>10 DEF RecordInv, r

\* A marker, or a receipt of one, is proof of the close.
LEMMA RecordedClose ==
  ASSUME IInv, NEW d \in Door, NEW q \in Request, CloseRecorded(d, q)
  PROVE  ClosedFor(q)
<1>1. CASE Marked(LedgerOf(d), q)
  BY <1>1 DEF IInv, LedgerInv, EntryInv, Marked, KeyOf
<1>2. CASE LocalClose(d, q)
  BY <1>2, HostAssumption DEF IInv, LedgerInv, LocalClose
<1> QED BY <1>1, <1>2 DEF CloseRecorded

\* A close that came too late keeps the invariant.
LEMMA CloseLostKeeps == ASSUME IInv, TypeOK', NEW t \in Turn, CloseLost(t) PROVE IInv'
<1> DEFINE o == IF CloseRecorded(turn[t].door, turn[t].held.asked) THEN "notRun" ELSE "unknown"
<1>1. turn[t].step = "proving" /\ turn[t].door \in Door /\ turn[t].held.asked \in Request
  BY HeldTyped DEF CloseLost, At, Asking
<1>2. o = "notRun" => ClosedFor(turn[t].held.asked)
  BY <1>1, RecordedClose
<1>3. o \in {"unknown", "notRun"} /\ Closed(t, o)
  BY DEF CloseLost
<1> HIDE DEF o
<1> QED BY <1>1, <1>2, <1>3, Closing, TurnOnly DEF CloseLost

\* A ledger that throws on a close keeps the invariant: the call is left unknown.
LEMMA CloseThrowsKeeps == ASSUME IInv, TypeOK', NEW t \in Turn, CloseThrows(t) PROVE IInv'
BY Closing, TurnOnly DEF CloseThrows, At

\* A marker that could not be recorded keeps the invariant: the close had won.
LEMMA MarkerThrowsKeeps == ASSUME IInv, TypeOK', NEW t \in Turn, MarkerThrows(t) PROVE IInv'
<1>1. ClosedFor(turn[t].held.asked)
  BY DEF MarkerThrows, At, IInv, TurnInv, RecordInv, SpendInv
<1> QED BY <1>1, Closing, TurnOnly DEF MarkerThrows, At

\* The mark claims no more than what its turn knows of the answer.
LEMMA MarkBacked ==
  ASSUME IInv, NEW t \in Turn, turn[t].held.format = "waiting", NEW c, Backed(c)
  PROVE  EnvelopeInv(MarkAnswered(t, c)) /\ CurrentPause(MarkAnswered(t, c))
<1> DEFINE q == turn[t].held.asked
           o == IF SpentAsDecline(t) THEN "declined" ELSE "unknown"
           m == SettleCall(c, q, o)
<1>1. RecordInv(t, turn[t]) /\ q \in Request /\ Minted(q)
  BY DEF IInv, TurnInv, RecordInv, HeldInv, Asks
<1>2. o = "declined" => DeclinedFor(q)
  <2> SUFFICES ASSUME NEW u \in heard[t], turn[u].attempt = "spent", ~turn[u].approved
               PROVE  DeclinedFor(q)
    BY DEF SpentAsDecline
  <2>1. u \in Turn /\ turn[u].held.asked = q
    BY DEF IInv, HeardInv, Hears
  <2>2. Used(u, "approve") \/ Used(u, "decline")
    BY <2>1 DEF IInv, TurnInv, RecordInv, RanInv
  <2> QED BY <1>1, <2>1, <2>2, DeclineRecorded
<1>3. /\ \A x \in Request : m[x] = (IF c[x] # "open" THEN c[x] ELSE IF x = q THEN o ELSE "unknown")
      /\ o \in {"declined", "unknown"}
  BY DEF SettleCall
<1>4. /\ MarkAnswered(t, c).format = "answered" /\ MarkAnswered(t, c).asked = q
      /\ MarkAnswered(t, c).conv = m
  BY DEF MarkAnswered
<1> HIDE DEF m, o
<1>5. NoneOpen(m) /\ Backed(m)
  BY <1>2, <1>3 DEF NoneOpen, Backed
<1> QED BY <1>1, <1>4, <1>5 DEF EnvelopeInv, CurrentPause, Asks, OpenAsked, OpenWaits

\* Reading the session to mark it keeps the invariant (markAnswered).
LEMMA MarkReadKeeps == ASSUME IInv, TypeOK', NEW t \in Turn, MarkRead(t) PROVE IInv'
<1>1. /\ turn[t] \in TurnRecord /\ RecordInv(t, turn[t]) /\ turn[t].step = "markRead"
      /\ Backed(stored.conv)
  BY DEF IInv, TypeOK, TurnInv, MarkRead, At, StoredInv, EnvelopeInv
<1>2. CASE Goes(t, "done")
  BY <1>1, <1>2, DoneAtOnce, GivesUp DEF MarkRead, TurnRecord
<1>3. ASSUME NEW c \in {stored.conv, turn[t].held.conv}, NEW b \in BOOLEAN,
             Becomes(t, [turn[t] EXCEPT !.step = "markWrite", !.unread = b,
                                        !.out = MarkAnswered(t, c)])
      PROVE  IInv'
  <2> DEFINE r == [turn[t] EXCEPT !.step = "markWrite", !.unread = b, !.out = MarkAnswered(t, c)]
  <2>1. /\ r.door = turn[t].door /\ r.held = turn[t].held /\ r.approved = turn[t].approved
        /\ r.kind = turn[t].kind
        /\ r.conv = turn[t].conv /\ r.out = MarkAnswered(t, c)
        /\ r.step = "markWrite" /\ r.leg = turn[t].leg /\ r.attempt = turn[t].attempt
        /\ r.aborted = turn[t].aborted
    BY <1>1 DEF TurnRecord
  <2>2. Only(t, r)
    BY <1>3 DEF MarkRead, Only
  <2> HIDE DEF r
  <2>3. turn[t].held.format = "waiting" /\ Current(turn[t].held.asked)
    BY <1>1 DEF RecordInv, HeldInv, Asking
  <2>4. EnvelopeInv(r.out) /\ CurrentPause(r.out)
    <3>1. Backed(c)
      BY <1>1 DEF RecordInv, SaidInv
    <3> QED BY <2>1, <2>3, <3>1, MarkBacked
  <2>5. ~(OnStage(turn[t]) /\ ~turn[t].aborted) /\ turn[t].leg # "settled"
    BY <1>1 DEF RecordInv, HeldInv, OpenInv
  <2>6. HeldInv(r) /\ SaidInv(r) /\ Keeps(turn[t], r)
    BY <1>1, <2>1, <2>3, <2>4, <2>5 DEF RecordInv, HeldInv, SaidInv, Keeps, OnStage
  <2>7. SpendInv(r) /\ OpenInv(r) /\ RanInv(t, r)
    BY <1>1, <2>1, <2>5 DEF RecordInv, SpendInv, OpenInv, RanInv
  <2> QED BY <2>2, <2>6, <2>7, TurnOnly DEF RecordInv, MarkRead
<1>4. \/ Goes(t, "done")
      \/ \E c \in {stored.conv, turn[t].held.conv}, b \in BOOLEAN :
           Becomes(t, [turn[t] EXCEPT !.step = "markWrite", !.unread = b,
                                      !.out = MarkAnswered(t, c)])
  <2>1. /\ [turn[t] EXCEPT !.step = "markWrite", !.out = MarkAnswered(t, stored.conv)]
             = [turn[t] EXCEPT !.step = "markWrite", !.unread = turn[t].unread,
                               !.out = MarkAnswered(t, stored.conv)]
        /\ [turn[t] EXCEPT !.step = "markWrite", !.out = MarkAnswered(t, turn[t].held.conv)]
             = [turn[t] EXCEPT !.step = "markWrite", !.unread = turn[t].unread,
                               !.out = MarkAnswered(t, turn[t].held.conv)]
        /\ turn[t].unread \in BOOLEAN
    BY <1>1 DEF TurnRecord
  <2> QED BY <2>1 DEF MarkRead
<1> QED BY <1>2, <1>3, <1>4

\* Reading the session to close its pause keeps the invariant (closeUnanswerable).
LEMMA CloseReadKeeps == ASSUME IInv, TypeOK', NEW t \in Turn, CloseRead(t) PROVE IInv'
<1>1. /\ turn[t] \in TurnRecord /\ RecordInv(t, turn[t]) /\ turn[t].step = "closeRead"
      /\ EnvelopeInv(stored)
  BY DEF IInv, TypeOK, TurnInv, CloseRead, At, StoredInv
<1>2. CASE Goes(t, "done")
  BY <1>1, <1>2, DoneAtOnce, GivesUp DEF CloseRead, TurnRecord
<1>3. CASE Becomes(t, [turn[t] EXCEPT !.step = "done", !.storeFailed = TRUE])
  BY <1>1, <1>3, GivesUp DEF CloseRead
<1>4. CASE Waiting(stored, turn[t].held.asked)
           /\ Becomes(t, [turn[t] EXCEPT !.conv = stored.conv, !.step = "prove"])
  <2> DEFINE r == [turn[t] EXCEPT !.conv = stored.conv, !.step = "prove"]
  <2>1. /\ r.door = turn[t].door /\ r.held = turn[t].held /\ r.approved = turn[t].approved
        /\ r.kind = turn[t].kind
        /\ r.conv = stored.conv /\ r.out = turn[t].out
        /\ r.step = "prove" /\ r.leg = turn[t].leg /\ r.attempt = turn[t].attempt
        /\ r.aborted = turn[t].aborted
    BY <1>1 DEF TurnRecord
  <2>2. Only(t, r)
    BY <1>4 DEF CloseRead, Only
  <2> HIDE DEF r
  <2>3. ~(OnStage(turn[t]) /\ ~turn[t].aborted) /\ turn[t].leg # "settled"
    BY <1>1 DEF RecordInv, HeldInv, OpenInv
  <2>4. HeldInv(r) /\ SaidInv(r) /\ Keeps(turn[t], r)
    BY <1>1, <2>1, <2>3 DEF RecordInv, HeldInv, SaidInv, Keeps, OnStage, Asking, Writing, EnvelopeInv
  <2>5. OpenOnly(stored.conv, turn[t].held.asked)
    BY <1>1, <1>4 DEF Waiting, EnvelopeInv, OpenWaits
  <2>6. SpendInv(r) /\ OpenInv(r) /\ RanInv(t, r)
    BY <1>1, <2>1, <2>3, <2>5 DEF RecordInv, SpendInv, OpenInv, RanInv
  <2> QED BY <2>2, <2>4, <2>6, TurnOnly DEF RecordInv, CloseRead
<1> QED BY <1>2, <1>3, <1>4 DEF CloseRead

-----------------------------------------------------------------------------
(* Steps that change what the ledgers, the pauses or the store hold        *)

\* A ledger records what it is handed at most once and forgets nothing.
LEMMA SendRecords ==
  ASSUME SpentOnce, NEW w, Send(w)
  PROVE  /\ SpentOnce' /\ spent \subseteq spent'
         /\ \A e \in spent' \cup wire' : e \in spent \cup wire \/ e = w
BY DEF Send, SpentOnce, Recorded

\* A turn that sends a spend its ledger may take.
LEMMA Sending ==
  ASSUME IInv, TypeOK', UNCHANGED <<build, life, receipts, pending, stored>>, HeardMore,
         NEW t \in Turn, NEW r, NEW w \in Entry, Send(w), EntryInv(w), Only(t, r), Keeps(turn[t], r),
         RecordInv(t, r) \/ RecordInv(t, r)'
  PROVE  IInv'
<1>1. /\ SpentOnce' /\ spent \subseteq spent'
      /\ \A e \in spent' \cup wire' : e \in spent \cup wire \/ e = w
  BY SendRecords DEF IInv, LedgerInv
<1>2. Kept
  BY <1>1 DEF Kept
<1>3. StoredInv'
  BY <1>2, StoredKept DEF IInv, StoredInv
<1> QED BY <1>1, <1>2, <1>3, OneTurnSteps, AnyStep

\* Handing a decision to the ledger keeps the invariant.
LEMMA SpendDecisionKeeps == ASSUME IInv, TypeOK', NEW t \in Turn, SpendDecision(t) PROVE IInv'
<1>1. /\ turn[t] \in TurnRecord /\ RecordInv(t, turn[t]) /\ turn[t].leg = "held"
      /\ ~turn[t].aborted
  BY DEF IInv, TypeOK, TurnInv, SpendDecision, Leg
<1>r. PICK r : r = [turn[t] EXCEPT !.leg = "spending", !.attempt = "unanswered"]
  OBVIOUS
<1> DEFINE q == turn[t].held.asked
           w == DecisionSpend(t)
<1>2. /\ r.door = turn[t].door /\ r.held = turn[t].held /\ r.approved = turn[t].approved
      /\ r.conv = turn[t].conv /\ r.out = turn[t].out /\ r.kind = turn[t].kind
      /\ r.step = turn[t].step /\ r.leg = "spending" /\ r.attempt = "unanswered"
      /\ r.aborted = turn[t].aborted
  BY <1>1, <1>r DEF TurnRecord
<1>3. Only(t, r)
  BY <1>r DEF SpendDecision, Only
<1>4. turn[t].step = "resume" /\ q \in Request /\ Minted(q)
  BY <1>1 DEF RecordInv, HeldInv, OnStage, PastCheck, Asks
<1>5. /\ w.request = q /\ w.ledger = LedgerOf(turn[t].door) /\ w.by = t
      /\ w.use \in {"approve", "decline"} /\ (turn[t].approved <=> w.use = "approve")
  BY DEF DecisionSpend, Spend
<1>6. OneLedger(q) => w.ledger = pending[q].ledger
  BY <1>1, <1>5 DEF RecordInv, SpendInv, PastCheck
<1>7. w \in Entry
  BY <1>1, <1>4, SpendTyped DEF DecisionSpend, OnStage, PastCheck
<1> HIDE DEF w
<1>8. EntryInv(w)
  BY <1>4, <1>5, <1>6 DEF EntryInv, DecisionUse
<1>9. HeldInv(r) /\ SaidInv(r) /\ Keeps(turn[t], r)
  BY <1>1, <1>2, <1>4 DEF RecordInv, HeldInv, SaidInv, OnStage, PastCheck, Keeps
<1>10. SpendInv(r) /\ OpenInv(r)
  BY <1>1, <1>2, <1>4 DEF RecordInv, SpendInv, OpenInv, PastCheck
<1>11. Send(w) /\ UNCHANGED <<build, life, receipts, pending, stored, ran>>
  BY DEF SpendDecision, w
<1>12. HeardMore /\ t \in heard'[t]
  <2>1. Watches(t, t)
    BY <1>1, <1>4 DEF RecordInv, HeldInv, OnStage, PastCheck, Watches
  <2> QED BY <1>4, <2>1, HeardNew DEF SpendDecision, HeardOf, IInv
<1>13. RecordInv(t, r)'
  <2>1. Kept
    BY <1>11, <1>12, SendRecords DEF Kept, IInv, LedgerInv
  <2>2. RanInv(t, r)'
    <3>1. Used(t, "approve") => Used(t, "approve")'
      BY <2>1 DEF Used, Kept
    <3> QED BY <1>1, <1>2, <1>11, <1>12, <3>1 DEF RecordInv, RanInv
  <2>3. GoesOn(r.door)
    BY <1>11, <2>1, NoRestart
  <2> QED BY <1>9, <1>10, <2>1, <2>2, <2>3, RecordGoesOn DEF RecordInv
<1> QED BY <1>3, <1>7, <1>8, <1>9, <1>11, <1>12, <1>13, Sending

\* A door may prove a request only with the one ledger the request is decided in.
LEMMA ProvingLedger ==
  ASSUME NEW d \in Door, NEW q \in Request, Minted(q), Proving(d, q)
  PROVE  OneLedger(q) /\ LedgerOf(d) = pending[q].ledger
BY DEF Proving, OneLedger, Identified, IdentityOf

\* Handing a close to the ledger keeps the invariant (proveNeverRan).
LEMMA ProveNeverRanKeeps == ASSUME IInv, TypeOK', NEW t \in Turn, ProveNeverRan(t) PROVE IInv'
<1>1. /\ turn[t] \in TurnRecord /\ RecordInv(t, turn[t]) /\ turn[t].step = "prove"
  BY DEF IInv, TypeOK, TurnInv, ProveNeverRan, At
<1> DEFINE r == [turn[t] EXCEPT !.step = "proving"]
           q == turn[t].held.asked
           w == CloseSpend(t)
<1>2. /\ r.door = turn[t].door /\ r.held = turn[t].held /\ r.approved = turn[t].approved
      /\ r.conv = turn[t].conv /\ r.out = turn[t].out /\ r.kind = turn[t].kind
      /\ r.step = "proving" /\ r.leg = turn[t].leg /\ r.attempt = turn[t].attempt
      /\ r.aborted = turn[t].aborted
  BY <1>1 DEF TurnRecord
<1> HIDE DEF r
<1>3. q \in Request /\ Minted(q) /\ turn[t].door \in Door
  BY <1>1, HeldTyped DEF Asking
<1>4. CASE Proving(turn[t].door, q)
  <2>1. OneLedger(q) /\ LedgerOf(turn[t].door) = pending[q].ledger
    BY <1>3, <1>4, ProvingLedger
  <2>2. Only(t, r) /\ Send(w)
    BY <1>4 DEF ProveNeverRan, Only, Goes, r
  <2>3. w.request = q /\ w.ledger = LedgerOf(turn[t].door) /\ w.use = "close"
    BY DEF CloseSpend, Spend
  <2>4. w \in Entry
    BY <1>1, SpendTyped DEF CloseSpend, Asking
  <2> HIDE DEF w
  <2>5. EntryInv(w)
    BY <1>3, <2>1, <2>3 DEF EntryInv, DecisionUse
  <2>6. ~(OnStage(turn[t]) /\ ~turn[t].aborted) /\ turn[t].leg # "settled"
    BY <1>1 DEF RecordInv, HeldInv, OpenInv
  <2>7. HeldInv(r) /\ SaidInv(r) /\ Keeps(turn[t], r)
    BY <1>1, <1>2, <2>6 DEF RecordInv, HeldInv, SaidInv, OnStage, Keeps, Asking, Writing
  <2>8. SpendInv(r) /\ OpenInv(r) /\ RanInv(t, r)
    BY <1>1, <1>2, <2>1, <2>6 DEF RecordInv, SpendInv, OpenInv, RanInv
  <2>9. UNCHANGED <<build, life, receipts, pending, stored>> /\ HeardMore
    BY DEF ProveNeverRan, memory, HeardMore
  <2> QED BY <2>2, <2>4, <2>5, <2>7, <2>8, <2>9, Sending DEF RecordInv
<1>5. CASE ~Proving(turn[t].door, q)
  BY <1>1, <1>5, Closing, TurnOnly DEF ProveNeverRan
<1> QED BY <1>4, <1>5

\* A close the ledger took keeps the invariant: no decision can take the request now.
LEMMA CloseWonKeeps == ASSUME IInv, TypeOK', NEW t \in Turn, CloseWon(t) PROVE IInv'
<1>1. /\ turn[t] \in TurnRecord /\ RecordInv(t, turn[t]) /\ turn[t].step = "proving"
  BY DEF IInv, TypeOK, TurnInv, CloseWon, At
<1> DEFINE r == [turn[t] EXCEPT !.step = "marking"]
           q == turn[t].held.asked
           w == MarkerSpend(t)
<1>2. /\ r.door = turn[t].door /\ r.held = turn[t].held /\ r.approved = turn[t].approved
      /\ r.conv = turn[t].conv /\ r.out = turn[t].out /\ r.kind = turn[t].kind
      /\ r.step = "marking" /\ r.leg = turn[t].leg /\ r.attempt = turn[t].attempt
      /\ r.aborted = turn[t].aborted
  BY <1>1 DEF TurnRecord
<1> HIDE DEF r
<1>3. q \in Request /\ Minted(q)
  BY <1>1, HeldTyped DEF Asking
<1>4. OneLedger(q) /\ LedgerOf(turn[t].door) = pending[q].ledger
  BY <1>1 DEF RecordInv, SpendInv
<1>5. ClosedFor(q)
  BY <1>4 DEF CloseWon, CloseSpend, Spend, ClosedFor, RecordedFor
<1>6. Only(t, r) /\ Send(w)
  BY DEF CloseWon, Only, Goes, r
<1>7. w.request = q /\ w.ledger = LedgerOf(turn[t].door) /\ w.use = "marker"
  BY DEF MarkerSpend, Spend
<1>8. w \in Entry
  BY <1>1, SpendTyped DEF MarkerSpend, Asking
<1> HIDE DEF w
<1>9. EntryInv(w)
  BY <1>3, <1>4, <1>5, <1>7 DEF EntryInv, DecisionUse
<1>10. ~(OnStage(turn[t]) /\ ~turn[t].aborted) /\ turn[t].leg # "settled"
  BY <1>1 DEF RecordInv, HeldInv, OpenInv
<1>11. HeldInv(r) /\ SaidInv(r) /\ Keeps(turn[t], r)
  BY <1>1, <1>2, <1>10 DEF RecordInv, HeldInv, SaidInv, OnStage, Keeps, Asking, Writing
<1>12. SpendInv(r) /\ OpenInv(r) /\ RanInv(t, r)
  BY <1>1, <1>2, <1>4, <1>5, <1>10 DEF RecordInv, SpendInv, OpenInv, RanInv
<1>13. UNCHANGED <<build, life, receipts, pending, stored>> /\ HeardMore
  BY DEF CloseWon, memory, HeardMore
<1> QED BY <1>6, <1>8, <1>9, <1>11, <1>12, <1>13, Sending DEF RecordInv

\* A recorded close keeps the invariant.
LEMMA CloseMarkedKeeps == ASSUME IInv, TypeOK', NEW t \in Turn, CloseMarked(t) PROVE IInv'
<1> DEFINE r == ClosedTurn(t, "notRun")
           q == turn[t].held.asked
<1>1. turn[t].step = "marking" /\ ClosedFor(q)
  BY DEF CloseMarked, At, IInv, TurnInv, RecordInv, SpendInv
<1>2. Only(t, r) /\ Keeps(turn[t], r) /\ RecordInv(t, r)
  BY <1>1, Closing DEF CloseMarked
<1> HIDE DEF r
<1>3. Kept /\ UNCHANGED <<build, life>>
  BY DEF Kept, HeardMore, CloseMarked
<1>4. StoredInv' /\ SpentOnce'
  BY <1>3, StoredKept DEF IInv, StoredInv, LedgerInv, SpentOnce, CloseMarked
<1>5. \A h \in Process : \A x \in receipts'[h] : x \in receipts[h] \/ ClosedFor(x)
  BY <1>1 DEF CloseMarked, IInv, TypeOK
<1> QED BY <1>2, <1>3, <1>4, <1>5, OneTurnSteps, AnyStep DEF CloseMarked

\* A run that pauses to ask keeps the invariant: its request is new to every ledger.
LEMMA RunPausesKeeps ==
  ASSUME IInv, TypeOK', NEW t \in Turn, NEW q \in Request, RunPauses(t, q) PROVE IInv'
<1>c. PICK c : c = [turn[t].conv EXCEPT ![q] = "open"]
  OBVIOUS
<1>r. PICK r : r = [turn[t] EXCEPT !.step = "deliver", !.leg = "none", !.conv = c,
                                   !.out = [format |-> "waiting", asked |-> q, conv |-> c]]
  OBVIOUS
<1>d. PICK d : d = turn[t].door
  OBVIOUS
<1>h. PICK h : h = turn[t].held
  OBVIOUS
<1>1. /\ turn[t] \in TurnRecord /\ RecordInv(t, turn[t]) /\ turn[t].conv \in Conversation
      /\ turn[t].step \in {"run", "resume"} /\ NoneOpen(turn[t].conv)
  BY RunsSettled, FieldsTyped DEF IInv, TypeOK, TurnInv, RunPauses
<1>2. /\ r.door = d /\ r.held = h /\ r.approved = turn[t].approved
      /\ r.conv = c /\ r.out = [format |-> "waiting", asked |-> q, conv |-> c]
      /\ r.kind = turn[t].kind
      /\ r.step = "deliver" /\ r.leg = "none" /\ r.attempt = turn[t].attempt
  BY <1>1, <1>r, <1>d, <1>h DEF TurnRecord
<1>3. Only(t, r) /\ Keeps(turn[t], r)
  BY <1>1, <1>2, <1>c, <1>r, <1>h DEF RunPauses, Only, Keeps
<1>4. /\ ~Minted(q) /\ d \in Door
      /\ pending'[q] = [minted |-> TRUE, ledger |-> IdentityOf(d), rules |-> build[d].rules,
                        carrier |-> build[d].carrier, door |-> d]
      /\ \A x \in Request : x # q => pending'[x] = pending[x]
  BY <1>1, <1>d, HeldTyped DEF RunPauses, IInv, TypeOK
<1>5. Kept /\ UNCHANGED <<build, life, receipts>>
  BY <1>4 DEF Kept, HeardMore, RunPauses, memory
<1>6. Minted(q)' /\ Current(q)'
  <2>1. Minted(q)'
    BY <1>4 DEF Minted
  <2>2. pending'[q].ledger.kind = "process" => pending'[q].ledger = ProcessLedger(HostOf[d])
    BY <1>4 DEF IdentityOf, LedgerOf, NoIdentity, SharedLedger, OwnLedger
  <2>3. StoreIsLocal => \A x \in Door : HostOf[x] = HostOf[d]
    BY <1>4, StoreAssumption
  <2> QED BY <1>5, <2>1, <2>2, <2>3 DEF Current, ProcessLedger
<1>7. /\ \A x \in Request : c[x] = (IF x = q THEN "open" ELSE turn[t].conv[x])
      /\ OpenOnly(c, q)
  BY <1>1, <1>c DEF Conversation, OpenOnly, NoneOpen
<1>8. Backed(c)'
  BY <1>1, <1>5, <1>7, ClaimsKept DEF RecordInv, SaidInv, Backed
<1>9. Backed(h.conv)' /\ Asks(h)'
  BY <1>1, <1>h, <1>5, ClaimsKept DEF RecordInv, SaidInv, HeldInv, Backed, Asks
<1>10. EnvelopeInv(r.out)' /\ CurrentPause(r.out)'
  BY <1>2, <1>6, <1>7, <1>8 DEF EnvelopeInv, CurrentPause, Asks, OpenAsked, OpenWaits, OpenOnly
<1>11. HeldInv(r)'
  <2>1. turn[t].kind # "message" =>
          h.format = "waiting" /\ Current(h.asked) /\ h.asked \in Request /\ Minted(h.asked)
    BY <1>1, <1>h DEF RecordInv, HeldInv, Asking, Asks
  <2>2. Current(h.asked) /\ h.asked \in Request /\ Minted(h.asked) => Current(h.asked)'
    BY <1>5, NoRestart DEF GoesOn
  <2> QED BY <1>2, <1>4, <1>9, <1>10, <2>1, <2>2 DEF HeldInv, OnStage, PastCheck, Asking, Writing
<1>12. SaidInv(r)' /\ SpendInv(r)' /\ OpenInv(r)' /\ RanInv(t, r)'
  BY <1>1, <1>2, <1>8, <1>9, <1>10, <1>5 DEF RecordInv, SaidInv, SpendInv, OpenInv, RanInv, PastCheck,
                                             RunPauses, Used, Kept, HeardMore
<1>13. RecordInv(t, r)'
  BY <1>11, <1>12 DEF RecordInv
<1>14. StoredInv' /\ SpentOnce'
  BY <1>5, StoredKept DEF IInv, StoredInv, LedgerInv, SpentOnce, RunPauses
<1> QED BY <1>3, <1>5, <1>13, <1>14, OneTurnSteps, AnyStep DEF RunPauses

\* Progress the durable writer stores keeps the invariant.
LEMMA ProgressLandsKeeps == ASSUME IInv, TypeOK', NEW t \in Turn, ProgressLands(t) PROVE IInv'
<1>1. RecordInv(t, turn[t])
  BY DEF IInv, TurnInv
<1>2. NoneOpen(turn[t].conv) /\ Backed(turn[t].conv)
  BY <1>1 DEF ProgressLands, At, Leg, RecordInv, OpenInv, SaidInv, NoneOpen, OpenOnly
<1>3. Kept /\ UNCHANGED <<build, life, receipts>>
  BY DEF Kept, HeardMore, ProgressLands, memory
<1>4. StoredInv' /\ SpentOnce'
  BY <1>2, <1>3, ConversationStored, StoredKept DEF ProgressLands, IInv, LedgerInv, SpentOnce
<1> QED BY <1>3, <1>4, NoTurnSteps, AnyStep DEF ProgressLands

\* The door stores what it was about to, or fails to, and is done or watches.
LEMMA Storing ==
  ASSUME IInv, TypeOK', UNCHANGED <<memory, pending, spent, wire, ran>>, NEW t \in Turn,
         turn[t].step \in Writing, stored' \in {stored, turn[t].out},
         NEW failed \in BOOLEAN, NEW step \in {"done", "watch"},
         step = "watch" => turn[t].step = "deliver" /\ turn[t].kind # "message",
         Becomes(t, [turn[t] EXCEPT !.step = step, !.storeFailed = failed])
  PROVE  IInv'
<1> DEFINE r == [turn[t] EXCEPT !.step = step, !.storeFailed = failed]
<1>1. turn[t] \in TurnRecord /\ RecordInv(t, turn[t]) /\ StoredInv
  BY DEF IInv, TypeOK, TurnInv
<1>2. /\ r.door = turn[t].door /\ r.held = turn[t].held /\ r.approved = turn[t].approved
      /\ r.conv = turn[t].conv /\ r.out = turn[t].out /\ r.kind = turn[t].kind
      /\ r.step = step /\ r.leg = turn[t].leg /\ r.attempt = turn[t].attempt
      /\ r.aborted = turn[t].aborted
  BY <1>1 DEF TurnRecord
<1>3. Only(t, r) /\ Keeps(turn[t], r)
  BY <1>2 DEF Only, Keeps
<1> HIDE DEF r
<1>4. ~(OnStage(turn[t]) /\ ~turn[t].aborted) /\ turn[t].leg # "settled"
  BY <1>1 DEF RecordInv, HeldInv, OpenInv, Writing
<1>5. HeldInv(r) /\ SaidInv(r)
  BY <1>1, <1>2, <1>4 DEF RecordInv, HeldInv, SaidInv, OnStage, Asking, Writing
<1>6. SpendInv(r) /\ OpenInv(r) /\ RanInv(t, r)
  BY <1>1, <1>2, <1>4 DEF RecordInv, HeldInv, SpendInv, OpenInv, RanInv
<1>7. Kept /\ UNCHANGED <<build, life, receipts>>
  BY DEF Kept, HeardMore, memory
<1>8. EnvelopeInv(turn[t].out) /\ CurrentPause(turn[t].out)
  BY <1>1 DEF RecordInv, SaidInv, HeldInv
<1>9. StoredInv' /\ SpentOnce'
  BY <1>1, <1>7, <1>8, StoredKept DEF StoredInv, IInv, LedgerInv, SpentOnce
<1> QED BY <1>3, <1>5, <1>6, <1>7, <1>9, OneTurnSteps, AnyStep DEF RecordInv

\* A persist stores what it was given, or fails with or without it stored.
LEMMA PersistStores ==
  ASSUME NEW t \in Turn, turn[t] \in TurnRecord, NEW step, Persist(t, step) \/ PersistFails(t, step)
  PROVE  /\ \E failed \in BOOLEAN :
              Becomes(t, [turn[t] EXCEPT !.step = step, !.storeFailed = failed])
         /\ stored' \in {stored, turn[t].out}
         /\ UNCHANGED <<memory, pending, spent, wire, ran>>
<1>1. CASE Persist(t, step)
  <2>1. /\ [turn[t] EXCEPT !.step = step]
             = [turn[t] EXCEPT !.step = step, !.storeFailed = turn[t].storeFailed]
        /\ turn[t].storeFailed \in BOOLEAN
    BY DEF TurnRecord
  <2> QED BY <1>1, <2>1 DEF Persist, Goes
<1>2. CASE PersistFails(t, step)
  BY <1>2 DEF PersistFails
<1> QED BY <1>1, <1>2

\* Every write of the door keeps the invariant: it stores what it was about to say.
LEMMA WritesKeep ==
  ASSUME IInv, TypeOK', NEW t \in Turn, Deliver(t) \/ MarkWrite(t) \/ CloseWrite(t) PROVE IInv'
<1>1. turn[t] \in TurnRecord /\ turn[t].kind \in {"none", "message", "decision"}
  BY DEF IInv, TypeOK, TurnRecord, Kind
<1>2. /\ turn[t].step \in Writing /\ turn[t].step # "idle"
  BY DEF Deliver, MarkWrite, CloseWrite, At, Writing
<1>3. PICK step \in {"done", "watch"} :
        /\ Persist(t, step) \/ PersistFails(t, step)
        /\ step = "watch" => turn[t].step = "deliver" /\ turn[t].kind # "message"
  BY DEF Deliver, MarkWrite, CloseWrite, At
<1>4. PICK failed \in BOOLEAN : Becomes(t, [turn[t] EXCEPT !.step = step, !.storeFailed = failed])
  BY <1>1, <1>3, PersistStores
<1>5. stored' \in {stored, turn[t].out} /\ UNCHANGED <<memory, pending, spent, wire, ran>>
  BY <1>1, <1>3, PersistStores
<1>6. step = "watch" => turn[t].step = "deliver" /\ turn[t].kind # "message"
  BY <1>1, <1>2, <1>3
<1> QED BY <1>2, <1>4, <1>5, <1>6, Storing

\* A session that was never stored is right.
LEMMA NothingStored == EnvelopeInv(NoEnvelope) /\ CurrentPause(NoEnvelope)
BY DEF EnvelopeInv, CurrentPause, Backed, Asks, OpenAsked, OpenWaits, NoneOpen, NoEnvelope,
       NewConversation

\* Late ledgers, redeploys and restarts keep the invariant.
LEMMA WorldKeeps == ASSUME IInv, TypeOK', World PROVE IInv'
<1>1. ASSUME NEW w \in wire, Apply(w) PROVE IInv'
  <2>1. /\ Kept /\ UNCHANGED <<build, life, receipts>>
        /\ \A e \in spent' \cup wire' : e \in spent \cup wire
    BY <1>1 DEF Kept, HeardMore, Apply, memory
  <2>2. SpentOnce'
    BY <1>1 DEF Apply, SpentOnce, Recorded, IInv, LedgerInv
  <2>3. StoredInv'
    BY <1>1, <2>1, StoredKept DEF Apply, IInv, StoredInv
  <2> QED BY <1>1, <2>1, <2>2, <2>3, NoTurnSteps, AnyStep DEF Apply
<1>2. ASSUME NEW p \in Process, NEW q \in Request, Evict(p, q) PROVE IInv'
  <2>1. /\ Kept /\ UNCHANGED <<build, life>>
        /\ \A h \in Process : receipts'[h] \subseteq receipts[h]
    BY <1>2 DEF Kept, HeardMore, Evict, IInv, TypeOK
  <2>2. StoredInv' /\ SpentOnce'
    BY <1>2, <2>1, StoredKept DEF Evict, IInv, StoredInv, LedgerInv, SpentOnce
  <2> QED BY <1>2, <2>1, <2>2, NoTurnSteps, AnyStep DEF Evict
<1>3. CASE Expire
  <2>1. Kept /\ UNCHANGED <<build, life, receipts>>
    BY <1>3 DEF Kept, HeardMore, Expire, memory
  <2>2. StoredInv' /\ SpentOnce'
    BY <1>3, NothingStored, <2>1, StoredKept DEF Expire, IInv, LedgerInv, SpentOnce
  <2> QED BY <1>3, <2>1, <2>2, NoTurnSteps, AnyStep DEF Expire
<1>4. ASSUME NEW p \in Process, Restart(p) PROVE IInv'
  <2>1. /\ Kept /\ SpentOnce'
        /\ \A h \in Process : receipts'[h] \subseteq receipts[h]
    BY <1>4 DEF Kept, HeardMore, Restart, IInv, TypeOK, LedgerInv, SpentOnce
  <2>2. StoredInv'
    <3>1. CASE StoreIsLocal
      BY <1>4, <3>1, <2>1, NothingStored DEF Restart, StoredInv, EnvelopeInv, CurrentPause, Backed,
             Asks, OpenAsked, OpenWaits, NoneOpen, OpenOnly, NoEnvelope, NewConversation
    <3>2. CASE ~StoreIsLocal
      BY <1>4, <3>2, <2>1, ClaimsKept DEF Restart, IInv, StoredInv, EnvelopeInv, CurrentPause, Backed,
             Asks, OpenAsked, OpenWaits, NoneOpen, OpenOnly, Current
    <3> QED BY <3>1, <3>2
  <2>3. ASSUME NEW u \in Turn PROVE TurnInv(u)' /\ Keeps(turn[u], turn'[u])
    <3>1. turn[u] \in TurnRecord /\ RecordInv(u, turn[u])
      BY DEF IInv, TypeOK, TurnInv
    <3>2. CASE turn[u].step = "idle"
      <4>1. turn'[u] = turn[u] /\ Quiet(turn[u])
        BY <1>4, <3>1, <3>2 DEF Restart, Quiet, Ended, RecordInv, HeldInv
      <4> QED BY <1>4, <2>1, <3>1, <3>2, <4>1, RecordKept DEF TurnInv, Keeps, Restart
    <3>3. CASE turn[u].step # "idle" /\ HostOf[turn[u].door] # p
      <4>1. turn'[u] = turn[u] /\ turn[u].door \in Door
        BY <1>4, <3>3, HeldTyped DEF Restart
      <4>2. /\ build'[turn[u].door] = build[turn[u].door]
            /\ \A h \in Process : h # p => life'[h] = life[h]
        BY <1>4, <3>3, <4>1 DEF Restart, IInv, TypeOK
      <4>3. GoesOn(turn[u].door)
        <5>1. StoreIsLocal => \A x \in Door : HostOf[x] # p
          BY <3>3, <4>1, StoreAssumption
        <5>2. \A q \in Request : Minted(q) => (Current(q) <=> Current(q)')
          BY <2>1, <4>2, <5>1, HostAssumption DEF Kept, Current, ProcessLedger
        <5>3. LedgerOf(turn[u].door)' = LedgerOf(turn[u].door)
          BY <3>3, <4>1, <4>2, HostAssumption DEF LedgerOf, SharedLedger, ProcessLedger, OwnLedger
        <5> QED BY <5>2, <5>3, <4>1 DEF GoesOn
      <4> QED BY <1>4, <2>1, <3>1, <4>1, <4>3, RecordKept DEF TurnInv, Keeps, Restart
    <3>4. CASE turn[u].step # "idle" /\ HostOf[turn[u].door] = p
      <4> DEFINE r == [turn[u] EXCEPT !.leg = "gone",
                                      !.step = IF @ = "done" THEN "done" ELSE "dead"]
      <4>1. turn'[u] = r
        BY <1>4, <3>4 DEF Restart
      <4>2. /\ r.door = turn[u].door /\ r.held = turn[u].held /\ r.approved = turn[u].approved
            /\ r.conv = turn[u].conv /\ r.out = turn[u].out /\ r.attempt = turn[u].attempt
            /\ r.step \in {"done", "dead"} /\ r.leg = "gone"
        BY <3>1 DEF TurnRecord
      <4> HIDE DEF r
      <4>3. RecordInv(u, r) /\ Quiet(r) /\ Keeps(turn[u], r)
        BY <3>1, <3>4, <4>2 DEF RecordInv, HeldInv, SaidInv, SpendInv, OpenInv, RanInv, Quiet, Ended,
                                OnStage, PastCheck, Asking, Writing, Keeps
      <4> QED BY <1>4, <2>1, <4>1, <4>3, RecordKept DEF TurnInv, Restart
    <3> QED BY <3>2, <3>3, <3>4
  <2> QED BY <1>4, <2>1, <2>2, <2>3, AnyStep DEF Restart
<1> QED BY <1>1, <1>2, <1>3, <1>4 DEF World

-----------------------------------------------------------------------------
(* The theorems                                                            *)

\* The invariant holds at first.
LEMMA InitHolds == Init => IInv
<1> SUFFICES ASSUME Init PROVE IInv
  OBVIOUS
<1>1. /\ \A t \in Turn : turn[t] = Idle
      /\ spent = {} /\ wire = {} /\ ran = {} /\ stored = NoEnvelope
      /\ \A p \in Process : receipts[p] = {}
      /\ \A t \in Turn : heard[t] = {}
  BY DEF Init
<1>2. TypeOK
  <2>1. Idle \in TurnRecord
    BY EnvelopesTyped DEF Idle, TurnRecord, Kind, Step, StageLeg, Attempt, Ended
  <2>2. NotMinted \in [minted : BOOLEAN, ledger : Ledger, rules : Rules \cup {None},
                       carrier : Carrier \cup {None}, door : Door \cup {None}]
    BY DEF NotMinted, NoIdentity, Ledger
  <2> QED BY <2>1, <2>2, EnvelopesTyped, BoundAssumption DEF Init, TypeOK
<1>3. StoredInv
  BY <1>1, NothingStored DEF StoredInv
<1>4. LedgerInv
  BY <1>1 DEF LedgerInv, SpentOnce
<1>6. HeardInv
  BY <1>1 DEF HeardInv
<1>5. \A t \in Turn : TurnInv(t)
  BY <1>1, NothingStored DEF TurnInv, RecordInv, HeldInv, SaidInv, SpendInv, OpenInv, RanInv, Idle, OnStage,
         PastCheck, Asking, Writing, EnvelopeInv, Asks, Backed, NewConversation, NoEnvelope
<1> QED BY <1>2, <1>3, <1>4, <1>5, <1>6 DEF IInv

\* Every step keeps the invariant: one case per action.
LEMMA NextKeeps == IInv /\ [Next]_vars => IInv'
<1> SUFFICES ASSUME IInv, [Next]_vars PROVE IInv'
  OBVIOUS
<1>1. TypeOK'
  BY TypeKept
<1>2. ASSUME NEW t \in Turn, StageStep(t) PROVE IInv'
  BY <1>1, <1>2, CheckDecisionKeeps, SpendDecisionKeeps, SpendWonKeeps, SpendRefusedKeeps,
     ExecuteKeeps, CallSettledKeeps, StageStopsKeeps DEF StageStep
<1>3. ASSUME NEW t \in Turn, DoorStep(t) PROVE IInv'
  BY <1>1, <1>3, ReadForMessageKeeps, ReadForDecisionKeeps, RunCompletesKeeps, WritesKeep,
     AfterFailedAnswerKeeps, MarkReadKeeps, CloseReadKeeps, ProveNeverRanKeeps, CloseWonKeeps,
     CloseLostKeeps, CloseMarkedKeeps DEF DoorStep
<1>4. ASSUME NEW t \in Turn, Otherwise(t) PROVE IInv'
  BY <1>1, <1>4, ReadFailsKeeps, SpendThrowsKeeps, ResumeFailsKeeps, AbortKeeps, RunThrowsKeeps,
     ProgressLandsKeeps, CloseThrowsKeeps, MarkerThrowsKeeps, RunPausesKeeps DEF Otherwise
<1>5. CASE UNCHANGED vars
  <2>1. Kept /\ UNCHANGED <<build, life, receipts>>
    BY <1>5 DEF vars, Kept, HeardMore
  <2>2. StoredInv' /\ SpentOnce'
    BY <1>5, <2>1, StoredKept DEF vars, IInv, StoredInv, LedgerInv, SpentOnce
  <2> QED BY <1>1, <1>5, <2>1, <2>2, NoTurnSteps, AnyStep DEF vars
<1> QED BY <1>1, <1>2, <1>3, <1>4, <1>5, ArriveKeeps, WorldKeeps DEF Next

\* Every reachable state satisfies the strengthened invariant.
THEOREM Invariance == Spec => []IInv
BY InitHolds, NextKeeps, PTL DEF Spec

\* Every variable keeps its type.
THEOREM TypeCorrect == Spec => []TypeOK
<1>1. IInv => TypeOK
  BY DEF IInv
<1> QED BY <1>1, Invariance, PTL

\* A ledger that takes every decision for a request settles it one way.
LEMMA OneUse ==
  ASSUME IInv, NEW q \in Request, OneLedger(q), NEW e \in spent, NEW f \in spent,
         e.request = q, f.request = q, e.use # "marker", f.use # "marker"
  PROVE  e = f
BY DEF IInv, LedgerInv, SpentOnce, EntryInv, KeyOf

\* Whoever ran a call holds an approving spend of its request.
LEMMA RanApproved ==
  ASSUME IInv, NEW q \in Request, NEW t \in Ran(q)
  PROVE  \E e \in spent : e.by = t /\ e.use = "approve" /\ e.request = q
<1>1. t \in Turn /\ turn[t].held.asked = q /\ Used(t, "approve")
  BY DEF Ran, IInv, TypeOK, TurnInv, RecordInv, RanInv
<1>2. PICK e \in spent : e.by = t /\ e.use = "approve"
  BY <1>1 DEF Used
<1>3. e.request = q
  BY <1>1, <1>2 DEF IInv, LedgerInv, EntryInv, DecisionUse
<1> QED BY <1>2, <1>3

\* What a conversation says of a call, stored or at a door, is backed by a ledger.
LEMMA SaidBacked ==
  ASSUME IInv, NEW q \in Request
  PROVE  /\ Says(q, "notRun") => ClosedFor(q)
         /\ Says(q, "declined") => DeclinedFor(q)
BY DEF Says, IInv, StoredInv, EnvelopeInv, TurnInv, RecordInv, SaidInv, Backed

\* "That call did not run" is only said of a call that never ran: the close
\* that claims it took the one spend an approval would have needed.
THEOREM NotRunCorrect == Spec => []NotRunIsTrue
<1>1. IInv => NotRunIsTrue
  <2> SUFFICES ASSUME IInv, NEW q \in Request, Says(q, "notRun"), NEW t \in Ran(q) PROVE FALSE
    BY DEF NotRunIsTrue
  <2>1. PICK e \in spent : e.use = "close" /\ e.request = q
    BY SaidBacked DEF ClosedFor, RecordedFor
  <2>2. PICK f \in spent : f.use = "approve" /\ f.request = q
    BY RanApproved
  <2>3. OneLedger(q)
    BY SaidBacked DEF ClosedFor
  <2> QED BY <2>1, <2>2, <2>3, OneUse
<1> QED BY <1>1, Invariance, PTL

\* A call recorded as declined never ran, where one ledger takes the answers.
THEOREM DeclinedCorrect == Spec => []DeclinedIsTrue
<1>1. IInv => DeclinedIsTrue
  <2> SUFFICES ASSUME IInv, NEW q \in Request, OneLedger(q), Says(q, "declined"), NEW t \in Ran(q)
               PROVE  FALSE
    BY DEF DeclinedIsTrue
  <2>1. PICK e \in spent : e.use = "decline" /\ e.request = q
    BY SaidBacked DEF DeclinedFor, RecordedFor
  <2>2. PICK f \in spent : f.use = "approve" /\ f.request = q
    BY RanApproved
  <2> QED BY <2>1, <2>2, OneUse
<1> QED BY <1>1, Invariance, PTL

\* A request one ledger decides runs its call at most once.
THEOREM OnceCorrect == Spec => []RunsOnce
<1>1. IInv => RunsOnce
  <2> SUFFICES ASSUME IInv, NEW q \in Request, OneLedger(q), NEW t \in Ran(q), NEW u \in Ran(q)
               PROVE  t = u
    BY DEF RunsOnce
  <2>1. PICK e \in spent : e.by = t /\ e.use = "approve" /\ e.request = q
    BY RanApproved
  <2>2. PICK f \in spent : f.by = u /\ f.use = "approve" /\ f.request = q
    BY RanApproved
  <2> QED BY <2>1, <2>2, OneUse
<1> QED BY <1>1, Invariance, PTL

-----------------------------------------------------------------------------
(* A pause is offered once: nobody speaks of a request before its pause is *)
(* stored, and the turn that asked it stores it once                       *)

Untold(q, e) == e.asked # q /\ e.conv[q] = "absent"
Unaware(q, r) == r.conv[q] = "absent" /\ Untold(q, r.held) /\ Untold(q, r.out)

\* The turn is about to store the pause its run ended with.
Asked(r) == r.step = "deliver" /\ r.out.format = "waiting"

\* What the turn is about to store says that it waits only if its run asked.
Plain(r) == r.step \in {"markWrite", "closeWrite"} => r.out.format # "waiting"

FreshInv ==
  /\ \A q \in Request : ~Minted(q) =>
       Untold(q, stored) /\ \A u \in Turn : Unaware(q, turn[u])
  /\ \A t \in Turn : Asked(turn[t]) =>
       LET q == turn[t].out.asked IN
       /\ Untold(q, stored) /\ \A u \in Turn \ {t} : Unaware(q, turn[u])
       /\ turn[t].conv[q] = "open" /\ turn[t].out.conv[q] = "open" /\ turn[t].held.asked # q
  /\ \A t \in Turn : Plain(turn[t])

\* The one record a step of turn t replaces.
LEMMA Became ==
  ASSUME TypeOK, NEW t \in Turn, NEW r, Becomes(t, r)
  PROVE  turn'[t] = r /\ \A u \in Turn \ {t} : turn'[u] = turn[u]
  BY DEF Becomes, TypeOK

\* What a step of t leaves of what was untold: nothing it knew nothing of is
\* known to it or to the store now, and only a run that asks brings a pause.
StaysUntold(t) ==
  /\ \A u \in Turn \ {t} : turn'[u] = turn[u]
  /\ \A q \in Request : Untold(q, stored) /\ Unaware(q, turn[t]) =>
       Untold(q, stored') /\ Unaware(q, turn'[t])
  /\ turn'[t].step \in Writing => turn'[t].out.format # "waiting"

\* A step that leaves what a turn read and says, and brings it to no write.
LEMMA SilentStep ==
  ASSUME TypeOK, NEW t \in Turn, NEW r, Becomes(t, r), UNCHANGED stored,
         r.held = turn[t].held, r.conv = turn[t].conv, r.out = turn[t].out,
         r.step = turn[t].step \/ r.step \notin Writing,
         turn[t].step # "deliver" \/ r.step # "deliver", Plain(turn[t])
  PROVE  StaysUntold(t)
  BY Became DEF StaysUntold, Unaware, Plain, Writing

\* A turn that reads the session knows what the store knew.
LEMMA ReadingStep ==
  ASSUME TypeOK, NEW t \in Turn, NEW r, Becomes(t, r), UNCHANGED stored,
         r.held = stored, r.conv = stored.conv, r.out = turn[t].out, r.step \notin Writing
  PROVE  StaysUntold(t)
  BY Became DEF StaysUntold, Unaware, Untold

\* A conversation is settled without a word on a call it is silent about.
LEMMA SettledUntold ==
  ASSUME NEW q \in Request, NEW c \in Conversation, c[q] = "absent", NEW o
  PROVE  /\ Settle(c, o)[q] = "absent"
         /\ \A a : SettleCall(c, a, o)[q] = "absent"
         /\ \A a \in Request \cup {None} : a # q => [c EXCEPT ![a] = o][q] = "absent"
  BY DEF Settle, SettleCall, Conversation

\* Closing a call says nothing of another (closedConversation).
LEMMA ClosedUntold ==
  ASSUME TypeOK, NEW t \in Turn, NEW o, Closed(t, o), UNCHANGED stored
  PROVE  StaysUntold(t)
<1> DEFINE c == Settle(turn[t].conv, o)
           r == [turn[t] EXCEPT !.conv = c,
                                !.step = IF turn[t].kind = "message" THEN "run" ELSE "closeWrite",
                                !.out = ConversationEnvelope(c)]
<1>1. turn[t] \in TurnRecord /\ turn[t].conv \in Conversation
  BY FieldsTyped DEF TypeOK
<1>2. Becomes(t, r)
  BY DEF Closed
<1>3. r.conv = c /\ r.held = turn[t].held /\ r.out = ConversationEnvelope(c)
  BY <1>1 DEF TurnRecord
<1> HIDE DEF r
<1>4. turn'[t] = r /\ \A u \in Turn \ {t} : turn'[u] = turn[u]
  BY <1>2, Became
<1>5. \A q \in Request : turn[t].conv[q] = "absent" => c[q] = "absent"
  BY <1>1, SettledUntold
<1> HIDE DEF c
<1> QED BY <1>3, <1>4, <1>5, NoneAssumption DEF StaysUntold, Unaware, Untold, ConversationEnvelope

\* The session as it was read, and what a call in flight is recorded as.
LEMMA StageUntold ==
  ASSUME TypeOK, NEW t \in Turn, TurnInv(t), Plain(turn[t]), StageStep(t)
  PROVE  StaysUntold(t)
<1>1. /\ turn[t] \in TurnRecord /\ turn[t].conv \in Conversation
      /\ turn[t].held.asked \in Request \cup {None}
  BY FieldsTyped DEF TypeOK
<1>2. turn[t].step = "deliver" => turn[t].leg = "none"
  BY DEF TurnInv, RecordInv, HeldInv
<1>3. CASE CheckDecision(t)
  BY <1>1, <1>2, <1>3, SilentStep DEF CheckDecision, Leg, TurnRecord, Writing
<1>4. CASE SpendDecision(t)
  BY <1>1, <1>2, <1>4, SilentStep DEF SpendDecision, Leg, TurnRecord
<1>5. CASE SpendRefused(t)
  BY <1>1, <1>2, <1>5, SilentStep DEF SpendRefused, Failed, At, Leg, TurnRecord, Writing
<1>6. CASE Execute(t)
  BY <1>1, <1>2, <1>6, SilentStep DEF Execute, LegGoes, Leg, TurnRecord
<1>7. CASE StageStops(t)
  BY <1>1, <1>2, <1>7, SilentStep DEF StageStops, LegGoes, TurnRecord
<1>8. ASSUME NEW o, NEW r, Becomes(t, r), UNCHANGED stored, turn[t].leg # "none",
             r.step = turn[t].step, r.held = turn[t].held, r.out = turn[t].out,
             r.conv = [turn[t].conv EXCEPT ![turn[t].held.asked] = o]
      PROVE  StaysUntold(t)
  <2>1. turn'[t] = r /\ \A u \in Turn \ {t} : turn'[u] = turn[u]
    BY <1>8, Became
  <2>2. \A q \in Request : turn[t].conv[q] = "absent" /\ turn[t].held.asked # q => r.conv[q] = "absent"
    BY <1>1, <1>8, SettledUntold
  <2> QED BY <1>2, <1>8, <2>1, <2>2 DEF StaysUntold, Unaware, Untold, Plain, Writing
<1>9. CASE SpendWon(t)
  <2> DEFINE next == IF turn[t].aborted THEN "gone"
                     ELSE IF turn[t].approved THEN "won" ELSE "settled"
             r == [turn[t] EXCEPT !.attempt = "spent", !.leg = next,
                    !.conv = IF next = "settled" THEN [@ EXCEPT ![turn[t].held.asked] = "declined"]
                             ELSE @]
  <2>1. Becomes(t, r) /\ UNCHANGED stored /\ turn[t].leg = "spending"
    BY <1>9 DEF SpendWon, Leg
  <2>2. /\ r.step = turn[t].step /\ r.held = turn[t].held /\ r.out = turn[t].out
        /\ r.conv = IF next = "settled" THEN [turn[t].conv EXCEPT ![turn[t].held.asked] = "declined"]
                    ELSE turn[t].conv
    BY <1>1 DEF TurnRecord
  <2> HIDE DEF r, next
  <2>3. CASE next = "settled"
    BY <1>8, <2>1, <2>2, <2>3
  <2>4. CASE next # "settled"
    BY <1>2, <2>1, <2>2, <2>4, SilentStep
  <2> QED BY <2>3, <2>4
<1>10. CASE CallSettled(t)
  <2>1. CASE turn[t].aborted
    BY <1>1, <1>2, <1>10, <2>1, SilentStep DEF CallSettled, LegGoes, Leg, TurnRecord
  <2>2. CASE ~turn[t].aborted
    <3> DEFINE r == [turn[t] EXCEPT !.leg = "settled", !.conv[turn[t].held.asked] = "result"]
    <3>1. Becomes(t, r) /\ UNCHANGED stored /\ turn[t].leg # "none"
      BY <1>10, <2>2 DEF CallSettled, Leg
    <3>2. /\ r.step = turn[t].step /\ r.held = turn[t].held /\ r.out = turn[t].out
          /\ r.conv = [turn[t].conv EXCEPT ![turn[t].held.asked] = "result"]
      BY <1>1 DEF TurnRecord
    <3> HIDE DEF r
    <3> QED BY <1>8, <3>1, <3>2
  <2> QED BY <2>1, <2>2
<1> QED BY <1>3, <1>4, <1>5, <1>6, <1>7, <1>9, <1>10 DEF StageStep

\* The mark a failed answer leaves says nothing of another call (markAnswered).
LEMMA MarkUntold ==
  ASSUME TypeOK, NEW t \in Turn, NEW c \in Conversation, NEW unread \in BOOLEAN, UNCHANGED stored,
         Becomes(t, [turn[t] EXCEPT !.step = "markWrite", !.unread = unread, !.out = MarkAnswered(t, c)]),
         \A q \in Request : Untold(q, stored) /\ Unaware(q, turn[t]) => c[q] = "absent"
  PROVE  StaysUntold(t)
<1> DEFINE r == [turn[t] EXCEPT !.step = "markWrite", !.unread = unread, !.out = MarkAnswered(t, c)]
<1>1. turn[t] \in TurnRecord
  BY DEF TypeOK
<1>2. r.step = "markWrite" /\ r.held = turn[t].held /\ r.conv = turn[t].conv /\ r.out = MarkAnswered(t, c)
  BY <1>1 DEF TurnRecord
<1> HIDE DEF r
<1>3. turn'[t] = r /\ \A u \in Turn \ {t} : turn'[u] = turn[u]
  BY Became DEF r
<1>4. /\ r.out.format = "answered" /\ r.out.asked = turn[t].held.asked
      /\ r.out.conv = SettleCall(c, turn[t].held.asked,
                                 IF SpentAsDecline(t) THEN "declined" ELSE "unknown")
  BY <1>2 DEF MarkAnswered
<1>5. ASSUME NEW q \in Request, c[q] = "absent" PROVE r.out.conv[q] = "absent"
  <2>1. \A a, o : SettleCall(c, a, o)[q] = "absent"
    BY <1>5, SettledUntold
  <2> QED BY <1>4, <2>1
<1> QED BY <1>2, <1>3, <1>4, <1>5 DEF StaysUntold, Unaware, Untold

\* What is stored is what the turn was about to store, or what was there.
LEMMA WriteUntold ==
  ASSUME TypeOK, NEW t \in Turn, NEW step \in {"done", "watch"},
         Persist(t, step) \/ PersistFails(t, step)
  PROVE  StaysUntold(t)
<1>1. turn[t] \in TurnRecord
  BY DEF TypeOK
<1>2. PICK failed \in BOOLEAN : Becomes(t, [turn[t] EXCEPT !.step = step, !.storeFailed = failed])
  BY <1>1, PersistStores
<1> DEFINE r == [turn[t] EXCEPT !.step = step, !.storeFailed = failed]
<1>3. r.step = step /\ r.held = turn[t].held /\ r.conv = turn[t].conv /\ r.out = turn[t].out
  BY <1>1 DEF TurnRecord
<1> HIDE DEF r
<1>4. turn'[t] = r /\ \A u \in Turn \ {t} : turn'[u] = turn[u]
  BY <1>2, Became DEF r
<1>5. stored' \in {stored, turn[t].out}
  BY <1>1, PersistStores
<1> QED BY <1>3, <1>4, <1>5 DEF StaysUntold, Unaware, Writing

\* No step of the door speaks of a request nobody has spoken of.
LEMMA DoorUntold ==
  ASSUME TypeOK, NEW t \in Turn, Plain(turn[t]), DoorStep(t)
  PROVE  StaysUntold(t)
<1>1. /\ turn[t] \in TurnRecord /\ turn[t].conv \in Conversation /\ turn[t].held.conv \in Conversation
      /\ turn[t].unread \in BOOLEAN /\ stored.conv \in Conversation
  BY FieldsTyped DEF TypeOK, TurnRecord, Envelope
<1>2. CASE ReadForMessage(t)
  BY <1>1, <1>2, ReadingStep DEF ReadForMessage, TurnRecord, Writing
<1>3. CASE ReadForDecision(t)
  <2>1. CASE stored.format # "waiting"
    BY <1>1, <1>3, <2>1, SilentStep DEF ReadForDecision, Goes, TurnRecord, Writing
  <2>2. CASE stored.format = "waiting"
    BY <1>1, <1>3, <2>2, ReadingStep DEF ReadForDecision, TurnRecord, Writing
  <2> QED BY <2>1, <2>2
<1>4. CASE RunCompletes(t)
  <2> DEFINE r == [turn[t] EXCEPT !.step = "deliver", !.leg = "none",
                                  !.out = ConversationEnvelope(turn[t].conv)]
  <2>1. r.held = turn[t].held /\ r.conv = turn[t].conv /\ r.out = ConversationEnvelope(turn[t].conv)
    BY <1>1 DEF TurnRecord
  <2>2. Becomes(t, r) /\ UNCHANGED stored
    BY <1>4 DEF RunCompletes
  <2> HIDE DEF r
  <2> QED BY <2>1, <2>2, Became, NoneAssumption DEF StaysUntold, Unaware, Untold, ConversationEnvelope
<1>5. CASE Deliver(t)
  BY <1>5, WriteUntold DEF Deliver
<1>6. CASE AfterFailedAnswer(t)
  BY <1>1, <1>6, SilentStep DEF AfterFailedAnswer, Goes, TurnRecord, Writing
<1>7. CASE MarkRead(t)
  <2> DEFINE from == IF stored.format = "conversation" THEN stored.conv ELSE turn[t].held.conv
  <2>1. /\ from \in Conversation
        /\ \A p \in Request : Untold(p, stored) /\ Unaware(p, turn[t]) =>
             from[p] = "absent" /\ turn[t].held.conv[p] = "absent"
    BY <1>1 DEF Untold, Unaware
  <2>2. CASE Goes(t, "done")
    BY <1>1, <1>7, <2>2, SilentStep DEF MarkRead, Goes, TurnRecord, Writing
  <2>3. CASE Becomes(t, [turn[t] EXCEPT !.step = "markWrite", !.out = MarkAnswered(t, from)])
    <3>1. [turn[t] EXCEPT !.step = "markWrite", !.out = MarkAnswered(t, from)]
            = [turn[t] EXCEPT !.step = "markWrite", !.unread = turn[t].unread,
                              !.out = MarkAnswered(t, from)]
      BY <1>1 DEF TurnRecord
    <3>2. UNCHANGED stored /\ turn[t].unread \in BOOLEAN
      BY <1>1, <1>7 DEF MarkRead
    <3> HIDE DEF from
    <3> QED BY <2>1, <2>3, <3>1, <3>2, MarkUntold
  <2>4. CASE Becomes(t, [turn[t] EXCEPT !.step = "markWrite", !.unread = TRUE,
                                        !.out = MarkAnswered(t, turn[t].held.conv)])
    BY <1>1, <1>7, <2>1, <2>4, MarkUntold DEF MarkRead
  <2> QED BY <1>7, <2>2, <2>3, <2>4 DEF MarkRead
<1>8. CASE MarkWrite(t)
  BY <1>8, WriteUntold DEF MarkWrite
<1>9. CASE CloseRead(t)
  <2>1. CASE Becomes(t, [turn[t] EXCEPT !.conv = stored.conv, !.step = "prove"])
    <3> DEFINE r == [turn[t] EXCEPT !.conv = stored.conv, !.step = "prove"]
    <3>1. r.step = "prove" /\ r.held = turn[t].held /\ r.conv = stored.conv /\ r.out = turn[t].out
      BY <1>1 DEF TurnRecord
    <3>2. Becomes(t, r) /\ UNCHANGED stored
      BY <1>9, <2>1 DEF CloseRead
    <3> HIDE DEF r
    <3> QED BY <3>1, <3>2, Became DEF StaysUntold, Unaware, Untold, Writing
  <2>2. CASE Goes(t, "done")
    BY <1>1, <1>9, <2>2, SilentStep DEF CloseRead, Goes, TurnRecord, Writing
  <2>3. CASE Becomes(t, [turn[t] EXCEPT !.step = "done", !.storeFailed = TRUE])
    BY <1>1, <1>9, <2>3, SilentStep DEF CloseRead, TurnRecord, Writing
  <2> QED BY <1>9, <2>1, <2>2, <2>3 DEF CloseRead
<1>10. CASE ProveNeverRan(t)
  <2>1. CASE Goes(t, "proving")
    BY <1>1, <1>10, <2>1, SilentStep DEF ProveNeverRan, Goes, TurnRecord, Writing
  <2>2. CASE Closed(t, "unknown")
    BY <1>10, <2>2, ClosedUntold DEF ProveNeverRan
  <2> QED BY <1>10, <2>1, <2>2 DEF ProveNeverRan
<1>11. CASE CloseWon(t)
  BY <1>1, <1>11, SilentStep DEF CloseWon, Goes, TurnRecord, Writing
<1>12. CASE CloseLost(t)
  BY <1>12, ClosedUntold DEF CloseLost
<1>13. CASE CloseMarked(t)
  BY <1>13, ClosedUntold DEF CloseMarked
<1>14. CASE CloseWrite(t)
  BY <1>14, WriteUntold DEF CloseWrite
<1> QED BY <1>2, <1>3, <1>4, <1>5, <1>6, <1>7, <1>8, <1>9, <1>10, <1>11, <1>12, <1>13, <1>14
        DEF DoorStep

\* Nor does an arrival, a failure, an abort or saved progress.
LEMMA OtherUntold ==
  ASSUME TypeOK, NEW t \in Turn, TurnInv(t), Plain(turn[t]), Arrive(t) \/ Otherwise(t),
         \A q \in Request : ~RunPauses(t, q)
  PROVE  StaysUntold(t)
<1>1. turn[t] \in TurnRecord
  BY DEF TypeOK
<1>2. turn[t].step = "deliver" => turn[t].leg = "none"
  BY DEF TurnInv, RecordInv, HeldInv
<1>3. CASE Arrive(t)
  <2>1. ASSUME NEW d \in Door, Message(t, d) PROVE StaysUntold(t)
    BY <1>1, <2>1, SilentStep DEF Message, TurnRecord, Writing
  <2>2. ASSUME NEW d \in Door, NEW q \in Request, NEW b \in BOOLEAN, Decision(t, d, q, b)
        PROVE  StaysUntold(t)
    BY <1>1, <2>2, SilentStep DEF Decision, TurnRecord, Writing
  <2> QED BY <1>3, <2>1, <2>2 DEF Arrive
<1>4. CASE ReadFails(t)
  BY <1>1, <1>4, SilentStep DEF ReadFails, Goes, TurnRecord, Writing
<1>5. CASE SpendThrows(t)
  BY <1>1, <1>2, <1>5, SilentStep DEF SpendThrows, Failed, At, Leg, TurnRecord, Writing
<1>6. CASE ResumeFails(t)
  BY <1>1, <1>6, SilentStep DEF ResumeFails, TurnRecord, Writing
<1>7. CASE Abort(t)
  BY <1>1, <1>7, SilentStep DEF Abort, TurnRecord, Writing
<1>8. CASE RunThrows(t)
  BY <1>1, <1>8, SilentStep DEF RunThrows, Goes, TurnRecord, Writing
<1>9. CASE ProgressLands(t)
  <2>1. UNCHANGED turn /\ stored' = ConversationEnvelope(turn[t].conv) /\ turn[t].step \notin Writing
    BY <1>9 DEF ProgressLands, At, Writing
  <2> QED BY <2>1, NoneAssumption DEF StaysUntold, Unaware, Untold, ConversationEnvelope
<1>10. CASE CloseThrows(t)
  BY <1>10, ClosedUntold DEF CloseThrows
<1>11. CASE MarkerThrows(t)
  BY <1>11, ClosedUntold DEF MarkerThrows
<1> QED BY <1>3, <1>4, <1>5, <1>6, <1>7, <1>8, <1>9, <1>10, <1>11 DEF Otherwise

\* A step that speaks of nothing new keeps every unstored pause unspoken of.
LEMMA FreshStep ==
  ASSUME IInv, FreshInv, NEW t \in Turn, StaysUntold(t), UNCHANGED pending
  PROVE  FreshInv'
<1>1. \A q \in Request : Minted(q)' <=> Minted(q)
  BY DEF Minted
<1>2. ASSUME NEW q \in Request, ~Minted(q)
      PROVE  Untold(q, stored') /\ \A u \in Turn : Unaware(q, turn'[u])
  BY <1>2 DEF FreshInv, StaysUntold
<1>3. ASSUME NEW u \in Turn, Asked(turn'[u])
      PROVE  /\ Untold(turn'[u].out.asked, stored')
             /\ \A v \in Turn \ {u} : Unaware(turn'[u].out.asked, turn'[v])
             /\ turn'[u].conv[turn'[u].out.asked] = "open"
             /\ turn'[u].out.conv[turn'[u].out.asked] = "open"
             /\ turn'[u].held.asked # turn'[u].out.asked
  <2>1. u # t /\ turn'[u] = turn[u]
    BY <1>3 DEF StaysUntold, Asked, Writing
  <2>2. turn[u].out.asked \in Request
    BY <1>3, <2>1 DEF IInv, TurnInv, RecordInv, SaidInv, EnvelopeInv, Asks, Asked
  <2> QED BY <1>3, <2>1, <2>2 DEF FreshInv, StaysUntold
<1>4. \A u \in Turn : Plain(turn'[u])
  BY DEF FreshInv, StaysUntold, Plain, Writing
<1> QED BY <1>1, <1>2, <1>3, <1>4 DEF FreshInv

\* A run that pauses is the first to speak of the request it mints.
LEMMA FreshPause ==
  ASSUME IInv, FreshInv, NEW t \in Turn, NEW p \in Request, RunPauses(t, p)
  PROVE  FreshInv'
<1> DEFINE c == [turn[t].conv EXCEPT ![p] = "open"]
           r == [turn[t] EXCEPT !.step = "deliver", !.leg = "none", !.conv = c,
                                !.out = [format |-> "waiting", asked |-> p, conv |-> c]]
<1>1. turn[t] \in TurnRecord /\ turn[t].conv \in Conversation /\ TypeOK
  BY FieldsTyped DEF IInv, TypeOK
<1>2. /\ r.step = "deliver" /\ r.held = turn[t].held /\ r.conv = c
      /\ r.out = [format |-> "waiting", asked |-> p, conv |-> c]
  BY <1>1 DEF TurnRecord
<1>3. Becomes(t, r) /\ UNCHANGED stored /\ ~Minted(p)
  BY DEF RunPauses
<1> HIDE DEF r
<1>4. turn'[t] = r /\ \A u \in Turn \ {t} : turn'[u] = turn[u]
  BY <1>1, <1>3, Became
<1>5. /\ c[p] = "open"
      /\ \A q \in Request \ {p} : c[q] = turn[t].conv[q]
  BY <1>1 DEF Conversation
<1> HIDE DEF c
<1>6. \A q \in Request : Minted(q)' <=> Minted(q) \/ q = p
  BY <1>1 DEF RunPauses, Minted, TypeOK
<1>7. \A q \in Request \ {p} : Unaware(q, turn[t]) => Unaware(q, r)
  BY <1>2, <1>5 DEF Unaware, Untold
<1>8. ASSUME NEW q \in Request, ~Minted(q)'
      PROVE  Untold(q, stored') /\ \A u \in Turn : Unaware(q, turn'[u])
  BY <1>3, <1>4, <1>6, <1>7, <1>8 DEF FreshInv
<1>9. ASSUME NEW u \in Turn, Asked(turn'[u])
      PROVE  /\ Untold(turn'[u].out.asked, stored')
             /\ \A v \in Turn \ {u} : Unaware(turn'[u].out.asked, turn'[v])
             /\ turn'[u].conv[turn'[u].out.asked] = "open"
             /\ turn'[u].out.conv[turn'[u].out.asked] = "open"
             /\ turn'[u].held.asked # turn'[u].out.asked
  <2>1. CASE u = t
    <3>1. /\ turn'[u].out.asked = p /\ turn'[u].held = turn[t].held
          /\ turn'[u].conv[p] = "open" /\ turn'[u].out.conv[p] = "open"
      BY <1>2, <1>4, <1>5, <2>1
    <3>2. Untold(p, stored) /\ \A v \in Turn : Unaware(p, turn[v])
      BY <1>3 DEF FreshInv
    <3>3. Untold(p, stored') /\ \A v \in Turn \ {u} : Unaware(p, turn'[v])
      BY <1>3, <1>4, <2>1, <3>2 DEF Untold
    <3>4. turn[t].held.asked # p
      BY <3>2 DEF Unaware, Untold
    <3> QED BY <3>1, <3>3, <3>4
  <2>2. CASE u # t
    <3>1. turn'[u] = turn[u] /\ turn[u].out.asked \in Request /\ Minted(turn[u].out.asked)
      BY <1>4, <1>9, <2>2 DEF IInv, TurnInv, RecordInv, SaidInv, EnvelopeInv, Asks, Asked
    <3> QED BY <1>3, <1>4, <1>7, <1>9, <2>2, <3>1 DEF FreshInv
  <2> QED BY <2>1, <2>2
<1>10. \A u \in Turn : Plain(turn'[u])
  BY <1>2, <1>4 DEF FreshInv, Plain
<1> QED BY <1>8, <1>9, <1>10 DEF FreshInv

\* Restarts, expiries and late ledgers speak of nothing new.
LEMMA FreshWorld == ASSUME IInv, FreshInv, World PROVE FreshInv'
<1>1. UNCHANGED pending /\ stored' \in {stored, NoEnvelope}
  BY DEF World, Apply, Restart, Evict, Expire
<1>2. ASSUME NEW u \in Turn
      PROVE  /\ turn'[u].held = turn[u].held /\ turn'[u].conv = turn[u].conv
             /\ turn'[u].out = turn[u].out
             /\ turn'[u].step = turn[u].step \/ turn'[u].step \in {"done", "dead"}
  <2>1. CASE UNCHANGED turn
    BY <2>1
  <2>2. ASSUME NEW p \in Process, Restart(p)
        PROVE  \/ turn'[u] = turn[u]
               \/ turn'[u] = [turn[u] EXCEPT !.leg = "gone",
                                             !.step = IF @ = "done" THEN "done" ELSE "dead"]
    BY <2>2 DEF Restart
  <2>3. turn[u] \in TurnRecord
    BY DEF IInv, TypeOK
  <2>4. ASSUME NEW p \in Process, Restart(p)
        PROVE  /\ turn'[u].held = turn[u].held /\ turn'[u].conv = turn[u].conv
               /\ turn'[u].out = turn[u].out
               /\ turn'[u].step = turn[u].step \/ turn'[u].step \in {"done", "dead"}
    BY <2>2, <2>3, <2>4 DEF TurnRecord
  <2> QED BY <2>1, <2>4 DEF World, Apply, Evict, Expire
<1>3. \A q \in Request : Untold(q, NoEnvelope)
  BY NoneAssumption DEF Untold, NoEnvelope, NewConversation
<1>4. \A q \in Request : Untold(q, stored) => Untold(q, stored')
  BY <1>1, <1>3
<1>5. \A q, u : u \in Turn => (Unaware(q, turn'[u]) <=> Unaware(q, turn[u]))
  BY <1>2 DEF Unaware
<1>6. ASSUME NEW u \in Turn, Asked(turn'[u]) PROVE Asked(turn[u]) /\ turn[u].out.asked \in Request
  BY <1>2, <1>6 DEF Asked, IInv, TurnInv, RecordInv, SaidInv, EnvelopeInv, Asks
<1>7. \A u \in Turn : Plain(turn'[u])
  BY <1>2 DEF FreshInv, Plain
<1>8. \A q \in Request : Minted(q)' <=> Minted(q)
  BY <1>1 DEF Minted
<1> QED BY <1>2, <1>4, <1>5, <1>6, <1>7, <1>8 DEF FreshInv

\* No request is spoken of before its pause is stored, at first and ever after.
LEMMA FreshInit == Init => FreshInv
<1> SUFFICES ASSUME Init PROVE FreshInv
  OBVIOUS
<1>1. stored = NoEnvelope /\ \A u \in Turn : turn[u] = Idle
  BY DEF Init
<1> QED BY <1>1, NoneAssumption DEF FreshInv, Untold, Unaware, Asked, Plain, Idle, NoEnvelope,
                                    NewConversation

LEMMA FreshKept == IInv /\ FreshInv /\ [Next]_vars => FreshInv'
<1> SUFFICES ASSUME IInv, TypeOK, FreshInv, [Next]_vars PROVE FreshInv'
  BY DEF IInv
<1>1. \A t \in Turn : TurnInv(t) /\ Plain(turn[t])
  BY DEF IInv, FreshInv
<1>2. ASSUME NEW t \in Turn, StageStep(t) PROVE FreshInv'
  <2>1. UNCHANGED pending
    BY <1>2 DEF StageStep, CheckDecision, SpendDecision, SpendWon, SpendRefused, Execute, CallSettled,
                StageStops
  <2> QED BY <1>1, <1>2, <2>1, StageUntold, FreshStep
<1>3. ASSUME NEW t \in Turn, DoorStep(t) PROVE FreshInv'
  <2>1. UNCHANGED pending
    BY <1>3 DEF DoorStep, ReadForMessage, ReadForDecision, RunCompletes, Deliver, AfterFailedAnswer,
                MarkRead, MarkWrite, CloseRead, ProveNeverRan, CloseWon, CloseLost, CloseMarked,
                CloseWrite, Persist, PersistFails
  <2> QED BY <1>1, <1>3, <2>1, DoorUntold, FreshStep
<1>4. ASSUME NEW t \in Turn, Arrive(t) \/ Otherwise(t) PROVE FreshInv'
  <2>1. CASE \E q \in Request : RunPauses(t, q)
    BY <2>1, FreshPause
  <2>2. CASE \A q \in Request : ~RunPauses(t, q)
    <3>1. UNCHANGED pending
      BY <1>4, <2>2 DEF Arrive, Message, Decision, Otherwise, ReadFails, SpendThrows, ResumeFails,
                        Abort, RunThrows, ProgressLands, CloseThrows, MarkerThrows
    <3> QED BY <1>1, <1>4, <2>2, <3>1, OtherUntold, FreshStep
  <2> QED BY <2>1, <2>2
<1>5. CASE UNCHANGED vars
  BY <1>5 DEF vars, FreshInv, Minted
<1> QED BY <1>2, <1>3, <1>4, <1>5, FreshWorld DEF Next

\* What is stored is a pause only where the turn that asked it stores it.
LEMMA OfferedByAsker ==
  ASSUME TypeOK, FreshInv, [Next]_vars, NEW q \in Request, Offered(q)', ~Offered(q)
  PROVE  \E t \in Turn : Asked(turn[t]) /\ turn[t].out.asked = q
<1>1. stored' # stored /\ stored'.format = "waiting" /\ stored'.asked = q
  BY DEF Offered, Waiting
<1>2. ASSUME World PROVE stored' \in {stored, NoEnvelope}
  BY <1>2 DEF World, Apply, Restart, Evict, Expire
<1>3. ASSUME NEW t \in Turn, Arrive(t) \/ StageStep(t) PROVE UNCHANGED stored
  BY <1>3 DEF Arrive, Message, Decision, StageStep, CheckDecision, SpendDecision, SpendWon,
              SpendRefused, Execute, CallSettled, StageStops
<1>4. ASSUME NEW t \in Turn, Otherwise(t)
      PROVE  stored' \in {stored, ConversationEnvelope(turn[t].conv)}
  BY <1>4 DEF Otherwise, ReadFails, SpendThrows, ResumeFails, Abort, RunThrows, ProgressLands,
              CloseThrows, MarkerThrows, RunPauses
<1>5. PICK t \in Turn : DoorStep(t)
  <2>1. \A c : ConversationEnvelope(c).format # "waiting" /\ NoEnvelope.format # "waiting"
    BY DEF ConversationEnvelope, NoEnvelope
  <2> QED BY <1>1, <1>2, <1>3, <1>4, <2>1 DEF Next, vars
<1>6. turn[t].step \in Writing /\ stored' = turn[t].out
  BY <1>1, <1>5 DEF DoorStep, ReadForMessage, ReadForDecision, RunCompletes, Deliver,
       AfterFailedAnswer, MarkRead, MarkWrite, CloseRead, ProveNeverRan, CloseWon, CloseLost,
       CloseMarked, CloseWrite, Persist, PersistFails, At, Writing
<1> QED BY <1>1, <1>6 DEF FreshInv, Plain, Asked, Writing

\* A pause that was settled anywhere is never offered again: it is stored
\* once, by the turn that asked it, and nobody speaks of it before.
THEOREM PauseOfferedOnce == Spec => PauseNeverReopens
<1>1. IInv /\ FreshInv /\ [Next]_vars =>
        \A q \in Request : Offered(q)' /\ ~Offered(q) =>
          \A o \in {"result", "declined", "unknown", "notRun"} : ~Says(q, o)
  <2> SUFFICES ASSUME IInv, TypeOK, FreshInv, [Next]_vars, NEW q \in Request, Offered(q)', ~Offered(q)
               PROVE  stored.conv[q] = "absent" /\ \A u \in Turn :
                        turn[u].conv[q] \in {"absent", "open"} /\ turn[u].out.conv[q] \in {"absent", "open"}
    BY DEF IInv, Says
  <2>1. PICK t \in Turn : Asked(turn[t]) /\ turn[t].out.asked = q
    BY OfferedByAsker
  <2> QED BY <2>1 DEF FreshInv, Unaware, Untold
<1>2. Spec => []FreshInv
  BY FreshInit, FreshKept, Invariance, PTL DEF Spec
<1> QED BY <1>1, <1>2, Invariance, PTL DEF Spec, PauseNeverReopens

-----------------------------------------------------------------------------
(* An answer that was taken to a ledger leaves no pause on offer           *)

\* A decision whose spend was handed to its ledger, and did not come back failed.
Tried(r) == r.kind = "decision" /\ r.attempt \in {"unanswered", "spent", "refused"}

\* How far a stage is says what became of its spend.
AttemptInv(r) == /\ r.step \in {"idle", "read"} \/ r.leg \in {"check", "held"} => r.attempt = "none"
                 /\ r.leg = "spending" => r.attempt = "unanswered"

SettledInv(r, e) == Tried(r) /\ r.step = "done" /\ ~r.storeFailed => ~Waiting(e, r.held.asked)

UsedInv == \A t \in Turn : AttemptInv(turn[t]) /\ SettledInv(turn[t], stored)

\* A turn that was done before and settled its pause, whatever its stage does now.
Rests(s, r) ==
  /\ r.step = "done" => s.step = "done"
  /\ r.held = s.held /\ (Tried(r) => Tried(s)) /\ r.storeFailed = s.storeFailed

\* What a step of t must show of the turn it leaves: it settled its pause, or it
\* was done before and rests.
Settles(t) == /\ AttemptInv(turn'[t])
              /\ SettledInv(turn'[t], stored') \/ Rests(turn[t], turn'[t])

\* One turn's record replaced by one that settled its pause, or rests.
LEMMA Settling ==
  ASSUME TypeOK, NEW t \in Turn, NEW r, Becomes(t, r), AttemptInv(r),
         SettledInv(r, stored') \/ Rests(turn[t], r)
  PROVE  Settles(t)
  BY Became DEF Settles

\* A stage that ends the spend it made keeps to what was tried.
LEMMA StageSettles ==
  ASSUME TypeOK, NEW t \in Turn, TurnInv(t), AttemptInv(turn[t]), StageStep(t)
  PROVE  Settles(t)
<1>1. turn[t] \in TurnRecord
  BY DEF TypeOK
<1>2. HeldInv(turn[t])
  BY DEF TurnInv, RecordInv
<1> USE Settling DEF AttemptInv, Rests, Tried, Leg, At, LegGoes
<1>3. CASE CheckDecision(t)
  BY <1>1, <1>2, <1>3 DEF CheckDecision, TurnRecord, HeldInv, OnStage, PastCheck
<1>4. CASE SpendDecision(t)
  BY <1>1, <1>2, <1>4 DEF SpendDecision, TurnRecord, HeldInv, OnStage, PastCheck, SettledInv
<1>5. CASE SpendWon(t)
  BY <1>1, <1>2, <1>5 DEF SpendWon, TurnRecord, HeldInv, OnStage, PastCheck
<1>6. CASE SpendRefused(t)
  BY <1>1, <1>2, <1>6 DEF SpendRefused, Failed, TurnRecord, HeldInv, OnStage, PastCheck
<1>7. CASE Execute(t)
  BY <1>1, <1>2, <1>7 DEF Execute, TurnRecord, HeldInv, OnStage, PastCheck
<1>8. CASE CallSettled(t)
  BY <1>1, <1>2, <1>8 DEF CallSettled, TurnRecord, HeldInv, OnStage, PastCheck
<1>9. CASE StageStops(t)
  BY <1>1, <1>2, <1>9 DEF StageStops, TurnRecord, HeldInv, OnStage, PastCheck
<1> QED BY <1>3, <1>4, <1>5, <1>6, <1>7, <1>8, <1>9 DEF StageStep

\* Closing a call does not end the turn: a decision's door stores what it closed.
LEMMA ClosedSettles ==
  ASSUME TypeOK, NEW t \in Turn, AttemptInv(turn[t]), turn[t].step \notin {"idle", "read"},
         NEW o, Closed(t, o)
  PROVE  Settles(t)
<1> DEFINE c == Settle(turn[t].conv, o)
           r == [turn[t] EXCEPT !.conv = c,
                                !.step = IF turn[t].kind = "message" THEN "run" ELSE "closeWrite",
                                !.out = ConversationEnvelope(c)]
<1>1. turn[t] \in TurnRecord
  BY DEF TypeOK
<1>2. Becomes(t, r)
  BY DEF Closed
<1>3. r.step \in {"run", "closeWrite"} /\ r.leg = turn[t].leg /\ r.attempt = turn[t].attempt
  BY <1>1 DEF TurnRecord
<1> HIDE DEF r
<1> QED BY <1>2, <1>3, Became DEF Settles, AttemptInv, SettledInv

\* What a door stores at its end is no pause about the request it answered.
LEMMA WriteSettles ==
  ASSUME TypeOK, FreshInv, NEW t \in Turn, AttemptInv(turn[t]), turn[t].step \in Writing,
         NEW step \in {"done", "watch"}, Persist(t, step) \/ PersistFails(t, step)
  PROVE  Settles(t)
<1>1. turn[t] \in TurnRecord
  BY DEF TypeOK
<1>2. ~Waiting(turn[t].out, turn[t].held.asked)
  BY DEF FreshInv, Asked, Plain, Writing, Waiting
<1>3. CASE Persist(t, step)
  <2> DEFINE r == [turn[t] EXCEPT !.step = step]
  <2>1. Becomes(t, r) /\ stored' = turn[t].out
    BY <1>3 DEF Persist, Goes
  <2>2. r.leg = turn[t].leg /\ r.attempt = turn[t].attempt /\ r.step = step /\ r.held = turn[t].held
    BY <1>1 DEF TurnRecord
  <2> HIDE DEF r
  <2> QED BY <1>2, <2>1, <2>2, Settling DEF AttemptInv, SettledInv, Writing
<1>4. CASE PersistFails(t, step)
  BY <1>1, <1>4, Settling DEF PersistFails, TurnRecord, AttemptInv, SettledInv, Writing
<1> QED BY <1>3, <1>4

\* A door that is done with an answer its ledger took found no pause for it, or
\* stored what it made of it.
LEMMA DoorSettles ==
  ASSUME TypeOK, FreshInv, NEW t \in Turn, TurnInv(t), AttemptInv(turn[t]), DoorStep(t)
  PROVE  Settles(t)
<1>1. turn[t] \in TurnRecord
  BY DEF TypeOK
<1> USE Settling DEF AttemptInv, SettledInv, Tried, At, Goes
<1>2. CASE ReadForMessage(t)
  BY <1>1, <1>2 DEF ReadForMessage, TurnRecord
<1>3. CASE ReadForDecision(t)
  BY <1>1, <1>3 DEF ReadForDecision, TurnRecord
<1>4. CASE RunCompletes(t)
  BY <1>1, <1>4 DEF RunCompletes, TurnRecord
<1>5. CASE Deliver(t)
  BY <1>5, WriteSettles DEF Deliver, Writing
<1>6. CASE AfterFailedAnswer(t)
  <2>1. PICK used \in BOOLEAN :
          /\ MayHaveBeenUsed(t, used)
          /\ Goes(t, IF used /\ ~(/\ Proving(turn[t].door, turn[t].held.asked)
                                   /\ CloseRecorded(turn[t].door, turn[t].held.asked)) THEN "markRead"
                     ELSE IF used \/ turn[t].refusal THEN "closeRead"
                     ELSE "done")
    BY <1>6 DEF AfterFailedAnswer
  <2>2. PICK step \in {"markRead", "closeRead", "done"} :
          Goes(t, step) /\ (step = "done" => ~used)
    BY <2>1
  <2>3. ~used => turn[t].attempt \in {"none", "failed"}
    BY <2>1 DEF MayHaveBeenUsed, TurnInv, RecordInv, RanInv
  <2> QED BY <1>1, <1>6, <2>2, <2>3 DEF AfterFailedAnswer, TurnRecord
<1>7. CASE MarkRead(t)
  <2>1. turn[t].step = "markRead" /\ UNCHANGED stored
    BY <1>7 DEF MarkRead
  <2>2. CASE Goes(t, "done") /\ ~Waiting(stored, turn[t].held.asked)
    BY <1>1, <2>1, <2>2 DEF TurnRecord
  <2>3. ASSUME NEW e, Becomes(t, [turn[t] EXCEPT !.step = "markWrite", !.out = e]) PROVE Settles(t)
    BY <1>1, <2>1, <2>3 DEF TurnRecord
  <2>4. ASSUME NEW e, Becomes(t, [turn[t] EXCEPT !.step = "markWrite", !.unread = TRUE, !.out = e])
        PROVE  Settles(t)
    BY <1>1, <2>1, <2>4 DEF TurnRecord
  <2> QED BY <1>7, <2>2, <2>3, <2>4 DEF MarkRead, Waiting
<1>8. CASE MarkWrite(t)
  BY <1>8, WriteSettles DEF MarkWrite, Writing
<1>9. CASE CloseRead(t)
  <2>1. turn[t].step = "closeRead" /\ UNCHANGED stored
    BY <1>9 DEF CloseRead
  <2>2. CASE Becomes(t, [turn[t] EXCEPT !.conv = stored.conv, !.step = "prove"])
    BY <1>1, <2>1, <2>2 DEF TurnRecord
  <2>3. CASE Goes(t, "done") /\ ~Waiting(stored, turn[t].held.asked)
    BY <1>1, <2>1, <2>3 DEF TurnRecord
  <2>4. CASE Becomes(t, [turn[t] EXCEPT !.step = "done", !.storeFailed = TRUE])
    BY <1>1, <2>1, <2>4 DEF TurnRecord
  <2> QED BY <1>9, <2>2, <2>3, <2>4 DEF CloseRead
<1>10. CASE ProveNeverRan(t)
  <2>1. CASE Goes(t, "proving")
    BY <1>1, <1>10, <2>1 DEF ProveNeverRan, TurnRecord
  <2>2. CASE Closed(t, "unknown")
    BY <1>10, <2>2, ClosedSettles DEF ProveNeverRan
  <2> QED BY <1>10, <2>1, <2>2 DEF ProveNeverRan
<1>11. CASE CloseWon(t)
  BY <1>1, <1>11 DEF CloseWon, TurnRecord
<1>12. CASE CloseLost(t)
  BY <1>12, ClosedSettles DEF CloseLost
<1>13. CASE CloseMarked(t)
  BY <1>13, ClosedSettles DEF CloseMarked
<1>14. CASE CloseWrite(t)
  BY <1>14, WriteSettles DEF CloseWrite, Writing
<1> QED BY <1>2, <1>3, <1>4, <1>5, <1>6, <1>7, <1>8, <1>9, <1>10, <1>11, <1>12, <1>13, <1>14
        DEF DoorStep

\* Arrivals, failures, aborts and saved progress end no turn that used its answer.
LEMMA OtherSettles ==
  ASSUME TypeOK, NEW t \in Turn, TurnInv(t), AttemptInv(turn[t]), Arrive(t) \/ Otherwise(t)
  PROVE  Settles(t)
<1>1. turn[t] \in TurnRecord /\ HeldInv(turn[t])
  BY DEF TypeOK, TurnInv, RecordInv
<1> USE Settling DEF AttemptInv, Tried, At, Leg, Goes
<1>2. CASE Arrive(t)
  <2>1. ASSUME NEW d \in Door, Message(t, d) PROVE Settles(t)
    BY <1>1, <2>1 DEF Message, TurnRecord, SettledInv, HeldInv, OnStage, PastCheck
  <2>2. ASSUME NEW d \in Door, NEW q \in Request, NEW b \in BOOLEAN, Decision(t, d, q, b)
        PROVE  Settles(t)
    BY <1>1, <2>2 DEF Decision, TurnRecord, SettledInv, HeldInv, OnStage, PastCheck
  <2> QED BY <1>2, <2>1, <2>2 DEF Arrive
<1>3. CASE ReadFails(t)
  BY <1>1, <1>3 DEF ReadFails, TurnRecord, SettledInv
<1>4. CASE SpendThrows(t)
  BY <1>1, <1>4 DEF SpendThrows, Failed, TurnRecord, Rests, SettledInv, HeldInv, OnStage, PastCheck
<1>5. CASE ResumeFails(t)
  BY <1>1, <1>5 DEF ResumeFails, TurnRecord, SettledInv
<1>6. CASE Abort(t)
  BY <1>1, <1>6 DEF Abort, TurnRecord, SettledInv
<1>7. CASE RunThrows(t)
  BY <1>1, <1>7 DEF RunThrows, TurnRecord, SettledInv, HeldInv
<1>8. CASE ProgressLands(t)
  BY <1>8 DEF ProgressLands, Settles, Rests
<1>9. CASE CloseThrows(t)
  BY <1>9, ClosedSettles DEF CloseThrows
<1>10. CASE MarkerThrows(t)
  BY <1>10, ClosedSettles DEF MarkerThrows
<1>11. ASSUME NEW q \in Request, RunPauses(t, q) PROVE Settles(t)
  <2>1. ASSUME NEW c, NEW e, turn[t].step \notin {"idle", "read"},
               Becomes(t, [turn[t] EXCEPT !.step = "deliver", !.leg = "none", !.conv = c, !.out = e])
        PROVE  Settles(t)
    BY <1>1, <2>1 DEF TurnRecord, SettledInv
  <2> QED BY <1>11, <2>1 DEF RunPauses, Runs
<1> QED BY <1>2, <1>3, <1>4, <1>5, <1>6, <1>7, <1>8, <1>9, <1>10, <1>11 DEF Otherwise

\* A pause that is not on offer, and that a turn at its end knows of, stays off it.
LEMMA StaysShut ==
  ASSUME IInv, FreshInv, [Next]_vars, NEW t \in Turn, turn[t].step = "done",
         ~Waiting(stored, turn[t].held.asked)
  PROVE  ~Waiting(stored', turn[t].held.asked)
<1> SUFFICES ASSUME Waiting(stored', turn[t].held.asked) PROVE FALSE
  OBVIOUS
<1>1. IInv' /\ TypeOK
  BY NextKeeps DEF IInv
<1>2. turn[t].held.asked \in Request
  BY <1>1 DEF IInv, StoredInv, EnvelopeInv, Asks, Waiting
<1>3. PICK u \in Turn : Asked(turn[u]) /\ turn[u].out.asked = turn[t].held.asked
  BY <1>1, <1>2, OfferedByAsker DEF Offered
<1> QED BY <1>3 DEF FreshInv, Asked, Unaware, Untold

\* A step of one turn leaves every answered pause settled.
LEMMA UsedStep ==
  ASSUME IInv, FreshInv, UsedInv, [Next]_vars, NEW t \in Turn, Settles(t),
         \A u \in Turn \ {t} : turn'[u] = turn[u]
  PROVE  UsedInv'
<1>1. \A u \in Turn : turn[u].step = "done" /\ ~Waiting(stored, turn[u].held.asked)
                        => ~Waiting(stored', turn[u].held.asked)
  BY StaysShut
<1>2. ASSUME NEW u \in Turn PROVE AttemptInv(turn'[u]) /\ SettledInv(turn'[u], stored')
  BY <1>1 DEF UsedInv, Settles, SettledInv, Rests
<1> QED BY <1>2 DEF UsedInv

LEMMA UsedInit == Init => UsedInv
<1> SUFFICES ASSUME Init PROVE UsedInv
  OBVIOUS
<1>1. \A u \in Turn : turn[u] = Idle
  BY DEF Init
<1> QED BY <1>1 DEF UsedInv, AttemptInv, SettledInv, Idle

\* Every step leaves every answered pause settled: one case per kind of step.
LEMMA UsedKept == IInv /\ FreshInv /\ UsedInv /\ [Next]_vars => UsedInv'
<1> SUFFICES ASSUME IInv, TypeOK, FreshInv, UsedInv, [Next]_vars PROVE UsedInv'
  BY DEF IInv
<1>1. \A t \in Turn : TurnInv(t) /\ Plain(turn[t]) /\ AttemptInv(turn[t])
  BY DEF IInv, FreshInv, UsedInv
<1>2. ASSUME NEW t \in Turn, StageStep(t) PROVE UsedInv'
  <2>1. Settles(t) /\ StaysUntold(t)
    BY <1>1, <1>2, StageSettles, StageUntold
  <2> QED BY <2>1, UsedStep DEF StaysUntold
<1>3. ASSUME NEW t \in Turn, DoorStep(t) PROVE UsedInv'
  <2>1. Settles(t) /\ StaysUntold(t)
    BY <1>1, <1>3, DoorSettles, DoorUntold
  <2> QED BY <2>1, UsedStep DEF StaysUntold
<1>4. ASSUME NEW t \in Turn, Arrive(t) \/ Otherwise(t) PROVE UsedInv'
  <2>1. Settles(t)
    BY <1>1, <1>4, OtherSettles
  <2>2. ASSUME NEW q \in Request, RunPauses(t, q) PROVE \A u \in Turn \ {t} : turn'[u] = turn[u]
    BY <2>2, Became DEF RunPauses
  <2>3. \A u \in Turn \ {t} : turn'[u] = turn[u]
    BY <1>1, <1>4, <2>2, OtherUntold DEF StaysUntold
  <2> QED BY <2>1, <2>3, UsedStep
<1>5. CASE World
  <2>1. ASSUME NEW u \in Turn
        PROVE  \/ turn'[u] = turn[u]
               \/ turn'[u] = [turn[u] EXCEPT !.leg = "gone",
                                             !.step = IF @ = "done" THEN "done" ELSE "dead"]
    BY <1>5 DEF World, Apply, Restart, Evict, Expire
  <2>2. ASSUME NEW u \in Turn PROVE AttemptInv(turn'[u]) /\ Rests(turn[u], turn'[u])
    <3>1. turn[u] \in TurnRecord
      BY DEF TypeOK
    <3> QED BY <1>1, <2>1, <3>1 DEF TurnRecord, AttemptInv, Rests, Tried
  <2>3. \A u \in Turn : turn[u].step = "done" /\ ~Waiting(stored, turn[u].held.asked)
                          => ~Waiting(stored', turn[u].held.asked)
    BY StaysShut
  <2> QED BY <2>2, <2>3 DEF UsedInv, SettledInv, Rests
<1>6. CASE UNCHANGED vars
  BY <1>6 DEF vars, UsedInv
<1> QED BY <1>2, <1>3, <1>4, <1>5, <1>6 DEF Next

\* A door that is done with a decision its ledger took or refused leaves no
\* pause for it on offer, unless the session store refused what it wrote.
THEOREM UsedSettled == Spec => []UsedIsSettled
<1>1. UsedInv => UsedIsSettled
  BY DEF UsedInv, SettledInv, Tried, UsedIsSettled, At
<1>2. Spec => []FreshInv
  BY FreshInit, FreshKept, Invariance, PTL DEF Spec
<1> QED BY <1>1, <1>2, UsedInit, UsedKept, Invariance, PTL DEF Spec

-----------------------------------------------------------------------------
(* A door replaces no newer pause of its own: its lane admits nobody who   *)
(* could ask one between what it read and what it writes                   *)

Active(r) == r.step \notin Ended

\* A door answers one request at a time.
LaneInv == \A t, u \in Turn :
  t # u /\ Active(turn[t]) /\ Active(turn[u]) => turn[t].door # turn[u].door

\* A pause about to be stored was asked by the door that stores it.
AskerInv == \A t \in Turn : Asked(turn[t]) => pending[turn[t].out.asked].door = turn[t].door

\* The turn read the pause it is about to write over.
Overwrites(r) == \/ r.step \in {"prove", "proving", "marking", "closeWrite"}
                 \/ r.step = "markWrite" /\ ~r.unread

\* Any other pause that is on offer is another door's.
NoneOfItsOwn(r, e) ==
  \A q \in Request : Waiting(e, q) => q = r.held.asked \/ pending[q].door # r.door

OwnInv == LaneInv /\ AskerInv
          /\ \A t \in Turn : Overwrites(turn[t]) => NoneOfItsOwn(turn[t], stored)

\* A step that takes a turn on, at its door, without a new reading.
GoesOnWith(s, r) ==
  /\ Active(r) => Active(s) /\ r.door = s.door
  /\ Overwrites(r) => Overwrites(s) /\ r.held = s.held /\ r.door = s.door

\* A step that begins to write over what is stored, having read it.
ReadsOn(s, r) ==
  /\ Active(s) /\ r.door = s.door /\ UNCHANGED stored
  /\ \A q \in Request : Waiting(stored, q) => q = r.held.asked

\* What a step of t must show to leave its lane its own.
KeepsLane(t) ==
  \/ GoesOnWith(turn[t], turn'[t])
  \/ ReadsOn(turn[t], turn'[t])
  \/ ~Busy(turn'[t].door) /\ ~Overwrites(turn'[t])

LEMMA LaneStep ==
  ASSUME TypeOK, NEW t \in Turn, NEW r, Becomes(t, r),
         \/ GoesOnWith(turn[t], r) \/ ReadsOn(turn[t], r)
         \/ ~Busy(r.door) /\ ~Overwrites(r)
  PROVE  KeepsLane(t)
  BY Became DEF KeepsLane

\* A stage leaves its door where it is, or has it look after a failed answer.
LEMMA StageKeepsLane ==
  ASSUME TypeOK, NEW t \in Turn, TurnInv(t), StageStep(t)
  PROVE  KeepsLane(t)
<1>1. turn[t] \in TurnRecord /\ HeldInv(turn[t])
  BY DEF TypeOK, TurnInv, RecordInv
<1> USE LaneStep DEF GoesOnWith, Active, Overwrites, Leg, At, LegGoes, Ended
<1>2. CASE CheckDecision(t)
  BY <1>1, <1>2 DEF CheckDecision, TurnRecord, HeldInv, OnStage, PastCheck
<1>3. CASE SpendDecision(t)
  BY <1>1, <1>3 DEF SpendDecision, TurnRecord
<1>4. CASE SpendWon(t)
  BY <1>1, <1>4 DEF SpendWon, TurnRecord
<1>5. CASE SpendRefused(t)
  BY <1>1, <1>5 DEF SpendRefused, Failed, TurnRecord
<1>6. CASE Execute(t)
  BY <1>1, <1>6 DEF Execute, TurnRecord
<1>7. CASE CallSettled(t)
  BY <1>1, <1>7 DEF CallSettled, TurnRecord
<1>8. CASE StageStops(t)
  BY <1>1, <1>8 DEF StageStops, TurnRecord
<1> QED BY <1>2, <1>3, <1>4, <1>5, <1>6, <1>7, <1>8 DEF StageStep

\* Closing a call goes on with the pause it was about.
LEMMA ClosedKeepsLane ==
  ASSUME TypeOK, NEW t \in Turn, turn[t].step \in {"prove", "proving", "marking"},
         NEW o, Closed(t, o)
  PROVE  KeepsLane(t)
<1> DEFINE c == Settle(turn[t].conv, o)
           r == [turn[t] EXCEPT !.conv = c,
                                !.step = IF turn[t].kind = "message" THEN "run" ELSE "closeWrite",
                                !.out = ConversationEnvelope(c)]
<1>1. turn[t] \in TurnRecord
  BY DEF TypeOK
<1>2. Becomes(t, r)
  BY DEF Closed
<1>3. r.step \in {"run", "closeWrite"} /\ r.door = turn[t].door /\ r.held = turn[t].held
  BY <1>1 DEF TurnRecord
<1> HIDE DEF r
<1> QED BY <1>2, <1>3, LaneStep DEF GoesOnWith, Active, Overwrites, Ended

\* A write of the door ends its turn, or has it look after a failed answer.
LEMMA WriteKeepsLane ==
  ASSUME TypeOK, NEW t \in Turn, turn[t].step \in Writing, NEW step \in {"done", "watch"},
         Persist(t, step) \/ PersistFails(t, step)
  PROVE  KeepsLane(t)
<1>1. turn[t] \in TurnRecord
  BY DEF TypeOK
<1>2. PICK failed \in BOOLEAN : Becomes(t, [turn[t] EXCEPT !.step = step, !.storeFailed = failed])
  BY <1>1, PersistStores
<1> DEFINE r == [turn[t] EXCEPT !.step = step, !.storeFailed = failed]
<1>3. r.step = step /\ r.door = turn[t].door
  BY <1>1 DEF TurnRecord
<1> HIDE DEF r
<1> QED BY <1>2, <1>3, LaneStep DEF r, GoesOnWith, Active, Overwrites, Writing, Ended

\* A door that is about to write over what is stored has read it, or goes on.
LEMMA DoorKeepsLane ==
  ASSUME TypeOK, NEW t \in Turn, DoorStep(t)
  PROVE  KeepsLane(t)
<1>1. turn[t] \in TurnRecord
  BY DEF TypeOK
<1> USE LaneStep DEF GoesOnWith, ReadsOn, Active, Overwrites, Waiting, At, Goes, Ended
<1>2. CASE ReadForMessage(t)
  BY <1>1, <1>2 DEF ReadForMessage, TurnRecord
<1>3. CASE ReadForDecision(t)
  <2>1. CASE stored.format # "waiting"
    BY <1>1, <1>3, <2>1 DEF ReadForDecision, TurnRecord
  <2>2. CASE stored.format = "waiting"
    BY <1>1, <1>3, <2>2 DEF ReadForDecision, TurnRecord
  <2> QED BY <2>1, <2>2
<1>4. CASE RunCompletes(t)
  BY <1>1, <1>4 DEF RunCompletes, Runs, TurnRecord
<1>5. CASE Deliver(t)
  BY <1>5, WriteKeepsLane DEF Deliver, Writing
<1>6. CASE AfterFailedAnswer(t)
  BY <1>1, <1>6 DEF AfterFailedAnswer, TurnRecord
<1>7. CASE MarkRead(t)
  <2>1. turn[t].step = "markRead" /\ UNCHANGED stored
    BY <1>7 DEF MarkRead
  <2>2. CASE Goes(t, "done")
    BY <1>1, <2>1, <2>2 DEF TurnRecord
  <2>3. ASSUME NEW e, Becomes(t, [turn[t] EXCEPT !.step = "markWrite", !.out = e]),
               stored.format = "waiting" => stored.asked = turn[t].held.asked
        PROVE  KeepsLane(t)
    BY <1>1, <2>1, <2>3 DEF TurnRecord
  <2>4. ASSUME NEW e, Becomes(t, [turn[t] EXCEPT !.step = "markWrite", !.unread = TRUE, !.out = e])
        PROVE  KeepsLane(t)
    BY <1>1, <2>1, <2>4 DEF TurnRecord
  <2> QED BY <1>7, <2>2, <2>3, <2>4 DEF MarkRead
<1>8. CASE MarkWrite(t)
  BY <1>8, WriteKeepsLane DEF MarkWrite, Writing
<1>9. CASE CloseRead(t)
  <2>1. turn[t].step = "closeRead" /\ UNCHANGED stored
    BY <1>9 DEF CloseRead
  <2>2. CASE /\ Becomes(t, [turn[t] EXCEPT !.conv = stored.conv, !.step = "prove"])
             /\ Waiting(stored, turn[t].held.asked)
    BY <1>1, <2>1, <2>2 DEF TurnRecord
  <2>3. CASE Goes(t, "done")
    BY <1>1, <2>1, <2>3 DEF TurnRecord
  <2>4. CASE Becomes(t, [turn[t] EXCEPT !.step = "done", !.storeFailed = TRUE])
    BY <1>1, <2>1, <2>4 DEF TurnRecord
  <2> QED BY <1>9, <2>2, <2>3, <2>4 DEF CloseRead
<1>10. CASE ProveNeverRan(t)
  <2>1. CASE Goes(t, "proving")
    BY <1>1, <1>10, <2>1 DEF ProveNeverRan, TurnRecord
  <2>2. CASE Closed(t, "unknown")
    BY <1>10, <2>2, ClosedKeepsLane DEF ProveNeverRan
  <2> QED BY <1>10, <2>1, <2>2 DEF ProveNeverRan
<1>11. CASE CloseWon(t)
  BY <1>1, <1>11 DEF CloseWon, TurnRecord
<1>12. CASE CloseLost(t)
  BY <1>12, ClosedKeepsLane DEF CloseLost
<1>13. CASE CloseMarked(t)
  BY <1>13, ClosedKeepsLane DEF CloseMarked
<1>14. CASE CloseWrite(t)
  BY <1>14, WriteKeepsLane DEF CloseWrite, Writing
<1> QED BY <1>2, <1>3, <1>4, <1>5, <1>6, <1>7, <1>8, <1>9, <1>10, <1>11, <1>12, <1>13, <1>14
        DEF DoorStep

\* A request arrives at a door that is free; the rest goes on where it is.
LEMMA OtherKeepsLane ==
  ASSUME TypeOK, NEW t \in Turn, Arrive(t) \/ Otherwise(t)
  PROVE  KeepsLane(t)
<1>1. turn[t] \in TurnRecord
  BY DEF TypeOK
<1> USE LaneStep DEF GoesOnWith, Active, Overwrites, At, Leg, Goes, Ended
<1>2. CASE Arrive(t)
  <2>1. ASSUME NEW d \in Door, Message(t, d) PROVE KeepsLane(t)
    BY <1>1, <2>1 DEF Message, TurnRecord
  <2>2. ASSUME NEW d \in Door, NEW q \in Request, NEW b \in BOOLEAN, Decision(t, d, q, b)
        PROVE  KeepsLane(t)
    BY <1>1, <2>2 DEF Decision, TurnRecord
  <2> QED BY <1>2, <2>1, <2>2 DEF Arrive
<1>3. CASE ReadFails(t)
  BY <1>1, <1>3 DEF ReadFails, TurnRecord
<1>4. CASE SpendThrows(t)
  BY <1>1, <1>4 DEF SpendThrows, Failed, TurnRecord
<1>5. CASE ResumeFails(t)
  BY <1>1, <1>5 DEF ResumeFails, TurnRecord
<1>6. CASE Abort(t)
  BY <1>1, <1>6 DEF Abort, TurnRecord
<1>7. CASE RunThrows(t)
  BY <1>1, <1>7 DEF RunThrows, TurnRecord
<1>8. CASE ProgressLands(t)
  BY <1>8 DEF ProgressLands, KeepsLane
<1>9. CASE CloseThrows(t)
  BY <1>9, ClosedKeepsLane DEF CloseThrows
<1>10. CASE MarkerThrows(t)
  BY <1>10, ClosedKeepsLane DEF MarkerThrows
<1>11. ASSUME NEW q \in Request, RunPauses(t, q) PROVE KeepsLane(t)
  <2> DEFINE c == [turn[t].conv EXCEPT ![q] = "open"]
             r == [turn[t] EXCEPT !.step = "deliver", !.leg = "none", !.conv = c,
                                  !.out = [format |-> "waiting", asked |-> q, conv |-> c]]
  <2>1. turn[t].step \in {"run", "resume"} /\ Becomes(t, r)
    BY <1>11 DEF RunPauses, Runs
  <2>2. r.step = "deliver" /\ r.door = turn[t].door
    BY <1>1 DEF TurnRecord
  <2> HIDE DEF c, r
  <2> QED BY <2>1, <2>2
<1> QED BY <1>2, <1>3, <1>4, <1>5, <1>6, <1>7, <1>8, <1>9, <1>10, <1>11 DEF Otherwise

\* What a pause recorded stays.
PausesKept == \A q \in Request : Minted(q) => pending'[q] = pending[q]

\* A pause that came on offer now was stored by the door recorded as its asker.
LEMMA OfferedRecord ==
  ASSUME IInv, FreshInv, AskerInv, [Next]_vars, PausesKept, NEW q \in Request, Offered(q)'
  PROVE  /\ Minted(q) /\ pending'[q] = pending[q]
         /\ \/ Offered(q)
            \/ \E u \in Turn : Asked(turn[u]) /\ pending[q].door = turn[u].door
<1>1. TypeOK
  BY DEF IInv
<1>2. CASE Offered(q)
  BY <1>2 DEF Offered, Waiting, IInv, StoredInv, EnvelopeInv, Asks, PausesKept
<1>3. CASE ~Offered(q)
  <2>1. PICK u \in Turn : Asked(turn[u]) /\ turn[u].out.asked = q
    BY <1>1, <1>3, OfferedByAsker
  <2>2. Minted(q)
    BY <2>1 DEF Asked, IInv, TurnInv, RecordInv, SaidInv, EnvelopeInv, Asks
  <2> QED BY <2>1, <2>2 DEF AskerInv, PausesKept
<1> QED BY <1>2, <1>3

\* A step in which one turn at most begins anything keeps every lane its own.
LEMMA OwnStep ==
  ASSUME IInv, FreshInv, OwnInv, [Next]_vars, PausesKept, AskerInv',
         \A u \in Turn : KeepsLane(u),
         \A u, v \in Turn : u # v => GoesOnWith(turn[u], turn'[u]) \/ GoesOnWith(turn[v], turn'[v])
  PROVE  OwnInv'
<1>1. ASSUME NEW u \in Turn, NEW v \in Turn, GoesOnWith(turn[v], turn'[v]), u # v,
             Active(turn'[u]), Active(turn'[v])
      PROVE  turn'[u].door # turn'[v].door
  <2>1. Active(turn[v]) /\ turn'[v].door = turn[v].door
    BY <1>1 DEF GoesOnWith
  <2>2. CASE ~Busy(turn'[u].door)
    BY <2>1, <2>2 DEF Busy, Active
  <2>3. CASE Active(turn[u]) /\ turn'[u].door = turn[u].door
    BY <1>1, <2>1, <2>3 DEF OwnInv, LaneInv
  <2> QED BY <1>1, <2>2, <2>3 DEF KeepsLane, GoesOnWith, ReadsOn
<1>2. LaneInv'
  <2> SUFFICES ASSUME NEW u \in Turn, NEW v \in Turn, u # v, Active(turn'[u]), Active(turn'[v])
               PROVE  turn'[u].door # turn'[v].door
    BY DEF LaneInv
  <2> QED BY <1>1
<1>3. ASSUME NEW u \in Turn, Overwrites(turn'[u]), NEW q \in Request, Offered(q)'
      PROVE  q = turn'[u].held.asked \/ pending'[q].door # turn'[u].door
  <2>1. Minted(q) /\ pending'[q] = pending[q]
    BY <1>3, OfferedRecord DEF OwnInv
  <2>2. CASE GoesOnWith(turn[u], turn'[u])
    <3>1. Overwrites(turn[u]) /\ turn'[u].held = turn[u].held /\ turn'[u].door = turn[u].door
      BY <1>3, <2>2 DEF GoesOnWith
    <3>2. CASE Offered(q)
      BY <2>1, <3>1, <3>2 DEF OwnInv, NoneOfItsOwn, Offered
    <3>3. ASSUME NEW v \in Turn, Asked(turn[v]), pending[q].door = turn[v].door
          PROVE  pending[q].door # turn[u].door
      <4>1. v # u /\ Active(turn[v]) /\ Active(turn[u])
        BY <3>1, <3>3 DEF Asked, Overwrites, Active, Ended
      <4> QED BY <3>3, <4>1 DEF OwnInv, LaneInv
    <3> QED BY <1>3, <2>1, <3>1, <3>2, <3>3, OfferedRecord DEF OwnInv
  <2>3. CASE ReadsOn(turn[u], turn'[u])
    BY <1>3, <2>3 DEF ReadsOn, Offered
  <2> QED BY <1>3, <2>2, <2>3 DEF KeepsLane
<1> QED BY <1>2, <1>3 DEF OwnInv, NoneOfItsOwn, Offered

\* A step of one turn that asks nothing.
LEMMA OwnTurn ==
  ASSUME IInv, FreshInv, OwnInv, [Next]_vars, UNCHANGED pending, NEW t \in Turn,
         KeepsLane(t), StaysUntold(t)
  PROVE  OwnInv'
<1>1. \A u \in Turn \ {t} : GoesOnWith(turn[u], turn'[u])
  BY DEF StaysUntold, GoesOnWith
<1>2. AskerInv'
  BY DEF OwnInv, AskerInv, StaysUntold, Asked, Writing
<1> QED BY <1>1, <1>2, OwnStep DEF KeepsLane, PausesKept

\* A run that pauses records its door as the one that asked.
LEMMA OwnPause ==
  ASSUME IInv, FreshInv, OwnInv, [Next]_vars, NEW t \in Turn, NEW p \in Request, RunPauses(t, p)
  PROVE  OwnInv'
<1> DEFINE c == [turn[t].conv EXCEPT ![p] = "open"]
           r == [turn[t] EXCEPT !.step = "deliver", !.leg = "none", !.conv = c,
                                !.out = [format |-> "waiting", asked |-> p, conv |-> c]]
<1>1. TypeOK /\ turn[t] \in TurnRecord
  BY DEF IInv, TypeOK
<1>2. r.door = turn[t].door /\ r.out.asked = p
  BY <1>1 DEF TurnRecord
<1>3. Becomes(t, r) /\ ~Minted(p)
  BY DEF RunPauses
<1> HIDE DEF r, c
<1>4. turn'[t] = r /\ \A u \in Turn \ {t} : turn'[u] = turn[u]
  BY <1>1, <1>3, Became
<1>5. /\ pending'[p].door = turn[t].door
      /\ \A q \in Request : q # p => pending'[q] = pending[q]
  BY <1>1 DEF RunPauses, TypeOK
<1>6. AskerInv'
  <2> SUFFICES ASSUME NEW u \in Turn, Asked(turn'[u])
               PROVE  pending'[turn'[u].out.asked].door = turn'[u].door
    BY DEF AskerInv
  <2>1. CASE u = t
    BY <1>2, <1>4, <1>5, <2>1
  <2>2. CASE u # t
    <3>1. turn'[u] = turn[u] /\ turn[u].out.asked \in Request /\ Minted(turn[u].out.asked)
      BY <1>4, <2>2 DEF IInv, TurnInv, RecordInv, SaidInv, EnvelopeInv, Asks, Asked
    <3> QED BY <1>3, <1>5, <3>1 DEF OwnInv, AskerInv
  <2> QED BY <2>1, <2>2
<1>7. KeepsLane(t)
  BY <1>1, OtherKeepsLane DEF Otherwise
<1>8. \A u \in Turn \ {t} : GoesOnWith(turn[u], turn'[u])
  BY <1>4 DEF GoesOnWith
<1>9. PausesKept
  BY <1>3, <1>5 DEF PausesKept
<1> QED BY <1>6, <1>7, <1>8, <1>9, OwnStep DEF KeepsLane

\* A restart ends turns, and nothing else of the world moves one.
LEMMA OwnWorld ==
  ASSUME IInv, FreshInv, OwnInv, [Next]_vars, World
  PROVE  OwnInv'
<1>1. UNCHANGED pending
  BY DEF World, Apply, Restart, Evict, Expire
<1>2. ASSUME NEW u \in Turn
      PROVE  \/ turn'[u] = turn[u]
             \/ turn'[u] = [turn[u] EXCEPT !.leg = "gone",
                                           !.step = IF @ = "done" THEN "done" ELSE "dead"]
  BY DEF World, Apply, Restart, Evict, Expire
<1>3. ASSUME NEW u \in Turn
      PROVE  /\ turn'[u].held = turn[u].held /\ turn'[u].out = turn[u].out
             /\ turn'[u].door = turn[u].door /\ turn'[u].unread = turn[u].unread
             /\ turn'[u].step = turn[u].step \/ turn'[u].step \in {"done", "dead"}
  <2>1. turn[u] \in TurnRecord
    BY DEF IInv, TypeOK
  <2> QED BY <1>2, <2>1 DEF TurnRecord
<1>4. \A u \in Turn : GoesOnWith(turn[u], turn'[u])
  BY <1>3 DEF GoesOnWith, Active, Overwrites, Ended
<1>5. AskerInv'
  BY <1>1, <1>3 DEF OwnInv, AskerInv, Asked
<1> QED BY <1>1, <1>4, <1>5, OwnStep DEF KeepsLane, PausesKept

LEMMA OwnInit == Init => OwnInv
<1> SUFFICES ASSUME Init PROVE OwnInv
  OBVIOUS
<1>1. \A u \in Turn : turn[u].step = "idle"
  BY DEF Init, Idle
<1> QED BY <1>1 DEF OwnInv, LaneInv, AskerInv, Asked, Active, Overwrites, Ended

\* Every step keeps every lane its own.
LEMMA OwnKept == IInv /\ FreshInv /\ OwnInv /\ [Next]_vars => OwnInv'
<1> SUFFICES ASSUME IInv, TypeOK, FreshInv, OwnInv, [Next]_vars PROVE OwnInv'
  BY DEF IInv
<1>1. \A t \in Turn : TurnInv(t) /\ Plain(turn[t])
  BY DEF IInv, FreshInv
<1>2. ASSUME NEW t \in Turn, StageStep(t) PROVE OwnInv'
  <2>1. UNCHANGED pending
    BY <1>2 DEF StageStep, CheckDecision, SpendDecision, SpendWon, SpendRefused, Execute, CallSettled,
                StageStops
  <2> QED BY <1>1, <1>2, <2>1, StageUntold, StageKeepsLane, OwnTurn
<1>3. ASSUME NEW t \in Turn, DoorStep(t) PROVE OwnInv'
  <2>1. UNCHANGED pending
    BY <1>3 DEF DoorStep, ReadForMessage, ReadForDecision, RunCompletes, Deliver, AfterFailedAnswer,
                MarkRead, MarkWrite, CloseRead, ProveNeverRan, CloseWon, CloseLost, CloseMarked,
                CloseWrite, Persist, PersistFails
  <2> QED BY <1>1, <1>3, <2>1, DoorUntold, DoorKeepsLane, OwnTurn
<1>4. ASSUME NEW t \in Turn, Arrive(t) \/ Otherwise(t) PROVE OwnInv'
  <2>1. CASE \E q \in Request : RunPauses(t, q)
    BY <2>1, OwnPause
  <2>2. CASE \A q \in Request : ~RunPauses(t, q)
    <3>1. UNCHANGED pending
      BY <1>4, <2>2 DEF Arrive, Message, Decision, Otherwise, ReadFails, SpendThrows, ResumeFails,
                        Abort, RunThrows, ProgressLands, CloseThrows, MarkerThrows
    <3> QED BY <1>1, <1>4, <2>2, <3>1, OtherUntold, OtherKeepsLane, OwnTurn
  <2> QED BY <2>1, <2>2
<1>5. CASE UNCHANGED vars
  BY <1>5 DEF vars, OwnInv, LaneInv, AskerInv, NoneOfItsOwn
<1> QED BY <1>2, <1>3, <1>4, <1>5, OwnWorld DEF Next

\* What a door writes about a pause it read replaces no newer pause, but for one
\* that another door asked: no turn of its own can have asked one meanwhile.
THEOREM NewerIsKept == Spec => NewerPauseKept
<1>1. OwnInv => \A t \in Turn : Replaces(t) =>
                  \A q \in Request : Offered(q) => q = turn[t].held.asked \/ AskedElsewhere(t, q)
  BY DEF OwnInv, Overwrites, NoneOfItsOwn, Replaces, Offered, AskedElsewhere
<1>2. Spec => []FreshInv
  BY FreshInit, FreshKept, Invariance, PTL DEF Spec
<1>3. Spec => []OwnInv
  BY <1>2, OwnInit, OwnKept, Invariance, PTL DEF Spec
<1> QED BY <1>1, <1>3, PTL DEF NewerPauseKept

\* A door is recorded as the asker of every request that was minted.
MinterInv == \A q \in Request : Minted(q) => pending[q].door \in Door

LEMMA MinterInit == Init => MinterInv
  BY DEF Init, MinterInv, Minted, NotMinted

LEMMA MinterKept == IInv /\ MinterInv /\ [Next]_vars => MinterInv'
<1> SUFFICES ASSUME IInv, TypeOK, MinterInv, [Next]_vars PROVE MinterInv'
  BY DEF IInv
<1>1. ASSUME NEW t \in Turn, NEW q \in Request, RunPauses(t, q) PROVE MinterInv'
  <2>1. turn[t].door \in Door
    BY <1>1 DEF RunPauses, Runs, At, IInv, TurnInv, RecordInv, HeldInv
  <2>2. /\ pending'[q].door = turn[t].door
        /\ \A p \in Request : p # q => pending'[p] = pending[p]
    BY <1>1 DEF RunPauses, TypeOK
  <2> QED BY <2>1, <2>2 DEF MinterInv, Minted
<1>2. CASE UNCHANGED pending
  BY <1>2 DEF MinterInv, Minted
<1>3. ASSUME NEW t \in Turn, StageStep(t) \/ DoorStep(t) PROVE UNCHANGED pending
  BY <1>3 DEF StageStep, CheckDecision, SpendDecision, SpendWon, SpendRefused, Execute, CallSettled,
     StageStops, DoorStep, ReadForMessage, ReadForDecision, RunCompletes, Deliver, AfterFailedAnswer,
     MarkRead, MarkWrite, CloseRead, ProveNeverRan, CloseWon, CloseLost, CloseMarked, CloseWrite,
     Persist, PersistFails
<1>4. ASSUME NEW t \in Turn, Arrive(t) \/ Otherwise(t), \A q \in Request : ~RunPauses(t, q)
      PROVE  UNCHANGED pending
  BY <1>4 DEF Arrive, Message, Decision, Otherwise, ReadFails, SpendThrows, ResumeFails, Abort,
     RunThrows, ProgressLands, CloseThrows, MarkerThrows
<1>5. CASE World
  BY <1>2, <1>5 DEF World, Apply, Restart, Evict, Expire
<1>6. CASE UNCHANGED vars
  BY <1>2, <1>6 DEF vars
<1> QED BY <1>1, <1>2, <1>3, <1>4, <1>5, <1>6 DEF Next

\* So where every process answers through one and the same door, what the
\* comment on closeUnanswerable says is true: nobody else can have asked.
THEOREM OneDoorClosesItsOwn ==
  ASSUME \A d, e \in Door : d = e
  PROVE  Spec => ClosesItsPauseOnly
<1>1. IInv /\ OwnInv /\ MinterInv =>
        \A t \in Turn : At(t, "closeWrite") /\ turn[t].refusal /\ turn'[t].step = "done"
                        /\ stored' = turn[t].out
                      => \A q \in Request : Offered(q) => q = turn[t].held.asked
  <2> SUFFICES ASSUME IInv, OwnInv, MinterInv, NEW t \in Turn, At(t, "closeWrite"),
                      NEW q \in Request, Offered(q)
               PROVE  q = turn[t].held.asked
    OBVIOUS
  <2>1. Minted(q)
    BY DEF Offered, Waiting, IInv, StoredInv, EnvelopeInv, Asks
  <2>2. turn[t].door \in Door /\ pending[q].door \in Door
    BY <2>1 DEF MinterInv, IInv, TurnInv, RecordInv, HeldInv, At
  <2> QED BY <2>2 DEF OwnInv, Overwrites, NoneOfItsOwn, Offered, At
<1>2. Spec => []FreshInv
  BY FreshInit, FreshKept, Invariance, PTL DEF Spec
<1>3. Spec => []OwnInv
  BY <1>2, OwnInit, OwnKept, Invariance, PTL DEF Spec
<1>4. Spec => []MinterInv
  BY MinterInit, MinterKept, Invariance, PTL DEF Spec
<1> QED BY <1>1, <1>3, <1>4, Invariance, PTL DEF ClosesItsPauseOnly

-----------------------------------------------------------------------------
(* HostedConsent implements OneAnswer: a request minted under the ledger   *)
(* every process shares is settled once and its call runs only if it was   *)
(* approved, in one turn.                                                  *)

-----------------------------------------------------------------------------
(* What one step does to the ledgers, to what ran and to the pauses        *)

\* A ledger records one more spend, of a key it had not recorded.
Records == \E w : spent' = spent \cup {w} /\ ~Recorded(w)

\* One more turn runs the call its decision approved.
Executes(t) == ran' = ran \cup {t} /\ turn[t].leg = "won"

\* Either of the two, or none; and what a pause recorded is never changed.
LEMMA OneEffect ==
  ASSUME [Next]_vars
  PROVE  /\ \/ spent' = spent /\ ran' = ran
            \/ Records /\ ran' = ran
            \/ spent' = spent /\ \E t \in Turn : Executes(t)
         /\ \A q \in Request : Minted(q) => pending'[q] = pending[q]
<1> DEFINE Same == spent' = spent /\ ran' = ran /\ pending' = pending
           Goal == /\ \/ spent' = spent /\ ran' = ran
                      \/ Records /\ ran' = ran
                      \/ spent' = spent /\ \E t \in Turn : Executes(t)
                   /\ \A q \in Request : Minted(q) => pending'[q] = pending[q]
<1>0. Same => Goal
  OBVIOUS
<1>s. ASSUME NEW w, Send(w) PROVE spent' = spent \/ Records
  BY <1>s DEF Send, Records
<1>1. ASSUME NEW t \in Turn, Arrive(t) \/ StageStep(t) PROVE Goal
  <2>1. CASE Execute(t)
    BY <2>1 DEF Execute, Executes, Leg
  <2>2. CASE SpendDecision(t)
    BY <1>s, <2>2 DEF SpendDecision
  <2>3. CASE Arrive(t) \/ CheckDecision(t) \/ SpendWon(t) \/ SpendRefused(t) \/ CallSettled(t) \/ StageStops(t)
    <3>1. Same
      BY <2>3 DEF Arrive, Message, Decision, CheckDecision, SpendWon, SpendRefused, CallSettled, StageStops
    <3> QED BY <1>0, <3>1
  <2> QED BY <1>1, <2>1, <2>2, <2>3 DEF StageStep
<1>2. ASSUME NEW t \in Turn, DoorStep(t) PROVE Goal
  <2>1. CASE ProveNeverRan(t)
    BY <1>s, <2>1 DEF ProveNeverRan
  <2>2. CASE CloseWon(t)
    BY <1>s, <2>2 DEF CloseWon
  <2>3. CASE \/ ReadForMessage(t) \/ ReadForDecision(t) \/ RunCompletes(t) \/ Deliver(t)
             \/ AfterFailedAnswer(t) \/ MarkRead(t) \/ MarkWrite(t) \/ CloseRead(t)
             \/ CloseLost(t) \/ CloseMarked(t) \/ CloseWrite(t)
    <3>1. Same
      BY <2>3 DEF ReadForMessage, ReadForDecision, RunCompletes, Deliver, AfterFailedAnswer, MarkRead,
                  MarkWrite, CloseRead, CloseLost, CloseMarked, CloseWrite, Persist, PersistFails
    <3> QED BY <1>0, <3>1
  <2> QED BY <1>2, <2>1, <2>2, <2>3 DEF DoorStep
<1>3. ASSUME NEW t \in Turn, Otherwise(t) PROVE Goal
  <2>1. ASSUME NEW q \in Request, RunPauses(t, q) PROVE Goal
    <3>1. \A p \in Request : Minted(p) => pending'[p] = pending[p]
      BY <2>1 DEF RunPauses
    <3> QED BY <2>1, <3>1 DEF RunPauses
  <2>2. CASE \/ ReadFails(t) \/ SpendThrows(t) \/ ResumeFails(t) \/ Abort(t)
             \/ RunThrows(t) \/ ProgressLands(t) \/ CloseThrows(t) \/ MarkerThrows(t)
    <3>1. Same
      BY <2>2 DEF ReadFails, SpendThrows, ResumeFails, Abort, RunThrows, ProgressLands, CloseThrows, MarkerThrows
    <3> QED BY <1>0, <3>1
  <2> QED BY <1>3, <2>1, <2>2 DEF Otherwise
<1>4. CASE World
  <2>1. ASSUME NEW w \in wire, Apply(w) PROVE Goal
    BY <2>1 DEF Apply, Records
  <2>2. CASE ~\E w \in wire : Apply(w)
    <3>1. Same
      BY <1>4, <2>2 DEF World, Restart, Evict, Expire
    <3> QED BY <1>0, <3>1
  <2> QED BY <2>1, <2>2
<1>5. CASE UNCHANGED vars
  BY <1>0, <1>5 DEF vars
<1> QED BY <1>1, <1>2, <1>3, <1>4, <1>5 DEF Next

-----------------------------------------------------------------------------
(* The verdict of the shared ledger                                        *)

\* What the shared ledger recorded of q, but for the marker of a close.
Shared(q) == {e \in spent : e.ledger = SharedLedger /\ e.request = q /\ e.use # "marker"}

\* A request nobody spent there is open.
LEMMA OpenVerdict ==
  ASSUME NEW q \in Request
  PROVE  (Shared(q) = {} => Verdict(q) = "open") /\ (Shared(q) = {} => Verdict(q) = "open")'
<1>1. Shared(q) = {} => Verdict(q) = "open"
  <2>1. Shared(q) = {} =>
          {e.use : e \in {f \in spent : f.ledger = SharedLedger /\ f.request = q}} \subseteq {"marker"}
    BY DEF Shared
  <2> QED BY <2>1 DEF Verdict
<1> QED BY <1>1, PTL

\* One that was spent is settled as the spend was.
LEMMA SpentVerdict ==
  ASSUME NEW q \in Request, NEW e
  PROVE  /\ LedgerInv /\ e \in Shared(q) => Verdict(q) = e.use
         /\ (LedgerInv /\ e \in Shared(q) => Verdict(q) = e.use)'
<1> DEFINE uses == {x.use : x \in {f \in spent : f.ledger = SharedLedger /\ f.request = q}}
<1>1. LedgerInv /\ e \in Shared(q) => Verdict(q) = e.use
  <2> SUFFICES ASSUME LedgerInv, e \in Shared(q) PROVE Verdict(q) = e.use
    OBVIOUS
  <2>1. e.use \in uses /\ e.use # "marker"
    BY DEF Shared
  <2>2. \A f \in Shared(q) : f = e
    BY DEF LedgerInv, SpentOnce, Shared, KeyOf
  <2>3. \A u \in uses : u # "marker" => u = e.use
    BY <2>2 DEF Shared
  <2> HIDE DEF uses
  <2>4. (CHOOSE u \in uses : u # "marker") = e.use
    BY <2>1, <2>3
  <2>5. ~(uses \subseteq {"marker"})
    BY <2>1
  <2> QED BY <2>4, <2>5 DEF Verdict, uses
<1> QED BY <1>1, PTL

\* Whoever ran a call keeps the decision that approved it; what runs is minted.
LEMMA RanKept ==
  ASSUME IInv, IInv', spent \subseteq spent', NEW q \in Request, NEW t \in Ran(q)
  PROVE  turn'[t].held.asked = q /\ Minted(q)
<1>1. PICK e \in spent : e.by = t /\ e.use = "approve" /\ e.request = q
  BY RanApproved
<1>2. EntryInv(e) /\ EntryInv(e)'
  BY DEF IInv, LedgerInv
<1> QED BY <1>1, <1>2 DEF EntryInv, DecisionUse

-----------------------------------------------------------------------------
(* The refinement                                                          *)

\* Who ran the call of q, if the shared ledger decides it.
By(q) == IF Minted(q) /\ pending[q].ledger = SharedLedger THEN Ran(q) ELSE {}

\* A call nobody runs now was run by the same turns before.
LEMMA SameBy ==
  ASSUME IInv, IInv', spent \subseteq spent', ran' = ran, NEW q \in Request,
         \A p \in Request : Minted(p) => pending'[p] = pending[p]
  PROVE  By(q)' = By(q)
<1>1. ASSUME NEW t \in Ran(q) PROVE t \in Ran(q)' /\ Minted(q)
  BY RanKept DEF Ran
<1>2. ASSUME NEW t \in Ran(q)' PROVE t \in Ran(q)
  <2>1. t \in Turn /\ t \in ran /\ turn'[t].held.asked = q
    BY DEF Ran, IInv, TypeOK
  <2>2. PICK e \in spent : e.by = t /\ e.use = "approve"
    BY <2>1 DEF IInv, TurnInv, RecordInv, RanInv, Used
  <2>3. turn[t].held.asked = e.request /\ turn'[t].held.asked = e.request
    BY <2>2 DEF IInv, LedgerInv, EntryInv, DecisionUse
  <2> QED BY <2>1, <2>3 DEF Ran
<1>3. Ran(q)' = Ran(q)
  BY <1>1, <1>2
<1>4. Minted(q) => Minted(q)' /\ pending'[q] = pending[q]
  BY DEF Minted
<1>5. ~Minted(q) => Ran(q) = {}
  BY <1>1
<1> QED BY <1>3, <1>4, <1>5 DEF By

\* A ledger that records one more spend settles at most one request, which was
\* open.
LEMMA RecordsSettles ==
  ASSUME IInv, IInv', Records
  PROVE  \/ \A q \in Request : Verdict(q)' = Verdict(q)
         \/ \E p \in Request : /\ Verdict(p) = "open"
                               /\ Verdict(p)' \in {"approve", "decline", "close"}
                               /\ \A q \in Request \ {p} : Verdict(q)' = Verdict(q)
<1>1. PICK w : spent' = spent \cup {w} /\ ~Recorded(w)
  BY DEF Records
<1>2. w \in Entry
  BY <1>1 DEF IInv, TypeOK
<1>3. w.request \in Request /\ w.use \in {"approve", "decline", "close", "marker"}
  BY <1>2 DEF Entry, Use
<1>4. ASSUME NEW q \in Request, Shared(q)' = Shared(q) PROVE Verdict(q)' = Verdict(q)
  <2>1. CASE Shared(q) = {}
    BY <1>4, <2>1, OpenVerdict
  <2>2. CASE Shared(q) # {}
    <3>1. PICK e : e \in Shared(q)
      BY <2>2
    <3>2. Verdict(q) = e.use
      BY <3>1, SpentVerdict DEF IInv
    <3>3. Verdict(q)' = e.use
      BY <1>4, <3>1, SpentVerdict DEF IInv
    <3> QED BY <3>2, <3>3
  <2> QED BY <2>1, <2>2
<1>5. \A q \in Request : Shared(q)' # Shared(q) => /\ w.request = q /\ w.ledger = SharedLedger
                                                  /\ w.use # "marker" /\ w \in Shared(q)'
  BY <1>1 DEF Shared
<1>6. CASE w.ledger = SharedLedger /\ w.use # "marker"
  <2> DEFINE p == w.request
  <2>1. Shared(p) = {}
    BY <1>1, <1>3, <1>6 DEF Recorded, KeyOf, Shared
  <2>2. Verdict(p) = "open"
    BY <1>3, <2>1, OpenVerdict
  <2>3. Verdict(p)' = w.use
    <3>1. w \in Shared(p)'
      BY <1>1, <1>6 DEF Shared
    <3> QED BY <1>3, <3>1, SpentVerdict DEF IInv
  <2>4. \A q \in Request \ {p} : Verdict(q)' = Verdict(q)
    BY <1>4, <1>5
  <2> QED BY <1>3, <1>6, <2>2, <2>3, <2>4
<1>7. CASE ~(w.ledger = SharedLedger /\ w.use # "marker")
  BY <1>4, <1>5, <1>7
<1> QED BY <1>6, <1>7

\* A turn that runs a call the shared ledger decides had it approved, and is
\* the first to run it.
LEMMA RunIsFirst ==
  ASSUME IInv, IInv', spent' = spent, NEW t \in Turn, Executes(t), t \notin ran,
         \A p \in Request : Minted(p) => pending'[p] = pending[p]
  PROVE  \/ \A q \in Request : By(q)' = By(q)
         \/ \E p \in Request : /\ Verdict(p) = "approve" /\ By(p) = {} /\ By(p)' = {t}
                               /\ \A q \in Request \ {p} : By(q)' = By(q)
<1>1. PICK e \in spent : e.by = t /\ e.use = "approve"
  BY DEF Executes, IInv, TurnInv, RecordInv, RanInv, Used
<1>2. PICK p \in Request : /\ e.request = p /\ Minted(p) /\ EntryInv(e)
                           /\ turn[t].held.asked = p /\ turn'[t].held.asked = p
  BY <1>1 DEF IInv, TypeOK, Entry, LedgerInv, EntryInv, DecisionUse
<1>3. ASSUME NEW q \in Request PROVE Ran(q)' = IF q = p THEN Ran(q) \cup {t} ELSE Ran(q)
  <2>1. ASSUME NEW u \in Turn, u \in ran
        PROVE  turn'[u].held.asked = turn[u].held.asked
    <3>1. PICK f \in spent : f.by = u /\ f.use = "approve"
      BY <2>1 DEF IInv, TurnInv, RecordInv, RanInv, Used
    <3> QED BY <3>1 DEF IInv, LedgerInv, EntryInv, DecisionUse
  <2>2. ran \subseteq Turn
    BY DEF IInv, TypeOK
  <2> QED BY <1>2, <2>1, <2>2 DEF Ran, Executes
<1>4. ASSUME NEW q \in Request \ {p} PROVE By(q)' = By(q)
  <2>1. Ran(q)' = Ran(q)
    BY <1>3
  <2>2. \A u \in Ran(q) : Minted(q)
    BY RanKept
  <2>3. Minted(q) => Minted(q)' /\ pending'[q] = pending[q]
    BY DEF Minted
  <2>4. ~Minted(q) => Ran(q) = {}
    BY <2>2
  <2> QED BY <2>1, <2>3, <2>4 DEF By
<1>5. CASE pending[p].ledger # SharedLedger
  <2>1. By(p)' = By(p)
    <3>1. pending'[p] = pending[p]
      BY <1>2
    <3> QED BY <1>5, <3>1 DEF By
  <2> QED BY <1>4, <2>1
<1>6. CASE pending[p].ledger = SharedLedger
  <2>1. OneLedger(p)
    BY <1>2, <1>6 DEF OneLedger, Identified, NoIdentity, SharedLedger
  <2>2. e \in Shared(p)
    BY <1>1, <1>2, <1>6, <2>1 DEF Shared, EntryInv
  <2>3. Verdict(p) = "approve"
    BY <1>1, <1>2, <2>2, SpentVerdict DEF IInv
  <2>4. ASSUME NEW u \in Ran(p) PROVE FALSE
    <3>1. PICK f \in spent : f.by = u /\ f.use = "approve" /\ f.request = p
      BY <1>2, RanApproved
    <3>2. e = f
      BY <1>1, <1>2, <2>1, <3>1, OneUse
    <3> QED BY <1>1, <3>1, <3>2 DEF Ran
  <2>5. By(p) = {} /\ By(p)' = {t}
    <3>1. Ran(p) = {} /\ Ran(p)' = {t}
      BY <1>2, <1>3, <2>4
    <3>2. Minted(p)' /\ pending'[p] = pending[p]
      BY <1>2 DEF Minted
    <3> QED BY <1>6, <3>1, <3>2 DEF By
  <2> QED BY <1>2, <1>4, <2>3, <2>5
<1> QED BY <1>5, <1>6

\* The first state is one of the promise's.
LEMMA StartsOpen == Init => Once!Init
<1> SUFFICES ASSUME Init PROVE Once!Init
  OBVIOUS
<1>1. ASSUME NEW q \in Request PROVE Verdict(q) = "open" /\ Ran(q) = {}
  <2>1. Shared(q) = {} /\ Ran(q) = {}
    BY DEF Init, Shared, Ran
  <2> QED BY <2>1, OpenVerdict
<1> QED BY <1>1 DEF Once!Init

\* A step of the doors is a step of the promise, or a stutter.
LEMMA StepSettles == IInv /\ IInv' /\ [Next]_vars => [Once!Next]_(Once!vars)
<1> SUFFICES ASSUME IInv, IInv', [Next]_vars PROVE [Once!Next]_(Once!vars)
  OBVIOUS
<1> DEFINE v == [q \in Request |-> Verdict(q)]
           b == [q \in Request |-> By(q)]
<1>1. \/ (v' = v /\ b' = b)
      \/ \E q \in Request, u \in {"approve", "decline", "close"} :
           v[q] = "open" /\ v' = [v EXCEPT ![q] = u] /\ b' = b
      \/ \E q \in Request, t \in Turn :
           v[q] = "approve" /\ b[q] = {} /\ b' = [b EXCEPT ![q] = {t}] /\ v' = v
  <2>0. \A p \in Request : Minted(p) => pending'[p] = pending[p]
    BY OneEffect
  <2>1. CASE spent' = spent /\ ran' = ran
    <3>1. \A q \in Request : By(q)' = By(q) /\ Verdict(q)' = Verdict(q)
      BY <2>0, <2>1, SameBy DEF Verdict
    <3> QED BY <3>1
  <2>2. CASE Records /\ ran' = ran
    <3>1. \A q \in Request : By(q)' = By(q)
      BY <2>0, <2>2, SameBy DEF Records
    <3>2. b' = b
      BY <3>1
    <3>3. CASE \A q \in Request : Verdict(q)' = Verdict(q)
      BY <3>2, <3>3
    <3>4. ASSUME NEW p \in Request, Verdict(p) = "open", Verdict(p)' \in {"approve", "decline", "close"},
                 \A q \in Request \ {p} : Verdict(q)' = Verdict(q)
          PROVE  \E q \in Request, u \in {"approve", "decline", "close"} :
                   v[q] = "open" /\ v' = [v EXCEPT ![q] = u] /\ b' = b
      <4>1. v[p] = "open" /\ v' = [v EXCEPT ![p] = Verdict(p)']
        BY <3>4
      <4> QED BY <3>2, <3>4, <4>1
    <3> QED BY <2>2, <3>3, <3>4, RecordsSettles
  <2>3. ASSUME spent' = spent, NEW t \in Turn, Executes(t)
        PROVE  \/ (v' = v /\ b' = b)
               \/ \E q \in Request, u \in Turn :
                    v[q] = "approve" /\ b[q] = {} /\ b' = [b EXCEPT ![q] = {u}] /\ v' = v
    <3>1. v' = v
      BY <2>3 DEF Verdict
    <3>2. CASE t \in ran
      <4>1. ran' = ran
        BY <2>3, <3>2 DEF Executes
      <4>2. \A q \in Request : By(q)' = By(q)
        BY <2>0, <2>3, <4>1, SameBy
      <4> QED BY <3>1, <4>2
    <3>3. CASE \A q \in Request : By(q)' = By(q)
      BY <3>1, <3>3
    <3>4. ASSUME NEW p \in Request, Verdict(p) = "approve", By(p) = {}, By(p)' = {t},
                 \A q \in Request \ {p} : By(q)' = By(q)
          PROVE  \E q \in Request, u \in Turn :
                    v[q] = "approve" /\ b[q] = {} /\ b' = [b EXCEPT ![q] = {u}] /\ v' = v
      <4>1. v[p] = "approve" /\ b[p] = {} /\ b' = [b EXCEPT ![p] = {t}]
        BY <3>4
      <4> QED BY <3>1, <4>1
    <3> QED BY <2>0, <2>3, <3>2, <3>3, <3>4, RunIsFirst
  <2> QED BY <2>1, <2>2, <2>3, OneEffect
<1>2. Once!vars = <<v, b>> /\ (Once!vars)' = <<v', b'>>
  BY DEF Once!vars, By
<1> QED BY <1>1, <1>2 DEF Once!Next, Once!Settle, Once!Run, Once!Verdicts, By

\* A request of the shared ledger is settled once, and its call runs only if it
\* was approved, in one turn.
THEOREM OneAnswerIsKept == Spec => KeepsOneAnswer
  BY InitHolds, StartsOpen, StepSettles, Invariance, PTL DEF Spec, KeepsOneAnswer, Once!Spec

-----------------------------------------------------------------------------
(* Liveness: every turn ends, and every stage left behind stops            *)

\* A spend of turn t with this use is on its way to the shared ledger.
OnWire(t, use) == \E w \in wire : w.by = t /\ w.use = use

\* A turn that is under way has a kind; a door that waits on its stage was not aborted
\* and the stage is at work; a door that stopped waiting had read its pause.
Sound(r) ==
  /\ r.step # "idle" => r.kind \in {"message", "decision"}
  /\ r.step = "resume" => OnStage(r) /\ r.kind = "decision"
  /\ r.aborted => r.step \notin {"idle", "read", "resume"}
  /\ r.step \in {"watch", "markRead", "markWrite", "closeRead", "closeWrite"}
       => r.kind = "decision"

\* What a turn has on the wire is about the request it holds: one spend of a use at a time.
OwnSpend(t, w) == /\ w.ledger = SharedLedger /\ w.request = turn[t].held.asked
                  /\ turn[t].step \notin {"idle", "read"}

WaitInv == \A t \in Turn : Sound(turn[t]) /\ \A w \in wire : w.by = t => OwnSpend(t, w)

\* How many moves a turn has at most before its door is done.
MovesLeft(r) ==
  CASE r.step = "idle" -> 16
    [] r.step = "read" -> 15
    [] r.step = "resume" -> CASE r.leg = "check" -> 14 [] r.leg = "held" -> 13
                              [] r.leg = "spending" -> 12 [] r.leg = "won" -> 11
                              [] r.leg = "executing" -> 10 [] OTHER -> 9
    [] r.step = "deliver" -> IF r.kind = "message" THEN 1 ELSE 8
    [] r.step = "watch" -> 7
    [] r.step = "closeRead" -> 6
    [] r.step = "prove" -> 5
    [] r.step = "proving" -> 4
    [] r.step = "marking" -> 3
    [] r.step \in {"run", "markRead"} -> 2
    [] r.step \in {"markWrite", "closeWrite"} -> 1
    [] OTHER -> 0

\* A turn that moves comes nearer its end, or its door stays where it is while the stage
\* it left behind goes on, which ends at once.
Onward(s, r) ==
  \/ r = s
  \/ /\ Sound(r) /\ r.step # "idle"
     /\ s.step # "idle" => r.kind = s.kind /\ r.step # "read"
     /\ s.step \notin {"idle", "read"} => r.held = s.held /\ r.approved = s.approved
     /\ s.aborted => r.aborted /\ r.leg \in {s.leg, "none", "gone"}
     /\ \/ MovesLeft(r) < MovesLeft(s)
        \/ r.step = s.step /\ s.step # "resume"

\* What turn t hands to the shared ledger it hands in a move of its own.
Hands(t, w) ==
  /\ OwnSpend(t, w) /\ MovesLeft(turn'[t]) < MovesLeft(turn[t])
  /\ turn[t].aborted => w.use \notin DecisionUse

GoesOnward(t) == /\ Onward(turn[t], turn'[t])
                 /\ \A w \in wire' : w.by = t => w \in wire \/ Hands(t, w)

\* A turn that no step is about, on a wire to which nothing of its own is added, is as it was.
LEMMA Untouched ==
  ASSUME NEW t \in Turn, turn'[t] = turn[t], \A w \in wire' : w.by = t => w \in wire
  PROVE  GoesOnward(t)
BY DEF GoesOnward, Onward

\* A step that moves no other turn, hands nothing to a ledger, and goes onward.
Alone(t) == \A u \in Turn \ {t} : turn'[u] = turn[u]

LEMMA OneMoves ==
  ASSUME NEW t \in Turn, Alone(t), Onward(turn[t], turn'[t]), UNCHANGED wire
  PROVE  \A u \in Turn : GoesOnward(u)
BY Untouched DEF GoesOnward, Alone

\* A step of one turn that hands its spend to its ledger.
LEMMA OneSends ==
  ASSUME NEW t \in Turn, NEW use, Alone(t), Onward(turn[t], turn'[t]),
         Send(Spend(t, use, turn[t].held.asked)), turn[t].step \notin {"idle", "read"},
         MovesLeft(turn'[t]) < MovesLeft(turn[t]), turn[t].aborted => use \notin DecisionUse
  PROVE  \A u \in Turn : GoesOnward(u)
<1> DEFINE w == Spend(t, use, turn[t].held.asked)
<1>1. w.by = t /\ w.use = use /\ w.request = turn[t].held.asked
  BY DEF Spend
<1>2. w.ledger.kind = "store" => w.ledger = SharedLedger
  BY DEF Spend, LedgerOf, SharedLedger, ProcessLedger, OwnLedger
<1>3. \A x \in wire' : x \in wire \/ (x = w /\ w.ledger = SharedLedger)
  BY <1>2 DEF Send
<1> HIDE DEF w
<1>4. GoesOnward(t)
  BY <1>1, <1>3 DEF GoesOnward, Hands, OwnSpend
<1>5. ASSUME NEW u \in Turn \ {t} PROVE GoesOnward(u)
  BY <1>1, <1>3, Untouched DEF Alone
<1> QED BY <1>4, <1>5

\* A move of turn t alone that changes neither what it is about nor whether it was aborted.
Moved(t) ==
  /\ Alone(t)
  /\ turn'[t].kind = turn[t].kind /\ turn'[t].approved = turn[t].approved
  /\ turn'[t].held = turn[t].held /\ turn'[t].aborted = turn[t].aborted

\* What is known of a turn whose stage or door is about to move.
LEMMA Position ==
  ASSUME IInv, WaitInv, NEW t \in Turn
  PROVE  /\ TypeOK /\ turn[t] \in TurnRecord /\ Sound(turn[t])
         /\ OnStage(turn[t]) => /\ turn[t].step \notin {"idle", "read"}
                                /\ ~turn[t].aborted => turn[t].step = "resume"
         /\ turn[t].step = "run" => turn[t].kind = "message"
BY DEF IInv, TypeOK, WaitInv, TurnInv, RecordInv, HeldInv

\* A move that lowers what is left, or is a stage's that was left behind, goes onward.
LEMMA MoveOnward ==
  ASSUME IInv, WaitInv, NEW t \in Turn, NEW r, r = turn'[t], Moved(t), UNCHANGED wire,
         turn[t].step \notin {"idle", "read"}, Sound(r), r.step \notin {"idle", "read"},
         turn[t].aborted => r.leg \in {turn[t].leg, "none", "gone"},
         MovesLeft(r) < MovesLeft(turn[t]) \/ (r.step = turn[t].step /\ turn[t].step # "resume")
  PROVE  \A u \in Turn : GoesOnward(u)
BY OneMoves, Position DEF Onward, Moved

\* Every step of a stage.
LEMMA StageOnward ==
  ASSUME IInv, WaitInv, NEW t \in Turn, StageStep(t)
  PROVE  /\ \A u \in Turn : GoesOnward(u)
         /\ At(t, "resume") => MovesLeft(turn'[t]) < MovesLeft(turn[t])
         /\ turn[t].aborted => turn'[t].leg = "gone"
<1> DEFINE s == turn[t]
           r == turn'[t]
<1>s. s \in TurnRecord /\ TypeOK /\ Sound(s)
  BY Position
<1>h. OnStage(s) => s.step \notin {"idle", "read"} /\ (~s.aborted => s.step = "resume")
  BY Position
<1>l. /\ s.leg \in {"check", "held", "spending", "won", "executing"} => OnStage(s)
      /\ ~(s.aborted /\ s.step = "resume")
  BY <1>s DEF OnStage, PastCheck, Sound
<1>1. CASE CheckDecision(t)
  <2>1. /\ Moved(t)
        /\ \/ r.leg = "held" /\ r.step = s.step
           \/ r.leg = "gone" /\ r.step = "watch"
    BY <1>1, <1>s DEF CheckDecision, Moved, Alone, TurnRecord, Becomes, TypeOK
  <2>2. s.leg = "check" /\ s.step = "resume" /\ ~s.aborted
    BY <1>1, <1>h, <1>l DEF CheckDecision, Leg
  <2>3. MovesLeft(r) < MovesLeft(s)
    BY <2>1, <2>2 DEF MovesLeft
  <2>4. Sound(r)
    BY <2>1, <2>2, <1>s DEF Sound, OnStage, PastCheck, Moved
  <2> QED BY <1>1, <2>1, <2>2, <2>3, <2>4, MoveOnward DEF CheckDecision
<1>2. CASE SpendDecision(t)
  <2>1. Moved(t) /\ r.leg = "spending" /\ r.step = s.step
    BY <1>2, <1>s DEF SpendDecision, Moved, Alone, TurnRecord, Becomes, TypeOK
  <2>2. s.leg = "held" /\ s.step = "resume" /\ ~s.aborted
    BY <1>2, <1>h, <1>l DEF SpendDecision, Leg
  <2>3. MovesLeft(r) < MovesLeft(s)
    BY <2>1, <2>2 DEF MovesLeft
  <2>4. Onward(s, r)
    BY <2>1, <2>2, <2>3, <1>s DEF Sound, OnStage, PastCheck, Moved, Onward
  <2> QED BY <1>2, <2>1, <2>2, <2>3, <2>4, <1>s, OneSends DEF SpendDecision, DecisionSpend, Moved
<1>3. CASE SpendWon(t) \/ SpendRefused(t) \/ CallSettled(t) \/ StageStops(t)
  <2>1. /\ Moved(t)
        /\ s.aborted => r.leg = "gone" /\ r.step = s.step
        /\ ~s.aborted => \/ r.leg = "gone" /\ r.step = "watch"
                         \/ /\ s.leg = "spending" /\ r.leg \in {"won", "settled"}
                            /\ r.step = s.step
                         \/ /\ s.leg \in {"won", "executing"} /\ r.leg = "settled"
                            /\ r.step = s.step
    <3>1. CASE SpendWon(t)
      BY <3>1, <1>s DEF SpendWon, Moved, Alone, TurnRecord, Becomes, TypeOK, Leg
    <3>2. CASE SpendRefused(t)
      BY <3>2, <1>s, <1>h, <1>l DEF SpendRefused, Failed, Moved, Alone, TurnRecord, Becomes, TypeOK, Leg, At
    <3>3. CASE CallSettled(t)
      <4>1. CASE s.aborted
        <5>1. turn' = [turn EXCEPT ![t] = [s EXCEPT !.leg = "gone"]]
          BY <3>3, <4>1 DEF CallSettled, Becomes, LegGoes
        <5> QED BY <4>1, <5>1, <1>s DEF Moved, Alone, TurnRecord, TypeOK
      <4>2. CASE ~s.aborted
        <5>1. PICK c : turn' = [turn EXCEPT ![t] = [s EXCEPT !.leg = "settled", !.conv = c]]
          BY <3>3, <4>2 DEF CallSettled, Becomes
        <5> QED BY <3>3, <4>2, <5>1, <1>s DEF CallSettled, Moved, Alone, TurnRecord, TypeOK, Leg
      <4> QED BY <4>1, <4>2
    <3>4. CASE StageStops(t)
      BY <3>4, <1>s DEF StageStops, Moved, Alone, TurnRecord, Becomes, TypeOK, LegGoes
    <3> QED BY <1>3, <3>1, <3>2, <3>3, <3>4
  <2>2. s.leg \in {"check", "held", "spending", "won", "executing"} /\ UNCHANGED wire
    BY <1>3 DEF SpendWon, SpendRefused, CallSettled, StageStops, Leg
  <2>3. MovesLeft(r) < MovesLeft(s) \/ (r.step = s.step /\ s.step # "resume")
    <3>1. CASE s.aborted
      BY <2>1, <3>1, <1>l
    <3>2. CASE ~s.aborted
      <4>1. \/ s.step = "resume" /\ s.leg \in {"spending", "won", "executing"}
            \/ r.leg = "gone"
        BY <2>1, <3>2, <2>2, <1>h, <1>l
      <4> QED BY <2>1, <2>2, <3>2, <4>1, <1>h, <1>l DEF MovesLeft
    <3> QED BY <3>1, <3>2
  <2>4. Sound(r)
    BY <2>1, <2>2, <1>s, <1>h, <1>l DEF Sound, OnStage, PastCheck, Moved
  <2> QED BY <2>1, <2>2, <2>3, <2>4, <1>h, <1>l, MoveOnward DEF At
<1>4. CASE Execute(t)
  <2>1. Moved(t) /\ r.leg = "executing" /\ r.step = s.step
    BY <1>4, <1>s DEF Execute, Moved, Alone, TurnRecord, Becomes, TypeOK, LegGoes
  <2>2. s.leg = "won" /\ s.step = "resume" /\ ~s.aborted
    BY <1>4, <1>h, <1>l DEF Execute, Leg
  <2>3. MovesLeft(r) < MovesLeft(s)
    BY <2>1, <2>2 DEF MovesLeft
  <2>4. Sound(r)
    BY <2>1, <2>2, <1>s DEF Sound, OnStage, PastCheck, Moved
  <2> QED BY <1>4, <2>1, <2>2, <2>3, <2>4, MoveOnward DEF Execute
<1> QED BY <1>1, <1>2, <1>3, <1>4 DEF StageStep, At

\* The stage of a door that moves: as it was, or ended with the run.
LegKept(t) == turn'[t].leg \in {turn[t].leg, "none"}

\* A close of turn t moves its door to the run or to the write of what was closed.
LEMMA ClosedMoves ==
  ASSUME IInv, WaitInv, NEW t \in Turn, NEW o, Closed(t, o)
  PROVE  /\ Moved(t) /\ LegKept(t)
         /\ turn'[t].step = IF turn[t].kind = "message" THEN "run" ELSE "closeWrite"
<1>1. TypeOK /\ turn[t] \in TurnRecord
  BY Position
<1>2. PICK c, e : turn' = [turn EXCEPT ![t] = [turn[t] EXCEPT !.conv = c,
                     !.step = IF turn[t].kind = "message" THEN "run" ELSE "closeWrite", !.out = e]]
  BY DEF Closed, Becomes
<1> QED BY <1>1, <1>2 DEF Moved, Alone, LegKept, TurnRecord, TypeOK

\* A door past its reading that moves down goes onward.
LEMMA DoorMoves ==
  ASSUME IInv, WaitInv, NEW t \in Turn, Moved(t), LegKept(t), UNCHANGED wire,
         turn[t].step \notin {"idle", "read"}, Sound(turn'[t]),
         turn'[t].step \notin {"idle", "read", "resume"},
         MovesLeft(turn'[t]) < MovesLeft(turn[t])
  PROVE  \A u \in Turn : GoesOnward(u)
BY MoveOnward DEF LegKept

\* The step a door goes to when the others of its turn's fields do not matter.
LEMMA GoesMoves ==
  ASSUME IInv, WaitInv, NEW t \in Turn, NEW step, Goes(t, step)
  PROVE  Moved(t) /\ LegKept(t) /\ turn'[t].step = step
BY Position DEF Goes, Becomes, Moved, Alone, LegKept, TurnRecord, TypeOK

\* Every write of a door ends it, or leaves a failed answer to be looked after.
LEMMA WriteMoves ==
  ASSUME IInv, WaitInv, NEW t \in Turn, NEW step, Persist(t, "done") \/ PersistFails(t, step)
  PROVE  Moved(t) /\ LegKept(t) /\ turn'[t].step \in {"done", step} /\ UNCHANGED wire
<1>1. CASE Persist(t, "done")
  BY <1>1, GoesMoves DEF Persist
<1>2. CASE PersistFails(t, step)
  BY <1>2, Position DEF PersistFails, Becomes, Moved, Alone, LegKept, TurnRecord, TypeOK
<1> QED BY <1>1, <1>2

\* Every step of a door that has read its session.
LEMMA DoorOnward ==
  ASSUME IInv, WaitInv, NEW t \in Turn, DoorStep(t), ~ReadForMessage(t), ~ReadForDecision(t)
  PROVE  /\ \A u \in Turn : GoesOnward(u)
         /\ MovesLeft(turn'[t]) < MovesLeft(turn[t])
<1> DEFINE s == turn[t]
           r == turn'[t]
<1>s. s \in TurnRecord /\ TypeOK /\ Sound(s) /\ (s.step = "run" => s.kind = "message")
  BY Position
<1>1. CASE RunCompletes(t)
  <2>1. Moved(t) /\ LegKept(t) /\ r.step = "deliver" /\ r.leg = "none"
    BY <1>1, <1>s DEF RunCompletes, Becomes, Moved, Alone, LegKept, TurnRecord, TypeOK
  <2>2. (s.step = "run" /\ s.kind = "message") \/ (s.step = "resume" /\ s.leg = "settled" /\ s.kind = "decision")
    BY <1>1, <1>s DEF RunCompletes, Runs, At, Leg, Sound
  <2>3. Sound(r) /\ MovesLeft(r) < MovesLeft(s)
    BY <2>1, <2>2, <1>s DEF Sound, MovesLeft, Moved
  <2> QED BY <1>1, <2>1, <2>2, <2>3, DoorMoves DEF RunCompletes
<1>2. CASE Deliver(t)
  <2>1. /\ Moved(t) /\ LegKept(t) /\ UNCHANGED wire
        /\ r.step = "done" \/ (r.step = "watch" /\ s.kind = "decision")
    BY <1>2, <1>s, WriteMoves DEF Deliver, Sound, At
  <2>2. Sound(r) /\ MovesLeft(r) < MovesLeft(s) /\ s.step = "deliver"
    BY <1>2, <2>1, <1>s DEF Deliver, At, Sound, MovesLeft, Moved
  <2> QED BY <2>1, <2>2, DoorMoves
<1>3. CASE AfterFailedAnswer(t)
  <2>1. s.step = "watch" /\ UNCHANGED wire
    BY <1>3 DEF AfterFailedAnswer, At
  <2>2. Moved(t) /\ LegKept(t) /\ r.step \in {"markRead", "closeRead", "done"}
    <3>1. PICK step \in {"markRead", "closeRead", "done"} : Goes(t, step)
      BY <1>3 DEF AfterFailedAnswer
    <3> QED BY <3>1, GoesMoves
  <2>3. Sound(r) /\ MovesLeft(r) < MovesLeft(s)
    BY <2>1, <2>2, <1>s DEF Sound, MovesLeft, Moved
  <2> QED BY <2>1, <2>2, <2>3, DoorMoves
<1>4. CASE MarkRead(t)
  <2>1. s.step = "markRead" /\ UNCHANGED wire
    BY <1>4 DEF MarkRead, At
  <2>2. Moved(t) /\ LegKept(t) /\ r.step \in {"markWrite", "done"}
    <3>1. \/ Goes(t, "done")
          \/ \E e : Becomes(t, [s EXCEPT !.step = "markWrite", !.out = e])
          \/ \E e : Becomes(t, [s EXCEPT !.step = "markWrite", !.unread = TRUE, !.out = e])
      BY <1>4 DEF MarkRead
    <3>2. ASSUME NEW e, Becomes(t, [s EXCEPT !.step = "markWrite", !.out = e])
          PROVE  Moved(t) /\ LegKept(t) /\ r.step = "markWrite"
      BY <3>2, <1>s DEF Becomes, Moved, Alone, LegKept, TurnRecord, TypeOK
    <3>3. ASSUME NEW e, Becomes(t, [s EXCEPT !.step = "markWrite", !.unread = TRUE, !.out = e])
          PROVE  Moved(t) /\ LegKept(t) /\ r.step = "markWrite"
      BY <3>3, <1>s DEF Becomes, Moved, Alone, LegKept, TurnRecord, TypeOK
    <3> QED BY <3>1, <3>2, <3>3, GoesMoves
  <2>3. Sound(r) /\ MovesLeft(r) < MovesLeft(s)
    BY <2>1, <2>2, <1>s DEF Sound, MovesLeft, Moved
  <2> QED BY <2>1, <2>2, <2>3, DoorMoves
<1>5. CASE MarkWrite(t) \/ CloseWrite(t)
  <2>1. s.step \in {"markWrite", "closeWrite"}
    BY <1>5 DEF MarkWrite, CloseWrite, At
  <2>2. Moved(t) /\ LegKept(t) /\ UNCHANGED wire /\ r.step = "done"
    BY <1>5, WriteMoves DEF MarkWrite, CloseWrite
  <2>3. Sound(r) /\ MovesLeft(r) < MovesLeft(s)
    BY <2>1, <2>2, <1>s DEF Sound, MovesLeft, Moved
  <2> QED BY <2>1, <2>2, <2>3, DoorMoves
<1>6. CASE CloseRead(t)
  <2>1. s.step = "closeRead" /\ UNCHANGED wire
    BY <1>6 DEF CloseRead, At
  <2>2. Moved(t) /\ LegKept(t) /\ r.step \in {"prove", "done"}
    <3>1. \/ Goes(t, "done")
          \/ Becomes(t, [s EXCEPT !.conv = stored.conv, !.step = "prove"])
          \/ Becomes(t, [s EXCEPT !.step = "done", !.storeFailed = TRUE])
      BY <1>6 DEF CloseRead
    <3>2. CASE Becomes(t, [s EXCEPT !.conv = stored.conv, !.step = "prove"])
      BY <3>2, <1>s DEF Becomes, Moved, Alone, LegKept, TurnRecord, TypeOK
    <3>3. CASE Becomes(t, [s EXCEPT !.step = "done", !.storeFailed = TRUE])
      BY <3>3, <1>s DEF Becomes, Moved, Alone, LegKept, TurnRecord, TypeOK
    <3> QED BY <3>1, <3>2, <3>3, GoesMoves
  <2>3. Sound(r) /\ MovesLeft(r) < MovesLeft(s)
    BY <2>1, <2>2, <1>s DEF Sound, MovesLeft, Moved
  <2> QED BY <2>1, <2>2, <2>3, DoorMoves
<1>7. CASE ProveNeverRan(t)
  <2>1. s.step = "prove"
    BY <1>7 DEF ProveNeverRan, At
  <2>2. CASE Proving(s.door, s.held.asked)
    <3>1. Send(CloseSpend(t)) /\ Moved(t) /\ LegKept(t) /\ r.step = "proving"
      BY <1>7, <2>2, GoesMoves DEF ProveNeverRan
    <3>2. Sound(r) /\ MovesLeft(r) < MovesLeft(s)
      BY <2>1, <3>1, <1>s DEF Sound, MovesLeft, Moved
    <3>3. Onward(s, r)
      BY <2>1, <3>1, <3>2 DEF Onward, Moved, LegKept
    <3> QED BY <2>1, <3>1, <3>2, <3>3, OneSends DEF CloseSpend, DecisionUse, Moved
  <2>3. CASE ~Proving(s.door, s.held.asked)
    <3>1. Moved(t) /\ LegKept(t) /\ r.step = (IF s.kind = "message" THEN "run" ELSE "closeWrite")
      BY <1>7, <2>3, ClosedMoves DEF ProveNeverRan
    <3>2. Sound(r) /\ MovesLeft(r) < MovesLeft(s)
      BY <2>1, <3>1, <1>s DEF Sound, MovesLeft, Moved
    <3> QED BY <1>7, <2>1, <2>3, <3>1, <3>2, DoorMoves DEF ProveNeverRan
  <2> QED BY <2>2, <2>3
<1>8. CASE CloseWon(t)
  <2>1. s.step = "proving" /\ Send(MarkerSpend(t)) /\ Moved(t) /\ LegKept(t) /\ r.step = "marking"
    BY <1>8, GoesMoves DEF CloseWon, At
  <2>2. Sound(r) /\ MovesLeft(r) < MovesLeft(s)
    BY <2>1, <1>s DEF Sound, MovesLeft, Moved
  <2>3. Onward(s, r)
    BY <2>1, <2>2 DEF Onward, Moved, LegKept
  <2> QED BY <2>1, <2>2, <2>3, OneSends DEF MarkerSpend, DecisionUse, Moved
<1>9. CASE CloseLost(t) \/ CloseMarked(t)
  <2>1. s.step \in {"proving", "marking"} /\ UNCHANGED wire
    BY <1>9 DEF CloseLost, CloseMarked, At
  <2>2. Moved(t) /\ LegKept(t) /\ r.step = (IF s.kind = "message" THEN "run" ELSE "closeWrite")
    BY <1>9, ClosedMoves DEF CloseLost, CloseMarked
  <2>3. Sound(r) /\ MovesLeft(r) < MovesLeft(s)
    BY <2>1, <2>2, <1>s DEF Sound, MovesLeft, Moved
  <2> QED BY <2>1, <2>2, <2>3, DoorMoves
<1> QED BY <1>1, <1>2, <1>3, <1>4, <1>5, <1>6, <1>7, <1>8, <1>9 DEF DoorStep

\* The step that reads the session for a message or a decision.
LEMMA ReadOnward ==
  ASSUME IInv, WaitInv, NEW t \in Turn, ReadForMessage(t) \/ ReadForDecision(t)
  PROVE  /\ \A u \in Turn : GoesOnward(u)
         /\ MovesLeft(turn'[t]) < MovesLeft(turn[t])
<1> DEFINE s == turn[t]
           r == turn'[t]
<1>s. s \in TurnRecord /\ TypeOK /\ Sound(s)
  BY Position
<1>1. s.step = "read" /\ ~s.aborted /\ UNCHANGED wire
  BY <1>s DEF ReadForMessage, ReadForDecision, At, Sound
<1>2. /\ Alone(t) /\ r.kind = s.kind /\ ~r.aborted
      /\ \/ r.step \in {"run", "prove", "done"}
         \/ r.step = "resume" /\ r.leg = "check" /\ s.kind = "decision"
  <2>1. CASE ReadForMessage(t)
    <3>1. PICK step \in {"run", "prove", "done"} :
            turn' = [turn EXCEPT ![t] = [s EXCEPT !.held = stored, !.conv = stored.conv, !.step = step]]
      BY <2>1 DEF ReadForMessage, Becomes
    <3> QED BY <1>1, <1>s, <3>1 DEF Alone, TurnRecord, TypeOK
  <2>2. CASE ReadForDecision(t)
    <3>1. CASE stored.format # "waiting"
      BY <2>2, <3>1, <1>1, <1>s DEF ReadForDecision, Goes, Becomes, Alone, TurnRecord, TypeOK
    <3>2. CASE stored.format = "waiting"
      <4>1. PICK readable \in BOOLEAN :
              turn' = [turn EXCEPT ![t] = [s EXCEPT !.held = stored, !.conv = stored.conv,
                         !.step = IF readable THEN "resume" ELSE "prove",
                         !.leg = IF readable THEN "check" ELSE "none"]]
        BY <2>2, <3>2 DEF ReadForDecision, Becomes
      <4>2. s.kind = "decision"
        BY <2>2 DEF ReadForDecision
      <4> QED BY <1>1, <1>s, <4>1, <4>2 DEF Alone, TurnRecord, TypeOK
    <3> QED BY <3>1, <3>2
  <2> QED BY <2>1, <2>2
<1>3. Sound(r) /\ MovesLeft(r) < MovesLeft(s)
  BY <1>1, <1>2, <1>s DEF Sound, MovesLeft, OnStage
<1>4. Onward(s, r)
  BY <1>1, <1>2, <1>3 DEF Onward
<1> QED BY <1>1, <1>2, <1>3, <1>4, OneMoves

\* A request that arrives.
LEMMA ArriveOnward ==
  ASSUME IInv, WaitInv, NEW t \in Turn, Arrive(t)
  PROVE  \A u \in Turn : GoesOnward(u)
<1> DEFINE s == turn[t]
           r == turn'[t]
<1>s. s \in TurnRecord /\ TypeOK /\ Sound(s)
  BY Position
<1>1. /\ Alone(t) /\ UNCHANGED wire /\ s.step = "idle" /\ r.step = "read"
      /\ r.kind \in {"message", "decision"} /\ r.aborted = s.aborted /\ r.leg = s.leg
  <2>1. CASE \E d \in Door : Message(t, d)
    <3>1. PICK d \in Door : Message(t, d)
      BY <2>1
    <3>2. /\ turn' = [turn EXCEPT ![t] = [s EXCEPT !.kind = "message", !.door = d, !.step = "read"]]
          /\ UNCHANGED wire /\ s.step = "idle"
      BY <3>1 DEF Message, Becomes, At
    <3> QED BY <3>2, <1>s DEF Alone, TurnRecord, TypeOK
  <2>2. CASE \E d \in Door, q \in Request, b \in BOOLEAN : Decision(t, d, q, b)
    <3>1. PICK d \in Door, q \in Request, b \in BOOLEAN : Decision(t, d, q, b)
      BY <2>2
    <3>2. /\ turn' = [turn EXCEPT ![t] = [s EXCEPT !.kind = "decision", !.door = d, !.step = "read",
                                                   !.request = q, !.approved = b]]
          /\ UNCHANGED wire /\ s.step = "idle"
      BY <3>1 DEF Decision, Becomes, At
    <3> QED BY <3>2, <1>s DEF Alone, TurnRecord, TypeOK
  <2> QED BY <2>1, <2>2 DEF Arrive
<1>2. Onward(s, r)
  BY <1>1, <1>s DEF Onward, Sound, MovesLeft
<1> QED BY <1>1, <1>2, OneMoves

\* What a turn may do and need not: fail, be aborted, pause again.
LEMMA OtherwiseOnward ==
  ASSUME IInv, WaitInv, NEW t \in Turn, Otherwise(t)
  PROVE  \A u \in Turn : GoesOnward(u)
<1> DEFINE s == turn[t]
           r == turn'[t]
<1>s. s \in TurnRecord /\ TypeOK /\ Sound(s) /\ (s.step = "run" => s.kind = "message")
  BY Position
<1>h. OnStage(s) => s.step \notin {"idle", "read"} /\ (~s.aborted => s.step = "resume")
  BY Position
<1>1. CASE ReadFails(t)
  <2>1. Moved(t) /\ LegKept(t) /\ r.step = "done" /\ s.step = "read" /\ UNCHANGED wire
    BY <1>1, GoesMoves DEF ReadFails, At
  <2>2. Onward(s, r)
    BY <2>1, <1>s DEF Onward, Sound, MovesLeft, Moved
  <2> QED BY <2>1, <2>2, OneMoves DEF Moved
<1>2. CASE SpendThrows(t)
  <2>1. /\ Moved(t) /\ s.leg = "spending" /\ r.leg = "gone" /\ UNCHANGED wire
        /\ r.step = IF s.step = "resume" THEN "watch" ELSE s.step
    BY <1>2, <1>s DEF SpendThrows, Failed, Becomes, Moved, Alone, TurnRecord, TypeOK, At, Leg
  <2>2. OnStage(s)
    BY <2>1 DEF OnStage, PastCheck
  <2>3. Sound(r) /\ (MovesLeft(r) < MovesLeft(s) \/ (r.step = s.step /\ s.step # "resume"))
    BY <2>1, <1>s DEF Sound, MovesLeft, Moved
  <2> QED BY <2>1, <2>2, <2>3, <1>h, MoveOnward
<1>3. CASE ResumeFails(t)
  <2>1. Moved(t) /\ r.leg = "gone" /\ r.step = "watch" /\ s.step = "resume" /\ UNCHANGED wire
    BY <1>3, <1>s DEF ResumeFails, Becomes, Moved, Alone, TurnRecord, TypeOK, At
  <2>2. Sound(r) /\ MovesLeft(r) < MovesLeft(s)
    BY <2>1, <1>s DEF Sound, MovesLeft, Moved
  <2> QED BY <2>1, <2>2, MoveOnward
<1>4. CASE Abort(t)
  <2>1. /\ Alone(t) /\ r.kind = s.kind /\ r.approved = s.approved /\ r.held = s.held
        /\ r.aborted /\ r.step = "watch" /\ s.step = "resume" /\ UNCHANGED wire
    BY <1>4, <1>s DEF Abort, Becomes, Alone, TurnRecord, TypeOK, At
  <2>2. ~s.aborted /\ s.kind = "decision"
    BY <2>1, <1>s DEF Sound
  <2>3. Onward(s, r)
    BY <2>1, <2>2 DEF Onward, Sound, MovesLeft
  <2> QED BY <2>1, <2>3, OneMoves
<1>5. CASE RunThrows(t)
  <2>1. Moved(t) /\ LegKept(t) /\ r.step = "done" /\ s.step = "run" /\ UNCHANGED wire
    BY <1>5, GoesMoves DEF RunThrows, At
  <2>2. Sound(r) /\ MovesLeft(r) < MovesLeft(s)
    BY <2>1, <1>s DEF Sound, MovesLeft, Moved
  <2> QED BY <2>1, <2>2, DoorMoves
<1>6. CASE ProgressLands(t)
  BY <1>6, Untouched DEF ProgressLands
<1>7. CASE CloseThrows(t) \/ MarkerThrows(t)
  <2>1. s.step \in {"proving", "marking"} /\ UNCHANGED wire
    BY <1>7 DEF CloseThrows, MarkerThrows, At
  <2>2. Moved(t) /\ LegKept(t) /\ r.step = (IF s.kind = "message" THEN "run" ELSE "closeWrite")
    BY <1>7, ClosedMoves DEF CloseThrows, MarkerThrows
  <2>3. Sound(r) /\ MovesLeft(r) < MovesLeft(s)
    BY <2>1, <2>2, <1>s DEF Sound, MovesLeft, Moved
  <2> QED BY <2>1, <2>2, <2>3, DoorMoves
<1>8. ASSUME NEW q \in Request, RunPauses(t, q) PROVE \A u \in Turn : GoesOnward(u)
  <2>1. PICK c, e : turn' = [turn EXCEPT ![t] =
                      [s EXCEPT !.step = "deliver", !.leg = "none", !.conv = c, !.out = e]]
    BY <1>8 DEF RunPauses, Becomes
  <2>2. Moved(t) /\ LegKept(t) /\ r.step = "deliver" /\ r.leg = "none"
    BY <2>1, <1>s DEF Moved, Alone, LegKept, TurnRecord, TypeOK
  <2>3. (s.step = "run" /\ s.kind = "message") \/ (s.step = "resume" /\ s.leg = "settled" /\ s.kind = "decision")
    BY <1>8, <1>s DEF RunPauses, Runs, At, Leg, Sound
  <2>4. Sound(r) /\ MovesLeft(r) < MovesLeft(s)
    BY <2>2, <2>3, <1>s DEF Sound, MovesLeft, Moved
  <2> QED BY <1>8, <2>2, <2>3, <2>4, DoorMoves DEF RunPauses
<1> QED BY <1>1, <1>2, <1>3, <1>4, <1>5, <1>6, <1>7, <1>8 DEF Otherwise

\* A process that stops ends its turns, and nothing else of the world moves one.
LEMMA WorldOnward ==
  ASSUME IInv, WaitInv, World
  PROVE  \A u \in Turn : GoesOnward(u)
<1>1. ASSUME NEW p \in Process, Restart(p), NEW u \in Turn PROVE GoesOnward(u)
  <2> DEFINE s == turn[u]
             r == turn'[u]
  <2>1. s \in TurnRecord /\ Sound(s) /\ UNCHANGED wire
    BY <1>1, Position DEF Restart
  <2>2. CASE s.step = "idle" \/ HostOf[s.door] # p
    BY <1>1, <2>1, <2>2, Untouched DEF Restart
  <2>3. CASE ~(s.step = "idle" \/ HostOf[s.door] # p)
    <3>1. /\ r.kind = s.kind /\ r.approved = s.approved /\ r.held = s.held
          /\ r.aborted = s.aborted /\ r.leg = "gone"
          /\ r.step = IF s.step = "done" THEN "done" ELSE "dead"
      BY <1>1, <2>1, <2>3 DEF Restart, TurnRecord
    <3>2. Sound(r) /\ (MovesLeft(r) < MovesLeft(s) \/ (r.step = s.step /\ s.step # "resume"))
      BY <2>1, <2>3, <3>1 DEF Sound, MovesLeft, TurnRecord, Step, Ended, StageLeg
    <3>3. Onward(s, r)
      BY <2>3, <3>1, <3>2 DEF Onward
    <3> QED BY <2>1, <3>3 DEF GoesOnward
  <2> QED BY <2>2, <2>3
<1>2. CASE (\E w \in wire : Apply(w)) \/ Expire \/ \E p \in Process, q \in Request : Evict(p, q)
  <2>1. UNCHANGED turn /\ wire' \subseteq wire
    BY <1>2 DEF Apply, Expire, Evict
  <2> QED BY <2>1, Untouched
<1> QED BY <1>1, <1>2 DEF World

\* Every step goes onward.
LEMMA NextOnward == IInv /\ WaitInv /\ [Next]_vars => \A u \in Turn : GoesOnward(u)
<1> SUFFICES ASSUME IInv, WaitInv, [Next]_vars PROVE \A u \in Turn : GoesOnward(u)
  OBVIOUS
<1>1. ASSUME NEW t \in Turn, Arrive(t) \/ StageStep(t) \/ DoorStep(t) \/ Otherwise(t)
      PROVE  \A u \in Turn : GoesOnward(u)
  BY <1>1, ArriveOnward, StageOnward, DoorOnward, ReadOnward, OtherwiseOnward
<1>2. CASE UNCHANGED vars
  BY <1>2, Untouched DEF vars
<1> QED BY <1>1, <1>2, WorldOnward DEF Next

\* Turns that only go onward keep what their waiting rests on.
LEMMA WaitKept == IInv /\ WaitInv /\ [Next]_vars => WaitInv'
<1> SUFFICES ASSUME IInv, WaitInv, \A u \in Turn : GoesOnward(u), NEW t \in Turn
             PROVE  Sound(turn'[t]) /\ \A w \in wire' : w.by = t => OwnSpend(t, w)'
  BY NextOnward DEF WaitInv
<1>1. Sound(turn[t]) /\ Onward(turn[t], turn'[t])
  BY DEF WaitInv, GoesOnward
<1>2. Sound(turn'[t])
  BY <1>1 DEF Onward
<1>3. ASSUME NEW w \in wire', w.by = t PROVE OwnSpend(t, w)'
  <2>1. OwnSpend(t, w)
    BY <1>3 DEF WaitInv, GoesOnward, Hands
  <2>2. turn'[t].step \notin {"idle", "read"} /\ turn'[t].held = turn[t].held
    BY <1>1, <2>1 DEF Onward, OwnSpend
  <2>3. SharedLedger' = SharedLedger
    BY DEF SharedLedger
  <2> QED BY <2>1, <2>2, <2>3 DEF OwnSpend
<1> QED BY <1>2, <1>3

\* A turn that waits can be told apart by its record and its spends on the wire.
THEOREM WaitCorrect == Spec => [](IInv /\ WaitInv)
<1>1. Init => WaitInv
  BY DEF Init, WaitInv, Sound, Idle
<1> QED BY <1>1, WaitKept, Invariance, PTL DEF Spec

\* What turn t waits for its shared ledger to answer, if anything.
AwaitedUse(r) == IF r.step = "resume" THEN IF r.approved THEN "approve" ELSE "decline"
                 ELSE IF r.step = "proving" THEN "close" ELSE "marker"

Awaits(t) == /\ turn[t].step \in {"proving", "marking"} \/ (At(t, "resume") /\ Leg(t, "spending"))
             /\ OnWire(t, AwaitedUse(turn[t]))

\* How many things still have to happen before the door of turn t is done.
Left(t) == 2 * MovesLeft(turn[t]) + IF Awaits(t) THEN 1 ELSE 0

\* Who has to do the next of them: the ledger, the stage, or the door.
AtLedger(t, use) == Awaits(t) /\ AwaitedUse(turn[t]) = use
AtStage(t) == ~Awaits(t) /\ At(t, "resume") /\ ~Leg(t, "settled")
AtDoor(t) == ~Awaits(t) /\ ~AtStage(t) /\ turn[t].step \notin Ended

\* When each of them can: what the guards of their actions say.
LedgerReady(t, use) == OnWire(t, use)
StageReady(t) ==
  \/ turn[t].leg \in {"check", "held", "won", "executing"}
  \/ Leg(t, "spending") /\ (DecisionSpend(t) \in spent \/ DecisionSpend(t) \notin wire)
DoorReady(t) ==
  \/ turn[t].step \in {"read", "run", "deliver", "watch", "markRead", "markWrite", "closeRead",
                       "prove", "closeWrite"}
  \/ At(t, "resume") /\ Leg(t, "settled")
  \/ At(t, "proving") /\ (CloseSpend(t) \in spent \/ CloseSpend(t) \notin wire)
  \/ At(t, "marking") /\ MarkerSpend(t) \notin wire

\* Who is ready and stays ready takes its step in the end.
LedgerAnswers(t, use) == []<>~LedgerReady(t, use) \/ []<><<ApplySpend(t, use)>>_vars
StageRuns(t) == []<>~StageReady(t) \/ []<><<StageStep(t)>>_vars
DoorRuns(t) == []<>~DoorReady(t) \/ []<><<DoorStep(t)>>_vars

Scheduled == \A t \in Turn : /\ StageRuns(t) /\ DoorRuns(t)
                             /\ \A use \in Use : LedgerAnswers(t, use)

\* The moves left are a number.
LEMMA MovesNat == \A r : MovesLeft(r) \in 0..16
BY SMTT(30) DEF MovesLeft

LEMMA LeftNat == \A t : Left(t) \in 0..33
<1> SUFFICES ASSUME NEW t PROVE Left(t) \in 0..33
  OBVIOUS
<1>1. MovesLeft(turn[t]) \in 0..16
  BY MovesNat
<1> QED BY <1>1 DEF Left

\* With fewer moves less is left, whatever the turn waits for.
LEMMA FewerMoves ==
  ASSUME NEW t \in Turn, MovesLeft(turn'[t]) < MovesLeft(turn[t])
  PROVE  Left(t)' < Left(t)
<1>1. MovesLeft(turn'[t]) \in 0..16 /\ MovesLeft(turn[t]) \in 0..16
  BY MovesNat
<1>2. Left(t)' <= 2 * MovesLeft(turn'[t]) + 1
  BY <1>1 DEF Left
<1>3. Left(t) >= 2 * MovesLeft(turn[t])
  BY <1>1 DEF Left
<1>4. Left(t) \in Nat /\ Left(t)' \in Nat
  BY <1>1 DEF Left
<1> QED BY <1>1, <1>2, <1>3, <1>4

\* No step leaves a turn more to wait for, and one that leaves it as much leaves it in
\* the hands it was in.
LEMMA LeftFalls ==
  ASSUME IInv, WaitInv, [Next]_vars, NEW t \in Turn, NEW n, Left(t) = n
  PROVE  \/ Left(t)' < n
         \/ /\ Left(t)' = n
            /\ \A use : AtLedger(t, use) => AtLedger(t, use)'
            /\ AtStage(t) => AtStage(t)'
            /\ AtDoor(t) => AtDoor(t)'
<1> DEFINE s == turn[t]
           r == turn'[t]
<1>1. GoesOnward(t) /\ Onward(s, r)
  BY NextOnward DEF GoesOnward
<1>2. CASE MovesLeft(r) < MovesLeft(s)
  BY <1>2, FewerMoves
<1>3. CASE ~(MovesLeft(r) < MovesLeft(s))
  <2>1. /\ r.step = s.step /\ r.kind = s.kind
        /\ s.step = "resume" => r = s
    BY <1>1, <1>3, MovesNat DEF Onward
  <2>2. MovesLeft(r) = MovesLeft(s)
    BY <2>1 DEF MovesLeft
  <2>3. AwaitedUse(r) = AwaitedUse(s)
    BY <2>1 DEF AwaitedUse
  <2>4. \A use : OnWire(t, use)' => OnWire(t, use)
    BY <1>1, <1>3 DEF OnWire, GoesOnward, Hands
  <2>5. Awaits(t)' => Awaits(t)
    BY <2>1, <2>3, <2>4 DEF Awaits, At, Leg
  <2>6. CASE Awaits(t) /\ ~Awaits(t)'
    BY <2>2, <2>6, MovesNat DEF Left
  <2>7. CASE Awaits(t) <=> Awaits(t)'
    <3>1. Left(t)' = n
      BY <2>2, <2>7 DEF Left
    <3> QED BY <2>1, <2>3, <2>7, <3>1 DEF AtLedger, AtStage, AtDoor, At, Leg
  <2> QED BY <2>5, <2>6, <2>7
<1> QED BY <1>2, <1>3

\* The ledger's answer takes the one spend it is about off the wire.
LEMMA LedgerFalls ==
  ASSUME IInv, WaitInv, NEW t \in Turn, NEW use, ApplySpend(t, use), NEW n, Left(t) = n, AtLedger(t, use)
  PROVE  Left(t)' < n
<1>1. PICK w \in wire : w.by = t /\ w.use = use /\ wire' = wire \ {w} /\ turn' = turn
  BY DEF ApplySpend, Apply
<1>2. \A v \in wire : v.by = t /\ v.use = use => v = w
  BY <1>1 DEF IInv, TypeOK, Entry, WaitInv, OwnSpend
<1>3. ~OnWire(t, use)'
  BY <1>1, <1>2 DEF OnWire
<1>4. ~Awaits(t)'
  BY <1>1, <1>3 DEF Awaits, AtLedger
<1> QED BY <1>1, <1>4, MovesNat DEF Left, AtLedger

\* So does a stage's step that its door waits for, and every step of a door.
LEMMA StageFalls ==
  ASSUME IInv, WaitInv, NEW t \in Turn, StageStep(t), NEW n, Left(t) = n, AtStage(t)
  PROVE  Left(t)' < n
BY StageOnward, FewerMoves DEF AtStage

LEMMA DoorFalls ==
  ASSUME IInv, WaitInv, NEW t \in Turn, DoorStep(t), NEW n, Left(t) = n
  PROVE  Left(t)' < n
BY DoorOnward, ReadOnward, FewerMoves

\* Whoever has to do the next thing is ready to do it.
LEMMA NextIsReady ==
  ASSUME IInv, WaitInv, NEW t \in Turn
  PROVE  /\ \A use : AtLedger(t, use) => use \in Use /\ LedgerReady(t, use)
         /\ AtStage(t) => StageReady(t)
         /\ AtDoor(t) => DoorReady(t)
<1>1. Sound(turn[t]) /\ turn[t].step \in Step
  BY Position, FieldsTyped
<1>2. \A use : AtLedger(t, use) => use \in Use /\ LedgerReady(t, use)
  BY DEF AtLedger, Awaits, LedgerReady, AwaitedUse, Use
<1>3. \A use, q : Spend(t, use, q) \in wire => OnWire(t, use)
  BY DEF OnWire, Spend
<1>4. AtStage(t) => StageReady(t)
  <2> SUFFICES ASSUME AtStage(t) PROVE StageReady(t)
    OBVIOUS
  <2>1. turn[t].step = "resume" /\ turn[t].leg \in {"check", "held", "spending", "won", "executing"}
    BY <1>1 DEF AtStage, Sound, OnStage, PastCheck, At, Leg
  <2>2. CASE turn[t].leg = "spending"
    <3>1. ~OnWire(t, IF turn[t].approved THEN "approve" ELSE "decline")
      BY <2>1, <2>2 DEF AtStage, Awaits, AwaitedUse, At, Leg
    <3>2. DecisionSpend(t) \notin wire
      BY <3>1, <1>3 DEF DecisionSpend
    <3> QED BY <2>2, <3>2 DEF StageReady, Leg
  <2> QED BY <2>1, <2>2 DEF StageReady
<1>5. AtDoor(t) => DoorReady(t)
  <2> SUFFICES ASSUME AtDoor(t) PROVE DoorReady(t)
    OBVIOUS
  <2>1. CASE turn[t].step = "proving"
    BY <2>1, <1>3 DEF AtDoor, Awaits, AwaitedUse, DoorReady, CloseSpend, At
  <2>2. CASE turn[t].step = "marking"
    BY <2>2, <1>3 DEF AtDoor, Awaits, AwaitedUse, DoorReady, MarkerSpend, At
  <2>3. CASE turn[t].step = "resume"
    BY <2>3 DEF AtDoor, AtStage, DoorReady, At, Leg
  <2> QED BY <1>1, <2>1, <2>2, <2>3 DEF AtDoor, DoorReady, Step, Ended
<1> QED BY <1>2, <1>4, <1>5

\* And as long as something is left there is somebody who has to do it.
LEMMA SomebodyIsNext ==
  ASSUME NEW t \in Turn, NEW n \in 1..31, Left(t) = n
  PROVE  (\E use \in Use : AtLedger(t, use)) \/ AtStage(t) \/ AtDoor(t)
<1>1. CASE Awaits(t)
  BY <1>1 DEF AtLedger, AwaitedUse, Use
<1>2. CASE ~Awaits(t)
  <2>1. turn[t].step \notin Ended
    BY <1>2 DEF Left, MovesLeft, Ended
  <2> QED BY <1>2, <2>1 DEF AtDoor
<1> QED BY <1>1, <1>2

\* One thing less is left of turn t in the end, when the ledger has to do the next one.
LedgerLowers(t, n, use) == Left(t) = n /\ AtLedger(t, use) ~> Left(t) < n

\* However much is left of turn t, less is left in the end.
Lowers(t, n, m) == Left(t) <= n ~> Left(t) <= m

\* A turn whose next thing is the ledger's, the stage's or the door's to do has less
\* left in the end.
LEMMA LedgerLeads ==
  ASSUME NEW t \in Turn, NEW n \in 1..31, NEW use \in Use
  PROVE  Spec /\ Scheduled => LedgerLowers(t, n, use)
<1>1. IInv /\ WaitInv /\ Left(t) = n /\ AtLedger(t, use) /\ [Next]_vars
        => (Left(t) = n /\ AtLedger(t, use))' \/ (Left(t) < n)'
  BY LeftFalls
<1>2. IInv /\ WaitInv /\ Left(t) = n /\ AtLedger(t, use) /\ <<ApplySpend(t, use)>>_vars
        => (Left(t) < n)'
  BY LedgerFalls
<1>3. IInv /\ WaitInv /\ Left(t) = n /\ AtLedger(t, use) => LedgerReady(t, use)
  BY NextIsReady
<1>4. Scheduled => LedgerAnswers(t, use)
  BY DEF Scheduled
<1> QED BY <1>1, <1>2, <1>3, <1>4, WaitCorrect, PTL DEF Spec, LedgerAnswers, LedgerLowers

LEMMA StageLeads ==
  ASSUME NEW t \in Turn, NEW n \in 1..31
  PROVE  Spec /\ Scheduled => (Left(t) = n /\ AtStage(t) ~> Left(t) < n)
<1>1. IInv /\ WaitInv /\ Left(t) = n /\ AtStage(t) /\ [Next]_vars
        => (Left(t) = n /\ AtStage(t))' \/ (Left(t) < n)'
  BY LeftFalls
<1>2. IInv /\ WaitInv /\ Left(t) = n /\ AtStage(t) /\ <<StageStep(t)>>_vars => (Left(t) < n)'
  BY StageFalls
<1>3. IInv /\ WaitInv /\ Left(t) = n /\ AtStage(t) => StageReady(t)
  BY NextIsReady
<1>4. Scheduled => StageRuns(t)
  BY DEF Scheduled
<1> QED BY <1>1, <1>2, <1>3, <1>4, WaitCorrect, PTL DEF Spec, StageRuns

LEMMA DoorLeads ==
  ASSUME NEW t \in Turn, NEW n \in 1..31
  PROVE  Spec /\ Scheduled => (Left(t) = n /\ AtDoor(t) ~> Left(t) < n)
<1>1. IInv /\ WaitInv /\ Left(t) = n /\ AtDoor(t) /\ [Next]_vars
        => (Left(t) = n /\ AtDoor(t))' \/ (Left(t) < n)'
  BY LeftFalls
<1>2. IInv /\ WaitInv /\ Left(t) = n /\ AtDoor(t) /\ <<DoorStep(t)>>_vars => (Left(t) < n)'
  BY DoorFalls
<1>3. IInv /\ WaitInv /\ Left(t) = n /\ AtDoor(t) => DoorReady(t)
  BY NextIsReady
<1>4. Scheduled => DoorRuns(t)
  BY DEF Scheduled
<1> QED BY <1>1, <1>2, <1>3, <1>4, WaitCorrect, PTL DEF Spec, DoorRuns

\* So whatever is left of a turn grows less.
LEMMA Descends ==
  ASSUME NEW t \in Turn, NEW n \in 1..31, NEW m \in Nat, n = m + 1
  PROVE  Spec /\ Scheduled => Lowers(t, n, m)
<1>l. Left(t) \in Nat
  BY LeftNat
<1>1. Left(t) <= n => Left(t) <= m \/ Left(t) = n
  BY <1>l
<1>2. Left(t) = n => AtLedger(t, "approve") \/ AtLedger(t, "decline") \/ AtLedger(t, "close")
                     \/ AtLedger(t, "marker") \/ AtStage(t) \/ AtDoor(t)
  <2> SUFFICES ASSUME Left(t) = n
               PROVE  (\E use \in Use : AtLedger(t, use)) \/ AtStage(t) \/ AtDoor(t)
    BY DEF Use
  <2> QED BY SomebodyIsNext
<1>3. Left(t) < n => Left(t) <= m
  BY <1>l
<1>4. Spec /\ Scheduled => /\ LedgerLowers(t, n, "approve") /\ LedgerLowers(t, n, "decline")
                          /\ LedgerLowers(t, n, "close") /\ LedgerLowers(t, n, "marker")
  BY LedgerLeads DEF Use
<1>5. Spec /\ Scheduled => (Left(t) = n /\ AtStage(t) ~> Left(t) < n)
  BY StageLeads
<1>6. Spec /\ Scheduled => (Left(t) = n /\ AtDoor(t) ~> Left(t) < n)
  BY DoorLeads
<1> QED BY <1>1, <1>2, <1>3, <1>4, <1>5, <1>6, PTL DEF Lowers, LedgerLowers

\* Every request a door took is answered, or its process stopped, if what is ready and
\* stays ready runs in the end: at most 31 things happen to it first.
THEOREM TurnsEnd == Spec /\ Scheduled => EveryTurnEnds
<1> SUFFICES ASSUME NEW t \in Turn
             PROVE  Spec /\ Scheduled => (At(t, "read") ~> turn[t].step \in {"done", "dead"})
  BY DEF EveryTurnEnds
<1>1. IInv /\ WaitInv /\ At(t, "read") => Left(t) <= 30
  BY DEF At, Left, MovesLeft, Awaits
<1>2. IInv /\ WaitInv /\ Left(t) <= 0 => turn[t].step \in {"done", "dead"}
  <2> SUFFICES ASSUME IInv, WaitInv, Left(t) <= 0 PROVE turn[t].step \in {"done", "dead"}
    OBVIOUS
  <2>1. turn[t].step \in Step
    BY Position, FieldsTyped
  <2>2. MovesLeft(turn[t]) = 0
    BY MovesNat DEF Left
  <2> QED BY <2>1, <2>2 DEF MovesLeft, Step, Ended
<1>3. Spec /\ Scheduled =>
        /\ Lowers(t, 30, 29) /\ Lowers(t, 29, 28) /\ Lowers(t, 28, 27) /\ Lowers(t, 27, 26)
        /\ Lowers(t, 26, 25) /\ Lowers(t, 25, 24) /\ Lowers(t, 24, 23) /\ Lowers(t, 23, 22)
        /\ Lowers(t, 22, 21) /\ Lowers(t, 21, 20) /\ Lowers(t, 20, 19) /\ Lowers(t, 19, 18)
        /\ Lowers(t, 18, 17) /\ Lowers(t, 17, 16) /\ Lowers(t, 16, 15)
  BY Descends
<1>4. Spec /\ Scheduled =>
        /\ Lowers(t, 15, 14) /\ Lowers(t, 14, 13) /\ Lowers(t, 13, 12) /\ Lowers(t, 12, 11)
        /\ Lowers(t, 11, 10) /\ Lowers(t, 10, 9) /\ Lowers(t, 9, 8) /\ Lowers(t, 8, 7)
        /\ Lowers(t, 7, 6) /\ Lowers(t, 6, 5) /\ Lowers(t, 5, 4) /\ Lowers(t, 4, 3)
        /\ Lowers(t, 3, 2) /\ Lowers(t, 2, 1) /\ Lowers(t, 1, 0)
  BY Descends
<1>5. Spec /\ Scheduled => (Left(t) <= 30 ~> Left(t) <= 15)
  BY <1>3, PTL DEF Lowers
<1>6. Spec /\ Scheduled => (Left(t) <= 15 ~> Left(t) <= 0)
  BY <1>4, PTL DEF Lowers
<1> QED BY <1>1, <1>2, <1>5, <1>6, WaitCorrect, PTL

\* The stage of a turn that was aborted, at work: waiting for the ledger to answer its
\* spend, or with nothing to wait for.
LeftBehind(t) == turn[t].aborted /\ turn[t].leg \in {"check", "held", "spending", "won", "executing"}
SpendOf(t) == IF turn[t].approved THEN "approve" ELSE "decline"
StillAsks(t, use) == /\ LeftBehind(t) /\ Leg(t, "spending")
                     /\ SpendOf(t) = use /\ OnWire(t, use)
MayStop(t) == LeftBehind(t) /\ ~(Leg(t, "spending") /\ OnWire(t, SpendOf(t)))
Stopped(t) == turn[t].leg \in {"none", "gone"}

\* What an abort left behind only ever stops, and hands its ledger no decision any more.
LEMMA AbortedOnward ==
  ASSUME IInv, WaitInv, [Next]_vars, NEW t \in Turn, turn[t].aborted
  PROVE  /\ turn'[t].aborted /\ turn'[t].approved = turn[t].approved
         /\ turn'[t].leg \in {turn[t].leg, "none", "gone"}
         /\ OnWire(t, SpendOf(t))' => OnWire(t, SpendOf(t))
<1>1. GoesOnward(t) /\ Sound(turn[t])
  BY NextOnward DEF WaitInv
<1>2. /\ turn'[t].aborted /\ turn'[t].approved = turn[t].approved
      /\ turn'[t].leg \in {turn[t].leg, "none", "gone"}
  BY <1>1 DEF GoesOnward, Onward, Sound
<1>3. SpendOf(t)' = SpendOf(t) /\ SpendOf(t) \in DecisionUse
  BY <1>2 DEF SpendOf, DecisionUse
<1>4. OnWire(t, SpendOf(t))' => OnWire(t, SpendOf(t))
  BY <1>1, <1>3 DEF GoesOnward, Hands, OnWire
<1> QED BY <1>2, <1>4

\* A turn that was aborted has its stage stopped, or at work.
LEMMA AbortedIs ==
  ASSUME IInv, WaitInv, NEW t \in Turn, turn[t].aborted
  PROVE  StillAsks(t, "approve") \/ StillAsks(t, "decline") \/ MayStop(t) \/ Stopped(t)
<1>1. turn[t].leg \in StageLeg /\ turn[t].leg # "settled"
  BY Position, FieldsTyped DEF IInv, TurnInv, RecordInv, OpenInv, WaitInv, Sound
<1>2. SpendOf(t) \in {"approve", "decline"}
  BY DEF SpendOf
<1> QED BY <1>1, <1>2 DEF StillAsks, MayStop, Stopped, LeftBehind, StageLeg

AnswerLeads(t, use) == StillAsks(t, use) ~> MayStop(t) \/ Stopped(t)

\* The ledger's answer to it leaves the stage free to stop.
LEMMA AnswerFrees ==
  ASSUME NEW t \in Turn, NEW use \in Use
  PROVE  Spec /\ Scheduled => AnswerLeads(t, use)
<1>1. IInv /\ WaitInv /\ StillAsks(t, use) /\ [Next]_vars
        => StillAsks(t, use)' \/ (MayStop(t) \/ Stopped(t))'
  <2> SUFFICES ASSUME IInv, WaitInv, StillAsks(t, use), [Next]_vars
               PROVE  StillAsks(t, use)' \/ (MayStop(t) \/ Stopped(t))'
    OBVIOUS
  <2>1. /\ turn'[t].aborted /\ turn'[t].approved = turn[t].approved
        /\ turn'[t].leg \in {turn[t].leg, "none", "gone"}
    BY AbortedOnward DEF StillAsks, LeftBehind
  <2> QED BY <2>1 DEF StillAsks, MayStop, Stopped, LeftBehind, SpendOf, Leg
<1>2. IInv /\ WaitInv /\ StillAsks(t, use) /\ <<ApplySpend(t, use)>>_vars
        => (MayStop(t) \/ Stopped(t))'
  <2> SUFFICES ASSUME IInv, WaitInv, StillAsks(t, use), ApplySpend(t, use) PROVE MayStop(t)'
    OBVIOUS
  <2>1. PICK w \in wire : w.by = t /\ w.use = use /\ wire' = wire \ {w} /\ turn' = turn
    BY DEF ApplySpend, Apply
  <2>2. \A v \in wire : v.by = t /\ v.use = use => v = w
    BY <2>1 DEF IInv, TypeOK, Entry, WaitInv, OwnSpend
  <2>3. ~OnWire(t, use)'
    BY <2>1, <2>2 DEF OnWire
  <2> QED BY <2>1, <2>3 DEF StillAsks, MayStop, LeftBehind, SpendOf
<1>3. StillAsks(t, use) => LedgerReady(t, use)
  BY DEF StillAsks, LedgerReady
<1>4. Scheduled => LedgerAnswers(t, use)
  BY DEF Scheduled
<1> QED BY <1>1, <1>2, <1>3, <1>4, WaitCorrect, PTL DEF Spec, LedgerAnswers, AnswerLeads

\* A stage that is free to stop stops.
LEMMA FreeStops ==
  ASSUME NEW t \in Turn
  PROVE  Spec /\ Scheduled => (MayStop(t) ~> Stopped(t))
<1>1. IInv /\ WaitInv /\ MayStop(t) /\ [Next]_vars => MayStop(t)' \/ Stopped(t)'
  <2> SUFFICES ASSUME IInv, WaitInv, MayStop(t), [Next]_vars PROVE MayStop(t)' \/ Stopped(t)'
    OBVIOUS
  <2>1. /\ turn'[t].aborted /\ turn'[t].leg \in {turn[t].leg, "none", "gone"}
        /\ OnWire(t, SpendOf(t))' => OnWire(t, SpendOf(t))
    BY AbortedOnward DEF MayStop, LeftBehind
  <2> QED BY <2>1 DEF MayStop, Stopped, LeftBehind, Leg
<1>2. IInv /\ WaitInv /\ MayStop(t) /\ <<StageStep(t)>>_vars => Stopped(t)'
  BY StageOnward DEF MayStop, LeftBehind, Stopped
<1>3. MayStop(t) => StageReady(t)
  <2> SUFFICES ASSUME MayStop(t) PROVE StageReady(t)
    OBVIOUS
  <2>1. Leg(t, "spending") => DecisionSpend(t) \notin wire
    BY DEF MayStop, OnWire, SpendOf, DecisionSpend, Spend
  <2> QED BY <2>1 DEF MayStop, LeftBehind, StageReady, Leg
<1>4. Scheduled => StageRuns(t)
  BY DEF Scheduled
<1> QED BY <1>1, <1>2, <1>3, <1>4, WaitCorrect, PTL DEF Spec, StageRuns

\* The stage a hang-up left behind stops, if what is ready and stays ready runs in the end.
THEOREM StagesStop == Spec /\ Scheduled => EveryStageStops
<1> SUFFICES ASSUME NEW t \in Turn
             PROVE  Spec /\ Scheduled => (turn[t].aborted ~> turn[t].leg \in {"none", "gone"})
  BY DEF EveryStageStops
<1>1. IInv /\ WaitInv /\ turn[t].aborted
        => StillAsks(t, "approve") \/ StillAsks(t, "decline") \/ MayStop(t) \/ Stopped(t)
  BY AbortedIs
<1>2. Spec /\ Scheduled => AnswerLeads(t, "approve") /\ AnswerLeads(t, "decline")
  BY AnswerFrees DEF Use
<1>3. Spec /\ Scheduled => (MayStop(t) ~> Stopped(t))
  BY FreeStops
<1> QED BY <1>1, <1>2, <1>3, WaitCorrect, PTL DEF Stopped, AnswerLeads

\* The fairness of FairSpec schedules the turns so, where the guards that say who is ready
\* are those of the actions.
ReadyIsEnabled ==
  \A t \in Turn :
    /\ StageReady(t) => ENABLED <<StageStep(t)>>_vars
    /\ DoorReady(t) => ENABLED <<DoorStep(t)>>_vars
    /\ \A use \in Use : LedgerReady(t, use) => ENABLED <<ApplySpend(t, use)>>_vars

\* Weak fairness of the stages, the doors and the ledger is that schedule, once what
\* is ready is enabled.
LEMMA FairIsScheduled == Fairness /\ []ReadyIsEnabled => Scheduled
<1>1. ASSUME NEW t \in Turn PROVE Fairness /\ []ReadyIsEnabled => StageRuns(t)
  <2>1. Fairness => StageFair(t)
    BY DEF Fairness
  <2>2. ReadyIsEnabled => (StageReady(t) => ENABLED <<StageStep(t)>>_vars)
    BY DEF ReadyIsEnabled
  <2> QED BY <2>1, <2>2, PTL DEF StageFair, StageRuns
<1>2. ASSUME NEW t \in Turn PROVE Fairness /\ []ReadyIsEnabled => DoorRuns(t)
  <2>1. Fairness => DoorFair(t)
    BY DEF Fairness
  <2>2. ReadyIsEnabled => (DoorReady(t) => ENABLED <<DoorStep(t)>>_vars)
    BY DEF ReadyIsEnabled
  <2> QED BY <2>1, <2>2, PTL DEF DoorFair, DoorRuns
<1>3. ASSUME NEW t \in Turn, NEW use \in Use
      PROVE  Fairness /\ []ReadyIsEnabled => LedgerAnswers(t, use)
  <2>1. Fairness => LedgerFair(t, use)
    BY DEF Fairness
  <2>2. ReadyIsEnabled => (LedgerReady(t, use) => ENABLED <<ApplySpend(t, use)>>_vars)
    BY DEF ReadyIsEnabled
  <2> QED BY <2>1, <2>2, PTL DEF LedgerFair, LedgerAnswers
<1> QED BY <1>1, <1>2, <1>3 DEF Scheduled

\* So both hold of the specification the runs check.
THEOREM FairTurnsEnd == FairSpec /\ []ReadyIsEnabled => EveryTurnEnds /\ EveryStageStops
BY FairIsScheduled, TurnsEnd, StagesStop, PTL DEF FairSpec
=============================================================================
