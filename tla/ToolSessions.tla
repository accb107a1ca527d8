------------------------------ MODULE ToolSessions ------------------------------
(***************************************************************************)
(* The sessions a tool holds open between calls (tools/toolSessions.ts):   *)
(* the tier of registered cleanups, the borrow of a turn's registrations   *)
(* by one run of the agent at a time (core/agent/componentResources.ts),   *)
(* and the code runner tool that opens a session, keeps it by its key and  *)
(* registers its end (core/codeRunnerTool.ts). One conversation.           *)
(***************************************************************************)
EXTENDS Integers, FiniteSets

CONSTANTS
  Turn,         \* bound: turns of the conversation, the owners of registrations
  Leg,          \* bound: runs of the agent: a turn's first, its resumes, its abandonment
  Session,      \* bound: sessions the tools open
  Tool,
  ScopeOf,      \* how long a tool keeps its session: "call", "run" or "session"
  None,
  MaxCalls,     \* bound: calls per turn
  MaxLive,      \* live registrations; 64 in the code
  IdleMs,       \* how long a registration lives untouched
  MaxNow        \* bound: the clock

ASSUME ScopeAssumption == ScopeOf \in [Tool -> {"call", "run", "session"}]
ASSUME NamesAssumption == Turn \cup Leg \cup Session \subseteq Nat
ASSUME BoundsAssumption == {MaxCalls, MaxLive, IdleMs} \subseteq Nat \ {0} /\ MaxNow \in Nat

VARIABLES
  rows,         \* live registrations
  seq,          \* how many registrations there were
  stops,        \* cleanups that run: the session they stop, and who waits for them
  borrower,     \* per turn: the leg that holds its registrations
  saved,        \* per turn: the calls its stored pause counts and the one it paused in
  leg,          \* per leg: its run, its view of the tier, and its call
  open,         \* per key: the session the tool hands out
  starting,     \* per key: the session being opened, and the call that opens it
  session,      \* per session: "unused", "opening", "failed", "live", "stopping", "stopped"
  now

tier == <<rows, seq, stops, borrower, saved>>
tool == <<open, starting, session>>
vars == <<tier, leg, tool, now>>

Ordinal == 0..(MaxCalls - 1)

\* What a stored pause keeps of its turn's calls.
Paused == [next : 0..MaxCalls, pending : Ordinal \cup {None}]

\* A call, a turn or the conversation: whom a session of the tool is for.
KeyOf(x, t, n) ==
  [tool |-> x, turn |-> IF ScopeOf[x] = "session" THEN None ELSE t,
   call |-> IF ScopeOf[x] = "call" THEN n ELSE None]

Key == {KeyOf(x, t, n) : x \in Tool, t \in Turn, n \in Ordinal}

\* The call that opens a session.
Start == [session : Session, leg : Leg, call : Ordinal]

ASSUME NoneAssumption == None \notin Nat /\ None \notin Paused /\ None \notin Start

Scope(r) == ScopeOf[r.key.tool]

-----------------------------------------------------------------------------
(* Firing: claim rows, forget their sessions and start to stop them        *)

\* The cleanup drops the session from the tool's map before it stops it.
Forgets(keys, o) == [k \in Key |-> IF k \in keys THEN None ELSE o[k]]

Stopping(fired, who) == {[session |-> s, for |-> who] : s \in {r.session : r \in fired}}

Stops(fired, ss) ==
  [s \in Session |-> IF \E r \in fired : r.session = s THEN "stopping" ELSE ss[s]]

\* Mutant: the rows are dropped by somebody else, later.
MutantUnclaimed(fired) == rows

Unclaimed(fired) == rows \ fired

\* fire: whoever waits, waits for all the cleanups of the rows it claimed.
Fire(fired, who) ==
  /\ rows' = Unclaimed(fired) /\ seq' = seq
  /\ stops' = stops \cup Stopping(fired, who)
  /\ open' = Forgets({r.key : r \in fired}, open)
  /\ session' = Stops(fired, session)

-----------------------------------------------------------------------------
(* Registering                                                             *)

Idle(r) == r.touched + IdleMs <= now

\* First wins: a repeat touches the row that holds its key.
Filed(rs, k, s) ==
  IF \E r \in rs : r.key = k
  THEN {IF r.key = k THEN [r EXCEPT !.touched = now] ELSE r : r \in rs}
  ELSE rs \cup {[key |-> k, session |-> s, touched |-> now, id |-> seq + 1]}

Colder(r, q) == r.touched < q.touched \/ (r.touched = q.touched /\ r.id < q.id)

\* A new row evicts the coldest one when there are too many.
Overflow(rs) == {r \in rs : Cardinality(rs) > MaxLive /\ \A q \in rs \ {r} : Colder(r, q)}

\* Sweep what is idle, file or touch, evict: nobody waits for these cleanups.
Register(k, s, o, ss) ==
  LET swept == {r \in rows : Idle(r)}
      filed == Filed(rows \ swept, k, s)
      fired == swept \cup Overflow(filed)
  IN /\ rows' = filed \ Overflow(filed)
     /\ seq' = IF \E r \in rows \ swept : r.key = k THEN seq ELSE seq + 1
     /\ stops' = stops \cup Stopping(fired, None)
     /\ open' = Forgets({r.key : r \in fired}, o)
     /\ session' = Stops(fired, ss)

\* Mutant: only the call is asked about, not the view it registers through.
MutantRefused(l, n) == n < leg[l].closed

\* A view that is retired takes no registration, nor one of a call that ended.
Refused(l, n) == leg[l].run # "running" \/ n < leg[l].closed

\* Mutant: a refused registration is dropped.
MutantRejectLate(s) == {}

\* A refused registration runs its cleanup at once.
RejectLate(s) == {[session |-> s, for |-> None]}

-----------------------------------------------------------------------------
(* Legs: a component run borrows the registrations of its turn             *)

Becomes(l, r) == leg' = [leg EXCEPT ![l] = r]
Used(t) == \E l \in Leg : leg[l].turn = t

\* Legs, turns and sessions are numbered as they come.
NewLeg(l) == leg[l].run = "unused" /\ \A m \in Leg : m < l => leg[m].run # "unused"
NewTurn(t) == ~Used(t) /\ \A u \in Turn : u < t => Used(u)
NewSession(s) == session[s] = "unused" /\ \A u \in Session : u < s => session[u] # "unused"

Waits(l, what) == \E s \in stops : s.for = <<l, what>>
Alive(l) == leg[l].run = "running"

NoLeg ==
  [run |-> "unused", turn |-> None, next |-> 0, pending |-> None, closed |-> 0,
   answer |-> "none", call |-> "none", key |-> None, on |-> None]

\* seed and restore: a new turn's owner has made no call.
Begin(l, t) ==
  /\ NewLeg(l) /\ NewTurn(t)
  /\ borrower' = [borrower EXCEPT ![t] = l]
  /\ Becomes(l, [NoLeg EXCEPT !.run = "running", !.turn = t])
  /\ UNCHANGED <<rows, seq, stops, saved, tool, now>>

\* restore: the view starts after the calls that ended before the pause.
Resume(l, t) ==
  /\ NewLeg(l) /\ saved[t] # None /\ borrower[t] = None
  /\ borrower' = [borrower EXCEPT ![t] = l]
  /\ Becomes(l, [NoLeg EXCEPT !.run = "running", !.turn = t, !.answer = "awaited",
                   !.next = saved[t].next, !.pending = saved[t].pending,
                   !.closed = IF saved[t].pending = None THEN saved[t].next ELSE saved[t].pending])
  /\ UNCHANGED <<rows, seq, stops, saved, tool, now>>

\* Another leg holds the owner: this one has no view, and closes nothing.
ResumeRefused(l, t) ==
  /\ NewLeg(l) /\ saved[t] # None /\ borrower[t] # None
  /\ Becomes(l, [NoLeg EXCEPT !.run = "over", !.turn = t, !.answer = "awaited"])
  /\ UNCHANGED <<tier, tool, now>>

\* The decision or the value was taken in: what the resume spends first.
TakeAnswer(l) ==
  /\ Alive(l) /\ leg[l].answer = "awaited"
  /\ Becomes(l, [leg[l] EXCEPT !.answer = "taken"])
  /\ UNCHANGED <<tier, tool, now>>

OwnRows(t) == {r \in rows : r.key.turn = t}

\* Mutant: a leg that took no answer ends its turn like any other.
MutantKeeps(l) == FALSE

\* A resume that took no answer leaves the pause, and what it holds, as it was.
Keeps(l) == leg[l].answer = "awaited"

Released(t) == borrower' = [borrower EXCEPT ![t] = None]

\* finish(true): a pause keeps the rows of the turn and gives the borrow back.
\* The pause comes between two calls or from within one.
Pause(l) ==
  /\ Alive(l) /\ leg[l].answer # "awaited"
  /\ leg[l].call \in {"none", "using"}
  /\ leg[l].call = "none" => leg[l].pending = None
  /\ saved' = [saved EXCEPT ![leg[l].turn] =
                 [next |-> leg[l].next, pending |-> leg[l].pending]]
  /\ Released(leg[l].turn)
  /\ Becomes(l, [leg[l] EXCEPT !.run = "over", !.call = "none", !.on = None])
  /\ UNCHANGED <<rows, seq, stops, tool, now>>

\* Any other end, a hang-up during a call among them: the call goes on.
End(l) ==
  /\ Alive(l)
  /\ IF Keeps(l)
     THEN /\ Released(leg[l].turn)
          /\ Becomes(l, [leg[l] EXCEPT !.run = "over"])
          /\ UNCHANGED <<rows, seq, stops, saved, tool>>
     ELSE /\ Fire(OwnRows(leg[l].turn), <<l, "end">>)
          /\ saved' = [saved EXCEPT ![leg[l].turn] = None]
          /\ Becomes(l, [leg[l] EXCEPT !.run = "finishing"])
          /\ UNCHANGED <<borrower, starting>>
  /\ UNCHANGED now

\* The host gives the pause up: borrow and finish(false), with no view.
Abandon(l, t) ==
  /\ NewLeg(l) /\ saved[t] # None /\ borrower[t] = None
  /\ borrower' = [borrower EXCEPT ![t] = l]
  /\ saved' = [saved EXCEPT ![t] = None]
  /\ Fire(OwnRows(t), <<l, "end">>)
  /\ Becomes(l, [NoLeg EXCEPT !.run = "finishing", !.turn = t])
  /\ UNCHANGED <<starting, now>>

\* The borrow goes back once the cleanups have settled or timed out.
Over(l) ==
  /\ leg[l].run = "finishing" /\ ~Waits(l, "end")
  /\ Released(leg[l].turn)
  /\ Becomes(l, [leg[l] EXCEPT !.run = "over"])
  /\ UNCHANGED <<rows, seq, stops, saved, tool, now>>

-----------------------------------------------------------------------------
(* Calls: one at a time in a leg                                           *)

\* nextToolDispatch: the paused call is dispatched again, or the next one is.
Dispatched(l) ==
  IF leg[l].pending # None THEN leg[l]
  ELSE [leg[l] EXCEPT !.next = @ + 1, !.pending = leg[l].next]

CanCall(l) ==
  /\ Alive(l) /\ leg[l].answer # "awaited" /\ leg[l].call = "none"
  /\ leg[l].pending = None => leg[l].next < MaxCalls

CallKey(l, x) == KeyOf(x, leg[l].turn, Dispatched(l).pending)

\* The key has a session: register its end again, a touch, and use it.
Reuse(l, x) ==
  LET k == CallKey(l, x) IN
  /\ CanCall(l) /\ open[k] # None
  /\ Register(k, open[k], open, session)
  /\ Becomes(l, [Dispatched(l) EXCEPT !.call = "using", !.key = k, !.on = open[k]])
  /\ UNCHANGED <<borrower, saved, starting, now>>

\* Somebody else's call is opening it: wait for that one.
Join(l, x) ==
  LET k == CallKey(l, x) IN
  /\ CanCall(l) /\ open[k] = None /\ starting[k] # None
  /\ Becomes(l, [Dispatched(l) EXCEPT !.call = "opening", !.key = k])
  /\ UNCHANGED <<tier, tool, now>>

OpenOne(l, x) ==
  LET k == CallKey(l, x) IN
  /\ CanCall(l) /\ open[k] = None /\ starting[k] = None
  /\ \E s \in Session :
       /\ NewSession(s)
       /\ session' = [session EXCEPT ![s] = "opening"]
       /\ starting' = [starting EXCEPT ![k] =
                         [session |-> s, leg |-> l, call |-> Dispatched(l).pending]]
  /\ Becomes(l, [Dispatched(l) EXCEPT !.call = "opening", !.key = k])
  /\ UNCHANGED <<tier, open, now>>

\* Whoever waits for the session of a key goes on with it, or fails without one.
GoOn(k, call, s) ==
  leg' = [l \in Leg |-> IF leg[l].call = "opening" /\ leg[l].key = k
                        THEN [leg[l] EXCEPT !.call = call, !.on = s] ELSE leg[l]]

Started(k) == starting' = [starting EXCEPT ![k] = None]

\* The session is there: the call that opened it registers its end.
Opened(k) ==
  LET one == starting[k] IN
  /\ one # None
  /\ IF Refused(one.leg, one.call)
     THEN /\ stops' = stops \cup RejectLate(one.session)
          /\ session' = [session EXCEPT ![one.session] =
                           IF RejectLate(one.session) = {} THEN "live" ELSE "stopping"]
          /\ GoOn(k, "failed", None)
          /\ UNCHANGED <<rows, seq, open>>
     ELSE /\ Register(k, one.session, [open EXCEPT ![k] = one.session],
                      [session EXCEPT ![one.session] = "live"])
          /\ GoOn(k, "using", one.session)
  /\ Started(k)
  /\ UNCHANGED <<borrower, saved, now>>

OpenFails(k) ==
  /\ starting[k] # None
  /\ session' = [session EXCEPT ![starting[k].session] = "failed"]
  /\ GoOn(k, "failed", None)
  /\ Started(k)
  /\ UNCHANGED <<tier, open, now>>

\* endCall, once the call settled or its answer was taken for its result: the
\* call is closed and its own sessions are fired. A retired view only throws.
EndCall(l) ==
  /\ \/ leg[l].call \in {"using", "failed"}
     \/ leg[l].call = "none" /\ leg[l].pending # None /\ leg[l].answer = "taken" /\ Alive(l)
  /\ IF Alive(l)
     THEN /\ Fire({r \in OwnRows(leg[l].turn) : r.key.call = leg[l].pending}, <<l, "call">>)
          /\ Becomes(l, [leg[l] EXCEPT !.call = "closing", !.key = None, !.on = None,
                                       !.closed = leg[l].pending + 1])
     ELSE /\ Becomes(l, [leg[l] EXCEPT !.call = "none", !.key = None, !.on = None])
          /\ UNCHANGED <<rows, seq, stops, open, session>>
  /\ UNCHANGED <<borrower, saved, starting, now>>

CallEnds(l) ==
  /\ leg[l].call = "closing" /\ ~Waits(l, "call")
  /\ Becomes(l, [leg[l] EXCEPT !.call = "none", !.pending = None])
  /\ UNCHANGED <<tier, tool, now>>

-----------------------------------------------------------------------------
(* The host, the vendor and the clock                                      *)

\* closeToolSessions, for the conversation or for its turns, and shutdown.
Close ==
  \E scopes \in {{"session"}, {"run"}, {"call", "run", "session"}} :
    /\ \E r \in rows : Scope(r) \in scopes
    /\ Fire({r \in rows : Scope(r) \in scopes}, None)
    /\ UNCHANGED <<borrower, saved, starting, leg, now>>

Stopped(s) ==
  /\ s \in stops
  /\ stops' = stops \ {s}
  /\ session' = [session EXCEPT ![s.session] = "stopped"]
  /\ UNCHANGED <<rows, seq, borrower, saved, leg, open, starting, now>>

\* Mutant: only a cleanup nobody waits for is bounded.
MutantStopTimesOut(s) ==
  /\ s \in stops /\ s.for = None
  /\ stops' = stops
  /\ UNCHANGED <<rows, seq, borrower, saved, leg, tool, now>>

\* The wait is given up; the stop goes on for nobody.
StopTimesOut(s) ==
  /\ s \in stops /\ s.for # None
  /\ stops' = (stops \ {s}) \cup {[s EXCEPT !.for = None]}
  /\ UNCHANGED <<rows, seq, borrower, saved, leg, tool, now>>

Tick == now < MaxNow /\ now' = now + 1 /\ UNCHANGED <<tier, leg, tool>>

-----------------------------------------------------------------------------

Stop == [session : Session, for : {None} \cup (Leg \X {"call", "end"})]

Init ==
  /\ rows = {} /\ seq = 0 /\ stops = {} /\ now = 0
  /\ borrower = [t \in Turn |-> None]
  /\ saved = [t \in Turn |-> None]
  /\ leg = [l \in Leg |-> NoLeg]
  /\ open = [k \in Key |-> None]
  /\ starting = [k \in Key |-> None]
  /\ session = [s \in Session |-> "unused"]

LegStep(l) ==
  \/ \E t \in Turn : Begin(l, t) \/ Resume(l, t) \/ ResumeRefused(l, t) \/ Abandon(l, t)
  \/ TakeAnswer(l) \/ Pause(l) \/ End(l) \/ Over(l)
  \/ \E x \in Tool : Reuse(l, x) \/ Join(l, x) \/ OpenOne(l, x)
  \/ EndCall(l) \/ CallEnds(l)

Next ==
  \/ \E l \in Leg : LegStep(l)
  \/ \E k \in Key : Opened(k) \/ OpenFails(k)
  \/ Close
  \/ \E s \in Stop : Stopped(s) \/ StopTimesOut(s)
  \/ Tick

Spec == Init /\ [][Next]_vars

FairSpec ==
  /\ Spec
  /\ \A l \in Leg : WF_vars(Over(l)) /\ WF_vars(CallEnds(l))
  /\ \A s \in Stop : WF_vars(StopTimesOut(s))

-----------------------------------------------------------------------------
(* What must hold                                                          *)

\* The shape of the state; at most MaxLive registrations, one per key.
TypeOK ==
  /\ rows \subseteq [key : Key, session : Session, touched : 0..MaxNow, id : 1..seq]
  /\ Cardinality(rows) <= MaxLive
  /\ \A r, q \in rows : r.key = q.key \/ r.id = q.id => r = q
  /\ stops \subseteq Stop
  /\ borrower \in [Turn -> Leg \cup {None}]
  /\ session \in [Session -> {"unused", "opening", "failed", "live", "stopping", "stopped"}]
  /\ open \in [Key -> Session \cup {None}]

\* What a turn or a call of it registered is gone once the turn is over: a row
\* of a turn means that a leg borrows it or that its pause can be resumed.
NothingOutlivesItsTurn ==
  \A r \in rows :
    r.key.turn # None => borrower[r.key.turn] # None \/ saved[r.key.turn] # None

\* A resume that took no answer stops nothing of the pause it was to answer.
UnansweredStopsNothing ==
  \A s \in stops : s.for # None => leg[s.for[1]].answer # "awaited"

\* Every session that runs is one its tool hands out, and one whose end is
\* registered: something will stop it.
NoSessionIsLost ==
  \A s \in Session : session[s] = "live" =>
    \E r \in rows : r.session = s /\ open[r.key] = s

\* A session is told to stop once, whoever fires first.
StopsOnce ==
  [][\A s \in Session : session[s] \in {"stopping", "stopped"} =>
       Cardinality({w \in stops' : w.session = s}) <= Cardinality({w \in stops : w.session = s})]_vars

\* A run that ends gives its turn back, whatever its cleanups do.
EveryBorrowIsReturned ==
  \A l \in Leg : leg[l].run = "finishing" ~> leg[l].run = "over"
=============================================================================
