-------------------------------- MODULE McpPool --------------------------------
(***************************************************************************)
(* The clients an MCP client pool keeps (mcp/pool/): one per conversation  *)
(* key, opened once for everybody who waits, lent to operations and to the *)
(* app, evicted, swept, terminated or closed, and counted under three      *)
(* budgets until the work under them has settled.                          *)
(***************************************************************************)
EXTENDS Integers, FiniteSets

CONSTANTS
  Client,           \* bound: client incarnations in use or still referred to
  Key,              \* conversation keys
  Principal,
  PrincipalOf,      \* the principal of a key
  Caller,           \* callers, each with one operation at a time
  Acquirer,         \* those that take app leases; the others call or list tools
  Ender,            \* callers of terminate
  None,
  MaxClients, MaxClientsPerPrincipal, MaxEnding, MaxOperations,
  Rounds            \* rounds of leaseClient and of acquire; 3 in the code

ASSUME NamesAssumption == None \notin Client \cup Key
ASSUME CallerAssumption == Acquirer \subseteq Caller
ASSUME PrincipalAssumption == PrincipalOf \in [Key -> Principal]
ASSUME BoundsAssumption ==
  {MaxClients, MaxClientsPerPrincipal, MaxEnding, MaxOperations, Rounds} \subseteq Nat \ {0}
ASSUME FinitenessAssumption == IsFiniteSet(Client) /\ IsFiniteSet(Caller)

VARIABLES
  state,        \* per client: "opening", "open", "ending", "gone"
  keyOf,        \* per client: its key
  ready,        \* per client: what its open answers those who wait for it
  work,         \* per client: how far the open's own work is; "settled": none left
  owner,        \* per client: the caller whose operation is charged for the open
  closedToNew,  \* clients that take no new lease
  deferred,     \* per client: why it waits to end: "no", "weak" (idle, evicted), "strong"
  current,      \* per key: the client new leases go to
  op,           \* per caller: its operation
  held,         \* per caller: the client it keeps by an app lease
  named,        \* per ender: the clients its terminate waits for
  all,          \* the clients close waits for
  door          \* "open", "waiting" (closed; close waits for idle clients), "ending", "closed"

conn == <<keyOf, ready, work, owner>>
ends == <<named, all, door>>
vars == <<state, conn, closedToNew, deferred, current, op, held, ends>>

-----------------------------------------------------------------------------
(* What keeps a client, and what there is room for                         *)

OpenSet(st) == {c \in Client : st[c] \in {"opening", "open"}}
Ending(st) == {c \in Client : st[c] = "ending"}

\* The operation waits for the client's open, and so reserves it.
Reserves(o, c) == o.phase = "waiting" /\ o.on = c

\* Mutant: a lease lasts until the operation is answered.
MutantLeases(o, c) == c \in o.leased /\ o.phase # "answered"

\* The operation holds a lease on the client: until it has settled.
Leases(o, c) == c \in o.leased

\* A lease of an operation or of the app, or a reservation.
Uses(c, ops, hold) ==
  \E o \in Caller : Leases(ops[o], c) \/ Reserves(ops[o], c) \/ hold[o] = c

\* Operations charged: from admission until settlement, endings included.
Charged(ops, st) ==
  Cardinality({o \in Caller : ops[o].phase # "out"}) + Cardinality(Ending(st))

Least(m, n) == IF m < n THEN m ELSE n

\* How many endings find both an ending slot and an operation slot.
Room(ops, st) ==
  Least(MaxEnding - Cardinality(Ending(st)), MaxOperations - Charged(ops, st))

\* Clients that wait to end and could, if there was room.
Endable(ops, hold, st, df) ==
  {c \in Client : st[c] = "open" /\ df[c] # "no" /\ ~Uses(c, ops, hold)}

\* retryDeferred after a step that leaves `ops`, `hold`, `st`, `cur` and `df`:
\* as many endings start as there is room for.
EndDeferred(ops, hold, st, cur, df) ==
  LET able == Endable(ops, hold, st, df) IN
  \E E \in SUBSET able :
    /\ Cardinality(E) = Least(Cardinality(able), Room(ops, st))
    /\ state' = [c \in Client |-> IF c \in E THEN "ending" ELSE st[c]]
    /\ deferred' = [c \in Client |-> IF c \in E THEN "no" ELSE df[c]]
    /\ current' = [k \in Key |-> IF cur[k] \in E THEN None ELSE cur[k]]

\* retire: the key has no current client, if this is it.
Retired(gone) == [k \in Key |-> IF current[k] \in gone THEN None ELSE current[k]]

Defer(df, C, why) == [c \in Client |-> IF c \in C /\ df[c] # "strong" THEN why ELSE df[c]]

\* takeLease, holdLease: used again, so an idle end or an eviction is off.
UsedAgain(c) == [deferred EXCEPT ![c] = IF @ = "weak" THEN "no" ELSE @]

Serving(c) == state[c] = "open" /\ c \notin closedToNew

-----------------------------------------------------------------------------
(* The sweep every interaction starts with                                 *)

\* Clients whose last use may lie idleMs back; `hold` is what is left of the
\* app leases.
MaybeIdle(hold) == {c \in Client : /\ state[c] = "open" /\ deferred[c] = "no"
                                   /\ ~Uses(c, op, hold)}

\* App leases of `revoked` end, then idle clients, then what was deferred.
Interact(revoked, cur) ==
  /\ held' = [o \in Caller |-> IF o \in revoked THEN None ELSE held[o]]
  /\ \E idle \in SUBSET MaybeIdle(held') :
       EndDeferred(op, held', state, cur, Defer(deferred, idle, "weak"))

Holders == {o \in Caller : held[o] # None}

Sweep ==
  /\ \E revoked \in SUBSET Holders : Interact(revoked, current)
  /\ UNCHANGED <<conn, closedToNew, op, ends>>

\* The app gives its lease back.
Release(o) ==
  /\ held[o] # None
  /\ \E revoked \in SUBSET Holders : o \in revoked /\ Interact(revoked, current)
  /\ UNCHANGED <<conn, closedToNew, op, ends>>

-----------------------------------------------------------------------------
(* An operation: admitted, leased, worked, answered, settled               *)

NewOp(phase, k) ==
  [phase |-> phase, key |-> k, on |-> None, leased |-> {}, round |-> 0, try |-> 0]

NoOp == NewOp("out", None)

\* interact, admit: refused when the pool is closed or the budget is full.
Admit(o, k) ==
  /\ op[o].phase = "out" /\ door = "open"
  /\ held[o] = None  \* bound: one app lease for each caller
  /\ \E revoked \in SUBSET Holders : Interact(revoked, current)
  /\ Charged(op, state') < MaxOperations
  /\ op' = [op EXCEPT ![o] = NewOp("looking", k)]
  /\ UNCHANGED <<conn, closedToNew, ends>>

\* The open this operation started has not settled.
Opens(o) == \E c \in Client : work[c] # "settled" /\ owner[c] = o

\* finish: the caller is answered. The operation settles, and its leases end,
\* once the open it owns and the work it sent have.
Answer(o, st, cur, df) ==
  LET answered == [op EXCEPT ![o].phase = "answered", ![o].on = None]
      settled == [op EXCEPT ![o] = NoOp]
  IN \/ /\ Opens(o) \/ (o \notin Acquirer /\ op[o].leased # {})
        /\ op' = answered
        /\ EndDeferred(answered, held, st, cur, df)
     \/ /\ ~Opens(o)
        /\ op' = settled
        /\ EndDeferred(settled, held, st, cur, df)

Refuse(o) ==
  /\ Answer(o, state, current, deferred)
  /\ UNCHANGED <<conn, closedToNew, held, ends>>

Settle(o) ==
  /\ op[o].phase = "answered" /\ ~Opens(o)
  /\ op' = [op EXCEPT ![o] = NoOp]
  /\ EndDeferred(op', held, state, current, deferred)
  /\ UNCHANGED <<conn, closedToNew, held, ends>>

\* operation.check passed: neither the caller nor the pool is gone.
TakeLease(o, c) ==
  /\ door = "open"
  /\ op' = [op EXCEPT ![o].phase = "leased", ![o].on = c, ![o].leased = @ \cup {c}]
  /\ deferred' = UsedAgain(c)
  /\ UNCHANGED <<state, conn, closedToNew, current, held, ends>>

\* leaseClient finds an open client, and the caller may be gone by then.
LookLeases(o) ==
  LET c == current[op[o].key] IN
  /\ op[o].phase = "looking" /\ c # None
  /\ state[c] = "open"
  /\ TakeLease(o, c) \/ Refuse(o)

\* It finds one that opens: it waits, unless the open is past its time.
LookJoins(o) ==
  LET c == current[op[o].key] IN
  /\ op[o].phase = "looking" /\ c # None
  /\ state[c] = "opening"
  /\ IF ready[c] = "timeout"
     THEN Refuse(o)
     ELSE /\ op' = [op EXCEPT ![o].phase = "waiting", ![o].on = c]
          /\ UNCHANGED <<state, conn, closedToNew, deferred, current, held, ends>>

\* Mutant: only clients that are open are counted, not those that open.
MutantCrowd(k) ==
  LET some == {c \in Client : state[c] = "open"}
      mine == {c \in some : PrincipalOf[keyOf[c]] = PrincipalOf[k]} IN
  CASE Cardinality(mine) >= MaxClientsPerPrincipal -> mine
    [] OTHER -> IF Cardinality(some) >= MaxClients THEN some ELSE {}

\* makeRoom: who would have to go for one more client of the key.
Crowd(k) ==
  LET mine == {c \in OpenSet(state) : PrincipalOf[keyOf[c]] = PrincipalOf[k]} IN
  CASE Cardinality(mine) >= MaxClientsPerPrincipal -> mine
    [] OTHER -> IF Cardinality(OpenSet(state)) >= MaxClients THEN OpenSet(state) ELSE {}

Victims(k) == {c \in Crowd(k) : state[c] = "open" /\ ~Uses(c, op, held)}

Unused(c) ==
  /\ state[c] = "gone" /\ work[c] = "settled"
  /\ \A o \in Caller : op[o].on # c
  /\ \A t \in Ender : c \notin named[t]
  /\ c \notin all

\* openFor, startOpen: `c` joins the open set as the key's client, and the
\* operation waits for it.
StartOpen(o, c, st, cur) ==
  LET k == op[o].key IN
  /\ Unused(c)
  /\ state' = [st EXCEPT ![c] = "opening"]
  /\ keyOf' = [keyOf EXCEPT ![c] = k]
  /\ ready' = [ready EXCEPT ![c] = "pending"]
  /\ work' = [work EXCEPT ![c] = "connecting"]
  /\ owner' = [owner EXCEPT ![c] = o]
  /\ current' = [cur EXCEPT ![k] = c]
  /\ op' = [op EXCEPT ![o].phase = "waiting", ![o].on = c]
  /\ UNCHANGED <<closedToNew, held, ends>>

\* It finds none, and there is room for one more.
LookOpens(o, c) ==
  /\ op[o].phase = "looking" /\ current[op[o].key] = None
  /\ Crowd(op[o].key) = {}
  /\ StartOpen(o, c, state, current)
  /\ UNCHANGED deferred

\* An idle client goes to make room; it needs the slots of an ending.
LookEvicts(o, c, v) ==
  /\ op[o].phase = "looking" /\ current[op[o].key] = None
  /\ v \in Victims(op[o].key)
  /\ Room(op, state) > 0
  /\ StartOpen(o, c, [state EXCEPT ![v] = "ending"], Retired({v}))
  /\ deferred' = [deferred EXCEPT ![v] = "no"]

\* No client is idle: refused. No slot is free: the victim is put off, and the
\* arrival is refused.
LookFull(o) ==
  LET k == op[o].key IN
  /\ op[o].phase = "looking" /\ current[k] = None
  /\ Crowd(k) # {}
  /\ \/ Victims(k) = {} /\ Answer(o, state, current, deferred)
     \/ \E v \in Victims(k) : /\ Room(op, state) <= 0
                              /\ Answer(o, state, current, Defer(deferred, {v}, "weak"))
  /\ UNCHANGED <<conn, closedToNew, held, ends>>

\* The app's connection options throw, after the room was made.
LookPlanFails(o) ==
  LET k == op[o].key IN
  /\ op[o].phase = "looking" /\ current[k] = None
  /\ \/ Crowd(k) = {} /\ Answer(o, state, current, deferred)
     \/ \E v \in Victims(k) :
          /\ Room(op, state) > 0
          /\ Answer(o, [state EXCEPT ![v] = "ending"], Retired({v}), [deferred EXCEPT ![v] = "no"])
  /\ UNCHANGED <<conn, closedToNew, held, ends>>

Look(o) ==
  \/ LookLeases(o) \/ LookJoins(o) \/ LookFull(o) \/ LookPlanFails(o)
  \/ \E c \in Client : LookOpens(o, c) \/ \E v \in Client : LookEvicts(o, c, v)

\* Mutant: an open past its time is not told to those who wait for it.
MutantRefused(c) == ready[c] = "failed"

\* The open failed, or ran past its time.
Refused(c) == ready[c] \in {"failed", "timeout"}

More(n) == n + 1 < Rounds

\* Its open is over, and it serves.
WaitLeases(o) ==
  LET c == op[o].on IN
  /\ op[o].phase = "waiting" /\ ready[c] = "resolved"
  /\ Serving(c)
  /\ TakeLease(o, c)

\* It no longer serves: the next round, if there is one.
WaitLooksAgain(o) ==
  /\ op[o].phase = "waiting" /\ ready[op[o].on] = "resolved"
  /\ ~Serving(op[o].on)
  /\ More(op[o].round)
  /\ op' = [op EXCEPT ![o].phase = "looking", ![o].on = None, ![o].round = @ + 1]
  /\ EndDeferred(op', held, state, current, deferred)
  /\ UNCHANGED <<conn, closedToNew, held, ends>>

\* The open failed or ran past its time, or the last round is over.
WaitFails(o) ==
  /\ op[o].phase = "waiting"
  /\ \/ Refused(op[o].on)
     \/ ready[op[o].on] = "resolved" /\ ~Serving(op[o].on) /\ ~More(op[o].round)
     \/ door # "open"
  /\ Refuse(o)

\* The caller's signal: it detaches the caller, never the open.
GiveUp(o) == op[o].phase = "waiting" /\ Refuse(o)

\* The call or the listing is over, whatever it came to.
FinishCall(o) == op[o].phase = "leased" /\ o \notin Acquirer /\ Refuse(o)

\* lostHandle, expired: the call found its session gone.
Lose(o) ==
  LET c == op[o].on IN
  /\ op[o].phase = "leased" /\ o \notin Acquirer
  /\ closedToNew' = closedToNew \cup {c}
  /\ current' = Retired({c})
  /\ deferred' = Defer(deferred, {c}, "strong")
  /\ UNCHANGED <<state, conn, op, held, ends>>

\* Mutant: acquire keeps what it waited for.
MutantMayHold(c) == TRUE

\* acquire looks again after its wait: the pool may have closed, and the client
\* may have been named by a terminate.
MayHold(c) == door = "open" /\ Serving(c)

\* acquire: the app keeps the client, and the operation ends.
Hold(o) ==
  LET c == op[o].on IN
  /\ op[o].phase = "leased" /\ o \in Acquirer
  /\ MayHold(c)
  /\ held' = [held EXCEPT ![o] = c]
  /\ \/ op' = [op EXCEPT ![o].phase = "answered", ![o].on = None] /\ Opens(o)
     \/ op' = [op EXCEPT ![o] = NoOp] /\ ~Opens(o)
  /\ EndDeferred(op', held', state, current, UsedAgain(c))
  /\ UNCHANGED <<conn, closedToNew, ends>>

\* A terminate named the client meanwhile: acquire leases once more.
HoldLooksAgain(o) ==
  /\ op[o].phase = "leased" /\ o \in Acquirer
  /\ door = "open" /\ ~Serving(op[o].on)
  /\ More(op[o].try)
  /\ op' = [op EXCEPT ![o].phase = "looking", ![o].on = None,
                     ![o].round = 0, ![o].try = @ + 1]
  /\ UNCHANGED <<state, conn, closedToNew, deferred, current, held, ends>>

\* The pool closed, the caller is gone, or there is no client to be had.
HoldFails(o) == op[o].phase = "leased" /\ o \in Acquirer /\ Refuse(o)

-----------------------------------------------------------------------------
(* The one open of a client, and the one ending                            *)

\* initTimeoutMs: every waiter is refused, the open goes on.
OpenTimesOut(c) ==
  /\ work[c] = "connecting" /\ ready[c] = "pending"
  /\ ready' = [ready EXCEPT ![c] = "timeout"]
  /\ UNCHANGED <<state, keyOf, work, owner, closedToNew, deferred, current, op, held, ends>>

OpenSucceeds(c) ==
  /\ work[c] = "connecting"
  /\ IF ready[c] = "pending" /\ door = "open"
     THEN /\ state' = [state EXCEPT ![c] = "open"]
          /\ ready' = [ready EXCEPT ![c] = "resolved"]
          /\ work' = [work EXCEPT ![c] = "served"]
     ELSE /\ ready' = [ready EXCEPT ![c] = IF @ = "pending" THEN "failed" ELSE @]
          /\ work' = [work EXCEPT ![c] = "late"]
          /\ UNCHANGED state
  /\ UNCHANGED <<keyOf, owner, closedToNew, deferred, current, op, held, ends>>

OpenFails(c) ==
  /\ work[c] = "connecting"
  /\ ready' = [ready EXCEPT ![c] = IF @ = "pending" THEN "failed" ELSE @]
  /\ work' = [work EXCEPT ![c] = "failed"]
  /\ UNCHANGED <<state, keyOf, owner, closedToNew, deferred, current, op, held, ends>>

\* Mutant: a session that opened late takes new leases.
MutantTurnedAway(c) == closedToNew

\* The late session takes no lease.
TurnedAway(c) == closedToNew \cup {c}

\* Mutant: nothing is retried when a client is gone.
MutantFreed(c) ==
  /\ state' = [state EXCEPT ![c] = "gone"]
  /\ current' = Retired({c})
  /\ deferred' = [deferred EXCEPT ![c] = "no"]

\* The client is gone, and the endings that waited for its slots may start.
Freed(c) ==
  EndDeferred(op, held, [state EXCEPT ![c] = "gone"], Retired({c}), [deferred EXCEPT ![c] = "no"])

\* Nothing reads the key of a client that is gone, or whether it takes leases.
Forgets(c) ==
  /\ keyOf' = [keyOf EXCEPT ![c] = None]
  /\ closedToNew' = closedToNew \ {c}

\* The work of an open has settled: an open nobody could use is dropped, or
\* ended when the server opened a session all the same.
OpenSettles(c) ==
  /\ work[c] \in {"served", "late", "failed"}
  /\ work' = [work EXCEPT ![c] = "settled"]
  /\ owner' = [owner EXCEPT ![c] = None]
  /\ \/ /\ work[c] = "served"
        /\ UNCHANGED <<state, keyOf, closedToNew, deferred, current>>
     \/ /\ work[c] \in {"late", "failed"}
        /\ closedToNew' = TurnedAway(c)
        /\ EndDeferred(op, held, [state EXCEPT ![c] = "open"], Retired({c}),
                       Defer(deferred, {c}, "strong"))
        /\ UNCHANGED keyOf
     \/ /\ work[c] = "failed"
        /\ Freed(c) /\ Forgets(c)
  /\ UNCHANGED <<ready, op, held, ends>>

\* The ending's work has settled.
EndingSettles(c) ==
  /\ state[c] = "ending"
  /\ Freed(c) /\ Forgets(c)
  /\ UNCHANGED <<ready, work, owner, op, held, ends>>

-----------------------------------------------------------------------------
(* terminate and close                                                     *)

\* Every named client stops taking leases at once.
Terminate(t, scope) ==
  /\ named[t] = {}
  /\ \E revoked \in SUBSET Holders :
       Interact(revoked, [k \in Key |-> IF k \in scope THEN None ELSE current[k]])
  /\ named' = [named EXCEPT ![t] = {c \in OpenSet(state') : keyOf[c] \in scope}]
  /\ closedToNew' = closedToNew \cup named'[t]
  /\ UNCHANGED <<conn, op, all, door>>

\* endNow: those that are open end, or wait to.
EndNow(C) ==
  EndDeferred(op, held, state, current,
              Defer(deferred, {c \in C : state[c] = "open"}, "strong"))

\* They are idle, or their time is over.
TerminateEnds(t) ==
  /\ named[t] # {}
  /\ EndNow(named[t])
  /\ named' = [named EXCEPT ![t] = {}]
  /\ UNCHANGED <<conn, closedToNew, op, held, all, door>>

\* No new work, no app lease, no current client.
Close ==
  /\ door = "open"
  /\ held' = [o \in Caller |-> None]
  /\ EndDeferred(op, held', state, [k \in Key |-> None], deferred)
  /\ all' = OpenSet(state')
  /\ closedToNew' = closedToNew \cup all'
  /\ door' = "waiting"
  /\ UNCHANGED <<conn, op, named>>

\* The rounds of close: what a later round would end was deferred by the first.
CloseEnds ==
  /\ door = "waiting"
  /\ EndNow(all)
  /\ door' = "ending"
  /\ UNCHANGED <<conn, closedToNew, op, held, named, all>>

CloseDone ==
  /\ door = "ending"
  /\ deferred' = Defer(deferred, all \cap OpenSet(state), "strong")
  /\ all' = {}
  /\ door' = "closed"
  /\ UNCHANGED <<state, conn, closedToNew, current, op, held, named>>

-----------------------------------------------------------------------------

Init ==
  /\ state = [c \in Client |-> "gone"]
  /\ keyOf = [c \in Client |-> None]
  /\ ready = [c \in Client |-> "failed"]
  /\ work = [c \in Client |-> "settled"]
  /\ owner = [c \in Client |-> None]
  /\ closedToNew = {}
  /\ deferred = [c \in Client |-> "no"]
  /\ current = [k \in Key |-> None]
  /\ op = [o \in Caller |-> NoOp]
  /\ held = [o \in Caller |-> None]
  /\ named = [t \in Ender |-> {}]
  /\ all = {} /\ door = "open"

\* What happens to an operation without its caller leaving or losing a client.
OperationStep(o) ==
  \/ Look(o) \/ WaitLeases(o) \/ WaitLooksAgain(o) \/ WaitFails(o)
  \/ FinishCall(o) \/ Hold(o) \/ HoldLooksAgain(o) \/ HoldFails(o) \/ Settle(o)

ClientStep(c) ==
  \/ OpenTimesOut(c) \/ OpenSucceeds(c) \/ OpenFails(c) \/ OpenSettles(c)
  \/ EndingSettles(c)

CloseStep == CloseEnds \/ CloseDone

Next ==
  \/ Sweep \/ Close \/ CloseStep
  \/ \E o \in Caller :
       \/ \E k \in Key : Admit(o, k)
       \/ OperationStep(o) \/ GiveUp(o) \/ Lose(o) \/ Release(o)
  \/ \E c \in Client : ClientStep(c)
  \/ \E t \in Ender : TerminateEnds(t) \/ \E scope \in SUBSET Key : Terminate(t, scope)

Spec == Init /\ [][Next]_vars

\* Promises resolve, deadlines pass, calls end and their work settles; so do an
\* open and an ending. Nobody has to interact, and no app to give a lease back.
FairSpec ==
  /\ Spec
  /\ \A o \in Caller : WF_vars(OperationStep(o))
  /\ \A c \in Client : WF_vars(ClientStep(c))
  /\ \A t \in Ender : WF_vars(TerminateEnds(t))
  /\ WF_vars(CloseStep)

-----------------------------------------------------------------------------

Operation ==
  [phase : {"out", "looking", "waiting", "leased", "answered"},
   key : Key \cup {None}, on : Client \cup {None}, leased : SUBSET Client,
   round : 0..(Rounds - 1), try : 0..(Rounds - 1)]

TypeOK ==
  /\ state \in [Client -> {"opening", "open", "ending", "gone"}]
  /\ keyOf \in [Client -> Key \cup {None}]
  /\ ready \in [Client -> {"pending", "resolved", "failed", "timeout"}]
  /\ work \in [Client -> {"connecting", "served", "late", "failed", "settled"}]
  /\ owner \in [Client -> Caller \cup {None}]
  /\ closedToNew \in SUBSET Client /\ all \in SUBSET Client
  /\ deferred \in [Client -> {"no", "weak", "strong"}]
  /\ current \in [Key -> Client \cup {None}]
  /\ op \in [Caller -> Operation]
  /\ held \in [Caller -> Client \cup {None}]
  /\ named \in [Ender -> SUBSET Client]
  /\ door \in {"open", "waiting", "ending", "closed"}

\* A client somebody works with or keeps is open, and its open was in time; a
\* client somebody waits for is not ending, and gone only if its open failed.
InUseStaysOpen ==
  \A o \in Caller, c \in Client :
    /\ c \in op[o].leased \/ held[o] = c => state[c] = "open" /\ ready[c] = "resolved"
    /\ Reserves(op[o], c) =>
         \/ state[c] \in {"opening", "open"}
         \/ state[c] = "gone" /\ ready[c] \in {"failed", "timeout"}

\* A client that takes leases is the one its key names, so that no conversation
\* is served by two clients at once.
OneServesAKey == \A c \in Client : Serving(c) => current[keyOf[c]] = c

\* The three budgets, with the share of each principal.
BudgetsHold ==
  /\ Cardinality(OpenSet(state)) <= MaxClients
  /\ \A p \in Principal :
       Cardinality({c \in OpenSet(state) : PrincipalOf[keyOf[c]] = p}) <= MaxClientsPerPrincipal
  /\ Cardinality(Ending(state)) <= MaxEnding
  /\ Charged(op, state) <= MaxOperations

\* A deferred ending waits for its client to be idle or for slots, and never
\* after both are there (whatever frees a slot or a client must retry).
DeferredHasNoRoom == Endable(op, held, state, deferred) = {} \/ Room(op, state) <= 0

\* A closed pool keeps no app lease: not of an acquire that was on its way either.
ClosedHoldsNothing == door # "open" => Holders = {}

\* Every admitted operation is answered, and its charge comes back.
EveryOperationSettles ==
  \A o \in Caller : op[o].phase # "out" ~> op[o].phase = "out"

\* After close, every client is gone in the end: also one that was opening, in
\* use, terminated or put off when the pool closed.
CloseEndsEveryClient == door # "open" ~> \A c \in Client : state[c] = "gone"

\* terminate's promise: once it has done what it waits for, a client it named
\* that is idle has ended, unless no slot was free.
NamedIsEnded ==
  \A c \in Client :
    /\ state[c] = "open" /\ c \in closedToNew /\ ~Uses(c, op, held)
    /\ c \notin all /\ \A t \in Ender : c \notin named[t]
    => Room(op, state) <= 0
=============================================================================
