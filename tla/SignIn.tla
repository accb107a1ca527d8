--------------------------------- MODULE SignIn ---------------------------------
(***************************************************************************)
(* The password door (hosting/signin/): the attempt limiter's two bounded  *)
(* tables of counters (limits.ts), the cap on concurrent checks            *)
(* (checkGate.ts), the login handler that settles each counted attempt     *)
(* once (door.ts), and the directory that counts wrong passwords for its   *)
(* own lockout.                                                            *)
(*                                                                         *)
(* How long the door delays an attempt is left out: an attempt waits for   *)
(* any time.  Which of the counters that may go is dropped from a full     *)
(* table is any choice (the code: the least recently used).                *)
(***************************************************************************)
EXTENDS Integers, FiniteSets, Sequences

CONSTANTS
  Login,               \* bound: logins the door answers at once
  Name, Address,
  None,
  PerName,             \* attempts per name and window
  RefuseAddressAfter,  \* attempts per address and window, or None
  Window,
  MaxEntries,          \* counters per table
  Concurrent,          \* checks running at once
  MaxQueue,            \* checks waiting
  MaxNow               \* bound: the clock

ASSUME BoundsAssumption ==
  {PerName, Window, MaxEntries, Concurrent} \subseteq Nat \ {0} /\ {MaxQueue, MaxNow} \subseteq Nat
ASSUME RefuseAssumption == RefuseAddressAfter \in (Nat \ {0}) \cup {None}
ASSUME FinitenessAssumption == IsFiniteSet(Login) /\ IsFiniteSet(Name) /\ IsFiniteSet(Address)

Counter == [attempts : Nat, inFlight : Nat, lastAt : 0..MaxNow]

ASSUME NoneAssumption == None \notin Nat /\ None \notin Counter

VARIABLES
  names, addresses,  \* the two tables: per key its counter, or None
  login,             \* per login: how far it is, and its name and address
  running,           \* the gate: checks running
  queue,             \* the gate: logins that wait for a slot
  now,
  bad, badAt         \* per name: wrong passwords in the directory's window, and the last

gate == <<running, queue>>
directory == <<bad, badAt>>
vars == <<names, addresses, login, gate, now, directory>>

-----------------------------------------------------------------------------
(* A bounded table of counters                                             *)

Live(c) == now - c.lastAt < Window

\* A counter is forgotten a full window after its last attempt.
Forgotten(c) == c # None /\ ~Live(c) /\ c.inFlight = 0

\* get: what the table says of the key.
Get(table, k) == IF Forgotten(table[k]) THEN None ELSE table[k]
Looked(table, k) == [table EXCEPT ![k] = Get(table, k)]

\* Mutant: a name is penalised from its second attempt on.
MutantNamePenalty == 2

\* From how many attempts on a counter is never dropped for another.
NamePenalty == 1

\* Mutant: an address is penalised only beyond its refusal.
MutantAddressPenalty == IF RefuseAddressAfter = None THEN 3 ELSE RefuseAddressAfter + 1

AddressPenalty == IF RefuseAddressAfter = 1 THEN 1 ELSE 2

Droppable(table, penalty) ==
  {k \in DOMAIN table : /\ table[k] # None /\ table[k].inFlight = 0
                        /\ ~(Live(table[k]) /\ table[k].attempts >= penalty)}

Kept(table) == {k \in DOMAIN table : table[k] # None}

NewCounter == [attempts |-> 0, inFlight |-> 0, lastAt |-> now]

Full(table) == Cardinality(Kept(table)) >= MaxEntries

\* get, else create: the tables that hold a counter of the key; none when each
\* counter of a full table penalises.
Made(table, k, penalty) ==
  LET t == Looked(table, k) IN
  CASE t[k] # None -> {t}
    [] t[k] = None /\ ~Full(t) -> {[t EXCEPT ![k] = NewCounter]}
    [] OTHER -> {[t EXCEPT ![k] = NewCounter, ![v] = None] : v \in Droppable(t, penalty)}

Counted(table, k) ==
  [table EXCEPT ![k] = [attempts |-> @.attempts + 1, inFlight |-> @.inFlight + 1, lastAt |-> now]]

\* An attempt is out of flight, and `uncount` are taken back.
Settle(table, k, uncount) ==
  LET c == table[k] IN
  [table EXCEPT ![k] = [attempts |-> c.attempts - uncount, inFlight |-> c.inFlight - 1,
                        lastAt |-> c.lastAt]]

SettleFailed(table, k) ==
  LET c == table[k] IN
  [table EXCEPT ![k] = [attempts |-> c.attempts, inFlight |-> c.inFlight - 1, lastAt |-> now]]

-----------------------------------------------------------------------------
(* The limiter's verdict on a login that starts                            *)

\* A check of the name is in flight, or its budget is used up.
NameLimited(c) == c # None /\ (c.inFlight > 0 \/ c.attempts >= PerName)

AddressLimited(c) ==
  RefuseAddressAfter # None /\ c # None /\ c.attempts >= RefuseAddressAfter

\* No counter can be had for the name, or for the address: then a counter made
\* for the name goes again, and what it replaced is gone.
Busy(n, a) ==
  \/ /\ Made(names, n, NamePenalty) = {}
     /\ names' = Looked(names, n)
     /\ addresses' = IF RefuseAddressAfter = None THEN addresses ELSE Looked(addresses, a)
  \/ \E t \in Made(names, n, NamePenalty) :
       /\ Made(addresses, a, AddressPenalty) = {}
       /\ names' = IF Get(names, n) = None THEN [t EXCEPT ![n] = None] ELSE t
       /\ addresses' = Looked(addresses, a)

\* Refused without a check. A refusal by the name changes nothing.
Refuse(n, a) ==
  /\ ~NameLimited(Get(names, n))
  /\ \/ /\ AddressLimited(Get(addresses, a))
        /\ names' = Looked(names, n)
        /\ UNCHANGED addresses
     \/ ~AddressLimited(Get(addresses, a)) /\ Busy(n, a)
  /\ UNCHANGED <<login, gate, now, directory>>

\* Counted as it starts.
Begin(l, n, a) ==
  /\ login[l].step = "out"
  /\ ~NameLimited(Get(names, n)) /\ ~AddressLimited(Get(addresses, a))
  /\ \E t \in Made(names, n, NamePenalty), u \in Made(addresses, a, AddressPenalty) :
       names' = Counted(t, n) /\ addresses' = Counted(u, a)
  /\ login' = [login EXCEPT ![l] = [step |-> "delayed", name |-> n, address |-> a]]
  /\ UNCHANGED <<gate, now, directory>>

-----------------------------------------------------------------------------
(* What becomes of a counted attempt                                       *)

Failed(l) ==
  /\ names' = SettleFailed(names, login[l].name)
  /\ addresses' = SettleFailed(addresses, login[l].address)

\* drop: no other check of the name is in flight.
Succeeded(l) ==
  /\ names' = [names EXCEPT ![login[l].name] = None]
  /\ addresses' = Settle(addresses, login[l].address, 1)

Abandoned(l) ==
  /\ names' = Settle(names, login[l].name, 1)
  /\ addresses' = Settle(addresses, login[l].address, 1)

Steps ==
  {"out", "delayed", "queued", "checking", "wrong", "right", "failed", "unreachable"}
Out == [step |-> "out", name |-> None, address |-> None]
Moves(l, step) == login' = [login EXCEPT ![l].step = step]

\* The sign-in the browser still had could not be ended: it counts as failed.
EndFails(l) ==
  /\ login[l].step = "delayed"
  /\ Failed(l)
  /\ login' = [login EXCEPT ![l] = Out]
  /\ UNCHANGED <<gate, now, directory>>

\* The delay is over, and the gate lets the check run, or wait.
Enter(l) ==
  /\ login[l].step = "delayed"
  /\ \/ /\ running < Concurrent
        /\ running' = running + 1 /\ UNCHANGED queue
        /\ Moves(l, "checking")
     \/ /\ running >= Concurrent /\ Len(queue) < MaxQueue
        /\ queue' = Append(queue, l) /\ UNCHANGED running
        /\ Moves(l, "queued")
  /\ UNCHANGED <<names, addresses, now, directory>>

\* Mutant: a login the gate refuses keeps its ticket.
MutantTurnedAway(l) == UNCHANGED <<names, addresses>>

TurnedAway(l) == Abandoned(l)

\* Every slot is taken and the queue is full.
GateRefuses(l) ==
  /\ login[l].step = "delayed"
  /\ running >= Concurrent /\ Len(queue) >= MaxQueue
  /\ TurnedAway(l)
  /\ login' = [login EXCEPT ![l] = Out]
  /\ UNCHANGED <<gate, now, directory>>

\* The directory's rule: wrong passwords count until a window has passed since
\* the last, and a right one clears them.
Wrong(l) ==
  /\ bad' = [bad EXCEPT ![login[l].name] = @ + 1]
  /\ badAt' = [badAt EXCEPT ![login[l].name] = now]

Right(l) ==
  /\ bad' = [bad EXCEPT ![login[l].name] = 0]
  /\ badAt' = [badAt EXCEPT ![login[l].name] = 0]

\* The check got as far as it gets. A password that left the process may have
\* been charged although the check failed; one that did not was not.
Check(l) ==
  /\ login[l].step = "checking"
  /\ \/ Moves(l, "wrong") /\ Wrong(l)
     \/ Moves(l, "right") /\ Right(l)
     \/ Moves(l, "failed") /\ (Wrong(l) \/ Right(l) \/ UNCHANGED directory)
     \/ Moves(l, "unreachable") /\ UNCHANGED directory
  /\ UNCHANGED <<names, addresses, gate, now>>

\* Mutant: the slot that is handed on is counted as free.
MutantHandedOn ==
  running' = running - 1 /\ queue' = IF queue # <<>> THEN Tail(queue) ELSE queue

\* release: the slot goes to whoever waits longest.
Release ==
  IF queue # <<>> THEN queue' = Tail(queue) /\ UNCHANGED running
  ELSE running' = running - 1 /\ UNCHANGED queue

\* The door hears of it: the slot is released, and the attempt settled.
Answer(l) ==
  /\ \/ login[l].step \in {"wrong", "failed"} /\ Failed(l)
     \/ login[l].step = "right" /\ Succeeded(l)
     \/ login[l].step = "unreachable" /\ Abandoned(l)
  /\ Release
  /\ login' = [m \in Login |->
       IF m = l THEN Out
       ELSE IF queue # queue' /\ m = Head(queue) THEN [login[m] EXCEPT !.step = "checking"]
       ELSE login[m]]
  /\ UNCHANGED <<now, directory>>

Tick ==
  /\ now < MaxNow
  /\ now' = now + 1
  /\ bad' = [n \in Name |-> IF now' - badAt[n] >= Window THEN 0 ELSE bad[n]]
  /\ badAt' = [n \in Name |-> IF now' - badAt[n] >= Window THEN 0 ELSE badAt[n]]
  /\ UNCHANGED <<names, addresses, login, gate>>

-----------------------------------------------------------------------------

Init ==
  /\ names = [n \in Name |-> None]
  /\ addresses = [a \in Address |-> None]
  /\ login = [l \in Login |-> Out]
  /\ running = 0 /\ queue = <<>> /\ now = 0
  /\ bad = [n \in Name |-> 0] /\ badAt = [n \in Name |-> 0]

LoginStep(l) == EndFails(l) \/ Enter(l) \/ GateRefuses(l) \/ Check(l) \/ Answer(l)

Next ==
  \/ Tick
  \/ \E n \in Name, a \in Address : Refuse(n, a) \/ \E l \in Login : Begin(l, n, a)
  \/ \E l \in Login : LoginStep(l)

Spec == Init /\ [][Next]_vars

-----------------------------------------------------------------------------

OfName(n) == {l \in Login : login[l].step # "out" /\ login[l].name = n}
OfAddress(a) == {l \in Login : login[l].step # "out" /\ login[l].address = a}
Flying(c) == IF c = None THEN 0 ELSE c.inFlight
HasSlot(l) == login[l].step \in {"checking", "wrong", "right", "failed", "unreachable"}

TypeOK ==
  /\ names \in [Name -> Counter \cup {None}]
  /\ addresses \in [Address -> Counter \cup {None}]
  /\ login \in [Login -> [step : Steps, name : Name \cup {None}, address : Address \cup {None}]]
  /\ \A l \in Login :
       IF login[l].step = "out" THEN login[l] = Out
       ELSE login[l].name \in Name /\ login[l].address \in Address
  /\ running \in Nat /\ queue \in Seq(Login) /\ now \in 0..MaxNow
  /\ bad \in [Name -> Nat] /\ badAt \in [Name -> 0..MaxNow]

\* The budget is what it says: within the directory's own window no account is
\* charged more wrong passwords than a name may attempt, although counters are
\* forgotten, dropped, cleared and taken back (begin, settle, evictOne).
BudgetReachesTheDirectory == \A n \in Name : bad[n] <= PerName

\* Every attempt in flight is counted, once, under its name and its address: no
\* check outlives its counter, and no counter waits for a check that is over
\* (begin, failed, succeeded, abandoned).
TicketsAreCounted ==
  /\ \A n \in Name : Cardinality(OfName(n)) = Flying(names[n])
  /\ \A a \in Address : Cardinality(OfAddress(a)) = Flying(addresses[a])
  /\ \A n \in Name : \A l, m \in OfName(n) : l = m

\* No table outgrows its bound (boundedCounters.create).
TablesAreBounded ==
  Cardinality(Kept(names)) <= MaxEntries /\ Cardinality(Kept(addresses)) <= MaxEntries

\* No more checks run than there are slots, none is lost, and nobody waits for
\* one that is free (checkGate.run, release).
SlotsAreUsed ==
  /\ running = Cardinality({l \in Login : HasSlot(l)}) /\ running <= Concurrent
  /\ queue # <<>> => running = Concurrent
  /\ Len(queue) <= MaxQueue

\* The attempts of a counter that were answered, and not taken back.
Failures(c) == IF c = None THEN 0 ELSE c.attempts - c.inFlight

\* An address that "holds that many failed attempts inside the window" is refused
\* "until a full window passes since its last counted attempt" (limits.ts:28-33),
\* whoever signs in meanwhile, from there or from elsewhere: its failures are
\* neither dropped for another's counter nor taken back by a right password, and
\* its window is not cut short. An attempt in flight counts towards a refusal as
\* well, but only until it is answered.
RefusedAddressStays ==
  [][\A a \in Address :
       LET c == addresses[a] IN
       RefuseAddressAfter # None /\ Failures(c) >= RefuseAddressAfter /\ Live(c) =>
         Failures(addresses'[a]) >= Failures(c) /\ addresses'[a].lastAt >= c.lastAt]_vars
=============================================================================
