-------------------------------- MODULE Outbox --------------------------------
(***************************************************************************)
(* The outbox of a batching sink (adapters/observability/outbox.ts): the   *)
(* size trigger, the timer and every drain queue deliveries on one promise *)
(* chain, one delivery is in flight at a time, and a drain ends although   *)
(* items keep arriving.                                                    *)
(*                                                                         *)
(* The code counts what was ever accepted, taken and settled.  Deliveries  *)
(* take the oldest items, so only differences of these counts are read:    *)
(* `waiting` = accepted - taken, `inFlight` = taken - settled, and a       *)
(* drain's `ahead` = target - settled.                                     *)
(***************************************************************************)
EXTENDS Integers

CONSTANTS
  Drainer,      \* callers of drain (a sink's flush, and so every shutdown)
  MaxItems,     \* the size trigger
  PerDelivery,  \* maxItemsPerDelivery
  ByteLimits,   \* a receiver limits the bytes of a delivery, or a sink those waiting
  Timed,        \* flushIntervalMs > 0
  MaxWaiting    \* bound: items that wait at once

ASSUME CapsAssumption == PerDelivery \in Nat \ {0} /\ MaxItems \in Int /\ MaxWaiting \in Nat
ASSUME FlagsAssumption == ByteLimits \in BOOLEAN /\ Timed \in BOOLEAN

VARIABLES
  waiting,         \* items accepted and not taken
  inFlight,        \* items of the delivery in flight; 0: none
  leftBehind,      \* that delivery left items behind
  deliveryQueued,  \* a delivery is on the chain and has not started
  timer,           \* the timer is armed
  stopped,
  pc,              \* per drainer: "idle", "first", "between", "second", "done"
  ahead,           \* per drainer: items up to its target that have not settled
  awaits,          \* per drainer: the link of the chain it awaits, if any
  moved            \* per drainer: something settled since it began to wait

drains == <<pc, ahead, awaits, moved>>
vars == <<waiting, inFlight, leftBehind, deliveryQueued, timer, stopped, drains>>

Least(m, n) == IF m < n THEN m ELSE n

-----------------------------------------------------------------------------
(* Triggers                                                                *)

\* The byte trigger depends on the items' sizes.
AtSizeTrigger(n) == \/ n >= MaxItems
                    \/ ByteLimits

\* An item below the trigger arms the timer, unless the outbox is stopped.
ArmTimer == timer' = (timer \/ (Timed /\ ~stopped))

\* add: a delivery is queued, or the timer armed.
Add ==
  /\ waiting < MaxWaiting
  /\ waiting' = waiting + 1
  /\ \/ AtSizeTrigger(waiting') /\ deliveryQueued' = TRUE /\ UNCHANGED timer
     \/ waiting' < MaxItems /\ ArmTimer /\ UNCHANGED deliveryQueued
  /\ UNCHANGED <<inFlight, leftBehind, stopped, drains>>

OnTimer ==
  /\ timer
  /\ timer' = FALSE
  /\ deliveryQueued' = TRUE
  /\ UNCHANGED <<waiting, inFlight, leftBehind, stopped, drains>>

\* A stopped sink takes no more events; its outbox would.
Stop ==
  /\ stopped' = TRUE
  /\ timer' = FALSE
  /\ UNCHANGED <<waiting, inFlight, leftBehind, deliveryQueued, drains>>

-----------------------------------------------------------------------------
(* Deliveries                                                              *)

\* countForOneDelivery: at least one item, and as many as fit.
CountForOneDelivery ==
  LET most == Least(waiting, PerDelivery)
  IN  IF ByteLimits /\ most > 0 THEN 1..most ELSE {most}

\* The link in flight, if there is one.
Flight(n) == IF n > 0 THEN "flight" ELSE "none"

\* deliverNext, as far as the call of deliver. When nothing waits, it is over at
\* once, and so is the link.
DeliveryStarts ==
  /\ deliveryQueued /\ inFlight = 0
  /\ \E n \in CountForOneDelivery :
       /\ waiting' = waiting - n
       /\ inFlight' = n
       /\ leftBehind' = (n < waiting)
       /\ awaits' = [d \in Drainer |-> IF awaits[d] = "queued" THEN Flight(n) ELSE awaits[d]]
  /\ deliveryQueued' = FALSE
  /\ UNCHANGED <<timer, stopped, pc, ahead, moved>>

\* Mutant: what a limit left behind waits for the next trigger.
MutantRequeued == deliveryQueued

\* What a limit left behind goes next.
Requeued == deliveryQueued \/ leftBehind

\* The delivery is over, shipped or dropped and reported: its items settle, those
\* who await it go on.
DeliverySettles ==
  /\ inFlight > 0
  /\ inFlight' = 0
  /\ ahead' = [d \in Drainer |-> ahead[d] - Least(ahead[d], inFlight)]
  /\ moved' = [d \in Drainer |-> TRUE]
  /\ awaits' = [d \in Drainer |-> IF awaits[d] = "flight" THEN "none" ELSE awaits[d]]
  /\ deliveryQueued' = Requeued
  /\ leftBehind' = FALSE
  /\ UNCHANGED <<waiting, timer, stopped, pc>>

-----------------------------------------------------------------------------
(* drain: settle what was accepted, then sweep once what came meanwhile     *)

\* Mutant: a pass is over when everything it is for has been taken.
MutantReached(a) == a <= inFlight

Reached(a) == a = 0

\* A round of settleThrough, `a` items short of its target: it awaits the end of
\* the chain, which takes what still waits.
Round(d, pass, a) ==
  /\ ahead' = [ahead EXCEPT ![d] = a]
  /\ moved' = [moved EXCEPT ![d] = FALSE]
  /\ \/ /\ Reached(a)
        /\ pc' = [pc EXCEPT ![d] = IF pass = "first" THEN "between" ELSE "done"]
        /\ awaits' = [awaits EXCEPT ![d] = "none"]
        /\ UNCHANGED deliveryQueued
     \/ /\ ~Reached(a)
        /\ pc' = [pc EXCEPT ![d] = pass]
        /\ deliveryQueued' = (deliveryQueued \/ a > inFlight)
        /\ awaits' = [awaits EXCEPT ![d] = IF deliveryQueued' THEN "queued" ELSE Flight(inFlight)]
  /\ UNCHANGED <<waiting, inFlight, leftBehind, timer, stopped>>

Drain(d) == pc[d] \in {"idle", "done"} /\ Round(d, "first", inFlight + waiting)

\* The target of the sweep is what has been accepted when it starts.
Sweep(d) == pc[d] = "between" /\ Round(d, "second", inFlight + waiting)

\* Mutant: the target follows what is accepted.
MutantTarget(d) == inFlight + waiting

Target(d) == ahead[d]

\* A round that settled nothing would end its pass.
Wake(d) ==
  /\ pc[d] \in {"first", "second"} /\ awaits[d] = "none"
  /\ IF moved[d]
     THEN Round(d, pc[d], Target(d))
     ELSE /\ pc' = [pc EXCEPT ![d] = IF @ = "first" THEN "between" ELSE "done"]
          /\ UNCHANGED <<waiting, inFlight, leftBehind, deliveryQueued, timer, stopped,
                         ahead, awaits, moved>>

-----------------------------------------------------------------------------

Init ==
  /\ waiting = 0 /\ inFlight = 0
  /\ leftBehind = FALSE /\ deliveryQueued = FALSE /\ timer = FALSE /\ stopped = FALSE
  /\ pc = [d \in Drainer |-> "idle"]
  /\ ahead = [d \in Drainer |-> 0]
  /\ awaits = [d \in Drainer |-> "none"]
  /\ moved = [d \in Drainer |-> FALSE]

DrainStep(d) == Sweep(d) \/ Wake(d)

Next ==
  \/ Add \/ OnTimer \/ Stop \/ DeliveryStarts \/ DeliverySettles
  \/ \E d \in Drainer : Drain(d) \/ DrainStep(d)

Spec == Init /\ [][Next]_vars

\* Promises that are settled run what awaits them, and a delivery settles: one
\* that never does holds the queue. Items may keep arriving for ever.
FairSpec ==
  /\ Spec
  /\ WF_vars(DeliveryStarts) /\ WF_vars(DeliverySettles) /\ WF_vars(OnTimer)
  /\ \A d \in Drainer : WF_vars(DrainStep(d))

-----------------------------------------------------------------------------

TypeOK ==
  /\ waiting \in 0..MaxWaiting /\ inFlight \in 0..MaxWaiting
  /\ leftBehind \in BOOLEAN /\ deliveryQueued \in BOOLEAN
  /\ timer \in BOOLEAN /\ stopped \in BOOLEAN
  /\ pc \in [Drainer -> {"idle", "first", "between", "second", "done"}]
  /\ ahead \in [Drainer -> 0..(2 * MaxWaiting)]
  /\ awaits \in [Drainer -> {"none", "queued", "flight"}]
  /\ moved \in [Drainer -> BOOLEAN]

\* Once a pass of drain is over, everything it was for has settled: it never
\* ends because a round settled nothing.
DrainKeepsItsWord ==
  \A d \in Drainer : pc[d] \in {"between", "done"} => ahead[d] = 0

\* What waits will leave without another event: a delivery is queued, or will be
\* when the timer fires or the delivery in flight settles. A stopped outbox, or
\* one without a timer, keeps what no trigger has reached, until a drain.
NothingStranded ==
  waiting > 0 =>
    \/ deliveryQueued \/ timer
    \/ inFlight > 0 /\ leftBehind
    \/ waiting < MaxItems /\ (stopped \/ ~Timed)

\* A drain ends, however steadily items arrive.
EveryDrainEnds ==
  \A d \in Drainer : pc[d] \in {"first", "between", "second"} ~> pc[d] = "done"
=============================================================================
