----------------------------- MODULE OutboxProofs ------------------------------
(***************************************************************************)
(* Proofs about Outbox, for any drains, triggers and limits.               *)
(***************************************************************************)
EXTENDS Outbox, TLAPS

\* A pass that goes on awaits a link of the chain, or has seen something settle;
\* a link it awaits is there, and has something to settle unless it has seen it.
PassAt(d) ==
  /\ ahead[d] <= inFlight + waiting
  /\ pc[d] \notin {"first", "second"} => ahead[d] = 0 /\ awaits[d] = "none"
  /\ pc[d] \in {"first", "second"} /\ awaits[d] = "none" => moved[d]
  /\ awaits[d] = "flight" => inFlight > 0
  /\ awaits[d] = "queued" => /\ deliveryQueued
                             /\ moved[d] \/ ahead[d] > 0

\* What the size trigger has reached is taken without the timer.
DueLeaves ==
  waiting >= MaxItems /\ waiting > 0 => deliveryQueued \/ (inFlight > 0 /\ leftBehind)

IInv == TypeOK /\ NothingStranded /\ DueLeaves /\ \A d \in Drainer : PassAt(d)

LEMMA InitIInv == Init => IInv
  <1> SUFFICES ASSUME Init PROVE IInv
    OBVIOUS
  <1>1. 0 \in 0..MaxWaiting /\ 0 \in 0..(2 * MaxWaiting)
    BY CapsAssumption
  <1>2. TypeOK
    BY <1>1 DEF Init, TypeOK
  <1>3. NothingStranded /\ DueLeaves
    BY DEF Init, NothingStranded, DueLeaves
  <1>4. \A d \in Drainer : PassAt(d)
    <2>1. \A d \in Drainer : pc[d] = "idle" /\ ahead[d] = 0 /\ awaits[d] = "none"
      BY DEF Init
    <2>2. waiting = 0 /\ inFlight = 0
      BY DEF Init
    <2>3. 0 <= 0 + 0
      OBVIOUS
    <2>4. \A d \in Drainer : ahead[d] <= inFlight + waiting
      BY <2>1, <2>2, <2>3, Zenon
    <2> QED BY <2>1, <2>4, Zenon DEF PassAt
  <1> QED BY <1>2, <1>3, <1>4 DEF IInv

LEMMA AddKeeps == IInv /\ Add => IInv'
  <1> SUFFICES ASSUME IInv, Add PROVE IInv'
    OBVIOUS
  <1>1. /\ waiting' = waiting + 1 /\ waiting < MaxWaiting
        /\ UNCHANGED <<inFlight, leftBehind, stopped, drains>>
        /\ \/ deliveryQueued' = TRUE /\ timer' = timer
           \/ /\ waiting' < MaxItems /\ timer' = (timer \/ (Timed /\ ~stopped))
              /\ deliveryQueued' = deliveryQueued
    BY DEF Add, ArmTimer
  <1>2. TypeOK'
    <2>1. waiting' \in 0..MaxWaiting
      BY <1>1, CapsAssumption DEF IInv, TypeOK
    <2>2. deliveryQueued' \in BOOLEAN /\ timer' \in BOOLEAN
      BY <1>1, Zenon DEF IInv, TypeOK
    <2> QED BY <1>1, <2>1, <2>2 DEF IInv, TypeOK, drains
  <1>3. NothingStranded' /\ DueLeaves'
    <2>1. CASE deliveryQueued'
      BY <2>1, Zenon DEF NothingStranded, DueLeaves
    <2>2. CASE ~deliveryQueued'
      <3>1. waiting' < MaxItems /\ timer' = (timer \/ (Timed /\ ~stopped))
        BY <1>1, <2>2, Zenon
      <3>2. ~(waiting' >= MaxItems)
        BY <1>1, <3>1, CapsAssumption DEF IInv, TypeOK
      <3>3. timer' \/ ~Timed \/ stopped'
        BY <1>1, <3>1, Zenon
      <3> QED BY <3>1, <3>2, <3>3, Zenon DEF NothingStranded, DueLeaves
    <2> QED BY <2>1, <2>2
  <1>4. ASSUME NEW d \in Drainer PROVE PassAt(d)'
    BY <1>1 DEF IInv, TypeOK, PassAt, drains
  <1> QED BY <1>2, <1>3, <1>4 DEF IInv

LEMMA TriggerKeeps == IInv /\ (OnTimer \/ Stop) => IInv'
  <1> SUFFICES ASSUME IInv, OnTimer \/ Stop PROVE IInv'
    OBVIOUS
  <1>1. TypeOK'
    BY DEF OnTimer, Stop, IInv, TypeOK, drains
  <1>2. NothingStranded' /\ DueLeaves'
    BY CapsAssumption DEF OnTimer, Stop, IInv, TypeOK, NothingStranded, DueLeaves
  <1>3. ASSUME NEW d \in Drainer PROVE PassAt(d)'
    BY DEF OnTimer, Stop, IInv, PassAt, drains
  <1> QED BY <1>1, <1>2, <1>3 DEF IInv

\* A delivery takes what waits, at least one item of it, and no more than waits.
LEMMA CountsOne ==
  ASSUME IInv, NEW n \in CountForOneDelivery
  PROVE  n \in 0..waiting /\ (waiting > 0 => n > 0)
  BY CapsAssumption DEF IInv, TypeOK, CountForOneDelivery, Least

LEMMA StartKeeps == IInv /\ DeliveryStarts => IInv'
  <1> SUFFICES ASSUME IInv, DeliveryStarts PROVE IInv'
    OBVIOUS
  <1>1. PICK n \in CountForOneDelivery :
          /\ waiting' = waiting - n /\ inFlight' = n /\ leftBehind' = (n < waiting)
          /\ awaits' = [d \in Drainer |-> IF awaits[d] = "queued" THEN Flight(n) ELSE awaits[d]]
    BY DEF DeliveryStarts
  <1>2. /\ inFlight = 0 /\ deliveryQueued' = FALSE
        /\ UNCHANGED <<timer, stopped, pc, ahead, moved>>
    BY DEF DeliveryStarts
  <1>3. n \in 0..waiting /\ (waiting > 0 => n > 0)
    BY CountsOne
  <1>4. \A d \in Drainer : /\ awaits[d] # "queued" => awaits'[d] = awaits[d]
                           /\ awaits[d] = "queued" => awaits'[d] = IF n = 0 THEN "none" ELSE "flight"
    BY <1>1, <1>3 DEF Flight
  <1>5. TypeOK'
    <2>1. awaits' \in [Drainer -> {"none", "queued", "flight"}]
      BY <1>1 DEF IInv, TypeOK, Flight
    <2>2. waiting' \in 0..MaxWaiting /\ inFlight' \in 0..MaxWaiting
      BY <1>1, <1>3, CapsAssumption DEF IInv, TypeOK
    <2>3. leftBehind' \in BOOLEAN /\ deliveryQueued' \in BOOLEAN
      <3>1. (n < waiting) \in BOOLEAN
        OBVIOUS
      <3> QED BY <1>1, <1>2, <3>1, Zenon
    <2> QED BY <1>2, <2>1, <2>2, <2>3 DEF IInv, TypeOK
  <1>6. NothingStranded' /\ DueLeaves'
    <2>1. waiting' > 0 => inFlight' > 0 /\ n < waiting
      BY <1>1, <1>3 DEF IInv, TypeOK
    <2>2. n < waiting => leftBehind'
      BY <1>1, Zenon
    <2> QED BY <2>1, <2>2, Zenon DEF NothingStranded, DueLeaves
  <1>7. ASSUME NEW d \in Drainer PROVE PassAt(d)'
    BY <1>1, <1>2, <1>3, <1>4 DEF IInv, TypeOK, PassAt
  <1> QED BY <1>5, <1>6, <1>7 DEF IInv

LEMMA SettleKeeps == IInv /\ DeliverySettles => IInv'
  <1> SUFFICES ASSUME IInv, DeliverySettles PROVE IInv'
    OBVIOUS
  <1>1. /\ inFlight > 0 /\ inFlight' = 0 /\ leftBehind' = FALSE
        /\ deliveryQueued' = (deliveryQueued \/ leftBehind)
        /\ UNCHANGED <<waiting, timer, stopped, pc>>
    BY DEF DeliverySettles, Requeued
  <1>2. \A d \in Drainer :
          /\ ahead'[d] = ahead[d] - Least(ahead[d], inFlight) /\ moved'[d]
          /\ awaits'[d] = IF awaits[d] = "flight" THEN "none" ELSE awaits[d]
    BY DEF DeliverySettles
  <1>3. TypeOK'
    <2>1. /\ awaits' \in [Drainer -> {"none", "queued", "flight"}]
          /\ moved' \in [Drainer -> BOOLEAN]
      BY DEF DeliverySettles, IInv, TypeOK
    <2>2. ahead' \in [Drainer -> 0..(2 * MaxWaiting)]
      BY CapsAssumption DEF DeliverySettles, IInv, TypeOK, Least
    <2>3. leftBehind' \in BOOLEAN /\ deliveryQueued' \in BOOLEAN
      BY <1>1 DEF IInv, TypeOK
    <2>4. inFlight' \in 0..MaxWaiting
      BY <1>1, CapsAssumption
    <2> QED BY <1>1, <2>1, <2>2, <2>3, <2>4 DEF IInv, TypeOK
  <1>4. NothingStranded' /\ DueLeaves'
    BY <1>1 DEF IInv, TypeOK, NothingStranded, DueLeaves
  <1>5. ASSUME NEW d \in Drainer PROVE PassAt(d)'
    BY <1>1, <1>2, CapsAssumption DEF IInv, TypeOK, PassAt, Least
  <1> QED BY <1>3, <1>4, <1>5 DEF IInv

\* Every round of a pass keeps the invariant, whatever its target is ahead of.
LEMMA RoundKeeps ==
  ASSUME IInv, NEW d \in Drainer, NEW pass \in {"first", "second"},
         NEW a \in 0..(inFlight + waiting), Round(d, pass, a)
  PROVE  IInv'
  <1>1. UNCHANGED <<waiting, inFlight, leftBehind, timer, stopped>>
    BY DEF Round
  <1>2. /\ ahead' = [ahead EXCEPT ![d] = a] /\ moved' = [moved EXCEPT ![d] = FALSE]
        /\ \/ /\ a = 0 /\ UNCHANGED deliveryQueued
              /\ pc' = [pc EXCEPT ![d] = IF pass = "first" THEN "between" ELSE "done"]
              /\ awaits' = [awaits EXCEPT ![d] = "none"]
           \/ /\ a > 0 /\ pc' = [pc EXCEPT ![d] = pass]
              /\ deliveryQueued' = (deliveryQueued \/ a > inFlight)
              /\ \/ deliveryQueued' /\ awaits' = [awaits EXCEPT ![d] = "queued"]
                 \/ inFlight > 0 /\ awaits' = [awaits EXCEPT ![d] = "flight"]
    <2>1. CASE a = 0
      BY <2>1 DEF Round, Reached
    <2>2. CASE a > 0
      <3>1. ~Reached(a)
        BY <2>2 DEF Reached
      <3>2. /\ ahead' = [ahead EXCEPT ![d] = a] /\ moved' = [moved EXCEPT ![d] = FALSE]
            /\ pc' = [pc EXCEPT ![d] = pass] /\ deliveryQueued' = (deliveryQueued \/ a > inFlight)
            /\ awaits' = [awaits EXCEPT ![d] = IF deliveryQueued' THEN "queued" ELSE Flight(inFlight)]
        BY <3>1 DEF Round
      <3>3. a > inFlight \/ inFlight > 0
        BY <2>2 DEF IInv, TypeOK
      <3>4. CASE deliveryQueued'
        BY <2>2, <3>2, <3>4
      <3>5. CASE ~deliveryQueued'
        <4>1. inFlight > 0 /\ Flight(inFlight) = "flight"
          BY <3>2, <3>3, <3>5, Zenon DEF Flight
        <4> QED BY <2>2, <3>2, <3>5, <4>1
      <3> QED BY <3>4, <3>5
    <2> QED BY <2>1, <2>2 DEF IInv, TypeOK
  <1>3. a \in 0..(2 * MaxWaiting)
    BY CapsAssumption DEF IInv, TypeOK
  <1>4. TypeOK'
    BY <1>1, <1>2, <1>3 DEF IInv, TypeOK
  <1>5. NothingStranded' /\ DueLeaves'
    BY <1>1, <1>2 DEF IInv, TypeOK, NothingStranded, DueLeaves
  <1>6. ASSUME NEW e \in Drainer PROVE PassAt(e)'
    <2>1. CASE e = d
      BY <1>1, <1>2, <2>1 DEF IInv, TypeOK, PassAt
    <2>2. CASE e # d
      BY <1>1, <1>2, <2>2 DEF IInv, TypeOK, PassAt
    <2> QED BY <2>1, <2>2
  <1> QED BY <1>4, <1>5, <1>6 DEF IInv

LEMMA DrainKeeps ==
  ASSUME IInv, NEW d \in Drainer, Drain(d) \/ DrainStep(d)
  PROVE  IInv'
  <1>1. inFlight + waiting \in 0..(inFlight + waiting)
    BY DEF IInv, TypeOK
  <1>2. CASE Drain(d) \/ Sweep(d)
    BY <1>1, <1>2, RoundKeeps DEF Drain, Sweep
  <1>3. CASE Wake(d)
    <2>1. pc[d] \in {"first", "second"} /\ moved[d]
      BY <1>3 DEF Wake, IInv, PassAt
    <2>2. ahead[d] \in 0..(inFlight + waiting)
      BY DEF IInv, TypeOK, PassAt
    <2> QED BY <1>3, <2>1, <2>2, RoundKeeps DEF Wake, Target
  <1> QED BY <1>2, <1>3 DEF DrainStep

LEMMA NextIInv == IInv /\ [Next]_vars => IInv'
  <1> SUFFICES ASSUME IInv, [Next]_vars PROVE IInv'
    OBVIOUS
  <1>1. CASE UNCHANGED vars
    BY <1>1 DEF vars, drains, IInv, TypeOK, NothingStranded, DueLeaves, PassAt
  <1> QED BY <1>1, AddKeeps, TriggerKeeps, StartKeeps, SettleKeeps, DrainKeeps DEF Next

LEMMA AlwaysIInv == Spec => []IInv
  BY InitIInv, NextIInv, PTL DEF Spec

\* Every variable of the outbox keeps its type: a delivery never takes more than
\* waits (takeOldest, countForOneDelivery).
THEOREM TypeCorrect == Spec => []TypeOK
  <1>1. IInv => TypeOK
    BY DEF IInv
  <1> QED BY <1>1, AlwaysIInv, PTL

\* A drain that ends has settled what it was for (drain, settleThrough).
THEOREM DrainSettles == Spec => []DrainKeepsItsWord
  <1>1. IInv => DrainKeepsItsWord
    BY DEF IInv, PassAt, DrainKeepsItsWord
  <1> QED BY <1>1, AlwaysIInv, PTL

\* What waits leaves without another event (add, deliverNext).
THEOREM WhatWaitsLeaves == Spec => []NothingStranded
  <1>1. IInv => NothingStranded
    BY DEF IInv
  <1> QED BY <1>1, AlwaysIInv, PTL
=============================================================================
