---------------------------- MODULE McpPoolProofs -----------------------------
(***************************************************************************)
(* Proofs about McpPool, for any clients, keys, principals, callers and    *)
(* enders, and any budgets.                                                *)
(***************************************************************************)
EXTENDS McpPool, FiniteSetTheorems, TLAPS

-----------------------------------------------------------------------------
(* The inductive invariant, of a state in the middle of a step: `ops`,     *)
(* `hold`, `st`, ... stand for the variables as far as the step has come.  *)

States == [Client -> {"opening", "open", "ending", "gone"}]
Currents == [Key -> Client \cup {None}]
Deferrals == [Client -> {"no", "weak", "strong"}]

\* A client of the open set has a key, and is its key's current one until it
\* takes no more leases; a current client is in the open set and takes leases.
KeysAt(st, cur, kf, cl) ==
  /\ \A c \in Client :
       /\ st[c] \in {"opening", "open"} =>
            kf[c] \in Key /\ (c \notin cl => cur[kf[c]] = c)
       /\ st[c] = "gone" => c \notin cl
  /\ \A k \in Key : cur[k] # None =>
       /\ cur[k] \in Client /\ st[cur[k]] \in {"opening", "open"}
       /\ cur[k] \notin cl /\ kf[cur[k]] = k

\* What InUseStaysOpen says.
UseAt(ops, hold, st, rd) ==
  \A o \in Caller, c \in Client :
    /\ c \in ops[o].leased \/ hold[o] = c => st[c] = "open" /\ rd[c] = "resolved"
    /\ ops[o].phase = "waiting" /\ ops[o].on = c =>
         \/ st[c] \in {"opening", "open"}
         \/ st[c] = "gone" /\ rd[c] \in {"failed", "timeout"}

\* How far an open is, what it answered, and what its client can be meanwhile.
OpensAt(st, cl, rd, wk) ==
  \A c \in Client :
    /\ st[c] = "opening" <=> wk[c] \in {"connecting", "late", "failed"}
    /\ wk[c] = "connecting" => rd[c] \in {"pending", "timeout"}
    /\ wk[c] \in {"late", "failed"} => rd[c] \in {"failed", "timeout"}
    /\ st[c] = "open" /\ c \notin cl => rd[c] = "resolved"

\* An operation names a client while it waits for it or works with it.
OpsAt(ops) ==
  \A o \in Caller :
    /\ ops[o].phase \in {"waiting", "leased"} => ops[o].on \in Client
    /\ ops[o].phase = "leased" => ops[o].on \in ops[o].leased
    /\ ops[o].phase # "out" => ops[o].key \in Key

At(ops, hold, st, cur, kf, cl, rd, wk) ==
  KeysAt(st, cur, kf, cl) /\ UseAt(ops, hold, st, rd) /\ OpensAt(st, cl, rd, wk) /\ OpsAt(ops)

Now == At(op, held, state, current, keyOf, closedToNew, ready, work)

IInv == TypeOK /\ Now /\ ClosedHoldsNothing

-----------------------------------------------------------------------------
(* Ending clients nobody uses                                              *)

Ended(st, E) == [c \in Client |-> IF c \in E THEN "ending" ELSE st[c]]
Cleared(cur, E) == [k \in Key |-> IF cur[k] \in E THEN None ELSE cur[k]]

\* Ending open clients that nobody uses keeps the invariant.
LEMMA EndSet ==
  ASSUME NEW ops, NEW hold, NEW st \in States, NEW cur \in Currents,
         NEW kf, NEW cl, NEW rd, NEW wk,
         At(ops, hold, st, cur, kf, cl, rd, wk),
         NEW E \in SUBSET Client,
         \A c \in E : st[c] = "open" /\ ~Uses(c, ops, hold)
  PROVE  At(ops, hold, Ended(st, E), Cleared(cur, E), kf, cl, rd, wk)
  <1> DEFINE st2 == Ended(st, E)
             cur2 == Cleared(cur, E)
  <1>1. \A c \in Client : st2[c] = IF c \in E THEN "ending" ELSE st[c]
    BY DEF Ended
  <1>2. \A k \in Key : cur2[k] = IF cur[k] \in E THEN None ELSE cur[k]
    BY DEF Cleared
  <1>3. None \notin Client
    BY NamesAssumption
  <1> HIDE DEF st2, cur2
  <1>4. KeysAt(st2, cur2, kf, cl)
    BY <1>1, <1>2, <1>3 DEF At, KeysAt
  <1>5. UseAt(ops, hold, st2, rd)
    <2> SUFFICES ASSUME NEW o \in Caller, NEW c \in Client
                 PROVE  /\ c \in ops[o].leased \/ hold[o] = c =>
                             st2[c] = "open" /\ rd[c] = "resolved"
                        /\ ops[o].phase = "waiting" /\ ops[o].on = c =>
                             \/ st2[c] \in {"opening", "open"}
                             \/ st2[c] = "gone" /\ rd[c] \in {"failed", "timeout"}
      BY DEF UseAt
    <2>1. c \in ops[o].leased \/ hold[o] = c \/ (ops[o].phase = "waiting" /\ ops[o].on = c)
            => c \notin E
      BY DEF Uses, Leases, Reserves
    <2> QED BY <2>1, <1>1 DEF At, UseAt
  <1>6. OpensAt(st2, cl, rd, wk)
    BY <1>1 DEF At, OpensAt
  <1> QED BY <1>4, <1>5, <1>6 DEF At, st2, cur2

\* retryDeferred keeps it, whatever state the step before has come to.
LEMMA EndDeferredKeeps ==
  ASSUME NEW ops, NEW hold, NEW st \in States, NEW cur \in Currents, NEW df \in Deferrals,
         NEW kf, NEW cl, NEW rd, NEW wk,
         At(ops, hold, st, cur, kf, cl, rd, wk),
         EndDeferred(ops, hold, st, cur, df)
  PROVE  /\ At(ops, hold, state', current', kf, cl, rd, wk)
         /\ state' \in States /\ current' \in Currents /\ deferred' \in Deferrals
  <1>1. PICK E \in SUBSET Endable(ops, hold, st, df) :
               /\ state' = [c \in Client |-> IF c \in E THEN "ending" ELSE st[c]]
               /\ deferred' = [c \in Client |-> IF c \in E THEN "no" ELSE df[c]]
               /\ current' = [k \in Key |-> IF cur[k] \in E THEN None ELSE cur[k]]
    BY DEF EndDeferred
  <1>2. E \in SUBSET Client /\ \A c \in E : st[c] = "open" /\ ~Uses(c, ops, hold)
    BY <1>1 DEF Endable
  <1>3. state' = Ended(st, E) /\ current' = Cleared(cur, E)
    BY <1>1 DEF Ended, Cleared
  <1>4. At(ops, hold, state', current', kf, cl, rd, wk)
    BY <1>2, <1>3, EndSet
  <1>5. state' \in States /\ current' \in Currents /\ deferred' \in Deferrals
    BY <1>1 DEF States, Currents, Deferrals
  <1> QED BY <1>4, <1>5

\* What the steps have in common: the types, and the client or caller they are of.
LEMMA Types ==
  ASSUME TypeOK
  PROVE  state \in States /\ current \in Currents /\ deferred \in Deferrals
  BY DEF TypeOK, States, Currents, Deferrals

\* A deferral is a reason to end.
LEMMA DeferType ==
  ASSUME NEW df \in Deferrals, NEW C, NEW why \in {"no", "weak", "strong"}
  PROVE  Defer(df, C, why) \in Deferrals
  BY DEF Defer, Deferrals

-----------------------------------------------------------------------------
(* The parts steps are made of                                             *)

\* The sweep keeps the invariant; `cur` and `cl` may already say that some
\* clients take no more leases.
LEMMA InteractKeeps ==
  ASSUME TypeOK, NEW cur \in Currents, NEW cl,
         At(op, held, state, cur, keyOf, cl, ready, work),
         NEW revoked \in SUBSET Holders, Interact(revoked, cur)
  PROVE  /\ At(op, held', state', current', keyOf, cl, ready, work)
         /\ state' \in States /\ current' \in Currents /\ deferred' \in Deferrals
         /\ held' \in [Caller -> Client \cup {None}]
         /\ Holders = {} => held' = held
  <1>1. \A o \in Caller : held'[o] = held[o] \/ held'[o] = None
    BY DEF Interact
  <1>2. held' \in [Caller -> Client \cup {None}]
    BY DEF Interact, TypeOK
  <1>3. At(op, held', state, cur, keyOf, cl, ready, work)
    BY <1>1, NamesAssumption DEF At, UseAt
  <1>4. PICK idle \in SUBSET MaybeIdle(held') :
          EndDeferred(op, held', state, cur, Defer(deferred, idle, "weak"))
    BY DEF Interact
  <1>5. state \in States /\ Defer(deferred, idle, "weak") \in Deferrals
    BY Types, DeferType
  <1>6. Holders = {} => held' = held
    BY DEF Interact, Holders, TypeOK
  <1> QED BY <1>2, <1>3, <1>4, <1>5, <1>6, EndDeferredKeeps

\* An operation that stops waiting or working uses no client it did not use.
LEMMA QuietKeeps ==
  ASSUME NEW hold, NEW st, NEW cur, NEW kf, NEW cl, NEW rd, NEW wk,
         At(op, hold, st, cur, kf, cl, rd, wk),
         NEW o \in Caller, op[o].phase # "out", NEW ops,
         \A q \in Caller : q # o => ops[q] = op[q],
         ops[o].phase \in {"answered", "out", "looking"}, ops[o].leased \subseteq op[o].leased,
         ops[o].phase # "out" => ops[o].key = op[o].key
  PROVE  At(ops, hold, st, cur, kf, cl, rd, wk)
  <1>1. \A q \in Caller : /\ ops[q].leased \subseteq op[q].leased
                          /\ ops[q].phase = "waiting" => ops[q] = op[q]
                          /\ ops[q].phase = "leased" => ops[q] = op[q]
                          /\ ops[q].phase # "out" => ops[q].key = op[q].key /\ op[q].phase # "out"
    <2> TAKE q \in Caller
    <2>1. CASE q = o
      BY <2>1
    <2>2. CASE q # o
      BY <2>2
    <2> QED BY <2>1, <2>2
  <1>2. UseAt(ops, hold, st, rd)
    BY <1>1 DEF At, UseAt
  <1>3. OpsAt(ops)
    BY <1>1 DEF At, OpsAt
  <1> QED BY <1>2, <1>3 DEF At

\* An answer and a settlement are of that kind.
LEMMA LessKeeps ==
  ASSUME TypeOK, NEW hold, NEW st, NEW cur, NEW kf, NEW cl, NEW rd, NEW wk,
         At(op, hold, st, cur, kf, cl, rd, wk),
         NEW o \in Caller, op[o].phase # "out", NEW ops,
         \/ ops = [op EXCEPT ![o].phase = "answered", ![o].on = None]
         \/ ops = [op EXCEPT ![o] = NoOp]
  PROVE  At(ops, hold, st, cur, kf, cl, rd, wk) /\ ops \in [Caller -> Operation]
  <1>1. op[o] \in Operation
    BY DEF TypeOK
  <1>2. NoOp \in Operation
    BY BoundsAssumption DEF NoOp, NewOp, Operation
  <1>3. /\ ops \in [Caller -> Operation]
        /\ \A q \in Caller : q # o => ops[q] = op[q]
        /\ ops[o].phase \in {"answered", "out"} /\ ops[o].leased \subseteq op[o].leased
        /\ ops[o].phase # "out" => ops[o].key = op[o].key
    <2>1. CASE ops = [op EXCEPT ![o].phase = "answered", ![o].on = None]
      BY <1>1, <2>1 DEF TypeOK, Operation
    <2>2. CASE ops = [op EXCEPT ![o] = NoOp]
      <3>1. ops[o] = NoOp /\ NoOp.phase = "out" /\ NoOp.leased = {}
        BY <2>2 DEF TypeOK, NoOp, NewOp
      <3>2. ops \in [Caller -> Operation] /\ \A q \in Caller : q # o => ops[q] = op[q]
        BY <1>2, <2>2 DEF TypeOK
      <3> QED BY <3>1, <3>2
    <2> QED BY <2>1, <2>2
  <1> QED BY <1>3, QuietKeeps

\* So the answer keeps the invariant.
LEMMA AnswerKeeps ==
  ASSUME TypeOK, NEW st \in States, NEW cur \in Currents, NEW df \in Deferrals,
         At(op, held, st, cur, keyOf, closedToNew, ready, work),
         NEW o \in Caller, op[o].phase # "out", Answer(o, st, cur, df)
  PROVE  /\ At(op', held, state', current', keyOf, closedToNew, ready, work)
         /\ op' \in [Caller -> Operation]
         /\ state' \in States /\ current' \in Currents /\ deferred' \in Deferrals
  <1>1. PICK ops : /\ \/ ops = [op EXCEPT ![o].phase = "answered", ![o].on = None]
                      \/ ops = [op EXCEPT ![o] = NoOp]
                   /\ op' = ops
                   /\ EndDeferred(ops, held, st, cur, df)
    BY DEF Answer
  <1>2. At(ops, held, st, cur, keyOf, closedToNew, ready, work) /\ ops \in [Caller -> Operation]
    BY <1>1, LessKeeps
  <1> QED BY <1>1, <1>2, EndDeferredKeeps

\* A refusal keeps it.
LEMMA RefuseKeeps ==
  ASSUME IInv, NEW o \in Caller, op[o].phase # "out", Refuse(o)
  PROVE  IInv'
  <1>1. /\ At(op', held, state', current', keyOf, closedToNew, ready, work)
        /\ op' \in [Caller -> Operation]
        /\ state' \in States /\ current' \in Currents /\ deferred' \in Deferrals
    BY AnswerKeeps, Types DEF IInv, Now, Refuse
  <1>2. UNCHANGED <<conn, closedToNew, held, ends>>
    BY DEF Refuse
  <1>3. TypeOK'
    BY <1>1, <1>2 DEF IInv, TypeOK, States, Currents, Deferrals, conn, ends
  <1>4. Now'
    BY <1>1, <1>2 DEF Now, conn
  <1> QED BY <1>2, <1>3, <1>4 DEF IInv, ClosedHoldsNothing, Holders, ends

\* A lease on a client that is open and was opened in time keeps it.
LEMMA TakeLeaseKeeps ==
  ASSUME IInv, NEW o \in Caller, NEW c \in Client, TakeLease(o, c),
         op[o].phase # "out", state[c] = "open", ready[c] = "resolved"
  PROVE  IInv'
  <1>1. UNCHANGED <<state, conn, closedToNew, current, held, ends>>
    BY DEF TakeLease
  <1>2. op[o] \in Operation
    BY DEF IInv, TypeOK
  <1>3. op' \in [Caller -> Operation]
    BY <1>2 DEF IInv, TypeOK, Operation, TakeLease
  <1>4. \A q \in Caller :
          /\ q # o => op'[q] = op[q]
          /\ q = o => /\ op'[q].phase = "leased" /\ op'[q].on = c
                      /\ op'[q].leased = op[q].leased \cup {c} /\ op'[q].key = op[q].key
    BY <1>2 DEF IInv, TypeOK, Operation, TakeLease
  <1>5. deferred' \in Deferrals
    BY DEF TakeLease, UsedAgain, IInv, TypeOK, Deferrals
  <1>6. UseAt(op', held, state, ready)
    BY <1>4 DEF IInv, Now, At, UseAt
  <1>7. OpsAt(op')
    BY <1>4 DEF IInv, Now, At, OpsAt
  <1>8. TypeOK'
    BY <1>1, <1>3, <1>5 DEF IInv, TypeOK, Deferrals, conn, ends
  <1>9. Now'
    BY <1>1, <1>6, <1>7 DEF IInv, Now, At, conn
  <1> QED BY <1>1, <1>8, <1>9 DEF IInv, ClosedHoldsNothing, Holders, ends

-----------------------------------------------------------------------------
(* One lemma for each action                                               *)

LEMMA SweepKeeps ==
  ASSUME IInv, Sweep \/ \E o \in Caller : Release(o)
  PROVE  IInv'
  <1>1. PICK revoked \in SUBSET Holders : Interact(revoked, current)
    BY DEF Sweep, Release
  <1>2. UNCHANGED <<conn, closedToNew, op, ends>>
    BY DEF Sweep, Release
  <1>3. /\ At(op, held', state', current', keyOf, closedToNew, ready, work)
        /\ state' \in States /\ current' \in Currents /\ deferred' \in Deferrals
        /\ held' \in [Caller -> Client \cup {None}]
        /\ Holders = {} => held' = held
    BY <1>1, InteractKeeps, Types DEF IInv, Now
  <1> QED
    BY <1>2, <1>3 DEF IInv, Now, TypeOK, ClosedHoldsNothing, Holders, States, Currents,
                      Deferrals, conn, ends

LEMMA AdmitKeeps ==
  ASSUME IInv, NEW o \in Caller, NEW k \in Key, Admit(o, k)
  PROVE  IInv'
  <1>1. PICK revoked \in SUBSET Holders : Interact(revoked, current)
    BY DEF Admit
  <1>2. UNCHANGED <<conn, closedToNew, ends>> /\ door = "open"
    BY DEF Admit
  <1>3. /\ At(op, held', state', current', keyOf, closedToNew, ready, work)
        /\ state' \in States /\ current' \in Currents /\ deferred' \in Deferrals
        /\ held' \in [Caller -> Client \cup {None}]
    BY <1>1, InteractKeeps, Types DEF IInv, Now
  <1>4. /\ op' \in [Caller -> Operation]
        /\ \A q \in Caller : q # o => op'[q] = op[q]
        /\ op'[o].phase = "looking" /\ op'[o].leased = {} /\ op'[o].key = k
    <2>1. /\ NewOp("looking", k) \in Operation
          /\ NewOp("looking", k).phase = "looking" /\ NewOp("looking", k).leased = {}
          /\ NewOp("looking", k).key = k
      BY BoundsAssumption DEF NewOp, Operation
    <2>2. op' = [op EXCEPT ![o] = NewOp("looking", k)]
      BY DEF Admit
    <2> QED BY <2>1, <2>2 DEF IInv, TypeOK
  <1>5. UseAt(op', held', state', ready)
    BY <1>3, <1>4 DEF At, UseAt
  <1>6. OpsAt(op')
    BY <1>3, <1>4 DEF At, OpsAt
  <1> QED
    BY <1>2, <1>3, <1>4, <1>5, <1>6 DEF IInv, Now, At, TypeOK, ClosedHoldsNothing, Holders,
                                        States, Currents, Deferrals, conn, ends

LEMMA SettleKeeps ==
  ASSUME IInv, NEW o \in Caller, Settle(o)
  PROVE  IInv'
  <1>1. op' = [op EXCEPT ![o] = NoOp] /\ op[o].phase # "out"
    BY DEF Settle
  <1>2. At(op', held, state, current, keyOf, closedToNew, ready, work) /\ op' \in [Caller -> Operation]
    BY <1>1, LessKeeps DEF IInv, Now
  <1>3. EndDeferred(op', held, state, current, deferred)
    BY DEF Settle
  <1>4. /\ At(op', held, state', current', keyOf, closedToNew, ready, work)
        /\ state' \in States /\ current' \in Currents /\ deferred' \in Deferrals
    BY <1>2, <1>3, Types, EndDeferredKeeps DEF IInv
  <1> QED
    BY <1>2, <1>4 DEF Settle, IInv, Now, TypeOK, ClosedHoldsNothing, Holders, States, Currents,
                      Deferrals, conn, ends

\* A current client was opened in time, if it is open.
LEMMA CurrentIsReady ==
  ASSUME IInv, NEW k \in Key, current[k] # None
  PROVE  /\ current[k] \in Client /\ current[k] \notin closedToNew
         /\ state[current[k]] = "open" => ready[current[k]] = "resolved"
  BY DEF IInv, Now, At, KeysAt, OpensAt

LEMMA LookLeasesKeeps ==
  ASSUME IInv, NEW o \in Caller, LookLeases(o)
  PROVE  IInv'
  <1>1. op[o].phase = "looking" /\ op[o].key \in Key
    BY DEF LookLeases, IInv, Now, At, OpsAt
  <1> DEFINE c == current[op[o].key]
  <1>2. c \in Client /\ state[c] = "open" /\ ready[c] = "resolved"
    BY <1>1, CurrentIsReady DEF LookLeases
  <1>3. CASE TakeLease(o, c)
    BY <1>1, <1>2, <1>3, TakeLeaseKeeps
  <1>4. CASE Refuse(o)
    BY <1>1, <1>4, RefuseKeeps
  <1> QED BY <1>3, <1>4 DEF LookLeases

\* Waiting for a client that opens keeps the invariant.
LEMMA LookJoinsKeeps ==
  ASSUME IInv, NEW o \in Caller, LookJoins(o)
  PROVE  IInv'
  <1>1. op[o].phase = "looking" /\ op[o].key \in Key
    BY DEF LookJoins, IInv, Now, At, OpsAt
  <1> DEFINE c == current[op[o].key]
  <1>2. c \in Client /\ state[c] = "opening"
    BY <1>1, CurrentIsReady DEF LookJoins
  <1>3. CASE Refuse(o)
    BY <1>1, <1>3, RefuseKeeps
  <1>4. CASE /\ op' = [op EXCEPT ![o].phase = "waiting", ![o].on = c]
             /\ UNCHANGED <<state, conn, closedToNew, deferred, current, held, ends>>
    <2>1. op[o] \in Operation
      BY DEF IInv, TypeOK
    <2> HIDE DEF c
    <2>2. op' \in [Caller -> Operation]
      BY <1>2, <1>4, <2>1 DEF IInv, TypeOK, Operation
    <2>3. /\ \A q \in Caller : q # o => op'[q] = op[q]
          /\ op'[o].phase = "waiting" /\ op'[o].on = c
          /\ op'[o].leased = op[o].leased /\ op'[o].key = op[o].key
      BY <1>4, <2>1 DEF IInv, TypeOK, Operation
    <2>4. UseAt(op', held, state, ready)
      BY <1>2, <2>3 DEF IInv, Now, At, UseAt
    <2>5. OpsAt(op')
      BY <1>1, <1>2, <2>3 DEF IInv, Now, At, OpsAt
    <2> QED
      BY <1>4, <2>2, <2>4, <2>5 DEF IInv, Now, At, TypeOK, ClosedHoldsNothing, Holders, conn, ends
  <1> QED BY <1>3, <1>4 DEF LookJoins

\* A new client for a key that has none keeps it, whether one was evicted or not.
LEMMA StartOpenKeeps ==
  ASSUME IInv, NEW o \in Caller, NEW c \in Client, NEW st \in States, NEW cur \in Currents,
         At(op, held, st, cur, keyOf, closedToNew, ready, work),
         op[o].phase = "looking", cur[op[o].key] = None, st[c] = "gone",
         StartOpen(o, c, st, cur), deferred' \in Deferrals
  PROVE  IInv'
  <1> DEFINE k == op[o].key
  <1>1. k \in Key /\ op[o] \in Operation
    BY DEF At, OpsAt, IInv, TypeOK
  <1>2. /\ state' = [st EXCEPT ![c] = "opening"] /\ keyOf' = [keyOf EXCEPT ![c] = k]
        /\ ready' = [ready EXCEPT ![c] = "pending"] /\ work' = [work EXCEPT ![c] = "connecting"]
        /\ owner' = [owner EXCEPT ![c] = o] /\ current' = [cur EXCEPT ![k] = c]
        /\ op' = [op EXCEPT ![o].phase = "waiting", ![o].on = c]
        /\ UNCHANGED <<closedToNew, held, ends>>
        /\ \A q \in Caller : op[q].on # c
    BY DEF StartOpen, Unused
  <1> HIDE DEF k
  <1>3. /\ op' \in [Caller -> Operation]
        /\ \A q \in Caller : q # o => op'[q] = op[q]
        /\ op'[o].phase = "waiting" /\ op'[o].on = c
        /\ op'[o].leased = op[o].leased /\ op'[o].key = k
    BY <1>1, <1>2 DEF IInv, TypeOK, Operation, k
  <1>4. TypeOK'
    BY <1>1, <1>2, <1>3 DEF IInv, TypeOK, States, Currents, Deferrals, ends
  <1>5. /\ \A d \in Client : /\ state'[d] = IF d = c THEN "opening" ELSE st[d]
                             /\ keyOf'[d] = IF d = c THEN k ELSE keyOf[d]
                             /\ ready'[d] = IF d = c THEN "pending" ELSE ready[d]
                             /\ work'[d] = IF d = c THEN "connecting" ELSE work[d]
        /\ \A j \in Key : current'[j] = IF j = k THEN c ELSE cur[j]
    BY <1>1, <1>2 DEF IInv, TypeOK, States, Currents
  <1>6. KeysAt(state', current', keyOf', closedToNew)
    <2>1. cur[k] = None /\ c # None /\ None \notin Client
      BY NamesAssumption DEF k
    <2> QED BY <1>1, <1>5, <2>1 DEF At, KeysAt
  <1>7. UseAt(op', held, state', ready')
    <2>1. \A q \in Caller : c \notin op[q].leased /\ held[q] # c
      BY DEF At, UseAt
    <2> QED BY <1>2, <1>3, <1>5, <2>1 DEF At, UseAt
  <1>8. OpensAt(state', closedToNew, ready', work')
    BY <1>5 DEF At, OpensAt
  <1>9. OpsAt(op')
    BY <1>1, <1>3 DEF At, OpsAt
  <1> QED
    BY <1>2, <1>4, <1>6, <1>7, <1>8, <1>9 DEF IInv, Now, At, ClosedHoldsNothing, Holders, ends

\* Evicting one idle client keeps it.
LEMMA EvictKeeps ==
  ASSUME IInv, NEW k \in Key, NEW v \in Victims(k)
  PROVE  /\ At(op, held, [state EXCEPT ![v] = "ending"], Retired({v}), keyOf, closedToNew, ready, work)
         /\ [state EXCEPT ![v] = "ending"] \in States /\ Retired({v}) \in Currents
         /\ [deferred EXCEPT ![v] = "no"] \in Deferrals
         /\ v \in Client /\ state[v] = "open" /\ ~Uses(v, op, held)
  <1>1. v \in Client /\ state[v] = "open" /\ ~Uses(v, op, held)
    BY DEF Victims, Crowd, OpenSet
  <1>2. At(op, held, Ended(state, {v}), Cleared(current, {v}), keyOf, closedToNew, ready, work)
    BY <1>1, EndSet, Types DEF IInv, Now
  <1>3. Ended(state, {v}) = [state EXCEPT ![v] = "ending"] /\ Cleared(current, {v}) = Retired({v})
    BY <1>1 DEF Ended, Cleared, Retired, IInv, TypeOK
  <1> QED BY <1>1, <1>2, <1>3 DEF IInv, TypeOK, States, Currents, Deferrals, Retired

LEMMA LookOpensKeeps ==
  ASSUME IInv, NEW o \in Caller, NEW c \in Client,
         LookOpens(o, c) \/ \E v \in Client : LookEvicts(o, c, v)
  PROVE  IInv'
  <1>1. op[o].phase = "looking" /\ op[o].key \in Key /\ current[op[o].key] = None
    BY DEF LookOpens, LookEvicts, IInv, Now, At, OpsAt
  <1>2. CASE LookOpens(o, c)
    BY <1>1, <1>2, StartOpenKeeps, Types DEF LookOpens, IInv, Now, StartOpen, Unused
  <1>3. ASSUME NEW v \in Client, LookEvicts(o, c, v)
        PROVE  IInv'
    <2>1. v \in Victims(op[o].key) /\ StartOpen(o, c, [state EXCEPT ![v] = "ending"], Retired({v}))
          /\ deferred' = [deferred EXCEPT ![v] = "no"]
      BY <1>3 DEF LookEvicts
    <2>2. state[c] = "gone"
      BY <2>1 DEF StartOpen, Unused
    <2>3. [state EXCEPT ![v] = "ending"][c] = "gone"
      BY <1>1, <2>1, <2>2, EvictKeeps DEF IInv, TypeOK
    <2>4. Retired({v})[op[o].key] = None
      BY <1>1 DEF Retired
    <2> QED BY <1>1, <2>1, <2>3, <2>4, EvictKeeps, StartOpenKeeps
  <1> QED BY <1>2, <1>3

LEMMA LookFullKeeps ==
  ASSUME IInv, NEW o \in Caller, LookFull(o) \/ LookPlanFails(o)
  PROVE  IInv'
  <1>1. op[o].phase = "looking" /\ op[o].key \in Key
    BY DEF LookFull, LookPlanFails, IInv, Now, At, OpsAt
  <1>2. UNCHANGED <<conn, closedToNew, held, ends>>
    BY DEF LookFull, LookPlanFails
  <1>3. PICK st \in States, cur \in Currents, df \in Deferrals :
          /\ At(op, held, st, cur, keyOf, closedToNew, ready, work)
          /\ Answer(o, st, cur, df)
    <2>1. At(op, held, state, current, keyOf, closedToNew, ready, work)
      BY DEF IInv, Now
    <2>2. CASE Answer(o, state, current, deferred)
      BY <2>1, <2>2, Types DEF IInv
    <2>3. ASSUME NEW v \in Victims(op[o].key), Answer(o, state, current, Defer(deferred, {v}, "weak"))
          PROVE  \E st \in States, cur \in Currents, df \in Deferrals :
                   /\ At(op, held, st, cur, keyOf, closedToNew, ready, work)
                   /\ Answer(o, st, cur, df)
      BY <2>1, <2>3, Types, DeferType DEF IInv
    <2>4. ASSUME NEW v \in Victims(op[o].key),
                 Answer(o, [state EXCEPT ![v] = "ending"], Retired({v}), [deferred EXCEPT ![v] = "no"])
          PROVE  \E st \in States, cur \in Currents, df \in Deferrals :
                   /\ At(op, held, st, cur, keyOf, closedToNew, ready, work)
                   /\ Answer(o, st, cur, df)
      BY <1>1, <2>4, EvictKeeps
    <2> QED BY <2>2, <2>3, <2>4 DEF LookFull, LookPlanFails
  <1>4. /\ At(op', held, state', current', keyOf, closedToNew, ready, work)
        /\ op' \in [Caller -> Operation]
        /\ state' \in States /\ current' \in Currents /\ deferred' \in Deferrals
    BY <1>1, <1>3, AnswerKeeps DEF IInv
  <1> QED
    BY <1>2, <1>4 DEF IInv, Now, TypeOK, ClosedHoldsNothing, Holders, States, Currents,
                      Deferrals, conn, ends

LEMMA WaitLeasesKeeps ==
  ASSUME IInv, NEW o \in Caller, WaitLeases(o)
  PROVE  IInv'
  <1>1. op[o].on \in Client /\ op[o].phase = "waiting"
    BY DEF WaitLeases, IInv, Now, At, OpsAt
  <1> QED BY <1>1, TakeLeaseKeeps DEF WaitLeases, Serving

\* Looking for a client again keeps the invariant.
LEMMA WaitLooksAgainKeeps ==
  ASSUME IInv, NEW o \in Caller, WaitLooksAgain(o)
  PROVE  IInv'
  <1>1. /\ op' = [op EXCEPT ![o].phase = "looking", ![o].on = None, ![o].round = @ + 1]
        /\ op[o].phase = "waiting" /\ op[o] \in Operation /\ More(op[o].round)
    BY DEF WaitLooksAgain, IInv, TypeOK
  <1>2. /\ \A q \in Caller : q # o => op'[q] = op[q]
        /\ op'[o].phase = "looking" /\ op'[o].leased = op[o].leased /\ op'[o].key = op[o].key
    BY <1>1 DEF IInv, TypeOK, Operation
  <1>3. op' \in [Caller -> Operation]
    <2>1. op[o].round + 1 \in 0..(Rounds - 1)
      BY <1>1, BoundsAssumption DEF More, Operation
    <2> QED BY <1>1, <2>1 DEF IInv, TypeOK, Operation
  <1>4. At(op', held, state, current, keyOf, closedToNew, ready, work)
    BY <1>1, <1>2, QuietKeeps DEF IInv, Now
  <1>5. EndDeferred(op', held, state, current, deferred)
    BY DEF WaitLooksAgain
  <1>6. /\ At(op', held, state', current', keyOf, closedToNew, ready, work)
        /\ state' \in States /\ current' \in Currents /\ deferred' \in Deferrals
    BY <1>4, <1>5, Types, EndDeferredKeeps DEF IInv
  <1> QED
    BY <1>3, <1>6 DEF WaitLooksAgain, IInv, Now, TypeOK, ClosedHoldsNothing, Holders, States,
                      Currents, Deferrals, conn, ends

LEMMA HoldLooksAgainKeeps ==
  ASSUME IInv, NEW o \in Caller, HoldLooksAgain(o)
  PROVE  IInv'
  <1>1. /\ op' = [op EXCEPT ![o].phase = "looking", ![o].on = None,
                            ![o].round = 0, ![o].try = @ + 1]
        /\ op[o].phase = "leased" /\ op[o] \in Operation /\ More(op[o].try)
        /\ UNCHANGED <<state, conn, closedToNew, deferred, current, held, ends>>
    BY DEF HoldLooksAgain, IInv, TypeOK
  <1>2. /\ \A q \in Caller : q # o => op'[q] = op[q]
        /\ op'[o].phase = "looking" /\ op'[o].leased = op[o].leased /\ op'[o].key = op[o].key
    BY <1>1 DEF IInv, TypeOK, Operation
  <1>3. op' \in [Caller -> Operation]
    <2>1. op[o].try + 1 \in 0..(Rounds - 1) /\ 0 \in 0..(Rounds - 1)
      BY <1>1, BoundsAssumption DEF More, Operation
    <2> QED BY <1>1, <2>1 DEF IInv, TypeOK, Operation
  <1>4. At(op', held, state, current, keyOf, closedToNew, ready, work)
    BY ZenonT(60), <1>1, <1>2, QuietKeeps DEF IInv, Now
  <1> QED
    BY <1>1, <1>3, <1>4 DEF IInv, Now, TypeOK, ClosedHoldsNothing, Holders, conn, ends

LEMMA LoseKeeps ==
  ASSUME IInv, NEW o \in Caller, Lose(o)
  PROVE  IInv'
  <1> DEFINE c == op[o].on
  <1>1. c \in Client /\ state[c] = "open" /\ op[o].leased \subseteq Client
    BY DEF Lose, IInv, Now, At, OpsAt, UseAt, TypeOK, Operation
  <1>2. /\ closedToNew' = closedToNew \cup {c} /\ current' = Retired({c})
        /\ deferred' = Defer(deferred, {c}, "strong")
        /\ UNCHANGED <<state, conn, op, held, ends>>
    BY DEF Lose
  <1> HIDE DEF c
  <1>3. deferred' \in Deferrals /\ current' \in Currents
    BY <1>2, DeferType, Types DEF IInv, TypeOK, Retired, Currents
  <1>4. \A k \in Key : current'[k] = IF current[k] = c THEN None ELSE current[k]
    BY <1>2 DEF Retired
  <1>5. KeysAt(state, current', keyOf, closedToNew')
    BY <1>1, <1>2, <1>4, NamesAssumption DEF IInv, Now, At, KeysAt
  <1>6. OpensAt(state, closedToNew', ready, work)
    BY <1>2 DEF IInv, Now, At, OpensAt
  <1> QED
    BY <1>1, <1>2, <1>3, <1>5, <1>6 DEF IInv, Now, At, TypeOK, ClosedHoldsNothing, Holders,
                                        Currents, Deferrals, conn, ends

LEMMA HoldKeeps ==
  ASSUME IInv, NEW o \in Caller, Hold(o)
  PROVE  IInv'
  <1> DEFINE c == op[o].on
  <1>1. op[o].phase = "leased" /\ c \in Client /\ c \in op[o].leased /\ door = "open"
    BY DEF Hold, MayHold, IInv, Now, At, OpsAt
  <1>2. PICK ops : /\ \/ ops = [op EXCEPT ![o].phase = "answered", ![o].on = None]
                      \/ ops = [op EXCEPT ![o] = NoOp]
                   /\ op' = ops
                   /\ held' = [held EXCEPT ![o] = c]
                   /\ EndDeferred(ops, held', state, current, UsedAgain(c))
                   /\ UNCHANGED <<conn, closedToNew, ends>>
    BY DEF Hold
  <1> HIDE DEF c
  <1>3. state[c] = "open" /\ ready[c] = "resolved"
    BY <1>1 DEF IInv, Now, At, UseAt
  <1>4. /\ held' \in [Caller -> Client \cup {None}]
        /\ \A q \in Caller : held'[q] = held[q] \/ held'[q] = c
    BY <1>1, <1>2 DEF IInv, TypeOK
  <1>5. At(op, held', state, current, keyOf, closedToNew, ready, work)
    <2>1. UseAt(op, held', state, ready)
      BY <1>3, <1>4 DEF IInv, Now, At, UseAt
    <2> QED BY <2>1 DEF IInv, Now, At
  <1>6. At(ops, held', state, current, keyOf, closedToNew, ready, work) /\ ops \in [Caller -> Operation]
    BY <1>1, <1>2, <1>5, LessKeeps DEF IInv
  <1>7. UsedAgain(c) \in Deferrals
    BY <1>1 DEF UsedAgain, IInv, TypeOK, Deferrals
  <1>8. /\ At(ops, held', state', current', keyOf, closedToNew, ready, work)
        /\ state' \in States /\ current' \in Currents /\ deferred' \in Deferrals
    BY <1>2, <1>6, <1>7, Types, EndDeferredKeeps DEF IInv
  <1> QED
    BY <1>1, <1>2, <1>4, <1>6, <1>8 DEF IInv, Now, TypeOK, ClosedHoldsNothing, States, Currents,
                                        Deferrals, conn, ends

LEMMA RefusalsKeep ==
  ASSUME IInv, NEW o \in Caller,
         WaitFails(o) \/ GiveUp(o) \/ FinishCall(o) \/ HoldFails(o)
  PROVE  IInv'
  BY RefuseKeeps DEF WaitFails, GiveUp, FinishCall, HoldFails

LEMMA OpenKeeps ==
  ASSUME IInv, NEW c \in Client, OpenTimesOut(c) \/ OpenSucceeds(c) \/ OpenFails(c)
  PROVE  IInv'
  <1>1. /\ state[c] = "opening" /\ work[c] = "connecting" /\ ready[c] \in {"pending", "timeout"}
        /\ UNCHANGED <<keyOf, owner, closedToNew, deferred, current, op, held, ends>>
    BY DEF OpenTimesOut, OpenSucceeds, OpenFails, IInv, Now, At, OpensAt
  <1>2. /\ \A d \in Client : d # c => /\ state'[d] = state[d] /\ ready'[d] = ready[d]
                                      /\ work'[d] = work[d]
        /\ \/ /\ state'[c] = "opening"
              /\ \/ work'[c] = "connecting" /\ ready'[c] = "timeout"
                 \/ work'[c] \in {"late", "failed"} /\ ready'[c] \in {"failed", "timeout"}
           \/ state'[c] = "open" /\ ready'[c] = "resolved" /\ work'[c] = "served"
        /\ state' \in States
        /\ ready' \in [Client -> {"pending", "resolved", "failed", "timeout"}]
        /\ work' \in [Client -> {"connecting", "served", "late", "failed", "settled"}]
    <2>1. CASE OpenTimesOut(c)
      BY <1>1, <2>1 DEF OpenTimesOut, IInv, TypeOK, States
    <2>2. CASE OpenSucceeds(c)
      BY <1>1, <2>2 DEF OpenSucceeds, IInv, TypeOK, States
    <2>3. CASE OpenFails(c)
      BY <1>1, <2>3 DEF OpenFails, IInv, TypeOK, States
    <2> QED BY <2>1, <2>2, <2>3
  <1>3. KeysAt(state', current, keyOf, closedToNew)
    BY <1>1, <1>2 DEF IInv, Now, At, KeysAt
  <1>4. UseAt(op, held, state', ready')
    BY <1>1, <1>2 DEF IInv, Now, At, UseAt
  <1>5. OpensAt(state', closedToNew, ready', work')
    BY <1>1, <1>2 DEF IInv, Now, At, OpensAt
  <1> QED
    BY <1>1, <1>2, <1>3, <1>4, <1>5 DEF IInv, Now, At, TypeOK, ClosedHoldsNothing, Holders,
                                        States, ends

\* A client that is gone is nobody's current one, and nobody works with it.
LEMMA FreedKeeps ==
  ASSUME IInv, NEW c \in Client, NEW rd, NEW wk,
         \/ state[c] = "ending" /\ rd = ready /\ wk = work
         \/ /\ state[c] = "opening" /\ work[c] = "failed" /\ rd = ready
            /\ wk = [work EXCEPT ![c] = "settled"],
         Freed(c), Forgets(c)
  PROVE  /\ At(op, held, state', current', keyOf', closedToNew', rd, wk)
         /\ state' \in States /\ current' \in Currents /\ deferred' \in Deferrals
         /\ keyOf' \in [Client -> Key \cup {None}] /\ closedToNew' \in SUBSET Client
  <1> DEFINE st == [state EXCEPT ![c] = "gone"]
             df == [deferred EXCEPT ![c] = "no"]
             cur == Retired({c})
  <1>1. EndDeferred(op, held, st, cur, df)
    BY DEF Freed
  <1>2. keyOf' = [keyOf EXCEPT ![c] = None] /\ closedToNew' = closedToNew \ {c}
    BY DEF Forgets
  <1>3. st \in States /\ df \in Deferrals /\ cur \in Currents
    BY DEF IInv, TypeOK, States, Deferrals, Currents, Retired
  <1>4. /\ \A d \in Client : /\ st[d] = IF d = c THEN "gone" ELSE state[d]
                             /\ keyOf'[d] = IF d = c THEN None ELSE keyOf[d]
                             /\ wk[d] = work[d] \/ d = c
        /\ wk[c] = "settled" \/ (wk[c] = work[c] /\ state[c] = "ending")
        /\ \A k \in Key : cur[k] = IF current[k] = c THEN None ELSE current[k]
    BY <1>2 DEF IInv, TypeOK, Retired
  <1>5. keyOf' \in [Client -> Key \cup {None}] /\ closedToNew' \in SUBSET Client
    BY <1>2 DEF IInv, TypeOK
  <1> HIDE DEF st, df, cur
  <1>6. KeysAt(st, cur, keyOf', closedToNew')
    BY <1>2, <1>4, NamesAssumption DEF IInv, Now, At, KeysAt
  <1>7. UseAt(op, held, st, rd)
    BY <1>4 DEF IInv, Now, At, UseAt, OpensAt
  <1>8. OpensAt(st, closedToNew', rd, wk)
    BY <1>2, <1>4 DEF IInv, Now, At, OpensAt
  <1>9. At(op, held, st, cur, keyOf', closedToNew', rd, wk)
    BY <1>6, <1>7, <1>8 DEF IInv, Now, At
  <1> QED BY <1>1, <1>3, <1>5, <1>9, EndDeferredKeeps

LEMMA EndingSettlesKeeps ==
  ASSUME IInv, NEW c \in Client, EndingSettles(c)
  PROVE  IInv'
  <1>1. /\ At(op, held, state', current', keyOf', closedToNew', ready, work)
        /\ state' \in States /\ current' \in Currents /\ deferred' \in Deferrals
        /\ keyOf' \in [Client -> Key \cup {None}] /\ closedToNew' \in SUBSET Client
    BY FreedKeeps DEF EndingSettles
  <1> QED
    BY <1>1 DEF EndingSettles, IInv, Now, TypeOK, ClosedHoldsNothing, Holders, States, Currents,
                Deferrals, ends

LEMMA OpenSettlesKeeps ==
  ASSUME IInv, NEW c \in Client, OpenSettles(c)
  PROVE  IInv'
  <1>1. /\ work' = [work EXCEPT ![c] = "settled"] /\ owner' = [owner EXCEPT ![c] = None]
        /\ UNCHANGED <<ready, op, held, ends>>
    BY DEF OpenSettles
  <1>2. /\ work' \in [Client -> {"connecting", "served", "late", "failed", "settled"}]
        /\ owner' \in [Client -> Caller \cup {None}]
        /\ \A d \in Client : work'[d] = IF d = c THEN "settled" ELSE work[d]
    BY <1>1 DEF IInv, TypeOK
  <1>3. /\ At(op, held, state', current', keyOf', closedToNew', ready, work')
        /\ state' \in States /\ current' \in Currents /\ deferred' \in Deferrals
        /\ keyOf' \in [Client -> Key \cup {None}] /\ closedToNew' \in SUBSET Client
    <2>1. CASE work[c] = "served" /\ UNCHANGED <<state, keyOf, closedToNew, deferred, current>>
      <3>1. OpensAt(state, closedToNew, ready, work')
        BY <1>2, <2>1 DEF IInv, Now, At, OpensAt
      <3> QED BY <2>1, <3>1, Types DEF IInv, Now, At, TypeOK
    <2>2. CASE /\ work[c] \in {"late", "failed"} /\ closedToNew' = TurnedAway(c)
               /\ EndDeferred(op, held, [state EXCEPT ![c] = "open"], Retired({c}),
                              Defer(deferred, {c}, "strong"))
               /\ UNCHANGED keyOf
      <3> DEFINE st == [state EXCEPT ![c] = "open"]
                 cur == Retired({c})
      <3>1. state[c] = "opening" /\ closedToNew' = closedToNew \cup {c}
        BY <2>2 DEF IInv, Now, At, OpensAt, TurnedAway
      <3>2. st \in States /\ cur \in Currents /\ Defer(deferred, {c}, "strong") \in Deferrals
        BY Types, DeferType DEF IInv, TypeOK, States, Currents, Retired
      <3>3. /\ \A d \in Client : st[d] = IF d = c THEN "open" ELSE state[d]
            /\ \A k \in Key : cur[k] = IF current[k] = c THEN None ELSE current[k]
        BY DEF IInv, TypeOK, Retired
      <3> HIDE DEF st, cur
      <3>4. KeysAt(st, cur, keyOf, closedToNew')
        BY <3>1, <3>3, NamesAssumption DEF IInv, Now, At, KeysAt
      <3>5. UseAt(op, held, st, ready)
        BY <3>1, <3>3 DEF IInv, Now, At, UseAt
      <3>6. OpensAt(st, closedToNew', ready, work')
        BY <1>2, <3>1, <3>3 DEF IInv, Now, At, OpensAt
      <3>7. At(op, held, st, cur, keyOf, closedToNew', ready, work')
        BY <3>4, <3>5, <3>6 DEF IInv, Now, At
      <3>8. EndDeferred(op, held, st, cur, Defer(deferred, {c}, "strong"))
        BY <2>2 DEF st, cur
      <3>9. /\ At(op, held, state', current', keyOf, closedToNew', ready, work')
            /\ state' \in States /\ current' \in Currents /\ deferred' \in Deferrals
        BY <3>2, <3>7, <3>8, EndDeferredKeeps
      <3> QED BY <2>2, <3>1, <3>9 DEF IInv, TypeOK
    <2>3. CASE work[c] = "failed" /\ Freed(c) /\ Forgets(c)
      <3>1. state[c] = "opening"
        BY <2>3 DEF IInv, Now, At, OpensAt
      <3> QED BY <1>1, <2>3, <3>1, FreedKeeps
    <2> QED BY <2>1, <2>2, <2>3 DEF OpenSettles
  <1> QED
    BY <1>1, <1>2, <1>3 DEF IInv, Now, TypeOK, ClosedHoldsNothing, Holders, States, Currents,
                            Deferrals, ends

\* Clients that take no more leases, with their keys left without a current one.
LEMMA NamingKeeps ==
  ASSUME IInv, NEW scope \in SUBSET Key
  PROVE  LET cur == [k \in Key |-> IF k \in scope THEN None ELSE current[k]]
             cl  == closedToNew \cup {c \in OpenSet(state) : keyOf[c] \in scope}
         IN  At(op, held, state, cur, keyOf, cl, ready, work) /\ cur \in Currents
  <1> DEFINE cur == [k \in Key |-> IF k \in scope THEN None ELSE current[k]]
             cl  == closedToNew \cup {c \in OpenSet(state) : keyOf[c] \in scope}
  <1>1. /\ \A k \in Key : cur[k] = IF k \in scope THEN None ELSE current[k]
        /\ \A c \in Client : c \in cl <=> \/ c \in closedToNew
                                          \/ state[c] \in {"opening", "open"} /\ keyOf[c] \in scope
        /\ cur \in Currents
    BY DEF OpenSet, IInv, TypeOK, Currents
  <1> HIDE DEF cur, cl
  <1>2. KeysAt(state, cur, keyOf, cl)
    BY <1>1, NamesAssumption DEF IInv, Now, At, KeysAt
  <1>3. OpensAt(state, cl, ready, work)
    BY <1>1 DEF IInv, Now, At, OpensAt
  <1> QED BY <1>1, <1>2, <1>3 DEF IInv, Now, At, cur, cl

\* Of those, the ones that have just ended need no note.
LEMMA FewerNamed ==
  ASSUME NEW ops, NEW hold, NEW st, NEW cur, NEW kf, NEW cl, NEW cl2, NEW rd, NEW wk,
         At(ops, hold, st, cur, kf, cl, rd, wk), cl2 \subseteq cl,
         \A c \in Client : c \in cl /\ st[c] \in {"opening", "open"} => c \in cl2
  PROVE  At(ops, hold, st, cur, kf, cl2, rd, wk)
  <1>1. KeysAt(st, cur, kf, cl2)
    BY DEF At, KeysAt
  <1>2. OpensAt(st, cl2, rd, wk)
    BY DEF At, OpensAt
  <1> QED BY <1>1, <1>2 DEF At

\* A step that ends clients opens none.
LEMMA EndDeferredOpens ==
  ASSUME NEW ops, NEW hold, NEW st \in States, NEW cur, NEW df,
         EndDeferred(ops, hold, st, cur, df)
  PROVE  \A c \in Client : state'[c] = st[c] \/ (st[c] = "open" /\ state'[c] = "ending")
  BY DEF EndDeferred, Endable, States

LEMMA TerminateKeeps ==
  ASSUME IInv, NEW t \in Ender, NEW scope \in SUBSET Key, Terminate(t, scope)
  PROVE  IInv'
  <1> DEFINE cur == [k \in Key |-> IF k \in scope THEN None ELSE current[k]]
             cl  == closedToNew \cup {c \in OpenSet(state) : keyOf[c] \in scope}
  <1>1. PICK revoked \in SUBSET Holders : Interact(revoked, cur)
    BY DEF Terminate
  <1>2. /\ named' = [named EXCEPT ![t] = {c \in OpenSet(state') : keyOf[c] \in scope}]
        /\ closedToNew' = closedToNew \cup named'[t]
        /\ UNCHANGED <<conn, op, all, door>>
    BY DEF Terminate
  <1>3. named'[t] = {c \in OpenSet(state') : keyOf[c] \in scope}
        /\ named' \in [Ender -> SUBSET Client]
    BY <1>2 DEF IInv, TypeOK, OpenSet
  <1>4. At(op, held, state, cur, keyOf, cl, ready, work) /\ cur \in Currents
    BY NamingKeeps
  <1>5. \A c \in Client : state'[c] = state[c] \/ (state[c] = "open" /\ state'[c] = "ending")
    BY <1>1, EndDeferredOpens, Types DEF IInv, Interact
  <1>6. cl \subseteq Client
    BY DEF IInv, TypeOK, OpenSet
  <1>7. /\ closedToNew' \subseteq cl
        /\ \A c \in Client : c \in cl /\ state'[c] \in {"opening", "open"} => c \in closedToNew'
    BY <1>2, <1>3, <1>5 DEF OpenSet
  <1> HIDE DEF cur, cl
  <1>8. /\ At(op, held', state', current', keyOf, cl, ready, work)
        /\ state' \in States /\ current' \in Currents /\ deferred' \in Deferrals
        /\ held' \in [Caller -> Client \cup {None}]
        /\ Holders = {} => held' = held
    BY <1>1, <1>4, InteractKeeps DEF IInv
  <1>9. At(op, held', state', current', keyOf, closedToNew', ready, work)
    BY <1>7, <1>8, FewerNamed
  <1> QED
    BY <1>2, <1>3, <1>6, <1>7, <1>8, <1>9 DEF IInv, Now, TypeOK, ClosedHoldsNothing, Holders,
                                              States, Currents, Deferrals, conn

\* Ending what was named keeps the invariant.
LEMMA EndNowKeeps ==
  ASSUME IInv, NEW C, EndNow(C)
  PROVE  /\ At(op, held, state', current', keyOf, closedToNew, ready, work)
         /\ state' \in States /\ current' \in Currents /\ deferred' \in Deferrals
  BY EndDeferredKeeps, Types, DeferType DEF EndNow, IInv, Now

LEMMA TerminateEndsKeeps ==
  ASSUME IInv, NEW t \in Ender, TerminateEnds(t)
  PROVE  IInv'
  <1>1. /\ At(op, held, state', current', keyOf, closedToNew, ready, work)
        /\ state' \in States /\ current' \in Currents /\ deferred' \in Deferrals
    BY EndNowKeeps DEF TerminateEnds
  <1>2. named' \in [Ender -> SUBSET Client]
    BY DEF TerminateEnds, IInv, TypeOK
  <1> QED
    BY <1>1, <1>2 DEF TerminateEnds, IInv, Now, TypeOK, ClosedHoldsNothing, Holders, States,
                      Currents, Deferrals, conn

LEMMA CloseStepKeeps ==
  ASSUME IInv, CloseEnds \/ CloseDone
  PROVE  IInv'
  <1>1. CASE CloseEnds
    <2>1. /\ At(op, held, state', current', keyOf, closedToNew, ready, work)
          /\ state' \in States /\ current' \in Currents /\ deferred' \in Deferrals
      BY <1>1, EndNowKeeps DEF CloseEnds
    <2> QED
      BY <1>1, <2>1 DEF CloseEnds, IInv, Now, TypeOK, ClosedHoldsNothing, Holders, States,
                        Currents, Deferrals, conn
  <1>2. CASE CloseDone
    <2>1. deferred' \in Deferrals
      BY <1>2, Types, DeferType DEF CloseDone, IInv
    <2> QED
      BY <1>2, <2>1 DEF CloseDone, IInv, Now, TypeOK, ClosedHoldsNothing, Holders, Deferrals, conn
  <1> QED BY <1>1, <1>2

LEMMA CloseKeeps ==
  ASSUME IInv, Close
  PROVE  IInv'
  <1> DEFINE cur == [k \in Key |-> None]
             hold == [o \in Caller |-> None]
             cl == closedToNew \cup {c \in OpenSet(state) : keyOf[c] \in Key}
  <1>1. /\ held' = hold /\ EndDeferred(op, hold, state, cur, deferred)
        /\ all' = OpenSet(state') /\ closedToNew' = closedToNew \cup all'
        /\ door' = "waiting" /\ UNCHANGED <<conn, op, named>>
    BY DEF Close
  <1>2. [k \in Key |-> IF k \in Key THEN None ELSE current[k]] = cur
    OBVIOUS
  <1>3. At(op, held, state, cur, keyOf, cl, ready, work) /\ cur \in Currents
    BY <1>2, NamingKeeps
  <1>4. hold \in [Caller -> Client \cup {None}] /\ \A o \in Caller : hold[o] = None
    OBVIOUS
  <1>5. \A c \in Client : state'[c] = state[c] \/ (state[c] = "open" /\ state'[c] = "ending")
    BY <1>1, EndDeferredOpens, Types DEF IInv
  <1>6. /\ closedToNew' \subseteq cl /\ cl \subseteq Client /\ all' \subseteq Client
        /\ \A c \in Client : c \in cl /\ state'[c] \in {"opening", "open"} => c \in closedToNew'
    BY <1>1, <1>5 DEF IInv, Now, At, KeysAt, TypeOK, OpenSet
  <1> HIDE DEF cur, hold, cl
  <1>7. At(op, hold, state, cur, keyOf, cl, ready, work)
    <2>1. UseAt(op, hold, state, ready)
      BY <1>4, NamesAssumption DEF IInv, Now, At, UseAt
    <2> QED BY <1>3, <2>1 DEF At
  <1>8. /\ At(op, hold, state', current', keyOf, cl, ready, work)
        /\ state' \in States /\ current' \in Currents /\ deferred' \in Deferrals
    BY <1>1, <1>3, <1>7, Types, EndDeferredKeeps DEF IInv
  <1>9. At(op, hold, state', current', keyOf, closedToNew', ready, work)
    BY <1>6, <1>8, FewerNamed
  <1> QED
    BY <1>1, <1>4, <1>6, <1>8, <1>9 DEF IInv, Now, TypeOK, ClosedHoldsNothing, Holders, States,
                                        Currents, Deferrals, conn

-----------------------------------------------------------------------------
(* The invariant is one                                                    *)

LEMMA InitIInv == Init => IInv
  <1> SUFFICES ASSUME Init PROVE IInv
    OBVIOUS
  <1>1. NoOp \in Operation /\ NoOp.phase = "out" /\ NoOp.leased = {}
    BY BoundsAssumption DEF NoOp, NewOp, Operation
  <1>2. TypeOK
    BY <1>1 DEF Init, TypeOK
  <1>3. Now
    BY <1>1, NamesAssumption DEF Init, Now, At, KeysAt, UseAt, OpensAt, OpsAt
  <1> QED BY <1>2, <1>3 DEF Init, IInv, ClosedHoldsNothing

LEMMA NextIInv == IInv /\ [Next]_vars => IInv'
  <1> SUFFICES ASSUME IInv, [Next]_vars PROVE IInv'
    OBVIOUS
  <1>1. CASE Sweep \/ \E o \in Caller : Release(o)
    BY <1>1, SweepKeeps
  <1>2. CASE Close \/ CloseStep
    BY <1>2, CloseKeeps, CloseStepKeeps DEF CloseStep
  <1>3. ASSUME NEW o \in Caller, NEW k \in Key, Admit(o, k)
        PROVE  IInv'
    BY <1>3, AdmitKeeps
  <1>4. ASSUME NEW o \in Caller, Look(o)
        PROVE  IInv'
    BY <1>4, LookLeasesKeeps, LookJoinsKeeps, LookOpensKeeps, LookFullKeeps DEF Look
  <1>5. ASSUME NEW o \in Caller, OperationStep(o) \/ GiveUp(o) \/ Lose(o)
        PROVE  IInv'
    BY <1>4, <1>5, WaitLeasesKeeps, WaitLooksAgainKeeps, RefusalsKeep, HoldKeeps,
       HoldLooksAgainKeeps, SettleKeeps, LoseKeeps
       DEF OperationStep
  <1>6. ASSUME NEW c \in Client, ClientStep(c)
        PROVE  IInv'
    BY <1>6, OpenKeeps, OpenSettlesKeeps, EndingSettlesKeeps DEF ClientStep
  <1>7. ASSUME NEW t \in Ender, TerminateEnds(t) \/ \E scope \in SUBSET Key : Terminate(t, scope)
        PROVE  IInv'
    BY <1>7, TerminateKeeps, TerminateEndsKeeps
  <1>8. CASE UNCHANGED vars
    BY <1>8 DEF vars, conn, ends, IInv, Now, At, KeysAt, UseAt, OpensAt, OpsAt, TypeOK,
                ClosedHoldsNothing, Holders
  <1> QED BY <1>1, <1>2, <1>3, <1>5, <1>6, <1>7, <1>8 DEF Next

LEMMA AlwaysIInv == Spec => []IInv
  BY InitIInv, NextIInv, PTL DEF Spec

\* Every variable of the pool keeps its type (pool.ts, clientSet.ts, work.ts).
THEOREM TypeCorrect == Spec => []TypeOK
  <1>1. IInv => TypeOK
    BY DEF IInv
  <1> QED BY <1>1, AlwaysIInv, PTL

\* No client is ended, or dropped, while an operation or the app uses it, and
\* none is used that did not open in time (leaseOnceOpen, takeLease, endClient).
THEOREM InUseIsKept == Spec => []InUseStaysOpen
  <1>1. IInv => InUseStaysOpen
    BY DEF IInv, Now, At, UseAt, InUseStaysOpen, Reserves
  <1> QED BY <1>1, AlwaysIInv, PTL

\* No key is served by two clients (retire, admit of clientSet.ts, startOpen).
THEOREM OneClientServes == Spec => []OneServesAKey
  <1>1. IInv => OneServesAKey
    BY DEF IInv, Now, At, KeysAt, OneServesAKey, Serving
  <1> QED BY <1>1, AlwaysIInv, PTL

\* Nobody holds an app lease on a closed pool (acquire, revokeAllLeases).
THEOREM ClosedIsEmpty == Spec => []ClosedHoldsNothing
  <1>1. IInv => ClosedHoldsNothing
    BY DEF IInv
  <1> QED BY <1>1, AlwaysIInv, PTL

-----------------------------------------------------------------------------
(* The budgets                                                             *)

CallersIn(ops) == {o \in Caller : ops[o].phase # "out"}
OpenOf(st, kf, p) == {c \in OpenSet(st) : PrincipalOf[kf[c]] = p}

\* BudgetsHold of a state in the middle of a step.
BudgetsAt(ops, st, kf) ==
  /\ Cardinality(OpenSet(st)) <= MaxClients
  /\ \A p \in Principal : Cardinality(OpenOf(st, kf, p)) <= MaxClientsPerPrincipal
  /\ Cardinality(Ending(st)) <= MaxEnding
  /\ Cardinality(CallersIn(ops)) + Cardinality(Ending(st)) <= MaxOperations

LEMMA BudgetsHere ==
  /\ BudgetsHold <=> BudgetsAt(op, state, keyOf)
  /\ BudgetsHold' <=> BudgetsAt(op', state', keyOf')
  BY DEF BudgetsHold, BudgetsAt, CallersIn, OpenOf, Charged

\* What is counted is finite, and a part of it counts no more.
LEMMA Counts ==
  ASSUME NEW S, S \subseteq Client \/ S \subseteq Caller
  PROVE  /\ IsFiniteSet(S) /\ Cardinality(S) \in Nat
         /\ \A T \in SUBSET S : Cardinality(T) \in Nat /\ Cardinality(T) <= Cardinality(S)
  <1>1. IsFiniteSet(S)
    BY FinitenessAssumption, FS_Subset
  <1> QED BY <1>1, FS_Subset, FS_CardinalityType

LEMMA CountedSets ==
  ASSUME NEW ops, NEW st, NEW kf, NEW p
  PROVE  /\ OpenSet(st) \subseteq Client /\ OpenOf(st, kf, p) \subseteq Client
         /\ Ending(st) \subseteq Client /\ CallersIn(ops) \subseteq Caller
  BY DEF OpenSet, OpenOf, Ending, CallersIn

\* The budgets hold of less.
LEMMA LessIsWithin ==
  ASSUME NEW ops, NEW st, NEW kf, NEW ops2, NEW st2, NEW kf2,
         BudgetsAt(ops, st, kf),
         OpenSet(st2) \subseteq OpenSet(st), Ending(st2) \subseteq Ending(st),
         CallersIn(ops2) \subseteq CallersIn(ops),
         \A c \in OpenSet(st2) : kf2[c] = kf[c]
  PROVE  BudgetsAt(ops2, st2, kf2)
  <1>1. /\ Cardinality(OpenSet(st2)) <= Cardinality(OpenSet(st))
        /\ Cardinality(OpenSet(st2)) \in Nat /\ Cardinality(OpenSet(st)) \in Nat
    BY CountedSets, Counts
  <1>2. /\ Cardinality(Ending(st2)) <= Cardinality(Ending(st))
        /\ Cardinality(Ending(st2)) \in Nat /\ Cardinality(Ending(st)) \in Nat
    BY CountedSets, Counts
  <1>3. /\ Cardinality(CallersIn(ops2)) <= Cardinality(CallersIn(ops))
        /\ Cardinality(CallersIn(ops2)) \in Nat /\ Cardinality(CallersIn(ops)) \in Nat
    BY CountedSets, Counts
  <1>4. ASSUME NEW p \in Principal
        PROVE  Cardinality(OpenOf(st2, kf2, p)) <= MaxClientsPerPrincipal
    <2>1. OpenOf(st2, kf2, p) \subseteq OpenOf(st, kf, p)
      BY DEF OpenOf
    <2>2. /\ Cardinality(OpenOf(st2, kf2, p)) <= Cardinality(OpenOf(st, kf, p))
          /\ Cardinality(OpenOf(st2, kf2, p)) \in Nat /\ Cardinality(OpenOf(st, kf, p)) \in Nat
      BY <2>1, CountedSets, Counts
    <2> QED BY <2>2, BoundsAssumption DEF BudgetsAt
  <1> QED BY <1>1, <1>2, <1>3, <1>4, BoundsAssumption DEF BudgetsAt

\* Endings that found room are within the budgets.
LEMMA EndingsFit ==
  ASSUME NEW ops, NEW st \in States, NEW kf, NEW E \in SUBSET Client,
         BudgetsAt(ops, st, kf), \A c \in E : st[c] = "open",
         Cardinality(E) <= Room(ops, st)
  PROVE  /\ BudgetsAt(ops, Ended(st, E), kf)
         /\ Room(ops, Ended(st, E)) = Room(ops, st) - Cardinality(E)
  <1> DEFINE st2 == Ended(st, E)
  <1>1. \A c \in Client : st2[c] = IF c \in E THEN "ending" ELSE st[c]
    BY DEF Ended
  <1> HIDE DEF st2
  <1>2. Ending(st2) = Ending(st) \cup E /\ Ending(st) \cap E = {} /\ OpenSet(st2) \subseteq OpenSet(st)
    BY <1>1 DEF Ending, OpenSet
  <1>3. /\ IsFiniteSet(E) /\ Cardinality(E) \in Nat
        /\ IsFiniteSet(Ending(st)) /\ Cardinality(Ending(st)) \in Nat
        /\ Cardinality(CallersIn(ops)) \in Nat
    BY CountedSets, Counts
  <1>4. Cardinality(Ending(st2)) = Cardinality(Ending(st)) + Cardinality(E)
    <2>1. Cardinality(Ending(st) \cap E) = 0
      BY <1>2, FS_EmptySet
    <2>2. Cardinality(Ending(st) \cup E)
            = Cardinality(Ending(st)) + Cardinality(E) - Cardinality(Ending(st) \cap E)
      BY <1>3, FS_Union, Zenon
    <2> QED BY <1>2, <1>3, <2>1, <2>2
  <1>5. {MaxEnding, MaxOperations} \subseteq Nat
    BY BoundsAssumption
  <1>6. /\ Room(ops, st) <= MaxEnding - Cardinality(Ending(st))
        /\ Room(ops, st) <= MaxOperations - (Cardinality(CallersIn(ops)) + Cardinality(Ending(st)))
    BY <1>3, <1>5 DEF Room, Least, Charged, CallersIn
  <1>7. /\ Cardinality(Ending(st2)) <= MaxEnding
        /\ Cardinality(CallersIn(ops)) + Cardinality(Ending(st2)) <= MaxOperations
    <2>1. Room(ops, st) \in Int
      BY <1>3, <1>5 DEF Room, Least, Charged, CallersIn
    <2> QED BY <1>3, <1>4, <1>5, <1>6, <2>1
  <1>8. Room(ops, st2) = Room(ops, st) - Cardinality(E)
    BY <1>3, <1>4, <1>5 DEF Room, Least, Charged, CallersIn
  <1>9. /\ Cardinality(OpenSet(st2)) <= MaxClients
        /\ \A p \in Principal : Cardinality(OpenOf(st2, kf, p)) <= MaxClientsPerPrincipal
    <2>1. /\ Cardinality(OpenSet(st2)) <= Cardinality(OpenSet(st))
          /\ Cardinality(OpenSet(st2)) \in Nat /\ Cardinality(OpenSet(st)) \in Nat
      BY <1>2, CountedSets, Counts
    <2>2. ASSUME NEW p \in Principal
          PROVE  Cardinality(OpenOf(st2, kf, p)) <= MaxClientsPerPrincipal
      <3>1. OpenOf(st2, kf, p) \subseteq OpenOf(st, kf, p)
        BY <1>2 DEF OpenOf
      <3>2. /\ Cardinality(OpenOf(st2, kf, p)) <= Cardinality(OpenOf(st, kf, p))
            /\ Cardinality(OpenOf(st2, kf, p)) \in Nat /\ Cardinality(OpenOf(st, kf, p)) \in Nat
        BY <3>1, CountedSets, Counts
      <3> QED BY <3>2, BoundsAssumption DEF BudgetsAt
    <2> QED BY <2>1, <2>2, BoundsAssumption DEF BudgetsAt
  <1> QED BY <1>7, <1>8, <1>9 DEF BudgetsAt, st2

\* So are those of retryDeferred; and what still could end finds no room.
LEMMA EndDeferredFits ==
  ASSUME NEW ops, NEW hold, NEW st \in States, NEW cur, NEW df \in Deferrals, NEW kf,
         BudgetsAt(ops, st, kf), EndDeferred(ops, hold, st, cur, df)
  PROVE  /\ BudgetsAt(ops, state', kf)
         /\ Endable(ops, hold, state', deferred') = {} \/ Room(ops, state') <= 0
  <1> DEFINE able == Endable(ops, hold, st, df)
  <1>1. PICK E \in SUBSET able :
               /\ Cardinality(E) = Least(Cardinality(able), Room(ops, st))
               /\ state' = [c \in Client |-> IF c \in E THEN "ending" ELSE st[c]]
               /\ deferred' = [c \in Client |-> IF c \in E THEN "no" ELSE df[c]]
    BY DEF EndDeferred
  <1>2. able \subseteq Client /\ \A c \in able : st[c] = "open"
    BY DEF Endable
  <1>3. E \in SUBSET Client /\ Cardinality(E) \in Nat /\ Cardinality(able) \in Nat /\ IsFiniteSet(able)
    BY <1>1, <1>2, Counts
  <1>4. Room(ops, st) \in Int
    <2>1. Cardinality(Ending(st)) \in Nat /\ Cardinality(CallersIn(ops)) \in Nat
      BY CountedSets, Counts
    <2> QED BY <2>1, BoundsAssumption DEF Room, Least, Charged, CallersIn
  <1>5. Cardinality(E) <= Room(ops, st) /\ Cardinality(E) <= Cardinality(able)
    BY <1>1, <1>3, <1>4 DEF Least
  <1>6. state' = Ended(st, E)
    BY <1>1 DEF Ended
  <1>7. BudgetsAt(ops, state', kf) /\ Room(ops, state') = Room(ops, st) - Cardinality(E)
    BY <1>2, <1>3, <1>5, <1>6, EndingsFit
  <1>8. Endable(ops, hold, state', deferred') = able \ E
    BY <1>1, <1>2 DEF Endable
  <1>9. CASE Cardinality(E) = Cardinality(able)
    <2>1. E = able
      BY <1>1, <1>3, <1>9, FS_Subset
    <2> QED BY <1>7, <1>8, <2>1
  <1>10. CASE Cardinality(E) # Cardinality(able)
    <2>1. Cardinality(E) = Room(ops, st)
      BY <1>1, <1>10 DEF Least
    <2> QED BY <1>4, <1>7, <2>1
  <1> QED BY <1>9, <1>10

-----------------------------------------------------------------------------
(* What is put off, and what the parts of steps do to it                   *)

\* What waits to end does so for want of room.
PutOff(ops, hold, st, df) == Endable(ops, hold, st, df) = {} \/ Room(ops, st) <= 0

\* Only open clients are deferred, until close has named those that were opening;
\* and close has deferred each open one by the time it waits for them.
DoorAt(st, df, clients, d) ==
  \A c \in Client :
    /\ st[c] \in {"gone", "ending"} => df[c] = "no"
    /\ st[c] = "opening" /\ d # "closed" => df[c] = "no"
    /\ d = "ending" /\ c \in clients /\ st[c] = "open" => df[c] = "strong"

\* An operation that is over holds nothing.
OverIsNoOp(ops) == \A o \in Caller : ops[o].phase = "out" => ops[o] = NoOp

SInv ==
  /\ IInv /\ OverIsNoOp(op)
  /\ BudgetsAt(op, state, keyOf)
  /\ PutOff(op, held, state, deferred)
  /\ DoorAt(state, deferred, all, door)

\* What SInv says beyond IInv, of the step's outcome.
SlotsAfter ==
  /\ OverIsNoOp(op') /\ BudgetsAt(op', state', keyOf')
  /\ PutOff(op', held', state', deferred') /\ DoorAt(state', deferred', all', door')

LEMMA SInvAfter ==
  ASSUME IInv', SlotsAfter
  PROVE  SInv'
  BY DEF SInv, SlotsAfter

\* After retryDeferred, all of it holds.
LEMMA EndDeferredSlots ==
  ASSUME NEW ops, NEW hold, NEW st \in States, NEW cur, NEW df \in Deferrals, NEW kf,
         NEW clients, NEW d,
         BudgetsAt(ops, st, kf), DoorAt(st, df, clients, d), EndDeferred(ops, hold, st, cur, df)
  PROVE  /\ BudgetsAt(ops, state', kf) /\ PutOff(ops, hold, state', deferred')
         /\ DoorAt(state', deferred', clients, d)
  <1>1. BudgetsAt(ops, state', kf) /\ PutOff(ops, hold, state', deferred')
    BY EndDeferredFits DEF PutOff
  <1>2. PICK E \in SUBSET Endable(ops, hold, st, df) :
               /\ state' = [c \in Client |-> IF c \in E THEN "ending" ELSE st[c]]
               /\ deferred' = [c \in Client |-> IF c \in E THEN "no" ELSE df[c]]
    BY DEF EndDeferred
  <1>3. DoorAt(state', deferred', clients, d)
    BY <1>2 DEF DoorAt
  <1> QED BY <1>1, <1>3

\* A step that lets nothing more end, and frees no slot, leaves nothing to retry.
LEMMA StillPutOff ==
  ASSUME PutOff(op, held, state, deferred),
         NEW ops, NEW hold, NEW st, NEW df,
         CallersIn(op) \subseteq CallersIn(ops), Ending(state) \subseteq Ending(st),
         Endable(ops, hold, st, df) \subseteq Endable(op, held, state, deferred)
  PROVE  PutOff(ops, hold, st, df)
  <1>1. /\ Cardinality(Ending(state)) <= Cardinality(Ending(st))
        /\ Cardinality(Ending(state)) \in Nat /\ Cardinality(Ending(st)) \in Nat
    BY CountedSets, Counts
  <1>2. /\ Cardinality(CallersIn(op)) <= Cardinality(CallersIn(ops))
        /\ Cardinality(CallersIn(op)) \in Nat /\ Cardinality(CallersIn(ops)) \in Nat
    BY CountedSets, Counts
  <1>3. Room(op, state) <= 0 => Room(ops, st) <= 0
    BY <1>1, <1>2, BoundsAssumption DEF Room, Least, Charged, CallersIn
  <1> QED BY <1>3 DEF PutOff

\* Deferring open clients.
LEMMA DeferDoor ==
  ASSUME NEW st \in States, NEW df \in Deferrals, NEW clients, NEW d, NEW C, NEW why \in {"weak", "strong"},
         DoorAt(st, df, clients, d), \A c \in C : st[c] = "open"
  PROVE  DoorAt(st, Defer(df, C, why), clients, d)
  BY DEF DoorAt, Defer

\* The sweep at the start of an interaction.
LEMMA InteractSlots ==
  ASSUME SInv, NEW cur, NEW revoked \in SUBSET Holders, Interact(revoked, cur)
  PROVE  /\ BudgetsAt(op, state', keyOf) /\ PutOff(op, held', state', deferred')
         /\ DoorAt(state', deferred', all, door)
  <1>1. PICK idle \in SUBSET MaybeIdle(held') :
          EndDeferred(op, held', state, cur, Defer(deferred, idle, "weak"))
    BY DEF Interact
  <1>2. state \in States /\ deferred \in Deferrals /\ Defer(deferred, idle, "weak") \in Deferrals
    BY Types, DeferType DEF SInv, IInv
  <1>3. DoorAt(state, Defer(deferred, idle, "weak"), all, door)
    BY <1>2, DeferDoor DEF SInv, MaybeIdle
  <1> QED BY <1>1, <1>2, <1>3, EndDeferredSlots DEF SInv

\* An operation that is answered, settles or looks again is no new one.
LEMMA FewerCallers ==
  ASSUME SInv, NEW o \in Caller, op[o].phase # "out",
         \/ op' = [op EXCEPT ![o].phase = "answered", ![o].on = None]
         \/ op' = [op EXCEPT ![o] = NoOp]
  PROVE  CallersIn(op') \subseteq CallersIn(op) /\ OverIsNoOp(op')
  <1>1. op \in [Caller -> Operation]
    BY DEF SInv, IInv, TypeOK
  <1>2. \A q \in Caller : q # o => op'[q] = op[q]
    BY <1>1
  <1>3. op'[o].phase = "answered" \/ op'[o] = NoOp
    BY <1>1 DEF Operation
  <1> QED BY <1>2, <1>3 DEF CallersIn, OverIsNoOp, SInv

\* An answer, on top of what the step has done to the clients.
LEMMA AnswerSlots ==
  ASSUME SInv, NEW o \in Caller, op[o].phase # "out",
         NEW st \in States, NEW cur, NEW df \in Deferrals,
         BudgetsAt(op, st, keyOf), DoorAt(st, df, all, door),
         Answer(o, st, cur, df), UNCHANGED <<conn, held, ends>>
  PROVE  SlotsAfter
  <1>1. /\ \/ op' = [op EXCEPT ![o].phase = "answered", ![o].on = None]
           \/ op' = [op EXCEPT ![o] = NoOp]
        /\ EndDeferred(op', held, st, cur, df)
    BY DEF Answer
  <1>2. CallersIn(op') \subseteq CallersIn(op) /\ OverIsNoOp(op')
    BY <1>1, FewerCallers
  <1>3. BudgetsAt(op', st, keyOf)
    BY <1>2, LessIsWithin
  <1> QED BY <1>1, <1>2, <1>3, EndDeferredSlots DEF SlotsAfter, conn, ends

-----------------------------------------------------------------------------
(* Each action keeps the budgets, and leaves nothing to retry              *)

LEMMA SweepSlots ==
  ASSUME SInv, Sweep \/ \E o \in Caller : Release(o)
  PROVE  SlotsAfter
  <1>1. PICK revoked \in SUBSET Holders : Interact(revoked, current)
    BY DEF Sweep, Release
  <1>2. UNCHANGED <<conn, op, ends>>
    BY DEF Sweep, Release
  <1> QED BY <1>1, <1>2, InteractSlots DEF SlotsAfter, SInv, conn, ends

LEMMA AdmitSlots ==
  ASSUME SInv, NEW o \in Caller, NEW k \in Key, Admit(o, k)
  PROVE  SlotsAfter
  <1>1. PICK revoked \in SUBSET Holders : Interact(revoked, current)
    BY DEF Admit
  <1>2. /\ UNCHANGED <<conn, ends>> /\ Charged(op, state') < MaxOperations
        /\ op' = [op EXCEPT ![o] = NewOp("looking", k)] /\ op[o].phase = "out"
    BY DEF Admit
  <1>3. /\ BudgetsAt(op, state', keyOf) /\ PutOff(op, held', state', deferred')
        /\ DoorAt(state', deferred', all, door)
    BY <1>1, InteractSlots
  <1>4. /\ \A q \in Caller : q # o => op'[q] = op[q]
        /\ op'[o].phase = "looking" /\ op'[o].leased = {} /\ op[o].leased = {}
    BY <1>2 DEF SInv, IInv, TypeOK, OverIsNoOp, NoOp, NewOp
  <1>5. CallersIn(op') = CallersIn(op) \cup {o} /\ o \notin CallersIn(op)
    BY <1>2, <1>4 DEF CallersIn
  <1>6. /\ Cardinality(CallersIn(op')) = Cardinality(CallersIn(op)) + 1
        /\ Cardinality(CallersIn(op)) \in Nat /\ Cardinality(Ending(state')) \in Nat
    <2>1. /\ IsFiniteSet(CallersIn(op)) /\ Cardinality(CallersIn(op)) \in Nat
          /\ Cardinality(Ending(state')) \in Nat
      BY CountedSets, Counts
    <2>2. Cardinality(CallersIn(op) \cup {o}) = Cardinality(CallersIn(op)) + 1
      BY <1>5, <2>1, FS_AddElement
    <2> QED BY <1>5, <2>1, <2>2
  <1>7. BudgetsAt(op', state', keyOf)
    BY <1>2, <1>3, <1>6, BoundsAssumption DEF BudgetsAt, Charged, CallersIn
  <1>8. \A c \in Client : Uses(c, op', held') <=> Uses(c, op, held')
    BY <1>2, <1>4 DEF Uses, Leases, Reserves
  <1>9. Endable(op', held', state', deferred') = Endable(op, held', state', deferred')
    BY <1>8 DEF Endable
  <1>10. Room(op, state') <= 0 => Room(op', state') <= 0
    BY <1>6, BoundsAssumption DEF Room, Least, Charged, CallersIn
  <1>11. OverIsNoOp(op')
    BY <1>4 DEF OverIsNoOp, SInv
  <1> QED BY <1>2, <1>3, <1>7, <1>9, <1>10, <1>11 DEF SlotsAfter, PutOff, conn, ends

LEMMA RefuseSlots ==
  ASSUME SInv, NEW o \in Caller, op[o].phase # "out", Refuse(o)
  PROVE  SlotsAfter
  <1>1. Answer(o, state, current, deferred) /\ UNCHANGED <<conn, held, ends>>
    BY DEF Refuse
  <1>2. state \in States /\ deferred \in Deferrals
    BY Types DEF SInv, IInv
  <1> QED BY <1>1, <1>2, AnswerSlots DEF SInv

LEMMA SettleSlots ==
  ASSUME SInv, NEW o \in Caller, Settle(o)
  PROVE  SlotsAfter
  <1>1. /\ op' = [op EXCEPT ![o] = NoOp] /\ op[o].phase # "out"
        /\ EndDeferred(op', held, state, current, deferred) /\ UNCHANGED <<conn, held, ends>>
    BY DEF Settle
  <1>2. state \in States /\ deferred \in Deferrals
    BY Types DEF SInv, IInv
  <1>3. CallersIn(op') \subseteq CallersIn(op) /\ OverIsNoOp(op')
    BY <1>1, FewerCallers
  <1>4. BudgetsAt(op', state, keyOf)
    BY <1>3, LessIsWithin DEF SInv
  <1> QED BY <1>1, <1>2, <1>3, <1>4, EndDeferredSlots DEF SInv, SlotsAfter, conn, ends

\* Steps that change no client: only what uses them, and how they are put off.
LEMMA UsedMore ==
  ASSUME SInv, NEW o \in Caller, op[o].phase # "out",
         op' = [op EXCEPT ![o] = op'[o]], op'[o].phase # "out",
         \A c \in Client : Leases(op[o], c) \/ Reserves(op[o], c) =>
                             Leases(op'[o], c) \/ Reserves(op'[o], c),
         UNCHANGED <<state, conn, held, ends>>,
         \A c \in Client : deferred'[c] = deferred[c]
                             \/ (deferred[c] = "weak" /\ deferred'[c] = "no")
  PROVE  SlotsAfter
  <1>1. \A q \in Caller : q # o => op'[q] = op[q]
    BY DEF SInv, IInv, TypeOK
  <1>2. CallersIn(op') = CallersIn(op) /\ OverIsNoOp(op')
    BY <1>1 DEF CallersIn, OverIsNoOp, SInv
  <1>3. BudgetsAt(op', state, keyOf)
    BY <1>2, LessIsWithin DEF SInv
  <1>4. \A c \in Client : Uses(c, op, held) => Uses(c, op', held)
    BY <1>1 DEF Uses
  <1>5. Endable(op', held, state, deferred') \subseteq Endable(op, held, state, deferred)
    BY <1>4 DEF Endable
  <1>6. PutOff(op', held, state, deferred')
    BY <1>2, <1>5, StillPutOff DEF SInv
  <1>7. DoorAt(state, deferred', all, door)
    BY DEF DoorAt, SInv
  <1> QED BY <1>2, <1>3, <1>6, <1>7 DEF SlotsAfter, conn, ends

LEMMA TakeLeaseSlots ==
  ASSUME SInv, NEW o \in Caller, NEW c \in Client, op[o].phase # "out",
         op[o].phase = "waiting" => op[o].on = c,
         TakeLease(o, c)
  PROVE  SlotsAfter
  <1>1. op \in [Caller -> Operation] /\ deferred \in Deferrals
    BY Types DEF SInv, IInv, TypeOK
  <1>2. op' = [op EXCEPT ![o].phase = "leased", ![o].on = c, ![o].leased = @ \cup {c}]
    BY DEF TakeLease
  <1>3. op'[o].phase = "leased" /\ op'[o].leased = op[o].leased \cup {c}
        /\ op' = [op EXCEPT ![o] = op'[o]]
    BY <1>1, <1>2 DEF Operation
  <1>4. \A d \in Client : Leases(op[o], d) \/ Reserves(op[o], d) => Leases(op'[o], d)
    BY <1>3 DEF Leases, Reserves
  <1>5. \A d \in Client : deferred'[d] = deferred[d]
                            \/ (deferred[d] = "weak" /\ deferred'[d] = "no")
    BY <1>1 DEF TakeLease, UsedAgain, Deferrals
  <1> QED BY <1>3, <1>4, <1>5, UsedMore DEF TakeLease

LEMMA LookSlots ==
  ASSUME SInv, NEW o \in Caller, LookLeases(o) \/ LookJoins(o)
  PROVE  SlotsAfter
  <1> DEFINE c == current[op[o].key]
  <1>1. op[o].phase = "looking" /\ c # None /\ c \in Client
    BY CurrentIsReady DEF LookLeases, LookJoins, SInv, IInv, Now, At, OpsAt
  <1>2. CASE Refuse(o)
    BY <1>1, <1>2, RefuseSlots
  <1>3. CASE TakeLease(o, c)
    BY <1>1, <1>3, TakeLeaseSlots
  <1>4. CASE /\ op' = [op EXCEPT ![o].phase = "waiting", ![o].on = c]
             /\ UNCHANGED <<state, conn, closedToNew, deferred, current, held, ends>>
    <2> DEFINE waits == [op[o] EXCEPT !.phase = "waiting", !.on = c]
    <2>1. op \in [Caller -> Operation] /\ op[o] \in Operation
      BY DEF SInv, IInv, TypeOK
    <2>2. waits.phase = "waiting" /\ waits.leased = op[o].leased
      BY <2>1 DEF Operation
    <2>3. op' = [op EXCEPT ![o] = waits]
      BY <1>4
    <2> HIDE DEF waits
    <2>4. op'[o] = waits /\ op' = [op EXCEPT ![o] = op'[o]]
      BY <2>1, <2>3
    <2>5. \A d \in Client : Leases(op[o], d) \/ Reserves(op[o], d) => Leases(op'[o], d)
      BY <1>1, <2>2, <2>4 DEF Leases, Reserves
    <2> QED BY <1>1, <1>4, <2>2, <2>4, <2>5, UsedMore
  <1>5. CASE LookLeases(o)
    BY <1>2, <1>3, <1>5, Zenon DEF LookLeases
  <1>6. CASE LookJoins(o)
    <2>1. CASE ready[c] = "timeout"
      BY <1>2, <1>6, <2>1, Zenon DEF LookJoins
    <2>2. CASE ready[c] # "timeout"
      BY <1>4, <1>6, <2>2, Zenon DEF LookJoins
    <2> QED BY <2>1, <2>2
  <1> QED BY <1>5, <1>6

LEMMA HoldLooksAgainSlots ==
  ASSUME SInv, NEW o \in Caller, HoldLooksAgain(o)
  PROVE  SlotsAfter
  <1>1. /\ op' = [op EXCEPT ![o].phase = "looking", ![o].on = None,
                            ![o].round = 0, ![o].try = @ + 1]
        /\ op[o].phase = "leased"
        /\ UNCHANGED <<state, conn, closedToNew, deferred, current, held, ends>>
    BY DEF HoldLooksAgain
  <1>2. op'[o].phase = "looking" /\ op'[o].leased = op[o].leased
        /\ op' = [op EXCEPT ![o] = op'[o]]
    BY <1>1 DEF SInv, IInv, TypeOK, Operation
  <1>3. \A d \in Client : Leases(op[o], d) \/ Reserves(op[o], d) => Leases(op'[o], d)
    BY <1>1, <1>2 DEF Leases, Reserves
  <1> QED BY <1>1, <1>2, <1>3, UsedMore

LEMMA WaitLooksAgainSlots ==
  ASSUME SInv, NEW o \in Caller, WaitLooksAgain(o)
  PROVE  SlotsAfter
  <1>1. /\ op' = [op EXCEPT ![o].phase = "looking", ![o].on = None, ![o].round = @ + 1]
        /\ op[o].phase = "waiting"
        /\ EndDeferred(op', held, state, current, deferred)
        /\ UNCHANGED <<conn, closedToNew, held, ends>>
    BY DEF WaitLooksAgain
  <1>2. state \in States /\ deferred \in Deferrals /\ op \in [Caller -> Operation]
    BY Types DEF SInv, IInv, TypeOK
  <1>3. op'[o].phase = "looking" /\ \A q \in Caller : q # o => op'[q] = op[q]
    BY <1>1, <1>2 DEF Operation
  <1>4. CallersIn(op') \subseteq CallersIn(op) /\ OverIsNoOp(op')
    BY <1>1, <1>3 DEF CallersIn, OverIsNoOp, SInv
  <1>5. BudgetsAt(op', state, keyOf)
    BY <1>4, LessIsWithin DEF SInv
  <1> QED BY <1>1, <1>2, <1>4, <1>5, EndDeferredSlots DEF SInv, SlotsAfter, conn, ends

LEMMA HoldSlots ==
  ASSUME SInv, NEW o \in Caller, Hold(o)
  PROVE  SlotsAfter
  <1> DEFINE c == op[o].on
  <1>1. /\ op[o].phase = "leased" /\ UNCHANGED <<conn, closedToNew, ends>>
        /\ op' = [op EXCEPT ![o].phase = "answered", ![o].on = None] \/ op' = [op EXCEPT ![o] = NoOp]
        /\ EndDeferred(op', held', state, current, UsedAgain(c))
    BY DEF Hold
  <1>2. state \in States /\ deferred \in Deferrals
    BY Types DEF SInv, IInv
  <1>3. /\ UsedAgain(c) \in Deferrals
        /\ \A d \in Client : UsedAgain(c)[d] = deferred[d]
                               \/ (deferred[d] = "weak" /\ UsedAgain(c)[d] = "no")
    BY <1>2 DEF UsedAgain, Deferrals
  <1>4. DoorAt(state, UsedAgain(c), all, door)
    BY <1>3 DEF SInv, DoorAt
  <1>5. CallersIn(op') \subseteq CallersIn(op) /\ OverIsNoOp(op')
    BY <1>1, FewerCallers
  <1>6. BudgetsAt(op', state, keyOf)
    BY <1>5, LessIsWithin DEF SInv
  <1> QED BY <1>1, <1>2, <1>3, <1>4, <1>5, <1>6, EndDeferredSlots DEF SlotsAfter, conn, ends

LEMMA LoseSlots ==
  ASSUME SInv, NEW o \in Caller, Lose(o)
  PROVE  SlotsAfter
  <1> DEFINE c == op[o].on
  <1>1. /\ op[o].phase = "leased" /\ deferred' = Defer(deferred, {c}, "strong")
        /\ UNCHANGED <<state, conn, op, held, ends>>
    BY DEF Lose
  <1>2. c \in Client /\ Uses(c, op, held) /\ state[c] = "open"
    BY <1>1 DEF SInv, IInv, Now, At, OpsAt, UseAt, Uses, Leases
  <1>3. \A d \in Client : d # c => deferred'[d] = deferred[d]
    BY <1>1 DEF Defer
  <1>4. Endable(op, held, state, deferred') \subseteq Endable(op, held, state, deferred)
    BY <1>2, <1>3 DEF Endable
  <1>5. PutOff(op, held, state, deferred')
    BY <1>4, StillPutOff DEF SInv
  <1>6. DoorAt(state, deferred', all, door)
    BY <1>1, <1>2, Types, DeferDoor DEF SInv, IInv
  <1> QED BY <1>1, <1>5, <1>6 DEF SlotsAfter, SInv, conn, ends

\* One more client in the open set, where each budget leaves room for one.
LEMMA OneMoreFits ==
  ASSUME NEW st \in States, NEW kf, NEW kf2, NEW c \in Client, NEW k \in Key, st[c] = "gone",
         BudgetsAt(op, st, kf), CallersIn(op') = CallersIn(op),
         Cardinality(OpenSet(st)) < MaxClients,
         Cardinality(OpenOf(st, kf, PrincipalOf[k])) < MaxClientsPerPrincipal,
         kf2 = [kf EXCEPT ![c] = k], kf \in [Client -> Key \cup {None}]
  PROVE  BudgetsAt(op', [st EXCEPT ![c] = "opening"], kf2)
  <1> DEFINE st2 == [st EXCEPT ![c] = "opening"]
  <1>1. \A d \in Client : /\ st2[d] = IF d = c THEN "opening" ELSE st[d]
                          /\ kf2[d] = IF d = c THEN k ELSE kf[d]
    BY DEF States
  <1> HIDE DEF st2
  <1>2. /\ OpenSet(st2) = OpenSet(st) \cup {c} /\ c \notin OpenSet(st)
        /\ Ending(st2) = Ending(st)
    BY <1>1 DEF OpenSet, Ending
  <1>3. Cardinality(OpenSet(st2)) <= MaxClients
    <2>1. IsFiniteSet(OpenSet(st)) /\ Cardinality(OpenSet(st)) \in Nat
      BY CountedSets, Counts
    <2>2. Cardinality(OpenSet(st) \cup {c}) = Cardinality(OpenSet(st)) + 1
      BY <1>2, <2>1, FS_AddElement
    <2> QED BY <1>2, <2>1, <2>2, BoundsAssumption
  <1>4. ASSUME NEW p \in Principal
        PROVE  Cardinality(OpenOf(st2, kf2, p)) <= MaxClientsPerPrincipal
    <2>1. /\ IsFiniteSet(OpenOf(st, kf, p)) /\ Cardinality(OpenOf(st, kf, p)) \in Nat
          /\ c \notin OpenOf(st, kf, p)
      BY <1>2, CountedSets, Counts DEF OpenOf
    <2>2. CASE p = PrincipalOf[k]
      <3>1. OpenOf(st2, kf2, p) = OpenOf(st, kf, p) \cup {c}
        BY <1>1, <2>2 DEF OpenOf, OpenSet
      <3>2. Cardinality(OpenOf(st, kf, p) \cup {c}) = Cardinality(OpenOf(st, kf, p)) + 1
        BY <2>1, FS_AddElement, Zenon
      <3>3. /\ Cardinality(OpenOf(st2, kf2, p)) = Cardinality(OpenOf(st, kf, p)) + 1
            /\ Cardinality(OpenOf(st, kf, p)) < MaxClientsPerPrincipal
        BY <2>2, <3>1, <3>2, Zenon
      <3> QED BY <2>1, <3>3, BoundsAssumption
    <2>3. CASE p # PrincipalOf[k]
      <3>1. OpenOf(st2, kf2, p) = OpenOf(st, kf, p)
        BY <1>1, <1>2, <2>3 DEF OpenOf, OpenSet
      <3> QED BY <3>1 DEF BudgetsAt
    <2> QED BY <2>2, <2>3
  <1> QED BY <1>2, <1>3, <1>4 DEF BudgetsAt, st2

\* An open takes its place in the open set, and frees nothing.
LEMMA StartOpenSlots ==
  ASSUME SInv, NEW o \in Caller, NEW c \in Client, NEW cur, NEW st \in States,
         op[o].phase = "looking", op[o].key \in Key,
         StartOpen(o, c, st, cur), st[c] = "gone", deferred'[c] = "no",
         BudgetsAt(op, st, keyOf),
         Cardinality(OpenSet(st)) < MaxClients,
         Cardinality(OpenOf(st, keyOf, PrincipalOf[op[o].key])) < MaxClientsPerPrincipal,
         \A d \in Client : \/ st[d] = state[d] /\ deferred'[d] = deferred[d]
                           \/ st[d] = "ending" /\ deferred'[d] = "no",
         Ending(state) \subseteq Ending(st)
  PROVE  SlotsAfter
  <1>1. /\ state' = [st EXCEPT ![c] = "opening"]
        /\ keyOf' = [keyOf EXCEPT ![c] = op[o].key]
        /\ op' = [op EXCEPT ![o].phase = "waiting", ![o].on = c]
        /\ UNCHANGED <<held, ends>>
    BY DEF StartOpen
  <1>2. /\ op \in [Caller -> Operation] /\ keyOf \in [Client -> Key \cup {None}]
        /\ deferred \in Deferrals
    BY Types DEF SInv, IInv, TypeOK
  <1>3. /\ \A q \in Caller : q # o => op'[q] = op[q]
        /\ op'[o].phase = "waiting" /\ op'[o].leased = op[o].leased
    BY <1>1, <1>2 DEF Operation
  <1>4. CallersIn(op') = CallersIn(op) /\ OverIsNoOp(op')
    BY <1>3 DEF CallersIn, OverIsNoOp, SInv
  <1>5. BudgetsAt(op', state', keyOf')
    BY <1>1, <1>2, <1>4, OneMoreFits
  <1>6. \A d \in Client : state'[d] = IF d = c THEN "opening" ELSE st[d]
    BY <1>1 DEF States
  <1>7. \A d \in Client : Uses(d, op, held) => Uses(d, op', held)
    BY <1>3 DEF Uses, Leases, Reserves
  <1>8. Endable(op', held, state', deferred') \subseteq Endable(op, held, state, deferred)
    BY <1>6, <1>7 DEF Endable
  <1>9. Ending(state) \subseteq Ending(state')
    BY <1>6 DEF Ending
  <1>10. PutOff(op', held, state', deferred')
    BY <1>4, <1>8, <1>9, StillPutOff DEF SInv
  <1>11. DoorAt(state', deferred', all, door)
    BY <1>6 DEF DoorAt, SInv
  <1> QED BY <1>1, <1>4, <1>5, <1>10, <1>11 DEF SlotsAfter, ends

\* makeRoom: nobody has to go, so each budget leaves room for one.
LEMMA NoCrowd ==
  ASSUME NEW k \in Key, Crowd(k) = {}
  PROVE  /\ Cardinality(OpenSet(state)) < MaxClients
         /\ Cardinality(OpenOf(state, keyOf, PrincipalOf[k])) < MaxClientsPerPrincipal
  <1> DEFINE mine == OpenOf(state, keyOf, PrincipalOf[k])
  <1>1. Crowd(k) = IF Cardinality(mine) >= MaxClientsPerPrincipal THEN mine
                   ELSE IF Cardinality(OpenSet(state)) >= MaxClients THEN OpenSet(state) ELSE {}
    BY DEF Crowd, OpenOf
  <1>2. /\ Cardinality(mine) \in Nat /\ Cardinality(OpenSet(state)) \in Nat
        /\ {MaxClients, MaxClientsPerPrincipal} \subseteq Nat \ {0}
    BY CountedSets, Counts, BoundsAssumption
  <1>3. Cardinality({}) = 0
    BY FS_EmptySet
  <1> HIDE DEF mine
  <1>4. Cardinality(mine) < MaxClientsPerPrincipal
    BY <1>1, <1>2, <1>3
  <1>5. Cardinality(OpenSet(state)) < MaxClients
    BY <1>1, <1>2, <1>3, <1>4
  <1> QED BY <1>4, <1>5 DEF mine

\* Once a victim has gone, each budget leaves room for one as well.
LEMMA VictimMakesRoom ==
  ASSUME SInv, NEW k \in Key, NEW v \in Victims(k), NEW st, st = [state EXCEPT ![v] = "ending"]
  PROVE  /\ Cardinality(OpenSet(st)) < MaxClients
         /\ Cardinality(OpenOf(st, keyOf, PrincipalOf[k])) < MaxClientsPerPrincipal
  <1> DEFINE mine == OpenOf(state, keyOf, PrincipalOf[k])
             mine2 == OpenOf(st, keyOf, PrincipalOf[k])
  <1>1. v \in Client /\ v \in Crowd(k) /\ v \in OpenSet(state) /\ PrincipalOf[k] \in Principal
    BY PrincipalAssumption DEF Victims, Crowd, OpenSet
  <1>2. OpenSet(st) = OpenSet(state) \ {v}
    BY <1>1 DEF OpenSet, SInv, IInv, TypeOK
  <1>3. mine2 = mine \ {v}
    BY <1>2 DEF OpenOf
  <1>4. /\ IsFiniteSet(mine) /\ IsFiniteSet(OpenSet(state))
        /\ Cardinality(mine) \in Nat /\ Cardinality(OpenSet(state)) \in Nat
        /\ Cardinality(mine2) \in Nat /\ Cardinality(OpenSet(st)) \in Nat
        /\ {MaxClients, MaxClientsPerPrincipal} \subseteq Nat \ {0}
    BY CountedSets, Counts, BoundsAssumption
  <1>5. Cardinality(mine) <= MaxClientsPerPrincipal /\ Cardinality(OpenSet(state)) <= MaxClients
    BY <1>1 DEF SInv, BudgetsAt
  <1>6. Cardinality(OpenSet(state) \ {v}) = Cardinality(OpenSet(state)) - 1
    BY <1>1, <1>4, FS_RemoveElement, Zenon
  <1>7. Cardinality(mine2) < MaxClientsPerPrincipal
    <2>1. CASE v \in mine
      <3>1. Cardinality(mine \ {v}) = Cardinality(mine) - 1
        BY <1>4, <2>1, FS_RemoveElement, Zenon
      <3> HIDE DEF mine, mine2
      <3> QED BY <1>3, <1>4, <1>5, <3>1
    <2>2. CASE v \notin mine
      <3>1. ~(Cardinality(mine) >= MaxClientsPerPrincipal)
        BY <1>1, <2>2 DEF Crowd, OpenOf
      <3>2. mine2 = mine
        BY <1>3, <2>2
      <3> HIDE DEF mine, mine2
      <3> QED BY <1>4, <3>1, <3>2
    <2> QED BY <2>1, <2>2
  <1> HIDE DEF mine, mine2
  <1>8. Cardinality(OpenSet(st)) < MaxClients
    <2>1. Cardinality(OpenSet(st)) = Cardinality(OpenSet(state)) - 1
      BY <1>2, <1>6, Zenon
    <2> QED BY <1>4, <1>5, <2>1
  <1> QED BY <1>7, <1>8 DEF mine2

\* An eviction that found its slots is within the budgets.
LEMMA EvictSlots ==
  ASSUME SInv, NEW k \in Key, NEW v \in Victims(k), Room(op, state) > 0
  PROVE  /\ BudgetsAt(op, [state EXCEPT ![v] = "ending"], keyOf)
         /\ DoorAt([state EXCEPT ![v] = "ending"], [deferred EXCEPT ![v] = "no"], all, door)
         /\ v \in Client /\ state[v] = "open"
  <1>1. v \in Client /\ state[v] = "open" /\ state \in States /\ deferred \in Deferrals
    BY EvictKeeps, Types DEF SInv, IInv
  <1>2. Cardinality({v}) = 1 /\ Room(op, state) \in Int
    <2>2. Cardinality({v}) = 1
      BY FS_Singleton, Zenon
    <2>1. Cardinality(Ending(state)) \in Nat /\ Cardinality(CallersIn(op)) \in Nat
      BY CountedSets, Counts
    <2> QED BY <2>1, <2>2, BoundsAssumption DEF Room, Least, Charged, CallersIn
  <1>3. BudgetsAt(op, Ended(state, {v}), keyOf)
    BY <1>1, <1>2, EndingsFit DEF SInv
  <1>4. Ended(state, {v}) = [state EXCEPT ![v] = "ending"]
    BY <1>1 DEF Ended, States
  <1>5. DoorAt([state EXCEPT ![v] = "ending"], [deferred EXCEPT ![v] = "no"], all, door)
    BY <1>1 DEF SInv, DoorAt, States, Deferrals
  <1> QED BY <1>1, <1>3, <1>4, <1>5

LEMMA LookOpensSlots ==
  ASSUME SInv, NEW o \in Caller, NEW c \in Client,
         LookOpens(o, c) \/ \E v \in Client : LookEvicts(o, c, v)
  PROVE  SlotsAfter
  <1>1. /\ op[o].phase = "looking" /\ op[o].key \in Key
        /\ state \in States /\ deferred \in Deferrals
    BY Types DEF LookOpens, LookEvicts, SInv, IInv, Now, At, OpsAt
  <1>2. CASE LookOpens(o, c)
    <2>1. Crowd(op[o].key) = {} /\ StartOpen(o, c, state, current) /\ deferred' = deferred
      BY <1>2 DEF LookOpens
    <2>2. state[c] = "gone" /\ deferred[c] = "no"
      BY <2>1 DEF StartOpen, Unused, SInv, DoorAt
    <2> QED BY <1>1, <2>1, <2>2, NoCrowd, StartOpenSlots DEF SInv
  <1>3. ASSUME NEW v \in Client, LookEvicts(o, c, v)
        PROVE  SlotsAfter
    <2> DEFINE st == [state EXCEPT ![v] = "ending"]
    <2>1. /\ v \in Victims(op[o].key) /\ StartOpen(o, c, st, Retired({v}))
          /\ deferred' = [deferred EXCEPT ![v] = "no"] /\ Room(op, state) > 0
      BY <1>3 DEF LookEvicts
    <2>2. BudgetsAt(op, st, keyOf) /\ state[v] = "open"
      BY <1>1, <2>1, EvictSlots
    <2>3. /\ st \in States
          /\ \A d \in Client : /\ st[d] = IF d = v THEN "ending" ELSE state[d]
                               /\ deferred'[d] = IF d = v THEN "no" ELSE deferred[d]
      BY <1>1, <2>1 DEF States, Deferrals
    <2>4. Cardinality(OpenSet(st)) < MaxClients
          /\ Cardinality(OpenOf(st, keyOf, PrincipalOf[op[o].key])) < MaxClientsPerPrincipal
      BY <1>1, <2>1, VictimMakesRoom
    <2>5. state[c] = "gone" /\ deferred[c] = "no"
      BY <2>1 DEF StartOpen, Unused, SInv, DoorAt
    <2> HIDE DEF st
    <2>6. st[c] = "gone" /\ deferred'[c] = "no" /\ Ending(state) \subseteq Ending(st)
      BY <2>2, <2>3, <2>5 DEF Ending
    <2> QED BY <1>1, <2>1, <2>2, <2>3, <2>4, <2>6, StartOpenSlots
  <1> QED BY <1>2, <1>3

LEMMA LookFullSlots ==
  ASSUME SInv, NEW o \in Caller, LookFull(o) \/ LookPlanFails(o)
  PROVE  SlotsAfter
  <1>1. /\ op[o].phase = "looking" /\ op[o].key \in Key
        /\ state \in States /\ deferred \in Deferrals
        /\ UNCHANGED <<conn, held, ends>>
    BY Types DEF LookFull, LookPlanFails, SInv, IInv, Now, At, OpsAt
  <1>2. CASE Answer(o, state, current, deferred)
    BY <1>1, <1>2, AnswerSlots DEF SInv
  <1>3. ASSUME NEW v \in Victims(op[o].key), Answer(o, state, current, Defer(deferred, {v}, "weak"))
        PROVE  SlotsAfter
    <2>1. state[v] = "open"
      BY DEF Victims
    <2>2. DoorAt(state, Defer(deferred, {v}, "weak"), all, door)
      BY <1>1, <2>1, DeferDoor DEF SInv
    <2> QED BY <1>1, <1>3, <2>2, AnswerSlots, DeferType DEF SInv
  <1>4. ASSUME NEW v \in Victims(op[o].key), Room(op, state) > 0,
               Answer(o, [state EXCEPT ![v] = "ending"], Retired({v}), [deferred EXCEPT ![v] = "no"])
        PROVE  SlotsAfter
    <2>1. [state EXCEPT ![v] = "ending"] \in States /\ [deferred EXCEPT ![v] = "no"] \in Deferrals
      BY <1>1, EvictKeeps DEF SInv
    <2> QED BY <1>1, <1>4, <2>1, EvictSlots, AnswerSlots
  <1> QED BY <1>2, <1>3, <1>4 DEF LookFull, LookPlanFails

LEMMA OpenSlots ==
  ASSUME SInv, NEW c \in Client, OpenTimesOut(c) \/ OpenSucceeds(c) \/ OpenFails(c)
  PROVE  SlotsAfter
  <1>1. UNCHANGED <<keyOf, deferred, op, held, ends>>
    BY DEF OpenTimesOut, OpenSucceeds, OpenFails
  <1>2. \/ state' = state
        \/ /\ state[c] = "opening" /\ deferred[c] = "no" /\ door = "open"
           /\ \A d \in Client : state'[d] = IF d = c THEN "open" ELSE state[d]
    BY DEF OpenTimesOut, OpenSucceeds, OpenFails, SInv, IInv, TypeOK, Now, At, OpensAt, DoorAt
  <1>3. OpenSet(state') = OpenSet(state) /\ Ending(state') = Ending(state)
    BY <1>2 DEF OpenSet, Ending
  <1>4. BudgetsAt(op, state', keyOf)
    BY <1>3, LessIsWithin DEF SInv
  <1>5. Endable(op, held, state', deferred) \subseteq Endable(op, held, state, deferred)
    BY <1>2 DEF Endable
  <1>6. PutOff(op, held, state', deferred)
    BY <1>3, <1>5, StillPutOff DEF SInv
  <1>7. DoorAt(state', deferred, all, door)
    BY <1>2 DEF DoorAt, SInv
  <1> QED BY <1>1, <1>4, <1>6, <1>7 DEF SlotsAfter, SInv, ends

\* A client that is gone frees its slots, and what waited for them is retried.
LEMMA FreedSlots ==
  ASSUME SInv, NEW c \in Client, Freed(c), Forgets(c), UNCHANGED <<op, held, ends>>
  PROVE  SlotsAfter
  <1> DEFINE st == [state EXCEPT ![c] = "gone"]
             df == [deferred EXCEPT ![c] = "no"]
  <1>1. EndDeferred(op, held, st, Retired({c}), df) /\ keyOf' = [keyOf EXCEPT ![c] = None]
    BY DEF Freed, Forgets
  <1>2. /\ st \in States /\ df \in Deferrals
        /\ \A d \in Client : /\ st[d] = IF d = c THEN "gone" ELSE state[d]
                             /\ df[d] = IF d = c THEN "no" ELSE deferred[d]
                             /\ d # c => keyOf'[d] = keyOf[d]
    BY <1>1 DEF SInv, IInv, TypeOK, States, Deferrals
  <1> HIDE DEF st, df
  <1>3. /\ OpenSet(st) \subseteq OpenSet(state) /\ Ending(st) \subseteq Ending(state)
        /\ \A d \in OpenSet(st) : keyOf'[d] = keyOf[d]
    BY <1>2 DEF OpenSet, Ending
  <1>4. BudgetsAt(op, st, keyOf')
    BY <1>3, LessIsWithin DEF SInv
  <1>5. DoorAt(st, df, all, door)
    BY <1>2 DEF DoorAt, SInv
  <1> QED BY <1>1, <1>2, <1>4, <1>5, EndDeferredSlots DEF SInv, SlotsAfter, ends

LEMMA SettlesSlots ==
  ASSUME SInv, NEW c \in Client, OpenSettles(c) \/ EndingSettles(c)
  PROVE  SlotsAfter
  <1>1. UNCHANGED <<op, held, ends>>
    BY DEF OpenSettles, EndingSettles
  <1>2. CASE Freed(c) /\ Forgets(c)
    BY <1>1, <1>2, FreedSlots
  <1>3. CASE UNCHANGED <<state, keyOf, closedToNew, deferred, current>>
    BY <1>1, <1>3 DEF SlotsAfter, SInv, ends
  <1>4. CASE /\ OpenSettles(c) /\ work[c] \in {"late", "failed"} /\ UNCHANGED keyOf
             /\ EndDeferred(op, held, [state EXCEPT ![c] = "open"], Retired({c}),
                            Defer(deferred, {c}, "strong"))
    <2> DEFINE st == [state EXCEPT ![c] = "open"]
               df == Defer(deferred, {c}, "strong")
    <2>1. state[c] = "opening"
      BY <1>4 DEF SInv, IInv, Now, At, OpensAt
    <2>2. /\ st \in States /\ df \in Deferrals
          /\ \A d \in Client : /\ st[d] = IF d = c THEN "open" ELSE state[d]
                               /\ d # c => df[d] = deferred[d]
          /\ df[c] = "strong"
      BY Types, DeferType DEF SInv, IInv, TypeOK, States, Defer
    <2> HIDE DEF st, df
    <2>3. OpenSet(st) = OpenSet(state) /\ Ending(st) = Ending(state)
      BY <2>1, <2>2 DEF OpenSet, Ending
    <2>4. BudgetsAt(op, st, keyOf)
      BY <2>3, LessIsWithin DEF SInv
    <2>5. DoorAt(st, df, all, door)
      BY <2>2 DEF DoorAt, SInv
    <2>6. EndDeferred(op, held, st, Retired({c}), df)
      BY <1>4 DEF st, df
    <2> QED BY <1>1, <1>4, <2>2, <2>4, <2>5, <2>6, EndDeferredSlots DEF SInv, SlotsAfter, ends
  <1> QED BY <1>2, <1>3, <1>4, Zenon DEF OpenSettles, EndingSettles

LEMMA EndNowSlots ==
  ASSUME SInv, NEW C, EndNow(C)
  PROVE  /\ BudgetsAt(op, state', keyOf) /\ PutOff(op, held, state', deferred')
         /\ DoorAt(state', deferred', all, door)
  <1> DEFINE df == Defer(deferred, {c \in C : state[c] = "open"}, "strong")
  <1>1. state \in States /\ deferred \in Deferrals /\ df \in Deferrals
    BY Types, DeferType DEF SInv, IInv
  <1>2. DoorAt(state, df, all, door)
    BY <1>1, DeferDoor DEF SInv
  <1> QED BY <1>1, <1>2, EndDeferredSlots DEF EndNow, SInv

LEMMA TerminateSlots ==
  ASSUME SInv, NEW t \in Ender, TerminateEnds(t) \/ \E scope \in SUBSET Key : Terminate(t, scope)
  PROVE  SlotsAfter
  <1>1. CASE TerminateEnds(t)
    <2>1. UNCHANGED <<conn, op, held, all, door>> /\ EndNow(named[t])
      BY <1>1 DEF TerminateEnds
    <2> QED BY <2>1, EndNowSlots DEF SInv, SlotsAfter, conn
  <1>2. ASSUME NEW scope \in SUBSET Key, Terminate(t, scope)
        PROVE  SlotsAfter
    <2>1. /\ \E revoked \in SUBSET Holders :
               Interact(revoked, [k \in Key |-> IF k \in scope THEN None ELSE current[k]])
          /\ UNCHANGED <<conn, op, all, door>>
      BY <1>2 DEF Terminate
    <2> QED BY <2>1, InteractSlots DEF SInv, SlotsAfter, conn
  <1> QED BY <1>1, <1>2

LEMMA CloseSlots ==
  ASSUME SInv, Close \/ CloseEnds \/ CloseDone
  PROVE  SlotsAfter
  <1>1. state \in States /\ deferred \in Deferrals
    BY Types DEF SInv, IInv
  <1>2. CASE Close
    <2>1. /\ EndDeferred(op, held', state, [k \in Key |-> None], deferred)
          /\ door = "open" /\ door' = "waiting" /\ UNCHANGED <<conn, op, named>>
      BY <1>2 DEF Close
    <2>2. /\ BudgetsAt(op, state', keyOf) /\ PutOff(op, held', state', deferred')
          /\ DoorAt(state', deferred', all, door)
      BY <1>1, <2>1, EndDeferredSlots DEF SInv
    <2>3. DoorAt(state', deferred', all', door')
      BY <2>1, <2>2 DEF DoorAt
    <2> QED BY <2>1, <2>2, <2>3 DEF SlotsAfter, SInv, conn
  <1>3. CASE CloseEnds
    <2> DEFINE df == Defer(deferred, {c \in all : state[c] = "open"}, "strong")
    <2>1. /\ EndDeferred(op, held, state, current, df)
          /\ door = "waiting" /\ door' = "ending" /\ UNCHANGED <<conn, op, held, all>>
      BY <1>3 DEF CloseEnds, EndNow
    <2>2. df \in Deferrals
      BY <1>1, DeferType
    <2>3. DoorAt(state, df, all, "ending")
      BY <2>1 DEF DoorAt, Defer, SInv
    <2> QED BY <1>1, <2>1, <2>2, <2>3, EndDeferredSlots DEF SInv, SlotsAfter, conn
  <1>4. CASE CloseDone
    <2>1. /\ deferred' = Defer(deferred, all \cap OpenSet(state), "strong")
          /\ door = "ending" /\ door' = "closed" /\ UNCHANGED <<state, conn, op, held>>
      BY <1>4 DEF CloseDone
    <2>2. \A c \in Client : \/ deferred'[c] = deferred[c]
                            \/ state[c] \in {"opening", "open"} /\ c \in all /\ deferred'[c] = "strong"
      BY <2>1 DEF Defer, OpenSet
    <2>3. \A c \in Client : state[c] = "open" => deferred'[c] = deferred[c]
      BY <2>1, <2>2 DEF SInv, DoorAt
    <2>4. Endable(op, held, state, deferred') \subseteq Endable(op, held, state, deferred)
      BY <2>3 DEF Endable
    <2>5. PutOff(op, held, state, deferred')
      BY <2>4, StillPutOff DEF SInv
    <2>6. DoorAt(state, deferred', all', door')
      BY <2>1, <2>2 DEF DoorAt, SInv
    <2> QED BY <2>1, <2>5, <2>6 DEF SlotsAfter, SInv, conn
  <1> QED BY <1>2, <1>3, <1>4

-----------------------------------------------------------------------------
(* The budgets hold, and nothing is left to retry                          *)

LEMMA InitSInv == Init => SInv
  <1> SUFFICES ASSUME Init PROVE SInv
    OBVIOUS
  <1>1. IInv
    BY InitIInv
  <1>2. OpenSet(state) = {} /\ Ending(state) = {} /\ CallersIn(op) = {} /\ NoOp.phase = "out"
    BY DEF Init, OpenSet, Ending, CallersIn, NoOp, NewOp
  <1>3. \A p \in Principal : OpenOf(state, keyOf, p) = {}
    BY <1>2 DEF OpenOf
  <1>4. Cardinality({}) = 0
    BY FS_EmptySet
  <1>5. BudgetsAt(op, state, keyOf)
    BY <1>2, <1>3, <1>4, BoundsAssumption DEF BudgetsAt
  <1>6. Endable(op, held, state, deferred) = {}
    BY DEF Init, Endable
  <1> QED BY <1>1, <1>5, <1>6 DEF Init, SInv, OverIsNoOp, PutOff, DoorAt

LEMMA NextSInv == SInv /\ [Next]_vars => SInv'
  <1> SUFFICES ASSUME SInv, [Next]_vars PROVE SInv'
    OBVIOUS
  <1>1. IInv'
    BY NextIInv DEF SInv
  <1>2. CASE (Sweep \/ \E o \in Caller : Release(o)) \/ Close \/ CloseStep
    BY <1>2, SweepSlots, CloseSlots, <1>1, SInvAfter DEF CloseStep
  <1>3. ASSUME NEW o \in Caller, NEW k \in Key, Admit(o, k)
        PROVE  SInv'
    BY <1>1, <1>3, AdmitSlots, SInvAfter
  <1>4. ASSUME NEW o \in Caller, Look(o)
        PROVE  SInv'
    BY <1>1, <1>4, LookSlots, LookOpensSlots, LookFullSlots, SInvAfter DEF Look
  <1>5. ASSUME NEW o \in Caller, WaitLeases(o)
        PROVE  SInv'
    <2>1. op[o].on \in Client /\ op[o].phase = "waiting" /\ TakeLease(o, op[o].on)
      BY <1>5 DEF WaitLeases, SInv, IInv, Now, At, OpsAt
    <2> QED BY <1>1, <2>1, TakeLeaseSlots, SInvAfter
  <1>6. ASSUME NEW o \in Caller, WaitFails(o) \/ FinishCall(o) \/ HoldFails(o) \/ GiveUp(o)
        PROVE  SInv'
    <2>1. op[o].phase # "out" /\ Refuse(o)
      BY <1>6 DEF WaitFails, FinishCall, HoldFails, GiveUp
    <2> QED BY <1>1, <2>1, RefuseSlots, SInvAfter
  <1>7. ASSUME NEW o \in Caller, OperationStep(o) \/ GiveUp(o) \/ Lose(o)
        PROVE  SInv'
    BY <1>1, <1>4, <1>5, <1>6, <1>7, WaitLooksAgainSlots, HoldSlots, HoldLooksAgainSlots,
       SettleSlots, LoseSlots, SInvAfter
       DEF OperationStep
  <1>8. ASSUME NEW c \in Client, ClientStep(c)
        PROVE  SInv'
    BY <1>1, <1>8, OpenSlots, SettlesSlots, SInvAfter DEF ClientStep
  <1>9. ASSUME NEW t \in Ender, TerminateEnds(t) \/ \E scope \in SUBSET Key : Terminate(t, scope)
        PROVE  SInv'
    BY <1>1, <1>9, TerminateSlots, SInvAfter
  <1>10. CASE UNCHANGED vars
    <2>1. SlotsAfter
      BY <1>10 DEF vars, conn, ends, SlotsAfter, SInv
    <2> QED BY <1>1, <2>1, SInvAfter
  <1> QED BY <1>2, <1>3, <1>7, <1>8, <1>9, <1>10 DEF Next

LEMMA AlwaysSInv == Spec => []SInv
  BY InitSInv, NextSInv, PTL DEF Spec

\* The open clients, those of each principal, the endings and the charged
\* operations stay within their budgets (makeRoom, reserveEnding, admit).
THEOREM WithinBudgets == Spec => []BudgetsHold
  <1>1. SInv => BudgetsHold
    BY BudgetsHere DEF SInv
  <1> QED BY <1>1, AlwaysSInv, PTL

\* Whatever frees a client or a slot retries what was put off (retryDeferred).
THEOREM NothingLeftToRetry == Spec => []DeferredHasNoRoom
  <1>1. SInv => DeferredHasNoRoom
    BY DEF SInv, PutOff, DeferredHasNoRoom
  <1> QED BY <1>1, AlwaysSInv, PTL

-----------------------------------------------------------------------------
(* What terminate named                                                    *)

\* A client that takes no new lease, and that no terminate nor close waits for
\* any more, waits to end for good; one that is gone is forgotten.
NamedAt(st, df, cl, clients, nm) ==
  \A c \in Client :
    /\ st[c] = "gone" => c \notin cl
    /\ st[c] \in {"opening", "open"} /\ c \in cl /\ c \notin clients /\ (\A t \in Ender : c \notin nm[t])
         => df[c] = "strong"

NamedInv == NamedAt(state, deferred, closedToNew, all, named)

\* Whoever gives up waiting for the clients it named finds none that still opens.
WaitsForOpens == \A t \in Ender : TerminateEnds(t) => \A c \in named[t] : state[c] # "opening"

\* retryDeferred keeps it, whatever the step before has come to.
LEMMA EndDeferredNamed ==
  ASSUME NEW ops, NEW hold, NEW st \in States, NEW cur, NEW df \in Deferrals, NEW cl, NEW clients, NEW nm,
         NamedAt(st, df, cl, clients, nm), EndDeferred(ops, hold, st, cur, df)
  PROVE  NamedAt(state', deferred', cl, clients, nm)
  <1>1. PICK E \in SUBSET Endable(ops, hold, st, df) :
               /\ state' = [c \in Client |-> IF c \in E THEN "ending" ELSE st[c]]
               /\ deferred' = [c \in Client |-> IF c \in E THEN "no" ELSE df[c]]
    BY DEF EndDeferred
  <1> QED BY <1>1 DEF NamedAt

\* Deferring more keeps it.
LEMMA DeferNamed ==
  ASSUME NEW st, NEW df, NEW cl, NEW clients, NEW nm, NEW C, NEW why,
         NamedAt(st, df, cl, clients, nm)
  PROVE  NamedAt(st, Defer(df, C, why), cl, clients, nm)
  BY DEF NamedAt, Defer

\* So does using a client again: its ending for good stays.
LEMMA UsedAgainNamed ==
  ASSUME TypeOK, NamedInv, NEW c \in Client
  PROVE  NamedAt(state, UsedAgain(c), closedToNew, all, named)
  BY DEF NamedInv, NamedAt, UsedAgain, TypeOK

\* The sweep at the start of an interaction.
LEMMA InteractNamed ==
  ASSUME TypeOK, NamedInv, NEW cur, NEW revoked, Interact(revoked, cur)
  PROVE  NamedAt(state', deferred', closedToNew, all, named)
  <1>1. PICK idle \in SUBSET MaybeIdle(held') :
          EndDeferred(op, held', state, cur, Defer(deferred, idle, "weak"))
    BY DEF Interact
  <1>2. state \in States /\ Defer(deferred, idle, "weak") \in Deferrals
    BY Types, DeferType
  <1>3. NamedAt(state, Defer(deferred, idle, "weak"), closedToNew, all, named)
    BY DeferNamed DEF NamedInv
  <1> QED BY <1>1, <1>2, <1>3, EndDeferredNamed

\* An operation that is answered, on top of what the step has done to the clients.
LEMMA AnswerNamed ==
  ASSUME NEW o \in Caller, NEW st \in States, NEW cur, NEW df \in Deferrals,
         NamedAt(st, df, closedToNew, all, named), Answer(o, st, cur, df),
         UNCHANGED <<closedToNew, ends>>
  PROVE  NamedInv'
  <1>1. EndDeferred(op', held, st, cur, df)
    BY DEF Answer
  <1> QED BY <1>1, EndDeferredNamed DEF NamedInv, ends

\* A client evicted to make room.
LEMMA EvictNamed ==
  ASSUME TypeOK, NamedInv, NEW v \in Client
  PROVE  /\ [state EXCEPT ![v] = "ending"] \in States /\ [deferred EXCEPT ![v] = "no"] \in Deferrals
         /\ NamedAt([state EXCEPT ![v] = "ending"], [deferred EXCEPT ![v] = "no"], closedToNew, all, named)
  BY DEF NamedInv, NamedAt, TypeOK, States, Deferrals

\* A client that opens: nobody named it before.
LEMMA OpenedNamed ==
  ASSUME NEW st \in States, NEW df, NEW c \in Client, NamedAt(st, df, closedToNew, all, named),
         c \notin closedToNew
  PROVE  NamedAt([st EXCEPT ![c] = "opening"], df, closedToNew, all, named)
  BY DEF NamedAt, States

\* Looking for a client keeps it.
LEMMA LookNamed ==
  ASSUME IInv, NamedInv, NEW o \in Caller, Look(o)
  PROVE  NamedInv'
  <1> USE DEF IInv
  <1>0. state \in States /\ deferred \in Deferrals
    BY Types
  <1>1. CASE LookLeases(o)
    <2>1. CASE Refuse(o)
      BY <1>0, <2>1, AnswerNamed DEF Refuse, NamedInv
    <2>2. CASE TakeLease(o, current[op[o].key])
      <3>1. current[op[o].key] \in Client
        BY <1>1 DEF LookLeases, TypeOK, Operation, Now, At, OpsAt
      <3> QED BY <2>2, <3>1, UsedAgainNamed DEF TakeLease, NamedInv, ends
    <2> QED BY <1>1, <2>1, <2>2 DEF LookLeases
  <1>2. CASE LookJoins(o)
    BY <1>0, <1>2, AnswerNamed DEF LookJoins, Refuse, NamedInv, ends
  <1>3. CASE LookFull(o)
    <2>1. CASE Answer(o, state, current, deferred)
      BY <1>0, <1>3, <2>1, AnswerNamed DEF LookFull, NamedInv
    <2>2. ASSUME NEW v \in Client, Answer(o, state, current, Defer(deferred, {v}, "weak"))
          PROVE  NamedInv'
      <3>1. Defer(deferred, {v}, "weak") \in Deferrals
        BY <1>0, DeferType
      <3>2. NamedAt(state, Defer(deferred, {v}, "weak"), closedToNew, all, named)
        BY DeferNamed DEF NamedInv
      <3> QED BY <1>0, <1>3, <2>2, <3>1, <3>2, AnswerNamed DEF LookFull
    <2> QED BY <1>3, <2>1, <2>2 DEF LookFull, Victims, Crowd, OpenSet
  <1>4. CASE LookPlanFails(o)
    <2>1. CASE Answer(o, state, current, deferred)
      BY <1>0, <1>4, <2>1, AnswerNamed DEF LookPlanFails, NamedInv
    <2>2. ASSUME NEW v \in Client,
                 Answer(o, [state EXCEPT ![v] = "ending"], Retired({v}), [deferred EXCEPT ![v] = "no"])
          PROVE  NamedInv'
      BY <1>4, <2>2, EvictNamed, AnswerNamed DEF LookPlanFails
    <2> QED BY <1>4, <2>1, <2>2 DEF LookPlanFails, Victims, Crowd, OpenSet
  <1>5. ASSUME NEW c \in Client, LookOpens(o, c) PROVE NamedInv'
    <2>1. c \notin closedToNew
      BY <1>5 DEF LookOpens, StartOpen, Unused, NamedInv, NamedAt
    <2>2. NamedAt([state EXCEPT ![c] = "opening"], deferred, closedToNew, all, named)
      BY <1>0, <2>1, OpenedNamed DEF NamedInv
    <2> QED BY <1>5, <2>2 DEF LookOpens, StartOpen, NamedInv, ends
  <1>6. ASSUME NEW c \in Client, NEW v \in Client, LookEvicts(o, c, v) PROVE NamedInv'
    <2>1. c \notin closedToNew
      BY <1>6 DEF LookEvicts, StartOpen, Unused, NamedInv, NamedAt
    <2>2. NamedAt([[state EXCEPT ![v] = "ending"] EXCEPT ![c] = "opening"],
                  [deferred EXCEPT ![v] = "no"], closedToNew, all, named)
      BY <2>1, EvictNamed, OpenedNamed
    <2> QED BY <1>6, <2>2 DEF LookEvicts, StartOpen, NamedInv, ends
  <1> QED BY <1>1, <1>2, <1>3, <1>4, <1>5, <1>6 DEF Look

\* The other steps of an operation.
LEMMA OperationNamed ==
  ASSUME IInv, NamedInv, NEW o \in Caller, OperationStep(o) \/ GiveUp(o) \/ Lose(o)
  PROVE  NamedInv'
  <1> USE DEF IInv
  <1>0. state \in States /\ deferred \in Deferrals
    BY Types
  <1>1. CASE Refuse(o)
    BY <1>0, <1>1, AnswerNamed DEF Refuse, NamedInv
  <1>2. CASE Settle(o) \/ WaitLooksAgain(o)
    <2>1. EndDeferred(op', held, state, current, deferred) /\ UNCHANGED <<closedToNew, ends>>
      BY <1>2 DEF Settle, WaitLooksAgain
    <2> QED BY <1>0, <2>1, EndDeferredNamed DEF NamedInv, ends
  <1>3. CASE WaitLeases(o)
    <2>1. op[o].on \in Client
      BY <1>3 DEF WaitLeases, Now, At, OpsAt
    <2> QED BY <1>3, <2>1, UsedAgainNamed DEF WaitLeases, TakeLease, NamedInv, ends
  <1>4. CASE Hold(o)
    <2>1. op[o].on \in Client
      BY <1>4 DEF Hold, Now, At, OpsAt
    <2>2. UsedAgain(op[o].on) \in Deferrals
      BY <1>0, <2>1 DEF UsedAgain, Deferrals
    <2> QED BY <1>0, <1>4, <2>1, <2>2, UsedAgainNamed, EndDeferredNamed DEF Hold, NamedInv, ends
  <1>5. CASE HoldLooksAgain(o)
    BY <1>5 DEF HoldLooksAgain, NamedInv, ends
  <1>6. CASE Lose(o)
    <2> DEFINE c == op[o].on
    <2>1. c \in Client /\ state[c] = "open"
      BY <1>6 DEF Lose, Now, At, OpsAt, UseAt
    <2>2. UNCHANGED <<state, ends>> /\ closedToNew' = closedToNew \cup {c}
          /\ deferred' = Defer(deferred, {c}, "strong")
      BY <1>6 DEF Lose
    <2>3. NamedAt(state, Defer(deferred, {c}, "strong"), closedToNew \cup {c}, all, named)
      BY <1>0, <2>1 DEF NamedInv, NamedAt, Defer, Deferrals
    <2> QED BY <2>2, <2>3 DEF NamedInv, ends
  <1> QED BY <1>1, <1>2, <1>3, <1>4, <1>5, <1>6, LookNamed
          DEF OperationStep, GiveUp, WaitFails, FinishCall, HoldFails

\* The steps of a client.
LEMMA ClientNamed ==
  ASSUME IInv, NamedInv, NEW c \in Client, ClientStep(c)
  PROVE  NamedInv'
  <1> USE DEF IInv
  <1>0. state \in States /\ deferred \in Deferrals /\ current \in Currents
    BY Types
  <1>1. CASE OpenTimesOut(c) \/ OpenFails(c)
    BY <1>1 DEF OpenTimesOut, OpenFails, NamedInv, ends
  <1>2. CASE OpenSucceeds(c)
    <2>1. state[c] = "opening"
      BY <1>2 DEF OpenSucceeds, Now, At, OpensAt
    <2>2. \/ state' = [state EXCEPT ![c] = "open"]
          \/ UNCHANGED state
      BY <1>2 DEF OpenSucceeds
    <2>3. \A d \in Client : state'[d] = state[d] \/ (d = c /\ state'[d] = "open")
      BY <1>0, <2>2 DEF States
    <2>4. UNCHANGED <<closedToNew, deferred, ends>>
      BY <1>2 DEF OpenSucceeds
    <2> QED BY <2>1, <2>3, <2>4 DEF NamedInv, NamedAt, ends
  <1>3. CASE Freed(c) /\ Forgets(c) /\ UNCHANGED ends
    <2>1. NamedAt([state EXCEPT ![c] = "gone"], [deferred EXCEPT ![c] = "no"], closedToNew \ {c}, all, named)
      BY <1>0 DEF NamedInv, NamedAt, States, Deferrals
    <2>2. [state EXCEPT ![c] = "gone"] \in States /\ [deferred EXCEPT ![c] = "no"] \in Deferrals
      BY <1>0 DEF States, Deferrals
    <2>3. NamedAt(state', deferred', closedToNew \ {c}, all, named)
      BY <1>3, <2>1, <2>2, EndDeferredNamed DEF Freed
    <2> QED BY <1>3, <2>3 DEF Forgets, NamedInv, ends
  <1>4. CASE EndingSettles(c)
    BY <1>3, <1>4 DEF EndingSettles
  <1>5. CASE OpenSettles(c)
    <2>1. UNCHANGED ends
      BY <1>5 DEF OpenSettles
    <2>2. CASE UNCHANGED <<state, closedToNew, deferred>>
      BY <2>1, <2>2 DEF NamedInv, ends
    <2>3. CASE /\ closedToNew' = TurnedAway(c)
               /\ EndDeferred(op, held, [state EXCEPT ![c] = "open"], Retired({c}),
                              Defer(deferred, {c}, "strong"))
      <3>1. NamedAt([state EXCEPT ![c] = "open"], Defer(deferred, {c}, "strong"), TurnedAway(c), all, named)
        BY <1>0 DEF NamedInv, NamedAt, Defer, TurnedAway, States, Deferrals
      <3>2. [state EXCEPT ![c] = "open"] \in States /\ Defer(deferred, {c}, "strong") \in Deferrals
        BY <1>0, DeferType DEF States
      <3>3. NamedAt(state', deferred', TurnedAway(c), all, named)
        BY <2>3, <3>1, <3>2, EndDeferredNamed
      <3> QED BY <2>1, <2>3, <3>3 DEF NamedInv, ends
    <2> QED BY <1>3, <1>5, <2>1, <2>2, <2>3 DEF OpenSettles
  <1> QED BY <1>1, <1>2, <1>4, <1>5 DEF ClientStep

\* endNow, for what a terminate or close waited for.
LEMMA EndNowNamed ==
  ASSUME IInv, NEW C, NEW clients, NEW nm, EndNow(C), UNCHANGED closedToNew,
         NamedAt(state, Defer(deferred, {c \in C : state[c] = "open"}, "strong"), closedToNew, clients, nm)
  PROVE  NamedAt(state', deferred', closedToNew', clients, nm)
  <1>1. state \in States /\ Defer(deferred, {c \in C : state[c] = "open"}, "strong") \in Deferrals
    BY Types, DeferType DEF IInv
  <1> QED BY <1>1, EndDeferredNamed DEF EndNow

\* terminate.
LEMMA TerminateNamed ==
  ASSUME IInv, NamedInv, NEW t \in Ender,
         \/ \E scope \in SUBSET Key : Terminate(t, scope)
         \/ TerminateEnds(t) /\ \A c \in named[t] : state[c] # "opening"
  PROVE  NamedInv'
  <1> USE DEF IInv
  <1>0. named \in [Ender -> SUBSET Client] /\ deferred \in Deferrals
    BY Types DEF TypeOK
  <1>1. ASSUME NEW scope \in SUBSET Key, Terminate(t, scope) PROVE NamedInv'
    <2>1. PICK revoked \in SUBSET Holders :
            Interact(revoked, [k \in Key |-> IF k \in scope THEN None ELSE current[k]])
      BY <1>1 DEF Terminate
    <2>2. NamedAt(state', deferred', closedToNew, all, named)
      BY <2>1, InteractNamed
    <2>3. /\ named[t] = {} /\ UNCHANGED all
          /\ named' = [named EXCEPT ![t] = {c \in OpenSet(state') : keyOf[c] \in scope}]
          /\ closedToNew' = closedToNew \cup named'[t]
      BY <1>1 DEF Terminate
    <2>4. /\ \A u \in Ender : u # t => named'[u] = named[u]
          /\ \A c \in named'[t] : state'[c] \in {"opening", "open"}
      BY <1>0, <2>3 DEF OpenSet
    <2> QED BY <2>2, <2>3, <2>4 DEF NamedInv, NamedAt
  <1>2. ASSUME TerminateEnds(t), \A c \in named[t] : state[c] # "opening" PROVE NamedInv'
    <2>1. EndNow(named[t]) /\ UNCHANGED <<closedToNew, all>> /\ named' = [named EXCEPT ![t] = {}]
      BY <1>2 DEF TerminateEnds
    <2>2. \A u \in Ender : u # t => named'[u] = named[u]
      BY <1>0, <2>1
    <2>3. NamedAt(state, Defer(deferred, {c \in named[t] : state[c] = "open"}, "strong"),
                  closedToNew, all, named')
      <3> SUFFICES ASSUME NEW c \in Client, state[c] \in {"opening", "open"}, c \in closedToNew,
                          c \notin all, \A u \in Ender : c \notin named'[u]
                   PROVE  Defer(deferred, {d \in named[t] : state[d] = "open"}, "strong")[c] = "strong"
        BY DEF NamedInv, NamedAt
      <3>1. CASE c \in named[t]
        BY <1>0, <1>2, <3>1 DEF Defer, Deferrals
      <3>2. CASE c \notin named[t]
        BY <1>0, <2>2, <3>2 DEF NamedInv, NamedAt, Defer, Deferrals
      <3> QED BY <3>1, <3>2
    <2> QED BY <2>1, <2>3, EndNowNamed DEF NamedInv
  <1> QED BY <1>1, <1>2

\* close.
LEMMA CloseNamed ==
  ASSUME IInv, NamedInv, Close \/ CloseStep
  PROVE  NamedInv'
  <1> USE DEF IInv
  <1>0. state \in States /\ deferred \in Deferrals
    BY Types
  <1>1. CASE Close
    <2>1. EndDeferred(op, held', state, [k \in Key |-> None], deferred)
      BY <1>1 DEF Close
    <2>2. NamedAt(state', deferred', closedToNew, all, named)
      BY <1>0, <2>1, EndDeferredNamed DEF NamedInv
    <2>3. /\ all' = OpenSet(state') /\ closedToNew' = closedToNew \cup all' /\ UNCHANGED named
      BY <1>1 DEF Close
    <2> QED BY <2>2, <2>3 DEF NamedInv, NamedAt, OpenSet
  <1>2. CASE CloseEnds
    <2>1. NamedAt(state, Defer(deferred, {c \in all : state[c] = "open"}, "strong"), closedToNew, all, named)
      BY DeferNamed DEF NamedInv
    <2>2. EndNow(all) /\ UNCHANGED <<closedToNew, named, all>>
      BY <1>2 DEF CloseEnds
    <2> QED BY <2>1, <2>2, EndNowNamed DEF NamedInv
  <1>3. CASE CloseDone
    <2>1. /\ deferred' = Defer(deferred, all \cap OpenSet(state), "strong") /\ all' = {}
          /\ UNCHANGED <<state, closedToNew, named>>
      BY <1>3 DEF CloseDone
    <2> QED BY <1>0, <2>1 DEF NamedInv, NamedAt, Defer, Deferrals, OpenSet
  <1> QED BY <1>1, <1>2, <1>3 DEF CloseStep

LEMMA NextNamed ==
  ASSUME IInv, NamedInv, [Next]_vars, [WaitsForOpens]_vars
  PROVE  NamedInv'
  <1>1. CASE UNCHANGED vars
    BY <1>1 DEF vars, ends, NamedInv
  <1>2. CASE Next /\ WaitsForOpens
    <2>1. ASSUME NEW revoked, Interact(revoked, current), UNCHANGED <<closedToNew, ends>>
          PROVE  NamedInv'
      BY <2>1, InteractNamed DEF IInv, NamedInv, ends
    <2>2. CASE Sweep \/ \E o \in Caller : Release(o) \/ \E k \in Key : Admit(o, k)
      BY <2>1, <2>2 DEF Sweep, Release, Admit
    <2>3. CASE \E t \in Ender : TerminateEnds(t) \/ \E scope \in SUBSET Key : Terminate(t, scope)
      BY <1>2, <2>3, TerminateNamed DEF WaitsForOpens
    <2> QED BY <1>2, <2>2, <2>3, OperationNamed, ClientNamed, CloseNamed DEF Next
  <1> QED BY <1>1, <1>2

\* As long as no terminate gives up on a client that still opens, every client a
\* terminate named, or a call lost, ends once it is idle and a slot is free: the
\* open that outlasts terminate's wait is the one way past it.
THEOREM NamedAreEnded == Spec /\ [][WaitsForOpens]_vars => []NamedIsEnded
  <1>1. Init => NamedInv
    BY DEF Init, NamedInv, NamedAt
  <1>2. SInv /\ NamedInv => NamedIsEnded
    <2> SUFFICES ASSUME SInv, NamedInv, NEW c \in Client, state[c] = "open", c \in closedToNew,
                        ~Uses(c, op, held), c \notin all, \A t \in Ender : c \notin named[t]
                 PROVE  Room(op, state) <= 0
      BY DEF NamedIsEnded
    <2>1. deferred[c] = "strong"
      BY DEF NamedInv, NamedAt
    <2>2. c \in Endable(op, held, state, deferred)
      BY <2>1 DEF Endable
    <2> QED BY <2>2 DEF SInv, PutOff
  <1>3. SInv /\ NamedInv /\ [Next]_vars /\ [WaitsForOpens]_vars => NamedInv'
    BY NextNamed DEF SInv
  <1> QED BY <1>1, <1>2, <1>3, AlwaysSInv, PTL DEF Spec
=============================================================================
