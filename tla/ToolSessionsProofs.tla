-------------------------- MODULE ToolSessionsProofs --------------------------
(***************************************************************************)
(* Proofs about ToolSessions, for any turns, legs, sessions and tools, and *)
(* any bounds.                                                             *)
(***************************************************************************)
EXTENDS ToolSessions, FiniteSetTheorems, WellFoundedInduction, TLAPS

-----------------------------------------------------------------------------
(* The inductive invariant                                                 *)

LegRecord ==
  [run : {"unused", "running", "finishing", "over"}, turn : Turn \cup {None},
   next : 0..MaxCalls, pending : Ordinal \cup {None}, closed : 0..MaxCalls,
   answer : {"none", "awaited", "taken"},
   call : {"none", "opening", "using", "failed", "closing"},
   key : Key \cup {None}, on : Session \cup {None}]

RowSet(n) == SUBSET [key : Key, session : Session, touched : 0..MaxNow, id : 1..n]

Types ==
  /\ seq \in Nat /\ now \in 0..MaxNow
  /\ rows \in RowSet(seq)
  /\ stops \subseteq Stop
  /\ borrower \in [Turn -> Leg \cup {None}]
  /\ saved \in [Turn -> Paused \cup {None}]
  /\ leg \in [Leg -> LegRecord]
  /\ open \in [Key -> Session \cup {None}]
  /\ starting \in [Key -> Start \cup {None}]
  /\ session \in [Session -> {"unused", "opening", "failed", "live", "stopping", "stopped"}]

\* A leg that runs or finishes holds its turn; the pause a leg has not answered
\* yet is still there; a turn that is being finished has no row; whoever is in a
\* call has taken its answer.
LegsHold ==
  \A l \in Leg :
    /\ leg[l].run \in {"running", "finishing"} =>
         leg[l].turn \in Turn /\ borrower[leg[l].turn] = l
    /\ Alive(l) /\ leg[l].answer = "awaited" => saved[leg[l].turn] # None
    /\ leg[l].run = "finishing" => \A r \in rows : r.key.turn # leg[l].turn
    /\ leg[l].call # "none" =>
         leg[l].pending \in Ordinal /\ leg[l].answer # "awaited" /\ leg[l].run # "unused"

\* A session is opened for the conversation or for the turn of its opener.
StartsHold ==
  \A k \in Key : starting[k] # None =>
    /\ k.turn = None \/ k.turn = leg[starting[k].leg].turn
    /\ leg[starting[k].leg].run # "unused"

\* Who waits for a cleanup is a leg that has taken its answer, if it had one.
StopsHold ==
  \A s \in stops : s.for # None =>
    /\ s.for[1] \in Leg
    /\ leg[s.for[1]].run # "unused" /\ leg[s.for[1]].answer # "awaited"

IInv == Types /\ LegsHold /\ StartsHold /\ StopsHold /\ NothingOutlivesItsTurn

-----------------------------------------------------------------------------
(* Keys, rows and sessions                                                 *)

\* A key is for the conversation, or for one turn.
LEMMA KeyShape ==
  ASSUME NEW x \in Tool, NEW t \in Turn, NEW n \in Ordinal
  PROVE  /\ KeyOf(x, t, n) \in Key
         /\ KeyOf(x, t, n).turn = None \/ KeyOf(x, t, n).turn = t
  BY DEF KeyOf, Key

\* Firing rows leaves some of the rows that were there.
LEMMA FireKeeps ==
  ASSUME Types, NEW F \in SUBSET rows, NEW who \in {None} \cup (Leg \X {"call", "end"}),
         Fire(F, who)
  PROVE  /\ rows' \subseteq rows /\ seq' = seq
         /\ stops' \subseteq stops \cup {s \in Stop : s.for = who}
         /\ open' \in [Key -> Session \cup {None}]
         /\ session' \in
              [Session -> {"unused", "opening", "failed", "live", "stopping", "stopped"}]
  <1>1. rows' \subseteq rows /\ seq' = seq
    BY DEF Fire, Unclaimed
  <1>2. \A r \in F : r.session \in Session
    BY DEF Types, RowSet
  <1>3. Stopping(F, who) \subseteq {s \in Stop : s.for = who}
    BY <1>2 DEF Stopping, Stop
  <1>4. open' \in [Key -> Session \cup {None}]
    BY DEF Fire, Forgets, Types
  <1>5. session' \in
          [Session -> {"unused", "opening", "failed", "live", "stopping", "stopped"}]
    BY DEF Fire, Stops, Types
  <1> QED BY <1>1, <1>3, <1>4, <1>5 DEF Fire

\* Filing leaves the rows that were there and at most one of the key.
LEMMA FiledRows ==
  ASSUME NEW rs \in RowSet(seq), NEW k \in Key, NEW s \in Session,
         seq \in Nat, now \in 0..MaxNow
  PROVE  /\ Filed(rs, k, s) \in RowSet(IF \E r \in rs : r.key = k THEN seq ELSE seq + 1)
         /\ \A r \in Filed(rs, k, s) : r.key = k \/ r \in rs
  <1>1. CASE \E r \in rs : r.key = k
    BY <1>1 DEF Filed, RowSet
  <1>2. CASE ~\E r \in rs : r.key = k
    <2>1. Filed(rs, k, s) = rs \cup {[key |-> k, session |-> s, touched |-> now, id |-> seq + 1]}
      BY <1>2, Zenon DEF Filed
    <2>2. \A r \in rs : r \in [key : Key, session : Session, touched : 0..MaxNow, id : 1..(seq + 1)]
      BY DEF RowSet
    <2> QED BY <1>2, <2>1, <2>2 DEF RowSet
  <1> QED BY <1>1, <1>2

\* Registering adds no row but one of its key.
LEMMA RegisterKeeps ==
  ASSUME Types, NEW k \in Key, NEW s \in Session,
         NEW o \in [Key -> Session \cup {None}],
         NEW ss \in [Session -> {"unused", "opening", "failed", "live", "stopping", "stopped"}],
         Register(k, s, o, ss)
  PROVE  /\ seq' \in Nat /\ rows' \in RowSet(seq')
         /\ \A r \in rows' : r.key = k \/ r \in rows
         /\ stops' \subseteq stops \cup {w \in Stop : w.for = None}
         /\ open' \in [Key -> Session \cup {None}]
         /\ session' \in
              [Session -> {"unused", "opening", "failed", "live", "stopping", "stopped"}]
  <1> DEFINE swept == {r \in rows : Idle(r)}
             filed == Filed(rows \ swept, k, s)
             fired == swept \cup Overflow(filed)
  <1>1. /\ rows' = filed \ Overflow(filed)
        /\ seq' = IF \E r \in rows \ swept : r.key = k THEN seq ELSE seq + 1
        /\ stops' = stops \cup Stopping(fired, None)
        /\ open' = Forgets({r.key : r \in fired}, o)
        /\ session' = Stops(fired, ss)
    BY DEF Register
  <1>2. rows \ swept \in RowSet(seq) /\ seq \in Nat /\ now \in 0..MaxNow
    BY DEF Types, RowSet
  <1>3. filed \in RowSet(seq') /\ \A r \in filed : r.key = k \/ r \in rows \ swept
    BY <1>1, <1>2, FiledRows
  <1>4. seq' \in Nat
    BY <1>1, <1>2
  <1>5. \A r \in fired : r.session \in Session
    <2>1. Overflow(filed) \subseteq filed
      BY DEF Overflow
    <2>2. swept \subseteq rows
      OBVIOUS
    <2> HIDE DEF filed, swept
    <2>3. \A r \in filed : r.session \in Session
      BY <1>3 DEF RowSet
    <2> QED BY <2>1, <2>2, <2>3 DEF Types, RowSet
  <1> HIDE DEF filed, swept, fired
  <1>6. Stopping(fired, None) \subseteq {w \in Stop : w.for = None}
    BY <1>5 DEF Stopping, Stop
  <1>7. open' \in [Key -> Session \cup {None}]
    BY <1>1 DEF Forgets
  <1>8. session' \in
          [Session -> {"unused", "opening", "failed", "live", "stopping", "stopped"}]
    BY <1>1 DEF Stops
  <1>9. rows' \in RowSet(seq') /\ \A r \in rows' : r.key = k \/ r \in rows
    BY <1>1, <1>3 DEF RowSet
  <1> QED BY <1>1, <1>4, <1>6, <1>7, <1>8, <1>9

-----------------------------------------------------------------------------
(* Legs                                                                    *)

LEMMA Constants ==
  /\ None \notin Nat /\ None \notin Paused /\ None \notin Start
  /\ Leg \subseteq Nat /\ Turn \subseteq Nat /\ Session \subseteq Nat
  /\ MaxCalls \in Nat \ {0}
  BY NoneAssumption, NamesAssumption, BoundsAssumption

\* A leg that moves is a leg still, and no other leg moves.
LEMMA LegMoves ==
  ASSUME Types, NEW l \in Leg, NEW r \in LegRecord, Becomes(l, r)
  PROVE  /\ leg' \in [Leg -> LegRecord] /\ leg'[l] = r
         /\ \A m \in Leg : m # l => leg'[m] = leg[m]
  BY DEF Types, Becomes

\* The record of a leg that has done nothing.
LEMMA NoLegIs ==
  /\ NoLeg \in LegRecord
  /\ NoLeg.call = "none" /\ NoLeg.answer = "none"
  BY Constants DEF NoLeg, LegRecord

\* The call that is dispatched is one of the turn's calls.
LEMMA DispatchedIs ==
  ASSUME Types, NEW l \in Leg, CanCall(l)
  PROVE  /\ Dispatched(l) \in LegRecord
         /\ Dispatched(l).pending \in Ordinal
         /\ Dispatched(l).run = leg[l].run /\ Dispatched(l).turn = leg[l].turn
         /\ Dispatched(l).answer = leg[l].answer
  <1>1. leg[l] \in LegRecord /\ MaxCalls \in Nat \ {0} /\ None \notin Nat
    BY Constants DEF Types
  <1>2. CASE leg[l].pending # None
    BY <1>1, <1>2 DEF Dispatched, LegRecord
  <1>3. CASE leg[l].pending = None
    <2>1. leg[l].next \in 0..MaxCalls /\ leg[l].next < MaxCalls
      BY <1>1, <1>3 DEF LegRecord, CanCall
    <2>2. leg[l].next + 1 \in 0..MaxCalls /\ leg[l].next \in Ordinal
      BY <1>1, <2>1 DEF Ordinal
    <2>3. Dispatched(l) = [leg[l] EXCEPT !.next = @ + 1, !.pending = leg[l].next]
      BY <1>3 DEF Dispatched
    <2> QED BY <1>1, <2>2, <2>3 DEF LegRecord
  <1> QED BY <1>2, <1>3

\* The key of a call is for the conversation or for the turn of the call.
LEMMA CallKeyIs ==
  ASSUME Types, LegsHold, NEW l \in Leg, NEW x \in Tool, CanCall(l)
  PROVE  /\ CallKey(l, x) \in Key
         /\ CallKey(l, x).turn = None \/ CallKey(l, x).turn = leg[l].turn
  BY DispatchedIs, KeyShape DEF CallKey, CanCall, LegsHold, Alive

\* One leg moves: what that takes for LegsHold.
LEMMA LegsStillHold ==
  ASSUME Types, LegsHold, NEW l \in Leg, NEW r \in LegRecord, Becomes(l, r),
         r.run \in {"running", "finishing"} => r.turn \in Turn /\ borrower'[r.turn] = l,
         r.run = "running" /\ r.answer = "awaited" => saved'[r.turn] # None,
         r.run = "finishing" => \A q \in rows' : q.key.turn # r.turn,
         r.call # "none" =>
           r.pending \in Ordinal /\ r.answer # "awaited" /\ r.run # "unused",
         \A m \in Leg \ {l} : leg[m].run \in {"running", "finishing"} =>
           /\ borrower'[leg[m].turn] = m
           /\ saved[leg[m].turn] # None => saved'[leg[m].turn] # None
           /\ leg[m].run = "finishing" => \A q \in rows' : q.key.turn # leg[m].turn
  PROVE  LegsHold'
  <1>1. leg'[l] = r /\ \A m \in Leg : m # l => leg'[m] = leg[m]
    BY LegMoves
  <1>2. \A m \in Leg \ {l} :
          /\ leg'[m] = leg[m]
          /\ leg[m].run \in {"running", "finishing"} =>
               leg[m].turn \in Turn /\ borrower'[leg[m].turn] = m
          /\ leg[m].run = "running" /\ leg[m].answer = "awaited" => saved'[leg[m].turn] # None
          /\ leg[m].run = "finishing" => \A q \in rows' : q.key.turn # leg[m].turn
          /\ leg[m].call # "none" =>
               leg[m].pending \in Ordinal /\ leg[m].answer # "awaited" /\ leg[m].run # "unused"
    BY <1>1 DEF LegsHold, Alive
  <1> SUFFICES ASSUME NEW m \in Leg
               PROVE  /\ leg'[m].run \in {"running", "finishing"} =>
                           leg'[m].turn \in Turn /\ borrower'[leg'[m].turn] = m
                      /\ leg'[m].run = "running" /\ leg'[m].answer = "awaited" =>
                           saved'[leg'[m].turn] # None
                      /\ leg'[m].run = "finishing" => \A q \in rows' : q.key.turn # leg'[m].turn
                      /\ leg'[m].call # "none" =>
                           /\ leg'[m].pending \in Ordinal /\ leg'[m].answer # "awaited"
                           /\ leg'[m].run # "unused"
    BY DEF LegsHold, Alive, Ordinal
  <1>3. CASE m = l
    BY <1>1, <1>3
  <1>4. CASE m # l
    BY <1>2, <1>4
  <1> QED BY <1>3, <1>4

\* One leg moves and no session starts: what that takes for StartsHold.
LEMMA StartsStillHold ==
  ASSUME Types, StartsHold, NEW l \in Leg, NEW r \in LegRecord, Becomes(l, r),
         \A k \in Key : starting'[k] \in {None, starting[k]},
         r.run # "unused", leg[l].run = "unused" \/ r.turn = leg[l].turn
  PROVE  StartsHold'
  <1>1. leg'[l] = r /\ \A m \in Leg : m # l => leg'[m] = leg[m]
    BY LegMoves
  <1>2. \A k \in Key : starting[k] # None => starting[k].leg \in Leg
    BY DEF Types, Start
  <1> QED BY <1>1, <1>2 DEF StartsHold

\* One leg moves: what that takes for StopsHold.
LEMMA StopsStillHold ==
  ASSUME Types, StopsHold, NEW l \in Leg, NEW r \in LegRecord, Becomes(l, r),
         r.run # "unused", leg[l].run = "unused" \/ r.answer # "awaited" \/ r.answer = leg[l].answer,
         \A w \in stops' : w \in stops \/ w.for = None
                           \/ (w.for[1] = l /\ r.answer # "awaited")
  PROVE  StopsHold'
  <1>1. leg'[l] = r /\ \A m \in Leg : m # l => leg'[m] = leg[m]
    BY LegMoves
  <1> SUFFICES ASSUME NEW w \in stops', w.for # None
               PROVE  /\ w.for[1] \in Leg
                      /\ leg'[w.for[1]].run # "unused" /\ leg'[w.for[1]].answer # "awaited"
    BY DEF StopsHold
  <1>2. CASE w \in stops
    BY <1>1, <1>2 DEF StopsHold
  <1>3. CASE w.for[1] = l /\ r.answer # "awaited"
    BY <1>1, <1>3
  <1> QED BY <1>2, <1>3

-----------------------------------------------------------------------------
(* Steps that move a leg and no registration                               *)

LEMMA BeginKeeps ==
  ASSUME IInv, NEW l \in Leg, NEW t \in Turn, Begin(l, t)
  PROVE  IInv'
  <1> DEFINE r == [NoLeg EXCEPT !.run = "running", !.turn = t]
  <1>0. Types /\ LegsHold /\ StartsHold /\ StopsHold /\ NothingOutlivesItsTurn
    BY DEF IInv
  <1>1. r \in LegRecord /\ Becomes(l, r)
    BY <1>0, Constants, NoLegIs DEF Types, LegRecord, Paused, Begin, NewLeg, NewTurn, Used
  <1>2. /\ r.run = "running" /\ r.turn = t /\ r.call = "none" /\ r.answer = "none"
    BY <1>0, NoLegIs DEF Types, LegRecord, NewLeg, NewTurn, Used
  <1> HIDE DEF r
  <1>3. leg' \in [Leg -> LegRecord]
    BY <1>0, <1>1, LegMoves
  <1>4. Types'
    BY <1>0, <1>3, Constants DEF Types, Paused, LegRecord, tool, tier, Begin, NewLeg, NewTurn, Used
  <1>5. LegsHold'
    BY <1>0, <1>1, <1>2, LegsStillHold, Constants DEF Types, LegsHold, Alive, tool, tier, Begin, NewLeg, NewTurn, Used
  <1>6. StartsHold'
    BY <1>0, <1>1, <1>2, StartsStillHold DEF tool, tier, Begin, NewLeg, NewTurn, Used
  <1>7. StopsHold'
    BY <1>0, <1>1, <1>2, StopsStillHold DEF tool, tier, Begin, NewLeg, NewTurn, Used
  <1>8. NothingOutlivesItsTurn'
    BY <1>0, Constants DEF Types, LegRecord, LegsHold, Alive,
         NothingOutlivesItsTurn, RowSet, tool, tier, Begin, NewLeg, NewTurn, Used
  <1> QED BY <1>4, <1>5, <1>6, <1>7, <1>8 DEF IInv

LEMMA ResumeKeeps ==
  ASSUME IInv, NEW l \in Leg, NEW t \in Turn, Resume(l, t)
  PROVE  IInv'
  <1> DEFINE r == [NoLeg EXCEPT !.run = "running", !.turn = t, !.answer = "awaited",
                   !.next = saved[t].next, !.pending = saved[t].pending,
                   !.closed = IF saved[t].pending = None THEN saved[t].next ELSE saved[t].pending]
  <1>0. Types /\ LegsHold /\ StartsHold /\ StopsHold /\ NothingOutlivesItsTurn
    BY DEF IInv
  <1>1. r \in LegRecord /\ Becomes(l, r)
    <2>1. saved[t] \in Paused
      BY <1>0 DEF Types, Resume
    <2>2. saved[t].next \in 0..MaxCalls /\ saved[t].pending \in Ordinal \cup {None}
      BY <2>1 DEF Paused
    <2>3. Ordinal \subseteq 0..MaxCalls
      BY Constants DEF Ordinal
    <2>4. r \in LegRecord
      BY <2>2, <2>3, NoLegIs DEF LegRecord
    <2> QED BY <2>4 DEF Resume
  <1>2. /\ r.run = "running" /\ r.turn = t /\ r.call = "none" /\ r.answer = "awaited"
    BY <1>0, NoLegIs DEF Types, LegRecord, NewLeg
  <1> HIDE DEF r
  <1>3. leg' \in [Leg -> LegRecord]
    BY <1>0, <1>1, LegMoves
  <1>4. Types'
    BY <1>0, <1>3, Constants DEF Types, Paused, LegRecord, tool, tier, Resume, NewLeg
  <1>5. LegsHold'
    BY <1>0, <1>1, <1>2, LegsStillHold, Constants DEF Types, LegsHold, Alive, tool, tier, Resume, NewLeg
  <1>6. StartsHold'
    BY <1>0, <1>1, <1>2, StartsStillHold DEF tool, tier, Resume, NewLeg
  <1>7. StopsHold'
    BY <1>0, <1>1, <1>2, StopsStillHold DEF tool, tier, Resume, NewLeg
  <1>8. NothingOutlivesItsTurn'
    BY <1>0, Constants DEF Types, LegRecord, LegsHold, Alive,
         NothingOutlivesItsTurn, RowSet, tool, tier, Resume, NewLeg
  <1> QED BY <1>4, <1>5, <1>6, <1>7, <1>8 DEF IInv

LEMMA ResumeRefusedKeeps ==
  ASSUME IInv, NEW l \in Leg, NEW t \in Turn, ResumeRefused(l, t)
  PROVE  IInv'
  <1> DEFINE r == [NoLeg EXCEPT !.run = "over", !.turn = t, !.answer = "awaited"]
  <1>0. Types /\ LegsHold /\ StartsHold /\ StopsHold /\ NothingOutlivesItsTurn
    BY DEF IInv
  <1>1. r \in LegRecord /\ Becomes(l, r)
    BY <1>0, Constants, NoLegIs DEF Types, LegRecord, Paused, ResumeRefused, NewLeg
  <1>2. /\ r.run = "over" /\ r.call = "none"
    BY <1>0, NoLegIs DEF Types, LegRecord, NewLeg
  <1> HIDE DEF r
  <1>3. leg' \in [Leg -> LegRecord]
    BY <1>0, <1>1, LegMoves
  <1>4. Types'
    BY <1>0, <1>3, Constants DEF Types, Paused, LegRecord, tool, tier, ResumeRefused, NewLeg
  <1>5. LegsHold'
    BY <1>0, <1>1, <1>2, LegsStillHold, Constants DEF Types, LegsHold, Alive, tool, tier, ResumeRefused, NewLeg
  <1>6. StartsHold'
    BY <1>0, <1>1, <1>2, StartsStillHold DEF tool, tier, ResumeRefused, NewLeg
  <1>7. StopsHold'
    BY <1>0, <1>1, <1>2, StopsStillHold DEF tool, tier, ResumeRefused, NewLeg
  <1>8. NothingOutlivesItsTurn'
    BY <1>0, Constants DEF Types, LegRecord, LegsHold, Alive,
         NothingOutlivesItsTurn, RowSet, tool, tier, ResumeRefused, NewLeg
  <1> QED BY <1>4, <1>5, <1>6, <1>7, <1>8 DEF IInv

LEMMA TakeAnswerKeeps ==
  ASSUME IInv, NEW l \in Leg, TakeAnswer(l)
  PROVE  IInv'
  <1> DEFINE r == [leg[l] EXCEPT !.answer = "taken"]
  <1>0. Types /\ LegsHold /\ StartsHold /\ StopsHold /\ NothingOutlivesItsTurn
    BY DEF IInv
  <1>1. r \in LegRecord /\ Becomes(l, r)
    BY <1>0, Constants, NoLegIs DEF Types, LegRecord, Paused, TakeAnswer
  <1>2. /\ r.run = leg[l].run /\ r.turn = leg[l].turn /\ r.answer = "taken"
        /\ r.call = leg[l].call /\ r.pending = leg[l].pending
    BY <1>0, NoLegIs DEF Types, LegRecord
  <1> HIDE DEF r
  <1>3. leg' \in [Leg -> LegRecord]
    BY <1>0, <1>1, LegMoves
  <1>4. Types'
    BY <1>0, <1>3, Constants DEF Types, Paused, LegRecord, tool, tier, TakeAnswer
  <1>5. LegsHold'
    BY <1>0, <1>1, <1>2, LegsStillHold, Constants DEF Types, LegsHold, Alive, tool, tier, TakeAnswer
  <1>6. StartsHold'
    BY <1>0, <1>1, <1>2, StartsStillHold DEF LegsHold, Alive, tool, tier, TakeAnswer
  <1>7. StopsHold'
    BY <1>0, <1>1, <1>2, StopsStillHold DEF LegsHold, Alive, tool, tier, TakeAnswer
  <1>8. NothingOutlivesItsTurn'
    BY <1>0, Constants DEF Types, LegRecord, LegsHold, Alive,
         NothingOutlivesItsTurn, RowSet, tool, tier, TakeAnswer
  <1> QED BY <1>4, <1>5, <1>6, <1>7, <1>8 DEF IInv

LEMMA PauseKeeps ==
  ASSUME IInv, NEW l \in Leg, Pause(l)
  PROVE  IInv'
  <1> DEFINE r == [leg[l] EXCEPT !.run = "over", !.call = "none", !.on = None]
  <1>0. Types /\ LegsHold /\ StartsHold /\ StopsHold /\ NothingOutlivesItsTurn
    BY DEF IInv
  <1>1. r \in LegRecord /\ Becomes(l, r)
    <2>1. leg[l] \in LegRecord
      BY <1>0 DEF Types
    <2>2. r \in LegRecord
      BY <2>1 DEF LegRecord
    <2> QED BY <2>2 DEF Pause
  <1>2. /\ r.run = "over" /\ r.turn = leg[l].turn /\ r.answer = leg[l].answer /\ r.call = "none"
    BY <1>0, NoLegIs DEF Types, LegRecord, Released
  <1> HIDE DEF r
  <1>3. leg' \in [Leg -> LegRecord]
    BY <1>0, <1>1, LegMoves
  <1>4. Types'
    BY <1>0, <1>3, Constants DEF Types, Paused, LegRecord, tool, tier, Pause, Released
  <1>5. LegsHold'
    BY <1>0, <1>1, <1>2, LegsStillHold, Constants DEF Types, LegsHold, Alive, tool, tier, Pause, Released
  <1>6. StartsHold'
    BY <1>0, <1>1, <1>2, StartsStillHold DEF tool, tier, Pause, Released
  <1>7. StopsHold'
    BY <1>0, <1>1, <1>2, StopsStillHold DEF tool, tier, Pause, Released
  <1>8. NothingOutlivesItsTurn'
    <2>1. /\ saved' = [saved EXCEPT ![leg[l].turn] = [next |-> leg[l].next, pending |-> leg[l].pending]]
          /\ borrower' = [borrower EXCEPT ![leg[l].turn] = None] /\ rows' = rows
      BY DEF Pause, Released
    <2>2. leg[l].turn \in Turn /\ leg[l] \in LegRecord
      BY <1>0 DEF Types, LegsHold, Alive, Pause
    <2>3. [next |-> leg[l].next, pending |-> leg[l].pending] # None
      BY <2>2, Constants DEF Paused, LegRecord
    <2>4. \A t \in Turn : borrower[t] # None \/ saved[t] # None
                             => borrower'[t] # None \/ saved'[t] # None
      BY <1>0, <2>1, <2>2, <2>3 DEF Types
    <2>5. \A q \in rows : q.key.turn = None \/ q.key.turn \in Turn
      BY <1>0 DEF Types, RowSet, Key, KeyOf
    <2> QED BY <1>0, <2>1, <2>4, <2>5 DEF NothingOutlivesItsTurn
  <1> QED BY <1>4, <1>5, <1>6, <1>7, <1>8 DEF IInv

LEMMA OverKeeps ==
  ASSUME IInv, NEW l \in Leg, Over(l)
  PROVE  IInv'
  <1> DEFINE r == [leg[l] EXCEPT !.run = "over"]
  <1>0. Types /\ LegsHold /\ StartsHold /\ StopsHold /\ NothingOutlivesItsTurn
    BY DEF IInv
  <1>1. r \in LegRecord /\ Becomes(l, r)
    BY <1>0, Constants, NoLegIs DEF Types, LegRecord, Paused, Over, Released
  <1>2. /\ r.run = "over" /\ r.turn = leg[l].turn /\ r.answer = leg[l].answer
        /\ r.call = leg[l].call /\ r.pending = leg[l].pending
    BY <1>0, NoLegIs DEF Types, LegRecord, Released
  <1> HIDE DEF r
  <1>3. leg' \in [Leg -> LegRecord]
    BY <1>0, <1>1, LegMoves
  <1>4. Types'
    BY <1>0, <1>3, Constants DEF Types, Paused, LegRecord, tool, tier, Over, Released
  <1>5. LegsHold'
    BY <1>0, <1>1, <1>2, LegsStillHold, Constants DEF Types, LegsHold, Alive, tool, tier, Over, Released
  <1>6. StartsHold'
    BY <1>0, <1>1, <1>2, StartsStillHold DEF tool, tier, Over, Released
  <1>7. StopsHold'
    BY <1>0, <1>1, <1>2, StopsStillHold DEF tool, tier, Over, Released
  <1>8. NothingOutlivesItsTurn'
    BY <1>0, Constants DEF Types, LegRecord, LegsHold, Alive,
         NothingOutlivesItsTurn, RowSet, tool, tier, Over, Released
  <1> QED BY <1>4, <1>5, <1>6, <1>7, <1>8 DEF IInv

LEMMA JoinKeeps ==
  ASSUME IInv, NEW l \in Leg, NEW x \in Tool, Join(l, x)
  PROVE  IInv'
  <1> DEFINE r == [Dispatched(l) EXCEPT !.call = "opening", !.key = CallKey(l, x)]
  <1>0. Types /\ LegsHold /\ StartsHold /\ StopsHold /\ NothingOutlivesItsTurn
    BY DEF IInv
  <1>1. r \in LegRecord /\ Becomes(l, r)
    <2>1. CanCall(l)
      BY DEF Join
    <2>2. Dispatched(l) \in LegRecord /\ CallKey(l, x) \in Key
      BY <1>0, <2>1, DispatchedIs, CallKeyIs
    <2>3. r \in LegRecord
      BY <2>2 DEF LegRecord
    <2> QED BY <2>3 DEF Join
  <1>2. /\ r.run = leg[l].run /\ r.turn = leg[l].turn /\ r.answer = leg[l].answer
        /\ r.pending \in Ordinal
    <2>1. CanCall(l)
      BY DEF Join
    <2>2. /\ Dispatched(l) \in LegRecord /\ Dispatched(l).pending \in Ordinal
          /\ Dispatched(l).run = leg[l].run /\ Dispatched(l).turn = leg[l].turn
          /\ Dispatched(l).answer = leg[l].answer
      BY <1>0, <2>1, DispatchedIs
    <2> QED BY <2>2 DEF LegRecord
  <1> HIDE DEF r
  <1>3. leg' \in [Leg -> LegRecord]
    BY <1>0, <1>1, LegMoves
  <1>4. Types'
    BY <1>0, <1>3, Constants DEF Types, Paused, LegRecord, tool, tier, Join, CanCall
  <1>5. LegsHold'
    BY <1>0, <1>1, <1>2, LegsStillHold, Constants DEF Types, LegsHold, Alive, tool, tier, Join, CanCall
  <1>6. StartsHold'
    BY <1>0, <1>1, <1>2, StartsStillHold DEF LegsHold, Alive, tool, tier, Join, CanCall
  <1>7. StopsHold'
    BY <1>0, <1>1, <1>2, StopsStillHold DEF LegsHold, Alive, tool, tier, Join, CanCall
  <1>8. NothingOutlivesItsTurn'
    BY <1>0, Constants DEF Types, LegRecord, LegsHold, Alive,
         NothingOutlivesItsTurn, RowSet, tool, tier, Join, CanCall
  <1> QED BY <1>4, <1>5, <1>6, <1>7, <1>8 DEF IInv

LEMMA CallEndsKeeps ==
  ASSUME IInv, NEW l \in Leg, CallEnds(l)
  PROVE  IInv'
  <1> DEFINE r == [leg[l] EXCEPT !.call = "none", !.pending = None]
  <1>0. Types /\ LegsHold /\ StartsHold /\ StopsHold /\ NothingOutlivesItsTurn
    BY DEF IInv
  <1>1. r \in LegRecord /\ Becomes(l, r)
    <2>1. leg[l] \in LegRecord
      BY <1>0 DEF Types
    <2>2. r \in LegRecord
      BY <2>1 DEF LegRecord
    <2> QED BY <2>2 DEF CallEnds
  <1>2. /\ r.run = leg[l].run /\ r.turn = leg[l].turn /\ r.answer = leg[l].answer /\ r.call = "none"
    BY <1>0, NoLegIs DEF Types, LegRecord
  <1> HIDE DEF r
  <1>3. leg' \in [Leg -> LegRecord]
    BY <1>0, <1>1, LegMoves
  <1>4. Types'
    BY <1>0, <1>3, Constants DEF Types, Paused, LegRecord, tool, tier, CallEnds
  <1>5. LegsHold'
    BY <1>0, <1>1, <1>2, LegsStillHold, Constants DEF Types, LegsHold, Alive, tool, tier, CallEnds
  <1>6. StartsHold'
    BY <1>0, <1>1, <1>2, StartsStillHold DEF LegsHold, Alive, tool, tier, CallEnds
  <1>7. StopsHold'
    BY <1>0, <1>1, <1>2, StopsStillHold DEF LegsHold, Alive, tool, tier, CallEnds
  <1>8. NothingOutlivesItsTurn'
    BY <1>0, Constants DEF Types, LegRecord, LegsHold, Alive,
         NothingOutlivesItsTurn, RowSet, tool, tier, CallEnds
  <1> QED BY <1>4, <1>5, <1>6, <1>7, <1>8 DEF IInv

-----------------------------------------------------------------------------
(* Steps that fire or register                                             *)

\* Rows that are there for a turn are there for one that is held or paused.
LEMMA RowsStillHeld ==
  ASSUME Types, NothingOutlivesItsTurn,
         \A q \in rows' : q \in rows \/ q.key.turn = None \/ borrower'[q.key.turn] # None,
         \A t \in Turn :
           \/ borrower[t] = None /\ saved[t] = None
           \/ borrower'[t] # None \/ saved'[t] # None
           \/ \A q \in rows' : q.key.turn # t
  PROVE  NothingOutlivesItsTurn'
  <1>1. \A q \in rows : q.key.turn = None \/ q.key.turn \in Turn
    BY DEF Types, RowSet, Key, KeyOf
  <1> QED BY <1>1 DEF NothingOutlivesItsTurn

\* No other leg holds the turn of a leg that runs or finishes.
LEMMA OneHolder ==
  ASSUME LegsHold, NEW l \in Leg, NEW m \in Leg, l # m,
         leg[l].run \in {"running", "finishing"}, leg[m].run \in {"running", "finishing"}
  PROVE  leg[l].turn # leg[m].turn
  BY DEF LegsHold

LEMMA EndKeeps ==
  ASSUME IInv, NEW l \in Leg, End(l)
  PROVE  IInv'
  <1>0. Types /\ LegsHold /\ StartsHold /\ StopsHold /\ NothingOutlivesItsTurn
    BY DEF IInv
  <1>1. leg[l] \in LegRecord /\ leg[l].run = "running"
        /\ leg[l].turn \in Turn /\ borrower[leg[l].turn] = l
    BY <1>0 DEF Types, LegsHold, End, Alive
  <1>2. CASE Keeps(l)
    <2> DEFINE r == [leg[l] EXCEPT !.run = "over"]
    <2>1. Becomes(l, r) /\ Released(leg[l].turn)
          /\ UNCHANGED <<rows, seq, stops, saved, open, starting, session, now>>
      BY <1>2 DEF End, tool
    <2>2. r \in LegRecord /\ r.run = "over" /\ r.turn = leg[l].turn /\ r.answer = leg[l].answer
          /\ r.call = leg[l].call /\ r.pending = leg[l].pending
      BY <1>1 DEF LegRecord
    <2>3. \A m \in Leg \ {l} : leg[m].run \in {"running", "finishing"} => leg[m].turn # leg[l].turn
      BY <1>0, <1>1, OneHolder
    <2>4. saved[leg[l].turn] # None
      BY <1>0, <1>1, <1>2 DEF LegsHold, Alive, Keeps
    <2> HIDE DEF r
    <2>5. Types'
      BY <1>0, <2>1, <2>2, LegMoves DEF Types, Released
    <2>6. LegsHold'
      BY <1>0, <1>1, <2>1, <2>2, <2>3, LegsStillHold DEF Types, LegsHold, Released
    <2>7. StartsHold' /\ StopsHold'
      BY <1>0, <2>1, <2>2, StartsStillHold, StopsStillHold
    <2>8. NothingOutlivesItsTurn'
      BY <1>0, <2>1, <2>4, RowsStillHeld DEF Released, Types
    <2> QED BY <2>5, <2>6, <2>7, <2>8 DEF IInv
  <1>3. CASE ~Keeps(l)
    <2> DEFINE r == [leg[l] EXCEPT !.run = "finishing"]
               F == OwnRows(leg[l].turn)
    <2>1. /\ Becomes(l, r) /\ Fire(F, <<l, "end">>)
          /\ saved' = [saved EXCEPT ![leg[l].turn] = None]
          /\ UNCHANGED <<borrower, starting, now>>
      BY <1>3 DEF End
    <2>2. r \in LegRecord /\ r.run = "finishing" /\ r.turn = leg[l].turn /\ r.answer = leg[l].answer
          /\ r.call = leg[l].call /\ r.pending = leg[l].pending /\ r.answer # "awaited"
      BY <1>1, <1>3 DEF LegRecord, Keeps
    <2>3. \A m \in Leg \ {l} : leg[m].run \in {"running", "finishing"} => leg[m].turn # leg[l].turn
      BY <1>0, <1>1, OneHolder
    <2>4. F \in SUBSET rows /\ rows' = rows \ F /\ \A q \in rows \ F : q.key.turn # leg[l].turn
      BY <2>1 DEF OwnRows, Fire, Unclaimed
    <2> HIDE DEF r, F
    <2>5. /\ rows' \subseteq rows /\ seq' = seq
          /\ stops' \subseteq stops \cup {s \in Stop : s.for = <<l, "end">>}
          /\ open' \in [Key -> Session \cup {None}]
          /\ session' \in
               [Session -> {"unused", "opening", "failed", "live", "stopping", "stopped"}]
      BY <1>0, <2>1, <2>4, FireKeeps
    <2>6. Types'
      BY <1>0, <2>1, <2>2, <2>5, LegMoves DEF Types, RowSet
    <2>7. LegsHold'
      BY <1>0, <1>1, <2>1, <2>2, <2>3, <2>4, LegsStillHold DEF Types, LegsHold
    <2>8. StartsHold' /\ StopsHold'
      BY <1>0, <2>1, <2>2, <2>5, StartsStillHold, StopsStillHold
    <2>9. NothingOutlivesItsTurn'
      BY <1>0, <2>1, <2>4, RowsStillHeld DEF Types
    <2> QED BY <2>6, <2>7, <2>8, <2>9 DEF IInv
  <1> QED BY <1>2, <1>3

LEMMA AbandonKeeps ==
  ASSUME IInv, NEW l \in Leg, NEW t \in Turn, Abandon(l, t)
  PROVE  IInv'
  <1>0. Types /\ LegsHold /\ StartsHold /\ StopsHold /\ NothingOutlivesItsTurn
    BY DEF IInv
  <1> DEFINE r == [NoLeg EXCEPT !.run = "finishing", !.turn = t]
             F == OwnRows(t)
  <1>1. /\ Becomes(l, r) /\ Fire(F, <<l, "end">>) /\ leg[l].run = "unused" /\ borrower[t] = None
        /\ saved' = [saved EXCEPT ![t] = None] /\ borrower' = [borrower EXCEPT ![t] = l]
        /\ UNCHANGED <<starting, now>>
    BY DEF Abandon, NewLeg
  <1>2. r \in LegRecord /\ r.run = "finishing" /\ r.turn = t /\ r.answer = "none" /\ r.call = "none"
    BY NoLegIs DEF LegRecord
  <1>3. \A m \in Leg \ {l} : leg[m].run \in {"running", "finishing"} => leg[m].turn # t
    BY <1>0, <1>1, Constants DEF LegsHold
  <1>4. F \in SUBSET rows /\ rows' = rows \ F /\ \A q \in rows \ F : q.key.turn # t
    BY <1>1 DEF OwnRows, Fire, Unclaimed
  <1> HIDE DEF r, F
  <1>5. /\ rows' \subseteq rows /\ seq' = seq
        /\ stops' \subseteq stops \cup {s \in Stop : s.for = <<l, "end">>}
        /\ open' \in [Key -> Session \cup {None}]
        /\ session' \in
             [Session -> {"unused", "opening", "failed", "live", "stopping", "stopped"}]
    BY <1>0, <1>1, <1>4, FireKeeps
  <1>6. Types'
    BY <1>0, <1>1, <1>2, <1>5, LegMoves DEF Types, RowSet
  <1>7. LegsHold'
    BY <1>0, <1>1, <1>2, <1>3, <1>4, LegsStillHold DEF Types, LegsHold
  <1>8. StartsHold' /\ StopsHold'
    BY <1>0, <1>1, <1>2, <1>5, StartsStillHold, StopsStillHold
  <1>9. NothingOutlivesItsTurn'
    BY <1>0, <1>1, <1>4, RowsStillHeld DEF Types
  <1> QED BY <1>6, <1>7, <1>8, <1>9 DEF IInv

LEMMA EndCallKeeps ==
  ASSUME IInv, NEW l \in Leg, EndCall(l)
  PROVE  IInv'
  <1>0. Types /\ LegsHold /\ StartsHold /\ StopsHold /\ NothingOutlivesItsTurn
    BY DEF IInv
  <1>1. leg[l] \in LegRecord /\ leg[l].run # "unused" /\ leg[l].answer # "awaited"
        /\ leg[l].pending \in Ordinal
    BY <1>0, Constants DEF Types, LegRecord, LegsHold, EndCall, Alive
  <1>2. CASE Alive(l)
    <2> DEFINE r == [leg[l] EXCEPT !.call = "closing", !.key = None, !.on = None,
                                   !.closed = leg[l].pending + 1]
               F == {q \in OwnRows(leg[l].turn) : q.key.call = leg[l].pending}
    <2>1. Becomes(l, r) /\ Fire(F, <<l, "call">>) /\ UNCHANGED <<borrower, saved, starting, now>>
      BY <1>2 DEF EndCall
    <2>2. leg[l].pending + 1 \in 0..MaxCalls
      BY <1>1, Constants DEF Ordinal
    <2>3. r \in LegRecord /\ r.run = leg[l].run /\ r.turn = leg[l].turn /\ r.answer = leg[l].answer
          /\ r.pending = leg[l].pending
      BY <1>1, <2>2 DEF LegRecord
    <2>4. F \in SUBSET rows
      BY DEF OwnRows
    <2> HIDE DEF r, F
    <2>5. /\ rows' \subseteq rows /\ seq' = seq
          /\ stops' \subseteq stops \cup {s \in Stop : s.for = <<l, "call">>}
          /\ open' \in [Key -> Session \cup {None}]
          /\ session' \in
               [Session -> {"unused", "opening", "failed", "live", "stopping", "stopped"}]
      BY <1>0, <2>1, <2>4, FireKeeps
    <2>6. Types'
      BY <1>0, <2>1, <2>3, <2>5, LegMoves DEF Types, RowSet
    <2>7. LegsHold'
      BY <1>0, <1>1, <2>1, <2>3, <2>5, LegsStillHold DEF LegsHold, Alive
    <2>8. StartsHold' /\ StopsHold'
      BY <1>0, <1>1, <2>1, <2>3, <2>5, StartsStillHold, StopsStillHold
    <2>9. NothingOutlivesItsTurn'
      BY <1>0, <2>1, <2>5, RowsStillHeld
    <2> QED BY <2>6, <2>7, <2>8, <2>9 DEF IInv
  <1>3. CASE ~Alive(l)
    <2> DEFINE r == [leg[l] EXCEPT !.call = "none", !.key = None, !.on = None]
    <2>1. Becomes(l, r)
          /\ UNCHANGED <<rows, seq, stops, borrower, saved, open, starting, session, now>>
      BY <1>3 DEF EndCall
    <2>2. r \in LegRecord /\ r.run = leg[l].run /\ r.turn = leg[l].turn /\ r.answer = leg[l].answer
          /\ r.call = "none"
      BY <1>1 DEF LegRecord
    <2> HIDE DEF r
    <2>3. Types'
      BY <1>0, <2>1, <2>2, LegMoves DEF Types
    <2>4. LegsHold'
      BY <1>0, <1>1, <2>1, <2>2, LegsStillHold DEF LegsHold, Alive
    <2>5. StartsHold' /\ StopsHold'
      BY <1>0, <1>1, <2>1, <2>2, StartsStillHold, StopsStillHold
    <2>6. NothingOutlivesItsTurn'
      BY <1>0, <2>1, RowsStillHeld
    <2> QED BY <2>3, <2>4, <2>5, <2>6 DEF IInv
  <1> QED BY <1>2, <1>3
LEMMA ReuseKeeps ==
  ASSUME IInv, NEW l \in Leg, NEW x \in Tool, Reuse(l, x)
  PROVE  IInv'
  <1>0. Types /\ LegsHold /\ StartsHold /\ StopsHold /\ NothingOutlivesItsTurn
    BY DEF IInv
  <1>1. /\ leg[l].run = "running" /\ leg[l].answer # "awaited"
        /\ leg[l].turn \in Turn /\ borrower[leg[l].turn] = l
    BY <1>0 DEF LegsHold, CanCall, Alive, Reuse
  <1>2. /\ Dispatched(l) \in LegRecord /\ Dispatched(l).pending \in Ordinal
        /\ Dispatched(l).run = leg[l].run /\ Dispatched(l).turn = leg[l].turn
        /\ Dispatched(l).answer = leg[l].answer
    BY <1>0, DispatchedIs DEF Reuse
  <1> DEFINE k == CallKey(l, x)
  <1>3. k \in Key /\ (k.turn = None \/ k.turn = leg[l].turn)
    BY <1>0, CallKeyIs DEF Reuse
  <1> DEFINE r == [Dispatched(l) EXCEPT !.call = "using", !.key = k, !.on = open[k]]
  <1>4. /\ Becomes(l, r) /\ Register(k, open[k], open, session) /\ open[k] # None
        /\ UNCHANGED <<borrower, saved, starting, now>>
    BY DEF Reuse
  <1> HIDE DEF k
  <1>5. open[k] \in Session
    BY <1>0, <1>3, <1>4 DEF Types
  <1>6. r \in LegRecord /\ r.run = "running" /\ r.turn = leg[l].turn /\ r.answer = leg[l].answer
        /\ r.pending \in Ordinal
    BY <1>1, <1>2, <1>3, <1>5 DEF LegRecord
  <1> HIDE DEF r
  <1>7. /\ seq' \in Nat /\ rows' \in RowSet(seq')
        /\ \A q \in rows' : q.key = k \/ q \in rows
        /\ stops' \subseteq stops \cup {w \in Stop : w.for = None}
        /\ open' \in [Key -> Session \cup {None}]
        /\ session' \in
             [Session -> {"unused", "opening", "failed", "live", "stopping", "stopped"}]
    <2>1. open \in [Key -> Session \cup {None}] /\ session \in
            [Session -> {"unused", "opening", "failed", "live", "stopping", "stopped"}]
      BY <1>0 DEF Types
    <2> QED BY <1>0, <1>3, <1>4, <1>5, <2>1, RegisterKeeps
  <1>8. Types'
    BY <1>0, <1>4, <1>6, <1>7, LegMoves DEF Types
  <1>9. LegsHold'
    <2>1. \A m \in Leg \ {l} : leg[m].run = "finishing" =>
            /\ leg[m].turn \in Turn /\ leg[m].turn # leg[l].turn
            /\ \A q \in rows : q.key.turn # leg[m].turn
      BY <1>0, <1>1, OneHolder DEF LegsHold
    <2>2. \A m \in Leg \ {l} : leg[m].run = "finishing" =>
            \A q \in rows' : q.key.turn # leg[m].turn
      BY <1>3, <1>7, <2>1, Constants
    <2> QED BY <1>0, <1>1, <1>4, <1>6, <2>2, LegsStillHold DEF LegsHold
  <1>10. StartsHold' /\ StopsHold'
    BY <1>0, <1>1, <1>4, <1>6, <1>7, StartsStillHold, StopsStillHold
  <1>11. NothingOutlivesItsTurn'
    BY <1>0, <1>1, <1>3, <1>4, <1>7, Constants, RowsStillHeld
  <1> QED BY <1>8, <1>9, <1>10, <1>11 DEF IInv

LEMMA OpenOneKeeps ==
  ASSUME IInv, NEW l \in Leg, NEW x \in Tool, OpenOne(l, x)
  PROVE  IInv'
  <1>0. Types /\ LegsHold /\ StartsHold /\ StopsHold /\ NothingOutlivesItsTurn
    BY DEF IInv
  <1>1. /\ leg[l].run = "running" /\ leg[l].answer # "awaited"
        /\ leg[l].turn \in Turn /\ borrower[leg[l].turn] = l
    BY <1>0 DEF LegsHold, CanCall, Alive, OpenOne
  <1>2. /\ Dispatched(l) \in LegRecord /\ Dispatched(l).pending \in Ordinal
        /\ Dispatched(l).run = leg[l].run /\ Dispatched(l).turn = leg[l].turn
        /\ Dispatched(l).answer = leg[l].answer
    BY <1>0, DispatchedIs DEF OpenOne
  <1> DEFINE k == CallKey(l, x)
  <1>3. k \in Key /\ (k.turn = None \/ k.turn = leg[l].turn)
    BY <1>0, CallKeyIs DEF OpenOne
  <1> DEFINE r == [Dispatched(l) EXCEPT !.call = "opening", !.key = k]
  <1>4. PICK s \in Session :
          /\ session' = [session EXCEPT ![s] = "opening"]
          /\ starting' = [starting EXCEPT ![k] =
                            [session |-> s, leg |-> l, call |-> Dispatched(l).pending]]
    BY DEF OpenOne
  <1>5. Becomes(l, r) /\ UNCHANGED <<rows, seq, stops, borrower, saved, open, now>>
    BY DEF OpenOne, tier
  <1> HIDE DEF k
  <1>6. r \in LegRecord /\ r.run = "running" /\ r.turn = leg[l].turn /\ r.answer = leg[l].answer
        /\ r.pending \in Ordinal
    BY <1>1, <1>2, <1>3 DEF LegRecord
  <1> HIDE DEF r
  <1>7. [session |-> s, leg |-> l, call |-> Dispatched(l).pending] \in Start
    BY <1>2 DEF Start
  <1>8. Types'
    BY <1>0, <1>4, <1>5, <1>6, <1>7, LegMoves DEF Types
  <1>9. LegsHold'
    BY <1>0, <1>1, <1>5, <1>6, LegsStillHold DEF LegsHold
  <1>10. StartsHold'
    <2>1. leg'[l] = r /\ \A m \in Leg : m # l => leg'[m] = leg[m]
      BY <1>0, <1>5, <1>6, LegMoves
    <2> SUFFICES ASSUME NEW j \in Key, starting'[j] # None
                 PROVE  /\ j.turn = None \/ j.turn = leg'[starting'[j].leg].turn
                        /\ leg'[starting'[j].leg].run # "unused"
      BY DEF StartsHold
    <2>2. CASE j = k
      <3>1. starting'[k].leg = l
        BY <1>0, <1>3, <1>4 DEF Types
      <3> QED BY <1>3, <1>6, <2>1, <2>2, <3>1
    <2>3. CASE j # k
      <3>1. starting'[j] = starting[j] /\ starting[j].leg \in Leg
        BY <1>0, <1>4, <2>3 DEF Types, Start
      <3> QED BY <1>0, <1>1, <1>6, <2>1, <3>1 DEF StartsHold
    <2> QED BY <2>2, <2>3
  <1>11. StopsHold'
    BY <1>0, <1>5, <1>6, StopsStillHold
  <1>12. NothingOutlivesItsTurn'
    BY <1>0, <1>5, RowsStillHeld
  <1> QED BY <1>8, <1>9, <1>10, <1>11, <1>12 DEF IInv

\* Those that waited for a session go on: nothing but their calls changes.
LEMMA GoOnMoves ==
  ASSUME Types, NEW k \in Key, NEW call \in {"using", "failed"}, NEW s \in Session \cup {None},
         GoOn(k, call, s)
  PROVE  /\ leg' \in [Leg -> LegRecord]
         /\ \A l \in Leg :
              /\ leg'[l].run = leg[l].run /\ leg'[l].turn = leg[l].turn
              /\ leg'[l].answer = leg[l].answer /\ leg'[l].pending = leg[l].pending
              /\ leg'[l].call # "none" => leg[l].call # "none"
  <1>1. \A l \in Leg : leg[l] \in LegRecord
    BY DEF Types
  <1>2. \A l \in Leg :
          /\ [leg[l] EXCEPT !.call = call, !.on = s] \in LegRecord
          /\ [leg[l] EXCEPT !.call = call, !.on = s].run = leg[l].run
          /\ [leg[l] EXCEPT !.call = call, !.on = s].turn = leg[l].turn
          /\ [leg[l] EXCEPT !.call = call, !.on = s].answer = leg[l].answer
          /\ [leg[l] EXCEPT !.call = call, !.on = s].pending = leg[l].pending
    BY <1>1 DEF LegRecord
  <1>3. leg' = [l \in Leg |-> IF leg[l].call = "opening" /\ leg[l].key = k
                              THEN [leg[l] EXCEPT !.call = call, !.on = s] ELSE leg[l]]
    BY DEF GoOn
  <1>4. \A l \in Leg : leg'[l] = IF leg[l].call = "opening" /\ leg[l].key = k
                              THEN [leg[l] EXCEPT !.call = call, !.on = s] ELSE leg[l]
    BY <1>3
  <1>5. leg' \in [Leg -> LegRecord]
    BY <1>1, <1>2, <1>3
  <1> SUFFICES ASSUME NEW l \in Leg
               PROVE  /\ leg'[l].run = leg[l].run /\ leg'[l].turn = leg[l].turn
                      /\ leg'[l].answer = leg[l].answer /\ leg'[l].pending = leg[l].pending
                      /\ leg'[l].call # "none" => leg[l].call # "none"
    BY <1>5
  <1>6. CASE leg[l].call = "opening" /\ leg[l].key = k
    BY <1>2, <1>4, <1>6
  <1>7. CASE ~(leg[l].call = "opening" /\ leg[l].key = k)
    BY <1>4, <1>7
  <1> QED BY <1>6, <1>7

\* What is left of the legs and the stops when only calls and rows move.
LEMMA SettledKeeps ==
  ASSUME IInv, leg' \in [Leg -> LegRecord],
         \A l \in Leg :
           /\ leg'[l].run = leg[l].run /\ leg'[l].turn = leg[l].turn
           /\ leg'[l].answer = leg[l].answer /\ leg'[l].pending = leg[l].pending
           /\ leg'[l].call # "none" => leg[l].call # "none",
         UNCHANGED <<borrower, saved>>,
         \A q \in rows' : \/ q \in rows \/ q.key.turn = None
                          \/ \E l \in Leg : leg[l].run = "running" /\ q.key.turn = leg[l].turn,
         \A w \in stops' : w.for = None \/ \E v \in stops : v.for = w.for,
         \A k \in Key : starting'[k] \in {None, starting[k]}
  PROVE  LegsHold' /\ StartsHold' /\ StopsHold' /\ NothingOutlivesItsTurn'
  <1>0. Types /\ LegsHold /\ StartsHold /\ StopsHold /\ NothingOutlivesItsTurn
    BY DEF IInv
  <1>1. \A l \in Leg : leg[l].run = "finishing" => \A q \in rows' : q.key.turn # leg[l].turn
    <2> SUFFICES ASSUME NEW l \in Leg, leg[l].run = "finishing", NEW q \in rows'
                 PROVE  q.key.turn # leg[l].turn
      OBVIOUS
    <2>1. leg[l].turn \in Turn /\ leg[l].turn # None
      BY <1>0, Constants DEF LegsHold
    <2>2. ASSUME NEW m \in Leg, leg[m].run = "running" PROVE leg[m].turn # leg[l].turn
      BY <1>0, <2>2, OneHolder
    <2> QED BY <1>0, <2>1, <2>2 DEF LegsHold
  <1>2. LegsHold'
    BY <1>0, <1>1 DEF LegsHold, Alive, Ordinal
  <1>3. StartsHold'
    <2>1. \A k \in Key : starting[k] # None => starting[k].leg \in Leg
      BY <1>0 DEF Types, Start
    <2> QED BY <1>0, <2>1 DEF StartsHold
  <1>4. StopsHold'
    BY <1>0 DEF StopsHold
  <1>5. NothingOutlivesItsTurn'
    <2>1. \A l \in Leg : leg[l].run = "running" => borrower'[leg[l].turn] # None
      BY <1>0, Constants DEF LegsHold
    <2> QED BY <1>0, <2>1, RowsStillHeld
  <1> QED BY <1>2, <1>3, <1>4, <1>5

LEMMA OpenedKeeps ==
  ASSUME IInv, NEW k \in Key, Opened(k)
  PROVE  IInv'
  <1>0. Types /\ LegsHold /\ StartsHold /\ StopsHold /\ NothingOutlivesItsTurn
    BY DEF IInv
  <1> DEFINE one == starting[k]
  <1>1. one # None /\ one \in Start
        /\ starting' = [starting EXCEPT ![k] = None] /\ UNCHANGED <<borrower, saved, now>>
    BY <1>0 DEF Opened, Started, Types
  <1>2. one.session \in Session /\ one.leg \in Leg
    BY <1>1 DEF Start
  <1>3. k.turn = None \/ k.turn = leg[one.leg].turn
    BY <1>0, <1>1 DEF StartsHold
  <1>4. \A j \in Key : starting'[j] \in {None, starting[j]}
    BY <1>0, <1>1 DEF Types
  <1>5. starting' \in [Key -> Start \cup {None}]
    BY <1>0, <1>1 DEF Types
  <1>6. CASE Refused(one.leg, one.call)
    <2>1. /\ stops' = stops \cup RejectLate(one.session)
          /\ session' = [session EXCEPT ![one.session] =
                           IF RejectLate(one.session) = {} THEN "live" ELSE "stopping"]
          /\ GoOn(k, "failed", None)
          /\ UNCHANGED <<rows, seq, open>>
      BY <1>6 DEF Opened
    <2> HIDE DEF one
    <2>2. stops' \subseteq stops \cup {w \in Stop : w.for = None}
      BY <1>2, <2>1 DEF RejectLate, Stop
    <2>3. leg' \in [Leg -> LegRecord]
      BY <1>0, <2>1, GoOnMoves
    <2>4. Types'
      BY <1>0, <1>1, <1>2, <1>5, <2>1, <2>2, <2>3 DEF Types
    <2>5. LegsHold' /\ StartsHold' /\ StopsHold' /\ NothingOutlivesItsTurn'
      BY <1>0, <1>1, <1>4, <2>1, <2>2, <2>3, GoOnMoves, SettledKeeps
    <2> QED BY <2>4, <2>5 DEF IInv
  <1>7. CASE ~Refused(one.leg, one.call)
    <2> DEFINE o == [open EXCEPT ![k] = one.session]
               ss == [session EXCEPT ![one.session] = "live"]
    <2>1. Register(k, one.session, o, ss) /\ GoOn(k, "using", one.session)
      BY <1>7 DEF Opened
    <2>2. leg[one.leg].run = "running"
      BY <1>7 DEF Refused
    <2> HIDE DEF one
    <2>3. o \in [Key -> Session \cup {None}] /\ ss \in
            [Session -> {"unused", "opening", "failed", "live", "stopping", "stopped"}]
      BY <1>0, <1>2 DEF Types
    <2> HIDE DEF o, ss
    <2>4. /\ seq' \in Nat /\ rows' \in RowSet(seq')
          /\ \A q \in rows' : q.key = k \/ q \in rows
          /\ stops' \subseteq stops \cup {w \in Stop : w.for = None}
          /\ open' \in [Key -> Session \cup {None}]
          /\ session' \in
               [Session -> {"unused", "opening", "failed", "live", "stopping", "stopped"}]
      BY <1>0, <1>2, <2>1, <2>3, RegisterKeeps
    <2>5. /\ leg' \in [Leg -> LegRecord]
          /\ \A l \in Leg :
               /\ leg'[l].run = leg[l].run /\ leg'[l].turn = leg[l].turn
               /\ leg'[l].answer = leg[l].answer /\ leg'[l].pending = leg[l].pending
               /\ leg'[l].call # "none" => leg[l].call # "none"
      BY <1>0, <1>2, <2>1, GoOnMoves
    <2>6. Types'
      BY <1>0, <1>1, <1>5, <2>4, <2>5 DEF Types
    <2>7. \A q \in rows' : \/ q \in rows \/ q.key.turn = None
                           \/ \E l \in Leg : leg[l].run = "running" /\ q.key.turn = leg[l].turn
      BY <1>2, <1>3, <2>2, <2>4
    <2>8. \A w \in stops' : w.for = None \/ \E v \in stops : v.for = w.for
      BY <2>4
    <2>9. LegsHold' /\ StartsHold' /\ StopsHold' /\ NothingOutlivesItsTurn'
      BY <1>1, <1>4, <2>5, <2>7, <2>8, SettledKeeps
    <2> QED BY <2>6, <2>9 DEF IInv
  <1> QED BY <1>6, <1>7

LEMMA OpenFailsKeeps ==
  ASSUME IInv, NEW k \in Key, OpenFails(k)
  PROVE  IInv'
  <1>0. Types /\ LegsHold /\ StartsHold /\ StopsHold /\ NothingOutlivesItsTurn
    BY DEF IInv
  <1>1. /\ starting[k] # None /\ starting' = [starting EXCEPT ![k] = None]
        /\ session' = [session EXCEPT ![starting[k].session] = "failed"]
        /\ GoOn(k, "failed", None) /\ UNCHANGED <<rows, seq, stops, borrower, saved, open, now>>
    BY DEF OpenFails, Started, tier
  <1>2. starting[k].session \in Session
    BY <1>0, <1>1 DEF Types, Start
  <1>3. /\ leg' \in [Leg -> LegRecord]
        /\ \A l \in Leg :
             /\ leg'[l].run = leg[l].run /\ leg'[l].turn = leg[l].turn
             /\ leg'[l].answer = leg[l].answer /\ leg'[l].pending = leg[l].pending
             /\ leg'[l].call # "none" => leg[l].call # "none"
    BY <1>0, <1>1, GoOnMoves
  <1>4. Types'
    BY <1>0, <1>1, <1>2, <1>3 DEF Types
  <1>5. \A j \in Key : starting'[j] \in {None, starting[j]}
    BY <1>0, <1>1 DEF Types
  <1>6. LegsHold' /\ StartsHold' /\ StopsHold' /\ NothingOutlivesItsTurn'
    BY <1>1, <1>3, <1>5, SettledKeeps
  <1> QED BY <1>4, <1>6 DEF IInv

LEMMA CloseKeeps ==
  ASSUME IInv, Close
  PROVE  IInv'
  <1>0. Types /\ LegsHold /\ StartsHold /\ StopsHold /\ NothingOutlivesItsTurn
    BY DEF IInv
  <1>1. PICK scopes \in {{"session"}, {"run"}, {"call", "run", "session"}} :
               /\ Fire({q \in rows : Scope(q) \in scopes}, None)
               /\ UNCHANGED <<borrower, saved, starting, leg, now>>
    BY DEF Close
  <1>2. /\ rows' \subseteq rows /\ seq' = seq
        /\ stops' \subseteq stops \cup {w \in Stop : w.for = None}
        /\ open' \in [Key -> Session \cup {None}]
        /\ session' \in
             [Session -> {"unused", "opening", "failed", "live", "stopping", "stopped"}]
    BY <1>0, <1>1, FireKeeps
  <1>3. Types'
    BY <1>0, <1>1, <1>2 DEF Types, RowSet
  <1>4. LegsHold' /\ StartsHold' /\ StopsHold' /\ NothingOutlivesItsTurn'
    BY <1>0, <1>1, <1>2, SettledKeeps DEF Types
  <1> QED BY <1>3, <1>4 DEF IInv

LEMMA StoppedKeeps ==
  ASSUME IInv, NEW w \in Stop, Stopped(w) \/ StopTimesOut(w)
  PROVE  IInv'
  <1>0. Types /\ LegsHold /\ StartsHold /\ StopsHold /\ NothingOutlivesItsTurn
    BY DEF IInv
  <1>1. /\ stops' \subseteq stops \cup {v \in Stop : v.for = None}
        /\ UNCHANGED <<rows, seq, borrower, saved, leg, open, starting, now>>
    <2>1. [w EXCEPT !.for = None] \in Stop /\ [w EXCEPT !.for = None].for = None
      BY DEF Stop
    <2> QED BY <2>1 DEF Stopped, StopTimesOut, tool
  <1>2. session' \in
          [Session -> {"unused", "opening", "failed", "live", "stopping", "stopped"}]
    BY <1>0 DEF Stopped, StopTimesOut, tool, Types
  <1>3. Types'
    BY <1>0, <1>1, <1>2 DEF Types
  <1>4. LegsHold' /\ StartsHold' /\ StopsHold' /\ NothingOutlivesItsTurn'
    BY <1>0, <1>1, SettledKeeps DEF Types
  <1> QED BY <1>3, <1>4 DEF IInv

LEMMA TickKeeps ==
  ASSUME IInv, Tick
  PROVE  IInv'
  <1>0. Types /\ LegsHold /\ StartsHold /\ StopsHold /\ NothingOutlivesItsTurn
    BY DEF IInv
  <1>1. Types'
    BY <1>0, BoundsAssumption DEF Types, Tick, tier, tool
  <1>2. LegsHold' /\ StartsHold' /\ StopsHold' /\ NothingOutlivesItsTurn'
    BY <1>0, SettledKeeps DEF Types, Tick, tier, tool
  <1> QED BY <1>1, <1>2 DEF IInv

LEMMA StutterKeeps ==
  ASSUME IInv, UNCHANGED vars
  PROVE  IInv'
  <1>0. Types /\ LegsHold /\ StartsHold /\ StopsHold /\ NothingOutlivesItsTurn
    BY DEF IInv
  <1>1. Types'
    BY <1>0 DEF Types, vars, tier, tool
  <1>2. LegsHold' /\ StartsHold' /\ StopsHold' /\ NothingOutlivesItsTurn'
    BY <1>0, SettledKeeps DEF Types, vars, tier, tool
  <1> QED BY <1>1, <1>2 DEF IInv

-----------------------------------------------------------------------------

LEMMA Initially ==
  ASSUME Init
  PROVE  IInv
  <1>1. Types
    BY NoLegIs, BoundsAssumption DEF Init, Types, RowSet
  <1>2. \A l \in Leg : leg[l] = NoLeg /\ NoLeg.run = "unused"
    BY DEF Init, NoLeg
  <1> QED BY <1>1, <1>2, NoLegIs
        DEF Init, IInv, LegsHold, StartsHold, StopsHold, NothingOutlivesItsTurn, Alive

LEMMA StepKeeps ==
  ASSUME IInv, [Next]_vars
  PROVE  IInv'
  <1>1. ASSUME NEW l \in Leg, LegStep(l) PROVE IInv'
    <2>1. ASSUME NEW t \in Turn, Begin(l, t) \/ Resume(l, t) \/ ResumeRefused(l, t) \/ Abandon(l, t)
          PROVE  IInv'
      BY <2>1, BeginKeeps, ResumeKeeps, ResumeRefusedKeeps, AbandonKeeps
    <2>2. ASSUME NEW x \in Tool, Reuse(l, x) \/ Join(l, x) \/ OpenOne(l, x)
          PROVE  IInv'
      BY <2>2, ReuseKeeps, JoinKeeps, OpenOneKeeps
    <2> QED BY <1>1, <2>1, <2>2, TakeAnswerKeeps, PauseKeeps, EndKeeps, OverKeeps,
               EndCallKeeps, CallEndsKeeps DEF LegStep
  <1>2. ASSUME NEW k \in Key, Opened(k) \/ OpenFails(k) PROVE IInv'
    BY <1>2, OpenedKeeps, OpenFailsKeeps
  <1>3. ASSUME NEW w \in Stop, Stopped(w) \/ StopTimesOut(w) PROVE IInv'
    BY <1>3, StoppedKeeps
  <1> QED BY <1>1, <1>2, <1>3, CloseKeeps, TickKeeps, StutterKeeps DEF Next

LEMMA Always == Spec => []IInv
  BY Initially, StepKeeps, PTL DEF Spec

\* What a turn registered is gone once the turn is over: componentResources.ts
\* finalizes the owner's rows, and what its calls register later is refused.
THEOREM TurnsLeaveNothing == Spec => []NothingOutlivesItsTurn
  <1>1. IInv => NothingOutlivesItsTurn
    BY DEF IInv
  <1> QED BY <1>1, Always, PTL

\* A resume that took no answer stops nothing: onFinalize keeps the rows.
THEOREM UnansweredKeepsAll == Spec => []UnansweredStopsNothing
  <1>1. IInv => UnansweredStopsNothing
    BY DEF IInv, StopsHold, UnansweredStopsNothing
  <1> QED BY <1>1, Always, PTL

-----------------------------------------------------------------------------
(* The bound on the registrations                                          *)

Unique(rs) == \A r, q \in rs : r.key = q.key \/ r.id = q.id => r = q

Bounded(rs, n) == IsFiniteSet(rs) /\ Cardinality(rs) <= n /\ Unique(rs)

LEMMA LeastOf ==
  ASSUME NEW T \in SUBSET Nat, T # {}
  PROVE  \E x \in T : \A y \in T : x <= y
  <1>1. PICK x \in T : \A y \in T : ~(<<y, x>> \in OpToRel(<, Nat))
    BY NatLessThanWellFounded, WFMin
  <1>2. \A y \in T : ~(y < x)
    BY <1>1 DEF OpToRel
  <1> QED BY <1>2

\* Of some rows, one is the coldest.
LEMMA OneIsColdest ==
  ASSUME NEW n \in Nat, NEW rs \in RowSet(n), Unique(rs), rs # {}
  PROVE  \E r \in rs : \A q \in rs \ {r} : Colder(r, q)
  <1>1. \A r \in rs : r.touched \in Nat /\ r.id \in Nat
    BY BoundsAssumption DEF RowSet
  <1> DEFINE T == {r.touched : r \in rs}
  <1>2. PICK x \in T : \A y \in T : x <= y
    <2>1. T \in SUBSET Nat /\ T # {}
      BY <1>1
    <2> QED BY <2>1, LeastOf
  <1> DEFINE U == {r.id : r \in {r \in rs : r.touched = x}}
  <1>3. PICK i \in U : \A j \in U : i <= j
    <2>1. U \in SUBSET Nat /\ U # {}
      BY <1>1, <1>2
    <2> QED BY <2>1, LeastOf
  <1>4. PICK r \in rs : r.touched = x /\ r.id = i
    BY <1>3
  <1> SUFFICES ASSUME NEW q \in rs \ {r}
               PROVE  Colder(r, q)
    BY <1>4
  <1>5. r.id # q.id
    BY DEF Unique
  <1>6. r.touched <= q.touched /\ (q.touched = r.touched => r.id <= q.id)
    BY <1>2, <1>3, <1>4
  <1> QED BY <1>1, <1>5, <1>6 DEF Colder

\* With one row too many, evicting brings the rows back to the bound.
LEMMA OverflowBounds ==
  ASSUME NEW n \in Nat, NEW rs \in RowSet(n), Bounded(rs, MaxLive + 1)
  PROVE  Bounded(rs \ Overflow(rs), MaxLive)
  <1>0. MaxLive \in Nat /\ Cardinality(rs) \in Nat
    BY BoundsAssumption, FS_CardinalityType DEF Bounded
  <1>1. IsFiniteSet(rs \ Overflow(rs))
    BY FS_Subset DEF Bounded
  <1>2. Unique(rs \ Overflow(rs))
    BY DEF Unique, Bounded
  <1>3. CASE Cardinality(rs) > MaxLive
    <2>1. rs # {}
      BY <1>0, <1>3, FS_EmptySet
    <2>2. PICK r \in rs : \A q \in rs \ {r} : Colder(r, q)
      BY <2>1, OneIsColdest DEF Bounded
    <2>3. \A q \in rs : q.touched \in Nat /\ q.id \in Nat
      BY BoundsAssumption DEF RowSet
    <2>4. Overflow(rs) = {r}
      BY <1>3, <2>2, <2>3 DEF Overflow, Colder
    <2>5. Cardinality(rs \ {r}) = Cardinality(rs) - 1
      BY FS_RemoveElement DEF Bounded
    <2>6. Cardinality(rs \ {r}) <= MaxLive
      BY <1>0, <2>5 DEF Bounded
    <2> QED BY <1>1, <1>2, <2>4, <2>6 DEF Bounded
  <1>4. CASE ~(Cardinality(rs) > MaxLive)
    <2>1. Overflow(rs) = {}
      BY <1>4 DEF Overflow
    <2>2. rs \ Overflow(rs) = rs
      BY <2>1
    <2> QED BY <1>0, <1>1, <1>2, <1>4, <2>2 DEF Bounded
  <1> QED BY <1>3, <1>4

\* Filing adds one row at most, and keeps keys and numbers apart.
LEMMA FiledBounds ==
  ASSUME seq \in Nat, now \in 0..MaxNow, NEW rs \in RowSet(seq), Bounded(rs, MaxLive),
         NEW k \in Key, NEW s \in Session
  PROVE  Bounded(Filed(rs, k, s), MaxLive + 1)
  <1>0. MaxLive \in Nat /\ Cardinality(rs) \in Nat /\ IsFiniteSet(rs)
    BY BoundsAssumption, FS_CardinalityType DEF Bounded
  <1>1. CASE \E r \in rs : r.key = k
    <2>1. PICK q \in rs : q.key = k
      BY <1>1
    <2> DEFINE p == [q EXCEPT !.touched = now]
    <2>2. p.key = k /\ p.id = q.id
      BY <2>1 DEF RowSet
    <2>3. \A r \in rs : r.key = k <=> r = q
      BY <2>1 DEF Bounded, Unique
    <2>4. Filed(rs, k, s) = (rs \ {q}) \cup {p}
      <3>1. Filed(rs, k, s) = {IF r.key = k THEN [r EXCEPT !.touched = now] ELSE r : r \in rs}
        BY <1>1, Zenon DEF Filed
      <3>2. \A r \in rs : (IF r.key = k THEN [r EXCEPT !.touched = now] ELSE r)
                            = IF r = q THEN p ELSE r
        BY <2>3
      <3>3. Filed(rs, k, s) = {IF r = q THEN p ELSE r : r \in rs}
        BY <3>1, <3>2
      <3> HIDE DEF p
      <3> QED BY <2>1, <3>3
    <2> HIDE DEF p
    <2>5. IsFiniteSet(rs \ {q}) /\ Cardinality(rs \ {q}) = Cardinality(rs) - 1
      BY <1>0, FS_RemoveElement
    <2>6. p \notin rs \ {q}
      BY <2>2, <2>3
    <2>7. /\ IsFiniteSet((rs \ {q}) \cup {p})
          /\ Cardinality((rs \ {q}) \cup {p}) = Cardinality(rs \ {q}) + 1
      BY <2>5, <2>6, FS_AddElement
    <2>8. Unique((rs \ {q}) \cup {p})
      BY <2>1, <2>2 DEF Bounded, Unique
    <2>9. Cardinality((rs \ {q}) \cup {p}) <= MaxLive + 1
      BY <1>0, <2>5, <2>7 DEF Bounded
    <2> QED BY <2>4, <2>7, <2>8, <2>9 DEF Bounded
  <1>2. CASE ~\E r \in rs : r.key = k
    <2> DEFINE p == [key |-> k, session |-> s, touched |-> now, id |-> seq + 1]
    <2>1. Filed(rs, k, s) = rs \cup {p}
      BY <1>2, Zenon DEF Filed
    <2>2. p.key = k /\ p.id = seq + 1 /\ \A r \in rs : r.id \in 1..seq
      BY DEF RowSet
    <2> HIDE DEF p
    <2>3. \A r \in rs : r.key # p.key /\ r.id # p.id
      BY <1>2, <2>2
    <2>4. Unique(rs \cup {p})
      BY <2>3 DEF Bounded, Unique
    <2>5. /\ IsFiniteSet(rs \cup {p})
          /\ Cardinality(rs \cup {p}) = Cardinality(rs) + 1
      BY <1>0, <2>3, FS_AddElement
    <2>6. Cardinality(rs \cup {p}) <= MaxLive + 1
      BY <1>0, <2>5 DEF Bounded
    <2> QED BY <2>1, <2>4, <2>5, <2>6 DEF Bounded
  <1> QED BY <1>1, <1>2

LEMMA SubsetBounded ==
  ASSUME NEW rs, NEW n \in Nat, Bounded(rs, n), NEW qs \in SUBSET rs
  PROVE  Bounded(qs, n)
  <1>1. IsFiniteSet(qs) /\ Cardinality(qs) <= Cardinality(rs)
    BY FS_Subset DEF Bounded
  <1>2. Cardinality(qs) \in Nat /\ Cardinality(rs) \in Nat
    BY <1>1, FS_CardinalityType DEF Bounded
  <1>3. Cardinality(qs) <= n
    BY <1>1, <1>2 DEF Bounded
  <1> QED BY <1>1, <1>3 DEF Bounded, Unique

\* Registering keeps the bound.
LEMMA RegisterBounds ==
  ASSUME Types, Bounded(rows, MaxLive), NEW k \in Key, NEW s \in Session, NEW o, NEW ss,
         Register(k, s, o, ss)
  PROVE  Bounded(rows', MaxLive)
  <1> DEFINE rs == rows \ {r \in rows : Idle(r)}
             filed == Filed(rs, k, s)
  <1>1. rows' = filed \ Overflow(filed)
    BY DEF Register
  <1>2. rs \in SUBSET rows /\ rs \in RowSet(seq) /\ seq \in Nat /\ now \in 0..MaxNow
    BY DEF Types, RowSet
  <1>3. Bounded(rs, MaxLive)
    BY <1>2, SubsetBounded, BoundsAssumption
  <1> HIDE DEF rs
  <1>4. Bounded(filed, MaxLive + 1)
    BY <1>2, <1>3, FiledBounds
  <1>5. filed \in RowSet(seq) \/ filed \in RowSet(seq + 1)
    BY <1>2, FiledRows
  <1> HIDE DEF filed
  <1> QED BY <1>1, <1>2, <1>4, <1>5, OverflowBounds

\* Every step leaves the rows within the bound.
LEMMA StepBounds ==
  ASSUME IInv, Bounded(rows, MaxLive), [Next]_vars
  PROVE  Bounded(rows', MaxLive)
  <1>0. Types /\ LegsHold
    BY DEF IInv
  <1>1. CASE rows' \subseteq rows
    BY <1>1, SubsetBounded, BoundsAssumption
  <1>2. ASSUME NEW l \in Leg, NEW x \in Tool, Reuse(l, x) PROVE Bounded(rows', MaxLive)
    <2>1. CallKey(l, x) \in Key
      BY <1>0, <1>2, CallKeyIs DEF Reuse
    <2>2. /\ open[CallKey(l, x)] \in Session
          /\ Register(CallKey(l, x), open[CallKey(l, x)], open, session)
      BY <1>0, <1>2, <2>1 DEF Reuse, Types
    <2> QED BY <1>0, <2>1, <2>2, RegisterBounds
  <1>3. ASSUME NEW k \in Key, Opened(k) PROVE Bounded(rows', MaxLive)
    <2>1. starting[k].session \in Session
      BY <1>0, <1>3 DEF Opened, Types, Start
    <2>2. CASE Refused(starting[k].leg, starting[k].call)
      BY <1>1, <1>3, <2>2 DEF Opened
    <2>3. CASE ~Refused(starting[k].leg, starting[k].call)
      <3>1. Register(k, starting[k].session, [open EXCEPT ![k] = starting[k].session],
                     [session EXCEPT ![starting[k].session] = "live"])
        BY <1>3, <2>3 DEF Opened
      <3> QED BY <1>0, <2>1, <3>1, RegisterBounds
    <2> QED BY <2>2, <2>3
  <1>4. ASSUME NEW l \in Leg, LegStep(l), ~\E x \in Tool : Reuse(l, x)
        PROVE  rows' \subseteq rows
    <2>1. ASSUME End(l) PROVE rows' \subseteq rows
      BY <2>1 DEF End, Fire, Unclaimed
    <2>2. ASSUME EndCall(l) PROVE rows' \subseteq rows
      BY <2>2 DEF EndCall, Fire, Unclaimed
    <2>3. ASSUME NEW t \in Turn, Begin(l, t) \/ Resume(l, t) \/ ResumeRefused(l, t) \/ Abandon(l, t)
          PROVE  rows' \subseteq rows
      BY <2>3 DEF Begin, Resume, ResumeRefused, Abandon, tier, Fire, Unclaimed
    <2>4. ASSUME NEW x \in Tool, Join(l, x) \/ OpenOne(l, x) PROVE rows' \subseteq rows
      BY <2>4 DEF Join, OpenOne, tier
    <2>5. ASSUME TakeAnswer(l) \/ Pause(l) \/ Over(l) \/ CallEnds(l) PROVE rows' \subseteq rows
      BY <2>5 DEF TakeAnswer, Pause, Over, CallEnds, tier
    <2> QED BY <1>4, <2>1, <2>2, <2>3, <2>4, <2>5 DEF LegStep
  <1>5. ASSUME (\E k \in Key : OpenFails(k)) \/ Close \/ Tick \/ UNCHANGED vars
               \/ \E w \in Stop : Stopped(w) \/ StopTimesOut(w)
        PROVE  rows' \subseteq rows
    BY <1>5 DEF OpenFails, Close, Tick, vars, tier, Stopped, StopTimesOut, Fire, Unclaimed
  <1> QED BY <1>1, <1>2, <1>3, <1>4, <1>5 DEF Next

\* The registrations stay within the bound, one per key: registerOwned touches
\* a key's row or files one, and evicts the coldest.
THEOREM TypeCorrect == Spec => []TypeOK
  <1>1. Init => Bounded(rows, MaxLive)
    BY FS_EmptySet, BoundsAssumption DEF Init, Bounded, Unique
  <1>2. IInv /\ Bounded(rows, MaxLive) /\ [Next]_vars => Bounded(rows, MaxLive)'
    BY StepBounds DEF Bounded, Unique
  <1>3. IInv /\ Bounded(rows, MaxLive) => TypeOK
    BY DEF IInv, Types, RowSet, Bounded, Unique, TypeOK
  <1> QED BY <1>1, <1>2, <1>3, Always, PTL DEF Spec

-----------------------------------------------------------------------------
(* Sessions are neither lost nor stopped twice while no call takes up a    *)
(* session whose row its own registration sweeps. The parts are of a state *)
(* in the middle of a step: rows rs, the sessions o the tools hand out,    *)
(* how the sessions ss are and the cleanups ws that run, as far as the     *)
(* step has come.                                                          *)

\* The sweep of a call that reuses the session of its key spares its row.
InTime == \A l \in Leg, x \in Tool :
  Reuse(l, x) => \A r \in rows : r.key = CallKey(l, x) => ~Idle(r)

\* How it is, for one, when no row ever goes idle.
NeverIdle == IdleMs > MaxNow

Opens == [Key -> Session \cup {None}]
States == [Session -> {"unused", "opening", "failed", "live", "stopping", "stopped"}]

\* Rows, sessions handed out and sessions that run are one and the same.
Sound(rs, o, ss) ==
  /\ \A r, q \in rs : r.key = q.key \/ r.session = q.session => r = q
  /\ \A r \in rs : r.key \in Key /\ r.session \in Session
                    /\ o[r.key] = r.session /\ ss[r.session] = "live"
  /\ \A k \in Key : o[k] # None => \E r \in rs : r.key = k
  /\ \A s \in Session : ss[s] = "live" => \E r \in rs : r.session = s

\* One cleanup runs for each session that stops.
Stoppings(ws, ss) ==
  /\ \A w \in ws : w.session \in Session /\ ss[w.session] = "stopping"
  /\ \A w, v \in ws : w.session = v.session => w = v
  /\ \A s \in Session : ss[s] = "stopping" => \E w \in ws : w.session = s

\* Sessions being opened are new ones, for keys without one.
Openings(st, o, ss) ==
  /\ \A k \in Key : st[k] # None =>
       st[k].session \in Session /\ ss[st[k].session] = "opening" /\ o[k] = None
  /\ \A j, k \in Key : st[j] # None /\ st[k] # None /\ st[j].session = st[k].session => j = k

SInv == Sound(rows, open, session) /\ Stoppings(stops, session) /\ Openings(starting, open, session)

\* Firing rows of a sound tier.
LEMMA Fired ==
  ASSUME NEW rs, NEW o \in Opens, NEW ss \in States, NEW ws, NEW st, NEW F \in SUBSET rs, NEW who,
         Sound(rs, o, ss), Stoppings(ws, ss), Openings(st, o, ss)
  PROVE  /\ Sound(rs \ F, Forgets({r.key : r \in F}, o), Stops(F, ss))
         /\ Stoppings(ws \cup Stopping(F, who), Stops(F, ss))
         /\ Openings(st, Forgets({r.key : r \in F}, o), Stops(F, ss))
         /\ Forgets({r.key : r \in F}, o) \in Opens /\ Stops(F, ss) \in States
  <1> DEFINE o2 == Forgets({r.key : r \in F}, o)
             ss2 == Stops(F, ss)
             new == Stopping(F, who)
  <1>1. \A k \in Key : o2[k] = IF \E r \in F : r.key = k THEN None ELSE o[k]
    BY DEF Forgets
  <1>2. \A s \in Session : ss2[s] = IF \E r \in F : r.session = s THEN "stopping" ELSE ss[s]
    BY DEF Stops
  <1>3. o2 \in Opens /\ ss2 \in States
    BY DEF Forgets, Stops, Opens, States
  <1>4. \A w \in new : \E r \in F : w.session = r.session /\ w = [session |-> r.session, for |-> who]
    BY DEF Stopping
  <1>5. ASSUME NEW r \in F PROVE \E w \in new : w.session = r.session
    <2>1. [session |-> r.session, for |-> who] \in new
      BY DEF Stopping
    <2>2. [session |-> r.session, for |-> who].session = r.session
      OBVIOUS
    <2> HIDE DEF new
    <2> QED BY <2>1, <2>2
  <1> HIDE DEF o2, ss2, new
  <1>6. Sound(rs \ F, o2, ss2)
    BY <1>1, <1>2 DEF Sound
  <1>7. Stoppings(ws \cup new, ss2)
    <2>1. \A w \in ws : w.session \in Session /\ ss2[w.session] = "stopping"
      BY <1>2 DEF Stoppings
    <2>2. \A w \in new : w.session \in Session /\ ss2[w.session] = "stopping"
      BY <1>2, <1>4 DEF Sound
    <2>3. \A w \in new, v \in ws : w.session # v.session
      BY <1>4 DEF Sound, Stoppings
    <2>4. \A w, v \in new : w.session = v.session => w = v
      BY <1>4
    <2>5. \A s \in Session : ss2[s] = "stopping" => \E w \in ws \cup new : w.session = s
      BY <1>2, <1>5 DEF Stoppings
    <2> QED BY <2>1, <2>2, <2>3, <2>4, <2>5 DEF Stoppings
  <1>8. Openings(st, o2, ss2)
    <2>1. \A s \in Session : ss[s] = "opening" => ss2[s] = "opening"
      BY <1>2 DEF Sound
    <2> QED BY <1>1, <2>1 DEF Openings
  <1> QED BY <1>3, <1>6, <1>7, <1>8 DEF o2, ss2, new

\* A repeat touches the row of its key and changes nothing else.
LEMMA Touched ==
  ASSUME NEW rs \in RowSet(seq), NEW o, NEW ss, Sound(rs, o, ss), NEW k \in Key, o[k] # None
  PROVE  Sound(Filed(rs, k, o[k]), o, ss)
  <1> DEFINE touch(r) == IF r.key = k THEN [r EXCEPT !.touched = now] ELSE r
  <1>1. \E r \in rs : r.key = k
    BY DEF Sound
  <1>2. Filed(rs, k, o[k]) = {touch(r) : r \in rs}
    BY <1>1, Zenon DEF Filed
  <1>3. \A r \in rs : touch(r).key = r.key /\ touch(r).session = r.session
    BY DEF RowSet
  <1> HIDE DEF touch
  <1> DEFINE filed == Filed(rs, k, o[k])
  <1>4. /\ \A p \in filed : \E r \in rs : p = touch(r) /\ p.key = r.key /\ p.session = r.session
        /\ \A r \in rs : \E p \in filed : p.key = r.key /\ p.session = r.session
    BY <1>2, <1>3
  <1> HIDE DEF filed
  <1> QED
    <2>1. \A p, q \in filed : p.key = q.key \/ p.session = q.session => p = q
      BY <1>4 DEF Sound
    <2>2. \A p \in filed : p.key \in Key /\ p.session \in Session
                          /\ o[p.key] = p.session /\ ss[p.session] = "live"
      BY <1>4 DEF Sound
    <2>3. /\ \A j \in Key : o[j] # None => \E p \in filed : p.key = j
          /\ \A s \in Session : ss[s] = "live" => \E p \in filed : p.session = s
      BY <1>4 DEF Sound
    <2> QED BY <2>1, <2>2, <2>3 DEF Sound, filed

\* A new session is filed under its key.
LEMMA Added ==
  ASSUME NEW rs, NEW o \in Opens, NEW ss \in States, NEW ws, NEW st \in [Key -> Start \cup {None}],
         Sound(rs, o, ss), Stoppings(ws, ss), Openings(st, o, ss),
         NEW k \in Key, st[k] # None
  PROVE  LET s == st[k].session
             o2 == [o EXCEPT ![k] = s]
             ss2 == [ss EXCEPT ![s] = "live"]
         IN /\ Sound(Filed(rs, k, s), o2, ss2) /\ Stoppings(ws, ss2)
            /\ Openings([st EXCEPT ![k] = None], o2, ss2)
            /\ o2 \in Opens /\ ss2 \in States
  <1> DEFINE s == st[k].session
             o2 == [o EXCEPT ![k] = s]
             ss2 == [ss EXCEPT ![s] = "live"]
             st2 == [st EXCEPT ![k] = None]
             p == [key |-> k, session |-> s, touched |-> now, id |-> seq + 1]
  <1>1. s \in Session /\ ss[s] = "opening" /\ o[k] = None
    BY DEF Openings
  <1>2. o2 \in Opens /\ ss2 \in States /\ o2[k] = s /\ ss2[s] = "live"
        /\ (\A j \in Key : j # k => o2[j] = o[j]) /\ (\A t \in Session : t # s => ss2[t] = ss[t])
    BY <1>1 DEF Opens, States
  <1>3. ~\E r \in rs : r.key = k
    BY <1>1, Constants DEF Sound
  <1>4. Filed(rs, k, s) = rs \cup {p}
    BY <1>3, Zenon DEF Filed
  <1>5. p.key = k /\ p.session = s
    OBVIOUS
  <1>6. st2[k] = None /\ \A j \in Key : j # k => st2[j] = st[j]
    OBVIOUS
  <1> HIDE DEF s, o2, ss2, st2, p
  <1>7. \A r \in rs : r.key # k /\ r.session # s
    BY <1>1, <1>3 DEF Sound
  <1>8. Sound(rs \cup {p}, o2, ss2)
    <2>1. \A r, q \in rs \cup {p} : r.key = q.key \/ r.session = q.session => r = q
      BY <1>5, <1>7 DEF Sound
    <2>2. \A r \in rs \cup {p} : r.key \in Key /\ r.session \in Session
                                  /\ o2[r.key] = r.session /\ ss2[r.session] = "live"
      BY <1>1, <1>2, <1>5, <1>7 DEF Sound
    <2>3. \A j \in Key : o2[j] # None => \E r \in rs \cup {p} : r.key = j
      BY <1>2, <1>5 DEF Sound
    <2>4. \A t \in Session : ss2[t] = "live" => \E r \in rs \cup {p} : r.session = t
      BY <1>2, <1>5 DEF Sound
    <2> QED BY <2>1, <2>2, <2>3, <2>4 DEF Sound
  <1>9. Stoppings(ws, ss2)
    BY <1>1, <1>2 DEF Stoppings
  <1>10. Openings(st2, o2, ss2)
    <2>1. \A j \in Key : st2[j] # None => j # k /\ st2[j] = st[j] /\ st[j].session # s
      BY <1>6 DEF Openings, s
    <2> QED BY <1>2, <2>1 DEF Openings
  <1> QED BY <1>2, <1>4, <1>8, <1>9, <1>10 DEF s, o2, ss2, st2

\* Registering: once the idle rows are swept and the new one is filed, what the
\* bound evicts leaves a sound tier sound.
LEMMA RegisterSound ==
  ASSUME Types, NEW k \in Key, NEW s \in Session, NEW o \in Opens, NEW ss \in States, NEW st,
         NEW swept, swept = {r \in rows : Idle(r)}, Register(k, s, o, ss),
         NEW o1 \in Opens, o1 = Forgets({r.key : r \in swept}, o),
         NEW ss1 \in States, ss1 = Stops(swept, ss),
         NEW ws, ws = stops \cup Stopping(swept, None),
         Sound(Filed(rows \ swept, k, s), o1, ss1), Stoppings(ws, ss1), Openings(st, o1, ss1)
  PROVE  Sound(rows', open', session') /\ Stoppings(stops', session')
         /\ Openings(st, open', session')
  <1> DEFINE filed == Filed(rows \ swept, k, s)
             F == Overflow(filed)
  <1>1. /\ rows' = filed \ F
        /\ stops' = stops \cup Stopping(swept \cup F, None)
        /\ open' = Forgets({r.key : r \in swept \cup F}, o)
        /\ session' = Stops(swept \cup F, ss)
    BY DEF Register
  <1>2. F \in SUBSET filed
    BY DEF Overflow
  <1> HIDE DEF filed, F
  <1>3. /\ stops' = ws \cup Stopping(F, None)
        /\ open' = Forgets({r.key : r \in F}, o1)
        /\ session' = Stops(F, ss1)
    <2>1. stops \cup (Stopping(swept, None) \cup Stopping(F, None)) = ws \cup Stopping(F, None)
      OBVIOUS
    <2>2. Stopping(swept \cup F, None) = Stopping(swept, None) \cup Stopping(F, None)
      BY DEF Stopping
    <2>3. Forgets({r.key : r \in swept \cup F}, o) = Forgets({r.key : r \in F}, o1)
      BY DEF Forgets, Opens
    <2>4. Stops(swept \cup F, ss) = Stops(F, ss1)
      BY DEF Stops, States
    <2> QED BY <1>1, <2>1, <2>2, <2>3, <2>4, Zenon
  <1>4. Sound(filed, o1, ss1)
    BY DEF filed
  <1>5. /\ Sound(filed \ F, Forgets({r.key : r \in F}, o1), Stops(F, ss1))
        /\ Stoppings(ws \cup Stopping(F, None), Stops(F, ss1))
        /\ Openings(st, Forgets({r.key : r \in F}, o1), Stops(F, ss1))
    BY <1>2, <1>4, Fired
  <1>6. rows' = filed \ F
    BY <1>1
  <1> QED BY <1>3, <1>5, <1>6, Zenon

\* What the sweep itself leaves sound.
LEMMA Swept ==
  ASSUME Types, SInv, NEW F \in SUBSET rows
  PROVE  LET o == Forgets({r.key : r \in F}, open)
             ss == Stops(F, session)
         IN /\ Sound(rows \ F, o, ss) /\ Stoppings(stops \cup Stopping(F, None), ss)
            /\ Openings(starting, o, ss) /\ o \in Opens /\ ss \in States
            /\ rows \ F \in RowSet(seq)
  <1>1. open \in Opens /\ session \in States /\ rows \ F \in RowSet(seq)
    BY DEF Types, Opens, States, RowSet
  <1> QED BY <1>1, Fired DEF SInv

\* Firing rows, whoever does it.
LEMMA FireSound ==
  ASSUME Types, SInv, NEW F \in SUBSET rows, NEW who, Fire(F, who), starting' = starting
  PROVE  SInv'
  <1>1. open \in Opens /\ session \in States
    BY DEF Types, Opens, States
  <1>2. /\ rows' = rows \ F /\ stops' = stops \cup Stopping(F, who)
        /\ open' = Forgets({r.key : r \in F}, open) /\ session' = Stops(F, session)
    BY DEF Fire, Unclaimed
  <1> QED BY <1>1, <1>2, Fired DEF SInv

\* What neither fires nor registers nor moves a session.
LEMMA SameSound ==
  ASSUME SInv, UNCHANGED <<rows, stops, open, starting, session>>
  PROVE  SInv'
  BY DEF SInv, Sound, Stoppings, Openings

LEMMA CallsSound ==
  ASSUME IInv, SInv, InTime, NEW l \in Leg, LegStep(l)
  PROVE  SInv'
  <1>0. Types /\ LegsHold
    BY DEF IInv
  <1>1. ASSUME NEW t \in Turn, Begin(l, t) \/ Resume(l, t) \/ ResumeRefused(l, t)
        PROVE  SInv'
    BY <1>1, SameSound DEF Begin, Resume, ResumeRefused, tier, tool
  <1>2. ASSUME TakeAnswer(l) \/ Pause(l) \/ Over(l) \/ CallEnds(l)
        PROVE  SInv'
    BY <1>2, SameSound DEF TakeAnswer, Pause, Over, CallEnds, tier, tool
  <1>3. ASSUME NEW t \in Turn, Abandon(l, t) PROVE SInv'
    BY <1>0, <1>3, FireSound DEF Abandon, OwnRows
  <1>4. CASE End(l)
    <2>1. CASE Keeps(l)
      BY <1>4, <2>1, SameSound DEF End, tool
    <2>2. CASE ~Keeps(l)
      BY <1>0, <1>4, <2>2, FireSound DEF End, OwnRows
    <2> QED BY <2>1, <2>2
  <1>5. CASE EndCall(l)
    <2>1. CASE Alive(l)
      BY <1>0, <1>5, <2>1, FireSound DEF EndCall, OwnRows
    <2>2. CASE ~Alive(l)
      BY <1>5, <2>2, SameSound DEF EndCall
    <2> QED BY <2>1, <2>2
  <1>6. ASSUME NEW x \in Tool, Join(l, x) PROVE SInv'
    BY <1>6, SameSound DEF Join, tier, tool
  <1>7. ASSUME NEW x \in Tool, Reuse(l, x) PROVE SInv'
    <2> DEFINE k == CallKey(l, x)
    <2>1. k \in Key
      BY <1>0, <1>7, CallKeyIs DEF Reuse
    <2>2. Register(k, open[k], open, session) /\ open[k] # None /\ starting' = starting
      BY <1>7 DEF Reuse
    <2>3. \A r \in rows : r.key = k => ~Idle(r)
      BY <1>7 DEF InTime
    <2> HIDE DEF k
    <2> DEFINE swept == {r \in rows : Idle(r)}
               o == Forgets({r.key : r \in swept}, open)
               ss == Stops(swept, session)
               ws == stops \cup Stopping(swept, None)
    <2>4. /\ open[k] \in Session /\ open \in Opens /\ session \in States
      BY <1>0, <2>1, <2>2 DEF Types, Opens, States
    <2>5. /\ Sound(rows \ swept, o, ss) /\ Stoppings(ws, ss) /\ Openings(starting, o, ss)
          /\ o \in Opens /\ ss \in States /\ rows \ swept \in RowSet(seq)
      BY <1>0, Swept
    <2>6. o[k] = open[k]
      BY <2>1, <2>3 DEF Forgets
    <2> HIDE DEF swept, o, ss, ws
    <2>7. Sound(Filed(rows \ swept, k, open[k]), o, ss)
      BY <2>1, <2>2, <2>5, <2>6, Touched
    <2>8. Sound(rows', open', session') /\ Stoppings(stops', session')
          /\ Openings(starting, open', session')
      BY <1>0, <2>1, <2>2, <2>4, <2>5, <2>7, RegisterSound DEF swept, o, ss, ws
    <2> QED BY <2>2, <2>8 DEF SInv
  <1>8. ASSUME NEW x \in Tool, OpenOne(l, x) PROVE SInv'
    <2> DEFINE k == CallKey(l, x)
    <2>1. k \in Key
      BY <1>0, <1>8, CallKeyIs DEF OpenOne
    <2>2. PICK s \in Session :
            /\ session[s] = "unused" /\ session' = [session EXCEPT ![s] = "opening"]
            /\ starting' = [starting EXCEPT ![k] =
                              [session |-> s, leg |-> l, call |-> Dispatched(l).pending]]
      BY <1>8 DEF OpenOne, NewSession
    <2>3. open[k] = None /\ UNCHANGED <<rows, stops, open>>
      BY <1>8 DEF OpenOne, tier
    <2> HIDE DEF k
    <2>4. /\ session'[s] = "opening" /\ \A t \in Session : t # s => session'[t] = session[t]
          /\ starting'[k].session = s /\ \A j \in Key : j # k => starting'[j] = starting[j]
      BY <1>0, <2>1, <2>2 DEF Types
    <2>5. Sound(rows, open, session')
      BY <2>2, <2>4 DEF SInv, Sound
    <2>6. Stoppings(stops, session')
      BY <2>2, <2>4 DEF SInv, Stoppings
    <2>7. Openings(starting', open, session')
      BY <2>2, <2>3, <2>4 DEF SInv, Openings
    <2> QED BY <2>3, <2>5, <2>6, <2>7 DEF SInv
  <1> QED BY <1>1, <1>2, <1>3, <1>4, <1>5, <1>6, <1>7, <1>8 DEF LegStep

LEMMA OpenedSound ==
  ASSUME IInv, SInv, NEW k \in Key, Opened(k)
  PROVE  SInv'
  <1>0. Types
    BY DEF IInv
  <1> DEFINE s == starting[k].session
  <1>1. /\ starting[k] # None /\ starting' = [starting EXCEPT ![k] = None]
    BY DEF Opened, Started
  <1>2. /\ open \in Opens /\ session \in States /\ starting \in [Key -> Start \cup {None}]
        /\ rows \in RowSet(seq)
    BY <1>0 DEF Types, Opens, States
  <1>3. s \in Session /\ session[s] = "opening" /\ open[k] = None
    BY <1>1 DEF SInv, Openings
  <1>4. CASE Refused(starting[k].leg, starting[k].call)
    <2> DEFINE w == [session |-> s, for |-> None]
    <2>1. RejectLate(s) = {w} /\ w.session = s /\ {w} # {}
      BY DEF RejectLate
    <2>2. /\ stops' = stops \cup RejectLate(s)
          /\ session' = [session EXCEPT ![s] = IF RejectLate(s) = {} THEN "live" ELSE "stopping"]
          /\ UNCHANGED <<rows, open>>
      BY <1>4 DEF Opened
    <2> HIDE DEF w
    <2>3. stops' = stops \cup {w} /\ session' = [session EXCEPT ![s] = "stopping"]
      BY <2>1, <2>2
    <2> HIDE DEF s
    <2>4. /\ session'[s] = "stopping" /\ \A t \in Session : t # s => session'[t] = session[t]
          /\ starting'[k] = None /\ \A j \in Key : j # k => starting'[j] = starting[j]
      BY <1>0, <1>1, <1>3, <2>3 DEF Types
    <2>5. Sound(rows, open, session')
      BY <1>3, <2>4 DEF SInv, Sound
    <2>6. Stoppings(stops', session')
      BY <1>3, <2>1, <2>3, <2>4 DEF SInv, Stoppings
    <2>7. Openings(starting', open, session')
      <3>1. \A j \in Key : starting'[j] # None =>
              starting'[j] = starting[j] /\ starting[j].session # s
        BY <1>1, <2>4 DEF SInv, Openings, s
      <3> QED BY <2>4, <3>1 DEF SInv, Openings
    <2> QED BY <2>2, <2>5, <2>6, <2>7 DEF SInv
  <1>5. CASE ~Refused(starting[k].leg, starting[k].call)
    <2> DEFINE o == [open EXCEPT ![k] = s]
               ss == [session EXCEPT ![s] = "live"]
               swept == {r \in rows : Idle(r)}
               o1 == Forgets({r.key : r \in swept}, open)
               ss1 == Stops(swept, session)
               ws == stops \cup Stopping(swept, None)
               st == [starting EXCEPT ![k] = None]
    <2>1. Register(k, s, o, ss) /\ o \in Opens /\ ss \in States
      BY <1>2, <1>3, <1>5 DEF Opened, Opens, States
    <2>2. /\ Sound(rows \ swept, o1, ss1) /\ Stoppings(ws, ss1) /\ Openings(starting, o1, ss1)
          /\ o1 \in Opens /\ ss1 \in States
      BY <1>0, Swept
    <2> DEFINE o2 == [o1 EXCEPT ![k] = s]
               ss2 == [ss1 EXCEPT ![s] = "live"]
    <2> HIDE DEF swept, ws
    <2>3. /\ Sound(Filed(rows \ swept, k, s), o2, ss2) /\ Stoppings(ws, ss2)
          /\ Openings(st, o2, ss2) /\ o2 \in Opens /\ ss2 \in States
      <3> HIDE DEF o1, ss1
      <3> QED BY <1>1, <1>2, <2>2, Added
    <2>4. \A r \in swept : r.key # k /\ r.session # s
      <3>1. \A r \in rows : r.key \in Key /\ r.session \in Session /\ session[r.session] = "live"
                            /\ open[r.key] # None
        BY NamesAssumption, NoneAssumption DEF SInv, Sound
      <3> QED BY <1>3, <3>1 DEF swept
    <2>5. o2 = Forgets({r.key : r \in swept}, o)
      BY <1>2, <1>3, <2>4 DEF Forgets, Opens
    <2>6. ss2 = Stops(swept, ss)
      BY <1>2, <1>3, <2>4 DEF Stops, States
    <2> HIDE DEF o, ss, o2, ss2, st, s
    <2>7. Sound(rows', open', session') /\ Stoppings(stops', session')
          /\ Openings(st, open', session')
      BY <1>0, <1>3, <2>1, <2>3, <2>5, <2>6, RegisterSound DEF swept, ws
    <2> QED BY <1>1, <2>7 DEF SInv, st
  <1> QED BY <1>4, <1>5

LEMMA OpenFailsSound ==
  ASSUME IInv, SInv, NEW k \in Key, OpenFails(k)
  PROVE  SInv'
  <1>0. Types
    BY DEF IInv
  <1> DEFINE s == starting[k].session
  <1>1. /\ starting[k] # None /\ starting' = [starting EXCEPT ![k] = None]
        /\ session' = [session EXCEPT ![s] = "failed"] /\ UNCHANGED <<rows, stops, open>>
    BY DEF OpenFails, Started, tier
  <1>2. s \in Session /\ session[s] = "opening"
    BY <1>1 DEF SInv, Openings
  <1>3. \A j \in Key : starting'[j] # None => starting'[j] = starting[j] /\ starting[j].session # s
    BY <1>0, <1>1 DEF SInv, Openings, Types
  <1> HIDE DEF s
  <1>4. session'[s] = "failed" /\ \A t \in Session : t # s => session'[t] = session[t]
    BY <1>0, <1>1, <1>2 DEF Types
  <1>5. Sound(rows, open, session') /\ Stoppings(stops, session')
    BY <1>2, <1>4 DEF SInv, Sound, Stoppings
  <1>6. Openings(starting', open, session')
    BY <1>3, <1>4 DEF SInv, Openings
  <1> QED BY <1>1, <1>5, <1>6 DEF SInv

LEMMA StoppedSound ==
  ASSUME IInv, SInv, NEW w \in Stop, Stopped(w) \/ StopTimesOut(w)
  PROVE  SInv'
  <1>0. Types /\ w.session \in Session
    BY DEF IInv, Stop
  <1>1. w \in stops /\ session[w.session] = "stopping" /\ UNCHANGED <<rows, open, starting>>
    BY DEF Stopped, StopTimesOut, tool, SInv, Stoppings
  <1>2. CASE Stopped(w)
    <2>1. stops' = stops \ {w} /\ session' = [session EXCEPT ![w.session] = "stopped"]
      BY <1>2 DEF Stopped
    <2>2. /\ session'[w.session] = "stopped"
          /\ \A t \in Session : t # w.session => session'[t] = session[t]
      BY <1>0, <2>1 DEF Types
    <2>3. Sound(rows, open, session') /\ Openings(starting, open, session')
      BY <1>1, <2>2 DEF SInv, Sound, Openings
    <2>4. Stoppings(stops', session')
      BY <1>1, <2>1, <2>2 DEF SInv, Stoppings
    <2> QED BY <1>1, <2>3, <2>4 DEF SInv
  <1>3. CASE StopTimesOut(w)
    <2> DEFINE v == [w EXCEPT !.for = None]
    <2>1. stops' = (stops \ {w}) \cup {v} /\ session' = session
      BY <1>3 DEF StopTimesOut, tool
    <2>2. v.session = w.session
      BY DEF Stop
    <2> HIDE DEF v
    <2>3. Stoppings(stops', session')
      BY <1>1, <2>1, <2>2 DEF SInv, Stoppings
    <2> QED BY <1>1, <2>1, <2>3 DEF SInv
  <1> QED BY <1>2, <1>3

LEMMA StepSound ==
  ASSUME IInv, SInv, [InTime]_vars, [Next]_vars
  PROVE  SInv'
  <1>0. Types
    BY DEF IInv
  <1>1. CASE Close
    <2>1. PICK scopes \in {{"session"}, {"run"}, {"call", "run", "session"}} :
                 Fire({r \in rows : Scope(r) \in scopes}, None) /\ starting' = starting
      BY <1>1 DEF Close
    <2> QED BY <1>0, <2>1, FireSound
  <1>2. CASE Tick
    BY <1>2, SameSound DEF Tick, tier, tool
  <1>3. CASE UNCHANGED vars
    BY <1>3, SameSound DEF vars, tier, tool
  <1> QED BY <1>1, <1>2, <1>3, CallsSound, OpenedSound, OpenFailsSound, StoppedSound DEF Next

LEMMA InitSound ==
  ASSUME Init
  PROVE  SInv
  BY DEF Init, SInv, Sound, Stoppings, Openings

LEMMA AlwaysSound == Spec /\ [][InTime]_vars => []SInv
  <1>1. Init => SInv
    BY InitSound
  <1>2. IInv /\ SInv /\ [InTime]_vars /\ [Next]_vars => SInv'
    BY StepSound
  <1> QED BY <1>1, <1>2, Always, PTL DEF Spec

\* As long as no call takes up a session whose row has gone idle, every session
\* that runs is handed out by its tool and has its end registered:
\* codeRunnerTool.ts opens and registers in one go, and every row that is
\* dropped has its cleanup run.
THEOREM NoneIsLost == Spec /\ [][InTime]_vars => []NoSessionIsLost
  <1>1. SInv => NoSessionIsLost
    BY DEF SInv, Sound, NoSessionIsLost
  <1> QED BY <1>1, AlwaysSound, PTL

\* Which is so as long as no row goes idle at all.
THEOREM NeverIdleIsInTime == NeverIdle => (Spec => [][InTime]_vars)
  <1> SUFFICES ASSUME NeverIdle PROVE Spec => [][InTime]_vars
    OBVIOUS
  <1>1. IInv => InTime
    <2> SUFFICES ASSUME Types, NEW r \in rows PROVE ~Idle(r)
      BY DEF IInv, InTime
    <2> QED BY BoundsAssumption DEF Types, RowSet, Idle, NeverIdle
  <1> QED BY <1>1, Always, PTL

\* The cleanups that run for a session are one while it stops, and none else.
LEMMA StopsOf ==
  ASSUME NEW ws, NEW ss, Stoppings(ws, ss), NEW s \in Session
  PROVE  /\ ss[s] # "stopping" => Cardinality({w \in ws : w.session = s}) = 0
         /\ ss[s] = "stopping" => Cardinality({w \in ws : w.session = s}) = 1
         /\ Cardinality({w \in ws : w.session = s}) \in {0, 1}
  <1> DEFINE mine == {w \in ws : w.session = s}
  <1>1. ss[s] # "stopping" => mine = {}
    BY DEF Stoppings
  <1>2. ASSUME ss[s] = "stopping" PROVE \E w : mine = {w}
    <2>1. PICK w \in ws : w.session = s
      BY <1>2 DEF Stoppings
    <2>2. \A v \in ws : v.session = s => v = w
      BY <2>1 DEF Stoppings
    <2>3. mine = {w}
      BY <2>1, <2>2
    <2> QED BY <2>3, Zenon
  <1> HIDE DEF mine
  <1>3. \A w : Cardinality({w}) = 1
    BY FS_Singleton, Zenon
  <1>4. Cardinality({}) = 0
    BY FS_EmptySet, Zenon
  <1>5. CASE ss[s] = "stopping"
    BY <1>2, <1>3, <1>5 DEF mine
  <1>6. CASE ss[s] # "stopping"
    BY <1>1, <1>4, <1>6 DEF mine
  <1> QED BY <1>5, <1>6

\* A session that stopped stays so.
LEMMA StoppedStay ==
  ASSUME IInv, SInv, [Next]_vars, NEW s \in Session, session[s] = "stopped"
  PROVE  session'[s] = "stopped"
  <1>0. Types
    BY DEF IInv
  <1>1. \A r \in rows : r.session # s
    BY DEF SInv, Sound
  <1>2. ASSUME NEW F \in SUBSET rows, NEW who, Fire(F, who) PROVE session'[s] = "stopped"
    BY <1>1, <1>2 DEF Fire, Stops
  <1>3. ASSUME NEW k \in Key, NEW t \in Session, t # s, NEW o, NEW ss \in States,
               ss[s] = "stopped", Register(k, t, o, ss)
        PROVE  session'[s] = "stopped"
    <2> DEFINE rs == rows \ {r \in rows : Idle(r)}
               fired == {r \in rows : Idle(r)} \cup Overflow(Filed(rs, k, t))
    <2>1. \A r \in Filed(rs, k, t) : r.session # s
      <3>1. rs \in RowSet(seq) /\ \A r \in rs : r.session # s
        BY <1>0, <1>1 DEF Types, RowSet
      <3> HIDE DEF rs
      <3>2. CASE \E r \in rs : r.key = k
        <4>1. \A r \in rs : [r EXCEPT !.touched = now].session = r.session
          BY <3>1 DEF RowSet
        <4>2. Filed(rs, k, t) = {IF r.key = k THEN [r EXCEPT !.touched = now] ELSE r : r \in rs}
          BY <3>2, Zenon DEF Filed
        <4> QED BY <3>1, <4>1, <4>2
      <3>3. CASE ~\E r \in rs : r.key = k
        <4>1. Filed(rs, k, t) =
                rs \cup {[key |-> k, session |-> t, touched |-> now, id |-> seq + 1]}
          BY <3>3, Zenon DEF Filed
        <4> QED BY <1>3, <3>1, <4>1
      <3> QED BY <3>2, <3>3
    <2>2. \A r \in fired : r.session # s
      BY <1>1, <2>1 DEF Overflow
    <2>3. session' = Stops(fired, ss)
      BY <1>3 DEF Register
    <2> HIDE DEF fired
    <2> QED BY <1>3, <2>2, <2>3 DEF Stops
  <1>4. ASSUME NEW l \in Leg, LegStep(l) PROVE session'[s] = "stopped"
    <2>1. ASSUME NEW t \in Turn,
                 Begin(l, t) \/ Resume(l, t) \/ ResumeRefused(l, t) \/ Abandon(l, t)
          PROVE  session'[s] = "stopped"
      BY <1>2, <2>1 DEF Begin, Resume, ResumeRefused, Abandon, tool, OwnRows
    <2>2. CASE TakeAnswer(l) \/ Pause(l) \/ Over(l) \/ CallEnds(l)
      BY <2>2 DEF TakeAnswer, Pause, Over, CallEnds, tool
    <2>3. CASE End(l)
      BY <1>2, <2>3 DEF End, tool, OwnRows
    <2>4. CASE EndCall(l)
      BY <1>2, <2>4 DEF EndCall, OwnRows
    <2>5. ASSUME NEW x \in Tool, Join(l, x) \/ OpenOne(l, x) PROVE session'[s] = "stopped"
      BY <1>0, <2>5 DEF Join, OpenOne, tool, NewSession, Types
    <2>6. ASSUME NEW x \in Tool, Reuse(l, x) PROVE session'[s] = "stopped"
      <3> DEFINE k == CallKey(l, x)
      <3>1. k \in Key
        BY <2>6, CallKeyIs DEF IInv, Reuse
      <3>2. open[k] # None /\ Register(k, open[k], open, session)
        BY <2>6 DEF Reuse
      <3> HIDE DEF k
      <3>3. open[k] \in Session /\ open[k] # s /\ session \in States
        BY <1>0, <1>1, <3>1, <3>2 DEF Types, States, SInv, Sound
      <3> QED BY <1>3, <3>1, <3>2, <3>3
    <2> QED BY <1>4, <2>1, <2>2, <2>3, <2>4, <2>5, <2>6 DEF LegStep
  <1>5. ASSUME NEW k \in Key, Opened(k) \/ OpenFails(k) PROVE session'[s] = "stopped"
    <2> DEFINE t == starting[k].session
    <2>1. t \in Session /\ t # s
      BY <1>5 DEF Opened, OpenFails, SInv, Openings
    <2>2. CASE OpenFails(k)
      BY <1>0, <2>1, <2>2 DEF OpenFails, Types
    <2>3. CASE Opened(k) /\ Refused(starting[k].leg, starting[k].call)
      BY <1>0, <2>1, <2>3 DEF Opened, Types
    <2>4. CASE Opened(k) /\ ~Refused(starting[k].leg, starting[k].call)
      <3> DEFINE ss == [session EXCEPT ![t] = "live"]
      <3>1. Register(k, t, [open EXCEPT ![k] = t], ss)
        BY <2>4 DEF Opened
      <3>2. ss \in States /\ ss[s] = "stopped"
        BY <1>0, <2>1 DEF Types, States
      <3> HIDE DEF ss, t
      <3> QED BY <1>3, <2>1, <3>1, <3>2
    <2> QED BY <1>5, <2>2, <2>3, <2>4
  <1>6. CASE Close
    BY <1>2, <1>6 DEF Close
  <1>7. ASSUME NEW w \in Stop, Stopped(w) \/ StopTimesOut(w) PROVE session'[s] = "stopped"
    BY <1>0, <1>7 DEF Stopped, StopTimesOut, tool, Types, Stop
  <1>8. CASE Tick \/ UNCHANGED vars
    BY <1>8 DEF Tick, vars, tool
  <1> QED BY <1>4, <1>5, <1>6, <1>7, <1>8 DEF Next

\* As long as no call takes up a session whose row has gone idle, a session is
\* told to stop once: fire claims its row and the tool forgets it before the
\* cleanup runs.
THEOREM OneStopEach == Spec /\ [][InTime]_vars => StopsOnce
  <1> DEFINE A == \A s \in Session : session[s] \in {"stopping", "stopped"} =>
                    Cardinality({w \in stops' : w.session = s})
                      <= Cardinality({w \in stops : w.session = s})
  <1>1. IInv /\ SInv /\ SInv' /\ [Next]_vars => [A]_vars
    <2> SUFFICES ASSUME IInv, SInv, SInv', [Next]_vars, NEW s \in Session,
                        session[s] \in {"stopping", "stopped"}
                 PROVE  Cardinality({w \in stops' : w.session = s})
                          <= Cardinality({w \in stops : w.session = s})
      OBVIOUS
    <2>1. session[s] = "stopped" => session'[s] = "stopped"
      BY StoppedStay
    <2>2. Stoppings(stops, session) /\ Stoppings(stops', session')
      BY DEF SInv
    <2>3. CASE session[s] = "stopped"
      BY <2>1, <2>2, <2>3, StopsOf
    <2>4. CASE session[s] = "stopping"
      BY <2>2, <2>4, StopsOf
    <2> QED BY <2>3, <2>4
  <1> QED BY <1>1, Always, AlwaysSound, PTL DEF Spec, StopsOnce

=============================================================================
