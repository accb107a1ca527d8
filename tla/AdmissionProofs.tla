---------------------------- MODULE AdmissionProofs ---------------------------
(***************************************************************************)
(* Proofs about Admission, for any number of callers, requests, ticks and  *)
(* any limit, window and size of the ledger, and however long the policy   *)
(* takes: nobody exceeds the ceiling by more than the requests of its own  *)
(* that are asked about at once, unless the ledger forgot it, and nobody   *)
(* is turned away whose window had room when it was read.                  *)
(*                                                                         *)
(* The argument: what the ledger holds of a caller are turns of its own    *)
(* (HeldInv), all of its window if it was never forgotten (WindowInv).     *)
(* What may be in the window, then, are its turns and the requests whose   *)
(* policy saw room (Counted): asking is what adds to them, finds fewer     *)
(* turns than the limit, and finds the rest in the policy's hands          *)
(* (req[r].beside). What is asked about later is in no request's past      *)
(* (OrderInv), so the bound a request met stays met.                       *)
(***************************************************************************)
EXTENDS Admission, FiniteSetTheorems, TLAPS

\* What the argument needs of the types; the order in which the ledger forgets
\* is of no account.
Row == [phase : {"new", "deciding", "admitted", "refused"},
        caller : Caller \cup {NoCaller}, seen : Nat, at : Nat,
        before : SUBSET Request, beside : SUBSET Request]

Typed ==
  /\ now \in Nat
  /\ byCaller \in [Caller -> SUBSET Request]
  /\ req \in [Request -> Row]
  /\ \A r \in Deciding : req[r].caller \in Caller

Admitted(r, c) == req[r].phase = "admitted" /\ req[r].caller = c

\* The ledger's turns of a caller are turns the door admitted for it.
HeldInv == \A c \in Caller : \A r \in byCaller[c] : Admitted(r, c)

\* It misses none of the window, unless it forgot the caller.
WindowInv == \A c \in Caller \ forgot : Turns(c) \subseteq byCaller[c]

LedgerInv == Typed /\ HeldInv /\ WindowInv

\* A set of turns is finite, and no larger than one that holds it.
LEMMA TurnsCount ==
  ASSUME NEW T \in SUBSET Request, NEW S \in SUBSET T
  PROVE  /\ IsFiniteSet(T) /\ Cardinality(S) \in Nat /\ Cardinality(T) \in Nat
         /\ Cardinality(S) <= Cardinality(T)
BY RequestAssumption, FS_Subset, FS_CardinalityType

LEMMA InitLedger == Init => LedgerInv /\ Deciding = {} /\ \A c \in Caller : Turns(c) = {}
<1> SUFFICES ASSUME Init PROVE LedgerInv /\ Deciding = {} /\ \A c \in Caller : Turns(c) = {}
  OBVIOUS
<1>1. Deciding = {} /\ \A c \in Caller : Turns(c) = {}
  BY DEF Init, Turns, Deciding
<1>2. Typed
  BY <1>1 DEF Init, Typed, Row
<1> QED BY <1>1, <1>2 DEF Init, HeldInv, WindowInv, LedgerInv

-----------------------------------------------------------------------------
(* What one step does to the ledger and to the windows                     *)

\* The door asks the policy about one more request, having cut the window to size.
LEMMA AskSees ==
  ASSUME LedgerInv, NEW r \in Request, NEW c \in Caller, Ask(r, c)
  PROVE  /\ LedgerInv'
         /\ forgot' = forgot /\ Deciding' = Deciding \cup {r} /\ r \notin Deciding
         /\ req'[r].caller = c /\ req'[r].seen = Cardinality(Prune(byCaller[c]))
         /\ req'[r].before = {s \in Request : req[s].phase # "new"} /\ req'[r].beside = AskedOf(c)
         /\ req[r].phase = "new" /\ req'[r].phase = "deciding"
         /\ \A s \in Request \ {r} : req'[s] = req[s]
         /\ \A u \in Caller : Turns(u)' = Turns(u)
<1> DEFINE held == Prune(byCaller[c])
           past == {s \in Request : req[s].phase # "new"}
<1>1. /\ req[r].phase = "new" /\ now' = now /\ forgot' = forgot
      /\ byCaller' = [byCaller EXCEPT ![c] = held]
      /\ req' = [req EXCEPT ![r].phase = "deciding", ![r].caller = c, ![r].seen = Cardinality(held),
                            ![r].before = past, ![r].beside = AskedOf(c)]
  BY DEF Ask
<1>2. held \subseteq byCaller[c] /\ byCaller[c] \subseteq Request /\ Cardinality(held) \in Nat
  BY TurnsCount DEF Prune, LedgerInv, Typed
<1>3. /\ req'[r].phase = "deciding" /\ req'[r].caller = c /\ req'[r].seen = Cardinality(held)
      /\ req'[r].before = past /\ req'[r].beside = AskedOf(c)
      /\ req'[r].at = req[r].at
      /\ \A s \in Request \ {r} : req'[s] = req[s]
  <2> HIDE DEF held, past
  <2>1. req[r] \in Row /\ req \in [Request -> Row]
    BY DEF LedgerInv, Typed
  <2>2. req' = [req EXCEPT ![r] = [req[r] EXCEPT !.phase = "deciding", !.caller = c, !.seen = Cardinality(held),
                                                 !.before = past, !.beside = AskedOf(c)]]
    BY <1>1
  <2> QED BY <2>1, <2>2 DEF Row
<1>4. byCaller'[c] = held /\ \A u \in Caller \ {c} : byCaller'[u] = byCaller[u]
  BY <1>1 DEF LedgerInv, Typed
<1>5. Deciding' = Deciding \cup {r} /\ r \notin Deciding
  BY <1>1, <1>3 DEF Deciding
<1>6. Typed'
  <2>1. byCaller' \in [Caller -> SUBSET Request]
    BY <1>1, <1>2 DEF LedgerInv, Typed
  <2>2. [req[r] EXCEPT !.phase = "deciding", !.caller = c, !.seen = Cardinality(held),
                       !.before = past, !.beside = AskedOf(c)] \in Row
    <3>1. past \subseteq Request /\ AskedOf(c) \subseteq Request /\ req[r] \in Row
      BY DEF AskedOf, Deciding, LedgerInv, Typed
    <3> HIDE DEF held, past
    <3> QED BY <1>2, <3>1 DEF Row
  <2>3. req' \in [Request -> Row]
    BY <1>1, <2>2 DEF LedgerInv, Typed
  <2>4. \A s \in Deciding' : req'[s].caller \in Caller
    BY <1>3, <1>5 DEF LedgerInv, Typed, Deciding
  <2> QED BY <1>1, <2>1, <2>3, <2>4 DEF LedgerInv, Typed
<1>7. HeldInv'
  <2>1. \A u \in Caller : byCaller'[u] \subseteq byCaller[u]
    BY <1>2, <1>4
  <2>2. \A u \in Caller, s \in Request : Admitted(s, u) => s # r
    BY <1>1 DEF Admitted
  <2> QED BY <1>2, <1>3, <2>1, <2>2 DEF LedgerInv, Typed, HeldInv, Admitted
<1>8. \A u \in Caller : Turns(u)' = Turns(u)
  <2>1. now' = now /\ req'[r].phase # "admitted" /\ req[r].phase # "admitted"
    BY <1>1, <1>3
  <2> QED BY <1>3, <2>1 DEF Turns
<1>9. WindowInv'
  <2> SUFFICES ASSUME NEW u \in Caller \ forgot PROVE Turns(u) \subseteq byCaller'[u]
    BY <1>1, <1>8 DEF WindowInv
  <2>1. Turns(u) \subseteq byCaller[u]
    BY DEF LedgerInv, WindowInv
  <2>2. CASE u = c
    <3>1. Turns(c) \subseteq held
      BY <2>1, <2>2 DEF Turns, Prune
    <3> QED BY <1>4, <2>2, <3>1
  <2>3. CASE u # c
    BY <1>4, <2>1, <2>3
  <2> QED BY <2>2, <2>3
<1> QED BY <1>1, <1>3, <1>5, <1>6, <1>7, <1>8, <1>9 DEF LedgerInv

\* A request that is let in is one more turn in its caller's window.
LEMMA AllowAdds ==
  ASSUME LedgerInv, NEW r \in Request, Allow(r)
  PROVE  /\ LedgerInv'
         /\ r \in Deciding /\ req[r].seen < Limit /\ req[r].caller \in Caller
         /\ forgot \subseteq forgot' /\ Deciding' = Deciding \ {r}
         /\ \A s \in Request \ {r} : req'[s] = req[s]
         /\ \A u \in Caller : Turns(u)' = IF u = req[r].caller THEN Turns(u) \cup {r} ELSE Turns(u)
<1> DEFINE c == req[r].caller
<1>1. /\ req[r].phase = "deciding" /\ req[r].seen < Limit /\ now' = now
      /\ byCaller' = [u \in Caller |-> IF u \in Forgotten(c) THEN {}
                                       ELSE IF u = c THEN Prune(byCaller[u]) \cup {r}
                                       ELSE byCaller[u]]
      /\ forgot' = forgot \cup Forgotten(c)
      /\ req' = [req EXCEPT ![r].phase = "admitted", ![r].at = now]
  BY DEF Allow, Admit, Touch
<1>2. c \in Caller /\ r \in Deciding
  BY <1>1 DEF LedgerInv, Typed, Deciding
<1>3. /\ req'[r].phase = "admitted" /\ req'[r].caller = c /\ req'[r].at = now
      /\ \A s \in Request \ {r} : req'[s] = req[s]
  BY <1>1 DEF LedgerInv, Typed
<1>4. \A u \in Caller : Prune(byCaller[u]) \subseteq byCaller[u] /\ byCaller[u] \subseteq Request
  BY DEF Prune, LedgerInv, Typed
<1>5. Deciding' = Deciding \ {r}
  BY <1>3 DEF Deciding
<1>6. Typed'
  <2>1. byCaller' \in [Caller -> SUBSET Request]
    BY <1>1, <1>4
  <2>2. [req[r] EXCEPT !.phase = "admitted", !.at = now] \in Row
    <3>1. req[r] \in Row /\ now \in Nat
      BY DEF LedgerInv, Typed
    <3> QED BY <3>1 DEF Row
  <2>3. req' \in [Request -> Row]
    BY <1>1, <2>2 DEF LedgerInv, Typed
  <2>4. \A s \in Deciding' : req'[s].caller \in Caller
    BY <1>3, <1>5 DEF LedgerInv, Typed, Deciding
  <2> QED BY <1>1, <2>1, <2>3, <2>4 DEF LedgerInv, Typed
<1>7. \A u \in Caller : byCaller'[u] \subseteq (IF u = c THEN byCaller[u] \cup {r} ELSE byCaller[u])
  BY <1>1, <1>4
<1>8. HeldInv'
  BY <1>3, <1>4, <1>7 DEF LedgerInv, HeldInv, Admitted
<1>9. \A u \in Caller : Turns(u)' = IF u = c THEN Turns(u) \cup {r} ELSE Turns(u)
  BY <1>1, <1>3, CountsAssumption DEF Turns, LedgerInv, Typed
<1>10. WindowInv'
  <2> SUFFICES ASSUME NEW u \in Caller \ forgot' PROVE Turns(u)' \subseteq byCaller'[u]
    BY DEF WindowInv
  <2>1. u \notin forgot /\ u \notin Forgotten(c)
    BY <1>1
  <2>2. Turns(u) \subseteq Prune(byCaller[u])
    <3>1. Turns(u) \subseteq byCaller[u]
      BY <2>1 DEF LedgerInv, WindowInv
    <3> QED BY <3>1 DEF Turns, Prune
  <2> QED BY <1>1, <1>4, <1>9, <2>1, <2>2
<1> QED BY <1>1, <1>2, <1>3, <1>5, <1>6, <1>8, <1>9, <1>10 DEF LedgerInv

\* A refusal changes no window.
LEMMA RefuseLeaves ==
  ASSUME LedgerInv, NEW r \in Request, Refuse(r)
  PROVE  /\ LedgerInv'
         /\ r \in Deciding /\ req[r].seen >= Limit
         /\ forgot' = forgot /\ Deciding' = Deciding \ {r}
         /\ \A s \in Request \ {r} : req'[s] = req[s]
         /\ \A u \in Caller : Turns(u)' = Turns(u)
<1>1. /\ req[r].phase = "deciding" /\ now' = now /\ byCaller' = byCaller /\ forgot' = forgot
      /\ req' = [req EXCEPT ![r].phase = "refused"] /\ req[r].seen >= Limit
  BY DEF Refuse
<1>2. /\ req'[r].phase = "refused"
      /\ \A s \in Request \ {r} : req'[s] = req[s]
      /\ \A s \in Request : req'[s].at = req[s].at
  BY <1>1 DEF LedgerInv, Typed
<1>3. r \in Deciding /\ Deciding' = Deciding \ {r}
  BY <1>1, <1>2 DEF Deciding
<1>4. Typed'
  <2>1. req' \in [Request -> Row]
    BY <1>1 DEF LedgerInv, Typed, Row
  <2> QED BY <1>1, <1>2, <1>3, <2>1 DEF LedgerInv, Typed
<1>5. \A c \in Caller : Turns(c)' = Turns(c)
  BY <1>1, <1>2 DEF Turns
<1>6. HeldInv'
  BY <1>1, <1>2 DEF LedgerInv, Typed, HeldInv, Admitted
<1>7. WindowInv'
  BY <1>1, <1>5 DEF LedgerInv, WindowInv
<1> QED BY <1>1, <1>2, <1>3, <1>4, <1>5, <1>6, <1>7 DEF LedgerInv

\* As the clock moves a window only loses turns.
LEMMA TickForgets ==
  ASSUME LedgerInv, Tick
  PROVE  /\ LedgerInv'
         /\ forgot' = forgot /\ Deciding' = Deciding /\ req' = req
         /\ \A u \in Caller : Turns(u)' \subseteq Turns(u)
<1>1. now' = now + 1 /\ UNCHANGED <<byCaller, forgot, req>>
  BY DEF Tick
<1>2. Typed' /\ HeldInv' /\ Deciding' = Deciding
  BY <1>1 DEF LedgerInv, Typed, HeldInv, Admitted, Deciding
<1>3. \A c \in Caller : Turns(c)' \subseteq Turns(c)
  BY <1>1, CountsAssumption DEF Turns, LedgerInv, Typed, Row
<1>4. WindowInv'
  BY <1>1, <1>3 DEF LedgerInv, WindowInv
<1> QED BY <1>1, <1>2, <1>3, <1>4 DEF LedgerInv

LEMMA SameLedger ==
  ASSUME LedgerInv, UNCHANGED vars
  PROVE  /\ LedgerInv' /\ forgot' = forgot /\ Deciding' = Deciding /\ req' = req
         /\ \A u \in Caller : Turns(u)' = Turns(u)
BY DEF vars, LedgerInv, Typed, HeldInv, Admitted, WindowInv, Turns, Deciding

-----------------------------------------------------------------------------
(* How far a burst exceeds the ceiling                                     *)

\* The caller's turns and the requests of its own that will be let in.
Counted(c) == Turns(c) \cup {r \in AskedOf(c) : req[r].seen < Limit}

AtMost(n) == \A c \in Caller : Cardinality(AskedOf(c)) <= n

BurstInv(n) ==
  LedgerInv /\ \A c \in Caller \ forgot : Cardinality(Counted(c)) <= Limit + n - 1

LEMMA BurstInit == ASSUME NEW n \in Nat \ {0}, Init PROVE BurstInv(n)
<1> SUFFICES ASSUME NEW c \in Caller PROVE Cardinality(Counted(c)) <= Limit + n - 1
  BY InitLedger DEF BurstInv
<1>1. Counted(c) = {}
  BY InitLedger DEF Counted, AskedOf
<1> QED BY <1>1, FS_EmptySet, CountsAssumption

\* A step that adds to no window and to nobody who will be let in.
LEMMA NoneCounted ==
  ASSUME NEW n \in Nat \ {0}, BurstInv(n), LedgerInv', forgot \subseteq forgot', NEW c \in Caller \ forgot',
         Counted(c)' \subseteq Counted(c), Counted(c) \subseteq Request
  PROVE  Cardinality(Counted(c)') <= Limit + n - 1
BY TurnsCount, CountsAssumption DEF BurstInv

LEMMA BurstKept ==
  ASSUME NEW n \in Nat \ {0}, BurstInv(n), AtMost(n)', [Next]_vars
  PROVE  BurstInv(n)'
<1>1. LedgerInv /\ \A c \in Caller : Counted(c) \subseteq Request
  BY DEF BurstInv, Counted, Turns, AskedOf, Deciding
<1>2. ASSUME NEW r \in Request, NEW c \in Caller, Ask(r, c) PROVE BurstInv(n)'
  <2>1. /\ LedgerInv' /\ forgot' = forgot /\ Deciding' = Deciding \cup {r} /\ r \notin Deciding
        /\ req'[r].caller = c /\ req'[r].seen = Cardinality(Prune(byCaller[c]))
        /\ \A s \in Request \ {r} : req'[s] = req[s]
        /\ \A u \in Caller : Turns(u)' = Turns(u)
    BY <1>1, <1>2, AskSees
  <2>2. Deciding \subseteq Request \ {r}
    BY <2>1 DEF Deciding
  <2>3. ASSUME NEW u \in Caller \ forgot, u # c \/ ~(req'[r].seen < Limit)
        PROVE  Cardinality(Counted(u)') <= Limit + n - 1
    <3>1. Counted(u)' \subseteq Counted(u)
      BY <2>1, <2>2, <2>3 DEF Counted, AskedOf
    <3> QED BY <1>1, <2>1, <3>1, NoneCounted
  <2>4. ASSUME c \notin forgot, req'[r].seen < Limit
        PROVE  Cardinality(Counted(c)') <= Limit + n - 1
    <3> DEFINE T == Turns(c)
               A == AskedOf(c)'
               L == {s \in A : req'[s].seen < Limit}
    <3>1. T \subseteq Prune(byCaller[c]) /\ Prune(byCaller[c]) \subseteq Request
      <4>1. T \subseteq byCaller[c] /\ byCaller[c] \subseteq Request
        BY <1>1, <2>4 DEF LedgerInv, WindowInv, Typed
      <4> QED BY <4>1 DEF Turns, Prune
    <3>2. L \subseteq A /\ A \subseteq Request
      BY DEF AskedOf, Deciding
    <3>3. Counted(c)' = T \cup L
      BY <2>1 DEF Counted
    <3>4. Cardinality(A) <= n
      BY DEF AtMost
    <3> HIDE DEF T, A, L
    <3>5. /\ Cardinality(T) <= Cardinality(Prune(byCaller[c])) /\ IsFiniteSet(T)
          /\ Cardinality(L) <= Cardinality(A) /\ IsFiniteSet(L)
          /\ {Cardinality(T), Cardinality(L), Cardinality(A), Cardinality(T \cap L)} \subseteq Nat
          /\ Cardinality(Prune(byCaller[c])) \in Nat
      <4>1. T \subseteq T /\ L \subseteq L /\ T \subseteq Request /\ L \subseteq Request /\ T \cap L \subseteq T
        BY <3>1, <3>2
      <4> QED BY <3>1, <3>2, <4>1, TurnsCount
    <3>6. Cardinality(T \cup L) = Cardinality(T) + Cardinality(L) - Cardinality(T \cap L)
      BY <3>5, FS_Union
    <3> QED BY <2>1, <2>4, <3>3, <3>4, <3>5, <3>6, CountsAssumption
  <2> QED BY <2>1, <2>3, <2>4 DEF BurstInv
<1>3. ASSUME NEW r \in Request, Allow(r) PROVE BurstInv(n)'
  <2>1. /\ LedgerInv' /\ forgot \subseteq forgot'
        /\ r \in Deciding /\ req[r].seen < Limit /\ Deciding' = Deciding \ {r}
        /\ \A s \in Request \ {r} : req'[s] = req[s]
        /\ \A u \in Caller : Turns(u)' = IF u = req[r].caller THEN Turns(u) \cup {r} ELSE Turns(u)
    BY <1>1, <1>3, AllowAdds
  <2>2. \A u \in Caller : Counted(u)' \subseteq Counted(u)
    BY <2>1 DEF Counted, AskedOf, Deciding
  <2> QED BY <1>1, <2>1, <2>2, NoneCounted DEF BurstInv
<1>4. ASSUME NEW r \in Request, Refuse(r) PROVE BurstInv(n)'
  <2>1. /\ LedgerInv' /\ forgot' = forgot /\ Deciding' = Deciding \ {r}
        /\ \A s \in Request \ {r} : req'[s] = req[s]
        /\ \A u \in Caller : Turns(u)' = Turns(u)
    BY <1>1, <1>4, RefuseLeaves
  <2>2. \A u \in Caller : Counted(u)' \subseteq Counted(u)
    BY <2>1 DEF Counted, AskedOf, Deciding
  <2> QED BY <1>1, <2>1, <2>2, NoneCounted DEF BurstInv
<1>5. CASE Tick \/ UNCHANGED vars
  <2>1. /\ LedgerInv' /\ forgot' = forgot /\ Deciding' = Deciding /\ req' = req
        /\ \A u \in Caller : Turns(u)' \subseteq Turns(u)
    BY <1>1, <1>5, TickForgets, SameLedger
  <2>2. \A u \in Caller : Counted(u)' \subseteq Counted(u)
    BY <2>1 DEF Counted, AskedOf
  <2> QED BY <1>1, <2>1, <2>2, NoneCounted DEF BurstInv
<1> QED BY <1>2, <1>3, <1>4, <1>5 DEF Next

\* A burst that is decided against one window exceeds the ceiling, and by no
\* more than what of the caller's is asked about at once, less one.
BurstHolds(n) == \A c \in Caller \ forgot : Cardinality(Turns(c)) <= Limit + n - 1

LEMMA BurstCounts == ASSUME NEW n \in Nat \ {0}, BurstInv(n) PROVE BurstHolds(n)
<1> SUFFICES ASSUME NEW c \in Caller \ forgot PROVE Cardinality(Turns(c)) <= Limit + n - 1
  BY DEF BurstHolds
<1>1. Turns(c) \subseteq Counted(c) /\ Counted(c) \subseteq Request
  BY DEF Counted, Turns, AskedOf, Deciding
<1> QED BY <1>1, TurnsCount, CountsAssumption DEF BurstInv

\* However long the policy takes: the turns of a caller the ledger never forgot
\* are the limit and the requests of its own that were asked about together,
\* less one, at most.
THEOREM BurstIsBounded ==
  ASSUME NEW n \in Nat \ {0}
  PROVE  Spec /\ []AtMost(n) => []BurstHolds(n)
<1>1. Init => BurstInv(n)
  BY BurstInit
<1>2. BurstInv(n) /\ AtMost(n)' /\ [Next]_vars => BurstInv(n)'
  BY BurstKept
<1>3. BurstInv(n) => BurstHolds(n)
  BY BurstCounts
<1> QED BY <1>1, <1>2, <1>3, PTL DEF Spec

-----------------------------------------------------------------------------
(* By which burst: the one a turn was asked about in                       *)

UpTo(r) == req[r].before \cup {r}

\* What was asked about before a request is no longer new.
OrderInv == \A r \in Request : \A s \in req[r].before : req[s].phase # "new"

\* Of the turns of a caller and the requests that will be let in, those asked
\* about no later than one of them are the limit and what was beside it, at most.
OverInv ==
  /\ LedgerInv /\ OrderInv
  /\ \A c \in Caller \ forgot : \A r \in Counted(c) :
       Cardinality(Counted(c) \cap UpTo(r)) <= Limit + Cardinality(req[r].beside)

LEMMA OverInit == Init => OverInv
<1> SUFFICES ASSUME Init PROVE OverInv
  OBVIOUS
<1>1. \A c \in Caller : Counted(c) = {}
  BY InitLedger DEF Counted, AskedOf
<1>2. OrderInv
  BY DEF Init, OrderInv
<1> QED BY <1>1, <1>2, InitLedger DEF OverInv

\* A request keeps its bound while its past gains nothing that counts.
LEMMA BoundKept ==
  ASSUME OverInv, NEW c \in Caller \ forgot, NEW r \in Counted(c),
         NEW T \in SUBSET (Counted(c) \cap UpTo(r))
  PROVE  Cardinality(T) <= Limit + Cardinality(req[r].beside)
<1>1. r \in Request /\ Counted(c) \subseteq Request
  BY DEF Counted, Turns, AskedOf, Deciding
<1>2. req[r].beside \subseteq Request
  BY <1>1 DEF OverInv, LedgerInv, Typed, Row
<1>3. Cardinality(req[r].beside) \in Nat
  BY <1>2, RequestAssumption, FS_Subset, FS_CardinalityType
<1>4. Counted(c) \cap UpTo(r) \subseteq Request
  BY <1>1
<1>5. Cardinality(T) <= Cardinality(Counted(c) \cap UpTo(r))
      /\ Cardinality(T) \in Nat /\ Cardinality(Counted(c) \cap UpTo(r)) \in Nat
  BY <1>4, TurnsCount
<1> QED BY <1>3, <1>5, CountsAssumption DEF OverInv

\* A step that asks about nothing and adds to nobody's counted requests.
LEMMA NoneAsked ==
  ASSUME OverInv, LedgerInv', forgot \subseteq forgot',
         \A u \in Caller : Counted(u)' \subseteq Counted(u),
         \A s \in Request : /\ req'[s].before = req[s].before /\ req'[s].beside = req[s].beside
                            /\ req[s].phase # "new" => req'[s].phase # "new"
  PROVE  OverInv'
<1>1. OrderInv'
  <2>1. \A r \in Request : req[r].before \subseteq Request
    BY DEF OverInv, LedgerInv, Typed, Row
  <2> QED BY <2>1 DEF OverInv, OrderInv
<1>2. ASSUME NEW c \in Caller \ forgot', NEW r \in Counted(c)'
      PROVE  Cardinality(Counted(c)' \cap UpTo(r)') <= Limit + Cardinality(req'[r].beside)
  <2>1. c \in Caller \ forgot /\ r \in Counted(c) /\ r \in Request
    BY <1>2 DEF Counted, Turns, AskedOf, Deciding
  <2>2. Counted(c)' \cap UpTo(r)' \subseteq Counted(c) \cap UpTo(r)
    BY <2>1 DEF UpTo
  <2>3. req'[r].beside = req[r].beside
    BY <2>1
  <2> QED BY <2>1, <2>2, <2>3, BoundKept
<1> QED BY <1>1, <1>2 DEF OverInv

\* The request asked about meets its bound: fewer turns than the limit, what is
\* beside it, and itself.
LEMMA AskedMeets ==
  ASSUME OverInv, NEW r \in Request, NEW c \in Caller \ forgot, Ask(r, c), req'[r].seen < Limit
  PROVE  Cardinality(Counted(c)' \cap UpTo(r)') <= Limit + Cardinality(req'[r].beside)
<1> DEFINE T == Turns(c)
           A == AskedOf(c)
           C == (Counted(c) \cap UpTo(r))'
<1>1. /\ Deciding' = Deciding \cup {r} /\ req'[r].seen = Cardinality(Prune(byCaller[c]))
      /\ req'[r].beside = A /\ Turns(c)' = T
      /\ \A s \in Request \ {r} : req'[s] = req[s]
  BY AskSees DEF OverInv
<1>2. T \subseteq Prune(byCaller[c]) /\ Prune(byCaller[c]) \subseteq Request
  <2>1. T \subseteq byCaller[c] /\ byCaller[c] \subseteq Request
    BY DEF OverInv, LedgerInv, WindowInv, Typed
  <2> QED BY <2>1 DEF Turns, Prune
<1>3. A \subseteq Request /\ T \subseteq Request
  BY <1>2 DEF AskedOf, Deciding
<1>4. C \subseteq (T \cup A) \cup {r}
  BY <1>1 DEF Counted, AskedOf, Deciding
<1> HIDE DEF T, A, C
<1>5. /\ Cardinality(T) <= Cardinality(Prune(byCaller[c])) /\ Cardinality(Prune(byCaller[c])) \in Nat
      /\ IsFiniteSet(T) /\ IsFiniteSet(A) /\ IsFiniteSet({r})
      /\ Cardinality(T) \in Nat /\ Cardinality(A) \in Nat /\ Cardinality({r}) = 1
  <2>1. IsFiniteSet(T) /\ IsFiniteSet(A)
    BY <1>3, RequestAssumption, FS_Subset
  <2>2. IsFiniteSet({r}) /\ Cardinality({r}) = 1
    BY FS_Singleton, Zenon
  <2>3. Cardinality(T) <= Cardinality(Prune(byCaller[c])) /\ Cardinality(Prune(byCaller[c])) \in Nat
    BY <1>2, TurnsCount
  <2> QED BY <2>1, <2>2, <2>3, FS_CardinalityType
<1>6. /\ IsFiniteSet(T \cup A) /\ Cardinality(T \cup A) \in Nat
      /\ Cardinality(T \cup A) <= Cardinality(T) + Cardinality(A)
  <2>1. IsFiniteSet(T \cup A) /\ Cardinality(T \cap A) \in Nat
        /\ Cardinality(T \cup A) = Cardinality(T) + Cardinality(A) - Cardinality(T \cap A)
    <3>1. IsFiniteSet(T \cap A)
      BY <1>5, FS_Intersection
    <3> QED BY <1>5, <3>1, FS_Union, FS_CardinalityType
  <2> QED BY <1>5, <2>1, FS_CardinalityType
<1>7. Cardinality((T \cup A) \cup {r}) <= Cardinality(T \cup A) + 1
  <2>1. IsFiniteSet((T \cup A) \cap {r})
    BY <1>5, <1>6, FS_Intersection
  <2>2. Cardinality((T \cup A) \cap {r}) \in Nat
    BY <2>1, FS_CardinalityType
  <2>3. Cardinality((T \cup A) \cup {r})
          = Cardinality(T \cup A) + Cardinality({r}) - Cardinality((T \cup A) \cap {r})
    BY <1>5, <1>6, FS_Union
  <2> QED BY <1>5, <1>6, <2>2, <2>3
<1>8. Cardinality(C) <= Cardinality((T \cup A) \cup {r}) /\ Cardinality(C) \in Nat
      /\ Cardinality((T \cup A) \cup {r}) \in Nat
  <2>1. (T \cup A) \cup {r} \subseteq Request
    BY <1>3
  <2> QED BY <1>4, <2>1, TurnsCount
<1>9. Cardinality(C) <= Limit + Cardinality(A)
  BY <1>1, <1>5, <1>6, <1>7, <1>8, CountsAssumption
<1> QED BY <1>1, <1>9 DEF C

LEMMA OverKept == ASSUME OverInv, [Next]_vars PROVE OverInv'
<1>1. ASSUME NEW r \in Request, NEW c \in Caller, Ask(r, c) PROVE OverInv'
  <2>1. /\ LedgerInv' /\ forgot' = forgot /\ Deciding' = Deciding \cup {r} /\ r \notin Deciding
        /\ req'[r].caller = c /\ req[r].phase = "new" /\ req'[r].phase = "deciding"
        /\ req'[r].before = {s \in Request : req[s].phase # "new"}
        /\ \A s \in Request \ {r} : req'[s] = req[s]
        /\ \A u \in Caller : Turns(u)' = Turns(u)
    BY <1>1, AskSees DEF OverInv
  <2>2. OrderInv'
    <3>1. \A s \in Request : req[s].before \subseteq Request
      BY DEF OverInv, LedgerInv, Typed, Row
    <3>2. \A s \in Request : req[s].phase # "new" => req'[s].phase # "new"
      BY <2>1
    <3> QED BY <2>1, <3>1, <3>2 DEF OverInv, OrderInv
  <2>3. ASSUME NEW u \in Caller, NEW s \in Counted(u)'
        PROVE  s \in Request /\ (s # r => s \in Counted(u)) /\ (s = r => u = c /\ req'[r].seen < Limit)
    BY <2>1, <2>3 DEF Counted, Turns, AskedOf, Deciding
  <2>4. ASSUME NEW u \in Caller \ forgot, NEW s \in Counted(u)', s # r
        PROVE  Cardinality(Counted(u)' \cap UpTo(s)') <= Limit + Cardinality(req'[s].beside)
    <3>1. s \in Request /\ s \in Counted(u) /\ req'[s] = req[s]
      BY <2>1, <2>3, <2>4
    <3>2. r \notin req[s].before
      BY <2>1, <3>1 DEF OverInv, OrderInv
    <3>3. Counted(u)' \cap UpTo(s)' \subseteq Counted(u) \cap UpTo(s)
      BY <2>3, <2>4, <3>1, <3>2 DEF UpTo
    <3> QED BY <3>1, <3>3, BoundKept
  <2>5. ASSUME NEW u \in Caller \ forgot, NEW s \in Counted(u)', s = r
        PROVE  Cardinality(Counted(u)' \cap UpTo(s)') <= Limit + Cardinality(req'[s].beside)
    BY <1>1, <2>3, <2>5, AskedMeets
  <2> QED BY <2>1, <2>2, <2>4, <2>5 DEF OverInv
<1>2. ASSUME NEW r \in Request, Allow(r) \/ Refuse(r) PROVE OverInv'
  <2>1. /\ LedgerInv' /\ forgot \subseteq forgot' /\ r \in Deciding /\ Deciding' = Deciding \ {r}
        /\ \A s \in Request \ {r} : req'[s] = req[s]
    BY <1>2, AllowAdds, RefuseLeaves DEF OverInv
  <2>2. \A u \in Caller : Counted(u)' \subseteq Counted(u)
    <3>1. CASE Allow(r)
      <4>1. /\ req[r].seen < Limit
            /\ \A u \in Caller : Turns(u)' = IF u = req[r].caller THEN Turns(u) \cup {r} ELSE Turns(u)
        BY <3>1, AllowAdds DEF OverInv
      <4> QED BY <2>1, <4>1 DEF Counted, AskedOf, Deciding
    <3>2. CASE Refuse(r)
      <4>1. \A u \in Caller : Turns(u)' = Turns(u)
        BY <3>2, RefuseLeaves DEF OverInv
      <4> QED BY <2>1, <4>1 DEF Counted, AskedOf, Deciding
    <3> QED BY <1>2, <3>1, <3>2
  <2>3. /\ req'[r].before = req[r].before /\ req'[r].beside = req[r].beside
        /\ req'[r].phase # "new"
    BY <1>2 DEF Allow, Refuse, OverInv, LedgerInv, Typed, Row
  <2> QED BY <2>1, <2>2, <2>3, NoneAsked
<1>3. CASE Tick \/ UNCHANGED vars
  <2>1. /\ LedgerInv' /\ forgot' = forgot /\ Deciding' = Deciding /\ req' = req
        /\ \A u \in Caller : Turns(u)' \subseteq Turns(u)
    BY <1>3, TickForgets, SameLedger DEF OverInv
  <2>2. \A u \in Caller : Counted(u)' \subseteq Counted(u)
    BY <2>1 DEF Counted, AskedOf
  <2> QED BY <2>1, <2>2, NoneAsked
<1> QED BY <1>1, <1>2, <1>3 DEF Next

LEMMA OverCounts == ASSUME OverInv PROVE OverByItsBurst
<1> SUFFICES ASSUME NEW c \in Caller \ forgot, NEW r \in Turns(c)
             PROVE  Cardinality(Turns(c) \cap UpTo(r)) <= Limit + Cardinality(req[r].beside)
  BY DEF OverByItsBurst, UpTo
<1>1. Turns(c) \subseteq Counted(c)
  BY DEF Counted
<1> QED BY <1>1, BoundKept

\* When a turn is let in, its caller is over the ceiling by no more than the
\* requests of its own that the policy had in hand when that turn was asked
\* about, unless the ledger once forgot it.
THEOREM OverTheCeiling == Spec => []OverByItsBurst
<1>1. OverInv /\ [Next]_vars => OverInv'
  BY OverKept
<1>2. OverInv => OverByItsBurst
  BY OverCounts
<1> QED BY <1>1, <1>2, OverInit, PTL DEF Spec

-----------------------------------------------------------------------------
(* Who is turned away                                                      *)

\* The policy turns nobody away that has a turn left when its window is read.
THEOREM RefusedAtTheCeiling == Spec => RefusesAtTheCeilingOnly
<1>1. ASSUME OverInv, NEW r \in Request, NEW c \in Caller, Ask(r, c), req'[r].seen >= Limit
      PROVE  Cardinality(Turns(c)) >= Limit
  <2>1. Cardinality(Prune(byCaller[c])) >= Limit
    BY <1>1, AskSees DEF OverInv
  <2>2. Prune(byCaller[c]) \subseteq Turns(c) /\ Turns(c) \subseteq Request
    BY <1>1 DEF OverInv, LedgerInv, Typed, HeldInv, Admitted, Prune, Turns
  <2> QED BY <2>1, <2>2, TurnsCount, CountsAssumption
<1>2. OverInv => \A r \in Request, c \in Caller :
                   Ask(r, c) /\ req'[r].seen >= Limit => Cardinality(Turns(c)) >= Limit
  BY <1>1
<1>3. OverInv /\ [Next]_vars => OverInv'
  BY OverKept
<1> QED BY <1>2, <1>3, OverInit, PTL DEF Spec, RefusesAtTheCeilingOnly
=============================================================================
