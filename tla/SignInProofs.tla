------------------------------ MODULE SignInProofs ------------------------------
(***************************************************************************)
(* Proofs about SignIn, for any logins, names, addresses and limits.       *)
(***************************************************************************)
EXTENDS SignIn, FiniteSetTheorems, TLAPS

\* A counter that may be lost: there is none, or it is out of flight and does not
\* penalise.
Spare(c, penalty) == c = None \/ (c.inFlight = 0 /\ ~(Live(c) /\ c.attempts >= penalty))

Charged(l) == login[l].step \in {"wrong", "failed"}

\* A name's counter: in flight exactly while one login of the name is.
NamesInv ==
  /\ \A l \in Login : login[l].step # "out" =>
       LET c == names[login[l].name] IN c # None /\ c.inFlight = 1 /\ c.attempts >= 1
  /\ \A n \in Name : \A l, m \in OfName(n) : l = m
  /\ \A n \in Name : names[n] # None =>
       /\ names[n].attempts <= PerName /\ names[n].lastAt <= now
       /\ names[n].inFlight = 0 \/ \E l \in OfName(n) : names[n].inFlight = 1

\* What the directory holds against a name its counter holds too, and no less
\* recently; an attempt the directory has not charged yet is counted already.
DirectoryInv ==
  /\ \A n \in Name : bad[n] > 0 =>
       /\ names[n] # None /\ bad[n] <= names[n].attempts
       /\ badAt[n] <= now /\ now - badAt[n] < Window
       /\ badAt[n] <= names[n].lastAt \/ \E l \in OfName(n) : Charged(l)
  /\ \A l \in Login : login[l].step # "out" /\ ~Charged(l) =>
       bad[login[l].name] < names[login[l].name].attempts
  /\ \A l \in Login : login[l].step = "right" => bad[login[l].name] = 0

AddressesInv ==
  \A a \in Address :
    /\ Cardinality(OfAddress(a)) = Flying(addresses[a])
    /\ addresses[a] # None => addresses[a].inFlight <= addresses[a].attempts

SlotsInv ==
  /\ SlotsAreUsed
  /\ \A i \in 1..Len(queue) : login[queue[i]].step = "queued"
  /\ \A i, j \in 1..Len(queue) : queue[i] = queue[j] => i = j

IInv == TypeOK /\ NamesInv /\ DirectoryInv /\ AddressesInv /\ TablesAreBounded /\ SlotsInv

-----------------------------------------------------------------------------
(* The tables                                                              *)

LEMMA LookedTable ==
  ASSUME TypeOK, NEW D, NEW table \in [D -> Counter \cup {None}], NEW k \in D, NEW penalty
  PROVE  /\ Looked(table, k) \in [D -> Counter \cup {None}]
         /\ \A j \in D : \/ Looked(table, k)[j] = table[j]
                         \/ Looked(table, k)[j] = None /\ Spare(table[j], penalty)
         /\ Kept(Looked(table, k)) \subseteq Kept(table)
  BY DEF Looked, Get, Forgotten, Spare, Kept

LEMMA MadeTable ==
  ASSUME TypeOK, NEW D, NEW table \in [D -> Counter \cup {None}], NEW k \in D, NEW penalty,
         NEW t \in Made(table, k, penalty)
  PROVE  /\ t \in [D -> Counter \cup {None}]
         /\ t[k] # None
         /\ \/ t[k] = table[k] /\ Get(table, k) = table[k]
            \/ t[k] = NewCounter /\ Spare(table[k], penalty) /\ Get(table, k) = None
         /\ \A j \in D : j # k =>
              t[j] = table[j] \/ (t[j] = None /\ Spare(table[j], penalty))
<1> DEFINE u == Looked(table, k)
<1>1. /\ u \in [D -> Counter \cup {None}]
      /\ \A j \in D : j # k => u[j] = table[j]
      /\ u[k] = Get(table, k)
      /\ u[k] = table[k] \/ (u[k] = None /\ Spare(table[k], penalty))
  BY DEF Looked, Get, Forgotten, Spare
<1>2. NewCounter \in Counter /\ NewCounter # None
  BY NoneAssumption DEF NewCounter, Counter, TypeOK
<1>3. CASE u[k] # None
  <2>1. t = u
    BY <1>3 DEF Made
  <2> QED BY <1>1, <1>3, <2>1
<1>4. CASE u[k] = None /\ ~Full(u)
  <2>1. t = [u EXCEPT ![k] = NewCounter]
    BY <1>4 DEF Made
  <2> QED BY <1>1, <1>2, <1>4, <2>1 DEF Spare
<1>5. CASE u[k] = None /\ Full(u)
  <2>1. PICK v \in Droppable(u, penalty) : t = [u EXCEPT ![k] = NewCounter, ![v] = None]
    BY <1>5 DEF Made
  <2>2. v \in D /\ v # k /\ Spare(u[v], penalty)
    BY <1>1, <1>5, <2>1 DEF Droppable, Spare
  <2> QED BY <1>1, <1>2, <1>5, <2>1, <2>2 DEF Spare
<1> QED BY <1>3, <1>4, <1>5

LEMMA MadeIsBounded ==
  ASSUME TypeOK, NEW D, IsFiniteSet(D), NEW table \in [D -> Counter \cup {None}], NEW k \in D,
         NEW penalty, NEW t \in Made(table, k, penalty),
         Cardinality(Kept(table)) <= MaxEntries
  PROVE  Cardinality(Kept(t)) <= MaxEntries
<1> DEFINE u == Looked(table, k)
<1>1. /\ u \in [D -> Counter \cup {None}] /\ Kept(u) \subseteq Kept(table)
  BY LookedTable
<1>2. NewCounter \in Counter /\ NewCounter # None
  BY NoneAssumption DEF NewCounter, Counter, TypeOK
<1>3. IsFiniteSet(Kept(table)) /\ IsFiniteSet(Kept(u)) /\ Cardinality(Kept(table)) \in Nat
  <2>1. Kept(table) \subseteq D /\ Kept(u) \subseteq D
    BY <1>1 DEF Kept
  <2> QED BY <2>1, FS_Subset, FS_CardinalityType
<1>4. Cardinality(Kept(u)) \in Nat /\ Cardinality(Kept(u)) <= MaxEntries
  <2>1. Cardinality(Kept(u)) \in Nat /\ Cardinality(Kept(u)) <= Cardinality(Kept(table))
    BY <1>1, <1>3, FS_Subset, FS_CardinalityType
  <2> QED BY <1>3, <2>1, BoundsAssumption
<1>5. CASE u[k] # None
  <2>1. t = u
    BY <1>5 DEF Made
  <2> QED BY <1>4, <2>1
<1>6. CASE u[k] = None /\ ~Full(u)
  <2>1. t = [u EXCEPT ![k] = NewCounter]
    BY <1>6 DEF Made
  <2>2. Kept(t) = Kept(u) \cup {k} /\ k \notin Kept(u)
    BY <1>1, <1>2, <1>6, <2>1 DEF Kept
  <2>3. Cardinality(Kept(t)) = Cardinality(Kept(u)) + 1
    BY <1>3, <2>2, FS_AddElement
  <2>4. Cardinality(Kept(u)) < MaxEntries
    BY <1>4, <1>6, BoundsAssumption DEF Full
  <2> QED BY <1>4, <2>3, <2>4, BoundsAssumption
<1>7. CASE u[k] = None /\ Full(u)
  <2>1. PICK v \in Droppable(u, penalty) : t = [u EXCEPT ![k] = NewCounter, ![v] = None]
    BY <1>7 DEF Made
  <2>2. v \in D /\ v # k /\ v \in Kept(u)
    BY <1>1, <1>7, <2>1 DEF Droppable, Kept
  <2>3. Kept(t) = (Kept(u) \ {v}) \cup {k} /\ k \notin Kept(u) \ {v}
    BY <1>1, <1>2, <1>7, <2>1, <2>2 DEF Kept
  <2>4. /\ IsFiniteSet(Kept(u) \ {v})
        /\ Cardinality(Kept(u) \ {v}) = Cardinality(Kept(u)) - 1
    BY <1>3, <2>2, FS_RemoveElement
  <2>5. Cardinality(Kept(t)) = Cardinality(Kept(u) \ {v}) + 1
    BY <2>3, <2>4, FS_AddElement
  <2> QED BY <1>4, <2>4, <2>5
<1> QED BY <1>5, <1>6, <1>7

-----------------------------------------------------------------------------
(* What the invariant says of a name, and of an address                    *)

\* A counter that may be lost holds nothing against the name.
LEMMA LostName ==
  ASSUME IInv, NEW n \in Name, Spare(names[n], NamePenalty)
  PROVE  bad[n] = 0 /\ OfName(n) = {}
<1>1. OfName(n) = {}
  BY DEF Spare, IInv, NamesInv, OfName
<1>2. CASE bad[n] > 0
  <2>1. /\ names[n] # None /\ names[n] \in Counter /\ bad[n] \in Nat /\ badAt[n] \in Nat
        /\ now \in Nat /\ bad[n] <= names[n].attempts
        /\ now - badAt[n] < Window /\ badAt[n] <= names[n].lastAt
    BY <1>1, <1>2, BoundsAssumption DEF IInv, DirectoryInv, TypeOK
  <2>2. names[n].attempts >= 1 /\ names[n].lastAt \in Nat /\ names[n].attempts \in Nat
    BY <1>2, <2>1, BoundsAssumption DEF Counter
  <2>3. Live(names[n])
    BY <2>1, <2>2, BoundsAssumption DEF Live
  <2> QED BY <2>1, <2>2, <2>3 DEF Spare, NamePenalty
<1>3. bad[n] \in Nat
  BY DEF IInv, TypeOK
<1> QED BY <1>1, <1>2, <1>3

LEMMA NotLimited ==
  ASSUME IInv, NEW n \in Name, ~NameLimited(Get(names, n))
  PROVE  OfName(n) = {}
<1>1. CASE Forgotten(names[n])
  BY <1>1, LostName DEF Forgotten, Spare
<1>2. CASE names[n] = None
  BY <1>2, LostName DEF Spare
<1>3. CASE names[n] # None /\ ~Forgotten(names[n])
  <2>1. Get(names, n) = names[n]
    BY <1>3 DEF Get
  <2>2. ~(names[n].inFlight > 0)
    BY <1>3, <2>1 DEF NameLimited
  <2> QED BY <2>2 DEF IInv, NamesInv, OfName
<1> QED BY <1>1, <1>2, <1>3

LEMMA FlyingAt ==
  ASSUME IInv, NEW l \in Login, login[l].step # "out"
  PROVE  /\ names[login[l].name] \in Counter /\ names[login[l].name].inFlight = 1
         /\ addresses[login[l].address] \in Counter /\ addresses[login[l].address] # None
         /\ addresses[login[l].address].inFlight >= 1
         /\ addresses[login[l].address].attempts >= addresses[login[l].address].inFlight
         /\ login[l].name \in Name /\ login[l].address \in Address
<1>1. login[l].name \in Name /\ login[l].address \in Address
  BY DEF IInv, TypeOK
<1>2. names[login[l].name] \in Counter /\ names[login[l].name].inFlight = 1
  BY <1>1 DEF IInv, TypeOK, NamesInv
<1> DEFINE a == login[l].address
<1>3. IsFiniteSet(OfAddress(a)) /\ l \in OfAddress(a)
  BY <1>1, FinitenessAssumption, FS_Subset DEF OfAddress
<1>4. Cardinality(OfAddress(a)) \in Nat /\ Cardinality(OfAddress(a)) # 0
  BY <1>3, FS_CardinalityType, FS_EmptySet
<1>5. Flying(addresses[a]) = Cardinality(OfAddress(a)) /\ addresses[a] \in Counter \cup {None}
  BY <1>1 DEF IInv, AddressesInv, TypeOK
<1>6. addresses[a] # None /\ addresses[a].inFlight >= 1
  BY <1>4, <1>5 DEF Flying
<1>7. addresses[a].attempts >= addresses[a].inFlight
  <2>1. addresses[a].inFlight <= addresses[a].attempts
    BY <1>1, <1>6 DEF IInv, AddressesInv
  <2>2. addresses[a].inFlight \in Nat /\ addresses[a].attempts \in Nat
    BY <1>5, <1>6 DEF Counter
  <2> QED BY <2>1, <2>2
<1> QED BY <1>1, <1>2, <1>5, <1>6, <1>7

-----------------------------------------------------------------------------
(* A login that starts                                                     *)

LEMMA InitIInv == Init => IInv
<1> SUFFICES ASSUME Init PROVE IInv
  OBVIOUS
<1>1. 0 \in 0..MaxNow /\ Concurrent \in Nat \ {0} /\ MaxQueue \in Nat /\ MaxEntries \in Nat
  BY BoundsAssumption
<1>2. TypeOK
  BY <1>1 DEF Init, TypeOK, Out, Steps, Counter
<1>3. \A l \in Login : login[l].step = "out"
  BY DEF Init, Out
<1>4. NamesInv /\ DirectoryInv
  BY <1>3 DEF Init, NamesInv, DirectoryInv, OfName
<1>5. AddressesInv
  <2>1. \A a \in Address : OfAddress(a) = {}
    BY <1>3 DEF OfAddress
  <2> QED BY <2>1, FS_EmptySet DEF Init, AddressesInv, Flying
<1>6. TablesAreBounded
  <2>1. Kept(names) = {} /\ Kept(addresses) = {}
    BY DEF Init, Kept
  <2> QED BY <1>1, <2>1, FS_EmptySet DEF TablesAreBounded
<1>7. SlotsInv
  <2>1. {l \in Login : HasSlot(l)} = {}
    BY <1>3 DEF HasSlot
  <2>2. queue = <<>> /\ running = 0 /\ Len(queue) = 0
    BY DEF Init
  <2> QED BY <1>1, <2>1, <2>2, FS_EmptySet DEF SlotsInv, SlotsAreUsed
<1> QED BY <1>2, <1>4, <1>5, <1>6, <1>7 DEF IInv

LEMMA RefuseKeeps ==
  ASSUME IInv, NEW n \in Name, NEW a \in Address, Refuse(n, a)
  PROVE  IInv'
<1> DEFINE Shrinks(D, table, new, penalty) ==
      /\ new \in [D -> Counter \cup {None}]
      /\ \A j \in D : new[j] = table[j] \/ (new[j] = None /\ Spare(table[j], penalty))
<1>1. /\ TypeOK /\ names \in [Name -> Counter \cup {None}]
      /\ addresses \in [Address -> Counter \cup {None}]
  BY DEF IInv, TypeOK
<1>2. /\ Shrinks(Name, names, names, NamePenalty)
      /\ Shrinks(Address, addresses, addresses, AddressPenalty)
      /\ Shrinks(Name, names, Looked(names, n), NamePenalty)
      /\ Shrinks(Address, addresses, Looked(addresses, a), AddressPenalty)
  BY <1>1, LookedTable
<1>3. \A t \in Made(names, n, NamePenalty) :
        Shrinks(Name, names, IF Get(names, n) = None THEN [t EXCEPT ![n] = None] ELSE t, NamePenalty)
  <2> TAKE t \in Made(names, n, NamePenalty)
  <2>1. /\ t \in [Name -> Counter \cup {None}]
        /\ \A j \in Name : j # n => t[j] = names[j] \/ (t[j] = None /\ Spare(names[j], NamePenalty))
        /\ \/ t[n] = names[n] /\ Get(names, n) = names[n]
           \/ Spare(names[n], NamePenalty) /\ Get(names, n) = None
        /\ t[n] # None
    BY <1>1, MadeTable
  <2> QED BY <2>1
<1>4. /\ Shrinks(Name, names, names', NamePenalty)
      /\ Shrinks(Address, addresses, addresses', AddressPenalty)
      /\ UNCHANGED <<login, running, queue, now, bad, badAt>>
  BY <1>2, <1>3 DEF Refuse, Busy, gate, directory
<1>5. TypeOK'
  BY <1>1, <1>4 DEF TypeOK
<1>6. /\ \A j \in Name : names'[j] = names[j] \/ (names'[j] = None /\ bad[j] = 0 /\ OfName(j) = {})
      /\ \A j \in Name : OfName(j)' = OfName(j)
  BY <1>4, LostName DEF OfName
<1>7. NamesInv' /\ DirectoryInv'
  <2>1. NamesInv'
    BY <1>1, <1>4, <1>6 DEF IInv, TypeOK, NamesInv, OfName
  <2>2. DirectoryInv'
    BY <1>1, <1>4, <1>6 DEF IInv, TypeOK, DirectoryInv, Charged, OfName
  <2> QED BY <2>1, <2>2
<1>8. AddressesInv'
  <2>1. \A j \in Address : Flying(addresses[j])' = Flying(addresses[j])
    BY <1>4 DEF Flying, Spare
  <2>2. \A j \in Address : OfAddress(j)' = OfAddress(j)
    BY <1>4 DEF OfAddress
  <2> QED BY <1>4, <2>1, <2>2 DEF IInv, AddressesInv
<1>9. TablesAreBounded'
  <2>1. /\ Kept(names') \subseteq Kept(names) /\ Kept(addresses') \subseteq Kept(addresses)
        /\ Kept(names) \subseteq Name /\ Kept(addresses) \subseteq Address
    BY <1>1, <1>4 DEF Kept
  <2>2. /\ IsFiniteSet(Kept(names)) /\ IsFiniteSet(Kept(addresses))
        /\ IsFiniteSet(Kept(names')) /\ IsFiniteSet(Kept(addresses'))
    BY <2>1, FinitenessAssumption, FS_Subset
  <2>3. /\ Cardinality(Kept(names')) <= Cardinality(Kept(names))
        /\ Cardinality(Kept(addresses')) <= Cardinality(Kept(addresses))
    BY <2>1, <2>2, FS_Subset
  <2>4. {Cardinality(Kept(names')), Cardinality(Kept(addresses')),
         Cardinality(Kept(names)), Cardinality(Kept(addresses))} \subseteq Nat
    BY <2>2, FS_CardinalityType
  <2>5. TablesAreBounded
    BY DEF IInv
  <2>6. Kept(names)' = Kept(names') /\ Kept(addresses)' = Kept(addresses')
    BY DEF Kept
  <2> QED BY <2>3, <2>4, <2>5, <2>6, BoundsAssumption DEF TablesAreBounded
<1>10. SlotsInv'
  <2>1. {l \in Login : HasSlot(l)}' = {l \in Login : HasSlot(l)}
    BY <1>4 DEF HasSlot
  <2> QED BY <1>4, <2>1 DEF IInv, SlotsInv, SlotsAreUsed
<1> QED BY <1>5, <1>7, <1>8, <1>9, <1>10 DEF IInv

LEMMA BeginKeeps ==
  ASSUME IInv, NEW l \in Login, NEW n \in Name, NEW a \in Address, Begin(l, n, a)
  PROVE  IInv'
<1>1. /\ TypeOK /\ names \in [Name -> Counter \cup {None}]
      /\ addresses \in [Address -> Counter \cup {None}]
      /\ login \in [Login -> [step : Steps, name : Name \cup {None}, address : Address \cup {None}]]
      /\ now \in 0..MaxNow /\ now \in Nat /\ PerName \in Nat \ {0}
      /\ TablesAreBounded
  BY BoundsAssumption DEF IInv, TypeOK
<1>2. PICK t \in Made(names, n, NamePenalty), u \in Made(addresses, a, AddressPenalty) :
        names' = Counted(t, n) /\ addresses' = Counted(u, a)
  BY DEF Begin
<1>3. /\ login[l].step = "out"
      /\ login' = [login EXCEPT ![l] = [step |-> "delayed", name |-> n, address |-> a]]
      /\ UNCHANGED <<running, queue, now, bad, badAt>>
      /\ ~NameLimited(Get(names, n))
  BY DEF Begin, gate, directory
<1>4. /\ t \in [Name -> Counter \cup {None}] /\ t[n] # None
      /\ \/ t[n] = names[n] /\ Get(names, n) = names[n]
         \/ t[n] = NewCounter /\ Spare(names[n], NamePenalty) /\ Get(names, n) = None
      /\ \A j \in Name : j # n => t[j] = names[j] \/ (t[j] = None /\ Spare(names[j], NamePenalty))
  BY <1>1, <1>2, MadeTable
<1>5. /\ u \in [Address -> Counter \cup {None}] /\ u[a] # None
      /\ u[a] = addresses[a] \/ (u[a] = NewCounter /\ Spare(addresses[a], AddressPenalty))
      /\ \A j \in Address :
           j # a => u[j] = addresses[j] \/ (u[j] = None /\ Spare(addresses[j], AddressPenalty))
  BY <1>1, <1>2, MadeTable
<1>6. /\ names' = [t EXCEPT ![n] = [attempts |-> t[n].attempts + 1,
                                    inFlight |-> t[n].inFlight + 1, lastAt |-> now]]
      /\ addresses' = [u EXCEPT ![a] = [attempts |-> u[a].attempts + 1,
                                        inFlight |-> u[a].inFlight + 1, lastAt |-> now]]
  BY <1>2 DEF Counted
<1>7. /\ t[n] \in Counter /\ u[a] \in Counter
      /\ names' \in [Name -> Counter \cup {None}] /\ addresses' \in [Address -> Counter \cup {None}]
  <2>1. t[n] \in Counter /\ u[a] \in Counter
    BY <1>4, <1>5
  <2>2. /\ names'[n] \in Counter /\ addresses'[a] \in Counter
    BY <1>1, <1>4, <1>5, <1>6, <2>1 DEF Counter
  <2> QED BY <1>4, <1>5, <1>6, <2>1, <2>2
<1>8. TypeOK'
  <2>1. login' \in [Login -> [step : Steps, name : Name \cup {None}, address : Address \cup {None}]]
    BY <1>1, <1>3 DEF Steps
  <2>2. \A m \in Login : IF login'[m].step = "out" THEN login'[m] = Out
                         ELSE login'[m].name \in Name /\ login'[m].address \in Address
    BY <1>1, <1>3 DEF TypeOK
  <2>3. running \in Nat /\ queue \in Seq(Login) /\ bad \in [Name -> Nat] /\ badAt \in [Name -> 0..MaxNow]
    BY <1>1 DEF TypeOK
  <2> QED BY <1>1, <1>3, <1>7, <2>1, <2>2, <2>3 DEF TypeOK
\* The name: nobody of it was in flight, and its budget is not used up.
<1>9. OfName(n) = {} /\ t[n].inFlight = 0 /\ t[n].attempts < PerName /\ bad[n] <= t[n].attempts
  <2>1. OfName(n) = {}
    BY <1>3, NotLimited
  <2>2. CASE t[n] = names[n] /\ Get(names, n) = names[n]
    <3>1. names[n] # None /\ names[n] \in Counter
      BY <1>4, <1>7, <2>2
    <3>2. names[n].inFlight = 0 /\ names[n].attempts < PerName
      BY <1>1, <1>3, <2>2, <3>1 DEF NameLimited, Counter
    <3>3. bad[n] \in Nat /\ (bad[n] > 0 => bad[n] <= names[n].attempts)
      BY DEF IInv, TypeOK, DirectoryInv
    <3> QED BY <2>1, <2>2, <3>1, <3>2, <3>3 DEF Counter
  <2>3. CASE t[n] = NewCounter /\ Spare(names[n], NamePenalty)
    BY <1>1, <2>1, <2>3, LostName DEF NewCounter
  <2> QED BY <1>4, <2>2, <2>3
<1>10. /\ OfName(n)' = {l}
       /\ \A j \in Name : j # n => OfName(j)' = OfName(j)
       /\ \A j \in Name : j # n =>
            names'[j] = names[j] \/ (names'[j] = None /\ bad[j] = 0 /\ OfName(j) = {})
  <2>1. /\ OfName(n)' = {l}
        /\ \A j \in Name : j # n => OfName(j)' = OfName(j)
    BY <1>1, <1>3, <1>9 DEF OfName
  <2>2. \A j \in Name : j # n => names'[j] = t[j]
    BY <1>4, <1>6
  <2> QED BY <1>4, <2>1, <2>2, LostName
<1>11. /\ names'[n].attempts = t[n].attempts + 1 /\ names'[n].inFlight = 1 /\ names'[n].lastAt = now
       /\ names'[n] # None /\ t[n].attempts \in Nat
  <2>1. names'[n] = [attempts |-> t[n].attempts + 1, inFlight |-> t[n].inFlight + 1, lastAt |-> now]
    BY <1>4, <1>6
  <2>2. t[n].attempts \in Nat /\ names'[n] \in Counter
    BY <1>1, <1>7, <1>9, <2>1 DEF Counter
  <2> QED BY <1>9, <2>1, <2>2, NoneAssumption
<1>12. \A m \in Login : m # l => login'[m] = login[m]
  BY <1>1, <1>3
<1>13. login'[l].step = "delayed" /\ login'[l].name = n /\ login'[l].address = a
  BY <1>1, <1>3
<1>14. \A m \in Login : m # l /\ login[m].step # "out" => login[m].name \in Name /\ login[m].name # n
  BY <1>1, <1>9 DEF OfName, TypeOK
<1>15. NamesInv'
  <2>1. \A m \in Login : login'[m].step # "out" =>
          LET c == names'[login'[m].name] IN c # None /\ c.inFlight = 1 /\ c.attempts >= 1
    <3> SUFFICES ASSUME NEW m \in Login, login'[m].step # "out"
                 PROVE  LET c == names'[login'[m].name] IN c # None /\ c.inFlight = 1 /\ c.attempts >= 1
      OBVIOUS
    <3>1. CASE m = l
      BY <1>11, <1>13, <3>1
    <3>2. CASE m # l
      <4>1. m \in OfName(login[m].name) /\ login[m].name \in Name \ {n}
        BY <1>12, <1>14, <3>2 DEF OfName
      <4>2. names'[login[m].name] = names[login[m].name]
        BY <1>10, <4>1
      <4> QED BY <1>12, <3>2, <4>2 DEF IInv, NamesInv
    <3> QED BY <3>1, <3>2
  <2>2. \A j \in Name : \A m, k \in OfName(j)' : m = k
    BY <1>10 DEF IInv, NamesInv
  <2>3. \A j \in Name : names'[j] # None =>
          /\ names'[j].attempts <= PerName /\ names'[j].lastAt <= now
          /\ names'[j].inFlight = 0 \/ \E m \in OfName(j)' : names'[j].inFlight = 1
    <3> SUFFICES ASSUME NEW j \in Name, names'[j] # None
                 PROVE  /\ names'[j].attempts <= PerName /\ names'[j].lastAt <= now
                        /\ names'[j].inFlight = 0 \/ \E m \in OfName(j)' : names'[j].inFlight = 1
      OBVIOUS
    <3>1. CASE j = n
      BY <1>1, <1>9, <1>10, <1>11, <3>1
    <3>2. CASE j # n
      BY <1>10, <3>2 DEF IInv, NamesInv
    <3> QED BY <3>1, <3>2
  <2> QED BY <1>3, <2>1, <2>2, <2>3 DEF NamesInv
<1>16. DirectoryInv'
  <2>1. \A j \in Name : \A m \in OfName(j) : j # n => m \in OfName(j)' /\ (Charged(m) => Charged(m)')
    BY <1>10, <1>12, <1>14 DEF OfName, Charged
  <2>2. \A j \in Name : bad[j] > 0 =>
          /\ names'[j] # None /\ bad[j] <= names'[j].attempts
          /\ badAt[j] <= now /\ now - badAt[j] < Window
          /\ badAt[j] <= names'[j].lastAt \/ \E m \in OfName(j)' : Charged(m)'
    <3> SUFFICES ASSUME NEW j \in Name, bad[j] > 0
                 PROVE  /\ names'[j] # None /\ bad[j] <= names'[j].attempts
                        /\ badAt[j] <= now /\ now - badAt[j] < Window
                        /\ badAt[j] <= names'[j].lastAt \/ \E m \in OfName(j)' : Charged(m)'
      OBVIOUS
    <3>0. bad[j] \in Nat
      BY <1>1 DEF TypeOK
    <3>1. CASE j = n
      BY <1>1, <1>9, <1>11, <3>0, <3>1 DEF IInv, DirectoryInv
    <3>2. CASE j # n
      <4>1. names'[j] = names[j]
        BY <1>10, <3>0, <3>2
      <4> QED BY <2>1, <3>2, <4>1 DEF IInv, DirectoryInv
    <3> QED BY <3>1, <3>2
  <2>3. \A m \in Login : login'[m].step # "out" /\ ~Charged(m)' =>
          bad[login'[m].name] < names'[login'[m].name].attempts
    <3> SUFFICES ASSUME NEW m \in Login, login'[m].step # "out", ~Charged(m)'
                 PROVE  bad[login'[m].name] < names'[login'[m].name].attempts
      OBVIOUS
    <3>0. bad[n] \in Nat
      BY <1>1 DEF TypeOK
    <3>1. CASE m = l
      BY <1>9, <1>11, <1>13, <3>0, <3>1
    <3>2. CASE m # l
      <4>1. m \in OfName(login[m].name) /\ login[m].name \in Name \ {n}
        BY <1>12, <1>14, <3>2 DEF OfName
      <4>2. names'[login[m].name] = names[login[m].name]
        BY <1>10, <4>1
      <4> QED BY <1>12, <3>2, <4>2 DEF IInv, DirectoryInv, Charged
    <3> QED BY <3>1, <3>2
  <2>4. \A m \in Login : login'[m].step = "right" => bad[login'[m].name] = 0
    BY <1>12, <1>13 DEF IInv, DirectoryInv
  <2> QED BY <1>3, <2>2, <2>3, <2>4 DEF DirectoryInv
<1>17. AddressesInv'
  <2> SUFFICES ASSUME NEW j \in Address
               PROVE  /\ Cardinality(OfAddress(j)') = Flying(addresses'[j])
                      /\ addresses'[j] # None => addresses'[j].inFlight <= addresses'[j].attempts
    BY DEF AddressesInv, Flying
  <2>1. CASE j # a
    <3>1. OfAddress(j)' = OfAddress(j)
      BY <1>1, <1>3, <2>1 DEF OfAddress
    <3>2. addresses'[j] = addresses[j] \/ (addresses'[j] = None /\ Flying(addresses[j]) = 0)
      BY <1>5, <1>6, <2>1 DEF Spare, Flying
    <3> QED BY <3>1, <3>2 DEF IInv, AddressesInv, Flying
  <2>2. CASE j = a
    <3>1. OfAddress(a)' = OfAddress(a) \cup {l} /\ l \notin OfAddress(a)
      BY <1>1, <1>3 DEF OfAddress
    <3>2. IsFiniteSet(OfAddress(a))
      BY FinitenessAssumption, FS_Subset DEF OfAddress
    <3>3. Cardinality(OfAddress(a)') = Cardinality(OfAddress(a)) + 1
      BY <3>1, <3>2, FS_AddElement
    <3>4. u[a].inFlight = Flying(addresses[a]) /\ u[a].inFlight <= u[a].attempts
      <4>1. CASE u[a] = addresses[a]
        BY <1>5, <4>1 DEF IInv, AddressesInv, Flying
      <4>2. CASE u[a] = NewCounter /\ Spare(addresses[a], AddressPenalty)
        BY <4>2 DEF NewCounter, Spare, Flying
      <4> QED BY <1>5, <4>1, <4>2
    <3>5. addresses'[a].inFlight = u[a].inFlight + 1 /\ addresses'[a].attempts = u[a].attempts + 1
      BY <1>5, <1>6
    <3>6. u[a].inFlight \in Nat /\ u[a].attempts \in Nat /\ addresses'[a] # None
      <4>1. addresses'[a] = [attempts |-> u[a].attempts + 1, inFlight |-> u[a].inFlight + 1,
                             lastAt |-> now]
        BY <1>5, <1>6
      <4>2. u[a].inFlight \in Nat /\ u[a].attempts \in Nat
        BY <1>7 DEF Counter
      <4>3. addresses'[a] \in Counter
        BY <1>1, <4>1, <4>2 DEF Counter
      <4> QED BY <4>2, <4>3, NoneAssumption
    <3>7. Cardinality(OfAddress(a)) = Flying(addresses[a])
      BY DEF IInv, AddressesInv
    <3> QED BY <2>2, <3>3, <3>4, <3>5, <3>6, <3>7 DEF Flying
  <2> QED BY <2>1, <2>2
<1>18. TablesAreBounded'
  <2>1. Cardinality(Kept(t)) <= MaxEntries /\ Cardinality(Kept(u)) <= MaxEntries
    BY <1>1, <1>2, FinitenessAssumption, MadeIsBounded DEF TablesAreBounded
  <2>2. addresses'[a] # None
    <3>1. addresses'[a] = [attempts |-> u[a].attempts + 1, inFlight |-> u[a].inFlight + 1,
                           lastAt |-> now]
      BY <1>5, <1>6
    <3>2. addresses'[a] \in Counter
      BY <1>1, <1>7, <3>1 DEF Counter
    <3> QED BY <3>2, NoneAssumption
  <2>3. Kept(names)' = Kept(t) /\ Kept(addresses)' = Kept(u)
    BY <1>4, <1>5, <1>6, <1>11, <2>2 DEF Kept
  <2> QED BY <2>1, <2>3 DEF TablesAreBounded
<1>19. SlotsInv'
  <2>1. \A m \in Login : HasSlot(m)' <=> HasSlot(m)
    BY <1>3, <1>12, <1>13 DEF HasSlot
  <2>2. {m \in Login : HasSlot(m)}' = {m \in Login : HasSlot(m)}
    BY <2>1
  <2>3. \A i \in 1..Len(queue) : queue[i] \in Login /\ queue[i] # l
    BY <1>1, <1>3 DEF IInv, SlotsInv, TypeOK
  <2>4. SlotsAreUsed'
    BY <1>3, <2>2 DEF IInv, SlotsInv, SlotsAreUsed
  <2>5. \A i \in 1..Len(queue) : login'[queue[i]].step = "queued"
    BY <1>12, <2>3 DEF IInv, SlotsInv
  <2>6. \A i, j \in 1..Len(queue) : queue[i] = queue[j] => i = j
    BY DEF IInv, SlotsInv
  <2> QED BY <1>3, <2>4, <2>5, <2>6 DEF SlotsInv
<1> QED BY <1>8, <1>15, <1>16, <1>17, <1>18, <1>19 DEF IInv

-----------------------------------------------------------------------------
(* A login that is answered                                                *)

\* The login l is out, and nobody else's name, address or charge changes.
Leaves(l) ==
  /\ login' \in [Login -> [step : Steps, name : Name \cup {None}, address : Address \cup {None}]]
  /\ login'[l] = Out
  /\ \A m \in Login : m # l =>
       /\ login'[m].name = login[m].name /\ login'[m].address = login[m].address
       /\ login'[m].step = login[m].step \/ (login[m].step = "queued" /\ login'[m].step = "checking")
  /\ UNCHANGED <<now, bad, badAt>>

\* Its name's counter is cleared, or out of flight and still worth what the
\* directory holds against the name.
NameSettled(l) ==
  LET n == login[l].name IN
  /\ names' \in [Name -> Counter \cup {None}]
  /\ \A j \in Name : j # n => names'[j] = names[j]
  /\ \/ names'[n] = None /\ bad[n] = 0
     \/ /\ names'[n] # None /\ names'[n].inFlight = 0
        /\ names'[n].attempts <= names[n].attempts /\ bad[n] <= names'[n].attempts
        /\ \/ names'[n].lastAt = now
           \/ names'[n].lastAt = names[n].lastAt /\ ~Charged(l)

\* Its address's counter is out of flight by one, and at most one is taken back.
AddressSettled(l) ==
  LET a == login[l].address IN
  /\ addresses' \in [Address -> Counter \cup {None}]
  /\ \A j \in Address : j # a => addresses'[j] = addresses[j]
  /\ addresses'[a] # None /\ addresses'[a].inFlight = addresses[a].inFlight - 1
  /\ addresses'[a].attempts \in {addresses[a].attempts, addresses[a].attempts - 1}
  /\ addresses'[a].lastAt \in {addresses[a].lastAt, now}

LEMMA FailedSettles ==
  ASSUME IInv, NEW l \in Login, login[l].step \in {"delayed", "wrong", "failed"}, Failed(l)
  PROVE  NameSettled(l) /\ AddressSettled(l)
<1> DEFINE n == login[l].name  a == login[l].address
<1>1. /\ n \in Name /\ a \in Address
      /\ names[n] \in Counter /\ names[n].inFlight = 1
      /\ addresses[a] \in Counter /\ addresses[a].inFlight >= 1
  BY FlyingAt
<1>2. /\ names \in [Name -> Counter \cup {None}] /\ addresses \in [Address -> Counter \cup {None}]
      /\ now \in 0..MaxNow /\ bad[n] \in Nat
  BY <1>1 DEF IInv, TypeOK
<1>3. /\ names' = [names EXCEPT ![n] = [attempts |-> names[n].attempts,
                  inFlight |-> names[n].inFlight - 1, lastAt |-> now]]
      /\ addresses' = [addresses EXCEPT ![a] = [attempts |-> addresses[a].attempts,
                  inFlight |-> addresses[a].inFlight - 1, lastAt |-> now]]
  BY DEF Failed, SettleFailed
<1>4. /\ names'[n] = [attempts |-> names[n].attempts, inFlight |-> 0, lastAt |-> now]
      /\ addresses'[a] = [attempts |-> addresses[a].attempts,
                          inFlight |-> addresses[a].inFlight - 1, lastAt |-> now]
  BY <1>1, <1>2, <1>3 DEF Counter
<1>5. names'[n] \in Counter /\ addresses'[a] \in Counter
  BY <1>1, <1>2, <1>4 DEF Counter
<1>6. bad[n] <= names[n].attempts
  <2>1. bad[n] > 0 => bad[n] <= names[n].attempts
    BY <1>1 DEF IInv, DirectoryInv
  <2> QED BY <1>1, <1>2, <2>1 DEF Counter
<1>7. NameSettled(l)
  <2>1. names' \in [Name -> Counter \cup {None}] /\ \A j \in Name : j # n => names'[j] = names[j]
    BY <1>1, <1>2, <1>3, <1>5
  <2>2. names'[n].attempts = names[n].attempts /\ names[n].attempts \in Nat
    BY <1>1, <1>4 DEF Counter
  <2> QED BY <1>4, <1>5, <1>6, <2>1, <2>2, NoneAssumption DEF NameSettled
<1>8. AddressSettled(l)
  BY <1>1, <1>2, <1>3, <1>4, <1>5, NoneAssumption DEF AddressSettled
<1> QED BY <1>7, <1>8

LEMMA AddressTakenBack ==
  ASSUME IInv, NEW l \in Login, login[l].step # "out",
         addresses' = Settle(addresses, login[l].address, 1)
  PROVE  AddressSettled(l)
<1> DEFINE a == login[l].address
<1>1. /\ a \in Address
      /\ addresses[a] \in Counter /\ addresses[a].inFlight >= 1
      /\ addresses[a].attempts >= addresses[a].inFlight
      /\ addresses \in [Address -> Counter \cup {None}]
  BY FlyingAt DEF IInv, TypeOK
<1>2. addresses' = [addresses EXCEPT ![a] = [attempts |-> addresses[a].attempts - 1,
                  inFlight |-> addresses[a].inFlight - 1, lastAt |-> addresses[a].lastAt]]
  BY DEF Settle
<1>3. addresses'[a] = [attempts |-> addresses[a].attempts - 1,
                       inFlight |-> addresses[a].inFlight - 1, lastAt |-> addresses[a].lastAt]
  BY <1>1, <1>2 DEF Counter
<1>4. addresses'[a] \in Counter
  BY <1>1, <1>3 DEF Counter
<1> QED BY <1>1, <1>2, <1>3, <1>4, NoneAssumption DEF AddressSettled

LEMMA SucceededSettles ==
  ASSUME IInv, NEW l \in Login, login[l].step = "right", Succeeded(l)
  PROVE  NameSettled(l) /\ AddressSettled(l)
<1>1. login[l].name \in Name /\ names \in [Name -> Counter \cup {None}]
  BY FlyingAt DEF IInv, TypeOK
<1>2. bad[login[l].name] = 0
  BY DEF IInv, DirectoryInv
<1>3. names' = [names EXCEPT ![login[l].name] = None]
  BY DEF Succeeded
<1>4. NameSettled(l)
  BY <1>1, <1>2, <1>3 DEF NameSettled
<1> QED BY <1>4, AddressTakenBack DEF Succeeded

LEMMA AbandonedSettles ==
  ASSUME IInv, NEW l \in Login, login[l].step \in {"delayed", "unreachable"}, Abandoned(l)
  PROVE  NameSettled(l) /\ AddressSettled(l)
<1> DEFINE n == login[l].name
<1>1. /\ n \in Name /\ names \in [Name -> Counter \cup {None}] /\ bad[n] \in Nat
      /\ names[n] \in Counter /\ names[n].inFlight = 1
  BY FlyingAt DEF IInv, TypeOK
<1>2. names' = [names EXCEPT ![n] = [attempts |-> names[n].attempts - 1,
                  inFlight |-> names[n].inFlight - 1, lastAt |-> names[n].lastAt]]
  BY DEF Abandoned, Settle
<1>3. names'[n] = [attempts |-> names[n].attempts - 1, inFlight |-> 0, lastAt |-> names[n].lastAt]
  BY <1>1, <1>2 DEF Counter
<1>4. bad[n] < names[n].attempts /\ ~Charged(l)
  BY DEF IInv, DirectoryInv, Charged
<1>5. names[n].attempts \in Nat /\ bad[n] <= names[n].attempts - 1
  BY <1>1, <1>4 DEF Counter
<1>6. names'[n] \in Counter /\ names'[n] # None
  BY <1>1, <1>3, <1>5, NoneAssumption DEF Counter
<1>7. /\ names'[n].attempts <= names[n].attempts /\ bad[n] <= names'[n].attempts
      /\ names'[n].inFlight = 0 /\ names'[n].lastAt = names[n].lastAt
  BY <1>3, <1>5
<1>8. names' \in [Name -> Counter \cup {None}] /\ \A j \in Name : j # n => names'[j] = names[j]
  BY <1>1, <1>2, <1>6
<1>9. NameSettled(l)
  BY <1>4, <1>6, <1>7, <1>8 DEF NameSettled
<1> QED BY <1>9, AddressTakenBack DEF Abandoned

\* An answered login leaves all but the gate as it must be.
LEMMA LeavingKeeps ==
  ASSUME IInv, NEW l \in Login, login[l].step # "out",
         Leaves(l), NameSettled(l), AddressSettled(l)
  PROVE  NamesInv' /\ DirectoryInv' /\ AddressesInv' /\ TablesAreBounded'
<1>0. PICK n \in Name, a \in Address : n = login[l].name /\ a = login[l].address
  BY FlyingAt
<1>1. /\ n = login[l].name /\ a = login[l].address
      /\ names[n] \in Counter /\ names[n].inFlight = 1
      /\ addresses[a] \in Counter /\ addresses[a] # None /\ addresses[a].inFlight >= 1
      /\ addresses[a].attempts >= addresses[a].inFlight
  BY <1>0, FlyingAt
<1>2. /\ UNCHANGED <<now, bad, badAt>> /\ login'[l] = Out /\ login'[l].step = "out"
      /\ \A m \in Login : m # l =>
           /\ login'[m].name = login[m].name /\ login'[m].address = login[m].address
           /\ login'[m].step = "out" <=> login[m].step = "out"
           /\ Charged(m)' <=> Charged(m)
           /\ login'[m].step = "right" <=> login[m].step = "right"
  BY DEF Leaves, Charged, Out
<1>3. /\ \A j \in Name : j # n => names'[j] = names[j]
      /\ \/ names'[n] = None /\ bad[n] = 0
         \/ /\ names'[n] # None /\ names'[n] \in Counter /\ names'[n].inFlight = 0
            /\ names'[n].attempts <= names[n].attempts /\ bad[n] <= names'[n].attempts
            /\ \/ names'[n].lastAt = now
               \/ names'[n].lastAt = names[n].lastAt /\ ~Charged(l)
  BY <1>1 DEF NameSettled
<1>4. OfName(n) = {l}
  BY <1>1 DEF OfName, IInv, NamesInv
<1>5. \A j \in Name : j # n => OfName(j)' = OfName(j)
  BY <1>1, <1>2 DEF OfName, Out
<1>6. \A m \in Login : login'[m].step # "out" =>
        m # l /\ login[m].step # "out" /\ login[m].name \in Name \ {n} /\ m \in OfName(login[m].name)
  BY <1>2, <1>4 DEF Out, OfName, IInv, TypeOK
<1>7. OfName(n)' = {}
  BY <1>2, <1>6 DEF OfName
<1>8. /\ now \in Nat /\ names \in [Name -> Counter \cup {None}] /\ PerName \in Nat
      /\ names[n].attempts \in Nat /\ names[n].attempts <= PerName /\ names[n].lastAt \in 0..MaxNow
      /\ names[n].lastAt <= now
      /\ \A j \in Name : bad[j] \in Nat /\ badAt[j] \in 0..MaxNow
  BY <1>1, BoundsAssumption, NoneAssumption DEF IInv, TypeOK, NamesInv, Counter
<1>9. NamesInv'
  <2>1. \A m \in Login : login'[m].step # "out" =>
          LET c == names'[login'[m].name] IN c # None /\ c.inFlight = 1 /\ c.attempts >= 1
    BY <1>2, <1>3, <1>6 DEF IInv, NamesInv
  <2>2. \A j \in Name : \A m, k \in OfName(j)' : m = k
    <3> SUFFICES ASSUME NEW j \in Name PROVE \A m, k \in OfName(j)' : m = k
      OBVIOUS
    <3>1. \A m, k \in OfName(j) : m = k
      BY DEF IInv, NamesInv
    <3> QED BY <1>5, <1>7, <3>1
  <2>3. \A j \in Name : names'[j] # None =>
          /\ names'[j].attempts <= PerName /\ names'[j].lastAt <= now
          /\ names'[j].inFlight = 0 \/ \E m \in OfName(j)' : names'[j].inFlight = 1
    <3> SUFFICES ASSUME NEW j \in Name, names'[j] # None
                 PROVE  /\ names'[j].attempts <= PerName /\ names'[j].lastAt <= now
                        /\ names'[j].inFlight = 0 \/ \E m \in OfName(j)' : names'[j].inFlight = 1
      OBVIOUS
    <3>1. CASE j = n
      <4>1. names'[n].attempts \in Nat
        BY <1>3, <3>1 DEF Counter
      <4> QED BY <1>3, <1>8, <3>1, <4>1
    <3>2. CASE j # n
      BY <1>3, <1>5, <3>2 DEF IInv, NamesInv
    <3> QED BY <3>1, <3>2
  <2> QED BY <1>2, <2>1, <2>2, <2>3 DEF NamesInv
<1>10. DirectoryInv'
  <2>1. \A j \in Name : bad[j] > 0 =>
          /\ names'[j] # None /\ bad[j] <= names'[j].attempts
          /\ badAt[j] <= now /\ now - badAt[j] < Window
          /\ badAt[j] <= names'[j].lastAt \/ \E m \in OfName(j)' : Charged(m)'
    <3> SUFFICES ASSUME NEW j \in Name, bad[j] > 0
                 PROVE  /\ names'[j] # None /\ bad[j] <= names'[j].attempts
                        /\ badAt[j] <= now /\ now - badAt[j] < Window
                        /\ badAt[j] <= names'[j].lastAt \/ \E m \in OfName(j)' : Charged(m)'
      OBVIOUS
    <3>0. /\ badAt[j] <= now /\ now - badAt[j] < Window
          /\ badAt[j] <= names[j].lastAt \/ \E m \in OfName(j) : Charged(m)
      BY DEF IInv, DirectoryInv
    <3>1. CASE j = n
      BY <1>3, <1>4, <1>8, <3>0, <3>1
    <3>2. CASE j # n
      <4>1. \A m \in OfName(j) : m # l
        BY <1>4, <3>2 DEF OfName
      <4>2. (\E m \in OfName(j) : Charged(m)) => \E m \in OfName(j)' : Charged(m)'
        BY <1>2, <1>5, <3>2, <4>1 DEF OfName
      <4> QED BY <1>3, <3>0, <3>2, <4>2 DEF IInv, DirectoryInv
    <3> QED BY <3>1, <3>2
  <2>2. \A m \in Login : login'[m].step # "out" /\ ~Charged(m)' =>
          bad[login'[m].name] < names'[login'[m].name].attempts
    BY <1>2, <1>3, <1>6 DEF IInv, DirectoryInv
  <2>3. \A m \in Login : login'[m].step = "right" => bad[login'[m].name] = 0
    BY <1>2 DEF Out, IInv, DirectoryInv
  <2> QED BY <1>2, <2>1, <2>2, <2>3 DEF DirectoryInv
<1>11. AddressesInv'
  <2> SUFFICES ASSUME NEW j \in Address
               PROVE  /\ Cardinality(OfAddress(j)') = Flying(addresses'[j])
                      /\ addresses'[j] # None => addresses'[j].inFlight <= addresses'[j].attempts
    BY DEF AddressesInv, Flying
  <2>1. CASE j # a
    <3>1. OfAddress(j)' = OfAddress(j)
      BY <1>1, <1>2, <2>1 DEF OfAddress, Out
    <3>2. addresses'[j] = addresses[j]
      BY <1>1, <2>1 DEF AddressSettled
    <3> QED BY <3>1, <3>2 DEF IInv, AddressesInv, Flying
  <2>2. CASE j = a
    <3>1. OfAddress(a)' = OfAddress(a) \ {l} /\ l \in OfAddress(a)
      BY <1>1, <1>2 DEF OfAddress, Out
    <3>2. IsFiniteSet(OfAddress(a))
      BY FinitenessAssumption, FS_Subset DEF OfAddress
    <3>3. Cardinality(OfAddress(a)') = Cardinality(OfAddress(a)) - 1
      BY <3>1, <3>2, FS_RemoveElement
    <3>4. Cardinality(OfAddress(a)) = addresses[a].inFlight
      BY <1>1 DEF IInv, AddressesInv, Flying
    <3>5. /\ addresses'[a] # None /\ addresses'[a].inFlight = addresses[a].inFlight - 1
          /\ addresses'[a].attempts \in {addresses[a].attempts, addresses[a].attempts - 1}
      BY <1>1 DEF AddressSettled
    <3>6. addresses[a].inFlight \in Nat /\ addresses[a].attempts \in Nat
      BY <1>1 DEF Counter
    <3> QED BY <1>1, <2>2, <3>3, <3>4, <3>5, <3>6 DEF Flying
  <2> QED BY <2>1, <2>2
<1>12. TablesAreBounded'
  <2>1. /\ names \in [Name -> Counter \cup {None}] /\ addresses \in [Address -> Counter \cup {None}]
        /\ names' \in [Name -> Counter \cup {None}] /\ addresses' \in [Address -> Counter \cup {None}]
        /\ TablesAreBounded
    BY DEF IInv, TypeOK, NameSettled, AddressSettled
  <2>2. names[n] # None
    BY <1>1, NoneAssumption
  <2>3. Kept(names)' \subseteq Kept(names) /\ Kept(names) \subseteq Name
    BY <1>3, <2>1, <2>2 DEF Kept
  <2>4. Kept(addresses)' = Kept(addresses)
    BY <1>1, <2>1 DEF Kept, AddressSettled
  <2>5. IsFiniteSet(Kept(names)) /\ IsFiniteSet(Kept(names)')
    BY <2>3, FinitenessAssumption, FS_Subset
  <2>6. /\ Cardinality(Kept(names)') <= Cardinality(Kept(names))
        /\ Cardinality(Kept(names)') \in Nat /\ Cardinality(Kept(names)) \in Nat
    BY <2>3, <2>5, FS_Subset, FS_CardinalityType
  <2> QED BY <2>1, <2>4, <2>6, BoundsAssumption DEF TablesAreBounded
<1> QED BY <1>9, <1>10, <1>11, <1>12

-----------------------------------------------------------------------------
(* The gate                                                                *)

Slots == {l \in Login : HasSlot(l)}

LEMMA SlotsAreFinite == IsFiniteSet(Slots) /\ Cardinality(Slots) \in Nat
<1>1. IsFiniteSet(Slots)
  BY FinitenessAssumption, FS_Subset DEF Slots
<1> QED BY <1>1, FS_CardinalityType

\* A login that never came to the gate leaves it as it is.
LEMMA OutsideTheGate ==
  ASSUME IInv, NEW l \in Login, login[l].step = "delayed",
         login' = [login EXCEPT ![l] = Out], UNCHANGED <<running, queue>>
  PROVE  SlotsInv'
<1>1. login \in [Login -> [step : Steps, name : Name \cup {None}, address : Address \cup {None}]]
  BY DEF IInv, TypeOK
<1>2. login'[l].step = "out" /\ \A m \in Login : m # l => login'[m] = login[m]
  BY <1>1 DEF Out
<1>3. \A m \in Login : HasSlot(m)' <=> HasSlot(m)
  BY <1>2 DEF HasSlot
<1>4. Slots' = Slots
  BY <1>3 DEF Slots
<1>5. SlotsAreUsed'
  BY <1>4 DEF IInv, SlotsInv, SlotsAreUsed, Slots
<1>6. \A i \in 1..Len(queue) : queue[i] \in Login /\ queue[i] # l
  BY DEF IInv, SlotsInv, TypeOK
<1> QED BY <1>2, <1>5, <1>6 DEF IInv, SlotsInv

LEMMA TurnedAwayKeeps ==
  ASSUME IInv, NEW l \in Login, login[l].step = "delayed", Failed(l) \/ Abandoned(l),
         login' = [login EXCEPT ![l] = Out], UNCHANGED <<gate, now, directory>>
  PROVE  IInv'
<1>1. login \in [Login -> [step : Steps, name : Name \cup {None}, address : Address \cup {None}]]
  BY DEF IInv, TypeOK
<1>2. NameSettled(l) /\ AddressSettled(l)
  BY FailedSettles, AbandonedSettles
<1>3. Out \in [step : Steps, name : Name \cup {None}, address : Address \cup {None}]
  BY DEF Out, Steps
<1>4. Leaves(l)
  BY <1>1, <1>3 DEF Leaves, directory
<1>5. TypeOK'
  <2>1. \A m \in Login : IF login'[m].step = "out" THEN login'[m] = Out
                         ELSE login'[m].name \in Name /\ login'[m].address \in Address
    BY <1>1 DEF IInv, TypeOK, Out
  <2>2. UNCHANGED <<running, queue, now, bad, badAt>>
    BY DEF gate, directory
  <2> QED BY <1>2, <1>4, <2>1, <2>2 DEF IInv, TypeOK, Leaves, NameSettled, AddressSettled
<1>6. SlotsInv'
  BY OutsideTheGate DEF gate
<1> QED BY <1>2, <1>4, <1>5, <1>6, LeavingKeeps DEF IInv

\* A login that goes on keeps its counters.
LEMMA GoingOn ==
  ASSUME IInv, NEW l \in Login, login[l].step # "out", NEW step \in Steps \ {"out"},
         Moves(l, step), UNCHANGED <<names, addresses, now>>
  PROVE  /\ login' \in [Login -> [step : Steps, name : Name \cup {None}, address : Address \cup {None}]]
         /\ \A m \in Login : IF login'[m].step = "out" THEN login'[m] = Out
                             ELSE login'[m].name \in Name /\ login'[m].address \in Address
         /\ \A m \in Login : /\ login'[m].name = login[m].name
                             /\ login'[m].address = login[m].address
                             /\ m # l => login'[m].step = login[m].step
         /\ login'[l].step = step
         /\ \A n \in Name : OfName(n)' = OfName(n)
         /\ NamesInv' /\ AddressesInv' /\ TablesAreBounded'
<1>1. login \in [Login -> [step : Steps, name : Name \cup {None}, address : Address \cup {None}]]
  BY DEF IInv, TypeOK
<1>2. login' = [login EXCEPT ![l] = [login[l] EXCEPT !.step = step]]
  BY DEF Moves
<1>3. [login[l] EXCEPT !.step = step] =
        [step |-> step, name |-> login[l].name, address |-> login[l].address]
  BY <1>1
<1>4. /\ \A m \in Login : m # l => login'[m] = login[m]
      /\ login'[l] = [step |-> step, name |-> login[l].name, address |-> login[l].address]
      /\ login' \in [Login -> [step : Steps, name : Name \cup {None}, address : Address \cup {None}]]
  BY <1>1, <1>2, <1>3
<1>5. /\ \A m \in Login : /\ login'[m].name = login[m].name
                          /\ login'[m].address = login[m].address
                          /\ m # l => login'[m].step = login[m].step
      /\ login'[l].step = step
  BY <1>4
<1>6. \A m \in Login : IF login'[m].step = "out" THEN login'[m] = Out
                       ELSE login'[m].name \in Name /\ login'[m].address \in Address
  <2> SUFFICES ASSUME NEW m \in Login
               PROVE  IF login'[m].step = "out" THEN login'[m] = Out
                      ELSE login'[m].name \in Name /\ login'[m].address \in Address
    OBVIOUS
  <2>1. IF login[m].step = "out" THEN login[m] = Out
        ELSE login[m].name \in Name /\ login[m].address \in Address
    BY DEF IInv, TypeOK
  <2>2. CASE m = l
    BY <1>4, <2>1, <2>2
  <2>3. CASE m # l
    BY <1>4, <2>1, <2>3
  <2> QED BY <2>2, <2>3
<1>7. /\ \A n \in Name : OfName(n)' = OfName(n)
      /\ \A a \in Address : OfAddress(a)' = OfAddress(a)
  BY <1>5 DEF OfName, OfAddress
<1>8. NamesInv'
  <2>1. \A m \in Login : login'[m].step # "out" =>
          LET c == names[login'[m].name] IN c # None /\ c.inFlight = 1 /\ c.attempts >= 1
    BY <1>5 DEF IInv, NamesInv
  <2>2. \A n \in Name : \A m, k \in OfName(n)' : m = k
    BY <1>7 DEF IInv, NamesInv
  <2>3. \A n \in Name : names[n] # None =>
          /\ names[n].attempts <= PerName /\ names[n].lastAt <= now
          /\ names[n].inFlight = 0 \/ \E m \in OfName(n)' : names[n].inFlight = 1
    BY <1>7 DEF IInv, NamesInv
  <2> QED BY <2>1, <2>2, <2>3 DEF NamesInv
<1>9. AddressesInv'
  BY <1>7 DEF IInv, AddressesInv, Flying
<1>10. TablesAreBounded'
  BY DEF IInv, TablesAreBounded, Kept
<1> QED BY <1>4, <1>5, <1>6, <1>7, <1>8, <1>9, <1>10

LEMMA EnterKeeps ==
  ASSUME IInv, NEW l \in Login, Enter(l)
  PROVE  IInv'
<1>1. PICK step \in {"checking", "queued"} :
        /\ Moves(l, step)
        /\ \/ step = "checking" /\ running < Concurrent /\ running' = running + 1 /\ queue' = queue
           \/ /\ step = "queued" /\ running >= Concurrent /\ Len(queue) < MaxQueue
              /\ queue' = Append(queue, l) /\ running' = running
  BY DEF Enter
<1>2. login[l].step = "delayed" /\ UNCHANGED <<names, addresses, now, bad, badAt>>
  BY DEF Enter, directory
<1>3. step \in Steps \ {"out"}
  BY DEF Steps
<1>4. /\ login' \in [Login -> [step : Steps, name : Name \cup {None}, address : Address \cup {None}]]
      /\ \A m \in Login : IF login'[m].step = "out" THEN login'[m] = Out
                          ELSE login'[m].name \in Name /\ login'[m].address \in Address
      /\ \A m \in Login : /\ login'[m].name = login[m].name
                          /\ login'[m].address = login[m].address
                          /\ m # l => login'[m].step = login[m].step
      /\ login'[l].step = step
      /\ \A n \in Name : OfName(n)' = OfName(n)
      /\ NamesInv' /\ AddressesInv' /\ TablesAreBounded'
  BY <1>1, <1>2, <1>3, GoingOn
<1>5. /\ running \in Nat /\ queue \in Seq(Login) /\ Concurrent \in Nat /\ MaxQueue \in Nat
  BY BoundsAssumption DEF IInv, TypeOK
<1>6. TypeOK'
  <2>1. Append(queue, l) \in Seq(Login) /\ running + 1 \in Nat
    BY <1>5
  <2>2. running' \in Nat /\ queue' \in Seq(Login)
    BY <1>1, <1>5, <2>1
  <2> QED BY <1>2, <1>4, <2>2 DEF IInv, TypeOK
<1>7. DirectoryInv'
  <2>1. \A m \in Login : Charged(m)' <=> Charged(m)
    BY <1>1, <1>2, <1>4 DEF Charged
  <2>2. \A n \in Name : bad[n] > 0 =>
          /\ names[n] # None /\ bad[n] <= names[n].attempts
          /\ badAt[n] <= now /\ now - badAt[n] < Window
          /\ badAt[n] <= names[n].lastAt \/ \E m \in OfName(n)' : Charged(m)'
    <3> SUFFICES ASSUME NEW n \in Name, bad[n] > 0
                 PROVE  /\ names[n] # None /\ bad[n] <= names[n].attempts
                        /\ badAt[n] <= now /\ now - badAt[n] < Window
                        /\ badAt[n] <= names[n].lastAt \/ \E m \in OfName(n)' : Charged(m)'
      OBVIOUS
    <3>1. (\E m \in OfName(n) : Charged(m)) => \E m \in OfName(n)' : Charged(m)'
      BY <1>4, <2>1 DEF OfName
    <3> QED BY <3>1 DEF IInv, DirectoryInv
  <2>3. \A m \in Login : login'[m].step # "out" /\ ~Charged(m)' =>
          bad[login'[m].name] < names[login'[m].name].attempts
    BY <1>2, <1>4, <2>1 DEF IInv, DirectoryInv
  <2>4. \A m \in Login : login'[m].step = "right" => bad[login'[m].name] = 0
    BY <1>1, <1>4 DEF IInv, DirectoryInv
  <2> QED BY <1>2, <2>2, <2>3, <2>4 DEF DirectoryInv
<1>8. \A i \in 1..Len(queue) : queue[i] \in Login /\ queue[i] # l
  BY <1>2, <1>5 DEF IInv, SlotsInv
<1>9. CASE step = "checking" /\ running < Concurrent /\ running' = running + 1 /\ queue' = queue
  <2>1. Slots' = Slots \cup {l} /\ l \notin Slots
    BY <1>2, <1>4, <1>9 DEF Slots, HasSlot
  <2>2. Cardinality(Slots') = Cardinality(Slots) + 1
    BY <2>1, SlotsAreFinite, FS_AddElement
  <2>3. SlotsAreUsed'
    <3>1. /\ running = Cardinality(Slots) /\ queue = <<>> /\ Len(queue) <= MaxQueue
      BY <1>5, <1>9 DEF IInv, SlotsInv, SlotsAreUsed, Slots
    <3>2. running' = Cardinality(Slots') /\ running' <= Concurrent
      BY <1>5, <1>9, <2>2, <3>1
    <3>3. queue' = <<>> /\ Len(queue') <= MaxQueue
      BY <1>9, <3>1
    <3> QED BY <3>2, <3>3 DEF SlotsAreUsed, Slots
  <2>4. \A i \in 1..Len(queue) : login'[queue[i]].step = "queued"
    BY <1>4, <1>8 DEF IInv, SlotsInv
  <2>5. SlotsInv'
    BY <1>9, <2>3, <2>4 DEF IInv, SlotsInv
  <2> QED BY <1>4, <1>6, <1>7, <2>5 DEF IInv
<1>10. CASE /\ step = "queued" /\ running >= Concurrent /\ Len(queue) < MaxQueue
            /\ queue' = Append(queue, l) /\ running' = running
  <2>1. \A m \in Login : HasSlot(m)' <=> HasSlot(m)
    BY <1>2, <1>4, <1>10 DEF HasSlot
  <2>2. Slots' = Slots
    BY <2>1 DEF Slots
  <2>3. /\ Len(queue') = Len(queue) + 1 /\ Len(queue) \in Nat
        /\ \A i \in 1..Len(queue) : queue'[i] = queue[i]
        /\ queue'[Len(queue) + 1] = l
    BY <1>5, <1>10
  <2>4. SlotsAreUsed'
    <3>1. running = Cardinality(Slots) /\ running <= Concurrent
      BY DEF IInv, SlotsInv, SlotsAreUsed, Slots
    <3>2. running' = Cardinality(Slots') /\ running' = Concurrent
      BY <1>5, <1>10, <2>2, <3>1
    <3>3. Len(queue') <= MaxQueue
      BY <1>5, <1>10, <2>3
    <3>4. running' = Cardinality({m \in Login : HasSlot(m)}')
      BY <3>2 DEF Slots
    <3> QED BY <1>5, <3>2, <3>3, <3>4 DEF SlotsAreUsed
  <2>5. \A i \in 1..Len(queue') : login'[queue'[i]].step = "queued"
    <3> SUFFICES ASSUME NEW i \in 1..Len(queue') PROVE login'[queue'[i]].step = "queued"
      OBVIOUS
    <3>1. CASE i = Len(queue) + 1
      BY <1>4, <1>10, <2>3, <3>1
    <3>2. CASE i \in 1..Len(queue)
      BY <1>4, <1>8, <2>3, <3>2 DEF IInv, SlotsInv
    <3> QED BY <2>3, <3>1, <3>2
  <2>6. \A i, j \in 1..Len(queue') : queue'[i] = queue'[j] => i = j
    <3> SUFFICES ASSUME NEW i \in 1..Len(queue'), NEW j \in 1..Len(queue'), queue'[i] = queue'[j]
                 PROVE  i = j
      OBVIOUS
    <3>1. CASE i \in 1..Len(queue) /\ j \in 1..Len(queue)
      BY <2>3, <3>1 DEF IInv, SlotsInv
    <3> QED BY <1>8, <2>3, <3>1
  <2>7. SlotsInv'
    BY <2>4, <2>5, <2>6 DEF SlotsInv
  <2> QED BY <1>4, <1>6, <1>7, <2>7 DEF IInv
<1> QED BY <1>1, <1>9, <1>10

-----------------------------------------------------------------------------
(* The check, its answer, and time                                         *)

LEMMA CheckKeeps ==
  ASSUME IInv, NEW l \in Login, Check(l)
  PROVE  IInv'
<1>0. PICK n \in Name : n = login[l].name
  BY FlyingAt DEF Check
<1>1. PICK step \in {"wrong", "right", "failed", "unreachable"} :
        /\ Moves(l, step)
        /\ \/ step \in {"wrong", "failed"} /\ Wrong(l)
           \/ step \in {"right", "failed"} /\ Right(l)
           \/ step \in {"failed", "unreachable"} /\ UNCHANGED <<bad, badAt>>
  <2>1. CASE Moves(l, "wrong") /\ Wrong(l)
    BY <2>1
  <2>2. CASE Moves(l, "right") /\ Right(l)
    BY <2>2
  <2>3. CASE Moves(l, "failed") /\ (Wrong(l) \/ Right(l) \/ UNCHANGED directory)
    BY <2>3 DEF directory
  <2>4. CASE Moves(l, "unreachable") /\ UNCHANGED directory
    BY <2>4 DEF directory
  <2> QED BY <2>1, <2>2, <2>3, <2>4 DEF Check
<1>2. login[l].step = "checking" /\ UNCHANGED <<names, addresses, running, queue, now>>
  BY DEF Check, gate
<1>3. step \in Steps \ {"out"}
  BY DEF Steps
<1>4. /\ login' \in [Login -> [step : Steps, name : Name \cup {None}, address : Address \cup {None}]]
      /\ \A m \in Login : IF login'[m].step = "out" THEN login'[m] = Out
                          ELSE login'[m].name \in Name /\ login'[m].address \in Address
      /\ \A m \in Login : /\ login'[m].name = login[m].name
                          /\ login'[m].address = login[m].address
                          /\ m # l => login'[m].step = login[m].step
      /\ login'[l].step = step
      /\ \A j \in Name : OfName(j)' = OfName(j)
      /\ NamesInv' /\ AddressesInv' /\ TablesAreBounded'
  BY <1>1, <1>2, <1>3, GoingOn
<1>5. /\ now \in 0..MaxNow /\ MaxNow \in Nat /\ Window \in Nat \ {0}
      /\ bad \in [Name -> Nat] /\ badAt \in [Name -> 0..MaxNow]
  BY BoundsAssumption DEF IInv, TypeOK
\* Charged only now, it is counted already.
<1>6. /\ names[n] # None /\ names[n].attempts \in Nat /\ bad[n] < names[n].attempts
      /\ OfName(n) = {l}
  <2>1. names[n] # None /\ names[n] \in Counter
    BY <1>0, <1>2 DEF IInv, NamesInv, TypeOK
  <2>2. bad[n] < names[n].attempts
    BY <1>0, <1>2 DEF IInv, DirectoryInv, Charged
  <2>3. OfName(n) = {l}
    BY <1>0, <1>2 DEF IInv, NamesInv, OfName
  <2> QED BY <2>1, <2>2, <2>3 DEF Counter
<1>7. /\ bad' \in [Name -> Nat] /\ badAt' \in [Name -> 0..MaxNow]
      /\ \A j \in Name : j # n => bad'[j] = bad[j] /\ badAt'[j] = badAt[j]
      /\ \/ step \in {"wrong", "failed"} /\ bad'[n] = bad[n] + 1 /\ badAt'[n] = now
         \/ bad'[n] = 0 /\ badAt'[n] = 0
         \/ step \in {"failed", "unreachable"} /\ bad'[n] = bad[n] /\ badAt'[n] = badAt[n]
  <2>1. CASE step \in {"wrong", "failed"} /\ Wrong(l)
    <3>1. bad' = [bad EXCEPT ![n] = bad[n] + 1] /\ badAt' = [badAt EXCEPT ![n] = now]
      BY <1>0, <2>1 DEF Wrong
    <3> QED BY <1>5, <2>1, <3>1
  <2>2. CASE Right(l)
    <3>1. bad' = [bad EXCEPT ![n] = 0] /\ badAt' = [badAt EXCEPT ![n] = 0]
      BY <1>0, <2>2 DEF Right
    <3>2. 0 \in 0..MaxNow
      BY <1>5
    <3> QED BY <1>5, <3>1, <3>2
  <2>3. CASE step \in {"failed", "unreachable"} /\ UNCHANGED <<bad, badAt>>
    BY <1>5, <2>3
  <2> QED BY <1>1, <2>1, <2>2, <2>3
<1>8. step = "right" => bad'[n] = 0
  <2>1. step = "right" => Right(l)
    BY <1>1
  <2>2. Right(l) => bad'[n] = 0
    BY <1>0, <1>5 DEF Right
  <2> QED BY <2>1, <2>2
<1>9. TypeOK'
  BY <1>2, <1>4, <1>7 DEF IInv, TypeOK
<1>10. DirectoryInv'
  <2>1. \A m \in Login : m # l => (Charged(m)' <=> Charged(m))
    BY <1>4 DEF Charged
  <2>2. Charged(l)' <=> step \in {"wrong", "failed"}
    BY <1>4 DEF Charged
  <2>3. \A j \in Name : bad'[j] > 0 =>
          /\ names[j] # None /\ bad'[j] <= names[j].attempts
          /\ badAt'[j] <= now /\ now - badAt'[j] < Window
          /\ badAt'[j] <= names[j].lastAt \/ \E m \in OfName(j)' : Charged(m)'
    <3> SUFFICES ASSUME NEW j \in Name, bad'[j] > 0
                 PROVE  /\ names[j] # None /\ bad'[j] <= names[j].attempts
                        /\ badAt'[j] <= now /\ now - badAt'[j] < Window
                        /\ badAt'[j] <= names[j].lastAt \/ \E m \in OfName(j)' : Charged(m)'
      OBVIOUS
    <3>1. CASE j = n /\ bad'[n] = bad[n] + 1 /\ badAt'[n] = now /\ step \in {"wrong", "failed"}
      <4>1. l \in OfName(j)' /\ Charged(l)'
        BY <1>4, <1>6, <2>2, <3>1
      <4>2. bad[n] + 1 <= names[n].attempts /\ now <= now /\ now - now < Window
        BY <1>5, <1>6
      <4> QED BY <1>6, <3>1, <4>1, <4>2
    <3>2. CASE j = n /\ bad'[n] = bad[n] /\ badAt'[n] = badAt[n]
      <4>1. ~Charged(l)
        BY <1>2 DEF Charged
      <4>2. ~\E m \in OfName(n) : Charged(m)
        BY <1>6, <4>1
      <4> QED BY <3>2, <4>2 DEF IInv, DirectoryInv
    <3>3. CASE j # n
      <4>1. \A m \in OfName(j) : m # l
        BY <1>0, <3>3 DEF OfName
      <4>2. (\E m \in OfName(j) : Charged(m)) => \E m \in OfName(j)' : Charged(m)'
        BY <1>4, <2>1, <4>1 DEF OfName
      <4> QED BY <1>7, <3>3, <4>2 DEF IInv, DirectoryInv
    <3>4. ~(0 > 0)
      OBVIOUS
    <3> QED BY <1>7, <3>1, <3>2, <3>3, <3>4
  <2>4. \A m \in Login : login'[m].step # "out" /\ ~Charged(m)' =>
          bad'[login'[m].name] < names[login'[m].name].attempts
    <3> SUFFICES ASSUME NEW m \in Login, login'[m].step # "out", ~Charged(m)'
                 PROVE  bad'[login[m].name] < names[login[m].name].attempts
      BY <1>4
    <3>1. CASE m = l
      <4>1. bad'[n] = 0 \/ bad'[n] = bad[n]
        BY <1>7, <2>2, <3>1
      <4>2. bad[n] \in Nat
        BY <1>5
      <4> QED BY <1>0, <1>6, <3>1, <4>1, <4>2
    <3>2. CASE m # l
      <4>1. login[m].step # "out" /\ ~Charged(m)
        BY <1>4, <2>1, <3>2
      <4>2. login[m].name \in Name /\ login[m].name # n
        BY <1>6, <3>2, <4>1 DEF OfName, IInv, TypeOK
      <4> QED BY <1>7, <4>1, <4>2 DEF IInv, DirectoryInv
    <3> QED BY <3>1, <3>2
  <2>5. \A m \in Login : login'[m].step = "right" => bad'[login'[m].name] = 0
    <3> SUFFICES ASSUME NEW m \in Login, login'[m].step = "right"
                 PROVE  bad'[login[m].name] = 0
      BY <1>4
    <3>1. CASE m = l
      BY <1>0, <1>4, <1>8, <3>1
    <3>2. CASE m # l
      <4>1. login[m].step = "right"
        BY <1>4, <3>2
      <4>2. login[m].name \in Name /\ login[m].name # n
        BY <1>6, <3>2, <4>1 DEF OfName, IInv, TypeOK
      <4> QED BY <1>7, <4>1, <4>2 DEF IInv, DirectoryInv
    <3> QED BY <3>1, <3>2
  <2> QED BY <1>2, <2>3, <2>4, <2>5 DEF DirectoryInv
<1>11. SlotsInv'
  <2>1. \A m \in Login : HasSlot(m)' <=> HasSlot(m)
    BY <1>2, <1>4 DEF HasSlot
  <2>2. Slots' = Slots
    BY <2>1 DEF Slots
  <2>3. SlotsAreUsed'
    BY <1>2, <2>2 DEF IInv, SlotsInv, SlotsAreUsed, Slots
  <2>4. \A i \in 1..Len(queue) : login'[queue[i]].step = "queued"
    <3>1. \A i \in 1..Len(queue) : queue[i] \in Login /\ login[queue[i]].step = "queued"
      BY DEF IInv, SlotsInv, TypeOK
    <3> QED BY <1>2, <1>4, <3>1
  <2> QED BY <1>2, <2>3, <2>4 DEF IInv, SlotsInv
<1> QED BY <1>4, <1>9, <1>10, <1>11 DEF IInv

LEMMA AnswerKeeps ==
  ASSUME IInv, NEW l \in Login, Answer(l)
  PROVE  IInv'
<1>1. /\ login \in [Login -> [step : Steps, name : Name \cup {None}, address : Address \cup {None}]]
      /\ running \in Nat /\ queue \in Seq(Login) /\ Concurrent \in Nat /\ MaxQueue \in Nat
  BY BoundsAssumption DEF IInv, TypeOK
<1>2. HasSlot(l) /\ login[l].step \notin {"out", "delayed", "queued", "checking"}
  BY DEF Answer, HasSlot
<1>3. NameSettled(l) /\ AddressSettled(l)
  BY FailedSettles, SucceededSettles, AbandonedSettles DEF Answer
<1>4. /\ login' = [m \in Login |->
            IF m = l THEN Out
            ELSE IF queue # queue' /\ m = Head(queue) THEN [login[m] EXCEPT !.step = "checking"]
            ELSE login[m]]
      /\ UNCHANGED <<now, bad, badAt>>
  BY DEF Answer, directory
<1>5. Out \in [step : Steps, name : Name \cup {None}, address : Address \cup {None}]
  BY DEF Out, Steps
<1>6. \A m \in Login : [login[m] EXCEPT !.step = "checking"] =
         [step |-> "checking", name |-> login[m].name, address |-> login[m].address]
  BY <1>1
\* Whoever the slot goes to waited for it, and waits no more.
<1>7. CASE queue = <<>> /\ running' = running - 1 /\ queue' = queue
  <2>1. \A m \in Login : login'[m] = IF m = l THEN Out ELSE login[m]
    BY <1>4, <1>7
  <2>2. login' \in [Login -> [step : Steps, name : Name \cup {None}, address : Address \cup {None}]]
    BY <1>1, <1>4, <1>5, <1>7
  <2>3. Leaves(l)
    BY <1>4, <2>1, <2>2 DEF Leaves
  <2>4. Slots' = Slots \ {l} /\ l \in Slots
    BY <1>2, <2>1 DEF Slots, HasSlot, Out
  <2>5. Cardinality(Slots') = Cardinality(Slots) - 1
    BY <2>4, SlotsAreFinite, FS_RemoveElement
  <2>6. running = Cardinality(Slots) /\ running <= Concurrent
    BY DEF IInv, SlotsInv, SlotsAreUsed, Slots
  <2>7. Cardinality(Slots) # 0
    BY <2>4, SlotsAreFinite, FS_EmptySet
  <2>8. running' \in Nat /\ running' = Cardinality(Slots') /\ running' <= Concurrent
    BY <1>1, <1>7, <2>5, <2>6, <2>7
  <2>9. running' = Cardinality({m \in Login : HasSlot(m)}')
    BY <2>8 DEF Slots
  <2>10. SlotsInv'
    BY <1>1, <1>7, <2>8, <2>9 DEF SlotsInv, SlotsAreUsed
  <2>11. TypeOK'
    <3>1. \A m \in Login : IF login'[m].step = "out" THEN login'[m] = Out
                           ELSE login'[m].name \in Name /\ login'[m].address \in Address
      <4> SUFFICES ASSUME NEW m \in Login
                   PROVE  IF login'[m].step = "out" THEN login'[m] = Out
                          ELSE login'[m].name \in Name /\ login'[m].address \in Address
        OBVIOUS
      <4>1. IF login[m].step = "out" THEN login[m] = Out
            ELSE login[m].name \in Name /\ login[m].address \in Address
        BY DEF IInv, TypeOK
      <4>2. Out.step = "out"
        BY DEF Out
      <4> QED BY <2>1, <4>1, <4>2
    <3> QED BY <1>3, <1>4, <1>7, <2>2, <2>8, <3>1 DEF IInv, TypeOK, NameSettled, AddressSettled
  <2> QED BY <1>2, <1>3, <2>3, <2>10, <2>11, LeavingKeeps DEF IInv
<1>8. CASE queue # <<>> /\ queue' = Tail(queue) /\ running' = running
  <2>1. /\ Len(queue) \in Nat \ {0} /\ Len(queue') = Len(queue) - 1
        /\ queue' \in Seq(Login)
        /\ \A i \in 1..Len(queue') : queue'[i] = queue[i + 1]
        /\ Head(queue) = queue[1]
    BY <1>1, <1>8
  <2>2. queue # queue'
    BY <2>1
  <2> DEFINE h == queue[1]
  <2>3. h \in Login /\ login[h].step = "queued" /\ h # l
    BY <1>1, <1>2, <2>1 DEF IInv, SlotsInv
  <2>4. PICK g \in Login : g = h
    BY <2>3
  <2>5. \A m \in Login : login'[m] =
           IF m = l THEN Out
           ELSE IF m = g THEN [step |-> "checking", name |-> login[m].name, address |-> login[m].address]
           ELSE login[m]
    BY <1>4, <1>6, <2>1, <2>2, <2>4
  <2>5a. login'[l] = Out /\ login'[l].step = "out"
    <3>1. login'[l] = Out
      BY <2>5
    <3> QED BY <3>1 DEF Out
  <2>5b. /\ login'[g].step = "checking" /\ login'[g].name = login[g].name
         /\ login'[g].address = login[g].address
    <3>1. login'[g] = [step |-> "checking", name |-> login[g].name, address |-> login[g].address]
      BY <2>3, <2>4, <2>5
    <3> QED BY <3>1
  <2>5c. \A m \in Login : m # l /\ m # g => login'[m] = login[m]
    BY <2>5
  <2>6. \A m \in Login :
          login'[m] \in [step : Steps, name : Name \cup {None}, address : Address \cup {None}]
    <3>1. "checking" \in Steps
      BY DEF Steps
    <3> TAKE m \in Login
    <3>2. login[m] \in [step : Steps, name : Name \cup {None}, address : Address \cup {None}]
      BY <1>1
    <3>3. [step |-> "checking", name |-> login[m].name, address |-> login[m].address]
            \in [step : Steps, name : Name \cup {None}, address : Address \cup {None}]
      BY <3>1, <3>2
    <3> QED BY <1>5, <2>5, <3>2, <3>3
  <2>7. login' \in [Login -> [step : Steps, name : Name \cup {None}, address : Address \cup {None}]]
    BY <1>4, <2>6
  <2>8. Leaves(l)
    BY <1>4, <2>3, <2>4, <2>5, <2>7 DEF Leaves
  <2>9. Slots' = (Slots \ {l}) \cup {g} /\ l \in Slots /\ g \notin Slots \ {l}
    <3>1. /\ login'[l].step = "out" /\ login'[g].step = "checking" /\ login[g].step = "queued"
          /\ \A m \in Login : m # l /\ m # g => login'[m].step = login[m].step
      BY <2>3, <2>4, <2>5a, <2>5b, <2>5c
    <3>2. ~HasSlot(g) /\ ~HasSlot(l)' /\ HasSlot(g)'
          /\ \A m \in Login : m # l /\ m # g => (HasSlot(m)' <=> HasSlot(m))
      BY <3>1 DEF HasSlot
    <3> QED BY <1>2, <2>3, <2>4, <3>2 DEF Slots
  <2>10. IsFiniteSet(Slots \ {l}) /\ Cardinality(Slots \ {l}) = Cardinality(Slots) - 1
    BY <2>9, SlotsAreFinite, FS_RemoveElement
  <2>11. Cardinality(Slots') = Cardinality(Slots \ {l}) + 1
    BY <2>9, <2>10, FS_AddElement
  <2>12. running = Cardinality(Slots) /\ running = Concurrent /\ Len(queue) <= MaxQueue
    BY <1>8 DEF IInv, SlotsInv, SlotsAreUsed, Slots
  <2>13. running' = Cardinality(Slots') /\ running' = Concurrent /\ Len(queue') <= MaxQueue
    BY <1>1, <1>8, <2>1, <2>10, <2>11, <2>12, SlotsAreFinite
  <2>14. running' = Cardinality({m \in Login : HasSlot(m)}')
    BY <2>13 DEF Slots
  <2>15. SlotsAreUsed'
    BY <1>1, <2>13, <2>14 DEF SlotsAreUsed
  <2>16. \A i \in 1..Len(queue') : login'[queue'[i]].step = "queued"
    <3> SUFFICES ASSUME NEW i \in 1..Len(queue') PROVE login'[queue'[i]].step = "queued"
      OBVIOUS
    <3>1. /\ i + 1 \in 1..Len(queue) /\ 1 \in 1..Len(queue) /\ i + 1 # 1
          /\ queue'[i] = queue[i + 1]
      BY <2>1
    <3>2. queue[i + 1] \in Login /\ queue[i + 1] # g /\ login[queue[i + 1]].step = "queued"
      BY <1>1, <2>4, <3>1 DEF IInv, SlotsInv
    <3>3. queue[i + 1] # l
      BY <1>2, <3>2
    <3> QED BY <2>5, <3>1, <3>2, <3>3
  <2>17. \A i, j \in 1..Len(queue') : queue'[i] = queue'[j] => i = j
    <3> SUFFICES ASSUME NEW i \in 1..Len(queue'), NEW j \in 1..Len(queue'), queue'[i] = queue'[j]
                 PROVE  i = j
      OBVIOUS
    <3>1. /\ i + 1 \in 1..Len(queue) /\ j + 1 \in 1..Len(queue)
          /\ queue[i + 1] = queue[j + 1]
      BY <2>1
    <3>2. i + 1 = j + 1
      BY <3>1 DEF IInv, SlotsInv
    <3> QED BY <3>2
  <2>18. SlotsInv'
    BY <2>15, <2>16, <2>17 DEF SlotsInv
  <2>19. TypeOK'
    <3>1. \A m \in Login : IF login'[m].step = "out" THEN login'[m] = Out
                           ELSE login'[m].name \in Name /\ login'[m].address \in Address
      <4> SUFFICES ASSUME NEW m \in Login
                   PROVE  IF login'[m].step = "out" THEN login'[m] = Out
                          ELSE login'[m].name \in Name /\ login'[m].address \in Address
        OBVIOUS
      <4>1. CASE m = l
        BY <2>5a, <4>1
      <4>2. CASE m = g
        <5>1. login[g].name \in Name /\ login[g].address \in Address
          BY <2>3, <2>4, FlyingAt
        <5> QED BY <2>5b, <4>2, <5>1
      <4>3. CASE m # l /\ m # g
        <5>1. IF login[m].step = "out" THEN login[m] = Out
              ELSE login[m].name \in Name /\ login[m].address \in Address
          BY DEF IInv, TypeOK
        <5> QED BY <2>5, <4>3, <5>1
      <4> QED BY <4>1, <4>2, <4>3
    <3> QED BY <1>3, <1>4, <1>8, <2>1, <2>7, <3>1 DEF IInv, TypeOK, NameSettled, AddressSettled
  <2> QED BY <1>2, <1>3, <2>8, <2>18, <2>19, LeavingKeeps DEF IInv
<1> QED BY <1>7, <1>8 DEF Answer, Release

LEMMA TickKeeps ==
  ASSUME IInv, Tick
  PROVE  IInv'
<1>1. /\ now \in 0..MaxNow /\ MaxNow \in Nat /\ Window \in Nat \ {0}
      /\ bad \in [Name -> Nat] /\ badAt \in [Name -> 0..MaxNow]
      /\ names \in [Name -> Counter \cup {None}]
  BY BoundsAssumption DEF IInv, TypeOK
<1>2. /\ now < MaxNow /\ now' = now + 1
      /\ UNCHANGED <<names, addresses, login, running, queue>>
      /\ bad' = [n \in Name |-> IF now' - badAt[n] >= Window THEN 0 ELSE bad[n]]
      /\ badAt' = [n \in Name |-> IF now' - badAt[n] >= Window THEN 0 ELSE badAt[n]]
  BY DEF Tick, gate
<1>3. now' \in 0..MaxNow /\ 0 \in 0..MaxNow
  BY <1>1, <1>2
<1>4. \A n \in Name :
        /\ badAt[n] \in Nat
        /\ bad'[n] = 0 \/ (bad'[n] = bad[n] /\ badAt'[n] = badAt[n] /\ now' - badAt[n] < Window)
  BY <1>1, <1>2
<1>5. TypeOK'
  <2>1. bad' \in [Name -> Nat] /\ badAt' \in [Name -> 0..MaxNow]
    BY <1>1, <1>2, <1>3
  <2> QED BY <1>2, <1>3, <2>1 DEF IInv, TypeOK
<1>6. \A n \in Name : OfName(n)' = OfName(n)
  BY <1>2 DEF OfName
<1>7. NamesInv'
  <2>1. \A n \in Name : names[n] # None => names[n].lastAt <= now'
    <3> SUFFICES ASSUME NEW n \in Name, names[n] # None PROVE names[n].lastAt <= now'
      OBVIOUS
    <3>1. names[n].lastAt \in 0..MaxNow /\ names[n].lastAt <= now
      BY <1>1 DEF IInv, NamesInv, Counter
    <3> QED BY <1>1, <1>2, <3>1
  <2> QED BY <1>2, <1>6, <2>1 DEF IInv, NamesInv
<1>8. DirectoryInv'
  <2>1. \A m \in Login : Charged(m)' <=> Charged(m)
    BY <1>2 DEF Charged
  <2>2. \A n \in Name : bad'[n] > 0 =>
          /\ names[n] # None /\ bad'[n] <= names[n].attempts
          /\ badAt'[n] <= now' /\ now' - badAt'[n] < Window
          /\ badAt'[n] <= names[n].lastAt \/ \E m \in OfName(n)' : Charged(m)'
    <3> SUFFICES ASSUME NEW n \in Name, bad'[n] > 0
                 PROVE  /\ names[n] # None /\ bad'[n] <= names[n].attempts
                        /\ badAt'[n] <= now' /\ now' - badAt'[n] < Window
                        /\ badAt'[n] <= names[n].lastAt \/ \E m \in OfName(n)' : Charged(m)'
      OBVIOUS
    <3>1. bad'[n] = bad[n] /\ badAt'[n] = badAt[n] /\ now' - badAt[n] < Window
      BY <1>4
    <3>2. (\E m \in OfName(n) : Charged(m)) => \E m \in OfName(n)' : Charged(m)'
      BY <1>6, <2>1 DEF OfName
    <3>3. badAt[n] <= now'
      <4>1. badAt[n] <= now
        BY <3>1 DEF IInv, DirectoryInv
      <4> QED BY <1>1, <1>2, <1>4, <4>1
    <3> QED BY <3>1, <3>2, <3>3 DEF IInv, DirectoryInv
  <2>3. \A m \in Login : login[m].step # "out" /\ ~Charged(m) =>
          bad'[login[m].name] < names[login[m].name].attempts
    <3> SUFFICES ASSUME NEW m \in Login, login[m].step # "out", ~Charged(m)
                 PROVE  bad'[login[m].name] < names[login[m].name].attempts
      OBVIOUS
    <3>1. /\ login[m].name \in Name /\ names[login[m].name] \in Counter
          /\ bad[login[m].name] < names[login[m].name].attempts
      BY FlyingAt DEF IInv, DirectoryInv
    <3>2. bad[login[m].name] \in Nat /\ names[login[m].name].attempts \in Nat
      BY <1>1, <3>1 DEF Counter
    <3> QED BY <1>4, <3>1, <3>2
  <2>4. \A m \in Login : login[m].step = "right" => bad'[login[m].name] = 0
    <3> SUFFICES ASSUME NEW m \in Login, login[m].step = "right" PROVE bad'[login[m].name] = 0
      OBVIOUS
    <3>1. login[m].name \in Name /\ bad[login[m].name] = 0
      BY DEF IInv, DirectoryInv, TypeOK
    <3> QED BY <1>4, <3>1
  <2> QED BY <1>2, <2>1, <2>2, <2>3, <2>4 DEF DirectoryInv
<1>9. AddressesInv'
  <2>1. \A a \in Address : OfAddress(a)' = OfAddress(a)
    BY <1>2 DEF OfAddress
  <2> QED BY <1>2, <2>1 DEF IInv, AddressesInv, Flying
<1>10. TablesAreBounded'
  BY <1>2 DEF IInv, TablesAreBounded, Kept
<1>11. SlotsInv'
  <2>1. Slots' = Slots
    BY <1>2 DEF Slots, HasSlot
  <2>2. SlotsAreUsed'
    BY <1>2, <2>1 DEF IInv, SlotsInv, SlotsAreUsed, Slots
  <2> QED BY <1>2, <2>2 DEF IInv, SlotsInv
<1> QED BY <1>5, <1>7, <1>8, <1>9, <1>10, <1>11 DEF IInv

-----------------------------------------------------------------------------

LEMMA NextIInv == IInv /\ [Next]_vars => IInv'
<1> SUFFICES ASSUME IInv, [Next]_vars PROVE IInv'
  OBVIOUS
<1>1. CASE UNCHANGED vars
  <2>1. UNCHANGED <<names, addresses, login, running, queue, now, bad, badAt>>
    BY <1>1 DEF vars, gate, directory
  <2>2. TypeOK' /\ TablesAreBounded' /\ SlotsInv'
    BY <2>1 DEF IInv, TypeOK, TablesAreBounded, Kept, SlotsInv, SlotsAreUsed, HasSlot
  <2>3. NamesInv' /\ DirectoryInv'
    BY <2>1 DEF IInv, NamesInv, DirectoryInv, OfName, Charged
  <2>4. AddressesInv'
    BY <2>1 DEF IInv, AddressesInv, OfAddress, Flying
  <2> QED BY <2>2, <2>3, <2>4 DEF IInv
<1>2. CASE Tick
  BY <1>2, TickKeeps
<1>3. ASSUME NEW n \in Name, NEW a \in Address, Refuse(n, a) PROVE IInv'
  BY <1>3, RefuseKeeps
<1>4. ASSUME NEW l \in Login, NEW n \in Name, NEW a \in Address, Begin(l, n, a) PROVE IInv'
  BY <1>4, BeginKeeps
<1>5. ASSUME NEW l \in Login, LoginStep(l) PROVE IInv'
  <2>1. CASE EndFails(l)
    BY <2>1, TurnedAwayKeeps DEF EndFails
  <2>2. CASE GateRefuses(l)
    BY <2>2, TurnedAwayKeeps DEF GateRefuses, TurnedAway
  <2> QED BY <1>5, <2>1, <2>2, EnterKeeps, CheckKeeps, AnswerKeeps DEF LoginStep
<1> QED BY <1>1, <1>2, <1>3, <1>4, <1>5 DEF Next

LEMMA AlwaysIInv == Spec => []IInv
  BY InitIInv, NextIInv, PTL DEF Spec

\* Every variable of the door keeps its type (attemptLimiter, checkGate, login).
THEOREM TypeCorrect == Spec => []TypeOK
<1>1. IInv => TypeOK
  BY DEF IInv
<1> QED BY <1>1, AlwaysIInv, PTL

\* However counters are forgotten, dropped, cleared and taken back, no account is
\* charged more wrong passwords within the directory's window than a name may
\* attempt (begin, settle, evictOne).
THEOREM NoLockout == Spec => []BudgetReachesTheDirectory
<1>1. IInv => BudgetReachesTheDirectory
  <2> SUFFICES ASSUME IInv, NEW n \in Name PROVE bad[n] <= PerName
    BY DEF BudgetReachesTheDirectory
  <2>1. bad[n] \in Nat /\ names[n] \in Counter \cup {None} /\ PerName \in Nat
    BY BoundsAssumption DEF IInv, TypeOK
  <2>2. bad[n] > 0 => /\ names[n] # None /\ bad[n] <= names[n].attempts
                      /\ names[n].attempts <= PerName
    BY DEF IInv, DirectoryInv, NamesInv
  <2> QED BY <2>1, <2>2 DEF Counter
<1> QED BY <1>1, AlwaysIInv, PTL

\* Each ticket is settled once: a counter is in flight exactly as often as logins
\* of its key are (begin, failed, succeeded, abandoned).
THEOREM EveryTicketCounts == Spec => []TicketsAreCounted
<1>1. IInv => TicketsAreCounted
  <2> SUFFICES ASSUME IInv PROVE TicketsAreCounted
    OBVIOUS
  <2>1. \A n \in Name : Cardinality(OfName(n)) = Flying(names[n])
    <3> SUFFICES ASSUME NEW n \in Name PROVE Cardinality(OfName(n)) = Flying(names[n])
      OBVIOUS
    <3>1. CASE OfName(n) = {}
      <4>1. Flying(names[n]) = 0
        BY <3>1 DEF IInv, NamesInv, Flying
      <4> QED BY <3>1, <4>1, FS_EmptySet
    <3>2. CASE OfName(n) # {}
      <4>1. PICK l \in Login : OfName(n) = {l} /\ login[l].step # "out" /\ login[l].name = n
        BY <3>2 DEF IInv, NamesInv, OfName
      <4>2. Flying(names[n]) = 1
        BY <4>1 DEF IInv, NamesInv, Flying
      <4> QED BY <4>1, <4>2, FS_Singleton
    <3> QED BY <3>1, <3>2
  <2>2. \A a \in Address : Cardinality(OfAddress(a)) = Flying(addresses[a])
    BY DEF IInv, AddressesInv
  <2>3. \A n \in Name : \A l, m \in OfName(n) : l = m
    BY DEF IInv, NamesInv
  <2> QED BY <2>1, <2>2, <2>3 DEF TicketsAreCounted
<1> QED BY <1>1, AlwaysIInv, PTL

\* No table outgrows its bound (boundedCounters.create, evictOne).
THEOREM BoundedTables == Spec => []TablesAreBounded
<1>1. IInv => TablesAreBounded
  BY DEF IInv
<1> QED BY <1>1, AlwaysIInv, PTL

\* A slot of the gate is lost to nobody and idle for nobody who waits
\* (checkGate.run, release).
THEOREM NoSlotIsLost == Spec => []SlotsAreUsed
<1>1. IInv => SlotsAreUsed
  BY DEF IInv, SlotsInv
<1> QED BY <1>1, AlwaysIInv, PTL

-----------------------------------------------------------------------------
(* The window of an address                                                *)

\* No attempt of an address is in the future.
OnTime == \A a \in Address : addresses[a] # None => addresses[a].lastAt <= now

\* What a step makes of an address's counter: nothing, no counter or one that
\* starts at one attempt where it may be lost, one attempt more, or one answered.
Lost(a) == addresses'[a] = None /\ Spare(addresses[a], AddressPenalty)
Opened(a) ==
  /\ addresses'[a] \in Counter /\ addresses'[a].lastAt = now
  /\ Spare(addresses[a], AddressPenalty)
Attempted(a) ==
  /\ addresses[a] \in Counter /\ addresses'[a] \in Counter /\ addresses'[a].lastAt = now
  /\ addresses'[a].attempts = addresses[a].attempts + 1
  /\ addresses'[a].inFlight = addresses[a].inFlight + 1
Answered(a) ==
  /\ addresses[a] \in Counter /\ addresses'[a] \in Counter
  /\ addresses'[a].lastAt \in {addresses[a].lastAt, now}
  /\ addresses'[a].attempts >= addresses[a].attempts - 1
  /\ addresses'[a].inFlight = addresses[a].inFlight - 1

Moved(a) == addresses'[a] = addresses[a] \/ Lost(a) \/ Opened(a) \/ Attempted(a) \/ Answered(a)

LEMMA AddressMoves == ASSUME IInv, [Next]_vars, NEW a \in Address PROVE Moved(a)
<1>0. /\ TypeOK /\ addresses \in [Address -> Counter \cup {None}] /\ now \in 0..MaxNow
      /\ addresses[a] # None => addresses[a] \in Counter
  BY DEF IInv, TypeOK
<1>1. ASSUME NEW n \in Name, NEW b \in Address, Refuse(n, b) PROVE Moved(a)
  <2>1. addresses' = addresses \/ addresses' = Looked(addresses, b)
    BY <1>1 DEF Refuse, Busy
  <2>2. \/ Looked(addresses, b)[a] = addresses[a]
        \/ Looked(addresses, b)[a] = None /\ Spare(addresses[a], AddressPenalty)
    BY <1>0, LookedTable
  <2> QED BY <2>1, <2>2 DEF Moved, Lost
<1>2. ASSUME NEW l \in Login, NEW n \in Name, NEW b \in Address, Begin(l, n, b) PROVE Moved(a)
  <2>1. PICK u \in Made(addresses, b, AddressPenalty) : addresses' = Counted(u, b)
    BY <1>2 DEF Begin
  <2>2. /\ u \in [Address -> Counter \cup {None}] /\ u[b] # None
        /\ \/ u[b] = addresses[b]
           \/ u[b] = NewCounter /\ Spare(addresses[b], AddressPenalty)
        /\ \A j \in Address :
             j # b => u[j] = addresses[j] \/ (u[j] = None /\ Spare(addresses[j], AddressPenalty))
    BY <1>0, <2>1, MadeTable
  <2>3. addresses' = [u EXCEPT ![b] = [attempts |-> u[b].attempts + 1,
                                       inFlight |-> u[b].inFlight + 1, lastAt |-> now]]
    BY <2>1 DEF Counted
  <2>4. CASE a = b
    <3>1. addresses'[a] = [attempts |-> u[a].attempts + 1, inFlight |-> u[a].inFlight + 1,
                           lastAt |-> now]
      BY <2>2, <2>3, <2>4
    <3>2. u[a] \in Counter
      BY <2>2, <2>4
    <3>3. addresses'[a] \in Counter /\ addresses'[a].lastAt = now
          /\ addresses'[a].attempts = u[a].attempts + 1 /\ addresses'[a].inFlight = u[a].inFlight + 1
      BY <1>0, <3>1, <3>2 DEF Counter
    <3> QED BY <2>2, <2>4, <3>2, <3>3 DEF Moved, Opened, Attempted
  <2>5. CASE a # b
    <3>1. addresses'[a] = u[a]
      BY <2>2, <2>3, <2>5
    <3> QED BY <2>2, <2>5, <3>1 DEF Moved, Lost
  <2> QED BY <2>4, <2>5
<1>3. ASSUME NEW l \in Login, login[l].step # "out", AddressSettled(l) PROVE Moved(a)
  <2>1. CASE a # login[l].address
    BY <1>3, <2>1 DEF AddressSettled, Moved
  <2>2. CASE a = login[l].address
    <3>1. addresses[a] \in Counter
      BY <1>3, <2>2, FlyingAt
    <3>2. addresses'[a] \in Counter
      BY <1>3, <2>2 DEF AddressSettled
    <3>3. addresses'[a].attempts >= addresses[a].attempts - 1
      BY <1>3, <2>2, <3>1 DEF AddressSettled, Counter
    <3> QED BY <1>3, <2>2, <3>1, <3>2, <3>3 DEF AddressSettled, Answered, Moved
  <2> QED BY <2>1, <2>2
<1>4. ASSUME NEW l \in Login, LoginStep(l) PROVE Moved(a)
  <2>1. CASE addresses' = addresses
    BY <2>1 DEF Moved
  <2>2. CASE EndFails(l)
    BY <1>3, <2>2, FailedSettles DEF EndFails
  <2>3. CASE GateRefuses(l)
    BY <1>3, <2>3, AbandonedSettles DEF GateRefuses, TurnedAway
  <2>4. CASE Answer(l)
    BY <1>3, <2>4, FailedSettles, SucceededSettles, AbandonedSettles DEF Answer
  <2> QED BY <1>4, <2>1, <2>2, <2>3, <2>4 DEF LoginStep, Enter, Check
<1>5. CASE Tick \/ UNCHANGED vars
  BY <1>5 DEF Tick, vars, Moved
<1> QED BY <1>1, <1>2, <1>4, <1>5 DEF Next

LEMMA AlwaysOnTime == Spec => []OnTime
<1>1. Init => OnTime
  BY DEF Init, OnTime
<1>2. ASSUME IInv, IInv', OnTime, [Next]_vars PROVE OnTime'
  <2> SUFFICES ASSUME NEW a \in Address, addresses'[a] # None PROVE addresses'[a].lastAt <= now'
    BY DEF OnTime
  <2>1. now \in Nat /\ now' \in Nat /\ now <= now'
    BY <1>2 DEF IInv, TypeOK, Next, Tick, Refuse, Begin, LoginStep, EndFails, Enter, GateRefuses,
                Check, Answer, vars
  <2>2. addresses'[a] \in Counter /\ (addresses[a] # None => addresses[a] \in Counter)
    BY <1>2 DEF IInv, TypeOK
  <2>3. addresses'[a].lastAt \in Nat /\ (addresses[a] # None => addresses[a].lastAt \in Nat)
    BY <2>2 DEF Counter
  <2>4. Moved(a)
    BY <1>2, AddressMoves
  <2>5. addresses'[a].lastAt = now \/ (addresses[a] # None /\ addresses'[a].lastAt = addresses[a].lastAt)
    BY <2>2, <2>4, NoneAssumption DEF Moved, Lost, Opened, Attempted, Answered
  <2> QED BY <1>2, <2>1, <2>3, <2>5 DEF OnTime
<1>3. OnTime /\ IInv /\ IInv' /\ [Next]_vars => OnTime'
  BY <1>2
<1> QED BY <1>1, <1>3, AlwaysIInv, PTL DEF Spec

\* The failures an address is refused for are not dropped, taken back or cut short
\* within its window: it stays refused (get, evictOne, settle).
THEOREM Refused == Spec => RefusedAddressStays
<1> DEFINE Stays == \A a \in Address :
      LET c == addresses[a] IN
      RefuseAddressAfter # None /\ Failures(c) >= RefuseAddressAfter /\ Live(c) =>
        Failures(addresses'[a]) >= Failures(c) /\ addresses'[a].lastAt >= c.lastAt
<1>1. ASSUME IInv, OnTime, [Next]_vars PROVE Stays
  <2> SUFFICES ASSUME NEW a \in Address, RefuseAddressAfter # None,
                      Failures(addresses[a]) >= RefuseAddressAfter, Live(addresses[a])
               PROVE  /\ Failures(addresses'[a]) >= Failures(addresses[a])
                      /\ addresses'[a].lastAt >= addresses[a].lastAt
    OBVIOUS
  <2>1. /\ RefuseAddressAfter \in Nat \ {0} /\ AddressPenalty \in {1, 2}
        /\ AddressPenalty <= RefuseAddressAfter
    BY RefuseAssumption DEF AddressPenalty
  <2>2. addresses[a] # None
    BY <2>1 DEF Failures
  <2>3. addresses[a] \in Counter /\ addresses[a].lastAt <= now /\ now \in Nat
    BY <1>1, <2>2 DEF IInv, TypeOK, OnTime
  <2>4. /\ addresses[a].attempts \in Nat /\ addresses[a].inFlight \in Nat /\ addresses[a].lastAt \in Nat
        /\ Failures(addresses[a]) = addresses[a].attempts - addresses[a].inFlight
    BY <2>2, <2>3 DEF Counter, Failures
  <2>5. ~Spare(addresses[a], AddressPenalty)
    BY <2>1, <2>2, <2>4 DEF Spare
  <2>6. addresses'[a] = addresses[a] \/ Attempted(a) \/ Answered(a)
    BY <1>1, <2>5, AddressMoves DEF Moved, Lost, Opened
  <2>7. CASE addresses'[a] = addresses[a]
    BY <2>4, <2>7
  <2>8. CASE Attempted(a) \/ Answered(a)
    <3>1. /\ addresses'[a] \in Counter /\ addresses'[a] # None
          /\ addresses'[a].lastAt \in {addresses[a].lastAt, now}
      BY <2>8, NoneAssumption DEF Attempted, Answered
    <3>2. Failures(addresses'[a]) = addresses'[a].attempts - addresses'[a].inFlight
      BY <3>1 DEF Failures
    <3>3. addresses'[a].attempts - addresses'[a].inFlight >= addresses[a].attempts - addresses[a].inFlight
      BY <2>4, <2>8, <3>1 DEF Attempted, Answered, Counter
    <3> QED BY <2>3, <2>4, <3>1, <3>2, <3>3
  <2> QED BY <2>6, <2>7, <2>8
<1>2. IInv /\ OnTime /\ [Next]_vars => [Stays]_vars
  BY <1>1
<1> QED BY <1>2, AlwaysIInv, AlwaysOnTime, PTL DEF Spec, RefusedAddressStays
=============================================================================
