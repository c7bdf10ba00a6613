-------------------- MODULE ObservationPublicationProofs --------------------
(***************************************************************************)
(* The listeners of a system and the native subscriptions agree, for every *)
(* number of devices and subscriptions, every capacity of the buffer and   *)
(* whatever listeners do: the invariant says where each update is between  *)
(* the native world and its listener.                                      *)
(***************************************************************************)
EXTENDS ObservationPublication, FiniteSetTheorems, WellFoundedInduction, TLAPS

\* What the world and the registry say of the same subscription.
ActiveIn(subs, id) == id \in DOMAIN subs /\ subs[id].active

Agree(n, subs, removes) ==
    \A id \in Ids :
        /\ ActiveIn(subs, id) <=> /\ id \in DOMAIN n.subscriptions
                                  /\ n.subscriptions[id].device \notin removes
        /\ ActiveIn(subs, id) => n.subscriptions[id].device = subs[id].device

\* An update is with the listener, or in a record that is still to be delivered.
Told(n, subs, records, told) ==
    \A id \in Ids : ActiveIn(subs, id) =>
        LET subscription == n.subscriptions[id] IN
        /\ subscription.published = IF id \in DOMAIN records THEN records[id] ELSE told[id]
        /\ subscription.published # Nothing => subscription.published = n.shown[subscription.device]

WorldOK(n) ==
    /\ n = [ devices |-> n.devices, subscriptions |-> n.subscriptions,
             nextId |-> n.nextId, shown |-> n.shown ]
    /\ n.devices \subseteq Devices
    /\ IsPartial(n.subscriptions, Ids, NativeSubscription)
    /\ n.nextId \in 1..(MaxSubscriptions + 1)
    /\ n.shown \in [Devices -> Shown]
    /\ \A id \in DOMAIN n.subscriptions : id < n.nextId

RegistryOK(subs, nextId) ==
    /\ IsPartial(subs, Ids, [device : Devices, active : BOOLEAN])
    /\ \A id \in DOMAIN subs : id < nextId

\* Where a tick is, and what it leaves alone: only listeners call a system
\* that is in a tick, and a system that is not sound begins none.
TickOK ==
    /\ tick = [phase |-> tick.phase, resized |-> tick.resized, records |-> tick.records]
    /\ tick.phase \in {"idle", "native", "publishing", "callback"} /\ tick.resized \in BOOLEAN
    /\ IsPartial(tick.records, Ids, Shown)
    /\ ~Publishing => tick.records = NoneOf
    /\ tick.records # NoneOf => DOMAIN tick.records # {}
    /\ tick.phase = "idle" => ~tick.resized
    /\ tick.phase = "native" => Sound /\ batch = NoBatch
    /\ tick.phase = "native" /\ tick.resized => Required(native) <= capacity
    /\ capacity \in 0..MaxCapacity
    /\ RecordsFindTheirListener

\* IDs are not given out twice, so a new subscription was told nothing.
SeenOK ==
    /\ seen \in [Ids -> Shown \cup {Nothing}]
    /\ \A id \in Ids : id >= native.nextId => seen[id] = Nothing

Distinct(list) == \A i, j \in DOMAIN list : list[i] = list[j] => i = j
Has(list, x) == \E i \in DOMAIN list : list[i] = x

\* Removals are deferred once, of what has ended, and none of them is forgotten.
DeferredOK ==
    /\ deferred \in Seq(Ids)
    /\ Distinct(deferred)
    /\ \A id : Has(deferred, id) => id \in DOMAIN subscriptions /\ ~Active(id)
    /\ ~Publishing => deferred = << >>
    /\ ~poisoned => \A id \in DOMAIN subscriptions :
            Active(id) \/ Has(deferred, id)

FlagsOK ==
    /\ poisoned \in BOOLEAN /\ worldPoisoned \in BOOLEAN
    /\ closed \in BOOLEAN /\ faulty \in BOOLEAN
    /\ batch \in [adds : SUBSET Devices, removes : SUBSET Devices]
    /\ OnlyFaultsPoison

AgreeInv == Sound => /\ Agree(native, subscriptions, batch.removes)
                     /\ Told(native, subscriptions, tick.records, seen)

SystemInv ==
    /\ WorldOK(native) /\ RegistryOK(subscriptions, native.nextId)
    /\ TickOK /\ SeenOK /\ DeferredOK /\ FlagsOK /\ AgreeInv

-----------------------------------------------------------------------------
(* Lemmas about numbers, functions and sequences.                          *)

\* A set of naturals that is not empty has a least element: induction, for
\* what is computed by recursion.
LEMMA NatMin == ASSUME NEW T \in SUBSET Nat, T # {} PROVE \E x \in T : \A y \in T : x <= y
<1>1. IsWellFoundedOn(OpToRel(<,Nat), Nat)
  BY NatLessThanWellFounded
<1>2. PICK R : R = {ss \in Nat \X Nat : ss[1] < ss[2]}
  OBVIOUS
<1>3. OpToRel(<,Nat) = {ss \in Nat \X Nat : ss[1] < ss[2]}
  BY Zenon DEF OpToRel
<1>4. IsWellFoundedOn(R, Nat)
  BY <1>1, <1>2, <1>3, Zenon
<1>5. PICK x \in T : \A y \in T : ~(<<y, x>> \in R)
  BY <1>4, WFMin, Zenon
<1>6. \A y \in T : <<y, x>> \in Nat \X Nat /\ (<<y, x>> \in R <=> y < x)
  BY <1>2
<1>7. ASSUME NEW y \in T PROVE x <= y
  <2>1. x \in Nat /\ y \in Nat /\ ~(y < x)
    BY <1>5, <1>6
  <2> QED BY <2>1
<1> QED BY <1>7

\* The elements of a finite set, in an order: each of them once.
LEMMA OrderFacts ==
    ASSUME NEW S, IsFiniteSet(S), NEW order \in SetToSeqs(S)
    PROVE  /\ order \in Seq(S) /\ Distinct(order)
           /\ \A x : Has(order, x) <=> x \in S
<1> DEFINE D == 1..Cardinality(S)
<1>1. Cardinality(S) \in Nat
  BY FS_CardinalityType
<1>2. order \in [D -> S] /\ \A i, j \in D : i # j => order[i] # order[j]
  BY DEF SetToSeqs
<1>3. order \in Injection(D, S)
  BY <1>2 DEF Injection, IsInjective
<1>4. Cardinality(D) = Cardinality(S)
  BY <1>1, FS_Interval
<1>5. order \in Surjection(D, S)
  BY <1>3, <1>4, FS_Injection, Zenon
<1>6. \A x \in S : \E i \in D : order[i] = x
  BY <1>5 DEF Surjection
<1> QED BY <1>1, <1>2, <1>6 DEF Distinct, Has

\* Two sequences without an element in common, one after the other.
LEMMA AppendedFacts ==
    ASSUME NEW S, NEW s \in Seq(S), NEW t \in Seq(S), NEW u, u = s \o t,
           Distinct(s), Distinct(t), \A x : ~(Has(s, x) /\ Has(t, x))
    PROVE  /\ u \in Seq(S) /\ Distinct(u)
           /\ \A x : Has(u, x) <=> Has(s, x) \/ Has(t, x)
<1>1. /\ u \in Seq(S) /\ Len(u) = Len(s) + Len(t)
      /\ DOMAIN u = 1..(Len(s) + Len(t)) /\ DOMAIN s = 1..Len(s) /\ DOMAIN t = 1..Len(t)
      /\ Len(s) \in Nat /\ Len(t) \in Nat
  OBVIOUS
<1>2. \A i \in 1..Len(s) : u[i] = s[i]
  OBVIOUS
<1>3. \A i \in 1..Len(t) : u[Len(s) + i] = t[i]
  OBVIOUS
<1>4. ASSUME NEW k \in DOMAIN u
      PROVE  k \in 1..Len(s) \/ (k - Len(s) \in 1..Len(t) /\ k = Len(s) + (k - Len(s)))
  BY <1>1
<1>5. \A k \in DOMAIN u : \/ k \in DOMAIN s /\ u[k] = s[k]
                          \/ k - Len(s) \in DOMAIN t /\ u[k] = t[k - Len(s)]
  BY <1>1, <1>2, <1>3, <1>4
<1>6. ASSUME NEW i \in DOMAIN u, NEW j \in DOMAIN u, u[i] = u[j] PROVE i = j
  <2>1. i \in Int /\ j \in Int
    BY <1>1
  <2>2. CASE i \in DOMAIN s /\ j \in DOMAIN s /\ u[i] = s[i] /\ u[j] = s[j]
    BY <1>6, <2>2 DEF Distinct
  <2>3. CASE /\ i - Len(s) \in DOMAIN t /\ j - Len(s) \in DOMAIN t
             /\ u[i] = t[i - Len(s)] /\ u[j] = t[j - Len(s)]
    <3>1. i - Len(s) = j - Len(s)
      BY <1>6, <2>3 DEF Distinct
    <3> QED BY <1>1, <2>1, <3>1
  <2>4. Has(s, u[i]) <=> ~Has(t, u[i])
    BY <1>5 DEF Has
  <2> QED BY <1>5, <1>6, <2>2, <2>3, <2>4 DEF Has
<1>7. \A i \in DOMAIN s : i \in DOMAIN u /\ u[i] = s[i]
  BY <1>1, <1>2
<1>8. \A i \in DOMAIN t : Len(s) + i \in DOMAIN u /\ u[Len(s) + i] = t[i]
  BY <1>1, <1>3
<1>9. \A x : Has(u, x) <=> Has(s, x) \/ Has(t, x)
  <2>1. ASSUME NEW x, Has(u, x) PROVE Has(s, x) \/ Has(t, x)
    BY <1>5, <2>1 DEF Has
  <2>2. ASSUME NEW x, Has(s, x) PROVE Has(u, x)
    BY <1>7, <2>2 DEF Has
  <2>3. ASSUME NEW x, Has(t, x) PROVE Has(u, x)
    <3>1. PICK i \in DOMAIN t : t[i] = x
      BY <2>3 DEF Has
    <3> QED BY <1>8, <3>1 DEF Has
  <2> QED BY <2>1, <2>2, <2>3
<1> QED BY <1>1, <1>6, <1>9 DEF Distinct

-----------------------------------------------------------------------------
(* The capacity of the buffer.                                             *)

\* What growing from c comes to, if f is what growing from a larger capacity does.
GrownAt(f, c, required) ==
    LET next == c + c \div 2 IN
    IF c >= required THEN c
    ELSE IF next <= c \/ next > MaxCapacity THEN required ELSE f[next]

\* Growing by halves ends: it is defined at every capacity.
LEMMA GrowthIsDefined ==
    ASSUME NEW required \in Nat
    PROVE  \E f : f = [c \in 1..MaxCapacity |-> GrownAt(f, c, required)]
<1> DEFINE Upper(n) == {c \in 1..MaxCapacity : c > MaxCapacity - n}
           T == {n \in 0..MaxCapacity :
                    ~ \E f : \A c \in Upper(n) : f[c] = GrownAt(f, c, required)}
<1>0. MaxCapacity \in Nat
  BY BoundsAssumption
<1>1. T = {}
  <2> SUFFICES ASSUME T # {} PROVE FALSE
    OBVIOUS
  <2>1. T \in SUBSET Nat
    BY <1>0
  <2>2. PICK n \in T : \A m \in T : n <= m
    BY <2>1, NatMin, Zenon
  <2>3. n \in 0..MaxCapacity /\ n \in Nat
    BY <1>0
  <2>4. n # 0
    <3>1. Upper(0) = {}
      BY <1>0
    <3> QED BY <3>1
  <2>5. n - 1 \in 0..MaxCapacity /\ n - 1 \notin T
    <3>1. n - 1 \in 0..MaxCapacity /\ ~(n <= n - 1)
      BY <1>0, <2>3, <2>4
    <3> QED BY <2>2, <3>1
  <2>6. PICK f : \A c \in Upper(n - 1) : f[c] = GrownAt(f, c, required)
    BY <2>5
  <2> DEFINE new == MaxCapacity - n + 1
  <2>7. PICK g : g = [c \in 1..MaxCapacity |->
                        IF c = new THEN GrownAt(f, c, required) ELSE f[c]]
    OBVIOUS
  <2>8. ASSUME NEW c \in Upper(n)
        PROVE  /\ c \in 1..MaxCapacity /\ (c = new \/ c \in Upper(n - 1)) /\ c >= new
               /\ c + c \div 2 \in Int
    BY <1>0, <2>3
  <2>9. ASSUME NEW c \in Upper(n), c < c + c \div 2, c + c \div 2 <= MaxCapacity
        PROVE  g[c + c \div 2] = f[c + c \div 2]
    <3>1. c + c \div 2 \in 1..MaxCapacity /\ c + c \div 2 # new
      BY <1>0, <2>3, <2>8, <2>9
    <3> QED BY <2>7, <3>1
  <2>10. \A c \in Upper(n) : GrownAt(g, c, required) = GrownAt(f, c, required)
    BY <1>0, <2>8, <2>9 DEF GrownAt
  <2>11. \A c \in Upper(n) : g[c] = GrownAt(f, c, required)
    BY <2>6, <2>7, <2>8
  <2>12. \A c \in Upper(n) : g[c] = GrownAt(g, c, required)
    BY <2>10, <2>11
  <2> QED BY <2>12
<1>2. PICK f : \A c \in Upper(MaxCapacity) : f[c] = GrownAt(f, c, required)
  BY <1>0, <1>1
<1>3. PICK g : g = [c \in 1..MaxCapacity |-> f[c]]
  OBVIOUS
<1>4. ASSUME NEW c \in 1..MaxCapacity
      PROVE  c \in Upper(MaxCapacity) /\ GrownAt(g, c, required) = GrownAt(f, c, required)
  <2>1. c \in Upper(MaxCapacity)
    BY <1>0
  <2>2. c < c + c \div 2 /\ c + c \div 2 <= MaxCapacity => c + c \div 2 \in 1..MaxCapacity
    BY <1>0
  <2>3. c + c \div 2 \in Int
    BY <1>0
  <2> QED BY <1>0, <1>3, <2>1, <2>2, <2>3 DEF GrownAt
<1>5. g = [c \in 1..MaxCapacity |-> GrownAt(g, c, required)]
  BY <1>2, <1>3, <1>4
<1> QED BY <1>5

\* The buffer grows to what is required: a tick that is called again fits.
LEMMA GrownCapacityFits ==
    ASSUME NEW current \in 0..MaxCapacity, NEW required \in 1..MaxCapacity
    PROVE  /\ GrowCapacity(current, required) \in 1..MaxCapacity
           /\ GrowCapacity(current, required) >= required
<1>0. MaxCapacity \in Nat /\ FirstCapacity \in Nat \ {0} /\ FirstCapacity <= MaxCapacity
  BY BoundsAssumption
<1> DEFINE start == IF current < FirstCapacity THEN FirstCapacity ELSE current
<1> DEFINE grown == CHOOSE f : f = [c \in 1..MaxCapacity |-> GrownAt(f, c, required)]
<1>1. GrowCapacity(current, required) = grown[start]
  BY Zenon DEF GrowCapacity, GrownAt
<1>2. PICK grow : grow = grown
  OBVIOUS
<1>3. grow = [c \in 1..MaxCapacity |-> GrownAt(grow, c, required)]
  <2>1. required \in Nat
    BY <1>0
  <2> QED BY <1>2, <2>1, GrowthIsDefined, Zenon
<1> HIDE DEF grown
\* The largest capacity that would end below what is required does not exist.
<1> DEFINE T == {n \in Nat : /\ MaxCapacity - n \in 1..MaxCapacity
                             /\ \/ grow[MaxCapacity - n] \notin 1..MaxCapacity
                                \/ ~(grow[MaxCapacity - n] >= required)}
<1>4. T = {}
  <2> SUFFICES ASSUME T # {} PROVE FALSE
    OBVIOUS
  <2>1. PICK n \in T : \A m \in T : n <= m
    BY NatMin, Zenon
  <2>2. PICK c : c = MaxCapacity - n
    OBVIOUS
  <2>3. c \in 1..MaxCapacity /\ (grow[c] \notin 1..MaxCapacity \/ ~(grow[c] >= required))
    BY <2>1, <2>2
  <2>4. grow[c] = GrownAt(grow, c, required)
    BY <1>3, <2>3
  <2>5. c < required /\ c < c + c \div 2 /\ c + c \div 2 <= MaxCapacity
        /\ grow[c] = grow[c + c \div 2]
    BY <1>0, <2>3, <2>4 DEF GrownAt
  <2>6. PICK next : next = c + c \div 2
    OBVIOUS
  <2>7. next \in 1..MaxCapacity /\ MaxCapacity - next \in Nat
        /\ MaxCapacity - (MaxCapacity - next) = next /\ ~(n <= MaxCapacity - next)
    BY <1>0, <2>1, <2>2, <2>3, <2>5, <2>6
  <2>8. MaxCapacity - next \notin T
    BY <2>1, <2>7
  <2> QED BY <2>3, <2>5, <2>6, <2>7, <2>8
<1>5. ASSUME NEW c \in 1..MaxCapacity
      PROVE  grow[c] \in 1..MaxCapacity /\ grow[c] >= required
  <2>1. MaxCapacity - c \in Nat /\ MaxCapacity - (MaxCapacity - c) = c
    BY <1>0
  <2> QED BY <1>4, <2>1
<1>6. start \in 1..MaxCapacity
  BY <1>0
<1> QED BY <1>1, <1>2, <1>5, <1>6

-----------------------------------------------------------------------------
(* What the native calls leave.                                            *)

\* The numbers of the model.
LEMMA Bounds ==
    /\ MaxSubscriptions \in Nat /\ FirstCapacity \in Nat /\ MaxCapacity \in Nat
    /\ Ids \subseteq Nat /\ Nothing \notin Shown /\ Unavailable \in Shown
BY BoundsAssumption, ValuesAssumption DEF Ids, Shown, Unavailable, Nothing

\* As many subscriptions as there are IDs.
LEMMA IdsAreFinite == IsFiniteSet(Ids)
BY Bounds, FS_Interval DEF Ids

\* How many subscriptions there are is a number.
LEMMA RequiredFacts == ASSUME NEW n, WorldOK(n) PROVE Required(n) \in Nat
<1>1. DOMAIN n.subscriptions \subseteq Ids
  BY DEF WorldOK, IsPartial
<1>2. IsFiniteSet(Ids)
  BY IdsAreFinite
<1> QED BY <1>1, <1>2, FS_Subset, FS_CardinalityType DEF Required

\* Applied, a batch takes the subscriptions of the devices it removes.
LEMMA AppliedFacts ==
    ASSUME NEW n, WorldOK(n), NEW m, m = ApplyCommands(n),
           batch \in [adds : SUBSET Devices, removes : SUBSET Devices]
    PROVE  /\ WorldOK(m) /\ m.nextId = n.nextId
           /\ m.devices = (n.devices \cup batch.adds) \ batch.removes
           /\ DOMAIN m.subscriptions = {id \in DOMAIN n.subscriptions :
                                            n.subscriptions[id].device \notin batch.removes}
           /\ \A subs, records, told :
                /\ Agree(n, subs, batch.removes) => Agree(m, subs, {})
                /\ Agree(n, subs, batch.removes) /\ Told(n, subs, records, told)
                    => Told(m, subs, records, told)
<1> DEFINE ended == {id \in DOMAIN n.subscriptions : n.subscriptions[id].device \in batch.removes}
<1>1. m = [ devices |-> (n.devices \cup batch.adds) \ batch.removes,
            subscriptions |-> Without(n.subscriptions, ended),
            nextId |-> n.nextId, shown |-> n.shown ]
  BY DEF WorldOK, ApplyCommands
<1>2. /\ m.devices = (n.devices \cup batch.adds) \ batch.removes
      /\ m.subscriptions = Without(n.subscriptions, ended)
      /\ m.nextId = n.nextId /\ m.shown = n.shown
      /\ m = [ devices |-> m.devices, subscriptions |-> m.subscriptions,
               nextId |-> m.nextId, shown |-> m.shown ]
  BY <1>1
<1>3. /\ DOMAIN m.subscriptions = DOMAIN n.subscriptions \ ended
      /\ \A id \in DOMAIN m.subscriptions : m.subscriptions[id] = n.subscriptions[id]
  BY <1>2 DEF Without, Restrict
<1>4. DOMAIN m.subscriptions = {id \in DOMAIN n.subscriptions :
                                    n.subscriptions[id].device \notin batch.removes}
  BY <1>3
<1>5. WorldOK(m)
  BY <1>2, <1>3 DEF WorldOK, IsPartial
<1> HIDE DEF ended
<1>6. ASSUME NEW subs, Agree(n, subs, batch.removes)
      PROVE  Agree(m, subs, {})
  BY <1>3, <1>4, <1>6 DEF Agree
<1>7. ASSUME NEW subs, NEW records, NEW told,
             Agree(n, subs, batch.removes), Told(n, subs, records, told)
      PROVE  Told(m, subs, records, told)
  <2>1. \A id \in Ids : ActiveIn(subs, id) => m.subscriptions[id] = n.subscriptions[id]
    BY <1>3, <1>4, <1>7 DEF Agree
  <2> QED BY <1>2, <1>7, <2>1 DEF Told
<1> QED BY <1>2, <1>4, <1>5, <1>6, <1>7

\* A new subscription has an ID of its own.
LEMMA InsertFacts ==
    ASSUME NEW n, WorldOK(n), NEW d \in Devices, IdsLeft(n), NEW m, m = Insert(n, d),
           NEW subs, RegistryOK(subs, n.nextId), NEW with,
           with = With(subs, n.nextId, [device |-> d, active |-> TRUE])
    PROVE  /\ WorldOK(m) /\ m.nextId = n.nextId + 1 /\ n.nextId \in Ids
           /\ RegistryOK(with, m.nextId) /\ RegistryOK(subs, m.nextId)
           /\ n.nextId \notin DOMAIN subs /\ n.nextId \notin DOMAIN n.subscriptions
           /\ DOMAIN m.subscriptions = DOMAIN n.subscriptions \cup {n.nextId}
           /\ \A id \in DOMAIN n.subscriptions : m.subscriptions[id] = n.subscriptions[id]
           /\ m.shown = n.shown
           /\ Agree(n, subs, {}) => Agree(m, with, {})
           /\ \A records, told :
                Agree(n, subs, {}) /\ Told(n, subs, records, told)
                /\ n.nextId \notin DOMAIN records /\ told[n.nextId] = Nothing
                => Told(m, with, records, told)
<1> DEFINE new == [device |-> d, published |-> Nothing]
           id0 == n.nextId
<1>1. m = [ devices |-> n.devices, subscriptions |-> With(n.subscriptions, n.nextId, new),
            nextId |-> n.nextId + 1, shown |-> n.shown ]
  BY DEF WorldOK, Insert
<1>2. /\ m.devices = n.devices /\ m.subscriptions = With(n.subscriptions, id0, new)
      /\ m.nextId = id0 + 1 /\ m.shown = n.shown
      /\ m = [ devices |-> m.devices, subscriptions |-> m.subscriptions,
               nextId |-> m.nextId, shown |-> m.shown ]
  BY <1>1
<1>3. /\ DOMAIN m.subscriptions = DOMAIN n.subscriptions \cup {id0}
      /\ m.subscriptions[id0] = new
      /\ \A id \in DOMAIN n.subscriptions \ {id0} : m.subscriptions[id] = n.subscriptions[id]
  BY <1>2 DEF With
<1>4. /\ DOMAIN with = DOMAIN subs \cup {id0}
      /\ with[id0] = [device |-> d, active |-> TRUE]
      /\ \A id \in DOMAIN subs \ {id0} : with[id] = subs[id]
  BY DEF With
<1>5. /\ id0 \in Ids /\ id0 \in Nat /\ id0 + 1 \in 1..(MaxSubscriptions + 1)
      /\ DOMAIN subs \subseteq Ids /\ DOMAIN n.subscriptions \subseteq Ids
  BY Bounds DEF WorldOK, IdsLeft, Ids, RegistryOK, IsPartial
<1>6. id0 \notin DOMAIN subs /\ id0 \notin DOMAIN n.subscriptions
  BY <1>5 DEF WorldOK, RegistryOK
<1>7. \A id \in DOMAIN subs \cup DOMAIN n.subscriptions : id < id0 + 1
  <2>1. \A id \in DOMAIN subs \cup DOMAIN n.subscriptions : id \in Nat /\ id < id0
    BY <1>5, Bounds DEF WorldOK, RegistryOK
  <2> QED BY <1>5, <2>1
<1>8. RegistryOK(with, m.nextId) /\ RegistryOK(subs, m.nextId)
  <2>1. /\ \A id \in DOMAIN with : id < id0 + 1 /\ id \in Ids
        /\ \A id \in DOMAIN subs : id < id0 + 1 /\ id \in Ids
    BY <1>4, <1>5, <1>7
  <2>2. \A id \in DOMAIN with : with[id] \in [device : Devices, active : BOOLEAN]
    <3>1. with[id0] \in [device : Devices, active : BOOLEAN]
      <4>1. [device |-> d, active |-> TRUE] \in [device : Devices, active : BOOLEAN]
        OBVIOUS
      <4> QED BY <1>4, <4>1, Zenon
    <3>2. \A id \in DOMAIN subs : with[id] \in [device : Devices, active : BOOLEAN]
      BY <1>4, <1>6 DEF RegistryOK, IsPartial
    <3> QED BY <1>4, <3>1, <3>2
  <2> QED BY <1>2, <2>1, <2>2 DEF RegistryOK, IsPartial
<1>9. WorldOK(m)
  <2>1. new \in NativeSubscription
    BY DEF NativeSubscription
  <2>2. IsPartial(m.subscriptions, Ids, NativeSubscription)
    BY <1>3, <1>5, <1>6, <2>1 DEF WorldOK, IsPartial
  <2>3. \A id \in DOMAIN m.subscriptions : id < m.nextId
    BY <1>2, <1>3, <1>5, <1>7
  <2> QED BY <1>2, <1>5, <2>2, <2>3 DEF WorldOK
<1>10. /\ ActiveIn(with, id0) /\ with[id0].device = d
       /\ \A id \in Ids \ {id0} : /\ ActiveIn(with, id) <=> ActiveIn(subs, id)
                                  /\ id \in DOMAIN subs => with[id] = subs[id]
                                  /\ id \in DOMAIN m.subscriptions <=> id \in DOMAIN n.subscriptions
                                  /\ id \in DOMAIN n.subscriptions =>
                                        m.subscriptions[id] = n.subscriptions[id]
  <2>1. with[id0].active /\ with[id0].device = d /\ id0 \in DOMAIN with
    BY <1>4
  <2>2. ASSUME NEW id \in Ids \ {id0}
        PROVE  /\ id \in DOMAIN with <=> id \in DOMAIN subs
               /\ id \in DOMAIN subs => with[id] = subs[id]
               /\ id \in DOMAIN m.subscriptions <=> id \in DOMAIN n.subscriptions
               /\ id \in DOMAIN n.subscriptions => m.subscriptions[id] = n.subscriptions[id]
    BY <1>3, <1>4
  <2> HIDE DEF id0
  <2> QED BY <2>1, <2>2 DEF ActiveIn
<1>11. m.subscriptions[id0].device = d /\ m.subscriptions[id0].published = Nothing
  BY <1>3
<1> HIDE DEF id0, new
<1>12. ASSUME Agree(n, subs, {}) PROVE Agree(m, with, {})
  <2>1. ASSUME NEW id \in Ids
        PROVE  /\ ActiveIn(with, id) <=> id \in DOMAIN m.subscriptions
               /\ ActiveIn(with, id) => m.subscriptions[id].device = with[id].device
    <3>1. CASE id = id0
      BY <1>3, <1>10, <1>11, <3>1
    <3>2. CASE id # id0
      BY <1>10, <1>12, <3>2 DEF Agree, ActiveIn
    <3> QED BY <3>1, <3>2
  <2> QED BY <2>1 DEF Agree
<1>13. ASSUME NEW records, NEW told, Agree(n, subs, {}), Told(n, subs, records, told),
              id0 \notin DOMAIN records, told[id0] = Nothing
       PROVE  Told(m, with, records, told)
  <2> SUFFICES ASSUME NEW id \in Ids, ActiveIn(with, id)
               PROVE  LET subscription == m.subscriptions[id] IN
                      /\ subscription.published = IF id \in DOMAIN records THEN records[id]
                                                  ELSE told[id]
                      /\ subscription.published # Nothing =>
                            subscription.published = m.shown[subscription.device]
    BY DEF Told
  <2>1. CASE id = id0
    BY <1>11, <1>13, <2>1
  <2>2. CASE id # id0
    <3>1. ActiveIn(subs, id) /\ m.subscriptions[id] = n.subscriptions[id]
      BY <1>10, <1>13, <2>2 DEF Agree
    <3> QED BY <1>2, <1>13, <3>1 DEF Told
  <2> QED BY <2>1, <2>2
<1>14. /\ DOMAIN m.subscriptions = DOMAIN n.subscriptions \cup {id0}
       /\ \A id \in DOMAIN n.subscriptions : m.subscriptions[id] = n.subscriptions[id]
  BY <1>3, <1>6
<1> QED BY <1>2, <1>5, <1>6, <1>8, <1>9, <1>12, <1>13, <1>14 DEF id0

\* A subscription is erased, whether or not the registry knows of it.
LEMMA EraseFacts ==
    ASSUME NEW n, WorldOK(n), NEW id0, NEW m, m = Erase(n, id0)
    PROVE  /\ WorldOK(m) /\ m.nextId = n.nextId
           /\ DOMAIN m.subscriptions = DOMAIN n.subscriptions \ {id0}
           /\ m.shown = n.shown
           /\ \A id \in DOMAIN m.subscriptions : m.subscriptions[id] = n.subscriptions[id]
<1>1. m = [ devices |-> n.devices, subscriptions |-> Without(n.subscriptions, {id0}),
            nextId |-> n.nextId, shown |-> n.shown ]
  BY DEF WorldOK, Erase
<1>2. /\ m.devices = n.devices /\ m.subscriptions = Without(n.subscriptions, {id0})
      /\ m.nextId = n.nextId /\ m.shown = n.shown
      /\ m = [ devices |-> m.devices, subscriptions |-> m.subscriptions,
               nextId |-> m.nextId, shown |-> m.shown ]
  BY <1>1
<1>3. /\ DOMAIN m.subscriptions = DOMAIN n.subscriptions \ {id0}
      /\ \A id \in DOMAIN m.subscriptions : m.subscriptions[id] = n.subscriptions[id]
  BY <1>2 DEF Without, Restrict
<1>4. WorldOK(m)
  BY <1>2, <1>3 DEF WorldOK, IsPartial
<1> QED BY <1>2, <1>3, <1>4

-----------------------------------------------------------------------------
(* What the registry does with subscriptions that end.                     *)

\* While records are published, what has ended stays and is remembered once,
\* unless the list could not grow.
LEMMA DeferFacts ==
    ASSUME DeferredOK, RegistryOK(subscriptions, native.nextId), Publishing,
           UNCHANGED tick, NEW off \in SUBSET Ids, NEW done \in SUBSET off,
           \A id \in off : Active(id),
           subscriptions' = [i \in DOMAIN subscriptions |->
                                [subscriptions[i] EXCEPT !.active = @ /\ i \notin off]],
           NEW order \in SetToSeqs(done), deferred' = deferred \o order,
           ~poisoned' => ~poisoned /\ done = off
    PROVE  /\ RegistryOK(subscriptions', native.nextId) /\ DeferredOK'
           /\ DOMAIN subscriptions' = DOMAIN subscriptions
           /\ \A id \in Ids : Active(id)' <=> Active(id) /\ id \notin off
           /\ \A id \in Ids : Active(id)' => subscriptions'[id] = subscriptions[id]
<1>1. \A id \in DOMAIN subscriptions :
        subscriptions[id] \in [device : Devices, active : BOOLEAN] /\ id \in Ids
  BY DEF RegistryOK, IsPartial
<1>2. /\ DOMAIN subscriptions' = DOMAIN subscriptions
      /\ \A id \in DOMAIN subscriptions :
            subscriptions'[id] = [ device |-> subscriptions[id].device,
                                   active |-> subscriptions[id].active /\ id \notin off ]
  BY <1>1
<1>3. \A id \in DOMAIN subscriptions :
        /\ subscriptions'[id] \in [device : Devices, active : BOOLEAN]
        /\ subscriptions'[id].active <=> subscriptions[id].active /\ id \notin off
        /\ id \notin off => subscriptions'[id] = subscriptions[id]
  <2> SUFFICES ASSUME NEW id \in DOMAIN subscriptions
               PROVE  /\ subscriptions'[id] \in [device : Devices, active : BOOLEAN]
                      /\ subscriptions'[id].active <=> subscriptions[id].active /\ id \notin off
                      /\ id \notin off => subscriptions'[id] = subscriptions[id]
    OBVIOUS
  <2>1. PICK r : r = subscriptions[id]
    OBVIOUS
  <2>2. r \in [device : Devices, active : BOOLEAN]
    BY <1>1, <2>1
  <2>3. CASE id \in off
    <3>1. r.active /\ id \in DOMAIN subscriptions
      BY <2>1, <2>3 DEF Active
    <3>2. subscriptions'[id] = [device |-> r.device, active |-> FALSE]
      BY <1>2, <2>1, <2>3
    <3> QED BY <2>1, <2>2, <2>3, <3>2
  <2>4. CASE id \notin off
    <3>1. subscriptions'[id] = [device |-> r.device, active |-> r.active]
      BY <1>2, <2>1, <2>2, <2>4
    <3>2. subscriptions'[id] = r
      BY <2>2, <3>1
    <3> QED BY <2>1, <2>2, <2>4, <3>2
  <2> QED BY <2>3, <2>4
<1>4. /\ \A id \in Ids : Active(id)' <=> Active(id) /\ id \notin off
      /\ \A id \in Ids : Active(id)' => subscriptions'[id] = subscriptions[id]
  BY <1>2, <1>3 DEF Active
<1>5. RegistryOK(subscriptions', native.nextId)
  BY <1>2, <1>3 DEF RegistryOK, IsPartial
<1>6. /\ done \subseteq Ids /\ IsFiniteSet(done)
  <2>1. IsFiniteSet(Ids)
    BY IdsAreFinite
  <2>2. done \in SUBSET Ids
    OBVIOUS
  <2> QED BY <2>1, <2>2, FS_Subset, Zenon
<1>7. /\ order \in Seq(Ids) /\ Distinct(order)
      /\ \A x : Has(order, x) <=> x \in done
  <2>1. order \in Seq(done) /\ Distinct(order) /\ \A x : Has(order, x) <=> x \in done
    BY <1>6, OrderFacts
  <2> QED BY <1>6, <2>1
<1>8. /\ deferred \in Seq(Ids) /\ Distinct(deferred)
      /\ \A id : Has(deferred, id) => id \in DOMAIN subscriptions /\ ~Active(id)
  BY DEF DeferredOK
<1>9. \A x : ~(Has(deferred, x) /\ Has(order, x))
  BY <1>7, <1>8
<1>10. /\ deferred' \in Seq(Ids) /\ Distinct(deferred)'
       /\ \A x : Has(deferred', x) <=> Has(deferred, x) \/ Has(order, x)
  <2>1. PICK u : u = deferred'
    OBVIOUS
  <2>2. u = deferred \o order
    BY <2>1
  <2>3. u \in Seq(Ids) /\ Distinct(u) /\ \A x : Has(u, x) <=> Has(deferred, x) \/ Has(order, x)
    BY <1>7, <1>8, <1>9, <2>2, AppendedFacts
  <2> QED BY <2>1, <2>3 DEF Distinct
<1>11. \A x : Has(deferred', x) => x \in DOMAIN subscriptions' /\ ~Active(x)'
  <2> SUFFICES ASSUME NEW x, Has(deferred', x)
               PROVE  x \in DOMAIN subscriptions' /\ ~Active(x)'
    OBVIOUS
  <2>1. (x \in DOMAIN subscriptions /\ ~Active(x)) \/ x \in off
    BY <1>7, <1>8, <1>10
  <2>2. x \in DOMAIN subscriptions /\ x \in Ids
    BY <1>1, <2>1 DEF Active
  <2> QED BY <1>2, <1>4, <2>1, <2>2
<1>12. ASSUME ~poisoned', NEW id \in DOMAIN subscriptions'
       PROVE  Active(id)' \/ Has(deferred', id)
  <2>1. id \in DOMAIN subscriptions /\ id \in Ids
    BY <1>1, <1>2
  <2>2. Active(id) \/ Has(deferred, id)
    BY <1>12, <2>1 DEF DeferredOK
  <2> QED BY <1>4, <1>7, <1>10, <1>12, <2>1, <2>2
<1>13. Publishing'
  BY DEF Publishing
<1>14. DeferredOK'
  BY <1>10, <1>11, <1>12, <1>13 DEF DeferredOK, Has
<1> QED BY <1>2, <1>4, <1>5, <1>14

\* Between ticks what has ended goes at once; in both cases the subscriptions
\* that are left active are the others.
LEMMA DeactivateFacts ==
    ASSUME DeferredOK, RegistryOK(subscriptions, native.nextId), UNCHANGED tick,
           NEW ids \in SUBSET Ids, \A id \in ids : Active(id), ~poisoned,
           (Deactivate(ids) /\ ~poisoned') \/ DeactivateFails(ids)
    PROVE  /\ RegistryOK(subscriptions', native.nextId) /\ DeferredOK'
           /\ Publishing => DOMAIN subscriptions' = DOMAIN subscriptions
           /\ ~poisoned' => \A id \in Ids :
                /\ Active(id)' <=> Active(id) /\ id \notin ids
                /\ Active(id)' => subscriptions'[id] = subscriptions[id]
<1>1. CASE Deactivate(ids) /\ ~poisoned' /\ Publishing
  <2>1. /\ subscriptions' = [i \in DOMAIN subscriptions |->
                [subscriptions[i] EXCEPT !.active = @ /\ i \notin ids]]
        /\ \E order \in SetToSeqs(ids) : deferred' = deferred \o order
    BY <1>1 DEF Deactivate
  <2> QED BY <1>1, <2>1, DeferFacts
<1>2. CASE DeactivateFails(ids)
  <2>1. PICK id \in ids, done \in SUBSET ids :
            /\ subscriptions' = [i \in DOMAIN subscriptions |->
                    [subscriptions[i] EXCEPT !.active = @ /\ i \notin done \cup {id}]]
            /\ \E order \in SetToSeqs(done) : deferred' = deferred \o order
    BY <1>2 DEF DeactivateFails
  <2>2. PICK off : off = done \cup {id}
    OBVIOUS
  <2>3. /\ poisoned' = TRUE /\ Publishing
        /\ off \in SUBSET Ids /\ done \in SUBSET off /\ \A i \in off : Active(i)
        /\ subscriptions' = [i \in DOMAIN subscriptions |->
                [subscriptions[i] EXCEPT !.active = @ /\ i \notin off]]
    BY <1>2, <2>1, <2>2 DEF DeactivateFails
  <2> QED BY <2>1, <2>3, DeferFacts
<1>3. CASE Deactivate(ids) /\ ~poisoned' /\ ~Publishing
  <2>1. subscriptions' = Without(subscriptions, ids) /\ deferred' = deferred
    BY <1>3 DEF Deactivate
  <2>2. /\ DOMAIN subscriptions' = DOMAIN subscriptions \ ids
        /\ \A id \in DOMAIN subscriptions' : subscriptions'[id] = subscriptions[id]
    BY <2>1 DEF Without, Restrict
  <2>3. RegistryOK(subscriptions', native.nextId)
    BY <2>2 DEF RegistryOK, IsPartial
  <2>4. \A id \in Ids : /\ Active(id)' <=> Active(id) /\ id \notin ids
                        /\ Active(id)' => subscriptions'[id] = subscriptions[id]
    BY <2>2 DEF Active
  <2>5. deferred = << >> /\ \A id \in DOMAIN subscriptions : Active(id)
    BY <1>3 DEF DeferredOK, Has
  <2>6. DeferredOK'
    <3>1. deferred' = << >>
      BY <2>1, <2>5
    <3>2. \A id \in DOMAIN subscriptions' : Active(id)'
      BY <2>2, <2>5 DEF Active
    <3> QED BY <3>1, <3>2 DEF DeferredOK, Distinct, Has
  <2> QED BY <1>3, <2>3, <2>4, <2>6
<1> QED BY <1>1, <1>2, <1>3

-----------------------------------------------------------------------------
(* The calls of a system.                                                  *)

\* Nothing was created, and nothing is known.
LEMMA SystemInvInit == Init => SystemInv
<1> SUFFICES ASSUME Init PROVE SystemInv
  OBVIOUS
<1>1. /\ DOMAIN NoneOf = {} /\ NoneOf = [id \in {} |-> Nothing]
      /\ \A id : ~ActiveIn(NoneOf, id)
  BY DEF NoneOf, ActiveIn
<1>2. Unavailable \in Shown
  BY Bounds
<1>3. /\ native = [ devices |-> {}, subscriptions |-> NoneOf, nextId |-> 1,
                    shown |-> [d \in Devices |-> Unavailable] ]
      /\ batch = [adds |-> {}, removes |-> {}] /\ subscriptions = NoneOf /\ deferred = << >>
      /\ capacity = 0 /\ tick = [phase |-> "idle", resized |-> FALSE, records |-> NoneOf]
      /\ poisoned = FALSE /\ worldPoisoned = FALSE /\ closed = FALSE /\ faulty = FALSE
      /\ seen = [id \in Ids |-> Nothing]
  BY DEF Init, NoBatch, Idle
<1>4. WorldOK(native)
  BY <1>1, <1>2, <1>3, Bounds DEF WorldOK, IsPartial
<1>5. RegistryOK(subscriptions, native.nextId)
  BY <1>1, <1>3 DEF RegistryOK, IsPartial
<1>6. TickOK
  BY <1>1, <1>3, Bounds DEF TickOK, IsPartial, Publishing, RecordsFindTheirListener
<1>7. SeenOK
  BY <1>3 DEF SeenOK
<1>8. DeferredOK
  BY <1>1, <1>3 DEF DeferredOK, Distinct, Has
<1>9. FlagsOK
  BY <1>3 DEF FlagsOK, OnlyFaultsPoison
<1>10. AgreeInv
  BY <1>1, <1>3 DEF AgreeInv, Agree, Told
<1> QED BY <1>4, <1>5, <1>6, <1>7, <1>8, <1>9, <1>10 DEF SystemInv

\* A call from a listener leaves the tick to it, and its records to theirs.
LEMMA CallStep ==
    ASSUME SystemInv, tick.phase \in {"idle", "callback"},
           UNCHANGED <<tick, capacity, seen>>,
           WorldOK(native'), RegistryOK(subscriptions', native'.nextId),
           native.nextId <= native'.nextId,
           Publishing => DOMAIN subscriptions \subseteq DOMAIN subscriptions',
           DeferredOK', FlagsOK', AgreeInv'
    PROVE  SystemInv'
<1>1. TickOK'
  <2>1. UNCHANGED tick /\ UNCHANGED capacity
    OBVIOUS
  <2> QED BY <2>1 DEF SystemInv, TickOK, Publishing, RecordsFindTheirListener
<1>2. SeenOK'
  <2>1. native.nextId \in Nat /\ native'.nextId \in Nat /\ Ids \subseteq Nat /\ UNCHANGED seen
    BY Bounds DEF SystemInv, WorldOK
  <2> QED BY <2>1 DEF SystemInv, SeenOK
<1> QED BY <1>1, <1>2 DEF SystemInv

\* A device is created in the batch.
LEMMA CreateDeviceStep == ASSUME SystemInv, NEW d \in Devices, CreateDevice(d) PROVE SystemInv'
<1>1. /\ tick.phase \in {"idle", "callback"} /\ batch' = [batch EXCEPT !.adds = @ \cup {d}]
      /\ UNCHANGED native /\ UNCHANGED subscriptions /\ UNCHANGED deferred
      /\ UNCHANGED capacity /\ UNCHANGED tick /\ UNCHANGED poisoned /\ UNCHANGED worldPoisoned
      /\ UNCHANGED closed /\ UNCHANGED seen /\ UNCHANGED faulty
  BY DEF CreateDevice, Callable
<1>2. /\ batch' \in [adds : SUBSET Devices, removes : SUBSET Devices]
      /\ batch'.removes = batch.removes
  BY <1>1 DEF SystemInv, FlagsOK
<1>3. FlagsOK'
  BY <1>1, <1>2 DEF SystemInv, FlagsOK, OnlyFaultsPoison
<1>4. AgreeInv'
  BY <1>1, <1>2 DEF SystemInv, AgreeInv, Sound
<1>5. DeferredOK'
  BY <1>1 DEF SystemInv, DeferredOK, Active, Publishing
<1>6. WorldOK(native') /\ native.nextId \in Nat
  BY <1>1 DEF SystemInv, WorldOK
<1> QED BY <1>1, <1>3, <1>4, <1>5, <1>6, CallStep DEF SystemInv

\* The subscriptions of a device end with the call that removes it, though the
\* native world has them until the batch is applied.
LEMMA RemoveDeviceStep == ASSUME SystemInv, NEW d \in Devices, RemoveDevice(d) PROVE SystemInv'
<1> PICK ended : ended = {id \in DOMAIN subscriptions : Active(id) /\ subscriptions[id].device = d}
  OBVIOUS
<1>1. /\ tick.phase \in {"idle", "callback"} /\ ~poisoned
      /\ batch' = [batch EXCEPT !.removes = @ \cup {d}]
      /\ \/ Deactivate(ended) /\ UNCHANGED poisoned /\ UNCHANGED faulty
         \/ DeactivateFails(ended)
      /\ UNCHANGED native /\ UNCHANGED capacity /\ UNCHANGED tick
      /\ UNCHANGED worldPoisoned /\ UNCHANGED closed /\ UNCHANGED seen
  BY DEF RemoveDevice, Callable
<1>2. /\ batch' \in [adds : SUBSET Devices, removes : SUBSET Devices]
      /\ batch'.removes = batch.removes \cup {d}
  BY <1>1 DEF SystemInv, FlagsOK
<1>3. ended \in SUBSET Ids /\ \A id \in ended : Active(id)
  BY DEF SystemInv, RegistryOK, IsPartial
<1>4. /\ RegistryOK(subscriptions', native.nextId) /\ DeferredOK'
      /\ Publishing => DOMAIN subscriptions' = DOMAIN subscriptions
      /\ ~poisoned' => \A id \in Ids :
            /\ Active(id)' <=> Active(id) /\ id \notin ended
            /\ Active(id)' => subscriptions'[id] = subscriptions[id]
  BY <1>1, <1>3, DeactivateFacts DEF SystemInv
<1>5. FlagsOK'
  <2>1. \/ poisoned' = TRUE /\ faulty' = TRUE
        \/ UNCHANGED poisoned /\ UNCHANGED faulty
    BY <1>1 DEF DeactivateFails
  <2>2. UNCHANGED worldPoisoned /\ UNCHANGED closed
    BY <1>1
  <2>3. CASE poisoned' = TRUE /\ faulty' = TRUE
    BY <1>2, <2>2, <2>3 DEF SystemInv, FlagsOK, OnlyFaultsPoison
  <2>4. CASE UNCHANGED poisoned /\ UNCHANGED faulty
    BY <1>2, <2>2, <2>4 DEF SystemInv, FlagsOK, OnlyFaultsPoison
  <2> QED BY <2>1, <2>3, <2>4
<1>6. AgreeInv'
  <2> SUFFICES ASSUME Sound'
               PROVE  /\ Agree(native, subscriptions', batch'.removes)
                      /\ Told(native, subscriptions', tick.records, seen)
    BY <1>1 DEF AgreeInv
  <2>1. ~poisoned' /\ Sound
    BY <1>1 DEF Sound
  <2>2. \A id \in Ids : /\ ActiveIn(subscriptions, id) <=> Active(id)
                        /\ ActiveIn(subscriptions', id) <=> Active(id)'
    BY DEF ActiveIn, Active
  <2>3. /\ Agree(native, subscriptions, batch.removes)
        /\ Told(native, subscriptions, tick.records, seen)
    BY <2>1 DEF SystemInv, AgreeInv
  <2>4. \A id \in Ids : id \in ended <=> ActiveIn(subscriptions, id) /\ subscriptions[id].device = d
    BY <2>2 DEF ActiveIn
  <2>5. Agree(native, subscriptions', batch'.removes)
    BY <1>2, <1>4, <2>1, <2>2, <2>3, <2>4 DEF Agree
  <2>6. Told(native, subscriptions', tick.records, seen)
    BY <1>4, <2>1, <2>2, <2>3 DEF Told
  <2> QED BY <2>5, <2>6
<1>7. WorldOK(native') /\ native.nextId \in Nat
  BY <1>1 DEF SystemInv, WorldOK
<1> QED BY <1>1, <1>4, <1>5, <1>6, <1>7, CallStep

\* What a call that applies the commands starts from.
LEMMA AppliedInv ==
    ASSUME SystemInv, Sound, NEW m, m = ApplyCommands(native)
    PROVE  /\ WorldOK(m) /\ m.nextId = native.nextId /\ native.nextId \in Nat
           /\ RegistryOK(subscriptions, m.nextId)
           /\ DOMAIN m.subscriptions = {id \in DOMAIN native.subscriptions :
                                            native.subscriptions[id].device \notin batch.removes}
           /\ Agree(m, subscriptions, {}) /\ Told(m, subscriptions, tick.records, seen)
           /\ NoBatch \in [adds : SUBSET Devices, removes : SUBSET Devices]
           /\ NoBatch.removes = {}
<1>1. /\ WorldOK(native) /\ batch \in [adds : SUBSET Devices, removes : SUBSET Devices]
      /\ Agree(native, subscriptions, batch.removes)
      /\ Told(native, subscriptions, tick.records, seen)
      /\ RegistryOK(subscriptions, native.nextId)
  BY DEF SystemInv, FlagsOK, AgreeInv
<1>2. /\ WorldOK(m) /\ m.nextId = native.nextId
      /\ DOMAIN m.subscriptions = {id \in DOMAIN native.subscriptions :
                                        native.subscriptions[id].device \notin batch.removes}
      /\ Agree(m, subscriptions, {}) /\ Told(m, subscriptions, tick.records, seen)
  BY <1>1, AppliedFacts
<1>3. native.nextId \in Nat
  BY <1>1 DEF WorldOK
<1> QED BY <1>1, <1>2, <1>3 DEF NoBatch

\* Flags of a call that may fail.
LEMMA FlagsStep ==
    ASSUME SystemInv, poisoned' \in BOOLEAN, worldPoisoned' \in BOOLEAN, UNCHANGED closed,
           batch' \in [adds : SUBSET Devices, removes : SUBSET Devices],
           \/ faulty' = TRUE
           \/ UNCHANGED faulty /\ (poisoned' => poisoned) /\ (worldPoisoned' => worldPoisoned)
    PROVE  FlagsOK'
<1>1. CASE faulty' = TRUE
  BY <1>1 DEF SystemInv, FlagsOK, OnlyFaultsPoison
<1>2. CASE UNCHANGED faulty /\ (poisoned' => poisoned) /\ (worldPoisoned' => worldPoisoned)
  BY <1>2 DEF SystemInv, FlagsOK, OnlyFaultsPoison
<1> QED BY <1>1, <1>2

\* A subscription is in both, in neither, or the system is unusable.
LEMMA SubscribeStep == ASSUME SystemInv, NEW d \in Devices, Subscribe(d) PROVE SystemInv'
<1> PICK m : m = ApplyCommands(native)
  OBVIOUS
<1>1. PICK result \in NativeSubscribe(m, d) :
        \/ /\ result.code = "Success"
           /\ native' = result.world
           /\ subscriptions' = With(subscriptions, result.world.nextId - 1,
                                    [device |-> d, active |-> TRUE])
           /\ UNCHANGED <<poisoned, worldPoisoned, faulty>>
        \/ /\ result.code = "Success"
           /\ RollBackSubscription(result.world, result.world.nextId - 1)
           /\ UNCHANGED subscriptions
        \/ /\ result.code # "Success"
           /\ native' = result.world
           /\ HandleSubscriptionFailure(result.code)
           /\ UNCHANGED <<subscriptions, poisoned>>
  BY DEF Subscribe
<1>2. /\ tick.phase \in {"idle", "callback"} /\ Sound /\ batch' = NoBatch
      /\ UNCHANGED deferred /\ UNCHANGED capacity /\ UNCHANGED tick
      /\ UNCHANGED closed /\ UNCHANGED seen
  BY DEF Subscribe, Callable, Sound
<1>3. /\ result.code = "Success" => result.world = Insert(m, d) /\ IdsLeft(m)
      /\ result.code # "Success" => result.world = m
  BY DEF NativeSubscribe
<1>4. /\ WorldOK(m) /\ m.nextId = native.nextId /\ native.nextId \in Nat
      /\ RegistryOK(subscriptions, m.nextId)
      /\ Agree(m, subscriptions, {}) /\ Told(m, subscriptions, tick.records, seen)
      /\ batch' \in [adds : SUBSET Devices, removes : SUBSET Devices] /\ batch'.removes = {}
  BY <1>2, AppliedInv
<1>5. CASE result.code # "Success"
  <2>1. /\ native' = m /\ UNCHANGED subscriptions /\ UNCHANGED poisoned
        /\ worldPoisoned' = (result.code = "InternalPanic")
        /\ faulty' = (faulty \/ result.code = "InternalPanic")
    BY <1>1, <1>3, <1>5 DEF HandleSubscriptionFailure
  <2>2. FlagsOK'
    <3>1. CASE result.code = "InternalPanic"
      BY <1>2, <1>4, <2>1, <3>1, FlagsStep DEF SystemInv, FlagsOK
    <3>2. CASE result.code # "InternalPanic"
      <4>1. worldPoisoned' = FALSE /\ poisoned' \in BOOLEAN /\ faulty' = faulty
        BY <2>1, <3>2 DEF SystemInv, FlagsOK
      <4> QED BY <1>2, <1>4, <2>1, <4>1, FlagsStep
    <3> QED BY <3>1, <3>2
  <2>3. AgreeInv'
    BY <1>2, <1>4, <2>1 DEF AgreeInv
  <2>4. DeferredOK'
    BY <1>2, <2>1 DEF SystemInv, DeferredOK, Active, Publishing
  <2> QED BY <1>2, <1>4, <2>1, <2>2, <2>3, <2>4, CallStep
<1>6. CASE result.code = "Success"
  <2> PICK n : n = Insert(m, d)
    OBVIOUS
  <2> PICK with : with = With(subscriptions, m.nextId, [device |-> d, active |-> TRUE])
    OBVIOUS
  <2>1. /\ WorldOK(n) /\ n.nextId = m.nextId + 1 /\ m.nextId \in Ids
        /\ RegistryOK(with, n.nextId) /\ RegistryOK(subscriptions, n.nextId)
        /\ m.nextId \notin DOMAIN subscriptions /\ m.nextId \notin DOMAIN m.subscriptions
        /\ DOMAIN n.subscriptions = DOMAIN m.subscriptions \cup {m.nextId}
        /\ \A id \in DOMAIN m.subscriptions : n.subscriptions[id] = m.subscriptions[id]
        /\ n.shown = m.shown
        /\ Agree(n, with, {})
        /\ /\ m.nextId \notin DOMAIN tick.records /\ seen[m.nextId] = Nothing
           => Told(n, with, tick.records, seen)
    BY <1>3, <1>4, <1>6, InsertFacts
  <2>2. m.nextId \notin DOMAIN tick.records /\ seen[m.nextId] = Nothing
    <3>1. seen[m.nextId] = Nothing
      BY <1>4, <2>1 DEF SystemInv, SeenOK
    <3>2. DOMAIN tick.records \subseteq DOMAIN subscriptions
      BY DEF SystemInv, TickOK, RecordsFindTheirListener, NoneOf
    <3> QED BY <2>1, <3>1, <3>2
  <2>3. result.world = n /\ result.world.nextId - 1 = m.nextId
    BY <1>3, <1>4, <1>6, <2>1
  <2>4. CASE /\ native' = n /\ subscriptions' = with
             /\ UNCHANGED poisoned /\ UNCHANGED worldPoisoned /\ UNCHANGED faulty
    <3>1. FlagsOK'
      BY <1>2, <1>4, <2>4, FlagsStep DEF SystemInv, FlagsOK
    <3>2. AgreeInv'
      BY <1>2, <1>4, <2>1, <2>2, <2>4 DEF AgreeInv
    <3>3. /\ DOMAIN with = DOMAIN subscriptions \cup {m.nextId} /\ ActiveIn(with, m.nextId)
          /\ \A id \in DOMAIN subscriptions : with[id] = subscriptions[id]
      BY <2>1 DEF With, ActiveIn
    <3>4. DeferredOK'
      <4>1. \A id \in DOMAIN subscriptions : Active(id)' <=> Active(id)
        BY <2>4, <3>3 DEF Active
      <4>2. Active(m.nextId)'
        BY <2>4, <3>3 DEF Active, ActiveIn
      <4>3. UNCHANGED deferred /\ Publishing' = Publishing
        BY <1>2 DEF Publishing
      <4>4. \A id \in DOMAIN subscriptions' : id \in DOMAIN subscriptions \/ id = m.nextId
        BY <2>4, <3>3
      <4>5. \A id : Has(deferred, id) => id \in DOMAIN subscriptions' /\ ~Active(id)'
        BY <2>4, <3>3, <4>1 DEF SystemInv, DeferredOK
      <4>6. ~poisoned' => \A id \in DOMAIN subscriptions' : Active(id)' \/ Has(deferred, id)
        BY <2>4, <4>1, <4>2, <4>4 DEF SystemInv, DeferredOK
      <4> QED BY <4>3, <4>5, <4>6 DEF SystemInv, DeferredOK, Has, Distinct
    <3>5. /\ WorldOK(native') /\ RegistryOK(subscriptions', native'.nextId)
          /\ native.nextId <= native'.nextId /\ DOMAIN subscriptions \subseteq DOMAIN subscriptions'
      <4>1. WorldOK(native') /\ RegistryOK(subscriptions', native'.nextId)
        BY <2>1, <2>4
      <4>2. native'.nextId = native.nextId + 1
        BY <1>4, <2>1, <2>4
      <4>3. native.nextId <= native'.nextId
        BY <1>4, <4>2
      <4>4. DOMAIN subscriptions' = DOMAIN subscriptions \cup {m.nextId}
        BY <2>4, <3>3
      <4> QED BY <4>1, <4>3, <4>4
    <3> QED BY <1>2, <3>1, <3>2, <3>4, <3>5, CallStep
  <2>5. CASE RollBackSubscription(n, m.nextId) /\ UNCHANGED subscriptions
    <3>1. faulty' = TRUE
      BY <2>5 DEF RollBackSubscription
    <3>2. DeferredOK'
      <4>1. poisoned' = poisoned \/ poisoned' = TRUE
        BY <2>5 DEF RollBackSubscription
      <4> QED BY <1>2, <2>5, <4>1 DEF SystemInv, DeferredOK, Active, Publishing
    <3>3. CASE native' = Erase(n, m.nextId) /\ UNCHANGED poisoned /\ UNCHANGED worldPoisoned
      <4>1. PICK e : e = Erase(n, m.nextId)
        OBVIOUS
      <4>2. /\ WorldOK(e) /\ e.nextId = n.nextId /\ e.shown = n.shown
            /\ DOMAIN e.subscriptions = DOMAIN n.subscriptions \ {m.nextId}
            /\ \A id \in DOMAIN e.subscriptions : e.subscriptions[id] = n.subscriptions[id]
        BY <2>1, <4>1, EraseFacts
      <4>3. /\ DOMAIN e.subscriptions = DOMAIN m.subscriptions /\ e.shown = m.shown
            /\ \A id \in DOMAIN m.subscriptions : e.subscriptions[id] = m.subscriptions[id]
        BY <2>1, <4>2
      <4>4. Agree(e, subscriptions, {})
        BY <1>4, <4>3 DEF Agree
      <4>5. Told(e, subscriptions, tick.records, seen)
        <5>1. \A id \in Ids : ActiveIn(subscriptions, id) => id \in DOMAIN m.subscriptions
          BY <1>4 DEF Agree
        <5> QED BY <1>4, <4>3, <5>1 DEF Told
      <4>6. AgreeInv'
        BY <1>2, <1>4, <2>5, <3>3, <4>1, <4>4, <4>5 DEF AgreeInv
      <4>7. FlagsOK'
        BY <1>2, <1>4, <3>1, <3>3, FlagsStep DEF SystemInv, FlagsOK
      <4>8. native'.nextId = native.nextId + 1 /\ native' = e
        BY <1>4, <2>1, <3>3, <4>1, <4>2
      <4>9. RegistryOK(subscriptions', native'.nextId) /\ WorldOK(native')
        BY <2>1, <2>5, <4>2, <4>8
      <4> QED BY <1>2, <1>4, <2>5, <3>2, <4>6, <4>7, <4>8, <4>9, CallStep
    <3>4. CASE native' = n /\ poisoned' = TRUE /\ worldPoisoned' = TRUE
      <4>1. FlagsOK'
        BY <1>2, <1>4, <3>1, <3>4, FlagsStep
      <4>2. AgreeInv'
        BY <3>4 DEF AgreeInv, Sound
      <4> QED BY <1>2, <1>4, <2>1, <2>5, <3>2, <3>4, <4>1, <4>2, CallStep
    <3> QED BY <2>5, <3>3, <3>4 DEF RollBackSubscription
  <2> QED BY <1>1, <1>6, <2>3, <2>4, <2>5
<1> QED BY <1>5, <1>6

\* A subscription ends in both, unless the native world fails; it never is
\* unknown there.
LEMMA UnsubscribeStep == ASSUME SystemInv, NEW id0 \in Ids, Unsubscribe(id0) PROVE SystemInv'
<1> PICK m : m = ApplyCommands(native)
  OBVIOUS
<1>1. PICK result \in NativeUnsubscribe(m, id0) :
        /\ native' = result.world
        /\ \/ /\ result.code = "Success"
              /\ \/ Deactivate({id0}) /\ UNCHANGED <<poisoned, faulty>>
                 \/ DeactivateFails({id0})
              /\ UNCHANGED worldPoisoned
           \/ /\ result.code # "Success"
              /\ HandleSubscriptionFailure(result.code)
              /\ poisoned' = (result.code = "UnknownSubscription")
              /\ UNCHANGED <<subscriptions, deferred>>
  BY DEF Unsubscribe
<1>2. /\ tick.phase \in {"idle", "callback"} /\ Sound /\ Active(id0) /\ batch' = NoBatch
      /\ UNCHANGED capacity /\ UNCHANGED tick /\ UNCHANGED closed /\ UNCHANGED seen
  BY DEF Unsubscribe, Callable, Sound
<1>3. /\ WorldOK(m) /\ m.nextId = native.nextId /\ native.nextId \in Nat
      /\ RegistryOK(subscriptions, m.nextId)
      /\ Agree(m, subscriptions, {}) /\ Told(m, subscriptions, tick.records, seen)
      /\ batch' \in [adds : SUBSET Devices, removes : SUBSET Devices] /\ batch'.removes = {}
  BY <1>2, AppliedInv
<1>4. id0 \in DOMAIN m.subscriptions
  BY <1>2, <1>3 DEF Agree, Active, ActiveIn
<1>5. \/ result.code = "InternalPanic" /\ result.world = m
      \/ result.code = "Success" /\ result.world = Erase(m, id0)
  BY <1>4 DEF NativeUnsubscribe
<1>6. CASE result.code = "InternalPanic"
  <2>1. /\ native' = m /\ UNCHANGED subscriptions /\ UNCHANGED deferred
        /\ poisoned' = FALSE /\ worldPoisoned' = TRUE /\ faulty' = TRUE
    BY <1>1, <1>5, <1>6 DEF HandleSubscriptionFailure, SystemInv, FlagsOK
  <2>2. FlagsOK'
    BY <1>2, <1>3, <2>1, FlagsStep
  <2>3. AgreeInv'
    BY <2>1 DEF AgreeInv, Sound
  <2>4. DeferredOK'
    BY <1>2, <2>1 DEF SystemInv, DeferredOK, Active, Publishing, Sound
  <2>5. /\ WorldOK(native') /\ RegistryOK(subscriptions', native'.nextId)
        /\ native.nextId <= native'.nextId /\ DOMAIN subscriptions \subseteq DOMAIN subscriptions'
    BY <1>3, <2>1
  <2> QED BY <1>2, <2>2, <2>3, <2>4, <2>5, CallStep
<1>7. CASE result.code = "Success"
  <2> PICK e : e = Erase(m, id0)
    OBVIOUS
  <2>1. /\ WorldOK(e) /\ e.nextId = m.nextId /\ e.shown = m.shown
        /\ DOMAIN e.subscriptions = DOMAIN m.subscriptions \ {id0}
        /\ \A id \in DOMAIN e.subscriptions : e.subscriptions[id] = m.subscriptions[id]
    BY <1>3, EraseFacts
  <2>2. /\ native' = e /\ UNCHANGED worldPoisoned
        /\ \/ Deactivate({id0}) /\ UNCHANGED poisoned /\ UNCHANGED faulty
           \/ DeactivateFails({id0})
    BY <1>1, <1>5, <1>7
  <2>3. ~poisoned /\ ((Deactivate({id0}) /\ ~poisoned') \/ DeactivateFails({id0}))
    BY <1>2, <2>2 DEF Sound
  <2>4. /\ RegistryOK(subscriptions', native.nextId) /\ DeferredOK'
        /\ Publishing => DOMAIN subscriptions' = DOMAIN subscriptions
        /\ ~poisoned' => \A id \in Ids :
              /\ Active(id)' <=> Active(id) /\ id \notin {id0}
              /\ Active(id)' => subscriptions'[id] = subscriptions[id]
    BY <1>2, <2>3, DeactivateFacts DEF SystemInv
  <2>5. FlagsOK'
    <3>1. CASE DeactivateFails({id0})
      <4>1. poisoned' = TRUE /\ faulty' = TRUE
        BY <3>1 DEF DeactivateFails
      <4> QED BY <1>2, <1>3, <2>2, <4>1, FlagsStep DEF SystemInv, FlagsOK
    <3>2. CASE UNCHANGED poisoned /\ UNCHANGED faulty
      BY <1>2, <1>3, <2>2, <3>2, FlagsStep DEF SystemInv, FlagsOK
    <3> QED BY <2>2, <3>1, <3>2
  <2>6. AgreeInv'
    <3> SUFFICES ASSUME Sound'
                 PROVE  /\ Agree(e, subscriptions', {})
                        /\ Told(e, subscriptions', tick.records, seen)
      BY <1>2, <1>3, <2>2 DEF AgreeInv
    <3>1. \A id \in Ids :
            /\ ActiveIn(subscriptions', id) <=> ActiveIn(subscriptions, id) /\ id # id0
            /\ ActiveIn(subscriptions', id) => subscriptions'[id] = subscriptions[id]
      BY <2>4 DEF Sound, Active, ActiveIn
    <3>2. Agree(e, subscriptions', {})
      BY <1>3, <2>1, <3>1 DEF Agree
    <3>3. Told(e, subscriptions', tick.records, seen)
      <4>1. \A id \in Ids : ActiveIn(subscriptions', id) =>
                e.subscriptions[id] = m.subscriptions[id] /\ ActiveIn(subscriptions, id)
        BY <1>3, <2>1, <3>1 DEF Agree
      <4> QED BY <1>3, <2>1, <4>1 DEF Told
    <3> QED BY <3>2, <3>3
  <2>7. /\ WorldOK(native') /\ RegistryOK(subscriptions', native'.nextId)
        /\ native.nextId <= native'.nextId
    BY <1>3, <2>1, <2>2, <2>4
  <2> QED BY <1>2, <2>4, <2>5, <2>6, <2>7, CallStep
<1> QED BY <1>5, <1>6, <1>7

\* Commands that cannot be applied poison the world and change nothing else.
LEMMA CallFailsToApplyStep == ASSUME SystemInv, CallFailsToApply PROVE SystemInv'
<1>1. /\ tick.phase \in {"idle", "callback"} /\ worldPoisoned' = TRUE /\ faulty' = TRUE
      /\ UNCHANGED native /\ UNCHANGED batch /\ UNCHANGED subscriptions /\ UNCHANGED deferred
      /\ UNCHANGED capacity /\ UNCHANGED poisoned /\ UNCHANGED closed /\ UNCHANGED seen
      /\ UNCHANGED tick
  BY DEF CallFailsToApply, ApplyFails, Callable
<1>2. FlagsOK'
  BY <1>1, FlagsStep DEF SystemInv, FlagsOK
<1>3. AgreeInv'
  BY <1>1 DEF AgreeInv, Sound
<1>4. DeferredOK'
  BY <1>1 DEF SystemInv, DeferredOK, Active, Publishing
<1>5. WorldOK(native') /\ native.nextId \in Nat
  BY <1>1 DEF SystemInv, WorldOK
<1> QED BY <1>1, <1>2, <1>3, <1>4, <1>5, CallStep DEF SystemInv

\* A closed system has no listeners.
LEMMA CloseStep == ASSUME SystemInv, Close PROVE SystemInv'
<1>1. /\ tick.phase = "idle"
      /\ UNCHANGED native /\ UNCHANGED batch /\ UNCHANGED capacity /\ UNCHANGED tick
      /\ UNCHANGED worldPoisoned /\ UNCHANGED seen
  BY DEF Close
<1>2. WorldOK(native') /\ native.nextId \in Nat
  BY <1>1 DEF SystemInv, WorldOK
<1>3. CASE /\ closed' = TRUE /\ subscriptions' = NoneOf /\ deferred' = << >>
           /\ UNCHANGED poisoned /\ UNCHANGED faulty
  <2>1. DOMAIN NoneOf = {}
    BY DEF NoneOf
  <2>2. FlagsOK'
    BY <1>1, <1>3 DEF SystemInv, FlagsOK, OnlyFaultsPoison
  <2>3. AgreeInv'
    BY <1>3 DEF AgreeInv, Sound
  <2>4. DeferredOK'
    BY <1>3, <2>1 DEF DeferredOK, Distinct, Has
  <2>5. RegistryOK(subscriptions', native'.nextId)
    BY <1>3, <2>1 DEF RegistryOK, IsPartial
  <2>6. ~Publishing
    BY <1>1 DEF Publishing
  <2> QED BY <1>1, <1>2, <2>2, <2>3, <2>4, <2>5, <2>6, CallStep
<1>4. CASE /\ poisoned' = TRUE /\ faulty' = TRUE
           /\ UNCHANGED subscriptions /\ UNCHANGED deferred /\ UNCHANGED closed
  <2>1. FlagsOK'
    BY <1>1, <1>4, FlagsStep DEF SystemInv, FlagsOK
  <2>2. AgreeInv'
    BY <1>4 DEF AgreeInv, Sound
  <2>3. DeferredOK'
    BY <1>1, <1>4 DEF SystemInv, DeferredOK, Active, Publishing
  <2> QED BY <1>1, <1>2, <1>4, <2>1, <2>2, <2>3, CallStep DEF SystemInv
<1> QED BY <1>3, <1>4 DEF Close

-----------------------------------------------------------------------------
(* The tick and the publication.                                           *)

\* A tick begins with the commands applied, or not at all.
LEMMA BeginTickStep == ASSUME SystemInv, BeginTick PROVE SystemInv'
<1>1. Sound /\ tick.phase = "idle"
  BY DEF BeginTick, Sound
<1>2. CASE ApplyFails /\ UNCHANGED tick
  BY <1>1, <1>2, CallFailsToApplyStep DEF CallFailsToApply, Callable, Sound
<1>3. CASE /\ native' = ApplyCommands(native) /\ batch' = NoBatch
           /\ tick' = [tick EXCEPT !.phase = "native"]
           /\ UNCHANGED <<subscriptions, deferred, capacity, poisoned, worldPoisoned, closed,
                          seen, faulty>>
  <2>1. /\ UNCHANGED subscriptions /\ UNCHANGED deferred /\ UNCHANGED capacity
        /\ UNCHANGED poisoned /\ UNCHANGED worldPoisoned /\ UNCHANGED closed /\ UNCHANGED seen
        /\ UNCHANGED faulty
    BY <1>3
  <2>2. PICK m : m = ApplyCommands(native)
    OBVIOUS
  <2>3. /\ WorldOK(m) /\ m.nextId = native.nextId
        /\ RegistryOK(subscriptions, m.nextId)
        /\ Agree(m, subscriptions, {}) /\ Told(m, subscriptions, tick.records, seen)
        /\ NoBatch \in [adds : SUBSET Devices, removes : SUBSET Devices]
        /\ NoBatch.removes = {}
    BY <1>1, <2>2, AppliedInv
  <2>4. /\ tick' = [phase |-> "native", resized |-> tick.resized, records |-> tick.records]
        /\ native' = m
    BY <1>3, <2>2 DEF SystemInv, TickOK
  <2>5. /\ tick'.phase = "native" /\ tick'.resized = FALSE /\ tick'.records = tick.records
        /\ tick.records = NoneOf
    BY <1>1, <2>4 DEF SystemInv, TickOK, Publishing
  <2>6. Sound'
    BY <1>1, <2>1 DEF Sound
  <2>7. TickOK'
    BY <1>3, <2>1, <2>4, <2>5, <2>6
    DEF SystemInv, TickOK, Publishing, RecordsFindTheirListener
  <2>8. SeenOK'
    BY <2>1, <2>3, <2>4 DEF SystemInv, SeenOK
  <2>9. DeferredOK'
    BY <1>1, <2>1, <2>5 DEF SystemInv, DeferredOK, Active, Publishing
  <2>10. FlagsOK'
    BY <1>3, <2>1, <2>3 DEF SystemInv, FlagsOK, OnlyFaultsPoison
  <2>11. AgreeInv'
    BY <1>3, <2>1, <2>3, <2>4, <2>5 DEF AgreeInv
  <2>12. WorldOK(native') /\ RegistryOK(subscriptions', native'.nextId)
    BY <2>1, <2>3, <2>4
  <2> QED BY <2>7, <2>8, <2>9, <2>10, <2>11, <2>12 DEF SystemInv
<1> QED BY <1>2, <1>3 DEF BeginTick

\* A tick that ends before anything was published leaves the system as it was.
LEMMA TickEndsStep ==
    ASSUME SystemInv, tick.phase = "native", tick' = Idle,
           UNCHANGED <<native, batch, subscriptions, deferred, capacity, poisoned, closed, seen>>,
           \/ UNCHANGED worldPoisoned /\ UNCHANGED faulty
           \/ worldPoisoned' \in BOOLEAN /\ faulty' = TRUE
    PROVE  SystemInv'
<1>1. /\ UNCHANGED native /\ UNCHANGED batch /\ UNCHANGED subscriptions /\ UNCHANGED deferred
      /\ UNCHANGED capacity /\ UNCHANGED poisoned /\ UNCHANGED closed /\ UNCHANGED seen
  OBVIOUS
<1>2. /\ tick' = [phase |-> "idle", resized |-> FALSE, records |-> NoneOf]
      /\ tick.records = NoneOf
  BY DEF Idle, SystemInv, TickOK, Publishing
<1>3. TickOK'
  BY <1>1, <1>2 DEF SystemInv, TickOK, Publishing, RecordsFindTheirListener
<1>4. SeenOK'
  BY <1>1 DEF SystemInv, SeenOK
<1>5. DeferredOK'
  BY <1>1, <1>2 DEF SystemInv, DeferredOK, Active, Publishing
<1>6. FlagsOK'
  <2>1. CASE UNCHANGED worldPoisoned /\ UNCHANGED faulty
    BY <1>1, <2>1 DEF SystemInv, FlagsOK, OnlyFaultsPoison
  <2>2. CASE worldPoisoned' \in BOOLEAN /\ faulty' = TRUE
    BY <1>1, <2>2 DEF SystemInv, FlagsOK, OnlyFaultsPoison
  <2> QED BY <2>1, <2>2
<1>7. AgreeInv'
  <2>1. Sound
    BY DEF SystemInv, TickOK
  <2>2. tick'.records = tick.records
    BY <1>2
  <2> QED BY <1>1, <2>1, <2>2 DEF SystemInv, AgreeInv
<1> QED BY <1>1, <1>3, <1>4, <1>5, <1>6, <1>7 DEF SystemInv

\* A buffer that is too small grows to what is required, so the tick is called
\* once more at most.
LEMMA TickTooSmallStep == ASSUME SystemInv, TickTooSmall PROVE SystemInv'
<1>1. /\ tick.phase = "native" /\ Required(native) > capacity /\ worldPoisoned' = tick.resized
      /\ UNCHANGED native /\ UNCHANGED batch /\ UNCHANGED subscriptions /\ UNCHANGED deferred
      /\ UNCHANGED poisoned /\ UNCHANGED closed /\ UNCHANGED seen
  BY DEF TickTooSmall
<1>2. /\ Required(native) \in Nat /\ capacity \in 0..MaxCapacity /\ MaxCapacity \in Nat
  BY RequiredFacts, Bounds DEF SystemInv, TickOK
<1>3. ~tick.resized /\ Sound /\ tick.resized \in BOOLEAN
  BY <1>1, <1>2 DEF SystemInv, TickOK
<1>4. worldPoisoned' = FALSE /\ worldPoisoned = FALSE
  BY <1>1, <1>3 DEF Sound, SystemInv, FlagsOK
<1>5. CASE tick' = Idle /\ UNCHANGED capacity /\ (faulty' = TRUE \/ UNCHANGED faulty)
  BY <1>1, <1>4, <1>5, TickEndsStep
<1>6. CASE /\ Required(native) <= MaxCapacity
           /\ capacity' = GrowCapacity(capacity, Required(native))
           /\ tick' = [tick EXCEPT !.resized = TRUE] /\ UNCHANGED faulty
  <2>1. Required(native) \in 1..MaxCapacity
    BY <1>1, <1>2, <1>6
  <2>2. capacity' \in 1..MaxCapacity /\ capacity' >= Required(native)
    BY <1>2, <1>6, <2>1, GrownCapacityFits
  <2>3. /\ tick' = [phase |-> "native", resized |-> TRUE, records |-> tick.records]
        /\ tick.records = NoneOf /\ batch = NoBatch
    BY <1>1, <1>6 DEF SystemInv, TickOK, Publishing
  <2>4. Sound'
    BY <1>1, <1>3, <1>4 DEF Sound
  <2>5. TickOK'
    <3>1. Required(native)' <= capacity' /\ capacity' \in 0..MaxCapacity
      BY <1>1, <1>2, <2>2 DEF Required
    <3> QED BY <1>1, <2>3, <2>4, <3>1
        DEF SystemInv, TickOK, Publishing, RecordsFindTheirListener
  <2>6. SeenOK'
    BY <1>1 DEF SystemInv, SeenOK
  <2>7. DeferredOK'
    BY <1>1, <1>6, <2>3 DEF SystemInv, DeferredOK, Active, Publishing
  <2>8. FlagsOK'
    BY <1>1, <1>4, <1>6 DEF SystemInv, FlagsOK, OnlyFaultsPoison
  <2>9. AgreeInv'
    <3>1. tick'.records = tick.records
      BY <2>3
    <3> QED BY <1>1, <1>3, <3>1 DEF SystemInv, AgreeInv
  <2> QED BY <1>1, <2>5, <2>6, <2>7, <2>8, <2>9 DEF SystemInv
<1>7. \/ tick' = Idle /\ UNCHANGED <<capacity, faulty>>
      \/ /\ ~(Required(native) > MaxCapacity)
         /\ \/ /\ capacity' = GrowCapacity(capacity, Required(native))
               /\ tick' = [tick EXCEPT !.resized = TRUE]
               /\ UNCHANGED faulty
            \/ tick' = Idle /\ faulty' = TRUE /\ UNCHANGED capacity
  BY <1>3 DEF TickTooSmall
<1>8. ~(Required(native) > MaxCapacity) => Required(native) <= MaxCapacity
  BY <1>2
<1> QED BY <1>5, <1>6, <1>7, <1>8

\* A tick that fails poisons the world.
LEMMA TickFailsStep == ASSUME SystemInv, TickFails PROVE SystemInv'
<1>1. /\ tick.phase = "native" /\ tick' = Idle /\ worldPoisoned' = TRUE /\ faulty' = TRUE
      /\ UNCHANGED <<native, batch, subscriptions, deferred, capacity, poisoned, closed, seen>>
  BY DEF TickFails
<1> QED BY <1>1, TickEndsStep

\* What changed is in the records, and what did not was told before.
LEMMA TickSucceedsStep == ASSUME SystemInv, TickSucceeds PROVE SystemInv'
<1>1. PICK shown \in [Devices -> Shown] :
        /\ native' = Advance(native, shown)
        /\ tick' = IF Changed(native, shown) = {} THEN Idle
                   ELSE [tick EXCEPT !.phase = "publishing", !.records = Records(native, shown)]
  BY DEF TickSucceeds
<1>2. /\ tick.phase = "native"
      /\ UNCHANGED batch /\ UNCHANGED subscriptions /\ UNCHANGED deferred /\ UNCHANGED capacity
      /\ UNCHANGED poisoned /\ UNCHANGED worldPoisoned /\ UNCHANGED closed /\ UNCHANGED seen
      /\ UNCHANGED faulty
  BY DEF TickSucceeds
<1>3. Sound /\ batch = NoBatch /\ tick.records = NoneOf /\ DOMAIN tick.records = {}
  BY <1>2 DEF SystemInv, TickOK, Publishing, NoneOf
<1>4. /\ Agree(native, subscriptions, {}) /\ Told(native, subscriptions, tick.records, seen)
      /\ WorldOK(native) /\ NoBatch.removes = {}
  BY <1>3 DEF SystemInv, AgreeInv, NoBatch
<1> DEFINE changed == Changed(native, shown)
<1>5. native' = [ devices |-> native.devices,
                  subscriptions |-> [id \in DOMAIN native.subscriptions |->
                        [ device |-> native.subscriptions[id].device,
                          published |-> shown[native.subscriptions[id].device] ]],
                  nextId |-> native.nextId, shown |-> shown ]
  BY <1>1 DEF SystemInv, WorldOK, Advance
<1> PICK n : n = native'
  OBVIOUS
<1>6. /\ n.nextId = native.nextId /\ n.shown = shown /\ n.devices = native.devices
      /\ DOMAIN n.subscriptions = DOMAIN native.subscriptions
      /\ \A id \in DOMAIN native.subscriptions :
            n.subscriptions[id] = [ device |-> native.subscriptions[id].device,
                                    published |-> shown[native.subscriptions[id].device] ]
  BY <1>5
<1>7. \A id \in DOMAIN native.subscriptions :
        /\ native.subscriptions[id].device \in Devices
        /\ native.subscriptions[id] \in NativeSubscription
        /\ shown[native.subscriptions[id].device] \in Shown /\ id \in Ids
        /\ n.subscriptions[id].device = native.subscriptions[id].device
        /\ n.subscriptions[id].published = shown[native.subscriptions[id].device]
  <2> SUFFICES ASSUME NEW id \in DOMAIN native.subscriptions
               PROVE  /\ native.subscriptions[id].device \in Devices
                      /\ native.subscriptions[id] \in NativeSubscription
                      /\ shown[native.subscriptions[id].device] \in Shown /\ id \in Ids
                      /\ n.subscriptions[id].device = native.subscriptions[id].device
                      /\ n.subscriptions[id].published = shown[native.subscriptions[id].device]
    OBVIOUS
  <2>1. native.subscriptions[id] \in NativeSubscription /\ id \in Ids
    BY <1>4 DEF WorldOK, IsPartial
  <2>2. native.subscriptions[id].device \in Devices
    BY <2>1 DEF NativeSubscription
  <2>3. PICK d : d = native.subscriptions[id].device
    OBVIOUS
  <2>4. n.subscriptions[id] = [device |-> d, published |-> shown[d]]
    BY <1>6, <2>3
  <2> QED BY <2>1, <2>2, <2>3, <2>4
<1>8. WorldOK(native')
  <2>1. \A id \in DOMAIN native.subscriptions : n.subscriptions[id] \in NativeSubscription
    <3> SUFFICES ASSUME NEW id \in DOMAIN native.subscriptions
                 PROVE  n.subscriptions[id] \in NativeSubscription
      OBVIOUS
    <3>1. PICK d : d = native.subscriptions[id].device
      OBVIOUS
    <3>2. d \in Devices /\ shown[d] \in Shown \cup {Nothing}
      BY <1>7, <3>1
    <3>3. [device |-> d, published |-> shown[d]] \in [device : Devices, published : Shown \cup {Nothing}]
      BY <3>2
    <3>4. n.subscriptions[id] = [device |-> d, published |-> shown[d]]
      BY <1>6, <3>1
    <3> QED BY <3>3, <3>4, Zenon DEF NativeSubscription
  <2>2. IsPartial(n.subscriptions, Ids, NativeSubscription)
    BY <1>6, <1>7, <2>1 DEF IsPartial
  <2>3. n = [ devices |-> n.devices, subscriptions |-> n.subscriptions,
              nextId |-> n.nextId, shown |-> n.shown ]
    BY <1>5
  <2>4. WorldOK(n)
    BY <1>4, <1>6, <2>2, <2>3 DEF WorldOK
  <2> QED BY <2>4
<1>9. /\ changed \subseteq DOMAIN native.subscriptions
      /\ \A id \in DOMAIN native.subscriptions \ changed :
            native.subscriptions[id].published = shown[native.subscriptions[id].device]
  BY DEF Changed
<1>10. /\ DOMAIN Records(native, shown) = changed
       /\ \A id \in changed : Records(native, shown)[id] = shown[native.subscriptions[id].device]
  BY DEF Records
<1>11. changed \subseteq DOMAIN subscriptions
  BY <1>4, <1>7, <1>9 DEF Agree, ActiveIn
<1>12. /\ tick' = [ phase |-> tick'.phase, resized |-> tick'.resized, records |-> tick'.records ]
       /\ tick'.resized \in BOOLEAN
       /\ DOMAIN tick'.records = changed
       /\ \A id \in changed : tick'.records[id] = shown[native.subscriptions[id].device]
       /\ \/ tick' = Idle /\ tick'.phase = "idle" /\ ~tick'.resized /\ tick'.records = NoneOf
          \/ tick'.phase = "publishing" /\ changed # {}
  <2>1. CASE changed = {}
    <3>1. tick' = [phase |-> "idle", resized |-> FALSE, records |-> NoneOf]
      BY <1>1, <2>1 DEF Idle
    <3> QED BY <2>1, <3>1 DEF NoneOf, Idle
  <2>2. CASE changed # {}
    <3>1. tick' = [phase |-> "publishing", resized |-> tick.resized,
                   records |-> Records(native, shown)]
      BY <1>1, <2>2 DEF SystemInv, TickOK
    <3>2. /\ tick'.phase = "publishing" /\ tick'.resized = tick.resized
          /\ tick'.records = Records(native, shown)
      BY <3>1
    <3> QED BY <1>10, <2>2, <3>1, <3>2 DEF SystemInv, TickOK
  <2> QED BY <2>1, <2>2
<1>13. TickOK'
  <2>1. IsPartial(tick'.records, Ids, Shown)
    BY <1>7, <1>9, <1>12 DEF IsPartial
  <2>2. DOMAIN tick'.records \subseteq DOMAIN subscriptions'
    BY <1>2, <1>11, <1>12
  <2>3. capacity' \in 0..MaxCapacity
    BY <1>2 DEF SystemInv, TickOK
  <2> QED BY <1>12, <2>1, <2>2, <2>3 DEF TickOK, Publishing, RecordsFindTheirListener
<1>14. SeenOK'
  <2>1. native'.nextId = native.nextId
    BY <1>6
  <2> QED BY <1>2, <2>1 DEF SystemInv, SeenOK
<1>15. DeferredOK'
  <2>1. deferred = << >> /\ (~poisoned => \A id \in DOMAIN subscriptions : Active(id))
    BY <1>2 DEF SystemInv, DeferredOK, Has, Publishing
  <2> QED BY <1>2, <2>1 DEF DeferredOK, Active, Has, Distinct
<1>16. FlagsOK'
  BY <1>2 DEF SystemInv, FlagsOK, OnlyFaultsPoison
<1>17. AgreeInv'
  <2>1. Agree(n, subscriptions, {})
    BY <1>4, <1>6, <1>7 DEF Agree
  <2>2. Told(n, subscriptions, tick'.records, seen)
    <3> SUFFICES ASSUME NEW id \in Ids, ActiveIn(subscriptions, id)
                 PROVE  LET subscription == n.subscriptions[id] IN
                        /\ subscription.published = IF id \in DOMAIN tick'.records
                                                    THEN tick'.records[id] ELSE seen[id]
                        /\ subscription.published # Nothing =>
                              subscription.published = n.shown[subscription.device]
      BY DEF Told
    <3>1. id \in DOMAIN native.subscriptions
      BY <1>4 DEF Agree
    <3>2. /\ n.subscriptions[id].device = native.subscriptions[id].device
          /\ n.subscriptions[id].published = shown[native.subscriptions[id].device]
      BY <1>7, <3>1
    <3>3. native.subscriptions[id].published = seen[id]
      BY <1>3, <1>4 DEF Told
    <3> QED BY <1>6, <1>9, <1>12, <3>1, <3>2, <3>3
  <2> QED BY <1>2, <1>3, <1>4, <2>1, <2>2 DEF AgreeInv
<1>18. RegistryOK(subscriptions', native'.nextId)
  <2>1. native'.nextId = native.nextId
    BY <1>6
  <2> QED BY <1>2, <2>1 DEF SystemInv
<1> QED BY <1>8, <1>13, <1>14, <1>15, <1>16, <1>17, <1>18 DEF SystemInv

\* A record is told to its listener, active or not, and the listener is there.
LEMMA DeliverStep == ASSUME SystemInv, Deliver PROVE SystemInv'
<1>1. /\ tick.phase = "publishing" /\ tick.records # NoneOf
      /\ UNCHANGED native /\ UNCHANGED batch /\ UNCHANGED subscriptions /\ UNCHANGED deferred
      /\ UNCHANGED capacity /\ UNCHANGED worldPoisoned /\ UNCHANGED closed /\ UNCHANGED faulty
  BY DEF Deliver
<1>2. /\ DOMAIN tick.records \in SUBSET Nat /\ DOMAIN tick.records # {}
      /\ DOMAIN tick.records \subseteq Ids /\ DOMAIN tick.records \subseteq DOMAIN subscriptions
      /\ \A id \in DOMAIN tick.records : tick.records[id] \in Shown
  BY <1>1, Bounds
  DEF SystemInv, TickOK, IsPartial, RecordsFindTheirListener, Publishing
<1> PICK next : next = NextId
  OBVIOUS
<1>3. next \in DOMAIN tick.records
  <2>1. \E x \in DOMAIN tick.records : \A y \in DOMAIN tick.records : x <= y
    BY <1>2, NatMin, Zenon
  <2>2. NextId \in DOMAIN tick.records
    BY <2>1, Zenon DEF NextId
  <2> QED BY <2>2
<1>4. next \in DOMAIN subscriptions /\ next \in Ids /\ tick.records[next] \in Shown
  BY <1>2, <1>3
<1>5. /\ seen' = [seen EXCEPT ![next] = tick.records[next]]
      /\ tick' = [tick EXCEPT !.phase = "callback", !.records = Without(@, {next})]
      /\ UNCHANGED poisoned
  BY <1>4 DEF Deliver
<1>6. tick' = [ phase |-> "callback", resized |-> tick.resized,
                records |-> Without(tick.records, {next}) ]
  BY <1>5 DEF SystemInv, TickOK
<1>7. /\ tick'.phase = "callback" /\ tick'.resized = tick.resized
      /\ tick' = [phase |-> tick'.phase, resized |-> tick'.resized, records |-> tick'.records]
      /\ tick'.records = Without(tick.records, {next})
  BY <1>6
<1>8. /\ DOMAIN tick'.records = DOMAIN tick.records \ {next}
      /\ \A id \in DOMAIN tick'.records : tick'.records[id] = tick.records[id]
      /\ tick'.records # NoneOf => DOMAIN tick'.records # {}
  <2>1. Without(tick.records, {next}) =
            [id \in DOMAIN tick.records \ {next} |-> tick.records[id]]
    BY DEF Without, Restrict
  <2>2. ASSUME DOMAIN tick.records \ {next} = {} PROVE tick'.records = NoneOf
    BY <1>7, <2>1, <2>2 DEF NoneOf
  <2> QED BY <1>7, <2>1, <2>2
<1>9. TickOK'
  <2>1. IsPartial(tick'.records, Ids, Shown)
    BY <1>2, <1>8 DEF IsPartial
  <2>2. DOMAIN tick'.records \subseteq DOMAIN subscriptions'
    BY <1>1, <1>2, <1>8
  <2>3. tick.resized \in BOOLEAN /\ capacity' \in 0..MaxCapacity
    BY <1>1 DEF SystemInv, TickOK
  <2> QED BY <1>7, <1>8, <2>1, <2>2, <2>3 DEF TickOK, Publishing, RecordsFindTheirListener
<1>10. SeenOK'
  <2>1. native'.nextId = native.nextId /\ native.nextId \in Nat /\ next < native.nextId
    BY <1>1, <1>4 DEF SystemInv, WorldOK, RegistryOK
  <2>2. seen' \in [Ids -> Shown \cup {Nothing}]
    BY <1>4, <1>5 DEF SystemInv, SeenOK
  <2>3. ASSUME NEW id \in Ids, id >= native.nextId PROVE seen'[id] = Nothing
    <3>1. id # next
      BY <1>4, <2>1, <2>3, Bounds
    <3>2. seen'[id] = seen[id]
      BY <1>5, <3>1 DEF SystemInv, SeenOK
    <3> QED BY <2>3, <3>2 DEF SystemInv, SeenOK
  <2> QED BY <2>1, <2>2, <2>3 DEF SeenOK
<1>11. DeferredOK'
  BY <1>1, <1>5, <1>7 DEF SystemInv, DeferredOK, Active, Publishing
<1>12. FlagsOK'
  BY <1>1, <1>5 DEF SystemInv, FlagsOK, OnlyFaultsPoison
<1>13. AgreeInv'
  <2> SUFFICES ASSUME Sound
               PROVE  /\ Agree(native, subscriptions, batch.removes)
                      /\ Told(native, subscriptions, tick'.records, seen')
    BY <1>1, <1>5 DEF AgreeInv, Sound
  <2>1. /\ Agree(native, subscriptions, batch.removes)
        /\ Told(native, subscriptions, tick.records, seen)
    BY DEF SystemInv, AgreeInv
  <2>2. \A id \in Ids :
          (IF id \in DOMAIN tick'.records THEN tick'.records[id] ELSE seen'[id])
          = IF id \in DOMAIN tick.records THEN tick.records[id] ELSE seen[id]
    BY <1>3, <1>5, <1>8 DEF SystemInv, SeenOK
  <2> QED BY <2>1, <2>2 DEF Told
<1> QED BY <1>1, <1>9, <1>10, <1>11, <1>12, <1>13 DEF SystemInv

\* The listener returns to the publication.
LEMMA ListenerEndsStep == ASSUME SystemInv, ListenerEnds PROVE SystemInv'
<1>1. /\ tick.phase = "callback" /\ tick' = [tick EXCEPT !.phase = "publishing"]
      /\ UNCHANGED native /\ UNCHANGED batch /\ UNCHANGED subscriptions /\ UNCHANGED deferred
      /\ UNCHANGED capacity /\ UNCHANGED poisoned /\ UNCHANGED worldPoisoned
      /\ UNCHANGED closed /\ UNCHANGED seen /\ UNCHANGED faulty
  BY DEF ListenerEnds
<1>2. tick' = [phase |-> "publishing", resized |-> tick.resized, records |-> tick.records]
  BY <1>1 DEF SystemInv, TickOK
<1>3. tick'.phase = "publishing" /\ tick'.resized = tick.resized /\ tick'.records = tick.records
  BY <1>2
<1>4. TickOK'
  BY <1>1, <1>2, <1>3 DEF SystemInv, TickOK, Publishing, RecordsFindTheirListener
<1>5. SeenOK'
  BY <1>1 DEF SystemInv, SeenOK
<1>6. DeferredOK'
  BY <1>1, <1>3 DEF SystemInv, DeferredOK, Active, Publishing
<1>7. FlagsOK'
  BY <1>1 DEF SystemInv, FlagsOK, OnlyFaultsPoison
<1>8. AgreeInv'
  BY <1>1, <1>3 DEF SystemInv, AgreeInv, Sound
<1> QED BY <1>1, <1>4, <1>5, <1>6, <1>7, <1>8 DEF SystemInv

\* Everything that was deferred is removed, so what is left is active.
LEMMA EndPublicationStep == ASSUME SystemInv, EndPublication PROVE SystemInv'
<1> DEFINE Ready(i) == /\ deferred[i] \in DOMAIN subscriptions \ {deferred[j] : j \in 1..(i - 1)}
                       /\ ~Active(deferred[i])
           removed == {deferred[i] : i \in {j \in DOMAIN deferred : \A k \in 1..j : Ready(k)}}
<1>1. /\ tick.phase = "publishing" /\ tick.records = NoneOf
      /\ subscriptions' = Without(subscriptions, removed)
      /\ poisoned' = (poisoned \/ \E i \in DOMAIN deferred : ~Ready(i))
      /\ deferred' = << >>
      /\ tick' = Idle
      /\ UNCHANGED native /\ UNCHANGED batch /\ UNCHANGED capacity /\ UNCHANGED worldPoisoned
      /\ UNCHANGED closed /\ UNCHANGED seen /\ UNCHANGED faulty
  BY DEF EndPublication
<1>2. /\ deferred \in Seq(Ids) /\ Distinct(deferred)
      /\ \A id : Has(deferred, id) => id \in DOMAIN subscriptions /\ ~Active(id)
      /\ ~poisoned => \A id \in DOMAIN subscriptions : Active(id) \/ Has(deferred, id)
  BY DEF SystemInv, DeferredOK
<1>3. \A i \in DOMAIN deferred : /\ i \in Nat /\ 1..i \subseteq DOMAIN deferred
                                 /\ \A j \in 1..(i - 1) : j \in DOMAIN deferred /\ j # i
  BY <1>2
<1>4. ASSUME NEW i \in DOMAIN deferred PROVE Ready(i)
  <2>1. deferred[i] \in DOMAIN subscriptions /\ ~Active(deferred[i])
    BY <1>2 DEF Has
  <2>2. \A j \in 1..(i - 1) : deferred[j] # deferred[i]
    BY <1>2, <1>3 DEF Distinct
  <2> QED BY <2>1, <2>2
<1>5. \A id : id \in removed <=> Has(deferred, id)
  <2>1. {j \in DOMAIN deferred : \A k \in 1..j : Ready(k)} = DOMAIN deferred
    BY <1>3, <1>4
  <2> HIDE DEF Ready
  <2> QED BY <2>1 DEF Has
<1>6. UNCHANGED poisoned
  BY <1>1, <1>4 DEF SystemInv, FlagsOK
<1>7. /\ DOMAIN subscriptions' = DOMAIN subscriptions \ removed
      /\ \A id \in DOMAIN subscriptions' : subscriptions'[id] = subscriptions[id]
  BY <1>1 DEF Without, Restrict
<1> HIDE DEF removed
<1>8. \A id : /\ ActiveIn(subscriptions', id) <=> ActiveIn(subscriptions, id)
              /\ ActiveIn(subscriptions', id) => subscriptions'[id] = subscriptions[id]
  BY <1>2, <1>5, <1>7 DEF ActiveIn, Active
<1>9. /\ tick' = [phase |-> "idle", resized |-> FALSE, records |-> NoneOf]
      /\ DOMAIN NoneOf = {}
  BY <1>1 DEF Idle, NoneOf
<1>10. /\ tick'.phase = "idle" /\ tick'.resized = FALSE /\ tick'.records = NoneOf
       /\ tick' = [phase |-> tick'.phase, resized |-> tick'.resized, records |-> tick'.records]
  BY <1>9
<1>11. TickOK'
  <2>1. capacity' \in 0..MaxCapacity
    BY <1>1 DEF SystemInv, TickOK
  <2>2. IsPartial(tick'.records, Ids, Shown)
    BY <1>9, <1>10 DEF IsPartial
  <2> QED BY <1>10, <2>1, <2>2 DEF TickOK, Publishing, RecordsFindTheirListener
<1>12. SeenOK'
  BY <1>1 DEF SystemInv, SeenOK
<1>13. DeferredOK'
  <2>1. ASSUME ~poisoned, NEW id \in DOMAIN subscriptions' PROVE Active(id)'
    <3>1. id \in DOMAIN subscriptions /\ ~Has(deferred, id)
      BY <1>5, <1>7
    <3>2. Active(id)
      BY <1>2, <2>1, <3>1
    <3> QED BY <1>7, <3>2 DEF Active
  <2> QED BY <1>1, <1>6, <2>1 DEF DeferredOK, Has, Distinct
<1>14. FlagsOK'
  BY <1>1, <1>6 DEF SystemInv, FlagsOK, OnlyFaultsPoison
<1>15. AgreeInv'
  <2> SUFFICES ASSUME Sound
               PROVE  /\ Agree(native, subscriptions', batch.removes)
                      /\ Told(native, subscriptions', tick.records, seen)
    BY <1>1, <1>6, <1>10 DEF AgreeInv, Sound
  <2>1. /\ Agree(native, subscriptions, batch.removes)
        /\ Told(native, subscriptions, tick.records, seen)
    BY DEF SystemInv, AgreeInv
  <2>2. Agree(native, subscriptions', batch.removes)
    BY <1>8, <2>1 DEF Agree
  <2>3. Told(native, subscriptions', tick.records, seen)
    BY <1>8, <2>1 DEF Told
  <2> QED BY <2>2, <2>3
<1>16. RegistryOK(subscriptions', native'.nextId)
  BY <1>1, <1>7 DEF SystemInv, RegistryOK, IsPartial
<1> QED BY <1>1, <1>11, <1>12, <1>13, <1>14, <1>15, <1>16 DEF SystemInv

-----------------------------------------------------------------------------
(* The theorems.                                                           *)

\* Every step keeps the invariant.
LEMMA SystemInvStep == SystemInv /\ [Next]_vars => SystemInv'
<1> SUFFICES ASSUME SystemInv, [Next]_vars PROVE SystemInv'
  OBVIOUS
<1>1. CASE UNCHANGED vars
  BY <1>1 DEF vars, SystemInv, TickOK, SeenOK, DeferredOK, FlagsOK, AgreeInv, Sound, Publishing,
              RecordsFindTheirListener, Active, OnlyFaultsPoison, Required
<1>2. CASE BeginTick
  BY <1>2, BeginTickStep
<1>3. CASE TickTooSmall
  BY <1>3, TickTooSmallStep
<1>4. CASE TickSucceeds
  BY <1>4, TickSucceedsStep
<1>5. CASE TickFails
  BY <1>5, TickFailsStep
<1>6. CASE Deliver
  BY <1>6, DeliverStep
<1>7. CASE ListenerEnds
  BY <1>7, ListenerEndsStep
<1>8. CASE EndPublication
  BY <1>8, EndPublicationStep
<1>9. ASSUME NEW d \in Devices, CreateDevice(d) PROVE SystemInv'
  BY <1>9, CreateDeviceStep
<1>10. ASSUME NEW d \in Devices, RemoveDevice(d) PROVE SystemInv'
  BY <1>10, RemoveDeviceStep
<1>11. ASSUME NEW d \in Devices, Subscribe(d) PROVE SystemInv'
  BY <1>11, SubscribeStep
<1>12. ASSUME NEW id \in Ids, Unsubscribe(id) PROVE SystemInv'
  BY <1>12, UnsubscribeStep
<1>13. CASE CallFailsToApply
  BY <1>13, CallFailsToApplyStep
<1>14. CASE Close
  BY <1>14, CloseStep
<1> QED BY <1>1, <1>2, <1>3, <1>4, <1>5, <1>6, <1>7, <1>8, <1>9, <1>10, <1>11, <1>12, <1>13,
           <1>14 DEF Next

\* The invariant holds in every state of a system.
LEMMA SystemInvariance == Spec => []SystemInv
<1>1. Init => SystemInv
  BY SystemInvInit
<1>2. SystemInv /\ [Next]_vars => SystemInv'
  BY SystemInvStep
<1> QED BY <1>1, <1>2, PTL DEF Spec

\* The active subscriptions of the registry are those of the native world.
LEMMA ActiveFacts == SystemInv => ActiveIsSubscribed
<1> SUFFICES ASSUME SystemInv, Sound
             PROVE  {<<id, subscriptions[id].device>> :
                        id \in {i \in DOMAIN subscriptions : Active(i)}}
                    = {<<id, native.subscriptions[id].device>> :
                        id \in {i \in DOMAIN native.subscriptions :
                                    native.subscriptions[i].device \notin batch.removes}}
  BY DEF ActiveIsSubscribed
<1>1. /\ Agree(native, subscriptions, batch.removes)
      /\ DOMAIN subscriptions \subseteq Ids /\ DOMAIN native.subscriptions \subseteq Ids
  BY DEF SystemInv, AgreeInv, RegistryOK, WorldOK, IsPartial
<1>2. {i \in DOMAIN subscriptions : Active(i)}
      = {i \in DOMAIN native.subscriptions : native.subscriptions[i].device \notin batch.removes}
  BY <1>1 DEF Agree, Active, ActiveIn
<1>3. \A id \in DOMAIN subscriptions :
        Active(id) => native.subscriptions[id].device = subscriptions[id].device
  BY <1>1 DEF Agree, Active, ActiveIn
<1> QED BY <1>2, <1>3

\* Listeners and native subscriptions agree: while listeners end subscriptions
\* and remove devices between two records, an ended subscription and a removed
\* device are out of the native world or about to be, and every record finds
\* the listener it is for (ObservationSubscriptionRegistry, applyObservations).
THEOREM ListenersAgree == Spec => []SubscriptionsAgree
<1>1. SystemInv => TypeOK
  BY DEF SystemInv, WorldOK, RegistryOK, TickOK, SeenOK, DeferredOK, FlagsOK, TypeOK
<1>2. SystemInv => RecordsFindTheirListener
  BY DEF SystemInv, TickOK
<1>3. SystemInv => SubscriptionsAgree
  BY <1>1, <1>2, ActiveFacts DEF SubscriptionsAgree
<1> QED BY <1>3, SystemInvariance, PTL

\* No sequence of calls makes a system unusable unless a native call or an
\* allocation failed: an unsubscription is always known to the native world, a
\* deferred removal is always found, and a tick fits the buffer the second time.
THEOREM SystemsStaySound == Spec => []OnlyFaultsPoison
<1>1. SystemInv => OnlyFaultsPoison
  BY DEF SystemInv, FlagsOK
<1> QED BY <1>1, SystemInvariance, PTL

\* A listener that was ended, during a publication or between two, is kept no
\* longer than the publication.
THEOREM EndedListenersGo == Spec => []EndedListenersAreReleased
<1>1. ASSUME SystemInv, ~Publishing
      PROVE  deferred = << >> /\ (~poisoned => \A id \in DOMAIN subscriptions : Active(id))
  <2>1. deferred = << >> /\ \A id : ~Has(<< >>, id)
    BY <1>1 DEF SystemInv, DeferredOK, Has
  <2> QED BY <1>1, <2>1 DEF SystemInv, DeferredOK
<1>2. SystemInv => EndedListenersAreReleased
  BY <1>1 DEF EndedListenersAreReleased
<1> QED BY <1>2, SystemInvariance, PTL

\* No update is lost: between ticks what a listener was told last is what the
\* native world published last and what the observer shows, also when the tick
\* was called again with a larger buffer or gave up, and when listeners changed
\* the subscriptions in between.
THEOREM NoUpdateIsLost == Spec => []UpdatesReachListeners
<1>1. ASSUME SystemInv, Sound, tick.phase = "idle", NEW id \in DOMAIN subscriptions
      PROVE  /\ seen[id] = native.subscriptions[id].published
             /\ seen[id] # Nothing => seen[id] = native.shown[native.subscriptions[id].device]
  <2>1. ~Publishing /\ ~poisoned
    BY <1>1 DEF Publishing, Sound
  <2>2. id \in Ids /\ ActiveIn(subscriptions, id)
    BY <1>1, <2>1 DEF SystemInv, DeferredOK, Has, RegistryOK, IsPartial, Active, ActiveIn
  <2>3. DOMAIN tick.records = {}
    BY <1>1, <2>1 DEF SystemInv, TickOK, NoneOf
  <2>4. Told(native, subscriptions, tick.records, seen)
    BY <1>1 DEF SystemInv, AgreeInv
  <2> QED BY <2>2, <2>3, <2>4 DEF Told
<1>2. SystemInv => UpdatesReachListeners
  BY <1>1 DEF UpdatesReachListeners
<1> QED BY <1>2, SystemInvariance, PTL

=============================================================================
