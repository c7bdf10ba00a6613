----------------------- MODULE DerivedTopologyProofs -----------------------
(***************************************************************************)
(* Proofs about the nets and the islands that the engine repairs on every  *)
(* command: they are the groups of the network, from_network derives the   *)
(* same ones, the marks of stale islands are exact, and no runtime is      *)
(* stale without a mark.                                                   *)
(*                                                                         *)
(* A group is handled by its two properties: no edge leaves it, and no     *)
(* part of it is closed by itself.  Only the walks of the repairs, and the *)
(* statements of the properties, mention what is reached from a start.     *)
(***************************************************************************)
EXTENDS DerivedTopology, FiniteSetTheorems, WellFoundedInduction, TLAPS

-----------------------------------------------------------------------------
(* Lemmas about numbers and about what is reached from a vertex.           *)

\* A set of naturals that is not empty has a least element: induction, for
\* what is computed by recursion.
LEMMA NatMin == ASSUME NEW T \in SUBSET Nat, T # {} PROVE \E x \in T : \A y \in T : x <= y
<1>1. IsWellFoundedOn(OpToRel(<,Nat), Nat)
  BY NatLessThanWellFounded
<1>2. PICK R : R = {ss \in Nat \X Nat : ss[1] < ss[2]}
  OBVIOUS
<1>3. OpToRel(<,Nat) = {ss \in Nat \X Nat : ss[1] < ss[2]}
  BY Zenon DEF OpToRel
<1>4. IsWellFoundedOn(R, Nat)
  BY <1>1, <1>2, <1>3, Zenon
<1>5. PICK x \in T : \A y \in T : ~(<<y, x>> \in R)
  BY <1>4, WFMin, Zenon
<1>6. \A y \in T : <<y, x>> \in Nat \X Nat /\ (<<y, x>> \in R <=> y < x)
  BY <1>2
<1>7. ASSUME NEW y \in T PROVE x <= y
  <2>1. x \in Nat /\ y \in Nat /\ ~(y < x)
    BY <1>5, <1>6
  <2> QED BY <2>1
<1> QED BY <1>7

\* A set of numbers that holds zero and, with every number below a bound, the
\* next one, holds all numbers up to the bound.
LEMMA CountUp ==
    ASSUME NEW size \in Nat, NEW T, 0 \in T,
           \A k \in 0..size : k # 0 /\ k - 1 \in T => k \in T
    PROVE  \A k \in 0..size : k \in T
<1> DEFINE Bad == {k \in 0..size : k \notin T}
<1> SUFFICES ASSUME Bad # {} PROVE FALSE
  OBVIOUS
<1>1. Bad \in SUBSET Nat
  OBVIOUS
<1>2. PICK k \in Bad : \A j \in Bad : k <= j
  <2> HIDE DEF Bad
  <2> QED BY <1>1, NatMin
<1>3. k # 0 /\ k \in 0..size /\ k - 1 \in 0..size /\ ~(k <= k - 1)
  OBVIOUS
<1>4. k - 1 \in T
  BY <1>2, <1>3
<1> QED BY <1>3, <1>4

Graph(V, next) == IsFiniteSet(V) /\ next \in [V -> SUBSET V]
ClosedUnder(next, S) == \A x \in S : next[x] \subseteq S
IsReached(V, next, v, R) ==
    /\ v \in R /\ R \in SUBSET V /\ ClosedUnder(next, R)
    /\ \A S \in SUBSET V : v \in S /\ ClosedUnder(next, S) => R \subseteq S
Symmetric(V, next) == \A x, y \in V : y \in next[x] => x \in next[y]

\* One step of a walk: the vertices of k steps are those of one step less and
\* their neighbours.
Walk(size, next, v, g) ==
    g = [k \in 0..size |-> IF k = 0 THEN {v} ELSE g[k - 1] \cup UNION {next[x] : x \in g[k - 1]}]

\* The walk of Reached exists, so that its recursive definition means what it says.
LEMMA WalkExists == ASSUME NEW size \in Nat, NEW next, NEW v PROVE \E g : Walk(size, next, v, g)
<1> DEFINE Step(S) == S \cup UNION {next[x] : x \in S}
           T == {k \in Nat : \E g : Walk(k, next, v, g)}
<1>1. 0 \in T
  <2>1. Walk(0, next, v, [k \in 0..0 |-> {v}])
    BY DEF Walk
  <2> QED BY <2>1
<1>2. ASSUME NEW k \in 0..size, k # 0, k - 1 \in T PROVE k \in T
  <2>1. PICK g : Walk(k - 1, next, v, g)
    BY <1>2
  <2> DEFINE h == [j \in 0..k |-> IF j \in 0..(k - 1) THEN g[j] ELSE Step(g[k - 1])]
  <2>2. \A j \in 0..k : j # 0 => j - 1 \in 0..(k - 1) /\ (j \notin 0..(k - 1) => j - 1 = k - 1)
    OBVIOUS
  <2>3. 0 \in 0..(k - 1)
    BY <1>2
  <2>4. \A j \in 0..(k - 1) : g[j] = IF j = 0 THEN {v} ELSE Step(g[j - 1])
    BY <2>1 DEF Walk
  <2>5. \A j \in 0..k : h[j] = IF j = 0 THEN {v} ELSE Step(h[j - 1])
    <3> HIDE DEF Step
    <3> TAKE j \in 0..k
    <3>1. CASE j \in 0..(k - 1)
      <4>1. h[j] = g[j] /\ (j # 0 => h[j - 1] = g[j - 1])
        BY <3>1, <2>2
      <4> QED BY <4>1, <3>1, <2>4
    <3>2. CASE j \notin 0..(k - 1)
      <4>1. j # 0 /\ h[j] = Step(g[k - 1]) /\ h[j - 1] = g[k - 1]
        BY <3>2, <2>2, <2>3
      <4> QED BY <4>1
    <3> QED BY <3>1, <3>2
  <2>6. Walk(k, next, v, h)
    <3>1. DOMAIN h = 0..k /\ h = [j \in 0..k |-> h[j]]
      OBVIOUS
    <3> HIDE DEF h
    <3> QED BY <2>5, <3>1 DEF Walk
  <2>7. k \in Nat
    OBVIOUS
  <2> QED BY <2>6, <2>7
<1>3. \A k \in 0..size : k \in T
  <2> HIDE DEF T
  <2> QED BY <1>1, <1>2, CountUp
<1> QED BY <1>3

\* After as many steps as there are vertices the walk is over: it has reached
\* its start and everything next to what it reached, and nothing else.
LEMMA ReachedFacts ==
    ASSUME NEW V, NEW next, Graph(V, next), NEW v \in V
    PROVE  IsReached(V, next, v, Reached(v, next))
<1> DEFINE Step(S) == S \cup UNION {next[x] : x \in S}
<1>1. PICK size : size = Cardinality(V)
  OBVIOUS
<1>2. IsFiniteSet(V) /\ next \in [V -> SUBSET V] /\ DOMAIN next = V /\ size \in Nat
  BY <1>1, FS_CardinalityType DEF Graph
<1>3. PICK g : g = CHOOSE r : Walk(size, next, v, r)
  OBVIOUS
<1>4. Walk(size, next, v, g)
  BY <1>2, <1>3, WalkExists, Zenon
<1>5. Reached(v, next) = g[size]
  BY <1>1, <1>2, <1>3, Zenon DEF Reached, Walk
<1>6. g[0] = {v} /\ \A k \in 0..size : k # 0 => g[k] = Step(g[k - 1])
  <2>1. g = [k \in 0..size |-> IF k = 0 THEN {v} ELSE Step(g[k - 1])]
    BY <1>4, Zenon DEF Walk
  <2> HIDE DEF Step
  <2>2. \A k \in 0..size : g[k] = IF k = 0 THEN {v} ELSE Step(g[k - 1])
    BY <2>1, Zenon
  <2> QED BY <2>2, <1>2
<1>7. \A S \in SUBSET V : Step(S) \in SUBSET V /\ S \subseteq Step(S)
                          /\ (Step(S) = S <=> ClosedUnder(next, S))
  BY <1>2 DEF ClosedUnder
<1> HIDE DEF Step
<1> DEFINE T == {k \in Nat : v \in g[k] /\ g[k] \in SUBSET V
                             /\ (ClosedUnder(next, g[k]) \/ Cardinality(g[k]) >= k + 1)}
<1>8. 0 \in T
  <2>1. Cardinality({v}) = 1
    BY FS_Singleton
  <2> QED BY <1>6, <2>1
<1>9. ASSUME NEW k \in 0..size, k # 0, k - 1 \in T PROVE k \in T
  <2>1. k \in Nat /\ g[k] = Step(g[k - 1]) /\ v \in g[k - 1] /\ g[k - 1] \in SUBSET V
    BY <1>9, <1>6
  <2>2. v \in g[k] /\ g[k] \in SUBSET V /\ g[k - 1] \subseteq g[k]
    BY <2>1, <1>7
  <2>3. CASE ClosedUnder(next, g[k - 1])
    BY <2>1, <2>2, <2>3, <1>7
  <2>4. CASE ~ClosedUnder(next, g[k - 1])
    <3>1. g[k - 1] # g[k] /\ Cardinality(g[k - 1]) >= k
      BY <2>4, <2>1, <1>7, <1>9
    <3>2. IsFiniteSet(g[k]) /\ IsFiniteSet(g[k - 1])
      BY <2>1, <2>2, <1>2, FS_Subset
    <3>3. Cardinality(g[k - 1]) <= Cardinality(g[k]) /\ Cardinality(g[k - 1]) # Cardinality(g[k])
      BY <3>1, <3>2, <2>2, FS_Subset
    <3>4. Cardinality(g[k - 1]) \in Nat /\ Cardinality(g[k]) \in Nat
      BY <3>2, FS_CardinalityType
    <3> QED BY <3>1, <3>3, <3>4, <2>1, <2>2
  <2> QED BY <2>3, <2>4
<1>10. \A k \in 0..size : k \in T
  <2> HIDE DEF T
  <2> QED BY <1>8, <1>9, <1>2, CountUp
<1>11. v \in g[size] /\ g[size] \in SUBSET V /\ ClosedUnder(next, g[size])
  <2>1. size \in T
    BY <1>10, <1>2
  <2>2. Cardinality(g[size]) <= size /\ Cardinality(g[size]) \in Nat
    BY <2>1, <1>1, <1>2, FS_Subset, FS_CardinalityType
  <2> QED BY <2>1, <2>2, <1>2
<1>12. ASSUME NEW S \in SUBSET V, v \in S, ClosedUnder(next, S) PROVE g[size] \subseteq S
  <2> DEFINE Q == {k \in Nat : g[k] \subseteq S}
  <2>1. 0 \in Q
    BY <1>6, <1>12
  <2>2. ASSUME NEW k \in 0..size, k # 0, k - 1 \in Q PROVE k \in Q
    <3>1. g[k] = Step(g[k - 1]) /\ g[k - 1] \subseteq S /\ k \in Nat
      BY <2>2, <1>6
    <3> QED BY <3>1, <1>12 DEF ClosedUnder, Step
  <2>3. \A k \in 0..size : k \in Q
    <3> HIDE DEF Q
    <3> QED BY <2>1, <2>2, <1>2, CountUp
  <2> QED BY <2>3, <1>2
<1> QED BY <1>5, <1>11, <1>12 DEF IsReached

\* These facts determine what is reached.
LEMMA ReachedIs ==
    ASSUME NEW V, NEW next, Graph(V, next), NEW v \in V, NEW R, IsReached(V, next, v, R)
    PROVE  Reached(v, next) = R
<1>1. IsReached(V, next, v, Reached(v, next))
  BY ReachedFacts
<1> QED BY <1>1 DEF IsReached

\* When edges have no direction, every vertex reached reaches the same ones.
LEMMA ReachedSymmetric ==
    ASSUME NEW V, NEW next, Graph(V, next), Symmetric(V, next), NEW v \in V,
           NEW u \in Reached(v, next)
    PROVE  u \in V /\ Reached(u, next) = Reached(v, next)
<1>1. PICK R : R = Reached(v, next)
  OBVIOUS
<1>2. IsReached(V, next, v, R)
  BY <1>1, ReachedFacts
<1>3. u \in R /\ u \in V
  BY <1>1, <1>2 DEF IsReached
<1>4. PICK Q : Q = Reached(u, next)
  OBVIOUS
<1>5. IsReached(V, next, u, Q)
  BY <1>3, <1>4, ReachedFacts
<1>6. Q \subseteq R
  BY <1>2, <1>3, <1>5 DEF IsReached
<1>7. ClosedUnder(next, V \ Q)
  BY <1>5 DEF ClosedUnder, IsReached, Symmetric, Graph
<1>8. v \in Q
  BY <1>2, <1>3, <1>5, <1>7 DEF IsReached
<1>9. R \subseteq Q
  BY <1>2, <1>5, <1>8 DEF IsReached
<1> QED BY <1>1, <1>3, <1>4, <1>6, <1>9

-----------------------------------------------------------------------------
(* The invariant.                                                          *)

NetworkRecord(n) ==
    n = [wires |-> n.wires, connections |-> n.connections,
         devices |-> n.devices, attached |-> n.attached]

NetworkOK(n) ==
    /\ NetworkRecord(n)
    /\ n.wires \subseteq Wires /\ IsFiniteSet(n.wires)
    /\ \A c \in n.connections : \E a, b \in n.wires : a # b /\ c = {a, b}
    /\ n.devices \in [DOMAIN n.devices -> Definitions] /\ DOMAIN n.devices \subseteq Devices
    /\ IsFiniteSet(Components(n))
    /\ n.attached \in [DOMAIN n.attached -> n.wires]
    /\ DOMAIN n.attached \subseteq Terminals(n) /\ IsFiniteSet(DOMAIN n.attached)

IsFunction(f) == f = [x \in DOMAIN f |-> f[x]]

TopologyRecord(t) ==
    /\ t = [nets |-> t.nets, netSlots |-> t.netSlots, wireNet |-> t.wireNet,
            netIsland |-> t.netIsland, islands |-> t.islands, islandSlots |-> t.islandSlots,
            componentIsland |-> t.componentIsland, invalidation |-> t.invalidation]
    /\ t.invalidation = [topologyDirty |-> t.invalidation.topologyDirty,
                         retired |-> t.invalidation.retired]

\* The net of an attached terminal, and the wires of a net.
NetAt(t, n, x) == t.wireNet[n.attached[x]]
WiresAt(t, n, i) == {w \in n.wires : t.wireNet[w] = i}

\* No part of these wires is closed by itself.
Joined(n, wires) ==
    \A S \in SUBSET wires :
        S # {} /\ (\A a \in S : ConnectedWires(n, a) \subseteq S) => S = wires

\* The nets, of which some are yet to be walked again.
NetsOK(n, t, open) ==
    /\ t.netSlots \in Nat /\ IsFunction(t.nets)
    /\ DOMAIN t.nets \subseteq 1..t.netSlots
    /\ t.wireNet \in [n.wires -> DOMAIN t.nets]
    /\ \A a, b \in n.wires : {a, b} \in n.connections => t.wireNet[a] = t.wireNet[b]
    /\ \A i \in DOMAIN t.nets \ open :
          /\ t.nets[i] = [wires |-> WiresAt(t, n, i),
                          components |-> Incidences(n, WiresAt(t, n, i))]
          /\ WiresAt(t, n, i) # {}
          /\ Joined(n, WiresAt(t, n, i))

\* Current does not leave these components.
Conducts(n, t, S) ==
    \A x, y \in DOMAIN n.attached :
        NetAt(t, n, x) = NetAt(t, n, y) /\ TerminalComponent(n, x) \in S
            => TerminalComponent(n, y) \in S

IslandMembers(n, t) ==
    /\ t.islandSlots \in Nat /\ IsFunction(t.islands)
    /\ DOMAIN t.islands \subseteq 1..t.islandSlots
    /\ t.componentIsland \in [Components(n) -> DOMAIN t.islands]
    /\ \A i \in DOMAIN t.islands :
          t.islands[i] = {c \in Components(n) : t.componentIsland[c] = i}

\* A net is in the island of the components it conducts to; a net in an island
\* that is yet to be repaired may have lost them.
NetIslands(n, t, open) ==
    /\ IsFunction(t.netIsland) /\ DOMAIN t.netIsland = 1..t.netSlots
    /\ \A x \in DOMAIN n.attached :
          t.netIsland[NetAt(t, n, x)] = t.componentIsland[TerminalComponent(n, x)]
    /\ \A i \in 1..t.netSlots :
          \/ t.netIsland[i] = NoIsland
          \/ \E x \in DOMAIN n.attached : NetAt(t, n, x) = i
          \/ t.netIsland[i] \in open /\ i \in DOMAIN t.nets

\* The islands, of which some are yet to be repaired.
IslandsOK(n, t, open) ==
    /\ IslandMembers(n, t)
    /\ NetIslands(n, t, open)
    /\ \A i \in DOMAIN t.islands \ open :
          /\ t.islands[i] # {}
          /\ \A S \in SUBSET t.islands[i] : S # {} /\ Conducts(n, t, S) => S = t.islands[i]

MarksOK(t) ==
    /\ t.invalidation.topologyDirty \subseteq DOMAIN t.islands
    /\ t.invalidation.retired \subseteq 1..t.islandSlots
    /\ t.invalidation.retired \cap DOMAIN t.islands = {}

TopologyOK(n, t) ==
    /\ NetworkOK(n)
    /\ TopologyRecord(t)
    /\ NetsOK(n, t, {})
    /\ IslandsOK(n, t, {})
    /\ MarksOK(t)

IndInv == TopologyOK(network, topology) /\ RuntimesAreCurrent

-----------------------------------------------------------------------------
(* What the invariant says about the groups of the network.                *)

\* The component of a terminal is a component of the network.
LEMMA TerminalFacts ==
    ASSUME NEW n, NetworkOK(n)
    PROVE  \A x \in DOMAIN n.attached : TerminalComponent(n, x) \in Components(n)
<1> TAKE x \in DOMAIN n.attached
<1>1. PICK d \in DOMAIN n.devices : x \in {d} \X DOMAIN n.devices[d].terminalPartitions
  BY DEF NetworkOK, Terminals
<1>2. PICK k \in DOMAIN n.devices[d].terminalPartitions : x = <<d, k>>
  BY <1>1
<1>3. n.devices[d] \in Definitions
  BY DEF NetworkOK
<1>4. n.devices[d].terminalPartitions \in Seq(1..n.devices[d].partitionCount)
  BY <1>3, DefinitionsAssumption
<1>5. n.devices[d].terminalPartitions[k] \in 1..n.devices[d].partitionCount
  <2>1. \A S, f : f \in Seq(S) => \A j \in DOMAIN f : f[j] \in S
    OBVIOUS
  <2> QED BY <1>2, <1>4, <2>1
<1> QED BY <1>2, <1>5 DEF TerminalComponent, Components, DeviceComponents

\* The wires and their connections as a graph.
LEMMA WireGraph ==
    ASSUME NEW n, NetworkOK(n), NEW next, next = [v \in n.wires |-> ConnectedWires(n, v)]
    PROVE  Graph(n.wires, next) /\ Symmetric(n.wires, next)
BY DEF Graph, Symmetric, NetworkOK, ConnectedWires

\* The wires of a net are a group of the network.
LEMMA NetIsGroup ==
    ASSUME NEW n, NEW t, NetworkOK(n), NetsOK(n, t, {}), NEW w \in n.wires
    PROVE  WireGroup(n, w) = WiresAt(t, n, t.wireNet[w])
<1> DEFINE next == [v \in n.wires |-> ConnectedWires(n, v)]
           R == WiresAt(t, n, t.wireNet[w])
<1>1. Graph(n.wires, next)
  BY WireGraph
<1>2. t.wireNet[w] \in DOMAIN t.nets /\ w \in R /\ R \in SUBSET n.wires
  BY DEF NetsOK, WiresAt
<1>3. ClosedUnder(next, R)
  BY DEF NetsOK, WiresAt, ClosedUnder, ConnectedWires
<1>4. ASSUME NEW S \in SUBSET n.wires, w \in S, ClosedUnder(next, S) PROVE R \subseteq S
  <2>1. ClosedUnder(next, S \cap R)
    BY <1>3, <1>4 DEF ClosedUnder
  <2>2. Joined(n, R)
    BY <1>2 DEF NetsOK
  <2>3. \A a \in S \cap R : ConnectedWires(n, a) \subseteq S \cap R
    BY <2>1 DEF ClosedUnder
  <2>4. S \cap R = R
    BY <1>2, <1>4, <2>2, <2>3 DEF Joined
  <2> QED BY <2>4
<1>5. IsReached(n.wires, next, w, R)
  BY <1>2, <1>3, <1>4 DEF IsReached
<1>6. Reached(w, next) = R
  <2> HIDE DEF next, R
  <2> QED BY <1>1, <1>5, ReachedIs
<1> QED BY <1>6 DEF WireGroup

\* The components of an island are a group of the network.
LEMMA IslandIsGroup ==
    ASSUME NEW n, NEW t, NetworkOK(n), NetsOK(n, t, {}), IslandsOK(n, t, {}),
           NEW component \in Components(n)
    PROVE  ComponentGroup(n, component) = t.islands[t.componentIsland[component]]
<1> DEFINE touching(c) == {x \in DOMAIN n.attached : TerminalComponent(n, x) = c}
           wiresOf(c) == UNION {WireGroup(n, n.attached[x]) : x \in touching(c)}
           next == [c \in Components(n) |->
                        {TerminalComponent(n, x) : x \in TerminalsOn(n, wiresOf(c))}]
           R == t.islands[t.componentIsland[component]]
<1>1. \A x \in DOMAIN n.attached :
        n.attached[x] \in n.wires /\ TerminalComponent(n, x) \in Components(n)
  BY TerminalFacts DEF NetworkOK
<1>2. ASSUME NEW c, NEW y \in DOMAIN n.attached
      PROVE  n.attached[y] \in wiresOf(c) <=>
                \E x \in touching(c) : NetAt(t, n, x) = NetAt(t, n, y)
  <2>1. \A x \in touching(c) : WireGroup(n, n.attached[x]) = WiresAt(t, n, NetAt(t, n, x))
    BY <1>1, NetIsGroup DEF NetAt
  <2>2. \A x \in touching(c) : n.attached[y] \in WireGroup(n, n.attached[x])
                                 <=> NetAt(t, n, x) = NetAt(t, n, y)
    BY <1>1, <2>1 DEF WiresAt, NetAt
  <2>3. n.attached[y] \in wiresOf(c) <=> \E x \in touching(c) : n.attached[y] \in WireGroup(n, n.attached[x])
    OBVIOUS
  <2> QED BY <2>2, <2>3
<1>3. ASSUME NEW c \in Components(n), NEW e
      PROVE  e \in next[c] <=>
                \E x, y \in DOMAIN n.attached :
                    /\ TerminalComponent(n, x) = c /\ TerminalComponent(n, y) = e
                    /\ NetAt(t, n, x) = NetAt(t, n, y)
  <2>1. e \in next[c] <=> \E y \in DOMAIN n.attached :
                              n.attached[y] \in wiresOf(c) /\ TerminalComponent(n, y) = e
    BY DEF TerminalsOn
  <2> HIDE DEF wiresOf, next
  <2> QED BY <1>2, <2>1
<1> HIDE DEF next
<1>4. Graph(Components(n), next)
  <2>1. DOMAIN next = Components(n) /\ next = [c \in Components(n) |-> next[c]]
    BY DEF next
  <2>2. \A c \in Components(n) : next[c] \in SUBSET Components(n)
    BY <1>1, <1>3
  <2> QED BY <2>1, <2>2 DEF Graph, NetworkOK
<1>5. component \in R /\ R \in SUBSET Components(n)
  BY DEF IslandsOK, IslandMembers
<1>6. ClosedUnder(next, R)
  <2> SUFFICES ASSUME NEW c \in R, NEW e \in next[c] PROVE e \in R
    BY DEF ClosedUnder
  <2>1. PICK x \in DOMAIN n.attached, y \in DOMAIN n.attached :
            /\ TerminalComponent(n, x) = c /\ TerminalComponent(n, y) = e
            /\ NetAt(t, n, x) = NetAt(t, n, y)
    BY <1>3, <1>5
  <2>2. t.componentIsland[c] = t.componentIsland[e]
    BY <2>1 DEF IslandsOK, NetIslands
  <2>3. c \in Components(n) /\ e \in Components(n)
    BY <1>1, <2>1
  <2> QED BY <2>2, <2>3 DEF IslandsOK, IslandMembers
<1>7. ASSUME NEW S \in SUBSET Components(n), component \in S, ClosedUnder(next, S)
      PROVE  R \subseteq S
  <2>1. Conducts(n, t, S \cap R)
    <3> SUFFICES ASSUME NEW x \in DOMAIN n.attached, NEW y \in DOMAIN n.attached,
                        NetAt(t, n, x) = NetAt(t, n, y), TerminalComponent(n, x) \in S \cap R
                 PROVE  TerminalComponent(n, y) \in S \cap R
      BY DEF Conducts
    <3>1. TerminalComponent(n, y) \in next[TerminalComponent(n, x)]
      BY <1>1, <1>3
    <3> QED BY <3>1, <1>6, <1>7 DEF ClosedUnder
  <2>2. t.componentIsland[component] \in DOMAIN t.islands
    BY DEF IslandsOK, IslandMembers
  <2>3. S \cap R = R
    BY <1>5, <1>7, <2>1, <2>2 DEF IslandsOK
  <2> QED BY <2>3
<1>8. IsReached(Components(n), next, component, R)
  BY <1>5, <1>6, <1>7 DEF IsReached
<1>9. Reached(component, next) = R
  <2> HIDE DEF R
  <2> QED BY <1>4, <1>8, ReachedIs
<1> QED BY <1>9 DEF ComponentGroup, next

-----------------------------------------------------------------------------
(* What a command keeps.                                                   *)

\* Islands that stay alive keep a component, those that are not marked are
\* compiled to what they were, and none is forgotten.
Keeps(n, t, m, u) ==
    /\ t.islandSlots <= u.islandSlots
    /\ \A i \in DOMAIN u.islands :
          i \in 1..t.islandSlots =>
              i \in DOMAIN t.islands /\ t.islands[i] \cap u.islands[i] # {}
    /\ \A i \in DOMAIN u.islands \ u.invalidation.topologyDirty :
          /\ i \in DOMAIN t.islands \ t.invalidation.topologyDirty
          /\ CompiledIsland(u, m, i) = CompiledIsland(t, n, i)
    /\ DOMAIN t.islands \cup t.invalidation.retired
          \subseteq DOMAIN u.islands \cup u.invalidation.retired

\* An island is compiled to the same when its terminals and the ones that share
\* a net are the same.
SameTerminals(n, t, m, u, components) ==
    /\ {x \in Terminals(n) : TerminalComponent(n, x) \in components}
          = {x \in Terminals(m) : TerminalComponent(m, x) \in components}
    /\ \A x \in Terminals(n) :
          TerminalComponent(n, x) \in components => (x \in DOMAIN n.attached <=> x \in DOMAIN m.attached)
    /\ \A x, y \in Terminals(n) :
          /\ TerminalComponent(n, x) \in components /\ TerminalComponent(n, y) \in components
          /\ x \in DOMAIN n.attached /\ y \in DOMAIN n.attached
          => (NetAt(t, n, x) = NetAt(t, n, y) <=> NetAt(u, m, x) = NetAt(u, m, y))

\* The terminals decide what is compiled.
LEMMA SameCompiled ==
    ASSUME NEW n, NEW t, NEW m, NEW u, NEW i, u.islands[i] = t.islands[i],
           SameTerminals(n, t, m, u, t.islands[i])
    PROVE  CompiledIsland(u, m, i) = CompiledIsland(t, n, i)
<1> DEFINE Ts == {x \in Terminals(n) : TerminalComponent(n, x) \in t.islands[i]}
           OldNode(x, y) == x = y \/ ({x, y} \subseteq DOMAIN n.attached /\
                                        t.wireNet[n.attached[x]] = t.wireNet[n.attached[y]])
           NewNode(x, y) == x = y \/ ({x, y} \subseteq DOMAIN m.attached /\
                                        u.wireNet[m.attached[x]] = u.wireNet[m.attached[y]])
<1>1. Ts = {x \in Terminals(m) : TerminalComponent(m, x) \in u.islands[i]}
  BY DEF SameTerminals
<1>2. \A x, y \in Ts : OldNode(x, y) <=> NewNode(x, y)
  BY DEF SameTerminals, NetAt
<1>3. CompiledIsland(t, n, i) =
        [components |-> t.islands[i], nodes |-> {{y \in Ts : OldNode(x, y)} : x \in Ts}]
  BY DEF CompiledIsland
<1>4. CompiledIsland(u, m, i) =
        [components |-> t.islands[i], nodes |-> {{y \in Ts : NewNode(x, y)} : x \in Ts}]
  BY <1>1, Zenon DEF CompiledIsland
<1>5. \A x \in Ts : {y \in Ts : OldNode(x, y)} = {y \in Ts : NewNode(x, y)}
  BY <1>2, Zenon
<1>6. {{y \in Ts : OldNode(x, y)} : x \in Ts} = {{y \in Ts : NewNode(x, y)} : x \in Ts}
  <2> DEFINE Old(x) == {y \in Ts : OldNode(x, y)}
             New(x) == {y \in Ts : NewNode(x, y)}
  <2>1. \A x \in Ts : Old(x) = New(x)
    BY <1>5
  <2> HIDE DEF Old, New, Ts
  <2>2. {Old(x) : x \in Ts} = {New(x) : x \in Ts}
    BY <2>1
  <2> QED BY <2>2 DEF Old, New
<1> QED BY <1>3, <1>4, <1>6, Zenon

\* Devices that stay as they are have the same terminals and components.
LEMMA SameDevices ==
    ASSUME NEW n, NEW m, m.devices = n.devices
    PROVE  /\ Terminals(m) = Terminals(n) /\ Components(m) = Components(n)
           /\ \A x : TerminalComponent(m, x) = TerminalComponent(n, x)
BY DEF Terminals, Components, TerminalComponent, DeviceComponents

\* The incidences of wires whose terminals stay as they are.
LEMMA SameIncidences ==
    ASSUME NEW n, NEW m, NEW wires, TerminalsOn(m, wires) = TerminalsOn(n, wires),
           \A x \in TerminalsOn(n, wires) : TerminalComponent(m, x) = TerminalComponent(n, x)
    PROVE  Incidences(m, wires) = Incidences(n, wires)
<1> DEFINE T == TerminalsOn(n, wires)
<1>1. {TerminalComponent(m, x) : x \in T} = {TerminalComponent(n, x) : x \in T}
  OBVIOUS
<1>2. \A c : {x \in T : TerminalComponent(m, x) = c} = {x \in T : TerminalComponent(n, x) = c}
  OBVIOUS
<1>3. Incidences(m, wires) = [c \in {TerminalComponent(m, x) : x \in T} |->
                                 Cardinality({x \in T : TerminalComponent(m, x) = c})]
  BY Zenon DEF Incidences
<1>4. Incidences(n, wires) = [c \in {TerminalComponent(n, x) : x \in T} |->
                                 Cardinality({x \in T : TerminalComponent(n, x) = c})]
  BY Zenon DEF Incidences
<1> HIDE DEF T
<1>5. [c \in {TerminalComponent(m, x) : x \in T} |-> Cardinality({x \in T : TerminalComponent(m, x) = c})]
        = [c \in {TerminalComponent(n, x) : x \in T} |->
              Cardinality({x \in T : TerminalComponent(n, x) = c})]
  BY <1>1, <1>2, Zenon
<1> QED BY <1>3, <1>4, <1>5

\* Wires that no terminal is attached to have no incidences.
LEMMA NoIncidences ==
    ASSUME NEW n, NEW wires, TerminalsOn(n, wires) = {} PROVE Incidences(n, wires) = EmptyBag
BY DEF Incidences, EmptyBag, SetToBag

\* Wires of which no connection changes stay joined.
LEMMA SameJoined ==
    ASSUME NEW n, NEW m, NEW wires,
           \A a \in wires : ConnectedWires(m, a) = ConnectedWires(n, a), Joined(n, wires)
    PROVE  Joined(m, wires)
<1> SUFFICES ASSUME NEW S \in SUBSET wires, S # {}, \A a \in S : ConnectedWires(m, a) \subseteq S
             PROVE  S = wires
  BY DEF Joined
<1>1. \A a \in S : ConnectedWires(n, a) \subseteq S
  OBVIOUS
<1> QED BY <1>1 DEF Joined

-----------------------------------------------------------------------------
(* add_wire.                                                               *)

\* A new wire is a net of its own, without an island.
LEMMA AddWireTopology ==
    ASSUME NEW n, NEW t, TopologyOK(n, t), NEW w \in Wires, CanAddWire(n, w),
           NEW m, m = AfterAddWire(n, w), NEW u, u = TopologyAddWire(t, w)
    PROVE  TopologyOK(m, u) /\ Keeps(n, t, m, u)
<1> DEFINE k == t.netSlots + 1
<1>1. /\ NetworkRecord(m) /\ m.wires = n.wires \cup {w} /\ m.connections = n.connections
      /\ m.devices = n.devices /\ m.attached = n.attached /\ w \notin n.wires
  BY DEF TopologyOK, NetworkOK, NetworkRecord, CanAddWire, AfterAddWire
<1>2. /\ u.nets = With(t.nets, k, [wires |-> {w}, components |-> EmptyBag])
      /\ u.netSlots = k /\ u.wireNet = With(t.wireNet, w, k)
      /\ u.netIsland = With(t.netIsland, k, NoIsland)
      /\ u.islands = t.islands /\ u.islandSlots = t.islandSlots
      /\ u.componentIsland = t.componentIsland /\ u.invalidation = t.invalidation
      /\ TopologyRecord(u)
  BY DEF TopologyOK, TopologyRecord, TopologyAddWire
<1>3. NetworkOK(n) /\ NetsOK(n, t, {}) /\ IslandsOK(n, t, {}) /\ MarksOK(t)
  BY DEF TopologyOK
<1>4. /\ Terminals(m) = Terminals(n) /\ Components(m) = Components(n)
      /\ \A x : TerminalComponent(m, x) = TerminalComponent(n, x)
  BY <1>1, SameDevices
<1>5. NetworkOK(m)
  <2>1. IsFiniteSet(m.wires)
    BY <1>1, <1>3, FS_AddElement DEF NetworkOK
  <2> QED BY <2>1, <1>1, <1>3, <1>4 DEF NetworkOK
<1>6. /\ k \in Nat /\ k \notin 1..t.netSlots /\ 1..t.netSlots \subseteq 1..k
      /\ k \in 1..k /\ \A i \in 1..k : i = k \/ i \in 1..t.netSlots
  BY <1>3 DEF NetsOK
<1>7. /\ DOMAIN t.wireNet = n.wires /\ \A v \in n.wires : u.wireNet[v] = t.wireNet[v]
      /\ u.wireNet[w] = k /\ \A v \in n.wires : t.wireNet[v] # k
  BY <1>1, <1>2, <1>3, <1>6 DEF NetsOK, With
<1> HIDE DEF k
<1>8. WiresAt(u, m, k) = {w} /\ \A i \in 1..t.netSlots : WiresAt(u, m, i) = WiresAt(t, n, i)
  BY <1>1, <1>6, <1>7 DEF WiresAt
<1>9. \A x \in DOMAIN n.attached : n.attached[x] \in n.wires /\ NetAt(u, m, x) = NetAt(t, n, x)
  BY <1>1, <1>3, <1>7 DEF NetworkOK, NetAt
<1>10. \A a \in n.wires : ConnectedWires(m, a) = ConnectedWires(n, a)
  <2>1. \A c \in n.connections : w \notin c
    BY <1>1, <1>3 DEF NetworkOK
  <2> QED BY <2>1, <1>1 DEF ConnectedWires
<1>11. NetsOK(m, u, {})
  <2>1. Incidences(m, {w}) = EmptyBag
    BY <1>1, <1>9, NoIncidences DEF TerminalsOn
  <2>2. Joined(m, {w})
    BY DEF Joined
  <2>3. ASSUME NEW i \in DOMAIN t.nets
        PROVE  /\ u.nets[i] = t.nets[i]
               /\ Incidences(m, WiresAt(t, n, i)) = Incidences(n, WiresAt(t, n, i))
               /\ Joined(m, WiresAt(t, n, i))
    <3>1. i # k /\ i \in 1..t.netSlots
      BY <1>3, <1>6 DEF NetsOK
    <3>2. TerminalsOn(m, WiresAt(t, n, i)) = TerminalsOn(n, WiresAt(t, n, i))
      BY <1>1 DEF TerminalsOn
    <3>3. Incidences(m, WiresAt(t, n, i)) = Incidences(n, WiresAt(t, n, i))
      BY <3>2, <1>4, SameIncidences
    <3>4. Joined(n, WiresAt(t, n, i))
      BY <1>3 DEF NetsOK
    <3>5. Joined(m, WiresAt(t, n, i))
      BY <3>4, <1>10, SameJoined DEF WiresAt
    <3> QED BY <3>1, <3>3, <3>5, <1>2 DEF With
  <2>4. \A a, b \in m.wires : {a, b} \in m.connections => a \in n.wires /\ b \in n.wires
    <3>1. \A c \in n.connections : w \notin c
      BY <1>1, <1>3 DEF NetworkOK
    <3> QED BY <3>1, <1>1
  <2>5. \A a, b \in m.wires : {a, b} \in m.connections => u.wireNet[a] = u.wireNet[b]
    BY <2>4, <1>1, <1>3, <1>7 DEF NetsOK
  <2>6. DOMAIN u.nets = DOMAIN t.nets \cup {k} /\ IsFunction(u.nets)
        /\ u.nets[k] = [wires |-> {w}, components |-> EmptyBag]
    BY <1>2 DEF With, IsFunction
  <2>7. u.wireNet \in [m.wires -> DOMAIN u.nets]
    BY <1>1, <1>2, <1>3, <2>6 DEF NetsOK, With
  <2>8. DOMAIN t.nets \subseteq 1..t.netSlots
    BY <1>3 DEF NetsOK
  <2>9. \A i \in DOMAIN t.nets :
            /\ t.nets[i] = [wires |-> WiresAt(t, n, i),
                            components |-> Incidences(n, WiresAt(t, n, i))]
            /\ WiresAt(t, n, i) # {}
    BY <1>3 DEF NetsOK
  <2>10. ASSUME NEW i \in DOMAIN u.nets
         PROVE  /\ u.nets[i] = [wires |-> WiresAt(u, m, i),
                                components |-> Incidences(m, WiresAt(u, m, i))]
                /\ WiresAt(u, m, i) # {}
                /\ Joined(m, WiresAt(u, m, i))
    <3>1. CASE i = k
      BY <3>1, <1>8, <2>1, <2>2, <2>6
    <3>2. CASE i \in DOMAIN t.nets
      BY <3>2, <1>8, <2>3, <2>8, <2>9
    <3> QED BY <3>1, <3>2, <2>6
  <2> QED BY <2>5, <2>6, <2>7, <2>8, <2>10, <1>2, <1>6 DEF NetsOK
<1>12. IslandsOK(m, u, {})
  <2>1. IslandMembers(m, u)
    BY <1>2, <1>3, <1>4 DEF IslandsOK, IslandMembers
  <2>2. NetIslands(m, u, {})
    <3>1. IsFunction(u.netIsland) /\ DOMAIN u.netIsland = 1..u.netSlots /\ u.netIsland[k] = NoIsland
          /\ \A i \in 1..t.netSlots : u.netIsland[i] = t.netIsland[i]
      BY <1>2, <1>3, <1>6 DEF IslandsOK, NetIslands, With, IsFunction
    <3>2. \A x \in DOMAIN n.attached : NetAt(t, n, x) \in 1..t.netSlots
      BY <1>3, <1>9 DEF NetsOK, NetAt
    <3> QED BY <3>1, <3>2, <1>1, <1>2, <1>3, <1>4, <1>6, <1>9 DEF IslandsOK, NetIslands
  <2>3. \A S : Conducts(m, u, S) <=> Conducts(n, t, S)
    BY <1>1, <1>4, <1>9 DEF Conducts
  <2> QED BY <2>1, <2>2, <2>3, <1>2, <1>3 DEF IslandsOK
<1>13. MarksOK(u)
  BY <1>2, <1>3 DEF MarksOK
<1>14. Keeps(n, t, m, u)
  <2>1. \A i : CompiledIsland(u, m, i) = CompiledIsland(t, n, i)
    <3> TAKE i
    <3>1. SameTerminals(n, t, m, u, t.islands[i])
      BY <1>1, <1>4, <1>9 DEF SameTerminals
    <3> QED BY <3>1, <1>2, SameCompiled
  <2>2. \A i \in DOMAIN t.islands : t.islands[i] # {} /\ i \in 1..t.islandSlots
    BY <1>3 DEF IslandsOK, IslandMembers
  <2>3. t.islandSlots \in Nat
    BY <1>3 DEF IslandsOK, IslandMembers
  <2> QED BY <2>1, <2>2, <2>3, <1>2 DEF Keeps
<1> QED BY <1>2, <1>5, <1>11, <1>12, <1>13, <1>14 DEF TopologyOK

-----------------------------------------------------------------------------
(* Incidences are counted.                                                 *)

\* How many of some terminals each component has.
TerminalCount(n, T) ==
    [c \in {TerminalComponent(n, x) : x \in T} |-> Cardinality({x \in T : TerminalComponent(n, x) = c})]

\* The incidences of wires are the count of the terminals on them.
LEMMA IncidencesCount ==
    ASSUME NEW n, NEW wires PROVE Incidences(n, wires) = TerminalCount(n, TerminalsOn(n, wires))
BY DEF Incidences, TerminalCount

\* Two sets of terminals together are counted by the sum of the bags.
LEMMA CountUnion ==
    ASSUME NEW n, NEW T, NEW U, IsFiniteSet(T), IsFiniteSet(U), T \cap U = {}
    PROVE  TerminalCount(n, T \cup U) = TerminalCount(n, T) (+) TerminalCount(n, U)
<1> DEFINE C(S) == {TerminalComponent(n, x) : x \in S}
           At(S, c) == {x \in S : TerminalComponent(n, x) = c}
<1>1. C(T \cup U) = C(T) \cup C(U)
  OBVIOUS
<1>2. ASSUME NEW c
      PROVE  Cardinality(At(T \cup U, c)) = (IF c \in C(T) THEN Cardinality(At(T, c)) ELSE 0)
                                            + (IF c \in C(U) THEN Cardinality(At(U, c)) ELSE 0)
  <2>1. At(T \cup U, c) = At(T, c) \cup At(U, c) /\ At(T, c) \cap At(U, c) = {}
    OBVIOUS
  <2>2. At(T, c) \in SUBSET T /\ At(U, c) \in SUBSET U
    OBVIOUS
  <2>3. (c \notin C(T) => At(T, c) = {}) /\ (c \notin C(U) => At(U, c) = {})
    OBVIOUS
  <2> HIDE DEF At, C
  <2>4. IsFiniteSet(At(T, c)) /\ IsFiniteSet(At(U, c))
    BY <2>2, FS_Subset
  <2>5. Cardinality(At(T \cup U, c)) = Cardinality(At(T, c)) + Cardinality(At(U, c)) - Cardinality({})
    BY <2>1, <2>4, FS_Union
  <2>6. Cardinality({}) = 0 /\ Cardinality(At(T, c)) \in Nat /\ Cardinality(At(U, c)) \in Nat
    BY <2>4, FS_EmptySet, FS_CardinalityType
  <2>7. (c \notin C(T) => Cardinality(At(T, c)) = 0) /\ (c \notin C(U) => Cardinality(At(U, c)) = 0)
    BY <2>3, <2>6
  <2> QED BY <2>5, <2>6, <2>7
<1>3. TerminalCount(n, T \cup U) = [c \in C(T \cup U) |-> Cardinality(At(T \cup U, c))]
  BY Zenon DEF TerminalCount
<1>4. TerminalCount(n, T) = [c \in C(T) |-> Cardinality(At(T, c))]
      /\ TerminalCount(n, U) = [c \in C(U) |-> Cardinality(At(U, c))]
  BY Zenon DEF TerminalCount
<1> HIDE DEF At, C
<1>5. [c \in C(T) |-> Cardinality(At(T, c))] (+) [c \in C(U) |-> Cardinality(At(U, c))]
        = [c \in C(T) \cup C(U) |-> (IF c \in C(T) THEN Cardinality(At(T, c)) ELSE 0)
                                    + (IF c \in C(U) THEN Cardinality(At(U, c)) ELSE 0)]
  BY DEF (+)
<1> QED BY <1>1, <1>2, <1>3, <1>4, <1>5

\* One terminal counts once.
LEMMA CountOne ==
    ASSUME NEW n, NEW x
    PROVE  TerminalCount(n, {x}) = SetToBag({TerminalComponent(n, x)})
<1>1. {TerminalComponent(n, y) : y \in {x}} = {TerminalComponent(n, x)}
  OBVIOUS
<1>2. {y \in {x} : TerminalComponent(n, y) = TerminalComponent(n, x)} = {x}
  OBVIOUS
<1>3. Cardinality({x}) = 1
  BY FS_Singleton
<1> QED BY <1>1, <1>2, <1>3 DEF TerminalCount, SetToBag

\* Without one of the terminals its component counts one less.
LEMMA CountWithout ==
    ASSUME NEW n, NEW T, IsFiniteSet(T), NEW x \in T
    PROVE  TerminalCount(n, T \ {x}) = TerminalCount(n, T) (-) SetToBag({TerminalComponent(n, x)})
<1> DEFINE C(S) == {TerminalComponent(n, y) : y \in S}
           At(S, c) == {y \in S : TerminalComponent(n, y) = c}
           less == [c \in C(T) |-> IF c = TerminalComponent(n, x) THEN Cardinality(At(T, c)) - 1
                                   ELSE Cardinality(At(T, c))]
<1>1. TerminalCount(n, T \ {x}) = [c \in C(T \ {x}) |-> Cardinality(At(T \ {x}, c))]
      /\ TerminalCount(n, T) = [c \in C(T) |-> Cardinality(At(T, c))]
  BY Zenon DEF TerminalCount
<1>2. ASSUME NEW c \in C(T)
      PROVE  /\ less[c] = Cardinality(At(T \ {x}, c)) /\ less[c] \in Nat
             /\ less[c] > 0 <=> c \in C(T \ {x})
  <2>1. At(T, c) \in SUBSET T /\ At(T \ {x}, c) = At(T, c) \ {x}
    OBVIOUS
  <2>2. (x \in At(T, c) <=> c = TerminalComponent(n, x))
        /\ (c \in C(T \ {x}) <=> At(T \ {x}, c) # {})
        /\ less[c] = IF c = TerminalComponent(n, x) THEN Cardinality(At(T, c)) - 1
                     ELSE Cardinality(At(T, c))
    OBVIOUS
  <2> HIDE DEF At, C, less
  <2>3. IsFiniteSet(At(T, c)) /\ IsFiniteSet(At(T \ {x}, c))
    <3>1. IsFiniteSet(At(T, c))
      BY <2>1, FS_Subset
    <3>2. IsFiniteSet(At(T, c) \ {x})
      BY <3>1, FS_RemoveElement
    <3> QED BY <3>1, <3>2, <2>1
  <2>4. Cardinality(At(T \ {x}, c)) = IF x \in At(T, c) THEN Cardinality(At(T, c)) - 1
                                      ELSE Cardinality(At(T, c))
    BY <2>1, <2>3, FS_RemoveElement
  <2>5. Cardinality(At(T \ {x}, c)) \in Nat
        /\ (Cardinality(At(T \ {x}, c)) = 0 <=> At(T \ {x}, c) = {})
    BY <2>3, FS_CardinalityType, FS_EmptySet
  <2>6. less[c] = Cardinality(At(T \ {x}, c))
    BY <2>2, <2>4
  <2>7. PICK k : k = Cardinality(At(T \ {x}, c))
    OBVIOUS
  <2>8. k \in Nat /\ (k = 0 <=> c \notin C(T \ {x}))
    BY <2>2, <2>5, <2>7
  <2>9. k > 0 <=> c \in C(T \ {x})
    BY <2>8
  <2> QED BY <2>6, <2>7, <2>8, <2>9
<1>3. C(T \ {x}) \subseteq C(T)
  OBVIOUS
<1>4. TerminalCount(n, T) (-) SetToBag({TerminalComponent(n, x)})
        = [c \in {e \in C(T) : less[e] > 0} |-> less[c]]
  <2> HIDE DEF At, C
  <2>1. \A c \in C(T) : less[c] = IF c \in DOMAIN SetToBag({TerminalComponent(n, x)})
                                  THEN TerminalCount(n, T)[c] - SetToBag({TerminalComponent(n, x)})[c]
                                  ELSE TerminalCount(n, T)[c]
    BY <1>1 DEF SetToBag
  <2>2. DOMAIN TerminalCount(n, T) = C(T) /\ DOMAIN less = C(T)
        /\ less = [c \in C(T) |-> less[c]]
    BY <1>1
  <2>3. less = [c \in DOMAIN TerminalCount(n, T) |->
                  IF c \in DOMAIN SetToBag({TerminalComponent(n, x)})
                  THEN TerminalCount(n, T)[c] - SetToBag({TerminalComponent(n, x)})[c]
                  ELSE TerminalCount(n, T)[c]]
    <3> HIDE DEF less
    <3> QED BY <2>1, <2>2
  <2> HIDE DEF less
  <2> QED BY <2>2, <2>3 DEF (-)
<1> HIDE DEF At, C, less
<1>5. {e \in C(T) : less[e] > 0} = C(T \ {x})
  BY <1>2, <1>3
<1> QED BY <1>1, <1>2, <1>3, <1>4, <1>5

-----------------------------------------------------------------------------
(* Two islands become one (merge_islands).                                 *)

\* Marks change nothing else.
LEMMA MarkFacts ==
    ASSUME NEW t, TopologyRecord(t), NEW islands, NEW u, u = MarkAllTopologyDirty(t, islands)
    PROVE  /\ TopologyRecord(u)
           /\ u.nets = t.nets /\ u.netSlots = t.netSlots /\ u.wireNet = t.wireNet
           /\ u.netIsland = t.netIsland /\ u.islands = t.islands /\ u.islandSlots = t.islandSlots
           /\ u.componentIsland = t.componentIsland
           /\ u.invalidation = [topologyDirty |-> t.invalidation.topologyDirty
                                                    \cup (islands \ t.invalidation.retired),
                                retired |-> t.invalidation.retired]
BY DEF MarkAllTopologyDirty, TopologyRecord

\* A retired island is no longer dirty.
LEMMA RetireFacts ==
    ASSUME NEW t, TopologyRecord(t), NEW island, NEW u, u = MarkRetired(t, island)
    PROVE  /\ TopologyRecord(u)
           /\ u.nets = t.nets /\ u.netSlots = t.netSlots /\ u.wireNet = t.wireNet
           /\ u.netIsland = t.netIsland /\ u.islands = t.islands /\ u.islandSlots = t.islandSlots
           /\ u.componentIsland = t.componentIsland
           /\ u.invalidation = [topologyDirty |-> t.invalidation.topologyDirty \ {island},
                                retired |-> t.invalidation.retired \cup {island}]
BY DEF MarkRetired, TopologyRecord

MergedIslands(t, u, dst, src) ==
    /\ TopologyRecord(u)
    /\ u.nets = t.nets /\ u.netSlots = t.netSlots /\ u.wireNet = t.wireNet
    /\ u.islandSlots = t.islandSlots
    /\ u.islands = With(Without(t.islands, src), dst, t.islands[dst] \cup t.islands[src])
    /\ u.componentIsland = [c \in DOMAIN t.componentIsland |->
                                IF t.componentIsland[c] = src THEN dst ELSE t.componentIsland[c]]
    /\ u.netIsland = [i \in DOMAIN t.netIsland |->
                          IF t.netIsland[i] = src THEN dst ELSE t.netIsland[i]]
    /\ u.invalidation = [topologyDirty |-> (t.invalidation.topologyDirty \ {src}) \cup {dst},
                         retired |-> t.invalidation.retired \cup {src}]

\* The nets of the island that goes are all found through its components.
NetsAreFound(t, n, island) ==
    \A i \in DOMAIN t.netIsland :
        t.netIsland[i] = island => \E c \in t.islands[island] : i \in NetsOf(t, n, c)

\* The island that does not keep its ID.
Gone(t, a, b) == IF Survivor(t, a, b) = a THEN b ELSE a

\* Of two islands one keeps its ID and one goes.
LEMMA SurvivorFacts ==
    ASSUME NEW t, NEW a, NEW b, a # b
    PROVE  {Survivor(t, a, b), Gone(t, a, b)} = {a, b} /\ Survivor(t, a, b) # Gone(t, a, b)
BY DEF Survivor, Gone

\* merge_islands moves all components and all nets of the island that goes.
LEMMA MergeIslandsFacts ==
    ASSUME NEW t, TopologyRecord(t), NEW n, NEW m, IslandMembers(m, t), MarksOK(t),
           NEW a, NEW b, a \in DOMAIN t.islands, b \in DOMAIN t.islands, a # b,
           NetsAreFound(t, n, a), NetsAreFound(t, n, b)
    PROVE  MergedIslands(t, MergeIslands(t, n, a, b), Survivor(t, a, b), Gone(t, a, b))
<1> DEFINE dst == Survivor(t, a, b)
           src == Gone(t, a, b)
           u == MergeIslands(t, n, a, b)
<1>1. {dst, src} = {a, b} /\ dst # src /\ dst \in DOMAIN t.islands /\ src \in DOMAIN t.islands
  <2>1. {dst, src} = {a, b} /\ dst # src
    BY SurvivorFacts
  <2> HIDE DEF dst, src
  <2> QED BY <2>1
<1> DEFINE moved == t.islands[src]
           nets == UNION {NetsOf(t, n, c) : c \in moved}
           islands == With(Without(t.islands, src), dst, t.islands[dst] \cup moved)
           componentIsland == [c \in DOMAIN t.componentIsland |->
                                  IF c \in moved THEN dst ELSE t.componentIsland[c]]
           netIsland == [i \in DOMAIN t.netIsland |->
                            IF i \in nets /\ t.netIsland[i] = src THEN dst ELSE t.netIsland[i]]
           joined == [t EXCEPT !.islands = islands, !.componentIsland = componentIsland,
                               !.netIsland = netIsland]
<1>2. u = MarkTopologyDirty(MarkRetired(joined, src), dst)
  BY <1>1, Zenon DEF MergeIslands, Gone
<1> HIDE DEF dst, src, u
<1>3. \A c \in DOMAIN t.componentIsland : c \in moved <=> t.componentIsland[c] = src
  BY <1>1 DEF IslandMembers
<1>4. \A i \in DOMAIN t.netIsland : t.netIsland[i] = src => i \in nets
  <2>1. NetsAreFound(t, n, src)
    BY <1>1
  <2> QED BY <2>1 DEF NetsAreFound
<1>5. componentIsland = [c \in DOMAIN t.componentIsland |->
                            IF t.componentIsland[c] = src THEN dst ELSE t.componentIsland[c]]
  <2> HIDE DEF moved
  <2> QED BY <1>3
<1>6. netIsland = [i \in DOMAIN t.netIsland |-> IF t.netIsland[i] = src THEN dst ELSE t.netIsland[i]]
  <2> HIDE DEF nets
  <2> QED BY <1>4
<1> HIDE DEF islands, componentIsland, netIsland
<1>7. dst \notin t.invalidation.retired
  BY <1>1 DEF MarksOK
<1>8. /\ TopologyRecord(joined)
      /\ joined.nets = t.nets /\ joined.netSlots = t.netSlots /\ joined.wireNet = t.wireNet
      /\ joined.netIsland = netIsland /\ joined.islands = islands
      /\ joined.islandSlots = t.islandSlots /\ joined.componentIsland = componentIsland
      /\ joined.invalidation = t.invalidation
  <2>1. joined = [t EXCEPT !.islands = islands, !.componentIsland = componentIsland,
                           !.netIsland = netIsland]
    BY Zenon
  <2>2. TopologyRecord(t)
    OBVIOUS
  <2> HIDE DEF joined
  <2> QED BY <2>1, <2>2 DEF TopologyRecord
<1> HIDE DEF joined
<1>9. PICK r : r = MarkRetired(joined, src)
  OBVIOUS
<1>10. /\ TopologyRecord(r)
       /\ r.nets = t.nets /\ r.netSlots = t.netSlots /\ r.wireNet = t.wireNet
       /\ r.netIsland = netIsland /\ r.islands = islands /\ r.islandSlots = t.islandSlots
       /\ r.componentIsland = componentIsland
       /\ r.invalidation = [topologyDirty |-> t.invalidation.topologyDirty \ {src},
                            retired |-> t.invalidation.retired \cup {src}]
  BY <1>8, <1>9, RetireFacts
<1>11. /\ TopologyRecord(u)
       /\ u.nets = t.nets /\ u.netSlots = t.netSlots /\ u.wireNet = t.wireNet
       /\ u.netIsland = netIsland /\ u.islands = islands /\ u.islandSlots = t.islandSlots
       /\ u.componentIsland = componentIsland
       /\ u.invalidation = [topologyDirty |-> (t.invalidation.topologyDirty \ {src}) \cup {dst},
                            retired |-> t.invalidation.retired \cup {src}]
  <2>1. u = MarkAllTopologyDirty(r, {dst})
    BY <1>2, <1>9 DEF MarkTopologyDirty
  <2>2. {dst} \ (t.invalidation.retired \cup {src}) = {dst}
    BY <1>1, <1>7
  <2> QED BY <2>1, <2>2, <1>10, MarkFacts
<1>12. MergedIslands(t, u, dst, src)
  BY <1>5, <1>6, <1>11 DEF MergedIslands, islands
<1> QED BY <1>12 DEF u, dst, src

\* Current does not leave an island.
LEMMA IslandConducts ==
    ASSUME NEW n, NEW t, NEW open, NetworkOK(n), IslandMembers(n, t), NetIslands(n, t, open),
           NEW i \in DOMAIN t.islands
    PROVE  Conducts(n, t, t.islands[i])
<1>1. \A x \in DOMAIN n.attached : TerminalComponent(n, x) \in Components(n)
  BY TerminalFacts
<1>2. \A c \in Components(n) : c \in t.islands[i] <=> t.componentIsland[c] = i
  BY DEF IslandMembers
<1>3. \A x \in DOMAIN n.attached :
        t.netIsland[NetAt(t, n, x)] = t.componentIsland[TerminalComponent(n, x)]
  BY DEF NetIslands
<1> QED BY <1>1, <1>2, <1>3 DEF Conducts

-----------------------------------------------------------------------------
(* connect_wires.                                                          *)

\* The network after two wires are connected.
LEMMA ConnectNetwork ==
    ASSUME NEW n, NetworkOK(n), NEW a, NEW b, CanConnectWires(n, a, b),
           NEW m, m = AfterConnectWires(n, a, b)
    PROVE  /\ NetworkOK(m) /\ a \in n.wires /\ b \in n.wires /\ a # b
           /\ m.wires = n.wires /\ m.connections = n.connections \cup {{a, b}}
           /\ m.devices = n.devices /\ m.attached = n.attached
           /\ Terminals(m) = Terminals(n) /\ Components(m) = Components(n)
           /\ \A x : TerminalComponent(m, x) = TerminalComponent(n, x)
<1>1. /\ NetworkRecord(m) /\ m.wires = n.wires /\ m.connections = n.connections \cup {{a, b}}
      /\ m.devices = n.devices /\ m.attached = n.attached
  BY DEF NetworkOK, NetworkRecord, AfterConnectWires
<1>2. a \in n.wires /\ b \in n.wires /\ a # b
  BY DEF CanConnectWires
<1>3. /\ Terminals(m) = Terminals(n) /\ Components(m) = Components(n)
      /\ \A x : TerminalComponent(m, x) = TerminalComponent(n, x)
  BY <1>1, SameDevices
<1>4. NetworkOK(m)
  BY <1>1, <1>2, <1>3 DEF NetworkOK
<1> QED BY <1>1, <1>2, <1>3, <1>4

\* The nets after two of them have become one.
LEMMA ConnectNets ==
    ASSUME NEW n, NEW t, NetworkOK(n), NetsOK(n, t, {}), NEW a, NEW b, CanConnectWires(n, a, b),
           NEW m, m = AfterConnectWires(n, a, b),
           NEW dst \in DOMAIN t.nets, NEW src \in DOMAIN t.nets, dst # src,
           {dst, src} = {t.wireNet[a], t.wireNet[b]},
           NEW u, u.netSlots = t.netSlots,
           u.nets = With(Without(t.nets, src), dst,
                         [wires |-> t.nets[dst].wires \cup t.nets[src].wires,
                          components |-> t.nets[dst].components (+) t.nets[src].components]),
           u.wireNet = [w \in DOMAIN t.wireNet |-> IF t.wireNet[w] = src THEN dst ELSE t.wireNet[w]]
    PROVE  NetsOK(m, u, {})
<1> DEFINE A == WiresAt(t, n, dst)
           B == WiresAt(t, n, src)
<1>1. /\ NetworkOK(m) /\ a \in n.wires /\ b \in n.wires /\ a # b
      /\ m.wires = n.wires /\ m.connections = n.connections \cup {{a, b}}
      /\ m.devices = n.devices /\ m.attached = n.attached
      /\ \A x : TerminalComponent(m, x) = TerminalComponent(n, x)
  BY ConnectNetwork
<1>2. /\ t.netSlots \in Nat /\ IsFunction(t.nets) /\ DOMAIN t.nets \subseteq 1..t.netSlots
      /\ t.wireNet \in [n.wires -> DOMAIN t.nets]
      /\ \A v, w \in n.wires : {v, w} \in n.connections => t.wireNet[v] = t.wireNet[w]
      /\ \A i \in DOMAIN t.nets :
            /\ t.nets[i] = [wires |-> WiresAt(t, n, i),
                            components |-> Incidences(n, WiresAt(t, n, i))]
            /\ WiresAt(t, n, i) # {}
            /\ Joined(n, WiresAt(t, n, i))
  BY DEF NetsOK
<1>3. /\ \A w \in n.wires : u.wireNet[w] = IF t.wireNet[w] = src THEN dst ELSE t.wireNet[w]
      /\ DOMAIN u.wireNet = n.wires
  BY <1>2
<1>4. WiresAt(u, m, dst) = A \cup B /\ \A i : i # dst /\ i # src => WiresAt(u, m, i) = WiresAt(t, n, i)
  BY <1>1, <1>3 DEF WiresAt
<1>5. \A wires \in SUBSET n.wires : Incidences(m, wires) = Incidences(n, wires)
  <2> TAKE wires \in SUBSET n.wires
  <2>1. TerminalsOn(m, wires) = TerminalsOn(n, wires)
    BY <1>1 DEF TerminalsOn
  <2> QED BY <2>1, <1>1, SameIncidences
<1>6. Incidences(n, A) (+) Incidences(n, B) = Incidences(n, A \cup B)
  <2>1. TerminalsOn(n, A \cup B) = TerminalsOn(n, A) \cup TerminalsOn(n, B)
        /\ TerminalsOn(n, A) \cap TerminalsOn(n, B) = {}
    BY DEF TerminalsOn, WiresAt
  <2>2. IsFiniteSet(TerminalsOn(n, A)) /\ IsFiniteSet(TerminalsOn(n, B))
    <3>1. TerminalsOn(n, A) \in SUBSET DOMAIN n.attached /\ TerminalsOn(n, B) \in SUBSET DOMAIN n.attached
      BY DEF TerminalsOn
    <3>2. IsFiniteSet(DOMAIN n.attached)
      BY DEF NetworkOK
    <3> QED BY <3>1, <3>2, FS_Subset
  <2>3. TerminalCount(n, TerminalsOn(n, A) \cup TerminalsOn(n, B))
          = TerminalCount(n, TerminalsOn(n, A)) (+) TerminalCount(n, TerminalsOn(n, B))
    BY <2>1, <2>2, CountUnion
  <2>4. /\ Incidences(n, A) = TerminalCount(n, TerminalsOn(n, A))
        /\ Incidences(n, B) = TerminalCount(n, TerminalsOn(n, B))
        /\ Incidences(n, A \cup B) = TerminalCount(n, TerminalsOn(n, A) \cup TerminalsOn(n, B))
    BY <2>1, IncidencesCount
  <2> HIDE DEF A, B
  <2> QED BY <2>3, <2>4
<1>7. \A v \in n.wires : ConnectedWires(n, v) \subseteq ConnectedWires(m, v)
  BY <1>1 DEF ConnectedWires
<1>8. b \in ConnectedWires(m, a) /\ a \in ConnectedWires(m, b)
  <2>1. {a, b} \in m.connections /\ {b, a} = {a, b}
    BY <1>1
  <2> QED BY <2>1, <1>1 DEF ConnectedWires
<1>9. Joined(m, A \cup B)
  <2> SUFFICES ASSUME NEW S \in SUBSET (A \cup B), S # {},
                      \A v \in S : ConnectedWires(m, v) \subseteq S
               PROVE  S = A \cup B
    BY DEF Joined
  <2>1. \A v \in n.wires : \A w \in ConnectedWires(n, v) : (v \in A <=> w \in A) /\ (v \in B <=> w \in B)
    BY <1>2 DEF ConnectedWires, WiresAt
  <2>2. A \subseteq n.wires /\ B \subseteq n.wires /\ Joined(n, A) /\ Joined(n, B)
    BY <1>2 DEF WiresAt
  <2>3. \A v \in S \cap A : ConnectedWires(n, v) \subseteq S \cap A
    BY <2>1, <2>2, <1>7
  <2>4. \A v \in S \cap B : ConnectedWires(n, v) \subseteq S \cap B
    BY <2>1, <2>2, <1>7
  <2>5. S \cap A = {} \/ S \cap A = A
    BY <2>2, <2>3 DEF Joined
  <2>6. S \cap B = {} \/ S \cap B = B
    BY <2>2, <2>4 DEF Joined
  <2>7. (a \in A /\ b \in B) \/ (a \in B /\ b \in A)
    BY <1>1 DEF WiresAt
  <2>8. a \in S <=> b \in S
    BY <1>8
  <2> HIDE DEF A, B
  <2>9. A \subseteq S /\ B \subseteq S
    BY <2>5, <2>6, <2>7, <2>8
  <2> QED BY <2>9
<1>10. \A i \in DOMAIN t.nets : i # dst /\ i # src => Joined(m, WiresAt(t, n, i))
  <2> TAKE i \in DOMAIN t.nets
  <2> HAVE i # dst /\ i # src
  <2>1. a \notin WiresAt(t, n, i) /\ b \notin WiresAt(t, n, i)
    BY DEF WiresAt
  <2>2. \A v \in WiresAt(t, n, i) : ConnectedWires(m, v) = ConnectedWires(n, v)
    BY <2>1, <1>1 DEF ConnectedWires
  <2> QED BY <2>2, <1>2, SameJoined
<1>11. \A v, w \in m.wires : {v, w} \in m.connections => u.wireNet[v] = u.wireNet[w]
  <2> TAKE v, w \in m.wires
  <2> HAVE {v, w} \in m.connections
  <2>1. CASE {v, w} \in n.connections
    BY <2>1, <1>1, <1>2, <1>3
  <2>2. CASE {v, w} = {a, b}
    <3>1. (v = a /\ w = b) \/ (v = b /\ w = a)
      BY <2>2
    <3>2. u.wireNet[a] = dst /\ u.wireNet[b] = dst
      BY <1>1, <1>3
    <3> QED BY <3>1, <3>2
  <2> QED BY <2>1, <2>2, <1>1
<1>12. DOMAIN u.nets = DOMAIN t.nets \ {src} /\ IsFunction(u.nets)
       /\ \A i \in DOMAIN u.nets : i # dst => u.nets[i] = t.nets[i]
  BY DEF With, Without, Restrict, IsFunction
<1>13. u.nets[dst] = [wires |-> A \cup B, components |-> Incidences(m, A \cup B)]
  <2>1. u.nets[dst] = [wires |-> t.nets[dst].wires \cup t.nets[src].wires,
                       components |-> t.nets[dst].components (+) t.nets[src].components]
    BY DEF With
  <2>2. t.nets[dst].wires = A /\ t.nets[src].wires = B
        /\ t.nets[dst].components = Incidences(n, A) /\ t.nets[src].components = Incidences(n, B)
    <3>1. t.nets[dst] = [wires |-> A, components |-> Incidences(n, A)]
          /\ t.nets[src] = [wires |-> B, components |-> Incidences(n, B)]
      BY <1>2
    <3> HIDE DEF A, B
    <3> QED BY <3>1
  <2>3. A \cup B \in SUBSET n.wires
    BY DEF WiresAt
  <2> HIDE DEF A, B
  <2> QED BY <2>1, <2>2, <2>3, <1>5, <1>6
<1>14. u.wireNet \in [m.wires -> DOMAIN u.nets]
  <2>1. \A w \in n.wires : u.wireNet[w] \in DOMAIN u.nets
    BY <1>2, <1>3, <1>12
  <2>2. u.wireNet = [w \in n.wires |-> u.wireNet[w]]
    BY <1>2, <1>3
  <2> QED BY <2>1, <2>2, <1>1
<1>15. ASSUME NEW i \in DOMAIN u.nets
       PROVE  /\ u.nets[i] = [wires |-> WiresAt(u, m, i),
                              components |-> Incidences(m, WiresAt(u, m, i))]
              /\ WiresAt(u, m, i) # {}
              /\ Joined(m, WiresAt(u, m, i))
  <2>1. CASE i = dst
    <3>1. A \cup B # {}
      BY <1>2
    <3> QED BY <2>1, <3>1, <1>4, <1>9, <1>13
  <2>2. CASE i # dst
    <3>1. i # src /\ i \in DOMAIN t.nets /\ u.nets[i] = t.nets[i] /\ WiresAt(u, m, i) = WiresAt(t, n, i)
      BY <2>2, <1>4, <1>12
    <3>2. Incidences(m, WiresAt(t, n, i)) = Incidences(n, WiresAt(t, n, i))
      BY <1>5 DEF WiresAt
    <3> QED BY <2>2, <3>1, <3>2, <1>2, <1>10
  <2> QED BY <2>1, <2>2
<1> QED BY <1>2, <1>11, <1>12, <1>14, <1>15 DEF NetsOK

\* What the nets of attached terminals and the islands have to do with each other.
LEMMA IslandFacts ==
    ASSUME NEW n, NEW t, NEW open, NetworkOK(n), NetsOK(n, t, open), IslandMembers(n, t),
           NEW left, NetIslands(n, t, left)
    PROVE  /\ NoIsland \notin DOMAIN t.islands
           /\ \A x \in DOMAIN n.attached :
                 /\ n.attached[x] \in n.wires /\ TerminalComponent(n, x) \in Components(n)
                 /\ NetAt(t, n, x) \in DOMAIN t.nets /\ NetAt(t, n, x) \in 1..t.netSlots
                 /\ t.netIsland[NetAt(t, n, x)] = t.componentIsland[TerminalComponent(n, x)]
                 /\ t.netIsland[NetAt(t, n, x)] \in DOMAIN t.islands
                 /\ TerminalComponent(n, x) \in t.islands[t.netIsland[NetAt(t, n, x)]]
<1>1. NoIsland \notin DOMAIN t.islands
  BY DEF IslandMembers, NoIsland
<1>2. \A x \in DOMAIN n.attached :
        n.attached[x] \in n.wires /\ TerminalComponent(n, x) \in Components(n)
  BY TerminalFacts DEF NetworkOK
<1>3. \A x \in DOMAIN n.attached : NetAt(t, n, x) \in DOMAIN t.nets /\ NetAt(t, n, x) \in 1..t.netSlots
  BY <1>2 DEF NetAt, NetsOK
<1>4. \A x \in DOMAIN n.attached :
        t.netIsland[NetAt(t, n, x)] = t.componentIsland[TerminalComponent(n, x)]
  BY DEF NetIslands
<1>5. \A c \in Components(n) : t.componentIsland[c] \in DOMAIN t.islands /\ c \in t.islands[t.componentIsland[c]]
  BY DEF IslandMembers
<1> QED BY <1>1, <1>2, <1>3, <1>4, <1>5

\* A network that a command is given may have more terminals attached.
Covers(n, full) ==
    \A x \in DOMAIN n.attached :
        /\ x \in DOMAIN full.attached /\ full.attached[x] = n.attached[x]
        /\ TerminalComponent(full, x) = TerminalComponent(n, x)

\* Every net of an island is found through the terminals of its components.
LEMMA NetsFound ==
    ASSUME NEW n, NEW t, NetworkOK(n), NetsOK(n, t, {}), IslandsOK(n, t, {}),
           NEW full, Covers(n, full), NEW i \in DOMAIN t.islands
    PROVE  NetsAreFound(t, full, i)
<1> SUFFICES ASSUME NEW k \in DOMAIN t.netIsland, t.netIsland[k] = i
             PROVE  \E c \in t.islands[i] : k \in NetsOf(t, full, c)
  BY DEF NetsAreFound
<1>1. IslandMembers(n, t) /\ NetIslands(n, t, {})
  BY DEF IslandsOK
<1>2. k \in 1..t.netSlots /\ i # NoIsland
  BY <1>1, IslandFacts DEF NetIslands
<1>3. PICK x \in DOMAIN n.attached : NetAt(t, n, x) = k
  BY <1>1, <1>2 DEF NetIslands
<1>4. TerminalComponent(n, x) \in t.islands[i]
  BY <1>1, <1>3, IslandFacts
<1>5. k \in NetsOf(t, full, TerminalComponent(n, x))
  BY <1>3 DEF NetsOf, Covers, NetAt
<1> QED BY <1>4, <1>5

\* One net takes the wires of another.
NetsJoin(t, u, dst, src) ==
    /\ TopologyRecord(u) /\ u.netSlots = t.netSlots /\ u.islandSlots = t.islandSlots
    /\ u.nets = With(Without(t.nets, src), dst,
                     [wires |-> t.nets[dst].wires \cup t.nets[src].wires,
                      components |-> t.nets[dst].components (+) t.nets[src].components])
    /\ u.wireNet = [w \in DOMAIN t.wireNet |-> IF t.wireNet[w] = src THEN dst ELSE t.wireNet[w]]

\* The islands stay: the net that goes has no island, or they have the same.
ConnectInOneIsland(t, u, dst, src) ==
    /\ NetsJoin(t, u, dst, src)
    /\ u.islands = t.islands /\ u.componentIsland = t.componentIsland
    /\ u.netIsland = [i \in DOMAIN t.netIsland |-> IF i = src THEN NoIsland ELSE t.netIsland[i]]
    /\ \/ /\ t.netIsland[src] = NoIsland
          /\ u.invalidation = t.invalidation
       \/ /\ t.netIsland[src] = t.netIsland[dst] /\ t.netIsland[dst] # NoIsland
          /\ u.invalidation = [topologyDirty |-> t.invalidation.topologyDirty \cup {t.netIsland[dst]},
                               retired |-> t.invalidation.retired]

\* One island takes the components of another.
ConnectTwoIslands(t, u, dst, src, final, gone) ==
    /\ NetsJoin(t, u, dst, src)
    /\ {final, gone} = {t.netIsland[dst], t.netIsland[src]} /\ final # gone
    /\ final # NoIsland /\ gone # NoIsland
    /\ u.islands = With(Without(t.islands, gone), final, t.islands[final] \cup t.islands[gone])
    /\ u.componentIsland = [c \in DOMAIN t.componentIsland |->
                                IF t.componentIsland[c] = gone THEN final ELSE t.componentIsland[c]]
    /\ u.netIsland = [i \in DOMAIN t.netIsland |->
                          IF i = src THEN NoIsland
                          ELSE IF t.netIsland[i] = gone THEN final ELSE t.netIsland[i]]
    /\ u.invalidation = [topologyDirty |-> (t.invalidation.topologyDirty \ {gone}) \cup {final},
                         retired |-> t.invalidation.retired \cup {gone}]

ConnectOutcome(t, u, a, b) ==
    \/ t.wireNet[a] = t.wireNet[b] /\ u = t
    \/ \E dst, src \in DOMAIN t.nets :
          /\ dst # src /\ {dst, src} = {t.wireNet[a], t.wireNet[b]}
          /\ \/ ConnectInOneIsland(t, u, dst, src)
             \/ \E final, gone : ConnectTwoIslands(t, u, dst, src, final, gone)

\* What connect_wires does, by the islands of the two nets.
LEMMA ConnectCases ==
    ASSUME NEW n, NEW t, TopologyOK(n, t), NEW full, Covers(n, full),
           NEW a, NEW b, a \in n.wires, b \in n.wires
    PROVE  ConnectOutcome(t, TopologyConnectWires(t, full, a, b), a, b)
<1> DEFINE u == TopologyConnectWires(t, full, a, b)
<1>1. NetworkOK(n) /\ NetsOK(n, t, {}) /\ IslandsOK(n, t, {}) /\ MarksOK(t) /\ TopologyRecord(t)
      /\ IslandMembers(n, t) /\ NetIslands(n, t, {})
  BY DEF TopologyOK, IslandsOK
<1> DEFINE netA == t.wireNet[a]
           netB == t.wireNet[b]
<1>2. CASE netA = netB
  BY <1>2 DEF TopologyConnectWires, ConnectOutcome
<1>3. CASE netA # netB
  <2> DEFINE islandA == t.netIsland[netA]
             islandB == t.netIsland[netB]
             keepA == IF (islandA = NoIsland) # (islandB = NoIsland) THEN islandA # NoIsland
                      ELSE Cardinality(t.nets[netA].wires) >= Cardinality(t.nets[netB].wires)
  <2> DEFINE dst == IF keepA THEN netA ELSE netB
             src == IF keepA THEN netB ELSE netA
             i == t.netIsland[dst]
             j == t.netIsland[src]
             two == i # NoIsland /\ j # NoIsland
             merged == IF two THEN MergeIslands(t, full, i, j) ELSE t
             final == IF two THEN Survivor(t, i, j) ELSE IF i # NoIsland THEN i ELSE j
             Join(r, k) == [r EXCEPT
                !.nets = With(Without(@, src), dst,
                              [wires |-> @[dst].wires \cup @[src].wires,
                               components |-> @[dst].components (+) @[src].components]),
                !.netIsland[src] = NoIsland,
                !.netIsland[dst] = k,
                !.wireNet = [w \in DOMAIN @ |-> IF @[w] = src THEN dst ELSE @[w]]]
  <2>3. u = IF two /\ i = j THEN MarkTopologyDirty(Join(merged, final), final) ELSE Join(merged, final)
    BY <1>3, Zenon DEF TopologyConnectWires
  <2>1. dst = (IF keepA THEN netA ELSE netB) /\ src = (IF keepA THEN netB ELSE netA)
    OBVIOUS
  <2>2. i = t.netIsland[dst] /\ j = t.netIsland[src]
    OBVIOUS
  <2> HIDE DEF dst, src, i, j, u
  <2>4. /\ dst # src /\ {dst, src} = {netA, netB} /\ dst \in DOMAIN t.nets /\ src \in DOMAIN t.nets
        /\ (i = NoIsland => j = NoIsland)
    <3>1. netA \in DOMAIN t.nets /\ netB \in DOMAIN t.nets
      BY <1>1 DEF NetsOK
    <3>2. (keepA /\ dst = netA /\ src = netB) \/ (~keepA /\ dst = netB /\ src = netA)
      BY <2>1
    <3>3. i = NoIsland => j = NoIsland
      BY <3>2, <2>2
    <3> QED BY <1>3, <3>1, <3>2, <3>3
  <2>5. /\ dst \in DOMAIN t.netIsland /\ src \in DOMAIN t.netIsland /\ IsFunction(t.netIsland)
        /\ (i # NoIsland => i \in DOMAIN t.islands) /\ (j # NoIsland => j \in DOMAIN t.islands)
        /\ NoIsland \notin DOMAIN t.islands
    <3>1. DOMAIN t.nets \subseteq DOMAIN t.netIsland /\ DOMAIN t.netIsland = 1..t.netSlots
          /\ IsFunction(t.netIsland)
      BY <1>1 DEF NetsOK, NetIslands
    <3>2. \A q \in 1..t.netSlots : t.netIsland[q] = NoIsland \/ t.netIsland[q] \in DOMAIN t.islands
      BY <1>1, IslandFacts DEF NetIslands
    <3> QED BY <2>2, <2>4, <3>1, <3>2, <1>1, IslandFacts
  <2>6. ASSUME NEW r, TopologyRecord(r), r.nets = t.nets, r.netSlots = t.netSlots, r.wireNet = t.wireNet,
               r.islandSlots = t.islandSlots, IsFunction(r.netIsland), DOMAIN r.netIsland = DOMAIN t.netIsland,
               NEW k, NEW v, v = Join(r, k)
        PROVE  /\ NetsJoin(t, v, dst, src)
               /\ v.islands = r.islands /\ v.componentIsland = r.componentIsland
               /\ v.invalidation = r.invalidation
               /\ v.netIsland = [q \in DOMAIN t.netIsland |->
                                    IF q = dst THEN k ELSE IF q = src THEN NoIsland ELSE r.netIsland[q]]
    <3> DEFINE nets == With(Without(t.nets, src), dst,
                            [wires |-> t.nets[dst].wires \cup t.nets[src].wires,
                             components |-> t.nets[dst].components (+) t.nets[src].components])
               wireNet == [w \in DOMAIN t.wireNet |-> IF t.wireNet[w] = src THEN dst ELSE t.wireNet[w]]
               netIsland == [[r.netIsland EXCEPT ![src] = NoIsland] EXCEPT ![dst] = k]
    <3>1. v = [r EXCEPT !.nets = nets, !.netIsland = netIsland, !.wireNet = wireNet]
      <4> DEFINE NewNets(f) == With(Without(f, src), dst,
                                    [wires |-> f[dst].wires \cup f[src].wires,
                                     components |-> f[dst].components (+) f[src].components])
                 NewWireNet(f) == [w \in DOMAIN f |-> IF f[w] = src THEN dst ELSE f[w]]
      <4>1. v = [r EXCEPT !.nets = NewNets(@), !.netIsland[src] = NoIsland, !.netIsland[dst] = k,
                          !.wireNet = NewWireNet(@)]
        BY <2>6, Zenon
      <4>2. NewNets(r.nets) = nets /\ NewWireNet(r.wireNet) = wireNet
        BY <2>6
      <4> HIDE DEF NewNets, NewWireNet, nets, wireNet
      <4> QED BY <4>1, <4>2, <2>6 DEF TopologyRecord
    <3>2. netIsland = [q \in DOMAIN t.netIsland |->
                          IF q = dst THEN k ELSE IF q = src THEN NoIsland ELSE r.netIsland[q]]
      BY <2>4, <2>5, <2>6 DEF IsFunction
    <3> HIDE DEF nets, wireNet, netIsland
    <3>3. /\ TopologyRecord(v) /\ v.nets = nets /\ v.netIsland = netIsland /\ v.wireNet = wireNet
          /\ v.netSlots = t.netSlots /\ v.islandSlots = t.islandSlots
          /\ v.islands = r.islands /\ v.componentIsland = r.componentIsland
          /\ v.invalidation = r.invalidation
      BY <3>1, <2>6 DEF TopologyRecord
    <3> QED BY <3>2, <3>3 DEF NetsJoin, nets, wireNet
  <2> HIDE DEF Join
  <2>7. CASE two /\ i # j
    <3>1. NetsAreFound(t, full, i) /\ NetsAreFound(t, full, j)
      BY <2>5, <2>7, <1>1, NetsFound
    <3>2. PICK r : r = MergeIslands(t, full, i, j)
      OBVIOUS
    <3>3. PICK kept, gone : kept = Survivor(t, i, j) /\ gone = Gone(t, i, j)
      OBVIOUS
    <3>4. MergedIslands(t, r, kept, gone) /\ {kept, gone} = {i, j} /\ kept # gone
      <4>1. i \in DOMAIN t.islands /\ j \in DOMAIN t.islands /\ i # j
        BY <2>5, <2>7
      <4>2. TopologyRecord(t) /\ IslandMembers(n, t) /\ MarksOK(t)
        BY <1>1
      <4>3. MergedIslands(t, MergeIslands(t, full, i, j), Survivor(t, i, j), Gone(t, i, j))
        BY <4>1, <4>2, <3>1, MergeIslandsFacts, Zenon
      <4>4. {Survivor(t, i, j), Gone(t, i, j)} = {i, j} /\ Survivor(t, i, j) # Gone(t, i, j)
        BY <4>1, SurvivorFacts
      <4> QED BY <4>3, <4>4, <3>2, <3>3
    <3>5. u = Join(r, kept)
      BY <2>3, <2>7, <3>2, <3>3
    <3>6. IsFunction(r.netIsland) /\ DOMAIN r.netIsland = DOMAIN t.netIsland
          /\ \A q \in DOMAIN t.netIsland :
                r.netIsland[q] = IF t.netIsland[q] = gone THEN kept ELSE t.netIsland[q]
      BY <3>4 DEF MergedIslands, IsFunction
    <3>7. /\ NetsJoin(t, u, dst, src)
          /\ u.islands = r.islands /\ u.componentIsland = r.componentIsland
          /\ u.invalidation = r.invalidation
          /\ u.netIsland = [q \in DOMAIN t.netIsland |->
                               IF q = dst THEN kept ELSE IF q = src THEN NoIsland ELSE r.netIsland[q]]
      BY <2>6, <3>4, <3>5, <3>6 DEF MergedIslands
    <3>8. u.netIsland = [q \in DOMAIN t.netIsland |->
                          IF q = src THEN NoIsland
                          ELSE IF t.netIsland[q] = gone THEN kept ELSE t.netIsland[q]]
      <4>1. t.netIsland[dst] \in {kept, gone} /\ dst # src
        BY <3>4, <2>2, <2>4
      <4>2. \A q \in DOMAIN t.netIsland :
              (IF q = dst THEN kept ELSE IF q = src THEN NoIsland ELSE r.netIsland[q])
                = (IF q = src THEN NoIsland
                   ELSE IF t.netIsland[q] = gone THEN kept ELSE t.netIsland[q])
        BY <4>1, <3>6, <2>2
      <4> QED BY <4>2, <3>7
    <3>9. ConnectTwoIslands(t, u, dst, src, kept, gone)
      BY <3>4, <3>7, <3>8, <2>2, <2>7 DEF ConnectTwoIslands, MergedIslands
    <3> QED BY <3>9, <2>4 DEF ConnectOutcome, u
  <2>8. CASE ~(two /\ i # j)
    <3>1. PICK k : k = i
      OBVIOUS
    <3>2. merged = t /\ final = i
      BY <2>4, <2>8 DEF MergeIslands, Survivor
    <3>3. PICK v : v = Join(t, i)
      OBVIOUS
    <3>4. /\ NetsJoin(t, v, dst, src)
          /\ v.islands = t.islands /\ v.componentIsland = t.componentIsland
          /\ v.invalidation = t.invalidation
          /\ v.netIsland = [q \in DOMAIN t.netIsland |->
                               IF q = dst THEN i ELSE IF q = src THEN NoIsland ELSE t.netIsland[q]]
      BY <2>5, <2>6, <3>3, <1>1
    <3>5. v.netIsland = [q \in DOMAIN t.netIsland |-> IF q = src THEN NoIsland ELSE t.netIsland[q]]
      BY <3>4, <2>2, <2>4
    <3>6. CASE two /\ i = j
      <4>1. u = MarkAllTopologyDirty(v, {i})
        BY <2>3, <3>2, <3>3, <3>6 DEF MarkTopologyDirty
      <4>2. {i} \ t.invalidation.retired = {i}
        BY <3>6, <2>5, <1>1 DEF MarksOK
      <4>3. TopologyRecord(v)
        BY <3>4 DEF NetsJoin
      <4>4. /\ TopologyRecord(u)
            /\ u.nets = v.nets /\ u.netSlots = v.netSlots /\ u.wireNet = v.wireNet
            /\ u.netIsland = v.netIsland /\ u.islands = v.islands /\ u.islandSlots = v.islandSlots
            /\ u.componentIsland = v.componentIsland
            /\ u.invalidation = [topologyDirty |-> v.invalidation.topologyDirty
                                                     \cup ({i} \ v.invalidation.retired),
                                 retired |-> v.invalidation.retired]
        BY <4>1, <4>3, MarkFacts
      <4>5. NetsJoin(t, u, dst, src)
        BY <3>4, <4>4 DEF NetsJoin
      <4>6. ConnectInOneIsland(t, u, dst, src)
        BY <3>4, <3>5, <3>6, <4>2, <4>4, <4>5, <2>2 DEF ConnectInOneIsland
      <4> QED BY <4>6, <2>4 DEF ConnectOutcome, u
    <3>7. CASE ~two
      <4>1. u = v
        BY <2>3, <3>2, <3>3, <3>7
      <4>2. j = NoIsland
        BY <3>7, <2>4
      <4>3. ConnectInOneIsland(t, u, dst, src)
        BY <3>4, <3>5, <4>1, <4>2, <2>2 DEF ConnectInOneIsland
      <4> QED BY <4>3, <2>4 DEF ConnectOutcome, u
    <3> QED BY <3>6, <3>7, <2>8
  <2> QED BY <2>7, <2>8
<1> QED BY <1>2, <1>3

\* Nets that join conduct what they conducted before.
LEMMA JoinedNetAt ==
    ASSUME NEW n, NEW t, NEW left, NetworkOK(n), NetsOK(n, t, {}), IslandMembers(n, t), NetIslands(n, t, left),
           NEW m, m.attached = n.attached, \A x : TerminalComponent(m, x) = TerminalComponent(n, x),
           NEW dst, NEW src, NEW u, NetsJoin(t, u, dst, src)
    PROVE  /\ \A x \in DOMAIN n.attached :
                 NetAt(u, m, x) = IF NetAt(t, n, x) = src THEN dst ELSE NetAt(t, n, x)
           /\ \A S : Conducts(m, u, S) => Conducts(n, t, S)
<1>1. \A x \in DOMAIN n.attached :
        NetAt(u, m, x) = IF NetAt(t, n, x) = src THEN dst ELSE NetAt(t, n, x)
  <2>1. \A x \in DOMAIN n.attached : n.attached[x] \in DOMAIN t.wireNet
    BY IslandFacts DEF NetsOK
  <2> QED BY <2>1 DEF NetAt, NetsJoin
<1>2. ASSUME NEW S, Conducts(m, u, S) PROVE Conducts(n, t, S)
  BY <1>1, <1>2 DEF Conducts
<1> QED BY <1>1, <1>2

\* A connection that adds no component to an island keeps the invariant.
LEMMA ConnectSameIslands ==
    ASSUME NEW n, NEW t, TopologyOK(n, t),
           NEW m, Components(m) = Components(n), Terminals(m) = Terminals(n), m.attached = n.attached,
           \A x : TerminalComponent(m, x) = TerminalComponent(n, x), DOMAIN n.attached \subseteq Terminals(n),
           NEW dst \in DOMAIN t.nets, NEW src \in DOMAIN t.nets, dst # src,
           NEW u, ConnectInOneIsland(t, u, dst, src)
    PROVE  IslandsOK(m, u, {}) /\ MarksOK(u) /\ Keeps(n, t, m, u)
<1>1. /\ NetworkOK(n) /\ NetsOK(n, t, {}) /\ IslandsOK(n, t, {}) /\ MarksOK(t)
      /\ IslandMembers(n, t) /\ NetIslands(n, t, {})
  BY DEF TopologyOK, IslandsOK
<1>2. /\ NetsJoin(t, u, dst, src) /\ u.islands = t.islands /\ u.componentIsland = t.componentIsland
      /\ u.islandSlots = t.islandSlots /\ u.netSlots = t.netSlots
      /\ u.netIsland = [i \in DOMAIN t.netIsland |-> IF i = src THEN NoIsland ELSE t.netIsland[i]]
      /\ t.netIsland[src] = NoIsland \/ t.netIsland[src] = t.netIsland[dst]
  BY DEF ConnectInOneIsland, NetsJoin
<1>3. /\ \A x \in DOMAIN n.attached :
            NetAt(u, m, x) = IF NetAt(t, n, x) = src THEN dst ELSE NetAt(t, n, x)
      /\ \A S : Conducts(m, u, S) => Conducts(n, t, S)
  BY <1>1, <1>2, JoinedNetAt
<1>4. /\ NoIsland \notin DOMAIN t.islands
      /\ \A x \in DOMAIN n.attached :
            /\ TerminalComponent(n, x) \in Components(n) /\ NetAt(t, n, x) \in 1..t.netSlots
            /\ t.netIsland[NetAt(t, n, x)] = t.componentIsland[TerminalComponent(n, x)]
            /\ t.netIsland[NetAt(t, n, x)] \in DOMAIN t.islands
  BY <1>1, IslandFacts
<1>5. dst \in 1..t.netSlots /\ src \in 1..t.netSlots /\ DOMAIN t.netIsland = 1..t.netSlots
  BY <1>1 DEF NetsOK, NetIslands
<1>6. NetIslands(m, u, {})
  <2>1. IsFunction(u.netIsland) /\ DOMAIN u.netIsland = 1..u.netSlots
    BY <1>2, <1>5 DEF IsFunction
  <2>2. ASSUME NEW x \in DOMAIN m.attached
        PROVE  u.netIsland[NetAt(u, m, x)] = u.componentIsland[TerminalComponent(m, x)]
    BY <1>2, <1>3, <1>4, <1>5
  <2>3. ASSUME NEW i \in 1..u.netSlots, u.netIsland[i] # NoIsland
        PROVE  \E x \in DOMAIN m.attached : NetAt(u, m, x) = i
    <3>1. i # src /\ t.netIsland[i] # NoIsland /\ i \in 1..t.netSlots
      BY <2>3, <1>2, <1>5
    <3>2. PICK x \in DOMAIN n.attached : NetAt(t, n, x) = i
      BY <3>1, <1>1 DEF NetIslands
    <3> QED BY <3>1, <3>2, <1>3
  <2> QED BY <2>1, <2>2, <2>3 DEF NetIslands
<1>7. IslandMembers(m, u)
  BY <1>1, <1>2 DEF IslandMembers
<1>8. IslandsOK(m, u, {})
  BY <1>1, <1>2, <1>3, <1>6, <1>7 DEF IslandsOK
<1>9. MarksOK(u)
  <2>1. t.netIsland[dst] # NoIsland => t.netIsland[dst] \in DOMAIN t.islands
    <3>1. t.netIsland[dst] # NoIsland => \E x \in DOMAIN n.attached : NetAt(t, n, x) = dst
      BY <1>1, <1>5 DEF NetIslands
    <3> QED BY <3>1, <1>4
  <2> QED BY <2>1, <1>1, <1>2 DEF MarksOK, ConnectInOneIsland
<1>10. ASSUME NEW i \in DOMAIN u.islands \ u.invalidation.topologyDirty
       PROVE  /\ i \in DOMAIN t.islands \ t.invalidation.topologyDirty
              /\ CompiledIsland(u, m, i) = CompiledIsland(t, n, i)
  <2>1. i \in DOMAIN t.islands \ t.invalidation.topologyDirty
        /\ (t.netIsland[src] # NoIsland => i # t.netIsland[dst])
    BY <1>2 DEF ConnectInOneIsland
  <2>2. \A x \in DOMAIN n.attached : TerminalComponent(n, x) \in t.islands[i] => NetAt(t, n, x) # src
    <3> TAKE x \in DOMAIN n.attached
    <3> HAVE TerminalComponent(n, x) \in t.islands[i]
    <3>1. t.componentIsland[TerminalComponent(n, x)] = i
      BY <2>1, <1>1, <1>4 DEF IslandMembers
    <3>2. t.netIsland[NetAt(t, n, x)] = i /\ i # NoIsland
      BY <3>1, <2>1, <1>4
    <3> QED BY <3>2, <2>1, <1>2
  <2>3. SameTerminals(n, t, m, u, t.islands[i])
    BY <2>2, <1>3 DEF SameTerminals
  <2> QED BY <2>1, <2>3, <1>2, SameCompiled
<1>11. Keeps(n, t, m, u)
  <2>1. \A i \in DOMAIN t.islands : t.islands[i] # {}
    BY <1>1 DEF IslandsOK
  <2>2. t.islandSlots \in Nat
    BY <1>1 DEF IslandMembers
  <2>3. u.invalidation.retired = t.invalidation.retired
    BY DEF ConnectInOneIsland
  <2> QED BY <2>1, <2>2, <2>3, <1>2, <1>10 DEF Keeps
<1> QED BY <1>8, <1>9, <1>11

\* The islands after one of them took the components of another.
IslandsJoin(t, u, final, gone) ==
    /\ u.islandSlots = t.islandSlots
    /\ u.islands = With(Without(t.islands, gone), final, t.islands[final] \cup t.islands[gone])
    /\ u.componentIsland = [c \in DOMAIN t.componentIsland |->
                                IF t.componentIsland[c] = gone THEN final ELSE t.componentIsland[c]]
    /\ u.invalidation = [topologyDirty |-> (t.invalidation.topologyDirty \ {gone}) \cup {final},
                         retired |-> t.invalidation.retired \cup {gone}]

\* Current passes between two sets of components.
Bridged(n, t, A, B) ==
    \E x, y \in DOMAIN n.attached :
        /\ NetAt(t, n, x) = NetAt(t, n, y)
        /\ TerminalComponent(n, x) \in A /\ TerminalComponent(n, y) \in B

\* When current passes between two islands, one that has the components of both is right.
LEMMA JoinedIslands ==
    ASSUME NEW n, NEW t, NetworkOK(n), IslandsOK(n, t, {}), MarksOK(t),
           NEW m, Components(m) = Components(n),
           NEW final \in DOMAIN t.islands, NEW gone \in DOMAIN t.islands, final # gone,
           NEW u, IslandsJoin(t, u, final, gone),
           \A S : Conducts(m, u, S) => Conducts(n, t, S),
           Bridged(m, u, t.islands[final], t.islands[gone])
    PROVE  /\ IslandMembers(m, u)
           /\ \A i \in DOMAIN u.islands :
                 /\ u.islands[i] # {}
                 /\ \A S \in SUBSET u.islands[i] : S # {} /\ Conducts(m, u, S) => S = u.islands[i]
           /\ MarksOK(u)
           /\ DOMAIN u.islands = DOMAIN t.islands \ {gone}
           /\ \A i \in DOMAIN u.islands : i # final => u.islands[i] = t.islands[i]
           /\ (\A i \in DOMAIN u.islands \ u.invalidation.topologyDirty :
                  CompiledIsland(u, m, i) = CompiledIsland(t, n, i)) => Keeps(n, t, m, u)
<1> DEFINE A == t.islands[final]
           B == t.islands[gone]
<1>1. /\ IslandMembers(n, t) /\ NetIslands(n, t, {})
      /\ \A i \in DOMAIN t.islands :
            /\ t.islands[i] # {}
            /\ \A S \in SUBSET t.islands[i] : S # {} /\ Conducts(n, t, S) => S = t.islands[i]
  BY DEF IslandsOK
<1>2. /\ DOMAIN u.islands = DOMAIN t.islands \ {gone} /\ IsFunction(u.islands)
      /\ u.islands[final] = A \cup B
      /\ \A i \in DOMAIN u.islands : i # final => u.islands[i] = t.islands[i]
  BY DEF IslandsJoin, With, Without, Restrict, IsFunction
<1>3. IslandMembers(m, u)
  <2>1. /\ t.islandSlots \in Nat /\ DOMAIN t.islands \subseteq 1..t.islandSlots
        /\ t.componentIsland \in [Components(n) -> DOMAIN t.islands]
        /\ \A i \in DOMAIN t.islands : \A c : c \in t.islands[i] <=> c \in Components(n) /\ t.componentIsland[c] = i
    BY <1>1 DEF IslandMembers
  <2>2. \A c \in Components(n) : u.componentIsland[c] = IF t.componentIsland[c] = gone THEN final
                                                        ELSE t.componentIsland[c]
    BY <2>1 DEF IslandsJoin
  <2>3. u.componentIsland \in [Components(m) -> DOMAIN u.islands]
    <3>1. u.componentIsland = [c \in Components(n) |-> u.componentIsland[c]]
      BY <2>1, <2>2 DEF IslandsJoin
    <3>2. \A c \in Components(n) : u.componentIsland[c] \in DOMAIN u.islands
      BY <2>1, <2>2, <1>2
    <3> QED BY <3>1, <3>2
  <2>4. ASSUME NEW i \in DOMAIN u.islands
        PROVE  u.islands[i] = {c \in Components(m) : u.componentIsland[c] = i}
    <3>1. CASE i = final
      BY <3>1, <1>2, <2>1, <2>2
    <3>2. CASE i # final
      BY <3>2, <1>2, <2>1, <2>2
    <3> QED BY <3>1, <3>2
  <2> QED BY <1>2, <2>1, <2>3, <2>4 DEF IslandMembers, IslandsJoin
<1>4. Conducts(n, t, A) /\ Conducts(n, t, B)
  BY <1>1, IslandConducts
<1>5. ASSUME NEW S \in SUBSET (A \cup B), S # {}, Conducts(m, u, S) PROVE S = A \cup B
  <2>1. Conducts(n, t, S)
    BY <1>5
  <2>2. A \cap S = {} \/ A \subseteq S
    <3>1. Conducts(n, t, A \cap S) /\ A \cap S \in SUBSET A
      BY <2>1, <1>4 DEF Conducts
    <3> QED BY <3>1, <1>1
  <2>3. B \cap S = {} \/ B \subseteq S
    <3>1. Conducts(n, t, B \cap S) /\ B \cap S \in SUBSET B
      BY <2>1, <1>4 DEF Conducts
    <3> QED BY <3>1, <1>1
  <2>4. PICK x \in DOMAIN m.attached, y \in DOMAIN m.attached :
            /\ NetAt(u, m, x) = NetAt(u, m, y)
            /\ TerminalComponent(m, x) \in A /\ TerminalComponent(m, y) \in B
    BY DEF Bridged
  <2>5. TerminalComponent(m, x) \in S <=> TerminalComponent(m, y) \in S
    BY <1>5, <2>4 DEF Conducts
  <2> HIDE DEF A, B
  <2> QED BY <1>5, <2>2, <2>3, <2>4, <2>5
<1>6. ASSUME NEW i \in DOMAIN u.islands
      PROVE  /\ u.islands[i] # {}
             /\ \A S \in SUBSET u.islands[i] : S # {} /\ Conducts(m, u, S) => S = u.islands[i]
  <2>1. CASE i = final
    <3>1. A \cup B # {}
      BY <1>1
    <3> QED BY <2>1, <3>1, <1>2, <1>5
  <2>2. CASE i # final
    BY <2>2, <1>1, <1>2
  <2> QED BY <2>1, <2>2
<1>0. /\ u.invalidation.topologyDirty = (t.invalidation.topologyDirty \ {gone}) \cup {final}
      /\ u.invalidation.retired = t.invalidation.retired \cup {gone}
      /\ u.islandSlots = t.islandSlots
  BY DEF IslandsJoin
<1>7. MarksOK(u)
  <2>1. gone \in 1..t.islandSlots
    BY <1>1 DEF IslandMembers
  <2>2. /\ t.invalidation.topologyDirty \subseteq DOMAIN t.islands
        /\ t.invalidation.retired \subseteq 1..t.islandSlots
        /\ t.invalidation.retired \cap DOMAIN t.islands = {}
    BY DEF MarksOK
  <2> QED BY <2>1, <2>2, <1>0, <1>2 DEF MarksOK
<1>8. ASSUME \A i \in DOMAIN u.islands \ u.invalidation.topologyDirty :
                CompiledIsland(u, m, i) = CompiledIsland(t, n, i)
      PROVE  Keeps(n, t, m, u)
  <2>1. /\ \A i \in DOMAIN u.islands : i \in DOMAIN t.islands /\ t.islands[i] \cap u.islands[i] # {}
        /\ \A i \in DOMAIN u.islands \ u.invalidation.topologyDirty : i \notin t.invalidation.topologyDirty
        /\ DOMAIN t.islands \cup t.invalidation.retired \subseteq DOMAIN u.islands \cup u.invalidation.retired
    <3>1. \A i \in DOMAIN u.islands : t.islands[i] \subseteq u.islands[i] /\ t.islands[i] # {}
      BY <1>1, <1>2
    <3> QED BY <3>1, <1>0, <1>2
  <2>2. t.islandSlots \in Nat /\ t.islandSlots <= u.islandSlots
    BY <1>1 DEF IslandMembers, IslandsJoin
  <2> QED BY <1>2, <1>8, <2>1, <2>2 DEF Keeps
<1> QED BY <1>2, <1>3, <1>6, <1>7, <1>8

\* A connection of the nets of two islands keeps the invariant.
LEMMA ConnectOtherIslands ==
    ASSUME NEW n, NEW t, TopologyOK(n, t),
           NEW m, Components(m) = Components(n), Terminals(m) = Terminals(n), m.attached = n.attached,
           \A x : TerminalComponent(m, x) = TerminalComponent(n, x), DOMAIN n.attached \subseteq Terminals(n),
           NEW dst \in DOMAIN t.nets, NEW src \in DOMAIN t.nets, dst # src,
           NEW final, NEW gone, NEW u, ConnectTwoIslands(t, u, dst, src, final, gone)
    PROVE  IslandsOK(m, u, {}) /\ MarksOK(u) /\ Keeps(n, t, m, u)
<1>1. /\ NetworkOK(n) /\ NetsOK(n, t, {}) /\ IslandsOK(n, t, {}) /\ MarksOK(t)
      /\ IslandMembers(n, t) /\ NetIslands(n, t, {})
  BY DEF TopologyOK, IslandsOK
<1>2. /\ NetsJoin(t, u, dst, src) /\ IslandsJoin(t, u, final, gone)
      /\ u.netSlots = t.netSlots
      /\ {final, gone} = {t.netIsland[dst], t.netIsland[src]} /\ final # gone
      /\ final # NoIsland /\ gone # NoIsland
      /\ u.netIsland = [i \in DOMAIN t.netIsland |->
                          IF i = src THEN NoIsland
                          ELSE IF t.netIsland[i] = gone THEN final ELSE t.netIsland[i]]
      /\ u.componentIsland = [c \in DOMAIN t.componentIsland |->
                                IF t.componentIsland[c] = gone THEN final ELSE t.componentIsland[c]]
  BY DEF ConnectTwoIslands, NetsJoin, IslandsJoin
<1>3. /\ \A x \in DOMAIN n.attached :
            NetAt(u, m, x) = IF NetAt(t, n, x) = src THEN dst ELSE NetAt(t, n, x)
      /\ \A S : Conducts(m, u, S) => Conducts(n, t, S)
  BY <1>1, <1>2, JoinedNetAt
<1>4. /\ NoIsland \notin DOMAIN t.islands
      /\ \A x \in DOMAIN n.attached :
            /\ TerminalComponent(n, x) \in Components(n) /\ NetAt(t, n, x) \in 1..t.netSlots
            /\ t.netIsland[NetAt(t, n, x)] = t.componentIsland[TerminalComponent(n, x)]
            /\ t.netIsland[NetAt(t, n, x)] \in DOMAIN t.islands
            /\ TerminalComponent(n, x) \in t.islands[t.netIsland[NetAt(t, n, x)]]
  BY <1>1, IslandFacts
<1>5. dst \in 1..t.netSlots /\ src \in 1..t.netSlots /\ DOMAIN t.netIsland = 1..t.netSlots
  BY <1>1 DEF NetsOK, NetIslands
<1>6. PICK x \in DOMAIN n.attached, y \in DOMAIN n.attached :
        NetAt(t, n, x) = dst /\ NetAt(t, n, y) = src
  <2>1. t.netIsland[dst] # NoIsland /\ t.netIsland[src] # NoIsland
    BY <1>2
  <2> QED BY <2>1, <1>1, <1>5 DEF NetIslands
<1>7. final \in DOMAIN t.islands /\ gone \in DOMAIN t.islands
  <2>1. t.netIsland[dst] \in DOMAIN t.islands /\ t.netIsland[src] \in DOMAIN t.islands
    BY <1>4, <1>6
  <2> QED BY <2>1, <1>2
<1>8. Bridged(m, u, t.islands[final], t.islands[gone])
  <2>1. NetAt(u, m, x) = NetAt(u, m, y)
    BY <1>3, <1>6
  <2>2. TerminalComponent(n, x) \in t.islands[t.netIsland[dst]]
        /\ TerminalComponent(n, y) \in t.islands[t.netIsland[src]]
    BY <1>4, <1>6
  <2>3. CASE final = t.netIsland[dst] /\ gone = t.netIsland[src]
    BY <2>1, <2>2, <2>3 DEF Bridged
  <2>4. CASE final = t.netIsland[src] /\ gone = t.netIsland[dst]
    BY <2>1, <2>2, <2>4 DEF Bridged
  <2> QED BY <2>3, <2>4, <1>2
<1>9. /\ IslandMembers(m, u)
      /\ \A i \in DOMAIN u.islands :
            /\ u.islands[i] # {}
            /\ \A S \in SUBSET u.islands[i] : S # {} /\ Conducts(m, u, S) => S = u.islands[i]
      /\ MarksOK(u)
      /\ DOMAIN u.islands = DOMAIN t.islands \ {gone}
      /\ \A i \in DOMAIN u.islands : i # final => u.islands[i] = t.islands[i]
      /\ (\A i \in DOMAIN u.islands \ u.invalidation.topologyDirty :
             CompiledIsland(u, m, i) = CompiledIsland(t, n, i)) => Keeps(n, t, m, u)
  <2>1. final # gone
    BY <1>2
  <2> QED BY <2>1, <1>1, <1>2, <1>3, <1>7, <1>8, JoinedIslands
<1>10. NetIslands(m, u, {})
  <2>1. IsFunction(u.netIsland) /\ DOMAIN u.netIsland = 1..u.netSlots
    BY <1>2, <1>5 DEF IsFunction
  <2>2. ASSUME NEW z \in DOMAIN m.attached
        PROVE  u.netIsland[NetAt(u, m, z)] = u.componentIsland[TerminalComponent(m, z)]
    <3>1. u.componentIsland[TerminalComponent(m, z)] =
            IF t.netIsland[NetAt(t, n, z)] = gone THEN final ELSE t.netIsland[NetAt(t, n, z)]
      BY <1>1, <1>2, <1>4 DEF IslandMembers
    <3>2. u.netIsland[dst] = final
      BY <1>2, <1>5
    <3>3. CASE NetAt(t, n, z) = src
      BY <3>1, <3>2, <3>3, <1>2, <1>3
    <3>4. CASE NetAt(t, n, z) # src
      BY <3>1, <3>4, <1>2, <1>3, <1>4, <1>5
    <3> QED BY <3>3, <3>4
  <2>3. ASSUME NEW i \in 1..u.netSlots, u.netIsland[i] # NoIsland
        PROVE  \E z \in DOMAIN m.attached : NetAt(u, m, z) = i
    <3>1. i # src /\ t.netIsland[i] # NoIsland /\ i \in 1..t.netSlots
      BY <2>3, <1>2, <1>5
    <3>2. PICK z \in DOMAIN n.attached : NetAt(t, n, z) = i
      BY <3>1, <1>1 DEF NetIslands
    <3> QED BY <3>1, <3>2, <1>3
  <2> QED BY <2>1, <2>2, <2>3 DEF NetIslands
<1>11. IslandsOK(m, u, {})
  BY <1>9, <1>10 DEF IslandsOK
<1>12. ASSUME NEW i \in DOMAIN u.islands \ u.invalidation.topologyDirty
       PROVE  CompiledIsland(u, m, i) = CompiledIsland(t, n, i)
  <2>1. i # final /\ i # gone /\ i \in DOMAIN t.islands
    <3>1. u.invalidation.topologyDirty = (t.invalidation.topologyDirty \ {gone}) \cup {final}
      BY DEF ConnectTwoIslands
    <3> QED BY <3>1, <1>9
  <2>2. \A z \in DOMAIN n.attached : TerminalComponent(n, z) \in t.islands[i] =>
            NetAt(t, n, z) # src /\ NetAt(t, n, z) # dst
    <3> TAKE z \in DOMAIN n.attached
    <3> HAVE TerminalComponent(n, z) \in t.islands[i]
    <3>1. t.componentIsland[TerminalComponent(n, z)] = i
      BY <2>1, <1>1, <1>4 DEF IslandMembers
    <3>2. t.netIsland[NetAt(t, n, z)] = i
      BY <3>1, <1>4
    <3> QED BY <3>2, <2>1, <1>2
  <2>3. SameTerminals(n, t, m, u, t.islands[i])
    BY <2>2, <1>3 DEF SameTerminals
  <2> QED BY <2>1, <2>3, <1>9, SameCompiled
<1> QED BY <1>9, <1>11, <1>12

\* connect_wires keeps the invariant, whichever net and island win.
LEMMA ConnectWiresTopology ==
    ASSUME NEW n, NEW t, TopologyOK(n, t), NEW a, NEW b, CanConnectWires(n, a, b),
           NEW m, m = AfterConnectWires(n, a, b), NEW full, Covers(n, full),
           NEW u, u = TopologyConnectWires(t, full, a, b)
    PROVE  TopologyOK(m, u) /\ Keeps(n, t, m, u)
<1>1. NetworkOK(n) /\ NetsOK(n, t, {}) /\ IslandsOK(n, t, {}) /\ MarksOK(t) /\ TopologyRecord(t)
  BY DEF TopologyOK
<1>2. /\ NetworkOK(m) /\ a \in n.wires /\ b \in n.wires /\ a # b
      /\ m.wires = n.wires /\ m.connections = n.connections \cup {{a, b}}
      /\ m.devices = n.devices /\ m.attached = n.attached
      /\ Terminals(m) = Terminals(n) /\ Components(m) = Components(n)
      /\ \A x : TerminalComponent(m, x) = TerminalComponent(n, x)
  BY <1>1, ConnectNetwork
<1>3. DOMAIN n.attached \subseteq Terminals(n)
  BY <1>1 DEF NetworkOK
<1>4. ASSUME NEW dst \in DOMAIN t.nets, NEW src \in DOMAIN t.nets, dst # src,
             {dst, src} = {t.wireNet[a], t.wireNet[b]}, NetsJoin(t, u, dst, src)
      PROVE  NetsOK(m, u, {}) /\ TopologyRecord(u)
  BY <1>1, <1>4, ConnectNets DEF NetsJoin
<1>5. CASE t.wireNet[a] = t.wireNet[b] /\ u = t
  <2>1. NetsOK(m, u, {})
    <3>1. \A i : WiresAt(u, m, i) = WiresAt(t, n, i)
      BY <1>2, <1>5 DEF WiresAt
    <3>2. \A i : Incidences(m, WiresAt(t, n, i)) = Incidences(n, WiresAt(t, n, i))
      <4> TAKE i
      <4>1. TerminalsOn(m, WiresAt(t, n, i)) = TerminalsOn(n, WiresAt(t, n, i))
        BY <1>2 DEF TerminalsOn
      <4> QED BY <4>1, <1>2, SameIncidences
    <3>3. \A v : ConnectedWires(n, v) \subseteq ConnectedWires(m, v)
      BY <1>2 DEF ConnectedWires
    <3>4. \A i : Joined(n, WiresAt(t, n, i)) => Joined(m, WiresAt(t, n, i))
      BY <3>3 DEF Joined
    <3>5. \A v, w \in m.wires : {v, w} \in m.connections => u.wireNet[v] = u.wireNet[w]
      <4> TAKE v, w \in m.wires
      <4> HAVE {v, w} \in m.connections
      <4>1. CASE {v, w} \in n.connections
        BY <4>1, <1>1, <1>2, <1>5 DEF NetsOK
      <4>2. CASE {v, w} = {a, b}
        <5>1. (v = a /\ w = b) \/ (v = b /\ w = a)
          BY <4>2
        <5> QED BY <5>1, <1>5
      <4> QED BY <4>1, <4>2, <1>2
    <3> QED BY <3>1, <3>2, <3>4, <3>5, <1>1, <1>2, <1>5 DEF NetsOK
  <2>2. \A x : NetAt(u, m, x) = NetAt(t, n, x)
    BY <1>2, <1>5 DEF NetAt
  <2>3. \A S : Conducts(m, u, S) <=> Conducts(n, t, S)
    BY <2>2, <1>2 DEF Conducts
  <2>4. IslandMembers(m, u) /\ NetIslands(m, u, {})
    BY <2>2, <1>1, <1>2, <1>5 DEF IslandsOK, IslandMembers, NetIslands
  <2>5. IslandsOK(m, u, {})
    BY <2>3, <2>4, <1>1, <1>5 DEF IslandsOK
  <2>6. \A i : CompiledIsland(u, m, i) = CompiledIsland(t, n, i)
    <3> TAKE i
    <3>1. SameTerminals(n, t, m, u, t.islands[i])
      BY <2>2, <1>2 DEF SameTerminals
    <3> QED BY <3>1, <1>5, SameCompiled
  <2>7. Keeps(n, t, m, u)
    <3>1. \A i \in DOMAIN t.islands : t.islands[i] # {}
      BY <1>1 DEF IslandsOK
    <3>2. t.islandSlots \in Nat
      BY <1>1 DEF IslandsOK, IslandMembers
    <3> QED BY <3>1, <3>2, <2>6, <1>5 DEF Keeps
  <2> QED BY <1>1, <1>2, <1>5, <2>1, <2>5, <2>7 DEF TopologyOK
<1>6. ASSUME NEW dst \in DOMAIN t.nets, NEW src \in DOMAIN t.nets, dst # src,
             {dst, src} = {t.wireNet[a], t.wireNet[b]}, ConnectInOneIsland(t, u, dst, src)
      PROVE  TopologyOK(m, u) /\ Keeps(n, t, m, u)
  <2>1. NetsOK(m, u, {}) /\ TopologyRecord(u)
    BY <1>4, <1>6 DEF ConnectInOneIsland
  <2>2. IslandsOK(m, u, {}) /\ MarksOK(u) /\ Keeps(n, t, m, u)
    BY <1>2, <1>3, <1>6, ConnectSameIslands
  <2> QED BY <2>1, <2>2, <1>2 DEF TopologyOK
<1>7. ASSUME NEW dst \in DOMAIN t.nets, NEW src \in DOMAIN t.nets, dst # src,
             {dst, src} = {t.wireNet[a], t.wireNet[b]},
             NEW final, NEW gone, ConnectTwoIslands(t, u, dst, src, final, gone)
      PROVE  TopologyOK(m, u) /\ Keeps(n, t, m, u)
  <2>1. NetsOK(m, u, {}) /\ TopologyRecord(u)
    BY <1>4, <1>7 DEF ConnectTwoIslands
  <2>2. IslandsOK(m, u, {}) /\ MarksOK(u) /\ Keeps(n, t, m, u)
    BY <1>2, <1>3, <1>7, ConnectOtherIslands
  <2> QED BY <2>1, <2>2, <1>2 DEF TopologyOK
<1> QED
  <2>1. a \in n.wires /\ b \in n.wires
    BY <1>2
  <2>2. ConnectOutcome(t, u, a, b)
    BY <2>1, ConnectCases
  <2> QED BY <2>2, <1>5, <1>6, <1>7 DEF ConnectOutcome

-----------------------------------------------------------------------------
(* attach_terminal.                                                        *)

\* The network after a terminal is attached.
LEMMA AttachNetwork ==
    ASSUME NEW n, NetworkOK(n), NEW w, NEW x, CanAttachTerminal(n, w, x),
           NEW m, m = AfterAttachTerminal(n, w, x)
    PROVE  /\ NetworkOK(m) /\ w \in n.wires /\ x \in Terminals(n) /\ x \notin DOMAIN n.attached
           /\ m.wires = n.wires /\ m.connections = n.connections /\ m.devices = n.devices
           /\ DOMAIN m.attached = DOMAIN n.attached \cup {x} /\ m.attached[x] = w
           /\ \A y \in DOMAIN n.attached : m.attached[y] = n.attached[y]
           /\ Terminals(m) = Terminals(n) /\ Components(m) = Components(n)
           /\ \A y : TerminalComponent(m, y) = TerminalComponent(n, y)
           /\ TerminalComponent(n, x) \in Components(n)
<1>1. /\ NetworkRecord(m) /\ m.wires = n.wires /\ m.connections = n.connections
      /\ m.devices = n.devices
      /\ m.attached = [y \in DOMAIN n.attached \cup {x} |-> IF y = x THEN w ELSE n.attached[y]]
  BY DEF NetworkOK, NetworkRecord, AfterAttachTerminal
<1>2. w \in n.wires /\ x \in Terminals(n) /\ x \notin DOMAIN n.attached
  BY DEF CanAttachTerminal
<1>3. /\ Terminals(m) = Terminals(n) /\ Components(m) = Components(n)
      /\ \A y : TerminalComponent(m, y) = TerminalComponent(n, y)
  BY <1>1, SameDevices
<1>4. NetworkOK(m)
  <2>1. IsFiniteSet(DOMAIN n.attached \cup {x})
    BY FS_AddElement DEF NetworkOK
  <2> QED BY <2>1, <1>1, <1>2, <1>3 DEF NetworkOK
<1>5. TerminalComponent(m, x) \in Components(m)
  BY <1>1, <1>4, TerminalFacts
<1> QED BY <1>1, <1>2, <1>3, <1>4, <1>5

\* A net gets an incidence of a component.
NetAttached(t, u, net, component) ==
    /\ TopologyRecord(u) /\ u.netSlots = t.netSlots /\ u.wireNet = t.wireNet
    /\ u.islandSlots = t.islandSlots
    /\ u.nets = [t.nets EXCEPT ![net] =
                    [wires |-> t.nets[net].wires,
                     components |-> t.nets[net].components (+) SetToBag({component})]]

\* The islands stay: the net had none, or has the island of the component.
AttachInOneIsland(t, u, net, component) ==
    LET island == t.componentIsland[component] IN
    /\ NetAttached(t, u, net, component)
    /\ u.islands = t.islands /\ u.componentIsland = t.componentIsland
    /\ u.netIsland = [t.netIsland EXCEPT ![net] = island]
    /\ t.netIsland[net] \in {NoIsland, island}
    /\ u.invalidation = [topologyDirty |-> t.invalidation.topologyDirty \cup {island},
                         retired |-> t.invalidation.retired]

AttachTwoIslands(t, u, net, component, final, gone) ==
    /\ NetAttached(t, u, net, component)
    /\ {final, gone} = {t.netIsland[net], t.componentIsland[component]} /\ final # gone
    /\ final # NoIsland /\ gone # NoIsland
    /\ IslandsJoin(t, u, final, gone)
    /\ u.netIsland = [i \in DOMAIN t.netIsland |->
                          IF t.netIsland[i] = gone THEN final ELSE t.netIsland[i]]

AttachOutcome(t, u, net, component) ==
    \/ AttachInOneIsland(t, u, net, component)
    \/ \E final, gone : AttachTwoIslands(t, u, net, component, final, gone)

\* What attach_terminal does, by the island of the net.
LEMMA AttachCases ==
    ASSUME NEW n, NEW t, TopologyOK(n, t), NEW full, Covers(n, full),
           NEW w, w \in n.wires, NEW x, NEW component, component = TerminalComponent(full, x),
           component \in Components(n)
    PROVE  AttachOutcome(t, TopologyAttachTerminal(t, full, w, x), t.wireNet[w], component)
<1> DEFINE u == TopologyAttachTerminal(t, full, w, x)
           net == t.wireNet[w]
           island == t.componentIsland[component]
           r == [t EXCEPT !.nets[net].components = @ (+) SetToBag({component})]
           p == t.netIsland[net]
           v == [r EXCEPT !.netIsland[net] = island]
<1>1. /\ NetworkOK(n) /\ NetsOK(n, t, {}) /\ IslandsOK(n, t, {}) /\ MarksOK(t) /\ TopologyRecord(t)
      /\ IslandMembers(n, t) /\ NetIslands(n, t, {})
  BY DEF TopologyOK, IslandsOK
<1>2. /\ r.netIsland = t.netIsland /\ r.islands = t.islands /\ r.componentIsland = t.componentIsland
      /\ r.invalidation = t.invalidation /\ NetAttached(t, r, net, component)
  <2>1. t.nets[net] = [wires |-> WiresAt(t, n, net), components |-> Incidences(n, WiresAt(t, n, net))]
        /\ net \in DOMAIN t.nets /\ IsFunction(t.nets)
    BY <1>1 DEF NetsOK
  <2> DEFINE nets == [t.nets EXCEPT ![net].components = @ (+) SetToBag({component})]
  <2>2. nets = [t.nets EXCEPT ![net] =
                    [wires |-> t.nets[net].wires,
                     components |-> t.nets[net].components (+) SetToBag({component})]]
    BY <2>1
  <2>3. r = [t EXCEPT !.nets = nets]
    <3> DEFINE More(f) == f (+) SetToBag({component})
    <3>1. r = [t EXCEPT !.nets[net].components = More(@)]
          /\ nets = [t.nets EXCEPT ![net].components = More(@)]
      BY Zenon
    <3> HIDE DEF More
    <3> QED BY <3>1, <1>1 DEF TopologyRecord
  <2> HIDE DEF nets, r
  <2> QED BY <2>2, <2>3, <1>1 DEF TopologyRecord, NetAttached
<1>3. u = IF p = NoIsland THEN MarkTopologyDirty(v, island)
          ELSE IF p = island THEN MarkTopologyDirty(r, island)
          ELSE MergeIslands(r, full, p, island)
  BY DEF TopologyAttachTerminal
<1> HIDE DEF r, u
<1>4. /\ island \in DOMAIN t.islands /\ net \in DOMAIN t.netIsland /\ IsFunction(t.netIsland)
      /\ NoIsland \notin DOMAIN t.islands /\ (p # NoIsland => p \in DOMAIN t.islands)
  <2>1. island \in DOMAIN t.islands
    BY <1>1 DEF IslandMembers
  <2>2. net \in DOMAIN t.netIsland /\ IsFunction(t.netIsland) /\ net \in 1..t.netSlots
    BY <1>1 DEF NetsOK, NetIslands
  <2>3. NoIsland \notin DOMAIN t.islands
        /\ \A y \in DOMAIN n.attached : t.netIsland[NetAt(t, n, y)] \in DOMAIN t.islands
    BY <1>1, IslandFacts
  <2>4. p # NoIsland => p \in DOMAIN t.islands
    BY <2>2, <2>3, <1>1 DEF NetIslands
  <2> QED BY <2>1, <2>2, <2>3, <2>4
<1>5. {island} \ t.invalidation.retired = {island}
  BY <1>1, <1>4 DEF MarksOK
<1> DEFINE Same(q) ==
        /\ TopologyRecord(q) /\ q.nets = r.nets /\ q.netSlots = r.netSlots /\ q.wireNet = r.wireNet
        /\ q.islands = t.islands /\ q.islandSlots = r.islandSlots
        /\ q.componentIsland = t.componentIsland /\ q.invalidation = t.invalidation
        /\ q.netIsland = [t.netIsland EXCEPT ![net] = island]
<1>6. ASSUME NEW q, Same(q), u = MarkTopologyDirty(q, island), p \in {NoIsland, island}
      PROVE  AttachInOneIsland(t, u, net, component)
  <2>1. u = MarkAllTopologyDirty(q, {island}) /\ TopologyRecord(q)
    BY <1>6 DEF MarkTopologyDirty
  <2>2. /\ TopologyRecord(u)
        /\ u.nets = q.nets /\ u.netSlots = q.netSlots /\ u.wireNet = q.wireNet
        /\ u.netIsland = q.netIsland /\ u.islands = q.islands /\ u.islandSlots = q.islandSlots
        /\ u.componentIsland = q.componentIsland
        /\ u.invalidation = [topologyDirty |-> q.invalidation.topologyDirty
                                                 \cup ({island} \ q.invalidation.retired),
                             retired |-> q.invalidation.retired]
    BY <2>1, MarkFacts
  <2>3. NetAttached(t, u, net, component)
    BY <2>2, <1>2, <1>6 DEF NetAttached
  <2> QED BY <2>2, <2>3, <1>5, <1>6 DEF AttachInOneIsland
<1>7. CASE p = NoIsland
  <2>1. TopologyRecord(r) /\ r.netIsland = t.netIsland
    BY <1>2 DEF NetAttached
  <2>2. v = [r EXCEPT !.netIsland = [t.netIsland EXCEPT ![net] = island]]
    BY <2>1
  <2>3. Same(v)
    <3> HIDE DEF v
    <3> QED BY <2>1, <2>2, <1>2 DEF TopologyRecord
  <2>4. u = MarkTopologyDirty(v, island)
    BY <1>3, <1>7
  <2> HIDE DEF Same, v
  <2> QED BY <2>3, <2>4, <1>6, <1>7 DEF AttachOutcome, u
<1>8. CASE p = island
  <2>1. Same(r)
    <3>1. t.netIsland = [t.netIsland EXCEPT ![net] = island]
      BY <1>4, <1>8 DEF IsFunction
    <3> QED BY <3>1, <1>2 DEF NetAttached
  <2>2. u = MarkTopologyDirty(r, island)
    BY <1>3, <1>4, <1>8
  <2> HIDE DEF Same
  <2> QED BY <2>1, <2>2, <1>6, <1>8 DEF AttachOutcome, u
<1>9. CASE p # NoIsland /\ p # island
  <2>1. /\ TopologyRecord(r) /\ r.islands = t.islands /\ r.netIsland = t.netIsland
        /\ r.wireNet = t.wireNet /\ r.componentIsland = t.componentIsland
        /\ r.invalidation = t.invalidation /\ r.islandSlots = t.islandSlots
    BY <1>2 DEF NetAttached
  <2>2. IslandMembers(n, r) /\ MarksOK(r)
    BY <2>1, <1>1 DEF IslandMembers, MarksOK
  <2>3. p \in DOMAIN r.islands /\ island \in DOMAIN r.islands /\ p # island
    BY <2>1, <1>4, <1>9
  <2>4. NetsAreFound(r, full, p) /\ NetsAreFound(r, full, island)
    <3>1. NetsAreFound(t, full, p) /\ NetsAreFound(t, full, island)
      BY <2>1, <2>3, <1>1, NetsFound
    <3> QED BY <3>1, <2>1 DEF NetsAreFound, NetsOf
  <2> DEFINE final == Survivor(r, p, island)
             gone == Gone(r, p, island)
  <2>5. u = MergeIslands(r, full, p, island)
    BY <1>3, <1>9
  <2>6. MergedIslands(r, MergeIslands(r, full, p, island), final, gone)
    <3> HIDE DEF island, p
    <3> QED BY <2>1, <2>2, <2>3, <2>4, MergeIslandsFacts, Zenon
  <2>7. {final, gone} = {p, island} /\ final # gone
    <3> HIDE DEF island, p
    <3> QED BY <2>3, SurvivorFacts
  <2> HIDE DEF final, gone
  <2>8. NetAttached(t, u, net, component)
    BY <2>5, <2>6, <1>2 DEF NetAttached, MergedIslands
  <2>9. IslandsJoin(t, u, final, gone)
        /\ u.netIsland = [i \in DOMAIN t.netIsland |->
                            IF t.netIsland[i] = gone THEN final ELSE t.netIsland[i]]
    BY <2>1, <2>5, <2>6 DEF MergedIslands, IslandsJoin
  <2>10. final # NoIsland /\ gone # NoIsland
    BY <2>7, <1>4, <1>9
  <2>11. AttachTwoIslands(t, u, net, component, final, gone)
    BY <2>7, <2>8, <2>9, <2>10 DEF AttachTwoIslands
  <2> QED BY <2>11 DEF AttachOutcome, u
<1> QED BY <1>7, <1>8, <1>9

\* The net of the terminal counts one incidence more, the others what they did.
LEMMA AttachNets ==
    ASSUME NEW n, NEW t, NetworkOK(n), NetsOK(n, t, {}), NEW w, NEW x, CanAttachTerminal(n, w, x),
           NEW m, m = AfterAttachTerminal(n, w, x),
           NEW u, NetAttached(t, u, t.wireNet[w], TerminalComponent(n, x))
    PROVE  NetsOK(m, u, {})
<1> DEFINE net == t.wireNet[w]
           W == WiresAt(t, n, net)
<1>1. /\ w \in n.wires /\ x \notin DOMAIN n.attached
      /\ m.wires = n.wires /\ m.connections = n.connections
      /\ DOMAIN m.attached = DOMAIN n.attached \cup {x} /\ m.attached[x] = w
      /\ \A y \in DOMAIN n.attached : m.attached[y] = n.attached[y]
      /\ \A y : TerminalComponent(m, y) = TerminalComponent(n, y)
  BY AttachNetwork
<1>2. /\ t.netSlots \in Nat /\ IsFunction(t.nets) /\ DOMAIN t.nets \subseteq 1..t.netSlots
      /\ t.wireNet \in [n.wires -> DOMAIN t.nets]
      /\ \A v, z \in n.wires : {v, z} \in n.connections => t.wireNet[v] = t.wireNet[z]
      /\ \A i \in DOMAIN t.nets :
            /\ t.nets[i] = [wires |-> WiresAt(t, n, i),
                            components |-> Incidences(n, WiresAt(t, n, i))]
            /\ WiresAt(t, n, i) # {}
            /\ Joined(n, WiresAt(t, n, i))
  BY DEF NetsOK
<1>3. u.netSlots = t.netSlots /\ u.wireNet = t.wireNet
      /\ u.nets = [t.nets EXCEPT ![net] =
                      [wires |-> t.nets[net].wires,
                       components |-> t.nets[net].components (+) SetToBag({TerminalComponent(n, x)})]]
  BY DEF NetAttached
<1>4. \A i : WiresAt(u, m, i) = WiresAt(t, n, i)
  BY <1>1, <1>3 DEF WiresAt
<1>5. \A i : Joined(n, WiresAt(t, n, i)) => Joined(m, WiresAt(t, n, i))
  <2>1. \A v : ConnectedWires(m, v) = ConnectedWires(n, v)
    BY <1>1 DEF ConnectedWires
  <2> QED BY <2>1, SameJoined
<1>6. ASSUME NEW i, i # net PROVE Incidences(m, WiresAt(t, n, i)) = Incidences(n, WiresAt(t, n, i))
  <2>1. w \notin WiresAt(t, n, i)
    BY <1>6 DEF WiresAt
  <2>2. TerminalsOn(m, WiresAt(t, n, i)) = TerminalsOn(n, WiresAt(t, n, i))
    BY <2>1, <1>1 DEF TerminalsOn
  <2> QED BY <2>2, <1>1, SameIncidences
<1>7. Incidences(m, W) = Incidences(n, W) (+) SetToBag({TerminalComponent(n, x)})
  <2> DEFINE T == TerminalsOn(n, W)
  <2>1. TerminalsOn(m, W) = T \cup {x} /\ T \cap {x} = {} /\ T \in SUBSET DOMAIN n.attached
    BY <1>1 DEF TerminalsOn, WiresAt
  <2>2. IsFiniteSet(T) /\ IsFiniteSet({x})
    BY <2>1, FS_Subset, FS_Singleton DEF NetworkOK
  <2>3. Incidences(m, W) = TerminalCount(m, T \cup {x}) /\ Incidences(n, W) = TerminalCount(n, T)
    BY <2>1, IncidencesCount
  <2>4. TerminalCount(m, T \cup {x}) = TerminalCount(n, T \cup {x})
    BY <1>1 DEF TerminalCount
  <2> HIDE DEF T, W
  <2>5. TerminalCount(n, T \cup {x}) = TerminalCount(n, T) (+) TerminalCount(n, {x})
    BY <2>1, <2>2, CountUnion
  <2>6. TerminalCount(n, {x}) = SetToBag({TerminalComponent(n, x)})
    BY CountOne
  <2> QED BY <2>3, <2>4, <2>5, <2>6
<1>8. ASSUME NEW i \in DOMAIN u.nets
      PROVE  /\ i \in DOMAIN t.nets
             /\ u.nets[i] = [wires |-> WiresAt(u, m, i),
                             components |-> Incidences(m, WiresAt(u, m, i))]
  <2>1. CASE i = net
    <3>1. t.nets[net].wires = W /\ t.nets[net].components = Incidences(n, W) /\ net \in DOMAIN t.nets
      <4>1. net \in DOMAIN t.nets /\ t.nets[net] = [wires |-> W, components |-> Incidences(n, W)]
        BY <1>1, <1>2
      <4> QED BY <4>1
    <3>2. u.nets[net] = [wires |-> W, components |-> Incidences(m, W)]
      BY <3>1, <1>2, <1>3, <1>7
    <3> QED BY <2>1, <3>1, <3>2, <1>4
  <2>2. CASE i # net
    <3>1. i \in DOMAIN t.nets /\ u.nets[i] = t.nets[i]
      BY <2>2, <1>3
    <3> QED BY <2>2, <3>1, <1>2, <1>4, <1>6
  <2> QED BY <2>1, <2>2
<1>9. IsFunction(u.nets) /\ DOMAIN u.nets = DOMAIN t.nets
  BY <1>3 DEF IsFunction
<1>10. ASSUME NEW i \in DOMAIN u.nets
       PROVE  WiresAt(u, m, i) # {} /\ Joined(m, WiresAt(u, m, i))
  BY <1>2, <1>4, <1>5, <1>9
<1>11. /\ u.wireNet \in [m.wires -> DOMAIN u.nets]
       /\ \A v, z \in m.wires : {v, z} \in m.connections => u.wireNet[v] = u.wireNet[z]
       /\ u.netSlots \in Nat /\ DOMAIN u.nets \subseteq 1..u.netSlots
  BY <1>1, <1>2, <1>3, <1>9
<1> QED BY <1>8, <1>9, <1>10, <1>11 DEF NetsOK

\* attach_terminal keeps the invariant in each of its three cases.
LEMMA AttachTerminalTopology ==
    ASSUME NEW n, NEW t, TopologyOK(n, t), NEW w, NEW x, CanAttachTerminal(n, w, x),
           NEW m, m = AfterAttachTerminal(n, w, x), NEW full, Covers(m, full),
           NEW u, u = TopologyAttachTerminal(t, full, w, x)
    PROVE  TopologyOK(m, u) /\ Keeps(n, t, m, u)
<1>1. /\ NetworkOK(n) /\ NetsOK(n, t, {}) /\ IslandsOK(n, t, {}) /\ MarksOK(t) /\ TopologyRecord(t)
      /\ IslandMembers(n, t) /\ NetIslands(n, t, {})
      /\ \A i \in DOMAIN t.islands :
            /\ t.islands[i] # {}
            /\ \A S \in SUBSET t.islands[i] : S # {} /\ Conducts(n, t, S) => S = t.islands[i]
  BY DEF TopologyOK, IslandsOK
<1>2. /\ NetworkOK(m) /\ w \in n.wires /\ x \in Terminals(n) /\ x \notin DOMAIN n.attached
      /\ DOMAIN m.attached = DOMAIN n.attached \cup {x} /\ m.attached[x] = w
      /\ \A y \in DOMAIN n.attached : m.attached[y] = n.attached[y]
      /\ Terminals(m) = Terminals(n) /\ Components(m) = Components(n)
      /\ \A y : TerminalComponent(m, y) = TerminalComponent(n, y)
      /\ TerminalComponent(n, x) \in Components(n)
  BY <1>1, AttachNetwork
<1> DEFINE component == TerminalComponent(n, x)
           net == t.wireNet[w]
           island == t.componentIsland[component]
<1>3. AttachOutcome(t, u, net, component)
  <2>1. Covers(n, full)
    BY <1>2 DEF Covers
  <2>2. component = TerminalComponent(full, x)
    BY <1>2 DEF Covers
  <2>3. w \in n.wires /\ component \in Components(n)
    BY <1>2
  <2> HIDE DEF component
  <2> QED BY <2>1, <2>2, <2>3, AttachCases
<1>4. /\ NoIsland \notin DOMAIN t.islands
      /\ \A y \in DOMAIN n.attached :
            /\ n.attached[y] \in n.wires
            /\ TerminalComponent(n, y) \in Components(n) /\ NetAt(t, n, y) \in 1..t.netSlots
            /\ t.netIsland[NetAt(t, n, y)] = t.componentIsland[TerminalComponent(n, y)]
            /\ t.netIsland[NetAt(t, n, y)] \in DOMAIN t.islands
            /\ TerminalComponent(n, y) \in t.islands[t.netIsland[NetAt(t, n, y)]]
  BY <1>1, IslandFacts
<1>5. net \in 1..t.netSlots /\ DOMAIN t.netIsland = 1..t.netSlots /\ IsFunction(t.netIsland)
  BY <1>1, <1>2 DEF NetsOK, NetIslands
<1>6. island \in DOMAIN t.islands /\ component \in t.islands[island]
  BY <1>1, <1>2 DEF IslandMembers
<1>7. NetAttached(t, u, net, component)
  BY <1>3 DEF AttachOutcome, AttachInOneIsland, AttachTwoIslands
<1>8. NetsOK(m, u, {}) /\ TopologyRecord(u)
  BY <1>1, <1>7, AttachNets DEF NetAttached
<1>9. NetAt(u, m, x) = net /\ \A y \in DOMAIN n.attached : NetAt(u, m, y) = NetAt(t, n, y)
  BY <1>2, <1>7 DEF NetAt, NetAttached
<1>10. \A S : Conducts(m, u, S) => Conducts(n, t, S)
  BY <1>2, <1>9 DEF Conducts
<1>11. ASSUME NEW i \in DOMAIN t.islands, i # island, u.islands[i] = t.islands[i]
       PROVE  CompiledIsland(u, m, i) = CompiledIsland(t, n, i)
  <2>1. component \notin t.islands[i]
    BY <1>1, <1>11 DEF IslandMembers
  <2>2. SameTerminals(n, t, m, u, t.islands[i])
    BY <2>1, <1>2, <1>9 DEF SameTerminals
  <2> QED BY <2>2, <1>11, SameCompiled
<1>12. CASE AttachInOneIsland(t, u, net, component)
  <2>1. /\ u.islands = t.islands /\ u.islandSlots = t.islandSlots /\ u.componentIsland = t.componentIsland
        /\ u.netIsland = [t.netIsland EXCEPT ![net] = island] /\ u.netSlots = t.netSlots
        /\ t.netIsland[net] = NoIsland \/ t.netIsland[net] = island
        /\ u.invalidation.topologyDirty = t.invalidation.topologyDirty \cup {island}
        /\ u.invalidation.retired = t.invalidation.retired
    BY <1>12 DEF AttachInOneIsland, NetAttached
  <2>2. IslandMembers(m, u)
    BY <2>1, <1>1, <1>2 DEF IslandMembers
  <2>3. NetIslands(m, u, {})
    <3>1. IsFunction(u.netIsland) /\ DOMAIN u.netIsland = 1..u.netSlots
      BY <2>1, <1>5 DEF IsFunction
    <3>2. \A y \in DOMAIN m.attached :
            u.netIsland[NetAt(u, m, y)] = u.componentIsland[TerminalComponent(m, y)]
      <4> TAKE y \in DOMAIN m.attached
      <4>1. CASE y = x
        <5>1. u.netIsland[net] = island
          BY <2>1, <1>5
        <5>2. NetAt(u, m, y) = net /\ TerminalComponent(m, y) = component
          BY <4>1, <1>2, <1>9
        <5> QED BY <5>1, <5>2, <2>1
      <4>2. CASE y \in DOMAIN n.attached
        BY <4>2, <2>1, <1>2, <1>4, <1>5, <1>9
      <4> QED BY <4>1, <4>2, <1>2
    <3>3. \A i \in 1..u.netSlots :
            u.netIsland[i] = NoIsland \/ \E y \in DOMAIN m.attached : NetAt(u, m, y) = i
      <4> TAKE i \in 1..u.netSlots
      <4>1. CASE i = net
        BY <4>1, <1>2, <1>9
      <4>2. CASE i # net
        <5>1. u.netIsland[i] = t.netIsland[i] /\ i \in 1..t.netSlots
          BY <4>2, <2>1, <1>5
        <5>2. t.netIsland[i] = NoIsland \/ \E y \in DOMAIN n.attached : NetAt(t, n, y) = i
          BY <5>1, <1>1 DEF NetIslands
        <5> QED BY <5>1, <5>2, <1>2, <1>9
      <4> QED BY <4>1, <4>2
    <3> QED BY <3>1, <3>2, <3>3 DEF NetIslands
  <2>4. IslandsOK(m, u, {})
    BY <2>1, <2>2, <2>3, <1>1, <1>10 DEF IslandsOK
  <2>5. MarksOK(u)
    BY <2>1, <1>1, <1>6 DEF MarksOK
  <2>6. Keeps(n, t, m, u)
    <3>1. t.islandSlots \in Nat
      BY <1>1 DEF IslandMembers
    <3>2. \A i \in DOMAIN u.islands \ u.invalidation.topologyDirty :
            CompiledIsland(u, m, i) = CompiledIsland(t, n, i)
      BY <2>1, <1>11
    <3> QED BY <3>1, <3>2, <2>1, <1>1 DEF Keeps
  <2> QED BY <2>4, <2>5, <2>6, <1>2, <1>8 DEF TopologyOK
<1>13. ASSUME NEW final, NEW gone, AttachTwoIslands(t, u, net, component, final, gone)
       PROVE  TopologyOK(m, u) /\ Keeps(n, t, m, u)
  <2>1. /\ {final, gone} = {t.netIsland[net], island} /\ final # gone
        /\ final # NoIsland /\ gone # NoIsland /\ IslandsJoin(t, u, final, gone)
        /\ u.netSlots = t.netSlots
        /\ u.netIsland = [i \in DOMAIN t.netIsland |->
                            IF t.netIsland[i] = gone THEN final ELSE t.netIsland[i]]
        /\ u.componentIsland = [c \in DOMAIN t.componentIsland |->
                                  IF t.componentIsland[c] = gone THEN final ELSE t.componentIsland[c]]
        /\ u.invalidation.topologyDirty = (t.invalidation.topologyDirty \ {gone}) \cup {final}
    BY <1>13 DEF AttachTwoIslands, NetAttached, IslandsJoin
  <2>2. PICK y \in DOMAIN n.attached : NetAt(t, n, y) = net
    <3>1. t.netIsland[net] # NoIsland
      BY <2>1
    <3> QED BY <3>1, <1>1, <1>5 DEF NetIslands
  <2>3. t.netIsland[net] \in DOMAIN t.islands /\ TerminalComponent(n, y) \in t.islands[t.netIsland[net]]
    BY <2>2, <1>4
  <2>4. final \in DOMAIN t.islands /\ gone \in DOMAIN t.islands
    BY <2>1, <2>3, <1>6
  <2>5. Bridged(m, u, t.islands[final], t.islands[gone])
    <3>1. NetAt(u, m, x) = NetAt(u, m, y) /\ x \in DOMAIN m.attached /\ y \in DOMAIN m.attached
      BY <2>2, <1>2, <1>9
    <3>2. /\ TerminalComponent(m, x) \in t.islands[island]
          /\ TerminalComponent(m, y) \in t.islands[t.netIsland[net]]
      BY <2>3, <1>2, <1>6
    <3>3. CASE final = t.netIsland[net] /\ gone = island
      BY <3>1, <3>2, <3>3 DEF Bridged
    <3>4. CASE final = island /\ gone = t.netIsland[net]
      BY <3>1, <3>2, <3>4 DEF Bridged
    <3> QED BY <3>3, <3>4, <2>1
  <2>6. /\ IslandMembers(m, u)
        /\ \A i \in DOMAIN u.islands :
              /\ u.islands[i] # {}
              /\ \A S \in SUBSET u.islands[i] : S # {} /\ Conducts(m, u, S) => S = u.islands[i]
        /\ MarksOK(u)
        /\ DOMAIN u.islands = DOMAIN t.islands \ {gone}
        /\ \A i \in DOMAIN u.islands : i # final => u.islands[i] = t.islands[i]
        /\ (\A i \in DOMAIN u.islands \ u.invalidation.topologyDirty :
               CompiledIsland(u, m, i) = CompiledIsland(t, n, i)) => Keeps(n, t, m, u)
    <3>1. final # gone /\ Components(m) = Components(n)
      BY <2>1, <1>2
    <3> QED BY <3>1, <2>1, <2>4, <2>5, <1>1, <1>10, JoinedIslands
  <2>7. NetIslands(m, u, {})
    <3>1. IsFunction(u.netIsland) /\ DOMAIN u.netIsland = 1..u.netSlots
      BY <2>1, <1>5 DEF IsFunction
    <3>2. \A z \in DOMAIN m.attached :
            u.netIsland[NetAt(u, m, z)] = u.componentIsland[TerminalComponent(m, z)]
      <4> TAKE z \in DOMAIN m.attached
      <4>0. DOMAIN t.componentIsland = Components(n)
        BY <1>1 DEF IslandMembers
      <4>1. CASE z = x
        BY <4>0, <4>1, <2>1, <1>2, <1>5, <1>9
      <4>2. CASE z \in DOMAIN n.attached
        BY <4>0, <4>2, <2>1, <1>2, <1>4, <1>5, <1>9
      <4> QED BY <4>1, <4>2, <1>2
    <3>3. \A i \in 1..u.netSlots :
            u.netIsland[i] = NoIsland \/ \E z \in DOMAIN m.attached : NetAt(u, m, z) = i
      <4> TAKE i \in 1..u.netSlots
      <4>1. t.netIsland[i] = NoIsland => u.netIsland[i] = NoIsland
        BY <2>1, <1>5
      <4>2. t.netIsland[i] = NoIsland \/ \E z \in DOMAIN n.attached : NetAt(t, n, z) = i
        BY <2>1, <1>1 DEF NetIslands
      <4> QED BY <4>1, <4>2, <1>2, <1>9
    <3> QED BY <3>1, <3>2, <3>3 DEF NetIslands
  <2>8. IslandsOK(m, u, {})
    BY <2>6, <2>7 DEF IslandsOK
  <2>9. \A i \in DOMAIN u.islands \ u.invalidation.topologyDirty :
            CompiledIsland(u, m, i) = CompiledIsland(t, n, i)
    <3> TAKE i \in DOMAIN u.islands \ u.invalidation.topologyDirty
    <3>1. i # final /\ i # gone /\ i \in DOMAIN t.islands /\ u.islands[i] = t.islands[i]
      BY <2>1, <2>6
    <3>2. i # island
      BY <3>1, <2>1
    <3> QED BY <3>1, <3>2, <1>11
  <2> QED BY <2>6, <2>8, <2>9, <1>2, <1>8 DEF TopologyOK
<1> QED BY <1>3, <1>12, <1>13 DEF AttachOutcome

-----------------------------------------------------------------------------
(* add_device.                                                             *)

\* Terminals and components are pairs of a device and a number.
LEMMA TerminalShape ==
    ASSUME NEW n
    PROVE  /\ \A x : x \in Terminals(n) <=>
                  /\ x = <<x[1], x[2]>> /\ x[1] \in DOMAIN n.devices
                  /\ x[2] \in DOMAIN n.devices[x[1]].terminalPartitions
           /\ \A c : c \in Components(n) <=>
                  /\ c = <<c[1], c[2]>> /\ c[1] \in DOMAIN n.devices
                  /\ c[2] \in 1..n.devices[c[1]].partitionCount
           /\ \A x : TerminalComponent(n, x)[1] = x[1]
<1>1. ASSUME NEW x
      PROVE  x \in Terminals(n) <=>
                /\ x = <<x[1], x[2]>> /\ x[1] \in DOMAIN n.devices
                /\ x[2] \in DOMAIN n.devices[x[1]].terminalPartitions
  <2>1. x \in Terminals(n) <=>
          \E e \in DOMAIN n.devices : x \in {e} \X DOMAIN n.devices[e].terminalPartitions
    BY DEF Terminals
  <2> QED BY <2>1
<1>2. ASSUME NEW c
      PROVE  c \in Components(n) <=>
                /\ c = <<c[1], c[2]>> /\ c[1] \in DOMAIN n.devices
                /\ c[2] \in 1..n.devices[c[1]].partitionCount
  <2>1. c \in Components(n) <=>
          \E e \in DOMAIN n.devices : c \in {e} \X (1..n.devices[e].partitionCount)
    BY DEF Components, DeviceComponents
  <2> QED BY <2>1
<1>3. \A x : TerminalComponent(n, x)[1] = x[1]
  BY DEF TerminalComponent
<1> QED BY <1>1, <1>2, <1>3

\* The device of an attached terminal is in the network.
LEMMA AttachedDevice ==
    ASSUME NEW n, NetworkOK(n), NEW x \in DOMAIN n.attached
    PROVE  x \in Terminals(n) /\ x[1] \in DOMAIN n.devices
<1>1. x \in Terminals(n)
  BY DEF NetworkOK
<1> QED BY <1>1, TerminalShape

\* The islands after one was inserted for each of the first partitions.
Inserted(t, u, d, p) ==
    /\ TopologyRecord(u) /\ u.nets = t.nets /\ u.netSlots = t.netSlots /\ u.wireNet = t.wireNet
    /\ u.netIsland = t.netIsland /\ u.islandSlots = t.islandSlots + p
    /\ u.islands = [i \in DOMAIN t.islands \cup ((t.islandSlots + 1)..(t.islandSlots + p)) |->
                        IF i \in DOMAIN t.islands THEN t.islands[i] ELSE {<<d, i - t.islandSlots>>}]
    /\ u.componentIsland = [c \in DOMAIN t.componentIsland \cup ({d} \X (1..p)) |->
                                IF c \in DOMAIN t.componentIsland THEN t.componentIsland[c]
                                ELSE t.islandSlots + c[2]]
    /\ u.invalidation = [topologyDirty |-> t.invalidation.topologyDirty
                                             \cup ((t.islandSlots + 1)..(t.islandSlots + p)),
                         retired |-> t.invalidation.retired]

\* One partition more is one island more.
LEMMA InsertOne ==
    ASSUME NEW t, TopologyRecord(t), t.islandSlots \in Nat, DOMAIN t.islands \subseteq 1..t.islandSlots,
           t.invalidation.retired \subseteq 1..t.islandSlots,
           NEW d, \A q \in Nat : <<d, q>> \notin DOMAIN t.componentIsland,
           NEW p \in Nat, p # 0, NEW r, Inserted(t, r, d, p - 1)
    PROVE  Inserted(t, InsertIsland(r, {<<d, p>>}), d, p)
<1> DEFINE island == r.islandSlots + 1
           v == [r EXCEPT !.islands = With(@, island, {<<d, p>>}), !.islandSlots = island,
                          !.componentIsland = [c \in DOMAIN @ \cup {<<d, p>>} |->
                                                  IF c \in {<<d, p>>} THEN island ELSE @[c]]]
           u == InsertIsland(r, {<<d, p>>})
           s == t.islandSlots
<1>1. u = MarkAllTopologyDirty(v, {island})
  BY DEF InsertIsland, MarkTopologyDirty
<1>2. island = s + p /\ island \notin 1..s /\ s \in Nat /\ island \in Nat
  BY DEF Inserted
<1>3. /\ TopologyRecord(v) /\ v.nets = t.nets /\ v.netSlots = t.netSlots /\ v.wireNet = t.wireNet
      /\ v.netIsland = t.netIsland /\ v.islandSlots = island
      /\ v.islands = With(r.islands, island, {<<d, p>>})
      /\ v.componentIsland = [c \in DOMAIN r.componentIsland \cup {<<d, p>>} |->
                                IF c \in {<<d, p>>} THEN island ELSE r.componentIsland[c]]
      /\ v.invalidation = r.invalidation
  <2> DEFINE Placed(f) == [c \in DOMAIN f \cup {<<d, p>>} |-> IF c \in {<<d, p>>} THEN island ELSE f[c]]
  <2>1. v = [r EXCEPT !.islands = With(@, island, {<<d, p>>}), !.islandSlots = island,
                      !.componentIsland = Placed(@)]
    BY Zenon
  <2>2. TopologyRecord(r) /\ r.nets = t.nets /\ r.netSlots = t.netSlots /\ r.wireNet = t.wireNet
        /\ r.netIsland = t.netIsland
    BY DEF Inserted
  <2>3. /\ TopologyRecord(v) /\ v.nets = t.nets /\ v.netSlots = t.netSlots /\ v.wireNet = t.wireNet
        /\ v.netIsland = t.netIsland /\ v.islandSlots = island
        /\ v.islands = With(r.islands, island, {<<d, p>>})
        /\ v.componentIsland = Placed(r.componentIsland)
        /\ v.invalidation = r.invalidation
    <3> HIDE DEF v, Placed, island
    <3> QED BY <2>1, <2>2 DEF TopologyRecord
  <2> QED BY <2>3
<1> HIDE DEF v, u
<1>4. /\ TopologyRecord(u)
      /\ u.nets = v.nets /\ u.netSlots = v.netSlots /\ u.wireNet = v.wireNet
      /\ u.netIsland = v.netIsland /\ u.islands = v.islands /\ u.islandSlots = v.islandSlots
      /\ u.componentIsland = v.componentIsland
      /\ u.invalidation = [topologyDirty |-> v.invalidation.topologyDirty
                                               \cup ({island} \ v.invalidation.retired),
                           retired |-> v.invalidation.retired]
  <2> HIDE DEF island
  <2> QED BY <1>1, <1>3, MarkFacts
<1>5. /\ r.islands = [i \in DOMAIN t.islands \cup ((s + 1)..(s + (p - 1))) |->
                        IF i \in DOMAIN t.islands THEN t.islands[i] ELSE {<<d, i - s>>}]
      /\ r.componentIsland = [c \in DOMAIN t.componentIsland \cup ({d} \X (1..(p - 1))) |->
                                IF c \in DOMAIN t.componentIsland THEN t.componentIsland[c]
                                ELSE s + c[2]]
      /\ r.invalidation = [topologyDirty |-> t.invalidation.topologyDirty
                                               \cup ((s + 1)..(s + (p - 1))),
                           retired |-> t.invalidation.retired]
  BY DEF Inserted
<1>6. ((s + 1)..(s + (p - 1))) \cup {island} = (s + 1)..(s + p) /\ island \notin (s + 1)..(s + (p - 1))
  BY <1>2
<1> HIDE DEF island
<1>7. u.islands = [i \in DOMAIN t.islands \cup ((s + 1)..(s + p)) |->
                        IF i \in DOMAIN t.islands THEN t.islands[i] ELSE {<<d, i - s>>}]
  <2> DEFINE Singleton(i) == {<<d, i - s>>}
             low == (s + 1)..(s + (p - 1))
             high == (s + 1)..(s + p)
  <2>1. island \notin DOMAIN t.islands /\ Singleton(island) = {<<d, p>>} /\ low \cup {island} = high
        /\ island \notin low
    BY <1>2, <1>6
  <2>2. r.islands = [i \in DOMAIN t.islands \cup low |->
                        IF i \in DOMAIN t.islands THEN t.islands[i] ELSE Singleton(i)]
    BY <1>5
  <2>3. u.islands = With(r.islands, island, {<<d, p>>})
    BY <1>3, <1>4
  <2> HIDE DEF Singleton, low, high
  <2>4. u.islands = [i \in DOMAIN t.islands \cup high |->
                        IF i \in DOMAIN t.islands THEN t.islands[i] ELSE Singleton(i)]
    BY <2>1, <2>2, <2>3 DEF With
  <2> QED BY <2>4 DEF Singleton, high
<1>8. u.componentIsland = [c \in DOMAIN t.componentIsland \cup ({d} \X (1..p)) |->
                                IF c \in DOMAIN t.componentIsland THEN t.componentIsland[c]
                                ELSE s + c[2]]
  <2>1. ({d} \X (1..(p - 1))) \cup {<<d, p>>} = {d} \X (1..p)
    OBVIOUS
  <2>2. <<d, p>> \notin DOMAIN t.componentIsland /\ <<d, p>>[2] = p
    OBVIOUS
  <2> HIDE DEF s
  <2> QED BY <2>1, <2>2, <1>2, <1>3, <1>4, <1>5
<1>9. u.invalidation = [topologyDirty |-> t.invalidation.topologyDirty \cup ((s + 1)..(s + p)),
                        retired |-> t.invalidation.retired]
  <2>1. island \notin t.invalidation.retired
    BY <1>2
  <2> DEFINE low == (s + 1)..(s + (p - 1))
             high == (s + 1)..(s + p)
  <2>2. low \cup {island} = high
    BY <1>6
  <2>3. v.invalidation = [topologyDirty |-> t.invalidation.topologyDirty \cup low,
                          retired |-> t.invalidation.retired]
    BY <1>3, <1>5
  <2> HIDE DEF low, high
  <2>4. u.invalidation = [topologyDirty |-> t.invalidation.topologyDirty \cup high,
                          retired |-> t.invalidation.retired]
    <3>1. /\ v.invalidation.topologyDirty = t.invalidation.topologyDirty \cup low
          /\ v.invalidation.retired = t.invalidation.retired
      BY <2>3
    <3>2. (t.invalidation.topologyDirty \cup low) \cup ({island} \ t.invalidation.retired)
            = t.invalidation.topologyDirty \cup high
      BY <2>1, <2>2
    <3> QED BY <3>1, <3>2, <1>4
  <2> QED BY <2>4 DEF high
<1>10. Inserted(t, u, d, p)
  BY <1>2, <1>3, <1>4, <1>7, <1>8, <1>9 DEF Inserted
<1> QED BY <1>10 DEF u

\* The recursion of add_device.
Insertions(size, t, d, g) ==
    g = [p \in 0..size |-> IF p = 0 THEN t ELSE InsertIsland(g[p - 1], {<<d, p>>})]

\* It exists.
LEMMA InsertionsExist == ASSUME NEW size \in Nat, NEW t, NEW d PROVE \E g : Insertions(size, t, d, g)
<1> DEFINE T == {k \in Nat : \E g : Insertions(k, t, d, g)}
<1>1. 0 \in T
  <2>1. Insertions(0, t, d, [p \in 0..0 |-> t])
    BY DEF Insertions
  <2> QED BY <2>1
<1>2. ASSUME NEW k \in 0..size, k # 0, k - 1 \in T PROVE k \in T
  <2>1. PICK g : Insertions(k - 1, t, d, g)
    BY <1>2
  <2> DEFINE h == [p \in 0..k |-> IF p \in 0..(k - 1) THEN g[p] ELSE InsertIsland(g[k - 1], {<<d, k>>})]
  <2>2. \A p \in 0..k : p # 0 => p - 1 \in 0..(k - 1) /\ (p \notin 0..(k - 1) => p = k)
    OBVIOUS
  <2>3. 0 \in 0..(k - 1)
    BY <1>2
  <2>4. \A p \in 0..(k - 1) : g[p] = IF p = 0 THEN t ELSE InsertIsland(g[p - 1], {<<d, p>>})
    BY <2>1 DEF Insertions
  <2>5. \A p \in 0..k : h[p] = IF p = 0 THEN t ELSE InsertIsland(h[p - 1], {<<d, p>>})
    <3> TAKE p \in 0..k
    <3>1. CASE p \in 0..(k - 1)
      <4>1. h[p] = g[p] /\ (p # 0 => h[p - 1] = g[p - 1])
        BY <3>1, <2>2
      <4> QED BY <4>1, <3>1, <2>4
    <3>2. CASE p \notin 0..(k - 1)
      <4>1. p # 0 /\ h[p] = InsertIsland(g[k - 1], {<<d, k>>}) /\ h[p - 1] = g[p - 1] /\ p = k
        BY <3>2, <2>2, <2>3
      <4> QED BY <4>1
    <3> QED BY <3>1, <3>2
  <2>6. Insertions(k, t, d, h)
    <3>1. DOMAIN h = 0..k /\ h = [p \in 0..k |-> h[p]]
      OBVIOUS
    <3> HIDE DEF h
    <3> QED BY <2>5, <3>1 DEF Insertions
  <2>7. k \in Nat
    OBVIOUS
  <2> QED BY <2>6, <2>7
<1>3. \A k \in 0..size : k \in T
  <2> HIDE DEF T
  <2> QED BY <1>1, <1>2, CountUp
<1> QED BY <1>3

\* add_device inserts an island for each partition.
LEMMA AddDeviceInserts ==
    ASSUME NEW t, TopologyRecord(t), t.islandSlots \in Nat, DOMAIN t.islands \subseteq 1..t.islandSlots,
           t.invalidation.retired \subseteq 1..t.islandSlots,
           IsFunction(t.islands), IsFunction(t.componentIsland),
           NEW d, \A q \in Nat : <<d, q>> \notin DOMAIN t.componentIsland,
           NEW full, full.devices[d].partitionCount \in Nat
    PROVE  Inserted(t, TopologyAddDevice(t, full, d), d, full.devices[d].partitionCount)
<1> DEFINE size == full.devices[d].partitionCount
<1>1. PICK g : g = CHOOSE f : Insertions(size, t, d, f)
  OBVIOUS
<1>2. Insertions(size, t, d, g)
  BY <1>1, InsertionsExist, Zenon
<1>3. TopologyAddDevice(t, full, d) = g[size]
  BY <1>1, Zenon DEF TopologyAddDevice, Insertions
<1>7. size \in Nat
  OBVIOUS
<1> HIDE DEF size
<1>4. g[0] = t /\ \A p \in 0..size : p # 0 => g[p] = InsertIsland(g[p - 1], {<<d, p>>})
  <2> DEFINE Step(u, p) == InsertIsland(u, {<<d, p>>})
  <2>1. g = [p \in 0..size |-> IF p = 0 THEN t ELSE Step(g[p - 1], p)]
    BY <1>2, Zenon DEF Insertions
  <2> HIDE DEF Step
  <2>2. \A p \in 0..size : g[p] = IF p = 0 THEN t ELSE Step(g[p - 1], p)
    BY <2>1, Zenon
  <2>3. g[0] = t /\ \A p \in 0..size : p # 0 => g[p] = Step(g[p - 1], p)
    BY <2>2, <1>7
  <2> QED BY <2>3 DEF Step
<1> DEFINE T == {p \in Nat : Inserted(t, g[p], d, p)}
<1>5. 0 \in T
  <2>1. (t.islandSlots + 1)..(t.islandSlots + 0) = {} /\ {d} \X (1..0) = {} /\ t.islandSlots + 0 = t.islandSlots
    OBVIOUS
  <2>4. t.invalidation = [topologyDirty |-> t.invalidation.topologyDirty \cup {},
                          retired |-> t.invalidation.retired]
    BY DEF TopologyRecord
  <2>5. Inserted(t, t, d, 0)
    <3> DEFINE none == (t.islandSlots + 1)..(t.islandSlots + 0)
               nobody == {d} \X (1..0)
    <3>1. none = {} /\ nobody = {} /\ t.islandSlots + 0 = t.islandSlots
      BY <2>1
    <3> HIDE DEF none, nobody
    <3>2. t.islands = [i \in DOMAIN t.islands \cup none |->
                            IF i \in DOMAIN t.islands THEN t.islands[i] ELSE {<<d, i - t.islandSlots>>}]
      <4>1. DOMAIN t.islands \cup none = DOMAIN t.islands
        BY <3>1
      <4>2. \A D : D = DOMAIN t.islands =>
              t.islands = [i \in D |-> IF i \in DOMAIN t.islands THEN t.islands[i]
                                       ELSE {<<d, i - t.islandSlots>>}]
        BY DEF IsFunction
      <4> QED BY <4>1, <4>2, Zenon
    <3>3. t.componentIsland = [c \in DOMAIN t.componentIsland \cup nobody |->
                                    IF c \in DOMAIN t.componentIsland THEN t.componentIsland[c]
                                    ELSE t.islandSlots + c[2]]
      <4>1. DOMAIN t.componentIsland \cup nobody = DOMAIN t.componentIsland
        BY <3>1
      <4>2. \A D : D = DOMAIN t.componentIsland =>
              t.componentIsland = [c \in D |-> IF c \in DOMAIN t.componentIsland THEN t.componentIsland[c]
                                               ELSE t.islandSlots + c[2]]
        BY DEF IsFunction
      <4> QED BY <4>1, <4>2, Zenon
    <3>4. t.invalidation = [topologyDirty |-> t.invalidation.topologyDirty \cup none,
                            retired |-> t.invalidation.retired]
      BY <3>1, <2>4, Zenon
    <3>5. t.islandSlots = t.islandSlots + 0
      BY <3>1
    <3> QED BY <3>2, <3>3, <3>4, <3>5, Zenon DEF Inserted, none, nobody
  <2>6. g[0] = t
    BY <1>4
  <2>7. Inserted(t, g[0], d, 0)
    BY <2>5, <2>6, Zenon
  <2> QED BY <2>7
<1>6. ASSUME NEW p \in 0..size, p # 0, p - 1 \in T PROVE p \in T
  <2>1. p \in Nat /\ p # 0
    BY <1>6, <1>7
  <2>2. Inserted(t, g[p - 1], d, p - 1)
    BY <1>6, Zenon
  <2>3. g[p] = InsertIsland(g[p - 1], {<<d, p>>})
    BY <1>4, <1>6
  <2>4. Inserted(t, InsertIsland(g[p - 1], {<<d, p>>}), d, p)
    BY <2>1, <2>2, InsertOne
  <2> QED BY <2>1, <2>3, <2>4, Zenon
<1>8. \A p \in 0..size : p \in T
  <2> HIDE DEF T
  <2> QED BY <1>5, <1>6, <1>7, CountUp
<1>9. Inserted(t, g[size], d, size)
  BY <1>7, <1>8
<1> QED BY <1>3, <1>9 DEF size

\* A device that two networks have in common has the same terminals in both.
LEMMA CommonDevice ==
    ASSUME NEW n, NEW m, NEW x, x[1] \in DOMAIN n.devices, x[1] \in DOMAIN m.devices,
           m.devices[x[1]] = n.devices[x[1]]
    PROVE  /\ x \in Terminals(m) <=> x \in Terminals(n)
           /\ x \in Components(m) <=> x \in Components(n)
           /\ TerminalComponent(m, x) = TerminalComponent(n, x)
<1>1. x \in Terminals(m) <=> x \in Terminals(n)
  BY TerminalShape
<1>2. x \in Components(m) <=> x \in Components(n)
  BY TerminalShape
<1> QED BY <1>1, <1>2 DEF TerminalComponent

\* The network after a device is added.
LEMMA AddDeviceNetwork ==
    ASSUME NEW n, NetworkOK(n), NEW d \in Devices, NEW definition \in Definitions, CanAddDevice(n, d),
           NEW m, m = AfterAddDevice(n, d, definition)
    PROVE  /\ NetworkOK(m) /\ d \notin DOMAIN n.devices
           /\ m.wires = n.wires /\ m.connections = n.connections /\ m.attached = n.attached
           /\ Components(m) = Components(n) \cup ({d} \X (1..definition.partitionCount))
           /\ \A x : x[1] \in DOMAIN n.devices =>
                  (x \in Terminals(m) <=> x \in Terminals(n)) /\ TerminalComponent(m, x) = TerminalComponent(n, x)
           /\ \A x \in Terminals(m) : x[1] \in DOMAIN n.devices \/ x[1] = d
           /\ definition.partitionCount \in Nat
<1>1. /\ NetworkRecord(m) /\ m.wires = n.wires /\ m.connections = n.connections
      /\ m.attached = n.attached
      /\ m.devices = [e \in DOMAIN n.devices \cup {d} |-> IF e = d THEN definition ELSE n.devices[e]]
  BY DEF NetworkOK, NetworkRecord, AfterAddDevice
<1>2. d \notin DOMAIN n.devices /\ definition.partitionCount \in Nat
  BY DefinitionsAssumption DEF CanAddDevice
<1>3. DOMAIN m.devices = DOMAIN n.devices \cup {d} /\ m.devices[d] = definition
      /\ \A e \in DOMAIN n.devices : m.devices[e] = n.devices[e]
  BY <1>1, <1>2
<1>4. \A x : x[1] \in DOMAIN n.devices =>
        /\ x \in Terminals(m) <=> x \in Terminals(n)
        /\ x \in Components(m) <=> x \in Components(n)
        /\ TerminalComponent(m, x) = TerminalComponent(n, x)
  BY <1>3, CommonDevice
<1>5. \A x \in Terminals(m) : x[1] \in DOMAIN n.devices \/ x[1] = d
  BY <1>3, TerminalShape
<1>6. Components(m) = Components(n) \cup ({d} \X (1..definition.partitionCount))
  <2>1. ASSUME NEW c PROVE c \in Components(m) <=> c \in Components(n) \cup ({d} \X (1..definition.partitionCount))
    <3>1. CASE c[1] \in DOMAIN n.devices
      <4>1. c \notin {d} \X (1..definition.partitionCount)
        BY <3>1, <1>2
      <4> QED BY <4>1, <3>1, <1>4
    <3>2. CASE c[1] \notin DOMAIN n.devices
      <4>1. c \notin Components(n)
        BY <3>2, TerminalShape
      <4>2. c \in Components(m) <=> c = <<c[1], c[2]>> /\ c[1] = d /\ c[2] \in 1..definition.partitionCount
        BY <3>2, <1>3, TerminalShape
      <4>3. c \in {d} \X (1..definition.partitionCount)
              <=> c = <<c[1], c[2]>> /\ c[1] = d /\ c[2] \in 1..definition.partitionCount
        OBVIOUS
      <4> QED BY <4>1, <4>2, <4>3
    <3> QED BY <3>1, <3>2
  <2> QED BY <2>1
<1>7. NetworkOK(m)
  <2>1. IsFiniteSet(Components(m))
    <3> DEFINE size == definition.partitionCount
               added == {d} \X (1..size)
    <3>1. IsFiniteSet({d})
      BY FS_Singleton
    <3>2. IsFiniteSet(1..size)
      <4>1. 1 \in Int /\ size \in Int
        BY <1>2
      <4> HIDE DEF size
      <4> QED BY <4>1, FS_Interval
    <3>3. IsFiniteSet(added)
      BY <3>1, <3>2, FS_Product
    <3>4. IsFiniteSet(Components(n)) /\ Components(m) = Components(n) \cup added
      BY <1>6 DEF NetworkOK
    <3> HIDE DEF added
    <3> QED BY <3>3, <3>4, FS_Union
  <2>2. m.devices \in [DOMAIN m.devices -> Definitions] /\ DOMAIN m.devices \subseteq Devices
    BY <1>1 DEF NetworkOK
  <2>3. DOMAIN m.attached \subseteq Terminals(m)
    BY <1>1, <1>4, AttachedDevice
  <2> QED BY <2>1, <2>2, <2>3, <1>1 DEF NetworkOK
<1> QED BY <1>1, <1>2, <1>4, <1>5, <1>6, <1>7

\* add_device keeps the invariant.
LEMMA AddDeviceTopology ==
    ASSUME NEW n, NEW t, TopologyOK(n, t), NEW d \in Devices, NEW definition \in Definitions,
           CanAddDevice(n, d), NEW m, m = AfterAddDevice(n, d, definition),
           NEW full, full.devices[d] = definition,
           NEW u, u = TopologyAddDevice(t, full, d)
    PROVE  TopologyOK(m, u) /\ Keeps(n, t, m, u)
<1> DEFINE s == t.islandSlots
           size == definition.partitionCount
           new == (s + 1)..(s + size)
<1>1. /\ NetworkOK(n) /\ NetsOK(n, t, {}) /\ IslandsOK(n, t, {}) /\ MarksOK(t) /\ TopologyRecord(t)
      /\ IslandMembers(n, t) /\ NetIslands(n, t, {})
      /\ \A i \in DOMAIN t.islands :
            /\ t.islands[i] # {}
            /\ \A S \in SUBSET t.islands[i] : S # {} /\ Conducts(n, t, S) => S = t.islands[i]
  BY DEF TopologyOK, IslandsOK
<1>2. /\ NetworkOK(m) /\ d \notin DOMAIN n.devices
      /\ m.wires = n.wires /\ m.connections = n.connections /\ m.attached = n.attached
      /\ Components(m) = Components(n) \cup ({d} \X (1..size))
      /\ \A x : x[1] \in DOMAIN n.devices =>
             (x \in Terminals(m) <=> x \in Terminals(n)) /\ TerminalComponent(m, x) = TerminalComponent(n, x)
      /\ \A x \in Terminals(m) : x[1] \in DOMAIN n.devices \/ x[1] = d
      /\ size \in Nat
  BY <1>1, AddDeviceNetwork
<1>3. \A q : <<d, q>> \notin Components(n)
  BY <1>2, TerminalShape
<1>4. Inserted(t, u, d, size)
  <2>1. /\ t.islandSlots \in Nat /\ DOMAIN t.islands \subseteq 1..t.islandSlots
        /\ t.invalidation.retired \subseteq 1..t.islandSlots
        /\ IsFunction(t.islands) /\ IsFunction(t.componentIsland)
        /\ DOMAIN t.componentIsland = Components(n)
    BY <1>1 DEF IslandMembers, MarksOK, IsFunction
  <2>2. \A q \in Nat : <<d, q>> \notin DOMAIN t.componentIsland
    BY <2>1, <1>3
  <2>3. full.devices[d].partitionCount \in Nat
    BY <1>2
  <2>4. Inserted(t, TopologyAddDevice(t, full, d), d, full.devices[d].partitionCount)
    BY <2>1, <2>2, <2>3, <1>1, AddDeviceInserts
  <2> QED BY <2>4
<1>5. \A x \in DOMAIN n.attached : TerminalComponent(m, x) = TerminalComponent(n, x)
                                   /\ TerminalComponent(n, x) \in Components(n)
  BY <1>1, <1>2, AttachedDevice, TerminalFacts
<1>6. /\ u.nets = t.nets /\ u.netSlots = t.netSlots /\ u.wireNet = t.wireNet
      /\ u.netIsland = t.netIsland /\ u.islandSlots = s + size
      /\ TopologyRecord(u)
  BY <1>4 DEF Inserted
<1>7. \A x : NetAt(u, m, x) = NetAt(t, n, x)
  BY <1>2, <1>6 DEF NetAt
<1>8. \A S : Conducts(m, u, S) <=> Conducts(n, t, S)
  BY <1>2, <1>5, <1>7 DEF Conducts
<1>9. NetsOK(m, u, {})
  <2>1. \A i : WiresAt(u, m, i) = WiresAt(t, n, i)
    BY <1>2, <1>6 DEF WiresAt
  <2>2. \A i : Incidences(m, WiresAt(t, n, i)) = Incidences(n, WiresAt(t, n, i))
    <3> TAKE i
    <3>1. TerminalsOn(m, WiresAt(t, n, i)) = TerminalsOn(n, WiresAt(t, n, i))
          /\ TerminalsOn(n, WiresAt(t, n, i)) \subseteq DOMAIN n.attached
      BY <1>2 DEF TerminalsOn
    <3> QED BY <3>1, <1>5, SameIncidences
  <2>3. \A i : Joined(n, WiresAt(t, n, i)) => Joined(m, WiresAt(t, n, i))
    <3>1. \A v : ConnectedWires(m, v) = ConnectedWires(n, v)
      BY <1>2 DEF ConnectedWires
    <3> QED BY <3>1, SameJoined
  <2> QED BY <2>1, <2>2, <2>3, <1>1, <1>2, <1>6 DEF NetsOK
<1>10. /\ u.islands = [i \in DOMAIN t.islands \cup new |->
                         IF i \in DOMAIN t.islands THEN t.islands[i] ELSE {<<d, i - s>>}]
       /\ u.componentIsland = [c \in Components(n) \cup ({d} \X (1..size)) |->
                                 IF c \in Components(n) THEN t.componentIsland[c] ELSE s + c[2]]
       /\ u.invalidation.topologyDirty = t.invalidation.topologyDirty \cup new
       /\ u.invalidation.retired = t.invalidation.retired
  BY <1>1, <1>4 DEF Inserted, IslandMembers
<1>11. s \in Nat /\ DOMAIN t.islands \subseteq 1..s /\ DOMAIN t.islands \cap new = {}
       /\ new \subseteq 1..(s + size) /\ 1..s \subseteq 1..(s + size) /\ s <= s + size /\ 1..s \cap new = {}
  BY <1>1, <1>2 DEF IslandMembers
<1>12. IslandMembers(m, u)
  <2>1. u.componentIsland \in [Components(m) -> DOMAIN u.islands]
    <3>1. \A c \in {d} \X (1..size) : s + c[2] \in new
      BY <1>2, <1>11
    <3>2. t.componentIsland \in [Components(n) -> DOMAIN t.islands]
      BY <1>1 DEF IslandMembers
    <3> HIDE DEF new
    <3> QED BY <3>1, <3>2, <1>2, <1>10
  <2>2. ASSUME NEW i \in DOMAIN t.islands
        PROVE  u.islands[i] = {c \in Components(m) : u.componentIsland[c] = i}
    <3>1. \A c \in {d} \X (1..size) : s + c[2] # i
      BY <1>2, <1>11
    <3>2. t.islands[i] = {c \in Components(n) : t.componentIsland[c] = i}
      BY <1>1 DEF IslandMembers
    <3>3. \A c \in Components(m) : u.componentIsland[c] = i <=> c \in Components(n) /\ t.componentIsland[c] = i
      BY <3>1, <1>2, <1>10
    <3>4. {c \in Components(m) : u.componentIsland[c] = i} = {c \in Components(n) : t.componentIsland[c] = i}
      BY <3>3, <1>2
    <3>5. u.islands[i] = t.islands[i]
      BY <1>10
    <3> QED BY <3>2, <3>4, <3>5
  <2>3. ASSUME NEW i \in new
        PROVE  u.islands[i] = {c \in Components(m) : u.componentIsland[c] = i}
    <3>1. u.islands[i] = {<<d, i - s>>} /\ i - s \in 1..size
      BY <1>2, <1>10, <1>11
    <3>2. \A c \in Components(n) : u.componentIsland[c] # i
      BY <1>1, <1>10, <1>11 DEF IslandMembers
    <3>3. \A c \in {d} \X (1..size) : c \notin Components(n)
      BY <1>3
    <3>4. \A c \in {d} \X (1..size) : u.componentIsland[c] = i <=> c = <<d, i - s>>
      BY <3>1, <3>3, <1>2, <1>10, <1>11
    <3>5. <<d, i - s>> \in {d} \X (1..size)
      BY <3>1
    <3> QED BY <3>1, <3>2, <3>4, <3>5, <1>2
  <2>4. IsFunction(u.islands) /\ DOMAIN u.islands = DOMAIN t.islands \cup new
    BY <1>10 DEF IsFunction
  <2>5. u.islandSlots \in Nat /\ DOMAIN u.islands \subseteq 1..u.islandSlots
    BY <2>4, <1>2, <1>6, <1>11
  <2> QED BY <2>1, <2>2, <2>3, <2>4, <2>5 DEF IslandMembers
<1>13. NetIslands(m, u, {})
  <2>1. \A c \in Components(n) : u.componentIsland[c] = t.componentIsland[c]
    BY <1>10
  <2> QED BY <2>1, <1>1, <1>2, <1>5, <1>6, <1>7 DEF NetIslands
<1>14. IslandsOK(m, u, {})
  <2>1. ASSUME NEW i \in DOMAIN u.islands
        PROVE  /\ u.islands[i] # {}
               /\ \A S \in SUBSET u.islands[i] : S # {} /\ Conducts(m, u, S) => S = u.islands[i]
    <3>1. CASE i \in DOMAIN t.islands
      <4>1. u.islands[i] = t.islands[i]
        BY <3>1, <1>10
      <4> QED BY <4>1, <3>1, <1>1, <1>8
    <3>2. CASE i \notin DOMAIN t.islands
      <4>1. u.islands[i] = {<<d, i - s>>}
        BY <3>2, <1>10
      <4> QED BY <4>1
    <3> QED BY <3>1, <3>2
  <2> QED BY <2>1, <1>12, <1>13 DEF IslandsOK
<1>15. MarksOK(u)
  <2>1. DOMAIN u.islands = DOMAIN t.islands \cup new
    BY <1>10
  <2> HIDE DEF new
  <2> QED BY <2>1, <1>1, <1>6, <1>10, <1>11 DEF MarksOK
<1>16. Keeps(n, t, m, u)
  <2>1. DOMAIN u.islands = DOMAIN t.islands \cup new
        /\ \A i \in DOMAIN t.islands : u.islands[i] = t.islands[i]
    BY <1>10
  <2>2. ASSUME NEW i \in DOMAIN t.islands PROVE CompiledIsland(u, m, i) = CompiledIsland(t, n, i)
    <3>1. t.islands[i] \subseteq Components(n)
      BY <1>1 DEF IslandMembers
    <3>2. \A x \in Terminals(m) : TerminalComponent(m, x) \in Components(n) => x[1] \in DOMAIN n.devices
      <4> TAKE x \in Terminals(m)
      <4> HAVE TerminalComponent(m, x) \in Components(n)
      <4>1. TerminalComponent(m, x)[1] \in DOMAIN n.devices
        BY TerminalShape
      <4> QED BY <4>1, TerminalShape
    <3>3. \A x \in Terminals(n) : x[1] \in DOMAIN n.devices
      BY TerminalShape
    <3>4. {x \in Terminals(n) : TerminalComponent(n, x) \in t.islands[i]}
            = {x \in Terminals(m) : TerminalComponent(m, x) \in t.islands[i]}
      BY <3>1, <3>2, <3>3, <1>2
    <3>5. SameTerminals(n, t, m, u, t.islands[i])
      BY <3>4, <1>2, <1>7 DEF SameTerminals
    <3> QED BY <3>5, <2>1, SameCompiled
  <2>3. \A i \in DOMAIN t.islands : t.islands[i] # {}
    BY <1>1
  <2>4. s <= u.islandSlots /\ \A i \in DOMAIN u.islands : i \in 1..s => i \in DOMAIN t.islands
    BY <2>1, <1>6, <1>11
  <2> HIDE DEF new
  <2> QED BY <2>1, <2>2, <2>3, <2>4, <1>10 DEF Keeps
<1> QED BY <1>2, <1>6, <1>9, <1>14, <1>15, <1>16 DEF TopologyOK

-----------------------------------------------------------------------------
(* repair_net.                                                             *)

\* The wires of the net that is repaired are known.
WiresKnown(n, t, net) ==
    net \in DOMAIN t.nets /\ {w \in t.nets[net].wires : w \in DOMAIN t.wireNet} = WiresAt(t, n, net)

\* The pieces a net comes apart into are groups of wires.
NetPieces(n, t, net, P) ==
    /\ IsFiniteSet(P)
    /\ \A p \in P : /\ p \in SUBSET WiresAt(t, n, net) /\ p # {} /\ Joined(n, p)
                    /\ \A a \in p : ConnectedWires(n, a) \subseteq p
    /\ \A p, q \in P : p \cap q # {} => p = q
    /\ \A w \in WiresAt(t, n, net) : \E p \in P : w \in p

\* What a walk over wires finds.
LEMMA WireGroupFacts ==
    ASSUME NEW n, NetworkOK(n), NEW w \in n.wires
    PROVE  /\ WireGroup(n, w) \in SUBSET n.wires /\ w \in WireGroup(n, w)
           /\ \A a \in WireGroup(n, w) : ConnectedWires(n, a) \subseteq WireGroup(n, w)
           /\ \A S \in SUBSET n.wires :
                 w \in S /\ (\A a \in S : ConnectedWires(n, a) \subseteq S) => WireGroup(n, w) \subseteq S
           /\ \A a \in WireGroup(n, w) : WireGroup(n, a) = WireGroup(n, w)
<1> DEFINE next == [v \in n.wires |-> ConnectedWires(n, v)]
<1>1. Graph(n.wires, next) /\ Symmetric(n.wires, next)
  BY WireGraph
<1>2. \A a \in n.wires : next[a] = ConnectedWires(n, a)
  OBVIOUS
<1>3. \A a : WireGroup(n, a) = Reached(a, next)
  BY DEF WireGroup
<1> HIDE DEF next
<1>4. IsReached(n.wires, next, w, WireGroup(n, w))
  BY <1>1, <1>3, ReachedFacts
<1>5. \A a \in Reached(w, next) : Reached(a, next) = Reached(w, next)
  BY <1>1, ReachedSymmetric
<1>6. \A S \in SUBSET n.wires : ClosedUnder(next, S) <=> \A a \in S : ConnectedWires(n, a) \subseteq S
  BY <1>2 DEF ClosedUnder
<1> QED BY <1>3, <1>4, <1>5, <1>6 DEF IsReached

\* The walks of a repair find the pieces.
LEMMA WirePiecesFacts ==
    ASSUME NEW n, NetworkOK(n), NEW t, NEW net, WiresKnown(n, t, net), NetsOK(n, t, {net})
    PROVE  NetPieces(n, t, net, WirePieces(t, n, net))
<1> DEFINE W == WiresAt(t, n, net)
           P == {WireGroup(n, w) : w \in W}
<1>1. WirePieces(t, n, net) = P
  BY DEF WirePieces, WiresKnown
<1>2. W \in SUBSET n.wires /\ \A a \in W : ConnectedWires(n, a) \subseteq W
  BY DEF NetsOK, WiresAt, ConnectedWires
<1>3. IsFiniteSet(P)
  <2> DEFINE f == [w \in W |-> WireGroup(n, w)]
  <2>1. IsFiniteSet(W)
    BY <1>2, FS_Subset DEF NetworkOK
  <2>2. f \in Surjection(W, P)
    BY DEF Surjection
  <2> HIDE DEF f, P, W
  <2> QED BY <2>1, <2>2, FS_Surjection
<1> HIDE DEF W
<1>4. ASSUME NEW p \in P
      PROVE  p \in SUBSET W /\ p # {} /\ Joined(n, p) /\ \A a \in p : ConnectedWires(n, a) \subseteq p
  <2>1. PICK w \in W : p = WireGroup(n, w)
    OBVIOUS
  <2>2. w \in n.wires
    BY <1>2
  <2>3. /\ p \in SUBSET n.wires /\ w \in p
        /\ \A a \in p : ConnectedWires(n, a) \subseteq p
        /\ \A S \in SUBSET n.wires :
              w \in S /\ (\A a \in S : ConnectedWires(n, a) \subseteq S) => p \subseteq S
        /\ \A a \in p : WireGroup(n, a) = p
    BY <2>1, <2>2, WireGroupFacts
  <2>4. Joined(n, p)
    <3> SUFFICES ASSUME NEW S \in SUBSET p, S # {}, \A a \in S : ConnectedWires(n, a) \subseteq S
                 PROVE  S = p
      BY DEF Joined
    <3>1. PICK a \in S : TRUE
      OBVIOUS
    <3>2. a \in n.wires /\ WireGroup(n, a) = p /\ S \in SUBSET n.wires
      BY <2>3
    <3>3. p \subseteq S
      BY <3>2, WireGroupFacts
    <3> QED BY <3>3
  <2> QED BY <2>3, <2>4, <1>2
<1>5. ASSUME NEW p \in P, NEW q \in P, p \cap q # {} PROVE p = q
  <2>1. PICK a \in W, b \in W : p = WireGroup(n, a) /\ q = WireGroup(n, b)
    OBVIOUS
  <2>2. PICK c : c \in p /\ c \in q
    BY <1>5
  <2>3. WireGroup(n, c) = p /\ WireGroup(n, c) = q
    BY <2>1, <2>2, <1>2, WireGroupFacts
  <2> QED BY <2>3
<1>6. \A w \in W : WireGroup(n, w) \in P /\ w \in WireGroup(n, w)
  BY <1>2, WireGroupFacts
<1> QED BY <1>1, <1>3, <1>4, <1>5, <1>6 DEF NetPieces, W

\* The slot of each piece: one keeps the slot there was, the others get the ones
\* after the last.
Slots(P, kept, slot, old, last, slots) ==
    /\ kept \in P /\ slot[kept] = old /\ slots \in Nat /\ last \in Nat /\ last <= slots
    /\ \A p \in P \ {kept} : slot[p] \in (last + 1)..slots
    /\ \A p, q \in P : slot[p] = slot[q] => p = q
    /\ \A i \in (last + 1)..slots : \E p \in P : p # kept /\ slot[p] = i

\* New IDs make such slots.
LEMMA NewSlots ==
    ASSUME NEW P, IsFiniteSet(P), NEW kept \in P, NEW last \in Nat, NEW old \in 1..last,
           NEW ids \in NewIds(P \ {kept}, last)
    PROVE  /\ Slots(P, kept, [p \in P |-> IF p = kept THEN old ELSE ids[p]], old, last,
                    last + Cardinality(P \ {kept}))
           /\ DOMAIN ids = P \ {kept}
           /\ Range(ids) = (last + 1)..(last + Cardinality(P \ {kept}))
<1> DEFINE others == P \ {kept}
           k == Cardinality(others)
           slot == [p \in P |-> IF p = kept THEN old ELSE ids[p]]
<1>1. k \in Nat
  <2>1. IsFiniteSet(others)
    BY FS_Difference
  <2> HIDE DEF others
  <2> QED BY <2>1, FS_CardinalityType
<1>2. /\ ids \in [others -> (last + 1)..(last + k)]
      /\ \A p, q \in others : ids[p] = ids[q] => p = q
      /\ \A i \in (last + 1)..(last + k) : \E p \in others : ids[p] = i
  BY DEF NewIds, Bijection, Injection, IsInjective, Surjection
<1> HIDE DEF k
<1>3. \A i \in (last + 1)..(last + k) : i # old
  BY <1>1
<1>4. last + k \in Nat /\ last <= last + k
  BY <1>1
<1> DEFINE high == (last + 1)..(last + k)
<1> HIDE DEF high
<1>5. slot[kept] = old /\ \A p \in others : slot[p] = ids[p] /\ slot[p] \in high
  BY <1>2 DEF high
<1>6. \A p, q \in P : slot[p] = slot[q] => p = q
  BY <1>2, <1>3, <1>5 DEF high
<1>7. \A i \in high : \E p \in P : p # kept /\ slot[p] = i
  BY <1>2, <1>5 DEF high
<1>8. Slots(P, kept, slot, old, last, last + k)
  <2> HIDE DEF slot
  <2> QED BY <1>4, <1>5, <1>6, <1>7 DEF Slots, high
<1>9. Range(ids) = high
  <2>1. DOMAIN ids = others /\ Range(ids) = {ids[p] : p \in others}
    BY <1>2 DEF Range
  <2> QED BY <2>1, <1>2 DEF high
<1> QED BY <1>2, <1>8, <1>9 DEF high, k

\* The nets after one of them has come apart into pieces.
NetSplit(n, t, net, P, slot, slots, u, nets) ==
    /\ TopologyRecord(u)
    /\ u.islands = t.islands /\ u.islandSlots = t.islandSlots
    /\ u.componentIsland = t.componentIsland /\ u.invalidation = t.invalidation
    /\ u.netSlots = slots /\ nets = {slot[p] : p \in P}
    /\ IsFunction(u.nets) /\ DOMAIN u.nets = DOMAIN t.nets \cup nets
    /\ \A p \in P : u.nets[slot[p]] = [wires |-> p, components |-> Incidences(n, p)]
    /\ \A i \in DOMAIN t.nets \ {net} : u.nets[i] = t.nets[i]
    /\ IsFunction(u.wireNet) /\ DOMAIN u.wireNet = n.wires
    /\ \A p \in P : \A w \in p : u.wireNet[w] = slot[p]
    /\ \A w \in n.wires \ WiresAt(t, n, net) : u.wireNet[w] = t.wireNet[w]
    /\ IsFunction(u.netIsland) /\ DOMAIN u.netIsland = 1..slots
    /\ \A p \in P : u.netIsland[slot[p]] = t.netIsland[net]
    /\ \A i \in 1..t.netSlots : u.netIsland[i] = t.netIsland[i]

\* The nets after the last wire of one of them is gone.
NetGone(t, net, u, nets) ==
    /\ TopologyRecord(u) /\ nets = {}
    /\ u.islands = t.islands /\ u.islandSlots = t.islandSlots
    /\ u.componentIsland = t.componentIsland /\ u.invalidation = t.invalidation
    /\ u.netSlots = t.netSlots /\ u.wireNet = t.wireNet
    /\ u.nets = Without(t.nets, net)
    /\ u.netIsland = [t.netIsland EXCEPT ![net] = NoIsland]

SlotsOfNets(t) == IsFunction(t.netIsland) /\ DOMAIN t.netIsland = 1..t.netSlots

\* What repair_net does, by the pieces it finds.
LEMMA RepairNetCases ==
    ASSUME NEW n, NetworkOK(n), NEW t, TopologyRecord(t), NEW net, WiresKnown(n, t, net),
           NetsOK(n, t, {net}), SlotsOfNets(t), NEW r \in RepairNet(t, n, net)
    PROVE  \/ WiresAt(t, n, net) = {} /\ NetGone(t, net, r.topology, r.nets)
           \/ \E P, kept, slot, slots :
                 /\ NetPieces(n, t, net, P) /\ Slots(P, kept, slot, net, t.netSlots, slots)
                 /\ NetSplit(n, t, net, P, slot, slots, r.topology, r.nets)
<1> DEFINE pieces == WirePieces(t, n, net)
           largest == {p \in pieces : \A q \in pieces : Cardinality(p) >= Cardinality(q)}
           SlotAt(kept, ids, w) == CHOOSE i \in {net} \cup Range(ids) :
                            \E p \in pieces : w \in p /\ i = IF p = kept THEN net ELSE ids[p]
           walked == UNION pieces
           Split(kept, ids) ==
              [ topology |->
                    [t EXCEPT
                        !.wireNet = [w \in DOMAIN @ |-> IF w \in walked THEN SlotAt(kept, ids, w) ELSE @[w]],
                        !.nets = [i \in DOMAIN @ \cup Range(ids) |->
                            IF i \in {net} \cup Range(ids)
                            THEN LET wires == {w \in walked : SlotAt(kept, ids, w) = i} IN
                                 [wires |-> wires, components |-> Incidences(n, wires)]
                            ELSE @[i]],
                        !.netIsland = [i \in DOMAIN @ \cup Range(ids) |->
                            IF i \in Range(ids) THEN @[net] ELSE @[i]],
                        !.netSlots = @ + Cardinality(pieces \ {kept})],
                nets |-> {net} \cup Range(ids) ]
           Nothing == [ topology |-> [t EXCEPT !.nets = Without(@, net), !.netIsland[net] = NoIsland],
                        nets |-> {} ]
<1>1. NetPieces(n, t, net, pieces)
  BY WirePiecesFacts
<1>2. \/ pieces = {} /\ r = Nothing
      \/ \E kept \in pieces : \E ids \in NewIds(pieces \ {kept}, t.netSlots) : r = Split(kept, ids)
  <2>1. RepairNet(t, n, net) =
          IF pieces = {} THEN {Nothing}
          ELSE UNION {{Split(kept, ids) : ids \in NewIds(pieces \ {kept}, t.netSlots)} : kept \in largest}
    BY Zenon DEF RepairNet
  <2>2. largest \subseteq pieces
    OBVIOUS
  <2> HIDE DEF pieces, largest, Split, Nothing
  <2> QED BY <2>1, <2>2
<1>3. CASE pieces = {} /\ r = Nothing
  <2>1. WiresAt(t, n, net) = {}
    BY <1>1, <1>3 DEF NetPieces
  <2>2. r.nets = {} /\ r.topology = [t EXCEPT !.nets = Without(@, net), !.netIsland[net] = NoIsland]
    BY <1>3
  <2>3. NetGone(t, net, r.topology, r.nets)
    BY <2>2 DEF TopologyRecord, NetGone
  <2> QED BY <2>1, <2>3
<1>4. ASSUME NEW kept \in pieces, NEW ids \in NewIds(pieces \ {kept}, t.netSlots), r = Split(kept, ids)
      PROVE  \E slot, slots :
                 /\ Slots(pieces, kept, slot, net, t.netSlots, slots)
                 /\ NetSplit(n, t, net, pieces, slot, slots, r.topology, r.nets)
  <2> DEFINE slot == [p \in pieces |-> IF p = kept THEN net ELSE ids[p]]
             slots == t.netSlots + Cardinality(pieces \ {kept})
             new == Range(ids)
             At(w) == SlotAt(kept, ids, w)
             nets == [i \in DOMAIN t.nets \cup new |->
                        IF i \in {net} \cup new
                        THEN [wires |-> {w \in walked : At(w) = i},
                              components |-> Incidences(n, {w \in walked : At(w) = i})]
                        ELSE t.nets[i]]
             netIsland == [i \in DOMAIN t.netIsland \cup new |->
                             IF i \in new THEN t.netIsland[net] ELSE t.netIsland[i]]
             wireNet == [w \in DOMAIN t.wireNet |-> IF w \in walked THEN At(w) ELSE t.wireNet[w]]
             u == r.topology
  <2>1. t.netSlots \in Nat /\ net \in 1..t.netSlots /\ net \in DOMAIN t.nets
        /\ DOMAIN t.nets \subseteq 1..t.netSlots /\ DOMAIN t.wireNet = n.wires
    BY DEF NetsOK, WiresKnown
  <2>2. /\ Slots(pieces, kept, slot, net, t.netSlots, slots)
        /\ DOMAIN ids = pieces \ {kept} /\ new = (t.netSlots + 1)..slots
    <3>1. IsFiniteSet(pieces)
      BY <1>1 DEF NetPieces
    <3> HIDE DEF pieces
    <3> QED BY <3>1, <2>1, NewSlots
  <2>3. \A p \in pieces : slot[p] = IF p = kept THEN net ELSE ids[p]
    OBVIOUS
  <2>4. {net} \cup new = {slot[p] : p \in pieces}
    <3> HIDE DEF pieces, slot
    <3> QED BY <2>2, <2>3 DEF Range
  <2>5. ASSUME NEW p \in pieces, NEW w \in p PROVE At(w) = slot[p]
    <3>1. slot[p] \in {net} \cup new
      BY <2>4
    <3>2. \A q \in pieces : w \in q => q = p
      BY <1>1 DEF NetPieces
    <3>3. \A i : (\E q \in pieces : w \in q /\ i = IF q = kept THEN net ELSE ids[q]) <=> i = slot[p]
      <4> HIDE DEF pieces, slot
      <4> QED BY <2>3, <3>2
    <3>4. At(w) = CHOOSE i \in {net} \cup new : i = slot[p]
      <4> HIDE DEF pieces, slot, new
      <4> QED BY <3>3
    <3> HIDE DEF slot, new, At
    <3> QED BY <3>1, <3>4
  <2>6. walked = WiresAt(t, n, net)
    <3> HIDE DEF pieces
    <3> QED BY <1>1 DEF NetPieces
  <2>7. ASSUME NEW p \in pieces PROVE {w \in walked : At(w) = slot[p]} = p
    <3>1. p \subseteq walked
      OBVIOUS
    <3>2. ASSUME NEW w \in walked, At(w) = slot[p] PROVE w \in p
      <4>1. PICK q \in pieces : w \in q
        OBVIOUS
      <4>2. slot[q] = slot[p]
        BY <3>2, <4>1, <2>5
      <4>3. q = p
        <5> HIDE DEF pieces, slot, slots
        <5> QED BY <4>2, <2>2 DEF Slots
      <4> QED BY <4>1, <4>3
    <3> HIDE DEF walked, At, slot
    <3> QED BY <3>1, <3>2, <2>5
  <2>8. r.nets = {net} \cup new
        /\ u = [t EXCEPT !.wireNet = wireNet, !.nets = nets, !.netIsland = netIsland, !.netSlots = slots]
    BY <1>4, Zenon
  <2> HIDE DEF At, slot, slots, walked, pieces
  <2>9. /\ IsFunction(nets) /\ DOMAIN nets = DOMAIN t.nets \cup {slot[p] : p \in pieces}
        /\ \A p \in pieces : nets[slot[p]] = [wires |-> p, components |-> Incidences(n, p)]
        /\ \A i \in DOMAIN t.nets \ {net} : nets[i] = t.nets[i]
    <3>1. DOMAIN nets = DOMAIN t.nets \cup {slot[p] : p \in pieces}
      BY <2>1, <2>4
    <3>2. IsFunction(nets)
      BY DEF IsFunction
    <3>3. ASSUME NEW p \in pieces
          PROVE  nets[slot[p]] = [wires |-> p, components |-> Incidences(n, p)]
      <4>1. slot[p] \in {net} \cup new /\ slot[p] \in DOMAIN t.nets \cup new
        BY <2>1, <2>4
      <4> HIDE DEF new
      <4> QED BY <4>1, <2>7
    <3>4. ASSUME NEW i \in DOMAIN t.nets \ {net} PROVE nets[i] = t.nets[i]
      <4>1. i \notin new
        BY <2>1, <2>2
      <4> HIDE DEF new
      <4> QED BY <4>1
    <3> QED BY <3>1, <3>2, <3>3, <3>4
  <2>10. /\ IsFunction(wireNet) /\ DOMAIN wireNet = n.wires
         /\ \A p \in pieces : \A w \in p : wireNet[w] = slot[p]
         /\ \A w \in n.wires \ WiresAt(t, n, net) : wireNet[w] = t.wireNet[w]
    <3>1. \A p \in pieces : \A w \in p : w \in walked /\ w \in n.wires
      BY <1>1, <2>6 DEF NetPieces, WiresAt
    <3> QED BY <3>1, <2>1, <2>5, <2>6 DEF IsFunction
  <2>11. /\ IsFunction(netIsland) /\ DOMAIN netIsland = 1..slots
         /\ \A p \in pieces : netIsland[slot[p]] = t.netIsland[net]
         /\ \A i \in 1..t.netSlots : netIsland[i] = t.netIsland[i]
    <3>1. DOMAIN t.netIsland = 1..t.netSlots
      BY DEF SlotsOfNets
    <3>2. slots \in Nat /\ t.netSlots <= slots
      BY <2>2 DEF Slots
    <3>3. (1..t.netSlots) \cup new = 1..slots /\ \A i \in 1..t.netSlots : i \notin new
      BY <3>2, <2>1, <2>2
    <3>4. \A p \in pieces : slot[p] = net \/ slot[p] \in new
      BY <2>4
    <3> HIDE DEF new
    <3>5. \A i \in 1..t.netSlots : netIsland[i] = t.netIsland[i]
      BY <3>1, <3>3
    <3>6. \A i \in new : netIsland[i] = t.netIsland[net]
      OBVIOUS
    <3> QED BY <3>1, <3>3, <3>4, <3>5, <3>6, <2>1 DEF IsFunction
  <2> HIDE DEF nets, wireNet, netIsland, u, new
  <2>12. /\ TopologyRecord(u)
         /\ u.nets = nets /\ u.wireNet = wireNet /\ u.netIsland = netIsland /\ u.netSlots = slots
         /\ u.islands = t.islands /\ u.islandSlots = t.islandSlots
         /\ u.componentIsland = t.componentIsland /\ u.invalidation = t.invalidation
    BY <2>8 DEF TopologyRecord
  <2>13. NetSplit(n, t, net, pieces, slot, slots, u, r.nets)
    BY <2>4, <2>8, <2>9, <2>10, <2>11, <2>12 DEF NetSplit
  <2> QED BY <2>2, <2>13 DEF u
<1> QED BY <1>1, <1>2, <1>3, <1>4

\* The nets after one of them was repaired: they are groups of the network
\* again, and the ones that come out of it are in the island it was in.
NetRepaired(n, t, net, u, nets) ==
    /\ TopologyRecord(u)
    /\ u.islands = t.islands /\ u.islandSlots = t.islandSlots
    /\ u.componentIsland = t.componentIsland /\ u.invalidation = t.invalidation
    /\ NetsOK(n, u, {}) /\ SlotsOfNets(u) /\ t.netSlots <= u.netSlots
    /\ IsFiniteSet(nets) /\ nets \subseteq DOMAIN u.nets
    /\ WiresAt(t, n, net) # {} => net \in nets
    /\ \A i \in nets : i = net \/ i \notin 1..t.netSlots
    /\ \A w \in n.wires : IF t.wireNet[w] = net THEN u.wireNet[w] \in nets
                          ELSE u.wireNet[w] = t.wireNet[w]
    /\ \A i \in nets : u.netIsland[i] = t.netIsland[net]
    /\ \A i \in 1..u.netSlots :
          i \notin nets => /\ i \in 1..t.netSlots
                           /\ u.netIsland[i] = IF i = net THEN NoIsland ELSE t.netIsland[i]

\* The repair of a net that has lost its last wire.
LEMMA NetGoneRepaired ==
    ASSUME NEW n, NetworkOK(n), NEW t, NEW net \in DOMAIN t.nets,
           NetsOK(n, t, {net}), SlotsOfNets(t), WiresAt(t, n, net) = {},
           NEW u, NEW nets, NetGone(t, net, u, nets)
    PROVE  NetRepaired(n, t, net, u, nets)
<1>1. /\ t.netSlots \in Nat /\ IsFunction(t.nets) /\ DOMAIN t.nets \subseteq 1..t.netSlots
      /\ t.wireNet \in [n.wires -> DOMAIN t.nets]
      /\ \A a, b \in n.wires : {a, b} \in n.connections => t.wireNet[a] = t.wireNet[b]
      /\ \A i \in DOMAIN t.nets \ {net} :
            /\ t.nets[i] = [wires |-> WiresAt(t, n, i),
                            components |-> Incidences(n, WiresAt(t, n, i))]
            /\ WiresAt(t, n, i) # {}
            /\ Joined(n, WiresAt(t, n, i))
  BY DEF NetsOK
<1>2. /\ IsFunction(u.nets) /\ DOMAIN u.nets = DOMAIN t.nets \ {net}
      /\ \A i \in DOMAIN u.nets : u.nets[i] = t.nets[i]
  BY DEF NetGone, Without, Restrict, IsFunction
<1>3. \A i : WiresAt(u, n, i) = WiresAt(t, n, i)
  BY DEF NetGone, WiresAt
<1>4. \A w \in n.wires : t.wireNet[w] # net
  BY DEF WiresAt
<1>5. NetsOK(n, u, {})
  <2>1. u.wireNet \in [n.wires -> DOMAIN u.nets]
    BY <1>1, <1>2, <1>4 DEF NetGone
  <2> QED BY <2>1, <1>1, <1>2, <1>3 DEF NetsOK, NetGone
<1>6. SlotsOfNets(u) /\ \A i \in 1..u.netSlots : u.netIsland[i] = IF i = net THEN NoIsland ELSE t.netIsland[i]
  BY <1>1 DEF SlotsOfNets, NetGone, IsFunction
<1> QED BY <1>1, <1>4, <1>5, <1>6, FS_EmptySet DEF NetRepaired, NetGone

\* The repair of a net that is walked in pieces.
LEMMA NetSplitRepaired ==
    ASSUME NEW n, NetworkOK(n), NEW t, NEW net \in DOMAIN t.nets,
           NetsOK(n, t, {net}), SlotsOfNets(t),
           NEW P, NEW kept, NEW slot, NEW slots, NetPieces(n, t, net, P),
           Slots(P, kept, slot, net, t.netSlots, slots),
           NEW u, NEW nets, NetSplit(n, t, net, P, slot, slots, u, nets)
    PROVE  NetRepaired(n, t, net, u, nets)
<1>1. /\ t.netSlots \in Nat /\ IsFunction(t.nets) /\ DOMAIN t.nets \subseteq 1..t.netSlots
      /\ t.wireNet \in [n.wires -> DOMAIN t.nets]
      /\ \A a, b \in n.wires : {a, b} \in n.connections => t.wireNet[a] = t.wireNet[b]
      /\ \A i \in DOMAIN t.nets \ {net} :
            /\ t.nets[i] = [wires |-> WiresAt(t, n, i),
                            components |-> Incidences(n, WiresAt(t, n, i))]
            /\ WiresAt(t, n, i) # {}
            /\ Joined(n, WiresAt(t, n, i))
  BY DEF NetsOK
<1>2. /\ IsFiniteSet(P)
      /\ \A p \in P : /\ p \in SUBSET WiresAt(t, n, net) /\ p # {} /\ Joined(n, p)
                      /\ \A a \in p : ConnectedWires(n, a) \subseteq p
      /\ \A w \in WiresAt(t, n, net) : \E p \in P : w \in p
  BY DEF NetPieces
<1>3. /\ kept \in P /\ slot[kept] = net /\ slots \in Nat /\ t.netSlots <= slots
      /\ \A p \in P : slot[p] = net \/ slot[p] \in (t.netSlots + 1)..slots
      /\ \A p, q \in P : slot[p] = slot[q] => p = q
      /\ \A i \in (t.netSlots + 1)..slots : \E p \in P : slot[p] = i
  BY DEF Slots
<1>4. /\ u.netSlots = slots /\ nets = {slot[p] : p \in P}
      /\ IsFunction(u.nets) /\ DOMAIN u.nets = DOMAIN t.nets \cup nets
      /\ \A p \in P : u.nets[slot[p]] = [wires |-> p, components |-> Incidences(n, p)]
      /\ \A i \in DOMAIN t.nets \ {net} : u.nets[i] = t.nets[i]
      /\ IsFunction(u.wireNet) /\ DOMAIN u.wireNet = n.wires
      /\ \A p \in P : \A w \in p : u.wireNet[w] = slot[p]
      /\ \A w \in n.wires : t.wireNet[w] # net => u.wireNet[w] = t.wireNet[w]
      /\ IsFunction(u.netIsland) /\ DOMAIN u.netIsland = 1..slots
      /\ \A p \in P : u.netIsland[slot[p]] = t.netIsland[net]
      /\ \A i \in 1..t.netSlots : u.netIsland[i] = t.netIsland[i]
  BY DEF NetSplit, WiresAt
<1>5. /\ net \in nets /\ net \in 1..t.netSlots /\ nets \subseteq 1..slots
      /\ \A i \in nets : i = net \/ i \notin 1..t.netSlots
      /\ \A i \in 1..slots : i \notin nets => i \in 1..t.netSlots
  <2>1. \A i \in (t.netSlots + 1)..slots : i \in 1..slots /\ i \notin 1..t.netSlots
    BY <1>1
  <2>2. \A i \in 1..t.netSlots : i \in 1..slots
    BY <1>1, <1>3
  <2>3. \A i \in 1..slots : i \in 1..t.netSlots \/ i \in (t.netSlots + 1)..slots
    BY <1>1, <1>3
  <2>4. net \in 1..t.netSlots
    BY <1>1
  <2>5. \A i \in (t.netSlots + 1)..slots : i \in nets
    BY <1>3, <1>4
  <2>6. \A i \in nets : i = net \/ i \in (t.netSlots + 1)..slots
    BY <1>3, <1>4
  <2> QED BY <2>1, <2>2, <2>3, <2>4, <2>5, <2>6, <1>3, <1>4
<1>6. IsFiniteSet(nets)
  <2>1. IsFiniteSet(1..slots)
    <3>1. 1 \in Int /\ slots \in Int
      BY <1>3
    <3> QED BY <3>1, FS_Interval
  <2> QED BY <2>1, <1>5, FS_Subset
<1>7. \A w \in n.wires : IF t.wireNet[w] = net THEN u.wireNet[w] \in nets
                         ELSE u.wireNet[w] = t.wireNet[w]
  <2> TAKE w \in n.wires
  <2>1. CASE t.wireNet[w] = net
    <3>1. PICK p \in P : w \in p
      BY <2>1, <1>2 DEF WiresAt
    <3> QED BY <3>1, <2>1, <1>4
  <2>2. CASE t.wireNet[w] # net
    BY <2>2, <1>4
  <2> QED BY <2>1, <2>2
<1>8. \A p \in P : WiresAt(u, n, slot[p]) = p
  <2> TAKE p \in P
  <2>1. \A w \in p : w \in n.wires /\ u.wireNet[w] = slot[p]
    BY <1>2, <1>4 DEF WiresAt
  <2>2. ASSUME NEW w \in n.wires, u.wireNet[w] = slot[p] PROVE w \in p
    <3>1. t.wireNet[w] = net
      <4> SUFFICES ASSUME t.wireNet[w] # net PROVE FALSE
        OBVIOUS
      <4>1. u.wireNet[w] = t.wireNet[w] /\ t.wireNet[w] \in 1..t.netSlots
        BY <1>1, <1>4
      <4>2. slot[p] \in nets
        BY <1>4
      <4> QED BY <4>1, <4>2, <2>2, <1>5
    <3>2. PICK q \in P : w \in q
      BY <3>1, <1>2 DEF WiresAt
    <3>3. slot[q] = slot[p]
      BY <3>2, <2>2, <1>4
    <3> QED BY <3>2, <3>3, <1>3
  <2> QED BY <2>1, <2>2 DEF WiresAt
<1>9. \A i \in DOMAIN t.nets \ {net} : i \notin nets /\ WiresAt(u, n, i) = WiresAt(t, n, i)
  <2> TAKE i \in DOMAIN t.nets \ {net}
  <2>1. i \notin nets
    BY <1>1, <1>5
  <2>2. \A w \in n.wires : u.wireNet[w] = i <=> t.wireNet[w] = i
    BY <2>1, <1>7
  <2> QED BY <2>1, <2>2 DEF WiresAt
<1>10. u.wireNet \in [n.wires -> DOMAIN u.nets]
  <2>1. \A w \in n.wires : u.wireNet[w] \in DOMAIN u.nets
    BY <1>1, <1>4, <1>7
  <2> QED BY <2>1, <1>4 DEF IsFunction
<1>11. \A a, b \in n.wires : {a, b} \in n.connections => u.wireNet[a] = u.wireNet[b]
  <2> SUFFICES ASSUME NEW a \in n.wires, NEW b \in n.wires, {a, b} \in n.connections
               PROVE  u.wireNet[a] = u.wireNet[b]
    OBVIOUS
  <2>1. t.wireNet[a] = t.wireNet[b]
    BY <1>1
  <2>2. CASE t.wireNet[a] = net
    <3>1. PICK p \in P : a \in p
      BY <2>2, <1>2 DEF WiresAt
    <3>2. b \in ConnectedWires(n, a)
      <4>1. {b, a} = {a, b}
        OBVIOUS
      <4> QED BY <4>1 DEF ConnectedWires
    <3> QED BY <3>1, <3>2, <1>2, <1>4
  <2>3. CASE t.wireNet[a] # net
    BY <2>1, <2>3, <1>4
  <2> QED BY <2>2, <2>3
<1>12. ASSUME NEW i \in DOMAIN u.nets
       PROVE  /\ u.nets[i] = [wires |-> WiresAt(u, n, i),
                              components |-> Incidences(n, WiresAt(u, n, i))]
              /\ WiresAt(u, n, i) # {}
              /\ Joined(n, WiresAt(u, n, i))
  <2>1. CASE i \in nets
    <3>1. PICK p \in P : i = slot[p]
      BY <2>1, <1>4
    <3> QED BY <3>1, <1>2, <1>4, <1>8
  <2>2. CASE i \in DOMAIN t.nets \ {net}
    BY <2>2, <1>1, <1>4, <1>9
  <2> QED BY <2>1, <2>2, <1>4, <1>5
<1>13. NetsOK(n, u, {})
  <2>1. DOMAIN u.nets \subseteq 1..u.netSlots
    <3>1. 1..t.netSlots \subseteq 1..slots
      BY <1>1, <1>3
    <3> QED BY <3>1, <1>1, <1>4, <1>5
  <2> QED BY <2>1, <1>3, <1>4, <1>10, <1>11, <1>12 DEF NetsOK
<1>14. \A i \in nets : u.netIsland[i] = t.netIsland[net]
  BY <1>4
<1>15. /\ TopologyRecord(u)
       /\ u.islands = t.islands /\ u.islandSlots = t.islandSlots
       /\ u.componentIsland = t.componentIsland /\ u.invalidation = t.invalidation
  BY DEF NetSplit
<1>16. \A i \in 1..u.netSlots :
          i \notin nets => /\ i \in 1..t.netSlots
                           /\ u.netIsland[i] = IF i = net THEN NoIsland ELSE t.netIsland[i]
  BY <1>4, <1>5
<1> QED BY <1>3, <1>4, <1>5, <1>6, <1>7, <1>13, <1>14, <1>15, <1>16 DEF NetRepaired, SlotsOfNets

\* Repairing a net makes all nets groups of the network again.
LEMMA RepairNetFacts ==
    ASSUME NEW n, NetworkOK(n), NEW t, TopologyRecord(t), NEW net, WiresKnown(n, t, net),
           NetsOK(n, t, {net}), SlotsOfNets(t), NEW r \in RepairNet(t, n, net)
    PROVE  NetRepaired(n, t, net, r.topology, r.nets)
<1>1. net \in DOMAIN t.nets
  BY DEF WiresKnown
<1>2. CASE WiresAt(t, n, net) = {} /\ NetGone(t, net, r.topology, r.nets)
  BY <1>1, <1>2, NetGoneRepaired
<1>3. ASSUME NEW P, NEW kept, NEW slot, NEW slots,
             NetPieces(n, t, net, P), Slots(P, kept, slot, net, t.netSlots, slots),
             NetSplit(n, t, net, P, slot, slots, r.topology, r.nets)
      PROVE  NetRepaired(n, t, net, r.topology, r.nets)
  BY <1>1, <1>3, NetSplitRepaired
<1> QED BY <1>2, <1>3, RepairNetCases

-----------------------------------------------------------------------------
(* walk_island_component.                                                  *)

\* Current does not leave these nets and components.
ClosedPair(n, t, nets, components) ==
    \A x \in DOMAIN n.attached :
        NetAt(t, n, x) \in nets <=> TerminalComponent(n, x) \in components

\* Nets and components of which no part is closed by itself.
IsPiece(n, t, p) ==
    /\ p.nets \in SUBSET DOMAIN t.nets /\ p.components \in SUBSET Components(n)
    /\ p = [nets |-> p.nets, components |-> p.components]
    /\ ClosedPair(n, t, p.nets, p.components)
    /\ \A N \in SUBSET DOMAIN t.nets : \A C \in SUBSET Components(n) :
          ClosedPair(n, t, N, C) /\ (N \cap p.nets # {} \/ C \cap p.components # {})
              => p.nets \subseteq N /\ p.components \subseteq C

IslandVertices(n, t) == ({"net"} \X DOMAIN t.nets) \cup ({"component"} \X Components(n))
IslandNeighbours(n, t, v) ==
    IF v[1] = "net" THEN {<<"component", c>> : c \in DOMAIN t.nets[v[2]].components}
                    ELSE {<<"net", i>> : i \in NetsOf(t, n, v[2])}
IslandGraph(n, t) == [v \in IslandVertices(n, t) |-> IslandNeighbours(n, t, v)]

\* The neighbours of a net are the components of the terminals on it.
LEMMA NetNeighbours ==
    ASSUME NEW n, NetworkOK(n), NEW t, NetsOK(n, t, {}), NEW i \in DOMAIN t.nets
    PROVE  DOMAIN t.nets[i].components =
              {TerminalComponent(n, x) : x \in {y \in DOMAIN n.attached : NetAt(t, n, y) = i}}
<1>1. t.nets[i].components = Incidences(n, WiresAt(t, n, i))
  <2> DEFINE wires == WiresAt(t, n, i)
             components == Incidences(n, WiresAt(t, n, i))
  <2>1. t.nets[i] = [wires |-> wires, components |-> components]
    BY DEF NetsOK
  <2> HIDE DEF wires, components
  <2>2. t.nets[i].components = components
    BY <2>1
  <2> QED BY <2>2 DEF components
<1>2. DOMAIN Incidences(n, WiresAt(t, n, i)) =
        {TerminalComponent(n, x) : x \in TerminalsOn(n, WiresAt(t, n, i))}
  BY DEF Incidences
<1>3. TerminalsOn(n, WiresAt(t, n, i)) = {y \in DOMAIN n.attached : NetAt(t, n, y) = i}
  BY DEF TerminalsOn, WiresAt, NetAt, NetworkOK
<1> QED BY <1>1, <1>2, <1>3

\* Edges of the graph are attached terminals.
LEMMA IslandEdges ==
    ASSUME NEW n, NetworkOK(n), NEW t, NetsOK(n, t, {})
    PROVE  /\ \A i \in DOMAIN t.nets : <<"net", i>> \in IslandVertices(n, t)
                /\ \A v : v \in IslandGraph(n, t)[<<"net", i>>] <=>
                      \E x \in DOMAIN n.attached :
                          NetAt(t, n, x) = i /\ v = <<"component", TerminalComponent(n, x)>>
           /\ \A c \in Components(n) : <<"component", c>> \in IslandVertices(n, t)
                /\ \A v : v \in IslandGraph(n, t)[<<"component", c>>] <=>
                      \E x \in DOMAIN n.attached :
                          TerminalComponent(n, x) = c /\ v = <<"net", NetAt(t, n, x)>>
<1>1. ASSUME NEW i \in DOMAIN t.nets
      PROVE  <<"net", i>> \in IslandVertices(n, t)
                /\ \A v : v \in IslandGraph(n, t)[<<"net", i>>] <=>
                      \E x \in DOMAIN n.attached :
                          NetAt(t, n, x) = i /\ v = <<"component", TerminalComponent(n, x)>>
  <2>1. <<"net", i>> \in IslandVertices(n, t)
    BY DEF IslandVertices
  <2>2. IslandGraph(n, t)[<<"net", i>>] = {<<"component", c>> : c \in DOMAIN t.nets[i].components}
    BY <2>1 DEF IslandGraph, IslandNeighbours
  <2>3. DOMAIN t.nets[i].components =
              {TerminalComponent(n, x) : x \in {y \in DOMAIN n.attached : NetAt(t, n, y) = i}}
    BY NetNeighbours
  <2> QED BY <2>1, <2>2, <2>3
<1>2. ASSUME NEW c \in Components(n)
      PROVE  <<"component", c>> \in IslandVertices(n, t)
                /\ \A v : v \in IslandGraph(n, t)[<<"component", c>>] <=>
                      \E x \in DOMAIN n.attached :
                          TerminalComponent(n, x) = c /\ v = <<"net", NetAt(t, n, x)>>
  <2>1. <<"component", c>> \in IslandVertices(n, t)
    BY DEF IslandVertices
  <2>2. IslandGraph(n, t)[<<"component", c>>] = {<<"net", i>> : i \in NetsOf(t, n, c)}
    BY <2>1 DEF IslandGraph, IslandNeighbours
  <2>3. NetsOf(t, n, c) = {NetAt(t, n, x) : x \in {y \in DOMAIN n.attached : TerminalComponent(n, y) = c}}
    BY DEF NetsOf, NetAt
  <2> QED BY <2>1, <2>2, <2>3
<1> QED BY <1>1, <1>2

\* The walk of an island can go back the way it came.
LEMMA IslandGraphFacts ==
    ASSUME NEW n, NetworkOK(n), NEW t, NetsOK(n, t, {})
    PROVE  /\ Graph(IslandVertices(n, t), IslandGraph(n, t))
           /\ Symmetric(IslandVertices(n, t), IslandGraph(n, t))
<1> DEFINE V == IslandVertices(n, t)
           next == IslandGraph(n, t)
<1>1. \A x \in DOMAIN n.attached :
        NetAt(t, n, x) \in DOMAIN t.nets /\ TerminalComponent(n, x) \in Components(n)
  BY TerminalFacts DEF NetAt, NetsOK, NetworkOK
<1>2. \A v \in V : (\E i \in DOMAIN t.nets : v = <<"net", i>>)
                    \/ (\E c \in Components(n) : v = <<"component", c>>)
  BY DEF IslandVertices
<1>3. IsFiniteSet(V)
  <2>1. IsFiniteSet(DOMAIN t.nets)
    <3>1. 1 \in Int /\ t.netSlots \in Int /\ DOMAIN t.nets \in SUBSET (1..t.netSlots)
      BY DEF NetsOK
    <3>2. IsFiniteSet(1..t.netSlots)
      BY <3>1, FS_Interval
    <3> QED BY <3>1, <3>2, FS_Subset
  <2>2. IsFiniteSet({"net"}) /\ IsFiniteSet({"component"})
    BY FS_Singleton
  <2>3. IsFiniteSet(Components(n))
    BY DEF NetworkOK
  <2>4. IsFiniteSet({"net"} \X DOMAIN t.nets)
    BY <2>1, <2>2, FS_Product
  <2>5. IsFiniteSet({"component"} \X Components(n))
    BY <2>2, <2>3, FS_Product
  <2> QED BY <2>4, <2>5, FS_Union DEF IslandVertices
<1>4. next \in [V -> SUBSET V]
  <2>1. ASSUME NEW v \in V, NEW w \in next[v] PROVE w \in V
    <3>1. CASE \E i \in DOMAIN t.nets : v = <<"net", i>>
      <4>1. PICK x \in DOMAIN n.attached : w = <<"component", TerminalComponent(n, x)>>
        BY <3>1, <2>1, IslandEdges
      <4> QED BY <4>1, <1>1 DEF IslandVertices
    <3>2. CASE \E c \in Components(n) : v = <<"component", c>>
      <4>1. PICK x \in DOMAIN n.attached : w = <<"net", NetAt(t, n, x)>>
        BY <3>2, <2>1, IslandEdges
      <4> QED BY <4>1, <1>1 DEF IslandVertices
    <3> QED BY <3>1, <3>2, <1>2
  <2>2. DOMAIN next = V /\ next = [v \in V |-> next[v]]
    BY DEF IslandGraph
  <2> HIDE DEF next, V
  <2> QED BY <2>1, <2>2
<1>5. ASSUME NEW v \in V, NEW w \in V, w \in next[v] PROVE v \in next[w]
  <2>1. CASE \E i \in DOMAIN t.nets : v = <<"net", i>>
    <3>1. PICK i \in DOMAIN t.nets : v = <<"net", i>>
      BY <2>1
    <3>2. PICK x \in DOMAIN n.attached : NetAt(t, n, x) = i /\ w = <<"component", TerminalComponent(n, x)>>
      BY <3>1, <1>5, IslandEdges
    <3> QED BY <3>1, <3>2, <1>1, IslandEdges
  <2>2. CASE \E c \in Components(n) : v = <<"component", c>>
    <3>1. PICK c \in Components(n) : v = <<"component", c>>
      BY <2>2
    <3>2. PICK x \in DOMAIN n.attached : TerminalComponent(n, x) = c /\ w = <<"net", NetAt(t, n, x)>>
      BY <3>1, <1>5, IslandEdges
    <3> QED BY <3>1, <3>2, <1>1, IslandEdges
  <2> QED BY <2>1, <2>2, <1>2
<1> QED BY <1>3, <1>4, <1>5 DEF Graph, Symmetric

\* What a walk over nets and components finds.
LEMMA IslandPieceFacts ==
    ASSUME NEW n, NetworkOK(n), NEW t, NetsOK(n, t, {}), NEW start \in IslandVertices(n, t)
    PROVE  /\ IsPiece(n, t, IslandPiece(t, n, start))
           /\ \A i \in DOMAIN t.nets : start = <<"net", i>> => i \in IslandPiece(t, n, start).nets
           /\ \A c \in Components(n) :
                 start = <<"component", c>> => c \in IslandPiece(t, n, start).components
<1> DEFINE V == IslandVertices(n, t)
           next == IslandGraph(n, t)
           R == Reached(start, next)
           p == IslandPiece(t, n, start)
<1>1. Graph(V, next) /\ Symmetric(V, next)
  BY IslandGraphFacts
<1>2. IsReached(V, next, start, R) /\ \A v \in R : Reached(v, next) = R
  BY <1>1, ReachedFacts, ReachedSymmetric
<1>3. p = [nets |-> {i \in DOMAIN t.nets : <<"net", i>> \in R},
           components |-> {c \in Components(n) : <<"component", c>> \in R}]
  BY Zenon DEF IslandPiece, IslandGraph, IslandNeighbours, IslandVertices
<1>4. start \in R /\ R \in SUBSET V /\ ClosedUnder(next, R)
  BY <1>2 DEF IsReached
<1>5. ASSUME NEW S \in SUBSET V, ClosedUnder(next, S), S \cap R # {} PROVE R \subseteq S
  <2>1. PICK v : v \in S /\ v \in R
    BY <1>5
  <2>2. v \in V /\ Reached(v, next) = R
    BY <2>1, <1>2, <1>4
  <2>3. IsReached(V, next, v, R)
    BY <2>2, <1>1, ReachedFacts
  <2> QED BY <2>1, <2>3, <1>5 DEF IsReached
<1> HIDE DEF R, next, p
<1>6. \A x \in DOMAIN n.attached :
        NetAt(t, n, x) \in DOMAIN t.nets /\ TerminalComponent(n, x) \in Components(n)
  BY TerminalFacts DEF NetAt, NetsOK, NetworkOK
<1>7. /\ \A i \in DOMAIN t.nets : \A v : v \in next[<<"net", i>>] <=>
                      \E x \in DOMAIN n.attached :
                          NetAt(t, n, x) = i /\ v = <<"component", TerminalComponent(n, x)>>
      /\ \A c \in Components(n) : \A v : v \in next[<<"component", c>>] <=>
                      \E x \in DOMAIN n.attached :
                          TerminalComponent(n, x) = c /\ v = <<"net", NetAt(t, n, x)>>
  BY IslandEdges DEF next
<1>8. p.nets \in SUBSET DOMAIN t.nets /\ p.components \in SUBSET Components(n)
      /\ p = [nets |-> p.nets, components |-> p.components]
      /\ (\A i \in DOMAIN t.nets : i \in p.nets <=> <<"net", i>> \in R)
      /\ (\A c \in Components(n) : c \in p.components <=> <<"component", c>> \in R)
  BY <1>3
<1>9. ClosedPair(n, t, p.nets, p.components)
  <2> SUFFICES ASSUME NEW x \in DOMAIN n.attached
               PROVE  NetAt(t, n, x) \in p.nets <=> TerminalComponent(n, x) \in p.components
    BY DEF ClosedPair
  <2>1. <<"component", TerminalComponent(n, x)>> \in next[<<"net", NetAt(t, n, x)>>]
        /\ <<"net", NetAt(t, n, x)>> \in next[<<"component", TerminalComponent(n, x)>>]
    BY <1>6, <1>7
  <2>2. <<"net", NetAt(t, n, x)>> \in R <=> <<"component", TerminalComponent(n, x)>> \in R
    BY <2>1, <1>4 DEF ClosedUnder
  <2> QED BY <2>2, <1>6, <1>8
<1>10. ASSUME NEW N \in SUBSET DOMAIN t.nets, NEW C \in SUBSET Components(n), ClosedPair(n, t, N, C),
              N \cap p.nets # {} \/ C \cap p.components # {}
       PROVE  p.nets \subseteq N /\ p.components \subseteq C
  <2> DEFINE S == ({"net"} \X N) \cup ({"component"} \X C)
  <2>1. S \in SUBSET V
    BY DEF IslandVertices
  <2>2. /\ \A i : <<"net", i>> \in S <=> i \in N
        /\ \A c : <<"component", c>> \in S <=> c \in C
        /\ \A v \in S : (\E i \in N : v = <<"net", i>>) \/ (\E c \in C : v = <<"component", c>>)
    OBVIOUS
  <2> HIDE DEF S
  <2>3. ClosedUnder(next, S)
    <3> SUFFICES ASSUME NEW v \in S, NEW w \in next[v] PROVE w \in S
      BY DEF ClosedUnder
    <3>1. CASE \E i \in N : v = <<"net", i>>
      <4>1. PICK x \in DOMAIN n.attached :
                NetAt(t, n, x) \in N /\ w = <<"component", TerminalComponent(n, x)>>
        BY <3>1, <1>7
      <4>2. TerminalComponent(n, x) \in C
        BY <4>1, <1>10 DEF ClosedPair
      <4> QED BY <4>1, <4>2, <2>2
    <3>2. CASE \E c \in C : v = <<"component", c>>
      <4>1. PICK x \in DOMAIN n.attached :
                TerminalComponent(n, x) \in C /\ w = <<"net", NetAt(t, n, x)>>
        BY <3>2, <1>7
      <4>2. NetAt(t, n, x) \in N
        BY <4>1, <1>10 DEF ClosedPair
      <4> QED BY <4>1, <4>2, <2>2
    <3> QED BY <3>1, <3>2, <2>2
  <2>4. S \cap R # {}
    <3>1. CASE N \cap p.nets # {}
      <4>1. PICK i \in DOMAIN t.nets : i \in N /\ i \in p.nets
        BY <3>1
      <4>2. <<"net", i>> \in S /\ <<"net", i>> \in R
        BY <4>1, <2>2, <1>8
      <4> QED BY <4>2
    <3>2. CASE C \cap p.components # {}
      <4>1. PICK c \in Components(n) : c \in C /\ c \in p.components
        BY <3>2
      <4>2. <<"component", c>> \in S /\ <<"component", c>> \in R
        BY <4>1, <2>2, <1>8
      <4> QED BY <4>2
    <3> QED BY <3>1, <3>2, <1>10
  <2>5. R \subseteq S
    BY <1>5, <2>1, <2>3, <2>4
  <2>6. \A i \in p.nets : i \in N
    BY <2>2, <2>5, <1>8
  <2>7. \A c \in p.components : c \in C
    BY <2>2, <2>5, <1>8
  <2> QED BY <2>6, <2>7
<1>11. IsPiece(n, t, p)
  BY <1>8, <1>9, <1>10 DEF IsPiece
<1> QED BY <1>4, <1>8, <1>11 DEF p

-----------------------------------------------------------------------------
(* repair_island.                                                          *)

NetsIn(t, island) == {i \in DOMAIN t.nets : t.netIsland[i] = island}

\* The nets of the island that no terminal is on are all walked from.
Affected(n, t, island, affected) ==
    /\ affected \subseteq NetsIn(t, island)
    /\ \A i \in NetsIn(t, island) : i \in affected \/ \E x \in DOMAIN n.attached : NetAt(t, n, x) = i

\* The pieces with components that an island comes apart into.
IslandParts(n, t, island, P) ==
    /\ IsFiniteSet(P)
    /\ \A p \in P : /\ IsPiece(n, t, p) /\ p.components # {}
                    /\ p.components \subseteq t.islands[island] /\ p.nets \subseteq NetsIn(t, island)
    /\ \A p, q \in P : p.components \cap q.components # {} \/ p.nets \cap q.nets # {} => p = q
    /\ \A c \in t.islands[island] : \E p \in P : c \in p.components

\* The parts, and the nets of the island that are in none of them.
IslandWalked(n, t, island, P, bare) ==
    /\ IslandParts(n, t, island, P)
    /\ \A i : i \in bare <=> i \in NetsIn(t, island) /\ \A p \in P : i \notin p.nets
    /\ \A i \in bare : \A x \in DOMAIN n.attached : NetAt(t, n, x) # i

\* Pieces that have something in common are the same.
LEMMA SamePiece ==
    ASSUME NEW n, NEW t, NEW p, NEW q, IsPiece(n, t, p), IsPiece(n, t, q),
           p.components \cap q.components # {} \/ p.nets \cap q.nets # {}
    PROVE  p = q
<1>1. p.nets \subseteq q.nets /\ p.components \subseteq q.components
  BY DEF IsPiece
<1>2. q.nets \subseteq p.nets /\ q.components \subseteq p.components
  BY DEF IsPiece
<1>3. p.nets = q.nets /\ p.components = q.components
  BY <1>1, <1>2
<1>4. p = [nets |-> p.nets, components |-> p.components] /\ q = [nets |-> q.nets, components |-> q.components]
  BY DEF IsPiece
<1> QED BY <1>3, <1>4

\* A piece is in the island of any of its nets or components.
LEMMA PieceInIsland ==
    ASSUME NEW n, NetworkOK(n), NEW t, NetsOK(n, t, {}), IslandMembers(n, t),
           NEW open, NetIslands(n, t, open), NEW island \in DOMAIN t.islands,
           NEW p, IsPiece(n, t, p),
           p.components \cap t.islands[island] # {} \/ p.nets \cap NetsIn(t, island) # {}
    PROVE  p.components \subseteq t.islands[island] /\ p.nets \subseteq NetsIn(t, island)
<1>1. t.islands[island] \in SUBSET Components(n) /\ NetsIn(t, island) \in SUBSET DOMAIN t.nets
      /\ \A c \in Components(n) : c \in t.islands[island] <=> t.componentIsland[c] = island
  BY DEF IslandMembers, NetsIn
<1>2. ClosedPair(n, t, NetsIn(t, island), t.islands[island])
  <2> SUFFICES ASSUME NEW x \in DOMAIN n.attached
               PROVE  NetAt(t, n, x) \in NetsIn(t, island)
                        <=> TerminalComponent(n, x) \in t.islands[island]
    BY DEF ClosedPair
  <2>1. /\ TerminalComponent(n, x) \in Components(n) /\ NetAt(t, n, x) \in DOMAIN t.nets
        /\ t.netIsland[NetAt(t, n, x)] = t.componentIsland[TerminalComponent(n, x)]
    BY IslandFacts
  <2> QED BY <2>1, <1>1 DEF NetsIn
<1> QED BY <1>1, <1>2 DEF IsPiece

\* What the walks of a repair of an island find.
LEMMA IslandPiecesFacts ==
    ASSUME NEW n, NetworkOK(n), NEW t, NetsOK(n, t, {}), IslandMembers(n, t),
           NEW open, NetIslands(n, t, open), NEW island \in DOMAIN t.islands,
           NEW affected, Affected(n, t, island, affected),
           NEW P, P = {p \in IslandPieces(t, n, island, affected) : p.components # {}},
           NEW bare, bare = UNION {p.nets : p \in IslandPieces(t, n, island, affected) \ P}
    PROVE  IslandWalked(n, t, island, P, bare)
<1> DEFINE C == t.islands[island]
           N == NetsIn(t, island)
           all == IslandPieces(t, n, island, affected)
<1>1. C \in SUBSET Components(n) /\ N \in SUBSET DOMAIN t.nets /\ affected \subseteq N
  BY DEF IslandMembers, NetsIn, Affected
<1>2. \A c \in C : /\ IsPiece(n, t, IslandPiece(t, n, <<"component", c>>))
                   /\ c \in IslandPiece(t, n, <<"component", c>>).components
                   /\ IslandPiece(t, n, <<"component", c>>) \in all
  <2> TAKE c \in C
  <2>1. <<"component", c>> \in IslandVertices(n, t)
    BY <1>1 DEF IslandVertices
  <2>2. c \in Components(n)
    BY <1>1
  <2>3. IslandPiece(t, n, <<"component", c>>) \in all
    BY DEF IslandPieces
  <2> QED BY <2>1, <2>2, <2>3, IslandPieceFacts
<1>3. \A i \in affected : /\ IsPiece(n, t, IslandPiece(t, n, <<"net", i>>))
                          /\ i \in IslandPiece(t, n, <<"net", i>>).nets
                          /\ IslandPiece(t, n, <<"net", i>>) \in all
  <2> TAKE i \in affected
  <2>1. <<"net", i>> \in IslandVertices(n, t)
    BY <1>1 DEF IslandVertices
  <2>2. i \in DOMAIN t.nets
    BY <1>1
  <2>3. IslandPiece(t, n, <<"net", i>>) \in all
    BY DEF IslandPieces
  <2> QED BY <2>1, <2>2, <2>3, IslandPieceFacts
<1>4. \A p \in all : (\E c \in C : p = IslandPiece(t, n, <<"component", c>>))
                      \/ (\E i \in affected : p = IslandPiece(t, n, <<"net", i>>))
  BY DEF IslandPieces
<1> HIDE DEF all, C, N
<1>5. ASSUME NEW p \in all PROVE IsPiece(n, t, p) /\ p.components \subseteq C /\ p.nets \subseteq N
  <2>1. IsPiece(n, t, p) /\ (p.components \cap C # {} \/ p.nets \cap N # {})
    BY <1>1, <1>2, <1>3, <1>4
  <2> QED BY <2>1, PieceInIsland DEF C, N
<1>6. P = {p \in all : p.components # {}} /\ bare = UNION {p.nets : p \in all \ P}
  BY DEF all
<1>7. \A c \in C : IslandPiece(t, n, <<"component", c>>) \in P
  BY <1>2, <1>6
<1>8. \A p, q \in all : p.components \cap q.components # {} \/ p.nets \cap q.nets # {} => p = q
  BY <1>5, SamePiece
<1>9. IsFiniteSet(P)
  <2> DEFINE f == [c \in C |-> IslandPiece(t, n, <<"component", c>>)]
  <2>1. IsFiniteSet(C)
    BY <1>1, FS_Subset DEF NetworkOK
  <2>2. \A p \in P : \E c \in C : f[c] = p
    <3> TAKE p \in P
    <3>1. p \in all /\ p.components # {} /\ p.components \subseteq C
      BY <1>5, <1>6
    <3>2. PICK c \in C : c \in p.components
      BY <3>1
    <3>3. IslandPiece(t, n, <<"component", c>>) = p
      BY <3>1, <3>2, <1>2, <1>8
    <3> QED BY <3>3
  <2>3. f \in Surjection(C, P)
    BY <2>2, <1>7 DEF Surjection
  <2> HIDE DEF f
  <2> QED BY <2>1, <2>3, FS_Surjection
<1>10. IslandParts(n, t, island, P)
  <2>1. \A p \in P : p \in all /\ p.components # {}
    BY <1>6
  <2>2. \A c \in C : \E p \in P : c \in p.components
    BY <1>2, <1>7
  <2> QED BY <2>1, <2>2, <1>5, <1>8, <1>9 DEF IslandParts, C, N
<1>11. ASSUME NEW p \in all, p.components = {}, NEW i \in p.nets, NEW x \in DOMAIN n.attached
       PROVE  NetAt(t, n, x) # i
  BY <1>5, <1>11 DEF IsPiece, ClosedPair
<1>12. ASSUME NEW i \in bare
       PROVE  i \in N /\ (\A p \in P : i \notin p.nets) /\ \A x \in DOMAIN n.attached : NetAt(t, n, x) # i
  <2>1. PICK q \in all : q \notin P /\ i \in q.nets
    BY <1>6
  <2>2. q.components = {}
    BY <2>1, <1>6
  <2>3. \A p \in P : i \notin p.nets
    <3> SUFFICES ASSUME NEW p \in P, i \in p.nets PROVE FALSE
      OBVIOUS
    <3>1. p \in all /\ p.nets \cap q.nets # {}
      BY <2>1, <1>6
    <3> QED BY <3>1, <2>1, <1>8
  <2> QED BY <2>1, <2>2, <2>3, <1>5, <1>11
<1>13. ASSUME NEW i \in N, \A p \in P : i \notin p.nets PROVE i \in bare
  <2>1. CASE i \in affected
    <3>1. i \in IslandPiece(t, n, <<"net", i>>).nets /\ IslandPiece(t, n, <<"net", i>>) \in all
      BY <2>1, <1>3
    <3>2. IslandPiece(t, n, <<"net", i>>) \notin P
      BY <3>1, <1>13
    <3> QED BY <3>1, <3>2, <1>6
  <2>2. CASE \E x \in DOMAIN n.attached : NetAt(t, n, x) = i
    <3>1. PICK x \in DOMAIN n.attached : NetAt(t, n, x) = i
      BY <2>2
    <3>2. TerminalComponent(n, x) \in C
      <4>1. t.netIsland[i] = island
        BY DEF N, NetsIn
      <4> QED BY <4>1, <3>1, IslandFacts DEF C
    <3>3. PICK p \in P : TerminalComponent(n, x) \in p.components
      BY <3>2, <1>10 DEF IslandParts, C
    <3>4. i \in p.nets
      BY <3>1, <3>3, <1>10 DEF IslandParts, IsPiece, ClosedPair
    <3> QED BY <3>3, <3>4, <1>13
  <2> QED BY <2>1, <2>2 DEF Affected, N
<1> QED BY <1>10, <1>12, <1>13 DEF N, IslandWalked

\* The islands after one of them has come apart into parts.
IslandSplit(t, island, P, slot, slots, bare, u) ==
    /\ TopologyRecord(u)
    /\ u.nets = t.nets /\ u.netSlots = t.netSlots /\ u.wireNet = t.wireNet
    /\ u.islandSlots = slots
    /\ IsFunction(u.islands) /\ DOMAIN u.islands = DOMAIN t.islands \cup {slot[p] : p \in P}
    /\ \A p \in P : u.islands[slot[p]] = p.components
    /\ \A i \in DOMAIN t.islands \ {island} : u.islands[i] = t.islands[i]
    /\ IsFunction(u.componentIsland) /\ DOMAIN u.componentIsland = DOMAIN t.componentIsland
    /\ \A p \in P : \A c \in p.components : u.componentIsland[c] = slot[p]
    /\ \A c \in DOMAIN t.componentIsland :
          (\A p \in P : c \notin p.components) => u.componentIsland[c] = t.componentIsland[c]
    /\ IsFunction(u.netIsland) /\ DOMAIN u.netIsland = DOMAIN t.netIsland
    /\ \A p \in P : \A i \in p.nets : u.netIsland[i] = slot[p]
    /\ \A i \in DOMAIN t.netIsland :
          (\A p \in P : i \notin p.nets)
              => u.netIsland[i] = IF i \in bare THEN NoIsland ELSE t.netIsland[i]
    /\ u.invalidation = [topologyDirty |-> t.invalidation.topologyDirty \cup {slot[p] : p \in P},
                         retired |-> t.invalidation.retired]

\* The islands after one of them has no component any more.
IslandGone(t, island, bare, u) ==
    /\ TopologyRecord(u)
    /\ u.nets = t.nets /\ u.netSlots = t.netSlots /\ u.wireNet = t.wireNet
    /\ u.islandSlots = t.islandSlots /\ u.componentIsland = t.componentIsland
    /\ u.islands = Without(t.islands, island)
    /\ u.netIsland = [i \in DOMAIN t.netIsland |-> IF i \in bare THEN NoIsland ELSE t.netIsland[i]]
    /\ u.invalidation = [topologyDirty |-> t.invalidation.topologyDirty \ {island},
                         retired |-> t.invalidation.retired \cup {island}]

\* What a repair of an island does, by the parts it finds.
LEMMA RepairIslandCases ==
    ASSUME NEW n, NetworkOK(n), NEW t, TopologyRecord(t), NetsOK(n, t, {}), IslandMembers(n, t),
           MarksOK(t), NEW open, NetIslands(n, t, open), NEW island \in DOMAIN t.islands,
           NEW affected, Affected(n, t, island, affected),
           NEW u \in RepairIsland(t, n, island, affected)
    PROVE  \E P, bare :
              /\ IslandWalked(n, t, island, P, bare)
              /\ \/ P = {} /\ IslandGone(t, island, bare, u)
                 \/ \E kept, slot, slots :
                       /\ Slots(P, kept, slot, island, t.islandSlots, slots)
                       /\ IslandSplit(t, island, P, slot, slots, bare, u)
<1> DEFINE pieces == IslandPieces(t, n, island, affected)
           P == {p \in pieces : p.components # {}}
           bare == UNION {p.nets : p \in pieces \ P}
           freed == [t EXCEPT !.netIsland = [i \in DOMAIN @ |-> IF i \in bare THEN NoIsland ELSE @[i]]]
           largest == {p \in P : \A q \in P : RewriteCost(p) >= RewriteCost(q)}
           others(kept) == P \ {kept}
           movedNets(kept) == UNION {p.nets : p \in others(kept)}
           moved(kept) == UNION {p.components : p \in others(kept)}
           NewIsland(ids, p) == ids[p]
           dirty(kept, ids) == [freed EXCEPT
                    !.islands = [i \in DOMAIN @ \cup Range(ids) |->
                        IF i = island THEN kept.components
                        ELSE IF i \in Range(ids)
                             THEN (CHOOSE p \in others(kept) : ids[p] = i).components ELSE @[i]],
                    !.islandSlots = @ + Cardinality(others(kept)),
                    !.componentIsland = [c \in DOMAIN @ |->
                        IF c \in moved(kept)
                        THEN NewIsland(ids, CHOOSE p \in others(kept) : c \in p.components)
                                       ELSE @[c]],
                    !.netIsland = [i \in DOMAIN @ |->
                        IF i \in movedNets(kept)
                        THEN NewIsland(ids, CHOOSE p \in others(kept) : i \in p.nets)
                                           ELSE @[i]]]
           Split(kept, ids) == MarkAllTopologyDirty(dirty(kept, ids), {island} \cup Range(ids))
           Nothing == MarkRetired([freed EXCEPT !.islands = Without(@, island)], island)
<1>1. IslandWalked(n, t, island, P, bare)
  <2>1. P = {p \in IslandPieces(t, n, island, affected) : p.components # {}}
        /\ bare = UNION {p.nets : p \in IslandPieces(t, n, island, affected) \ P}
    BY Zenon
  <2> HIDE DEF P, bare
  <2> QED BY <2>1, IslandPiecesFacts
<1>2. \/ P = {} /\ u = Nothing
      \/ \E kept \in P : \E ids \in NewIds(P \ {kept}, t.islandSlots) : u = Split(kept, ids)
  <2>1. RepairIsland(t, n, island, affected) =
          IF P = {} THEN {Nothing}
          ELSE UNION {{Split(kept, ids) : ids \in NewIds(P \ {kept}, t.islandSlots)} : kept \in largest}
    BY Zenon DEF RepairIsland
  <2>2. largest \subseteq P
    OBVIOUS
  <2> HIDE DEF P, largest, Split, Nothing
  <2> QED BY <2>1, <2>2
<1>3. ASSUME P = {}, u = Nothing PROVE IslandGone(t, island, bare, u)
  <2> DEFINE free == [i \in DOMAIN t.netIsland |-> IF i \in bare THEN NoIsland ELSE t.netIsland[i]]
             v == [freed EXCEPT !.islands = Without(@, island)]
  <2>1. freed = [t EXCEPT !.netIsland = free]
    BY Zenon
  <2> HIDE DEF freed, free
  <2>2. /\ TopologyRecord(v) /\ v.nets = t.nets /\ v.netSlots = t.netSlots /\ v.wireNet = t.wireNet
        /\ v.islandSlots = t.islandSlots /\ v.componentIsland = t.componentIsland
        /\ v.islands = Without(t.islands, island) /\ v.netIsland = free
        /\ v.invalidation = t.invalidation
    <3>1. /\ TopologyRecord(freed) /\ freed.nets = t.nets /\ freed.netSlots = t.netSlots
          /\ freed.wireNet = t.wireNet /\ freed.islandSlots = t.islandSlots
          /\ freed.componentIsland = t.componentIsland /\ freed.islands = t.islands
          /\ freed.netIsland = free /\ freed.invalidation = t.invalidation
      BY <2>1 DEF TopologyRecord
    <3>2. v = [freed EXCEPT !.islands = Without(t.islands, island)]
      BY <3>1
    <3> HIDE DEF v
    <3> QED BY <3>1, <3>2 DEF TopologyRecord
  <2>3. u = MarkRetired(v, island)
    BY <1>3
  <2> HIDE DEF v
  <2>4. IslandGone(t, island, bare, u)
    BY <2>2, <2>3, RetireFacts DEF IslandGone, free
  <2> QED BY <1>3, <2>4
<1>4. ASSUME NEW kept \in P, NEW ids \in NewIds(P \ {kept}, t.islandSlots), u = Split(kept, ids)
      PROVE  \E slot, slots :
                 /\ Slots(P, kept, slot, island, t.islandSlots, slots)
                 /\ IslandSplit(t, island, P, slot, slots, bare, u)
  <2> DEFINE rest == P \ {kept}
             slot == [p \in P |-> IF p = kept THEN island ELSE ids[p]]
             slots == t.islandSlots + Cardinality(P \ {kept})
             new == Range(ids)
             free == [i \in DOMAIN t.netIsland |-> IF i \in bare THEN NoIsland ELSE t.netIsland[i]]
             islands == [i \in DOMAIN t.islands \cup new |->
                            IF i = island THEN kept.components
                            ELSE IF i \in new THEN (CHOOSE p \in rest : ids[p] = i).components
                                 ELSE t.islands[i]]
             componentIsland == [c \in DOMAIN t.componentIsland |->
                                    IF c \in moved(kept) THEN ids[CHOOSE p \in rest : c \in p.components]
                                    ELSE t.componentIsland[c]]
             netIsland == [i \in DOMAIN t.netIsland |->
                              IF i \in movedNets(kept) THEN ids[CHOOSE p \in rest : i \in p.nets]
                              ELSE free[i]]
             v == dirty(kept, ids)
  <2>1. freed = [t EXCEPT !.netIsland = free]
    BY Zenon
  <2>2. v = [freed EXCEPT !.islands = islands, !.islandSlots = slots,
                          !.componentIsland = componentIsland, !.netIsland = netIsland]
    <3>1. freed.islands = t.islands /\ freed.islandSlots = t.islandSlots
          /\ freed.componentIsland = t.componentIsland /\ freed.netIsland = free
      <4> HIDE DEF freed, free
      <4> QED BY <2>1 DEF TopologyRecord
    <3> DEFINE Islands(f) == [i \in DOMAIN f \cup Range(ids) |->
                        IF i = island THEN kept.components
                        ELSE IF i \in Range(ids)
                             THEN (CHOOSE p \in others(kept) : ids[p] = i).components ELSE f[i]]
               ComponentIsland(f) == [c \in DOMAIN f |->
                        IF c \in moved(kept)
                        THEN NewIsland(ids, CHOOSE p \in others(kept) : c \in p.components)
                                       ELSE f[c]]
               NetIsland(f) == [i \in DOMAIN f |->
                        IF i \in movedNets(kept)
                        THEN NewIsland(ids, CHOOSE p \in others(kept) : i \in p.nets)
                                           ELSE f[i]]
               SlotsAfter(k) == k + Cardinality(others(kept))
    <3>2. v = [freed EXCEPT !.islands = Islands(freed.islands),
                            !.islandSlots = SlotsAfter(freed.islandSlots),
                            !.componentIsland = ComponentIsland(freed.componentIsland),
                            !.netIsland = NetIsland(freed.netIsland)]
      BY Zenon
    <3>3. Islands(t.islands) = islands /\ ComponentIsland(t.componentIsland) = componentIsland
          /\ SlotsAfter(t.islandSlots) = slots
      BY Zenon
    <3>4. NetIsland(free) = netIsland
      <4>1. DOMAIN free = DOMAIN t.netIsland
        OBVIOUS
      <4> HIDE DEF free
      <4> QED BY <4>1, Zenon
    <3> HIDE DEF v, freed, free, Islands, ComponentIsland, NetIsland, SlotsAfter,
                 islands, componentIsland, netIsland, slots
    <3> QED BY <3>1, <3>2, <3>3, <3>4, Zenon
  <2>3. u = MarkAllTopologyDirty(v, {island} \cup new)
    BY <1>4, Zenon
  <2>4. t.islandSlots \in Nat /\ island \in 1..t.islandSlots /\ DOMAIN t.islands \subseteq 1..t.islandSlots
    BY DEF IslandMembers
  <2>5. /\ Slots(P, kept, slot, island, t.islandSlots, slots)
        /\ DOMAIN ids = rest /\ new = (t.islandSlots + 1)..slots
    <3>1. IsFiniteSet(P)
      BY <1>1 DEF IslandWalked, IslandParts
    <3> HIDE DEF P
    <3> QED BY <3>1, <2>4, NewSlots
  <2>6. \A p \in P : slot[p] = IF p = kept THEN island ELSE ids[p]
    OBVIOUS
  <2>7. \A p, q \in P : p.components \cap q.components # {} \/ p.nets \cap q.nets # {} => p = q
    BY <1>1 DEF IslandWalked, IslandParts
  <2>8. /\ \A p \in P : p.components \subseteq t.islands[island] /\ p.nets \subseteq NetsIn(t, island)
        /\ \A i \in bare : \A p \in P : i \notin p.nets
    BY <1>1 DEF IslandWalked, IslandParts
  <2>9. \A p, q \in P : slot[p] = slot[q] => p = q
    <3> HIDE DEF P, slot, slots
    <3> QED BY <2>5 DEF Slots
  <2>10. \A i \in new : i \notin DOMAIN t.islands /\ i # island
    <3>1. slots \in Nat
      <4> HIDE DEF P, slot, slots
      <4> QED BY <2>5 DEF Slots
    <3> HIDE DEF slots, new
    <3> QED BY <3>1, <2>4, <2>5
  <2> HIDE DEF P, bare, freed, largest, slot, slots, free
  <2>11. {island} \cup new = {slot[p] : p \in P}
    BY <2>5, <2>6 DEF Range
  <2>12. \A p \in rest : p # kept /\ p \in P /\ slot[p] = ids[p] /\ slot[p] \in new
    BY <2>5, <2>6 DEF Range
  <2>13. \A i \in new : \E p \in rest : ids[p] = i
    BY <2>5 DEF Range
  <2> HIDE DEF new
  <2>14. /\ IsFunction(islands) /\ DOMAIN islands = DOMAIN t.islands \cup {slot[p] : p \in P}
         /\ \A p \in P : islands[slot[p]] = p.components
         /\ \A i \in DOMAIN t.islands \ {island} : islands[i] = t.islands[i]
    <3>1. DOMAIN islands = DOMAIN t.islands \cup {slot[p] : p \in P} /\ IsFunction(islands)
      <4>1. DOMAIN islands = DOMAIN t.islands \cup new /\ IsFunction(islands)
        BY DEF IsFunction
      <4> QED BY <4>1, <2>11
    <3>2. \A i \in DOMAIN t.islands \ {island} : islands[i] = t.islands[i]
      BY <2>10
    <3>3. islands[island] = kept.components
      OBVIOUS
    <3>4. \A p \in rest : islands[slot[p]] = p.components
      <4> TAKE p \in rest
      <4>1. \A q \in rest : ids[q] = slot[p] <=> q = p
        BY <2>9, <2>12
      <4>2. (CHOOSE q \in rest : ids[q] = slot[p]) = p
        BY <4>1
      <4>3. islands[slot[p]] = (CHOOSE q \in rest : ids[q] = slot[p]).components
        BY <2>10, <2>12
      <4> QED BY <4>2, <4>3
    <3>5. \A p \in P : p = kept \/ p \in rest
      OBVIOUS
    <3>6. slot[kept] = island
      BY <2>6
    <3> HIDE DEF islands
    <3> QED BY <3>1, <3>2, <3>3, <3>4, <3>5, <3>6
  <2>15. /\ IsFunction(componentIsland) /\ DOMAIN componentIsland = DOMAIN t.componentIsland
         /\ \A p \in P : \A c \in p.components : componentIsland[c] = slot[p]
         /\ \A c \in DOMAIN t.componentIsland :
               (\A p \in P : c \notin p.components) => componentIsland[c] = t.componentIsland[c]
    <3>1. \A c \in t.islands[island] : c \in DOMAIN t.componentIsland /\ t.componentIsland[c] = island
      BY DEF IslandMembers
    <3>2. \A p \in P : \A c \in p.components : componentIsland[c] = slot[p]
      <4> TAKE p \in P
      <4> TAKE c \in p.components
      <4>1. c \in DOMAIN t.componentIsland /\ t.componentIsland[c] = island
        BY <3>1, <2>8
      <4>2. CASE p = kept
        <5>1. c \notin moved(kept)
          BY <4>2, <2>7
        <5> QED BY <5>1, <4>1, <4>2, <2>6
      <4>3. CASE p \in rest
        <5>1. c \in moved(kept) /\ \A q \in rest : c \in q.components <=> q = p
          BY <4>3, <2>7
        <5>2. (CHOOSE q \in rest : c \in q.components) = p
          BY <5>1, <4>3
        <5>3. componentIsland[c] = ids[p]
          BY <5>1, <5>2, <4>1
        <5> QED BY <5>3, <4>3, <2>12
      <4> QED BY <4>2, <4>3
    <3>3. \A c \in DOMAIN t.componentIsland :
            (\A p \in P : c \notin p.components) => componentIsland[c] = t.componentIsland[c]
      OBVIOUS
    <3> QED BY <3>2, <3>3 DEF IsFunction
  <2>16. /\ IsFunction(netIsland) /\ DOMAIN netIsland = DOMAIN t.netIsland
         /\ \A p \in P : \A i \in p.nets : netIsland[i] = slot[p]
         /\ \A i \in DOMAIN t.netIsland :
               (\A p \in P : i \notin p.nets)
                   => netIsland[i] = IF i \in bare THEN NoIsland ELSE t.netIsland[i]
    <3>1. \A i \in NetsIn(t, island) : i \in DOMAIN t.netIsland /\ t.netIsland[i] = island
      BY DEF NetsIn, NetsOK, NetIslands
    <3>2. \A i \in DOMAIN t.netIsland : free[i] = IF i \in bare THEN NoIsland ELSE t.netIsland[i]
      BY DEF free
    <3>3. \A p \in P : \A i \in p.nets : netIsland[i] = slot[p]
      <4> TAKE p \in P
      <4> TAKE i \in p.nets
      <4>1. i \in DOMAIN t.netIsland /\ t.netIsland[i] = island /\ free[i] = island
        BY <3>1, <3>2, <2>8
      <4>2. CASE p = kept
        <5>1. i \notin movedNets(kept)
          BY <4>2, <2>7
        <5> QED BY <5>1, <4>1, <4>2, <2>6
      <4>3. CASE p \in rest
        <5>1. i \in movedNets(kept) /\ \A q \in rest : i \in q.nets <=> q = p
          BY <4>3, <2>7
        <5>2. (CHOOSE q \in rest : i \in q.nets) = p
          BY <5>1, <4>3
        <5>3. netIsland[i] = ids[p]
          BY <5>1, <5>2, <4>1
        <5> QED BY <5>3, <4>3, <2>12
      <4> QED BY <4>2, <4>3
    <3>4. \A i \in DOMAIN t.netIsland :
            (\A p \in P : i \notin p.nets)
                => netIsland[i] = IF i \in bare THEN NoIsland ELSE t.netIsland[i]
      BY <3>2
    <3>5. IsFunction(netIsland) /\ DOMAIN netIsland = DOMAIN t.netIsland
      BY DEF IsFunction
    <3> HIDE DEF netIsland
    <3> QED BY <3>3, <3>4, <3>5
  <2> HIDE DEF islands, componentIsland, netIsland, v
  <2>17. /\ TopologyRecord(v) /\ v.nets = t.nets /\ v.netSlots = t.netSlots /\ v.wireNet = t.wireNet
         /\ v.islands = islands /\ v.islandSlots = slots /\ v.componentIsland = componentIsland
         /\ v.netIsland = netIsland /\ v.invalidation = t.invalidation
    BY <2>1, <2>2 DEF TopologyRecord
  <2>18. ({island} \cup new) \ t.invalidation.retired = {slot[p] : p \in P}
    <3>1. \A i \in {island} \cup new : i \notin t.invalidation.retired
      <4>1. island \notin t.invalidation.retired
        BY DEF MarksOK
      <4>2. \A i \in new : i \notin 1..t.islandSlots
        <5>1. slots \in Nat
          BY <2>5 DEF Slots
        <5> QED BY <5>1, <2>4, <2>5
      <4> QED BY <4>1, <4>2 DEF MarksOK
    <3> QED BY <3>1, <2>11
  <2>19. IslandSplit(t, island, P, slot, slots, bare, u)
    <3>1. /\ TopologyRecord(u)
          /\ u.nets = v.nets /\ u.netSlots = v.netSlots /\ u.wireNet = v.wireNet
          /\ u.netIsland = v.netIsland /\ u.islands = v.islands /\ u.islandSlots = v.islandSlots
          /\ u.componentIsland = v.componentIsland
          /\ u.invalidation = [topologyDirty |-> v.invalidation.topologyDirty
                                                   \cup (({island} \cup new) \ v.invalidation.retired),
                               retired |-> v.invalidation.retired]
      BY <2>3, <2>17, MarkFacts
    <3>2. u.invalidation = [topologyDirty |-> t.invalidation.topologyDirty \cup {slot[p] : p \in P},
                            retired |-> t.invalidation.retired]
      BY <3>1, <2>17, <2>18, Zenon
    <3>3. /\ TopologyRecord(u) /\ u.nets = t.nets /\ u.netSlots = t.netSlots /\ u.wireNet = t.wireNet
          /\ u.islandSlots = slots /\ u.islands = islands /\ u.componentIsland = componentIsland
          /\ u.netIsland = netIsland
      BY <3>1, <2>17
    <3> QED BY <3>2, <3>3, <2>14, <2>15, <2>16, Zenon DEF IslandSplit
  <2> QED BY <2>5, <2>19
<1> HIDE DEF P, bare, Split, Nothing
<1> QED BY <1>1, <1>2, <1>3, <1>4

\* The islands after one of them was repaired: its parts are groups of the
\* network, one of which keeps its ID, and the other islands stay.
IslandRepaired(n, t, open, island, u) ==
    /\ TopologyRecord(u)
    /\ u.nets = t.nets /\ u.netSlots = t.netSlots /\ u.wireNet = t.wireNet
    /\ IslandsOK(n, u, open \ {island}) /\ MarksOK(u) /\ t.islandSlots <= u.islandSlots
    /\ \A i \in DOMAIN t.islands \ {island} : i \in DOMAIN u.islands /\ u.islands[i] = t.islands[i]
    /\ \A i \in DOMAIN u.islands :
          i \in 1..t.islandSlots => i \in DOMAIN t.islands /\ u.islands[i] \subseteq t.islands[i]
    /\ \A i \in DOMAIN u.islands \ u.invalidation.topologyDirty :
          i \in DOMAIN t.islands \ t.invalidation.topologyDirty /\ i # island
    /\ DOMAIN t.islands \cup t.invalidation.retired
          \subseteq DOMAIN u.islands \cup u.invalidation.retired
    /\ \A i \in 1..t.netSlots : IF t.netIsland[i] = island
                                THEN u.netIsland[i] \notin DOMAIN t.islands \ {island}
                                ELSE u.netIsland[i] = t.netIsland[i]

\* A part has no smaller part, and a terminal is on each of its nets.
LEMMA PartIsGroup ==
    ASSUME NEW n, NetworkOK(n), NEW t, NetsOK(n, t, {}), NEW p, IsPiece(n, t, p), p.components # {}
    PROVE  /\ \A S \in SUBSET p.components : S # {} /\ Conducts(n, t, S) => S = p.components
           /\ \A i \in p.nets : \E x \in DOMAIN n.attached : NetAt(t, n, x) = i
<1>1. \A x \in DOMAIN n.attached : NetAt(t, n, x) \in DOMAIN t.nets
  BY DEF NetAt, NetsOK, NetworkOK
<1>2. ASSUME NEW S \in SUBSET p.components, S # {}, Conducts(n, t, S) PROVE S = p.components
  <2> DEFINE N == {NetAt(t, n, x) : x \in {y \in DOMAIN n.attached : TerminalComponent(n, y) \in S}}
  <2>1. ClosedPair(n, t, N, S)
    BY <1>2 DEF ClosedPair, Conducts
  <2>2. N \in SUBSET DOMAIN t.nets /\ S \in SUBSET Components(n)
    BY <1>1 DEF IsPiece
  <2>3. S \cap p.components # {}
    BY <1>2
  <2> HIDE DEF N
  <2>4. p.components \subseteq S
    BY <2>1, <2>2, <2>3 DEF IsPiece
  <2> QED BY <2>4
<1>3. ASSUME NEW i \in p.nets, \A x \in DOMAIN n.attached : NetAt(t, n, x) # i PROVE FALSE
  <2>1. ClosedPair(n, t, {i}, {})
    BY <1>3 DEF ClosedPair
  <2>2. {i} \in SUBSET DOMAIN t.nets /\ {} \in SUBSET Components(n) /\ {i} \cap p.nets # {}
    BY DEF IsPiece
  <2>3. p.components \subseteq {}
    BY <2>1, <2>2 DEF IsPiece
  <2> QED BY <2>3
<1> QED BY <1>2, <1>3

\* A net in the island that is repaired, and the terminals of its components.
LEMMA PartNets ==
    ASSUME NEW n, NetworkOK(n), NEW t, NetsOK(n, t, {}), IslandMembers(n, t),
           NEW open, NetIslands(n, t, open), NEW island \in DOMAIN t.islands,
           NEW P, IslandParts(n, t, island, P)
    PROVE  /\ \A i \in 1..t.netSlots : t.netIsland[i] = island => i \in NetsIn(t, island)
           /\ \A p \in P : \A i \in p.nets : i \in 1..t.netSlots /\ t.netIsland[i] = island
           /\ \A x \in DOMAIN n.attached : \A p \in P :
                 NetAt(t, n, x) \in p.nets <=> TerminalComponent(n, x) \in p.components
           /\ \A c \in Components(n) :
                 t.componentIsland[c] = island <=> \E p \in P : c \in p.components
<1>1. \A i \in 1..t.netSlots : t.netIsland[i] = island => i \in NetsIn(t, island)
  <2> SUFFICES ASSUME NEW i \in 1..t.netSlots, t.netIsland[i] = island PROVE i \in DOMAIN t.nets
    BY DEF NetsIn
  <2>1. t.netIsland[i] # NoIsland
    BY IslandFacts
  <2> QED BY <2>1, IslandFacts DEF NetIslands
<1>2. \A p \in P : \A i \in p.nets : i \in 1..t.netSlots /\ t.netIsland[i] = island
  BY DEF IslandParts, NetsIn, NetsOK
<1>3. \A x \in DOMAIN n.attached : \A p \in P :
        NetAt(t, n, x) \in p.nets <=> TerminalComponent(n, x) \in p.components
  BY DEF IslandParts, IsPiece, ClosedPair
<1>4. \A c \in Components(n) : t.componentIsland[c] = island <=> \E p \in P : c \in p.components
  <2>1. \A c \in Components(n) : t.componentIsland[c] = island <=> c \in t.islands[island]
    BY DEF IslandMembers
  <2>2. \A c \in t.islands[island] : \E p \in P : c \in p.components
    BY DEF IslandParts
  <2>3. \A p \in P : p.components \subseteq t.islands[island]
    BY DEF IslandParts
  <2> QED BY <2>1, <2>2, <2>3
<1> QED BY <1>1, <1>2, <1>3, <1>4

\* The repair of an island that has lost its last component.
LEMMA IslandGoneRepaired ==
    ASSUME NEW n, NetworkOK(n), NEW t, NetsOK(n, t, {}), MarksOK(t),
           NEW open, IslandsOK(n, t, open), NEW island \in DOMAIN t.islands,
           IslandParts(n, t, island, {}),
           NEW bare, \A i : i \in bare <=> i \in NetsIn(t, island),
           NEW u, IslandGone(t, island, bare, u)
    PROVE  IslandRepaired(n, t, open, island, u)
<1>1. /\ IslandMembers(n, t) /\ NetIslands(n, t, open)
      /\ \A i \in DOMAIN t.islands \ open :
            /\ t.islands[i] # {}
            /\ \A S \in SUBSET t.islands[i] : S # {} /\ Conducts(n, t, S) => S = t.islands[i]
  BY DEF IslandsOK
<1>2. /\ u.nets = t.nets /\ u.netSlots = t.netSlots /\ u.wireNet = t.wireNet
      /\ u.islandSlots = t.islandSlots /\ u.componentIsland = t.componentIsland
      /\ IsFunction(u.islands) /\ DOMAIN u.islands = DOMAIN t.islands \ {island}
      /\ \A i \in DOMAIN u.islands : u.islands[i] = t.islands[i]
      /\ IsFunction(u.netIsland) /\ DOMAIN u.netIsland = DOMAIN t.netIsland
      /\ \A i \in DOMAIN t.netIsland : u.netIsland[i] = IF i \in bare THEN NoIsland ELSE t.netIsland[i]
      /\ u.invalidation.topologyDirty = t.invalidation.topologyDirty \ {island}
      /\ u.invalidation.retired = t.invalidation.retired \cup {island}
      /\ TopologyRecord(u)
  BY DEF IslandGone, Without, Restrict, IsFunction
<1>3. /\ \A i \in 1..t.netSlots : t.netIsland[i] = island <=> i \in bare
      /\ \A c \in Components(n) : t.componentIsland[c] # island
  <2>1. /\ \A i \in 1..t.netSlots : t.netIsland[i] = island => i \in NetsIn(t, island)
        /\ \A c \in Components(n) : t.componentIsland[c] = island <=> \E p \in {} : c \in p.components
    BY <1>1, PartNets
  <2> QED BY <2>1 DEF NetsIn
<1>4. /\ t.islandSlots \in Nat /\ DOMAIN t.islands \subseteq 1..t.islandSlots
      /\ t.componentIsland \in [Components(n) -> DOMAIN t.islands]
      /\ \A i \in DOMAIN t.islands : t.islands[i] = {c \in Components(n) : t.componentIsland[c] = i}
  BY <1>1 DEF IslandMembers
<1>5. IslandMembers(n, u)
  <2>1. u.componentIsland \in [Components(n) -> DOMAIN u.islands]
    BY <1>2, <1>3, <1>4
  <2> QED BY <2>1, <1>2, <1>4 DEF IslandMembers
<1>6. \A x : NetAt(u, n, x) = NetAt(t, n, x)
  BY <1>2 DEF NetAt
<1>7. NetIslands(n, u, open \ {island})
  <2>1. /\ DOMAIN t.netIsland = 1..t.netSlots
        /\ \A x \in DOMAIN n.attached :
              t.netIsland[NetAt(t, n, x)] = t.componentIsland[TerminalComponent(n, x)]
        /\ \A i \in 1..t.netSlots :
              \/ t.netIsland[i] = NoIsland
              \/ \E x \in DOMAIN n.attached : NetAt(t, n, x) = i
              \/ t.netIsland[i] \in open /\ i \in DOMAIN t.nets
    BY <1>1 DEF NetIslands
  <2>2. \A x \in DOMAIN n.attached : NetAt(t, n, x) \in 1..t.netSlots /\ TerminalComponent(n, x) \in Components(n)
    BY <1>1, IslandFacts
  <2>3. \A x \in DOMAIN n.attached :
          u.netIsland[NetAt(u, n, x)] = u.componentIsland[TerminalComponent(n, x)]
    <3> TAKE x \in DOMAIN n.attached
    <3>1. NetAt(t, n, x) \notin bare
      BY <2>1, <2>2, <1>3
    <3>2. u.netIsland[NetAt(t, n, x)] = t.netIsland[NetAt(t, n, x)]
      BY <3>1, <2>1, <2>2, <1>2
    <3> QED BY <3>2, <2>1, <1>2, <1>6
  <2>4. \A i \in 1..u.netSlots :
              \/ u.netIsland[i] = NoIsland
              \/ \E x \in DOMAIN n.attached : NetAt(u, n, x) = i
              \/ u.netIsland[i] \in open \ {island} /\ i \in DOMAIN u.nets
    BY <2>1, <1>2, <1>3, <1>6
  <2> QED BY <2>1, <2>3, <2>4, <1>2 DEF NetIslands
<1>8. \A S : Conducts(n, u, S) <=> Conducts(n, t, S)
  BY <1>6 DEF Conducts
<1>9. IslandsOK(n, u, open \ {island})
  BY <1>1, <1>2, <1>5, <1>7, <1>8 DEF IslandsOK
<1>10. MarksOK(u)
  BY <1>2, <1>4 DEF MarksOK
<1>11. \A i \in 1..t.netSlots : IF t.netIsland[i] = island
                                THEN u.netIsland[i] \notin DOMAIN t.islands \ {island}
                                ELSE u.netIsland[i] = t.netIsland[i]
  <2>1. NoIsland \notin DOMAIN t.islands /\ DOMAIN t.netIsland = 1..t.netSlots
    <3>1. NoIsland \notin DOMAIN t.islands
      BY <1>1, IslandFacts
    <3> QED BY <3>1, <1>1 DEF NetIslands
  <2> QED BY <2>1, <1>2, <1>3
<1> QED BY <1>2, <1>4, <1>9, <1>10, <1>11 DEF IslandRepaired

\* The repair of an island that is walked in pieces.
LEMMA IslandSplitRepaired ==
    ASSUME NEW n, NetworkOK(n), NEW t, NetsOK(n, t, {}), MarksOK(t),
           NEW open, IslandsOK(n, t, open), NEW island \in DOMAIN t.islands,
           NEW P, IslandParts(n, t, island, P),
           NEW bare, \A i : i \in bare <=> i \in NetsIn(t, island) /\ \A p \in P : i \notin p.nets,
           \A i \in bare : \A x \in DOMAIN n.attached : NetAt(t, n, x) # i,
           NEW kept, NEW slot, NEW slots, Slots(P, kept, slot, island, t.islandSlots, slots),
           NEW u, IslandSplit(t, island, P, slot, slots, bare, u)
    PROVE  IslandRepaired(n, t, open, island, u)
<1>1. /\ IslandMembers(n, t) /\ NetIslands(n, t, open)
      /\ \A i \in DOMAIN t.islands \ open :
            /\ t.islands[i] # {}
            /\ \A S \in SUBSET t.islands[i] : S # {} /\ Conducts(n, t, S) => S = t.islands[i]
  BY DEF IslandsOK
<1>2. /\ u.nets = t.nets /\ u.netSlots = t.netSlots /\ u.wireNet = t.wireNet
      /\ u.islandSlots = slots
      /\ IsFunction(u.islands) /\ DOMAIN u.islands = DOMAIN t.islands \cup {slot[p] : p \in P}
      /\ \A p \in P : u.islands[slot[p]] = p.components
      /\ \A i \in DOMAIN t.islands \ {island} : u.islands[i] = t.islands[i]
      /\ IsFunction(u.componentIsland) /\ DOMAIN u.componentIsland = DOMAIN t.componentIsland
      /\ \A p \in P : \A c \in p.components : u.componentIsland[c] = slot[p]
      /\ \A c \in DOMAIN t.componentIsland :
            (\A p \in P : c \notin p.components) => u.componentIsland[c] = t.componentIsland[c]
      /\ IsFunction(u.netIsland) /\ DOMAIN u.netIsland = DOMAIN t.netIsland
      /\ \A p \in P : \A i \in p.nets : u.netIsland[i] = slot[p]
      /\ \A i \in DOMAIN t.netIsland :
            (\A p \in P : i \notin p.nets)
                => u.netIsland[i] = IF i \in bare THEN NoIsland ELSE t.netIsland[i]
      /\ u.invalidation.topologyDirty = t.invalidation.topologyDirty \cup {slot[p] : p \in P}
      /\ u.invalidation.retired = t.invalidation.retired
      /\ TopologyRecord(u)
  BY DEF IslandSplit
<1>3. /\ kept \in P /\ slot[kept] = island /\ slots \in Nat /\ t.islandSlots <= slots
      /\ \A p \in P : p # kept => slot[p] \in (t.islandSlots + 1)..slots
      /\ \A p, q \in P : slot[p] = slot[q] => p = q
  BY DEF Slots
<1>4. /\ t.islandSlots \in Nat /\ DOMAIN t.islands \subseteq 1..t.islandSlots
      /\ t.componentIsland \in [Components(n) -> DOMAIN t.islands]
      /\ \A i \in DOMAIN t.islands : t.islands[i] = {c \in Components(n) : t.componentIsland[c] = i}
  BY <1>1 DEF IslandMembers
<1>5. /\ \A i \in 1..t.netSlots : t.netIsland[i] = island => i \in NetsIn(t, island)
      /\ \A p \in P : \A i \in p.nets : i \in 1..t.netSlots /\ t.netIsland[i] = island
      /\ \A x \in DOMAIN n.attached : \A p \in P :
            NetAt(t, n, x) \in p.nets <=> TerminalComponent(n, x) \in p.components
      /\ \A c \in Components(n) :
            t.componentIsland[c] = island <=> \E p \in P : c \in p.components
  BY <1>1, PartNets
<1>6. /\ \A p \in P : IsPiece(n, t, p) /\ p.components # {} /\ p.components \subseteq t.islands[island]
      /\ \A p, q \in P : p.components \cap q.components # {} \/ p.nets \cap q.nets # {} => p = q
  BY DEF IslandParts
<1>7. /\ \A p \in P : slot[p] = island \/ (slot[p] \notin 1..t.islandSlots /\ slot[p] \in 1..slots)
      /\ \A p \in P : slot[p] \notin DOMAIN t.islands \ {island}
      /\ 1..t.islandSlots \subseteq 1..slots /\ island \in 1..t.islandSlots
  <2>1. \A i \in (t.islandSlots + 1)..slots : i \notin 1..t.islandSlots /\ i \in 1..slots
    BY <1>3, <1>4
  <2>2. 1..t.islandSlots \subseteq 1..slots
    BY <1>3, <1>4
  <2>3. island \in 1..t.islandSlots
    BY <1>4
  <2>4. \A p \in P : slot[p] = island \/ (slot[p] \notin 1..t.islandSlots /\ slot[p] \in 1..slots)
    BY <2>1, <1>3
  <2> QED BY <2>2, <2>3, <2>4, <1>4
<1>8. \A x : NetAt(u, n, x) = NetAt(t, n, x)
  BY <1>2 DEF NetAt
<1>9. \A S : Conducts(n, u, S) <=> Conducts(n, t, S)
  BY <1>8 DEF Conducts
<1>10. \A c \in Components(n) : \/ \E p \in P : c \in p.components /\ u.componentIsland[c] = slot[p]
                                \/ /\ t.componentIsland[c] # island /\ \A p \in P : c \notin p.components
                                   /\ u.componentIsland[c] = t.componentIsland[c]
  BY <1>2, <1>4, <1>5
<1>11. IslandMembers(n, u)
  <2>1. u.componentIsland \in [Components(n) -> DOMAIN u.islands]
    <3>1. \A c \in Components(n) : u.componentIsland[c] \in DOMAIN u.islands
      BY <1>2, <1>4, <1>10
    <3> QED BY <3>1, <1>2, <1>4 DEF IsFunction
  <2>2. ASSUME NEW p \in P PROVE u.islands[slot[p]] = {c \in Components(n) : u.componentIsland[c] = slot[p]}
    <3>1. \A c \in p.components : c \in Components(n) /\ u.componentIsland[c] = slot[p]
      BY <1>2, <1>6 DEF IsPiece
    <3>2. ASSUME NEW c \in Components(n), u.componentIsland[c] = slot[p] PROVE c \in p.components
      <4>1. CASE \E q \in P : c \in q.components /\ u.componentIsland[c] = slot[q]
        BY <4>1, <3>2, <1>3
      <4>2. CASE t.componentIsland[c] # island /\ u.componentIsland[c] = t.componentIsland[c]
        BY <4>2, <3>2, <1>4, <1>7
      <4> QED BY <4>1, <4>2, <1>10
    <3> QED BY <3>1, <3>2, <1>2
  <2>3. ASSUME NEW i \in DOMAIN t.islands \ {island}
        PROVE  u.islands[i] = {c \in Components(n) : u.componentIsland[c] = i}
    <3>1. \A c \in Components(n) : u.componentIsland[c] = i <=> t.componentIsland[c] = i
      BY <1>5, <1>7, <1>10
    <3>2. u.islands[i] = t.islands[i] /\ t.islands[i] = {c \in Components(n) : t.componentIsland[c] = i}
      BY <1>2, <1>4
    <3> QED BY <3>1, <3>2
  <2>4. \A i \in DOMAIN u.islands : (\E p \in P : i = slot[p]) \/ i \in DOMAIN t.islands \ {island}
    BY <1>2, <1>3
  <2>5. DOMAIN u.islands \subseteq 1..u.islandSlots
    BY <1>2, <1>4, <1>7
  <2> QED BY <2>1, <2>2, <2>3, <2>4, <2>5, <1>2, <1>3 DEF IslandMembers
<1>12. \A i \in 1..t.netSlots :
          \/ \E p \in P : i \in p.nets /\ u.netIsland[i] = slot[p] /\ t.netIsland[i] = island
          \/ i \in bare /\ u.netIsland[i] = NoIsland /\ t.netIsland[i] = island
          \/ /\ t.netIsland[i] # island /\ i \notin bare /\ \A p \in P : i \notin p.nets
             /\ u.netIsland[i] = t.netIsland[i]
  <2>1. DOMAIN t.netIsland = 1..t.netSlots
    BY <1>1 DEF NetIslands
  <2>2. \A i \in bare : t.netIsland[i] = island
    BY DEF NetsIn
  <2> QED BY <2>1, <2>2, <1>2, <1>5
<1>13. NetIslands(n, u, open \ {island})
  <2>1. /\ DOMAIN t.netIsland = 1..t.netSlots
        /\ \A x \in DOMAIN n.attached :
              t.netIsland[NetAt(t, n, x)] = t.componentIsland[TerminalComponent(n, x)]
        /\ \A i \in 1..t.netSlots :
              \/ t.netIsland[i] = NoIsland
              \/ \E x \in DOMAIN n.attached : NetAt(t, n, x) = i
              \/ t.netIsland[i] \in open /\ i \in DOMAIN t.nets
    BY <1>1 DEF NetIslands
  <2>2. \A x \in DOMAIN n.attached : NetAt(t, n, x) \in 1..t.netSlots /\ TerminalComponent(n, x) \in Components(n)
    BY <1>1, IslandFacts
  <2>3. ASSUME NEW x \in DOMAIN n.attached
        PROVE  u.netIsland[NetAt(t, n, x)] = u.componentIsland[TerminalComponent(n, x)]
    <3>1. CASE \E p \in P : NetAt(t, n, x) \in p.nets
      BY <3>1, <1>2, <1>5
    <3>2. CASE \A p \in P : NetAt(t, n, x) \notin p.nets
      <4>1. \A p \in P : TerminalComponent(n, x) \notin p.components
        BY <3>2, <1>5
      <4>2. NetAt(t, n, x) \notin bare
        OBVIOUS
      <4>3. u.netIsland[NetAt(t, n, x)] = t.netIsland[NetAt(t, n, x)]
        BY <3>2, <4>2, <2>1, <2>2, <1>2
      <4>4. u.componentIsland[TerminalComponent(n, x)] = t.componentIsland[TerminalComponent(n, x)]
        BY <4>1, <2>2, <1>2, <1>4
      <4> QED BY <4>3, <4>4, <2>1
    <3> QED BY <3>1, <3>2
  <2>4. ASSUME NEW i \in 1..t.netSlots
        PROVE  \/ u.netIsland[i] = NoIsland
               \/ \E x \in DOMAIN n.attached : NetAt(t, n, x) = i
               \/ u.netIsland[i] \in open \ {island} /\ i \in DOMAIN u.nets
    <3>1. CASE \E p \in P : i \in p.nets
      BY <3>1, <1>6, PartIsGroup
    <3>2. CASE i \in bare
      BY <3>2, <1>12
    <3>3. CASE t.netIsland[i] # island /\ u.netIsland[i] = t.netIsland[i]
      BY <3>3, <2>1, <1>2
    <3> QED BY <3>1, <3>2, <3>3, <1>12
  <2> QED BY <2>1, <2>3, <2>4, <1>2, <1>8 DEF NetIslands
<1>14. ASSUME NEW i \in DOMAIN u.islands \ (open \ {island})
       PROVE  /\ u.islands[i] # {}
              /\ \A S \in SUBSET u.islands[i] : S # {} /\ Conducts(n, u, S) => S = u.islands[i]
  <2>1. CASE \E p \in P : i = slot[p]
    <3>1. PICK p \in P : i = slot[p]
      BY <2>1
    <3>2. u.islands[i] = p.components /\ IsPiece(n, t, p) /\ p.components # {}
      BY <3>1, <1>2, <1>6
    <3>3. \A S \in SUBSET p.components : S # {} /\ Conducts(n, t, S) => S = p.components
      BY <3>2, PartIsGroup
    <3> QED BY <3>2, <3>3, <1>9
  <2>2. CASE \A p \in P : i # slot[p]
    <3>1. i \in DOMAIN t.islands \ {island}
      BY <2>2, <1>2, <1>3
    <3>2. i \in DOMAIN t.islands \ open /\ u.islands[i] = t.islands[i]
      BY <3>1, <1>2
    <3> QED BY <3>2, <1>1, <1>9
  <2> QED BY <2>1, <2>2
<1>15. IslandsOK(n, u, open \ {island})
  BY <1>11, <1>13, <1>14 DEF IslandsOK
<1>16. MarksOK(u)
  <2>1. u.invalidation.retired \cap DOMAIN u.islands = {}
    <3>1. \A p \in P : slot[p] \notin t.invalidation.retired
      BY <1>7 DEF MarksOK
    <3> QED BY <3>1, <1>2 DEF MarksOK
  <2> QED BY <2>1, <1>2, <1>7 DEF MarksOK
<1>17. \A i \in 1..t.netSlots : IF t.netIsland[i] = island
                                THEN u.netIsland[i] \notin DOMAIN t.islands \ {island}
                                ELSE u.netIsland[i] = t.netIsland[i]
  <2>1. NoIsland \notin DOMAIN t.islands
    BY <1>1, IslandFacts
  <2> QED BY <2>1, <1>7, <1>12
<1>18. \A i \in DOMAIN u.islands :
          i \in 1..t.islandSlots => i \in DOMAIN t.islands /\ u.islands[i] \subseteq t.islands[i]
  <2> SUFFICES ASSUME NEW i \in DOMAIN u.islands, i \in 1..t.islandSlots
               PROVE  i \in DOMAIN t.islands /\ u.islands[i] \subseteq t.islands[i]
    OBVIOUS
  <2>1. CASE \E p \in P : i = slot[p]
    <3>1. PICK p \in P : i = slot[p]
      BY <2>1
    <3>2. i = island
      BY <3>1, <1>7
    <3>3. u.islands[i] = p.components
      BY <3>1, <1>2
    <3>4. p.components \subseteq t.islands[island]
      BY <1>6
    <3> QED BY <3>2, <3>3, <3>4
  <2>2. CASE \A p \in P : i # slot[p]
    BY <2>2, <1>2, <1>3
  <2> QED BY <2>1, <2>2
<1>19. \A i \in DOMAIN u.islands \ u.invalidation.topologyDirty :
          i \in DOMAIN t.islands \ t.invalidation.topologyDirty /\ i # island
  BY <1>2, <1>3
<1>20. DOMAIN t.islands \cup t.invalidation.retired
          \subseteq DOMAIN u.islands \cup u.invalidation.retired
  BY <1>2
<1> QED BY <1>2, <1>3, <1>15, <1>16, <1>17, <1>18, <1>19, <1>20 DEF IslandRepaired

\* Repairing an island makes its parts groups of the network again.
LEMMA RepairIslandFacts ==
    ASSUME NEW n, NetworkOK(n), NEW t, TopologyRecord(t), NetsOK(n, t, {}), MarksOK(t),
           NEW open, IslandsOK(n, t, open), NEW island \in DOMAIN t.islands,
           NEW affected, Affected(n, t, island, affected),
           NEW u \in RepairIsland(t, n, island, affected)
    PROVE  IslandRepaired(n, t, open, island, u)
<1>1. IslandMembers(n, t) /\ NetIslands(n, t, open)
  BY DEF IslandsOK
<1>2. PICK P, bare :
              /\ IslandWalked(n, t, island, P, bare)
              /\ \/ P = {} /\ IslandGone(t, island, bare, u)
                 \/ \E kept, slot, slots :
                       /\ Slots(P, kept, slot, island, t.islandSlots, slots)
                       /\ IslandSplit(t, island, P, slot, slots, bare, u)
  BY <1>1, RepairIslandCases
<1>3. CASE P = {} /\ IslandGone(t, island, bare, u)
  <2>1. IslandParts(n, t, island, {}) /\ \A i : i \in bare <=> i \in NetsIn(t, island)
    BY <1>2, <1>3 DEF IslandWalked
  <2> QED BY <2>1, <1>3, IslandGoneRepaired
<1>4. ASSUME NEW kept, NEW slot, NEW slots, Slots(P, kept, slot, island, t.islandSlots, slots),
             IslandSplit(t, island, P, slot, slots, bare, u)
      PROVE  IslandRepaired(n, t, open, island, u)
  <2>1. /\ IslandParts(n, t, island, P)
        /\ \A i : i \in bare <=> i \in NetsIn(t, island) /\ \A p \in P : i \notin p.nets
        /\ \A i \in bare : \A x \in DOMAIN n.attached : NetAt(t, n, x) # i
    BY <1>2 DEF IslandWalked
  <2> QED BY <2>1, <1>4, IslandSplitRepaired
<1> QED BY <1>2, <1>3, <1>4

-----------------------------------------------------------------------------
(* remove_wire and disconnect_wires.                                       *)

\* Nets that stay as they are stay groups of the network.
LEMMA SameNets ==
    ASSUME NEW n, NEW t, NetsOK(n, t, {}), NEW u,
           u.nets = t.nets, u.netSlots = t.netSlots, u.wireNet = t.wireNet
    PROVE  NetsOK(n, u, {})
<1>1. \A i : WiresAt(u, n, i) = WiresAt(t, n, i)
  BY DEF WiresAt
<1> QED BY <1>1 DEF NetsOK

\* After a repair the islands that stay alive keep a component, and those that
\* are not marked are compiled to what they were.
LEMMA RepairedKeeps ==
    ASSUME NEW n, NEW t, NEW m, NEW v, NEW island,
           t.islandSlots \in Nat, DOMAIN t.islands \subseteq 1..t.islandSlots,
           v.islands = t.islands, v.islandSlots = t.islandSlots, v.invalidation = t.invalidation,
           \A i \in DOMAIN t.islands : i # island => SameTerminals(n, t, m, v, t.islands[i]),
           NEW u, IslandRepaired(m, v, {island}, island, u)
    PROVE  Keeps(n, t, m, u)
<1>1. IslandsOK(m, u, {})
  <2>1. {island} \ {island} = {}
    OBVIOUS
  <2> QED BY <2>1 DEF IslandRepaired
<1>2. /\ t.islandSlots <= u.islandSlots
      /\ \A i \in DOMAIN t.islands \ {island} : i \in DOMAIN u.islands /\ u.islands[i] = t.islands[i]
      /\ \A i \in DOMAIN u.islands :
            i \in 1..t.islandSlots => i \in DOMAIN t.islands /\ u.islands[i] \subseteq t.islands[i]
      /\ \A i \in DOMAIN u.islands \ u.invalidation.topologyDirty :
            i \in DOMAIN t.islands \ t.invalidation.topologyDirty /\ i # island
      /\ DOMAIN t.islands \cup t.invalidation.retired
            \subseteq DOMAIN u.islands \cup u.invalidation.retired
      /\ u.wireNet = v.wireNet
  BY DEF IslandRepaired
<1>3. \A i \in DOMAIN u.islands : u.islands[i] # {}
  BY <1>1 DEF IslandsOK
<1>4. ASSUME NEW i \in DOMAIN u.islands \ u.invalidation.topologyDirty
      PROVE  CompiledIsland(u, m, i) = CompiledIsland(t, n, i)
  <2>1. i \in DOMAIN t.islands /\ i # island
    BY <1>2
  <2>2. SameTerminals(n, t, m, v, t.islands[i])
    BY <2>1
  <2>3. SameTerminals(n, t, m, u, t.islands[i])
    BY <2>2, <1>2 DEF SameTerminals, NetAt
  <2>4. u.islands[i] = t.islands[i]
    BY <2>1, <1>2
  <2> QED BY <2>3, <2>4, SameCompiled
<1>5. \A i \in DOMAIN u.islands :
          i \in 1..t.islandSlots => i \in DOMAIN t.islands /\ t.islands[i] \cap u.islands[i] # {}
  BY <1>2, <1>3
<1>6. \A i \in DOMAIN u.islands \ u.invalidation.topologyDirty :
          /\ i \in DOMAIN t.islands \ t.invalidation.topologyDirty
          /\ CompiledIsland(u, m, i) = CompiledIsland(t, n, i)
  BY <1>2, <1>4
<1> QED BY <1>2, <1>5, <1>6 DEF Keeps

\* The network may have lost wires and attached terminals, but none that is not
\* on the net.
LosesAtNet(n, t, m, s, net) ==
    /\ m.devices = n.devices
    /\ m.wires \subseteq n.wires /\ \A w \in m.wires : s.wireNet[w] = t.wireNet[w]
    /\ \A x \in DOMAIN m.attached : x \in DOMAIN n.attached /\ m.attached[x] = n.attached[x]
    /\ \A x \in DOMAIN n.attached : NetAt(t, n, x) # net => x \in DOMAIN m.attached
    /\ s.netIsland = t.netIsland /\ s.netSlots = t.netSlots
    /\ s.islands = t.islands /\ s.islandSlots = t.islandSlots
    /\ s.componentIsland = t.componentIsland /\ s.invalidation = t.invalidation

\* What is left to repair after a net is repaired: the island it is in.
NetRepairLeaves(n, t, m, v, island, nets) ==
    /\ TopologyRecord(v) /\ NetsOK(m, v, {}) /\ MarksOK(v)
    /\ v.islands = t.islands /\ v.islandSlots = t.islandSlots /\ v.invalidation = t.invalidation
    /\ IslandsOK(m, v, {island} \ {NoIsland})
    /\ island # NoIsland => island \in DOMAIN v.islands /\ Affected(m, v, island, nets)
    /\ \A i \in DOMAIN t.islands : i # island => SameTerminals(n, t, m, v, t.islands[i])

\* A repaired net leaves only its island to repair.
LEMMA NetRepairedIslands ==
    ASSUME NEW n, NEW t, TopologyOK(n, t), NEW m, NetworkOK(m), NEW s, NEW net \in DOMAIN t.nets,
           LosesAtNet(n, t, m, s, net), NEW v, NEW nets, NetRepaired(m, s, net, v, nets)
    PROVE  NetRepairLeaves(n, t, m, v, t.netIsland[net], nets)
<1> DEFINE island == t.netIsland[net]
           X == {island} \ {NoIsland}
<1>1. /\ NetworkOK(n) /\ NetsOK(n, t, {}) /\ IslandsOK(n, t, {}) /\ MarksOK(t)
      /\ IslandMembers(n, t) /\ NetIslands(n, t, {})
      /\ \A i \in DOMAIN t.islands :
            /\ t.islands[i] # {}
            /\ \A S \in SUBSET t.islands[i] : S # {} /\ Conducts(n, t, S) => S = t.islands[i]
  BY DEF TopologyOK, IslandsOK
<1>2. /\ m.devices = n.devices
      /\ m.wires \subseteq n.wires /\ \A w \in m.wires : s.wireNet[w] = t.wireNet[w]
      /\ \A x \in DOMAIN m.attached : x \in DOMAIN n.attached /\ m.attached[x] = n.attached[x]
      /\ \A x \in DOMAIN n.attached : NetAt(t, n, x) # net => x \in DOMAIN m.attached
      /\ s.netIsland = t.netIsland /\ s.netSlots = t.netSlots
  BY DEF LosesAtNet
<1>3. /\ TopologyRecord(v) /\ NetsOK(m, v, {})
      /\ v.islands = t.islands /\ v.islandSlots = t.islandSlots
      /\ v.componentIsland = t.componentIsland /\ v.invalidation = t.invalidation
      /\ SlotsOfNets(v) /\ t.netSlots <= v.netSlots
      /\ nets \subseteq DOMAIN v.nets
      /\ \A i \in nets : i = net \/ i \notin 1..t.netSlots
      /\ \A w \in m.wires : IF t.wireNet[w] = net THEN v.wireNet[w] \in nets
                            ELSE v.wireNet[w] = t.wireNet[w]
      /\ \A i \in nets : v.netIsland[i] = island
      /\ \A i \in 1..v.netSlots :
            i \notin nets => /\ i \in 1..t.netSlots
                             /\ v.netIsland[i] = IF i = net THEN NoIsland ELSE t.netIsland[i]
  <2>1. /\ s.islands = t.islands /\ s.islandSlots = t.islandSlots
        /\ s.componentIsland = t.componentIsland /\ s.invalidation = t.invalidation
    BY DEF LosesAtNet
  <2> QED BY <2>1, <1>2 DEF NetRepaired
<1>4. /\ Terminals(m) = Terminals(n) /\ Components(m) = Components(n)
      /\ \A x : TerminalComponent(m, x) = TerminalComponent(n, x)
  BY <1>2, SameDevices
<1>5. /\ NoIsland \notin DOMAIN t.islands
      /\ \A x \in DOMAIN n.attached :
            /\ n.attached[x] \in n.wires /\ TerminalComponent(n, x) \in Components(n)
            /\ NetAt(t, n, x) \in DOMAIN t.nets /\ NetAt(t, n, x) \in 1..t.netSlots
            /\ t.netIsland[NetAt(t, n, x)] = t.componentIsland[TerminalComponent(n, x)]
            /\ t.netIsland[NetAt(t, n, x)] \in DOMAIN t.islands
            /\ TerminalComponent(n, x) \in t.islands[t.netIsland[NetAt(t, n, x)]]
  BY <1>1, IslandFacts
<1>6. \A x \in DOMAIN m.attached :
          /\ m.attached[x] \in m.wires /\ NetAt(v, m, x) \in 1..v.netSlots
          /\ IF NetAt(t, n, x) = net THEN NetAt(v, m, x) \in nets
             ELSE NetAt(v, m, x) = NetAt(t, n, x) /\ NetAt(v, m, x) \notin nets
  <2> TAKE x \in DOMAIN m.attached
  <2>1. m.attached[x] \in m.wires /\ m.attached[x] = n.attached[x] /\ x \in DOMAIN n.attached
    BY <1>2 DEF NetworkOK
  <2>2. v.wireNet[m.attached[x]] \in DOMAIN v.nets /\ DOMAIN v.nets \subseteq 1..v.netSlots
    BY <2>1, <1>3 DEF NetsOK
  <2>3. IF t.wireNet[m.attached[x]] = net THEN v.wireNet[m.attached[x]] \in nets
        ELSE v.wireNet[m.attached[x]] = t.wireNet[m.attached[x]]
    BY <2>1, <1>3
  <2> QED BY <2>1, <2>2, <2>3, <1>3, <1>5 DEF NetAt
<1>7. \A c \in Components(n) : \A i \in DOMAIN t.islands : c \in t.islands[i] <=> t.componentIsland[c] = i
  BY <1>1 DEF IslandMembers
<1>8. \A i \in DOMAIN t.islands : i # island =>
        \A x \in DOMAIN n.attached : TerminalComponent(n, x) \in t.islands[i] =>
            /\ NetAt(t, n, x) # net /\ x \in DOMAIN m.attached
            /\ NetAt(v, m, x) = NetAt(t, n, x)
  <2> TAKE i \in DOMAIN t.islands
  <2> HAVE i # island
  <2> TAKE x \in DOMAIN n.attached
  <2> HAVE TerminalComponent(n, x) \in t.islands[i]
  <2>1. t.netIsland[NetAt(t, n, x)] = i
    BY <1>5, <1>7
  <2> QED BY <2>1, <1>2, <1>6
<1>9. IslandMembers(m, v)
  BY <1>1, <1>3, <1>4 DEF IslandMembers
<1>10. \A i \in 1..v.netSlots :
          \/ i \in nets /\ v.netIsland[i] = island /\ i \in DOMAIN v.nets
          \/ v.netIsland[i] = NoIsland
          \/ \E x \in DOMAIN m.attached : NetAt(v, m, x) = i
  <2> TAKE i \in 1..v.netSlots
  <2>1. CASE i \notin nets /\ i # net
    <3>1. i \in 1..t.netSlots /\ v.netIsland[i] = t.netIsland[i]
      BY <2>1, <1>3
    <3>2. t.netIsland[i] = NoIsland \/ \E x \in DOMAIN n.attached : NetAt(t, n, x) = i
      BY <3>1, <1>1 DEF NetIslands
    <3> QED BY <3>1, <3>2, <2>1, <1>2, <1>6
  <2> QED BY <2>1, <1>3
<1>11. NetIslands(m, v, X)
  <2>1. \A x \in DOMAIN m.attached :
          v.netIsland[NetAt(v, m, x)] = v.componentIsland[TerminalComponent(m, x)]
    <3> TAKE x \in DOMAIN m.attached
    <3>1. x \in DOMAIN n.attached
      BY <1>2
    <3>2. v.netIsland[NetAt(v, m, x)] = t.netIsland[NetAt(t, n, x)]
      <4>1. CASE NetAt(t, n, x) = net
        BY <4>1, <1>3, <1>6
      <4>2. CASE NetAt(t, n, x) # net
        BY <4>2, <1>3, <1>6
      <4> QED BY <4>1, <4>2
    <3> QED BY <3>1, <3>2, <1>3, <1>4, <1>5
  <2> QED BY <2>1, <1>3, <1>10 DEF NetIslands, SlotsOfNets
<1>12. ASSUME NEW i \in DOMAIN t.islands, i # island, NEW S \in SUBSET t.islands[i], Conducts(m, v, S)
       PROVE  Conducts(n, t, S)
  <2> SUFFICES ASSUME NEW x \in DOMAIN n.attached, NEW y \in DOMAIN n.attached,
                      NetAt(t, n, x) = NetAt(t, n, y), TerminalComponent(n, x) \in S
               PROVE  TerminalComponent(n, y) \in S
    BY DEF Conducts
  <2>1. NetAt(t, n, x) # net /\ x \in DOMAIN m.attached /\ y \in DOMAIN m.attached
        /\ NetAt(v, m, x) = NetAt(t, n, x)
    BY <1>2, <1>8, <1>12
  <2>2. NetAt(v, m, y) = NetAt(t, n, y)
    BY <2>1, <1>6
  <2> QED BY <2>1, <2>2, <1>4, <1>12 DEF Conducts
<1>13. IslandsOK(m, v, X)
  <2> SUFFICES ASSUME NEW i \in DOMAIN v.islands \ X
               PROVE  /\ v.islands[i] # {}
                      /\ \A S \in SUBSET v.islands[i] : S # {} /\ Conducts(m, v, S) => S = v.islands[i]
    BY <1>9, <1>11 DEF IslandsOK
  <2>1. i \in DOMAIN t.islands /\ i # island /\ v.islands[i] = t.islands[i]
    BY <1>3, <1>5
  <2> QED BY <2>1, <1>1, <1>12
<1>14. ASSUME island # NoIsland
       PROVE  island \in DOMAIN v.islands /\ Affected(m, v, island, nets)
  <2>1. PICK x \in DOMAIN n.attached : NetAt(t, n, x) = net
    <3>1. net \in 1..t.netSlots
      BY <1>1 DEF NetsOK
    <3> QED BY <3>1, <1>1, <1>14 DEF NetIslands
  <2>2. island \in DOMAIN v.islands
    BY <2>1, <1>3, <1>5
  <2>3. nets \subseteq NetsIn(v, island)
    BY <1>3 DEF NetsIn
  <2>4. \A i \in NetsIn(v, island) : i \in nets \/ \E y \in DOMAIN m.attached : NetAt(v, m, y) = i
    <3>1. \A i \in NetsIn(v, island) : i \in 1..v.netSlots /\ v.netIsland[i] # NoIsland
      BY <1>3, <1>14 DEF NetsIn, NetsOK
    <3> QED BY <3>1, <1>10
  <2> QED BY <2>2, <2>3, <2>4 DEF Affected
<1>15. ASSUME NEW i \in DOMAIN t.islands, i # island PROVE SameTerminals(n, t, m, v, t.islands[i])
  <2>1. \A x \in DOMAIN n.attached : TerminalComponent(n, x) \in t.islands[i] =>
            x \in DOMAIN m.attached /\ NetAt(v, m, x) = NetAt(t, n, x)
    BY <1>8, <1>15
  <2> QED BY <2>1, <1>2, <1>4 DEF SameTerminals
<1>16. MarksOK(v)
  BY <1>1, <1>3 DEF MarksOK
<1> QED BY <1>3, <1>13, <1>14, <1>15, <1>16 DEF NetRepairLeaves

\* Repairing the island that is left makes everything derived right again.
LEMMA IslandRepairEnds ==
    ASSUME NEW n, NEW t, TopologyOK(n, t), NEW m, NetworkOK(m), NEW island, NEW nets,
           NEW v, NetRepairLeaves(n, t, m, v, island, nets), island # NoIsland,
           NEW u \in RepairIsland(v, m, island, nets)
    PROVE  TopologyOK(m, u) /\ Keeps(n, t, m, u)
<1>1. /\ TopologyRecord(v) /\ NetsOK(m, v, {}) /\ MarksOK(v)
      /\ v.islands = t.islands /\ v.islandSlots = t.islandSlots /\ v.invalidation = t.invalidation
      /\ IslandsOK(m, v, {island})
      /\ island \in DOMAIN v.islands /\ Affected(m, v, island, nets)
      /\ \A i \in DOMAIN t.islands : i # island => SameTerminals(n, t, m, v, t.islands[i])
  <2>1. {island} \ {NoIsland} = {island}
    OBVIOUS
  <2> QED BY <2>1 DEF NetRepairLeaves
<1>2. IslandRepaired(m, v, {island}, island, u)
  BY <1>1, RepairIslandFacts
<1>3. t.islandSlots \in Nat /\ DOMAIN t.islands \subseteq 1..t.islandSlots
  BY DEF TopologyOK, IslandsOK, IslandMembers
<1>4. Keeps(n, t, m, u)
  BY <1>1, <1>2, <1>3, RepairedKeeps
<1>5. TopologyOK(m, u)
  <2>1. {island} \ {island} = {}
    OBVIOUS
  <2>2. IslandsOK(m, u, {}) /\ MarksOK(u) /\ TopologyRecord(u)
        /\ u.nets = v.nets /\ u.netSlots = v.netSlots /\ u.wireNet = v.wireNet
    BY <2>1, <1>2 DEF IslandRepaired
  <2>3. NetsOK(m, u, {})
    BY <2>2, <1>1, SameNets
  <2> QED BY <2>2, <2>3 DEF TopologyOK
<1> QED BY <1>4, <1>5

\* When the net had no island, or its wires stay one net, nothing is left.
LEMMA NetRepairEnds ==
    ASSUME NEW n, NEW t, TopologyOK(n, t), NEW m, NetworkOK(m), NEW nets,
           NEW v, NetRepairLeaves(n, t, m, v, NoIsland, nets)
    PROVE  TopologyOK(m, v) /\ Keeps(n, t, m, v)
<1>1. /\ TopologyRecord(v) /\ NetsOK(m, v, {}) /\ MarksOK(v)
      /\ v.islands = t.islands /\ v.islandSlots = t.islandSlots /\ v.invalidation = t.invalidation
      /\ IslandsOK(m, v, {})
      /\ \A i \in DOMAIN t.islands : i # NoIsland => SameTerminals(n, t, m, v, t.islands[i])
  <2>1. {NoIsland} \ {NoIsland} = {}
    OBVIOUS
  <2> QED BY <2>1 DEF NetRepairLeaves
<1>2. /\ t.islandSlots \in Nat /\ DOMAIN t.islands \subseteq 1..t.islandSlots
      /\ \A i \in DOMAIN t.islands : t.islands[i] # {} /\ i # NoIsland
  BY DEF TopologyOK, IslandsOK, IslandMembers, NoIsland
<1>3. \A i \in DOMAIN t.islands : CompiledIsland(v, m, i) = CompiledIsland(t, n, i)
  BY <1>1, <1>2, SameCompiled
<1>4. Keeps(n, t, m, v)
  BY <1>1, <1>2, <1>3 DEF Keeps
<1> QED BY <1>1, <1>4 DEF TopologyOK

\* A network that lost wires, connections or attached terminals is a network.
LEMMA SmallerNetwork ==
    ASSUME NEW n, NetworkOK(n), NEW m, NetworkRecord(m), m.devices = n.devices,
           m.wires \subseteq n.wires, \A c \in m.connections : c \in n.connections /\ c \subseteq m.wires,
           IsFunction(m.attached), DOMAIN m.attached \subseteq DOMAIN n.attached,
           \A x \in DOMAIN m.attached : m.attached[x] = n.attached[x] /\ m.attached[x] \in m.wires
    PROVE  NetworkOK(m)
<1>1. Terminals(m) = Terminals(n) /\ Components(m) = Components(n)
  BY SameDevices
<1>2. IsFiniteSet(m.wires)
  BY FS_Subset DEF NetworkOK
<1>3. IsFiniteSet(DOMAIN m.attached)
  BY FS_Subset DEF NetworkOK
<1>4. \A c \in m.connections : \E a, b \in m.wires : a # b /\ c = {a, b}
  <2> TAKE c \in m.connections
  <2>1. PICK a \in n.wires, b \in n.wires : a # b /\ c = {a, b}
    BY DEF NetworkOK
  <2> QED BY <2>1
<1>5. m.attached \in [DOMAIN m.attached -> m.wires]
  BY DEF IsFunction
<1> QED BY <1>1, <1>2, <1>3, <1>4, <1>5 DEF NetworkOK

\* Wires and connections that are lost at a net leave the other nets groups of
\* the network.
LosesWires(n, t, m, s, net) ==
    /\ s.nets = t.nets /\ IsFunction(s.wireNet) /\ DOMAIN s.wireNet = m.wires
    /\ m.connections \subseteq n.connections
    /\ \A w \in n.wires : t.wireNet[w] # net => w \in m.wires
    /\ \A a, b \in n.wires : {a, b} \in n.connections /\ t.wireNet[a] # net => {a, b} \in m.connections

\* What repair_net is called with, when wires or connections of a net are gone.
LEMMA OtherNets ==
    ASSUME NEW n, NEW t, TopologyOK(n, t), NEW m, NEW s, NEW net \in DOMAIN t.nets,
           LosesAtNet(n, t, m, s, net), LosesWires(n, t, m, s, net)
    PROVE  NetsOK(m, s, {net}) /\ WiresKnown(m, s, net) /\ SlotsOfNets(s)
<1>1. /\ NetworkOK(n) /\ NetsOK(n, t, {}) /\ NetIslands(n, t, {})
  BY DEF TopologyOK, IslandsOK
<1>2. /\ m.devices = n.devices
      /\ m.wires \subseteq n.wires /\ \A w \in m.wires : s.wireNet[w] = t.wireNet[w]
      /\ \A x \in DOMAIN m.attached : x \in DOMAIN n.attached /\ m.attached[x] = n.attached[x]
      /\ \A x \in DOMAIN n.attached : NetAt(t, n, x) # net => x \in DOMAIN m.attached
      /\ s.netIsland = t.netIsland /\ s.netSlots = t.netSlots
  BY DEF LosesAtNet
<1>3. /\ s.nets = t.nets /\ IsFunction(s.wireNet) /\ DOMAIN s.wireNet = m.wires
      /\ m.connections \subseteq n.connections
      /\ \A w \in n.wires : t.wireNet[w] # net => w \in m.wires
      /\ \A a, b \in n.wires : {a, b} \in n.connections /\ t.wireNet[a] # net => {a, b} \in m.connections
  BY DEF LosesWires
<1>4. /\ t.netSlots \in Nat /\ IsFunction(t.nets) /\ DOMAIN t.nets \subseteq 1..t.netSlots
      /\ \A w \in n.wires : t.wireNet[w] \in DOMAIN t.nets
      /\ \A a, b \in n.wires : {a, b} \in n.connections => t.wireNet[a] = t.wireNet[b]
      /\ \A i \in DOMAIN t.nets :
            /\ t.nets[i] = [wires |-> WiresAt(t, n, i),
                            components |-> Incidences(n, WiresAt(t, n, i))]
            /\ WiresAt(t, n, i) # {} /\ Joined(n, WiresAt(t, n, i))
  BY <1>1 DEF NetsOK
<1>5. \A i \in DOMAIN t.nets : i # net => WiresAt(s, m, i) = WiresAt(t, n, i)
  BY <1>2, <1>3 DEF WiresAt
<1>6. ASSUME NEW i \in DOMAIN t.nets, i # net
      PROVE  /\ Incidences(m, WiresAt(t, n, i)) = Incidences(n, WiresAt(t, n, i))
             /\ Joined(m, WiresAt(t, n, i))
  <2>1. TerminalsOn(m, WiresAt(t, n, i)) = TerminalsOn(n, WiresAt(t, n, i))
    BY <1>2, <1>6 DEF TerminalsOn, WiresAt, NetAt
  <2>2. \A x : TerminalComponent(m, x) = TerminalComponent(n, x)
    BY <1>2, SameDevices
  <2>3. Incidences(m, WiresAt(t, n, i)) = Incidences(n, WiresAt(t, n, i))
    BY <2>1, <2>2, SameIncidences
  <2>4. ASSUME NEW a \in WiresAt(t, n, i) PROVE ConnectedWires(m, a) = ConnectedWires(n, a)
    <3>1. a \in n.wires /\ t.wireNet[a] = i
      BY <2>4 DEF WiresAt
    <3>2. ASSUME NEW v \in n.wires, {v, a} \in n.connections PROVE v \in m.wires /\ {v, a} \in m.connections
      BY <3>1, <3>2, <1>3, <1>4, <1>6
    <3> QED BY <3>2, <1>2, <1>3 DEF ConnectedWires
  <2> QED BY <2>3, <2>4, <1>4, SameJoined
<1>7. s.wireNet \in [m.wires -> DOMAIN s.nets]
  BY <1>2, <1>3, <1>4 DEF IsFunction
<1>8. \A i \in DOMAIN s.nets \ {net} :
          /\ s.nets[i] = [wires |-> WiresAt(s, m, i),
                          components |-> Incidences(m, WiresAt(s, m, i))]
          /\ WiresAt(s, m, i) # {}
          /\ Joined(m, WiresAt(s, m, i))
  BY <1>3, <1>4, <1>5, <1>6
<1>9. \A a, b \in m.wires : {a, b} \in m.connections => s.wireNet[a] = s.wireNet[b]
  BY <1>2, <1>3, <1>4
<1>10. NetsOK(m, s, {net})
  BY <1>2, <1>3, <1>4, <1>7, <1>8, <1>9 DEF NetsOK
<1>11. t.nets[net].wires = WiresAt(t, n, net)
  <2>1. t.nets[net] = [wires |-> WiresAt(t, n, net), components |-> Incidences(n, WiresAt(t, n, net))]
    BY <1>4
  <2> QED BY <2>1
<1>12. WiresKnown(m, s, net)
  BY <1>2, <1>3, <1>11 DEF WiresKnown, WiresAt
<1> QED BY <1>1, <1>2, <1>10, <1>12 DEF NetIslands, SlotsOfNets

\* What is left after that repair.
LEMMA LosesRepaired ==
    ASSUME NEW n, NEW t, TopologyOK(n, t), NEW m, NetworkOK(m), NEW s, TopologyRecord(s),
           NEW net \in DOMAIN t.nets, LosesAtNet(n, t, m, s, net), LosesWires(n, t, m, s, net),
           NEW r \in RepairNet(s, m, net)
    PROVE  /\ NetRepaired(m, s, net, r.topology, r.nets)
           /\ NetRepairLeaves(n, t, m, r.topology, t.netIsland[net], r.nets)
<1>1. NetsOK(m, s, {net}) /\ WiresKnown(m, s, net) /\ SlotsOfNets(s)
  BY OtherNets
<1>2. NetRepaired(m, s, net, r.topology, r.nets)
  BY <1>1, RepairNetFacts
<1>3. NetRepairLeaves(n, t, m, r.topology, t.netIsland[net], r.nets)
  BY <1>2, NetRepairedIslands
<1> QED BY <1>2, <1>3

\* A wire of the network is on a net.
LEMMA WireOnNet ==
    ASSUME NEW n, NEW t, TopologyOK(n, t), NEW w \in n.wires
    PROVE  t.wireNet[w] \in DOMAIN t.nets
BY DEF TopologyOK, NetsOK

\* After remove_wire what is derived is right for the network without the wire.
LEMMA RemoveWireTopology ==
    ASSUME NEW n, NEW t, TopologyOK(n, t), NEW w, CanRemoveWire(n, w),
           NEW m, m = AfterRemoveWire(n, w), NEW u \in TopologyRemoveWire(t, m, w)
    PROVE  TopologyOK(m, u) /\ Keeps(n, t, m, u)
<1> DEFINE net == t.wireNet[w]
           s == [t EXCEPT !.wireNet = Without(@, w)]
<1>1. NetworkOK(n) /\ w \in n.wires /\ net \in DOMAIN t.nets
  BY WireOnNet DEF TopologyOK, CanRemoveWire
<1>2. /\ NetworkRecord(m) /\ m.devices = n.devices /\ m.wires = n.wires \ {w}
      /\ m.connections = {c \in n.connections : w \notin c}
      /\ m.attached = Restrict(n.attached, DOMAIN n.attached \ TerminalsOn(n, {w}))
  BY <1>1 DEF NetworkOK, NetworkRecord, AfterRemoveWire
<1>3. /\ IsFunction(m.attached) /\ DOMAIN m.attached \subseteq DOMAIN n.attached
      /\ \A x \in DOMAIN n.attached : x \in DOMAIN m.attached <=> n.attached[x] # w
      /\ \A x \in DOMAIN m.attached : m.attached[x] = n.attached[x]
  BY <1>2 DEF Restrict, IsFunction, TerminalsOn
<1>4. NetworkOK(m)
  <2>1. \A c \in m.connections : c \in n.connections /\ c \subseteq m.wires
    BY <1>1, <1>2 DEF NetworkOK
  <2>2. \A x \in DOMAIN m.attached : m.attached[x] \in m.wires
    BY <1>1, <1>2, <1>3 DEF NetworkOK
  <2> QED BY <2>1, <2>2, <1>1, <1>2, <1>3, SmallerNetwork
<1>5. /\ TopologyRecord(s) /\ s.wireNet = Without(t.wireNet, w)
      /\ s.nets = t.nets /\ s.netIsland = t.netIsland /\ s.netSlots = t.netSlots
      /\ s.islands = t.islands /\ s.islandSlots = t.islandSlots
      /\ s.componentIsland = t.componentIsland /\ s.invalidation = t.invalidation
  BY DEF TopologyOK, TopologyRecord
<1>6. PICK r \in RepairNet(s, m, net) :
          IF t.netIsland[net] = NoIsland THEN u = r.topology
          ELSE u \in RepairIsland(r.topology, m, t.netIsland[net], r.nets)
  <2> HIDE DEF s
  <2>1. CASE t.netIsland[net] = NoIsland
    BY <2>1 DEF TopologyRemoveWire, s
  <2>2. CASE t.netIsland[net] # NoIsland
    BY <2>2 DEF TopologyRemoveWire, s
  <2> QED BY <2>1, <2>2
<1> HIDE DEF s
<1>7. /\ IsFunction(s.wireNet) /\ DOMAIN s.wireNet = m.wires
      /\ \A v \in m.wires : s.wireNet[v] = t.wireNet[v]
  <2>1. DOMAIN t.wireNet = n.wires
    BY DEF TopologyOK, NetsOK
  <2> QED BY <2>1, <1>2, <1>5 DEF Without, Restrict, IsFunction
<1>8. LosesAtNet(n, t, m, s, net)
  <2>1. \A x \in DOMAIN n.attached : NetAt(t, n, x) # net => x \in DOMAIN m.attached
    BY <1>3 DEF NetAt
  <2> QED BY <2>1, <1>2, <1>3, <1>5, <1>7 DEF LosesAtNet
<1>9. LosesWires(n, t, m, s, net)
  <2>1. \A a, b \in n.wires : {a, b} \in n.connections => t.wireNet[a] = t.wireNet[b]
    BY DEF TopologyOK, NetsOK
  <2>2. \A a, b \in n.wires : {a, b} \in n.connections /\ t.wireNet[a] # net => {a, b} \in m.connections
    BY <2>1, <1>2
  <2> QED BY <2>2, <1>2, <1>5, <1>7 DEF LosesWires
<1>10. NetRepairLeaves(n, t, m, r.topology, t.netIsland[net], r.nets)
  BY <1>1, <1>4, <1>5, <1>6, <1>8, <1>9, LosesRepaired
<1> HIDE DEF net
<1>11. CASE t.netIsland[net] = NoIsland
  BY <1>4, <1>6, <1>10, <1>11, NetRepairEnds
<1>12. CASE t.netIsland[net] # NoIsland
  BY <1>4, <1>6, <1>10, <1>12, IslandRepairEnds
<1> QED BY <1>11, <1>12

\* A net that is still one net after its repair leaves the islands as they are.
LEMMA WholeNetLeaves ==
    ASSUME NEW n, NEW t, TopologyOK(n, t), NEW m, NetworkOK(m), NEW net \in DOMAIN t.nets,
           m.wires = n.wires, m.devices = n.devices, m.attached = n.attached,
           NEW v, NEW nets, nets = {net}, NetRepaired(m, t, net, v, nets)
    PROVE  NetRepairLeaves(n, t, m, v, NoIsland, nets)
<1>1. /\ NetworkOK(n) /\ NetsOK(n, t, {}) /\ IslandsOK(n, t, {}) /\ MarksOK(t)
      /\ IslandMembers(n, t) /\ NetIslands(n, t, {})
      /\ \A i \in DOMAIN t.islands :
            /\ t.islands[i] # {}
            /\ \A S \in SUBSET t.islands[i] : S # {} /\ Conducts(n, t, S) => S = t.islands[i]
  BY DEF TopologyOK, IslandsOK
<1>2. /\ TopologyRecord(v)
      /\ v.islands = t.islands /\ v.islandSlots = t.islandSlots
      /\ v.componentIsland = t.componentIsland /\ v.invalidation = t.invalidation
      /\ NetsOK(m, v, {}) /\ SlotsOfNets(v) /\ t.netSlots <= v.netSlots
      /\ \A w \in n.wires : v.wireNet[w] = t.wireNet[w]
      /\ v.netIsland[net] = t.netIsland[net]
      /\ \A i \in 1..v.netSlots : i # net => i \in 1..t.netSlots /\ v.netIsland[i] = t.netIsland[i]
  BY DEF NetRepaired
<1>3. /\ Terminals(m) = Terminals(n) /\ Components(m) = Components(n)
      /\ \A x : TerminalComponent(m, x) = TerminalComponent(n, x)
  BY SameDevices
<1>4. \A x \in DOMAIN n.attached : n.attached[x] \in n.wires /\ NetAt(v, m, x) = NetAt(t, n, x)
  BY <1>1, <1>2 DEF NetworkOK, NetAt
<1>5. \A i \in 1..v.netSlots : i \in 1..t.netSlots /\ v.netIsland[i] = t.netIsland[i]
  BY <1>1, <1>2 DEF NetsOK
<1>6. IslandMembers(m, v)
  BY <1>1, <1>2, <1>3 DEF IslandMembers
<1>7. NetIslands(m, v, {})
  <2>1. \A i \in 1..v.netSlots : v.netIsland[i] = NoIsland \/ \E x \in DOMAIN m.attached : NetAt(v, m, x) = i
    BY <1>1, <1>4, <1>5 DEF NetIslands
  <2>2. \A x \in DOMAIN m.attached : NetAt(v, m, x) \in 1..v.netSlots
    <3>1. \A x \in DOMAIN m.attached : m.attached[x] \in m.wires
      BY DEF NetworkOK
    <3> QED BY <3>1, <1>2 DEF NetsOK, NetAt
  <2>3. \A x \in DOMAIN m.attached :
          v.netIsland[NetAt(v, m, x)] = v.componentIsland[TerminalComponent(m, x)]
    BY <1>1, <1>2, <1>3, <1>4, <1>5, <2>2 DEF NetIslands
  <2> QED BY <2>1, <2>3, <1>2 DEF NetIslands, SlotsOfNets
<1>8. \A S : Conducts(m, v, S) => Conducts(n, t, S)
  BY <1>3, <1>4 DEF Conducts
<1>9. IslandsOK(m, v, {NoIsland} \ {NoIsland})
  <2>1. {NoIsland} \ {NoIsland} = {}
    OBVIOUS
  <2>2. IslandsOK(m, v, {})
    BY <1>1, <1>2, <1>6, <1>7, <1>8 DEF IslandsOK
  <2> QED BY <2>1, <2>2
<1>10. \A i \in DOMAIN t.islands : SameTerminals(n, t, m, v, t.islands[i])
  BY <1>3, <1>4 DEF SameTerminals
<1>11. MarksOK(v)
  BY <1>1, <1>2 DEF MarksOK
<1> QED BY <1>2, <1>9, <1>10, <1>11 DEF NetRepairLeaves

\* After disconnect_wires what is derived is right for the network without the
\* connection.
LEMMA DisconnectWiresTopology ==
    ASSUME NEW n, NEW t, TopologyOK(n, t), NEW a, NEW b, CanDisconnectWires(n, a, b),
           NEW m, m = AfterDisconnectWires(n, a, b), NEW u \in TopologyDisconnectWires(t, m, a)
    PROVE  TopologyOK(m, u) /\ Keeps(n, t, m, u)
<1> DEFINE net == t.wireNet[a]
<1>1. NetworkOK(n) /\ {a, b} \in n.connections /\ TopologyRecord(t)
  BY DEF TopologyOK, CanDisconnectWires
<1>2. a \in n.wires /\ b \in n.wires
  <2>1. PICK v, w \in n.wires : {a, b} = {v, w}
    BY <1>1 DEF NetworkOK
  <2> QED BY <2>1
<1>3. net \in DOMAIN t.nets
  BY <1>2, WireOnNet
<1>4. /\ NetworkRecord(m) /\ m.devices = n.devices /\ m.wires = n.wires /\ m.attached = n.attached
      /\ m.connections = n.connections \ {{a, b}}
  BY <1>1 DEF NetworkOK, NetworkRecord, AfterDisconnectWires
<1>5. NetworkOK(m)
  <2>1. \A c \in m.connections : c \in n.connections /\ c \subseteq m.wires
    BY <1>1, <1>4 DEF NetworkOK
  <2>2. IsFunction(m.attached)
        /\ \A x \in DOMAIN m.attached : m.attached[x] = n.attached[x] /\ m.attached[x] \in m.wires
    BY <1>1, <1>4 DEF NetworkOK, IsFunction
  <2> QED BY <2>1, <2>2, <1>1, <1>4, SmallerNetwork
<1>6. PICK r \in RepairNet(t, m, net) :
          IF Cardinality(r.nets) > 1 /\ t.netIsland[net] # NoIsland
          THEN u \in RepairIsland(r.topology, m, t.netIsland[net], r.nets)
          ELSE u = r.topology
  <2>1. PICK r \in RepairNet(t, m, net) :
            u \in IF Cardinality(r.nets) > 1 /\ t.netIsland[net] # NoIsland
                  THEN RepairIsland(r.topology, m, t.netIsland[net], r.nets) ELSE {r.topology}
    BY Zenon DEF TopologyDisconnectWires
  <2>2. CASE Cardinality(r.nets) > 1 /\ t.netIsland[net] # NoIsland
    BY <2>1, <2>2
  <2>3. CASE ~(Cardinality(r.nets) > 1 /\ t.netIsland[net] # NoIsland)
    BY <2>1, <2>3
  <2> QED BY <2>2, <2>3
<1>7. LosesAtNet(n, t, m, t, net)
  BY <1>4 DEF LosesAtNet
<1>8. LosesWires(n, t, m, t, net)
  <2>1. \A v, w \in n.wires : {v, w} \in n.connections => t.wireNet[v] = t.wireNet[w]
    BY DEF TopologyOK, NetsOK
  <2>2. t.wireNet[b] = net
    BY <2>1, <1>1, <1>2
  <2>3. \A v, w \in n.wires : {v, w} \in n.connections /\ t.wireNet[v] # net => {v, w} \in m.connections
    BY <2>2, <1>4
  <2>4. IsFunction(t.wireNet) /\ DOMAIN t.wireNet = n.wires
    BY DEF TopologyOK, NetsOK, IsFunction
  <2> QED BY <2>3, <2>4, <1>4 DEF LosesWires
<1>9. /\ NetRepaired(m, t, net, r.topology, r.nets)
      /\ NetRepairLeaves(n, t, m, r.topology, t.netIsland[net], r.nets)
  BY <1>1, <1>3, <1>5, <1>6, <1>7, <1>8, LosesRepaired
<1>10. net \in r.nets /\ IsFiniteSet(r.nets)
  <2>1. a \in WiresAt(t, m, net)
    BY <1>2, <1>4 DEF WiresAt
  <2> QED BY <2>1, <1>9 DEF NetRepaired
<1> HIDE DEF net
<1>11. CASE t.netIsland[net] = NoIsland
  BY <1>5, <1>6, <1>9, <1>11, NetRepairEnds
<1>12. CASE t.netIsland[net] # NoIsland /\ Cardinality(r.nets) > 1
  BY <1>5, <1>6, <1>9, <1>12, IslandRepairEnds
<1>13. CASE t.netIsland[net] # NoIsland /\ ~(Cardinality(r.nets) > 1)
  <2>1. r.nets = {net}
    <3>1. Cardinality(r.nets) \in Nat
      BY <1>10, FS_CardinalityType
    <3>2. IsFiniteSet(r.nets \ {net})
          /\ Cardinality(r.nets \ {net}) = Cardinality(r.nets) - 1
      BY <1>10, FS_RemoveElement
    <3>3. Cardinality(r.nets \ {net}) \in Nat
      BY <3>2, FS_CardinalityType
    <3>4. Cardinality(r.nets \ {net}) = 0
      BY <3>1, <3>2, <3>3, <1>13
    <3>5. r.nets \ {net} = {}
      BY <3>2, <3>4, FS_EmptySet
    <3> QED BY <3>5, <1>10
  <2>2. NetRepairLeaves(n, t, m, r.topology, NoIsland, r.nets)
    BY <2>1, <1>3, <1>4, <1>5, <1>9, WholeNetLeaves
  <2>3. u = r.topology
    BY <1>6, <1>13
  <2> QED BY <2>2, <2>3, <1>5, NetRepairEnds
<1> QED BY <1>11, <1>12, <1>13

-----------------------------------------------------------------------------
(* detach_terminal.                                                        *)

\* The network after a terminal is detached.
LEMMA DetachNetwork ==
    ASSUME NEW n, NetworkOK(n), NEW x \in DOMAIN n.attached, NEW m, m = AfterDetachTerminal(n, x)
    PROVE  /\ NetworkOK(m)
           /\ m.wires = n.wires /\ m.connections = n.connections /\ m.devices = n.devices
           /\ DOMAIN m.attached = DOMAIN n.attached \ {x}
           /\ \A y \in DOMAIN m.attached : m.attached[y] = n.attached[y]
           /\ Terminals(m) = Terminals(n) /\ Components(m) = Components(n)
           /\ \A y : TerminalComponent(m, y) = TerminalComponent(n, y)
<1>1. /\ NetworkRecord(m) /\ m.devices = n.devices /\ m.wires = n.wires
      /\ m.connections = n.connections
      /\ m.attached = Restrict(n.attached, DOMAIN n.attached \ {x})
  BY DEF NetworkOK, NetworkRecord, AfterDetachTerminal
<1>2. /\ IsFunction(m.attached) /\ DOMAIN m.attached = DOMAIN n.attached \ {x}
      /\ \A y \in DOMAIN m.attached : m.attached[y] = n.attached[y]
  BY <1>1 DEF Restrict, IsFunction
<1>3. NetworkOK(m)
  <2>1. \A c \in m.connections : c \in n.connections /\ c \subseteq m.wires
    BY <1>1 DEF NetworkOK
  <2>2. \A y \in DOMAIN m.attached : m.attached[y] \in m.wires
    BY <1>1, <1>2 DEF NetworkOK
  <2>3. DOMAIN m.attached \subseteq DOMAIN n.attached /\ m.wires \subseteq n.wires
    BY <1>1, <1>2
  <2> QED BY <2>1, <2>2, <2>3, <1>1, <1>2, SmallerNetwork
<1> QED BY <1>1, <1>2, <1>3, SameDevices

\* A net counts an incidence of a component less.
NetDetached(t, v, net, component) ==
    /\ TopologyRecord(v) /\ v.netSlots = t.netSlots /\ v.wireNet = t.wireNet
    /\ v.netIsland = t.netIsland /\ v.islands = t.islands /\ v.islandSlots = t.islandSlots
    /\ v.componentIsland = t.componentIsland /\ v.invalidation = t.invalidation
    /\ v.nets = [t.nets EXCEPT ![net] =
                    [wires |-> t.nets[net].wires,
                     components |-> t.nets[net].components (-) SetToBag({component})]]

\* What detach_terminal does, before it repairs the island.
LEMMA DetachCases ==
    ASSUME NEW n, NEW t, TopologyOK(n, t), NEW full, NEW w, w \in n.wires, NEW x, NEW component,
           component = TerminalComponent(full, x), NEW u \in TopologyDetachTerminal(t, full, w, x)
    PROVE  \E v : /\ NetDetached(t, v, t.wireNet[w], component)
                  /\ u \in RepairIsland(v, full, t.componentIsland[component], {t.wireNet[w]})
<1> DEFINE net == t.wireNet[w]
           v == [t EXCEPT !.nets[net].components = @ (-) SetToBag({component})]
           nets == [t.nets EXCEPT ![net].components = @ (-) SetToBag({component})]
<1>1. NetsOK(n, t, {}) /\ TopologyRecord(t)
  BY DEF TopologyOK
<1>2. t.nets[net] = [wires |-> WiresAt(t, n, net), components |-> Incidences(n, WiresAt(t, n, net))]
      /\ net \in DOMAIN t.nets /\ IsFunction(t.nets)
  BY <1>1 DEF NetsOK
<1>3. nets = [t.nets EXCEPT ![net] =
                  [wires |-> t.nets[net].wires,
                   components |-> t.nets[net].components (-) SetToBag({component})]]
  BY <1>2
<1>4. v = [t EXCEPT !.nets = nets]
  <2> DEFINE Less(f) == f (-) SetToBag({component})
  <2>1. v = [t EXCEPT !.nets[net].components = Less(@)]
        /\ nets = [t.nets EXCEPT ![net].components = Less(@)]
    BY Zenon
  <2> HIDE DEF Less
  <2> QED BY <2>1, <1>1 DEF TopologyRecord
<1>5. u \in RepairIsland(v, full, t.componentIsland[component], {net})
  BY DEF TopologyDetachTerminal
<1> HIDE DEF nets, v
<1>6. NetDetached(t, v, net, component)
  BY <1>3, <1>4, <1>1 DEF TopologyRecord, NetDetached
<1> QED BY <1>5, <1>6

\* The net of the terminal counts one incidence less, the others what they did.
LEMMA DetachNets ==
    ASSUME NEW n, NEW t, NetworkOK(n), NetsOK(n, t, {}), NEW x \in DOMAIN n.attached,
           NEW m, m = AfterDetachTerminal(n, x),
           NEW u, NetDetached(t, u, NetAt(t, n, x), TerminalComponent(n, x))
    PROVE  NetsOK(m, u, {})
<1> DEFINE net == NetAt(t, n, x)
           W == WiresAt(t, n, net)
<1>1. /\ m.wires = n.wires /\ m.connections = n.connections
      /\ DOMAIN m.attached = DOMAIN n.attached \ {x}
      /\ \A y \in DOMAIN m.attached : m.attached[y] = n.attached[y]
      /\ \A y : TerminalComponent(m, y) = TerminalComponent(n, y)
      /\ n.attached[x] \in n.wires
  <2>1. n.attached[x] \in n.wires
    BY DEF NetworkOK
  <2> QED BY <2>1, DetachNetwork
<1>2. /\ t.netSlots \in Nat /\ IsFunction(t.nets) /\ DOMAIN t.nets \subseteq 1..t.netSlots
      /\ t.wireNet \in [n.wires -> DOMAIN t.nets]
      /\ \A v, z \in n.wires : {v, z} \in n.connections => t.wireNet[v] = t.wireNet[z]
      /\ \A i \in DOMAIN t.nets :
            /\ t.nets[i] = [wires |-> WiresAt(t, n, i),
                            components |-> Incidences(n, WiresAt(t, n, i))]
            /\ WiresAt(t, n, i) # {}
            /\ Joined(n, WiresAt(t, n, i))
  BY DEF NetsOK
<1>3. u.netSlots = t.netSlots /\ u.wireNet = t.wireNet
      /\ u.nets = [t.nets EXCEPT ![net] =
                      [wires |-> t.nets[net].wires,
                       components |-> t.nets[net].components (-) SetToBag({TerminalComponent(n, x)})]]
  BY DEF NetDetached
<1>4. \A i : WiresAt(u, m, i) = WiresAt(t, n, i)
  BY <1>1, <1>3 DEF WiresAt
<1>5. \A i : Joined(n, WiresAt(t, n, i)) => Joined(m, WiresAt(t, n, i))
  <2>1. \A v : ConnectedWires(m, v) = ConnectedWires(n, v)
    BY <1>1 DEF ConnectedWires
  <2> QED BY <2>1, SameJoined
<1>6. ASSUME NEW i, i # net PROVE Incidences(m, WiresAt(t, n, i)) = Incidences(n, WiresAt(t, n, i))
  <2>1. n.attached[x] \notin WiresAt(t, n, i)
    BY <1>6 DEF WiresAt, NetAt
  <2>2. TerminalsOn(m, WiresAt(t, n, i)) = TerminalsOn(n, WiresAt(t, n, i))
    BY <2>1, <1>1 DEF TerminalsOn
  <2> QED BY <2>2, <1>1, SameIncidences
<1>7. Incidences(m, W) = Incidences(n, W) (-) SetToBag({TerminalComponent(n, x)})
  <2> DEFINE T == TerminalsOn(n, W)
  <2>1. TerminalsOn(m, W) = T \ {x} /\ x \in T /\ T \in SUBSET DOMAIN n.attached
    BY <1>1 DEF TerminalsOn, WiresAt, NetAt
  <2>2. IsFiniteSet(T)
    BY <2>1, FS_Subset DEF NetworkOK
  <2>3. Incidences(m, W) = TerminalCount(m, T \ {x}) /\ Incidences(n, W) = TerminalCount(n, T)
    BY <2>1, IncidencesCount
  <2>4. TerminalCount(m, T \ {x}) = TerminalCount(n, T \ {x})
    BY <1>1 DEF TerminalCount
  <2> HIDE DEF T, W
  <2>5. TerminalCount(n, T \ {x}) = TerminalCount(n, T) (-) SetToBag({TerminalComponent(n, x)})
    BY <2>1, <2>2, CountWithout
  <2> QED BY <2>3, <2>4, <2>5
<1>8. ASSUME NEW i \in DOMAIN u.nets
      PROVE  /\ i \in DOMAIN t.nets
             /\ u.nets[i] = [wires |-> WiresAt(u, m, i),
                             components |-> Incidences(m, WiresAt(u, m, i))]
  <2>1. CASE i = net
    <3>1. t.nets[net].wires = W /\ t.nets[net].components = Incidences(n, W) /\ net \in DOMAIN t.nets
      <4>1. net \in DOMAIN t.nets /\ t.nets[net] = [wires |-> W, components |-> Incidences(n, W)]
        BY <1>1, <1>2 DEF NetAt
      <4> QED BY <4>1
    <3>2. u.nets[net] = [wires |-> W, components |-> Incidences(m, W)]
      BY <3>1, <1>2, <1>3, <1>7
    <3> QED BY <2>1, <3>1, <3>2, <1>4
  <2>2. CASE i # net
    <3>1. i \in DOMAIN t.nets /\ u.nets[i] = t.nets[i]
      BY <2>2, <1>3
    <3> QED BY <2>2, <3>1, <1>2, <1>4, <1>6
  <2> QED BY <2>1, <2>2
<1>9. IsFunction(u.nets) /\ DOMAIN u.nets = DOMAIN t.nets
  BY <1>3 DEF IsFunction
<1>10. ASSUME NEW i \in DOMAIN u.nets
       PROVE  WiresAt(u, m, i) # {} /\ Joined(m, WiresAt(u, m, i))
  BY <1>2, <1>4, <1>5, <1>9
<1>11. /\ u.wireNet \in [m.wires -> DOMAIN u.nets]
       /\ \A v, z \in m.wires : {v, z} \in m.connections => u.wireNet[v] = u.wireNet[z]
       /\ u.netSlots \in Nat /\ DOMAIN u.nets \subseteq 1..u.netSlots
  BY <1>1, <1>2, <1>3, <1>9
<1> QED BY <1>8, <1>9, <1>10, <1>11 DEF NetsOK

\* The island of the component is what is left to repair.
LEMMA DetachLeaves ==
    ASSUME NEW n, NEW t, TopologyOK(n, t), NEW x \in DOMAIN n.attached,
           NEW m, m = AfterDetachTerminal(n, x),
           NEW v, NetDetached(t, v, NetAt(t, n, x), TerminalComponent(n, x))
    PROVE  /\ NetRepairLeaves(n, t, m, v, t.componentIsland[TerminalComponent(n, x)], {NetAt(t, n, x)})
           /\ t.componentIsland[TerminalComponent(n, x)] # NoIsland
<1> DEFINE net == NetAt(t, n, x)
           island == t.componentIsland[TerminalComponent(n, x)]
<1>1. /\ NetworkOK(n) /\ NetsOK(n, t, {}) /\ IslandsOK(n, t, {}) /\ MarksOK(t)
      /\ IslandMembers(n, t) /\ NetIslands(n, t, {})
      /\ \A i \in DOMAIN t.islands :
            /\ t.islands[i] # {}
            /\ \A S \in SUBSET t.islands[i] : S # {} /\ Conducts(n, t, S) => S = t.islands[i]
  BY DEF TopologyOK, IslandsOK
<1>2. /\ NetworkOK(m) /\ m.wires = n.wires /\ DOMAIN m.attached = DOMAIN n.attached \ {x}
      /\ \A y \in DOMAIN m.attached : m.attached[y] = n.attached[y]
      /\ Terminals(m) = Terminals(n) /\ Components(m) = Components(n)
      /\ \A y : TerminalComponent(m, y) = TerminalComponent(n, y)
  BY <1>1, DetachNetwork
<1>3. /\ TopologyRecord(v) /\ v.netSlots = t.netSlots /\ v.wireNet = t.wireNet
      /\ v.netIsland = t.netIsland /\ v.islands = t.islands /\ v.islandSlots = t.islandSlots
      /\ v.componentIsland = t.componentIsland /\ v.invalidation = t.invalidation
      /\ DOMAIN v.nets = DOMAIN t.nets
  BY DEF NetDetached
<1>4. NetsOK(m, v, {})
  BY <1>1, DetachNets
<1>5. /\ NoIsland \notin DOMAIN t.islands
      /\ \A y \in DOMAIN n.attached :
            /\ n.attached[y] \in n.wires /\ TerminalComponent(n, y) \in Components(n)
            /\ NetAt(t, n, y) \in DOMAIN t.nets /\ NetAt(t, n, y) \in 1..t.netSlots
            /\ t.netIsland[NetAt(t, n, y)] = t.componentIsland[TerminalComponent(n, y)]
            /\ t.netIsland[NetAt(t, n, y)] \in DOMAIN t.islands
            /\ TerminalComponent(n, y) \in t.islands[t.netIsland[NetAt(t, n, y)]]
  BY <1>1, IslandFacts
<1>6. island \in DOMAIN t.islands /\ island # NoIsland /\ t.netIsland[net] = island
      /\ net \in DOMAIN t.nets
  BY <1>5
<1>7. \A y \in DOMAIN m.attached : y \in DOMAIN n.attached /\ NetAt(v, m, y) = NetAt(t, n, y)
  BY <1>2, <1>3 DEF NetAt
<1> HIDE DEF net, island
<1>8. \A c \in Components(n) : \A i \in DOMAIN t.islands : c \in t.islands[i] <=> t.componentIsland[c] = i
  BY <1>1 DEF IslandMembers
<1>9. \A i \in DOMAIN t.islands : i # island =>
        \A y \in DOMAIN n.attached : TerminalComponent(n, y) \in t.islands[i] =>
            y \in DOMAIN m.attached /\ NetAt(t, n, y) # net
  BY <1>2, <1>5, <1>6, <1>8 DEF island
<1>10. IslandMembers(m, v)
  BY <1>1, <1>2, <1>3 DEF IslandMembers
<1>11. NetIslands(m, v, {island})
  <2>1. ASSUME NEW i \in 1..v.netSlots
        PROVE  \/ v.netIsland[i] = NoIsland
               \/ \E y \in DOMAIN m.attached : NetAt(v, m, y) = i
               \/ v.netIsland[i] \in {island} /\ i \in DOMAIN v.nets
    <3>1. t.netIsland[i] = NoIsland \/ \E y \in DOMAIN n.attached : NetAt(t, n, y) = i
      BY <1>1, <1>3 DEF NetIslands
    <3>2. CASE i = net
      BY <3>2, <1>3, <1>6
    <3>3. CASE i # net
      BY <3>1, <3>3, <1>2, <1>3, <1>7 DEF net
    <3> QED BY <3>2, <3>3
  <2>2. \A y \in DOMAIN m.attached :
          v.netIsland[NetAt(v, m, y)] = v.componentIsland[TerminalComponent(m, y)]
    BY <1>2, <1>3, <1>5, <1>7
  <2>3. IsFunction(v.netIsland) /\ DOMAIN v.netIsland = 1..v.netSlots
    BY <1>1, <1>3 DEF NetIslands
  <2> QED BY <2>1, <2>2, <2>3 DEF NetIslands
<1>12. ASSUME NEW i \in DOMAIN t.islands, i # island, NEW S \in SUBSET t.islands[i], Conducts(m, v, S)
       PROVE  Conducts(n, t, S)
  <2> SUFFICES ASSUME NEW y \in DOMAIN n.attached, NEW z \in DOMAIN n.attached,
                      NetAt(t, n, y) = NetAt(t, n, z), TerminalComponent(n, y) \in S
               PROVE  TerminalComponent(n, z) \in S
    BY DEF Conducts
  <2>1. NetAt(t, n, y) # net /\ y \in DOMAIN m.attached
    BY <1>9, <1>12
  <2>2. z \in DOMAIN m.attached
    BY <2>1, <1>2 DEF net
  <2> QED BY <2>1, <2>2, <1>2, <1>7, <1>12 DEF Conducts
<1>13. IslandsOK(m, v, {island} \ {NoIsland})
  <2>1. {island} \ {NoIsland} = {island}
    BY <1>6
  <2>2. IslandsOK(m, v, {island})
    BY <1>1, <1>3, <1>10, <1>11, <1>12 DEF IslandsOK
  <2> QED BY <2>1, <2>2
<1>14. Affected(m, v, island, {net})
  <2>1. net \in NetsIn(v, island)
    BY <1>3, <1>6 DEF NetsIn
  <2>2. \A i \in NetsIn(v, island) : i = net \/ \E y \in DOMAIN m.attached : NetAt(v, m, y) = i
    <3> TAKE i \in NetsIn(v, island)
    <3>1. i \in 1..t.netSlots /\ t.netIsland[i] = island
      BY <1>1, <1>3 DEF NetsIn, NetsOK
    <3>2. \E y \in DOMAIN n.attached : NetAt(t, n, y) = i
      BY <3>1, <1>1, <1>6 DEF NetIslands
    <3> QED BY <3>2, <1>2, <1>7 DEF net
  <2> QED BY <2>1, <2>2 DEF Affected
<1>15. \A i \in DOMAIN t.islands : i # island => SameTerminals(n, t, m, v, t.islands[i])
  BY <1>2, <1>7, <1>9 DEF SameTerminals
<1>16. MarksOK(v)
  BY <1>1, <1>3 DEF MarksOK
<1>17. NetRepairLeaves(n, t, m, v, island, {net})
  BY <1>3, <1>4, <1>6, <1>13, <1>14, <1>15, <1>16 DEF NetRepairLeaves
<1> QED BY <1>6, <1>17 DEF net, island

\* After detach_terminal what is derived is right for the network without the
\* attached terminal.
LEMMA DetachTerminalTopology ==
    ASSUME NEW n, NEW t, TopologyOK(n, t), NEW w, NEW x, CanDetachTerminal(n, w, x),
           NEW m, m = AfterDetachTerminal(n, x), NEW u \in TopologyDetachTerminal(t, m, w, x)
    PROVE  TopologyOK(m, u) /\ Keeps(n, t, m, u)
<1>1. NetworkOK(n) /\ x \in DOMAIN n.attached /\ n.attached[x] = w
  BY DEF TopologyOK, CanDetachTerminal
<1>2. NetworkOK(m) /\ TerminalComponent(m, x) = TerminalComponent(n, x)
  BY <1>1, DetachNetwork
<1>3. w \in n.wires /\ t.wireNet[w] = NetAt(t, n, x)
  BY <1>1 DEF NetworkOK, NetAt
<1> DEFINE component == TerminalComponent(n, x)
<1>4. component = TerminalComponent(m, x)
  BY <1>2
<1> HIDE DEF component
<1>5. PICK v : /\ NetDetached(t, v, t.wireNet[w], component)
               /\ u \in RepairIsland(v, m, t.componentIsland[component], {t.wireNet[w]})
  BY <1>3, <1>4, DetachCases
<1>6. /\ NetRepairLeaves(n, t, m, v, t.componentIsland[component], {t.wireNet[w]})
      /\ t.componentIsland[component] # NoIsland
  BY <1>1, <1>3, <1>5, DetachLeaves DEF component
<1> DEFINE island == t.componentIsland[component]
           nets == {t.wireNet[w]}
<1>7. NetRepairLeaves(n, t, m, v, island, nets) /\ island # NoIsland
      /\ u \in RepairIsland(v, m, island, nets)
  BY <1>5, <1>6
<1> HIDE DEF island, nets
<1> QED BY <1>2, <1>7, IslandRepairEnds

-----------------------------------------------------------------------------
(* remove_device.                                                          *)

\* The network after a device is removed.
LEMMA RemoveDeviceNetwork ==
    ASSUME NEW n, NetworkOK(n), NEW d, CanRemoveDevice(n, d), NEW m, m = AfterRemoveDevice(n, d)
    PROVE  /\ NetworkOK(m) /\ m.wires = n.wires /\ m.connections = n.connections
           /\ Components(m) = {c \in Components(n) : c[1] # d}
           /\ \A x : x[1] # d => (x \in Terminals(m) <=> x \in Terminals(n))
           /\ \A x \in Terminals(m) : x[1] # d
           /\ \A x \in Terminals(n) : x[1] # d => TerminalComponent(m, x) = TerminalComponent(n, x)
           /\ DOMAIN m.attached = {x \in DOMAIN n.attached : x[1] # d}
           /\ \A x \in DOMAIN m.attached : m.attached[x] = n.attached[x]
<1>1. /\ NetworkRecord(m) /\ m.wires = n.wires /\ m.connections = n.connections
      /\ m.devices = Restrict(n.devices, DOMAIN n.devices \ {d})
      /\ m.attached = Restrict(n.attached, {x \in DOMAIN n.attached : x[1] # d})
  BY DEF NetworkOK, NetworkRecord, AfterRemoveDevice
<1>2. /\ IsFunction(m.attached) /\ DOMAIN m.attached = {x \in DOMAIN n.attached : x[1] # d}
      /\ \A x \in DOMAIN m.attached : m.attached[x] = n.attached[x]
  BY <1>1 DEF Restrict, IsFunction
<1>3. DOMAIN m.devices = DOMAIN n.devices \ {d} /\ IsFunction(m.devices)
      /\ \A e \in DOMAIN m.devices : m.devices[e] = n.devices[e]
  BY <1>1 DEF Restrict, IsFunction
<1>4. \A x : x[1] \in DOMAIN n.devices /\ x[1] # d =>
        /\ x \in Terminals(m) <=> x \in Terminals(n)
        /\ x \in Components(m) <=> x \in Components(n)
        /\ TerminalComponent(m, x) = TerminalComponent(n, x)
  BY <1>3, CommonDevice
<1>5. \A x : /\ x \in Terminals(m) \/ x \in Components(m) => x[1] \in DOMAIN n.devices /\ x[1] # d
             /\ x \in Terminals(n) \/ x \in Components(n) => x[1] \in DOMAIN n.devices
  BY <1>3, TerminalShape
<1>6. Components(m) = {c \in Components(n) : c[1] # d}
  BY <1>4, <1>5
<1>7. NetworkOK(m)
  <2>1. IsFiniteSet(Components(m))
    BY <1>6, FS_Subset DEF NetworkOK
  <2>2. IsFiniteSet(DOMAIN m.attached)
    BY <1>2, FS_Subset DEF NetworkOK
  <2>3. DOMAIN m.attached \subseteq Terminals(m)
    BY <1>2, <1>4, AttachedDevice
  <2>4. m.devices \in [DOMAIN m.devices -> Definitions] /\ DOMAIN m.devices \subseteq Devices
    <3>1. \A e \in DOMAIN m.devices : m.devices[e] \in Definitions
      <4>1. \A e \in DOMAIN n.devices : n.devices[e] \in Definitions
        BY DEF NetworkOK
      <4> QED BY <4>1, <1>3
    <3>2. DOMAIN m.devices \subseteq Devices
      BY <1>3 DEF NetworkOK
    <3> QED BY <3>1, <3>2, <1>3 DEF IsFunction
  <2>5. m.attached \in [DOMAIN m.attached -> m.wires]
    <3>1. \A x \in DOMAIN m.attached : m.attached[x] \in m.wires
      <4>1. \A x \in DOMAIN n.attached : n.attached[x] \in n.wires
        BY DEF NetworkOK
      <4> QED BY <4>1, <1>1, <1>2
    <3> QED BY <3>1, <1>2 DEF IsFunction
  <2> QED BY <2>1, <2>2, <2>3, <2>4, <2>5, <1>1 DEF NetworkOK
<1> QED BY <1>1, <1>2, <1>4, <1>5, <1>6, <1>7

\* Without the terminals of a device its components are not counted.
LEMMA CountOthers ==
    ASSUME NEW n, NEW m, NEW d, NEW T, NEW U, U = {x \in T : x[1] # d},
           \A x \in U : TerminalComponent(m, x) = TerminalComponent(n, x)
    PROVE  TerminalCount(m, U) = WithoutDevice(TerminalCount(n, T), d)
<1> DEFINE D == {TerminalComponent(n, x) : x \in T}
           E == {c \in D : c[1] # d}
           N(c) == {x \in T : TerminalComponent(n, x) = c}
           M(c) == {x \in U : TerminalComponent(m, x) = c}
<1>1. \A x : TerminalComponent(n, x)[1] = x[1]
  BY DEF TerminalComponent
<1>2. {TerminalComponent(m, x) : x \in U} = E
  BY <1>1
<1>3. \A c \in E : M(c) = N(c)
  BY <1>1
<1>4. TerminalCount(m, U) = [c \in {TerminalComponent(m, x) : x \in U} |-> Cardinality(M(c))]
  BY DEF TerminalCount
<1>5. TerminalCount(n, T) = [c \in D |-> Cardinality(N(c))]
  BY DEF TerminalCount
<1> HIDE DEF M, N
<1>6. TerminalCount(m, U) = [c \in E |-> Cardinality(N(c))]
  BY <1>2, <1>3, <1>4
<1> HIDE DEF D
<1>7. WithoutDevice(TerminalCount(n, T), d) = [c \in E |-> Cardinality(N(c))]
  BY <1>5 DEF WithoutDevice, Restrict
<1> QED BY <1>6, <1>7

\* The nets and the islands without the incidences and the components of a
\* device.
DeviceRemoved(t, r, d, nets, islands) ==
    /\ TopologyRecord(r) /\ r.netSlots = t.netSlots /\ r.wireNet = t.wireNet
    /\ r.netIsland = t.netIsland /\ r.islandSlots = t.islandSlots /\ r.invalidation = t.invalidation
    /\ IsFunction(r.nets) /\ DOMAIN r.nets = DOMAIN t.nets
    /\ \A i \in DOMAIN t.nets :
          r.nets[i] = [wires |-> t.nets[i].wires,
                       components |-> IF i \in nets THEN WithoutDevice(t.nets[i].components, d)
                                      ELSE t.nets[i].components]
    /\ IsFunction(r.islands) /\ DOMAIN r.islands = DOMAIN t.islands
    /\ \A i \in DOMAIN t.islands :
          r.islands[i] = IF i \in islands THEN {c \in t.islands[i] : c[1] # d} ELSE t.islands[i]
    /\ r.componentIsland = WithoutDevice(t.componentIsland, d)

\* The nets and the islands that the device is part of.
PartOf(n, t, d, nets, islands) ==
    /\ \A i : i \in nets <=> \E x \in DOMAIN n.attached : x[1] = d /\ NetAt(t, n, x) = i
    /\ \A i : i \in islands <=> \E c \in Components(n) : c[1] = d /\ t.componentIsland[c] = i

\* Without the device's incidences the nets are right for the network without it.
LEMMA RemoveDeviceNets ==
    ASSUME NEW n, NEW t, TopologyOK(n, t), NEW d, CanRemoveDevice(n, d),
           NEW m, m = AfterRemoveDevice(n, d), NEW nets, NEW islands, PartOf(n, t, d, nets, islands),
           NEW r, DeviceRemoved(t, r, d, nets, islands)
    PROVE  NetsOK(m, r, {})
<1>1. /\ NetworkOK(n) /\ NetsOK(n, t, {})
  BY DEF TopologyOK
<1>2. /\ m.wires = n.wires /\ m.connections = n.connections
      /\ \A x \in Terminals(n) : x[1] # d => TerminalComponent(m, x) = TerminalComponent(n, x)
      /\ DOMAIN m.attached = {x \in DOMAIN n.attached : x[1] # d}
      /\ \A x \in DOMAIN m.attached : m.attached[x] = n.attached[x]
      /\ DOMAIN n.attached \subseteq Terminals(n)
  BY <1>1, RemoveDeviceNetwork DEF NetworkOK
<1>3. /\ t.netSlots \in Nat /\ IsFunction(t.nets) /\ DOMAIN t.nets \subseteq 1..t.netSlots
      /\ t.wireNet \in [n.wires -> DOMAIN t.nets]
      /\ \A v, z \in n.wires : {v, z} \in n.connections => t.wireNet[v] = t.wireNet[z]
      /\ \A i \in DOMAIN t.nets :
            /\ t.nets[i] = [wires |-> WiresAt(t, n, i),
                            components |-> Incidences(n, WiresAt(t, n, i))]
            /\ WiresAt(t, n, i) # {}
            /\ Joined(n, WiresAt(t, n, i))
  BY <1>1 DEF NetsOK
<1>4. /\ r.netSlots = t.netSlots /\ r.wireNet = t.wireNet
      /\ IsFunction(r.nets) /\ DOMAIN r.nets = DOMAIN t.nets
      /\ \A i \in DOMAIN t.nets :
            r.nets[i] = [wires |-> t.nets[i].wires,
                         components |-> IF i \in nets THEN WithoutDevice(t.nets[i].components, d)
                                        ELSE t.nets[i].components]
  BY DEF DeviceRemoved
<1>5. \A i : WiresAt(r, m, i) = WiresAt(t, n, i)
  BY <1>2, <1>4 DEF WiresAt
<1>6. \A i : Joined(n, WiresAt(t, n, i)) => Joined(m, WiresAt(t, n, i))
  <2>1. \A v : ConnectedWires(m, v) = ConnectedWires(n, v)
    BY <1>2 DEF ConnectedWires
  <2> QED BY <2>1, SameJoined
<1>7. ASSUME NEW i, i \notin nets PROVE Incidences(m, WiresAt(t, n, i)) = Incidences(n, WiresAt(t, n, i))
  <2>1. \A x \in TerminalsOn(n, WiresAt(t, n, i)) : x \in DOMAIN n.attached /\ x[1] # d
    BY <1>7 DEF TerminalsOn, WiresAt, NetAt, PartOf
  <2>2. TerminalsOn(m, WiresAt(t, n, i)) = TerminalsOn(n, WiresAt(t, n, i))
    BY <2>1, <1>2 DEF TerminalsOn
  <2>3. \A x \in TerminalsOn(n, WiresAt(t, n, i)) : TerminalComponent(m, x) = TerminalComponent(n, x)
    BY <2>1, <1>2
  <2> QED BY <2>2, <2>3, SameIncidences
<1>8. ASSUME NEW W PROVE Incidences(m, W) = WithoutDevice(Incidences(n, W), d)
  <2> DEFINE T == TerminalsOn(n, W)
             U == TerminalsOn(m, W)
  <2>1. U = {x \in T : x[1] # d} /\ \A x \in U : TerminalComponent(m, x) = TerminalComponent(n, x)
    BY <1>2 DEF TerminalsOn
  <2>2. Incidences(m, W) = TerminalCount(m, U) /\ Incidences(n, W) = TerminalCount(n, T)
    BY IncidencesCount
  <2> HIDE DEF T, U
  <2>3. TerminalCount(m, U) = WithoutDevice(TerminalCount(n, T), d)
    BY <2>1, CountOthers
  <2> QED BY <2>2, <2>3
<1>9. ASSUME NEW i \in DOMAIN t.nets
      PROVE  r.nets[i] = [wires |-> WiresAt(t, n, i), components |-> Incidences(m, WiresAt(t, n, i))]
  <2> DEFINE W == WiresAt(t, n, i)
  <2>1. t.nets[i].wires = W /\ t.nets[i].components = Incidences(n, W)
    <3>1. t.nets[i] = [wires |-> W, components |-> Incidences(n, W)]
      BY <1>3
    <3> HIDE DEF W
    <3> QED BY <3>1
  <2>2. r.nets[i] = [wires |-> W, components |-> IF i \in nets THEN WithoutDevice(Incidences(n, W), d)
                                                  ELSE Incidences(n, W)]
    BY <2>1, <1>4
  <2>3. CASE i \in nets
    BY <2>2, <2>3, <1>8
  <2>4. CASE i \notin nets
    BY <2>2, <2>4, <1>7
  <2> QED BY <2>3, <2>4
<1>10. \A i \in DOMAIN r.nets :
          /\ r.nets[i] = [wires |-> WiresAt(r, m, i),
                          components |-> Incidences(m, WiresAt(r, m, i))]
          /\ WiresAt(r, m, i) # {} /\ Joined(m, WiresAt(r, m, i))
  BY <1>3, <1>4, <1>5, <1>6, <1>9
<1>11. /\ r.wireNet \in [m.wires -> DOMAIN r.nets]
       /\ \A v, z \in m.wires : {v, z} \in m.connections => r.wireNet[v] = r.wireNet[z]
       /\ r.netSlots \in Nat /\ DOMAIN r.nets \subseteq 1..r.netSlots
  BY <1>2, <1>3, <1>4
<1> QED BY <1>4, <1>10, <1>11 DEF NetsOK

\* Without the device's components only the islands it was part of are left to
\* be repaired.
LEMMA RemoveDeviceIslands ==
    ASSUME NEW n, NEW t, TopologyOK(n, t), NEW d, CanRemoveDevice(n, d),
           NEW m, m = AfterRemoveDevice(n, d), NEW nets, NEW islands, PartOf(n, t, d, nets, islands),
           NEW r, DeviceRemoved(t, r, d, nets, islands)
    PROVE  /\ IslandsOK(m, r, islands) /\ MarksOK(r) /\ islands \subseteq DOMAIN t.islands
           /\ \A i \in DOMAIN t.islands : r.islands[i] \subseteq t.islands[i]
           /\ \A i \in DOMAIN t.islands \ islands :
                 r.islands[i] = t.islands[i] /\ SameTerminals(n, t, m, r, t.islands[i])
<1>1. /\ NetworkOK(n) /\ NetsOK(n, t, {}) /\ IslandsOK(n, t, {}) /\ MarksOK(t)
      /\ IslandMembers(n, t) /\ NetIslands(n, t, {})
      /\ \A i \in DOMAIN t.islands :
            /\ t.islands[i] # {}
            /\ \A S \in SUBSET t.islands[i] : S # {} /\ Conducts(n, t, S) => S = t.islands[i]
  BY DEF TopologyOK, IslandsOK
<1>2. /\ NetworkOK(m) /\ m.wires = n.wires
      /\ Components(m) = {c \in Components(n) : c[1] # d}
      /\ \A x : x[1] # d => (x \in Terminals(m) <=> x \in Terminals(n))
      /\ \A x \in Terminals(m) : x[1] # d
      /\ \A x \in Terminals(n) : x[1] # d => TerminalComponent(m, x) = TerminalComponent(n, x)
      /\ DOMAIN m.attached = {x \in DOMAIN n.attached : x[1] # d}
      /\ \A x \in DOMAIN m.attached : m.attached[x] = n.attached[x]
      /\ DOMAIN n.attached \subseteq Terminals(n)
  BY <1>1, RemoveDeviceNetwork DEF NetworkOK
<1>3. /\ r.netSlots = t.netSlots /\ r.wireNet = t.wireNet
      /\ r.netIsland = t.netIsland /\ r.islandSlots = t.islandSlots /\ r.invalidation = t.invalidation
      /\ DOMAIN r.nets = DOMAIN t.nets
      /\ IsFunction(r.islands) /\ DOMAIN r.islands = DOMAIN t.islands
      /\ \A i \in DOMAIN t.islands :
            r.islands[i] = IF i \in islands THEN {c \in t.islands[i] : c[1] # d} ELSE t.islands[i]
      /\ r.componentIsland = WithoutDevice(t.componentIsland, d)
  BY DEF DeviceRemoved
<1>4. /\ \A x \in DOMAIN n.attached : x[1] = d => NetAt(t, n, x) \in nets
      /\ \A c \in Components(n) : c[1] = d => t.componentIsland[c] \in islands
      /\ \A i \in islands : \E c \in Components(n) : c[1] = d /\ t.componentIsland[c] = i
  BY DEF PartOf
<1>5. /\ t.componentIsland \in [Components(n) -> DOMAIN t.islands]
      /\ \A c \in Components(n) : \A i \in DOMAIN t.islands : c \in t.islands[i] <=> t.componentIsland[c] = i
      /\ \A i \in DOMAIN t.islands : t.islands[i] \subseteq Components(n)
  BY <1>1 DEF IslandMembers
<1>6. \A x \in DOMAIN n.attached :
          /\ TerminalComponent(n, x) \in Components(n) /\ TerminalComponent(n, x)[1] = x[1]
          /\ NetAt(t, n, x) \in DOMAIN t.nets
          /\ t.netIsland[NetAt(t, n, x)] = t.componentIsland[TerminalComponent(n, x)]
  BY <1>1, IslandFacts, TerminalShape
<1>7. \A x \in DOMAIN m.attached :
          /\ x \in DOMAIN n.attached /\ x[1] # d
          /\ NetAt(r, m, x) = NetAt(t, n, x) /\ TerminalComponent(m, x) = TerminalComponent(n, x)
  BY <1>2, <1>3 DEF NetAt
<1>8. \A i \in DOMAIN t.islands \ islands : \A c \in t.islands[i] : c \in Components(n) /\ c[1] # d
  BY <1>4, <1>5
<1>9. /\ r.componentIsland \in [Components(m) -> DOMAIN r.islands]
      /\ \A c \in Components(m) : r.componentIsland[c] = t.componentIsland[c]
  BY <1>2, <1>3, <1>5 DEF WithoutDevice, Restrict
<1>10. IslandMembers(m, r)
  <2>1. ASSUME NEW i \in DOMAIN r.islands
        PROVE  r.islands[i] = {c \in Components(m) : r.componentIsland[c] = i}
    <3>1. i \in DOMAIN t.islands
      BY <1>3
    <3>2. CASE i \in islands
      <4>1. r.islands[i] = {c \in t.islands[i] : c[1] # d}
        BY <3>1, <3>2, <1>3
      <4> QED BY <4>1, <3>1, <1>2, <1>5, <1>9
    <3>3. CASE i \notin islands
      <4>1. r.islands[i] = t.islands[i]
        BY <3>1, <3>3, <1>3
      <4> QED BY <4>1, <3>1, <3>3, <1>2, <1>5, <1>8, <1>9
    <3> QED BY <3>2, <3>3
  <2>2. r.islandSlots \in Nat /\ DOMAIN r.islands \subseteq 1..r.islandSlots
    BY <1>1, <1>3 DEF IslandMembers
  <2> QED BY <2>1, <2>2, <1>3, <1>9 DEF IslandMembers
<1>11. NetIslands(m, r, islands)
  <2>1. \A x \in DOMAIN m.attached :
          r.netIsland[NetAt(r, m, x)] = r.componentIsland[TerminalComponent(m, x)]
    <3> TAKE x \in DOMAIN m.attached
    <3>1. TerminalComponent(m, x) \in Components(m)
      BY <1>2, TerminalFacts
    <3> QED BY <3>1, <1>3, <1>6, <1>7, <1>9
  <2>2. ASSUME NEW i \in 1..r.netSlots
        PROVE  \/ r.netIsland[i] = NoIsland
               \/ \E x \in DOMAIN m.attached : NetAt(r, m, x) = i
               \/ r.netIsland[i] \in islands /\ i \in DOMAIN r.nets
    <3>1. t.netIsland[i] = NoIsland \/ \E x \in DOMAIN n.attached : NetAt(t, n, x) = i
      BY <1>1, <1>3 DEF NetIslands
    <3>2. ASSUME NEW x \in DOMAIN n.attached, NetAt(t, n, x) = i
          PROVE  \/ \E y \in DOMAIN m.attached : NetAt(r, m, y) = i
                 \/ r.netIsland[i] \in islands /\ i \in DOMAIN r.nets
      <4>1. CASE x[1] = d
        BY <4>1, <3>2, <1>3, <1>4, <1>6
      <4>2. CASE x[1] # d
        BY <4>2, <3>2, <1>2, <1>7
      <4> QED BY <4>1, <4>2
    <3> QED BY <3>1, <3>2, <1>3
  <2>3. IsFunction(r.netIsland) /\ DOMAIN r.netIsland = 1..r.netSlots
    BY <1>1, <1>3 DEF NetIslands
  <2> QED BY <2>1, <2>2, <2>3 DEF NetIslands
<1>12. ASSUME NEW i \in DOMAIN t.islands \ islands, NEW S \in SUBSET t.islands[i], Conducts(m, r, S)
       PROVE  Conducts(n, t, S)
  <2> SUFFICES ASSUME NEW y \in DOMAIN n.attached, NEW z \in DOMAIN n.attached,
                      NetAt(t, n, y) = NetAt(t, n, z), TerminalComponent(n, y) \in S
               PROVE  TerminalComponent(n, z) \in S
    BY DEF Conducts
  <2>1. t.componentIsland[TerminalComponent(n, y)] = i
    BY <1>5, <1>6, <1>12
  <2>2. t.componentIsland[TerminalComponent(n, z)] = i
    BY <2>1, <1>6
  <2>3. y[1] # d /\ z[1] # d
    BY <2>1, <2>2, <1>4, <1>6, <1>12
  <2>4. y \in DOMAIN m.attached /\ z \in DOMAIN m.attached
    BY <2>3, <1>2
  <2> QED BY <2>4, <1>7, <1>12 DEF Conducts
<1>13. \A i \in DOMAIN t.islands \ islands : r.islands[i] = t.islands[i]
  BY <1>3
<1>14. IslandsOK(m, r, islands)
  BY <1>1, <1>3, <1>10, <1>11, <1>12, <1>13 DEF IslandsOK
<1>15. MarksOK(r)
  BY <1>1, <1>3 DEF MarksOK
<1>16. ASSUME NEW i \in DOMAIN t.islands \ islands PROVE SameTerminals(n, t, m, r, t.islands[i])
  <2>1. \A x \in Terminals(n) : TerminalComponent(n, x) \in t.islands[i] => x[1] # d
    BY <1>8, TerminalShape
  <2>2. \A x \in Terminals(n) : TerminalComponent(n, x) \in t.islands[i] =>
          /\ x \in Terminals(m) /\ TerminalComponent(m, x) = TerminalComponent(n, x)
          /\ x \in DOMAIN n.attached <=> x \in DOMAIN m.attached
          /\ x \in DOMAIN n.attached => NetAt(r, m, x) = NetAt(t, n, x)
    BY <2>1, <1>2, <1>7
  <2>3. \A x \in Terminals(m) : x \in Terminals(n) /\ TerminalComponent(m, x) = TerminalComponent(n, x)
    BY <1>2
  <2> QED BY <2>2, <2>3 DEF SameTerminals
<1>17. \A i \in DOMAIN t.islands : r.islands[i] \subseteq t.islands[i]
  BY <1>3
<1>18. islands \subseteq DOMAIN t.islands
  BY <1>4, <1>5
<1> QED BY <1>13, <1>14, <1>15, <1>16, <1>17, <1>18

\* The nets of the islands that no terminal is on are all walked from.
NetsWalked(m, r, nets) ==
    /\ nets \subseteq DOMAIN r.nets
    /\ \A i \in 1..r.netSlots :
          \/ r.netIsland[i] = NoIsland
          \/ \E x \in DOMAIN m.attached : NetAt(r, m, x) = i
          \/ i \in nets

\* The walks start from every net the device was on.
LEMMA RemoveDeviceWalks ==
    ASSUME NEW n, NEW t, TopologyOK(n, t), NEW d, CanRemoveDevice(n, d),
           NEW m, m = AfterRemoveDevice(n, d), NEW nets, NEW islands, PartOf(n, t, d, nets, islands),
           NEW r, DeviceRemoved(t, r, d, nets, islands)
    PROVE  NetsWalked(m, r, nets)
<1>1. /\ NetworkOK(n) /\ NetsOK(n, t, {}) /\ IslandMembers(n, t) /\ NetIslands(n, t, {})
  BY DEF TopologyOK, IslandsOK
<1>2. /\ DOMAIN m.attached = {x \in DOMAIN n.attached : x[1] # d}
      /\ \A x \in DOMAIN m.attached : m.attached[x] = n.attached[x]
  BY <1>1, RemoveDeviceNetwork
<1>3. r.netSlots = t.netSlots /\ r.wireNet = t.wireNet /\ r.netIsland = t.netIsland
      /\ DOMAIN r.nets = DOMAIN t.nets
  BY DEF DeviceRemoved
<1>4. \A i : i \in nets <=> \E x \in DOMAIN n.attached : x[1] = d /\ NetAt(t, n, x) = i
  BY DEF PartOf
<1>5. \A x \in DOMAIN n.attached : NetAt(t, n, x) \in DOMAIN t.nets
  BY <1>1, IslandFacts
<1>6. \A x \in DOMAIN m.attached : NetAt(r, m, x) = NetAt(t, n, x)
  BY <1>2, <1>3 DEF NetAt
<1>7. ASSUME NEW i \in 1..r.netSlots, r.netIsland[i] # NoIsland, i \notin nets
      PROVE  \E x \in DOMAIN m.attached : NetAt(r, m, x) = i
  <2>1. PICK x \in DOMAIN n.attached : NetAt(t, n, x) = i
    BY <1>1, <1>3, <1>7 DEF NetIslands
  <2>2. x[1] # d
    BY <2>1, <1>4, <1>7
  <2> QED BY <2>1, <2>2, <1>2, <1>6
<1> QED BY <1>3, <1>4, <1>5, <1>7 DEF NetsWalked

\* The islands after some of those of a device were repaired one by one.
RepairedSome(m, r, islands, done, u) ==
    /\ TopologyRecord(u)
    /\ u.nets = r.nets /\ u.netSlots = r.netSlots /\ u.wireNet = r.wireNet
    /\ IslandsOK(m, u, islands \ done) /\ MarksOK(u) /\ r.islandSlots <= u.islandSlots
    /\ \A i \in DOMAIN r.islands \ done : i \in DOMAIN u.islands /\ u.islands[i] = r.islands[i]
    /\ \A i \in DOMAIN u.islands :
          i \in 1..r.islandSlots => i \in DOMAIN r.islands /\ u.islands[i] \subseteq r.islands[i]
    /\ \A i \in DOMAIN u.islands \ u.invalidation.topologyDirty :
          i \in DOMAIN r.islands \ r.invalidation.topologyDirty /\ i \notin done
    /\ DOMAIN r.islands \cup r.invalidation.retired
          \subseteq DOMAIN u.islands \cup u.invalidation.retired
    /\ \A i \in 1..r.netSlots : IF r.netIsland[i] \in done
                                THEN u.netIsland[i] \notin DOMAIN r.islands \ done
                                ELSE u.netIsland[i] = r.netIsland[i]

\* What the repairs start from.
ToRepair(m, r, islands, nets) ==
    /\ NetworkOK(m) /\ TopologyRecord(r) /\ NetsOK(m, r, {}) /\ IslandsOK(m, r, islands) /\ MarksOK(r)
    /\ NetsWalked(m, r, nets) /\ islands \subseteq DOMAIN r.islands

\* Before the first repair.
LEMMA RepairedNone ==
    ASSUME NEW m, NEW r, NEW islands, NEW nets, ToRepair(m, r, islands, nets)
    PROVE  RepairedSome(m, r, islands, {}, r)
<1>1. islands \ {} = islands
  OBVIOUS
<1>2. TopologyRecord(r) /\ IslandsOK(m, r, islands \ {}) /\ MarksOK(r)
  BY <1>1 DEF ToRepair
<1>3. r.islandSlots \in Nat /\ DOMAIN r.islands \subseteq 1..r.islandSlots
  BY <1>2 DEF IslandsOK, IslandMembers
<1>4. r.invalidation.topologyDirty \subseteq DOMAIN r.islands
  BY <1>2 DEF MarksOK
<1> QED BY <1>2, <1>3, <1>4 DEF RepairedSome

\* The repair of one more island leaves the others as they are.
LEMMA RepairedOneMore ==
    ASSUME NEW m, NEW r, NEW islands, NEW nets, ToRepair(m, r, islands, nets),
           NEW done, NEW island \in islands, island \notin done,
           NEW a, RepairedSome(m, r, islands, done, a),
           NEW b \in RepairIsland(a, m, island, {i \in nets : a.netIsland[i] = island})
    PROVE  RepairedSome(m, r, islands, done \cup {island}, b)
<1> DEFINE affected == {i \in nets : a.netIsland[i] = island}
           open == islands \ done
           more == done \cup {island}
<1>1. /\ NetworkOK(m) /\ NetsOK(m, r, {}) /\ IslandsOK(m, r, islands) /\ MarksOK(r)
      /\ islands \subseteq DOMAIN r.islands
      /\ nets \subseteq DOMAIN r.nets
      /\ \A i \in 1..r.netSlots :
            \/ r.netIsland[i] = NoIsland
            \/ \E x \in DOMAIN m.attached : NetAt(r, m, x) = i
            \/ i \in nets
  BY DEF ToRepair, NetsWalked
<1>2. /\ TopologyRecord(a)
      /\ a.nets = r.nets /\ a.netSlots = r.netSlots /\ a.wireNet = r.wireNet
      /\ IslandsOK(m, a, open) /\ MarksOK(a) /\ r.islandSlots <= a.islandSlots
      /\ \A i \in DOMAIN r.islands \ done : i \in DOMAIN a.islands /\ a.islands[i] = r.islands[i]
      /\ \A i \in DOMAIN a.islands :
            i \in 1..r.islandSlots => i \in DOMAIN r.islands /\ a.islands[i] \subseteq r.islands[i]
      /\ \A i \in DOMAIN a.islands \ a.invalidation.topologyDirty :
            i \in DOMAIN r.islands \ r.invalidation.topologyDirty /\ i \notin done
      /\ DOMAIN r.islands \cup r.invalidation.retired
            \subseteq DOMAIN a.islands \cup a.invalidation.retired
      /\ \A i \in 1..r.netSlots : IF r.netIsland[i] \in done
                                  THEN a.netIsland[i] \notin DOMAIN r.islands \ done
                                  ELSE a.netIsland[i] = r.netIsland[i]
  BY DEF RepairedSome
<1> HIDE DEF open
<1>3. NetsOK(m, a, {})
  BY <1>1, <1>2, SameNets
<1>4. island \in DOMAIN r.islands /\ island \in DOMAIN a.islands /\ island # NoIsland
  <2>1. NoIsland \notin DOMAIN r.islands
    BY <1>1 DEF IslandsOK, IslandMembers, NoIsland
  <2> QED BY <2>1, <1>1, <1>2
<1>5. Affected(m, a, island, affected)
  <2>1. affected \subseteq NetsIn(a, island)
    BY <1>1, <1>2 DEF NetsIn
  <2>2. ASSUME NEW i \in NetsIn(a, island)
        PROVE  i \in affected \/ \E x \in DOMAIN m.attached : NetAt(a, m, x) = i
    <3>1. a.netIsland[i] = island /\ i \in 1..r.netSlots
      BY <1>2, <1>3 DEF NetsIn, NetsOK
    <3>2. r.netIsland[i] = island
      BY <3>1, <1>2, <1>4
    <3>3. i \in nets \/ \E x \in DOMAIN m.attached : NetAt(r, m, x) = i
      BY <3>1, <3>2, <1>1, <1>4
    <3>4. \A x : NetAt(a, m, x) = NetAt(r, m, x)
      BY <1>2 DEF NetAt
    <3> QED BY <3>1, <3>3, <3>4
  <2> QED BY <2>1, <2>2 DEF Affected
<1>6. b \in RepairIsland(a, m, island, affected)
  OBVIOUS
<1> HIDE DEF affected
<1>7. IslandRepaired(m, a, open, island, b)
  BY <1>1, <1>2, <1>3, <1>4, <1>5, <1>6, RepairIslandFacts
<1>8. /\ TopologyRecord(b)
      /\ b.nets = a.nets /\ b.netSlots = a.netSlots /\ b.wireNet = a.wireNet
      /\ IslandsOK(m, b, open \ {island}) /\ MarksOK(b) /\ a.islandSlots <= b.islandSlots
      /\ \A i \in DOMAIN a.islands \ {island} : i \in DOMAIN b.islands /\ b.islands[i] = a.islands[i]
      /\ \A i \in DOMAIN b.islands :
            i \in 1..a.islandSlots => i \in DOMAIN a.islands /\ b.islands[i] \subseteq a.islands[i]
      /\ \A i \in DOMAIN b.islands \ b.invalidation.topologyDirty :
            i \in DOMAIN a.islands \ a.invalidation.topologyDirty /\ i # island
      /\ DOMAIN a.islands \cup a.invalidation.retired
            \subseteq DOMAIN b.islands \cup b.invalidation.retired
      /\ \A i \in 1..a.netSlots : IF a.netIsland[i] = island
                                  THEN b.netIsland[i] \notin DOMAIN a.islands \ {island}
                                  ELSE b.netIsland[i] = a.netIsland[i]
  BY <1>7 DEF IslandRepaired
<1>9. open \ {island} = islands \ more
  BY DEF open
<1>10. r.islandSlots <= b.islandSlots /\ 1..r.islandSlots \subseteq 1..a.islandSlots
  <2>1. r.islandSlots \in Nat /\ a.islandSlots \in Nat /\ b.islandSlots \in Nat
    BY <1>1, <1>2, <1>8 DEF IslandsOK, IslandMembers
  <2> QED BY <2>1, <1>2, <1>8
<1>11. \A i \in DOMAIN r.islands \ more : i \in DOMAIN b.islands /\ b.islands[i] = r.islands[i]
  BY <1>2, <1>8
<1>12. \A i \in DOMAIN b.islands :
          i \in 1..r.islandSlots => i \in DOMAIN r.islands /\ b.islands[i] \subseteq r.islands[i]
  BY <1>2, <1>8, <1>10
<1>13. \A i \in DOMAIN b.islands \ b.invalidation.topologyDirty :
          i \in DOMAIN r.islands \ r.invalidation.topologyDirty /\ i \notin more
  BY <1>2, <1>8
<1>14. DOMAIN r.islands \cup r.invalidation.retired
          \subseteq DOMAIN b.islands \cup b.invalidation.retired
  BY <1>2, <1>8
<1>15. ASSUME NEW i \in 1..r.netSlots
       PROVE  IF r.netIsland[i] \in more THEN b.netIsland[i] \notin DOMAIN r.islands \ more
              ELSE b.netIsland[i] = r.netIsland[i]
  <2>1. IF a.netIsland[i] = island THEN b.netIsland[i] \notin DOMAIN a.islands \ {island}
        ELSE b.netIsland[i] = a.netIsland[i]
    BY <1>2, <1>8
  <2>2. IF r.netIsland[i] \in done THEN a.netIsland[i] \notin DOMAIN r.islands \ done
        ELSE a.netIsland[i] = r.netIsland[i]
    BY <1>2
  <2>3. DOMAIN r.islands \ more \subseteq DOMAIN a.islands \ {island}
    BY <1>2
  <2> QED BY <2>1, <2>2, <2>3, <1>4
<1>16. IslandsOK(m, b, islands \ more)
  BY <1>8, <1>9
<1> HIDE DEF more
<1>17. RepairedSome(m, r, islands, more, b)
  BY <1>2, <1>8, <1>10, <1>11, <1>12, <1>13, <1>14, <1>15, <1>16 DEF RepairedSome
<1> QED BY <1>17 DEF more

\* When all of them are repaired, what is derived is right for the network
\* without the device.
LEMMA RepairedAll ==
    ASSUME NEW n, NEW t, TopologyOK(n, t), NEW d, CanRemoveDevice(n, d),
           NEW m, m = AfterRemoveDevice(n, d), NEW nets, NEW islands, PartOf(n, t, d, nets, islands),
           NEW r, DeviceRemoved(t, r, d, nets, islands),
           NEW u, RepairedSome(m, r, islands, islands, u)
    PROVE  TopologyOK(m, u) /\ Keeps(n, t, m, u)
<1>1. /\ IslandsOK(m, r, islands) /\ MarksOK(r) /\ islands \subseteq DOMAIN t.islands
      /\ \A i \in DOMAIN t.islands : r.islands[i] \subseteq t.islands[i]
      /\ \A i \in DOMAIN t.islands \ islands :
            r.islands[i] = t.islands[i] /\ SameTerminals(n, t, m, r, t.islands[i])
  BY RemoveDeviceIslands
<1>2. NetworkOK(m) /\ NetsOK(m, r, {})
  <2>1. NetworkOK(n)
    BY DEF TopologyOK
  <2> QED BY <2>1, RemoveDeviceNetwork, RemoveDeviceNets
<1>3. /\ DOMAIN r.islands = DOMAIN t.islands /\ r.islandSlots = t.islandSlots
      /\ r.invalidation = t.invalidation
  BY DEF DeviceRemoved
<1>4. islands \ islands = {}
  OBVIOUS
<1>5. /\ TopologyRecord(u)
      /\ u.nets = r.nets /\ u.netSlots = r.netSlots /\ u.wireNet = r.wireNet
      /\ IslandsOK(m, u, {}) /\ MarksOK(u) /\ t.islandSlots <= u.islandSlots
      /\ \A i \in DOMAIN t.islands \ islands : i \in DOMAIN u.islands /\ u.islands[i] = r.islands[i]
      /\ \A i \in DOMAIN u.islands :
            i \in 1..t.islandSlots => i \in DOMAIN t.islands /\ u.islands[i] \subseteq r.islands[i]
      /\ \A i \in DOMAIN u.islands \ u.invalidation.topologyDirty :
            i \in DOMAIN t.islands \ t.invalidation.topologyDirty /\ i \notin islands
      /\ DOMAIN t.islands \cup t.invalidation.retired
            \subseteq DOMAIN u.islands \cup u.invalidation.retired
  BY <1>3, <1>4 DEF RepairedSome
<1>6. TopologyOK(m, u)
  <2>1. NetsOK(m, u, {})
    BY <1>2, <1>5, SameNets
  <2> QED BY <2>1, <1>2, <1>5 DEF TopologyOK
<1>7. \A i \in DOMAIN u.islands : u.islands[i] # {}
  BY <1>5 DEF IslandsOK
<1>8. ASSUME NEW i \in DOMAIN u.islands \ u.invalidation.topologyDirty
      PROVE  CompiledIsland(u, m, i) = CompiledIsland(t, n, i)
  <2>1. i \in DOMAIN t.islands \ islands /\ u.islands[i] = t.islands[i]
    BY <1>1, <1>5
  <2>2. SameTerminals(n, t, m, r, t.islands[i])
    BY <2>1, <1>1
  <2>3. SameTerminals(n, t, m, u, t.islands[i])
    <3>1. \A x : NetAt(u, m, x) = NetAt(r, m, x)
      BY <1>5 DEF NetAt
    <3> QED BY <2>2, <3>1 DEF SameTerminals
  <2> QED BY <2>1, <2>3, SameCompiled
<1>9. \A i \in DOMAIN u.islands :
          i \in 1..t.islandSlots => i \in DOMAIN t.islands /\ t.islands[i] \cap u.islands[i] # {}
  <2> TAKE i \in DOMAIN u.islands
  <2> HAVE i \in 1..t.islandSlots
  <2>1. i \in DOMAIN t.islands /\ u.islands[i] \subseteq t.islands[i] /\ u.islands[i] # {}
    BY <1>1, <1>5, <1>7
  <2> QED BY <2>1
<1>10. Keeps(n, t, m, u)
  BY <1>5, <1>8, <1>9 DEF Keeps
<1> QED BY <1>6, <1>10

\* The repairs of the islands of a device, one partition after the other; an
\* island with several of them is repaired once.
Repairings(size, t, m, d, nets, r, g) ==
    g = [p \in 0..size |->
            IF p = 0 THEN {r}
            ELSE IF \E q \in 1..(p - 1) : t.componentIsland[<<d, q>>] = t.componentIsland[<<d, p>>]
                 THEN g[p - 1]
            ELSE UNION {RepairIsland(u, m, t.componentIsland[<<d, p>>],
                                     {i \in nets : u.netIsland[i] = t.componentIsland[<<d, p>>]}) :
                            u \in g[p - 1]}]

\* One step of them.
RepairStep(t, m, d, nets, p, R) ==
    IF \E q \in 1..(p - 1) : t.componentIsland[<<d, q>>] = t.componentIsland[<<d, p>>]
    THEN R
    ELSE UNION {RepairIsland(u, m, t.componentIsland[<<d, p>>],
                             {i \in nets : u.netIsland[i] = t.componentIsland[<<d, p>>]}) : u \in R}

\* The recursion by its steps.
LEMMA RepairingsSteps ==
    ASSUME NEW size, NEW t, NEW m, NEW d, NEW nets, NEW r, NEW g
    PROVE  Repairings(size, t, m, d, nets, r, g)
              <=> g = [p \in 0..size |-> IF p = 0 THEN {r}
                                         ELSE RepairStep(t, m, d, nets, p, g[p - 1])]
BY Zenon DEF Repairings, RepairStep

\* The recursion of remove_device exists.
LEMMA RepairingsExist ==
    ASSUME NEW size \in Nat, NEW t, NEW m, NEW d, NEW nets, NEW r
    PROVE  \E g : Repairings(size, t, m, d, nets, r, g)
<1> DEFINE Step(p, R) == RepairStep(t, m, d, nets, p, R)
           Is(k, g) == g = [p \in 0..k |-> IF p = 0 THEN {r} ELSE Step(p, g[p - 1])]
           T == {k \in Nat : \E g : Is(k, g)}
<1> HIDE DEF Step
<1>1. 0 \in T
  <2>1. Is(0, [p \in 0..0 |-> {r}])
    OBVIOUS
  <2> QED BY <2>1
<1>2. ASSUME NEW k \in 0..size, k # 0, k - 1 \in T PROVE k \in T
  <2>1. PICK g : Is(k - 1, g)
    BY <1>2
  <2> DEFINE h == [p \in 0..k |-> IF p \in 0..(k - 1) THEN g[p] ELSE Step(k, g[k - 1])]
  <2>2. \A p \in 0..k : p # 0 => p - 1 \in 0..(k - 1) /\ (p \notin 0..(k - 1) => p = k)
    OBVIOUS
  <2>3. 0 \in 0..(k - 1)
    BY <1>2
  <2>4. \A p \in 0..(k - 1) : g[p] = IF p = 0 THEN {r} ELSE Step(p, g[p - 1])
    BY <2>1
  <2>5. \A p \in 0..k : h[p] = IF p = 0 THEN {r} ELSE Step(p, h[p - 1])
    <3> TAKE p \in 0..k
    <3>1. CASE p \in 0..(k - 1)
      <4>1. h[p] = g[p] /\ (p # 0 => h[p - 1] = g[p - 1])
        BY <3>1, <2>2
      <4> QED BY <4>1, <3>1, <2>4
    <3>2. CASE p \notin 0..(k - 1)
      <4>1. p # 0 /\ h[p] = Step(k, g[k - 1]) /\ h[p - 1] = g[p - 1] /\ p = k
        BY <3>2, <2>2, <2>3
      <4> QED BY <4>1
    <3> QED BY <3>1, <3>2
  <2>6. Is(k, h)
    <3>1. DOMAIN h = 0..k /\ h = [p \in 0..k |-> h[p]]
      OBVIOUS
    <3> HIDE DEF h
    <3> QED BY <2>5, <3>1
  <2>7. k \in Nat
    OBVIOUS
  <2> QED BY <2>6, <2>7
<1>3. \A k \in 0..size : k \in T
  <2> HIDE DEF T
  <2> QED BY <1>1, <1>2, CountUp
<1>4. PICK g : Is(size, g)
  BY <1>3
<1>5. Repairings(size, t, m, d, nets, r, g)
  BY <1>4, RepairingsSteps DEF Step
<1> QED BY <1>5

\* What the repairs of all partitions end with.
LEMMA RepairingsEnd ==
    ASSUME NEW m, NEW r, NEW islands, NEW nets, ToRepair(m, r, islands, nets),
           NEW size \in Nat, NEW t, NEW d,
           islands = {t.componentIsland[<<d, p>>] : p \in 1..size},
           NEW g, Repairings(size, t, m, d, nets, r, g), NEW u \in g[size]
    PROVE  RepairedSome(m, r, islands, islands, u)
<1> DEFINE Done(p) == {t.componentIsland[<<d, q>>] : q \in 1..p}
           T == {p \in 0..size : \A v \in g[p] : RepairedSome(m, r, islands, Done(p), v)}
<1>1. g[0] = {r} /\ \A p \in 0..size : p # 0 => g[p] = RepairStep(t, m, d, nets, p, g[p - 1])
  <2> DEFINE Step(p, R) == RepairStep(t, m, d, nets, p, R)
  <2>1. g = [p \in 0..size |-> IF p = 0 THEN {r} ELSE Step(p, g[p - 1])]
    BY RepairingsSteps
  <2> HIDE DEF Step
  <2>2. \A p \in 0..size : g[p] = IF p = 0 THEN {r} ELSE Step(p, g[p - 1])
    BY <2>1, Zenon
  <2>3. g[0] = {r} /\ \A p \in 0..size : p # 0 => g[p] = Step(p, g[p - 1])
    BY <2>2
  <2> QED BY <2>3 DEF Step
<1>2. 0 \in T
  <2>1. Done(0) = {}
    OBVIOUS
  <2>2. RepairedSome(m, r, islands, {}, r)
    BY RepairedNone
  <2> HIDE DEF Done
  <2>3. \A v \in g[0] : v = r
    BY <1>1
  <2>4. \A v \in g[0] : RepairedSome(m, r, islands, Done(0), v)
    BY <2>1, <2>2, <2>3, Zenon
  <2> QED BY <2>4
<1>3. ASSUME NEW p \in 0..size, p # 0, p - 1 \in T PROVE p \in T
  <2> DEFINE island == t.componentIsland[<<d, p>>]
             done == Done(p - 1)
  <2>1. island \in islands /\ Done(p) = done \cup {island}
    <3>1. p \in 1..size /\ 1..p = (1..(p - 1)) \cup {p}
      BY <1>3
    <3> QED BY <3>1
  <2>2. \A a \in g[p - 1] : RepairedSome(m, r, islands, done, a)
    BY <1>3
  <2>3. g[p] = RepairStep(t, m, d, nets, p, g[p - 1])
    BY <1>1, <1>3
  <2>4. island \in done <=> \E q \in 1..(p - 1) : t.componentIsland[<<d, q>>] = t.componentIsland[<<d, p>>]
    OBVIOUS
  <2>5. g[p] = IF island \in done THEN g[p - 1]
               ELSE UNION {RepairIsland(a, m, island, {i \in nets : a.netIsland[i] = island}) :
                               a \in g[p - 1]}
    BY <2>3, <2>4, Zenon DEF RepairStep
  <2> HIDE DEF island, done
  <2>6. ASSUME NEW v \in g[p] PROVE RepairedSome(m, r, islands, done \cup {island}, v)
    <3>1. CASE island \in done
      <4>1. done \cup {island} = done /\ v \in g[p - 1]
        BY <3>1, <2>5
      <4> QED BY <4>1, <2>2
    <3>2. CASE island \notin done
      <4>1. PICK a \in g[p - 1] : v \in RepairIsland(a, m, island, {i \in nets : a.netIsland[i] = island})
        BY <3>2, <2>5
      <4> QED BY <4>1, <3>2, <2>1, <2>2, RepairedOneMore
    <3> QED BY <3>1, <3>2
  <2> HIDE DEF Done
  <2> QED BY <2>1, <2>6
<1>4. \A p \in 0..size : p \in T
  <2> HIDE DEF T
  <2> QED BY <1>2, <1>3, CountUp
<1>5. Done(size) = islands
  OBVIOUS
<1> HIDE DEF Done
<1>6. size \in T
  BY <1>4
<1> QED BY <1>5, <1>6

\* What remove_device does, before and while it repairs the islands.
LEMMA RemoveDeviceCases ==
    ASSUME NEW n, NEW t, TopologyOK(n, t), NEW d, CanRemoveDevice(n, d),
           NEW m, NEW u \in TopologyRemoveDevice(t, n, m, d)
    PROVE  \E nets, islands, r, g :
              /\ PartOf(n, t, d, nets, islands) /\ DeviceRemoved(t, r, d, nets, islands)
              /\ islands = {t.componentIsland[<<d, p>>] : p \in 1..n.devices[d].partitionCount}
              /\ n.devices[d].partitionCount \in Nat
              /\ Repairings(n.devices[d].partitionCount, t, m, d, nets, r, g)
              /\ u \in g[n.devices[d].partitionCount]
<1> DEFINE size == n.devices[d].partitionCount
           nets == UNION {NetsOf(t, n, c) : c \in DeviceComponents(n, d)}
           islands == {t.componentIsland[<<d, p>>] : p \in 1..n.devices[d].partitionCount}
           r == [t EXCEPT
                    !.nets = [i \in DOMAIN @ |->
                        IF i \in nets
                        THEN [wires |-> @[i].wires, components |-> WithoutDevice(@[i].components, d)]
                        ELSE @[i]],
                    !.islands = [i \in DOMAIN @ |->
                        IF i \in islands THEN {c \in @[i] : c[1] # d} ELSE @[i]],
                    !.componentIsland = WithoutDevice(@, d)]
<1>1. /\ NetworkOK(n) /\ NetsOK(n, t, {}) /\ IslandMembers(n, t) /\ TopologyRecord(t)
  BY DEF TopologyOK, IslandsOK
<1>2. size \in Nat /\ d \in DOMAIN n.devices
  <2>1. d \in DOMAIN n.devices /\ n.devices[d] \in Definitions
    BY <1>1 DEF NetworkOK, CanRemoveDevice
  <2> QED BY <2>1, DefinitionsAssumption
<1>3. PICK g : g = CHOOSE f : Repairings(size, t, m, d, nets, r, f)
  OBVIOUS
<1>4. TopologyRemoveDevice(t, n, m, d) = g[size]
  BY <1>3, Zenon DEF TopologyRemoveDevice, Repairings
<1> DEFINE RestNets(f) == [i \in DOMAIN f |->
                        IF i \in nets
                        THEN [wires |-> f[i].wires, components |-> WithoutDevice(f[i].components, d)]
                        ELSE f[i]]
           RestIslands(f) == [i \in DOMAIN f |->
                        IF i \in islands THEN {c \in f[i] : c[1] # d} ELSE f[i]]
<1>5. r = [t EXCEPT !.nets = RestNets(@), !.islands = RestIslands(@), !.componentIsland = WithoutDevice(@, d)]
  <2> HIDE DEF nets, islands
  <2> QED BY Zenon
<1> HIDE DEF r
<1>6. PartOf(n, t, d, nets, islands)
  <2>1. ASSUME NEW i PROVE i \in nets <=> \E x \in DOMAIN n.attached : x[1] = d /\ NetAt(t, n, x) = i
    <3>1. i \in nets <=> \E c \in DeviceComponents(n, d) : \E x \in DOMAIN n.attached :
                            TerminalComponent(n, x) = c /\ NetAt(t, n, x) = i
      BY DEF NetsOf, NetAt
    <3>2. \A x \in DOMAIN n.attached : TerminalComponent(n, x) \in DeviceComponents(n, d) <=> x[1] = d
      <4> TAKE x \in DOMAIN n.attached
      <4>1. TerminalComponent(n, x) \in Components(n) /\ TerminalComponent(n, x)[1] = x[1]
        BY <1>1, TerminalFacts, TerminalShape
      <4>2. \A c : c \in Components(n) /\ c[1] = d => c \in DeviceComponents(n, d)
        BY TerminalShape DEF DeviceComponents
      <4>3. \A c : c \in DeviceComponents(n, d) => c[1] = d
        BY DEF DeviceComponents
      <4> QED BY <4>1, <4>2, <4>3
    <3> HIDE DEF nets
    <3> QED BY <3>1, <3>2
  <2>2. ASSUME NEW i PROVE i \in islands <=> \E c \in Components(n) : c[1] = d /\ t.componentIsland[c] = i
    <3>1. \A c : c \in Components(n) /\ c[1] = d <=> \E p \in 1..size : c = <<d, p>>
      BY <1>2, TerminalShape
    <3> QED BY <3>1
  <2> HIDE DEF nets, islands
  <2> QED BY <2>1, <2>2 DEF PartOf
<1>7. DeviceRemoved(t, r, d, nets, islands)
  <2> HIDE DEF nets, islands
  <2> DEFINE newNets == RestNets(t.nets)
             newIslands == RestIslands(t.islands)
             newComponents == WithoutDevice(t.componentIsland, d)
  <2>1. r = [t EXCEPT !.nets = newNets, !.islands = newIslands, !.componentIsland = newComponents]
    <3> HIDE DEF RestNets, RestIslands
    <3> QED BY <1>5, <1>1 DEF TopologyRecord
  <2>2. IsFunction(newNets) /\ DOMAIN newNets = DOMAIN t.nets
        /\ IsFunction(newIslands) /\ DOMAIN newIslands = DOMAIN t.islands
    BY DEF IsFunction
  <2>3. \A i \in DOMAIN t.islands :
          newIslands[i] = IF i \in islands THEN {c \in t.islands[i] : c[1] # d} ELSE t.islands[i]
    OBVIOUS
  <2>4. \A i \in DOMAIN t.nets :
          newNets[i] = [wires |-> t.nets[i].wires,
                        components |-> IF i \in nets THEN WithoutDevice(t.nets[i].components, d)
                                       ELSE t.nets[i].components]
    <3> TAKE i \in DOMAIN t.nets
    <3> DEFINE X == WithoutDevice(t.nets[i].components, d)
    <3>1. newNets[i] = IF i \in nets THEN [wires |-> t.nets[i].wires, components |-> X] ELSE t.nets[i]
      OBVIOUS
    <3> HIDE DEF X, newNets
    <3>2. t.nets[i] = [wires |-> t.nets[i].wires, components |-> t.nets[i].components]
      <4>1. PICK W, C : t.nets[i] = [wires |-> W, components |-> C]
        BY <1>1 DEF NetsOK
      <4> QED BY <4>1
    <3>3. CASE i \in nets
      BY <3>1, <3>3 DEF X
    <3>4. CASE i \notin nets
      BY <3>1, <3>2, <3>4
    <3> QED BY <3>3, <3>4
  <2> HIDE DEF newNets, newIslands, newComponents
  <2>5. /\ TopologyRecord(r) /\ r.nets = newNets /\ r.islands = newIslands
        /\ r.componentIsland = newComponents
        /\ r.netSlots = t.netSlots /\ r.wireNet = t.wireNet
        /\ r.netIsland = t.netIsland /\ r.islandSlots = t.islandSlots /\ r.invalidation = t.invalidation
    BY <2>1, <1>1 DEF TopologyRecord
  <2>6. newComponents = WithoutDevice(t.componentIsland, d)
    BY DEF newComponents
  <2> QED BY <2>2, <2>3, <2>4, <2>5, <2>6 DEF DeviceRemoved
<1>8. Repairings(size, t, m, d, nets, r, g)
  <2> HIDE DEF size, nets
  <2>1. \E f : Repairings(size, t, m, d, nets, r, f)
    BY <1>2, RepairingsExist
  <2> QED BY <1>3, <2>1, Zenon
<1>9. u \in g[size] /\ islands = {t.componentIsland[<<d, p>>] : p \in 1..size}
  BY <1>4
<1> HIDE DEF nets, islands, size
<1>10. \E nets2, islands2, r2, g2 :
          /\ PartOf(n, t, d, nets2, islands2) /\ DeviceRemoved(t, r2, d, nets2, islands2)
          /\ islands2 = {t.componentIsland[<<d, p>>] : p \in 1..size}
          /\ size \in Nat
          /\ Repairings(size, t, m, d, nets2, r2, g2)
          /\ u \in g2[size]
  BY <1>2, <1>6, <1>7, <1>8, <1>9
<1> QED BY <1>10, Zenon DEF size

\* After remove_device what is derived is right for the network without the
\* device.
LEMMA RemoveDeviceTopology ==
    ASSUME NEW n, NEW t, TopologyOK(n, t), NEW d, CanRemoveDevice(n, d),
           NEW m, m = AfterRemoveDevice(n, d), NEW u \in TopologyRemoveDevice(t, n, m, d)
    PROVE  TopologyOK(m, u) /\ Keeps(n, t, m, u)
<1> DEFINE size == n.devices[d].partitionCount
<1>1. PICK nets, islands, r, g :
          /\ PartOf(n, t, d, nets, islands) /\ DeviceRemoved(t, r, d, nets, islands)
          /\ islands = {t.componentIsland[<<d, p>>] : p \in 1..size}
          /\ size \in Nat
          /\ Repairings(size, t, m, d, nets, r, g)
          /\ u \in g[size]
  BY RemoveDeviceCases
<1> HIDE DEF size
<1>2. IslandsOK(m, r, islands) /\ MarksOK(r) /\ islands \subseteq DOMAIN t.islands
  BY <1>1, RemoveDeviceIslands
<1>3. NetsOK(m, r, {}) /\ NetsWalked(m, r, nets)
  BY <1>1, RemoveDeviceNets, RemoveDeviceWalks
<1>4. NetworkOK(m)
  <2>1. NetworkOK(n)
    BY DEF TopologyOK
  <2> QED BY <2>1, RemoveDeviceNetwork
<1>5. TopologyRecord(r) /\ DOMAIN r.islands = DOMAIN t.islands
  BY <1>1 DEF DeviceRemoved
<1>6. ToRepair(m, r, islands, nets)
  BY <1>2, <1>3, <1>4, <1>5 DEF ToRepair
<1>7. RepairedSome(m, r, islands, islands, u)
  BY <1>1, <1>6, RepairingsEnd
<1> QED BY <1>1, <1>7, RepairedAll

-----------------------------------------------------------------------------
(* The invariant holds.                                                    *)

\* Nothing is derived from the empty network.
LEMMA NothingDerived == TopologyOK(EmptyNetwork, EmptyTopology)
<1> DEFINE n == EmptyNetwork
           t == EmptyTopology
<1>1. /\ NetworkRecord(n) /\ n.wires = {} /\ n.connections = {}
      /\ n.devices = << >> /\ n.attached = << >>
  BY DEF EmptyNetwork, NetworkRecord
<1>2. /\ TopologyRecord(t) /\ t.nets = << >> /\ t.netSlots = 0 /\ t.wireNet = << >>
      /\ t.netIsland = << >> /\ t.islands = << >> /\ t.islandSlots = 0
      /\ t.componentIsland = << >> /\ t.invalidation = EmptyInvalidation
      /\ t.invalidation.topologyDirty = {} /\ t.invalidation.retired = {}
  BY DEF EmptyTopology, EmptyInvalidation, TopologyRecord
<1>3. DOMAIN << >> = {} /\ IsFunction(<< >>) /\ \A S : << >> \in [{} -> S]
  BY DEF IsFunction
<1> DEFINE none == << >>
<1> HIDE DEF none
<1>4. DOMAIN none = {} /\ IsFunction(none) /\ \A S : none \in [{} -> S]
  BY <1>3 DEF none
<1> HIDE DEF n, t
<1>5. Components(n) = {} /\ n.devices = none /\ n.attached = none
  BY <1>1, <1>4 DEF Components, none
<1>6. t.nets = none /\ t.wireNet = none /\ t.netIsland = none /\ t.islands = none
      /\ t.componentIsland = none
  BY <1>2 DEF none
<1>7. NetworkOK(n)
  <2>1. IsFiniteSet({})
    BY FS_EmptySet
  <2> QED BY <2>1, <1>1, <1>4, <1>5 DEF NetworkOK
<1>8. NetsOK(n, t, {})
  BY <1>1, <1>2, <1>4, <1>6 DEF NetsOK
<1>9. IslandsOK(n, t, {})
  <2>1. IslandMembers(n, t)
    BY <1>2, <1>4, <1>5, <1>6 DEF IslandMembers
  <2>2. NetIslands(n, t, {})
    <3>1. 1..t.netSlots = {}
      BY <1>2
    <3> QED BY <3>1, <1>4, <1>5, <1>6 DEF NetIslands
  <2> QED BY <2>1, <2>2, <1>4, <1>6 DEF IslandsOK
<1>10. MarksOK(t)
  BY <1>2 DEF MarksOK
<1>11. TopologyOK(n, t)
  BY <1>2, <1>7, <1>8, <1>9, <1>10 DEF TopologyOK
<1> QED BY <1>11 DEF n, t

\* Initially nothing is derived, and nothing is compiled.
LEMMA InitInv == Init => IndInv
<1> SUFFICES ASSUME Init PROVE IndInv
  OBVIOUS
<1> DEFINE none == << >>
<1>1. DOMAIN none = {}
  OBVIOUS
<1>2. topology.islands = none
  BY DEF Init, EmptyTopology
<1>3. runtimes = none
  BY DEF Init
<1> HIDE DEF none
<1>4. RuntimesAreCurrent
  BY <1>1, <1>2, <1>3 DEF RuntimesAreCurrent
<1> QED BY <1>4, NothingDerived DEF Init, IndInv

\* What a command keeps is all that the runtimes and the identity of the islands
\* need.
LEMMA KeepsRuntimes ==
    ASSUME RuntimesAreCurrent, Keeps(network, topology, network', topology'), UNCHANGED runtimes
    PROVE  RuntimesAreCurrent'
<1>1. /\ \A i \in DOMAIN topology.islands \ topology.invalidation.topologyDirty :
            i \in DOMAIN runtimes /\ runtimes[i] = CompiledIsland(topology, network, i)
      /\ DOMAIN runtimes \subseteq DOMAIN topology.islands \cup topology.invalidation.retired
  BY DEF RuntimesAreCurrent
<1>2. /\ \A i \in DOMAIN topology'.islands \ topology'.invalidation.topologyDirty :
            /\ i \in DOMAIN topology.islands \ topology.invalidation.topologyDirty
            /\ CompiledIsland(topology', network', i) = CompiledIsland(topology, network, i)
      /\ DOMAIN topology.islands \cup topology.invalidation.retired
            \subseteq DOMAIN topology'.islands \cup topology'.invalidation.retired
  BY DEF Keeps
<1> QED BY <1>1, <1>2 DEF RuntimesAreCurrent

\* The synchronisation compiles what is marked and drops what is retired.
LEMMA SyncInv ==
    ASSUME IndInv, SyncIslandRuntimes
    PROVE  /\ IndInv'
           /\ topology'.islands = topology.islands
<1>1. /\ TopologyOK(network, topology) /\ RuntimesAreCurrent
      /\ TopologyRecord(topology) /\ MarksOK(topology) /\ NetworkOK(network)
      /\ NetsOK(network, topology, {}) /\ IslandsOK(network, topology, {})
  BY DEF IndInv, TopologyOK
<1> DEFINE dirty == topology.invalidation.topologyDirty
           retired == topology.invalidation.retired
<1>2. /\ runtimes' = [i \in (DOMAIN runtimes \ retired) \cup dirty |->
                          IF i \in dirty THEN CompiledIsland(topology, network, i) ELSE runtimes[i]]
      /\ topology' = [topology EXCEPT !.invalidation = EmptyInvalidation]
      /\ network' = network
  BY DEF SyncIslandRuntimes
<1>3. /\ TopologyRecord(topology') /\ topology'.nets = topology.nets
      /\ topology'.netSlots = topology.netSlots /\ topology'.wireNet = topology.wireNet
      /\ topology'.netIsland = topology.netIsland /\ topology'.islands = topology.islands
      /\ topology'.islandSlots = topology.islandSlots
      /\ topology'.componentIsland = topology.componentIsland
      /\ topology'.invalidation.topologyDirty = {} /\ topology'.invalidation.retired = {}
  BY <1>1, <1>2 DEF TopologyRecord, EmptyInvalidation
<1>4. \A x : NetAt(topology', network, x) = NetAt(topology, network, x)
  BY <1>3 DEF NetAt
<1>5. NetsOK(network, topology', {})
  BY <1>1, <1>3, SameNets
<1>6. IslandsOK(network, topology', {})
  <2>1. IslandMembers(network, topology')
    BY <1>1, <1>3 DEF IslandsOK, IslandMembers
  <2>2. NetIslands(network, topology', {})
    BY <1>1, <1>3, <1>4 DEF IslandsOK, NetIslands
  <2>3. \A S : Conducts(network, topology', S) <=> Conducts(network, topology, S)
    BY <1>4 DEF Conducts
  <2> QED BY <2>1, <2>2, <2>3, <1>1, <1>3 DEF IslandsOK
<1>7. MarksOK(topology')
  BY <1>3 DEF MarksOK
<1>8. TopologyOK(network', topology')
  BY <1>1, <1>2, <1>3, <1>5, <1>6, <1>7 DEF TopologyOK
<1>9. \A i : CompiledIsland(topology', network, i) = CompiledIsland(topology, network, i)
  <2> TAKE i
  <2>1. SameTerminals(network, topology, network, topology', topology.islands[i])
    BY <1>4 DEF SameTerminals
  <2> QED BY <2>1, <1>3, SameCompiled
<1>10. /\ dirty \subseteq DOMAIN topology.islands /\ retired \cap DOMAIN topology.islands = {}
       /\ \A i \in DOMAIN topology.islands \ dirty :
             i \in DOMAIN runtimes /\ runtimes[i] = CompiledIsland(topology, network, i)
       /\ DOMAIN runtimes \subseteq DOMAIN topology.islands \cup retired
  BY <1>1 DEF MarksOK, RuntimesAreCurrent
<1> HIDE DEF dirty, retired
<1>11. \A i \in DOMAIN topology.islands :
          i \in DOMAIN runtimes' /\ runtimes'[i] = CompiledIsland(topology, network, i)
  BY <1>2, <1>10
<1>12. DOMAIN runtimes' \subseteq DOMAIN topology.islands
  BY <1>2, <1>10
<1>13. RuntimesAreCurrent'
  BY <1>2, <1>3, <1>9, <1>11, <1>12 DEF RuntimesAreCurrent
<1> QED BY <1>3, <1>8, <1>13 DEF IndInv

\* Every command leaves what is derived right for the network it leaves.
LEMMA CommandKeeps ==
    ASSUME TopologyOK(network, topology), Next, ~SyncIslandRuntimes
    PROVE  /\ TopologyOK(network', topology')
           /\ Keeps(network, topology, network', topology')
           /\ UNCHANGED runtimes
<1>1. ASSUME NEW w \in Wires, AddWire(w)
      PROVE  /\ TopologyOK(network', topology') /\ Keeps(network, topology, network', topology')
             /\ UNCHANGED runtimes
  BY <1>1, AddWireTopology DEF AddWire
<1>2. ASSUME NEW w \in Wires, RemoveWire(w)
      PROVE  /\ TopologyOK(network', topology') /\ Keeps(network, topology, network', topology')
             /\ UNCHANGED runtimes
  BY <1>2, RemoveWireTopology DEF RemoveWire
<1>3. ASSUME NEW a \in Wires, NEW b \in Wires, ConnectWires(a, b)
      PROVE  /\ TopologyOK(network', topology') /\ Keeps(network, topology, network', topology')
             /\ UNCHANGED runtimes
  <2>1. Covers(network, network')
    <3>1. network'.attached = network.attached /\ network'.devices = network.devices
      BY <1>3, ConnectNetwork DEF ConnectWires, TopologyOK
    <3> QED BY <3>1, SameDevices DEF Covers
  <2> QED BY <1>3, <2>1, ConnectWiresTopology DEF ConnectWires
<1>4. ASSUME NEW a \in Wires, NEW b \in Wires, DisconnectWires(a, b)
      PROVE  /\ TopologyOK(network', topology') /\ Keeps(network, topology, network', topology')
             /\ UNCHANGED runtimes
  BY <1>4, DisconnectWiresTopology DEF DisconnectWires
<1>5. ASSUME NEW d \in Devices, RemoveDevice(d)
      PROVE  /\ TopologyOK(network', topology') /\ Keeps(network, topology, network', topology')
             /\ UNCHANGED runtimes
  BY <1>5, RemoveDeviceTopology DEF RemoveDevice
<1>6. ASSUME NEW d \in Devices, NEW definition \in Definitions, AddDevice(d, definition)
      PROVE  /\ TopologyOK(network', topology') /\ Keeps(network, topology, network', topology')
             /\ UNCHANGED runtimes
  <2>1. network'.devices[d] = definition
    <3>1. NetworkRecord(network)
      BY DEF TopologyOK, NetworkOK
    <3>2. network' = AfterAddDevice(network, d, definition)
      BY <1>6 DEF AddDevice
    <3> QED BY <3>1, <3>2 DEF NetworkRecord, AfterAddDevice
  <2> QED BY <1>6, <2>1, AddDeviceTopology DEF AddDevice
<1>7. ASSUME NEW w \in Wires, NEW x \in Terminals(network), AttachTerminal(w, x)
      PROVE  /\ TopologyOK(network', topology') /\ Keeps(network, topology, network', topology')
             /\ UNCHANGED runtimes
  <2>1. Covers(network', network')
    BY DEF Covers
  <2> QED BY <1>7, <2>1, AttachTerminalTopology DEF AttachTerminal
<1>8. ASSUME NEW w \in Wires, NEW x \in Terminals(network), DetachTerminal(w, x)
      PROVE  /\ TopologyOK(network', topology') /\ Keeps(network, topology, network', topology')
             /\ UNCHANGED runtimes
  BY <1>8, DetachTerminalTopology DEF DetachTerminal
<1> QED BY <1>1, <1>2, <1>3, <1>4, <1>5, <1>6, <1>7, <1>8 DEF Next

\* The islands keep their identity across a step.
IdentityKept ==
    \A i \in DOMAIN topology'.islands :
        i \in 1..topology.islandSlots =>
            i \in DOMAIN topology.islands /\ topology.islands[i] \cap topology'.islands[i] # {}

\* The invariant is inductive, and islands keep their identity.
LEMMA NextInv == ASSUME IndInv, Next PROVE IndInv' /\ IdentityKept
<1>1. TopologyOK(network, topology) /\ RuntimesAreCurrent
  BY DEF IndInv
<1>2. CASE SyncIslandRuntimes
  <2>1. IndInv' /\ topology'.islands = topology.islands
    BY <1>2, SyncInv
  <2>2. \A i \in DOMAIN topology.islands : topology.islands[i] # {}
    BY <1>1 DEF TopologyOK, IslandsOK
  <2>3. IdentityKept
    BY <2>1, <2>2 DEF IdentityKept
  <2> QED BY <2>1, <2>3
<1>3. CASE ~SyncIslandRuntimes
  <2>1. /\ TopologyOK(network', topology')
        /\ Keeps(network, topology, network', topology')
        /\ UNCHANGED runtimes
    BY <1>1, <1>3, CommandKeeps
  <2>2. RuntimesAreCurrent'
    BY <1>1, <2>1, KeepsRuntimes
  <2>3. IdentityKept
    BY <2>1 DEF Keeps, IdentityKept
  <2> QED BY <2>1, <2>2, <2>3 DEF IndInv
<1> QED BY <1>2, <1>3

\* A step that changes nothing keeps the invariant.
LEMMA StutterInv == ASSUME IndInv, UNCHANGED vars PROVE IndInv'
BY DEF IndInv, vars, RuntimesAreCurrent

\* In every reachable state nets and islands are the groups of the network.
THEOREM Invariance == Spec => []IndInv
<1>1. IndInv /\ [Next]_vars => IndInv'
  BY NextInv, StutterInv
<1> QED BY <1>1, InitInv, PTL DEF Spec

-----------------------------------------------------------------------------
(* What the invariant says about the properties.                           *)

\* Nets are the groups of wires.
LEMMA NetsMatch == ASSUME TopologyOK(network, topology) PROVE NetsMatchNetwork
<1>1. NetworkOK(network) /\ NetsOK(network, topology, {})
  BY DEF TopologyOK
<1>2. /\ DOMAIN topology.wireNet = network.wires
      /\ \A w \in network.wires : topology.wireNet[w] \in DOMAIN topology.nets
  BY <1>1 DEF NetsOK
<1>3. \A i \in DOMAIN topology.nets :
          /\ topology.nets[i].wires = WiresAt(topology, network, i)
          /\ topology.nets[i].components = Incidences(network, topology.nets[i].wires)
          /\ WiresAt(topology, network, i) # {}
  <2> TAKE i \in DOMAIN topology.nets
  <2> DEFINE W == WiresAt(topology, network, i)
  <2>1. topology.nets[i] = [wires |-> W, components |-> Incidences(network, W)] /\ W # {}
    BY <1>1 DEF NetsOK
  <2> HIDE DEF W
  <2>2. topology.nets[i].wires = W /\ topology.nets[i].components = Incidences(network, W)
    BY <2>1
  <2> QED BY <2>1, <2>2 DEF W
<1>4. \A w \in network.wires : WireGroup(network, w) = WiresAt(topology, network, topology.wireNet[w])
  BY <1>1, NetIsGroup
<1>5. \A i : \A w \in WiresAt(topology, network, i) : w \in network.wires /\ topology.wireNet[w] = i
  BY DEF WiresAt
<1>6. \A w \in network.wires : w \in WiresAt(topology, network, topology.wireNet[w])
  BY DEF WiresAt
<1> QED BY <1>2, <1>3, <1>4, <1>5, <1>6 DEF NetsMatchNetwork

\* Islands are the groups of components.
LEMMA IslandsMatch == ASSUME TopologyOK(network, topology) PROVE IslandsMatchNetwork
<1>1. /\ NetworkOK(network) /\ NetsOK(network, topology, {}) /\ IslandsOK(network, topology, {})
      /\ IslandMembers(network, topology) /\ NetIslands(network, topology, {})
  BY DEF TopologyOK, IslandsOK
<1>2. \A c \in Components(network) :
          ComponentGroup(network, c) = topology.islands[topology.componentIsland[c]]
  BY <1>1, IslandIsGroup
<1>3. \A i \in DOMAIN topology.islands :
          topology.islands[i] # {} /\ \A c \in topology.islands[i] : topology.componentIsland[c] = i
  BY <1>1 DEF IslandsOK, IslandMembers
<1>4. \A i \in DOMAIN topology.nets :
          DOMAIN topology.nets[i].components =
              {TerminalComponent(network, x) :
                  x \in {y \in DOMAIN network.attached : NetAt(topology, network, y) = i}}
  BY <1>1, NetNeighbours
<1>5. \A x \in DOMAIN network.attached :
          /\ NetAt(topology, network, x) \in DOMAIN topology.nets
          /\ topology.netIsland[NetAt(topology, network, x)]
                = topology.componentIsland[TerminalComponent(network, x)]
  BY <1>1, IslandFacts
<1>6. \A i \in 1..topology.netSlots :
          topology.netIsland[i] = NoIsland \/ \E x \in DOMAIN network.attached : NetAt(topology, network, x) = i
  BY <1>1 DEF NetIslands
<1>7. ASSUME NEW i \in 1..topology.netSlots,
             NEW components, components = IF i \in DOMAIN topology.nets
                                          THEN BagToSet(topology.nets[i].components) ELSE {}
      PROVE  IF components = {} THEN topology.netIsland[i] = NoIsland
             ELSE \A c \in components : topology.componentIsland[c] = topology.netIsland[i]
  <2>1. \A c : c \in components <=>
            \E x \in DOMAIN network.attached :
                NetAt(topology, network, x) = i /\ c = TerminalComponent(network, x)
    <3>1. CASE i \in DOMAIN topology.nets
      <4>1. components = DOMAIN topology.nets[i].components
        BY <3>1, <1>7 DEF BagToSet
      <4> QED BY <4>1, <3>1, <1>4
    <3>2. CASE i \notin DOMAIN topology.nets
      BY <3>2, <1>5, <1>7
    <3> QED BY <3>1, <3>2
  <2>2. CASE components = {}
    BY <2>1, <2>2, <1>6
  <2>3. CASE components # {}
    BY <2>1, <2>3, <1>5
  <2> QED BY <2>2, <2>3
<1> QED BY <1>2, <1>3, <1>7, Zenon DEF IslandsMatchNetwork

\* The maps fit together, and the runtimes are of slots there are.
LEMMA TypeMatches == ASSUME IndInv PROVE TypeOK
<1>1. /\ TopologyOK(network, topology) /\ RuntimesAreCurrent
      /\ NetworkOK(network) /\ NetsOK(network, topology, {}) /\ MarksOK(topology)
      /\ IslandMembers(network, topology) /\ NetIslands(network, topology, {})
  BY DEF IndInv, TopologyOK, IslandsOK
<1>2. network.wires \subseteq Wires /\ DOMAIN network.devices \subseteq Devices
  BY <1>1 DEF NetworkOK
<1>3. /\ DOMAIN topology.wireNet = network.wires
      /\ \A w \in network.wires : topology.wireNet[w] \in DOMAIN topology.nets
      /\ DOMAIN topology.nets \subseteq 1..topology.netSlots
  BY <1>1 DEF NetsOK
<1>4. /\ DOMAIN topology.islands \subseteq 1..topology.islandSlots
      /\ DOMAIN topology.componentIsland = Components(network)
      /\ Range(topology.componentIsland) \subseteq DOMAIN topology.islands
  BY <1>1 DEF IslandMembers, Range
<1>5. Range(topology.netIsland) \subseteq {NoIsland} \cup DOMAIN topology.islands
  <2>1. \A x \in DOMAIN network.attached :
            topology.netIsland[NetAt(topology, network, x)] \in DOMAIN topology.islands
    BY <1>1, IslandFacts
  <2> QED BY <2>1, <1>1 DEF NetIslands, Range
<1>6. DOMAIN runtimes \subseteq 1..topology.islandSlots
  BY <1>1, <1>4 DEF RuntimesAreCurrent, MarksOK
<1> QED BY <1>2, <1>3, <1>4, <1>5, <1>6 DEF TypeOK

-----------------------------------------------------------------------------
(* from_network.                                                           *)

\* The network in the four rounds of from_network: with some of its wires, of its
\* connections, of its devices, and of its attached terminals.
Rounds == {"wires", "connections", "devices", "terminals"}

RoundItems(n, round) ==
    IF round = "wires" THEN n.wires
    ELSE IF round = "connections" THEN n.connections
    ELSE IF round = "devices" THEN DOMAIN n.devices
    ELSE DOMAIN n.attached

PartialNetwork(n, round, done) ==
    IF round = "wires"
    THEN [wires |-> done, connections |-> {}, devices |-> << >>, attached |-> << >>]
    ELSE IF round = "connections"
    THEN [wires |-> n.wires, connections |-> done, devices |-> << >>, attached |-> << >>]
    ELSE IF round = "devices"
    THEN [wires |-> n.wires, connections |-> n.connections, devices |-> Restrict(n.devices, done),
          attached |-> << >>]
    ELSE [wires |-> n.wires, connections |-> n.connections, devices |-> n.devices,
          attached |-> Restrict(n.attached, done)]

\* The two wires of a connection.
OneEnd(c) == CHOOSE w \in c : TRUE
OtherEnd(c) == CHOOSE w \in c : w # OneEnd(c)

\* One step of a round.
RoundStep(n, round, t, x) ==
    IF round = "wires" THEN TopologyAddWire(t, x)
    ELSE IF round = "connections" THEN TopologyConnectWires(t, n, OneEnd(x), OtherEnd(x))
    ELSE IF round = "devices" THEN TopologyAddDevice(t, n, x)
    ELSE TopologyAttachTerminal(t, n, n.attached[x], x)

\* A round adds a wire.
LEMMA WireRound ==
    ASSUME NEW n, NetworkOK(n), NEW done \in SUBSET n.wires, NEW x \in n.wires \ done,
           NEW t, TopologyOK(PartialNetwork(n, "wires", done), t)
    PROVE  TopologyOK(PartialNetwork(n, "wires", done \cup {x}), TopologyAddWire(t, x))
<1> DEFINE part == PartialNetwork(n, "wires", done)
           more == PartialNetwork(n, "wires", done \cup {x})
           none == << >>
           new == done \cup {x}
<1>1. part = [wires |-> done, connections |-> {}, devices |-> none, attached |-> none]
      /\ more = [wires |-> new, connections |-> {}, devices |-> none, attached |-> none]
  BY Zenon DEF PartialNetwork
<1>2. x \in Wires
  BY DEF NetworkOK
<1> HIDE DEF part, more, none, new
<1>3. CanAddWire(part, x) /\ more = AfterAddWire(part, x)
  <2>1. part.wires = done /\ more = [part EXCEPT !.wires = new]
    BY <1>1
  <2>2. new = part.wires \cup {x}
    BY <2>1 DEF new
  <2>3. AfterAddWire(part, x) = [part EXCEPT !.wires = new]
    BY <2>2, Zenon DEF AfterAddWire
  <2> QED BY <2>1, <2>3 DEF CanAddWire
<1>4. TopologyOK(part, t)
  BY DEF part
<1>5. TopologyOK(more, TopologyAddWire(t, x))
  BY <1>2, <1>3, <1>4, AddWireTopology
<1> QED BY <1>5 DEF more

\* The wires of a connection are connected one to the other.
LEMMA ConnectionEnds ==
    ASSUME NEW n, NetworkOK(n), NEW c \in n.connections
    PROVE  /\ OneEnd(c) \in n.wires /\ OtherEnd(c) \in n.wires /\ OneEnd(c) # OtherEnd(c)
           /\ c = {OneEnd(c), OtherEnd(c)}
<1>1. PICK a \in n.wires, b \in n.wires : a # b /\ c = {a, b}
  BY DEF NetworkOK
<1>2. OneEnd(c) \in c
  <2>1. \E w \in c : TRUE
    BY <1>1
  <2> QED BY <2>1, Zenon DEF OneEnd
<1>3. OtherEnd(c) \in c /\ OtherEnd(c) # OneEnd(c)
  <2>1. \E w \in c : w # OneEnd(c)
    BY <1>1, <1>2
  <2> QED BY <2>1, Zenon DEF OtherEnd
<1> QED BY <1>1, <1>2, <1>3

\* A round adds a connection.
LEMMA ConnectionRound ==
    ASSUME NEW n, NetworkOK(n), NEW done \in SUBSET n.connections, NEW x \in n.connections \ done,
           NEW t, TopologyOK(PartialNetwork(n, "connections", done), t)
    PROVE  TopologyOK(PartialNetwork(n, "connections", done \cup {x}),
                      TopologyConnectWires(t, n, OneEnd(x), OtherEnd(x)))
<1> DEFINE part == PartialNetwork(n, "connections", done)
           more == PartialNetwork(n, "connections", done \cup {x})
           none == << >>
           new == done \cup {x}
           a == OneEnd(x)
           b == OtherEnd(x)
<1>1. part = [wires |-> n.wires, connections |-> done, devices |-> none, attached |-> none]
      /\ more = [wires |-> n.wires, connections |-> new, devices |-> none, attached |-> none]
  BY Zenon DEF PartialNetwork
<1>2. a \in n.wires /\ b \in n.wires /\ a # b /\ x = {a, b}
  BY ConnectionEnds
<1>7. DOMAIN none = {}
  OBVIOUS
<1> HIDE DEF part, more, none, new, a, b
<1>3. CanConnectWires(part, a, b) /\ more = AfterConnectWires(part, a, b)
  <2>1. part.wires = n.wires /\ part.connections = done /\ more = [part EXCEPT !.connections = new]
    BY <1>1
  <2>2. new = part.connections \cup {{a, b}}
    BY <2>1, <1>2 DEF new
  <2>3. AfterConnectWires(part, a, b) = [part EXCEPT !.connections = new]
    BY <2>2, Zenon DEF AfterConnectWires
  <2> QED BY <2>1, <2>3, <1>2 DEF CanConnectWires
<1>4. TopologyOK(part, t)
  BY DEF part
<1>5. Covers(part, n)
  BY <1>1, <1>7 DEF Covers
<1>6. TopologyOK(more, TopologyConnectWires(t, n, a, b))
  BY <1>3, <1>4, <1>5, ConnectWiresTopology
<1> QED BY <1>6 DEF more, a, b

\* A round adds a device.
LEMMA DeviceRound ==
    ASSUME NEW n, NetworkOK(n), NEW done \in SUBSET DOMAIN n.devices, NEW x \in DOMAIN n.devices \ done,
           NEW t, TopologyOK(PartialNetwork(n, "devices", done), t)
    PROVE  TopologyOK(PartialNetwork(n, "devices", done \cup {x}), TopologyAddDevice(t, n, x))
<1> DEFINE part == PartialNetwork(n, "devices", done)
           more == PartialNetwork(n, "devices", done \cup {x})
           definition == n.devices[x]
<1>1. /\ part = [wires |-> n.wires, connections |-> n.connections, devices |-> Restrict(n.devices, done),
                 attached |-> << >>]
      /\ more = [wires |-> n.wires, connections |-> n.connections,
                 devices |-> Restrict(n.devices, done \cup {x}), attached |-> << >>]
  BY DEF PartialNetwork
<1>2. x \in Devices /\ definition \in Definitions
  BY DEF NetworkOK
<1> HIDE DEF part, more, definition
<1>3. CanAddDevice(part, x) /\ more = AfterAddDevice(part, x, definition)
  <2> DEFINE old == Restrict(n.devices, done)
             new == Restrict(n.devices, done \cup {x})
  <2>1. DOMAIN old = done
    BY DEF Restrict
  <2>2. new = [e \in DOMAIN old \cup {x} |-> IF e = x THEN definition ELSE old[e]]
    BY DEF Restrict, definition
  <2> HIDE DEF old, new
  <2>3. part.devices = old
    BY <1>1 DEF old
  <2>4. [part EXCEPT !.devices = new] = more
    BY <1>1 DEF new
  <2>5. AfterAddDevice(part, x, definition) = [part EXCEPT !.devices = new]
    BY <2>2, <2>3, <1>1 DEF AfterAddDevice
  <2> QED BY <2>1, <2>3, <2>4, <2>5 DEF CanAddDevice
<1>4. TopologyOK(part, t) /\ n.devices[x] = definition
  BY DEF part, definition
<1>5. TopologyOK(more, TopologyAddDevice(t, n, x))
  BY <1>2, <1>3, <1>4, AddDeviceTopology
<1> QED BY <1>5 DEF more

\* A round attaches a terminal.
LEMMA TerminalRound ==
    ASSUME NEW n, NetworkOK(n), NEW done \in SUBSET DOMAIN n.attached, NEW x \in DOMAIN n.attached \ done,
           NEW t, TopologyOK(PartialNetwork(n, "terminals", done), t)
    PROVE  TopologyOK(PartialNetwork(n, "terminals", done \cup {x}),
                      TopologyAttachTerminal(t, n, n.attached[x], x))
<1> DEFINE part == PartialNetwork(n, "terminals", done)
           more == PartialNetwork(n, "terminals", done \cup {x})
           w == n.attached[x]
           old == Restrict(n.attached, done)
           new == Restrict(n.attached, done \cup {x})
<1>1. /\ part = [wires |-> n.wires, connections |-> n.connections, devices |-> n.devices, attached |-> old]
      /\ more = [wires |-> n.wires, connections |-> n.connections, devices |-> n.devices, attached |-> new]
  BY DEF PartialNetwork
<1>2. w \in n.wires /\ x \in Terminals(n)
  BY DEF NetworkOK
<1>3. DOMAIN old = done /\ DOMAIN new = done \cup {x} /\ \A y \in done \cup {x} : new[y] = n.attached[y]
  BY DEF Restrict
<1>4. new = [y \in DOMAIN old \cup {x} |-> IF y = x THEN w ELSE old[y]]
  BY DEF Restrict
<1> HIDE DEF part, more, w, old, new
<1>5. Terminals(part) = Terminals(n) /\ \A y : TerminalComponent(n, y) = TerminalComponent(more, y)
  <2>1. part.devices = n.devices /\ more.devices = n.devices
    BY <1>1
  <2> QED BY <2>1, SameDevices
<1>6. CanAttachTerminal(part, w, x)
  BY <1>1, <1>2, <1>3, <1>5 DEF CanAttachTerminal
<1>7. more = AfterAttachTerminal(part, w, x)
  <2>1. more = [part EXCEPT !.attached = new] /\ part.attached = old
    BY <1>1
  <2> QED BY <2>1, <1>1, <1>4 DEF AfterAttachTerminal
<1>8. Covers(more, n)
  BY <1>1, <1>3, <1>5 DEF Covers
<1>9. TopologyOK(part, t)
  BY DEF part
<1>10. TopologyOK(more, TopologyAttachTerminal(t, n, w, x))
  BY <1>6, <1>7, <1>8, <1>9, AttachTerminalTopology
<1> QED BY <1>10 DEF more, w

\* Each step of a round adds one item to what is derived.
LEMMA RoundStepFacts ==
    ASSUME NEW n, NetworkOK(n), NEW round \in Rounds, NEW done \in SUBSET RoundItems(n, round),
           NEW x \in RoundItems(n, round) \ done,
           NEW t, TopologyOK(PartialNetwork(n, round, done), t)
    PROVE  TopologyOK(PartialNetwork(n, round, done \cup {x}), RoundStep(n, round, t, x))
<1>1. CASE round = "wires"
  BY <1>1, WireRound DEF RoundItems, RoundStep
<1>2. CASE round = "connections"
  BY <1>2, ConnectionRound DEF RoundItems, RoundStep
<1>3. CASE round = "devices"
  BY <1>3, DeviceRound DEF RoundItems, RoundStep
<1>4. CASE round = "terminals"
  BY <1>4, TerminalRound DEF RoundItems, RoundStep
<1> QED BY <1>1, <1>2, <1>3, <1>4 DEF Rounds

\* How FoldSet takes the items of a set one by one.
First(s) == CHOOSE x \in s : TRUE
Rest(s) == s \ {First(s)}

Folded(n, round, base, sets, g) ==
    g = [s \in sets |-> IF s = {} THEN base ELSE RoundStep(n, round, g[Rest(s)], First(s))]

\* A set that is not empty has one item more than its rest.
LEMMA RestFacts ==
    ASSUME NEW S, IsFiniteSet(S), NEW s \in SUBSET S
    PROVE  /\ IsFiniteSet(s) /\ Cardinality(s) \in Nat
           /\ s # {} => /\ First(s) \in s /\ Rest(s) \in SUBSET S /\ First(s) \notin Rest(s)
                        /\ s = Rest(s) \cup {First(s)}
                        /\ Cardinality(s) # 0 /\ Cardinality(Rest(s)) = Cardinality(s) - 1
<1>1. IsFiniteSet(s)
  BY FS_Subset
<1>2. Cardinality(s) \in Nat
  BY <1>1, FS_CardinalityType
<1>3. ASSUME s # {}
      PROVE  /\ First(s) \in s /\ Rest(s) \in SUBSET S /\ First(s) \notin Rest(s)
             /\ s = Rest(s) \cup {First(s)}
             /\ Cardinality(s) # 0 /\ Cardinality(Rest(s)) = Cardinality(s) - 1
  <2>1. First(s) \in s
    <3>1. \E x \in s : TRUE
      BY <1>3
    <3> QED BY <3>1, Zenon DEF First
  <2>2. Cardinality(s) # 0
    BY <1>1, <1>3, FS_EmptySet
  <2>3. Cardinality(Rest(s)) = Cardinality(s) - 1
    BY <1>1, <2>1, FS_RemoveElement DEF Rest
  <2> QED BY <2>1, <2>2, <2>3 DEF Rest
<1> QED BY <1>1, <1>2, <1>3

\* The recursion of FoldSet exists.
LEMMA FoldExists ==
    ASSUME NEW n, NEW round, NEW base, NEW S, IsFiniteSet(S)
    PROVE  \E g : Folded(n, round, base, SUBSET S, g)
<1> DEFINE Small(j) == {s \in SUBSET S : Cardinality(s) <= j}
           T == {j \in Nat : \E g : Folded(n, round, base, Small(j), g)}
           size == Cardinality(S)
<1>1. \A s \in SUBSET S :
        /\ Cardinality(s) \in Nat
        /\ s # {} => /\ Rest(s) \in SUBSET S
                     /\ Cardinality(s) # 0 /\ Cardinality(Rest(s)) = Cardinality(s) - 1
  BY RestFacts
<1>2. 0 \in T
  <2> DEFINE g == [s \in Small(0) |-> base]
  <2>1. \A s \in Small(0) : s = {}
    BY <1>1
  <2>2. Folded(n, round, base, Small(0), g)
    <3> HIDE DEF Small
    <3>1. g = [s \in Small(0) |-> IF s = {} THEN base
                                  ELSE RoundStep(n, round, g[Rest(s)], First(s))]
      BY <2>1
    <3> QED BY <3>1, Zenon DEF Folded
  <2> QED BY <2>2, Zenon
<1>3. ASSUME NEW k \in 0..size, k # 0, k - 1 \in T PROVE k \in T
  <2>1. PICK g : Folded(n, round, base, Small(k - 1), g)
    BY <1>3
  <2> DEFINE h == [s \in Small(k) |-> IF s = {} THEN base ELSE RoundStep(n, round, g[Rest(s)], First(s))]
             old == Small(k - 1)
             new == Small(k)
  <2>2. k \in Nat /\ old \subseteq new /\ \A s \in new : s # {} => Rest(s) \in old
    <3>1. k \in Nat /\ k - 1 \in Nat
      BY <1>3
    <3>2. old \subseteq new
      BY <3>1, <1>1
    <3>3. \A s \in new : s # {} => Rest(s) \in old
      BY <3>1, <1>1
    <3> QED BY <3>1, <3>2, <3>3
  <2>3. g = [s \in old |-> IF s = {} THEN base ELSE RoundStep(n, round, g[Rest(s)], First(s))]
    BY <2>1, Zenon DEF Folded
  <2> HIDE DEF Small, old, new
  <2>4. h = [s \in new |-> IF s = {} THEN base ELSE RoundStep(n, round, g[Rest(s)], First(s))]
    BY Zenon DEF new
  <2> HIDE DEF h
  <2>5. \A s \in old : h[s] = g[s]
    BY <2>2, <2>3, <2>4
  <2>6. \A s \in new : s # {} => h[Rest(s)] = g[Rest(s)]
    BY <2>2, <2>5
  <2>7. h = [s \in new |-> IF s = {} THEN base ELSE RoundStep(n, round, h[Rest(s)], First(s))]
    BY <2>4, <2>6
  <2>8. Folded(n, round, base, Small(k), h)
    BY <2>7, Zenon DEF Folded, new
  <2> QED BY <2>2, <2>8
<1>4. size \in Nat
  BY FS_CardinalityType
<1>5. size \in T
  <2> HIDE DEF T, size
  <2>1. \A k \in 0..size : k \in T
    BY <1>2, <1>3, <1>4, CountUp
  <2> QED BY <1>4, <2>1
<1>6. SUBSET S = Small(size)
  <2>1. \A s \in SUBSET S : Cardinality(s) <= size
    BY FS_Subset
  <2> QED BY <2>1
<1> QED BY <1>5, <1>6, Zenon

\* A round derives the topology with all its items.
LEMMA RoundFacts ==
    ASSUME NEW n, NetworkOK(n), NEW round \in Rounds, IsFiniteSet(RoundItems(n, round)),
           NEW base, TopologyOK(PartialNetwork(n, round, {}), base),
           NEW g, Folded(n, round, base, SUBSET RoundItems(n, round), g)
    PROVE  TopologyOK(PartialNetwork(n, round, RoundItems(n, round)), g[RoundItems(n, round)])
<1> DEFINE S == RoundItems(n, round)
           size == Cardinality(S)
           Derived(s) == TopologyOK(PartialNetwork(n, round, s), g[s])
           T == {j \in Nat : \A s \in SUBSET S : Cardinality(s) <= j => Derived(s)}
<1>1. g = [s \in SUBSET S |-> IF s = {} THEN base ELSE RoundStep(n, round, g[Rest(s)], First(s))]
  BY Zenon DEF Folded
<1>2. Derived({})
  <2>1. g[{}] = base
    <3> HIDE DEF S
    <3> QED BY <1>1
  <2> QED BY <2>1
<1>3. ASSUME NEW s \in SUBSET S, s # {}, Derived(Rest(s)) PROVE Derived(s)
  <2>1. /\ First(s) \in S \ Rest(s) /\ Rest(s) \in SUBSET S /\ s = Rest(s) \cup {First(s)}
    BY <1>3, RestFacts
  <2>2. g[s] = RoundStep(n, round, g[Rest(s)], First(s))
    <3> HIDE DEF S
    <3> QED BY <1>1, <1>3
  <2>3. TopologyOK(PartialNetwork(n, round, Rest(s) \cup {First(s)}),
                   RoundStep(n, round, g[Rest(s)], First(s)))
    BY <1>3, <2>1, RoundStepFacts
  <2> QED BY <2>1, <2>2, <2>3
<1> HIDE DEF Derived
<1>4. \A s \in SUBSET S :
        /\ Cardinality(s) \in Nat
        /\ s # {} => /\ Rest(s) \in SUBSET S
                     /\ Cardinality(s) # 0 /\ Cardinality(Rest(s)) = Cardinality(s) - 1
  BY RestFacts
<1> HIDE DEF S
<1>5. 0 \in T
  <2>1. \A s \in SUBSET S : Cardinality(s) <= 0 => s = {}
    BY <1>4
  <2>2. \A s \in SUBSET S : Cardinality(s) <= 0 => Derived(s)
    BY <1>2, <2>1
  <2> QED BY <2>2
<1>6. ASSUME NEW k \in 0..size, k # 0, k - 1 \in T PROVE k \in T
  <2> SUFFICES ASSUME NEW s \in SUBSET S, Cardinality(s) <= k, s # {} PROVE Derived(s)
    BY <1>2
  <2>1. Rest(s) \in SUBSET S /\ Cardinality(Rest(s)) <= k - 1
    BY <1>4
  <2> QED BY <2>1, <1>3, <1>6
<1>7. size \in Nat
  BY FS_CardinalityType DEF S
<1>8. size \in T
  <2> HIDE DEF T, size
  <2>1. \A k \in 0..size : k \in T
    BY <1>5, <1>6, <1>7, CountUp
  <2> QED BY <1>7, <2>1
<1>9. Derived(S)
  <2>1. S \in SUBSET S /\ Cardinality(S) <= size
    BY <1>7
  <2> QED BY <1>8, <2>1
<1> QED BY <1>9 DEF Derived, S

\* The rounds are over finite sets.
LEMMA RoundsAreFinite ==
    ASSUME NEW n, NetworkOK(n)
    PROVE  /\ IsFiniteSet(n.wires) /\ IsFiniteSet(n.connections)
           /\ IsFiniteSet(DOMAIN n.devices) /\ IsFiniteSet(DOMAIN n.attached)
<1>1. IsFiniteSet(n.wires) /\ IsFiniteSet(DOMAIN n.attached)
  BY DEF NetworkOK
<1>2. IsFiniteSet(n.connections)
  <2>1. IsFiniteSet(SUBSET n.wires)
    BY <1>1, FS_SUBSET
  <2>2. n.connections \subseteq SUBSET n.wires
    BY DEF NetworkOK
  <2> QED BY <2>1, <2>2, FS_Subset
<1>3. IsFiniteSet(DOMAIN n.devices)
  <2> DEFINE C == Components(n)
             f == [c \in C |-> c[1]]
  <2>1. IsFiniteSet(C)
    BY DEF NetworkOK
  <2>2. \A d \in DOMAIN n.devices : <<d, 1>> \in C
    <3> TAKE d \in DOMAIN n.devices
    <3>1. n.devices[d].partitionCount \in Nat \ {0}
      BY DefinitionsAssumption DEF NetworkOK
    <3>2. 1 \in 1..n.devices[d].partitionCount
      BY <3>1
    <3> QED BY <3>2 DEF Components, DeviceComponents
  <2>3. \A c \in C : c[1] \in DOMAIN n.devices
    BY DEF Components, DeviceComponents
  <2> HIDE DEF C
  <2>4. f \in Surjection(C, DOMAIN n.devices)
    <3>1. f \in [C -> DOMAIN n.devices]
      BY <2>3
    <3>2. \A d \in DOMAIN n.devices : \E c \in C : f[c] = d
      <4> TAKE d \in DOMAIN n.devices
      <4>1. <<d, 1>> \in C /\ f[<<d, 1>>] = d
        BY <2>2
      <4> QED BY <4>1
    <3> QED BY <3>1, <3>2 DEF Surjection
  <2> QED BY <2>1, <2>4, FS_Surjection
<1> QED BY <1>1, <1>2, <1>3

\* The four folds of from_network.
FoldWires(n, base) == FoldSet(LAMBDA w, t : TopologyAddWire(t, w), base, n.wires)
FoldConnections(n, base) ==
    LET Connect(c, t) ==
            LET a == CHOOSE w \in c : TRUE
                b == CHOOSE w \in c : w # a
            IN  TopologyConnectWires(t, n, a, b)
    IN  FoldSet(Connect, base, n.connections)
FoldDevices(n, base) == FoldSet(LAMBDA d, t : TopologyAddDevice(t, n, d), base, DOMAIN n.devices)
FoldTerminals(n, base) ==
    FoldSet(LAMBDA x, t : TopologyAttachTerminal(t, n, n.attached[x], x), base, DOMAIN n.attached)

\* The wires are added one by one.
LEMMA WiresDerived ==
    ASSUME NEW n, NetworkOK(n), NEW base, TopologyOK(PartialNetwork(n, "wires", {}), base)
    PROVE  TopologyOK(PartialNetwork(n, "wires", n.wires), FoldWires(n, base))
<1> DEFINE S == n.wires
           Fold(f) == f = [s \in SUBSET S |->
                        IF s = {} THEN base
                        ELSE TopologyAddWire(f[s \ {CHOOSE x \in s : TRUE}], CHOOSE x \in s : TRUE)]
<1>1. PICK g : g = CHOOSE f : Fold(f)
  OBVIOUS
<1>2. FoldWires(n, base) = g[S]
  BY <1>1, Zenon DEF FoldWires, FoldSet, MapThenFoldSet
<1>3. \A f : Fold(f) <=> Folded(n, "wires", base, SUBSET S, f)
  BY Zenon DEF Folded, RoundStep, First, Rest
<1>4. RoundItems(n, "wires") = S /\ "wires" \in Rounds /\ IsFiniteSet(S)
  BY RoundsAreFinite DEF RoundItems, Rounds
<1> HIDE DEF S, Fold
<1>5. Folded(n, "wires", base, SUBSET S, g)
  <2>1. \E f : Folded(n, "wires", base, SUBSET S, f)
    BY <1>4, FoldExists
  <2>2. Fold(g)
    BY <1>1, <1>3, <2>1, Zenon
  <2> QED BY <1>3, <2>2
<1>6. TopologyOK(PartialNetwork(n, "wires", S), g[S])
  BY <1>4, <1>5, RoundFacts
<1> QED BY <1>2, <1>6 DEF S

\* They are connected one by one.
LEMMA ConnectionsDerived ==
    ASSUME NEW n, NetworkOK(n), NEW base, TopologyOK(PartialNetwork(n, "connections", {}), base)
    PROVE  TopologyOK(PartialNetwork(n, "connections", n.connections), FoldConnections(n, base))
<1> DEFINE S == n.connections
           Fold(f) == f = [s \in SUBSET S |->
                        IF s = {} THEN base
                        ELSE LET c == CHOOSE x \in s : TRUE
                                 a == CHOOSE w \in c : TRUE
                                 b == CHOOSE w \in c : w # a
                             IN  TopologyConnectWires(f[s \ {c}], n, a, b)]
<1>1. PICK g : g = CHOOSE f : Fold(f)
  OBVIOUS
<1>2. FoldConnections(n, base) = g[S]
  BY <1>1, Zenon DEF FoldConnections, FoldSet, MapThenFoldSet
<1>3. \A f : Fold(f) <=> Folded(n, "connections", base, SUBSET S, f)
  <2>1. "connections" # "wires"
    OBVIOUS
  <2> QED BY <2>1, Zenon DEF Folded, RoundStep, First, Rest, OneEnd, OtherEnd
<1>4. RoundItems(n, "connections") = S /\ "connections" \in Rounds /\ IsFiniteSet(S)
  BY RoundsAreFinite DEF RoundItems, Rounds
<1> HIDE DEF S, Fold
<1>5. Folded(n, "connections", base, SUBSET S, g)
  <2>1. \E f : Folded(n, "connections", base, SUBSET S, f)
    BY <1>4, FoldExists
  <2>2. Fold(g)
    BY <1>1, <1>3, <2>1, Zenon
  <2> QED BY <1>3, <2>2
<1>6. TopologyOK(PartialNetwork(n, "connections", S), g[S])
  BY <1>4, <1>5, RoundFacts
<1> QED BY <1>2, <1>6 DEF S

\* The devices are placed one by one.
LEMMA DevicesDerived ==
    ASSUME NEW n, NetworkOK(n), NEW base, TopologyOK(PartialNetwork(n, "devices", {}), base)
    PROVE  TopologyOK(PartialNetwork(n, "devices", DOMAIN n.devices), FoldDevices(n, base))
<1> DEFINE S == DOMAIN n.devices
           Fold(f) == f = [s \in SUBSET S |->
                        IF s = {} THEN base
                        ELSE TopologyAddDevice(f[s \ {CHOOSE x \in s : TRUE}], n, CHOOSE x \in s : TRUE)]
<1>1. PICK g : g = CHOOSE f : Fold(f)
  OBVIOUS
<1>2. FoldDevices(n, base) = g[S]
  BY <1>1, Zenon DEF FoldDevices, FoldSet, MapThenFoldSet
<1>3. \A f : Fold(f) <=> Folded(n, "devices", base, SUBSET S, f)
  <2>1. "devices" # "wires" /\ "devices" # "connections"
    OBVIOUS
  <2> QED BY <2>1, Zenon DEF Folded, RoundStep, First, Rest
<1>4. RoundItems(n, "devices") = S /\ "devices" \in Rounds /\ IsFiniteSet(S)
  BY RoundsAreFinite DEF RoundItems, Rounds
<1> HIDE DEF S, Fold
<1>5. Folded(n, "devices", base, SUBSET S, g)
  <2>1. \E f : Folded(n, "devices", base, SUBSET S, f)
    BY <1>4, FoldExists
  <2>2. Fold(g)
    BY <1>1, <1>3, <2>1, Zenon
  <2> QED BY <1>3, <2>2
<1>6. TopologyOK(PartialNetwork(n, "devices", S), g[S])
  BY <1>4, <1>5, RoundFacts
<1> QED BY <1>2, <1>6 DEF S

\* Their terminals are attached one by one.
LEMMA TerminalsDerived ==
    ASSUME NEW n, NetworkOK(n), NEW base, TopologyOK(PartialNetwork(n, "terminals", {}), base)
    PROVE  TopologyOK(PartialNetwork(n, "terminals", DOMAIN n.attached), FoldTerminals(n, base))
<1> DEFINE S == DOMAIN n.attached
           Fold(f) == f = [s \in SUBSET S |->
                        IF s = {} THEN base
                        ELSE LET x == CHOOSE y \in s : TRUE
                             IN  TopologyAttachTerminal(f[s \ {x}], n, n.attached[x], x)]
<1>1. PICK g : g = CHOOSE f : Fold(f)
  OBVIOUS
<1>2. FoldTerminals(n, base) = g[S]
  BY <1>1, Zenon DEF FoldTerminals, FoldSet, MapThenFoldSet
<1>3. \A f : Fold(f) <=> Folded(n, "terminals", base, SUBSET S, f)
  <2>1. "terminals" # "wires" /\ "terminals" # "connections" /\ "terminals" # "devices"
    OBVIOUS
  <2> QED BY <2>1, Zenon DEF Folded, RoundStep, First, Rest
<1>4. RoundItems(n, "terminals") = S /\ "terminals" \in Rounds /\ IsFiniteSet(S)
  BY RoundsAreFinite DEF RoundItems, Rounds
<1> HIDE DEF S, Fold
<1>5. Folded(n, "terminals", base, SUBSET S, g)
  <2>1. \E f : Folded(n, "terminals", base, SUBSET S, f)
    BY <1>4, FoldExists
  <2>2. Fold(g)
    BY <1>1, <1>3, <2>1, Zenon
  <2> QED BY <1>3, <2>2
<1>6. TopologyOK(PartialNetwork(n, "terminals", S), g[S])
  BY <1>4, <1>5, RoundFacts
<1> QED BY <1>2, <1>6 DEF S

\* What from_network derives.
Derived(n) == FoldTerminals(n, FoldDevices(n, FoldConnections(n, FoldWires(n, EmptyTopology))))

\* It is a topology of the network.
LEMMA NetworkDerived == ASSUME NEW n, NetworkOK(n) PROVE TopologyOK(n, Derived(n))
<1> DEFINE wired == FoldWires(n, EmptyTopology)
           connected == FoldConnections(n, wired)
           placed == FoldDevices(n, connected)
           none == << >>
<1>1. PartialNetwork(n, "wires", {}) = EmptyNetwork
  BY Zenon DEF PartialNetwork, EmptyNetwork
<1>2. PartialNetwork(n, "wires", n.wires) = PartialNetwork(n, "connections", {})
  BY DEF PartialNetwork
<1>3. DOMAIN none = {} /\ \A f : Restrict(f, {}) = none
  BY DEF Restrict
<1>4. PartialNetwork(n, "connections", n.connections) = PartialNetwork(n, "devices", {})
  <2>1. Restrict(n.devices, {}) = none
    BY <1>3
  <2> QED BY <2>1 DEF PartialNetwork
<1>5. PartialNetwork(n, "devices", DOMAIN n.devices) = PartialNetwork(n, "terminals", {})
  <2>1. Restrict(n.attached, {}) = none
    BY <1>3
  <2>2. Restrict(n.devices, DOMAIN n.devices) = n.devices
    BY DEF NetworkOK, Restrict
  <2> QED BY <2>1, <2>2 DEF PartialNetwork
<1>6. PartialNetwork(n, "terminals", DOMAIN n.attached) = n
  <2>1. Restrict(n.attached, DOMAIN n.attached) = n.attached
    BY DEF NetworkOK, Restrict
  <2> QED BY <2>1 DEF PartialNetwork, NetworkOK, NetworkRecord
<1> HIDE DEF wired, connected, placed
<1>7. TopologyOK(PartialNetwork(n, "wires", n.wires), wired)
  BY <1>1, NothingDerived, WiresDerived DEF wired
<1>8. TopologyOK(PartialNetwork(n, "connections", n.connections), connected)
  BY <1>2, <1>7, ConnectionsDerived DEF connected
<1>9. TopologyOK(PartialNetwork(n, "devices", DOMAIN n.devices), placed)
  BY <1>4, <1>8, DevicesDerived DEF placed
<1>10. TopologyOK(PartialNetwork(n, "terminals", DOMAIN n.attached), FoldTerminals(n, placed))
  BY <1>5, <1>9, TerminalsDerived
<1> QED BY <1>6, <1>10 DEF Derived, placed, connected, wired

\* The island of a net, as a set of components.
IslandOfNet(t, i) == IF t.netIsland[i] = NoIsland THEN {} ELSE t.islands[t.netIsland[i]]

\* Two topologies of a network have the same islands.
LEMMA IslandsAgree ==
    ASSUME NEW n, NetworkOK(n), NEW t, NetsOK(n, t, {}), IslandsOK(n, t, {}),
           NEW u, NetsOK(n, u, {}), IslandsOK(n, u, {})
    PROVE  \A i \in DOMAIN t.islands : \E j \in DOMAIN u.islands : t.islands[i] = u.islands[j]
<1> TAKE i \in DOMAIN t.islands
<1>1. PICK c \in t.islands[i] : c \in Components(n) /\ t.componentIsland[c] = i
  BY DEF IslandsOK, IslandMembers
<1>2. ComponentGroup(n, c) = t.islands[i] /\ ComponentGroup(n, c) = u.islands[u.componentIsland[c]]
  BY <1>1, IslandIsGroup
<1>3. u.componentIsland[c] \in DOMAIN u.islands
  BY <1>1 DEF IslandsOK, IslandMembers
<1> QED BY <1>2, <1>3

\* They have the same nets, in the same islands.
LEMMA NetsAgree ==
    ASSUME NEW n, NetworkOK(n), NEW t, NetsOK(n, t, {}), IslandsOK(n, t, {}),
           NEW u, NetsOK(n, u, {}), IslandsOK(n, u, {})
    PROVE  \A i \in DOMAIN t.nets :
               \E j \in DOMAIN u.nets : t.nets[i] = u.nets[j] /\ IslandOfNet(t, i) = IslandOfNet(u, j)
<1> TAKE i \in DOMAIN t.nets
<1>1. PICK w \in n.wires : t.wireNet[w] = i
  <2>1. WiresAt(t, n, i) # {}
    BY DEF NetsOK
  <2> QED BY <2>1 DEF WiresAt
<1> DEFINE j == u.wireNet[w]
<1>2. j \in DOMAIN u.nets
  BY DEF NetsOK
<1>3. WiresAt(t, n, i) = WiresAt(u, n, j)
  BY <1>1, NetIsGroup
<1> HIDE DEF j
<1>4. t.nets[i] = u.nets[j]
  <2> DEFINE Net(wires) == [wires |-> wires, components |-> Incidences(n, wires)]
  <2>1. t.nets[i] = Net(WiresAt(t, n, i))
    BY DEF NetsOK
  <2>2. u.nets[j] = Net(WiresAt(u, n, j))
    BY <1>2 DEF NetsOK
  <2> HIDE DEF Net
  <2> QED BY <1>3, <2>1, <2>2
<1>5. \A x \in DOMAIN n.attached : NetAt(t, n, x) = i <=> NetAt(u, n, x) = j
  <2>1. \A x \in DOMAIN n.attached : n.attached[x] \in n.wires
    BY DEF NetworkOK
  <2> QED BY <1>3, <2>1 DEF WiresAt, NetAt
<1>6. IslandOfNet(t, i) = IslandOfNet(u, j)
  <2>1. CASE \E x \in DOMAIN n.attached : NetAt(t, n, x) = i
    <3>1. PICK x \in DOMAIN n.attached : NetAt(t, n, x) = i /\ NetAt(u, n, x) = j
      BY <1>5, <2>1
    <3> DEFINE c == TerminalComponent(n, x)
    <3>2. c \in Components(n)
      BY TerminalFacts
    <3> HIDE DEF c
    <3>3. t.netIsland[i] = t.componentIsland[c] /\ u.netIsland[j] = u.componentIsland[c]
      BY <3>1 DEF IslandsOK, NetIslands, c
    <3>4. t.componentIsland[c] # NoIsland /\ u.componentIsland[c] # NoIsland
      BY <3>2 DEF IslandsOK, IslandMembers, NoIsland
    <3>5. t.islands[t.componentIsland[c]] = u.islands[u.componentIsland[c]]
      BY <3>2, IslandIsGroup
    <3> QED BY <3>3, <3>4, <3>5 DEF IslandOfNet
  <2>2. CASE ~ \E x \in DOMAIN n.attached : NetAt(t, n, x) = i
    <3>1. i \in 1..t.netSlots /\ j \in 1..u.netSlots
      BY <1>2 DEF NetsOK
    <3>2. t.netIsland[i] = NoIsland
      BY <2>2, <3>1 DEF IslandsOK, NetIslands
    <3>3. u.netIsland[j] = NoIsland
      BY <1>5, <2>2, <3>1 DEF IslandsOK, NetIslands
    <3> QED BY <3>2, <3>3 DEF IslandOfNet
  <2> QED BY <2>1, <2>2
<1> QED BY <1>2, <1>4, <1>6

\* A network has one topology, up to the slots.
LEMMA SameShape ==
    ASSUME NEW n, NetworkOK(n), NEW t, NetsOK(n, t, {}), IslandsOK(n, t, {}),
           NEW u, NetsOK(n, u, {}), IslandsOK(n, u, {})
    PROVE  Shape(t) = Shape(u)
<1> DEFINE NetShapes(v) == {<<v.nets[i], IslandOfNet(v, i)>> : i \in DOMAIN v.nets}
<1>1. \A v : Shape(v) = [nets |-> NetShapes(v), islands |-> Range(v.islands)]
  BY Zenon DEF Shape, IslandOfNet
<1>2. NetShapes(t) = NetShapes(u)
  <2>1. NetShapes(t) \subseteq NetShapes(u)
    BY NetsAgree
  <2>2. NetShapes(u) \subseteq NetShapes(t)
    BY NetsAgree
  <2> QED BY <2>1, <2>2
<1>3. Range(t.islands) = Range(u.islands)
  <2>1. Range(t.islands) \subseteq Range(u.islands)
    BY IslandsAgree DEF Range
  <2>2. Range(u.islands) \subseteq Range(t.islands)
    BY IslandsAgree DEF Range
  <2> QED BY <2>1, <2>2
<1> HIDE DEF NetShapes
<1> QED BY <1>1, <1>2, <1>3

\* What the commands have repaired step by step has the shape of what
\* from_network derives.
LEMMA RebuildingMatches ==
    ASSUME NEW n, NEW t, TopologyOK(n, t) PROVE Shape(t) = Shape(FromNetwork(n))
<1> DEFINE u == Derived(n)
           marks == [topologyDirty |-> DOMAIN u.islands, retired |-> {}]
           f == [u EXCEPT !.invalidation = marks]
<1>1. FromNetwork(n) = f
  BY Zenon DEF FromNetwork, Derived, FoldWires, FoldConnections, FoldDevices, FoldTerminals
<1>2. TopologyOK(n, u)
  BY NetworkDerived DEF TopologyOK
<1> HIDE DEF u, marks
<1>3. f.nets = u.nets /\ f.netIsland = u.netIsland /\ f.islands = u.islands
  BY <1>2 DEF TopologyOK, TopologyRecord
<1> HIDE DEF f
<1>4. Shape(f) = Shape(u)
  BY <1>3 DEF Shape
<1>5. Shape(t) = Shape(u)
  BY <1>2, SameShape DEF TopologyOK
<1> QED BY <1>1, <1>4, <1>5

-----------------------------------------------------------------------------
(* The theorems.                                                           *)

\* The stores, the maps between them and the runtimes fit together.
THEOREM TypeCorrect == Spec => []TypeOK
<1>1. IndInv => TypeOK
  BY TypeMatches
<1> QED BY <1>1, Invariance, PTL

\* After every command, in whatever order nets and islands have merged and come
\* apart, each net is a group of wires that conduct into each other, each island
\* a group of components, and from_network gives the same nets and islands
\* (assert_matches_network).
THEOREM TopologyIsOfNetwork == Spec => []TopologyMatchesNetwork
<1>1. IndInv => TypeOK
  BY TypeMatches
<1>2. IndInv => NetsMatchNetwork /\ IslandsMatchNetwork
  BY NetsMatch, IslandsMatch DEF IndInv
<1>3. IndInv => RebuildingChangesNothing
  BY RebuildingMatches DEF IndInv, RebuildingChangesNothing
<1>4. IndInv => TopologyMatchesNetwork
  BY <1>1, <1>2, <1>3 DEF TopologyMatchesNetwork
<1> QED BY <1>4, Invariance, PTL

\* The synchronisation compiles only live islands and drops only dead ones
\* (sync_island_runtimes, WorldInvalidation).
THEOREM MarksAreExact == Spec => []InvalidationIsExact
<1>1. IndInv => InvalidationIsExact
  BY DEF IndInv, TopologyOK, MarksOK, InvalidationIsExact
<1> QED BY <1>1, Invariance, PTL

\* No command leaves a runtime stale without marking its island, for any network
\* and any order of commands and synchronisations (sync_island_runtimes).
THEOREM NoRuntimeIsStale == Spec => []RuntimesAreCurrent
<1>1. IndInv => RuntimesAreCurrent
  BY DEF IndInv
<1> QED BY <1>1, Invariance, PTL

\* A live island keeps a component across every command, and the ID of a dead one
\* is never used again (repair_island, merge_islands, DenseIdStore).
THEOREM IdentityIsKept == Spec => IslandsKeepTheirIdentity
<1>1. IndInv /\ [Next]_vars => [IdentityKept]_vars
  BY NextInv
<1>2. IdentityKept <=> \A i \in DOMAIN topology'.islands :
                            i \in 1..topology.islandSlots =>
                                /\ i \in DOMAIN topology.islands
                                /\ topology.islands[i] \cap topology'.islands[i] # {}
  BY DEF IdentityKept
<1>3. Spec => [][IdentityKept]_vars
  BY <1>1, Invariance, PTL DEF Spec
<1> QED BY <1>3, PTL DEF IslandsKeepTheirIdentity, IdentityKept
=============================================================================
