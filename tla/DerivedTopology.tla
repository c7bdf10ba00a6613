--------------------------- MODULE DerivedTopology ---------------------------
(***************************************************************************)
(* What the engine derives from the network and repairs on every command:  *)
(* nets (groups of wires that conduct into each other) and islands (groups *)
(* of device components that conduct into each other through nets), and    *)
(* the islands whose runtimes are stale (hynergy-engine, src/topology, and *)
(* the command and synchronisation methods of World in src/lib.rs).        *)
(*                                                                         *)
(* Net and island IDs are slots and are never given out again.  Where the  *)
(* order of a vector decides which piece keeps an ID or which new piece    *)
(* comes first, the model leaves the choice open.  Island revisions are    *)
(* left out: only tests read them; the invalidation of bindings and of     *)
(* parameters is in DeviceArena.                                           *)
(***************************************************************************)
EXTENDS Network, Bags, FiniteSetsExt

CONSTANTS
    MaxNets,      \* how many net slots a run may allocate
    MaxIslands    \* how many island slots a run may allocate

NoIsland == 0

VARIABLES
    network,
    topology,    \* the DerivedTopology
    runtimes     \* what each island runtime was compiled from

vars == <<network, topology, runtimes>>

EmptyInvalidation == [topologyDirty |-> {}, retired |-> {}]

EmptyTopology ==
    [ nets |-> << >>,              \* live nets: their wires and their incidences
      netSlots |-> 0,
      wireNet |-> << >>,
      netIsland |-> << >>,         \* for every net slot, also the dead ones
      islands |-> << >>,           \* live islands: their components
      islandSlots |-> 0,
      componentIsland |-> << >>,   \* the sidecar of the device rows
      invalidation |-> EmptyInvalidation ]

-----------------------------------------------------------------------------
(* WorldInvalidation.                                                      *)

MarkAllTopologyDirty(t, marked) ==
    [t EXCEPT !.invalidation.topologyDirty = @ \cup (marked \ t.invalidation.retired)]
MarkTopologyDirty(t, island) == MarkAllTopologyDirty(t, {island})

\* Mutant: a retired island stays dirty.
MarkRetiredOnly(t, island) ==
    [t EXCEPT !.invalidation.retired = @ \cup {island}]

MarkRetired(t, island) ==
    [t EXCEPT !.invalidation.topologyDirty = @ \ {island},
              !.invalidation.retired = @ \cup {island}]

-----------------------------------------------------------------------------
(* Helpers on the two stores.                                              *)

Without(f, key) == Restrict(f, DOMAIN f \ {key})
With(f, key, value) == [k \in DOMAIN f \cup {key} |-> IF k = key THEN value ELSE f[k]]

\* What a device's components are mapped to is gone.
WithoutDevice(f, d) == Restrict(f, {c \in DOMAIN f : c[1] # d})

\* The incidences of some wires: a component once for each attached terminal.
Incidences(n, wires) ==
    LET terminals == TerminalsOn(n, wires) IN
    [c \in {TerminalComponent(n, terminal) : terminal \in terminals} |->
        Cardinality({terminal \in terminals : TerminalComponent(n, terminal) = c})]

\* The nets the attached terminals of a component are on.
NetsOf(t, n, component) ==
    {t.wireNet[n.attached[terminal]] :
        terminal \in {x \in DOMAIN n.attached : TerminalComponent(n, x) = component}}

\* Mutant: the slot of a dead island is used again.
InsertIslandInVacantSlot(t, components) ==
    LET island == Min((1..(t.islandSlots + 1)) \ DOMAIN t.islands) IN
    MarkTopologyDirty(
        [t EXCEPT !.islands = With(@, island, components),
                  !.islandSlots = Max({@, island}),
                  !.componentIsland = [c \in DOMAIN @ \cup components |->
                                          IF c \in components THEN island ELSE @[c]]],
        island)

\* Islands for new pieces, in slots after the last.
InsertIsland(t, components) ==
    LET island == t.islandSlots + 1 IN
    MarkTopologyDirty(
        [t EXCEPT !.islands = With(@, island, components),
                  !.islandSlots = island,
                  !.componentIsland = [c \in DOMAIN @ \cup components |->
                                          IF c \in components THEN island ELSE @[c]]],
        island)

\* merge_islands: the island with more components keeps its ID.
Survivor(t, a, b) == IF Cardinality(t.islands[a]) >= Cardinality(t.islands[b]) THEN a ELSE b

\* Mutant: the nets of the moved components stay with the retired island.
MergeIslandsNotNets(t, n, a, b) ==
    IF a = b THEN t
    ELSE
        LET dst == Survivor(t, a, b)
            src == IF dst = a THEN b ELSE a
            moved == t.islands[src]
        IN  MarkTopologyDirty(
                MarkRetired(
                    [t EXCEPT
                        !.islands = With(Without(@, src), dst, @[dst] \cup moved),
                        !.componentIsland = [c \in DOMAIN @ |-> IF c \in moved THEN dst ELSE @[c]]],
                    src),
                dst)

MergeIslands(t, n, a, b) ==
    IF a = b THEN t
    ELSE
        LET dst == Survivor(t, a, b)
            src == IF dst = a THEN b ELSE a
            moved == t.islands[src]
            nets == UNION {NetsOf(t, n, c) : c \in moved}
        IN  MarkTopologyDirty(
                MarkRetired(
                    [t EXCEPT
                        !.islands = With(Without(@, src), dst, @[dst] \cup moved),
                        !.componentIsland = [c \in DOMAIN @ |-> IF c \in moved THEN dst ELSE @[c]],
                        !.netIsland = [i \in DOMAIN @ |->
                            IF i \in nets /\ @[i] = src THEN dst ELSE @[i]]],
                    src),
                dst)

-----------------------------------------------------------------------------
(* repair_net and repair_island: a group that may have come apart is walked *)
(* again, the largest piece keeps the ID, the others get new ones.          *)

\* Every way to give the IDs after the last slot to some pieces.
NewIds(pieces, slots) == Bijection(pieces, (slots + 1)..(slots + Cardinality(pieces)))

WirePieces(t, n, net) ==
    {WireGroup(n, w) : w \in {w \in t.nets[net].wires : w \in DOMAIN t.wireNet}}

\* The topologies after a repair of a net, each with the nets it left.
RepairNet(t, n, net) ==
    LET pieces == WirePieces(t, n, net)
        largest == {p \in pieces : \A q \in pieces : Cardinality(p) >= Cardinality(q)}
        Repaired(kept, ids) ==
            LET NetAt(w) == CHOOSE i \in {net} \cup Range(ids) :
                                \E p \in pieces : w \in p /\ i = IF p = kept THEN net ELSE ids[p]
                walked == UNION pieces
            IN  [ topology |->
                    [t EXCEPT
                        !.wireNet = [w \in DOMAIN @ |-> IF w \in walked THEN NetAt(w) ELSE @[w]],
                        !.nets = [i \in DOMAIN @ \cup Range(ids) |->
                            IF i \in {net} \cup Range(ids)
                            THEN LET wires == {w \in walked : NetAt(w) = i} IN
                                 [wires |-> wires, components |-> Incidences(n, wires)]
                            ELSE @[i]],
                        !.netIsland = [i \in DOMAIN @ \cup Range(ids) |->
                            IF i \in Range(ids) THEN @[net] ELSE @[i]],
                        !.netSlots = @ + Cardinality(pieces \ {kept})],
                  nets |-> {net} \cup Range(ids) ]
    IN  IF pieces = {}
        THEN {[ topology |-> [t EXCEPT !.nets = Without(@, net), !.netIsland[net] = NoIsland],
                nets |-> {} ]}
        ELSE UNION {{Repaired(kept, ids) : ids \in NewIds(pieces \ {kept}, t.netSlots)} :
                        kept \in largest}

\* walk_island_component: from components to the nets of their terminals,
\* from nets to the components of their incidences.
IslandPiece(t, n, start) ==
    LET Neighbours(v) ==
            IF v[1] = "net" THEN {<<"component", c>> : c \in DOMAIN t.nets[v[2]].components}
                            ELSE {<<"net", i>> : i \in NetsOf(t, n, v[2])}
        reached == Reached(start, [v \in ({"net"} \X DOMAIN t.nets)
                                            \cup ({"component"} \X Components(n)) |-> Neighbours(v)])
    IN  [ nets |-> {i \in DOMAIN t.nets : <<"net", i>> \in reached},
          components |-> {c \in Components(n) : <<"component", c>> \in reached} ]

IslandPieces(t, n, island, affectedNets) ==
    {IslandPiece(t, n, <<"component", c>>) : c \in t.islands[island]}
        \cup {IslandPiece(t, n, <<"net", i>>) : i \in affectedNets}

RewriteCost(piece) == Cardinality(piece.nets) + Cardinality(piece.components)

RepairIsland(t, n, island, affectedNets) ==
    LET pieces == IslandPieces(t, n, island, affectedNets)
        conducting == {p \in pieces : p.components # {}}
        bare == UNION {p.nets : p \in pieces \ conducting}
        freed == [t EXCEPT !.netIsland = [i \in DOMAIN @ |-> IF i \in bare THEN NoIsland ELSE @[i]]]
        largest == {p \in conducting : \A q \in conducting : RewriteCost(p) >= RewriteCost(q)}
        Repaired(kept, ids) ==
            LET others == conducting \ {kept}
                moved == UNION {p.components : p \in others}
                movedNets == UNION {p.nets : p \in others}
                NewIsland(p) == ids[p]
                dirty == [freed EXCEPT
                    !.islands = [i \in DOMAIN @ \cup Range(ids) |->
                        IF i = island THEN kept.components
                        ELSE IF i \in Range(ids)
                             THEN (CHOOSE p \in others : ids[p] = i).components ELSE @[i]],
                    !.islandSlots = @ + Cardinality(others),
                    !.componentIsland = [c \in DOMAIN @ |->
                        IF c \in moved THEN NewIsland(CHOOSE p \in others : c \in p.components)
                                       ELSE @[c]],
                    !.netIsland = [i \in DOMAIN @ |->
                        IF i \in movedNets THEN NewIsland(CHOOSE p \in others : i \in p.nets)
                                           ELSE @[i]]]
            IN  MarkAllTopologyDirty(dirty, {island} \cup Range(ids))
    IN  IF island \notin DOMAIN t.islands THEN {t}
        ELSE IF conducting = {}
        THEN {MarkRetired([freed EXCEPT !.islands = Without(@, island)], island)}
        ELSE UNION {{Repaired(kept, ids) : ids \in NewIds(conducting \ {kept}, t.islandSlots)} :
                        kept \in largest}

-----------------------------------------------------------------------------
(* The commands; n is the network after the command.                       *)

TopologyAddWire(t, w) ==
    LET net == t.netSlots + 1 IN
    [t EXCEPT !.nets = With(@, net, [wires |-> {w}, components |-> EmptyBag]),
              !.netIsland = With(@, net, NoIsland),
              !.netSlots = net,
              !.wireNet = With(@, w, net)]

TopologyRemoveWire(t, n, w) ==
    LET net == t.wireNet[w]
        island == t.netIsland[net]
        repaired == RepairNet([t EXCEPT !.wireNet = Without(@, w)], n, net)
    IN  IF island = NoIsland THEN {r.topology : r \in repaired}
        ELSE UNION {RepairIsland(r.topology, n, island, r.nets) : r \in repaired}

\* connect_wires: the net of an island wins over one without, else the net
\* with more wires; only a loop inside one island is marked here.
TopologyConnectWires(t, n, a, b) ==
    LET netA == t.wireNet[a]
        netB == t.wireNet[b]
        islandA == t.netIsland[netA]
        islandB == t.netIsland[netB]
        keepA == IF (islandA = NoIsland) # (islandB = NoIsland) THEN islandA # NoIsland
                 ELSE Cardinality(t.nets[netA].wires) >= Cardinality(t.nets[netB].wires)
        dst == IF keepA THEN netA ELSE netB
        src == IF keepA THEN netB ELSE netA
        i == t.netIsland[dst]
        j == t.netIsland[src]
        two == i # NoIsland /\ j # NoIsland
        merged == IF two THEN MergeIslands(t, n, i, j) ELSE t
        final == IF two THEN Survivor(t, i, j) ELSE IF i # NoIsland THEN i ELSE j
        joined == [merged EXCEPT
            !.nets = With(Without(@, src), dst,
                          [wires |-> @[dst].wires \cup @[src].wires,
                           components |-> @[dst].components (+) @[src].components]),
            !.netIsland[src] = NoIsland,
            !.netIsland[dst] = final,
            !.wireNet = [w \in DOMAIN @ |-> IF @[w] = src THEN dst ELSE @[w]]]
    IN  IF netA = netB THEN t
        ELSE IF two /\ i = j THEN MarkTopologyDirty(joined, final)
        ELSE joined

\* Mutant: wires without devices are not repaired.
DisconnectWiresOfIslands(t, n, a) ==
    LET net == t.wireNet[a]
        island == t.netIsland[net]
    IN  IF island = NoIsland THEN {t}
        ELSE UNION {IF Cardinality(r.nets) > 1
                    THEN RepairIsland(r.topology, n, island, r.nets)
                    ELSE {r.topology} : r \in RepairNet(t, n, net)}

\* disconnect_wires: nothing happens to a net that stays in one piece.
TopologyDisconnectWires(t, n, a) ==
    LET net == t.wireNet[a]
        island == t.netIsland[net]
        RepairAfter(r) ==
            IF Cardinality(r.nets) > 1 /\ island # NoIsland
            THEN RepairIsland(r.topology, n, island, r.nets) ELSE {r.topology}
    IN  UNION {RepairAfter(r) : r \in RepairNet(t, n, net)}

TopologyAddDevice(t, n, d) ==
    LET inserted[p \in 0..n.devices[d].partitionCount] ==
            IF p = 0 THEN t ELSE InsertIsland(inserted[p - 1], {<<d, p>>})
    IN  inserted[n.devices[d].partitionCount]

\* remove_device: the nets and the islands the device was part of, found
\* before the model changed, are repaired after it did.
TopologyRemoveDevice(t, before, n, d) ==
    LET nets == UNION {NetsOf(t, before, c) : c \in DeviceComponents(before, d)}
        IslandOf(p) == t.componentIsland[<<d, p>>]
        partitions == 1..before.devices[d].partitionCount
        islands == {IslandOf(p) : p \in partitions}
        removed == [t EXCEPT
            !.nets = [i \in DOMAIN @ |->
                IF i \in nets
                THEN [wires |-> @[i].wires, components |-> WithoutDevice(@[i].components, d)]
                ELSE @[i]],
            !.islands = [i \in DOMAIN @ |->
                IF i \in islands THEN {c \in @[i] : c[1] # d} ELSE @[i]],
            !.componentIsland = WithoutDevice(@, d)]
        Repairs(u, island) == RepairIsland(u, n, island, {i \in nets : u.netIsland[i] = island})
        repaired[p \in 0..before.devices[d].partitionCount] ==
            IF p = 0 THEN {removed}
            ELSE IF \E q \in 1..(p - 1) : IslandOf(q) = IslandOf(p) THEN repaired[p - 1]
            ELSE UNION {Repairs(u, IslandOf(p)) : u \in repaired[p - 1]}
    IN  repaired[before.devices[d].partitionCount]

\* Mutant: a terminal more on a net of its own island changes nothing.
AttachTerminalToOwnIsland(t, n, w, terminal) ==
    LET net == t.wireNet[w]
        component == TerminalComponent(n, terminal)
        island == t.componentIsland[component]
        attached == [t EXCEPT !.nets[net].components = @ (+) SetToBag({component})]
    IN  IF t.netIsland[net] = NoIsland
        THEN MarkTopologyDirty([attached EXCEPT !.netIsland[net] = island], island)
        ELSE IF t.netIsland[net] = island THEN attached
        ELSE MergeIslands(attached, n, t.netIsland[net], island)

TopologyAttachTerminal(t, n, w, terminal) ==
    LET net == t.wireNet[w]
        component == TerminalComponent(n, terminal)
        island == t.componentIsland[component]
        attached == [t EXCEPT !.nets[net].components = @ (+) SetToBag({component})]
    IN  IF t.netIsland[net] = NoIsland
        THEN MarkTopologyDirty([attached EXCEPT !.netIsland[net] = island], island)
        ELSE IF t.netIsland[net] = island THEN MarkTopologyDirty(attached, island)
        ELSE MergeIslands(attached, n, t.netIsland[net], island)

\* Mutant: the net the terminal leaves is not walked.
DetachTerminalNotNet(t, n, w, terminal) ==
    LET component == TerminalComponent(n, terminal)
        detached == [t EXCEPT !.nets[t.wireNet[w]].components = @ (-) SetToBag({component})]
    IN  RepairIsland(detached, n, t.componentIsland[component], {})

TopologyDetachTerminal(t, n, w, terminal) ==
    LET net == t.wireNet[w]
        component == TerminalComponent(n, terminal)
        detached == [t EXCEPT !.nets[net].components = @ (-) SetToBag({component})]
    IN  RepairIsland(detached, n, t.componentIsland[component], {net})

\* from_network: the topology of a network, derived from nothing: its wires,
\* their connections, its devices, and the attached terminals, one by one.
FromNetwork(n) ==
    LET AddWires == FoldSet(LAMBDA w, t : TopologyAddWire(t, w), EmptyTopology, n.wires)
        Connect(c, t) ==
            LET a == CHOOSE w \in c : TRUE
                b == CHOOSE w \in c : w # a
            IN  TopologyConnectWires(t, n, a, b)
        connected == FoldSet(Connect, AddWires, n.connections)
        placed == FoldSet(LAMBDA d, t : TopologyAddDevice(t, n, d), connected, DOMAIN n.devices)
        derived == FoldSet(LAMBDA x, t : TopologyAttachTerminal(t, n, n.attached[x], x),
                           placed, DOMAIN n.attached)
    IN  [derived EXCEPT !.invalidation = [topologyDirty |-> DOMAIN derived.islands, retired |-> {}]]

-----------------------------------------------------------------------------
(* A world's commands, and the synchronisation at the start of a tick.     *)

Init ==
    /\ network = EmptyNetwork
    /\ topology = EmptyTopology
    /\ runtimes = << >>

\* The bounds of the slots a run may allocate.
Allocated == topology'.netSlots <= MaxNets /\ topology'.islandSlots <= MaxIslands

AddWire(w) ==
    /\ CanAddWire(network, w)
    /\ network' = AfterAddWire(network, w)
    /\ topology' = TopologyAddWire(topology, w)
    /\ Allocated
    /\ UNCHANGED runtimes

RemoveWire(w) ==
    /\ CanRemoveWire(network, w)
    /\ network' = AfterRemoveWire(network, w)
    /\ topology' \in TopologyRemoveWire(topology, network', w)
    /\ Allocated
    /\ UNCHANGED runtimes

ConnectWires(a, b) ==
    /\ CanConnectWires(network, a, b)
    /\ network' = AfterConnectWires(network, a, b)
    /\ topology' = TopologyConnectWires(topology, network', a, b)
    /\ UNCHANGED runtimes

DisconnectWires(a, b) ==
    /\ CanDisconnectWires(network, a, b)
    /\ network' = AfterDisconnectWires(network, a, b)
    /\ topology' \in TopologyDisconnectWires(topology, network', a)
    /\ Allocated
    /\ UNCHANGED runtimes

AddDevice(d, definition) ==
    /\ CanAddDevice(network, d)
    /\ network' = AfterAddDevice(network, d, definition)
    /\ topology' = TopologyAddDevice(topology, network', d)
    /\ Allocated
    /\ UNCHANGED runtimes

RemoveDevice(d) ==
    /\ CanRemoveDevice(network, d)
    /\ network' = AfterRemoveDevice(network, d)
    /\ topology' \in TopologyRemoveDevice(topology, network, network', d)
    /\ Allocated
    /\ UNCHANGED runtimes

AttachTerminal(w, terminal) ==
    /\ CanAttachTerminal(network, w, terminal)
    /\ network' = AfterAttachTerminal(network, w, terminal)
    /\ topology' = TopologyAttachTerminal(topology, network', w, terminal)
    /\ UNCHANGED runtimes

DetachTerminal(w, terminal) ==
    /\ CanDetachTerminal(network, w, terminal)
    /\ network' = AfterDetachTerminal(network, terminal)
    /\ topology' \in TopologyDetachTerminal(topology, network', w, terminal)
    /\ Allocated
    /\ UNCHANGED runtimes

\* What compile_topology_island reads: the components, and which of their
\* terminals share a node; a terminal that is not attached is its own node.
CompiledIsland(t, n, island) ==
    LET terminals == {x \in Terminals(n) : TerminalComponent(n, x) \in t.islands[island]}
        SameNode(x, y) ==
            x = y \/ ({x, y} \subseteq DOMAIN n.attached /\
                        t.wireNet[n.attached[x]] = t.wireNet[n.attached[y]])
    IN  [ components |-> t.islands[island],
          nodes |-> {{y \in terminals : SameNode(x, y)} : x \in terminals} ]

SyncIslandRuntimes ==
    LET invalidation == topology.invalidation
        kept == DOMAIN runtimes \ invalidation.retired
    IN  /\ invalidation # EmptyInvalidation
        /\ runtimes' = [i \in kept \cup invalidation.topologyDirty |->
                IF i \in invalidation.topologyDirty THEN CompiledIsland(topology, network, i)
                                                   ELSE runtimes[i]]
        /\ topology' = [topology EXCEPT !.invalidation = EmptyInvalidation]
        /\ UNCHANGED network

Next ==
    \/ \E w \in Wires : AddWire(w) \/ RemoveWire(w)
    \/ \E a, b \in Wires : ConnectWires(a, b) \/ DisconnectWires(a, b)
    \/ \E d \in Devices : RemoveDevice(d) \/ \E definition \in Definitions : AddDevice(d, definition)
    \/ \E w \in Wires, terminal \in Terminals(network) :
          AttachTerminal(w, terminal) \/ DetachTerminal(w, terminal)
    \/ SyncIslandRuntimes

Spec == Init /\ [][Next]_vars

-----------------------------------------------------------------------------
(* Properties.                                                             *)

TypeOK ==
    /\ network.wires \subseteq Wires
    /\ DOMAIN network.devices \subseteq Devices
    /\ DOMAIN topology.wireNet = network.wires
    /\ \A w \in network.wires : topology.wireNet[w] \in DOMAIN topology.nets
    /\ DOMAIN topology.nets \subseteq 1..topology.netSlots
    /\ Range(topology.netIsland) \subseteq {NoIsland} \cup DOMAIN topology.islands
    /\ DOMAIN topology.islands \subseteq 1..topology.islandSlots
    /\ DOMAIN topology.componentIsland = Components(network)
    /\ Range(topology.componentIsland) \subseteq DOMAIN topology.islands
    /\ DOMAIN runtimes \subseteq 1..topology.islandSlots

\* After every command a net is exactly a group of wires that conduct into
\* each other, with one incidence for each terminal attached to them
\* (assert_membership_maps, assert_net_partition_matches_network).
NetsMatchNetwork ==
    /\ \A i \in DOMAIN topology.nets :
        LET net == topology.nets[i] IN
        /\ net.wires # {}
        /\ \A w \in net.wires : topology.wireNet[w] = i /\ WireGroup(network, w) = net.wires
        /\ net.components = Incidences(network, net.wires)
    /\ \A w \in network.wires : w \in topology.nets[topology.wireNet[w]].wires

\* An island is exactly a group of components that conduct into each other,
\* a net belongs to the island of its components, and one without has none
\* (assert_island_partition_matches_network).
IslandsMatchNetwork ==
    /\ \A c \in Components(network) :
        LET island == topology.componentIsland[c] IN
        topology.islands[island] = ComponentGroup(network, c)
    /\ \A i \in DOMAIN topology.islands :
        /\ topology.islands[i] # {}
        /\ \A c \in topology.islands[i] : topology.componentIsland[c] = i
    /\ \A i \in 1..topology.netSlots :
        LET components == IF i \in DOMAIN topology.nets
                          THEN BagToSet(topology.nets[i].components) ELSE {}
        IN  IF components = {} THEN topology.netIsland[i] = NoIsland
            ELSE \A c \in components : topology.componentIsland[c] = topology.netIsland[i]

\* No command leaves a runtime stale without saying so: a live island that is
\* not dirty has a runtime, compiled from the components and nodes it has
\* now, and a runtime of a dead island is about to be dropped, though nets
\* may have merged and come apart since (sync_island_runtimes).
RuntimesAreCurrent ==
    /\ \A i \in DOMAIN topology.islands \ topology.invalidation.topologyDirty :
        i \in DOMAIN runtimes /\ runtimes[i] = CompiledIsland(topology, network, i)
    /\ DOMAIN runtimes \subseteq DOMAIN topology.islands \cup topology.invalidation.retired

\* The synchronisation never compiles an island that is gone nor drops the
\* runtime of a live one, in whatever order islands were marked since the
\* last tick (compile_topology_island's expect, WorldInvalidation).
InvalidationIsExact ==
    LET invalidation == topology.invalidation IN
    /\ invalidation.topologyDirty \subseteq DOMAIN topology.islands
    /\ invalidation.retired \cap DOMAIN topology.islands = {}

\* An island ID that stays alive across a command keeps some of its
\* components, and a dead one never comes back (repair_island, DenseIdStore).
IslandsKeepTheirIdentity ==
    [][\A i \in DOMAIN topology'.islands :
          i \in 1..topology.islandSlots =>
            i \in DOMAIN topology.islands /\ topology.islands[i] \cap topology'.islands[i] # {}]_vars

\* What a topology says apart from its IDs: each net with the components of its
\* island, and the islands.
Shape(t) ==
    [ nets |-> {<<t.nets[i],
                  IF t.netIsland[i] = NoIsland THEN {} ELSE t.islands[t.netIsland[i]]>> :
                    i \in DOMAIN t.nets},
      islands |-> Range(t.islands) ]

\* Deriving the topology from the network anew gives the nets and the islands
\* that the commands have repaired step by step (from_network,
\* assert_matches_network).
RebuildingChangesNothing == Shape(topology) = Shape(FromNetwork(network))

\* What is derived is well formed and equals what a fresh derivation from the
\* network would give: its nets and its islands (assert_matches_network).
TopologyMatchesNetwork ==
    /\ TypeOK
    /\ NetsMatchNetwork
    /\ IslandsMatchNetwork
    /\ RebuildingChangesNothing
=============================================================================
