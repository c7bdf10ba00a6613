------------------------------ MODULE Network ------------------------------
(***************************************************************************)
(* The electrical network of a native world: wires, the connections        *)
(* between them, and devices whose terminals are attached to wires         *)
(* (hynergy-model, src/network).  A device's definition splits it into     *)
(* partitions that do not conduct into each other; a terminal belongs to   *)
(* one of them, and a device with one of its partitions is a component.    *)
(*                                                                         *)
(* A network is a value, and each operator returns the network after a     *)
(* call that succeeds; the "Can..." guards are the checks of the calls.    *)
(***************************************************************************)
EXTENDS Integers, Sequences, FiniteSets, Functions

CONSTANTS
    Wires,
    Devices,
    Definitions   \* [partitionCount |-> ..., terminalPartitions |-> <<...>>]

ASSUME DefinitionsAssumption ==
    \A definition \in Definitions :
        /\ definition.partitionCount \in Nat \ {0}
        /\ definition.terminalPartitions \in Seq(1..definition.partitionCount)

EmptyNetwork ==
    [ wires |-> {},
      connections |-> {},        \* sets of two wires
      devices |-> << >>,         \* the definition of each device
      attached |-> << >> ]       \* the wire of each attached terminal

Terminals(n) ==
    UNION {{d} \X DOMAIN n.devices[d].terminalPartitions : d \in DOMAIN n.devices}
TerminalComponent(n, terminal) ==
    <<terminal[1], n.devices[terminal[1]].terminalPartitions[terminal[2]]>>
DeviceComponents(n, d) == {d} \X (1..n.devices[d].partitionCount)
Components(n) == UNION {DeviceComponents(n, d) : d \in DOMAIN n.devices}
TerminalsOn(n, wires) == {terminal \in DOMAIN n.attached : n.attached[terminal] \in wires}

-----------------------------------------------------------------------------
CanAddWire(n, w) == w \notin n.wires
AfterAddWire(n, w) == [n EXCEPT !.wires = @ \cup {w}]

CanRemoveWire(n, w) == w \in n.wires
AfterRemoveWire(n, w) ==
    [n EXCEPT !.wires = @ \ {w},
              !.connections = {c \in @ : w \notin c},
              !.attached = Restrict(@, DOMAIN @ \ TerminalsOn(n, {w}))]

CanConnectWires(n, a, b) ==
    {a, b} \subseteq n.wires /\ a # b /\ {a, b} \notin n.connections
AfterConnectWires(n, a, b) == [n EXCEPT !.connections = @ \cup {{a, b}}]

CanDisconnectWires(n, a, b) == {a, b} \in n.connections /\ a # b
AfterDisconnectWires(n, a, b) == [n EXCEPT !.connections = @ \ {{a, b}}]

CanAddDevice(n, d) == d \notin DOMAIN n.devices
AfterAddDevice(n, d, definition) ==
    [n EXCEPT !.devices = [e \in DOMAIN @ \cup {d} |-> IF e = d THEN definition ELSE @[e]]]

CanRemoveDevice(n, d) == d \in DOMAIN n.devices
AfterRemoveDevice(n, d) ==
    [n EXCEPT !.devices = Restrict(@, DOMAIN @ \ {d}),
              !.attached = Restrict(@, {terminal \in DOMAIN @ : terminal[1] # d})]

CanAttachTerminal(n, w, terminal) ==
    w \in n.wires /\ terminal \in Terminals(n) /\ terminal \notin DOMAIN n.attached
AfterAttachTerminal(n, w, terminal) ==
    [n EXCEPT !.attached =
        [other \in DOMAIN @ \cup {terminal} |-> IF other = terminal THEN w ELSE @[other]]]

CanDetachTerminal(n, w, terminal) ==
    terminal \in DOMAIN n.attached /\ n.attached[terminal] = w
AfterDetachTerminal(n, terminal) ==
    [n EXCEPT !.attached = Restrict(@, DOMAIN @ \ {terminal})]

-----------------------------------------------------------------------------
(* What is connected to what, defined on the network alone.                *)

\* The vertices reached from a start, with next[v] the neighbours of v.
Reached(start, next) ==
    LET size == Cardinality(DOMAIN next)
        reached[k \in 0..size] ==
            IF k = 0 THEN {start}
            ELSE LET before == reached[k - 1] IN before \cup UNION {next[v] : v \in before}
    IN  reached[size]

ConnectedWires(n, w) == {v \in n.wires : {v, w} \in n.connections}

\* Wires that conduct into each other, and components that do through wires.
WireGroup(n, w) == Reached(w, [v \in n.wires |-> ConnectedWires(n, v)])

ComponentGroup(n, component) ==
    LET touching(c) == {t \in DOMAIN n.attached : TerminalComponent(n, t) = c}
        wiresOf(c) == UNION {WireGroup(n, n.attached[t]) : t \in touching(c)}
    IN  Reached(component, [c \in Components(n) |->
                                {TerminalComponent(n, t) : t \in TerminalsOn(n, wiresOf(c))}])
=============================================================================
