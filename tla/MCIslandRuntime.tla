--------------------------- MODULE MCIslandRuntime ---------------------------
(* Eleven small circuits.  The supply is 4, gates switch at 2 and put out 3   *)
(* or 1 of it.                                                                *)
EXTENDS IslandRuntime

Part(device, kind, nodes) == Component(device, DefinitionOf(kind), 1, nodes)
OfDevice(device, values) == [p \in {<<device, i>> : i \in DOMAIN values} |-> values[p[2]]]
Volts(S) == {Whole(v) : v \in S}

(* An input node that a current source sets, on a conductance of one.         *)
InputParts(source, node) ==
    <<Part(source, "CurrentSource", <<"ref", node>>), Part(source + 1, "Conductance", <<node, "ref">>)>>
InputValues(source, v) == OfDevice(source, <<Whole(v)>>) @@ OfDevice(source + 1, <<One>>)
SupplyParts(device) == <<Part(device, "VoltageSource", <<"vdd", "ref">>)>>
SupplyValues(device) == OfDevice(device, <<Whole(4)>>)
GateValues(device) == OfDevice(device, <<Whole(2), Whole(3), Whole(1)>>)

Adjustable(island, start, choices) == [island |-> island, start |-> start, choices |-> choices]

(* Two gates that hold each other.                                            *)
LatchCircuit == Adjustable(
    InputParts(1, "s") \o InputParts(3, "r") \o SupplyParts(5)
      \o <<Part(6, "Nor", <<"q", "vdd", "ref", "r", "qn">>), Part(7, "Nor", <<"qn", "vdd", "ref", "s", "q">>)>>,
    InputValues(1, 0) @@ InputValues(3, 4) @@ SupplyValues(5) @@ GateValues(6) @@ GateValues(7),
    (<<1, 1>> :> Volts({0, 4})) @@ (<<3, 1>> :> Volts({0, 4})))

(* A gate that inverts itself; with a threshold of four it is at rest.        *)
RingCircuit == Adjustable(
    <<Part(1, "Conductance", <<"ref", "vdd">>)>> \o SupplyParts(2) \o <<Part(3, "Not", <<"x", "vdd", "ref", "x">>)>>,
    OfDevice(1, <<One>>) @@ SupplyValues(2) @@ OfDevice(3, <<Missing, Whole(3), Whole(1)>>),
    (<<3, 1>> :> Volts({2, 4})) @@ (<<2, 1>> :> Volts({0, 4})))

(* A chain that is longer than the closure has rounds.                        *)
ChainCircuit == Adjustable(
    InputParts(1, "in") \o SupplyParts(3)
      \o <<Part(4, "Not", <<"a", "vdd", "ref", "in">>), Part(5, "Not", <<"b", "vdd", "ref", "a">>),
           Part(6, "Nand", <<"c", "vdd", "ref", "b", "in">>)>>,
    InputValues(1, 0) @@ SupplyValues(3) @@ GateValues(4) @@ GateValues(5) @@ GateValues(6),
    (<<1, 1>> :> Volts({0, 4})) @@ (<<4, 1>> :> Volts({2, 4})))

(* A gate under load, which the plan cannot explain, before one that it can.  *)
LoadedCircuit == Adjustable(
    InputParts(1, "in") \o SupplyParts(3)
      \o <<Part(4, "Not", <<"a", "vdd", "ref", "in">>), Part(5, "Conductance", <<"a", "ref">>),
           Part(6, "Not", <<"b", "vdd", "ref", "a">>)>>,
    InputValues(1, 0) @@ SupplyValues(3) @@ GateValues(4) @@ OfDevice(5, <<One>>) @@ GateValues(6),
    (<<1, 1>> :> Volts({0, 4})) @@ (<<5, 1>> :> Volts({0, 1})))

(* A gate that operates a switch, whose output is a gate's input.             *)
RelayCircuit == Adjustable(
    InputParts(1, "in") \o SupplyParts(3)
      \o <<Part(4, "Not", <<"a", "vdd", "ref", "in">>),
           Part(5, "VoltageControlledSwitch", <<"vdd", "c", "a", "ref">>), Part(6, "Conductance", <<"c", "ref">>),
           Part(7, "And", <<"b", "vdd", "ref", "c", "in">>)>>,
    InputValues(1, 0) @@ SupplyValues(3) @@ GateValues(4) @@ OfDevice(5, <<Whole(2), Whole(3), Zero>>)
      @@ OfDevice(6, <<One>>) @@ GateValues(7),
    (<<1, 1>> :> Volts({0, 4})) @@ (<<3, 1>> :> Volts({0, 4})))

SchmittCircuit == Adjustable(
    InputParts(1, "in") \o SupplyParts(3) \o <<Part(4, "SchmittBuffer", <<"out", "vdd", "ref", "in">>)>>,
    InputValues(1, 0) @@ SupplyValues(3) @@ OfDevice(4, <<Whole(2), Whole(2), Whole(3), Whole(1)>>),
    (<<1, 1>> :> Volts({0, 2, 4})) @@ (<<4, 1>> :> Volts({2, 4})))

(* Storage: a capacitor, an inductor, and a source that follows both.         *)
StorageCircuit == Adjustable(
    InputParts(1, "a")
      \o <<Part(3, "Capacitor", <<"a", "ref">>), Part(4, "Inductor", <<"a", "b">>), Part(5, "Resistance", <<"b", "ref">>),
           Part(6, "VoltageControlledVoltageSource", <<"c", "ref", "a", "b">>)>>,
    InputValues(1, 4) @@ OfDevice(3, <<One>>) @@ OfDevice(4, <<One>>) @@ OfDevice(5, <<Missing>>) @@ OfDevice(6, <<Whole(2)>>),
    (<<5, 1>> :> Volts({1, 2})) @@ (<<1, 1>> :> Volts({0, 4})))

(* A gate that inverts itself from tick to tick.                              *)
ToggleCircuit == Adjustable(
    <<Part(1, "TickDelay", <<"ref", "ref">>)>>
      \o SupplyParts(2) \o <<Part(3, "Not", <<"o", "vdd", "ref", "i">>),
           Part(4, "TickDelay", <<"o", "ref">>), Component(4, DefinitionOf("TickDelay"), 2, <<"i", "ref">>)>>,
    SupplyValues(2) @@ GateValues(3),
    (<<3, 1>> :> Volts({2, 4})))

DiodeCircuit == Adjustable(
    <<Part(1, "Conductance", <<"ref", "b">>), Part(2, "VoltageSource", <<"a", "ref">>), Part(3, "Diode", <<"a", "b">>)>>,
    OfDevice(1, <<One>>) @@ OfDevice(2, <<Whole(4)>>) @@ OfDevice(3, <<Whole(3), Whole(1)>>),
    (<<2, 1>> :> Volts({-4, 4})) @@ (<<1, 1>> :> Volts({0, 1})))

(* A node that nothing may be connected to.                                   *)
FloatingCircuit == Adjustable(
    <<Part(1, "Conductance", <<"ref", "a">>), Part(2, "VoltageControlledCurrentSource", <<"ref", "b", "a", "ref">>),
      Part(3, "Resistance", <<"b", "ref">>), Part(4, "CurrentSource", <<"ref", "a">>)>>,
    OfDevice(1, <<One>>) @@ OfDevice(2, <<Whole(2)>>) @@ OfDevice(3, <<Whole(2)>>) @@ OfDevice(4, <<Whole(4)>>),
    (<<1, 1>> :> Volts({0, 1})) @@ (<<4, 1>> :> Volts({0, 4})))

(* A conductance that an input controls, before a gate.                       *)
DimmerCircuit == Adjustable(
    InputParts(1, "in") \o SupplyParts(3)
      \o <<Part(4, "VoltageControlledConductance", <<"c", "ref", "in">>), Part(5, "Conductance", <<"vdd", "c">>),
           Part(6, "Not", <<"b", "vdd", "ref", "c">>)>>,
    InputValues(1, 0) @@ SupplyValues(3) @@ OfDevice(4, <<Whole(2), Whole(2), Zero, Whole(4)>>) @@ OfDevice(5, <<One>>)
      @@ GateValues(6),
    (<<1, 1>> :> {Zero, Whole(4), <<3, 2>>}))

MCCircuits ==
    <<LatchCircuit, RingCircuit, ChainCircuit, LoadedCircuit, RelayCircuit, SchmittCircuit,
      StorageCircuit, ToggleCircuit, DiodeCircuit, FloatingCircuit, DimmerCircuit>>
MCTimestep == One
==============================================================================
