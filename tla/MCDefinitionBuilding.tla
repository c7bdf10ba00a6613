------------------------- MODULE MCDefinitionBuilding -------------------------
(* Descriptions of small devices, right and wrong, and of devices made of     *)
(* those that were registered.                                                *)
EXTENDS DefinitionBuilding

Terminals(n) == [i \in 1..n |-> <<"AddTerminal">>]
Nodes(n) == [i \in 1..n |-> <<"AddNode">>]
Takes(constraints) == <<<<"AddParameter", constraints>>>>
Lit(n) == Literal(Whole(n))

ElementOf(definition, terminals, values) ==
    <<<<"BeginElement", definition>>>>
        \o [i \in DOMAIN terminals |-> <<"ElementTerminal", terminals[i]>>]
        \o [i \in DOMAIN values |-> <<"ElementValue", values[i]>>]
        \o <<<<"EndElement">>>>
Primitive(kind, terminals, values) == ElementOf(DefinitionOf(kind), terminals, values)

VoltageBetween(p, n) == <<<<"AddVoltageObserver", p, n>>>>
ObserverOf(e, o) == <<<<"AddChildObserver", e, o>>>>

(* Constraints on one parameter, and the elements that it is given to.        *)
WithReciprocal(lower, upper) == Constraints({}, {}, FALSE, {[lower |-> lower, upper |-> upper]})
SomeConstraints ==
    {Unrestricted, Positive, NonNegative,
     Constraints({}, {}, TRUE, {}),
     Constraints({Bound(One, TRUE)}, {Bound(Whole(3), FALSE)}, FALSE, {}),
     Constraints({}, {Bound(Whole(3), TRUE)}, FALSE, {}),
     Constraints({}, {Bound(Zero, TRUE)}, FALSE, {}), Constraints({}, {Bound(Zero, FALSE)}, FALSE, {}),
     Constraints({}, {Bound(Whole(2), TRUE)}, TRUE, {[lower |-> {Bound(Half, TRUE)}, upper |-> {}]}),
     Constraints({Bound(Zero, TRUE)}, {}, FALSE, {[lower |-> {}, upper |-> {Bound(One, FALSE)}]}),
     WithReciprocal({}, {}), WithReciprocal({Bound(Half, FALSE)}, {}),
     WithReciprocal({}, {Bound(One, TRUE)})}
Constrained ==
    {Terminals(2) \o Takes(c) \o Primitive(kind, <<1, 2>>, <<Parameter(1)>>) \o ObserverOf(1, 2) :
        c \in SomeConstraints, kind \in {"Resistance", "Conductance", "CurrentSource"}}

(* Two elements in series share a parameter; the second keeps a state.        *)
Filter ==
    Terminals(1) \o Nodes(1) \o Terminals(1) \o Takes(Positive)
      \o Primitive("Resistance", <<1, 2>>, <<Parameter(1)>>) \o Primitive("Capacitor", <<2, 3>>, <<Parameter(1)>>)
      \o VoltageBetween(2, 3) \o ObserverOf(2, 2)
Storage ==
    Terminals(2) \o Nodes(2) \o Takes(Unrestricted)
      \o Primitive("VoltageSource", <<1, 3>>, <<Parameter(1)>>) \o Primitive("Inductor", <<3, 4>>, <<Lit(2)>>)
      \o Primitive("Capacitor", <<4, 2>>, <<Lit(1)>>) \o ObserverOf(2, 2) \o ObserverOf(3, 1) \o VoltageBetween(4, 1)
Inverter ==
    Terminals(4) \o Takes(Positive)
      \o Primitive("Not", <<1, 2, 3, 4>>, <<Parameter(1), Lit(3), Lit(1)>>) \o ObserverOf(1, 2)
Buffer ==
    Terminals(3) \o Nodes(1) \o Takes(Unrestricted) \o Primitive("Conductance", <<3, 4>>, <<Lit(1)>>)
      \o Primitive("SchmittBuffer", <<1, 2, 4, 3>>, <<Parameter(1), Lit(1), Lit(2), Lit(1)>>) \o ObserverOf(2, 1)
Delay == Terminals(4) \o Primitive("Capacitor", <<1, 2>>, <<Lit(2)>>)
           \o Primitive("TickDelay", <<1, 2, 3, 4>>, <<>>) \o ObserverOf(2, 2) \o ObserverOf(1, 1)
TwoTicks == Terminals(2) \o Nodes(2) \o Terminals(2)
           \o Primitive("TickDelay", <<1, 2, 3, 4>>, <<>>) \o Primitive("TickDelay", <<3, 4, 5, 6>>, <<>>)
           \o ObserverOf(1, 2)
Enclosed == Terminals(2) \o Nodes(2) \o Primitive("Diode", <<1, 2>>, <<Lit(2), Lit(1)>>)
           \o Primitive("Conductance", <<3, 4>>, <<Lit(1)>>) \o VoltageBetween(3, 4)

Sound == {Filter, Storage, Inverter, Buffer, Delay, TwoTicks, Enclosed}

(* Any two elements between two terminals and a node.                         *)
Pairs ==
    {Terminals(2) \o Nodes(1) \o Takes(Positive) \o Primitive(first, <<1, 3>>, <<Parameter(1)>>)
       \o Primitive(second, nodes, <<Parameter(1)>>) \o VoltageBetween(3, 2) :
        first, second \in {"Resistance", "Capacitor", "CurrentSource", "VoltageSource"},
        nodes \in {<<1, 3>>, <<2, 3>>, <<3, 2>>, <<1, 2>>}}

(* What the library or the model's builder refuses.                           *)
Unsound ==
    {Terminals(1) \o Takes(Positive),
     Terminals(1) \o Nodes(1),
     Terminals(2) \o Primitive("Conductance", <<1>>, <<Lit(1)>>),
     Terminals(2) \o Primitive("Conductance", <<1, 2>>, <<Lit(1), Lit(1)>>),
     Terminals(2) \o Primitive("Conductance", <<1, 2>>, <<Lit(-1)>>),
     Terminals(2) \o Primitive("Diode", <<1, 2>>, <<Lit(1), Lit(1)>>),
     Terminals(2) \o Primitive("Conductance", <<1, 3>>, <<Lit(1)>>),
     Terminals(2) \o Primitive("Conductance", <<1, 2>>, <<Parameter(1)>>),
     Terminals(2) \o Primitive("Conductance", <<1, 2>>, <<Literal(NonFinite), Lit(1)>>),
     Terminals(2) \o Primitive("Conductance", <<1, 2>>, <<Lit(1)>>) \o ObserverOf(1, 3),
     Terminals(2) \o ObserverOf(1, 1) \o <<<<"EndElement">>>>,
     Terminals(2) \o VoltageBetween(1, 2),
     Terminals(2) \o <<<<"BeginElement", 1>>, <<"ElementTerminal", 1>>>> \o VoltageBetween(1, 2),
     Terminals(2) \o <<<<"BeginElement", 1>>, <<"ElementTerminal", 1>>, <<"ElementValue", Lit(1)>>,
                      <<"ElementTerminal", 2>>, <<"AddNode">>, <<"EndElement">>>>}

(* A device made of two of those registered last, the second between the last *)
(* terminal of the first and a node of its own; their parameters are shared,  *)
(* or those of the second are literals.                                       *)
Nested(known) ==
    LET definition == Len(known)
        d == known[definition]
        n == Len(d.terminals)
        k == Len(d.parameters)
        own == [i \in 1..k |-> Parameter(i)]
        Second == [i \in 1..n |-> IF i = 1 THEN n ELSE IF i = n THEN n + 1 ELSE i]
        Shared(values, last) ==
            Terminals(n) \o Terminals(1)
              \o Concatenated([i \in 1..k |-> Takes(d.parameters[i])])
              \o ElementOf(definition, [i \in 1..n |-> i], own)
              \o ElementOf(definition, Second, values)
              \o ObserverOf(2, 1) \o ObserverOf(1, 1) \o VoltageBetween(1, last)
    IN  {Shared(values, last) : values \in {own, [i \in 1..k |-> Lit(2)]}, last \in {2, n}}

(* A device that only hands its parameter on to one that takes any current.   *)
HandsOn(d) == Len(d.elements) = 1 /\ d.terminals = <<1, 2>> /\ d.parameters # <<>>
Wrapped(known) ==
    {Terminals(2) \o Takes(c) \o ElementOf(Len(known), <<1, 2>>, <<Parameter(1)>>) \o ObserverOf(1, 1) :
        c \in IF HandsOn(known[Len(known)]) THEN SomeConstraints ELSE {}}

MCDescriptions(known) ==
    CASE Len(known) = Len(PrimitiveRegistry) -> Constrained \cup Sound \cup Pairs \cup Unsound
      [] Len(known) \in Len(PrimitiveRegistry) + 1..Len(PrimitiveRegistry) + 2 -> Nested(known) \cup Wrapped(known)
      [] OTHER -> {Enclosed}

MCTestValues == {Whole(-2), Whole(-1), Zero, Smallest, Half, One, Whole(2), Whole(3)}
==============================================================================
