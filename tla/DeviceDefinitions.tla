-------------------------- MODULE DeviceDefinitions --------------------------
(* hynergy-model/src/device: the primitives, and the builder that validates   *)
(* and derives a composite definition.  The registry is a sequence of         *)
(* definitions, and a definition is named by its position in it: the          *)
(* primitives come first, a composite after everything it is made of.  Nodes, *)
(* terminals, parameters, elements, observers and partitions are numbered     *)
(* from one.                                                                  *)
EXTENDS ParameterConstraints, FiniteSets

Gates == {"Not", "And", "Nand", "Or", "Nor"}
BinaryGates == Gates \ {"Not"}
TwoTerminals == {"Resistance", "Conductance", "VoltageSource", "CurrentSource",
                 "Capacitor", "Inductor", "Diode"}
Controlled == {"VoltageControlledCurrentSource", "VoltageControlledVoltageSource",
               "VoltageControlledSwitch"}

PrimitiveKinds ==
    <<"Resistance", "Conductance", "VoltageSource", "CurrentSource",
      "VoltageControlledCurrentSource", "VoltageControlledVoltageSource",
      "Capacitor", "Inductor", "VoltageControlledSwitch", "VoltageControlledConductance",
      "TickDelay", "Diode", "Not", "And", "Nand", "Or", "Nor", "SchmittBuffer">>

ParameterConstraintsOf(kind) ==
    CASE kind \in {"Resistance", "Capacitor", "Inductor"} -> <<Positive>>
      [] kind = "Conductance" -> <<NonNegative>>
      [] kind = "Diode" -> <<Positive, NonNegative>>
      [] kind \in Gates \cup {"VoltageControlledSwitch"} ->
            <<Unrestricted, Positive, NonNegative>>
      [] kind = "VoltageControlledConductance" ->
            <<Unrestricted, Positive, NonNegative, Positive>>
      [] kind = "SchmittBuffer" -> <<Unrestricted, NonNegative, Positive, NonNegative>>
      [] kind = "TickDelay" -> <<>>
      [] OTHER -> <<Unrestricted>>

(* The pair of parameters of which the first must be the greater one.         *)
GreaterParameter(kind) ==
    CASE kind \in Gates \cup {"VoltageControlledSwitch"} -> {<<2, 3>>}
      [] kind = "SchmittBuffer" -> {<<3, 4>>}
      [] kind = "VoltageControlledConductance" -> {<<4, 3>>}
      [] kind = "Diode" -> {<<1, 2>>}
      [] OTHER -> {}

ValidateParameterRelations(kind, parameters) ==
    \A g \in GreaterParameter(kind) : Below(parameters[g[2]], parameters[g[1]])

TerminalPartitionsOf(kind) ==
    CASE kind = "TickDelay" -> <<1, 1, 2, 2>>
      [] kind \in TwoTerminals -> <<1, 1>>
      [] kind = "VoltageControlledConductance" -> <<1, 1, 1>>
      [] kind \in BinaryGates -> <<1, 1, 1, 1, 1>>
      [] OTHER -> <<1, 1, 1, 1>>

StateCountOf(kind) == IF kind \in {"Capacitor", "Inductor", "TickDelay", "SchmittBuffer"} THEN 1 ELSE 0

VoltageObserver(positive, negative, partition) ==
    [quantity |-> "Voltage", partition |-> partition, source |-> <<"Voltage", positive, negative>>]
CurrentObserver(positive, negative, partition) ==
    [quantity |-> "Current", partition |-> partition, source |-> <<"Current", positive, negative>>]
ChildObserver(quantity, partition, element, observer) ==
    [quantity |-> quantity, partition |-> partition, source |-> <<"Child", element, observer>>]

ObserversOf(kind) ==
    CASE kind \in TwoTerminals -> <<VoltageObserver(1, 2, 1), CurrentObserver(1, 2, 1)>>
      [] kind \in {"Not", "SchmittBuffer"} ->
            <<VoltageObserver(1, 3, 1), VoltageObserver(4, 3, 1), CurrentObserver(2, 1, 1)>>
      [] kind \in BinaryGates ->
            <<VoltageObserver(1, 3, 1), VoltageObserver(4, 3, 1), VoltageObserver(5, 3, 1),
              CurrentObserver(2, 1, 1)>>
      [] kind \in Controlled ->
            <<VoltageObserver(1, 2, 1), VoltageObserver(3, 4, 1), CurrentObserver(1, 2, 1)>>
      [] kind = "VoltageControlledConductance" ->
            <<VoltageObserver(1, 2, 1), VoltageObserver(3, 2, 1), CurrentObserver(1, 2, 1)>>
      [] kind = "TickDelay" ->
            <<VoltageObserver(1, 2, 1), VoltageObserver(3, 4, 2), CurrentObserver(3, 4, 2)>>

Composite == "Composite"
Largest(S) == CHOOSE i \in S \cup {0} : \A j \in S : j <= i
Concatenated(ss) == Accumulate(LAMBDA all, s : all \o s, <<>>, ss)

(* A definition; a primitive has neither nodes of its own nor elements.       *)
PrimitiveDefinition(kind) ==
    [body |-> kind, nodeCount |-> Len(TerminalPartitionsOf(kind)), elements |-> <<>>,
     terminals |-> [i \in 1..Len(TerminalPartitionsOf(kind)) |-> i],
     parameters |-> ParameterConstraintsOf(kind),
     terminalPartitions |-> TerminalPartitionsOf(kind), elementPartitions |-> <<>>,
     partitionCount |-> IF kind = "TickDelay" THEN 2 ELSE 1,
     stateCount |-> StateCountOf(kind), observers |-> ObserversOf(kind)]

PrimitiveRegistry == [i \in 1..Len(PrimitiveKinds) |-> PrimitiveDefinition(PrimitiveKinds[i])]
DefinitionOf(kind) == CHOOSE i \in 1..Len(PrimitiveKinds) : PrimitiveKinds[i] = kind

ExposedPartitionCount(d) == Largest(Range(d.terminalPartitions))

Literal(v) == <<"Literal", v>>
Parameter(i) == <<"Parameter", i>>
Element(definition, terminals, parameters) ==
    [definition |-> definition, terminals |-> terminals, parameters |-> parameters]
------------------------------------------------------------------------------
(* The builder: terminals are nodes, an observer is pending until the         *)
(* partitions are known.                                                      *)
NewBuilder == [nodeCount |-> 0, terminals |-> <<>>, parameters |-> <<>>,
               elements |-> <<>>, observers |-> <<>>]

AddNode(b) == [b EXCEPT !.nodeCount = @ + 1]
AddTerminal(b) == [b EXCEPT !.nodeCount = @ + 1, !.terminals = Append(@, b.nodeCount + 1)]
AddParameter(b, constraints) == [b EXCEPT !.parameters = Append(@, constraints)]

(* validate_element, in the order in which it looks.                          *)
ParameterError(b, value, constraint) ==
    IF value[1] = "Literal" THEN IF Validates(constraint, value[2]) THEN "Ok" ELSE "ParameterConstraint"
    ELSE IF value[2] \notin DOMAIN b.parameters THEN "ParameterOutOfRange"
    ELSE IF IsSubsetOf(b.parameters[value[2]], constraint) THEN "Ok" ELSE "ParameterConstraintsIncompatible"

AllLiteral(e) == \A i \in DOMAIN e.parameters : e.parameters[i][1] = "Literal"

ValidateElement(registry, b, e) ==
    IF e.definition \notin DOMAIN registry THEN "UnknownDefinition"
    ELSE LET d == registry[e.definition]
             errors == SelectSeq([i \in DOMAIN e.parameters \cap DOMAIN d.parameters |->
                                    ParameterError(b, e.parameters[i], d.parameters[i])],
                                 LAMBDA error : error # "Ok")
         IN  IF Len(e.terminals) # Len(d.terminals) THEN "TerminalCountMismatch"
             ELSE IF Len(e.parameters) # Len(d.parameters) THEN "ParameterCountMismatch"
             ELSE IF ~(Range(e.terminals) \subseteq 1..b.nodeCount) THEN "NodeOutOfRange"
             ELSE IF errors # <<>> THEN errors[1]
             ELSE IF /\ d.body # Composite /\ AllLiteral(e)
                     /\ ~ValidateParameterRelations(d.body, [i \in DOMAIN e.parameters |-> e.parameters[i][2]])
             THEN "PrimitiveParameters" ELSE "Ok"

AddElement(b, e) == [b EXCEPT !.elements = Append(@, e)]

ValidateVoltageObserver(b, positive, negative) == {positive, negative} \subseteq 1..b.nodeCount
AddVoltageObserver(b, positive, negative) ==
    [b EXCEPT !.observers = Append(@, VoltageObserver(positive, negative, 0))]

ValidateChildObserver(registry, b, element, observer) ==
    /\ element \in DOMAIN b.elements
    /\ observer \in DOMAIN registry[b.elements[element].definition].observers
AddChildObserver(registry, b, element, observer) ==
    LET child == registry[b.elements[element].definition].observers[observer]
    IN  [b EXCEPT !.observers = Append(@, ChildObserver(child.quantity, 0, element, observer))]
------------------------------------------------------------------------------
(* Deriving the definition.  Nodes are connected through the partitions the   *)
(* elements expose; the terminals' components are numbered first, in the      *)
(* order of the terminals, then those of the nodes elements refer to, and a   *)
(* partition an element hides becomes a hidden partition of the composite.    *)
ParametersUsed(b) ==
    {b.elements[i].parameters[j][2] : <<i, j>> \in
        {p \in (DOMAIN b.elements) \X (1..4) :
            /\ p[2] \in DOMAIN b.elements[p[1]].parameters
            /\ b.elements[p[1]].parameters[p[2]][1] = "Parameter"}}

Referenced(b) == UNION {Range(b.elements[i].terminals) : i \in DOMAIN b.elements}

ElementNodes(registry, e, partition) ==
    {e.terminals[t] : t \in {t \in DOMAIN e.terminals :
                               registry[e.definition].terminalPartitions[t] = partition}}

JoinedNodes(registry, b) ==
    UNION {{ElementNodes(registry, b.elements[i], p) :
              p \in 1..ExposedPartitionCount(registry[b.elements[i].definition])} :
           i \in DOMAIN b.elements}

(* The root of each node: components merge one set of joined nodes at a time. *)
Components(registry, b) ==
    Accumulate(LAMBDA root, joined :
               LET roots == {root[n] : n \in joined}
               IN  [n \in 1..b.nodeCount |->
                      IF root[n] \in roots THEN CHOOSE r \in roots : \A q \in roots : r <= q
                      ELSE root[n]],
             [n \in 1..b.nodeCount |-> n], Listed(JoinedNodes(registry, b)))

FirstOccurrences(s) ==
    Accumulate(LAMBDA all, x : IF x \in Range(all) THEN all ELSE Append(all, x), <<>>, s)

DerivePartitionLayout(registry, b) ==
    LET root == Components(registry, b)
        nodes == b.terminals \o SelectSeq([n \in 1..b.nodeCount |-> n], LAMBDA n : n \in Referenced(b))
        roots == FirstOccurrences([i \in DOMAIN nodes |-> root[nodes[i]]])
        nodePartition == [n \in 1..b.nodeCount |-> CHOOSE p \in DOMAIN roots : roots[p] = root[n]]
        Children(e) == registry[e.definition].partitionCount
        Anchor(e, p) == CHOOSE n \in ElementNodes(registry, e, p) : TRUE
        element == Accumulate(
            LAMBDA acc, e :
              LET exposed == ExposedPartitionCount(registry[e.definition])
              IN  [next |-> acc.next + Children(e) - exposed,
                   partitions |-> acc.partitions \o
                      [p \in 1..Children(e) |-> IF p <= exposed THEN nodePartition[Anchor(e, p)]
                                                ELSE acc.next + p - exposed]],
            [next |-> Len(roots), partitions |-> <<>>], b.elements)
    IN  [terminalPartitions |-> [i \in DOMAIN b.terminals |-> nodePartition[b.terminals[i]]],
         elementPartitions |-> element.partitions,
         partitionCount |-> element.next,
         nodePartition |-> nodePartition]

(* Where the partitions of each element start in elementPartitions.           *)
PartitionOffset(registry, elements, i) ==
    Accumulate(LAMBDA n, e : n + registry[e.definition].partitionCount, 0, SubSeq(elements, 1, i - 1))
StateOffset(registry, elements, i) ==
    Accumulate(LAMBDA n, e : n + registry[e.definition].stateCount, 0, SubSeq(elements, 1, i - 1))

ObserverPartition(registry, b, layout, observer) ==
    IF observer.source[1] = "Voltage" THEN layout.nodePartition[observer.source[2]]
    ELSE LET e == observer.source[2]
             child == registry[b.elements[e].definition].observers[observer.source[3]]
         IN  layout.elementPartitions[PartitionOffset(registry, b.elements, e) + child.partition]

NodesAreUsed(b) == 1..b.nodeCount \subseteq Referenced(b) \cup Range(b.terminals)

VoltagesAreOfOnePartition(b, layout) ==
    \A i \in DOMAIN b.observers :
        LET source == b.observers[i].source
        IN  source[1] = "Voltage" => layout.nodePartition[source[2]] = layout.nodePartition[source[3]]

BuildError(registry, b) ==
    IF ParametersUsed(b) # DOMAIN b.parameters THEN "UnusedParameter"
    ELSE IF ~NodesAreUsed(b) THEN "UnusedInternalNode"
    ELSE IF ~VoltagesAreOfOnePartition(b, DerivePartitionLayout(registry, b)) THEN "ObserverCrossesPartitions"
    ELSE "Ok"

BuildDefinition(registry, b) ==
    LET layout == DerivePartitionLayout(registry, b)
    IN  [body |-> Composite, nodeCount |-> b.nodeCount, elements |-> b.elements,
         terminals |-> b.terminals, parameters |-> b.parameters,
         terminalPartitions |-> layout.terminalPartitions,
         elementPartitions |-> layout.elementPartitions,
         partitionCount |-> layout.partitionCount,
         stateCount |-> StateOffset(registry, b.elements, Len(b.elements) + 1),
         observers |-> [i \in DOMAIN b.observers |->
            [b.observers[i] EXCEPT !.partition = ObserverPartition(registry, b, layout, b.observers[i])]]]
==============================================================================
