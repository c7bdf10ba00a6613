-------------------------- MODULE DefinitionBuilding --------------------------
(* From a plugin's description of a device to a registered definition:        *)
(* DeviceDefinitionBuilder.java encodes the calls of a definition callback as *)
(* commands in a buffer, hynergy-protocol/src/definition.rs decodes it into   *)
(* the builder of the model, and what that builds is registered.  A caller    *)
(* may go on after a refused call, start over, or give up.  The buffer is a   *)
(* sequence of words after the header.                                        *)
EXTENDS IslandIr

CONSTANTS
    Descriptions(_),    \* the sequences of calls that describe a definition, given the registry
    TestValues,         \* values of parameters that the properties look at
    MaxDefinitions,     \* how many composites the definition IDs are enough for
    MaxRestarts         \* bound on the resets and failed allocations of a description

ASSUME LimitsAssumption == {MaxDefinitions, MaxRestarts} \subseteq Nat

VARIABLES
    composites,     \* DefinitionRegistry after the primitives
    calls,          \* the calls of the callback
    next,           \* the call to come, 0 when nothing is described
    builder,        \* DeviceDefinitionBuilder
    described,      \* what the calls that returned said, by the IDs they returned
    restarts,
    outcome         \* of the last definition that was submitted

vars == <<composites, calls, next, builder, described, restarts, outcome>>

registry == PrimitiveRegistry \o composites
------------------------------------------------------------------------------
(* The builder of the Java library.                                           *)
ClearElementState(b) ==
    [b EXCEPT !.elementOpen = FALSE, !.elementParametersStarted = FALSE,
              !.elementCommandOffset = 0, !.elementTerminalCountOffset = 0, !.elementParameterCountOffset = 0,
              !.elementTerminalCount = 0, !.elementParameterCount = 0]

NewJavaBuilder ==
    [buffer |-> <<>>, commandCount |-> 0,
     nodeCount |-> 0, parameterCount |-> 0, elementCount |-> 0, observerCount |-> 0,
     elementOpen |-> FALSE, elementParametersStarted |-> FALSE,
     elementCommandOffset |-> 0, elementTerminalCountOffset |-> 0, elementParameterCountOffset |-> 0,
     elementTerminalCount |-> 0, elementParameterCount |-> 0]

(* Mutant: the nodes are counted from where the description was left.         *)
ResetStateKeepingNodes(b) == [NewJavaBuilder EXCEPT !.nodeCount = b.nodeCount]

ResetState(b) == ClearElementState([NewJavaBuilder EXCEPT !.elementOpen = b.elementOpen])

(* prepareCommand and commitCommand.                                          *)
Command(b, tag, payload) ==
    [b EXCEPT !.buffer = @ \o <<tag, Len(payload)>> \o payload, !.commandCount = @ + 1]

(* An optional bound is a set of at most one: its flags and its value.        *)
BoundFlags(bound, present, inclusive) ==
    UNION {{present} \cup (IF x.inclusive THEN {inclusive} ELSE {}) : x \in bound}
WriteBound(bound) == [i \in 1..Cardinality(bound) |-> (CHOOSE x \in bound : TRUE).value]

EncodedConstraints(c) ==
    LET range == c.reciprocalRange
        Lower == UNION {r.lower : r \in range}
        Upper == UNION {r.upper : r \in range}
    IN  << BoundFlags(c.lower, "Lower", "LowerInclusive") \cup BoundFlags(c.upper, "Upper", "UpperInclusive")
             \cup (IF c.nonZero THEN {"NonZero"} ELSE {})
             \cup (IF range = {} THEN {} ELSE {"ReciprocalRange"})
             \cup BoundFlags(Lower, "ReciprocalLower", "ReciprocalLowerInclusive")
             \cup BoundFlags(Upper, "ReciprocalUpper", "ReciprocalUpperInclusive") >>
        \o WriteBound(c.lower) \o WriteBound(c.upper) \o WriteBound(Lower) \o WriteBound(Upper)

(* An element's command is written as its parts are known; its length and its *)
(* counts are filled in later, and it counts as a command in the end.         *)
OpenElement(b, definition) ==
    [b EXCEPT !.buffer = @ \o <<"AddElement", 0, definition, 0>>,
              !.elementOpen = TRUE, !.elementParametersStarted = FALSE,
              !.elementCommandOffset = Len(b.buffer) + 1, !.elementTerminalCountOffset = Len(b.buffer) + 4,
              !.elementParameterCountOffset = 0, !.elementTerminalCount = 0, !.elementParameterCount = 0]

BeginElementParameters(b) ==
    IF b.elementParametersStarted THEN b
    ELSE [b EXCEPT !.buffer = Append([@ EXCEPT ![b.elementTerminalCountOffset] = b.elementTerminalCount], 0),
                   !.elementParameterCountOffset = Len(b.buffer) + 1,
                   !.elementParametersStarted = TRUE]

PutValue(b, value) ==
    LET started == BeginElementParameters(b)
    IN  [started EXCEPT !.buffer = Append(@, value), !.elementParameterCount = @ + 1]

CloseElement(b) ==
    LET started == BeginElementParameters(b)
    IN  ClearElementState(
            [started EXCEPT
                !.buffer = [@ EXCEPT ![started.elementParameterCountOffset] = started.elementParameterCount,
                                     ![started.elementCommandOffset + 1] =
                                         Len(started.buffer) - started.elementCommandOffset - 1],
                !.commandCount = @ + 1, !.elementCount = @ + 1])
------------------------------------------------------------------------------
(* decode_definition_buffer: the commands are read one after another; what    *)
(* cannot be read, or what the model's builder refuses, ends it.              *)
DecodeBound(c, flags, present, inclusive) ==
    IF present \notin flags THEN [c EXCEPT !.bounds = Append(@, {})]
    ELSE [c EXCEPT !.bounds = Append(@, {Bound(c.values[1], inclusive \in flags)}), !.values = Tail(@)]

(* An inclusive bound is there, and so is the range of a reciprocal bound.    *)
InclusiveOf ==
    [Lower |-> "LowerInclusive", Upper |-> "UpperInclusive",
     ReciprocalLower |-> "ReciprocalLowerInclusive", ReciprocalUpper |-> "ReciprocalUpperInclusive"]
BoundFlagNames == DOMAIN InclusiveOf
ReciprocalBits == {"ReciprocalLower", "ReciprocalUpper", InclusiveOf.ReciprocalLower, InclusiveOf.ReciprocalUpper}
KnownFlags == BoundFlagNames \cup Range(InclusiveOf) \cup {"NonZero", "ReciprocalRange"}

FlagsAreValid(flags) ==
    /\ flags \subseteq KnownFlags
    /\ \A b \in BoundFlagNames : InclusiveOf[b] \in flags => b \in flags
    /\ flags \cap ReciprocalBits # {} => "ReciprocalRange" \in flags

DecodeConstraints(payload) ==
    LET flags == payload[1]
        lower == DecodeBound([bounds |-> <<>>, values |-> Tail(payload)], flags, "Lower", "LowerInclusive")
        upper == DecodeBound(lower, flags, "Upper", "UpperInclusive")
        below == DecodeBound(upper, flags, "ReciprocalLower", "ReciprocalLowerInclusive")
        above == DecodeBound(below, flags, "ReciprocalUpper", "ReciprocalUpperInclusive")
        b == above.bounds
    IN  Constraints(b[1], b[2], "NonZero" \in flags,
                    IF "ReciprocalRange" \in flags THEN {[lower |-> b[3], upper |-> b[4]]} ELSE {})

DecodeElement(payload) ==
    LET terminalCount == payload[2]
        parameterCount == payload[3 + terminalCount]
    IN  Element(payload[1], SubSeq(payload, 3, 2 + terminalCount),
                SubSeq(payload, 4 + terminalCount, 3 + terminalCount + parameterCount))

(* A payload is exactly as long as what is read from it.                      *)
PayloadIsWhole(tag, payload) ==
    CASE tag \in {"AddTerminal", "AddNode"} -> payload = <<>>
      [] tag = "AddParameter" -> Len(payload) - 1 =
            Cardinality(payload[1] \cap BoundFlagNames)
      [] tag = "AddElement" -> /\ Len(payload) >= payload[2] + 3
                               /\ Len(payload) = payload[2] + 3 + payload[3 + payload[2]]
      [] OTHER -> Len(payload) = 2

ApplyCommand(b, tag, payload) ==
    CASE tag = "AddTerminal" -> AddTerminal(b)
      [] tag = "AddNode" -> AddNode(b)
      [] tag = "AddParameter" -> AddParameter(b, DecodeConstraints(payload))
      [] tag = "AddElement" -> AddElement(b, DecodeElement(payload))
      [] tag = "AddVoltageObserver" -> AddVoltageObserver(b, payload[1], payload[2])
      [] tag = "AddChildObserver" -> AddChildObserver(registry, b, payload[1], payload[2])

CommandError(b, tag, payload) ==
    IF tag = "AddParameter" /\ ~FlagsAreValid(payload[1]) THEN "InvalidFlags"
    ELSE IF ~PayloadIsWhole(tag, payload) THEN "InvalidCommandLength"
    ELSE CASE tag = "AddElement" -> ValidateElement(registry, b, DecodeElement(payload))
           [] tag = "AddVoltageObserver" ->
                 IF ValidateVoltageObserver(b, payload[1], payload[2]) THEN "Ok" ELSE "ObserverNodeOutOfRange"
           [] tag = "AddChildObserver" ->
                 IF ValidateChildObserver(registry, b, payload[1], payload[2]) THEN "Ok" ELSE "ChildObserverOutOfRange"
           [] OTHER -> "Ok"

MapBuilderError(error) ==
    CASE error = "ObserverNodeOutOfRange" -> "NodeOutOfRange"
      [] error \in {"ChildObserverOutOfRange", "ObserverCrossesPartitions"} -> "InvalidDefinition"
      [] error = "ParameterConstraint" -> "ParameterConstraintViolation"
      [] error = "PrimitiveParameters" -> "InvalidPrimitiveParameters"
      [] error = "ParameterConstraintsIncompatible" -> "IncompatibleParameterConstraints"
      [] OTHER -> error

Outcome(kind, index) == [kind |-> kind, command |-> index]

DecodeWhole(acc, index, tag, payload, error) ==
    IF error # "Ok" THEN [acc EXCEPT !.outcome = Outcome(MapBuilderError(error), index)]
    ELSE [acc EXCEPT !.offset = @ + 2 + Len(payload), !.builder = ApplyCommand(@, tag, payload)]

DecodePayload(acc, index, tag, payload) ==
    DecodeWhole(acc, index, tag, payload, CommandError(acc.builder, tag, payload))

DecodeCommand(acc, index) ==
    LET buffer == builder.buffer
        length == buffer[acc.offset + 2]
    IN  IF acc.outcome.kind # "Ok" THEN acc
        ELSE IF acc.offset + 2 > Len(buffer) \/ acc.offset + 2 + length > Len(buffer)
        THEN [acc EXCEPT !.outcome = Outcome("TruncatedInput", index)]
        ELSE DecodePayload(acc, index, buffer[acc.offset + 1], SubSeq(buffer, acc.offset + 3, acc.offset + 2 + length))

DecodeCommands ==
    Accumulate(DecodeCommand, [offset |-> 0, builder |-> NewBuilder, outcome |-> Outcome("Ok", 0)],
               [i \in 1..builder.commandCount |-> i])

DecodedWhole(decoded, error) ==
    LET Ended(kind) == [decoded EXCEPT !.outcome = Outcome(kind, builder.commandCount + 1)]
    IN  IF decoded.outcome.kind # "Ok" THEN decoded
        ELSE IF decoded.offset # Len(builder.buffer) THEN Ended("TrailingBytes")
        ELSE IF error # "Ok" THEN Ended(MapBuilderError(error))
        ELSE decoded

DecodeBuffer(decoded) == DecodedWhole(decoded, BuildError(registry, decoded.builder))
DecodeDefinitionBuffer == DecodeBuffer(DecodeCommands)
------------------------------------------------------------------------------
NothingDescribed ==
    [nodes |-> {}, terminals |-> <<>>, parameters |-> <<>>, elements |-> <<>>, observers |-> <<>>,
     element |-> Element(0, <<>>, <<>>)]

Init ==
    /\ composites = <<>> /\ calls = <<>> /\ next = 0 /\ restarts = 0
    /\ builder = NewJavaBuilder /\ described = NothingDescribed /\ outcome = Outcome("None", 0)

(* A definition callback begins with a builder of its own.                    *)
Describe ==
    /\ next = 0
    /\ calls' \in Descriptions(registry)
    /\ next' = 1 /\ restarts' = 0
    /\ builder' = NewJavaBuilder /\ described' = NothingDescribed /\ outcome' = Outcome("None", 0)
    /\ UNCHANGED composites

Calling(name) == next \in DOMAIN calls /\ calls[next][1] = name
Returned(b, d) ==
    /\ builder' = b /\ described' = d /\ next' = next + 1
    /\ UNCHANGED <<composites, calls, restarts, outcome>>

RequireTopLevel == ~builder.elementOpen
NodesExist(nodes) == nodes \subseteq 1..builder.nodeCount

CallAddTerminal ==
    /\ Calling("AddTerminal") /\ RequireTopLevel
    /\ LET id == builder.nodeCount + 1
       IN  Returned([Command(builder, "AddTerminal", <<>>) EXCEPT !.nodeCount = @ + 1],
                    [described EXCEPT !.nodes = @ \cup {id}, !.terminals = Append(@, id)])

CallAddNode ==
    /\ Calling("AddNode") /\ RequireTopLevel
    /\ Returned([Command(builder, "AddNode", <<>>) EXCEPT !.nodeCount = @ + 1],
                [described EXCEPT !.nodes = @ \cup {builder.nodeCount + 1}])

CallAddParameter ==
    /\ Calling("AddParameter") /\ RequireTopLevel
    /\ LET constraints == calls[next][2]
       IN  Returned([Command(builder, "AddParameter", EncodedConstraints(constraints))
                       EXCEPT !.parameterCount = @ + 1],
                    [described EXCEPT !.parameters = @ @@ (builder.parameterCount + 1 :> constraints)])

CallBeginElement ==
    /\ Calling("BeginElement") /\ RequireTopLevel
    /\ Returned(OpenElement(builder, calls[next][2]),
                [described EXCEPT !.element = Element(calls[next][2], <<>>, <<>>)])

CallElementTerminal ==
    /\ Calling("ElementTerminal")
    /\ builder.elementOpen /\ ~builder.elementParametersStarted /\ NodesExist({calls[next][2]})
    /\ Returned([builder EXCEPT !.buffer = Append(@, calls[next][2]), !.elementTerminalCount = @ + 1],
                [described EXCEPT !.element.terminals = Append(@, calls[next][2])])

ValueAccepted(value) ==
    IF value[1] = "Literal" THEN IsFinite(value[2]) ELSE value[2] \in 1..builder.parameterCount

(* elementLiteral and elementParameter.                                       *)
CallElementValue ==
    /\ Calling("ElementValue") /\ builder.elementOpen /\ ValueAccepted(calls[next][2])
    /\ Returned(PutValue(builder, calls[next][2]),
                [described EXCEPT !.element.parameters = Append(@, calls[next][2])])

(* The buffer cannot grow for the value of a parameter whose section was      *)
(* begun: the call throws, the caller repeats it.                             *)
GrowthFails ==
    /\ Calling("ElementValue") /\ builder.elementOpen /\ ValueAccepted(calls[next][2])
    /\ ~builder.elementParametersStarted /\ restarts < MaxRestarts
    /\ builder' = BeginElementParameters(builder)
    /\ restarts' = restarts + 1
    /\ UNCHANGED <<composites, calls, next, described, outcome>>

CallEndElement ==
    /\ Calling("EndElement") /\ builder.elementOpen
    /\ Returned(CloseElement(builder),
                [described EXCEPT !.elements = @ @@ (builder.elementCount + 1 :> described.element)])

Observed(source) == [described EXCEPT !.observers = @ @@ (builder.observerCount + 1 :> source)]

CallAddVoltageObserver ==
    /\ Calling("AddVoltageObserver") /\ RequireTopLevel /\ NodesExist({calls[next][2], calls[next][3]})
    /\ Returned([Command(builder, "AddVoltageObserver", <<calls[next][2], calls[next][3]>>)
                   EXCEPT !.observerCount = @ + 1],
                Observed(<<"Voltage", calls[next][2], calls[next][3]>>))

CallAddChildObserver ==
    /\ Calling("AddChildObserver") /\ RequireTopLevel /\ calls[next][2] \in 1..builder.elementCount
    /\ Returned([Command(builder, "AddChildObserver", <<calls[next][2], calls[next][3]>>)
                   EXCEPT !.observerCount = @ + 1],
                Observed(<<"Child", calls[next][2], calls[next][3]>>))

(* A call that throws leaves the builder as it is.                            *)
Refuse ==
    /\ next \in DOMAIN calls
    /\ LET name == calls[next][1]
       IN  CASE name \in {"AddTerminal", "AddNode", "AddParameter", "BeginElement"} -> ~RequireTopLevel
             [] name = "ElementTerminal" ->
                   ~builder.elementOpen \/ builder.elementParametersStarted \/ ~NodesExist({calls[next][2]})
             [] name = "ElementValue" -> ~builder.elementOpen \/ ~ValueAccepted(calls[next][2])
             [] name = "EndElement" -> ~builder.elementOpen
             [] name = "AddVoltageObserver" -> ~RequireTopLevel \/ ~NodesExist({calls[next][2], calls[next][3]})
             [] name = "AddChildObserver" -> ~RequireTopLevel \/ calls[next][2] \notin 1..builder.elementCount
    /\ Returned(builder, described)

(* reset: the description starts over, wherever it is.                        *)
Reset ==
    /\ next > 1 /\ restarts < MaxRestarts
    /\ builder' = ResetState(builder) /\ described' = NothingDescribed
    /\ next' = 1 /\ restarts' = restarts + 1
    /\ UNCHANGED <<composites, calls, outcome>>

Closed(result) ==
    /\ next' = 0 /\ calls' = <<>> /\ restarts' = 0 /\ builder' = NewJavaBuilder /\ outcome' = result

(* The callback returned; encodedSegment refuses an unfinished element.       *)
Submit ==
    /\ next = Len(calls) + 1
    /\ \E decoded \in {DecodeDefinitionBuffer} :
           IF builder.elementOpen
           THEN Closed(Outcome("Unfinished", 0)) /\ UNCHANGED composites
           ELSE IF decoded.outcome.kind # "Ok"
           THEN Closed(decoded.outcome) /\ UNCHANGED composites
           ELSE IF Len(composites) = MaxDefinitions
           THEN Closed(Outcome("DefinitionIdExhausted", 0)) /\ UNCHANGED composites
           ELSE /\ Closed(Outcome("Registered", 0))
                /\ composites' = Append(composites, BuildDefinition(registry, decoded.builder))
    /\ UNCHANGED described

Next ==
    \/ Describe \/ Submit \/ Reset \/ Refuse \/ GrowthFails
    \/ CallAddTerminal \/ CallAddNode \/ CallAddParameter
    \/ CallBeginElement \/ CallElementTerminal \/ CallElementValue \/ CallEndElement
    \/ CallAddVoltageObserver \/ CallAddChildObserver

Spec == Init /\ [][Next]_vars
------------------------------------------------------------------------------
Registered == outcome.kind = "Registered"
newest == composites[Len(composites)]

(* What is registered is what the calls that returned said, under the IDs     *)
(* they returned, whatever was refused, repeated or started over in between;  *)
(* and no buffer the library writes is one the decoder cannot read.           *)
BuiltAsDescribed ==
    /\ outcome.kind \notin {"TruncatedInput", "TrailingBytes", "InvalidFlags", "InvalidCommandLength", "UnknownDefinition",
                            "NodeOutOfRange", "ParameterOutOfRange"}
    /\ Registered =>
        /\ described.nodes = 1..newest.nodeCount
        /\ described.terminals = newest.terminals
        /\ described.parameters = newest.parameters
        /\ described.elements = newest.elements
        /\ described.observers = [i \in DOMAIN newest.observers |-> newest.observers[i].source]
------------------------------------------------------------------------------
(* The definition's meaning: the primitives it is made of, at nodes named by  *)
(* the path to them, with the literal or the parameter each of theirs is; and *)
(* what each parameter of each definition in it is used with.                 *)
Uses(d) == {<<d, p, Parameter(p)>> : p \in DOMAIN registry[d].parameters}

Inlined(e, child, path) ==
    LET Outer(name) ==
            IF Len(name) = 1 /\ name[1] \in Range(child.terminals)
            THEN <<e.terminals[CHOOSE t \in DOMAIN child.terminals : child.terminals[t] = name[1]]>>
            ELSE <<path>> \o name
        Value(v) == IF v[1] = "Literal" THEN v ELSE e.parameters[v[2]]
        parts == child.parts
    IN  [parts |-> [i \in DOMAIN parts |->
                       [parts[i] EXCEPT !.nodes = [n \in DOMAIN @ |-> Outer(@[n])],
                                        !.parameters = [p \in DOMAIN @ |-> Value(@[p])]]],
         uses |-> {<<u[1], u[2], Value(u[3])>> : u \in child.uses},
         observers |-> [o \in DOMAIN child.observers |->
                           LET source == child.observers[o]
                           IN  IF source[1] = "Part" THEN source
                               ELSE <<"Voltage", Outer(source[2]), Outer(source[3])>>]]

Flattened ==
    LET flat[d \in DOMAIN registry] ==
        IF registry[d].body # Composite
        THEN [terminals |-> registry[d].terminals,
              parts |-> <<[definition |-> d, nodes |-> [t \in DOMAIN registry[d].terminals |-> <<t>>],
                           parameters |-> [p \in DOMAIN registry[d].parameters |-> Parameter(p)]]>>,
              uses |-> Uses(d),
              observers |-> [o \in DOMAIN registry[d].observers |-> <<"Part", 1, o>>]]
        ELSE LET elements == registry[d].elements
                 inner == [i \in DOMAIN elements |-> Inlined(elements[i], flat[elements[i].definition], i)]
                 First(i) == Len(Concatenated([j \in 1..i - 1 |-> inner[j].parts]))
                 Source(s) == IF s[1] = "Voltage" THEN <<"Voltage", <<s[2]>>, <<s[3]>>>>
                              ELSE LET c == inner[s[2]].observers[s[3]]
                                   IN  IF c[1] = "Part" THEN <<"Part", First(s[2]) + c[2], c[3]>> ELSE c
             IN  [terminals |-> registry[d].terminals,
                  parts |-> Concatenated([i \in DOMAIN inner |-> inner[i].parts]),
                  uses |-> Uses(d) \cup UNION {inner[i].uses : i \in DOMAIN inner},
                  observers |-> [o \in DOMAIN registry[d].observers |-> Source(registry[d].observers[o].source)]]
    IN  flat[Len(registry)]

NoBounds == {[lower |-> {}, upper |-> {}]}

(* A value that a parameter of the definition accepts is accepted by every    *)
(* element that it reaches, composite or primitive, however deep: the         *)
(* constraints were compared level by level by their bounds, exclusions of    *)
(* zero and reciprocal ranges, and never again when a device's parameter is   *)
(* set (device/builder.rs validate_element, parameter.rs is_subset_of).  The  *)
(* one exception is a value so small that its reciprocal overflows: excluding *)
(* zero is taken to imply a reciprocal range without bounds, and so is not    *)
(* what that range asks for.                                                  *)
AcceptedValuesReachTheirElements ==
    Registered =>
        \A use \in Flattened.uses :
            LET required == registry[use[1]].parameters[use[2]]
                value == use[3]
            IN  IF value[1] = "Literal" THEN Validates(required, value[2])
                ELSE \A v \in TestValues :
                        Validates(newest.parameters[value[2]], v) =>
                            \/ Validates(required, v)
                            \/ required.reciprocalRange = NoBounds /\ ~IsFinite(Reciprocal(v))
------------------------------------------------------------------------------
(* The test bench: every terminal has a source and a conductance to the       *)
(* reference.  The definition is there as one device, or as its primitives;   *)
(* a state is numbered by its place among those of the definition.            *)
Reference == <<0>>
TheDevice == <<"whole", 1>>

Bench ==
    Concatenated([t \in DOMAIN newest.terminals |->
        <<Component(<<"source", t>>, DefinitionOf("CurrentSource"), 1, <<Reference, <<newest.terminals[t]>>>>),
          Component(<<"load", t>>, DefinitionOf("Conductance"), 1, <<<<newest.terminals[t]>>, Reference>>)>>])

ExposedPartitions(device, definition, nodes) ==
    LET d == registry[definition]
        At(p) == Indices(Len(nodes), LAMBDA t : d.terminalPartitions[t] = p)
    IN  [p \in 1..ExposedPartitionCount(d) |->
            Component(device, definition, p, [i \in DOMAIN At(p) |-> nodes[At(p)[i]]])]

AsOneDevice ==
    Bench \o ExposedPartitions(TheDevice, Len(registry), [t \in DOMAIN newest.terminals |-> <<newest.terminals[t]>>])

HiddenPartition(p) == <<Component(TheDevice, Len(registry), p, <<>>)>>

(* Of the primitives, what the terminals are connected to.                    *)
AsPrimitives(parts) ==
    LET all == Concatenated([i \in DOMAIN parts |->
                               ExposedPartitions(<<"part", i>>, parts[i].definition, parts[i].nodes)])
        Spread(nodes, i) == nodes \cup UNION {Range(c.nodes) : c \in {c \in Range(all) : Range(c.nodes) \cap nodes # {}}}
        reached == Accumulate(Spread, {<<n>> : n \in Range(newest.terminals)}, all)
    IN  Bench \o SelectSeq(all, LAMBDA c : Range(c.nodes) \subseteq reached)

(* Some value that the parameter accepts.                                     *)
ParameterValue(p) ==
    LET accepted == {v \in TestValues : Validates(newest.parameters[p], v)}
    IN  IF accepted = {} THEN One ELSE CHOOSE v \in accepted : \A w \in accepted : AtMost(w, v)

BenchParameter(parts, device, p) ==
    CASE device[1] = "whole" -> ParameterValue(p)
      [] device[1] = "source" -> Whole(device[2])
      [] device[1] = "load" -> One
      [] device[1] = "part" -> LET value == parts[device[2]].parameters[p]
                               IN  IF value[1] = "Literal" THEN value[2] ELSE ParameterValue(value[2])

StateNumber(parts, state) ==
    IF state[1][1] = "whole" THEN state[2]
    ELSE StateOffset(registry, parts, state[1][2]) + state[2]

(* The bench after two iterations from the zero solution.                     *)
Inputs(parts, c) ==
    [i \in DOMAIN c.slots |->
        LET parameter == {p \in Range(c.parameters) : p[3] = i}
            state == {s \in DOMAIN c.state : c.state[s] = i}
        IN  IF i = c.timestep THEN One
            ELSE IF parameter # {} THEN LET p == CHOOSE p \in parameter : TRUE IN BenchParameter(parts, p[1], p[2])
            ELSE IF state # {} THEN Whole(StateNumber(parts, c.states[CHOOSE s \in state : TRUE]))
            ELSE NewWorkspace(c)[i]]

Iterated(parts, c) ==
    LET Step(at, i) ==
            LET solution == SolveSystem(MatrixOf(c, at.values), RhsOf(c, at.values))
            IN  IF at.solution = Singular \/ solution = Singular THEN [at EXCEPT !.solution = Singular]
                ELSE [solution |-> solution,
                      values |-> EvaluateIteration(c, AdvanceLatches(c, at.values), solution)]
        started == InitializeLatches(c, ExecuteRate(c, Tick, ExecuteRate(c, Static, Inputs(parts, c))))
        zeros == [u \in 1..c.dimension |-> Zero]
    IN  Accumulate(Step, [solution |-> zeros, values |-> EvaluateIteration(c, started, zeros)], <<1, 2>>)

(* What can be seen of it from outside: the voltages of the terminals, the    *)
(* observers, and what the states become.                                     *)
Seen(c, flat, at) ==
    LET Voltage(node) == LET u == NodeUnknown(c.nodes, node) IN IF u = 0 THEN Zero ELSE at.solution[u]
        Slot(device, o) == (CHOOSE x \in c.observers : x[1] = device /\ x[2] = o)[3]
        Reading(o) ==
            IF \E x \in c.observers : x[1] = TheDevice THEN at.values[Slot(TheDevice, o)]
            ELSE LET source == flat.observers[o]
                 IN  IF source[1] = "Voltage" THEN Minus(Voltage(source[2]), Voltage(source[3]))
                     ELSE at.values[Slot(<<"part", source[2]>>, source[3])]
    IN  IF at.solution = Singular THEN [voltages |-> <<>>, observers |-> <<>>, states |-> {}]
        ELSE [voltages |-> [t \in DOMAIN newest.terminals |-> Voltage(<<newest.terminals[t]>>)],
              observers |-> [o \in {o \in DOMAIN newest.observers :
                                      newest.observers[o].partition <= ExposedPartitionCount(newest)} |-> Reading(o)],
              states |-> {<<StateNumber(flat.parts, c.states[w[1]]), at.values[w[2]]>> : w \in Range(c.stateWrites)}]

Measured(flat, c) == Seen(c, flat, Iterated(flat.parts, c))

(* A device of the definition and its primitives on their own are the same    *)
(* circuit, for all that can be seen of it at the terminals, by the observers *)
(* and in the states of the next tick: one compiled template per partition    *)
(* loses nothing that its elements have.  A partition without a terminal has  *)
(* no node that could be its reference, so its equations have no solution.    *)
CompositeIsItsElements ==
    (Registered /\ newest.terminals # <<>>) =>
        \A compiled \in {CompileRegistry(registry)}, flat \in {Flattened} :
            /\ CompileError(compiled[Len(registry)]) = "Ok"
            /\ Cardinality({Measured(flat, CompileIsland(compiled, island)) :
                              island \in {AsOneDevice, AsPrimitives(flat.parts)}}) = 1
            /\ \A p \in ExposedPartitionCount(newest) + 1..newest.partitionCount :
                    Iterated(flat.parts, CompileIsland(compiled, HiddenPartition(p))).solution = Singular
==============================================================================
