------------------------------- MODULE IslandIr -------------------------------
(* hynergy-ir and hynergy-engine/src/compile/{island,island_ir}.rs: the       *)
(* partitions of an island are bound to one program of values, with the       *)
(* matrix, the right-hand side and the state transition it feeds.  A value    *)
(* slot is computed no more often than its rate says.  Unknown 0 stands for   *)
(* the reference, the first node of the island, whose voltage is the constant *)
(* zero and which has neither row nor column.                                 *)
EXTENDS DefinitionCompiler

Constant == 0
Static == 1
Tick == 2
Iteration == 3

Input == <<"Input">>

EmptyIr == [slots |-> <<>>, rates |-> <<>>, solution |-> <<>>, state |-> <<>>,
            timestep |-> 0, reference |-> 0, latches |-> <<>>,
            matrixStatic |-> {}, matrix |-> <<>>, rhs |-> <<>>,
            stateWrites |-> <<>>, stability |-> {}, drivers |-> <<>>, pattern |-> {}]

AllocateSlot(ir, node, rate) ==
    [ir EXCEPT !.slots = Append(@, node), !.rates = Append(@, rate)]
NextSlot(ir) == Len(ir.slots) + 1
AllocateComputed(ir, folded, rate) == AllocateSlot(ir, folded, IF folded[1] = "Constant" THEN Constant ELSE rate)

(* ValueProgramBuilder: an operation on constants is a constant, any other    *)
(* one has the rate of its fastest operand.                                   *)
Computed(ir, node) == AllocateComputed(ir, Folded(ir.slots, node), Largest({ir.rates[o] : o \in Operands(node)}))

(* Inputs of the solution, of the states and of the timestep are shared by    *)
(* all the partitions; a parameter is an input of its partition.              *)
UnknownValue(ir, u) ==
    IF u = 0 THEN IF ir.reference # 0 THEN ir
                  ELSE [AllocateSlot(ir, Const(Zero), Constant) EXCEPT !.reference = NextSlot(ir)]
    ELSE IF u \in DOMAIN ir.solution THEN ir
    ELSE [AllocateSlot(ir, Input, Iteration) EXCEPT !.solution = @ @@ (u :> NextSlot(ir))]
StateValue(ir, s) ==
    IF s \in DOMAIN ir.state THEN ir
    ELSE [AllocateSlot(ir, Input, Tick) EXCEPT !.state = @ @@ (s :> NextSlot(ir))]
TimestepValue(ir) ==
    IF ir.timestep # 0 THEN ir ELSE [AllocateSlot(ir, Input, Static) EXCEPT !.timestep = NextSlot(ir)]

(* A latch: the slot that holds it, where it starts and what it becomes.      *)
IterationLatch(ir, initial) ==
    [AllocateSlot(ir, Input, Iteration) EXCEPT !.latches = Append(@, <<NextSlot(ir), initial, 0>>)]
UpdateIterationLatch(ir, latch, update) ==
    [ir EXCEPT !.latches = [i \in DOMAIN @ |-> IF @[i][1] = latch THEN <<latch, @[i][2], update>> ELSE @[i]]]

(* bind_values, one value of the template: the builder after it and the slot. *)
BoundTo(acc, ir, slot) == [acc EXCEPT !.ir = ir, !.at = Append(@, slot)]
Marked(ir, slot, dependent) == IF dependent THEN [ir EXCEPT !.matrixStatic = @ \cup {slot}] ELSE ir

BindParameter(acc, i, dependent) ==
    [BoundTo(acc, Marked(AllocateSlot(acc.ir, Input, Static), NextSlot(acc.ir), dependent), NextSlot(acc.ir))
        EXCEPT !.parameters[i] = NextSlot(acc.ir)]
BindTimestep(acc, ir, dependent) == BoundTo(acc, Marked(ir, ir.timestep, dependent), ir.timestep)
BindState(acc, ir, s) == BoundTo(acc, ir, ir.state[s])
BindUnknown(acc, ir, u) == BoundTo(acc, ir, IF u = 0 THEN ir.reference ELSE ir.solution[u])
AtSlots(node, at) == IF node[1] = "Neg" THEN Neg(at[node[2]]) ELSE <<node[1], at[node[2]], at[node[3]]>>

BindValue(acc, node, dependencies, unknowns, states) ==
    CASE node[1] = "Parameter" -> BindParameter(acc, node[2], node[2] \in dependencies.parameters)
      [] node[1] = "Constant" -> BoundTo(acc, AllocateSlot(acc.ir, node, Constant), NextSlot(acc.ir))
      [] node[1] = "Timestep" -> BindTimestep(acc, TimestepValue(acc.ir), dependencies.timestep)
      [] node[1] = "State" -> BindState(acc, StateValue(acc.ir, states[node[2]]), states[node[2]])
      [] node[1] = "Unknown" -> BindUnknown(acc, UnknownValue(acc.ir, unknowns[node[2]]), unknowns[node[2]])
      [] node[1] = "IterationLatch" -> BoundTo(acc, IterationLatch(acc.ir, acc.at[node[2]]), NextSlot(acc.ir))
      [] node[1] \in BinaryOps \cup {"Neg"} ->
            BoundTo(acc, Computed(acc.ir, AtSlots(node, acc.at)), NextSlot(acc.ir))

(* The terminals of a template are at the nodes of the component, what it     *)
(* allocates comes after the unknowns there are.                              *)
BindUnknowns(terminals, allocated, dimension) == terminals \o [i \in 1..allocated |-> dimension + i]

(* Where a template may write in the matrix: an entry that no template asked  *)
(* for has no place in it.                                                    *)
RequestPattern(t, unknowns) == {<<unknowns[m.row], unknowns[m.column]>> : m \in t.matrix}

BindDriver(d, at, unknowns) ==
    Driver(at[d.mode], unknowns[d.output], unknowns[d.high], unknowns[d.low], at[d.pullUp], at[d.pullDown])

(* bind: the values of a partition, then what they feed.  Rows and columns of *)
(* the reference are left out.                                                *)
BindValues(ir, partition, unknowns, states) ==
    Accumulate(LAMBDA acc, node : BindValue(acc, node, partition.dependencies, unknowns, states),
               [ir |-> ir, at |-> <<>>, parameters |-> [i \in 1..partition.template.parameters |-> 0]],
               partition.template.values)

UpdateLatches(ir, t, at) ==
    Accumulate(LAMBDA b, latch : UpdateIterationLatch(b, at[latch[1]], at[latch[2]]), ir, t.latches)

BindMatrix(t, at, unknowns) ==
    LET bound == SelectSeq(Listed(t.matrix), LAMBDA m : unknowns[m.row] # 0 /\ unknowns[m.column] # 0)
    IN  [i \in DOMAIN bound |-> MatrixTerm(unknowns[bound[i].row], unknowns[bound[i].column],
                                           at[bound[i].source], bound[i].scale)]
BindRhs(t, at, unknowns) ==
    LET bound == SelectSeq(Listed(t.rhs), LAMBDA r : unknowns[r.row] # 0)
    IN  [i \in DOMAIN bound |-> RhsTerm(unknowns[bound[i].row], at[bound[i].source], bound[i].scale)]
BindStateWrites(t, at, states) ==
    LET written == Indices(Len(t.stateWrites), LAMBDA i : t.stateWrites[i] # 0)
    IN  [i \in DOMAIN written |-> <<states[written[i]], at[t.stateWrites[written[i]]]>>]

BindSinks(t, bound, unknowns, states) ==
    [parameters |-> bound.parameters,
     outputs |-> [i \in DOMAIN t.outputs |-> bound.at[t.outputs[i]]],
     ir |-> [UpdateLatches(bound.ir, t, bound.at) EXCEPT
        !.pattern = @ \cup RequestPattern(t, unknowns),
        !.stability = @ \cup {bound.at[v] : v \in t.stability},
        !.matrix = @ \o BindMatrix(t, bound.at, unknowns),
        !.rhs = @ \o BindRhs(t, bound.at, unknowns),
        !.stateWrites = @ \o BindStateWrites(t, bound.at, states),
        !.drivers = @ \o [i \in DOMAIN t.drivers |-> BindDriver(t.drivers[i], bound.at, unknowns)]]]

BindPartition(ir, partition, unknowns, states) ==
    BindSinks(partition.template, BindValues(ir, partition, unknowns, states), unknowns, states)
------------------------------------------------------------------------------
(* An island is a sequence of components: a partition of the definition of a  *)
(* device and the nodes its terminals are at.  Nodes are numbered as they     *)
(* come, the voltages before what the partitions allocate.                    *)
Component(device, definition, partition, nodes) ==
    [device |-> device, definition |-> definition, partition |-> partition, nodes |-> nodes]

IslandNodes(island) == FirstOccurrences(Concatenated([i \in DOMAIN island |-> island[i].nodes]))
Voltages(nodes) == Largest({Len(nodes) - 1, 0})
NodeUnknown(nodes, node) == (CHOOSE i \in DOMAIN nodes : nodes[i] = node) - 1

BindTerminalNodes(nodes, c) == [i \in DOMAIN c.nodes |-> NodeUnknown(nodes, c.nodes[i])]
BindPartitionUnknowns(nodes, c, t, dimension) ==
    BindUnknowns(BindTerminalNodes(nodes, c), t.allocated, dimension)

DeviceState(device, s) == <<device, s>>
BindPartitionStates(layout, device, states) ==
    Accumulate(LAMBDA l, s : IF DeviceState(device, s) \in Range(l) THEN l ELSE Append(l, DeviceState(device, s)),
             layout, states)

(* Which slot each parameter of a partition is an input of, and the slot of   *)
(* each of its observers.                                                     *)
PartitionInputs(device, partition, slots) ==
    [i \in DOMAIN partition.parameters |-> <<device, partition.parameters[i], slots[i]>>]
ObserverOutputs(device, partition, slots) ==
    {<<device, partition.observers[i], slots[i]>> : i \in DOMAIN partition.observers}

(* The pattern of the matrix: the entries asked for, each once, none of them  *)
(* in a row or column of the reference.                                       *)
Pattern(requested) == {entry \in requested : entry[1] # 0 /\ entry[2] # 0}

(* finish: the stamps become canonical.  A source that an iteration can       *)
(* change makes the island nonlinear (record_iteration_stamp_dependency),     *)
(* even when its stamps cancel out.                                           *)
IterationSources(ir, terms) == {s \in {t.source : t \in terms} : ir.rates[s] = Iteration}
FinishWith(ir, matrix, rhs) ==
    [slots |-> ir.slots, rates |-> ir.rates, matrix |-> matrix, rhs |-> rhs,
     solution |-> ir.solution, state |-> ir.state, timestep |-> ir.timestep,
     latches |-> ir.latches, matrixStatic |-> ir.matrixStatic, stability |-> ir.stability,
     candidates |-> ir.drivers, matrixSources |-> IterationSources(ir, matrix),
     nonlinear |-> IterationSources(ir, Range(ir.matrix)) \cup IterationSources(ir, Range(ir.rhs)) # {},
     stateWrites |-> ir.stateWrites, pattern |-> Pattern(ir.pattern)]
FinishIr(ir) == FinishWith(ir, CanonicalMatrix(ir.matrix), CanonicalRhs(ir.rhs))

(* compile_island_parts: the program, and what the runtime is to know of the  *)
(* devices: their states with the transition of each in a tick without a      *)
(* solution, their parameters and their observers.                            *)
AddBound(acc, c, partition, layout, bound) ==
    [ir |-> bound.ir, layout |-> layout,
     dimension |-> acc.dimension + partition.template.allocated,
     parameters |-> Append(acc.parameters, PartitionInputs(c.device, partition, bound.parameters)),
     observers |-> acc.observers \cup ObserverOutputs(c.device, partition, bound.outputs)]

StateSlots(layout, device, states) ==
    [i \in DOMAIN states |-> CHOOSE s \in DOMAIN layout : layout[s] = DeviceState(device, states[i])]

BindComponent(nodes, acc, c, partition, layout) ==
    AddBound(acc, c, partition, layout,
             BindPartition(acc.ir, partition, BindPartitionUnknowns(nodes, c, partition.template, acc.dimension),
                           StateSlots(layout, c.device, partition.states)))

BindComponents(compiled, nodes, island) ==
    Accumulate(LAMBDA acc, c : BindComponent(nodes, acc, c, compiled[c.definition].partitions[c.partition],
                   BindPartitionStates(acc.layout, c.device, compiled[c.definition].partitions[c.partition].states)),
               [ir |-> EmptyIr, layout |-> <<>>, dimension |-> Voltages(nodes), parameters |-> <<>>, observers |-> {}],
               island)

FailedTransition(compiled, island, state) ==
    compiled[(CHOOSE c \in Range(island) : c.device = state[1]).definition].failedTickTransitions[state[2]]

FinishIsland(compiled, island, nodes, all) ==
    FinishIr(all.ir) @@
    [dimension |-> all.dimension, nodes |-> nodes, states |-> all.layout,
     failed |-> [i \in DOMAIN all.layout |-> FailedTransition(compiled, island, all.layout[i])],
     parameters |-> Concatenated(all.parameters), observers |-> all.observers]

CompileWithNodes(compiled, island, nodes) ==
    FinishIsland(compiled, island, nodes, BindComponents(compiled, nodes, island))
CompileIsland(compiled, island) == CompileWithNodes(compiled, island, IslandNodes(island))
------------------------------------------------------------------------------
(* Executing the program: the operations of a rate, in order.                 *)
Operations(c, rate) ==
    Indices(Len(c.slots), LAMBDA i : c.rates[i] = rate /\ c.slots[i][1] \in BinaryOps \cup {"Neg"})

Execute(c, values, i) ==
    LET node == c.slots[i]
    IN  [values EXCEPT ![i] = IF node[1] = "Neg" THEN Negated(values[node[2]])
                              ELSE Apply(node[1], values[node[2]], values[node[3]])]

ExecuteRate(c, rate, values) == Accumulate(LAMBDA v, i : Execute(c, v, i), values, Operations(c, rate))

NewWorkspace(c) == [i \in DOMAIN c.slots |-> IF c.slots[i][1] = "Constant" THEN c.slots[i][2] ELSE Zero]

(* The users of a slot among the iteration's operations, and the evaluation   *)
(* of the marked operations and of their users only.  More than a quarter of  *)
(* the operations are not worth the bookkeeping.                              *)
IterationUsers(c, slot) == {i \in Range(Operations(c, Iteration)) : slot \in Operands(c.slots[i])}

(* Mutant: the users of what was computed again are left alone.              *)
ExecuteMarked(c, values, marked) ==
    Accumulate(LAMBDA v, i : IF i \in marked THEN Execute(c, v, i) ELSE v, values, Operations(c, Iteration))

ExecuteIncremental(c, values, marked) ==
    IF marked = {} THEN values
    ELSE IF Cardinality(marked) >= (Len(Operations(c, Iteration)) + 3) \div 4 THEN ExecuteRate(c, Iteration, values)
    ELSE Accumulate(LAMBDA acc, i :
                        IF i \notin acc.dirty THEN acc
                        ELSE [values |-> Execute(c, acc.values, i), dirty |-> acc.dirty \cup IterationUsers(c, i)],
                    [values |-> values, dirty |-> marked], Operations(c, Iteration)).values

(* The inputs of an evaluation: a solution, and what the latches hold.        *)
SetInputs(c, values, solution) ==
    Accumulate(LAMBDA v, u : [v EXCEPT ![c.solution[u]] = solution[u]], values, Listed(DOMAIN c.solution))
EvaluateIteration(c, values, solution) == ExecuteRate(c, Iteration, SetInputs(c, values, solution))

InitializeLatches(c, values) ==
    [i \in DOMAIN values |-> LET latch == {l \in Range(c.latches) : l[1] = i}
                             IN  IF latch = {} THEN values[i] ELSE values[(CHOOSE l \in latch : TRUE)[2]]]
AdvanceLatches(c, values) ==
    [i \in DOMAIN values |-> LET latch == {l \in Range(c.latches) : l[1] = i}
                             IN  IF latch = {} THEN values[i] ELSE values[(CHOOSE l \in latch : TRUE)[3]]]

(* The equations, one row per unknown with the right-hand side in the end.    *)
MatrixOf(c, values) ==
    [i \in 1..c.dimension |-> [j \in 1..c.dimension |->
        LET terms == {t \in c.matrix : t.row = i /\ t.column = j /\ <<i, j>> \in c.pattern}
        IN  Total(terms, LAMBDA t : Times(values[t.source], Whole(t.scale)))]]
RhsOf(c, values) ==
    [i \in 1..c.dimension |->
        LET terms == {t \in c.rhs : t.row = i}
        IN  Total(terms, LAMBDA t : Times(values[t.source], Whole(t.scale)))]
SolveSystem(matrix, rhs) == LinearSolution([i \in DOMAIN rhs |-> Append(matrix[i], rhs[i])])
==============================================================================
