-------------------------- MODULE DefinitionCompiler --------------------------
(* hynergy-engine/src/compile/definition.rs: CompiledDefinition.  A composite *)
(* is flattened into one template per partition: the compiled children that   *)
(* belong to the partition are instantiated one after another, nodes and      *)
(* parameters get their unknown or value at their first use, and each state   *)
(* of a child is a state of the composite.                                    *)
EXTENDS DefinitionTemplates

Indices(n, Test(_)) == SelectSeq([i \in 1..n |-> i], Test)

DefinitionTerminalsForPartition(d, p) ==
    Indices(Len(d.terminals), LAMBDA i : d.terminalPartitions[i] = p)
DefinitionObserversForPartition(d, p) ==
    Indices(Len(d.observers), LAMBDA i : d.observers[i].partition = p)

PartitionTemplate(d, p, parameters, states, reads, writes, t) ==
    [terminals |-> DefinitionTerminalsForPartition(d, p), parameters |-> parameters,
     states |-> states, reads |-> reads, writes |-> writes,
     observers |-> DefinitionObserversForPartition(d, p),
     template |-> Finish(t).template, dependencies |-> Finish(t).dependencies]

DefinitionParameters(d) == [i \in DOMAIN d.parameters |-> i]
DefinitionStates(d) == [s \in 1..d.stateCount |-> s]

PrimitiveStateInitializers(d) == [s \in 1..d.stateCount |-> Zero]
PrimitiveFailedTickTransitions(d) ==
    [s \in 1..d.stateCount |-> IF d.body = "TickDelay" THEN "Zero" ELSE "Preserve"]

CompilePrimitiveDefinition(d) ==
    LET states == DefinitionStates(d)
        whole == Range(states)
    IN  [partitions |->
            IF d.body = "TickDelay"
            THEN <<PartitionTemplate(d, 1, <<>>, states, {}, whole, DelayInputTemplate),
                   PartitionTemplate(d, 2, <<>>, states, whole, {}, DelayOutputTemplate)>>
            ELSE <<PartitionTemplate(d, 1, DefinitionParameters(d), states, whole, whole,
                                     CompilePrimitive(d.body))>>,
         initializers |-> PrimitiveStateInitializers(d),
         failedTickTransitions |-> PrimitiveFailedTickTransitions(d)]
------------------------------------------------------------------------------
(* The partition under construction: the template, the unknown of each node   *)
(* and the value of each parameter (0 before the first use), the parameters   *)
(* in the order of their first use, and the children's outputs.               *)

(* Mutant: every element allocates the internal nodes it is connected to.     *)
WithNodeAnew(acc, node) ==
    IF acc.unknown[node] \in 1..acc.t.terminals THEN acc
    ELSE [acc EXCEPT !.unknown[node] = acc.t.terminals + acc.t.allocated + 1,
                     !.t.allocated = @ + 1]

WithNode(acc, node) ==
    IF acc.unknown[node] # 0 THEN acc
    ELSE [acc EXCEPT !.unknown[node] = acc.t.terminals + acc.t.allocated + 1,
                     !.t.allocated = @ + 1]

(* composite_parameter_value: a literal is a constant of its own, a parameter *)
(* is shared by everything that uses it.                                      *)
WithParameter(acc, value) ==
    LET next == Len(acc.t.values) + 1
    IN  IF value[1] = "Literal"
        THEN [acc EXCEPT !.t.values = Append(@, Const(value[2])), !.bound = Append(@, next)]
        ELSE IF acc.value[value[2]] # 0 THEN [acc EXCEPT !.bound = Append(@, acc.value[value[2]])]
        ELSE [acc EXCEPT !.t.values = Append(@, Par(acc.t.parameters + 1)),
                         !.t.parameters = @ + 1,
                         !.value[value[2]] = next,
                         !.parameters = Append(@, value[2]),
                         !.bound = Append(@, next)]

(* The children, partition by partition, that the partition p is made of.     *)
ChildPartitions(registry, d, p) ==
    LET Of(i) == [q \in 1..registry[d.elements[i].definition].partitionCount |->
                    [element |-> i, partition |-> q,
                     parent |-> d.elementPartitions[PartitionOffset(registry, d.elements, i) + q]]]
    IN  SelectSeq(Concatenated([i \in DOMAIN d.elements |-> Of(i)]), LAMBDA c : c.parent = p)

Compiled(compiled, d, c) == compiled[d.elements[c.element].definition].partitions[c.partition]

(* The states of the composite that the children use, read and write here.    *)
PartitionStates(registry, compiled, d, children) ==
    LET Global(Of(_)) == UNION {{StateOffset(registry, d.elements, c.element) + s :
                                    s \in Of(Compiled(compiled, d, c))} : c \in Range(children)}
    IN  [used |-> Global(LAMBDA child : Range(child.states)),
         reads |-> Global(LAMBDA child : child.reads),
         writes |-> Global(LAMBDA child : child.writes)]

(* One child: its terminals become unknowns of the composite, its parameters  *)
(* values, its states the composite's.                                        *)
AddChildPartition(registry, compiled, d, states, acc, c) ==
    LET e == d.elements[c.element]
        child == Compiled(compiled, d, c)
        nodes == [i \in DOMAIN child.terminals |-> e.terminals[child.terminals[i]]]
        withNodes == Accumulate(WithNode, acc, nodes)
        ready == Accumulate(WithParameter, [withNodes EXCEPT !.bound = <<>>],
                          [i \in DOMAIN child.parameters |-> e.parameters[child.parameters[i]]])
        offset == StateOffset(registry, d.elements, c.element)
        Local(s) == CHOOSE i \in DOMAIN states : states[i] = s
        t == InstantiateInto(ready.t, child.template,
                [i \in DOMAIN nodes |-> ready.unknown[nodes[i]]], ready.bound,
                [i \in DOMAIN child.states |-> Local(offset + child.states[i])])
    IN  [ready EXCEPT
            !.t = t,
            !.outputs = @ \cup {<<c.element, child.observers[i], t.outputs[i]>> : i \in DOMAIN child.observers}]

(* An observer is a difference of two unknowns or a child's output.           *)
CompilePartitionObservers(d, p, built) ==
    LET Observe(t, i) ==
            LET o == d.observers[i].source
                positive == Unk(built.unknown[o[2]])
                negative == Unk(built.unknown[o[3]])
                one == Place(t.values, positive)
                both == Place(one, negative)
                difference == Place(both, Diff(PositionOf(t.values, positive), PositionOf(one, negative)))
            IN  IF o[1] = "Child"
                THEN [t EXCEPT !.outputs =
                        Append(@, (CHOOSE f \in built.outputs : f[1] = o[2] /\ f[2] = o[3])[3])]
                ELSE [t EXCEPT !.values = difference, !.outputs = Append(@, Len(difference))]
    IN  Accumulate(Observe, [built.t EXCEPT !.outputs = <<>>], DefinitionObserversForPartition(d, p))

CompileCompositePartition(registry, compiled, d, p) ==
    LET children == ChildPartitions(registry, d, p)
        of == PartitionStates(registry, compiled, d, children)
        states == Indices(d.stateCount, LAMBDA s : s \in of.used)
        terminals == DefinitionTerminalsForPartition(d, p)
        start == [t |-> [EmptyTemplate EXCEPT !.terminals = Len(terminals),
                                              !.stateWrites = [i \in DOMAIN states |-> 0]],
                  unknown |-> [n \in 1..d.nodeCount |->
                                 LET at == {i \in DOMAIN terminals : d.terminals[terminals[i]] = n}
                                 IN  IF at = {} THEN 0 ELSE CHOOSE i \in at : TRUE],
                  value |-> [i \in DOMAIN d.parameters |-> 0],
                  parameters |-> <<>>, bound |-> <<>>, outputs |-> {}]
        built == Accumulate(LAMBDA acc, c : AddChildPartition(registry, compiled, d, states, acc, c), start, children)
    IN  PartitionTemplate(d, p, built.parameters, states, of.reads, of.writes, CompilePartitionObservers(d, p, built))

CompileComposite(registry, compiled, d) ==
    [partitions |-> [p \in 1..d.partitionCount |-> CompileCompositePartition(registry, compiled, d, p)],
     initializers |-> Concatenated([i \in DOMAIN d.elements |-> compiled[d.elements[i].definition].initializers]),
     failedTickTransitions |->
        Concatenated([i \in DOMAIN d.elements |-> compiled[d.elements[i].definition].failedTickTransitions])]

(* Every definition of a registry, compiled in the order of registration: a   *)
(* composite refers only to what was registered before it.                    *)
Compile(registry, compiled, d) ==
    IF d.body = Composite THEN CompileComposite(registry, compiled, d) ELSE CompilePrimitiveDefinition(d)

CompileRegistry(registry) ==
    Accumulate(LAMBDA compiled, d : Append(compiled, Compile(registry, compiled, d)), <<>>, registry)

(* CompiledDefinition::new: each state is written by exactly one partition.   *)
WriterPartitions(compiled, s) ==
    {p \in DOMAIN compiled.partitions : s \in compiled.partitions[p].writes}
CompileError(compiled) ==
    LET states == DOMAIN compiled.initializers
    IN  IF \E s \in states : Cardinality(WriterPartitions(compiled, s)) > 1 THEN "MultipleStateWriterPartitions"
        ELSE IF \E s \in states : WriterPartitions(compiled, s) = {} THEN "MissingStateWriter"
        ELSE IF \E p \in DOMAIN compiled.partitions :
                  LET c == compiled.partitions[p]
                  IN  \E i \in DOMAIN c.states : c.states[i] \in c.writes /\ c.template.stateWrites[i] = 0
             THEN "MissingStateProducer"
        ELSE "Ok"
==============================================================================
