------------------------- MODULE DefinitionTemplates -------------------------
(* hynergy-engine/src/compile/{template,definition}.rs: every definition is   *)
(* compiled to one template per partition.  A template has the terminals of   *)
(* the partition as its first unknowns and those it allocates after them; its *)
(* values are a straight-line program whose operands are positions before     *)
(* their own; the terms add scale * value to an entry of the matrix or to the *)
(* right-hand side.                                                           *)
EXTENDS DeviceDefinitions, TLC

Par(i) == <<"Parameter", i>>
Const(v) == <<"Constant", v>>
Timestep == <<"Timestep">>
StateOf(s) == <<"State", s>>
Unk(u) == <<"Unknown", u>>
Latch(initial) == <<"IterationLatch", initial>>
Sum(a, b) == <<"Add", a, b>>
Diff(a, b) == <<"Sub", a, b>>
Prod(a, b) == <<"Mul", a, b>>
Quot(a, b) == <<"Div", a, b>>
Leq(a, b) == <<"LessEqual", a, b>>
Neg(a) == <<"Neg", a>>

BinaryOps == {"Add", "Sub", "Mul", "Div", "LessEqual"}

Apply(op, a, b) ==
    CASE op = "Add" -> Plus(a, b)
      [] op = "Sub" -> Minus(a, b)
      [] op = "Mul" -> Times(a, b)
      [] op = "Div" -> Over(a, b)
      [] op = "LessEqual" -> Truth(AtMost(a, b))

MatrixTerm(row, column, source, scale) ==
    [row |-> row, column |-> column, source |-> source, scale |-> scale]
RhsTerm(row, source, scale) == [row |-> row, source |-> source, scale |-> scale]
Driver(mode, output, high, low, pullUp, pullDown) ==
    [mode |-> mode, output |-> output, high |-> high, low |-> low,
     pullUp |-> pullUp, pullDown |-> pullDown]

StampConductance(a, b, g) ==
    <<MatrixTerm(a, a, g, 1), MatrixTerm(b, a, g, -1), MatrixTerm(a, b, g, -1), MatrixTerm(b, b, g, 1)>>
StampCurrentSource(from, to, current) == <<RhsTerm(from, current, -1), RhsTerm(to, current, 1)>>
StampVccs(op, on, cp, cn, g) ==
    <<MatrixTerm(op, cp, g, 1), MatrixTerm(op, cn, g, -1), MatrixTerm(on, cp, g, -1), MatrixTerm(on, cn, g, 1)>>
StampBranch(positive, negative, branch, one) ==
    <<MatrixTerm(positive, branch, one, 1), MatrixTerm(negative, branch, one, -1),
      MatrixTerm(branch, positive, one, 1), MatrixTerm(branch, negative, one, -1)>>
StampOutputStage(output, high, low, pullUp, pullDown) ==
    StampConductance(high, output, pullUp) \o StampConductance(output, low, pullDown)

(* The conductance of a switch, g_max when its mode is one and g_min when it  *)
(* is zero, as the three nodes that follow a program of n.                    *)
SwitchedConductance(n, mode, gMin, gMax) ==
    <<Diff(gMax, gMin), Prod(mode, n + 1), Sum(gMin, n + 2)>>

(* A template under construction: stateWrites holds the position of each      *)
(* state's next value, 0 as long as there is none.                            *)
EmptyTemplate ==
    [terminals |-> 0, allocated |-> 0, parameters |-> 0, values |-> <<>>,
     matrix |-> <<>>, rhs |-> <<>>, stateWrites |-> <<>>, stability |-> {}, latches |-> <<>>,
     modes |-> {}, drivers |-> <<>>, outputs |-> <<>>]
------------------------------------------------------------------------------
(* The primitives.  Each table is the program that compile_primitive emits,   *)
(* position by position.                                                      *)
TwoTerminal == [EmptyTemplate EXCEPT !.terminals = 2, !.parameters = 1]

ConductanceTemplate ==
    [TwoTerminal EXCEPT !.values = <<Par(1), Unk(1), Unk(2), Diff(2, 3), Prod(1, 4)>>,
                        !.matrix = StampConductance(1, 2, 1), !.outputs = <<4, 5>>]

ResistanceTemplate ==
    [TwoTerminal EXCEPT !.values = <<Par(1), Const(One), Quot(2, 1), Unk(1), Unk(2), Diff(4, 5), Prod(3, 6)>>,
                        !.matrix = StampConductance(1, 2, 3), !.outputs = <<6, 7>>]

CurrentSourceTemplate ==
    [TwoTerminal EXCEPT !.values = <<Par(1), Unk(1), Unk(2), Diff(2, 3)>>,
                        !.rhs = StampCurrentSource(1, 2, 1), !.outputs = <<4, 1>>]

VoltageSourceTemplate ==
    [TwoTerminal EXCEPT !.allocated = 1,
                        !.values = <<Par(1), Const(One), Unk(1), Unk(2), Diff(3, 4), Unk(3)>>,
                        !.matrix = StampBranch(1, 2, 3, 2), !.rhs = <<RhsTerm(3, 1, 1)>>,
                        !.outputs = <<5, 6>>]

CapacitorTemplate ==
    [TwoTerminal EXCEPT !.values = <<Par(1), Timestep, StateOf(1), Quot(1, 2), Prod(4, 3),
                                     Unk(1), Unk(2), Diff(6, 7), Diff(8, 3), Prod(4, 9)>>,
                        !.matrix = StampConductance(1, 2, 4),
                        !.rhs = <<RhsTerm(1, 5, 1), RhsTerm(2, 5, -1)>>,
                        !.stateWrites = <<8>>, !.outputs = <<8, 10>>]

InductorTemplate ==
    [TwoTerminal EXCEPT !.values = <<Par(1), Timestep, StateOf(1), Quot(2, 1),
                                     Unk(1), Unk(2), Diff(5, 6), Prod(4, 7), Sum(3, 8)>>,
                        !.matrix = StampConductance(1, 2, 4),
                        !.rhs = StampCurrentSource(1, 2, 3),
                        !.stateWrites = <<9>>, !.outputs = <<7, 9>>]

DiodeTemplate ==
    [TwoTerminal EXCEPT !.parameters = 2,
                        !.values = <<Par(1), Par(2), Unk(1), Unk(2), Diff(3, 4), Const(Zero), Const(One),
                                     Leq(5, 6), Diff(7, 8)>>
                                     \o SwitchedConductance(9, 9, 2, 1) \o <<Prod(12, 5)>>,
                        !.matrix = StampConductance(1, 2, 12),
                        !.stability = {9}, !.outputs = <<5, 13>>]

FourTerminal == [EmptyTemplate EXCEPT !.terminals = 4, !.parameters = 1]

VccsTemplate ==
    [FourTerminal EXCEPT !.values = <<Par(1), Unk(1), Unk(2), Diff(2, 3), Unk(3), Unk(4), Diff(5, 6), Prod(1, 7)>>,
                         !.matrix = StampVccs(1, 2, 3, 4, 1), !.outputs = <<4, 7, 8>>]

VcvsTemplate ==
    [FourTerminal EXCEPT !.allocated = 1,
                         !.values = <<Par(1), Const(One), Unk(1), Unk(2), Diff(3, 4),
                                      Unk(3), Unk(4), Diff(6, 7), Unk(5)>>,
                         !.matrix = StampBranch(1, 2, 5, 2)
                                      \o <<MatrixTerm(5, 3, 1, -1), MatrixTerm(5, 4, 1, 1)>>,
                         !.outputs = <<5, 8, 9>>]

(* Parameters: threshold, g_max, g_min.                                       *)
SwitchTemplate ==
    [FourTerminal EXCEPT !.parameters = 3,
                         !.values = <<Par(1), Par(2), Par(3), Unk(3), Unk(4), Diff(4, 5), Leq(1, 6)>>
                                      \o SwitchedConductance(7, 7, 3, 2)
                                      \o <<Unk(1), Unk(2), Diff(11, 12), Prod(10, 13)>>,
                         !.matrix = StampConductance(1, 2, 10),
                         !.stability = {7}, !.modes = {7}, !.outputs = <<13, 6, 14>>]

(* Parameters: threshold, transition, g_min, g_max.  Between the two ends of  *)
(* the transition the conductance is linearised about the control voltage.    *)
ControlledConductanceTemplate ==
    [EmptyTemplate EXCEPT
        !.terminals = 3, !.parameters = 4,
        !.values = <<Par(1), Par(2), Par(3), Par(4), Const(Half), Const(One),
                     Prod(2, 5), Diff(1, 7), Sum(1, 7),         \*  8 low, 9 high
                     Diff(4, 3), Quot(10, 2),                   \* 10 range, 11 slope
                     Unk(1), Unk(2), Unk(3), Diff(12, 13), Diff(14, 13),
                     Leq(16, 8), Leq(9, 16),                    \* 17 below, 18 above
                     Diff(6, 17), Diff(19, 18), Prod(11, 20),   \* 21 active slope
                     Diff(16, 8), Prod(21, 22), Prod(10, 18),
                     Sum(3, 24), Sum(25, 23),                   \* 26 conductance
                     Prod(21, 15), Prod(27, 16),                \* 27 transconductance
                     Prod(26, 15)>>,
        !.matrix = StampConductance(1, 2, 26) \o StampVccs(1, 2, 3, 2, 27),
        !.rhs = <<RhsTerm(1, 28, 1), RhsTerm(2, 28, -1)>>,
        !.outputs = <<15, 16, 29>>]

(* Unknowns: output, vdd, vss, input.  Parameters: threshold, hysteresis,     *)
(* g_max, g_min.  The mode is an iteration latch that starts from the state.  *)
SchmittBufferTemplate ==
    [EmptyTemplate EXCEPT
        !.terminals = 4, !.parameters = 4,
        !.values = <<Par(1), Par(2), Par(3), Par(4), StateOf(1), Unk(4), Unk(3), Diff(6, 7),
                     Const(Zero), Const(Half), Const(One),
                     Prod(2, 10), Diff(1, 12), Sum(1, 12),      \* 13 lower, 14 upper
                     Latch(5),
                     Leq(14, 8), Leq(8, 13), Diff(11, 15), Diff(11, 17), Prod(18, 16), Prod(15, 19), Sum(20, 21),
                     Leq(2, 9), Leq(1, 8), Diff(11, 23), Prod(25, 22), Prod(23, 24),
                     Sum(26, 27),                               \* 28 the next mode
                     Diff(3, 4), Prod(28, 29), Sum(4, 30), Diff(3, 30),
                     Unk(1), Diff(33, 7), Unk(2), Diff(35, 33), Prod(31, 36)>>,
        !.matrix = StampConductance(2, 1, 31) \o StampConductance(1, 3, 32),
        !.stateWrites = <<28>>, !.latches = <<<<15, 28>>>>, !.stability = {28},
        !.outputs = <<34, 8, 37>>]

(* Unknowns: output, vdd, vss, input A, input B.  Parameters: threshold,      *)
(* g_max, g_min.  8 and 11 tell whether an input is high.                     *)
GateTemplate(kind) ==
    LET inputs == IF kind = "Not" THEN <<>> ELSE <<Unk(5), Diff(9, 6), Leq(1, 10)>>
        outputHigh == CASE kind = "Not" -> <<Diff(4, 8)>>
                        [] kind = "And" -> <<Prod(8, 11)>>
                        [] kind = "Nand" -> <<Prod(8, 11), Diff(4, 12)>>
                        [] kind = "Or" -> <<Sum(8, 11), Prod(8, 11), Diff(12, 13)>>
                        [] kind = "Nor" -> <<Diff(4, 8), Diff(4, 11), Prod(12, 13)>>
        prefix == <<Par(1), Par(2), Par(3), Const(One), Unk(4), Unk(3), Diff(5, 6), Leq(1, 7)>>
                     \o inputs \o outputHigh
        n == Len(prefix)                \* the output's mode; n + 3 and n + 4 are its pull-ups
    IN  [EmptyTemplate EXCEPT
            !.terminals = IF kind = "Not" THEN 4 ELSE 5, !.parameters = 3,
            !.values = prefix \o <<Diff(2, 3), Prod(n, n + 1), Sum(3, n + 2), Diff(2, n + 2),
                                   Unk(1), Diff(n + 5, 6), Unk(2), Diff(n + 7, n + 5), Prod(n + 3, n + 8)>>,
            !.matrix = StampOutputStage(1, 2, 3, n + 3, n + 4),
            !.stability = {n}, !.modes = {n},
            !.drivers = <<Driver(n, 1, 2, 3, n + 3, n + 4)>>,
            !.outputs = IF kind = "Not" THEN <<n + 6, 7, n + 9>> ELSE <<n + 6, 7, 10, n + 9>>]

(* The two partitions of a delay share a state: the first writes the voltage  *)
(* it sees, the second is a source of the voltage seen one tick before.       *)
DelayInputTemplate ==
    [EmptyTemplate EXCEPT !.terminals = 2, !.values = <<Unk(1), Unk(2), Diff(1, 2)>>,
                          !.stateWrites = <<3>>, !.outputs = <<3>>]
DelayOutputTemplate ==
    [EmptyTemplate EXCEPT !.terminals = 2, !.allocated = 1,
                          !.values = <<StateOf(1), Const(One), Unk(1), Unk(2), Diff(3, 4), Unk(3)>>,
                          !.matrix = StampBranch(1, 2, 3, 2), !.rhs = <<RhsTerm(3, 1, 1)>>,
                          !.stateWrites = <<0>>, !.outputs = <<5, 6>>]

CompilePrimitive(kind) ==
    CASE kind = "Conductance" -> ConductanceTemplate
      [] kind = "Resistance" -> ResistanceTemplate
      [] kind = "CurrentSource" -> CurrentSourceTemplate
      [] kind = "VoltageSource" -> VoltageSourceTemplate
      [] kind = "VoltageControlledCurrentSource" -> VccsTemplate
      [] kind = "VoltageControlledVoltageSource" -> VcvsTemplate
      [] kind = "Capacitor" -> CapacitorTemplate
      [] kind = "Inductor" -> InductorTemplate
      [] kind = "VoltageControlledConductance" -> ControlledConductanceTemplate
      [] kind = "VoltageControlledSwitch" -> SwitchTemplate
      [] kind = "Diode" -> DiodeTemplate
      [] kind = "SchmittBuffer" -> SchmittBufferTemplate
      [] kind \in Gates -> GateTemplate(kind)
------------------------------------------------------------------------------
(* Building: appending a value folds constants, and reads an unknown or the   *)
(* timestep once.                                                             *)
Operands(node) ==
    CASE node[1] \in BinaryOps -> {node[2], node[3]}
      [] node[1] \in {"Neg", "IterationLatch"} -> {node[2]}
      [] OTHER -> {}

Folded(values, node) ==
    IF node[1] \in BinaryOps /\ values[node[2]][1] = "Constant" /\ values[node[3]][1] = "Constant"
    THEN Const(Apply(node[1], values[node[2]][2], values[node[3]][2]))
    ELSE IF node[1] = "Neg" /\ values[node[2]][1] = "Constant" THEN Const(Negated(values[node[2]][2]))
    ELSE node

Memoised(values, node) == IF node[1] \in {"Unknown", "Timestep"} THEN SelectInSeq(values, LAMBDA v : v = node) ELSE 0

(* The position at which a node is placed, and the program with it.           *)
PositionOf(values, node) ==
    LET known == Memoised(values, node) IN IF known # 0 THEN known ELSE Len(values) + 1
Place(values, node) ==
    IF Memoised(values, node) # 0 THEN values ELSE Append(values, Folded(values, node))

(* Terms on the same entry with the same source are one term, and a term of   *)
(* scale zero is none.                                                        *)
CanonicalMatrix(terms) ==
    LET keys == {<<t.row, t.column, t.source>> : t \in Range(terms)}
        Scale(k) == Accumulate(LAMBDA n, t : IF <<t.row, t.column, t.source>> = k THEN n + t.scale ELSE n, 0, terms)
    IN  {MatrixTerm(k[1], k[2], k[3], Scale(k)) : k \in {k \in keys : Scale(k) # 0}}
CanonicalRhs(terms) ==
    LET keys == {<<t.row, t.source>> : t \in Range(terms)}
        Scale(k) == Accumulate(LAMBDA n, t : IF <<t.row, t.source>> = k THEN n + t.scale ELSE n, 0, terms)
    IN  {RhsTerm(k[1], k[2], Scale(k)) : k \in {k \in keys : Scale(k) # 0}}

(* Which nodes a set of values is computed from.                              *)
Sources(values, roots) ==
    Accumulate(LAMBDA reached, i : IF i \in reached THEN reached \cup Operands(values[i]) ELSE reached,
             roots, Reverse([i \in DOMAIN values |-> i]))

MatrixStaticDependencies(t) ==
    LET reached == Sources(t.values, {term.source : term \in t.matrix})
    IN  [parameters |-> {i \in 1..t.parameters : \E v \in reached : t.values[v] = Par(i)},
         timestep |-> \E v \in reached : t.values[v] = Timestep]

(* finish: the terms become canonical and the template learns which of its    *)
(* parameters the matrix depends on.                                          *)
Finish(t) ==
    LET canonical == [t EXCEPT !.matrix = CanonicalMatrix(t.matrix), !.rhs = CanonicalRhs(t.rhs)]
    IN  [template |-> canonical, dependencies |-> MatrixStaticDependencies(canonical)]
------------------------------------------------------------------------------
(* instantiate_into: a child's template is copied into the template t of its  *)
(* parent.  Its terminals, parameters and states are given as positions of    *)
(* the parent; everything else is renumbered.                                 *)
Renumbered(node, unknowns, parameters, states, at) ==
    CASE node[1] = "Parameter" -> <<"Bound", parameters[node[2]]>>
      [] node[1] = "State" -> StateOf(states[node[2]])
      [] node[1] = "Unknown" -> Unk(unknowns[node[2]])
      [] node[1] \in BinaryOps -> <<node[1], at[node[2]], at[node[3]]>>
      [] node[1] \in {"Neg", "IterationLatch"} -> <<node[1], at[node[2]]>>
      [] OTHER -> node

InstantiateInto(t, child, terminals, parameters, states) ==
    LET first == t.terminals + t.allocated
        unknowns == terminals \o [i \in 1..child.allocated |-> first + i]
        placed == Accumulate(
            LAMBDA acc, node :
              LET n == Renumbered(node, unknowns, parameters, states, acc.at)
              IN  IF n[1] = "Bound" THEN [acc EXCEPT !.at = Append(@, n[2])]
                  ELSE [at |-> Append(acc.at, PositionOf(acc.values, n)),
                        values |-> Place(acc.values, n)],
            [at |-> <<>>, values |-> t.values], child.values)
        at == placed.at
    IN  [t EXCEPT
            !.allocated = @ + child.allocated,
            !.values = placed.values,
            !.matrix = @ \o [i \in 1..Cardinality(child.matrix) |->
                               LET m == Listed(child.matrix)[i]
                               IN  MatrixTerm(unknowns[m.row], unknowns[m.column], at[m.source], m.scale)],
            !.rhs = @ \o [i \in 1..Cardinality(child.rhs) |->
                            LET r == Listed(child.rhs)[i]
                            IN  RhsTerm(unknowns[r.row], at[r.source], r.scale)],
            !.stateWrites = [s \in DOMAIN @ |->
                               IF \E c \in DOMAIN child.stateWrites : states[c] = s /\ child.stateWrites[c] # 0
                               THEN at[child.stateWrites[CHOOSE c \in DOMAIN states : states[c] = s]]
                               ELSE @[s]],
            !.stability = @ \cup {at[v] : v \in child.stability},
            !.latches = @ \o [i \in DOMAIN child.latches |-> <<at[child.latches[i][1]], at[child.latches[i][2]]>>],
            !.modes = @ \cup {at[v] : v \in child.modes},
            !.drivers = @ \o [i \in DOMAIN child.drivers |->
                                LET d == child.drivers[i]
                                IN  Driver(at[d.mode], unknowns[d.output], unknowns[d.high], unknowns[d.low],
                                           at[d.pullUp], at[d.pullDown])],
            !.outputs = [i \in DOMAIN child.outputs |-> at[child.outputs[i]]]]
==============================================================================
