---------------------------- MODULE IslandRuntime ----------------------------
(* hynergy-engine/src/runtime/{island,discrete}.rs: one island from tick to   *)
(* tick.  A tick loads what changed, and finds a solution of the equations in *)
(* which every value agrees with the solution it is computed from: at once if *)
(* they are linear, else by iteration.  An island with a discrete plan lets   *)
(* its gates settle between two solutions, on predictions that are not        *)
(* trusted: a solution counts only after the equations verified it.           *)
(*                                                                            *)
(* Arithmetic is exact; the tolerance of solutions_converged becomes          *)
(* equality.  A step of the module is a solution of the equations, or a round *)
(* of the closure.                                                            *)
EXTENDS DiscretePlan

CONSTANTS
    Circuits,           \* sequence of [island, start, choices]: the components, the value of
                        \* each parameter <<device, parameter>> at first, those it may be set to
    TimestepLength,     \* the length of a tick
    MaxIterations,      \* NONLINEAR_MAX_ITERATIONS
    MaxRounds,          \* DISCRETE_CLOSURE_MAX_ROUNDS
    GenerationModulus,  \* how many generations there are before the counter wraps
    MaxTicks            \* bound on the ticks of a behaviour

ASSUME BoundsAssumption ==
    {MaxIterations, MaxRounds, MaxTicks, GenerationModulus - 1} \subseteq Nat \ {0}

Missing == <<>>

VARIABLES
    circuit,        \* its components, and the values the parameters may be set to
    compiled,       \* what the components are compiled to, the same from tick to tick
    parameters,     \* the network's parameters, Missing or a value
    states,         \* the physical state store, in the layout of the island
    runtime,        \* IslandRuntime
    scratch,        \* NonlinearScratch, what it keeps between ticks
    solve,          \* where the tick has got to
    ticks

constant == <<circuit, compiled>>
vars == <<constant, parameters, states, runtime, scratch, solve, ticks>>

ir == compiled.ir
plan == compiled.plan
planned == compiled.planned
------------------------------------------------------------------------------
(* The workspace.                                                             *)
AllFinite(values) == \A i \in DOMAIN values : IsFinite(values[i])
Captured(slots, w) == [s \in slots |-> w[s]]
StabilityMatches(expected, w) == expected = Captured(DOMAIN expected, w)
MatrixSourcesMatch(expected, w) == expected = Captured(DOMAIN expected, w)
SolutionsConverged(previous, current) == previous = current

Sleepable == ir.timestep = 0 /\ DOMAIN ir.state = {} /\ ir.stateWrites = <<>>
Unfactorized == <<>>
IsFactorized(r) == r.matrix # Unfactorized

NewRuntime ==
    LET fresh == NewWorkspace(ir)
    IN  [workspace |-> IF ir.timestep = 0 THEN fresh ELSE [fresh EXCEPT ![ir.timestep] = TimestepLength],
         solution |-> [u \in 1..ir.dimension |-> Zero], solutionValid |-> FALSE,
         staticInitialized |-> FALSE, staticInputsDirty |-> TRUE, needsSolve |-> TRUE,
         matrixDirty |-> TRUE, matrix |-> Unfactorized,
         factorizedSources |-> [s \in ir.matrixSources |-> Zero]]

RhsBarriers == IF planned THEN plan.rhsBarriers ELSE {}

NewScratch ==
    [stability |-> [s \in ir.stability |-> Zero],
     rhsReference |-> [s \in RhsBarriers |-> Zero], rhsReferenceValid |-> RhsBarriers = {},
     queued |-> [d \in DOMAIN plan.drivers |-> 0], generation |-> 0]

Idle == [phase |-> "Idle", iterations |-> 0, rounds |-> 0, guess |-> <<>>, frontier |-> {}, outcome |-> "None"]
Ended(phase) == [Idle EXCEPT !.phase = phase]
------------------------------------------------------------------------------
(* prepare_static.  Parameters are loaded one after another up to the first   *)
(* one that is missing; what was loaded before it stays.                      *)
LoadParameters(r) ==
    Accumulate(LAMBDA acc, p :
               LET value == parameters[<<p[1], p[2]>>]
               IN  IF ~acc.found \/ (value # Missing /\ acc.workspace[p[3]] = value) THEN acc
                   ELSE IF value = Missing THEN [acc EXCEPT !.found = FALSE]
                   ELSE [acc EXCEPT !.workspace[p[3]] = value, !.values = TRUE,
                                    !.matrix = @ \/ p[3] \in ir.matrixStatic],
             [workspace |-> r.workspace, found |-> TRUE, values |-> FALSE, matrix |-> FALSE],
             ir.parameters)

(* Mutant: only the first tick stamps the matrix.                             *)
PrepareStaticOnce(r) ==
    LET loaded == IF r.staticInputsDirty THEN LoadParameters(r)
                  ELSE [workspace |-> r.workspace, found |-> TRUE, values |-> FALSE, matrix |-> FALSE]
    IN  IF ~loaded.found THEN [r EXCEPT !.workspace = loaded.workspace]
        ELSE [r EXCEPT !.workspace = ExecuteRate(ir, Static, loaded.workspace),
                       !.staticInputsDirty = FALSE, !.staticInitialized = TRUE,
                       !.matrixDirty = @ \/ ~r.staticInitialized]

PrepareStatic(r) ==
    LET loaded == IF r.staticInputsDirty THEN LoadParameters(r)
                  ELSE [workspace |-> r.workspace, found |-> TRUE, values |-> FALSE, matrix |-> FALSE]
        initialize == ~r.staticInitialized
    IN  IF ~loaded.found THEN [r EXCEPT !.workspace = loaded.workspace]
        ELSE [r EXCEPT
                !.workspace = IF initialize \/ loaded.values
                              THEN ExecuteRate(ir, Static, loaded.workspace) ELSE loaded.workspace,
                !.staticInputsDirty = FALSE, !.staticInitialized = TRUE,
                !.matrixDirty = @ \/ initialize \/ loaded.matrix]

AllParametersFound == \A i \in DOMAIN ir.parameters : parameters[<<ir.parameters[i][1], ir.parameters[i][2]>>] # Missing

(* factorize_matrix_if_dirty.                                                 *)
FactorizeIfDirty(r) ==
    IF ~r.matrixDirty THEN r
    ELSE [r EXCEPT !.matrix = MatrixOf(ir, r.workspace), !.matrixDirty = FALSE,
                   !.factorizedSources = Captured(ir.matrixSources, r.workspace)]

UpdateMatrixDirty(r) ==
    IF ~r.matrixDirty /\ IsFactorized(r) /\ ~MatrixSourcesMatch(r.factorizedSources, r.workspace)
    THEN [r EXCEPT !.matrixDirty = TRUE] ELSE r

(* Solving the equations once: the runtime and the candidate, Singular when   *)
(* there is none.  What the solver library does with a singular matrix is its *)
(* own business: it reports it, and the matrix stays dirty, or the solution   *)
(* is not finite.                                                             *)
Solutions(r) ==
    LET factorized == FactorizeIfDirty(r)
        candidate == SolveSystem(factorized.matrix, RhsOf(ir, r.workspace))
        solved == [runtime |-> factorized, candidate |-> candidate]
        refused == [runtime |-> [r EXCEPT !.matrix = Unfactorized], candidate |-> Singular]
    IN  IF \E i \in DOMAIN factorized.matrix : ~AllFinite(factorized.matrix[i]) THEN {refused}
        ELSE IF r.matrixDirty /\ candidate = Singular THEN {solved, refused}
        ELSE {solved}

(* solve_nonlinear_candidate: the reference of the right-hand side is valid   *)
(* only with a solution of it.                                                *)
RhsReferenceMatches(s, w) == s.rhsReferenceValid /\ s.rhsReference = Captured(DOMAIN s.rhsReference, w)
CaptureRhs(s, w) == [s EXCEPT !.rhsReference = Captured(DOMAIN s.rhsReference, w), !.rhsReferenceValid = FALSE]
------------------------------------------------------------------------------
(* A parameter is set between two ticks: mark_numerical_dirty.                *)
SetParameter ==
    /\ solve.phase = "Idle"
    /\ \E p \in DOMAIN circuit.choices : \E v \in circuit.choices[p] :
          /\ v # parameters[p]
          /\ parameters' = [parameters EXCEPT ![p] = v]
    /\ runtime' = [runtime EXCEPT !.staticInputsDirty = TRUE, !.needsSolve = TRUE]
    /\ UNCHANGED <<constant, states, scratch, solve, ticks>>

(* prepare_tick_state_inputs.                                                 *)
WithStates(w) == Accumulate(LAMBDA v, s : [v EXCEPT ![ir.state[s]] = states[s]], w, Listed(DOMAIN ir.state))

(* Mutant: an island with states goes to sleep as well.                       *)
FinishedForGood(r) == [r EXCEPT !.solutionValid = TRUE, !.needsSolve = FALSE]

Finished(r) == [r EXCEPT !.solutionValid = TRUE, !.needsSolve = ~Sleepable]

(* Mutant: the values are not evaluated for the solution.                     *)
SolveLinearUnread(r) ==
    \E result \in Solutions(r) :
        IF result.candidate = Singular
        THEN runtime' = result.runtime /\ solve' = Ended("Failed")
        ELSE runtime' = Finished([result.runtime EXCEPT !.solution = result.candidate]) /\ solve' = Ended("Solved")

(* solve_linear.                                                              *)
SolveLinear(r) ==
    \E result \in Solutions(r) :
        IF result.candidate = Singular
        THEN runtime' = result.runtime /\ solve' = Ended("Failed")
        ELSE /\ runtime' = Finished([result.runtime EXCEPT
                  !.solution = result.candidate,
                  !.workspace = EvaluateIteration(ir, result.runtime.workspace, result.candidate)])
             /\ solve' = Ended("Solved")

(* The start of solve_nonlinear: the solution of the last tick is the guess;  *)
(* the gates may settle first if it still stands for the equations.           *)
NeedsBootstrap(r, hadSolution) ==
    ~hadSolution \/ r.matrixDirty \/ ~IsFactorized(r) \/ ~scratch.rhsReferenceValid

StartNonlinear(r, hadSolution) ==
    /\ runtime' = [r EXCEPT !.workspace = EvaluateIteration(ir, @, r.solution)]
    /\ solve' = [Idle EXCEPT !.guess = r.solution,
                             !.phase = IF ~planned THEN "Generic"
                                       ELSE IF NeedsBootstrap(r, hadSolution) THEN "Verify" ELSE "Prepare"]

(* solve_prepared_tick up to the first solution.                              *)
BeginTick ==
    /\ solve.phase = "Idle" /\ ticks < MaxTicks
    /\ ticks' = ticks + 1
    /\ LET loaded == PrepareStatic([runtime EXCEPT !.solutionValid = FALSE,
                                                   !.workspace = WithStates(@)])
           ready == [loaded EXCEPT !.workspace = InitializeLatches(ir, ExecuteRate(ir, Tick, @))]
       IN  IF Sleepable /\ ~runtime.needsSolve
           THEN solve' = Ended("Solved") /\ UNCHANGED runtime
           ELSE IF ~AllParametersFound THEN solve' = Ended("Failed") /\ runtime' = loaded
           ELSE IF ir.nonlinear THEN StartNonlinear(ready, runtime.solutionValid)
           ELSE SolveLinear(ready)
    /\ UNCHANGED <<constant, parameters, states, scratch>>

(* The tick's results go to the state store; a tick that failed has results   *)
(* of its own.                                                                *)
StatesWritten == {ir.stateWrites[i][1] : i \in DOMAIN ir.stateWrites}
NextState(s) == runtime.workspace[(CHOOSE w \in Range(ir.stateWrites) : w[1] = s)[2]]
StateAfterFailure(s) == IF ir.failed[s] = "Zero" THEN Zero ELSE states[s]

EndTick ==
    /\ solve.phase \in {"Solved", "Failed"}
    /\ LET succeeded == solve.phase = "Solved" /\ \A s \in StatesWritten : IsFinite(NextState(s))
       IN  states' = [s \in DOMAIN states |->
                        IF s \notin StatesWritten THEN states[s]
                        ELSE IF succeeded THEN NextState(s) ELSE StateAfterFailure(s)]
    /\ solve' = Idle
    /\ UNCHANGED <<constant, parameters, runtime, scratch, ticks>>
------------------------------------------------------------------------------
(* solve_discrete_verification, one iteration of the fast path.               *)
SameSystem(r, s) ==
    /\ MatrixSourcesMatch(r.factorizedSources, r.workspace)
    /\ RhsReferenceMatches(s, r.workspace)

VerifyDiscrete ==
    /\ solve.phase = "Verify"
    /\ LET captured == [CaptureRhs(scratch, runtime.workspace)
                          EXCEPT !.stability = Captured(ir.stability, runtime.workspace)]
           verified == [captured EXCEPT !.rhsReferenceValid = TRUE]
       IN  \E result \in Solutions(UpdateMatrixDirty(runtime)) :
             IF result.candidate = Singular
             THEN /\ runtime' = result.runtime /\ solve' = Ended("Failed")
                  /\ scratch' = IF IsFactorized(result.runtime) THEN captured
                                ELSE [scratch EXCEPT !.stability = captured.stability]
             ELSE LET next == [result.runtime EXCEPT
                                 !.solution = result.candidate,
                                 !.workspace = EvaluateIteration(ir, @, result.candidate)]
                      stable == StabilityMatches(captured.stability, next.workspace)
                      converged == stable /\ (SameSystem(next, verified) \/ SolutionsConverged(runtime.solution, result.candidate))
                  IN  /\ scratch' = verified
                      /\ runtime' = IF converged THEN Finished(next) ELSE next
                      /\ solve' = IF converged THEN Ended("Solved")
                                  ELSE IF solve.iterations + 1 >= MaxIterations THEN Ended("Failed")
                                  ELSE [Idle EXCEPT !.phase = "Prepare", !.iterations = solve.iterations + 1,
                                                    !.guess = result.candidate]
    /\ UNCHANGED <<constant, parameters, states, ticks>>

(* Mutant: the marks stay when the generations start again.                   *)
BeginNextFrontierUnmarked(s) == [s EXCEPT !.generation = (@ + 1) % GenerationModulus]

(* begin_next_frontier: the marks of an older generation do not count, and    *)
(* are cleared when the generations start again.                              *)
BeginNextFrontier(s) ==
    LET next == (s.generation + 1) % GenerationModulus
    IN  IF next = 0 THEN [s EXCEPT !.generation = 1, !.queued = [d \in DOMAIN s.queued |-> 0]]
        ELSE [s EXCEPT !.generation = next]

(* queue_dependent, for a set of drivers: those that were not marked yet.     *)
Queued(s, candidates) == {d \in candidates : s.queued[d] # s.generation}
Queue(s, candidates) == [s EXCEPT !.queued = [d \in DOMAIN @ |-> IF d \in candidates THEN s.generation ELSE @[d]]]

(* prepare_discrete_closure_frontier: the drivers that look at a stability    *)
(* value which is not what the last solution was computed with.               *)
PrepareClosure ==
    /\ solve.phase = "Prepare"
    /\ LET begun == BeginNextFrontier(scratch)
           changed == {s \in ir.stability : runtime.workspace[s] # scratch.stability[s]}
           seeds == (IF changed = {} THEN {} ELSE plan.conservativeSeeds)
                       \cup UNION {plan.stabilityDependents[s] : s \in changed}
       IN  /\ scratch' = Queue(begun, seeds)
           /\ solve' = [solve EXCEPT !.phase = IF Queued(begun, seeds) = {} THEN "Verify" ELSE "Round",
                                     !.frontier = Queued(begun, seeds), !.rounds = 0]
    /\ UNCHANGED <<constant, parameters, states, runtime, ticks>>

BarriersChanged(w) ==
    \/ \E s \in plan.matrixBarriers : w[s] # runtime.factorizedSources[s]
    \/ \E s \in plan.rhsBarriers : w[s] # scratch.rhsReference[s]

PredictedVoltage(u) == IF u = 0 THEN Zero ELSE solve.guess[u]
Prediction(d) ==
    LET driver == plan.drivers[d]
        up == runtime.workspace[driver.pullUp]
        down == runtime.workspace[driver.pullDown]
    IN  Over(Plus(Times(up, PredictedVoltage(driver.high)), Times(down, PredictedVoltage(driver.low))),
             Plus(up, down))

(* evaluate_changed_iteration: the outputs of the round are set, and what     *)
(* depends on those that changed is computed again.                           *)
EvaluateChanged(w, predicted, drivers) ==
    LET inputs == {d \in drivers : plan.outputInput[d] # 0 /\ w[plan.outputInput[d]] # predicted[plan.drivers[d].output]}
        set == Accumulate(LAMBDA v, d : [v EXCEPT ![plan.outputInput[d]] = predicted[plan.drivers[d].output]],
                        w, Listed(inputs))
    IN  ExecuteIncremental(ir, set, UNION {IterationUsers(ir, plan.outputInput[d]) : d \in inputs})

(* Leaving the closure: to a solution, or to the generic iteration from the   *)
(* last solution.                                                             *)
LeaveClosure(outcome, guess) ==
    solve' = [solve EXCEPT !.phase = "Verify", !.frontier = {}, !.outcome = outcome, !.guess = guess]
FallBack ==
    /\ runtime' = [runtime EXCEPT !.workspace = EvaluateIteration(ir, @, runtime.solution)]
    /\ solve' = [Idle EXCEPT !.phase = "Generic", !.iterations = solve.iterations, !.guess = runtime.solution]

(* Mutant: the rounds are not counted.                                        *)
NextRoundUncounted == solve.rounds

NextRound == solve.rounds + 1

(* One round of run_seeded_evaluated_with_limit: all the predictions of the   *)
(* frontier are made before the first of them is written.                     *)
ClosureRound ==
    /\ solve.phase = "Round" /\ solve.rounds < MaxRounds
    /\ LET predicted == [u \in DOMAIN solve.guess |->
                           LET d == {d \in solve.frontier : plan.drivers[d].output = u}
                           IN  IF d = {} THEN solve.guess[u] ELSE Prediction(CHOOSE x \in d : TRUE)]
           changed == {d \in solve.frontier :
                         predicted[plan.drivers[d].output] # solve.guess[plan.drivers[d].output]}
           begun == BeginNextFrontier(scratch)
           dependents == UNION {plan.dependents[d] : d \in changed}
           next == EvaluateChanged(runtime.workspace, predicted, solve.frontier)
       IN  IF BarriersChanged(runtime.workspace)
           THEN LeaveClosure("Barrier", solve.guess) /\ UNCHANGED <<runtime, scratch>>
           ELSE IF ~AllFinite(predicted) THEN FallBack /\ UNCHANGED scratch
           ELSE IF changed = {}
           THEN LeaveClosure("Settled", predicted) /\ scratch' = begun /\ UNCHANGED runtime
           ELSE /\ scratch' = Queue(begun, dependents)
                /\ runtime' = [runtime EXCEPT !.workspace = next]
                /\ IF Queued(begun, dependents) = {}
                   THEN LeaveClosure(IF BarriersChanged(next) THEN "Barrier" ELSE "Settled", predicted)
                   ELSE solve' = [solve EXCEPT !.rounds = NextRound, !.guess = predicted,
                                               !.frontier = Queued(begun, dependents)]
    /\ UNCHANGED <<constant, parameters, states, ticks>>

(* The budget of the closure is used up.                                      *)
ExceedBudget ==
    /\ solve.phase = "Round" /\ solve.rounds >= MaxRounds
    /\ FallBack
    /\ UNCHANGED <<constant, parameters, states, scratch, ticks>>

(* One iteration of solve_nonlinear_generic.                                  *)
GenericIteration ==
    /\ solve.phase = "Generic" /\ solve.iterations < MaxIterations
    /\ LET stability == Captured(ir.stability, runtime.workspace)
           advanced == UpdateMatrixDirty([runtime EXCEPT !.workspace = AdvanceLatches(ir, @)])
           captured == [CaptureRhs(scratch, advanced.workspace) EXCEPT !.stability = stability]
       IN  \E result \in Solutions(advanced) :
             IF result.candidate = Singular
             THEN /\ runtime' = result.runtime /\ solve' = Ended("Failed")
                  /\ scratch' = IF IsFactorized(result.runtime) THEN captured
                                ELSE [scratch EXCEPT !.stability = stability]
             ELSE LET workspace == EvaluateIteration(ir, result.runtime.workspace, result.candidate)
                      converged == SolutionsConverged(solve.guess, result.candidate)
                                      /\ StabilityMatches(stability, workspace)
                  IN  /\ scratch' = [captured EXCEPT !.rhsReferenceValid = TRUE]
                      /\ runtime' = IF converged
                                    THEN Finished([result.runtime EXCEPT !.workspace = workspace,
                                                                         !.solution = result.candidate])
                                    ELSE [result.runtime EXCEPT !.workspace = workspace]
                      /\ solve' = IF converged THEN Ended("Solved")
                                  ELSE [solve EXCEPT !.iterations = @ + 1, !.guess = result.candidate]
    /\ UNCHANGED <<constant, parameters, states, ticks>>

(* NonlinearDidNotConverge.                                                   *)
GiveUp ==
    /\ solve.phase = "Generic" /\ solve.iterations >= MaxIterations
    /\ solve' = Ended("Failed")
    /\ UNCHANGED <<constant, parameters, states, runtime, scratch, ticks>>
------------------------------------------------------------------------------
Init ==
    /\ \E i \in DOMAIN Circuits :
          /\ circuit = [island |-> Circuits[i].island, choices |-> Circuits[i].choices]
          /\ parameters = Circuits[i].start
    /\ compiled = Prepared(CompileIsland(CompileRegistry(PrimitiveRegistry), circuit.island))
    /\ states = [s \in DOMAIN ir.states |-> Zero]
    /\ runtime = NewRuntime
    /\ scratch = NewScratch
    /\ solve = Idle
    /\ ticks = 0

SolverStep ==
    VerifyDiscrete \/ PrepareClosure \/ ClosureRound \/ ExceedBudget \/ GenericIteration \/ GiveUp

Next == SetParameter \/ BeginTick \/ SolverStep \/ EndTick

Spec == Init /\ [][Next]_vars

(* The solver is a loop: it goes on for as long as it has a step to make.     *)
(* This is weak fairness of SolverStep, which is enabled in these phases and  *)
(* in no other; written out, TLC need not find that out by solving equations. *)
Running == solve.phase \in {"Prepare", "Round", "Verify", "Generic"}
FairSpec == Spec /\ ([]<>~Running \/ []<><<SolverStep>>_vars)
------------------------------------------------------------------------------
(* The laws of the circuit, from the definitions of its devices and not from  *)
(* anything that was compiled.  A terminal is a terminal of the definition.   *)
KindOf(c) == PrimitiveKinds[c.definition]
NodeAt(c, t) == c.nodes[CHOOSE i \in DOMAIN c.nodes :
                          DefinitionTerminalsForPartition(PrimitiveRegistry[c.definition], c.partition)[i] = t]
VoltageAt(node) == LET u == NodeUnknown(ir.nodes, node) IN IF u = 0 THEN Zero ELSE runtime.solution[u]
Across(c, t, u) == Minus(VoltageAt(NodeAt(c, t)), VoltageAt(NodeAt(c, u)))
Value(c, i) == parameters[<<c.device, i>>]
StoredState(c) == states[CHOOSE s \in DOMAIN ir.states : ir.states[s] = <<c.device, 1>>]
Reading(c, o) == runtime.workspace[(CHOOSE x \in ir.observers : x[1] = c.device /\ x[2] = o)[3]]
Ohm(g, v) == Times(g, v)

(* What a gate's inputs and a controlled element's control ask for.  Between  *)
(* its switching voltages a Schmitt buffer is what it will be remembered as:  *)
(* the mode of the last tick, unless the last solution was beyond the         *)
(* switching voltages that were set since.                                    *)
IsHigh(c, t) == AtMost(Value(c, 1), Across(c, t, 3))
GateIsHigh(c) ==
    CASE KindOf(c) = "Not" -> ~IsHigh(c, 4)
      [] KindOf(c) = "And" -> IsHigh(c, 4) /\ IsHigh(c, 5)
      [] KindOf(c) = "Nand" -> ~(IsHigh(c, 4) /\ IsHigh(c, 5))
      [] KindOf(c) = "Or" -> IsHigh(c, 4) \/ IsHigh(c, 5)
      [] KindOf(c) = "Nor" -> ~(IsHigh(c, 4) \/ IsHigh(c, 5))
NextMode(c) == NextState(CHOOSE s \in DOMAIN ir.states : ir.states[s] = <<c.device, 1>>)
SchmittIsHigh(c) ==
    LET half == Times(Value(c, 2), Half)
    IN  IF AtMost(Plus(Value(c, 1), half), Across(c, 4, 3)) THEN TRUE
        ELSE IF AtMost(Across(c, 4, 3), Minus(Value(c, 1), half)) THEN FALSE
        ELSE NextMode(c) = One
Dimmed(c) ==
    LET from == Minus(Value(c, 1), Times(Value(c, 2), Half))
        way == Over(Minus(Across(c, 3, 2), from), Value(c, 2))
    IN  IF AtMost(way, Zero) THEN Value(c, 3) ELSE IF AtMost(One, way) THEN Value(c, 4)
        ELSE Plus(Value(c, 3), Times(way, Minus(Value(c, 4), Value(c, 3))))

(* An output between two rails.                                               *)
Complementary(c, high, on, off) ==
    {<<2, 1, Ohm(IF high THEN on ELSE off, Across(c, 2, 1))>>, <<1, 3, Ohm(IF high THEN off ELSE on, Across(c, 1, 3))>>}

(* The currents through a device, each from a terminal to a terminal; that of *)
(* a voltage source is whatever its observer reads.                           *)
Branches(c) ==
    LET kind == KindOf(c)
        v == Across(c, 1, 2)
        One2(current) == {<<1, 2, current>>}
    IN  CASE kind = "Resistance" -> One2(Over(v, Value(c, 1)))
          [] kind = "Conductance" -> One2(Ohm(Value(c, 1), v))
          [] kind = "CurrentSource" -> One2(Value(c, 1))
          [] kind = "VoltageSource" -> One2(Reading(c, 2))
          [] kind = "VoltageControlledVoltageSource" -> One2(Reading(c, 3))
          [] kind = "VoltageControlledCurrentSource" -> One2(Ohm(Value(c, 1), Across(c, 3, 4)))
          [] kind = "Capacitor" ->
                One2(Times(Over(Value(c, 1), TimestepLength), Minus(v, StoredState(c))))
          [] kind = "Inductor" -> One2(Plus(StoredState(c), Times(Over(TimestepLength, Value(c, 1)), v)))
          [] kind = "Diode" -> One2(Ohm(IF Below(Zero, v) THEN Value(c, 1) ELSE Value(c, 2), v))
          [] kind = "VoltageControlledSwitch" ->
                One2(Ohm(IF AtMost(Value(c, 1), Across(c, 3, 4)) THEN Value(c, 2) ELSE Value(c, 3), v))
          [] kind = "VoltageControlledConductance" -> One2(Ohm(Dimmed(c), v))
          [] kind = "SchmittBuffer" -> Complementary(c, SchmittIsHigh(c), Value(c, 3), Value(c, 4))
          [] kind = "TickDelay" -> IF c.partition = 1 THEN {} ELSE {<<3, 4, Reading(c, 3)>>}
          [] kind \in Gates -> Complementary(c, GateIsHigh(c), Value(c, 2), Value(c, 3))

SourceLaw(c) ==
    CASE KindOf(c) = "VoltageSource" -> Across(c, 1, 2) = Value(c, 1)
      [] KindOf(c) = "VoltageControlledVoltageSource" -> Across(c, 1, 2) = Times(Value(c, 1), Across(c, 3, 4))
      [] KindOf(c) = "TickDelay" -> c.partition = 2 => Across(c, 3, 4) = StoredState(c)
      [] OTHER -> TRUE

Devices == circuit.island

(* The currents out of a node, each with the device and the branch it is of.  *)
Leaving(node) ==
    UNION {UNION {{<<i, b[1], b[2], IF NodeAt(Devices[i], b[1]) = node THEN b[3] ELSE Negated(b[3])>> :
                     side \in {t \in {b[1], b[2]} : NodeAt(Devices[i], t) = node
                                                   /\ NodeAt(Devices[i], b[1]) # NodeAt(Devices[i], b[2])}} :
                   b \in Branches(Devices[i])} : i \in DOMAIN Devices}

------------------------------------------------------------------------------
(* The state has the shape the engine gives it.                               *)
TypeOK ==
    /\ ticks \in 0..MaxTicks
    /\ Len(runtime.workspace) = Len(ir.slots)
    /\ AllFinite(runtime.workspace) /\ AllFinite(runtime.solution) /\ AllFinite(states)
    /\ runtime.needsSolve \/ (Sleepable /\ runtime.solutionValid)
    /\ IsFactorized(runtime) \/ runtime.matrixDirty
    /\ scratch.generation \in 0..GenerationModulus - 1
    /\ \A d \in DOMAIN scratch.queued : scratch.queued[d] \in 0..GenerationModulus - 1
    /\ solve.phase \in {"Idle", "Prepare", "Round", "Verify", "Generic", "Solved", "Failed"}

(* A tick that ends with a solution, one that slept through included, has the *)
(* solution of the circuit as it now is: at every node the currents out of    *)
(* it, which the laws of the devices give for these voltages, these parameters*)
(* and these states, add up to nothing, and every source has its voltage.     *)
(* Whatever was not loaded, not evaluated, not factorized or not verified     *)
(* would show here.                                                           *)
SolutionObeysTheLaws ==
    solve.phase = "Solved" =>
        /\ runtime.solutionValid
        /\ \A i \in DOMAIN Devices : SourceLaw(Devices[i])
        /\ \A n \in Range(ir.nodes) \ {ir.nodes[1]} :
              Total(Leaving(n), LAMBDA x : x[4]) = Zero

(* What the observers show after such a tick is that solution: the voltage    *)
(* between their terminals, the current the law of the device gives.          *)
ObserversShowTheSolution ==
    solve.phase = "Solved" =>
        \A i \in DOMAIN Devices : \A x \in ir.observers :
            LET c == Devices[i]
                o == ObserversOf(KindOf(c))[x[2]]
            IN  x[1] = c.device /\ o.partition = c.partition =>
                  IF o.quantity = "Voltage" THEN Reading(c, x[2]) = Across(c, o.source[2], o.source[3])
                  ELSE \E b \in Branches(c) : b = <<o.source[2], o.source[3], Reading(c, x[2])>>

(* The closure has settled only if it is closed: no driver of the plan, in    *)
(* this round's frontier or not, would put out anything else than what is     *)
(* predicted for it.  A driver that is left out of a round because of a mark  *)
(* of an older generation, or a dependency the plan does not know of, would   *)
(* leave one behind.                                                          *)
SettledIsClosed ==
    solve.phase = "Verify" /\ solve.outcome = "Settled" =>
        \A d \in DOMAIN plan.drivers : Prediction(d) = solve.guess[plan.drivers[d].output]

(* Between the rounds the workspace is what a whole evaluation of the         *)
(* predictions would make it, though only what changed was computed again.    *)
IncrementalIsExact ==
    solve.phase \in {"Prepare", "Round", "Verify"} /\ solve.guess # <<>> =>
        runtime.workspace = EvaluateIteration(ir, runtime.workspace, solve.guess)

(* The solver comes to an end: a circuit that never settles uses up the       *)
(* rounds of its closures and the iterations of its tick, and fails.          *)
SolverEnds == Running ~> solve.phase \in {"Solved", "Failed"}
==============================================================================
