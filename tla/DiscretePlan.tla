----------------------------- MODULE DiscretePlan -----------------------------
(* hynergy-engine/src/compile/discrete.rs: which gates of an island may be    *)
(* closed without solving its equations.  A complementary driver qualifies    *)
(* when the row of its output holds the pull-up and the pull-down and nothing *)
(* else: then its output follows from its rails.  What the drivers do not     *)
(* explain is a barrier; if it changed, the closure proves nothing.           *)
EXTENDS IslandIr

(* The terms of a conductance between two unknowns, and what drivers stamp.   *)
Footprint(a, b, source) ==
    SelectSeq(StampConductance(a, b, source), LAMBDA t : t.row # 0 /\ t.column # 0)
DriverFootprint(d) == Footprint(d.high, d.output, d.pullUp) \o Footprint(d.output, d.low, d.pullDown)

Footprints(drivers) ==
    CanonicalMatrix(Concatenated([i \in DOMAIN drivers |-> DriverFootprint(drivers[i])]))

RowTerms(terms, row) == {t \in terms : t.row = row}
SourceTerms(terms, source) == {t \in terms : t.source = source}
RhsHasDestination(rhs, row) == RowTerms(rhs, row) # {}

Qualifies(c, d) ==
    /\ d.output # 0
    /\ d.output \notin {d.high, d.low}
    /\ Cardinality({i \in DOMAIN c.candidates : c.candidates[i].output = d.output}) = 1
    /\ ~RhsHasDestination(c.rhs, d.output)
    /\ RowTerms(c.matrix, d.output) = RowTerms(Footprints(<<d>>), d.output)

(* The slots reached backwards through the iteration's operations from roots, *)
(* not looking behind the slots in stop.                                      *)
ReachedBack(c, roots, stop) ==
    Accumulate(LAMBDA reached, i :
               IF i \in reached /\ i \notin stop /\ c.rates[i] = Iteration
               THEN reached \cup Operands(c.slots[i]) ELSE reached,
             roots, Reverse([i \in DOMAIN c.slots |-> i]))

SolutionSlots(c) == Range(c.solution)

(* compile_driver_dependencies: whose prediction depends on the output of a   *)
(* driver, through a rail or through the values of its pull-ups.              *)
DependsOn(c, drivers, dependent, producer) ==
    LET outputs == {drivers[i].output : i \in DOMAIN drivers} \cap DOMAIN c.solution
        stop == {c.solution[u] : u \in outputs}
        d == drivers[dependent]
        output == drivers[producer].output
    IN  \/ output \in {d.high, d.low}
        \/ output \in outputs /\ c.solution[output] \in ReachedBack(c, {d.pullUp, d.pullDown}, stop)

(* compile_initial_frontier_dependencies: the drivers to look at when a       *)
(* stability value changed, and those that read the solution past all of      *)
(* them, which are always looked at.                                          *)
StabilityReached(c, d) == ReachedBack(c, {d.pullUp, d.pullDown}, c.stability \cup SolutionSlots(c))
IsConservative(c, d) == (StabilityReached(c, d) \cap SolutionSlots(c)) \ c.stability # {}

(* compile_discrete_plan; without latches and with at least one driver.       *)
HasPlan(c) == c.latches = <<>> /\ \E i \in DOMAIN c.candidates : Qualifies(c, c.candidates[i])

CompileDiscretePlan(c) ==
    LET drivers == SelectSeq(c.candidates, LAMBDA d : Qualifies(c, d))
    IN  [drivers |-> drivers,
         outputInput |-> [i \in DOMAIN drivers |->
            IF drivers[i].output \in DOMAIN c.solution THEN c.solution[drivers[i].output] ELSE 0],
         dependents |-> [p \in DOMAIN drivers |-> {d \in DOMAIN drivers : DependsOn(c, drivers, d, p)}],
         stabilityDependents |-> [s \in c.stability |->
            {d \in DOMAIN drivers : s \in StabilityReached(c, drivers[d])}],
         conservativeSeeds |-> {d \in DOMAIN drivers : IsConservative(c, drivers[d])},
         matrixBarriers |-> {s \in c.matrixSources : SourceTerms(c.matrix, s) # SourceTerms(Footprints(drivers), s)},
         rhsBarriers |-> {t.source : t \in c.rhs}]

NoPlan == [drivers |-> <<>>]

(* An island ready to run: what CompileIsland and the plan derive is constant *)
(* for the lifetime of the island.                                            *)
Prepared(c) ==
    [ir |-> c, plan |-> IF HasPlan(c) THEN CompileDiscretePlan(c) ELSE NoPlan, planned |-> HasPlan(c)]
==============================================================================
