------------------------------ MODULE WorldTick ------------------------------
(***************************************************************************)
(* A tick of a native world: the runtimes are synchronised with the        *)
(* topology, every island reads its states and is solved, and if all of    *)
(* them were solved or failed in a way that concerns the island only, the  *)
(* states are committed in three passes and the subscribers told what      *)
(* changed (World in hynergy-engine src/lib.rs, IslandRuntime in           *)
(* src/runtime/island.rs, src/runtime/subscription.rs).                    *)
(*                                                                         *)
(* A device has partitions, a partition of a device is a component and     *)
(* belongs to an island; the components of a device share a parameter and  *)
(* a row of the state store.  How commands regroup components, and where   *)
(* rows are, is in DerivedTopology and DeviceArena.  A solution is known   *)
(* by what it was computed from.                                           *)
(***************************************************************************)
EXTENDS Integers, FiniteSets

CONSTANTS
    Devices,
    Partitions,     \* of each device
    Stateful,       \* components with a physical state
    Resetting,      \* of these, the ones whose failed transition is a literal
    Parameters,
    MaxIslands,     \* how many island slots a run may allocate
    MaxSubscriptions

Components == UNION {{d} \X Partitions[d] : d \in Devices}

\* What a parameter is before it is set; it cannot be set to that.
Unassigned == "unassigned"

ASSUME StatefulAssumption == Resetting \subseteq Stateful /\ Stateful \subseteq Components
ASSUME PartitionsAssumption == \A d \in Devices : IsFiniteSet(Partitions[d])
ASSUME ParametersAssumption == Unassigned \notin Parameters

VARIABLES
    islandOf,        \* the island of each component
    islandSlots,
    parameter,       \* of each device
    store,           \* the state row of each device
    invalidation,
    runtimes,
    subscriptions,
    nextId,          \* of the subscriptions
    received,        \* what the caller of the ticks was told last
    tick             \* the pass of the tick in progress and the islands it has left

vars == <<islandOf, islandSlots, parameter, store, invalidation, runtimes, subscriptions,
          nextId, received, tick>>

Zero == "zero"

Islands == {islandOf[c] : c \in DOMAIN islandOf}
Members(island) == {c \in DOMAIN islandOf : islandOf[c] = island}
Parts(island) == {c[1] : c \in Members(island)}
States(island) == Members(island) \cap Stateful

\* What a solved island makes of a state, and what a failed tick does.
Advanced(value) == IF value = "a" THEN "b" ELSE "a"
Failed(c, value) == IF c \in Resetting THEN "literal" ELSE value

Idle == [pass |-> "idle", todo |-> {}]

EmptyInvalidation == [topologyDirty |-> {}, numericalDirty |-> {}, retired |-> {}]

Init ==
    /\ islandOf = << >>
    /\ islandSlots = 0
    /\ parameter = << >>
    /\ store = << >>
    /\ invalidation = EmptyInvalidation
    /\ runtimes = << >>
    /\ subscriptions = << >>
    /\ nextId = 1
    /\ received = << >>
    /\ tick = Idle

-----------------------------------------------------------------------------
(* Commands between ticks.                                                 *)

\* Mutant: an island that is dirty already is marked once more.
InvalidateKeepingNumerical(touched) ==
    LET live == {islandOf'[c] : c \in DOMAIN islandOf'} IN
    invalidation' =
        [ topologyDirty |-> (invalidation.topologyDirty \ (touched \ live)) \cup (touched \cap live),
          numericalDirty |-> invalidation.numericalDirty \ (touched \ live),
          retired |-> invalidation.retired \cup (touched \ live) ]

\* Islands that lost all their components are retired, others that lost or
\* got one are dirty.
Invalidate(touched) ==
    LET live == {islandOf'[c] : c \in DOMAIN islandOf'}
        retired == touched \ live
        dirty == (touched \cap live) \ invalidation.retired
    IN  invalidation' =
            [ topologyDirty |-> (invalidation.topologyDirty \ retired) \cup dirty,
              numericalDirty |-> invalidation.numericalDirty \ (retired \cup dirty),
              retired |-> invalidation.retired \cup retired ]

AddDevice(d) ==
    /\ tick = Idle
    /\ d \notin DOMAIN parameter
    /\ islandSlots + Cardinality(Partitions[d]) <= MaxIslands
    /\ \E slot \in [Partitions[d] -> (islandSlots + 1)..(islandSlots + Cardinality(Partitions[d]))] :
        /\ \A p, q \in Partitions[d] : slot[p] = slot[q] => p = q
        /\ islandOf' = [c \in DOMAIN islandOf \cup ({d} \X Partitions[d]) |->
                            IF c[1] = d THEN slot[c[2]] ELSE islandOf[c]]
        /\ Invalidate({slot[p] : p \in Partitions[d]})
    /\ islandSlots' = islandSlots + Cardinality(Partitions[d])
    /\ parameter' = [e \in DOMAIN parameter \cup {d} |-> IF e = d THEN Unassigned ELSE parameter[e]]
    /\ store' = [e \in DOMAIN store \cup {d} |->
                    IF e = d THEN [values |-> [p \in Partitions[d] |-> Zero], initialized |-> FALSE]
                    ELSE store[e]]
    /\ UNCHANGED <<runtimes, subscriptions, nextId, received, tick>>

\* The subscriptions of a device go with it.
RemoveDevice(d) ==
    LET kept == {s \in DOMAIN subscriptions : subscriptions[s].component[1] # d} IN
    /\ tick = Idle
    /\ d \in DOMAIN parameter
    /\ islandOf' = [c \in {c \in DOMAIN islandOf : c[1] # d} |-> islandOf[c]]
    /\ Invalidate({islandOf[c] : c \in {d} \X Partitions[d]})
    /\ parameter' = [e \in DOMAIN parameter \ {d} |-> parameter[e]]
    /\ store' = [e \in DOMAIN store \ {d} |-> store[e]]
    /\ subscriptions' = [s \in kept |-> subscriptions[s]]
    /\ received' = [s \in kept |-> received[s]]
    /\ UNCHANGED <<islandSlots, runtimes, nextId, tick>>

\* A command that connects a component to another island, or disconnects it.
MoveComponent(c, island) ==
    /\ tick = Idle
    /\ c \in DOMAIN islandOf
    /\ island # islandOf[c]
    /\ island = islandSlots + 1 => Members(islandOf[c]) # {c}
    /\ islandOf' = [islandOf EXCEPT ![c] = island]
    /\ islandSlots' = IF island > islandSlots THEN island ELSE islandSlots
    /\ Invalidate({islandOf[c], island})
    /\ UNCHANGED <<parameter, store, runtimes, subscriptions, nextId, received, tick>>

SetDeviceParameter(d, value) ==
    /\ tick = Idle
    /\ d \in DOMAIN parameter
    /\ parameter' = [parameter EXCEPT ![d] = value]
    /\ invalidation' = [invalidation EXCEPT !.numericalDirty =
            @ \cup ({islandOf[c] : c \in {d} \X Partitions[d]} \ invalidation.topologyDirty)]
    /\ UNCHANGED <<islandOf, islandSlots, store, runtimes, subscriptions, nextId, received, tick>>

Subscribe(c) ==
    /\ tick = Idle
    /\ c \in DOMAIN islandOf
    /\ nextId <= MaxSubscriptions
    /\ subscriptions' = [s \in DOMAIN subscriptions \cup {nextId} |->
            IF s = nextId THEN [component |-> c, published |-> << >>] ELSE subscriptions[s]]
    /\ received' = [s \in DOMAIN received \cup {nextId} |->
            IF s = nextId THEN << >> ELSE received[s]]
    /\ nextId' = nextId + 1
    /\ UNCHANGED <<islandOf, islandSlots, parameter, store, invalidation, runtimes, tick>>

Unsubscribe(s) ==
    /\ tick = Idle
    /\ subscriptions' = [t \in DOMAIN subscriptions \ {s} |-> subscriptions[t]]
    /\ received' = [t \in DOMAIN received \ {s} |-> received[t]]
    /\ UNCHANGED <<islandOf, islandSlots, parameter, store, invalidation, runtimes, nextId, tick>>

-----------------------------------------------------------------------------
(* Synchronisation.                                                        *)

NewRuntime(island) ==
    [ status |-> "pending",            \* of the tick in progress, as are
      inputs |-> << >>,                \* the states it read
      outputs |-> << >>,               \* and the states it computed
      parameters |-> [d \in Parts(island) |-> Unassigned],   \* as loaded
      staticInputsDirty |-> TRUE,
      staticInitialized |-> FALSE,
      matrix |-> << >>,                \* the parameters it was factorised with
      matrixDirty |-> TRUE,
      solution |-> << >>,              \* empty when not valid
      observerOutputsDirty |-> FALSE,
      needsSolve |-> TRUE ]

\* An island without states is solved again only when something changed.
Sleepable(island) == States(island) = {}

Compiled(compiled) ==
    [i \in (DOMAIN runtimes \ invalidation.retired) \cup compiled |->
        IF i \in compiled THEN NewRuntime(i) ELSE runtimes[i]]

\* Mutant: a changed parameter does not wake a sleeping island.
BeginTickAsleep ==
    LET synchronized == Compiled(invalidation.topologyDirty) IN
    /\ tick = Idle
    /\ runtimes' = [i \in DOMAIN synchronized |->
            IF i \in invalidation.numericalDirty
            THEN [synchronized[i] EXCEPT !.staticInputsDirty = TRUE] ELSE synchronized[i]]
    /\ invalidation' = EmptyInvalidation
    /\ tick' = [pass |-> "prepare", todo |-> Islands]
    /\ UNCHANGED <<islandOf, islandSlots, parameter, store, subscriptions, nextId, received>>

BeginTick ==
    LET synchronized == Compiled(invalidation.topologyDirty) IN
    /\ tick = Idle
    /\ runtimes' = [i \in DOMAIN synchronized |->
            IF i \in invalidation.numericalDirty
            THEN [synchronized[i] EXCEPT !.staticInputsDirty = TRUE, !.needsSolve = TRUE]
            ELSE synchronized[i]]
    /\ invalidation' = EmptyInvalidation
    /\ tick' = [pass |-> "prepare", todo |-> Islands]
    /\ UNCHANGED <<islandOf, islandSlots, parameter, store, subscriptions, nextId, received>>

SyncFails ==
    /\ tick = Idle
    /\ \E compiled \in SUBSET invalidation.topologyDirty :
        compiled # invalidation.topologyDirty /\ runtimes' = Compiled(compiled)
    /\ UNCHANGED <<islandOf, islandSlots, parameter, store, invalidation, subscriptions,
                   nextId, received, tick>>

-----------------------------------------------------------------------------
(* The passes over the islands.                                            *)

\* A pass visits each island once; the next one starts when it is through.
Visit(pass, i) ==
    /\ tick.pass = pass /\ i \in tick.todo
    /\ tick' = [tick EXCEPT !.todo = @ \ {i}]

EndPass(pass, next) ==
    /\ tick = [pass |-> pass, todo |-> {}]
    /\ tick' = [pass |-> next, todo |-> Islands]
    /\ UNCHANGED <<islandOf, islandSlots, parameter, store, invalidation, runtimes,
                   subscriptions, nextId, received>>

ReadLogical(c) == IF store[c[1]].initialized THEN store[c[1]].values[c[2]] ELSE "initial"

\* begin_tick and prepare_tick_state_inputs.
PrepareIsland(i) ==
    /\ Visit("prepare", i)
    /\ runtimes' = [runtimes EXCEPT ![i].status = "pending",
                                    ![i].inputs = [c \in States(i) |-> ReadLogical(c)]]
    /\ UNCHANGED <<islandOf, islandSlots, parameter, store, invalidation, subscriptions,
                   nextId, received>>

Sleeps(i) == Sleepable(i) /\ ~runtimes[i].needsSolve

Missing(i) == {d \in Parts(i) : parameter[d] = Unassigned}

\* prepare_static with every parameter there; a changed one dirties the matrix.
Static(i) ==
    LET r == [runtimes[i] EXCEPT !.solution = << >>]
        loaded == IF r.staticInputsDirty THEN [d \in Parts(i) |-> parameter[d]] ELSE r.parameters
    IN  [r EXCEPT !.parameters = loaded,
                  !.staticInputsDirty = FALSE,
                  !.staticInitialized = TRUE,
                  !.matrixDirty = @ \/ ~r.staticInitialized \/ loaded # r.parameters]

\* load_parameters stops at a missing one; those before it are loaded.
StaticFails(i) ==
    {[runtimes[i] EXCEPT !.solution = << >>,
                         !.parameters = [d \in Parts(i) |-> IF d \in loaded THEN parameter[d] ELSE @[d]]]
        : loaded \in SUBSET (Parts(i) \ Missing(i))}

StaticIsMissing(i) == runtimes[i].staticInputsDirty /\ Missing(i) # {}

Factorised(r) ==
    IF r.matrixDirty THEN [r EXCEPT !.matrix = r.parameters, !.matrixDirty = FALSE] ELSE r

\* A state output may turn out not to be finite.
Outcomes(i) ==
    {[c \in States(i) |-> IF c \in bad THEN "nonFinite" ELSE Advanced(runtimes[i].inputs[c])] :
        bad \in SUBSET States(i)}

Solved(i, outputs) ==
    LET r == Factorised(Static(i)) IN
    [r EXCEPT !.solution = <<[parameters |-> r.matrix, inputs |-> r.inputs]>>,
              !.outputs = outputs,
              !.observerOutputsDirty = TRUE,
              !.needsSolve = @ /\ ~Sleepable(i),
              !.status = "available"]

MarkUnavailableNotStatus(r) == [r EXCEPT !.observerOutputsDirty = TRUE]   \* mutant

MarkUnavailable(r) == [r EXCEPT !.status = "unavailable", !.observerOutputsDirty = TRUE]

\* Where a solution can fail: at a missing parameter, at the factorisation,
\* after it.
Unsolved(i) ==
    IF StaticIsMissing(i) THEN StaticFails(i) ELSE {Static(i), Factorised(Static(i))}

SolveIsland(i) ==
    /\ Visit("solve", i)
    /\ \/ /\ Sleeps(i)
          /\ runtimes' = [runtimes EXCEPT ![i].status = "available"]
       \/ /\ ~Sleeps(i) /\ ~StaticIsMissing(i)
          /\ \E outputs \in Outcomes(i) : runtimes' = [runtimes EXCEPT ![i] = Solved(i, outputs)]
       \/ /\ ~Sleeps(i)
          /\ \E r \in Unsolved(i) : runtimes' = [runtimes EXCEPT ![i] = MarkUnavailable(r)]
    /\ UNCHANGED <<islandOf, islandSlots, parameter, store, invalidation, subscriptions,
                   nextId, received>>

\* What no later tick reads is forgotten when a tick ends.
TickEnded(rs) ==
    [i \in DOMAIN rs |-> [rs[i] EXCEPT !.status = "pending", !.inputs = << >>, !.outputs = << >>]]

\* An error that does not concern the island only ends the tick on the spot.
TickFails(i) ==
    /\ tick.pass = "solve" /\ i \in tick.todo
    /\ ~Sleeps(i) /\ ~StaticIsMissing(i)
    /\ \E r \in Unsolved(i) : runtimes' = TickEnded([runtimes EXCEPT ![i] = r])
    /\ tick' = Idle
    /\ UNCHANGED <<islandOf, islandSlots, parameter, store, invalidation, subscriptions,
                   nextId, received>>

\* The three passes of commit_runtime_state_outputs.
ValidateIsland(i) ==
    /\ Visit("validate", i)
    /\ runtimes' = IF /\ runtimes[i].status = "available"
                      /\ \E c \in States(i) : runtimes[i].outputs[c] = "nonFinite"
                   THEN [runtimes EXCEPT ![i] = MarkUnavailable(@)] ELSE runtimes
    /\ UNCHANGED <<islandOf, islandSlots, parameter, store, invalidation, subscriptions,
                   nextId, received>>

\* Mutant: every state is preserved by a failed tick.
OutputOrPreserve(c) ==
    LET r == runtimes[islandOf[c]] IN
    IF r.status = "available" THEN r.outputs[c] ELSE ReadLogical(c)

Output(c) ==
    LET r == runtimes[islandOf[c]] IN
    IF r.status = "available" THEN r.outputs[c] ELSE Failed(c, ReadLogical(c))

\* Mutant: the rows are marked as they are written.
ScatterAndFinalizeIsland(i) ==
    /\ Visit("scatter", i)
    /\ store' = [d \in DOMAIN store |->
            [ values |-> [p \in Partitions[d] |->
                IF <<d, p>> \in States(i) THEN Output(<<d, p>>) ELSE store[d].values[p]],
              initialized |-> store[d].initialized \/ d \in {c[1] : c \in States(i)} ]]
    /\ UNCHANGED <<islandOf, islandSlots, parameter, invalidation, runtimes, subscriptions,
                   nextId, received>>

\* write_prevalidated and mark_initialized_prevalidated, for the states that
\* an island has in the row of a device.
WriteStates(row, d, i) ==
    [row EXCEPT !.values = [p \in Partitions[d] |->
        IF <<d, p>> \in States(i) THEN Output(<<d, p>>) ELSE @[p]]]
MarkInitialized(row, d, i) ==
    [row EXCEPT !.initialized = @ \/ d \in {c[1] : c \in States(i)}]

ScatterIsland(i) ==
    /\ Visit("scatter", i)
    /\ store' = [d \in DOMAIN store |-> WriteStates(store[d], d, i)]
    /\ UNCHANGED <<islandOf, islandSlots, parameter, invalidation, runtimes, subscriptions,
                   nextId, received>>

FinalizeIsland(i) ==
    /\ Visit("finalize", i)
    /\ store' = [d \in DOMAIN store |-> MarkInitialized(store[d], d, i)]
    /\ UNCHANGED <<islandOf, islandSlots, parameter, invalidation, runtimes, subscriptions,
                   nextId, received>>

\* Mutant: only a change of status is published.
ObservedStatus(s) ==
    LET r == runtimes[islandOf[subscriptions[s].component]]
        published == subscriptions[s].published
    IN  IF r.status # "available" THEN <<"unavailable">>
        ELSE IF published # << >> /\ published[1] = "available" THEN published
        ELSE <<"available", r.solution[1]>>

\* collect_subscription_updates: what was published is not published again.
Observed(s) ==
    LET r == runtimes[islandOf[subscriptions[s].component]]
        published == subscriptions[s].published
    IN  IF r.status # "available" THEN <<"unavailable">>
        ELSE IF published # << >> /\ published[1] = "available" /\ ~r.observerOutputsDirty
        THEN published
        ELSE <<"available", r.solution[1]>>

CollectSubscriptionUpdates ==
    LET updates == {s \in DOMAIN subscriptions : Observed(s) # subscriptions[s].published} IN
    /\ tick.pass = "collect"
    /\ subscriptions' = [s \in DOMAIN subscriptions |->
                            [subscriptions[s] EXCEPT !.published = Observed(s)]]
    /\ received' = [s \in DOMAIN received |-> IF s \in updates THEN Observed(s) ELSE received[s]]
    /\ runtimes' = TickEnded(
            [i \in DOMAIN runtimes |-> [runtimes[i] EXCEPT !.observerOutputsDirty = FALSE]])
    /\ tick' = Idle
    /\ UNCHANGED <<islandOf, islandSlots, parameter, store, invalidation, nextId>>

Pass(i) ==
    PrepareIsland(i) \/ SolveIsland(i) \/ ValidateIsland(i) \/ ScatterIsland(i) \/ FinalizeIsland(i)

EndOfPass ==
    \/ EndPass("prepare", "solve") \/ EndPass("solve", "validate")
    \/ EndPass("validate", "scatter") \/ EndPass("scatter", "finalize")
    \/ EndPass("finalize", "collect")

Next ==
    \/ \E d \in Devices : AddDevice(d) \/ RemoveDevice(d)
    \/ \E d \in Devices, value \in Parameters : SetDeviceParameter(d, value)
    \/ \E c \in Components, i \in Islands \cup ({islandSlots + 1} \cap (1..MaxIslands)) :
            MoveComponent(c, i)
    \/ \E c \in Components : Subscribe(c)
    \/ \E s \in DOMAIN subscriptions : Unsubscribe(s)
    \/ BeginTick \/ SyncFails
    \/ \E i \in Islands : Pass(i) \/ TickFails(i)
    \/ EndOfPass
    \/ CollectSubscriptionUpdates

Spec == Init /\ [][Next]_vars

-----------------------------------------------------------------------------
(* Properties.                                                             *)

Values == {"initial", "a", "b", "literal"}

TypeOK ==
    /\ DOMAIN islandOf = {c \in Components : c[1] \in DOMAIN parameter}
    /\ Islands \subseteq 1..islandSlots
    /\ parameter \in [DOMAIN parameter -> Parameters \cup {Unassigned}]
    /\ DOMAIN store = DOMAIN parameter
    /\ \A d \in DOMAIN store :
        store[d] \in [values : [Partitions[d] -> Values \cup {Zero}], initialized : BOOLEAN]
    /\ invalidation.topologyDirty \subseteq Islands
    /\ invalidation.numericalDirty \subseteq Islands \ invalidation.topologyDirty
    /\ DOMAIN received = DOMAIN subscriptions
    /\ tick.todo \subseteq Islands

\* A row is marked initialized only when every state in it was written, though
\* islands that share the device write and finalize it one after another.
InitializedRowsAreWhole ==
    \A d \in DOMAIN store : store[d].initialized =>
        \A p \in Partitions[d] : <<d, p>> \in Stateful => store[d].values[p] # Zero

\* The panics of a tick are out of reach: the commit finds every live island
\* decided, and an available one has a solution to observe (unreachable! and
\* expect in validate, scatter and collect_subscription_updates).
TickNeverPanics ==
    tick.pass \in {"validate", "scatter", "finalize", "collect"} =>
        \A i \in Islands :
            /\ runtimes[i].status \in {"available", "unavailable"}
            /\ runtimes[i].status = "available" => runtimes[i].solution # << >>

\* An island that sleeps would get the same solution again: it was computed
\* from the parameters the island has now (solve_prepared_tick).
SleepersAreCurrent ==
    \A i \in Islands \ (invalidation.topologyDirty \cup invalidation.numericalDirty) :
        Sleeps(i) => /\ runtimes[i].solution # << >>
                     /\ runtimes[i].solution[1].parameters = [d \in Parts(i) |-> parameter[d]]

\* The passes that write states and tell subscribers.
Committing == tick.pass \in {"scatter", "finalize", "collect"}

\* The states of the components: until the collection the tick has not
\* happened, and the states before it are what the runtimes read.
LogicalStates ==
    [c \in DOMAIN islandOf \cap Stateful |->
        IF Committing THEN runtimes[islandOf[c]].inputs[c] ELSE ReadLogical(c)]

Seen ==
    [s \in DOMAIN subscriptions |->
        [component |-> subscriptions[s].component, shown |-> received[s]]]

\* To its users a tick is one step: states advance once in a tick that
\* succeeds and never in one that fails, and subscribers told only of what
\* changed know what is current.  A tick that begins to commit ends with the
\* collection, before any other call.
Contract == INSTANCE TickContract WITH
    committing <- Committing, state <- LogicalStates, seen <- Seen

TicksAreAtomic == Contract!Spec

\* The tick's state is well formed, and no row claims to be initialized before
\* every island that writes to it has (finalize_island).
RowsAreWhole ==
    /\ TypeOK
    /\ InitializedRowsAreWhole
=============================================================================
