# A TLA+ verification project for Hynergy

Hynergy simulates electrical networks for a game server.  A Java API
(`electrical/src/main/java`) hands out wires, devices and observation
subscriptions, collects commands in a buffer and drives a native engine in Rust
(`electrical/native`), which derives the connected parts of the network, compiles
each of them to a system of equations and solves it once per tick.  Plugins
describe devices of their own, which are built from registered ones.  The game
plug-in (`core`) turns blocks and their ports into wires.

This directory holds models of the parts that keep state and of the algorithms
between them, the TLC runs that check them, and TLAPS proofs.  `PROJECT.json`
lists the runs, the mutants that show each property can fail, the source lines of
every definition, the hazards and the theorems.

## 1. Inventory

| Component | State | Operations | What makes it correct |
|---|---|---|---|
| World ID allocation (`WorldIdAllocator.java`) | state and generation of each ID, a free pool, the pending IDs of the current batch, two high-water marks | reserve, remove, two cancellations, prepare and commit of a batch | a handle (ID and generation) never names two objects; cancellation always works; the native world never sees an ID it does not expect |
| Electrical world (`ElectricalWorld.java`, `WorldCommandBuffer.java`, protocol `world.rs`) | two allocators, the command buffer, poisoned and open flags | a call per command, applyCommands, tick, subscribe, unsubscribe, close | Java and native agree between batches; what Java encodes is what the native side executes; a world that may disagree is poisoned for good; a tick is not repeated by its retry |
| Network model (`hynergy-model/src/network`) | wires and their connections, devices and what their terminals are attached to | add, remove, connect, disconnect, attach, detach, set a parameter | connections are symmetric, every check is made before the first change |
| Device arena (`device_arena.rs`) | chunks of rows by definition, a directory, insertion hints | insert, remove (swap-remove of rows and of chunks), set a parameter | the directory is the inverse of the rows; hints name chunks with room |
| Derived topology (`hynergy-engine/src/topology`) | nets, islands, the island of each component, the invalidation | a repair for every command | nets and islands are the connected groups of the network; whatever changed is invalidated; IDs keep their meaning |
| Physical state store (`state.rs`) | a row of states for each device, initialized bits | the moves of the arena, read, write, mark initialized | a state follows its device and is read only when it was written |
| Runtimes (`runtime/island.rs`, `runtime/bindings.rs`) | bindings to rows, loaded parameters, matrix, solution, flags | compile, rebind, load, solve, commit | what is cached is current when it is used |
| World tick (`hynergy-engine/src/lib.rs`) | the runtimes, the subscriptions | synchronise, prepare, solve, commit in three passes, collect | a tick changes all states or none; subscribers miss nothing |
| Discrete closure, nonlinear solution (`runtime/discrete.rs`, `runtime/island.rs`) | workspace, factorization, latches, frontier and its generation | the linear solution, rounds until stable or out of budget, verification, the generic iteration | an accepted solution obeys the laws of every device; the solver ends |
| Definition building, decoding and registry (`DeviceDefinitionBuilder.java`, protocol `definition.rs`, `hynergy-model/src/device`) | the encoder's buffer and its counts, the builder, the registry | a call per part of a definition, reset, decode, build, register | what is registered is what was described; an accepted value is valid wherever it ends up |
| Compilation (`hynergy-engine/src/compile`, `hynergy-ir`) | none that outlives a call | primitives and composites to templates, islands to programs, the plan of the closure | a composite is the circuit of its elements |
| Matrix solver (`hynergy-mna`) | a pattern, a factorization | factorize, solve | a solution solves the equations |
| Definition publication (`hynergy-ffi/src/lib.rs`) | a published snapshot behind a lock, a registration mutex | snapshot, register | no registration is lost, IDs agree between snapshots, a panic leaves no thread waiting |
| Observation publication (`ElectricalSystem.java`, `ObservationSubscriptionRegistry.java`) | subscriptions, a record buffer, ticking and poisoned flags | tick, subscribe, unsubscribe, callbacks, close | every record finds its listener, though listeners change the system |
| Runtime and device type lifecycle (`ElectricalRuntime.java`, `DeviceType.java`) | registered and registering types, number of systems, close requested | register, create and release a system, request close, close | one engine at a time; a type never names a definition of a closed engine; a requested close happens |
| Ports and wires in the game world (`core`) | port definitions, a wire ID saved with each block | discover, connect, load, unload, remove | neighbours are connected whatever the order in which they load |
| Foreign function interface | layouts, status codes | a downcall per operation | layouts agree |

How they interact.  A user call checks its handles against the allocators and
appends a command; nothing native happens until `applyCommands`, which a tick
and the subscription calls do first.  The native world decodes and applies one command after
another: each is a call to `World` in `lib.rs`, which changes the network, then
the sidecars with the same rows (states, topology), then repairs nets and
islands and marks the islands that are stale.  A tick first brings the runtimes
in line with those marks, compiling islands where it must, then lets every island
find its solution.  Solved islands are committed together, and what the
subscribed observers show now is returned to Java as records, for which listeners
are called; listeners may call the system again, but not tick it.  Definitions
reach the engine on another way: a device type's callback describes them
to a builder, whose buffer the native side decodes, builds and publishes to all worlds.

What is hard.  The engine is single-threaded per world, so there are no data
races to find there; what can go wrong is in long sequences of legal calls (IDs,
rows and chunks that are reused; islands that merge and split between ticks), in
caches that must not be stale (compiled islands, bindings, parameters,
matrices, latches, predictions, sleeping islands, published observations), and in steps that fail in the
middle (a command that cannot be appended, a batch that is rejected, a
compilation, a solution, a state that is not finite, a registration that panics).  Threads meet at the definition
store, at the one engine flag of the process and at device types shared by runtimes; callbacks re-enter
the system during publication and the runtime during registration.  The full
list, with the line where each hazard bites and the properties that cover it, is
"hazards" in `PROJECT.json`.

## 2. Modules

    ObjectHandles     <-implements-  ElectricalWorld (extends WorldIdAllocator)
    DeviceStore       <-implements-  DeviceArena
    TickContract      <-implements-  WorldTick
    DefinitionCatalog <-implements-  DefinitionPublication
    Network  <-extends-  DerivedTopology, CommandProtocol
    EagerFold <- Rationals <- ParameterConstraints <- DeviceDefinitions <- DefinitionTemplates
      <- DefinitionCompiler <- IslandIr <- DefinitionBuilding
                                        <- DiscretePlan <- IslandRuntime
    ObservationPublication, RuntimeLifecycle

Each module header says which files it models.  `MC*` modules give constants and
symmetry to TLC; `*Proofs` modules hold the theorems.

Objects and commands.

* **WorldIdAllocator** is a library of operators on an allocator value, as the
  allocator is a plain object of its world: `Reservations`, `Remove`,
  `CancelPendingAdd`, `CancelPendingRemove`, `CommitBatch`, and the guards of
  the exceptions they throw.  The free pool is a set, so nothing depends on its order.
  Generations are counted modulo `Generations`, 2^32 in the code.
* **ElectricalWorld** has one action for each call (`AddObject`,
  `RemoveObject`, ...), a second for the call that cannot append its command and takes back
  what it did (`AddObjectFails`, `RemoveObjectFails`), and the steps of a batch:
  `BeginApply`, `ApplyCommand` for each command, `RejectCommand`,
  `CommitApply`.  Wires and devices are two `Kinds` with the same protocol.  `native` is what the
  native slot tables know: how long they are and which slots are occupied.  A command may
  also be rejected for a reason other than its IDs at any point.
  `handles` are the handles users hold, for ever.
* **ObjectHandles** is the promise: a created handle is new, it is usable until it is
  destroyed, and never again.
* **CommandProtocol** is the same boundary in bytes: the growing and reused
  memory of `WorldCommandBuffer`, the header, tags, lengths and fields, and the steps in which the native side
  reads the header, reads a command, checks it against the network (`Accepts`) and applies
  it.  Buffers of another client of the library are truncated, mislabelled or carry commands the
  world refuses.

Networks.

* **Network** is a library on network values: the checks and the effect of every
  command, and connectedness (`WireGroup`, `ComponentGroup`) defined on the network alone.
* **DerivedTopology** models the repair of nets and islands command by command
  (`TopologyConnectWires`, `RepairNet`, `RepairIsland`, `MergeIslands`, ...), the invalidation
  sets, and `SyncIslandRuntimes`, where `runtimes` records what each island was compiled
  from.  Where the order of a vector breaks a tie, both outcomes are allowed.
  `netSlots` and `islandSlots` count the slots of the two stores, of which dead ones are
  not used again.  `FromNetwork` is the derivation of a whole topology from a network, which
  must give the same nets and islands as the repairs did.
* **DeviceArena** models rows: chunks of `ChunkCapacity` rows, the directory,
  the hints, the two sidecars, and the bindings of runtimes.  `MergeIslands` and `SplitIsland` stand for
  what the topology does to the row's island; `Tick` for a synchronisation and a whole tick.
* **DeviceStore** is what a user sees of storage: a map from devices to a parameter
  and a state.

Ticks.

* **WorldTick** takes a tick apart: `BeginTick` synchronises, then five passes
  visit the islands one by one (`PrepareIsland`, `SolveIsland`, `ValidateIsland`,
  `ScatterIsland`, `FinalizeIsland`), and `CollectSubscriptionUpdates` ends it.
  `TickFails` is an error that is not localised, `SyncFails` one of a
  compilation.  A solution is the pair of the parameters in the matrix and the
  states it was computed from, which is what a stale cache would get wrong.
  A device has partitions, which may be in different islands and share a row.
* **TickContract** is what ticks promise: one atomic step of all islands, or nothing.
  `committing` makes the step visible also where nothing changes: a tick that
  begins to commit must end with a step that tells subscribers what is current.
* **IslandRuntime** opens the box that WorldTick leaves closed: how one island is solved.
  `Init` compiles the components of one of `Circuits`; `compiled` holds the program and the plan, which do not change.
  `BeginTick` loads parameters and states, runs the static and the tick part of the program, and
  solves at once (`SolveLinear`) or starts an iteration.  An island with a discrete plan takes turns between
  `VerifyDiscrete` (a solution of the equations), `PrepareClosure`, and `ClosureRound`
  until the closure settles, exceeds its budget (`ExceedBudget`) or falls back to `GenericIteration`; `GiveUp`
  ends a tick that ran out of iterations, `EndTick` commits or lets it fail.
* **DiscretePlan** decides which gates qualify for the closure and which entries of the
  equations are barriers to it.
* **Rationals** is exact arithmetic; **EagerFold** a fold that TLC evaluates step by step.

Definitions.

* **ParameterConstraints**: bounds, reciprocal ranges, and when one set of constraints implies
  another.  **DeviceDefinitions**: the eighteen primitives and the builder of composites with its checks,
  partitions and observers.
* **DefinitionTemplates** compiles primitives, **DefinitionCompiler** composites,
  **IslandIr** islands: programs of values with rates, the matrix and right-hand side, shared and folded inputs, elimination.
* **DefinitionBuilding** is the state machine in front of them: one action for each call of a
  definition callback (`CallAddNode`, `CallBeginElement`, ...), refused calls (`Refuse`), a buffer that cannot grow
  (`GrowthFails`), `Reset`, and `Submit`, which decodes, builds and registers.
* **DefinitionPublication** has the steps of a registration (`BeginRegistration`,
  `Decode`, `LockAndCopy`, `RegisterInCopy`, `Publish`, `ReturnFromRegistration`), errors and panics at each of
  them, the poisoned mutex, and worlds that take snapshots.  **DefinitionCatalog** is the promise: a
  catalog that only grows, whose IDs stay true.

Runtimes and listeners.

* **RuntimeLifecycle**: threads create runtimes (`ClaimEngine`, `StartEngine`), register types with
  their children on a stack of callbacks, create and release systems, and close in two steps that interleave with the
  next runtime.
* **ObservationPublication**: a tick with its retry, then a step per record (`Deliver`,
  `ListenerEnds`), between which a listener subscribes, unsubscribes, creates and removes devices or closes the system.

Operators with a comment that says "mutant" are faulty variants of the
operator after them.  No action uses one; `PROJECT.json` pairs each with the
property that a run refutes when the faulty variant replaces the right one.

## 3. Properties and runs

Ten runs show 40 properties; two more are findings (section 5).  `CHECK_DEADLOCK` is off
in most runs: a closed world, a world whose IDs, slots or subscriptions are used up, and a
world no one calls may all stop.  `MCIslandRuntime` and `MCDefinitionBuilding` check it: there something can
always happen.

| Run | Constants | Shows |
|---|---|---|
| `world` | 3 IDs, 3 generations, batches of 4; objects of one kind, or one object of each | `BatchAccepted`: no command is rejected for an ID. `CommittedAgreesWithNative`: between batches both sides know the same objects and slots. `OnlyRejectionPoisons`: no roll-back fails. `HandlesKeepTheirPromise` (refinement of ObjectHandles). `IInv`, the invariant of the proofs. |
| `command` | 2 wires, 2 devices, buffers of 2 commands, memory from 10 to 30 units | `JavaBuffersArrive`: what was appended since the last clear is executed, in order, and never refused for its form. `ErrorsAreLocated`: index and offset of an error are those of the command that failed. |
| `topology` | 3 wires and a device, or 2 wires and 2 devices, each conducting or isolating; 4 net and 4 island slots | `TopologyMatchesNetwork`: nets and islands are the connected groups, and what a fresh derivation gives. `RuntimesAreCurrent`, `InvalidationIsExact`: nothing stale is left out of the invalidation. `IslandsKeepTheirIdentity`: IDs are not recycled. |
| `device_rows` | 3 devices with one parameter value or 2 with two, 3 definitions, 2 rows to a chunk, 2 chunks | `StorageConsistent`, `BindingsAreCurrent`, `ParametersAreCurrent`, `StorageIsInvisible` (refinement of DeviceStore). |
| `tick` | 1 device with 2 stateful partitions (one resets) and 3 islands, or 2 stateless devices, 2 parameter values and 2 islands | `TicksAreAtomic` (refinement of TickContract), `RowsAreWhole`, `SleepersAreCurrent`, `TickNeverPanics`. |
| `island_runtime` | 11 circuits, 3 ticks, 5 iterations, 2 rounds, 4 generations | `SolutionObeysTheLaws`: an accepted solution satisfies the laws of currents and of every device, stated from the definitions and not from the compiled program. `ObserversShowTheSolution`. `SettledIsClosed`, `IncrementalIsExact`: the closure leaves no gate behind. `SolverEnds`. |
| `definition_building` | up to 3 definitions made of those before, a reset or failed growth | `BuiltAsDescribed`: what is registered is what the calls that returned said. `AcceptedValuesReachTheirElements`: a value the constraints accept is valid in each element it reaches, composite or primitive; 13 sets of constraints with bounds on either side, exclusions of zero and reciprocal ranges are put around each other three deep, so a comparison that is too generous in any of its parts is refuted. `CompositeIsItsElements`: the compiled composite and its elements wired by hand show the same voltages, observations and next states. |
| `definition_publication` | 2 threads, 1 world, 1 primitive, 3 IDs | `PublishedIdsHold`, `DecodedAgainstCurrent`, `StoreIsCatalog` (refinement of DefinitionCatalog), `RegistrationsEnd`. |
| `runtime_lifecycle` | 2 runtimes, 2 types, 2 systems, 3 native definitions | `EnginesAndTypesAgree`, `ClosedRuntimesAreForgotten`, `DefinitionsStableWhileSystemsRun`, `RequestedCloseFollowsSystems`. |
| `observation` | 1 device and 4 subscriptions or 2 devices and 2, a record buffer from 1 to 3 | `SubscriptionsAgree`: records find their listeners. `UpdatesReachListeners`: no update is lost or told twice, also by a tick that is called again with a larger buffer. `EndedListenersAreReleased`, `OnlyFaultsPoison`. |

A module's `TypeOK`, where it has one, is a conjunct of an invariant or an invariant itself.

Bounds, and why they are enough.

* `MaxId`, `Generations`, `MaxBatch`: three wire IDs make fresh IDs follow reused and
  rolled-back ones; with three generations (0 for an unused slot, 1, 2) an ID is
  reused once and then retired; a batch of four holds an add, a use, a remove and
  something of another object.  The proofs cover every other value.
* `MaxNets`, `MaxIslands` bound the slots a run allocates, as the code never reuses one.  Four net
  slots with three wires allow a split after all wires exist; a net in three pieces needs
  a fourth wire and is not reached.  (`SmallNetwork` is the state constraint that keeps the two families of the run apart.)
* `ChunkCapacity` 2 instead of 64 and `MaxChunks` 2 instead of 2^25: with three
  definitions a row moves, the last chunk moves, and the arena runs full.
* `MaxSubscriptions` 1 in the tick: subscriptions do not read each other.  In `observation` four
  IDs are enough to fill the buffer, end a subscription, and run out.
* Buffers of the command protocol count units of two bytes; `InitialCapacity` makes the second command grow the
  memory, `MaxCapacity` makes a growth fail.
* `MaxIterations` 5 and `MaxRounds` 2, both 128 in the code, let a ring of gates use up both, and a chain of three
  gates the rounds alone; `GenerationModulus` 4 instead of 2^32 lets the generation wrap.
  Three ticks: one from scratch, one after a change, and one that has the caches of both.
* The circuits are small enough for exact arithmetic and between them have every primitive of the engine in its nonlinear
  region and out of it; compositions of more are covered by `CompositeIsItsElements`.
* `MaxDefinitions`: the third definition is made of the second and that of the first, so an element is nested
  twice, and the fourth finds the registry full.
* Two runtimes: a predecessor and a successor; the proofs cover every number.

Fairness.

* Safety needs none, and no caller is made to call.
* DefinitionPublication: a thread inside a registration takes its next step, and when the mutex is free some
  waiting thread gets it; which one is not fair, as that of the standard library is not.  So `RegistrationsEnd` says
  that registrations come to an end unless new ones begin for ever.
* RuntimeLifecycle: a thread that is closing a runtime finishes (`WF_vars(ClosingStep(r))`).  Callbacks and the users of systems
  may take for ever; `RequestedCloseFollowsSystems` has the matching exception.
* IslandRuntime: the solver is a loop without a wait, so it takes its next step while it has one.  This
  is weak fairness of `SolverStep`, written out as `[]<>~Running \/ []<><<SolverStep>>_vars`, as `Running` is when
  the step is enabled.

## 4. Proofs

The theorems hold for every value of the constants that satisfies the named assumptions of the modules.

| Theorem | Statement |
|---|---|
| `ElectricalWorldProofs!Invariance` | `Spec => []IInv` |
| `!TypeCorrect`, `!AllocatorsConsistent` | `Spec => []TypeOK`, `Spec => []AllocatorConsistent` |
| `!BatchesAreAccepted` | `Spec => []BatchAccepted` |
| `!AgreementBetweenBatches` | `Spec => []CommittedAgreesWithNative` |
| `!PoisonedByRejection` | `Spec => OnlyRejectionPoisons` |
| `!WorldKeepsPromise` | `Spec => HandlesKeepTheirPromise`, a refinement |
| `DefinitionPublicationProofs!PublishedIdsAlwaysHold` | `Spec => []PublishedIdsHold` |
| `!DecodedAgainstCurrentAlways` | `Spec => []DecodedAgainstCurrent` |
| `!StoreImplementsCatalog` | `Spec => StoreIsCatalog`, a refinement |
| `RuntimeLifecycleProofs!EnginesAndTypesAlwaysAgree` | `Spec => []EnginesAndTypesAgree` |
| `!ClosedRuntimesForgotten` | `Spec => []ClosedRuntimesAreForgotten` |
| `!DefinitionsAreStable` | `Spec => DefinitionsStableWhileSystemsRun` |
| `WorldTickProofs!RowsStayWhole` | `Spec => []RowsAreWhole` |
| `!NoTickPanics` | `Spec => []TickNeverPanics` |
| `!SleepersStayCurrent` | `Spec => []SleepersAreCurrent` |
| `!TickIsAtomic` | `Spec => TicksAreAtomic`, a refinement |
| `ObservationPublicationProofs!ListenersAgree` | `Spec => []SubscriptionsAgree` |
| `!SystemsStaySound` | `Spec => []OnlyFaultsPoison` |
| `!EndedListenersGo` | `Spec => []EndedListenersAreReleased` |
| `!NoUpdateIsLost` | `Spec => []UpdatesReachListeners` |
| `DeviceArenaProofs!StorageInvariant` | `Spec => []DeviceInv` |
| `!StorageStaysConsistent` | `Spec => []StorageConsistent` |
| `!BindingsStayCurrent` | `Spec => []BindingsAreCurrent` |
| `!ParametersStayCurrent` | `Spec => []ParametersAreCurrent` |
| `!RowsAreInvisible` | `Spec => StorageIsInvisible`, a refinement |
| `DerivedTopologyProofs!Invariance` | `Spec => []IndInv` |
| `!TypeCorrect` | `Spec => []TypeOK` |
| `!TopologyIsOfNetwork` | `Spec => []TopologyMatchesNetwork` |
| `!MarksAreExact` | `Spec => []InvalidationIsExact` |
| `!NoRuntimeIsStale` | `Spec => []RuntimesAreCurrent` |
| `!IdentityIsKept` | `Spec => IslandsKeepTheirIdentity` |
| `CommandProtocolProofs!Invariance` | `Spec => []IInv` |
| `!TypeCorrect` | `Spec => []TypeOK` |
| `!CommandsArrive` | `Spec => []JavaBuffersArrive` |
| `!ErrorsLocated` | `Spec => []ErrorsAreLocated` |

The electrical world.  The module begins with lemmas on the allocator: each operator yields an
`Allocator`, preserves `Consistent`, and changes what it should
only.  `BatchAccepted` is not inductive: whether a command is accepted
depends on the commands before it and on what was committed.  `IInv` relates
the three places that know an object.  `HandleInv` ties handles to generations:
a handle's generation is never above its slot's, and what is usable was issued.
`BatchInv` reads the buffer as the history of each ID: at most one add and one remove, in that
order, uses in between, and the native slot occupied exactly from the one to
the other; the allocator's state of the ID says which of the two are there.
`SlotInv` says that fresh IDs are added in the order of their numbers, which is why each
finds its slot one past the end.  `BatchInv` and `SlotInv` are needed only while the world is open and not
poisoned: a rejected batch breaks them, and poisoning is what makes that harmless.
Each action has its step; the calls that are taken back are shown to
return to the allocator before them, up to exhausted IDs that were retired.

The definition store.  That an acknowledged ID holds is not inductive, as it rests on what a thread in the
middle of a registration is about to publish.  `PublicationInv` says of every thread: what it decoded against
is a prefix of what is published; past the mutex, it holds it, so what it copied is what is published, and
what it will publish is one definition longer.  Only the holder publishes, and a panic that poisons the mutex ends its
holder's call and lets no other pass, so no two threads can have different ideas of the next ID.

Runtimes.  `EngineInv` says that a runtime between its claim of the flag and its release is the only
one, and has systems or callbacks only while it is open.  `BindingInv` says that a bound type is listed by the runtime it is
bound to, which is open or has yet to unbind it: this is what lets the unbinding of a predecessor, which
goes on after the flag was given back, do no harm to the successor.

Ticks.  What a tick reads was written in an earlier pass, or by commands since the last tick, so none of the
properties is inductive.  `WorldShape` says which islands there are and which components they have;
`RuntimesInv` says of every runtime that is not marked stale what its matrix, its solution and its sleep were
computed from; `TickInv` says, for each of the five passes, which islands it has visited and what they left
behind: inputs that are the states before the tick, outputs that are the step of these inputs, rows that hold the committed
outputs, and only then bits that say so.  `SubscriptionsInv` says that a subscriber was told what its runtime last showed.
That a sleeping island is current follows from `RuntimesInv`, that no pass panics from `TickInv`.
The refinement of `TickContract` is the one of the run: while a tick commits, the states of the contract are
the inputs the runtimes read.  `PartitionsAssumption` (a device has finitely many partitions) and
`ParametersAssumption` (the mark of a parameter that was not set is not a value) are what the proofs assume of the constants.

Observations.  `SystemInv` says where an update is between the native world and its listener (`Told`): with the listener,
or in a record that is still to be delivered.  `Agree` relates the native subscriptions to those that are active in Java, up to
the devices whose removal is in the open batch; it holds only while the system is sound, as poisoning is what follows when it is
lost.  `DeferredOK` says that the registry forgets no removal while it publishes, and `SeenOK` that an ID that was not given out was
told nothing.  The growth of the record buffer is a recursive function; that it ends at a sufficient capacity is
proved with `NatMin`, the least number principle.

Storage.  Devices, parameters, logical states and islands are four grids of one shape, of which the directory
gives the cell of each device.  `GridInsertFacts` and `GridRemoveFacts` say what `Append` in or behind a chunk and the
two swap-removes do to any grid, and `SameInsert` and `SameRemove` that grids of one shape keep it; so one lemma about the
directory, `RemovedDirectory`, shows that every device but the removed one reads in all four grids what it read before, wherever its row went.
The lemmas after it (`ArenaInsert`, `ArenaRemove`, `StateInsert`, `StateRemove`) show that the model's operators are these
grid operations: the moved initialized bit with the moved value is the same removal on the grid of logical states.
`StorageConsistent` alone is not inductive, as it does not say that the rows of an island are exactly its devices, nor that a
clean runtime has exactly the devices of its island.  `DeviceInv` adds `MembershipOK`, `InvalidationOK` (what was
retired is never live again, so a new island can always be marked) and `RuntimesOK`.  The step that matters is `RemoveStep`:
a runtime whose island is not marked afterwards has no device in `Moved`, so its bindings are still right.
TLC checked `DeviceInv` on the constants of `device_rows`.

Topology.  What a connected group is, `Reached` computes by recursion; the proofs handle a group by two facts
that need none: no edge leaves it, and no part of it is closed by itself (`Joined` for the wires of a net, `Conducts` for
the components of an island).  `ReachedIs` says that the two facts together are what is reached, so that
`NetIsGroup` and `IslandIsGroup` turn them into the properties of the run; `WalkExists` that the recursion has a value, by the least number principle.
`TopologyOK` relates a topology to a network: `NetsOK`, `IslandsOK` and `MarksOK`.  The first two take the nets or islands that are *open*, which
a command has changed and not yet repaired: of those, only the maps between the stores are known, not that they are in one piece.
Each command is three steps: what it does to the network opens at most one net and the islands behind it; `NetRepaired` and
`IslandRepaired` say what a repair may do, whichever piece keeps the ID and in whatever order the others get theirs; the end has nothing open.
`remove_device` repairs one island after another, so it needs the form with several open islands (`RepairingsExist` and the lemmas around it).
`Keeps` is what a command must keep for the rest: slots do not shrink, an island that stays alive shares a component
with what it was, and an island that is not marked is compiled to the same (`SameCompiled`: the terminals of an island, and which of them share a net, are all that its compilation reads).
`RuntimesAreCurrent` is then inductive together with `TopologyOK`, and `IslandsKeepTheirIdentity` is a part of `Keeps`.
That a derivation from nothing gives the same (`RebuildingMatches`) has two parts.  `NetworkDerived` runs `from_network` through its four
rounds, each a fold of one command over a finite set, and shows `TopologyOK` for the part of the network that is in
place (`PartialNetwork`), by the lemmas of the commands; `SameShape` shows that two topologies of a network have the same nets and islands.
`DefinitionsAssumption` (a device has at least one partition, and its terminals belong to one) is what the proofs assume of the constants; wires, devices and slots are not bounded.
TLC checked `IndInv` on the constants of `topology`.

The command protocol.  What arrives is not inductive, as it rests on what lies in the memory.  `BufferOK` says that the units of each
appended command lie where the ones before it end (`EndOf`), that the header is in front, and that the position is the end of the last
one; nothing is said of the units behind it, which an earlier batch may have left.  It is kept by `ensureCapacity` and the copy it makes (`EnsureCapacityOK`), by an append
(`AppendOK`), by `clear` (`ClearOK`) and by the count that is written before a call (`CountWritten`).  `CallOK` says that a call that reads commands
is where the commands end that it executed, whoever encoded them, and `JavaOK` that a call of Java reads the buffer as it is and
has executed the first of its commands.  So the next command is read where Java wrote it (`NextCommand`), and read as it was
written: `EncodeFacts` says in which units of an encoded command its tag, length and fields are, and `JavaReads` that the decoder
finds them there.  `ErrorsAreLocated` needs only `CallOK`, for any input that is a sequence of units.
The sums of sizes and lengths are folds over sequences, whose order is not defined: `SumFacts` says that a fold adds up the same whichever
element it takes first, and `SumOfOneMore` that a longer sequence has the sum of the shorter one and its last element.  The growth of the
buffer and `FlattenSeq` are recursive functions, shown to have a value by counting.
The proofs assume that commands have a name of the protocol and a natural for each field (`CommandsAssumption`), that Java sends no ID that is zero
(`JavaIdsAssumption`: `requirePositiveId` and `requireNonZeroId` throw), and that the header fits in the first memory
(`CapacityAssumption`); the number of commands, the capacities and the number of batches are not bounded.
Without `JavaIdsAssumption` a buffer of Java could be refused with `InvalidId`.

Checked with TLC only.  DefinitionBuilding and IslandRuntime: their properties compare a run with what folds over programs
and equations compute.  Out of the prover's reach are liveness and ENABLED
(`RegistrationsEnd`, `SolverEnds`, `RequestedCloseFollowsSystems`), what a `RECURSIVE` operator
computes, and induction over data with the library's theorems.  A statement about a recursive
function on numbers, or a fold that adds numbers, is provable through its least counterexample (`NatMin`, `CountUp`); the folds of the compiler and the solver
are not of this form.

## 5. Findings

* `runtime_request_close`: the documentation of `ElectricalRuntime.requestClose` says that without
  active systems it closes the runtime immediately (ElectricalRuntime.java:167).  Called by the callback of a device type that is being
  registered, it records the request and throws, as a close is refused then; later requests return at once, no system can be created any more whose
  close would honour it, and the runtime stays open until someone calls `close`.
* `command_panic`: `RemoveDevice` of a device that does not exist panics in
  `prepare_device_removal` (topology/mod.rs:643) before the model reports the unknown device; the call ends as an internal panic
  without an index, where the documentation promises the index of the failing command
  (hynergy-ffi/src/lib.rs:509-510).  Java never sends such a command (`BatchAccepted`).

Observations without a run of their own, as nothing says otherwise or a passing run states them:

* A partition of a composite that no terminal reaches, such as the middle of two tick delays in series through internal
  nodes, has no node that can be its reference (compile/island.rs:91-103).  Its equations are singular, so its tick
  fails every time and the delay's state becomes zero.  `CompositeIsItsElements` states this explicitly.
* A reciprocal range without bounds asks for a finite reciprocal (DeviceDefinitionBuilder.java:295-296), and
  parameter.rs:145-147 takes any constraint that excludes zero to imply it.  A device whose parameter is non-zero or positive
  therefore accepts a subnormal number, whose reciprocal overflows, and hands it to an element that would refuse it: a value
  is validated against the constraints of the outermost device only (network/devices.rs:118).  `Smallest` stands for such
  numbers; `AcceptedValuesReachTheirElements` names this exception, and the run shows that it is the only one.
* Relations between two parameters of an element are checked only when all of its parameters are
  literals (builder.rs:380-402).
* A Schmitt buffer whose threshold is changed, while its input moves into the new band between the same two ticks, decides by
  the last solution and the new switching voltages (island.rs:839-842, 879).  `SchmittIsHigh` allows for it.

## 6. Plan

Done: object IDs and batches, the command protocol, network and topology, storage, ticks, the solution of an
island, definitions from the callback to the compiled island, the definition store, the runtime lifecycle and observations.

What is left.

1. WireBlocks: loading, unloading, removing and restarting around a `WireId`
   that is saved with a block (the hazards at WireSystem.java:105 and :285), and port discovery as operators.
2. Proofs: that `Implies` of ParameterConstraints is sound for every bound.
3. A fourth wire in `topology`, for a net in three pieces, when a smaller state space allows it.

## 7. Abstractions, and what is not modelled

* Values are exact rationals, where the engine has 64-bit floating point.  A solution has converged when it repeats
  itself, where the code compares with a tolerance; a division by zero is the value that is not finite.  What
  rounding, overflow or subnormal numbers do is not covered, but for the reciprocal of a parameter, which
  overflows at `Smallest` (section 5).
* The matrix solver is exact elimination: whether there is a solution, and which.  Sparse patterns are modelled as far as the runtime
  reads them; pivoting, fill-in and refactorization are not.
* `require_iteration_stability` asserts, in debug builds only, what need not hold for a gate whose input is the reference
  node; the models follow the release build.
* Of the compiler, dependencies of a rail on another driver are left out: no driver that qualifies has one.
* The foreign function interface: layouts, status codes and loading of the native library.  Its calls are modelled where they end.
* Port discovery and the wires of the game world, see the plan.  Benchmarks and build files are no part of the running system.
* Island revisions and everything else only tests or profiling read.
* Array growth and reservations of capacity, apart from the buffers whose growth a caller can see fail; running out of memory is the
  failure to append a command.
