----------------------------- MODULE DeviceArena -----------------------------
(***************************************************************************)
(* Where devices are stored.  The model keeps the devices of a definition  *)
(* in chunks of rows and a directory from each device to its row; removing *)
(* a device moves the last row of its chunk into the gap, and removing the *)
(* last row of a chunk moves the last chunk into its place (hynergy-model, *)
(* src/network/device_arena.rs).  The engine keeps two sidecars with the   *)
(* same rows: the physical state of the devices and the islands of their   *)
(* components (hynergy-engine, src/state.rs, src/topology).  The runtime   *)
(* of an island is bound to the rows of its devices and is bound anew      *)
(* after a row moved (src/runtime/bindings.rs, World in src/lib.rs).       *)
(*                                                                         *)
(* A device has one parameter, one state and one partition here.  How      *)
(* terminals group devices into islands is DerivedTopology's concern: an   *)
(* island gets devices by a merge and loses them by a split.               *)
(***************************************************************************)
EXTENDS Integers, Sequences, FiniteSets

CONSTANTS
    Devices,
    Definitions,
    Parameters,      \* values a parameter can have
    ChunkCapacity,   \* DEVICE_CHUNK_CAPACITY, 64 in the code
    MaxChunks,       \* MAX_DEVICE_CHUNKS, 2^25 in the code
    MaxIslands       \* how many island slots a run may allocate

ASSUME ChunkCapacityAssumption == ChunkCapacity \in Nat \ {0}
ASSUME MaxChunksAssumption == MaxChunks \in Nat \ {0}

None == 0
Unassigned == "unassigned"               \* a parameter that was not set
Locator(c, r) == [chunk |-> c, row |-> r]
NoLocation == Locator(0, 0)              \* an empty directory entry

VARIABLES
    arena,           \* directory, chunks and active-chunk hints of the model
    physicalState,   \* the state sidecar: values and initialized bits by chunk
    topologyRows,    \* the topology sidecar: the island of each row by chunk
    islands,         \* the devices of each live island
    islandSlots,
    invalidation,
    runtimes         \* the island runtimes

vars == <<arena, physicalState, topologyRows, islands, islandSlots, invalidation, runtimes>>

Resident == {d \in Devices : arena.directory[d] # NoLocation}
Full(chunk) == Len(chunk.devices) = ChunkCapacity

\* The rows of a sequence after the last one took the place of row i.
SwapRemove(rows, i) ==
    [j \in 1..(Len(rows) - 1) |-> IF j = i THEN rows[Len(rows)] ELSE rows[j]]

-----------------------------------------------------------------------------
(* DeviceArena.                                                            *)

\* The hinted chunk if it has room, or else the first that does, or none.
InsertionChunk(a, definition) ==
    LET HasRoom(c) == a.chunks[c].definition = definition /\ ~Full(a.chunks[c])
        hint == a.activeChunks[definition]
        found == {c \in DOMAIN a.chunks : HasRoom(c)}
    IN  IF hint \in found THEN hint
        ELSE IF found = {} THEN None
        ELSE CHOOSE c \in found : \A e \in found : c <= e

\* The location a device would get.
InsertLocation(a, definition) ==
    LET c == InsertionChunk(a, definition) IN
    IF c = None THEN Locator(Len(a.chunks) + 1, 1) ELSE Locator(c, Len(a.chunks[c].devices) + 1)

NewChunk(definition) == [definition |-> definition, devices |-> << >>, parameters |-> << >>]
PushEmptyRow(chunk, d) ==
    [chunk EXCEPT !.devices = Append(@, d), !.parameters = Append(@, Unassigned)]

Insert(a, d, definition) ==
    LET location == InsertLocation(a, definition)
        old == IF location.row = 1 THEN NewChunk(definition) ELSE a.chunks[location.chunk]
        chunk == PushEmptyRow(old, d)
    IN  [ directory |-> [a.directory EXCEPT ![d] = location],
          chunks |-> IF location.row = 1 THEN Append(a.chunks, chunk)
                     ELSE [a.chunks EXCEPT ![location.chunk] = chunk],
          activeChunks |-> [a.activeChunks EXCEPT ![definition] =
                                IF Full(chunk) THEN None ELSE location.chunk] ]

\* The chunk without a row; the device that moved into it is found again.
WithoutRow(a, d) ==
    LET location == a.directory[d]
        chunk == a.chunks[location.chunk]
        rest == [chunk EXCEPT !.devices = SwapRemove(@, location.row),
                              !.parameters = SwapRemove(@, location.row)]
    IN  [a EXCEPT !.chunks[location.chunk] = rest,
                  !.directory = [e \in Devices |->
                        IF e = d THEN NoLocation
                        ELSE IF location.row \in DOMAIN rest.devices /\ e = rest.devices[location.row]
                             THEN location ELSE a.directory[e]]]

\* Mutant: the hint of the moved chunk still names its old place.
WithoutChunkStaleHint(a, c) ==
    LET last == Len(a.chunks) IN
    [ chunks |-> SwapRemove(a.chunks, c),
      directory |-> [d \in Devices |->
            IF a.directory[d].chunk = last
            THEN [a.directory[d] EXCEPT !.chunk = c] ELSE a.directory[d]],
      activeChunks |-> [definition \in Definitions |->
            IF a.activeChunks[definition] = c THEN None ELSE a.activeChunks[definition]] ]

\* Chunk c is empty: the last chunk takes its place.
WithoutChunk(a, c) ==
    LET last == Len(a.chunks)
        hints == [definition \in Definitions |->
                    IF a.activeChunks[definition] = c THEN None ELSE a.activeChunks[definition]]
    IN  [ chunks |-> SwapRemove(a.chunks, c),
          directory |-> [d \in Devices |->
                IF a.directory[d].chunk = last
                THEN [a.directory[d] EXCEPT !.chunk = c] ELSE a.directory[d]],
          activeChunks |-> [definition \in Definitions |->
                IF hints[definition] = last THEN c ELSE hints[definition]] ]

Emptied(a, d) == Len(a.chunks[a.directory[d].chunk].devices) = 1

Remove(a, d) ==
    LET c == a.directory[d].chunk
        definition == a.chunks[c].definition
        removed == WithoutRow(a, d)
    IN  IF Emptied(a, d) THEN WithoutChunk(removed, c)
        ELSE [removed EXCEPT !.activeChunks[definition] = c]

\* Mutant: the devices of a chunk that took the place of another are forgotten.
MovedInChunk(a, d) ==
    {e \in Devices \ {d} :
        /\ a.directory[e].chunk = a.directory[d].chunk
        /\ a.directory[e].row = Len(a.chunks[a.directory[d].chunk].devices)}

\* The devices whose row a removal moves: one within the chunk, or all of the
\* last chunk.
Moved(a, d) ==
    LET location == a.directory[d]
        last == Len(a.chunks)
        InChunk(c) == {e \in Devices \ {d} : a.directory[e].chunk = c}
    IN  IF Emptied(a, d) THEN InChunk(last)
        ELSE {e \in InChunk(location.chunk) :
                a.directory[e].row = Len(a.chunks[location.chunk].devices)}

ParameterAt(location) == arena.chunks[location.chunk].parameters[location.row]
SetParameter(a, d, value) ==
    [a EXCEPT !.chunks[a.directory[d].chunk].parameters[a.directory[d].row] = value]

-----------------------------------------------------------------------------
(* PhysicalStateStore.  A new row is zero and not initialized; the value of *)
(* such a row is the definition's initial value.                           *)

NewStateChunk == [values |-> << >>, initialized |-> {}]
PushStateRow(chunk) == [chunk EXCEPT !.values = Append(@, "zero")]

StateAfterInsert(location) ==
    IF location.row = 1 THEN Append(physicalState, PushStateRow(NewStateChunk))
    ELSE [physicalState EXCEPT ![location.chunk] = PushStateRow(@)]

\* Mutant: the bit of the row that went away stays set.
StateAfterRemoveKeepingBit(location) ==
    LET chunk == physicalState[location.chunk]
        last == Len(chunk.values)
    IN  IF last = 1 THEN SwapRemove(physicalState, location.chunk)
        ELSE [physicalState EXCEPT
                ![location.chunk].values = SwapRemove(chunk.values, location.row),
                ![location.chunk].initialized =
                    IF last \in @ THEN @ \cup {location.row} ELSE @ \ {location.row}]

\* The last row moves into row r with its initialized bit.
RemoveStateRow(chunk, r) ==
    LET last == Len(chunk.values)
        initialized == IF last \in chunk.initialized THEN chunk.initialized \cup {r}
                                                     ELSE chunk.initialized \ {r}
    IN  [values |-> SwapRemove(chunk.values, r), initialized |-> initialized \ {last}]

StateAfterRemove(location) ==
    IF Len(physicalState[location.chunk].values) = 1
    THEN SwapRemove(physicalState, location.chunk)
    ELSE [physicalState EXCEPT ![location.chunk] = RemoveStateRow(@, location.row)]

IsInitialized(chunk, r) == r \in chunk.initialized
ReadLogical(state, location) ==
    LET chunk == state[location.chunk] IN
    IF IsInitialized(chunk, location.row) THEN chunk.values[location.row] ELSE "initial"

-----------------------------------------------------------------------------
(* The topology sidecar and WorldInvalidation.                             *)

RowsAfterInsert(location, island) ==
    IF location.row = 1 THEN Append(topologyRows, <<island>>)
    ELSE [topologyRows EXCEPT ![location.chunk] = Append(@, island)]

\* Mutant: the last row goes, whichever was removed.
RowsAfterPop(location) ==
    LET c == location.chunk IN
    IF Len(topologyRows[c]) = 1 THEN SwapRemove(topologyRows, c)
    ELSE [topologyRows EXCEPT ![c] = SwapRemove(@, Len(@))]

RowsAfterRemove(location) ==
    LET c == location.chunk IN
    IF Len(topologyRows[c]) = 1 THEN SwapRemove(topologyRows, c)
    ELSE [topologyRows EXCEPT ![c] = SwapRemove(@, location.row)]

IslandAt(rows, location) == rows[location.chunk][location.row]

EmptyInvalidation ==
    [topologyDirty |-> {}, numericalDirty |-> {}, bindingDirty |-> {}, retired |-> {}]

MarkTopologyDirty(inv, marked) ==
    LET dirty == marked \ inv.retired IN
    [inv EXCEPT !.topologyDirty = @ \cup dirty, !.numericalDirty = @ \ dirty,
                !.bindingDirty = @ \ dirty]

MarkRetired(inv, island) ==
    [ topologyDirty |-> inv.topologyDirty \ {island},
      numericalDirty |-> inv.numericalDirty \ {island},
      bindingDirty |-> inv.bindingDirty \ {island},
      retired |-> inv.retired \cup {island} ]

MarkBindingDirty(inv, marked) ==
    [inv EXCEPT !.bindingDirty = @ \cup (marked \ (inv.retired \cup inv.topologyDirty))]

MarkNumericalDirty(inv, marked) ==
    [inv EXCEPT !.numericalDirty = @ \cup (marked \ (inv.retired \cup inv.topologyDirty))]

-----------------------------------------------------------------------------
Init ==
    /\ arena = [ directory |-> [d \in Devices |-> NoLocation], chunks |-> << >>,
                 activeChunks |-> [definition \in Definitions |-> None] ]
    /\ physicalState = << >>
    /\ topologyRows = << >>
    /\ islands = << >>
    /\ islandSlots = 0
    /\ invalidation = EmptyInvalidation
    /\ runtimes = << >>

CanInsertAlways(definition) == TRUE   \* mutant

CanInsert(definition) ==
    InsertionChunk(arena, definition) # None \/ Len(arena.chunks) < MaxChunks

AddDevice(d, definition) ==
    LET location == InsertLocation(arena, definition)
        island == islandSlots + 1
    IN  /\ d \notin Resident
        /\ CanInsert(definition)
        /\ island <= MaxIslands
        /\ arena' = Insert(arena, d, definition)
        /\ physicalState' = StateAfterInsert(location)
        /\ topologyRows' = RowsAfterInsert(location, island)
        /\ islands' = [i \in DOMAIN islands \cup {island} |-> IF i = island THEN {d} ELSE islands[i]]
        /\ islandSlots' = island
        /\ invalidation' = MarkTopologyDirty(invalidation, {island})
        /\ UNCHANGED runtimes

\* DeviceArenaExhausted: only the hint of the definition is reset.
AddDeviceFails(definition) ==
    /\ Resident # Devices
    /\ ~CanInsert(definition)
    /\ arena' = [arena EXCEPT !.activeChunks[definition] = None]
    /\ UNCHANGED <<physicalState, topologyRows, islands, islandSlots, invalidation, runtimes>>

\* Removal from the model, from the two sidecars and from the island, and the
\* marks for every device that was moved.
RemoveDevice(d) ==
    LET location == arena.directory[d]
        island == IslandAt(topologyRows, location)
        rest == islands[island] \ {d}
        moved == Moved(arena, d)
        repaired == IF rest = {} THEN MarkRetired(invalidation, island)
                    ELSE MarkTopologyDirty(invalidation, {island})
    IN  /\ d \in Resident
        /\ arena' = Remove(arena, d)
        /\ physicalState' = StateAfterRemove(location)
        /\ topologyRows' = RowsAfterRemove(location)
        /\ islands' = IF rest = {} THEN [i \in DOMAIN islands \ {island} |-> islands[i]]
                      ELSE [islands EXCEPT ![island] = rest]
        /\ invalidation' = MarkBindingDirty(repaired,
                {IslandAt(topologyRows', arena'.directory[e]) : e \in moved})
        /\ UNCHANGED <<islandSlots, runtimes>>

\* The command that first joins two islands, and one that takes a device out.
\* An island named by a sidecar row is written through the device's location.
Rows(rows, devices, island) ==
    [c \in DOMAIN rows |-> [r \in DOMAIN rows[c] |->
        IF Locator(c, r) \in {arena.directory[d] : d \in devices}
        THEN island ELSE rows[c][r]]]

MergeIslands(dst, src) ==
    /\ dst \in DOMAIN islands /\ src \in DOMAIN islands /\ dst # src
    /\ Cardinality(islands[dst]) >= Cardinality(islands[src])
    /\ topologyRows' = Rows(topologyRows, islands[src], dst)
    /\ islands' = [i \in DOMAIN islands \ {src} |->
                    IF i = dst THEN islands[dst] \cup islands[src] ELSE islands[i]]
    /\ invalidation' = MarkTopologyDirty(MarkRetired(invalidation, src), {dst})
    /\ UNCHANGED <<arena, physicalState, islandSlots, runtimes>>

SplitIsland(island, d) ==
    /\ island \in DOMAIN islands /\ d \in islands[island] /\ islands[island] # {d}
    /\ islandSlots < MaxIslands
    /\ islandSlots' = islandSlots + 1
    /\ topologyRows' = Rows(topologyRows, {d}, islandSlots')
    /\ islands' = [i \in DOMAIN islands \cup {islandSlots'} |->
                    IF i = islandSlots' THEN {d}
                    ELSE IF i = island THEN islands[i] \ {d} ELSE islands[i]]
    /\ invalidation' = MarkTopologyDirty(invalidation, {island, islandSlots'})
    /\ UNCHANGED <<arena, physicalState, runtimes>>

SetDeviceParameter(d, value) ==
    LET location == arena.directory[d] IN
    /\ d \in Resident
    /\ arena' = SetParameter(arena, d, value)
    /\ invalidation' = MarkNumericalDirty(invalidation, {IslandAt(topologyRows, location)})
    /\ UNCHANGED <<physicalState, topologyRows, islands, islandSlots, runtimes>>

-----------------------------------------------------------------------------
(* sync_island_runtimes, and a tick that follows it.                       *)

Bindings(devices) == [d \in devices |-> arena.directory[d]]

NewRuntime(island) ==
    [ bindings |-> Bindings(islands[island]),
      parameters |-> [d \in islands[island] |-> "none"],
      staticInputsDirty |-> TRUE ]

\* The runtimes after the retired were dropped and some dirty were compiled.
Compiled(compiled) ==
    [i \in (DOMAIN runtimes \ invalidation.retired) \cup compiled |->
        IF i \in compiled THEN NewRuntime(i) ELSE runtimes[i]]

Rebind(runtime) == [runtime EXCEPT !.bindings = Bindings(DOMAIN @)]

Synchronized ==
    LET compiled == Compiled(invalidation.topologyDirty)
        Rebound(i) == IF i \in invalidation.bindingDirty THEN Rebind(compiled[i]) ELSE compiled[i]
    IN  [i \in DOMAIN compiled |->
            IF i \in invalidation.numericalDirty
            THEN [Rebound(i) EXCEPT !.staticInputsDirty = TRUE] ELSE Rebound(i)]

\* A compile error ends the tick; nothing is forgotten.
SyncFails ==
    /\ \E compiled \in SUBSET invalidation.topologyDirty :
        /\ compiled # invalidation.topologyDirty
        /\ runtimes' = Compiled(compiled)
    /\ UNCHANGED <<arena, physicalState, topologyRows, islands, islandSlots, invalidation>>

Loadable(runtime) ==
    \A d \in DOMAIN runtime.bindings : ParameterAt(runtime.bindings[d]) # Unassigned

\* Mutant: the flag is reset before the parameters are read.
LoadParametersOnce(runtime) ==
    IF runtime.staticInputsDirty
    THEN [runtime EXCEPT !.parameters =
                IF Loadable(runtime) THEN [d \in DOMAIN @ |-> ParameterAt(runtime.bindings[d])] ELSE @,
            !.staticInputsDirty = FALSE]
    ELSE runtime

\* load_parameters; an island with a parameter missing stays dirty and fails.
LoadParameters(runtime) ==
    IF runtime.staticInputsDirty /\ Loadable(runtime)
    THEN [runtime EXCEPT !.parameters = [d \in DOMAIN @ |-> ParameterAt(runtime.bindings[d])],
                         !.staticInputsDirty = FALSE]
    ELSE runtime

\* The state every bound row has after the tick: the next state of an island
\* that was solved, what it had before for one that failed.
Scatter(bound, solved) ==
    LET BoundTo(c, r) == {b \in bound : b.location = Locator(c, r)}
        Written(c, r) ==
            IF BoundTo(c, r) = {} THEN physicalState[c].values[r]
            ELSE IF \E b \in BoundTo(c, r) : b.island \in solved THEN "next"
            ELSE ReadLogical(physicalState, Locator(c, r))
    IN  [c \in DOMAIN physicalState |->
            [ values |-> [r \in DOMAIN physicalState[c].values |-> Written(c, r)],
              initialized |-> physicalState[c].initialized \cup
                    {r \in DOMAIN physicalState[c].values : BoundTo(c, r) # {}} ]]

Tick ==
    /\ runtimes' = [i \in DOMAIN Synchronized |->
                        IF i \in DOMAIN islands THEN LoadParameters(Synchronized[i]) ELSE Synchronized[i]]
    /\ \E solved \in SUBSET {i \in DOMAIN islands : ~runtimes'[i].staticInputsDirty} :
        physicalState' = Scatter(
            UNION {{[island |-> i, location |-> runtimes'[i].bindings[d]] :
                        d \in DOMAIN runtimes'[i].bindings} : i \in DOMAIN islands},
            solved)
    /\ invalidation' = EmptyInvalidation
    /\ UNCHANGED <<arena, topologyRows, islands, islandSlots>>

Next ==
    \/ \E d \in Devices, definition \in Definitions : AddDevice(d, definition)
    \/ \E definition \in Definitions : AddDeviceFails(definition)
    \/ \E d \in Devices : RemoveDevice(d) \/ \E value \in Parameters : SetDeviceParameter(d, value)
    \/ \E i, j \in DOMAIN islands : MergeIslands(i, j)
    \/ \E i \in DOMAIN islands, d \in Devices : SplitIsland(i, d)
    \/ SyncFails
    \/ Tick

Spec == Init /\ [][Next]_vars

-----------------------------------------------------------------------------
(* Properties.                                                             *)

Location == [chunk : 1..MaxChunks, row : 1..ChunkCapacity]

TypeOK ==
    /\ arena.directory \in [Devices -> Location \cup {NoLocation}]
    /\ arena.activeChunks \in [Definitions -> 0..MaxChunks]
    /\ arena.chunks \in Seq([definition : Definitions, devices : Seq(Devices),
                             parameters : Seq(Parameters \cup {Unassigned})])
    /\ physicalState \in Seq([values : Seq({"zero", "initial", "next"}),
                              initialized : SUBSET (1..ChunkCapacity)])
    /\ topologyRows \in Seq(Seq(1..islandSlots))
    /\ DOMAIN islands \subseteq 1..islandSlots

\* The directory and the rows say the same, no chunk is empty or over-full,
\* and a hint names a chunk of its definition with room, whatever rows and
\* chunks were moved (DeviceArena::assert_consistent).
ArenaConsistent ==
    /\ \A c \in DOMAIN arena.chunks :
        /\ Len(arena.chunks[c].devices) \in 1..ChunkCapacity
        /\ \A r \in DOMAIN arena.chunks[c].devices :
            arena.directory[arena.chunks[c].devices[r]] = Locator(c, r)
    /\ \A d \in Resident :
        LET location == arena.directory[d] IN
        /\ location.chunk \in DOMAIN arena.chunks
        /\ location.row \in DOMAIN arena.chunks[location.chunk].devices
        /\ arena.chunks[location.chunk].devices[location.row] = d
    /\ \A definition \in Definitions :
        LET hint == arena.activeChunks[definition] IN
        hint # None =>
            /\ hint \in DOMAIN arena.chunks
            /\ arena.chunks[hint].definition = definition
            /\ ~Full(arena.chunks[hint])

\* The sidecars have the rows of the arena, no bit is set outside them, and
\* the row of a device names its island (PhysicalStateStore::assert_aligned,
\* assert_membership_maps).
SidecarsAligned ==
    /\ DOMAIN physicalState = DOMAIN arena.chunks
    /\ DOMAIN topologyRows = DOMAIN arena.chunks
    /\ \A c \in DOMAIN arena.chunks :
        LET rows == DOMAIN arena.chunks[c].devices IN
        /\ DOMAIN physicalState[c].values = rows
        /\ physicalState[c].initialized \subseteq rows
        /\ DOMAIN topologyRows[c] = rows
        /\ \A r \in rows : topologyRows[c][r] \in DOMAIN islands
                           /\ arena.chunks[c].devices[r] \in islands[topologyRows[c][r]]

\* A clean runtime is bound to where its devices are now: every row that
\* moved was announced to the islands bound to it (World::remove_device).
BindingsAreCurrent ==
    \A i \in DOMAIN islands \ (invalidation.topologyDirty \cup invalidation.bindingDirty) :
        i \in DOMAIN runtimes /\ runtimes[i].bindings = Bindings(islands[i])

\* A runtime that would not load its parameters has the current ones, also
\* when their rows moved since (IslandRuntime::prepare_static).
ParametersAreCurrent ==
    \A i \in DOMAIN islands \ (invalidation.topologyDirty \cup invalidation.numericalDirty) :
        ~runtimes[i].staticInputsDirty =>
            runtimes[i].parameters = [d \in islands[i] |-> ParameterAt(arena.directory[d])]

\* What is stored of each device, wherever its row is.
LogicalStore ==
    [d \in Resident |-> [ parameter |-> ParameterAt(arena.directory[d]),
                          state |-> ReadLogical(physicalState, arena.directory[d]) ]]

Store == INSTANCE DeviceStore WITH store <- LogicalStore

\* The moves of rows are invisible: parameters and states follow their
\* devices, a new device starts from its initial state though its row was
\* another's, and a tick writes the states of the devices it solved only.
StorageIsInvisible == Store!Spec

\* The arena, its directory and hints, and the sidecars that follow its rows
\* agree with each other after every command and tick.
StorageConsistent ==
    /\ TypeOK
    /\ ArenaConsistent
    /\ SidecarsAligned
=============================================================================
