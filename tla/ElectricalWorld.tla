--------------------------- MODULE ElectricalWorld ---------------------------
(***************************************************************************)
(* A Java ElectricalWorld over its native world: the calls that create,    *)
(* remove and use wires and devices, the command buffer that collects      *)
(* them, and the batch the native world applies one command at a time      *)
(* (ElectricalWorld.java, WorldCommandBuffer.java, protocol world.rs, and  *)
(* the ID checks of the native network).                                   *)
(*                                                                         *)
(* Java decides what an ID means when a call is made; the native world     *)
(* sees the commands later and indexes its slot tables with the same IDs.  *)
(* The two are meant never to disagree: a batch that the native world      *)
(* rejects leaves the world poisoned for good.                             *)
(***************************************************************************)
EXTENDS WorldIdAllocator

CONSTANTS
    MaxBatch,   \* commands that fit the buffer, MAX_CAPACITY in the code
    Kinds       \* "wire" and "device": one allocator and one slot table for each

ASSUME MaxBatchAssumption == MaxBatch \in Nat
ASSUME KindsAssumption == Kinds \subseteq {"wire", "device"}

Object == Kinds \X Ids
Handle == [kind : Kinds, id : Ids, generation : Generation]

\* A command names the objects it acts on; parameters, definitions and
\* terminals have no part in what IDs mean.
Tags == {"add", "remove", "connectWires", "attachTerminal", "setDeviceParameter"}
Command == [tag : Tags, targets : SUBSET Object]

VARIABLES
    ids,             \* wireIds and deviceIds
    commandBuffer,
    applying,        \* applyCommands is inside the native call
    applied,         \* how many commands of the buffer the native world has applied
    native,          \* slot tables: how many slots there are, which are occupied
    poisoned,
    open,
    handles          \* the handles returned to the users of the world

vars == <<ids, commandBuffer, applying, applied, native, poisoned, open, handles>>

TypeOK ==
    /\ ids \in [Kinds -> Allocator]
    /\ commandBuffer \in Seq(Command)
    /\ applying \in BOOLEAN
    /\ applied \in Nat
    /\ native \in [Kinds -> [slots : Nat, occupied : SUBSET Ids]]
    /\ poisoned \in BOOLEAN
    /\ open \in BOOLEAN
    /\ handles \subseteq Handle

Init ==
    /\ ids = [k \in Kinds |-> NewAllocator]
    /\ commandBuffer = << >>
    /\ applying = FALSE
    /\ applied = 0
    /\ native = [k \in Kinds |-> [slots |-> 0, occupied |-> {}]]
    /\ poisoned = FALSE
    /\ open = TRUE
    /\ handles = {}

\* requireUsable; a world is used by one thread, so no call overlaps a batch.
RequireUsable == open /\ ~poisoned /\ ~applying

HandleUsable(h) == IsUsable(ids[h.kind], h.id, h.generation)
TargetOf(h) == <<h.kind, h.id>>

-----------------------------------------------------------------------------
(* Calls that append a command.  Appending throws when the buffer is full  *)
(* or cannot grow; the call then takes back what it did to the allocator.  *)

AppendCommand(tag, targets) ==
    /\ Len(commandBuffer) < MaxBatch
    /\ commandBuffer' = Append(commandBuffer, [tag |-> tag, targets |-> targets])

AddObject(k) ==
    /\ RequireUsable
    /\ \E r \in Reservations(ids[k]) :
        /\ ids' = [ids EXCEPT ![k] = r.allocator]
        /\ AppendCommand("add", {<<k, r.id>>})
        /\ handles' = handles \cup
             {[kind |-> k, id |-> r.id, generation |-> r.allocator.generations[r.id]]}
    /\ UNCHANGED <<applying, applied, native, poisoned, open>>

AddObjectFails(k) ==
    /\ RequireUsable
    /\ \E r \in Reservations(ids[k]) :
        LET rollback == CanCancelPendingAdd(r.allocator, r.id, r.allocator.generations[r.id])
        IN  /\ ids' = [ids EXCEPT ![k] = IF rollback THEN CancelPendingAdd(r.allocator, r.id)
                                                     ELSE r.allocator]
            /\ poisoned' = ~rollback
    /\ UNCHANGED <<commandBuffer, applying, applied, native, open, handles>>

AddObjectExhausted(k) ==
    /\ RequireUsable
    /\ IdSpaceExhausted(ids[k])
    /\ ids' = [ids EXCEPT ![k] = Retire(ids[k], Exhausted(ids[k]))]
    /\ UNCHANGED <<commandBuffer, applying, applied, native, poisoned, open, handles>>

RemoveObject(h) ==
    /\ RequireUsable
    /\ CanRemove(ids[h.kind], h.id, h.generation)
    /\ ids' = [ids EXCEPT ![h.kind] = Remove(ids[h.kind], h.id)]
    /\ AppendCommand("remove", {TargetOf(h)})
    /\ UNCHANGED <<applying, applied, native, poisoned, open, handles>>

RemoveObjectFails(h) ==
    /\ RequireUsable
    /\ CanRemove(ids[h.kind], h.id, h.generation)
    /\ LET removed == Remove(ids[h.kind], h.id)
           rollback == CanCancelPendingRemove(removed, h.id, h.generation)
       IN  /\ ids' = [ids EXCEPT ![h.kind] = IF rollback THEN CancelPendingRemove(removed, h.id)
                                                         ELSE removed]
           /\ poisoned' = ~rollback
    /\ UNCHANGED <<commandBuffer, applying, applied, native, open, handles>>

\* Mutant: only the generation is checked.
UseObjectsCurrent(tag, hs) ==
    /\ RequireUsable
    /\ \A h \in hs : IsCurrent(ids[h.kind], h.id, h.generation)
    /\ AppendCommand(tag, {TargetOf(h) : h \in hs})
    /\ UNCHANGED <<ids, applying, applied, native, poisoned, open, handles>>

\* A call that acts on live objects and changes no ID.
UseObjects(tag, hs) ==
    /\ RequireUsable
    /\ \A h \in hs : HandleUsable(h)
    /\ AppendCommand(tag, {TargetOf(h) : h \in hs})
    /\ UNCHANGED <<ids, applying, applied, native, poisoned, open, handles>>

ConnectWires(a, b) ==   \* connectWires and disconnectWires
    /\ a.kind = "wire" /\ b.kind = "wire" /\ a # b
    /\ UseObjects("connectWires", {a, b})

AttachTerminal(w, d) ==   \* attachTerminal and detachTerminal
    /\ w.kind = "wire" /\ d.kind = "device"
    /\ UseObjects("attachTerminal", {w, d})

SetDeviceParameter(d) ==
    /\ d.kind = "device"
    /\ UseObjects("setDeviceParameter", {d})

-----------------------------------------------------------------------------
(* applyCommands: the checks, the native loop over the buffer, the commit. *)

BeginApply ==
    /\ RequireUsable
    /\ commandBuffer # << >>
    /\ \A k \in Kinds : CanCommitBatch(ids[k])
    /\ applying' = TRUE
    /\ applied' = 0
    /\ UNCHANGED <<ids, commandBuffer, native, poisoned, open, handles>>

NextCommand == commandBuffer[applied + 1]

\* add_wire and prepare_add_device take a vacant slot or the one past the end.
SlotIsVacant(k, id) == id <= native[k].slots + 1 /\ id \notin native[k].occupied

NativeAccepts(command) ==
    IF command.tag = "add"
    THEN \A t \in command.targets : SlotIsVacant(t[1], t[2])
    ELSE \A t \in command.targets : t[2] \in native[t[1]].occupied

OnTargets(command, k) == {id \in Ids : <<k, id>> \in command.targets}

NativeAfter(command) ==
    [k \in Kinds |->
        LET targets == OnTargets(command, k) IN
        CASE command.tag = "add" ->
                [slots |-> IF native[k].slots + 1 \in targets THEN native[k].slots + 1
                                                             ELSE native[k].slots,
                 occupied |-> native[k].occupied \cup targets]
          [] command.tag = "remove" ->
                [slots |-> native[k].slots, occupied |-> native[k].occupied \ targets]
          [] OTHER -> native[k]]

ApplyCommand ==
    /\ applying
    /\ applied < Len(commandBuffer)
    /\ NativeAccepts(NextCommand)
    /\ native' = NativeAfter(NextCommand)
    /\ applied' = applied + 1
    /\ UNCHANGED <<ids, commandBuffer, applying, poisoned, open, handles>>

\* Mutant: the world stays usable after a rejected batch.
RejectCommandUnpoisoned ==
    /\ applying
    /\ applied < Len(commandBuffer)
    /\ commandBuffer' = << >>
    /\ applying' = FALSE
    /\ applied' = 0
    /\ UNCHANGED <<ids, native, poisoned, open, handles>>

\* The native world stops at the first command it rejects, for an ID or for
\* a reason only it sees: already connected, a parameter out of range, the
\* device arena full, a panic.  Earlier commands stay applied.
RejectCommand ==
    /\ applying
    /\ applied < Len(commandBuffer)
    /\ poisoned' = TRUE
    /\ commandBuffer' = << >>
    /\ applying' = FALSE
    /\ applied' = 0
    /\ UNCHANGED <<ids, native, open, handles>>

CommitApply ==
    /\ applying
    /\ applied = Len(commandBuffer)
    /\ ids' = [k \in Kinds |-> CommitBatch(ids[k])]
    /\ commandBuffer' = << >>
    /\ applying' = FALSE
    /\ applied' = 0
    /\ UNCHANGED <<native, poisoned, open, handles>>

\* close frees the buffer and the native world.
Close ==
    /\ open /\ ~applying
    /\ open' = FALSE
    /\ commandBuffer' = << >>
    /\ native' = [k \in Kinds |-> [slots |-> 0, occupied |-> {}]]
    /\ UNCHANGED <<ids, applying, applied, poisoned, handles>>

Next ==
    \/ \E k \in Kinds : AddObject(k) \/ AddObjectFails(k) \/ AddObjectExhausted(k)
    \/ \E h \in handles : RemoveObject(h) \/ RemoveObjectFails(h) \/ SetDeviceParameter(h)
    \/ \E a, b \in handles : ConnectWires(a, b) \/ AttachTerminal(a, b)
    \/ BeginApply \/ ApplyCommand \/ RejectCommand \/ CommitApply
    \/ Close

Spec == Init /\ [][Next]_vars

-----------------------------------------------------------------------------
(* The inductive invariant.                                                *)

\* The inconsistencies the allocators throw IllegalStateException for never
\* arise, also after a command could not be appended and the call was taken
\* back (WorldIdAllocator.reserve, prepareCommitBatch).
AllocatorConsistent == \A k \in Kinds : Consistent(ids[k])

Absent == {"UNUSED", "FREE", "RETIRED"}
PendingAdd == {"PENDING_ADD", "PENDING_ADD_REMOVE"}
PendingRemove == {"PENDING_REMOVE", "PENDING_ADD_REMOVE"}

\* Positions in the buffer of the commands that act on an object.
Acting(k, id) == {p \in DOMAIN commandBuffer : <<k, id>> \in commandBuffer[p].targets}
Adds(k, id) == {p \in Acting(k, id) : commandBuffer[p].tag = "add"}
Removes(k, id) == {p \in Acting(k, id) : commandBuffer[p].tag = "remove"}
Uses(k, id) == Acting(k, id) \ (Adds(k, id) \cup Removes(k, id))

HandleInv(k) ==
    LET a == ids[k] IN
    /\ \A h \in handles : h.kind = k =>
        a.states[h.id] # "UNUSED" /\ h.generation <= a.generations[h.id]
    /\ \A id \in Ids : a.states[id] \in {"LIVE", "PENDING_ADD"} =>
        [kind |-> k, id |-> id, generation |-> a.generations[id]] \in handles

\* An object is added once, used between its add and its remove, and is in
\* the native table exactly from the one to the other.
BatchInv(k) ==
    LET a == ids[k] IN
    \A id \in Ids :
        /\ Adds(k, id) # {} <=> a.states[id] \in PendingAdd
        /\ Removes(k, id) # {} <=> a.states[id] \in PendingRemove
        /\ Uses(k, id) # {} => a.states[id] \notin Absent
        /\ \A p, q \in Adds(k, id) : p = q
        /\ \A p, q \in Removes(k, id) : p = q
        /\ \A p \in Adds(k, id), q \in Uses(k, id) \cup Removes(k, id) : p < q
        /\ \A q \in Uses(k, id), r \in Removes(k, id) : q < r
        /\ id \in native[k].occupied <=>
             /\ a.states[id] \notin Absent
             /\ \A p \in Adds(k, id) : p <= applied
             /\ \A r \in Removes(k, id) : r > applied

\* The slot table grows by one for each new ID, in the order of the IDs.
SlotInv(k) ==
    LET a == ids[k] IN
    /\ native[k].slots <= a.highWaterMark
    /\ \A id \in 1..a.highWaterMark :
        id <= native[k].slots <=>
            id <= a.committedHighWaterMark \/ \E p \in Adds(k, id) : p <= applied
    /\ \A i, j \in (a.committedHighWaterMark + 1)..a.highWaterMark : i < j =>
        \A p \in Adds(k, i), q \in Adds(k, j) : p < q

BufferInv ==
    /\ applied <= Len(commandBuffer)
    /\ ~applying => applied = 0
    /\ \A p \in DOMAIN commandBuffer : commandBuffer[p].tag \in {"add", "remove"} =>
        \E t \in Object : commandBuffer[p].targets = {t}

IInv ==
    /\ TypeOK
    /\ AllocatorConsistent
    /\ \A k \in Kinds : HandleInv(k)
    /\ open /\ ~poisoned => BufferInv /\ \A k \in Kinds : BatchInv(k) /\ SlotInv(k)

-----------------------------------------------------------------------------
(* Properties.                                                             *)

\* The native world never rejects a command because of an ID: a new object
\* finds its slot vacant or one past the end, and every other command finds
\* its objects, whatever was removed, reused or rolled back before it
\* (NetworkModelError IdOutOfBound, IdAlreadyAssigned, IdNotAssigned).
BatchAccepted ==
    applying /\ applied < Len(commandBuffer) => NativeAccepts(NextCommand)

\* Between batches Java and the native world agree on which objects exist
\* and on how long the slot tables are (ElectricalWorld.applyCommands).
CommittedAgreesWithNative ==
    open /\ ~poisoned /\ commandBuffer = << >> =>
        \A k \in Kinds :
            /\ native[k].occupied = {id \in Ids : ids[k].states[id] = "LIVE"}
            /\ native[k].slots = ids[k].highWaterMark
            /\ ids[k].committedHighWaterMark = ids[k].highWaterMark

\* Taking back a call whose command could not be appended always works: only
\* a rejected batch poisons the world (cancelPendingAdd, cancelPendingRemove).
OnlyRejectionPoisons == [][poisoned' => poisoned \/ applying]_vars

\* A handle is new when it is issued, usable until its object is removed and
\* rejected from then on, also once its ID was reused (requireUsable).
Promise == INSTANCE ObjectHandles WITH
    Handles <- Handle,
    issued <- handles,
    usable <- {h \in Handle : HandleUsable(h)}

HandlesKeepTheirPromise == Promise!Spec
=============================================================================
