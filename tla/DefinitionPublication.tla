----------------------- MODULE DefinitionPublication -----------------------
(***************************************************************************)
(* The definition store that an engine handle and its worlds share         *)
(* (hynergy-ffi/src/lib.rs, DefinitionStore, and DefinitionRegistry).      *)
(* Threads register definitions while others apply commands to worlds and  *)
(* tick them.  A registration decodes against a snapshot it took before it *)
(* waited for the registration mutex, copies the registry that is          *)
(* published when it has the mutex, and publishes the copy.  A world call  *)
(* works on the snapshot it took when it began.                            *)
(*                                                                         *)
(* The read and the write guard of the published registry live for one     *)
(* expression that calls nothing, so taking a snapshot is one step here,   *)
(* and so is publishing.  The registration mutex is held over several      *)
(* steps; a panic while it is held poisons it.                             *)
(***************************************************************************)
EXTENDS Naturals, Sequences

CONSTANTS
    Registrars,       \* threads that register definitions
    Worlds,           \* worlds, each used by one thread at a time
    Bodies,           \* what tells definitions apart
    Compositions,     \* the sets of IDs a caller may name as elements
    Primitives,       \* how many built-in definitions there are
    MaxDefinitions    \* the highest DefinitionId, 2^32-1 in the code

ASSUME PrimitivesAssumption == Primitives \in Nat
ASSUME MaxDefinitionsAssumption == MaxDefinitions \in Nat /\ Primitives <= MaxDefinitions

\* No thread holds the mutex.
NoThread == "none"
ASSUME NoThreadAssumption == NoThread \notin Registrars

\* A caller may name any ID as an element, also one that does not exist yet.
DefinitionIds == 1..(MaxDefinitions + 1)
ASSUME CompositionsAssumption == Compositions \subseteq SUBSET DefinitionIds

Primitive == [body |-> "primitive", elements |-> {}]
Composite == [body : Bodies, elements : Compositions]
Definition == Composite \cup {Primitive}

Codes == {"Success", "UnknownDefinition", "DefinitionIdExhausted", "InvalidInput", "InternalPanic"}
Phases == {"idle", "decoding", "waiting", "copying", "publishing", "returning"}

VARIABLES
    published,      \* the registry behind the RwLock
    registration,   \* the thread that holds the registration mutex, or NoThread
    lockPoisoned,   \* a thread panicked while it held the mutex
    calls,          \* of each registering thread: its phase and its locals
    engineOpen,     \* the engine handle is not destroyed
    worlds,         \* of each world: its snapshot while a call runs, its devices
    acknowledged    \* IDs that were returned, with what was registered under them

vars == <<published, registration, lockPoisoned, calls, engineOpen, worlds, acknowledged>>

NoSnapshot == << >>
IdleCall == [phase |-> "idle", definition |-> Primitive, base |-> NoSnapshot,
             next |-> NoSnapshot, id |-> 0, code |-> "Success"]
ClosedWorld == [open |-> FALSE, busy |-> FALSE, snapshot |-> NoSnapshot, devices |-> {}]

Entry == [id : DefinitionIds, definition : Definition]
Call == [phase : Phases, definition : Definition, base : Seq(Definition),
         next : Seq(Definition), id : Nat, code : Codes]
World == [open : BOOLEAN, busy : BOOLEAN, snapshot : Seq(Definition), devices : SUBSET Entry]

TypeOK ==
    /\ published \in Seq(Definition)
    /\ registration \in Registrars \cup {NoThread}
    /\ lockPoisoned \in BOOLEAN
    /\ calls \in [Registrars -> Call]
    /\ engineOpen \in BOOLEAN
    /\ worlds \in [Worlds -> World]
    /\ acknowledged \subseteq Entry

\* DefinitionRegistry::new: the primitives have the first IDs.
NewRegistry == [id \in 1..Primitives |-> Primitive]

Init ==
    /\ published = NewRegistry
    /\ registration = NoThread
    /\ lockPoisoned = FALSE
    /\ calls = [t \in Registrars |-> IdleCall]
    /\ engineOpen = TRUE
    /\ worlds = [w \in Worlds |-> ClosedWorld]
    /\ acknowledged = {}

-----------------------------------------------------------------------------
(* The registry.                                                           *)

KnowsOneMore(registry, definition) ==   \* mutant
    definition.elements \subseteq 1..(Len(registry) + 1)

\* get finds the definition of an ID.
Knows(registry, definition) == definition.elements \subseteq DOMAIN registry

IdsExhaustedLate(registry) == Len(registry) > MaxDefinitions   \* mutant

IdsExhausted(registry) == Len(registry) + 1 > MaxDefinitions

Register(registry, definition) == Append(registry, definition)

-----------------------------------------------------------------------------
(* hynergy_engine_register_definition.                                     *)

InPhase(t, phase) == calls[t].phase = phase

Return(t, code) ==
    calls' = [calls EXCEPT ![t].phase = "returning", ![t].code = code,
                           ![t].base = NoSnapshot, ![t].next = NoSnapshot]

\* The call takes the snapshot it decodes against.
BeginRegistration(t, definition) ==
    /\ engineOpen
    /\ InPhase(t, "idle")
    /\ calls' = [calls EXCEPT ![t].phase = "decoding", ![t].definition = definition,
                              ![t].base = published, ![t].id = 0]
    /\ UNCHANGED <<published, registration, lockPoisoned, engineOpen, worlds, acknowledged>>

\* decode_definition_buffer: the elements must be known, everything else
\* about the input may be wrong or make the decoder panic.
Decode(t) ==
    /\ InPhase(t, "decoding")
    /\ \/ /\ Knows(calls[t].base, calls[t].definition)
          /\ \/ calls' = [calls EXCEPT ![t].phase = "waiting"]
             \/ \E code \in {"InvalidInput", "InternalPanic"} : Return(t, code)
       \/ /\ ~Knows(calls[t].base, calls[t].definition)
          /\ \E code \in {"UnknownDefinition", "InvalidInput", "InternalPanic"} : Return(t, code)
    /\ UNCHANGED <<published, registration, lockPoisoned, engineOpen, worlds, acknowledged>>

\* Mutant: the registry is copied before the mutex is locked.
CopyThenLock(t) ==
    /\ InPhase(t, "waiting")
    /\ registration = NoThread
    /\ ~lockPoisoned
    /\ registration' = t
    /\ calls' = [calls EXCEPT ![t].phase = "copying", ![t].next = calls[t].base]
    /\ UNCHANGED <<published, lockPoisoned, engineOpen, worlds, acknowledged>>

\* registration.lock() and the clone of the registry published now.
LockAndCopy(t) ==
    /\ InPhase(t, "waiting")
    /\ registration = NoThread
    /\ ~lockPoisoned
    /\ registration' = t
    /\ calls' = [calls EXCEPT ![t].phase = "copying", ![t].next = published]
    /\ UNCHANGED <<published, lockPoisoned, engineOpen, worlds, acknowledged>>

\* registration.lock().expect() on a poisoned mutex.
LockPoisoned(t) ==
    /\ InPhase(t, "waiting")
    /\ registration = NoThread
    /\ lockPoisoned
    /\ Return(t, "InternalPanic")
    /\ UNCHANGED <<published, registration, lockPoisoned, engineOpen, worlds, acknowledged>>

\* Mutant: an error leaves the mutex locked.
RegisterInCopyLocked(t) ==
    LET next == calls[t].next
        definition == calls[t].definition
    IN
    /\ InPhase(t, "copying")
    /\ IF IdsExhausted(next) \/ ~Knows(next, definition)
       THEN Return(t, "UnknownDefinition")
       ELSE calls' = [calls EXCEPT ![t].phase = "publishing",
                                   ![t].next = Register(next, definition),
                                   ![t].id = Len(next) + 1]
    /\ UNCHANGED <<published, registration, lockPoisoned, engineOpen, worlds, acknowledged>>

\* register_decoded_definition appends to the copy or returns an error,
\* which unlocks the mutex.
RegisterInCopy(t) ==
    LET next == calls[t].next
        definition == calls[t].definition
    IN
    /\ InPhase(t, "copying")
    /\ \/ /\ IdsExhausted(next)
          /\ registration' = NoThread
          /\ Return(t, "DefinitionIdExhausted")
       \/ /\ ~IdsExhausted(next) /\ ~Knows(next, definition)
          /\ registration' = NoThread
          /\ Return(t, "UnknownDefinition")
       \/ /\ ~IdsExhausted(next) /\ Knows(next, definition)
          /\ calls' = [calls EXCEPT ![t].phase = "publishing",
                                    ![t].next = Register(next, definition),
                                    ![t].id = Len(next) + 1]
          /\ UNCHANGED registration
    /\ UNCHANGED <<published, lockPoisoned, engineOpen, worlds, acknowledged>>

Publish(t) ==
    /\ InPhase(t, "publishing")
    /\ published' = calls[t].next
    /\ registration' = NoThread
    /\ Return(t, "Success")
    /\ UNCHANGED <<lockPoisoned, engineOpen, worlds, acknowledged>>

\* Mutant: a panic leaves the mutex locked.
PanicKeepingMutex(t) ==
    /\ InPhase(t, "copying") \/ InPhase(t, "publishing")
    /\ lockPoisoned' = TRUE
    /\ Return(t, "InternalPanic")
    /\ UNCHANGED <<published, registration, engineOpen, worlds, acknowledged>>

\* A panic between the lock and the publication: the guard is dropped while
\* the thread unwinds to catch_unwind.
PanicInRegister(t) ==
    /\ InPhase(t, "copying") \/ InPhase(t, "publishing")
    /\ registration' = NoThread
    /\ lockPoisoned' = TRUE
    /\ Return(t, "InternalPanic")
    /\ UNCHANGED <<published, engineOpen, worlds, acknowledged>>

\* Mutant: the ID of a failed registration is handed out.
ReturnAnyId(t) ==
    /\ InPhase(t, "returning")
    /\ acknowledged' = acknowledged \cup {[id |-> calls[t].id, definition |-> calls[t].definition]}
    /\ calls' = [calls EXCEPT ![t] = IdleCall]
    /\ UNCHANGED <<published, registration, lockPoisoned, engineOpen, worlds>>

\* The caller reads the result; only a success has a definition ID.
ReturnFromRegistration(t) ==
    /\ InPhase(t, "returning")
    /\ acknowledged' =
        IF calls[t].code = "Success"
        THEN acknowledged \cup {[id |-> calls[t].id, definition |-> calls[t].definition]}
        ELSE acknowledged
    /\ calls' = [calls EXCEPT ![t] = IdleCall]
    /\ UNCHANGED <<published, registration, lockPoisoned, engineOpen, worlds>>

-----------------------------------------------------------------------------
(* Worlds, which keep the store when the engine handle is destroyed.       *)

CreateWorld(w) ==
    /\ engineOpen
    /\ ~worlds[w].open
    /\ worlds' = [worlds EXCEPT ![w].open = TRUE]
    /\ UNCHANGED <<published, registration, lockPoisoned, calls, engineOpen, acknowledged>>

DestroyWorld(w) ==
    /\ worlds[w].open /\ ~worlds[w].busy
    /\ worlds' = [worlds EXCEPT ![w] = ClosedWorld]
    /\ UNCHANGED <<published, registration, lockPoisoned, calls, engineOpen, acknowledged>>

\* The caller keeps other calls on the engine handle away.
DestroyEngine ==
    /\ engineOpen
    /\ \A t \in Registrars : InPhase(t, "idle")
    /\ engineOpen' = FALSE
    /\ UNCHANGED <<published, registration, lockPoisoned, calls, worlds, acknowledged>>

\* apply_commands, tick and subscribe_observer begin with a snapshot.
BeginWorldCall(w) ==
    /\ worlds[w].open /\ ~worlds[w].busy
    /\ worlds' = [worlds EXCEPT ![w].busy = TRUE, ![w].snapshot = published]
    /\ UNCHANGED <<published, registration, lockPoisoned, calls, engineOpen, acknowledged>>

\* An AddDevice command of the call; an ID the snapshot does not know is an
\* error of the command.
AddDevice(w, id) ==
    /\ worlds[w].busy
    /\ id \in DOMAIN worlds[w].snapshot
    /\ worlds' = [worlds EXCEPT ![w].devices =
            @ \cup {[id |-> id, definition |-> worlds[w].snapshot[id]]}]
    /\ UNCHANGED <<published, registration, lockPoisoned, calls, engineOpen, acknowledged>>

EndWorldCall(w) ==
    /\ worlds[w].busy
    /\ worlds' = [worlds EXCEPT ![w].busy = FALSE, ![w].snapshot = NoSnapshot]
    /\ UNCHANGED <<published, registration, lockPoisoned, calls, engineOpen, acknowledged>>

-----------------------------------------------------------------------------

\* The steps of a registration that has begun.
RegistrationStep(t) ==
    \/ Decode(t) \/ LockAndCopy(t) \/ LockPoisoned(t) \/ RegisterInCopy(t)
    \/ Publish(t) \/ PanicInRegister(t) \/ ReturnFromRegistration(t)

Next ==
    \/ \E t \in Registrars :
        \/ \E definition \in Composite : BeginRegistration(t, definition)
        \/ RegistrationStep(t)
    \/ \E w \in Worlds :
        \/ CreateWorld(w) \/ DestroyWorld(w) \/ BeginWorldCall(w) \/ EndWorldCall(w)
        \/ \E id \in DefinitionIds : AddDevice(w, id)
    \/ DestroyEngine

Spec == Init /\ [][Next]_vars

\* A thread that is inside a call keeps running.  Nothing makes a caller
\* begin a call, and the mutex is not fair: of several threads that wait,
\* any may get it.
Fairness ==
    /\ \A t \in Registrars :
        /\ WF_vars(Decode(t))
        /\ WF_vars(RegisterInCopy(t) \/ Publish(t))
        /\ WF_vars(ReturnFromRegistration(t))
    /\ WF_vars(\E t \in Registrars : LockAndCopy(t) \/ LockPoisoned(t))

FairSpec == Spec /\ Fairness

-----------------------------------------------------------------------------
(* Properties.                                                             *)

Extends(longer, shorter) ==
    /\ Len(shorter) <= Len(longer)
    /\ \A id \in DOMAIN shorter : longer[id] = shorter[id]

\* An ID that a registration returned names the definition it registered,
\* whatever other threads published at the same time: no registration is
\* lost and no ID is given out twice (DefinitionStore.register).
AcknowledgedIdsHold ==
    \A entry \in acknowledged :
        entry.id \in DOMAIN published /\ published[entry.id] = entry.definition

\* What a definition was decoded against is still what its elements mean when
\* it is registered, though the snapshot may be older than the registry:
\* the counts of terminals and parameters that were compared are right.
DecodedAgainstCurrent ==
    \A t \in Registrars : calls[t].phase \in {"waiting", "copying", "publishing"} =>
        \A id \in calls[t].definition.elements :
            /\ id \in DOMAIN calls[t].base /\ id \in DOMAIN published
            /\ calls[t].base[id] = published[id]

\* A world call finds the definition of each of its devices in its snapshot,
\* the one the device was created with, also when the engine is gone
\* ("live device definition must remain registered").
LiveDefinitionsStayRegistered ==
    \A w \in Worlds : worlds[w].busy =>
        \A device \in worlds[w].devices :
            /\ device.id \in DOMAIN worlds[w].snapshot
            /\ worlds[w].snapshot[device.id] = device.definition

\* The store is a catalog that only grows.
Catalog == INSTANCE DefinitionCatalog WITH
    InitialCatalog <- NewRegistry,
    Definitions <- Composite,
    Limit <- MaxDefinitions,
    catalog <- published,
    promised <- acknowledged

StoreIsCatalog == Catalog!Spec

\* Registrations end: unless callers begin new ones for ever, there comes a
\* time when none is under way, also after a panic poisoned the mutex.
RegistrationsEnd ==
    \/ []<>(\A t \in Registrars : InPhase(t, "idle"))
    \/ []<><<\E t \in Registrars, definition \in Composite : BeginRegistration(t, definition)>>_vars

\* An ID that was returned, or that a world uses, names its definition in every
\* registry published later, whatever other threads register meanwhile.
PublishedIdsHold ==
    /\ TypeOK
    /\ AcknowledgedIdsHold
    /\ LiveDefinitionsStayRegistered
=============================================================================
