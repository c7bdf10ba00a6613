-------------------------- MODULE RuntimeLifecycle --------------------------
(***************************************************************************)
(* Electrical runtimes from create to close (ElectricalRuntime.java,       *)
(* ElectricalEngine.java, DeviceType.java): the one engine of the process, *)
(* the registration of device types, which calls back into the user's code *)
(* that builds their definitions, and the two ways to close.               *)
(*                                                                         *)
(* The methods of a runtime are synchronized on it, so its steps below are *)
(* taken by one thread at a time; a callback runs with the monitor held    *)
(* and may call the runtime again.  Device types are shared by all         *)
(* runtimes, and creating a runtime is synchronized with nothing but the   *)
(* atomic engineAlreadyInstantiated: what a runtime does while it closes   *)
(* interleaves with what its successor does.                               *)
(***************************************************************************)
EXTENDS Naturals, Sequences

CONSTANTS
    Runtimes,
    Types,        \* custom device types; primitives are never bound
    MaxSystems    \* systems a runtime has at a time

ASSUME MaxSystemsAssumption == MaxSystems \in Nat

NotBound == [runtime |-> "none", definition |-> 0]
ASSUME NoRuntimeAssumption == "none" \notin Runtimes

VARIABLES
    engineAlreadyInstantiated,
    phase,            \* of each runtime
    closeRequested,
    systemCount,
    registering,      \* the types whose callbacks are running, outermost first
    boundTypes,
    native,           \* the type each native definition of the engine was built for
    poisoned,         \* definitionRegistrationPoisoned
    registration      \* of each type: the runtime and definition it is bound to

vars == <<engineAlreadyInstantiated, phase, closeRequested, systemCount, registering,
          boundTypes, native, poisoned, registration>>

\* A closing runtime has closed its engine, an unbinding one has also let
\* the next engine start.
Phases == {"none", "starting", "open", "closing", "unbinding", "closed"}
Registration == [runtime : Runtimes, definition : Nat \ {0}] \cup {NotBound}

TypeOK ==
    /\ engineAlreadyInstantiated \in BOOLEAN
    /\ phase \in [Runtimes -> Phases]
    /\ closeRequested \in [Runtimes -> BOOLEAN]
    /\ systemCount \in [Runtimes -> 0..MaxSystems]
    /\ registering \in [Runtimes -> Seq(Types)]
    /\ boundTypes \in [Runtimes -> Seq(Types)]
    /\ native \in [Runtimes -> Seq(Types)]
    /\ poisoned \in [Runtimes -> BOOLEAN]
    /\ registration \in [Types -> Registration]

Init ==
    /\ engineAlreadyInstantiated = FALSE
    /\ phase = [r \in Runtimes |-> "none"]
    /\ closeRequested = [r \in Runtimes |-> FALSE]
    /\ systemCount = [r \in Runtimes |-> 0]
    /\ registering = [r \in Runtimes |-> << >>]
    /\ boundTypes = [r \in Runtimes |-> << >>]
    /\ native = [r \in Runtimes |-> << >>]
    /\ poisoned = [r \in Runtimes |-> FALSE]
    /\ registration = [t \in Types |-> NotBound]

Open(r) == phase[r] = "open"
InCallback(r) == registering[r] # << >>
IsRegistering(r, t) == \E i \in DOMAIN registering[r] : registering[r][i] = t
Bound(r, t) == registration[t].runtime = r   \* existingDefinition

Last(s) == s[Len(s)]
WithoutLast(s) == SubSeq(s, 1, Len(s) - 1)

-----------------------------------------------------------------------------
(* ElectricalRuntime.create: the flag is claimed before the native engine  *)
(* is created, and given back when that fails.                             *)

\* Mutant: whether an engine is open is looked up first.
ClaimWhenNoneIsOpen(r) ==
    /\ phase[r] = "none"
    /\ \A other \in Runtimes : ~Open(other)
    /\ engineAlreadyInstantiated' = TRUE
    /\ phase' = [phase EXCEPT ![r] = "starting"]
    /\ UNCHANGED <<closeRequested, systemCount, registering, boundTypes, native, poisoned,
                   registration>>

ClaimEngine(r) ==
    /\ phase[r] = "none"
    /\ ~engineAlreadyInstantiated
    /\ engineAlreadyInstantiated' = TRUE
    /\ phase' = [phase EXCEPT ![r] = "starting"]
    /\ UNCHANGED <<closeRequested, systemCount, registering, boundTypes, native, poisoned,
                   registration>>

StartEngine(r) ==
    /\ phase[r] = "starting"
    /\ \/ phase' = [phase EXCEPT ![r] = "open"] /\ UNCHANGED engineAlreadyInstantiated
       \/ phase' = [phase EXCEPT ![r] = "none"] /\ engineAlreadyInstantiated' = FALSE
    /\ UNCHANGED <<closeRequested, systemCount, registering, boundTypes, native, poisoned,
                   registration>>

-----------------------------------------------------------------------------
(* register and resolveDefinition.                                         *)

BeginResolve(r, t) ==
    /\ ~Bound(r, t)
    /\ ~IsRegistering(r, t)   \* else "Recursive device type dependency"
    /\ registering' = [registering EXCEPT ![r] = Append(@, t)]
    /\ UNCHANGED <<engineAlreadyInstantiated, phase, closeRequested, systemCount, boundTypes,
                   native, poisoned, registration>>

Register(r, t) ==
    /\ Open(r) /\ ~closeRequested[r]
    /\ ~InCallback(r)
    /\ systemCount[r] = 0
    /\ BeginResolve(r, t)

\* The callback uses another type as an element, or registers it: both
\* resolve it while the first is being registered.
ResolveChild(r, t) ==
    /\ Open(r)
    /\ InCallback(r)
    /\ BeginResolve(r, t)

\* The callback threw, or an exception of a child went through it.
CallbackThrows(r) ==
    /\ InCallback(r)
    /\ registering' = [registering EXCEPT ![r] = WithoutLast(@)]
    /\ UNCHANGED <<engineAlreadyInstantiated, phase, closeRequested, systemCount, boundTypes,
                   native, poisoned, registration>>

\* Mutant: the ID of the definition before.
BindPrevious(r, t) ==
    registration' = [registration EXCEPT ![t] = [runtime |-> r, definition |-> Len(native[r])]]

Bind(r, t) ==
    registration' = [registration EXCEPT ![t] = [runtime |-> r, definition |-> Len(native[r]) + 1]]

\* The callback returned: engine.registerDefinition, then bind.
FinishRegistration(r) ==
    LET t == Last(registering[r]) IN
    /\ InCallback(r)
    /\ ~poisoned[r]
    /\ ~Bound(r, t)
    /\ native' = [native EXCEPT ![r] = Append(@, t)]
    /\ boundTypes' = [boundTypes EXCEPT ![r] = Append(@, t)]
    /\ Bind(r, t)
    /\ registering' = [registering EXCEPT ![r] = WithoutLast(@)]
    /\ UNCHANGED <<engineAlreadyInstantiated, phase, closeRequested, systemCount, poisoned>>

\* The native engine rejected the definition or panicked, or the type could
\* not be bound after it was registered; the exception leaves resolveDefinition.
RegistrationFails(r) ==
    LET t == Last(registering[r]) IN
    /\ InCallback(r)
    /\ \/ UNCHANGED <<native, poisoned>>
       \/ /\ ~poisoned[r]
          /\ poisoned' = [poisoned EXCEPT ![r] = TRUE]
          /\ UNCHANGED native
       \/ /\ ~poisoned[r]
          /\ native' = [native EXCEPT ![r] = Append(@, t)]
          /\ UNCHANGED poisoned
    /\ registering' = [registering EXCEPT ![r] = WithoutLast(@)]
    /\ UNCHANGED <<engineAlreadyInstantiated, phase, closeRequested, systemCount, boundTypes,
                   registration>>

-----------------------------------------------------------------------------
(* Systems.                                                                *)

\* Mutant: also from a callback.
CreateSystemInCallback(r) ==
    /\ Open(r) /\ ~closeRequested[r]
    /\ systemCount[r] < MaxSystems
    /\ systemCount' = [systemCount EXCEPT ![r] = @ + 1]
    /\ UNCHANGED <<engineAlreadyInstantiated, phase, closeRequested, registering, boundTypes,
                   native, poisoned, registration>>

CreateSystem(r) ==
    /\ Open(r) /\ ~closeRequested[r]
    /\ ~InCallback(r)
    /\ systemCount[r] < MaxSystems
    /\ systemCount' = [systemCount EXCEPT ![r] = @ + 1]
    /\ UNCHANGED <<engineAlreadyInstantiated, phase, closeRequested, registering, boundTypes,
                   native, poisoned, registration>>

\* Mutant: the last system does not close the runtime.
ReleaseSystemOnly(r) ==
    /\ systemCount[r] > 0
    /\ systemCount' = [systemCount EXCEPT ![r] = @ - 1]
    /\ UNCHANGED <<engineAlreadyInstantiated, phase, closeRequested, registering, boundTypes,
                   native, poisoned, registration>>

\* releaseSystem; the last one closes a runtime that was asked to close.
ReleaseSystem(r) ==
    /\ systemCount[r] > 0
    /\ systemCount' = [systemCount EXCEPT ![r] = @ - 1]
    /\ phase' = [phase EXCEPT ![r] =
            IF closeRequested[r] /\ systemCount[r] = 1 THEN "closing" ELSE @]
    /\ UNCHANGED <<engineAlreadyInstantiated, closeRequested, registering, boundTypes, native,
                   poisoned, registration>>

-----------------------------------------------------------------------------
(* requestClose and close.                                                 *)

CanClose(r) == systemCount[r] = 0 /\ ~InCallback(r)

\* In a callback the close that follows throws; the request stays.
RequestClose(r) ==
    /\ Open(r) /\ ~closeRequested[r]
    /\ closeRequested' = [closeRequested EXCEPT ![r] = TRUE]
    /\ phase' = [phase EXCEPT ![r] = IF CanClose(r) THEN "closing" ELSE @]
    /\ UNCHANGED <<engineAlreadyInstantiated, systemCount, registering, boundTypes, native,
                   poisoned, registration>>

Close(r) ==
    /\ Open(r)
    /\ CanClose(r)
    /\ phase' = [phase EXCEPT ![r] = "closing"]
    /\ UNCHANGED <<engineAlreadyInstantiated, closeRequested, systemCount, registering,
                   boundTypes, native, poisoned, registration>>

\* The end of ElectricalEngine.close.
ReleaseEngine(r) ==
    /\ phase[r] = "closing"
    /\ engineAlreadyInstantiated' = FALSE
    /\ phase' = [phase EXCEPT ![r] = "unbinding"]
    /\ UNCHANGED <<closeRequested, systemCount, registering, boundTypes, native, poisoned,
                   registration>>

UnbindAlways(r, t) ==   \* mutant
    registration' = [registration EXCEPT ![t] = NotBound]

\* Another runtime may have bound the type by now.
Unbind(r, t) ==
    registration' = IF Bound(r, t) THEN [registration EXCEPT ![t] = NotBound] ELSE registration

\* Mutant: the loop stops before the first type.
UnbindAllButOne(r) ==
    /\ phase[r] = "unbinding"
    /\ IF Len(boundTypes[r]) > 1
       THEN /\ Unbind(r, Last(boundTypes[r]))
            /\ boundTypes' = [boundTypes EXCEPT ![r] = WithoutLast(@)]
            /\ UNCHANGED phase
       ELSE /\ phase' = [phase EXCEPT ![r] = "closed"]
            /\ boundTypes' = [boundTypes EXCEPT ![r] = << >>]
            /\ UNCHANGED registration
    /\ UNCHANGED <<engineAlreadyInstantiated, closeRequested, systemCount, registering, native,
                   poisoned>>

\* The loop over boundTypes, from the last to the first.
UnbindTypes(r) ==
    /\ phase[r] = "unbinding"
    /\ IF boundTypes[r] # << >>
       THEN /\ Unbind(r, Last(boundTypes[r]))
            /\ boundTypes' = [boundTypes EXCEPT ![r] = WithoutLast(@)]
            /\ UNCHANGED phase
       ELSE /\ phase' = [phase EXCEPT ![r] = "closed"]
            /\ UNCHANGED <<registration, boundTypes>>
    /\ UNCHANGED <<engineAlreadyInstantiated, closeRequested, systemCount, registering, native,
                   poisoned>>

-----------------------------------------------------------------------------

ClosingStep(r) == ReleaseEngine(r) \/ UnbindTypes(r)

Next == \E r \in Runtimes :
    \/ ClaimEngine(r) \/ StartEngine(r)
    \/ \E t \in Types : Register(r, t) \/ ResolveChild(r, t)
    \/ CallbackThrows(r) \/ FinishRegistration(r) \/ RegistrationFails(r)
    \/ CreateSystem(r) \/ ReleaseSystem(r)
    \/ RequestClose(r) \/ Close(r) \/ ClosingStep(r)

Spec == Init /\ [][Next]_vars

\* A thread that closes a runtime finishes; callbacks, and the users of
\* systems, may take as long as they like.
FairSpec == Spec /\ \A r \in Runtimes : WF_vars(ClosingStep(r))

\* State constraint for TLC: definitions of types that could not be bound
\* stay in the native engine.
MaxDefinitions == 3
FewDefinitions == \A r \in Runtimes : Len(native[r]) <= MaxDefinitions

-----------------------------------------------------------------------------
(* Properties.                                                             *)

EngineAlive(r) == Open(r)

\* "Only one electrical runtime can be active in the process", whichever
\* threads create and close runtimes.
OneEngineAtATime ==
    \A r, s \in Runtimes : EngineAlive(r) /\ EngineAlive(s) => r = s

\* The types a runtime bound stay bound to it, each to the native definition
\* that was built for it, though the runtime before may still be unbinding
\* the same types (DeviceType.unbind).
BoundTypesHaveTheirDefinition ==
    \A r \in Runtimes : Open(r) =>
        \A i \in DOMAIN boundTypes[r] :
            LET t == boundTypes[r][i] IN
            /\ Bound(r, t)
            /\ registration[t].definition \in DOMAIN native[r]
            /\ native[r][registration[t].definition] = t

\* A closed runtime left no type bound to it: the type, which may be a
\* static of a class, would keep a definition of an engine that is gone.
ClosedRuntimesAreForgotten ==
    \A r \in Runtimes, t \in Types : phase[r] = "closed" => ~Bound(r, t)

\* The definitions that systems look up without synchronization do not
\* change while a system of the runtime exists (requireDefinition).
DefinitionsStableWhileSystemsRun ==
    [][\A r \in Runtimes : systemCount[r] > 0 /\ systemCount'[r] > 0 =>
        \A t \in Types : (Bound(r, t) \/ Bound(r, t)') => registration'[t] = registration[t]]_vars

\* A close that was requested while systems were active happens, unless a
\* system is never closed ("closes automatically when the last active
\* electrical system closes").
RequestedCloseFollowsSystems ==
    \A r \in Runtimes :
        [](closeRequested[r] /\ systemCount[r] > 0 =>
            []<>(systemCount[r] > 0) \/ <>(phase[r] = "closed"))

\* "If no electrical systems are active, this method closes the runtime
\* immediately": a runtime that no call is inside of and that was asked to
\* close is open only while it has systems (ElectricalRuntime.requestClose).
RequestCloseClosesWithoutSystems ==
    \A r \in Runtimes :
        Open(r) /\ closeRequested[r] /\ ~InCallback(r) => systemCount[r] > 0

\* One runtime at a time has the engine, and a type that is bound to a runtime
\* has the definition this runtime gave it (engineAlreadyInstantiated, DeviceType.bind).
EnginesAndTypesAgree ==
    /\ TypeOK
    /\ OneEngineAtATime
    /\ BoundTypesHaveTheirDefinition
=============================================================================
