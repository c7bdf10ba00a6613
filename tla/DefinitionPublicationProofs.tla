-------------------- MODULE DefinitionPublicationProofs --------------------
(***************************************************************************)
(* The registry behind the RwLock only grows, by what the holder of the    *)
(* mutex adds to a copy that nobody else can have changed: so what one     *)
(* thread knows about an ID stays true while others publish.               *)
(***************************************************************************)
EXTENDS DefinitionPublication, SequenceTheorems, TLAPS

\* An ID and its definition in a registry.
HoldsIn(registry, id, definition) == id \in DOMAIN registry /\ registry[id] = definition

\* What is true of the call c of a thread t when the registry and the holder
\* of the mutex are these.
CallInv(t, c, registry, holder) ==
    /\ c.phase # "idle" => c.definition \in Composite
    /\ c.phase \in {"decoding", "waiting", "copying", "publishing"} => Extends(registry, c.base)
    /\ c.phase \in {"waiting", "copying", "publishing"} => Knows(c.base, c.definition)
    /\ c.phase \in {"copying", "publishing"} => holder = t
    /\ c.phase = "copying" => c.next = registry
    /\ c.phase = "publishing" =>
        /\ Len(registry) + 1 <= MaxDefinitions
        /\ Knows(registry, c.definition)
        /\ c.next = Append(registry, c.definition)
        /\ c.id = Len(registry) + 1
    /\ c.phase = "returning" /\ c.code = "Success" => HoldsIn(registry, c.id, c.definition)

WorldInv(world, registry) ==
    /\ world.busy =>
        /\ Extends(registry, world.snapshot)
        /\ \A device \in world.devices : HoldsIn(world.snapshot, device.id, device.definition)
    /\ \A device \in world.devices : HoldsIn(registry, device.id, device.definition)

PublicationInv ==
    /\ TypeOK
    /\ Len(published) <= MaxDefinitions
    /\ \A t \in Registrars : CallInv(t, calls[t], published, registration)
    /\ \A w \in Worlds : WorldInv(worlds[w], published)
    /\ AcknowledgedIdsHold

-----------------------------------------------------------------------------
\* A registry with one more definition.
LEMMA RegisterExtends ==
    ASSUME NEW registry \in Seq(Definition), NEW definition \in Definition
    PROVE  LET longer == Append(registry, definition) IN
           /\ longer \in Seq(Definition)
           /\ Len(longer) = Len(registry) + 1
           /\ Extends(longer, registry)
           /\ HoldsIn(longer, Len(registry) + 1, definition)
<1> DEFINE longer == Append(registry, definition)
<1>1. /\ longer \in Seq(Definition)
      /\ Len(longer) = Len(registry) + 1
      /\ Len(registry) \in Nat
      /\ longer[Len(registry) + 1] = definition
      /\ \A id \in 1..Len(registry) : longer[id] = registry[id]
      /\ DOMAIN registry = 1..Len(registry)
      /\ DOMAIN longer = 1..Len(longer)
  BY AppendProperties, LenProperties
<1> QED BY <1>1 DEF Extends, HoldsIn

\* What holds in a registry holds in one that extends it.
LEMMA HoldsInExtension ==
    ASSUME NEW registry \in Seq(Definition), NEW longer \in Seq(Definition),
           Extends(longer, registry), NEW id, NEW definition,
           HoldsIn(registry, id, definition)
    PROVE  HoldsIn(longer, id, definition)
<1>1. DOMAIN registry = 1..Len(registry) /\ DOMAIN longer = 1..Len(longer)
      /\ Len(registry) \in Nat /\ Len(longer) \in Nat
  BY LenProperties
<1> QED BY <1>1 DEF Extends, HoldsIn

LEMMA ExtendsIsTransitive ==
    ASSUME NEW a \in Seq(Definition), NEW b \in Seq(Definition), NEW c \in Seq(Definition),
           Extends(c, b), Extends(b, a)
    PROVE  Extends(c, a)
<1>1. DOMAIN a = 1..Len(a) /\ DOMAIN b = 1..Len(b)
      /\ Len(a) \in Nat /\ Len(b) \in Nat /\ Len(c) \in Nat
  BY LenProperties
<1> QED BY <1>1 DEF Extends

\* A call that does not hold the mutex sees another thread publish.
LEMMA OtherCallsKept ==
    ASSUME NEW t, NEW c \in Call, NEW holder, NEW nextHolder,
           NEW registry \in Seq(Definition), NEW longer \in Seq(Definition),
           Extends(longer, registry), CallInv(t, c, registry, holder), holder # t
    PROVE  CallInv(t, c, longer, nextHolder)
<1>1. c.phase \notin {"copying", "publishing"}
  BY DEF CallInv
<1>2. c.base \in Seq(Definition)
  BY DEF Call
<1>3. c.phase \in {"decoding", "waiting"} => Extends(longer, c.base)
  BY <1>2, ExtendsIsTransitive DEF CallInv
<1>4. c.phase = "returning" /\ c.code = "Success" => HoldsIn(longer, c.id, c.definition)
  BY HoldsInExtension DEF CallInv
<1> QED BY <1>1, <1>3, <1>4 DEF CallInv

\* Worlds whose snapshot is older than what is published now.
LEMMA WorldsKept ==
    ASSUME NEW world \in World,
           NEW registry \in Seq(Definition), NEW longer \in Seq(Definition),
           Extends(longer, registry), WorldInv(world, registry)
    PROVE  WorldInv(world, longer)
<1>1. world.snapshot \in Seq(Definition)
  BY DEF World
<1>2. world.busy => Extends(longer, world.snapshot)
  BY <1>1, ExtendsIsTransitive DEF WorldInv
<1>3. \A device \in world.devices : HoldsIn(longer, device.id, device.definition)
  BY HoldsInExtension DEF WorldInv
<1> QED BY <1>2, <1>3 DEF WorldInv

-----------------------------------------------------------------------------
\* The store of a new engine.
LEMMA PublicationInvInit == Init => PublicationInv
<1> SUFFICES ASSUME Init PROVE PublicationInv
  OBVIOUS
<1>1. NewRegistry \in Seq(Definition) /\ Len(NewRegistry) = Primitives
  BY PrimitivesAssumption, SeqDef DEF NewRegistry, Definition
<1>2. << >> \in Seq(Definition)
  OBVIOUS
<1>3. TypeOK
  BY <1>1, <1>2, NoThreadAssumption
  DEF Init, TypeOK, IdleCall, ClosedWorld, NoSnapshot, Call, World, Phases, Codes, Definition
<1>4. \A t \in Registrars : CallInv(t, calls[t], published, registration)
  BY DEF Init, IdleCall, CallInv
<1>5. \A w \in Worlds : WorldInv(worlds[w], published)
  BY DEF Init, ClosedWorld, WorldInv
<1> QED BY <1>1, <1>3, <1>4, <1>5, MaxDefinitionsAssumption DEF Init, PublicationInv, AcknowledgedIdsHold

\* A step of the thread t that publishes nothing: every other call is what it
\* was, unless t takes the mutex from it.
LEMMA CallStep ==
    ASSUME PublicationInv, NEW t \in Registrars, NEW c \in Call,
           calls' = [calls EXCEPT ![t] = c],
           CallInv(t, c, published, registration'),
           registration' \in Registrars \cup {NoThread},
           registration' = registration \/ registration = t \/ registration = NoThread,
           UNCHANGED <<published, engineOpen, worlds, acknowledged>>,
           lockPoisoned' \in BOOLEAN
    PROVE  PublicationInv'
<1>1. TypeOK'
  BY DEF PublicationInv, TypeOK
<1>2. ASSUME NEW u \in Registrars PROVE CallInv(u, calls'[u], published', registration')
  <2>1. CASE u = t
    BY <2>1 DEF PublicationInv, TypeOK
  <2>2. CASE u # t
    <3>1. calls'[u] = calls[u] /\ CallInv(u, calls[u], published, registration)
      BY <2>2 DEF PublicationInv, TypeOK
    <3>2. registration' = registration \/ registration # u
      BY <2>2, NoThreadAssumption
    <3> QED BY <3>1, <3>2 DEF CallInv
  <2> QED BY <2>1, <2>2
<1> QED BY <1>1, <1>2 DEF PublicationInv, AcknowledgedIdsHold

\* A call that returns anything but a success.
LEMMA ReturnStep ==
    ASSUME PublicationInv, NEW t \in Registrars, calls[t].phase # "idle",
           NEW code \in Codes \ {"Success"}, Return(t, code)
    PROVE  \E c \in Call : /\ calls' = [calls EXCEPT ![t] = c]
                           /\ \A holder : CallInv(t, c, published, holder)
<1> DEFINE c == [calls[t] EXCEPT !.phase = "returning", !.code = code,
                                 !.base = NoSnapshot, !.next = NoSnapshot]
<1>1. calls[t] \in Call /\ CallInv(t, calls[t], published, registration)
  BY DEF PublicationInv, TypeOK
<1>2. c \in Call
  <2>1. NoSnapshot \in Seq(Definition)
    BY DEF NoSnapshot
  <2> QED BY <1>1, <2>1 DEF Call, Phases
<1>3. calls' = [calls EXCEPT ![t] = c]
  BY DEF Return, PublicationInv, TypeOK
<1>4. c.phase = "returning" /\ c.code # "Success" /\ c.definition = calls[t].definition
  BY <1>1 DEF Call
<1>5. \A holder : CallInv(t, c, published, holder)
  BY <1>1, <1>4 DEF CallInv
<1> QED BY <1>2, <1>3, <1>5

\* A call begins with the registry that is published.
LEMMA BeginKeepsInv ==
    ASSUME PublicationInv, NEW t \in Registrars, NEW definition \in Composite,
           BeginRegistration(t, definition)
    PROVE  PublicationInv'
<1> DEFINE c == [calls[t] EXCEPT !.phase = "decoding", !.definition = definition,
                                 !.base = published, !.id = 0]
<1>1. calls[t] \in Call /\ published \in Seq(Definition) /\ definition \in Definition
  BY DEF PublicationInv, TypeOK, Definition
<1>2. c \in Call
  BY <1>1 DEF Call, Phases
<1>3. calls' = [calls EXCEPT ![t] = c]
  BY DEF BeginRegistration, PublicationInv, TypeOK
<1>4. c.phase = "decoding" /\ c.definition = definition /\ c.base = published
  BY <1>1 DEF Call
<1>5. Extends(published, published)
  BY <1>1, LenProperties DEF Extends
<1>6. CallInv(t, c, published, registration')
  BY <1>4, <1>5 DEF CallInv
<1> HIDE DEF c
<1> QED BY <1>2, <1>3, <1>6, CallStep DEF BeginRegistration, PublicationInv, TypeOK

LEMMA DecodeKeepsInv ==
    ASSUME PublicationInv, NEW t \in Registrars, Decode(t)
    PROVE  PublicationInv'
<1>1. CASE /\ Knows(calls[t].base, calls[t].definition)
           /\ calls' = [calls EXCEPT ![t].phase = "waiting"]
  <2> DEFINE c == [calls[t] EXCEPT !.phase = "waiting"]
  <2>1. calls[t] \in Call /\ CallInv(t, calls[t], published, registration)
    BY DEF PublicationInv, TypeOK
  <2>2. c \in Call /\ c.phase = "waiting" /\ c.definition = calls[t].definition
        /\ c.base = calls[t].base
    BY <2>1 DEF Call, Phases
  <2>3. CallInv(t, c, published, registration')
    BY <1>1, <2>1, <2>2 DEF CallInv, Decode, InPhase
  <2>4. calls' = [calls EXCEPT ![t] = c]
    BY <1>1 DEF PublicationInv, TypeOK
  <2> HIDE DEF c
  <2> QED BY <2>2, <2>3, <2>4, CallStep DEF Decode, PublicationInv, TypeOK
<1>2. CASE \E code \in Codes \ {"Success"} : Return(t, code)
  <2>1. calls[t].phase # "idle"
    BY DEF Decode, InPhase
  <2>2. PICK c \in Call : /\ calls' = [calls EXCEPT ![t] = c]
                          /\ \A holder : CallInv(t, c, published, holder)
    BY <1>2, <2>1, ReturnStep
  <2> QED BY <2>2, CallStep DEF Decode, PublicationInv, TypeOK
<1> QED BY <1>1, <1>2 DEF Decode, Codes

\* The holder of the mutex copies what is published, and as long as it holds
\* the mutex nobody else publishes.
LEMMA LockAndCopyKeepsInv ==
    ASSUME PublicationInv, NEW t \in Registrars, LockAndCopy(t)
    PROVE  PublicationInv'
<1> DEFINE c == [calls[t] EXCEPT !.phase = "copying", !.next = published]
<1>1. /\ calls[t] \in Call /\ CallInv(t, calls[t], published, registration)
      /\ published \in Seq(Definition)
  BY DEF PublicationInv, TypeOK
<1>2. /\ c \in Call /\ c.phase = "copying" /\ c.next = published
      /\ c.definition = calls[t].definition /\ c.base = calls[t].base
  BY <1>1 DEF Call, Phases
<1>3. CallInv(t, c, published, registration')
  BY <1>1, <1>2 DEF CallInv, LockAndCopy, InPhase
<1>4. calls' = [calls EXCEPT ![t] = c]
  BY DEF LockAndCopy, PublicationInv, TypeOK
<1> HIDE DEF c
<1> QED BY <1>2, <1>3, <1>4, CallStep DEF LockAndCopy, PublicationInv, TypeOK

LEMMA LockPoisonedKeepsInv ==
    ASSUME PublicationInv, NEW t \in Registrars, LockPoisoned(t)
    PROVE  PublicationInv'
<1>1. calls[t].phase # "idle" /\ "InternalPanic" \in Codes \ {"Success"}
  BY DEF LockPoisoned, InPhase, Codes
<1>2. PICK c \in Call : /\ calls' = [calls EXCEPT ![t] = c]
                        /\ \A holder : CallInv(t, c, published, holder)
  BY <1>1, ReturnStep DEF LockPoisoned
<1> QED BY <1>2, CallStep DEF LockPoisoned, PublicationInv, TypeOK

LEMMA RegisterInCopyKeepsInv ==
    ASSUME PublicationInv, NEW t \in Registrars, RegisterInCopy(t)
    PROVE  PublicationInv'
<1>1. /\ calls[t] \in Call /\ CallInv(t, calls[t], published, registration)
      /\ published \in Seq(Definition) /\ calls[t].phase = "copying"
      /\ calls[t].next = published /\ registration = t
      /\ calls[t].definition \in Composite /\ calls[t].definition \in Definition
  BY DEF PublicationInv, TypeOK, CallInv, RegisterInCopy, InPhase, Definition
<1>2. CASE /\ ~IdsExhausted(published) /\ Knows(published, calls[t].definition)
           /\ calls' = [calls EXCEPT ![t].phase = "publishing",
                                     ![t].next = Register(published, calls[t].definition),
                                     ![t].id = Len(published) + 1]
           /\ UNCHANGED registration
  <2> DEFINE next == Append(published, calls[t].definition)
             id == Len(published) + 1
             c == [calls[t] EXCEPT !.phase = "publishing", !.next = next, !.id = id]
  <2>1. next \in Seq(Definition) /\ Len(published) \in Nat /\ id \in Nat
    BY <1>1, RegisterExtends, LenProperties
  <2>2. calls' = [calls EXCEPT ![t] = c]
    BY <1>2 DEF Register, PublicationInv, TypeOK
  <2> HIDE DEF next, id
  <2>3. /\ c \in Call /\ c.phase = "publishing" /\ c.next = next
        /\ c.definition = calls[t].definition /\ c.base = calls[t].base
        /\ c.id = id
    BY <1>1, <2>1 DEF Call, Phases
  <2>4. Len(published) + 1 <= MaxDefinitions
    BY <1>2, <2>1, MaxDefinitionsAssumption DEF IdsExhausted
  <2>5. CallInv(t, c, published, registration')
    BY <1>1, <1>2, <2>3, <2>4 DEF CallInv, next, id
  <2> HIDE DEF c
  <2> QED BY <1>2, <2>2, <2>3, <2>5, CallStep DEF RegisterInCopy, PublicationInv, TypeOK
<1>3. CASE registration' = NoThread /\ \E code \in Codes \ {"Success"} : Return(t, code)
  <2>1. PICK c \in Call : /\ calls' = [calls EXCEPT ![t] = c]
                          /\ \A holder : CallInv(t, c, published, holder)
    BY <1>1, <1>3, ReturnStep
  <2> QED BY <1>1, <1>3, <2>1, CallStep DEF RegisterInCopy, PublicationInv, TypeOK
<1> QED BY <1>1, <1>2, <1>3 DEF RegisterInCopy, Codes

LEMMA PanicKeepsInv ==
    ASSUME PublicationInv, NEW t \in Registrars, PanicInRegister(t)
    PROVE  PublicationInv'
<1>1. calls[t].phase # "idle" /\ "InternalPanic" \in Codes \ {"Success"}
  BY DEF PanicInRegister, InPhase, Codes
<1>2. registration = t
  BY DEF PanicInRegister, InPhase, PublicationInv, CallInv
<1>3. PICK c \in Call : /\ calls' = [calls EXCEPT ![t] = c]
                        /\ \A holder : CallInv(t, c, published, holder)
  BY <1>1, ReturnStep DEF PanicInRegister
<1> QED BY <1>2, <1>3, CallStep DEF PanicInRegister, PublicationInv, TypeOK

-----------------------------------------------------------------------------
\* Publishing adds one definition to what is published, so that everything
\* that was known about an ID is still true.
LEMMA PublishExtends ==
    ASSUME PublicationInv, NEW t \in Registrars, Publish(t)
    PROVE  /\ calls[t].definition \in Composite
           /\ published' = Append(published, calls[t].definition)
           /\ Knows(published, calls[t].definition)
           /\ published' \in Seq(Definition)
           /\ Len(published) \in Nat /\ Len(published) + 1 <= MaxDefinitions
           /\ Len(published') = Len(published) + 1
           /\ Extends(published', published)
           /\ HoldsIn(published', calls[t].id, calls[t].definition)
<1>1. /\ calls[t] \in Call /\ CallInv(t, calls[t], published, registration)
      /\ published \in Seq(Definition) /\ calls[t].phase = "publishing"
  BY DEF PublicationInv, TypeOK, Publish, InPhase
<1>2. /\ calls[t].definition \in Composite /\ calls[t].definition \in Definition
      /\ calls[t].next = Append(published, calls[t].definition)
      /\ calls[t].id = Len(published) + 1
      /\ Knows(published, calls[t].definition) /\ Len(published) + 1 <= MaxDefinitions
  BY <1>1 DEF CallInv, Definition
<1>3. published' = Append(published, calls[t].definition)
  BY <1>2 DEF Publish
<1> QED BY <1>1, <1>2, <1>3, RegisterExtends, LenProperties

LEMMA PublishKeepsInv ==
    ASSUME PublicationInv, NEW t \in Registrars, Publish(t)
    PROVE  PublicationInv'
<1> DEFINE c == [calls[t] EXCEPT !.phase = "returning", !.code = "Success",
                                 !.base = NoSnapshot, !.next = NoSnapshot]
<1>1. /\ calls[t] \in Call /\ registration = t /\ published \in Seq(Definition)
      /\ calls[t].definition \in Composite
      /\ published' \in Seq(Definition)
      /\ Extends(published', published)
      /\ Len(published') <= MaxDefinitions
      /\ HoldsIn(published', calls[t].id, calls[t].definition)
  BY PublishExtends DEF PublicationInv, TypeOK, CallInv, Publish, InPhase
<1>2. calls' = [calls EXCEPT ![t] = c]
  BY DEF Publish, Return, PublicationInv, TypeOK
<1>3. c \in Call
  <2>1. NoSnapshot \in Seq(Definition)
    BY DEF NoSnapshot
  <2> QED BY <1>1, <2>1 DEF Call, Phases, Codes
<1>4. /\ c.phase = "returning" /\ c.code = "Success"
      /\ c.id = calls[t].id /\ c.definition = calls[t].definition
  BY <1>1 DEF Call
<1>5. CallInv(t, c, published', registration')
  BY <1>1, <1>4 DEF CallInv
<1> HIDE DEF c
<1>6. TypeOK'
  BY <1>1, <1>2, <1>3 DEF PublicationInv, TypeOK, Publish
<1>7. ASSUME NEW u \in Registrars PROVE CallInv(u, calls'[u], published', registration')
  <2>1. CASE u = t
    BY <2>1, <1>2, <1>5 DEF PublicationInv, TypeOK
  <2>2. CASE u # t
    <3>1. calls'[u] = calls[u] /\ calls[u] \in Call
          /\ CallInv(u, calls[u], published, registration)
      BY <2>2, <1>2 DEF PublicationInv, TypeOK
    <3> QED BY <3>1, <2>2, <1>1, OtherCallsKept
  <2> QED BY <2>1, <2>2
<1>8. ASSUME NEW w \in Worlds PROVE WorldInv(worlds'[w], published')
  BY <1>1, WorldsKept DEF PublicationInv, TypeOK, Publish
<1>9. AcknowledgedIdsHold'
  <2>1. \A entry \in acknowledged : HoldsIn(published, entry.id, entry.definition)
    BY DEF PublicationInv, AcknowledgedIdsHold, HoldsIn
  <2>2. \A entry \in acknowledged : HoldsIn(published', entry.id, entry.definition)
    BY <2>1, <1>1, HoldsInExtension
  <2> QED BY <2>2 DEF AcknowledgedIdsHold, HoldsIn, Publish
<1> QED BY <1>1, <1>6, <1>7, <1>8, <1>9 DEF PublicationInv

\* The caller of a registration is told an ID only when its definition is
\* published under it.
LEMMA ReturnKeepsInv ==
    ASSUME PublicationInv, NEW t \in Registrars, ReturnFromRegistration(t)
    PROVE  PublicationInv'
<1> DEFINE entry == [id |-> calls[t].id, definition |-> calls[t].definition]
<1>1. /\ calls[t] \in Call /\ CallInv(t, calls[t], published, registration)
      /\ published \in Seq(Definition)
      /\ calls[t].phase = "returning"
  BY DEF PublicationInv, TypeOK, ReturnFromRegistration, InPhase
<1>2. IdleCall \in Call
  <2>1. NoSnapshot \in Seq(Definition)
    BY DEF NoSnapshot
  <2> QED BY <2>1 DEF IdleCall, Call, Phases, Codes, Definition
<1>3. CASE calls[t].code = "Success"
  <2>1. HoldsIn(published, calls[t].id, calls[t].definition)
    BY <1>1, <1>3 DEF CallInv
  <2>2. calls[t].id \in DefinitionIds
    BY <2>1, <1>1, LenProperties, MaxDefinitionsAssumption
    DEF HoldsIn, DefinitionIds, PublicationInv, Call
  <2>3. entry \in Entry
    BY <1>1, <2>2 DEF Entry, Call
  <2>4. acknowledged' = acknowledged \cup {entry}
    BY <1>3 DEF ReturnFromRegistration
  <2>5. TypeOK'
    BY <1>2, <2>3, <2>4 DEF ReturnFromRegistration, PublicationInv, TypeOK
  <2>6. AcknowledgedIdsHold'
    BY <2>1, <2>4 DEF ReturnFromRegistration, PublicationInv, AcknowledgedIdsHold, HoldsIn
  <2>7. ASSUME NEW u \in Registrars PROVE CallInv(u, calls'[u], published', registration')
    BY DEF ReturnFromRegistration, PublicationInv, TypeOK, CallInv, IdleCall
  <2> QED BY <2>5, <2>6, <2>7 DEF ReturnFromRegistration, PublicationInv
<1>4. CASE calls[t].code # "Success"
  <2>1. TypeOK'
    BY <1>2, <1>4 DEF ReturnFromRegistration, PublicationInv, TypeOK
  <2>2. ASSUME NEW u \in Registrars PROVE CallInv(u, calls'[u], published', registration')
    BY DEF ReturnFromRegistration, PublicationInv, TypeOK, CallInv, IdleCall
  <2> QED BY <1>4, <2>1, <2>2 DEF ReturnFromRegistration, PublicationInv, AcknowledgedIdsHold
<1> QED BY <1>3, <1>4

-----------------------------------------------------------------------------
\* A step of a world changes nothing but the world.
LEMMA WorldStep ==
    ASSUME PublicationInv, NEW w \in Worlds, NEW world \in World,
           worlds' = [worlds EXCEPT ![w] = world], WorldInv(world, published),
           UNCHANGED <<published, registration, lockPoisoned, calls, engineOpen, acknowledged>>
    PROVE  PublicationInv'
<1>1. TypeOK'
  BY DEF PublicationInv, TypeOK
<1>2. ASSUME NEW v \in Worlds PROVE WorldInv(worlds'[v], published')
  BY DEF PublicationInv, TypeOK
<1> QED BY <1>1, <1>2 DEF PublicationInv, AcknowledgedIdsHold

\* Creating and destroying a world, and the beginning, a command and the end
\* of a call on it.
LEMMA WorldKeepsInv ==
    ASSUME PublicationInv, NEW w \in Worlds,
           \/ CreateWorld(w) \/ DestroyWorld(w) \/ BeginWorldCall(w) \/ EndWorldCall(w)
           \/ \E id \in DefinitionIds : AddDevice(w, id)
    PROVE  PublicationInv'
<1>1. /\ worlds[w] \in World /\ WorldInv(worlds[w], published)
      /\ published \in Seq(Definition)
      /\ NoSnapshot \in Seq(Definition)
  BY DEF PublicationInv, TypeOK, NoSnapshot
<1>2. CASE CreateWorld(w)
  <2> DEFINE world == [worlds[w] EXCEPT !.open = TRUE]
  <2>1. world \in World /\ WorldInv(world, published)
    BY <1>1 DEF World, WorldInv
  <2>2. worlds' = [worlds EXCEPT ![w] = world]
    BY <1>2 DEF CreateWorld, PublicationInv, TypeOK
  <2> HIDE DEF world
  <2> QED BY <1>2, <2>1, <2>2, WorldStep DEF CreateWorld
<1>3. CASE DestroyWorld(w)
  <2>1. ClosedWorld \in World /\ WorldInv(ClosedWorld, published)
    BY <1>1 DEF ClosedWorld, World, WorldInv
  <2> QED BY <1>3, <2>1, WorldStep DEF DestroyWorld
<1>4. CASE BeginWorldCall(w)
  <2> DEFINE world == [worlds[w] EXCEPT !.busy = TRUE, !.snapshot = published]
  <2>1. world \in World /\ world.snapshot = published /\ world.devices = worlds[w].devices
    BY <1>1 DEF World
  <2>2. Extends(published, published)
    BY <1>1, LenProperties DEF Extends
  <2>3. WorldInv(world, published)
    BY <1>1, <2>1, <2>2 DEF WorldInv
  <2>4. worlds' = [worlds EXCEPT ![w] = world]
    BY <1>4 DEF BeginWorldCall, PublicationInv, TypeOK
  <2> HIDE DEF world
  <2> QED BY <1>4, <2>1, <2>3, <2>4, WorldStep DEF BeginWorldCall
<1>5. CASE EndWorldCall(w)
  <2> DEFINE world == [worlds[w] EXCEPT !.busy = FALSE, !.snapshot = NoSnapshot]
  <2>1. world \in World /\ world.busy = FALSE /\ world.devices = worlds[w].devices
    BY <1>1 DEF World
  <2>2. WorldInv(world, published)
    BY <1>1, <2>1 DEF WorldInv
  <2>3. worlds' = [worlds EXCEPT ![w] = world]
    BY <1>5 DEF EndWorldCall, PublicationInv, TypeOK
  <2> HIDE DEF world
  <2> QED BY <1>5, <2>1, <2>2, <2>3, WorldStep DEF EndWorldCall
<1>6. ASSUME NEW id \in DefinitionIds, AddDevice(w, id) PROVE PublicationInv'
  <2> DEFINE snapshot == worlds[w].snapshot
             device == [id |-> id, definition |-> snapshot[id]]
             world == [worlds[w] EXCEPT !.devices = @ \cup {device}]
  <2>1. /\ snapshot \in Seq(Definition) /\ Extends(published, snapshot)
        /\ id \in DOMAIN snapshot /\ worlds[w].busy
    BY <1>1, <1>6 DEF AddDevice, World, WorldInv
  <2>2. HoldsIn(snapshot, device.id, device.definition)
        /\ HoldsIn(published, device.id, device.definition)
    BY <1>1, <2>1, HoldsInExtension DEF HoldsIn
  <2>3. device \in Entry
    BY <2>1 DEF Entry
  <2>4. /\ world \in World /\ world.snapshot = snapshot
        /\ world.devices = worlds[w].devices \cup {device}
    BY <1>1, <2>3 DEF World
  <2>5. WorldInv(world, published)
    BY <1>1, <2>1, <2>2, <2>4 DEF WorldInv
  <2>6. worlds' = [worlds EXCEPT ![w] = world]
    BY <1>6 DEF AddDevice, PublicationInv, TypeOK
  <2> HIDE DEF world
  <2> QED BY <1>6, <2>4, <2>5, <2>6, WorldStep DEF AddDevice
<1> QED BY <1>2, <1>3, <1>4, <1>5, <1>6

LEMMA PublicationInvStep == PublicationInv /\ [Next]_vars => PublicationInv'
<1> SUFFICES ASSUME PublicationInv, [Next]_vars PROVE PublicationInv'
  OBVIOUS
<1>1. ASSUME NEW t \in Registrars, NEW definition \in Composite, BeginRegistration(t, definition)
      PROVE  PublicationInv'
  BY <1>1, BeginKeepsInv
<1>2. ASSUME NEW t \in Registrars, RegistrationStep(t) PROVE PublicationInv'
  BY <1>2, DecodeKeepsInv, LockAndCopyKeepsInv, LockPoisonedKeepsInv, RegisterInCopyKeepsInv,
     PublishKeepsInv, PanicKeepsInv, ReturnKeepsInv
  DEF RegistrationStep
<1>3. ASSUME NEW w \in Worlds,
             \/ CreateWorld(w) \/ DestroyWorld(w) \/ BeginWorldCall(w) \/ EndWorldCall(w)
             \/ \E id \in DefinitionIds : AddDevice(w, id)
      PROVE  PublicationInv'
  BY <1>3, WorldKeepsInv
<1>4. CASE DestroyEngine
  BY <1>4 DEF DestroyEngine, PublicationInv, TypeOK, AcknowledgedIdsHold
<1>5. CASE UNCHANGED vars
  BY <1>5 DEF vars, PublicationInv, TypeOK, AcknowledgedIdsHold
<1> QED BY <1>1, <1>2, <1>3, <1>4, <1>5 DEF Next

LEMMA PublicationInvariance == Spec => []PublicationInv
BY PublicationInvInit, PublicationInvStep, PTL DEF Spec

\* An ID that was returned to a caller, and every ID a world uses, names its
\* definition in whatever registry is published, with any number of threads
\* registering (DefinitionStore.register, "live device definition must remain
\* registered").
THEOREM PublishedIdsAlwaysHold == Spec => []PublishedIdsHold
<1>1. PublicationInv => PublishedIdsHold
  BY DEF PublicationInv, PublishedIdsHold, LiveDefinitionsStayRegistered, WorldInv, HoldsIn
<1> QED BY <1>1, PublicationInvariance, PTL

\* What a definition was decoded against is what its elements are when it is
\* registered, however old the snapshot has become.
THEOREM DecodedAgainstCurrentAlways == Spec => []DecodedAgainstCurrent
<1>1. ASSUME PublicationInv PROVE DecodedAgainstCurrent
  <2> SUFFICES ASSUME NEW t \in Registrars,
                      calls[t].phase \in {"waiting", "copying", "publishing"},
                      NEW id \in calls[t].definition.elements
               PROVE  /\ id \in DOMAIN calls[t].base /\ id \in DOMAIN published
                      /\ calls[t].base[id] = published[id]
    BY DEF DecodedAgainstCurrent
  <2>1. /\ calls[t].base \in Seq(Definition) /\ published \in Seq(Definition)
        /\ Extends(published, calls[t].base)
        /\ id \in DOMAIN calls[t].base
    BY <1>1 DEF PublicationInv, TypeOK, Call, CallInv, Knows
  <2>2. HoldsIn(published, id, calls[t].base[id])
    BY <2>1, HoldsInExtension DEF HoldsIn
  <2> QED BY <2>1, <2>2 DEF HoldsIn
<1> QED BY <1>1, PublicationInvariance, PTL

\* The store with its threads, its mutex and its snapshots implements a catalog
\* that only grows by definitions whose elements it already has, and of which
\* callers are only told what is in it.
THEOREM StoreImplementsCatalog == Spec => StoreIsCatalog
<1>1. Init => Catalog!Init
  BY DEF Init, Catalog!Init
<1>2. ASSUME PublicationInv, [Next]_vars
      PROVE  [Catalog!Next]_<<published, acknowledged>>
  <2>1. ASSUME NEW t \in Registrars, Publish(t) PROVE Catalog!Register
    <3>1. /\ calls[t].definition \in Composite
          /\ published' = Append(published, calls[t].definition)
          /\ calls[t].definition.elements \subseteq DOMAIN published
          /\ Len(published) < MaxDefinitions
      BY <1>2, <2>1, PublishExtends, MaxDefinitionsAssumption DEF Knows
    <3> QED BY <2>1, <3>1 DEF Catalog!Register, Publish
  <2>2. ASSUME NEW t \in Registrars, ReturnFromRegistration(t), calls[t].code = "Success"
        PROVE  Catalog!Promise
    <3>1. HoldsIn(published, calls[t].id, calls[t].definition)
      BY <1>2, <2>2 DEF PublicationInv, CallInv, ReturnFromRegistration, InPhase
    <3> QED BY <2>2, <3>1 DEF Catalog!Promise, ReturnFromRegistration, HoldsIn
  <2>3. ASSUME NEW t \in Registrars, RegistrationStep(t)
        PROVE  [Catalog!Next]_<<published, acknowledged>>
    <3>1. CASE \/ Decode(t) \/ LockAndCopy(t) \/ LockPoisoned(t) \/ RegisterInCopy(t)
               \/ PanicInRegister(t)
      BY <3>1 DEF Decode, LockAndCopy, LockPoisoned, RegisterInCopy, PanicInRegister
    <3>2. CASE Publish(t)
      BY <3>2, <2>1 DEF Catalog!Next
    <3>3. CASE ReturnFromRegistration(t)
      BY <3>3, <2>2 DEF Catalog!Next, ReturnFromRegistration
    <3> QED BY <2>3, <3>1, <3>2, <3>3 DEF RegistrationStep
  <2>4. CASE \E t \in Registrars, definition \in Composite : BeginRegistration(t, definition)
    BY <2>4 DEF BeginRegistration
  <2>5. ASSUME NEW w \in Worlds,
               \/ CreateWorld(w) \/ DestroyWorld(w) \/ BeginWorldCall(w) \/ EndWorldCall(w)
               \/ \E id \in DefinitionIds : AddDevice(w, id)
        PROVE  UNCHANGED <<published, acknowledged>>
    BY <2>5 DEF CreateWorld, DestroyWorld, BeginWorldCall, EndWorldCall, AddDevice
  <2>6. CASE DestroyEngine
    BY <2>6 DEF DestroyEngine
  <2>7. CASE UNCHANGED vars
    BY <2>7 DEF vars
  <2> QED BY <1>2, <2>3, <2>4, <2>5, <2>6, <2>7 DEF Next
<1> QED BY <1>1, <1>2, PublicationInvariance, PTL DEF Spec, StoreIsCatalog, Catalog!Spec
=============================================================================
