----------------------- MODULE RuntimeLifecycleProofs -----------------------
(***************************************************************************)
(* One runtime has the engine, from the claim of the flag to its release.  *)
(* It alone binds types while it is open, and its predecessor, which may   *)
(* still be unbinding, only unbinds what is bound to itself.               *)
(***************************************************************************)
EXTENDS RuntimeLifecycle, SequenceTheorems, TLAPS

\* The flag was claimed for this runtime and not given back.
OwnsEngine(r) == phase[r] \in {"starting", "open", "closing"}

EngineInv ==
    /\ \A r \in Runtimes : OwnsEngine(r) => engineAlreadyInstantiated
    /\ \A r, s \in Runtimes : OwnsEngine(r) /\ OwnsEngine(s) => r = s
    /\ \A r \in Runtimes : systemCount[r] > 0 => Open(r)
    /\ \A r \in Runtimes : InCallback(r) => Open(r) /\ systemCount[r] = 0

Listed(r, t) == \E i \in DOMAIN boundTypes[r] : boundTypes[r][i] = t

BindingInv ==
    /\ \A r \in Runtimes : phase[r] \in {"none", "starting"} => boundTypes[r] = << >>
    /\ \A r \in Runtimes, t \in Types :
        Bound(r, t) => phase[r] \in {"open", "closing", "unbinding"} /\ Listed(r, t)
    /\ BoundTypesHaveTheirDefinition

LifecycleInv == TypeOK /\ EngineInv /\ BindingInv

-----------------------------------------------------------------------------
\* Appending an element to a list of types.
LEMMA AppendType ==
    ASSUME NEW s \in Seq(Types), NEW t \in Types
    PROVE  /\ Append(s, t) \in Seq(Types)
           /\ Len(s) \in Nat
           /\ DOMAIN s = 1..Len(s)
           /\ DOMAIN Append(s, t) = 1..(Len(s) + 1)
           /\ Append(s, t)[Len(s) + 1] = t
           /\ \A i \in DOMAIN s : Append(s, t)[i] = s[i]
           /\ Append(s, t) # << >>
<1>1. /\ Append(s, t) \in Seq(Types) /\ Append(s, t) # << >>
      /\ Len(Append(s, t)) = Len(s) + 1
      /\ Append(s, t)[Len(s) + 1] = t
      /\ \A i \in 1..Len(s) : Append(s, t)[i] = s[i]
  BY AppendProperties
<1>2. Len(s) \in Nat /\ DOMAIN s = 1..Len(s)
      /\ DOMAIN Append(s, t) = 1..Len(Append(s, t))
  BY <1>1, LenProperties
<1> QED BY <1>1, <1>2

\* Taking the last element off a list of types.
LEMMA WithoutLastType ==
    ASSUME NEW s \in Seq(Types), s # << >>
    PROVE  /\ WithoutLast(s) \in Seq(Types)
           /\ Last(s) \in Types
           /\ Len(s) \in DOMAIN s
           /\ DOMAIN WithoutLast(s) = DOMAIN s \ {Len(s)}
           /\ \A i \in DOMAIN WithoutLast(s) : WithoutLast(s)[i] = s[i]
<1> DEFINE n == Len(s)
           front == WithoutLast(s)
<1>1. n \in Nat \ {0} /\ DOMAIN s = 1..n /\ \A i \in 1..n : s[i] \in Types
  BY LenProperties, EmptySeq, ElementOfSeq
<1>2. \A i \in 1..(n - 1) : s[i] \in Types
  BY <1>1
<1>3. /\ front \in Seq(Types)
      /\ Len(front) = IF 1 <= n - 1 THEN n - 1 - 1 + 1 ELSE 0
      /\ \A i \in 1..(n - 1 - 1 + 1) : front[i] = s[1 + i - 1]
  BY <1>1, <1>2, SubSeqProperties DEF WithoutLast
<1>4. DOMAIN front = 1..Len(front)
  BY <1>3, LenProperties
<1> HIDE DEF n, front
<1>5. Len(front) = n - 1
  BY <1>1, <1>3
<1>6. \A i \in DOMAIN front : front[i] = s[i]
  BY <1>1, <1>3, <1>4, <1>5
<1>7. DOMAIN front = (1..n) \ {n}
  BY <1>1, <1>4, <1>5
<1>8. n \in 1..n /\ s[n] \in Types
  BY <1>1
<1> QED BY <1>1, <1>3, <1>6, <1>7, <1>8 DEF Last, n, front

-----------------------------------------------------------------------------
\* Before the first runtime is created.
LEMMA LifecycleInvInit == Init => LifecycleInv
<1> SUFFICES ASSUME Init PROVE LifecycleInv
  OBVIOUS
<1>1. << >> \in Seq(Types) /\ 0 \in 0..MaxSystems
  BY MaxSystemsAssumption
<1>2. TypeOK
  BY <1>1 DEF Init, TypeOK, Phases, Registration
<1>3. EngineInv
  BY DEF Init, EngineInv, OwnsEngine, InCallback
<1>4. BindingInv
  BY NoRuntimeAssumption DEF Init, BindingInv, Bound, NotBound, BoundTypesHaveTheirDefinition, Open
<1> QED BY <1>2, <1>3, <1>4 DEF LifecycleInv

\* Every action keeps the variables well typed.
LEMMA TypeStep == ASSUME TypeOK, Next PROVE TypeOK'
<1> PICK r \in Runtimes :
        \/ ClaimEngine(r) \/ StartEngine(r)
        \/ \E t \in Types : Register(r, t) \/ ResolveChild(r, t)
        \/ CallbackThrows(r) \/ FinishRegistration(r) \/ RegistrationFails(r)
        \/ CreateSystem(r) \/ ReleaseSystem(r)
        \/ RequestClose(r) \/ Close(r) \/ ReleaseEngine(r) \/ UnbindTypes(r)
  BY DEF Next, ClosingStep
<1>1. CASE ClaimEngine(r) \/ StartEngine(r)
  BY <1>1 DEF ClaimEngine, StartEngine, TypeOK, Phases
<1>2. ASSUME NEW t \in Types, Register(r, t) \/ ResolveChild(r, t) PROVE TypeOK'
  <2>1. Append(registering[r], t) \in Seq(Types)
    BY AppendType DEF TypeOK
  <2> QED BY <1>2, <2>1 DEF Register, ResolveChild, BeginResolve, TypeOK
<1>3. CASE CallbackThrows(r) \/ FinishRegistration(r) \/ RegistrationFails(r)
  <2> DEFINE t == Last(registering[r])
  <2>1. /\ WithoutLast(registering[r]) \in Seq(Types) /\ t \in Types
        /\ Append(native[r], t) \in Seq(Types) /\ Append(boundTypes[r], t) \in Seq(Types)
        /\ Len(native[r]) \in Nat
    BY <1>3, WithoutLastType, AppendType
    DEF CallbackThrows, FinishRegistration, RegistrationFails, InCallback, TypeOK
  <2>2. [runtime |-> r, definition |-> Len(native[r]) + 1] \in Registration
    BY <2>1 DEF Registration
  <2>3. CASE CallbackThrows(r) \/ RegistrationFails(r)
    BY <2>1, <2>3 DEF CallbackThrows, RegistrationFails, TypeOK
  <2>4. CASE FinishRegistration(r)
    BY <2>1, <2>2, <2>4 DEF FinishRegistration, Bind, TypeOK
  <2> QED BY <1>3, <2>3, <2>4
<1>4. CASE CreateSystem(r) \/ ReleaseSystem(r)
  <2>1. systemCount[r] \in 0..MaxSystems
    BY DEF TypeOK
  <2>2. CASE CreateSystem(r)
    <3>1. systemCount[r] + 1 \in 0..MaxSystems
      BY <2>1, <2>2, MaxSystemsAssumption DEF CreateSystem
    <3> QED BY <2>2, <3>1 DEF CreateSystem, TypeOK
  <2>3. CASE ReleaseSystem(r)
    <3>1. systemCount[r] - 1 \in 0..MaxSystems
      BY <2>1, <2>3, MaxSystemsAssumption DEF ReleaseSystem
    <3> QED BY <2>3, <3>1 DEF ReleaseSystem, TypeOK, Phases
  <2> QED BY <1>4, <2>2, <2>3
<1>5. CASE RequestClose(r) \/ Close(r) \/ ReleaseEngine(r)
  BY <1>5 DEF RequestClose, Close, ReleaseEngine, TypeOK, Phases
<1>6. CASE UnbindTypes(r)
  <2>1. boundTypes[r] # << >> => WithoutLast(boundTypes[r]) \in Seq(Types)
    BY WithoutLastType DEF TypeOK
  <2>2. NotBound \in Registration
    BY DEF Registration
  <2> QED BY <1>6, <2>1, <2>2 DEF UnbindTypes, Unbind, TypeOK, Phases
<1> QED BY <1>1, <1>2, <1>3, <1>4, <1>5, <1>6

\* The flag of the engine, and who may have systems and callbacks.
LEMMA EngineStep == ASSUME TypeOK, EngineInv, Next PROVE EngineInv'
<1> PICK r \in Runtimes :
        \/ ClaimEngine(r) \/ StartEngine(r)
        \/ \E t \in Types : Register(r, t) \/ ResolveChild(r, t)
        \/ CallbackThrows(r) \/ FinishRegistration(r) \/ RegistrationFails(r)
        \/ CreateSystem(r) \/ ReleaseSystem(r)
        \/ RequestClose(r) \/ Close(r) \/ ReleaseEngine(r) \/ UnbindTypes(r)
  BY DEF Next, ClosingStep
<1> USE DEF EngineInv, OwnsEngine, Open, InCallback, TypeOK
<1>1. CASE ClaimEngine(r)
  BY <1>1 DEF ClaimEngine
<1>2. CASE StartEngine(r)
  BY <1>2 DEF StartEngine
<1>3. ASSUME NEW t \in Types, Register(r, t) \/ ResolveChild(r, t) PROVE EngineInv'
  BY <1>3 DEF Register, ResolveChild, BeginResolve
<1>4. CASE CallbackThrows(r) \/ FinishRegistration(r) \/ RegistrationFails(r)
  BY <1>4 DEF CallbackThrows, FinishRegistration, RegistrationFails
<1>5. CASE CreateSystem(r)
  BY <1>5 DEF CreateSystem
<1>6. CASE ReleaseSystem(r)
  BY <1>6 DEF ReleaseSystem
<1>7. CASE RequestClose(r)
  <2>1. CASE CanClose(r)
    BY <1>7, <2>1 DEF RequestClose, CanClose
  <2>2. CASE ~CanClose(r)
    <3>1. phase' = phase
      BY <1>7, <2>2 DEF RequestClose
    <3> QED BY <1>7, <3>1 DEF RequestClose
  <2> QED BY <2>1, <2>2
<1>8. CASE Close(r)
  BY <1>8 DEF Close, CanClose
<1>9. CASE ReleaseEngine(r)
  BY <1>9 DEF ReleaseEngine
<1>10. CASE UnbindTypes(r)
  <2>1. CASE boundTypes[r] # << >>
    BY <1>10, <2>1 DEF UnbindTypes
  <2>2. CASE boundTypes[r] = << >>
    <3>1. phase' = [phase EXCEPT ![r] = "closed"] /\ phase[r] = "unbinding"
      BY <1>10, <2>2 DEF UnbindTypes
    <3> QED BY <1>10, <3>1 DEF UnbindTypes
  <2> QED BY <2>1, <2>2
<1> QED BY <1>1, <1>2, <1>3, <1>4, <1>5, <1>6, <1>7, <1>8, <1>9, <1>10

\* A runtime that goes to its next phase binds and unbinds nothing.
LEMMA PhaseStep ==
    ASSUME BindingInv, UNCHANGED <<boundTypes, registration, native>>,
           \A s \in Runtimes :
              \/ phase'[s] = phase[s]
              \/ phase[s] \in {"none", "starting"} /\ phase'[s] \in {"none", "starting", "open"}
              \/ phase[s] \in {"open", "closing"} /\ phase'[s] \in {"closing", "unbinding"}
    PROVE  BindingInv'
<1>1. \A s \in Runtimes : phase'[s] \in {"none", "starting"} => boundTypes'[s] = << >>
  BY DEF BindingInv
<1>2. \A s \in Runtimes, t \in Types :
        Bound(s, t)' => phase'[s] \in {"open", "closing", "unbinding"} /\ Listed(s, t)'
  BY DEF BindingInv, Bound, Listed
<1>3. BoundTypesHaveTheirDefinition'
  BY DEF BindingInv, BoundTypesHaveTheirDefinition, Open, Bound
<1> QED BY <1>1, <1>2, <1>3 DEF BindingInv

\* A type is bound, once for a runtime, to the definition that the native
\* engine has just built for it.
LEMMA FinishKeepsBindings ==
    ASSUME TypeOK, EngineInv, BindingInv, NEW r \in Runtimes, FinishRegistration(r)
    PROVE  BindingInv'
<1> DEFINE t == Last(registering[r])
           id == Len(native[r]) + 1
<1>1. /\ t \in Types /\ Open(r) /\ ~Bound(r, t)
      /\ native[r] \in Seq(Types) /\ boundTypes[r] \in Seq(Types)
  BY WithoutLastType DEF FinishRegistration, InCallback, EngineInv, TypeOK
<1>2. /\ native' = [native EXCEPT ![r] = Append(@, t)]
      /\ boundTypes' = [boundTypes EXCEPT ![r] = Append(@, t)]
      /\ registration' = [registration EXCEPT ![t] = [runtime |-> r, definition |-> id]]
      /\ UNCHANGED phase
  BY DEF FinishRegistration, Bind
<1>3. \A s \in Runtimes : Open(s) => s = r
  BY <1>1 DEF EngineInv, OwnsEngine, Open
<1> HIDE DEF t
<1>4. /\ id \in DOMAIN native'[r] /\ native'[r][id] = t
      /\ \A i \in DOMAIN native[r] : i \in DOMAIN native'[r] /\ native'[r][i] = native[r][i]
  BY <1>1, <1>2, AppendType DEF TypeOK
<1>5. /\ DOMAIN boundTypes'[r] = DOMAIN boundTypes[r] \cup {Len(boundTypes[r]) + 1}
      /\ boundTypes'[r][Len(boundTypes[r]) + 1] = t
      /\ \A i \in DOMAIN boundTypes[r] : boundTypes'[r][i] = boundTypes[r][i]
  BY <1>1, <1>2, AppendType DEF TypeOK
<1> HIDE DEF id
<1>6. \A s \in Runtimes : phase'[s] \in {"none", "starting"} => boundTypes'[s] = << >>
  BY <1>1, <1>2 DEF BindingInv, TypeOK, Open
<1>7. ASSUME NEW s \in Runtimes, NEW u \in Types, Bound(s, u)'
      PROVE  phase'[s] \in {"open", "closing", "unbinding"} /\ Listed(s, u)'
  <2>1. CASE u = t
    <3>1. s = r
      BY <1>1, <1>2, <1>7, <2>1 DEF Bound, TypeOK
    <3> QED BY <1>1, <1>2, <1>5, <2>1, <3>1 DEF Open, Listed
  <2>2. CASE u # t
    <3>1. Bound(s, u)
      BY <1>2, <1>7, <2>2 DEF Bound, TypeOK
    <3>2. phase[s] \in {"open", "closing", "unbinding"} /\ Listed(s, u)
      BY <3>1 DEF BindingInv
    <3>3. CASE s = r
      BY <1>2, <1>5, <3>2, <3>3 DEF Listed
    <3>4. CASE s # r
      BY <1>2, <3>2, <3>4 DEF Listed, TypeOK
    <3> QED BY <3>3, <3>4
  <2> QED BY <2>1, <2>2
<1>8. ASSUME NEW s \in Runtimes, Open(s)', NEW i \in DOMAIN boundTypes'[s],
             NEW u, u = boundTypes'[s][i]
      PROVE  /\ registration'[u].runtime = s
             /\ registration'[u].definition \in DOMAIN native'[s]
             /\ native'[s][registration'[u].definition] = u
  <2>1. s = r
    BY <1>2, <1>3, <1>8 DEF Open
  <2>2. CASE i = Len(boundTypes[r]) + 1
    <3>1. u = t
      BY <1>5, <1>8, <2>1, <2>2
    <3>2. registration'[t] = [runtime |-> r, definition |-> id]
      BY <1>1, <1>2 DEF TypeOK
    <3> QED BY <1>4, <2>1, <3>1, <3>2
  <2>3. CASE i \in DOMAIN boundTypes[r]
    <3>0. u = boundTypes[r][i]
      BY <1>5, <1>8, <2>1, <2>3
    <3>1. /\ Bound(r, u) /\ registration[u].definition \in DOMAIN native[r]
          /\ native[r][registration[u].definition] = u
      BY <1>1, <2>3, <3>0 DEF BindingInv, BoundTypesHaveTheirDefinition
    <3>2. u # t
      BY <1>1, <3>1
    <3>3. u \in Types
      BY <1>1, <2>3, <3>0, LenProperties
    <3>4. registration'[u] = registration[u]
      BY <1>2, <3>2, <3>3 DEF TypeOK
    <3> QED BY <1>4, <1>5, <2>1, <2>3, <3>1, <3>4 DEF Bound
  <2> QED BY <1>5, <1>8, <2>1, <2>2, <2>3
<1> QED BY <1>6, <1>7, <1>8 DEF BindingInv, BoundTypesHaveTheirDefinition, Bound

\* A closed runtime unbinds a type that is still its own; the runtime that is
\* open meanwhile keeps its types.
LEMMA UnbindKeepsBindings ==
    ASSUME TypeOK, BindingInv, NEW r \in Runtimes, UnbindTypes(r)
    PROVE  BindingInv'
<1>1. CASE boundTypes[r] = << >>
  <2>1. /\ phase' = [phase EXCEPT ![r] = "closed"] /\ phase[r] = "unbinding"
        /\ UNCHANGED <<registration, boundTypes, native>>
    BY <1>1 DEF UnbindTypes
  <2>2. \A t \in Types : ~Bound(r, t)
    BY <1>1 DEF BindingInv, Listed
  <2>3. /\ phase'[r] = "closed" /\ \A s \in Runtimes : s # r => phase'[s] = phase[s]
    BY <2>1 DEF TypeOK
  <2> QED BY <2>1, <2>2, <2>3
          DEF BindingInv, BoundTypesHaveTheirDefinition, Bound, Listed, Open
<1>2. CASE boundTypes[r] # << >>
  <2> DEFINE t == Last(boundTypes[r])
             n == Len(boundTypes[r])
  <2>1. /\ phase[r] = "unbinding" /\ UNCHANGED <<phase, native>>
        /\ boundTypes' = [boundTypes EXCEPT ![r] = WithoutLast(@)]
        /\ registration' = IF Bound(r, t) THEN [registration EXCEPT ![t] = NotBound]
                                          ELSE registration
    BY <1>2 DEF UnbindTypes, Unbind
  <2>2. /\ t \in Types
        /\ n \in DOMAIN boundTypes[r] /\ boundTypes[r][n] = t
        /\ DOMAIN boundTypes'[r] = DOMAIN boundTypes[r] \ {n}
        /\ \A i \in DOMAIN boundTypes'[r] : boundTypes'[r][i] = boundTypes[r][i]
    BY <1>2, <2>1, WithoutLastType DEF TypeOK, Last
  <2> HIDE DEF t, n
  <2>3. \A s \in Runtimes, u \in Types : Bound(s, u)' => Bound(s, u) /\ ~(s = r /\ u = t)
    BY <2>1, <2>2, NoRuntimeAssumption DEF Bound, TypeOK, NotBound
  <2>4. \A s \in Runtimes, u \in Types :
            Bound(s, u) /\ s # r => Bound(s, u)' /\ registration'[u] = registration[u]
    BY <2>1, <2>2 DEF Bound, TypeOK
  <2>5. \A s \in Runtimes : s # r => boundTypes'[s] = boundTypes[s]
    BY <2>1 DEF TypeOK
  <2>6. \A s \in Runtimes : phase'[s] \in {"none", "starting"} => boundTypes'[s] = << >>
    BY <2>1, <2>5 DEF BindingInv
  <2>7. ASSUME NEW s \in Runtimes, NEW u \in Types, Bound(s, u)'
        PROVE  phase'[s] \in {"open", "closing", "unbinding"} /\ Listed(s, u)'
    <3>1. /\ Bound(s, u) /\ ~(s = r /\ u = t)
          /\ phase[s] \in {"open", "closing", "unbinding"} /\ Listed(s, u)
      BY <2>3, <2>7 DEF BindingInv
    <3>2. CASE s = r
      BY <2>1, <2>2, <3>1, <3>2 DEF Listed
    <3>3. CASE s # r
      BY <2>1, <2>5, <3>1, <3>3 DEF Listed
    <3> QED BY <3>2, <3>3
  <2>8. ASSUME NEW s \in Runtimes, Open(s)', NEW i \in DOMAIN boundTypes'[s],
               NEW u, u = boundTypes'[s][i]
        PROVE  /\ registration'[u].runtime = s
               /\ registration'[u].definition \in DOMAIN native'[s]
               /\ native'[s][registration'[u].definition] = u
    <3>1. s # r /\ Open(s) /\ boundTypes'[s] = boundTypes[s]
      BY <2>1, <2>5, <2>8 DEF Open
    <3>2. /\ u \in Types /\ Bound(s, u) /\ registration[u].definition \in DOMAIN native[s]
          /\ native[s][registration[u].definition] = u
      BY <2>8, <3>1, LenProperties DEF BindingInv, BoundTypesHaveTheirDefinition, TypeOK
    <3> QED BY <2>1, <2>4, <3>1, <3>2 DEF Bound
  <2> QED BY <2>6, <2>7, <2>8 DEF BindingInv, BoundTypesHaveTheirDefinition, Bound
<1> QED BY <1>1, <1>2

LEMMA BindingStep == ASSUME TypeOK, EngineInv, BindingInv, Next PROVE BindingInv'
<1> PICK r \in Runtimes :
        \/ ClaimEngine(r) \/ StartEngine(r)
        \/ \E t \in Types : Register(r, t) \/ ResolveChild(r, t)
        \/ CallbackThrows(r) \/ FinishRegistration(r) \/ RegistrationFails(r)
        \/ CreateSystem(r) \/ ReleaseSystem(r)
        \/ RequestClose(r) \/ Close(r) \/ ReleaseEngine(r) \/ UnbindTypes(r)
  BY DEF Next, ClosingStep
<1>1. CASE ClaimEngine(r) \/ StartEngine(r)
  BY <1>1, PhaseStep DEF ClaimEngine, StartEngine, TypeOK
<1>2. CASE \/ \E t \in Types : Register(r, t) \/ ResolveChild(r, t)
           \/ CallbackThrows(r) \/ CreateSystem(r)
  BY <1>2, PhaseStep DEF Register, ResolveChild, BeginResolve, CallbackThrows, CreateSystem
<1>3. CASE ReleaseSystem(r)
  <2>1. phase[r] = "open"
    BY <1>3 DEF ReleaseSystem, EngineInv, Open
  <2> QED BY <1>3, <2>1, PhaseStep DEF ReleaseSystem, TypeOK
<1>4. CASE RequestClose(r) \/ Close(r)
  BY <1>4, PhaseStep DEF RequestClose, Close, Open, TypeOK
<1>5. CASE ReleaseEngine(r)
  BY <1>5, PhaseStep DEF ReleaseEngine, TypeOK
<1>6. CASE FinishRegistration(r)
  BY <1>6, FinishKeepsBindings
<1>7. CASE RegistrationFails(r)
  <2> DEFINE t == Last(registering[r])
  <2>1. /\ UNCHANGED <<phase, boundTypes, registration>>
        /\ native' = native \/ native' = [native EXCEPT ![r] = Append(@, t)]
    BY <1>7 DEF RegistrationFails
  <2>2. t \in Types
    BY <1>7, WithoutLastType DEF RegistrationFails, InCallback, TypeOK
  <2> HIDE DEF t
  <2>3. ASSUME NEW s \in Runtimes, NEW i \in DOMAIN native[s]
        PROVE  i \in DOMAIN native'[s] /\ native'[s][i] = native[s][i]
    <3>1. CASE native'[s] = native[s]
      BY <3>1
    <3>2. CASE native'[s] = Append(native[s], t)
      <4>1. native[s] \in Seq(Types)
        BY DEF TypeOK
      <4>2. /\ DOMAIN native[s] = 1..Len(native[s]) /\ Len(native[s]) \in Nat
            /\ DOMAIN native'[s] = 1..(Len(native[s]) + 1)
            /\ \A j \in DOMAIN native[s] : native'[s][j] = native[s][j]
        BY <2>2, <3>2, <4>1, AppendType
      <4> QED BY <4>2
    <3> QED BY <2>1, <3>1, <3>2 DEF TypeOK
  <2>4. BoundTypesHaveTheirDefinition'
    BY <2>1, <2>3 DEF BindingInv, BoundTypesHaveTheirDefinition, Open, Bound
  <2> QED BY <2>1, <2>4 DEF BindingInv, Bound, Listed
<1>8. CASE UnbindTypes(r)
  BY <1>8, UnbindKeepsBindings
<1> QED BY <1>1, <1>2, <1>3, <1>4, <1>5, <1>6, <1>7, <1>8

LEMMA LifecycleInvStep == LifecycleInv /\ [Next]_vars => LifecycleInv'
<1> SUFFICES ASSUME LifecycleInv, [Next]_vars PROVE LifecycleInv'
  OBVIOUS
<1>1. CASE Next
  BY <1>1, TypeStep, EngineStep, BindingStep DEF LifecycleInv
<1>2. CASE UNCHANGED vars
  BY <1>2 DEF vars, LifecycleInv, TypeOK, EngineInv, BindingInv, OwnsEngine, Open, InCallback,
              Bound, Listed, BoundTypesHaveTheirDefinition
<1> QED BY <1>1, <1>2

LEMMA LifecycleInvariance == Spec => []LifecycleInv
BY LifecycleInvInit, LifecycleInvStep, PTL DEF Spec

\* At most one runtime of the process is open, and the types it bound have its
\* definitions, while any number of runtimes are created, closed and still
\* unbinding (ElectricalRuntime.create, DeviceType.bind and unbind).
THEOREM EnginesAndTypesAlwaysAgree == Spec => []EnginesAndTypesAgree
<1>1. LifecycleInv => EnginesAndTypesAgree
  BY DEF LifecycleInv, EnginesAndTypesAgree, EngineInv, BindingInv, OneEngineAtATime,
         EngineAlive, OwnsEngine, Open
<1> QED BY <1>1, LifecycleInvariance, PTL

\* A runtime that has finished closing left no type bound to it.
THEOREM ClosedRuntimesForgotten == Spec => []ClosedRuntimesAreForgotten
<1>1. LifecycleInv => ClosedRuntimesAreForgotten
  BY DEF LifecycleInv, BindingInv, ClosedRuntimesAreForgotten
<1> QED BY <1>1, LifecycleInvariance, PTL

\* While a system of a runtime exists, no type is bound to the runtime, taken
\* from it or given another definition, by whatever runtime.
THEOREM DefinitionsAreStable == Spec => DefinitionsStableWhileSystemsRun
<1>1. ASSUME LifecycleInv, [Next]_vars,
             NEW r \in Runtimes, systemCount[r] > 0, systemCount'[r] > 0,
             NEW t \in Types, Bound(r, t) \/ Bound(r, t)'
      PROVE  registration'[t] = registration[t]
  <2>1. Open(r) /\ ~InCallback(r)
    BY <1>1 DEF LifecycleInv, EngineInv, TypeOK
  <2>2. CASE UNCHANGED registration
    BY <2>2
  <2>3. ASSUME NEW s \in Runtimes, FinishRegistration(s) PROVE FALSE
    <3>1. InCallback(s) /\ Open(s)
      BY <1>1, <2>3 DEF FinishRegistration, LifecycleInv, EngineInv
    <3> QED BY <1>1, <2>1, <3>1 DEF LifecycleInv, EngineInv, OwnsEngine, Open
  <2>4. ASSUME NEW s \in Runtimes, UnbindTypes(s) PROVE registration'[t] = registration[t]
    <3>1. s # r
      BY <2>1, <2>4 DEF UnbindTypes, Open
    <3>2. \/ UNCHANGED registration
          \/ /\ Bound(s, Last(boundTypes[s]))
             /\ registration' = [registration EXCEPT ![Last(boundTypes[s])] = NotBound]
      BY <2>4 DEF UnbindTypes, Unbind
    <3> DEFINE u == Last(boundTypes[s])
    <3> HIDE DEF u
    <3>3. CASE t = u
      BY <1>1, <3>1, <3>2, <3>3, NoRuntimeAssumption DEF Bound, NotBound, LifecycleInv, TypeOK, u
    <3>4. CASE t # u
      BY <1>1, <3>2, <3>4 DEF LifecycleInv, TypeOK, u
    <3> QED BY <3>3, <3>4
  <2>5. CASE Next
    <3>1. \/ UNCHANGED registration
          \/ \E s \in Runtimes : FinishRegistration(s) \/ UnbindTypes(s)
      BY <2>5 DEF Next, ClaimEngine, StartEngine, Register, ResolveChild, BeginResolve,
                  CallbackThrows, RegistrationFails, CreateSystem, ReleaseSystem, RequestClose,
                  Close, ClosingStep, ReleaseEngine
    <3> QED BY <2>2, <2>3, <2>4, <3>1
  <2>6. CASE UNCHANGED vars
    BY <2>6 DEF vars
  <2> QED BY <1>1, <2>5, <2>6
<1>2. LifecycleInv /\ [Next]_vars =>
        [\A r \in Runtimes : systemCount[r] > 0 /\ systemCount'[r] > 0 =>
            \A t \in Types : (Bound(r, t) \/ Bound(r, t)') => registration'[t] = registration[t]]_vars
  BY <1>1
<1> QED BY <1>2, LifecycleInvariance, PTL DEF Spec, DefinitionsStableWhileSystemsRun
=============================================================================
