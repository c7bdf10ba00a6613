--------------------------- MODULE WorldTickProofs ---------------------------
(***************************************************************************)
(* What a tick leaves behind, for every world: the invariant relates what  *)
(* a runtime remembers of its last solution to the parameters the world    *)
(* has now, and says for each pass what the islands it has visited have    *)
(* done.  The refinement of TickContract follows from it.                  *)
(***************************************************************************)
EXTENDS WorldTick, FiniteSetTheorems, TLAPS

Passes == {"idle", "prepare", "solve", "validate", "scatter", "finalize", "collect"}

WorldShape ==
    /\ islandSlots \in Nat
    /\ tick \in [pass : Passes, todo : SUBSET Islands]
    /\ invalidation = [ topologyDirty |-> invalidation.topologyDirty,
                        numericalDirty |-> invalidation.numericalDirty,
                        retired |-> invalidation.retired ]
    /\ tick.pass # "idle" => invalidation = EmptyInvalidation
    \* The slot of an island is not used again.
    /\ invalidation.retired \subseteq (1..islandSlots) \ Islands
    /\ nextId \in Nat \ {0}
    /\ \A s \in DOMAIN subscriptions :
        /\ s \in 1..(nextId - 1)
        /\ subscriptions[s] = [ component |-> subscriptions[s].component,
                                published |-> subscriptions[s].published ]
        /\ subscriptions[s].component \in DOMAIN islandOf

\* What a runtime loaded and computed last.
Current(i) == [d \in Parts(i) |-> parameter[d]]

IsRuntime(r) ==
    /\ r = [ status |-> r.status, inputs |-> r.inputs, outputs |-> r.outputs,
             parameters |-> r.parameters, staticInputsDirty |-> r.staticInputsDirty,
             staticInitialized |-> r.staticInitialized, matrix |-> r.matrix,
             matrixDirty |-> r.matrixDirty, solution |-> r.solution,
             observerOutputsDirty |-> r.observerOutputsDirty, needsSolve |-> r.needsSolve ]
    /\ {r.staticInputsDirty, r.staticInitialized, r.matrixDirty,
        r.observerOutputsDirty, r.needsSolve} \subseteq BOOLEAN

\* A runtime that never had all its parameters has no matrix, one that loaded
\* them has those of the world unless it was told of a change, and one that
\* sleeps has the solution for them.
RuntimeIsCurrent(r, current, sleepable, changed) ==
    /\ r.parameters = [d \in DOMAIN current |-> r.parameters[d]]
    /\ r.staticInitialized => \A d \in DOMAIN current : current[d] # Unassigned
    /\ ~r.staticInputsDirty => r.staticInitialized
    /\ ~r.staticInputsDirty /\ ~changed => r.parameters = current
    /\ ~r.matrixDirty => r.staticInitialized /\ r.matrix = r.parameters
    /\ sleepable /\ ~r.needsSolve /\ ~changed =>
        /\ ~r.staticInputsDirty
        /\ r.solution = <<[parameters |-> current, inputs |-> << >>]>>

RuntimesInv ==
    \A i \in Islands \ invalidation.topologyDirty :
        /\ i \in DOMAIN runtimes
        /\ IsRuntime(runtimes[i])
        /\ RuntimeIsCurrent(runtimes[i], Current(i), Sleepable(i), i \in invalidation.numericalDirty)

\* The islands that a pass has visited.
Later ==
    [ prepare |-> {"solve", "validate", "scatter", "finalize", "collect"},
      solve |-> {"validate", "scatter", "finalize", "collect"},
      validate |-> {"scatter", "finalize", "collect"},
      scatter |-> {"finalize", "collect"},
      finalize |-> {"collect"} ]
Done(pass, i) == (tick.pass = pass /\ i \notin tick.todo) \/ tick.pass \in Later[pass]

Prepared(i) ==
    /\ runtimes[i].inputs = [c \in States(i) |-> runtimes[i].inputs[c]]
    /\ \A c \in States(i) : runtimes[i].inputs[c] \in Values

Unwritten(i) == \A c \in States(i) : runtimes[i].inputs[c] = ReadLogical(c)

Decided(i) ==
    LET r == runtimes[i] IN
    /\ r.status \in {"available", "unavailable"}
    /\ r.status = "available" =>
        /\ r.staticInitialized
        /\ r.solution = <<[parameters |-> Current(i), inputs |-> r.inputs]>>
        /\ \A c \in States(i) : r.outputs[c] \in {"nonFinite", Advanced(r.inputs[c])}

Validated(i) ==
    runtimes[i].status = "available" =>
        \A c \in States(i) : runtimes[i].outputs[c] = Advanced(runtimes[i].inputs[c])

Committed(c) ==
    LET r == runtimes[islandOf[c]] IN
    IF r.status = "available" THEN Advanced(r.inputs[c]) ELSE Failed(c, r.inputs[c])

Scattered(i) == \A c \in States(i) : store[c[1]].values[c[2]] = Committed(c)

Finalized(i) == \A c \in States(i) : store[c[1]].initialized

IslandInv(i) ==
    /\ Done("prepare", i) => Prepared(i)
    /\ Done("prepare", i) /\ ~Done("scatter", i) => Unwritten(i)
    /\ Done("solve", i) => Decided(i)
    /\ Done("validate", i) => Validated(i)
    /\ Done("scatter", i) => Scattered(i)
    /\ Done("finalize", i) => Finalized(i)

TickInv == \A i \in Islands : IslandInv(i)

SubscriptionsInv ==
    \A s \in DOMAIN subscriptions :
        LET i == islandOf[subscriptions[s].component]
            published == subscriptions[s].published
        IN  /\ published = received[s]
            /\ /\ i \notin invalidation.topologyDirty
               /\ runtimes[i].solution # << >> /\ ~runtimes[i].observerOutputsDirty
               /\ published # << >> /\ published[1] = "available"
               => published = <<"available", runtimes[i].solution[1]>>

WorldInv ==
    TypeOK /\ InitializedRowsAreWhole /\ WorldShape /\ RuntimesInv /\ TickInv /\ SubscriptionsInv

-----------------------------------------------------------------------------
\* An empty world.
LEMMA WorldInvInit == Init => WorldInv
<1> SUFFICES ASSUME Init PROVE WorldInv
  OBVIOUS
<1>1. /\ Islands = {} /\ DOMAIN islandOf = {} /\ DOMAIN parameter = {} /\ DOMAIN store = {}
      /\ DOMAIN subscriptions = {} /\ DOMAIN received = {} /\ DOMAIN runtimes = {}
  BY DEF Init, Islands
<1>2. TypeOK
  BY <1>1 DEF TypeOK, Init, EmptyInvalidation, Idle
<1>3. InitializedRowsAreWhole
  BY <1>1 DEF InitializedRowsAreWhole
<1>4. WorldShape
  BY <1>1 DEF WorldShape, Init, EmptyInvalidation, Idle, Passes
<1>5. RuntimesInv /\ TickInv /\ SubscriptionsInv
  BY <1>1 DEF RuntimesInv, TickInv, SubscriptionsInv
<1> QED BY <1>2, <1>3, <1>4, <1>5 DEF WorldInv

-----------------------------------------------------------------------------
(* Commands.                                                               *)

\* An island whose components and parameters stay is solved as before.
LEMMA SameIsland ==
    ASSUME NEW i, Members(i)' = Members(i), \A d \in Parts(i) : parameter'[d] = parameter[d]
    PROVE  /\ Parts(i)' = Parts(i) /\ States(i)' = States(i)
           /\ Current(i)' = Current(i) /\ Sleepable(i)' = Sleepable(i)
<1>1. Parts(i)' = Parts(i)
  BY DEF Parts
<1>2. States(i)' = States(i)
  BY DEF States
<1>3. Current(i)' = Current(i)
  BY <1>1 DEF Current
<1> QED BY <1>1, <1>2, <1>3 DEF Sleepable

\* A command that regroups components marks the islands it touched, and no
\* other island changes.
LEMMA Regroup ==
    ASSUME WorldInv, NEW touched, Invalidate(touched), UNCHANGED runtimes,
           islandSlots' \in Nat, islandSlots <= islandSlots',
           touched \subseteq (1..islandSlots') \ invalidation.retired,
           Islands' \ touched = Islands \ touched,
           \A i \in Islands \ touched :
              Members(i)' = Members(i) /\ \A d \in Parts(i) : parameter'[d] = parameter[d],
           \A s \in DOMAIN subscriptions' :
              /\ s \in DOMAIN subscriptions
              /\ subscriptions'[s] = subscriptions[s] /\ received'[s] = received[s]
              /\ subscriptions[s].component \in DOMAIN islandOf'
    PROVE  /\ RuntimesInv' /\ SubscriptionsInv'
           /\ invalidation' = [ topologyDirty |-> invalidation'.topologyDirty,
                                numericalDirty |-> invalidation'.numericalDirty,
                                retired |-> invalidation'.retired ]
           /\ invalidation'.topologyDirty \subseteq Islands'
           /\ invalidation'.numericalDirty \subseteq Islands' \ invalidation'.topologyDirty
           /\ invalidation'.retired \subseteq (1..islandSlots') \ Islands'
<1>1. /\ invalidation'.topologyDirty
            = (invalidation.topologyDirty \ (touched \ Islands')) \cup (touched \cap Islands')
      /\ invalidation'.numericalDirty = invalidation.numericalDirty \ touched
      /\ invalidation'.retired = invalidation.retired \cup (touched \ Islands')
      /\ invalidation' = [ topologyDirty |-> invalidation'.topologyDirty,
                           numericalDirty |-> invalidation'.numericalDirty,
                           retired |-> invalidation'.retired ]
  BY DEF Invalidate, Islands
<1>2. /\ invalidation.topologyDirty \subseteq Islands
      /\ invalidation.numericalDirty \subseteq Islands \ invalidation.topologyDirty
      /\ invalidation.retired \subseteq (1..islandSlots) \ Islands
      /\ islandSlots \in Nat
  BY DEF WorldInv, TypeOK, WorldShape
<1>3. ASSUME NEW i \in Islands' \ invalidation'.topologyDirty
      PROVE  /\ i \in Islands \ invalidation.topologyDirty /\ i \notin touched
             /\ i \in invalidation'.numericalDirty <=> i \in invalidation.numericalDirty
             /\ Members(i)' = Members(i)
             /\ Current(i)' = Current(i) /\ Sleepable(i)' = Sleepable(i)
  <2>1. /\ i \in Islands \ invalidation.topologyDirty /\ i \notin touched
        /\ i \in invalidation'.numericalDirty <=> i \in invalidation.numericalDirty
    BY <1>1
  <2> QED BY <2>1, SameIsland
<1>4. RuntimesInv'
  <2> SUFFICES ASSUME NEW i \in Islands' \ invalidation'.topologyDirty
               PROVE  /\ i \in DOMAIN runtimes'
                      /\ IsRuntime(runtimes'[i])
                      /\ RuntimeIsCurrent(runtimes'[i], Current(i)', Sleepable(i)',
                                          i \in invalidation'.numericalDirty)
    BY DEF RuntimesInv
  <2> QED BY <1>3 DEF WorldInv, RuntimesInv
<1>5. SubscriptionsInv'
  <2> SUFFICES ASSUME NEW s \in DOMAIN subscriptions',
                      NEW i, i = islandOf'[subscriptions'[s].component]
               PROVE  LET published == subscriptions'[s].published IN
                      /\ published = received'[s]
                      /\ /\ i \notin invalidation'.topologyDirty
                         /\ runtimes'[i].solution # << >> /\ ~runtimes'[i].observerOutputsDirty
                         /\ published # << >> /\ published[1] = "available"
                         => published = <<"available", runtimes'[i].solution[1]>>
    BY DEF SubscriptionsInv
  <2>1. i \in Islands' /\ subscriptions[s].component \in Members(i)'
    BY DEF Islands, Members
  <2>2. i \notin invalidation'.topologyDirty => i = islandOf[subscriptions[s].component]
    BY <1>3, <2>1 DEF Members
  <2> QED BY <1>3, <2>1, <2>2 DEF WorldInv, SubscriptionsInv
<1>6. /\ invalidation'.topologyDirty \subseteq Islands'
      /\ invalidation'.numericalDirty \subseteq Islands' \ invalidation'.topologyDirty
  BY <1>1, <1>2
<1>7. invalidation'.retired \subseteq (1..islandSlots') \ Islands'
  BY <1>1, <1>2
<1> QED BY <1>1, <1>4, <1>5, <1>6, <1>7

\* Between ticks nothing is expected of the passes.
LEMMA BetweenTicks == ASSUME tick' = Idle PROVE TickInv' /\ tick'.pass = "idle"
<1>1. tick'.pass = "idle"
  BY DEF Idle
<1>2. \A pass \in {"prepare", "solve", "validate", "scatter", "finalize"} : "idle" \notin Later[pass]
  BY DEF Later
<1> QED BY <1>1, <1>2 DEF TickInv, IslandInv, Done

\* Every part of a new device is in an island of its own, to be compiled.
LEMMA AddDeviceStep == ASSUME WorldInv, NEW d \in Devices, AddDevice(d) PROVE WorldInv'
<1> DEFINE n == Cardinality(Partitions[d])
           new == {d} \X Partitions[d]
<1>1. PICK slot \in [Partitions[d] -> (islandSlots + 1)..(islandSlots + n)] :
        /\ islandOf' = [c \in DOMAIN islandOf \cup new |->
                            IF c[1] = d THEN slot[c[2]] ELSE islandOf[c]]
        /\ Invalidate({slot[p] : p \in Partitions[d]})
  BY DEF AddDevice
<1> DEFINE touched == {slot[p] : p \in Partitions[d]}
<1>2. /\ tick = Idle /\ d \notin DOMAIN parameter /\ islandSlots' = islandSlots + n
      /\ parameter' = [e \in DOMAIN parameter \cup {d} |->
                            IF e = d THEN Unassigned ELSE parameter[e]]
      /\ store' = [e \in DOMAIN store \cup {d} |->
            IF e = d THEN [values |-> [p \in Partitions[d] |-> Zero], initialized |-> FALSE]
            ELSE store[e]]
      /\ UNCHANGED <<runtimes, subscriptions, nextId, received, tick>>
  BY DEF AddDevice
<1>3. n \in Nat
  BY PartitionsAssumption, FS_CardinalityType
<1>4. /\ DOMAIN islandOf = {c \in Components : c[1] \in DOMAIN parameter}
      /\ Islands \subseteq 1..islandSlots /\ islandSlots \in Nat
      /\ invalidation.retired \subseteq 1..islandSlots
  BY DEF WorldInv, TypeOK, WorldShape
<1> HIDE DEF n
<1>5. \A c \in DOMAIN islandOf : c[1] # d /\ c \notin new
  BY <1>2, <1>4
<1>6. /\ DOMAIN islandOf' = DOMAIN islandOf \cup new
      /\ \A c \in DOMAIN islandOf : islandOf'[c] = islandOf[c]
      /\ \A p \in Partitions[d] : <<d, p>> \in new /\ islandOf'[<<d, p>>] = slot[p]
      /\ \A c \in new : islandOf'[c] \in touched
  BY <1>1, <1>5
<1>7. touched \subseteq (islandSlots + 1)..(islandSlots + n)
  BY <1>1
<1> HIDE DEF touched
<1>8. Islands' \subseteq Islands \cup touched /\ Islands \subseteq Islands'
  BY <1>6 DEF Islands
<1>9. \A i \in Islands : i \notin touched
  BY <1>3, <1>4, <1>7
<1>10. ASSUME NEW i \in Islands
       PROVE  Members(i)' = Members(i) /\ \A e \in Parts(i) : parameter'[e] = parameter[e]
  <2>1. Members(i)' = Members(i)
    BY <1>6, <1>9 DEF Members
  <2> QED BY <1>2, <1>4, <1>5, <2>1 DEF Parts, Members
<1>11. /\ islandSlots' \in Nat /\ islandSlots <= islandSlots'
       /\ touched \subseteq (1..islandSlots') \ invalidation.retired
  BY <1>2, <1>3, <1>4, <1>7
<1>12. \A s \in DOMAIN subscriptions : subscriptions[s].component \in DOMAIN islandOf'
  BY <1>6 DEF WorldInv, WorldShape
<1>13. Invalidate(touched)
  BY <1>1 DEF touched
<1>14. /\ RuntimesInv' /\ SubscriptionsInv'
       /\ invalidation' = [ topologyDirty |-> invalidation'.topologyDirty,
                            numericalDirty |-> invalidation'.numericalDirty,
                            retired |-> invalidation'.retired ]
       /\ invalidation'.topologyDirty \subseteq Islands'
       /\ invalidation'.numericalDirty \subseteq Islands' \ invalidation'.topologyDirty
       /\ invalidation'.retired \subseteq (1..islandSlots') \ Islands'
  BY <1>2, <1>8, <1>9, <1>10, <1>11, <1>12, <1>13, Regroup
<1>15. TypeOK'
  <2>1. DOMAIN parameter' = DOMAIN parameter \cup {d} /\ DOMAIN store' = DOMAIN parameter'
    BY <1>2 DEF WorldInv, TypeOK
  <2>2. new = {c \in Components : c[1] = d}
    BY DEF Components
  <2>3. DOMAIN islandOf' = {c \in Components : c[1] \in DOMAIN parameter'}
    BY <1>4, <1>6, <2>1, <2>2
  <2>4. Islands' \subseteq 1..islandSlots'
    BY <1>4, <1>8, <1>11
  <2>5. parameter' \in [DOMAIN parameter' -> Parameters \cup {Unassigned}]
    BY <1>2 DEF WorldInv, TypeOK
  <2>6. \A e \in DOMAIN store' :
            store'[e] \in [values : [Partitions[e] -> Values \cup {Zero}], initialized : BOOLEAN]
    BY <1>2 DEF WorldInv, TypeOK
  <2> QED BY <1>2, <1>14, <2>1, <2>3, <2>4, <2>5, <2>6 DEF WorldInv, TypeOK, Idle
<1>16. InitializedRowsAreWhole'
  BY <1>2 DEF WorldInv, TypeOK, InitializedRowsAreWhole
<1>17. WorldShape'
  BY <1>2, <1>11, <1>12, <1>14 DEF WorldInv, WorldShape, Idle, Passes
<1> QED BY <1>2, <1>14, <1>15, <1>16, <1>17, BetweenTicks DEF WorldInv

\* A device goes with its components, its row and its subscriptions.
LEMMA RemoveDeviceStep == ASSUME WorldInv, NEW d \in Devices, RemoveDevice(d) PROVE WorldInv'
<1> DEFINE kept == {s \in DOMAIN subscriptions : subscriptions[s].component[1] # d}
<1> PICK touched : touched = {islandOf[c] : c \in {d} \X Partitions[d]}
  OBVIOUS
<1>1. /\ tick = Idle /\ d \in DOMAIN parameter
      /\ islandOf' = [c \in {c \in DOMAIN islandOf : c[1] # d} |-> islandOf[c]]
      /\ Invalidate(touched)
      /\ parameter' = [e \in DOMAIN parameter \ {d} |-> parameter[e]]
      /\ store' = [e \in DOMAIN store \ {d} |-> store[e]]
      /\ subscriptions' = [s \in kept |-> subscriptions[s]]
      /\ received' = [s \in kept |-> received[s]]
      /\ UNCHANGED <<islandSlots, runtimes, nextId, tick>>
  BY DEF RemoveDevice
<1>2. /\ DOMAIN islandOf = {c \in Components : c[1] \in DOMAIN parameter}
      /\ Islands \subseteq 1..islandSlots /\ islandSlots \in Nat
      /\ invalidation.retired \subseteq (1..islandSlots) \ Islands
  BY DEF WorldInv, TypeOK, WorldShape
<1>3. \A c \in Components : c[1] = d <=> c \in {d} \X Partitions[d]
  BY DEF Components
<1>4. /\ DOMAIN islandOf' = {c \in DOMAIN islandOf : c[1] # d}
      /\ \A c \in DOMAIN islandOf' : islandOf'[c] = islandOf[c]
      /\ \A c \in DOMAIN islandOf : c[1] = d => islandOf[c] \in touched
      /\ touched \subseteq Islands
  BY <1>1, <1>2, <1>3 DEF Islands, Components
<1> HIDE DEF kept
<1>5. Islands' \subseteq Islands /\ Islands' \ touched = Islands \ touched
  BY <1>4 DEF Islands
<1>6. ASSUME NEW i \in Islands \ touched
      PROVE  Members(i)' = Members(i) /\ \A e \in Parts(i) : parameter'[e] = parameter[e]
  <2>1. Members(i)' = Members(i) /\ \A c \in Members(i) : c[1] # d
    BY <1>4 DEF Members
  <2> QED BY <1>1, <1>2, <2>1 DEF Parts, Members
<1>7. \A s \in DOMAIN subscriptions' :
        /\ s \in DOMAIN subscriptions
        /\ subscriptions'[s] = subscriptions[s] /\ received'[s] = received[s]
        /\ subscriptions[s].component \in DOMAIN islandOf'
  BY <1>1, <1>4 DEF WorldInv, WorldShape, kept
<1>8. /\ Invalidate(touched) /\ UNCHANGED runtimes
      /\ islandSlots' \in Nat /\ islandSlots <= islandSlots'
      /\ touched \subseteq (1..islandSlots') \ invalidation.retired
  <2>1. Invalidate(touched) /\ UNCHANGED runtimes /\ islandSlots' = islandSlots
    BY <1>1
  <2>2. touched \subseteq (1..islandSlots) \ invalidation.retired
    BY <1>2, <1>4
  <2> QED BY <1>2, <2>1, <2>2
<1>9. /\ RuntimesInv' /\ SubscriptionsInv'
      /\ invalidation' = [ topologyDirty |-> invalidation'.topologyDirty,
                           numericalDirty |-> invalidation'.numericalDirty,
                           retired |-> invalidation'.retired ]
      /\ invalidation'.topologyDirty \subseteq Islands'
      /\ invalidation'.numericalDirty \subseteq Islands' \ invalidation'.topologyDirty
      /\ invalidation'.retired \subseteq (1..islandSlots') \ Islands'
  BY <1>5, <1>6, <1>7, <1>8, Regroup
<1>10. TypeOK'
  <2>1. DOMAIN islandOf' = {c \in Components : c[1] \in DOMAIN parameter'}
    BY <1>1, <1>2, <1>4
  <2>2. /\ parameter' \in [DOMAIN parameter' -> Parameters \cup {Unassigned}]
        /\ DOMAIN store' = DOMAIN parameter'
        /\ \A e \in DOMAIN store' :
            store'[e] \in [values : [Partitions[e] -> Values \cup {Zero}], initialized : BOOLEAN]
    BY <1>1 DEF WorldInv, TypeOK
  <2>3. Islands' \subseteq 1..islandSlots' /\ DOMAIN received' = DOMAIN subscriptions'
    BY <1>1, <1>2, <1>5
  <2> QED BY <1>1, <1>9, <2>1, <2>2, <2>3 DEF TypeOK, Idle
<1>11. InitializedRowsAreWhole'
  BY <1>1 DEF WorldInv, InitializedRowsAreWhole
<1>12. WorldShape'
  BY <1>1, <1>7, <1>9 DEF WorldInv, WorldShape, Idle, Passes
<1> QED BY <1>1, <1>9, <1>10, <1>11, <1>12, BetweenTicks DEF WorldInv

\* The island a component leaves and the one it joins are compiled again.
LEMMA MoveComponentStep ==
    ASSUME WorldInv, NEW c \in Components, NEW island \in Islands \cup {islandSlots + 1},
           MoveComponent(c, island)
    PROVE  WorldInv'
<1> PICK from : from = islandOf[c]
  OBVIOUS
<1>1. /\ tick = Idle /\ c \in DOMAIN islandOf /\ island # from
      /\ islandOf' = [islandOf EXCEPT ![c] = island]
      /\ islandSlots' = IF island > islandSlots THEN island ELSE islandSlots
      /\ Invalidate({from, island})
      /\ UNCHANGED parameter /\ UNCHANGED store /\ UNCHANGED runtimes
      /\ UNCHANGED subscriptions /\ UNCHANGED nextId /\ UNCHANGED received /\ UNCHANGED tick
  BY DEF MoveComponent
<1>2. /\ DOMAIN islandOf = {e \in Components : e[1] \in DOMAIN parameter}
      /\ Islands \subseteq 1..islandSlots /\ islandSlots \in Nat
      /\ invalidation.retired \subseteq (1..islandSlots) \ Islands
  BY DEF WorldInv, TypeOK, WorldShape
<1>3. /\ DOMAIN islandOf' = DOMAIN islandOf /\ islandOf'[c] = island
      /\ \A e \in DOMAIN islandOf : e # c => islandOf'[e] = islandOf[e]
  BY <1>1
<1>4. from \in Islands /\ island \in Nat
  BY <1>1, <1>2 DEF Islands
<1>5. islandSlots' \in Nat /\ islandSlots <= islandSlots' /\ island \in 1..islandSlots'
  BY <1>1, <1>2, <1>4
<1>6. {from, island} \subseteq (1..islandSlots') \ invalidation.retired
  <2>1. from \in 1..islandSlots'
    BY <1>2, <1>4, <1>5
  <2>2. islandSlots + 1 \notin 1..islandSlots
    BY <1>2
  <2> QED BY <1>2, <1>4, <1>5, <2>1, <2>2
<1>7. /\ Islands' \subseteq Islands \cup {island}
      /\ Islands' \ {from, island} = Islands \ {from, island}
  <2>1. \A e \in DOMAIN islandOf : islandOf'[e] \in Islands \cup {island}
    BY <1>3 DEF Islands
  <2>2. \A i \in Islands \ {from, island} : i \in Islands'
    BY <1>3 DEF Islands
  <2>3. Islands' \subseteq Islands \cup {island}
    BY <1>3, <2>1 DEF Islands
  <2> QED BY <2>2, <2>3
<1>8. ASSUME NEW i \in Islands \ {from, island}
      PROVE  Members(i)' = Members(i) /\ \A e \in Parts(i) : parameter'[e] = parameter[e]
  BY <1>1, <1>3 DEF Members
<1>9. \A s \in DOMAIN subscriptions' :
        /\ s \in DOMAIN subscriptions
        /\ subscriptions'[s] = subscriptions[s] /\ received'[s] = received[s]
        /\ subscriptions[s].component \in DOMAIN islandOf'
  BY <1>1, <1>3 DEF WorldInv, WorldShape
<1>10. /\ RuntimesInv' /\ SubscriptionsInv'
       /\ invalidation' = [ topologyDirty |-> invalidation'.topologyDirty,
                            numericalDirty |-> invalidation'.numericalDirty,
                            retired |-> invalidation'.retired ]
       /\ invalidation'.topologyDirty \subseteq Islands'
       /\ invalidation'.numericalDirty \subseteq Islands' \ invalidation'.topologyDirty
       /\ invalidation'.retired \subseteq (1..islandSlots') \ Islands'
  BY <1>1, <1>5, <1>6, <1>7, <1>8, <1>9, Regroup
<1>11. TypeOK'
  <2>1. Islands' \subseteq 1..islandSlots'
    BY <1>2, <1>5, <1>7
  <2>2. DOMAIN islandOf' = {e \in Components : e[1] \in DOMAIN parameter'}
    BY <1>1, <1>2, <1>3
  <2> QED BY <1>1, <1>10, <2>1, <2>2 DEF WorldInv, TypeOK, Idle
<1>12. InitializedRowsAreWhole'
  BY <1>1 DEF WorldInv, InitializedRowsAreWhole
<1>13. WorldShape'
  BY <1>1, <1>5, <1>9, <1>10 DEF WorldInv, WorldShape, Idle, Passes
<1> QED BY <1>1, <1>10, <1>11, <1>12, <1>13, BetweenTicks DEF WorldInv

\* The islands of a device whose parameter is set are told of the change.
LEMMA SetDeviceParameterStep ==
    ASSUME WorldInv, NEW d \in Devices, NEW value \in Parameters, SetDeviceParameter(d, value)
    PROVE  WorldInv'
<1> DEFINE ofDevice == {islandOf[c] : c \in {d} \X Partitions[d]}
<1>1. /\ tick = Idle /\ d \in DOMAIN parameter
      /\ parameter' = [parameter EXCEPT ![d] = value]
      /\ invalidation' = [invalidation EXCEPT !.numericalDirty =
              @ \cup (ofDevice \ invalidation.topologyDirty)]
      /\ UNCHANGED islandOf /\ UNCHANGED islandSlots /\ UNCHANGED store /\ UNCHANGED runtimes
      /\ UNCHANGED subscriptions /\ UNCHANGED nextId /\ UNCHANGED received /\ UNCHANGED tick
  BY DEF SetDeviceParameter
<1>2. DOMAIN islandOf = {c \in Components : c[1] \in DOMAIN parameter}
  BY DEF WorldInv, TypeOK
<1>3. \A c \in Components : c[1] = d => c \in {d} \X Partitions[d]
  BY DEF Components
<1>4. \A c \in {d} \X Partitions[d] : c \in DOMAIN islandOf
  BY <1>1, <1>2 DEF Components
<1>5. /\ ofDevice \subseteq Islands
      /\ \A i \in Islands : d \in Parts(i) => i \in ofDevice
  BY <1>2, <1>3, <1>4 DEF Islands, Parts, Members
<1>6. /\ invalidation' = [ topologyDirty |-> invalidation.topologyDirty,
                           numericalDirty |-> invalidation.numericalDirty \cup
                                                (ofDevice \ invalidation.topologyDirty),
                           retired |-> invalidation.retired ]
  BY <1>1 DEF WorldInv, WorldShape
<1> HIDE DEF ofDevice
<1>7. Islands' = Islands /\ \A i : Members(i)' = Members(i) /\ Parts(i)' = Parts(i)
  BY <1>1 DEF Islands, Members, Parts
<1>8. RuntimesInv'
  <2> SUFFICES ASSUME NEW i \in Islands \ invalidation.topologyDirty
               PROVE  RuntimeIsCurrent(runtimes[i], Current(i)', Sleepable(i)',
                                       i \in invalidation'.numericalDirty)
    BY <1>1, <1>6, <1>7 DEF WorldInv, RuntimesInv
  <2>1. RuntimeIsCurrent(runtimes[i], Current(i), Sleepable(i), i \in invalidation.numericalDirty)
    BY DEF WorldInv, RuntimesInv
  <2>2. CASE i \in ofDevice
    <3>1. i \in invalidation'.numericalDirty
      BY <1>6, <2>2
    <3>2. DOMAIN Current(i)' = DOMAIN Current(i)
      BY <1>7 DEF Current
    <3>3. /\ parameter' \in [DOMAIN parameter -> Parameters \cup {Unassigned}]
          /\ \A e \in DOMAIN parameter : parameter[e] # Unassigned => parameter'[e] # Unassigned
      BY <1>1, ParametersAssumption DEF WorldInv, TypeOK
    <3>4. \A e \in Parts(i) : e \in DOMAIN parameter
      BY <1>2 DEF Parts, Members
    <3>5. (\A e \in DOMAIN Current(i) : Current(i)[e] # Unassigned)
            => \A e \in DOMAIN Current(i)' : Current(i)'[e] # Unassigned
      BY <1>7, <3>3, <3>4 DEF Current
    <3> QED BY <2>1, <3>1, <3>2, <3>5 DEF RuntimeIsCurrent
  <2>3. CASE i \notin ofDevice
    <3>1. \A e \in Parts(i) : parameter'[e] = parameter[e]
      <4>1. \A e \in Parts(i) : e # d
        BY <1>5, <2>3
      <4> QED BY <1>1, <4>1
    <3>2. Current(i)' = Current(i) /\ Sleepable(i)' = Sleepable(i)
      BY <1>7, <3>1, SameIsland
    <3>3. i \in invalidation'.numericalDirty <=> i \in invalidation.numericalDirty
      BY <1>6, <2>3
    <3> QED BY <2>1, <3>2, <3>3
  <2> QED BY <2>2, <2>3
<1>9. SubscriptionsInv'
  BY <1>1, <1>6 DEF WorldInv, SubscriptionsInv
<1>10. TypeOK'
  <2>1. /\ invalidation'.topologyDirty \subseteq Islands'
        /\ invalidation'.numericalDirty \subseteq Islands' \ invalidation'.topologyDirty
    BY <1>5, <1>6, <1>7 DEF WorldInv, TypeOK
  <2> QED BY <1>1, <1>7, <2>1 DEF WorldInv, TypeOK
<1>11. InitializedRowsAreWhole'
  BY <1>1 DEF WorldInv, InitializedRowsAreWhole
<1>12. WorldShape'
  BY <1>1, <1>6, <1>7 DEF WorldInv, WorldShape, Idle, Passes
<1> QED BY <1>1, <1>8, <1>9, <1>10, <1>11, <1>12, BetweenTicks DEF WorldInv

\* Subscribing and unsubscribing change the subscriptions only; an identifier
\* is given out once.
LEMMA SubscribeStep ==
    ASSUME WorldInv, \/ \E c \in Components : Subscribe(c)
                     \/ \E s \in DOMAIN subscriptions : Unsubscribe(s)
    PROVE  WorldInv'
<1>1. /\ tick = Idle
      /\ UNCHANGED islandOf /\ UNCHANGED islandSlots /\ UNCHANGED parameter /\ UNCHANGED store
      /\ UNCHANGED invalidation /\ UNCHANGED runtimes /\ UNCHANGED tick
  BY DEF Subscribe, Unsubscribe
<1>2. nextId \in Nat \ {0} /\ nextId \notin DOMAIN subscriptions /\ DOMAIN received = DOMAIN subscriptions
  BY DEF WorldInv, WorldShape, TypeOK
<1>3. /\ nextId' \in Nat \ {0} /\ nextId <= nextId'
      /\ DOMAIN received' = DOMAIN subscriptions'
      /\ \A s \in DOMAIN subscriptions' :
            \/ /\ s \in DOMAIN subscriptions
               /\ subscriptions'[s] = subscriptions[s] /\ received'[s] = received[s]
            \/ \E c \in DOMAIN islandOf :
               /\ s = nextId /\ nextId' = nextId + 1
               /\ subscriptions'[s] = [component |-> c, published |-> << >>]
               /\ received'[s] = << >>
  <2>1. ASSUME NEW c \in Components, Subscribe(c) PROVE <1>3!:
    BY <1>2, <2>1 DEF Subscribe
  <2>2. ASSUME NEW s \in DOMAIN subscriptions, Unsubscribe(s) PROVE <1>3!:
    BY <1>2, <2>2 DEF Unsubscribe
  <2> QED BY <2>1, <2>2
<1>4. /\ Islands' = Islands
      /\ \A i : Current(i)' = Current(i) /\ Sleepable(i)' = Sleepable(i)
  BY <1>1 DEF Islands, Current, Parts, Sleepable, States, Members
<1>5. RuntimesInv'
  BY <1>1, <1>4 DEF WorldInv, RuntimesInv
<1>6. SubscriptionsInv'
  BY <1>1, <1>3 DEF WorldInv, SubscriptionsInv
<1>7. TypeOK'
  BY <1>1, <1>3, <1>4 DEF WorldInv, TypeOK
<1>8. InitializedRowsAreWhole'
  BY <1>1 DEF WorldInv, InitializedRowsAreWhole
<1>9. WorldShape'
  <2>1. ASSUME NEW s \in DOMAIN subscriptions'
        PROVE  /\ s \in 1..(nextId' - 1)
               /\ subscriptions'[s] = [ component |-> subscriptions'[s].component,
                                        published |-> subscriptions'[s].published ]
               /\ subscriptions'[s].component \in DOMAIN islandOf'
    <3>1. CASE s \in DOMAIN subscriptions /\ subscriptions'[s] = subscriptions[s]
      BY <1>1, <1>2, <1>3, <3>1 DEF WorldInv, WorldShape
    <3>2. CASE s = nextId /\ nextId' = nextId + 1
               /\ \E c \in DOMAIN islandOf : subscriptions'[s] = [component |-> c, published |-> << >>]
      BY <1>1, <1>2, <3>2
    <3> QED BY <1>3, <3>1, <3>2
  <2> QED BY <1>1, <1>3, <1>4, <2>1 DEF WorldInv, WorldShape
<1> QED BY <1>1, <1>5, <1>6, <1>7, <1>8, <1>9, BetweenTicks DEF WorldInv

-----------------------------------------------------------------------------
(* Synchronisation, and the passes one after another.                      *)

\* A new runtime has loaded nothing and computed nothing.
LEMMA NewRuntimeIsCurrent ==
    ASSUME NEW i, NEW changed
    PROVE  /\ IsRuntime(NewRuntime(i))
           /\ RuntimeIsCurrent(NewRuntime(i), Current(i), Sleepable(i), changed)
           /\ NewRuntime(i).solution = << >>
BY DEF NewRuntime, IsRuntime, RuntimeIsCurrent, Current

\* Synchronised, every island has a runtime that knows what changed.
LEMMA BeginTickStep == ASSUME WorldInv, BeginTick PROVE WorldInv'
<1> DEFINE synchronized == Compiled(invalidation.topologyDirty)
<1>1. /\ runtimes' = [i \in DOMAIN synchronized |->
            IF i \in invalidation.numericalDirty
            THEN [synchronized[i] EXCEPT !.staticInputsDirty = TRUE, !.needsSolve = TRUE]
            ELSE synchronized[i]]
      /\ invalidation' = EmptyInvalidation
      /\ tick' = [pass |-> "prepare", todo |-> Islands]
      /\ UNCHANGED islandOf /\ UNCHANGED islandSlots /\ UNCHANGED parameter /\ UNCHANGED store
      /\ UNCHANGED subscriptions /\ UNCHANGED nextId /\ UNCHANGED received
  BY DEF BeginTick
<1>2. /\ Islands' = Islands
      /\ \A i : Current(i)' = Current(i) /\ Sleepable(i)' = Sleepable(i)
  BY <1>1 DEF Islands, Current, Parts, Sleepable, States, Members
<1>3. ASSUME NEW i \in invalidation.topologyDirty
      PROVE  i \in DOMAIN runtimes' /\ runtimes'[i] = NewRuntime(i)
  <2>1. i \in DOMAIN synchronized /\ synchronized[i] = NewRuntime(i)
    BY DEF Compiled
  <2>2. i \notin invalidation.numericalDirty
    BY DEF WorldInv, TypeOK
  <2> QED BY <1>1, <2>1, <2>2
<1>4. ASSUME NEW i \in Islands \ invalidation.topologyDirty
      PROVE  /\ i \in DOMAIN runtimes' /\ IsRuntime(runtimes'[i])
             /\ RuntimeIsCurrent(runtimes'[i], Current(i), Sleepable(i), FALSE)
             /\ runtimes'[i].solution = runtimes[i].solution
             /\ runtimes'[i].observerOutputsDirty = runtimes[i].observerOutputsDirty
  <2>1. /\ i \in DOMAIN runtimes /\ IsRuntime(runtimes[i])
        /\ RuntimeIsCurrent(runtimes[i], Current(i), Sleepable(i), i \in invalidation.numericalDirty)
        /\ i \notin invalidation.retired
    BY DEF WorldInv, RuntimesInv, WorldShape
  <2>2. i \in DOMAIN synchronized /\ synchronized[i] = runtimes[i]
    BY <2>1 DEF Compiled
  <2>3. CASE i \in invalidation.numericalDirty
    <3>1. /\ i \in DOMAIN runtimes'
          /\ runtimes'[i] = [runtimes[i] EXCEPT !.staticInputsDirty = TRUE, !.needsSolve = TRUE]
      BY <1>1, <2>2, <2>3
    <3> PICK r : r = runtimes[i]
      OBVIOUS
    <3> PICK q : q = runtimes'[i]
      OBVIOUS
    <3>2. q = [ status |-> r.status, inputs |-> r.inputs, outputs |-> r.outputs,
                parameters |-> r.parameters, staticInputsDirty |-> TRUE,
                staticInitialized |-> r.staticInitialized, matrix |-> r.matrix,
                matrixDirty |-> r.matrixDirty, solution |-> r.solution,
                observerOutputsDirty |-> r.observerOutputsDirty, needsSolve |-> TRUE ]
      BY <2>1, <3>1 DEF IsRuntime
    <3>3. IsRuntime(r) /\ RuntimeIsCurrent(r, Current(i), Sleepable(i), TRUE)
      BY <2>1, <2>3
    <3>4. IsRuntime(q) /\ RuntimeIsCurrent(q, Current(i), Sleepable(i), FALSE)
      BY <3>2, <3>3 DEF IsRuntime, RuntimeIsCurrent
    <3>5. q.solution = r.solution /\ q.observerOutputsDirty = r.observerOutputsDirty
      BY <3>2
    <3> QED BY <3>1, <3>4, <3>5, Zenon
  <2>4. CASE i \notin invalidation.numericalDirty
    <3>1. i \in DOMAIN runtimes' /\ runtimes'[i] = runtimes[i]
      BY <1>1, <2>2, <2>4
    <3> QED BY <2>1, <2>4, <3>1 DEF RuntimeIsCurrent
  <2> QED BY <2>3, <2>4
<1> HIDE DEF synchronized
<1>0. invalidation'.topologyDirty = {} /\ invalidation'.numericalDirty = {}
  BY <1>1 DEF EmptyInvalidation
<1>5. RuntimesInv'
  <2> SUFFICES ASSUME NEW i \in Islands
               PROVE  /\ i \in DOMAIN runtimes' /\ IsRuntime(runtimes'[i])
                      /\ RuntimeIsCurrent(runtimes'[i], Current(i), Sleepable(i), FALSE)
    BY <1>0, <1>2 DEF RuntimesInv, RuntimeIsCurrent
  <2> QED BY <1>3, <1>4, NewRuntimeIsCurrent
<1>6. SubscriptionsInv'
  <2> SUFFICES ASSUME NEW s \in DOMAIN subscriptions,
                      NEW i, i = islandOf[subscriptions[s].component]
               PROVE  LET published == subscriptions[s].published IN
                      /\ published = received[s]
                      /\ /\ runtimes'[i].solution # << >> /\ ~runtimes'[i].observerOutputsDirty
                         /\ published # << >> /\ published[1] = "available"
                         => published = <<"available", runtimes'[i].solution[1]>>
    <3>1. UNCHANGED <<islandOf, subscriptions, received>>
      BY <1>1
    <3> QED BY <3>1 DEF SubscriptionsInv
  <2>1. i \in Islands
    BY DEF WorldInv, WorldShape, Islands
  <2>2. CASE i \in invalidation.topologyDirty
    <3>1. runtimes'[i].solution = << >>
      BY <1>3, <2>2, NewRuntimeIsCurrent
    <3>2. subscriptions[s].published = received[s]
      BY DEF WorldInv, SubscriptionsInv
    <3> QED BY <3>1, <3>2
  <2>3. CASE i \notin invalidation.topologyDirty
    BY <1>4, <2>1, <2>3 DEF WorldInv, SubscriptionsInv
  <2> QED BY <2>2, <2>3
<1>7. TypeOK'
  BY <1>1, <1>2 DEF WorldInv, TypeOK, EmptyInvalidation
<1>8. InitializedRowsAreWhole'
  BY <1>1 DEF WorldInv, InitializedRowsAreWhole
<1>9. WorldShape'
  BY <1>1, <1>2 DEF WorldInv, WorldShape, EmptyInvalidation, Passes
<1>10. TickInv'
  <2>1. \A i \in Islands' : tick'.pass = "prepare" /\ i \in tick'.todo
    BY <1>1, <1>2
  <2>2. \A pass \in {"prepare", "solve", "validate", "scatter", "finalize"} :
            "prepare" \notin Later[pass]
    BY DEF Later
  <2> QED BY <2>1, <2>2 DEF TickInv, IslandInv, Done
<1> QED BY <1>5, <1>6, <1>7, <1>8, <1>9, <1>10 DEF WorldInv

\* Runtimes compiled before an error are compiled again.
LEMMA SyncFailsStep == ASSUME WorldInv, SyncFails PROVE WorldInv'
<1>1. PICK compiled \in SUBSET invalidation.topologyDirty : runtimes' = Compiled(compiled)
  BY DEF SyncFails
<1>2. /\ tick = Idle
      /\ UNCHANGED islandOf /\ UNCHANGED islandSlots /\ UNCHANGED parameter /\ UNCHANGED store
      /\ UNCHANGED invalidation /\ UNCHANGED subscriptions /\ UNCHANGED nextId
      /\ UNCHANGED received /\ UNCHANGED tick
  BY DEF SyncFails
<1>3. /\ Islands' = Islands
      /\ \A i : Current(i)' = Current(i) /\ Sleepable(i)' = Sleepable(i)
  BY <1>2 DEF Islands, Current, Parts, Sleepable, States, Members
<1>4. ASSUME NEW i \in Islands \ invalidation.topologyDirty
      PROVE  i \in DOMAIN runtimes /\ i \in DOMAIN runtimes' /\ runtimes'[i] = runtimes[i]
  BY <1>1 DEF Compiled, WorldInv, RuntimesInv, WorldShape
<1>5. RuntimesInv'
  BY <1>2, <1>3, <1>4 DEF WorldInv, RuntimesInv
<1>6. SubscriptionsInv'
  <2>1. \A s \in DOMAIN subscriptions : islandOf[subscriptions[s].component] \in Islands
    BY DEF WorldInv, WorldShape, Islands
  <2> QED BY <1>2, <1>4, <2>1 DEF WorldInv, SubscriptionsInv
<1>7. TypeOK' /\ InitializedRowsAreWhole'
  BY <1>2, <1>3 DEF WorldInv, TypeOK, InitializedRowsAreWhole
<1>8. WorldShape'
  BY <1>2, <1>3 DEF WorldInv, WorldShape
<1> QED BY <1>2, <1>5, <1>6, <1>7, <1>8, BetweenTicks DEF WorldInv

\* The passes follow one another.
Follows ==
    {<<"prepare", "solve">>, <<"solve", "validate">>, <<"validate", "scatter">>,
     <<"scatter", "finalize">>, <<"finalize", "collect">>}

\* A pass ends when every island is through, so that the next one may rely on it.
LEMMA EndPassStep ==
    ASSUME WorldInv, NEW p, NEW q, <<p, q>> \in Follows, EndPass(p, q)
    PROVE  WorldInv'
<1>1. /\ tick = [pass |-> p, todo |-> {}] /\ tick' = [pass |-> q, todo |-> Islands]
      /\ UNCHANGED islandOf /\ UNCHANGED islandSlots /\ UNCHANGED parameter /\ UNCHANGED store
      /\ UNCHANGED invalidation /\ UNCHANGED runtimes /\ UNCHANGED subscriptions
      /\ UNCHANGED nextId /\ UNCHANGED received
  BY DEF EndPass
<1>2. /\ Islands' = Islands
      /\ \A i : /\ Current(i)' = Current(i) /\ Sleepable(i)' = Sleepable(i)
                /\ States(i)' = States(i)
  BY <1>1 DEF Islands, Current, Parts, Sleepable, States, Members
<1>3. \A c : ReadLogical(c)' = ReadLogical(c) /\ Committed(c)' = Committed(c)
  BY <1>1 DEF ReadLogical, Committed
<1>4. ASSUME NEW i \in Islands, NEW pass \in {"prepare", "solve", "validate", "scatter", "finalize"}
      PROVE  Done(pass, i)' <=> Done(pass, i)
  <2>1. i \notin tick.todo /\ i \in tick'.todo /\ tick.pass = p /\ tick'.pass = q
    BY <1>1
  <2>2. q \in Later[pass] <=> p = pass \/ p \in Later[pass]
    BY DEF Follows, Later
  <2> QED BY <2>1, <2>2 DEF Done
<1>5. TickInv'
  <2> SUFFICES ASSUME NEW i \in Islands' PROVE IslandInv(i)'
    BY DEF TickInv
  <2>1. /\ Prepared(i)' <=> Prepared(i)
        /\ Unwritten(i)' <=> Unwritten(i)
        /\ Decided(i)' <=> Decided(i)
        /\ Validated(i)' <=> Validated(i)
        /\ Scattered(i)' <=> Scattered(i)
        /\ Finalized(i)' <=> Finalized(i)
    BY <1>1, <1>2, <1>3 DEF Prepared, Unwritten, Decided, Validated, Scattered, Finalized
  <2>2. /\ Done("prepare", i)' <=> Done("prepare", i)
        /\ Done("solve", i)' <=> Done("solve", i)
        /\ Done("validate", i)' <=> Done("validate", i)
        /\ Done("scatter", i)' <=> Done("scatter", i)
        /\ Done("finalize", i)' <=> Done("finalize", i)
    BY <1>2, <1>4
  <2>3. IslandInv(i)
    BY <1>2 DEF WorldInv, TickInv
  <2> QED BY <2>1, <2>2, <2>3 DEF IslandInv
<1>6. TypeOK' /\ InitializedRowsAreWhole'
  BY <1>1, <1>2 DEF WorldInv, TypeOK, InitializedRowsAreWhole
<1>7. WorldShape'
  <2>1. p # "idle" /\ q # "idle" /\ q \in Passes
    BY DEF Follows, Passes
  <2> QED BY <1>1, <1>2, <2>1 DEF WorldInv, WorldShape
<1>8. RuntimesInv' /\ SubscriptionsInv'
  BY <1>1, <1>2 DEF WorldInv, RuntimesInv, SubscriptionsInv
<1> QED BY <1>5, <1>6, <1>7, <1>8 DEF WorldInv

-----------------------------------------------------------------------------
(* The passes.                                                             *)

PassNames == {"prepare", "solve", "validate", "scatter", "finalize"}

\* A visit is that of one island, and leaves the others where they are.
LEMMA Visiting ==
    ASSUME WorldInv, NEW i \in Islands, NEW pass \in PassNames, Visit(pass, i), UNCHANGED islandOf
    PROVE  /\ i \in tick.todo /\ tick.pass = pass /\ tick'.pass = pass
           /\ tick'.todo = tick.todo \ {i}
           /\ tick' \in [pass : Passes, todo : SUBSET Islands]
           /\ Islands' = Islands /\ invalidation = EmptyInvalidation
           /\ \A j \in Islands, p \in PassNames : j # i => (Done(p, j)' <=> Done(p, j))
           /\ \A p \in PassNames : Done(p, i)' <=> pass \in Later[p] \cup {p}
           /\ \A j \in Islands, p \in PassNames : pass \in Later[p] => Done(p, j)
<1>1. /\ i \in tick.todo /\ tick.pass = pass /\ tick' = [tick EXCEPT !.todo = @ \ {i}]
      /\ tick \in [pass : Passes, todo : SUBSET Islands]
  BY DEF Visit, WorldInv, WorldShape
<1>2. /\ tick'.pass = pass /\ tick'.todo = tick.todo \ {i}
      /\ tick' \in [pass : Passes, todo : SUBSET Islands]
  BY <1>1
<1>3. Islands' = Islands
  BY DEF Islands
<1>4. invalidation = EmptyInvalidation
  BY <1>1 DEF WorldInv, WorldShape, PassNames
<1>5. \A j \in Islands, p \in PassNames : j # i => (Done(p, j)' <=> Done(p, j))
  BY <1>1, <1>2 DEF Done
<1>6. \A p \in PassNames : Done(p, i)' <=> pass \in Later[p] \cup {p}
  BY <1>1, <1>2 DEF Done
<1>7. \A j \in Islands, p \in PassNames : pass \in Later[p] => Done(p, j)
  BY <1>1 DEF Done
<1> QED BY <1>1, <1>2, <1>3, <1>4, <1>5, <1>6, <1>7

\* What a component of the world has in the store.
LEMMA ComponentRow ==
    ASSUME WorldInv, NEW c \in DOMAIN islandOf
    PROVE  /\ c = <<c[1], c[2]>> /\ c[1] \in DOMAIN store /\ c[2] \in Partitions[c[1]]
           /\ store[c[1]] \in
                [values : [Partitions[c[1]] -> Values \cup {Zero}], initialized : BOOLEAN]
           /\ c \in Stateful => ReadLogical(c) \in Values
           /\ islandOf[c] \in Islands /\ c[1] \in Parts(islandOf[c])
<1>1. /\ c = <<c[1], c[2]>> /\ c[1] \in DOMAIN store /\ c[2] \in Partitions[c[1]]
  BY DEF WorldInv, TypeOK, Components
<1>2. store[c[1]] \in [values : [Partitions[c[1]] -> Values \cup {Zero}], initialized : BOOLEAN]
  BY <1>1 DEF WorldInv, TypeOK
<1>3. c \in Stateful => ReadLogical(c) \in Values
  <2>1. "initial" \in Values
    BY DEF Values
  <2>2. store[c[1]].initialized /\ c \in Stateful => store[c[1]].values[c[2]] # Zero
    BY <1>1 DEF WorldInv, InitializedRowsAreWhole
  <2>3. store[c[1]].values[c[2]] \in Values \cup {Zero}
    BY <1>1, <1>2
  <2> QED BY <2>1, <2>2, <2>3 DEF ReadLogical
<1>4. islandOf[c] \in Islands /\ c[1] \in Parts(islandOf[c])
  BY DEF Islands, Parts, Members
<1> QED BY <1>1, <1>2, <1>3, <1>4

\* A visit that changes the runtime of its island only.
LEMMA RuntimeVisit ==
    ASSUME WorldInv, NEW i \in Islands, NEW pass \in PassNames, Visit(pass, i),
           NEW r, \/ runtimes' = [runtimes EXCEPT ![i] = r]
                  \/ runtimes' = runtimes /\ r = runtimes[i],
           UNCHANGED <<islandOf, islandSlots, parameter, store, invalidation, subscriptions,
                       nextId, received>>,
           IsRuntime(r), RuntimeIsCurrent(r, Current(i), Sleepable(i), FALSE),
           IslandInv(i)',
           \/ r.observerOutputsDirty
           \/ r.solution = << >>
           \/ /\ r.solution = runtimes[i].solution
              /\ r.observerOutputsDirty = runtimes[i].observerOutputsDirty
    PROVE  WorldInv'
<1>1. /\ i \in tick.todo /\ tick.pass = pass /\ tick'.pass = pass
      /\ tick' \in [pass : Passes, todo : SUBSET Islands]
      /\ tick'.todo = tick.todo \ {i}
      /\ Islands' = Islands /\ invalidation = EmptyInvalidation
      /\ \A j \in Islands, p \in PassNames : j # i => (Done(p, j)' <=> Done(p, j))
  BY Visiting
<1>2. /\ UNCHANGED islandOf /\ UNCHANGED islandSlots /\ UNCHANGED parameter /\ UNCHANGED store
      /\ UNCHANGED invalidation /\ UNCHANGED subscriptions /\ UNCHANGED nextId /\ UNCHANGED received
  OBVIOUS
<1>3. \A j : /\ Current(j)' = Current(j) /\ Sleepable(j)' = Sleepable(j)
             /\ States(j)' = States(j)
  BY <1>2 DEF Current, Parts, Sleepable, States, Members
<1>4. \A j \in Islands : j \in DOMAIN runtimes /\ j \in DOMAIN runtimes'
  BY <1>1 DEF WorldInv, RuntimesInv, EmptyInvalidation
<1>5. runtimes'[i] = r /\ \A j \in Islands : j # i => runtimes'[j] = runtimes[j]
  BY <1>4
<1>6. RuntimesInv'
  <2> SUFFICES ASSUME NEW j \in Islands
               PROVE  /\ j \in DOMAIN runtimes' /\ IsRuntime(runtimes'[j])
                      /\ RuntimeIsCurrent(runtimes'[j], Current(j), Sleepable(j), FALSE)
    BY <1>1, <1>2, <1>3 DEF RuntimesInv, EmptyInvalidation, RuntimeIsCurrent
  <2>1. /\ IsRuntime(runtimes[j])
        /\ RuntimeIsCurrent(runtimes[j], Current(j), Sleepable(j), FALSE)
    BY <1>1 DEF WorldInv, RuntimesInv, EmptyInvalidation, RuntimeIsCurrent
  <2> QED BY <1>4, <1>5, <2>1
<1>7. TickInv'
  <2> SUFFICES ASSUME NEW j \in Islands, j # i PROVE IslandInv(j)'
    BY <1>1 DEF TickInv
  <2>1. /\ Done("prepare", j)' <=> Done("prepare", j)
        /\ Done("solve", j)' <=> Done("solve", j)
        /\ Done("validate", j)' <=> Done("validate", j)
        /\ Done("scatter", j)' <=> Done("scatter", j)
        /\ Done("finalize", j)' <=> Done("finalize", j)
    BY <1>1 DEF PassNames
  <2>2. \A c \in States(j) : islandOf[c] = j
    BY DEF States, Members
  <2>3. \A c \in States(j) : ReadLogical(c)' = ReadLogical(c) /\ Committed(c)' = Committed(c)
    BY <1>2, <1>5, <2>2 DEF ReadLogical, Committed
  <2>4. /\ Prepared(j)' <=> Prepared(j)
        /\ Unwritten(j)' <=> Unwritten(j)
        /\ Decided(j)' <=> Decided(j)
        /\ Validated(j)' <=> Validated(j)
        /\ Scattered(j)' <=> Scattered(j)
        /\ Finalized(j)' <=> Finalized(j)
    BY <1>2, <1>3, <1>5, <2>3 DEF Prepared, Unwritten, Decided, Validated, Scattered, Finalized
  <2>5. IslandInv(j)
    BY DEF WorldInv, TickInv
  <2> QED BY <2>1, <2>4, <2>5 DEF IslandInv
<1>8. SubscriptionsInv'
  <2> SUFFICES ASSUME NEW s \in DOMAIN subscriptions,
                      NEW j, j = islandOf[subscriptions[s].component]
               PROVE  LET published == subscriptions[s].published IN
                      /\ published = received[s]
                      /\ /\ runtimes'[j].solution # << >> /\ ~runtimes'[j].observerOutputsDirty
                         /\ published # << >> /\ published[1] = "available"
                         => published = <<"available", runtimes'[j].solution[1]>>
    BY <1>2 DEF SubscriptionsInv
  <2>1. j \in Islands
    BY DEF WorldInv, WorldShape, Islands
  <2>2. LET published == subscriptions[s].published IN
        /\ published = received[s]
        /\ /\ runtimes[j].solution # << >> /\ ~runtimes[j].observerOutputsDirty
           /\ published # << >> /\ published[1] = "available"
           => published = <<"available", runtimes[j].solution[1]>>
    BY <1>1 DEF WorldInv, SubscriptionsInv, EmptyInvalidation
  <2> QED BY <1>5, <2>1, <2>2
<1>9. TypeOK' /\ InitializedRowsAreWhole'
  BY <1>1, <1>2 DEF WorldInv, TypeOK, InitializedRowsAreWhole
<1>10. WorldShape'
  BY <1>1, <1>2 DEF WorldInv, WorldShape
<1> QED BY <1>6, <1>7, <1>8, <1>9, <1>10 DEF WorldInv

\* What is known of an island when a pass comes to it.
LEMMA Visited ==
    ASSUME WorldInv, NEW i \in Islands, tick.pass # "idle"
    PROVE  /\ i \in DOMAIN runtimes /\ IsRuntime(runtimes[i])
           /\ RuntimeIsCurrent(runtimes[i], Current(i), Sleepable(i), FALSE)
           /\ IslandInv(i)
           /\ \A c \in States(i) : c \in DOMAIN islandOf /\ c \in Stateful /\ islandOf[c] = i
<1>1. invalidation = EmptyInvalidation
  BY DEF WorldInv, WorldShape
<1>2. /\ i \in DOMAIN runtimes /\ IsRuntime(runtimes[i])
      /\ RuntimeIsCurrent(runtimes[i], Current(i), Sleepable(i), FALSE)
  BY <1>1 DEF WorldInv, RuntimesInv, EmptyInvalidation, RuntimeIsCurrent
<1> QED BY <1>2 DEF WorldInv, TickInv, States, Members

\* A runtime is as current with other inputs, and with another status.
WithInputs(r, status, inputs) == [r EXCEPT !.status = status, !.inputs = inputs]

\* That changes nothing that the next ticks rely on.
LEMMA InputsKeepCurrent ==
    ASSUME NEW i, NEW r, IsRuntime(r), RuntimeIsCurrent(r, Current(i), Sleepable(i), FALSE),
           NEW status, NEW inputs
    PROVE  LET q == WithInputs(r, status, inputs) IN
           IsRuntime(q) /\ RuntimeIsCurrent(q, Current(i), Sleepable(i), FALSE)
<1> PICK q : q = WithInputs(r, status, inputs)
  OBVIOUS
<1>1. q = [ status |-> status, inputs |-> inputs, outputs |-> r.outputs,
            parameters |-> r.parameters, staticInputsDirty |-> r.staticInputsDirty,
            staticInitialized |-> r.staticInitialized, matrix |-> r.matrix,
            matrixDirty |-> r.matrixDirty, solution |-> r.solution,
            observerOutputsDirty |-> r.observerOutputsDirty, needsSolve |-> r.needsSolve ]
  BY DEF IsRuntime, WithInputs
<1>2. IsRuntime(q) /\ RuntimeIsCurrent(q, Current(i), Sleepable(i), FALSE)
  BY <1>1 DEF IsRuntime, RuntimeIsCurrent
<1> QED BY <1>2

\* An island reads its states while no row is written.
LEMMA PrepareIslandStep ==
    ASSUME WorldInv, NEW i \in Islands, PrepareIsland(i) PROVE WorldInv'
<1> DEFINE read == [c \in States(i) |-> ReadLogical(c)]
           r == WithInputs(runtimes[i], "pending", read)
<1>1. /\ Visit("prepare", i) /\ runtimes' = [runtimes EXCEPT ![i] = r]
      /\ UNCHANGED <<islandOf, islandSlots, parameter, store, invalidation, subscriptions,
                     nextId, received>>
  BY DEF PrepareIsland, WithInputs
<1> HIDE DEF read
<1>2. "prepare" \in PassNames /\ UNCHANGED islandOf /\ UNCHANGED store
  BY <1>1 DEF PassNames
<1>3. /\ tick.pass = "prepare" /\ \A p \in PassNames : Done(p, i)' <=> "prepare" \in Later[p] \cup {p}
  BY <1>1, <1>2, Visiting
<1>4. /\ i \in DOMAIN runtimes /\ IsRuntime(runtimes[i])
      /\ RuntimeIsCurrent(runtimes[i], Current(i), Sleepable(i), FALSE)
      /\ \A c \in States(i) : c \in DOMAIN islandOf /\ c \in Stateful
  BY <1>3, Visited
<1>5. /\ IsRuntime(r) /\ RuntimeIsCurrent(r, Current(i), Sleepable(i), FALSE)
      /\ r.solution = runtimes[i].solution
      /\ r.observerOutputsDirty = runtimes[i].observerOutputsDirty
      /\ r.inputs = read
  <2>1. /\ IsRuntime(runtimes[i])
        /\ RuntimeIsCurrent(runtimes[i], Current(i), Sleepable(i), FALSE)
    BY <1>4
  <2>2. IsRuntime(r) /\ RuntimeIsCurrent(r, Current(i), Sleepable(i), FALSE)
    BY <2>1, InputsKeepCurrent
  <2>3. r.solution = runtimes[i].solution
    BY <2>1 DEF WithInputs, IsRuntime
  <2>4. r.inputs = read
    BY <2>1 DEF WithInputs, IsRuntime
  <2>5. r.observerOutputsDirty = runtimes[i].observerOutputsDirty
    BY <2>1 DEF WithInputs, IsRuntime
  <2> QED BY <2>2, <2>3, <2>4, <2>5
<1> HIDE DEF r
<1>6. runtimes'[i].inputs = [c \in States(i) |-> ReadLogical(c)]
  BY <1>1, <1>4, <1>5 DEF read
<1>7. States(i)' = States(i) /\ \A c : ReadLogical(c)' = ReadLogical(c)
  BY <1>2 DEF States, Members, ReadLogical
<1>8. Prepared(i)' /\ Unwritten(i)'
  BY <1>4, <1>6, <1>7, ComponentRow DEF Prepared, Unwritten
<1>9. /\ ~Done("solve", i)' /\ ~Done("validate", i)' /\ ~Done("scatter", i)'
      /\ ~Done("finalize", i)'
  BY <1>3 DEF PassNames, Later
<1>10. IslandInv(i)'
  BY <1>8, <1>9 DEF IslandInv
<1> QED BY <1>1, <1>2, <1>5, <1>10, RuntimeVisit

\* Loading every parameter makes a runtime current, whatever it held before.
LEMMA StaticIsCurrent ==
    ASSUME NEW i, IsRuntime(runtimes[i]),
           RuntimeIsCurrent(runtimes[i], Current(i), Sleepable(i), FALSE),
           ~StaticIsMissing(i), ~Sleeps(i)
    PROVE  /\ IsRuntime(Static(i)) /\ RuntimeIsCurrent(Static(i), Current(i), Sleepable(i), FALSE)
           /\ Static(i).solution = << >> /\ Static(i).staticInitialized
           /\ Static(i).parameters = Current(i) /\ ~Static(i).staticInputsDirty
           /\ Sleepable(i) => Static(i).needsSolve
           /\ Static(i).inputs = runtimes[i].inputs
<1> DEFINE old == [runtimes[i] EXCEPT !.solution = << >>]
           loaded == IF old.staticInputsDirty THEN Current(i) ELSE old.parameters
<1>1. Static(i) = [old EXCEPT !.parameters = loaded,
                              !.staticInputsDirty = FALSE,
                              !.staticInitialized = TRUE,
                              !.matrixDirty = @ \/ ~old.staticInitialized \/ loaded # old.parameters]
  BY DEF Static, Current
<1>2. /\ IsRuntime(old) /\ old.solution = << >> /\ old.inputs = runtimes[i].inputs
      /\ old.parameters = runtimes[i].parameters /\ old.matrix = runtimes[i].matrix
      /\ old.staticInputsDirty = runtimes[i].staticInputsDirty
      /\ old.staticInitialized = runtimes[i].staticInitialized
      /\ old.matrixDirty = runtimes[i].matrixDirty
      /\ old.needsSolve = runtimes[i].needsSolve
  BY DEF IsRuntime
<1>3. loaded = Current(i)
  BY <1>2 DEF RuntimeIsCurrent
<1>4. \A d \in DOMAIN Current(i) : Current(i)[d] # Unassigned
  BY DEF RuntimeIsCurrent, StaticIsMissing, Missing, Current, IsRuntime
<1> HIDE DEF old, loaded
<1>5. /\ IsRuntime(Static(i)) /\ Static(i).solution = << >> /\ Static(i).staticInitialized
      /\ Static(i).parameters = Current(i) /\ ~Static(i).staticInputsDirty
      /\ Static(i).inputs = runtimes[i].inputs /\ Static(i).matrix = old.matrix
      /\ Static(i).needsSolve = runtimes[i].needsSolve
      /\ Static(i).matrixDirty =
            (old.matrixDirty \/ ~old.staticInitialized \/ loaded # old.parameters)
  <2>1. Static(i) = [ status |-> old.status, inputs |-> old.inputs, outputs |-> old.outputs,
            parameters |-> loaded, staticInputsDirty |-> FALSE, staticInitialized |-> TRUE,
            matrix |-> old.matrix,
            matrixDirty |-> (old.matrixDirty \/ ~old.staticInitialized \/ loaded # old.parameters),
            solution |-> old.solution, observerOutputsDirty |-> old.observerOutputsDirty,
            needsSolve |-> old.needsSolve ]
    BY <1>1, <1>2 DEF IsRuntime
  <2>2. {old.observerOutputsDirty, old.needsSolve, old.matrixDirty} \subseteq BOOLEAN
    BY <1>2 DEF IsRuntime
  <2> QED BY <1>2, <1>3, <2>1, <2>2 DEF IsRuntime
<1>6. Sleepable(i) => Static(i).needsSolve
  BY <1>5 DEF Sleeps
<1>7. ~Static(i).matrixDirty => Static(i).matrix = Static(i).parameters
  BY <1>2, <1>3, <1>5 DEF RuntimeIsCurrent
<1>8. RuntimeIsCurrent(Static(i), Current(i), Sleepable(i), FALSE)
  BY <1>4, <1>5, <1>6, <1>7 DEF RuntimeIsCurrent, Current
<1> QED BY <1>5, <1>6, <1>8

\* The matrix of a runtime that is current becomes that of its parameters.
LEMMA FactorisedIsCurrent ==
    ASSUME NEW i, NEW r, IsRuntime(r),
           RuntimeIsCurrent(r, Current(i), Sleepable(i), FALSE), r.staticInitialized
    PROVE  /\ IsRuntime(Factorised(r))
           /\ RuntimeIsCurrent(Factorised(r), Current(i), Sleepable(i), FALSE)
           /\ Factorised(r).matrix = r.parameters
           /\ Factorised(r).solution = r.solution /\ Factorised(r).inputs = r.inputs
           /\ Factorised(r).needsSolve = r.needsSolve
           /\ Factorised(r).parameters = r.parameters
           /\ Factorised(r).staticInputsDirty = r.staticInputsDirty
           /\ Factorised(r).staticInitialized
<1>1. CASE r.matrixDirty
  <2>1. Factorised(r) = [r EXCEPT !.matrix = r.parameters, !.matrixDirty = FALSE]
    BY <1>1 DEF Factorised
  <2> QED BY <2>1 DEF IsRuntime, RuntimeIsCurrent
<1>2. CASE ~r.matrixDirty
  BY <1>2 DEF Factorised, RuntimeIsCurrent
<1> QED BY <1>1, <1>2

\* A runtime that could not be solved has no solution, and is no less current.
LEMMA UnsolvedIsCurrent ==
    ASSUME NEW i, IsRuntime(runtimes[i]),
           RuntimeIsCurrent(runtimes[i], Current(i), Sleepable(i), FALSE),
           ~Sleeps(i), NEW r \in Unsolved(i)
    PROVE  /\ IsRuntime(r) /\ RuntimeIsCurrent(r, Current(i), Sleepable(i), FALSE)
           /\ r.solution = << >> /\ r.inputs = runtimes[i].inputs
           /\ Sleepable(i) => r.needsSolve
<1>1. CASE StaticIsMissing(i)
  <2>1. PICK loaded \in SUBSET (Parts(i) \ Missing(i)) :
            r = [runtimes[i] EXCEPT !.solution = << >>,
                    !.parameters = [d \in Parts(i) |-> IF d \in loaded THEN parameter[d] ELSE @[d]]]
    BY <1>1 DEF Unsolved, StaticFails
  <2>2. ~runtimes[i].staticInitialized /\ runtimes[i].matrixDirty
    BY <1>1 DEF StaticIsMissing, Missing, RuntimeIsCurrent, Current, IsRuntime
  <2> QED BY <1>1, <2>1, <2>2 DEF IsRuntime, RuntimeIsCurrent, Current, StaticIsMissing, Sleeps
<1>2. CASE ~StaticIsMissing(i)
  <2>1. r \in {Static(i), Factorised(Static(i))}
    BY <1>2 DEF Unsolved
  <2>2. /\ IsRuntime(Static(i)) /\ RuntimeIsCurrent(Static(i), Current(i), Sleepable(i), FALSE)
        /\ Static(i).solution = << >> /\ Static(i).staticInitialized
        /\ Sleepable(i) => Static(i).needsSolve
        /\ Static(i).inputs = runtimes[i].inputs
    BY <1>2, StaticIsCurrent
  <2>3. CASE r = Static(i)
    BY <2>2, <2>3
  <2>4. CASE r = Factorised(Static(i))
    BY <2>2, <2>4, FactorisedIsCurrent
  <2> QED BY <2>1, <2>3, <2>4
<1> QED BY <1>1, <1>2

\* What solving an island has to leave in its runtime.
IsDecided(i, r) ==
    /\ r.status \in {"available", "unavailable"}
    /\ r.status = "available" =>
        /\ r.staticInitialized
        /\ r.solution = <<[parameters |-> Current(i), inputs |-> r.inputs]>>
        /\ \A c \in States(i) : r.outputs[c] \in {"nonFinite", Advanced(r.inputs[c])}

\* A visit that decides an island leaves those that it passed decided.
LEMMA DecidingVisit ==
    ASSUME WorldInv, NEW i \in Islands, Visit("solve", i),
           NEW r, runtimes' = [runtimes EXCEPT ![i] = r],
           UNCHANGED <<islandOf, islandSlots, parameter, store, invalidation, subscriptions,
                       nextId, received>>,
           IsRuntime(r), RuntimeIsCurrent(r, Current(i), Sleepable(i), FALSE),
           r.inputs = runtimes[i].inputs, IsDecided(i, r),
           \/ r.observerOutputsDirty
           \/ /\ r.solution = runtimes[i].solution
              /\ r.observerOutputsDirty = runtimes[i].observerOutputsDirty
    PROVE  WorldInv'
<1>1. "solve" \in PassNames /\ UNCHANGED islandOf /\ UNCHANGED store /\ UNCHANGED parameter
  BY DEF PassNames
<1>2. /\ tick.pass = "solve" /\ \A p \in PassNames : Done(p, i)' <=> "solve" \in Later[p] \cup {p}
      /\ \A p \in PassNames : "solve" \in Later[p] => Done(p, i)
  BY <1>1, Visiting
<1>3. /\ ~Done("validate", i)' /\ ~Done("scatter", i)' /\ ~Done("finalize", i)'
      /\ Done("prepare", i)
  BY <1>2 DEF PassNames, Later
<1>4. ~Done("scatter", i)
  BY <1>2 DEF Done, Later
<1>5. i \in DOMAIN runtimes /\ IslandInv(i)
  BY <1>2, Visited
<1>6. runtimes'[i] = r
  BY <1>5
<1>7. /\ States(i)' = States(i) /\ Current(i)' = Current(i)
      /\ \A c : ReadLogical(c)' = ReadLogical(c)
  BY <1>1 DEF States, Members, ReadLogical, Current, Parts
<1>8. Prepared(i) /\ Unwritten(i)
  BY <1>3, <1>4, <1>5 DEF IslandInv
<1>9. Prepared(i)' /\ Unwritten(i)'
  BY <1>6, <1>7, <1>8 DEF Prepared, Unwritten
<1>10. Decided(i)'
  BY <1>6, <1>7 DEF Decided, IsDecided
<1>11. IslandInv(i)'
  BY <1>3, <1>9, <1>10 DEF IslandInv
<1> QED BY <1>1, <1>11, RuntimeVisit

\* A failed solution is shown to the subscribers.
LEMMA UnavailableIsDecided ==
    ASSUME NEW i, NEW u, IsRuntime(u), RuntimeIsCurrent(u, Current(i), Sleepable(i), FALSE),
           NEW r, r = MarkUnavailable(u)
    PROVE  /\ IsRuntime(r) /\ RuntimeIsCurrent(r, Current(i), Sleepable(i), FALSE)
           /\ IsDecided(i, r) /\ r.inputs = u.inputs /\ r.observerOutputsDirty
           /\ r.status = "unavailable" /\ r.solution = u.solution
<1>1. r = [ status |-> "unavailable", inputs |-> u.inputs, outputs |-> u.outputs,
            parameters |-> u.parameters, staticInputsDirty |-> u.staticInputsDirty,
            staticInitialized |-> u.staticInitialized, matrix |-> u.matrix,
            matrixDirty |-> u.matrixDirty, solution |-> u.solution,
            observerOutputsDirty |-> TRUE, needsSolve |-> u.needsSolve ]
  BY DEF IsRuntime, MarkUnavailable
<1>2. /\ IsRuntime(r) /\ RuntimeIsCurrent(r, Current(i), Sleepable(i), FALSE)
  BY <1>1 DEF IsRuntime, RuntimeIsCurrent
<1>3. /\ r.status = "unavailable" /\ r.inputs = u.inputs /\ r.observerOutputsDirty
      /\ r.solution = u.solution
  BY <1>1
<1>4. IsDecided(i, r)
  BY <1>3 DEF IsDecided
<1> QED BY <1>2, <1>3, <1>4

\* A solution is that of the parameters the world has and the states read.
LEMMA SolvedIsDecided ==
    ASSUME NEW i, IsRuntime(runtimes[i]),
           RuntimeIsCurrent(runtimes[i], Current(i), Sleepable(i), FALSE),
           ~StaticIsMissing(i), ~Sleeps(i), Prepared(i),
           NEW outputs \in Outcomes(i), NEW r, r = Solved(i, outputs)
    PROVE  /\ IsRuntime(r) /\ RuntimeIsCurrent(r, Current(i), Sleepable(i), FALSE)
           /\ IsDecided(i, r) /\ r.inputs = runtimes[i].inputs /\ r.observerOutputsDirty
<1> PICK u : u = Factorised(Static(i))
  OBVIOUS
<1>1. /\ IsRuntime(Static(i)) /\ RuntimeIsCurrent(Static(i), Current(i), Sleepable(i), FALSE)
      /\ Static(i).staticInitialized
      /\ Static(i).parameters = Current(i) /\ ~Static(i).staticInputsDirty
      /\ Static(i).inputs = runtimes[i].inputs
  BY StaticIsCurrent
<1>2. /\ IsRuntime(u) /\ RuntimeIsCurrent(u, Current(i), Sleepable(i), FALSE)
      /\ u.matrix = Current(i) /\ u.inputs = runtimes[i].inputs /\ u.staticInitialized
      /\ u.parameters = Current(i) /\ ~u.staticInputsDirty
  <2> PICK v : v = Static(i)
    OBVIOUS
  <2>1. /\ IsRuntime(v) /\ RuntimeIsCurrent(v, Current(i), Sleepable(i), FALSE)
        /\ v.staticInitialized /\ u = Factorised(v)
    BY <1>1, Zenon
  <2>2. /\ IsRuntime(u) /\ RuntimeIsCurrent(u, Current(i), Sleepable(i), FALSE)
        /\ u.matrix = v.parameters /\ u.inputs = v.inputs /\ u.staticInitialized
        /\ u.parameters = v.parameters /\ u.staticInputsDirty = v.staticInputsDirty
    BY <2>1, FactorisedIsCurrent
  <2> QED BY <1>1, <2>2, Zenon
<1>3. r = [ status |-> "available", inputs |-> u.inputs, outputs |-> outputs,
            parameters |-> u.parameters, staticInputsDirty |-> u.staticInputsDirty,
            staticInitialized |-> u.staticInitialized, matrix |-> u.matrix,
            matrixDirty |-> u.matrixDirty,
            solution |-> <<[parameters |-> u.matrix, inputs |-> u.inputs]>>,
            observerOutputsDirty |-> TRUE, needsSolve |-> u.needsSolve /\ ~Sleepable(i) ]
  BY <1>2 DEF Solved, IsRuntime
<1>4. Sleepable(i) => u.inputs = << >>
  BY <1>2 DEF Prepared, Sleepable
<1>5. \A c \in States(i) : outputs[c] \in {"nonFinite", Advanced(u.inputs[c])}
  BY <1>2 DEF Outcomes
<1>6. /\ IsRuntime(r) /\ r.inputs = runtimes[i].inputs /\ r.observerOutputsDirty
      /\ r.parameters = u.parameters /\ r.staticInputsDirty = u.staticInputsDirty
      /\ r.staticInitialized /\ r.matrix = u.matrix /\ r.matrixDirty = u.matrixDirty
      /\ r.solution = <<[parameters |-> Current(i), inputs |-> u.inputs]>>
      /\ r.status = "available" /\ r.outputs = outputs
  BY <1>2, <1>3 DEF IsRuntime
<1>7. RuntimeIsCurrent(r, Current(i), Sleepable(i), FALSE)
  BY <1>2, <1>4, <1>6 DEF RuntimeIsCurrent, Current
<1>8. IsDecided(i, r)
  BY <1>2, <1>5, <1>6 DEF IsDecided
<1> QED BY <1>6, <1>7, <1>8

\* An island that sleeps has the solution it would get.
LEMMA SleeperIsDecided ==
    ASSUME NEW i, IsRuntime(runtimes[i]),
           RuntimeIsCurrent(runtimes[i], Current(i), Sleepable(i), FALSE),
           Sleeps(i), Prepared(i), NEW r, r = [runtimes[i] EXCEPT !.status = "available"]
    PROVE  /\ IsRuntime(r) /\ RuntimeIsCurrent(r, Current(i), Sleepable(i), FALSE)
           /\ IsDecided(i, r) /\ r.inputs = runtimes[i].inputs
           /\ r.solution = runtimes[i].solution
           /\ r.observerOutputsDirty = runtimes[i].observerOutputsDirty
<1> PICK u : u = runtimes[i]
  OBVIOUS
<1>1. /\ IsRuntime(u) /\ RuntimeIsCurrent(u, Current(i), Sleepable(i), FALSE)
      /\ Sleepable(i) /\ ~u.needsSolve
  BY DEF Sleeps
<1>2. r = [ status |-> "available", inputs |-> u.inputs, outputs |-> u.outputs,
            parameters |-> u.parameters, staticInputsDirty |-> u.staticInputsDirty,
            staticInitialized |-> u.staticInitialized, matrix |-> u.matrix,
            matrixDirty |-> u.matrixDirty, solution |-> u.solution,
            observerOutputsDirty |-> u.observerOutputsDirty, needsSolve |-> u.needsSolve ]
  BY <1>1 DEF IsRuntime
<1>3. IsRuntime(r) /\ RuntimeIsCurrent(r, Current(i), Sleepable(i), FALSE)
  BY <1>1, <1>2 DEF IsRuntime, RuntimeIsCurrent
<1>4. u.inputs = << >> /\ States(i) = {}
  BY <1>1 DEF Prepared, Sleepable
<1>5. IsDecided(i, r)
  BY <1>1, <1>2, <1>4 DEF IsDecided, RuntimeIsCurrent
<1> QED BY <1>2, <1>3, <1>5

\* An island is decided once, whether it sleeps, is solved or fails.
LEMMA SolveIslandStep == ASSUME WorldInv, NEW i \in Islands, SolveIsland(i) PROVE WorldInv'
<1>1. /\ Visit("solve", i)
      /\ UNCHANGED <<islandOf, islandSlots, parameter, store, invalidation, subscriptions,
                     nextId, received>>
  BY DEF SolveIsland
<1>2. "solve" \in PassNames /\ UNCHANGED islandOf
  BY <1>1 DEF PassNames
<1>3. tick.pass = "solve" /\ Done("prepare", i)
  BY <1>1, <1>2, Visiting DEF PassNames, Later
<1>4. /\ i \in DOMAIN runtimes /\ IsRuntime(runtimes[i])
      /\ RuntimeIsCurrent(runtimes[i], Current(i), Sleepable(i), FALSE)
      /\ IslandInv(i)
  BY <1>3, Visited
<1>5. Prepared(i)
  BY <1>3, <1>4 DEF IslandInv
<1>6. CASE Sleeps(i) /\ runtimes' = [runtimes EXCEPT ![i].status = "available"]
  <2> PICK r : r = [runtimes[i] EXCEPT !.status = "available"]
    OBVIOUS
  <2>1. runtimes' = [runtimes EXCEPT ![i] = r]
    BY <1>6
  <2>2. /\ IsRuntime(r) /\ RuntimeIsCurrent(r, Current(i), Sleepable(i), FALSE)
        /\ IsDecided(i, r) /\ r.inputs = runtimes[i].inputs
        /\ r.solution = runtimes[i].solution
        /\ r.observerOutputsDirty = runtimes[i].observerOutputsDirty
    BY <1>4, <1>5, <1>6, SleeperIsDecided
  <2> QED BY <1>1, <2>1, <2>2, DecidingVisit
<1>7. CASE /\ ~Sleeps(i) /\ ~StaticIsMissing(i)
           /\ \E outputs \in Outcomes(i) : runtimes' = [runtimes EXCEPT ![i] = Solved(i, outputs)]
  <2> PICK outputs \in Outcomes(i) : runtimes' = [runtimes EXCEPT ![i] = Solved(i, outputs)]
    BY <1>7
  <2> PICK r : r = Solved(i, outputs)
    OBVIOUS
  <2>1. runtimes' = [runtimes EXCEPT ![i] = r]
    OBVIOUS
  <2>2. /\ IsRuntime(r) /\ RuntimeIsCurrent(r, Current(i), Sleepable(i), FALSE)
        /\ IsDecided(i, r) /\ r.inputs = runtimes[i].inputs /\ r.observerOutputsDirty
    BY <1>4, <1>5, <1>7, SolvedIsDecided
  <2> QED BY <1>1, <2>1, <2>2, DecidingVisit
<1>8. CASE ~Sleeps(i) /\ \E u \in Unsolved(i) :
                runtimes' = [runtimes EXCEPT ![i] = MarkUnavailable(u)]
  <2> PICK u \in Unsolved(i) : runtimes' = [runtimes EXCEPT ![i] = MarkUnavailable(u)]
    BY <1>8
  <2> PICK r : r = MarkUnavailable(u)
    OBVIOUS
  <2>1. runtimes' = [runtimes EXCEPT ![i] = r]
    OBVIOUS
  <2>2. /\ IsRuntime(u) /\ RuntimeIsCurrent(u, Current(i), Sleepable(i), FALSE)
        /\ u.inputs = runtimes[i].inputs
    BY <1>4, <1>8, UnsolvedIsCurrent
  <2>3. /\ IsRuntime(r) /\ RuntimeIsCurrent(r, Current(i), Sleepable(i), FALSE)
        /\ IsDecided(i, r) /\ r.observerOutputsDirty
    BY <2>2, UnavailableIsDecided
  <2>4. r.inputs = u.inputs
    BY <2>2 DEF MarkUnavailable, IsRuntime
  <2> QED BY <1>1, <2>1, <2>2, <2>3, <2>4, DecidingVisit
<1> QED BY <1>6, <1>7, <1>8 DEF SolveIsland

\* Validation takes back an island with a state that is not finite.
LEMMA ValidateIslandStep ==
    ASSUME WorldInv, NEW i \in Islands, ValidateIsland(i) PROVE WorldInv'
<1> DEFINE bad == /\ runtimes[i].status = "available"
                  /\ \E c \in States(i) : runtimes[i].outputs[c] = "nonFinite"
<1>1. /\ Visit("validate", i)
      /\ runtimes' = IF bad THEN [runtimes EXCEPT ![i] = MarkUnavailable(runtimes[i])] ELSE runtimes
      /\ UNCHANGED <<islandOf, islandSlots, parameter, store, invalidation, subscriptions,
                     nextId, received>>
  BY DEF ValidateIsland
<1>2. "validate" \in PassNames /\ UNCHANGED islandOf /\ UNCHANGED store /\ UNCHANGED parameter
  BY <1>1 DEF PassNames
<1>3. /\ tick.pass = "validate"
      /\ \A p \in PassNames : Done(p, i)' <=> "validate" \in Later[p] \cup {p}
      /\ \A p \in PassNames : "validate" \in Later[p] => Done(p, i)
  BY <1>1, <1>2, Visiting
<1>4. /\ ~Done("scatter", i)' /\ ~Done("finalize", i)' /\ Done("prepare", i) /\ Done("solve", i)
      /\ ~Done("scatter", i)
  BY <1>3 DEF PassNames, Later, Done
<1>5. /\ i \in DOMAIN runtimes /\ IsRuntime(runtimes[i])
      /\ RuntimeIsCurrent(runtimes[i], Current(i), Sleepable(i), FALSE)
      /\ IslandInv(i)
  BY <1>3, Visited
<1>6. Prepared(i) /\ Unwritten(i) /\ Decided(i)
  BY <1>4, <1>5 DEF IslandInv
<1>7. /\ States(i)' = States(i) /\ Current(i)' = Current(i)
      /\ \A c : ReadLogical(c)' = ReadLogical(c)
  BY <1>2 DEF States, Members, ReadLogical, Current, Parts
<1>8. CASE bad
  <2> PICK r : r = MarkUnavailable(runtimes[i])
    OBVIOUS
  <2>1. runtimes' = [runtimes EXCEPT ![i] = r]
    BY <1>1, <1>8
  <2>2. /\ IsRuntime(r) /\ RuntimeIsCurrent(r, Current(i), Sleepable(i), FALSE)
        /\ r.observerOutputsDirty
    BY <1>5, UnavailableIsDecided
  <2>3. r.inputs = runtimes[i].inputs /\ r.status = "unavailable"
    BY <1>5 DEF MarkUnavailable, IsRuntime
  <2>4. runtimes'[i] = r
    BY <1>5, <2>1
  <2>5. Prepared(i)' /\ Unwritten(i)'
    BY <1>6, <1>7, <2>3, <2>4 DEF Prepared, Unwritten
  <2>6. Decided(i)' /\ Validated(i)'
    BY <2>3, <2>4 DEF Decided, Validated
  <2>7. IslandInv(i)'
    BY <1>4, <2>5, <2>6 DEF IslandInv
  <2> QED BY <1>1, <1>2, <2>1, <2>2, <2>7, RuntimeVisit
<1>9. CASE ~bad
  <2> PICK r : r = runtimes[i]
    OBVIOUS
  <2>1. runtimes' = runtimes
    BY <1>1, <1>9
  <2>2. /\ IsRuntime(r) /\ RuntimeIsCurrent(r, Current(i), Sleepable(i), FALSE)
    BY <1>5
  <2>3. Prepared(i)' /\ Unwritten(i)' /\ Decided(i)'
    BY <1>6, <1>7, <2>1 DEF Prepared, Unwritten, Decided
  <2>4. Validated(i)'
    BY <1>6, <1>7, <1>9, <2>1 DEF Validated, Decided
  <2>5. IslandInv(i)'
    BY <1>4, <2>3, <2>4 DEF IslandInv
  <2> QED BY <1>1, <1>2, <2>1, <2>2, <2>5, RuntimeVisit
<1> QED BY <1>8, <1>9

\* A visit of the commit, which writes rows of the store only.
LEMMA StoreVisit ==
    ASSUME WorldInv, NEW i \in Islands, NEW pass \in {"scatter", "finalize"}, Visit(pass, i),
           UNCHANGED <<islandOf, islandSlots, parameter, invalidation, runtimes, subscriptions,
                       nextId, received>>,
           DOMAIN store' = DOMAIN store,
           \A d \in DOMAIN store :
              store'[d] \in [values : [Partitions[d] -> Values \cup {Zero}], initialized : BOOLEAN],
           InitializedRowsAreWhole',
           \A j \in Islands : IslandInv(j)'
    PROVE  WorldInv'
<1>1. /\ tick.pass = pass /\ tick'.pass = pass
      /\ tick' \in [pass : Passes, todo : SUBSET Islands]
      /\ Islands' = Islands /\ invalidation = EmptyInvalidation
  BY Visiting DEF PassNames
<1>2. /\ UNCHANGED islandOf /\ UNCHANGED islandSlots /\ UNCHANGED parameter
      /\ UNCHANGED invalidation /\ UNCHANGED runtimes /\ UNCHANGED subscriptions
      /\ UNCHANGED nextId /\ UNCHANGED received
  OBVIOUS
<1>3. \A j : Current(j)' = Current(j) /\ Sleepable(j)' = Sleepable(j)
  BY <1>2 DEF Current, Parts, Sleepable, States, Members
<1>4. TypeOK'
  BY <1>1, <1>2 DEF WorldInv, TypeOK
<1>5. WorldShape'
  BY <1>1, <1>2 DEF WorldInv, WorldShape
<1>6. RuntimesInv' /\ SubscriptionsInv'
  BY <1>1, <1>2, <1>3 DEF WorldInv, RuntimesInv, SubscriptionsInv
<1>7. TickInv'
  BY <1>1 DEF TickInv
<1> QED BY <1>4, <1>5, <1>6, <1>7 DEF WorldInv

\* What is committed is a state, never the content of a new row.
LEMMA CommittedIsState ==
    ASSUME NEW i, Prepared(i), NEW c \in States(i)
    PROVE  Committed(c) \in Values /\ Committed(c) # Zero /\ islandOf[c] = i
<1>1. islandOf[c] = i
  BY DEF States, Members
<1>2. runtimes[i].inputs[c] \in Values
  BY DEF Prepared
<1>3. \A v \in Values : Advanced(v) \in Values /\ Failed(c, v) \in Values
  BY DEF Values, Advanced, Failed
<1>4. Committed(c) \in Values
  BY <1>1, <1>2, <1>3 DEF Committed
<1>5. Zero \notin Values
  BY DEF Values, Zero
<1> QED BY <1>1, <1>4, <1>5

\* The states of an island are written, and those of others kept.
LEMMA ScatterIslandStep ==
    ASSUME WorldInv, NEW i \in Islands, ScatterIsland(i) PROVE WorldInv'
<1>1. /\ Visit("scatter", i)
      /\ store' = [d \in DOMAIN store |-> WriteStates(store[d], d, i)]
      /\ UNCHANGED <<islandOf, islandSlots, parameter, invalidation, runtimes, subscriptions,
                     nextId, received>>
  BY DEF ScatterIsland
<1>2. "scatter" \in PassNames /\ UNCHANGED islandOf /\ UNCHANGED runtimes /\ UNCHANGED parameter
  BY <1>1 DEF PassNames
<1>3. /\ tick.pass = "scatter" /\ Islands' = Islands
      /\ i \in tick.todo
      /\ \A j \in Islands, p \in PassNames : j # i => (Done(p, j)' <=> Done(p, j))
      /\ \A p \in PassNames : Done(p, i)' <=> "scatter" \in Later[p] \cup {p}
      /\ \A j \in Islands, p \in PassNames : "scatter" \in Later[p] => Done(p, j)
  BY <1>1, <1>2, Visiting
<1>4. \A j \in Islands : Done("prepare", j) /\ Done("solve", j) /\ Done("validate", j)
  BY <1>3 DEF PassNames, Later
<1>5. ~Done("scatter", i) /\ ~Done("finalize", i)'
  BY <1>3 DEF PassNames, Later, Done
<1>6. \A j \in Islands : IslandInv(j) /\ Prepared(j) /\ Decided(j) /\ Validated(j)
  BY <1>4 DEF WorldInv, TickInv, IslandInv
<1>7. Unwritten(i)
  BY <1>4, <1>5, <1>6 DEF IslandInv
<1>8. ASSUME NEW c \in States(i)
      PROVE  Output(c) = Committed(c) /\ Committed(c) \in Values /\ Committed(c) # Zero
  BY <1>6, <1>7, CommittedIsState DEF Output, Committed, Validated, Unwritten
<1>9. ASSUME NEW d \in DOMAIN store
      PROVE  /\ d \in DOMAIN store'
             /\ store'[d].initialized = store[d].initialized
             /\ \A p \in Partitions[d] : store'[d].values[p] =
                    IF <<d, p>> \in States(i) THEN Committed(<<d, p>>) ELSE store[d].values[p]
             /\ store'[d] \in
                    [values : [Partitions[d] -> Values \cup {Zero}], initialized : BOOLEAN]
  <2> PICK values : values = [p \in Partitions[d] |->
            IF <<d, p>> \in States(i) THEN Output(<<d, p>>) ELSE store[d].values[p]]
    OBVIOUS
  <2>1. store[d] \in [values : [Partitions[d] -> Values \cup {Zero}], initialized : BOOLEAN]
    BY DEF WorldInv, TypeOK
  <2>2. d \in DOMAIN store' /\ store'[d] = [store[d] EXCEPT !.values = values]
    BY <1>1 DEF WriteStates
  <2>3. \A p \in Partitions[d] :
            values[p] = IF <<d, p>> \in States(i) THEN Committed(<<d, p>>) ELSE store[d].values[p]
    BY <1>8
  <2>4. \A p \in Partitions[d] : values[p] \in Values \cup {Zero}
    BY <1>8, <2>1, <2>3
  <2>5. values \in [Partitions[d] -> Values \cup {Zero}]
    BY <2>4
  <2>6. store'[d] = [values |-> values, initialized |-> store[d].initialized]
    BY <2>1, <2>2
  <2> QED BY <2>1, <2>2, <2>3, <2>5, <2>6
<1>10. InitializedRowsAreWhole'
  <2> SUFFICES ASSUME NEW d \in DOMAIN store', store'[d].initialized,
                      NEW p \in Partitions[d], <<d, p>> \in Stateful
               PROVE  store'[d].values[p] # Zero
    BY DEF InitializedRowsAreWhole
  <2>1. d \in DOMAIN store /\ store[d].initialized
    BY <1>1, <1>9
  <2>2. store[d].values[p] # Zero
    BY <2>1 DEF WorldInv, InitializedRowsAreWhole
  <2> QED BY <1>8, <1>9, <2>1, <2>2
<1>11. ASSUME NEW j \in Islands PROVE IslandInv(j)'
  <2>1. /\ Prepared(j)' <=> Prepared(j)
        /\ Decided(j)' <=> Decided(j)
        /\ Validated(j)' <=> Validated(j)
    BY <1>2 DEF Prepared, Decided, Validated, States, Members, Current, Parts
  <2>2. Prepared(j)' /\ Decided(j)' /\ Validated(j)'
    BY <1>6, <2>1
  <2>3. ASSUME NEW c \in States(j)
        PROVE  /\ c \in DOMAIN islandOf /\ islandOf[c] = j
               /\ c = <<c[1], c[2]>> /\ c[1] \in DOMAIN store /\ c[2] \in Partitions[c[1]]
               /\ Committed(c)' = Committed(c)
    BY <1>2, ComponentRow DEF States, Members, Committed
  <2>4. States(j)' = States(j)
    BY <1>2 DEF States, Members
  <2>5. CASE j = i
    <3>1. Scattered(i)'
      BY <1>9, <2>3, <2>4, <2>5 DEF Scattered
    <3> QED BY <1>5, <2>2, <2>5, <3>1, <1>3 DEF IslandInv, PassNames
  <2>6. CASE j # i
    <3>1. \A c \in States(j) : c \notin States(i)
      BY <2>3, <2>6 DEF States, Members
    <3>2. \A c \in States(j) : /\ store'[c[1]].values[c[2]] = store[c[1]].values[c[2]]
                               /\ store'[c[1]].initialized = store[c[1]].initialized
      BY <1>9, <2>3, <3>1
    <3>3. /\ Unwritten(j)' <=> Unwritten(j)
          /\ Scattered(j)' <=> Scattered(j)
          /\ Finalized(j)' <=> Finalized(j)
      BY <1>2, <2>3, <2>4, <3>2 DEF Unwritten, ReadLogical, Scattered, Finalized
    <3>4. /\ Done("prepare", j)' <=> Done("prepare", j)
          /\ Done("scatter", j)' <=> Done("scatter", j)
          /\ Done("finalize", j)' <=> Done("finalize", j)
      BY <1>3, <2>6 DEF PassNames
    <3> QED BY <1>6, <2>2, <3>3, <3>4 DEF IslandInv
  <2> QED BY <2>5, <2>6
<1> QED BY <1>1, <1>9, <1>10, <1>11, StoreVisit

\* A row is marked once every island that shares it is written.
LEMMA FinalizeIslandStep ==
    ASSUME WorldInv, NEW i \in Islands, FinalizeIsland(i) PROVE WorldInv'
<1> DEFINE ofIsland == {c[1] : c \in States(i)}
<1>1. /\ Visit("finalize", i)
      /\ store' = [d \in DOMAIN store |-> MarkInitialized(store[d], d, i)]
      /\ UNCHANGED <<islandOf, islandSlots, parameter, invalidation, runtimes, subscriptions,
                     nextId, received>>
  BY DEF FinalizeIsland
<1>2. "finalize" \in PassNames /\ UNCHANGED islandOf /\ UNCHANGED runtimes /\ UNCHANGED parameter
  BY <1>1 DEF PassNames
<1>3. /\ tick.pass = "finalize" /\ Islands' = Islands
      /\ \A j \in Islands, p \in PassNames : j # i => (Done(p, j)' <=> Done(p, j))
      /\ \A p \in PassNames : Done(p, i)' <=> "finalize" \in Later[p] \cup {p}
      /\ \A j \in Islands, p \in PassNames : "finalize" \in Later[p] => Done(p, j)
  BY <1>1, <1>2, Visiting
<1>4. \A j \in Islands : /\ Done("prepare", j) /\ Done("solve", j) /\ Done("validate", j)
                         /\ Done("scatter", j)
  BY <1>3 DEF PassNames, Later
<1>5. \A j \in Islands : /\ IslandInv(j) /\ Prepared(j) /\ Decided(j) /\ Validated(j)
                         /\ Scattered(j)
  BY <1>4 DEF WorldInv, TickInv, IslandInv
<1>6. \A j \in Islands : Done("scatter", j)'
  BY <1>3, <1>4 DEF PassNames, Later
<1>7. ASSUME NEW d \in DOMAIN store
      PROVE  /\ d \in DOMAIN store'
             /\ store'[d].values = store[d].values
             /\ store'[d].initialized = (store[d].initialized \/ d \in ofIsland)
             /\ store'[d] \in
                    [values : [Partitions[d] -> Values \cup {Zero}], initialized : BOOLEAN]
  <2>1. store[d] \in [values : [Partitions[d] -> Values \cup {Zero}], initialized : BOOLEAN]
    BY DEF WorldInv, TypeOK
  <2>2. d \in DOMAIN store'
        /\ store'[d] = [store[d] EXCEPT !.initialized = (store[d].initialized \/ d \in ofIsland)]
    BY <1>1 DEF MarkInitialized
  <2> HIDE DEF ofIsland
  <2> QED BY <2>1, <2>2
<1>8. InitializedRowsAreWhole'
  <2> SUFFICES ASSUME NEW d \in DOMAIN store', store'[d].initialized,
                      NEW p \in Partitions[d], <<d, p>> \in Stateful
               PROVE  store[d].values[p] # Zero
    BY <1>1, <1>7 DEF InitializedRowsAreWhole
  <2>1. d \in DOMAIN store
    BY <1>1
  <2>2. CASE store[d].initialized
    BY <2>1, <2>2 DEF WorldInv, InitializedRowsAreWhole
  <2>3. CASE d \in ofIsland
    <3> PICK c : c = <<d, p>>
      OBVIOUS
    <3>1. c \in Components /\ c[1] = d /\ c[2] = p /\ c \in Stateful
      BY StatefulAssumption
    <3>2. c \in DOMAIN islandOf
      BY <2>1, <3>1 DEF WorldInv, TypeOK
    <3>3. islandOf[c] \in Islands /\ c \in States(islandOf[c])
      BY <3>1, <3>2 DEF Islands, States, Members
    <3>4. store[d].values[p] = Committed(c)
      BY <1>5, <3>1, <3>3 DEF Scattered
    <3> QED BY <1>5, <3>3, <3>4, CommittedIsState
  <2> QED BY <1>7, <2>1, <2>2, <2>3
<1>9. ASSUME NEW j \in Islands PROVE IslandInv(j)'
  <2>1. /\ Prepared(j)' <=> Prepared(j)
        /\ Decided(j)' <=> Decided(j)
        /\ Validated(j)' <=> Validated(j)
    BY <1>2 DEF Prepared, Decided, Validated, States, Members, Current, Parts
  <2>2. ASSUME NEW c \in States(j)
        PROVE  /\ c \in DOMAIN islandOf /\ c[1] \in DOMAIN store
               /\ Committed(c)' = Committed(c)
    BY <1>2, ComponentRow DEF States, Members, Committed
  <2>3. States(j)' = States(j)
    BY <1>2 DEF States, Members
  <2>4. Scattered(j)'
    BY <1>5, <1>7, <2>2, <2>3 DEF Scattered
  <2>5. Done("finalize", j)' => Finalized(j)'
    <3>1. CASE j = i
      BY <1>7, <2>2, <2>3, <3>1 DEF Finalized
    <3>2. CASE j # i
      <4>1. Done("finalize", j)' <=> Done("finalize", j)
        BY <1>3, <3>2 DEF PassNames
      <4>2. Finalized(j) => Finalized(j)'
        BY <1>7, <2>2, <2>3 DEF Finalized
      <4> QED BY <1>5, <4>1, <4>2 DEF IslandInv
    <3> QED BY <3>1, <3>2
  <2> QED BY <1>5, <1>6, <2>1, <2>4, <2>5 DEF IslandInv
<1> QED BY <1>1, <1>7, <1>8, <1>9, StoreVisit

-----------------------------------------------------------------------------
(* The end of a tick.                                                      *)

\* Forgetting the values of a tick changes nothing that the next one reads.
LEMMA TickEndedIsCurrent ==
    ASSUME NEW rs, NEW i \in DOMAIN rs, IsRuntime(rs[i]),
           RuntimeIsCurrent(rs[i], Current(i), Sleepable(i), FALSE)
    PROVE  /\ i \in DOMAIN TickEnded(rs) /\ IsRuntime(TickEnded(rs)[i])
           /\ RuntimeIsCurrent(TickEnded(rs)[i], Current(i), Sleepable(i), FALSE)
           /\ TickEnded(rs)[i].solution = rs[i].solution
           /\ TickEnded(rs)[i].observerOutputsDirty = rs[i].observerOutputsDirty
<1> PICK r : r = rs[i]
  OBVIOUS
<1> PICK q : q = TickEnded(rs)[i]
  OBVIOUS
<1>1. i \in DOMAIN TickEnded(rs)
      /\ q = [r EXCEPT !.status = "pending", !.inputs = << >>, !.outputs = << >>]
  BY DEF TickEnded
<1>2. q = [ status |-> "pending", inputs |-> << >>, outputs |-> << >>,
            parameters |-> r.parameters, staticInputsDirty |-> r.staticInputsDirty,
            staticInitialized |-> r.staticInitialized, matrix |-> r.matrix,
            matrixDirty |-> r.matrixDirty, solution |-> r.solution,
            observerOutputsDirty |-> r.observerOutputsDirty, needsSolve |-> r.needsSolve ]
  BY <1>1 DEF IsRuntime
<1>3. IsRuntime(r) /\ RuntimeIsCurrent(r, Current(i), Sleepable(i), FALSE)
  OBVIOUS
<1>4. IsRuntime(q) /\ RuntimeIsCurrent(q, Current(i), Sleepable(i), FALSE)
  BY <1>2, <1>3 DEF IsRuntime, RuntimeIsCurrent
<1>5. q.solution = r.solution /\ q.observerOutputsDirty = r.observerOutputsDirty
  BY <1>2
<1> QED BY <1>1, <1>4, <1>5, Zenon

\* The runtimes a tick may end with, and what it has told the subscribers then.
EndingRuntimes(rs) ==
    \A i \in Islands : /\ i \in DOMAIN rs /\ IsRuntime(rs[i])
                       /\ RuntimeIsCurrent(rs[i], Current(i), Sleepable(i), FALSE)
EndingSubscriptions(rs) ==
    /\ DOMAIN subscriptions' = DOMAIN subscriptions /\ DOMAIN received' = DOMAIN subscriptions
    /\ \A s \in DOMAIN subscriptions :
          /\ subscriptions'[s] = [ component |-> subscriptions[s].component,
                                   published |-> subscriptions'[s].published ]
          /\ subscriptions'[s].published = received'[s]
          /\ LET i == islandOf[subscriptions[s].component]
                 published == subscriptions'[s].published
             IN  /\ rs[i].solution # << >> /\ ~rs[i].observerOutputsDirty
                 /\ published # << >> /\ published[1] = "available"
                 => published = <<"available", rs[i].solution[1]>>

\* However a tick ends, its runtimes forget it and the invariant is left.
LEMMA EndOfTick ==
    ASSUME WorldInv, tick.pass # "idle", tick' = Idle,
           NEW rs, runtimes' = TickEnded(rs), EndingRuntimes(rs), EndingSubscriptions(rs),
           UNCHANGED <<islandOf, islandSlots, parameter, store, invalidation, nextId>>
    PROVE  WorldInv'
<1>1. /\ UNCHANGED islandOf /\ UNCHANGED islandSlots /\ UNCHANGED parameter /\ UNCHANGED store
      /\ UNCHANGED invalidation /\ UNCHANGED nextId
  OBVIOUS
<1>a. \A i \in Islands : /\ i \in DOMAIN rs /\ IsRuntime(rs[i])
                         /\ RuntimeIsCurrent(rs[i], Current(i), Sleepable(i), FALSE)
  BY Zenon DEF EndingRuntimes
<1>b. /\ DOMAIN subscriptions' = DOMAIN subscriptions /\ DOMAIN received' = DOMAIN subscriptions
      /\ \A s \in DOMAIN subscriptions :
            /\ subscriptions'[s] = [ component |-> subscriptions[s].component,
                                     published |-> subscriptions'[s].published ]
            /\ subscriptions'[s].published = received'[s]
            /\ LET i == islandOf[subscriptions[s].component]
                   published == subscriptions'[s].published
               IN  /\ rs[i].solution # << >> /\ ~rs[i].observerOutputsDirty
                   /\ published # << >> /\ published[1] = "available"
                   => published = <<"available", rs[i].solution[1]>>
  BY Zenon DEF EndingSubscriptions
<1>2. invalidation = EmptyInvalidation
  BY DEF WorldInv, WorldShape
<1>3. /\ Islands' = Islands
      /\ \A j : Current(j)' = Current(j) /\ Sleepable(j)' = Sleepable(j)
  BY <1>1 DEF Islands, Current, Parts, Sleepable, States, Members
<1>4. ASSUME NEW i \in Islands
      PROVE  /\ i \in DOMAIN runtimes' /\ IsRuntime(runtimes'[i])
             /\ RuntimeIsCurrent(runtimes'[i], Current(i), Sleepable(i), FALSE)
             /\ runtimes'[i].solution = rs[i].solution
             /\ runtimes'[i].observerOutputsDirty = rs[i].observerOutputsDirty
  BY <1>a, TickEndedIsCurrent
<1>5. RuntimesInv'
  BY <1>1, <1>2, <1>3, <1>4 DEF RuntimesInv, EmptyInvalidation, RuntimeIsCurrent
<1>6. \A s \in DOMAIN subscriptions : islandOf[subscriptions[s].component] \in Islands
  BY DEF WorldInv, WorldShape, Islands
<1>7. SubscriptionsInv'
  <2> SUFFICES ASSUME NEW s \in DOMAIN subscriptions,
                      NEW j, j = islandOf[subscriptions[s].component]
               PROVE  LET published == subscriptions'[s].published IN
                      /\ published = received'[s]
                      /\ /\ runtimes'[j].solution # << >> /\ ~runtimes'[j].observerOutputsDirty
                         /\ published # << >> /\ published[1] = "available"
                         => published = <<"available", runtimes'[j].solution[1]>>
    <3>1. \A s \in DOMAIN subscriptions : subscriptions'[s].component = subscriptions[s].component
      BY <1>b
    <3> QED BY <1>1, <1>b, <3>1 DEF SubscriptionsInv
  <2> QED BY <1>4, <1>6, <1>b
<1>8. TypeOK'
  BY <1>1, <1>3, <1>b DEF WorldInv, TypeOK, Idle
<1>9. InitializedRowsAreWhole'
  BY <1>1 DEF WorldInv, InitializedRowsAreWhole
<1>10. WorldShape'
  BY <1>1, <1>3, <1>b DEF WorldInv, WorldShape, Idle, Passes
<1> QED BY <1>5, <1>7, <1>8, <1>9, <1>10, BetweenTicks DEF WorldInv

\* A tick that fails as a whole leaves an island with no solution at worst.
LEMMA TickFailsStep == ASSUME WorldInv, NEW i \in Islands, TickFails(i) PROVE WorldInv'
<1>1. /\ tick.pass = "solve" /\ ~Sleeps(i) /\ tick' = Idle
      /\ \E r \in Unsolved(i) : runtimes' = TickEnded([runtimes EXCEPT ![i] = r])
      /\ UNCHANGED <<islandOf, islandSlots, parameter, store, invalidation, nextId>>
      /\ UNCHANGED subscriptions /\ UNCHANGED received
  BY DEF TickFails
<1> PICK r \in Unsolved(i) : runtimes' = TickEnded([runtimes EXCEPT ![i] = r])
  BY <1>1
<1> PICK rs : rs = [runtimes EXCEPT ![i] = r]
  OBVIOUS
<1>2. \A j \in Islands : /\ j \in DOMAIN runtimes /\ IsRuntime(runtimes[j])
                         /\ RuntimeIsCurrent(runtimes[j], Current(j), Sleepable(j), FALSE)
  BY <1>1, Visited
<1>3. /\ IsRuntime(r) /\ RuntimeIsCurrent(r, Current(i), Sleepable(i), FALSE)
      /\ r.solution = << >>
  BY <1>1, <1>2, UnsolvedIsCurrent
<1>4. rs[i] = r /\ \A j \in Islands : j \in DOMAIN rs /\ (j # i => rs[j] = runtimes[j])
  BY <1>2
<1>5. \A j \in Islands : /\ j \in DOMAIN rs /\ IsRuntime(rs[j])
                         /\ RuntimeIsCurrent(rs[j], Current(j), Sleepable(j), FALSE)
  BY <1>2, <1>3, <1>4
<1>6. invalidation.topologyDirty = {}
  BY <1>1 DEF WorldInv, WorldShape, EmptyInvalidation
<1>7. ASSUME NEW s \in DOMAIN subscriptions
      PROVE  /\ subscriptions'[s] = [ component |-> subscriptions[s].component,
                                      published |-> subscriptions'[s].published ]
             /\ subscriptions'[s].published = received'[s]
             /\ LET j == islandOf[subscriptions[s].component]
                    published == subscriptions'[s].published
                IN  /\ rs[j].solution # << >> /\ ~rs[j].observerOutputsDirty
                    /\ published # << >> /\ published[1] = "available"
                    => published = <<"available", rs[j].solution[1]>>
  <2> PICK j : j = islandOf[subscriptions[s].component]
    OBVIOUS
  <2>1. j \in Islands
    BY DEF WorldInv, WorldShape, Islands
  <2>2. /\ subscriptions[s] = [ component |-> subscriptions[s].component,
                                published |-> subscriptions[s].published ]
        /\ subscriptions'[s] = subscriptions[s] /\ received'[s] = received[s]
    BY <1>1 DEF WorldInv, WorldShape
  <2>3. LET published == subscriptions[s].published IN
        /\ published = received[s]
        /\ /\ runtimes[j].solution # << >> /\ ~runtimes[j].observerOutputsDirty
           /\ published # << >> /\ published[1] = "available"
           => published = <<"available", runtimes[j].solution[1]>>
    BY <1>6 DEF WorldInv, SubscriptionsInv
  <2> QED BY <1>3, <1>4, <2>1, <2>2, <2>3
<1>8. DOMAIN subscriptions' = DOMAIN subscriptions /\ DOMAIN received' = DOMAIN subscriptions
  BY <1>1 DEF WorldInv, TypeOK
<1>9. EndingRuntimes(rs)
  BY <1>5, Zenon DEF EndingRuntimes
<1>10. EndingSubscriptions(rs)
  BY <1>7, <1>8, Zenon DEF EndingSubscriptions
<1>11. tick.pass # "idle" /\ runtimes' = TickEnded(rs)
  BY <1>1
<1> QED BY <1>1, <1>9, <1>10, <1>11, EndOfTick, Zenon

\* What a subscriber is shown at the end of a tick is what its island has now,
\* whether or not it is told again.
LEMMA ObservedIsCurrent ==
    ASSUME WorldInv, tick.pass = "collect", NEW s \in DOMAIN subscriptions,
           NEW i, i = islandOf[subscriptions[s].component]
    PROVE  /\ i \in Islands
           /\ Observed(s) = IF runtimes[i].status = "available"
                            THEN <<"available", runtimes[i].solution[1]>> ELSE <<"unavailable">>
<1>1. i \in Islands
  BY DEF WorldInv, WorldShape, Islands
<1>2. Done("solve", i)
  BY DEF Done, Later
<1>3. Decided(i)
  BY <1>1, <1>2 DEF WorldInv, TickInv, IslandInv
<1>4. runtimes[i].status = "available" => runtimes[i].solution # << >>
  <2>1. ASSUME NEW x PROVE <<x>> # << >>
    OBVIOUS
  <2>2. runtimes[i].status = "available" => \E x : runtimes[i].solution = <<x>>
    BY <1>3 DEF Decided
  <2> QED BY <2>1, <2>2, Zenon
<1>5. invalidation.topologyDirty = {}
  BY DEF WorldInv, WorldShape, EmptyInvalidation
<1>6. LET published == subscriptions[s].published IN
      /\ runtimes[i].solution # << >> /\ ~runtimes[i].observerOutputsDirty
      /\ published # << >> /\ published[1] = "available"
      => published = <<"available", runtimes[i].solution[1]>>
  BY <1>5 DEF WorldInv, SubscriptionsInv
<1> QED BY <1>1, <1>4, <1>6 DEF Observed

\* Observers that were shown are not shown again before they change.
LEMMA ShownIsCurrent ==
    ASSUME NEW i, NEW r, IsRuntime(r), RuntimeIsCurrent(r, Current(i), Sleepable(i), FALSE),
           NEW q, q = [r EXCEPT !.observerOutputsDirty = FALSE]
    PROVE  /\ IsRuntime(q) /\ RuntimeIsCurrent(q, Current(i), Sleepable(i), FALSE)
           /\ q.solution = r.solution
<1>1. q = [ status |-> r.status, inputs |-> r.inputs, outputs |-> r.outputs,
            parameters |-> r.parameters, staticInputsDirty |-> r.staticInputsDirty,
            staticInitialized |-> r.staticInitialized, matrix |-> r.matrix,
            matrixDirty |-> r.matrixDirty, solution |-> r.solution,
            observerOutputsDirty |-> FALSE, needsSolve |-> r.needsSolve ]
  BY DEF IsRuntime
<1> QED BY <1>1 DEF IsRuntime, RuntimeIsCurrent

\* A tick ends with what its subscribers were told.
LEMMA CollectStep == ASSUME WorldInv, CollectSubscriptionUpdates PROVE WorldInv'
<1>0. PICK rs : rs = [i \in DOMAIN runtimes |-> [runtimes[i] EXCEPT !.observerOutputsDirty = FALSE]]
  OBVIOUS
<1>1. /\ tick.pass = "collect" /\ tick' = Idle /\ runtimes' = TickEnded(rs)
      /\ subscriptions' = [s \in DOMAIN subscriptions |->
                              [subscriptions[s] EXCEPT !.published = Observed(s)]]
      /\ received' = [s \in DOMAIN received |->
            IF s \in {t \in DOMAIN subscriptions : Observed(t) # subscriptions[t].published}
            THEN Observed(s) ELSE received[s]]
      /\ UNCHANGED <<islandOf, islandSlots, parameter, store, invalidation, nextId>>
  BY <1>0 DEF CollectSubscriptionUpdates
<1>2. ASSUME NEW j \in Islands
      PROVE  /\ j \in DOMAIN rs /\ IsRuntime(rs[j])
             /\ RuntimeIsCurrent(rs[j], Current(j), Sleepable(j), FALSE)
             /\ rs[j].solution = runtimes[j].solution
  <2>1. /\ j \in DOMAIN runtimes /\ IsRuntime(runtimes[j])
        /\ RuntimeIsCurrent(runtimes[j], Current(j), Sleepable(j), FALSE)
    BY <1>1, Visited
  <2>2. PICK r : r = runtimes[j]
    OBVIOUS
  <2>3. PICK q : q = [r EXCEPT !.observerOutputsDirty = FALSE]
    OBVIOUS
  <2>4. j \in DOMAIN rs /\ rs[j] = q
    BY <1>0, <2>1, <2>2, <2>3
  <2>5. /\ IsRuntime(q) /\ RuntimeIsCurrent(q, Current(j), Sleepable(j), FALSE)
        /\ q.solution = r.solution
    BY <2>1, <2>2, <2>3, ShownIsCurrent
  <2> QED BY <2>2, <2>4, <2>5
<1>3. ASSUME NEW s \in DOMAIN subscriptions
      PROVE  /\ subscriptions'[s] = [ component |-> subscriptions[s].component,
                                      published |-> subscriptions'[s].published ]
             /\ subscriptions'[s].published = received'[s]
             /\ LET j == islandOf[subscriptions[s].component]
                    published == subscriptions'[s].published
                IN  /\ rs[j].solution # << >> /\ ~rs[j].observerOutputsDirty
                    /\ published # << >> /\ published[1] = "available"
                    => published = <<"available", rs[j].solution[1]>>
  <2> DEFINE j == islandOf[subscriptions[s].component]
  <2>1. /\ j \in Islands
        /\ Observed(s) = IF runtimes[j].status = "available"
                         THEN <<"available", runtimes[j].solution[1]>> ELSE <<"unavailable">>
    BY <1>1, ObservedIsCurrent
  <2>2. /\ subscriptions[s] = [ component |-> subscriptions[s].component,
                                published |-> subscriptions[s].published ]
        /\ subscriptions[s].published = received[s] /\ s \in DOMAIN received
    BY DEF WorldInv, WorldShape, SubscriptionsInv, TypeOK
  <2>3. subscriptions'[s] = [component |-> subscriptions[s].component, published |-> Observed(s)]
    BY <1>1, <2>2
  <2>4. received'[s] = Observed(s)
    BY <1>1, <2>2
  <2>5. Observed(s)[1] = "available" => Observed(s) = <<"available", rs[j].solution[1]>>
    <3>1. CASE runtimes[j].status = "available"
      BY <1>2, <2>1, <3>1
    <3>2. CASE runtimes[j].status # "available"
      <4>1. Observed(s) = <<"unavailable">>
        BY <2>1, <3>2
      <4> QED BY <4>1
    <3> QED BY <3>1, <3>2
  <2> QED BY <2>3, <2>4, <2>5
<1>4. DOMAIN subscriptions' = DOMAIN subscriptions /\ DOMAIN received' = DOMAIN subscriptions
  BY <1>1 DEF WorldInv, TypeOK
<1>5. EndingRuntimes(rs)
  BY <1>2, Zenon DEF EndingRuntimes
<1>6. EndingSubscriptions(rs)
  BY <1>3, <1>4, Zenon DEF EndingSubscriptions
<1>7. tick.pass # "idle"
  BY <1>1
<1> QED BY <1>1, <1>5, <1>6, <1>7, EndOfTick, Zenon

-----------------------------------------------------------------------------
(* The invariant, and the properties that follow from it.                  *)

\* No step breaks the invariant.
LEMMA WorldInvStep == WorldInv /\ [Next]_vars => WorldInv'
<1> SUFFICES ASSUME WorldInv, [Next]_vars PROVE WorldInv'
  OBVIOUS
<1>1. ASSUME NEW d \in Devices, AddDevice(d) \/ RemoveDevice(d) PROVE WorldInv'
  BY <1>1, AddDeviceStep, RemoveDeviceStep
<1>2. ASSUME NEW d \in Devices, NEW value \in Parameters, SetDeviceParameter(d, value)
      PROVE  WorldInv'
  BY <1>2, SetDeviceParameterStep
<1>3. ASSUME NEW c \in Components, NEW i \in Islands \cup ({islandSlots + 1} \cap (1..MaxIslands)),
             MoveComponent(c, i)
      PROVE  WorldInv'
  BY <1>3, MoveComponentStep
<1>4. CASE \/ \E c \in Components : Subscribe(c)
           \/ \E s \in DOMAIN subscriptions : Unsubscribe(s)
  BY <1>4, SubscribeStep
<1>5. CASE BeginTick \/ SyncFails
  BY <1>5, BeginTickStep, SyncFailsStep
<1>6. ASSUME NEW i \in Islands, Pass(i) \/ TickFails(i) PROVE WorldInv'
  BY <1>6, PrepareIslandStep, SolveIslandStep, ValidateIslandStep, ScatterIslandStep,
     FinalizeIslandStep, TickFailsStep DEF Pass
<1>7. CASE EndOfPass
  BY <1>7, EndPassStep DEF EndOfPass, Follows
<1>8. CASE CollectSubscriptionUpdates
  BY <1>8, CollectStep
<1>9. CASE UNCHANGED vars
  <2>1. /\ UNCHANGED islandOf /\ UNCHANGED islandSlots /\ UNCHANGED parameter /\ UNCHANGED store
        /\ UNCHANGED invalidation /\ UNCHANGED runtimes /\ UNCHANGED subscriptions
        /\ UNCHANGED nextId /\ UNCHANGED received /\ UNCHANGED tick
    BY <1>9 DEF vars
  <2>2. /\ Islands' = Islands
        /\ \A i : /\ Current(i)' = Current(i) /\ Sleepable(i)' = Sleepable(i)
                  /\ States(i)' = States(i)
    BY <2>1 DEF Islands, Current, Parts, Sleepable, States, Members
  <2>3. TypeOK' /\ InitializedRowsAreWhole' /\ WorldShape'
    BY <2>1, <2>2 DEF WorldInv, TypeOK, InitializedRowsAreWhole, WorldShape
  <2>4. RuntimesInv' /\ SubscriptionsInv'
    BY <2>1, <2>2 DEF WorldInv, RuntimesInv, SubscriptionsInv
  <2>5. \A c : ReadLogical(c)' = ReadLogical(c) /\ Committed(c)' = Committed(c)
    BY <2>1 DEF ReadLogical, Committed
  <2>6. TickInv'
    <3> SUFFICES ASSUME NEW i \in Islands PROVE IslandInv(i)'
      BY <2>2 DEF TickInv
    <3>1. IslandInv(i)
      BY DEF WorldInv, TickInv
    <3>2. /\ Prepared(i)' <=> Prepared(i)
          /\ Unwritten(i)' <=> Unwritten(i)
          /\ Decided(i)' <=> Decided(i)
          /\ Validated(i)' <=> Validated(i)
          /\ Scattered(i)' <=> Scattered(i)
          /\ Finalized(i)' <=> Finalized(i)
      BY <2>1, <2>2, <2>5 DEF Prepared, Unwritten, Decided, Validated, Scattered, Finalized
    <3>3. \A p : Done(p, i)' <=> Done(p, i)
      BY <2>1 DEF Done
    <3> QED BY <3>1, <3>2, <3>3 DEF IslandInv
  <2> QED BY <2>3, <2>4, <2>6 DEF WorldInv
<1> QED BY <1>1, <1>2, <1>3, <1>4, <1>5, <1>6, <1>7, <1>8, <1>9 DEF Next

\* The invariant holds of every state a world can be in.
LEMMA WorldInvariance == Spec => []WorldInv
BY WorldInvInit, WorldInvStep, PTL DEF Spec

\* The tick's state is well formed whatever commands and ticks do, and a row
\* claims to be initialized only when every island that shares its device has
\* written to it.
THEOREM RowsStayWhole == Spec => []RowsAreWhole
<1>1. WorldInv => RowsAreWhole
  BY DEF WorldInv, RowsAreWhole
<1> QED BY <1>1, WorldInvariance, PTL

\* The commit and the collection never meet an island that is undecided, or
\* available without a solution: the panics of a tick are out of reach.
THEOREM NoTickPanics == Spec => []TickNeverPanics
<1>1. ASSUME WorldInv, tick.pass \in {"validate", "scatter", "finalize", "collect"},
             NEW i \in Islands
      PROVE  /\ runtimes[i].status \in {"available", "unavailable"}
             /\ runtimes[i].status = "available" => runtimes[i].solution # << >>
  <2>1. Done("solve", i)
    BY <1>1 DEF Done, Later
  <2>2. Decided(i)
    BY <1>1, <2>1 DEF WorldInv, TickInv, IslandInv
  <2>3. ASSUME NEW x PROVE <<x>> # << >>
    OBVIOUS
  <2>4. /\ runtimes[i].status \in {"available", "unavailable"}
        /\ runtimes[i].status = "available" => \E x : runtimes[i].solution = <<x>>
    BY <2>2 DEF Decided
  <2> QED BY <2>3, <2>4, Zenon
<1>2. WorldInv => TickNeverPanics
  BY <1>1 DEF TickNeverPanics
<1> QED BY <1>2, WorldInvariance, PTL

\* An island that is not solved again has the solution for the parameters of
\* now, however they and the topology changed since.
THEOREM SleepersStayCurrent == Spec => []SleepersAreCurrent
<1>1. ASSUME WorldInv,
             NEW i \in Islands \ (invalidation.topologyDirty \cup invalidation.numericalDirty),
             Sleeps(i)
      PROVE  /\ runtimes[i].solution # << >>
             /\ runtimes[i].solution[1].parameters = [d \in Parts(i) |-> parameter[d]]
  <2>1. runtimes[i].solution = <<[parameters |-> Current(i), inputs |-> << >>]>>
    BY <1>1 DEF WorldInv, RuntimesInv, RuntimeIsCurrent, Sleeps
  <2>2. ASSUME NEW x PROVE <<x>> # << >> /\ <<x>>[1] = x
    OBVIOUS
  <2>3. runtimes[i].solution # << >>
        /\ runtimes[i].solution[1] = [parameters |-> Current(i), inputs |-> << >>]
    BY <2>1, <2>2, Zenon
  <2>4. runtimes[i].solution[1].parameters = Current(i)
    BY <2>3
  <2> QED BY <2>3, <2>4 DEF Current
<1>2. WorldInv => SleepersAreCurrent
  BY <1>1 DEF SleepersAreCurrent
<1> QED BY <1>2, WorldInvariance, PTL

-----------------------------------------------------------------------------
(* Ticks are atomic.                                                       *)

\* What is visible does not change.
Silent == UNCHANGED <<islandOf, parameter, LogicalStates, Seen, Committing>>

\* Outside of a commit, a step that leaves rows and what was received where
\* they are is one of the caller's, or no step at all.
LEMMA EditStep ==
    ASSUME WorldInv, WorldInv', ~Committing, ~Committing',
           \A c \in DOMAIN islandOf \cap DOMAIN islandOf' : store'[c[1]] = store[c[1]],
           \A c \in DOMAIN islandOf' \ DOMAIN islandOf : ~store'[c[1]].initialized,
           \A s \in DOMAIN subscriptions' \cap DOMAIN subscriptions :
              /\ subscriptions'[s].component = subscriptions[s].component
              /\ received'[s] = received[s],
           \A s \in DOMAIN subscriptions' \ DOMAIN subscriptions : received'[s] = << >>
    PROVE  Contract!Edit
<1>1. /\ DOMAIN LogicalStates = DOMAIN islandOf \cap Stateful
      /\ \A c \in DOMAIN LogicalStates : LogicalStates[c] = ReadLogical(c)
  BY DEF LogicalStates
<1>2. /\ DOMAIN LogicalStates' = DOMAIN islandOf' \cap Stateful
      /\ \A c \in DOMAIN LogicalStates' : LogicalStates'[c] = ReadLogical(c)'
  BY DEF LogicalStates
<1>3. \A c \in DOMAIN LogicalStates \cap DOMAIN LogicalStates' : LogicalStates'[c] = LogicalStates[c]
  BY <1>1, <1>2 DEF ReadLogical
<1>4. \A c \in DOMAIN LogicalStates' \ DOMAIN LogicalStates : LogicalStates'[c] = "initial"
  BY <1>1, <1>2 DEF ReadLogical
<1>5. /\ DOMAIN Seen = DOMAIN subscriptions /\ DOMAIN Seen' = DOMAIN subscriptions'
      /\ \A s \in DOMAIN Seen :
            Seen[s] = [component |-> subscriptions[s].component, shown |-> received[s]]
      /\ \A s \in DOMAIN Seen' :
            Seen'[s] = [component |-> subscriptions'[s].component, shown |-> received'[s]]
  BY DEF Seen
<1>6. \A s \in DOMAIN Seen \cap DOMAIN Seen' : Seen'[s] = Seen[s]
  BY <1>5
<1>7. \A s \in DOMAIN Seen' \ DOMAIN Seen : Seen'[s].shown = << >>
  BY <1>5
<1>8. \A s \in DOMAIN Seen' : Seen'[s].component \in DOMAIN islandOf'
  BY <1>5 DEF WorldInv, WorldShape
<1> QED BY <1>3, <1>4, <1>6, <1>7, <1>8 DEF Contract!Edit

\* The visits before the commit, a tick that fails and the commands.
LEMMA CallerStep ==
    ASSUME WorldInv, WorldInv',
           \/ \E d \in Devices : AddDevice(d) \/ RemoveDevice(d)
           \/ \E d \in Devices, value \in Parameters : SetDeviceParameter(d, value)
           \/ \E c \in Components, i \in Islands \cup ({islandSlots + 1} \cap (1..MaxIslands)) :
                MoveComponent(c, i)
           \/ \E c \in Components : Subscribe(c)
           \/ \E s \in DOMAIN subscriptions : Unsubscribe(s)
           \/ BeginTick \/ SyncFails
           \/ \E i \in Islands : \/ PrepareIsland(i) \/ SolveIsland(i) \/ ValidateIsland(i)
                                 \/ TickFails(i)
           \/ EndPass("prepare", "solve") \/ EndPass("solve", "validate")
    PROVE  Contract!Edit
<1>1. ~Committing /\ ~Committing'
  <2>1. tick.pass \notin {"scatter", "finalize", "collect"}
    <3>1. \/ tick = Idle \/ \E todo : tick = [pass |-> "prepare", todo |-> todo]
          \/ \E todo : tick = [pass |-> "solve", todo |-> todo]
          \/ tick.pass \in {"prepare", "solve", "validate"}
      <4>1. \A i \in Islands : PrepareIsland(i) \/ SolveIsland(i) \/ ValidateIsland(i) \/ TickFails(i)
                => tick.pass \in {"prepare", "solve", "validate"}
        BY DEF PrepareIsland, SolveIsland, ValidateIsland, TickFails, Visit
      <4>2. EndPass("prepare", "solve") => \E todo : tick = [pass |-> "prepare", todo |-> todo]
        BY DEF EndPass
      <4>3. EndPass("solve", "validate") => \E todo : tick = [pass |-> "solve", todo |-> todo]
        BY DEF EndPass
      <4>4. \/ \E d \in Devices : AddDevice(d) \/ RemoveDevice(d)
            \/ \E d \in Devices, value \in Parameters : SetDeviceParameter(d, value)
            \/ \E c \in Components, i \in Islands \cup ({islandSlots + 1} \cap (1..MaxIslands)) :
                 MoveComponent(c, i)
            \/ \E c \in Components : Subscribe(c)
            \/ \E s \in DOMAIN subscriptions : Unsubscribe(s)
            \/ BeginTick \/ SyncFails
            => tick = Idle
        BY DEF AddDevice, RemoveDevice, SetDeviceParameter, MoveComponent, Subscribe, Unsubscribe,
               BeginTick, SyncFails
      <4> QED BY <4>1, <4>2, <4>3, <4>4
    <3> QED BY <3>1 DEF Idle
  <2>2. tick'.pass \notin {"scatter", "finalize", "collect"}
    <3>1. \/ tick' = tick \/ tick' = Idle
          \/ tick' = [tick EXCEPT !.todo = tick'.todo]
          \/ \E todo : \/ tick' = [pass |-> "prepare", todo |-> todo]
                       \/ tick' = [pass |-> "solve", todo |-> todo]
                       \/ tick' = [pass |-> "validate", todo |-> todo]
      <4>1. \A i \in Islands : PrepareIsland(i) \/ SolveIsland(i) \/ ValidateIsland(i)
                => \E todo : tick' = [tick EXCEPT !.todo = todo]
        BY DEF PrepareIsland, SolveIsland, ValidateIsland, Visit
      <4>2. tick \in [pass : Passes, todo : SUBSET Islands]
        BY DEF WorldInv, WorldShape
      <4>3. ASSUME NEW todo, tick' = [tick EXCEPT !.todo = todo]
            PROVE  tick' = [tick EXCEPT !.todo = tick'.todo]
        BY <4>2, <4>3
      <4>4. \A i \in Islands : TickFails(i) => tick' = Idle
        BY DEF TickFails
      <4>5. BeginTick => \E todo : tick' = [pass |-> "prepare", todo |-> todo]
        BY DEF BeginTick
      <4>6. EndPass("prepare", "solve") => \E todo : tick' = [pass |-> "solve", todo |-> todo]
        BY DEF EndPass
      <4>7. EndPass("solve", "validate") => \E todo : tick' = [pass |-> "validate", todo |-> todo]
        BY DEF EndPass
      <4>8. \/ \E d \in Devices : AddDevice(d) \/ RemoveDevice(d)
            \/ \E d \in Devices, value \in Parameters : SetDeviceParameter(d, value)
            \/ \E c \in Components, i \in Islands \cup ({islandSlots + 1} \cap (1..MaxIslands)) :
                 MoveComponent(c, i)
            \/ \E c \in Components : Subscribe(c)
            \/ \E s \in DOMAIN subscriptions : Unsubscribe(s)
            \/ SyncFails
            => tick' = tick
        BY DEF AddDevice, RemoveDevice, SetDeviceParameter, MoveComponent, Subscribe, Unsubscribe,
               SyncFails
      <4> QED BY <4>1, <4>3, <4>4, <4>5, <4>6, <4>7, <4>8
    <3>2. tick \in [pass : Passes, todo : SUBSET Islands]
      BY DEF WorldInv, WorldShape
    <3> QED BY <2>1, <3>1, <3>2 DEF Idle
  <2> QED BY <2>1, <2>2 DEF Committing
<1>2. CASE \/ \E d \in Devices, value \in Parameters : SetDeviceParameter(d, value)
           \/ \E c \in Components, i \in Islands \cup ({islandSlots + 1} \cap (1..MaxIslands)) :
                MoveComponent(c, i)
           \/ BeginTick \/ SyncFails
           \/ \E i \in Islands : \/ PrepareIsland(i) \/ SolveIsland(i) \/ ValidateIsland(i)
                                 \/ TickFails(i)
           \/ EndPass("prepare", "solve") \/ EndPass("solve", "validate")
  <2>1. /\ DOMAIN islandOf' = DOMAIN islandOf /\ UNCHANGED store
        /\ UNCHANGED subscriptions /\ UNCHANGED received
    BY <1>2 DEF SetDeviceParameter, MoveComponent, BeginTick, SyncFails, PrepareIsland,
                SolveIsland, ValidateIsland, TickFails, EndPass
  <2> QED BY <1>1, <2>1, EditStep
<1>3. ASSUME NEW d \in Devices, AddDevice(d) PROVE Contract!Edit
  <2>1. /\ d \notin DOMAIN parameter /\ UNCHANGED subscriptions /\ UNCHANGED received
        /\ store' = [e \in DOMAIN store \cup {d} |->
            IF e = d THEN [values |-> [p \in Partitions[d] |-> Zero], initialized |-> FALSE]
            ELSE store[e]]
        /\ parameter' = [e \in DOMAIN parameter \cup {d} |->
                            IF e = d THEN Unassigned ELSE parameter[e]]
    BY <1>3 DEF AddDevice
  <2>2. /\ DOMAIN islandOf = {c \in Components : c[1] \in DOMAIN parameter}
        /\ DOMAIN islandOf' = {c \in Components : c[1] \in DOMAIN parameter'}
        /\ DOMAIN store = DOMAIN parameter
    BY DEF WorldInv, TypeOK
  <2>3. \A c \in DOMAIN islandOf : store'[c[1]] = store[c[1]]
    BY <2>1, <2>2
  <2>4. \A c \in DOMAIN islandOf' \ DOMAIN islandOf : c[1] = d
    BY <2>1, <2>2
  <2>5. ~store'[d].initialized
    BY <2>1
  <2> QED BY <1>1, <2>1, <2>3, <2>4, <2>5, EditStep
<1>4. ASSUME NEW d \in Devices, RemoveDevice(d) PROVE Contract!Edit
  <2>1. /\ store' = [e \in DOMAIN store \ {d} |-> store[e]]
        /\ DOMAIN islandOf' = {c \in DOMAIN islandOf : c[1] # d}
        /\ DOMAIN islandOf = {c \in Components : c[1] \in DOMAIN store}
        /\ \A s \in DOMAIN subscriptions' : /\ s \in DOMAIN subscriptions
                                            /\ subscriptions'[s] = subscriptions[s]
                                            /\ received'[s] = received[s]
    BY <1>4 DEF RemoveDevice, WorldInv, TypeOK
  <2>2. \A c \in DOMAIN islandOf \cap DOMAIN islandOf' : store'[c[1]] = store[c[1]]
    BY <2>1
  <2> QED BY <1>1, <2>1, <2>2, EditStep
<1>5. CASE \/ \E c \in Components : Subscribe(c)
           \/ \E s \in DOMAIN subscriptions : Unsubscribe(s)
  <2>1. nextId \notin DOMAIN subscriptions /\ DOMAIN received = DOMAIN subscriptions
    BY DEF WorldInv, WorldShape, TypeOK
  <2>2. /\ UNCHANGED islandOf /\ UNCHANGED store
        /\ \A s \in DOMAIN subscriptions' \cap DOMAIN subscriptions :
              subscriptions'[s] = subscriptions[s] /\ received'[s] = received[s]
        /\ \A s \in DOMAIN subscriptions' \ DOMAIN subscriptions : received'[s] = << >>
    BY <1>5, <2>1 DEF Subscribe, Unsubscribe
  <2> QED BY <1>1, <2>2, EditStep
<1> QED BY <1>2, <1>3, <1>4, <1>5

\* A tick begins to commit with the states it has read.
LEMMA CommitStep ==
    ASSUME WorldInv, EndPass("validate", "scatter")
    PROVE  Contract!Commit
<1>1. /\ tick = [pass |-> "validate", todo |-> {}]
      /\ tick' = [pass |-> "scatter", todo |-> Islands]
      /\ UNCHANGED islandOf /\ UNCHANGED parameter /\ UNCHANGED store /\ UNCHANGED runtimes
      /\ UNCHANGED subscriptions /\ UNCHANGED received
  BY DEF EndPass
<1>2. tick.pass = "validate" /\ tick'.pass = "scatter"
  BY <1>1
<1>3. ~Committing /\ Committing' = TRUE
  BY <1>2 DEF Committing
<1>4. ASSUME NEW c \in DOMAIN islandOf \cap Stateful
      PROVE  runtimes[islandOf[c]].inputs[c] = ReadLogical(c)
  <2>1. islandOf[c] \in Islands /\ c \in States(islandOf[c])
    BY DEF Islands, States, Members
  <2>2. Done("prepare", islandOf[c]) /\ ~Done("scatter", islandOf[c])
    BY <1>2 DEF Done, Later
  <2>3. Unwritten(islandOf[c])
    BY <2>1, <2>2 DEF WorldInv, TickInv, IslandInv
  <2> QED BY <2>1, <2>3 DEF Unwritten
<1>5. LogicalStates' = LogicalStates
  <2>1. LogicalStates = [c \in DOMAIN islandOf \cap Stateful |-> ReadLogical(c)]
    BY <1>3 DEF LogicalStates
  <2>2. LogicalStates' = [c \in DOMAIN islandOf \cap Stateful |-> runtimes[islandOf[c]].inputs[c]]
    BY <1>1, <1>3 DEF LogicalStates
  <2> QED BY <1>4, <2>1, <2>2
<1>6. Seen' = Seen
  BY <1>1 DEF Seen
<1> QED BY <1>1, <1>3, <1>5, <1>6 DEF Contract!Commit

\* Nothing of what a committing tick writes is visible before it ends.
LEMMA CommittingStep ==
    ASSUME WorldInv,
           \/ \E i \in Islands : ScatterIsland(i) \/ FinalizeIsland(i)
           \/ EndPass("scatter", "finalize") \/ EndPass("finalize", "collect")
    PROVE  Silent
<1>1. /\ UNCHANGED islandOf /\ UNCHANGED parameter /\ UNCHANGED runtimes
      /\ UNCHANGED subscriptions /\ UNCHANGED received
  BY DEF ScatterIsland, FinalizeIsland, EndPass
<1>2. Committing = TRUE /\ Committing' = TRUE
  <2>1. tick \in [pass : Passes, todo : SUBSET Islands]
    BY DEF WorldInv, WorldShape
  <2>2. ASSUME NEW i \in Islands, ScatterIsland(i) \/ FinalizeIsland(i)
        PROVE  tick.pass \in {"scatter", "finalize"} /\ tick'.pass = tick.pass
    <3>1. tick.pass \in {"scatter", "finalize"} /\ tick' = [tick EXCEPT !.todo = @ \ {i}]
      BY <2>2 DEF ScatterIsland, FinalizeIsland, Visit
    <3> QED BY <2>1, <3>1
  <2>3. ASSUME EndPass("scatter", "finalize") \/ EndPass("finalize", "collect")
        PROVE  /\ tick.pass \in {"scatter", "finalize"}
               /\ tick'.pass \in {"finalize", "collect"}
    BY <2>3 DEF EndPass
  <2> QED BY <2>2, <2>3 DEF Committing
<1>3. LogicalStates' = LogicalStates
  BY <1>1, <1>2 DEF LogicalStates
<1>4. Seen' = Seen
  BY <1>1 DEF Seen
<1> QED BY <1>1, <1>2, <1>3, <1>4 DEF Silent

\* The collection is where the tick happens.
LEMMA TickStep ==
    ASSUME WorldInv, CollectSubscriptionUpdates
    PROVE  Contract!Tick
<1> DEFINE failing == {i \in Islands : runtimes[i].status # "available"}
<1>1. /\ tick.pass = "collect" /\ tick' = Idle
      /\ UNCHANGED islandOf /\ UNCHANGED parameter /\ UNCHANGED store
      /\ subscriptions' = [s \in DOMAIN subscriptions |->
                              [subscriptions[s] EXCEPT !.published = Observed(s)]]
      /\ received' = [s \in DOMAIN received |->
            IF s \in {t \in DOMAIN subscriptions : Observed(t) # subscriptions[t].published}
            THEN Observed(s) ELSE received[s]]
  BY DEF CollectSubscriptionUpdates
<1>2. Committing /\ ~Committing'
  BY <1>1 DEF Committing, Idle
<1>3. ASSUME NEW i \in Islands
      PROVE  Prepared(i) /\ Decided(i) /\ Validated(i) /\ Scattered(i) /\ Finalized(i)
  <2>1. /\ Done("prepare", i) /\ Done("solve", i) /\ Done("validate", i)
        /\ Done("scatter", i) /\ Done("finalize", i)
    BY <1>1 DEF Done, Later
  <2> QED BY <2>1 DEF WorldInv, TickInv, IslandInv
<1>4. failing \in SUBSET Contract!Islands
  BY DEF Contract!Islands, Islands
<1>5. ASSUME NEW i \in Contract!Islands \ failing, NEW d \in Contract!Parts(i)
      PROVE  parameter[d] # Unassigned
  <2>1. i \in Islands /\ runtimes[i].status = "available" /\ d \in Parts(i)
    BY DEF Contract!Islands, Contract!Parts, Contract!Members, Islands, Parts, Members
  <2>2. runtimes[i].staticInitialized
    BY <1>3, <2>1 DEF Decided
  <2>3. RuntimeIsCurrent(runtimes[i], Current(i), Sleepable(i), FALSE)
    BY <1>1, <2>1, Visited
  <2>4. \A e \in DOMAIN Current(i) : Current(i)[e] # Unassigned
    BY <2>2, <2>3 DEF RuntimeIsCurrent
  <2> QED BY <2>1, <2>4 DEF Current
<1>6. LogicalStates' = [c \in DOMAIN LogicalStates |->
                            IF islandOf[c] \in failing THEN Failed(c, LogicalStates[c])
                            ELSE Advanced(LogicalStates[c])]
  <2>1. LogicalStates = [c \in DOMAIN islandOf \cap Stateful |-> runtimes[islandOf[c]].inputs[c]]
    BY <1>2 DEF LogicalStates
  <2>2. LogicalStates' = [c \in DOMAIN islandOf \cap Stateful |-> store[c[1]].values[c[2]]]
    <3>1. LogicalStates' = [c \in DOMAIN islandOf \cap Stateful |-> ReadLogical(c)]
      BY <1>1, <1>2 DEF LogicalStates, ReadLogical
    <3>2. ASSUME NEW c \in DOMAIN islandOf \cap Stateful
          PROVE  ReadLogical(c) = store[c[1]].values[c[2]]
      <4>1. islandOf[c] \in Islands /\ c \in States(islandOf[c])
        BY DEF Islands, States, Members
      <4> QED BY <1>3, <4>1 DEF Finalized, ReadLogical
    <3> QED BY <3>1, <3>2
  <2>3. ASSUME NEW c \in DOMAIN islandOf \cap Stateful
        PROVE  store[c[1]].values[c[2]] =
                 IF islandOf[c] \in failing THEN Failed(c, runtimes[islandOf[c]].inputs[c])
                 ELSE Advanced(runtimes[islandOf[c]].inputs[c])
    <3>1. islandOf[c] \in Islands /\ c \in States(islandOf[c])
      BY DEF Islands, States, Members
    <3> QED BY <1>3, <3>1 DEF Scattered, Committed
  <2> HIDE DEF failing
  <2>4. DOMAIN LogicalStates = DOMAIN islandOf \cap Stateful
    BY <2>1
  <2> QED BY <2>1, <2>2, <2>3, <2>4
<1>7. Seen' = [s \in DOMAIN Seen |->
            LET island == islandOf[Seen[s].component] IN
            [Seen[s] EXCEPT !.shown = IF island \in failing THEN <<"unavailable">>
                                      ELSE <<"available", Contract!Shown(island)>>]]
  <2>1. DOMAIN subscriptions' = DOMAIN subscriptions /\ DOMAIN received = DOMAIN subscriptions
    BY <1>1 DEF WorldInv, TypeOK
  <2>2. /\ Seen = [s \in DOMAIN subscriptions |->
                    [component |-> subscriptions[s].component, shown |-> received[s]]]
        /\ Seen' = [s \in DOMAIN subscriptions |->
                    [component |-> subscriptions'[s].component, shown |-> received'[s]]]
    BY <2>1 DEF Seen
  <2>3. ASSUME NEW s \in DOMAIN subscriptions, NEW i, i = islandOf[subscriptions[s].component]
        PROVE  /\ subscriptions'[s].component = subscriptions[s].component
               /\ received'[s] = IF i \in failing THEN <<"unavailable">>
                                 ELSE <<"available", Contract!Shown(i)>>
    <3>1. subscriptions'[s].component = subscriptions[s].component
      BY <1>1 DEF WorldInv, WorldShape
    <3>2. received'[s] = Observed(s)
      BY <1>1, <2>1 DEF WorldInv, SubscriptionsInv
    <3>3. /\ i \in Islands
          /\ Observed(s) = IF runtimes[i].status = "available"
                           THEN <<"available", runtimes[i].solution[1]>> ELSE <<"unavailable">>
      BY <1>1, <2>3, ObservedIsCurrent
    <3>4. ASSUME runtimes[i].status = "available"
          PROVE  runtimes[i].solution[1] = Contract!Shown(i)
      <4>1. runtimes[i].solution = <<[parameters |-> Current(i), inputs |-> runtimes[i].inputs]>>
        BY <1>3, <3>3, <3>4 DEF Decided
      <4>2. runtimes[i].solution[1] = [parameters |-> Current(i), inputs |-> runtimes[i].inputs]
        BY <4>1
      <4>3. runtimes[i].inputs = [c \in States(i) |-> LogicalStates[c]]
        <5>1. runtimes[i].inputs = [c \in States(i) |-> runtimes[i].inputs[c]]
          BY <1>3, <3>3 DEF Prepared
        <5>2. \A c \in States(i) : LogicalStates[c] = runtimes[i].inputs[c]
          BY <1>2 DEF LogicalStates, States, Members
        <5> QED BY <5>1, <5>2
      <4>4. States(i) = Contract!Members(i) \cap DOMAIN LogicalStates
        BY DEF States, Members, Contract!Members, LogicalStates
      <4>5. Parts(i) = Contract!Parts(i)
        BY DEF Parts, Members, Contract!Parts, Contract!Members
      <4> QED BY <4>2, <4>3, <4>4, <4>5 DEF Contract!Shown, Current
    <3> QED BY <3>1, <3>2, <3>3, <3>4
  <2> HIDE DEF failing
  <2> QED BY <2>2, <2>3
<1> HIDE DEF failing
<1> QED BY <1>1, <1>2, <1>4, <1>5, <1>6, <1>7 DEF Contract!Tick, Contract!Unassigned, Unassigned

\* Every step of the world is one of the contract, or is not visible.
LEMMA ContractStep == ASSUME WorldInv, WorldInv', [Next]_vars PROVE Contract!Next \/ Silent
<1>1. ASSUME UNCHANGED vars PROVE Silent
  <2>1. /\ UNCHANGED islandOf /\ UNCHANGED parameter /\ UNCHANGED store /\ UNCHANGED runtimes
        /\ UNCHANGED subscriptions /\ UNCHANGED received /\ UNCHANGED tick
    BY <1>1 DEF vars
  <2>2. Committing' = Committing
    BY <2>1 DEF Committing
  <2>3. LogicalStates' = LogicalStates /\ Seen' = Seen
    BY <2>1, <2>2 DEF LogicalStates, Seen, ReadLogical
  <2> QED BY <2>1, <2>2, <2>3 DEF Silent
<1>2. ASSUME Next PROVE Contract!Next \/ Silent
  BY <1>2, CallerStep, CommitStep, CommittingStep, TickStep
  DEF Next, Pass, EndOfPass, Contract!Next
<1> QED BY <1>1, <1>2

\* To its users a tick is one step, in every world: the passes over the islands,
\* the rows that islands share and the updates that are not sent again are not
\* visible.
THEOREM TickIsAtomic == Spec => TicksAreAtomic
<1>1. Init => Contract!Init
  <2> SUFFICES ASSUME Init PROVE Contract!Init
    OBVIOUS
  <2>1. DOMAIN islandOf = {} /\ DOMAIN subscriptions = {}
    BY DEF Init
  <2>2. LogicalStates = << >> /\ Seen = << >>
    BY <2>1 DEF LogicalStates, Seen
  <2> QED BY <2>2 DEF Init, Contract!Init, Committing, Idle
<1>2. WorldInv /\ WorldInv' /\ [Next]_vars => [Contract!Next]_(Contract!vars)
  BY ContractStep DEF Silent, Contract!vars
<1> QED BY <1>1, <1>2, WorldInvariance, PTL DEF Spec, TicksAreAtomic, Contract!Spec

=============================================================================
