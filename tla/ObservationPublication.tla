----------------------- MODULE ObservationPublication -----------------------
(***************************************************************************)
(* Observations from the native tick to the listeners (ElectricalSystem,   *)
(* ObservationSubscriptionRegistry, SubscriptionRecordBuffer and the tick  *)
(* and subscription calls of ElectricalWorld, over hynergy_world_tick,     *)
(* hynergy_world_subscribe_observer and hynergy_world_unsubscribe).        *)
(*                                                                         *)
(* A system is used by one thread, so a call is one step, except a tick:   *)
(* it calls the native tick once or twice and then every listener, and a   *)
(* listener may call the system again.  Device IDs are handed out and      *)
(* batches encoded as ElectricalWorld.tla says; here a batch is the set of *)
(* devices it adds and removes.  A native call may fail or panic, and so   *)
(* may an allocation: such a step sets faulty, a history variable.         *)
(***************************************************************************)
EXTENDS Naturals, Sequences, FiniteSets, SequencesExt

CONSTANTS
    Devices,            \* device IDs, reused after a removal was applied
    Values,             \* what an observer that is available may show
    MaxSubscriptions,   \* the last subscription ID, 2^32-1 in the code
    FirstCapacity,      \* 8 in the code
    MaxCapacity         \* the largest int, 2^31-1

ASSUME BoundsAssumption ==
    /\ MaxSubscriptions \in Nat
    /\ FirstCapacity \in Nat \ {0} /\ MaxCapacity \in Nat /\ FirstCapacity <= MaxCapacity

Unavailable == "unavailable"
Nothing == "nothing"
Shown == Values \cup {Unavailable}
ASSUME ValuesAssumption == Values \cap {Unavailable, Nothing} = {}

Ids == 1..MaxSubscriptions

VARIABLES
    native,        \* the native world: its devices and subscriptions
    batch,         \* devices of the adds and the removes not applied yet
    subscriptions, \* ObservationSubscriptionRegistry.subscriptions
    deferred,      \* deferredRemovals
    capacity,      \* of the SubscriptionRecordBuffer
    tick,          \* where the tick is, whether it resized, the records left
    poisoned,      \* the system is unusable
    worldPoisoned, \* the world is unusable
    closed,
    seen,          \* history: what each listener was told last
    faulty         \* history: a native call or an allocation failed

vars == <<native, batch, subscriptions, deferred, capacity, tick, poisoned, worldPoisoned,
          closed, seen, faulty>>


IsPartial(f, S, T) == DOMAIN f \subseteq S /\ \A x \in DOMAIN f : f[x] \in T
NativeSubscription == [device : Devices, published : Shown \cup {Nothing}]

TypeOK ==
    /\ native.devices \subseteq Devices
    /\ IsPartial(native.subscriptions, Ids, NativeSubscription)
    /\ native.nextId \in 1..(MaxSubscriptions + 1)
    /\ native.shown \in [Devices -> Shown]
    /\ batch \in [adds : SUBSET Devices, removes : SUBSET Devices]
    /\ IsPartial(subscriptions, Ids, [device : Devices, active : BOOLEAN])
    /\ deferred \in Seq(Ids)
    /\ capacity \in 0..MaxCapacity
    /\ tick.phase \in {"idle", "native", "publishing", "callback"}
    /\ tick.resized \in BOOLEAN
    /\ IsPartial(tick.records, Ids, Shown)
    /\ {poisoned, worldPoisoned, closed, faulty} \subseteq BOOLEAN
    /\ seen \in [Ids -> Shown \cup {Nothing}]

NoBatch == [adds |-> {}, removes |-> {}]
NoneOf == [id \in {} |-> Nothing]
Idle == [phase |-> "idle", resized |-> FALSE, records |-> NoneOf]

Init ==
    /\ native = [devices |-> {}, subscriptions |-> NoneOf, nextId |-> 1,
                 shown |-> [d \in Devices |-> Unavailable]]
    /\ batch = NoBatch
    /\ subscriptions = NoneOf
    /\ deferred = << >>
    /\ capacity = 0
    /\ tick = Idle
    /\ poisoned = FALSE /\ worldPoisoned = FALSE /\ closed = FALSE /\ faulty = FALSE
    /\ seen = [id \in Ids |-> Nothing]

Without(f, S) == Restrict(f, DOMAIN f \ S)
With(f, x, y) == [z \in DOMAIN f \cup {x} |-> IF z = x THEN y ELSE f[z]]

\* The user may call: between ticks, or from a listener.
Callable ==
    /\ ~closed /\ ~poisoned /\ ~worldPoisoned
    /\ tick.phase \in {"idle", "callback"}
Publishing == tick.phase \in {"publishing", "callback"}

Usable(d) == d \in (native.devices \cup batch.adds) \ batch.removes
Active(id) == id \in DOMAIN subscriptions /\ subscriptions[id].active

-----------------------------------------------------------------------------
(* The native world.                                                       *)

\* Mutant: a removed device keeps its subscriptions.
ApplyCommandsOnly(n) == [n EXCEPT !.devices = (@ \cup batch.adds) \ batch.removes]

\* A batch is applied; SubscriptionRegistry::remove_device for each removal.
ApplyCommands(n) ==
    [n EXCEPT !.devices = (@ \cup batch.adds) \ batch.removes,
              !.subscriptions = Without(@, {id \in DOMAIN @ : @[id].device \in batch.removes})]

IdsLeftTooLong(n) == n.nextId <= MaxSubscriptions + 1   \* mutant

\* next_id becomes None after the last ID; no ID is used twice.
IdsLeft(n) == n.nextId <= MaxSubscriptions

Insert(n, d) ==
    [n EXCEPT !.subscriptions = With(@, n.nextId, [device |-> d, published |-> Nothing]),
              !.nextId = @ + 1]

Erase(n, id) == [n EXCEPT !.subscriptions = Without(@, {id})]

\* The native calls: their codes, and the world they leave.  Any observer may
\* be asked for.
NativeSubscribe(n, d) ==
    { [code |-> "InternalPanic", world |-> n],
      [code |-> "UnknownObserver", world |-> n],
      IF d \notin n.devices THEN [code |-> "UnknownDevice", world |-> n]
      ELSE IF IdsLeft(n) THEN [code |-> "Success", world |-> Insert(n, d)]
      ELSE [code |-> "IdExhausted", world |-> n] }
NativeUnsubscribe(n, id) ==
    { [code |-> "InternalPanic", world |-> n],
      [code |-> IF id \in DOMAIN n.subscriptions THEN "Success" ELSE "UnknownSubscription",
       world |-> Erase(n, id)] }


\* The count that the record buffer must hold.
Required(n) == Cardinality(DOMAIN n.subscriptions)

\* Whose record differs from the last one (collect_subscription_updates).
Changed(n, shown) ==
    {id \in DOMAIN n.subscriptions :
        n.subscriptions[id].published # shown[n.subscriptions[id].device]}

\* A tick: what the observers show now, and what is published.
Advance(n, shown) ==
    [n EXCEPT !.shown = shown,
              !.subscriptions = [id \in DOMAIN @ |->
                  [device |-> @[id].device, published |-> shown[@[id].device]]]]

Records(n, shown) == [id \in Changed(n, shown) |-> shown[n.subscriptions[id].device]]

-----------------------------------------------------------------------------
(* Java: the tick.                                                         *)

\* Commands could not be applied: the world is poisoned.
ApplyFails ==
    /\ batch # NoBatch
    /\ worldPoisoned' = TRUE /\ faulty' = TRUE
    /\ UNCHANGED <<native, batch, subscriptions, deferred, capacity, poisoned, closed, seen>>

\* tick applies the commands; a call from a listener is refused.
BeginTick ==
    /\ ~closed /\ ~poisoned /\ ~worldPoisoned
    /\ tick.phase = "idle"
    /\ \/ /\ native' = ApplyCommands(native)
          /\ batch' = NoBatch
          /\ tick' = [tick EXCEPT !.phase = "native"]
          /\ UNCHANGED <<subscriptions, deferred, capacity, poisoned, worldPoisoned, closed,
                         seen, faulty>>
       \/ ApplyFails /\ UNCHANGED tick

GrowOnce(current, required) ==   \* mutant
    current + current \div 2

\* growCapacity: by halves, unless that would overflow or not grow.
GrowCapacity(current, required) ==
    LET grow[c \in 1..MaxCapacity] ==
            LET next == c + c \div 2 IN
            IF c >= required THEN c
            ELSE IF next <= c \/ next > MaxCapacity THEN required ELSE grow[next]
    IN  grow[IF current < FirstCapacity THEN FirstCapacity ELSE current]

\* Mutant: the world advances before the capacity is looked at.
TickTooSmallAdvances ==
    \E shown \in [Devices -> Shown] :
        /\ tick.phase = "native"
        /\ Required(native) > capacity
        /\ native' = Advance(native, shown)
        /\ IF Required(native) <= MaxCapacity
           THEN capacity' = Required(native) /\ UNCHANGED tick
           ELSE tick' = Idle /\ UNCHANGED capacity
        /\ UNCHANGED <<batch, subscriptions, deferred, poisoned, worldPoisoned, closed, seen,
                       faulty>>

\* BUFFER_TOO_SMALL, after which the native tick is called once more.
TickTooSmall ==
    LET required == Required(native) IN
    /\ tick.phase = "native"
    /\ required > capacity
    /\ worldPoisoned' = tick.resized   \* "still requires a larger subscription buffer"
    /\ IF tick.resized \/ required > MaxCapacity
       THEN tick' = Idle /\ UNCHANGED <<capacity, faulty>>
       ELSE \/ /\ capacity' = GrowCapacity(capacity, required)
               /\ tick' = [tick EXCEPT !.resized = TRUE]
               /\ UNCHANGED faulty
            \/ tick' = Idle /\ faulty' = TRUE /\ UNCHANGED capacity   \* allocation fails
    /\ UNCHANGED <<native, batch, subscriptions, deferred, poisoned, closed, seen>>

\* The native tick succeeds; publication begins if there is a record.
TickSucceeds ==
    \E shown \in [Devices -> Shown] :
        /\ tick.phase = "native"
        /\ Required(native) <= capacity
        /\ native' = Advance(native, shown)
        /\ tick' = IF Changed(native, shown) = {} THEN Idle
                   ELSE [tick EXCEPT !.phase = "publishing", !.records = Records(native, shown)]
        /\ UNCHANGED <<batch, subscriptions, deferred, capacity, poisoned, worldPoisoned, closed,
                       seen, faulty>>

\* Every other code, and a failing downcall.
TickFails ==
    /\ tick.phase = "native"
    /\ worldPoisoned' = TRUE /\ faulty' = TRUE
    /\ tick' = Idle
    /\ UNCHANGED <<native, batch, subscriptions, deferred, capacity, poisoned, closed, seen>>

-----------------------------------------------------------------------------
(* Java: the publication.                                                  *)

NextId == CHOOSE id \in DOMAIN tick.records : \A other \in DOMAIN tick.records : id <= other

\* The next record calls its listener, active or not; a record of an unknown
\* subscription poisons the system and ends the publication.
Deliver ==
    /\ tick.phase = "publishing" /\ tick.records # NoneOf
    /\ IF NextId \in DOMAIN subscriptions
       THEN /\ seen' = [seen EXCEPT ![NextId] = tick.records[NextId]]
            /\ tick' = [tick EXCEPT !.phase = "callback", !.records = Without(@, {NextId})]
            /\ UNCHANGED poisoned
       ELSE /\ poisoned' = TRUE
            /\ tick' = [tick EXCEPT !.records = NoneOf]
            /\ UNCHANGED seen
    /\ UNCHANGED <<native, batch, subscriptions, deferred, capacity, worldPoisoned, closed, faulty>>

\* The listener returned or threw; the exception waits for the end.
ListenerEnds ==
    /\ tick.phase = "callback"
    /\ tick' = [tick EXCEPT !.phase = "publishing"]
    /\ UNCHANGED <<native, batch, subscriptions, deferred, capacity, poisoned, worldPoisoned,
                   closed, seen, faulty>>

\* Mutant: what was deferred is forgotten.
ForgetDeferred ==
    /\ tick.phase = "publishing" /\ tick.records = NoneOf
    /\ deferred' = << >>
    /\ tick' = Idle
    /\ UNCHANGED <<native, batch, subscriptions, poisoned, capacity, worldPoisoned, closed, seen,
                   faulty>>

\* endPublication; a deferred removal that is missing or active again ends it
\* and poisons the system.
EndPublication ==
    LET Sound(i) == deferred[i] \in DOMAIN subscriptions \ {deferred[j] : j \in 1..(i - 1)}
                    /\ ~Active(deferred[i])
        removed == {deferred[i] : i \in {j \in DOMAIN deferred : \A k \in 1..j : Sound(k)}}
    IN
    /\ tick.phase = "publishing" /\ tick.records = NoneOf
    /\ subscriptions' = Without(subscriptions, removed)
    /\ poisoned' = (poisoned \/ \E i \in DOMAIN deferred : ~Sound(i))
    /\ deferred' = << >>
    /\ tick' = Idle
    /\ UNCHANGED <<native, batch, capacity, worldPoisoned, closed, seen, faulty>>

-----------------------------------------------------------------------------
(* Java: the other calls of a system.                                      *)

CreateDevice(d) ==
    /\ Callable
    /\ d \notin native.devices \cup batch.adds
    /\ batch' = [batch EXCEPT !.adds = @ \cup {d}]
    /\ UNCHANGED <<native, subscriptions, deferred, capacity, tick, poisoned, worldPoisoned,
                   closed, seen, faulty>>

\* Mutant: the registry removes at once, though records are left.
DeactivateAndRemove(ids) ==
    /\ subscriptions' = Without(subscriptions, ids)
    /\ UNCHANGED deferred

\* What remove and invalidateDevice do to the subscriptions they end, in any
\* order of the map: while records are published only their removal waits.
Deactivate(ids) ==
    IF Publishing
    THEN /\ subscriptions' = [id \in DOMAIN subscriptions |->
                [subscriptions[id] EXCEPT !.active = @ /\ id \notin ids]]
         /\ \E order \in SetToSeqs(ids) : deferred' = deferred \o order
    ELSE subscriptions' = Without(subscriptions, ids) /\ UNCHANGED deferred

\* The list of deferred removals could not grow.
DeactivateFails(ids) ==
    /\ Publishing
    /\ \E id \in ids, done \in SUBSET ids :
        /\ id \notin done
        /\ subscriptions' = [i \in DOMAIN subscriptions |->
                [subscriptions[i] EXCEPT !.active = @ /\ i \notin done \cup {id}]]
        /\ \E order \in SetToSeqs(done) : deferred' = deferred \o order
    /\ poisoned' = TRUE /\ faulty' = TRUE

RemoveDevice(d) ==
    LET ended == {id \in DOMAIN subscriptions : Active(id) /\ subscriptions[id].device = d} IN
    /\ Callable
    /\ Usable(d)
    /\ batch' = [batch EXCEPT !.removes = @ \cup {d}]
    /\ \/ Deactivate(ended) /\ UNCHANGED <<poisoned, faulty>>
       \/ DeactivateFails(ended)
    /\ UNCHANGED <<native, capacity, tick, worldPoisoned, closed, seen>>

\* handleSubscriptionFailure.
HandleSubscriptionFailure(code) ==
    /\ worldPoisoned' = (code = "InternalPanic")
    /\ faulty' = (faulty \/ code = "InternalPanic")

\* The registry could not grow, and the native subscription is rolled back.
RollBackSubscription(n, id) ==
    /\ faulty' = TRUE
    /\ \/ native' = Erase(n, id) /\ UNCHANGED <<poisoned, worldPoisoned>>
       \/ native' = n /\ poisoned' = TRUE /\ worldPoisoned' = TRUE

\* subscribe applies the commands, so a device just created is known.
Subscribe(d) ==
    /\ Callable
    /\ Usable(d)
    /\ batch' = NoBatch
    /\ \E result \in NativeSubscribe(ApplyCommands(native), d) :
        LET id == result.world.nextId - 1 IN
        \/ /\ result.code = "Success"
           /\ native' = result.world
           /\ subscriptions' = With(subscriptions, id, [device |-> d, active |-> TRUE])
           /\ UNCHANGED <<poisoned, worldPoisoned, faulty>>
        \/ /\ result.code = "Success"
           /\ RollBackSubscription(result.world, id)
           /\ UNCHANGED subscriptions
        \/ /\ result.code # "Success"
           /\ native' = result.world
           /\ HandleSubscriptionFailure(result.code)
           /\ UNCHANGED <<subscriptions, poisoned>>
    /\ UNCHANGED <<deferred, capacity, tick, closed, seen>>

\* unsubscribe of an inactive subscription has no effect; one the native world
\* does not know of is an ownership consistency failure.
Unsubscribe(id) ==
    /\ Callable
    /\ Active(id)
    /\ batch' = NoBatch
    /\ \E result \in NativeUnsubscribe(ApplyCommands(native), id) :
        /\ native' = result.world
        /\ \/ /\ result.code = "Success"
              /\ \/ Deactivate({id}) /\ UNCHANGED <<poisoned, faulty>>
                 \/ DeactivateFails({id})
              /\ UNCHANGED worldPoisoned
           \/ /\ result.code # "Success"
              /\ HandleSubscriptionFailure(result.code)
              /\ poisoned' = (result.code = "UnknownSubscription")
              /\ UNCHANGED <<subscriptions, deferred>>
    /\ UNCHANGED <<capacity, tick, closed, seen>>

\* subscribe and unsubscribe, when the commands cannot be applied.
CallFailsToApply ==
    /\ Callable
    /\ ApplyFails
    /\ UNCHANGED tick

\* close during a tick is refused; the world may fail to close.
Close ==
    /\ ~closed
    /\ tick.phase = "idle"
    /\ \/ /\ closed' = TRUE
          /\ subscriptions' = NoneOf /\ deferred' = << >>
          /\ UNCHANGED <<poisoned, faulty>>
       \/ /\ poisoned' = TRUE /\ faulty' = TRUE
          /\ UNCHANGED <<subscriptions, deferred, closed>>
    /\ UNCHANGED <<native, batch, capacity, tick, worldPoisoned, seen>>

-----------------------------------------------------------------------------

Next ==
    \/ BeginTick \/ TickTooSmall \/ TickSucceeds \/ TickFails
    \/ Deliver \/ ListenerEnds \/ EndPublication
    \/ \E d \in Devices : CreateDevice(d) \/ RemoveDevice(d) \/ Subscribe(d)
    \/ \E id \in Ids : Unsubscribe(id)
    \/ CallFailsToApply \/ Close

Spec == Init /\ [][Next]_vars

-----------------------------------------------------------------------------
(* Properties.                                                             *)

Sound == ~closed /\ ~poisoned /\ ~worldPoisoned

\* Whatever listeners do to the system while the records of a tick are
\* published, each record finds its subscription with its listener
\* ("A completed tick can still contain a record for a subscription that
\* becomes inactive during publication").
RecordsFindTheirListener ==
    Publishing => DOMAIN tick.records \subseteq DOMAIN subscriptions

\* Between ticks every listener knows what the native world last published
\* for it, and that is what its observer shows: no update is lost, not by a
\* tick that is called again with a larger buffer, nor by one that gave up.
UpdatesReachListeners ==
    Sound /\ tick.phase = "idle" =>
        \A id \in DOMAIN subscriptions :
            LET subscription == native.subscriptions[id] IN
            /\ seen[id] = subscription.published
            /\ seen[id] # Nothing => seen[id] = native.shown[subscription.device]

\* A subscription is active exactly while the native world has it for the
\* same device and no removal of the device is pending, so a removed device
\* or an ended subscription is never heard of in a later tick.
ActiveIsSubscribed ==
    Sound =>
        {<<id, subscriptions[id].device>> : id \in {i \in DOMAIN subscriptions : Active(i)}}
        = {<<id, native.subscriptions[id].device>> :
            id \in {i \in DOMAIN native.subscriptions :
                        native.subscriptions[i].device \notin batch.removes}}

\* Outside a publication nothing inactive is kept, so a listener that was
\* ended can be collected (endPublication).
EndedListenersAreReleased ==
    ~Publishing =>
        /\ deferred = << >>
        /\ ~poisoned => \A id \in DOMAIN subscriptions : Active(id)

\* No sequence of calls, from listeners or between ticks, makes a system
\* unusable by itself: something it relies on must have failed.
OnlyFaultsPoison == poisoned \/ worldPoisoned => faulty

\* The registry of the listeners and the native subscriptions agree while
\* listeners change both between two records, and each record finds its listener.
SubscriptionsAgree ==
    /\ TypeOK
    /\ RecordsFindTheirListener
    /\ ActiveIsSubscribed
=============================================================================
