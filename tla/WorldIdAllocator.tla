------------------------- MODULE WorldIdAllocator -------------------------
(***************************************************************************)
(* The ID allocator an ElectricalWorld keeps for its wires and another one *)
(* for its devices (WorldIdAllocator.java).  IDs are reused: a slot keeps  *)
(* a generation that every reuse increments, so that a handle to an object *)
(* that was removed is told from one to the object that now has its ID.    *)
(*                                                                         *)
(* An allocator is a value here, as it is a plain object in the code, and  *)
(* the operators are its methods: each returns the allocator after the     *)
(* call.  A method that throws is one whose "Can..." guard is false; the   *)
(* guards are the code's own checks.  Array growth is not modelled.        *)
(*                                                                         *)
(* The free pool is a stack in the code and a set here: reserve may take   *)
(* any pooled ID, so what holds of these operators holds whatever the      *)
(* order of the pool.                                                      *)
(***************************************************************************)
EXTENDS Integers, Sequences

CONSTANTS
    MaxId,        \* MAX_ID, 2^31-1 in the code
    Generations   \* how many values a generation has, 2^32 in the code

ASSUME MaxIdAssumption == MaxId \in Nat \ {0}
ASSUME GenerationsAssumption == Generations \in Nat /\ Generations > 1

Ids == 1..MaxId
Generation == 0..(Generations - 1)   \* -1 in the code is Generations - 1 here

States == {"UNUSED", "FREE", "LIVE", "PENDING_ADD", "PENDING_REMOVE",
           "PENDING_ADD_REMOVE", "RETIRED"}
PendingStates == {"PENDING_ADD", "PENDING_REMOVE", "PENDING_ADD_REMOVE"}

Allocator ==
    [ states : [Ids -> States],
      generations : [Ids -> Generation],
      freeIds : SUBSET Ids,
      pendingIds : Seq(Ids),
      highWaterMark : 0..MaxId,
      committedHighWaterMark : 0..MaxId ]

NewAllocator ==
    [ states |-> [id \in Ids |-> "UNUSED"],
      generations |-> [id \in Ids |-> 0],
      freeIds |-> {},
      pendingIds |-> << >>,
      highWaterMark |-> 0,
      committedHighWaterMark |-> 0 ]

-----------------------------------------------------------------------------
(* reserve.  A pooled ID whose generation would wrap to zero is retired    *)
(* when it is met; IDs are met until one can be reused, or the pool is     *)
(* empty and the ID above the high-water mark is taken.                    *)

NextGenerationUnwrapped(a, id) == a.generations[id] + 1   \* mutant

NextGeneration(a, id) == (a.generations[id] + 1) % Generations

Reusable(a) == {id \in a.freeIds : a.states[id] = "FREE" /\ NextGeneration(a, id) # 0}
Exhausted(a) == {id \in a.freeIds : a.states[id] = "FREE" /\ NextGeneration(a, id) = 0}

\* The allocator after the IDs of met, all exhausted, were met and retired.
Retire(a, met) ==
    [a EXCEPT !.freeIds = @ \ met,
              !.states = [id \in Ids |-> IF id \in met THEN "RETIRED" ELSE a.states[id]]]

\* Mutant: a reused ID keeps its generation.
ReserveSameGeneration(a, id, generation) ==
    [a EXCEPT !.freeIds = @ \ {id},
              !.generations[id] = IF @ = 0 THEN generation ELSE @,
              !.states[id] = "PENDING_ADD",
              !.pendingIds = Append(@, id)]

Reserve(a, id, generation) ==
    [a EXCEPT !.freeIds = @ \ {id},
              !.generations[id] = generation,
              !.states[id] = "PENDING_ADD",
              !.pendingIds = Append(@, id)]

RaiseHighWaterMark(a, id) == [a EXCEPT !.highWaterMark = id]

\* The pairs of a reserved ID and the allocator after the call.
ReuseReservations(a) ==
    {[id |-> id, allocator |-> Reserve(Retire(a, met), id, NextGeneration(a, id))] :
        id \in Reusable(a), met \in SUBSET Exhausted(a)}

FreshReservations(a) ==
    {[id |-> id, allocator |->
        RaiseHighWaterMark(Reserve(Retire(a, Exhausted(a)), id, 1), id)] :
        id \in {i \in Ids : /\ Reusable(a) = {}
                            /\ i = a.highWaterMark + 1
                            /\ a.states[i] = "UNUSED"
                            /\ a.generations[i] = 0}}

Reservations(a) == ReuseReservations(a) \cup FreshReservations(a)

\* reserve throws with the ID space exhausted, the pool already walked.
IdSpaceExhausted(a) == a.highWaterMark = MaxId /\ Reusable(a) = {}

-----------------------------------------------------------------------------
(* The checks a handle passes.                                             *)

IsCurrent(a, id, generation) ==
    /\ id \in 1..a.highWaterMark
    /\ a.states[id] # "UNUSED"
    /\ a.generations[id] = generation

IsUsable(a, id, generation) ==
    IsCurrent(a, id, generation) /\ a.states[id] \in {"LIVE", "PENDING_ADD"}

-----------------------------------------------------------------------------
(* remove and the two cancellations.                                       *)

\* The states remove accepts are the usable ones.
CanRemove(a, id, generation) == IsUsable(a, id, generation)

Remove(a, id) ==
    IF a.states[id] = "LIVE"
    THEN [a EXCEPT !.states[id] = "PENDING_REMOVE", !.pendingIds = Append(@, id)]
    ELSE [a EXCEPT !.states[id] = "PENDING_ADD_REMOVE"]

IsLastPending(a, id) ==
    a.pendingIds # << >> /\ a.pendingIds[Len(a.pendingIds)] = id

WithoutLastPending(a) == SubSeq(a.pendingIds, 1, Len(a.pendingIds) - 1)

\* Mutant: also a reused ID must be the highest.
CanCancelHighestAdd(a, id, generation) ==
    /\ IsCurrent(a, id, generation)
    /\ a.states[id] = "PENDING_ADD"
    /\ IsLastPending(a, id)
    /\ id = a.highWaterMark

CanCancelPendingAdd(a, id, generation) ==
    /\ IsCurrent(a, id, generation)
    /\ a.states[id] = "PENDING_ADD"
    /\ IsLastPending(a, id)
    /\ id > a.committedHighWaterMark => id = a.highWaterMark

\* Mutant: a fresh ID stays below the high-water mark.
CancelAddKeepingMark(a, id) ==
    [a EXCEPT !.pendingIds = WithoutLastPending(a),
              !.states[id] = IF id > a.committedHighWaterMark THEN "UNUSED" ELSE "FREE",
              !.generations[id] = IF id > a.committedHighWaterMark THEN 0 ELSE @,
              !.freeIds = IF id > a.committedHighWaterMark THEN @ ELSE @ \cup {id}]

CancelPendingAdd(a, id) ==
    IF id > a.committedHighWaterMark
    THEN [a EXCEPT !.pendingIds = WithoutLastPending(a),
                   !.states[id] = "UNUSED",
                   !.generations[id] = 0,
                   !.highWaterMark = @ - 1]
    ELSE [a EXCEPT !.pendingIds = WithoutLastPending(a),
                   !.states[id] = "FREE",
                   !.freeIds = @ \cup {id}]

CanCancelPendingRemove(a, id, generation) ==
    /\ IsCurrent(a, id, generation)
    /\ \/ a.states[id] = "PENDING_REMOVE" /\ IsLastPending(a, id)
       \/ a.states[id] = "PENDING_ADD_REMOVE"

CancelPendingRemove(a, id) ==
    IF a.states[id] = "PENDING_REMOVE"
    THEN [a EXCEPT !.pendingIds = WithoutLastPending(a), !.states[id] = "LIVE"]
    ELSE [a EXCEPT !.states[id] = "PENDING_ADD"]

-----------------------------------------------------------------------------
(* The commit of a batch the native world accepted.                        *)

Pending(a) == {a.pendingIds[i] : i \in DOMAIN a.pendingIds}

CanCommitBatch(a) == \A id \in Pending(a) : a.states[id] \in PendingStates

Released(a) == {id \in Pending(a) : a.states[id] \in {"PENDING_REMOVE", "PENDING_ADD_REMOVE"}}

\* Mutant: what was added and removed in one batch becomes live.
CommittedUnlessRemoved(a, id) ==
    IF a.states[id] # "PENDING_REMOVE" THEN "LIVE"
    ELSE IF a.generations[id] = Generations - 1 THEN "RETIRED"
    ELSE "FREE"

\* The state of a pending ID after the commit: an object is live or gone,
\* and an ID at its last generation is never given out again.
Committed(a, id) ==
    IF a.states[id] = "PENDING_ADD" THEN "LIVE"
    ELSE IF a.generations[id] = Generations - 1 THEN "RETIRED"
    ELSE "FREE"

CommitBatch(a) ==
    [a EXCEPT !.states = [id \in Ids |-> IF id \in Pending(a) THEN Committed(a, id) ELSE @[id]],
              !.freeIds = @ \cup {id \in Released(a) : Committed(a, id) = "FREE"},
              !.pendingIds = << >>,
              !.committedHighWaterMark = a.highWaterMark]

-----------------------------------------------------------------------------
(* What the IllegalStateExceptions of the allocator say never happens is   *)
(* that this is false between calls: the pool holds the free IDs and no    *)
(* other, slots above the high-water mark are untouched, the pending list  *)
(* names each pending ID once, and an ID above the committed high-water    *)
(* mark was added by the current batch.                                    *)
Consistent(a) ==
    /\ a.committedHighWaterMark <= a.highWaterMark
    /\ \A id \in Ids :
        /\ a.states[id] = "UNUSED" <=> id > a.highWaterMark
        /\ a.states[id] = "UNUSED" <=> a.generations[id] = 0
        /\ id \in a.freeIds <=> a.states[id] = "FREE"
        /\ id \in Pending(a) <=> a.states[id] \in PendingStates
        /\ id \in (a.committedHighWaterMark + 1)..a.highWaterMark =>
             a.states[id] \in {"PENDING_ADD", "PENDING_ADD_REMOVE"}
    /\ \A i, j \in DOMAIN a.pendingIds : a.pendingIds[i] = a.pendingIds[j] => i = j
=============================================================================
