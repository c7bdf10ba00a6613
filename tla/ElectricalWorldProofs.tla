----------------------- MODULE ElectricalWorldProofs -----------------------
(***************************************************************************)
(* For every number of IDs, generations and buffered commands: the native  *)
(* world never rejects a command because of an ID, Java and native state   *)
(* agree between batches, and handles keep their promise.                  *)
(***************************************************************************)
EXTENDS ElectricalWorld, SequenceTheorems, TLAPS

(***************************************************************************)
(* The ID allocator: what its methods return.  Each keeps the allocator    *)
(* well typed and consistent, and changes the slots it says and no other.  *)
(***************************************************************************)

\* Appending to a sequence and taking the last element off again.
LEMMA AppendFacts ==
    ASSUME NEW S, NEW s \in Seq(S), NEW e \in S
    PROVE  /\ Append(s, e) \in Seq(S)
           /\ DOMAIN s = 1..Len(s)
           /\ DOMAIN Append(s, e) = 1..(Len(s) + 1)
           /\ Len(Append(s, e)) = Len(s) + 1
           /\ Len(s) \in Nat
           /\ Append(s, e) # << >>
           /\ Append(s, e)[Len(s) + 1] = e
           /\ \A i \in 1..Len(s) : Append(s, e)[i] = s[i]
           /\ SubSeq(Append(s, e), 1, Len(s)) = s
<1>1. /\ Append(s, e) \in Seq(S)
      /\ Len(Append(s, e)) = Len(s) + 1
      /\ Append(s, e) # << >>
      /\ Len(s) \in Nat
      /\ Append(s, e)[Len(s) + 1] = e
      /\ \A i \in 1..Len(s) : Append(s, e)[i] = s[i]
      /\ DOMAIN s = 1..Len(s)
  BY AppendProperties, LenProperties
<1>2. DOMAIN Append(s, e) = 1..(Len(s) + 1)
  BY <1>1, LenProperties
<1>3. SubSeq(Append(s, e), 1, Len(s)) = s
  BY <1>1, SubSeqProperties, SeqEqual
<1> QED BY <1>1, <1>2, <1>3

\* A pending list that names each ID once still does when another one joins.
LEMMA PendingAppend ==
    ASSUME NEW a, a.pendingIds \in Seq(Ids), NEW id \in Ids, NEW b,
           b.pendingIds = Append(a.pendingIds, id)
    PROVE  /\ Pending(b) = Pending(a) \cup {id}
           /\ ( /\ id \notin Pending(a)
                /\ \A i, j \in DOMAIN a.pendingIds : a.pendingIds[i] = a.pendingIds[j] => i = j )
              => \A i, j \in DOMAIN b.pendingIds : b.pendingIds[i] = b.pendingIds[j] => i = j
<1> DEFINE s == a.pendingIds
           t == b.pendingIds
           n == Len(s)
<1>1. /\ DOMAIN s = 1..n /\ DOMAIN t = 1..(n + 1) /\ n \in Nat
      /\ t[n + 1] = id
      /\ \A i \in 1..n : t[i] = s[i]
  BY AppendFacts
<1>2. 1..(n + 1) = (1..n) \cup {n + 1}
  BY <1>1
<1> HIDE DEF s, t, n
<1>3. {t[i] : i \in DOMAIN t} = {s[i] : i \in DOMAIN s} \cup {id}
  BY <1>1, <1>2
<1>4. ASSUME id \notin {s[i] : i \in DOMAIN s},
             \A i, j \in DOMAIN s : s[i] = s[j] => i = j,
             NEW i \in DOMAIN t, NEW j \in DOMAIN t, t[i] = t[j]
      PROVE  i = j
  BY <1>1, <1>2, <1>4
<1> QED BY <1>3, <1>4 DEF Pending, s, t

-----------------------------------------------------------------------------
\* A new allocator is consistent.
LEMMA NewAllocatorConsistent ==
    NewAllocator \in Allocator /\ Consistent(NewAllocator)
BY MaxIdAssumption, GenerationsAssumption, EmptySeq
   DEF NewAllocator, Allocator, Consistent, Ids, Generation, States, Pending, PendingStates

\* Retiring exhausted pool members changes nothing else.
LEMMA RetireProperties ==
    ASSUME NEW a \in Allocator, Consistent(a), NEW met \in SUBSET Exhausted(a)
    PROVE  /\ Retire(a, met) \in Allocator
           /\ Consistent(Retire(a, met))
           /\ Retire(a, met).states = [id \in Ids |-> IF id \in met THEN "RETIRED" ELSE a.states[id]]
           /\ \A id \in met : id \in Ids /\ a.states[id] = "FREE"
           /\ Retire(a, met).freeIds = a.freeIds \ met
           /\ Retire(a, met).generations = a.generations
           /\ Retire(a, met).pendingIds = a.pendingIds
           /\ Retire(a, met).highWaterMark = a.highWaterMark
           /\ Retire(a, met).committedHighWaterMark = a.committedHighWaterMark
<1> DEFINE b == Retire(a, met)
<1>1. \A id \in met : id \in Ids /\ a.states[id] = "FREE"
  BY DEF Exhausted, Allocator
<1>2. /\ b.states = [id \in Ids |-> IF id \in met THEN "RETIRED" ELSE a.states[id]]
      /\ b.freeIds = a.freeIds \ met
      /\ b.generations = a.generations
      /\ b.pendingIds = a.pendingIds
      /\ b.highWaterMark = a.highWaterMark
      /\ b.committedHighWaterMark = a.committedHighWaterMark
  BY DEF Retire, Allocator
<1>3. b \in Allocator
  BY <1>1, <1>2 DEF Retire, Allocator, States
<1>4. Consistent(b)
  BY <1>1, <1>2 DEF Consistent, Pending, PendingStates, Allocator
<1> QED BY <1>1, <1>2, <1>3, <1>4

\* Reserving an ID that is free, or the one above the high-water mark.
LEMMA ReserveProperties ==
    ASSUME NEW a \in Allocator, NEW id \in Ids, NEW generation \in Generation
    PROVE  LET b == Reserve(a, id, generation) IN
           /\ b \in Allocator
           /\ b.states = [a.states EXCEPT ![id] = "PENDING_ADD"]
           /\ b.generations = [a.generations EXCEPT ![id] = generation]
           /\ b.freeIds = a.freeIds \ {id}
           /\ b.pendingIds = Append(a.pendingIds, id)
           /\ b.highWaterMark = a.highWaterMark
           /\ b.committedHighWaterMark = a.committedHighWaterMark
BY AppendFacts DEF Reserve, Allocator, States

\* Moving the high-water mark changes nothing else.
LEMMA RaiseProperties ==
    ASSUME NEW a \in Allocator, NEW id \in Ids
    PROVE  LET b == RaiseHighWaterMark(a, id) IN
           /\ b \in Allocator
           /\ b.states = a.states
           /\ b.generations = a.generations
           /\ b.freeIds = a.freeIds
           /\ b.pendingIds = a.pendingIds
           /\ b.highWaterMark = id
           /\ b.committedHighWaterMark = a.committedHighWaterMark
BY MaxIdAssumption DEF RaiseHighWaterMark, Allocator, Ids

\* What every reservation does, as seen by its caller.
Reserved(a, r) ==
    LET b == r.allocator IN
    /\ r.id \in Ids
    /\ b.states[r.id] = "PENDING_ADD"
    /\ a.states[r.id] \in {"FREE", "UNUSED"}
    /\ \A id \in Ids \ {r.id} :
        /\ b.generations[id] = a.generations[id]
        /\ b.states[id] = a.states[id] \/ (a.states[id] = "FREE" /\ b.states[id] = "RETIRED")
    /\ b.generations[r.id] > a.generations[r.id]
    /\ b.pendingIds = Append(a.pendingIds, r.id)
    /\ b.committedHighWaterMark = a.committedHighWaterMark
    /\ a.states[r.id] = "FREE" =>
        b.highWaterMark = a.highWaterMark /\ r.id <= a.committedHighWaterMark
    /\ a.states[r.id] = "UNUSED" =>
        b.highWaterMark = a.highWaterMark + 1 /\ r.id = a.highWaterMark + 1

\* A reservation takes a free or a fresh ID, gives it a generation it did
\* not have, and leaves the allocator consistent (reserve).
LEMMA ReservationProperties ==
    ASSUME NEW a \in Allocator, Consistent(a), NEW r \in Reservations(a)
    PROVE  /\ r.allocator \in Allocator
           /\ Consistent(r.allocator)
           /\ Reserved(a, r)
<1> USE MaxIdAssumption, GenerationsAssumption
<1>1. CASE r \in ReuseReservations(a)
  <2>1. PICK id \in Reusable(a), met \in SUBSET Exhausted(a) :
          r = [id |-> id, allocator |-> Reserve(Retire(a, met), id, NextGeneration(a, id))]
    BY <1>1 DEF ReuseReservations
  <2> DEFINE c == Retire(a, met)
             b == r.allocator
  <2>2. /\ id \in Ids /\ id \in a.freeIds /\ a.states[id] = "FREE" /\ id \notin met
        /\ NextGeneration(a, id) = a.generations[id] + 1
        /\ NextGeneration(a, id) \in Generation
        /\ a.generations[id] \in Generation
    <3>1. id \in Ids /\ id \in a.freeIds /\ a.states[id] = "FREE" /\ NextGeneration(a, id) # 0
      BY DEF Reusable, Allocator
    <3>2. id \notin met
      BY <3>1 DEF Exhausted
    <3>3. a.generations[id] \in Generation
      BY <3>1 DEF Allocator
    <3>4. NextGeneration(a, id) = a.generations[id] + 1 /\ NextGeneration(a, id) \in Generation
      BY <3>1, <3>3 DEF NextGeneration, Generation
    <3> QED BY <3>1, <3>2, <3>3, <3>4
  <2>3. /\ c \in Allocator /\ Consistent(c)
        /\ c.states = [i \in Ids |-> IF i \in met THEN "RETIRED" ELSE a.states[i]]
        /\ \A i \in met : i \in Ids /\ a.states[i] = "FREE"
        /\ c.generations = a.generations
        /\ c.pendingIds = a.pendingIds
        /\ c.highWaterMark = a.highWaterMark
        /\ c.committedHighWaterMark = a.committedHighWaterMark
    BY RetireProperties
  <2>4. /\ b \in Allocator
        /\ b.states = [c.states EXCEPT ![id] = "PENDING_ADD"]
        /\ b.generations = [c.generations EXCEPT ![id] = NextGeneration(a, id)]
        /\ b.freeIds = c.freeIds \ {id}
        /\ b.pendingIds = Append(c.pendingIds, id)
        /\ b.highWaterMark = c.highWaterMark
        /\ b.committedHighWaterMark = c.committedHighWaterMark
        /\ r.id = id
    BY <2>1, <2>2, <2>3, ReserveProperties
  <2>5. c.states[id] = "FREE" /\ id <= a.committedHighWaterMark
    BY <2>2, <2>3 DEF Consistent, Allocator, Ids
  <2>6. Reserved(a, r)
    BY <2>2, <2>3, <2>4, <2>5 DEF Reserved, Allocator, Generation
  <2>7. Consistent(b)
    <3> HIDE DEF b, c
    <3>1. c.pendingIds \in Seq(Ids) /\ b.pendingIds = Append(c.pendingIds, id)
      BY <2>3, <2>4 DEF Allocator
    <3>2. /\ id \notin Pending(c)
          /\ \A i, j \in DOMAIN c.pendingIds : c.pendingIds[i] = c.pendingIds[j] => i = j
      BY <2>2, <2>3, <2>5 DEF Consistent, PendingStates
    <3>3. /\ Pending(b) = Pending(c) \cup {id}
          /\ \A i, j \in DOMAIN b.pendingIds : b.pendingIds[i] = b.pendingIds[j] => i = j
      BY <2>2, <3>1, <3>2, PendingAppend
    <3>4. \A i \in Ids : b.states[i] = IF i = id THEN "PENDING_ADD" ELSE c.states[i]
      BY <2>3, <2>4
    <3>5. \A i \in Ids : b.generations[i] = IF i = id THEN NextGeneration(a, id) ELSE c.generations[i]
      BY <2>3, <2>4 DEF Allocator
    <3>6. NextGeneration(a, id) # 0 /\ c.generations[id] = a.generations[id]
      BY <2>2, <2>3 DEF Generation
    <3>7. \A i \in Ids : /\ b.states[i] = "UNUSED" <=> i > b.highWaterMark
                         /\ b.states[i] = "UNUSED" <=> b.generations[i] = 0
      BY <2>2, <2>3, <2>4, <2>5, <3>4, <3>5, <3>6 DEF Consistent
    <3>8. \A i \in Ids : /\ i \in b.freeIds <=> b.states[i] = "FREE"
                         /\ i \in Pending(b) <=> b.states[i] \in PendingStates
      BY <2>2, <2>3, <2>4, <2>5, <3>3, <3>4 DEF Consistent, PendingStates
    <3>9. \A i \in (b.committedHighWaterMark + 1)..b.highWaterMark :
             i \in Ids => b.states[i] \in {"PENDING_ADD", "PENDING_ADD_REMOVE"}
      BY <2>2, <2>3, <2>4, <2>5, <3>4 DEF Consistent
    <3>10. b.committedHighWaterMark <= b.highWaterMark
      BY <2>3, <2>4 DEF Consistent
    <3> QED BY <3>3, <3>7, <3>8, <3>9, <3>10 DEF Consistent
  <2> QED BY <2>4, <2>6, <2>7
<1>2. CASE r \in FreshReservations(a)
  <2>1. PICK id \in Ids :
          /\ id = a.highWaterMark + 1
          /\ a.states[id] = "UNUSED" /\ a.generations[id] = 0
          /\ r = [id |-> id, allocator |->
                    RaiseHighWaterMark(Reserve(Retire(a, Exhausted(a)), id, 1), id)]
    BY <1>2 DEF FreshReservations
  <2> DEFINE c == Retire(a, Exhausted(a))
             d == Reserve(c, id, 1)
             b == r.allocator
  <2>2. /\ c \in Allocator /\ Consistent(c)
        /\ c.states = [i \in Ids |-> IF i \in Exhausted(a) THEN "RETIRED" ELSE a.states[i]]
        /\ \A i \in Exhausted(a) : i \in Ids /\ a.states[i] = "FREE"
        /\ c.generations = a.generations
        /\ c.pendingIds = a.pendingIds
        /\ c.highWaterMark = a.highWaterMark
        /\ c.committedHighWaterMark = a.committedHighWaterMark
    BY RetireProperties
  <2>3. 1 \in Generation
    BY DEF Generation
  <2> HIDE DEF c
  <2>4. /\ d \in Allocator
        /\ d.states = [c.states EXCEPT ![id] = "PENDING_ADD"]
        /\ d.generations = [c.generations EXCEPT ![id] = 1]
        /\ d.freeIds = c.freeIds \ {id}
        /\ d.pendingIds = Append(c.pendingIds, id)
        /\ d.highWaterMark = c.highWaterMark
        /\ d.committedHighWaterMark = c.committedHighWaterMark
    BY <2>2, <2>3, ReserveProperties
  <2> HIDE DEF d
  <2>5. /\ r.id = id
        /\ b = RaiseHighWaterMark(d, id)
    BY <2>1 DEF c, d
  <2> HIDE DEF b
  <2>6. /\ b \in Allocator
        /\ b.states = [c.states EXCEPT ![id] = "PENDING_ADD"]
        /\ b.generations = [c.generations EXCEPT ![id] = 1]
        /\ b.freeIds = c.freeIds \ {id}
        /\ b.pendingIds = Append(c.pendingIds, id)
        /\ b.highWaterMark = id
        /\ b.committedHighWaterMark = c.committedHighWaterMark
    BY <2>4, <2>5, RaiseProperties
  <2>7. /\ \A i \in Ids : b.states[i] = IF i = id THEN "PENDING_ADD" ELSE c.states[i]
        /\ \A i \in Ids : b.generations[i] = IF i = id THEN 1 ELSE c.generations[i]
    BY <2>2, <2>6 DEF Allocator
  <2>8. c.states[id] = "UNUSED" /\ c.generations[id] = 0 /\ a.highWaterMark \in Nat
    BY <2>1, <2>2 DEF Allocator
  <2>9. Reserved(a, r)
    <3>1. \A i \in Ids \ {id} :
            /\ b.generations[i] = a.generations[i]
            /\ b.states[i] = a.states[i] \/ (a.states[i] = "FREE" /\ b.states[i] = "RETIRED")
      BY <2>2, <2>7
    <3>2. b.states[id] = "PENDING_ADD" /\ b.generations[id] = 1
      BY <2>1, <2>7
    <3> QED BY <2>1, <2>2, <2>5, <2>6, <3>1, <3>2 DEF Reserved, b
  <2>10. Consistent(b)
    <3>0. /\ a.highWaterMark \in Nat /\ a.committedHighWaterMark \in Nat
          /\ id = a.highWaterMark + 1
          /\ c.highWaterMark = a.highWaterMark /\ b.highWaterMark = a.highWaterMark + 1
          /\ c.committedHighWaterMark = a.committedHighWaterMark
          /\ b.committedHighWaterMark = a.committedHighWaterMark
      BY <2>1, <2>2, <2>6 DEF Allocator
    <3>1. c.pendingIds \in Seq(Ids)
      BY <2>2 DEF Allocator
    <3>2. /\ id \notin Pending(c)
          /\ \A i, j \in DOMAIN c.pendingIds : c.pendingIds[i] = c.pendingIds[j] => i = j
      BY <2>1, <2>2, <2>8 DEF Consistent, PendingStates
    <3>3. /\ Pending(b) = Pending(c) \cup {id}
          /\ \A i, j \in DOMAIN b.pendingIds : b.pendingIds[i] = b.pendingIds[j] => i = j
      BY <2>1, <2>6, <3>1, <3>2, PendingAppend, SMTT(30)
    <3>4. \A i \in Ids : /\ b.states[i] = "UNUSED" <=> i > b.highWaterMark
                         /\ b.states[i] = "UNUSED" <=> b.generations[i] = 0
      <4> SUFFICES ASSUME NEW i \in Ids
                   PROVE  /\ b.states[i] = "UNUSED" <=> i > b.highWaterMark
                          /\ b.states[i] = "UNUSED" <=> b.generations[i] = 0
        OBVIOUS
      <4>1. /\ c.states[i] = "UNUSED" <=> i > c.highWaterMark
            /\ c.states[i] = "UNUSED" <=> c.generations[i] = 0
        BY <2>2 DEF Consistent
      <4>2. i \in Nat
        BY DEF Ids
      <4> QED BY <2>7, <3>0, <4>1, <4>2
    <3>5. \A i \in Ids : /\ i \in b.freeIds <=> b.states[i] = "FREE"
                         /\ i \in Pending(b) <=> b.states[i] \in PendingStates
      BY <2>1, <2>2, <2>6, <2>7, <2>8, <3>3 DEF Consistent, PendingStates
    <3>6. \A i \in Ids : i \in (b.committedHighWaterMark + 1)..b.highWaterMark =>
             b.states[i] \in {"PENDING_ADD", "PENDING_ADD_REMOVE"}
      <4> SUFFICES ASSUME NEW i \in Ids, i \in (b.committedHighWaterMark + 1)..b.highWaterMark,
                          i # id
                   PROVE  b.states[i] \in {"PENDING_ADD", "PENDING_ADD_REMOVE"}
        BY <2>7
      <4>1. i \in (c.committedHighWaterMark + 1)..c.highWaterMark
        BY <3>0
      <4> QED BY <2>2, <2>7, <4>1 DEF Consistent
    <3>7. b.committedHighWaterMark <= b.highWaterMark
      BY <2>1, <2>2, <2>6 DEF Consistent, Allocator
    <3> QED BY <3>3, <3>4, <3>5, <3>6, <3>7 DEF Consistent
  <2> QED BY <2>6, <2>9, <2>10 DEF b
<1> QED BY <1>1, <1>2 DEF Reservations

-----------------------------------------------------------------------------
\* A pending list that names each ID once, without its last ID.
LEMMA PendingWithoutLast ==
    ASSUME NEW a, a.pendingIds \in Seq(Ids), NEW id, IsLastPending(a, id),
           \A i, j \in DOMAIN a.pendingIds : a.pendingIds[i] = a.pendingIds[j] => i = j,
           NEW b, b.pendingIds = WithoutLastPending(a)
    PROVE  /\ b.pendingIds \in Seq(Ids)
           /\ Pending(b) = Pending(a) \ {id}
           /\ \A i, j \in DOMAIN b.pendingIds : b.pendingIds[i] = b.pendingIds[j] => i = j
<1> DEFINE s == a.pendingIds
           t == b.pendingIds
           n == Len(s)
<1>1. n \in Nat \ {0} /\ s[n] = id /\ DOMAIN s = 1..n
  BY EmptySeq, LenProperties DEF IsLastPending
<1>2. t = SubSeq(s, 1, n - 1)
  BY DEF WithoutLastPending
<1>3. /\ t \in Seq(Ids)
      /\ Len(t) = n - 1
      /\ \A i \in 1..(n - 1) : t[i] = s[i]
  BY <1>1, <1>2, SubSeqProperties
<1>4. DOMAIN t = 1..(n - 1)
  BY <1>3, LenProperties
<1> HIDE DEF s, t, n
<1>5. {t[i] : i \in DOMAIN t} = {s[i] : i \in DOMAIN s} \ {id}
  <2>1. \A i \in 1..n : s[i] = id <=> i = n
    BY <1>1 DEF s
  <2>2. 1..n = (1..(n - 1)) \cup {n} /\ n \notin 1..(n - 1)
    BY <1>1
  <2> QED BY <1>1, <1>3, <1>4, <2>1, <2>2
<1>6. \A i, j \in DOMAIN t : t[i] = t[j] => i = j
  <2>1. \A i \in 1..(n - 1) : i \in 1..n
    BY <1>1
  <2> QED BY <1>1, <1>3, <1>4, <2>1 DEF s
<1> QED BY <1>3, <1>5, <1>6 DEF Pending, s, t

\* Cancelling the most recent pending add gives its ID back, to the pool or
\* to the slots above the high-water mark (cancelPendingAdd).
LEMMA CancelPendingAddProperties ==
    ASSUME NEW a \in Allocator, Consistent(a), NEW id \in Ids,
           CanCancelPendingAdd(a, id, a.generations[id])
    PROVE  LET b == CancelPendingAdd(a, id)
               fresh == id > a.committedHighWaterMark IN
           /\ b \in Allocator
           /\ Consistent(b)
           /\ b.states = [a.states EXCEPT ![id] = IF fresh THEN "UNUSED" ELSE "FREE"]
           /\ b.generations = IF fresh THEN [a.generations EXCEPT ![id] = 0] ELSE a.generations
           /\ b.highWaterMark = IF fresh THEN a.highWaterMark - 1 ELSE a.highWaterMark
           /\ b.committedHighWaterMark = a.committedHighWaterMark
<1> USE MaxIdAssumption, GenerationsAssumption
<1> DEFINE b == CancelPendingAdd(a, id)
<1>1. /\ a.states[id] = "PENDING_ADD"
      /\ IsLastPending(a, id)
      /\ id > a.committedHighWaterMark => id = a.highWaterMark
  BY DEF CanCancelPendingAdd
<1>2. /\ a.pendingIds \in Seq(Ids)
      /\ \A i, j \in DOMAIN a.pendingIds : a.pendingIds[i] = a.pendingIds[j] => i = j
  BY DEF Consistent, Allocator
<1>3. /\ a.highWaterMark \in 0..MaxId /\ a.committedHighWaterMark \in 0..MaxId
      /\ a.committedHighWaterMark <= a.highWaterMark
  BY DEF Allocator, Consistent
<1>4. b.pendingIds = WithoutLastPending(a)
  BY DEF CancelPendingAdd, Allocator
<1>5. /\ WithoutLastPending(a) \in Seq(Ids)
      /\ Pending(b) = Pending(a) \ {id}
      /\ \A i, j \in DOMAIN b.pendingIds : b.pendingIds[i] = b.pendingIds[j] => i = j
  BY <1>1, <1>2, <1>4, PendingWithoutLast
<1>6. CASE id > a.committedHighWaterMark
  <2>1. /\ b.states = [a.states EXCEPT ![id] = "UNUSED"]
        /\ b.generations = [a.generations EXCEPT ![id] = 0]
        /\ b.freeIds = a.freeIds
        /\ b.highWaterMark = a.highWaterMark - 1
        /\ b.committedHighWaterMark = a.committedHighWaterMark
    BY <1>6 DEF CancelPendingAdd, Allocator
  <2>2. 0 \in Generation /\ a.highWaterMark - 1 \in 0..MaxId
    BY <1>1, <1>3, <1>6 DEF Generation, Ids
  <2>3. b \in Allocator
    BY <1>5, <1>6, <2>2 DEF CancelPendingAdd, Allocator, States
  <2> HIDE DEF b
  <2>4. \A i \in Ids : /\ b.states[i] = IF i = id THEN "UNUSED" ELSE a.states[i]
                       /\ b.generations[i] = IF i = id THEN 0 ELSE a.generations[i]
    BY <2>1 DEF Allocator
  <2>5. ASSUME NEW i \in Ids
        PROVE  /\ b.states[i] = "UNUSED" <=> i > b.highWaterMark
               /\ b.states[i] = "UNUSED" <=> b.generations[i] = 0
               /\ i \in (b.committedHighWaterMark + 1)..b.highWaterMark =>
                    b.states[i] \in {"PENDING_ADD", "PENDING_ADD_REMOVE"}
    <3>1. /\ a.states[i] = "UNUSED" <=> i > a.highWaterMark
          /\ a.states[i] = "UNUSED" <=> a.generations[i] = 0
          /\ i \in (a.committedHighWaterMark + 1)..a.highWaterMark =>
               a.states[i] \in {"PENDING_ADD", "PENDING_ADD_REMOVE"}
      BY DEF Consistent
    <3>2. i \in Nat
      BY DEF Ids
    <3> QED BY <1>1, <1>3, <1>6, <2>1, <2>4, <3>1, <3>2
  <2>6. \A i \in Ids : /\ i \in b.freeIds <=> b.states[i] = "FREE"
                       /\ i \in Pending(b) <=> b.states[i] \in PendingStates
    BY <1>1, <1>5, <2>1, <2>4 DEF Consistent, PendingStates
  <2>7. b.committedHighWaterMark <= b.highWaterMark
    BY <1>1, <1>3, <1>6, <2>1 DEF Ids
  <2>8. Consistent(b)
    BY <1>5, <2>5, <2>6, <2>7 DEF Consistent
  <2> QED BY <1>6, <2>1, <2>3, <2>8 DEF b
<1>7. CASE ~(id > a.committedHighWaterMark)
  <2>1. /\ b.states = [a.states EXCEPT ![id] = "FREE"]
        /\ b.generations = a.generations
        /\ b.freeIds = a.freeIds \cup {id}
        /\ b.highWaterMark = a.highWaterMark
        /\ b.committedHighWaterMark = a.committedHighWaterMark
    BY <1>7 DEF CancelPendingAdd, Allocator
  <2>2. b \in Allocator
    BY <1>5, <1>7 DEF CancelPendingAdd, Allocator, States
  <2> HIDE DEF b
  <2>3. \A i \in Ids : b.states[i] = IF i = id THEN "FREE" ELSE a.states[i]
    BY <2>1 DEF Allocator
  <2>4. ASSUME NEW i \in Ids
        PROVE  /\ b.states[i] = "UNUSED" <=> i > b.highWaterMark
               /\ b.states[i] = "UNUSED" <=> b.generations[i] = 0
               /\ i \in (b.committedHighWaterMark + 1)..b.highWaterMark =>
                    b.states[i] \in {"PENDING_ADD", "PENDING_ADD_REMOVE"}
    <3>1. /\ a.states[i] = "UNUSED" <=> i > a.highWaterMark
          /\ a.states[i] = "UNUSED" <=> a.generations[i] = 0
          /\ i \in (a.committedHighWaterMark + 1)..a.highWaterMark =>
               a.states[i] \in {"PENDING_ADD", "PENDING_ADD_REMOVE"}
      BY DEF Consistent
    <3>2. i \in Nat /\ id \in Nat
      BY DEF Ids
    <3> QED BY <1>1, <1>3, <1>7, <2>1, <2>3, <3>1, <3>2
  <2>5. \A i \in Ids : /\ i \in b.freeIds <=> b.states[i] = "FREE"
                       /\ i \in Pending(b) <=> b.states[i] \in PendingStates
    BY <1>1, <1>5, <2>1, <2>3 DEF Consistent, PendingStates
  <2>6. Consistent(b)
    BY <1>3, <1>5, <2>1, <2>4, <2>5 DEF Consistent
  <2> QED BY <1>7, <2>1, <2>2, <2>6 DEF b
<1> QED BY <1>6, <1>7

\* What a call that failed may have changed: pooled IDs are retired or have
\* skipped a generation.
OnlyPoolChanged(a, b) ==
    /\ b.highWaterMark = a.highWaterMark
    /\ b.committedHighWaterMark = a.committedHighWaterMark
    /\ \A id \in Ids :
        /\ b.states[id] = a.states[id] \/ (a.states[id] = "FREE" /\ b.states[id] = "RETIRED")
        /\ b.generations[id] >= a.generations[id]
        /\ a.states[id] # "FREE" => b.generations[id] = a.generations[id]

\* An exhausted pool is retired even when reserve then throws.
LEMMA ExhaustedProperties ==
    ASSUME NEW a \in Allocator, Consistent(a)
    PROVE  LET b == Retire(a, Exhausted(a)) IN
           b \in Allocator /\ Consistent(b) /\ OnlyPoolChanged(a, b)
<1> DEFINE b == Retire(a, Exhausted(a))
<1>1. /\ b \in Allocator /\ Consistent(b)
      /\ b.states = [id \in Ids |-> IF id \in Exhausted(a) THEN "RETIRED" ELSE a.states[id]]
      /\ \A id \in Exhausted(a) : id \in Ids /\ a.states[id] = "FREE"
      /\ b.generations = a.generations
      /\ b.highWaterMark = a.highWaterMark
      /\ b.committedHighWaterMark = a.committedHighWaterMark
  BY RetireProperties
<1>2. \A id \in Ids : a.generations[id] \in Nat
  BY GenerationsAssumption DEF Allocator, Generation
<1> HIDE DEF b
<1> QED BY <1>1, <1>2 DEF OnlyPoolChanged, b

\* A reservation can be taken back at once, and is then gone but for the
\* generation it skipped (ElectricalWorld.addWire, addDevice).
LEMMA RollbackAddProperties ==
    ASSUME NEW a \in Allocator, Consistent(a), NEW r \in Reservations(a)
    PROVE  LET b == CancelPendingAdd(r.allocator, r.id) IN
           /\ CanCancelPendingAdd(r.allocator, r.id, r.allocator.generations[r.id])
           /\ b \in Allocator
           /\ Consistent(b)
           /\ OnlyPoolChanged(a, b)
<1> DEFINE c == r.allocator
           id == r.id
           b == CancelPendingAdd(c, id)
<1>1. c \in Allocator /\ Consistent(c) /\ Reserved(a, r)
  BY ReservationProperties
<1>2. /\ id \in Ids
      /\ c.states[id] = "PENDING_ADD"
      /\ a.states[id] \in {"FREE", "UNUSED"}
      /\ \A i \in Ids \ {id} :
           /\ c.generations[i] = a.generations[i]
           /\ c.states[i] = a.states[i] \/ (a.states[i] = "FREE" /\ c.states[i] = "RETIRED")
      /\ c.generations[id] > a.generations[id]
      /\ c.pendingIds = Append(a.pendingIds, id)
      /\ c.committedHighWaterMark = a.committedHighWaterMark
      /\ a.states[id] = "FREE" =>
           c.highWaterMark = a.highWaterMark /\ id <= a.committedHighWaterMark
      /\ a.states[id] = "UNUSED" =>
           c.highWaterMark = a.highWaterMark + 1 /\ id = a.highWaterMark + 1
  BY <1>1 DEF Reserved
<1>3. /\ a.highWaterMark \in Nat /\ a.committedHighWaterMark \in Nat
      /\ a.committedHighWaterMark <= a.highWaterMark
      /\ a.pendingIds \in Seq(Ids)
      /\ \A i \in Ids : a.generations[i] \in Nat
  BY GenerationsAssumption DEF Allocator, Consistent, Generation
<1> HIDE DEF c, id
<1>4. IsLastPending(c, id)
  <2>1. /\ Len(Append(a.pendingIds, id)) = Len(a.pendingIds) + 1
        /\ Append(a.pendingIds, id)[Len(a.pendingIds) + 1] = id
        /\ Len(a.pendingIds) \in Nat
        /\ Append(a.pendingIds, id) # << >>
    BY <1>2, <1>3, AppendFacts
  <2> QED BY <1>2, <2>1 DEF IsLastPending
<1>5. CanCancelPendingAdd(c, id, c.generations[id])
  <2>1. id \in Nat /\ id >= 1
    BY <1>2 DEF Ids
  <2>2. id <= c.highWaterMark
    <3>1. CASE a.states[id] = "FREE"
      BY <1>2, <1>3, <2>1, <3>1
    <3>2. CASE a.states[id] = "UNUSED"
      BY <1>2, <1>3, <2>1, <3>2
    <3> QED BY <1>2, <3>1, <3>2
  <2> QED BY <1>1, <1>2, <1>3, <1>4, <2>1, <2>2 DEF CanCancelPendingAdd, IsCurrent, Allocator
<1>6. /\ b \in Allocator
      /\ Consistent(b)
      /\ b.states = [c.states EXCEPT ![id] =
                        IF id > c.committedHighWaterMark THEN "UNUSED" ELSE "FREE"]
      /\ b.generations = IF id > c.committedHighWaterMark THEN [c.generations EXCEPT ![id] = 0]
                                                          ELSE c.generations
      /\ b.highWaterMark = IF id > c.committedHighWaterMark THEN c.highWaterMark - 1
                                                            ELSE c.highWaterMark
      /\ b.committedHighWaterMark = c.committedHighWaterMark
  BY <1>1, <1>2, <1>5, CancelPendingAddProperties
<1>7. /\ DOMAIN c.states = Ids /\ DOMAIN c.generations = Ids
  BY <1>1 DEF Allocator
<1> HIDE DEF b
<1>8. CASE a.states[id] = "UNUSED"
  <2>1. id > c.committedHighWaterMark /\ a.generations[id] = 0
    BY <1>2, <1>3, <1>8 DEF Consistent
  <2>2. b.highWaterMark = a.highWaterMark /\ b.committedHighWaterMark = a.committedHighWaterMark
    BY <1>2, <1>3, <1>6, <1>8, <2>1
  <2>3. \A i \in Ids : /\ b.states[i] = IF i = id THEN "UNUSED" ELSE c.states[i]
                       /\ b.generations[i] = IF i = id THEN 0 ELSE c.generations[i]
    BY <1>6, <1>7, <2>1
  <2> QED BY <1>2, <1>3, <1>5, <1>6, <1>8, <2>1, <2>2, <2>3 DEF OnlyPoolChanged, b, c, id
<1>9. CASE a.states[id] = "FREE"
  <2>1. ~(id > c.committedHighWaterMark) /\ c.generations[id] \in Nat
    BY <1>1, <1>2, <1>3, <1>9, GenerationsAssumption DEF Ids, Allocator, Generation
  <2>2. \A i \in Ids : b.states[i] = IF i = id THEN "FREE" ELSE c.states[i]
    BY <1>6, <1>7, <2>1
  <2>3. b.generations = c.generations /\ b.highWaterMark = a.highWaterMark
    BY <1>2, <1>6, <1>9, <2>1
  <2> QED BY <1>2, <1>3, <1>5, <1>6, <1>9, <2>1, <2>2, <2>3 DEF OnlyPoolChanged, b, c, id
<1> QED BY <1>2, <1>8, <1>9

-----------------------------------------------------------------------------
\* Removing a live or just added object marks it and nothing else (remove).
LEMMA RemoveProperties ==
    ASSUME NEW a \in Allocator, Consistent(a), NEW id \in Ids,
           a.states[id] \in {"LIVE", "PENDING_ADD"}
    PROVE  LET b == Remove(a, id) IN
           /\ b \in Allocator
           /\ Consistent(b)
           /\ b.states = [a.states EXCEPT ![id] =
                            IF a.states[id] = "LIVE" THEN "PENDING_REMOVE" ELSE "PENDING_ADD_REMOVE"]
           /\ b.generations = a.generations
           /\ b.highWaterMark = a.highWaterMark
           /\ b.committedHighWaterMark = a.committedHighWaterMark
<1> DEFINE b == Remove(a, id)
<1>1. /\ b.states = [a.states EXCEPT ![id] =
                        IF a.states[id] = "LIVE" THEN "PENDING_REMOVE" ELSE "PENDING_ADD_REMOVE"]
      /\ b.generations = a.generations
      /\ b.freeIds = a.freeIds
      /\ b.pendingIds = IF a.states[id] = "LIVE" THEN Append(a.pendingIds, id) ELSE a.pendingIds
      /\ b.highWaterMark = a.highWaterMark
      /\ b.committedHighWaterMark = a.committedHighWaterMark
  BY DEF Remove, Allocator
<1>2. a.pendingIds \in Seq(Ids)
  BY DEF Allocator
<1>3. Append(a.pendingIds, id) \in Seq(Ids)
  BY <1>2, AppendFacts
<1>4. b \in Allocator
  BY <1>3 DEF Remove, Allocator, States
<1> HIDE DEF b
<1>5. /\ Pending(b) = IF a.states[id] = "LIVE" THEN Pending(a) \cup {id} ELSE Pending(a)
      /\ \A i, j \in DOMAIN b.pendingIds : b.pendingIds[i] = b.pendingIds[j] => i = j
  <2>1. \A i, j \in DOMAIN a.pendingIds : a.pendingIds[i] = a.pendingIds[j] => i = j
    BY DEF Consistent
  <2>2. CASE a.states[id] = "LIVE"
    <3>1. b.pendingIds = Append(a.pendingIds, id) /\ id \notin Pending(a)
      BY <1>1, <2>2 DEF Consistent, PendingStates
    <3> QED BY <1>2, <2>1, <2>2, <3>1, PendingAppend
  <2>3. CASE a.states[id] # "LIVE"
    BY <1>1, <2>1, <2>3 DEF Pending
  <2> QED BY <2>2, <2>3
<1>6. \A i \in Ids : b.states[i] =
         IF i # id THEN a.states[i]
         ELSE IF a.states[id] = "LIVE" THEN "PENDING_REMOVE" ELSE "PENDING_ADD_REMOVE"
  BY <1>1 DEF Allocator
<1>7. ASSUME NEW i \in Ids
      PROVE  /\ b.states[i] = "UNUSED" <=> i > b.highWaterMark
             /\ b.states[i] = "UNUSED" <=> b.generations[i] = 0
             /\ i \in b.freeIds <=> b.states[i] = "FREE"
             /\ i \in Pending(b) <=> b.states[i] \in PendingStates
             /\ i \in (b.committedHighWaterMark + 1)..b.highWaterMark =>
                  b.states[i] \in {"PENDING_ADD", "PENDING_ADD_REMOVE"}
  BY <1>1, <1>5, <1>6 DEF Consistent, PendingStates
<1>8. Consistent(b)
  BY <1>1, <1>5, <1>7 DEF Consistent
<1> QED BY <1>1, <1>4, <1>8 DEF b

\* Taking a remove back restores the allocator (cancelPendingRemove).
LEMMA RollbackRemoveProperties ==
    ASSUME NEW a \in Allocator, Consistent(a), NEW id \in Ids,
           IsUsable(a, id, a.generations[id])
    PROVE  /\ CanCancelPendingRemove(Remove(a, id), id, a.generations[id])
           /\ CancelPendingRemove(Remove(a, id), id) = a
<1> DEFINE b == Remove(a, id)
<1>1. /\ a.states[id] \in {"LIVE", "PENDING_ADD"}
      /\ id \in 1..a.highWaterMark
  BY DEF IsUsable, IsCurrent
<1>2. /\ b.states[id] \in {"PENDING_REMOVE", "PENDING_ADD_REMOVE"}
      /\ b.states[id] = "PENDING_REMOVE" <=> a.states[id] = "LIVE"
      /\ b.generations = a.generations
      /\ b.highWaterMark = a.highWaterMark
  BY <1>1 DEF Remove, Allocator
<1>3. a.pendingIds \in Seq(Ids)
  BY DEF Allocator
<1>4. a.states[id] = "LIVE" => IsLastPending(b, id) /\ WithoutLastPending(b) = a.pendingIds
  <2>1. /\ Len(Append(a.pendingIds, id)) = Len(a.pendingIds) + 1
        /\ Append(a.pendingIds, id)[Len(a.pendingIds) + 1] = id
        /\ Len(a.pendingIds) \in Nat
        /\ SubSeq(Append(a.pendingIds, id), 1, Len(a.pendingIds)) = a.pendingIds
        /\ Append(a.pendingIds, id) # << >>
    BY <1>3, AppendFacts
  <2>2. a.states[id] = "LIVE" => b.pendingIds = Append(a.pendingIds, id)
    BY DEF Remove, Allocator
  <2> HIDE DEF b
  <2> QED BY <2>1, <2>2 DEF IsLastPending, WithoutLastPending
<1>5. CanCancelPendingRemove(b, id, a.generations[id])
  <2> HIDE DEF b
  <2> QED BY <1>1, <1>2, <1>4 DEF CanCancelPendingRemove, IsCurrent
<1>6. CancelPendingRemove(b, id) = a
  <2>1. CASE a.states[id] = "LIVE"
    <3> DEFINE c == CancelPendingRemove(b, id)
    <3>1. b \in Allocator /\ b.states = [a.states EXCEPT ![id] = "PENDING_REMOVE"]
      BY <1>1, <2>1, RemoveProperties
    <3>2. b.freeIds = a.freeIds /\ b.committedHighWaterMark = a.committedHighWaterMark
      BY <2>1 DEF Remove, Allocator
    <3> HIDE DEF b
    <3>3. /\ c \in Allocator
          /\ c.states = [b.states EXCEPT ![id] = "LIVE"]
          /\ c.pendingIds = a.pendingIds
          /\ c.generations = b.generations
          /\ c.freeIds = b.freeIds
          /\ c.highWaterMark = b.highWaterMark
          /\ c.committedHighWaterMark = b.committedHighWaterMark
      BY <1>2, <1>3, <1>4, <2>1, <3>1 DEF CancelPendingRemove, Allocator, States
    <3>4. c.states = a.states
      BY <2>1, <3>1, <3>3 DEF Allocator
    <3> HIDE DEF c
    <3> QED BY <1>2, <3>2, <3>3, <3>4 DEF Allocator, c
  <2>2. CASE a.states[id] = "PENDING_ADD"
    BY <1>2, <2>2 DEF CancelPendingRemove, Remove, Allocator
  <2> QED BY <1>1, <2>1, <2>2
<1> QED BY <1>5, <1>6

-----------------------------------------------------------------------------
\* A commit settles every pending ID and no other (commitBatch).
LEMMA CommitProperties ==
    ASSUME NEW a \in Allocator, Consistent(a)
    PROVE  LET b == CommitBatch(a) IN
           /\ b \in Allocator
           /\ Consistent(b)
           /\ b.states = [id \in Ids |-> IF a.states[id] \in PendingStates THEN Committed(a, id)
                                                                        ELSE a.states[id]]
           /\ b.generations = a.generations
           /\ b.highWaterMark = a.highWaterMark
           /\ b.committedHighWaterMark = a.highWaterMark
<1> DEFINE b == CommitBatch(a)
<1>1. \A id \in Ids : id \in Pending(a) <=> a.states[id] \in PendingStates
  BY DEF Consistent
<1>2. /\ b.states = [id \in Ids |-> IF id \in Pending(a) THEN Committed(a, id) ELSE a.states[id]]
      /\ b.freeIds = a.freeIds \cup {id \in Released(a) : Committed(a, id) = "FREE"}
      /\ b.generations = a.generations
      /\ b.pendingIds = << >>
      /\ b.highWaterMark = a.highWaterMark
      /\ b.committedHighWaterMark = a.highWaterMark
  BY DEF CommitBatch, Allocator
<1>3. Pending(a) \subseteq Ids
  BY LenProperties, ElementOfSeq DEF Pending, Allocator
<1>4. b \in Allocator
  BY <1>3, EmptySeq DEF CommitBatch, Allocator, Committed, Released, States
<1> HIDE DEF b
<1>5. Pending(b) = {} /\ DOMAIN b.pendingIds = {}
  BY <1>2, EmptySeq, LenProperties DEF Pending
<1>6. \A id \in Ids : b.states[id] = IF a.states[id] \in PendingStates THEN Committed(a, id)
                                                                   ELSE a.states[id]
  BY <1>1, <1>2
<1>7. ASSUME NEW i \in Ids
      PROVE  /\ b.states[i] = "UNUSED" <=> i > b.highWaterMark
             /\ b.states[i] = "UNUSED" <=> b.generations[i] = 0
             /\ i \in b.freeIds <=> b.states[i] = "FREE"
             /\ i \in Pending(b) <=> b.states[i] \in PendingStates
  BY <1>1, <1>2, <1>5, <1>6 DEF Consistent, PendingStates, Committed, Released
<1>8. b.highWaterMark \in Nat
  BY <1>2 DEF Allocator
<1>9. Consistent(b)
  BY <1>2, <1>5, <1>7, <1>8 DEF Consistent
<1>10. b.states = [id \in Ids |-> IF a.states[id] \in PendingStates THEN Committed(a, id)
                                                                 ELSE a.states[id]]
  BY <1>1, <1>2
<1> QED BY <1>2, <1>4, <1>9, <1>10 DEF b

-----------------------------------------------------------------------------
(***************************************************************************)
(* The world around the two allocators.                                    *)
(***************************************************************************)

vars0 == <<commandBuffer, applying, applied, native, poisoned, open, handles>>

\* The world starts with consistent allocators and empty tables.
LEMMA InitIInv == Init => IInv
<1> SUFFICES ASSUME Init PROVE IInv
  OBVIOUS
<1>1. NewAllocator \in Allocator /\ Consistent(NewAllocator)
  BY NewAllocatorConsistent
<1>2. /\ Len(commandBuffer) = 0 /\ DOMAIN commandBuffer = {}
      /\ commandBuffer \in Seq(Command)
  BY EmptySeq, LenProperties DEF Init
<1>3. TypeOK
  BY <1>1, <1>2 DEF Init, TypeOK
<1>4. AllocatorConsistent
  BY <1>1 DEF Init, AllocatorConsistent
<1>5. ASSUME NEW k \in Kinds
      PROVE  /\ ids[k].highWaterMark = 0 /\ ids[k].committedHighWaterMark = 0
             /\ \A id \in Ids : ids[k].states[id] = "UNUSED"
             /\ native[k].slots = 0 /\ native[k].occupied = {}
  BY DEF Init, NewAllocator
<1>6. ASSUME NEW k \in Kinds PROVE HandleInv(k)
  BY <1>5 DEF Init, HandleInv
<1>7. BufferInv
  BY <1>2 DEF BufferInv, Init
<1>8. \A k, id : Acting(k, id) = {}
  BY <1>2 DEF Acting
<1>9. \A k, id : Adds(k, id) = {} /\ Removes(k, id) = {} /\ Uses(k, id) = {}
  BY <1>8 DEF Adds, Removes, Uses
<1>10. ASSUME NEW k \in Kinds PROVE BatchInv(k) /\ SlotInv(k)
  <2>1. BatchInv(k)
    BY <1>5, <1>9 DEF BatchInv, Absent, PendingAdd, PendingRemove
  <2>2. SlotInv(k)
    BY <1>5, <1>9 DEF SlotInv
  <2> QED BY <2>1, <2>2
<1> QED BY <1>3, <1>4, <1>6, <1>7, <1>10 DEF IInv

-----------------------------------------------------------------------------
\* A step that leaves the buffer alone leaves the positions in it alone.
LEMMA SamePositions ==
    ASSUME commandBuffer' = commandBuffer, NEW k, NEW id
    PROVE  /\ Adds(k, id)' = Adds(k, id)
           /\ Removes(k, id)' = Removes(k, id)
           /\ Uses(k, id)' = Uses(k, id)
BY DEF Adds, Removes, Uses, Acting

\* A call that failed and was taken back preserves the invariant.
LEMMA PoolStep ==
    ASSUME IInv, NEW k \in Kinds, NEW b \in Allocator, Consistent(b),
           OnlyPoolChanged(ids[k], b), ids' = [ids EXCEPT ![k] = b], UNCHANGED vars0
    PROVE  IInv'
<1> USE DEF vars0
<1>1. TypeOK'
  BY DEF IInv, TypeOK
<1>2. \A j \in Kinds : ids'[j] = IF j = k THEN b ELSE ids[j]
  BY DEF IInv, TypeOK
<1>3. AllocatorConsistent'
  BY <1>2 DEF IInv, AllocatorConsistent
<1>4. ASSUME NEW j \in Kinds, NEW id \in Ids
      PROVE  /\ ids'[j].highWaterMark = ids[j].highWaterMark
             /\ ids'[j].committedHighWaterMark = ids[j].committedHighWaterMark
             /\ ids'[j].states[id] = ids[j].states[id] \/
                  (ids[j].states[id] = "FREE" /\ ids'[j].states[id] = "RETIRED")
             /\ ids'[j].generations[id] >= ids[j].generations[id]
             /\ ids[j].states[id] # "FREE" => ids'[j].generations[id] = ids[j].generations[id]
             /\ ids'[j].generations[id] \in Nat /\ ids[j].generations[id] \in Nat
  <2>1. ids[j].generations[id] \in Nat /\ b.generations[id] \in Nat
    BY GenerationsAssumption DEF IInv, TypeOK, Allocator, Generation
  <2>2. ids[k].generations[id] \in Nat
    BY GenerationsAssumption DEF IInv, TypeOK, Allocator, Generation
  <2> QED BY <1>2, <2>1, <2>2 DEF OnlyPoolChanged
<1>5. ASSUME NEW j \in Kinds PROVE HandleInv(j)'
  <2>1. \A h \in handles : h.id \in Ids /\ h.generation \in Nat
    BY GenerationsAssumption DEF IInv, TypeOK, Handle, Generation
  <2>2. HandleInv(j)
    BY DEF IInv
  <2> QED BY <1>4, <2>1, <2>2 DEF HandleInv
<1>6. BufferInv' <=> BufferInv
  BY DEF BufferInv
<1>7. ASSUME NEW j \in Kinds, BatchInv(j) PROVE BatchInv(j)'
  <2> USE SamePositions
  <2> QED BY <1>4, <1>7 DEF BatchInv, Absent, PendingAdd, PendingRemove
<1>8. ASSUME NEW j \in Kinds, SlotInv(j) PROVE SlotInv(j)'
  <2>1. /\ ids'[j].highWaterMark = ids[j].highWaterMark
        /\ ids'[j].committedHighWaterMark = ids[j].committedHighWaterMark
    BY <1>2 DEF OnlyPoolChanged
  <2> QED BY <1>8, <2>1, SamePositions DEF SlotInv
<1> QED BY <1>1, <1>3, <1>5, <1>6, <1>7, <1>8 DEF IInv

-----------------------------------------------------------------------------
\* A call that appends a command leaves the commands before it alone.
LEMMA AppendBuffer ==
    ASSUME TypeOK, NEW tag \in Tags, NEW targets \in SUBSET Object,
           AppendCommand(tag, targets)
    PROVE  /\ commandBuffer' \in Seq(Command)
           /\ Len(commandBuffer') = Len(commandBuffer) + 1
           /\ Len(commandBuffer) \in Nat
           /\ DOMAIN commandBuffer = 1..Len(commandBuffer)
           /\ DOMAIN commandBuffer' = DOMAIN commandBuffer \cup {Len(commandBuffer) + 1}
           /\ commandBuffer'[Len(commandBuffer) + 1] = [tag |-> tag, targets |-> targets]
           /\ \A p \in DOMAIN commandBuffer : commandBuffer'[p] = commandBuffer[p]
<1> DEFINE c == [tag |-> tag, targets |-> targets]
           n == Len(commandBuffer)
<1>1. commandBuffer \in Seq(Command) /\ c \in Command
  BY DEF TypeOK, Command
<1>2. commandBuffer' = Append(commandBuffer, c)
  BY DEF AppendCommand
<1>3. /\ commandBuffer' \in Seq(Command)
      /\ Len(commandBuffer') = n + 1
      /\ n \in Nat
      /\ DOMAIN commandBuffer = 1..n
      /\ DOMAIN commandBuffer' = 1..(n + 1)
      /\ commandBuffer'[n + 1] = c
      /\ \A p \in 1..n : commandBuffer'[p] = commandBuffer[p]
  BY <1>1, <1>2, AppendFacts
<1>4. 1..(n + 1) = (1..n) \cup {n + 1}
  BY <1>3
<1> QED BY <1>3, <1>4

\* ... and adds one position, above all others, for each of its targets.
NewPosition(targets, k, id) ==
    IF <<k, id>> \in targets THEN {Len(commandBuffer) + 1} ELSE {}

LEMMA AppendPositions ==
    ASSUME TypeOK, NEW tag \in Tags, NEW targets \in SUBSET Object,
           AppendCommand(tag, targets), NEW k, NEW id
    PROVE  /\ \A p \in Adds(k, id) \cup Removes(k, id) \cup Uses(k, id) :
                p \in 1..Len(commandBuffer)
           /\ Adds(k, id)' = (IF tag = "add" THEN Adds(k, id) \cup NewPosition(targets, k, id)
                                            ELSE Adds(k, id))
           /\ Removes(k, id)' = (IF tag = "remove" THEN Removes(k, id) \cup NewPosition(targets, k, id)
                                                  ELSE Removes(k, id))
           /\ Uses(k, id)' = (IF tag \in {"add", "remove"}
                              THEN Uses(k, id) ELSE Uses(k, id) \cup NewPosition(targets, k, id))
<1> DEFINE n == Len(commandBuffer)
           new == NewPosition(targets, k, id)
<1>1. /\ n \in Nat
      /\ DOMAIN commandBuffer = 1..n
      /\ DOMAIN commandBuffer' = 1..n \cup {n + 1}
      /\ commandBuffer'[n + 1] = [tag |-> tag, targets |-> targets]
      /\ \A p \in 1..n : commandBuffer'[p] = commandBuffer[p]
  BY AppendBuffer
<1>2. n + 1 \notin 1..n
  BY <1>1
<1>3. new = IF <<k, id>> \in targets THEN {n + 1} ELSE {}
  BY DEF NewPosition
<1> HIDE DEF n, new
<1>4. Acting(k, id)' = Acting(k, id) \cup new
  BY <1>1, <1>2, <1>3 DEF Acting
<1>5. \A p \in Acting(k, id) : p \in 1..n
  BY <1>1 DEF Acting
<1>6. Adds(k, id)' = Adds(k, id) \cup IF tag = "add" THEN new ELSE {}
  BY <1>1, <1>2, <1>3, <1>4, <1>5 DEF Adds
<1>7. Removes(k, id)' = Removes(k, id) \cup IF tag = "remove" THEN new ELSE {}
  BY <1>1, <1>2, <1>3, <1>4, <1>5 DEF Removes
<1>8. n + 1 \notin Adds(k, id) \cup Removes(k, id) \cup Acting(k, id)
  BY <1>2, <1>5 DEF Adds, Removes
<1>9. Uses(k, id)' = Uses(k, id) \cup IF tag \in {"add", "remove"} THEN {} ELSE new
  BY <1>3, <1>4, <1>6, <1>7, <1>8 DEF Uses
<1>10. \A p \in Adds(k, id) \cup Removes(k, id) \cup Uses(k, id) : p \in 1..n
  BY <1>5 DEF Adds, Removes, Uses
<1> QED BY <1>6, <1>7, <1>9, <1>10 DEF n, new

\* The same for each kind of command.
LEMMA AppendAddPositions ==
    ASSUME TypeOK, NEW targets \in SUBSET Object, AppendCommand("add", targets), NEW k, NEW id
    PROVE  /\ \A p \in Adds(k, id) \cup Removes(k, id) \cup Uses(k, id) :
                p \in 1..Len(commandBuffer)
           /\ Adds(k, id)' = Adds(k, id) \cup NewPosition(targets, k, id)
           /\ Removes(k, id)' = Removes(k, id)
           /\ Uses(k, id)' = Uses(k, id)
<1>1. "add" \in Tags
  BY DEF Tags
<1> QED BY <1>1, AppendPositions

LEMMA AppendRemovePositions ==
    ASSUME TypeOK, NEW targets \in SUBSET Object, AppendCommand("remove", targets), NEW k, NEW id
    PROVE  /\ \A p \in Adds(k, id) \cup Removes(k, id) \cup Uses(k, id) :
                p \in 1..Len(commandBuffer)
           /\ Adds(k, id)' = Adds(k, id)
           /\ Removes(k, id)' = Removes(k, id) \cup NewPosition(targets, k, id)
           /\ Uses(k, id)' = Uses(k, id)
<1>1. "remove" \in Tags
  BY DEF Tags
<1> QED BY <1>1, AppendPositions

LEMMA AppendUsePositions ==
    ASSUME TypeOK, NEW tag \in Tags \ {"add", "remove"}, NEW targets \in SUBSET Object,
           AppendCommand(tag, targets), NEW k, NEW id
    PROVE  /\ \A p \in Adds(k, id) \cup Removes(k, id) \cup Uses(k, id) :
                p \in 1..Len(commandBuffer)
           /\ Adds(k, id)' = Adds(k, id)
           /\ Removes(k, id)' = Removes(k, id)
           /\ Uses(k, id)' = Uses(k, id) \cup NewPosition(targets, k, id)
BY AppendPositions

\* BatchInv(k) for one ID, and HandleInv(k) for one ID.
IdBatchInv(k, id) ==
    /\ Adds(k, id) # {} <=> ids[k].states[id] \in PendingAdd
    /\ Removes(k, id) # {} <=> ids[k].states[id] \in PendingRemove
    /\ Uses(k, id) # {} => ids[k].states[id] \notin Absent
    /\ \A p, q \in Adds(k, id) : p = q
    /\ \A p, q \in Removes(k, id) : p = q
    /\ \A p \in Adds(k, id), q \in Uses(k, id) \cup Removes(k, id) : p < q
    /\ \A q \in Uses(k, id), r \in Removes(k, id) : q < r
    /\ id \in native[k].occupied <=>
         /\ ids[k].states[id] \notin Absent
         /\ \A p \in Adds(k, id) : p <= applied
         /\ \A r \in Removes(k, id) : r > applied

LEMMA BatchInvById ==
    ASSUME NEW k
    PROVE  BatchInv(k) <=> \A id \in Ids : IdBatchInv(k, id)
BY DEF BatchInv, IdBatchInv

\* Adding an object preserves the invariant.
LEMMA AddObjectStep ==
    ASSUME IInv, NEW k \in Kinds, AddObject(k)
    PROVE  IInv'
<1> USE MaxIdAssumption, GenerationsAssumption
<1> DEFINE a == ids[k]
           n == Len(commandBuffer)
<1>1. /\ TypeOK /\ AllocatorConsistent /\ BufferInv
      /\ \A j \in Kinds : HandleInv(j) /\ BatchInv(j) /\ SlotInv(j)
      /\ open /\ ~poisoned /\ ~applying
  BY DEF AddObject, RequireUsable, IInv
<1>2. PICK r \in Reservations(a) :
        /\ ids' = [ids EXCEPT ![k] = r.allocator]
        /\ AppendCommand("add", {<<k, r.id>>})
        /\ handles' = handles \cup
             {[kind |-> k, id |-> r.id, generation |-> r.allocator.generations[r.id]]}
        /\ UNCHANGED <<applying, applied, native, poisoned, open>>
  BY DEF AddObject
<1>3. a \in Allocator /\ Consistent(a)
  BY <1>1 DEF TypeOK, AllocatorConsistent
<1> DEFINE b == r.allocator
           new == r.id
<1>4. b \in Allocator /\ Consistent(b) /\ Reserved(a, r)
  BY <1>3, ReservationProperties
<1>5. /\ new \in Ids
      /\ b.states[new] = "PENDING_ADD"
      /\ a.states[new] \in {"FREE", "UNUSED"}
      /\ \A id \in Ids \ {new} :
           /\ b.generations[id] = a.generations[id]
           /\ b.states[id] = a.states[id] \/ (a.states[id] = "FREE" /\ b.states[id] = "RETIRED")
      /\ b.generations[new] > a.generations[new]
      /\ b.committedHighWaterMark = a.committedHighWaterMark
      /\ a.states[new] = "FREE" =>
           b.highWaterMark = a.highWaterMark /\ new <= a.committedHighWaterMark
      /\ a.states[new] = "UNUSED" =>
           b.highWaterMark = a.highWaterMark + 1 /\ new = a.highWaterMark + 1
  BY <1>4 DEF Reserved
<1>6. {<<k, new>>} \in SUBSET Object /\ "add" \in Tags
  BY <1>5 DEF Object, Tags
<1>7. /\ commandBuffer' \in Seq(Command)
      /\ Len(commandBuffer') = n + 1
      /\ n \in Nat
      /\ DOMAIN commandBuffer = 1..n
      /\ DOMAIN commandBuffer' = DOMAIN commandBuffer \cup {n + 1}
      /\ commandBuffer'[n + 1] = [tag |-> "add", targets |-> {<<k, new>>}]
      /\ \A p \in DOMAIN commandBuffer : commandBuffer'[p] = commandBuffer[p]
  BY <1>1, <1>2, <1>6, AppendBuffer
<1>8. \A j, id :
        /\ \A p \in Adds(j, id) \cup Removes(j, id) \cup Uses(j, id) : p \in 1..n
        /\ Adds(j, id)' = Adds(j, id) \cup IF j = k /\ id = new THEN {n + 1} ELSE {}
        /\ Removes(j, id)' = Removes(j, id)
        /\ Uses(j, id)' = Uses(j, id)
  <2> TAKE j, id
  <2>1. /\ \A p \in Adds(j, id) \cup Removes(j, id) \cup Uses(j, id) : p \in 1..n
        /\ Adds(j, id)' = Adds(j, id) \cup NewPosition({<<k, new>>}, j, id)
        /\ Removes(j, id)' = Removes(j, id)
        /\ Uses(j, id)' = Uses(j, id)
    BY <1>1, <1>2, <1>6, AppendAddPositions
  <2>2. NewPosition({<<k, new>>}, j, id) = IF j = k /\ id = new THEN {n + 1} ELSE {}
    BY DEF NewPosition
  <2> QED BY <2>1, <2>2
<1>9. \A j \in Kinds : ids'[j] = IF j = k THEN b ELSE ids[j]
  BY <1>1, <1>2 DEF TypeOK
<1> HIDE DEF b, new, n
<1>10. TypeOK'
  <2>1. ids' \in [Kinds -> Allocator]
    BY <1>1, <1>2, <1>4 DEF TypeOK, b
  <2>2. [kind |-> k, id |-> new, generation |-> b.generations[new]] \in Handle
    BY <1>4, <1>5 DEF Allocator, Handle
  <2> QED BY <1>1, <1>2, <1>7, <2>1, <2>2 DEF TypeOK, b, new
<1>11. AllocatorConsistent'
  BY <1>1, <1>4, <1>9 DEF AllocatorConsistent
<1>12. ASSUME NEW j \in Kinds PROVE HandleInv(j)'
  <2>1. HandleInv(j)
    BY <1>1
  <2>2. CASE j # k
    BY <1>2, <1>9, <2>1, <2>2 DEF HandleInv
  <2>3. CASE j = k
    <3>1. \A h \in handles : h.kind = k =>
            h.id \in Ids /\ h.generation \in Nat /\ h.generation <= a.generations[h.id]
      BY <1>1, <2>1, <2>3 DEF HandleInv, TypeOK, Handle, Generation
    <3>2. \A id \in Ids : a.generations[id] \in Nat /\ b.generations[id] \in Nat
      BY <1>3, <1>4 DEF Allocator, Generation
    <3>3. ASSUME NEW h \in handles', h.kind = k
          PROVE  b.states[h.id] # "UNUSED" /\ h.generation <= b.generations[h.id]
      <4>1. CASE h = [kind |-> k, id |-> new, generation |-> b.generations[new]]
        BY <1>5, <3>2, <4>1
      <4>2. CASE h \in handles
        <5>1. a.states[h.id] # "UNUSED"
          BY <2>1, <2>3, <3>3, <4>2 DEF HandleInv
        <5>2. CASE h.id = new
          BY <1>5, <3>1, <3>2, <3>3, <4>2, <5>2
        <5>3. CASE h.id # new
          BY <1>5, <3>1, <3>2, <3>3, <4>2, <5>1, <5>3
        <5> QED BY <5>2, <5>3
      <4> QED BY <1>2, <4>1, <4>2 DEF b, new
    <3>4. ASSUME NEW id \in Ids, b.states[id] \in {"LIVE", "PENDING_ADD"}
          PROVE  [kind |-> k, id |-> id, generation |-> b.generations[id]] \in handles'
      BY <1>2, <1>5, <2>1, <2>3, <3>4 DEF HandleInv, b, new
    <3> QED BY <1>9, <2>3, <3>3, <3>4 DEF HandleInv
  <2> QED BY <2>2, <2>3
<1>13. applied = 0 /\ applied' = 0
  BY <1>1, <1>2 DEF BufferInv
<1>14. BufferInv'
  <2>1. \A p \in DOMAIN commandBuffer' : commandBuffer'[p].tag \in {"add", "remove"} =>
          \E t \in Object : commandBuffer'[p].targets = {t}
    BY <1>1, <1>6, <1>7 DEF BufferInv
  <2> QED BY <1>1, <1>2, <1>7, <1>13, <2>1 DEF BufferInv
<1>15. ASSUME NEW j \in Kinds PROVE BatchInv(j)'
  <2>1. \A id \in Ids : IdBatchInv(j, id)
    BY <1>1, BatchInvById
  <2>2. ASSUME NEW id \in Ids, ~(j = k /\ id = new) PROVE IdBatchInv(j, id)'
    <3>1. /\ Adds(j, id)' = Adds(j, id) /\ Removes(j, id)' = Removes(j, id)
          /\ Uses(j, id)' = Uses(j, id)
      BY <1>8, <2>2
    <3>2. \/ ids'[j].states[id] = ids[j].states[id]
          \/ ids[j].states[id] = "FREE" /\ ids'[j].states[id] = "RETIRED"
      BY <1>5, <1>9, <2>2
    <3> QED BY <1>2, <2>1, <3>1, <3>2 DEF IdBatchInv, Absent, PendingAdd, PendingRemove
  <2>3. ASSUME j = k PROVE IdBatchInv(k, new)'
    <3>1. Adds(k, new) = {} /\ Removes(k, new) = {} /\ Uses(k, new) = {} /\
            new \notin native[k].occupied
      BY <1>5, <2>1, <2>3 DEF IdBatchInv, Absent, PendingAdd, PendingRemove
    <3>2. Adds(k, new)' = {n + 1} /\ Removes(k, new)' = {} /\ Uses(k, new)' = {}
      BY <1>8, <3>1
    <3>3. ids'[k].states[new] = "PENDING_ADD"
      BY <1>5, <1>9
    <3>4. ~(n + 1 <= applied')
      BY <1>7, <1>13
    <3> QED BY <1>2, <3>1, <3>2, <3>3, <3>4 DEF IdBatchInv, Absent, PendingAdd, PendingRemove
  <2>4. \A id \in Ids : IdBatchInv(j, id)'
    BY <1>5, <2>2, <2>3
  <2> QED BY <2>4 DEF BatchInv, IdBatchInv
<1>16. ASSUME NEW j \in Kinds PROVE SlotInv(j)'
  <2>1. SlotInv(j)
    BY <1>1
  <2>2. CASE j # k
    BY <1>2, <1>8, <1>9, <2>1, <2>2 DEF SlotInv
  <2>3. CASE j = k
    <3>1. /\ a.highWaterMark \in Nat /\ a.committedHighWaterMark \in Nat
          /\ native[k].slots \in Nat /\ a.committedHighWaterMark <= a.highWaterMark
          /\ native'[k] = native[k] /\ ids'[k] = b
          /\ native[k].slots <= a.highWaterMark
          /\ b.committedHighWaterMark = a.committedHighWaterMark
      BY <1>1, <1>2, <1>3, <1>5, <1>9, <2>1, <2>3 DEF TypeOK, Allocator, SlotInv, Consistent
    <3>2. /\ \A id \in 1..a.highWaterMark :
               id <= native[k].slots <=>
                 id <= a.committedHighWaterMark \/ \E p \in Adds(k, id) : p <= applied
          /\ \A i, j1 \in (a.committedHighWaterMark + 1)..a.highWaterMark : i < j1 =>
               \A p \in Adds(k, i), q \in Adds(k, j1) : p < q
      BY <2>1, <2>3 DEF SlotInv
    <3>3. \A id : Adds(k, id)' = Adds(k, id) \cup IF id = new THEN {n + 1} ELSE {}
      BY <1>8
    <3>4. ~(n + 1 <= applied') /\ applied' = applied
      BY <1>2, <1>7, <1>13
    <3>5. \A id : \A p \in Adds(k, id) : p \in Nat /\ p < n + 1
      BY <1>7, <1>8
    <3>6. CASE a.states[new] = "FREE"
      <4>1. b.highWaterMark = a.highWaterMark /\ new <= a.committedHighWaterMark /\ new \in Nat
        BY <1>5, <3>6 DEF Ids
      <4>2. \A i \in (a.committedHighWaterMark + 1)..a.highWaterMark : i # new
        BY <3>1, <4>1
      <4> QED BY <2>3, <3>1, <3>2, <3>3, <3>4, <4>1, <4>2 DEF SlotInv
    <3>7. CASE a.states[new] = "UNUSED"
      <4>1. b.highWaterMark = a.highWaterMark + 1 /\ new = a.highWaterMark + 1
        BY <1>5, <3>7
      <4>2. \A i \in 1..b.highWaterMark : i = new \/ i \in 1..a.highWaterMark
        BY <3>1, <4>1
      <4>3. \A i \in 1..b.highWaterMark :
              i <= native[k].slots <=>
                i <= a.committedHighWaterMark \/ \E p \in Adds(k, i)' : p <= applied'
        <5>1. ~(new <= native[k].slots) /\ ~(new <= a.committedHighWaterMark)
          BY <3>1, <4>1
        <5>2. Adds(k, new) = {}
          <6>1. IdBatchInv(k, new)
            BY <1>1, <1>5, BatchInvById
          <6> QED BY <3>7, <6>1 DEF IdBatchInv, PendingAdd
        <5>3. \A i \in 1..a.highWaterMark : i # new
          BY <3>1, <4>1
        <5> QED BY <3>2, <3>3, <3>4, <4>2, <5>1, <5>2, <5>3
      <4>4. ASSUME NEW i \in (a.committedHighWaterMark + 1)..b.highWaterMark,
                   NEW l \in (a.committedHighWaterMark + 1)..b.highWaterMark, i < l,
                   NEW p \in Adds(k, i)', NEW q \in Adds(k, l)'
            PROVE  p < q
        <5>1. i \in (a.committedHighWaterMark + 1)..a.highWaterMark /\ i # new
          BY <3>1, <4>1, <4>4
        <5>2. p \in Adds(k, i)
          BY <3>3, <5>1
        <5>3. CASE l = new
          <6>1. Adds(k, new) = {}
            <7>1. IdBatchInv(k, new)
              BY <1>1, <1>5, BatchInvById
            <7> QED BY <3>7, <7>1 DEF IdBatchInv, PendingAdd
          <6> QED BY <3>3, <3>5, <5>2, <5>3, <6>1
        <5>4. CASE l # new
          <6>1. l \in (a.committedHighWaterMark + 1)..a.highWaterMark /\ q \in Adds(k, l)
            BY <3>1, <3>3, <4>1, <5>4
          <6> QED BY <3>2, <4>4, <5>1, <5>2, <6>1
        <5> QED BY <5>3, <5>4
      <4>5. native[k].slots <= b.highWaterMark
        BY <3>1, <4>1
      <4> QED BY <2>3, <3>1, <4>3, <4>4, <4>5 DEF SlotInv
    <3> QED BY <1>5, <3>6, <3>7
  <2> QED BY <2>2, <2>3
<1> QED BY <1>10, <1>11, <1>12, <1>14, <1>15, <1>16 DEF IInv

\* Removing an object preserves the invariant.
LEMMA RemoveObjectStep ==
    ASSUME IInv, NEW h \in handles, RemoveObject(h)
    PROVE  IInv'
<1> USE MaxIdAssumption, GenerationsAssumption
<1> DEFINE k == h.kind
           id == h.id
           n == Len(commandBuffer)
<1>1. /\ TypeOK /\ AllocatorConsistent /\ BufferInv
      /\ \A j \in Kinds : HandleInv(j) /\ BatchInv(j) /\ SlotInv(j)
      /\ open /\ ~poisoned /\ ~applying
  BY DEF RemoveObject, RequireUsable, IInv
<1>2. k \in Kinds /\ id \in Ids
  BY <1>1 DEF TypeOK, Handle
<1> DEFINE a == ids[k]
           b == Remove(a, id)
<1>3. /\ IsUsable(a, id, h.generation)
      /\ ids' = [ids EXCEPT ![k] = b]
      /\ AppendCommand("remove", {<<k, id>>})
      /\ UNCHANGED <<applying, applied, native, poisoned, open, handles>>
  BY DEF RemoveObject, CanRemove, TargetOf
<1>4. a \in Allocator /\ Consistent(a) /\ a.states[id] \in {"LIVE", "PENDING_ADD"}
  BY <1>1, <1>2, <1>3 DEF TypeOK, AllocatorConsistent, IsUsable
<1>5. /\ b \in Allocator
      /\ Consistent(b)
      /\ b.states = [a.states EXCEPT ![id] =
                       IF a.states[id] = "LIVE" THEN "PENDING_REMOVE" ELSE "PENDING_ADD_REMOVE"]
      /\ b.generations = a.generations
      /\ b.highWaterMark = a.highWaterMark
      /\ b.committedHighWaterMark = a.committedHighWaterMark
  BY <1>2, <1>4, RemoveProperties
<1>6. /\ a.states[id] = "LIVE" => b.states[id] = "PENDING_REMOVE"
      /\ a.states[id] = "PENDING_ADD" => b.states[id] = "PENDING_ADD_REMOVE"
      /\ \A i \in Ids \ {id} : b.states[i] = a.states[i]
  BY <1>2, <1>4, <1>5 DEF Allocator
<1>7. {<<k, id>>} \in SUBSET Object /\ "remove" \in Tags
  BY <1>2 DEF Object, Tags
<1>8. /\ commandBuffer' \in Seq(Command)
      /\ Len(commandBuffer') = n + 1
      /\ n \in Nat
      /\ DOMAIN commandBuffer = 1..n
      /\ DOMAIN commandBuffer' = DOMAIN commandBuffer \cup {n + 1}
      /\ commandBuffer'[n + 1] = [tag |-> "remove", targets |-> {<<k, id>>}]
      /\ \A p \in DOMAIN commandBuffer : commandBuffer'[p] = commandBuffer[p]
  BY <1>1, <1>3, <1>7, AppendBuffer
<1>9. \A j, i :
        /\ \A p \in Adds(j, i) \cup Removes(j, i) \cup Uses(j, i) : p \in 1..n
        /\ Adds(j, i)' = Adds(j, i)
        /\ Removes(j, i)' = Removes(j, i) \cup IF j = k /\ i = id THEN {n + 1} ELSE {}
        /\ Uses(j, i)' = Uses(j, i)
  <2> TAKE j, i
  <2>1. /\ \A p \in Adds(j, i) \cup Removes(j, i) \cup Uses(j, i) : p \in 1..n
        /\ Adds(j, i)' = Adds(j, i)
        /\ Removes(j, i)' = Removes(j, i) \cup NewPosition({<<k, id>>}, j, i)
        /\ Uses(j, i)' = Uses(j, i)
    BY <1>1, <1>3, <1>7, AppendRemovePositions
  <2>2. NewPosition({<<k, id>>}, j, i) = IF j = k /\ i = id THEN {n + 1} ELSE {}
    BY DEF NewPosition
  <2> QED BY <2>1, <2>2
<1> HIDE DEF b, n, k, id
<1>10. \A j \in Kinds : ids'[j] = IF j = k THEN b ELSE ids[j]
  BY <1>1, <1>3 DEF TypeOK
<1>11. TypeOK'
  <2>1. ids' \in [Kinds -> Allocator]
    BY <1>1, <1>3, <1>5 DEF TypeOK
  <2> QED BY <1>1, <1>3, <1>8, <2>1 DEF TypeOK
<1>12. AllocatorConsistent'
  BY <1>1, <1>5, <1>10 DEF AllocatorConsistent
<1>13. ASSUME NEW j \in Kinds PROVE HandleInv(j)'
  <2>1. HandleInv(j)
    BY <1>1
  <2>2. \A g \in handles : g.id \in Ids
    BY <1>1 DEF TypeOK, Handle
  <2>3. \A i \in Ids :
          /\ ids'[j].generations[i] = ids[j].generations[i]
          /\ ids'[j].states[i] = ids[j].states[i] \/
               /\ ids[j].states[i] \in {"LIVE", "PENDING_ADD"}
               /\ ids'[j].states[i] \in {"PENDING_REMOVE", "PENDING_ADD_REMOVE"}
    BY <1>4, <1>5, <1>6, <1>10
  <2> QED BY <1>3, <2>1, <2>2, <2>3 DEF HandleInv
<1>14. applied = 0 /\ applied' = 0
  BY <1>1, <1>3 DEF BufferInv
<1>15. BufferInv'
  <2>1. \A p \in DOMAIN commandBuffer' : commandBuffer'[p].tag \in {"add", "remove"} =>
          \E t \in Object : commandBuffer'[p].targets = {t}
    BY <1>1, <1>7, <1>8 DEF BufferInv
  <2> QED BY <1>1, <1>3, <1>8, <1>14, <2>1 DEF BufferInv
<1>16. ASSUME NEW j \in Kinds PROVE BatchInv(j)'
  <2>1. \A i \in Ids : IdBatchInv(j, i)
    BY <1>1, BatchInvById
  <2>2. ASSUME NEW i \in Ids, ~(j = k /\ i = id) PROVE IdBatchInv(j, i)'
    <3>1. /\ Adds(j, i)' = Adds(j, i) /\ Removes(j, i)' = Removes(j, i)
          /\ Uses(j, i)' = Uses(j, i)
      BY <1>9, <2>2
    <3>2. ids'[j].states[i] = ids[j].states[i]
      BY <1>6, <1>10, <2>2
    <3> QED BY <1>3, <2>1, <3>1, <3>2 DEF IdBatchInv
  <2>3. ASSUME j = k PROVE IdBatchInv(k, id)'
    <3>1. IdBatchInv(k, id)
      BY <1>2, <2>1, <2>3
    <3>2. Removes(k, id) = {}
      BY <1>4, <3>1 DEF IdBatchInv, PendingRemove
    <3>3. /\ Adds(k, id)' = Adds(k, id) /\ Removes(k, id)' = {n + 1}
          /\ Uses(k, id)' = Uses(k, id)
      BY <1>9, <3>2
    <3>4. \A p \in Adds(k, id) \cup Uses(k, id) : p < n + 1 /\ ~(p <= 0)
      BY <1>8, <1>9
    <3>5. ids'[k] = b /\ n + 1 > 0
      BY <1>2, <1>8, <1>10
    <3> QED BY <1>3, <1>4, <1>6, <1>14, <3>1, <3>2, <3>3, <3>4, <3>5
            DEF IdBatchInv, Absent, PendingAdd, PendingRemove
  <2>4. \A i \in Ids : IdBatchInv(j, i)'
    BY <1>2, <2>2, <2>3
  <2> QED BY <2>4 DEF BatchInv, IdBatchInv
<1>17. ASSUME NEW j \in Kinds PROVE SlotInv(j)'
  <2>1. SlotInv(j)
    BY <1>1
  <2>2. /\ ids'[j].highWaterMark = ids[j].highWaterMark
        /\ ids'[j].committedHighWaterMark = ids[j].committedHighWaterMark
    BY <1>5, <1>10
  <2> QED BY <1>3, <1>9, <2>1, <2>2 DEF SlotInv
<1> QED BY <1>11, <1>12, <1>13, <1>15, <1>16, <1>17 DEF IInv

\* Using objects preserves the invariant.
LEMMA UseObjectsStep ==
    ASSUME IInv, NEW tag \in Tags \ {"add", "remove"}, NEW hs \in SUBSET handles,
           UseObjects(tag, hs)
    PROVE  IInv'
<1> DEFINE targets == {TargetOf(h) : h \in hs}
           n == Len(commandBuffer)
<1>1. /\ TypeOK /\ AllocatorConsistent /\ BufferInv
      /\ \A j \in Kinds : HandleInv(j) /\ BatchInv(j) /\ SlotInv(j)
      /\ open /\ ~poisoned /\ ~applying
  BY DEF UseObjects, RequireUsable, IInv
<1>2. /\ AppendCommand(tag, targets)
      /\ UNCHANGED <<ids, applying, applied, native, poisoned, open, handles>>
  BY DEF UseObjects
<1>3. \A t \in targets : /\ t \in Object
                         /\ ids[t[1]].states[t[2]] \in {"LIVE", "PENDING_ADD"}
  BY <1>1 DEF UseObjects, TypeOK, Handle, Object, TargetOf, HandleUsable, IsUsable
<1> HIDE DEF targets
<1>4. targets \in SUBSET Object
  BY <1>3
<1>5. /\ commandBuffer' \in Seq(Command)
      /\ Len(commandBuffer') = n + 1
      /\ n \in Nat
      /\ DOMAIN commandBuffer = 1..n
      /\ DOMAIN commandBuffer' = DOMAIN commandBuffer \cup {n + 1}
      /\ commandBuffer'[n + 1] = [tag |-> tag, targets |-> targets]
      /\ \A p \in DOMAIN commandBuffer : commandBuffer'[p] = commandBuffer[p]
  BY <1>1, <1>2, <1>4, AppendBuffer
<1>6. \A j, i :
        /\ \A p \in Adds(j, i) \cup Removes(j, i) \cup Uses(j, i) : p \in 1..n
        /\ Adds(j, i)' = Adds(j, i)
        /\ Removes(j, i)' = Removes(j, i)
        /\ Uses(j, i)' = Uses(j, i) \cup NewPosition(targets, j, i)
  BY <1>1, <1>2, <1>4, AppendUsePositions
<1>7. TypeOK'
  BY <1>1, <1>2, <1>5 DEF TypeOK
<1>8. AllocatorConsistent'
  BY <1>1, <1>2 DEF AllocatorConsistent
<1>9. \A j \in Kinds : HandleInv(j)'
  BY <1>1, <1>2 DEF HandleInv
<1>10. BufferInv'
  <2>1. \A p \in DOMAIN commandBuffer' : commandBuffer'[p].tag \in {"add", "remove"} =>
          \E t \in Object : commandBuffer'[p].targets = {t}
    BY <1>1, <1>5 DEF BufferInv
  <2>2. applied' = 0
    BY <1>1, <1>2 DEF BufferInv
  <2> QED BY <1>1, <1>2, <1>5, <2>1, <2>2 DEF BufferInv
<1>11. ASSUME NEW j \in Kinds PROVE BatchInv(j)'
  <2>1. ASSUME NEW i \in Ids PROVE IdBatchInv(j, i)'
    <3>1. IdBatchInv(j, i)
      BY <1>1, BatchInvById
    <3>2. CASE <<j, i>> \notin targets
      <4>1. Uses(j, i)' = Uses(j, i)
        BY <1>6, <3>2 DEF NewPosition
      <4> QED BY <1>2, <1>6, <3>1, <4>1 DEF IdBatchInv
    <3>3. CASE <<j, i>> \in targets
      <4>1. ids[j].states[i] \in {"LIVE", "PENDING_ADD"}
        BY <1>3, <3>3
      <4>2. Removes(j, i) = {}
        BY <3>1, <4>1 DEF IdBatchInv, PendingRemove
      <4>3. Uses(j, i)' = Uses(j, i) \cup {n + 1}
        BY <1>6, <3>3 DEF NewPosition
      <4>4. \A p \in Adds(j, i) : p < n + 1
        BY <1>5, <1>6
      <4> QED BY <1>2, <1>6, <3>1, <4>1, <4>2, <4>3, <4>4 DEF IdBatchInv, Absent
    <3> QED BY <3>2, <3>3
  <2> QED BY <2>1 DEF BatchInv, IdBatchInv
<1>12. \A j \in Kinds : SlotInv(j)'
  BY <1>1, <1>2, <1>6 DEF SlotInv
<1> QED BY <1>7, <1>8, <1>9, <1>10, <1>11, <1>12 DEF IInv

-----------------------------------------------------------------------------
\* A call that fails is taken back, and the world stays usable.
LEMMA AddObjectFailsStep ==
    ASSUME IInv, NEW k \in Kinds, AddObjectFails(k)
    PROVE  IInv' /\ ~poisoned'
<1>1. PICK r \in Reservations(ids[k]) :
        LET rollback == CanCancelPendingAdd(r.allocator, r.id, r.allocator.generations[r.id])
        IN  /\ ids' = [ids EXCEPT ![k] = IF rollback THEN CancelPendingAdd(r.allocator, r.id)
                                                     ELSE r.allocator]
            /\ poisoned' = ~rollback
  BY DEF AddObjectFails
<1> DEFINE b == CancelPendingAdd(r.allocator, r.id)
<1>2. ids[k] \in Allocator /\ Consistent(ids[k])
  BY DEF IInv, TypeOK, AllocatorConsistent
<1>3. /\ CanCancelPendingAdd(r.allocator, r.id, r.allocator.generations[r.id])
      /\ b \in Allocator /\ Consistent(b) /\ OnlyPoolChanged(ids[k], b)
  BY <1>2, RollbackAddProperties
<1>4. ids' = [ids EXCEPT ![k] = b] /\ poisoned' = FALSE
  BY <1>1, <1>3
<1>5. UNCHANGED vars0
  BY <1>4 DEF AddObjectFails, RequireUsable, vars0, IInv, TypeOK
<1> HIDE DEF b
<1> QED BY <1>3, <1>4, <1>5, PoolStep

LEMMA AddObjectExhaustedStep ==
    ASSUME IInv, NEW k \in Kinds, AddObjectExhausted(k)
    PROVE  IInv'
<1> DEFINE b == Retire(ids[k], Exhausted(ids[k]))
<1>1. ids[k] \in Allocator /\ Consistent(ids[k])
  BY DEF IInv, TypeOK, AllocatorConsistent
<1>2. b \in Allocator /\ Consistent(b) /\ OnlyPoolChanged(ids[k], b)
  BY <1>1, ExhaustedProperties
<1>3. ids' = [ids EXCEPT ![k] = b] /\ UNCHANGED vars0
  BY DEF AddObjectExhausted, vars0
<1> HIDE DEF b
<1> QED BY <1>2, <1>3, PoolStep

LEMMA RemoveObjectFailsStep ==
    ASSUME IInv, NEW h \in handles, RemoveObjectFails(h)
    PROVE  UNCHANGED vars
<1> DEFINE a == ids[h.kind]
           removed == Remove(a, h.id)
<1>1. h.kind \in Kinds /\ h.id \in Ids /\ ids \in [Kinds -> Allocator]
  BY DEF IInv, TypeOK, Handle
<1>2. a \in Allocator /\ Consistent(a)
  BY <1>1 DEF IInv, TypeOK, AllocatorConsistent
<1>3. IsUsable(a, h.id, h.generation) /\ h.generation = a.generations[h.id]
  BY DEF RemoveObjectFails, CanRemove, IsUsable, IsCurrent
<1>4. /\ CanCancelPendingRemove(removed, h.id, h.generation)
      /\ CancelPendingRemove(removed, h.id) = a
  BY <1>1, <1>2, <1>3, RollbackRemoveProperties
<1>5. ids' = [ids EXCEPT ![h.kind] = a] /\ poisoned' = FALSE
  BY <1>4 DEF RemoveObjectFails
<1>6. ids' = ids
  BY <1>1, <1>5
<1> QED BY <1>5, <1>6 DEF RemoveObjectFails, RequireUsable, vars, IInv, TypeOK

-----------------------------------------------------------------------------
\* Starting a batch changes nothing the invariant speaks of.
LEMMA BeginApplyStep ==
    ASSUME IInv, BeginApply
    PROVE  IInv'
<1>1. /\ TypeOK /\ AllocatorConsistent /\ BufferInv /\ applied = 0
      /\ \A j \in Kinds : HandleInv(j) /\ BatchInv(j) /\ SlotInv(j)
      /\ open /\ ~poisoned /\ ~applying
  BY DEF BeginApply, RequireUsable, IInv, BufferInv
<1>2. /\ UNCHANGED <<ids, commandBuffer, applied, native, poisoned, open, handles>>
      /\ applying' = TRUE
  BY <1>1 DEF BeginApply
<1>3. TypeOK' /\ AllocatorConsistent' /\ BufferInv'
  BY <1>1, <1>2 DEF TypeOK, AllocatorConsistent, BufferInv
<1>4. \A j \in Kinds : HandleInv(j)' /\ SlotInv(j)'
  BY <1>1, <1>2, SamePositions DEF HandleInv, SlotInv
<1>5. ASSUME NEW j \in Kinds PROVE BatchInv(j)'
  <2>1. BatchInv(j)
    BY <1>1
  <2> QED BY <1>2, <2>1, SamePositions DEF BatchInv
<1> QED BY <1>3, <1>4, <1>5 DEF IInv

\* The command about to be applied, seen from one object.
LEMMA NextPosition ==
    ASSUME TypeOK, applied < Len(commandBuffer), NEW k, NEW id
    PROVE  /\ applied \in Nat /\ applied + 1 \in DOMAIN commandBuffer
           /\ NextCommand \in Command
           /\ applied + 1 \in Adds(k, id) <=>
                <<k, id>> \in NextCommand.targets /\ NextCommand.tag = "add"
           /\ applied + 1 \in Removes(k, id) <=>
                <<k, id>> \in NextCommand.targets /\ NextCommand.tag = "remove"
           /\ applied + 1 \in Uses(k, id) <=>
                <<k, id>> \in NextCommand.targets /\ NextCommand.tag \notin {"add", "remove"}
           /\ \A p \in Adds(k, id) \cup Removes(k, id) : p \in Nat
<1> DEFINE n == Len(commandBuffer)
           q == applied + 1
<1>1. commandBuffer \in Seq(Command) /\ applied \in Nat
  BY DEF TypeOK
<1>2. n \in Nat /\ DOMAIN commandBuffer = 1..n /\ q \in 1..n
  BY <1>1, LenProperties
<1>3. NextCommand = commandBuffer[q] /\ NextCommand \in Command
  BY <1>1, <1>2, ElementOfSeq DEF NextCommand
<1>4. \A p \in Adds(k, id) \cup Removes(k, id) : p \in Nat
  BY <1>2 DEF Adds, Removes, Acting
<1> HIDE DEF n
<1> QED BY <1>1, <1>2, <1>3, <1>4 DEF Adds, Removes, Uses, Acting

\* A new object goes to a vacant slot or to the one past the end.
LEMMA AddFindsItsSlot ==
    ASSUME TypeOK, AllocatorConsistent, applied < Len(commandBuffer),
           NEW k \in Kinds, NEW id \in Ids, BatchInv(k), SlotInv(k),
           <<k, id>> \in NextCommand.targets, NextCommand.tag = "add"
    PROVE  /\ SlotIsVacant(k, id)
           /\ id <= ids[k].highWaterMark
           /\ ids[k].states[id] \in PendingAdd
<1> DEFINE a == ids[k]
           q == applied + 1
<1>1. q \in Adds(k, id) /\ applied \in Nat
  BY NextPosition
<1>2. IdBatchInv(k, id)
  BY BatchInvById
<1>3. a \in Allocator /\ Consistent(a) /\ native[k].slots \in Nat
  BY DEF TypeOK, AllocatorConsistent
<1>4. a.states[id] \in PendingAdd /\ id \notin native[k].occupied
  BY <1>1, <1>2 DEF IdBatchInv
<1>5. /\ a.highWaterMark \in Nat /\ a.committedHighWaterMark \in Nat
      /\ a.highWaterMark <= MaxId
      /\ MaxId \in Nat /\ id \in Nat /\ id >= 1
  BY <1>3, MaxIdAssumption DEF Allocator, Ids
<1>6. id <= a.highWaterMark
  BY <1>3, <1>4, <1>5 DEF Consistent, PendingAdd
<1>7. id <= native[k].slots + 1
  <2>1. SUFFICES ASSUME id > native[k].slots + 1 PROVE FALSE
    BY <1>3, <1>5
  <2> DEFINE next == native[k].slots + 1
  <2>2. next \in 1..a.highWaterMark /\ next \in Ids /\ ~(next <= native[k].slots)
    BY <1>3, <1>5, <1>6, <2>1, SMTT(30) DEF Ids
  <2>3. next \in (a.committedHighWaterMark + 1)..a.highWaterMark /\ next < id
    BY <1>3, <1>5, <2>1, <2>2 DEF SlotInv
  <2>4. id \in (a.committedHighWaterMark + 1)..a.highWaterMark
    BY <1>5, <1>6, <2>2, <2>3
  <2>5. a.states[next] \in PendingAdd
    BY <1>3, <2>2, <2>3 DEF Consistent, PendingAdd
  <2>6. IdBatchInv(k, next)
    BY <2>2, BatchInvById
  <2>7. PICK p \in Adds(k, next) : TRUE
    BY <2>5, <2>6 DEF IdBatchInv
  <2>8. p < q /\ p \in Nat
    BY <1>1, <2>3, <2>4, <2>7, NextPosition DEF SlotInv
  <2>9. p <= applied
    BY <1>1, <2>8
  <2> QED BY <2>2, <2>7, <2>9 DEF SlotInv
<1> QED BY <1>4, <1>6, <1>7 DEF SlotIsVacant

\* Every other command finds its objects.
LEMMA UseFindsItsObjects ==
    ASSUME TypeOK, applied < Len(commandBuffer),
           NEW k \in Kinds, NEW id \in Ids, BatchInv(k),
           <<k, id>> \in NextCommand.targets, NextCommand.tag # "add"
    PROVE  id \in native[k].occupied
<1> DEFINE q == applied + 1
<1>1. applied \in Nat /\ q \in Removes(k, id) \cup Uses(k, id)
  BY NextPosition
<1>2. IdBatchInv(k, id)
  BY BatchInvById
<1>3. ids[k].states[id] \notin Absent
  BY <1>1, <1>2 DEF IdBatchInv, PendingRemove, Absent
<1>4. \A p \in Adds(k, id) : p < q /\ p \in Nat
  BY <1>1, <1>2, NextPosition DEF IdBatchInv
<1>5. \A p \in Adds(k, id) : p <= applied
  BY <1>1, <1>4
<1>6. \A r \in Removes(k, id) : r > applied
  BY <1>1, <1>2, NextPosition DEF IdBatchInv
<1> QED BY <1>2, <1>3, <1>5, <1>6 DEF IdBatchInv

\* The native tables after a command, seen from one object.
LEMMA NativeAfterProperties ==
    ASSUME TypeOK, NEW command \in Command, NEW k \in Kinds
    PROVE  LET table == NativeAfter(command)[k] IN
           /\ NativeAfter(command) \in [Kinds -> [slots : Nat, occupied : SUBSET Ids]]
           /\ \A id \in Ids :
                id \in table.occupied <=>
                  IF <<k, id>> \in command.targets /\ command.tag \in {"add", "remove"}
                  THEN command.tag = "add" ELSE id \in native[k].occupied
           /\ table.slots =
                IF command.tag = "add" /\ <<k, native[k].slots + 1>> \in command.targets
                THEN native[k].slots + 1 ELSE native[k].slots
<1>1. ASSUME NEW j \in Kinds
      PROVE  /\ native[j].slots \in Nat /\ native[j].occupied \in SUBSET Ids
             /\ native[j] \in [slots : Nat, occupied : SUBSET Ids]
             /\ OnTargets(command, j) \in SUBSET Ids
  BY DEF TypeOK, OnTargets
<1>2. \A j \in Kinds : NativeAfter(command)[j] \in [slots : Nat, occupied : SUBSET Ids]
  BY <1>1 DEF NativeAfter
<1>3. NativeAfter(command) \in [Kinds -> [slots : Nat, occupied : SUBSET Ids]]
  BY <1>2 DEF NativeAfter
<1>4. \A t \in command.targets : t \in Kinds \X Ids
  BY DEF Command, Object
<1>5. native[k].slots + 1 \in OnTargets(command, k) <=>
        <<k, native[k].slots + 1>> \in command.targets
  BY <1>4 DEF OnTargets
<1>6. NativeAfter(command)[k].slots =
        IF command.tag = "add" /\ <<k, native[k].slots + 1>> \in command.targets
        THEN native[k].slots + 1 ELSE native[k].slots
  BY <1>5 DEF NativeAfter
<1>7. \A id \in Ids :
        id \in NativeAfter(command)[k].occupied <=>
          IF <<k, id>> \in command.targets /\ command.tag \in {"add", "remove"}
          THEN command.tag = "add" ELSE id \in native[k].occupied
  <2> TAKE id \in Ids
  <2>1. id \in OnTargets(command, k) <=> <<k, id>> \in command.targets
    BY DEF OnTargets
  <2>2. CASE command.tag = "add"
    BY <2>1, <2>2 DEF NativeAfter
  <2>3. CASE command.tag = "remove"
    BY <2>1, <2>3 DEF NativeAfter
  <2>4. CASE command.tag \notin {"add", "remove"}
    BY <2>4 DEF NativeAfter
  <2> QED BY <2>2, <2>3, <2>4
<1> QED BY <1>3, <1>6, <1>7

\* Applying a command preserves the invariant.
LEMMA ApplyCommandStep ==
    ASSUME IInv, ApplyCommand
    PROVE  IInv'
<1> DEFINE q == applied + 1
           c == NextCommand
<1>1. /\ TypeOK /\ AllocatorConsistent /\ \A k \in Kinds : HandleInv(k)
      /\ applying /\ applied < Len(commandBuffer)
      /\ native' = NativeAfter(c) /\ applied' = q
      /\ UNCHANGED <<ids, commandBuffer, applying, poisoned, open, handles>>
  BY DEF IInv, ApplyCommand
<1>2. applied \in Nat /\ c \in Command /\ Len(commandBuffer) \in Nat
  BY <1>1, NextPosition, LenProperties DEF TypeOK
<1> HIDE DEF c
<1>3. ASSUME NEW k \in Kinds
      PROVE  LET table == native'[k] IN
             /\ native' \in [Kinds -> [slots : Nat, occupied : SUBSET Ids]]
             /\ \A id \in Ids :
                  id \in table.occupied <=>
                    IF <<k, id>> \in c.targets /\ c.tag \in {"add", "remove"}
                    THEN c.tag = "add" ELSE id \in native[k].occupied
             /\ table.slots =
                  IF c.tag = "add" /\ <<k, native[k].slots + 1>> \in c.targets
                  THEN native[k].slots + 1 ELSE native[k].slots
  BY <1>1, <1>2, NativeAfterProperties
<1>4. TypeOK'
  <2>1. native' \in [Kinds -> [slots : Nat, occupied : SUBSET Ids]]
    <3>1. CASE Kinds = {}
      BY <1>1, <3>1 DEF NativeAfter
    <3> QED BY <1>3, <3>1
  <2> QED BY <1>1, <1>2, <2>1 DEF TypeOK
<1>5. AllocatorConsistent' /\ \A k \in Kinds : HandleInv(k)'
  BY <1>1 DEF AllocatorConsistent, HandleInv
<1>6. ASSUME open', ~poisoned'
      PROVE  BufferInv' /\ \A k \in Kinds : BatchInv(k)' /\ SlotInv(k)'
  <2>1. BufferInv /\ \A k \in Kinds : BatchInv(k) /\ SlotInv(k)
    BY <1>1, <1>6 DEF IInv
  <2>2. BufferInv'
    BY <1>1, <1>2, <2>1 DEF BufferInv
  <2>3. ASSUME NEW k \in Kinds, NEW id \in Ids PROVE IdBatchInv(k, id)'
    <3>1. IdBatchInv(k, id)
      BY <2>1, BatchInvById
    <3>2. /\ q \in Adds(k, id) <=> <<k, id>> \in c.targets /\ c.tag = "add"
          /\ q \in Removes(k, id) <=> <<k, id>> \in c.targets /\ c.tag = "remove"
          /\ q \in Uses(k, id) <=> <<k, id>> \in c.targets /\ c.tag \notin {"add", "remove"}
          /\ \A p \in Adds(k, id) \cup Removes(k, id) : p \in Nat
      BY <1>1, NextPosition DEF c
    <3>3. id \in native'[k].occupied <=>
            /\ ids[k].states[id] \notin Absent
            /\ \A p \in Adds(k, id) : p <= q
            /\ \A r \in Removes(k, id) : r > q
      <4>1. CASE <<k, id>> \in c.targets /\ c.tag = "add"
        <5>1. q \in Adds(k, id) /\ id \in native'[k].occupied
          BY <1>3, <3>2, <4>1
        <5>2. ids[k].states[id] \notin Absent
          BY <3>1, <5>1 DEF IdBatchInv, PendingAdd, Absent
        <5>3. \A r \in Removes(k, id) : r > q
          BY <1>2, <3>1, <3>2, <5>1 DEF IdBatchInv
        <5>4. \A p \in Adds(k, id) : p <= q
          BY <1>2, <3>1, <5>1 DEF IdBatchInv
        <5> QED BY <5>1, <5>2, <5>3, <5>4
      <4>2. CASE <<k, id>> \in c.targets /\ c.tag = "remove"
        <5>1. q \in Removes(k, id) /\ id \notin native'[k].occupied /\ ~(q > q)
          BY <1>2, <1>3, <3>2, <4>2
        <5> QED BY <5>1
      <4>3. CASE ~(<<k, id>> \in c.targets /\ c.tag \in {"add", "remove"})
        <5>1. q \notin Adds(k, id) \cup Removes(k, id)
          BY <3>2, <4>3
        <5>2. id \in native'[k].occupied <=> id \in native[k].occupied
          BY <1>3, <4>3
        <5>3. /\ \A p \in Adds(k, id) : p <= q <=> p <= applied
              /\ \A r \in Removes(k, id) : r > q <=> r > applied
          BY <1>2, <3>2, <5>1
        <5> QED BY <3>1, <5>2, <5>3 DEF IdBatchInv
      <4> QED BY <4>1, <4>2, <4>3
    <3>4. applied' = q /\ ids' = ids
      BY <1>1
    <3>5. /\ Adds(k, id)' = Adds(k, id) /\ Removes(k, id)' = Removes(k, id)
          /\ Uses(k, id)' = Uses(k, id)
      BY <1>1, SamePositions
    <3> HIDE DEF q
    <3> QED BY <3>1, <3>3, <3>4, <3>5 DEF IdBatchInv
  <2>4. \A k \in Kinds : BatchInv(k)'
    BY <2>3 DEF BatchInv, IdBatchInv
  <2>5. ASSUME NEW k \in Kinds PROVE SlotInv(k)'
    <3> DEFINE a == ids[k]
               slots == native[k].slots
    <3>1. SlotInv(k) /\ BatchInv(k)
      BY <2>1
    <3>2. /\ a \in Allocator /\ slots \in Nat /\ MaxId \in Nat
          /\ a.highWaterMark \in 0..MaxId /\ a.committedHighWaterMark \in 0..MaxId
      BY <1>1, MaxIdAssumption DEF TypeOK, Allocator
    <3>3. ids' = ids /\ applied' = q /\ \A id : Adds(k, id)' = Adds(k, id)
      BY <1>1, SamePositions
    <3>4. ASSUME NEW id \in Ids
          PROVE  /\ q \in Adds(k, id) <=> <<k, id>> \in c.targets /\ c.tag = "add"
                 /\ \A p \in Adds(k, id) : p \in Nat
      BY <1>1, NextPosition DEF c
    <3>5. ASSUME NEW id \in Ids, <<k, id>> \in c.targets, c.tag = "add"
          PROVE  id <= slots + 1 /\ id <= a.highWaterMark
      BY <1>1, <3>1, <3>5, AddFindsItsSlot DEF c, SlotIsVacant
    <3>6. /\ native'[k].slots \in Nat
          /\ native'[k].slots <= a.highWaterMark
          /\ \A id \in 1..a.highWaterMark :
               id <= native'[k].slots <=>
                 id <= slots \/ (id = slots + 1 /\ <<k, id>> \in c.targets /\ c.tag = "add")
      <4>1. slots <= a.highWaterMark
        BY <3>1 DEF SlotInv
      <4>2. CASE c.tag = "add" /\ <<k, slots + 1>> \in c.targets
        <5>1. native'[k].slots = slots + 1
          BY <1>3, <4>2
        <5>2. slots + 1 \in Ids
          BY <1>2, <4>2 DEF Command, Object
        <5>3. slots + 1 <= a.highWaterMark
          BY <3>5, <4>2, <5>2
        <5> QED BY <3>2, <4>2, <5>1, <5>3
      <4>3. CASE ~(c.tag = "add" /\ <<k, slots + 1>> \in c.targets)
        <5>1. native'[k].slots = slots
          BY <1>3, <4>3
        <5> QED BY <3>2, <4>1, <4>3, <5>1
      <4> QED BY <4>2, <4>3
    <3>7. ASSUME NEW id \in 1..a.highWaterMark
          PROVE  id <= native'[k].slots <=>
                   id <= a.committedHighWaterMark \/ \E p \in Adds(k, id) : p <= q
      <4>1. id \in Ids
        BY <3>2 DEF Ids
      <4>2. id <= slots <=> id <= a.committedHighWaterMark \/ \E p \in Adds(k, id) : p <= applied
        BY <3>1 DEF SlotInv
      <4>3. CASE <<k, id>> \in c.targets /\ c.tag = "add"
        <5>1. q \in Adds(k, id) /\ q <= q
          BY <1>2, <3>4, <4>1, <4>3
        <5>2. id <= slots \/ id = slots + 1
          BY <3>2, <3>5, <4>1, <4>3 DEF Ids
        <5> QED BY <3>6, <4>3, <5>1, <5>2
      <4>4. CASE ~(<<k, id>> \in c.targets /\ c.tag = "add")
        <5>1. \A p \in Adds(k, id) : p <= q <=> p <= applied
          BY <1>2, <3>4, <4>1, <4>4
        <5> QED BY <3>6, <4>2, <4>4, <5>1
      <4> QED BY <4>3, <4>4
    <3> HIDE DEF q
    <3> QED BY <3>1, <3>3, <3>6, <3>7 DEF SlotInv
  <2> QED BY <2>2, <2>4, <2>5
<1> QED BY <1>4, <1>5, <1>6 DEF IInv

\* A rejected batch poisons the world.
LEMMA RejectCommandStep ==
    ASSUME IInv, RejectCommand
    PROVE  IInv'
<1>1. TypeOK'
  <2>1. << >> \in Seq(Command)
    BY EmptySeq
  <2> QED BY <2>1 DEF RejectCommand, IInv, TypeOK
<1>2. AllocatorConsistent' /\ \A k \in Kinds : HandleInv(k)'
  BY DEF RejectCommand, IInv, AllocatorConsistent, HandleInv
<1> QED BY <1>1, <1>2 DEF RejectCommand, IInv

\* Closing the world keeps the allocators.
LEMMA CloseStep ==
    ASSUME IInv, Close
    PROVE  IInv'
<1>1. TypeOK'
  <2>1. << >> \in Seq(Command)
    BY EmptySeq
  <2>2. native' \in [Kinds -> [slots : Nat, occupied : SUBSET Ids]]
    BY DEF Close
  <2> QED BY <2>1, <2>2 DEF Close, IInv, TypeOK
<1>2. AllocatorConsistent' /\ \A k \in Kinds : HandleInv(k)'
  BY DEF Close, IInv, AllocatorConsistent, HandleInv
<1> QED BY <1>1, <1>2 DEF Close, IInv

\* Once every command was applied, the commit makes Java agree with the
\* native world, and the world is between batches again.
LEMMA CommitApplyStep ==
    ASSUME IInv, CommitApply
    PROVE  IInv'
<1>1. /\ TypeOK /\ AllocatorConsistent /\ \A k \in Kinds : HandleInv(k)
      /\ applied = Len(commandBuffer)
      /\ ids' = [k \in Kinds |-> CommitBatch(ids[k])]
      /\ commandBuffer' = << >> /\ applied' = 0 /\ applying' = FALSE
      /\ UNCHANGED <<native, poisoned, open, handles>>
  BY DEF IInv, CommitApply
<1>2. ASSUME NEW k \in Kinds
      PROVE  /\ ids[k] \in Allocator /\ ids'[k] \in Allocator
             /\ Consistent(ids[k]) /\ Consistent(ids'[k])
             /\ ids'[k].states = [id \in Ids |-> IF ids[k].states[id] \in PendingStates
                                     THEN Committed(ids[k], id) ELSE ids[k].states[id]]
             /\ ids'[k].generations = ids[k].generations
             /\ ids'[k].highWaterMark = ids[k].highWaterMark
             /\ ids'[k].committedHighWaterMark = ids[k].highWaterMark
  <2>1. ids[k] \in Allocator /\ Consistent(ids[k])
    BY <1>1 DEF TypeOK, AllocatorConsistent
  <2>2. ids'[k] = CommitBatch(ids[k])
    BY <1>1
  <2> QED BY <2>1, <2>2, CommitProperties
<1>3. ASSUME NEW k \in Kinds, NEW id \in Ids
      PROVE  /\ ids[k].states[id] \in {"LIVE", "PENDING_ADD"} <=> ids'[k].states[id] = "LIVE"
             /\ ids'[k].states[id] \notin PendingStates
             /\ ids'[k].states[id] = "UNUSED" <=> ids[k].states[id] = "UNUSED"
             /\ ids[k].states[id] \in States /\ ids'[k].states[id] \in States
  <2>1. ids[k].states[id] \in States
    BY <1>2 DEF Allocator
  <2>2. ids'[k].states[id] = IF ids[k].states[id] \in PendingStates
                             THEN Committed(ids[k], id) ELSE ids[k].states[id]
    BY <1>2
  <2>3. /\ ids[k].states[id] = "PENDING_ADD" => Committed(ids[k], id) = "LIVE"
        /\ ids[k].states[id] # "PENDING_ADD" => Committed(ids[k], id) \in {"FREE", "RETIRED"}
    BY DEF Committed
  <2> QED BY <2>1, <2>2, <2>3 DEF States, PendingStates
<1>4. TypeOK'
  <2>1. ids' \in [Kinds -> Allocator]
    BY <1>1, <1>2
  <2>2. << >> \in Seq(Command)
    BY EmptySeq
  <2> QED BY <1>1, <2>1, <2>2 DEF TypeOK
<1>5. AllocatorConsistent'
  BY <1>2 DEF AllocatorConsistent
<1>6. ASSUME NEW k \in Kinds PROVE HandleInv(k)'
  <2>1. HandleInv(k) /\ \A h \in handles : h.id \in Ids
    BY <1>1 DEF TypeOK, Handle
  <2>2. handles' = handles /\ ids'[k].generations = ids[k].generations
    BY <1>1, <1>2
  <2>3. ASSUME NEW h \in handles, h.kind = k
        PROVE  ids'[k].states[h.id] # "UNUSED" /\ h.generation <= ids'[k].generations[h.id]
    BY <1>3, <2>1, <2>2, <2>3 DEF HandleInv
  <2>4. ASSUME NEW id \in Ids, ids'[k].states[id] \in {"LIVE", "PENDING_ADD"}
        PROVE  [kind |-> k, id |-> id, generation |-> ids'[k].generations[id]] \in handles
    BY <1>3, <2>1, <2>2, <2>4 DEF HandleInv, PendingStates
  <2> QED BY <2>2, <2>3, <2>4 DEF HandleInv
<1>7. DOMAIN commandBuffer' = {} /\ Len(commandBuffer') = 0
  BY <1>1
<1>8. \A k, id : Adds(k, id)' = {} /\ Removes(k, id)' = {} /\ Uses(k, id)' = {}
  <2>1. \A k, id : Acting(k, id)' = {}
    BY <1>7 DEF Acting
  <2> QED BY <2>1 DEF Adds, Removes, Uses
<1>9. ASSUME open', ~poisoned'
      PROVE  BufferInv' /\ \A k \in Kinds : BatchInv(k)' /\ SlotInv(k)'
  <2>1. BufferInv /\ \A k \in Kinds : BatchInv(k) /\ SlotInv(k)
    BY <1>1, <1>9 DEF IInv
  <2>2. BufferInv'
    BY <1>1, <1>7 DEF BufferInv
  <2>3. \A p \in DOMAIN commandBuffer : p \in Nat /\ p <= applied
    BY <1>1, LenProperties DEF TypeOK
  <2>4. ASSUME NEW k \in Kinds, NEW id \in Ids
        PROVE  /\ \A p \in Adds(k, id) \cup Removes(k, id) : p \in Nat /\ p <= applied
               /\ IdBatchInv(k, id)
    BY <2>1, <2>3, BatchInvById DEF Adds, Removes, Acting
  <2>5. ASSUME NEW k \in Kinds, NEW id \in Ids PROVE IdBatchInv(k, id)'
    <3>1. id \in native[k].occupied <=>
            ids[k].states[id] \notin Absent /\ Removes(k, id) = {}
      <4>1. applied \in Nat
        BY <1>1 DEF TypeOK
      <4>2. (\A r \in Removes(k, id) : r > applied) <=> Removes(k, id) = {}
        BY <2>4, <4>1
      <4> QED BY <2>4, <4>2 DEF IdBatchInv
    <3>2. id \in native[k].occupied <=> ids[k].states[id] \in {"LIVE", "PENDING_ADD"}
      BY <1>3, <2>4, <3>1 DEF IdBatchInv, Absent, PendingRemove, States
    <3>3. id \in native'[k].occupied <=> ids'[k].states[id] \notin Absent
      BY <1>1, <1>3, <3>2 DEF Absent, PendingStates, States
    <3> QED BY <1>3, <1>8, <3>3 DEF IdBatchInv, PendingStates, PendingAdd, PendingRemove
  <2>6. \A k \in Kinds : BatchInv(k)'
    BY <2>5 DEF BatchInv, IdBatchInv
  <2>7. ASSUME NEW k \in Kinds PROVE SlotInv(k)'
    <3>1. SlotInv(k) /\ native'[k] = native[k]
      BY <1>1, <2>1
    <3>2. /\ ids[k].highWaterMark \in Nat /\ ids[k].committedHighWaterMark \in Nat
          /\ ids[k].highWaterMark <= MaxId /\ MaxId \in Nat
      <4>1. ids[k] \in Allocator
        BY <1>2
      <4> QED BY <4>1, MaxIdAssumption DEF Allocator
    <3>3. ASSUME NEW id \in 1..ids[k].highWaterMark, id > ids[k].committedHighWaterMark
          PROVE  \E p \in Adds(k, id) : p <= applied
      <4>1. id \in Ids /\ id \in (ids[k].committedHighWaterMark + 1)..ids[k].highWaterMark
        BY <3>2, <3>3 DEF Ids
      <4>2. ids[k].states[id] \in PendingAdd
        BY <1>2, <4>1 DEF Consistent, PendingAdd
      <4>3. IdBatchInv(k, id)
        BY <2>4, <4>1
      <4>4. Adds(k, id) # {}
        BY <4>2, <4>3 DEF IdBatchInv
      <4> QED BY <2>4, <4>1, <4>4
    <3>4. \A id \in 1..ids[k].highWaterMark : id <= native[k].slots
      BY <3>1, <3>2, <3>3 DEF SlotInv
    <3>5. /\ ids'[k].highWaterMark = ids[k].highWaterMark
          /\ ids'[k].committedHighWaterMark = ids[k].highWaterMark
      BY <1>2
    <3>6. native[k].slots <= ids[k].highWaterMark /\ \A id : Adds(k, id)' = {}
      BY <1>8, <3>1 DEF SlotInv
    <3> QED BY <3>1, <3>2, <3>4, <3>5, <3>6 DEF SlotInv
  <2> QED BY <2>2, <2>6, <2>7
<1> QED BY <1>4, <1>5, <1>6, <1>9 DEF IInv

-----------------------------------------------------------------------------
\* Every step of the world preserves the invariant.
LEMMA NextIInv == IInv /\ [Next]_vars => IInv'
<1> SUFFICES ASSUME IInv, [Next]_vars PROVE IInv'
  OBVIOUS
<1>1. CASE UNCHANGED vars
  <2>1. \A j \in Kinds :
          (HandleInv(j)' <=> HandleInv(j)) /\ (BatchInv(j)' <=> BatchInv(j)) /\
          (SlotInv(j)' <=> SlotInv(j))
    BY <1>1, SamePositions DEF vars, HandleInv, BatchInv, SlotInv
  <2> QED BY <1>1, <2>1 DEF vars, IInv, TypeOK, AllocatorConsistent, BufferInv
<1>2. ASSUME NEW k \in Kinds, AddObject(k) PROVE IInv'
  BY <1>2, AddObjectStep
<1>3. ASSUME NEW k \in Kinds, AddObjectFails(k) PROVE IInv'
  BY <1>3, AddObjectFailsStep
<1>4. ASSUME NEW k \in Kinds, AddObjectExhausted(k) PROVE IInv'
  BY <1>4, AddObjectExhaustedStep
<1>5. ASSUME NEW h \in handles, RemoveObject(h) PROVE IInv'
  BY <1>5, RemoveObjectStep
<1>6. ASSUME NEW h \in handles, RemoveObjectFails(h) PROVE IInv'
  BY <1>1, <1>6, RemoveObjectFailsStep
<1>7. ASSUME NEW h \in handles, SetDeviceParameter(h) PROVE IInv'
  <2>1. UseObjects("setDeviceParameter", {h}) /\ {h} \in SUBSET handles
    BY <1>7 DEF SetDeviceParameter
  <2>2. "setDeviceParameter" \in Tags \ {"add", "remove"}
    BY DEF Tags
  <2> QED BY <2>1, <2>2, UseObjectsStep
<1>8. ASSUME NEW a \in handles, NEW b \in handles, ConnectWires(a, b) PROVE IInv'
  <2>1. UseObjects("connectWires", {a, b}) /\ {a, b} \in SUBSET handles
    BY <1>8 DEF ConnectWires
  <2>2. "connectWires" \in Tags \ {"add", "remove"}
    BY DEF Tags
  <2> QED BY <2>1, <2>2, UseObjectsStep
<1>9. ASSUME NEW a \in handles, NEW b \in handles, AttachTerminal(a, b) PROVE IInv'
  <2>1. UseObjects("attachTerminal", {a, b}) /\ {a, b} \in SUBSET handles
    BY <1>9 DEF AttachTerminal
  <2>2. "attachTerminal" \in Tags \ {"add", "remove"}
    BY DEF Tags
  <2> QED BY <2>1, <2>2, UseObjectsStep
<1> QED BY <1>1, <1>2, <1>3, <1>4, <1>5, <1>6, <1>7, <1>8, <1>9, BeginApplyStep,
           ApplyCommandStep, RejectCommandStep, CommitApplyStep, CloseStep DEF Next

\* The inductive invariant holds of every reachable state.
THEOREM Invariance == Spec => []IInv
BY InitIInv, NextIInv, PTL DEF Spec

\* Every variable of the world keeps its type.
THEOREM TypeCorrect == Spec => []TypeOK
<1>1. IInv => TypeOK
  BY DEF IInv
<1> QED BY <1>1, Invariance, PTL

\* The allocators stay consistent, whatever is added, removed, taken back,
\* committed or rejected.
THEOREM AllocatorsConsistent == Spec => []AllocatorConsistent
<1>1. IInv => AllocatorConsistent
  BY DEF IInv
<1> QED BY <1>1, Invariance, PTL

\* A handle can be used when its object is live or about to be added.
LEMMA UsableIsLive ==
    ASSUME NEW a \in Allocator, Consistent(a), NEW id \in Ids, NEW generation
    PROVE  IsUsable(a, id, generation) <=>
             a.states[id] \in {"LIVE", "PENDING_ADD"} /\ a.generations[id] = generation
<1>1. a.highWaterMark \in Nat /\ id \in Nat /\ id >= 1
  BY MaxIdAssumption DEF Allocator, Ids
<1>2. a.states[id] = "UNUSED" <=> id > a.highWaterMark
  BY DEF Consistent
<1> QED BY <1>1, <1>2 DEF IsUsable, IsCurrent

UsableHandles == {h \in Handle : HandleUsable(h)}

\* A step that keeps the live objects and their generations keeps the usable
\* handles.
LEMMA SameUsable ==
    ASSUME IInv, IInv',
           \A k \in Kinds, id \in Ids :
             /\ ids'[k].states[id] \in {"LIVE", "PENDING_ADD"} <=>
                  ids[k].states[id] \in {"LIVE", "PENDING_ADD"}
             /\ ids[k].states[id] \in {"LIVE", "PENDING_ADD"} =>
                  ids'[k].generations[id] = ids[k].generations[id]
    PROVE  UsableHandles' = UsableHandles
<1>1. ASSUME NEW h \in Handle PROVE HandleUsable(h)' <=> HandleUsable(h)
  <2>1. h.kind \in Kinds /\ h.id \in Ids
    BY DEF Handle
  <2>2. /\ ids[h.kind] \in Allocator /\ Consistent(ids[h.kind])
        /\ ids'[h.kind] \in Allocator /\ Consistent(ids'[h.kind])
    BY <2>1 DEF IInv, TypeOK, AllocatorConsistent
  <2>3. IsUsable(ids[h.kind], h.id, h.generation) <=>
          /\ ids[h.kind].states[h.id] \in {"LIVE", "PENDING_ADD"}
          /\ ids[h.kind].generations[h.id] = h.generation
    BY <2>1, <2>2, UsableIsLive
  <2>4. IsUsable(ids'[h.kind], h.id, h.generation) <=>
          /\ ids'[h.kind].states[h.id] \in {"LIVE", "PENDING_ADD"}
          /\ ids'[h.kind].generations[h.id] = h.generation
    BY <2>1, <2>2, UsableIsLive
  <2> QED BY <2>1, <2>3, <2>4 DEF HandleUsable
<1> QED BY <1>1 DEF UsableHandles

-----------------------------------------------------------------------------
\* A world that applies a batch is open and not poisoned.
ApplyingInv == applying => open /\ ~poisoned

LEMMA ApplyingInvariance == Spec => []ApplyingInv
<1>1. Init => ApplyingInv
  BY DEF Init, ApplyingInv
<1>2. ApplyingInv /\ [Next]_vars => ApplyingInv'
  <2> SUFFICES ASSUME ApplyingInv, [Next]_vars PROVE ApplyingInv'
    OBVIOUS
  <2> USE DEF ApplyingInv
  <2>1. ASSUME NEW k \in Kinds, AddObject(k) \/ AddObjectFails(k) \/ AddObjectExhausted(k)
        PROVE  ApplyingInv'
    BY <2>1 DEF AddObject, AddObjectFails, AddObjectExhausted, RequireUsable
  <2>2. ASSUME NEW h \in handles, RemoveObject(h) \/ RemoveObjectFails(h) PROVE ApplyingInv'
    BY <2>2 DEF RemoveObject, RemoveObjectFails, RequireUsable
  <2>3. ASSUME NEW tag, NEW hs, UseObjects(tag, hs) PROVE ApplyingInv'
    BY <2>3 DEF UseObjects
  <2>4. CASE BeginApply \/ ApplyCommand
    BY <2>4 DEF BeginApply, ApplyCommand, RequireUsable
  <2>5. CASE RejectCommand \/ CommitApply \/ Close
    BY <2>5 DEF RejectCommand, CommitApply, Close
  <2> QED BY <2>1, <2>2, <2>3, <2>4, <2>5
          DEF Next, vars, SetDeviceParameter, ConnectWires, AttachTerminal
<1> QED BY <1>1, <1>2, PTL DEF Spec

\* The native world never rejects a command because of an ID.
THEOREM BatchesAreAccepted == Spec => []BatchAccepted
<1>1. IInv /\ ApplyingInv => BatchAccepted
  <2> SUFFICES ASSUME IInv, ApplyingInv, applying, applied < Len(commandBuffer)
               PROVE  NativeAccepts(NextCommand)
    BY DEF BatchAccepted
  <2>1. /\ TypeOK /\ AllocatorConsistent
        /\ \A k \in Kinds : BatchInv(k) /\ SlotInv(k)
    BY DEF IInv, ApplyingInv
  <2>2. NextCommand \in Command
    BY <2>1, NextPosition
  <2>3. ASSUME NEW t \in NextCommand.targets
        PROVE  t[1] \in Kinds /\ t[2] \in Ids /\ <<t[1], t[2]>> \in NextCommand.targets
    BY <2>2 DEF Command, Object
  <2>4. CASE NextCommand.tag = "add"
    <3>1. \A t \in NextCommand.targets : SlotIsVacant(t[1], t[2])
      BY <2>1, <2>3, <2>4, AddFindsItsSlot
    <3> QED BY <2>4, <3>1 DEF NativeAccepts
  <2>5. CASE NextCommand.tag # "add"
    <3>1. \A t \in NextCommand.targets : t[2] \in native[t[1]].occupied
      BY <2>1, <2>3, <2>5, UseFindsItsObjects
    <3> QED BY <2>5, <3>1 DEF NativeAccepts
  <2> QED BY <2>4, <2>5
<1> QED BY <1>1, Invariance, ApplyingInvariance, PTL

\* Between batches Java and the native world agree.
THEOREM AgreementBetweenBatches == Spec => []CommittedAgreesWithNative
<1>1. IInv => CommittedAgreesWithNative
  <2> SUFFICES ASSUME IInv, open, ~poisoned, commandBuffer = << >>, NEW k \in Kinds
               PROVE  /\ native[k].occupied = {id \in Ids : ids[k].states[id] = "LIVE"}
                      /\ native[k].slots = ids[k].highWaterMark
                      /\ ids[k].committedHighWaterMark = ids[k].highWaterMark
    BY DEF CommittedAgreesWithNative
  <2>1. /\ BatchInv(k) /\ SlotInv(k)
        /\ ids[k] \in Allocator /\ Consistent(ids[k])
        /\ native[k].slots \in Nat /\ native[k].occupied \in SUBSET Ids
    BY DEF IInv, TypeOK, AllocatorConsistent
  <2>2. \A id : Acting(k, id) = {}
    BY DEF Acting
  <2>3. \A id : Adds(k, id) = {} /\ Removes(k, id) = {}
    BY <2>2 DEF Adds, Removes
  <2>4. ASSUME NEW id \in Ids
        PROVE  /\ id \in native[k].occupied <=> ids[k].states[id] = "LIVE"
               /\ ids[k].states[id] \notin PendingAdd
    <3>1. IdBatchInv(k, id) /\ ids[k].states[id] \in States
      BY <2>1, BatchInvById DEF Allocator
    <3>2. /\ ids[k].states[id] \notin PendingAdd /\ ids[k].states[id] \notin PendingRemove
          /\ id \in native[k].occupied <=> ids[k].states[id] \notin Absent
      BY <2>3, <3>1 DEF IdBatchInv
    <3> QED BY <3>1, <3>2 DEF States, PendingAdd, PendingRemove, Absent
  <2>5. /\ ids[k].highWaterMark \in Nat /\ ids[k].committedHighWaterMark \in Nat
        /\ ids[k].committedHighWaterMark <= ids[k].highWaterMark
        /\ ids[k].highWaterMark <= MaxId /\ MaxId \in Nat
    BY <2>1, MaxIdAssumption DEF Allocator, Consistent
  <2>6. ids[k].committedHighWaterMark = ids[k].highWaterMark
    <3> SUFFICES ASSUME ids[k].committedHighWaterMark < ids[k].highWaterMark PROVE FALSE
      BY <2>5
    <3> DEFINE top == ids[k].highWaterMark
    <3>1. top \in Ids /\ top \in (ids[k].committedHighWaterMark + 1)..top
      BY <2>5 DEF Ids
    <3>2. ids[k].states[top] \in PendingAdd
      BY <2>1, <3>1 DEF Consistent, PendingAdd
    <3> QED BY <2>4, <3>1, <3>2
  <2>7. native[k].slots = ids[k].highWaterMark
    <3>1. \A id \in 1..ids[k].highWaterMark : id <= native[k].slots
      BY <2>1, <2>5, <2>6 DEF SlotInv
    <3>2. native[k].slots <= ids[k].highWaterMark
      BY <2>1 DEF SlotInv
    <3> QED BY <2>1, <2>5, <3>1, <3>2
  <2> QED BY <2>1, <2>4, <2>6, <2>7
<1> QED BY <1>1, Invariance, PTL

\* Only a rejected batch poisons the world.
THEOREM PoisonedByRejection == Spec => OnlyRejectionPoisons
<1>1. IInv /\ [Next]_vars => [poisoned' => poisoned \/ applying]_vars
  <2> SUFFICES ASSUME IInv, Next, poisoned', ~poisoned, ~applying PROVE FALSE
    BY DEF vars
  <2>1. ASSUME NEW k \in Kinds, AddObjectFails(k) PROVE FALSE
    BY <2>1, AddObjectFailsStep
  <2>2. ASSUME NEW h \in handles, RemoveObjectFails(h) PROVE FALSE
    BY <2>2, RemoveObjectFailsStep DEF vars
  <2> QED BY <2>1, <2>2
          DEF Next, AddObject, AddObjectExhausted, RemoveObject, SetDeviceParameter, ConnectWires,
              AttachTerminal, UseObjects, BeginApply, ApplyCommand, RejectCommand, CommitApply,
              Close
<1> QED BY <1>1, Invariance, PTL DEF Spec, OnlyRejectionPoisons

-----------------------------------------------------------------------------
\* Adding an object creates a handle nobody ever held.
LEMMA AddObjectCreates ==
    ASSUME IInv, IInv', NEW k \in Kinds, AddObject(k)
    PROVE  \E h \in Handle \ handles :
             handles' = handles \cup {h} /\ UsableHandles' = UsableHandles \cup {h}
<1>1. PICK r \in Reservations(ids[k]) :
        /\ ids' = [ids EXCEPT ![k] = r.allocator]
        /\ handles' = handles \cup
             {[kind |-> k, id |-> r.id, generation |-> r.allocator.generations[r.id]]}
  BY DEF AddObject
<1> DEFINE a == ids[k]
           b == r.allocator
           new == [kind |-> k, id |-> r.id, generation |-> b.generations[r.id]]
<1>2. /\ ids \in [Kinds -> Allocator] /\ a \in Allocator /\ Consistent(a) /\ HandleInv(k)
      /\ handles \in SUBSET Handle
  BY DEF IInv, TypeOK, AllocatorConsistent
<1>3. b \in Allocator /\ Consistent(b) /\ Reserved(a, r)
  BY <1>2, ReservationProperties
<1>4. /\ r.id \in Ids
      /\ b.states[r.id] = "PENDING_ADD"
      /\ a.states[r.id] \in {"FREE", "UNUSED"}
      /\ \A id \in Ids \ {r.id} :
           /\ b.generations[id] = a.generations[id]
           /\ b.states[id] = a.states[id] \/ (a.states[id] = "FREE" /\ b.states[id] = "RETIRED")
      /\ b.generations[r.id] > a.generations[r.id]
      /\ a.generations[r.id] \in Nat /\ b.generations[r.id] \in Nat
      /\ new \in Handle
  BY <1>2, <1>3, GenerationsAssumption DEF Reserved, Allocator, Generation, Handle
<1>5. new \notin handles
  BY <1>2, <1>4 DEF HandleInv
<1>6. \A j \in Kinds : ids'[j] = IF j = k THEN b ELSE ids[j]
  BY <1>1, <1>2
<1> HIDE DEF b
<1>7. ASSUME NEW h \in Handle PROVE HandleUsable(h)' <=> HandleUsable(h) \/ h = new
  <2>1. /\ h.kind \in Kinds /\ h.id \in Ids
        /\ h = [kind |-> h.kind, id |-> h.id, generation |-> h.generation]
    BY DEF Handle
  <2>2. CASE h.kind # k
    BY <1>6, <2>1, <2>2 DEF HandleUsable
  <2>3. CASE h.kind = k
    <3>1. HandleUsable(h) <=>
            a.states[h.id] \in {"LIVE", "PENDING_ADD"} /\ a.generations[h.id] = h.generation
      BY <1>2, <2>1, <2>3, UsableIsLive DEF HandleUsable
    <3>2. IsUsable(b, h.id, h.generation) <=>
            b.states[h.id] \in {"LIVE", "PENDING_ADD"} /\ b.generations[h.id] = h.generation
      BY <1>3, <2>1, <2>3, UsableIsLive DEF b
    <3>3. HandleUsable(h)' <=> IsUsable(b, h.id, h.generation)
      BY <1>6, <2>1, <2>3 DEF HandleUsable
    <3>4. CASE h.id = r.id
      BY <1>4, <2>1, <2>3, <3>1, <3>2, <3>3, <3>4 DEF b
    <3>5. CASE h.id # r.id
      BY <1>4, <2>1, <2>3, <3>1, <3>2, <3>3, <3>5 DEF b
    <3> QED BY <3>4, <3>5
  <2> QED BY <2>2, <2>3
<1>8. UsableHandles' = UsableHandles \cup {new}
  BY <1>4, <1>7 DEF UsableHandles
<1> QED BY <1>1, <1>4, <1>5, <1>8 DEF b

\* Removing an object makes its handle unusable, and no other.
LEMMA RemoveObjectDestroys ==
    ASSUME IInv, IInv', NEW h \in handles, RemoveObject(h)
    PROVE  h \in UsableHandles /\ UsableHandles' = UsableHandles \ {h} /\ handles' = handles
<1> DEFINE a == ids[h.kind]
           b == Remove(a, h.id)
<1>1. /\ h \in Handle /\ h.kind \in Kinds /\ h.id \in Ids
      /\ ids \in [Kinds -> Allocator] /\ a \in Allocator /\ Consistent(a)
  BY DEF IInv, TypeOK, AllocatorConsistent, Handle
<1>2. /\ IsUsable(a, h.id, h.generation)
      /\ ids' = [ids EXCEPT ![h.kind] = b] /\ handles' = handles
  BY DEF RemoveObject, CanRemove
<1>3. a.states[h.id] \in {"LIVE", "PENDING_ADD"} /\ a.generations[h.id] = h.generation
  BY <1>1, <1>2, UsableIsLive
<1>4. /\ b \in Allocator /\ Consistent(b)
      /\ b.states = [a.states EXCEPT ![h.id] =
                       IF a.states[h.id] = "LIVE" THEN "PENDING_REMOVE" ELSE "PENDING_ADD_REMOVE"]
      /\ b.generations = a.generations
  BY <1>1, <1>3, RemoveProperties
<1>5. /\ b.states[h.id] \notin {"LIVE", "PENDING_ADD"}
      /\ \A id \in Ids \ {h.id} : b.states[id] = a.states[id]
  BY <1>1, <1>3, <1>4 DEF Allocator
<1>6. \A j \in Kinds : ids'[j] = IF j = h.kind THEN b ELSE ids[j]
  BY <1>1, <1>2
<1> HIDE DEF b
<1>7. ASSUME NEW g \in Handle PROVE HandleUsable(g)' <=> HandleUsable(g) /\ g # h
  <2>1. /\ g.kind \in Kinds /\ g.id \in Ids
        /\ g = [kind |-> g.kind, id |-> g.id, generation |-> g.generation]
        /\ h = [kind |-> h.kind, id |-> h.id, generation |-> h.generation]
    BY <1>1 DEF Handle
  <2>2. CASE g.kind # h.kind
    BY <1>6, <2>1, <2>2 DEF HandleUsable
  <2>3. CASE g.kind = h.kind
    <3>1. HandleUsable(g) <=>
            a.states[g.id] \in {"LIVE", "PENDING_ADD"} /\ a.generations[g.id] = g.generation
      BY <1>1, <2>1, <2>3, UsableIsLive DEF HandleUsable
    <3>2. IsUsable(b, g.id, g.generation) <=>
            b.states[g.id] \in {"LIVE", "PENDING_ADD"} /\ b.generations[g.id] = g.generation
      <4>1. b \in Allocator /\ Consistent(b) /\ g.id \in Ids
        BY <1>4, <2>1
      <4> QED BY <4>1, UsableIsLive
    <3>3. HandleUsable(g)' <=> IsUsable(b, g.id, g.generation)
      BY <1>6, <2>1, <2>3 DEF HandleUsable
    <3> QED BY <1>3, <1>4, <1>5, <2>1, <2>3, <3>1, <3>2, <3>3
  <2> QED BY <2>2, <2>3
<1> QED BY <1>1, <1>2, <1>7 DEF UsableHandles, HandleUsable

\* A step that only walks the pool of free IDs changes no usable handle.
LEMMA PoolStepUsable ==
    ASSUME IInv, IInv', NEW k \in Kinds, NEW b, OnlyPoolChanged(ids[k], b),
           ids' = [ids EXCEPT ![k] = b]
    PROVE  UsableHandles' = UsableHandles
<1>1. \A j \in Kinds : ids'[j] = IF j = k THEN b ELSE ids[j]
  BY DEF IInv, TypeOK
<1>2. \A j \in Kinds, id \in Ids :
        /\ ids'[j].states[id] \in {"LIVE", "PENDING_ADD"} <=>
             ids[j].states[id] \in {"LIVE", "PENDING_ADD"}
        /\ ids[j].states[id] \in {"LIVE", "PENDING_ADD"} =>
             ids'[j].generations[id] = ids[j].generations[id]
  BY <1>1 DEF OnlyPoolChanged
<1> QED BY <1>2, SameUsable

\* The world implements the promise made to the holders of handles.
THEOREM WorldKeepsPromise == Spec => HandlesKeepTheirPromise
<1> USE DEF UsableHandles
<1>1. Init => Promise!Init
  <2> SUFFICES ASSUME Init PROVE handles = {} /\ UsableHandles = {}
    BY DEF Promise!Init
  <2>1. ASSUME NEW h \in Handle PROVE ~HandleUsable(h)
    <3>1. h.kind \in Kinds /\ h.id \in Ids
      BY DEF Handle
    <3>2. ids[h.kind].highWaterMark = 0
      BY <3>1 DEF Init, NewAllocator
    <3>3. h.id \notin 1..0
      BY <3>1 DEF Ids
    <3> QED BY <3>2, <3>3 DEF HandleUsable, IsUsable, IsCurrent
  <2> QED BY <2>1 DEF Init
<1>2. IInv /\ IInv' /\ [Next]_vars => [Promise!Next]_(Promise!vars)
  <2> SUFFICES ASSUME IInv, IInv', [Next]_vars
               PROVE  Promise!Next \/ (handles' = handles /\ UsableHandles' = UsableHandles)
    BY DEF Promise!vars
  <2>1. ASSUME NEW k \in Kinds, AddObject(k) PROVE Promise!Next
    <3>1. PICK h \in Handle \ handles :
            handles' = handles \cup {h} /\ UsableHandles' = UsableHandles \cup {h}
      BY <2>1, AddObjectCreates
    <3> QED BY <3>1 DEF Promise!Next, Promise!Create
  <2>2. ASSUME NEW h \in handles, RemoveObject(h) PROVE Promise!Next
    <3>1. h \in UsableHandles /\ UsableHandles' = UsableHandles \ {h} /\ handles' = handles
      BY <2>2, RemoveObjectDestroys
    <3>2. h \in Handle
      BY DEF IInv, TypeOK
    <3> QED BY <3>1, <3>2 DEF Promise!Next, Promise!Destroy
  <2>3. ASSUME NEW k \in Kinds, AddObjectFails(k)
        PROVE  handles' = handles /\ UsableHandles' = UsableHandles
    <3>1. PICK r \in Reservations(ids[k]) :
            LET rollback == CanCancelPendingAdd(r.allocator, r.id, r.allocator.generations[r.id])
            IN  ids' = [ids EXCEPT ![k] = IF rollback THEN CancelPendingAdd(r.allocator, r.id)
                                                     ELSE r.allocator]
      BY <2>3 DEF AddObjectFails
    <3> DEFINE b == CancelPendingAdd(r.allocator, r.id)
    <3>2. ids[k] \in Allocator /\ Consistent(ids[k])
      BY DEF IInv, TypeOK, AllocatorConsistent
    <3>3. /\ CanCancelPendingAdd(r.allocator, r.id, r.allocator.generations[r.id])
          /\ OnlyPoolChanged(ids[k], b)
      BY <3>2, RollbackAddProperties
    <3>4. ids' = [ids EXCEPT ![k] = b]
      BY <3>1, <3>3
    <3> HIDE DEF b
    <3>5. UsableHandles' = UsableHandles
      BY <3>3, <3>4, PoolStepUsable
    <3> QED BY <2>3, <3>5 DEF AddObjectFails
  <2>4. ASSUME NEW k \in Kinds, AddObjectExhausted(k)
        PROVE  handles' = handles /\ UsableHandles' = UsableHandles
    <3> DEFINE b == Retire(ids[k], Exhausted(ids[k]))
    <3>1. ids[k] \in Allocator /\ Consistent(ids[k])
      BY DEF IInv, TypeOK, AllocatorConsistent
    <3>2. OnlyPoolChanged(ids[k], b)
      BY <3>1, ExhaustedProperties
    <3>3. ids' = [ids EXCEPT ![k] = b] /\ handles' = handles
      BY <2>4 DEF AddObjectExhausted
    <3> HIDE DEF b
    <3> QED BY <3>2, <3>3, PoolStepUsable
  <2>5. ASSUME ids' = ids, handles' = handles
        PROVE  handles' = handles /\ UsableHandles' = UsableHandles
    BY <2>5 DEF HandleUsable
  <2>6. ASSUME NEW h \in handles, RemoveObjectFails(h)
        PROVE  ids' = ids /\ handles' = handles
    BY <2>6, RemoveObjectFailsStep DEF vars
  <2>7. ASSUME CommitApply
        PROVE  handles' = handles /\ UsableHandles' = UsableHandles
    <3>1. ASSUME NEW k \in Kinds, NEW id \in Ids
          PROVE  /\ ids'[k].states[id] \in {"LIVE", "PENDING_ADD"} <=>
                      ids[k].states[id] \in {"LIVE", "PENDING_ADD"}
                 /\ ids'[k].generations[id] = ids[k].generations[id]
      <4>1. ids[k] \in Allocator /\ Consistent(ids[k]) /\ ids[k].states[id] \in States
        BY DEF IInv, TypeOK, AllocatorConsistent, Allocator
      <4> DEFINE b == CommitBatch(ids[k])
      <4>2. /\ b.states = [i \in Ids |-> IF ids[k].states[i] \in PendingStates
                                         THEN Committed(ids[k], i) ELSE ids[k].states[i]]
            /\ b.generations = ids[k].generations
        BY <4>1, CommitProperties
      <4> HIDE DEF b
      <4>3. /\ ids'[k] = b
            /\ b.states[id] = IF ids[k].states[id] \in PendingStates
                              THEN Committed(ids[k], id) ELSE ids[k].states[id]
        BY <2>7, <4>2 DEF CommitApply, b
      <4>4. /\ ids[k].states[id] = "PENDING_ADD" => Committed(ids[k], id) = "LIVE"
            /\ ids[k].states[id] # "PENDING_ADD" => Committed(ids[k], id) \in {"FREE", "RETIRED"}
        BY DEF Committed
      <4> QED BY <4>1, <4>2, <4>3, <4>4 DEF States, PendingStates
    <3>2. UsableHandles' = UsableHandles
      BY <3>1, SameUsable
    <3> QED BY <2>7, <3>2 DEF CommitApply
  <2>8. ASSUME NEW tag, NEW hs, UseObjects(tag, hs)
        PROVE  ids' = ids /\ handles' = handles
    BY <2>8 DEF UseObjects
  <2>9. ASSUME BeginApply \/ ApplyCommand \/ RejectCommand \/ Close \/ UNCHANGED vars
        PROVE  ids' = ids /\ handles' = handles
    BY <2>9 DEF BeginApply, ApplyCommand, RejectCommand, Close, vars
  <2> HIDE DEF UsableHandles
  <2> QED BY <2>1, <2>2, <2>3, <2>4, <2>5, <2>6, <2>7, <2>8, <2>9
          DEF Next, SetDeviceParameter, ConnectWires, AttachTerminal
<1> QED BY <1>1, <1>2, Invariance, PTL DEF Spec, HandlesKeepTheirPromise, Promise!Spec
=============================================================================
