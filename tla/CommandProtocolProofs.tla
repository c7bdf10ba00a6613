----------------------- MODULE CommandProtocolProofs -----------------------
(***************************************************************************)
(* For every set of commands and every capacity: what Java appends to its  *)
(* buffer is what the native world executes, however often the buffer grew *)
(* and whatever an earlier batch left in it, and an error of any client    *)
(* is located where it is said to be.                                      *)
(***************************************************************************)
EXTENDS CommandProtocol, FiniteSetTheorems, SequenceTheorems, WellFoundedInduction, TLAPS

-----------------------------------------------------------------------------
(* Sums.  The folds of the protocol add up what the elements of a sequence *)
(* take, in an order that is not defined.                                  *)

\* A set of naturals that is not empty has a least element.
LEMMA NatMin == ASSUME NEW T \in SUBSET Nat, T # {} PROVE \E x \in T : \A y \in T : x <= y
<1>1. IsWellFoundedOn(OpToRel(<,Nat), Nat)
  BY NatLessThanWellFounded
<1>2. PICK R : R = {ss \in Nat \X Nat : ss[1] < ss[2]}
  OBVIOUS
<1>3. OpToRel(<,Nat) = {ss \in Nat \X Nat : ss[1] < ss[2]}
  BY Zenon DEF OpToRel
<1>4. IsWellFoundedOn(R, Nat)
  BY <1>1, <1>2, <1>3, Zenon
<1>5. PICK x \in T : \A y \in T : ~(<<y, x>> \in R)
  BY <1>4, WFMin, Zenon
<1>6. \A y \in T : <<y, x>> \in Nat \X Nat /\ (<<y, x>> \in R <=> y < x)
  BY <1>2
<1>7. ASSUME NEW y \in T PROVE x <= y
  <2>1. x \in Nat /\ y \in Nat /\ ~(y < x)
    BY <1>5, <1>6
  <2> QED BY <2>1
<1> QED BY <1>7

\* Counting up to a number.
LEMMA CountUp ==
    ASSUME NEW size \in Nat, NEW T, 0 \in T,
           \A k \in 0..size : k # 0 /\ k - 1 \in T => k \in T
    PROVE  \A k \in 0..size : k \in T
<1> DEFINE Bad == {k \in 0..size : k \notin T}
<1> SUFFICES ASSUME Bad # {} PROVE FALSE
  OBVIOUS
<1>1. Bad \in SUBSET Nat
  OBVIOUS
<1>2. PICK k \in Bad : \A j \in Bad : k <= j
  <2> HIDE DEF Bad
  <2> QED BY <1>1, NatMin
<1>3. k # 0 /\ k \in 0..size /\ k - 1 \in 0..size /\ ~(k <= k - 1)
  OBVIOUS
<1>4. k - 1 \in T
  BY <1>2, <1>3
<1> QED BY <1>3, <1>4

\* How a fold takes the members of a set one by one.
Some(s) == CHOOSE x \in s : TRUE
Others(s) == s \ {Some(s)}

\* g is the sum of the weights of each of the sets.
SumsUp(sets, weight, g) ==
    g = [s \in sets |-> IF s = {} THEN 0 ELSE weight[Some(s)] + g[Others(s)]]

\* A set that is not empty has one member more than the others.
LEMMA OthersFacts ==
    ASSUME NEW S, IsFiniteSet(S), NEW s \in SUBSET S
    PROVE  /\ IsFiniteSet(s) /\ Cardinality(s) \in Nat
           /\ \A y \in s : Cardinality(s) # 0 /\ Cardinality(s \ {y}) = Cardinality(s) - 1
           /\ s # {} => /\ Some(s) \in s /\ Others(s) \in SUBSET S
                        /\ Cardinality(s) # 0 /\ Cardinality(Others(s)) = Cardinality(s) - 1
<1>1. IsFiniteSet(s)
  BY FS_Subset
<1>2. Cardinality(s) \in Nat
  BY <1>1, FS_CardinalityType
<1>3. ASSUME NEW y \in s PROVE Cardinality(s) # 0 /\ Cardinality(s \ {y}) = Cardinality(s) - 1
  <2>1. Cardinality(s) # 0
    BY <1>1, FS_EmptySet
  <2>2. Cardinality(s \ {y}) = Cardinality(s) - 1
    BY <1>1, FS_RemoveElement
  <2> QED BY <2>1, <2>2
<1>4. ASSUME s # {}
      PROVE  /\ Some(s) \in s /\ Others(s) \in SUBSET S
             /\ Cardinality(s) # 0 /\ Cardinality(Others(s)) = Cardinality(s) - 1
  <2>1. Some(s) \in s
    <3>1. \E x \in s : TRUE
      BY <1>4
    <3> QED BY <3>1, Zenon DEF Some
  <2> QED BY <2>1, <1>3 DEF Others
<1> QED BY <1>1, <1>2, <1>3, <1>4

\* The recursion of a fold exists.
LEMMA SumExists ==
    ASSUME NEW S, IsFiniteSet(S), NEW weight
    PROVE  \E g : SumsUp(SUBSET S, weight, g)
<1> DEFINE Small(j) == {s \in SUBSET S : Cardinality(s) <= j}
           T == {j \in Nat : \E g : SumsUp(Small(j), weight, g)}
           size == Cardinality(S)
<1>1. \A s \in SUBSET S :
        /\ Cardinality(s) \in Nat
        /\ s # {} => /\ Others(s) \in SUBSET S
                     /\ Cardinality(s) # 0 /\ Cardinality(Others(s)) = Cardinality(s) - 1
  BY OthersFacts
<1>2. 0 \in T
  <2> DEFINE g == [s \in Small(0) |-> 0]
  <2>1. \A s \in Small(0) : s = {}
    BY <1>1
  <2>2. SumsUp(Small(0), weight, g)
    <3> HIDE DEF Small
    <3>1. g = [s \in Small(0) |-> IF s = {} THEN 0 ELSE weight[Some(s)] + g[Others(s)]]
      BY <2>1
    <3> QED BY <3>1, Zenon DEF SumsUp
  <2> QED BY <2>2, Zenon
<1>3. ASSUME NEW k \in 0..size, k # 0, k - 1 \in T PROVE k \in T
  <2>1. PICK g : SumsUp(Small(k - 1), weight, g)
    BY <1>3
  <2> DEFINE h == [s \in Small(k) |-> IF s = {} THEN 0 ELSE weight[Some(s)] + g[Others(s)]]
             old == Small(k - 1)
             new == Small(k)
  <2>2. k \in Nat /\ old \subseteq new /\ \A s \in new : s # {} => Others(s) \in old
    <3>1. k \in Nat /\ k - 1 \in Nat
      BY <1>3
    <3>2. old \subseteq new
      BY <3>1, <1>1
    <3>3. \A s \in new : s # {} => Others(s) \in old
      BY <3>1, <1>1
    <3> QED BY <3>1, <3>2, <3>3
  <2>3. g = [s \in old |-> IF s = {} THEN 0 ELSE weight[Some(s)] + g[Others(s)]]
    BY <2>1, Zenon DEF SumsUp
  <2> HIDE DEF Small, old, new
  <2>4. h = [s \in new |-> IF s = {} THEN 0 ELSE weight[Some(s)] + g[Others(s)]]
    BY Zenon DEF new
  <2> HIDE DEF h
  <2>5. \A s \in old : h[s] = g[s]
    BY <2>2, <2>3, <2>4
  <2>6. \A s \in new : s # {} => h[Others(s)] = g[Others(s)]
    BY <2>2, <2>5
  <2>7. h = [s \in new |-> IF s = {} THEN 0 ELSE weight[Some(s)] + h[Others(s)]]
    BY <2>4, <2>6
  <2>8. SumsUp(Small(k), weight, h)
    BY <2>7, Zenon DEF SumsUp, new
  <2> QED BY <2>2, <2>8
<1>4. size \in Nat
  BY FS_CardinalityType
<1>5. size \in T
  <2> HIDE DEF T, size
  <2>1. \A k \in 0..size : k \in T
    BY <1>2, <1>3, <1>4, CountUp
  <2> QED BY <1>4, <2>1
<1>6. SUBSET S = Small(size)
  <2>1. \A s \in SUBSET S : Cardinality(s) <= size
    BY FS_Subset
  <2> QED BY <2>1
<1> QED BY <1>5, <1>6, Zenon

\* Whichever member is taken from a set, the others take the rest of the sum.
IsSum(S, weight, g) ==
    /\ g[{}] = 0
    /\ \A s \in SUBSET S : g[s] \in Nat /\ \A y \in s : g[s] = weight[y] + g[s \ {y}]

\* A fold adds up a sum, whichever member it takes first.
LEMMA SumFacts ==
    ASSUME NEW S, IsFiniteSet(S), NEW weight \in [S -> Nat], NEW g, SumsUp(SUBSET S, weight, g)
    PROVE  IsSum(S, weight, g)
<1> DEFINE Good(s) == g[s] \in Nat /\ \A y \in s : g[s] = weight[y] + g[s \ {y}]
           size == Cardinality(S)
           T == {j \in Nat : \A s \in SUBSET S : Cardinality(s) <= j => Good(s)}
<1>1. g = [s \in SUBSET S |-> IF s = {} THEN 0 ELSE weight[Some(s)] + g[Others(s)]]
  BY Zenon DEF SumsUp
<1>2. g[{}] = 0
  BY <1>1
<1>3. \A s \in SUBSET S :
        /\ Cardinality(s) \in Nat
        /\ \A y \in s : Cardinality(s) # 0 /\ Cardinality(s \ {y}) = Cardinality(s) - 1
        /\ s # {} => Some(s) \in s /\ Cardinality(s) # 0
  BY OthersFacts
<1>4. 0 \in T
  <2>1. \A s \in SUBSET S : Cardinality(s) <= 0 => s = {}
    <3>1. ASSUME NEW s \in SUBSET S, Cardinality(s) <= 0, s # {} PROVE FALSE
      <4>1. Cardinality(s) \in Nat /\ Cardinality(s) # 0
        BY <1>3, <3>1
      <4> QED BY <3>1, <4>1
    <3> QED BY <3>1
  <2>2. Good({})
    BY <1>2
  <2> HIDE DEF Good
  <2> QED BY <2>1, <2>2
<1>5. ASSUME NEW k \in 0..size, k # 0, k - 1 \in T PROVE k \in T
  <2>1. k \in Nat
    BY <1>5
  <2>2. ASSUME NEW s \in SUBSET S, Cardinality(s) <= k PROVE Good(s)
    <3>1. CASE s = {}
      BY <1>2, <3>1
    <3>2. CASE s # {}
      <4>1. PICK x \in s : x = Some(s)
        BY <1>3, <3>2
      <4>2. g[s] = weight[x] + g[s \ {x}]
        BY <1>1, <3>2, <4>1 DEF Others
      <4>3. ASSUME NEW y \in s PROVE s \ {y} \in SUBSET S /\ Good(s \ {y})
        <5>1. s \ {y} \in SUBSET S
          OBVIOUS
        <5>2. Cardinality(s \ {y}) <= k - 1
          BY <1>3, <2>1, <2>2
        <5> QED BY <1>5, <5>1, <5>2
      <4>4. g[s] \in Nat
        <5>1. weight[x] \in Nat /\ g[s \ {x}] \in Nat
          BY <4>3
        <5> QED BY <4>2, <5>1
      <4>5. ASSUME NEW y \in s PROVE g[s] = weight[y] + g[s \ {y}]
        <5>1. CASE y = x
          BY <4>2, <5>1
        <5>2. CASE y # x
          <6>1. y \in s \ {x} /\ x \in s \ {y} /\ (s \ {x}) \ {y} = (s \ {y}) \ {x}
            BY <5>2
          <6>2. g[s \ {x}] = weight[y] + g[(s \ {x}) \ {y}]
            BY <4>3, <6>1
          <6>3. g[s \ {y}] = weight[x] + g[(s \ {y}) \ {x}]
            BY <4>3, <6>1
          <6>4. weight[x] \in Nat /\ weight[y] \in Nat /\ g[s \ {y}] \in Nat /\ g[s \ {x}] \in Nat
                /\ g[(s \ {x}) \ {y}] = g[(s \ {y}) \ {x}] /\ g[(s \ {x}) \ {y}] \in Nat
            <7>1. g[s \ {y}] \in Nat /\ g[s \ {x}] \in Nat /\ weight[x] \in Nat /\ weight[y] \in Nat
              BY <4>3
            <7>2. (s \ {x}) \ {y} \in SUBSET S /\ Cardinality((s \ {x}) \ {y}) <= k - 1
              <8>1. (s \ {x}) \in SUBSET S /\ (s \ {x}) \ {y} \in SUBSET S
                OBVIOUS
              <8>2. Cardinality(s \ {x}) <= k - 1
                BY <1>3, <2>1, <2>2
              <8>3. Cardinality((s \ {x}) \ {y}) = Cardinality(s \ {x}) - 1
                BY <1>3, <6>1, <8>1
              <8>4. Cardinality(s \ {x}) \in Nat
                BY <1>3, <8>1
              <8> QED BY <8>1, <8>2, <8>3, <8>4, <2>1
            <7>3. g[(s \ {x}) \ {y}] \in Nat
              BY <1>5, <7>2
            <7> QED BY <7>1, <7>3, <6>1
          <6> QED BY <4>2, <6>2, <6>3, <6>4
        <5> QED BY <5>1, <5>2
      <4> QED BY <4>4, <4>5
    <3> QED BY <3>1, <3>2
  <2> HIDE DEF Good
  <2> QED BY <2>1, <2>2
<1>6. size \in Nat
  BY FS_CardinalityType
<1>7. size \in T
  <2> HIDE DEF T, size
  <2>1. \A k \in 0..size : k \in T
    BY <1>4, <1>5, <1>6, CountUp
  <2> QED BY <1>6, <2>1
<1>8. ASSUME NEW s \in SUBSET S PROVE Good(s)
  <2>1. Cardinality(s) <= size
    BY FS_Subset
  <2> QED BY <1>7, <2>1
<1> QED BY <1>2, <1>8 DEF IsSum

\* What is added to a sum.
IsPlus(a, b, c) == b \in Nat /\ c \in Nat /\ a = b + c

\* The sum over a sequence that is one element longer.
LEMMA SumOfOneMore ==
    ASSUME NEW n \in Nat, NEW m, m = n + 1, NEW v, NEW w, v \in [1..m -> Nat], w \in [1..n -> Nat],
           \A i \in 1..n : v[i] = w[i],
           NEW g, SumsUp(SUBSET (1..m), v, g), NEW h, SumsUp(SUBSET (1..n), w, h)
    PROVE  IsPlus(g[1..m], h[1..n], v[m])
<1> PICK D : D = 1..n
  OBVIOUS
<1> PICK E : E = 1..m
  OBVIOUS
<1>0. IsFiniteSet(D) /\ IsFiniteSet(E)
  BY FS_Interval
<1>1. v \in [E -> Nat] /\ w \in [D -> Nat] /\ SumsUp(SUBSET E, v, g) /\ SumsUp(SUBSET D, w, h)
  OBVIOUS
<1>a. /\ n \in D \/ n = 0
      /\ m \in E /\ E \ {m} = D /\ E \in SUBSET E /\ D \in SUBSET D
      /\ \A k \in D : /\ k \in Nat /\ k \in 1..k /\ (1..k) \ {k} = 1..k - 1
                     /\ 1..k \in SUBSET D /\ 1..k \in SUBSET E /\ k \in E
  OBVIOUS
<1>2. /\ g[{}] = 0
      /\ \A s \in SUBSET E : g[s] \in Nat /\ \A y \in s : g[s] = v[y] + g[s \ {y}]
  <2>1. IsSum(E, v, g)
    BY <1>0, <1>1, SumFacts
  <2> QED BY <2>1 DEF IsSum
<1>3. /\ h[{}] = 0
      /\ \A s \in SUBSET D : h[s] \in Nat /\ \A y \in s : h[s] = w[y] + h[s \ {y}]
  <2>1. IsSum(D, w, h)
    BY <1>0, <1>1, SumFacts
  <2> QED BY <2>1 DEF IsSum
<1> DEFINE T == {k \in Nat : g[1..k] = h[1..k]}
<1>4. 0 \in T
  <2>1. 1..0 = {}
    OBVIOUS
  <2> QED BY <1>2, <1>3, <2>1
<1>5. ASSUME NEW k \in 0..n, k # 0, k - 1 \in T PROVE k \in T
  <2>1. k \in D
    BY <1>5
  <2>2. g[1..k] = v[k] + g[(1..k) \ {k}]
    BY <1>2, <1>a, <2>1
  <2>3. h[1..k] = w[k] + h[(1..k) \ {k}]
    BY <1>3, <1>a, <2>1
  <2>4. v[k] = w[k] /\ g[1..k - 1] = h[1..k - 1]
    BY <2>1, <1>5
  <2>5. k \in Nat /\ (1..k) \ {k} = 1..k - 1
    BY <1>a, <2>1
  <2> QED BY <2>2, <2>3, <2>4, <2>5
<1>6. g[D] = h[D]
  <2> HIDE DEF T
  <2>1. \A k \in 0..n : k \in T
    BY <1>4, <1>5, CountUp
  <2>2. n \in T
    BY <2>1
  <2> QED BY <2>2 DEF T
<1>7. g[E] = v[m] + g[D]
  <2>1. E \in SUBSET E /\ m \in E /\ E \ {m} = D
    BY <1>a
  <2>2. \A y \in E : g[E] = v[y] + g[E \ {y}]
    BY <1>2, <2>1
  <2>3. g[E] = v[m] + g[E \ {m}]
    BY <2>1, <2>2
  <2> QED BY <2>1, <2>3
<1>8. h[D] \in Nat /\ v[m] \in Nat
  BY <1>1, <1>3, <1>a
<1> QED BY <1>6, <1>7, <1>8 DEF IsPlus

-----------------------------------------------------------------------------
(* What the fields of a payload take, and what commands take.              *)

SizeSum(kinds) == FoldSeq(LAMBDA kind, sum : Size(kind) + sum, 0, kinds)

\* v has the sizes of the kinds, and g their sums.
SizesSumUp(kinds, n, v, g) ==
    /\ v \in [1..n -> Nat] /\ \A i \in 1..n : v[i] = Size(kinds[i])
    /\ SumsUp(SUBSET (1..n), v, g) /\ SizeSum(kinds) = g[1..n]

\* The fold adds up the sizes of the fields.
LEMMA SizeSumIsFold ==
    ASSUME NEW S, NEW s \in Seq(S), NEW n \in Nat, Len(s) = n
    PROVE  \E v, g : SizesSumUp(s, n, v, g)
<1> DEFINE D == DOMAIN s
           Fold(f) == f = [t \in SUBSET D |->
                        IF t = {} THEN 0
                        ELSE Size(s[CHOOSE x \in t : TRUE]) + f[t \ {CHOOSE x \in t : TRUE}]]
<1>1. PICK g : g = CHOOSE f : Fold(f)
  OBVIOUS
<1>2. SizeSum(s) = g[D]
  BY <1>1, Zenon DEF SizeSum, FoldSeq, FoldFunction, FoldFunctionOnSet, MapThenFoldSet
<1>3. D = 1..n /\ IsFiniteSet(1..n)
  BY LenProperties, FS_Interval
<1>4. \A i \in D : Size(s[i]) \in Nat
  BY DEF Size
<1> PICK v : v = [i \in D |-> Size(s[i])]
  OBVIOUS
<1>5. v \in [1..n -> Nat] /\ \A i \in 1..n : v[i] = Size(s[i])
  BY <1>3, <1>4
<1> HIDE DEF D
<1>6. \A t \in SUBSET D : t # {} => v[Some(t)] = Size(s[Some(t)])
  <2>1. \A t \in SUBSET D : t # {} => Some(t) \in D
    BY <1>3, OthersFacts
  <2> QED BY <2>1
<1>7. \A f : Fold(f) <=> SumsUp(SUBSET D, v, f)
  <2>1. \A f : Fold(f) <=> f = [t \in SUBSET D |->
                        IF t = {} THEN 0 ELSE Size(s[Some(t)]) + f[Others(t)]]
    BY Zenon DEF Some, Others
  <2>2. \A f : [t \in SUBSET D |-> IF t = {} THEN 0 ELSE Size(s[Some(t)]) + f[Others(t)]]
             = [t \in SUBSET D |-> IF t = {} THEN 0 ELSE v[Some(t)] + f[Others(t)]]
    BY <1>6
  <2> HIDE DEF Fold
  <2> QED BY <2>1, <2>2, Zenon DEF SumsUp
<1> HIDE DEF Fold
<1>8. SumsUp(SUBSET D, v, g)
  <2>1. \E f : SumsUp(SUBSET D, v, f)
    BY <1>3, SumExists
  <2>2. Fold(g)
    BY <1>1, <1>7, <2>1, Zenon
  <2> QED BY <1>7, <2>2
<1>9. SizesSumUp(s, n, v, g)
  BY <1>2, <1>3, <1>5, <1>8 DEF SizesSumUp
<1> QED BY <1>9

\* The sum of the sizes is a number of units.
LEMMA SizeSumFacts ==
    ASSUME NEW S, NEW s \in Seq(S)
    PROVE  SizeSum(s) \in Nat /\ (Len(s) = 0 => SizeSum(s) = 0)
<1>1. PICK n \in Nat : n = Len(s)
  BY LenProperties
<1>2. PICK v, g : SizesSumUp(s, n, v, g)
  BY <1>1, SizeSumIsFold
<1>3. IsSum(1..n, v, g) /\ SizeSum(s) = g[1..n]
  <2>1. IsFiniteSet(1..n)
    BY FS_Interval
  <2> QED BY <1>2, <2>1, SumFacts DEF SizesSumUp
<1>4. g[1..n] \in Nat /\ (n = 0 => g[1..n] = 0)
  <2>1. g[{}] = 0 /\ \A t \in SUBSET (1..n) : g[t] \in Nat
    BY <1>3 DEF IsSum
  <2> QED BY <2>1
<1> QED BY <1>1, <1>3, <1>4

\* One more field adds its size.
LEMMA SizeSumOneMore ==
    ASSUME NEW S, NEW s \in Seq(S), NEW t \in Seq(S), Len(t) = Len(s) + 1,
           \A i \in 1..Len(s) : t[i] = s[i]
    PROVE  SizeSum(t) = SizeSum(s) + Size(t[Len(t)])
<1>1. PICK n \in Nat : n = Len(s)
  BY LenProperties
<1>2. PICK w, h : SizesSumUp(s, n, w, h)
  BY <1>1, SizeSumIsFold
<1>3. PICK m \in Nat : m = n + 1 /\ Len(t) = m
  BY <1>1
<1>4. PICK v, g : SizesSumUp(t, m, v, g)
  BY <1>3, SizeSumIsFold
<1>5. \A i \in 1..n : v[i] = w[i]
  BY <1>1, <1>2, <1>3, <1>4 DEF SizesSumUp
<1>6. IsPlus(g[1..m], h[1..n], v[m])
  <2>1. w \in [1..n -> Nat] /\ SumsUp(SUBSET (1..n), w, h)
    BY <1>2 DEF SizesSumUp
  <2>2. v \in [1..m -> Nat] /\ SumsUp(SUBSET (1..m), v, g)
    BY <1>4 DEF SizesSumUp
  <2> QED BY <2>1, <2>2, <1>3, <1>5, SumOfOneMore
<1>7. v[m] = Size(t[m])
  BY <1>3, <1>4 DEF SizesSumUp
<1>8. SizeSum(s) = h[1..n] /\ SizeSum(t) = g[1..m]
  BY <1>2, <1>4 DEF SizesSumUp
<1> QED BY <1>3, <1>6, <1>7, <1>8 DEF IsPlus

FieldKinds == {"id", "index", "double"}

\* What a command looks like: a name of the protocol, and a number for each
\* of its fields.
Shapes ==
    {c \in [name : DOMAIN Layout, fields : UNION {[DOMAIN Layout[name] -> Nat] : name \in DOMAIN Layout}] :
        c.fields \in [DOMAIN Layout[c.name] -> Nat]}

\* Every command has a sequence of fields.
LEMMA LayoutFacts ==
    ASSUME NEW name \in DOMAIN Layout
    PROVE  /\ Layout[name] \in Seq(FieldKinds)
           /\ Len(Layout[name]) \in Nat \ {0}
           /\ DOMAIN Layout[name] = 1..Len(Layout[name])
<1>1. name \in {"AddWire", "RemoveWire", "ConnectWires", "DisconnectWires", "AddDevice",
                "RemoveDevice", "AttachTerminal", "DetachTerminal", "SetDeviceParameter"}
  BY DEF Layout
<1>2. Layout[name] \in {<<"id">>, <<"id", "id">>, <<"id", "id", "index">>, <<"id", "index", "double">>}
  BY <1>1 DEF Layout
<1> HIDE DEF Layout
<1>3. Layout[name] \in Seq(FieldKinds) /\ Layout[name] # << >>
  <2>1. /\ <<"id">> \in Seq(FieldKinds) /\ <<"id", "id">> \in Seq(FieldKinds)
        /\ <<"id", "id", "index">> \in Seq(FieldKinds)
        /\ <<"id", "index", "double">> \in Seq(FieldKinds)
    BY DEF FieldKinds
  <2>2. /\ <<"id">> # << >> /\ <<"id", "id">> # << >>
        /\ <<"id", "id", "index">> # << >> /\ <<"id", "index", "double">> # << >>
    OBVIOUS
  <2> QED BY <1>2, <2>1, <2>2
<1> QED BY <1>3, LenProperties, EmptySeq

\* The layout of a command takes a number of units.
LEMMA ExtentFacts ==
    /\ \A name \in DOMAIN Layout : PayloadLength(name) = SizeSum(Layout[name]) /\ PayloadLength(name) \in Nat
    /\ \A c \in Shapes : c.name \in DOMAIN Layout /\ Extent(c) = 3 + PayloadLength(c.name) /\ Extent(c) \in Nat
<1>1. ASSUME NEW name \in DOMAIN Layout
      PROVE  PayloadLength(name) = SizeSum(Layout[name]) /\ PayloadLength(name) \in Nat
  <2>1. PayloadLength(name) = SizeSum(Layout[name])
    BY DEF PayloadLength, SizeSum
  <2>2. SizeSum(Layout[name]) \in Nat
    BY LayoutFacts, SizeSumFacts
  <2> QED BY <2>1, <2>2
<1>2. ASSUME NEW c \in Shapes
      PROVE  c.name \in DOMAIN Layout /\ Extent(c) = 3 + PayloadLength(c.name) /\ Extent(c) \in Nat
  <2>1. c.name \in DOMAIN Layout
    BY DEF Shapes
  <2>2. Extent(c) = 3 + PayloadLength(c.name)
    BY DEF Extent, CommandHeaderLength
  <2> QED BY <2>1, <2>2, <1>1
<1> QED BY <1>1, <1>2

ExtentSum(commands) == FoldSeq(LAMBDA c, sum : Extent(c) + sum, 0, commands)

\* v has the extents of the commands, and g their sums.
ExtentsSumUp(commands, n, v, g) ==
    /\ v \in [1..n -> Nat] /\ \A i \in 1..n : v[i] = Extent(commands[i])
    /\ SumsUp(SUBSET (1..n), v, g) /\ ExtentSum(commands) = g[1..n]

\* The fold adds up the extents of the commands.
LEMMA ExtentSumIsFold ==
    ASSUME NEW s \in Seq(Shapes), NEW n \in Nat, Len(s) = n
    PROVE  \E v, g : ExtentsSumUp(s, n, v, g)
<1> DEFINE D == DOMAIN s
           Fold(f) == f = [t \in SUBSET D |->
                        IF t = {} THEN 0
                        ELSE Extent(s[CHOOSE x \in t : TRUE]) + f[t \ {CHOOSE x \in t : TRUE}]]
<1>1. PICK g : g = CHOOSE f : Fold(f)
  OBVIOUS
<1>2. ExtentSum(s) = g[D]
  BY <1>1, Zenon DEF ExtentSum, FoldSeq, FoldFunction, FoldFunctionOnSet, MapThenFoldSet
<1>3. D = 1..n /\ IsFiniteSet(1..n)
  BY LenProperties, FS_Interval
<1>4. \A i \in D : Extent(s[i]) \in Nat
  <2>1. \A i \in D : s[i] \in Shapes
    BY LenProperties
  <2> QED BY <2>1, ExtentFacts
<1> PICK v : v = [i \in D |-> Extent(s[i])]
  OBVIOUS
<1>5. v \in [1..n -> Nat] /\ \A i \in 1..n : v[i] = Extent(s[i])
  BY <1>3, <1>4
<1> HIDE DEF D
<1>6. \A t \in SUBSET D : t # {} => v[Some(t)] = Extent(s[Some(t)])
  <2>1. \A t \in SUBSET D : t # {} => Some(t) \in D
    BY <1>3, OthersFacts
  <2> QED BY <2>1
<1>7. \A f : Fold(f) <=> SumsUp(SUBSET D, v, f)
  <2>1. \A f : Fold(f) <=> f = [t \in SUBSET D |->
                        IF t = {} THEN 0 ELSE Extent(s[Some(t)]) + f[Others(t)]]
    BY Zenon DEF Some, Others
  <2>2. \A f : [t \in SUBSET D |-> IF t = {} THEN 0 ELSE Extent(s[Some(t)]) + f[Others(t)]]
             = [t \in SUBSET D |-> IF t = {} THEN 0 ELSE v[Some(t)] + f[Others(t)]]
    BY <1>6
  <2> HIDE DEF Fold
  <2> QED BY <2>1, <2>2, Zenon DEF SumsUp
<1> HIDE DEF Fold
<1>8. SumsUp(SUBSET D, v, g)
  <2>1. \E f : SumsUp(SUBSET D, v, f)
    BY <1>3, SumExists
  <2>2. Fold(g)
    BY <1>1, <1>7, <2>1, Zenon
  <2> QED BY <1>7, <2>2
<1>9. ExtentsSumUp(s, n, v, g)
  BY <1>2, <1>3, <1>5, <1>8 DEF ExtentsSumUp
<1> QED BY <1>9

\* The sum of the extents is a number of units.
LEMMA ExtentSumFacts ==
    ASSUME NEW s \in Seq(Shapes)
    PROVE  ExtentSum(s) \in Nat /\ (Len(s) = 0 => ExtentSum(s) = 0)
<1>1. PICK n \in Nat : n = Len(s)
  BY LenProperties
<1>2. PICK v, g : ExtentsSumUp(s, n, v, g)
  BY <1>1, ExtentSumIsFold
<1>3. IsSum(1..n, v, g) /\ ExtentSum(s) = g[1..n]
  <2>1. IsFiniteSet(1..n)
    BY FS_Interval
  <2> QED BY <1>2, <2>1, SumFacts DEF ExtentsSumUp
<1>4. g[1..n] \in Nat /\ (n = 0 => g[1..n] = 0)
  <2>1. g[{}] = 0 /\ \A t \in SUBSET (1..n) : g[t] \in Nat
    BY <1>3 DEF IsSum
  <2> QED BY <2>1
<1> QED BY <1>1, <1>3, <1>4

\* One more command adds its extent.
LEMMA ExtentSumOneMore ==
    ASSUME NEW s \in Seq(Shapes), NEW t \in Seq(Shapes), Len(t) = Len(s) + 1,
           \A i \in 1..Len(s) : t[i] = s[i]
    PROVE  ExtentSum(t) = ExtentSum(s) + Extent(t[Len(t)])
<1>1. PICK n \in Nat : n = Len(s)
  BY LenProperties
<1>2. PICK w, h : ExtentsSumUp(s, n, w, h)
  BY <1>1, ExtentSumIsFold
<1>3. PICK m \in Nat : m = n + 1 /\ Len(t) = m
  BY <1>1
<1>4. PICK v, g : ExtentsSumUp(t, m, v, g)
  BY <1>3, ExtentSumIsFold
<1>5. \A i \in 1..n : v[i] = w[i]
  BY <1>1, <1>2, <1>3, <1>4 DEF ExtentsSumUp
<1>6. IsPlus(g[1..m], h[1..n], v[m])
  <2>1. w \in [1..n -> Nat] /\ SumsUp(SUBSET (1..n), w, h)
    BY <1>2 DEF ExtentsSumUp
  <2>2. v \in [1..m -> Nat] /\ SumsUp(SUBSET (1..m), v, g)
    BY <1>4 DEF ExtentsSumUp
  <2> QED BY <2>1, <2>2, <1>3, <1>5, SumOfOneMore
<1>7. v[m] = Extent(t[m])
  BY <1>3, <1>4 DEF ExtentsSumUp
<1>8. ExtentSum(s) = h[1..n] /\ ExtentSum(t) = g[1..m]
  BY <1>2, <1>4 DEF ExtentsSumUp
<1> QED BY <1>3, <1>6, <1>7, <1>8 DEF IsPlus

-----------------------------------------------------------------------------
(* Encoding.                                                               *)

\* Where the fields of a payload begin: one after another, up to its length.
LEMMA FieldAtFacts ==
    ASSUME NEW name \in DOMAIN Layout, NEW n, n = Len(Layout[name])
    PROVE  /\ n \in Nat \ {0} /\ FieldAt(name, 1) = 0 /\ FieldAt(name, n + 1) = PayloadLength(name)
           /\ \A i \in 1..n : /\ FieldAt(name, i) \in Nat
                              /\ FieldAt(name, i + 1) = FieldAt(name, i) + Size(Layout[name][i])
                              /\ FieldAt(name, i) + Size(Layout[name][i]) <= PayloadLength(name)
<1> PICK kinds : kinds = Layout[name]
  OBVIOUS
<1>1. kinds \in Seq(FieldKinds) /\ n \in Nat \ {0} /\ Len(kinds) = n
  BY LayoutFacts
<1>2. ASSUME NEW k \in 0..n
      PROVE  /\ SubSeq(kinds, 1, k) \in Seq(FieldKinds) /\ Len(SubSeq(kinds, 1, k)) = k
             /\ \A i \in 1..k : SubSeq(kinds, 1, k)[i] = kinds[i]
             /\ FieldAt(name, k + 1) = SizeSum(SubSeq(kinds, 1, k)) /\ FieldAt(name, k + 1) \in Nat
  <2>1. \A i \in 1..k : kinds[i] \in FieldKinds
    BY <1>1, ElementOfSeq
  <2>2. /\ SubSeq(kinds, 1, k) \in Seq(FieldKinds) /\ Len(SubSeq(kinds, 1, k)) = k
        /\ \A i \in 1..k : SubSeq(kinds, 1, k)[i] = kinds[i]
    BY <1>1, <2>1, SubSeqProperties
  <2>3. FieldAt(name, k + 1) = SizeSum(SubSeq(kinds, 1, k))
    <3>1. (k + 1) - 1 = k
      BY <1>1
    <3> QED BY <3>1 DEF FieldAt, SizeSum
  <2>4. SizeSum(SubSeq(kinds, 1, k)) \in Nat
    BY <2>2, SizeSumFacts
  <2> QED BY <2>2, <2>3, <2>4
<1>3. FieldAt(name, 1) = 0
  <2>1. 0 \in 0..n /\ 0 + 1 = 1
    BY <1>1
  <2>2. SizeSum(SubSeq(kinds, 1, 0)) = 0
    BY <2>1, <1>2, SizeSumFacts
  <2> QED BY <2>1, <2>2, <1>2
<1>4. FieldAt(name, n + 1) = PayloadLength(name)
  <2>1. n \in 0..n
    BY <1>1
  <2>2. SubSeq(kinds, 1, n) = kinds
    BY <1>1, SubSeqFull
  <2> QED BY <2>1, <2>2, <1>2, ExtentFacts
<1>5. ASSUME NEW i \in 1..n
      PROVE  /\ FieldAt(name, i) \in Nat /\ Size(kinds[i]) \in Nat
             /\ FieldAt(name, i + 1) = FieldAt(name, i) + Size(kinds[i])
  <2>1. PICK h \in 0..n : h = i - 1
    BY <1>1
  <2>2. i \in 0..n /\ h + 1 = i
    BY <2>1, <1>1
  <2>3. PICK s : s = SubSeq(kinds, 1, h)
    OBVIOUS
  <2>4. PICK t : t = SubSeq(kinds, 1, i)
    OBVIOUS
  <2>5. /\ s \in Seq(FieldKinds) /\ Len(s) = h /\ \A x \in 1..h : s[x] = kinds[x]
        /\ FieldAt(name, h + 1) = SizeSum(s) /\ FieldAt(name, h + 1) \in Nat
    BY <1>2, <2>3
  <2>6. /\ t \in Seq(FieldKinds) /\ Len(t) = i /\ \A x \in 1..i : t[x] = kinds[x]
        /\ FieldAt(name, i + 1) = SizeSum(t)
    BY <1>2, <2>2, <2>4
  <2>7. Len(t) = Len(s) + 1 /\ \A x \in 1..Len(s) : t[x] = s[x]
    BY <2>2, <2>5, <2>6
  <2>8. SizeSum(t) = SizeSum(s) + Size(t[Len(t)])
    BY <2>5, <2>6, <2>7, SizeSumOneMore
  <2>9. t[Len(t)] = kinds[i]
    BY <2>6
  <2> QED BY <2>2, <2>5, <2>6, <2>8, <2>9 DEF Size
<1>6. ASSUME NEW i \in 1..n PROVE FieldAt(name, i + 1) <= PayloadLength(name)
  <2> DEFINE T == {k \in Nat : k < i \/ FieldAt(name, i + 1) <= FieldAt(name, k + 1)}
  <2>1. 0 \in T
    OBVIOUS
  <2>2. ASSUME NEW k \in 0..n, k # 0, k - 1 \in T PROVE k \in T
    <3>1. k \in 1..n /\ k \in Nat
      BY <2>2
    <3>2. /\ FieldAt(name, k) \in Nat /\ Size(kinds[k]) \in Nat
          /\ FieldAt(name, k + 1) = FieldAt(name, k) + Size(kinds[k])
      BY <1>5, <3>1
    <3>3. FieldAt(name, i + 1) \in Nat
      BY <1>2
    <3>4. k - 1 < i \/ FieldAt(name, i + 1) <= FieldAt(name, k)
      <4>1. (k - 1) + 1 = k
        BY <3>1
      <4> QED BY <2>2, <4>1
    <3>5. CASE FieldAt(name, i + 1) <= FieldAt(name, k)
      BY <3>1, <3>2, <3>3, <3>5
    <3>6. CASE k - 1 < i
      <4>1. k < i \/ k = i
        BY <3>1, <3>6
      <4>2. FieldAt(name, i + 1) <= FieldAt(name, i + 1)
        BY <3>3
      <4> QED BY <3>1, <4>1, <4>2
    <3> QED BY <3>4, <3>5, <3>6
  <2>3. n \in T
    <3> HIDE DEF T
    <3>1. \A k \in 0..n : k \in T
      BY <1>1, <2>1, <2>2, CountUp
    <3> QED BY <3>1, <1>1
  <2>4. ~(n < i)
    BY <1>1
  <2> QED BY <2>3, <2>4, <1>4
<1> QED BY <1>1, <1>3, <1>4, <1>5, <1>6

\* The number of a command's name.
LEMMA TagFacts ==
    ASSUME NEW name \in DOMAIN Layout
    PROVE  Tag(name) \in DOMAIN Names /\ Names[Tag(name)] = name /\ Tag(name) \in Nat
<1>1. name \in {"AddWire", "RemoveWire", "ConnectWires", "DisconnectWires", "AddDevice",
                "RemoveDevice", "AttachTerminal", "DetachTerminal", "SetDeviceParameter"}
  BY DEF Layout
<1>2. DOMAIN Names = 1..9
  BY DEF Names
<1>3. \E tag \in DOMAIN Names : Names[tag] = name
  <2>1. /\ Names[1] = "AddWire" /\ Names[2] = "RemoveWire" /\ Names[3] = "ConnectWires"
        /\ Names[4] = "DisconnectWires" /\ Names[5] = "AddDevice" /\ Names[6] = "RemoveDevice"
        /\ Names[7] = "AttachTerminal" /\ Names[8] = "DetachTerminal"
        /\ Names[9] = "SetDeviceParameter"
    BY DEF Names
  <2>2. {1, 2, 3, 4, 5, 6, 7, 8, 9} \subseteq DOMAIN Names
    BY <1>2
  <2> QED BY <1>1, <2>1, <2>2
<1>4. Tag(name) \in DOMAIN Names /\ Names[Tag(name)] = name
  BY <1>3, Zenon DEF Tag
<1> QED BY <1>2, <1>4

\* A tag that is a number of a name names a command.
LEMMA NamesFacts == \A tag \in DOMAIN Names : tag \in Nat /\ Names[tag] \in DOMAIN Layout
<1>1. DOMAIN Names = 1..9
  BY DEF Names
<1>2. /\ Names[1] = "AddWire" /\ Names[2] = "RemoveWire" /\ Names[3] = "ConnectWires"
      /\ Names[4] = "DisconnectWires" /\ Names[5] = "AddDevice" /\ Names[6] = "RemoveDevice"
      /\ Names[7] = "AttachTerminal" /\ Names[8] = "DetachTerminal"
      /\ Names[9] = "SetDeviceParameter"
  BY DEF Names
<1>3. DOMAIN Layout = {"AddWire", "RemoveWire", "ConnectWires", "DisconnectWires", "AddDevice",
                       "RemoveDevice", "AttachTerminal", "DetachTerminal", "SetDeviceParameter"}
  BY DEF Layout
<1> QED BY <1>1, <1>2, <1>3

\* How sequences are put behind each other.
Flattened(seqs, n, f) ==
    f = [i \in 1..n |-> IF i = 1 THEN seqs[i] ELSE f[i - 1] \o seqs[i]]

\* The recursion of FlattenSeq exists.
LEMMA FlattenExists ==
    ASSUME NEW seqs, NEW n \in Nat
    PROVE  \E f : Flattened(seqs, n, f)
<1> DEFINE T == {k \in Nat : \E f : Flattened(seqs, k, f)}
<1>1. 0 \in T
  <2> DEFINE f == [i \in 1..0 |-> IF i = 1 THEN seqs[i] ELSE seqs[i]]
  <2>1. f = [i \in 1..0 |-> IF i = 1 THEN seqs[i] ELSE f[i - 1] \o seqs[i]]
    <3>1. 1..0 = {}
      OBVIOUS
    <3> QED BY <3>1
  <2>2. Flattened(seqs, 0, f)
    BY <2>1, Zenon DEF Flattened
  <2> QED BY <2>2, Zenon
<1>2. ASSUME NEW k \in 0..n, k # 0, k - 1 \in T PROVE k \in T
  <2>1. PICK f : Flattened(seqs, k - 1, f)
    BY <1>2
  <2> DEFINE old == 1..k - 1
             new == 1..k
             g == [i \in new |-> IF i = 1 THEN seqs[i] ELSE f[i - 1] \o seqs[i]]
  <2>2. k \in Nat /\ old \subseteq new /\ \A i \in new : i # 1 => i - 1 \in old
    BY <1>2
  <2>3. f = [i \in old |-> IF i = 1 THEN seqs[i] ELSE f[i - 1] \o seqs[i]]
    BY <2>1, Zenon DEF Flattened
  <2> HIDE DEF old, new
  <2>4. g = [i \in new |-> IF i = 1 THEN seqs[i] ELSE f[i - 1] \o seqs[i]]
    OBVIOUS
  <2> HIDE DEF g
  <2>5. \A i \in old : g[i] = f[i]
    BY <2>2, <2>3, <2>4
  <2>6. \A i \in new : i # 1 => g[i - 1] = f[i - 1]
    BY <2>2, <2>5
  <2>7. g = [i \in new |-> IF i = 1 THEN seqs[i] ELSE g[i - 1] \o seqs[i]]
    BY <2>4, <2>6
  <2>8. Flattened(seqs, k, g)
    BY <2>7, Zenon DEF Flattened, new
  <2> QED BY <2>2, <2>8
<1>3. n \in T
  <2> HIDE DEF T
  <2>1. \A k \in 0..n : k \in T
    BY <1>1, <1>2, CountUp
  <2> QED BY <2>1
<1> QED BY <1>3

\* FlattenSeq is the last of them, and a sequence of numbers if all are.
LEMMA FlattenIsLast ==
    ASSUME NEW seqs \in Seq(Seq(Nat)), NEW n \in Nat \ {0}, Len(seqs) = n
    PROVE  \E f : /\ FlattenSeq(seqs) = f[n] /\ f[1] = seqs[1]
                  /\ \A i \in 1..n : f[i] \in Seq(Nat) /\ (i # 1 => f[i] = f[i - 1] \o seqs[i])
<1>1. PICK f : f = CHOOSE g : g = [i \in 1..Len(seqs) |-> IF i = 1 THEN seqs[i] ELSE g[i - 1] \o seqs[i]]
  OBVIOUS
<1>2. FlattenSeq(seqs) = f[Len(seqs)]
  <2>1. ~(Len(seqs) = 0)
    OBVIOUS
  <2> QED BY <1>1, <2>1, Zenon DEF FlattenSeq
<1>3. Flattened(seqs, n, f)
  <2>1. \E g : Flattened(seqs, n, g)
    BY FlattenExists
  <2> QED BY <1>1, <2>1, Zenon DEF Flattened
<1>4. \A i \in 1..n : seqs[i] \in Seq(Nat)
  BY ElementOfSeq
<1>5. \A i \in 1..n : f[i] = IF i = 1 THEN seqs[i] ELSE f[i - 1] \o seqs[i]
  BY <1>3 DEF Flattened
<1>6. 1 \in 1..n
  OBVIOUS
<1> DEFINE T == {k \in Nat : k = 0 \/ f[k] \in Seq(Nat)}
<1>7. 0 \in T
  OBVIOUS
<1>8. ASSUME NEW k \in 0..n, k # 0, k - 1 \in T PROVE k \in T
  <2>1. k \in 1..n /\ k \in Nat
    BY <1>8
  <2>2. CASE k = 1
    BY <1>4, <1>5, <2>1, <2>2
  <2>3. CASE k # 1
    <3>1. f[k - 1] \in Seq(Nat) /\ seqs[k] \in Seq(Nat)
      BY <1>4, <1>8, <2>1, <2>3
    <3>2. f[k] = f[k - 1] \o seqs[k]
      BY <1>5, <2>1, <2>3
    <3>3. f[k] \in Seq(Nat)
      BY <3>1, <3>2, ConcatProperties
    <3> QED BY <2>1, <3>3
  <2> QED BY <2>2, <2>3
<1>9. \A i \in 1..n : f[i] \in Seq(Nat)
  <2> HIDE DEF T
  <2>1. \A k \in 0..n : k \in T
    BY <1>7, <1>8, CountUp
  <2>2. \A i \in 1..n : i \in 0..n /\ i # 0
    OBVIOUS
  <2> QED BY <2>1, <2>2 DEF T
<1>10. f[1] = seqs[1] /\ \A i \in 1..n : i # 1 => f[i] = f[i - 1] \o seqs[i]
  BY <1>5, <1>6
<1> QED BY <1>2, <1>9, <1>10

\* What lies in a part of a sequence lies in it.
LEMMA Shifted ==
    ASSUME NEW a \in Nat, NEW l \in Nat, NEW j \in 1..l, NEW before \in Nat, NEW size \in Nat,
           a + l <= before
    PROVE  a + j \in 1..before + size /\ a + j <= before
OBVIOUS

\* The same, three units later.
LEMMA ShiftedBack ==
    ASSUME NEW a \in Nat, NEW l \in Nat, NEW j \in 1..l, NEW p \in Nat, a + l <= p
    PROVE  3 + a + j \in 1..3 + p /\ ~(3 + a + j <= 3) /\ (3 + a + j) - 3 = a + j
OBVIOUS

\* The first k sequences lie one behind the other in a sequence.
Lined(seqs, at, k, s) ==
    /\ s \in Seq(Nat) /\ Len(s) = at[k + 1] /\ at[k + 1] \in Nat
    /\ \A i \in 1..k : /\ at[i] + Len(seqs[i]) <= at[k + 1]
                       /\ \A j \in 1..Len(seqs[i]) : s[at[i] + j] = seqs[i][j]

\* What lies behind the first units.
LEMMA Behind ==
    ASSUME NEW before \in Nat, NEW size \in Nat, NEW j \in 1..size
    PROVE  before + j \in 1..before + size /\ ~(before + j <= before) /\ (before + j) - before = j
OBVIOUS

\* A sequence lies behind another one.
IsBehind(r, s, t, before, size) ==
    /\ r \in Seq(Nat) /\ Len(r) = before + size
    /\ \A i \in 1..before + size : r[i] = IF i <= before THEN s[i] ELSE t[i - before]

\* Two sequences of units.
LEMMA TwoSequences ==
    ASSUME NEW s \in Seq(Nat), NEW t \in Seq(Nat), NEW before, before = Len(s), NEW size, size = Len(t)
    PROVE  IsBehind(s \o t, s, t, before, size)
<1>1. PICK r : r = s \o t
  OBVIOUS
<1>2. r \in Seq(Nat) /\ Len(r) = before + size
  BY <1>1, ConcatProperties
<1>3. \A i \in 1..before + size : r[i] = IF i <= before THEN s[i] ELSE t[i - before]
  BY <1>1, ConcatProperties
<1>4. IsBehind(r, s, t, before, size)
  BY <1>2, <1>3 DEF IsBehind
<1> QED BY <1>1, <1>4

\* One more sequence behind those.
LEMMA LinedOneMore ==
    ASSUME NEW seqs, NEW at, NEW k \in Nat, NEW h, h = k + 1, NEW s, Lined(seqs, at, k, s),
           seqs[h] \in Seq(Nat), at[h + 1] = at[h] + Len(seqs[h]),
           \A i \in 1..h : at[i] \in Nat /\ Len(seqs[i]) \in Nat
    PROVE  Lined(seqs, at, h, s \o seqs[h])
<1> PICK t : t = seqs[h]
  OBVIOUS
<1> PICK r : r = s \o t
  OBVIOUS
<1> PICK size : size = Len(t)
  OBVIOUS
<1> PICK before : before = at[h]
  OBVIOUS
<1>1. s \in Seq(Nat) /\ t \in Seq(Nat) /\ Len(s) = before /\ before \in Nat /\ size \in Nat
  BY LenProperties DEF Lined
<1>2. /\ r \in Seq(Nat) /\ Len(r) = before + size
      /\ \A i \in 1..before + size : r[i] = IF i <= before THEN s[i] ELSE t[i - before]
  <2>1. IsBehind(r, s, t, before, size)
    BY <1>1, TwoSequences
  <2> QED BY <2>1 DEF IsBehind
<1>3. at[h + 1] = before + size /\ at[h + 1] \in Nat
  BY <1>1
<1>4. ASSUME NEW i \in 1..h
      PROVE  /\ at[i] + Len(seqs[i]) <= at[h + 1]
             /\ \A j \in 1..Len(seqs[i]) : r[at[i] + j] = seqs[i][j]
  <2>1. at[i] \in Nat /\ Len(seqs[i]) \in Nat
    OBVIOUS
  <2>2. CASE i = h
    <3>1. at[i] = before /\ seqs[i] = t /\ Len(seqs[i]) = size
      BY <2>2
    <3>2. ASSUME NEW j \in 1..size PROVE r[before + j] = t[j]
      <4>1. before + j \in 1..before + size /\ ~(before + j <= before) /\ (before + j) - before = j
        <5>1. before \in Nat /\ size \in Nat /\ j \in 1..size
          BY <1>1
        <5> QED BY <5>1, Behind, ZenonT(30)
      <4>2. PICK x : x = before + j
        OBVIOUS
      <4>3. r[x] = t[x - before]
        BY <4>1, <4>2, <1>2
      <4> QED BY <4>1, <4>2, <4>3
    <3>3. before + size <= at[h + 1]
      BY <1>1, <1>3
    <3> QED BY <3>1, <3>2, <3>3
  <2>3. CASE i # h
    <3>1. i \in 1..k
      BY <2>3
    <3>2. /\ at[i] + Len(seqs[i]) <= before
          /\ \A j \in 1..Len(seqs[i]) : s[at[i] + j] = seqs[i][j]
      BY <3>1 DEF Lined
    <3>3. ASSUME NEW j \in 1..Len(seqs[i]) PROVE r[at[i] + j] = seqs[i][j]
      <4>1. PICK a : a = at[i]
        OBVIOUS
      <4>2. a \in Nat /\ a + Len(seqs[i]) <= before
        BY <2>1, <3>2, <4>1
      <4>3. a + j \in 1..before + size /\ a + j <= before
        <5>1. PICK l : l = Len(seqs[i])
          OBVIOUS
        <5>2. l \in Nat /\ j \in 1..l /\ a \in Nat /\ a + l <= before /\ before \in Nat /\ size \in Nat
          BY <1>1, <2>1, <4>2, <5>1
        <5> QED BY <5>2, Shifted
      <4> QED BY <4>1, <4>3, <1>2, <3>2
    <3>4. at[i] + Len(seqs[i]) <= at[h + 1]
      <4>1. PICK m : m = at[i] + Len(seqs[i])
        OBVIOUS
      <4>2. m \in Nat /\ m <= before
        <5>1. PICK a \in Nat : a = at[i]
          BY <2>1
        <5>2. PICK l \in Nat : l = Len(seqs[i])
          BY <2>1
        <5>3. m = a + l
          BY <4>1, <5>1, <5>2
        <5>4. m <= before
          BY <3>2, <4>1
        <5> QED BY <5>3, <5>4
      <4>3. m <= before + size
        BY <1>1, <4>2
      <4> QED BY <1>3, <4>1, <4>3
    <3> QED BY <3>3, <3>4
  <2> QED BY <2>2, <2>3
<1> QED BY <1>2, <1>3, <1>4 DEF Lined

\* FlattenSeq puts sequences of numbers behind each other.
LEMMA FlattenFacts ==
    ASSUME NEW seqs \in Seq(Seq(Nat)), NEW n \in Nat \ {0}, Len(seqs) = n, NEW at, at[1] = 0,
           \A i \in 1..n : at[i] \in Nat /\ at[i + 1] = at[i] + Len(seqs[i])
    PROVE  Lined(seqs, at, n, FlattenSeq(seqs))
<1>1. PICK f : /\ FlattenSeq(seqs) = f[n] /\ f[1] = seqs[1]
               /\ \A i \in 1..n : f[i] \in Seq(Nat) /\ (i # 1 => f[i] = f[i - 1] \o seqs[i])
  BY FlattenIsLast
<1>2. \A i \in 1..n : seqs[i] \in Seq(Nat) /\ Len(seqs[i]) \in Nat
  BY ElementOfSeq, LenProperties
<1> DEFINE T == {k \in Nat : k = 0 \/ Lined(seqs, at, k, f[k])}
<1>3. 0 \in T
  OBVIOUS
<1>4. ASSUME NEW k \in 0..n, k # 0, k - 1 \in T PROVE k \in T
  <2>1. k \in 1..n /\ k \in Nat
    BY <1>4
  <2>2. CASE k = 1
    <3>1. f[1] = seqs[1] /\ seqs[1] \in Seq(Nat) /\ Len(seqs[1]) \in Nat /\ 1 \in 1..n
      BY <1>1, <1>2, <2>1, <2>2
    <3>2. at[1 + 1] = Len(seqs[1]) /\ at[1] = 0
      BY <3>1
    <3>3. Lined(seqs, at, 1, seqs[1])
      <4>1. \A i \in 1..1 : i = 1
        OBVIOUS
      <4>2. \A j \in 1..Len(seqs[1]) : 0 + j = j
        OBVIOUS
      <4>3. \A j \in 1..Len(seqs[1]) : seqs[1][at[1] + j] = seqs[1][j]
        BY <3>2, <4>2
      <4>4. at[1] + Len(seqs[1]) <= at[1 + 1]
        BY <3>1, <3>2
      <4> QED BY <3>1, <3>2, <4>1, <4>3, <4>4 DEF Lined
    <3> QED BY <2>2, <3>1, <3>3
  <2>3. CASE k # 1
    <3>1. PICK h \in Nat : h = k - 1 /\ h # 0
      BY <2>1, <2>3
    <3>2. k = h + 1 /\ Lined(seqs, at, h, f[h])
      BY <3>1, <1>4, <2>1
    <3>3. f[k] = f[h] \o seqs[k]
      BY <1>1, <2>1, <2>3, <3>1
    <3>4. seqs[k] \in Seq(Nat) /\ at[k + 1] = at[k] + Len(seqs[k])
      BY <1>2, <2>1
    <3>5. \A i \in 1..k : at[i] \in Nat /\ Len(seqs[i]) \in Nat
      BY <1>2, <2>1
    <3>6. Lined(seqs, at, k, f[h] \o seqs[k])
      BY <3>1, <3>2, <3>4, <3>5, LinedOneMore
    <3> QED BY <2>1, <3>3, <3>6
  <2> QED BY <2>2, <2>3
<1>5. n \in T
  <2> HIDE DEF T
  <2>1. \A k \in 0..n : k \in T
    BY <1>3, <1>4, CountUp
  <2> QED BY <2>1
<1> QED BY <1>1, <1>5

\* What a field is encoded as.
LEMMA EncodeFieldFacts ==
    ASSUME NEW kind, NEW value \in Nat
    PROVE  /\ EncodeField(kind, value) \in Seq(Nat) /\ Len(EncodeField(kind, value)) = Size(kind)
           /\ kind = "double" => EncodeField(kind, value)[4] = value
           /\ kind # "double" => EncodeField(kind, value)[1] = value /\ EncodeField(kind, value)[2] = 0
<1>1. CASE kind = "double"
  BY <1>1 DEF EncodeField, Double, Size
<1>2. CASE kind # "double"
  BY <1>2 DEF EncodeField, Number, Size
<1> QED BY <1>1, <1>2

\* A command lies in these units: its tag, the length of its payload, and its
\* fields.
IsEncoded(command, units) ==
    /\ units \in Seq(Nat) /\ Len(units) = Extent(command)
    /\ units[1] = Tag(command.name)
    /\ units[2] = 2 * PayloadLength(command.name) /\ units[3] = 0
    /\ \A i \in DOMAIN Layout[command.name] :
          LET at == 3 + FieldAt(command.name, i) IN
          IF Layout[command.name][i] = "double" THEN units[at + 4] = command.fields[i]
          ELSE units[at + 1] = command.fields[i] /\ units[at + 2] = 0

\* The encoder writes them.
LEMMA EncodeFacts ==
    ASSUME NEW command \in Shapes
    PROVE  IsEncoded(command, EncodeCommand(command))
<1>name. PICK name : name = command.name
  OBVIOUS
<1>fields. PICK fields : fields = command.fields
  OBVIOUS
<1>kinds. PICK kinds : kinds = Layout[name]
  OBVIOUS
<1>n. PICK n : n = Len(kinds)
  OBVIOUS
<1>1. name \in DOMAIN Layout /\ fields \in [DOMAIN kinds -> Nat]
  BY <1>name, <1>fields, <1>kinds DEF Shapes
<1>2. kinds \in Seq(FieldKinds) /\ DOMAIN kinds = 1..n
  BY <1>1, <1>kinds, <1>n, LayoutFacts
<1>3. /\ n \in Nat \ {0} /\ FieldAt(name, 1) = 0 /\ FieldAt(name, n + 1) = PayloadLength(name)
      /\ \A i \in 1..n : /\ FieldAt(name, i) \in Nat
                         /\ FieldAt(name, i + 1) = FieldAt(name, i) + Size(kinds[i])
                         /\ FieldAt(name, i) + Size(kinds[i]) <= PayloadLength(name)
  BY <1>1, <1>kinds, <1>n, FieldAtFacts
<1>seqs. PICK seqs : seqs = [i \in DOMAIN kinds |-> EncodeField(kinds[i], fields[i])]
  OBVIOUS
<1>4. ASSUME NEW i \in 1..n
      PROVE  /\ seqs[i] = EncodeField(kinds[i], fields[i]) /\ seqs[i] \in Seq(Nat)
             /\ Len(seqs[i]) = Size(kinds[i])
  <2>1. seqs[i] = EncodeField(kinds[i], fields[i]) /\ fields[i] \in Nat
    BY <1>1, <1>2, <1>seqs
  <2> QED BY <2>1, EncodeFieldFacts
<1>5. seqs \in Seq(Seq(Nat)) /\ Len(seqs) = n
  <2>1. seqs \in [1..n -> Seq(Nat)]
    <3>1. seqs = [i \in 1..n |-> seqs[i]]
      BY <1>2, <1>seqs
    <3> QED BY <3>1, <1>4
  <2> QED BY <2>1, <1>3
<1>at. PICK at : at = [i \in 1..n + 1 |-> FieldAt(name, i)]
  OBVIOUS
<1>6. /\ at[1] = 0 /\ at[n + 1] = PayloadLength(name)
      /\ \A i \in 1..n : at[i] = FieldAt(name, i) /\ at[i] \in Nat /\ at[i + 1] = at[i] + Len(seqs[i])
  <2>1. 1 \in 1..n + 1 /\ n + 1 \in 1..n + 1 /\ \A i \in 1..n : i \in 1..n + 1 /\ i + 1 \in 1..n + 1
    BY <1>3
  <2> QED BY <2>1, <1>3, <1>4, <1>at
<1>payload. PICK payload : payload = FlattenSeq(seqs)
  OBVIOUS
<1>7. Lined(seqs, at, n, payload)
  <2>1. \A i \in 1..n : at[i] \in Nat /\ at[i + 1] = at[i] + Len(seqs[i])
    BY <1>6
  <2>2. at[1] = 0 /\ n \in Nat \ {0}
    BY <1>3, <1>6
  <2> QED BY <2>1, <2>2, <1>5, <1>payload, FlattenFacts
<1>8. payload \in Seq(Nat) /\ Len(payload) = PayloadLength(name) /\ PayloadLength(name) \in Nat
  BY <1>6, <1>7 DEF Lined
<1>header. PICK header : header = <<Tag(name)>> \o Number(2 * PayloadLength(name))
  OBVIOUS
<1>9. /\ header \in Seq(Nat) /\ Len(header) = 3 /\ header[1] = Tag(name)
      /\ header[2] = 2 * PayloadLength(name) /\ header[3] = 0
  <2>1. Tag(name) \in Nat /\ 2 * PayloadLength(name) \in Nat
    BY <1>1, <1>8, TagFacts
  <2>tag. PICK tag : tag = Tag(name)
    OBVIOUS
  <2>length. PICK length : length = 2 * PayloadLength(name)
    OBVIOUS
  <2>2. header = <<tag>> \o <<length, 0>> /\ tag \in Nat /\ length \in Nat
    BY <2>1, <2>tag, <2>length, <1>header DEF Number
  <2>3. header \in Seq(Nat) /\ Len(header) = 3 /\ header[1] = tag /\ header[2] = length /\ header[3] = 0
    BY <2>2
  <2> QED BY <2>3, <2>tag, <2>length
<1>units. PICK units : units = EncodeCommand(command)
  OBVIOUS
<1>10. units = header \o payload
  BY <1>name, <1>fields, <1>kinds, <1>seqs, <1>payload, <1>header, <1>units, Zenon DEF EncodeCommand
<1>11. /\ units \in Seq(Nat) /\ Len(units) = 3 + PayloadLength(name)
       /\ \A i \in 1..3 + PayloadLength(name) : units[i] = IF i <= 3 THEN header[i] ELSE payload[i - 3]
  <2>1. /\ units \in Seq(Nat) /\ Len(units) = Len(header) + Len(payload)
        /\ \A i \in 1..Len(header) + Len(payload) :
              units[i] = IF i <= Len(header) THEN header[i] ELSE payload[i - Len(header)]
    BY <1>8, <1>9, <1>10, ConcatProperties
  <2>2. Len(header) = 3 /\ Len(payload) = PayloadLength(name)
    BY <1>8, <1>9
  <2> QED BY <2>1, <2>2, Zenon
<1>12. Len(units) = Extent(command)
  BY <1>11, <1>name, ExtentFacts
<1>13. units[1] = Tag(name) /\ units[2] = 2 * PayloadLength(name) /\ units[3] = 0
  <2>1. {1, 2, 3} \subseteq 1..3 + PayloadLength(name)
    BY <1>8
  <2> QED BY <2>1, <1>9, <1>11
<1>14. ASSUME NEW i \in 1..n, NEW j \in 1..Size(kinds[i])
       PROVE  units[3 + FieldAt(name, i) + j] = seqs[i][j]
  <2>1. payload[at[i] + j] = seqs[i][j]
    <3>1. \A x \in 1..Len(seqs[i]) : payload[at[i] + x] = seqs[i][x]
      BY <1>7 DEF Lined
    <3> QED BY <3>1, <1>4
  <2>2. FieldAt(name, i) \in Nat /\ FieldAt(name, i) + Size(kinds[i]) <= PayloadLength(name)
        /\ Size(kinds[i]) \in Nat /\ at[i] = FieldAt(name, i)
    BY <1>3, <1>6 DEF Size
  <2>3. PICK f : f = FieldAt(name, i)
    OBVIOUS
  <2>4. 3 + f + j \in 1..3 + PayloadLength(name) /\ ~(3 + f + j <= 3) /\ (3 + f + j) - 3 = f + j
    <3>1. f \in Nat /\ PayloadLength(name) \in Nat /\ Size(kinds[i]) \in Nat /\ f + Size(kinds[i]) <= PayloadLength(name)
      BY <1>8, <2>2, <2>3
    <3> QED BY <3>1, ShiftedBack
  <2>5. units[3 + f + j] = payload[f + j]
    BY <2>4, <1>11
  <2> QED BY <2>1, <2>2, <2>3, <2>5
<1>15. ASSUME NEW i \in 1..n
       PROVE  IF kinds[i] = "double" THEN units[3 + FieldAt(name, i) + 4] = fields[i]
              ELSE units[3 + FieldAt(name, i) + 1] = fields[i] /\ units[3 + FieldAt(name, i) + 2] = 0
  <2>1. fields[i] \in Nat /\ seqs[i] = EncodeField(kinds[i], fields[i])
    BY <1>1, <1>2, <1>4
  <2>2. CASE kinds[i] = "double"
    <3>1. seqs[i][4] = fields[i]
      BY <2>1, <2>2, EncodeFieldFacts
    <3>2. 4 \in 1..Size(kinds[i])
      BY <2>2 DEF Size
    <3> QED BY <2>2, <3>1, <3>2, <1>14
  <2>3. CASE kinds[i] # "double"
    <3>1. seqs[i][1] = fields[i] /\ seqs[i][2] = 0
      BY <2>1, <2>3, EncodeFieldFacts
    <3>2. 1 \in 1..Size(kinds[i]) /\ 2 \in 1..Size(kinds[i])
      BY <2>3 DEF Size
    <3> QED BY <2>3, <3>1, <3>2, <1>14
  <2> QED BY <2>2, <2>3
<1>16. \A i \in DOMAIN kinds :
         LET l == 3 + FieldAt(name, i)
         IN  IF kinds[i] = "double" THEN units[l + 4] = fields[i]
             ELSE units[l + 1] = fields[i] /\ units[l + 2] = 0
  BY <1>2, <1>15
<1> QED BY <1>11, <1>12, <1>13, <1>16, <1>name, <1>fields, <1>kinds, <1>units, Zenon DEF IsEncoded

-----------------------------------------------------------------------------
(* The Java buffer.                                                        *)

\* What is written over a memory, and what stays.
IsWritten(w, memory, size, offset, units, length) ==
    /\ w \in Seq(Nat) /\ Len(w) = size /\ size \in Nat /\ length \in Nat
    /\ \A i \in 1..size : i <= offset \/ offset + length < i => w[i] = memory[i]
    /\ \A i \in 1..length : offset + i <= size => w[offset + i] = units[i]

\* The units are written over the memory.
LEMMA WrittenFacts ==
    ASSUME NEW memory \in Seq(Nat), NEW size, size = Len(memory),
           NEW units \in Seq(Nat), NEW length, length = Len(units), NEW offset \in Nat
    PROVE  IsWritten(Written(memory, offset, units), memory, size, offset, units, length)
<1>w. PICK w : w = Written(memory, offset, units)
  OBVIOUS
<1>1. /\ DOMAIN memory = 1..size /\ DOMAIN units = 1..length /\ size \in Nat /\ length \in Nat
      /\ (\A i \in 1..size : memory[i] \in Nat) /\ (\A i \in 1..length : units[i] \in Nat)
  BY LenProperties, ElementOfSeq
<1>2. w = [i \in 1..size |-> IF i - offset \in 1..length THEN units[i - offset] ELSE memory[i]]
  BY <1>1, <1>w DEF Written
<1>3. \A i \in 1..size : w[i] \in Nat
  BY <1>1, <1>2
<1>4. w \in Seq(Nat) /\ Len(w) = size
  <2>1. w \in [1..size -> Nat] /\ DOMAIN w = 1..size
    BY <1>2, <1>3
  <2>2. PICK n \in Nat : n = size
    BY <1>1
  <2>3. w \in Seq(Nat)
    <3>1. w \in [1..n -> Nat]
      BY <2>1, <2>2
    <3> QED BY <3>1
  <2>4. Len(w) = n
    BY <2>1, <2>2, <2>3, LenProperties
  <2> QED BY <2>2, <2>3, <2>4
<1>5. ASSUME NEW i \in 1..size, i <= offset \/ offset + length < i PROVE w[i] = memory[i]
  <2>1. ~(i - offset \in 1..length)
    BY <1>1, <1>5
  <2> QED BY <2>1, <1>2
<1>6. ASSUME NEW i \in 1..length, offset + i <= size PROVE w[offset + i] = units[i]
  <2>1. offset + i \in 1..size /\ (offset + i) - offset = i
    BY <1>1, <1>6
  <2> QED BY <2>1, <1>2
<1> QED BY <1>1, <1>4, <1>5, <1>6, <1>w DEF IsWritten

\* One step of the loop of ensureCapacity.
GrowAt(f, c, required) ==
    IF c >= required THEN c ELSE IF c > MaxCapacity \div 2 THEN required ELSE f[2 * c]

\* The capacity is doubled within its limit.
LEMMA Doubled ==
    ASSUME NEW c \in 1..MaxCapacity, ~(c > MaxCapacity \div 2)
    PROVE  2 * c \in 1..MaxCapacity /\ 2 * c > c
<1>1. MaxCapacity \in Nat
  BY CapacityAssumption
<1> QED BY <1>1

\* The loop of ensureCapacity ends with a capacity that is enough.
LEMMA GrownFacts ==
    ASSUME NEW capacity \in 1..MaxCapacity, NEW required \in 1..MaxCapacity
    PROVE  /\ Grown(capacity, required) \in 1..MaxCapacity
           /\ required <= Grown(capacity, required)
<1>0. MaxCapacity \in Nat
  BY CapacityAssumption
<1>1. \A c \in 1..MaxCapacity : ~(c > MaxCapacity \div 2) => 2 * c \in 1..MaxCapacity /\ 2 * c > c
  BY Doubled
<1>2. \E f : \A c \in 1..MaxCapacity : f[c] = GrowAt(f, c, required)
  <2> DEFINE Upper(n) == {c \in 1..MaxCapacity : c > MaxCapacity - n}
             T == {n \in Nat : \E f : \A c \in Upper(n) : f[c] = GrowAt(f, c, required)}
  <2>1. 0 \in T
    <3>1. Upper(0) = {}
      BY <1>0
    <3> QED BY <3>1
  <2>2. ASSUME NEW n \in 0..MaxCapacity, n # 0, n - 1 \in T PROVE n \in T
    <3>1. PICK f : \A c \in Upper(n - 1) : f[c] = GrowAt(f, c, required)
      BY <2>2
    <3>2. PICK first : first = MaxCapacity - n + 1
      OBVIOUS
    <3>3. PICK g : g = [c \in 1..MaxCapacity |-> IF c = first THEN GrowAt(f, c, required) ELSE f[c]]
      OBVIOUS
    <3>4. ASSUME NEW c \in Upper(n)
          PROVE  c \in 1..MaxCapacity /\ (c = first \/ c \in Upper(n - 1)) /\ c >= first
      BY <1>0, <2>2, <3>2
    <3>5. ASSUME NEW c \in Upper(n), ~(c > MaxCapacity \div 2) PROVE g[2 * c] = f[2 * c]
      <4>1. PICK d : d = 2 * c
        OBVIOUS
      <4>2. d \in 1..MaxCapacity /\ d > c
        BY <1>1, <3>4, <3>5, <4>1
      <4>3. d # first
        BY <1>0, <2>2, <3>2, <3>4, <4>2
      <4> QED BY <3>3, <4>1, <4>2, <4>3
    <3> HIDE DEF Upper
    <3>6. ASSUME NEW c \in Upper(n) PROVE g[c] = GrowAt(g, c, required)
      <4>1. GrowAt(g, c, required) = GrowAt(f, c, required)
        BY <3>5 DEF GrowAt
      <4>2. g[c] = IF c = first THEN GrowAt(f, c, required) ELSE f[c]
        BY <3>3, <3>4
      <4> QED BY <3>1, <3>4, <4>1, <4>2
    <3>7. n \in Nat
      BY <2>2
    <3> QED BY <3>6, <3>7
  <2>3. MaxCapacity \in T
    <3> HIDE DEF T
    <3>1. \A n \in 0..MaxCapacity : n \in T
      BY <1>0, <2>1, <2>2, CountUp
    <3> QED BY <3>1, <1>0
  <2>4. Upper(MaxCapacity) = 1..MaxCapacity
    BY <1>0
  <2> QED BY <2>3, <2>4
<1>3. PICK grow : grow = CHOOSE f : f = [c \in 1..MaxCapacity |->
                        IF c >= required THEN c
                        ELSE IF c > MaxCapacity \div 2 THEN required ELSE f[2 * c]]
  OBVIOUS
<1>4. Grown(capacity, required) = grow[capacity]
  BY <1>3, Zenon DEF Grown
<1>5. \A c \in 1..MaxCapacity : grow[c] = GrowAt(grow, c, required)
  <2>1. PICK f : \A c \in 1..MaxCapacity : f[c] = GrowAt(f, c, required)
    BY <1>2
  <2>2. PICK g : g = [c \in 1..MaxCapacity |-> f[c]]
    OBVIOUS
  <2>3. ASSUME NEW c \in 1..MaxCapacity PROVE GrowAt(f, c, required) = GrowAt(g, c, required)
    <3>1. ~(c > MaxCapacity \div 2) => g[2 * c] = f[2 * c]
      BY <1>1, <2>2
    <3> QED BY <3>1 DEF GrowAt
  <2>4. g = [c \in 1..MaxCapacity |-> GrowAt(g, c, required)]
    BY <2>1, <2>2, <2>3
  <2>5. g = [c \in 1..MaxCapacity |->
                        IF c >= required THEN c
                        ELSE IF c > MaxCapacity \div 2 THEN required ELSE g[2 * c]]
    BY <2>4, Zenon DEF GrowAt
  <2>6. grow = [c \in 1..MaxCapacity |->
                        IF c >= required THEN c
                        ELSE IF c > MaxCapacity \div 2 THEN required ELSE grow[2 * c]]
    BY <1>3, <2>5, Zenon
  <2> QED BY <2>6 DEF GrowAt
<1> DEFINE Enough(c) == grow[c] \in 1..MaxCapacity /\ required <= grow[c]
           T == {n \in Nat : \A c \in 1..MaxCapacity : c > MaxCapacity - n => Enough(c)}
<1>6. 0 \in T
  BY <1>0
<1>7. ASSUME NEW n \in 0..MaxCapacity, n # 0, n - 1 \in T PROVE n \in T
  <2>1. ASSUME NEW c \in 1..MaxCapacity, c > MaxCapacity - n PROVE Enough(c)
    <3>1. grow[c] = GrowAt(grow, c, required)
      BY <1>5
    <3>2. CASE c >= required
      BY <3>1, <3>2 DEF GrowAt
    <3>3. CASE ~(c >= required) /\ c > MaxCapacity \div 2
      BY <3>1, <3>3, <1>0 DEF GrowAt
    <3>4. CASE ~(c >= required) /\ ~(c > MaxCapacity \div 2)
      <4>1. PICK d : d = 2 * c
        OBVIOUS
      <4>2. d \in 1..MaxCapacity /\ d > c
        BY <1>1, <3>4, <4>1
      <4>3. d > MaxCapacity - (n - 1)
        BY <1>0, <1>7, <2>1, <4>2
      <4>4. Enough(d)
        BY <1>7, <4>2, <4>3
      <4>5. grow[c] = grow[d]
        BY <3>1, <3>4, <4>1 DEF GrowAt
      <4> QED BY <4>4, <4>5
    <3> QED BY <3>2, <3>3, <3>4
  <2> HIDE DEF Enough
  <2>2. n \in Nat
    BY <1>7
  <2> QED BY <2>1, <2>2
<1>8. Enough(capacity)
  <2> HIDE DEF T, Enough
  <2>1. \A n \in 0..MaxCapacity : n \in T
    BY <1>0, <1>6, <1>7, CountUp
  <2>2. MaxCapacity \in T /\ capacity > MaxCapacity - MaxCapacity
    BY <2>1, <1>0
  <2> QED BY <2>2 DEF T
<1> QED BY <1>4, <1>8

\* Where the first k commands end.
EndOf(commands, k) == 8 + ExtentSum(SubSeq(commands, 1, k))

\* A prefix of the commands.
LEMMA PrefixFacts ==
    ASSUME NEW commands \in Seq(Shapes), NEW n, n = Len(commands), NEW k \in 0..n
    PROVE  /\ SubSeq(commands, 1, k) \in Seq(Shapes) /\ Len(SubSeq(commands, 1, k)) = k
           /\ \A i \in 1..k : SubSeq(commands, 1, k)[i] = commands[i]
<1>1. n \in Nat
  BY LenProperties
<1>2. \A i \in 1..k : commands[i] \in Shapes
  BY <1>1, ElementOfSeq
<1> QED BY <1>1, <1>2, SubSeqProperties

\* The commands lie one behind the other.
LEMMA EndOfFacts ==
    ASSUME NEW commands \in Seq(Shapes), NEW n, n = Len(commands)
    PROVE  /\ n \in Nat /\ EndOf(commands, 0) = 8 /\ EndOf(commands, n) = 8 + ExtentSum(commands)
           /\ \A k \in 0..n : EndOf(commands, k) \in Nat /\ 8 <= EndOf(commands, k)
                              /\ EndOf(commands, k) <= EndOf(commands, n)
           /\ \A k \in 1..n : /\ commands[k] \in Shapes /\ Extent(commands[k]) \in Nat
                              /\ EndOf(commands, k) = EndOf(commands, k - 1) + Extent(commands[k])
<1>1. n \in Nat
  BY LenProperties
<1>2. EndOf(commands, 0) = 8
  <2>1. 0 \in 0..n
    BY <1>1
  <2>2. ExtentSum(SubSeq(commands, 1, 0)) = 0
    BY <2>1, PrefixFacts, ExtentSumFacts
  <2> QED BY <2>2 DEF EndOf
<1>3. EndOf(commands, n) = 8 + ExtentSum(commands)
  BY SubSeqFull DEF EndOf
<1>4. ASSUME NEW k \in 0..n PROVE EndOf(commands, k) \in Nat /\ 8 <= EndOf(commands, k)
  <2>1. ExtentSum(SubSeq(commands, 1, k)) \in Nat
    BY PrefixFacts, ExtentSumFacts
  <2> QED BY <2>1 DEF EndOf
<1>5. ASSUME NEW k \in 1..n
      PROVE  /\ commands[k] \in Shapes /\ Extent(commands[k]) \in Nat
             /\ EndOf(commands, k) = EndOf(commands, k - 1) + Extent(commands[k])
  <2>1. PICK h \in 0..n : h = k - 1
    BY <1>1
  <2>2. k \in 0..n /\ k = h + 1
    BY <1>1, <2>1
  <2>3. PICK s : s = SubSeq(commands, 1, h)
    OBVIOUS
  <2>4. PICK t : t = SubSeq(commands, 1, k)
    OBVIOUS
  <2>5. s \in Seq(Shapes) /\ Len(s) = h /\ \A i \in 1..h : s[i] = commands[i]
    BY <2>3, PrefixFacts
  <2>6. t \in Seq(Shapes) /\ Len(t) = k /\ \A i \in 1..k : t[i] = commands[i]
    BY <2>2, <2>4, PrefixFacts
  <2>7. Len(t) = Len(s) + 1 /\ \A i \in 1..Len(s) : t[i] = s[i]
    BY <2>2, <2>5, <2>6
  <2>8. ExtentSum(t) = ExtentSum(s) + Extent(t[Len(t)])
    BY <2>5, <2>6, <2>7, ExtentSumOneMore
  <2>9. t[Len(t)] = commands[k]
    BY <2>6
  <2>10. commands[k] \in Shapes
    BY ElementOfSeq
  <2>11. Extent(commands[k]) \in Nat /\ ExtentSum(s) \in Nat
    BY <2>5, <2>10, ExtentFacts, ExtentSumFacts
  <2>12. EndOf(commands, k) = 8 + ExtentSum(t) /\ EndOf(commands, k - 1) = 8 + ExtentSum(s)
    BY <2>1, <2>3, <2>4 DEF EndOf
  <2> QED BY <2>8, <2>9, <2>10, <2>11, <2>12
<1>6. ASSUME NEW i \in 0..n PROVE EndOf(commands, i) <= EndOf(commands, n)
  <2> DEFINE T == {k \in Nat : k < i \/ EndOf(commands, i) <= EndOf(commands, k)}
  <2>0. EndOf(commands, i) \in Nat
    BY <1>4
  <2>1. 0 \in T
    <3>1. 0 < i \/ i = 0
      BY <1>1
    <3>2. i = 0 => EndOf(commands, i) <= EndOf(commands, 0)
      BY <2>0
    <3> QED BY <3>1, <3>2
  <2>2. ASSUME NEW k \in 0..n, k # 0, k - 1 \in T PROVE k \in T
    <3>1. k \in 1..n /\ k \in Nat /\ k - 1 \in 0..n
      BY <2>2
    <3>2. PICK before : before = EndOf(commands, k - 1)
      OBVIOUS
    <3>3. EndOf(commands, k) = before + Extent(commands[k]) /\ Extent(commands[k]) \in Nat /\ before \in Nat
      BY <1>4, <1>5, <3>1, <3>2
    <3>4. CASE EndOf(commands, i) <= before
      <4>1. EndOf(commands, i) <= EndOf(commands, k)
        BY <2>0, <3>3, <3>4
      <4> QED BY <3>1, <4>1
    <3>5. CASE k - 1 < i
      <4>1. k < i \/ k = i
        BY <3>1, <3>5
      <4>2. EndOf(commands, i) <= EndOf(commands, i)
        BY <2>0
      <4> QED BY <3>1, <4>1, <4>2
    <3> QED BY <2>2, <3>2, <3>4, <3>5
  <2>3. n \in T
    <3> HIDE DEF T
    <3>1. \A k \in 0..n : k \in T
      BY <1>1, <2>1, <2>2, CountUp
    <3> QED BY <3>1, <1>1
  <2>4. ~(n < i)
    BY <1>1
  <2> QED BY <2>3, <2>4
<1> QED BY <1>1, <1>2, <1>3, <1>4, <1>5, <1>6

\* The commands that two sequences have in common end where they do in both.
LEMMA SameEnds ==
    ASSUME NEW s \in Seq(Shapes), NEW t \in Seq(Shapes), NEW k \in Nat, k <= Len(s), k <= Len(t),
           \A i \in 1..k : s[i] = t[i]
    PROVE  EndOf(s, k) = EndOf(t, k)
<1>1. k \in 0..Len(s) /\ k \in 0..Len(t)
  BY LenProperties
<1>2. SubSeq(s, 1, k) = SubSeq(t, 1, k)
  <2>1. PICK u : u = SubSeq(s, 1, k)
    OBVIOUS
  <2>2. PICK v : v = SubSeq(t, 1, k)
    OBVIOUS
  <2>3. u \in Seq(Shapes) /\ Len(u) = k /\ \A i \in 1..k : u[i] = s[i]
    BY <1>1, <2>1, PrefixFacts
  <2>4. v \in Seq(Shapes) /\ Len(v) = k /\ \A i \in 1..k : v[i] = t[i]
    BY <1>1, <2>2, PrefixFacts
  <2>5. Len(u) = Len(v) /\ \A i \in 1..Len(u) : u[i] = v[i]
    BY <2>3, <2>4
  <2>6. u = v
    BY <2>3, <2>4, <2>5, SeqEqual
  <2> QED BY <2>1, <2>2, <2>6
<1> QED BY <1>2 DEF EndOf

\* The header of a buffer: what the native world looks for in the first six
\* units.
HasHeader(memory) ==
    /\ memory[1] = MagicLow /\ memory[2] = MagicHigh /\ memory[3] = Version
    /\ memory[4] = 0 /\ memory[5] = 0 /\ memory[6] = 0

\* The commands lie in the memory behind the header.
Holds(memory, commands) ==
    /\ HasHeader(memory)
    /\ \A k \in 1..Len(commands) :
          LET units == EncodeCommand(commands[k]) IN
          \A j \in 1..Extent(commands[k]) : memory[EndOf(commands, k - 1) + j] = units[j]

\* The Java buffer with the commands that were appended to it.
BufferOK(b, commands) ==
    /\ b = [memory |-> b.memory, position |-> b.position, count |-> b.count]
    /\ b.memory \in Seq(Nat) /\ Len(b.memory) \in InitialCapacity..MaxCapacity
    /\ commands \in Seq(JavaCommands) /\ Len(commands) <= MaxCommands
    /\ b.count = Len(commands)
    /\ b.position = EndOf(commands, Len(commands)) /\ b.position <= Len(b.memory)
    /\ Holds(b.memory, commands)

\* What Java and other clients send are commands of the protocol.
LEMMA CommandsFacts ==
    /\ Commands \subseteq Shapes
    /\ \A s : s \in Seq(JavaCommands) => s \in Seq(Shapes) /\ s \in Seq(Commands)
<1>1. ASSUME NEW c \in Commands PROVE c \in Shapes
  <2>1. PICK name : name = c.name
    OBVIOUS
  <2>2. PICK fields : fields = c.fields
    OBVIOUS
  <2>3. /\ c = [name |-> name, fields |-> fields] /\ name \in DOMAIN Layout
        /\ fields \in [DOMAIN Layout[name] -> Nat]
    BY <2>1, <2>2, CommandsAssumption
  <2>4. fields \in UNION {[DOMAIN Layout[x] -> Nat] : x \in DOMAIN Layout}
    BY <2>3
  <2> HIDE DEF Layout
  <2>5. c \in [name : DOMAIN Layout, fields : UNION {[DOMAIN Layout[x] -> Nat] : x \in DOMAIN Layout}]
    BY <2>3, <2>4
  <2> QED BY <2>1, <2>2, <2>3, <2>5 DEF Shapes
<1>2. JavaCommands \subseteq Commands
  BY DEF Commands
<1>3. ASSUME NEW s, s \in Seq(JavaCommands) PROVE s \in Seq(Shapes) /\ s \in Seq(Commands)
  <2>1. s \in Seq(Commands)
    BY <1>2, <1>3, SeqMonotonic
  <2>2. Commands \subseteq Shapes
    BY <1>1
  <2>3. s \in Seq(Shapes)
    BY <2>1, <2>2, SeqMonotonic
  <2> QED BY <2>1, <2>3
<1> QED BY <1>1, <1>3

\* The first units of a memory.
LEMMA FirstUnits ==
    ASSUME NEW memory, NEW p \in Nat, \A i \in 1..p : memory[i] \in Nat
    PROVE  SubSeq(memory, 1, p) \in Seq(Nat) /\ Len(SubSeq(memory, 1, p)) = p
           /\ \A i \in 1..p : SubSeq(memory, 1, p)[i] = memory[i]
BY SubSeqProperties

\* What lies where it lay is still there.
LEMMA HoldsSame ==
    ASSUME NEW commands \in Seq(Shapes), NEW n, n = Len(commands), NEW memory, Holds(memory, commands),
           NEW other, \A i \in 1..EndOf(commands, n) : i \notin {7, 8} => other[i] = memory[i]
    PROVE  Holds(other, commands)
<1>1. /\ EndOf(commands, n) \in Nat /\ 8 <= EndOf(commands, n)
      /\ \A k \in 1..n : /\ EndOf(commands, k - 1) \in Nat /\ 8 <= EndOf(commands, k - 1)
                         /\ EndOf(commands, k) <= EndOf(commands, n)
                         /\ EndOf(commands, k) = EndOf(commands, k - 1) + Extent(commands[k])
                         /\ Extent(commands[k]) \in Nat
  <2>1. n \in Nat
    BY EndOfFacts
  <2>2. n \in 0..n /\ \A k \in 1..n : k \in 0..n /\ k - 1 \in 0..n
    BY <2>1
  <2>3. \A k \in 0..n : EndOf(commands, k) \in Nat /\ 8 <= EndOf(commands, k)
                         /\ EndOf(commands, k) <= EndOf(commands, n)
    BY EndOfFacts
  <2>4. \A k \in 1..n : /\ Extent(commands[k]) \in Nat
                         /\ EndOf(commands, k) = EndOf(commands, k - 1) + Extent(commands[k])
    BY EndOfFacts
  <2> QED BY <2>2, <2>3, <2>4
<1>2. HasHeader(other)
  <2>1. {1, 2, 3, 4, 5, 6} \subseteq 1..EndOf(commands, n)
    BY <1>1
  <2>2. HasHeader(memory)
    BY DEF Holds
  <2> QED BY <2>1, <2>2 DEF HasHeader
<1>3. ASSUME NEW k \in 1..n, NEW j \in 1..Extent(commands[k])
      PROVE  other[EndOf(commands, k - 1) + j] = EncodeCommand(commands[k])[j]
  <2>1. PICK a : a = EndOf(commands, k - 1)
    OBVIOUS
  <2>2. PICK e : e = Extent(commands[k])
    OBVIOUS
  <2>3. a \in Nat /\ 8 <= a /\ e \in Nat /\ a + e <= EndOf(commands, n) /\ j \in 1..e
    BY <1>1, <2>1, <2>2
  <2>4. a + j \in 1..EndOf(commands, n) /\ a + j \notin {7, 8}
    BY <1>1, <2>3
  <2>5. memory[a + j] = EncodeCommand(commands[k])[j]
    BY <2>1 DEF Holds
  <2> QED BY <2>1, <2>4, <2>5
<1> QED BY <1>2, <1>3 DEF Holds

\* What a header is.
LEMMA HeaderFacts ==
    ASSUME NEW count \in Nat
    PROVE  /\ Header(count) \in Seq(Nat) /\ Len(Header(count)) = 8 /\ HasHeader(Header(count))
           /\ Header(count)[7] = count /\ Header(count)[8] = 0
<1>1. PICK h : h = Header(count)
  OBVIOUS
<1>2. PICK low : low = MagicLow
  OBVIOUS
<1>3. PICK high : high = MagicHigh
  OBVIOUS
<1>4. PICK version : version = Version
  OBVIOUS
<1>5. low \in Nat /\ high \in Nat /\ version \in Nat
  BY <1>2, <1>3, <1>4 DEF MagicLow, MagicHigh, Version
<1>6. h = <<low, high, version, 0, 0, 0>> \o <<count, 0>>
  BY <1>1, <1>2, <1>3, <1>4 DEF Header, Number
<1>7. /\ h \in Seq(Nat) /\ Len(h) = 8
      /\ h[1] = low /\ h[2] = high /\ h[3] = version /\ h[4] = 0 /\ h[5] = 0 /\ h[6] = 0
      /\ h[7] = count /\ h[8] = 0
  BY <1>5, <1>6
<1> QED BY <1>1, <1>2, <1>3, <1>4, <1>7 DEF HasHeader

\* A new memory.
LEMMA NewMemoryFacts ==
    ASSUME NEW capacity \in Nat
    PROVE  NewMemory(capacity) \in Seq(Nat) /\ Len(NewMemory(capacity)) = capacity
BY DEF NewMemory

\* No commands.
LEMMA NoCommands ==
    /\ << >> \in Seq(JavaCommands) /\ Len(<< >>) = 0 /\ EndOf(<< >>, 0) = 8
    /\ \A memory : HasHeader(memory) => Holds(memory, << >>)
<1>1. << >> \in Seq(JavaCommands) /\ Len(<< >>) = 0
  BY EmptySeq
<1>2. << >> \in Seq(Shapes)
  BY EmptySeq
<1>3. EndOf(<< >>, 0) = 8
  BY <1>1, <1>2, EndOfFacts
<1>4. ASSUME NEW memory, HasHeader(memory) PROVE Holds(memory, << >>)
  BY <1>1, <1>4 DEF Holds
<1> QED BY <1>1, <1>3, <1>4

\* The buffer Java begins with is empty.
LEMMA InitBufferOK ==
    BufferOK([memory |-> InitializeHeader(NewMemory(InitialCapacity)),
              position |-> HeaderLength, count |-> 0], << >>)
<1>0. /\ InitialCapacity \in Nat /\ MaxCapacity \in Nat /\ MaxCommands \in Nat
      /\ 8 <= InitialCapacity /\ InitialCapacity <= MaxCapacity
  BY CapacityAssumption DEF HeaderLength
<1>1. PICK b : b = [memory |-> InitializeHeader(NewMemory(InitialCapacity)),
                    position |-> HeaderLength, count |-> 0]
  OBVIOUS
<1>2. PICK memory : memory = b.memory
  OBVIOUS
<1>3. memory = Written(NewMemory(InitialCapacity), 0, Header(0))
  BY <1>1, <1>2 DEF InitializeHeader
<1>4. /\ NewMemory(InitialCapacity) \in Seq(Nat) /\ Len(NewMemory(InitialCapacity)) = InitialCapacity
      /\ Header(0) \in Seq(Nat) /\ Len(Header(0)) = 8 /\ HasHeader(Header(0))
  BY <1>0, NewMemoryFacts, HeaderFacts
<1>5. /\ memory \in Seq(Nat) /\ Len(memory) = InitialCapacity
      /\ \A i \in 1..8 : 0 + i <= InitialCapacity => memory[0 + i] = Header(0)[i]
  <2>1. IsWritten(memory, NewMemory(InitialCapacity), InitialCapacity, 0, Header(0), 8)
    BY <1>3, <1>4, WrittenFacts
  <2> QED BY <2>1 DEF IsWritten
<1>6. \A i \in 1..8 : memory[i] = Header(0)[i]
  <2>1. ASSUME NEW i \in 1..8 PROVE memory[i] = Header(0)[i]
    <3>1. 0 + i = i /\ i <= InitialCapacity
      BY <1>0
    <3> QED BY <3>1, <1>5
  <2> QED BY <2>1
<1>7. HasHeader(memory)
  <2>1. {1, 2, 3, 4, 5, 6} \subseteq 1..8
    OBVIOUS
  <2> QED BY <2>1, <1>4, <1>6 DEF HasHeader
<1>8. Holds(memory, << >>)
  BY <1>7, NoCommands
<1>9. b.position = 8 /\ b.count = 0 /\ b = [memory |-> b.memory, position |-> b.position, count |-> b.count]
  BY <1>1 DEF HeaderLength
<1>10. BufferOK(b, << >>)
  BY <1>0, <1>2, <1>5, <1>8, <1>9, NoCommands DEF BufferOK
<1> QED BY <1>1, <1>10

\* The parts of a buffer.
LEMMA BufferParts ==
    ASSUME NEW b, NEW commands, BufferOK(b, commands)
    PROVE  /\ InitialCapacity \in Nat /\ MaxCapacity \in Nat /\ MaxCommands \in Nat
           /\ 8 <= InitialCapacity /\ InitialCapacity <= MaxCapacity
           /\ commands \in Seq(JavaCommands) /\ commands \in Seq(Shapes) /\ commands \in Seq(Commands)
           /\ Len(commands) \in Nat /\ Len(commands) <= MaxCommands /\ b.count = Len(commands)
           /\ b.memory \in Seq(Nat) /\ Len(b.memory) \in Nat
           /\ InitialCapacity <= Len(b.memory) /\ Len(b.memory) <= MaxCapacity
           /\ b.position = EndOf(commands, Len(commands)) /\ b.position \in Nat
           /\ 8 <= b.position /\ b.position <= Len(b.memory)
           /\ Holds(b.memory, commands) /\ HasHeader(b.memory)
           /\ b = [memory |-> b.memory, position |-> b.position, count |-> b.count]
<1>0. /\ InitialCapacity \in Nat /\ MaxCapacity \in Nat /\ MaxCommands \in Nat
      /\ 8 <= InitialCapacity /\ InitialCapacity <= MaxCapacity
  BY CapacityAssumption DEF HeaderLength
<1>1. /\ commands \in Seq(JavaCommands) /\ Len(commands) <= MaxCommands /\ b.count = Len(commands)
      /\ b.memory \in Seq(Nat) /\ Len(b.memory) \in InitialCapacity..MaxCapacity
      /\ b.position = EndOf(commands, Len(commands)) /\ b.position <= Len(b.memory)
      /\ Holds(b.memory, commands) /\ HasHeader(b.memory)
      /\ b = [memory |-> b.memory, position |-> b.position, count |-> b.count]
  BY DEF BufferOK, Holds
<1>2. commands \in Seq(Shapes) /\ commands \in Seq(Commands)
  BY <1>1, CommandsFacts
<1>3. Len(commands) \in Nat /\ Len(b.memory) \in Nat
  BY <1>1, LenProperties
<1>4. b.position \in Nat /\ 8 <= b.position
  <2>1. Len(commands) \in 0..Len(commands)
    BY <1>3
  <2> QED BY <1>1, <1>2, <2>1, EndOfFacts
<1>5. InitialCapacity <= Len(b.memory) /\ Len(b.memory) <= MaxCapacity
  BY <1>0, <1>1
<1> QED BY <1>0, <1>1, <1>2, <1>3, <1>4, <1>5

\* A buffer whose memory is replaced by one that has the same units.
LEMMA BufferSame ==
    ASSUME NEW b, NEW commands, BufferOK(b, commands), NEW memory \in Seq(Nat), NEW c,
           c = [memory |-> memory, position |-> b.position, count |-> b.count],
           Len(memory) \in InitialCapacity..MaxCapacity, b.position <= Len(memory),
           \A i \in 1..b.position : i \notin {7, 8} => memory[i] = b.memory[i]
    PROVE  BufferOK(c, commands)
<1>1. /\ commands \in Seq(JavaCommands) /\ commands \in Seq(Shapes) /\ Len(commands) <= MaxCommands
      /\ b.count = Len(commands) /\ b.position = EndOf(commands, Len(commands))
      /\ Holds(b.memory, commands)
  BY BufferParts
<1>2. Holds(memory, commands)
  <2>1. \A i \in 1..EndOf(commands, Len(commands)) : i \notin {7, 8} => memory[i] = b.memory[i]
    BY <1>1
  <2> QED BY <1>1, <2>1, HoldsSame
<1>3. c.memory = memory /\ c.position = b.position /\ c.count = b.count
      /\ c = [memory |-> c.memory, position |-> c.position, count |-> c.count]
  OBVIOUS
<1> QED BY <1>1, <1>2, <1>3 DEF BufferOK

\* A buffer with enough room has what it had.
LEMMA EnsureCapacityOK ==
    ASSUME NEW b, NEW commands, BufferOK(b, commands), NEW additional \in Nat,
           b.position + additional <= MaxCapacity,
           NEW grown, grown = EnsureCapacity(b, additional)
    PROVE  BufferOK(grown, commands) /\ b.position + additional <= Len(grown.memory)
<1>0. /\ InitialCapacity \in Nat /\ MaxCapacity \in Nat
      /\ 8 <= InitialCapacity /\ InitialCapacity <= MaxCapacity
      /\ b.memory \in Seq(Nat) /\ Len(b.memory) \in Nat
      /\ InitialCapacity <= Len(b.memory) /\ Len(b.memory) <= MaxCapacity
      /\ b.position \in Nat /\ 8 <= b.position /\ b.position <= Len(b.memory)
      /\ b = [memory |-> b.memory, position |-> b.position, count |-> b.count]
  BY BufferParts
<1>1. CASE b.position + additional <= Len(b.memory)
  BY <1>1 DEF EnsureCapacity
<1>2. CASE ~(b.position + additional <= Len(b.memory))
  <2>1. PICK required : required = b.position + additional
    OBVIOUS
  <2>2. PICK size : size = Len(b.memory)
    OBVIOUS
  <2>3. required \in 1..MaxCapacity /\ size \in 1..MaxCapacity /\ size < required
    BY <1>0, <1>2, <2>1, <2>2
  <2>4. PICK capacity : capacity = Grown(size, required)
    OBVIOUS
  <2>5. capacity \in 1..MaxCapacity /\ required <= capacity
    BY <2>3, <2>4, GrownFacts
  <2>6. capacity \in Nat /\ capacity \in InitialCapacity..MaxCapacity /\ b.position <= capacity
    BY <1>0, <2>1, <2>2, <2>3, <2>5
  <2>7. PICK copied : copied = SubSeq(b.memory, 1, b.position)
    OBVIOUS
  <2>8. copied \in Seq(Nat) /\ Len(copied) = b.position /\ \A i \in 1..b.position : copied[i] = b.memory[i]
    <3>1. \A i \in 1..b.position : b.memory[i] \in Nat
      <4>1. \A i \in 1..b.position : i \in 1..Len(b.memory)
        BY <1>0
      <4> QED BY <4>1, <1>0, ElementOfSeq
    <3>2. PICK p \in Nat : p = b.position
      BY <1>0
    <3>3. PICK old : old = b.memory
      OBVIOUS
    <3>4. SubSeq(old, 1, p) \in Seq(Nat) /\ Len(SubSeq(old, 1, p)) = p
          /\ \A i \in 1..p : SubSeq(old, 1, p)[i] = old[i]
      BY <3>1, <3>2, <3>3, FirstUnits
    <3> QED BY <2>7, <3>2, <3>3, <3>4
  <2>9. PICK memory : memory = Written(NewMemory(capacity), 0, copied)
    OBVIOUS
  <2>10. /\ memory \in Seq(Nat) /\ Len(memory) = capacity
         /\ \A i \in 1..b.position : 0 + i <= capacity => memory[0 + i] = copied[i]
    <3>1. NewMemory(capacity) \in Seq(Nat) /\ Len(NewMemory(capacity)) = capacity
      BY <2>6, NewMemoryFacts
    <3>2. IsWritten(memory, NewMemory(capacity), capacity, 0, copied, b.position)
      BY <3>1, <2>8, <2>9, WrittenFacts
    <3> QED BY <3>2 DEF IsWritten
  <2>11. \A i \in 1..b.position : memory[i] = b.memory[i]
    <3>1. ASSUME NEW i \in 1..b.position PROVE memory[i] = b.memory[i]
      <4>1. 0 + i = i /\ i <= capacity
        BY <1>0, <2>6
      <4> QED BY <4>1, <2>8, <2>10
    <3> QED BY <3>1
  <2>12. grown = ReplaceBacking(b, capacity)
    BY <1>2, <2>1, <2>2, <2>4 DEF EnsureCapacity
  <2>13. grown = [memory |-> memory, position |-> b.position, count |-> b.count]
    <3>1. grown = [b EXCEPT !.memory = memory]
      BY <2>7, <2>9, <2>12 DEF ReplaceBacking
    <3> QED BY <1>0, <3>1
  <2>14. BufferOK(grown, commands)
    BY <2>6, <2>10, <2>11, <2>13, BufferSame
  <2> QED BY <2>1, <2>5, <2>10, <2>13, <2>14
<1> QED BY <1>1, <1>2

\* Clearing a buffer leaves nothing in it.
LEMMA ClearOK ==
    ASSUME NEW b, NEW commands, BufferOK(b, commands)
    PROVE  BufferOK(Clear(b), << >>)
<1>0. /\ InitialCapacity \in Nat /\ MaxCapacity \in Nat /\ MaxCommands \in Nat
      /\ b.memory \in Seq(Nat) /\ Len(b.memory) \in Nat
      /\ InitialCapacity <= Len(b.memory) /\ Len(b.memory) <= MaxCapacity
      /\ b.position \in Nat /\ 8 <= b.position /\ b.position <= Len(b.memory)
      /\ b = [memory |-> b.memory, position |-> b.position, count |-> b.count]
      /\ HasHeader(b.memory)
  BY BufferParts
<1>1. PICK memory : memory = b.memory
  OBVIOUS
<1>2. PICK c : c = Clear(b)
  OBVIOUS
<1>3. c = [memory |-> memory, position |-> 8, count |-> 0]
  BY <1>0, <1>1, <1>2 DEF Clear, HeaderLength
<1>4. Holds(memory, << >>)
  BY <1>0, <1>1, NoCommands
<1>5. memory \in Seq(Nat) /\ Len(memory) \in InitialCapacity..MaxCapacity /\ 8 <= Len(memory)
  BY <1>0, <1>1
<1>6. c.memory = memory /\ c.position = 8 /\ c.count = 0
      /\ c = [memory |-> c.memory, position |-> c.position, count |-> c.count]
  BY <1>3
<1>7. BufferOK(c, << >>)
  BY <1>0, <1>4, <1>5, <1>6, NoCommands DEF BufferOK
<1> QED BY <1>2, <1>7

\* A command that is appended lies behind the others.
LEMMA AppendOK ==
    ASSUME NEW b, NEW commands, BufferOK(b, commands), NEW command \in JavaCommands,
           Len(commands) < MaxCommands, NEW units, units = EncodeCommand(command),
           b.position + Len(units) <= MaxCapacity,
           NEW grown, grown = EnsureCapacity(b, Len(units)), NEW c,
           c = [grown EXCEPT !.memory = Written(@, b.position, units),
                             !.position = @ + Len(units), !.count = @ + 1]
    PROVE  BufferOK(c, Append(commands, command)) /\ c.position = b.position + Len(units)
<1>1. PICK e : e = Len(units)
  OBVIOUS
<1>2. command \in Shapes /\ e = Extent(command) /\ e \in Nat /\ units \in Seq(Nat)
  <2>1. command \in Shapes
    BY CommandsFacts DEF Commands
  <2>2. IsEncoded(command, units)
    BY <2>1, EncodeFacts
  <2> QED BY <1>1, <2>1, <2>2, ExtentFacts DEF IsEncoded
<1>3. BufferOK(grown, commands) /\ b.position + e <= Len(grown.memory)
  BY <1>1, <1>2, EnsureCapacityOK
<1>4. PICK n : n = Len(commands)
  OBVIOUS
<1>5. PICK p : p = b.position
  OBVIOUS
<1>6. PICK old : old = grown.memory
  OBVIOUS
<1>7. PICK size : size = Len(old)
  OBVIOUS
<1>8. /\ commands \in Seq(JavaCommands) /\ commands \in Seq(Shapes) /\ n \in Nat
      /\ p = EndOf(commands, n) /\ p \in Nat /\ 8 <= p /\ MaxCommands \in Nat
  BY <1>4, <1>5, BufferParts
<1>9. /\ old \in Seq(Nat) /\ size \in Nat /\ size \in InitialCapacity..MaxCapacity /\ p + e <= size
      /\ grown.position = p /\ grown.count = n /\ Holds(old, commands)
      /\ grown = [memory |-> old, position |-> p, count |-> n]
  <2>1. /\ InitialCapacity \in Nat /\ MaxCapacity \in Nat
        /\ old \in Seq(Nat) /\ size \in Nat /\ InitialCapacity <= size /\ size <= MaxCapacity
        /\ grown.position = EndOf(commands, n) /\ grown.count = n /\ Holds(old, commands)
        /\ grown = [memory |-> old, position |-> grown.position, count |-> grown.count]
    BY <1>3, <1>4, <1>6, <1>7, BufferParts
  <2>2. size \in InitialCapacity..MaxCapacity
    BY <2>1
  <2> QED BY <2>1, <2>2, <1>3, <1>5, <1>6, <1>7, <1>8
<1>10. PICK w : w = Written(old, p, units)
  OBVIOUS
<1>11. /\ w \in Seq(Nat) /\ Len(w) = size
       /\ \A i \in 1..size : i <= p \/ p + e < i => w[i] = old[i]
       /\ \A i \in 1..e : p + i <= size => w[p + i] = units[i]
  <2>1. IsWritten(w, old, size, p, units, e)
    BY <1>1, <1>2, <1>7, <1>8, <1>9, <1>10, WrittenFacts
  <2> QED BY <2>1 DEF IsWritten
<1>12. c = [memory |-> w, position |-> p + e, count |-> n + 1]
  <2>1. c = [grown EXCEPT !.memory = w, !.position = p + e, !.count = n + 1]
    BY <1>1, <1>5, <1>6, <1>9, <1>10
  <2> QED BY <2>1, <1>9
<1>13. PICK t : t = Append(commands, command)
  OBVIOUS
<1>14. PICK m : m = n + 1
  OBVIOUS
<1>15. /\ t \in Seq(JavaCommands) /\ Len(t) = m /\ t[m] = command
       /\ \A i \in 1..n : t[i] = commands[i]
  BY <1>4, <1>8, <1>13, <1>14, AppendProperties
<1>16. t \in Seq(Shapes) /\ m \in Nat
  BY <1>8, <1>14, <1>15, CommandsFacts
<1>17. ASSUME NEW k \in 0..n PROVE EndOf(t, k) = EndOf(commands, k)
  <2>1. k \in Nat /\ k <= Len(commands) /\ k <= Len(t) /\ \A i \in 1..k : commands[i] = t[i]
    BY <1>4, <1>8, <1>14, <1>15
  <2> QED BY <1>8, <1>16, <2>1, SameEnds
<1>18. EndOf(t, n) = p /\ EndOf(t, m) = p + e
  <2>1. n \in 0..n /\ m \in 1..m /\ m - 1 = n
    BY <1>8, <1>14
  <2>2. EndOf(t, n) = p
    BY <2>1, <1>8, <1>17
  <2>3. \A k \in 1..m : EndOf(t, k) = EndOf(t, k - 1) + Extent(t[k])
    BY <1>15, <1>16, EndOfFacts
  <2>4. EndOf(t, m) = EndOf(t, m - 1) + Extent(t[m])
    BY <2>1, <2>3
  <2> QED BY <2>1, <2>2, <2>4, <1>2, <1>15
<1>19. Holds(w, commands)
  <2>1. \A i \in 1..p : w[i] = old[i]
    <3>1. ASSUME NEW i \in 1..p PROVE w[i] = old[i]
      <4>1. i \in 1..size /\ i <= p
        BY <1>2, <1>8, <1>9
      <4> QED BY <4>1, <1>11
    <3> QED BY <3>1
  <2>2. \A i \in 1..EndOf(commands, n) : i \notin {7, 8} => w[i] = old[i]
    BY <2>1, <1>8
  <2> QED BY <2>2, <1>4, <1>8, <1>9, HoldsSame
<1>20. Holds(w, t)
  <2>1. HasHeader(w)
    BY <1>19 DEF Holds
  <2>2. ASSUME NEW k \in 1..m, NEW j \in 1..Extent(t[k])
        PROVE  w[EndOf(t, k - 1) + j] = EncodeCommand(t[k])[j]
    <3>1. CASE k = m
      <4>1. k - 1 = n /\ t[k] = command /\ j \in 1..e
        BY <3>1, <1>2, <1>8, <1>14, <1>15
      <4>2. EndOf(t, k - 1) = p
        BY <4>1, <1>18
      <4>3. p + j <= size
        BY <4>1, <1>2, <1>8, <1>9
      <4> QED BY <4>1, <4>2, <4>3, <1>11
    <3>2. CASE k # m
      <4>1. k \in 1..n /\ k - 1 \in 0..n
        BY <3>2, <1>8, <1>14
      <4>2. EndOf(t, k - 1) = EndOf(commands, k - 1) /\ t[k] = commands[k]
        BY <4>1, <1>15, <1>17
      <4>3. w[EndOf(commands, k - 1) + j] = EncodeCommand(commands[k])[j]
        <5>1. j \in 1..Extent(commands[k])
          BY <4>2
        <5> QED BY <4>1, <5>1, <1>4, <1>19 DEF Holds
      <4> QED BY <4>2, <4>3
    <3> QED BY <3>1, <3>2
  <2> QED BY <2>1, <2>2, <1>15 DEF Holds
<1>21. c.memory = w /\ c.position = p + e /\ c.count = m
       /\ c = [memory |-> c.memory, position |-> c.position, count |-> c.count]
  <2>1. PICK q : q = p + e
    OBVIOUS
  <2>2. PICK d : d = [memory |-> w, position |-> q, count |-> m]
    OBVIOUS
  <2>3. c = d
    BY <1>12, <1>14, <2>1, <2>2, Zenon
  <2>4. d.memory = w /\ d.position = q /\ d.count = m
        /\ d = [memory |-> d.memory, position |-> d.position, count |-> d.count]
    BY <2>2
  <2> QED BY <2>1, <2>3, <2>4, Zenon
<1>22. m <= MaxCommands
  BY <1>4, <1>8, <1>14
<1>23. BufferOK(c, t)
  BY <1>9, <1>11, <1>15, <1>18, <1>20, <1>21, <1>22 DEF BufferOK
<1> QED BY <1>1, <1>5, <1>13, <1>21, <1>23

\* A unit of the first p is one of all.
LEMMA InFirst ==
    ASSUME NEW p \in Nat, NEW size \in Nat, p <= size, NEW i \in 1..p PROVE i \in 1..size
OBVIOUS

\* A unit that is not of the count is before it or behind it.
LEMMA OutsideCount ==
    ASSUME NEW p \in Nat, NEW i \in 1..p, i \notin {7, 8} PROVE i <= 6 \/ 6 + 2 < i
OBVIOUS

\* The buffer tells how many commands are in it.
HasCount(b, commands) ==
    /\ BufferOK(b, commands)
    /\ b.memory[7] = Len(commands) /\ b.memory[8] = 0

\* The count is written into the header before the native world reads it.
LEMMA CountWritten ==
    ASSUME NEW b, NEW commands, BufferOK(b, commands), NEW c,
           c = [b EXCEPT !.memory = Written(@, CountAt - 1, Number(b.count))]
    PROVE  HasCount(c, commands)
<1>0. /\ InitialCapacity \in Nat /\ MaxCapacity \in Nat
      /\ 8 <= InitialCapacity /\ InitialCapacity <= MaxCapacity
      /\ b.memory \in Seq(Nat) /\ Len(b.memory) \in Nat
      /\ InitialCapacity <= Len(b.memory) /\ Len(b.memory) <= MaxCapacity
      /\ b.position \in Nat /\ 8 <= b.position /\ b.position <= Len(b.memory)
      /\ b.count = Len(commands) /\ Len(commands) \in Nat
      /\ b = [memory |-> b.memory, position |-> b.position, count |-> b.count]
  BY BufferParts
<1>1. PICK size : size = Len(b.memory)
  OBVIOUS
<1>2. PICK n \in Nat : n = Len(commands)
  BY <1>0
<1>3. PICK units : units = <<n, 0>>
  OBVIOUS
<1>4. units \in Seq(Nat) /\ Len(units) = 2 /\ units[1] = n /\ units[2] = 0
  BY <1>3
<1>5. PICK w : w = Written(b.memory, 6, units)
  OBVIOUS
<1>6. /\ w \in Seq(Nat) /\ Len(w) = size /\ size \in Nat
      /\ \A i \in 1..size : i <= 6 \/ 6 + 2 < i => w[i] = b.memory[i]
      /\ \A i \in 1..2 : 6 + i <= size => w[6 + i] = units[i]
  <2>1. IsWritten(w, b.memory, size, 6, units, 2)
    BY <1>0, <1>1, <1>4, <1>5, WrittenFacts
  <2> QED BY <2>1 DEF IsWritten
<1>7. c = [memory |-> w, position |-> b.position, count |-> b.count]
  <2>1. CountAt - 1 = 6 /\ Number(b.count) = units
    BY <1>0, <1>2, <1>3 DEF CountAt, Number
  <2>2. c = [b EXCEPT !.memory = w]
    BY <2>1, <1>5
  <2> QED BY <2>2, <1>0
<1>8. Len(w) \in InitialCapacity..MaxCapacity /\ b.position <= Len(w)
  BY <1>0, <1>1, <1>6
<1>9. \A i \in 1..b.position : i \notin {7, 8} => w[i] = b.memory[i]
  <2>1. ASSUME NEW i \in 1..b.position, i \notin {7, 8} PROVE w[i] = b.memory[i]
    <3>1. PICK p : p = b.position
      OBVIOUS
    <3>2. p \in Nat /\ p <= size /\ i \in 1..p /\ size \in Nat
      BY <1>0, <1>1, <3>1
    <3>3. i \in 1..size
      BY <3>2, Zenon, InFirst
    <3>4. i <= 6 \/ 6 + 2 < i
      BY <3>2, <2>1, OutsideCount
    <3> QED BY <3>3, <3>4, <1>6
  <2> QED BY <2>1
<1>10. BufferOK(c, commands)
  BY <1>6, <1>7, <1>8, <1>9, BufferSame
<1>11. w[7] = n /\ w[8] = 0
  <2>1. 1 \in 1..2 /\ 2 \in 1..2 /\ 6 + 1 <= size /\ 6 + 2 <= size /\ 6 + 1 = 7 /\ 6 + 2 = 8
    BY <1>0, <1>1
  <2> QED BY <2>1, <1>4, <1>6
<1> QED BY <1>2, <1>7, <1>10, <1>11 DEF HasCount

-----------------------------------------------------------------------------
(* The invariant.                                                          *)

\* A call has these fields.
CallShape(c) ==
    c = [phase |-> c.phase, input |-> c.input, at |-> c.at, count |-> c.count,
         executed |-> c.executed, code |-> c.code, index |-> c.index, offset |-> c.offset]

\* What a call is, whoever makes it: while it reads commands it is where the
\* commands end that it executed.
CallOK(c) ==
    /\ CallShape(c)
    /\ c.phase \in {"idle", "header", "commands", "returned"}
    /\ c.input \in Seq(Nat) /\ c.at \in Nat /\ c.at <= Len(c.input)
    /\ c.executed \in Seq(Shapes)
    /\ c.code \in Codes /\ c.index \in Nat \cup {NoIndex} /\ c.offset \in Nat \cup {NoIndex}
    /\ c.phase # "returned" => c.code = "Success"
    /\ c.phase = "idle" => c = Idle
    /\ c.phase = "header" => c.at = 0 /\ c.executed = << >>
    /\ c.phase = "commands" => c.at = 8 + ExtentSum(c.executed)

\* An error is where it is said to be.
LocatedOK(c) ==
    c.phase = "returned" /\ c.code \notin {"Success", "InternalPanic"} =>
        IF c.index = NoIndex
        THEN c.executed = << >> /\ c.offset < 8
        ELSE /\ c.index = Len(c.executed)
             /\ c.offset \in 8 + ExtentSum(c.executed)..Len(c.input)
             /\ c.code \in {"Rejected", "UnknownCommand", "InvalidCommandLength", "TrailingBytes"}
                    => c.offset = 8 + ExtentSum(c.executed)

\* A call of Java reads what is in the buffer, and has executed the first of
\* the commands.
ReadsBuffer(c, b, commands) ==
    /\ c.input = SubSeq(b.memory, 1, b.position)
    /\ b.memory[7] = Len(commands) /\ b.memory[8] = 0
JavaOK(c, b, commands) ==
    /\ c.phase # "idle" => ReadsBuffer(c, b, commands)
    /\ Len(c.executed) <= Len(commands) /\ \A i \in 1..Len(c.executed) : c.executed[i] = commands[i]
    /\ c.phase = "commands" => c.count = Len(commands)
    /\ c.code \in {"Success", "Rejected", "InternalPanic"}
    /\ c.phase = "returned" /\ c.code = "Success" => Len(c.executed) = Len(commands)

\* The wires and devices of a network.
NetworkOK(n) ==
    /\ n.wires \subseteq Wires /\ DOMAIN n.devices \subseteq Devices
    /\ n = [wires |-> n.wires, connections |-> n.connections,
            devices |-> n.devices, attached |-> n.attached]

IInv ==
    /\ caller \in {"java", "other"}
    /\ BufferOK(buffer, appended)
    /\ NetworkOK(network)
    /\ CallOK(call)
    /\ LocatedOK(call)
    /\ caller = "java" => JavaOK(call, buffer, appended)

-----------------------------------------------------------------------------
(* The network.                                                            *)

\* A network made of a part of the wires and devices.
LEMMA MakeNetwork ==
    ASSUME NEW w, w \subseteq Wires, NEW c, NEW d, DOMAIN d \subseteq Devices, NEW a, NEW n,
           n = [wires |-> w, connections |-> c, devices |-> d, attached |-> a]
    PROVE  NetworkOK(n)
BY DEF NetworkOK

\* No command brings a wire or a device into the network that is not one.
LEMMA AfterOK ==
    ASSUME NetworkOK(network), NEW command, command.name \in DOMAIN Layout, Accepts(command)
    PROVE  NetworkOK(After(command))
<1>1. PICK n : n = network
  OBVIOUS
<1>2. PICK f : f = command.fields
  OBVIOUS
<1>3. /\ n.wires \subseteq Wires /\ DOMAIN n.devices \subseteq Devices
      /\ n = [wires |-> n.wires, connections |-> n.connections,
              devices |-> n.devices, attached |-> n.attached]
  BY <1>1 DEF NetworkOK
<1>4. command.name \in {"AddWire", "RemoveWire", "ConnectWires", "DisconnectWires", "AddDevice",
                        "RemoveDevice", "AttachTerminal", "DetachTerminal", "SetDeviceParameter"}
  BY DEF Layout
<1>5. CASE command.name = "AddWire"
  <2>1. After(command) = AfterAddWire(n, f[1]) /\ f[1] \in Wires
    BY <1>1, <1>2, <1>5 DEF After, Accepts
  <2>2. AfterAddWire(n, f[1]) = [wires |-> n.wires \cup {f[1]}, connections |-> n.connections,
                                 devices |-> n.devices, attached |-> n.attached]
    <3>1. AfterAddWire(n, f[1]) = [n EXCEPT !.wires = n.wires \cup {f[1]}]
      BY Zenon DEF AfterAddWire
    <3> QED BY <1>3, <3>1
  <2>3. n.wires \cup {f[1]} \subseteq Wires
    BY <1>3, <2>1
  <2> QED BY <1>3, <2>1, <2>2, <2>3, MakeNetwork
<1>6. CASE command.name = "RemoveWire"
  <2>1. After(command) = AfterRemoveWire(n, f[1])
    BY <1>1, <1>2, <1>6 DEF After
  <2>2. PICK c : c = {k \in n.connections : f[1] \notin k}
    OBVIOUS
  <2>3. PICK a : a = Restrict(n.attached, DOMAIN n.attached \ TerminalsOn(n, {f[1]}))
    OBVIOUS
  <2>4. AfterRemoveWire(n, f[1]) = [wires |-> n.wires \ {f[1]}, connections |-> c,
                                    devices |-> n.devices, attached |-> a]
    <3>1. AfterRemoveWire(n, f[1]) = [n EXCEPT !.wires = n.wires \ {f[1]}, !.connections = c,
                                               !.attached = a]
      BY <2>2, <2>3, Zenon DEF AfterRemoveWire
    <3> QED BY <1>3, <3>1
  <2>5. n.wires \ {f[1]} \subseteq Wires
    BY <1>3
  <2> QED BY <1>3, <2>1, <2>4, <2>5, MakeNetwork
<1>7. CASE command.name = "ConnectWires"
  <2>1. After(command) = AfterConnectWires(n, f[1], f[2])
    BY <1>1, <1>2, <1>7 DEF After
  <2>2. \E c : AfterConnectWires(n, f[1], f[2]) = [wires |-> n.wires, connections |-> c,
                                                   devices |-> n.devices, attached |-> n.attached]
    BY <1>3 DEF AfterConnectWires
  <2> QED BY <1>3, <2>1, <2>2, MakeNetwork
<1>8. CASE command.name = "DisconnectWires"
  <2>1. After(command) = AfterDisconnectWires(n, f[1], f[2])
    BY <1>1, <1>2, <1>8 DEF After
  <2>2. PICK c : c = n.connections \ {{f[1], f[2]}}
    OBVIOUS
  <2>3. AfterDisconnectWires(n, f[1], f[2]) = [wires |-> n.wires, connections |-> c,
                                               devices |-> n.devices, attached |-> n.attached]
    <3>1. AfterDisconnectWires(n, f[1], f[2]) = [n EXCEPT !.connections = c]
      BY <2>2, Zenon DEF AfterDisconnectWires
    <3> QED BY <1>3, <3>1
  <2> QED BY <1>3, <2>1, <2>3, MakeNetwork
<1>9. CASE command.name = "AddDevice"
  <2>1. After(command) = AfterAddDevice(n, f[1], DefinitionOf[f[2]]) /\ f[1] \in Devices
    BY <1>1, <1>2, <1>9 DEF After, Accepts
  <2>2. PICK d : d = [e \in DOMAIN n.devices \cup {f[1]} |->
                        IF e = f[1] THEN DefinitionOf[f[2]] ELSE n.devices[e]]
    OBVIOUS
  <2>3. AfterAddDevice(n, f[1], DefinitionOf[f[2]]) = [wires |-> n.wires, connections |-> n.connections,
                                                       devices |-> d, attached |-> n.attached]
    BY <1>3, <2>2 DEF AfterAddDevice
  <2>4. DOMAIN d \subseteq Devices
    BY <1>3, <2>1, <2>2
  <2> QED BY <1>3, <2>1, <2>3, <2>4, MakeNetwork
<1>10. CASE command.name = "RemoveDevice"
  <2>1. After(command) = AfterRemoveDevice(n, f[1])
    BY <1>1, <1>2, <1>10 DEF After
  <2>2. PICK d : d = Restrict(n.devices, DOMAIN n.devices \ {f[1]})
    OBVIOUS
  <2>3. PICK a : a = Restrict(n.attached, {terminal \in DOMAIN n.attached : terminal[1] # f[1]})
    OBVIOUS
  <2>4. AfterRemoveDevice(n, f[1]) = [wires |-> n.wires, connections |-> n.connections,
                                      devices |-> d, attached |-> a]
    <3>1. AfterRemoveDevice(n, f[1]) = [n EXCEPT !.devices = d, !.attached = a]
      BY <2>2, <2>3, Zenon DEF AfterRemoveDevice
    <3> QED BY <1>3, <3>1
  <2>5. DOMAIN d \subseteq Devices
    BY <1>3, <2>2 DEF Restrict
  <2> QED BY <1>3, <2>1, <2>4, <2>5, MakeNetwork
<1>11. CASE command.name = "AttachTerminal"
  <2>1. After(command) = AfterAttachTerminal(n, f[1], Terminal(command))
    BY <1>1, <1>2, <1>11 DEF After
  <2>2. PICK x : x = Terminal(command)
    OBVIOUS
  <2>3. PICK a : a = [other \in DOMAIN n.attached \cup {x} |->
                        IF other = x THEN f[1] ELSE n.attached[other]]
    OBVIOUS
  <2>4. AfterAttachTerminal(n, f[1], x) = [wires |-> n.wires, connections |-> n.connections,
                                           devices |-> n.devices, attached |-> a]
    BY <1>3, <2>3 DEF AfterAttachTerminal
  <2> QED BY <1>3, <2>1, <2>2, <2>4, MakeNetwork
<1>12. CASE command.name = "DetachTerminal"
  <2>1. After(command) = AfterDetachTerminal(n, Terminal(command))
    BY <1>1, <1>2, <1>12 DEF After
  <2>2. PICK x : x = Terminal(command)
    OBVIOUS
  <2>3. PICK a : a = Restrict(n.attached, DOMAIN n.attached \ {x})
    OBVIOUS
  <2>4. AfterDetachTerminal(n, x) = [wires |-> n.wires, connections |-> n.connections,
                                     devices |-> n.devices, attached |-> a]
    BY <1>3, <2>3 DEF AfterDetachTerminal
  <2> QED BY <1>3, <2>1, <2>2, <2>4, MakeNetwork
<1>13. CASE command.name = "SetDeviceParameter"
  <2>1. After(command) = n
    BY <1>1, <1>2, <1>13 DEF After
  <2> QED BY <1>1, <2>1
<1> QED BY <1>4, <1>5, <1>6, <1>7, <1>8, <1>9, <1>10, <1>11, <1>12, <1>13

-----------------------------------------------------------------------------
(* Reading.                                                                *)

\* A name and its fields make a command.
LEMMA ShapeMade ==
    ASSUME NEW name \in DOMAIN Layout, NEW f \in [DOMAIN Layout[name] -> Nat],
           NEW c, c = [name |-> name, fields |-> f]
    PROVE  c \in Shapes /\ c.name = name /\ c.fields = f
<1>1. PICK F : F = UNION {[DOMAIN Layout[x] -> Nat] : x \in DOMAIN Layout}
  OBVIOUS
<1>2. f \in F
  BY <1>1
<1>3. PICK R : R = [name : DOMAIN Layout, fields : F]
  OBVIOUS
<1>4. c \in R /\ c.name = name /\ c.fields = f
  BY <1>2, <1>3
<1>5. Shapes = {x \in R : x.fields \in [DOMAIN Layout[x.name] -> Nat]}
  BY <1>1, <1>3, Zenon DEF Shapes
<1> QED BY <1>4, <1>5

\* What is read is a number.
LEMMA ReadFacts ==
    ASSUME NEW input \in Seq(Nat), NEW size, size = Len(input), NEW at \in Nat
    PROVE  /\ at + 2 <= size => ReadNumber(input, at) \in Nat
           /\ at + 4 <= size => ReadDouble(input, at) \in Nat
<1>1. size \in Nat /\ \A i \in 1..size : input[i] \in Nat
  BY LenProperties, ElementOfSeq
<1>2. ASSUME at + 2 <= size PROVE ReadNumber(input, at) \in Nat
  <2>1. at + 1 \in 1..size /\ at + 2 \in 1..size
    BY <1>1, <1>2
  <2>2. PICK a \in Nat : a = input[at + 1]
    BY <1>1, <2>1
  <2>3. MaxCapacity \in Nat
    BY CapacityAssumption
  <2>4. MaxCapacity + a \in Nat
    BY <2>3
  <2> QED BY <2>2, <2>4 DEF ReadNumber
<1>3. ASSUME at + 4 <= size PROVE ReadDouble(input, at) \in Nat
  <2>1. at + 4 \in 1..size
    BY <1>1, <1>3
  <2> QED BY <1>1, <2>1 DEF ReadDouble
<1> QED BY <1>2, <1>3

\* A field of a payload lies in it.
LEMMA FieldWithin ==
    ASSUME NEW at \in Nat, NEW p \in Nat, NEW s \in Nat, NEW length \in Nat, NEW size \in Nat,
           p + s <= length, at + length <= size
    PROVE  at + p \in Nat /\ at + p + s <= size
OBVIOUS

\* A command is read from a payload that is there.
LEMMA DecodeOK ==
    ASSUME NEW name \in DOMAIN Layout, NEW at \in Nat, call.input \in Seq(Nat),
           at + PayloadLength(name) <= Len(call.input)
    PROVE  /\ Decode(name, at) \in Shapes /\ Decode(name, at).name = name
           /\ \A i \in DOMAIN Layout[name] :
                 Decode(name, at).fields[i]
                    = IF Layout[name][i] = "double" THEN ReadDouble(call.input, at + FieldAt(name, i))
                      ELSE ReadNumber(call.input, at + FieldAt(name, i))
<1>1. PICK size : size = Len(call.input)
  OBVIOUS
<1>2. PICK length \in Nat : length = PayloadLength(name)
  BY ExtentFacts
<1>3. size \in Nat /\ at + length <= size
  BY <1>1, <1>2, LenProperties
<1>4. PICK n : n = Len(Layout[name])
  OBVIOUS
<1>5. DOMAIN Layout[name] = 1..n
  BY <1>4, LayoutFacts
<1>6. \A i \in 1..n : FieldAt(name, i) \in Nat /\ FieldAt(name, i) + Size(Layout[name][i]) <= length
  BY <1>2, <1>4, FieldAtFacts
<1>7. PICK f : f = [i \in 1..n |->
        IF Layout[name][i] = "double" THEN ReadDouble(call.input, at + FieldAt(name, i))
        ELSE ReadNumber(call.input, at + FieldAt(name, i))]
  OBVIOUS
<1>8. ASSUME NEW i \in 1..n PROVE f[i] \in Nat
  <2>1. PICK p \in Nat : p = FieldAt(name, i)
    BY <1>6
  <2>2. PICK s \in Nat : s = Size(Layout[name][i])
    BY DEF Size
  <2>3. p + s <= length
    BY <1>6, <2>1, <2>2
  <2>4. at + p \in Nat /\ at + p + s <= size
    BY <1>3, <2>3, FieldWithin
  <2>5. CASE Layout[name][i] = "double"
    <3>1. s = 4 /\ f[i] = ReadDouble(call.input, at + p)
      BY <1>7, <2>1, <2>2, <2>5 DEF Size
    <3>2. ReadDouble(call.input, at + p) \in Nat
      BY <3>1, <2>4, <1>1, ReadFacts
    <3> QED BY <3>1, <3>2
  <2>6. CASE Layout[name][i] # "double"
    <3>1. s = 2 /\ f[i] = ReadNumber(call.input, at + p)
      BY <1>7, <2>1, <2>2, <2>6 DEF Size
    <3>2. ReadNumber(call.input, at + p) \in Nat
      BY <3>1, <2>4, <1>1, ReadFacts
    <3> QED BY <3>1, <3>2
  <2> QED BY <2>5, <2>6
<1>9. f \in [DOMAIN Layout[name] -> Nat]
  BY <1>5, <1>7, <1>8
<1>10. PICK c : c = [name |-> name, fields |-> f]
  OBVIOUS
<1>11. Decode(name, at) = c
  BY <1>5, <1>7, <1>10, Zenon DEF Decode
<1>12. c \in Shapes /\ c.name = name /\ c.fields = f
  BY <1>9, <1>10, ShapeMade
<1> QED BY <1>5, <1>7, <1>11, <1>12
\* What Java gives the native world is what it appended.
LEMMA JavaInput ==
    ASSUME NEW b, NEW commands, BufferOK(b, commands), ReadsBuffer(call, b, commands)
    PROVE  /\ Len(call.input) = b.position
           /\ \A i \in 1..b.position : call.input[i] = b.memory[i]
<1>0. /\ b.memory \in Seq(Nat) /\ Len(b.memory) \in Nat
      /\ b.position \in Nat /\ b.position <= Len(b.memory)
  BY BufferParts
<1>1. \A i \in 1..b.position : b.memory[i] \in Nat
  <2>1. \A i \in 1..b.position : i \in 1..Len(b.memory)
    BY <1>0
  <2> QED BY <2>1, <1>0, ElementOfSeq
<1>2. PICK p \in Nat : p = b.position
  BY <1>0
<1>3. PICK memory : memory = b.memory
  OBVIOUS
<1>4. Len(SubSeq(memory, 1, p)) = p /\ \A i \in 1..p : SubSeq(memory, 1, p)[i] = memory[i]
  BY <1>1, <1>2, <1>3, FirstUnits
<1>5. call.input = SubSeq(memory, 1, p)
  BY <1>2, <1>3 DEF ReadsBuffer
<1> QED BY <1>2, <1>3, <1>4, <1>5

\* The units that begin at a place lie in the input.
IsAt(units, start, length, input) ==
    /\ start \in Nat /\ start + length <= Len(input)
    /\ \A j \in 1..length : input[start + j] = units[j]

\* A native world that executed the first of the commands is where the next
\* one lies.
LEMMA NextCommand ==
    ASSUME NEW b, NEW commands, BufferOK(b, commands), CallOK(call), JavaOK(call, b, commands),
           call.phase = "commands", NEW k, k = Len(call.executed) + 1, Len(call.executed) < Len(commands)
    PROVE  /\ k \in 1..Len(commands) /\ commands[k] \in JavaCommands /\ commands[k] \in Shapes
           /\ IsAt(EncodeCommand(commands[k]), call.at, Extent(commands[k]), call.input)
<1>1. /\ commands \in Seq(Shapes) /\ commands \in Seq(JavaCommands) /\ Holds(b.memory, commands)
      /\ b.position = EndOf(commands, Len(commands))
  BY BufferParts
<1>2. PICK n : n = Len(commands)
  OBVIOUS
<1>3. PICK s : s = call.executed
  OBVIOUS
<1>4. PICK h : h = Len(s)
  OBVIOUS
<1>5. /\ s \in Seq(Shapes) /\ h \in Nat /\ n \in Nat /\ h < n /\ k = h + 1
      /\ call.at = 8 + ExtentSum(s) /\ \A i \in 1..h : s[i] = commands[i]
  BY <1>1, <1>2, <1>3, <1>4, LenProperties DEF CallOK, JavaOK
<1>6. k \in 1..n /\ k - 1 = h /\ h \in 0..n /\ k \in 0..n
  BY <1>5
<1>7. call.at = EndOf(commands, h)
  <2>1. EndOf(s, h) = call.at
    BY <1>4, <1>5, EndOfFacts
  <2>2. EndOf(s, h) = EndOf(commands, h)
    BY <1>1, <1>2, <1>4, <1>5, SameEnds
  <2> QED BY <2>1, <2>2
<1>8. /\ EndOf(commands, h) \in Nat /\ EndOf(commands, k) <= EndOf(commands, n)
      /\ commands[k] \in Shapes /\ Extent(commands[k]) \in Nat
      /\ EndOf(commands, k) = EndOf(commands, h) + Extent(commands[k])
  BY <1>1, <1>2, <1>6, EndOfFacts
<1>9. PICK start \in Nat : start = call.at
  BY <1>7, <1>8
<1>10. PICK length \in Nat : length = Extent(commands[k])
  BY <1>8
<1>11. PICK p \in Nat : p = b.position
  BY BufferParts
<1>12. start + length <= p
  BY <1>1, <1>2, <1>7, <1>8, <1>9, <1>10, <1>11
<1>13. Len(call.input) = p /\ \A i \in 1..p : call.input[i] = b.memory[i]
  BY <1>11, JavaInput DEF JavaOK
<1>14. ASSUME NEW j \in 1..length PROVE call.input[start + j] = EncodeCommand(commands[k])[j]
  <2>1. start + j \in 1..p
    BY <1>12
  <2>2. b.memory[EndOf(commands, k - 1) + j] = EncodeCommand(commands[k])[j]
    BY <1>1, <1>2, <1>6, <1>10 DEF Holds
  <2>3. EndOf(commands, k - 1) = start
    BY <1>6, <1>7, <1>9
  <2> QED BY <2>1, <2>2, <2>3, <1>13
<1>15. commands[k] \in JavaCommands
  BY <1>1, <1>2, <1>6, ElementOfSeq
<1>16. IsAt(EncodeCommand(commands[k]), start, length, call.input)
  BY <1>12, <1>13, <1>14 DEF IsAt
<1> QED BY <1>2, <1>6, <1>8, <1>9, <1>10, <1>15, <1>16

\* A number of two units.
LEMMA ReadSmall ==
    ASSUME NEW input, NEW at \in Nat, NEW value, input[at + 1] = value, input[at + 2] = 0
    PROVE  ReadNumber(input, at) = value
BY DEF ReadNumber

\* The third and the fourth unit of a field, and the first two.
LEMMA UnitsOf ==
    ASSUME NEW start \in Nat, NEW p \in Nat, NEW s \in Nat, NEW length \in Nat, p + s <= length,
           NEW j \in 1..s
    PROVE  3 + p + j \in 1..3 + length /\ start + (3 + p + j) = start + 3 + p + j
OBVIOUS
\* A command is read from a payload, from its tag to its fields.
ReadsAs(command, start, payload, name) ==
    /\ name \in DOMAIN Layout /\ PayloadLength(name) \in Nat
    /\ payload + PayloadLength(name) <= Len(call.input)
    /\ ReadUnit(call.input, start) = Tag(name)
    /\ ReadNumber(call.input, start + 1) = 2 * PayloadLength(name)
    /\ Decode(name, payload) = command
    /\ ZeroIds(name, payload) = {}

\* What is read where a command of Java lies.
LEMMA JavaReads ==
    ASSUME NEW command \in JavaCommands, command \in Shapes, NEW start \in Nat, call.input \in Seq(Nat),
           IsAt(EncodeCommand(command), start, Extent(command), call.input),
           NEW name, name = command.name, NEW payload, payload = start + 3
    PROVE  ReadsAs(command, start, payload, name)
<1>1. PICK length \in Nat : length = PayloadLength(name)
  BY ExtentFacts
<1>2. name \in DOMAIN Layout /\ Extent(command) = 3 + length
  BY <1>1, ExtentFacts
<1>3. PICK units : units = EncodeCommand(command)
  OBVIOUS
<1>4. PICK input : input = call.input
  OBVIOUS
<1>5. PICK size \in Nat : size = Len(input)
  BY <1>4, LenProperties
<1>6. start + (3 + length) <= size /\ \A j \in 1..3 + length : input[start + j] = units[j]
  BY <1>2, <1>3, <1>4, <1>5 DEF IsAt
<1>7. PICK f : f = command.fields
  OBVIOUS
<1>8. PICK kinds : kinds = Layout[name]
  OBVIOUS
<1>9. PICK n : n = Len(kinds)
  OBVIOUS
<1>10. n \in Nat \ {0} /\ DOMAIN kinds = 1..n
  BY <1>2, <1>8, <1>9, LayoutFacts
<1>11. /\ units[1] = Tag(name) /\ units[2] = 2 * length /\ units[3] = 0
       /\ \A i \in 1..n :
            /\ kinds[i] = "double" => units[3 + FieldAt(name, i) + 4] = f[i]
            /\ kinds[i] # "double" => units[3 + FieldAt(name, i) + 1] = f[i] /\ units[3 + FieldAt(name, i) + 2] = 0
  <2>1. IsEncoded(command, units)
    BY <1>3, EncodeFacts
  <2> QED BY <2>1, <1>1, <1>7, <1>8, <1>10 DEF IsEncoded
<1>12. input[start + 1] = Tag(name) /\ input[start + 2] = 2 * length /\ input[start + 3] = 0
  <2>1. 1 \in 1..3 + length /\ 2 \in 1..3 + length /\ 3 \in 1..3 + length
    OBVIOUS
  <2> QED BY <2>1, <1>6, <1>11
<1>13. ReadUnit(call.input, start) = Tag(name)
  BY <1>4, <1>12 DEF ReadUnit
<1>14. ReadNumber(call.input, start + 1) = 2 * length
  <2>1. PICK a \in Nat : a = start + 1
    OBVIOUS
  <2>2. a + 1 = start + 2 /\ a + 2 = start + 3
    BY <2>1
  <2>3. input[a + 1] = 2 * length /\ input[a + 2] = 0
    BY <1>12, <2>2
  <2> QED BY <1>4, <2>1, <2>3, ReadSmall
<1>15. payload \in Nat /\ payload + length <= size
  BY <1>6
<1>16. \A i \in 1..n : FieldAt(name, i) \in Nat /\ FieldAt(name, i) + Size(kinds[i]) <= length
  BY <1>1, <1>2, <1>8, <1>9, FieldAtFacts
<1>17. ASSUME NEW i \in 1..n
       PROVE  /\ kinds[i] = "double" => ReadDouble(call.input, payload + FieldAt(name, i)) = f[i]
              /\ kinds[i] # "double" => ReadNumber(call.input, payload + FieldAt(name, i)) = f[i]
  <2>1. PICK p \in Nat : p = FieldAt(name, i)
    BY <1>16
  <2>2. PICK s \in Nat : s = Size(kinds[i])
    BY DEF Size
  <2>3. p + s <= length
    BY <1>16, <2>1, <2>2
  <2>4. PICK a \in Nat : a = payload + p
    BY <1>15
  <2>5. CASE kinds[i] = "double"
    <3>1. 4 \in 1..s
      BY <2>2, <2>5 DEF Size
    <3>2. 3 + p + 4 \in 1..3 + length /\ start + (3 + p + 4) = a + 4
      BY <2>3, <2>4, <3>1, UnitsOf
    <3>3. input[a + 4] = f[i]
      BY <1>6, <1>11, <2>1, <2>5, <3>2
    <3> QED BY <1>4, <2>1, <2>4, <2>5, <3>3 DEF ReadDouble
  <2>6. CASE kinds[i] # "double"
    <3>1. 1 \in 1..s /\ 2 \in 1..s
      BY <2>2, <2>6 DEF Size
    <3>2. /\ 3 + p + 1 \in 1..3 + length /\ start + (3 + p + 1) = a + 1
          /\ 3 + p + 2 \in 1..3 + length /\ start + (3 + p + 2) = a + 2
      BY <2>3, <2>4, <3>1, UnitsOf
    <3>3. input[a + 1] = f[i] /\ input[a + 2] = 0
      BY <1>6, <1>11, <2>1, <2>6, <3>2
    <3>4. ReadNumber(input, a) = f[i]
      BY <3>3, ReadSmall
    <3> QED BY <1>4, <2>1, <2>4, <2>6, <3>4
  <2> QED BY <2>5, <2>6
<1>18. f \in [1..n -> Nat] /\ command = [name |-> name, fields |-> f]
  <2>1. command = [name |-> command.name, fields |-> command.fields]
        /\ command.fields \in [DOMAIN Layout[command.name] -> Nat]
    BY CommandsAssumption DEF Commands
  <2> QED BY <2>1, <1>7, <1>8, <1>10
<1>19. Decode(name, payload) = command
  <2>1. PICK g : g = [i \in 1..n |->
            IF kinds[i] = "double" THEN ReadDouble(call.input, payload + FieldAt(name, i))
            ELSE ReadNumber(call.input, payload + FieldAt(name, i))]
    OBVIOUS
  <2>2. \A i \in 1..n : g[i] = f[i]
    BY <1>17, <2>1
  <2>3. g = f
    BY <1>18, <2>1, <2>2
  <2>4. Decode(name, payload) = [name |-> name, fields |-> g]
    BY <1>8, <1>10, <2>1, Zenon DEF Decode
  <2> QED BY <1>18, <2>3, <2>4
<1>20. ZeroIds(name, payload) = {}
  <2>1. ASSUME NEW i \in 1..n, kinds[i] = "id", ReadNumber(call.input, payload + FieldAt(name, i)) = 0
        PROVE  FALSE
    <3>1. f[i] = 0
      BY <1>17, <2>1
    <3>2. f[i] > 0
      <4>1. DOMAIN command.fields = 1..n
        BY <1>7, <1>18
      <4> QED BY <4>1, <2>1, <1>7, <1>8, JavaIdsAssumption
    <3> QED BY <3>1, <3>2
  <2>2. ZeroIds(name, payload) = {i \in 1..n :
            kinds[i] = "id" /\ ReadNumber(call.input, payload + FieldAt(name, i)) = 0}
    BY <1>8, <1>10, Zenon DEF ZeroIds
  <2> QED BY <2>1, <2>2
<1> QED BY <1>1, <1>2, <1>4, <1>5, <1>13, <1>14, <1>15, <1>19, <1>20 DEF ReadsAs
-----------------------------------------------------------------------------
(* Steps of a call.                                                        *)

\* What a failure makes of a call.
LEMMA FailedIs ==
    ASSUME CallOK(call), NEW code, NEW index, NEW offset, Failed(code, index, offset)
    PROVE  call' = [phase |-> "returned", input |-> call.input, at |-> call.at, count |-> call.count,
                    executed |-> call.executed, code |-> code, index |-> index, offset |-> offset]
<1>1. PICK c : c = call
  OBVIOUS
<1>2. c = [phase |-> c.phase, input |-> c.input, at |-> c.at, count |-> c.count,
           executed |-> c.executed, code |-> c.code, index |-> c.index, offset |-> c.offset]
  BY <1>1 DEF CallOK, CallShape
<1>3. call' = [c EXCEPT !.phase = "returned", !.code = code, !.index = index, !.offset = offset]
  BY <1>1 DEF Failed
<1> QED BY <1>1, <1>2, <1>3

\* A call that has returned with an error is a call.
LEMMA FailedOK ==
    ASSUME CallOK(call), NEW code \in Codes, NEW index \in Nat \cup {NoIndex},
           NEW offset \in Nat \cup {NoIndex}, Failed(code, index, offset)
    PROVE  /\ CallOK(call')
           /\ call'.phase = "returned" /\ call'.code = code /\ call'.index = index /\ call'.offset = offset
           /\ call'.input = call.input /\ call'.executed = call.executed
<1>1. PICK d : d = call'
  OBVIOUS
<1>2. PICK c : c = call
  OBVIOUS
<1>3. d = [phase |-> "returned", input |-> c.input, at |-> c.at, count |-> c.count,
           executed |-> c.executed, code |-> code, index |-> index, offset |-> offset]
  BY <1>1, <1>2, FailedIs
<1>4. /\ d.phase = "returned" /\ d.input = c.input /\ d.at = c.at /\ d.count = c.count
      /\ d.executed = c.executed /\ d.code = code /\ d.index = index /\ d.offset = offset
  BY <1>3
<1>5. c.input \in Seq(Nat) /\ c.at \in Nat /\ c.at <= Len(c.input) /\ c.executed \in Seq(Shapes)
  BY <1>2 DEF CallOK
<1>6. CallShape(d)
  BY <1>3, <1>4 DEF CallShape
<1>7. CallOK(d)
  BY <1>4, <1>5, <1>6, Zenon DEF CallOK
<1> QED BY <1>1, <1>2, <1>4, <1>7

\* An error in the header is located in it.
LEMMA FailedInHeader ==
    ASSUME CallOK(call), call.phase = "header", NEW code \in Codes, NEW offset \in Nat, offset < 8,
           Failed(code, NoIndex, offset)
    PROVE  CallOK(call') /\ LocatedOK(call')
<1>1. /\ CallOK(call') /\ call'.index = NoIndex /\ call'.offset = offset
      /\ call'.executed = call.executed
  <2>1. NoIndex \in Nat \cup {NoIndex} /\ offset \in Nat \cup {NoIndex}
    OBVIOUS
  <2> QED BY <2>1, FailedOK, Zenon
<1>2. call.executed = << >>
  BY DEF CallOK
<1>3. PICK d : d = call'
  OBVIOUS
<1>4. LocatedOK(d)
  BY <1>1, <1>2, <1>3 DEF LocatedOK
<1> QED BY <1>1, <1>3, <1>4

\* An error in a command is located in it.
LEMMA FailedInCommand ==
    ASSUME CallOK(call), call.phase = "commands", NEW code \in Codes, NEW offset \in Nat,
           call.at <= offset, offset <= Len(call.input),
           code \in {"Rejected", "UnknownCommand", "InvalidCommandLength", "TrailingBytes"}
                => offset = call.at,
           Failed(code, Index, offset)
    PROVE  CallOK(call') /\ LocatedOK(call')
<1>0. PICK s : s = call.executed
  OBVIOUS
<1>a. PICK input : input = call.input
  OBVIOUS
<1>b. s \in Seq(Shapes) /\ input \in Seq(Nat) /\ call.at = 8 + ExtentSum(s)
  BY <1>0, <1>a DEF CallOK
<1>c. Len(s) \in Nat /\ Len(input) \in Nat /\ ExtentSum(s) \in Nat
  BY <1>b, LenProperties, ExtentSumFacts
<1>1. PICK index \in Nat : index = Len(s)
  BY <1>c
<1>2. /\ CallOK(call') /\ call'.index = index /\ call'.offset = offset /\ call'.code = code
      /\ call'.executed = s /\ call'.input = input
  <2>1. Failed(code, index, offset)
    BY <1>0, <1>1 DEF Index
  <2> HIDE DEF Index
  <2>2. index \in Nat \cup {NoIndex} /\ offset \in Nat \cup {NoIndex}
    OBVIOUS
  <2> QED BY <1>0, <1>a, <2>1, <2>2, FailedOK, Zenon
<1>3. index # NoIndex
  BY DEF NoIndex
<1>4. PICK a \in Nat : a = ExtentSum(s)
  BY <1>c
<1>5. PICK z \in Nat : z = Len(input)
  BY <1>c
<1>6. offset \in 8 + a..z /\ (code \in {"Rejected", "UnknownCommand", "InvalidCommandLength", "TrailingBytes"}
                => offset = 8 + a)
  BY <1>a, <1>b, <1>4, <1>5
<1>7. PICK d : d = call'
  OBVIOUS
<1>8. LocatedOK(d)
  BY <1>1, <1>2, <1>3, <1>4, <1>5, <1>6, <1>7 DEF LocatedOK
<1> QED BY <1>2, <1>7, <1>8

\* A command of Java fails because the world rejects it, or panics.
LEMMA JavaFailed ==
    ASSUME CallOK(call), call.phase # "idle", NEW b, NEW commands, JavaOK(call, b, commands),
           NEW code \in {"Rejected", "InternalPanic"}, NEW index \in Nat \cup {NoIndex},
           NEW offset \in Nat \cup {NoIndex}, Failed(code, index, offset)
    PROVE  JavaOK(call', b, commands)
<1>1. code \in Codes
  BY DEF Codes
<1>2. /\ call'.phase = "returned" /\ call'.code = code
      /\ call'.input = call.input /\ call'.executed = call.executed
  BY <1>1, FailedOK
<1>3. PICK d : d = call'
  OBVIOUS
<1>4. JavaOK(d, b, commands)
  BY <1>2, <1>3 DEF JavaOK, ReadsBuffer
<1> QED BY <1>3, <1>4

\* What a step of a call has to keep.
LEMMA CallStep ==
    ASSUME IInv, UNCHANGED <<buffer, appended, caller>>, NetworkOK(network'),
           CallOK(call'), LocatedOK(call'), caller = "java" => JavaOK(call', buffer, appended)
    PROVE  IInv'
BY Zenon DEF IInv
\* A command that was executed ends where the next one begins.
LEMMA ExecutedOK ==
    ASSUME CallOK(call), call.phase = "commands", NEW command \in Shapes, NEW end \in Nat,
           end = call.at + Extent(command), end <= Len(call.input),
           call' = [call EXCEPT !.at = end, !.executed = Append(@, command)]
    PROVE  /\ CallOK(call') /\ LocatedOK(call') /\ call'.phase = "commands"
           /\ call'.executed = Append(call.executed, command)
           /\ call'.input = call.input /\ call'.count = call.count /\ call'.code = call.code
<1>1. PICK c : c = call
  OBVIOUS
<1>2. PICK d : d = call'
  OBVIOUS
<1>3. PICK s : s = c.executed
  OBVIOUS
<1>4. PICK t : t = Append(s, command)
  OBVIOUS
<1>5. /\ CallShape(c) /\ c.phase = "commands" /\ c.code = "Success"
      /\ c.input \in Seq(Nat) /\ c.at = 8 + ExtentSum(s) /\ s \in Seq(Shapes)
      /\ c.code \in Codes /\ c.index \in Nat \cup {NoIndex} /\ c.offset \in Nat \cup {NoIndex}
  BY <1>1, <1>3 DEF CallOK
<1>6. d = [phase |-> "commands", input |-> c.input, at |-> end, count |-> c.count,
           executed |-> t, code |-> c.code, index |-> c.index, offset |-> c.offset]
  <2>1. d = [c EXCEPT !.at = end, !.executed = t]
    BY <1>1, <1>2, <1>3, <1>4, Zenon
  <2>2. c = [phase |-> c.phase, input |-> c.input, at |-> c.at, count |-> c.count,
             executed |-> c.executed, code |-> c.code, index |-> c.index, offset |-> c.offset]
    BY <1>5 DEF CallShape
  <2> QED BY <2>1, <2>2, <1>5
<1>7. /\ d.phase = "commands" /\ d.input = c.input /\ d.at = end /\ d.count = c.count
      /\ d.executed = t /\ d.code = c.code /\ d.index = c.index /\ d.offset = c.offset
  BY <1>6
<1>8. t \in Seq(Shapes) /\ end = 8 + ExtentSum(t)
  <2>1. /\ t \in Seq(Shapes) /\ Len(t) = Len(s) + 1 /\ t[Len(s) + 1] = command
        /\ \A i \in 1..Len(s) : t[i] = s[i]
    BY <1>4, <1>5, AppendProperties
  <2>2. ExtentSum(t) = ExtentSum(s) + Extent(command)
    <3>1. ExtentSum(t) = ExtentSum(s) + Extent(t[Len(t)])
      BY <1>5, <2>1, ExtentSumOneMore
    <3>2. t[Len(t)] = command
      BY <2>1
    <3> QED BY <3>1, <3>2
  <2>3. ExtentSum(s) \in Nat /\ Extent(command) \in Nat
    BY <1>5, ExtentSumFacts, ExtentFacts
  <2>4. PICK a \in Nat : a = ExtentSum(s)
    BY <2>3
  <2>5. PICK e \in Nat : e = Extent(command)
    BY <2>3
  <2>6. end = 8 + a + e
    BY <1>1, <1>5, <2>4, <2>5
  <2>7. ExtentSum(t) = a + e
    BY <2>2, <2>4, <2>5
  <2> QED BY <2>1, <2>6, <2>7
<1>9. CallShape(d)
  BY <1>6, <1>7 DEF CallShape
<1>10. CallOK(d)
  <2>1. end <= Len(c.input)
    BY <1>1
  <2> QED BY <1>5, <1>7, <1>8, <1>9, <2>1 DEF CallOK
<1>11. LocatedOK(d)
  BY <1>7 DEF LocatedOK
<1> QED BY <1>1, <1>2, <1>3, <1>4, <1>5, <1>7, <1>10, <1>11

\* When Java's next command was executed, the first of its commands are the
\* executed ones.
LEMMA JavaExecuted ==
    ASSUME NEW c, NEW d, NEW b, NEW commands, JavaOK(c, b, commands), c.executed \in Seq(Shapes),
           c.phase = "commands", commands \in Seq(Shapes), Len(c.executed) < Len(commands),
           NEW command, command = commands[Len(c.executed) + 1], command \in Shapes,
           d.executed = Append(c.executed, command),
           d.phase = "commands", d.input = c.input, d.count = c.count, d.code = c.code
    PROVE  JavaOK(d, b, commands)
<1>1. PICK s : s = c.executed
  OBVIOUS
<1>2. PICK t : t = d.executed
  OBVIOUS
<1>3. PICK n \in Nat : n = Len(s)
  BY <1>1, LenProperties
<1>4. PICK m \in Nat : m = Len(commands)
  BY LenProperties
<1>5. /\ Len(t) = n + 1 /\ t[n + 1] = command /\ \A i \in 1..n : t[i] = s[i]
  BY <1>1, <1>2, <1>3, AppendProperties
<1>6. \A i \in 1..n : s[i] = commands[i]
  BY <1>1, <1>3 DEF JavaOK
<1>7. n < m /\ command = commands[n + 1]
  BY <1>1, <1>3, <1>4
<1>8. n + 1 <= m /\ \A i \in 1..(n + 1) : t[i] = commands[i]
  <2>1. ASSUME NEW i \in 1..(n + 1) PROVE t[i] = commands[i]
    <3>1. CASE i = n + 1
      BY <3>1, <1>5, <1>7
    <3>2. CASE i # n + 1
      <4>1. i \in 1..n
        BY <3>2
      <4> QED BY <4>1, <1>5, <1>6
    <3> QED BY <3>1, <3>2
  <2> QED BY <2>1, <1>7
<1>9. /\ ReadsBuffer(c, b, commands) /\ c.count = Len(commands)
      /\ c.code \in {"Success", "Rejected", "InternalPanic"}
  BY DEF JavaOK
<1>10. ReadsBuffer(d, b, commands)
  BY <1>9, Zenon DEF ReadsBuffer
<1>11. Len(d.executed) <= Len(commands) /\ \A i \in 1..Len(d.executed) : d.executed[i] = commands[i]
  BY <1>2, <1>4, <1>5, <1>8
<1> QED BY <1>9, <1>10, <1>11, Zenon DEF JavaOK
\* A command that is executed, rejected, or panics.
LEMMA ExecuteOK ==
    ASSUME CallOK(call), NetworkOK(network), call.phase = "commands",
           NEW command \in Shapes, NEW end \in Nat,
           end = call.at + Extent(command), end <= Len(call.input), Execute(command, call.at, end)
    PROVE  /\ NetworkOK(network') /\ CallOK(call') /\ LocatedOK(call')
           /\ \A b, commands :
                 JavaOK(call, b, commands) /\ commands \in Seq(Shapes) /\ Len(call.executed) < Len(commands)
                     /\ command = commands[Len(call.executed) + 1] => JavaOK(call', b, commands)
<1>1. \/ Accepts(command) /\ network' = After(command)
         /\ call' = [call EXCEPT !.at = end, !.executed = Append(@, command)]
      \/ Failed("Rejected", Index, call.at) /\ network' = network
      \/ Failed("InternalPanic", NoIndex, NoIndex) /\ network' = network
  BY Zenon DEF Execute, Rejected
<1>2. CASE Accepts(command) /\ network' = After(command)
           /\ call' = [call EXCEPT !.at = end, !.executed = Append(@, command)]
  <2>1. command.name \in DOMAIN Layout
    BY ExtentFacts
  <2>2. NetworkOK(network')
    BY <1>2, <2>1, AfterOK
  <2>3. /\ CallOK(call') /\ LocatedOK(call') /\ call'.phase = "commands"
        /\ call'.executed = Append(call.executed, command)
        /\ call'.input = call.input /\ call'.count = call.count /\ call'.code = call.code
    BY <1>2, ExecutedOK
  <2>4. call.executed \in Seq(Shapes)
    BY DEF CallOK
  <2>5. ASSUME NEW b, NEW commands,
               JavaOK(call, b, commands), commands \in Seq(Shapes), Len(call.executed) < Len(commands),
               command = commands[Len(call.executed) + 1]
        PROVE  JavaOK(call', b, commands)
    <3>1. PICK c : c = call
      OBVIOUS
    <3>2. PICK d : d = call'
      OBVIOUS
    <3>3. JavaOK(d, b, commands)
      BY <2>3, <2>4, <2>5, <3>1, <3>2, JavaExecuted
    <3> QED BY <3>2, <3>3
  <2> QED BY <2>2, <2>3, <2>5
<1>3. CASE Failed("Rejected", Index, call.at) /\ network' = network
  <2>1. call.at \in Nat /\ call.at <= Len(call.input) /\ call.executed \in Seq(Shapes)
    BY DEF CallOK
  <2>2. "Rejected" \in Codes
    BY DEF Codes
  <2>3. CallOK(call') /\ LocatedOK(call')
    BY <1>3, <2>1, <2>2, FailedInCommand
  <2>4. Index \in Nat \cup {NoIndex} /\ call.at \in Nat \cup {NoIndex}
    BY <2>1, LenProperties DEF Index
  <2>5. \A b, commands : JavaOK(call, b, commands) => JavaOK(call', b, commands)
    BY <1>3, <2>4, JavaFailed
  <2> QED BY <1>3, <2>3, <2>5
<1>4. CASE Failed("InternalPanic", NoIndex, NoIndex) /\ network' = network
  <2>1. "InternalPanic" \in Codes /\ NoIndex \in Nat \cup {NoIndex}
    BY DEF Codes
  <2>2. CallOK(call') /\ call'.code = "InternalPanic"
    BY <1>4, <2>1, FailedOK
  <2>3. LocatedOK(call')
    <3>1. PICK d : d = call'
      OBVIOUS
    <3> QED BY <2>2, <3>1 DEF LocatedOK
  <2>4. \A b, commands : JavaOK(call, b, commands) => JavaOK(call', b, commands)
    BY <1>4, <2>1, JavaFailed
  <2> QED BY <1>4, <2>2, <2>3, <2>4
<1> QED BY <1>1, <1>2, <1>3, <1>4

\* The next command of Java is there, and is read as it was appended.
LEMMA JavaNext ==
    ASSUME CallOK(call), NEW b, NEW commands, BufferOK(b, commands), JavaOK(call, b, commands),
           call.phase = "commands", Index < call.count,
           NEW start, start = call.at, NEW tag, tag = ReadUnit(call.input, start),
           NEW name, name = Names[tag], NEW payload, payload = start + 3
    PROVE  /\ commands \in Seq(Shapes) /\ Len(call.executed) < Len(commands)
           /\ Remaining(call.input, start) >= 3 /\ tag \in DOMAIN Names
           /\ ReadNumber(call.input, start + 1) = 2 * PayloadLength(name)
           /\ payload + PayloadLength(name) <= Len(call.input)
           /\ ZeroIds(name, payload) = {}
           /\ Decode(name, payload) = commands[Len(call.executed) + 1]
<1>1. call.count = Len(commands)
  BY DEF JavaOK
<1>2. Len(call.executed) < Len(commands)
  BY <1>1 DEF Index
<1>3. PICK k : k = Len(call.executed) + 1
  OBVIOUS
<1>4. PICK command : command = commands[k]
  OBVIOUS
<1>5. /\ command \in JavaCommands /\ command \in Shapes
      /\ IsAt(EncodeCommand(command), start, Extent(command), call.input)
  BY <1>2, <1>3, <1>4, NextCommand
<1>6. start \in Nat /\ call.input \in Seq(Nat)
  BY DEF CallOK
<1>7. PICK n : n = command.name
  OBVIOUS
<1>8. /\ n \in DOMAIN Layout /\ PayloadLength(n) \in Nat
      /\ payload + PayloadLength(n) <= Len(call.input)
      /\ ReadUnit(call.input, start) = Tag(n)
      /\ ReadNumber(call.input, start + 1) = 2 * PayloadLength(n)
      /\ Decode(n, payload) = command
      /\ ZeroIds(n, payload) = {}
  <2>1. ReadsAs(command, start, payload, n)
    BY <1>5, <1>6, <1>7, JavaReads
  <2> QED BY <2>1 DEF ReadsAs
<1>9. tag \in DOMAIN Names /\ name = n
  BY <1>8, TagFacts
<1>10. Remaining(call.input, start) >= 3
  <2>1. PICK z \in Nat : z = Len(call.input)
    BY <1>6, LenProperties
  <2>2. PICK l \in Nat : l = PayloadLength(n)
    BY <1>8
  <2>3. start + 3 + l <= z
    BY <1>8, <2>1, <2>2
  <2> QED BY <1>6, <2>1, <2>3 DEF Remaining
<1>11. commands \in Seq(Shapes)
  BY BufferParts
<1> QED BY <1>2, <1>3, <1>4, <1>8, <1>9, <1>10, <1>11
\* A field that is read lies in the payload of its command.
LEMMA BehindStart ==
    ASSUME NEW start \in Nat, NEW p \in Nat, NEW s \in Nat, NEW length \in Nat, NEW size \in Nat,
           p + s <= length, start + 3 + length <= size
    PROVE  start + 3 + p \in Nat /\ start <= start + 3 + p /\ start + 3 + p <= size
OBVIOUS

\* A command that is read keeps the invariant.
LEMMA ReadCommandOK ==
    ASSUME IInv, ReadCommand, UNCHANGED caller
    PROVE  IInv'
<1>0. /\ CallOK(call) /\ NetworkOK(network) /\ BufferOK(buffer, appended)
      /\ caller = "java" => JavaOK(call, buffer, appended)
  BY Zenon DEF IInv
<1>1. PICK start : start = call.at
  OBVIOUS
<1>2. PICK payload : payload = start + 3
  OBVIOUS
<1>3. PICK tag : tag = ReadUnit(call.input, start)
  OBVIOUS
<1>4. PICK name : name = Names[tag]
  OBVIOUS
<1>5. PICK size : size = Len(call.input)
  OBVIOUS
<1>6. /\ start \in Nat /\ size \in Nat /\ start <= size /\ payload \in Nat
      /\ call.input \in Seq(Nat) /\ call.executed \in Seq(Shapes)
  <2>1. call.at \in Nat /\ call.at <= Len(call.input)
        /\ call.input \in Seq(Nat) /\ call.executed \in Seq(Shapes)
    BY <1>0 DEF CallOK
  <2> QED BY <2>1, <1>1, <1>2, <1>5, LenProperties
<1>7. start + CommandHeaderLength = payload
  BY <1>2 DEF CommandHeaderLength
<1>8. /\ call.phase = "commands" /\ Index < call.count
      /\ \/ Remaining(call.input, start) < CommandHeaderLength
            /\ Failed("TruncatedInput", Index, size) /\ network' = network
         \/ tag \notin DOMAIN Names
            /\ Failed("UnknownCommand", Index, start) /\ network' = network
         \/ ReadNumber(call.input, start + 1) # 2 * PayloadLength(name)
            /\ Failed("InvalidCommandLength", Index, start) /\ network' = network
         \/ tag \in DOMAIN Names /\ payload + PayloadLength(name) > size
            /\ Failed("TruncatedInput", Index, size) /\ network' = network
         \/ /\ tag \in DOMAIN Names /\ payload + PayloadLength(name) <= size
            /\ ZeroIds(name, payload) # {}
            /\ Failed("InvalidId", Index, payload + FieldAt(name,
                    CHOOSE i \in ZeroIds(name, payload) : \A j \in ZeroIds(name, payload) : i <= j))
            /\ network' = network
         \/ /\ tag \in DOMAIN Names /\ payload + PayloadLength(name) <= size
            /\ Execute(Decode(name, payload), start, payload + PayloadLength(name))
      /\ UNCHANGED <<buffer, appended>>
  BY <1>1, <1>3, <1>4, <1>5, <1>7, Zenon DEF ReadCommand
<1>9. ASSUME caller = "java"
      PROVE  /\ Remaining(call.input, start) >= 3 /\ tag \in DOMAIN Names
             /\ ReadNumber(call.input, start + 1) = 2 * PayloadLength(name)
             /\ payload + PayloadLength(name) <= size
             /\ ZeroIds(name, payload) = {}
             /\ appended \in Seq(Shapes) /\ Len(call.executed) < Len(appended)
             /\ Decode(name, payload) = appended[Len(call.executed) + 1]
  BY <1>0, <1>1, <1>2, <1>3, <1>4, <1>5, <1>8, <1>9, JavaNext
<1>10. ASSUME NEW code \in Codes, NEW offset \in Nat, start <= offset, offset <= size,
              code \in {"Rejected", "UnknownCommand", "InvalidCommandLength", "TrailingBytes"} => offset = start,
              Failed(code, Index, offset), network' = network, caller # "java"
       PROVE  IInv'
  <2>1. CallOK(call') /\ LocatedOK(call')
    BY <1>0, <1>1, <1>5, <1>8, <1>10, FailedInCommand
  <2> QED BY <2>1, <1>0, <1>8, <1>10, CallStep
<1>11. /\ "TruncatedInput" \in Codes /\ "UnknownCommand" \in Codes
       /\ "InvalidCommandLength" \in Codes /\ "InvalidId" \in Codes
  BY DEF Codes
<1>12. CASE Remaining(call.input, start) < CommandHeaderLength
            /\ Failed("TruncatedInput", Index, size) /\ network' = network
  <2>1. caller # "java"
    <3>1. ~(Remaining(call.input, start) >= 3)
      BY <1>5, <1>6, <1>12 DEF Remaining, CommandHeaderLength
    <3> QED BY <3>1, <1>9
  <2>2. size <= size
    BY <1>6
  <2> QED BY <2>1, <2>2, <1>6, <1>10, <1>11, <1>12
<1>13. CASE tag \notin DOMAIN Names /\ Failed("UnknownCommand", Index, start) /\ network' = network
  <2>1. caller # "java"
    BY <1>9, <1>13
  <2>2. start <= start
    BY <1>6
  <2> QED BY <2>1, <2>2, <1>6, <1>10, <1>11, <1>13
<1>14. CASE ReadNumber(call.input, start + 1) # 2 * PayloadLength(name)
            /\ Failed("InvalidCommandLength", Index, start) /\ network' = network
  <2>1. caller # "java"
    BY <1>9, <1>14
  <2>2. start <= start
    BY <1>6
  <2> QED BY <2>1, <2>2, <1>6, <1>10, <1>11, <1>14
<1>15. CASE tag \in DOMAIN Names /\ payload + PayloadLength(name) > size
            /\ Failed("TruncatedInput", Index, size) /\ network' = network
  <2>1. caller # "java"
    <3>1. name \in DOMAIN Layout
      BY <1>4, <1>15, NamesFacts
    <3>2. PICK length \in Nat : length = PayloadLength(name)
      BY <3>1, ExtentFacts
    <3>3. ~(payload + length <= size)
      BY <1>6, <1>15, <3>2
    <3> QED BY <3>2, <3>3, <1>9
  <2>2. size <= size
    BY <1>6
  <2> QED BY <2>1, <2>2, <1>6, <1>10, <1>11, <1>15
<1>16. CASE /\ tag \in DOMAIN Names /\ payload + PayloadLength(name) <= size
            /\ ZeroIds(name, payload) # {}
            /\ Failed("InvalidId", Index, payload + FieldAt(name,
                    CHOOSE i \in ZeroIds(name, payload) : \A j \in ZeroIds(name, payload) : i <= j))
            /\ network' = network
  <2>1. caller # "java"
    BY <1>9, <1>16
  <2>2. name \in DOMAIN Layout
    BY <1>4, <1>16, NamesFacts
  <2>3. PICK n : n = Len(Layout[name])
    OBVIOUS
  <2>4. n \in Nat /\ DOMAIN Layout[name] = 1..n
    BY <2>2, <2>3, LayoutFacts
  <2>5. PICK Z : Z = ZeroIds(name, payload)
    OBVIOUS
  <2>6. Z \subseteq 1..n /\ Z # {}
    BY <1>16, <2>4, <2>5 DEF ZeroIds
  <2>7. PICK i : i = CHOOSE x \in Z : \A y \in Z : x <= y
    OBVIOUS
  <2>8. i \in 1..n
    <3>1. Z \in SUBSET Nat
      BY <2>6
    <3>2. \E x \in Z : \A y \in Z : x <= y
      BY <2>6, <3>1, NatMin
    <3>3. i \in Z
      BY <2>7, <3>2, Zenon
    <3> QED BY <2>6, <3>3
  <2>9. PICK length \in Nat : length = PayloadLength(name)
    BY <2>2, ExtentFacts
  <2>10. FieldAt(name, i) \in Nat /\ FieldAt(name, i) + Size(Layout[name][i]) <= length
    BY <2>2, <2>3, <2>8, <2>9, FieldAtFacts
  <2>11. PICK p \in Nat : p = FieldAt(name, i)
    BY <2>10
  <2>12. PICK s \in Nat : s = Size(Layout[name][i])
    BY DEF Size
  <2>13. payload + p \in Nat /\ start <= payload + p /\ payload + p <= size
    <3>1. p + s <= length /\ start + 3 + length <= size
      BY <1>2, <1>16, <2>9, <2>10, <2>11, <2>12
    <3> QED BY <3>1, <1>2, <1>6, BehindStart
  <2>14. Failed("InvalidId", Index, payload + p)
    BY <1>16, <2>5, <2>7, <2>11, Zenon
  <2>15. PICK offset \in Nat : offset = payload + p
    BY <2>13
  <2> QED BY <2>1, <2>13, <2>14, <2>15, <1>10, <1>11, <1>16
<1>17. CASE /\ tag \in DOMAIN Names /\ payload + PayloadLength(name) <= size
            /\ Execute(Decode(name, payload), start, payload + PayloadLength(name))
  <2>1. name \in DOMAIN Layout
    BY <1>4, <1>17, NamesFacts
  <2>2. PICK command : command = Decode(name, payload)
    OBVIOUS
  <2>3. command \in Shapes /\ command.name = name
    BY <1>5, <1>6, <1>17, <2>1, <2>2, DecodeOK
  <2>4. PICK length \in Nat : length = PayloadLength(name)
    BY <2>1, ExtentFacts
  <2>5. Extent(command) = 3 + length
    BY <2>3, <2>4, ExtentFacts
  <2>6. PICK end \in Nat : end = payload + length
    BY <1>6
  <2>7. end = start + Extent(command) /\ end <= size
    BY <1>2, <1>6, <1>17, <2>4, <2>5, <2>6
  <2>8. Execute(command, call.at, end)
    BY <1>1, <1>17, <2>2, <2>4, <2>6
  <2>9. /\ NetworkOK(network') /\ CallOK(call') /\ LocatedOK(call')
        /\ \A b, commands :
              JavaOK(call, b, commands) /\ commands \in Seq(Shapes) /\ Len(call.executed) < Len(commands)
                  /\ command = commands[Len(call.executed) + 1] => JavaOK(call', b, commands)
    BY <1>0, <1>1, <1>5, <1>8, <2>3, <2>7, <2>8, ExecuteOK
  <2>10. caller = "java" => JavaOK(call', buffer, appended)
    BY <1>0, <1>9, <2>2, <2>9
  <2> QED BY <1>8, <2>9, <2>10, CallStep
<1> QED BY <1>8, <1>12, <1>13, <1>14, <1>15, <1>16, <1>17
\* The checks of the header look at its first six units.
LEMMA HeaderChecksFacts ==
    /\ DOMAIN HeaderChecks = 1..4
    /\ \A i \in 1..4 : /\ HeaderChecks[i].at \in Nat /\ HeaderChecks[i].length \in Nat
                       /\ HeaderChecks[i].at < 8 /\ HeaderChecks[i].at + HeaderChecks[i].length < 8
                       /\ HeaderChecks[i].code \in Codes
<1>1. DOMAIN HeaderChecks = 1..4
  BY DEF HeaderChecks
<1>2. \A i \in 1..4 : i = 1 \/ i = 2 \/ i = 3 \/ i = 4
  OBVIOUS
<1>3. /\ HeaderChecks[1].at = 0 /\ HeaderChecks[1].length = 2 /\ HeaderChecks[1].code = "InvalidMagic"
      /\ HeaderChecks[2].at = 2 /\ HeaderChecks[2].length = 1 /\ HeaderChecks[2].code = "UnsupportedVersion"
      /\ HeaderChecks[3].at = 3 /\ HeaderChecks[3].length = 1 /\ HeaderChecks[3].code = "InvalidFlags"
      /\ HeaderChecks[4].at = 4 /\ HeaderChecks[4].length = 2 /\ HeaderChecks[4].code = "InvalidReserved"
  BY DEF HeaderChecks
<1>4. \A code \in {"InvalidMagic", "UnsupportedVersion", "InvalidFlags", "InvalidReserved"} : code \in Codes
  BY DEF Codes
<1> QED BY <1>1, <1>2, <1>3, <1>4

\* One unit of an input, and two.
LEMMA UnitsAt ==
    ASSUME NEW input \in Seq(Nat), NEW size \in Nat, size = Len(input), NEW i \in Nat, 1 <= i, i + 1 <= size
    PROVE  SubSeq(input, i, i) = <<input[i]>> /\ SubSeq(input, i, i + 1) = <<input[i], input[i + 1]>>
<1>1. \A j \in 1..size : input[j] \in Nat
  BY ElementOfSeq
<1>2. SubSeq(input, i, i) = <<input[i]>>
  <2>1. \A j \in i..i : input[j] \in Nat
    BY <1>1
  <2>2. PICK s : s = SubSeq(input, i, i)
    OBVIOUS
  <2>3. s \in Seq(Nat) /\ Len(s) = 1 /\ s[1] = input[i]
    BY <2>1, <2>2, SubSeqProperties
  <2>4. PICK x \in Nat : x = input[i]
    BY <1>1
  <2>5. PICK t : t = <<x>>
    OBVIOUS
  <2>6. t \in Seq(Nat) /\ Len(t) = 1 /\ t[1] = x
    BY <2>5
  <2>7. \A j \in 1..Len(s) : s[j] = t[j]
    BY <2>3, <2>4, <2>6
  <2>8. s = t
    BY <2>3, <2>6, <2>7, SeqEqual
  <2> QED BY <2>2, <2>4, <2>5, <2>8
<1>3. SubSeq(input, i, i + 1) = <<input[i], input[i + 1]>>
  <2>1. \A j \in i..(i + 1) : input[j] \in Nat
    BY <1>1
  <2>2. PICK s : s = SubSeq(input, i, i + 1)
    OBVIOUS
  <2>3. s \in Seq(Nat) /\ Len(s) = 2 /\ s[1] = input[i] /\ s[2] = input[i + 1]
    BY <2>1, <2>2, SubSeqProperties
  <2>4. PICK x \in Nat : x = input[i]
    BY <1>1
  <2>5. PICK y \in Nat : y = input[i + 1]
    BY <1>1
  <2>6. PICK t : t = <<x, y>>
    OBVIOUS
  <2>7. t \in Seq(Nat) /\ Len(t) = 2 /\ t[1] = x /\ t[2] = y
    BY <2>6
  <2>8. \A j \in 1..Len(s) : s[j] = t[j]
    BY <2>3, <2>4, <2>5, <2>7
  <2>9. s = t
    BY <2>3, <2>7, <2>8, SeqEqual
  <2> QED BY <2>2, <2>4, <2>5, <2>6, <2>9
<1> QED BY <1>2, <1>3

\* The header that Java writes passes every check.
LEMMA JavaHeader ==
    ASSUME CallOK(call), NEW b, NEW commands, BufferOK(b, commands), ReadsBuffer(call, b, commands)
    PROVE  /\ \A i \in 1..4 : ~HeaderCheckFails(HeaderChecks[i])
           /\ Len(call.input) >= 8 /\ ReadNumber(call.input, 6) = Len(commands)
<1>1. PICK input : input = call.input
  OBVIOUS
<1>2. PICK p \in Nat : p = b.position
  BY BufferParts
<1>3. input \in Seq(Nat) /\ Len(input) = p /\ \A i \in 1..p : input[i] = b.memory[i]
  BY <1>1, <1>2, JavaInput DEF CallOK
<1>4. 8 <= p /\ HasHeader(b.memory) /\ b.memory[7] = Len(commands) /\ b.memory[8] = 0
  BY <1>2, BufferParts DEF ReadsBuffer
<1>5. /\ input[1] = MagicLow /\ input[2] = MagicHigh /\ input[3] = Version
      /\ input[4] = 0 /\ input[5] = 0 /\ input[6] = 0
      /\ input[7] = Len(commands) /\ input[8] = 0
  <2>1. \A i \in 1..8 : i \in 1..p
    BY <1>4
  <2>2. 1 \in 1..8 /\ 2 \in 1..8 /\ 3 \in 1..8 /\ 4 \in 1..8 /\ 5 \in 1..8 /\ 6 \in 1..8 /\ 7 \in 1..8 /\ 8 \in 1..8
    OBVIOUS
  <2> QED BY <2>1, <2>2, <1>3, <1>4 DEF HasHeader
<1>6. /\ SubSeq(input, 1, 1 + 1) = <<MagicLow, MagicHigh>> /\ SubSeq(input, 3, 3) = <<Version>>
      /\ SubSeq(input, 4, 4) = <<0>> /\ SubSeq(input, 5, 5 + 1) = <<0, 0>>
  <2>1. \A i \in Nat : 1 <= i /\ i + 1 <= p =>
            SubSeq(input, i, i) = <<input[i]>> /\ SubSeq(input, i, i + 1) = <<input[i], input[i + 1]>>
    BY <1>3, UnitsAt
  <2>2. 1 + 1 <= p /\ 3 + 1 <= p /\ 4 + 1 <= p /\ 5 + 1 <= p
    BY <1>4
  <2>3. SubSeq(input, 1, 1 + 1) = <<input[1], input[1 + 1]>>
    BY <2>1, <2>2
  <2>4. SubSeq(input, 3, 3) = <<input[3]>>
    BY <2>1, <2>2
  <2>5. SubSeq(input, 4, 4) = <<input[4]>>
    BY <2>1, <2>2
  <2>6. SubSeq(input, 5, 5 + 1) = <<input[5], input[5 + 1]>>
    BY <2>1, <2>2
  <2>7. 1 + 1 = 2 /\ 5 + 1 = 6
    OBVIOUS
  <2> QED BY <2>3, <2>4, <2>5, <2>6, <2>7, <1>5
<1>8. \A i \in 1..4 : i = 1 \/ i = 2 \/ i = 3 \/ i = 4
  OBVIOUS
<1>9. ~HeaderCheckFails(HeaderChecks[1])
  <2>1. PICK c : c = HeaderChecks[1]
    OBVIOUS
  <2>2. c.at + 1 = 1 /\ c.at + c.length = 1 + 1 /\ c.expected = <<MagicLow, MagicHigh>>
    BY <2>1 DEF HeaderChecks
  <2>3. ~(Len(input) < 1 + 1)
    BY <1>3, <1>4
  <2> QED BY <2>1, <2>2, <2>3, <1>1, <1>6, Zenon DEF HeaderCheckFails
<1>10. ~HeaderCheckFails(HeaderChecks[2])
  <2>1. PICK c : c = HeaderChecks[2]
    OBVIOUS
  <2>2. c.at + 1 = 3 /\ c.at + c.length = 3 /\ c.expected = <<Version>>
    BY <2>1 DEF HeaderChecks
  <2>3. ~(Len(input) < 3)
    BY <1>3, <1>4
  <2> QED BY <2>1, <2>2, <2>3, <1>1, <1>6, Zenon DEF HeaderCheckFails
<1>11. ~HeaderCheckFails(HeaderChecks[3])
  <2>1. PICK c : c = HeaderChecks[3]
    OBVIOUS
  <2>2. c.at + 1 = 4 /\ c.at + c.length = 4 /\ c.expected = <<0>>
    BY <2>1 DEF HeaderChecks
  <2>3. ~(Len(input) < 4)
    BY <1>3, <1>4
  <2> QED BY <2>1, <2>2, <2>3, <1>1, <1>6, Zenon DEF HeaderCheckFails
<1>12. ~HeaderCheckFails(HeaderChecks[4])
  <2>1. PICK c : c = HeaderChecks[4]
    OBVIOUS
  <2>2. c.at + 1 = 5 /\ c.at + c.length = 5 + 1 /\ c.expected = <<0, 0>>
    BY <2>1 DEF HeaderChecks
  <2>3. ~(Len(input) < 5 + 1)
    BY <1>3, <1>4
  <2> QED BY <2>1, <2>2, <2>3, <1>1, <1>6, Zenon DEF HeaderCheckFails
<1>13. ReadNumber(input, 6) = Len(commands)
  <2>1. input[6 + 1] = Len(commands) /\ input[6 + 2] = 0
    BY <1>5
  <2> QED BY <2>1, ReadSmall
<1> QED BY <1>1, <1>3, <1>4, <1>8, <1>9, <1>10, <1>11, <1>12, <1>13
\* Reading the header keeps the invariant.
LEMMA ReadHeaderOK ==
    ASSUME IInv, ReadHeader, UNCHANGED caller
    PROVE  IInv'
<1>0. /\ CallOK(call) /\ NetworkOK(network) /\ BufferOK(buffer, appended)
      /\ caller = "java" => JavaOK(call, buffer, appended)
  BY Zenon DEF IInv
<1>1. PICK F : F = {i \in DOMAIN HeaderChecks : HeaderCheckFails(HeaderChecks[i])}
  OBVIOUS
<1>2. PICK size : size = Len(call.input)
  OBVIOUS
<1>3. PICK first : first = HeaderChecks[CHOOSE i \in F : \A j \in F : i <= j]
  OBVIOUS
<1>4. PICK count : count = ReadNumber(call.input, HeaderLength - 2)
  OBVIOUS
<1>5. /\ call.phase = "header"
      /\ \/ F # {} /\ size < first.at + first.length /\ Failed("TruncatedInput", NoIndex, size)
         \/ F # {} /\ Failed(first.code, NoIndex, first.at)
         \/ F = {} /\ size < HeaderLength /\ Failed("TruncatedInput", NoIndex, size)
         \/ /\ F = {} /\ ~(size < HeaderLength)
            /\ call' = [call EXCEPT !.phase = "commands", !.at = HeaderLength, !.count = count]
      /\ UNCHANGED <<buffer, appended, network>>
  BY <1>1, <1>2, <1>3, <1>4, Zenon DEF ReadHeader
<1>6. /\ call.input \in Seq(Nat) /\ size \in Nat /\ call.executed = << >> /\ CallShape(call)
      /\ call.code = "Success" /\ call.index \in Nat \cup {NoIndex} /\ call.offset \in Nat \cup {NoIndex}
  BY <1>0, <1>2, <1>5, LenProperties DEF CallOK
<1>7. ASSUME caller = "java"
      PROVE  F = {} /\ size >= 8 /\ count = Len(appended)
  <2>1. ReadsBuffer(call, buffer, appended)
    BY <1>0, <1>5, <1>7 DEF JavaOK
  <2>2. /\ \A i \in 1..4 : ~HeaderCheckFails(HeaderChecks[i])
        /\ Len(call.input) >= 8 /\ ReadNumber(call.input, 6) = Len(appended)
    BY <1>0, <2>1, JavaHeader
  <2>3. HeaderLength - 2 = 6
    BY DEF HeaderLength
  <2> QED BY <1>1, <1>2, <1>4, <2>2, <2>3, HeaderChecksFacts
<1>8. ASSUME NEW code \in Codes, NEW offset \in Nat, offset < 8,
             Failed(code, NoIndex, offset), caller # "java"
      PROVE  IInv'
  <2>1. CallOK(call') /\ LocatedOK(call')
    BY <1>0, <1>5, <1>8, FailedInHeader
  <2> QED BY <2>1, <1>0, <1>5, <1>8, CallStep
<1>9. "TruncatedInput" \in Codes
  BY DEF Codes
<1>10. ASSUME F # {}
       PROVE  /\ first.at \in Nat /\ first.length \in Nat /\ first.at < 8
              /\ first.at + first.length < 8 /\ first.code \in Codes
  <2>1. PICK i : i = CHOOSE x \in F : \A y \in F : x <= y
    OBVIOUS
  <2>2. F \subseteq 1..4
    BY <1>1, HeaderChecksFacts
  <2>3. i \in 1..4
    <3>1. F \in SUBSET Nat
      BY <2>2
    <3>2. \E x \in F : \A y \in F : x <= y
      BY <1>10, <3>1, NatMin
    <3>3. i \in F
      BY <2>1, <3>2, Zenon
    <3> QED BY <2>2, <3>3
  <2> QED BY <1>3, <2>1, <2>3, HeaderChecksFacts
<1>11. CASE F # {} /\ size < first.at + first.length /\ Failed("TruncatedInput", NoIndex, size)
  <2>1. size < 8 /\ caller # "java"
    BY <1>6, <1>7, <1>10, <1>11
  <2> QED BY <2>1, <1>6, <1>8, <1>9, <1>11
<1>12. CASE F # {} /\ Failed(first.code, NoIndex, first.at)
  <2>1. caller # "java"
    BY <1>7, <1>12
  <2> QED BY <2>1, <1>8, <1>10, <1>12
<1>13. CASE F = {} /\ size < HeaderLength /\ Failed("TruncatedInput", NoIndex, size)
  <2>1. size < 8 /\ caller # "java"
    BY <1>6, <1>7, <1>13 DEF HeaderLength
  <2> QED BY <2>1, <1>6, <1>8, <1>9, <1>13
<1>14. CASE /\ F = {} /\ ~(size < HeaderLength)
            /\ call' = [call EXCEPT !.phase = "commands", !.at = HeaderLength, !.count = count]
  <2>1. PICK c : c = call
    OBVIOUS
  <2>2. PICK d : d = call'
    OBVIOUS
  <2>3. d = [phase |-> "commands", input |-> c.input, at |-> 8, count |-> count,
             executed |-> c.executed, code |-> c.code, index |-> c.index, offset |-> c.offset]
    <3>1. d = [c EXCEPT !.phase = "commands", !.at = 8, !.count = count]
      BY <1>14, <2>1, <2>2 DEF HeaderLength
    <3>2. c = [phase |-> c.phase, input |-> c.input, at |-> c.at, count |-> c.count,
               executed |-> c.executed, code |-> c.code, index |-> c.index, offset |-> c.offset]
      BY <1>6, <2>1 DEF CallShape
    <3> QED BY <3>1, <3>2
  <2>4. /\ d.phase = "commands" /\ d.input = c.input /\ d.at = 8 /\ d.count = count
        /\ d.executed = c.executed /\ d.code = c.code /\ d.index = c.index /\ d.offset = c.offset
    BY <2>3
  <2>5. 8 <= size
    BY <1>6, <1>14 DEF HeaderLength
  <2>6. c.executed \in Seq(Shapes) /\ 8 = 8 + ExtentSum(c.executed) /\ Len(c.executed) = 0
    <3>1. << >> \in Seq(Shapes) /\ Len(<< >>) = 0
      OBVIOUS
    <3>2. ExtentSum(<< >>) = 0
      BY <3>1, ExtentSumFacts
    <3>3. c.executed = << >>
      BY <1>6, <2>1
    <3>4. ExtentSum(c.executed) = 0 /\ c.executed \in Seq(Shapes) /\ Len(c.executed) = 0
      BY <3>1, <3>2, <3>3, Zenon
    <3>5. 8 = 8 + ExtentSum(c.executed)
      BY <3>4
    <3> QED BY <3>4, <3>5
  <2>7. CallShape(d)
    BY <2>3, <2>4 DEF CallShape
  <2>8. CallOK(d)
    <3>1. c.input \in Seq(Nat) /\ 8 \in Nat /\ 8 <= Len(c.input)
      BY <1>2, <1>6, <2>1, <2>5
    <3>2. c.code = "Success" /\ c.code \in Codes /\ c.index \in Nat \cup {NoIndex}
          /\ c.offset \in Nat \cup {NoIndex}
      BY <1>6, <2>1 DEF Codes
    <3> QED BY <2>4, <2>6, <2>7, <3>1, <3>2 DEF CallOK
  <2>9. LocatedOK(d)
    BY <2>4 DEF LocatedOK
  <2>10. ASSUME caller = "java" PROVE JavaOK(d, buffer, appended)
    <3>1. /\ ReadsBuffer(c, buffer, appended) /\ c.code \in {"Success", "Rejected", "InternalPanic"}
          /\ Len(c.executed) <= Len(appended)
          /\ \A i \in 1..Len(c.executed) : c.executed[i] = appended[i]
      BY <1>0, <1>5, <2>1, <2>10 DEF JavaOK
    <3>2. ReadsBuffer(d, buffer, appended)
      BY <2>4, <3>1, Zenon DEF ReadsBuffer
    <3>3. d.count = Len(appended)
      BY <1>7, <2>4, <2>10
    <3> QED BY <2>4, <3>1, <3>2, <3>3, Zenon DEF JavaOK
  <2> QED BY <2>2, <2>8, <2>9, <2>10, <1>0, <1>5, CallStep
<1> QED BY <1>5, <1>11, <1>12, <1>13, <1>14
\* The end of the commands keeps the invariant.
LEMMA EndOfCommandsOK ==
    ASSUME IInv, EndOfCommands, UNCHANGED caller
    PROVE  IInv'
<1>0. /\ CallOK(call) /\ NetworkOK(network) /\ BufferOK(buffer, appended)
      /\ caller = "java" => JavaOK(call, buffer, appended)
  BY Zenon DEF IInv
<1>1. /\ call.phase = "commands" /\ Index = call.count
      /\ \/ call.at = Len(call.input) /\ call' = [call EXCEPT !.phase = "returned"]
         \/ call.at # Len(call.input) /\ Failed("TrailingBytes", Index, call.at)
      /\ UNCHANGED <<buffer, appended, network>>
  BY Zenon DEF EndOfCommands
<1>2. /\ call.input \in Seq(Nat) /\ call.executed \in Seq(Shapes) /\ CallShape(call)
      /\ call.at \in Nat /\ call.at <= Len(call.input) /\ call.at = 8 + ExtentSum(call.executed)
      /\ call.code = "Success" /\ call.index \in Nat \cup {NoIndex} /\ call.offset \in Nat \cup {NoIndex}
  BY <1>0, <1>1 DEF CallOK
<1>3. ASSUME caller = "java"
      PROVE  Len(call.executed) = Len(appended) /\ call.at = Len(call.input)
  <2>1. /\ JavaOK(call, buffer, appended) /\ call.count = Len(appended) /\ ReadsBuffer(call, buffer, appended)
        /\ \A i \in 1..Len(call.executed) : call.executed[i] = appended[i]
    BY <1>0, <1>1, <1>3 DEF JavaOK
  <2>2. Len(call.executed) = Len(appended)
    BY <1>1, <2>1 DEF Index
  <2>3. appended \in Seq(Shapes) /\ buffer.position = EndOf(appended, Len(appended))
    BY <1>0, BufferParts
  <2>4. Len(call.input) = buffer.position
    BY <1>0, <2>1, JavaInput
  <2>5. PICK n \in Nat : n = Len(appended)
    BY <2>3, LenProperties
  <2>6. EndOf(call.executed, n) = EndOf(appended, n)
    <3>1. n <= Len(call.executed) /\ n <= Len(appended) /\ \A i \in 1..n : call.executed[i] = appended[i]
      BY <2>1, <2>2, <2>5
    <3> QED BY <3>1, <1>2, <2>3, SameEnds
  <2>7. EndOf(call.executed, n) = 8 + ExtentSum(call.executed)
    BY <1>2, <2>2, <2>5, EndOfFacts
  <2> QED BY <1>2, <2>2, <2>3, <2>4, <2>5, <2>6, <2>7
<1>4. CASE call.at = Len(call.input) /\ call' = [call EXCEPT !.phase = "returned"]
  <2>1. PICK c : c = call
    OBVIOUS
  <2>2. PICK d : d = call'
    OBVIOUS
  <2>3. d = [phase |-> "returned", input |-> c.input, at |-> c.at, count |-> c.count,
             executed |-> c.executed, code |-> c.code, index |-> c.index, offset |-> c.offset]
    <3>1. d = [c EXCEPT !.phase = "returned"]
      BY <1>4, <2>1, <2>2
    <3>2. c = [phase |-> c.phase, input |-> c.input, at |-> c.at, count |-> c.count,
               executed |-> c.executed, code |-> c.code, index |-> c.index, offset |-> c.offset]
      BY <1>2, <2>1 DEF CallShape
    <3> QED BY <3>1, <3>2
  <2>4. /\ d.phase = "returned" /\ d.input = c.input /\ d.at = c.at /\ d.count = c.count
        /\ d.executed = c.executed /\ d.code = c.code /\ d.index = c.index /\ d.offset = c.offset
    BY <2>3
  <2>5. CallShape(d)
    BY <2>3, <2>4 DEF CallShape
  <2>6. CallOK(d)
    <3>1. c.code = "Success" /\ c.code \in Codes
      BY <1>2, <2>1 DEF Codes
    <3> QED BY <1>2, <2>1, <2>4, <2>5, <3>1 DEF CallOK
  <2>7. LocatedOK(d)
    BY <1>2, <2>1, <2>4 DEF LocatedOK
  <2>8. ASSUME caller = "java" PROVE JavaOK(d, buffer, appended)
    <3>1. /\ ReadsBuffer(c, buffer, appended) /\ c.code \in {"Success", "Rejected", "InternalPanic"}
          /\ Len(c.executed) <= Len(appended)
          /\ \A i \in 1..Len(c.executed) : c.executed[i] = appended[i]
      BY <1>0, <1>1, <2>1, <2>8 DEF JavaOK
    <3>2. ReadsBuffer(d, buffer, appended)
      BY <2>4, <3>1, Zenon DEF ReadsBuffer
    <3>3. Len(d.executed) = Len(appended)
      BY <1>3, <2>1, <2>4, <2>8
    <3> QED BY <2>4, <3>1, <3>2, <3>3, Zenon DEF JavaOK
  <2> QED BY <2>2, <2>6, <2>7, <2>8, <1>0, <1>1, CallStep
<1>5. CASE call.at # Len(call.input) /\ Failed("TrailingBytes", Index, call.at)
  <2>1. caller # "java"
    BY <1>3, <1>5
  <2>2. "TrailingBytes" \in Codes
    BY DEF Codes
  <2>3. call.at <= call.at
    BY <1>2
  <2>4. CallOK(call') /\ LocatedOK(call')
    BY <1>0, <1>1, <1>2, <1>5, <2>2, <2>3, FailedInCommand
  <2> QED BY <2>1, <2>4, <1>0, <1>1, CallStep
<1> QED BY <1>1, <1>4, <1>5

\* A call that is idle has nothing wrong with it.
LEMMA IdleOK ==
    /\ CallOK(Idle) /\ LocatedOK(Idle)
    /\ \A b, commands : commands \in Seq(Shapes) => JavaOK(Idle, b, commands)
<1>1. PICK d : d = Idle
  OBVIOUS
<1>2. d = [phase |-> "idle", input |-> << >>, at |-> 0, count |-> 0,
           executed |-> << >>, code |-> "Success", index |-> NoIndex, offset |-> NoIndex]
  BY <1>1 DEF Idle
<1>3. /\ d.phase = "idle" /\ d.input = << >> /\ d.at = 0 /\ d.count = 0 /\ d.executed = << >>
      /\ d.code = "Success" /\ d.index = NoIndex /\ d.offset = NoIndex
  BY <1>2
<1>4. CallShape(d)
  BY <1>2, <1>3 DEF CallShape
<1>5. << >> \in Seq(Nat) /\ << >> \in Seq(Shapes) /\ Len(<< >>) = 0 /\ 0 <= Len(<< >>)
  OBVIOUS
<1>6. CallOK(d)
  <2>1. "Success" \in Codes
    BY DEF Codes
  <2> QED BY <1>1, <1>3, <1>4, <1>5, <2>1 DEF CallOK
<1>7. LocatedOK(d)
  BY <1>3 DEF LocatedOK
<1>8. ASSUME NEW b, NEW commands, commands \in Seq(Shapes) PROVE JavaOK(d, b, commands)
  <2>1. Len(d.executed) = 0 /\ Len(commands) \in Nat
    BY <1>3, <1>5, <1>8, LenProperties
  <2>2. Len(d.executed) <= Len(commands) /\ \A i \in 1..Len(d.executed) : d.executed[i] = commands[i]
    BY <2>1
  <2> QED BY <1>3, <2>2, Zenon DEF JavaOK
<1> QED BY <1>1, <1>6, <1>7, <1>8

\* A call that returns, and what Java does then, keep the invariant.
LEMMA ReturnOK ==
    ASSUME IInv, Return, UNCHANGED caller
    PROVE  IInv'
<1>0. /\ NetworkOK(network) /\ BufferOK(buffer, appended) /\ caller \in {"java", "other"}
  BY Zenon DEF IInv
<1>1. /\ call' = Idle /\ UNCHANGED network
      /\ \/ caller = "java" /\ buffer' = Clear(buffer) /\ appended' = << >>
         \/ UNCHANGED <<buffer, appended>>
  BY Zenon DEF Return
<1>2. BufferOK(buffer', appended')
  BY <1>0, <1>1, ClearOK
<1>3. appended' \in Seq(Shapes)
  BY <1>2, BufferParts
<1>4. CallOK(call') /\ LocatedOK(call') /\ JavaOK(call', buffer', appended')
  BY <1>1, <1>3, IdleOK
<1>5. NetworkOK(network') /\ caller' \in {"java", "other"}
  BY <1>0, <1>1
<1> QED BY <1>2, <1>4, <1>5, Zenon DEF IInv
\* A call that begins has read nothing.
LEMMA BeginOK ==
    ASSUME NEW input \in Seq(Nat), Begin(input)
    PROVE  /\ CallOK(call') /\ LocatedOK(call') /\ call'.phase = "header" /\ call'.input = input
           /\ call'.executed = << >> /\ call'.code = "Success"
<1>1. PICK d : d = call'
  OBVIOUS
<1>2. d = [phase |-> "header", input |-> input, at |-> 0, count |-> 0,
           executed |-> << >>, code |-> "Success", index |-> NoIndex, offset |-> NoIndex]
  BY <1>1 DEF Begin, Idle
<1>3. /\ d.phase = "header" /\ d.input = input /\ d.at = 0 /\ d.count = 0 /\ d.executed = << >>
      /\ d.code = "Success" /\ d.index = NoIndex /\ d.offset = NoIndex
  BY <1>2
<1>4. CallShape(d)
  BY <1>2, <1>3 DEF CallShape
<1>5. << >> \in Seq(Shapes) /\ 0 <= Len(input)
  BY LenProperties
<1>6. CallOK(d)
  <2>1. "Success" \in Codes
    BY DEF Codes
  <2> QED BY <1>3, <1>4, <1>5, <2>1 DEF CallOK
<1>7. LocatedOK(d)
  BY <1>3 DEF LocatedOK
<1> QED BY <1>1, <1>3, <1>6, <1>7

\* Java applies its buffer.
LEMMA ApplyJavaBufferOK ==
    ASSUME IInv, ApplyJavaBuffer, UNCHANGED caller
    PROVE  IInv'
<1>0. /\ NetworkOK(network) /\ BufferOK(buffer, appended) /\ caller \in {"java", "other"}
  BY Zenon DEF IInv
<1>1. PICK c : c = [buffer EXCEPT !.memory = Written(@, CountAt - 1, Number(buffer.count))]
  OBVIOUS
<1>2. PICK input : input = SubSeq(c.memory, 1, c.position)
  OBVIOUS
<1>3. buffer' = c /\ Begin(input) /\ UNCHANGED <<appended, network>>
  BY <1>1, <1>2, Zenon DEF ApplyJavaBuffer
<1>4. /\ BufferOK(c, appended) /\ c.memory[7] = Len(appended) /\ c.memory[8] = 0
  BY <1>0, <1>1, CountWritten DEF HasCount
<1>5. input \in Seq(Nat)
  <2>1. /\ c.memory \in Seq(Nat) /\ Len(c.memory) \in Nat
        /\ c.position \in Nat /\ c.position <= Len(c.memory)
    BY <1>4, BufferParts
  <2>2. PICK p \in Nat : p = c.position
    BY <2>1
  <2>3. PICK memory : memory = c.memory
    OBVIOUS
  <2>4. \A i \in 1..p : memory[i] \in Nat
    <3>1. \A i \in 1..p : i \in 1..Len(memory)
      BY <2>1, <2>2, <2>3
    <3> QED BY <3>1, <2>1, <2>3, ElementOfSeq
  <2> QED BY <1>2, <2>2, <2>3, <2>4, FirstUnits
<1>6. /\ CallOK(call') /\ LocatedOK(call') /\ call'.phase = "header" /\ call'.input = input
      /\ call'.executed = << >> /\ call'.code = "Success"
  BY <1>3, <1>5, BeginOK
<1>7. JavaOK(call', c, appended)
  <2>1. PICK d : d = call'
    OBVIOUS
  <2>2. ReadsBuffer(d, c, appended)
    BY <1>2, <1>4, <1>6, <2>1 DEF ReadsBuffer
  <2>3. Len(d.executed) <= Len(appended) /\ \A i \in 1..Len(d.executed) : d.executed[i] = appended[i]
    <3>1. Len(d.executed) = 0 /\ Len(appended) \in Nat
      BY <1>0, <1>6, <2>1, BufferParts
    <3> QED BY <3>1
  <2> QED BY <1>6, <2>1, <2>2, <2>3 DEF JavaOK
<1>8. BufferOK(buffer', appended')
  BY <1>3, <1>4
<1>9. JavaOK(call', buffer', appended')
  BY <1>3, <1>7
<1>10. NetworkOK(network') /\ caller' \in {"java", "other"}
  BY <1>0, <1>3
<1> QED BY <1>6, <1>8, <1>9, <1>10, Zenon DEF IInv

\* What another encoder writes is a sequence of units.
LEMMA EncodedIsUnits ==
    ASSUME NEW n \in Nat, NEW commands \in [1..n -> OtherCommands]
    PROVE  Encoded(commands) \in Seq(Nat)
<1>1. PICK seqs : seqs = [i \in DOMAIN commands |-> EncodeCommand(commands[i])]
  OBVIOUS
<1>2. DOMAIN commands = 1..n
  OBVIOUS
<1>3. ASSUME NEW i \in 1..n PROVE seqs[i] \in Seq(Nat)
  <2>1. commands[i] \in Commands
    BY DEF Commands
  <2>2. commands[i] \in Shapes
    BY <2>1, CommandsFacts
  <2>3. IsEncoded(commands[i], EncodeCommand(commands[i]))
    BY <2>2, EncodeFacts
  <2> QED BY <1>1, <1>2, <2>3 DEF IsEncoded
<1>4. seqs \in Seq(Seq(Nat)) /\ Len(seqs) = n
  <2>1. seqs \in [1..n -> Seq(Nat)]
    BY <1>1, <1>2, <1>3
  <2>2. seqs \in Seq(Seq(Nat))
    BY <2>1
  <2>3. DOMAIN seqs = 1..n
    BY <2>1
  <2> QED BY <2>2, <2>3, LenProperties
<1>5. FlattenSeq(seqs) \in Seq(Nat)
  <2>1. CASE n = 0
    <3>1. FlattenSeq(seqs) = seqs /\ seqs = << >>
      BY <1>4, <2>1, EmptySeq DEF FlattenSeq
    <3> QED BY <3>1
  <2>2. CASE n # 0
    <3>1. n \in Nat \ {0} /\ n \in 1..n
      BY <2>2
    <3>2. PICK f : /\ FlattenSeq(seqs) = f[n]
                   /\ \A i \in 1..n : f[i] \in Seq(Nat)
      BY <1>4, <3>1, FlattenIsLast
    <3> QED BY <3>1, <3>2
  <2> QED BY <2>1, <2>2
<1>6. Header(Len(commands)) \in Seq(Nat)
  <2>1. Len(commands) = n
    BY <1>2, LenProperties
  <2> QED BY <2>1, HeaderFacts
<1>7. Encoded(commands) = Header(Len(commands)) \o FlattenSeq(seqs)
  BY <1>1, Zenon DEF Encoded
<1> QED BY <1>5, <1>6, <1>7, ConcatProperties
\* An encoder that is wrong in one place writes units nevertheless.
LEMMA EditsAreUnits ==
    ASSUME NEW input \in Seq(Nat), NEW e \in Edits(input)
    PROVE  e \in Seq(Nat)
<1>1. PICK size \in Nat : size = Len(input)
  BY LenProperties
<1>2. \A i \in 1..size : input[i] \in Nat
  BY <1>1, ElementOfSeq
<1>3. \/ e = input
      \/ e = input \o <<0>>
      \/ \E n \in 0..(size - 1) : e = SubSeq(input, 1, n)
      \/ \E i \in DOMAIN input, unit \in {0, 10} : e = [input EXCEPT ![i] = unit]
  BY <1>1 DEF Edits
<1>4. CASE e = input \o <<0>>
  <2>1. <<0>> \in Seq(Nat)
    OBVIOUS
  <2> QED BY <1>4, <2>1, ConcatProperties
<1>5. CASE \E n \in 0..(size - 1) : e = SubSeq(input, 1, n)
  <2>1. PICK n \in 0..(size - 1) : e = SubSeq(input, 1, n)
    BY <1>5
  <2>2. n \in Nat /\ \A i \in 1..n : input[i] \in Nat
    BY <1>2
  <2> QED BY <2>1, <2>2, FirstUnits
<1>6. CASE \E i \in DOMAIN input, unit \in {0, 10} : e = [input EXCEPT ![i] = unit]
  <2>1. PICK i \in DOMAIN input, unit \in {0, 10} : e = [input EXCEPT ![i] = unit]
    BY <1>6
  <2>2. i \in 1..Len(input) /\ unit \in Nat
    BY LenProperties
  <2> QED BY <2>1, <2>2, ExceptSeq
<1> QED BY <1>3, <1>4, <1>5, <1>6

\* Another client applies a buffer of its own.
LEMMA ApplyOtherBufferOK ==
    ASSUME IInv, NEW n \in 0..MaxCommands, NEW commands \in [1..n -> OtherCommands],
           ApplyOtherBuffer(commands), UNCHANGED caller
    PROVE  IInv'
<1>0. /\ NetworkOK(network) /\ BufferOK(buffer, appended) /\ caller \in {"java", "other"}
  BY Zenon DEF IInv
<1>1. PICK input \in Edits(Encoded(commands)) : Begin(input)
  BY Zenon DEF ApplyOtherBuffer
<1>2. caller = "other" /\ UNCHANGED <<buffer, appended, network>>
  BY Zenon DEF ApplyOtherBuffer
<1>3. input \in Seq(Nat)
  <2>1. n \in Nat
    OBVIOUS
  <2>2. Encoded(commands) \in Seq(Nat)
    BY <2>1, EncodedIsUnits
  <2> QED BY <2>2, EditsAreUnits
<1>4. CallOK(call') /\ LocatedOK(call')
  BY <1>1, <1>3, BeginOK
<1>5. caller # "java"
  BY <1>2
<1>6. NetworkOK(network')
  BY <1>0, <1>2
<1> QED BY <1>2, <1>4, <1>5, <1>6, CallStep

\* Java appends a command.
LEMMA AppendCommandOK ==
    ASSUME IInv, NEW command \in JavaCommands, AppendCommand(command), UNCHANGED caller
    PROVE  IInv'
<1>0. /\ CallOK(call) /\ NetworkOK(network) /\ BufferOK(buffer, appended) /\ caller \in {"java", "other"}
  BY Zenon DEF IInv
<1>1. PICK units : units = EncodeCommand(command)
  OBVIOUS
<1>2. PICK grown : grown = EnsureCapacity(buffer, Len(units))
  OBVIOUS
<1>3. PICK c : c = [grown EXCEPT !.memory = Written(@, buffer.position, units),
                                 !.position = @ + Len(units), !.count = @ + 1]
  OBVIOUS
<1>4. /\ call.phase = "idle" /\ Len(appended) < MaxCommands
      /\ buffer.position + Len(units) <= MaxCapacity
      /\ buffer' = c /\ appended' = Append(appended, command) /\ UNCHANGED <<network, call>>
  BY <1>1, <1>2, <1>3, Zenon DEF AppendCommand
<1>5. BufferOK(c, Append(appended, command))
  BY <1>0, <1>1, <1>2, <1>3, <1>4, AppendOK
<1>6. BufferOK(buffer', appended')
  BY <1>4, <1>5
<1>7. call' = Idle
  BY <1>0, <1>4 DEF CallOK
<1>8. CallOK(call') /\ LocatedOK(call') /\ JavaOK(call', buffer', appended')
  <2>1. appended' \in Seq(Shapes)
    BY <1>6, BufferParts
  <2> QED BY <1>7, <2>1, IdleOK
<1>9. NetworkOK(network') /\ caller' \in {"java", "other"}
  BY <1>0, <1>4
<1> QED BY <1>6, <1>8, <1>9, Zenon DEF IInv

-----------------------------------------------------------------------------
(* The theorems.                                                           *)

\* The invariant holds at the start.
LEMMA InitIInv == Init => IInv
<1> SUFFICES ASSUME Init PROVE IInv
  OBVIOUS
<1>1. BufferOK(buffer, appended)
  BY InitBufferOK DEF Init
<1>2. NetworkOK(network)
  <2>1. PICK n : n = EmptyNetwork
    OBVIOUS
  <2>2. n.wires = {} /\ DOMAIN n.devices = {}
        /\ n = [wires |-> n.wires, connections |-> n.connections,
                devices |-> n.devices, attached |-> n.attached]
    BY <2>1 DEF EmptyNetwork
  <2>3. NetworkOK(n)
    BY <2>2 DEF NetworkOK
  <2> QED BY <2>1, <2>3 DEF Init
<1>3. CallOK(call) /\ LocatedOK(call) /\ JavaOK(call, buffer, appended)
  <2>1. appended \in Seq(Shapes)
    BY <1>1, BufferParts
  <2> QED BY <2>1, IdleOK DEF Init
<1>4. caller \in {"java", "other"}
  BY DEF Init
<1> QED BY <1>1, <1>2, <1>3, <1>4 DEF IInv

\* Every step keeps the invariant.
LEMMA NextIInv == IInv /\ [Next /\ UNCHANGED caller]_vars => IInv'
<1> SUFFICES ASSUME IInv, [Next /\ UNCHANGED caller]_vars PROVE IInv'
  OBVIOUS
<1>1. CASE Next /\ UNCHANGED caller
  <2>1. CASE \E command \in JavaCommands : AppendCommand(command)
    BY <1>1, <2>1, AppendCommandOK
  <2>2. CASE ApplyJavaBuffer
    BY <1>1, <2>2, ApplyJavaBufferOK
  <2>3. CASE \E n \in 0..MaxCommands : \E commands \in [1..n -> OtherCommands] : ApplyOtherBuffer(commands)
    BY <1>1, <2>3, ApplyOtherBufferOK
  <2>4. CASE ReadHeader
    BY <1>1, <2>4, ReadHeaderOK
  <2>5. CASE ReadCommand
    BY <1>1, <2>5, ReadCommandOK
  <2>6. CASE EndOfCommands
    BY <1>1, <2>6, EndOfCommandsOK
  <2>7. CASE Return
    BY <1>1, <2>7, ReturnOK
  <2> QED BY <1>1, <2>1, <2>2, <2>3, <2>4, <2>5, <2>6, <2>7 DEF Next, Step
<1>2. CASE UNCHANGED vars
  BY <1>2, Zenon DEF vars, IInv
<1> QED BY <1>1, <1>2

\* A buffer of Java holds the commands that were appended to it behind each
\* other, and a native world is where those end that it executed.
THEOREM Invariance == Spec => []IInv
BY InitIInv, NextIInv, PTL DEF Spec

\* The state has its type.
LEMMA IInvTypeOK == IInv => TypeOK
<1> SUFFICES ASSUME IInv PROVE TypeOK
  OBVIOUS
<1>1. PICK b : b = buffer
  OBVIOUS
<1>2. PICK commands : commands = appended
  OBVIOUS
<1>3. BufferOK(b, commands)
  BY <1>1, <1>2, Zenon DEF IInv
<1>4. /\ MaxCommands \in Nat /\ commands \in Seq(Commands)
      /\ Len(commands) \in Nat /\ Len(commands) <= MaxCommands /\ b.count = Len(commands)
      /\ b.memory \in Seq(Nat) /\ Len(b.memory) \in Nat
      /\ b.position \in Nat /\ 8 <= b.position /\ b.position <= Len(b.memory)
  BY <1>3, BufferParts
<1>5. Len(b.memory) \in InitialCapacity..MaxCapacity
  BY <1>3 DEF BufferOK
<1>6. Range(b.memory) \subseteq Unit
  <2>1. PICK memory \in Seq(Nat) : memory = b.memory
    BY <1>4
  <2>2. \A i \in DOMAIN memory : memory[i] \in Nat
    BY LenProperties, ElementOfSeq
  <2>3. Range(memory) \subseteq Nat
    BY <2>2 DEF Range
  <2> QED BY <2>1, <2>3 DEF Unit
<1>7. b.position \in HeaderLength..Len(b.memory)
  BY <1>4 DEF HeaderLength
<1>8. b.count \in 0..MaxCommands
  BY <1>4
<1>9. caller \in {"java", "other"} /\ NetworkOK(network) /\ CallOK(call)
  BY Zenon DEF IInv
<1>10. network.wires \subseteq Wires /\ DOMAIN network.devices \subseteq Devices
  BY <1>9, Zenon DEF NetworkOK
<1>11. /\ call.phase \in {"idle", "header", "commands", "returned"}
       /\ call.at \in 0..Len(call.input)
       /\ call.code \in Codes
       /\ call.index \in Nat \cup {NoIndex} /\ call.offset \in Nat \cup {NoIndex}
  <2>1. /\ call.phase \in {"idle", "header", "commands", "returned"}
        /\ call.input \in Seq(Nat) /\ call.at \in Nat /\ call.at <= Len(call.input)
        /\ call.code \in Codes
        /\ call.index \in Nat \cup {NoIndex} /\ call.offset \in Nat \cup {NoIndex}
    BY <1>9, Zenon DEF CallOK
  <2>2. call.at \in 0..Len(call.input)
    BY <2>1, LenProperties
  <2> QED BY <2>1, <2>2
<1> QED BY <1>1, <1>2, <1>4, <1>5, <1>6, <1>7, <1>8, <1>9, <1>10, <1>11, Zenon DEF TypeOK

\* The state has its type, in every behaviour.
THEOREM TypeCorrect == Spec => []TypeOK
BY Invariance, IInvTypeOK, PTL

\* Commands of Java arrive as they were appended.
LEMMA IInvCommandsArrive == IInv => JavaCommandsArrive /\ JavaBuffersAreWellFormed
<1> SUFFICES ASSUME IInv, caller = "java"
             PROVE  /\ IsPrefix(call.executed, appended)
                    /\ Returned /\ call.code = "Success" => call.executed = appended
                    /\ call.code \in {"Success", "Rejected", "InternalPanic"}
  BY DEF JavaCommandsArrive, JavaBuffersAreWellFormed
<1>1. JavaOK(call, buffer, appended) /\ CallOK(call) /\ BufferOK(buffer, appended)
  BY Zenon DEF IInv
<1>2. PICK s : s = call.executed
  OBVIOUS
<1>3. PICK t : t = appended
  OBVIOUS
<1>4. s \in Seq(Shapes) /\ t \in Seq(Shapes)
  BY <1>1, <1>2, <1>3, BufferParts DEF CallOK
<1>5. /\ Len(s) <= Len(t) /\ \A i \in 1..Len(s) : s[i] = t[i]
      /\ call.code \in {"Success", "Rejected", "InternalPanic"}
      /\ call.phase = "returned" /\ call.code = "Success" => Len(s) = Len(t)
  BY <1>1, <1>2, <1>3 DEF JavaOK
<1>6. IsPrefix(s, t)
  <2>1. PICK n : n = Len(s)
    OBVIOUS
  <2>2. n \in Nat /\ Len(t) \in Nat /\ n \in 0..n /\ n \in 0..Len(t)
    BY <1>4, <1>5, <2>1, LenProperties
  <2>3. PICK p : p = SubSeq(s, 1, n)
    OBVIOUS
  <2>4. PICK q : q = SubSeq(t, 1, n)
    OBVIOUS
  <2>5. p \in Seq(Shapes) /\ Len(p) = n /\ \A i \in 1..n : p[i] = s[i]
    BY <1>4, <2>1, <2>2, <2>3, PrefixFacts
  <2>6. q \in Seq(Shapes) /\ Len(q) = n /\ \A i \in 1..n : q[i] = t[i]
    BY <1>4, <2>2, <2>4, PrefixFacts
  <2>7. p = q
    <3>1. \A i \in 1..Len(p) : p[i] = q[i]
      BY <1>5, <2>1, <2>5, <2>6
    <3> QED BY <2>5, <2>6, <3>1, SeqEqual
  <2> QED BY <1>5, <2>1, <2>3, <2>4, <2>7 DEF IsPrefix
<1>7. ASSUME Returned, call.code = "Success" PROVE s = t
  <2>1. Len(s) = Len(t)
    BY <1>5, <1>7 DEF Returned
  <2> QED BY <1>4, <1>5, <2>1, SeqEqual
<1> QED BY <1>2, <1>3, <1>5, <1>6, <1>7

\* What Java appended since it cleared the buffer is what the native world
\* executes, in order and field by field, whatever the commands and however
\* often the buffer grew (WorldCommandBuffer, hynergy_world_apply_commands).
THEOREM CommandsArrive == Spec => []JavaBuffersArrive
<1>1. IInv => JavaBuffersArrive
  BY IInvTypeOK, IInvCommandsArrive DEF JavaBuffersArrive
<1> QED BY <1>1, Invariance, PTL

\* An error of any client names the command that failed and a place in it.
THEOREM ErrorsLocated == Spec => []ErrorsAreLocated
<1>1. IInv => ErrorsAreLocated
  <2> SUFFICES ASSUME IInv PROVE ErrorsAreLocated
    OBVIOUS
  <2>1. LocatedOK(call)
    BY Zenon DEF IInv
  <2>2. PICK start : start = HeaderLength + FoldSeq(LAMBDA c, sum : Extent(c) + sum, 0, call.executed)
    OBVIOUS
  <2>3. start = 8 + ExtentSum(call.executed)
    BY <2>2, Zenon DEF ExtentSum, HeaderLength
  <2>4. Returned /\ call.code \notin {"Success", "InternalPanic"} =>
            IF call.index = NoIndex
            THEN call.executed = << >> /\ call.offset < HeaderLength
            ELSE /\ call.index = Len(call.executed)
                 /\ call.offset \in start..Len(call.input)
                 /\ call.code \in {"Rejected", "UnknownCommand", "InvalidCommandLength", "TrailingBytes"}
                        => call.offset = start
    BY <2>1, <2>3, Zenon DEF LocatedOK, Returned, HeaderLength
  <2> QED BY <2>2, <2>4, Zenon DEF ErrorsAreLocated
<1> QED BY <1>1, Invariance, PTL
=============================================================================
