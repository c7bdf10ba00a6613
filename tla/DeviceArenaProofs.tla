-------------------------- MODULE DeviceArenaProofs --------------------------
(***************************************************************************)
(* Rows and chunks move, and everything that is stored by row moves with   *)
(* them, for every number of devices, chunks and rows.  Devices,           *)
(* parameters, states and islands are grids of the same shape; an insert   *)
(* and a removal do the same to each of them.                              *)
(***************************************************************************)
EXTENDS DeviceArena, WellFoundedInduction, TLAPS

\* The number of elements, by a name of its own.
Size(s) == Len(s)

Place == [chunk : Nat, row : Nat]

IsGrid(g, S) == g \in Seq(Seq(S)) /\ \A c \in 1..Size(g) : Size(g[c]) # 0
Same(g, h) == Size(g) = Size(h) /\ \A c \in 1..Size(g) : Size(g[c]) = Size(h[c])

Cell(g, m) == m \in Place /\ m.chunk \in 1..Size(g) /\ m.row \in 1..Size(g[m.chunk])
At(g, m) == g[m.chunk][m.row]

\* Where the next row can go: at the end of a chunk, or in a chunk of its own.
Free(g, l) ==
    /\ l \in Place
    /\ \/ l.chunk = Size(g) + 1 /\ l.row = 1
       \/ l.chunk \in 1..Size(g) /\ l.row = Size(g[l.chunk]) + 1

GridInsert(g, l, x) ==
    IF l.row = 1 THEN Append(g, <<x>>) ELSE [g EXCEPT ![l.chunk] = Append(@, x)]
GridRemove(g, l) ==
    IF Size(g[l.chunk]) = 1 THEN SwapRemove(g, l.chunk)
    ELSE [g EXCEPT ![l.chunk] = SwapRemove(@, l.row)]

\* Where a row is after the row of l was removed.
To(g, l, m) ==
    IF Size(g[l.chunk]) = 1
    THEN IF m.chunk = Size(g) THEN Locator(l.chunk, m.row) ELSE m
    ELSE IF m.chunk = l.chunk /\ m.row = Size(g[l.chunk]) THEN l ELSE m

\* Where a row came from.
From(g, l, n) ==
    IF Size(g[l.chunk]) = 1
    THEN IF n.chunk = l.chunk THEN Locator(Size(g), n.row) ELSE n
    ELSE IF n = l THEN Locator(l.chunk, Size(g[l.chunk])) ELSE n

-----------------------------------------------------------------------------
(* Lemmas about sequences and grids.                                       *)

\* A set of naturals that is not empty has a least element.
LEMMA NatMin == ASSUME NEW T \in SUBSET Nat, T # {} PROVE \E x \in T : \A y \in T : x <= y
<1>1. IsWellFoundedOn(OpToRel(<,Nat), Nat)
  BY NatLessThanWellFounded
<1>2. PICK R : R = {ss \in Nat \X Nat : ss[1] < ss[2]}
  OBVIOUS
<1>3. OpToRel(<,Nat) = {ss \in Nat \X Nat : ss[1] < ss[2]}
  BY Zenon DEF OpToRel
<1>4. IsWellFoundedOn(R, Nat)
  BY <1>1, <1>2, <1>3, Zenon
<1>5. PICK x \in T : \A y \in T : ~(<<y, x>> \in R)
  BY <1>4, WFMin, Zenon
<1>6. \A y \in T : <<y, x>> \in Nat \X Nat /\ (<<y, x>> \in R <=> y < x)
  BY <1>2
<1>7. ASSUME NEW y \in T PROVE x <= y
  <2>1. x \in Nat /\ y \in Nat /\ ~(y < x)
    BY <1>5, <1>6
  <2> QED BY <2>1
<1> QED BY <1>7

\* A place is its chunk and its row.
LEMMA Places ==
    /\ \A m \in Place : m = [chunk |-> m.chunk, row |-> m.row] /\ m.chunk \in Nat /\ m.row \in Nat
    /\ \A m, n \in Place : m = n <=> m.chunk = n.chunk /\ m.row = n.row
<1>1. \A m \in Place : m = [chunk |-> m.chunk, row |-> m.row] /\ m.chunk \in Nat /\ m.row \in Nat
  BY DEF Place
<1> QED BY <1>1

\* What a sequence is.
LEMMA SeqFacts ==
    ASSUME NEW S, NEW s \in Seq(S)
    PROVE  /\ Size(s) \in Nat /\ DOMAIN s = 1..Size(s) /\ \A i \in 1..Size(s) : s[i] \in S
           /\ s \in [1..Size(s) -> S]
BY DEF Size

\* A function on the first numbers is a sequence.
LEMMA IsSeq ==
    ASSUME NEW S, NEW n \in Nat, NEW s, s \in [1..n -> S]
    PROVE  s \in Seq(S) /\ Size(s) = n
BY DEF Size

\* How a sequence changes.
Appended(s, x, t) ==
    Size(t) = Size(s) + 1 /\ t[Size(s) + 1] = x /\ \A i \in 1..Size(s) : t[i] = s[i]
Replaced(s, i, x, t) ==
    Size(t) = Size(s) /\ t[i] = x /\ \A j \in 1..Size(s) : j # i => t[j] = s[j]
SwapRemoved(s, i, t) ==
    /\ Size(t) = Size(s) - 1
    /\ \A j \in 1..(Size(s) - 1) : t[j] = IF j = i THEN s[Size(s)] ELSE s[j]

\* A sequence and one more element.
LEMMA AppendFacts ==
    ASSUME NEW S, NEW s \in Seq(S), NEW x \in S, NEW t, t = Append(s, x)
    PROVE  t \in Seq(S) /\ Appended(s, x, t)
BY DEF Size, Appended

\* A sequence with another element.
LEMMA ExceptFacts ==
    ASSUME NEW S, NEW s \in Seq(S), NEW i \in 1..Size(s), NEW x \in S, NEW t,
           t = [s EXCEPT ![i] = x]
    PROVE  t \in Seq(S) /\ Replaced(s, i, x, t)
<1>1. Size(s) \in Nat /\ s \in [1..Size(s) -> S]
  BY SeqFacts, Zenon
<1>2. t \in [1..Size(s) -> S] /\ t[i] = x /\ \A j \in 1..Size(s) : j # i => t[j] = s[j]
  BY <1>1
<1>3. t \in Seq(S) /\ Size(t) = Size(s)
  BY <1>1, <1>2, IsSeq, Zenon
<1> QED BY <1>2, <1>3 DEF Replaced

\* A sequence without an element, the last one in its place.
LEMMA SwapRemoveFacts ==
    ASSUME NEW S, NEW s \in Seq(S), NEW i \in 1..Size(s), NEW t, t = SwapRemove(s, i)
    PROVE  t \in Seq(S) /\ SwapRemoved(s, i, t)
<1> PICK n : n = Size(s)
  OBVIOUS
<1>1. n \in Nat /\ i \in 1..n /\ \A j \in 1..n : s[j] \in S
  BY SeqFacts
<1>2. t = [j \in 1..(n - 1) |-> IF j = i THEN s[n] ELSE s[j]]
  BY DEF SwapRemove, Size
<1>3. n - 1 \in Nat /\ n \in 1..n /\ \A j \in 1..(n - 1) : j \in 1..n
  BY <1>1
<1>4. t \in [1..(n - 1) -> S]
  BY <1>1, <1>2, <1>3
<1>5. t \in Seq(S) /\ Size(t) = n - 1
  BY <1>3, <1>4, IsSeq, Zenon
<1> QED BY <1>2, <1>5 DEF SwapRemoved

\* A sequence of rows that are there.
LEMMA GridFacts ==
    ASSUME NEW S, NEW g
    PROVE  IsGrid(g, S) <=>
            /\ g \in Seq(Seq(S))
            /\ \A c \in 1..Size(g) : /\ Size(g[c]) \in Nat \ {0} /\ g[c] \in Seq(S)
                                     /\ \A r \in 1..Size(g[c]) : g[c][r] \in S
<1>1. ASSUME g \in Seq(Seq(S)), NEW c \in 1..Size(g)
      PROVE  g[c] \in Seq(S) /\ Size(g[c]) \in Nat /\ \A r \in 1..Size(g[c]) : g[c][r] \in S
  <2>1. g[c] \in Seq(S)
    BY <1>1, SeqFacts, Zenon
  <2> QED BY <2>1, SeqFacts, Zenon
<1> QED BY <1>1 DEF IsGrid

\* The sizes of a grid.
LEMMA GridSizes ==
    ASSUME NEW S, NEW g, IsGrid(g, S)
    PROVE  Size(g) \in Nat /\ \A c \in 1..Size(g) : Size(g[c]) \in Nat \ {0}
<1>1. g \in Seq(Seq(S))
  BY GridFacts, Zenon
<1>2. Size(g) \in Nat
  BY <1>1, SeqFacts, Zenon
<1> QED BY <1>2, GridFacts, Zenon

\* What an insert and a removal do.
SizesInserted(g, l, h) ==
    /\ Size(h) = (IF l.row = 1 THEN Size(g) + 1 ELSE Size(g))
    /\ \A c \in 1..Size(h) : Size(h[c]) = IF c = l.chunk THEN l.row ELSE Size(g[c])
CellsInserted(g, l, x, h) ==
    /\ Cell(h, l) /\ At(h, l) = x /\ ~Cell(g, l)
    /\ \A m \in Place : Cell(h, m) <=> Cell(g, m) \/ m = l
    /\ \A m \in Place : Cell(g, m) => At(h, m) = At(g, m)
SizesRemoved(g, l, h) ==
    /\ Size(h) = (IF Size(g[l.chunk]) = 1 THEN Size(g) - 1 ELSE Size(g))
    /\ \A c \in 1..Size(h) : Size(h[c]) =
            IF Size(g[l.chunk]) = 1
            THEN IF c = l.chunk THEN Size(g[Size(g)]) ELSE Size(g[c])
            ELSE IF c = l.chunk THEN Size(g[c]) - 1 ELSE Size(g[c])
CellsRemoved(g, l, h) ==
    /\ \A m \in Place : Cell(g, m) /\ m # l =>
            /\ To(g, l, m) \in Place /\ Cell(h, To(g, l, m))
            /\ At(h, To(g, l, m)) = At(g, m)
    /\ \A n \in Place : Cell(h, n) =>
            /\ From(g, l, n) \in Place /\ Cell(g, From(g, l, n)) /\ From(g, l, n) # l
            /\ To(g, l, From(g, l, n)) = n

\* A row that is added is the only change.
LEMMA GridInsertFacts ==
    ASSUME NEW S, NEW g, IsGrid(g, S), NEW x \in S, NEW l, Free(g, l),
           NEW h, h = GridInsert(g, l, x)
    PROVE  IsGrid(h, S) /\ SizesInserted(g, l, h) /\ CellsInserted(g, l, x, h)
<1>0. g \in Seq(Seq(S)) /\ \A c \in 1..Size(g) : g[c] \in Seq(S)
  BY GridFacts, Zenon
<1>1. /\ Size(g) \in Nat /\ \A c \in 1..Size(g) : Size(g[c]) \in Nat \ {0}
      /\ l \in Place /\ l.chunk \in Nat /\ l.row \in Nat
  BY GridSizes, Places DEF Free
<1>2. CASE l.chunk = Size(g) + 1 /\ l.row = 1
  <2>1. PICK one : one = <<x>>
    OBVIOUS
  <2>2. one \in Seq(S) /\ one[1] = x /\ Size(one) = 1
    BY <2>1 DEF Size
  <2>3. h = Append(g, one)
    BY <1>2, <2>1 DEF GridInsert
  <2>4. h \in Seq(Seq(S)) /\ Appended(g, one, h)
    BY <1>0, <2>2, <2>3, AppendFacts, Zenon
  <2>5. h[Size(g) + 1] = one /\ \A c \in 1..Size(g) : h[c] = g[c]
    BY <2>4, Zenon DEF Appended
  <2>6. Size(one) = 1 /\ one[1] = x
    BY <2>2
  <2>7. Size(h) = Size(g) + 1
    BY <2>4, Zenon DEF Appended
  <2>8. \A c \in 1..Size(h) : c = l.chunk \/ c \in 1..Size(g)
    BY <1>1, <1>2, <2>7
  <2>9. \A c \in 1..Size(h) : Size(h[c]) = (IF c = l.chunk THEN l.row ELSE Size(g[c]))
    BY <1>1, <1>2, <2>5, <2>6, <2>8
  <2>10. IsGrid(h, S)
    <3>1. \A c \in 1..Size(h) : Size(h[c]) # 0
      BY <1>1, <1>2, <2>8, <2>9
    <3> QED BY <2>4, <3>1 DEF IsGrid
  <2>11. Cell(h, l) /\ At(h, l) = x /\ ~Cell(g, l)
    BY <1>1, <1>2, <2>5, <2>6, <2>7 DEF Cell, At
  <2>12. ASSUME NEW m \in Place
         PROVE  /\ Cell(h, m) <=> Cell(g, m) \/ m = l
                /\ Cell(g, m) => At(h, m) = At(g, m)
    <3>1. m.chunk \in Nat /\ m.row \in Nat /\ (m = l <=> m.chunk = l.chunk /\ m.row = l.row)
      BY <1>1, Places
    <3>2. CASE m.chunk = l.chunk
      <4>1. Size(h[m.chunk]) = 1 /\ m.chunk \in 1..Size(h) /\ m.chunk \notin 1..Size(g)
        BY <1>1, <1>2, <2>5, <2>6, <2>7, <3>2
      <4> QED BY <1>2, <3>1, <3>2, <4>1 DEF Cell
    <3>3. CASE m.chunk # l.chunk
      <4>1. m.chunk \in 1..Size(h) <=> m.chunk \in 1..Size(g)
        BY <1>1, <1>2, <2>7, <3>1, <3>3
      <4> QED BY <2>5, <3>1, <3>3, <4>1 DEF Cell, At
    <3> QED BY <3>2, <3>3
  <2> QED BY <1>2, <2>7, <2>9, <2>10, <2>11, <2>12 DEF SizesInserted, CellsInserted
<1>3. CASE l.chunk \in 1..Size(g) /\ l.row = Size(g[l.chunk]) + 1
  <2>1. PICK old : old = g[l.chunk]
    OBVIOUS
  <2>2. PICK new : new = Append(old, x)
    OBVIOUS
  <2>3. old \in Seq(S)
    BY <1>0, <1>3, <2>1
  <2>4. Size(old) \in Nat \ {0} /\ l.row = Size(old) + 1 /\ l.row # 1
    BY <1>1, <1>3, <2>1
  <2>5. new \in Seq(S) /\ Appended(old, x, new)
    BY <2>2, <2>3, AppendFacts, Zenon
  <2>6. /\ Size(new) = Size(old) + 1 /\ new[Size(old) + 1] = x
        /\ \A r \in 1..Size(old) : new[r] = old[r]
    BY <2>5, Zenon DEF Appended
  <2>7. h = [g EXCEPT ![l.chunk] = new]
    BY <2>1, <2>2, <2>4 DEF GridInsert
  <2>8. h \in Seq(Seq(S)) /\ Replaced(g, l.chunk, new, h)
    BY <1>0, <1>3, <2>5, <2>7, ExceptFacts, Zenon
  <2>9. /\ Size(h) = Size(g) /\ h[l.chunk] = new
        /\ \A c \in 1..Size(g) : c # l.chunk => h[c] = g[c]
    BY <2>8, Zenon DEF Replaced
  <2>10. \A c \in 1..Size(h) : Size(h[c]) = (IF c = l.chunk THEN l.row ELSE Size(g[c]))
    BY <2>4, <2>6, <2>9
  <2>11. IsGrid(h, S)
    <3>1. \A c \in 1..Size(h) : Size(h[c]) # 0
      BY <1>1, <2>4, <2>9, <2>10
    <3> QED BY <2>8, <3>1 DEF IsGrid
  <2>12. Cell(h, l) /\ At(h, l) = x /\ ~Cell(g, l)
    BY <1>1, <1>3, <2>1, <2>4, <2>6, <2>9 DEF Cell, At
  <2>13. ASSUME NEW m \in Place
         PROVE  /\ Cell(h, m) <=> Cell(g, m) \/ m = l
                /\ Cell(g, m) => At(h, m) = At(g, m)
    <3>0. m.chunk \in Nat /\ m.row \in Nat /\ (m = l <=> m.chunk = l.chunk /\ m.row = l.row)
      BY <1>1, Places
    <3>1. CASE m.chunk = l.chunk
      <4>1. m.row \in 1..(Size(old) + 1) <=> m.row \in 1..Size(old) \/ m.row = l.row
        BY <2>4, <3>0
      <4>2. h[m.chunk] = new /\ g[m.chunk] = old /\ m.chunk \in 1..Size(g) /\ m.chunk \in 1..Size(h)
        BY <1>3, <2>1, <2>9, <3>1
      <4> QED BY <2>6, <3>0, <3>1, <4>1, <4>2 DEF Cell, At
    <3>2. CASE m.chunk # l.chunk
      BY <2>9, <3>0, <3>2 DEF Cell, At
    <3> QED BY <3>1, <3>2
  <2> QED BY <2>4, <2>9, <2>10, <2>11, <2>12, <2>13 DEF SizesInserted, CellsInserted
<1> QED BY <1>2, <1>3 DEF Free

\* Every row but the removed one is where To says, and there are no others.
LEMMA GridRemoveFacts ==
    ASSUME NEW S, NEW g, IsGrid(g, S), NEW l, Cell(g, l), NEW h, h = GridRemove(g, l)
    PROVE  IsGrid(h, S) /\ SizesRemoved(g, l, h) /\ CellsRemoved(g, l, h)
<1>0. g \in Seq(Seq(S)) /\ \A c \in 1..Size(g) : g[c] \in Seq(S)
  BY GridFacts, Zenon
<1>1. /\ Size(g) \in Nat /\ \A c \in 1..Size(g) : Size(g[c]) \in Nat \ {0}
      /\ l \in Place /\ l.chunk \in 1..Size(g) /\ l.row \in 1..Size(g[l.chunk])
      /\ l.chunk \in Nat /\ l.row \in Nat
  BY GridSizes, Places DEF Cell
<1>2. CASE Size(g[l.chunk]) = 1
  <2>1. h = SwapRemove(g, l.chunk)
    BY <1>2 DEF GridRemove
  <2>2. h \in Seq(Seq(S)) /\ SwapRemoved(g, l.chunk, h)
    BY <1>0, <1>1, <2>1, SwapRemoveFacts, Zenon
  <2>3. /\ Size(h) = Size(g) - 1
        /\ \A c \in 1..(Size(g) - 1) : h[c] = IF c = l.chunk THEN g[Size(g)] ELSE g[c]
    BY <2>2, Zenon DEF SwapRemoved
  <2>4. /\ Size(g) \in 1..Size(g) /\ l.row = 1
        /\ \A c \in 1..(Size(g) - 1) : c \in 1..Size(g) /\ c # Size(g)
    BY <1>1, <1>2
  <2>5. \A c \in 1..Size(h) : Size(h[c]) = IF c = l.chunk THEN Size(g[Size(g)]) ELSE Size(g[c])
    BY <2>3
  <2>6. IsGrid(h, S)
    <3>1. \A c \in 1..Size(h) : Size(h[c]) # 0
      BY <1>1, <2>3, <2>4, <2>5
    <3> QED BY <2>2, <3>1 DEF IsGrid
  <2>7. ASSUME NEW m \in Place, Cell(g, m), m # l
        PROVE  /\ To(g, l, m) \in Place /\ Cell(h, To(g, l, m))
               /\ At(h, To(g, l, m)) = At(g, m)
    <3>1. m.chunk \in 1..Size(g) /\ m.row \in 1..Size(g[m.chunk])
      BY <2>7 DEF Cell
    <3>2. m.row \in Nat /\ m.chunk \in Nat
      BY Places
    <3>3. m.chunk # l.chunk
      <4>1. ASSUME m.chunk = l.chunk PROVE m.row = l.row
        BY <1>2, <2>4, <3>1, <4>1
      <4> QED BY <1>1, <2>7, <4>1, Places
    <3>4. CASE m.chunk = Size(g)
      <4>1. PICK n : n = To(g, l, m)
        OBVIOUS
      <4>2. n = [chunk |-> l.chunk, row |-> m.row]
        BY <1>2, <3>4, <4>1 DEF To, Locator
      <4>3. n \in Place /\ n.chunk = l.chunk /\ n.row = m.row
        BY <1>1, <3>2, <4>2 DEF Place
      <4>4. l.chunk \in 1..(Size(g) - 1)
        BY <1>1, <3>3, <3>4
      <4>5. h[l.chunk] = g[m.chunk] /\ l.chunk \in 1..Size(h)
        BY <2>3, <3>4, <4>4
      <4>6. Cell(h, n) /\ At(h, n) = At(g, m)
        BY <3>1, <4>3, <4>5 DEF Cell, At
      <4> QED BY <4>1, <4>3, <4>6
    <3>5. CASE m.chunk # Size(g)
      <4>1. To(g, l, m) = m
        BY <1>2, <3>5 DEF To
      <4>2. m.chunk \in 1..(Size(g) - 1)
        BY <1>1, <3>1, <3>2, <3>5
      <4>3. h[m.chunk] = g[m.chunk] /\ m.chunk \in 1..Size(h)
        BY <2>3, <3>3, <4>2
      <4> QED BY <3>1, <4>1, <4>3 DEF Cell, At
    <3> QED BY <3>4, <3>5
  <2>8. ASSUME NEW n \in Place, Cell(h, n)
        PROVE  /\ From(g, l, n) \in Place /\ Cell(g, From(g, l, n)) /\ From(g, l, n) # l
               /\ To(g, l, From(g, l, n)) = n
    <3>1. n.chunk \in 1..(Size(g) - 1) /\ n.row \in 1..Size(h[n.chunk])
      BY <2>3, <2>8 DEF Cell
    <3>2. n.row \in Nat /\ n.chunk \in Nat /\ n = [chunk |-> n.chunk, row |-> n.row]
      BY Places
    <3>3. CASE n.chunk = l.chunk
      <4>1. PICK m : m = From(g, l, n)
        OBVIOUS
      <4>2. m = [chunk |-> Size(g), row |-> n.row]
        BY <1>2, <3>3, <4>1 DEF From, Locator
      <4>3. m.chunk = Size(g) /\ m.row = n.row /\ m \in Place
        BY <1>1, <3>2, <4>2 DEF Place
      <4>4. Cell(g, m)
        BY <2>3, <2>4, <3>1, <3>3, <4>3 DEF Cell
      <4>5. m # l
        BY <2>4, <3>1, <3>3, <4>3
      <4>6. To(g, l, m) = n
        BY <1>2, <3>2, <3>3, <4>3 DEF To, Locator
      <4> QED BY <4>1, <4>3, <4>4, <4>5, <4>6
    <3>4. CASE n.chunk # l.chunk
      <4>1. From(g, l, n) = n
        BY <1>2, <3>4 DEF From
      <4>2. n.chunk # Size(g) /\ n.chunk \in 1..Size(g)
        BY <2>4, <3>1
      <4>3. To(g, l, n) = n
        BY <1>2, <4>2 DEF To
      <4>4. Cell(g, n)
        BY <2>3, <3>1, <3>4, <4>2 DEF Cell
      <4> QED BY <3>4, <4>1, <4>3, <4>4
    <3> QED BY <3>3, <3>4
  <2> QED BY <1>2, <2>3, <2>5, <2>6, <2>7, <2>8 DEF SizesRemoved, CellsRemoved
<1>3. CASE Size(g[l.chunk]) # 1
  <2>1. PICK old : old = g[l.chunk]
    OBVIOUS
  <2>2. PICK new : new = SwapRemove(old, l.row)
    OBVIOUS
  <2>3. old \in Seq(S)
    BY <1>0, <1>1, <2>1
  <2>4. Size(old) \in Nat \ {0} /\ l.row \in 1..Size(old) /\ Size(old) # 1
    BY <1>1, <1>3, <2>1
  <2>5. new \in Seq(S) /\ SwapRemoved(old, l.row, new)
    BY <2>2, <2>3, <2>4, SwapRemoveFacts, Zenon
  <2>6. /\ Size(new) = Size(old) - 1
        /\ \A r \in 1..(Size(old) - 1) : new[r] = IF r = l.row THEN old[Size(old)] ELSE old[r]
    BY <2>5, Zenon DEF SwapRemoved
  <2>7. h = [g EXCEPT ![l.chunk] = new]
    BY <1>3, <2>1, <2>2 DEF GridRemove
  <2>8. h \in Seq(Seq(S)) /\ Replaced(g, l.chunk, new, h)
    BY <1>0, <1>1, <2>5, <2>7, ExceptFacts, Zenon
  <2>9. /\ Size(h) = Size(g) /\ h[l.chunk] = new
        /\ \A c \in 1..Size(g) : c # l.chunk => h[c] = g[c]
    BY <2>8, Zenon DEF Replaced
  <2>10. \A c \in 1..Size(h) : Size(h[c]) = IF c = l.chunk THEN Size(g[c]) - 1 ELSE Size(g[c])
    BY <2>1, <2>6, <2>9
  <2>11. IsGrid(h, S)
    <3>1. \A c \in 1..Size(h) : Size(h[c]) # 0
      BY <1>1, <2>1, <2>4, <2>9, <2>10
    <3> QED BY <2>8, <3>1 DEF IsGrid
  <2>12. ASSUME NEW m \in Place, Cell(g, m), m # l
         PROVE  /\ To(g, l, m) \in Place /\ Cell(h, To(g, l, m))
                /\ At(h, To(g, l, m)) = At(g, m)
    <3>1. m.chunk \in 1..Size(g) /\ m.row \in 1..Size(g[m.chunk])
      BY <2>12 DEF Cell
    <3>2. m.row \in Nat /\ m.chunk \in Nat /\ (m = l <=> m.chunk = l.chunk /\ m.row = l.row)
      BY <1>1, Places
    <3>3. CASE m.chunk # l.chunk
      <4>1. To(g, l, m) = m
        BY <1>3, <3>3 DEF To
      <4> QED BY <2>9, <3>1, <3>3, <4>1 DEF Cell, At
    <3>4. CASE m.chunk = l.chunk /\ m.row # Size(old)
      <4>1. To(g, l, m) = m
        BY <1>3, <2>1, <3>4 DEF To
      <4>2. m.row # l.row /\ m.row \in 1..Size(old)
        BY <2>1, <2>12, <3>1, <3>2, <3>4
      <4>3. m.row \in 1..(Size(old) - 1)
        BY <2>4, <3>2, <3>4, <4>2
      <4>4. new[m.row] = old[m.row] /\ h[m.chunk] = new /\ g[m.chunk] = old /\ m.chunk \in 1..Size(h)
        BY <2>1, <2>6, <2>9, <3>1, <3>4, <4>2, <4>3
      <4> QED BY <2>6, <4>1, <4>3, <4>4 DEF Cell, At
    <3>5. CASE m.chunk = l.chunk /\ m.row = Size(old)
      <4>1. To(g, l, m) = l
        BY <1>3, <2>1, <3>5 DEF To
      <4>2. l.row # Size(old)
        BY <2>12, <3>2, <3>5
      <4>3. l.row \in 1..(Size(old) - 1)
        BY <1>1, <2>4, <4>2
      <4>4. new[l.row] = old[m.row] /\ h[l.chunk] = new /\ g[m.chunk] = old /\ l.chunk \in 1..Size(h)
        BY <1>1, <2>1, <2>6, <2>9, <3>5, <4>3
      <4> QED BY <1>1, <2>6, <4>1, <4>3, <4>4 DEF Cell, At
    <3> QED BY <3>3, <3>4, <3>5
  <2>13. ASSUME NEW n \in Place, Cell(h, n)
         PROVE  /\ From(g, l, n) \in Place /\ Cell(g, From(g, l, n)) /\ From(g, l, n) # l
                /\ To(g, l, From(g, l, n)) = n
    <3>1. n.chunk \in 1..Size(g) /\ n.row \in 1..Size(h[n.chunk])
      BY <2>9, <2>13 DEF Cell
    <3>2. n.chunk = l.chunk => n.row \in 1..(Size(old) - 1)
      BY <2>6, <2>9, <3>1
    <3>3. n.row \in Nat /\ n.chunk \in Nat
      BY Places
    <3>4. CASE n = l
      <4>1. PICK m : m = From(g, l, n)
        OBVIOUS
      <4>2. m = [chunk |-> l.chunk, row |-> Size(old)]
        BY <1>3, <2>1, <3>4, <4>1 DEF From, Locator
      <4>3. m.chunk = l.chunk /\ m.row = Size(old) /\ m \in Place
        BY <1>1, <2>4, <4>2 DEF Place
      <4>4. Cell(g, m)
        BY <1>1, <2>1, <2>4, <4>3 DEF Cell
      <4>5. m # l
        BY <2>4, <3>2, <3>4, <4>3
      <4>6. To(g, l, m) = n
        BY <1>3, <2>1, <3>4, <4>3 DEF To
      <4> QED BY <4>1, <4>3, <4>4, <4>5, <4>6
    <3>5. CASE n # l
      <4>1. From(g, l, n) = n
        BY <1>3, <3>5 DEF From
      <4>2. ~(n.chunk = l.chunk /\ n.row = Size(old))
        BY <2>4, <3>2
      <4>3. To(g, l, n) = n
        BY <1>3, <2>1, <4>2 DEF To
      <4>4. Cell(g, n)
        <5>1. CASE n.chunk = l.chunk
          <6>1. n.row \in 1..Size(old)
            BY <2>4, <3>2, <3>3, <5>1
          <6> QED BY <2>1, <3>1, <5>1, <6>1 DEF Cell
        <5>2. CASE n.chunk # l.chunk
          BY <2>9, <3>1, <5>2 DEF Cell
        <5> QED BY <5>1, <5>2
      <4> QED BY <3>5, <4>1, <4>3, <4>4
    <3> QED BY <3>4, <3>5
  <2> QED BY <1>3, <2>9, <2>10, <2>11, <2>12, <2>13 DEF SizesRemoved, CellsRemoved
<1> QED BY <1>2, <1>3

\* What is in a function decides which it is.
LEMMA SameFunction ==
    ASSUME NEW D, NEW S, NEW s \in [D -> S], NEW t \in [D -> S], \A i \in D : s[i] = t[i]
    PROVE  s = t
OBVIOUS

\* What is in a sequence decides which it is.
LEMMA SameSeq ==
    ASSUME NEW S, NEW s \in Seq(S), NEW t \in Seq(S), Size(s) = Size(t),
           \A i \in 1..Size(s) : s[i] = t[i]
    PROVE  s = t
<1>1. PICK D : D = 1..Size(s)
  OBVIOUS
<1>2. s \in [D -> S] /\ t \in [D -> S]
  BY <1>1, SeqFacts, Zenon
<1>3. \A i \in D : s[i] = t[i]
  BY <1>1
<1> QED BY <1>2, <1>3, SameFunction

\* Each element of a sequence through a function.
Mapped(F, s) == [i \in DOMAIN s |-> F[s[i]]]
IsMapped(F, s, m) == Size(m) = Size(s) /\ \A i \in 1..Size(s) : m[i] = F[s[i]]

\* A mapped sequence is a sequence.
LEMMA MappedFacts ==
    ASSUME NEW S, NEW T, NEW F \in [S -> T], NEW s \in Seq(S), NEW m, m = Mapped(F, s)
    PROVE  m \in Seq(T) /\ IsMapped(F, s, m)
<1>1. Size(s) \in Nat /\ DOMAIN s = 1..Size(s) /\ \A i \in 1..Size(s) : s[i] \in S
  BY SeqFacts, Zenon
<1>2. m = [i \in 1..Size(s) |-> F[s[i]]]
  BY <1>1 DEF Mapped
<1>3. m \in [1..Size(s) -> T]
  BY <1>1, <1>2
<1>4. m \in Seq(T) /\ Size(m) = Size(s)
  BY <1>1, <1>3, IsSeq, Zenon
<1> QED BY <1>2, <1>4 DEF IsMapped

\* Mapping and appending.
LEMMA MappedAppend ==
    ASSUME NEW S, NEW T, NEW F, NEW s, NEW x, NEW t, NEW u,
           F \in [S -> T], s \in Seq(S), x \in S, t = Append(s, x), u = Append(Mapped(F, s), F[x])
    PROVE  Mapped(F, t) = u
<1>0. Size(s) \in Nat /\ F[x] \in T
  BY SeqFacts
<1>1. t \in Seq(S) /\ Appended(s, x, t)
  BY AppendFacts, Zenon
<1>2. PICK m : m = Mapped(F, s)
  OBVIOUS
<1>3. PICK n : n = Mapped(F, t)
  OBVIOUS
<1>4. u = Append(m, F[x])
  BY <1>2
<1>a. m \in Seq(T) /\ IsMapped(F, s, m)
  BY <1>2, MappedFacts, Zenon
<1>b. n \in Seq(T) /\ IsMapped(F, t, n)
  BY <1>1, <1>3, MappedFacts, Zenon
<1>5. /\ m \in Seq(T) /\ Size(m) = Size(s) /\ \A i \in 1..Size(s) : m[i] = F[s[i]]
  BY <1>a, Zenon DEF IsMapped
<1>6. /\ n \in Seq(T) /\ Size(n) = Size(t) /\ \A i \in 1..Size(t) : n[i] = F[t[i]]
  BY <1>b, Zenon DEF IsMapped
<1>7. u \in Seq(T) /\ Appended(m, F[x], u)
  BY <1>0, <1>4, <1>5, AppendFacts, Zenon
<1>8. Size(n) = Size(u)
  BY <1>1, <1>5, <1>6, <1>7, Zenon DEF Appended
<1>9. ASSUME NEW i \in 1..Size(n) PROVE n[i] = u[i]
  <2>1. Size(n) = Size(s) + 1 /\ Size(m) = Size(s)
    BY <1>1, <1>5, <1>6, Zenon DEF Appended
  <2>2. CASE i = Size(s) + 1
    <3>1. t[i] = x /\ u[i] = F[x] /\ n[i] = F[t[i]]
      BY <1>1, <1>5, <1>6, <1>7, <2>2, Zenon DEF Appended
    <3> QED BY <3>1
  <2>3. CASE i # Size(s) + 1
    <3>1. i \in 1..Size(s)
      BY <1>0, <2>1, <2>3
    <3>2. t[i] = s[i] /\ u[i] = m[i] /\ n[i] = F[t[i]] /\ m[i] = F[s[i]]
      BY <1>1, <1>5, <1>6, <1>7, <3>1, Zenon DEF Appended
    <3> QED BY <3>2
  <2> QED BY <2>2, <2>3
<1>10. n \in Seq(T) /\ u \in Seq(T)
  BY <1>6, <1>7
<1>11. n = u
  BY <1>8, <1>9, <1>10, SameSeq, Zenon
<1> QED BY <1>2, <1>3, <1>4, <1>11

\* A sequence with another element, by a name.
IsExcept(s, c, x, t) == t = [s EXCEPT ![c] = x]

\* Mapping and replacing.
LEMMA MappedExcept ==
    ASSUME NEW S, NEW T, NEW F, NEW s, NEW c, NEW x, NEW t, NEW m, NEW u,
           F \in [S -> T], s \in Seq(S), c \in 1..Size(s), x \in S, m = Mapped(F, s),
           IsExcept(s, c, x, t), IsExcept(m, c, F[x], u)
    PROVE  Mapped(F, t) = u
<1>0. Size(s) \in Nat /\ F[x] \in T
  BY SeqFacts
<1>1. t \in Seq(S) /\ Replaced(s, c, x, t)
  BY ExceptFacts, Zenon DEF IsExcept
<1>3. PICK n : n = Mapped(F, t)
  OBVIOUS
<1>a. m \in Seq(T) /\ IsMapped(F, s, m)
  BY MappedFacts, Zenon
<1>b. n \in Seq(T) /\ IsMapped(F, t, n)
  BY <1>1, <1>3, MappedFacts, Zenon
<1>5. /\ m \in Seq(T) /\ Size(m) = Size(s) /\ \A i \in 1..Size(s) : m[i] = F[s[i]]
  BY <1>a, Zenon DEF IsMapped
<1>6. /\ n \in Seq(T) /\ Size(n) = Size(t) /\ \A i \in 1..Size(t) : n[i] = F[t[i]]
  BY <1>b, Zenon DEF IsMapped
<1>7. u \in Seq(T) /\ Replaced(m, c, F[x], u)
  BY <1>0, <1>5, ExceptFacts, Zenon DEF IsExcept
<1>8. Size(n) = Size(u) /\ Size(n) = Size(s) /\ Size(m) = Size(s)
  BY <1>1, <1>5, <1>6, <1>7, Zenon DEF Replaced
<1>9. ASSUME NEW i \in 1..Size(n) PROVE n[i] = u[i]
  <2>1. i \in 1..Size(s) /\ i \in 1..Size(t) /\ i \in 1..Size(m)
    BY <1>6, <1>8, <1>9
  <2>2. CASE i = c
    <3>1. t[i] = x /\ u[i] = F[x] /\ n[i] = F[t[i]]
      BY <1>1, <1>6, <1>7, <2>1, <2>2, Zenon DEF Replaced
    <3> QED BY <3>1
  <2>3. CASE i # c
    <3>1. t[i] = s[i] /\ u[i] = m[i] /\ n[i] = F[t[i]] /\ m[i] = F[s[i]]
      BY <1>1, <1>5, <1>6, <1>7, <2>1, <2>3, Zenon DEF Replaced
    <3> QED BY <3>1
  <2> QED BY <2>2, <2>3
<1>10. n \in Seq(T) /\ u \in Seq(T)
  BY <1>6, <1>7
<1>11. n = u
  BY <1>8, <1>9, <1>10, SameSeq, Zenon
<1> QED BY <1>3, <1>11

\* Mapping and removing.
LEMMA MappedSwapRemove ==
    ASSUME NEW S, NEW T, NEW F, NEW s, NEW c, NEW t, NEW u,
           F \in [S -> T], s \in Seq(S), c \in 1..Size(s), t = SwapRemove(s, c),
           u = SwapRemove(Mapped(F, s), c)
    PROVE  Mapped(F, t) = u
<1>0. Size(s) \in Nat
  BY SeqFacts
<1>1. t \in Seq(S) /\ SwapRemoved(s, c, t)
  BY SwapRemoveFacts, Zenon
<1>2. PICK m : m = Mapped(F, s)
  OBVIOUS
<1>3. PICK n : n = Mapped(F, t)
  OBVIOUS
<1>4. u = SwapRemove(m, c)
  BY <1>2
<1>a. m \in Seq(T) /\ IsMapped(F, s, m)
  BY <1>2, MappedFacts, Zenon
<1>b. n \in Seq(T) /\ IsMapped(F, t, n)
  BY <1>1, <1>3, MappedFacts, Zenon
<1>5. /\ m \in Seq(T) /\ Size(m) = Size(s) /\ \A i \in 1..Size(s) : m[i] = F[s[i]]
  BY <1>a, Zenon DEF IsMapped
<1>6. /\ n \in Seq(T) /\ Size(n) = Size(t) /\ \A i \in 1..Size(t) : n[i] = F[t[i]]
  BY <1>b, Zenon DEF IsMapped
<1>7. u \in Seq(T) /\ SwapRemoved(m, c, u)
  BY <1>0, <1>4, <1>5, SwapRemoveFacts, Zenon
<1>8. Size(n) = Size(u) /\ Size(n) = Size(s) - 1 /\ Size(m) = Size(s) /\ Size(t) = Size(s) - 1
  BY <1>1, <1>5, <1>6, <1>7, Zenon DEF SwapRemoved
<1>9. ASSUME NEW i \in 1..Size(n) PROVE n[i] = u[i]
  <2>1. i \in 1..(Size(s) - 1) /\ i \in 1..Size(s) /\ Size(s) \in 1..Size(s) /\ i \in 1..Size(t)
    BY <1>0, <1>8, <1>9
  <2>2. /\ n[i] = F[t[i]] /\ m[i] = F[s[i]] /\ m[Size(s)] = F[s[Size(s)]]
    BY <1>5, <1>6, <2>1
  <2>3. /\ t[i] = IF i = c THEN s[Size(s)] ELSE s[i]
        /\ u[i] = IF i = c THEN m[Size(m)] ELSE m[i]
    BY <1>1, <1>7, <1>8, <2>1, Zenon DEF SwapRemoved
  <2> QED BY <1>8, <2>2, <2>3
<1>10. n \in Seq(T) /\ u \in Seq(T)
  BY <1>6, <1>7
<1>11. n = u
  BY <1>8, <1>9, <1>10, SameSeq, Zenon
<1> QED BY <1>2, <1>3, <1>4, <1>11

-----------------------------------------------------------------------------
(* A directory of the devices on a grid.                                   *)

Residents(dir) == {d \in Devices : dir[d] # NoLocation}
Reads(dir, g) == [d \in Residents(dir) |-> At(g, dir[d])]
OnGrid(dir, g) == \A d \in Residents(dir) : Cell(g, dir[d])

Inserted(dir, d, l) == [dir EXCEPT ![d] = l]
Removed(dir, g, d) ==
    [e \in Devices |-> IF e = d \/ dir[e] = NoLocation THEN NoLocation ELSE To(g, dir[d], dir[e])]

\* The directory and the grid of the devices say the same.
DirectoryOK(dir, g) ==
    /\ dir \in [Devices -> Place]
    /\ \A m \in Place : Cell(g, m) => At(g, m) \in Devices /\ dir[At(g, m)] = m
    /\ \A d \in Residents(dir) : Cell(g, dir[d]) /\ At(g, dir[d]) = d

\* An empty directory entry is the place of no row.
LEMMA NoCell == NoLocation \in Place /\ \A g : ~Cell(g, NoLocation)
BY DEF NoLocation, Locator, Place, Cell

\* Grids of one shape have the same cells, and rows move alike in them.
LEMMA SameCells ==
    ASSUME NEW g, NEW h, Same(g, h)
    PROVE  /\ \A m : Cell(g, m) <=> Cell(h, m)
           /\ \A l : Free(g, l) <=> Free(h, l)
           /\ \A l, m : Cell(g, l) => To(g, l, m) = To(h, l, m)
<1>1. \A m : Cell(g, m) <=> Cell(h, m)
  BY DEF Cell, Same
<1>2. \A l : Free(g, l) <=> Free(h, l)
  BY DEF Free, Same
<1>3. \A l, m : Cell(g, l) => To(g, l, m) = To(h, l, m)
  BY DEF To, Same, Cell
<1> QED BY <1>1, <1>2, <1>3

\* Inserting keeps two grids of one shape.
LEMMA SameInsert ==
    ASSUME NEW S, NEW T, NEW g, NEW h, IsGrid(g, S), IsGrid(h, T), Same(g, h), NEW l, Free(g, l),
           NEW x \in S, NEW y \in T, NEW k, k = GridInsert(g, l, x), NEW n, n = GridInsert(h, l, y)
    PROVE  Same(k, n)
<1>1. Free(h, l)
  BY SameCells, Zenon
<1>2. /\ Size(k) = (IF l.row = 1 THEN Size(g) + 1 ELSE Size(g))
      /\ \A c \in 1..Size(k) : Size(k[c]) = IF c = l.chunk THEN l.row ELSE Size(g[c])
  <2>1. SizesInserted(g, l, k)
    BY GridInsertFacts, Zenon
  <2> QED BY <2>1, Zenon DEF SizesInserted
<1>3. /\ Size(n) = (IF l.row = 1 THEN Size(h) + 1 ELSE Size(h))
      /\ \A c \in 1..Size(n) : Size(n[c]) = IF c = l.chunk THEN l.row ELSE Size(h[c])
  <2>1. SizesInserted(h, l, n)
    BY <1>1, GridInsertFacts, Zenon
  <2> QED BY <2>1, Zenon DEF SizesInserted
<1>4. Size(g) \in Nat /\ Size(g) = Size(h) /\ \A c \in 1..Size(g) : Size(g[c]) = Size(h[c])
  BY GridSizes, Zenon DEF Same
<1>5. Size(k) = Size(n)
  BY <1>2, <1>3, <1>4
<1>6. ASSUME NEW c \in 1..Size(k) PROVE Size(k[c]) = Size(n[c])
  <2>1. c \in 1..Size(n)
    BY <1>5
  <2>2. CASE c = l.chunk
    BY <1>2, <1>3, <2>1, <2>2
  <2>3. CASE c # l.chunk
    <3>1. Size(k[c]) = Size(g[c]) /\ Size(n[c]) = Size(h[c])
      BY <1>2, <1>3, <2>1, <2>3
    <3>2. c \in 1..Size(g)
      <4>1. CASE l.row = 1 /\ l.chunk = Size(g) + 1
        BY <1>2, <1>4, <2>3, <4>1
      <4>2. CASE l.row # 1
        BY <1>2, <4>2
      <4>3. l.row # 1 \/ l.chunk = Size(g) + 1
        BY GridSizes DEF Free
      <4> QED BY <1>2, <1>4, <2>3, <4>1, <4>2, <4>3 DEF Free
    <3> QED BY <1>4, <3>1, <3>2
  <2> QED BY <2>2, <2>3
<1> QED BY <1>5, <1>6 DEF Same

\* Removing keeps two grids of one shape.
LEMMA SameRemove ==
    ASSUME NEW S, NEW T, NEW g, NEW h, IsGrid(g, S), IsGrid(h, T), Same(g, h), NEW l, Cell(g, l),
           NEW k, k = GridRemove(g, l), NEW n, n = GridRemove(h, l)
    PROVE  Same(k, n)
<1>1. Cell(h, l)
  BY SameCells, Zenon
<1>2. /\ Size(k) = (IF Size(g[l.chunk]) = 1 THEN Size(g) - 1 ELSE Size(g))
      /\ \A c \in 1..Size(k) : Size(k[c]) =
            IF Size(g[l.chunk]) = 1
            THEN IF c = l.chunk THEN Size(g[Size(g)]) ELSE Size(g[c])
            ELSE IF c = l.chunk THEN Size(g[c]) - 1 ELSE Size(g[c])
  <2>1. SizesRemoved(g, l, k)
    BY GridRemoveFacts, Zenon
  <2> QED BY <2>1, Zenon DEF SizesRemoved
<1>3. /\ Size(n) = (IF Size(h[l.chunk]) = 1 THEN Size(h) - 1 ELSE Size(h))
      /\ \A c \in 1..Size(n) : Size(n[c]) =
            IF Size(h[l.chunk]) = 1
            THEN IF c = l.chunk THEN Size(h[Size(h)]) ELSE Size(h[c])
            ELSE IF c = l.chunk THEN Size(h[c]) - 1 ELSE Size(h[c])
  <2>1. SizesRemoved(h, l, n)
    BY <1>1, GridRemoveFacts, Zenon
  <2> QED BY <2>1, Zenon DEF SizesRemoved
<1>4. Size(g) \in Nat /\ Size(g) = Size(h) /\ \A c \in 1..Size(g) : Size(g[c]) = Size(h[c])
  BY GridSizes, Zenon DEF Same
<1>5. l.chunk \in 1..Size(g) /\ Size(g[l.chunk]) = Size(h[l.chunk])
  BY <1>4 DEF Cell
<1>6. Size(k) = Size(n) /\ \A c \in 1..Size(k) : c \in 1..Size(g)
  BY <1>2, <1>3, <1>4, <1>5
<1>7. Size(g) \in 1..Size(g)
  BY <1>4, <1>5
<1>8. Size(g[Size(g)]) = Size(h[Size(h)])
  BY <1>4, <1>7
<1>9. ASSUME NEW c \in 1..Size(k) PROVE Size(k[c]) = Size(n[c])
  <2>1. c \in 1..Size(n) /\ Size(g[c]) = Size(h[c])
    BY <1>4, <1>6
  <2> QED BY <1>2, <1>3, <1>5, <1>8, <2>1
<1> QED BY <1>6, <1>9 DEF Same

\* The directory in which a device got a place.
IsInserted(dir, d, l, nd) ==
    /\ nd \in [Devices -> Place] /\ nd[d] = l /\ \A e \in Devices : e # d => nd[e] = dir[e]
    /\ Residents(nd) = Residents(dir) \cup {d}
\* A device gets a place.
LEMMA InsertedDirectory ==
    ASSUME NEW dir \in [Devices -> Place], NEW d \in Devices, NEW l \in Place, l # NoLocation,
           NEW nd, nd = Inserted(dir, d, l)
    PROVE  IsInserted(dir, d, l, nd)
BY DEF Inserted, Residents, IsInserted

\* What is read after an insert.
ReadsInserted(dir, g, d, x, nd, h) ==
    Reads(nd, h) = [e \in Residents(dir) \cup {d} |-> IF e = d THEN x ELSE Reads(dir, g)[e]]
\* The insert changes what is read of the new device only.
LEMMA InsertReads ==
    ASSUME NEW S, NEW g, IsGrid(g, S), NEW x \in S, NEW l, Free(g, l),
           NEW dir \in [Devices -> Place], OnGrid(dir, g), NEW d \in Devices, d \notin Residents(dir),
           NEW h, h = GridInsert(g, l, x), NEW nd, nd = Inserted(dir, d, l)
    PROVE  OnGrid(nd, h) /\ ReadsInserted(dir, g, d, x, nd, h)
<1>1. CellsInserted(g, l, x, h)
  BY GridInsertFacts, Zenon
<1>2. /\ Cell(h, l) /\ At(h, l) = x
      /\ \A m \in Place : Cell(h, m) <=> Cell(g, m) \/ m = l
      /\ \A m \in Place : Cell(g, m) => At(h, m) = At(g, m)
  BY <1>1, Zenon DEF CellsInserted
<1>3. l \in Place /\ l # NoLocation
  BY <1>2, NoCell, Zenon DEF Free
<1>4. /\ nd \in [Devices -> Place] /\ nd[d] = l /\ \A e \in Devices : e # d => nd[e] = dir[e]
      /\ Residents(nd) = Residents(dir) \cup {d}
  <2>1. IsInserted(dir, d, l, nd)
    BY <1>3, InsertedDirectory, Zenon
  <2> QED BY <2>1, Zenon DEF IsInserted
<1>5. \A e \in Residents(dir) : /\ e \in Devices /\ e # d /\ dir[e] \in Place /\ Cell(g, dir[e])
                                /\ nd[e] = dir[e] /\ Cell(h, nd[e]) /\ At(h, nd[e]) = At(g, dir[e])
  BY <1>2, <1>4 DEF OnGrid, Residents
<1>6. OnGrid(nd, h)
  BY <1>2, <1>4, <1>5 DEF OnGrid
<1>7. ASSUME NEW e \in Residents(nd)
      PROVE  At(h, nd[e]) = IF e = d THEN x ELSE Reads(dir, g)[e]
  <2>1. CASE e = d
    BY <1>2, <1>4, <2>1
  <2>2. CASE e # d
    BY <1>4, <1>5, <2>2 DEF Reads
  <2> QED BY <2>1, <2>2
<1>8. ReadsInserted(dir, g, d, x, nd, h)
  BY <1>4, <1>7 DEF ReadsInserted, Reads
<1> QED BY <1>6, <1>8

\* The directory follows an insert.
LEMMA DirectoryInsert ==
    ASSUME NEW g, IsGrid(g, Devices), NEW l, Free(g, l),
           NEW dir, DirectoryOK(dir, g), NEW d \in Devices, d \notin Residents(dir),
           NEW h, h = GridInsert(g, l, d), NEW nd, nd = Inserted(dir, d, l)
    PROVE  DirectoryOK(nd, h)
<1>1. CellsInserted(g, l, d, h)
  BY GridInsertFacts, Zenon
<1>2. /\ Cell(h, l) /\ At(h, l) = d
      /\ \A m \in Place : Cell(h, m) <=> Cell(g, m) \/ m = l
      /\ \A m \in Place : Cell(g, m) => At(h, m) = At(g, m)
  BY <1>1, Zenon DEF CellsInserted
<1>3. l \in Place /\ l # NoLocation
  BY <1>2, NoCell, Zenon DEF Free
<1>4. /\ dir \in [Devices -> Place]
      /\ \A m \in Place : Cell(g, m) => At(g, m) \in Devices /\ dir[At(g, m)] = m
      /\ \A e \in Residents(dir) : Cell(g, dir[e]) /\ At(g, dir[e]) = e
  BY Zenon DEF DirectoryOK
<1>5. /\ nd \in [Devices -> Place] /\ nd[d] = l /\ \A e \in Devices : e # d => nd[e] = dir[e]
      /\ Residents(nd) = Residents(dir) \cup {d}
  <2>1. IsInserted(dir, d, l, nd)
    BY <1>3, <1>4, InsertedDirectory, Zenon
  <2> QED BY <2>1, Zenon DEF IsInserted
<1>6. ASSUME NEW m \in Place, Cell(h, m) PROVE At(h, m) \in Devices /\ nd[At(h, m)] = m
  <2>1. CASE m = l
    BY <1>2, <1>5, <2>1
  <2>2. CASE m # l
    <3>1. Cell(g, m) /\ At(h, m) = At(g, m) /\ At(g, m) \in Devices /\ dir[At(g, m)] = m
      BY <1>2, <1>4, <1>6, <2>2
    <3>2. At(g, m) # d
      BY <3>1, NoCell DEF Residents
    <3> QED BY <1>5, <3>1, <3>2
  <2> QED BY <2>1, <2>2
<1>7. ASSUME NEW e \in Residents(nd) PROVE Cell(h, nd[e]) /\ At(h, nd[e]) = e
  <2>1. CASE e = d
    BY <1>2, <1>5, <2>1
  <2>2. CASE e # d
    <3>1. e \in Residents(dir) /\ e \in Devices /\ dir[e] \in Place /\ nd[e] = dir[e]
      BY <1>4, <1>5, <2>2 DEF Residents
    <3> QED BY <1>2, <1>4, <3>1
  <2> QED BY <2>1, <2>2
<1> QED BY <1>5, <1>6, <1>7 DEF DirectoryOK

\* The directory in which a device went.
IsRemoved(dir, g, d, nd, h) ==
    /\ nd \in [Devices -> Place] /\ nd[d] = NoLocation
    /\ Residents(nd) = Residents(dir) \ {d}
    /\ \A e \in Residents(nd) : /\ nd[e] = To(g, dir[d], dir[e])
                                /\ Cell(h, nd[e]) /\ At(h, nd[e]) = At(g, dir[e])
\* What a removal does to the directory.
LEMMA RemovedDirectory ==
    ASSUME NEW S, NEW g, IsGrid(g, S), NEW dir \in [Devices -> Place], OnGrid(dir, g),
           \A e, f \in Residents(dir) : dir[e] = dir[f] => e = f,
           NEW d \in Residents(dir), NEW nd, nd = Removed(dir, g, d), NEW h, h = GridRemove(g, dir[d])
    PROVE  IsRemoved(dir, g, d, nd, h)
<1>1. d \in Devices /\ Cell(g, dir[d])
  BY DEF Residents, OnGrid
<1>2. CellsRemoved(g, dir[d], h)
  BY <1>1, GridRemoveFacts, Zenon
<1>3. \A m \in Place : Cell(g, m) /\ m # dir[d] =>
            /\ To(g, dir[d], m) \in Place /\ Cell(h, To(g, dir[d], m))
            /\ At(h, To(g, dir[d], m)) = At(g, m)
  BY <1>2, Zenon DEF CellsRemoved
<1>4. ASSUME NEW e \in Residents(dir), e # d
      PROVE  /\ nd[e] = To(g, dir[d], dir[e]) /\ nd[e] \in Place /\ nd[e] # NoLocation
             /\ Cell(h, nd[e]) /\ At(h, nd[e]) = At(g, dir[e])
  <2>1. e \in Devices /\ dir[e] # NoLocation /\ Cell(g, dir[e]) /\ dir[e] # dir[d] /\ dir[e] \in Place
    BY <1>4 DEF Residents, OnGrid
  <2>2. nd[e] = To(g, dir[d], dir[e])
    BY <1>4, <2>1, Zenon DEF Removed
  <2>3. nd[e] \in Place /\ Cell(h, nd[e]) /\ At(h, nd[e]) = At(g, dir[e])
    BY <1>3, <2>1, <2>2
  <2> QED BY <2>2, <2>3, NoCell, Zenon
<1>5. \A e \in Devices : e = d \/ e \notin Residents(dir) => nd[e] = NoLocation
  BY DEF Removed, Residents
<1>6. \A e \in Devices : nd[e] \in Place
  BY <1>4, <1>5, NoCell, Zenon
<1>7. DOMAIN nd = Devices /\ nd = [e \in DOMAIN nd |-> nd[e]]
  BY DEF Removed
<1>8. nd \in [Devices -> Place]
  BY <1>6, <1>7
<1>9. Residents(nd) = Residents(dir) \ {d}
  BY <1>4, <1>5 DEF Residents
<1> QED BY <1>1, <1>4, <1>5, <1>8, <1>9 DEF IsRemoved

\* What is read after a removal.
ReadsRemoved(dir, g, d, nd, h) == Reads(nd, h) = [e \in Residents(dir) \ {d} |-> Reads(dir, g)[e]]
\* A removal leaves what is read of the other devices.
LEMMA RemoveReads ==
    ASSUME NEW S, NEW g, IsGrid(g, S), NEW dir \in [Devices -> Place], OnGrid(dir, g),
           \A e, f \in Residents(dir) : dir[e] = dir[f] => e = f,
           NEW d \in Residents(dir), NEW nd, nd = Removed(dir, g, d), NEW h, h = GridRemove(g, dir[d])
    PROVE  OnGrid(nd, h) /\ ReadsRemoved(dir, g, d, nd, h)
<1>1. /\ Residents(nd) = Residents(dir) \ {d}
      /\ \A e \in Residents(nd) : Cell(h, nd[e]) /\ At(h, nd[e]) = At(g, dir[e])
  <2>1. IsRemoved(dir, g, d, nd, h)
    BY RemovedDirectory, Zenon
  <2> QED BY <2>1, Zenon DEF IsRemoved
<1>2. \A e \in Residents(nd) : At(h, nd[e]) = Reads(dir, g)[e]
  BY <1>1 DEF Reads
<1> QED BY <1>1, <1>2 DEF OnGrid, ReadsRemoved, Reads

\* The directory follows a removal.
LEMMA DirectoryRemove ==
    ASSUME NEW g, IsGrid(g, Devices), NEW dir, DirectoryOK(dir, g), NEW d \in Residents(dir),
           NEW nd, nd = Removed(dir, g, d), NEW h, h = GridRemove(g, dir[d])
    PROVE  DirectoryOK(nd, h)
<1>1. /\ dir \in [Devices -> Place]
      /\ \A m \in Place : Cell(g, m) => At(g, m) \in Devices /\ dir[At(g, m)] = m
      /\ \A e \in Residents(dir) : Cell(g, dir[e]) /\ At(g, dir[e]) = e
  BY Zenon DEF DirectoryOK
<1>2. OnGrid(dir, g)
  BY <1>1 DEF OnGrid
<1>3. \A e, f \in Residents(dir) : dir[e] = dir[f] => e = f
  BY <1>1
<1>4. /\ nd \in [Devices -> Place] /\ nd[d] = NoLocation
      /\ Residents(nd) = Residents(dir) \ {d}
      /\ \A e \in Residents(nd) : /\ nd[e] = To(g, dir[d], dir[e])
                                  /\ Cell(h, nd[e]) /\ At(h, nd[e]) = At(g, dir[e])
  <2>1. IsRemoved(dir, g, d, nd, h)
    BY <1>1, <1>2, <1>3, RemovedDirectory, Zenon
  <2> QED BY <2>1, Zenon DEF IsRemoved
<1>5. Cell(g, dir[d]) /\ d \in Devices /\ dir[d] # NoLocation
  BY <1>1 DEF Residents
<1>6. CellsRemoved(g, dir[d], h)
  BY <1>5, GridRemoveFacts, Zenon
<1>7. ASSUME NEW n \in Place, Cell(h, n) PROVE At(h, n) \in Devices /\ nd[At(h, n)] = n
  <2>1. PICK m \in Place : Cell(g, m) /\ m # dir[d] /\ To(g, dir[d], m) = n
    BY <1>6, <1>7, Zenon DEF CellsRemoved
  <2>2. At(h, n) = At(g, m)
    BY <1>6, <2>1, Zenon DEF CellsRemoved
  <2>3. PICK e : e = At(g, m)
    OBVIOUS
  <2>4. e \in Devices /\ dir[e] = m
    BY <1>1, <2>1, <2>3
  <2>5. e \in Residents(nd)
    BY <1>4, <2>1, <2>4, NoCell DEF Residents
  <2>6. nd[e] = n
    BY <1>4, <2>1, <2>4, <2>5
  <2> QED BY <2>2, <2>3, <2>4, <2>6
<1>8. \A e \in Residents(nd) : Cell(h, nd[e]) /\ At(h, nd[e]) = e
  BY <1>1, <1>4
<1> QED BY <1>4, <1>7, <1>8 DEF DirectoryOK

-----------------------------------------------------------------------------
(* The arena and the sidecars as grids.                                    *)

ParameterValues == Parameters \cup {Unassigned}
States == {"zero", "initial", "next"}
DeviceChunk == [definition : Definitions, devices : Seq(Devices), parameters : Seq(ParameterValues)]
StateChunk == [values : Seq(States), initialized : SUBSET (1..ChunkCapacity)]

DevicesIn == [k \in DeviceChunk |-> k.devices]
ParametersIn == [k \in DeviceChunk |-> k.parameters]
LogicalRow(k, r) == IF r \in k.initialized THEN k.values[r] ELSE "initial"
LogicalIn == [k \in StateChunk |-> [r \in DOMAIN k.values |-> LogicalRow(k, r)]]

DeviceGrid(a) == Mapped(DevicesIn, a.chunks)
ParameterGrid(a) == Mapped(ParametersIn, a.chunks)
LogicalGrid(state) == Mapped(LogicalIn, state)

\* A hint names a chunk of its definition that has room.
HintsOK(chunks, hints) ==
    \A definition \in Definitions : hints[definition] # None =>
        /\ hints[definition] \in 1..Size(chunks)
        /\ chunks[hints[definition]].definition = definition
        /\ Size(chunks[hints[definition]].devices) # ChunkCapacity

Arenas == [directory : [Devices -> Place], chunks : Seq(DeviceChunk), activeChunks : [Definitions -> Nat]]

\* The rows of an arena.
GridsOK(a) ==
    /\ a \in Arenas
    /\ IsGrid(DeviceGrid(a), Devices)
    /\ IsGrid(ParameterGrid(a), ParameterValues)
    /\ Same(DeviceGrid(a), ParameterGrid(a))

ArenaOK(a) ==
    /\ GridsOK(a)
    /\ Size(a.chunks) <= MaxChunks
    /\ \A c \in 1..Size(a.chunks) : Size(a.chunks[c].devices) <= ChunkCapacity
    /\ DirectoryOK(a.directory, DeviceGrid(a))
    /\ HintsOK(a.chunks, a.activeChunks)

\* The fields of a chunk are functions of the chunk.
LEMMA FieldFunctions ==
    DevicesIn \in [DeviceChunk -> Seq(Devices)] /\ ParametersIn \in [DeviceChunk -> Seq(ParameterValues)]
<1>1. \A k \in DeviceChunk : k.devices \in Seq(Devices) /\ k.parameters \in Seq(ParameterValues)
  BY DEF DeviceChunk
<1> QED BY <1>1 DEF DevicesIn, ParametersIn

\* The grids of an arena are the fields of its chunks.
FieldsAre(chunks, g, p) ==
    /\ Size(g) = Size(chunks) /\ Size(p) = Size(chunks)
    /\ \A c \in 1..Size(chunks) : g[c] = chunks[c].devices /\ p[c] = chunks[c].parameters

\* The grids of an arena are the fields of its chunks.
LEMMA ArenaGrids ==
    ASSUME NEW ch \in Seq(DeviceChunk), NEW g, g = Mapped(DevicesIn, ch),
           NEW p, p = Mapped(ParametersIn, ch)
    PROVE  FieldsAre(ch, g, p)
<1>1. IsMapped(DevicesIn, ch, g)
  BY FieldFunctions, MappedFacts, Zenon
<1>2. IsMapped(ParametersIn, ch, p)
  BY FieldFunctions, MappedFacts, Zenon
<1>3. \A c \in 1..Size(ch) : ch[c] \in DeviceChunk
  BY SeqFacts, Zenon
<1>4. \A k \in DeviceChunk : DevicesIn[k] = k.devices /\ ParametersIn[k] = k.parameters
  BY Zenon DEF DevicesIn, ParametersIn
<1>5. ASSUME NEW c \in 1..Size(ch) PROVE g[c] = ch[c].devices /\ p[c] = ch[c].parameters
  BY <1>1, <1>2, <1>3, <1>4, Zenon DEF IsMapped
<1> QED BY <1>1, <1>2, <1>5, Zenon DEF FieldsAre, IsMapped

\* Lengths by their other name.
LEMMA Lengths ==
    /\ \A k : Full(k) <=> Size(k.devices) = ChunkCapacity
    /\ \A a, definition : InsertLocation(a, definition) =
            IF InsertionChunk(a, definition) = None THEN Locator(Size(a.chunks) + 1, 1)
            ELSE Locator(InsertionChunk(a, definition),
                         Size(a.chunks[InsertionChunk(a, definition)].devices) + 1)
    /\ \A a, d : Emptied(a, d) <=> Size(a.chunks[a.directory[d].chunk].devices) = 1
BY Zenon DEF Full, InsertLocation, Size, Emptied

\* The arenas that can take a device of a definition, and where they put it.
Takes(a, definition, l) ==
    /\ l \in Place
    /\ \/ l.chunk = Size(a.chunks) + 1 /\ l.row = 1 /\ Size(a.chunks) < MaxChunks
       \/ /\ l.chunk \in 1..Size(a.chunks)
          /\ a.chunks[l.chunk].definition = definition
          /\ Size(a.chunks[l.chunk].devices) # ChunkCapacity
          /\ l.row = Size(a.chunks[l.chunk].devices) + 1

\* A chunk that InsertionChunk names is of the definition and has room.
LEMMA InsertionChunkFacts ==
    ASSUME NEW a, ArenaOK(a), NEW definition \in Definitions,
           NEW c, c = InsertionChunk(a, definition), c # None
    PROVE  c \in 1..Size(a.chunks) /\ a.chunks[c].definition = definition
           /\ Size(a.chunks[c].devices) # ChunkCapacity
<1>1. a.chunks \in Seq(DeviceChunk)
  <2>1. a \in Arenas
    BY Zenon DEF ArenaOK, GridsOK
  <2> QED BY <2>1 DEF Arenas
<1>2. DOMAIN a.chunks = 1..Size(a.chunks) /\ Size(a.chunks) \in Nat
  BY <1>1, SeqFacts, Zenon
<1> DEFINE found == {e \in DOMAIN a.chunks : a.chunks[e].definition = definition /\ ~Full(a.chunks[e])}
<1>3. c \in found
  <2>1. CASE a.activeChunks[definition] \in found
    BY <2>1, Zenon DEF InsertionChunk
  <2>2. CASE a.activeChunks[definition] \notin found
    <3>1. found # {}
      BY <2>2, Zenon DEF InsertionChunk
    <3>2. c = CHOOSE x \in found : \A e \in found : x <= e
      BY <2>2, <3>1, Zenon DEF InsertionChunk
    <3>3. found \in SUBSET Nat
      <4>1. \A e \in 1..Size(a.chunks) : e \in Nat
        BY <1>2
      <4> QED BY <1>2, <4>1
    <3>4. \E x \in found : \A e \in found : x <= e
      <4> HIDE DEF found
      <4> QED BY <3>1, <3>3, NatMin, Zenon
    <3> HIDE DEF found
    <3> QED BY <3>2, <3>4, Zenon
  <2> QED BY <2>1, <2>2
<1> QED BY <1>2, <1>3, Lengths, Zenon

\* A device goes to the end of a chunk of its definition that has room, or
\* into a chunk of its own.
LEMMA InsertionPlace ==
    ASSUME NEW a, ArenaOK(a), NEW definition \in Definitions,
           InsertionChunk(a, definition) # None \/ Size(a.chunks) < MaxChunks,
           NEW l, l = InsertLocation(a, definition)
    PROVE  Takes(a, definition, l)
<1>1. a.chunks \in Seq(DeviceChunk)
  <2>1. a \in Arenas
    BY Zenon DEF ArenaOK, GridsOK
  <2> QED BY <2>1 DEF Arenas
<1>2. Size(a.chunks) \in Nat /\ \A e \in 1..Size(a.chunks) : Size(a.chunks[e].devices) \in Nat
  <2>1. \A e \in 1..Size(a.chunks) : a.chunks[e] \in DeviceChunk
    BY <1>1, SeqFacts, Zenon
  <2>2. \A k \in DeviceChunk : k.devices \in Seq(Devices)
    BY DEF DeviceChunk
  <2>3. \A s \in Seq(Devices) : Size(s) \in Nat
    BY SeqFacts, Zenon
  <2> QED BY <1>1, <2>1, <2>2, <2>3, SeqFacts, Zenon
<1>3. CASE InsertionChunk(a, definition) = None
  <2>1. l = [chunk |-> Size(a.chunks) + 1, row |-> 1]
    BY <1>3, Lengths, Zenon DEF Locator
  <2>2. l \in Place /\ l.chunk = Size(a.chunks) + 1 /\ l.row = 1
    BY <1>2, <2>1 DEF Place
  <2> QED BY <1>3, <2>2, Zenon DEF Takes
<1>4. CASE InsertionChunk(a, definition) # None
  <2>1. PICK c : c = InsertionChunk(a, definition)
    OBVIOUS
  <2>2. c \in 1..Size(a.chunks) /\ a.chunks[c].definition = definition
        /\ Size(a.chunks[c].devices) # ChunkCapacity
    BY <1>4, <2>1, InsertionChunkFacts, Zenon
  <2>3. l = [chunk |-> c, row |-> Size(a.chunks[c].devices) + 1]
    BY <1>4, <2>1, Lengths, Zenon DEF Locator
  <2>4. l \in Place /\ l.chunk = c /\ l.row = Size(a.chunks[c].devices) + 1
    BY <1>2, <2>2, <2>3 DEF Place
  <2> QED BY <2>2, <2>4, Zenon DEF Takes
<1> QED BY <1>3, <1>4

\* What a chunk is with one more row.
Pushed(k, d, n) ==
    /\ n \in DeviceChunk /\ n.definition = k.definition
    /\ n.devices = Append(k.devices, d) /\ n.parameters = Append(k.parameters, Unassigned)

\* A chunk with one more row is a chunk.
LEMMA PushFacts ==
    ASSUME NEW k, NEW d, NEW n, k \in DeviceChunk, d \in Devices, n = PushEmptyRow(k, d)
    PROVE  Pushed(k, d, n)
<1>1. k.definition \in Definitions /\ k.devices \in Seq(Devices) /\ k.parameters \in Seq(ParameterValues)
  BY DEF DeviceChunk
<1>2. n = [ definition |-> k.definition, devices |-> Append(k.devices, d),
            parameters |-> Append(k.parameters, Unassigned) ]
  BY DEF DeviceChunk, PushEmptyRow
<1>3. Append(k.devices, d) \in Seq(Devices)
  BY <1>1, AppendFacts, Zenon
<1>4. Unassigned \in ParameterValues
  BY DEF ParameterValues
<1>5. Append(k.parameters, Unassigned) \in Seq(ParameterValues)
  BY <1>1, <1>4, AppendFacts, Zenon
<1> QED BY <1>1, <1>2, <1>3, <1>5 DEF DeviceChunk, Pushed

\* What the chunks are after an insert.
ChunksInserted(ch, l, definition, d, new) ==
    \E k \in DeviceChunk :
        /\ k.definition = definition
        /\ \/ /\ l.row = 1 /\ k.devices = <<d>> /\ k.parameters = <<Unassigned>>
              /\ new = Append(ch, k)
           \/ /\ l.row # 1 /\ l.chunk \in 1..Size(ch) /\ ch[l.chunk].definition = definition
              /\ k.devices = Append(ch[l.chunk].devices, d)
              /\ k.parameters = Append(ch[l.chunk].parameters, Unassigned)
              /\ new = [ch EXCEPT ![l.chunk] = k]

\* What the arena is after an insert.
HintAfter(ch, c) == IF Size(ch[c].devices) = ChunkCapacity THEN None ELSE c
InsertsInto(a, d, definition, l, b) ==
    /\ ChunksInserted(a.chunks, l, definition, d, b.chunks)
    /\ b = [ directory |-> Inserted(a.directory, d, l), chunks |-> b.chunks,
             activeChunks |-> [a.activeChunks EXCEPT ![definition] = HintAfter(b.chunks, l.chunk)] ]

\* The chunk of the device that is inserted is the only one that changes.
LEMMA InsertChunks ==
    ASSUME NEW a, ArenaOK(a), NEW definition \in Definitions, NEW d \in Devices,
           NEW l, Takes(a, definition, l), l = InsertLocation(a, definition),
           NEW b, b = Insert(a, d, definition)
    PROVE  InsertsInto(a, d, definition, l, b)
<1>1. a.chunks \in Seq(DeviceChunk) /\ a \in Arenas
  <2>1. a \in Arenas
    BY Zenon DEF ArenaOK, GridsOK
  <2> QED BY <2>1 DEF Arenas
<1>2. /\ Size(a.chunks) \in Nat
      /\ \A e \in 1..Size(a.chunks) : a.chunks[e] \in DeviceChunk
  BY <1>1, SeqFacts, Zenon
<1> DEFINE old == IF l.row = 1 THEN NewChunk(definition) ELSE a.chunks[l.chunk]
<1>3. PICK k : k = PushEmptyRow(old, d)
  OBVIOUS
<1>4. b = [ directory |-> Inserted(a.directory, d, l),
            chunks |-> IF l.row = 1 THEN Append(a.chunks, k) ELSE [a.chunks EXCEPT ![l.chunk] = k],
            activeChunks |-> [a.activeChunks EXCEPT ![definition] =
                                IF Full(k) THEN None ELSE l.chunk] ]
  BY <1>3, Zenon DEF Insert, Inserted
<1>5. CASE l.row = 1
  <2>1. l.chunk = Size(a.chunks) + 1
    <3>1. \A e \in 1..Size(a.chunks) : Size(a.chunks[e].devices) \in Nat \ {0}
      <4>1. FieldsAre(a.chunks, DeviceGrid(a), ParameterGrid(a))
        BY <1>1, ArenaGrids, Zenon DEF DeviceGrid, ParameterGrid
      <4>2. \A e \in 1..Size(DeviceGrid(a)) : Size(DeviceGrid(a)[e]) \in Nat \ {0}
        BY GridSizes, Zenon DEF ArenaOK, GridsOK
      <4> QED BY <4>1, <4>2, Zenon DEF FieldsAre
    <3>2. l.chunk \in 1..Size(a.chunks) => l.row # Size(a.chunks[l.chunk].devices) + 1
      BY <1>5, <3>1
    <3> QED BY <3>2, Zenon DEF Takes
  <2>2. old = [definition |-> definition, devices |-> << >>, parameters |-> << >>]
    BY <1>5 DEF NewChunk
  <2>3. old \in DeviceChunk
    <3>1. PICK e : e = << >>
      OBVIOUS
    <3>2. e \in Seq(Devices) /\ e \in Seq(ParameterValues)
      BY <3>1
    <3>3. old = [definition |-> definition, devices |-> e, parameters |-> e]
      BY <2>2, <3>1
    <3> HIDE DEF old
    <3> QED BY <3>2, <3>3 DEF DeviceChunk
  <2>4. /\ k \in DeviceChunk /\ k.definition = definition
        /\ k.devices = Append(<< >>, d) /\ k.parameters = Append(<< >>, Unassigned)
    <3>1. Pushed(old, d, k)
      BY <1>3, <2>3, PushFacts, Zenon
    <3>2. old.definition = definition /\ old.devices = << >> /\ old.parameters = << >>
      BY <2>2
    <3> HIDE DEF old
    <3> QED BY <3>1, <3>2, Zenon DEF Pushed
  <2>5. k.devices = <<d>> /\ k.parameters = <<Unassigned>>
    <3>1. \A x : Append(<< >>, x) = <<x>>
      OBVIOUS
    <3> QED BY <2>4, <3>1, Zenon
  <2>6. b.chunks = Append(a.chunks, k)
    BY <1>4, <1>5
  <2>7. ChunksInserted(a.chunks, l, definition, d, b.chunks)
    BY <1>5, <2>4, <2>5, <2>6, Zenon DEF ChunksInserted
  <2>8. b.chunks[l.chunk] = k
    <3>1. Appended(a.chunks, k, b.chunks)
      BY <1>1, <2>4, <2>6, AppendFacts, Zenon
    <3> QED BY <2>1, <3>1, Zenon DEF Appended
  <2>9. Full(k) <=> Size(b.chunks[l.chunk].devices) = ChunkCapacity
    BY <2>8, Lengths, Zenon
  <2> HIDE DEF old
  <2> QED BY <1>4, <2>6, <2>7, <2>9, <1>5 DEF InsertsInto, HintAfter
<1>6. CASE l.row # 1
  <2>1. l.chunk \in 1..Size(a.chunks) /\ a.chunks[l.chunk].definition = definition
    BY <1>6, Zenon DEF Takes
  <2>2. old = a.chunks[l.chunk] /\ old \in DeviceChunk
    BY <1>2, <1>6, <2>1
  <2>3. /\ k \in DeviceChunk /\ k.definition = definition
        /\ k.devices = Append(a.chunks[l.chunk].devices, d)
        /\ k.parameters = Append(a.chunks[l.chunk].parameters, Unassigned)
    <3> HIDE DEF old
    <3>1. Pushed(old, d, k)
      BY <1>3, <2>2, PushFacts, Zenon
    <3> QED BY <2>1, <2>2, <3>1, Zenon DEF Pushed
  <2>4. b.chunks = [a.chunks EXCEPT ![l.chunk] = k]
    BY <1>4, <1>6
  <2>5. ChunksInserted(a.chunks, l, definition, d, b.chunks)
    BY <1>6, <2>1, <2>3, <2>4, Zenon DEF ChunksInserted
  <2>6. b.chunks[l.chunk] = k
    <3>1. Replaced(a.chunks, l.chunk, k, b.chunks)
      BY <1>1, <2>1, <2>3, <2>4, ExceptFacts, Zenon
    <3> QED BY <3>1, Zenon DEF Replaced
  <2>7. Full(k) <=> Size(b.chunks[l.chunk].devices) = ChunkCapacity
    BY <2>6, Lengths, Zenon
  <2> HIDE DEF old
  <2> QED BY <1>4, <2>4, <2>5, <2>7, <1>6 DEF InsertsInto, HintAfter
<1> QED BY <1>5, <1>6

\* The chunks after an insert: one of the definition is there, the others are as before.
OneChunk(ch, c, definition, new) ==
    /\ c \in 1..Size(new) /\ new[c].definition = definition
    /\ \A e \in 1..Size(ch) : e # c => e \in 1..Size(new) /\ new[e] = ch[e]

\* A chunk of the definition gets the row, the others are as before.
LEMMA InsertOneChunk ==
    ASSUME NEW ch \in Seq(DeviceChunk), NEW l, NEW definition, NEW d \in Devices,
           l.row = 1 => l.chunk = Size(ch) + 1,
           NEW new, ChunksInserted(ch, l, definition, d, new)
    PROVE  new \in Seq(DeviceChunk) /\ OneChunk(ch, l.chunk, definition, new)
<1>1. PICK k \in DeviceChunk :
        /\ k.definition = definition
        /\ \/ l.row = 1 /\ new = Append(ch, k)
           \/ l.row # 1 /\ l.chunk \in 1..Size(ch) /\ new = [ch EXCEPT ![l.chunk] = k]
  BY Zenon DEF ChunksInserted
<1>2. Size(ch) \in Nat
  BY SeqFacts, Zenon
<1>3. CASE l.row = 1 /\ new = Append(ch, k)
  <2>1. new \in Seq(DeviceChunk) /\ Appended(ch, k, new)
    BY <1>3, AppendFacts, Zenon
  <2>2. /\ Size(new) = Size(ch) + 1 /\ new[Size(ch) + 1] = k
        /\ \A e \in 1..Size(ch) : new[e] = ch[e]
    BY <2>1, Zenon DEF Appended
  <2>3. l.chunk \in 1..Size(new) /\ \A e \in 1..Size(ch) : e \in 1..Size(new)
    BY <1>2, <1>3, <2>2
  <2> QED BY <1>1, <1>3, <2>1, <2>2, <2>3, Zenon DEF OneChunk
<1>4. CASE l.row # 1 /\ l.chunk \in 1..Size(ch) /\ new = [ch EXCEPT ![l.chunk] = k]
  <2>1. new \in Seq(DeviceChunk) /\ Replaced(ch, l.chunk, k, new)
    BY <1>4, ExceptFacts, Zenon
  <2> QED BY <1>1, <1>4, <2>1, Zenon DEF OneChunk, Replaced
<1> QED BY <1>1, <1>3, <1>4

\* Both grids of an arena after an insert.
GridsInserted(ch, l, d, new) ==
    /\ Mapped(DevicesIn, new) = GridInsert(Mapped(DevicesIn, ch), l, d)
    /\ Mapped(ParametersIn, new) = GridInsert(Mapped(ParametersIn, ch), l, Unassigned)

\* The devices and the parameters of an arena get a row each.
LEMMA InsertGrids ==
    ASSUME NEW ch \in Seq(DeviceChunk), NEW l, NEW definition, NEW d \in Devices,
           NEW new, ChunksInserted(ch, l, definition, d, new)
    PROVE  GridsInserted(ch, l, d, new)
<1>g. PICK g : g = Mapped(DevicesIn, ch)
  OBVIOUS
<1>p. PICK p : p = Mapped(ParametersIn, ch)
  OBVIOUS
<1>1. PICK k \in DeviceChunk :
        /\ k.definition = definition
        /\ \/ /\ l.row = 1 /\ k.devices = <<d>> /\ k.parameters = <<Unassigned>>
              /\ new = Append(ch, k)
           \/ /\ l.row # 1 /\ l.chunk \in 1..Size(ch) /\ ch[l.chunk].definition = definition
              /\ k.devices = Append(ch[l.chunk].devices, d)
              /\ k.parameters = Append(ch[l.chunk].parameters, Unassigned)
              /\ new = [ch EXCEPT ![l.chunk] = k]
  BY Zenon DEF ChunksInserted
<1>2. DevicesIn[k] = k.devices /\ ParametersIn[k] = k.parameters
  BY Zenon DEF DevicesIn, ParametersIn
<1>3. CASE l.row = 1 /\ new = Append(ch, k) /\ k.devices = <<d>> /\ k.parameters = <<Unassigned>>
  <2>a. PICK u : u = Append(Mapped(DevicesIn, ch), DevicesIn[k])
    OBVIOUS
  <2>b. PICK v : v = Append(Mapped(ParametersIn, ch), ParametersIn[k])
    OBVIOUS
  <2>c. new = Append(ch, k)
    BY <1>3
  <2>d. DevicesIn \in [DeviceChunk -> Seq(Devices)]
    BY FieldFunctions, Zenon
  <2>e. ParametersIn \in [DeviceChunk -> Seq(ParameterValues)]
    BY FieldFunctions, Zenon
  <2>f. Mapped(DevicesIn, new) = u
    BY <2>a, <2>c, <2>d, MappedAppend, Zenon
  <2>g. Mapped(ParametersIn, new) = v
    BY <2>b, <2>c, <2>e, MappedAppend, Zenon
  <2>1. Mapped(DevicesIn, new) = Append(g, DevicesIn[k])
    BY <1>g, <2>a, <2>f
  <2>2. Mapped(ParametersIn, new) = Append(p, ParametersIn[k])
    BY <1>p, <2>b, <2>g
  <2> QED BY <1>g, <1>p, <1>2, <1>3, <2>1, <2>2, Zenon DEF GridInsert, GridsInserted
<1>4. CASE /\ l.row # 1 /\ l.chunk \in 1..Size(ch) /\ new = [ch EXCEPT ![l.chunk] = k]
           /\ k.devices = Append(ch[l.chunk].devices, d)
           /\ k.parameters = Append(ch[l.chunk].parameters, Unassigned)
  <2>a. PICK u : u = [g EXCEPT ![l.chunk] = DevicesIn[k]]
    OBVIOUS
  <2>b. PICK v : v = [p EXCEPT ![l.chunk] = ParametersIn[k]]
    OBVIOUS
  <2>c. IsExcept(ch, l.chunk, k, new) /\ IsExcept(g, l.chunk, DevicesIn[k], u)
        /\ IsExcept(p, l.chunk, ParametersIn[k], v)
    BY <1>4, <2>a, <2>b DEF IsExcept
  <2>d. l.chunk \in 1..Size(ch)
    BY <1>4
  <2>e. DevicesIn \in [DeviceChunk -> Seq(Devices)] /\ ParametersIn \in [DeviceChunk -> Seq(ParameterValues)]
    BY FieldFunctions, Zenon
  <2>1. Mapped(DevicesIn, new) = u
    BY <1>g, <1>p, <2>c, <2>d, <2>e, MappedExcept, ZenonT(60)
  <2>2. Mapped(ParametersIn, new) = v
    BY <1>g, <1>p, <2>c, <2>d, <2>e, MappedExcept, ZenonT(60)
  <2>3. g[l.chunk] = ch[l.chunk].devices /\ p[l.chunk] = ch[l.chunk].parameters
    <3>1. FieldsAre(ch, g, p)
      BY <1>g, <1>p, ArenaGrids, Zenon
    <3> QED BY <1>4, <3>1, Zenon DEF FieldsAre
  <2>4. GridInsert(g, l, d) = [g EXCEPT ![l.chunk] = Append(g[l.chunk], d)]
    BY <1>4 DEF GridInsert
  <2>5. GridInsert(p, l, Unassigned) = [p EXCEPT ![l.chunk] = Append(p[l.chunk], Unassigned)]
    BY <1>4 DEF GridInsert
  <2>6. DevicesIn[k] = Append(g[l.chunk], d) /\ ParametersIn[k] = Append(p[l.chunk], Unassigned)
    BY <1>2, <1>4, <2>3, Zenon
  <2>7. GridInsert(g, l, d) = u /\ GridInsert(p, l, Unassigned) = v
    BY <2>a, <2>b, <2>4, <2>5, <2>6, Zenon
  <2> QED BY <1>g, <1>p, <2>1, <2>2, <2>7, Zenon DEF GridsInserted
<1> QED BY <1>1, <1>3, <1>4

\* A place where an arena takes a device is free.
LEMMA TakesFree ==
    ASSUME NEW a, ArenaOK(a), NEW definition, NEW l, Takes(a, definition, l), NEW g, g = DeviceGrid(a)
    PROVE  /\ Free(g, l) /\ Size(g) = Size(a.chunks) /\ Size(a.chunks) \in Nat
           /\ l.row = 1 => l.chunk = Size(a.chunks) + 1 /\ Size(a.chunks) < MaxChunks
           /\ l.row # 1 => /\ l.chunk \in 1..Size(a.chunks) /\ a.chunks[l.chunk].definition = definition
                           /\ Size(g[l.chunk]) # ChunkCapacity /\ l.row = Size(g[l.chunk]) + 1
           /\ \A c \in 1..Size(g) : Size(g[c]) \in 1..ChunkCapacity
<1>1. a.chunks \in Seq(DeviceChunk)
  <2>1. a \in Arenas
    BY Zenon DEF ArenaOK, GridsOK
  <2> QED BY <2>1 DEF Arenas
<1>2. Size(a.chunks) \in Nat
  BY <1>1, SeqFacts, Zenon
<1>3. FieldsAre(a.chunks, g, ParameterGrid(a))
  BY <1>1, ArenaGrids, Zenon DEF DeviceGrid, ParameterGrid
<1>4. \A e \in 1..Size(g) : Size(g[e]) \in Nat \ {0}
  BY GridSizes, Zenon DEF ArenaOK, GridsOK
<1>5. /\ Size(g) = Size(a.chunks)
      /\ \A e \in 1..Size(g) : g[e] = a.chunks[e].devices /\ Size(a.chunks[e].devices) <= ChunkCapacity
  BY <1>3, Zenon DEF FieldsAre, ArenaOK
<1>6. \A c \in 1..Size(g) : Size(g[c]) \in 1..ChunkCapacity
  BY <1>4, <1>5, ChunkCapacityAssumption
<1>7. CASE l.chunk = Size(a.chunks) + 1 /\ l.row = 1 /\ Size(a.chunks) < MaxChunks
  BY <1>2, <1>5, <1>6, <1>7 DEF Free, Takes
<1>8. CASE /\ l.chunk \in 1..Size(a.chunks)
           /\ a.chunks[l.chunk].definition = definition
           /\ Size(a.chunks[l.chunk].devices) # ChunkCapacity
           /\ l.row = Size(a.chunks[l.chunk].devices) + 1
  <2>1. g[l.chunk] = a.chunks[l.chunk].devices /\ Size(g[l.chunk]) \in Nat \ {0}
    BY <1>4, <1>5, <1>8
  <2>2. l.row # 1
    BY <1>8, <2>1
  <2>3. Free(g, l)
    BY <1>5, <1>8, <2>1 DEF Free, Takes
  <2> QED BY <1>2, <1>5, <1>6, <1>8, <2>1, <2>2, <2>3
<1> QED BY <1>7, <1>8 DEF Takes

\* An arena and the arena with one more device.
ArenaInserted(a, d, l, b) ==
    /\ Free(DeviceGrid(a), l)
    /\ b.directory = Inserted(a.directory, d, l)
    /\ DeviceGrid(b) = GridInsert(DeviceGrid(a), l, d)
    /\ ParameterGrid(b) = GridInsert(ParameterGrid(a), l, Unassigned)

\* An insert leaves the arena consistent, and the grids get one row each.
LEMMA ArenaInsert ==
    ASSUME NEW a, ArenaOK(a), NEW definition \in Definitions, NEW d \in Devices,
           d \notin Residents(a.directory),
           InsertionChunk(a, definition) # None \/ Size(a.chunks) < MaxChunks,
           NEW l, l = InsertLocation(a, definition), NEW b, b = Insert(a, d, definition)
    PROVE  ArenaOK(b) /\ ArenaInserted(a, d, l, b)
<1> DEFINE dir == a.directory
           ch == a.chunks
           hints == a.activeChunks
           g == DeviceGrid(a)
           p == ParameterGrid(a)
           new == b.chunks
<1>1. Takes(a, definition, l)
  BY InsertionPlace, Zenon
<1>2. /\ ch \in Seq(DeviceChunk) /\ dir \in [Devices -> Place] /\ hints \in [Definitions -> Nat]
  <2>1. a \in Arenas
    BY Zenon DEF ArenaOK, GridsOK
  <2> QED BY <2>1 DEF Arenas
<1>3. /\ Free(g, l) /\ Size(g) = Size(ch) /\ Size(ch) \in Nat
      /\ l.row = 1 => l.chunk = Size(ch) + 1 /\ Size(ch) < MaxChunks
      /\ l.row # 1 => /\ l.chunk \in 1..Size(ch) /\ ch[l.chunk].definition = definition
                      /\ Size(g[l.chunk]) # ChunkCapacity /\ l.row = Size(g[l.chunk]) + 1
      /\ \A c \in 1..Size(g) : Size(g[c]) \in 1..ChunkCapacity
  BY <1>1, TakesFree
<1>4. /\ ChunksInserted(ch, l, definition, d, new)
      /\ b = [ directory |-> Inserted(dir, d, l), chunks |-> new,
               activeChunks |-> [hints EXCEPT ![definition] = HintAfter(new, l.chunk)] ]
  <2>1. InsertsInto(a, d, definition, l, b)
    BY <1>1, InsertChunks, Zenon
  <2> QED BY <2>1 DEF InsertsInto
<1>5. new \in Seq(DeviceChunk) /\ OneChunk(ch, l.chunk, definition, new)
  BY <1>2, <1>3, <1>4, InsertOneChunk, Zenon
<1>6. DeviceGrid(b) = GridInsert(g, l, d) /\ ParameterGrid(b) = GridInsert(p, l, Unassigned)
  <2>1. GridsInserted(ch, l, d, new)
    BY <1>2, <1>4, InsertGrids, Zenon
  <2> QED BY <2>1, Zenon DEF DeviceGrid, ParameterGrid, GridsInserted
<1>7. b.directory = Inserted(dir, d, l) /\ ArenaInserted(a, d, l, b)
  BY <1>3, <1>4, <1>6 DEF ArenaInserted
<1>8. IsGrid(g, Devices) /\ IsGrid(p, ParameterValues) /\ Same(g, p) /\ DirectoryOK(dir, g)
      /\ HintsOK(ch, hints)
  BY Zenon DEF ArenaOK, GridsOK
<1>9. Unassigned \in ParameterValues /\ Free(p, l)
  <2>1. Unassigned \in ParameterValues
    BY DEF ParameterValues
  <2> QED BY <1>3, <1>8, <2>1, SameCells, Zenon
<1>10. IsGrid(DeviceGrid(b), Devices) /\ SizesInserted(g, l, DeviceGrid(b))
  BY <1>3, <1>6, <1>8, GridInsertFacts, Zenon
<1>11. IsGrid(ParameterGrid(b), ParameterValues)
  BY <1>6, <1>8, <1>9, GridInsertFacts, Zenon
<1>12. Same(DeviceGrid(b), ParameterGrid(b))
  BY <1>3, <1>6, <1>8, <1>9, SameInsert, Zenon
<1>13. DirectoryOK(b.directory, DeviceGrid(b))
  BY <1>3, <1>6, <1>7, <1>8, DirectoryInsert, Zenon
<1>14. b \in Arenas
  <2>1. b.directory \in [Devices -> Place]
    BY <1>13, Zenon DEF DirectoryOK
  <2>2. l.chunk \in Nat
    BY <1>1, Places DEF Takes
  <2>3. b.activeChunks \in [Definitions -> Nat]
    <3>1. PICK x : x = HintAfter(new, l.chunk)
      OBVIOUS
    <3>2. x \in Nat
      BY <2>2, <3>1 DEF None, HintAfter
    <3>3. b.activeChunks = [hints EXCEPT ![definition] = x]
      BY <1>4, <3>1
    <3> HIDE DEF hints
    <3> QED BY <1>2, <3>2, <3>3
  <2>4. b = [directory |-> b.directory, chunks |-> b.chunks, activeChunks |-> b.activeChunks]
    BY <1>4
  <2> QED BY <1>5, <2>1, <2>3, <2>4 DEF Arenas
<1>15. FieldsAre(b.chunks, DeviceGrid(b), ParameterGrid(b))
  BY <1>5, ArenaGrids, Zenon DEF DeviceGrid, ParameterGrid
<1>16. Size(b.chunks) <= MaxChunks
  <2>1. Size(b.chunks) = IF l.row = 1 THEN Size(g) + 1 ELSE Size(g)
    BY <1>10, <1>15, Zenon DEF FieldsAre, SizesInserted
  <2>2. Size(ch) <= MaxChunks
    BY Zenon DEF ArenaOK
  <2> QED BY <1>3, <2>1, <2>2, MaxChunksAssumption
<1>17. ASSUME NEW c \in 1..Size(b.chunks) PROVE Size(b.chunks[c].devices) <= ChunkCapacity
  <2>1. /\ Size(b.chunks) = IF l.row = 1 THEN Size(g) + 1 ELSE Size(g)
        /\ Size(b.chunks[c].devices) = IF c = l.chunk THEN l.row ELSE Size(g[c])
    BY <1>10, <1>15, <1>17, Zenon DEF FieldsAre, SizesInserted
  <2>2. l.row \in 1..ChunkCapacity
    <3>1. CASE l.row = 1
      BY <3>1, ChunkCapacityAssumption
    <3>2. CASE l.row # 1
      BY <1>3, <3>2, ChunkCapacityAssumption
    <3> QED BY <3>1, <3>2
  <2>3. c # l.chunk => c \in 1..Size(g)
    BY <1>3, <2>1
  <2> QED BY <1>3, <2>1, <2>2, <2>3, ChunkCapacityAssumption
<1>18. HintsOK(b.chunks, b.activeChunks)
  <2>1. ASSUME NEW f \in Definitions, b.activeChunks[f] # None
        PROVE  /\ b.activeChunks[f] \in 1..Size(new) /\ new[b.activeChunks[f]].definition = f
               /\ Size(new[b.activeChunks[f]].devices) # ChunkCapacity
    <3>1. CASE f = definition
      <4>1. b.activeChunks[f] = IF Size(new[l.chunk].devices) = ChunkCapacity THEN None ELSE l.chunk
        BY <1>2, <1>4, <3>1 DEF HintAfter
      <4>2. b.activeChunks[f] = l.chunk /\ Size(new[l.chunk].devices) # ChunkCapacity
        BY <2>1, <4>1
      <4> QED BY <1>5, <3>1, <4>2, Zenon DEF OneChunk
    <3>2. CASE f # definition
      <4>1. b.activeChunks[f] = hints[f]
        BY <1>2, <1>4, <3>2
      <4>2. hints[f] \in 1..Size(ch) /\ ch[hints[f]].definition = f
            /\ Size(ch[hints[f]].devices) # ChunkCapacity
        BY <1>8, <2>1, <4>1, Zenon DEF HintsOK
      <4>3. hints[f] # l.chunk
        BY <1>3, <3>2, <4>2
      <4>4. hints[f] \in 1..Size(new) /\ new[hints[f]] = ch[hints[f]]
        BY <1>5, <4>2, <4>3, Zenon DEF OneChunk
      <4> QED BY <4>1, <4>2, <4>4
    <3> QED BY <3>1, <3>2
  <2> HIDE DEF new
  <2> QED BY <2>1, Zenon DEF HintsOK, new
<1> QED BY <1>7, <1>10, <1>11, <1>12, <1>13, <1>14, <1>16, <1>17, <1>18, Zenon DEF ArenaOK, GridsOK

\* Removing an element that was replaced.
LEMMA SwapRemoveExcept ==
    ASSUME NEW S, NEW s, NEW i, NEW x, NEW t, NEW u,
           s \in Seq(S), i \in 1..Size(s), x \in S, IsExcept(s, i, x, t), u = SwapRemove(s, i)
    PROVE  SwapRemove(t, i) = u
<1>1. t \in Seq(S) /\ Replaced(s, i, x, t)
  BY ExceptFacts, Zenon DEF IsExcept
<1>2. /\ Size(t) = Size(s) /\ i \in 1..Size(t)
      /\ \A j \in 1..Size(s) : j # i => t[j] = s[j]
  BY <1>1, Zenon DEF Replaced
<1>4. PICK v : v = SwapRemove(t, i)
  OBVIOUS
<1>5. u \in Seq(S) /\ SwapRemoved(s, i, u)
  BY SwapRemoveFacts, Zenon
<1>6. v \in Seq(S) /\ SwapRemoved(t, i, v)
  BY <1>1, <1>2, <1>4, SwapRemoveFacts, Zenon
<1>7. /\ Size(u) = Size(s) - 1 /\ Size(v) = Size(s) - 1
      /\ \A j \in 1..(Size(s) - 1) : u[j] = IF j = i THEN s[Size(s)] ELSE s[j]
      /\ \A j \in 1..(Size(s) - 1) : v[j] = IF j = i THEN t[Size(s)] ELSE t[j]
  BY <1>2, <1>5, <1>6 DEF SwapRemoved
<1>8. Size(s) \in Nat
  BY SeqFacts, Zenon
<1>9. ASSUME NEW j \in 1..Size(u) PROVE u[j] = v[j]
  <2>1. j \in 1..(Size(s) - 1) /\ j \in 1..Size(s) /\ Size(s) \in 1..Size(s) /\ j # Size(s)
    BY <1>7, <1>8
  <2> QED BY <1>2, <1>7, <2>1
<1>10. u = v
  BY <1>5, <1>6, <1>7, <1>9, SameSeq, Zenon
<1> QED BY <1>4, <1>10

\* What is known of the row of a device.
RowOf(a, d, l) ==
    /\ l = a.directory[d] /\ l # NoLocation /\ Cell(DeviceGrid(a), l)
    /\ l.chunk \in 1..Size(a.chunks) /\ a.chunks[l.chunk] \in DeviceChunk
    /\ DeviceGrid(a)[l.chunk] = a.chunks[l.chunk].devices
    /\ ParameterGrid(a)[l.chunk] = a.chunks[l.chunk].parameters
    /\ l.row \in 1..Size(a.chunks[l.chunk].devices)
    /\ Size(a.chunks[l.chunk].parameters) = Size(a.chunks[l.chunk].devices)
    /\ Size(a.chunks[l.chunk].devices) \in Nat
    /\ a.chunks[l.chunk].devices[l.row] = d

\* A device of a consistent arena has a row.
LEMMA ResidentRow ==
    ASSUME NEW a, ArenaOK(a), NEW d, d \in Residents(a.directory), NEW l, l = a.directory[d]
    PROVE  RowOf(a, d, l)
<1>1. a.chunks \in Seq(DeviceChunk)
  <2>1. a \in Arenas
    BY Zenon DEF ArenaOK, GridsOK
  <2> QED BY <2>1 DEF Arenas
<1>2. PICK g : g = DeviceGrid(a)
  OBVIOUS
<1>3. PICK p : p = ParameterGrid(a)
  OBVIOUS
<1>4. FieldsAre(a.chunks, g, p)
  BY <1>1, <1>2, <1>3, ArenaGrids, Zenon DEF DeviceGrid, ParameterGrid
<1>5. Cell(g, l) /\ At(g, l) = d /\ l # NoLocation
  BY <1>2, Zenon DEF ArenaOK, DirectoryOK, Residents
<1>6. l.chunk \in 1..Size(g) /\ l.row \in 1..Size(g[l.chunk])
  BY <1>5, Zenon DEF Cell
<1>7. l.chunk \in 1..Size(a.chunks)
  BY <1>4, <1>6, Zenon DEF FieldsAre
<1>8. a.chunks[l.chunk] \in DeviceChunk
  BY <1>1, <1>7, SeqFacts, Zenon
<1>9. g[l.chunk] = a.chunks[l.chunk].devices /\ p[l.chunk] = a.chunks[l.chunk].parameters
  BY <1>4, <1>7, Zenon DEF FieldsAre
<1>10. Size(p[l.chunk]) = Size(g[l.chunk])
  BY <1>2, <1>3, <1>6, Zenon DEF ArenaOK, GridsOK, Same
<1>11. Size(g[l.chunk]) \in Nat
  <2>1. IsGrid(g, Devices)
    BY <1>2, Zenon DEF ArenaOK, GridsOK
  <2>2. \A c \in 1..Size(g) : Size(g[c]) \in Nat \ {0}
    BY <2>1, GridSizes, Zenon
  <2> QED BY <1>6, <2>2
<1>12. g[l.chunk][l.row] = d
  BY <1>5, Zenon DEF At
<1> QED BY <1>2, <1>3, <1>5, <1>6, <1>7, <1>8, <1>9, <1>10, <1>11, <1>12 DEF RowOf

\* The directory after a row went from a chunk that keeps rows.
RowMoved(a, d, l, devices) ==
    [e \in Devices |-> IF e = d THEN NoLocation
                       ELSE IF l.row \in 1..Size(devices) /\ e = devices[l.row] THEN l
                       ELSE a.directory[e]]
RowGone(a, d, l, k, b) ==
    /\ k \in DeviceChunk /\ k.definition = a.chunks[l.chunk].definition
    /\ k.devices = SwapRemove(a.chunks[l.chunk].devices, l.row)
    /\ k.parameters = SwapRemove(a.chunks[l.chunk].parameters, l.row)
    /\ SwapRemoved(a.chunks[l.chunk].devices, l.row, k.devices)
    /\ b.chunks = [a.chunks EXCEPT ![l.chunk] = k]
    /\ b.directory = RowMoved(a, d, l, k.devices)
    /\ b.activeChunks = a.activeChunks
    /\ b = [directory |-> b.directory, chunks |-> b.chunks, activeChunks |-> b.activeChunks]

\* What WithoutRow does.
LEMMA WithoutRowFacts ==
    ASSUME NEW a, ArenaOK(a), NEW d, d \in Residents(a.directory), NEW l, l = a.directory[d],
           NEW b, b = WithoutRow(a, d)
    PROVE  \E k : RowGone(a, d, l, k, b)
<1>1. RowOf(a, d, l)
  BY ResidentRow, Zenon
<1>2. PICK old : old = a.chunks[l.chunk]
  OBVIOUS
<1>3. /\ old \in DeviceChunk /\ l.row \in 1..Size(old.devices) /\ l.row \in 1..Size(old.parameters)
      /\ l.chunk \in 1..Size(a.chunks)
  BY <1>1, <1>2, Zenon DEF RowOf
<1>4. PICK k : k = [old EXCEPT !.devices = SwapRemove(@, l.row), !.parameters = SwapRemove(@, l.row)]
  OBVIOUS
<1>5. old.definition \in Definitions /\ old.devices \in Seq(Devices) /\ old.parameters \in Seq(ParameterValues)
  BY <1>3 DEF DeviceChunk
<1>6. k = [ definition |-> old.definition, devices |-> SwapRemove(old.devices, l.row),
            parameters |-> SwapRemove(old.parameters, l.row) ]
  <2>1. old = [definition |-> old.definition, devices |-> old.devices, parameters |-> old.parameters]
    BY <1>3 DEF DeviceChunk
  <2> QED BY <1>4, <2>1
<1>7. PICK s : s = SwapRemove(old.devices, l.row)
  OBVIOUS
<1>8. PICK t : t = SwapRemove(old.parameters, l.row)
  OBVIOUS
<1>9. s \in Seq(Devices) /\ SwapRemoved(old.devices, l.row, s)
  BY <1>3, <1>5, <1>7, SwapRemoveFacts, Zenon
<1>10. t \in Seq(ParameterValues)
  BY <1>3, <1>5, <1>8, SwapRemoveFacts, Zenon
<1>11. k = [definition |-> old.definition, devices |-> s, parameters |-> t]
  BY <1>6, <1>7, <1>8
<1>12. k \in DeviceChunk /\ k.definition = old.definition /\ k.devices = s /\ k.parameters = t
  BY <1>5, <1>9, <1>10, <1>11 DEF DeviceChunk
<1>13. DOMAIN s = 1..Size(s)
  BY <1>9, SeqFacts, Zenon
<1>14. a = [directory |-> a.directory, chunks |-> a.chunks, activeChunks |-> a.activeChunks]
  <2>1. a \in Arenas
    BY Zenon DEF ArenaOK, GridsOK
  <2> QED BY <2>1 DEF Arenas
<1>15. PICK dir : dir = [e \in Devices |->
            IF e = d THEN NoLocation
            ELSE IF a.directory[d].row \in DOMAIN k.devices /\ e = k.devices[a.directory[d].row]
                 THEN a.directory[d] ELSE a.directory[e]]
  OBVIOUS
<1>a. dir = RowMoved(a, d, l, s)
  BY <1>12, <1>13, <1>15, Zenon DEF RowMoved
<1>b. b = [a EXCEPT !.chunks[a.directory[d].chunk] = k, !.directory = dir]
  BY <1>2, <1>4, <1>15 DEF WithoutRow
<1>16. b = [ directory |-> RowMoved(a, d, l, s), chunks |-> [a.chunks EXCEPT ![l.chunk] = k],
             activeChunks |-> a.activeChunks ]
  BY <1>14, <1>a, <1>b
<1>17. b.chunks = [a.chunks EXCEPT ![l.chunk] = k] /\ b.directory = RowMoved(a, d, l, s)
       /\ b.activeChunks = a.activeChunks
  BY <1>16
<1> QED BY <1>2, <1>7, <1>8, <1>9, <1>12, <1>16, <1>17 DEF RowGone

\* Replacing a chunk replaces its rows.
LEMMA GridsReplaced ==
    ASSUME NEW ch, NEW c, NEW k, NEW new, NEW g, NEW p, NEW u, NEW v,
           ch \in Seq(DeviceChunk), c \in 1..Size(ch), k \in DeviceChunk, IsExcept(ch, c, k, new),
           g = Mapped(DevicesIn, ch), p = Mapped(ParametersIn, ch),
           IsExcept(g, c, k.devices, u), IsExcept(p, c, k.parameters, v)
    PROVE  Mapped(DevicesIn, new) = u /\ Mapped(ParametersIn, new) = v
<1>1. DevicesIn[k] = k.devices /\ ParametersIn[k] = k.parameters
  BY Zenon DEF DevicesIn, ParametersIn
<1>2. IsExcept(g, c, DevicesIn[k], u) /\ IsExcept(p, c, ParametersIn[k], v)
  BY <1>1
<1>3. Mapped(DevicesIn, new) = u
  BY <1>2, FieldFunctions, MappedExcept, Zenon
<1>4. Mapped(ParametersIn, new) = v
  BY <1>2, FieldFunctions, MappedExcept, Zenon
<1> QED BY <1>3, <1>4

\* What a removal does to the parts of an arena.
RemovesFrom(a, d, l, b) ==
    /\ b.chunks \in Seq(DeviceChunk)
    /\ DeviceGrid(b) = GridRemove(DeviceGrid(a), l)
    /\ ParameterGrid(b) = GridRemove(ParameterGrid(a), l)
    /\ b.directory = Removed(a.directory, DeviceGrid(a), d)
    /\ b.activeChunks \in [Definitions -> Nat]
    /\ HintsOK(b.chunks, b.activeChunks)
    /\ b = [directory |-> b.directory, chunks |-> b.chunks, activeChunks |-> b.activeChunks]

\* The last row of a chunk takes the place of the one that goes.
LEMMA RemoveRow ==
    ASSUME NEW a, ArenaOK(a), NEW d, d \in Residents(a.directory), NEW l, l = a.directory[d],
           Size(a.chunks[l.chunk].devices) # 1, NEW b, b = Remove(a, d)
    PROVE  RemovesFrom(a, d, l, b)
<1> DEFINE dir == a.directory
           ch == a.chunks
           hints == a.activeChunks
           g == DeviceGrid(a)
           p == ParameterGrid(a)
           c == l.chunk
           n == Size(g[c])
<1>1. RowOf(a, d, l)
  BY ResidentRow, Zenon
<1>2. /\ ch \in Seq(DeviceChunk) /\ dir \in [Devices -> Place] /\ hints \in [Definitions -> Nat]
  <2>1. a \in Arenas
    BY Zenon DEF ArenaOK, GridsOK
  <2> QED BY <2>1 DEF Arenas
<1>3. PICK w : w = WithoutRow(a, d)
  OBVIOUS
<1>4. PICK k : RowGone(a, d, l, k, w)
  BY <1>3, WithoutRowFacts, Zenon
<1>5. b = [w EXCEPT !.activeChunks[ch[c].definition] = c]
  <2>1. ~Emptied(a, d)
    BY Lengths, Zenon
  <2> QED BY <1>3, <2>1 DEF Remove
<1>6. /\ k \in DeviceChunk /\ k.definition = ch[c].definition
      /\ k.devices = SwapRemove(g[c], l.row) /\ k.parameters = SwapRemove(p[c], l.row)
      /\ SwapRemoved(g[c], l.row, k.devices)
      /\ w.chunks = [ch EXCEPT ![c] = k] /\ w.directory = RowMoved(a, d, l, k.devices)
      /\ w.activeChunks = hints
      /\ w = [directory |-> w.directory, chunks |-> w.chunks, activeChunks |-> w.activeChunks]
  BY <1>1, <1>4, Zenon DEF RowGone, RowOf
<1>7. /\ c \in 1..Size(ch) /\ g[c] = ch[c].devices /\ p[c] = ch[c].parameters
      /\ l.row \in 1..n /\ Size(p[c]) = n /\ n \in Nat /\ n # 1 /\ ch[c] \in DeviceChunk
      /\ g[c][l.row] = d
  <2>1. /\ c \in 1..Size(ch) /\ g[c] = ch[c].devices /\ p[c] = ch[c].parameters
        /\ l.row \in 1..Size(ch[c].devices) /\ Size(ch[c].parameters) = Size(ch[c].devices)
        /\ Size(ch[c].devices) \in Nat /\ ch[c] \in DeviceChunk /\ ch[c].devices[l.row] = d
    BY <1>1, Zenon DEF RowOf
  <2>2. Size(ch[c].devices) # 1
    BY Zenon
  <2> QED BY <2>1, <2>2, Zenon
<1>8. b = [ directory |-> w.directory, chunks |-> w.chunks,
            activeChunks |-> [hints EXCEPT ![ch[c].definition] = c] ]
  <2>1. /\ w.activeChunks = hints
        /\ w = [directory |-> w.directory, chunks |-> w.chunks, activeChunks |-> w.activeChunks]
    BY <1>6, Zenon
  <2> PICK x : x = ch[c].definition
    OBVIOUS
  <2>2. b = [w EXCEPT !.activeChunks[x] = c]
    BY <1>5
  <2> HIDE DEF ch, hints, c
  <2>3. b = [ directory |-> w.directory, chunks |-> w.chunks,
              activeChunks |-> [w.activeChunks EXCEPT ![x] = c] ]
    BY <2>1, <2>2
  <2> QED BY <2>1, <2>3
<1>9. b.directory = w.directory /\ b.chunks = w.chunks
      /\ b.activeChunks = [hints EXCEPT ![ch[c].definition] = c]
  BY <1>8
<1>10. b.chunks \in Seq(DeviceChunk) /\ Replaced(ch, c, k, b.chunks)
  <2>1. b.chunks = [ch EXCEPT ![c] = k]
    BY <1>6, <1>9
  <2> QED BY <1>2, <1>6, <1>7, <2>1, ExceptFacts, Zenon
<1>11. DeviceGrid(b) = GridRemove(g, l) /\ ParameterGrid(b) = GridRemove(p, l)
  <2>1. PICK new : new = b.chunks
    OBVIOUS
  <2>2. PICK u : u = [g EXCEPT ![c] = k.devices]
    OBVIOUS
  <2>3. PICK v : v = [p EXCEPT ![c] = k.parameters]
    OBVIOUS
  <2>4. IsExcept(ch, c, k, new) /\ IsExcept(g, c, k.devices, u) /\ IsExcept(p, c, k.parameters, v)
    BY <1>6, <1>9, <2>1, <2>2, <2>3 DEF IsExcept
  <2>a. ch \in Seq(DeviceChunk) /\ c \in 1..Size(ch) /\ k \in DeviceChunk
    BY <1>2, <1>6, <1>7
  <2>b. g = Mapped(DevicesIn, ch) /\ p = Mapped(ParametersIn, ch)
    BY Zenon DEF DeviceGrid, ParameterGrid
  <2>c. Mapped(DevicesIn, new) = u /\ Mapped(ParametersIn, new) = v
    BY <2>4, <2>a, <2>b, GridsReplaced, Zenon
  <2>5. DeviceGrid(b) = u /\ ParameterGrid(b) = v
    BY <2>1, <2>c, Zenon DEF DeviceGrid, ParameterGrid
  <2>6. k.devices = SwapRemove(g[c], l.row) /\ k.parameters = SwapRemove(p[c], l.row)
    BY <1>6
  <2>7. GridRemove(g, l) = [g EXCEPT ![c] = SwapRemove(g[c], l.row)]
    BY <1>7 DEF GridRemove
  <2>8. GridRemove(p, l) = [p EXCEPT ![c] = SwapRemove(p[c], l.row)]
    BY <1>7 DEF GridRemove
  <2> QED BY <2>2, <2>3, <2>5, <2>6, <2>7, <2>8, Zenon
<1>12. b.directory = Removed(dir, g, d)
  <2>1. PICK last : last = [chunk |-> c, row |-> n]
    OBVIOUS
  <2>2. last.chunk = c /\ last.row = n /\ last \in Place /\ Cell(g, last) /\ At(g, last) = g[c][n]
    <3>1. c \in 1..Size(g) /\ l \in Place
      BY <1>1, Zenon DEF RowOf, Cell
    <3>2. c \in Nat
      BY <3>1, Places
    <3>3. last.chunk = c /\ last.row = n /\ n \in 1..n
      BY <1>7, <2>1
    <3>4. last \in Place
      <4>1. n \in Nat
        BY <1>7, Zenon
      <4> HIDE DEF c, n
      <4> QED BY <2>1, <3>2, <4>1 DEF Place
    <3> QED BY <3>1, <3>3, <3>4 DEF Cell, At
  <2>3. DirectoryOK(dir, g)
    BY Zenon DEF ArenaOK
  <2>4. g[c][n] \in Devices /\ dir[g[c][n]] = last /\ last # NoLocation
    BY <2>2, <2>3, NoCell, Zenon DEF DirectoryOK
  <2>5. Size(k.devices) = n - 1 /\ (l.row \in 1..(n - 1) => k.devices[l.row] = g[c][n])
    BY <1>6, Zenon DEF SwapRemoved
  <2>6. ASSUME NEW e \in Devices
        PROVE  RowMoved(a, d, l, k.devices)[e] = Removed(dir, g, d)[e]
    <3>1. RowMoved(a, d, l, k.devices)[e] =
            IF e = d THEN NoLocation
            ELSE IF l.row \in 1..Size(k.devices) /\ e = k.devices[l.row] THEN l ELSE dir[e]
      BY Zenon DEF RowMoved
    <3>2. Removed(dir, g, d)[e] = IF e = d \/ dir[e] = NoLocation THEN NoLocation ELSE To(g, l, dir[e])
      BY Zenon DEF Removed
    <3>3. To(g, l, dir[e]) = IF dir[e].chunk = c /\ dir[e].row = n THEN l ELSE dir[e]
      BY <1>7 DEF To
    <3>4. dir[e].chunk = c /\ dir[e].row = n <=> dir[e] = last
      <4>1. dir[e] \in Place
        BY <1>2
      <4>2. dir[e] = last <=> dir[e].chunk = last.chunk /\ dir[e].row = last.row
        BY <2>2, <4>1, Places, Zenon
      <4> QED BY <2>2, <4>2, Zenon
    <3>5. dir[e] = last <=> e = g[c][n]
      <4>1. e = g[c][n] => dir[e] = last
        BY <2>4, Zenon
      <4>2. dir[e] = last => e \in Residents(dir)
        BY <2>4, Zenon DEF Residents
      <4>3. e \in Residents(dir) => At(g, dir[e]) = e
        BY <2>3, Zenon DEF DirectoryOK
      <4> QED BY <2>2, <4>1, <4>2, <4>3, Zenon
    <3>6. e # d /\ e = g[c][n] => l.row \in 1..(n - 1)
      <4>1. \A m \in Nat : \A r : r \in 1..m /\ r # m => r \in 1..(m - 1)
        OBVIOUS
      <4>2. n \in Nat /\ l.row \in 1..n /\ g[c][l.row] = d
        BY <1>7, Zenon
      <4> QED BY <4>1, <4>2, Zenon
    <3>7. CASE e = d
      BY <3>1, <3>2, <3>7
    <3>8. CASE e # d /\ e = g[c][n]
      BY <2>4, <2>5, <3>1, <3>2, <3>3, <3>4, <3>5, <3>6, <3>8, Zenon
    <3>9. CASE e # d /\ e # g[c][n]
      BY <2>5, <3>1, <3>2, <3>3, <3>4, <3>5, <3>9, Zenon
    <3> QED BY <3>7, <3>8, <3>9
  <2>7. RowMoved(a, d, l, k.devices) = Removed(dir, g, d)
    BY <2>6 DEF RowMoved, Removed
  <2> QED BY <1>6, <1>9, <2>7
<1>13. b.activeChunks \in [Definitions -> Nat] /\ HintsOK(b.chunks, b.activeChunks)
  <2>1. /\ Size(b.chunks) = Size(ch) /\ b.chunks[c] = k
        /\ \A e \in 1..Size(ch) : e # c => b.chunks[e] = ch[e]
    BY <1>10, Zenon DEF Replaced
  <2>2. Size(k.devices) # ChunkCapacity
    <3>1. Size(k.devices) = n - 1
      BY <1>6, Zenon DEF SwapRemoved
    <3>2. n <= ChunkCapacity
      BY <1>7, Zenon DEF ArenaOK
    <3> QED BY <1>7, <3>1, <3>2, ChunkCapacityAssumption
  <2>3. Size(ch) \in Nat /\ c \in Nat
    <3>1. Size(ch) \in Nat
      BY <1>2, SeqFacts, Zenon
    <3> QED BY <1>7, <3>1
  <2>4. ch[c].definition \in Definitions
    BY <1>7 DEF DeviceChunk
  <2>5. HintsOK(ch, hints)
    BY Zenon DEF ArenaOK
  <2>6. /\ b.activeChunks \in [Definitions -> Nat] /\ b.activeChunks[ch[c].definition] = c
        /\ \A f \in Definitions : f # ch[c].definition => b.activeChunks[f] = hints[f]
    <3> HIDE DEF ch, c, hints
    <3> QED BY <1>2, <1>9, <2>3, <2>4
  <2>7. ASSUME NEW f \in Definitions, b.activeChunks[f] # None
        PROVE  /\ b.activeChunks[f] \in 1..Size(b.chunks) /\ b.chunks[b.activeChunks[f]].definition = f
               /\ Size(b.chunks[b.activeChunks[f]].devices) # ChunkCapacity
    <3>1. CASE f = ch[c].definition
      BY <1>6, <1>7, <2>1, <2>2, <2>6, <3>1, Zenon
    <3>2. CASE f # ch[c].definition
      <4>1. b.activeChunks[f] = hints[f]
        BY <2>6, <3>2, Zenon
      <4>2. hints[f] \in 1..Size(ch) /\ ch[hints[f]].definition = f
            /\ Size(ch[hints[f]].devices) # ChunkCapacity
        BY <2>5, <2>7, <4>1, Zenon DEF HintsOK
      <4>3. hints[f] # c
        BY <3>2, <4>2, Zenon
      <4>4. b.chunks[hints[f]] = ch[hints[f]]
        BY <2>1, <4>2, <4>3, Zenon
      <4> QED BY <2>1, <4>1, <4>2, <4>4, Zenon
    <3> QED BY <3>1, <3>2
  <2> QED BY <2>6, <2>7, Zenon DEF HintsOK
<1>14. b = [directory |-> b.directory, chunks |-> b.chunks, activeChunks |-> b.activeChunks]
  BY <1>8
<1> QED BY <1>10, <1>11, <1>12, <1>13, <1>14, Zenon DEF RemovesFrom

\* The last chunk takes the place of one that loses its only row.
LEMMA RemoveChunk ==
    ASSUME NEW a, ArenaOK(a), NEW d, d \in Residents(a.directory), NEW l, l = a.directory[d],
           Size(a.chunks[l.chunk].devices) = 1, NEW b, b = Remove(a, d)
    PROVE  RemovesFrom(a, d, l, b)
<1> DEFINE dir == a.directory
           ch == a.chunks
           hints == a.activeChunks
           g == DeviceGrid(a)
           p == ParameterGrid(a)
           c == l.chunk
           last == Size(ch)
<1>1. RowOf(a, d, l)
  BY ResidentRow, Zenon
<1>2. /\ ch \in Seq(DeviceChunk) /\ dir \in [Devices -> Place] /\ hints \in [Definitions -> Nat]
  <2>1. a \in Arenas
    BY Zenon DEF ArenaOK, GridsOK
  <2> QED BY <2>1 DEF Arenas
<1>3. PICK w : w = WithoutRow(a, d)
  OBVIOUS
<1>4. PICK k : RowGone(a, d, l, k, w)
  BY <1>3, WithoutRowFacts, Zenon
<1>5. b = WithoutChunk(w, c)
  <2>1. Emptied(a, d)
    BY Lengths, Zenon
  <2> QED BY <1>3, <2>1 DEF Remove
<1>6. /\ k \in DeviceChunk /\ SwapRemoved(g[c], l.row, k.devices)
      /\ w.chunks = [ch EXCEPT ![c] = k] /\ w.directory = RowMoved(a, d, l, k.devices)
      /\ w.activeChunks = hints
  BY <1>1, <1>4, Zenon DEF RowGone, RowOf
<1>7. /\ c \in 1..Size(ch) /\ g[c] = ch[c].devices /\ p[c] = ch[c].parameters
      /\ Size(g[c]) = 1 /\ Size(p[c]) = 1
  BY <1>1 DEF RowOf
<1>8. last \in Nat \ {0} /\ c \in 1..last /\ c \in Nat
  <2>1. last \in Nat
    BY <1>2, SeqFacts, Zenon
  <2> QED BY <1>7, <2>1
<1>a. ch \in Seq(DeviceChunk) /\ c \in 1..Size(ch) /\ k \in DeviceChunk
  BY <1>2, <1>6, <1>7
<1>9. Size(w.chunks) = last
  <2>1. PICK wc : wc = w.chunks
    OBVIOUS
  <2>2. wc = [ch EXCEPT ![c] = k]
    BY <1>6, <2>1
  <2>3. Replaced(ch, c, k, wc)
    BY <1>a, <2>2, ExceptFacts, Zenon
  <2> QED BY <2>1, <2>3, Zenon DEF Replaced
<1> DEFINE kept == [f \in Definitions |-> IF hints[f] = c THEN None ELSE hints[f]]
<1>10. /\ b.chunks = SwapRemove(w.chunks, c)
       /\ b.directory = [e \in Devices |-> IF w.directory[e].chunk = last
                                           THEN [w.directory[e] EXCEPT !.chunk = c] ELSE w.directory[e]]
       /\ b.activeChunks = [f \in Definitions |-> IF kept[f] = last THEN c ELSE kept[f]]
       /\ b = [directory |-> b.directory, chunks |-> b.chunks, activeChunks |-> b.activeChunks]
  <2>1. Len(w.chunks) = last
    BY <1>9 DEF Size
  <2>2. PICK n : n = last
    OBVIOUS
  <2>3. PICK h : h = kept
    OBVIOUS
  <2>4. h = [f \in Definitions |-> IF w.activeChunks[f] = c THEN None ELSE w.activeChunks[f]]
    BY <1>6, <2>3
  <2>5. b = [ chunks |-> SwapRemove(w.chunks, c),
              directory |-> [e \in Devices |-> IF w.directory[e].chunk = n
                                THEN [w.directory[e] EXCEPT !.chunk = c] ELSE w.directory[e]],
              activeChunks |-> [f \in Definitions |-> IF h[f] = n THEN c ELSE h[f]] ]
    BY <1>5, <2>1, <2>2, <2>4, Zenon DEF WithoutChunk
  <2>6. /\ b.chunks = SwapRemove(w.chunks, c)
        /\ b.directory = [e \in Devices |-> IF w.directory[e].chunk = n
                                THEN [w.directory[e] EXCEPT !.chunk = c] ELSE w.directory[e]]
        /\ b.activeChunks = [f \in Definitions |-> IF h[f] = n THEN c ELSE h[f]]
        /\ b = [directory |-> b.directory, chunks |-> b.chunks, activeChunks |-> b.activeChunks]
    BY <2>5
  <2> HIDE DEF kept
  <2> QED BY <2>2, <2>3, <2>6, Zenon
<1>11. b.chunks = SwapRemove(ch, c) /\ b.chunks \in Seq(DeviceChunk) /\ SwapRemoved(ch, c, b.chunks)
  <2>0. PICK wc : wc = w.chunks
    OBVIOUS
  <2>1. IsExcept(ch, c, k, wc)
    BY <1>6, <2>0 DEF IsExcept
  <2>a. SwapRemove(wc, c) = SwapRemove(ch, c)
    BY <1>a, <2>1, SwapRemoveExcept, Zenon
  <2>2. SwapRemove(w.chunks, c) = SwapRemove(ch, c)
    BY <2>0, <2>a
  <2>3. b.chunks = SwapRemove(ch, c)
    BY <1>10, <2>2
  <2> QED BY <1>a, <2>3, SwapRemoveFacts, Zenon
<1>12. DeviceGrid(b) = GridRemove(g, l) /\ ParameterGrid(b) = GridRemove(p, l)
  <2>0. PICK new : new = SwapRemove(ch, c)
    OBVIOUS
  <2>a. PICK u : u = SwapRemove(Mapped(DevicesIn, ch), c)
    OBVIOUS
  <2>b. PICK v : v = SwapRemove(Mapped(ParametersIn, ch), c)
    OBVIOUS
  <2>c. Mapped(DevicesIn, new) = u
    <3>1. DevicesIn \in [DeviceChunk -> Seq(Devices)]
      BY FieldFunctions, Zenon
    <3>2. ch \in Seq(DeviceChunk) /\ c \in 1..Size(ch)
      BY <1>a
    <3> QED BY <2>0, <2>a, <3>1, <3>2, MappedSwapRemove, Zenon
  <2>d. Mapped(ParametersIn, new) = v
    BY <1>a, <2>0, <2>b, FieldFunctions, MappedSwapRemove, Zenon
  <2>1. Mapped(DevicesIn, b.chunks) = SwapRemove(Mapped(DevicesIn, ch), c)
    BY <1>11, <2>0, <2>a, <2>c
  <2>2. Mapped(ParametersIn, b.chunks) = SwapRemove(Mapped(ParametersIn, ch), c)
    BY <1>11, <2>0, <2>b, <2>d
  <2>3. GridRemove(g, l) = SwapRemove(g, c) /\ GridRemove(p, l) = SwapRemove(p, c)
    BY <1>7, Zenon DEF GridRemove
  <2> QED BY <2>1, <2>2, <2>3, Zenon DEF DeviceGrid, ParameterGrid
<1>13. b.directory = Removed(dir, g, d)
  <2>1. Size(k.devices) = 0
    <3>1. Size(k.devices) = Size(g[c]) - 1
      BY <1>6, Zenon DEF SwapRemoved
    <3> QED BY <1>7, <3>1
  <2>2. l.row \notin 1..Size(k.devices)
    <3>1. \A x : x \notin 1..0
      OBVIOUS
    <3> QED BY <2>1, <3>1, Zenon
  <2>3. Size(g) = last
    <3>1. FieldsAre(ch, g, p)
      BY <1>2, ArenaGrids, Zenon DEF DeviceGrid, ParameterGrid
    <3> QED BY <3>1, Zenon DEF FieldsAre
  <2>4. ASSUME NEW e \in Devices
        PROVE  (IF w.directory[e].chunk = last THEN [w.directory[e] EXCEPT !.chunk = c]
                ELSE w.directory[e]) = Removed(dir, g, d)[e]
    <3>1. w.directory[e] = IF e = d THEN NoLocation ELSE dir[e]
      BY <1>6, <2>2, Zenon DEF RowMoved
    <3>2. Removed(dir, g, d)[e] = IF e = d \/ dir[e] = NoLocation THEN NoLocation ELSE To(g, l, dir[e])
      BY Zenon DEF Removed
    <3>3. To(g, l, dir[e]) = IF dir[e].chunk = last THEN [chunk |-> c, row |-> dir[e].row] ELSE dir[e]
      BY <1>7, <2>3, Zenon DEF To, Locator
    <3>4. dir[e] = [chunk |-> dir[e].chunk, row |-> dir[e].row]
      BY <1>2, Places
    <3>5. [dir[e] EXCEPT !.chunk = c] = [chunk |-> c, row |-> dir[e].row]
      BY <3>4
    <3>6. NoLocation.chunk # last
      BY <1>8 DEF NoLocation, Locator
    <3>7. CASE e = d \/ dir[e] = NoLocation
      BY <3>1, <3>2, <3>6, <3>7
    <3>8. CASE e # d /\ dir[e] # NoLocation
      BY <3>1, <3>2, <3>3, <3>5, <3>8
    <3> QED BY <3>7, <3>8
  <2> QED BY <1>10, <2>4 DEF Removed
<1>14. b.activeChunks \in [Definitions -> Nat] /\ HintsOK(b.chunks, b.activeChunks)
  <2>1. /\ Size(b.chunks) = last - 1
        /\ \A j \in 1..(last - 1) : b.chunks[j] = IF j = c THEN ch[last] ELSE ch[j]
    BY <1>11, Zenon DEF SwapRemoved
  <2>2. \A f \in Definitions : hints[f] # None =>
            /\ hints[f] \in 1..last /\ ch[hints[f]].definition = f
            /\ Size(ch[hints[f]].devices) # ChunkCapacity
    BY Zenon DEF ArenaOK, HintsOK
  <2>3. ASSUME NEW f \in Definitions
        PROVE  b.activeChunks[f] = IF hints[f] = c THEN None ELSE IF hints[f] = last THEN c ELSE hints[f]
    <3>1. kept[f] = IF hints[f] = c THEN None ELSE hints[f]
      BY Zenon
    <3>2. b.activeChunks[f] = IF kept[f] = last THEN c ELSE kept[f]
      <4> HIDE DEF kept
      <4> QED BY <1>10, Zenon
    <3>3. None # last
      BY <1>8 DEF None
    <3> QED BY <3>1, <3>2, <3>3, Zenon
  <2>4. ASSUME NEW f \in Definitions, b.activeChunks[f] # None
        PROVE  /\ b.activeChunks[f] \in 1..Size(b.chunks) /\ b.chunks[b.activeChunks[f]].definition = f
               /\ Size(b.chunks[b.activeChunks[f]].devices) # ChunkCapacity
    <3>1. PICK h : h = hints[f]
      OBVIOUS
    <3>2. PICK j : j = b.activeChunks[f]
      OBVIOUS
    <3>3. h # c /\ j = (IF h = last THEN c ELSE h) /\ h # None
      BY <2>3, <2>4, <3>1, <3>2, <1>8, Zenon DEF None
    <3>4. h \in 1..last /\ ch[h].definition = f /\ Size(ch[h].devices) # ChunkCapacity
      BY <2>2, <3>1, <3>3
    <3>5. j \in 1..(last - 1)
      BY <1>8, <3>3, <3>4
    <3>6. b.chunks[j] = ch[h]
      <4>1. CASE h = last
        BY <2>1, <3>3, <3>5, <4>1, Zenon
      <4>2. CASE h # last
        BY <2>1, <3>3, <3>5, <4>2, Zenon
      <4> QED BY <4>1, <4>2
    <3> QED BY <2>1, <3>2, <3>4, <3>5, <3>6, Zenon
  <2>5. ASSUME NEW f \in Definitions PROVE b.activeChunks[f] \in Nat
    <3>1. hints[f] \in Nat
      BY <1>2
    <3> QED BY <1>8, <2>3, <3>1 DEF None
  <2>6. b.activeChunks \in [Definitions -> Nat]
    <3> HIDE DEF kept
    <3> QED BY <1>10, <2>5
  <2> QED BY <2>4, <2>6, Zenon DEF HintsOK
<1> HIDE DEF kept
<1> QED BY <1>10, <1>11, <1>12, <1>13, <1>14, Zenon DEF RemovesFrom

\* An arena and the arena without a device.
ArenaRemoved(a, d, l, b) ==
    /\ b.directory = Removed(a.directory, DeviceGrid(a), d)
    /\ DeviceGrid(b) = GridRemove(DeviceGrid(a), l)
    /\ ParameterGrid(b) = GridRemove(ParameterGrid(a), l)

\* A removal leaves the arena consistent, and both grids lose a row.
LEMMA ArenaRemove ==
    ASSUME NEW a, ArenaOK(a), NEW d, d \in Residents(a.directory), NEW l, l = a.directory[d],
           NEW b, b = Remove(a, d)
    PROVE  ArenaOK(b) /\ ArenaRemoved(a, d, l, b)
<1> DEFINE g == DeviceGrid(a)
           p == ParameterGrid(a)
<1>1. RemovesFrom(a, d, l, b)
  BY RemoveRow, RemoveChunk, Zenon
<1>2. /\ b.chunks \in Seq(DeviceChunk)
      /\ DeviceGrid(b) = GridRemove(g, l) /\ ParameterGrid(b) = GridRemove(p, l)
      /\ b.directory = Removed(a.directory, g, d)
      /\ b.activeChunks \in [Definitions -> Nat] /\ HintsOK(b.chunks, b.activeChunks)
      /\ b = [directory |-> b.directory, chunks |-> b.chunks, activeChunks |-> b.activeChunks]
  BY <1>1, Zenon DEF RemovesFrom
<1>3. /\ IsGrid(g, Devices) /\ IsGrid(p, ParameterValues) /\ Same(g, p)
      /\ DirectoryOK(a.directory, g) /\ a.chunks \in Seq(DeviceChunk)
  <2>1. a \in Arenas
    BY Zenon DEF ArenaOK, GridsOK
  <2>2. a.chunks \in Seq(DeviceChunk)
    BY <2>1 DEF Arenas
  <2> QED BY <2>2, Zenon DEF ArenaOK, GridsOK
<1>4. Cell(g, l) /\ Cell(p, l)
  <2>1. Cell(g, l)
    BY <1>3, Zenon DEF DirectoryOK
  <2> QED BY <1>3, <2>1, SameCells, Zenon
<1>5. IsGrid(DeviceGrid(b), Devices) /\ SizesRemoved(g, l, DeviceGrid(b))
  BY <1>2, <1>3, <1>4, GridRemoveFacts, Zenon
<1>6. IsGrid(ParameterGrid(b), ParameterValues)
  BY <1>2, <1>3, <1>4, GridRemoveFacts, Zenon
<1>7. Same(DeviceGrid(b), ParameterGrid(b))
  BY <1>2, <1>3, <1>4, SameRemove, Zenon
<1>8. DirectoryOK(b.directory, DeviceGrid(b))
  BY <1>2, <1>3, DirectoryRemove, Zenon
<1>9. b \in Arenas
  <2>1. b.directory \in [Devices -> Place]
    BY <1>8, Zenon DEF DirectoryOK
  <2> QED BY <1>2, <2>1 DEF Arenas
<1>10. FieldsAre(b.chunks, DeviceGrid(b), ParameterGrid(b)) /\ FieldsAre(a.chunks, g, p)
  BY <1>2, <1>3, ArenaGrids, Zenon DEF DeviceGrid, ParameterGrid
<1>11. Size(g) \in Nat /\ \A c \in 1..Size(g) : Size(g[c]) \in Nat /\ Size(g[c]) <= ChunkCapacity
  <2>1. Size(g) \in Nat /\ \A c \in 1..Size(g) : Size(g[c]) \in Nat \ {0}
    BY <1>3, GridSizes, Zenon
  <2>2. \A c \in 1..Size(g) : Size(g[c]) <= ChunkCapacity
    <3>1. /\ Size(g) = Size(a.chunks)
          /\ \A c \in 1..Size(a.chunks) : g[c] = a.chunks[c].devices
      BY <1>10, Zenon DEF FieldsAre
    <3>2. \A c \in 1..Size(a.chunks) : Size(a.chunks[c].devices) <= ChunkCapacity
      BY Zenon DEF ArenaOK
    <3> QED BY <3>1, <3>2, Zenon
  <2> QED BY <2>1, <2>2
<1>12. /\ Size(b.chunks) = (IF Size(g[l.chunk]) = 1 THEN Size(g) - 1 ELSE Size(g))
       /\ \A c \in 1..Size(b.chunks) : Size(b.chunks[c].devices) =
            IF Size(g[l.chunk]) = 1
            THEN IF c = l.chunk THEN Size(g[Size(g)]) ELSE Size(g[c])
            ELSE IF c = l.chunk THEN Size(g[c]) - 1 ELSE Size(g[c])
  <2>1. /\ Size(DeviceGrid(b)) = Size(b.chunks)
        /\ \A c \in 1..Size(b.chunks) : DeviceGrid(b)[c] = b.chunks[c].devices
    BY <1>10, Zenon DEF FieldsAre
  <2>2. /\ Size(DeviceGrid(b)) = (IF Size(g[l.chunk]) = 1 THEN Size(g) - 1 ELSE Size(g))
        /\ \A c \in 1..Size(DeviceGrid(b)) : Size(DeviceGrid(b)[c]) =
                IF Size(g[l.chunk]) = 1
                THEN IF c = l.chunk THEN Size(g[Size(g)]) ELSE Size(g[c])
                ELSE IF c = l.chunk THEN Size(g[c]) - 1 ELSE Size(g[c])
    BY <1>5, Zenon DEF SizesRemoved
  <2>3. Size(b.chunks) = (IF Size(g[l.chunk]) = 1 THEN Size(g) - 1 ELSE Size(g))
    BY <2>1, <2>2, Zenon
  <2>4. ASSUME NEW c \in 1..Size(b.chunks)
        PROVE  Size(b.chunks[c].devices) =
                IF Size(g[l.chunk]) = 1
                THEN IF c = l.chunk THEN Size(g[Size(g)]) ELSE Size(g[c])
                ELSE IF c = l.chunk THEN Size(g[c]) - 1 ELSE Size(g[c])
    <3>1. Size(DeviceGrid(b)[c]) = Size(b.chunks[c].devices) /\ c \in 1..Size(DeviceGrid(b))
      BY <2>1, Zenon
    <3> QED BY <2>2, <3>1, Zenon
  <2> QED BY <2>3, <2>4, Zenon
<1>13. l.chunk \in 1..Size(g) /\ Size(g) \in 1..Size(g)
  <2>1. l.chunk \in 1..Size(g)
    BY <1>4, Zenon DEF Cell
  <2> QED BY <1>11, <2>1
<1>14. Size(b.chunks) <= MaxChunks
  <2>1. Size(g) <= MaxChunks
    BY <1>10, Zenon DEF ArenaOK, FieldsAre
  <2> QED BY <1>11, <1>12, <2>1, MaxChunksAssumption
<1>15. ASSUME NEW c \in 1..Size(b.chunks) PROVE Size(b.chunks[c].devices) <= ChunkCapacity
  <2>1. c \in 1..Size(g)
    BY <1>11, <1>12
  <2> QED BY <1>11, <1>12, <1>13, <2>1, ChunkCapacityAssumption
<1> QED BY <1>2, <1>5, <1>6, <1>7, <1>8, <1>9, <1>14, <1>15, Zenon DEF ArenaOK, GridsOK, ArenaRemoved

-----------------------------------------------------------------------------
(* The sidecar of the physical state.                                      *)

StateRowsOK(k) == k \in StateChunk /\ k.initialized \subseteq 1..Size(k.values)
StateOK(state) ==
    /\ state \in Seq(StateChunk)
    /\ \A c \in 1..Size(state) : StateRowsOK(state[c])
    /\ IsGrid(LogicalGrid(state), States)

\* The logical rows of a chunk.
LogicalRows(k, rows) ==
    /\ rows \in Seq(States) /\ Size(rows) = Size(k.values)
    /\ \A r \in 1..Size(k.values) : rows[r] = LogicalRow(k, r)

\* The logical states of a chunk are a function of the chunk.
LEMMA LogicalFunction ==
    /\ LogicalIn \in [StateChunk -> Seq(States)]
    /\ \A k \in StateChunk : LogicalRows(k, LogicalIn[k])
<1>1. ASSUME NEW k \in StateChunk PROVE LogicalRows(k, LogicalIn[k])
  <2>1. k.values \in Seq(States)
    BY DEF StateChunk
  <2>2. PICK v : v = k.values
    OBVIOUS
  <2>3. PICK n : n = Size(v)
    OBVIOUS
  <2>4. n \in Nat /\ DOMAIN v = 1..n /\ \A r \in 1..n : v[r] \in States
    BY <2>1, <2>2, <2>3, SeqFacts, Zenon
  <2>5. PICK m : m = LogicalIn[k]
    OBVIOUS
  <2>6. m = [r \in 1..n |-> LogicalRow(k, r)]
    BY <2>2, <2>4, <2>5, Zenon DEF LogicalIn
  <2>7. \A r \in 1..n : LogicalRow(k, r) \in States
    <3>1. "initial" \in States
      BY DEF States
    <3> QED BY <2>2, <2>4, <3>1, Zenon DEF LogicalRow
  <2>8. m \in [1..n -> States]
    BY <2>6, <2>7
  <2>9. m \in Seq(States) /\ Size(m) = n
    BY <2>4, <2>8, IsSeq, Zenon
  <2>10. \A r \in 1..n : m[r] = LogicalRow(k, r)
    BY <2>6
  <2> QED BY <2>2, <2>3, <2>5, <2>9, <2>10, Zenon DEF LogicalRows
<1>2. \A k \in StateChunk : LogicalIn[k] \in Seq(States)
  BY <1>1, Zenon DEF LogicalRows
<1>3. LogicalIn = [k \in StateChunk |-> LogicalIn[k]]
  BY DEF LogicalIn
<1> QED BY <1>1, <1>2, <1>3

\* The rows that a sequence of logical states is decided by.
LEMMA LogicalRowsSame ==
    ASSUME NEW k, NEW m, NEW n, LogicalRows(k, m), LogicalRows(k, n)
    PROVE  m = n
<1>1. m \in Seq(States) /\ n \in Seq(States) /\ Size(m) = Size(n) /\ \A r \in 1..Size(m) : m[r] = n[r]
  BY Zenon DEF LogicalRows
<1> QED BY <1>1, SameSeq, Zenon

\* A chunk of states with one more row.
LEMMA PushStateFacts ==
    ASSUME NEW k, StateRowsOK(k), NEW n, n = PushStateRow(k)
    PROVE  /\ StateRowsOK(n) /\ LogicalRows(n, Append(LogicalIn[k], "initial"))
<1>1. k.values \in Seq(States) /\ k.initialized \in SUBSET (1..ChunkCapacity) /\ k \in StateChunk
      /\ k.initialized \subseteq 1..Size(k.values)
  BY DEF StateRowsOK, StateChunk
<1>2. PICK v : v = Append(k.values, "zero")
  OBVIOUS
<1>3. n = [values |-> v, initialized |-> k.initialized]
  <2>1. k = [values |-> k.values, initialized |-> k.initialized]
    BY <1>1 DEF StateChunk
  <2> QED BY <1>2, <2>1 DEF PushStateRow
<1>4. n.values = v /\ n.initialized = k.initialized
  BY <1>3
<1>5. "zero" \in States /\ "initial" \in States
  BY DEF States
<1>6. v \in Seq(States) /\ Appended(k.values, "zero", v)
  BY <1>1, <1>2, <1>5, AppendFacts, Zenon
<1>7. n \in StateChunk
  BY <1>1, <1>3, <1>6 DEF StateChunk
<1>8. PICK s : s = Size(k.values)
  OBVIOUS
<1>9. s \in Nat
  BY <1>1, <1>8, SeqFacts, Zenon
<1>10. Size(v) = s + 1 /\ v[s + 1] = "zero" /\ \A i \in 1..s : v[i] = k.values[i]
  BY <1>6, <1>8, Zenon DEF Appended
<1>11. StateRowsOK(n)
  <2>1. \A i \in 1..s : i \in 1..(s + 1)
    BY <1>9
  <2>2. n.initialized \subseteq 1..Size(n.values)
    BY <1>1, <1>4, <1>8, <1>10, <2>1, Zenon
  <2> QED BY <1>7, <2>2 DEF StateRowsOK
<1>12. PICK m : m = LogicalIn[k]
  OBVIOUS
<1>13. m \in Seq(States) /\ Size(m) = s /\ \A r \in 1..s : m[r] = LogicalRow(k, r)
  BY <1>1, <1>8, <1>12, LogicalFunction, Zenon DEF LogicalRows
<1>14. PICK u : u = Append(m, "initial")
  OBVIOUS
<1>15. u \in Seq(States) /\ Appended(m, "initial", u)
  BY <1>5, <1>13, <1>14, AppendFacts, Zenon
<1>16. Size(u) = s + 1 /\ u[s + 1] = "initial" /\ \A i \in 1..s : u[i] = m[i]
  BY <1>13, <1>15, Zenon DEF Appended
<1>17. ASSUME NEW r \in 1..(s + 1) PROVE u[r] = LogicalRow(n, r)
  <2>1. CASE r = s + 1
    <3>1. r \notin 1..s
      BY <1>9, <2>1
    <3>2. r \notin n.initialized
      BY <1>1, <1>4, <1>8, <3>1, Zenon
    <3> QED BY <1>16, <2>1, <3>2, Zenon DEF LogicalRow
  <2>2. CASE r # s + 1
    <3>1. r \in 1..s
      BY <1>9, <2>2
    <3> QED BY <1>4, <1>10, <1>13, <1>16, <3>1, Zenon DEF LogicalRow
  <2> QED BY <2>1, <2>2
<1>18. LogicalRows(n, u)
  BY <1>4, <1>10, <1>15, <1>16, <1>17, Zenon DEF LogicalRows
<1> QED BY <1>11, <1>12, <1>14, <1>18

\* A chunk of states without a row.
LEMMA RemoveStateFacts ==
    ASSUME NEW k, StateRowsOK(k), NEW r, r \in 1..Size(k.values), NEW n, n = RemoveStateRow(k, r)
    PROVE  /\ StateRowsOK(n) /\ LogicalRows(n, SwapRemove(LogicalIn[k], r))
<1>1. k.values \in Seq(States) /\ k.initialized \in SUBSET (1..ChunkCapacity) /\ k \in StateChunk
      /\ k.initialized \subseteq 1..Size(k.values)
  BY DEF StateRowsOK, StateChunk
<1>2. PICK v : v = SwapRemove(k.values, r)
  OBVIOUS
<1>3. PICK s : s = Size(k.values)
  OBVIOUS
<1>4. PICK bits : bits = (IF s \in k.initialized THEN k.initialized \cup {r} ELSE k.initialized \ {r}) \ {s}
  OBVIOUS
<1>5. n = [values |-> v, initialized |-> bits]
  BY <1>2, <1>3, <1>4, Zenon DEF RemoveStateRow, Size
<1>6. n.values = v /\ n.initialized = bits
  BY <1>5
<1>7. s \in Nat /\ r \in 1..s /\ \A i \in 1..s : k.values[i] \in States
  BY <1>1, <1>3, SeqFacts, Zenon
<1>8. v \in Seq(States) /\ SwapRemoved(k.values, r, v)
  BY <1>1, <1>2, SwapRemoveFacts, Zenon
<1>9. Size(v) = s - 1 /\ \A j \in 1..(s - 1) : v[j] = IF j = r THEN k.values[s] ELSE k.values[j]
  BY <1>3, <1>8, Zenon DEF SwapRemoved
<1>10. bits \subseteq 1..(s - 1) /\ bits \in SUBSET (1..ChunkCapacity)
  <2>1. \A i : i \in bits => i \in k.initialized \/ (s \in k.initialized /\ i = r)
    BY <1>4
  <2>2. \A i : i \in bits => i \in 1..s /\ i # s
    BY <1>1, <1>3, <1>4, <1>7, <2>1
  <2>3. \A i \in 1..s : i # s => i \in 1..(s - 1)
    BY <1>7
  <2>4. r # s /\ s \in k.initialized => r \in 1..ChunkCapacity
    BY <1>1, <1>7, ChunkCapacityAssumption
  <2>5. \A i : i \in bits => i \in 1..ChunkCapacity
    BY <1>1, <2>1, <2>2, <2>4
  <2> QED BY <2>2, <2>3, <2>5
<1>11. StateRowsOK(n)
  <2>1. n \in StateChunk
    BY <1>5, <1>8, <1>10 DEF StateChunk
  <2> QED BY <1>6, <1>9, <1>10, <2>1 DEF StateRowsOK
<1>12. PICK m : m = LogicalIn[k]
  OBVIOUS
<1>13. m \in Seq(States) /\ Size(m) = s /\ \A i \in 1..s : m[i] = LogicalRow(k, i)
  BY <1>1, <1>3, <1>12, LogicalFunction, Zenon DEF LogicalRows
<1>14. PICK u : u = SwapRemove(m, r)
  OBVIOUS
<1>15. u \in Seq(States) /\ SwapRemoved(m, r, u)
  BY <1>7, <1>13, <1>14, SwapRemoveFacts, Zenon
<1>16. Size(u) = s - 1 /\ \A j \in 1..(s - 1) : u[j] = IF j = r THEN m[s] ELSE m[j]
  BY <1>13, <1>15, Zenon DEF SwapRemoved
<1>17. ASSUME NEW j \in 1..(s - 1) PROVE u[j] = LogicalRow(n, j)
  <2>1. j \in 1..s /\ j # s /\ s \in 1..s
    BY <1>7
  <2>2. m[s] = LogicalRow(k, s) /\ m[j] = LogicalRow(k, j)
    BY <1>13, <2>1, Zenon
  <2>3. CASE j = r
    <3>1. j \in bits <=> s \in k.initialized
      BY <1>4, <2>1, <2>3
    <3> QED BY <1>6, <1>9, <1>16, <2>2, <2>3, <3>1, Zenon DEF LogicalRow
  <2>4. CASE j # r
    <3>1. j \in bits <=> j \in k.initialized
      BY <1>4, <2>1, <2>4
    <3> QED BY <1>6, <1>9, <1>16, <2>2, <2>4, <3>1, Zenon DEF LogicalRow
  <2> QED BY <2>3, <2>4
<1>18. LogicalRows(n, u)
  BY <1>6, <1>9, <1>15, <1>16, <1>17, Zenon DEF LogicalRows
<1> QED BY <1>11, <1>12, <1>14, <1>18

\* The grid of a sequence of state chunks.
IsStateGrid(state, g) ==
    /\ Size(g) = Size(state) /\ g \in Seq(Seq(States)) /\ g = Mapped(LogicalIn, state)
    /\ \A c \in 1..Size(state) : g[c] = LogicalIn[state[c]] /\ Size(g[c]) = Size(state[c].values)

\* A sequence of state chunks and its grid.
LEMMA StateGrid ==
    ASSUME NEW state, state \in Seq(StateChunk), NEW g, g = LogicalGrid(state)
    PROVE  IsStateGrid(state, g)
<1>1. g \in Seq(Seq(States)) /\ IsMapped(LogicalIn, state, g)
  BY LogicalFunction, MappedFacts, Zenon DEF LogicalGrid
<1>2. \A c \in 1..Size(state) : state[c] \in StateChunk
  BY SeqFacts, Zenon
<1>3. \A c \in 1..Size(state) : g[c] = LogicalIn[state[c]]
  BY <1>1, Zenon DEF IsMapped
<1>4. \A c \in 1..Size(state) : Size(g[c]) = Size(state[c].values)
  BY <1>2, <1>3, LogicalFunction, Zenon DEF LogicalRows
<1> QED BY <1>1, <1>3, <1>4, Zenon DEF IsMapped, IsStateGrid, LogicalGrid

\* The state sidecar gets a row in its initial state.
LEMMA StateInsert ==
    ASSUME StateOK(physicalState), NEW g, g = LogicalGrid(physicalState), NEW l, Free(g, l),
           NEW new, new = StateAfterInsert(l)
    PROVE  StateOK(new) /\ LogicalGrid(new) = GridInsert(g, l, "initial")
<1>1. PICK ps : ps = physicalState
  OBVIOUS
<1>2. /\ ps \in Seq(StateChunk) /\ \A c \in 1..Size(ps) : StateRowsOK(ps[c])
      /\ IsGrid(g, States)
  BY <1>1, Zenon DEF StateOK
<1>3. "initial" \in States
  BY DEF States
<1>4. PICK h : h = GridInsert(g, l, "initial")
  OBVIOUS
<1>5. IsGrid(h, States)
  BY <1>2, <1>3, <1>4, GridInsertFacts, Zenon
<1>6. /\ Size(g) = Size(ps) /\ g \in Seq(Seq(States)) /\ g = Mapped(LogicalIn, ps)
      /\ \A c \in 1..Size(ps) : g[c] = LogicalIn[ps[c]] /\ Size(g[c]) = Size(ps[c].values)
  <2>1. IsStateGrid(ps, g)
    BY <1>1, <1>2, StateGrid, Zenon
  <2> QED BY <2>1, Zenon DEF IsStateGrid
<1>7. LogicalIn \in [StateChunk -> Seq(States)]
  BY LogicalFunction
<1>a. Size(ps) \in Nat
  BY <1>2, SeqFacts, Zenon
<1>8. CASE l.row = 1
  <2>1. PICK k : k = PushStateRow(NewStateChunk)
    OBVIOUS
  <2>2. new = Append(ps, k)
    BY <1>1, <1>8, <2>1 DEF StateAfterInsert
  <2>3. PICK e : e = << >>
    OBVIOUS
  <2>4. e \in Seq(States) /\ Size(e) = 0
    BY <2>3 DEF Size
  <2>5. PICK old : old = NewStateChunk
    OBVIOUS
  <2>6. old = [values |-> e, initialized |-> {}]
    BY <2>3, <2>5 DEF NewStateChunk
  <2>7. StateRowsOK(old)
    <3>1. old \in StateChunk
      BY <2>4, <2>6 DEF StateChunk
    <3>2. old.initialized \subseteq 1..Size(old.values)
      BY <2>6
    <3> QED BY <3>1, <3>2 DEF StateRowsOK
  <2>8. StateRowsOK(k) /\ LogicalRows(k, Append(LogicalIn[old], "initial"))
    BY <2>1, <2>5, <2>7, PushStateFacts, Zenon
  <2>9. LogicalIn[k] = Append(LogicalIn[old], "initial")
    <3>1. LogicalRows(k, LogicalIn[k])
      BY <2>8, LogicalFunction, Zenon DEF StateRowsOK
    <3> QED BY <2>8, <3>1, LogicalRowsSame, Zenon
  <2>10. LogicalIn[k] = <<"initial">>
    <3>1. PICK m : m = LogicalIn[old]
      OBVIOUS
    <3>2. m \in Seq(States) /\ Size(m) = 0
      <4>1. LogicalRows(old, m)
        BY <2>7, <3>1, LogicalFunction, Zenon DEF StateRowsOK
      <4>2. old.values = e
        BY <2>6
      <4> QED BY <2>4, <4>1, <4>2, Zenon DEF LogicalRows
    <3>3. m = << >>
      <4>1. e \in Seq(States) /\ Size(e) = Size(m) /\ \A i \in 1..Size(m) : m[i] = e[i]
        <5>1. \A i : i \notin 1..0
          OBVIOUS
        <5> QED BY <2>4, <3>2, <5>1, Zenon
      <4> QED BY <2>3, <3>2, <4>1, SameSeq, Zenon
    <3>4. \A x : Append(<< >>, x) = <<x>>
      OBVIOUS
    <3> QED BY <2>9, <3>1, <3>3, <3>4, Zenon
  <2>11. Mapped(LogicalIn, new) = Append(g, LogicalIn[k])
    <3>1. PICK u : u = Append(Mapped(LogicalIn, ps), LogicalIn[k])
      OBVIOUS
    <3>2. ps \in Seq(StateChunk) /\ k \in StateChunk
      BY <1>2, <2>8, Zenon DEF StateRowsOK
    <3>3. Mapped(LogicalIn, new) = u
      BY <1>7, <2>2, <3>1, <3>2, MappedAppend, Zenon
    <3> QED BY <1>6, <3>1, <3>3
  <2>12. LogicalGrid(new) = h
    BY <1>4, <1>8, <2>10, <2>11, Zenon DEF LogicalGrid, GridInsert
  <2>13. StateOK(new)
    <3>1. new \in Seq(StateChunk) /\ Appended(ps, k, new)
      BY <1>2, <2>2, <2>8, AppendFacts, Zenon DEF StateRowsOK
    <3>2. /\ Size(new) = Size(ps) + 1 /\ new[Size(ps) + 1] = k
          /\ \A i \in 1..Size(ps) : new[i] = ps[i]
      BY <3>1, Zenon DEF Appended
    <3>3. \A i \in 1..(Size(ps) + 1) : i = Size(ps) + 1 \/ i \in 1..Size(ps)
      BY <1>a
    <3>4. \A c \in 1..Size(new) : StateRowsOK(new[c])
      BY <1>2, <2>8, <3>2, <3>3, Zenon
    <3> QED BY <1>5, <2>12, <3>1, <3>4, Zenon DEF StateOK
  <2> QED BY <1>4, <2>12, <2>13
<1>9. CASE l.row # 1
  <2>1. l.chunk \in 1..Size(ps)
    BY <1>6, <1>9 DEF Free
  <2>2. PICK old : old = ps[l.chunk]
    OBVIOUS
  <2>3. PICK k : k = PushStateRow(old)
    OBVIOUS
  <2>4. new = [ps EXCEPT ![l.chunk] = k]
    BY <1>1, <1>9, <2>2, <2>3 DEF StateAfterInsert
  <2>5. StateRowsOK(old) /\ g[l.chunk] = LogicalIn[old]
    BY <1>2, <1>6, <2>1, <2>2, Zenon
  <2>6. StateRowsOK(k) /\ LogicalRows(k, Append(g[l.chunk], "initial"))
    BY <2>3, <2>5, PushStateFacts, Zenon
  <2>7. LogicalIn[k] = Append(g[l.chunk], "initial") /\ k \in StateChunk
    <3>1. LogicalRows(k, LogicalIn[k]) /\ k \in StateChunk
      BY <2>6, LogicalFunction, Zenon DEF StateRowsOK
    <3> QED BY <2>6, <3>1, LogicalRowsSame, Zenon
  <2>8. PICK u : u = [g EXCEPT ![l.chunk] = LogicalIn[k]]
    OBVIOUS
  <2>9. IsExcept(ps, l.chunk, k, new) /\ IsExcept(g, l.chunk, LogicalIn[k], u)
    BY <2>4, <2>8 DEF IsExcept
  <2>10. Mapped(LogicalIn, new) = u
    <3>1. ps \in Seq(StateChunk) /\ g = Mapped(LogicalIn, ps) /\ k \in StateChunk
      BY <1>2, <1>6, <2>7
    <3> QED BY <1>7, <2>1, <2>9, <3>1, MappedExcept, Zenon
  <2>11. h = u
    <3>1. h = [g EXCEPT ![l.chunk] = Append(g[l.chunk], "initial")]
      BY <1>4, <1>9 DEF GridInsert
    <3> QED BY <2>7, <2>8, <3>1, Zenon
  <2>12. StateOK(new)
    <3>1. new \in Seq(StateChunk) /\ Replaced(ps, l.chunk, k, new)
      <4>1. ps \in Seq(StateChunk) /\ k \in StateChunk
        BY <1>2, <2>7
      <4> QED BY <2>1, <2>4, <4>1, ExceptFacts, Zenon
    <3>2. /\ Size(new) = Size(ps) /\ new[l.chunk] = k
          /\ \A i \in 1..Size(ps) : i # l.chunk => new[i] = ps[i]
      BY <3>1, Zenon DEF Replaced
    <3>3. \A c \in 1..Size(new) : StateRowsOK(new[c])
      BY <1>2, <2>6, <3>2, Zenon
    <3>4. IsGrid(LogicalGrid(new), States)
      BY <1>5, <2>10, <2>11, Zenon DEF LogicalGrid
    <3> QED BY <3>1, <3>3, <3>4, Zenon DEF StateOK
  <2> QED BY <1>4, <2>10, <2>11, <2>12, Zenon DEF LogicalGrid
<1> QED BY <1>8, <1>9

\* The state sidecar loses a row.
LEMMA StateRemove ==
    ASSUME StateOK(physicalState), NEW g, g = LogicalGrid(physicalState), NEW l, Cell(g, l),
           NEW new, new = StateAfterRemove(l)
    PROVE  StateOK(new) /\ LogicalGrid(new) = GridRemove(g, l)
<1>1. PICK ps : ps = physicalState
  OBVIOUS
<1>2. /\ ps \in Seq(StateChunk) /\ \A c \in 1..Size(ps) : StateRowsOK(ps[c])
      /\ IsGrid(g, States)
  BY <1>1, Zenon DEF StateOK
<1>4. PICK h : h = GridRemove(g, l)
  OBVIOUS
<1>5. IsGrid(h, States)
  BY <1>2, <1>4, GridRemoveFacts, Zenon
<1>6. /\ Size(g) = Size(ps) /\ g \in Seq(Seq(States)) /\ g = Mapped(LogicalIn, ps)
      /\ \A c \in 1..Size(ps) : g[c] = LogicalIn[ps[c]] /\ Size(g[c]) = Size(ps[c].values)
  <2>1. IsStateGrid(ps, g)
    BY <1>1, <1>2, StateGrid, Zenon
  <2> QED BY <2>1, Zenon DEF IsStateGrid
<1>7. LogicalIn \in [StateChunk -> Seq(States)]
  BY LogicalFunction
<1>8. l.chunk \in 1..Size(ps) /\ l.row \in 1..Size(ps[l.chunk].values)
  BY <1>6, Zenon DEF Cell
<1>9. ps \in Seq(StateChunk) /\ l.chunk \in 1..Size(ps) /\ Size(ps) \in Nat
  BY <1>2, <1>8, SeqFacts, Zenon
<1>10. CASE Size(g[l.chunk]) = 1
  <2>1. new = SwapRemove(ps, l.chunk)
    BY <1>1, <1>6, <1>8, <1>10 DEF StateAfterRemove, Size
  <2>2. PICK u : u = SwapRemove(Mapped(LogicalIn, ps), l.chunk)
    OBVIOUS
  <2>3. Mapped(LogicalIn, new) = u
    BY <1>7, <1>9, <2>1, <2>2, MappedSwapRemove, Zenon
  <2>4. h = u
    BY <1>4, <1>6, <1>10, <2>2, Zenon DEF GridRemove
  <2>5. new \in Seq(StateChunk) /\ SwapRemoved(ps, l.chunk, new)
    BY <1>9, <2>1, SwapRemoveFacts, Zenon
  <2>6. /\ Size(new) = Size(ps) - 1
        /\ \A j \in 1..(Size(ps) - 1) : new[j] = IF j = l.chunk THEN ps[Size(ps)] ELSE ps[j]
    BY <2>5, Zenon DEF SwapRemoved
  <2>7. Size(ps) \in 1..Size(ps) /\ \A j \in 1..(Size(ps) - 1) : j \in 1..Size(ps)
    BY <1>9
  <2>8. \A c \in 1..Size(new) : StateRowsOK(new[c])
    BY <1>2, <2>6, <2>7, Zenon
  <2>9. IsGrid(LogicalGrid(new), States)
    BY <1>5, <2>3, <2>4, Zenon DEF LogicalGrid
  <2> QED BY <1>4, <2>3, <2>4, <2>5, <2>8, <2>9, Zenon DEF StateOK, LogicalGrid
<1>11. CASE Size(g[l.chunk]) # 1
  <2>1. PICK old : old = ps[l.chunk]
    OBVIOUS
  <2>2. PICK k : k = RemoveStateRow(old, l.row)
    OBVIOUS
  <2>3. new = [ps EXCEPT ![l.chunk] = k]
    <3>1. Len(physicalState[l.chunk].values) # 1
      BY <1>1, <1>6, <1>8, <1>11, Zenon DEF Size
    <3> QED BY <1>1, <2>1, <2>2, <3>1 DEF StateAfterRemove
  <2>4. StateRowsOK(old) /\ g[l.chunk] = LogicalIn[old] /\ l.row \in 1..Size(old.values)
    BY <1>2, <1>6, <1>8, <2>1, Zenon
  <2>5. StateRowsOK(k) /\ LogicalRows(k, SwapRemove(g[l.chunk], l.row))
    BY <2>2, <2>4, RemoveStateFacts, Zenon
  <2>6. LogicalIn[k] = SwapRemove(g[l.chunk], l.row) /\ k \in StateChunk
    <3>1. LogicalRows(k, LogicalIn[k]) /\ k \in StateChunk
      BY <2>5, LogicalFunction, Zenon DEF StateRowsOK
    <3> QED BY <2>5, <3>1, LogicalRowsSame, Zenon
  <2>7. PICK u : u = [g EXCEPT ![l.chunk] = LogicalIn[k]]
    OBVIOUS
  <2>8. IsExcept(ps, l.chunk, k, new) /\ IsExcept(g, l.chunk, LogicalIn[k], u)
    BY <2>3, <2>7 DEF IsExcept
  <2>9. Mapped(LogicalIn, new) = u
    <3>1. g = Mapped(LogicalIn, ps) /\ k \in StateChunk
      BY <1>6, <2>6
    <3> QED BY <1>7, <1>9, <2>8, <3>1, MappedExcept, Zenon
  <2>10. h = u
    <3>1. h = [g EXCEPT ![l.chunk] = SwapRemove(g[l.chunk], l.row)]
      BY <1>4, <1>11 DEF GridRemove
    <3> QED BY <2>6, <2>7, <3>1, Zenon
  <2>11. new \in Seq(StateChunk) /\ Replaced(ps, l.chunk, k, new)
    BY <1>9, <2>3, <2>6, ExceptFacts, Zenon
  <2>12. /\ Size(new) = Size(ps) /\ new[l.chunk] = k
         /\ \A i \in 1..Size(ps) : i # l.chunk => new[i] = ps[i]
    BY <2>11, Zenon DEF Replaced
  <2>13. \A c \in 1..Size(new) : StateRowsOK(new[c])
    BY <1>2, <2>5, <2>12, Zenon
  <2>14. IsGrid(LogicalGrid(new), States)
    BY <1>5, <2>9, <2>10, Zenon DEF LogicalGrid
  <2> QED BY <1>4, <2>9, <2>10, <2>11, <2>13, <2>14, Zenon DEF StateOK, LogicalGrid
<1> QED BY <1>10, <1>11

-----------------------------------------------------------------------------
(* What is stored of each device, and how each action changes it.          *)

StorageOK ==
    /\ ArenaOK(arena)
    /\ StateOK(physicalState) /\ Same(DeviceGrid(arena), LogicalGrid(physicalState))
    /\ IsGrid(topologyRows, Nat) /\ Same(DeviceGrid(arena), topologyRows)

IslandOf == Reads(arena.directory, topologyRows)
ParameterOf == Reads(arena.directory, ParameterGrid(arena))
StateOf == Reads(arena.directory, LogicalGrid(physicalState))

\* Each device has a row of its own in every grid.
RowsAreThere ==
    /\ Resident = Residents(arena.directory)
    /\ arena.directory \in [Devices -> Place]
    /\ IsGrid(DeviceGrid(arena), Devices) /\ IsGrid(ParameterGrid(arena), ParameterValues)
    /\ IsGrid(LogicalGrid(physicalState), States) /\ IsGrid(topologyRows, Nat)
    /\ Same(DeviceGrid(arena), ParameterGrid(arena))
    /\ Same(DeviceGrid(arena), LogicalGrid(physicalState)) /\ Same(DeviceGrid(arena), topologyRows)
    /\ DirectoryOK(arena.directory, DeviceGrid(arena))
    /\ \A d, e \in Residents(arena.directory) : arena.directory[d] = arena.directory[e] => d = e
    /\ OnGrid(arena.directory, DeviceGrid(arena)) /\ OnGrid(arena.directory, ParameterGrid(arena))
    /\ OnGrid(arena.directory, LogicalGrid(physicalState)) /\ OnGrid(arena.directory, topologyRows)

\* Consistent storage has a row for each device in every grid.
LEMMA StorageRows == ASSUME StorageOK PROVE RowsAreThere
<1>1. Resident = Residents(arena.directory)
  BY Zenon DEF Resident, Residents
<1>2. /\ IsGrid(DeviceGrid(arena), Devices) /\ IsGrid(ParameterGrid(arena), ParameterValues)
      /\ IsGrid(LogicalGrid(physicalState), States) /\ IsGrid(topologyRows, Nat)
      /\ Same(DeviceGrid(arena), ParameterGrid(arena))
      /\ Same(DeviceGrid(arena), LogicalGrid(physicalState)) /\ Same(DeviceGrid(arena), topologyRows)
      /\ DirectoryOK(arena.directory, DeviceGrid(arena))
  BY Zenon DEF StorageOK, ArenaOK, GridsOK, StateOK
<1>3. arena.directory \in [Devices -> Place]
  BY <1>2, Zenon DEF DirectoryOK
<1>4. \A d \in Residents(arena.directory) :
        Cell(DeviceGrid(arena), arena.directory[d]) /\ At(DeviceGrid(arena), arena.directory[d]) = d
  BY <1>2, Zenon DEF DirectoryOK
<1>5. \A d, e \in Residents(arena.directory) : arena.directory[d] = arena.directory[e] => d = e
  BY <1>4, Zenon
<1>6. OnGrid(arena.directory, DeviceGrid(arena))
  BY <1>4, Zenon DEF OnGrid
<1>7. OnGrid(arena.directory, ParameterGrid(arena))
  BY <1>2, <1>4, SameCells, Zenon DEF OnGrid
<1>8. OnGrid(arena.directory, LogicalGrid(physicalState))
  BY <1>2, <1>4, SameCells, Zenon DEF OnGrid
<1>9. OnGrid(arena.directory, topologyRows)
  BY <1>2, <1>4, SameCells, Zenon DEF OnGrid
<1> QED BY <1>1, <1>2, <1>3, <1>5, <1>6, <1>7, <1>8, <1>9, Zenon DEF RowsAreThere

\* What the code reads of a device is what the grids say.
LEMMA StorageReads ==
    ASSUME StorageOK
    PROVE  \A d \in Resident :
            /\ ParameterAt(arena.directory[d]) = ParameterOf[d]
            /\ ReadLogical(physicalState, arena.directory[d]) = StateOf[d]
            /\ IslandAt(topologyRows, arena.directory[d]) = IslandOf[d]
<1>1. RowsAreThere
  BY StorageRows, Zenon
<1>2. Resident = Residents(arena.directory)
  BY <1>1, Zenon DEF RowsAreThere
<1> SUFFICES ASSUME NEW d \in Residents(arena.directory)
             PROVE  /\ ParameterAt(arena.directory[d]) = ParameterOf[d]
                    /\ ReadLogical(physicalState, arena.directory[d]) = StateOf[d]
                    /\ IslandAt(topologyRows, arena.directory[d]) = IslandOf[d]
  BY <1>2
<1>3. PICK l : l = arena.directory[d]
  OBVIOUS
<1>4. /\ ParameterOf[d] = At(ParameterGrid(arena), l)
      /\ StateOf[d] = At(LogicalGrid(physicalState), l)
      /\ IslandOf[d] = At(topologyRows, l)
  BY <1>3, Zenon DEF ParameterOf, StateOf, IslandOf, Reads
<1>5. RowOf(arena, d, l)
  <2>1. ArenaOK(arena)
    BY Zenon DEF StorageOK
  <2> QED BY <1>3, <2>1, ResidentRow, Zenon
<1>6. ParameterAt(l) = At(ParameterGrid(arena), l)
  BY <1>5, Zenon DEF RowOf, ParameterAt, At
<1>7. ReadLogical(physicalState, l) = At(LogicalGrid(physicalState), l)
  <2>1. physicalState \in Seq(StateChunk) /\ \A c \in 1..Size(physicalState) : StateRowsOK(physicalState[c])
    BY Zenon DEF StorageOK, StateOK
  <2>2. IsStateGrid(physicalState, LogicalGrid(physicalState))
    BY <2>1, StateGrid, Zenon
  <2>3. Cell(LogicalGrid(physicalState), l)
    BY <1>1, <1>3, Zenon DEF RowsAreThere, OnGrid
  <2>4. l.chunk \in 1..Size(physicalState) /\ l.row \in 1..Size(physicalState[l.chunk].values)
    BY <2>2, <2>3, Zenon DEF IsStateGrid, Cell
  <2>5. LogicalGrid(physicalState)[l.chunk] = LogicalIn[physicalState[l.chunk]]
        /\ physicalState[l.chunk] \in StateChunk
    BY <2>1, <2>2, <2>4, Zenon DEF IsStateGrid, StateRowsOK
  <2>6. LogicalIn[physicalState[l.chunk]][l.row] = LogicalRow(physicalState[l.chunk], l.row)
    BY <2>4, <2>5, LogicalFunction, Zenon DEF LogicalRows
  <2> QED BY <2>5, <2>6, Zenon DEF At, ReadLogical, IsInitialized, LogicalRow
<1>8. IslandAt(topologyRows, l) = At(topologyRows, l)
  BY Zenon DEF IslandAt, At
<1> QED BY <1>3, <1>4, <1>6, <1>7, <1>8

\* A new device has no parameter, its initial state and an island of its own;
\* the other devices keep what they have and where it is.
AddEffect(d, island) ==
    /\ StorageOK'
    /\ Resident' = Resident \cup {d}
    /\ IslandOf' = [e \in Resident \cup {d} |-> IF e = d THEN island ELSE IslandOf[e]]
    /\ ParameterOf' = [e \in Resident \cup {d} |-> IF e = d THEN Unassigned ELSE ParameterOf[e]]
    /\ StateOf' = [e \in Resident \cup {d} |-> IF e = d THEN "initial" ELSE StateOf[e]]
    /\ \A e \in Resident : arena'.directory[e] = arena.directory[e]

\* What adding a device changes.
LEMMA AddStorage ==
    ASSUME StorageOK, islandSlots \in Nat, NEW d \in Devices, NEW definition \in Definitions,
           AddDevice(d, definition)
    PROVE  AddEffect(d, islandSlots + 1)
<1> DEFINE g == DeviceGrid(arena)
           p == ParameterGrid(arena)
           s == LogicalGrid(physicalState)
           dir == arena.directory
           island == islandSlots + 1
<1>1. PICK l : l = InsertLocation(arena, definition)
  OBVIOUS
<1>2. /\ d \notin Resident /\ arena' = Insert(arena, d, definition)
      /\ physicalState' = StateAfterInsert(l) /\ topologyRows' = RowsAfterInsert(l, island)
  BY <1>1, Zenon DEF AddDevice
<1>3. InsertionChunk(arena, definition) # None \/ Size(arena.chunks) < MaxChunks
  BY Zenon DEF AddDevice, CanInsert, Size
<1>4. RowsAreThere
  BY StorageRows, Zenon
<1>5. ArenaOK(arena) /\ d \notin Residents(dir)
  BY <1>2, <1>4, Zenon DEF StorageOK, RowsAreThere
<1>6. ArenaOK(arena') /\ ArenaInserted(arena, d, l, arena')
  BY <1>1, <1>2, <1>3, <1>5, ArenaInsert, Zenon
<1>7. /\ Free(g, l) /\ arena'.directory = Inserted(dir, d, l)
      /\ DeviceGrid(arena') = GridInsert(g, l, d)
      /\ ParameterGrid(arena') = GridInsert(p, l, Unassigned)
  BY <1>6, Zenon DEF ArenaInserted
<1>8. /\ dir \in [Devices -> Place] /\ IsGrid(g, Devices) /\ IsGrid(p, ParameterValues)
      /\ IsGrid(s, States) /\ IsGrid(topologyRows, Nat)
      /\ Same(g, p) /\ Same(g, s) /\ Same(g, topologyRows)
      /\ OnGrid(dir, g) /\ OnGrid(dir, p) /\ OnGrid(dir, s) /\ OnGrid(dir, topologyRows)
      /\ Resident = Residents(dir)
  BY <1>4, Zenon DEF RowsAreThere
<1>9. Free(p, l) /\ Free(s, l) /\ Free(topologyRows, l)
  BY <1>7, <1>8, SameCells, Zenon
<1>10. StateOK(physicalState') /\ LogicalGrid(physicalState') = GridInsert(s, l, "initial")
  <2>1. StateOK(physicalState)
    BY Zenon DEF StorageOK
  <2> QED BY <1>2, <1>9, <2>1, StateInsert, Zenon
<1>11. topologyRows' = GridInsert(topologyRows, l, island)
  BY <1>2, Zenon DEF RowsAfterInsert, GridInsert
<1>12. island \in Nat /\ Unassigned \in ParameterValues /\ "initial" \in States
  BY DEF ParameterValues, States
<1>13. IsGrid(topologyRows', Nat)
  BY <1>8, <1>9, <1>11, <1>12, GridInsertFacts, Zenon
<1>14. Same(DeviceGrid(arena'), LogicalGrid(physicalState'))
  BY <1>7, <1>8, <1>10, <1>12, SameInsert, Zenon
<1>15. Same(DeviceGrid(arena'), topologyRows')
  BY <1>7, <1>8, <1>11, <1>12, SameInsert, Zenon
<1>16. StorageOK'
  BY <1>6, <1>10, <1>13, <1>14, <1>15, Zenon DEF StorageOK
<1>17. ReadsInserted(dir, p, d, Unassigned, arena'.directory, ParameterGrid(arena'))
  BY <1>5, <1>7, <1>8, <1>9, <1>12, InsertReads, Zenon
<1>18. ReadsInserted(dir, s, d, "initial", arena'.directory, LogicalGrid(physicalState'))
  BY <1>5, <1>7, <1>8, <1>9, <1>10, <1>12, InsertReads, Zenon
<1>19. ReadsInserted(dir, topologyRows, d, island, arena'.directory, topologyRows')
  BY <1>5, <1>7, <1>8, <1>9, <1>11, <1>12, InsertReads, Zenon
<1>20. l \in Place /\ l # NoLocation
  <2>1. CellsInserted(g, l, d, DeviceGrid(arena'))
    BY <1>7, <1>8, GridInsertFacts, Zenon
  <2> QED BY <1>7, <2>1, NoCell, Zenon DEF Free, CellsInserted
<1>21. IsInserted(dir, d, l, arena'.directory)
  BY <1>5, <1>7, <1>8, <1>20, InsertedDirectory, Zenon
<1>22. /\ Residents(arena'.directory) = Residents(dir) \cup {d}
       /\ \A e \in Devices : e # d => arena'.directory[e] = dir[e]
  BY <1>21, Zenon DEF IsInserted
<1>23. Resident' = Residents(arena'.directory)
  BY Zenon DEF Resident, Residents
<1>24. \A e \in Resident : e \in Devices /\ e # d
  BY <1>2, Zenon DEF Resident
<1>25. /\ IslandOf' = [e \in Resident \cup {d} |-> IF e = d THEN island ELSE IslandOf[e]]
       /\ ParameterOf' = [e \in Resident \cup {d} |-> IF e = d THEN Unassigned ELSE ParameterOf[e]]
       /\ StateOf' = [e \in Resident \cup {d} |-> IF e = d THEN "initial" ELSE StateOf[e]]
  <2>1. IslandOf' = Reads(arena'.directory, topologyRows')
    BY Zenon DEF IslandOf, Reads, Residents, At
  <2>2. ParameterOf' = Reads(arena'.directory, ParameterGrid(arena'))
    BY DEF ParameterOf, Reads, Residents, At, ParameterGrid, Mapped, ParametersIn
  <2>3. StateOf' = Reads(arena'.directory, LogicalGrid(physicalState'))
    BY DEF StateOf, Reads, Residents, At, LogicalGrid, Mapped
  <2> QED BY <1>8, <1>17, <1>18, <1>19, <2>1, <2>2, <2>3, Zenon
        DEF ReadsInserted, IslandOf, ParameterOf, StateOf
<1> QED BY <1>8, <1>16, <1>22, <1>23, <1>24, <1>25, Zenon DEF AddEffect

\* Rows move alike in grids of the same shape.
LEMMA SameMoves ==
    ASSUME NEW g, NEW h, NEW l, NEW m, NEW u, Same(g, h), Cell(g, l), u = To(h, l, m)
    PROVE  To(g, l, m) = u
BY DEF To, Same, Cell

\* The devices that a removal moves, by lengths' other name.
LEMMA MovedFacts ==
    ASSUME NEW a, NEW d, NEW e \in Devices, e # d
    PROVE  e \in Moved(a, d) <=>
            IF Size(a.chunks[a.directory[d].chunk].devices) = 1
            THEN a.directory[e].chunk = Size(a.chunks)
            ELSE /\ a.directory[e].chunk = a.directory[d].chunk
                 /\ a.directory[e].row = Size(a.chunks[a.directory[d].chunk].devices)
<1>1. Emptied(a, d) <=> Size(a.chunks[a.directory[d].chunk].devices) = 1
  BY Lengths, Zenon
<1> QED BY <1>1, Zenon DEF Moved, Size

\* The other devices keep what they have, and only the moved ones go elsewhere.
RemoveEffect(d) ==
    /\ StorageOK'
    /\ Resident' = Resident \ {d}
    /\ IslandOf' = [e \in Resident \ {d} |-> IslandOf[e]]
    /\ ParameterOf' = [e \in Resident \ {d} |-> ParameterOf[e]]
    /\ StateOf' = [e \in Resident \ {d} |-> StateOf[e]]
    /\ \A e \in Resident \ {d} :
        /\ e \notin Moved(arena, d) => arena'.directory[e] = arena.directory[e]
        /\ IslandAt(topologyRows', arena'.directory[e]) = IslandOf[e]

\* What removing a device changes.
LEMMA RemoveStorage ==
    ASSUME StorageOK, NEW d \in Devices, RemoveDevice(d)
    PROVE  RemoveEffect(d)
<1> DEFINE g == DeviceGrid(arena)
           p == ParameterGrid(arena)
           s == LogicalGrid(physicalState)
           dir == arena.directory
<1>1. PICK l : l = dir[d]
  OBVIOUS
<1>2. /\ d \in Resident /\ arena' = Remove(arena, d)
      /\ physicalState' = StateAfterRemove(l) /\ topologyRows' = RowsAfterRemove(l)
  BY <1>1, Zenon DEF RemoveDevice
<1>3. RowsAreThere
  BY StorageRows, Zenon
<1>4. /\ dir \in [Devices -> Place] /\ IsGrid(g, Devices) /\ IsGrid(p, ParameterValues)
      /\ IsGrid(s, States) /\ IsGrid(topologyRows, Nat)
      /\ Same(g, p) /\ Same(g, s) /\ Same(g, topologyRows)
      /\ OnGrid(dir, g) /\ OnGrid(dir, p) /\ OnGrid(dir, s) /\ OnGrid(dir, topologyRows)
      /\ Resident = Residents(dir)
      /\ \A e, f \in Residents(dir) : dir[e] = dir[f] => e = f
  BY <1>3, Zenon DEF RowsAreThere
<1>5. ArenaOK(arena) /\ d \in Residents(dir)
  BY <1>2, <1>4, Zenon DEF StorageOK
<1>6. ArenaOK(arena') /\ ArenaRemoved(arena, d, l, arena')
  BY <1>1, <1>2, <1>5, ArenaRemove, Zenon
<1>7. /\ arena'.directory = Removed(dir, g, d)
      /\ DeviceGrid(arena') = GridRemove(g, l)
      /\ ParameterGrid(arena') = GridRemove(p, l)
  BY <1>6, Zenon DEF ArenaRemoved
<1>8. Cell(g, l) /\ Cell(p, l) /\ Cell(s, l) /\ Cell(topologyRows, l)
  BY <1>1, <1>4, <1>5, Zenon DEF OnGrid
<1>9. StateOK(physicalState') /\ LogicalGrid(physicalState') = GridRemove(s, l)
  <2>1. StateOK(physicalState)
    BY Zenon DEF StorageOK
  <2> QED BY <1>2, <1>8, <2>1, StateRemove, Zenon
<1>10. topologyRows' = GridRemove(topologyRows, l)
  BY <1>2, Zenon DEF RowsAfterRemove, GridRemove, Size
<1>11. IsGrid(topologyRows', Nat)
  BY <1>4, <1>8, <1>10, GridRemoveFacts, Zenon
<1>12. Same(DeviceGrid(arena'), LogicalGrid(physicalState'))
  BY <1>4, <1>7, <1>8, <1>9, SameRemove, Zenon
<1>13. Same(DeviceGrid(arena'), topologyRows')
  BY <1>4, <1>7, <1>8, <1>10, SameRemove, Zenon
<1>14. StorageOK'
  BY <1>6, <1>9, <1>11, <1>12, <1>13, Zenon DEF StorageOK
<1>15. /\ arena'.directory = Removed(dir, p, d) /\ arena'.directory = Removed(dir, s, d)
       /\ arena'.directory = Removed(dir, topologyRows, d)
  <2>1. ASSUME NEW h, Same(g, h) PROVE Removed(dir, g, d) = Removed(dir, h, d)
    <3>1. ASSUME NEW m PROVE To(g, l, m) = To(h, l, m)
      <4>1. PICK u : u = To(h, l, m)
        OBVIOUS
      <4>2. To(g, l, m) = u
        BY <1>8, <2>1, <4>1, SameMoves, Zenon
      <4> QED BY <4>1, <4>2
    <3> QED BY <1>1, <3>1 DEF Removed
  <2> QED BY <1>4, <1>7, <2>1
<1>16. ReadsRemoved(dir, p, d, arena'.directory, ParameterGrid(arena'))
  BY <1>1, <1>4, <1>5, <1>7, <1>15, RemoveReads, Zenon
<1>17. ReadsRemoved(dir, s, d, arena'.directory, LogicalGrid(physicalState'))
  BY <1>1, <1>4, <1>5, <1>9, <1>15, RemoveReads, Zenon
<1>18. ReadsRemoved(dir, topologyRows, d, arena'.directory, topologyRows')
  BY <1>1, <1>4, <1>5, <1>10, <1>15, RemoveReads, Zenon
<1>19. IsRemoved(dir, topologyRows, d, arena'.directory, topologyRows')
  BY <1>1, <1>4, <1>5, <1>10, <1>15, RemovedDirectory, Zenon
<1>20. Resident' = Resident \ {d}
  <2>1. Resident' = Residents(arena'.directory)
    BY Zenon DEF Resident, Residents
  <2> QED BY <1>4, <1>19, <2>1, Zenon DEF IsRemoved
<1>21. /\ IslandOf' = [e \in Resident \ {d} |-> IslandOf[e]]
       /\ ParameterOf' = [e \in Resident \ {d} |-> ParameterOf[e]]
       /\ StateOf' = [e \in Resident \ {d} |-> StateOf[e]]
  <2>1. IslandOf' = Reads(arena'.directory, topologyRows')
    BY Zenon DEF IslandOf, Reads, Residents, At
  <2>2. ParameterOf' = Reads(arena'.directory, ParameterGrid(arena'))
    BY DEF ParameterOf, Reads, Residents, At, ParameterGrid, Mapped, ParametersIn
  <2>3. StateOf' = Reads(arena'.directory, LogicalGrid(physicalState'))
    BY DEF StateOf, Reads, Residents, At, LogicalGrid, Mapped
  <2> QED BY <1>4, <1>16, <1>17, <1>18, <2>1, <2>2, <2>3, Zenon
        DEF ReadsRemoved, IslandOf, ParameterOf, StateOf
<1>22. ASSUME NEW e \in Resident \ {d}
       PROVE  /\ e \notin Moved(arena, d) => arena'.directory[e] = dir[e]
              /\ IslandAt(topologyRows', arena'.directory[e]) = IslandOf[e]
  <2>1. e \in Residents(dir) /\ e \in Devices /\ e # d /\ e \in Residents(arena'.directory)
    BY <1>4, <1>19, <1>22, Zenon DEF IsRemoved, Residents
  <2>2. /\ arena'.directory[e] = To(topologyRows, dir[d], dir[e])
        /\ At(topologyRows', arena'.directory[e]) = At(topologyRows, dir[e])
    BY <1>19, <2>1, Zenon DEF IsRemoved
  <2>3. IslandAt(topologyRows', arena'.directory[e]) = IslandOf[e]
    BY <2>1, <2>2, Zenon DEF IslandAt, At, IslandOf, Reads
  <2>4. arena'.directory[e] = To(g, l, dir[e])
    <3>1. PICK u : u = To(topologyRows, l, dir[e])
      OBVIOUS
    <3>2. To(g, l, dir[e]) = u
      BY <1>4, <1>8, <3>1, SameMoves, Zenon
    <3> QED BY <1>1, <2>2, <3>1, <3>2
  <2>5. /\ Size(g) = Size(arena.chunks) /\ Size(g[l.chunk]) = Size(arena.chunks[l.chunk].devices)
    <3>1. arena.chunks \in Seq(DeviceChunk)
      <4>1. arena \in Arenas
        BY <1>5, Zenon DEF ArenaOK, GridsOK
      <4> QED BY <4>1 DEF Arenas
    <3>2. FieldsAre(arena.chunks, g, p)
      BY <3>1, ArenaGrids, Zenon DEF DeviceGrid, ParameterGrid
    <3>3. RowOf(arena, d, l)
      BY <1>1, <1>5, ResidentRow, Zenon
    <3>4. Size(g) = Size(arena.chunks)
      BY <3>2, Zenon DEF FieldsAre
    <3>5. g[l.chunk] = arena.chunks[l.chunk].devices
      BY <3>3, Zenon DEF RowOf
    <3> QED BY <3>4, <3>5, Zenon
  <2>6. e \in Moved(arena, d) <=>
            IF Size(g[l.chunk]) = 1 THEN dir[e].chunk = Size(g)
            ELSE dir[e].chunk = l.chunk /\ dir[e].row = Size(g[l.chunk])
    BY <1>1, <2>1, <2>5, MovedFacts
  <2>7. e \notin Moved(arena, d) => To(g, l, dir[e]) = dir[e]
    BY <2>6, Zenon DEF To
  <2> QED BY <2>3, <2>4, <2>7
<1> QED BY <1>14, <1>20, <1>21, <1>22, Zenon DEF RemoveEffect

\* An arena after a parameter was set.
ParameterSet(a, l, value, b) ==
    /\ b.directory = a.directory /\ DeviceGrid(b) = DeviceGrid(a)
    /\ \A m \in Place : Cell(DeviceGrid(a), m) =>
            At(ParameterGrid(b), m) = IF m = l THEN value ELSE At(ParameterGrid(a), m)

\* Setting a parameter changes one cell.
LEMMA ArenaSetParameter ==
    ASSUME NEW a, ArenaOK(a), NEW d, d \in Residents(a.directory), NEW l, l = a.directory[d],
           NEW value, value \in Parameters, NEW b, b = SetParameter(a, d, value)
    PROVE  ArenaOK(b) /\ ParameterSet(a, l, value, b)
<1> DEFINE ch == a.chunks
           g == DeviceGrid(a)
           p == ParameterGrid(a)
           c == l.chunk
<1>1. RowOf(a, d, l)
  BY ResidentRow, Zenon
<1>2. /\ l \in Place /\ c \in 1..Size(ch) /\ ch[c] \in DeviceChunk
      /\ g[c] = ch[c].devices /\ p[c] = ch[c].parameters
      /\ l.row \in 1..Size(ch[c].devices) /\ Size(ch[c].parameters) = Size(ch[c].devices)
  BY <1>1, Zenon DEF RowOf, Cell
<1>3. a \in Arenas
  BY Zenon DEF ArenaOK, GridsOK
<1>4. /\ ch \in Seq(DeviceChunk) /\ a.directory \in [Devices -> Place]
      /\ a.activeChunks \in [Definitions -> Nat]
      /\ a = [directory |-> a.directory, chunks |-> ch, activeChunks |-> a.activeChunks]
  BY <1>3 DEF Arenas
<1>5. PICK q : q = [ch[c].parameters EXCEPT ![l.row] = value]
  OBVIOUS
<1>6. PICK k : k = [ch[c] EXCEPT !.parameters = q]
  OBVIOUS
<1>7. PICK new : new = [ch EXCEPT ![c] = k]
  OBVIOUS
<1>8. ch[c] = [definition |-> ch[c].definition, devices |-> ch[c].devices, parameters |-> ch[c].parameters]
      /\ ch[c].definition \in Definitions /\ ch[c].devices \in Seq(Devices)
      /\ ch[c].parameters \in Seq(ParameterValues)
  BY <1>2 DEF DeviceChunk
<1>9. k = [definition |-> ch[c].definition, devices |-> ch[c].devices, parameters |-> q]
  BY <1>6, <1>8
<1>10. q \in Seq(ParameterValues) /\ Replaced(ch[c].parameters, l.row, value, q)
  <2>1. value \in ParameterValues
    BY DEF ParameterValues
  <2>2. PICK x : x = ch[c].parameters
    OBVIOUS
  <2>3. PICK r : r = l.row
    OBVIOUS
  <2>4. r \in 1..Size(x) /\ x \in Seq(ParameterValues) /\ q = [x EXCEPT ![r] = value]
    BY <1>2, <1>5, <1>8, <2>2, <2>3
  <2>5. q \in Seq(ParameterValues) /\ Replaced(x, r, value, q)
    BY <2>1, <2>4, ExceptFacts, Zenon
  <2> QED BY <2>2, <2>3, <2>5
<1>11. k \in DeviceChunk
  BY <1>8, <1>9, <1>10 DEF DeviceChunk
<1>12. k.definition = ch[c].definition /\ k.devices = ch[c].devices /\ k.parameters = q
  BY <1>9
<1>13. b = [directory |-> a.directory, chunks |-> new, activeChunks |-> a.activeChunks]
  <2>1. b = [a EXCEPT !.chunks = [a.chunks EXCEPT ![a.directory[d].chunk] =
                [a.chunks[a.directory[d].chunk] EXCEPT !.parameters =
                    [a.chunks[a.directory[d].chunk].parameters EXCEPT ![a.directory[d].row] = value]]]]
    BY <1>4 DEF SetParameter
  <2>2. b = [a EXCEPT !.chunks = new]
    BY <1>5, <1>6, <1>7, <2>1
  <2> QED BY <1>4, <2>2
<1>14. b.directory = a.directory /\ b.chunks = new /\ b.activeChunks = a.activeChunks
  BY <1>13
<1>15. new \in Seq(DeviceChunk) /\ Replaced(ch, c, k, new)
  <2>1. PICK x : x = ch
    OBVIOUS
  <2>2. PICK i : i = c
    OBVIOUS
  <2>3. x \in Seq(DeviceChunk) /\ i \in 1..Size(x) /\ k \in DeviceChunk /\ new = [x EXCEPT ![i] = k]
    BY <1>2, <1>4, <1>7, <1>11, <2>1, <2>2
  <2>4. new \in Seq(DeviceChunk) /\ Replaced(x, i, k, new)
    BY <2>3, ExceptFacts, Zenon
  <2> QED BY <2>1, <2>2, <2>4
<1>16. PICK u : u = [g EXCEPT ![c] = k.devices]
  OBVIOUS
<1>17. PICK v : v = [p EXCEPT ![c] = k.parameters]
  OBVIOUS
<1>18. DeviceGrid(b) = u /\ ParameterGrid(b) = v
  <2>1. IsExcept(ch, c, k, new) /\ IsExcept(g, c, k.devices, u) /\ IsExcept(p, c, k.parameters, v)
    BY <1>7, <1>16, <1>17 DEF IsExcept
  <2>2. ch \in Seq(DeviceChunk) /\ c \in 1..Size(ch) /\ k \in DeviceChunk
    BY <1>2, <1>4, <1>11
  <2>3. g = Mapped(DevicesIn, ch) /\ p = Mapped(ParametersIn, ch)
    BY Zenon DEF DeviceGrid, ParameterGrid
  <2>4. Mapped(DevicesIn, new) = u /\ Mapped(ParametersIn, new) = v
    BY <2>1, <2>2, <2>3, GridsReplaced, Zenon
  <2> QED BY <1>14, <2>4, Zenon DEF DeviceGrid, ParameterGrid
<1>19. /\ IsGrid(g, Devices) /\ IsGrid(p, ParameterValues) /\ Same(g, p) /\ DirectoryOK(a.directory, g)
       /\ HintsOK(ch, a.activeChunks)
  BY Zenon DEF ArenaOK, GridsOK
<1>20. g \in Seq(Seq(Devices)) /\ p \in Seq(Seq(ParameterValues)) /\ c \in 1..Size(g) /\ c \in 1..Size(p)
       /\ Size(g) \in Nat
  <2>1. FieldsAre(ch, g, p)
    BY <1>4, ArenaGrids, Zenon DEF DeviceGrid, ParameterGrid
  <2> QED BY <1>2, <1>19, <2>1, GridFacts, GridSizes, Zenon DEF FieldsAre
<1>21. u = g
  <2>1. u = [g EXCEPT ![c] = g[c]]
    BY <1>2, <1>12, <1>16
  <2>2. PICK n : n = 1..Size(g)
    OBVIOUS
  <2>3. g \in [n -> Seq(Devices)]
    BY <1>20, <2>2, SeqFacts, Zenon
  <2>4. \A f : f \in [n -> Seq(Devices)] => [f EXCEPT ![c] = f[c]] = f
    OBVIOUS
  <2> QED BY <2>1, <2>3, <2>4
<1>22. v \in Seq(Seq(ParameterValues)) /\ Replaced(p, c, q, v)
  <2>1. v = [p EXCEPT ![c] = q]
    BY <1>12, <1>17
  <2> QED BY <1>10, <1>20, <2>1, ExceptFacts, Zenon
<1>23. /\ Size(v) = Size(p) /\ v[c] = q /\ \A e \in 1..Size(p) : e # c => v[e] = p[e]
  BY <1>22, Zenon DEF Replaced
<1>24. /\ Size(q) = Size(p[c]) /\ q[l.row] = value /\ \A r \in 1..Size(p[c]) : r # l.row => q[r] = p[c][r]
  BY <1>2, <1>10, Zenon DEF Replaced
<1>25. \A e \in 1..Size(v) : Size(v[e]) = Size(p[e])
  BY <1>23, <1>24, Zenon
<1>26. IsGrid(v, ParameterValues)
  BY <1>19, <1>22, <1>23, <1>25, Zenon DEF IsGrid
<1>27. Same(g, v)
  BY <1>19, <1>20, <1>23, <1>25, Zenon DEF Same
<1>28. ASSUME NEW m \in Place, Cell(g, m)
       PROVE  At(v, m) = IF m = l THEN value ELSE At(p, m)
  <2>1. m.chunk \in 1..Size(p) /\ m.row \in 1..Size(p[m.chunk])
    BY <1>19, <1>28, SameCells, Zenon DEF Cell
  <2>2. m = l <=> m.chunk = c /\ m.row = l.row
    BY <1>2, Places
  <2>3. CASE m.chunk = c
    BY <1>23, <1>24, <2>1, <2>2, <2>3, Zenon DEF At
  <2>4. CASE m.chunk # c
    BY <1>23, <2>1, <2>2, <2>4, Zenon DEF At
  <2> QED BY <2>3, <2>4
<1>29. ParameterSet(a, l, value, b)
  BY <1>14, <1>18, <1>21, <1>28, Zenon DEF ParameterSet
<1>30. b \in Arenas
  BY <1>4, <1>13, <1>15 DEF Arenas
<1>31. Size(new) = Size(ch) /\ \A e \in 1..Size(ch) : new[e].devices = ch[e].devices
                                                     /\ new[e].definition = ch[e].definition
  BY <1>12, <1>15, Zenon DEF Replaced
<1>32. HintsOK(new, a.activeChunks)
  <2>1. ASSUME NEW f \in Definitions, a.activeChunks[f] # None
        PROVE  /\ a.activeChunks[f] \in 1..Size(new) /\ new[a.activeChunks[f]].definition = f
               /\ Size(new[a.activeChunks[f]].devices) # ChunkCapacity
    <3>1. a.activeChunks[f] \in 1..Size(ch) /\ ch[a.activeChunks[f]].definition = f
          /\ Size(ch[a.activeChunks[f]].devices) # ChunkCapacity
      BY <1>19, <2>1, Zenon DEF HintsOK
    <3> QED BY <1>31, <3>1, Zenon
  <2> QED BY <2>1, Zenon DEF HintsOK
<1>33. Size(new) <= MaxChunks /\ \A e \in 1..Size(new) : Size(new[e].devices) <= ChunkCapacity
  BY <1>31, Zenon DEF ArenaOK
<1>34. ArenaOK(b)
  BY <1>14, <1>18, <1>19, <1>21, <1>26, <1>27, <1>30, <1>32, <1>33, Zenon DEF ArenaOK, GridsOK
<1> QED BY <1>29, <1>34

\* Only the parameter of the device changes.
SetEffect(d, value) ==
    /\ StorageOK'
    /\ Resident' = Resident /\ arena'.directory = arena.directory
    /\ IslandOf' = IslandOf /\ StateOf' = StateOf
    /\ ParameterOf' = [ParameterOf EXCEPT ![d] = value]

\* What setting a parameter changes.
LEMMA SetStorage ==
    ASSUME StorageOK, NEW d \in Devices, NEW value \in Parameters, SetDeviceParameter(d, value)
    PROVE  SetEffect(d, value)
<1> DEFINE dir == arena.directory
           g == DeviceGrid(arena)
<1>1. PICK l : l = dir[d]
  OBVIOUS
<1>2. /\ d \in Resident /\ arena' = SetParameter(arena, d, value)
      /\ physicalState' = physicalState /\ topologyRows' = topologyRows
  BY Zenon DEF SetDeviceParameter
<1>3. RowsAreThere
  BY StorageRows, Zenon
<1>4. /\ dir \in [Devices -> Place] /\ Same(g, ParameterGrid(arena))
      /\ OnGrid(dir, g) /\ Resident = Residents(dir)
      /\ \A e, f \in Residents(dir) : dir[e] = dir[f] => e = f
  BY <1>3, Zenon DEF RowsAreThere
<1>5. ArenaOK(arena) /\ d \in Residents(dir)
  BY <1>2, <1>4, Zenon DEF StorageOK
<1>6. ArenaOK(arena') /\ ParameterSet(arena, l, value, arena')
  BY <1>1, <1>2, <1>5, ArenaSetParameter, Zenon
<1>7. /\ arena'.directory = dir /\ DeviceGrid(arena') = g
      /\ \A m \in Place : Cell(g, m) =>
            At(ParameterGrid(arena'), m) = IF m = l THEN value ELSE At(ParameterGrid(arena), m)
  BY <1>6, Zenon DEF ParameterSet
<1>8. StorageOK'
  <2>1. /\ StateOK(physicalState) /\ Same(g, LogicalGrid(physicalState))
        /\ IsGrid(topologyRows, Nat) /\ Same(g, topologyRows)
    BY Zenon DEF StorageOK
  <2> QED BY <1>2, <1>6, <1>7, <2>1, Zenon DEF StorageOK
<1>9. Resident' = Resident
  BY <1>7, Zenon DEF Resident
<1>10. IslandOf' = IslandOf /\ StateOf' = StateOf
  BY <1>2, <1>7, Zenon DEF IslandOf, StateOf
<1>11. ParameterOf' = [ParameterOf EXCEPT ![d] = value]
  <2>1. ASSUME NEW e \in Residents(dir)
        PROVE  At(ParameterGrid(arena'), dir[e]) =
                    IF e = d THEN value ELSE At(ParameterGrid(arena), dir[e])
    <3>1. dir[e] \in Place /\ Cell(g, dir[e]) /\ (dir[e] = l <=> e = d)
      BY <1>1, <1>4, <1>5, Zenon DEF Residents, OnGrid
    <3> QED BY <1>7, <3>1, Zenon
  <2>2. ParameterOf' = [e \in Residents(dir) |-> At(ParameterGrid(arena'), dir[e])]
    <3>1. ParameterOf' = Reads(arena'.directory, ParameterGrid(arena'))
      BY DEF ParameterOf, Reads, Residents, At, ParameterGrid, Mapped, ParametersIn
    <3> QED BY <1>7, <3>1, Zenon DEF Reads
  <2>3. ParameterOf = [e \in Residents(dir) |-> At(ParameterGrid(arena), dir[e])]
    BY Zenon DEF ParameterOf, Reads
  <2> QED BY <1>5, <2>1, <2>2, <2>3
<1> QED BY <1>7, <1>8, <1>9, <1>10, <1>11, Zenon DEF SetEffect

-----------------------------------------------------------------------------
(* The inductive invariant.                                                *)

\* Each live island is the set of devices whose rows name it, and is not empty.
MembershipOK ==
    /\ islandSlots \in Nat
    /\ DOMAIN islands \subseteq 1..islandSlots
    /\ \A d \in Resident : IslandOf[d] \in DOMAIN islands
    /\ \A i \in DOMAIN islands : islands[i] # {} /\ islands[i] = {d \in Resident : IslandOf[d] = i}

Marks == [topologyDirty : SUBSET Nat, numericalDirty : SUBSET Nat, bindingDirty : SUBSET Nat,
          retired : SUBSET Nat]

\* What was retired is not live, and was allocated once.
InvalidationOK ==
    /\ invalidation \in Marks
    /\ invalidation.retired \cap DOMAIN islands = {}
    /\ invalidation.retired \subseteq 1..islandSlots

IsRuntime(x) ==
    /\ x = [bindings |-> x.bindings, parameters |-> x.parameters,
            staticInputsDirty |-> x.staticInputsDirty]
    /\ x.staticInputsDirty \in BOOLEAN

\* What is set for some devices.
ValuesOf(devices) == [d \in devices |-> ParameterOf[d]]

\* The runtime of an island that need not be compiled has its devices, is
\* bound to their rows unless one moved, and has the parameters it loaded
\* unless one was set since.
RuntimeOK(i, x) ==
    /\ DOMAIN x.bindings = islands[i] /\ DOMAIN x.parameters = islands[i]
    /\ i \notin invalidation.bindingDirty => x.bindings = Bindings(islands[i])
    /\ i \notin invalidation.numericalDirty /\ ~x.staticInputsDirty =>
        x.parameters = ValuesOf(islands[i]) /\ \A d \in islands[i] : ParameterOf[d] # Unassigned

RuntimesOK ==
    /\ \A i \in DOMAIN runtimes : IsRuntime(runtimes[i])
    /\ \A i \in DOMAIN islands \ invalidation.topologyDirty :
        i \in DOMAIN runtimes /\ RuntimeOK(i, runtimes[i])

DeviceInv == StorageOK /\ MembershipOK /\ InvalidationOK /\ RuntimesOK

-----------------------------------------------------------------------------
(* The actions that move no row.                                           *)

\* Nothing that is stored changes, and nothing moves.
SameStorage ==
    /\ StorageOK'
    /\ Resident' = Resident /\ arena'.directory = arena.directory
    /\ IslandOf' = IslandOf /\ ParameterOf' = ParameterOf /\ StateOf' = StateOf

\* An insert that fails resets a hint.
LEMMA FailStorage ==
    ASSUME StorageOK, NEW definition \in Definitions, AddDeviceFails(definition)
    PROVE  SameStorage
<1> DEFINE hints == [arena.activeChunks EXCEPT ![definition] = None]
<1>1. /\ arena' = [arena EXCEPT !.activeChunks = hints]
      /\ physicalState' = physicalState /\ topologyRows' = topologyRows
  BY DEF AddDeviceFails
<1>2. ArenaOK(arena) /\ arena \in Arenas /\ HintsOK(arena.chunks, arena.activeChunks)
  BY Zenon DEF StorageOK, ArenaOK, GridsOK
<1>3. /\ arena.activeChunks \in [Definitions -> Nat] /\ arena.directory \in [Devices -> Place]
      /\ arena.chunks \in Seq(DeviceChunk)
      /\ arena = [directory |-> arena.directory, chunks |-> arena.chunks,
                  activeChunks |-> arena.activeChunks]
  BY <1>2 DEF Arenas
<1>4. arena' = [directory |-> arena.directory, chunks |-> arena.chunks, activeChunks |-> hints]
  BY <1>1, <1>3
<1>5. arena'.directory = arena.directory /\ arena'.chunks = arena.chunks /\ arena'.activeChunks = hints
  BY <1>4
<1>6. /\ hints \in [Definitions -> Nat] /\ hints[definition] = None
      /\ \A f \in Definitions : f # definition => hints[f] = arena.activeChunks[f]
  BY <1>3 DEF None
<1>7. arena' \in Arenas
  BY <1>3, <1>4, <1>6 DEF Arenas
<1>8. HintsOK(arena.chunks, hints)
  BY <1>2, <1>6, Zenon DEF HintsOK
<1>9. DeviceGrid(arena') = DeviceGrid(arena) /\ ParameterGrid(arena') = ParameterGrid(arena)
  BY <1>5, Zenon DEF DeviceGrid, ParameterGrid
<1>10. ArenaOK(arena')
  BY <1>2, <1>5, <1>7, <1>8, <1>9, Zenon DEF ArenaOK, GridsOK
<1>11. StorageOK'
  BY <1>1, <1>9, <1>10, Zenon DEF StorageOK
<1>12. Resident' = Resident
  BY <1>5, Zenon DEF Resident
<1>13. ParameterOf' = Reads(arena'.directory, ParameterGrid(arena'))
  BY DEF ParameterOf, Reads, Residents, At, ParameterGrid, Mapped, ParametersIn
<1>14. IslandOf' = IslandOf /\ StateOf' = StateOf /\ ParameterOf' = ParameterOf
  BY <1>1, <1>5, <1>9, <1>13, Zenon DEF IslandOf, StateOf, ParameterOf
<1> QED BY <1>5, <1>11, <1>12, <1>14, Zenon DEF SameStorage

\* A grid of which the cells of some devices were written.
RowsWritten(g, devices, island, h) ==
    /\ Same(g, h) /\ IsGrid(h, Nat)
    /\ \A m \in Place : Cell(g, m) =>
            At(h, m) = IF m \in {arena.directory[d] : d \in devices} THEN island ELSE At(g, m)

\* Writing the island of some devices keeps the shape of the rows.
LEMMA WriteRows ==
    ASSUME NEW g, IsGrid(g, Nat), NEW devices, NEW island \in Nat, NEW h, h = Rows(g, devices, island)
    PROVE  RowsWritten(g, devices, island, h)
<1> DEFINE W == {arena.directory[d] : d \in devices}
           Row(c) == [r \in DOMAIN g[c] |-> IF Locator(c, r) \in W THEN island ELSE g[c][r]]
<1>1. /\ g \in Seq(Seq(Nat)) /\ Size(g) \in Nat
      /\ \A c \in 1..Size(g) : Size(g[c]) \in Nat \ {0} /\ g[c] \in Seq(Nat)
                               /\ \A r \in 1..Size(g[c]) : g[c][r] \in Nat
  BY GridFacts, GridSizes, Zenon
<1>2. DOMAIN g = 1..Size(g) /\ \A c \in 1..Size(g) : DOMAIN g[c] = 1..Size(g[c])
  BY <1>1, SeqFacts, Zenon
<1>3. h = [c \in 1..Size(g) |-> Row(c)]
  BY <1>2, Zenon DEF Rows
<1>4. ASSUME NEW c \in 1..Size(g)
      PROVE  /\ h[c] \in Seq(Nat) /\ Size(h[c]) = Size(g[c])
             /\ \A r \in 1..Size(g[c]) : h[c][r] = IF Locator(c, r) \in W THEN island ELSE g[c][r]
  <2>1. h[c] = [r \in 1..Size(g[c]) |-> IF Locator(c, r) \in W THEN island ELSE g[c][r]]
    BY <1>2, <1>3
  <2>2. \A r \in 1..Size(g[c]) : (IF Locator(c, r) \in W THEN island ELSE g[c][r]) \in Nat
    BY <1>1, Zenon
  <2>3. h[c] \in [1..Size(g[c]) -> Nat]
    BY <2>1, <2>2, Zenon
  <2>4. h[c] \in Seq(Nat) /\ Size(h[c]) = Size(g[c])
    <3>1. PICK n : n = Size(g[c])
      OBVIOUS
    <3>2. PICK f : f = h[c]
      OBVIOUS
    <3>3. n \in Nat /\ f \in [1..n -> Nat]
      BY <1>1, <2>3, <3>1, <3>2
    <3>4. f \in Seq(Nat) /\ Size(f) = n
      BY <3>3, IsSeq, Zenon
    <3> QED BY <3>1, <3>2, <3>4
  <2> QED BY <2>1, <2>4, Zenon
<1>5. h \in Seq(Seq(Nat)) /\ Size(h) = Size(g)
  <2>1. h \in [1..Size(g) -> Seq(Nat)]
    <3>1. \A c \in 1..Size(g) : Row(c) \in Seq(Nat)
      BY <1>3, <1>4
    <3> QED BY <1>3, <3>1, Zenon
  <2> QED BY <1>1, <2>1, IsSeq, Zenon
<1>6. Same(g, h)
  BY <1>4, <1>5, Zenon DEF Same
<1>7. \A c \in 1..Size(h) : Size(h[c]) # 0
  BY <1>1, <1>4, <1>5
<1>8. IsGrid(h, Nat)
  BY <1>5, <1>7, Zenon DEF IsGrid
<1>9. ASSUME NEW m \in Place, Cell(g, m)
      PROVE  At(h, m) = IF m \in W THEN island ELSE At(g, m)
  <2>1. m = Locator(m.chunk, m.row)
    BY Places DEF Locator
  <2>2. m.chunk \in 1..Size(g) /\ m.row \in 1..Size(g[m.chunk])
    BY <1>9, Zenon DEF Cell
  <2> QED BY <1>4, <2>1, <2>2, Zenon DEF At
<1> QED BY <1>6, <1>8, <1>9, Zenon DEF RowsWritten

\* Devices go to another island, and nothing else changes.
RowsEffect(devices, island) ==
    /\ StorageOK'
    /\ Resident' = Resident /\ arena'.directory = arena.directory
    /\ IslandOf' = [e \in Resident |-> IF e \in devices THEN island ELSE IslandOf[e]]
    /\ ParameterOf' = ParameterOf /\ StateOf' = StateOf

\* What writing the islands of devices changes.
LEMMA RowsStorage ==
    ASSUME StorageOK, NEW devices, devices \subseteq Resident, NEW island \in Nat,
           arena' = arena, physicalState' = physicalState,
           topologyRows' = Rows(topologyRows, devices, island)
    PROVE  RowsEffect(devices, island)
<1>1. RowsAreThere
  BY StorageRows, Zenon
<1>2. /\ Resident = Residents(arena.directory) /\ arena.directory \in [Devices -> Place]
      /\ IsGrid(topologyRows, Nat) /\ Same(DeviceGrid(arena), topologyRows)
      /\ OnGrid(arena.directory, topologyRows)
      /\ \A d, e \in Residents(arena.directory) : arena.directory[d] = arena.directory[e] => d = e
  BY <1>1, Zenon DEF RowsAreThere
<1>3. PICK h : h = Rows(topologyRows, devices, island)
  OBVIOUS
<1>4. topologyRows' = h
  BY <1>3
<1>5. RowsWritten(topologyRows, devices, island, h)
  BY <1>2, <1>3, WriteRows, Zenon
<1>6. IsGrid(h, Nat) /\ Same(DeviceGrid(arena), h)
  <2>1. IsGrid(h, Nat) /\ Same(topologyRows, h)
    BY <1>5, Zenon DEF RowsWritten
  <2> QED BY <1>2, <2>1 DEF Same
<1>7. StorageOK'
  BY <1>4, <1>6, Zenon DEF StorageOK
<1>8. ASSUME NEW e \in Resident
      PROVE  At(h, arena.directory[e]) = IF e \in devices THEN island ELSE At(topologyRows, arena.directory[e])
  <2>1. arena.directory[e] \in Place /\ Cell(topologyRows, arena.directory[e])
    BY <1>2, Zenon DEF Residents, OnGrid
  <2>2. arena.directory[e] \in {arena.directory[d] : d \in devices} <=> e \in devices
    BY <1>2, Zenon
  <2> QED BY <1>5, <2>1, <2>2, Zenon DEF RowsWritten
<1>9. IslandOf' = [e \in Resident |-> IF e \in devices THEN island ELSE IslandOf[e]]
  <2>1. IslandOf' = [e \in Resident |-> At(h, arena.directory[e])]
    BY <1>2, <1>4, Zenon DEF IslandOf, Reads
  <2>2. IslandOf = [e \in Resident |-> At(topologyRows, arena.directory[e])]
    BY <1>2, Zenon DEF IslandOf, Reads
  <2> QED BY <1>8, <2>1, <2>2
<1>10. Resident' = Resident
  BY Zenon DEF Resident
<1>11. ParameterOf' = Reads(arena'.directory, ParameterGrid(arena'))
  BY DEF ParameterOf, Reads, Residents, At, ParameterGrid, Mapped, ParametersIn
<1>12. ParameterOf' = ParameterOf /\ StateOf' = StateOf
  BY <1>11, Zenon DEF StateOf, ParameterOf
<1> QED BY <1>7, <1>9, <1>10, <1>12, Zenon DEF RowsEffect

\* A chunk of states after a tick, in the words of Scatter.
RowAfter(bound, solved, c, r) ==
    IF {b \in bound : b.location = Locator(c, r)} = {} THEN physicalState[c].values[r]
    ELSE IF \E b \in {b \in bound : b.location = Locator(c, r)} : b.island \in solved THEN "next"
    ELSE ReadLogical(physicalState, Locator(c, r))
ChunkAfter(bound, solved, c) ==
    [ values |-> [r \in DOMAIN physicalState[c].values |-> RowAfter(bound, solved, c, r)],
      initialized |-> physicalState[c].initialized \cup
            {r \in DOMAIN physicalState[c].values :
                {b \in bound : b.location = Locator(c, r)} # {}} ]

\* A row is solved when an island that was solved is bound to it.
SolvedAt(bound, solved, m) == \E b \in bound : b.location = m /\ b.island \in solved

\* The logical states of a chunk after a tick.
ChunkSolved(bound, solved, c, n) ==
    /\ StateRowsOK(n) /\ Size(n.values) = Size(physicalState[c].values)
    /\ \A r \in 1..Size(n.values) :
        LogicalRow(n, r) = IF SolvedAt(bound, solved, Locator(c, r)) THEN "next"
                           ELSE LogicalRow(physicalState[c], r)

\* What a tick writes to a chunk.
LEMMA ScatterChunk ==
    ASSUME NEW bound, NEW solved, NEW c, StateRowsOK(physicalState[c]),
           Size(physicalState[c].values) <= ChunkCapacity, NEW n, n = ChunkAfter(bound, solved, c)
    PROVE  ChunkSolved(bound, solved, c, n)
<1>1. PICK k : k = physicalState[c]
  OBVIOUS
<1>2. k.values \in Seq(States) /\ k.initialized \in SUBSET (1..ChunkCapacity)
      /\ k.initialized \subseteq 1..Size(k.values)
  BY <1>1 DEF StateRowsOK, StateChunk
<1>3. PICK v : v = k.values
  OBVIOUS
<1>4. PICK z : z = Size(v)
  OBVIOUS
<1>5. z \in Nat /\ DOMAIN v = 1..z /\ \A r \in 1..z : v[r] \in States
  BY <1>2, <1>3, <1>4, SeqFacts, Zenon
<1>6. z <= ChunkCapacity /\ ChunkCapacity \in Nat
  BY <1>1, <1>3, <1>4, ChunkCapacityAssumption
<1> DEFINE Touched(r) == {b \in bound : b.location = Locator(c, r)} # {}
<1>7. n = [ values |-> [r \in 1..z |-> RowAfter(bound, solved, c, r)],
            initialized |-> k.initialized \cup {r \in 1..z : Touched(r)} ]
  BY <1>1, <1>3, <1>5, Zenon DEF ChunkAfter
<1>8. n.values = [r \in 1..z |-> RowAfter(bound, solved, c, r)]
      /\ n.initialized = k.initialized \cup {r \in 1..z : Touched(r)}
  BY <1>7
<1>9. ASSUME NEW r \in 1..z
      PROVE  /\ ~Touched(r) => RowAfter(bound, solved, c, r) = v[r] /\ ~SolvedAt(bound, solved, Locator(c, r))
             /\ Touched(r) => RowAfter(bound, solved, c, r) =
                    IF SolvedAt(bound, solved, Locator(c, r)) THEN "next" ELSE LogicalRow(k, r)
  <2>1. ReadLogical(physicalState, Locator(c, r)) = LogicalRow(k, r)
    <3>1. Locator(c, r).chunk = c /\ Locator(c, r).row = r
      BY DEF Locator
    <3> QED BY <1>1, <3>1, Zenon DEF ReadLogical, IsInitialized, LogicalRow
  <2>2. SolvedAt(bound, solved, Locator(c, r)) <=>
            \E b \in {b \in bound : b.location = Locator(c, r)} : b.island \in solved
    BY Zenon DEF SolvedAt
  <2> QED BY <1>1, <1>3, <2>1, <2>2, Zenon DEF RowAfter
<1>10. \A r \in 1..z : LogicalRow(k, r) \in States /\ "next" \in States
  BY <1>3, <1>5 DEF LogicalRow, States
<1>11. \A r \in 1..z : RowAfter(bound, solved, c, r) \in States
  BY <1>5, <1>9, <1>10, Zenon
<1>12. n.values \in [1..z -> States]
  BY <1>8, <1>11, Zenon
<1>13. n.values \in Seq(States) /\ Size(n.values) = z
  <2>1. PICK f : f = n.values
    OBVIOUS
  <2>2. f \in [1..z -> States]
    BY <1>12, <2>1
  <2> QED BY <1>5, <2>1, <2>2, IsSeq, Zenon
<1>14. n.initialized \subseteq 1..z
  BY <1>2, <1>3, <1>4, <1>8
<1>15. n.initialized \in SUBSET (1..ChunkCapacity)
  <2>1. \A r \in 1..z : r \in 1..ChunkCapacity
    BY <1>5, <1>6
  <2> QED BY <1>14, <2>1
<1>16. n = [values |-> n.values, initialized |-> n.initialized]
  BY <1>7
<1>17. StateRowsOK(n)
  BY <1>13, <1>14, <1>15, <1>16 DEF StateRowsOK, StateChunk
<1>18. ASSUME NEW r \in 1..z
       PROVE  LogicalRow(n, r) = IF SolvedAt(bound, solved, Locator(c, r)) THEN "next" ELSE LogicalRow(k, r)
  <2>1. n.values[r] = RowAfter(bound, solved, c, r) /\ (r \in n.initialized <=> r \in k.initialized \/ Touched(r))
    BY <1>8
  <2>2. CASE Touched(r)
    BY <1>9, <2>1, <2>2, Zenon DEF LogicalRow
  <2>3. CASE ~Touched(r)
    BY <1>3, <1>9, <2>1, <2>3, Zenon DEF LogicalRow
  <2> QED BY <2>2, <2>3
<1> QED BY <1>1, <1>3, <1>4, <1>13, <1>17, <1>18, Zenon DEF ChunkSolved

\* The states after a tick.
Scattered(bound, solved, new) ==
    /\ StateOK(new) /\ Same(LogicalGrid(physicalState), LogicalGrid(new))
    /\ \A m \in Place : Cell(LogicalGrid(physicalState), m) =>
            At(LogicalGrid(new), m) = IF SolvedAt(bound, solved, m) THEN "next"
                                      ELSE At(LogicalGrid(physicalState), m)

\* What a tick writes to the states.
LEMMA ScatterStates ==
    ASSUME StateOK(physicalState), \A c \in 1..Size(physicalState) : Size(physicalState[c].values) <= ChunkCapacity,
           NEW bound, NEW solved, NEW new, new = Scatter(bound, solved)
    PROVE  Scattered(bound, solved, new)
<1>1. PICK ps : ps = physicalState
  OBVIOUS
<1>2. ps \in Seq(StateChunk) /\ IsGrid(LogicalGrid(ps), States) /\ \A c \in 1..Size(ps) : StateRowsOK(ps[c])
  BY <1>1, Zenon DEF StateOK
<1>3. Size(ps) \in Nat /\ DOMAIN ps = 1..Size(ps)
  BY <1>2, SeqFacts, Zenon
<1>4. new = [c \in 1..Size(ps) |-> ChunkAfter(bound, solved, c)]
  <2>1. new = [c \in DOMAIN physicalState |-> ChunkAfter(bound, solved, c)]
    BY Zenon DEF Scatter, ChunkAfter, RowAfter
  <2> QED BY <1>1, <1>3, <2>1
<1>5. ASSUME NEW c \in 1..Size(ps) PROVE ChunkSolved(bound, solved, c, new[c])
  <2>1. PICK n : n = ChunkAfter(bound, solved, c)
    OBVIOUS
  <2>2. StateRowsOK(physicalState[c]) /\ Size(physicalState[c].values) <= ChunkCapacity
    BY <1>1, <1>2
  <2>3. ChunkSolved(bound, solved, c, n)
    BY <2>1, <2>2, ScatterChunk, Zenon
  <2>4. new[c] = n
    BY <1>4, <2>1
  <2> QED BY <2>3, <2>4
<1>6. \A c \in 1..Size(ps) : StateRowsOK(new[c]) /\ new[c] \in StateChunk
  BY <1>5, Zenon DEF ChunkSolved, StateRowsOK
<1>7. new \in Seq(StateChunk) /\ Size(new) = Size(ps)
  <2>1. new \in [1..Size(ps) -> StateChunk]
    BY <1>4, <1>6
  <2> QED BY <1>3, <2>1, IsSeq, Zenon
<1>8. PICK g : g = LogicalGrid(ps)
  OBVIOUS
<1>9. PICK h : h = LogicalGrid(new)
  OBVIOUS
<1>10. IsStateGrid(ps, g) /\ IsStateGrid(new, h)
  BY <1>2, <1>7, <1>8, <1>9, StateGrid, Zenon
<1>11. Size(g) = Size(ps) /\ Size(h) = Size(ps)
  BY <1>7, <1>10, Zenon DEF IsStateGrid
<1>12. ASSUME NEW c \in 1..Size(ps)
       PROVE  /\ Size(h[c]) = Size(g[c]) /\ Size(g[c]) = Size(ps[c].values)
              /\ \A r \in 1..Size(g[c]) : g[c][r] = LogicalRow(ps[c], r) /\ h[c][r] = LogicalRow(new[c], r)
  <2>1. Size(new[c].values) = Size(ps[c].values)
    BY <1>1, <1>5, Zenon DEF ChunkSolved
  <2>2. g[c] = LogicalIn[ps[c]] /\ Size(g[c]) = Size(ps[c].values)
    BY <1>10, Zenon DEF IsStateGrid
  <2>3. h[c] = LogicalIn[new[c]] /\ Size(h[c]) = Size(new[c].values)
    BY <1>7, <1>10, Zenon DEF IsStateGrid
  <2>4. ps[c] \in StateChunk /\ new[c] \in StateChunk
    BY <1>2, <1>6, Zenon DEF StateRowsOK
  <2>5. LogicalRows(ps[c], g[c]) /\ LogicalRows(new[c], h[c])
    BY <2>2, <2>3, <2>4, LogicalFunction, Zenon
  <2> QED BY <2>1, <2>2, <2>3, <2>5, Zenon DEF LogicalRows
<1>13. Same(g, h)
  BY <1>11, <1>12, Zenon DEF Same
<1>14. IsGrid(h, States)
  <2>1. \A c \in 1..Size(g) : Size(g[c]) # 0
    BY <1>2, <1>8, Zenon DEF IsGrid
  <2>2. h \in Seq(Seq(States))
    BY <1>10, Zenon DEF IsStateGrid
  <2> QED BY <1>11, <1>12, <2>1, <2>2, Zenon DEF IsGrid
<1>15. ASSUME NEW m \in Place, Cell(g, m)
       PROVE  At(h, m) = IF SolvedAt(bound, solved, m) THEN "next" ELSE At(g, m)
  <2>1. m = Locator(m.chunk, m.row)
    BY Places DEF Locator
  <2>2. m.chunk \in 1..Size(ps) /\ m.row \in 1..Size(g[m.chunk])
    BY <1>11, <1>15, Zenon DEF Cell
  <2>3. g[m.chunk][m.row] = LogicalRow(ps[m.chunk], m.row) /\ h[m.chunk][m.row] = LogicalRow(new[m.chunk], m.row)
    BY <1>12, <2>2, Zenon
  <2>4. /\ ChunkSolved(bound, solved, m.chunk, new[m.chunk])
        /\ m.row \in 1..Size(new[m.chunk].values)
    <3>1. ChunkSolved(bound, solved, m.chunk, new[m.chunk])
      BY <1>5, <2>2, Zenon
    <3>2. Size(new[m.chunk].values) = Size(g[m.chunk])
      BY <1>1, <1>12, <2>2, <3>1, Zenon DEF ChunkSolved
    <3> QED BY <2>2, <3>1, <3>2
  <2>5. LogicalRow(new[m.chunk], m.row) =
            IF SolvedAt(bound, solved, Locator(m.chunk, m.row)) THEN "next"
            ELSE LogicalRow(physicalState[m.chunk], m.row)
    BY <2>4, Zenon DEF ChunkSolved
  <2> QED BY <1>1, <2>1, <2>3, <2>5, Zenon DEF At
<1>16. StateOK(new)
  BY <1>6, <1>7, <1>9, <1>14, Zenon DEF StateOK
<1> QED BY <1>1, <1>8, <1>9, <1>13, <1>15, <1>16, Zenon DEF Scattered

\* The bindings of the live islands, as a tick writes them.
BoundRows(rt) ==
    UNION {{[island |-> i, location |-> rt[i].bindings[d]] : d \in DOMAIN rt[i].bindings} : i \in DOMAIN islands}

\* What is bound, one by one.
LEMMA BoundFacts ==
    ASSUME NEW rt
    PROVE  \A b : b \in BoundRows(rt) <=>
            \E i \in DOMAIN islands : \E d \in DOMAIN rt[i].bindings :
                b = [island |-> i, location |-> rt[i].bindings[d]]
<1> DEFINE Of(i) == {[island |-> i, location |-> rt[i].bindings[d]] : d \in DOMAIN rt[i].bindings}
<1>1. \A b, i : b \in Of(i) <=> \E d \in DOMAIN rt[i].bindings :
                                b = [island |-> i, location |-> rt[i].bindings[d]]
  BY Zenon
<1>2. BoundRows(rt) = UNION {Of(i) : i \in DOMAIN islands}
  BY Zenon DEF BoundRows
<1> HIDE DEF Of
<1>3. \A b : b \in BoundRows(rt) <=> \E i \in DOMAIN islands : b \in Of(i)
  BY <1>2
<1> QED BY <1>1, <1>3

\* Only the states of the devices of solved islands change.
TickEffect(solved) ==
    /\ StorageOK'
    /\ Resident' = Resident /\ arena'.directory = arena.directory
    /\ IslandOf' = IslandOf /\ ParameterOf' = ParameterOf
    /\ StateOf' = [d \in Resident |-> IF IslandOf[d] \in solved THEN "next" ELSE StateOf[d]]

\* What a tick changes, when the runtimes are bound to the rows of their islands.
LEMMA TickStorage ==
    ASSUME StorageOK, arena' = arena, topologyRows' = topologyRows, NEW rt, NEW solved,
           solved \subseteq DOMAIN islands,
           \A i \in DOMAIN islands : islands[i] = {d \in Resident : IslandOf[d] = i},
           \A i \in DOMAIN islands : rt[i].bindings = Bindings(islands[i]),
           physicalState' = Scatter(BoundRows(rt), solved)
    PROVE  TickEffect(solved)
<1>1. RowsAreThere
  BY StorageRows, Zenon
<1>2. /\ Resident = Residents(arena.directory) /\ arena.directory \in [Devices -> Place]
      /\ Same(DeviceGrid(arena), LogicalGrid(physicalState))
      /\ OnGrid(arena.directory, LogicalGrid(physicalState))
      /\ \A d, e \in Residents(arena.directory) : arena.directory[d] = arena.directory[e] => d = e
  BY <1>1, Zenon DEF RowsAreThere
<1>3. StateOK(physicalState) /\ ArenaOK(arena)
  BY Zenon DEF StorageOK
<1>4. \A c \in 1..Size(physicalState) : Size(physicalState[c].values) <= ChunkCapacity
  <2>1. IsStateGrid(physicalState, LogicalGrid(physicalState))
    <3>1. physicalState \in Seq(StateChunk)
      BY <1>3, Zenon DEF StateOK
    <3> QED BY <3>1, StateGrid, Zenon
  <2>2. FieldsAre(arena.chunks, DeviceGrid(arena), ParameterGrid(arena))
    <3>1. arena.chunks \in Seq(DeviceChunk)
      <4>1. arena \in Arenas
        BY <1>3, Zenon DEF ArenaOK, GridsOK
      <4> QED BY <4>1 DEF Arenas
    <3> QED BY <3>1, ArenaGrids, Zenon DEF DeviceGrid, ParameterGrid
  <2>3. ASSUME NEW c \in 1..Size(physicalState)
        PROVE  Size(physicalState[c].values) <= ChunkCapacity
    <3>1. c \in 1..Size(LogicalGrid(physicalState)) /\ Size(LogicalGrid(physicalState)[c]) = Size(physicalState[c].values)
      BY <2>1, Zenon DEF IsStateGrid
    <3>2. c \in 1..Size(DeviceGrid(arena)) /\ Size(DeviceGrid(arena)[c]) = Size(LogicalGrid(physicalState)[c])
      BY <1>2, <3>1, Zenon DEF Same
    <3>3. c \in 1..Size(arena.chunks) /\ DeviceGrid(arena)[c] = arena.chunks[c].devices
      BY <2>2, <3>2, Zenon DEF FieldsAre
    <3>4. Size(arena.chunks[c].devices) <= ChunkCapacity
      BY <1>3, <3>3, Zenon DEF ArenaOK
    <3> QED BY <3>1, <3>2, <3>3, <3>4
  <2> QED BY <2>3
<1>5. PICK bound : bound = BoundRows(rt)
  OBVIOUS
<1>6. PICK new : new = Scatter(bound, solved)
  OBVIOUS
<1>7. physicalState' = new
  BY <1>5, <1>6
<1>8. Scattered(bound, solved, new)
  BY <1>3, <1>4, <1>6, ScatterStates, Zenon
<1>9. StorageOK'
  <2>1. StateOK(new) /\ Same(LogicalGrid(physicalState), LogicalGrid(new))
    BY <1>8, Zenon DEF Scattered
  <2>2. Same(DeviceGrid(arena), LogicalGrid(new))
    BY <1>2, <2>1 DEF Same
  <2> QED BY <1>7, <2>1, <2>2, Zenon DEF StorageOK
<1>10. ASSUME NEW d \in Resident PROVE SolvedAt(bound, solved, arena.directory[d]) <=> IslandOf[d] \in solved
  <2>1. ASSUME SolvedAt(bound, solved, arena.directory[d]) PROVE IslandOf[d] \in solved
    <3>1. PICK b \in bound : b.location = arena.directory[d] /\ b.island \in solved
      BY <2>1, Zenon DEF SolvedAt
    <3>2. \E i \in DOMAIN islands : \E e \in DOMAIN rt[i].bindings :
            b = [island |-> i, location |-> rt[i].bindings[e]]
      <4>1. b \in BoundRows(rt)
        BY <1>5, <3>1, Zenon
      <4> QED BY <4>1, BoundFacts
    <3>6. PICK i \in DOMAIN islands :
            \E e \in DOMAIN rt[i].bindings : b = [island |-> i, location |-> rt[i].bindings[e]]
      BY <3>2
    <3>7. PICK e \in DOMAIN rt[i].bindings : b = [island |-> i, location |-> rt[i].bindings[e]]
      BY <3>6
    <3>3. e \in Resident /\ IslandOf[e] = i /\ rt[i].bindings[e] = arena.directory[e]
      <4>1. rt[i].bindings = [f \in islands[i] |-> arena.directory[f]]
        BY <3>6, Zenon DEF Bindings
      <4>2. e \in islands[i] /\ rt[i].bindings[e] = arena.directory[e]
        BY <3>7, <4>1
      <4>3. islands[i] = {f \in Resident : IslandOf[f] = i}
        BY <3>6, Zenon
      <4> QED BY <4>2, <4>3, Zenon
    <3>4. b.island = i /\ b.location = arena.directory[e]
      BY <3>3, <3>7
    <3>5. e = d
      BY <1>2, <3>1, <3>3, <3>4
    <3> QED BY <3>1, <3>3, <3>4, <3>5
  <2>2. ASSUME IslandOf[d] \in solved PROVE SolvedAt(bound, solved, arena.directory[d])
    <3>1. PICK i : i = IslandOf[d]
      OBVIOUS
    <3>2. i \in DOMAIN islands /\ d \in islands[i]
      BY <2>2, <3>1
    <3>3. d \in DOMAIN rt[i].bindings /\ rt[i].bindings[d] = arena.directory[d]
      BY <3>2 DEF Bindings
    <3>4. [island |-> i, location |-> rt[i].bindings[d]] \in bound
      BY <1>5, <3>2, <3>3, BoundFacts
    <3>5. PICK b : b = [island |-> i, location |-> rt[i].bindings[d]]
      OBVIOUS
    <3>6. b \in bound /\ b.island \in solved /\ b.location = arena.directory[d]
      BY <2>2, <3>1, <3>3, <3>4, <3>5
    <3> QED BY <3>6, Zenon DEF SolvedAt
  <2> QED BY <2>1, <2>2
<1>11. StateOf' = [d \in Resident |-> IF IslandOf[d] \in solved THEN "next" ELSE StateOf[d]]
  <2>1. StateOf' = [d \in Resident |-> At(LogicalGrid(new), arena.directory[d])]
    BY <1>2, <1>7, Zenon DEF StateOf, Reads
  <2>2. StateOf = [d \in Resident |-> At(LogicalGrid(physicalState), arena.directory[d])]
    BY <1>2, Zenon DEF StateOf, Reads
  <2>3. ASSUME NEW d \in Resident
        PROVE  At(LogicalGrid(new), arena.directory[d]) =
                    IF IslandOf[d] \in solved THEN "next" ELSE At(LogicalGrid(physicalState), arena.directory[d])
    <3>1. arena.directory[d] \in Place /\ Cell(LogicalGrid(physicalState), arena.directory[d])
      BY <1>2, Zenon DEF Residents, OnGrid
    <3> QED BY <1>8, <1>10, <3>1, Zenon DEF Scattered
  <2> QED BY <2>1, <2>2, <2>3
<1>12. Resident' = Resident /\ IslandOf' = IslandOf
  BY Zenon DEF Resident, IslandOf
<1>13. ParameterOf' = ParameterOf
  <2>1. ParameterOf' = Reads(arena'.directory, ParameterGrid(arena'))
    BY DEF ParameterOf, Reads, Residents, At, ParameterGrid, Mapped, ParametersIn
  <2> QED BY <2>1, Zenon DEF ParameterOf
<1> QED BY <1>9, <1>11, <1>12, <1>13, Zenon DEF TickEffect

-----------------------------------------------------------------------------
(* Every step preserves the invariant.                                     *)

\* What the marks of WorldInvalidation do to each field.
LEMMA TopologyMarks ==
    ASSUME NEW inv \in Marks, NEW marked \in SUBSET Nat, NEW n, n = MarkTopologyDirty(inv, marked)
    PROVE  /\ n \in Marks /\ n.retired = inv.retired
           /\ n.topologyDirty = inv.topologyDirty \cup (marked \ inv.retired)
           /\ n.numericalDirty = inv.numericalDirty \ (marked \ inv.retired)
           /\ n.bindingDirty = inv.bindingDirty \ (marked \ inv.retired)
<1>1. inv = [topologyDirty |-> inv.topologyDirty, numericalDirty |-> inv.numericalDirty,
             bindingDirty |-> inv.bindingDirty, retired |-> inv.retired]
      /\ inv.topologyDirty \subseteq Nat /\ inv.numericalDirty \subseteq Nat
      /\ inv.bindingDirty \subseteq Nat /\ inv.retired \subseteq Nat
  BY DEF Marks
<1>2. PICK dirty : dirty = marked \ inv.retired
  OBVIOUS
<1>3. n = [inv EXCEPT !.topologyDirty = @ \cup dirty, !.numericalDirty = @ \ dirty,
                      !.bindingDirty = @ \ dirty]
  BY <1>2 DEF MarkTopologyDirty
<1>4. n = [topologyDirty |-> inv.topologyDirty \cup dirty, numericalDirty |-> inv.numericalDirty \ dirty,
           bindingDirty |-> inv.bindingDirty \ dirty, retired |-> inv.retired]
  BY <1>1, <1>3
<1>5. n \in Marks
  <2>1. /\ inv.topologyDirty \cup dirty \in SUBSET Nat /\ inv.numericalDirty \ dirty \in SUBSET Nat
        /\ inv.bindingDirty \ dirty \in SUBSET Nat /\ inv.retired \in SUBSET Nat
    BY <1>1, <1>2
  <2> QED BY <1>4, <2>1 DEF Marks
<1> QED BY <1>2, <1>4, <1>5

\* An island that goes is marked as nothing else.
LEMMA RetiredMarks ==
    ASSUME NEW inv \in Marks, NEW island \in Nat, NEW n, n = MarkRetired(inv, island)
    PROVE  /\ n \in Marks /\ n.retired = inv.retired \cup {island}
           /\ n.topologyDirty = inv.topologyDirty \ {island}
           /\ n.numericalDirty = inv.numericalDirty \ {island}
           /\ n.bindingDirty = inv.bindingDirty \ {island}
BY DEF Marks, MarkRetired

\* Moved rows are marked where the island is not compiled anyway.
LEMMA BindingMarks ==
    ASSUME NEW inv \in Marks, NEW marked \in SUBSET Nat, NEW n, n = MarkBindingDirty(inv, marked)
    PROVE  /\ n \in Marks /\ n.retired = inv.retired
           /\ n.topologyDirty = inv.topologyDirty /\ n.numericalDirty = inv.numericalDirty
           /\ n.bindingDirty = inv.bindingDirty \cup (marked \ (inv.retired \cup inv.topologyDirty))
<1>1. PICK x : x = inv.bindingDirty \cup (marked \ (inv.retired \cup inv.topologyDirty))
  OBVIOUS
<1>2. n = [inv EXCEPT !.bindingDirty = x] /\ x \subseteq Nat
  BY <1>1 DEF MarkBindingDirty, Marks
<1>3. n = [topologyDirty |-> inv.topologyDirty, numericalDirty |-> inv.numericalDirty,
           bindingDirty |-> x, retired |-> inv.retired]
  BY <1>2 DEF Marks
<1> QED BY <1>1, <1>2, <1>3 DEF Marks

\* And so are parameters that were set.
LEMMA NumericalMarks ==
    ASSUME NEW inv \in Marks, NEW marked \in SUBSET Nat, NEW n, n = MarkNumericalDirty(inv, marked)
    PROVE  /\ n \in Marks /\ n.retired = inv.retired
           /\ n.topologyDirty = inv.topologyDirty /\ n.bindingDirty = inv.bindingDirty
           /\ n.numericalDirty = inv.numericalDirty \cup (marked \ (inv.retired \cup inv.topologyDirty))
<1>1. PICK x : x = inv.numericalDirty \cup (marked \ (inv.retired \cup inv.topologyDirty))
  OBVIOUS
<1>2. n = [inv EXCEPT !.numericalDirty = x] /\ x \subseteq Nat
  BY <1>1 DEF MarkNumericalDirty, Marks
<1>3. n = [topologyDirty |-> inv.topologyDirty, numericalDirty |-> x,
           bindingDirty |-> inv.bindingDirty, retired |-> inv.retired]
  BY <1>2 DEF Marks
<1> QED BY <1>1, <1>2, <1>3 DEF Marks

\* What a step may do to an island whose runtime it leaves: move a row that is
\* announced, set a parameter that is announced.
Undisturbed(i) ==
    /\ i \in DOMAIN islands /\ i \notin invalidation.topologyDirty /\ islands'[i] = islands[i]
    /\ i \notin invalidation'.bindingDirty =>
        /\ i \notin invalidation.bindingDirty
        /\ \A d \in islands[i] : arena'.directory[d] = arena.directory[d]
    /\ i \notin invalidation'.numericalDirty =>
        /\ i \notin invalidation.numericalDirty
        /\ \A d \in islands[i] : ParameterOf'[d] = ParameterOf[d]

\* The runtimes of such islands stay what they should be.
LEMMA RuntimesStay ==
    ASSUME RuntimesOK, runtimes' = runtimes,
           \A i \in DOMAIN islands' \ invalidation'.topologyDirty : Undisturbed(i)
    PROVE  RuntimesOK'
<1>1. \A i \in DOMAIN runtimes' : IsRuntime(runtimes'[i])
  BY Zenon DEF RuntimesOK
<1>2. ASSUME NEW i \in DOMAIN islands' \ invalidation'.topologyDirty
      PROVE  i \in DOMAIN runtimes' /\ RuntimeOK(i, runtimes[i])'
  <2>1. PICK x : x = runtimes[i]
    OBVIOUS
  <2>2. runtimes'[i] = x
    BY <2>1
  <2>3. /\ i \in DOMAIN islands /\ i \notin invalidation.topologyDirty /\ islands'[i] = islands[i]
        /\ i \notin invalidation'.bindingDirty =>
            /\ i \notin invalidation.bindingDirty
            /\ \A d \in islands[i] : arena'.directory[d] = arena.directory[d]
        /\ i \notin invalidation'.numericalDirty =>
            /\ i \notin invalidation.numericalDirty
            /\ \A d \in islands[i] : ParameterOf'[d] = ParameterOf[d]
    BY <1>2, Zenon DEF Undisturbed
  <2>4. i \in DOMAIN runtimes /\ RuntimeOK(i, runtimes[i])
    BY <2>3, Zenon DEF RuntimesOK
  <2>5. /\ DOMAIN x.bindings = islands[i] /\ DOMAIN x.parameters = islands[i]
        /\ i \notin invalidation.bindingDirty => x.bindings = Bindings(islands[i])
        /\ i \notin invalidation.numericalDirty /\ ~x.staticInputsDirty =>
            x.parameters = ValuesOf(islands[i]) /\ \A d \in islands[i] : ParameterOf[d] # Unassigned
    BY <2>1, <2>4, Zenon DEF RuntimeOK
  <2>6. i \notin invalidation'.bindingDirty => x.bindings = [d \in islands[i] |-> arena'.directory[d]]
    BY <2>3, <2>5 DEF Bindings
  <2>7. i \notin invalidation'.numericalDirty /\ ~x.staticInputsDirty =>
            /\ x.parameters = [d \in islands[i] |-> ParameterOf'[d]]
            /\ \A d \in islands[i] : ParameterOf'[d] # Unassigned
    BY <2>3, <2>5 DEF ValuesOf
  <2> QED BY <2>2, <2>3, <2>4, <2>5, <2>6, <2>7, Zenon DEF RuntimeOK, Bindings, ValuesOf
<1> QED BY <1>1, <1>2, Zenon DEF RuntimesOK

\* What the invariant says of an island.
LEMMA IslandFacts ==
    ASSUME DeviceInv
    PROVE  /\ StorageOK /\ RuntimesOK
           /\ islandSlots \in Nat /\ DOMAIN islands \subseteq 1..islandSlots /\ DOMAIN islands \subseteq Nat
           /\ \A d \in Resident : IslandOf[d] \in DOMAIN islands
           /\ \A i \in DOMAIN islands : islands[i] # {} /\ islands[i] = {d \in Resident : IslandOf[d] = i}
           /\ invalidation \in Marks
           /\ invalidation.retired \cap DOMAIN islands = {}
           /\ invalidation.retired \subseteq 1..islandSlots
<1>1. StorageOK /\ MembershipOK /\ InvalidationOK /\ RuntimesOK
  BY Zenon DEF DeviceInv
<1>2. islandSlots \in Nat /\ DOMAIN islands \subseteq 1..islandSlots
  BY <1>1, Zenon DEF MembershipOK
<1>3. DOMAIN islands \subseteq Nat
  BY <1>2
<1> QED BY <1>1, <1>2, <1>3, Zenon DEF MembershipOK, InvalidationOK

\* Adding a device.
LEMMA AddStep ==
    ASSUME DeviceInv, NEW d \in Devices, NEW definition \in Definitions, AddDevice(d, definition)
    PROVE  DeviceInv'
<1> USE IslandFacts
<1>1. PICK n : n = islandSlots + 1
  OBVIOUS
<1>2. /\ d \notin Resident /\ islandSlots' = n /\ runtimes' = runtimes
      /\ islands' = [i \in DOMAIN islands \cup {n} |-> IF i = n THEN {d} ELSE islands[i]]
      /\ invalidation' = MarkTopologyDirty(invalidation, {n})
  BY <1>1 DEF AddDevice
<1>3. AddEffect(d, n)
  BY <1>1, AddStorage, Zenon
<1>4. /\ StorageOK' /\ Resident' = Resident \cup {d}
      /\ IslandOf' = [e \in Resident \cup {d} |-> IF e = d THEN n ELSE IslandOf[e]]
      /\ ParameterOf' = [e \in Resident \cup {d} |-> IF e = d THEN Unassigned ELSE ParameterOf[e]]
      /\ \A e \in Resident : arena'.directory[e] = arena.directory[e]
  BY <1>3, Zenon DEF AddEffect
<1>5. n \in Nat /\ n \notin DOMAIN islands /\ n \notin invalidation.retired
      /\ DOMAIN islands \subseteq 1..n /\ invalidation.retired \subseteq 1..n
  BY <1>1
<1>6. /\ DOMAIN islands' = DOMAIN islands \cup {n} /\ islands'[n] = {d}
      /\ \A i \in DOMAIN islands : islands'[i] = islands[i]
  BY <1>2, <1>5
<1>7. MembershipOK'
  <2>1. ASSUME NEW i \in DOMAIN islands'
        PROVE  islands'[i] # {} /\ islands'[i] = {e \in Resident' : IslandOf'[e] = i}
    <3>1. CASE i = n
      BY <1>2, <1>4, <1>5, <1>6, <3>1
    <3>2. CASE i # n
      BY <1>2, <1>4, <1>5, <1>6, <3>2
    <3> QED BY <3>1, <3>2
  <2>2. \A e \in Resident' : IslandOf'[e] \in DOMAIN islands'
    BY <1>4, <1>6
  <2>3. DOMAIN islands' \subseteq 1..n
    BY <1>1, <1>5, <1>6
  <2> QED BY <1>2, <1>5, <2>1, <2>2, <2>3, Zenon DEF MembershipOK
<1>8. /\ invalidation' \in Marks /\ invalidation'.retired = invalidation.retired
      /\ invalidation'.topologyDirty = invalidation.topologyDirty \cup ({n} \ invalidation.retired)
      /\ invalidation'.numericalDirty = invalidation.numericalDirty \ ({n} \ invalidation.retired)
      /\ invalidation'.bindingDirty = invalidation.bindingDirty \ ({n} \ invalidation.retired)
  <2>1. {n} \in SUBSET Nat
    BY <1>5
  <2> QED BY <1>2, <2>1, TopologyMarks
<1>9. InvalidationOK'
  <2>1. invalidation'.retired \cap DOMAIN islands' = {}
    BY <1>5, <1>6, <1>8
  <2>2. invalidation'.retired \subseteq 1..islandSlots'
    BY <1>2, <1>5, <1>8
  <2> QED BY <1>8, <2>1, <2>2, Zenon DEF InvalidationOK
<1>10. ASSUME NEW i \in DOMAIN islands' \ invalidation'.topologyDirty PROVE Undisturbed(i)
  <2>1. i \in DOMAIN islands /\ i # n /\ i \notin invalidation.topologyDirty
    BY <1>5, <1>6, <1>8
  <2>2. \A e \in islands[i] : e \in Resident /\ e # d
    BY <1>2, <2>1
  <2> QED BY <1>4, <1>6, <1>8, <2>1, <2>2 DEF Undisturbed
<1>11. RuntimesOK'
  BY <1>2, <1>10, RuntimesStay
<1> QED BY <1>4, <1>7, <1>9, <1>11, Zenon DEF DeviceInv

\* An insert that fails.
LEMMA FailStep ==
    ASSUME DeviceInv, NEW definition \in Definitions, AddDeviceFails(definition)
    PROVE  DeviceInv'
<1> USE IslandFacts
<1>1. /\ islands' = islands /\ islandSlots' = islandSlots /\ invalidation' = invalidation
      /\ runtimes' = runtimes
  BY DEF AddDeviceFails
<1>2. /\ StorageOK' /\ Resident' = Resident /\ arena'.directory = arena.directory
      /\ IslandOf' = IslandOf /\ ParameterOf' = ParameterOf
  BY FailStorage, Zenon DEF SameStorage
<1>3. MembershipOK'
  BY <1>1, <1>2, Zenon DEF MembershipOK
<1>4. InvalidationOK'
  BY <1>1, Zenon DEF InvalidationOK
<1>5. \A i \in DOMAIN islands' \ invalidation'.topologyDirty : Undisturbed(i)
  BY <1>1, <1>2 DEF Undisturbed
<1>6. RuntimesOK'
  BY <1>1, <1>5, RuntimesStay
<1> QED BY <1>2, <1>3, <1>4, <1>6, Zenon DEF DeviceInv

\* Setting a parameter.
LEMMA SetStep ==
    ASSUME DeviceInv, NEW d \in Devices, NEW value \in Parameters, SetDeviceParameter(d, value)
    PROVE  DeviceInv'
<1> USE IslandFacts
<1>1. /\ d \in Resident /\ islands' = islands /\ islandSlots' = islandSlots /\ runtimes' = runtimes
      /\ invalidation' = MarkNumericalDirty(invalidation,
                            {IslandAt(topologyRows, arena.directory[d])})
  BY DEF SetDeviceParameter
<1>2. PICK n : n = IslandOf[d]
  OBVIOUS
<1>3. n \in DOMAIN islands /\ n \in Nat /\ n \notin invalidation.retired
  BY <1>1, <1>2
<1>4. invalidation' = MarkNumericalDirty(invalidation, {n})
  BY <1>1, <1>2, StorageReads
<1>5. /\ StorageOK' /\ Resident' = Resident /\ arena'.directory = arena.directory
      /\ IslandOf' = IslandOf /\ ParameterOf' = [ParameterOf EXCEPT ![d] = value]
  BY SetStorage, Zenon DEF SetEffect
<1>6. MembershipOK'
  BY <1>1, <1>5, Zenon DEF MembershipOK
<1>7. /\ invalidation' \in Marks /\ invalidation'.retired = invalidation.retired
      /\ invalidation'.topologyDirty = invalidation.topologyDirty
      /\ invalidation'.bindingDirty = invalidation.bindingDirty
      /\ invalidation'.numericalDirty = invalidation.numericalDirty \cup
            ({n} \ (invalidation.retired \cup invalidation.topologyDirty))
  <2>1. {n} \in SUBSET Nat
    BY <1>3
  <2> QED BY <1>4, <2>1, NumericalMarks
<1>8. InvalidationOK'
  BY <1>1, <1>7, Zenon DEF InvalidationOK
<1>9. ASSUME NEW i \in DOMAIN islands' \ invalidation'.topologyDirty PROVE Undisturbed(i)
  <2>1. i \in DOMAIN islands /\ i \notin invalidation.topologyDirty /\ islands'[i] = islands[i]
    BY <1>1, <1>7
  <2>2. ASSUME i \notin invalidation'.numericalDirty
        PROVE  i \notin invalidation.numericalDirty /\ \A e \in islands[i] : ParameterOf'[e] = ParameterOf[e]
    <3>1. i # n
      BY <1>3, <1>7, <2>1, <2>2
    <3>2. \A e \in islands[i] : e # d
      BY <1>2, <2>1, <3>1
    <3> QED BY <1>5, <1>7, <2>2, <3>2
  <2> QED BY <1>5, <1>7, <2>1, <2>2, Zenon DEF Undisturbed
<1>10. RuntimesOK'
  BY <1>1, <1>9, RuntimesStay
<1> QED BY <1>5, <1>6, <1>8, <1>10, Zenon DEF DeviceInv

\* A merge moves the devices of one island.
LEMMA MergeMoves ==
    ASSUME DeviceInv, NEW dst, NEW src, MergeIslands(dst, src)
    PROVE  RowsEffect(islands[src], dst)
<1>1. PICK devices : devices = islands[src]
  OBVIOUS
<1>2. /\ dst \in DOMAIN islands /\ src \in DOMAIN islands /\ arena' = arena
      /\ physicalState' = physicalState /\ topologyRows' = Rows(topologyRows, devices, dst)
  BY <1>1 DEF MergeIslands
<1>3. StorageOK /\ devices \subseteq Resident /\ dst \in Nat
  BY <1>1, <1>2, IslandFacts
<1>4. RowsEffect(devices, dst)
  BY <1>2, <1>3, RowsStorage
<1> QED BY <1>1, <1>4

\* A split moves one device.
LEMMA SplitMoves ==
    ASSUME DeviceInv, NEW island, NEW d \in Devices, SplitIsland(island, d)
    PROVE  RowsEffect({d}, islandSlots + 1)
<1>1. PICK devices : devices = {d}
  OBVIOUS
<1>2. PICK n : n = islandSlots + 1
  OBVIOUS
<1>3. /\ island \in DOMAIN islands /\ d \in islands[island] /\ arena' = arena
      /\ physicalState' = physicalState /\ topologyRows' = Rows(topologyRows, devices, n)
  BY <1>1, <1>2 DEF SplitIsland
<1>4. StorageOK /\ devices \subseteq Resident /\ n \in Nat
  BY <1>1, <1>2, <1>3, IslandFacts
<1>5. RowsEffect(devices, n)
  BY <1>3, <1>4, RowsStorage
<1> QED BY <1>1, <1>2, <1>5

\* Two islands that become one.
LEMMA MergeStep ==
    ASSUME DeviceInv, NEW dst, NEW src, MergeIslands(dst, src)
    PROVE  DeviceInv'
<1> USE IslandFacts
<1>1. /\ dst \in DOMAIN islands /\ src \in DOMAIN islands /\ dst # src
      /\ topologyRows' = Rows(topologyRows, islands[src], dst)
      /\ islands' = [i \in DOMAIN islands \ {src} |->
                        IF i = dst THEN islands[dst] \cup islands[src] ELSE islands[i]]
      /\ invalidation' = MarkTopologyDirty(MarkRetired(invalidation, src), {dst})
      /\ arena' = arena /\ physicalState' = physicalState /\ islandSlots' = islandSlots
      /\ runtimes' = runtimes
  BY DEF MergeIslands
<1>2. /\ dst \in Nat /\ src \in Nat /\ dst \notin invalidation.retired /\ islands[src] \subseteq Resident
      /\ islands[dst] \subseteq Resident
  BY <1>1
<1>3. PICK devices : devices = islands[src]
  OBVIOUS
<1>4. RowsEffect(devices, dst)
  BY <1>3, MergeMoves
<1>5. /\ StorageOK' /\ Resident' = Resident /\ arena'.directory = arena.directory
      /\ IslandOf' = [e \in Resident |-> IF e \in devices THEN dst ELSE IslandOf[e]]
      /\ ParameterOf' = ParameterOf
  BY <1>4, Zenon DEF RowsEffect
<1>6. /\ DOMAIN islands' = DOMAIN islands \ {src} /\ islands'[dst] = islands[dst] \cup devices
      /\ \A i \in DOMAIN islands \ {src, dst} : islands'[i] = islands[i]
  BY <1>1, <1>3
<1>7. MembershipOK'
  <2>1. ASSUME NEW i \in DOMAIN islands'
        PROVE  islands'[i] # {} /\ islands'[i] = {e \in Resident' : IslandOf'[e] = i}
    <3>1. CASE i = dst
      BY <1>1, <1>2, <1>3, <1>5, <1>6, <3>1
    <3>2. CASE i # dst
      BY <1>1, <1>3, <1>5, <1>6, <3>2
    <3> QED BY <3>1, <3>2
  <2>2. ASSUME NEW e \in Resident' PROVE IslandOf'[e] \in DOMAIN islands'
    <3>1. e \in Resident /\ IslandOf[e] \in DOMAIN islands
      BY <1>5
    <3>2. CASE e \in devices
      BY <1>1, <1>5, <1>6, <3>1, <3>2
    <3>3. CASE e \notin devices
      <4>1. IslandOf[e] # src
        BY <1>1, <1>3, <3>1, <3>3
      <4> QED BY <1>5, <1>6, <3>1, <3>3, <4>1
    <3> QED BY <3>2, <3>3
  <2>3. islandSlots' \in Nat /\ DOMAIN islands' \subseteq 1..islandSlots'
    BY <1>1, <1>6
  <2> QED BY <2>1, <2>2, <2>3, Zenon DEF MembershipOK
<1>8. PICK inv : inv = MarkRetired(invalidation, src)
  OBVIOUS
<1>9. inv \in Marks /\ inv.retired = invalidation.retired \cup {src}
      /\ inv.topologyDirty = invalidation.topologyDirty \ {src}
      /\ inv.numericalDirty = invalidation.numericalDirty \ {src}
      /\ inv.bindingDirty = invalidation.bindingDirty \ {src}
  BY <1>2, <1>8, RetiredMarks
<1>10. /\ invalidation' \in Marks /\ invalidation'.retired = inv.retired
       /\ invalidation'.topologyDirty = inv.topologyDirty \cup {dst}
       /\ invalidation'.numericalDirty = inv.numericalDirty \ {dst}
       /\ invalidation'.bindingDirty = inv.bindingDirty \ {dst}
  <2>1. {dst} \in SUBSET Nat /\ {dst} \ inv.retired = {dst}
    BY <1>1, <1>2, <1>9
  <2> QED BY <1>1, <1>8, <1>9, <2>1, TopologyMarks
<1>11. InvalidationOK'
  <2>1. invalidation'.retired \cap DOMAIN islands' = {}
    BY <1>6, <1>9, <1>10
  <2>2. src \in 1..islandSlots /\ invalidation'.retired = invalidation.retired \cup {src}
    BY <1>1, <1>9, <1>10
  <2>3. invalidation'.retired \subseteq 1..islandSlots'
    BY <1>1, <2>2, Zenon
  <2> QED BY <1>10, <2>1, <2>3, Zenon DEF InvalidationOK
<1>12. ASSUME NEW i \in DOMAIN islands' \ invalidation'.topologyDirty PROVE Undisturbed(i)
  <2>1. i \in DOMAIN islands /\ i # dst /\ i # src /\ i \notin invalidation.topologyDirty
    BY <1>6, <1>9, <1>10
  <2> QED BY <1>5, <1>6, <1>9, <1>10, <2>1 DEF Undisturbed
<1>13. RuntimesOK'
  BY <1>1, <1>12, RuntimesStay
<1> QED BY <1>5, <1>7, <1>11, <1>13, Zenon DEF DeviceInv

\* A device that leaves its island for one of its own.
LEMMA SplitStep ==
    ASSUME DeviceInv, NEW island, NEW d \in Devices, SplitIsland(island, d)
    PROVE  DeviceInv'
<1> USE IslandFacts
<1>1. PICK n : n = islandSlots + 1
  OBVIOUS
<1>2. /\ island \in DOMAIN islands /\ d \in islands[island] /\ islands[island] # {d}
      /\ islandSlots' = n /\ topologyRows' = Rows(topologyRows, {d}, n)
      /\ islands' = [i \in DOMAIN islands \cup {n} |->
                        IF i = n THEN {d} ELSE IF i = island THEN islands[i] \ {d} ELSE islands[i]]
      /\ invalidation' = MarkTopologyDirty(invalidation, {island, n})
      /\ arena' = arena /\ physicalState' = physicalState /\ runtimes' = runtimes
  BY <1>1 DEF SplitIsland
<1>3. /\ n \in Nat /\ n \notin DOMAIN islands /\ n \notin invalidation.retired
      /\ DOMAIN islands \subseteq 1..n /\ invalidation.retired \subseteq 1..n
  BY <1>1
<1>4. island \in Nat /\ island \notin invalidation.retired /\ island # n /\ d \in Resident
      /\ IslandOf[d] = island
  BY <1>2, <1>3
<1>5. RowsEffect({d}, n)
  BY <1>1, SplitMoves
<1>6. /\ StorageOK' /\ Resident' = Resident /\ arena'.directory = arena.directory
      /\ IslandOf' = [e \in Resident |-> IF e \in {d} THEN n ELSE IslandOf[e]]
      /\ ParameterOf' = ParameterOf
  BY <1>5, Zenon DEF RowsEffect
<1>7. /\ DOMAIN islands' = DOMAIN islands \cup {n} /\ islands'[n] = {d}
      /\ islands'[island] = islands[island] \ {d}
      /\ \A i \in DOMAIN islands \ {island} : islands'[i] = islands[i]
  BY <1>2, <1>3, <1>4
<1>8. MembershipOK'
  <2>1. ASSUME NEW i \in DOMAIN islands'
        PROVE  islands'[i] # {} /\ islands'[i] = {e \in Resident' : IslandOf'[e] = i}
    <3>1. CASE i = n
      BY <1>3, <1>4, <1>6, <1>7, <3>1
    <3>2. CASE i = island
      BY <1>2, <1>4, <1>6, <1>7, <3>2
    <3>3. CASE i # n /\ i # island
      BY <1>4, <1>6, <1>7, <3>3
    <3> QED BY <3>1, <3>2, <3>3
  <2>2. \A e \in Resident' : IslandOf'[e] \in DOMAIN islands'
    BY <1>6, <1>7
  <2>3. islandSlots' \in Nat /\ DOMAIN islands' \subseteq 1..islandSlots'
    BY <1>1, <1>2, <1>3, <1>7
  <2> QED BY <2>1, <2>2, <2>3, Zenon DEF MembershipOK
<1>9. /\ invalidation' \in Marks /\ invalidation'.retired = invalidation.retired
      /\ invalidation'.topologyDirty = invalidation.topologyDirty \cup {island, n}
      /\ invalidation'.numericalDirty = invalidation.numericalDirty \ {island, n}
      /\ invalidation'.bindingDirty = invalidation.bindingDirty \ {island, n}
  <2>1. {island, n} \in SUBSET Nat /\ {island, n} \ invalidation.retired = {island, n}
    BY <1>3, <1>4
  <2> QED BY <1>2, <2>1, TopologyMarks
<1>10. InvalidationOK'
  <2>1. invalidation'.retired \cap DOMAIN islands' = {}
    BY <1>3, <1>7, <1>9
  <2>2. invalidation'.retired \subseteq 1..islandSlots'
    BY <1>2, <1>3, <1>9
  <2> QED BY <1>9, <2>1, <2>2, Zenon DEF InvalidationOK
<1>11. ASSUME NEW i \in DOMAIN islands' \ invalidation'.topologyDirty PROVE Undisturbed(i)
  <2>1. i \in DOMAIN islands /\ i # n /\ i # island /\ i \notin invalidation.topologyDirty
    BY <1>7, <1>9
  <2> QED BY <1>6, <1>7, <1>9, <2>1 DEF Undisturbed
<1>12. RuntimesOK'
  BY <1>2, <1>11, RuntimesStay
<1> QED BY <1>6, <1>8, <1>10, <1>12, Zenon DEF DeviceInv

\* Removing a device: the islands of the rows that moved are announced.
LEMMA RemoveStep ==
    ASSUME DeviceInv, NEW d \in Devices, RemoveDevice(d)
    PROVE  DeviceInv'
<1> USE IslandFacts
<1>1. PICK n : n = IslandOf[d]
  OBVIOUS
<1>2. d \in Resident /\ IslandAt(topologyRows, arena.directory[d]) = n
  BY <1>1, StorageReads DEF RemoveDevice
<1>3. PICK rest : rest = islands[n] \ {d}
  OBVIOUS
<1>4. PICK repaired : repaired = IF rest = {} THEN MarkRetired(invalidation, n)
                                 ELSE MarkTopologyDirty(invalidation, {n})
  OBVIOUS
<1>5. PICK marked : marked = {IslandAt(topologyRows', arena'.directory[e]) : e \in Moved(arena, d)}
  OBVIOUS
<1>6. /\ islands' = IF rest = {} THEN [i \in DOMAIN islands \ {n} |-> islands[i]]
                    ELSE [islands EXCEPT ![n] = rest]
      /\ invalidation' = MarkBindingDirty(repaired, marked)
      /\ islandSlots' = islandSlots /\ runtimes' = runtimes
  BY <1>2, <1>3, <1>4, <1>5, Zenon DEF RemoveDevice
<1>7. RemoveEffect(d)
  BY RemoveStorage, Zenon
<1>8. /\ StorageOK' /\ Resident' = Resident \ {d}
      /\ IslandOf' = [e \in Resident \ {d} |-> IslandOf[e]]
      /\ ParameterOf' = [e \in Resident \ {d} |-> ParameterOf[e]]
      /\ \A e \in Resident \ {d} :
            /\ e \notin Moved(arena, d) => arena'.directory[e] = arena.directory[e]
            /\ IslandAt(topologyRows', arena'.directory[e]) = IslandOf[e]
  BY <1>7, Zenon DEF RemoveEffect
<1>9. n \in DOMAIN islands /\ n \in Nat /\ n \notin invalidation.retired /\ d \in islands[n]
  BY <1>1, <1>2
<1>10. /\ DOMAIN islands' = IF rest = {} THEN DOMAIN islands \ {n} ELSE DOMAIN islands
       /\ rest # {} => islands'[n] = rest
       /\ \A i \in DOMAIN islands \ {n} : islands'[i] = islands[i]
  BY <1>6, <1>9
<1>11. ASSUME NEW i \in DOMAIN islands \ {n}, NEW e \in islands[i] PROVE e \in Resident \ {d} /\ IslandOf[e] = i
  BY <1>1
<1>12. MembershipOK'
  <2>1. ASSUME NEW i \in DOMAIN islands'
        PROVE  islands'[i] # {} /\ islands'[i] = {e \in Resident' : IslandOf'[e] = i}
    <3>1. CASE i = n
      BY <1>3, <1>8, <1>9, <1>10, <3>1
    <3>2. CASE i # n
      BY <1>1, <1>2, <1>8, <1>10, <3>2
    <3> QED BY <3>1, <3>2
  <2>2. ASSUME NEW e \in Resident' PROVE IslandOf'[e] \in DOMAIN islands'
    <3>1. e \in Resident /\ e # d /\ IslandOf'[e] = IslandOf[e] /\ IslandOf[e] \in DOMAIN islands
      BY <1>8
    <3>2. IslandOf[e] = n => rest # {}
      BY <1>3, <1>9, <3>1
    <3> QED BY <1>10, <3>1, <3>2
  <2>3. islandSlots' \in Nat /\ DOMAIN islands' \subseteq 1..islandSlots'
    BY <1>6, <1>10
  <2> QED BY <2>1, <2>2, <2>3, Zenon DEF MembershipOK
<1>13. /\ repaired \in Marks
       /\ repaired.retired \subseteq invalidation.retired \cup {n}
       /\ rest = {} => repaired.topologyDirty = invalidation.topologyDirty \ {n}
       /\ rest # {} => /\ repaired.topologyDirty = invalidation.topologyDirty \cup {n}
                       /\ repaired.retired = invalidation.retired
       /\ repaired.numericalDirty = invalidation.numericalDirty \ {n}
       /\ repaired.bindingDirty = invalidation.bindingDirty \ {n}
  <2>1. CASE rest = {}
    <3>1. repaired = MarkRetired(invalidation, n)
      BY <1>4, <2>1
    <3>2. /\ repaired \in Marks /\ repaired.retired = invalidation.retired \cup {n}
          /\ repaired.topologyDirty = invalidation.topologyDirty \ {n}
          /\ repaired.numericalDirty = invalidation.numericalDirty \ {n}
          /\ repaired.bindingDirty = invalidation.bindingDirty \ {n}
      <4>1. invalidation \in Marks /\ n \in Nat
        BY <1>9
      <4> HIDE IslandFacts
      <4> QED BY <3>1, <4>1, RetiredMarks
    <3> QED BY <2>1, <3>2
  <2>2. CASE rest # {}
    <3>1. {n} \in SUBSET Nat /\ {n} \ invalidation.retired = {n}
      BY <1>9
    <3>2. repaired = MarkTopologyDirty(invalidation, {n})
      BY <1>4, <2>2
    <3>3. /\ repaired \in Marks /\ repaired.retired = invalidation.retired
          /\ repaired.topologyDirty = invalidation.topologyDirty \cup {n}
          /\ repaired.numericalDirty = invalidation.numericalDirty \ {n}
          /\ repaired.bindingDirty = invalidation.bindingDirty \ {n}
      BY <3>1, <3>2, TopologyMarks
    <3> QED BY <2>2, <3>3
  <2> QED BY <2>1, <2>2
<1>14. \A e \in Moved(arena, d) : e \in Resident \ {d}
  <2>1. RowsAreThere
    BY StorageRows, Zenon
  <2>2. ArenaOK(arena) /\ Resident = Residents(arena.directory)
    BY <2>1, Zenon DEF StorageOK, RowsAreThere
  <2>3. PICK l : l = arena.directory[d]
    OBVIOUS
  <2>4. RowOf(arena, d, l)
    BY <1>2, <2>2, <2>3, ResidentRow, Zenon
  <2>5. l.chunk \in 1..Size(arena.chunks) /\ Size(arena.chunks) \in Nat
    <3>1. arena.chunks \in Seq(DeviceChunk)
      <4>1. arena \in Arenas
        BY <2>2, Zenon DEF ArenaOK, GridsOK
      <4> QED BY <4>1 DEF Arenas
    <3>2. Size(arena.chunks) \in Nat
      BY <3>1, SeqFacts, Zenon
    <3> QED BY <2>4, <3>2, Zenon DEF RowOf
  <2>6. ASSUME NEW e \in Moved(arena, d) PROVE e \in Resident \ {d}
    <3>1. e \in Devices /\ e # d
      BY <2>6, Zenon DEF Moved
    <3>2. arena.directory[e].chunk = Size(arena.chunks) \/ arena.directory[e].chunk = l.chunk
      BY <2>3, <2>6, <3>1, MovedFacts
    <3>3. arena.directory[e].chunk # 0
      BY <2>5, <3>2
    <3>4. arena.directory[e] # NoLocation
      BY <3>3 DEF NoLocation, Locator
    <3> QED BY <3>1, <3>4, Zenon DEF Resident
  <2> QED BY <2>6
<1>15. marked \in SUBSET Nat
  <2>1. \A e \in Moved(arena, d) : IslandAt(topologyRows', arena'.directory[e]) \in Nat
    <3>1. ASSUME NEW e \in Moved(arena, d)
          PROVE  IslandAt(topologyRows', arena'.directory[e]) \in Nat
      <4>1. e \in Resident \ {d}
        BY <1>14, Zenon
      <4>2. IslandAt(topologyRows', arena'.directory[e]) = IslandOf[e] /\ IslandOf[e] \in Nat
        BY <1>8, <4>1
      <4> QED BY <4>2
    <3> QED BY <3>1
  <2> QED BY <1>5, <2>1
<1>16. /\ invalidation' \in Marks /\ invalidation'.retired = repaired.retired
       /\ invalidation'.topologyDirty = repaired.topologyDirty
       /\ invalidation'.numericalDirty = repaired.numericalDirty
       /\ invalidation'.bindingDirty = repaired.bindingDirty \cup
                (marked \ (repaired.retired \cup repaired.topologyDirty))
  BY <1>6, <1>13, <1>15, BindingMarks
<1>17. InvalidationOK'
  <2>1. invalidation'.retired \cap DOMAIN islands' = {}
    BY <1>10, <1>13, <1>16
  <2>2. n \in 1..islandSlots /\ invalidation'.retired \subseteq invalidation.retired \cup {n}
    BY <1>9, <1>13, <1>16
  <2>3. invalidation'.retired \subseteq 1..islandSlots'
    BY <1>6, <2>2, Zenon
  <2> QED BY <1>16, <2>1, <2>3, Zenon DEF InvalidationOK
<1>18. ASSUME NEW i \in DOMAIN islands' \ invalidation'.topologyDirty PROVE Undisturbed(i)
  <2>1. i \in DOMAIN islands /\ i # n /\ i \notin invalidation.topologyDirty /\ islands'[i] = islands[i]
    BY <1>10, <1>13, <1>16
  <2>2. ASSUME i \notin invalidation'.bindingDirty
        PROVE  /\ i \notin invalidation.bindingDirty
               /\ \A e \in islands[i] : arena'.directory[e] = arena.directory[e]
    <3>1. i \notin invalidation.bindingDirty
      BY <1>13, <1>16, <2>1, <2>2
    <3>2. i \notin marked
      BY <1>13, <1>16, <2>1, <2>2
    <3>3. ASSUME NEW e \in islands[i] PROVE arena'.directory[e] = arena.directory[e]
      <4>1. e \in Resident \ {d} /\ IslandOf[e] = i
        BY <1>11, <2>1
      <4>2. IslandAt(topologyRows', arena'.directory[e]) = i
        BY <1>8, <4>1
      <4>3. e \notin Moved(arena, d)
        BY <1>5, <3>2, <4>2
      <4> QED BY <1>8, <4>1, <4>3
    <3> QED BY <3>1, <3>3
  <2>3. \A e \in islands[i] : ParameterOf'[e] = ParameterOf[e]
    BY <1>8, <1>11, <2>1
  <2>4. i \notin invalidation'.numericalDirty => i \notin invalidation.numericalDirty
    BY <1>13, <1>16, <2>1
  <2> QED BY <2>1, <2>2, <2>3, <2>4, Zenon DEF Undisturbed
<1>19. RuntimesOK'
  BY <1>6, <1>18, RuntimesStay
<1> QED BY <1>8, <1>12, <1>17, <1>19, Zenon DEF DeviceInv

\* What compiling some of the dirty islands does to the runtimes.
CompiledAs(compiled, rt) ==
    /\ DOMAIN rt = (DOMAIN runtimes \ invalidation.retired) \cup compiled
    /\ \A i \in DOMAIN rt : IsRuntime(rt[i])
    /\ \A i \in compiled : rt[i] = NewRuntime(i)
    /\ \A i \in DOMAIN islands \ invalidation.topologyDirty :
        i \in DOMAIN rt /\ rt[i] = runtimes[i] /\ RuntimeOK(i, rt[i])

\* The runtimes of the other islands stay.
LEMMA CompiledFacts ==
    ASSUME DeviceInv, NEW compiled, compiled \subseteq invalidation.topologyDirty,
           NEW rt, rt = Compiled(compiled)
    PROVE  CompiledAs(compiled, rt)
<1>1. rt = [i \in (DOMAIN runtimes \ invalidation.retired) \cup compiled |->
                IF i \in compiled THEN NewRuntime(i) ELSE runtimes[i]]
  BY Zenon DEF Compiled
<1>2. DOMAIN rt = (DOMAIN runtimes \ invalidation.retired) \cup compiled
      /\ \A i \in DOMAIN rt : rt[i] = IF i \in compiled THEN NewRuntime(i) ELSE runtimes[i]
  BY <1>1
<1>3. /\ \A i \in DOMAIN runtimes : IsRuntime(runtimes[i])
      /\ \A i \in DOMAIN islands \ invalidation.topologyDirty :
            i \in DOMAIN runtimes /\ RuntimeOK(i, runtimes[i])
  BY Zenon DEF DeviceInv, RuntimesOK
<1>4. \A i : IsRuntime(NewRuntime(i))
  BY DEF IsRuntime, NewRuntime
<1>5. \A i \in DOMAIN rt : IsRuntime(rt[i])
  BY <1>2, <1>3, <1>4, Zenon
<1>6. \A i \in compiled : rt[i] = NewRuntime(i)
  BY <1>2, Zenon
<1>7. ASSUME NEW i \in DOMAIN islands \ invalidation.topologyDirty
      PROVE  i \in DOMAIN rt /\ rt[i] = runtimes[i] /\ RuntimeOK(i, rt[i])
  <2>1. i \in DOMAIN runtimes /\ RuntimeOK(i, runtimes[i]) /\ i \notin compiled
    BY <1>3
  <2>2. i \notin invalidation.retired
    BY IslandFacts
  <2>3. i \in DOMAIN rt /\ rt[i] = runtimes[i]
    BY <1>2, <2>1, <2>2
  <2> QED BY <2>1, <2>3, Zenon
<1> QED BY <1>2, <1>5, <1>6, <1>7, Zenon DEF CompiledAs

\* Nothing that storage depends on changed.
LEMMA StorageUnchanged ==
    ASSUME StorageOK, arena' = arena, physicalState' = physicalState, topologyRows' = topologyRows
    PROVE  SameStorage
<1>1. StorageOK'
  BY Zenon DEF StorageOK
<1>2. Resident' = Resident /\ IslandOf' = IslandOf /\ StateOf' = StateOf
  BY Zenon DEF Resident, IslandOf, StateOf
<1>3. ParameterOf' = ParameterOf
  <2>1. ParameterOf' = Reads(arena'.directory, ParameterGrid(arena'))
    BY DEF ParameterOf, Reads, Residents, At, ParameterGrid, Mapped, ParametersIn
  <2> QED BY <2>1, Zenon DEF ParameterOf
<1> QED BY <1>1, <1>2, <1>3, Zenon DEF SameStorage

\* A compile error in the middle of the dirty islands.
LEMMA SyncFailsStep == ASSUME DeviceInv, SyncFails PROVE DeviceInv'
<1>1. PICK compiled \in SUBSET invalidation.topologyDirty : runtimes' = Compiled(compiled)
  BY DEF SyncFails
<1>2. /\ islands' = islands /\ islandSlots' = islandSlots /\ invalidation' = invalidation
      /\ arena' = arena /\ physicalState' = physicalState /\ topologyRows' = topologyRows
  BY DEF SyncFails
<1>3. StorageOK /\ MembershipOK /\ InvalidationOK /\ RuntimesOK
  BY Zenon DEF DeviceInv
<1>4. /\ StorageOK' /\ Resident' = Resident /\ arena'.directory = arena.directory
      /\ IslandOf' = IslandOf /\ ParameterOf' = ParameterOf
  BY <1>2, <1>3, StorageUnchanged, Zenon DEF SameStorage
<1>5. MembershipOK' /\ InvalidationOK'
  BY <1>2, <1>3, <1>4, Zenon DEF MembershipOK, InvalidationOK
<1>6. PICK rt : rt = Compiled(compiled)
  OBVIOUS
<1>7. runtimes' = rt /\ CompiledAs(compiled, rt)
  <2>1. compiled \subseteq invalidation.topologyDirty
    BY <1>1
  <2>2. CompiledAs(compiled, rt)
    BY <1>6, <2>1, CompiledFacts, Zenon
  <2> QED BY <1>1, <1>6, <2>2
<1>8. ASSUME NEW i \in DOMAIN islands \ invalidation.topologyDirty
      PROVE  i \in DOMAIN rt /\ RuntimeOK(i, rt[i])'
  <2>1. i \in DOMAIN rt /\ RuntimeOK(i, rt[i])
    BY <1>7, Zenon DEF CompiledAs
  <2> QED BY <1>2, <1>4, <2>1 DEF RuntimeOK, Bindings, ValuesOf
<1>9. RuntimesOK'
  BY <1>2, <1>7, <1>8, Zenon DEF RuntimesOK, CompiledAs
<1> QED BY <1>4, <1>5, <1>9, Zenon DEF DeviceInv

\* A runtime that is bound to the rows of its island, with the parameters that
\* are set if it has loaded them.
Prepared(i, x) ==
    /\ IsRuntime(x) /\ x.bindings = Bindings(islands[i]) /\ DOMAIN x.parameters = islands[i]
    /\ ~x.staticInputsDirty =>
        x.parameters = ValuesOf(islands[i]) /\ \A d \in islands[i] : ParameterOf[d] # Unassigned

\* Rebinding a runtime.
LEMMA RebindFacts ==
    ASSUME NEW i, NEW x, IsRuntime(x), DOMAIN x.bindings = islands[i], NEW y, y = Rebind(x)
    PROVE  /\ IsRuntime(y) /\ y.bindings = Bindings(islands[i]) /\ y.parameters = x.parameters
           /\ y.staticInputsDirty = x.staticInputsDirty
<1>1. PICK b : b = Bindings(DOMAIN x.bindings)
  OBVIOUS
<1>2. y = [x EXCEPT !.bindings = b]
  BY <1>1 DEF Rebind
<1>3. y = [bindings |-> b, parameters |-> x.parameters, staticInputsDirty |-> x.staticInputsDirty]
  BY <1>2 DEF IsRuntime
<1>4. y.bindings = b /\ y.parameters = x.parameters /\ y.staticInputsDirty = x.staticInputsDirty
  BY <1>3
<1>5. IsRuntime(y)
  BY <1>3, <1>4 DEF IsRuntime
<1> QED BY <1>1, <1>4, <1>5

\* After sync_island_runtimes every live island has a runtime that is bound to
\* the rows of its devices.
LEMMA SyncFacts ==
    ASSUME DeviceInv, NEW s, s = Synchronized
    PROVE  /\ DOMAIN islands \subseteq DOMAIN s
           /\ \A i \in DOMAIN s : IsRuntime(s[i])
           /\ \A i \in DOMAIN islands : Prepared(i, s[i])
<1>1. PICK rt : rt = Compiled(invalidation.topologyDirty)
  OBVIOUS
<1> DEFINE Bound(i) == IF i \in invalidation.bindingDirty THEN Rebind(rt[i]) ELSE rt[i]
<1>2. s = [i \in DOMAIN rt |-> IF i \in invalidation.numericalDirty
                               THEN [Bound(i) EXCEPT !.staticInputsDirty = TRUE] ELSE Bound(i)]
  BY <1>1, Zenon DEF Synchronized
<1>3. CompiledAs(invalidation.topologyDirty, rt)
  <2>1. PICK dirty : dirty = invalidation.topologyDirty
    OBVIOUS
  <2>2. CompiledAs(dirty, rt)
    BY <1>1, <2>1, CompiledFacts
  <2> QED BY <2>1, <2>2
<1>4. /\ \A i \in DOMAIN rt : IsRuntime(rt[i])
      /\ \A i \in invalidation.topologyDirty : i \in DOMAIN rt /\ rt[i] = NewRuntime(i)
      /\ \A i \in DOMAIN islands \ invalidation.topologyDirty : i \in DOMAIN rt /\ RuntimeOK(i, rt[i])
  BY <1>3, Zenon DEF CompiledAs
<1>5. DOMAIN s = DOMAIN rt /\ DOMAIN islands \subseteq DOMAIN s
  BY <1>2, <1>4
<1>6. ASSUME NEW i \in DOMAIN rt
      PROVE  /\ IsRuntime(s[i])
             /\ i \in DOMAIN islands => Prepared(i, s[i])
  <2>1. PICK x : x = rt[i]
    OBVIOUS
  <2>2. PICK b : b = IF i \in invalidation.bindingDirty THEN Rebind(x) ELSE x
    OBVIOUS
  <2>3. PICK y : y = IF i \in invalidation.numericalDirty THEN [b EXCEPT !.staticInputsDirty = TRUE] ELSE b
    OBVIOUS
  <2>4. s[i] = y
    BY <1>2, <2>1, <2>2, <2>3
  <2>5. IsRuntime(x)
    BY <1>4, <2>1
  <2>6. IsRuntime(b) /\ b.parameters = x.parameters /\ b.staticInputsDirty = x.staticInputsDirty
    <3>1. CASE i \in invalidation.bindingDirty
      <4>1. b = [x EXCEPT !.bindings = Bindings(DOMAIN x.bindings)]
        BY <2>2, <3>1 DEF Rebind
      <4>2. b = [bindings |-> Bindings(DOMAIN x.bindings), parameters |-> x.parameters,
                 staticInputsDirty |-> x.staticInputsDirty]
        BY <2>5, <4>1 DEF IsRuntime
      <4> QED BY <2>5, <4>2 DEF IsRuntime
    <3>2. CASE i \notin invalidation.bindingDirty
      BY <2>2, <2>5, <3>2
    <3> QED BY <3>1, <3>2
  <2>7. /\ IsRuntime(y) /\ y.bindings = b.bindings /\ y.parameters = x.parameters
        /\ ~y.staticInputsDirty => ~x.staticInputsDirty /\ i \notin invalidation.numericalDirty
    <3>1. CASE i \in invalidation.numericalDirty
      <4>1. y = [bindings |-> b.bindings, parameters |-> b.parameters, staticInputsDirty |-> TRUE]
        BY <2>3, <2>6, <3>1 DEF IsRuntime
      <4> QED BY <2>6, <4>1 DEF IsRuntime
    <3>2. CASE i \notin invalidation.numericalDirty
      BY <2>3, <2>6, <3>2
    <3> QED BY <3>1, <3>2
  <2>8. ASSUME i \in DOMAIN islands PROVE Prepared(i, y)
    <3>1. CASE i \in invalidation.topologyDirty
      <4>1. x = NewRuntime(i)
        BY <1>4, <2>1, <3>1
      <4>2. /\ x.bindings = Bindings(islands[i]) /\ x.staticInputsDirty
            /\ DOMAIN x.bindings = islands[i] /\ DOMAIN x.parameters = islands[i]
        BY <4>1 DEF NewRuntime, Bindings
      <4>3. b.bindings = Bindings(islands[i])
        BY <2>2, <2>5, <4>2, RebindFacts
      <4> QED BY <2>7, <4>2, <4>3 DEF Prepared
    <3>2. CASE i \notin invalidation.topologyDirty
      <4>1. RuntimeOK(i, x)
        BY <1>4, <2>1, <2>8, <3>2
      <4>2. /\ DOMAIN x.bindings = islands[i] /\ DOMAIN x.parameters = islands[i]
            /\ i \notin invalidation.bindingDirty => x.bindings = Bindings(islands[i])
            /\ i \notin invalidation.numericalDirty /\ ~x.staticInputsDirty =>
                x.parameters = ValuesOf(islands[i]) /\ \A d \in islands[i] : ParameterOf[d] # Unassigned
        BY <4>1, Zenon DEF RuntimeOK
      <4>3. b.bindings = Bindings(islands[i])
        BY <2>2, <2>5, <4>2, RebindFacts
      <4> QED BY <2>7, <4>2, <4>3, Zenon DEF Prepared
    <3> QED BY <3>1, <3>2
  <2> QED BY <2>4, <2>7, <2>8
<1>7. \A i \in DOMAIN islands : i \in DOMAIN rt
  BY <1>5
<1> QED BY <1>5, <1>6, <1>7, Zenon

\* Loading the parameters of a runtime.
LEMMA LoadFacts ==
    ASSUME DeviceInv, NEW i \in DOMAIN islands, NEW x, Prepared(i, x), NEW y, y = LoadParameters(x)
    PROVE  Prepared(i, y)
<1>1. CASE x.staticInputsDirty /\ Loadable(x)
  <2>1. PICK z : z = [d \in DOMAIN x.parameters |-> ParameterAt(x.bindings[d])]
    OBVIOUS
  <2>2. y = [x EXCEPT !.parameters = z, !.staticInputsDirty = FALSE]
    BY <1>1, <2>1 DEF LoadParameters
  <2>3. /\ x = [bindings |-> x.bindings, parameters |-> x.parameters,
                staticInputsDirty |-> x.staticInputsDirty]
        /\ x.bindings = Bindings(islands[i]) /\ DOMAIN x.parameters = islands[i]
    BY DEF Prepared, IsRuntime
  <2>4. y = [bindings |-> x.bindings, parameters |-> z, staticInputsDirty |-> FALSE]
    BY <2>2, <2>3
  <2>5. \A d \in islands[i] : d \in Resident
    BY IslandFacts
  <2>6. ASSUME NEW d \in islands[i]
        PROVE  ParameterAt(x.bindings[d]) = ParameterOf[d] /\ ParameterOf[d] # Unassigned
    <3>1. x.bindings[d] = arena.directory[d] /\ d \in DOMAIN x.bindings
      BY <2>3, <2>6 DEF Bindings
    <3>2. ParameterAt(arena.directory[d]) = ParameterOf[d]
      <4>1. StorageOK
        BY Zenon DEF DeviceInv
      <4> QED BY <2>5, <2>6, <4>1, StorageReads
    <3>3. ParameterAt(x.bindings[d]) # Unassigned
      BY <1>1, <3>1, Zenon DEF Loadable
    <3> QED BY <3>1, <3>2, <3>3
  <2>7. z = ValuesOf(islands[i])
    BY <2>1, <2>3, <2>6 DEF ValuesOf
  <2>8. DOMAIN z = islands[i]
    BY <2>1, <2>3
  <2>9. IsRuntime(y) /\ y.bindings = x.bindings /\ y.parameters = z
    BY <2>4 DEF IsRuntime
  <2> QED BY <2>3, <2>6, <2>7, <2>8, <2>9, Zenon DEF Prepared
<1>2. CASE ~(x.staticInputsDirty /\ Loadable(x))
  BY <1>2 DEF LoadParameters
<1> QED BY <1>1, <1>2

\* What a tick leaves of the runtimes.
TickRuntimes ==
    /\ DOMAIN islands \subseteq DOMAIN runtimes'
    /\ \A i \in DOMAIN runtimes' : IsRuntime(runtimes'[i])
    /\ \A i \in DOMAIN islands : Prepared(i, runtimes'[i])

\* After a tick every live island is bound and has loaded what it could.
LEMMA TickPrepares == ASSUME DeviceInv, Tick PROVE TickRuntimes
<1>1. PICK s : s = Synchronized
  OBVIOUS
<1>2. /\ DOMAIN islands \subseteq DOMAIN s
      /\ \A i \in DOMAIN s : IsRuntime(s[i])
      /\ \A i \in DOMAIN islands : Prepared(i, s[i])
  BY <1>1, SyncFacts
<1>3. PICK rt : rt = [i \in DOMAIN s |-> IF i \in DOMAIN islands THEN LoadParameters(s[i]) ELSE s[i]]
  OBVIOUS
<1>4. runtimes' = rt
  BY <1>1, <1>3, Zenon DEF Tick
<1>5. DOMAIN rt = DOMAIN s
  BY <1>3
<1>6. ASSUME NEW i \in DOMAIN islands PROVE Prepared(i, rt[i])
  <2>1. PICK x : x = s[i]
    OBVIOUS
  <2>2. rt[i] = LoadParameters(x)
    BY <1>2, <1>3, <2>1
  <2>3. Prepared(i, x)
    BY <1>2, <2>1
  <2> QED BY <2>2, <2>3, LoadFacts
<1>7. ASSUME NEW i \in DOMAIN rt PROVE IsRuntime(rt[i])
  <2>1. CASE i \in DOMAIN islands
    BY <1>6, <2>1, Zenon DEF Prepared
  <2>2. CASE i \notin DOMAIN islands
    BY <1>2, <1>3, <1>5, <1>7, <2>2
  <2> QED BY <2>1, <2>2
<1> QED BY <1>2, <1>4, <1>5, <1>6, <1>7, Zenon DEF TickRuntimes

\* A tick advances the devices of the islands it solved, which have their parameters.
LEMMA TickSolves ==
    ASSUME DeviceInv, Tick
    PROVE  \E solved \in SUBSET DOMAIN islands :
                TickEffect(solved) /\ \A d \in Resident : IslandOf[d] \in solved => ParameterOf[d] # Unassigned
<1>1. PICK rt : rt = runtimes'
  OBVIOUS
<1>2. TickRuntimes
  BY TickPrepares
<1>3. \A i \in DOMAIN islands : Prepared(i, rt[i])
  BY <1>1, <1>2, Zenon DEF TickRuntimes
<1>4. PICK solved \in SUBSET {i \in DOMAIN islands : ~runtimes'[i].staticInputsDirty} :
        physicalState' = Scatter(
            UNION {{[island |-> i, location |-> runtimes'[i].bindings[d]] :
                        d \in DOMAIN runtimes'[i].bindings} : i \in DOMAIN islands},
            solved)
  BY Zenon DEF Tick
<1>5. /\ solved \subseteq DOMAIN islands /\ \A i \in solved : ~rt[i].staticInputsDirty
      /\ physicalState' = Scatter(BoundRows(rt), solved)
  BY <1>1, <1>4 DEF BoundRows
<1>6. /\ StorageOK /\ \A i \in DOMAIN islands : islands[i] = {d \in Resident : IslandOf[d] = i}
      /\ \A d \in Resident : IslandOf[d] \in DOMAIN islands
  BY IslandFacts
<1>7. arena' = arena /\ topologyRows' = topologyRows
  BY DEF Tick
<1>8. \A i \in DOMAIN islands : rt[i].bindings = Bindings(islands[i])
  BY <1>3, Zenon DEF Prepared
<1>9. TickEffect(solved)
  BY <1>5, <1>6, <1>7, <1>8, TickStorage
<1>10. ASSUME NEW d \in Resident, IslandOf[d] \in solved PROVE ParameterOf[d] # Unassigned
  <2>1. PICK i : i = IslandOf[d]
    OBVIOUS
  <2>2. i \in DOMAIN islands /\ d \in islands[i] /\ ~rt[i].staticInputsDirty
    BY <1>5, <1>6, <1>10, <2>1
  <2> QED BY <1>3, <2>2, Zenon DEF Prepared
<1> QED BY <1>5, <1>9, <1>10

\* A tick.
LEMMA TickStep == ASSUME DeviceInv, Tick PROVE DeviceInv'
<1>1. PICK solved \in SUBSET DOMAIN islands : TickEffect(solved)
  BY TickSolves
<1>2. /\ StorageOK' /\ Resident' = Resident /\ arena'.directory = arena.directory
      /\ IslandOf' = IslandOf /\ ParameterOf' = ParameterOf
  BY <1>1, Zenon DEF TickEffect
<1>3. /\ islands' = islands /\ islandSlots' = islandSlots /\ invalidation' = EmptyInvalidation
  BY DEF Tick
<1>4. MembershipOK'
  BY <1>2, <1>3, Zenon DEF MembershipOK, DeviceInv
<1>5. /\ invalidation'.topologyDirty = {} /\ invalidation'.numericalDirty = {}
      /\ invalidation'.bindingDirty = {} /\ invalidation'.retired = {} /\ invalidation' \in Marks
  BY <1>3 DEF EmptyInvalidation, Marks
<1>6. InvalidationOK'
  BY <1>5 DEF InvalidationOK
<1>7. PICK rt : rt = runtimes'
  OBVIOUS
<1>8. /\ DOMAIN islands \subseteq DOMAIN rt /\ \A i \in DOMAIN rt : IsRuntime(rt[i])
      /\ \A i \in DOMAIN islands : Prepared(i, rt[i])
  BY <1>7, TickPrepares, Zenon DEF TickRuntimes
<1>9. ASSUME NEW i \in DOMAIN islands PROVE RuntimeOK(i, rt[i])'
  <2>1. /\ rt[i].bindings = [d \in islands[i] |-> arena.directory[d]] /\ DOMAIN rt[i].parameters = islands[i]
        /\ ~rt[i].staticInputsDirty =>
            /\ rt[i].parameters = [d \in islands[i] |-> ParameterOf[d]]
            /\ \A d \in islands[i] : ParameterOf[d] # Unassigned
    BY <1>8, Zenon DEF Prepared, Bindings, ValuesOf
  <2>2. DOMAIN rt[i].bindings = islands[i]
    BY <2>1
  <2> QED BY <1>2, <1>3, <1>7, <2>1, <2>2, Zenon DEF RuntimeOK, Bindings, ValuesOf
<1>10. RuntimesOK'
  BY <1>3, <1>7, <1>8, <1>9, Zenon DEF RuntimesOK
<1> QED BY <1>2, <1>4, <1>6, <1>10, Zenon DEF DeviceInv

\* The arena starts empty.
LEMMA InitInv == Init => DeviceInv
<1> SUFFICES ASSUME Init PROVE DeviceInv
  OBVIOUS
<1>1. PICK e : e = << >>
  OBVIOUS
<1>2. PICK dir : dir = [d \in Devices |-> NoLocation]
  OBVIOUS
<1>3. PICK hints : hints = [definition \in Definitions |-> None]
  OBVIOUS
<1>4. /\ arena = [directory |-> dir, chunks |-> e, activeChunks |-> hints]
      /\ physicalState = e /\ topologyRows = e /\ islands = e /\ islandSlots = 0
      /\ invalidation = EmptyInvalidation /\ runtimes = e
  BY <1>1, <1>2, <1>3, Zenon DEF Init
<1>5. arena.directory = dir /\ arena.chunks = e /\ arena.activeChunks = hints
  BY <1>4
<1>6. (\A S : e \in Seq(S)) /\ DOMAIN e = {} /\ Size(e) = 0
  BY <1>1 DEF Size
<1>7. \A F : Mapped(F, e) = e
  BY <1>1, <1>6 DEF Mapped
<1>8. DeviceGrid(arena) = e /\ ParameterGrid(arena) = e /\ LogicalGrid(physicalState) = e
  BY <1>4, <1>5, <1>7, Zenon DEF DeviceGrid, ParameterGrid, LogicalGrid
<1>9. ~(\E c : c \in 1..0)
  OBVIOUS
<1>10. /\ (\A S : IsGrid(e, S)) /\ Same(e, e) /\ ~(\E m : Cell(e, m))
  BY <1>6, <1>9, Zenon DEF IsGrid, Same, Cell
<1>11. dir \in [Devices -> Place] /\ Residents(dir) = {} /\ hints \in [Definitions -> Nat]
       /\ \A f \in Definitions : hints[f] = None
  BY <1>2, <1>3 DEF NoLocation, Locator, Place, Residents, None
<1>12. arena \in Arenas
  BY <1>4, <1>6, <1>11 DEF Arenas
<1>13. DirectoryOK(dir, e) /\ HintsOK(e, hints)
  BY <1>10, <1>11, Zenon DEF DirectoryOK, HintsOK
<1>14. Size(e) <= MaxChunks
  BY <1>6, MaxChunksAssumption
<1>15. ArenaOK(arena)
  BY <1>5, <1>6, <1>8, <1>9, <1>10, <1>12, <1>13, <1>14, Zenon DEF ArenaOK, GridsOK
<1>16. StateOK(physicalState)
  BY <1>4, <1>6, <1>8, <1>9, <1>10, Zenon DEF StateOK
<1>17. StorageOK
  BY <1>4, <1>8, <1>10, <1>15, <1>16, Zenon DEF StorageOK
<1>18. Resident = {}
  BY <1>5, <1>11, Zenon DEF Resident, Residents
<1>19. MembershipOK
  BY <1>4, <1>6, <1>18 DEF MembershipOK
<1>20. InvalidationOK
  BY <1>4 DEF InvalidationOK, EmptyInvalidation, Marks
<1>21. RuntimesOK
  BY <1>4, <1>6, Zenon DEF RuntimesOK
<1> QED BY <1>17, <1>19, <1>20, <1>21, Zenon DEF DeviceInv

\* The invariant is preserved by every step.
LEMMA StepInv == ASSUME DeviceInv, [Next]_vars PROVE DeviceInv'
<1>1. ASSUME NEW d \in Devices, NEW definition \in Definitions, AddDevice(d, definition)
      PROVE  DeviceInv'
  BY <1>1, AddStep, Zenon
<1>2. ASSUME NEW definition \in Definitions, AddDeviceFails(definition) PROVE DeviceInv'
  BY <1>2, FailStep, Zenon
<1>3. ASSUME NEW d \in Devices, RemoveDevice(d) PROVE DeviceInv'
  BY <1>3, RemoveStep, Zenon
<1>4. ASSUME NEW d \in Devices, NEW value \in Parameters, SetDeviceParameter(d, value) PROVE DeviceInv'
  BY <1>4, SetStep, Zenon
<1>5. ASSUME NEW i, NEW j, MergeIslands(i, j) PROVE DeviceInv'
  BY <1>5, MergeStep, Zenon
<1>6. ASSUME NEW i, NEW d \in Devices, SplitIsland(i, d) PROVE DeviceInv'
  BY <1>6, SplitStep, Zenon
<1>7. CASE SyncFails
  BY <1>7, SyncFailsStep, Zenon
<1>8. CASE Tick
  BY <1>8, TickStep, Zenon
<1>9. CASE UNCHANGED vars
  <2>1. /\ arena' = arena /\ physicalState' = physicalState /\ topologyRows' = topologyRows
        /\ islands' = islands /\ islandSlots' = islandSlots /\ invalidation' = invalidation
        /\ runtimes' = runtimes
    BY <1>9 DEF vars
  <2>2. StorageOK /\ MembershipOK /\ InvalidationOK /\ RuntimesOK
    BY Zenon DEF DeviceInv
  <2>3. /\ StorageOK' /\ Resident' = Resident /\ arena'.directory = arena.directory
        /\ IslandOf' = IslandOf /\ ParameterOf' = ParameterOf
    BY <2>1, <2>2, StorageUnchanged, Zenon DEF SameStorage
  <2>4. MembershipOK' /\ InvalidationOK'
    BY <2>1, <2>2, <2>3, Zenon DEF MembershipOK, InvalidationOK
  <2>5. \A i \in DOMAIN islands' \ invalidation'.topologyDirty : Undisturbed(i)
    BY <2>1, <2>3, Zenon DEF Undisturbed
  <2>6. RuntimesOK'
    BY <2>1, <2>2, <2>5, RuntimesStay
  <2> QED BY <2>3, <2>4, <2>6, Zenon DEF DeviceInv
<1> QED BY <1>1, <1>2, <1>3, <1>4, <1>5, <1>6, <1>7, <1>8, <1>9, Zenon DEF Next

\* Consistent storage, the membership of the islands, the marks and the
\* runtimes hold in every reachable state.
THEOREM StorageInvariant == Spec => []DeviceInv
<1>1. Init => DeviceInv
  BY InitInv
<1>2. DeviceInv /\ [Next]_vars => DeviceInv'
  BY StepInv
<1> QED BY <1>1, <1>2, PTL DEF Spec

-----------------------------------------------------------------------------
(* The properties.                                                         *)

\* The shape of the chunks and of the sidecars' chunks.
ChunksAre(n) ==
    /\ n = Size(arena.chunks) /\ n \in Nat /\ n <= MaxChunks
    /\ DOMAIN arena.chunks = 1..n /\ DOMAIN physicalState = 1..n /\ DOMAIN topologyRows = 1..n
    /\ arena.chunks \in Seq(DeviceChunk) /\ physicalState \in Seq(StateChunk)
    /\ topologyRows \in Seq(Seq(Nat))
    /\ FieldsAre(arena.chunks, DeviceGrid(arena), ParameterGrid(arena))
RowsAre(c, z) ==
    /\ z = Size(arena.chunks[c].devices) /\ z \in 1..ChunkCapacity
    /\ DOMAIN arena.chunks[c].devices = 1..z /\ DOMAIN physicalState[c].values = 1..z
    /\ DOMAIN topologyRows[c] = 1..z /\ Size(topologyRows[c]) = z
    /\ physicalState[c].initialized \subseteq 1..z

\* The number of chunks is the same everywhere.
LEMMA ChunkShape == ASSUME StorageOK PROVE \E n : ChunksAre(n)
<1>1. PICK n : n = Size(arena.chunks)
  OBVIOUS
<1>2. /\ ArenaOK(arena) /\ StateOK(physicalState) /\ IsGrid(topologyRows, Nat)
      /\ Same(DeviceGrid(arena), LogicalGrid(physicalState)) /\ Same(DeviceGrid(arena), topologyRows)
  BY Zenon DEF StorageOK
<1>3. arena.chunks \in Seq(DeviceChunk)
  <2>1. arena \in Arenas
    BY <1>2, Zenon DEF ArenaOK, GridsOK
  <2> QED BY <2>1 DEF Arenas
<1>4. FieldsAre(arena.chunks, DeviceGrid(arena), ParameterGrid(arena))
  BY <1>3, ArenaGrids, Zenon DEF DeviceGrid, ParameterGrid
<1>5. physicalState \in Seq(StateChunk) /\ topologyRows \in Seq(Seq(Nat))
  BY <1>2, Zenon DEF StateOK, IsGrid
<1>6. IsStateGrid(physicalState, LogicalGrid(physicalState))
  BY <1>5, StateGrid, Zenon
<1>7. Size(physicalState) = n /\ Size(topologyRows) = n
  BY <1>1, <1>2, <1>4, <1>6, Zenon DEF FieldsAre, Same, IsStateGrid
<1>8. n \in Nat /\ DOMAIN arena.chunks = 1..n
  BY <1>1, <1>3, SeqFacts, Zenon
<1>9. DOMAIN physicalState = 1..n
  BY <1>5, <1>7, SeqFacts, Zenon
<1>10. DOMAIN topologyRows = 1..n
  BY <1>5, <1>7, SeqFacts, Zenon
<1>11. n <= MaxChunks
  BY <1>1, <1>2, Zenon DEF ArenaOK
<1>12. ChunksAre(n)
  BY <1>1, <1>3, <1>4, <1>5, <1>8, <1>9, <1>10, <1>11, Zenon DEF ChunksAre
<1> QED BY <1>12

\* And so is the number of rows of a chunk, which is neither empty nor over-full.
LEMMA RowShape ==
    ASSUME StorageOK, NEW n, ChunksAre(n), NEW c \in 1..n
    PROVE  \E z : RowsAre(c, z)
<1>1. PICK g : g = DeviceGrid(arena)
  OBVIOUS
<1>2. PICK v : v = arena.chunks[c].devices
  OBVIOUS
<1>3. PICK z : z = Size(v)
  OBVIOUS
<1>4. PICK t : t = topologyRows[c]
  OBVIOUS
<1>5. /\ ArenaOK(arena) /\ StateOK(physicalState) /\ IsGrid(topologyRows, Nat)
      /\ Same(g, LogicalGrid(physicalState)) /\ Same(g, topologyRows)
  BY <1>1, Zenon DEF StorageOK
<1>6. /\ n = Size(arena.chunks) /\ arena.chunks \in Seq(DeviceChunk)
      /\ physicalState \in Seq(StateChunk) /\ topologyRows \in Seq(Seq(Nat))
      /\ FieldsAre(arena.chunks, g, ParameterGrid(arena))
  BY <1>1, Zenon DEF ChunksAre
<1>7. c \in 1..Size(g) /\ g[c] = v
  BY <1>2, <1>6, Zenon DEF FieldsAre
<1>8. z \in Nat \ {0}
  <2>1. IsGrid(g, Devices)
    BY <1>1, <1>5, Zenon DEF ArenaOK, GridsOK
  <2>2. Size(g[c]) \in Nat \ {0}
    BY <1>7, <2>1, GridSizes, Zenon
  <2> QED BY <1>3, <1>7, <2>2
<1>9. z <= ChunkCapacity
  BY <1>2, <1>3, <1>5, <1>6, Zenon DEF ArenaOK
<1>10. DOMAIN v = 1..z
  <2>1. arena.chunks[c] \in DeviceChunk
    BY <1>6, SeqFacts, Zenon
  <2>2. v \in Seq(Devices)
    BY <1>2, <2>1 DEF DeviceChunk
  <2> QED BY <1>3, <2>2, SeqFacts, Zenon
<1>11. Size(t) = z
  BY <1>3, <1>4, <1>5, <1>7, Zenon DEF Same
<1>12. DOMAIN t = 1..z
  <2>1. c \in 1..Size(topologyRows)
    BY <1>5, <1>7 DEF Same
  <2>2. t \in Seq(Nat)
    BY <1>4, <1>6, <2>1, SeqFacts, Zenon
  <2> QED BY <1>11, <2>2, SeqFacts, Zenon
<1>13. PICK w : w = physicalState[c].values
  OBVIOUS
<1>14. Size(w) = z /\ c \in 1..Size(physicalState)
  <2>1. IsStateGrid(physicalState, LogicalGrid(physicalState))
    BY <1>6, StateGrid, Zenon
  <2>2. Size(LogicalGrid(physicalState)) = Size(physicalState) /\ Size(LogicalGrid(physicalState)) = Size(g)
    BY <1>5, <2>1, Zenon DEF IsStateGrid, Same
  <2>3. c \in 1..Size(physicalState)
    BY <1>7, <2>2
  <2> QED BY <1>3, <1>5, <1>7, <1>13, <2>1, <2>3, Zenon DEF IsStateGrid, Same
<1>15. StateRowsOK(physicalState[c])
  BY <1>5, <1>14, Zenon DEF StateOK
<1>16. DOMAIN w = 1..z /\ physicalState[c].initialized \subseteq 1..z
  <2>1. w \in Seq(States)
    BY <1>13, <1>15 DEF StateRowsOK, StateChunk
  <2>2. DOMAIN w = 1..z
    BY <1>14, <2>1, SeqFacts, Zenon
  <2> QED BY <1>13, <1>14, <1>15, <2>2, Zenon DEF StateRowsOK
<1>17. z \in 1..ChunkCapacity
  BY <1>8, <1>9, ChunkCapacityAssumption
<1>18. RowsAre(c, z)
  BY <1>2, <1>3, <1>4, <1>10, <1>11, <1>12, <1>13, <1>16, <1>17, Zenon DEF RowsAre
<1> QED BY <1>18

\* Each row is the row of a device.
LEMMA RowsHaveDevices ==
    ASSUME StorageOK, NEW n, ChunksAre(n), NEW c \in 1..n, NEW z, RowsAre(c, z), NEW r \in 1..z
    PROVE  \E e \in Resident :
            /\ e = arena.chunks[c].devices[r] /\ arena.directory[e] = Locator(c, r)
            /\ IslandOf[e] = topologyRows[c][r]
<1>1. PICK m : m = Locator(c, r)
  OBVIOUS
<1>2. PICK e : e = arena.chunks[c].devices[r]
  OBVIOUS
<1>3. m \in Place /\ m.chunk = c /\ m.row = r
  <2>1. n \in Nat /\ ChunkCapacity \in Nat /\ z \in 1..ChunkCapacity
    BY ChunkCapacityAssumption, Zenon DEF ChunksAre, RowsAre
  <2>2. c \in Nat /\ r \in Nat
    BY <2>1
  <2> QED BY <1>1, <2>2 DEF Locator, Place
<1>4. Cell(DeviceGrid(arena), m) /\ At(DeviceGrid(arena), m) = e
  <2>1. Size(DeviceGrid(arena)) = n /\ DeviceGrid(arena)[c] = arena.chunks[c].devices
    BY Zenon DEF ChunksAre, FieldsAre
  <2>2. Size(DeviceGrid(arena)[c]) = z
    BY <2>1, Zenon DEF RowsAre
  <2> QED BY <1>2, <1>3, <2>1, <2>2, Zenon DEF Cell, At
<1>5. DirectoryOK(arena.directory, DeviceGrid(arena)) /\ Resident = Residents(arena.directory)
  BY StorageRows, Zenon DEF RowsAreThere
<1>6. e \in Devices /\ arena.directory[e] = m
  BY <1>3, <1>4, <1>5, Zenon DEF DirectoryOK
<1>7. m # NoLocation
  BY <1>4, NoCell, Zenon
<1>8. e \in Resident
  BY <1>6, <1>7, Zenon DEF Resident
<1>9. IslandOf[e] = topologyRows[c][r]
  BY <1>3, <1>5, <1>6, <1>8, Zenon DEF IslandOf, Reads, At
<1> QED BY <1>1, <1>2, <1>6, <1>8, <1>9

\* Places, hints, chunks and islands are within their bounds.
LEMMA TypesHold == ASSUME DeviceInv PROVE TypeOK
<1>1. StorageOK /\ MembershipOK
  BY Zenon DEF DeviceInv
<1>2. PICK n : ChunksAre(n)
  BY <1>1, ChunkShape
<1>3. /\ n = Size(arena.chunks) /\ n \in Nat /\ n <= MaxChunks
      /\ arena.chunks \in Seq(DeviceChunk) /\ physicalState \in Seq(StateChunk)
      /\ FieldsAre(arena.chunks, DeviceGrid(arena), ParameterGrid(arena))
      /\ topologyRows \in Seq(Seq(Nat)) /\ DOMAIN topologyRows = 1..n
  BY <1>2, Zenon DEF ChunksAre
<1>4. arena.directory \in [Devices -> Location \cup {NoLocation}]
  <2>1. /\ arena.directory \in [Devices -> Place] /\ Resident = Residents(arena.directory)
        /\ OnGrid(arena.directory, DeviceGrid(arena))
    BY <1>1, StorageRows, Zenon DEF RowsAreThere
  <2>2. ASSUME NEW d \in Resident PROVE arena.directory[d] \in Location
    <3>1. PICK m : m = arena.directory[d]
      OBVIOUS
    <3>2. Cell(DeviceGrid(arena), m) /\ m \in Place
      BY <2>1, <2>2, <3>1, Zenon DEF OnGrid, Cell
    <3>3. m.chunk \in 1..n /\ m.row \in 1..Size(arena.chunks[m.chunk].devices)
      BY <1>3, <3>2, Zenon DEF Cell, FieldsAre
    <3>4. PICK z : RowsAre(m.chunk, z)
      BY <1>1, <1>2, <3>3, RowShape
    <3>5. m.row \in 1..z /\ z \in 1..ChunkCapacity
      BY <3>3, <3>4, Zenon DEF RowsAre
    <3>6. m.chunk \in 1..MaxChunks /\ m.row \in 1..ChunkCapacity
      BY <1>3, <3>3, <3>5, MaxChunksAssumption, ChunkCapacityAssumption
    <3> QED BY <3>1, <3>2, <3>6 DEF Location, Place
  <2>3. \A d \in Devices : d \in Resident \/ arena.directory[d] = NoLocation
    BY DEF Resident
  <2> QED BY <2>1, <2>2, <2>3
<1>5. arena.activeChunks \in [Definitions -> 0..MaxChunks]
  <2>1. arena \in Arenas /\ HintsOK(arena.chunks, arena.activeChunks)
    BY <1>1, Zenon DEF StorageOK, ArenaOK, GridsOK
  <2>2. arena.activeChunks \in [Definitions -> Nat]
    BY <2>1 DEF Arenas
  <2>3. ASSUME NEW f \in Definitions PROVE arena.activeChunks[f] \in 0..MaxChunks
    <3>1. CASE arena.activeChunks[f] = None
      BY <3>1, MaxChunksAssumption DEF None
    <3>2. CASE arena.activeChunks[f] # None
      <4>1. arena.activeChunks[f] \in 1..n
        BY <1>3, <2>1, <3>2, Zenon DEF HintsOK
      <4> QED BY <1>3, <4>1, MaxChunksAssumption
    <3> QED BY <3>1, <3>2
  <2> QED BY <2>2, <2>3
<1>6. arena.chunks \in Seq([definition : Definitions, devices : Seq(Devices),
                            parameters : Seq(Parameters \cup {Unassigned})])
  BY <1>3, Zenon DEF DeviceChunk, ParameterValues
<1>7. physicalState \in Seq([values : Seq({"zero", "initial", "next"}),
                             initialized : SUBSET (1..ChunkCapacity)])
  BY <1>3, Zenon DEF StateChunk, States
<1>8. topologyRows \in Seq(Seq(1..islandSlots))
  <2>1. ASSUME NEW c \in 1..n PROVE topologyRows[c] \in Seq(1..islandSlots)
    <3>1. PICK z : RowsAre(c, z)
      BY <1>1, <1>2, RowShape
    <3>2. PICK t : t = topologyRows[c]
      OBVIOUS
    <3>3. DOMAIN t = 1..z /\ Size(t) = z /\ t \in Seq(Nat)
      <4>1. Size(topologyRows) = n
        <5>1. Size(topologyRows) \in Nat /\ 1..Size(topologyRows) = 1..n
          BY <1>3, SeqFacts, Zenon
        <5> QED BY <1>3, <5>1
      <4>2. topologyRows[c] \in Seq(Nat)
        BY <1>3, <4>1, SeqFacts, Zenon
      <4> QED BY <3>1, <3>2, <4>2, Zenon DEF RowsAre
    <3>4. z \in Nat
      BY <3>3, SeqFacts, Zenon
    <3>5. ASSUME NEW r \in 1..z PROVE t[r] \in 1..islandSlots
      <4>1. PICK e \in Resident : IslandOf[e] = topologyRows[c][r]
        BY <1>1, <1>2, <3>1, RowsHaveDevices
      <4>2. IslandOf[e] \in DOMAIN islands /\ DOMAIN islands \subseteq 1..islandSlots
        BY <1>1, Zenon DEF MembershipOK
      <4> QED BY <3>2, <4>1, <4>2
    <3>6. t \in [1..z -> 1..islandSlots]
      <4>1. t \in [1..z -> Nat]
        BY <3>3, SeqFacts, Zenon
      <4> QED BY <3>5, <4>1
    <3> QED BY <3>2, <3>4, <3>6, IsSeq, Zenon
  <2>2. topologyRows \in [1..n -> Seq(1..islandSlots)]
    <3>1. topologyRows \in [1..n -> Seq(Nat)]
      <4>1. topologyRows \in [1..Size(topologyRows) -> Seq(Nat)] /\ DOMAIN topologyRows = 1..Size(topologyRows)
        BY <1>3, SeqFacts, Zenon
      <4> QED BY <1>3, <4>1
    <3> QED BY <2>1, <3>1
  <2> QED BY <1>3, <2>2, IsSeq, Zenon
<1>9. DOMAIN islands \subseteq 1..islandSlots
  BY <1>1, Zenon DEF MembershipOK
<1> QED BY <1>4, <1>5, <1>6, <1>7, <1>8, <1>9, Zenon DEF TypeOK

\* The directory, the rows and the hints agree.
LEMMA ArenaAgrees == ASSUME DeviceInv PROVE ArenaConsistent
<1>1. StorageOK
  BY Zenon DEF DeviceInv
<1>2. PICK n : ChunksAre(n)
  BY <1>1, ChunkShape
<1>3. /\ n = Size(arena.chunks) /\ DOMAIN arena.chunks = 1..n
      /\ FieldsAre(arena.chunks, DeviceGrid(arena), ParameterGrid(arena))
  BY <1>2, Zenon DEF ChunksAre
<1>4. ASSUME NEW c \in 1..n
      PROVE  /\ Len(arena.chunks[c].devices) \in 1..ChunkCapacity
             /\ \A r \in DOMAIN arena.chunks[c].devices :
                    arena.directory[arena.chunks[c].devices[r]] = Locator(c, r)
  <2>1. PICK z : RowsAre(c, z)
    BY <1>1, <1>2, RowShape
  <2>2. z = Size(arena.chunks[c].devices) /\ z \in 1..ChunkCapacity /\ DOMAIN arena.chunks[c].devices = 1..z
    BY <2>1, Zenon DEF RowsAre
  <2>3. \A r \in 1..z : arena.directory[arena.chunks[c].devices[r]] = Locator(c, r)
    BY <1>1, <1>2, <2>1, RowsHaveDevices
  <2> QED BY <2>2, <2>3, Zenon DEF Size
<1>5. ASSUME NEW d \in Resident
      PROVE  /\ arena.directory[d].chunk \in DOMAIN arena.chunks
             /\ arena.directory[d].row \in DOMAIN arena.chunks[arena.directory[d].chunk].devices
             /\ arena.chunks[arena.directory[d].chunk].devices[arena.directory[d].row] = d
  <2>1. PICK m : m = arena.directory[d]
    OBVIOUS
  <2>2. DirectoryOK(arena.directory, DeviceGrid(arena)) /\ Resident = Residents(arena.directory)
    BY <1>1, StorageRows, Zenon DEF RowsAreThere
  <2>3. Cell(DeviceGrid(arena), m) /\ At(DeviceGrid(arena), m) = d
    BY <2>1, <2>2, Zenon DEF DirectoryOK
  <2>4. /\ m.chunk \in 1..n /\ m.row \in 1..Size(arena.chunks[m.chunk].devices)
        /\ arena.chunks[m.chunk].devices[m.row] = d
    BY <1>3, <2>3, Zenon DEF Cell, At, FieldsAre
  <2>5. PICK z : RowsAre(m.chunk, z)
    BY <1>1, <1>2, <2>4, RowShape
  <2>6. m.row \in DOMAIN arena.chunks[m.chunk].devices
    BY <2>4, <2>5, Zenon DEF RowsAre
  <2> QED BY <1>3, <2>1, <2>4, <2>6
<1>6. ASSUME NEW f \in Definitions, arena.activeChunks[f] # None
      PROVE  /\ arena.activeChunks[f] \in DOMAIN arena.chunks
             /\ arena.chunks[arena.activeChunks[f]].definition = f
             /\ ~Full(arena.chunks[arena.activeChunks[f]])
  <2>1. HintsOK(arena.chunks, arena.activeChunks)
    BY <1>1, Zenon DEF StorageOK, ArenaOK
  <2> QED BY <1>3, <1>6, <2>1, Lengths, Zenon DEF HintsOK
<1> QED BY <1>3, <1>4, <1>5, <1>6, Zenon DEF ArenaConsistent

\* The sidecars have the rows of the arena and the islands of the devices.
LEMMA SidecarsAgree == ASSUME DeviceInv PROVE SidecarsAligned
<1>1. StorageOK /\ MembershipOK
  BY Zenon DEF DeviceInv
<1>2. PICK n : ChunksAre(n)
  BY <1>1, ChunkShape
<1>3. DOMAIN arena.chunks = 1..n /\ DOMAIN physicalState = 1..n /\ DOMAIN topologyRows = 1..n
  BY <1>2, Zenon DEF ChunksAre
<1>4. ASSUME NEW c \in 1..n
      PROVE  /\ DOMAIN physicalState[c].values = DOMAIN arena.chunks[c].devices
             /\ physicalState[c].initialized \subseteq DOMAIN arena.chunks[c].devices
             /\ DOMAIN topologyRows[c] = DOMAIN arena.chunks[c].devices
             /\ \A r \in DOMAIN arena.chunks[c].devices :
                    /\ topologyRows[c][r] \in DOMAIN islands
                    /\ arena.chunks[c].devices[r] \in islands[topologyRows[c][r]]
  <2>1. PICK z : RowsAre(c, z)
    BY <1>1, <1>2, RowShape
  <2>2. /\ DOMAIN arena.chunks[c].devices = 1..z /\ DOMAIN physicalState[c].values = 1..z
        /\ DOMAIN topologyRows[c] = 1..z /\ physicalState[c].initialized \subseteq 1..z
    BY <2>1, Zenon DEF RowsAre
  <2>3. ASSUME NEW r \in 1..z
        PROVE  /\ topologyRows[c][r] \in DOMAIN islands
               /\ arena.chunks[c].devices[r] \in islands[topologyRows[c][r]]
    <3>1. PICK e \in Resident : e = arena.chunks[c].devices[r] /\ IslandOf[e] = topologyRows[c][r]
      BY <1>1, <1>2, <2>1, RowsHaveDevices
    <3>2. IslandOf[e] \in DOMAIN islands /\ e \in islands[IslandOf[e]]
      BY <1>1 DEF MembershipOK
    <3> QED BY <3>1, <3>2
  <2> QED BY <2>2, <2>3, Zenon
<1> QED BY <1>3, <1>4, Zenon DEF SidecarsAligned

\* The arena, its directory and hints, and the sidecars that follow its rows
\* agree with each other after every command and tick.
THEOREM StorageStaysConsistent == Spec => []StorageConsistent
<1>1. DeviceInv => StorageConsistent
  BY TypesHold, ArenaAgrees, SidecarsAgree, Zenon DEF StorageConsistent
<1> QED BY <1>1, StorageInvariant, PTL

\* A clean runtime is bound to where its devices are now: every row that a
\* removal moved was announced to the islands bound to it.
THEOREM BindingsStayCurrent == Spec => []BindingsAreCurrent
<1>1. DeviceInv => BindingsAreCurrent
  BY Zenon DEF DeviceInv, RuntimesOK, RuntimeOK, BindingsAreCurrent
<1> QED BY <1>1, StorageInvariant, PTL

\* A runtime that would not load its parameters has the current ones, also when
\* their rows moved since.
THEOREM ParametersStayCurrent == Spec => []ParametersAreCurrent
<1>1. ASSUME DeviceInv PROVE ParametersAreCurrent
  <2>1. ASSUME NEW i \in DOMAIN islands \ (invalidation.topologyDirty \cup invalidation.numericalDirty),
               ~runtimes[i].staticInputsDirty
        PROVE  runtimes[i].parameters = [d \in islands[i] |-> ParameterAt(arena.directory[d])]
    <3>1. RuntimeOK(i, runtimes[i])
      BY <1>1, Zenon DEF DeviceInv, RuntimesOK
    <3>2. runtimes[i].parameters = [d \in islands[i] |-> ParameterOf[d]]
      BY <2>1, <3>1, Zenon DEF RuntimeOK, ValuesOf
    <3>3. \A d \in islands[i] : ParameterAt(arena.directory[d]) = ParameterOf[d]
      <4>1. StorageOK /\ \A d \in islands[i] : d \in Resident
        BY <1>1, IslandFacts
      <4> QED BY <4>1, StorageReads
    <3> QED BY <3>2, <3>3
  <2> QED BY <2>1, Zenon DEF ParametersAreCurrent
<1> QED BY <1>1, StorageInvariant, PTL

-----------------------------------------------------------------------------
(* The refinement of DeviceStore.                                          *)

Stored(d) == [parameter |-> ParameterOf[d], state |-> StateOf[d]]

StoreIsStored == LogicalStore = [d \in Resident |-> Stored(d)]

\* What is stored of each device is in its rows.
LEMMA StoreIs == StorageOK => StoreIsStored
<1> SUFFICES ASSUME StorageOK PROVE LogicalStore = [d \in Resident |-> Stored(d)]
  BY Zenon DEF StoreIsStored
<1>1. \A d \in Resident : [ parameter |-> ParameterAt(arena.directory[d]),
                            state |-> ReadLogical(physicalState, arena.directory[d]) ] = Stored(d)
  BY StorageReads DEF Stored
<1> QED BY <1>1 DEF LogicalStore

\* And so it is after a step.
LEMMA StoreIsNext == StorageOK' => StoreIsStored'
BY StoreIs, PTL

\* Nothing that is stored changes.
LEMMA SameStore == ASSUME StorageOK, SameStorage PROVE LogicalStore' = LogicalStore
<1>1. StorageOK' /\ Resident' = Resident /\ ParameterOf' = ParameterOf /\ StateOf' = StateOf
  BY Zenon DEF SameStorage
<1>2. LogicalStore' = [d \in Resident' |-> [parameter |-> ParameterOf'[d], state |-> StateOf'[d]]]
  BY <1>1, StoreIsNext DEF StoreIsStored, Stored
<1>3. LogicalStore = [d \in Resident |-> [parameter |-> ParameterOf[d], state |-> StateOf[d]]]
  BY StoreIs DEF StoreIsStored, Stored
<1> QED BY <1>1, <1>2, <1>3

\* Each step is a step of the store, or changes nothing that is stored.
LEMMA StepRefines == ASSUME DeviceInv, [Next]_vars PROVE [Store!Next]_LogicalStore
<1>1. StorageOK /\ islandSlots \in Nat
  BY Zenon DEF DeviceInv, MembershipOK
<1>2. LogicalStore = [d \in Resident |-> [parameter |-> ParameterOf[d], state |-> StateOf[d]]]
  BY <1>1, StoreIs DEF StoreIsStored, Stored
<1>3. StorageOK' =>
        LogicalStore' = [d \in Resident' |-> [parameter |-> ParameterOf'[d], state |-> StateOf'[d]]]
  BY StoreIsNext DEF StoreIsStored, Stored
<1>4. ASSUME NEW d \in Devices, NEW definition \in Definitions, AddDevice(d, definition)
      PROVE  Store!Add(d)
  <2>1. AddEffect(d, islandSlots + 1) /\ d \notin Resident
    BY <1>1, <1>4, AddStorage, Zenon DEF AddDevice
  <2>2. /\ StorageOK' /\ Resident' = Resident \cup {d}
        /\ ParameterOf' = [e \in Resident \cup {d} |-> IF e = d THEN Unassigned ELSE ParameterOf[e]]
        /\ StateOf' = [e \in Resident \cup {d} |-> IF e = d THEN "initial" ELSE StateOf[e]]
    BY <2>1, Zenon DEF AddEffect
  <2>3. LogicalStore' = [e \in Resident \cup {d} |->
            IF e = d THEN [parameter |-> Unassigned, state |-> "initial"] ELSE LogicalStore[e]]
    BY <1>2, <1>3, <2>2
  <2>4. DOMAIN LogicalStore = Resident
    BY <1>2
  <2> QED BY <2>1, <2>3, <2>4 DEF Store!Add, Store!Unassigned, Unassigned
<1>5. ASSUME NEW d \in Devices, RemoveDevice(d) PROVE Store!Remove(d)
  <2>1. RemoveEffect(d) /\ d \in Resident
    BY <1>1, <1>5, RemoveStorage, Zenon DEF RemoveDevice
  <2>2. /\ StorageOK' /\ Resident' = Resident \ {d}
        /\ ParameterOf' = [e \in Resident \ {d} |-> ParameterOf[e]]
        /\ StateOf' = [e \in Resident \ {d} |-> StateOf[e]]
    BY <2>1, Zenon DEF RemoveEffect
  <2>3. LogicalStore' = [e \in Resident \ {d} |-> LogicalStore[e]]
    BY <1>2, <1>3, <2>2
  <2>4. DOMAIN LogicalStore = Resident
    BY <1>2
  <2> QED BY <2>1, <2>3, <2>4 DEF Store!Remove
<1>6. ASSUME NEW d \in Devices, NEW value \in Parameters, SetDeviceParameter(d, value)
      PROVE  Store!SetParameter(d, value)
  <2>1. SetEffect(d, value) /\ d \in Resident
    BY <1>1, <1>6, SetStorage, Zenon DEF SetDeviceParameter
  <2>2. /\ StorageOK' /\ Resident' = Resident /\ StateOf' = StateOf
        /\ ParameterOf' = [ParameterOf EXCEPT ![d] = value]
    BY <2>1, Zenon DEF SetEffect
  <2>3. DOMAIN ParameterOf = Resident
    BY <1>1, StorageRows, Zenon DEF RowsAreThere, ParameterOf, Reads
  <2>4. LogicalStore' = [e \in Resident |-> IF e = d THEN [parameter |-> value, state |-> StateOf[e]]
                                            ELSE LogicalStore[e]]
    BY <1>2, <1>3, <2>2, <2>3
  <2>5. LogicalStore' = [LogicalStore EXCEPT ![d].parameter = value]
    BY <1>2, <2>1, <2>4
  <2> QED BY <1>2, <2>1, <2>5 DEF Store!SetParameter
<1>7. ASSUME Tick PROVE Store!Tick
  <2>1. PICK solved \in SUBSET DOMAIN islands :
            TickEffect(solved) /\ \A d \in Resident : IslandOf[d] \in solved => ParameterOf[d] # Unassigned
    BY <1>7, TickSolves
  <2>2. PICK advancing : advancing = {d \in Resident : IslandOf[d] \in solved}
    OBVIOUS
  <2>3. /\ StorageOK' /\ Resident' = Resident /\ ParameterOf' = ParameterOf
        /\ StateOf' = [d \in Resident |-> IF IslandOf[d] \in solved THEN "next" ELSE StateOf[d]]
    BY <2>1, Zenon DEF TickEffect
  <2>4. LogicalStore' = [d \in Resident |-> IF d \in advancing THEN [parameter |-> ParameterOf[d], state |-> "next"]
                                            ELSE LogicalStore[d]]
    BY <1>2, <1>3, <2>2, <2>3
  <2>5. LogicalStore' = [d \in DOMAIN LogicalStore |-> IF d \in advancing THEN [LogicalStore[d] EXCEPT !.state = "next"]
                                                       ELSE LogicalStore[d]]
    BY <1>2, <2>4
  <2>6. advancing \in SUBSET DOMAIN LogicalStore /\ \A d \in advancing : LogicalStore[d].parameter # Unassigned
    BY <1>2, <2>1, <2>2
  <2> QED BY <2>5, <2>6 DEF Store!Tick, Store!Unassigned, Unassigned
<1>8. ASSUME NEW devices, NEW n, RowsEffect(devices, n) PROVE UNCHANGED LogicalStore
  <2>1. StorageOK' /\ Resident' = Resident /\ ParameterOf' = ParameterOf /\ StateOf' = StateOf
    BY <1>8, Zenon DEF RowsEffect
  <2> QED BY <1>2, <1>3, <2>1
<1>9. ASSUME NEW i, NEW j, MergeIslands(i, j) PROVE UNCHANGED LogicalStore
  <2>1. PICK devices : devices = islands[j]
    OBVIOUS
  <2>2. RowsEffect(devices, i)
    BY <1>9, <2>1, MergeMoves
  <2> QED BY <1>8, <2>2
<1>10. ASSUME NEW i, NEW d \in Devices, SplitIsland(i, d) PROVE UNCHANGED LogicalStore
  <2>1. PICK devices : devices = {d}
    OBVIOUS
  <2>2. PICK n : n = islandSlots + 1
    OBVIOUS
  <2>3. RowsEffect(devices, n)
    BY <1>10, <2>1, <2>2, SplitMoves
  <2> QED BY <1>8, <2>3
<1>11. ASSUME NEW definition \in Definitions, AddDeviceFails(definition) PROVE UNCHANGED LogicalStore
  BY <1>1, <1>11, FailStorage, SameStore
<1>12. ASSUME arena' = arena, physicalState' = physicalState, topologyRows' = topologyRows
       PROVE  UNCHANGED LogicalStore
  BY <1>1, <1>12, StorageUnchanged, SameStore
<1>13. CASE SyncFails
  BY <1>12, <1>13 DEF SyncFails
<1>14. CASE UNCHANGED vars
  BY <1>12, <1>14 DEF vars
<1>15. CASE Next
  BY <1>4, <1>5, <1>6, <1>7, <1>9, <1>10, <1>11, <1>13, <1>15, Zenon DEF Next, Store!Next
<1> QED BY <1>14, <1>15

\* The empty arena stores nothing.
LEMMA InitRefines == ASSUME Init PROVE Store!Init
<1>1. StorageOK
  BY InitInv, Zenon DEF DeviceInv
<1>2. \A d \in Devices : d \notin Resident
  BY DEF Init, Resident
<1>3. Resident = {}
  BY <1>2 DEF Resident
<1>4. LogicalStore = [d \in {} |-> Stored(d)]
  BY <1>1, <1>3, StoreIs DEF StoreIsStored
<1> QED BY <1>4 DEF Store!Init

\* The moves of rows are invisible: parameters and states follow their
\* devices, a new device starts from its initial state though its row was
\* another's, and a tick writes the states of the devices it solved only.
THEOREM RowsAreInvisible == Spec => StorageIsInvisible
<1>1. Init => Store!Init
  BY InitRefines
<1>2. DeviceInv /\ [Next]_vars => [Store!Next]_LogicalStore
  BY StepRefines
<1> QED BY <1>1, <1>2, StorageInvariant, PTL DEF Spec, StorageIsInvisible, Store!Spec

=============================================================================
