------------------------------ MODULE Rationals ------------------------------
(* Exact rational arithmetic, in which the circuit models compute what the    *)
(* engine computes in 64-bit floating point.  A rational is a pair            *)
(* <<numerator, denominator>> in lowest terms with a positive denominator; a  *)
(* division by zero yields NonFinite, which every operation passes on, the    *)
(* way the infinities and NaNs of the engine end in an is_finite test.        *)
EXTENDS EagerFold, Integers, SequencesExt

Gcd[p \in Nat \X Nat] == IF p[2] = 0 THEN p[1] ELSE Gcd[<<p[2], p[1] % p[2]>>]

Magnitude(i) == IF i < 0 THEN -i ELSE i

NonFinite == <<0, 0>>

Ratio(n, d) ==
    IF d = 0 THEN NonFinite
    ELSE LET g == Gcd[<<Magnitude(n), Magnitude(d)>>]
             s == IF d < 0 THEN -1 ELSE 1
         IN  <<s * (n \div g), s * (d \div g)>>

Whole(i) == <<i, 1>>
Zero == Whole(0)
One == Whole(1)
Half == <<1, 2>>

IsFinite(a) == a[2] # 0

Plus(a, b) ==
    IF a[2] = b[2] THEN Ratio(a[1] + b[1], a[2])
    ELSE IF a[2] = 0 \/ b[2] = 0 THEN NonFinite
    ELSE LET g == Gcd[<<a[2], b[2]>>]
         IN  Ratio(a[1] * (b[2] \div g) + b[1] * (a[2] \div g), (a[2] \div g) * b[2])
Negated(a) == <<-a[1], a[2]>>
Minus(a, b) == Plus(a, Negated(b))
Times(a, b) ==
    IF a[2] = 0 \/ b[2] = 0 THEN NonFinite
    ELSE LET p == Ratio(a[1], b[2])
             q == Ratio(b[1], a[2])
         IN  <<p[1] * q[1], p[2] * q[2]>>
Over(a, b) == IF b[1] = 0 THEN NonFinite ELSE Times(a, Ratio(b[2], b[1]))
AtMost(a, b) == a[1] * b[2] <= b[1] * a[2]
Below(a, b) == a[1] * b[2] < b[1] * a[2]
Truth(condition) == IF condition THEN One ELSE Zero

Total(S, F(_)) == LET s == Listed(S) IN Accumulate(LAMBDA sum, x : Plus(sum, F(x)), Zero, s)

(* A linear system of n equations is a sequence of rows of n + 1 rationals,   *)
(* the last one the right-hand side.  Gauss-Jordan elimination; a column      *)
(* without a pivot makes the system singular.                                 *)
Singular == <<>>

EliminateColumn(rows, k) ==
    LET n == Len(rows)
        pivots == {i \in k..n : rows[i][k][1] # 0}
    IN  IF pivots = {} THEN Singular
        ELSE LET p == CHOOSE i \in pivots : \A j \in pivots : i <= j
                 pivot == [j \in 1..n + 1 |-> Over(rows[p][j], rows[p][k])]
                 swapped == [rows EXCEPT ![p] = rows[k]]
             IN  [i \in 1..n |->
                    IF i = k THEN pivot
                    ELSE [j \in 1..n + 1 |->
                            Minus(swapped[i][j], Times(swapped[i][k], pivot[j]))]]

LinearSolution(rows) ==
    LET n == Len(rows)
        reduced == Accumulate(LAMBDA m, k : IF m = Singular THEN Singular ELSE EliminateColumn(m, k),
                            rows, [k \in 1..n |-> k])
    IN  IF reduced = Singular THEN Singular ELSE [i \in 1..n |-> reduced[i][n + 1]]
==============================================================================
