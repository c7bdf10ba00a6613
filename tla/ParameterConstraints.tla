------------------------ MODULE ParameterConstraints ------------------------
(* hynergy-model/src/parameter.rs: what values a definition's parameter may   *)
(* take, and when one set of constraints implies another.  An optional bound  *)
(* is a set of at most one bound; so is an optional reciprocal range.         *)
EXTENDS Rationals

Bound(v, inclusive) == [value |-> v, inclusive |-> inclusive]

Constraints(lower, upper, nonZero, reciprocalRange) ==
    [lower |-> lower, upper |-> upper, nonZero |-> nonZero, reciprocalRange |-> reciprocalRange]

Unrestricted == Constraints({}, {}, FALSE, {})
Positive == Constraints({Bound(Zero, FALSE)}, {}, FALSE, {})
NonNegative == Constraints({Bound(Zero, TRUE)}, {}, FALSE, {})

WithinBounds(v, lower, upper) ==
    /\ \A b \in lower : IF b.inclusive THEN AtMost(b.value, v) ELSE Below(b.value, v)
    /\ \A b \in upper : IF b.inclusive THEN AtMost(v, b.value) ELSE Below(v, b.value)

(* A number is so small that its reciprocal overflows if it is at most        *)
(* Smallest in magnitude, which stands for the numbers below 1 / f64::MAX.    *)
Smallest == Ratio(1, 1000)
Reciprocal(v) ==
    IF AtMost(v, Smallest) /\ AtMost(Negated(Smallest), v) THEN NonFinite ELSE Over(One, v)

Validates(c, v) ==
    /\ IsFinite(v)
    /\ c.nonZero => v # Zero
    /\ WithinBounds(v, c.lower, c.upper)
    /\ \A range \in c.reciprocalRange :
          IsFinite(Reciprocal(v)) /\ WithinBounds(Reciprocal(v), range.lower, range.upper)

LowerBoundImplies(provided, required) ==
    \A r \in required : \E p \in provided :
        Below(r.value, p.value) \/ (p.value = r.value /\ (~p.inclusive \/ r.inclusive))

UpperBoundImplies(provided, required) ==
    \A r \in required : \E p \in provided :
        Below(p.value, r.value) \/ (p.value = r.value /\ (~p.inclusive \/ r.inclusive))

ExcludesZero(c) ==
    \/ c.nonZero
    \/ c.reciprocalRange # {}
    \/ \E b \in c.lower : Below(Zero, b.value) \/ (b.value = Zero /\ ~b.inclusive)
    \/ \E b \in c.upper : Below(b.value, Zero) \/ (b.value = Zero /\ ~b.inclusive)

(* Mutant: a value that is not zero is enough where no range is provided.     *)
ReciprocalRangeImpliesUnlessGiven(provided, required, providedExcludesZero) ==
    \A r \in required :
        IF provided = {} THEN providedExcludesZero
        ELSE \E p \in provided : /\ LowerBoundImplies(p.lower, r.lower)
                                 /\ UpperBoundImplies(p.upper, r.upper)

ReciprocalRangeImplies(provided, required, providedExcludesZero) ==
    \A r \in required :
        IF r.lower = {} /\ r.upper = {} THEN providedExcludesZero
        ELSE \E p \in provided : /\ LowerBoundImplies(p.lower, r.lower)
                                 /\ UpperBoundImplies(p.upper, r.upper)

IsSubsetOf(c, required) ==
    /\ LowerBoundImplies(c.lower, required.lower)
    /\ UpperBoundImplies(c.upper, required.upper)
    /\ required.nonZero => ExcludesZero(c)
    /\ ReciprocalRangeImplies(c.reciprocalRange, required.reciprocalRange, ExcludesZero(c))
==============================================================================
