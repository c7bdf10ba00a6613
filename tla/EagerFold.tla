------------------------------ MODULE EagerFold ------------------------------
(* The left fold over a sequence, like FoldLeft of SequencesExt, for long     *)
(* sequences and large results: an intermediate result is a member of a set,  *)
(* so that it is a value before the next step begins and not an expression    *)
(* that grows with every step.                                                *)
EXTENDS Naturals, Sequences, FiniteSets

Accumulate(Op(_, _), base, s) ==
    LET upTo[i \in 0..Len(s)] ==
            IF i = 0 THEN base
            ELSE CHOOSE r \in {Op(before, s[i]) : before \in {upTo[i - 1]}} : r = r
    IN  upTo[Len(s)]

(* The members of a set, one after another, as SetToSeq of SequencesExt gives *)
(* them for small sets.                                                       *)
Listed(S) ==
    Accumulate(LAMBDA s, i : Append(s, CHOOSE x \in S : \A j \in DOMAIN s : s[j] # x),
               <<>>, [i \in 1..Cardinality(S) |-> i])
==============================================================================
