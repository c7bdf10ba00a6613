------------------------- MODULE MCElectricalWorld -------------------------
(* A small ElectricalWorld for TLC.                                        *)
EXTENDS ElectricalWorld, FiniteSets

\* Three objects of one kind, or one of each: kinds meet in the buffer only.
IdsUsed(k) == {id \in 1..MaxId : ids[k].generations[id] # 0}
FewObjects ==
    \/ \E k \in Kinds : \A other \in Kinds \ {k} : IdsUsed(other) = {}
    \/ \A k \in Kinds : Cardinality(IdsUsed(k)) <= 1
=============================================================================
