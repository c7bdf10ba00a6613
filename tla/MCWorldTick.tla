---------------------------- MODULE MCWorldTick ----------------------------
(* Small worlds for TLC.                                                   *)
EXTENDS WorldTick, TLC

CONSTANTS capacitor, lamp, switch, p, q

\* Two partitions with states, one of which resets, or devices without
\* states, whose islands can sleep.
PartitionsOf == [d \in Devices |-> IF d = capacitor THEN {1, 2} ELSE {1}]
CapacitorStates == {capacitor} \X {1, 2}
FirstState == {<<capacitor, 1>>}

\* Three islands and one parameter with the first, two and two with the others.
SmallWorld ==
    \/ /\ DOMAIN parameter \subseteq {capacitor}
       /\ \A d \in DOMAIN parameter : parameter[d] # q
    \/ /\ capacitor \notin DOMAIN parameter
       /\ islandSlots <= 2

Symmetry == Permutations({lamp, switch})
=============================================================================
