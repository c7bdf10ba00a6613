------------------------- MODULE MCDerivedTopology -------------------------
(* Small worlds for TLC.                                                   *)
EXTENDS DerivedTopology, TLC

\* Three wires and one device before the first tick, or two of each.
SmallNetwork ==
    /\ Cardinality(DOMAIN network.devices) + Cardinality(network.wires) <= 4
    /\ Cardinality(DOMAIN network.devices) = 2 \/ runtimes # << >> =>
            /\ Cardinality(network.wires) <= 2
            /\ topology.netSlots <= 3 /\ topology.islandSlots <= 3

Symmetry == Permutations(Wires) \cup Permutations(Devices)

\* A device that conducts between its two terminals, and one that does not.
Conducting == [partitionCount |-> 1, terminalPartitions |-> <<1, 1>>]
Isolating == [partitionCount |-> 2, terminalPartitions |-> <<1, 2>>]
BothDefinitions == {Conducting, Isolating}
=============================================================================
