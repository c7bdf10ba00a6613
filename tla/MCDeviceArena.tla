--------------------------- MODULE MCDeviceArena ---------------------------
(* Small arenas for TLC.                                                   *)
EXTENDS DeviceArena, TLC

CONSTANT q

\* Three devices with one parameter for the rows, or two devices with two
\* parameters for what is stored.
Stored(value) == \E d \in Resident : ParameterAt(arena.directory[d]) = value
Loaded(value) == \E i \in DOMAIN runtimes : \E d \in DOMAIN runtimes[i].parameters :
                    runtimes[i].parameters[d] = value
SmallArena == Stored(q) \/ Loaded(q) => Cardinality(Resident) <= 2

Symmetry == Permutations(Devices) \cup Permutations(Definitions)
=============================================================================
