--------------------- MODULE MCObservationPublication ----------------------
(* Small systems for TLC.                                                  *)
EXTENDS ObservationPublication, TLC

\* One device and enough subscriptions to fill the buffer twice, or two
\* devices and two subscriptions.
Used == native.devices \cup batch.adds \cup {subscriptions[id].device : id \in DOMAIN subscriptions}
SmallSystem == Cardinality(Used) = 2 => native.nextId <= 3

Symmetry == Permutations(Devices)
=============================================================================
