CONSTANTS
    Wires = {w1, w2, w3}
    Devices = {d1, d2}
    Definitions <- BothDefinitions
    MaxNets = 4
    MaxIslands = 4
SPECIFICATION Spec
CONSTRAINT SmallNetwork
SYMMETRY Symmetry
INVARIANTS
    TopologyMatchesNetwork
    RuntimesAreCurrent
    InvalidationIsExact
PROPERTIES
    IslandsKeepTheirIdentity
CHECK_DEADLOCK FALSE
