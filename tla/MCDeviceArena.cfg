CONSTANTS
    q = q
    Devices = {d1, d2, d3}
    Definitions = {A, B, C}
    Parameters = {p, q}
    ChunkCapacity = 2
    MaxChunks = 2
    MaxIslands = 3
SPECIFICATION Spec
CONSTRAINT SmallArena
SYMMETRY Symmetry
INVARIANTS
    StorageConsistent
    BindingsAreCurrent
    ParametersAreCurrent
PROPERTIES
    StorageIsInvisible
CHECK_DEADLOCK FALSE
