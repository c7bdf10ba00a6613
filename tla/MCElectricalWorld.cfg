CONSTANTS
    MaxId = 3
    Generations = 3
    MaxBatch = 4
    Kinds = {"wire", "device"}
SPECIFICATION Spec
INVARIANTS
    BatchAccepted
    CommittedAgreesWithNative
    IInv
PROPERTIES
    OnlyRejectionPoisons
    HandlesKeepTheirPromise
CONSTRAINT FewObjects
CHECK_DEADLOCK FALSE
