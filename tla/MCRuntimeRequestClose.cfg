CONSTANTS
    Runtimes = {r1}
    Types = {t1}
    MaxSystems = 1
SPECIFICATION Spec
INVARIANTS
    RequestCloseClosesWithoutSystems
CONSTRAINT FewDefinitions
CHECK_DEADLOCK FALSE
