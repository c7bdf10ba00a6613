CONSTANTS
    Runtimes = {r1, r2}
    Types = {t1, t2}
    MaxSystems = 2
SPECIFICATION FairSpec
INVARIANTS
    EnginesAndTypesAgree
    ClosedRuntimesAreForgotten
PROPERTIES
    DefinitionsStableWhileSystemsRun
    RequestedCloseFollowsSystems
CONSTRAINT FewDefinitions
CHECK_DEADLOCK FALSE
