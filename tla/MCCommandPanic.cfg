CONSTANTS
    Wires = {1, 2}
    Devices = {1, 2}
    Definitions <- OneDefinition
    DefinitionOf <- DefinitionIds
    JavaCommands <- ThreeCommands
    OtherCommands <- AllCommands
    InitialCapacity = 30
    MaxCapacity = 30
    MaxCommands = 1
SPECIFICATION Spec
INVARIANTS
    FailuresNameTheCommand
CHECK_DEADLOCK FALSE
