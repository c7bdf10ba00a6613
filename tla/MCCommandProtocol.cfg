CONSTANTS
    Wires = {1, 2}
    Devices = {1, 2}
    Definitions <- OneDefinition
    DefinitionOf <- DefinitionIds
    JavaCommands <- ThreeCommands
    OtherCommands <- AllCommands
    InitialCapacity = 10
    MaxCapacity = 30
    MaxCommands = 2
SPECIFICATION Spec
INVARIANTS
    JavaBuffersArrive
    ErrorsAreLocated
CHECK_DEADLOCK FALSE
