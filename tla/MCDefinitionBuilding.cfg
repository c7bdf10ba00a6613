SPECIFICATION Spec
CONSTANTS
    Descriptions <- MCDescriptions
    TestValues <- MCTestValues
    MaxDefinitions = 3
    MaxRestarts = 1
INVARIANTS
    BuiltAsDescribed
    AcceptedValuesReachTheirElements
    CompositeIsItsElements
