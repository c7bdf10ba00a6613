CONSTANTS
    capacitor = capacitor
    lamp = lamp
    switch = switch
    p = p
    q = q
    Devices = {capacitor, lamp, switch}
    Partitions <- PartitionsOf
    Stateful <- CapacitorStates
    Resetting <- FirstState
    Parameters = {p, q}
    MaxIslands = 3
    MaxSubscriptions = 1
SPECIFICATION Spec
CONSTRAINT SmallWorld
SYMMETRY Symmetry
INVARIANTS
    RowsAreWhole
    TickNeverPanics
    SleepersAreCurrent
PROPERTIES
    TicksAreAtomic
CHECK_DEADLOCK FALSE
