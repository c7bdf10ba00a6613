CONSTANTS
    Devices = {d1, d2}
    Values = {v}
    MaxSubscriptions = 4
    FirstCapacity = 1
    MaxCapacity = 3
SPECIFICATION Spec
CONSTRAINT SmallSystem
SYMMETRY Symmetry
INVARIANTS
    SubscriptionsAgree
    EndedListenersAreReleased
    UpdatesReachListeners
    OnlyFaultsPoison
CHECK_DEADLOCK FALSE
