CONSTANTS
    Registrars = {t1, t2}
    Worlds = {w1}
    Bodies = {b}
    Compositions <- PrimitivesOrFirst
    Primitives = 1
    MaxDefinitions = 3
SPECIFICATION FairSpec
INVARIANTS
    PublishedIdsHold
    DecodedAgainstCurrent
PROPERTIES
    StoreIsCatalog
    RegistrationsEnd
CHECK_DEADLOCK FALSE
