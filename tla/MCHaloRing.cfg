CONSTANTS
    Dims <- Dims121
    Cyclic <- Periodic2
    Layout <- Rotated
    Halos <- Uneven
    FieldsOf <- FewerLater
    MaxFields = 2
    MaxStep = 3
SPECIFICATION FairSpec
INVARIANTS
    IndInv
    HalosCurrent
    NoTruncation
PROPERTIES
    AlwaysBuffersKept
    ImplementsNeighbourSync
    EveryProcessFinishes
\* A state in which nothing can happen is a counterexample to the last property.
CHECK_DEADLOCK FALSE
