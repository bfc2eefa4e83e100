CONSTANTS
    a = a
    b = b
    c = c
    d = d
    Dims <- Dims221
    Cyclic <- Periodic1
    Halos <- Horizontal
    AllStores <- ABCD
    MaxStores = 3
    Calls <- DocumentedCalls
SPECIFICATION Spec
INVARIANTS
    TypeOK
    HalosComplete
    ExtendsCurrent
    ThrowLeavesNoneWaiting
PROPERTIES
    AlwaysReadOnlyKept
    AlwaysSidesKept
