CONSTANTS
    a = a
    b = b
    c = c
    d = d
    Dims <- Dims311
    Cyclic <- Open
    Halos <- Horizontal
    AllStores <- ABCD
    MaxStores = 3
    Calls <- TwoStores
SPECIFICATION Spec
INVARIANT HalosComplete
