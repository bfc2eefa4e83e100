CONSTANTS
    GridMaps <- Swaps
    Lengths <- Lengths232
SPECIFICATION Spec
INVARIANTS
    TypeOK
    ElementsFound
    PeriodicAxesMatch
CHECK_DEADLOCK FALSE
