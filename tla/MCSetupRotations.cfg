CONSTANTS
    GridMaps <- Rotations
    Lengths <- Lengths232
SPECIFICATION Spec
INVARIANT PeriodicAxesMatch
CHECK_DEADLOCK FALSE
