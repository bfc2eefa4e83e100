CONSTANTS
    Fields <- EveryField
    Accepted <- SomePredicates
    ThreadsPerBlock <- Blocks231
SPECIFICATION KSpec
INVARIANTS
    TypeOK
    EachOnce
PROPERTY ImplementsApply
CHECK_DEADLOCK FALSE
