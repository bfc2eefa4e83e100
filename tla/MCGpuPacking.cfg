CONSTANTS
    Dims <- Dims321
    Cyclic <- Periodic3
    Layout <- Identity
    Wide = 3
    Narrow = 2
    HaloExample <- Uneven
    FieldHalos <- TwoFields
    MaxStep = 2
SPECIFICATION Spec
INVARIANTS
    TypeOK
    SentAsFromTheCpu
    HalosAsExpected
    WithinBuffers
    ThreadsApart
