\* Two elements, three values: enough for a transfer that must keep one
\* element's write while the other is still uninitialised, and for a kernel
\* half of whose threads have run.
CONSTANTS
    Cells = {c1, c2}
    Values = {0, 1, 2}
    Zero = 0
    Shared = FALSE
SPECIFICATION Spec
INVARIANTS
    TypeOK
    LiveViewsSeeTheArray
PROPERTY ImplementsLogicalArray
