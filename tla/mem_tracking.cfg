\* Three buffer addresses, calls one at a time: the order of gMemListHead,
\* address reuse, damage of every structure and reallocation all occur.
CONSTANTS
    b1 = b1
    b2 = b2
    b3 = b3
    Buffer = {b1, b2, b3}
    ListHead = ListHead
    NULL = NULL
    Preempting = FALSE
SYMMETRY Addresses
SPECIFICATION Spec
\* No property speaks of a list whose links were overwritten.
CONSTRAINT Explored
\* The image ends with the report.
CHECK_DEADLOCK FALSE
INVARIANTS
    TypeOK
    ReportIsExact
    ListedIsTracked
    ReallocKeepsTracking
