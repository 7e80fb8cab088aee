\* Two buffer addresses and notification functions that use the library at any
\* point of a call: list writes of two calls interleave.
CONSTANTS
    b1 = b1
    b2 = b2
    Buffer = {b1, b2}
    ListHead = ListHead
    NULL = NULL
    Preempting = TRUE
SYMMETRY Addresses
SPECIFICATION Spec
\* No property speaks of a list whose links were overwritten.
CONSTRAINT Explored
\* The image ends with the report.
CHECK_DEADLOCK FALSE
INVARIANT ReportIsExact
