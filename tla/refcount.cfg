\* Three objects and two pointers of the program: chains of members, cycles,
\* and destructors that release further objects.
CONSTANTS
    o1 = o1
    o2 = o2
    o3 = o3
    Object = {o1, o2, o3}
    p1 = p1
    p2 = p2
    Global = {p1, p2}
    NULL = NULL
SYMMETRY Addresses
SPECIFICATION Spec
INVARIANTS
    TypeOK
    CountIsExact
    UnreferencedIsDeleted
    StablePointsToLive
