CONSTANTS
    Handle = {h1, h2}
    Protocol = {p1, p2}
    Instance = {i1, i2, i3}
    Driver = {d1, d2}
    Application = {a1}
    Core = core
    Notify = {n1}
    None = None
    MaxCalls = 6
    MaxDepth = 6
SPECIFICATION Spec
INVARIANT TypeOK
INVARIANT PositionIsExact
INVARIANT InstallIsNoticed
INVARIANT OneDriver
SYMMETRY MCSymmetry
CHECK_DEADLOCK FALSE
