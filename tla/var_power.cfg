CONSTANTS
    a = a b = b x = x y = y
    Name = {a, b}
    Data = {x, y}
    Absent = Absent
    None = None
    Size <- SizeOf
    Space = 4
    RuntimeSpace = 3
    MaxSize = 2
    Faults = {}
SPECIFICATION Spec
CONSTRAINT Explored
INVARIANT TypeOK
INVARIANT CacheIsFlash
INVARIANT NextIsErased
PROPERTY ImplementsAtomicSet
SYMMETRY NameSymmetry
