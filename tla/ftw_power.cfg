CONSTANTS
    a = a b = b x = x y = y
    Block = {a, b}
    Data = {x, y}
    Torn = Torn
    None = None
    QueueSize = 5
    AllocSizes = {1, 2}
SPECIFICATION FairSpec
CONSTRAINT Explored
INVARIANT TypeOK
INVARIANT SpareBacksPending
INVARIANT WholeWhenReady
PROPERTY WorkSpaceSurvives
PROPERTY ImplementsAtomicWrite
PROPERTY BootSettles
