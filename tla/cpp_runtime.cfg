\* Two entries in the tables where order matters, two static objects and two
\* function-local ones: destructors that construct, and exits that nest.
CONSTANTS
    CInits = 2
    CppInits = 2
    Terminators = 1
    Statics = 2
    Locals = 2
SPECIFICATION FairSpec
INVARIANTS
    TypeOK
    TablesRunOnceInOrder
    ListIsNewestFirst
    NothingLeftAlive
PROPERTIES
    ProgramEnds
