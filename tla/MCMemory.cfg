SPECIFICATION MemorySpec
CONSTANTS
    Size = 6
    Byte = {0, 1}
    Unit = 4
    Start = 4
    End = 1000
    Sizes <- AskedSizes
    MaxBlocks = 3
    Spaces = {a, b}
    Pages = {11, 12, 13, 14, 15, 16}
    NI = 3
    KernelDirs = {0}
    Vas <- TwoPages
    Pas = {101}
    NCPU = 3
    NTASK = 4
SYMMETRY Symmetry
INVARIANTS
    CopiesRight
    BlocksDisjoint
    TablesSound
    ContextsSafe
    OneHoldsLock
PROPERTY
    ImplementsSpaces
CHECK_DEADLOCK FALSE
