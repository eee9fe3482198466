SPECIFICATION InstructionsSpec
CONSTANTS
    BYTE_MAX = 1
    BYTES = 8
    \* aligned accesses only: the LSU does not shift a misaligned half word
    Misaligned = {}
    ITRACE_BUF_SIZE = 3
    PcSpace = 64
    Targets = {0, 4, 16, 32, 60}
    MaxInst = 6
    size = 32
    ways = 2
    block_size = 8
    Fns = {f, g, h}
    MaxFrames = 7
    MaxJumps = 1
    MaxPending = 4
    NR_WP = 3
    EXPRS = {e1, e2}
    VALUES = {0, 1}
    Size = 8
SYMMETRY Symmetry
INVARIANTS
    RingShowsNewest
    TraceReplayed
    CallsTraced
    EffectsMatch
    AccessesMatch
    PoolPartitioned
    AbortsExactlyOnErrors
PROPERTIES
    ImplementsWatchSet
CHECK_DEADLOCK FALSE
