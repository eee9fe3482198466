SPECIFICATION Spec
CONSTANTS
    WORDS = 16
    NREGS = 4
    Decode <- PredictDecode
    PC_INIT = 0
    SETS = 1
    LINE = 2
    Cacheable <- HalfCode
    Clint = {}
    PowerUpBvalid = {FALSE}
    SramAddr <- Word
    UartAddr = {}
    BTB_ENTRIES = 4
    RAS_DEPTH = 4
    Images <- PredictImages
    RegsInit <- MCRegs
    SkipAddr = {}
    Times = {0}
INVARIANTS
    DifftestPasses
    CacheShowsMemory
