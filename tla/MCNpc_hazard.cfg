SPECIFICATION LiveSpec
CONSTANTS
    WORDS = 16
    NREGS = 4
    Decode <- HazardDecode
    PC_INIT = 0
    SETS = 4
    LINE = 2
    Cacheable <- Word
    Clint = {}
    PowerUpBvalid = {FALSE}
    SramAddr <- Word
    UartAddr = {}
    BTB_ENTRIES = 4
    RAS_DEPTH = 4
    Images <- HazardImages
    RegsInit <- MCRegs
    SkipAddr = {}
    Times = {0}
INVARIANTS
    DifftestPasses
    MemoryMatches
    FetchOnlyWhenDecodeEmpty
    LsuAndBusPaired
PROPERTY
    KeepsCommitting
