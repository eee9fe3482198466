SPECIFICATION Spec
CONSTANTS
    WORDS = 16
    NREGS = 4
    Decode <- DefectDecode
    PC_INIT = 0
    SETS = 4
    LINE = 2
    Cacheable <- Word
    Clint = {}
    PowerUpBvalid = {FALSE}
    SramAddr <- Word
    UartAddr = {}
    BTB_ENTRIES = 4
    RAS_DEPTH = 4
    Images <- FenceImages
    RegsInit <- MCRegs
    SkipAddr = {}
    Times = {0}
INVARIANT
    DecodesMemoryWord
