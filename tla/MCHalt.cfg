SPECIFICATION HaltSpec
CONSTANTS
    WORDS = 16
    NREGS = 4
    Decode <- HaltDecode
    PC_INIT = 0
    SETS = 1
    LINE = 4
    Cacheable <- CodeAddr
    Clint = {14}
    PowerUpBvalid = {FALSE}
    SramAddr <- DeviceSram
    UartAddr = {13}
    BTB_ENTRIES = 4
    RAS_DEPTH = 4
    Images <- HaltImages
    RegsInit <- MCRegs
    SkipAddr = {13}
    Times = {1, 7}
    EBREAK <- MC_EBREAK
    A0 = 2
INVARIANTS
    TypeOK
    DifftestPasses
    UartPrintsEachStoreOnce
    SkipsItsOwnAccess
    EndsAsReference
