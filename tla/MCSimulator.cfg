SPECIFICATION SimSpec
CONSTANTS
    \* the rtc, whose two words are latched together
    Word = 4
    Device = "rtc"
    MaxTime = 13
    KeyCodes = {"a", "b"}
    MaxTyped = 3
    CONFIG_WATCHPOINT = FALSE
    MaxSi = 2
    Number = {0, 1}
    EXPRS = {e}
    VALUES = {0, 1}
    KEY_QUEUE_LEN = 3
    KEYDOWN_MASK = 2
    Keys = {1}
    Period = 2
    Frames = {f1, f2}
    MaxPressed = 3
    NR_REGS = 5
    STACK_SIZE = 14
    NCPU = 2
    NTASK = 3
INVARIANTS
    ExitStatusTellsFailure
    NoRunAfterEnd
    SameValueAsC
    KeysReachGuest
    WindowShowsSynced
    KeysInOrder
    ContextsIntact
PROPERTIES
    SiReturns
    IsFifo
    HostServed
    UptimeDuringCall
    AllTakeTurns
CHECK_DEADLOCK FALSE
