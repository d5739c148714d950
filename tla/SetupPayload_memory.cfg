SPECIFICATION Spec
CONSTANTS
    Base = 4
    LenBytes = 2
    SetupMax = 32
    FirstCap = 8
    CmdTypes <- OneCmd
    Limits <- MemoryLimits
    Strings <- ShortStrings
    MaxParams = 0
    MB = 2
INVARIANTS
    MemoryLimitHonoured
