SPECIFICATION Spec
CONSTANTS
    Base = 4
    LenBytes = 2
    SetupMax = 32
    FirstCap = 8
    CmdTypes <- OneCmd
    Limits <- NoLimit
    Strings <- MCStrings
    MaxParams = 1
    MB = 2
INVARIANTS
    LimitIsAccepted
