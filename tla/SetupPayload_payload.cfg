SPECIFICATION Spec
CONSTANTS
    Base = 4
    LenBytes = 2
    SetupMax = 32
    FirstCap = 8
    CmdTypes <- TwoCmds
    Limits <- MCLimits
    Strings <- EdgeStrings
    MaxParams = 2
    MB = 2
INVARIANTS
    RoundTrip
    TruncatedNeverRuns
    InBounds
    WholeIsAccepted
