SPECIFICATION Spec
CONSTANTS
    Cmds <- QueryOnly
    Faults <- DecodeOnly
    MaxData = 6
    BlockLen = 2
    SetupLen = 2
    MaxErr = 2
    ErrMax = 2
    DataCap = 2
    SetupCap = 1
    ErrCap = 1
    Builds = {TRUE}
INVARIANTS
    QueryIsWhole
