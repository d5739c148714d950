SPECIFICATION Spec
CONSTANTS
    Cmds <- InsertOnly
    Faults <- RaiseOnly
    MaxData = 4
    BlockLen = 2
    SetupLen = 2
    MaxErr = 2
    ErrMax = 2
    DataCap = 2
    SetupCap = 1
    ErrCap = 1
    Builds = {TRUE}
INVARIANTS
    CommitIsWhole
