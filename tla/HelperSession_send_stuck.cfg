SPECIFICATION FairSpec
CONSTANTS
    Cmds <- InsertOnly
    Faults <- SendOnly
    MaxData = 2
    BlockLen = 2
    SetupLen = 2
    MaxErr = 2
    ErrMax = 2
    DataCap = 2
    SetupCap = 1
    ErrCap = 1
    Builds = {TRUE}
PROPERTIES
    FailureRaises
CHECK_DEADLOCK FALSE
