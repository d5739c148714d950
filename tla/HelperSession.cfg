SPECIFICATION HangSpec
CONSTANTS
    Cmds <- AllCmds
    Faults <- AllFaults
    MaxData = 4
    BlockLen = 2
    SetupLen = 2
    MaxErr = 2
    ErrMax = 1
    DataCap = 2
    SetupCap = 1
    ErrCap = 1
    Builds = {TRUE, FALSE}
INVARIANTS
    TypeOK
    SuccessIsWhole
    NothingLeaked
    KillsOwnChild
    ReportIsComplete
    WaitIsShort
    SetupFirst
    IInv
PROPERTIES
    AnswerIsFinal
    CancelEnds
    DiesWithBackend
    StatementEnds
    OrphanEnds
    KeepsPromise
