SPECIFICATION Spec
CONSTANTS
    Targets <- AllTargets
    MaxRows = 6
    RowBytes <- MCRowBytes
    MaxTuples = 3
    MaxBytes = 3
INVARIANTS
    DoneIsWhole
    RowsInOrder
    BufferFits
    TriggerSeesAll
    TriggerOfOwnRelation
PROPERTIES
    AfterFollows
    Transfers
