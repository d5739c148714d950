SPECIFICATION Spec
CONSTANTS
    s1 = s1
    s2 = s2
    Token <- MCToken
    Sessions <- MCSessions
    Scenarios <- AllScenarios
    OtherColumns <- MCOtherColumns
    RemoteColumns <- MCRemoteColumns
INVARIANTS
    HelperGated
    CopiesWhatWasChecked
    ColumnsAgree
    QueryWellFormed
    AzureGlued
    StructureRewritten
    TimeoutKept
