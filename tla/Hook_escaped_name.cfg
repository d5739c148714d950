SPECIFICATION Spec
CONSTANTS
    s1 = s1
    s2 = s2
    Token <- MCToken
    Sessions <- MCSessions
    Scenarios <- EscapedName
    OtherColumns <- MCOtherColumns
    RemoteColumns <- MCRemoteColumns
INVARIANTS
    StructureArrives
