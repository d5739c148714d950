SPECIFICATION Spec
CONSTANTS
    s1 = s1
    s2 = s2
    Token <- MCToken
    Sessions <- MCSessions
    Scenarios <- IfNotExists
    OtherColumns <- MCOtherColumns
    RemoteColumns <- MCRemoteColumns
INVARIANTS
    LoadsNewRelation
