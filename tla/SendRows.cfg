SPECIFICATION Spec
CONSTANTS
    MaxRows = 5
    RowBytes <- MCRowBytes
    BlockBytes = 3
    Pieces = 3
    PieceBytes <- MCPieceBytes
    SinkBytes = 4
    SinkDirect = 3
INVARIANTS
    StreamInOrder
    SinkFits
    RowsKept
    AllSent
    BlocksCut
PROPERTIES
    Transfers
