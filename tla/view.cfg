SPECIFICATION Spec
CONSTANTS
    MaxMessages = 2
    MaxPieces = 1
    MaxFrames = 3
    MaxAsks = 1
    MaxUpsets = 1
INVARIANTS ViewTypeOK HistoryAgrees TextAgrees
PROPERTY CatchesUp
CHECK_DEADLOCK FALSE
