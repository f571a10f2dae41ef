\* Nothing is logged or searched any more.
CHECK_DEADLOCK FALSE
CONSTANTS
    Conns = {1, 2}
    Tail100 = 1
    MaxReplay = 3
    MaxLines = 2
    MaxID = 2
    MaxTurns = 2
SPECIFICATION LogSpec
INVARIANTS
    OldStreamsStaySilent
    NoGapUnlessLapse
PROPERTY ViewCatchesUp
