CONSTANTS
    Frames = {f1, f2}
    MaxShows = 3
    MaxInputs = 3
    QueueCap = 2
    PostLimit = 2
    f1 = f1
    f2 = f2
SPECIFICATION WindowSpec
INVARIANTS CloseDelivered NoTornFrame
PROPERTIES InterpreterNeverHangs FrameShown
CHECK_DEADLOCK FALSE
