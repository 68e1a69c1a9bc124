SPECIFICATION Spec
CONSTANTS
    Fds = {3, 4}
    MaxFrames = 2
    MaxDepth = 5
    SlotCalls = {"connect", "disconnect", "recv", "recvAll"}
    Failures = TRUE
    ReadFailures = TRUE
    Relock = TRUE
    ThreadsReceive = TRUE
INVARIANT TypeOK
INVARIANT OwnsItsSocket
INVARIANT ConnectedHasSocket
INVARIANT IdleIsSettled
INVARIANT FramesInOrder
PROPERTY ImplementsReceivePipe
CHECK_DEADLOCK FALSE
