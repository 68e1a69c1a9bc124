SPECIFICATION Spec
CONSTANTS
    Fds = {3}
    MaxFrames = 1
    MaxDepth = 5
    SlotCalls = {"recv"}
    Failures = FALSE
    ReadFailures = FALSE
    Relock = TRUE
    ThreadsReceive = FALSE
INVARIANT RecvReturns
