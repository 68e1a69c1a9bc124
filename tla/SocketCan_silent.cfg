SPECIFICATION Spec
CONSTANTS
    Fds = {3}
    MaxFrames = 0
    MaxDepth = 5
    SlotCalls = {}
    Failures = TRUE
    ReadFailures = FALSE
    Relock = FALSE
    ThreadsReceive = FALSE
PROPERTY FailedOpenReports
