SPECIFICATION Spec
CONSTANTS
    Fds = {}
    Periods = {1, 3}
    TicksPerMs = 1
    MaxLate = 1
    MaxTimerId = 2
    MaxEvents = 2
    ThreadsCall = FALSE
    SelfRemove = FALSE
    CloseRegistered = TRUE
PROPERTY StopLeavesNoneExpired
