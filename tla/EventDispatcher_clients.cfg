SPECIFICATION Spec
CONSTANTS
    Fds = {0, 1}
    Periods = {1}
    TicksPerMs = 1
    MaxLate = 1
    MaxTimerId = 2
    MaxEvents = 2
    ThreadsCall = TRUE
    SelfRemove = TRUE
    CloseRegistered = TRUE
INVARIANT TypeOK
INVARIANT UniqueIds
INVARIANT EpollWithinFiles
PROPERTY ImplementsTimerService
CHECK_DEADLOCK FALSE
