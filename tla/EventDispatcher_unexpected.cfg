SPECIFICATION Spec
CONSTANTS
    Fds = {3}
    Periods = {1}
    TicksPerMs = 1
    MaxLate = 2
    MaxTimerId = 0
    MaxEvents = 2
    ThreadsCall = TRUE
    SelfRemove = TRUE
    CloseRegistered = FALSE
PROPERTY UnexpectedIsUnregistered
