SPECIFICATION AppFairSpec
CONSTANTS
    Fds = {1}
    Periods = {0, 1}
    TicksPerMs = 2
    MaxLate = 2
    MaxTimerId = 3
    MaxEvents = 2
    ThreadsCall = FALSE
    SelfRemove = FALSE
    CloseRegistered = FALSE
    KillDelays = {1}
    Statuses = {0,1}
    Backend = "SocketCAN"
    Plugins = {"SocketCAN", "PCAN"}
INVARIANT AppTypeOK
INVARIANT RunReturnsLastExit
INVARIANT IteratorValid
INVARIANT SleepMatchesFrontTimer
INVARIANT FilesMirrorEpoll
PROPERTY ExitEndsRun
PROPERTY KillTimerEndsRun
PROPERTY WokenLoopFiresTimers
