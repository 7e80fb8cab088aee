CONSTANTS
    t = t n = n g = g h = h w = w pl = pl chk = chk idle = idle
    Event = {g, h, w, pl, idle, chk}
    NoEvent = NoEvent
    mEfiCheckTimerEvent = chk
    gIdleLoopEvent = idle
    Kind <- MCKind
    NotifyTpl <- MCNotifyTpl
    IsTimer <- MCIsTimer
    Group <- MCGroup
    NoGroup = "none"
    InitialEvents = {g, h, w, pl, idle, chk}
    InitialSignalQueue <- SignalQueueOfGroup
    UserEvents <- WaitForBoth
    ReadOnce = TRUE
    RearmWhileClosing = FALSE
    TriggerTimes = {0, 1}
    TimerPeriod = 1
    RaiseLevels = {16}
    MaxTime = 1
    MaxOps = 2
    MaxDepth = 5
SPECIFICATION FairSpec
PROPERTY QueuedIsDispatched
PROPERTY TimerFires
PROPERTY WaitReturns
