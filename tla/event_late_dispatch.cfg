CONSTANTS
    t = t n = n g = g h = h w = w pl = pl chk = chk idle = idle
    Event = {t, idle, chk}
    NoEvent = NoEvent
    mEfiCheckTimerEvent = chk
    gIdleLoopEvent = idle
    Kind <- MCKind
    NotifyTpl <- MCNotifyTpl
    IsTimer <- MCIsTimer
    Group <- MCGroup
    NoGroup = "none"
    InitialEvents = {t, idle, chk}
    InitialSignalQueue <- SignalQueueOfOne
    UserEvents <- Empty
    ReadOnce = TRUE
    RearmWhileClosing = FALSE
    TriggerTimes = {0, 1}
    TimerPeriod = 1
    RaiseLevels = {8, 16}
    MaxTime = 2
    MaxOps = 3
    MaxDepth = 6
SPECIFICATION Spec
PROPERTY RestoreLeavesNothingUnmasked
