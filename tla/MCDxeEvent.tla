---------------------------- MODULE MCDxeEvent ----------------------------
(* Event populations for model checking DxeEvent. *)
EXTENDS DxeEvent

CONSTANTS
    t,   \* a timer with a notification function, at TPL_CALLBACK
    n,   \* an event with a notification function, at TPL_NOTIFY
    g,   \* a timer in an event group, at TPL_NOTIFY
    h,   \* another member of the group, at TPL_CALLBACK
    w,   \* an event with a wait notification function, at TPL_CALLBACK
    pl,  \* a plain timer event, to be waited for
    chk, \* mEfiCheckTimerEvent
    idle \* gIdleLoopEvent

MCKind == [e \in Event |->
    IF e \in {chk, idle, t, n, g, h} THEN "signal"
    ELSE IF e = w THEN "wait" ELSE "none"]

MCNotifyTpl == [e \in Event |->
    IF e = chk THEN CheckTimersTpl
    ELSE IF e \in {t, h, w} THEN TPL_CALLBACK
    ELSE IF e = pl THEN 0 ELSE TPL_NOTIFY]

MCIsTimer == [e \in Event |-> e \in {t, g, pl}]

MCGroup == [e \in Event |->
    IF e \in {g, h} THEN "group" ELSE IF e = idle THEN "idle" ELSE "none"]

Empty == <<>>

SignalQueueOfOne == <<t, idle, chk>>

SignalQueueOfCore == <<t, h, g, idle, chk>>

SignalQueueOfGroup == <<g, h, idle, chk>>

WaitForBoth == <<pl, w>>
=============================================================================
