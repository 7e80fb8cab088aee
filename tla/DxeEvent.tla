------------------------------ MODULE DxeEvent ------------------------------
(***************************************************************************)
(* Events, task priority levels and timers of the DXE core                 *)
(* (MdeModulePkg/Core/Dxe/Event/{Event.c, Tpl.c, Timer.c}).                *)
(*                                                                         *)
(* There is one processor.  Code is preempted only by the timer interrupt, *)
(* and the interrupt handler does not switch context: everything it        *)
(* dispatches runs on top of what it interrupted.  The state of every      *)
(* activation in progress is therefore a stack of frames, of which the top *)
(* one runs.  A frame is one call of a function of the core, or of client  *)
(* code (the boot flow, or the notification function of an event); "pc" is *)
(* where the call has got to, "lvl" the TPL it goes back to or runs at,    *)
(* "ev" the event it is about, "val" a local number.                       *)
(*                                                                         *)
(* Code that holds gEventQueueLock runs at TPL_HIGH_LEVEL with interrupts  *)
(* disabled, so each critical section is one step, which leaves TPL at     *)
(* HIGH_LEVEL and a frame of CoreRestoreTpl on top.  mEfiTimerLock only    *)
(* raises to HIGH_LEVEL - 1, so the interrupt does arrive between the      *)
(* steps of CoreSetTimer and CoreCheckTimers.                              *)
(*                                                                         *)
(* An operator whose name starts with "Bug" is the one that follows it     *)
(* with a plausible mistake in it; no specification uses it.               *)
(***************************************************************************)
EXTENDS Integers, Sequences, FiniteSets, SequencesExt

CONSTANTS
    Event,              \* the event structures (IEVENT) of a run
    NoEvent,            \* a frame about no event
    mEfiCheckTimerEvent,
    gIdleLoopEvent,
    Kind,               \* Kind[e]: "signal", "wait" or "none" (EVT_NOTIFY_*)
    NotifyTpl,          \* NotifyTpl[e]
    IsTimer,            \* IsTimer[e]: EVT_TIMER is set
    Group,              \* Group[e]: its EventGroup, NoGroup if it has none
    NoGroup,
    InitialEvents,      \* events that exist when the run starts
    InitialSignalQueue, \* gEventSignalQueue when the run starts
    UserEvents,         \* the array given to CoreWaitForEvent
    ReadOnce,           \* CoreRestoreTpl loads gEventPending once per round
    RearmWhileClosing,  \* a callback may re-arm its own timer in CloseEvent
    TriggerTimes,       \* the TriggerTime arguments of SetTimer
    TimerPeriod,        \* what gTimer->GetTimerPeriod answers
    RaiseLevels,        \* the arguments of RaiseTPL
    MaxTime,            \* bound: time is not told apart beyond it
    MaxOps,             \* bound: calls made by client code
    MaxDepth            \* bound: depth at which clients call and ticks nest

TPL_APPLICATION == 4
TPL_CALLBACK    == 8
TPL_NOTIFY      == 16
TPL_HIGH_LEVEL  == 31

TPL == 0 .. TPL_HIGH_LEVEL

\* (UINTN) -1, what HighBitSet64 (0) becomes when it is stored as a TPL.
MAX_UINTN == -1

\* The level of mEfiTimerLock, and that of mEfiCheckTimerEvent.
BugTimerLockTpl == TPL_NOTIFY
TimerLockTpl    == TPL_HIGH_LEVEL - 1
CheckTimersTpl  == TPL_HIGH_LEVEL - 1

ASSUME EventAssumption ==
    /\ NoEvent \notin Event
    /\ mEfiCheckTimerEvent \in Event /\ gIdleLoopEvent \in Event
    /\ Kind \in [Event -> {"signal", "wait", "none"}]
    /\ IsTimer \in [Event -> BOOLEAN]
    /\ InitialEvents \subseteq Event
    /\ {mEfiCheckTimerEvent, gIdleLoopEvent} \subseteq InitialEvents
    /\ InitialSignalQueue \in Seq(Event)
    /\ IsInjective(InitialSignalQueue)
    /\ ToSet(InitialSignalQueue) = {e \in InitialEvents : Kind[e] = "signal"}
    /\ UserEvents \in Seq(Event)

\* CoreCreateEventInternal only accepts these levels; the check-timer event
\* is the one event above TPL_NOTIFY, and it is created by the core itself.
ASSUME NotifyTplAssumption ==
    /\ NotifyTpl \in [Event -> TPL]
    /\ \A e \in Event :
          IF e = mEfiCheckTimerEvent THEN NotifyTpl[e] = CheckTimersTpl
          ELSE IF Kind[e] = "none"   THEN NotifyTpl[e] = 0
          ELSE /\ NotifyTpl[e] > TPL_APPLICATION
               /\ NotifyTpl[e] <= TPL_NOTIFY
    /\ Kind[mEfiCheckTimerEvent] = "signal"
    /\ Group[mEfiCheckTimerEvent] = NoGroup
    /\ ~IsTimer[mEfiCheckTimerEvent]
    /\ \A e \in Event : Group[e] # NoGroup => Kind[e] = "signal"

ASSUME BoundAssumption ==
    /\ ReadOnce \in BOOLEAN /\ RearmWhileClosing \in BOOLEAN
    /\ TriggerTimes \subseteq Nat
    /\ TimerPeriod \in Nat \ {0}
    /\ RaiseLevels \subseteq TPL
    /\ MaxTime \in Nat /\ MaxOps \in Nat /\ MaxDepth \in Nat

VARIABLES
    tpl,        \* gEfiCurrentTpl; interrupts are enabled iff it is below 31
    pending,    \* gEventPending, as the set of its bits
    queue,      \* gEventQueue[p]: the events to notify at level p
    signalq,    \* gEventSignalQueue
    state,      \* state[e]: "none" (not created), "open", "freed"
    count,      \* SignalCount
    timers,     \* mEfiTimerList
    trigger,    \* Timer.TriggerTime
    period,     \* Timer.Period
    sysTime,    \* mEfiSystemTime
    stack,      \* the activations in progress, innermost last
    ops         \* client calls made so far

timerVars == <<timers, trigger, period>>
eventVars == <<signalq, state>>
vars == <<tpl, pending, queue, signalq, state, count, timers, trigger,
          period, sysTime, stack, ops>>

(***************************************************************************)
(* Frames.                                                                 *)
(***************************************************************************)

\* The values of pc, by the function they belong to.
UserPC     == {"user", "raised"}                    \* client code
RestorePC  == {"rCheck", "rPick", "rSet"}           \* CoreRestoreTpl
DispatchPC == {"dLoop", "dNotify", "dCalled"}       \* CoreDispatchEventNotifies
GroupPC    == {"gLock", "gWalk", "gReturn"}         \* CoreSignalEvent, grouped
SetTimerPC == {"TimerCancel", "TimerRelative", "TimerPeriodic",
               "stArm", "stInsert"}                 \* CoreSetTimer
TimersPC   == {"ctStart", "ctLoop", "ctRearm", "ctInsert"} \* CoreCheckTimers
ClosePC    == {"clUnlink", "clFree"}                \* CoreCloseEvent
CheckPC    == {"ckQueue", "ckRead", "ckClear", "ckReturn"}  \* CoreCheckEvent
WaitPC     == {"wtNext"}                            \* CoreWaitForEvent

PC == UserPC \cup RestorePC \cup DispatchPC \cup GroupPC \cup SetTimerPC
        \cup TimersPC \cup ClosePC \cup CheckPC \cup WaitPC \cup {"ASSERT"}

Frame == [pc : PC, lvl : TPL, ev : Event \cup {NoEvent}, val : Nat]

F(pc, lvl, ev, val) == [pc |-> pc, lvl |-> lvl, ev |-> ev, val |-> val]

Top == stack[Len(stack)]

At(pc) == stack # <<>> /\ Top.pc = pc

\* The stack with its top frame changed to f, and, in Goto, moved to another
\* point of the same call.
Become(f) == [stack EXCEPT ![Len(stack)] = f]
Goto(pc)  == Become([Top EXCEPT !.pc = pc])

\* The stack when the top call has returned to its caller, now changed to f.
ReturnTo(f) == [Front(stack) EXCEPT ![Len(stack) - 1] = f]

\* A pending call of CoreRestoreTpl (NewTpl).
Restore(NewTpl) == F("rCheck", NewTpl, NoEvent, 0)

\* The top call ends by going back to the TPL it was called at.
EndByRestore == Become(Restore(Top.lvl))

(***************************************************************************)
(* Lists.  Every node is on a list at most once, so taking a node off is   *)
(* taking off its one occurrence, if it is there (ForwardLink # NULL).     *)
(***************************************************************************)
Unlinked(list, e) ==
    IF Contains(list, e)
    THEN RemoveAt(list, CHOOSE i \in 1 .. Len(list) : list[i] = e)
    ELSE list

BugTimerPlace(e) == Len(timers) + 1

\* Where CoreInsertEventTimer puts a timer: before the first later one.
TimerPlace(e) ==
    Min({i \in 1 .. Len(timers) : trigger[timers[i]] > trigger[e]}
            \cup {Len(timers) + 1})

BugHighBitSet64(bits) == IF bits = {} THEN MAX_UINTN ELSE Min(bits)

HighBitSet64(bits) == IF bits = {} THEN MAX_UINTN ELSE Max(bits)

\* ((-2 << NewTpl) & gEventPending)
PendingAbove(NewTpl) == {p \in pending : p > NewTpl}

Linked(e) ==
    \/ \E p \in TPL : Contains(queue[p], e)
    \/ Contains(signalq, e)
    \/ Contains(timers, e)

(***************************************************************************)
(* Signalling.                                                             *)
(***************************************************************************)

BugNotifyWithoutPending(e) ==
    /\ queue' = [queue EXCEPT ![NotifyTpl[e]] = Append(Unlinked(@, e), e)]
    /\ UNCHANGED pending

\* Queue e's notification at the tail of its level, whether it was queued or
\* not, and mark the level pending.
CoreNotifyEvent(e) ==
    /\ queue' = [queue EXCEPT ![NotifyTpl[e]] = Append(Unlinked(@, e), e)]
    /\ pending' = pending \cup {NotifyTpl[e]}

\* CoreSignalEvent (e) called from the frame on top of "caller", at TPL t.  A
\* member of a group has its count set, and the lock released, before the
\* group is walked.
CoreSignalEvent(e, caller, t) ==
    /\ tpl' = TPL_HIGH_LEVEL
    /\ \/ /\ count[e] # 0
          /\ stack' = Append(caller, Restore(t))
          /\ UNCHANGED <<queue, pending, count>>
       \/ /\ count[e] = 0
          /\ count' = [count EXCEPT ![e] = 1]
          /\ \/ /\ Kind[e] # "signal"
                /\ stack' = Append(caller, Restore(t))
                /\ UNCHANGED <<queue, pending>>
             \/ /\ Kind[e] = "signal" /\ Group[e] = NoGroup
                /\ CoreNotifyEvent(e)
                /\ stack' = Append(caller, Restore(t))
             \/ /\ Kind[e] = "signal" /\ Group[e] # NoGroup
                /\ stack' = Append(Append(caller, F("gLock", t, e, 0)), Restore(t))
                /\ UNCHANGED <<queue, pending>>

BugSignalCheckTimers ==
    /\ count' = [count EXCEPT ![mEfiCheckTimerEvent] = @ + 1]
    /\ CoreNotifyEvent(mEfiCheckTimerEvent)

\* CoreSignalEvent (mEfiCheckTimerEvent) called at HIGH_LEVEL or HIGH_LEVEL - 1:
\* no event has a higher level, so releasing the lock dispatches nothing.
SignalCheckTimers ==
    IF count[mEfiCheckTimerEvent] = 0
    THEN /\ count' = [count EXCEPT ![mEfiCheckTimerEvent] = 1]
         /\ CoreNotifyEvent(mEfiCheckTimerEvent)
    ELSE UNCHANGED <<queue, pending, count>>

\* CoreNotifySignalList, after the grouped signaller has released the lock:
\* it acquires it again, and only then reads Event->EventGroup.
GroupLock ==
    /\ At("gLock")
    /\ tpl' = TPL_HIGH_LEVEL
    /\ stack' = Become([Top EXCEPT !.pc = "gWalk", !.val = 1])
    /\ UNCHANGED <<pending, queue, eventVars, count, timerVars, sysTime, ops>>

\* One round of the loop over gEventSignalQueue, at HIGH_LEVEL.
GroupWalk ==
    /\ At("gWalk") /\ Top.val \in 1 .. Len(signalq)
    /\ LET m == signalq[Top.val] IN
          IF Group[m] = Group[Top.ev]
          THEN CoreNotifyEvent(m)
          ELSE UNCHANGED <<queue, pending>>
    /\ stack' = Become([Top EXCEPT !.val = @ + 1])
    /\ UNCHANGED <<tpl, eventVars, count, timerVars, sysTime, ops>>

GroupRelease ==
    /\ At("gWalk") /\ Top.val > Len(signalq)
    /\ stack' = Append(Goto("gReturn"), Restore(Top.lvl))
    /\ UNCHANGED <<tpl, pending, queue, eventVars, count, timerVars, sysTime, ops>>

\* CoreSignalEvent takes the lock once more, only to release it.
GroupReturn ==
    /\ At("gReturn")
    /\ tpl' = TPL_HIGH_LEVEL
    /\ stack' = EndByRestore
    /\ UNCHANGED <<pending, queue, eventVars, count, timerVars, sysTime, ops>>

(***************************************************************************)
(* CoreRestoreTpl (NewTpl), with NewTpl = Top.lvl.                         *)
(***************************************************************************)

\* The loop condition.  Its load of gEventPending may also serve the next line.
RestoreCheck ==
    /\ At("rCheck")
    /\ stack' = IF PendingAbove(Top.lvl) = {}
                THEN Goto("rSet")
                ELSE Become([Top EXCEPT !.pc = "rPick",
                                        !.val = HighBitSet64(pending)])
    /\ UNCHANGED <<tpl, pending, queue, eventVars, count, timerVars, sysTime, ops>>

\* gEfiCurrentTpl = HighBitSet64 (gEventPending), and the call of
\* CoreDispatchEventNotifies (gEfiCurrentTpl).  Acquiring the event lock above
\* HIGH_LEVEL is an ASSERT of CoreRaiseTpl.
RestorePick ==
    /\ At("rPick")
    /\ LET p == IF ReadOnce THEN Top.val ELSE HighBitSet64(pending) IN
          /\ tpl' = p
          /\ stack' = IF p = MAX_UINTN
                      THEN Goto("ASSERT")
                      ELSE Append(Become([Top EXCEPT !.pc = "rCheck",
                                                     !.val = 0]),
                                  F("dLoop", p, NoEvent, 0))
    /\ UNCHANGED <<pending, queue, eventVars, count, timerVars, sysTime, ops>>

BugRestoreSet ==
    /\ At("rSet")
    /\ stack' = Front(stack)
    /\ UNCHANGED <<tpl, pending, queue, eventVars, count, timerVars, sysTime, ops>>

\* gEfiCurrentTpl = NewTpl, and CoreRestoreTpl returns.
RestoreSet ==
    /\ At("rSet")
    /\ tpl' = Top.lvl
    /\ stack' = Front(stack)
    /\ UNCHANGED <<pending, queue, eventVars, count, timerVars, sysTime, ops>>

(***************************************************************************)
(* CoreDispatchEventNotifies (Priority), with Priority = Top.lvl.          *)
(***************************************************************************)

BugTakeKeepsCount ==
    /\ At("dLoop") /\ queue[Top.lvl] # <<>>
    /\ LET p == Top.lvl IN
          /\ queue' = [queue EXCEPT ![p] = Tail(@)]
          /\ stack' = Append(Become([Top EXCEPT !.pc = "dNotify",
                                                !.ev = Head(queue[p])]),
                             Restore(p))
    /\ tpl' = TPL_HIGH_LEVEL
    /\ UNCHANGED <<pending, eventVars, count, timerVars, sysTime, ops>>

BugTakeWithoutRemove ==
    /\ At("dLoop") /\ queue[Top.lvl] # <<>>
    /\ LET e == Head(queue[Top.lvl]) IN
          /\ count' = IF Kind[e] = "signal" THEN [count EXCEPT ![e] = 0] ELSE count
          /\ stack' = Append(Become([Top EXCEPT !.pc = "dNotify", !.ev = e]),
                             Restore(Top.lvl))
    /\ tpl' = TPL_HIGH_LEVEL
    /\ UNCHANGED <<pending, queue, eventVars, timerVars, sysTime, ops>>

\* Under the lock: take the first event of the queue, and release.
DispatchTake ==
    /\ At("dLoop") /\ queue[Top.lvl] # <<>>
    /\ LET p == Top.lvl
           e == Head(queue[p])
       IN /\ queue' = [queue EXCEPT ![p] = Tail(@)]
          /\ count' = IF Kind[e] = "signal" THEN [count EXCEPT ![e] = 0] ELSE count
          /\ stack' = Append(Become([Top EXCEPT !.pc = "dNotify", !.ev = e]),
                             Restore(p))
    /\ tpl' = TPL_HIGH_LEVEL
    /\ UNCHANGED <<pending, eventVars, timerVars, sysTime, ops>>

\* Event->NotifyFunction (Event, Event->NotifyContext)
DispatchNotify ==
    /\ At("dNotify")
    /\ stack' = Append(Goto("dCalled"),
                       F(IF Top.ev = mEfiCheckTimerEvent THEN "ctStart" ELSE "user",
                         Top.lvl, Top.ev, Top.lvl))
    /\ UNCHANGED <<tpl, pending, queue, eventVars, count, timerVars, sysTime, ops>>

BugDoneWithoutTest ==
    /\ At("dLoop")
    /\ pending' = pending \ {Top.lvl}
    /\ tpl' = TPL_HIGH_LEVEL
    /\ stack' = EndByRestore
    /\ UNCHANGED <<queue, eventVars, count, timerVars, sysTime, ops>>

\* Under the lock: the queue is empty, clear the pending bit, and release.
DispatchDone ==
    /\ At("dLoop") /\ queue[Top.lvl] = <<>>
    /\ pending' = pending \ {Top.lvl}
    /\ tpl' = TPL_HIGH_LEVEL
    /\ stack' = EndByRestore
    /\ UNCHANGED <<queue, eventVars, count, timerVars, sysTime, ops>>

\* The notification function on top returns to CoreDispatchEventNotifies.
ReturnFromNotify ==
    stack' = ReturnTo([stack[Len(stack) - 1] EXCEPT !.pc = "dLoop", !.ev = NoEvent])

(***************************************************************************)
(* CoreSetTimer, holding mEfiTimerLock (TPL 30): the tick may come between *)
(* any two of these steps, and reads mEfiTimerList without the lock.       *)
(***************************************************************************)

Saturate(time) == IF time > MaxTime THEN MaxTime + 1 ELSE time

\* Releasing mEfiTimerLock: the frame becomes the call of CoreRestoreTpl.
TimerRemove ==
    /\ stack # <<>> /\ Top.pc \in {"TimerCancel", "TimerRelative", "TimerPeriodic"}
    /\ LET time == IF Top.pc = "TimerPeriodic" /\ Top.val = 0
                   THEN TimerPeriod ELSE Top.val
       IN /\ period' = [period EXCEPT ![Top.ev] =
                           IF Top.pc = "TimerPeriodic" THEN time ELSE 0]
          /\ stack' = IF Top.pc = "TimerCancel"
                      THEN EndByRestore
                      ELSE Become([Top EXCEPT !.pc = "stArm", !.val = time])
    /\ timers' = Unlinked(timers, Top.ev)
    /\ trigger' = [trigger EXCEPT ![Top.ev] = 0]
    /\ UNCHANGED <<tpl, pending, queue, eventVars, count, sysTime, ops>>

\* Event->Timer.TriggerTime = CoreCurrentSystemTime () + TriggerTime
TimerArm ==
    /\ At("stArm")
    /\ trigger' = [trigger EXCEPT ![Top.ev] = Saturate(sysTime + Top.val)]
    /\ stack' = Goto("stInsert")
    /\ UNCHANGED <<tpl, pending, queue, eventVars, count, timers, period,
                   sysTime, ops>>

TimerInsert ==
    /\ At("stInsert")
    /\ timers' = InsertAt(timers, TimerPlace(Top.ev), Top.ev)
    /\ IF Top.val = 0
       THEN SignalCheckTimers
       ELSE UNCHANGED <<queue, pending, count>>
    /\ stack' = EndByRestore
    /\ UNCHANGED <<tpl, eventVars, trigger, period, sysTime, ops>>

(***************************************************************************)
(* CoreCheckTimers, the notification function of mEfiCheckTimerEvent.  It  *)
(* runs at the TPL of mEfiTimerLock already, so releasing the lock returns *)
(* without dispatching.  "val" is the time it read when it started.        *)
(***************************************************************************)
CheckTimersStart ==
    /\ At("ctStart")
    /\ stack' = Become([Top EXCEPT !.pc = "ctLoop", !.val = sysTime])
    /\ UNCHANGED <<tpl, pending, queue, eventVars, count, timerVars, sysTime, ops>>

CheckTimersExpired ==
    timers # <<>> /\ trigger[Head(timers)] <= Top.val

\* Take the first timer off the list and signal it.
CheckTimersFire ==
    /\ At("ctLoop") /\ CheckTimersExpired
    /\ timers' = Tail(timers)
    /\ CoreSignalEvent(Head(timers),
                       Become([Top EXCEPT !.pc = "ctRearm",
                                          !.ev = Head(timers)]),
                       tpl)
    /\ UNCHANGED <<eventVars, trigger, period, sysTime, ops>>

\* Put a periodic timer back; one that has fallen behind restarts from now.
CheckTimersRearm ==
    /\ At("ctRearm") /\ period[Top.ev] # 0
    /\ LET next == Saturate(trigger[Top.ev] + period[Top.ev]) IN
          IF next <= Top.val
          THEN /\ trigger' = [trigger EXCEPT ![Top.ev] = Top.val]
               /\ SignalCheckTimers
          ELSE /\ trigger' = [trigger EXCEPT ![Top.ev] = next]
               /\ UNCHANGED <<queue, pending, count>>
    /\ stack' = Become([Top EXCEPT !.pc = "ctInsert"])
    /\ UNCHANGED <<tpl, eventVars, timers, period, sysTime, ops>>

CheckTimersInsert ==
    /\ At("ctInsert")
    /\ timers' = InsertAt(timers, TimerPlace(Top.ev), Top.ev)
    /\ stack' = Become([Top EXCEPT !.pc = "ctLoop",
                                   !.ev = mEfiCheckTimerEvent])
    /\ UNCHANGED <<tpl, pending, queue, eventVars, count, trigger, period,
                   sysTime, ops>>

CheckTimersOnce ==
    /\ At("ctRearm") /\ period[Top.ev] = 0
    /\ stack' = Become([Top EXCEPT !.pc = "ctLoop",
                                   !.ev = mEfiCheckTimerEvent])
    /\ UNCHANGED <<tpl, pending, queue, eventVars, count, timerVars, sysTime, ops>>

CheckTimersDone ==
    /\ At("ctLoop") /\ ~CheckTimersExpired
    /\ ReturnFromNotify
    /\ UNCHANGED <<tpl, pending, queue, eventVars, count, timerVars, sysTime, ops>>

(***************************************************************************)
(* CoreTimerTick, from the handler of the timer interrupt, which raises to *)
(* HIGH_LEVEL around it and restores the TPL it interrupted.               *)
(***************************************************************************)
CoreTimerTick ==
    /\ tpl \in TPL \ {TPL_HIGH_LEVEL} /\ Len(stack) < MaxDepth
    /\ sysTime' = IF sysTime < MaxTime THEN sysTime + 1 ELSE sysTime
    /\ IF timers # <<>> /\ trigger[Head(timers)] <= sysTime'
       THEN SignalCheckTimers
       ELSE UNCHANGED <<queue, pending, count>>
    /\ tpl' = TPL_HIGH_LEVEL
    /\ stack' = Append(stack, Restore(tpl))
    /\ UNCHANGED <<eventVars, timerVars, ops>>

(***************************************************************************)
(* CoreCloseEvent.                                                         *)
(***************************************************************************)

\* Under the event lock: take the event off the queues, and release.
CloseUnlink ==
    /\ At("clUnlink")
    /\ LET e == Top.ev IN
          /\ queue' = [queue EXCEPT ![NotifyTpl[e]] = Unlinked(@, e)]
          /\ signalq' = Unlinked(signalq, e)
    /\ tpl' = TPL_HIGH_LEVEL
    /\ stack' = Append(Goto("clFree"), Restore(Top.lvl))
    /\ UNCHANGED <<pending, state, count, timerVars, sysTime, ops>>

\* Event->Signature = 0, CoreFreePool (Event)
CloseFree ==
    /\ At("clFree")
    /\ state' = [state EXCEPT ![Top.ev] = "freed"]
    /\ stack' = Front(stack)
    /\ UNCHANGED <<tpl, pending, queue, signalq, count, timerVars, sysTime, ops>>

(***************************************************************************)
(* CoreCheckEvent, for an event that is not of signal type (one that is,   *)
(* is refused at once).  "val" of "ckReturn": 1 for EFI_SUCCESS, 0 for     *)
(* EFI_NOT_READY.                                                          *)
(***************************************************************************)

\* The call, with its first look at SignalCount, which takes no lock.
CheckCall(e, t) ==
    F(IF count[e] = 0 /\ Kind[e] = "wait" THEN "ckQueue" ELSE "ckRead", t, e, 0)

\* Under the lock: look again, and queue the wait notification.
CheckQueue ==
    /\ At("ckQueue")
    /\ IF count[Top.ev] = 0
       THEN CoreNotifyEvent(Top.ev)
       ELSE UNCHANGED <<queue, pending>>
    /\ tpl' = TPL_HIGH_LEVEL
    /\ stack' = Append(Goto("ckRead"), Restore(Top.lvl))
    /\ UNCHANGED <<eventVars, count, timerVars, sysTime, ops>>

\* "If the event looks signalled": again without the lock.
CheckRead ==
    /\ At("ckRead")
    /\ stack' = Goto(IF count[Top.ev] # 0 THEN "ckClear" ELSE "ckReturn")
    /\ UNCHANGED <<tpl, pending, queue, eventVars, count, timerVars, sysTime, ops>>

\* Under the lock: the answer is EFI_SUCCESS if it still is signalled.
CheckClear ==
    /\ At("ckClear")
    /\ count' = [count EXCEPT ![Top.ev] = 0]
    /\ tpl' = TPL_HIGH_LEVEL
    /\ stack' = Append(Become([Top EXCEPT !.pc = "ckReturn",
                                          !.val = IF count[Top.ev] # 0 THEN 1 ELSE 0]),
                       Restore(Top.lvl))
    /\ UNCHANGED <<pending, queue, eventVars, timerVars, sysTime, ops>>

(***************************************************************************)
(* CoreWaitForEvent (UserEvents): "val" is the index of the event to check *)
(* next.  After a round without a signalled event the idle event is        *)
(* signalled, and the round starts again.                                  *)
(***************************************************************************)
WaitCheck ==
    /\ At("wtNext") /\ Top.val <= Len(UserEvents)
    /\ stack' = Append(stack, CheckCall(UserEvents[Top.val], tpl))
    /\ UNCHANGED <<tpl, pending, queue, eventVars, count, timerVars, sysTime, ops>>

BugWaitIdle ==
    /\ At("wtNext") /\ Top.val > Len(UserEvents)
    /\ CoreSignalEvent(gIdleLoopEvent, Become([Top EXCEPT !.val = 2]), tpl)
    /\ UNCHANGED <<eventVars, timerVars, sysTime, ops>>

WaitIdle ==
    /\ At("wtNext") /\ Top.val > Len(UserEvents)
    /\ CoreSignalEvent(gIdleLoopEvent, Become([Top EXCEPT !.val = 1]), tpl)
    /\ UNCHANGED <<eventVars, timerVars, sysTime, ops>>

\* CoreCheckEvent returns, to client code or to CoreWaitForEvent, which
\* returns as well when the event was signalled.
CheckReturn ==
    /\ At("ckReturn")
    /\ LET caller == stack[Len(stack) - 1] IN
          stack' = IF caller.pc # "wtNext" THEN Front(stack)
                   ELSE IF Top.val = 1     THEN Front(Front(stack))
                   ELSE ReturnTo([caller EXCEPT !.val = @ + 1])
    /\ UNCHANGED <<tpl, pending, queue, eventVars, count, timerVars, sysTime, ops>>

(***************************************************************************)
(* Client code: the boot flow at the bottom of the stack, and notification *)
(* functions.  It keeps to a contract that the core does not check: it     *)
(* uses events that exist and are not being closed (RearmWhileClosing lets *)
(* an event's own callback set its timer, not knowing); it takes timer     *)
(* locks below HIGH_LEVEL - 1; it closes no event that a call in progress  *)
(* is about (InCall), which CoreSignalEvent would go on to read            *)
(* (Event.c:564), and none whose notification its own TPL may have         *)
(* preempted between DispatchTake and DispatchNotify (Event.c:194).        *)
(* "val" of client code is the TPL it started at, before any RaiseTPL.     *)
(***************************************************************************)
Client(e) == e \notin {mEfiCheckTimerEvent, gIdleLoopEvent}

Closing(e) == \E i \in 1 .. Len(stack) : stack[i].pc \in ClosePC /\ stack[i].ev = e

\* Calls in progress that will use the event structure again.
InCall(e) ==
    \E i \in 1 .. Len(stack) :
        \/ /\ stack[i].pc \in SetTimerPC \cup CheckPC \cup ClosePC \cup {"gLock"}
           /\ stack[i].ev = e
        \/ stack[i].pc = "wtNext" /\ Contains(UserEvents, e)

Usable(e) == Client(e) /\ state[e] = "open" /\ ~Closing(e)

Running ==
    /\ stack # <<>> /\ Top.pc \in UserPC /\ Top.ev # gIdleLoopEvent
    /\ ops < MaxOps /\ Len(stack) < MaxDepth
    /\ ops' = ops + 1

UserCreateEvent(e) ==
    /\ Running /\ Client(e) /\ state[e] = "none"
    /\ state' = [state EXCEPT ![e] = "open"]
    /\ signalq' = IF Kind[e] = "signal" THEN <<e>> \o signalq ELSE signalq
    /\ tpl' = TPL_HIGH_LEVEL
    /\ stack' = Append(stack, Restore(tpl))
    /\ UNCHANGED <<pending, queue, count, timerVars, sysTime>>

UserSignalEvent(e) ==
    /\ Running /\ Usable(e)
    /\ CoreSignalEvent(e, stack, tpl)
    /\ UNCHANGED <<eventVars, timerVars, sysTime>>

UserSetTimer(e, Type, TriggerTime) ==
    /\ Running /\ IsTimer[e] /\ tpl < TimerLockTpl
    /\ \/ Usable(e)
       \/ RearmWhileClosing /\ Top.ev = e /\ Closing(e)
    /\ Type = "TimerCancel" => TriggerTime = 0
    /\ tpl' = TimerLockTpl
    /\ stack' = Append(stack, F(Type, tpl, e, TriggerTime))
    /\ UNCHANGED <<pending, queue, eventVars, count, timerVars, sysTime>>

UserCheckEvent(e) ==
    /\ Running /\ Usable(e) /\ Kind[e] # "signal"
    /\ stack' = Append(stack, CheckCall(e, tpl))
    /\ UNCHANGED <<tpl, pending, queue, eventVars, count, timerVars, sysTime>>

UserWaitForEvent ==
    /\ Running /\ tpl = TPL_APPLICATION /\ UserEvents # <<>>
    /\ \A i \in 1 .. Len(UserEvents) :
          Usable(UserEvents[i]) /\ Kind[UserEvents[i]] # "signal"
    /\ stack' = Append(stack, F("wtNext", tpl, NoEvent, 1))
    /\ UNCHANGED <<tpl, pending, queue, eventVars, count, timerVars, sysTime>>

BugUserCloseEvent(e) ==
    /\ Running /\ Usable(e) /\ ~InCall(e)
    /\ tpl < TimerLockTpl
    /\ Kind[e] # "none" => Top.val <= NotifyTpl[e]
    /\ stack' = Append(stack, F("clUnlink", tpl, e, 0))
    /\ UNCHANGED <<tpl, pending, queue, eventVars, count, timerVars, sysTime>>

\* A timer is cancelled first.  CoreCloseEvent has none of the three guards on
\* calls in progress, TPL and the level of the notification: see the contract.
UserCloseEvent(e) ==
    /\ Running /\ Usable(e) /\ ~InCall(e)
    /\ tpl < TimerLockTpl
    /\ Kind[e] # "none" => Top.val <= NotifyTpl[e]
    /\ LET call == Append(stack, F("clUnlink", tpl, e, 0)) IN
          IF IsTimer[e]
          THEN /\ stack' = Append(call, F("TimerCancel", tpl, e, 0))
               /\ tpl' = TimerLockTpl
          ELSE stack' = call /\ UNCHANGED tpl
    /\ UNCHANGED <<pending, queue, eventVars, count, timerVars, sysTime>>

UserRaiseTpl(NewTpl) ==
    /\ Running /\ NewTpl > tpl
    /\ tpl' = NewTpl
    /\ stack' = Append(stack, F("raised", NewTpl, Top.ev, Top.val))
    /\ UNCHANGED <<pending, queue, eventVars, count, timerVars, sysTime>>

UserRestoreTpl ==
    /\ At("raised")
    /\ stack' = Become(Restore(stack[Len(stack) - 1].lvl))
    /\ UNCHANGED <<tpl, pending, queue, eventVars, count, timerVars, sysTime, ops>>

NotifyReturn ==
    /\ At("user") /\ Top.ev # NoEvent
    /\ ReturnFromNotify
    /\ UNCHANGED <<tpl, pending, queue, eventVars, count, timerVars, sysTime, ops>>

(***************************************************************************)
(* The specification.  The boot flow runs at TPL_APPLICATION.              *)
(***************************************************************************)
Init ==
    /\ tpl = TPL_APPLICATION
    /\ pending = {}
    /\ queue = [p \in TPL |-> <<>>]
    /\ signalq = InitialSignalQueue
    /\ state = [e \in Event |-> IF e \in InitialEvents THEN "open" ELSE "none"]
    /\ count = [e \in Event |-> 0]
    /\ timers = <<>>
    /\ trigger = [e \in Event |-> 0]
    /\ period = [e \in Event |-> 0]
    /\ sysTime = 0
    /\ stack = <<F("user", TPL_APPLICATION, NoEvent, TPL_APPLICATION)>>
    /\ ops = 0

ClientCall ==
    \/ \E e \in Event :
          \/ UserCreateEvent(e)
          \/ UserSignalEvent(e)
          \/ UserCheckEvent(e)
          \/ UserCloseEvent(e)
          \/ \E Type \in {"TimerCancel", "TimerRelative", "TimerPeriodic"},
                TriggerTime \in TriggerTimes : UserSetTimer(e, Type, TriggerTime)
    \/ UserWaitForEvent
    \/ \E NewTpl \in RaiseLevels : UserRaiseTpl(NewTpl)

\* Code that is under way goes on.
Continue ==
    \/ GroupLock \/ GroupWalk \/ GroupRelease \/ GroupReturn
    \/ RestoreCheck \/ RestorePick \/ RestoreSet
    \/ DispatchTake \/ DispatchNotify \/ DispatchDone
    \/ TimerRemove \/ TimerArm \/ TimerInsert
    \/ CheckTimersStart \/ CheckTimersFire \/ CheckTimersRearm
    \/ CheckTimersInsert \/ CheckTimersOnce \/ CheckTimersDone
    \/ CloseUnlink \/ CloseFree
    \/ CheckQueue \/ CheckRead \/ CheckClear \/ CheckReturn
    \/ WaitCheck \/ WaitIdle
    \/ UserRestoreTpl \/ NotifyReturn

Next == ClientCall \/ Continue \/ CoreTimerTick

Spec == Init /\ [][Next]_vars

(***************************************************************************)
(* Properties.                                                             *)
(***************************************************************************)

\* Type correctness: lists hold events, frames are frames, TPL is a level or
\* the value HighBitSet64 (0) leaves in it.
TypeOK ==
    /\ tpl \in TPL \cup {MAX_UINTN}
    /\ pending \subseteq TPL
    /\ queue \in [TPL -> Seq(Event)]
    /\ signalq \in Seq(Event)
    /\ state \in [Event -> {"none", "open", "freed"}]
    /\ count \in [Event -> 0 .. 1]
    /\ timers \in Seq(Event)
    /\ trigger \in [Event -> Nat]
    /\ period \in [Event -> Nat]
    /\ sysTime \in Nat
    /\ stack \in Seq(Frame) /\ stack # <<>>
    /\ ops \in Nat

\* A level with a queued notification has its bit set in gEventPending, so
\* that CoreRestoreTpl finds it; the bit is cleared only under the lock and
\* with the queue empty (Event.c, CoreDispatchEventNotifies).
QueuedIsPending ==
    \A p \in TPL : queue[p] # <<>> => p \in pending

\* No signal is lost: a signal-type event whose SignalCount is set, and which
\* CloseEvent has not unlinked, is queued, or its signaller is about to walk
\* its group.  A later signal is then rightly ignored (Event.c:551).
SignalNotLost ==
    \A i \in 1 .. Len(signalq) :
        LET e == signalq[i] IN
        count[e] = 1 =>
            \/ Contains(queue[NotifyTpl[e]], e)
            \/ \E j \in 1 .. Len(stack) :
                  \/ stack[j].pc = "gLock" /\ stack[j].ev = e
                  \/ stack[j].pc = "gWalk" /\ stack[j].ev = e /\ stack[j].val <= i

Dispatches == {i \in 1 .. Len(stack) : stack[i].pc \in DispatchPC}

\* Notifications nest strictly upwards in TPL: no notification function is
\* entered while one of its own TPL, or of a higher one, is in progress, even
\* though the tick can interrupt CoreRestoreTpl anywhere below HIGH_LEVEL.
NotificationsNestUpwards ==
    \A i, j \in Dispatches : i < j => stack[i].lvl < stack[j].lvl

\* Code goes on at the TPL it had: an interrupt or a call that comes back
\* has restored TPL, and CoreRestoreTpl never raises it (its ASSERT, and
\* those of CoreRaiseTpl and CoreDispatchEventNotifies).
TplIsRestored ==
    /\ Top.pc \in UserPC \cup DispatchPC \cup {"gLock", "gReturn", "clUnlink",
            "clFree", "ckQueue", "ckRead", "ckClear", "ckReturn", "wtNext"}
         => tpl = Top.lvl
    /\ Top.pc \in RestorePC => tpl >= Top.lvl
    /\ Top.pc \in SetTimerPC \cup TimersPC => tpl = TimerLockTpl
    /\ Top.pc # "ASSERT"

TimerLockHolders ==
    {i \in 1 .. Len(stack) :
        stack[i].pc \in SetTimerPC \cup {"ctLoop", "ctRearm", "ctInsert"}}

\* mEfiTimerLock is never acquired while it is held (the ASSERT of
\* CoreAcquireLock, Library.c:71): timer checks wait for CoreSetTimer.
TimerLockNotReentered == Cardinality(TimerLockHolders) <= 1

\* mEfiTimerList is in ascending order of trigger time, which is why the tick
\* and CoreCheckTimers may look at its head alone, and holds a timer once.
TimersSorted ==
    /\ \A i, j \in 1 .. Len(timers) :
          i < j => trigger[timers[i]] <= trigger[timers[j]]
    /\ IsInjective(timers)

\* A freed event structure is on no list of the core.
FreedIsUnlinked ==
    \A e \in Event : state[e] # "open" => ~Linked(e)

\* CoreRestoreTpl returns with every pending event above the new TPL
\* dispatched: "If the new priority unmasks events at a higher priority, they
\* are dispatched" (Tpl.c:93).
RestoreLeavesNothingUnmasked ==
    [][RestoreSet => PendingAbove(Top.lvl) = {}]_vars

(***************************************************************************)
(* The event core implements the notification scheduler: what is queued is *)
(* owed, in this order, and a dispatch frame that has taken an event is    *)
(* running it.                                                             *)
(***************************************************************************)
RunningAt == [p \in TPL |->
    IF \E i \in Dispatches : stack[i].lvl = p /\ stack[i].ev # NoEvent
    THEN stack[CHOOSE i \in Dispatches : stack[i].lvl = p
                                            /\ stack[i].ev # NoEvent].ev
    ELSE NoEvent]

Scheduler == INSTANCE NotifyScheduler WITH
                Level <- TPL, owed <- queue, running <- RunningAt

ImplementsScheduler == Scheduler!SchedulerSpec

(***************************************************************************)
(* Liveness.  Code under way goes on; where ticks can interrupt it, it     *)
(* goes on whenever it is on top again (strong fairness for each depth at  *)
(* which CoreTimerTick is enabled: the handler is shorter than the timer   *)
(* period, so the code it interrupts advances between ticks).  The         *)
(* interrupt line stays asserted until the tick is taken, so a tick that   *)
(* is enabled again and again is taken.  Client code calls nothing it has  *)
(* to, but a notification function returns.                                *)
(***************************************************************************)
Fairness ==
    /\ WF_vars(Continue)
    /\ \A d \in 2 .. MaxDepth - 1 : SF_vars(Continue /\ Len(stack) = d)
    /\ SF_vars(CoreTimerTick)

FairSpec == Spec /\ Fairness

\* Every queued notification is dispatched or cancelled, also one that was
\* left pending by a CoreRestoreTpl that had already looked.
QueuedIsDispatched ==
    \A e \in Event : Contains(queue[NotifyTpl[e]], e)
                        ~> ~Contains(queue[NotifyTpl[e]], e)

\* A timer due within the modelled time does not stay on the list unfired.
TimerFires ==
    \A e \in Event :
        (Contains(timers, e) /\ trigger[e] <= MaxTime)
            ~> (~Contains(timers, e) \/ trigger[e] > MaxTime)

\* CoreWaitForEvent returns once one of its events stays signalled.
WaitReturns ==
    \A i \in 1 .. Len(UserEvents) :
        (count[UserEvents[i]] = 1 /\ \E j \in 1 .. Len(stack) : stack[j].pc = "wtNext")
            ~> (~\E j \in 1 .. Len(stack) : stack[j].pc = "wtNext")
=============================================================================
