-------------------------- MODULE NotifyScheduler --------------------------
(***************************************************************************)
(* What the event services of the DXE core promise about notification      *)
(* functions, without locks, interrupts, pending bits or a stack.  At each *)
(* level a line of events waits for notification: a signal puts its event  *)
(* at the end of the line of its level, once however often it is           *)
(* signalled; only the first of a line is notified, and leaves it, while   *)
(* no notification of that TPL or a higher one is running; a notification  *)
(* ends when it is the one running at the highest TPL; closing an event    *)
(* takes it out of the line.  Which of two lines is served first is not    *)
(* promised: an interrupt may leave a higher one waiting.                  *)
(***************************************************************************)
EXTENDS Integers, Sequences, SequencesExt

CONSTANTS Event, NoEvent, Level, NotifyTpl

VARIABLES
    owed,      \* owed[p]: the events with a notification at level p to come, in order
    running    \* running[p]: the event whose notification runs at level p

schedulerVars == <<owed, running>>

SchedulerInit ==
    /\ owed = [p \in Level |-> <<>>]
    /\ running = [p \in Level |-> NoEvent]

Quiet(levels) == \A p \in levels : running[p] = NoEvent

\* A line without e, which stands in it at most once.
Without(line, e) ==
    IF Contains(line, e)
    THEN RemoveAt(line, CHOOSE i \in 1 .. Len(line) : line[i] = e)
    ELSE line

Signal(e) ==
    /\ owed' = [owed EXCEPT ![NotifyTpl[e]] = Append(Without(@, e), e)]
    /\ UNCHANGED running

Start(e) ==
    /\ owed[NotifyTpl[e]] # <<>> /\ Head(owed[NotifyTpl[e]]) = e
    /\ Quiet({p \in Level : p >= NotifyTpl[e]})
    /\ owed' = [owed EXCEPT ![NotifyTpl[e]] = Tail(@)]
    /\ running' = [running EXCEPT ![NotifyTpl[e]] = e]

End(p) ==
    /\ running[p] # NoEvent
    /\ Quiet({q \in Level : q > p})
    /\ running' = [running EXCEPT ![p] = NoEvent]
    /\ UNCHANGED owed

Cancel(e) ==
    /\ owed' = [owed EXCEPT ![NotifyTpl[e]] = Without(@, e)]
    /\ UNCHANGED running

SchedulerNext ==
    \/ \E e \in Event : Signal(e) \/ Start(e) \/ Cancel(e)
    \/ \E p \in Level : End(p)

SchedulerSpec == SchedulerInit /\ [][SchedulerNext]_schedulerVars
=============================================================================
