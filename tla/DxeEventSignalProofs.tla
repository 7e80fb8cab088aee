------------------------ MODULE DxeEventSignalProofs ------------------------
(***************************************************************************)
(* Proofs about the signals, the timers and the life of the events of      *)
(* DxeEvent, on top of the nesting of activations (DxeEventProofs).        *)
(***************************************************************************)
EXTENDS DxeEventProofs

(***************************************************************************)
(* Signals.                                                                *)
(***************************************************************************)

Listed(x) == Contains(signalq, x)

\* The signaller of x is about to walk its group, or walks it and has yet to
\* come to x.
Marching(x) == \E j \in 1 .. Len(stack) : stack[j].pc = "gLock" /\ stack[j].ev = x

Passing(x) ==
    /\ Top.pc = "gWalk" /\ Top.ev = x
    /\ \E i \in 1 .. Len(signalq) : Top.val <= i /\ signalq[i] = x

SignalsMade ==
    /\ IsInjective(signalq)
    /\ \A x \in Event : Listed(x) => Kind[x] = "signal" /\ Made(x)
    /\ \A x \in Event : count[x] # 0 => Made(x)
    /\ Made(mEfiCheckTimerEvent) /\ Made(gIdleLoopEvent)

SignalsKept ==
    \A x \in Event : Listed(x) /\ count[x] = 1 => Queued(x) \/ Marching(x) \/ Passing(x)

\* How a step keeps them: what is signalled afterwards was so before, or is
\* queued, or its signaller is about to walk its group.
KeptBy ==
    \A x \in Event : Listed(x)' /\ count'[x] = 1 =>
        \/ Listed(x) /\ count[x] = 1 /\ (Queued(x) => Queued(x)')
        \/ Queued(x)'
        \/ Marching(x)'

\* Nothing is listed by taking nodes off, and one only by putting it in.
LEMMA UnlinkedWithin ==
    ASSUME NEW S, NEW s \in Seq(S), NEW e
    PROVE  \A x : Contains(Unlinked(s, e), x) => Contains(s, x)
  <1>1. CASE ~Contains(s, e)
    BY <1>1 DEF Unlinked
  <1>2. CASE Contains(s, e)
    <2>1. PICK k \in 1 .. Len(s) : Unlinked(s, e) = RemoveAt(s, k)
      BY <1>2 DEF Contains, Unlinked
    <2>2. PICK r : r = RemoveAt(s, k)
      OBVIOUS
    <2>3. PICK n \in Nat : n = Len(s)
      BY LenProperties
    <2>4. /\ r \in Seq(S) /\ Len(r) = n - 1
          /\ \A j \in 1 .. n - 1 : r[j] = IF j < k THEN s[j] ELSE s[j + 1]
      BY <2>2, <2>3, RemoveAtElements
    <2>5. ASSUME NEW x, Contains(r, x)
          PROVE  Contains(s, x)
      <3>1. PICK i \in 1 .. n - 1 : r[i] = x
        BY <2>4, <2>5, ListOnce
      <3>2. PICK a \in 1 .. n : a = IF i < k THEN i ELSE i + 1
        BY <2>3
      <3>3. s[a] = x
        BY <2>4, <3>1, <3>2
      <3> QED
        BY <2>3, <3>3, ListOnce
    <2> QED
      BY <2>1, <2>2, <2>5
  <1> QED
    BY <1>1, <1>2

LEMMA InsertWithin ==
    ASSUME NEW S, NEW s \in Seq(S), NEW e \in S, NEW k \in 1 .. Len(s) + 1
    PROVE  \A x : Contains(InsertAt(s, k, e), x) => Contains(s, x) \/ x = e
  <1>1. PICK r : r = InsertAt(s, k, e)
    OBVIOUS
  <1>2. PICK n \in Nat : n = Len(s)
    BY LenProperties
  <1>3. /\ r \in Seq(S) /\ Len(r) = n + 1
        /\ \A j \in 1 .. n + 1 :
              r[j] = IF j < k THEN s[j] ELSE IF j = k THEN e ELSE s[j - 1]
    <2>1. r \in Seq(S) /\ Inserted(r, s, k, e)
      BY <1>1, InsertAtElements
    <2> QED
      BY <1>2, <2>1 DEF Inserted
  <1>4. ASSUME NEW x, Contains(r, x), x # e
        PROVE  Contains(s, x)
    <2>1. PICK i \in 1 .. n + 1 : r[i] = x
      BY <1>3, <1>4, ListOnce
    <2>2. i # k
      BY <1>3, <1>4, <2>1
    <2>3. PICK a \in 1 .. n : a = IF i < k THEN i ELSE i - 1
      BY <1>2, <2>2
    <2>4. s[a] = x
      BY <1>3, <2>1, <2>2, <2>3
    <2> QED
      BY <1>2, <2>4, ListOnce
  <1> QED
    BY <1>1, <1>4

LEMMA TailWithin ==
    ASSUME NEW S, NEW s \in Seq(S), s # <<>>
    PROVE  \A x : Contains(Tail(s), x) => Contains(s, x)
  <1>1. PICK r : r = Tail(s)
    OBVIOUS
  <1>2. PICK n \in Nat : n = Len(s) /\ n >= 1
    BY EmptySeq, LenProperties
  <1>3. r \in Seq(S) /\ Len(r) = n - 1 /\ \A j \in 1 .. n - 1 : r[j] = s[j + 1]
    BY <1>1, <1>2, HeadTailProperties
  <1>4. ASSUME NEW x, Contains(r, x)
        PROVE  Contains(s, x)
    <2>1. PICK i \in 1 .. n - 1 : r[i] = x
      BY <1>3, <1>4, ListOnce
    <2>2. PICK a \in 1 .. n : a = i + 1
      BY <1>2
    <2>3. s[a] = x
      BY <1>3, <2>1, <2>2
    <2> QED
      BY <1>2, <2>3, ListOnce
  <1> QED
    BY <1>1, <1>4

\* A node put before the others.
LEMMA PrependHolds ==
    ASSUME NEW S, NEW s \in Seq(S), IsInjective(s), NEW e \in S, ~Contains(s, e)
    PROVE  /\ <<e>> \o s \in Seq(S)
           /\ IsInjective(<<e>> \o s)
           /\ \A x : Contains(<<e>> \o s, x) => Contains(s, x) \/ x = e
  <1>1. PICK r : r = <<e>> \o s
    OBVIOUS
  <1>2. PICK n \in Nat : n = Len(s)
    BY LenProperties
  <1>3. <<e>> \in Seq(S) /\ Len(<<e>>) = 1 /\ <<e>>[1] = e
    OBVIOUS
  <1>4. /\ r \in Seq(S) /\ Len(r) = 1 + n
        /\ \A i \in 1 .. 1 + n : r[i] = IF i <= 1 THEN e ELSE s[i - 1]
    <2>1. /\ r \in Seq(S) /\ Len(r) = Len(<<e>>) + Len(s)
          /\ \A i \in 1 .. Len(<<e>>) + Len(s) :
                r[i] = IF i <= Len(<<e>>) THEN <<e>>[i] ELSE s[i - Len(<<e>>)]
      BY <1>1, <1>3, ConcatProperties
    <2>2. \A i \in 1 .. 1 + n : i <= 1 => <<e>>[i] = e
      BY <1>3
    <2> QED
      BY <1>2, <1>3, <2>1, <2>2
  <1>5. \A i, j \in 1 .. n : s[i] = s[j] => i = j
    BY <1>2, ListOnce
  <1>6. \A i \in 1 .. n : s[i] # e
    BY <1>2, ListOnce
  <1>7. \A i \in 1 .. 1 + n : i = 1 \/ (i - 1 \in 1 .. n /\ ~(i <= 1))
    BY <1>2
  <1>8. \A i, j \in 1 .. 1 + n : r[i] = r[j] => i = j
    <2> SUFFICES ASSUME NEW i \in 1 .. 1 + n, NEW j \in 1 .. 1 + n, r[i] = r[j]
                 PROVE  i = j
      OBVIOUS
    <2>1. CASE i = 1 \/ j = 1
      BY <1>4, <1>6, <1>7, <2>1
    <2>2. CASE i # 1 /\ j # 1
      <3>1. PICK a \in 1 .. n, b \in 1 .. n : a = i - 1 /\ b = j - 1
        BY <1>7, <2>2
      <3>2. s[a] = s[b]
        BY <1>4, <1>7, <2>2, <3>1
      <3> QED
        BY <1>5, <3>1, <3>2
    <2> QED
      BY <2>1, <2>2
  <1>9. ASSUME NEW x, Contains(r, x)
        PROVE  Contains(s, x) \/ x = e
    <2>1. PICK i \in 1 .. 1 + n : r[i] = x
      BY <1>4, <1>9, ListOnce
    <2>2. CASE i = 1
      BY <1>4, <2>1, <2>2
    <2>3. CASE i # 1
      <3>1. PICK a \in 1 .. n : a = i - 1
        BY <1>7, <2>3
      <3>2. s[a] = x
        BY <1>4, <1>7, <2>1, <2>3, <3>1
      <3> QED
        BY <1>2, <3>2, ListOnce
    <2> QED
      BY <2>2, <2>3
  <1> QED
    BY <1>1, <1>4, <1>8, <1>9, ListOnce

(***************************************************************************)
(* What the steps do to SignalCount and to gEventSignalQueue.              *)
(***************************************************************************)

\* No event is unlisted, and one is signalled only if it is queued or about
\* to march.
LEMMA SignalsFrom ==
    ASSUME SignalsMade, \A x \in Event : Made(x) => Made(x)',
           signalq' = signalq,
           \A x \in Event : count'[x] # 0 => count[x] # 0 \/ Made(x),
           \A x \in Event : Queued(x) => Queued(x)',
           \A x \in Event : count'[x] = 1 =>
               count[x] = 1 \/ (Kind[x] = "signal" => Queued(x)' \/ Marching(x)')
    PROVE  SignalsMade' /\ KeptBy
  <1>1. mEfiCheckTimerEvent \in Event /\ gIdleLoopEvent \in Event
    BY EventAssumption
  <1>2. \A x : Listed(x)' <=> Listed(x)
    BY DEF Listed
  <1>3. SignalsMade'
    BY <1>1, <1>2 DEF SignalsMade
  <1>4. KeptBy
    BY <1>2 DEF SignalsMade, KeptBy
  <1> QED
    BY <1>3, <1>4

LEMMA SignalEventData ==
    ASSUME IInv, QueuesHold, NEW e \in Event, NEW c, NEW t, CoreSignalEvent(e, c, t),
           \A g, h : stack' = Append(Append(c, g), h)
                        => \E j \in 1 .. Len(stack') : stack'[j] = g
    PROVE  /\ \A x \in Event : count'[x] # 0 => count[x] # 0 \/ x = e
           /\ \A x \in Event : Queued(x) => Queued(x)'
           /\ \A x \in Event : count'[x] = 1 =>
                 count[x] = 1 \/ (Kind[x] = "signal" => Queued(x)' \/ Marching(x)')
  <1>1. QueuesOK /\ count \in [Event -> 0 .. 1]
    BY DEF IInv, DataOK
  <1>2. CASE count' = count /\ queue' = queue
    BY <1>2 DEF Queued
  <1>3. ASSUME count' = [count EXCEPT ![e] = 1]
        PROVE  \A x \in Event : x # e => count'[x] = count[x]
    BY <1>1, <1>3
  <1>4. CASE count' = [count EXCEPT ![e] = 1] /\ Kind[e] # "signal" /\ queue' = queue
    BY <1>3, <1>4 DEF Queued
  <1>5. CASE count' = [count EXCEPT ![e] = 1] /\ CoreNotifyEvent(e)
    <2>1. \A x \in Event : Queued(x)' <=> Queued(x) \/ x = e
      BY <1>1, <1>5, NotifyHolds
    <2> QED
      BY <1>3, <1>5, <2>1
  <1>6. CASE /\ count' = [count EXCEPT ![e] = 1] /\ queue' = queue
             /\ stack' = Append(Append(c, F("gLock", t, e, 0)), Restore(t))
    <2>1. PICK j \in 1 .. Len(stack') : stack'[j] = F("gLock", t, e, 0)
      BY <1>6
    <2>2. Marching(e)'
      BY <2>1, FrameFields DEF Marching
    <2>3. \A x \in Event : Queued(x) => Queued(x)'
      BY <1>6 DEF Queued
    <2> QED
      BY <1>3, <1>6, <2>2, <2>3
  <1> QED
    BY <1>2, <1>4, <1>5, <1>6 DEF CoreSignalEvent

LEMMA SignalCheckData ==
    ASSUME IInv, QueuesHold, SignalCheckTimers \/ UNCHANGED <<queue, pending, count>>
    PROVE  /\ \A x \in Event : count'[x] # 0 => count[x] # 0 \/ x = mEfiCheckTimerEvent
           /\ \A x \in Event : Queued(x) => Queued(x)'
           /\ \A x \in Event : count'[x] = 1 => count[x] = 1 \/ Queued(x)'
  <1>1. QueuesOK /\ count \in [Event -> 0 .. 1] /\ mEfiCheckTimerEvent \in Event
    BY EventAssumption DEF IInv, DataOK
  <1>2. CASE UNCHANGED <<queue, pending, count>>
    BY <1>2 DEF Queued
  <1>3. CASE /\ count' = [count EXCEPT ![mEfiCheckTimerEvent] = 1]
             /\ CoreNotifyEvent(mEfiCheckTimerEvent)
    <2>1. \A x \in Event : Queued(x)' <=> Queued(x) \/ x = mEfiCheckTimerEvent
      BY <1>1, <1>3, NotifyHolds
    <2>2. \A x \in Event : x # mEfiCheckTimerEvent => count'[x] = count[x]
      BY <1>1, <1>3
    <2> QED
      BY <2>1, <2>2
  <1> QED
    BY <1>2, <1>3 DEF SignalCheckTimers

\* The first event on the timer list exists.
LEMMA FirstTimer ==
    ASSUME IInv, timers # <<>>
    PROVE  Head(timers) \in Event /\ Contains(timers, Head(timers))
  <1>1. timers \in Seq(Event)
    BY DEF IInv, DataOK
  <1>2. 1 \in 1 .. Len(timers) /\ timers[1] = Head(timers)
    BY <1>1, EmptySeq, LenProperties, HeadTailProperties
  <1> QED
    BY <1>1, <1>2, ListOnce, ElementOfSeq

\* The events that are signalled by a call of CoreSignalEvent.
LEMMA SignalSteps ==
    ASSUME IInv, QueuesHold, SignalsMade, MadeTimers, \A x \in Event : Made(x) => Made(x)',
           \/ \E e \in Event : UserSignalEvent(e)
           \/ WaitIdle \/ CheckTimersFire
           \/ TimerInsert \/ CheckTimersRearm \/ CoreTimerTick
    PROVE  SignalsMade' /\ KeptBy
  <1>1. mEfiCheckTimerEvent \in Event /\ gIdleLoopEvent \in Event
    BY EventAssumption
  <1>2. PICK n \in Nat : n = Len(stack)
    BY StackLen
  <1>3. \A g, h : stack' = Append(Append(stack, g), h)
                    => \E j \in 1 .. Len(stack') : stack'[j] = g
    <2> SUFFICES ASSUME NEW g, NEW h, stack' = Append(Append(stack, g), h)
                 PROVE  \E j \in 1 .. Len(stack') : stack'[j] = g
      OBVIOUS
    <2>1. Keeps(n, n + 2) /\ stack'[n + 1] = g
      BY <1>2, PushTwoKeeps
    <2>2. Len(stack') = n + 2 /\ n + 1 \in 1 .. n + 2
      BY <2>1 DEF Keeps
    <2> QED
      BY <2>1, <2>2
  <1>4. \A f, g, h : stack' = Append(Append(Become(f), g), h)
                    => \E j \in 1 .. Len(stack') : stack'[j] = g
    <2> SUFFICES ASSUME NEW f, NEW g, NEW h, stack' = Append(Append(Become(f), g), h)
                 PROVE  \E j \in 1 .. Len(stack') : stack'[j] = g
      OBVIOUS
    <2>1. Keeps(n - 1, n + 2) /\ stack'[n + 1] = g
      BY <1>2, BecomePushTwoKeeps
    <2>2. Len(stack') = n + 2 /\ n + 1 \in 1 .. n + 2
      BY <2>1 DEF Keeps
    <2> QED
      BY <2>1, <2>2
  <1>5. CASE \E e \in Event : UserSignalEvent(e)
    <2>1. PICK e \in Event : UserSignalEvent(e)
      BY <1>5
    <2>2. Made(e) /\ CoreSignalEvent(e, stack, tpl) /\ signalq' = signalq
      BY <2>1 DEF UserSignalEvent, Usable, Made, eventVars
    <2> QED
      BY <1>3, <2>2, SignalEventData, SignalsFrom
  <1>6. CASE WaitIdle
    <2>1. PICK f : CoreSignalEvent(gIdleLoopEvent, Become(f), tpl) /\ signalq' = signalq
      BY <1>6 DEF WaitIdle, eventVars
    <2>2. Made(gIdleLoopEvent)
      BY DEF SignalsMade
    <2> QED
      BY <1>1, <1>4, <2>1, <2>2, SignalEventData, SignalsFrom
  <1>7. CASE CheckTimersFire
    <2>1. PICK e : e = Head(timers)
      OBVIOUS
    <2>2. PICK f : CoreSignalEvent(e, Become(f), tpl) /\ signalq' = signalq
      BY <1>7, <2>1 DEF CheckTimersFire, eventVars
    <2>3. e \in Event /\ Made(e)
      BY <1>7, <2>1, FirstTimer DEF CheckTimersFire, CheckTimersExpired, MadeTimers
    <2> QED
      BY <1>4, <2>2, <2>3, SignalEventData, SignalsFrom
  <1>8. CASE TimerInsert \/ CheckTimersRearm \/ CoreTimerTick
    <2>1. /\ SignalCheckTimers \/ UNCHANGED <<queue, pending, count>>
          /\ signalq' = signalq
      BY <1>8 DEF TimerInsert, CheckTimersRearm, CoreTimerTick, eventVars
    <2>2. Made(mEfiCheckTimerEvent)
      BY DEF SignalsMade
    <2> QED
      BY <1>1, <2>1, <2>2, SignalCheckData, SignalsFrom
  <1> QED
    BY <1>5, <1>6, <1>7, <1>8


\* Taking the first notification of a level: its event is not signalled then.
LEMMA TakeSignals ==
    ASSUME IInv, QueuesHold, SignalsMade, \A x \in Event : Made(x) => Made(x)', DispatchTake
    PROVE  SignalsMade' /\ KeptBy
  <1>1. PICK e : e = Head(queue[Top.lvl])
    OBVIOUS
  <1>2. e \in Event /\ \A x \in Event : Queued(x)' <=> Queued(x) /\ x # e
    BY <1>1, TakeHolds
  <1>3. count \in [Event -> 0 .. 1]
    BY DEF IInv, DataOK
  <1>4. /\ count' = IF Kind[e] = "signal" THEN [count EXCEPT ![e] = 0] ELSE count
        /\ signalq' = signalq
    BY <1>1 DEF DispatchTake, eventVars
  <1>5. \A x \in Event : x # e => count'[x] = count[x]
    BY <1>2, <1>3, <1>4
  <1>6. Kind[e] = "signal" => count'[e] = 0
    BY <1>2, <1>3, <1>4
  <1>7. Kind[e] # "signal" => count'[e] = count[e]
    BY <1>4
  <1>8. \A x : Listed(x)' <=> Listed(x)
    BY <1>4 DEF Listed
  <1>9. mEfiCheckTimerEvent \in Event /\ gIdleLoopEvent \in Event
    BY EventAssumption
  <1>10. SignalsMade'
    <2>1. \A x \in Event : count'[x] # 0 => count[x] # 0
      BY <1>5, <1>6, <1>7
    <2> QED
      BY <1>4, <1>8, <1>9, <2>1 DEF SignalsMade
  <1>11. ASSUME NEW x \in Event, Listed(x), count'[x] = 1
         PROVE  count[x] = 1 /\ (Queued(x) => Queued(x)')
    <2>1. Kind[x] = "signal"
      BY <1>11 DEF SignalsMade
    <2>2. x # e
      BY <1>6, <1>11, <2>1
    <2> QED
      BY <1>2, <1>5, <1>11, <2>2
  <1> QED
    BY <1>8, <1>10, <1>11 DEF KeptBy

\* CoreCloseEvent takes its event off gEventSignalQueue.
LEMMA CloseSignals ==
    ASSUME IInv, QueuesHold, SignalsMade, \A x \in Event : Made(x) => Made(x)', CloseUnlink
    PROVE  SignalsMade' /\ KeptBy
  <1>1. PICK e \in Event : e = Top.ev
    BY CloseHolds
  <1>2. \A x \in Event : Queued(x)' <=> Queued(x) /\ x # e
    BY <1>1, CloseHolds
  <1>3. signalq \in Seq(Event) /\ IsInjective(signalq)
    BY DEF IInv, DataOK, SignalsMade
  <1>4. signalq' = Unlinked(signalq, e) /\ count' = count
    BY <1>1 DEF CloseUnlink
  <1>5. IsInjective(signalq') /\ \A x : Listed(x)' <=> Listed(x) /\ x # e
    BY <1>3, <1>4, UnlinkedHolds DEF Listed
  <1>6. mEfiCheckTimerEvent \in Event /\ gIdleLoopEvent \in Event
    BY EventAssumption
  <1>7. SignalsMade'
    BY <1>4, <1>5, <1>6 DEF SignalsMade
  <1> QED
    BY <1>2, <1>4, <1>5, <1>7 DEF KeptBy

\* A created event is put on gEventSignalQueue: it has not been signalled.
LEMMA CreateSignals ==
    ASSUME IInv, QueuesHold, SignalsMade, \A x \in Event : Made(x) => Made(x)',
           NEW e \in Event, UserCreateEvent(e)
    PROVE  SignalsMade' /\ KeptBy
  <1>1. /\ state[e] = "none" /\ state' = [state EXCEPT ![e] = "open"]
        /\ signalq' = IF Kind[e] = "signal" THEN <<e>> \o signalq ELSE signalq
        /\ count' = count /\ queue' = queue
    BY DEF UserCreateEvent
  <1>2. state \in [Event -> {"none", "open", "freed"}] /\ signalq \in Seq(Event)
    BY DEF IInv, DataOK
  <1>3. ~Made(e) /\ Made(e)'
    BY <1>1, <1>2 DEF Made
  <1>4. count'[e] = 0 /\ ~Listed(e)
    BY <1>1, <1>3 DEF SignalsMade
  <1>5. \A x \in Event : Queued(x)' <=> Queued(x)
    BY <1>1 DEF Queued
  <1>6. mEfiCheckTimerEvent \in Event /\ gIdleLoopEvent \in Event
    BY EventAssumption
  <1>7. /\ IsInjective(signalq')
        /\ \A x : Listed(x)' => Listed(x) \/ (x = e /\ Kind[e] = "signal")
    <2>1. CASE Kind[e] = "signal"
      BY <1>1, <1>2, <1>4, <2>1, PrependHolds DEF Listed, SignalsMade
    <2>2. CASE Kind[e] # "signal"
      BY <1>1, <2>2 DEF Listed, SignalsMade
    <2> QED
      BY <2>1, <2>2
  <1>8. SignalsMade'
    BY <1>1, <1>3, <1>6, <1>7 DEF SignalsMade
  <1>9. KeptBy
    BY <1>1, <1>4, <1>5, <1>7 DEF KeptBy
  <1> QED
    BY <1>8, <1>9

\* CoreCheckEvent queues a wait notification, or clears SignalCount.
LEMMA CheckSignals ==
    ASSUME IInv, QueuesHold, SignalsMade, \A x \in Event : Made(x) => Made(x)',
           CheckQueue \/ CheckClear
    PROVE  SignalsMade' /\ KeptBy
  <1>1. PICK e \in Event : e = Top.ev
    BY TopFacts DEF CheckQueue, CheckClear, At, GoodFrame, EventPC, CheckPC
  <1>2. QueuesOK /\ count \in [Event -> 0 .. 1]
    BY DEF IInv, DataOK
  <1>3. CASE CheckQueue
    <2>1. /\ count' = count /\ signalq' = signalq
          /\ queue' = queue \/ CoreNotifyEvent(e)
      BY <1>1, <1>3 DEF CheckQueue, eventVars
    <2>2. \A x \in Event : Queued(x) => Queued(x)'
      <3>1. CASE queue' = queue
        BY <3>1 DEF Queued
      <3>2. CASE CoreNotifyEvent(e)
        BY <1>2, <3>2, NotifyHolds
      <3> QED
        BY <2>1, <3>1, <3>2
    <2> QED
      BY <2>1, <2>2, SignalsFrom
  <1>4. CASE CheckClear
    <2>1. count' = [count EXCEPT ![e] = 0] /\ signalq' = signalq /\ queue' = queue
      BY <1>1, <1>4 DEF CheckClear, eventVars
    <2>2. \A x \in Event : count'[x] = count[x] \/ count'[x] = 0
      BY <1>2, <2>1
    <2>3. \A x \in Event : Queued(x) => Queued(x)'
      BY <2>1 DEF Queued
    <2> QED
      BY <2>1, <2>2, <2>3, SignalsFrom
  <1> QED
    BY <1>3, <1>4

\* Every other step leaves the signals alone.
LEMMA SignalsData ==
    ASSUME IInv, QueuesHold, SignalsMade, MadeTimers, \A x \in Event : Made(x) => Made(x)', Next,
           ~GroupWalk
    PROVE  SignalsMade' /\ KeptBy
  <1>1. ASSUME UNCHANGED <<queue, signalq, count>>
        PROVE  SignalsMade' /\ KeptBy
    <2>1. \A x \in Event : Queued(x) => Queued(x)'
      BY <1>1 DEF Queued
    <2> QED
      BY <1>1, <2>1, SignalsFrom
  <1>2. CASE ClientCall
    <2>1. CASE UserWaitForEvent \/ \E NewTpl \in RaiseLevels : UserRaiseTpl(NewTpl)
      BY <1>1, <2>1 DEF UserWaitForEvent, UserRaiseTpl, eventVars
    <2>2. ASSUME NEW e \in Event,
                 \/ UserCheckEvent(e) \/ UserCloseEvent(e)
                 \/ \E Type \in {"TimerCancel", "TimerRelative", "TimerPeriodic"},
                       TriggerTime \in TriggerTimes : UserSetTimer(e, Type, TriggerTime)
          PROVE  SignalsMade' /\ KeptBy
      BY <1>1, <2>2 DEF UserCheckEvent, UserCloseEvent, UserSetTimer, eventVars
    <2> QED
      BY <1>2, <2>1, <2>2, SignalSteps, CreateSignals DEF ClientCall
  <1>3. CASE GroupLock \/ GroupRelease \/ GroupReturn \/ RestoreCheck \/ RestorePick \/ RestoreSet
             \/ DispatchNotify \/ DispatchDone \/ UserRestoreTpl \/ NotifyReturn
    BY <1>1, <1>3 DEF GroupLock, GroupRelease, GroupReturn, RestoreCheck, RestorePick, RestoreSet,
       DispatchNotify, DispatchDone, UserRestoreTpl, NotifyReturn, eventVars
  <1>4. CASE TimerRemove \/ TimerArm \/ CheckTimersStart \/ CheckTimersInsert
             \/ CheckTimersOnce \/ CheckTimersDone
    BY <1>1, <1>4 DEF TimerRemove, TimerArm, CheckTimersStart, CheckTimersInsert,
       CheckTimersOnce, CheckTimersDone, eventVars
  <1>5. CASE CloseFree \/ CheckRead \/ CheckReturn \/ WaitCheck
    BY <1>1, <1>5 DEF CloseFree, CheckRead, CheckReturn, WaitCheck, eventVars
  <1>6. CASE TimerInsert \/ CheckTimersFire \/ CheckTimersRearm \/ CoreTimerTick \/ WaitIdle
    BY <1>6, SignalSteps
  <1>7. CASE DispatchTake
    BY <1>7, TakeSignals
  <1>8. CASE CloseUnlink
    BY <1>8, CloseSignals
  <1>9. CASE CheckQueue \/ CheckClear
    BY <1>9, CheckSignals
  <1> QED
    BY <1>2, <1>3, <1>4, <1>5, <1>6, <1>7, <1>8, <1>9 DEF Next, Continue


\* How a step changes the timer list.
LEMMA TimersList ==
    ASSUME IInv, [Next]_vars
    PROVE  \/ timers' = timers
           \/ TimerRemove /\ timers' = Unlinked(timers, Top.ev)
           \/ CheckTimersFire /\ timers # <<>> /\ timers' = Tail(timers)
           \/ /\ TimerInsert \/ CheckTimersInsert
              /\ Top.pc \in ArmedPC /\ Top.ev \in Event
              /\ TimerPlace(Top.ev) \in 1 .. Len(timers) + 1
              /\ timers' = InsertAt(timers, TimerPlace(Top.ev), Top.ev)
  <1>1. CASE ClientCall
    BY <1>1 DEF ClientCall, UserCreateEvent, UserSignalEvent, UserCheckEvent, UserCloseEvent,
       UserSetTimer, UserWaitForEvent, UserRaiseTpl, timerVars
  <1>2. CASE CoreTimerTick \/ UNCHANGED vars
    BY <1>2 DEF CoreTimerTick, vars, timerVars
  <1>3. CASE GroupLock \/ GroupWalk \/ GroupRelease \/ GroupReturn \/ RestoreCheck
             \/ RestorePick \/ RestoreSet \/ DispatchTake \/ DispatchNotify \/ DispatchDone
    BY <1>3 DEF GroupLock, GroupWalk, GroupRelease, GroupReturn, RestoreCheck, RestorePick,
       RestoreSet, DispatchTake, DispatchNotify, DispatchDone, timerVars
  <1>4. CASE TimerArm \/ CheckTimersStart \/ CheckTimersRearm \/ CheckTimersOnce
             \/ CheckTimersDone
    BY <1>4 DEF TimerArm, CheckTimersStart, CheckTimersRearm, CheckTimersOnce,
       CheckTimersDone, timerVars
  <1>5. CASE CloseUnlink \/ CloseFree \/ CheckQueue \/ CheckRead \/ CheckClear \/ CheckReturn
             \/ WaitCheck \/ WaitIdle \/ UserRestoreTpl \/ NotifyReturn
    BY <1>5 DEF CloseUnlink, CloseFree, CheckQueue, CheckRead, CheckClear, CheckReturn, WaitCheck,
       WaitIdle, UserRestoreTpl, NotifyReturn, timerVars
  <1>6. CASE TimerRemove
    BY <1>6 DEF TimerRemove
  <1>7. CASE CheckTimersFire
    BY <1>7 DEF CheckTimersFire, CheckTimersExpired
  <1>8. CASE TimerInsert \/ CheckTimersInsert
    <2>1. /\ Top.pc \in ArmedPC
          /\ timers' = InsertAt(timers, TimerPlace(Top.ev), Top.ev)
      BY <1>8 DEF TimerInsert, CheckTimersInsert, At, ArmedPC
    <2>2. Top.ev \in Event
      BY <2>1, TopFacts DEF GoodFrame, EventPC, SetTimerPC, TimersPC, ArmedPC
    <2>3. TimerPlace(Top.ev) \in 1 .. Len(timers) + 1
      BY <2>2, TimerPlaceType DEF IInv, DataOK
    <2> QED
      BY <1>8, <2>1, <2>2, <2>3
  <1> QED
    BY <1>1, <1>2, <1>3, <1>4, <1>5, <1>6, <1>7, <1>8 DEF Next, Continue

LEMMA MadeTimersNext ==
    ASSUME IInv, MadeTimers, MadeFrames, [Next]_vars, \A x \in Event : Made(x) => Made(x)'
    PROVE  MadeTimers'
  <1>1. timers \in Seq(Event)
    BY DEF IInv, DataOK
  <1>2. Top = stack[Len(stack)] /\ Len(stack) \in 1 .. Len(stack)
    BY StackLen
  <1>3. Top.pc \in ArmedPC => Made(Top.ev)
    BY <1>2 DEF MadeFrames
  <1>4. ASSUME \A x \in Event : Contains(timers', x) => Contains(timers, x) \/ Made(x)
        PROVE  MadeTimers'
    BY <1>4 DEF MadeTimers
  <1>5. CASE timers' = timers
    BY <1>4, <1>5
  <1>6. CASE timers' = Unlinked(timers, Top.ev)
    BY <1>1, <1>4, <1>6, UnlinkedWithin
  <1>7. CASE timers # <<>> /\ timers' = Tail(timers)
    BY <1>1, <1>4, <1>7, TailWithin
  <1>8. CASE /\ Top.pc \in ArmedPC /\ Top.ev \in Event
             /\ TimerPlace(Top.ev) \in 1 .. Len(timers) + 1
             /\ timers' = InsertAt(timers, TimerPlace(Top.ev), Top.ev)
    <2>1. PICK k, e : k = TimerPlace(Top.ev) /\ e = Top.ev
      OBVIOUS
    <2>2. \A x : Contains(InsertAt(timers, k, e), x) => Contains(timers, x) \/ x = e
      BY <1>1, <1>8, <2>1, InsertWithin
    <2> QED
      BY <1>3, <1>4, <1>8, <2>1, <2>2
  <1> QED
    BY <1>5, <1>6, <1>7, <1>8, TimersList

(***************************************************************************)
(* A group being walked, and every other step.                             *)
(***************************************************************************)
SignalInv ==
    /\ QueuesHold /\ WalkOnTop /\ MadeFrames /\ MadeTimers
    /\ SignalsMade /\ SignalsKept

\* What a step of a group's walk leaves of the frames: it changes the top one.
LEMMA WalkFrames ==
    ASSUME IInv, IInv', WalkOnTop, MadeFrames, state' = state,
           GroupLock \/ GroupWalk \/ GroupRelease
    PROVE  WalkOnTop' /\ MadeFrames'
  <1>1. PICK n \in Nat : n = Len(stack) /\ n >= 1 /\ Top = stack[n]
    BY StackLen
  <1>2. \E m \in {n, n + 1} :
            /\ Keeps(n - 1, m)
            /\ \A i \in n .. m : stack'[i].pc \in {"gWalk", "gReturn", "rCheck"}
            /\ \A i \in n .. m - 1 : stack'[i].pc # "gWalk"
            /\ stack'[m].pc = "gWalk" => tpl' = TPL_HIGH_LEVEL
    <2>1. CASE GroupLock
      <3>1. Keeps(n - 1, n) /\ stack'[n].pc = "gWalk" /\ tpl' = TPL_HIGH_LEVEL
        BY <1>1, <2>1, GroupLockMove, FrameFields
      <3>3. n \in {n, n + 1}
        OBVIOUS
      <3>2. (\A i \in n .. n : i = n) /\ (\A i \in n .. n - 1 : FALSE)
        BY <1>1
      <3>4. \A i \in n .. n : stack'[i].pc \in {"gWalk", "gReturn", "rCheck"}
        BY <3>1, <3>2
      <3> QED
        BY <3>1, <3>2, <3>3, <3>4
    <2>2. CASE GroupWalk
      <3>1. Keeps(n - 1, n) /\ stack'[n].pc = "gWalk" /\ tpl' = TPL_HIGH_LEVEL
        BY <1>1, <2>2, GroupWalkMove, FrameFields DEF WalkOnTop
      <3>3. n \in {n, n + 1}
        OBVIOUS
      <3>2. (\A i \in n .. n : i = n) /\ (\A i \in n .. n - 1 : FALSE)
        BY <1>1
      <3>4. \A i \in n .. n : stack'[i].pc \in {"gWalk", "gReturn", "rCheck"}
        BY <3>1, <3>2
      <3> QED
        BY <3>1, <3>2, <3>3, <3>4
    <2>3. CASE GroupRelease
      <3>1. /\ Keeps(n - 1, n + 1) /\ stack'[n].pc = "gReturn"
            /\ stack'[n + 1].pc = "rCheck"
        BY <1>1, <2>3, GroupReleaseMove, FrameFields DEF Restore
      <3>2. (\A i \in n .. n + 1 : i = n \/ i = n + 1) /\ (\A i \in n .. (n + 1) - 1 : i = n)
        BY <1>1
      <3> QED
        BY <3>1, <3>2
    <2> QED
      BY <2>1, <2>2, <2>3
  <1>3. PICK m \in {n, n + 1} :
            /\ Keeps(n - 1, m)
            /\ \A i \in n .. m : stack'[i].pc \in {"gWalk", "gReturn", "rCheck"}
            /\ \A i \in n .. m - 1 : stack'[i].pc # "gWalk"
            /\ stack'[m].pc = "gWalk" => tpl' = TPL_HIGH_LEVEL
    BY <1>2
  <1>4. /\ Len(stack') = m /\ m \in Nat /\ m >= n
        /\ \A i \in 1 .. n - 1 : stack'[i] = stack[i]
    BY <1>1, <1>3 DEF Keeps
  <1>5. \A i \in 1 .. m : i \in 1 .. n - 1 \/ i \in n .. m
    BY <1>1, <1>4
  <1>6. WalkOnTop'
    <2>1. \A i \in 1 .. m - 1 : i \in 1 .. n - 1 \/ i \in n .. m - 1
      BY <1>1, <1>4
    <2>2. \A i \in 1 .. m - 1 : stack'[i].pc # "gWalk"
      BY <1>1, <1>3, <1>4, <2>1 DEF WalkOnTop
    <2> QED
      BY <1>3, <1>4, <2>2 DEF WalkOnTop, Top
  <1>7. ASSUME NEW i \in 1 .. m, stack'[i].pc \in SetTimerPC \cup ArmedPC \cup ClosePC
        PROVE  Made(stack'[i].ev)
    <2>1. i \in 1 .. n - 1
      BY <1>3, <1>5, <1>7 DEF SetTimerPC, ArmedPC, ClosePC
    <2>2. i \in 1 .. n
      BY <1>1, <2>1
    <2> QED
      BY <1>1, <1>4, <1>7, <2>1, <2>2 DEF MadeFrames
  <1>8. MadeFrames'
    BY <1>4, <1>7 DEF MadeFrames, Made
  <1> QED
    BY <1>6, <1>8


\* Frames below the top keep marching.
LEMMA MarchingStays ==
    ASSUME IInv, NEW n, n = Len(stack), NEW m, Keeps(n - 1, m), NEW x, Marching(x),
           Top.pc # "gLock" \/ Top.ev # x
    PROVE  Marching(x)'
  <1>1. n \in Nat /\ n >= 1 /\ Top = stack[n]
    BY StackLen
  <1>2. PICK j \in 1 .. n : stack[j].pc = "gLock" /\ stack[j].ev = x
    BY DEF Marching
  <1>3. j # n
    BY <1>1, <1>2
  <1>4. /\ Len(stack') = m /\ m \in Nat /\ n - 1 <= m
        /\ \A i \in 1 .. n - 1 : stack'[i] = stack[i]
    BY DEF Keeps
  <1>5. j \in 1 .. n - 1 /\ j \in 1 .. m
    BY <1>1, <1>3, <1>4
  <1>6. stack'[j].pc = "gLock" /\ stack'[j].ev = x
    BY <1>2, <1>4, <1>5
  <1> QED
    BY <1>4, <1>5, <1>6 DEF Marching

\* The signaller begins, goes on with, and ends its walk.
LEMMA WalkKept ==
    ASSUME IInv, IInv', SignalInv, GroupLock \/ GroupWalk \/ GroupRelease
    PROVE  SignalsMade' /\ SignalsKept'
  <1>1. PICK n \in Nat : n = Len(stack) /\ n >= 1 /\ Top = stack[n]
    BY StackLen
  <1>2. signalq' = signalq /\ count' = count /\ state' = state
    BY DEF GroupLock, GroupWalk, GroupRelease, eventVars
  <1>3. SignalsMade'
    BY <1>2 DEF SignalInv, SignalsMade, Listed, Made
  <1>4. \A x \in Event : Listed(x)' /\ count'[x] = 1 => Queued(x) \/ Marching(x) \/ Passing(x)
    BY <1>2 DEF SignalInv, SignalsKept, Listed
  <1>5. signalq \in Seq(Event) /\ QueuesOK /\ QueuesHold
    BY DEF IInv, DataOK, SignalInv
  <1>6. CASE GroupLock
    <2>1. /\ Top.pc = "gLock" /\ Keeps(n - 1, n)
          /\ stack'[n] = F("gWalk", Top.lvl, Top.ev, 1)
      BY <1>1, <1>6, GroupLockMove
    <2>2. \A x \in Event : Queued(x)' <=> Queued(x)
      BY <1>6 DEF GroupLock, Queued
    <2>3. /\ Len(stack') = n
          /\ stack'[n].pc = "gWalk" /\ stack'[n].ev = Top.ev /\ stack'[n].val = 1
      BY <2>1, FrameFields DEF Keeps
    <2>4. ASSUME NEW x \in Event, Listed(x)', Marching(x)
          PROVE  Marching(x)' \/ Passing(x)'
      <3>1. CASE Top.ev # x
        BY <1>1, <2>1, <2>4, <3>1, MarchingStays
      <3>2. CASE Top.ev = x
        <4>1. PICK i \in 1 .. Len(signalq) : signalq[i] = x
          BY <1>2, <1>5, <2>4, ListOnce DEF Listed
        <4>2. 1 <= i
          OBVIOUS
        <4> QED
          BY <1>2, <2>3, <3>2, <4>1, <4>2 DEF Passing, Top
      <3> QED
        BY <3>1, <3>2
    <2>5. \A x : ~Passing(x)
      BY <2>1 DEF Passing
    <2> QED
      BY <1>3, <1>4, <2>2, <2>4, <2>5 DEF SignalsKept
  <1>7. CASE GroupWalk
    <2>1. /\ Top.pc = "gWalk" /\ Keeps(n - 1, n)
          /\ stack'[n] = F("gWalk", Top.lvl, Top.ev, Top.val + 1)
      BY <1>1, <1>7, GroupWalkMove
    <2>2. PICK v \in 1 .. Len(signalq) : v = Top.val
      BY <1>7 DEF GroupWalk
    <2>3. PICK m \in Event : m = signalq[v]
      BY <1>5, <2>2, ElementOfSeq
    <2>4. IF Group[m] = Group[Top.ev] THEN CoreNotifyEvent(m) ELSE queue' = queue
      BY <1>7, <2>2, <2>3 DEF GroupWalk
    <2>5. \A x \in Event : Queued(x) => Queued(x)'
      <3>1. CASE queue' = queue
        BY <3>1 DEF Queued
      <3>2. CASE CoreNotifyEvent(m)
        BY <1>5, <3>2, NotifyHolds
      <3> QED
        BY <2>4, <3>1, <3>2
    <2>6. \A x \in Event : Marching(x) => Marching(x)'
      BY <1>1, <2>1, MarchingStays
    <2>7. /\ Len(stack') = n /\ stack'[n].pc = "gWalk" /\ stack'[n].ev = Top.ev
          /\ stack'[n].val = v + 1
      BY <2>1, <2>2, FrameFields DEF Keeps
    <2>8. ASSUME NEW x \in Event, Passing(x)
          PROVE  Queued(x)' \/ Passing(x)'
      <3>1. PICK i \in 1 .. Len(signalq) : v <= i /\ signalq[i] = x /\ Top.ev = x
        BY <2>2, <2>8 DEF Passing
      <3>2. CASE i = v
        <4>1. CoreNotifyEvent(x)
          BY <2>3, <2>4, <3>1, <3>2
        <4> QED
          BY <1>5, <4>1, NotifyHolds
      <3>3. CASE i # v
        <4>1. v + 1 <= i
          BY <3>1, <3>3
        <4> QED
          BY <1>2, <2>7, <3>1, <4>1 DEF Passing, Top
      <3> QED
        BY <3>2, <3>3
    <2> QED
      BY <1>3, <1>4, <2>5, <2>6, <2>8 DEF SignalsKept
  <1>8. CASE GroupRelease
    <2>1. Top.pc = "gWalk" /\ Keeps(n - 1, n + 1)
      BY <1>1, <1>8, GroupReleaseMove
    <2>2. \A x \in Event : Queued(x)' <=> Queued(x)
      BY <1>8 DEF GroupRelease, Queued
    <2>3. \A x \in Event : Marching(x) => Marching(x)'
      BY <1>1, <2>1, MarchingStays
    <2>4. Top.val > Len(signalq) /\ Top.val \in Nat /\ Len(signalq) \in Nat
      BY <1>5, <1>8, TopFacts, LenProperties DEF GroupRelease, GoodFrame, Frame
    <2>5. \A x : ~Passing(x)
      BY <2>4 DEF Passing
    <2> QED
      BY <1>3, <1>4, <2>2, <2>3, <2>5 DEF SignalsKept
  <1> QED
    BY <1>6, <1>7, <1>8

LEMMA SignalInvNext ==
    ASSUME IInv, IInv', SignalInv, [Next]_vars
    PROVE  SignalInv'
  <1>1. QueuesHold'
    BY QueuesHoldInv DEF SignalInv
  <1>2. \A x \in Event : Made(x) => Made(x)'
    BY MadeStays
  <1>3. MadeTimers'
    BY <1>2, MadeTimersNext DEF SignalInv
  <1>4. CASE UNCHANGED vars
    BY <1>1, <1>4 DEF vars, SignalInv, WalkOnTop, MadeFrames, MadeTimers, SignalsMade,
       SignalsKept, Top, Made, Listed, Queued, Marching, Passing
  <1>5. CASE GroupLock \/ GroupWalk \/ GroupRelease
    <2>1. state' = state
      BY <1>5 DEF GroupLock, GroupWalk, GroupRelease, eventVars
    <2>2. WalkOnTop' /\ MadeFrames'
      BY <1>5, <2>1, WalkFrames DEF SignalInv
    <2>3. SignalsMade' /\ SignalsKept'
      BY <1>5, WalkKept
    <2> QED
      BY <1>1, <1>3, <2>2, <2>3 DEF SignalInv
  <1>6. ASSUME NEW k, NEW m, Change(k, m, ArmedPC), Next
        PROVE  SignalInv'
    <2>1. Top.pc # "gWalk"
      BY <1>6 DEF Change
    <2>2. WalkOnTop' /\ MadeFrames'
      BY <1>2, <1>6, ChangeFrames DEF SignalInv
    <2>3. \A x : Marching(x) => Marching(x)'
      BY <1>2, <1>6, ChangeFrames DEF SignalInv, Marching
    <2>4. SignalsMade' /\ KeptBy
      <3>1. ~GroupWalk
        BY <2>1 DEF GroupWalk, At
      <3> QED
        BY <1>2, <1>6, <3>1, SignalsData DEF SignalInv
    <2>5. \A x : ~Passing(x)
      BY <2>1 DEF Passing
    <2>6. SignalsKept'
      BY <2>3, <2>4, <2>5 DEF SignalInv, SignalsKept, KeptBy
    <2> QED
      BY <1>1, <1>3, <2>2, <2>4, <2>6 DEF SignalInv
  <1> QED
    BY <1>4, <1>5, <1>6, AnyChange DEF SignalInv

LEMMA InitSignals == Init => SignalInv
  <1> SUFFICES ASSUME Init
               PROVE  SignalInv
    OBVIOUS
  <1>1. QueuesHold
    BY InitNested
  <1>2. Len(stack) = 1 /\ stack[1].pc = "user" /\ Top.pc = "user"
    BY FrameFields DEF Init, Top
  <1>3. WalkOnTop
    BY <1>2 DEF WalkOnTop
  <1>4. MadeFrames
    BY <1>2 DEF MadeFrames, SetTimerPC, ArmedPC, ClosePC
  <1>5. MadeTimers
    BY DEF Init, MadeTimers, Contains
  <1>6. \A x \in Event : Listed(x) <=> x \in ToSet(InitialSignalQueue)
    <2>1. \A x \in Event : Listed(x) <=> \E i \in 1 .. Len(signalq) : signalq[i] = x
      BY ListOnce, EventAssumption DEF Listed, Init
    <2> QED
      BY <2>1 DEF Init, ToSet
  <1>7. SignalsMade
    BY <1>6, EventAssumption DEF SignalsMade, Init, Made
  <1>8. SignalsKept
    BY DEF SignalsKept, Init
  <1> QED
    BY <1>1, <1>3, <1>4, <1>5, <1>7, <1>8 DEF SignalInv

LEMMA SignalInvariance == Spec => []SignalInv
  <1>1. IInv /\ IInv' /\ SignalInv /\ [Next]_vars => SignalInv'
    BY SignalInvNext
  <1> QED
    BY <1>1, InitSignals, Invariance, PTL DEF Spec

\* No signal is lost: the event whose SignalCount keeps further signals out is
\* queued for its notification, or its signaller is about to walk its group,
\* or walks it and has yet to come to it.  This holds however the walk, the
\* ticks, the notifications and CoreCloseEvent interleave.
THEOREM SignalsAreKept == Spec => []SignalNotLost
  <1>1. IInv /\ SignalInv => SignalNotLost
    <2> SUFFICES ASSUME IInv, SignalInv,
                        NEW i \in 1 .. Len(signalq), NEW e, e = signalq[i], count[e] = 1
                 PROVE  \/ Contains(queue[NotifyTpl[e]], e)
                        \/ \E j \in 1 .. Len(stack) :
                              \/ stack[j].pc = "gLock" /\ stack[j].ev = e
                              \/ stack[j].pc = "gWalk" /\ stack[j].ev = e /\ stack[j].val <= i
      BY DEF SignalNotLost
    <2>1. signalq \in Seq(Event) /\ e \in Event
      BY ElementOfSeq DEF IInv, DataOK
    <2>2. Listed(e) /\ \A a, b \in 1 .. Len(signalq) : signalq[a] = signalq[b] => a = b
      BY <2>1, ListOnce DEF Listed, SignalInv, SignalsMade
    <2>3. PICK n \in 1 .. Len(stack) : Top = stack[n]
      BY StackLen
    <2>4. CASE Passing(e)
      <3>1. PICK a \in 1 .. Len(signalq) : Top.val <= a /\ signalq[a] = e
        BY <2>4 DEF Passing
      <3>2. a = i
        BY <2>2, <3>1
      <3> QED
        BY <2>3, <2>4, <3>1, <3>2 DEF Passing
    <2>5. CASE Marching(e)
      BY <2>5 DEF Marching
    <2>6. CASE Queued(e)
      BY <2>6 DEF Queued
    <2> QED
      BY <2>1, <2>2, <2>4, <2>5, <2>6 DEF SignalInv, SignalsKept
  <1> QED
    BY <1>1, Invariance, SignalInvariance, PTL


(***************************************************************************)
(* The timer list.                                                         *)
(***************************************************************************)

Sorted(s, t) == \A i, j \in 1 .. Len(s) : i < j => t[s[i]] <= t[s[j]]

\* The order does not depend on the timers that are not on the list.
LEMMA SortedElsewhere ==
    ASSUME NEW S, NEW s \in Seq(S), NEW t, NEW u, Sorted(s, t),
           \A x : Contains(s, x) => u[x] = t[x]
    PROVE  Sorted(s, u)
  <1>1. \A i \in 1 .. Len(s) : u[s[i]] = t[s[i]]
    BY ListOnce
  <1> QED
    BY <1>1 DEF Sorted

LEMMA SortedUnlinked ==
    ASSUME NEW S, NEW s \in Seq(S), NEW t, Sorted(s, t), NEW e
    PROVE  Sorted(Unlinked(s, e), t)
  <1>1. CASE ~Contains(s, e)
    BY <1>1 DEF Unlinked
  <1>2. CASE Contains(s, e)
    <2>1. PICK k \in 1 .. Len(s) : Unlinked(s, e) = RemoveAt(s, k)
      BY <1>2 DEF Contains, Unlinked
    <2>2. PICK r : r = RemoveAt(s, k)
      OBVIOUS
    <2>3. PICK n \in Nat : n = Len(s)
      BY LenProperties
    <2>4. /\ r \in Seq(S) /\ Len(r) = n - 1
          /\ \A j \in 1 .. n - 1 : r[j] = IF j < k THEN s[j] ELSE s[j + 1]
      BY <2>2, <2>3, RemoveAtElements
    <2>5. ASSUME NEW i \in 1 .. n - 1, NEW j \in 1 .. n - 1, i < j
          PROVE  t[r[i]] <= t[r[j]]
      <3>1. PICK a \in 1 .. n, b \in 1 .. n :
              /\ a = IF i < k THEN i ELSE i + 1
              /\ b = IF j < k THEN j ELSE j + 1
        BY <2>3
      <3>2. a < b
        BY <2>3, <2>5, <3>1
      <3>3. r[i] = s[a] /\ r[j] = s[b]
        BY <2>4, <3>1
      <3>4. t[s[a]] <= t[s[b]]
        BY <2>3, <3>2 DEF Sorted
      <3> QED
        BY <3>3, <3>4
    <2> QED
      BY <2>1, <2>2, <2>4, <2>5 DEF Sorted
  <1> QED
    BY <1>1, <1>2

LEMMA SortedTail ==
    ASSUME NEW S, NEW s \in Seq(S), s # <<>>, NEW t, Sorted(s, t)
    PROVE  Sorted(Tail(s), t)
  <1>1. PICK r : r = Tail(s)
    OBVIOUS
  <1>2. PICK n \in Nat : n = Len(s) /\ n >= 1
    BY EmptySeq, LenProperties
  <1>3. r \in Seq(S) /\ Len(r) = n - 1 /\ \A j \in 1 .. n - 1 : r[j] = s[j + 1]
    BY <1>1, <1>2, HeadTailProperties
  <1>4. ASSUME NEW i \in 1 .. n - 1, NEW j \in 1 .. n - 1, i < j
        PROVE  t[r[i]] <= t[r[j]]
    <2>1. PICK a \in 1 .. n, b \in 1 .. n : a = i + 1 /\ b = j + 1 /\ a < b
      BY <1>2, <1>4
    <2>2. r[i] = s[a] /\ r[j] = s[b]
      BY <1>3, <2>1
    <2>3. t[s[a]] <= t[s[b]]
      BY <1>2, <2>1 DEF Sorted
    <2> QED
      BY <2>2, <2>3
  <1> QED
    BY <1>1, <1>3, <1>4 DEF Sorted

\* CoreInsertEventTimer puts a timer after those that are not later.
LEMMA TimerPlaceSplits ==
    ASSUME timers \in Seq(Event), trigger \in [Event -> Nat], Sorted(timers, trigger),
           NEW e \in Event
    PROVE  \A i \in 1 .. Len(timers) :
              /\ i < TimerPlace(e) => trigger[timers[i]] <= trigger[e]
              /\ i >= TimerPlace(e) => trigger[timers[i]] >= trigger[e]
  <1>1. PICK n \in Nat : n = Len(timers)
    BY LenProperties
  <1>2. PICK T : T = {i \in 1 .. n : trigger[timers[i]] > trigger[e]} \cup {n + 1}
    OBVIOUS
  <1>3. T \in SUBSET Nat /\ T # {}
    BY <1>1, <1>2
  <1>4. PICK k : k = TimerPlace(e)
    OBVIOUS
  <1>5. k = Min(T)
    BY <1>1, <1>2, <1>4 DEF TimerPlace
  <1>6. k \in T /\ \A y \in T : k <= y
    BY <1>3, <1>5, LeastNat DEF Min
  <1>7. \A i \in 1 .. n : timers[i] \in Event /\ trigger[timers[i]] \in Nat
    BY <1>1, ElementOfSeq
  <1>8. trigger[e] \in Nat
    OBVIOUS
  <1>9. k \in Nat
    BY <1>3, <1>6
  <1>10. ASSUME NEW i \in 1 .. n, i < k
         PROVE  trigger[timers[i]] <= trigger[e]
    <2>1. i \notin T
      BY <1>6, <1>9, <1>10
    <2>2. ~(trigger[timers[i]] > trigger[e])
      BY <1>2, <2>1
    <2> QED
      BY <1>7, <1>8, <2>2
  <1>11. ASSUME NEW i \in 1 .. n, i >= k
         PROVE  trigger[timers[i]] >= trigger[e]
    <2>1. k # n + 1
      BY <1>11, <1>9
    <2>2. k \in 1 .. n /\ trigger[timers[k]] > trigger[e]
      BY <1>2, <1>6, <2>1
    <2>3. trigger[timers[k]] <= trigger[timers[i]]
      <3>1. k = i \/ k < i
        BY <1>9, <1>11
      <3> QED
        BY <1>1, <1>7, <2>2, <3>1 DEF Sorted
    <2> QED
      BY <1>7, <1>8, <2>2, <2>3
  <1> QED
    BY <1>1, <1>4, <1>10, <1>11

\* The list with one more node, e, at k.
LEMMA InsertedNode ==
    ASSUME NEW S, NEW s \in Seq(S), NEW e \in S, NEW k \in 1 .. Len(s) + 1
    PROVE  \A r : r = InsertAt(s, k, e) => Inserted(r, s, k, e)
  BY InsertAtElements

\* The order of s with e put in between the earlier and the later ones.
Splits(s, t, k, e) ==
    /\ t[e] \in Nat
    /\ \A i \in 1 .. Len(s) : /\ t[s[i]] \in Nat
                              /\ i < k => t[s[i]] <= t[e]
                              /\ i >= k => t[s[i]] >= t[e]

LEMMA InsertSorted ==
    ASSUME NEW S, NEW s \in Seq(S), NEW e, NEW k \in 1 .. Len(s) + 1,
           NEW r, Inserted(r, s, k, e), NEW t, Sorted(s, t), Splits(s, t, k, e)
    PROVE  Sorted(r, t)
  <1>1. PICK n \in Nat : n = Len(s)
    BY LenProperties
  <1>2. k \in 1 .. n + 1
    BY <1>1
  <1>3. Len(r) = n + 1
    BY <1>1 DEF Inserted
  <1>4. \A j \in 1 .. n + 1 :
           /\ j < k => r[j] = s[j]
           /\ j = k => r[j] = e
           /\ j > k => r[j] = s[j - 1]
    <2> SUFFICES ASSUME NEW j \in 1 .. n + 1
                 PROVE  /\ j < k => r[j] = s[j]
                        /\ j = k => r[j] = e
                        /\ j > k => r[j] = s[j - 1]
      OBVIOUS
    <2>1. r[j] = IF j < k THEN s[j] ELSE IF j = k THEN e ELSE s[j - 1]
      BY <1>1 DEF Inserted
    <2>2. j > k => ~(j < k) /\ j # k
      BY <1>2
    <2>3. j = k => ~(j < k)
      BY <1>2
    <2> QED
      BY <2>1, <2>2, <2>3
  <1>5. \A i \in 1 .. n : /\ i < k => t[s[i]] <= t[e]
                          /\ i >= k => t[s[i]] >= t[e]
    BY <1>1 DEF Splits
  <1>6. \A i, j \in 1 .. n : i < j => t[s[i]] <= t[s[j]]
    BY <1>1 DEF Sorted
  <1>7. \A i \in 1 .. n : t[s[i]] \in Nat
    BY <1>1 DEF Splits
  <1>8. t[e] \in Nat
    BY DEF Splits
  <1>9. ASSUME NEW i \in 1 .. n + 1, NEW j \in 1 .. n + 1, i < j
        PROVE  t[r[i]] <= t[r[j]]
    <2>1. CASE i < k /\ j < k
      <3>2. i \in 1 .. n /\ j \in 1 .. n
        BY <1>2, <2>1
      <3>1. r[i] = s[i] /\ r[j] = s[j]
        BY <1>4, <2>1
      <3> QED
        BY <1>6, <1>9, <3>1, <3>2
    <2>2. CASE i < k /\ j = k
      <3>1. i \in 1 .. n /\ r[i] = s[i] /\ r[j] = e
        BY <1>4, <2>2
      <3> QED
        BY <1>5, <2>2, <3>1
    <2>3. CASE i < k /\ j > k
      <3>1. PICK b \in 1 .. n : b = j - 1 /\ b >= k
        BY <2>3
      <3>2. i \in 1 .. n /\ r[i] = s[i] /\ r[j] = s[b] /\ i < b
        BY <1>4, <2>3, <3>1
      <3> QED
        BY <1>6, <3>2
    <2>4. CASE i = k
      <3>1. PICK b \in 1 .. n : b = j - 1 /\ b >= k
        BY <1>9, <2>4
      <3>2. r[i] = e /\ r[j] = s[b]
        BY <1>4, <1>9, <2>4, <3>1
      <3> QED
        BY <1>5, <1>7, <1>8, <3>1, <3>2
    <2>5. CASE i > k
      <3>1. PICK a \in 1 .. n, b \in 1 .. n : a = i - 1 /\ b = j - 1 /\ a < b
        BY <1>9, <2>5
      <3>2. i > k /\ j > k
        BY <1>9, <2>5
      <3>3. r[i] = s[a] /\ r[j] = s[b]
        BY <1>4, <3>1, <3>2
      <3> QED
        BY <1>6, <3>1, <3>3
    <2> QED
      BY <1>9, <2>1, <2>2, <2>3, <2>4, <2>5
  <1> QED
    BY <1>3, <1>9 DEF Sorted

LEMMA SortedInsert ==
    ASSUME timers \in Seq(Event), trigger \in [Event -> Nat], Sorted(timers, trigger),
           NEW e \in Event
    PROVE  Sorted(InsertAt(timers, TimerPlace(e), e), trigger)
  <1>1. PICK k \in 1 .. Len(timers) + 1 : k = TimerPlace(e)
    BY TimerPlaceType
  <1>2. \A i \in 1 .. Len(timers) : /\ i < k => trigger[timers[i]] <= trigger[e]
                                    /\ i >= k => trigger[timers[i]] >= trigger[e]
    BY <1>1, TimerPlaceSplits
  <1>3. trigger[e] \in Nat /\ \A i \in 1 .. Len(timers) : trigger[timers[i]] \in Nat
    BY ElementOfSeq
  <1>4. Splits(timers, trigger, k, e)
    <2>1. ASSUME NEW i \in 1 .. Len(timers)
          PROVE  /\ trigger[timers[i]] \in Nat
                 /\ i < k => trigger[timers[i]] <= trigger[e]
                 /\ i >= k => trigger[timers[i]] >= trigger[e]
      BY <1>2, <1>3
    <2> QED
      BY <1>3, <2>1 DEF Splits
  <1>5. PICK r : r = InsertAt(timers, k, e)
    OBVIOUS
  <1>6. Inserted(r, timers, k, e)
    BY <1>5, InsertedNode
  <1>7. Sorted(r, trigger)
    BY <1>4, <1>6, InsertSorted
  <1> QED
    BY <1>1, <1>5, <1>7


\* The list is in order, and no call that is to insert a timer finds it there.
TimersOK ==
    /\ Sorted(timers, trigger) /\ IsInjective(timers)
    /\ \A i \in 1 .. Len(stack) : stack[i].pc \in ArmedPC => ~Contains(timers, stack[i].ev)

\* A step that leaves the timer list alone, and makes no such call.
LEMMA TimersAlone ==
    ASSUME TimersOK, NEW k, NEW m, Keeps(k, m), timers' = timers, trigger' = trigger,
           \A i \in k + 1 .. m : stack'[i].pc \notin ArmedPC
    PROVE  TimersOK'
  <1>1. /\ k \in Nat /\ m \in Nat /\ k <= Len(stack) /\ k <= m
        /\ Len(stack') = m
        /\ \A i \in 1 .. k : stack'[i] = stack[i]
    BY DEF Keeps
  <1>2. ASSUME NEW i \in 1 .. m, stack'[i].pc \in ArmedPC
        PROVE  ~Contains(timers, stack'[i].ev)
    <2>1. i \in 1 .. k \/ i \in k + 1 .. m
      BY <1>1
    <2>2. i \in 1 .. k
      BY <1>2, <2>1
    <2>3. i \in 1 .. Len(stack) /\ stack'[i] = stack[i]
      <3>1. PICK l : l = Len(stack)
        OBVIOUS
      <3>2. stack'[i] = stack[i]
        BY <1>1, <2>2
      <3>3. 1 <= i /\ i <= k /\ k <= l /\ i \in Int
        BY <1>1, <2>2, <3>1
      <3> QED
        BY <3>1, <3>2, <3>3, <1>1
    <2> QED
      BY <1>2, <2>3 DEF TimersOK
  <1> QED
    BY <1>1, <1>2 DEF TimersOK, Sorted

\* A step of the one holder of mEfiTimerLock, which is on top.
LEMMA HolderStep ==
    ASSUME IInv, Nested, ReadOnce, TimersOK, NEW n, n = Len(stack), n \in TimerLockHolders,
           NEW m, Keeps(n - 1, m), NEW e,
           \A i \in n .. m : stack'[i].pc \in ArmedPC => stack'[i].ev = e /\ ~Contains(timers', e),
           Sorted(timers', trigger'), IsInjective(timers')
    PROVE  TimersOK'
  <1>1. n \in Nat /\ n >= 1
    BY StackLen
  <1>2. /\ m \in Nat /\ n - 1 <= m /\ Len(stack') = m
        /\ \A i \in 1 .. n - 1 : stack'[i] = stack[i]
    BY DEF Keeps
  <1>3. ASSUME NEW i \in 1 .. m, stack'[i].pc \in ArmedPC
        PROVE  ~Contains(timers', stack'[i].ev)
    <2>1. i \in 1 .. n - 1 \/ i \in n .. m
      BY <1>1, <1>2
    <2>2. CASE i \in 1 .. n - 1
      <3>1. stack[i].pc \in ArmedPC /\ i \in 1 .. n /\ i < n
        BY <1>1, <1>2, <1>3, <2>2
      <3>2. i \in TimerLockHolders
        BY <3>1 DEF TimerLockHolders, ArmedPC, SetTimerPC
      <3> QED
        BY <3>1, <3>2, OneHolder
    <2>3. CASE i \in n .. m
      BY <1>3, <2>3
    <2> QED
      BY <2>1, <2>2, <2>3
  <1> QED
    BY <1>2, <1>3 DEF TimersOK

LEMMA HolderSteps ==
    ASSUME IInv, IInv', Nested, ReadOnce, TimersOK, TimersStep
    PROVE  TimersOK'
  <1>1. PICK n \in Nat : n = Len(stack) /\ n >= 1 /\ Top = stack[n]
    BY StackLen
  <1>2. timers \in Seq(Event) /\ trigger \in [Event -> Nat] /\ trigger' \in [Event -> Nat]
    BY DEF IInv, DataOK
  <1>3. Sorted(timers, trigger) /\ IsInjective(timers)
    BY DEF TimersOK
  <1>4. Top.pc \in SetTimerPC \cup {"ctLoop", "ctRearm", "ctInsert"} => n \in TimerLockHolders
    BY <1>1 DEF TimerLockHolders
  <1>5. PICK e : e = Top.ev
    OBVIOUS
  <1>6. Top.pc \in ArmedPC => ~Contains(timers, e)
    BY <1>1, <1>5 DEF TimersOK
  <1>7. \A l : Restore(l).pc \notin ArmedPC
    BY FrameFields DEF Restore, ArmedPC
  <1>8. \A i \in n .. n : i = n
    BY <1>1
  <1>9. \A pc, l, ev, v : F(pc, l, ev, v).pc = pc /\ F(pc, l, ev, v).ev = ev
    BY FrameFields
  <1>10. CASE TimerRemove
    <2>1. /\ Top.pc \in SetTimerPC /\ Keeps(n - 1, n)
          /\ \/ stack'[n] = Restore(Top.lvl)
             \/ \E time : stack'[n] = F("stArm", Top.lvl, e, time)
      BY <1>1, <1>5, <1>10, TimerRemoveMove DEF SetTimerPC
    <2>2. PICK s : s = Unlinked(timers, e)
      OBVIOUS
    <2>3. timers' = s /\ trigger' = [trigger EXCEPT ![e] = 0]
      BY <1>5, <1>10, <2>2 DEF TimerRemove
    <2>4. s \in Seq(Event) /\ IsInjective(s) /\ ~Contains(s, e)
      BY <1>2, <1>3, <2>2, UnlinkedHolds
    <2>5. Sorted(s, trigger)
      BY <1>2, <1>3, <2>2, SortedUnlinked
    <2>6. \A x : Contains(s, x) => trigger'[x] = trigger[x]
      <3>1. \A x \in Event : x # e => trigger'[x] = trigger[x]
        BY <1>2, <2>3
      <3>2. \A x : Contains(s, x) => x \in Event
        BY <2>4, ListOnce, ElementOfSeq
      <3> QED
        BY <2>4, <3>1, <3>2
    <2>7. Sorted(s, trigger')
      BY <2>4, <2>5, <2>6, SortedElsewhere
    <2>8. stack'[n].pc \in ArmedPC => stack'[n].ev = e
      BY <1>7, <1>9, <2>1
    <2> QED
      BY <1>1, <1>4, <1>8, <2>1, <2>3, <2>4, <2>7, <2>8, HolderStep
  <1>11. CASE TimerArm \/ CheckTimersRearm
    <2>1. /\ Top.pc \in ArmedPC /\ Top.pc \in SetTimerPC \cup {"ctLoop", "ctRearm", "ctInsert"}
          /\ Keeps(n - 1, n) /\ stack'[n].ev = e
      BY <1>1, <1>5, <1>9, <1>11, TimerArmMove, CheckTimersRearmMove DEF ArmedPC, SetTimerPC
    <2>2. timers' = timers /\ \E v : trigger' = [trigger EXCEPT ![e] = v]
      BY <1>5, <1>11 DEF TimerArm, CheckTimersRearm
    <2>3. ~Contains(timers, e)
      BY <1>6, <2>1
    <2>4. \A x : Contains(timers, x) => trigger'[x] = trigger[x]
      <3>1. \A x \in Event : x # e => trigger'[x] = trigger[x]
        BY <1>2, <2>2
      <3>2. \A x : Contains(timers, x) => x \in Event
        BY <1>2, ListOnce, ElementOfSeq
      <3> QED
        BY <2>3, <3>1, <3>2
    <2>5. Sorted(timers, trigger')
      BY <1>2, <1>3, <2>4, SortedElsewhere
    <2> QED
      BY <1>1, <1>3, <1>4, <1>8, <2>1, <2>2, <2>3, <2>5, HolderStep
  <1>12. CASE TimerInsert \/ CheckTimersInsert
    <2>1. /\ Top.pc \in ArmedPC /\ Top.pc \in SetTimerPC \cup {"ctLoop", "ctRearm", "ctInsert"}
          /\ Keeps(n - 1, n) /\ stack'[n].pc \notin ArmedPC
      BY <1>1, <1>7, <1>9, <1>12, TimerInsertMove, CheckTimersInsertMove DEF ArmedPC, SetTimerPC
    <2>2. PICK k \in 1 .. Len(timers) + 1 : k = TimerPlace(e)
      BY <1>2, TimerPlaceType
    <2>3. PICK s : s = InsertAt(timers, k, e)
      OBVIOUS
    <2>4. timers' = s /\ trigger' = trigger
      BY <1>5, <1>12, <2>2, <2>3 DEF TimerInsert, CheckTimersInsert
    <2>5. e \in Event
      BY <1>5, <2>1, TopFacts DEF GoodFrame, EventPC, SetTimerPC, TimersPC, ArmedPC
    <2>6. Sorted(s, trigger)
      BY <1>2, <1>3, <2>2, <2>3, <2>5, SortedInsert
    <2>7. IsInjective(s)
      <3>1. ~Contains(timers, e)
        BY <1>6, <2>1
      <3> QED
        BY <1>2, <1>3, <2>3, <2>5, <3>1, InsertHolds
    <2> QED
      BY <1>1, <1>4, <1>8, <2>1, <2>4, <2>6, <2>7, HolderStep
  <1>13. CASE CheckTimersOnce
    <2>1. /\ Top.pc = "ctRearm" /\ Keeps(n - 1, n) /\ stack'[n].pc \notin ArmedPC
      BY <1>1, <1>9, <1>13, CheckTimersOnceMove DEF ArmedPC
    <2>2. timers' = timers /\ trigger' = trigger
      BY <1>13 DEF CheckTimersOnce, timerVars
    <2> QED
      BY <1>1, <1>3, <1>4, <1>8, <2>1, <2>2, HolderStep
  <1>14. CASE CheckTimersFire
    <2>1. PICK h : h = Head(timers)
      OBVIOUS
    <2>2. timers # <<>> /\ timers' = Tail(timers) /\ trigger' = trigger
      BY <1>14 DEF CheckTimersFire, CheckTimersExpired
    <2>3. Top.pc = "ctLoop"
      BY <1>1, <1>14, <2>1, CheckTimersFireMove
    <2>4. PICK s : s = Tail(timers)
      OBVIOUS
    <2>5. IsInjective(s) /\ ~Contains(s, h)
      BY <1>2, <1>3, <2>1, <2>2, <2>4, TailHolds
    <2>6. Sorted(s, trigger)
      BY <1>2, <1>3, <2>2, <2>4, SortedTail
    <2>7. \E m : /\ Keeps(n - 1, m)
                 /\ \A i \in n .. m : stack'[i].pc \in ArmedPC => stack'[i].ev = h
      <3>1. CASE /\ Keeps(n - 1, n + 1) /\ stack'[n] = F("ctRearm", Top.lvl, h, Top.val)
                 /\ stack'[n + 1] = Restore(tpl)
        <4>1. \A i \in n .. n + 1 : i = n \/ i = n + 1
          BY <1>1
        <4> QED
          BY <1>7, <1>9, <3>1, <4>1
      <3>2. CASE /\ Keeps(n - 1, n + 2) /\ stack'[n] = F("ctRearm", Top.lvl, h, Top.val)
                 /\ stack'[n + 1] = F("gLock", tpl, h, 0) /\ stack'[n + 2] = Restore(tpl)
        <4>1. \A i \in n .. n + 2 : i = n \/ i = n + 1 \/ i = n + 2
          BY <1>1
        <4> QED
          BY <1>7, <1>9, <3>2, <4>1
      <3> QED
        BY <1>1, <1>14, <2>1, <3>1, <3>2, CheckTimersFireMove
    <2>8. PICK m : /\ Keeps(n - 1, m)
                   /\ \A i \in n .. m : stack'[i].pc \in ArmedPC => stack'[i].ev = h
      BY <2>7
    <2>9. \A i \in n .. m : stack'[i].pc \in ArmedPC => stack'[i].ev = h /\ ~Contains(timers', h)
      BY <2>2, <2>4, <2>5, <2>8
    <2> QED
      BY <1>1, <1>4, <2>2, <2>3, <2>4, <2>5, <2>6, <2>8, <2>9, HolderStep
  <1> QED
    BY <1>10, <1>11, <1>12, <1>13, <1>14 DEF TimersStep


LEMMA TimersUnchanged ==
    ASSUME OtherStep \/ GroupLock \/ GroupWalk \/ GroupRelease
    PROVE  timers' = timers /\ trigger' = trigger
  <1>1. CASE ClientCall
    BY <1>1 DEF ClientCall, UserCreateEvent, UserSignalEvent, UserCheckEvent, UserCloseEvent,
       UserSetTimer, UserWaitForEvent, UserRaiseTpl, timerVars
  <1>2. CASE CoreTimerTick \/ CheckTimersStart \/ CheckTimersDone
    BY <1>2 DEF CoreTimerTick, CheckTimersStart, CheckTimersDone, timerVars
  <1>3. CASE GroupLock \/ GroupWalk \/ GroupRelease \/ GroupReturn \/ RestoreCheck
             \/ RestorePick \/ RestoreSet \/ DispatchTake \/ DispatchNotify \/ DispatchDone
    BY <1>3 DEF GroupLock, GroupWalk, GroupRelease, GroupReturn, RestoreCheck, RestorePick,
       RestoreSet, DispatchTake, DispatchNotify, DispatchDone, timerVars
  <1>4. CASE CloseUnlink \/ CloseFree \/ CheckQueue \/ CheckRead \/ CheckClear \/ CheckReturn
             \/ WaitCheck \/ WaitIdle \/ UserRestoreTpl \/ NotifyReturn
    BY <1>4 DEF CloseUnlink, CloseFree, CheckQueue, CheckRead, CheckClear, CheckReturn, WaitCheck,
       WaitIdle, UserRestoreTpl, NotifyReturn, timerVars
  <1> QED
    BY <1>1, <1>2, <1>3, <1>4 DEF OtherStep

LEMMA TimersOKNext ==
    ASSUME IInv, IInv', SignalInv, Nested, ReadOnce, TimersOK, [Next]_vars
    PROVE  TimersOK'
  <1>1. CASE UNCHANGED vars
    BY <1>1 DEF vars, TimersOK, Sorted
  <1>2. CASE TimersStep
    BY <1>2, HolderSteps
  <1>3. CASE OtherStep
    <2>1. PICK k, m : Change(k, m, {})
      BY <1>3, OtherChange DEF SignalInv
    <2>2. Keeps(k, m) /\ \A i \in k + 1 .. m : stack'[i].pc \notin ArmedPC
      BY <2>1 DEF Change, Fresh
    <2> QED
      BY <1>3, <2>2, TimersUnchanged, TimersAlone
  <1>4. CASE GroupLock \/ GroupWalk \/ GroupRelease
    <2>1. PICK n \in Nat : n = Len(stack) /\ n >= 1
      BY StackLen
    <2>2. \/ Keeps(n - 1, n) /\ stack'[n].pc = "gWalk"
          \/ Keeps(n - 1, n + 1) /\ stack'[n].pc = "gReturn" /\ stack'[n + 1].pc = "rCheck"
      BY <1>4, <2>1, GroupLockMove, GroupWalkMove, GroupReleaseMove, FrameFields DEF Restore
    <2>3. {"gWalk", "gReturn", "rCheck"} \cap ArmedPC = {}
      BY DEF ArmedPC
    <2>4. (\A i \in (n - 1) + 1 .. n : i = n) /\ \A i \in (n - 1) + 1 .. n + 1 : i = n \/ i = n + 1
      BY <2>1
    <2>5. \E m : Keeps(n - 1, m) /\ \A i \in (n - 1) + 1 .. m : stack'[i].pc \notin ArmedPC
      BY <2>2, <2>3, <2>4
    <2> QED
      BY <1>4, <2>5, TimersUnchanged, TimersAlone
  <1> QED
    BY <1>1, <1>2, <1>3, <1>4 DEF Next, Continue, OtherStep, TimersStep

LEMMA InitTimers == Init => TimersOK
  <1> SUFFICES ASSUME Init
               PROVE  TimersOK
    OBVIOUS
  <1>1. timers = <<>> /\ Len(stack) = 1 /\ stack[1].pc = "user"
    BY FrameFields DEF Init
  <1>2. Sorted(timers, trigger) /\ IsInjective(timers)
    BY <1>1 DEF Sorted, IsInjective
  <1> QED
    BY <1>1, <1>2 DEF TimersOK, ArmedPC

LEMMA TimersInvariance ==
    ASSUME ReadOnce
    PROVE  Spec => []TimersOK
  <1>1. IInv /\ IInv' /\ SignalInv /\ Nested /\ TimersOK /\ [Next]_vars => TimersOK'
    BY TimersOKNext
  <1> QED
    BY <1>1, InitTimers, Invariance, SignalInvariance, NestedInvariance, PTL DEF Spec

\* mEfiTimerList stays in order of trigger time, each timer at most once on it,
\* though ticks and notifications come between the steps of CoreSetTimer and
\* of CoreCheckTimers: the lock keeps them all off the list.
THEOREM TimersStaySorted ==
    ASSUME ReadOnce
    PROVE  Spec => []TimersSorted
  <1>1. TimersOK => TimersSorted
    BY DEF TimersOK, TimersSorted, Sorted
  <1> QED
    BY <1>1, TimersInvariance, PTL


(***************************************************************************)
(* The life of an event: who uses it, who closes it.                       *)
(***************************************************************************)

\* The points of the calls that go on to read their event, and of those among
\* them that may link it again.
CallPC == {"ctRearm", "ctInsert"} \cup SetTimerPC \cup CheckPC
UsePC  == {"dNotify", "gLock", "gWalk"} \cup CallPC \cup ClosePC

WaitsFor(f, x) == f.pc = "wtNext" /\ Contains(UserEvents, x)

Uses(f, x)    == (f.pc \in UsePC /\ f.ev = x) \/ WaitsFor(f, x)
Calls(f, x)   == (f.pc \in CallPC /\ f.ev = x) \/ WaitsFor(f, x)
Closes(f, x)  == f.pc \in ClosePC /\ f.ev = x
Cancels(f, x) == f.pc = "TimerCancel" /\ f.ev = x

UsedIsOpen ==
    \A i \in 1 .. Len(stack) : \A x \in Event : Uses(stack[i], x) => state[x] = "open"

\* The core's own events are never closed.
CoreIsOpen ==
    /\ state[mEfiCheckTimerEvent] = "open" /\ state[gIdleLoopEvent] = "open"
    /\ \A i \in 1 .. Len(stack) : \A x \in Event : Closes(stack[i], x) => Client(x)

\* Nothing that CoreCloseEvent interrupts uses its event.
ClosedIsUnused ==
    \A j \in 1 .. Len(stack) : \A i \in 1 .. j - 1 : \A x \in Event :
        Closes(stack[j], x) => ~Uses(stack[i], x)

\* Nothing that interrupts it links the event again: the one call about the
\* event is its own, which cancels the timer.
ClosedIsLeft ==
    \A j \in 1 .. Len(stack) : \A i \in 1 .. j - 1 : \A x \in Event :
        Closes(stack[i], x) /\ Calls(stack[j], x) =>
            j = i + 1 /\ stack[i].pc = "clUnlink" /\ stack[j].pc = "TimerCancel"

CancelComesFirst ==
    \A i \in 1 .. Len(stack) : \A x \in Event :
        Closes(stack[i], x) /\ Contains(timers, x) =>
            i + 1 \in 1 .. Len(stack) /\ Cancels(stack[i + 1], x)

FreeingIsUnlinked ==
    \A i \in 1 .. Len(stack) : \A x \in Event :
        stack[i].pc = "clFree" /\ stack[i].ev = x => ~Linked(x)

\* Client code on top of a notification that is about to begin began at a
\* higher level.
ClientsAreAbove ==
    \A j \in 1 .. Len(stack) : \A i \in 1 .. j - 1 :
        stack[i].pc = "dNotify" /\ stack[j].pc \in UserPC => stack[i].lvl < stack[j].val

TimerPC == {"ctRearm", "ctInsert"} \cup SetTimerPC

TimersAreTimers ==
    /\ \A x \in Event : Contains(timers, x) => IsTimer[x]
    /\ \A i \in 1 .. Len(stack) : stack[i].pc \in TimerPC => IsTimer[stack[i].ev]

CloseInv ==
    /\ UsedIsOpen /\ FreedIsUnlinked /\ CoreIsOpen
    /\ ClosedIsUnused /\ ClosedIsLeft /\ CancelComesFirst /\ FreeingIsUnlinked
    /\ ClientsAreAbove /\ TimersAreTimers

(***************************************************************************)
(* What a step that keeps the frames up to k, and leaves m, has to respect *)
(***************************************************************************)
Dropped(k) ==
    \A i \in k + 1 .. Len(stack) :
        stack[i].pc = "TimerCancel" => ~Contains(timers', stack[i].ev)

NewUses(k, m) ==
    \A i \in k + 1 .. m : \A x \in Event :
        /\ Uses(stack'[i], x) => state'[x] = "open"
        /\ Calls(stack'[i], x) => \A j \in 1 .. k : ~Closes(stack[j], x)

NewCloses(k, m) ==
    \A i \in k + 1 .. m : \A x \in Event : Closes(stack'[i], x) =>
        /\ Client(x)
        /\ \A j \in 1 .. i - 1 : ~Uses(stack'[j], x)
        /\ \A j \in i + 1 .. m : Calls(stack'[j], x) =>
              j = i + 1 /\ stack'[i].pc = "clUnlink" /\ stack'[j].pc = "TimerCancel"
        /\ Contains(timers', x) => i + 1 \in k + 1 .. m /\ Cancels(stack'[i + 1], x)
        /\ stack'[i].pc = "clFree" => ~Linked(x)'

NewClients(k, m) ==
    \A i \in k + 1 .. m : stack'[i].pc \in UserPC =>
        \A j \in 1 .. i - 1 : stack'[j].pc = "dNotify" => stack'[j].lvl < stack'[i].val

NewTimers(k, m) ==
    \A i \in k + 1 .. m : stack'[i].pc \in TimerPC => IsTimer[stack'[i].ev]

\* What is linked was so before, or is open and not being closed;
Links ==
    \A x \in Event :
        /\ Linked(x)' => Linked(x) \/ (state'[x] = "open" /\ ~Closing(x))
        /\ Contains(timers', x) => Contains(timers, x) \/ (IsTimer[x] /\ ~Closing(x))

\* an event stays open, unless it is on no list, and nothing uses it.
Opens(k) ==
    \A x \in Event : state[x] = "open" =>
        \/ state'[x] = "open"
        \/ Client(x) /\ ~Linked(x) /\ \A i \in 1 .. k : ~Uses(stack[i], x)

\* Every conjunct of the invariant after such a step.
LEMMA CloseStep ==
    ASSUME IInv, CloseInv, NEW k, NEW m, Keeps(k, m), Dropped(k), NewUses(k, m), NewCloses(k, m),
           NewClients(k, m), NewTimers(k, m), Links, Opens(k)
    PROVE  CloseInv'
  <1>1. PICK n \in Nat : n = Len(stack) /\ n >= 1
    BY StackLen
  <1>2. /\ k \in Nat /\ m \in Nat /\ k <= n /\ k <= m /\ Len(stack') = m
        /\ \A i \in 1 .. k : stack'[i] = stack[i]
    BY <1>1 DEF Keeps
  <1>3. \A i \in 1 .. k : i \in 1 .. n
    BY <1>1, <1>2
  <1>4. \A i \in 1 .. m : i \in 1 .. k \/ i \in k + 1 .. m
    BY <1>2
  <1>5. mEfiCheckTimerEvent \in Event /\ gIdleLoopEvent \in Event
    BY EventAssumption
  <1>6. ASSUME NEW i \in 1 .. k, NEW x, Closes(stack[i], x)
        PROVE  Closing(x)
    BY <1>1, <1>3, <1>6 DEF Closing, Closes
  <1>7. UsedIsOpen'
    <2> SUFFICES ASSUME NEW i \in 1 .. m, NEW x \in Event, Uses(stack'[i], x)
                 PROVE  state'[x] = "open"
      BY <1>2 DEF UsedIsOpen
    <2>1. CASE i \in 1 .. k
      <3>1. Uses(stack[i], x)
        BY <1>2, <2>1
      <3>2. state[x] = "open"
        BY <1>1, <1>3, <2>1, <3>1 DEF CloseInv, UsedIsOpen
      <3> QED
        BY <2>1, <3>1, <3>2 DEF Opens
    <2>2. CASE i \in k + 1 .. m
      BY <2>2 DEF NewUses
    <2> QED
      BY <1>4, <2>1, <2>2
  <1>8. FreedIsUnlinked'
    <2> SUFFICES ASSUME NEW x \in Event, state'[x] # "open", Linked(x)'
                 PROVE  FALSE
      BY DEF FreedIsUnlinked
    <2>1. Linked(x)
      BY DEF Links
    <2>2. state[x] = "open"
      BY <2>1 DEF CloseInv, FreedIsUnlinked
    <2> QED
      BY <2>1, <2>2 DEF Opens
  <1>9. CoreIsOpen'
    <2>1. state'[mEfiCheckTimerEvent] = "open" /\ state'[gIdleLoopEvent] = "open"
      BY <1>5 DEF CloseInv, CoreIsOpen, Opens, Client
    <2>2. ASSUME NEW i \in 1 .. m, NEW x \in Event, Closes(stack'[i], x)
          PROVE  Client(x)
      <3>1. CASE i \in 1 .. k
        BY <1>1, <1>2, <1>3, <2>2, <3>1 DEF CloseInv, CoreIsOpen
      <3>2. CASE i \in k + 1 .. m
        BY <2>2, <3>2 DEF NewCloses
      <3> QED
        BY <1>4, <3>1, <3>2
    <2> QED
      BY <1>2, <2>1, <2>2 DEF CoreIsOpen
  <1>10. ClosedIsUnused'
    <2> SUFFICES ASSUME NEW j \in 1 .. m, NEW i \in 1 .. j - 1, NEW x \in Event,
                        Closes(stack'[j], x)
                 PROVE  ~Uses(stack'[i], x)
      BY <1>2 DEF ClosedIsUnused
    <2>1. CASE j \in 1 .. k
      <3>1. i \in 1 .. k
        BY <1>2, <2>1
      <3> QED
        BY <1>1, <1>2, <1>3, <2>1, <3>1 DEF CloseInv, ClosedIsUnused
    <2>2. CASE j \in k + 1 .. m
      BY <2>2 DEF NewCloses
    <2> QED
      BY <1>4, <2>1, <2>2
  <1>11. ClosedIsLeft'
    <2> SUFFICES ASSUME NEW j \in 1 .. m, NEW i \in 1 .. j - 1, NEW x \in Event,
                        Closes(stack'[i], x), Calls(stack'[j], x)
                 PROVE  j = i + 1 /\ stack'[i].pc = "clUnlink" /\ stack'[j].pc = "TimerCancel"
      BY <1>2 DEF ClosedIsLeft
    <2>1. i \in 1 .. m
      BY <1>2
    <2>2. CASE i \in k + 1 .. m
      <3>1. j \in i + 1 .. m
        BY <1>2, <2>1
      <3> QED
        BY <2>2, <3>1 DEF NewCloses
    <2>3. CASE i \in 1 .. k /\ j \in 1 .. k
      BY <1>1, <1>2, <1>3, <2>3 DEF CloseInv, ClosedIsLeft
    <2>4. CASE i \in 1 .. k /\ j \in k + 1 .. m
      BY <1>2, <2>4 DEF NewUses
    <2> QED
      BY <1>4, <2>1, <2>2, <2>3, <2>4
  <1>12. CancelComesFirst'
    <2> SUFFICES ASSUME NEW i \in 1 .. m, NEW x \in Event,
                        Closes(stack'[i], x), Contains(timers', x)
                 PROVE  i + 1 \in 1 .. m /\ Cancels(stack'[i + 1], x)
      BY <1>2 DEF CancelComesFirst
    <2>1. CASE i \in 1 .. k
      <3>1. Closes(stack[i], x) /\ i \in 1 .. n
        BY <1>2, <1>3, <2>1
      <3>2. Contains(timers, x)
        BY <1>6, <2>1, <3>1 DEF Links
      <3>3. i + 1 \in 1 .. n /\ Cancels(stack[i + 1], x)
        BY <1>1, <3>1, <3>2 DEF CloseInv, CancelComesFirst
      <3>4. i + 1 \notin k + 1 .. n
        BY <1>1, <3>3 DEF Dropped, Cancels
      <3>5. i + 1 \in 1 .. k /\ i + 1 \in 1 .. m
        BY <1>2, <3>3, <3>4
      <3> QED
        BY <1>2, <3>3, <3>5
    <2>2. CASE i \in k + 1 .. m
      <3>1. i + 1 \in k + 1 .. m /\ Cancels(stack'[i + 1], x)
        BY <2>2 DEF NewCloses
      <3> QED
        BY <1>2, <3>1
    <2> QED
      BY <1>4, <2>1, <2>2
  <1>13. FreeingIsUnlinked'
    <2> SUFFICES ASSUME NEW i \in 1 .. m, NEW x \in Event,
                        stack'[i].pc = "clFree" /\ stack'[i].ev = x, Linked(x)'
                 PROVE  FALSE
      BY <1>2 DEF FreeingIsUnlinked
    <2>1. CASE i \in 1 .. k
      <3>1. stack[i].pc = "clFree" /\ stack[i].ev = x /\ i \in 1 .. n
        BY <1>2, <1>3, <2>1
      <3>2. Closing(x)
        BY <1>6, <2>1, <3>1 DEF Closes, ClosePC
      <3>3. Linked(x)
        BY <3>2 DEF Links
      <3> QED
        BY <1>1, <3>1, <3>3 DEF CloseInv, FreeingIsUnlinked
    <2>2. CASE i \in k + 1 .. m
      BY <2>2 DEF NewCloses, Closes, ClosePC
    <2> QED
      BY <1>4, <2>1, <2>2
  <1>14. ClientsAreAbove'
    <2> SUFFICES ASSUME NEW j \in 1 .. m, NEW i \in 1 .. j - 1,
                        stack'[i].pc = "dNotify", stack'[j].pc \in UserPC
                 PROVE  stack'[i].lvl < stack'[j].val
      BY <1>2 DEF ClientsAreAbove
    <2>1. CASE j \in 1 .. k
      <3>1. i \in 1 .. k
        BY <1>2, <2>1
      <3> QED
        BY <1>1, <1>2, <1>3, <2>1, <3>1 DEF CloseInv, ClientsAreAbove
    <2>2. CASE j \in k + 1 .. m
      BY <2>2 DEF NewClients
    <2> QED
      BY <1>4, <2>1, <2>2
  <1>15. TimersAreTimers'
    <2>1. \A x \in Event : Contains(timers', x) => IsTimer[x]
      BY DEF CloseInv, TimersAreTimers, Links
    <2>2. ASSUME NEW i \in 1 .. m, stack'[i].pc \in TimerPC
          PROVE  IsTimer[stack'[i].ev]
      <3>1. CASE i \in 1 .. k
        BY <1>1, <1>2, <1>3, <2>2, <3>1 DEF CloseInv, TimersAreTimers
      <3>2. CASE i \in k + 1 .. m
        BY <2>2, <3>2 DEF NewTimers
      <3> QED
        BY <1>4, <3>1, <3>2
    <2> QED
      BY <1>2, <2>1, <2>2 DEF TimersAreTimers
  <1> QED
    BY <1>7, <1>8, <1>9, <1>10, <1>11, <1>12, <1>13, <1>14, <1>15 DEF CloseInv


(***************************************************************************)
(* What a step links.                                                      *)
(***************************************************************************)

\* Events a step may link: those that are linked, and open ones that nobody
\* closes.
Linkable(x) == Linked(x) \/ (state[x] = "open" /\ ~Closing(x))

LEMMA OnLists ==
    ASSUME QueuesHold, NEW x \in Event
    PROVE  Linked(x) <=> Queued(x) \/ Listed(x) \/ Contains(timers, x)
  BY NotifyTplAssumption DEF QueuesHold, Linked, Queued, Listed

LEMMA OnListsNext ==
    ASSUME QueuesHold', NEW x \in Event, Linked(x)'
    PROVE  Queued(x)' \/ Listed(x)' \/ Contains(timers', x)
  BY DEF QueuesHold, Linked, Queued, Listed

\* The event a call on top is about is open, and nothing below closes it.
LEMMA CallIsSafe ==
    ASSUME IInv, CloseInv, NEW n, n = Len(stack), NEW x \in Event, Calls(Top, x),
           Top.pc # "TimerCancel"
    PROVE  /\ state[x] = "open" /\ ~Closing(x)
           /\ \A j \in 1 .. n : ~Closes(stack[j], x)
  <1>1. n \in Nat /\ n >= 1 /\ Top = stack[n] /\ n \in 1 .. n
    BY StackLen
  <1>2. state[x] = "open"
    <2>1. Uses(Top, x)
      BY DEF Uses, Calls, UsePC
    <2> QED
      BY <1>1, <2>1 DEF CloseInv, UsedIsOpen
  <1>3. ASSUME NEW j \in 1 .. n, Closes(stack[j], x)
        PROVE  FALSE
    <2>1. CASE j = n
      BY <1>1, <1>3, <2>1 DEF Closes, Calls, WaitsFor, CallPC, ClosePC, SetTimerPC, CheckPC
    <2>2. CASE j \in 1 .. n - 1
      BY <1>1, <1>3, <2>2 DEF CloseInv, ClosedIsLeft
    <2> QED
      BY <1>1, <2>1, <2>2
  <1>4. ~Closing(x)
    BY <1>3 DEF Closing, Closes
  <1> QED
    BY <1>2, <1>3, <1>4

\* The core's own events, and those that clients use, are open and not being
\* closed.
LEMMA OpenIsLinkable ==
    ASSUME CloseInv
    PROVE  /\ Linkable(mEfiCheckTimerEvent) /\ Linkable(gIdleLoopEvent)
           /\ \A x : Usable(x) => Linkable(x)
  <1>1. mEfiCheckTimerEvent \in Event /\ gIdleLoopEvent \in Event
    BY EventAssumption
  <1>2. ~Closing(mEfiCheckTimerEvent) /\ ~Closing(gIdleLoopEvent)
    BY <1>1 DEF CloseInv, CoreIsOpen, Closing, Closes, Client
  <1> QED
    BY <1>2 DEF Linkable, CloseInv, CoreIsOpen, Usable

\* Whatever is queued is queued by a signal, or by a check of the event.
LEMMA QueueGains ==
    ASSUME IInv, QueuesHold, CloseInv, [Next]_vars
    PROVE  \/ queue' = queue
           \/ \E e \in Event : CoreNotifyEvent(e) /\ Linkable(e) /\ state' = state
           \/ DispatchTake
           \/ CloseUnlink
  <1>1. mEfiCheckTimerEvent \in Event /\ gIdleLoopEvent \in Event
    BY EventAssumption
  <1>2. /\ Linkable(mEfiCheckTimerEvent) /\ Linkable(gIdleLoopEvent)
        /\ \A x : Usable(x) => Linkable(x)
    BY OpenIsLinkable
  <1>3. SignalCheckTimers =>
            queue' = queue \/ \E e \in Event : CoreNotifyEvent(e) /\ Linkable(e)
    BY <1>1, <1>2 DEF SignalCheckTimers
  <1>4. ASSUME NEW e \in Event, NEW c, NEW t, CoreSignalEvent(e, c, t), Linkable(e)
        PROVE  queue' = queue \/ \E x \in Event : CoreNotifyEvent(x) /\ Linkable(x)
    BY <1>4 DEF CoreSignalEvent
  <1>5. ASSUME NEW e \in Event, UserSignalEvent(e)
        PROVE  \/ queue' = queue
               \/ \E x \in Event : CoreNotifyEvent(x) /\ Linkable(x) /\ state' = state
    <2>1. CoreSignalEvent(e, stack, tpl) /\ Linkable(e) /\ state' = state
      BY <1>2, <1>5 DEF UserSignalEvent, eventVars
    <2> QED
      BY <1>4, <2>1
  <1>6. CASE ClientCall
    BY <1>5, <1>6 DEF ClientCall, UserCreateEvent, UserCheckEvent,
       UserCloseEvent, UserSetTimer, UserWaitForEvent, UserRaiseTpl
  <1>7. CASE CoreTimerTick
    BY <1>3, <1>7 DEF CoreTimerTick, eventVars
  <1>8. CASE UNCHANGED vars
    BY <1>8 DEF vars
  <1>9. CASE GroupLock \/ GroupRelease \/ GroupReturn
    BY <1>9 DEF GroupLock, GroupRelease, GroupReturn
  <1>10. CASE GroupWalk
    <2>1. PICK e : e = signalq[Top.val]
      OBVIOUS
    <2>2. e \in Event /\ Listed(e)
      <3>1. signalq \in Seq(Event) /\ Top.val \in 1 .. Len(signalq)
        BY <1>10 DEF GroupWalk, IInv, DataOK
      <3> QED
        BY <2>1, <3>1, ElementOfSeq, ListOnce DEF Listed
    <2>3. Linkable(e)
      BY <2>2, OnLists DEF Linkable
    <2> QED
      BY <1>10, <2>1, <2>2, <2>3 DEF GroupWalk, eventVars
  <1>11. CASE RestoreCheck \/ RestorePick \/ RestoreSet \/ DispatchNotify \/ DispatchDone
             \/ NotifyReturn \/ UserRestoreTpl
    BY <1>11 DEF RestoreCheck, RestorePick, RestoreSet, DispatchNotify, DispatchDone,
       NotifyReturn, UserRestoreTpl
  <1>12. CASE TimerRemove \/ TimerArm \/ TimerInsert
    BY <1>3, <1>12 DEF TimerRemove, TimerArm, TimerInsert, eventVars
  <1>13. CASE CheckTimersStart \/ CheckTimersRearm \/ CheckTimersInsert
              \/ CheckTimersOnce \/ CheckTimersDone
    BY <1>3, <1>13 DEF CheckTimersStart, CheckTimersRearm, CheckTimersInsert,
       CheckTimersOnce, CheckTimersDone, eventVars
  <1>14. CASE CheckTimersFire
    <2>1. PICK e : e = Head(timers)
      OBVIOUS
    <2>2. e \in Event /\ Contains(timers, e)
      BY <1>14, <2>1, FirstTimer DEF CheckTimersFire, CheckTimersExpired
    <2>3. Linkable(e)
      BY <2>2 DEF Linkable, Linked
    <2>4. (\E c, t : CoreSignalEvent(e, c, t)) /\ state' = state
      BY <1>14, <2>1 DEF CheckTimersFire, eventVars
    <2> QED
      BY <1>4, <2>2, <2>3, <2>4
  <1>15. CASE CloseFree \/ CheckRead \/ CheckClear \/ CheckReturn \/ WaitCheck
    BY <1>15 DEF CloseFree, CheckRead, CheckClear, CheckReturn, WaitCheck
  <1>16. CASE CheckQueue
    <2>1. PICK e \in Event : e = Top.ev
      BY <1>16, TopFacts DEF CheckQueue, At, GoodFrame, EventPC, CheckPC
    <2>2. Calls(Top, e) /\ Top.pc # "TimerCancel"
      BY <1>16, <2>1 DEF CheckQueue, At, Calls, CallPC, CheckPC
    <2>3. Linkable(e)
      BY <2>2, CallIsSafe DEF Linkable
    <2> QED
      BY <1>16, <2>1, <2>3 DEF CheckQueue, eventVars
  <1>17. CASE WaitIdle
    BY <1>1, <1>2, <1>4, <1>17 DEF WaitIdle, eventVars
  <1> QED
    BY <1>6, <1>7, <1>8, <1>9, <1>10, <1>11, <1>12, <1>13, <1>14, <1>15, <1>16, <1>17
    DEF Next, Continue


\* Timers are put on the list by calls about them, which nothing closes.
LEMMA TimerGains ==
    ASSUME IInv, CloseInv, [Next]_vars, NEW x \in Event, Contains(timers', x), ~Contains(timers, x)
    PROVE  IsTimer[x] /\ ~Closing(x) /\ state'[x] = "open"
  <1>1. timers \in Seq(Event)
    BY DEF IInv, DataOK
  <1>2. /\ TimerInsert \/ CheckTimersInsert
        /\ Top.pc \in ArmedPC /\ Top.ev \in Event
        /\ TimerPlace(Top.ev) \in 1 .. Len(timers) + 1
        /\ timers' = InsertAt(timers, TimerPlace(Top.ev), Top.ev)
    <2>1. timers' # timers
      OBVIOUS
    <2>2. timers' # Unlinked(timers, Top.ev)
      BY <1>1, UnlinkedWithin
    <2>3. ~ (timers # <<>> /\ timers' = Tail(timers))
      BY <1>1, TailWithin
    <2> QED
      BY <2>1, <2>2, <2>3, TimersList
  <1>3. PICK k, e : k = TimerPlace(Top.ev) /\ e = Top.ev
    OBVIOUS
  <1>4. \A y : Contains(InsertAt(timers, k, e), y) => Contains(timers, y) \/ y = e
    BY <1>1, <1>2, <1>3, InsertWithin
  <1>5. x = Top.ev
    BY <1>2, <1>3, <1>4
  <1>6. Calls(Top, x) /\ Top.pc # "TimerCancel" /\ Top.pc \in TimerPC
    BY <1>2, <1>5 DEF Calls, CallPC, ArmedPC, SetTimerPC, TimerPC
  <1>7. ~Closing(x) /\ state[x] = "open"
    BY <1>6, CallIsSafe
  <1>8. IsTimer[x]
    <2>1. Top = stack[Len(stack)] /\ Len(stack) \in 1 .. Len(stack)
      BY StackLen
    <2> QED
      BY <1>5, <1>6, <2>1 DEF CloseInv, TimersAreTimers
  <1>9. state' = state
    BY <1>2 DEF TimerInsert, CheckTimersInsert, eventVars
  <1> QED
    BY <1>7, <1>8, <1>9

\* The signal queue gains the events that are created.
LEMMA SignalGains ==
    ASSUME IInv, SignalsMade, CloseInv, [Next]_vars, NEW x \in Event, Listed(x)', ~Listed(x)
    PROVE  state'[x] = "open" /\ ~Closing(x)
  <1>1. signalq \in Seq(Event)
    BY DEF IInv, DataOK
  <1>2. signalq' = signalq \/ CloseUnlink \/ \E e \in Event : UserCreateEvent(e)
    <2>1. CASE ClientCall
      BY <2>1 DEF ClientCall, UserSignalEvent, UserCheckEvent, UserCloseEvent, UserSetTimer,
         UserWaitForEvent, UserRaiseTpl, eventVars
    <2>2. CASE CoreTimerTick \/ UNCHANGED vars
      BY <2>2 DEF CoreTimerTick, vars, eventVars
    <2>3. CASE GroupLock \/ GroupWalk \/ GroupRelease \/ GroupReturn \/ RestoreCheck
               \/ RestorePick \/ RestoreSet \/ DispatchTake \/ DispatchNotify \/ DispatchDone
      BY <2>3 DEF GroupLock, GroupWalk, GroupRelease, GroupReturn, RestoreCheck, RestorePick,
         RestoreSet, DispatchTake, DispatchNotify, DispatchDone, eventVars
    <2>4. CASE TimersStep \/ CheckTimersStart \/ CheckTimersDone
      BY <2>4 DEF TimersStep, TimerRemove, TimerArm, TimerInsert, CheckTimersFire,
         CheckTimersRearm, CheckTimersInsert, CheckTimersOnce, CheckTimersStart,
         CheckTimersDone, eventVars
    <2>5. CASE CloseFree \/ CheckQueue \/ CheckRead \/ CheckClear \/ CheckReturn
               \/ WaitCheck \/ WaitIdle \/ UserRestoreTpl \/ NotifyReturn
      BY <2>5 DEF CloseFree, CheckQueue, CheckRead, CheckClear, CheckReturn, WaitCheck,
         WaitIdle, UserRestoreTpl, NotifyReturn, eventVars
    <2> QED
      BY <2>1, <2>2, <2>3, <2>4, <2>5 DEF Next, Continue, TimersStep
  <1>3. ~CloseUnlink
    <2>1. PICK e, s : e = Top.ev /\ s = Unlinked(signalq, e)
      OBVIOUS
    <2>2. \A y : Contains(s, y) => Contains(signalq, y)
      BY <1>1, <2>1, UnlinkedWithin
    <2>3. CloseUnlink => signalq' = s
      BY <2>1 DEF CloseUnlink
    <2> QED
      BY <2>2, <2>3 DEF Listed
  <1>4. PICK e \in Event : UserCreateEvent(e)
    BY <1>2, <1>3 DEF Listed
  <1>5. x = e
    <2>1. signalq' = signalq \/ signalq' = <<e>> \o signalq
      BY <1>4 DEF UserCreateEvent
    <2>2. PICK s : s = <<e>> \o signalq
      OBVIOUS
    <2>3. ~Contains(signalq, e) /\ IsInjective(signalq)
      BY <1>4 DEF UserCreateEvent, SignalsMade, Made, Listed
    <2>4. \A y : Contains(s, y) => Contains(signalq, y) \/ y = e
      BY <1>1, <2>2, <2>3, PrependHolds
    <2> QED
      BY <2>1, <2>2, <2>4 DEF Listed
  <1>6. state[x] = "none" /\ state'[x] = "open"
    BY <1>4, <1>5 DEF UserCreateEvent, IInv, DataOK
  <1>7. ~Closing(x)
    BY <1>6 DEF Closing, CloseInv, UsedIsOpen, Uses, UsePC
  <1> QED
    BY <1>6, <1>7

\* What is linked after a step was so before, or is open and not being closed.
LEMMA LinksHold ==
    ASSUME IInv, QueuesHold, QueuesHold', SignalsMade, CloseInv, [Next]_vars
    PROVE  Links
  <1>1. ASSUME NEW x \in Event, Queued(x)', ~Linked(x)
        PROVE  state'[x] = "open" /\ ~Closing(x)
    <2>1. ~Queued(x)
      BY <1>1, OnLists
    <2>2. queue' # queue
      BY <1>1, <2>1 DEF Queued
    <2>3. ~DispatchTake /\ ~CloseUnlink
      BY <1>1, <2>1, TakeHolds, CloseHolds
    <2>4. PICK e \in Event : CoreNotifyEvent(e) /\ Linkable(e) /\ state' = state
      BY <2>2, <2>3, QueueGains
    <2>5. x = e
      BY <1>1, <2>1, <2>4, NotifyHolds DEF IInv
    <2> QED
      BY <1>1, <2>4, <2>5 DEF Linkable
  <1>2. ASSUME NEW x \in Event, Linked(x)', ~Linked(x)
        PROVE  state'[x] = "open" /\ ~Closing(x)
    <2>1. ~Listed(x) /\ ~Contains(timers, x)
      BY <1>2 DEF Linked, Listed
    <2>2. Queued(x)' \/ Listed(x)' \/ Contains(timers', x)
      BY <1>2, OnListsNext
    <2> QED
      BY <1>1, <1>2, <2>1, <2>2, SignalGains, TimerGains
  <1> QED
    BY <1>2, TimerGains DEF Links


(***************************************************************************)
(* Frames that change or come on top of the frames up to k without closing *)
(* an event or being client code.                                          *)
(***************************************************************************)
Fine(f, k) ==
    /\ f.pc \notin ClosePC \cup UserPC
    /\ f.pc \in TimerPC => IsTimer[f.ev]
    /\ \A x \in Event :
          /\ Uses(f, x) => state'[x] = "open"
          /\ Calls(f, x) => \A j \in 1 .. k : ~Closes(stack[j], x)

Kept(k, m) ==
    /\ Keeps(k, m) /\ Dropped(k)
    /\ \A i \in k + 1 .. m : Fine(stack'[i], k)

LEMMA KeptStep ==
    ASSUME IInv, CloseInv, NEW k, NEW m, Kept(k, m), Links, Opens(k)
    PROVE  CloseInv'
  <1>1. NewUses(k, m) /\ NewTimers(k, m) /\ NewClients(k, m)
    BY DEF Kept, Fine, NewUses, NewTimers, NewClients
  <1>2. NewCloses(k, m)
    BY DEF Kept, Fine, NewCloses, Closes
  <1> QED
    BY <1>1, <1>2, CloseStep DEF Kept

\* Points of calls that leave their event alone.
IdlePC == PC \ (UsePC \cup UserPC \cup WaitPC)

LEMMA IdlePoints ==
    /\ RestorePC \cup {"dLoop", "dCalled", "gReturn", "ASSERT", "ctStart", "ctLoop"} = IdlePC
    /\ \A l : Restore(l).pc \in IdlePC
  BY FrameFields DEF IdlePC, PC, UsePC, UserPC, WaitPC, RestorePC, DispatchPC, GroupPC, SetTimerPC,
     TimersPC, ClosePC, CheckPC, CallPC, Restore

LEMMA IdleIsFine ==
    ASSUME NEW f, f.pc \in IdlePC, NEW k
    PROVE  Fine(f, k)
  <1>1. f.pc \notin UsePC \cup UserPC \cup ClosePC \cup CallPC \cup TimerPC \cup {"wtNext"}
    BY DEF IdlePC, UsePC, CallPC, TimerPC, WaitPC
  <1> QED
    BY <1>1 DEF Fine, Uses, Calls, WaitsFor

\* A frame that goes on with what the top frame is about.
LEMMA GoingOnIsFine ==
    ASSUME IInv, CloseInv, NEW n, n = Len(stack), state' = state, Top.pc # "TimerCancel",
           NEW f, f.pc \notin ClosePC \cup UserPC,
           f.pc \in TimerPC => Top.pc \in TimerPC /\ f.ev = Top.ev,
           \A x \in Event : (Uses(f, x) => Uses(Top, x)) /\ (Calls(f, x) => Calls(Top, x))
    PROVE  Fine(f, n - 1)
  <1>1. n \in Nat /\ n >= 1 /\ Top = stack[n] /\ n \in 1 .. n
    BY StackLen
  <1>2. f.pc \in TimerPC => IsTimer[f.ev]
    BY <1>1 DEF CloseInv, TimersAreTimers
  <1>3. \A x \in Event : Uses(f, x) => state'[x] = "open"
    BY <1>1 DEF CloseInv, UsedIsOpen
  <1>4. \A j \in 1 .. n - 1 : j \in 1 .. n
    BY <1>1
  <1>5. \A x \in Event : Calls(f, x) => \A j \in 1 .. n - 1 : ~Closes(stack[j], x)
    BY <1>4, CallIsSafe
  <1> QED
    BY <1>2, <1>3, <1>5 DEF Fine

\* How the steps change the stack.
LEMMA KeptBecome ==
    ASSUME IInv, NEW n, n = Len(stack), Keeps(n - 1, n), Fine(stack'[n], n - 1),
           Top.pc # "TimerCancel"
    PROVE  Kept(n - 1, n)
  <1>1. n \in Nat /\ n >= 1 /\ Top = stack[n]
    BY StackLen
  <1>2. \A i \in (n - 1) + 1 .. n : i = n
    BY <1>1
  <1> QED
    BY <1>1, <1>2 DEF Kept, Dropped

LEMMA KeptPush ==
    ASSUME IInv, NEW n, n = Len(stack), Keeps(n, n + 1), Fine(stack'[n + 1], n)
    PROVE  Kept(n, n + 1)
  <1>1. n \in Nat
    BY StackLen
  <1>2. (\A i \in n + 1 .. n + 1 : i = n + 1) /\ \A i \in n + 1 .. n : FALSE
    BY <1>1
  <1> QED
    BY <1>2 DEF Kept, Dropped

LEMMA KeptPushTwo ==
    ASSUME IInv, NEW n, n = Len(stack), Keeps(n, n + 2), Fine(stack'[n + 1], n),
           Fine(stack'[n + 2], n)
    PROVE  Kept(n, n + 2)
  <1>1. n \in Nat
    BY StackLen
  <1>2. (\A i \in n + 1 .. n + 2 : i = n + 1 \/ i = n + 2) /\ \A i \in n + 1 .. n : FALSE
    BY <1>1
  <1> QED
    BY <1>2 DEF Kept, Dropped

LEMMA KeptBecomePush ==
    ASSUME IInv, NEW n, n = Len(stack), Keeps(n - 1, n + 1), Fine(stack'[n], n - 1),
           Fine(stack'[n + 1], n - 1), Top.pc # "TimerCancel"
    PROVE  Kept(n - 1, n + 1)
  <1>1. n \in Nat /\ n >= 1 /\ Top = stack[n]
    BY StackLen
  <1>2. \A i \in (n - 1) + 1 .. n + 1 : i = n \/ i = n + 1
    BY <1>1
  <1>3. \A i \in (n - 1) + 1 .. n : i = n
    BY <1>1
  <1> QED
    BY <1>1, <1>2, <1>3 DEF Kept, Dropped

LEMMA KeptBecomePushTwo ==
    ASSUME IInv, NEW n, n = Len(stack), Keeps(n - 1, n + 2), Fine(stack'[n], n - 1),
           Fine(stack'[n + 1], n - 1), Fine(stack'[n + 2], n - 1), Top.pc # "TimerCancel"
    PROVE  Kept(n - 1, n + 2)
  <1>1. n \in Nat /\ n >= 1 /\ Top = stack[n]
    BY StackLen
  <1>2. \A i \in (n - 1) + 1 .. n + 2 : i = n \/ i = n + 1 \/ i = n + 2
    BY <1>1
  <1>3. \A i \in (n - 1) + 1 .. n : i = n
    BY <1>1
  <1> QED
    BY <1>1, <1>2, <1>3 DEF Kept, Dropped

LEMMA KeptPop ==
    ASSUME IInv, NEW n, n = Len(stack), Keeps(n - 1, n - 1), Top.pc # "TimerCancel"
    PROVE  Kept(n - 1, n - 1)
  <1>1. n \in Nat /\ n >= 1 /\ Top = stack[n]
    BY StackLen
  <1>2. \A i \in (n - 1) + 1 .. n - 1 : FALSE
    BY <1>1
  <1>3. \A i \in (n - 1) + 1 .. n : i = n
    BY <1>1
  <1> QED
    BY <1>1, <1>2, <1>3 DEF Kept, Dropped

LEMMA KeptPopTwo ==
    ASSUME IInv, NEW n, n = Len(stack), n >= 3, Keeps(n - 2, n - 2), Top.pc # "TimerCancel",
           stack[n - 1].pc # "TimerCancel"
    PROVE  Kept(n - 2, n - 2)
  <1>1. n \in Nat /\ n >= 1 /\ Top = stack[n]
    BY StackLen
  <1>2. \A i \in (n - 2) + 1 .. n - 2 : FALSE
    BY <1>1
  <1>3. \A i \in (n - 2) + 1 .. n : i = n \/ i = n - 1
    BY <1>1
  <1> QED
    BY <1>1, <1>2, <1>3 DEF Kept, Dropped

LEMMA KeptReturn ==
    ASSUME IInv, NEW n, n = Len(stack), n >= 3, Keeps(n - 2, n - 1), Fine(stack'[n - 1], n - 2),
           Top.pc # "TimerCancel", stack[n - 1].pc # "TimerCancel"
    PROVE  Kept(n - 2, n - 1)
  <1>1. n \in Nat /\ n >= 1 /\ Top = stack[n]
    BY StackLen
  <1>2. \A i \in (n - 2) + 1 .. n - 1 : i = n - 1
    BY <1>1
  <1>3. \A i \in (n - 2) + 1 .. n : i = n \/ i = n - 1
    BY <1>1
  <1> QED
    BY <1>1, <1>2, <1>3 DEF Kept, Dropped


\* Steps whose new frames leave their event alone.
LEMMA IdleSteps ==
    ASSUME IInv,
           \/ GroupRelease \/ GroupReturn \/ RestoreCheck \/ RestorePick \/ RestoreSet
           \/ DispatchDone \/ TimerInsert \/ CheckTimersStart \/ CheckTimersInsert
           \/ CheckTimersOnce \/ CheckTimersDone \/ CoreTimerTick
           \/ UserRestoreTpl \/ NotifyReturn \/ \E e \in Event : UserCreateEvent(e)
    PROVE  \E k, m : Kept(k, m)
  <1>1. PICK n : n = Len(stack)
    OBVIOUS
  <1>2. {"rCheck", "rPick", "rSet", "dLoop", "dCalled", "gReturn", "ASSERT", "ctStart", "ctLoop"}
            \subseteq IdlePC
    BY IdlePoints DEF RestorePC
  <1>3. \A pc \in IdlePC : \A l, e, v : F(pc, l, e, v).pc \in IdlePC
    BY FrameFields
  <1>4. \A f, k : f.pc \in IdlePC => Fine(f, k)
    BY IdleIsFine
  <1>5. \A l, k : Fine(Restore(l), k)
    BY <1>4, IdlePoints
  <1>6. CASE GroupRelease
    <2>1. Fine(stack'[n], n - 1) /\ Fine(stack'[n + 1], n - 1)
      BY <1>1, <1>2, <1>3, <1>4, <1>5, <1>6, GroupReleaseMove
    <2> QED
      BY <1>1, <1>6, <2>1, GroupReleaseMove, KeptBecomePush
  <1>7. CASE GroupReturn \/ DispatchDone \/ TimerInsert \/ UserRestoreTpl
    <2>1. /\ Keeps(n - 1, n) /\ Top.pc # "TimerCancel"
          /\ \E l : stack'[n] = Restore(l)
      BY <1>1, <1>7, GroupReturnMove, DispatchDoneMove, TimerInsertMove, UserRestoreTplMove
    <2>2. Fine(stack'[n], n - 1)
      BY <1>5, <2>1
    <2> QED
      BY <1>1, <2>1, <2>2, KeptBecome
  <1>8. CASE RestoreCheck \/ CheckTimersStart \/ CheckTimersInsert \/ CheckTimersOnce
    <2>1. /\ Keeps(n - 1, n) /\ Top.pc # "TimerCancel"
          /\ \E pc \in {"rSet", "rPick", "ctLoop"} : \E l, e, v : stack'[n] = F(pc, l, e, v)
      BY <1>1, <1>8, RestoreCheckMove, CheckTimersStartMove, CheckTimersInsertMove,
         CheckTimersOnceMove
    <2>2. Fine(stack'[n], n - 1)
      BY <1>2, <1>3, <1>4, <2>1
    <2> QED
      BY <1>1, <2>1, <2>2, KeptBecome
  <1>9. CASE RestorePick
    <2>1. CASE Keeps(n - 1, n) /\ stack'[n] = F("ASSERT", Top.lvl, Top.ev, Top.val)
      <3>1. Fine(stack'[n], n - 1) /\ Top.pc # "TimerCancel"
        BY <1>1, <1>2, <1>3, <1>4, <1>9, <2>1, RestorePickShape
      <3> QED
        BY <1>1, <2>1, <3>1, KeptBecome
    <2>2. ASSUME Keeps(n - 1, n + 1), stack'[n] = F("rCheck", Top.lvl, Top.ev, 0),
                 NEW p, stack'[n + 1] = F("dLoop", p, NoEvent, 0)
          PROVE  \E k, m : Kept(k, m)
      <3>1. Fine(stack'[n], n - 1) /\ Fine(stack'[n + 1], n - 1) /\ Top.pc # "TimerCancel"
        BY <1>1, <1>2, <1>3, <1>4, <1>9, <2>2, RestorePickShape
      <3> QED
        BY <1>1, <2>2, <3>1, KeptBecomePush
    <2> QED
      BY <1>1, <1>9, <2>1, <2>2, RestorePickShape
  <1>10. CASE RestoreSet
    BY <1>1, <1>10, RestoreSetMove, KeptPop
  <1>11. CASE CheckTimersDone \/ NotifyReturn
    <2>1. /\ n >= 3 /\ Keeps(n - 2, n - 1) /\ Top.pc # "TimerCancel"
          /\ stack[n - 1].pc # "TimerCancel"
          /\ \E l, v : stack'[n - 1] = F("dLoop", l, NoEvent, v)
      BY <1>1, <1>11, CheckTimersDoneMove, NotifyReturnMove
    <2>2. Fine(stack'[n - 1], n - 2)
      BY <1>2, <1>3, <1>4, <2>1
    <2> QED
      BY <1>1, <2>1, <2>2, KeptReturn
  <1>12. CASE CoreTimerTick \/ \E e \in Event : UserCreateEvent(e)
    <2>1. Keeps(n, n + 1) /\ \E l : stack'[n + 1] = Restore(l)
      BY <1>1, <1>12, CoreTimerTickMove, UserCreateEventMove
    <2>2. Fine(stack'[n + 1], n)
      BY <1>5, <2>1
    <2> QED
      BY <1>1, <2>1, <2>2, KeptPush
  <1> QED
    BY <1>6, <1>7, <1>8, <1>9, <1>10, <1>11, <1>12

\* Steps that go on with the same event.
LEMMA GoingOnSteps ==
    ASSUME IInv, CloseInv,
           \/ GroupLock \/ GroupWalk \/ TimerArm \/ CheckTimersRearm
           \/ CheckQueue \/ CheckRead \/ CheckClear \/ CheckReturn
    PROVE  \E k, m : Kept(k, m)
  <1>1. PICK n : n = Len(stack)
    OBVIOUS
  <1>2. state' = state
    BY DEF GroupLock, GroupWalk, TimerArm, CheckTimersRearm, CheckQueue, CheckRead, CheckClear,
       CheckReturn, eventVars
  <1>3. \A l, k : Fine(Restore(l), k)
    BY IdleIsFine, IdlePoints
  <1>4. ASSUME NEW f, f.ev = Top.ev,
               \/ f.pc = "gWalk" /\ Top.pc \in {"gLock", "gWalk"}
               \/ f.pc \in {"stInsert", "ctInsert"} /\ Top.pc \in {"stArm", "ctRearm"}
               \/ f.pc \in CheckPC /\ Top.pc \in CheckPC
        PROVE  Fine(f, n - 1) /\ Top.pc # "TimerCancel"
    <2>1. f.pc \notin ClosePC \cup UserPC \cup {"wtNext"} /\ Top.pc # "TimerCancel"
      BY <1>4 DEF ClosePC, UserPC, CheckPC
    <2>2. f.pc \in TimerPC => Top.pc \in TimerPC
      BY <1>4 DEF TimerPC, SetTimerPC, CheckPC
    <2>3. (f.pc \in UsePC => Top.pc \in UsePC) /\ (f.pc \in CallPC => Top.pc \in CallPC)
      BY <1>4 DEF UsePC, CallPC, SetTimerPC, CheckPC, ClosePC
    <2>4. \A x \in Event : (Uses(f, x) => Uses(Top, x)) /\ (Calls(f, x) => Calls(Top, x))
      BY <1>4, <2>1, <2>3 DEF Uses, Calls, WaitsFor
    <2> QED
      BY <1>1, <1>2, <1>4, <2>1, <2>2, <2>4, GoingOnIsFine
  <1>5. {"ckQueue", "ckRead", "ckClear", "ckReturn"} \subseteq CheckPC
    BY DEF CheckPC
  <1>6. \A pc, l, e, v : F(pc, l, e, v).pc = pc /\ F(pc, l, e, v).ev = e
    BY FrameFields
  <1>7. CASE GroupLock \/ GroupWalk \/ TimerArm \/ CheckTimersRearm \/ CheckRead
    <2>1. Keeps(n - 1, n)
      BY <1>1, <1>7, GroupLockMove, GroupWalkMove, TimerArmMove, CheckTimersRearmMove,
         CheckReadMove
    <2>2. /\ stack'[n].ev = Top.ev
          /\ \/ stack'[n].pc = "gWalk" /\ Top.pc \in {"gLock", "gWalk"}
             \/ stack'[n].pc \in {"stInsert", "ctInsert"} /\ Top.pc \in {"stArm", "ctRearm"}
             \/ stack'[n].pc \in CheckPC /\ Top.pc \in CheckPC
      BY <1>1, <1>5, <1>6, <1>7, GroupLockMove, GroupWalkMove, TimerArmMove, CheckTimersRearmMove,
         CheckReadMove
    <2> QED
      BY <1>1, <1>4, <2>1, <2>2, KeptBecome
  <1>8. CASE CheckQueue \/ CheckClear
    <2>1. Keeps(n - 1, n + 1) /\ \E l : stack'[n + 1] = Restore(l)
      BY <1>1, <1>8, CheckQueueMove, CheckClearMove
    <2>2. stack'[n].ev = Top.ev /\ stack'[n].pc \in CheckPC /\ Top.pc \in CheckPC
      BY <1>1, <1>5, <1>6, <1>8, CheckQueueMove, CheckClearMove
    <2>3. Fine(stack'[n], n - 1) /\ Fine(stack'[n + 1], n - 1) /\ Top.pc # "TimerCancel"
      BY <1>3, <1>4, <2>1, <2>2
    <2> QED
      BY <1>1, <2>1, <2>3, KeptBecomePush
  <1>9. CASE CheckReturn
    <2>1. PICK c : c = stack[n - 1]
      OBVIOUS
    <2>2. Top.pc = "ckReturn" /\ n >= 2
      BY <1>1, <1>9, CheckReturnMove
    <2>3. CASE Keeps(n - 1, n - 1)
      BY <1>1, <2>2, <2>3, KeptPop
    <2>4. CASE n >= 3 /\ c.pc = "wtNext" /\ Keeps(n - 2, n - 2)
      BY <1>1, <2>1, <2>2, <2>4, KeptPopTwo
    <2>5. CASE /\ n >= 3 /\ c.pc = "wtNext" /\ Keeps(n - 2, n - 1)
               /\ stack'[n - 1] = F("wtNext", c.lvl, c.ev, c.val + 1)
      <3>1. PICK f : f = stack'[n - 1]
        OBVIOUS
      <3>2. /\ n \in Nat /\ n - 1 \in 1 .. n
            /\ \A i \in 1 .. n - 2 : i \in 1 .. n /\ i \in 1 .. (n - 1) - 1
        BY <1>1, <2>5, StackLen
      <3>3. f.pc = "wtNext"
        BY <1>6, <2>5, <3>1
      <3>4. \A x \in Event :
                /\ Uses(f, x) => Uses(c, x) /\ Calls(c, x)
                /\ Calls(f, x) => Calls(c, x)
        BY <2>5, <3>3 DEF Uses, Calls, WaitsFor, UsePC, CallPC, SetTimerPC, CheckPC, ClosePC
      <3>5. \A x \in Event : Uses(f, x) => state'[x] = "open"
        BY <1>1, <1>2, <2>1, <3>2, <3>4 DEF CloseInv, UsedIsOpen
      <3>6. \A x \in Event : Calls(c, x) => \A j \in 1 .. n - 2 : ~Closes(stack[j], x)
        BY <1>1, <2>1, <2>5, <3>2 DEF CloseInv, ClosedIsLeft
      <3>7. f.pc \notin ClosePC \cup UserPC \cup TimerPC
        BY <3>3 DEF ClosePC, UserPC, TimerPC, SetTimerPC
      <3>8. Fine(f, n - 2)
        BY <3>4, <3>5, <3>6, <3>7 DEF Fine
      <3> QED
        BY <1>1, <2>1, <2>2, <2>5, <3>1, <3>8, KeptReturn
    <2> QED
      BY <1>1, <1>9, <2>1, <2>3, <2>4, <2>5, CheckReturnMove
  <1> QED
    BY <1>7, <1>8, <1>9


\* A call about an open event that nothing closes, or one that does not link
\* its event.
LEMMA CallIsFine ==
    ASSUME NEW f, NEW k, f.pc \in {"dNotify", "gLock"} \cup CallPC, state'[f.ev] = "open",
           f.pc \in TimerPC => IsTimer[f.ev],
           f.pc \in CallPC => \A j \in 1 .. k : ~Closes(stack[j], f.ev)
    PROVE  Fine(f, k)
  <1>1. f.pc \notin ClosePC \cup UserPC \cup {"wtNext"}
    BY DEF CallPC, ClosePC, UserPC, SetTimerPC, CheckPC
  <1> QED
    BY <1>1 DEF Fine, Uses, Calls, WaitsFor

\* The calls that clients make, and the core on their behalf.
LEMMA CallSteps ==
    ASSUME IInv, CloseInv, ~RearmWhileClosing,
           \/ UserWaitForEvent \/ WaitCheck \/ WaitIdle
           \/ \E e \in Event :
                 \/ UserSignalEvent(e) \/ UserCheckEvent(e)
                 \/ \E Type \in {"TimerCancel", "TimerRelative", "TimerPeriodic"},
                       TriggerTime \in TriggerTimes : UserSetTimer(e, Type, TriggerTime)
    PROVE  \E k, m : Kept(k, m)
  <1>1. PICK n : n = Len(stack)
    OBVIOUS
  <1>2. n \in Nat /\ n >= 1 /\ n \in 1 .. n /\ Top = stack[n]
    BY <1>1, StackLen
  <1>3. state' = state
    BY DEF UserWaitForEvent, WaitCheck, WaitIdle, UserSignalEvent, UserCheckEvent, UserSetTimer,
       eventVars
  <1>4. \A l, k : Fine(Restore(l), k)
    BY IdleIsFine, IdlePoints
  <1>5. \A pc, l, e, v : F(pc, l, e, v).pc = pc /\ F(pc, l, e, v).ev = e
    BY FrameFields
  <1>6. /\ {"ckQueue", "ckRead", "TimerCancel", "TimerRelative", "TimerPeriodic"} \subseteq CallPC
        /\ {"ckQueue", "ckRead", "gLock", "wtNext"} \cap TimerPC = {}
        /\ "gLock" \notin CallPC
    BY DEF CallPC, TimerPC, CheckPC, SetTimerPC
  <1>7. ASSUME NEW e, state[e] = "open", NEW l, NEW k
        PROVE  Fine(F("gLock", l, e, 0), k)
    BY <1>3, <1>5, <1>6, <1>7, CallIsFine
  <1>8. ASSUME NEW e, state[e] = "open", NEW l, NEW k, \A j \in 1 .. k : ~Closes(stack[j], e)
        PROVE  Fine(CheckCall(e, l), k)
    <2>1. PICK pc \in {"ckQueue", "ckRead"} : CheckCall(e, l) = F(pc, l, e, 0)
      BY DEF CheckCall
    <2> QED
      BY <1>3, <1>5, <1>6, <1>8, <2>1, CallIsFine
  <1>9. ASSUME NEW e, Usable(e)
        PROVE  state[e] = "open" /\ \A j \in 1 .. n : ~Closes(stack[j], e)
    BY <1>1, <1>9 DEF Usable, Closing, Closes
  <1>10. CASE UserWaitForEvent
    <2>1. /\ Keeps(n, n + 1) /\ stack'[n + 1].pc = "wtNext"
          /\ \A x : Contains(UserEvents, x) => Usable(x)
      <3>1. UserEvents \in Seq(Event)
        BY EventAssumption
      <3>2. \A x : Contains(UserEvents, x) => \E i \in 1 .. Len(UserEvents) : UserEvents[i] = x
        BY <3>1, ListOnce
      <3>3. \A i \in 1 .. Len(UserEvents) : Usable(UserEvents[i])
        BY <1>10 DEF UserWaitForEvent
      <3> QED
        BY <1>1, <1>5, <1>10, <3>2, <3>3, UserWaitForEventMove
    <2>2. stack'[n + 1].pc \notin ClosePC \cup UserPC \cup TimerPC \cup UsePC
      BY <2>1 DEF ClosePC, UserPC, TimerPC, SetTimerPC, UsePC, CallPC, CheckPC
    <2>3. Fine(stack'[n + 1], n)
      BY <1>3, <1>9, <2>1, <2>2 DEF Fine, Uses, Calls, WaitsFor, UsePC
    <2> QED
      BY <1>1, <2>1, <2>3, KeptPush
  <1>11. CASE WaitCheck
    <2>1. PICK e : e = UserEvents[Top.val]
      OBVIOUS
    <2>2. /\ Keeps(n, n + 1) /\ stack'[n + 1] = CheckCall(e, tpl)
          /\ Top.pc = "wtNext"
      BY <1>1, <1>11, <2>1, WaitCheckMove
    <2>3. Contains(UserEvents, e) /\ e \in Event
      <3>1. UserEvents \in Seq(Event) /\ Len(UserEvents) \in Nat
        BY EventAssumption
      <3>2. Top.val \in Nat /\ Top.val # 0
        BY <2>2, TopFacts DEF GoodFrame
      <3>3. Top.val \in 1 .. Len(UserEvents)
        BY <1>11, <3>1, <3>2 DEF WaitCheck
      <3> QED
        BY <2>1, <3>1, <3>3, ListOnce, ElementOfSeq
    <2>4. Calls(Top, e) /\ Top.pc # "TimerCancel"
      BY <2>2, <2>3 DEF Calls, WaitsFor
    <2>5. state[e] = "open" /\ \A j \in 1 .. n : ~Closes(stack[j], e)
      BY <1>1, <2>3, <2>4, CallIsSafe
    <2>6. Fine(stack'[n + 1], n)
      BY <1>8, <2>2, <2>5
    <2> QED
      BY <1>1, <2>2, <2>6, KeptPush
  <1>12. CASE WaitIdle
    <2>1. \A k, l : Fine(F("gLock", l, gIdleLoopEvent, 0), k)
      BY <1>7 DEF CloseInv, CoreIsOpen
    <2>2. PICK f : f = F("wtNext", Top.lvl, Top.ev, 1)
      OBVIOUS
    <2>3. Top.pc = "wtNext" /\ f.pc = "wtNext"
      BY <1>1, <1>5, <1>12, <2>2, WaitIdleMove
    <2>4. f.pc \notin ClosePC \cup UserPC \cup TimerPC \cup UsePC \cup CallPC
      BY <2>3 DEF ClosePC, UserPC, TimerPC, SetTimerPC, UsePC, CallPC, CheckPC
    <2>5. \A x \in Event : (Uses(f, x) => Uses(Top, x)) /\ (Calls(f, x) => Calls(Top, x))
      BY <2>3, <2>4 DEF Uses, Calls, WaitsFor
    <2>6. Fine(f, n - 1)
      BY <1>1, <1>3, <2>3, <2>4, <2>5, GoingOnIsFine
    <2> QED
      BY <1>1, <1>4, <1>12, <2>1, <2>2, <2>3, <2>6, WaitIdleMove, KeptBecomePush, KeptBecomePushTwo
  <1>13. ASSUME NEW e \in Event, UserSignalEvent(e)
         PROVE  \E k, m : Kept(k, m)
    <2>1. state[e] = "open"
      BY <1>13 DEF UserSignalEvent, Usable
    <2> QED
      BY <1>1, <1>4, <1>7, <1>13, <2>1, UserSignalEventMove, KeptPush, KeptPushTwo
  <1>14. ASSUME NEW e \in Event, UserCheckEvent(e)
         PROVE  \E k, m : Kept(k, m)
    <2>1. state[e] = "open" /\ \A j \in 1 .. n : ~Closes(stack[j], e)
      BY <1>9, <1>14 DEF UserCheckEvent
    <2>2. Fine(CheckCall(e, tpl), n)
      BY <1>8, <2>1
    <2> QED
      BY <1>1, <1>14, <2>2, UserCheckEventMove, KeptPush
  <1>15. ASSUME NEW e \in Event, NEW Type \in {"TimerCancel", "TimerRelative", "TimerPeriodic"},
                NEW TriggerTime \in TriggerTimes, UserSetTimer(e, Type, TriggerTime)
         PROVE  \E k, m : Kept(k, m)
    <2>1. Usable(e) /\ IsTimer[e]
      BY <1>15 DEF UserSetTimer
    <2>2. state[e] = "open" /\ \A j \in 1 .. n : ~Closes(stack[j], e)
      BY <1>9, <2>1
    <2>3. PICK f : f = F(Type, tpl, e, TriggerTime)
      OBVIOUS
    <2>4. f.pc \in CallPC /\ f.ev = e
      BY <1>5, <1>6, <2>3
    <2>5. Fine(f, n)
      BY <1>3, <2>1, <2>2, <2>4, CallIsFine
    <2> QED
      BY <1>1, <1>15, <2>3, <2>5, UserSetTimerMove, KeptPush
  <1> QED
    BY <1>10, <1>11, <1>12, <1>13, <1>14, <1>15

\* Taking a notification off its queue, and a timer off the list.
LEMMA TakeSteps ==
    ASSUME IInv, QueuesHold, Nested, TimersOK, ReadOnce, CloseInv,
           DispatchTake \/ CheckTimersFire \/ TimerRemove
    PROVE  \E k, m : Kept(k, m)
  <1>1. PICK n : n = Len(stack)
    OBVIOUS
  <1>2. n \in Nat /\ n >= 1 /\ n \in 1 .. n /\ Top = stack[n]
    BY <1>1, StackLen
  <1>3. state' = state
    BY DEF DispatchTake, CheckTimersFire, TimerRemove, eventVars
  <1>4. \A l, k : Fine(Restore(l), k)
    BY IdleIsFine, IdlePoints
  <1>5. \A pc, l, e, v : F(pc, l, e, v).pc = pc /\ F(pc, l, e, v).ev = e
    BY FrameFields
  <1>6. CASE DispatchTake
    <2>1. PICK e : e = Head(queue[Top.lvl])
      OBVIOUS
    <2>2. e \in Event /\ Queued(e)
      BY <1>6, <2>1, TakeHolds
    <2>3. state[e] = "open"
      BY <2>2, OnLists DEF CloseInv, FreedIsUnlinked
    <2>4. "dNotify" \notin TimerPC \cup CallPC
      BY DEF TimerPC, CallPC, SetTimerPC, CheckPC
    <2>5. \A l, v : Fine(F("dNotify", l, e, v), n - 1)
      BY <1>3, <1>5, <2>3, <2>4, CallIsFine
    <2> QED
      BY <1>1, <1>4, <1>6, <2>1, <2>5, DispatchTakeMove, KeptBecomePush
  <1>7. CASE CheckTimersFire
    <2>1. PICK e : e = Head(timers)
      OBVIOUS
    <2>2. e \in Event /\ Contains(timers, e)
      BY <1>7, <2>1, FirstTimer DEF CheckTimersFire, CheckTimersExpired
    <2>3. state[e] = "open" /\ IsTimer[e]
      BY <2>2 DEF CloseInv, FreedIsUnlinked, Linked, TimersAreTimers
    <2>4. Top.pc = "ctLoop"
      BY <1>1, <1>7, <2>1, CheckTimersFireMove
    <2>5. ASSUME NEW j \in 1 .. n - 1, Closes(stack[j], e)
          PROVE  FALSE
      <3>1. j \in 1 .. n
        BY <1>2
      <3>2. j + 1 \in 1 .. n /\ Cancels(stack[j + 1], e)
        BY <1>1, <2>2, <2>5, <3>1 DEF CloseInv, CancelComesFirst
      <3>3. j + 1 < n
        BY <1>2, <2>4, <3>2 DEF Cancels
      <3>4. j + 1 \in TimerLockHolders /\ n \in TimerLockHolders
        BY <1>1, <1>2, <2>4, <3>2 DEF TimerLockHolders, Cancels, SetTimerPC
      <3> QED
        BY <3>3, <3>4, OneHolder
    <2>6. \A l, v : Fine(F("ctRearm", l, e, v), n - 1)
      <3>1. "ctRearm" \in CallPC
        BY DEF CallPC
      <3> QED
        BY <1>3, <1>5, <2>3, <2>5, <3>1, CallIsFine
    <2>7. \A l : Fine(F("gLock", l, e, 0), n - 1)
      <3>1. "gLock" \notin TimerPC \cup CallPC
        BY DEF TimerPC, CallPC, SetTimerPC, CheckPC
      <3> QED
        BY <1>3, <1>5, <2>3, <3>1, CallIsFine
    <2> QED
      BY <1>1, <1>4, <1>7, <2>1, <2>4, <2>6, <2>7, CheckTimersFireMove, KeptBecomePush,
         KeptBecomePushTwo
  <1>8. CASE TimerRemove
    <2>1. /\ Top.pc \in {"TimerCancel", "TimerRelative", "TimerPeriodic"} /\ Keeps(n - 1, n)
          /\ \/ stack'[n] = Restore(Top.lvl)
             \/ /\ Top.pc # "TimerCancel"
                /\ \E time : stack'[n] = F("stArm", Top.lvl, Top.ev, time)
      BY <1>1, <1>8, TimerRemoveMove
    <2>3. Fine(stack'[n], n - 1)
      <3>1. ASSUME NEW time, Top.pc # "TimerCancel", stack'[n] = F("stArm", Top.lvl, Top.ev, time)
            PROVE  Fine(stack'[n], n - 1)
        <4>1. PICK f : f = stack'[n]
          OBVIOUS
        <4>2. f.pc = "stArm" /\ f.ev = Top.ev
          BY <1>5, <3>1, <4>1
        <4>3. /\ f.pc \notin ClosePC \cup UserPC \cup {"wtNext"}
              /\ Top.pc \in TimerPC /\ Top.pc \in UsePC /\ Top.pc \in CallPC
          BY <2>1, <4>2 DEF ClosePC, UserPC, TimerPC, UsePC, CallPC, SetTimerPC
        <4>4. \A x \in Event : (Uses(f, x) => Uses(Top, x)) /\ (Calls(f, x) => Calls(Top, x))
          BY <4>2, <4>3 DEF Uses, Calls, WaitsFor
        <4> QED
          BY <1>1, <1>3, <3>1, <4>1, <4>2, <4>3, <4>4, GoingOnIsFine
      <3> QED
        BY <1>4, <2>1, <3>1
    <2>4. ~Contains(timers', Top.ev)
      <3>1. timers \in Seq(Event) /\ IsInjective(timers)
        BY DEF IInv, DataOK, TimersOK
      <3>2. PICK e, s : e = Top.ev /\ s = Unlinked(timers, e)
        OBVIOUS
      <3>3. ~Contains(s, e)
        BY <3>1, <3>2, UnlinkedHolds
      <3> QED
        BY <1>8, <3>2, <3>3 DEF TimerRemove
    <2>5. \A i \in (n - 1) + 1 .. n : i = n
      BY <1>2
    <2>6. Kept(n - 1, n)
      BY <1>1, <1>2, <2>1, <2>3, <2>4, <2>5 DEF Kept, Dropped
    <2> QED
      BY <2>6
  <1> QED
    BY <1>6, <1>7, <1>8


(***************************************************************************)
(* Client code that begins, and the steps of CoreCloseEvent.               *)
(***************************************************************************)

\* Frames of client code, and frames that leave their event alone.
LEMMA ClientStep ==
    ASSUME IInv, CloseInv, NEW k, NEW m, Keeps(k, m), Dropped(k), state' = state, Links,
           \A i \in k + 1 .. m : stack'[i].pc \in IdlePC \cup UserPC, NewClients(k, m)
    PROVE  CloseInv'
  <1>1. \A pc \in IdlePC \cup UserPC : pc \notin UsePC \cup CallPC \cup ClosePC \cup TimerPC \cup {"wtNext"}
    BY DEF IdlePC, UserPC, UsePC, CallPC, ClosePC, TimerPC, SetTimerPC, CheckPC, WaitPC
  <1>2. NewUses(k, m) /\ NewCloses(k, m) /\ NewTimers(k, m)
    BY <1>1 DEF NewUses, NewCloses, NewTimers, Uses, Calls, Closes, WaitsFor
  <1>3. Opens(k)
    BY DEF Opens
  <1> QED
    BY <1>2, <1>3, CloseStep

LEMMA DispatchNotifyStep ==
    ASSUME IInv, CloseInv, ReadOnce, Links, DispatchNotify
    PROVE  CloseInv'
  <1>1. PICK n \in Nat : n = Len(stack) /\ n >= 1 /\ n \in 1 .. n /\ Top = stack[n]
    BY StackLen
  <1>2. /\ Top.pc = "dNotify" /\ Keeps(n - 1, n + 1)
        /\ stack'[n].pc = "dCalled"
        /\ \/ stack'[n + 1].pc = "ctStart"
           \/ stack'[n + 1].pc = "user" /\ stack'[n + 1].val = Top.lvl
    BY <1>1, DispatchNotifyMove, FrameFields
  <1>3. \A i \in (n - 1) + 1 .. n + 1 : i = n \/ i = n + 1
    BY <1>1
  <1>4. \A i \in (n - 1) + 1 .. n + 1 : stack'[i].pc \in IdlePC \cup UserPC
    BY <1>2, <1>3, IdlePoints DEF UserPC
  <1>5. Dropped(n - 1)
    <2>1. \A i \in (n - 1) + 1 .. n : i = n
      BY <1>1
    <2> QED
      BY <1>1, <1>2, <2>1 DEF Dropped
  <1>6. NewClients(n - 1, n + 1)
    <2> SUFFICES ASSUME NEW i \in (n - 1) + 1 .. n + 1, stack'[i].pc \in UserPC,
                        NEW j \in 1 .. i - 1, stack'[j].pc = "dNotify"
                 PROVE  stack'[j].lvl < stack'[i].val
      BY DEF NewClients
    <2>1. i = n + 1 /\ stack'[i].val = Top.lvl
      BY <1>2, <1>3 DEF UserPC
    <2>2. j \in 1 .. n - 1 \/ j = n
      BY <1>1, <2>1
    <2>3. j \in 1 .. n - 1 /\ j \in 1 .. n /\ j < n
      BY <1>1, <1>2, <2>2
    <2>4. stack'[j] = stack[j]
      BY <2>3, <1>2 DEF Keeps
    <2>5. Ordered(stack)
      BY DEF IInv, Fits, Shaped
    <2>6. stack[j].lvl < stack[n].lvl
      BY <1>1, <1>2, <2>3, <2>4, <2>5 DEF Ordered, DispatchPC
    <2> QED
      BY <1>1, <2>1, <2>4, <2>6
  <1>7. state' = state
    BY DEF DispatchNotify, eventVars
  <1> QED
    BY <1>2, <1>4, <1>5, <1>6, <1>7, ClientStep

LEMMA RaiseStep ==
    ASSUME IInv, CloseInv, Links, NEW NewTpl, UserRaiseTpl(NewTpl)
    PROVE  CloseInv'
  <1>1. PICK n \in Nat : n = Len(stack) /\ n >= 1 /\ n \in 1 .. n /\ Top = stack[n]
    BY StackLen
  <1>2. /\ Keeps(n, n + 1) /\ stack'[n + 1].pc = "raised" /\ stack'[n + 1].val = Top.val
        /\ Top.pc \in UserPC
    BY <1>1, UserRaiseTplMove, FrameFields DEF Running
  <1>3. (\A i \in n + 1 .. n + 1 : i = n + 1) /\ \A i \in n + 1 .. n : FALSE
    BY <1>1
  <1>4. \A i \in n + 1 .. n + 1 : stack'[i].pc \in IdlePC \cup UserPC
    BY <1>2, <1>3 DEF UserPC
  <1>5. Dropped(n)
    BY <1>1, <1>3 DEF Dropped
  <1>6. NewClients(n, n + 1)
    <2> SUFFICES ASSUME NEW j \in 1 .. n, stack'[j].pc = "dNotify"
                 PROVE  stack'[j].lvl < Top.val
      BY <1>1, <1>2, <1>3 DEF NewClients
    <2>1. stack'[j] = stack[j]
      BY <1>2 DEF Keeps
    <2>2. j # n
      BY <1>1, <1>2, <2>1 DEF UserPC
    <2>3. j \in 1 .. n - 1
      BY <1>1, <2>2
    <2> QED
      BY <1>1, <1>2, <2>1, <2>3 DEF CloseInv, ClientsAreAbove
  <1>7. state' = state
    BY DEF UserRaiseTpl, eventVars
  <1> QED
    BY <1>2, <1>4, <1>5, <1>6, <1>7, ClientStep

\* An event that CoreCloseEvent may be called for is used by no call in
\* progress: not by the dispatcher either, which took it at its own level, and
\* not by a timer check, which runs at the level of mEfiTimerLock.
LEMMA ClosedIsFree ==
    ASSUME IInv, WalkOnTop, Nested, CloseInv, ReadOnce, NEW e \in Event, UserCloseEvent(e),
           NEW j \in 1 .. Len(stack), Uses(stack[j], e)
    PROVE  FALSE
  <1>1. PICK n \in Nat : n = Len(stack) /\ n >= 1 /\ n \in 1 .. n /\ Top = stack[n]
    BY StackLen
  <1>2. /\ Top.pc \in UserPC /\ ~InCall(e) /\ tpl < TimerLockTpl /\ Client(e)
        /\ Kind[e] # "none" => Top.val <= NotifyTpl[e]
    BY DEF UserCloseEvent, Usable, Running
  <1>3. /\ ~WaitsFor(stack[j], e)
        /\ stack[j].pc \notin SetTimerPC \cup CheckPC \cup ClosePC \cup {"gLock"}
    BY <1>2 DEF InCall, WaitsFor, Uses, UsePC, CallPC
  <1>4. stack[j].pc \in {"dNotify", "gWalk", "ctRearm", "ctInsert"} /\ stack[j].ev = e
    BY <1>3 DEF Uses, UsePC, CallPC
  <1>5. j # n
    BY <1>1, <1>2, <1>4 DEF UserPC
  <1>6. j \in 1 .. n /\ j < n /\ j \in 1 .. n - 1
    BY <1>1, <1>5
  <1>7. stack[j].pc # "gWalk"
    BY <1>1, <1>6 DEF WalkOnTop
  <1>8. /\ Placed(stack[j]) /\ Ordered(stack)
        /\ stack[1].pc = "user" /\ \A i \in 1 .. n : stack[i] \in Frame
    BY <1>1, <1>6, ElementOfSeq DEF Nested, IInv, Fits, Shaped, GoodFrame
  <1>9. TimerLockTpl = 30 /\ TPL_APPLICATION = 4
    BY DEF TimerLockTpl, TPL_HIGH_LEVEL, TPL_APPLICATION
  <1>10. stack[j].lvl \in Int /\ Top.lvl \in Int /\ tpl \in Int /\ stack[j].lvl >= 0
    BY <1>1, <1>6, <1>8 DEF Frame, TPL, IInv, DataOK, MAX_UINTN
  <1>11. CASE stack[j].pc \in {"ctRearm", "ctInsert"}
    <2>1. stack[j].lvl = TimerLockTpl
      BY <1>8, <1>11 DEF Placed, TimersPC
    <2>2. stack[j].lvl <= stack[n].lvl
      BY <1>1, <1>6, <1>8 DEF Ordered
    <2>3. Top.lvl <= tpl
      BY TopFacts
    <2> QED
      BY <1>1, <1>2, <1>9, <1>10, <2>1, <2>2, <2>3
  <1>12. CASE stack[j].pc = "dNotify"
    <2>1. NotifyTpl[e] = stack[j].lvl
      BY <1>4, <1>8, <1>12 DEF Placed
    <2>2. stack[j].lvl < Top.val
      BY <1>1, <1>2, <1>6, <1>12 DEF CloseInv, ClientsAreAbove
    <2>3. Top.val \in Nat
      BY TopFacts
    <2>4. Kind[e] = "none"
      BY <1>2, <1>10, <2>1, <2>2, <2>3
    <2>5. NotifyTpl[e] = 0
      BY <1>2, <2>4, NotifyTplAssumption DEF Client
    <2>6. j # 1
      BY <1>8, <1>12
    <2>7. PICK i \in 1 .. n - 1 : i = j - 1 /\ i + 1 = j /\ i \in 1 .. n
      BY <1>6, <2>6
    <2>8. Sits(stack[i], stack[j])
      BY <1>1, <2>7 DEF Nested
    <2>9. stack[i].lvl < stack[j].lvl
      BY <1>12, <2>8 DEF Sits, DispatchPC
    <2>10. stack[i].lvl \in TPL
      BY <1>8, <2>7 DEF Frame
    <2> QED
      BY <1>10, <2>1, <2>5, <2>9, <2>10 DEF TPL
  <1> QED
    BY <1>4, <1>7, <1>11, <1>12

LEMMA CloseCallStep ==
    ASSUME IInv, WalkOnTop, Nested, CloseInv, ReadOnce, Links, NEW e \in Event, UserCloseEvent(e)
    PROVE  CloseInv'
  <1>1. PICK n \in Nat : n = Len(stack) /\ n >= 1 /\ n \in 1 .. n /\ Top = stack[n]
    BY StackLen
  <1>2. Client(e) /\ state[e] = "open" /\ \A j \in 1 .. n : ~Closes(stack[j], e)
    BY <1>1 DEF UserCloseEvent, Usable, Closing, Closes
  <1>3. state' = state /\ timers' = timers
    BY DEF UserCloseEvent, eventVars, timerVars
  <1>4. Opens(n)
    BY <1>3 DEF Opens
  <1>5. Dropped(n)
    <2>1. \A i \in n + 1 .. n : FALSE
      BY <1>1
    <2> QED
      BY <1>1, <2>1 DEF Dropped
  <1>6. \A j \in 1 .. n : ~Uses(stack[j], e)
    BY <1>1, ClosedIsFree
  <1>7. PICK f, g : f = F("clUnlink", tpl, e, 0) /\ g = F("TimerCancel", tpl, e, 0)
    OBVIOUS
  <1>8. f.pc = "clUnlink" /\ f.ev = e /\ g.pc = "TimerCancel" /\ g.ev = e
    BY <1>7, FrameFields
  <1>9. /\ "clUnlink" \notin UserPC \cup TimerPC \cup CallPC \cup {"dNotify", "clFree"}
        /\ "clUnlink" \in ClosePC
        /\ "TimerCancel" \notin UserPC \cup ClosePC \cup {"dNotify"}
    BY DEF UserPC, ClosePC, TimerPC, CallPC, SetTimerPC, CheckPC
  <1>10. \A x \in Event :
            /\ (Uses(f, x) => x = e) /\ ~Calls(f, x) /\ (Closes(f, x) => x = e)
            /\ (Uses(g, x) => x = e) /\ (Calls(g, x) => x = e) /\ ~Closes(g, x)
            /\ (x = e => Cancels(g, x))
    BY <1>8, <1>9 DEF Uses, Calls, Closes, Cancels, WaitsFor
  <1>11. CASE ~IsTimer[e] /\ Keeps(n, n + 1) /\ stack'[n + 1] = f
    <2>1. \A i \in n + 1 .. n + 1 : i = n + 1
      BY <1>1
    <2>2. \A j \in 1 .. n : stack'[j] = stack[j]
      BY <1>11 DEF Keeps
    <2>3. NewUses(n, n + 1) /\ NewTimers(n, n + 1) /\ NewClients(n, n + 1)
      BY <1>2, <1>3, <1>8, <1>9, <1>10, <1>11, <2>1 DEF NewUses, NewTimers, NewClients
    <2>4. NewCloses(n, n + 1)
      <3> SUFFICES ASSUME NEW x \in Event, Closes(f, x)
                   PROVE  /\ Client(x)
                          /\ \A j \in 1 .. (n + 1) - 1 : ~Uses(stack'[j], x)
                          /\ \A j \in (n + 1) + 1 .. n + 1 : FALSE
                          /\ ~Contains(timers', x)
                          /\ f.pc # "clFree"
        BY <1>11, <2>1 DEF NewCloses
      <3>1. x = e
        BY <1>10
      <3>2. \A j \in 1 .. (n + 1) - 1 : j \in 1 .. n
        BY <1>1
      <3>3. \A j \in (n + 1) + 1 .. n + 1 : FALSE
        BY <1>1
      <3>4. ~Contains(timers', x)
        BY <1>3, <1>11, <3>1 DEF CloseInv, TimersAreTimers
      <3> QED
        BY <1>2, <1>6, <1>8, <2>2, <3>1, <3>2, <3>3, <3>4
    <2> QED
      BY <1>4, <1>5, <1>11, <2>3, <2>4, CloseStep
  <1>12. CASE IsTimer[e] /\ Keeps(n, n + 2) /\ stack'[n + 1] = f /\ stack'[n + 2] = g
    <2>1. \A i \in n + 1 .. n + 2 : i = n + 1 \/ i = n + 2
      BY <1>1
    <2>2. \A j \in 1 .. n : stack'[j] = stack[j]
      BY <1>12 DEF Keeps
    <2>3. \A i \in n + 1 .. n + 2 : stack'[i].ev = e
      BY <1>8, <1>12, <2>1
    <2>4. NewUses(n, n + 2)
      BY <1>2, <1>3, <1>10, <1>12, <2>1 DEF NewUses
    <2>5. NewTimers(n, n + 2)
      BY <1>12, <2>3 DEF NewTimers
    <2>6. NewClients(n, n + 2)
      BY <1>8, <1>9, <1>12, <2>1 DEF NewClients
    <2>7. NewCloses(n, n + 2)
      <3>1. \A i \in n + 1 .. n + 2 : \A x \in Event : Closes(stack'[i], x) => i = n + 1 /\ x = e
        BY <1>10, <1>12, <2>1
      <3>2. \A j \in 1 .. (n + 1) - 1 : ~Uses(stack'[j], e)
        <4>1. \A j \in 1 .. (n + 1) - 1 : j \in 1 .. n
          BY <1>1
        <4> QED
          BY <1>6, <2>2, <4>1
      <3>3. (\A j \in (n + 1) + 1 .. n + 2 : j = (n + 1) + 1) /\ n + 2 = (n + 1) + 1
        BY <1>1
      <3>4. (n + 1) + 1 \in n + 1 .. n + 2
        BY <1>1
      <3>5. Cancels(stack'[(n + 1) + 1], e)
        BY <1>10, <1>12, <3>3
      <3>6. stack'[n + 1].pc = "clUnlink" /\ stack'[(n + 1) + 1].pc = "TimerCancel"
        BY <1>8, <1>12, <3>3
      <3> QED
        BY <1>2, <3>1, <3>2, <3>3, <3>4, <3>5, <3>6 DEF NewCloses
    <2> QED
      BY <1>4, <1>5, <1>12, <2>4, <2>5, <2>6, <2>7, CloseStep
  <1> QED
    BY <1>1, <1>7, <1>11, <1>12, UserCloseEventMove


LEMMA CloseUnlinkStep ==
    ASSUME IInv, SignalsMade, QueuesHold, QueuesHold', CloseInv, Links, CloseUnlink
    PROVE  CloseInv'
  <1>1. PICK n \in Nat : n = Len(stack) /\ n >= 1 /\ n \in 1 .. n /\ Top = stack[n]
    BY StackLen
  <1>2. PICK e \in Event : e = Top.ev
    BY CloseHolds
  <1>3. /\ Top.pc = "clUnlink" /\ Keeps(n - 1, n + 1)
        /\ stack'[n].pc = "clFree" /\ stack'[n].ev = e
        /\ stack'[n + 1].pc \in IdlePC
    BY <1>1, <1>2, CloseUnlinkMove, FrameFields, IdlePoints
  <1>4. state' = state /\ timers' = timers
    BY DEF CloseUnlink, timerVars
  <1>5. (\A i \in (n - 1) + 1 .. n + 1 : i = n \/ i = n + 1) /\ \A i \in (n - 1) + 1 .. n : i = n
    BY <1>1
  <1>6. \A j \in 1 .. n - 1 : stack'[j] = stack[j] /\ j \in 1 .. n
    BY <1>1, <1>3 DEF Keeps
  <1>7. Closes(Top, e) /\ Uses(Top, e)
    BY <1>2, <1>3 DEF Closes, Uses, UsePC, ClosePC
  <1>8. /\ "clFree" \notin UserPC \cup TimerPC \cup CallPC \cup {"dNotify", "wtNext"}
        /\ \A pc \in IdlePC : pc \notin UsePC \cup CallPC \cup ClosePC \cup TimerPC \cup UserPC
                                            \cup {"wtNext"}
    BY DEF UserPC, ClosePC, TimerPC, CallPC, SetTimerPC, CheckPC, IdlePC, UsePC, WaitPC
  <1>9. \A i \in (n - 1) + 1 .. n + 1 : \A x \in Event :
            /\ Uses(stack'[i], x) => x = e
            /\ ~Calls(stack'[i], x)
            /\ Closes(stack'[i], x) => i = n /\ x = e
            /\ stack'[i].pc \notin UserPC \cup TimerPC
    BY <1>3, <1>5, <1>8 DEF Uses, Calls, Closes, WaitsFor
  <1>10. state[e] = "open" /\ Client(e) /\ \A j \in 1 .. n - 1 : ~Uses(stack[j], e)
    BY <1>1, <1>7 DEF CloseInv, UsedIsOpen, CoreIsOpen, ClosedIsUnused
  <1>11. NewUses(n - 1, n + 1) /\ NewTimers(n - 1, n + 1) /\ NewClients(n - 1, n + 1)
    BY <1>4, <1>9, <1>10, EventAssumption DEF NewUses, NewTimers, NewClients
  <1>12. ~Contains(timers, e)
    <2>1. n + 1 \notin 1 .. n
      BY <1>1
    <2> QED
      BY <1>1, <1>7, <2>1 DEF CloseInv, CancelComesFirst
  <1>13. ~Linked(e)'
    <2>1. ~Queued(e)'
      BY <1>2, CloseHolds
    <2>2. ~Listed(e)'
      <3>1. PICK s : s = Unlinked(signalq, e)
        OBVIOUS
      <3>2. ~Contains(s, e)
        BY <3>1, UnlinkedHolds DEF SignalsMade, IInv, DataOK
      <3> QED
        BY <1>2, <3>1, <3>2 DEF CloseUnlink, Listed
    <2> QED
      BY <1>4, <1>12, <2>1, <2>2, OnListsNext
  <1>14. NewCloses(n - 1, n + 1)
    <2>1. \A j \in 1 .. n - 1 : ~Uses(stack'[j], e)
      BY <1>6, <1>10
    <2>2. \A j \in n + 1 .. n + 1 : j \in (n - 1) + 1 .. n + 1
      BY <1>1
    <2> QED
      BY <1>4, <1>9, <1>10, <1>12, <1>13, <2>1, <2>2 DEF NewCloses
  <1>15. Dropped(n - 1)
    BY <1>1, <1>3, <1>5 DEF Dropped
  <1>16. Opens(n - 1)
    BY <1>4 DEF Opens
  <1> QED
    BY <1>3, <1>11, <1>14, <1>15, <1>16, CloseStep

LEMMA CloseFreeStep ==
    ASSUME IInv, CloseInv, Links, CloseFree
    PROVE  CloseInv'
  <1>1. PICK n \in Nat : n = Len(stack) /\ n >= 1 /\ n \in 1 .. n /\ Top = stack[n]
    BY StackLen
  <1>2. Top.pc = "clFree" /\ Keeps(n - 1, n - 1)
    BY <1>1, CloseFreeMove
  <1>3. PICK e \in Event : e = Top.ev
    BY <1>2, TopFacts DEF GoodFrame, EventPC, ClosePC
  <1>4. Kept(n - 1, n - 1)
    BY <1>1, <1>2, KeptPop
  <1>5. Closes(Top, e)
    BY <1>2, <1>3 DEF Closes, ClosePC
  <1>6. Client(e) /\ ~Linked(e) /\ \A i \in 1 .. n - 1 : ~Uses(stack[i], e)
    BY <1>1, <1>2, <1>3, <1>5 DEF CloseInv, CoreIsOpen, FreeingIsUnlinked, ClosedIsUnused
  <1>7. \A x \in Event : x # e => state'[x] = state[x]
    BY <1>3 DEF CloseFree, IInv, DataOK
  <1>8. Opens(n - 1)
    BY <1>6, <1>7 DEF Opens
  <1> QED
    BY <1>4, <1>8, KeptStep

\* A step under which every open event stays open.
LEMMA OpenStep ==
    ASSUME IInv, CloseInv, Links, \E k, m : Kept(k, m),
           state' = state \/ \E e \in Event : UserCreateEvent(e)
    PROVE  CloseInv'
  <1>1. \A x \in Event : state[x] = "open" => state'[x] = "open"
    BY DEF UserCreateEvent, IInv, DataOK
  <1>2. PICK k, m : Kept(k, m)
    OBVIOUS
  <1>3. Opens(k)
    BY <1>1 DEF Opens
  <1> QED
    BY <1>2, <1>3, KeptStep

LEMMA CloseInvNext ==
    ASSUME IInv, SignalInv, SignalInv', Nested, TimersOK, ReadOnce, ~RearmWhileClosing,
           CloseInv, [Next]_vars
    PROVE  CloseInv'
  <1>1. QueuesHold /\ QueuesHold' /\ SignalsMade /\ WalkOnTop
    BY DEF SignalInv
  <1>2. Links
    BY <1>1, LinksHold
  <1>3. CASE UNCHANGED vars
    BY <1>3 DEF vars, CloseInv, UsedIsOpen, FreedIsUnlinked, Linked, CoreIsOpen, ClosedIsUnused,
       ClosedIsLeft, CancelComesFirst, FreeingIsUnlinked, ClientsAreAbove, TimersAreTimers
  <1>4. CASE DispatchNotify
    BY <1>2, <1>4, DispatchNotifyStep
  <1>5. CASE CloseUnlink
    BY <1>1, <1>2, <1>5, CloseUnlinkStep
  <1>6. CASE CloseFree
    BY <1>2, <1>6, CloseFreeStep
  <1>7. ASSUME state' = state \/ \E e \in Event : UserCreateEvent(e), \E k, m : Kept(k, m)
        PROVE  CloseInv'
    BY <1>2, <1>7, OpenStep
  <1>8. state' = state \/ CloseFree \/ \E e \in Event : UserCreateEvent(e)
    BY StateChange
  <1>9. CASE \E e \in Event : UserCreateEvent(e)
    BY <1>7, <1>9, IdleSteps
  <1>10. CASE ClientCall
    <2>1. CASE \E e \in Event : UserCloseEvent(e)
      BY <1>1, <1>2, <2>1, CloseCallStep
    <2>2. CASE \E NewTpl \in RaiseLevels : UserRaiseTpl(NewTpl)
      BY <1>2, <2>2, RaiseStep
    <2>3. CASE \/ UserWaitForEvent
               \/ \E e \in Event :
                     \/ UserSignalEvent(e) \/ UserCheckEvent(e)
                     \/ \E Type \in {"TimerCancel", "TimerRelative", "TimerPeriodic"},
                           TriggerTime \in TriggerTimes : UserSetTimer(e, Type, TriggerTime)
      <3>1. \E k, m : Kept(k, m)
        BY <2>3, CallSteps
      <3>2. state' = state
        BY <2>3 DEF UserWaitForEvent, UserSignalEvent, UserCheckEvent, UserSetTimer, eventVars
      <3> QED
        BY <1>7, <3>1, <3>2
    <2> QED
      BY <1>9, <1>10, <2>1, <2>2, <2>3 DEF ClientCall
  <1>11. ASSUME ~CloseFree, \E k, m : Kept(k, m)
         PROVE  CloseInv'
    BY <1>7, <1>8, <1>11
  <1>12. CASE /\ ~CloseFree
              /\ \/ GroupRelease \/ GroupReturn \/ RestoreCheck \/ RestorePick \/ RestoreSet
                 \/ DispatchDone \/ TimerInsert \/ CheckTimersStart \/ CheckTimersInsert
                 \/ CheckTimersOnce \/ CheckTimersDone \/ CoreTimerTick
                 \/ UserRestoreTpl \/ NotifyReturn
    BY <1>11, <1>12, IdleSteps
  <1>13. CASE /\ ~CloseFree
              /\ \/ GroupLock \/ GroupWalk \/ TimerArm \/ CheckTimersRearm
                 \/ CheckQueue \/ CheckRead \/ CheckClear \/ CheckReturn
    BY <1>11, <1>13, GoingOnSteps
  <1>14. CASE ~CloseFree /\ (WaitCheck \/ WaitIdle)
    BY <1>11, <1>14, CallSteps
  <1>15. CASE ~CloseFree /\ (DispatchTake \/ CheckTimersFire \/ TimerRemove)
    BY <1>1, <1>11, <1>15, TakeSteps
  <1> QED
    BY <1>3, <1>4, <1>5, <1>6, <1>10, <1>12, <1>13, <1>14, <1>15 DEF Next, Continue

LEMMA InitClose == Init => CloseInv
  <1> SUFFICES ASSUME Init
               PROVE  CloseInv
    OBVIOUS
  <1>1. Len(stack) = 1 /\ stack[1].pc = "user"
    BY FrameFields DEF Init
  <1>2. \A i \in 1 .. Len(stack) : i = 1
    BY <1>1
  <1>3. \A i \in 1 .. Len(stack) : \A j \in 1 .. i - 1 : FALSE
    BY <1>1
  <1>4. "user" \notin UsePC \cup CallPC \cup ClosePC \cup TimerPC \cup {"wtNext", "clFree", "dNotify"}
    BY DEF UsePC, CallPC, ClosePC, TimerPC, SetTimerPC, CheckPC
  <1>5. \A i \in 1 .. Len(stack) : \A x \in Event :
            ~Uses(stack[i], x) /\ ~Closes(stack[i], x)
    BY <1>1, <1>2, <1>4 DEF Uses, Closes, WaitsFor
  <1>6. ASSUME NEW x \in Event, Linked(x)
        PROVE  state[x] = "open"
    <2>1. \A i \in 1 .. Len(<<>>) : FALSE
      OBVIOUS
    <2>2. (\A p \in TPL : ~Contains(queue[p], x)) /\ ~Contains(timers, x)
      BY <2>1 DEF Init, Contains
    <2>3. Contains(InitialSignalQueue, x)
      BY <1>6, <2>2 DEF Linked, Init
    <2>4. x \in ToSet(InitialSignalQueue)
      BY <2>3 DEF Contains, ToSet
    <2> QED
      BY <2>4, EventAssumption DEF Init
  <1>7. \A x \in Event : ~Contains(timers, x)
    <2>1. \A i \in 1 .. Len(<<>>) : FALSE
      OBVIOUS
    <2> QED
      BY <2>1 DEF Init, Contains
  <1>8. UsedIsOpen /\ ClosedIsUnused /\ ClosedIsLeft /\ CancelComesFirst
    BY <1>3, <1>5 DEF UsedIsOpen, ClosedIsUnused, ClosedIsLeft, CancelComesFirst
  <1>9. FreedIsUnlinked
    BY <1>6 DEF FreedIsUnlinked
  <1>10. CoreIsOpen
    BY <1>5, EventAssumption DEF CoreIsOpen, Init
  <1>11. FreeingIsUnlinked /\ ClientsAreAbove /\ TimersAreTimers
    BY <1>1, <1>2, <1>3, <1>4, <1>7 DEF FreeingIsUnlinked, ClientsAreAbove, TimersAreTimers
  <1> QED
    BY <1>8, <1>9, <1>10, <1>11 DEF CloseInv

LEMMA CloseInvariance ==
    ASSUME ReadOnce, ~RearmWhileClosing
    PROVE  Spec => []CloseInv
  <1>1. IInv /\ SignalInv /\ SignalInv' /\ Nested /\ TimersOK /\ CloseInv /\ [Next]_vars => CloseInv'
    BY CloseInvNext
  <1> QED
    BY <1>1, InitClose, Invariance, SignalInvariance, NestedInvariance, TimersInvariance, PTL
    DEF Spec

\* An event structure that has been freed, or was never created, is on no list
\* of the core: not on a notification queue, not among the signal events, not
\* on the timer list, whatever interrupted the call of CoreCloseEvent.
THEOREM FreedStaysUnlinked ==
    ASSUME ReadOnce, ~RearmWhileClosing
    PROVE  Spec => []FreedIsUnlinked
  <1>1. CloseInv => FreedIsUnlinked
    BY DEF CloseInv
  <1> QED
    BY <1>1, CloseInvariance, PTL

==============================================================================
