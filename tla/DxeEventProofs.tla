--------------------------- MODULE DxeEventProofs ---------------------------
(***************************************************************************)
(* Proofs about DxeEvent for every population of events and every bound.   *)
(* The invariant has two parts besides the types: what the frames of the   *)
(* stack carry (GoodFrame), and how they may follow one another (Shaped).  *)
(***************************************************************************)
EXTENDS DxeEvent, SequenceTheorems, WellFoundedInduction, FiniteSetTheorems, TLAPS

\* Frames that are about an event.
EventPC ==
    {"dNotify", "dCalled"} \cup GroupPC \cup SetTimerPC \cup TimersPC
        \cup ClosePC \cup CheckPC

\* What a frame carries: an event where it is about one, and none where the
\* dispatcher has yet to take one; between the two lines of CoreRestoreTpl, a
\* pending level above the one to be restored; and in CoreWaitForEvent an index
\* of an array.
GoodFrame ==
    {f \in Frame : /\ f.pc \in EventPC => f.ev \in Event
                   /\ f.pc = "dLoop" => f.ev = NoEvent
                   /\ f.pc = "rPick" => f.val \in TPL /\ f.val > f.lvl
                   /\ f.pc = "wtNext" => f.val # 0}

\* Frames of notification functions, which sit on the dispatcher that called
\* them.
Called(f) == f.pc \in TimersPC \/ (f.pc = "user" /\ f.ev # NoEvent)

\* Levels do not decrease towards the top, and dispatchers are strictly
\* above one another.
Ordered(s) ==
    \A i, j \in 1 .. Len(s) :
        i < j => /\ s[i].lvl <= s[j].lvl
                 /\ s[i].pc \in DispatchPC /\ s[j].pc \in DispatchPC
                        => s[i].lvl < s[j].lvl

Shaped(s) ==
    /\ s \in Seq(GoodFrame) /\ s # <<>>
    /\ s[1].pc = "user" /\ s[1].ev = NoEvent
    /\ \A i \in 2 .. Len(s) : s[i].pc = "user" => s[i].ev # NoEvent
    /\ \A i \in 2 .. Len(s) : Called(s[i]) => s[i - 1].pc = "dCalled"
    /\ ReadOnce => Ordered(s)

(***************************************************************************)
(* Stacks.                                                                 *)
(***************************************************************************)

\* Appending a frame.
LEMMA AppendStack ==
    ASSUME NEW S, NEW s \in Seq(S), NEW f \in S
    PROVE  /\ Append(s, f) \in Seq(S)
           /\ Append(s, f) # <<>>
           /\ Len(Append(s, f)) = Len(s) + 1
           /\ \A i \in 1 .. Len(s) : Append(s, f)[i] = s[i]
           /\ Append(s, f)[Len(s) + 1] = f
  OBVIOUS

\* A prefix of a sequence.
LEMMA PrefixOfSeq ==
    ASSUME NEW S, NEW s \in Seq(S), NEW n \in Nat, n <= Len(s)
    PROVE  /\ SubSeq(s, 1, n) \in Seq(S)
           /\ Len(SubSeq(s, 1, n)) = n
           /\ \A i \in 1 .. n : SubSeq(s, 1, n)[i] = s[i]
  <1>1. \A i \in 1 .. n : s[i] \in S
    BY ElementOfSeq
  <1>2. SubSeq(s, 1, n) \in Seq(S)
    BY <1>1, SubSeqProperties
  <1>3. Len(SubSeq(s, 1, n)) = n
    BY <1>1, SubSeqProperties
  <1>4. \A i \in 1 .. n : SubSeq(s, 1, n)[i] = s[i]
    BY <1>1, SubSeqProperties
  <1> QED
    BY <1>2, <1>3, <1>4

\* Dropping the top frame.
LEMMA FrontStack ==
    ASSUME NEW S, NEW s \in Seq(S), s # <<>>
    PROVE  /\ Front(s) \in Seq(S)
           /\ Len(Front(s)) = Len(s) - 1
           /\ \A i \in 1 .. Len(s) - 1 : Front(s)[i] = s[i]
  <1>1. PICK n \in Nat : n = Len(s) - 1
    BY EmptySeq
  <1>a. n <= Len(s)
    BY <1>1, LenProperties
  <1>2. /\ SubSeq(s, 1, n) \in Seq(S)
        /\ Len(SubSeq(s, 1, n)) = n
        /\ \A i \in 1 .. n : SubSeq(s, 1, n)[i] = s[i]
    BY <1>a, PrefixOfSeq
  <1>3. Front(s) = SubSeq(s, 1, n)
    BY <1>1 DEF Front
  <1> QED
    BY <1>1, <1>2, <1>3

\* A call: the caller's frame stays, the called frame comes on top of it.
LEMMA PushShaped ==
    ASSUME NEW s, Shaped(s), NEW f \in GoodFrame,
           f.pc # "user" \/ f.ev # NoEvent,
           Called(f) => s[Len(s)].pc = "dCalled",
           ReadOnce => /\ s[Len(s)].lvl <= f.lvl
                       /\ f.pc \in DispatchPC => s[Len(s)].lvl < f.lvl
    PROVE  Shaped(Append(s, f))
  <1> DEFINE r == Append(s, f)
  <1>1. s \in Seq(GoodFrame) /\ s # <<>> /\ Len(s) \in Nat \ {0}
    BY EmptySeq DEF Shaped
  <1>2. /\ r \in Seq(GoodFrame) /\ r # <<>> /\ Len(r) = Len(s) + 1
        /\ \A i \in 1 .. Len(s) : r[i] = s[i]
        /\ r[Len(s) + 1] = f
    BY <1>1, AppendStack
  <1>3. \A i \in 1 .. Len(s) : s[i] \in Frame /\ s[i].lvl \in TPL
    BY <1>1, ElementOfSeq DEF GoodFrame, Frame
  <1>4. f.lvl \in TPL
    BY DEF GoodFrame, Frame
  <1> HIDE DEF r
  <1>5. \A i \in 2 .. Len(r) : Called(r[i]) => r[i - 1].pc = "dCalled"
    <2> SUFFICES ASSUME NEW i \in 2 .. Len(r), Called(r[i])
                 PROVE  r[i - 1].pc = "dCalled"
      OBVIOUS
    <2>1. CASE i \in 2 .. Len(s)
      BY <2>1, <1>1, <1>2 DEF Shaped
    <2>2. CASE i = Len(s) + 1
      BY <2>2, <1>1, <1>2
    <2> QED
      BY <2>1, <2>2, <1>1, <1>2
  <1>6. \A i \in 2 .. Len(r) : r[i].pc = "user" => r[i].ev # NoEvent
    BY <1>1, <1>2 DEF Shaped
  <1>7. ReadOnce => Ordered(r)
    <2> SUFFICES ASSUME ReadOnce, NEW i \in 1 .. Len(r), NEW j \in 1 .. Len(r), i < j
                 PROVE  /\ r[i].lvl <= r[j].lvl
                        /\ r[i].pc \in DispatchPC /\ r[j].pc \in DispatchPC
                              => r[i].lvl < r[j].lvl
      BY DEF Ordered
    <2>1. i \in 1 .. Len(s) /\ r[i] = s[i]
      BY <1>1, <1>2
    <2>2. CASE j \in 1 .. Len(s)
      BY <2>1, <2>2, <1>2 DEF Shaped, Ordered
    <2>3. CASE j = Len(s) + 1
      <3>1. s[i].lvl <= s[Len(s)].lvl
        BY <2>1, <1>1, <1>3 DEF Shaped, Ordered, TPL
      <3> QED
        BY <3>1, <2>1, <2>3, <1>1, <1>2, <1>3, <1>4 DEF TPL
    <2> QED
      BY <2>2, <2>3, <1>1, <1>2
  <1>8. r[1].pc = "user" /\ r[1].ev = NoEvent
    BY <1>1, <1>2 DEF Shaped
  <1> QED
    BY <1>2, <1>5, <1>6, <1>7, <1>8 DEF Shaped, r

\* The top call goes on, or becomes a call of CoreRestoreTpl.
LEMMA BecomeShaped ==
    ASSUME NEW s, Shaped(s), Len(s) >= 2, NEW f \in GoodFrame,
           f.pc # "user",
           Called(f) => Called(s[Len(s)]),
           \/ f.lvl = s[Len(s)].lvl /\ (f.pc \in DispatchPC => s[Len(s)].pc \in DispatchPC)
           \/ f.lvl = s[Len(s) - 1].lvl /\ f.pc \notin DispatchPC
    PROVE  Shaped([s EXCEPT ![Len(s)] = f])
  <1> DEFINE n == Len(s)
             r == [s EXCEPT ![n] = f]
  <1>1. s \in Seq(GoodFrame) /\ s # <<>> /\ n \in Nat /\ n >= 2
    BY EmptySeq DEF Shaped
  <1>2. /\ r \in Seq(GoodFrame) /\ r # <<>> /\ Len(r) = n
        /\ \A i \in 1 .. n - 1 : r[i] = s[i]
        /\ r[n] = f
    BY <1>1, ExceptSeq
  <1>3. \A i \in 1 .. n : s[i] \in Frame /\ s[i].lvl \in TPL
    BY <1>1, ElementOfSeq DEF GoodFrame, Frame
  <1> HIDE DEF r
  <1>4. \A i \in 2 .. n : Called(r[i]) => r[i - 1].pc = "dCalled"
    <2> SUFFICES ASSUME NEW i \in 2 .. n, Called(r[i])
                 PROVE  r[i - 1].pc = "dCalled"
      OBVIOUS
    <2>1. Called(s[i])
      BY <1>1, <1>2
    <2>2. s[i - 1].pc = "dCalled"
      BY <2>1 DEF Shaped
    <2> QED
      BY <2>2, <1>1, <1>2
  <1>5. \A i \in 2 .. n : r[i].pc = "user" => r[i].ev # NoEvent
    <2> SUFFICES ASSUME NEW i \in 2 .. n, r[i].pc = "user"
                 PROVE  r[i].ev # NoEvent
      OBVIOUS
    <2>1. i # n
      BY <1>2
    <2> QED
      BY <2>1, <1>1, <1>2 DEF Shaped
  <1>6. ReadOnce => Ordered(r)
    <2> SUFFICES ASSUME ReadOnce, NEW i \in 1 .. n, NEW j \in 1 .. n, i < j
                 PROVE  /\ r[i].lvl <= r[j].lvl
                        /\ r[i].pc \in DispatchPC /\ r[j].pc \in DispatchPC
                              => r[i].lvl < r[j].lvl
      BY <1>2 DEF Ordered
    <2>1. i \in 1 .. n - 1 /\ r[i] = s[i]
      BY <1>1, <1>2
    <2>2. CASE j \in 1 .. n - 1
      BY <2>1, <2>2, <1>2 DEF Shaped, Ordered
    <2>3. CASE j = n
      <3>1. /\ s[i].lvl <= s[n].lvl
            /\ s[i].pc \in DispatchPC /\ s[n].pc \in DispatchPC => s[i].lvl < s[n].lvl
            /\ s[i].lvl <= s[n - 1].lvl
        BY <2>1, <1>1, <1>3 DEF Shaped, Ordered, TPL
      <3> QED
        BY <3>1, <2>1, <2>3, <1>2
    <2> QED
      BY <2>2, <2>3, <1>1
  <1>7. r[1].pc = "user" /\ r[1].ev = NoEvent
    BY <1>1, <1>2 DEF Shaped
  <1>8. Shaped(r)
    BY <1>2, <1>4, <1>5, <1>6, <1>7 DEF Shaped
  <1> QED
    BY <1>8 DEF r

\* The top call returns.
LEMMA FrontShaped ==
    ASSUME NEW s, Shaped(s), Len(s) >= 2
    PROVE  /\ Shaped(Front(s))
           /\ Len(Front(s)) = Len(s) - 1
           /\ Front(s)[Len(s) - 1] = s[Len(s) - 1]
  <1> DEFINE r == Front(s)
  <1>1. s \in Seq(GoodFrame) /\ s # <<>> /\ Len(s) \in Nat
    BY DEF Shaped
  <1>2. /\ r \in Seq(GoodFrame) /\ Len(r) = Len(s) - 1
        /\ \A i \in 1 .. Len(s) - 1 : r[i] = s[i]
    BY <1>1, FrontStack
  <1>3. r # <<>>
    BY <1>1, <1>2
  <1> HIDE DEF r
  <1>4. \A i \in 2 .. Len(r) : r[i] = s[i] /\ r[i - 1] = s[i - 1]
    <2> SUFFICES ASSUME NEW i \in 2 .. Len(r)
                 PROVE  r[i] = s[i] /\ r[i - 1] = s[i - 1]
      OBVIOUS
    <2>1. i \in 1 .. Len(s) - 1 /\ i - 1 \in 1 .. Len(s) - 1
      BY <1>1, <1>2
    <2> QED
      BY <2>1, <1>2
  <1>5. \A i \in 1 .. Len(r) : i \in 1 .. Len(s) /\ r[i] = s[i]
    BY <1>1, <1>2
  <1>6. ReadOnce => Ordered(r)
    BY <1>5 DEF Shaped, Ordered
  <1>7. \A i \in 2 .. Len(r) : i \in 2 .. Len(s)
    BY <1>1, <1>2
  <1>8. r[1] = s[1]
    BY <1>1, <1>2
  <1>9. Shaped(r)
    BY <1>2, <1>3, <1>4, <1>6, <1>7, <1>8 DEF Shaped
  <1> QED
    BY <1>1, <1>2, <1>9 DEF r

(***************************************************************************)
(* Lists and bits.                                                         *)
(***************************************************************************)

\* A part of a list is a list.
LEMMA SubSeqType ==
    ASSUME NEW S, NEW s \in Seq(S), NEW a \in Int, NEW b \in Int,
           1 <= a, b <= Len(s)
    PROVE  SubSeq(s, a, b) \in Seq(S)
  <1>1. \A i \in a .. b : i \in 1 .. Len(s)
    BY LenProperties
  <1>2. \A i \in a .. b : s[i] \in S
    BY <1>1, ElementOfSeq
  <1> QED
    BY <1>2, SubSeqProperties

\* Taking a node off a list.
LEMMA UnlinkedType ==
    ASSUME NEW S, NEW s \in Seq(S), NEW e
    PROVE  /\ Unlinked(s, e) \in Seq(S)
           /\ s = <<>> => Unlinked(s, e) = <<>>
  <1>1. CASE ~Contains(s, e)
    BY <1>1 DEF Unlinked
  <1>2. CASE Contains(s, e)
    <2> DEFINE j == CHOOSE i \in 1 .. Len(s) : s[i] = e
    <2>1. j \in 1 .. Len(s)
      BY <1>2 DEF Contains
    <2>2. Len(s) \in Nat
      BY LenProperties
    <2> HIDE DEF j
    <2>3. PICK a \in Int, b \in Int, n \in Int : a = j - 1 /\ b = j + 1 /\ n = Len(s)
      BY <2>1, <2>2
    <2>4. SubSeq(s, 1, a) \in Seq(S) /\ SubSeq(s, b, n) \in Seq(S)
      BY <2>1, <2>2, <2>3, SubSeqType
    <2>5. SubSeq(s, 1, a) \o SubSeq(s, b, n) \in Seq(S)
      BY <2>4, ConcatProperties
    <2>6. Unlinked(s, e) = SubSeq(s, 1, a) \o SubSeq(s, b, n)
      BY <1>2, <2>3 DEF Unlinked, RemoveAt, j
    <2>7. s # <<>>
      BY <2>1, <2>2, EmptySeq
    <2> QED
      BY <2>5, <2>6, <2>7
  <1> QED
    BY <1>1, <1>2

\* Putting a node into a list.
LEMMA InsertAtType ==
    ASSUME NEW S, NEW s \in Seq(S), NEW e \in S, NEW i \in 1 .. Len(s) + 1
    PROVE  InsertAt(s, i, e) \in Seq(S)
  <1>1. Len(s) \in Nat
    BY LenProperties
  <1>2. PICK a \in Int, n \in Int : a = i - 1 /\ n = Len(s)
    BY <1>1
  <1>3. SubSeq(s, 1, a) \in Seq(S) /\ SubSeq(s, i, n) \in Seq(S)
    BY <1>1, <1>2, SubSeqType
  <1>4. <<e>> \in Seq(S)
    OBVIOUS
  <1>5. (SubSeq(s, 1, a) \o <<e>>) \o SubSeq(s, i, n) \in Seq(S)
    BY <1>3, <1>4, ConcatProperties
  <1> QED
    BY <1>2, <1>5 DEF InsertAt

\* A set of natural numbers has a least element, and, under a bound, a greatest.
LEMMA LeastNat ==
    ASSUME NEW T \in SUBSET Nat, T # {}
    PROVE  \E x \in T : \A y \in T : x <= y
  <1>1. PICK x \in T : \A y \in T : ~ (<<y, x>> \in OpToRel(<, Nat))
    BY WFMin, NatLessThanWellFounded
  <1>2. \A y \in T : ~ (y < x)
    BY <1>1 DEF OpToRel
  <1> QED
    BY <1>2

LEMMA MinType ==
    ASSUME NEW T \in SUBSET Nat, T # {}
    PROVE  Min(T) \in T
  BY LeastNat DEF Min

LEMMA MaxOfLevels ==
    ASSUME NEW T \in SUBSET TPL, T # {}
    PROVE  Max(T) \in T /\ \A y \in T : y <= Max(T)
  <1> DEFINE U == {TPL_HIGH_LEVEL - x : x \in T}
  <1> TPL = 0 .. 31 /\ TPL_HIGH_LEVEL = 31
    BY DEF TPL, TPL_HIGH_LEVEL
  <1>1. U \in SUBSET Nat /\ U # {}
    <2>1. \A u \in U : u \in Nat
      OBVIOUS
    <2> QED
      BY <2>1
  <1>2. PICK u \in U : \A y \in U : u <= y
    BY <1>1, LeastNat
  <1>3. PICK x \in T : u = TPL_HIGH_LEVEL - x
    BY <1>2
  <1>4. ASSUME NEW y \in T
        PROVE  x >= y
    <2>1. TPL_HIGH_LEVEL - x <= TPL_HIGH_LEVEL - y
      BY <1>2, <1>3
    <2>2. x \in 0 .. 31 /\ y \in 0 .. 31
      OBVIOUS
    <2> QED
      BY <2>1, <2>2
  <1>5. \E z \in T : \A y \in T : z >= y
    BY <1>4
  <1>6. Max(T) \in T /\ \A y \in T : Max(T) >= y
    BY <1>5 DEF Max
  <1> QED
    BY <1>6 DEF TPL

\* CoreInsertEventTimer puts the timer on the list or at its end.
LEMMA TimerPlaceType ==
    ASSUME timers \in Seq(Event), NEW e
    PROVE  TimerPlace(e) \in 1 .. Len(timers) + 1
  <1> DEFINE T == {i \in 1 .. Len(timers) : trigger[timers[i]] > trigger[e]}
                      \cup {Len(timers) + 1}
  <1>1. Len(timers) \in Nat
    BY LenProperties
  <1>2. T \in SUBSET Nat /\ T # {} /\ T \subseteq 1 .. Len(timers) + 1
    BY <1>1
  <1>3. Min(T) \in T
    BY <1>2, MinType
  <1> QED
    BY <1>2, <1>3 DEF TimerPlace

\* HighBitSet64 answers a level, unless it is given no bits.
LEMMA HighBitType ==
    ASSUME pending \subseteq TPL
    PROVE  /\ HighBitSet64(pending) \in TPL \cup {MAX_UINTN}
           /\ \A l \in TPL : PendingAbove(l) # {} =>
                 HighBitSet64(pending) \in TPL /\ HighBitSet64(pending) > l
  <1>1. CASE pending = {}
    BY <1>1 DEF HighBitSet64, PendingAbove
  <1>2. CASE pending # {}
    <2>1. Max(pending) \in pending /\ \A y \in pending : y <= Max(pending)
      BY <1>2, MaxOfLevels
    <2>2. HighBitSet64(pending) = Max(pending)
      BY <1>2 DEF HighBitSet64
    <2>3. ASSUME NEW l \in TPL, PendingAbove(l) # {}
          PROVE  Max(pending) > l
      <3>1. PICK y \in pending : y > l
        BY <2>3 DEF PendingAbove
      <3>2. y \in TPL /\ Max(pending) \in TPL
        BY <2>1
      <3>3. y <= Max(pending)
        BY <2>1
      <3> QED
        BY <3>1, <3>2, <3>3 DEF TPL, TPL_HIGH_LEVEL
    <2> QED
      BY <2>1, <2>2, <2>3
  <1> QED
    BY <1>1, <1>2

(***************************************************************************)
(* The inductive invariant.                                                *)
(***************************************************************************)

\* Types, the stack and the queues left out.
DataOK ==
    /\ tpl \in TPL \cup {MAX_UINTN}
    /\ signalq \in Seq(Event)
    /\ state \in [Event -> {"none", "open", "freed"}]
    /\ count \in [Event -> 0 .. 1]
    /\ timers \in Seq(Event)
    /\ trigger \in [Event -> Nat]
    /\ period \in [Event -> Nat]
    /\ sysTime \in Nat
    /\ ops \in Nat

\* The queues and the pending bits.
QueuesOK ==
    /\ pending \subseteq TPL
    /\ queue \in [TPL -> Seq(Event)]
    /\ QueuedIsPending

\* Level t is one the top frame of the stack s may run at: where gEventPending
\* is read once, never a lower one than it will go back to.
Fits(s, t) ==
    /\ Shaped(s)
    /\ ReadOnce => s[Len(s)].lvl <= t
    /\ t = MAX_UINTN => s[Len(s)].pc = "ASSERT"

IInv == DataOK /\ QueuesOK /\ Fits(stack, tpl)

\* Levels are small numbers.
LEMMA Levels ==
    /\ TPL_HIGH_LEVEL \in TPL /\ MAX_UINTN \notin TPL
    /\ \A x \in TPL : x \in Nat /\ x <= x /\ x <= TPL_HIGH_LEVEL
    /\ \A x, y \in TPL : x < y => x <= y
    /\ \A x, y, z \in TPL : x <= y /\ y <= z => x <= z
  BY DEF TPL, TPL_HIGH_LEVEL, MAX_UINTN

\* What is known of the top frame.
LEMMA TopOfStack ==
    ASSUME NEW s, Shaped(s), NEW f, f = s[Len(s)]
    PROVE  /\ Len(s) \in Nat \ {0}
           /\ s \in Seq(Frame) /\ s # <<>>
           /\ f \in GoodFrame /\ f \in Frame
           /\ f.pc \in PC /\ f.lvl \in TPL /\ f.val \in Nat
           /\ f.ev \in Event \cup {NoEvent}
           /\ f.pc # "user" \/ f.ev # NoEvent => Len(s) >= 2
  <1>1. s \in Seq(GoodFrame) /\ s # <<>> /\ Len(s) \in Nat \ {0}
    BY EmptySeq DEF Shaped
  <1>2. f \in GoodFrame /\ f \in Frame
    BY <1>1, ElementOfSeq DEF GoodFrame
  <1>3. s \in Seq(Frame)
    BY <1>1, SeqMonotonic DEF GoodFrame
  <1>4. f.pc # "user" \/ f.ev # NoEvent => Len(s) # 1
    BY DEF Shaped
  <1>5. /\ f.pc \in PC /\ f.lvl \in TPL /\ f.val \in Nat
        /\ f.ev \in Event \cup {NoEvent}
    BY <1>2 DEF Frame
  <1>6. f.pc # "user" \/ f.ev # NoEvent => Len(s) >= 2
    <2>1. PICK n \in Nat : n = Len(s) /\ n # 0
      BY <1>1
    <2>2. n # 1 => n >= 2
      BY <2>1
    <2> QED
      BY <1>4, <2>1, <2>2
  <1> QED
    BY <1>1, <1>2, <1>3, <1>5, <1>6

\* The frame of a call of CoreRestoreTpl.
LEMMA RestoreFrame ==
    ASSUME NEW l \in TPL
    PROVE  /\ Restore(l) \in GoodFrame
           /\ Restore(l).pc = "rCheck" /\ Restore(l).lvl = l
           /\ ~Called(Restore(l))
  BY DEF Restore, F, GoodFrame, Frame, PC, EventPC, Called, UserPC, RestorePC,
         DispatchPC, GroupPC, SetTimerPC, TimersPC, ClosePC, CheckPC, WaitPC

\* A call of anything but client code and the dispatcher.
LEMMA CallFits ==
    ASSUME NEW s, Shaped(s), NEW f \in GoodFrame, NEW t \in TPL,
           f.pc # "user", f.pc \notin DispatchPC, f.pc \notin TimersPC,
           ReadOnce => s[Len(s)].lvl <= f.lvl /\ f.lvl <= t
    PROVE  Fits(Append(s, f), t)
  <1>1. ~Called(f)
    BY DEF Called
  <1>2. Shaped(Append(s, f))
    BY <1>1, PushShaped
  <1>3. Append(s, f)[Len(Append(s, f))] = f
    BY AppendStack DEF Shaped
  <1>4. t # MAX_UINTN
    BY DEF TPL, TPL_HIGH_LEVEL, MAX_UINTN
  <1> QED
    BY <1>2, <1>3, <1>4 DEF Fits

\* The top call goes on to the point f.
LEMMA GoOnFits ==
    ASSUME Shaped(stack), Top.pc # "user", NEW f \in GoodFrame, NEW t,
           f.pc # "user", f.lvl = Top.lvl, Called(f) => Called(Top),
           f.pc \in DispatchPC => Top.pc \in DispatchPC,
           ReadOnce => Top.lvl <= t,
           t = MAX_UINTN => f.pc = "ASSERT"
    PROVE  /\ Fits(Become(f), t) /\ Shaped(Become(f))
           /\ Len(Become(f)) = Len(stack) /\ Become(f)[Len(stack)] = f
  <1>1. Len(stack) \in Nat /\ Len(stack) >= 2 /\ stack \in Seq(GoodFrame)
    BY TopOfStack DEF Top, Shaped
  <1>2. Shaped(Become(f))
    BY <1>1, BecomeShaped DEF Top, Become
  <1>3. Len(Become(f)) = Len(stack) /\ Become(f)[Len(stack)] = f
    BY <1>1, ExceptSeq DEF Become
  <1> QED
    BY <1>2, <1>3 DEF Fits

\* The top call ends by going back to the level it was called at.
LEMMA EndFits ==
    ASSUME Shaped(stack), Top.pc # "user", NEW t \in TPL, ReadOnce => Top.lvl <= t
    PROVE  Fits(EndByRestore, t)
  <1>1. Top.lvl \in TPL
    BY TopOfStack DEF Top
  <1>2. /\ Restore(Top.lvl) \in GoodFrame /\ Restore(Top.lvl).lvl = Top.lvl
        /\ Restore(Top.lvl).pc = "rCheck" /\ ~Called(Restore(Top.lvl))
    BY <1>1, RestoreFrame
  <1>3. t # MAX_UINTN /\ "rCheck" \notin DispatchPC
    BY DEF TPL, TPL_HIGH_LEVEL, MAX_UINTN, DispatchPC
  <1> QED
    BY <1>2, <1>3, GoOnFits DEF EndByRestore

\* The top call goes on to f, but calls CoreRestoreTpl (l) first.
LEMMA GoOnRestoreFits ==
    ASSUME Shaped(stack), Top.pc # "user", NEW f \in GoodFrame, NEW t \in TPL,
           f.pc # "user", f.lvl = Top.lvl, Called(f) => Called(Top),
           f.pc \in DispatchPC => Top.pc \in DispatchPC,
           ReadOnce => Top.lvl <= t
    PROVE  Fits(Append(Become(f), Restore(Top.lvl)), t)
  <1>1. Top.lvl \in TPL
    BY TopOfStack DEF Top
  <1>2. /\ Restore(Top.lvl) \in GoodFrame /\ Restore(Top.lvl).lvl = Top.lvl
        /\ Restore(Top.lvl).pc = "rCheck"
    BY <1>1, RestoreFrame
  <1>3. "rCheck" \notin DispatchPC \cup TimersPC
    BY DEF DispatchPC, TimersPC
  <1>4. t # MAX_UINTN
    BY DEF TPL, TPL_HIGH_LEVEL, MAX_UINTN
  <1>5. Shaped(Become(f)) /\ Become(f)[Len(Become(f))] = f
    BY <1>4, GoOnFits
  <1> QED
    BY <1>1, <1>2, <1>3, <1>5, CallFits DEF TPL

\* The top call returns.
LEMMA ReturnFits ==
    ASSUME Shaped(stack), Len(stack) >= 2, NEW t \in TPL, ReadOnce => Top.lvl <= t
    PROVE  Fits(Front(stack), t)
  <1>1. /\ Shaped(Front(stack)) /\ Len(Front(stack)) = Len(stack) - 1
        /\ Front(stack)[Len(stack) - 1] = stack[Len(stack) - 1]
    BY FrontShaped
  <1>2. Len(stack) \in Nat /\ Top.lvl \in TPL /\ stack[Len(stack) - 1].lvl \in TPL
    BY <1>1, TopOfStack DEF Top
  <1>3. ReadOnce => stack[Len(stack) - 1].lvl <= Top.lvl
    BY <1>2 DEF Shaped, Ordered, Top
  <1>4. t # MAX_UINTN
    BY DEF TPL, TPL_HIGH_LEVEL, MAX_UINTN
  <1> QED
    BY <1>1, <1>2, <1>3, <1>4 DEF Fits, TPL

(***************************************************************************)
(* Queues.                                                                 *)
(***************************************************************************)

LEMMA NotifyQueues ==
    ASSUME QueuesOK, NEW e \in Event, CoreNotifyEvent(e)
    PROVE  QueuesOK'
  <1> DEFINE p == NotifyTpl[e]
             q == Append(Unlinked(queue[p], e), e)
  <1>1. p \in TPL
    BY NotifyTplAssumption
  <1>2. queue[p] \in Seq(Event)
    BY <1>1 DEF QueuesOK
  <1>3. q \in Seq(Event)
    BY <1>2, UnlinkedType, AppendStack
  <1>4. queue' = [queue EXCEPT ![p] = q] /\ pending' = pending \cup {p}
    BY DEF CoreNotifyEvent
  <1> HIDE DEF q, p
  <1> QED
    BY <1>1, <1>3, <1>4 DEF QueuesOK, QueuedIsPending

LEMMA SameQueues ==
    ASSUME QueuesOK, UNCHANGED <<queue, pending>>
    PROVE  QueuesOK'
  BY DEF QueuesOK, QueuedIsPending

\* SignalCount is 0 or 1, and signalling keeps the queues right.
LEMMA SignalCheckQueues ==
    ASSUME QueuesOK, count \in [Event -> 0 .. 1], SignalCheckTimers
    PROVE  QueuesOK' /\ count' \in [Event -> 0 .. 1]
  <1>1. mEfiCheckTimerEvent \in Event
    BY EventAssumption
  <1>2. CASE count[mEfiCheckTimerEvent] = 0
    BY <1>1, <1>2, NotifyQueues DEF SignalCheckTimers
  <1>3. CASE count[mEfiCheckTimerEvent] # 0
    BY <1>3, SameQueues DEF SignalCheckTimers
  <1> QED
    BY <1>2, <1>3

LEMMA SignalFits ==
    ASSUME QueuesOK, count \in [Event -> 0 .. 1],
           NEW caller, Shaped(caller), NEW t \in TPL,
           ReadOnce => caller[Len(caller)].lvl <= t,
           NEW e \in Event, CoreSignalEvent(e, caller, t)
    PROVE  /\ QueuesOK' /\ count' \in [Event -> 0 .. 1]
           /\ tpl' = TPL_HIGH_LEVEL /\ Fits(stack', tpl')
  <1> DEFINE gl == F("gLock", t, e, 0)
  <1>1. /\ tpl' = TPL_HIGH_LEVEL
        /\ TPL_HIGH_LEVEL \in TPL /\ t <= TPL_HIGH_LEVEL /\ t <= t
    BY DEF CoreSignalEvent, TPL, TPL_HIGH_LEVEL
  <1>2. /\ Restore(t) \in GoodFrame /\ Restore(t).lvl = t
        /\ Restore(t).pc \notin DispatchPC \cup TimersPC \cup {"user"}
    BY RestoreFrame DEF DispatchPC, TimersPC
  <1>3. /\ gl \in GoodFrame /\ gl.lvl = t
        /\ gl.pc \notin DispatchPC \cup TimersPC \cup {"user"}
    <2>1. gl.pc = "gLock" /\ gl.lvl = t
      BY DEF F
    <2>2. gl \in Frame
      BY DEF F, Frame, PC, GroupPC
    <2>3. gl \in GoodFrame
      BY <2>1, <2>2 DEF F, GoodFrame
    <2> QED
      BY <2>1, <2>3 DEF DispatchPC, TimersPC
  <1>4. Fits(Append(caller, Restore(t)), TPL_HIGH_LEVEL)
    BY <1>1, <1>2, CallFits
  <1>5. Fits(Append(Append(caller, gl), Restore(t)), TPL_HIGH_LEVEL)
    <2>1. Fits(Append(caller, gl), t)
      BY <1>1, <1>3, CallFits
    <2>2. Shaped(Append(caller, gl))
          /\ (ReadOnce => Append(caller, gl)[Len(Append(caller, gl))].lvl <= t)
      BY <2>1 DEF Fits
    <2> QED
      BY <2>2, <1>1, <1>2, CallFits
  <1>6. QueuesOK'
    BY NotifyQueues, SameQueues DEF CoreSignalEvent
  <1>7. count' \in [Event -> 0 .. 1]
    BY DEF CoreSignalEvent
  <1>8. stack' = Append(caller, Restore(t)) \/ stack' = Append(Append(caller, gl), Restore(t))
    BY DEF CoreSignalEvent
  <1> QED
    BY <1>1, <1>4, <1>5, <1>6, <1>7, <1>8

(***************************************************************************)
(* The steps, function by function.                                        *)
(***************************************************************************)

LEMMA TopFacts ==
    ASSUME IInv
    PROVE  /\ Shaped(stack) /\ Top \in GoodFrame /\ Top \in Frame
           /\ Top.pc \in PC /\ Top.lvl \in TPL /\ Top.val \in Nat
           /\ Top.ev \in Event \cup {NoEvent}
           /\ Top.pc # "user" \/ Top.ev # NoEvent => Len(stack) >= 2
           /\ Top.pc # "ASSERT" => tpl \in TPL
           /\ ReadOnce => Top.lvl <= tpl
           /\ TPL_HIGH_LEVEL \in TPL
           /\ Top.lvl <= Top.lvl /\ Top.lvl <= TPL_HIGH_LEVEL
  <1>1. Shaped(stack)
    BY DEF IInv, Fits
  <1>2. /\ Top \in GoodFrame /\ Top \in Frame
        /\ Top.pc \in PC /\ Top.lvl \in TPL /\ Top.val \in Nat
        /\ Top.ev \in Event \cup {NoEvent}
        /\ Top.pc # "user" \/ Top.ev # NoEvent => Len(stack) >= 2
    BY <1>1, TopOfStack DEF Top
  <1>3. Top.pc # "ASSERT" => tpl \in TPL
    BY DEF IInv, Fits, DataOK, Top
  <1>4. ReadOnce => Top.lvl <= tpl
    BY DEF IInv, Fits, Top
  <1>5. /\ TPL_HIGH_LEVEL \in TPL
        /\ Top.lvl <= Top.lvl /\ Top.lvl <= TPL_HIGH_LEVEL
    BY <1>2, Levels
  <1> QED
    BY <1>1, <1>2, <1>3, <1>4, <1>5

\* The walk of an event group.
LEMMA GroupSteps ==
    ASSUME IInv, GroupLock \/ GroupWalk \/ GroupRelease \/ GroupReturn
    PROVE  IInv'
  <1>1. QueuesOK /\ DataOK
    BY DEF IInv
  <1>2. ASSUME NEW pc \in {"gWalk", "gReturn"}, NEW v \in Nat, Top.pc \in GroupPC
        PROVE  LET f == [Top EXCEPT !.pc = pc, !.val = v] IN
               /\ f \in GoodFrame /\ f.lvl = Top.lvl /\ f.pc = pc
               /\ pc \notin DispatchPC /\ pc \notin TimersPC
               /\ pc # "user" /\ pc # "ASSERT" /\ ~Called(f)
    BY <1>2, TopFacts DEF GoodFrame, Frame, PC, EventPC, GroupPC, DispatchPC,
         TimersPC, Called
  <1>3. CASE GroupLock
    <2>1. DataOK' /\ QueuesOK'
      BY <1>1, <1>3, SameQueues, TopFacts DEF GroupLock, DataOK, eventVars, timerVars
    <2>2. Fits(Become([Top EXCEPT !.pc = "gWalk", !.val = 1]), TPL_HIGH_LEVEL)
      <3>1. Top.pc = "gLock" /\ Top.pc \in GroupPC
        BY <1>3 DEF GroupLock, At, GroupPC
      <3>2. /\ [Top EXCEPT !.pc = "gWalk", !.val = 1] \in GoodFrame
            /\ [Top EXCEPT !.pc = "gWalk", !.val = 1].lvl = Top.lvl
            /\ [Top EXCEPT !.pc = "gWalk", !.val = 1].pc = "gWalk"
            /\ ~Called([Top EXCEPT !.pc = "gWalk", !.val = 1])
            /\ "gWalk" \notin DispatchPC
        BY <1>2, <3>1
      <3> QED
        BY <3>1, <3>2, TopFacts, Levels, GoOnFits
    <2> QED
      BY <2>1, <2>2, <1>3 DEF GroupLock, IInv
  <1>4. CASE GroupWalk
    <2>1. Fits(Become([Top EXCEPT !.pc = "gWalk", !.val = Top.val + 1]), tpl)
      <3>1. Top.val + 1 \in Nat /\ Top.pc = "gWalk"
        BY <1>4, TopFacts DEF GroupWalk, At
      <3>2. tpl # MAX_UINTN
        BY <3>1, TopFacts, Levels
      <3> QED
        BY <1>2, <3>1, <3>2, TopFacts, GoOnFits DEF GroupPC
    <2>2. [Top EXCEPT !.pc = "gWalk", !.val = Top.val + 1] = [Top EXCEPT !.val = Top.val + 1]
      BY <1>4, TopFacts DEF GroupWalk, At, Frame
    <2>3. Fits(stack', tpl')
      BY <1>4, <2>1, <2>2 DEF GroupWalk
    <2>4. signalq[Top.val] \in Event
      BY <1>1, <1>4, ElementOfSeq DEF GroupWalk, DataOK
    <2>5. QueuesOK'
      BY <1>1, <1>4, <2>4, NotifyQueues, SameQueues DEF GroupWalk
    <2>6. DataOK'
      BY <1>1, <1>4 DEF GroupWalk, DataOK, eventVars, timerVars
    <2> QED
      BY <2>3, <2>5, <2>6 DEF IInv
  <1>5. CASE GroupRelease
    <2>1. DataOK' /\ QueuesOK'
      BY <1>1, <1>5, SameQueues DEF GroupRelease, DataOK, eventVars, timerVars
    <2>2. Top.pc = "gWalk" /\ tpl \in TPL
      BY <1>5, TopFacts DEF GroupRelease, At
    <2>3. LET f == [Top EXCEPT !.pc = "gReturn", !.val = Top.val] IN
          /\ f \in GoodFrame /\ f.lvl = Top.lvl /\ f.pc = "gReturn" /\ ~Called(f)
          /\ f.pc \notin DispatchPC /\ f.pc # "user"
          /\ f = [Top EXCEPT !.pc = "gReturn"]
      BY <1>2, <2>2, TopFacts DEF GroupPC, Frame
    <2>4. Fits(Append(Goto("gReturn"), Restore(Top.lvl)), tpl)
      BY <2>2, <2>3, TopFacts, GoOnRestoreFits DEF Goto
    <2> QED
      BY <2>1, <2>4, <1>5 DEF GroupRelease, IInv
  <1>6. CASE GroupReturn
    <2>1. DataOK' /\ QueuesOK'
      BY <1>1, <1>6, SameQueues, TopFacts DEF GroupReturn, DataOK, eventVars, timerVars
    <2>2. Fits(EndByRestore, TPL_HIGH_LEVEL)
      BY <1>6, TopFacts, EndFits DEF GroupReturn, At
    <2> QED
      BY <2>1, <2>2, <1>6 DEF GroupReturn, IInv
  <1> QED
    BY <1>3, <1>4, <1>5, <1>6

\* CoreRestoreTpl.
LEMMA RestoreSteps ==
    ASSUME IInv, RestoreCheck \/ RestorePick \/ RestoreSet
    PROVE  IInv'
  <1>1. QueuesOK /\ DataOK /\ pending \subseteq TPL
    BY DEF IInv, QueuesOK
  <1>2. CASE RestoreCheck
    <2>1. DataOK' /\ QueuesOK'
      BY <1>1, <1>2, SameQueues DEF RestoreCheck, DataOK, eventVars, timerVars
    <2>2. Top.pc = "rCheck" /\ tpl \in TPL /\ tpl # MAX_UINTN
      BY <1>2, TopFacts, Levels DEF RestoreCheck, At
    <2>3. CASE PendingAbove(Top.lvl) = {}
      <3> DEFINE f == [Top EXCEPT !.pc = "rSet"]
      <3>1. /\ f \in GoodFrame /\ f.lvl = Top.lvl /\ f.pc = "rSet" /\ ~Called(f)
            /\ f.pc \notin DispatchPC
        BY TopFacts DEF GoodFrame, Frame, PC, EventPC, RestorePC, GroupPC, SetTimerPC,
             CheckPC, ClosePC, DispatchPC, TimersPC, Called
      <3>2. Fits(Become(f), tpl)
        BY <2>2, <3>1, TopFacts, GoOnFits
      <3> QED
        BY <2>1, <2>3, <3>2, <1>2 DEF RestoreCheck, Goto, IInv
    <2>4. CASE PendingAbove(Top.lvl) # {}
      <3> DEFINE v == HighBitSet64(pending)
                 f == [Top EXCEPT !.pc = "rPick", !.val = v]
      <3>1. v \in TPL /\ v > Top.lvl
        BY <1>1, <2>4, TopFacts, HighBitType
      <3> HIDE DEF v
      <3>2. v \in Nat
        BY <3>1 DEF TPL, TPL_HIGH_LEVEL
      <3>3. /\ f \in Frame /\ f.lvl = Top.lvl /\ f.pc = "rPick" /\ f.val = v
        BY <3>2, TopFacts DEF Frame, PC, RestorePC
      <3>4. f \in GoodFrame /\ ~Called(f) /\ f.pc \notin DispatchPC
        BY <3>1, <3>3 DEF GoodFrame, EventPC, GroupPC, SetTimerPC,
             CheckPC, ClosePC, DispatchPC, TimersPC, Called
      <3>5. Fits(Become(f), tpl)
        BY <2>2, <3>3, <3>4, TopFacts, GoOnFits
      <3> QED
        BY <2>1, <2>4, <3>5, <1>2 DEF RestoreCheck, IInv, v
    <2> QED
      BY <2>3, <2>4
  <1>3. CASE RestorePick
    <2> DEFINE q == IF ReadOnce THEN Top.val ELSE HighBitSet64(pending)
               f == [Top EXCEPT !.pc = "rCheck", !.val = 0]
               g == F("dLoop", q, NoEvent, 0)
               a == [Top EXCEPT !.pc = "ASSERT"]
    <2>1. Top.pc = "rPick" /\ Top.val \in TPL /\ Top.val > Top.lvl
      BY <1>3, TopFacts DEF RestorePick, At, GoodFrame
    <2>2. q \in TPL \cup {MAX_UINTN} /\ (ReadOnce => q \in TPL /\ q > Top.lvl)
      BY <1>1, <2>1, HighBitType
    <2>3. tpl' = q
      BY <1>3 DEF RestorePick
    <2>4. stack' = IF q = MAX_UINTN THEN Become(a) ELSE Append(Become(f), g)
      BY <1>3 DEF RestorePick, Goto
    <2> HIDE DEF q
    <2>5. DataOK' /\ QueuesOK'
      BY <1>1, <1>3, <2>2, <2>3, SameQueues DEF RestorePick, DataOK, eventVars, timerVars
    <2>6. CASE q = MAX_UINTN
      <3>1. /\ a \in GoodFrame /\ a.lvl = Top.lvl /\ a.pc = "ASSERT" /\ ~Called(a)
            /\ a.pc \notin DispatchPC
        BY TopFacts DEF GoodFrame, Frame, PC, EventPC, GroupPC, SetTimerPC,
             CheckPC, ClosePC, DispatchPC, TimersPC, Called
      <3>2. ReadOnce => Top.lvl <= q
        BY <2>2, TopFacts, Levels
      <3>3. Fits(Become(a), q)
        BY <2>1, <3>1, <3>2, TopFacts, GoOnFits
      <3> QED
        BY <2>3, <2>4, <2>5, <2>6, <3>3 DEF IInv
    <2>7. CASE q # MAX_UINTN
      <3>1. q \in TPL /\ q <= q /\ (ReadOnce => Top.lvl < q)
        BY <2>2, <2>7, TopFacts DEF TPL, TPL_HIGH_LEVEL
      <3>2. /\ f \in GoodFrame /\ f.lvl = Top.lvl /\ f.pc = "rCheck" /\ ~Called(f)
            /\ f.pc \notin DispatchPC /\ f.pc # "ASSERT"
        BY TopFacts DEF GoodFrame, Frame, PC, EventPC, RestorePC, GroupPC, SetTimerPC,
             CheckPC, ClosePC, DispatchPC, TimersPC, Called
      <3>3. g.pc = "dLoop" /\ g.lvl = q /\ g.ev = NoEvent
        BY DEF F
      <3>4. g \in GoodFrame /\ ~Called(g)
        BY <3>1 DEF F, GoodFrame, Frame, PC, EventPC, GroupPC, SetTimerPC,
             CheckPC, ClosePC, DispatchPC, TimersPC, Called
      <3>5. Shaped(Become(f)) /\ Become(f)[Len(Become(f))] = f
        BY <2>1, <3>2, TopFacts, Levels, GoOnFits
      <3>6. Top.lvl <= q \/ ~ReadOnce
        BY <3>1, TopFacts, Levels
      <3>7. Shaped(Append(Become(f), g))
        BY <3>1, <3>2, <3>3, <3>4, <3>5, <3>6, PushShaped
      <3>8. Append(Become(f), g)[Len(Append(Become(f), g))] = g
        BY <3>4, <3>5, AppendStack DEF Shaped
      <3>9. Fits(Append(Become(f), g), q)
        BY <3>1, <3>3, <3>7, <3>8, <2>7 DEF Fits
      <3> QED
        BY <2>3, <2>4, <2>5, <2>7, <3>9 DEF IInv
    <2> QED
      BY <2>6, <2>7
  <1>4. CASE RestoreSet
    <2>1. DataOK' /\ QueuesOK'
      BY <1>1, <1>4, SameQueues, TopFacts DEF RestoreSet, DataOK, eventVars, timerVars
    <2>2. Fits(Front(stack), Top.lvl)
      BY <1>4, TopFacts, ReturnFits DEF RestoreSet, At
    <2> QED
      BY <2>1, <2>2, <1>4 DEF RestoreSet, IInv
  <1> QED
    BY <1>2, <1>3, <1>4

\* Frames built by F, and the updates of the top frame.
LEMMA FrameFacts ==
    ASSUME NEW pc \in PC, NEW l \in TPL, NEW e \in Event \cup {NoEvent}, NEW v \in Nat,
           pc # "rPick", pc \in EventPC => e \in Event,
           pc = "dLoop" => e = NoEvent, pc = "wtNext" => v # 0
    PROVE  /\ F(pc, l, e, v) \in GoodFrame
           /\ F(pc, l, e, v).pc = pc /\ F(pc, l, e, v).lvl = l
           /\ F(pc, l, e, v).ev = e /\ F(pc, l, e, v).val = v
  BY DEF F, GoodFrame, Frame

LEMMA FrameUpdates ==
    ASSUME NEW f \in Frame, NEW pc, NEW e
    PROVE  /\ [f EXCEPT !.pc = pc] = F(pc, f.lvl, f.ev, f.val)
           /\ [f EXCEPT !.pc = pc, !.ev = e] = F(pc, f.lvl, e, f.val)
           /\ [f EXCEPT !.pc = pc, !.val = e] = F(pc, f.lvl, f.ev, e)
           /\ [f EXCEPT !.val = e] = F(f.pc, f.lvl, f.ev, e)
  <1>1. [f EXCEPT !.pc = pc] = F(pc, f.lvl, f.ev, f.val)
    BY DEF F, Frame
  <1>2. [f EXCEPT !.pc = pc, !.ev = e] = F(pc, f.lvl, e, f.val)
    <2>1. [F(pc, f.lvl, f.ev, f.val) EXCEPT !.ev = e] = F(pc, f.lvl, e, f.val)
      BY DEF F
    <2>2. [f EXCEPT !.pc = pc, !.ev = e] = [[f EXCEPT !.pc = pc] EXCEPT !.ev = e]
      OBVIOUS
    <2> QED
      BY <1>1, <2>1, <2>2
  <1>3. [f EXCEPT !.pc = pc, !.val = e] = F(pc, f.lvl, f.ev, e)
    <2>1. [F(pc, f.lvl, f.ev, f.val) EXCEPT !.val = e] = F(pc, f.lvl, f.ev, e)
      BY DEF F
    <2>2. [f EXCEPT !.pc = pc, !.val = e] = [[f EXCEPT !.pc = pc] EXCEPT !.val = e]
      OBVIOUS
    <2> QED
      BY <1>1, <2>1, <2>2
  <1>4. [f EXCEPT !.val = e] = F(f.pc, f.lvl, f.ev, e)
    BY DEF F, Frame
  <1> QED
    BY <1>1, <1>2, <1>3, <1>4

LEMMA TopUpdates ==
    ASSUME IInv, NEW pc, NEW e
    PROVE  /\ [Top EXCEPT !.pc = pc] = F(pc, Top.lvl, Top.ev, Top.val)
           /\ [Top EXCEPT !.pc = pc, !.ev = e] = F(pc, Top.lvl, e, Top.val)
           /\ [Top EXCEPT !.pc = pc, !.val = e] = F(pc, Top.lvl, Top.ev, e)
           /\ [Top EXCEPT !.val = e] = F(Top.pc, Top.lvl, Top.ev, e)
  <1>1. Top \in Frame
    BY TopFacts
  <1>2. [Top EXCEPT !.pc = pc] = F(pc, Top.lvl, Top.ev, Top.val)
    BY <1>1, FrameUpdates
  <1>3. [Top EXCEPT !.pc = pc, !.ev = e] = F(pc, Top.lvl, e, Top.val)
    BY <1>1, FrameUpdates
  <1>4. [Top EXCEPT !.pc = pc, !.val = e] = F(pc, Top.lvl, Top.ev, e)
    <2>1. [F(pc, Top.lvl, Top.ev, Top.val) EXCEPT !.val = e] = F(pc, Top.lvl, Top.ev, e)
      BY DEF F
    <2>2. [Top EXCEPT !.pc = pc, !.val = e] = [[Top EXCEPT !.pc = pc] EXCEPT !.val = e]
      OBVIOUS
    <2> QED
      BY <1>2, <2>1, <2>2
  <1>5. [Top EXCEPT !.val = e] = F(Top.pc, Top.lvl, Top.ev, e)
    BY <1>1, FrameUpdates
  <1> QED
    BY <1>2, <1>3, <1>4, <1>5

\* The top call goes on, and may call CoreRestoreTpl.
LEMMA GoOn ==
    ASSUME IInv, Top.pc # "user",
           NEW pc \in PC \ {"user", "rPick"},
           NEW e \in Event \cup {NoEvent}, pc \in EventPC => e \in Event,
           pc = "dLoop" => e = NoEvent,
           NEW v \in Nat, pc = "wtNext" => v # 0,
           pc \in TimersPC => Top.pc \in TimersPC,
           pc \in DispatchPC => Top.pc \in DispatchPC,
           NEW u \in TPL, ReadOnce => Top.lvl <= u
    PROVE  LET f == F(pc, Top.lvl, e, v) IN
           /\ Fits(Become(f), u) /\ Shaped(Become(f))
           /\ Become(f)[Len(Become(f))] = f /\ f.lvl = Top.lvl
           /\ Fits(Append(Become(f), Restore(Top.lvl)), u)
  <1> DEFINE f == F(pc, Top.lvl, e, v)
  <1>1. f \in GoodFrame /\ f.pc = pc /\ f.lvl = Top.lvl
    <2>1. pc \in PC /\ pc # "rPick" /\ Top.lvl \in TPL
      BY TopFacts
    <2> QED
      BY <2>1 DEF F, GoodFrame, Frame
  <1> HIDE DEF f
  <1>2. Called(f) => Called(Top)
    BY <1>1 DEF Called
  <1>3. Fits(Become(f), u) /\ Shaped(Become(f)) /\ Become(f)[Len(Become(f))] = f
    BY <1>1, <1>2, TopFacts, Levels, GoOnFits
  <1>4. Fits(Append(Become(f), Restore(Top.lvl)), u)
    BY <1>1, <1>2, TopFacts, GoOnRestoreFits
  <1> QED
    BY <1>1, <1>3, <1>4 DEF f

\* A notification function returns to the dispatcher.
LEMMA NotifyReturnFits ==
    ASSUME IInv, Called(Top), ReturnFromNotify
    PROVE  Top.pc # "ASSERT" => Fits(stack', tpl)
  <1> DEFINE n == Len(stack)
             c == stack[n - 1]
             f == [c EXCEPT !.pc = "dLoop", !.ev = NoEvent]
             r == Front(stack)
  <1>1. Shaped(stack) /\ n \in Nat /\ n >= 2
    BY TopFacts, TopOfStack DEF Called, TimersPC, Top
  <1>2. c.pc = "dCalled"
    BY <1>1 DEF Shaped, Top
  <1>3. Shaped(r) /\ Len(r) = n - 1 /\ r[n - 1] = c
    BY <1>1, FrontShaped
  <1>4. c \in Frame /\ c.lvl \in TPL
    BY <1>3, TopOfStack
  <1>5. Len(r) >= 2
    BY <1>2, <1>3, TopOfStack
  <1>6. f = F("dLoop", c.lvl, NoEvent, c.val) /\ c.val \in Nat
    <2>1. f = F("dLoop", c.lvl, NoEvent, c.val)
      BY <1>4, FrameUpdates
    <2> QED
      BY <2>1, <1>4 DEF Frame
  <1>7. f \in GoodFrame /\ f.pc = "dLoop" /\ f.lvl = c.lvl /\ ~Called(f)
    <2>1. "dLoop" \in PC /\ "dLoop" \notin EventPC /\ "dLoop" \notin TimersPC
      BY DEF PC, DispatchPC, EventPC, GroupPC, SetTimerPC, TimersPC, ClosePC, CheckPC
    <2>2. f \in GoodFrame /\ f.pc = "dLoop" /\ f.lvl = c.lvl
      BY <1>4, <1>6, <2>1 DEF F, GoodFrame, Frame
    <2> QED
      BY <2>1, <2>2 DEF Called
  <1>8. Shaped([r EXCEPT ![Len(r)] = f])
    BY <1>2, <1>3, <1>5, <1>7, BecomeShaped DEF DispatchPC
  <1>9. /\ Len([r EXCEPT ![Len(r)] = f]) = Len(r)
        /\ [r EXCEPT ![Len(r)] = f][Len(r)] = f
    BY <1>3, <1>5, <1>7, ExceptSeq, TopOfStack DEF Shaped
  <1>10. stack' = [r EXCEPT ![Len(r)] = f]
    BY <1>3 DEF ReturnFromNotify, ReturnTo
  <1>11. ReadOnce => c.lvl <= Top.lvl
    BY <1>1 DEF Shaped, Ordered, Top
  <1>12. Top.pc # "ASSERT" => tpl \in TPL /\ (ReadOnce => c.lvl <= tpl)
    BY <1>4, <1>11, TopFacts, Levels
  <1> HIDE DEF f, c, r, n
  <1> QED
    BY <1>7, <1>8, <1>9, <1>10, <1>12, Levels DEF Fits

\* CoreDispatchEventNotifies, and the return of a notification function.
LEMMA DispatchSteps ==
    ASSUME IInv, DispatchTake \/ DispatchNotify \/ DispatchDone \/ NotifyReturn
    PROVE  IInv'
  <1>1. QueuesOK /\ DataOK
    BY DEF IInv
  <1>2. /\ {"dLoop", "dNotify", "dCalled"} \subseteq (PC \ {"user", "rPick"}) \cap DispatchPC
        /\ {"dLoop", "dNotify", "dCalled"} \cap TimersPC = {}
        /\ "user" \in PC /\ "user" \notin DispatchPC /\ "user" \notin EventPC
        /\ "ctStart" \in PC /\ "ctStart" \in TimersPC /\ "ctStart" \notin DispatchPC
        /\ {"dNotify", "dCalled"} \subseteq EventPC
    BY DEF PC, UserPC, DispatchPC, TimersPC, EventPC, GroupPC, SetTimerPC, ClosePC, CheckPC
  <1>3. CASE DispatchTake
    <2> DEFINE l == Top.lvl
               e == Head(queue[l])
    <2>1. Top.pc = "dLoop" /\ queue[l] # <<>>
      BY <1>3 DEF DispatchTake, At
    <2>2. l \in TPL /\ queue[l] \in Seq(Event)
      BY <1>1, TopFacts DEF QueuesOK
    <2>3. e \in Event /\ Tail(queue[l]) \in Seq(Event)
      BY <2>1, <2>2, HeadTailProperties
    <2>4. stack' = Append(Become(F("dNotify", l, e, Top.val)), Restore(l))
      BY <1>3, TopUpdates DEF DispatchTake
    <2>5. Fits(stack', tpl')
      <3>1. Fits(Append(Become(F("dNotify", l, e, Top.val)), Restore(l)), TPL_HIGH_LEVEL)
        BY <1>2, <2>1, <2>3, TopFacts, GoOn
      <3> QED
        BY <3>1, <2>4, <1>3 DEF DispatchTake
    <2>6. QueuesOK'
      <3>1. queue' = [queue EXCEPT ![l] = Tail(queue[l])] /\ pending' = pending
        BY <1>3 DEF DispatchTake
      <3> QED
        BY <3>1, <1>1, <2>1, <2>2, <2>3 DEF QueuesOK, QueuedIsPending
    <2>7. count' \in [Event -> 0 .. 1]
      BY <1>1, <1>3, <2>3 DEF DispatchTake, DataOK
    <2>8. DataOK'
      BY <1>1, <1>3, <2>7, Levels DEF DispatchTake, DataOK, eventVars, timerVars
    <2> QED
      BY <2>5, <2>6, <2>8 DEF IInv
  <1>4. CASE DispatchNotify
    <2> DEFINE f == F("dCalled", Top.lvl, Top.ev, Top.val)
               pc == IF Top.ev = mEfiCheckTimerEvent THEN "ctStart" ELSE "user"
               g == F(pc, Top.lvl, Top.ev, Top.lvl)
    <2>1. DataOK' /\ QueuesOK'
      BY <1>1, <1>4, SameQueues DEF DispatchNotify, DataOK, eventVars, timerVars
    <2>2. Top.pc = "dNotify" /\ tpl \in TPL /\ Top.ev \in Event /\ Top.lvl \in Nat
      BY <1>2, <1>4, TopFacts, Levels DEF DispatchNotify, At, GoodFrame
    <2>3. stack' = Append(Become(f), g)
      BY <1>4, TopUpdates DEF DispatchNotify, Goto
    <2>4. Shaped(Become(f)) /\ Become(f)[Len(Become(f))] = f
      BY <1>2, <2>2, TopFacts, GoOn
    <2>5. f.lvl = Top.lvl /\ f.pc = "dCalled"
      BY DEF F
    <2>6. pc \in PC /\ pc # "rPick" /\ pc # "wtNext" /\ pc \notin DispatchPC
      BY <1>2
    <2>7. /\ g \in GoodFrame /\ g.pc = pc /\ g.lvl = Top.lvl /\ g.ev \in Event
      BY <2>2, <2>6, TopFacts, FrameFacts
    <2>8. NoEvent \notin Event
      BY EventAssumption
    <2> HIDE DEF f, g, pc
    <2>9. Shaped(Append(Become(f), g))
      BY <2>4, <2>5, <2>6, <2>7, <2>8, TopFacts, PushShaped
    <2>10. Append(Become(f), g)[Len(Append(Become(f), g))] = g
      BY <2>4, <2>7, AppendStack DEF Shaped
    <2>11. Fits(stack', tpl')
      BY <1>4, <2>2, <2>3, <2>7, <2>9, <2>10, TopFacts, Levels DEF Fits, DispatchNotify
    <2> QED
      BY <2>1, <2>11 DEF IInv
  <1>5. CASE DispatchDone
    <2>1. Fits(EndByRestore, TPL_HIGH_LEVEL)
      BY <1>5, TopFacts, EndFits DEF DispatchDone, At
    <2>2. QueuesOK'
      BY <1>1, <1>5 DEF DispatchDone, QueuesOK, QueuedIsPending
    <2>3. DataOK'
      BY <1>1, <1>5, Levels DEF DispatchDone, DataOK, eventVars, timerVars
    <2> QED
      BY <2>1, <2>2, <2>3, <1>5 DEF DispatchDone, IInv
  <1>6. CASE NotifyReturn
    <2>1. DataOK' /\ QueuesOK'
      BY <1>1, <1>6, SameQueues DEF NotifyReturn, DataOK, eventVars, timerVars
    <2>2. Fits(stack', tpl)
      BY <1>6, NotifyReturnFits DEF NotifyReturn, At, Called
    <2> QED
      BY <2>1, <2>2, <1>6 DEF NotifyReturn, IInv
  <1> QED
    BY <1>3, <1>4, <1>5, <1>6

\* Saturated times are times.
LEMMA SaturateType ==
    ASSUME NEW time \in Nat
    PROVE  Saturate(time) \in Nat
  BY BoundAssumption DEF Saturate

\* CoreSetTimer.
LEMMA SetTimerSteps ==
    ASSUME IInv, TimerRemove \/ TimerArm \/ TimerInsert
    PROVE  IInv'
  <1>1. QueuesOK /\ DataOK
    BY DEF IInv
  <1>2. Top.pc \in SetTimerPC
    BY DEF TimerRemove, TimerArm, TimerInsert, At, SetTimerPC
  <1>3. Top.pc # "user" /\ Top.ev \in Event /\ tpl \in TPL
    BY <1>2, TopFacts DEF SetTimerPC, GoodFrame, EventPC
  <1>4. {"stArm", "stInsert"} \subseteq PC /\ {"stArm", "stInsert"} \cap TimersPC = {}
        /\ {"stArm", "stInsert"} \cap DispatchPC = {}
    BY DEF PC, SetTimerPC, DispatchPC, TimersPC
  <1>5. Fits(EndByRestore, tpl)
    BY <1>3, TopFacts, EndFits
  <1>6. CASE TimerRemove
    <2> DEFINE time == IF Top.pc = "TimerPeriodic" /\ Top.val = 0
                       THEN TimerPeriod ELSE Top.val
    <2>1. time \in Nat
      BY TopFacts, BoundAssumption
    <2>2. stack' = IF Top.pc = "TimerCancel" THEN EndByRestore
                   ELSE Become(F("stArm", Top.lvl, Top.ev, time))
      BY <1>6, TopUpdates DEF TimerRemove
    <2>3. /\ period' = [period EXCEPT ![Top.ev] = IF Top.pc = "TimerPeriodic" THEN time ELSE 0]
          /\ timers' = Unlinked(timers, Top.ev)
          /\ trigger' = [trigger EXCEPT ![Top.ev] = 0]
          /\ UNCHANGED <<tpl, pending, queue, eventVars, count, sysTime, ops>>
      BY <1>6 DEF TimerRemove
    <2> HIDE DEF time
    <2>4. Fits(Become(F("stArm", Top.lvl, Top.ev, time)), tpl)
      BY <1>3, <1>4, <2>1, TopFacts, GoOn
    <2>5. Fits(stack', tpl')
      BY <1>5, <2>2, <2>3, <2>4
    <2>6. timers' \in Seq(Event)
      BY <1>1, <2>3, UnlinkedType DEF DataOK
    <2>7. DataOK'
      BY <1>1, <1>3, <2>1, <2>3, <2>6 DEF DataOK, eventVars
    <2> QED
      BY <1>1, <2>3, <2>5, <2>7, SameQueues DEF IInv
  <1>7. CASE TimerArm
    <2>1. Fits(Become(F("stInsert", Top.lvl, Top.ev, Top.val)), tpl)
      BY <1>3, <1>4, TopFacts, GoOn
    <2>2. Fits(stack', tpl')
      BY <1>7, <2>1, TopUpdates DEF TimerArm, Goto
    <2>3. Saturate(sysTime + Top.val) \in Nat
      <3>1. sysTime + Top.val \in Nat
        BY <1>1, TopFacts DEF DataOK
      <3> QED
        BY <3>1, SaturateType
    <2>4. DataOK'
      BY <1>1, <1>3, <1>7, <2>3 DEF TimerArm, DataOK, eventVars
    <2> QED
      BY <1>1, <1>7, <2>2, <2>4, SameQueues DEF TimerArm, IInv
  <1>8. CASE TimerInsert
    <2>1. timers' \in Seq(Event)
      BY <1>1, <1>3, <1>8, TimerPlaceType, InsertAtType DEF TimerInsert, DataOK
    <2>2. QueuesOK' /\ count' \in [Event -> 0 .. 1]
      BY <1>1, <1>8, SameQueues, SignalCheckQueues DEF TimerInsert, DataOK
    <2>3. DataOK'
      BY <1>1, <1>8, <2>1, <2>2 DEF TimerInsert, DataOK, eventVars
    <2> QED
      BY <1>5, <1>8, <2>2, <2>3 DEF TimerInsert, IInv
  <1> QED
    BY <1>6, <1>7, <1>8

\* CoreCheckTimers.
LEMMA CheckTimersSteps ==
    ASSUME IInv,
           \/ CheckTimersStart \/ CheckTimersFire \/ CheckTimersRearm
           \/ CheckTimersInsert \/ CheckTimersOnce \/ CheckTimersDone
    PROVE  IInv'
  <1>1. QueuesOK /\ DataOK
    BY DEF IInv
  <1>2. Top.pc \in TimersPC
    BY DEF CheckTimersStart, CheckTimersFire, CheckTimersRearm, CheckTimersInsert,
           CheckTimersOnce, CheckTimersDone, At, TimersPC
  <1>3. Top.pc # "user" /\ Top.ev \in Event /\ tpl \in TPL
    BY <1>2, TopFacts DEF TimersPC, GoodFrame, EventPC
  <1>4. /\ {"ctLoop", "ctRearm", "ctInsert"} \subseteq PC
        /\ {"ctLoop", "ctRearm", "ctInsert"} \cap DispatchPC = {}
        /\ mEfiCheckTimerEvent \in Event
    BY EventAssumption DEF PC, TimersPC, DispatchPC
  <1>5. CASE CheckTimersStart
    <2>1. Fits(Become(F("ctLoop", Top.lvl, Top.ev, sysTime)), tpl)
      BY <1>1, <1>2, <1>3, <1>4, TopFacts, GoOn DEF DataOK
    <2>2. Fits(stack', tpl')
      BY <1>5, <2>1, TopUpdates DEF CheckTimersStart
    <2>3. DataOK' /\ QueuesOK'
      BY <1>1, <1>5, SameQueues DEF CheckTimersStart, DataOK, eventVars, timerVars
    <2> QED
      BY <2>2, <2>3 DEF IInv
  <1>6. CASE CheckTimersFire
    <2> DEFINE e == Head(timers)
               caller == Become(F("ctRearm", Top.lvl, e, Top.val))
    <2>1. e \in Event /\ timers' \in Seq(Event)
      BY <1>1, <1>6, HeadTailProperties DEF CheckTimersFire, CheckTimersExpired, DataOK
    <2>2. CoreSignalEvent(e, caller, tpl)
      BY <1>6, TopUpdates DEF CheckTimersFire
    <2>3. Shaped(caller) /\ (ReadOnce => caller[Len(caller)].lvl <= tpl)
      BY <1>2, <1>3, <1>4, <2>1, TopFacts, GoOn
    <2> HIDE DEF caller, e
    <2>4. /\ QueuesOK' /\ count' \in [Event -> 0 .. 1]
          /\ tpl' = TPL_HIGH_LEVEL /\ Fits(stack', tpl')
      BY <1>1, <1>3, <2>1, <2>2, <2>3, SignalFits DEF DataOK
    <2>5. DataOK'
      BY <1>1, <1>6, <2>1, <2>4, Levels DEF CheckTimersFire, DataOK, eventVars
    <2> QED
      BY <2>4, <2>5 DEF IInv
  <1>7. CASE CheckTimersRearm
    <2> DEFINE next == Saturate(trigger[Top.ev] + period[Top.ev])
    <2>1. next \in Nat
      <3>1. trigger[Top.ev] + period[Top.ev] \in Nat
        BY <1>1, <1>3 DEF DataOK
      <3> QED
        BY <3>1, SaturateType
    <2>2. /\ trigger' = [trigger EXCEPT ![Top.ev] = Top.val]
          \/ trigger' = [trigger EXCEPT ![Top.ev] = next]
      BY <1>7 DEF CheckTimersRearm
    <2>3. QueuesOK' /\ count' \in [Event -> 0 .. 1]
      BY <1>1, <1>7, SameQueues, SignalCheckQueues DEF CheckTimersRearm, DataOK
    <2> HIDE DEF next
    <2>4. trigger' \in [Event -> Nat]
      BY <1>1, <1>3, <2>1, <2>2, TopFacts DEF DataOK
    <2>5. DataOK'
      BY <1>1, <1>7, <2>3, <2>4 DEF CheckTimersRearm, DataOK, eventVars
    <2>6. Fits(Become(F("ctInsert", Top.lvl, Top.ev, Top.val)), tpl)
      BY <1>2, <1>3, <1>4, TopFacts, GoOn
    <2>7. Fits(stack', tpl')
      BY <1>7, <2>6, TopUpdates DEF CheckTimersRearm
    <2> QED
      BY <2>3, <2>5, <2>7 DEF IInv
  <1>8. Fits(Become(F("ctLoop", Top.lvl, mEfiCheckTimerEvent, Top.val)), tpl)
    BY <1>2, <1>3, <1>4, TopFacts, GoOn
  <1>9. CASE CheckTimersInsert
    <2>1. timers' \in Seq(Event)
      BY <1>1, <1>3, <1>9, TimerPlaceType, InsertAtType DEF CheckTimersInsert, DataOK
    <2>2. DataOK' /\ QueuesOK'
      BY <1>1, <1>9, <2>1, SameQueues DEF CheckTimersInsert, DataOK, eventVars
    <2>3. Fits(stack', tpl')
      BY <1>8, <1>9, TopUpdates DEF CheckTimersInsert
    <2> QED
      BY <2>2, <2>3 DEF IInv
  <1>10. CASE CheckTimersOnce
    <2>1. DataOK' /\ QueuesOK'
      BY <1>1, <1>10, SameQueues DEF CheckTimersOnce, DataOK, eventVars, timerVars
    <2>2. Fits(stack', tpl')
      BY <1>8, <1>10, TopUpdates DEF CheckTimersOnce
    <2> QED
      BY <2>1, <2>2 DEF IInv
  <1>11. CASE CheckTimersDone
    <2>1. DataOK' /\ QueuesOK'
      BY <1>1, <1>11, SameQueues DEF CheckTimersDone, DataOK, eventVars, timerVars
    <2>2. Top.pc # "ASSERT" /\ Called(Top)
      BY <1>2 DEF TimersPC, Called
    <2>3. Fits(stack', tpl)
      BY <1>11, <2>2, NotifyReturnFits DEF CheckTimersDone
    <2> QED
      BY <1>11, <2>1, <2>3 DEF CheckTimersDone, IInv
  <1> QED
    BY <1>5, <1>6, <1>7, <1>9, <1>10, <1>11

\* A call made with the top frame left as it is.
LEMMA CallOnTop ==
    ASSUME IInv, NEW pc \in PC \ (DispatchPC \cup TimersPC \cup {"user", "rPick"}),
           NEW l \in TPL, NEW u \in TPL, ReadOnce => Top.lvl <= l /\ l <= u,
           NEW e \in Event \cup {NoEvent}, pc \in EventPC => e \in Event,
           NEW v \in Nat, pc = "wtNext" => v # 0
    PROVE  Fits(Append(stack, F(pc, l, e, v)), u)
  <1> DEFINE f == F(pc, l, e, v)
  <1>1. f \in GoodFrame /\ f.pc = pc /\ f.lvl = l
    BY DEF F, GoodFrame, Frame, DispatchPC
  <1> HIDE DEF f
  <1>2. Fits(Append(stack, f), u)
    BY <1>1, TopFacts, CallFits DEF Top
  <1> QED
    BY <1>2 DEF f

LEMMA RestoreOnTop ==
    ASSUME IInv, NEW l \in TPL, NEW u \in TPL, ReadOnce => Top.lvl <= l /\ l <= u
    PROVE  Fits(Append(stack, Restore(l)), u)
  <1>1. "rCheck" \in PC \ (DispatchPC \cup TimersPC \cup {"user", "rPick"})
        /\ "rCheck" \notin EventPC
    BY DEF PC, RestorePC, DispatchPC, TimersPC, EventPC, GroupPC, SetTimerPC, ClosePC, CheckPC
  <1> QED
    BY <1>1, CallOnTop DEF Restore

\* CoreTimerTick.
LEMMA TickStep ==
    ASSUME IInv, CoreTimerTick
    PROVE  IInv'
  <1>1. QueuesOK /\ DataOK
    BY DEF IInv
  <1>2. tpl \in TPL
    BY DEF CoreTimerTick
  <1>3. QueuesOK' /\ count' \in [Event -> 0 .. 1]
    BY <1>1, SameQueues, SignalCheckQueues DEF CoreTimerTick, DataOK
  <1>4. sysTime' \in Nat
    BY <1>1 DEF CoreTimerTick, DataOK
  <1>5. DataOK'
    BY <1>1, <1>3, <1>4, Levels DEF CoreTimerTick, DataOK, eventVars, timerVars
  <1>6. Fits(Append(stack, Restore(tpl)), TPL_HIGH_LEVEL)
    BY <1>2, TopFacts, Levels, RestoreOnTop
  <1>7. Fits(stack', tpl')
    BY <1>6 DEF CoreTimerTick
  <1> QED
    BY <1>3, <1>5, <1>7 DEF IInv

\* CoreCloseEvent.
LEMMA CloseSteps ==
    ASSUME IInv, CloseUnlink \/ CloseFree
    PROVE  IInv'
  <1>1. QueuesOK /\ DataOK
    BY DEF IInv
  <1>2. Top.pc \in ClosePC
    BY DEF CloseUnlink, CloseFree, At, ClosePC
  <1>3. Top.pc # "user" /\ Top.ev \in Event /\ tpl \in TPL
    BY <1>2, TopFacts DEF ClosePC, GoodFrame, EventPC
  <1>4. CASE CloseUnlink
    <2> DEFINE p == NotifyTpl[Top.ev]
               q == Unlinked(queue[p], Top.ev)
    <2>1. p \in TPL /\ queue[p] \in Seq(Event)
      BY <1>1, <1>3, NotifyTplAssumption DEF QueuesOK
    <2>2. q \in Seq(Event) /\ (queue[p] = <<>> => q = <<>>)
      BY <2>1, UnlinkedType
    <2>3. queue' = [queue EXCEPT ![p] = q] /\ pending' = pending
      BY <1>4 DEF CloseUnlink
    <2>4. signalq' \in Seq(Event)
      BY <1>1, <1>4, UnlinkedType DEF CloseUnlink, DataOK
    <2> HIDE DEF p, q
    <2>5. QueuesOK'
      BY <1>1, <2>1, <2>2, <2>3 DEF QueuesOK, QueuedIsPending
    <2>6. DataOK'
      BY <1>1, <1>4, <2>4, Levels DEF CloseUnlink, DataOK, timerVars
    <2>7. "clFree" \in PC \ {"user", "rPick"} /\ "clFree" \notin TimersPC \cup DispatchPC
      BY DEF PC, ClosePC, TimersPC, DispatchPC
    <2>8. Fits(Append(Become(F("clFree", Top.lvl, Top.ev, Top.val)), Restore(Top.lvl)),
               TPL_HIGH_LEVEL)
      BY <1>3, <2>7, TopFacts, GoOn
    <2>9. Fits(stack', tpl')
      BY <1>4, <2>8, TopUpdates DEF CloseUnlink, Goto
    <2> QED
      BY <2>5, <2>6, <2>9 DEF IInv
  <1>5. CASE CloseFree
    <2>1. DataOK' /\ QueuesOK'
      BY <1>1, <1>3, <1>5, SameQueues DEF CloseFree, DataOK, timerVars
    <2>2. Fits(Front(stack), tpl)
      BY <1>3, TopFacts, ReturnFits
    <2> QED
      BY <1>5, <2>1, <2>2 DEF CloseFree, IInv
  <1> QED
    BY <1>4, <1>5

\* The frame of a call of CoreCheckEvent.
LEMMA CheckCallFits ==
    ASSUME IInv, tpl \in TPL, NEW e \in Event
    PROVE  Fits(Append(stack, CheckCall(e, tpl)), tpl)
  <1>1. {"ckQueue", "ckRead"} \subseteq PC \ (DispatchPC \cup TimersPC \cup {"user", "rPick"})
    BY DEF PC, CheckPC, DispatchPC, TimersPC
  <1>2. CheckCall(e, tpl) = F("ckQueue", tpl, e, 0) \/ CheckCall(e, tpl) = F("ckRead", tpl, e, 0)
    BY DEF CheckCall
  <1> QED
    BY <1>1, <1>2, TopFacts, Levels, CallOnTop

\* CoreCheckEvent returns.
LEMMA CheckReturnFits ==
    ASSUME IInv, CheckReturn
    PROVE  Fits(stack', tpl')
  <1> DEFINE n == Len(stack)
             r == Front(stack)
             c == stack[n - 1]
             f == [c EXCEPT !.val = @ + 1]
  <1>1. Top.pc = "ckReturn" /\ tpl' = tpl /\ tpl \in TPL /\ tpl # MAX_UINTN
    BY TopFacts, Levels DEF CheckReturn, At
  <1>2. Shaped(stack) /\ n \in Nat /\ n >= 2
    BY <1>1, TopFacts, TopOfStack DEF Top
  <1>3. Shaped(r) /\ Len(r) = n - 1 /\ r[n - 1] = c
    BY <1>2, FrontShaped
  <1>4. c \in GoodFrame /\ c \in Frame /\ c.lvl \in TPL /\ c.val \in Nat
        /\ (c.pc = "wtNext" => n - 1 >= 2)
    BY <1>3, TopOfStack
  <1>5. ReadOnce => c.lvl <= Top.lvl
    BY <1>2 DEF Shaped, Ordered, Top
  <1>6. ReadOnce => c.lvl <= tpl
    BY <1>1, <1>4, <1>5, TopFacts, Levels
  <1>7. stack' = IF c.pc # "wtNext" THEN r
                 ELSE IF Top.val = 1 THEN Front(r) ELSE [r EXCEPT ![n - 1] = f]
    BY DEF CheckReturn, ReturnTo
  <1>8. CASE c.pc # "wtNext"
    BY <1>1, <1>2, <1>7, <1>8, TopFacts, ReturnFits
  <1>9. CASE c.pc = "wtNext" /\ Top.val = 1
    <2> DEFINE d == stack[n - 2]
    <2>1. Shaped(Front(r)) /\ Len(Front(r)) = n - 2 /\ Front(r)[n - 2] = r[n - 2]
      BY <1>2, <1>3, <1>4, <1>9, FrontShaped
    <2>2. r[n - 2] = d
      BY <1>2, <1>4, <1>9, FrontStack DEF Shaped
    <2>3. d.lvl \in TPL
      BY <2>1, <2>2, TopOfStack
    <2>4. ReadOnce => d.lvl <= c.lvl
      BY <1>2, <1>4, <1>9 DEF Shaped, Ordered
    <2>5. ReadOnce => d.lvl <= tpl
      BY <1>1, <1>4, <1>6, <2>3, <2>4, Levels
    <2> HIDE DEF d, r, c, f
    <2>6. stack' = Front(r)
      BY <1>7, <1>9
    <2> QED
      BY <1>1, <2>1, <2>2, <2>5, <2>6 DEF Fits
  <1>10. CASE c.pc = "wtNext" /\ Top.val # 1
    <2>1. f.pc = "wtNext" /\ f.lvl = c.lvl /\ f \in GoodFrame
      BY <1>4, <1>10 DEF GoodFrame, Frame, EventPC, GroupPC, SetTimerPC, TimersPC,
           ClosePC, CheckPC
    <2>2. "wtNext" \notin DispatchPC \cup TimersPC
      BY DEF DispatchPC, TimersPC
    <2>3. ~Called(f) /\ Len(r) >= 2
      BY <1>3, <1>4, <1>10, <2>1, <2>2 DEF Called
    <2> HIDE DEF f
    <2>4. Shaped([r EXCEPT ![Len(r)] = f])
      BY <1>3, <2>1, <2>2, <2>3, BecomeShaped
    <2>5. /\ Len([r EXCEPT ![Len(r)] = f]) = Len(r)
          /\ [r EXCEPT ![Len(r)] = f][Len(r)] = f
      BY <1>3, <2>1, <2>3, ExceptSeq, TopOfStack DEF Shaped
    <2> HIDE DEF r, c
    <2>6. stack' = [r EXCEPT ![Len(r)] = f]
      BY <1>3, <1>7, <1>10
    <2> QED
      BY <1>1, <1>6, <2>1, <2>4, <2>5, <2>6 DEF Fits
  <1> QED
    BY <1>8, <1>9, <1>10

\* CoreCheckEvent and CoreWaitForEvent.
LEMMA CheckSteps ==
    ASSUME IInv,
           \/ CheckQueue \/ CheckRead \/ CheckClear \/ CheckReturn
           \/ WaitCheck \/ WaitIdle
    PROVE  IInv'
  <1>1. QueuesOK /\ DataOK
    BY DEF IInv
  <1>2. Top.pc \in CheckPC \cup {"wtNext"}
    BY DEF CheckQueue, CheckRead, CheckClear, CheckReturn, WaitCheck, WaitIdle, At, CheckPC
  <1>3. Top.pc # "user" /\ tpl \in TPL /\ (Top.pc \in CheckPC => Top.ev \in Event)
    BY <1>2, TopFacts DEF CheckPC, GoodFrame, EventPC
  <1>4. /\ {"ckRead", "ckClear", "ckReturn", "wtNext"} \subseteq PC \ {"user", "rPick"}
        /\ {"ckRead", "ckClear", "ckReturn", "wtNext"} \cap (TimersPC \cup DispatchPC) = {}
        /\ "wtNext" \notin EventPC
    BY DEF PC, CheckPC, WaitPC, TimersPC, DispatchPC, EventPC, GroupPC, SetTimerPC, ClosePC
  <1>5. CASE CheckQueue
    <2>1. Top.ev \in Event
      BY <1>3, <1>5 DEF CheckQueue, At, CheckPC
    <2>2. QueuesOK'
      BY <1>1, <1>5, <2>1, NotifyQueues, SameQueues DEF CheckQueue
    <2>3. DataOK'
      BY <1>1, <1>5, Levels DEF CheckQueue, DataOK, eventVars, timerVars
    <2>4. Fits(Append(Become(F("ckRead", Top.lvl, Top.ev, Top.val)), Restore(Top.lvl)),
               TPL_HIGH_LEVEL)
      BY <1>3, <1>4, <2>1, TopFacts, GoOn
    <2>5. Fits(stack', tpl')
      BY <1>5, <2>4, TopUpdates DEF CheckQueue, Goto
    <2> QED
      BY <2>2, <2>3, <2>5 DEF IInv
  <1>6. CASE CheckRead
    <2>1. DataOK' /\ QueuesOK'
      BY <1>1, <1>6, SameQueues DEF CheckRead, DataOK, eventVars, timerVars
    <2>2. Top.ev \in Event
      BY <1>3, <1>6 DEF CheckRead, At, CheckPC
    <2>3. /\ Fits(Become(F("ckClear", Top.lvl, Top.ev, Top.val)), tpl)
          /\ Fits(Become(F("ckReturn", Top.lvl, Top.ev, Top.val)), tpl)
      BY <1>3, <1>4, <2>2, TopFacts, GoOn
    <2>4. Fits(stack', tpl')
      BY <1>6, <2>3, TopUpdates DEF CheckRead, Goto
    <2> QED
      BY <2>1, <2>4 DEF IInv
  <1>7. CASE CheckClear
    <2> DEFINE v == IF count[Top.ev] # 0 THEN 1 ELSE 0
    <2>1. Top.ev \in Event /\ v \in Nat
      BY <1>3, <1>7 DEF CheckClear, At, CheckPC
    <2>2. stack' = Append(Become(F("ckReturn", Top.lvl, Top.ev, v)), Restore(Top.lvl))
      BY <1>7, TopUpdates DEF CheckClear
    <2> HIDE DEF v
    <2>3. Fits(Append(Become(F("ckReturn", Top.lvl, Top.ev, v)), Restore(Top.lvl)),
               TPL_HIGH_LEVEL)
      BY <1>3, <1>4, <2>1, TopFacts, GoOn
    <2>4. Fits(stack', tpl')
      BY <1>7, <2>2, <2>3 DEF CheckClear
    <2>5. DataOK' /\ QueuesOK'
      BY <1>1, <1>7, <2>1, SameQueues, Levels DEF CheckClear, DataOK, eventVars, timerVars
    <2> QED
      BY <2>4, <2>5 DEF IInv
  <1>8. CASE CheckReturn
    <2>1. DataOK' /\ QueuesOK'
      BY <1>1, <1>8, SameQueues DEF CheckReturn, DataOK, eventVars, timerVars
    <2> QED
      BY <1>8, <2>1, CheckReturnFits DEF IInv
  <1>9. CASE WaitCheck
    <2>1. DataOK' /\ QueuesOK'
      BY <1>1, <1>9, SameQueues DEF WaitCheck, DataOK, eventVars, timerVars
    <2>2. Top.val # 0
      BY <1>9, TopFacts DEF WaitCheck, At, GoodFrame
    <2>3. PICK v \in Nat : v = Top.val /\ v # 0 /\ v <= Len(UserEvents)
      BY <1>9, <2>2, TopFacts DEF WaitCheck
    <2>4. UserEvents[v] \in Event
      BY <2>3, EventAssumption, ElementOfSeq
    <2>5. Fits(Append(stack, CheckCall(UserEvents[v], tpl)), tpl)
      BY <1>3, <2>4, CheckCallFits
    <2> QED
      BY <1>9, <2>1, <2>3, <2>5 DEF WaitCheck, IInv
  <1>10. CASE WaitIdle
    <2> DEFINE caller == Become(F("wtNext", Top.lvl, Top.ev, 1))
    <2>1. Top.pc = "wtNext"
      BY <1>10 DEF WaitIdle, At
    <2>2. CoreSignalEvent(gIdleLoopEvent, caller, tpl)
      BY <1>10, <2>1, TopUpdates DEF WaitIdle
    <2>3. Shaped(caller) /\ (ReadOnce => caller[Len(caller)].lvl <= tpl)
      <3>1. /\ Top.ev \in Event \cup {NoEvent} /\ (ReadOnce => Top.lvl <= tpl)
            /\ Top.pc # "user" /\ tpl \in TPL
        BY <1>3, TopFacts
      <3>2. PICK f : f = F("wtNext", Top.lvl, Top.ev, 1)
        OBVIOUS
      <3>3. /\ Shaped(Become(f)) /\ f.lvl = Top.lvl
            /\ Become(f)[Len(Become(f))] = f
        BY <1>4, <3>1, <3>2, GoOn
      <3> QED
        BY <3>1, <3>2, <3>3
    <2> HIDE DEF caller
    <2>4. gIdleLoopEvent \in Event
      BY EventAssumption
    <2>5. /\ QueuesOK' /\ count' \in [Event -> 0 .. 1]
          /\ tpl' = TPL_HIGH_LEVEL /\ Fits(stack', tpl')
      BY <1>1, <1>3, <2>2, <2>3, <2>4, SignalFits DEF DataOK
    <2>6. DataOK'
      BY <1>1, <1>10, <2>5, Levels DEF WaitIdle, DataOK, eventVars, timerVars
    <2> QED
      BY <2>5, <2>6 DEF IInv
  <1> QED
    BY <1>5, <1>6, <1>7, <1>8, <1>9, <1>10

\* Client code.
LEMMA ClientSteps ==
    ASSUME IInv, ClientCall \/ UserRestoreTpl
    PROVE  IInv'
  <1>1. QueuesOK /\ DataOK
    BY DEF IInv
  <1>2. Running => tpl \in TPL /\ ops' \in Nat
    BY <1>1, TopFacts DEF Running, UserPC, DataOK
  <1>3. ASSUME NEW e \in Event, UserCreateEvent(e)
        PROVE  IInv'
    <2>1. Running
      BY <1>3 DEF UserCreateEvent
    <2>2. signalq' \in Seq(Event)
      <3>1. <<e>> \in Seq(Event)
        OBVIOUS
      <3> QED
        BY <1>1, <1>3, <3>1, ConcatProperties DEF UserCreateEvent, DataOK
    <2>3. DataOK'
      BY <1>1, <1>2, <1>3, <2>1, <2>2, Levels DEF UserCreateEvent, DataOK, timerVars
    <2>4. Fits(Append(stack, Restore(tpl)), TPL_HIGH_LEVEL)
      BY <1>2, <2>1, TopFacts, Levels, RestoreOnTop
    <2> QED
      BY <1>1, <1>3, <2>3, <2>4, SameQueues DEF UserCreateEvent, IInv
  <1>4. ASSUME NEW e \in Event, UserSignalEvent(e)
        PROVE  IInv'
    <2>1. Running
      BY <1>4 DEF UserSignalEvent
    <2>2. /\ QueuesOK' /\ count' \in [Event -> 0 .. 1]
          /\ tpl' = TPL_HIGH_LEVEL /\ Fits(stack', tpl')
      BY <1>1, <1>2, <1>4, <2>1, TopFacts, SignalFits DEF UserSignalEvent, DataOK, Top
    <2>3. DataOK'
      BY <1>1, <1>2, <1>4, <2>1, <2>2, Levels DEF UserSignalEvent, DataOK, eventVars, timerVars
    <2> QED
      BY <2>2, <2>3 DEF IInv
  <1>5. ASSUME NEW e \in Event, UserCheckEvent(e)
        PROVE  IInv'
    <2>1. Running
      BY <1>5 DEF UserCheckEvent
    <2>2. DataOK' /\ QueuesOK'
      BY <1>1, <1>2, <1>5, <2>1, SameQueues DEF UserCheckEvent, DataOK, eventVars, timerVars
    <2>3. Fits(Append(stack, CheckCall(e, tpl)), tpl)
      BY <1>2, <2>1, CheckCallFits
    <2> QED
      BY <1>5, <2>2, <2>3 DEF UserCheckEvent, IInv
  <1>6. /\ TimerLockTpl \in TPL /\ TimerLockTpl \in Int
        /\ \A x \in TPL : x < TimerLockTpl => x <= TimerLockTpl
    BY DEF TimerLockTpl, TPL, TPL_HIGH_LEVEL
  <1>7. {"clUnlink", "TimerCancel", "TimerRelative", "TimerPeriodic", "wtNext", "raised"}
            \subseteq PC \ (DispatchPC \cup TimersPC \cup {"user", "rPick"})
    BY DEF PC, UserPC, ClosePC, SetTimerPC, WaitPC, DispatchPC, TimersPC
  <1>8. ASSUME NEW e \in Event, UserCloseEvent(e)
        PROVE  IInv'
    <2> DEFINE f == F("clUnlink", tpl, e, 0)
               g == F("TimerCancel", tpl, e, 0)
    <2>1. Running /\ tpl < TimerLockTpl /\ tpl \in TPL /\ tpl <= tpl /\ tpl <= TimerLockTpl
      BY <1>2, <1>6, <1>8, Levels DEF UserCloseEvent
    <2>2. tpl' \in TPL
      BY <1>6, <1>8, <2>1 DEF UserCloseEvent
    <2>3. DataOK' /\ QueuesOK'
      BY <1>1, <1>2, <1>8, <2>1, <2>2, SameQueues DEF UserCloseEvent, DataOK, eventVars, timerVars
    <2>4. Fits(Append(stack, f), tpl)
      BY <1>7, <2>1, TopFacts, CallOnTop
    <2>5. Shaped(Append(stack, f))
          /\ (ReadOnce => Append(stack, f)[Len(Append(stack, f))].lvl <= tpl)
      BY <2>4 DEF Fits
    <2>6. g \in GoodFrame /\ g.pc = "TimerCancel" /\ g.lvl = tpl
      BY <1>7, <2>1 DEF F, GoodFrame, Frame
    <2> HIDE DEF f, g
    <2>7. Fits(Append(Append(stack, f), g), TimerLockTpl)
      BY <1>6, <1>7, <2>1, <2>5, <2>6, CallFits
    <2>8. \/ tpl' = tpl /\ stack' = Append(stack, f)
          \/ tpl' = TimerLockTpl /\ stack' = Append(Append(stack, f), g)
      BY <1>8 DEF UserCloseEvent, f, g
    <2> QED
      BY <2>3, <2>4, <2>7, <2>8 DEF IInv
  <1>9. ASSUME NEW e \in Event, NEW Type \in {"TimerCancel", "TimerRelative", "TimerPeriodic"},
               NEW TriggerTime \in TriggerTimes, UserSetTimer(e, Type, TriggerTime)
        PROVE  IInv'
    <2>1. Running /\ tpl < TimerLockTpl /\ tpl \in TPL /\ tpl <= TimerLockTpl
      BY <1>2, <1>6, <1>9 DEF UserSetTimer
    <2>2. TriggerTime \in Nat
      BY BoundAssumption
    <2>3. DataOK' /\ QueuesOK'
      BY <1>1, <1>2, <1>6, <1>9, <2>1, SameQueues DEF UserSetTimer, DataOK, eventVars, timerVars
    <2>4. Type # "wtNext" /\ Type \in PC \ (DispatchPC \cup TimersPC \cup {"user", "rPick"})
      BY <1>7
    <2>5. Fits(Append(stack, F(Type, tpl, e, TriggerTime)), TimerLockTpl)
      BY <1>6, <2>1, <2>2, <2>4, TopFacts, CallOnTop
    <2> QED
      BY <1>9, <2>3, <2>5 DEF UserSetTimer, IInv
  <1>10. ASSUME UserWaitForEvent
         PROVE  IInv'
    <2>1. Running /\ tpl \in TPL /\ tpl <= tpl
      BY <1>2, <1>10, Levels DEF UserWaitForEvent
    <2>2. DataOK' /\ QueuesOK'
      BY <1>1, <1>2, <1>10, <2>1, SameQueues DEF UserWaitForEvent, DataOK, eventVars, timerVars
    <2>3. "wtNext" \notin EventPC
      BY DEF EventPC, GroupPC, SetTimerPC, TimersPC, ClosePC, CheckPC
    <2>4. Fits(Append(stack, F("wtNext", tpl, NoEvent, 1)), tpl)
      BY <1>7, <2>1, <2>3, TopFacts, CallOnTop
    <2> QED
      BY <1>10, <2>2, <2>4 DEF UserWaitForEvent, IInv
  <1>11. ASSUME NEW NewTpl \in RaiseLevels, UserRaiseTpl(NewTpl)
         PROVE  IInv'
    <2>1. Running /\ tpl \in TPL /\ NewTpl \in TPL
      BY <1>2, <1>11, BoundAssumption DEF UserRaiseTpl
    <2>2. tpl <= NewTpl /\ NewTpl <= NewTpl
      BY <1>11, <2>1, Levels DEF UserRaiseTpl
    <2>3. DataOK' /\ QueuesOK'
      BY <1>1, <1>2, <1>11, <2>1, SameQueues DEF UserRaiseTpl, DataOK, eventVars, timerVars
    <2>4. "raised" \notin EventPC
      BY DEF EventPC, GroupPC, SetTimerPC, TimersPC, ClosePC, CheckPC
    <2>5. ReadOnce => Top.lvl <= NewTpl
      BY <2>1, <2>2, TopFacts, Levels
    <2>6. Fits(Append(stack, F("raised", NewTpl, Top.ev, Top.val)), NewTpl)
      BY <1>7, <2>1, <2>2, <2>4, <2>5, TopFacts, CallOnTop
    <2> QED
      BY <1>11, <2>3, <2>6 DEF UserRaiseTpl, IInv
  <1>12. ASSUME UserRestoreTpl
         PROVE  IInv'
    <2> DEFINE n == Len(stack)
               l == stack[n - 1].lvl
    <2>1. Top.pc = "raised" /\ tpl \in TPL /\ tpl # MAX_UINTN
      BY <1>12, TopFacts, Levels DEF UserRestoreTpl, At
    <2>2. Shaped(stack) /\ n \in Nat /\ n >= 2
      BY <2>1, TopFacts, TopOfStack DEF Top
    <2>3. Shaped(Front(stack)) /\ Len(Front(stack)) = n - 1 /\ Front(stack)[n - 1] = stack[n - 1]
      BY <2>2, FrontShaped
    <2>4. l \in TPL
      BY <2>3, TopOfStack
    <2>5. ReadOnce => l <= Top.lvl
      BY <2>2 DEF Shaped, Ordered, Top
    <2>6. ReadOnce => l <= tpl
      BY <2>1, <2>4, <2>5, TopFacts, Levels
    <2>7. /\ Restore(l) \in GoodFrame /\ Restore(l).pc = "rCheck" /\ Restore(l).lvl = l
          /\ ~Called(Restore(l)) /\ "rCheck" \notin DispatchPC
      BY <2>4, RestoreFrame DEF DispatchPC
    <2>8. Shaped(Become(Restore(l)))
      BY <2>2, <2>7, BecomeShaped DEF Become
    <2>9. /\ Len(Become(Restore(l))) = n /\ Become(Restore(l))[n] = Restore(l)
      BY <2>2, <2>7, ExceptSeq DEF Become, Shaped
    <2>10. Fits(Become(Restore(l)), tpl)
      BY <2>1, <2>6, <2>7, <2>8, <2>9 DEF Fits
    <2>11. DataOK' /\ QueuesOK'
      BY <1>1, <1>12, SameQueues DEF UserRestoreTpl, DataOK, eventVars, timerVars
    <2> QED
      BY <1>12, <2>10, <2>11 DEF UserRestoreTpl, IInv
  <1> QED
    BY <1>3, <1>4, <1>5, <1>8, <1>9, <1>10, <1>11, <1>12 DEF ClientCall

(***************************************************************************)
(* The theorems.                                                           *)
(***************************************************************************)

\* The invariant holds at the start of the boot flow.
LEMMA InitInv ==
    ASSUME Init
    PROVE  IInv
  <1> DEFINE f == F("user", TPL_APPLICATION, NoEvent, TPL_APPLICATION)
  <1>1. TPL_APPLICATION \in TPL /\ TPL_APPLICATION \in Nat /\ TPL_APPLICATION <= TPL_APPLICATION
    BY DEF TPL, TPL_APPLICATION, TPL_HIGH_LEVEL
  <1>2. DataOK
    BY <1>1, EventAssumption DEF Init, DataOK
  <1>3. QueuesOK
    BY DEF Init, QueuesOK, QueuedIsPending
  <1>4. "user" \in PC /\ "user" \notin EventPC
    BY DEF PC, UserPC, EventPC, GroupPC, SetTimerPC, TimersPC, ClosePC, CheckPC
  <1>5. f \in GoodFrame /\ f.pc = "user" /\ f.ev = NoEvent /\ f.lvl = TPL_APPLICATION
    BY <1>1, <1>4 DEF F, GoodFrame, Frame
  <1>6. stack = <<f>> /\ tpl = TPL_APPLICATION
    BY DEF Init
  <1> HIDE DEF f
  <1>7. Len(stack) = 1 /\ stack[1] = f /\ stack \in Seq(GoodFrame) /\ stack # <<>>
    BY <1>5, <1>6
  <1>8. Shaped(stack)
    BY <1>5, <1>7 DEF Shaped, Ordered
  <1>9. Fits(stack, tpl)
    BY <1>1, <1>5, <1>6, <1>7, <1>8, Levels DEF Fits
  <1> QED
    BY <1>2, <1>3, <1>9 DEF IInv

\* Every step preserves it.
LEMMA NextInv ==
    ASSUME IInv, [Next]_vars
    PROVE  IInv'
  <1>1. CASE ClientCall
    BY <1>1, ClientSteps
  <1>2. CASE CoreTimerTick
    BY <1>2, TickStep
  <1>3. CASE Continue
    BY <1>3, GroupSteps, RestoreSteps, DispatchSteps, SetTimerSteps, CheckTimersSteps,
       CloseSteps, CheckSteps, ClientSteps DEF Continue
  <1>4. CASE UNCHANGED vars
    BY <1>4 DEF vars, eventVars, timerVars, IInv, DataOK, QueuesOK, QueuedIsPending, Fits
  <1> QED
    BY <1>1, <1>2, <1>3, <1>4 DEF Next

\* The event core keeps the inductive invariant.
THEOREM Invariance == Spec => []IInv
  <1>1. Init => IInv
    BY InitInv
  <1>2. IInv /\ [Next]_vars => IInv'
    BY NextInv
  <1> QED
    BY <1>1, <1>2, PTL DEF Spec

\* Type correctness of the event core, for every population of events.
THEOREM TypeCorrect == Spec => []TypeOK
  <1>1. IInv => TypeOK
    <2> SUFFICES ASSUME IInv
                 PROVE  TypeOK
      OBVIOUS
    <2>1. stack \in Seq(Frame) /\ stack # <<>>
      BY TopOfStack DEF IInv, Fits
    <2> QED
      BY <2>1 DEF IInv, DataOK, QueuesOK, TypeOK
  <1> QED
    BY <1>1, Invariance, PTL

\* A level with a queued notification has its bit set in gEventPending, so a
\* call of CoreRestoreTpl that looks finds it, whatever was signalled, queued,
\* dispatched or closed, and in whatever order.
THEOREM QueuedIsFound == Spec => []QueuedIsPending
  <1>1. IInv => QueuedIsPending
    BY DEF IInv, QueuesOK
  <1> QED
    BY <1>1, Invariance, PTL

\* Where CoreRestoreTpl loads gEventPending once per round, no notification
\* function is entered while one of its own level or a higher one is in
\* progress, however deep ticks and calls nest.
THEOREM NotificationsNest ==
    ASSUME ReadOnce
    PROVE  Spec => []NotificationsNestUpwards
  <1>1. IInv => NotificationsNestUpwards
    BY DEF IInv, Fits, Shaped, Ordered, NotificationsNestUpwards, Dispatches
  <1> QED
    BY <1>1, Invariance, PTL

-----------------------------------------------------------------------------
(* The proofs below need more than one frame of the stack at a time: the   *)
(* level each call goes on at, the timer lock, and the refinement of       *)
(* NotifyScheduler.                                                        *)


(***************************************************************************)
(* How a step changes the stack: the frames up to k stay, n are left.      *)
(***************************************************************************)
Keeps(k, n) ==
    /\ k \in Nat /\ n \in Nat /\ k <= Len(stack) /\ k <= n
    /\ Len(stack') = n
    /\ \A i \in 1 .. k : stack'[i] = stack[i]

\* The length of the stack.
LEMMA StackLen ==
    ASSUME IInv
    PROVE  /\ stack \in Seq(GoodFrame) /\ stack # <<>>
           /\ Len(stack) \in Nat /\ Len(stack) >= 1
           /\ Top = stack[Len(stack)]
           /\ Top.pc # "user" \/ Top.ev # NoEvent => Len(stack) >= 2
  <1>1. stack \in Seq(GoodFrame) /\ stack # <<>>
    BY TopFacts DEF Shaped
  <1>2. Len(stack) \in Nat /\ Len(stack) >= 1
    BY <1>1, EmptySeq
  <1> QED
    BY <1>1, <1>2, TopFacts DEF Top

LEMMA AppendAny ==
    ASSUME NEW S, NEW s \in Seq(S), NEW f
    PROVE  /\ Append(s, f) \in Seq(S \cup {f})
           /\ Len(Append(s, f)) = Len(s) + 1
           /\ \A i \in 1 .. Len(s) : Append(s, f)[i] = s[i]
           /\ Append(s, f)[Len(s) + 1] = f
  <1>1. s \in Seq(S \cup {f})
    BY SeqMonotonic
  <1> QED
    BY <1>1, AppendStack

LEMMA ExceptAny ==
    ASSUME NEW S, NEW s \in Seq(S), NEW f, NEW k \in 1 .. Len(s)
    PROVE  /\ [s EXCEPT ![k] = f] \in Seq(S \cup {f})
           /\ Len([s EXCEPT ![k] = f]) = Len(s)
           /\ \A i \in 1 .. Len(s) : [s EXCEPT ![k] = f][i] = IF i = k THEN f ELSE s[i]
  <1>1. s \in Seq(S \cup {f}) /\ f \in S \cup {f}
    BY SeqMonotonic
  <1> QED
    BY <1>1, ExceptSeq

\* A call.
LEMMA PushKeeps ==
    ASSUME IInv, NEW f, stack' = Append(stack, f)
    PROVE  /\ Keeps(Len(stack), Len(stack) + 1)
           /\ stack'[Len(stack) + 1] = f
  BY StackLen, AppendAny DEF Keeps

\* Two calls, one inside the other.
LEMMA PushTwoKeeps ==
    ASSUME IInv, NEW f, NEW g, stack' = Append(Append(stack, f), g)
    PROVE  /\ Keeps(Len(stack), Len(stack) + 2)
           /\ stack'[Len(stack) + 1] = f /\ stack'[Len(stack) + 2] = g
  <1>1. PICK r : r = Append(stack, f)
    OBVIOUS
  <1>2. /\ r \in Seq(GoodFrame \cup {f}) /\ Len(r) = Len(stack) + 1
        /\ \A i \in 1 .. Len(stack) : r[i] = stack[i]
        /\ r[Len(stack) + 1] = f
    BY <1>1, StackLen, AppendAny
  <1>3. /\ Len(stack') = Len(r) + 1
        /\ \A i \in 1 .. Len(r) : stack'[i] = r[i]
        /\ stack'[Len(r) + 1] = g
    BY <1>1, <1>2, AppendAny
  <1>4. Len(stack) \in Nat
    BY StackLen
  <1> QED
    BY <1>2, <1>3, <1>4 DEF Keeps

\* The top call goes on.
LEMMA BecomeKeeps ==
    ASSUME IInv, NEW f, stack' = Become(f)
    PROVE  /\ Keeps(Len(stack) - 1, Len(stack))
           /\ stack'[Len(stack)] = f
  <1>1. Len(stack) \in Nat /\ Len(stack) >= 1 /\ stack \in Seq(GoodFrame)
    BY StackLen
  <1>2. /\ Len(stack') = Len(stack)
        /\ \A i \in 1 .. Len(stack) : stack'[i] = IF i = Len(stack) THEN f ELSE stack[i]
    BY <1>1, ExceptAny DEF Become
  <1> QED
    BY <1>1, <1>2 DEF Keeps

\* The top call goes on, and calls.
LEMMA BecomePushKeeps ==
    ASSUME IInv, NEW f, NEW g, stack' = Append(Become(f), g)
    PROVE  /\ Keeps(Len(stack) - 1, Len(stack) + 1)
           /\ stack'[Len(stack)] = f /\ stack'[Len(stack) + 1] = g
  <1>1. Len(stack) \in Nat /\ Len(stack) >= 1 /\ stack \in Seq(GoodFrame)
    BY StackLen
  <1>2. PICK r : r = Become(f)
    OBVIOUS
  <1>3. /\ r \in Seq(GoodFrame \cup {f}) /\ Len(r) = Len(stack)
        /\ \A i \in 1 .. Len(stack) : r[i] = IF i = Len(stack) THEN f ELSE stack[i]
    BY <1>1, <1>2, ExceptAny DEF Become
  <1>4. /\ Len(stack') = Len(r) + 1
        /\ \A i \in 1 .. Len(r) : stack'[i] = r[i]
        /\ stack'[Len(r) + 1] = g
    BY <1>2, <1>3, AppendAny
  <1> QED
    BY <1>1, <1>3, <1>4 DEF Keeps

\* The top call goes on, and makes two calls, one inside the other.
LEMMA BecomePushTwoKeeps ==
    ASSUME IInv, NEW f, NEW g, NEW h, stack' = Append(Append(Become(f), g), h)
    PROVE  /\ Keeps(Len(stack) - 1, Len(stack) + 2)
           /\ stack'[Len(stack)] = f /\ stack'[Len(stack) + 1] = g
           /\ stack'[Len(stack) + 2] = h
  <1>1. Len(stack) \in Nat /\ Len(stack) >= 1 /\ stack \in Seq(GoodFrame)
    BY StackLen
  <1>2. PICK r : r = Become(f)
    OBVIOUS
  <1>3. /\ r \in Seq(GoodFrame \cup {f}) /\ Len(r) = Len(stack)
        /\ \A i \in 1 .. Len(stack) : r[i] = IF i = Len(stack) THEN f ELSE stack[i]
    BY <1>1, <1>2, ExceptAny DEF Become
  <1>4. PICK q : q = Append(r, g)
    OBVIOUS
  <1>5. /\ q \in Seq((GoodFrame \cup {f}) \cup {g}) /\ Len(q) = Len(r) + 1
        /\ \A i \in 1 .. Len(r) : q[i] = r[i]
        /\ q[Len(r) + 1] = g
    BY <1>3, <1>4, AppendAny
  <1>6. /\ Len(stack') = Len(q) + 1
        /\ \A i \in 1 .. Len(q) : stack'[i] = q[i]
        /\ stack'[Len(q) + 1] = h
    BY <1>2, <1>4, <1>5, AppendAny
  <1> QED
    BY <1>1, <1>3, <1>5, <1>6 DEF Keeps

\* The top call returns,
LEMMA PopKeeps ==
    ASSUME IInv, Len(stack) >= 2, stack' = Front(stack)
    PROVE  Keeps(Len(stack) - 1, Len(stack) - 1)
  BY StackLen, FrontStack DEF Keeps

\* its caller goes on,
LEMMA ReturnKeeps ==
    ASSUME IInv, Len(stack) >= 2, NEW f, stack' = ReturnTo(f)
    PROVE  /\ Keeps(Len(stack) - 2, Len(stack) - 1)
           /\ stack'[Len(stack) - 1] = f
  <1>1. Len(stack) \in Nat /\ stack \in Seq(GoodFrame) /\ stack # <<>>
    BY StackLen
  <1>2. PICK r : r = Front(stack)
    OBVIOUS
  <1>3. /\ r \in Seq(GoodFrame) /\ Len(r) = Len(stack) - 1
        /\ \A i \in 1 .. Len(stack) - 1 : r[i] = stack[i]
    BY <1>1, <1>2, FrontStack
  <1>4. PICK k \in 1 .. Len(r) : k = Len(stack) - 1
    BY <1>1, <1>3
  <1>5. /\ Len([r EXCEPT ![k] = f]) = Len(r)
        /\ \A i \in 1 .. Len(r) : [r EXCEPT ![k] = f][i] = IF i = k THEN f ELSE r[i]
    BY <1>3, ExceptAny
  <1>6. stack' = [r EXCEPT ![k] = f]
    BY <1>2, <1>4 DEF ReturnTo
  <1> QED
    BY <1>1, <1>3, <1>4, <1>5, <1>6 DEF Keeps

\* or both return.
LEMMA PopTwoKeeps ==
    ASSUME IInv, Len(stack) >= 2, stack' = Front(Front(stack)), Front(stack) # <<>>
    PROVE  Keeps(Len(stack) - 2, Len(stack) - 2)
  <1>1. Len(stack) \in Nat /\ stack \in Seq(GoodFrame) /\ stack # <<>>
    BY StackLen
  <1>2. PICK r : r = Front(stack)
    OBVIOUS
  <1>3. /\ r \in Seq(GoodFrame) /\ Len(r) = Len(stack) - 1
        /\ \A i \in 1 .. Len(stack) - 1 : r[i] = stack[i]
    BY <1>1, <1>2, FrontStack
  <1>4. /\ Len(Front(r)) = Len(r) - 1
        /\ \A i \in 1 .. Len(r) - 1 : Front(r)[i] = r[i]
    BY <1>2, <1>3, FrontStack
  <1> QED
    BY <1>1, <1>2, <1>3, <1>4 DEF Keeps

(***************************************************************************)
(* The steps of the core, as changes of the stack.                         *)
(***************************************************************************)

LEMMA GroupLockMove ==
    ASSUME IInv, NEW n, n = Len(stack), GroupLock
    PROVE  /\ Top.pc = "gLock" /\ tpl' = TPL_HIGH_LEVEL
           /\ Keeps(n - 1, n)
           /\ stack'[n] = F("gWalk", Top.lvl, Top.ev, 1)
  <1>1. stack' = Become(F("gWalk", Top.lvl, Top.ev, 1))
    BY TopUpdates DEF GroupLock, Goto, EndByRestore, At
  <1>2. Top.pc = "gLock" /\ tpl' = TPL_HIGH_LEVEL
    BY TopFacts DEF GroupLock, At
  <1> QED
    BY <1>1, <1>2, BecomeKeeps

LEMMA GroupWalkMove ==
    ASSUME IInv, NEW n, n = Len(stack), GroupWalk
    PROVE  /\ Top.pc = "gWalk" /\ tpl' = tpl
           /\ Keeps(n - 1, n)
           /\ stack'[n] = F("gWalk", Top.lvl, Top.ev, Top.val + 1)
  <1>1. stack' = Become(F("gWalk", Top.lvl, Top.ev, Top.val + 1))
    BY TopUpdates DEF GroupWalk, Goto, EndByRestore, At
  <1>2. Top.pc = "gWalk" /\ tpl' = tpl
    BY TopFacts DEF GroupWalk, At
  <1> QED
    BY <1>1, <1>2, BecomeKeeps

LEMMA GroupReleaseMove ==
    ASSUME IInv, NEW n, n = Len(stack), GroupRelease
    PROVE  /\ Top.pc = "gWalk" /\ tpl' = tpl
           /\ Keeps(n - 1, n + 1)
           /\ stack'[n] = F("gReturn", Top.lvl, Top.ev, Top.val)
           /\ stack'[n + 1] = Restore(Top.lvl)
  <1>1. stack' = Append(Become(F("gReturn", Top.lvl, Top.ev, Top.val)), Restore(Top.lvl))
    BY TopUpdates DEF GroupRelease, Goto, EndByRestore, At
  <1>2. Top.pc = "gWalk" /\ tpl' = tpl
    BY TopFacts DEF GroupRelease, At
  <1> QED
    BY <1>1, <1>2, BecomePushKeeps

LEMMA GroupReturnMove ==
    ASSUME IInv, NEW n, n = Len(stack), GroupReturn
    PROVE  /\ Top.pc = "gReturn" /\ tpl' = TPL_HIGH_LEVEL
           /\ Keeps(n - 1, n)
           /\ stack'[n] = Restore(Top.lvl)
  <1>1. stack' = Become(Restore(Top.lvl))
    BY TopUpdates DEF GroupReturn, Goto, EndByRestore, At
  <1>2. Top.pc = "gReturn" /\ tpl' = TPL_HIGH_LEVEL
    BY TopFacts DEF GroupReturn, At
  <1> QED
    BY <1>1, <1>2, BecomeKeeps

LEMMA RestoreSetMove ==
    ASSUME IInv, NEW n, n = Len(stack), RestoreSet
    PROVE  /\ Top.pc = "rSet" /\ tpl' = Top.lvl
           /\ Keeps(n - 1, n - 1)
  <1>1. stack' = Front(stack)
    BY TopUpdates DEF RestoreSet, Goto, EndByRestore, At
  <1>2. Top.pc = "rSet" /\ tpl' = Top.lvl
    BY TopFacts DEF RestoreSet, At
  <1> QED
    BY <1>1, <1>2, PopKeeps, TopFacts

LEMMA DispatchTakeMove ==
    ASSUME IInv, NEW n, n = Len(stack), DispatchTake
    PROVE  /\ Top.pc = "dLoop" /\ tpl' = TPL_HIGH_LEVEL
           /\ Keeps(n - 1, n + 1)
           /\ stack'[n] = F("dNotify", Top.lvl, Head(queue[Top.lvl]), Top.val)
           /\ stack'[n + 1] = Restore(Top.lvl)
  <1>1. stack' = Append(Become(F("dNotify", Top.lvl, Head(queue[Top.lvl]), Top.val)), Restore(Top.lvl))
    BY TopUpdates DEF DispatchTake, Goto, EndByRestore, At
  <1>2. Top.pc = "dLoop" /\ tpl' = TPL_HIGH_LEVEL
    BY TopFacts DEF DispatchTake, At
  <1> QED
    BY <1>1, <1>2, BecomePushKeeps

LEMMA DispatchDoneMove ==
    ASSUME IInv, NEW n, n = Len(stack), DispatchDone
    PROVE  /\ Top.pc = "dLoop" /\ tpl' = TPL_HIGH_LEVEL
           /\ Keeps(n - 1, n)
           /\ stack'[n] = Restore(Top.lvl)
  <1>1. stack' = Become(Restore(Top.lvl))
    BY TopUpdates DEF DispatchDone, Goto, EndByRestore, At
  <1>2. Top.pc = "dLoop" /\ tpl' = TPL_HIGH_LEVEL
    BY TopFacts DEF DispatchDone, At
  <1> QED
    BY <1>1, <1>2, BecomeKeeps

LEMMA TimerArmMove ==
    ASSUME IInv, NEW n, n = Len(stack), TimerArm
    PROVE  /\ Top.pc = "stArm" /\ tpl' = tpl
           /\ Keeps(n - 1, n)
           /\ stack'[n] = F("stInsert", Top.lvl, Top.ev, Top.val)
  <1>1. stack' = Become(F("stInsert", Top.lvl, Top.ev, Top.val))
    BY TopUpdates DEF TimerArm, Goto, EndByRestore, At
  <1>2. Top.pc = "stArm" /\ tpl' = tpl
    BY TopFacts DEF TimerArm, At
  <1> QED
    BY <1>1, <1>2, BecomeKeeps

LEMMA TimerInsertMove ==
    ASSUME IInv, NEW n, n = Len(stack), TimerInsert
    PROVE  /\ Top.pc = "stInsert" /\ tpl' = tpl
           /\ Keeps(n - 1, n)
           /\ stack'[n] = Restore(Top.lvl)
  <1>1. stack' = Become(Restore(Top.lvl))
    BY TopUpdates DEF TimerInsert, Goto, EndByRestore, At
  <1>2. Top.pc = "stInsert" /\ tpl' = tpl
    BY TopFacts DEF TimerInsert, At
  <1> QED
    BY <1>1, <1>2, BecomeKeeps

LEMMA CheckTimersStartMove ==
    ASSUME IInv, NEW n, n = Len(stack), CheckTimersStart
    PROVE  /\ Top.pc = "ctStart" /\ tpl' = tpl
           /\ Keeps(n - 1, n)
           /\ stack'[n] = F("ctLoop", Top.lvl, Top.ev, sysTime)
  <1>1. stack' = Become(F("ctLoop", Top.lvl, Top.ev, sysTime))
    BY TopUpdates DEF CheckTimersStart, Goto, EndByRestore, At
  <1>2. Top.pc = "ctStart" /\ tpl' = tpl
    BY TopFacts DEF CheckTimersStart, At
  <1> QED
    BY <1>1, <1>2, BecomeKeeps

LEMMA CheckTimersRearmMove ==
    ASSUME IInv, NEW n, n = Len(stack), CheckTimersRearm
    PROVE  /\ Top.pc = "ctRearm" /\ tpl' = tpl
           /\ Keeps(n - 1, n)
           /\ stack'[n] = F("ctInsert", Top.lvl, Top.ev, Top.val)
  <1>1. stack' = Become(F("ctInsert", Top.lvl, Top.ev, Top.val))
    BY TopUpdates DEF CheckTimersRearm, Goto, EndByRestore, At
  <1>2. Top.pc = "ctRearm" /\ tpl' = tpl
    BY TopFacts DEF CheckTimersRearm, At
  <1> QED
    BY <1>1, <1>2, BecomeKeeps

LEMMA CheckTimersInsertMove ==
    ASSUME IInv, NEW n, n = Len(stack), CheckTimersInsert
    PROVE  /\ Top.pc = "ctInsert" /\ tpl' = tpl
           /\ Keeps(n - 1, n)
           /\ stack'[n] = F("ctLoop", Top.lvl, mEfiCheckTimerEvent, Top.val)
  <1>1. stack' = Become(F("ctLoop", Top.lvl, mEfiCheckTimerEvent, Top.val))
    BY TopUpdates DEF CheckTimersInsert, Goto, EndByRestore, At
  <1>2. Top.pc = "ctInsert" /\ tpl' = tpl
    BY TopFacts DEF CheckTimersInsert, At
  <1> QED
    BY <1>1, <1>2, BecomeKeeps

LEMMA CheckTimersOnceMove ==
    ASSUME IInv, NEW n, n = Len(stack), CheckTimersOnce
    PROVE  /\ Top.pc = "ctRearm" /\ tpl' = tpl
           /\ Keeps(n - 1, n)
           /\ stack'[n] = F("ctLoop", Top.lvl, mEfiCheckTimerEvent, Top.val)
  <1>1. stack' = Become(F("ctLoop", Top.lvl, mEfiCheckTimerEvent, Top.val))
    BY TopUpdates DEF CheckTimersOnce, Goto, EndByRestore, At
  <1>2. Top.pc = "ctRearm" /\ tpl' = tpl
    BY TopFacts DEF CheckTimersOnce, At
  <1> QED
    BY <1>1, <1>2, BecomeKeeps

LEMMA CoreTimerTickMove ==
    ASSUME IInv, NEW n, n = Len(stack), CoreTimerTick
    PROVE  /\ tpl \in TPL \ {TPL_HIGH_LEVEL} /\ tpl' = TPL_HIGH_LEVEL
           /\ Keeps(n, n + 1)
           /\ stack'[n + 1] = Restore(tpl)
  <1>1. stack' = Append(stack, Restore(tpl))
    BY TopUpdates DEF CoreTimerTick, Goto, EndByRestore, At
  <1>2. tpl \in TPL \ {TPL_HIGH_LEVEL} /\ tpl' = TPL_HIGH_LEVEL
    BY TopFacts DEF CoreTimerTick, At
  <1> QED
    BY <1>1, <1>2, PushKeeps

LEMMA CloseUnlinkMove ==
    ASSUME IInv, NEW n, n = Len(stack), CloseUnlink
    PROVE  /\ Top.pc = "clUnlink" /\ tpl' = TPL_HIGH_LEVEL
           /\ Keeps(n - 1, n + 1)
           /\ stack'[n] = F("clFree", Top.lvl, Top.ev, Top.val)
           /\ stack'[n + 1] = Restore(Top.lvl)
  <1>1. stack' = Append(Become(F("clFree", Top.lvl, Top.ev, Top.val)), Restore(Top.lvl))
    BY TopUpdates DEF CloseUnlink, Goto, EndByRestore, At
  <1>2. Top.pc = "clUnlink" /\ tpl' = TPL_HIGH_LEVEL
    BY TopFacts DEF CloseUnlink, At
  <1> QED
    BY <1>1, <1>2, BecomePushKeeps

LEMMA CloseFreeMove ==
    ASSUME IInv, NEW n, n = Len(stack), CloseFree
    PROVE  /\ Top.pc = "clFree" /\ tpl' = tpl
           /\ Keeps(n - 1, n - 1)
  <1>1. stack' = Front(stack)
    BY TopUpdates DEF CloseFree, Goto, EndByRestore, At
  <1>2. Top.pc = "clFree" /\ tpl' = tpl
    BY TopFacts DEF CloseFree, At
  <1> QED
    BY <1>1, <1>2, PopKeeps, TopFacts

LEMMA CheckQueueMove ==
    ASSUME IInv, NEW n, n = Len(stack), CheckQueue
    PROVE  /\ Top.pc = "ckQueue" /\ tpl' = TPL_HIGH_LEVEL
           /\ Keeps(n - 1, n + 1)
           /\ stack'[n] = F("ckRead", Top.lvl, Top.ev, Top.val)
           /\ stack'[n + 1] = Restore(Top.lvl)
  <1>1. stack' = Append(Become(F("ckRead", Top.lvl, Top.ev, Top.val)), Restore(Top.lvl))
    BY TopUpdates DEF CheckQueue, Goto, EndByRestore, At
  <1>2. Top.pc = "ckQueue" /\ tpl' = TPL_HIGH_LEVEL
    BY TopFacts DEF CheckQueue, At
  <1> QED
    BY <1>1, <1>2, BecomePushKeeps

LEMMA WaitCheckMove ==
    ASSUME IInv, NEW n, n = Len(stack), WaitCheck
    PROVE  /\ Top.pc = "wtNext" /\ tpl' = tpl
           /\ Keeps(n, n + 1)
           /\ stack'[n + 1] = CheckCall(UserEvents[Top.val], tpl)
  <1>1. stack' = Append(stack, CheckCall(UserEvents[Top.val], tpl))
    BY TopUpdates DEF WaitCheck, Goto, EndByRestore, At
  <1>2. Top.pc = "wtNext" /\ tpl' = tpl
    BY TopFacts DEF WaitCheck, At
  <1> QED
    BY <1>1, <1>2, PushKeeps

LEMMA UserWaitForEventMove ==
    ASSUME IInv, NEW n, n = Len(stack), UserWaitForEvent
    PROVE  /\ Running /\ tpl' = tpl
           /\ Keeps(n, n + 1)
           /\ stack'[n + 1] = F("wtNext", tpl, NoEvent, 1)
  <1>1. stack' = Append(stack, F("wtNext", tpl, NoEvent, 1))
    BY TopUpdates DEF UserWaitForEvent, Goto, EndByRestore, At
  <1>2. Running /\ tpl' = tpl
    BY TopFacts DEF UserWaitForEvent, At
  <1> QED
    BY <1>1, <1>2, PushKeeps

LEMMA UserRestoreTplMove ==
    ASSUME IInv, NEW n, n = Len(stack), UserRestoreTpl
    PROVE  /\ Top.pc = "raised" /\ tpl' = tpl
           /\ Keeps(n - 1, n)
           /\ stack'[n] = Restore(stack[n - 1].lvl)
  <1>1. stack' = Become(Restore(stack[n - 1].lvl))
    BY TopUpdates DEF UserRestoreTpl, Goto, EndByRestore, At
  <1>2. Top.pc = "raised" /\ tpl' = tpl
    BY TopFacts DEF UserRestoreTpl, At
  <1> QED
    BY <1>1, <1>2, BecomeKeeps

LEMMA UserCreateEventMove ==
    ASSUME IInv, NEW n, n = Len(stack), NEW e, UserCreateEvent(e)
    PROVE  /\ Running /\ tpl' = TPL_HIGH_LEVEL
           /\ Keeps(n, n + 1)
           /\ stack'[n + 1] = Restore(tpl)
  <1>1. stack' = Append(stack, Restore(tpl))
    BY TopUpdates DEF UserCreateEvent, Goto, EndByRestore, At
  <1>2. Running /\ tpl' = TPL_HIGH_LEVEL
    BY TopFacts DEF UserCreateEvent, At
  <1> QED
    BY <1>1, <1>2, PushKeeps

LEMMA UserCheckEventMove ==
    ASSUME IInv, NEW n, n = Len(stack), NEW e, UserCheckEvent(e)
    PROVE  /\ Running /\ tpl' = tpl
           /\ Keeps(n, n + 1)
           /\ stack'[n + 1] = CheckCall(e, tpl)
  <1>1. stack' = Append(stack, CheckCall(e, tpl))
    BY TopUpdates DEF UserCheckEvent, Goto, EndByRestore, At
  <1>2. Running /\ tpl' = tpl
    BY TopFacts DEF UserCheckEvent, At
  <1> QED
    BY <1>1, <1>2, PushKeeps

LEMMA UserSetTimerMove ==
    ASSUME IInv, NEW n, n = Len(stack), NEW e, NEW Type, NEW TriggerTime, UserSetTimer(e, Type, TriggerTime)
    PROVE  /\ Running /\ tpl < TimerLockTpl /\ tpl' = TimerLockTpl
           /\ Keeps(n, n + 1)
           /\ stack'[n + 1] = F(Type, tpl, e, TriggerTime)
  <1>1. stack' = Append(stack, F(Type, tpl, e, TriggerTime))
    BY TopUpdates DEF UserSetTimer, Goto, EndByRestore, At
  <1>2. Running /\ tpl < TimerLockTpl /\ tpl' = TimerLockTpl
    BY TopFacts DEF UserSetTimer, At
  <1> QED
    BY <1>1, <1>2, PushKeeps

LEMMA UserRaiseTplMove ==
    ASSUME IInv, NEW n, n = Len(stack), NEW NewTpl, UserRaiseTpl(NewTpl)
    PROVE  /\ Running /\ NewTpl > tpl /\ tpl' = NewTpl
           /\ Keeps(n, n + 1)
           /\ stack'[n + 1] = F("raised", NewTpl, Top.ev, Top.val)
  <1>1. stack' = Append(stack, F("raised", NewTpl, Top.ev, Top.val))
    BY TopUpdates DEF UserRaiseTpl, Goto, EndByRestore, At
  <1>2. Running /\ NewTpl > tpl /\ tpl' = NewTpl
    BY TopFacts DEF UserRaiseTpl, At
  <1> QED
    BY <1>1, <1>2, PushKeeps

LEMMA RestoreCheckMove ==
    ASSUME IInv, NEW n, n = Len(stack), RestoreCheck
    PROVE  /\ Top.pc = "rCheck" /\ tpl' = tpl
           /\ Keeps(n - 1, n)
           /\ \/ stack'[n] = F("rSet", Top.lvl, Top.ev, Top.val)
              \/ stack'[n] = F("rPick", Top.lvl, Top.ev, HighBitSet64(pending))
  <1>1. Top.pc = "rCheck" /\ tpl' = tpl
    BY DEF RestoreCheck, At
  <1>2. \/ stack' = Become(F("rSet", Top.lvl, Top.ev, Top.val))
        \/ stack' = Become(F("rPick", Top.lvl, Top.ev, HighBitSet64(pending)))
    BY TopUpdates DEF RestoreCheck, Goto
  <1> QED
    BY <1>1, <1>2, BecomeKeeps

LEMMA RestorePickMove ==
    ASSUME IInv, NEW n, n = Len(stack), RestorePick, ReadOnce
    PROVE  /\ Top.pc = "rPick" /\ tpl' = Top.val
           /\ Top.val \in TPL /\ Top.val > Top.lvl
           /\ Keeps(n - 1, n + 1)
           /\ stack'[n] = F("rCheck", Top.lvl, Top.ev, 0)
           /\ stack'[n + 1] = F("dLoop", Top.val, NoEvent, 0)
  <1>1. Top.pc = "rPick" /\ tpl' = Top.val
    BY DEF RestorePick, At
  <1>2. Top.val \in TPL /\ Top.val > Top.lvl
    BY <1>1, TopFacts DEF GoodFrame
  <1>3. Top.val # MAX_UINTN
    BY <1>2, Levels
  <1>4. stack' = Append(Become(F("rCheck", Top.lvl, Top.ev, 0)),
                        F("dLoop", Top.val, NoEvent, 0))
    BY <1>3, TopUpdates DEF RestorePick
  <1> QED
    BY <1>1, <1>2, <1>4, BecomePushKeeps

LEMMA DispatchNotifyMove ==
    ASSUME IInv, NEW n, n = Len(stack), DispatchNotify
    PROVE  /\ Top.pc = "dNotify" /\ tpl' = tpl
           /\ Keeps(n - 1, n + 1)
           /\ stack'[n] = F("dCalled", Top.lvl, Top.ev, Top.val)
           /\ \/ /\ Top.ev = mEfiCheckTimerEvent
                 /\ stack'[n + 1] = F("ctStart", Top.lvl, Top.ev, Top.lvl)
              \/ stack'[n + 1] = F("user", Top.lvl, Top.ev, Top.lvl)
  <1>1. Top.pc = "dNotify" /\ tpl' = tpl
    BY DEF DispatchNotify, At
  <1>2. PICK pc : pc = IF Top.ev = mEfiCheckTimerEvent THEN "ctStart" ELSE "user"
    OBVIOUS
  <1>3. stack' = Append(Become(F("dCalled", Top.lvl, Top.ev, Top.val)),
                        F(pc, Top.lvl, Top.ev, Top.lvl))
    BY <1>2, TopUpdates DEF DispatchNotify, Goto
  <1>4. /\ Keeps(n - 1, n + 1)
        /\ stack'[n] = F("dCalled", Top.lvl, Top.ev, Top.val)
        /\ stack'[n + 1] = F(pc, Top.lvl, Top.ev, Top.lvl)
    BY <1>3, BecomePushKeeps
  <1> QED
    BY <1>1, <1>2, <1>4

\* A notification function returns to the dispatcher.
LEMMA ReturnFromNotifyMove ==
    ASSUME IInv, NEW n, n = Len(stack), ReturnFromNotify, Called(Top)
    PROVE  /\ n >= 3
           /\ stack[n - 1].pc = "dCalled"
           /\ Keeps(n - 2, n - 1)
           /\ stack'[n - 1] = F("dLoop", stack[n - 1].lvl, NoEvent, stack[n - 1].val)
  <1>1. n \in Nat /\ n >= 2 /\ Shaped(stack) /\ stack \in Seq(GoodFrame)
    BY StackLen, TopFacts DEF Called, TimersPC
  <1>2. n - 1 \in 1 .. n
    BY <1>1
  <1>3. PICK c : c = stack[n - 1]
    OBVIOUS
  <1>4. c.pc = "dCalled"
    BY <1>1, <1>3, StackLen DEF Shaped
  <1>5. c \in Frame
    BY <1>1, <1>2, <1>3, ElementOfSeq DEF GoodFrame
  <1>6. n - 1 # 1
    BY <1>1, <1>3, <1>4 DEF Shaped
  <1>7. [c EXCEPT !.pc = "dLoop", !.ev = NoEvent] = F("dLoop", c.lvl, NoEvent, c.val)
    BY <1>5, FrameUpdates
  <1>8. stack' = ReturnTo(F("dLoop", c.lvl, NoEvent, c.val))
    BY <1>3, <1>7 DEF ReturnFromNotify
  <1>9. Keeps(n - 2, n - 1) /\ stack'[n - 1] = F("dLoop", c.lvl, NoEvent, c.val)
    BY <1>1, <1>8, ReturnKeeps
  <1> QED
    BY <1>1, <1>3, <1>4, <1>6, <1>9

LEMMA TimerRemoveMove ==
    ASSUME IInv, NEW n, n = Len(stack), TimerRemove
    PROVE  /\ Top.pc \in {"TimerCancel", "TimerRelative", "TimerPeriodic"}
           /\ tpl' = tpl
           /\ Keeps(n - 1, n)
           /\ \/ stack'[n] = Restore(Top.lvl)
              \/ /\ Top.pc # "TimerCancel"
                 /\ \E time \in Nat : stack'[n] = F("stArm", Top.lvl, Top.ev, time)
  <1>1. Top.pc \in {"TimerCancel", "TimerRelative", "TimerPeriodic"} /\ tpl' = tpl
    BY DEF TimerRemove
  <1>2. PICK time \in Nat :
            time = IF Top.pc = "TimerPeriodic" /\ Top.val = 0 THEN TimerPeriod ELSE Top.val
    BY TopFacts, BoundAssumption
  <1>3. stack' = IF Top.pc = "TimerCancel" THEN Become(Restore(Top.lvl))
                 ELSE Become(F("stArm", Top.lvl, Top.ev, time))
    BY <1>2, TopUpdates DEF TimerRemove, EndByRestore
  <1> QED
    BY <1>1, <1>3, BecomeKeeps

\* The end of a timer check.
LEMMA CheckTimersDoneMove ==
    ASSUME IInv, NEW n, n = Len(stack), CheckTimersDone
    PROVE  /\ Top.pc = "ctLoop" /\ tpl' = tpl
           /\ n >= 3
           /\ stack[n - 1].pc = "dCalled"
           /\ Keeps(n - 2, n - 1)
           /\ stack'[n - 1] = F("dLoop", stack[n - 1].lvl, NoEvent, stack[n - 1].val)
  BY ReturnFromNotifyMove DEF CheckTimersDone, At, Called, TimersPC

LEMMA NotifyReturnMove ==
    ASSUME IInv, NEW n, n = Len(stack), NotifyReturn
    PROVE  /\ Top.pc = "user" /\ tpl' = tpl
           /\ n >= 3
           /\ stack[n - 1].pc = "dCalled"
           /\ Keeps(n - 2, n - 1)
           /\ stack'[n - 1] = F("dLoop", stack[n - 1].lvl, NoEvent, stack[n - 1].val)
  BY ReturnFromNotifyMove DEF NotifyReturn, At, Called

LEMMA CheckReadMove ==
    ASSUME IInv, NEW n, n = Len(stack), CheckRead
    PROVE  /\ Top.pc = "ckRead" /\ tpl' = tpl
           /\ Keeps(n - 1, n)
           /\ \/ stack'[n] = F("ckClear", Top.lvl, Top.ev, Top.val)
              \/ stack'[n] = F("ckReturn", Top.lvl, Top.ev, Top.val)
  <1>1. Top.pc = "ckRead" /\ tpl' = tpl
    BY DEF CheckRead, At
  <1>2. PICK pc \in {"ckClear", "ckReturn"} : stack' = Become(F(pc, Top.lvl, Top.ev, Top.val))
    BY TopUpdates DEF CheckRead, Goto
  <1> QED
    BY <1>1, <1>2, BecomeKeeps

LEMMA CheckClearMove ==
    ASSUME IInv, NEW n, n = Len(stack), CheckClear
    PROVE  /\ Top.pc = "ckClear" /\ tpl' = TPL_HIGH_LEVEL
           /\ Keeps(n - 1, n + 1)
           /\ \E v \in Nat : stack'[n] = F("ckReturn", Top.lvl, Top.ev, v)
           /\ stack'[n + 1] = Restore(Top.lvl)
  <1>1. Top.pc = "ckClear" /\ tpl' = TPL_HIGH_LEVEL
    BY DEF CheckClear, At
  <1>2. PICK v \in Nat : v = IF count[Top.ev] # 0 THEN 1 ELSE 0
    OBVIOUS
  <1>3. stack' = Append(Become(F("ckReturn", Top.lvl, Top.ev, v)), Restore(Top.lvl))
    BY <1>2, TopUpdates DEF CheckClear
  <1> QED
    BY <1>1, <1>3, BecomePushKeeps

LEMMA CheckReturnMove ==
    ASSUME IInv, NEW n, n = Len(stack), CheckReturn
    PROVE  /\ Top.pc = "ckReturn" /\ tpl' = tpl /\ n >= 2
           /\ \/ Keeps(n - 1, n - 1)
              \/ n >= 3 /\ stack[n - 1].pc = "wtNext" /\ Keeps(n - 2, n - 2)
              \/ /\ n >= 3 /\ stack[n - 1].pc = "wtNext" /\ Keeps(n - 2, n - 1)
                 /\ stack'[n - 1] = F("wtNext", stack[n - 1].lvl, stack[n - 1].ev,
                                      stack[n - 1].val + 1)
  <1>1. Top.pc = "ckReturn" /\ tpl' = tpl
    BY DEF CheckReturn, At
  <1>2. n \in Nat /\ n >= 2 /\ Shaped(stack) /\ stack \in Seq(GoodFrame)
    BY <1>1, StackLen, TopFacts
  <1>3. n - 1 \in 1 .. n
    BY <1>2
  <1>4. PICK c : c = stack[n - 1]
    OBVIOUS
  <1>5. c \in Frame
    BY <1>2, <1>3, <1>4, ElementOfSeq DEF GoodFrame
  <1>6. [c EXCEPT !.val = c.val + 1] = F(c.pc, c.lvl, c.ev, c.val + 1)
    BY <1>5, FrameUpdates
  <1>7. CASE c.pc # "wtNext"
    <2>1. stack' = Front(stack)
      BY <1>4, <1>7 DEF CheckReturn
    <2> QED
      BY <1>1, <1>2, <2>1, PopKeeps
  <1>8. CASE c.pc = "wtNext"
    <2>1. n >= 3
      BY <1>2, <1>4, <1>8 DEF Shaped
    <2>2. CASE Top.val = 1
      <3>1. stack' = Front(Front(stack))
        BY <1>4, <1>8, <2>2 DEF CheckReturn
      <3>2. Front(stack) # <<>>
        BY <1>2, <2>1, FrontStack, EmptySeq
      <3> QED
        BY <1>1, <1>2, <1>4, <1>8, <2>1, <3>1, <3>2, PopTwoKeeps
    <2>3. CASE Top.val # 1
      <3>1. stack' = ReturnTo(F("wtNext", c.lvl, c.ev, c.val + 1))
        BY <1>4, <1>6, <1>8, <2>3 DEF CheckReturn
      <3>2. Keeps(n - 2, n - 1) /\ stack'[n - 1] = F("wtNext", c.lvl, c.ev, c.val + 1)
        BY <1>2, <3>1, ReturnKeeps
      <3> QED
        BY <1>1, <1>2, <1>4, <1>8, <2>1, <3>2
    <2> QED
      BY <2>2, <2>3
  <1> QED
    BY <1>7, <1>8

\* CoreSignalEvent, called by client code,
LEMMA UserSignalEventMove ==
    ASSUME IInv, NEW n, n = Len(stack), NEW e, UserSignalEvent(e)
    PROVE  /\ Running /\ tpl' = TPL_HIGH_LEVEL
           /\ \/ Keeps(n, n + 1) /\ stack'[n + 1] = Restore(tpl)
              \/ /\ Group[e] # NoGroup /\ count[e] = 0
                 /\ Keeps(n, n + 2)
                 /\ stack'[n + 1] = F("gLock", tpl, e, 0) /\ stack'[n + 2] = Restore(tpl)
  <1>1. Running /\ tpl' = TPL_HIGH_LEVEL
    BY DEF UserSignalEvent, CoreSignalEvent
  <1>2. \/ stack' = Append(stack, Restore(tpl))
        \/ /\ Group[e] # NoGroup /\ count[e] = 0
           /\ stack' = Append(Append(stack, F("gLock", tpl, e, 0)), Restore(tpl))
    BY DEF UserSignalEvent, CoreSignalEvent
  <1> QED
    BY <1>1, <1>2, PushKeeps, PushTwoKeeps

\* by CoreWaitForEvent,
LEMMA WaitIdleMove ==
    ASSUME IInv, NEW n, n = Len(stack), WaitIdle
    PROVE  /\ Top.pc = "wtNext" /\ tpl' = TPL_HIGH_LEVEL
           /\ \/ /\ Keeps(n - 1, n + 1)
                 /\ stack'[n] = F("wtNext", Top.lvl, Top.ev, 1)
                 /\ stack'[n + 1] = Restore(tpl)
              \/ /\ Group[gIdleLoopEvent] # NoGroup /\ count[gIdleLoopEvent] = 0
                 /\ Keeps(n - 1, n + 2)
                 /\ stack'[n] = F("wtNext", Top.lvl, Top.ev, 1)
                 /\ stack'[n + 1] = F("gLock", tpl, gIdleLoopEvent, 0)
                 /\ stack'[n + 2] = Restore(tpl)
  <1>1. Top.pc = "wtNext" /\ tpl' = TPL_HIGH_LEVEL
    BY DEF WaitIdle, CoreSignalEvent, At
  <1>2. CoreSignalEvent(gIdleLoopEvent, Become(F("wtNext", Top.lvl, Top.ev, 1)), tpl)
    BY <1>1, TopUpdates DEF WaitIdle
  <1>3. \/ stack' = Append(Become(F("wtNext", Top.lvl, Top.ev, 1)), Restore(tpl))
        \/ /\ Group[gIdleLoopEvent] # NoGroup /\ count[gIdleLoopEvent] = 0
           /\ stack' = Append(Append(Become(F("wtNext", Top.lvl, Top.ev, 1)),
                                     F("gLock", tpl, gIdleLoopEvent, 0)), Restore(tpl))
    BY <1>2 DEF CoreSignalEvent
  <1> QED
    BY <1>1, <1>3, BecomePushKeeps, BecomePushTwoKeeps

\* and by CoreCheckTimers.
LEMMA CheckTimersFireMove ==
    ASSUME IInv, NEW n, n = Len(stack), CheckTimersFire, NEW e, e = Head(timers)
    PROVE  /\ Top.pc = "ctLoop" /\ tpl' = TPL_HIGH_LEVEL
           /\ \/ /\ Keeps(n - 1, n + 1)
                 /\ stack'[n] = F("ctRearm", Top.lvl, e, Top.val)
                 /\ stack'[n + 1] = Restore(tpl)
              \/ /\ Group[e] # NoGroup /\ count[e] = 0
                 /\ Keeps(n - 1, n + 2)
                 /\ stack'[n] = F("ctRearm", Top.lvl, e, Top.val)
                 /\ stack'[n + 1] = F("gLock", tpl, e, 0)
                 /\ stack'[n + 2] = Restore(tpl)
  <1>1. Top.pc = "ctLoop" /\ tpl' = TPL_HIGH_LEVEL
    BY DEF CheckTimersFire, CoreSignalEvent, At
  <1>2. CoreSignalEvent(e, Become(F("ctRearm", Top.lvl, e, Top.val)), tpl)
    BY TopUpdates DEF CheckTimersFire
  <1>3. \/ stack' = Append(Become(F("ctRearm", Top.lvl, e, Top.val)), Restore(tpl))
        \/ /\ Group[e] # NoGroup /\ count[e] = 0
           /\ stack' = Append(Append(Become(F("ctRearm", Top.lvl, e, Top.val)),
                                     F("gLock", tpl, e, 0)), Restore(tpl))
    BY <1>2 DEF CoreSignalEvent
  <1> QED
    BY <1>1, <1>3, BecomePushKeeps, BecomePushTwoKeeps

LEMMA UserCloseEventMove ==
    ASSUME IInv, NEW n, n = Len(stack), NEW e, UserCloseEvent(e)
    PROVE  /\ Running /\ tpl < TimerLockTpl
           /\ \/ /\ ~IsTimer[e] /\ tpl' = tpl
                 /\ Keeps(n, n + 1) /\ stack'[n + 1] = F("clUnlink", tpl, e, 0)
              \/ /\ IsTimer[e] /\ tpl' = TimerLockTpl
                 /\ Keeps(n, n + 2)
                 /\ stack'[n + 1] = F("clUnlink", tpl, e, 0)
                 /\ stack'[n + 2] = F("TimerCancel", tpl, e, 0)
  <1>1. Running /\ tpl < TimerLockTpl
    BY DEF UserCloseEvent
  <1>2. \/ /\ ~IsTimer[e] /\ tpl' = tpl
           /\ stack' = Append(stack, F("clUnlink", tpl, e, 0))
        \/ /\ IsTimer[e] /\ tpl' = TimerLockTpl
           /\ stack' = Append(Append(stack, F("clUnlink", tpl, e, 0)),
                              F("TimerCancel", tpl, e, 0))
    BY DEF UserCloseEvent
  <1> QED
    BY <1>1, <1>2, PushKeeps, PushTwoKeeps

(***************************************************************************)
(* Lists, element by element.                                              *)
(***************************************************************************)

LEMMA SubSeqElements ==
    ASSUME NEW S, NEW s \in Seq(S), NEW a \in Int, NEW b \in Int,
           1 <= a, b <= Len(s), a <= b + 1
    PROVE  /\ SubSeq(s, a, b) \in Seq(S)
           /\ Len(SubSeq(s, a, b)) = b - a + 1
           /\ \A j \in 1 .. b - a + 1 : SubSeq(s, a, b)[j] = s[a + j - 1]
  <1>1. \A i \in a .. b : i \in 1 .. Len(s)
    BY LenProperties
  <1>2. \A i \in a .. b : s[i] \in S
    BY <1>1, ElementOfSeq
  <1>3. SubSeq(s, a, b) \in Seq(S)
    BY <1>2, SubSeqProperties
  <1>4. Len(SubSeq(s, a, b)) = IF a <= b THEN b - a + 1 ELSE 0
    BY <1>2, SubSeqProperties
  <1>5. \A j \in 1 .. b - a + 1 : SubSeq(s, a, b)[j] = s[a + j - 1]
    BY <1>2, SubSeqProperties
  <1> QED
    BY <1>3, <1>4, <1>5

LEMMA RemoveAtElements ==
    ASSUME NEW S, NEW s \in Seq(S), NEW k \in 1 .. Len(s)
    PROVE  /\ RemoveAt(s, k) \in Seq(S)
           /\ Len(RemoveAt(s, k)) = Len(s) - 1
           /\ \A j \in 1 .. Len(s) - 1 :
                 RemoveAt(s, k)[j] = IF j < k THEN s[j] ELSE s[j + 1]
  <1>1. PICK n \in Nat, a \in Int, b \in Int : n = Len(s) /\ a = k - 1 /\ b = k + 1
    BY LenProperties
  <1>2. PICK p, q : p = SubSeq(s, 1, a) /\ q = SubSeq(s, b, n)
    OBVIOUS
  <1>3. /\ p \in Seq(S) /\ Len(p) = a
        /\ \A j \in 1 .. a : p[j] = s[j]
    <2>1. /\ p \in Seq(S) /\ Len(p) = a - 1 + 1
          /\ \A j \in 1 .. a - 1 + 1 : p[j] = s[1 + j - 1]
      BY <1>1, <1>2, SubSeqElements
    <2>2. a - 1 + 1 = a /\ \A j \in 1 .. a : 1 + j - 1 = j
      BY <1>1
    <2> QED
      BY <2>1, <2>2
  <1>4. /\ q \in Seq(S) /\ Len(q) = n - k
        /\ \A j \in 1 .. n - k : q[j] = s[k + j]
    <2>1. /\ q \in Seq(S) /\ Len(q) = n - b + 1
          /\ \A j \in 1 .. n - b + 1 : q[j] = s[b + j - 1]
      <3>1. n \in Int /\ 1 <= b /\ n <= Len(s) /\ b <= n + 1
        BY <1>1
      <3> QED
        BY <1>2, <3>1, SubSeqElements
    <2>2. n - b + 1 = n - k /\ \A j \in 1 .. n - k : b + j - 1 = k + j
      BY <1>1
    <2> QED
      BY <2>1, <2>2
  <1>5. RemoveAt(s, k) = p \o q
    BY <1>1, <1>2 DEF RemoveAt
  <1>6. /\ p \o q \in Seq(S) /\ Len(p \o q) = Len(p) + Len(q)
        /\ \A j \in 1 .. Len(p) + Len(q) :
              (p \o q)[j] = IF j <= Len(p) THEN p[j] ELSE q[j - Len(p)]
    BY <1>3, <1>4, ConcatProperties
  <1>7. Len(p) + Len(q) = n - 1
    BY <1>1, <1>3, <1>4
  <1>8. ASSUME NEW j \in 1 .. n - 1
        PROVE  (p \o q)[j] = IF j < k THEN s[j] ELSE s[j + 1]
    <2>1. (p \o q)[j] = IF j <= a THEN p[j] ELSE q[j - a]
      BY <1>3, <1>6, <1>7
    <2>2. CASE j < k
      BY <1>1, <1>3, <2>1, <2>2
    <2>3. CASE j >= k
      <3>1. j - a \in 1 .. n - k /\ k + (j - a) = j + 1 /\ ~ (j <= a) /\ ~ (j < k)
        BY <1>1, <2>3
      <3>2. q[j - a] = s[j + 1]
        BY <1>4, <3>1
      <3> QED
        BY <2>1, <3>1, <3>2
    <2>4. j < k \/ j >= k
      BY <1>1
    <2> QED
      BY <2>2, <2>3, <2>4
  <1> QED
    BY <1>1, <1>5, <1>6, <1>7, <1>8

\* t is s with e put in at position k.
Inserted(t, s, k, e) ==
    /\ Len(t) = Len(s) + 1
    /\ \A j \in 1 .. Len(s) + 1 :
          t[j] = IF j < k THEN s[j] ELSE IF j = k THEN e ELSE s[j - 1]

LEMMA InsertAtElements ==
    ASSUME NEW S, NEW s \in Seq(S), NEW e \in S, NEW k \in 1 .. Len(s) + 1
    PROVE  InsertAt(s, k, e) \in Seq(S) /\ Inserted(InsertAt(s, k, e), s, k, e)
  <1>1. PICK n \in Nat, a \in Int : n = Len(s) /\ a = k - 1
    BY LenProperties
  <1>2. PICK p, q : p = SubSeq(s, 1, a) /\ q = SubSeq(s, k, n)
    OBVIOUS
  <1>3. /\ p \in Seq(S) /\ Len(p) = a
        /\ \A j \in 1 .. a : p[j] = s[j]
    <2>1. /\ p \in Seq(S) /\ Len(p) = a - 1 + 1
          /\ \A j \in 1 .. a - 1 + 1 : p[j] = s[1 + j - 1]
      BY <1>1, <1>2, SubSeqElements
    <2>2. a - 1 + 1 = a /\ \A j \in 1 .. a : 1 + j - 1 = j
      BY <1>1
    <2> QED
      BY <2>1, <2>2
  <1>4. /\ q \in Seq(S) /\ Len(q) = n - a
        /\ \A j \in 1 .. n - a : q[j] = s[a + j]
    <2>1. /\ q \in Seq(S) /\ Len(q) = n - k + 1
          /\ \A j \in 1 .. n - k + 1 : q[j] = s[k + j - 1]
      BY <1>1, <1>2, SubSeqElements
    <2>2. n - k + 1 = n - a /\ \A j \in 1 .. n - a : k + j - 1 = a + j
      BY <1>1
    <2> QED
      BY <2>1, <2>2
  <1>5. PICK r : r = Append(p, e)
    OBVIOUS
  <1>6. /\ r \in Seq(S) /\ Len(r) = k
        /\ \A j \in 1 .. a : r[j] = s[j]
        /\ r[k] = e
    <2>1. /\ r \in Seq(S) /\ Len(r) = a + 1
          /\ \A j \in 1 .. a : r[j] = p[j]
          /\ r[a + 1] = e
      BY <1>3, <1>5, AppendStack
    <2> QED
      BY <1>1, <1>3, <2>1
  <1>7. InsertAt(s, k, e) = r \o q
    <2>1. p \o <<e>> = r
      BY <1>3, <1>5, AppendIsConcat
    <2> QED
      BY <1>1, <1>2, <2>1 DEF InsertAt
  <1>8. /\ r \o q \in Seq(S) /\ Len(r \o q) = Len(r) + Len(q)
        /\ \A j \in 1 .. Len(r) + Len(q) :
              (r \o q)[j] = IF j <= Len(r) THEN r[j] ELSE q[j - Len(r)]
    BY <1>4, <1>6, ConcatProperties
  <1>9. Len(r) + Len(q) = n + 1
    BY <1>1, <1>4, <1>6
  <1>10. ASSUME NEW j \in 1 .. n + 1
         PROVE  (r \o q)[j] = IF j < k THEN s[j] ELSE IF j = k THEN e ELSE s[j - 1]
    <2>1. (r \o q)[j] = IF j <= k THEN r[j] ELSE q[j - k]
      BY <1>6, <1>8, <1>9
    <2>2. CASE j < k
      BY <1>1, <1>6, <2>1, <2>2
    <2>3. CASE j = k
      BY <1>6, <2>1, <2>3
    <2>4. CASE j > k
      <3>1. j - k \in 1 .. n - a /\ a + (j - k) = j - 1 /\ ~ (j <= k) /\ ~ (j < k) /\ j # k
        BY <1>1, <2>4
      <3>2. q[j - k] = s[j - 1]
        BY <1>4, <3>1
      <3> QED
        BY <2>1, <3>1, <3>2
    <2>5. j < k \/ j = k \/ j > k
      BY <1>1
    <2> QED
      BY <2>2, <2>3, <2>4, <2>5
  <1>11. PICK t : t = r \o q
    OBVIOUS
  <1>12. t \in Seq(S) /\ Inserted(t, s, k, e)
    BY <1>1, <1>8, <1>9, <1>10, <1>11 DEF Inserted
  <1> QED
    BY <1>7, <1>11, <1>12

\* What a list holds, and that it holds it once.
LEMMA ListOnce ==
    ASSUME NEW S, NEW s \in Seq(S)
    PROVE  /\ Len(s) \in Nat
           /\ \A e : Contains(s, e) <=> \E i \in 1 .. Len(s) : s[i] = e
           /\ IsInjective(s) <=> \A i, j \in 1 .. Len(s) : s[i] = s[j] => i = j
  BY LenProperties DEF Contains, IsInjective

\* Taking a node off a list.
LEMMA UnlinkedHolds ==
    ASSUME NEW S, NEW s \in Seq(S), IsInjective(s), NEW e
    PROVE  /\ Unlinked(s, e) \in Seq(S)
           /\ IsInjective(Unlinked(s, e))
           /\ \A x : Contains(Unlinked(s, e), x) <=> Contains(s, x) /\ x # e
  <1>1. CASE ~Contains(s, e)
    BY <1>1 DEF Unlinked
  <1>2. CASE Contains(s, e)
    <2>1. PICK k \in 1 .. Len(s) : s[k] = e /\ Unlinked(s, e) = RemoveAt(s, k)
      BY <1>2 DEF Contains, Unlinked
    <2>2. PICK r : r = RemoveAt(s, k)
      OBVIOUS
    <2>3. PICK n \in Nat : n = Len(s)
      BY LenProperties
    <2>4. /\ r \in Seq(S) /\ Len(r) = n - 1
          /\ \A j \in 1 .. n - 1 : r[j] = IF j < k THEN s[j] ELSE s[j + 1]
      BY <2>2, <2>3, RemoveAtElements
    <2>5. \A i, j \in 1 .. n : s[i] = s[j] => i = j
      BY <2>3, ListOnce
    <2>6. IsInjective(r)
      <3>1. \A i, j \in 1 .. n - 1 : r[i] = r[j] => i = j
        <4> SUFFICES ASSUME NEW i \in 1 .. n - 1, NEW j \in 1 .. n - 1, r[i] = r[j]
                     PROVE  i = j
          OBVIOUS
        <4>1. PICK a \in 1 .. n, b \in 1 .. n :
                /\ a = IF i < k THEN i ELSE i + 1
                /\ b = IF j < k THEN j ELSE j + 1
          BY <2>3
        <4>2. r[i] = s[a] /\ r[j] = s[b]
          BY <2>4, <4>1
        <4>3. a = b
          BY <2>5, <4>2
        <4> QED
          BY <4>1, <4>3, <2>3
      <3> QED
        BY <3>1, <2>4, ListOnce
    <2>7. ASSUME NEW x
          PROVE  Contains(r, x) <=> Contains(s, x) /\ x # e
      <3>1. ASSUME Contains(r, x)
            PROVE  Contains(s, x) /\ x # e
        <4>1. PICK i \in 1 .. n - 1 : r[i] = x
          BY <2>4, <3>1, ListOnce
        <4>2. PICK a \in 1 .. n : a = (IF i < k THEN i ELSE i + 1) /\ a # k
          BY <2>3
        <4>3. x = s[a]
          BY <2>4, <4>1, <4>2
        <4>4. x # e
          BY <2>1, <2>3, <2>5, <4>2, <4>3
        <4> QED
          BY <2>3, <4>3, <4>4, ListOnce
      <3>2. ASSUME Contains(s, x), x # e
            PROVE  Contains(r, x)
        <4>1. PICK a \in 1 .. n : s[a] = x
          BY <2>3, <3>2, ListOnce
        <4>2. a # k
          BY <2>1, <3>2, <4>1
        <4>3. PICK i \in 1 .. n - 1 : i = IF a < k THEN a ELSE a - 1
          BY <2>1, <2>3, <4>2
        <4>4. r[i] = x
          BY <2>1, <2>3, <2>4, <4>1, <4>2, <4>3
        <4> QED
          BY <2>4, <4>4, ListOnce
      <3> QED
        BY <3>1, <3>2
    <2> QED
      BY <2>1, <2>2, <2>4, <2>6, <2>7
  <1> QED
    BY <1>1, <1>2

\* Adding a node at the tail,
LEMMA AppendHolds ==
    ASSUME NEW S, NEW s \in Seq(S), IsInjective(s), NEW e \in S, ~Contains(s, e)
    PROVE  /\ Append(s, e) \in Seq(S)
           /\ IsInjective(Append(s, e))
           /\ \A x : Contains(Append(s, e), x) <=> Contains(s, x) \/ x = e
  <1>1. PICK r : r = Append(s, e)
    OBVIOUS
  <1>2. PICK n \in Nat : n = Len(s)
    BY LenProperties
  <1>3. /\ r \in Seq(S) /\ Len(r) = n + 1
        /\ \A i \in 1 .. n : r[i] = s[i]
        /\ r[n + 1] = e
    BY <1>1, <1>2, AppendStack
  <1>4. \A i, j \in 1 .. n : s[i] = s[j] => i = j
    BY <1>2, ListOnce
  <1>5. \A i \in 1 .. n : s[i] # e
    BY <1>2, ListOnce
  <1>6. \A i, j \in 1 .. n + 1 : r[i] = r[j] => i = j
    BY <1>3, <1>4, <1>5
  <1>7. \A x : Contains(r, x) <=> Contains(s, x) \/ x = e
    <2> SUFFICES ASSUME NEW x
                 PROVE  Contains(r, x) <=> Contains(s, x) \/ x = e
      OBVIOUS
    <2>1. Contains(r, x) <=> \E i \in 1 .. n + 1 : r[i] = x
      BY <1>3, ListOnce
    <2>2. Contains(s, x) <=> \E i \in 1 .. n : s[i] = x
      BY <1>2, ListOnce
    <2>3. (\E i \in 1 .. n + 1 : r[i] = x) => Contains(s, x) \/ x = e
      BY <1>3, <2>2
    <2>4. Contains(s, x) => \E i \in 1 .. n + 1 : r[i] = x
      BY <1>3, <2>2
    <2>5. x = e => \E i \in 1 .. n + 1 : r[i] = x
      <3>1. n + 1 \in 1 .. n + 1
        BY <1>2
      <3> QED
        BY <1>3, <3>1
    <2> QED
      BY <2>1, <2>3, <2>4, <2>5
  <1> QED
    BY <1>1, <1>3, <1>6, <1>7, ListOnce

\* in the middle,
LEMMA InsertHolds ==
    ASSUME NEW S, NEW s \in Seq(S), IsInjective(s), NEW e \in S, ~Contains(s, e),
           NEW k \in 1 .. Len(s) + 1
    PROVE  /\ IsInjective(InsertAt(s, k, e))
           /\ \A x : Contains(InsertAt(s, k, e), x) <=> Contains(s, x) \/ x = e
  <1>1. PICK r : r = InsertAt(s, k, e)
    OBVIOUS
  <1>2. PICK n \in Nat : n = Len(s)
    BY LenProperties
  <1>3. /\ r \in Seq(S) /\ Len(r) = n + 1
        /\ \A j \in 1 .. n + 1 :
              r[j] = IF j < k THEN s[j] ELSE IF j = k THEN e ELSE s[j - 1]
    <2>1. r \in Seq(S) /\ Inserted(r, s, k, e)
      BY <1>1, InsertAtElements
    <2> QED
      BY <1>2, <2>1 DEF Inserted
  <1>4. \A i, j \in 1 .. n : s[i] = s[j] => i = j
    BY <1>2, ListOnce
  <1>5. \A i \in 1 .. n : s[i] # e
    BY <1>2, ListOnce
  <1>6. \A i, j \in 1 .. n + 1 : r[i] = r[j] => i = j
    <2> SUFFICES ASSUME NEW i \in 1 .. n + 1, NEW j \in 1 .. n + 1, r[i] = r[j]
                 PROVE  i = j
      OBVIOUS
    <2>1. CASE i = k
      BY <1>2, <1>3, <1>5, <2>1
    <2>2. CASE j = k
      BY <1>2, <1>3, <1>5, <2>2
    <2>3. CASE i # k /\ j # k
      <3>1. PICK a \in 1 .. n, b \in 1 .. n :
              a = (IF i < k THEN i ELSE i - 1) /\ b = IF j < k THEN j ELSE j - 1
        BY <1>2, <2>3
      <3>2. r[i] = s[a] /\ r[j] = s[b]
        BY <1>3, <2>3, <3>1
      <3>3. a = b
        BY <1>4, <3>2
      <3> QED
        BY <1>2, <2>3, <3>1, <3>3
    <2> QED
      BY <2>1, <2>2, <2>3
  <1>7. \A x : Contains(r, x) <=> Contains(s, x) \/ x = e
    <2> SUFFICES ASSUME NEW x
                 PROVE  Contains(r, x) <=> Contains(s, x) \/ x = e
      OBVIOUS
    <2>1. Contains(r, x) <=> \E i \in 1 .. n + 1 : r[i] = x
      BY <1>3, ListOnce
    <2>2. Contains(s, x) <=> \E i \in 1 .. n : s[i] = x
      BY <1>2, ListOnce
    <2>3. ASSUME NEW i \in 1 .. n + 1, r[i] = x, x # e
          PROVE  Contains(s, x)
      <3>1. PICK a \in 1 .. n : i # k /\ a = IF i < k THEN i ELSE i - 1
        BY <1>2, <1>3, <2>3
      <3> QED
        BY <1>3, <2>2, <2>3, <3>1
    <2>4. ASSUME NEW a \in 1 .. n, s[a] = x
          PROVE  \E i \in 1 .. n + 1 : r[i] = x
      <3>1. PICK i \in 1 .. n + 1 : i = IF a < k THEN a ELSE a + 1
        BY <1>2
      <3>2. r[i] = s[a]
        BY <1>2, <1>3, <3>1
      <3> QED
        BY <2>4, <3>2
    <2>5. x = e => \E i \in 1 .. n + 1 : r[i] = x
      BY <1>2, <1>3
    <2> QED
      BY <2>1, <2>2, <2>3, <2>4, <2>5
  <1> QED
    BY <1>1, <1>3, <1>6, <1>7, ListOnce

\* and taking the head off.
LEMMA TailHolds ==
    ASSUME NEW S, NEW s \in Seq(S), IsInjective(s), s # <<>>
    PROVE  /\ Tail(s) \in Seq(S) /\ Head(s) \in S /\ Contains(s, Head(s))
           /\ IsInjective(Tail(s))
           /\ Len(Tail(s)) = Len(s) - 1
           /\ \A j \in 1 .. Len(s) - 1 : Tail(s)[j] = s[j + 1]
           /\ \A x : Contains(Tail(s), x) <=> Contains(s, x) /\ x # Head(s)
  <1>1. PICK r : r = Tail(s)
    OBVIOUS
  <1>2. PICK n \in Nat : n = Len(s) /\ n >= 1
    BY EmptySeq, LenProperties
  <1>3. /\ r \in Seq(S) /\ Len(r) = n - 1 /\ Head(s) = s[1] /\ Head(s) \in S
        /\ \A j \in 1 .. n - 1 : r[j] = s[j + 1]
    BY <1>1, <1>2, HeadTailProperties
  <1>4. \A i, j \in 1 .. n : s[i] = s[j] => i = j
    BY <1>2, ListOnce
  <1>5. \A i, j \in 1 .. n - 1 : r[i] = r[j] => i = j
    BY <1>2, <1>3, <1>4
  <1>6. ASSUME NEW x
        PROVE  Contains(r, x) <=> Contains(s, x) /\ x # Head(s)
    <2>1. Contains(r, x) <=> \E i \in 1 .. n - 1 : r[i] = x
      BY <1>3, ListOnce
    <2>2. Contains(s, x) <=> \E i \in 1 .. n : s[i] = x
      BY <1>2, ListOnce
    <2>3. ASSUME NEW i \in 1 .. n - 1, r[i] = x
          PROVE  Contains(s, x) /\ x # Head(s)
      <3>1. PICK a \in 1 .. n : a = i + 1 /\ a # 1
        BY <1>2
      <3> QED
        BY <1>2, <1>3, <1>4, <2>2, <2>3, <3>1
    <2>4. ASSUME NEW a \in 1 .. n, s[a] = x, x # Head(s)
          PROVE  \E i \in 1 .. n - 1 : r[i] = x
      <3>1. PICK i \in 1 .. n - 1 : a = i + 1
        BY <1>2, <1>3, <2>4
      <3> QED
        BY <1>3, <2>4, <3>1
    <2> QED
      BY <2>1, <2>2, <2>3, <2>4
  <1>7. Contains(s, Head(s))
    BY <1>2, <1>3, ListOnce
  <1>8. IsInjective(r)
    BY <1>3, <1>5, ListOnce
  <1> QED
    BY <1>1, <1>2, <1>3, <1>6, <1>7, <1>8

(***************************************************************************)
(* The queues of notifications.                                            *)
(***************************************************************************)

\* Each level's queue holds events of that level, each once.
QueuesHold ==
    \A p \in TPL : /\ IsInjective(queue[p])
                   /\ \A e \in Event : Contains(queue[p], e) => NotifyTpl[e] = p

Queued(e) == Contains(queue[NotifyTpl[e]], e)

\* CoreNotifyEvent queues the event, where it was queued or not.
LEMMA NotifyHolds ==
    ASSUME QueuesOK, QueuesHold, NEW e \in Event, CoreNotifyEvent(e)
    PROVE  /\ QueuesHold'
           /\ \A x \in Event : Queued(x)' <=> Queued(x) \/ x = e
  <1>1. PICK p \in TPL : p = NotifyTpl[e]
    BY NotifyTplAssumption
  <1>2. PICK r : r = Unlinked(queue[p], e)
    OBVIOUS
  <1>3. queue \in [TPL -> Seq(Event)] /\ queue[p] \in Seq(Event)
    BY DEF QueuesOK
  <1>4. /\ r \in Seq(Event) /\ IsInjective(r)
        /\ \A x : Contains(r, x) <=> Contains(queue[p], x) /\ x # e
    BY <1>2, <1>3, UnlinkedHolds DEF QueuesHold
  <1>5. PICK q : q = Append(r, e)
    OBVIOUS
  <1>6. /\ q \in Seq(Event) /\ IsInjective(q)
        /\ \A x : Contains(q, x) <=> Contains(r, x) \/ x = e
    BY <1>4, <1>5, AppendHolds
  <1>7. queue' = [queue EXCEPT ![p] = q]
    BY <1>1, <1>2, <1>5 DEF CoreNotifyEvent
  <1>8. ASSUME NEW x \in Event, NEW l \in TPL
        PROVE  Contains(queue'[l], x) <=> Contains(queue[l], x) \/ (x = e /\ l = p)
    <2>1. CASE l = p
      BY <1>3, <1>4, <1>6, <1>7, <2>1
    <2>2. CASE l # p
      BY <1>3, <1>7, <2>2
    <2> QED
      BY <2>1, <2>2
  <1>9. \A l \in TPL : IsInjective(queue'[l])
    BY <1>3, <1>6, <1>7 DEF QueuesHold
  <1>10. QueuesHold'
    BY <1>1, <1>8, <1>9 DEF QueuesHold
  <1>11. \A x \in Event : NotifyTpl[x] \in TPL
    BY NotifyTplAssumption
  <1>12. \A x \in Event : Queued(x)' <=> Queued(x) \/ x = e
    BY <1>1, <1>8, <1>11 DEF Queued
  <1> QED
    BY <1>10, <1>12

\* The dispatcher takes the first event of the level it dispatches.
LEMMA TakeHolds ==
    ASSUME IInv, QueuesHold, DispatchTake
    PROVE  /\ QueuesHold'
           /\ Head(queue[Top.lvl]) \in Event
           /\ Queued(Head(queue[Top.lvl])) /\ NotifyTpl[Head(queue[Top.lvl])] = Top.lvl
           /\ \A x \in Event : Queued(x)' <=> Queued(x) /\ x # Head(queue[Top.lvl])
  <1>1. PICK p \in TPL : p = Top.lvl
    BY TopFacts
  <1>2. PICK s : s = queue[p]
    OBVIOUS
  <1>3. queue \in [TPL -> Seq(Event)] /\ s \in Seq(Event) /\ IsInjective(s) /\ s # <<>>
    BY <1>1, <1>2 DEF IInv, QueuesOK, QueuesHold, DispatchTake
  <1>4. PICK r, e : r = Tail(s) /\ e = Head(s)
    OBVIOUS
  <1>5. /\ r \in Seq(Event) /\ e \in Event /\ IsInjective(r) /\ Contains(s, e)
        /\ \A x : Contains(r, x) <=> Contains(s, x) /\ x # e
    BY <1>3, <1>4, TailHolds
  <1>6. queue' = [queue EXCEPT ![p] = r]
    BY <1>1, <1>2, <1>4 DEF DispatchTake
  <1>7. NotifyTpl[e] = p
    BY <1>2, <1>5 DEF QueuesHold
  <1>8. ASSUME NEW x \in Event, NEW l \in TPL
        PROVE  Contains(queue'[l], x) <=> Contains(queue[l], x) /\ ~ (x = e /\ l = p)
    <2>1. CASE l = p
      BY <1>2, <1>3, <1>5, <1>6, <2>1
    <2>2. CASE l # p
      BY <1>3, <1>6, <2>2
    <2> QED
      BY <2>1, <2>2
  <1>9. \A l \in TPL : IsInjective(queue'[l])
    BY <1>3, <1>5, <1>6 DEF QueuesHold
  <1>10. QueuesHold'
    BY <1>8, <1>9 DEF QueuesHold
  <1>11. \A x \in Event : NotifyTpl[x] \in TPL
    BY NotifyTplAssumption
  <1>12. \A x \in Event : Queued(x)' <=> Queued(x) /\ x # e
    BY <1>7, <1>8, <1>11 DEF Queued
  <1>13. Queued(e)
    BY <1>2, <1>5, <1>7 DEF Queued
  <1> QED
    BY <1>1, <1>2, <1>4, <1>5, <1>7, <1>10, <1>12, <1>13

\* CoreCloseEvent takes its event off its queue.
LEMMA CloseHolds ==
    ASSUME IInv, QueuesHold, CloseUnlink
    PROVE  /\ QueuesHold' /\ Top.ev \in Event
           /\ \A x \in Event : Queued(x)' <=> Queued(x) /\ x # Top.ev
  <1>1. PICK e \in Event : e = Top.ev
    BY TopFacts DEF CloseUnlink, At, GoodFrame, EventPC, ClosePC
  <1>2. PICK p \in TPL : p = NotifyTpl[e]
    BY NotifyTplAssumption
  <1>3. PICK r : r = Unlinked(queue[p], e)
    OBVIOUS
  <1>4. queue \in [TPL -> Seq(Event)] /\ queue[p] \in Seq(Event)
    BY DEF IInv, QueuesOK
  <1>5. /\ r \in Seq(Event) /\ IsInjective(r)
        /\ \A x : Contains(r, x) <=> Contains(queue[p], x) /\ x # e
    BY <1>3, <1>4, UnlinkedHolds DEF QueuesHold
  <1>6. queue' = [queue EXCEPT ![p] = r]
    BY <1>1, <1>2, <1>3 DEF CloseUnlink
  <1>7. ASSUME NEW x \in Event, NEW l \in TPL
        PROVE  Contains(queue'[l], x) <=> Contains(queue[l], x) /\ ~ (x = e /\ l = p)
    <2>1. CASE l = p
      BY <1>4, <1>5, <1>6, <2>1
    <2>2. CASE l # p
      BY <1>4, <1>6, <2>2
    <2> QED
      BY <2>1, <2>2
  <1>8. \A l \in TPL : IsInjective(queue'[l])
    BY <1>4, <1>5, <1>6 DEF QueuesHold
  <1>9. QueuesHold'
    BY <1>7, <1>8 DEF QueuesHold
  <1>10. \A x \in Event : NotifyTpl[x] \in TPL
    BY NotifyTplAssumption
  <1>11. \A x \in Event : Queued(x)' <=> Queued(x) /\ x # e
    BY <1>2, <1>7, <1>10 DEF Queued
  <1> QED
    BY <1>1, <1>9, <1>11

\* Nothing else changes a queue.
LEMMA QueueChange ==
    ASSUME IInv, [Next]_vars
    PROVE  \/ queue' = queue
           \/ \E e \in Event : CoreNotifyEvent(e)
           \/ DispatchTake
           \/ CloseUnlink
  <1>1. mEfiCheckTimerEvent \in Event /\ gIdleLoopEvent \in Event
    BY EventAssumption
  <1>2. SignalCheckTimers => queue' = queue \/ \E e \in Event : CoreNotifyEvent(e)
    BY <1>1 DEF SignalCheckTimers
  <1>3. ASSUME NEW e \in Event, NEW c, NEW t, CoreSignalEvent(e, c, t)
        PROVE  queue' = queue \/ \E x \in Event : CoreNotifyEvent(x)
    BY <1>3 DEF CoreSignalEvent
  <1>4. CASE ClientCall
    BY <1>3, <1>4 DEF ClientCall, UserCreateEvent, UserSignalEvent, UserCheckEvent,
       UserCloseEvent, UserSetTimer, UserWaitForEvent, UserRaiseTpl
  <1>5. CASE CoreTimerTick
    BY <1>2, <1>5 DEF CoreTimerTick
  <1>6. CASE UNCHANGED vars
    BY <1>6 DEF vars
  <1>7. CASE GroupLock \/ GroupRelease \/ GroupReturn
    BY <1>7 DEF GroupLock, GroupRelease, GroupReturn
  <1>8. CASE GroupWalk
    <2>1. signalq[Top.val] \in Event
      BY <1>8, ElementOfSeq DEF GroupWalk, IInv, DataOK
    <2> QED
      BY <1>8, <2>1 DEF GroupWalk
  <1>9. CASE RestoreCheck \/ RestorePick \/ RestoreSet \/ DispatchNotify \/ DispatchDone
             \/ NotifyReturn \/ UserRestoreTpl
    BY <1>9 DEF RestoreCheck, RestorePick, RestoreSet, DispatchNotify, DispatchDone,
       NotifyReturn, UserRestoreTpl
  <1>10. CASE TimerRemove \/ TimerArm \/ TimerInsert
    BY <1>2, <1>10 DEF TimerRemove, TimerArm, TimerInsert
  <1>11. CASE CheckTimersStart \/ CheckTimersRearm \/ CheckTimersInsert
              \/ CheckTimersOnce \/ CheckTimersDone
    BY <1>2, <1>11 DEF CheckTimersStart, CheckTimersRearm, CheckTimersInsert,
       CheckTimersOnce, CheckTimersDone
  <1>12. CASE CheckTimersFire
    <2>1. Head(timers) \in Event
      BY <1>12, HeadTailProperties DEF CheckTimersFire, CheckTimersExpired, IInv, DataOK
    <2> QED
      BY <1>3, <1>12, <2>1 DEF CheckTimersFire
  <1>13. CASE CloseFree \/ CheckRead \/ CheckClear \/ CheckReturn \/ WaitCheck
    BY <1>13 DEF CloseFree, CheckRead, CheckClear, CheckReturn, WaitCheck
  <1>14. CASE CheckQueue
    <2>1. Top.ev \in Event
      BY <1>14, TopFacts DEF CheckQueue, At, GoodFrame, EventPC, CheckPC
    <2> QED
      BY <1>14, <2>1 DEF CheckQueue
  <1>15. CASE WaitIdle
    BY <1>1, <1>3, <1>15 DEF WaitIdle
  <1> QED
    BY <1>4, <1>5, <1>6, <1>7, <1>8, <1>9, <1>10, <1>11, <1>12, <1>13, <1>14, <1>15
    DEF Next, Continue

LEMMA QueuesHoldInv ==
    ASSUME IInv, QueuesHold, [Next]_vars
    PROVE  QueuesHold'
  <1>1. CASE queue' = queue
    BY <1>1 DEF QueuesHold
  <1> QED
    BY <1>1, QueueChange, NotifyHolds, TakeHolds, CloseHolds DEF IInv

(***************************************************************************)
(* The levels calls go on at, where gEventPending is read once per round.  *)
(***************************************************************************)

\* Frames that run at their own level whenever they are on top.
Plain ==
    UserPC \cup DispatchPC \cup {"gLock", "gReturn"} \cup TimersPC \cup ClosePC
        \cup CheckPC \cup WaitPC

\* The level a frame was entered at.
Placed(f) ==
    /\ f.pc \in {"dNotify", "dCalled"} => NotifyTpl[f.ev] = f.lvl
    /\ f.pc \in SetTimerPC => f.lvl < TimerLockTpl
    /\ f.pc \in TimersPC => f.lvl = TimerLockTpl

\* What a frame may be called, or interrupted, by.
Sits(f, up) ==
    /\ f.pc \notin {"gWalk", "ASSERT"}
    /\ up.pc = "raised" => f.pc \in UserPC
    /\ up.pc \in DispatchPC => f.pc \in RestorePC /\ f.lvl < up.lvl
    /\ f.pc \in SetTimerPC => up.lvl = TimerLockTpl
    /\ f.pc \in Plain /\ up.pc # "raised" => up.lvl = f.lvl

\* The level the top frame runs at.
RunsAt(f, t) ==
    /\ f.pc \in Plain => t = f.lvl
    /\ f.pc \in SetTimerPC => t = TimerLockTpl
    /\ f.pc = "gWalk" => t = TPL_HIGH_LEVEL
    /\ f.pc # "ASSERT"

Nested ==
    /\ \A i \in 1 .. Len(stack) : Placed(stack[i])
    /\ \A i \in 1 .. Len(stack) - 1 : Sits(stack[i], stack[i + 1])
    /\ RunsAt(Top, tpl)

\* Only the frames that changed, and the one they sit on, are to be looked at.
LEMMA NestedMove ==
    ASSUME Nested, NEW k, NEW n, Keeps(k, n), n >= 1,
           \A i \in k + 1 .. n : Placed(stack'[i]),
           \A i \in 1 .. n - 1 : k <= i => Sits(stack'[i], stack'[i + 1]),
           RunsAt(stack'[n], tpl')
    PROVE  Nested'
  <1>1. k \in Nat /\ n \in Nat /\ k <= n /\ Len(stack') = n
    BY DEF Keeps
  <1>2. \A i \in 1 .. k : i \in 1 .. Len(stack) /\ stack'[i] = stack[i]
    BY DEF Keeps
  <1>3. \A i \in 1 .. n : Placed(stack'[i])
    <2> SUFFICES ASSUME NEW i \in 1 .. n
                 PROVE  Placed(stack'[i])
      OBVIOUS
    <2>1. CASE i \in 1 .. k
      <3>1. Placed(stack[i]) /\ stack'[i] = stack[i]
        BY <1>2, <2>1 DEF Nested
      <3> QED
        BY <3>1
    <2>2. CASE i \in k + 1 .. n
      BY <2>2
    <2>3. i \in 1 .. k \/ i \in k + 1 .. n
      BY <1>1
    <2> QED
      BY <2>1, <2>2, <2>3
  <1>4. \A i \in 1 .. n - 1 : Sits(stack'[i], stack'[i + 1])
    <2> SUFFICES ASSUME NEW i \in 1 .. n - 1
                 PROVE  Sits(stack'[i], stack'[i + 1])
      OBVIOUS
    <2>1. CASE i < k
      <3>1. i \in 1 .. k /\ i + 1 \in 1 .. k /\ i \in 1 .. Len(stack) - 1
        BY <1>1, <1>2, <2>1
      <3>2. Sits(stack[i], stack[i + 1])
        BY <3>1 DEF Nested
      <3>3. stack'[i] = stack[i] /\ stack'[i + 1] = stack[i + 1]
        BY <3>1, <1>2
      <3> QED
        BY <3>2, <3>3
    <2>2. CASE k <= i
      BY <2>2
    <2>3. i < k \/ k <= i
      BY <1>1
    <2> QED
      BY <2>1, <2>2, <2>3
  <1>5. Top' = stack'[n]
    BY <1>1 DEF Top
  <1> QED
    BY <1>1, <1>3, <1>4, <1>5 DEF Nested

\* The top call goes on,
LEMMA NestedBecome ==
    ASSUME IInv, Nested, Len(stack) >= 2, NEW n, n = Len(stack),
           NEW f, Keeps(n - 1, n), stack'[n] = f,
           Placed(f), Sits(stack[n - 1], f), RunsAt(f, tpl')
    PROVE  Nested'
  <1>1. n \in Nat /\ n >= 2
    BY StackLen
  <1>2. stack'[n - 1] = stack[n - 1]
    BY <1>1 DEF Keeps
  <1>3. \A i \in (n - 1) + 1 .. n : i = n
    BY <1>1
  <1>4. \A i \in 1 .. n - 1 : n - 1 <= i => i = n - 1
    BY <1>1
  <1>5. (n - 1) + 1 = n
    BY <1>1
  <1>6. \A i \in 1 .. n - 1 : n - 1 <= i => Sits(stack'[i], stack'[i + 1])
    BY <1>2, <1>4, <1>5
  <1>7. \A i \in (n - 1) + 1 .. n : Placed(stack'[i])
    BY <1>3
  <1> QED
    BY <1>1, <1>6, <1>7, NestedMove

\* calls,
LEMMA NestedPush ==
    ASSUME IInv, Nested, NEW n, n = Len(stack),
           NEW f, Keeps(n, n + 1), stack'[n + 1] = f,
           Placed(f), Sits(Top, f), RunsAt(f, tpl')
    PROVE  Nested'
  <1>1. n \in Nat /\ n >= 1 /\ Top = stack[n]
    BY StackLen
  <1>2. stack'[n] = Top
    BY <1>1 DEF Keeps
  <1>3. \A i \in n + 1 .. n + 1 : i = n + 1
    BY <1>1
  <1>4. \A i \in 1 .. (n + 1) - 1 : n <= i => i = n
    BY <1>1
  <1>5. \A i \in 1 .. (n + 1) - 1 : n <= i => Sits(stack'[i], stack'[i + 1])
    BY <1>2, <1>4
  <1>6. \A i \in n + 1 .. n + 1 : Placed(stack'[i])
    BY <1>3
  <1>7. n + 1 >= 1
    BY <1>1
  <1> QED
    BY <1>5, <1>6, <1>7, NestedMove

LEMMA NestedPushTwo ==
    ASSUME IInv, Nested, NEW n, n = Len(stack),
           NEW f, NEW g, Keeps(n, n + 2), stack'[n + 1] = f, stack'[n + 2] = g,
           Placed(f), Sits(Top, f), Placed(g), Sits(f, g), RunsAt(g, tpl')
    PROVE  Nested'
  <1>1. n \in Nat /\ n >= 1 /\ Top = stack[n]
    BY StackLen
  <1>2. stack'[n] = Top
    BY <1>1 DEF Keeps
  <1>3. \A i \in n + 1 .. n + 2 : i = n + 1 \/ i = n + 2
    BY <1>1
  <1>4. \A i \in 1 .. (n + 2) - 1 : n <= i => i = n \/ i = n + 1
    BY <1>1
  <1>5. (n + 1) + 1 = n + 2 /\ n + 2 >= 1
    BY <1>1
  <1>6. \A i \in 1 .. (n + 2) - 1 : n <= i => Sits(stack'[i], stack'[i + 1])
    BY <1>2, <1>4, <1>5
  <1>7. \A i \in n + 1 .. n + 2 : Placed(stack'[i])
    BY <1>3
  <1> QED
    BY <1>5, <1>6, <1>7, NestedMove

\* does both,
LEMMA NestedBecomePush ==
    ASSUME IInv, Nested, Len(stack) >= 2, NEW n, n = Len(stack),
           NEW f, NEW g, Keeps(n - 1, n + 1), stack'[n] = f, stack'[n + 1] = g,
           Placed(f), Sits(stack[n - 1], f), Placed(g), Sits(f, g), RunsAt(g, tpl')
    PROVE  Nested'
  <1>1. n \in Nat /\ n >= 2
    BY StackLen
  <1>2. stack'[n - 1] = stack[n - 1]
    BY <1>1 DEF Keeps
  <1>3. \A i \in (n - 1) + 1 .. n + 1 : i = n \/ i = n + 1
    BY <1>1
  <1>4. \A i \in 1 .. (n + 1) - 1 : n - 1 <= i => i = n - 1 \/ i = n
    BY <1>1
  <1>5. (n - 1) + 1 = n /\ n + 1 >= 1
    BY <1>1
  <1>6. \A i \in 1 .. (n + 1) - 1 : n - 1 <= i => Sits(stack'[i], stack'[i + 1])
    BY <1>2, <1>4, <1>5
  <1>7. \A i \in (n - 1) + 1 .. n + 1 : Placed(stack'[i])
    BY <1>3
  <1> QED
    BY <1>5, <1>6, <1>7, NestedMove

LEMMA NestedBecomePushTwo ==
    ASSUME IInv, Nested, Len(stack) >= 2, NEW n, n = Len(stack),
           NEW f, NEW g, NEW h, Keeps(n - 1, n + 2),
           stack'[n] = f, stack'[n + 1] = g, stack'[n + 2] = h,
           Placed(f), Sits(stack[n - 1], f), Placed(g), Sits(f, g),
           Placed(h), Sits(g, h), RunsAt(h, tpl')
    PROVE  Nested'
  <1>1. n \in Nat /\ n >= 2
    BY StackLen
  <1>2. stack'[n - 1] = stack[n - 1]
    BY <1>1 DEF Keeps
  <1>3. \A i \in (n - 1) + 1 .. n + 2 : i = n \/ i = n + 1 \/ i = n + 2
    BY <1>1
  <1>4. \A i \in 1 .. (n + 2) - 1 : n - 1 <= i => i = n - 1 \/ i = n \/ i = n + 1
    BY <1>1
  <1>5. (n - 1) + 1 = n /\ (n + 1) + 1 = n + 2 /\ n + 2 >= 1
    BY <1>1
  <1>6. \A i \in 1 .. (n + 2) - 1 : n - 1 <= i => Sits(stack'[i], stack'[i + 1])
    BY <1>2, <1>4, <1>5
  <1>7. \A i \in (n - 1) + 1 .. n + 2 : Placed(stack'[i])
    BY <1>3
  <1> QED
    BY <1>5, <1>6, <1>7, NestedMove

\* or returns.
LEMMA NestedPop ==
    ASSUME IInv, Nested, NEW k \in Nat, k >= 1, Keeps(k, k), RunsAt(stack[k], tpl')
    PROVE  Nested'
  <1>1. \A i \in k + 1 .. k : FALSE
    OBVIOUS
  <1>2. \A i \in 1 .. k - 1 : k <= i => FALSE
    OBVIOUS
  <1>3. stack'[k] = stack[k]
    BY DEF Keeps
  <1>4. \A i \in k + 1 .. k : Placed(stack'[i])
    BY <1>1
  <1>5. \A i \in 1 .. k - 1 : k <= i => Sits(stack'[i], stack'[i + 1])
    BY <1>2
  <1> QED
    BY <1>3, <1>4, <1>5, NestedMove

LEMMA NestedReturn ==
    ASSUME IInv, Nested, NEW n, n = Len(stack), n >= 3, NEW f,
           Keeps(n - 2, n - 1), stack'[n - 1] = f,
           Placed(f), Sits(stack[n - 2], f), RunsAt(f, tpl')
    PROVE  Nested'
  <1>1. n \in Nat
    BY StackLen
  <1>2. stack'[n - 2] = stack[n - 2]
    BY <1>1 DEF Keeps
  <1>3. \A i \in (n - 2) + 1 .. n - 1 : i = n - 1
    BY <1>1
  <1>4. \A i \in 1 .. (n - 1) - 1 : n - 2 <= i => i = n - 2
    BY <1>1
  <1>5. (n - 2) + 1 = n - 1 /\ n - 1 >= 1
    BY <1>1
  <1>6. \A i \in 1 .. (n - 1) - 1 : n - 2 <= i => Sits(stack'[i], stack'[i + 1])
    BY <1>2, <1>4, <1>5
  <1>7. \A i \in (n - 2) + 1 .. n - 1 : Placed(stack'[i])
    BY <1>3
  <1> QED
    BY <1>5, <1>6, <1>7, NestedMove

\* The frames below the top.
LEMMA Below ==
    ASSUME IInv, Nested, NEW n, n = Len(stack)
    PROVE  /\ RunsAt(Top, tpl) /\ Placed(Top) /\ Top.lvl \in TPL /\ n \in Nat
           /\ n >= 2 => /\ Sits(stack[n - 1], Top) /\ Placed(stack[n - 1])
                        /\ stack[n - 1].lvl \in TPL
           /\ n >= 3 => Sits(stack[n - 2], stack[n - 1])
  <1>1. n \in Nat /\ n >= 1 /\ Top = stack[n] /\ stack \in Seq(GoodFrame)
    BY StackLen
  <1>2. n >= 2 => n - 1 \in 1 .. n - 1 /\ n - 1 \in 1 .. n /\ (n - 1) + 1 = n
    BY <1>1
  <1>3. n >= 3 => n - 2 \in 1 .. n - 1 /\ (n - 2) + 1 = n - 1
    BY <1>1
  <1>4. n \in 1 .. n
    BY <1>1
  <1>5. \A i \in 1 .. n : stack[i].lvl \in TPL
    BY <1>1, ElementOfSeq DEF GoodFrame, Frame
  <1>6. \A i \in 1 .. n - 1 : Sits(stack[i], stack[i + 1])
    BY DEF Nested
  <1>7. \A i \in 1 .. n : Placed(stack[i])
    BY DEF Nested
  <1>8. RunsAt(Top, tpl)
    BY DEF Nested
  <1> QED
    BY <1>1, <1>2, <1>3, <1>4, <1>5, <1>6, <1>7, <1>8

LEMMA FrameFields ==
    ASSUME NEW pc, NEW l, NEW e, NEW v
    PROVE  /\ F(pc, l, e, v).pc = pc /\ F(pc, l, e, v).lvl = l
           /\ F(pc, l, e, v).ev = e /\ F(pc, l, e, v).val = v
  BY DEF F

\* The top call goes on where its caller expects it,
LEMMA SitsOn ==
    ASSUME NEW c, NEW g, NEW f, Sits(c, g), g.pc # "raised", f.lvl = g.lvl,
           f.pc # "raised", f.pc \in DispatchPC => g.pc \in DispatchPC
    PROVE  Sits(c, f)
  BY DEF Sits

\* returns to its caller's level,
LEMMA ReturnsAt ==
    ASSUME NEW c, NEW g, Sits(c, g), g.pc # "raised"
    PROVE  RunsAt(c, g.lvl)
  BY DEF Sits, RunsAt

\* and calls, or is interrupted, at the level it runs at.
LEMMA CallSits ==
    ASSUME NEW f, NEW t, RunsAt(f, t), f.pc # "gWalk",
           NEW pc, pc \notin DispatchPC, pc # "raised", NEW e, NEW v
    PROVE  Sits(f, F(pc, t, e, v))
  BY FrameFields DEF Sits, RunsAt

\* A call of CoreRestoreTpl runs at any level.
LEMMA RestoreRuns ==
    ASSUME NEW l, NEW t
    PROVE  Placed(Restore(l)) /\ RunsAt(Restore(l), t)
           /\ Restore(l).pc = "rCheck" /\ Restore(l).lvl = l
  BY FrameFields DEF Restore, Placed, RunsAt, Plain, UserPC, DispatchPC, TimersPC, ClosePC,
     CheckPC, WaitPC, SetTimerPC

LEMMA RestoreSits ==
    ASSUME NEW f, NEW t, RunsAt(f, t), f.pc # "gWalk"
    PROVE  Sits(f, Restore(t))
  BY CallSits DEF Restore, DispatchPC

\* Signalling a group.
LEMMA GroupNested ==
    ASSUME IInv, Nested,
           GroupLock \/ GroupWalk \/ GroupRelease \/ GroupReturn
    PROVE  Nested'
  <1>1. PICK n : n = Len(stack)
    OBVIOUS
  <1>2. /\ Top.pc \in {"gLock", "gWalk", "gReturn"}
        /\ n >= 2
    BY <1>1, TopFacts DEF GroupLock, GroupWalk, GroupRelease, GroupReturn, At
  <1>3. Sits(stack[n - 1], Top) /\ RunsAt(Top, tpl)
    BY <1>1, <1>2, Below
  <1>4. ASSUME NEW pc \in {"gWalk", "gReturn"}, NEW v
        PROVE  /\ Placed(F(pc, Top.lvl, Top.ev, v))
               /\ Sits(stack[n - 1], F(pc, Top.lvl, Top.ev, v))
    <2>1. F(pc, Top.lvl, Top.ev, v).pc = pc /\ F(pc, Top.lvl, Top.ev, v).lvl = Top.lvl
      BY FrameFields
    <2>2. Placed(F(pc, Top.lvl, Top.ev, v))
      BY <2>1 DEF Placed, SetTimerPC, TimersPC
    <2>3. Sits(stack[n - 1], F(pc, Top.lvl, Top.ev, v))
      BY <1>2, <1>3, <2>1, SitsOn DEF DispatchPC
    <2> QED
      BY <2>2, <2>3
  <1>5. Sits(stack[n - 1], Restore(Top.lvl))
    BY <1>2, <1>3, SitsOn, RestoreRuns DEF DispatchPC
  <1>6. \A v : RunsAt(F("gWalk", Top.lvl, Top.ev, v), TPL_HIGH_LEVEL)
    BY FrameFields DEF RunsAt, Plain, UserPC, DispatchPC, TimersPC, ClosePC, CheckPC, WaitPC,
       SetTimerPC
  <1>7. CASE GroupLock
    BY <1>1, <1>2, <1>4, <1>6, <1>7, GroupLockMove, NestedBecome
  <1>8. CASE GroupWalk
    <2>1. Top.pc = "gWalk" /\ tpl' = tpl
      BY <1>1, <1>8, GroupWalkMove
    <2>2. tpl' = TPL_HIGH_LEVEL
      BY <1>3, <2>1 DEF RunsAt
    <2> QED
      BY <1>1, <1>2, <1>4, <1>6, <1>8, <2>2, GroupWalkMove, NestedBecome
  <1>9. CASE GroupRelease
    <2>1. PICK f : f = F("gReturn", Top.lvl, Top.ev, Top.val)
      OBVIOUS
    <2>2. f.pc = "gReturn" /\ f.lvl = Top.lvl
      BY <2>1, FrameFields
    <2>3. RunsAt(f, Top.lvl)
      BY <2>2 DEF RunsAt, SetTimerPC
    <2>4. Sits(f, Restore(Top.lvl))
      BY <2>2, <2>3, RestoreSits
    <2>5. Placed(f) /\ Sits(stack[n - 1], f)
      BY <1>4, <2>1
    <2>6. Keeps(n - 1, n + 1) /\ stack'[n] = f /\ stack'[n + 1] = Restore(Top.lvl)
      BY <1>1, <1>9, <2>1, GroupReleaseMove
    <2> QED
      BY <1>1, <1>2, <2>4, <2>5, <2>6, RestoreRuns, NestedBecomePush
  <1>10. CASE GroupReturn
    BY <1>1, <1>2, <1>5, <1>10, GroupReturnMove, RestoreRuns, NestedBecome
  <1> QED
    BY <1>7, <1>8, <1>9, <1>10

\* A frame that runs at its own level.
LEMMA PlainRuns ==
    ASSUME NEW f, f.pc \in Plain
    PROVE  RunsAt(f, f.lvl) /\ f.pc # "gWalk" /\ f.pc # "ASSERT" /\ f.pc \notin SetTimerPC
  BY DEF RunsAt, Plain, UserPC, DispatchPC, TimersPC, ClosePC, CheckPC, WaitPC, SetTimerPC

\* The usual ways to go on: at another point of the same call,
LEMMA GoOnNested ==
    ASSUME IInv, Nested, NEW n, n = Len(stack), n >= 2, Top.pc # "raised",
           NEW f, Keeps(n - 1, n), stack'[n] = f, f.lvl = Top.lvl, f.pc \in Plain,
           f.pc # "raised", f.pc \in DispatchPC => Top.pc \in DispatchPC,
           Placed(f), Top.pc \in Plain, tpl' = tpl
    PROVE  Nested'
  <1>1. Sits(stack[n - 1], Top) /\ RunsAt(Top, tpl)
    BY Below
  <1>2. Sits(stack[n - 1], f)
    BY <1>1, SitsOn
  <1>3. RunsAt(f, tpl')
    BY <1>1, PlainRuns DEF RunsAt
  <1> QED
    BY <1>2, <1>3, NestedBecome

\* there after a call of CoreRestoreTpl,
LEMMA GoOnRestoreNested ==
    ASSUME IInv, Nested, NEW n, n = Len(stack), n >= 2, Top.pc # "raised",
           NEW f, Keeps(n - 1, n + 1), stack'[n] = f, f.lvl = Top.lvl, f.pc \in Plain,
           f.pc # "raised", f.pc \in DispatchPC => Top.pc \in DispatchPC,
           Placed(f), stack'[n + 1] = Restore(Top.lvl)
    PROVE  Nested'
  <1>1. Sits(stack[n - 1], f)
    BY Below, SitsOn
  <1>2. Sits(f, Restore(Top.lvl))
    BY PlainRuns, RestoreSits
  <1> QED
    BY <1>1, <1>2, RestoreRuns, NestedBecomePush

\* to the end of the call,
LEMMA EndNested ==
    ASSUME IInv, Nested, NEW n, n = Len(stack), n >= 2, Top.pc # "raised",
           Keeps(n - 1, n), stack'[n] = Restore(Top.lvl)
    PROVE  Nested'
  <1>1. Sits(stack[n - 1], Restore(Top.lvl))
    BY Below, SitsOn, RestoreRuns DEF DispatchPC
  <1> QED
    BY <1>1, RestoreRuns, NestedBecome

\* back to the caller,
LEMMA PopNested ==
    ASSUME IInv, Nested, NEW n, n = Len(stack), n >= 2, Top.pc # "raised",
           Keeps(n - 1, n - 1), tpl' = Top.lvl
    PROVE  Nested'
  <1>1. RunsAt(stack[n - 1], tpl')
    BY Below, ReturnsAt
  <1>2. n - 1 \in Nat /\ n - 1 >= 1
    BY Below
  <1> QED
    BY <1>1, <1>2, NestedPop

\* a call,
LEMMA CallNested ==
    ASSUME IInv, Nested, NEW n, n = Len(stack), Top.pc # "gWalk",
           NEW f, Keeps(n, n + 1), stack'[n + 1] = f, f.lvl = tpl, f.pc \in Plain,
           f.pc # "raised", f.pc \notin DispatchPC, Placed(f), tpl' = tpl
    PROVE  Nested'
  <1>1. RunsAt(Top, tpl)
    BY Below
  <1>2. Sits(Top, f)
    BY <1>1 DEF Sits, RunsAt
  <1>3. RunsAt(f, tpl')
    BY PlainRuns
  <1> QED
    BY <1>2, <1>3, NestedPush

\* and a release of a lock just acquired, or the end of an interrupt.
LEMMA ReleaseNested ==
    ASSUME IInv, Nested, NEW n, n = Len(stack), Top.pc # "gWalk",
           Keeps(n, n + 1), stack'[n + 1] = Restore(tpl)
    PROVE  Nested'
  BY Below, RestoreRuns, RestoreSits, NestedPush

\* CoreRestoreTpl.
LEMMA RestoreNested ==
    ASSUME IInv, Nested, ReadOnce, RestoreCheck \/ RestorePick \/ RestoreSet
    PROVE  Nested'
  <1>1. PICK n : n = Len(stack)
    OBVIOUS
  <1>2. Top.pc \in RestorePC /\ n >= 2
    BY <1>1, TopFacts DEF RestoreCheck, RestorePick, RestoreSet, At, RestorePC
  <1>3. Top.pc # "raised"
    BY <1>2 DEF RestorePC
  <1>4. Sits(stack[n - 1], Top)
    BY <1>1, <1>2, Below
  <1>5. ASSUME NEW pc \in RestorePC, NEW v
        PROVE  LET f == F(pc, Top.lvl, Top.ev, v) IN
               Placed(f) /\ Sits(stack[n - 1], f) /\ \A t : RunsAt(f, t)
    <2>1. PICK f : f = F(pc, Top.lvl, Top.ev, v)
      OBVIOUS
    <2>2. f.pc = pc /\ f.lvl = Top.lvl
      BY <2>1, FrameFields
    <2>3. Placed(f) /\ \A t : RunsAt(f, t)
      BY <2>2 DEF Placed, RunsAt, Plain, UserPC, DispatchPC, TimersPC, ClosePC, CheckPC,
         WaitPC, SetTimerPC, RestorePC
    <2>4. Sits(stack[n - 1], f)
      BY <1>3, <1>4, <2>2, SitsOn DEF RestorePC, DispatchPC
    <2> QED
      BY <2>1, <2>3, <2>4
  <1>6. CASE RestoreCheck
    <2>1. PICK pc \in RestorePC : \E v : stack'[n] = F(pc, Top.lvl, Top.ev, v)
      BY <1>1, <1>6, RestoreCheckMove DEF RestorePC
    <2>2. Keeps(n - 1, n)
      BY <1>1, <1>6, RestoreCheckMove
    <2> QED
      BY <1>1, <1>2, <1>5, <2>1, <2>2, NestedBecome
  <1>7. CASE RestorePick
    <2>1. PICK f, g : f = F("rCheck", Top.lvl, Top.ev, 0) /\ g = F("dLoop", Top.val, NoEvent, 0)
      OBVIOUS
    <2>2. /\ tpl' = Top.val /\ Top.val > Top.lvl
          /\ Keeps(n - 1, n + 1) /\ stack'[n] = f /\ stack'[n + 1] = g
      BY <1>1, <1>7, <2>1, RestorePickMove
    <2>3. Placed(f) /\ Sits(stack[n - 1], f)
      BY <1>5, <2>1 DEF RestorePC
    <2>4. f.pc = "rCheck" /\ f.lvl = Top.lvl /\ g.pc = "dLoop" /\ g.lvl = Top.val
      BY <2>1, FrameFields
    <2>5. Placed(g) /\ RunsAt(g, tpl')
      BY <2>2, <2>4 DEF Placed, RunsAt, SetTimerPC, TimersPC
    <2>6. Top.lvl < Top.val
      <3>1. Top.lvl \in Nat /\ Top.val \in Nat
        BY TopFacts DEF TPL
      <3> QED
        BY <2>2, <3>1
    <2>7. Sits(f, g)
      BY <2>4, <2>6 DEF Sits, RestorePC, SetTimerPC, Plain, UserPC, DispatchPC, TimersPC,
         ClosePC, CheckPC, WaitPC
    <2> QED
      BY <1>1, <1>2, <2>2, <2>3, <2>5, <2>7, NestedBecomePush
  <1>8. CASE RestoreSet
    BY <1>1, <1>2, <1>3, <1>8, RestoreSetMove, PopNested
  <1> QED
    BY <1>6, <1>7, <1>8

\* CoreDispatchEventNotifies.
LEMMA DispatchNested ==
    ASSUME IInv, QueuesHold, Nested,
           DispatchTake \/ DispatchNotify \/ DispatchDone \/ NotifyReturn \/ CheckTimersDone
    PROVE  Nested'
  <1>1. PICK n : n = Len(stack)
    OBVIOUS
  <1>2. CASE DispatchTake
    <2>1. PICK e : e = Head(queue[Top.lvl])
      OBVIOUS
    <2>2. PICK f : f = F("dNotify", Top.lvl, e, Top.val)
      OBVIOUS
    <2>3. f.pc = "dNotify" /\ f.lvl = Top.lvl /\ f.ev = e
      BY <2>2, FrameFields
    <2>4. NotifyTpl[e] = Top.lvl
      BY <1>2, <2>1, TakeHolds
    <2>5. Placed(f) /\ f.pc \in DispatchPC /\ f.pc \in Plain
      BY <2>3, <2>4 DEF Placed, SetTimerPC, TimersPC, DispatchPC, Plain
    <2>6. Top.pc = "dLoop" /\ Keeps(n - 1, n + 1) /\ stack'[n] = f
          /\ stack'[n + 1] = Restore(Top.lvl)
      BY <1>1, <1>2, <2>1, <2>2, DispatchTakeMove
    <2>7. Top.pc \in DispatchPC /\ Top.pc # "raised" /\ n >= 2
      BY <1>1, <2>6, TopFacts DEF DispatchPC
    <2> QED
      BY <1>1, <2>3, <2>5, <2>6, <2>7, GoOnRestoreNested
  <1>3. CASE DispatchNotify
    <2>1. PICK f : f = F("dCalled", Top.lvl, Top.ev, Top.val)
      OBVIOUS
    <2>2. f.pc = "dCalled" /\ f.lvl = Top.lvl /\ f.ev = Top.ev
      BY <2>1, FrameFields
    <2>3. /\ Top.pc = "dNotify" /\ tpl' = tpl /\ Keeps(n - 1, n + 1) /\ stack'[n] = f
          /\ \/ /\ Top.ev = mEfiCheckTimerEvent
                /\ stack'[n + 1] = F("ctStart", Top.lvl, Top.ev, Top.lvl)
             \/ stack'[n + 1] = F("user", Top.lvl, Top.ev, Top.lvl)
      BY <1>1, <1>3, <2>1, DispatchNotifyMove
    <2>4. n >= 2
      BY <1>1, <2>3, TopFacts
    <2>5. Placed(Top) /\ RunsAt(Top, tpl) /\ Sits(stack[n - 1], Top)
      BY <1>1, <2>4, Below
    <2>6. NotifyTpl[Top.ev] = Top.lvl /\ tpl = Top.lvl
      BY <2>3, <2>5 DEF Placed, RunsAt, Plain, DispatchPC
    <2>7. PICK g : g = stack'[n + 1]
      OBVIOUS
    <2>8. g.lvl = Top.lvl /\ (g.pc = "user" \/ (g.pc = "ctStart" /\ Top.lvl = TimerLockTpl))
      <3>1. NotifyTpl[mEfiCheckTimerEvent] = TimerLockTpl
        BY NotifyTplAssumption, EventAssumption DEF CheckTimersTpl, TimerLockTpl
      <3>2. CASE g = F("ctStart", Top.lvl, Top.ev, Top.lvl) /\ Top.ev = mEfiCheckTimerEvent
        BY <2>6, <3>1, <3>2, FrameFields
      <3>3. CASE g = F("user", Top.lvl, Top.ev, Top.lvl)
        BY <3>3, FrameFields
      <3> QED
        BY <2>3, <2>7, <3>2, <3>3
    <2>9. Placed(f) /\ Sits(stack[n - 1], f)
      <3>1. Placed(f)
        BY <2>2, <2>6 DEF Placed, SetTimerPC, TimersPC
      <3> QED
        BY <2>2, <2>3, <2>5, <3>1, SitsOn DEF DispatchPC
    <2>10. Placed(g) /\ RunsAt(g, tpl')
      BY <2>3, <2>6, <2>8 DEF Placed, RunsAt, SetTimerPC, TimersPC
    <2>11. Sits(f, g)
      BY <2>2, <2>8 DEF Sits, SetTimerPC, DispatchPC
    <2> QED
      BY <1>1, <2>3, <2>4, <2>7, <2>9, <2>10, <2>11, NestedBecomePush
  <1>4. CASE DispatchDone
    <2>1. Top.pc = "dLoop"
      BY <1>1, <1>4, DispatchDoneMove
    <2>2. n >= 2
      BY <1>1, <2>1, TopFacts
    <2> QED
      BY <1>1, <1>4, <2>1, <2>2, DispatchDoneMove, EndNested
  <1>5. CASE NotifyReturn \/ CheckTimersDone
    <2>1. PICK c : c = stack[n - 1]
      OBVIOUS
    <2>2. PICK f : f = F("dLoop", c.lvl, NoEvent, c.val)
      OBVIOUS
    <2>3. /\ Top.pc \in {"user", "ctLoop"} /\ tpl' = tpl /\ n >= 3 /\ c.pc = "dCalled"
          /\ Keeps(n - 2, n - 1) /\ stack'[n - 1] = f
      BY <1>1, <1>5, <2>1, <2>2, NotifyReturnMove, CheckTimersDoneMove
    <2>4. f.pc = "dLoop" /\ f.lvl = c.lvl
      BY <2>2, FrameFields
    <2>5. Sits(c, Top) /\ Sits(stack[n - 2], c) /\ RunsAt(Top, tpl)
      <3>1. n >= 2
        BY <1>1, <2>3, StackLen
      <3> QED
        BY <1>1, <2>1, <2>3, <3>1, Below
    <2>6. tpl' = c.lvl
      BY <2>3, <2>5 DEF Sits, RunsAt, Plain, UserPC, TimersPC, DispatchPC
    <2>7. Sits(stack[n - 2], f)
      BY <2>3, <2>4, <2>5, SitsOn DEF DispatchPC
    <2>8. Placed(f) /\ RunsAt(f, tpl')
      BY <2>4, <2>6 DEF Placed, RunsAt, SetTimerPC, TimersPC
    <2> QED
      BY <1>1, <2>3, <2>7, <2>8, NestedReturn
  <1> QED
    BY <1>2, <1>3, <1>4, <1>5

\* The points a call may go on at without being placed.
LEMMA PlacedAnywhere ==
    ASSUME NEW f, f.pc \notin {"dNotify", "dCalled"}, f.pc \notin SetTimerPC, f.pc \notin TimersPC
    PROVE  Placed(f)
  BY DEF Placed

\* CoreSetTimer.
LEMMA SetTimerNested ==
    ASSUME IInv, Nested, TimerRemove \/ TimerArm \/ TimerInsert
    PROVE  Nested'
  <1>1. PICK n : n = Len(stack)
    OBVIOUS
  <1>2. Top.pc \in SetTimerPC /\ tpl' = tpl /\ n >= 2 /\ Top.pc # "raised"
    <2>1. Top.pc \in SetTimerPC /\ tpl' = tpl
      BY <1>1, TimerRemoveMove, TimerArmMove, TimerInsertMove DEF SetTimerPC
    <2>2. Top.pc # "user" /\ Top.pc # "raised"
      BY <2>1 DEF SetTimerPC
    <2> QED
      BY <1>1, <2>1, <2>2, TopFacts
  <1>3. Sits(stack[n - 1], Top) /\ RunsAt(Top, tpl) /\ Placed(Top)
    BY <1>1, <1>2, Below
  <1>4. tpl = TimerLockTpl /\ Top.lvl < TimerLockTpl
    BY <1>2, <1>3 DEF RunsAt, Placed
  <1>5. ASSUME NEW pc \in {"stArm", "stInsert"}, NEW v,
               Keeps(n - 1, n), stack'[n] = F(pc, Top.lvl, Top.ev, v)
        PROVE  Nested'
    <2>1. PICK f : f = F(pc, Top.lvl, Top.ev, v)
      OBVIOUS
    <2>2. f.pc = pc /\ f.lvl = Top.lvl
      BY <2>1, FrameFields
    <2>3. Placed(f)
      BY <1>4, <2>2 DEF Placed, TimersPC
    <2>4. RunsAt(f, tpl')
      BY <1>2, <1>4, <2>2 DEF RunsAt, Plain, UserPC, DispatchPC, TimersPC, ClosePC, CheckPC,
         WaitPC
    <2>5. Sits(stack[n - 1], f)
      BY <1>2, <1>3, <2>2, SitsOn DEF DispatchPC
    <2> QED
      BY <1>1, <1>2, <1>5, <2>1, <2>3, <2>4, <2>5, NestedBecome
  <1>6. CASE Keeps(n - 1, n) /\ stack'[n] = Restore(Top.lvl)
    BY <1>1, <1>2, <1>6, EndNested
  <1> QED
    BY <1>1, <1>5, <1>6, TimerRemoveMove, TimerArmMove, TimerInsertMove

\* CoreCheckTimers.
LEMMA CheckTimersNested ==
    ASSUME IInv, Nested,
           \/ CheckTimersStart \/ CheckTimersFire \/ CheckTimersRearm
           \/ CheckTimersInsert \/ CheckTimersOnce
    PROVE  Nested'
  <1>1. PICK n : n = Len(stack)
    OBVIOUS
  <1>2. Top.pc \in TimersPC
    BY <1>1, CheckTimersStartMove, CheckTimersFireMove, CheckTimersRearmMove,
       CheckTimersInsertMove, CheckTimersOnceMove DEF TimersPC
  <1>3. Top.pc \in Plain /\ Top.pc # "raised" /\ Top.pc # "user"
    BY <1>2 DEF Plain, TimersPC
  <1>4. n >= 2
    BY <1>1, <1>3, TopFacts
  <1>5. Sits(stack[n - 1], Top) /\ RunsAt(Top, tpl) /\ Placed(Top)
    BY <1>1, <1>4, Below
  <1>6. tpl = Top.lvl /\ Top.lvl = TimerLockTpl
    BY <1>2, <1>3, <1>5 DEF RunsAt, Placed
  <1>7. ASSUME NEW pc \in TimersPC, NEW e, NEW v, NEW f, f = F(pc, Top.lvl, e, v)
        PROVE  /\ Placed(f) /\ f.pc \in Plain /\ f.pc # "raised" /\ f.lvl = Top.lvl
               /\ f.pc \notin DispatchPC
    <2>1. f.pc = pc /\ f.lvl = Top.lvl
      BY <1>7, FrameFields
    <2> QED
      BY <1>6, <2>1 DEF Placed, SetTimerPC, TimersPC, Plain, DispatchPC
  <1>8. CASE CheckTimersFire
    <2>1. PICK e : e = Head(timers)
      OBVIOUS
    <2>2. PICK f : f = F("ctRearm", Top.lvl, e, Top.val)
      OBVIOUS
    <2>3. /\ Placed(f) /\ f.pc \in Plain /\ f.pc # "raised" /\ f.lvl = Top.lvl
          /\ f.pc \notin DispatchPC
      BY <1>7, <2>2 DEF TimersPC
    <2>4. CASE Keeps(n - 1, n + 1) /\ stack'[n] = f /\ stack'[n + 1] = Restore(tpl)
      BY <1>1, <1>3, <1>4, <1>6, <2>3, <2>4, GoOnRestoreNested
    <2>5. CASE /\ Keeps(n - 1, n + 2) /\ stack'[n] = f
               /\ stack'[n + 1] = F("gLock", tpl, e, 0) /\ stack'[n + 2] = Restore(tpl)
      <3>1. PICK g : g = F("gLock", tpl, e, 0)
        OBVIOUS
      <3>2. g.pc = "gLock" /\ g.lvl = tpl
        BY <3>1, FrameFields
      <3>3. Placed(g)
        BY <3>2, PlacedAnywhere DEF SetTimerPC, TimersPC
      <3>4. RunsAt(g, tpl) /\ RunsAt(f, tpl)
        BY <1>6, <2>3, <3>2, PlainRuns DEF Plain
      <3>5. f.pc # "gWalk" /\ g.pc # "gWalk" /\ Sits(f, g)
        BY <2>3, <3>1, <3>4, <3>2, PlainRuns, CallSits DEF DispatchPC
      <3>6. Sits(g, Restore(tpl)) /\ Sits(stack[n - 1], f)
        BY <1>3, <1>5, <2>3, <3>4, <3>5, RestoreSits, SitsOn
      <3> QED
        BY <1>1, <1>4, <2>3, <2>5, <3>1, <3>3, <3>5, <3>6, RestoreRuns, NestedBecomePushTwo
    <2> QED
      BY <1>1, <1>8, <2>1, <2>2, <2>4, <2>5, CheckTimersFireMove
  <1>9. CASE CheckTimersStart \/ CheckTimersRearm \/ CheckTimersInsert \/ CheckTimersOnce
    <2>1. PICK f : f = stack'[n]
      OBVIOUS
    <2>2. /\ Keeps(n - 1, n) /\ tpl' = tpl
          /\ \E pc \in TimersPC, e \in Event \cup {NoEvent}, v \in Nat : f = F(pc, Top.lvl, e, v)
      <3>1. Top.ev \in Event \cup {NoEvent} /\ mEfiCheckTimerEvent \in Event
            /\ Top.val \in Nat /\ sysTime \in Nat
        BY TopFacts, EventAssumption DEF IInv, DataOK
      <3>2. "ctLoop" \in TimersPC /\ "ctInsert" \in TimersPC
        BY DEF TimersPC
      <3> QED
        BY <1>1, <1>9, <2>1, <3>1, <3>2, CheckTimersStartMove, CheckTimersRearmMove,
           CheckTimersInsertMove, CheckTimersOnceMove
    <2>3. /\ Placed(f) /\ f.pc \in Plain /\ f.pc # "raised" /\ f.lvl = Top.lvl
          /\ f.pc \notin DispatchPC
      BY <1>7, <2>2
    <2> QED
      BY <1>1, <1>3, <1>4, <2>1, <2>2, <2>3, GoOnNested
  <1> QED
    BY <1>8, <1>9

\* CoreCloseEvent, CoreCheckEvent and CoreWaitForEvent.
LEMMA CallsNested ==
    ASSUME IInv, Nested,
           \/ CloseUnlink \/ CloseFree \/ CheckQueue \/ CheckRead \/ CheckClear \/ CheckReturn
           \/ WaitCheck \/ WaitIdle
    PROVE  Nested'
  <1>1. PICK n : n = Len(stack)
    OBVIOUS
  <1>2. Top.pc \in ClosePC \cup CheckPC \cup WaitPC
    BY <1>1, CloseUnlinkMove, CloseFreeMove, CheckQueueMove, CheckReadMove, CheckClearMove,
       CheckReturnMove, WaitCheckMove, WaitIdleMove DEF ClosePC, CheckPC, WaitPC
  <1>3. /\ Top.pc \in Plain /\ Top.pc # "raised" /\ Top.pc # "user" /\ Top.pc # "gWalk"
    BY <1>2 DEF Plain, ClosePC, CheckPC, WaitPC
  <1>4. n >= 2
    BY <1>1, <1>3, TopFacts
  <1>5. Sits(stack[n - 1], Top) /\ RunsAt(Top, tpl)
    BY <1>1, <1>4, Below
  <1>6. tpl = Top.lvl
    BY <1>3, <1>5 DEF RunsAt
  <1>7. ASSUME NEW pc \in ClosePC \cup CheckPC \cup WaitPC, NEW l, NEW e, NEW v,
               NEW f, f = F(pc, l, e, v)
        PROVE  /\ Placed(f) /\ f.pc \in Plain /\ f.pc # "raised" /\ f.lvl = l
               /\ f.pc \notin DispatchPC
    <2>1. f.pc = pc /\ f.lvl = l
      BY <1>7, FrameFields
    <2> QED
      BY <2>1 DEF Placed, SetTimerPC, TimersPC, Plain, DispatchPC, ClosePC, CheckPC, WaitPC
  <1>8. /\ {"clFree", "ckRead", "ckClear", "ckReturn", "wtNext", "ckQueue"}
              \subseteq ClosePC \cup CheckPC \cup WaitPC
    BY DEF ClosePC, CheckPC, WaitPC
  <1>9. CASE CloseUnlink \/ CheckQueue \/ CheckClear
    <2>1. PICK pc \in {"clFree", "ckRead", "ckReturn"}, v \in Nat :
             /\ Keeps(n - 1, n + 1) /\ stack'[n] = F(pc, Top.lvl, Top.ev, v)
             /\ stack'[n + 1] = Restore(Top.lvl)
      BY <1>1, <1>9, TopFacts, CloseUnlinkMove, CheckQueueMove, CheckClearMove
    <2>2. PICK f : f = F(pc, Top.lvl, Top.ev, v)
      OBVIOUS
    <2> QED
      BY <1>1, <1>3, <1>4, <1>7, <1>8, <2>1, <2>2, GoOnRestoreNested
  <1>10. CASE CloseFree
    BY <1>1, <1>3, <1>4, <1>6, <1>10, CloseFreeMove, PopNested
  <1>11. CASE CheckRead
    <2>1. PICK pc \in {"ckClear", "ckReturn"} :
             Keeps(n - 1, n) /\ stack'[n] = F(pc, Top.lvl, Top.ev, Top.val) /\ tpl' = tpl
      BY <1>1, <1>11, CheckReadMove
    <2>2. PICK f : f = F(pc, Top.lvl, Top.ev, Top.val)
      OBVIOUS
    <2> QED
      BY <1>1, <1>3, <1>4, <1>7, <1>8, <2>1, <2>2, GoOnNested
  <1>12. CASE CheckReturn
    <2>1. tpl' = Top.lvl
      BY <1>1, <1>6, <1>12, CheckReturnMove
    <2>2. CASE Keeps(n - 1, n - 1)
      BY <1>1, <1>3, <1>4, <2>1, <2>2, PopNested
    <2>3. PICK c : c = stack[n - 1]
      OBVIOUS
    <2>4. ASSUME n >= 3, c.pc = "wtNext"
          PROVE  /\ c.pc \in Plain /\ c.pc # "raised" /\ tpl' = c.lvl
                 /\ Sits(stack[n - 2], c)
      <3>1. Sits(c, Top) /\ Sits(stack[n - 2], c)
        BY <1>1, <1>4, <2>3, <2>4, Below
      <3> QED
        BY <1>3, <2>1, <2>4, <3>1 DEF Sits, Plain, WaitPC
    <2>5. CASE n >= 3 /\ c.pc = "wtNext" /\ Keeps(n - 2, n - 2)
      <3>1. RunsAt(stack[n - 2], tpl')
        BY <2>4, <2>5, ReturnsAt
      <3>2. n - 2 \in Nat /\ n - 2 >= 1
        BY <1>1, <2>5, Below
      <3> QED
        BY <2>5, <3>1, <3>2, NestedPop
    <2>6. CASE /\ n >= 3 /\ c.pc = "wtNext" /\ Keeps(n - 2, n - 1)
               /\ stack'[n - 1] = F("wtNext", c.lvl, c.ev, c.val + 1)
      <3>1. PICK f : f = F("wtNext", c.lvl, c.ev, c.val + 1)
        OBVIOUS
      <3>2. /\ Placed(f) /\ f.pc \in Plain /\ f.pc # "raised" /\ f.lvl = c.lvl
            /\ f.pc \notin DispatchPC
        BY <1>7, <1>8, <3>1
      <3>3. Sits(stack[n - 2], f)
        BY <2>4, <2>6, <3>2, SitsOn
      <3>4. RunsAt(f, tpl')
        BY <2>4, <2>6, <3>2, PlainRuns
      <3> QED
        BY <1>1, <2>6, <3>1, <3>2, <3>3, <3>4, NestedReturn
    <2> QED
      BY <1>1, <1>12, <2>2, <2>3, <2>5, <2>6, CheckReturnMove
  <1>13. CASE WaitCheck
    <2>1. PICK f : f = CheckCall(UserEvents[Top.val], tpl)
      OBVIOUS
    <2>2. PICK pc \in {"ckQueue", "ckRead"} : f = F(pc, tpl, UserEvents[Top.val], 0)
      BY <2>1 DEF CheckCall
    <2>3. /\ Placed(f) /\ f.pc \in Plain /\ f.pc # "raised" /\ f.lvl = tpl
          /\ f.pc \notin DispatchPC
      BY <1>7, <1>8, <2>2
    <2>4. Keeps(n, n + 1) /\ stack'[n + 1] = f /\ tpl' = tpl
      BY <1>1, <1>13, <2>1, WaitCheckMove
    <2> QED
      BY <1>1, <1>3, <2>3, <2>4, CallNested
  <1>14. CASE WaitIdle
    <2>1. PICK f : f = F("wtNext", Top.lvl, Top.ev, 1)
      OBVIOUS
    <2>2. /\ Placed(f) /\ f.pc \in Plain /\ f.pc # "raised" /\ f.lvl = Top.lvl
          /\ f.pc \notin DispatchPC
      BY <1>7, <1>8, <2>1
    <2>3. CASE Keeps(n - 1, n + 1) /\ stack'[n] = f /\ stack'[n + 1] = Restore(tpl)
      BY <1>1, <1>3, <1>4, <1>6, <2>2, <2>3, GoOnRestoreNested
    <2>4. CASE /\ Keeps(n - 1, n + 2) /\ stack'[n] = f
               /\ stack'[n + 1] = F("gLock", tpl, gIdleLoopEvent, 0)
               /\ stack'[n + 2] = Restore(tpl)
      <3>1. PICK g : g = F("gLock", tpl, gIdleLoopEvent, 0)
        OBVIOUS
      <3>2. g.pc = "gLock" /\ g.lvl = tpl
        BY <3>1, FrameFields
      <3>3. Placed(g)
        BY <3>2, PlacedAnywhere DEF SetTimerPC, TimersPC
      <3>4. RunsAt(g, tpl) /\ RunsAt(f, tpl)
        BY <1>6, <2>2, <3>2, PlainRuns DEF Plain
      <3>5. f.pc # "gWalk" /\ g.pc # "gWalk" /\ Sits(f, g)
        BY <2>2, <3>1, <3>4, <3>2, PlainRuns, CallSits DEF DispatchPC
      <3>6. Sits(g, Restore(tpl)) /\ Sits(stack[n - 1], f)
        BY <1>3, <1>5, <2>2, <3>4, <3>5, RestoreSits, SitsOn
      <3> QED
        BY <1>1, <1>4, <2>2, <2>4, <3>1, <3>3, <3>5, <3>6, RestoreRuns, NestedBecomePushTwo
    <2> QED
      BY <1>1, <1>14, <2>1, <2>3, <2>4, WaitIdleMove
  <1> QED
    BY <1>9, <1>10, <1>11, <1>12, <1>13, <1>14

\* The timer interrupt, and the calls of client code.
LEMMA ClientNested ==
    ASSUME IInv, Nested, ClientCall \/ CoreTimerTick \/ UserRestoreTpl
    PROVE  Nested'
  <1>1. PICK n : n = Len(stack)
    OBVIOUS
  <1>2. RunsAt(Top, tpl)
    BY <1>1, Below
  <1>3. CASE CoreTimerTick
    <2>1. Top.pc # "gWalk"
      BY <1>1, <1>2, <1>3, CoreTimerTickMove DEF RunsAt
    <2> QED
      BY <1>1, <1>3, <2>1, CoreTimerTickMove, ReleaseNested
  <1>4. CASE UserRestoreTpl
    <2>1. Top.pc = "raised" /\ Keeps(n - 1, n) /\ stack'[n] = Restore(stack[n - 1].lvl)
      BY <1>1, <1>4, UserRestoreTplMove
    <2>2. n >= 2
      BY <1>1, <2>1, TopFacts
    <2>3. PICK c : c = stack[n - 1]
      OBVIOUS
    <2>4. Sits(c, Top)
      BY <1>1, <2>2, <2>3, Below
    <2>5. c.pc \in UserPC
      BY <2>1, <2>4 DEF Sits
    <2>6. RunsAt(c, c.lvl) /\ c.pc # "gWalk"
      BY <2>5, PlainRuns DEF Plain
    <2> QED
      BY <1>1, <2>1, <2>2, <2>3, <2>6, RestoreSits, RestoreRuns, NestedBecome
  <1>5. ASSUME Running
        PROVE  Top.pc \in UserPC /\ Top.pc # "gWalk" /\ tpl = Top.lvl
    BY <1>2, <1>5 DEF Running, RunsAt, Plain, UserPC
  <1>6. ASSUME NEW pc \in {"gLock", "clUnlink", "ckQueue", "ckRead", "wtNext"}, NEW e, NEW v,
               NEW f, f = F(pc, tpl, e, v)
        PROVE  /\ Placed(f) /\ f.pc \in Plain /\ f.pc # "raised" /\ f.lvl = tpl
               /\ f.pc \notin DispatchPC /\ RunsAt(f, tpl) /\ f.pc # "gWalk"
    <2>1. f.pc = pc /\ f.lvl = tpl
      BY <1>6, FrameFields
    <2>2. f.pc \in Plain /\ f.pc # "raised" /\ f.pc \notin DispatchPC
      BY <2>1 DEF Plain, DispatchPC, ClosePC, CheckPC, WaitPC
    <2>3. Placed(f)
      BY <2>1, PlacedAnywhere DEF SetTimerPC, TimersPC
    <2> QED
      BY <2>1, <2>2, <2>3, PlainRuns
  <1>7. ASSUME NEW e \in Event, UserCreateEvent(e)
        PROVE  Nested'
    BY <1>1, <1>5, <1>7, UserCreateEventMove, ReleaseNested
  <1>8. ASSUME NEW e \in Event, UserSignalEvent(e)
        PROVE  Nested'
    <2>1. Top.pc # "gWalk"
      BY <1>5, <1>8 DEF UserSignalEvent
    <2>2. CASE Keeps(n, n + 1) /\ stack'[n + 1] = Restore(tpl)
      BY <1>1, <2>1, <2>2, ReleaseNested
    <2>3. CASE /\ Keeps(n, n + 2)
               /\ stack'[n + 1] = F("gLock", tpl, e, 0) /\ stack'[n + 2] = Restore(tpl)
      <3>1. PICK f : f = F("gLock", tpl, e, 0)
        OBVIOUS
      <3>2. Placed(f) /\ RunsAt(f, tpl) /\ f.pc # "gWalk"
        BY <1>6, <3>1
      <3>3. Sits(f, Restore(tpl))
        BY <3>2, RestoreSits
      <3>4. Sits(Top, f)
        BY <1>2, <2>1, <3>1, CallSits DEF DispatchPC
      <3> QED
        BY <1>1, <2>3, <3>1, <3>2, <3>3, <3>4, RestoreRuns, NestedPushTwo
    <2> QED
      BY <1>1, <1>8, <2>2, <2>3, UserSignalEventMove
  <1>9. ASSUME NEW e \in Event, UserCheckEvent(e)
        PROVE  Nested'
    <2>1. PICK f : f = CheckCall(e, tpl)
      OBVIOUS
    <2>2. PICK pc \in {"ckQueue", "ckRead"} : f = F(pc, tpl, e, 0)
      BY <2>1 DEF CheckCall
    <2>3. /\ Placed(f) /\ f.pc \in Plain /\ f.pc # "raised" /\ f.lvl = tpl
          /\ f.pc \notin DispatchPC
      BY <1>6, <2>2
    <2> QED
      BY <1>1, <1>5, <1>9, <2>1, <2>3, UserCheckEventMove, CallNested
  <1>10. CASE UserWaitForEvent
    <2>1. PICK f : f = F("wtNext", tpl, NoEvent, 1)
      OBVIOUS
    <2>2. /\ Placed(f) /\ f.pc \in Plain /\ f.pc # "raised" /\ f.lvl = tpl
          /\ f.pc \notin DispatchPC
      BY <1>6, <2>1
    <2> QED
      BY <1>1, <1>5, <1>10, <2>1, <2>2, UserWaitForEventMove, CallNested
  <1>11. ASSUME NEW e \in Event, NEW g, g.pc \in SetTimerPC, g.lvl = tpl, tpl < TimerLockTpl
         PROVE  Placed(g) /\ RunsAt(g, TimerLockTpl)
    BY <1>11 DEF Placed, RunsAt, SetTimerPC, TimersPC, Plain, UserPC, DispatchPC, ClosePC,
       CheckPC, WaitPC
  <1>12. ASSUME NEW e \in Event, NEW Type \in {"TimerCancel", "TimerRelative", "TimerPeriodic"},
                NEW TriggerTime, UserSetTimer(e, Type, TriggerTime)
         PROVE  Nested'
    <2>1. PICK g : g = F(Type, tpl, e, TriggerTime)
      OBVIOUS
    <2>2. /\ Running /\ tpl < TimerLockTpl /\ tpl' = TimerLockTpl
          /\ Keeps(n, n + 1) /\ stack'[n + 1] = g
      BY <1>1, <1>12, <2>1, UserSetTimerMove
    <2>3. g.pc \in SetTimerPC /\ g.lvl = tpl
      BY <2>1, FrameFields DEF SetTimerPC
    <2>4. Sits(Top, g)
      BY <1>2, <1>5, <2>1, <2>2, CallSits DEF DispatchPC
    <2> QED
      BY <1>1, <1>11, <2>2, <2>3, <2>4, NestedPush
  <1>13. ASSUME NEW e \in Event, UserCloseEvent(e)
         PROVE  Nested'
    <2>1. PICK f, g : f = F("clUnlink", tpl, e, 0) /\ g = F("TimerCancel", tpl, e, 0)
      OBVIOUS
    <2>2. /\ Placed(f) /\ f.pc \in Plain /\ f.pc # "raised" /\ f.lvl = tpl
          /\ f.pc \notin DispatchPC /\ RunsAt(f, tpl) /\ f.pc # "gWalk"
      BY <1>6, <2>1
    <2>3. Running /\ tpl < TimerLockTpl
      BY <1>1, <1>13, UserCloseEventMove
    <2>4. CASE tpl' = tpl /\ Keeps(n, n + 1) /\ stack'[n + 1] = f
      BY <1>1, <1>5, <2>2, <2>3, <2>4, CallNested
    <2>5. CASE /\ tpl' = TimerLockTpl /\ Keeps(n, n + 2)
               /\ stack'[n + 1] = f /\ stack'[n + 2] = g
      <3>1. g.pc \in SetTimerPC /\ g.lvl = tpl
        BY <2>1, FrameFields DEF SetTimerPC
      <3>2. Placed(g) /\ RunsAt(g, tpl')
        BY <1>11, <2>3, <2>5, <3>1
      <3>3. Sits(f, g)
        BY <2>1, <2>2, CallSits DEF DispatchPC
      <3>4. Sits(Top, f)
        BY <1>2, <1>5, <2>1, <2>3, CallSits DEF DispatchPC
      <3> QED
        BY <1>1, <2>2, <2>5, <3>2, <3>3, <3>4, NestedPushTwo
    <2> QED
      BY <1>1, <1>13, <2>1, <2>4, <2>5, UserCloseEventMove
  <1>14. ASSUME NEW NewTpl, UserRaiseTpl(NewTpl)
         PROVE  Nested'
    <2>1. PICK f : f = F("raised", NewTpl, Top.ev, Top.val)
      OBVIOUS
    <2>2. Running /\ tpl' = NewTpl /\ Keeps(n, n + 1) /\ stack'[n + 1] = f
      BY <1>1, <1>14, <2>1, UserRaiseTplMove
    <2>3. f.pc = "raised" /\ f.lvl = NewTpl
      BY <2>1, FrameFields
    <2>4. Placed(f) /\ RunsAt(f, tpl')
      BY <2>2, <2>3 DEF Placed, RunsAt, SetTimerPC, TimersPC
    <2>5. Top.pc \in UserPC
      BY <1>5, <2>2
    <2>6. Sits(Top, f)
      BY <2>3, <2>5 DEF Sits, UserPC, DispatchPC, SetTimerPC
    <2> QED
      BY <1>1, <2>2, <2>4, <2>6, NestedPush
  <1> QED
    BY <1>3, <1>4, <1>7, <1>8, <1>9, <1>10, <1>12, <1>13, <1>14 DEF ClientCall

\* Every step preserves the nesting.
LEMMA NestedNext ==
    ASSUME IInv, QueuesHold, Nested, ReadOnce, [Next]_vars
    PROVE  Nested'
  <1>1. CASE Continue
    BY <1>1, GroupNested, RestoreNested, DispatchNested, SetTimerNested, CheckTimersNested,
       CallsNested, ClientNested DEF Continue
  <1>2. CASE ClientCall \/ CoreTimerTick
    BY <1>2, ClientNested
  <1>3. CASE UNCHANGED vars
    BY <1>3 DEF vars, Nested, Top
  <1> QED
    BY <1>1, <1>2, <1>3 DEF Next

LEMMA InitNested ==
    ASSUME Init
    PROVE  QueuesHold /\ Nested
  <1>1. QueuesHold
    <2>1. \A p \in TPL : queue[p] = <<>>
      BY DEF Init
    <2>2. IsInjective(<<>>) /\ \A e : ~Contains(<<>>, e)
      BY DEF IsInjective, Contains
    <2> QED
      BY <2>1, <2>2 DEF QueuesHold
  <1>2. PICK f : f = F("user", TPL_APPLICATION, NoEvent, TPL_APPLICATION)
    OBVIOUS
  <1>3. f.pc = "user" /\ f.lvl = TPL_APPLICATION
    BY <1>2, FrameFields
  <1>4. Placed(f) /\ RunsAt(f, TPL_APPLICATION)
    BY <1>3, PlacedAnywhere, PlainRuns DEF Plain, UserPC, SetTimerPC, TimersPC
  <1>5. stack = <<f>> /\ tpl = TPL_APPLICATION
    BY <1>2 DEF Init
  <1>6. Len(stack) = 1 /\ stack[1] = f /\ Top = f
    BY <1>5 DEF Top
  <1>7. Nested
    BY <1>4, <1>5, <1>6 DEF Nested
  <1> QED
    BY <1>1, <1>7

\* The core keeps its queues and, with one load of gEventPending per round,
\* the nesting of its calls.
LEMMA QueuesInvariance == Spec => []QueuesHold
  <1>1. Init => QueuesHold
    BY InitNested
  <1>2. IInv /\ QueuesHold /\ [Next]_vars => QueuesHold'
    BY QueuesHoldInv
  <1> QED
    BY <1>1, <1>2, Invariance, PTL DEF Spec

LEMMA NestedInvariance ==
    ASSUME ReadOnce
    PROVE  Spec => []Nested
  <1>1. Init => Nested
    BY InitNested
  <1>2. IInv /\ QueuesHold /\ Nested /\ [Next]_vars => Nested'
    BY NestedNext
  <1> QED
    BY <1>1, <1>2, Invariance, QueuesInvariance, PTL DEF Spec

\* Code goes on at the TPL it had: whatever interrupts or calls come between,
\* each function of the core, and client code, goes on at the level it runs at,
\* CoreRestoreTpl never raises, and its ASSERT is not reached.
THEOREM LevelsRestored ==
    ASSUME ReadOnce
    PROVE  Spec => []TplIsRestored
  <1>1. IInv /\ Nested => TplIsRestored
    <2> SUFFICES ASSUME IInv, Nested
                 PROVE  TplIsRestored
      OBVIOUS
    <2>1. RunsAt(Top, tpl) /\ Placed(Top)
      BY Below
    <2>2. Top.pc # "ASSERT"
      BY <2>1 DEF RunsAt
    <2>3. Top.pc \in UserPC \cup DispatchPC \cup {"gLock", "gReturn", "clUnlink",
             "clFree", "ckQueue", "ckRead", "ckClear", "ckReturn", "wtNext"}
           => tpl = Top.lvl
      BY <2>1 DEF RunsAt, Plain, ClosePC, CheckPC, WaitPC
    <2>4. Top.pc \in RestorePC => tpl >= Top.lvl
      <3>1. Top.lvl <= tpl /\ Top.lvl \in TPL /\ tpl \in TPL
        BY <2>2, TopFacts
      <3> QED
        BY <3>1 DEF TPL
    <2>5. Top.pc \in SetTimerPC \cup TimersPC => tpl = TimerLockTpl
      BY <2>1 DEF RunsAt, Placed, Plain
    <2> QED
      BY <2>2, <2>3, <2>4, <2>5 DEF TplIsRestored
  <1> QED
    BY <1>1, Invariance, NestedInvariance, PTL

\* Whatever is on top of a holder of mEfiTimerLock runs at its level or above:
\* neither CoreSetTimer nor another timer check gets there.
LEMMA OneHolder ==
    ASSUME IInv, Nested, ReadOnce, NEW i \in TimerLockHolders, NEW j \in TimerLockHolders, i < j
    PROVE  FALSE
  <1>1. PICK n \in Nat : n = Len(stack)
    BY StackLen
  <1>2. stack \in Seq(GoodFrame) /\ Ordered(stack) /\ stack[1].pc = "user"
    BY DEF IInv, Fits, Shaped
  <1>3. \A k \in 1 .. n : stack[k].lvl \in TPL /\ stack[k].lvl \in Nat /\ Placed(stack[k])
    BY <1>1, <1>2, ElementOfSeq DEF GoodFrame, Frame, TPL, Nested
  <1>4. /\ i \in 1 .. n /\ j \in 1 .. n /\ i + 1 \in 1 .. n /\ i \in 1 .. n - 1
        /\ stack[i].pc \in SetTimerPC \cup {"ctLoop", "ctRearm", "ctInsert"}
        /\ stack[j].pc \in SetTimerPC \cup {"ctLoop", "ctRearm", "ctInsert"}
    BY <1>1 DEF TimerLockHolders
  <1>5. Sits(stack[i], stack[i + 1])
    BY <1>1, <1>4 DEF Nested
  <1>6. TimerLockTpl = 30 /\ TimerLockTpl \in Nat
    BY DEF TimerLockTpl, TPL_HIGH_LEVEL
  <1>7. stack[i + 1].lvl >= TimerLockTpl
    <2>1. CASE stack[i].pc \in SetTimerPC
      BY <1>5, <1>6, <2>1 DEF Sits
    <2>2. CASE stack[i].pc \in TimersPC
      <3>1. stack[i].lvl = TimerLockTpl
        BY <1>3, <1>4, <2>2 DEF Placed
      <3>2. i < i + 1
        BY <1>4
      <3>3. stack[i].lvl <= stack[i + 1].lvl
        BY <1>1, <1>2, <1>4, <3>2 DEF Ordered
      <3> QED
        BY <1>3, <1>4, <1>6, <3>1, <3>3
    <2> QED
      BY <1>4, <2>1, <2>2 DEF TimersPC
  <1>8. ASSUME NEW k \in 1 .. n, i < k
        PROVE  stack[k].lvl >= TimerLockTpl
    <2>1. CASE k = i + 1
      BY <1>7, <2>1
    <2>2. CASE i + 1 < k
      <3>1. stack[i + 1].lvl <= stack[k].lvl
        BY <1>1, <1>2, <1>4, <2>2 DEF Ordered
      <3> QED
        BY <1>3, <1>4, <1>6, <1>7, <3>1
    <2>3. k = i + 1 \/ i + 1 < k
      BY <1>4, <1>8
    <2> QED
      BY <2>1, <2>2, <2>3
  <1>9. CASE stack[j].pc \in SetTimerPC
    <2>1. stack[j].lvl < TimerLockTpl
      BY <1>3, <1>4, <1>9 DEF Placed
    <2> QED
      BY <1>3, <1>4, <1>6, <1>8, <2>1
  <1>10. CASE stack[j].pc \in TimersPC
    <2>1. j \in 2 .. n
      BY <1>4
    <2>2. PICK k \in 1 .. n - 1 : k = j - 1 /\ k + 1 = j
      BY <1>4
    <2>3. stack[k].pc = "dCalled"
      BY <1>1, <1>10, <2>1, <2>2 DEF IInv, Fits, Shaped, Called
    <2>4. k # 1 /\ k # i
      BY <1>2, <1>4, <2>3 DEF SetTimerPC
    <2>5. PICK l \in 1 .. n - 1 : l = k - 1 /\ l + 1 = k
      BY <2>2, <2>4
    <2>6. Sits(stack[l], stack[k]) /\ Sits(stack[k], stack[j])
      BY <1>1, <2>2, <2>5 DEF Nested
    <2>7. stack[l].pc \in RestorePC /\ stack[l].lvl < stack[k].lvl
      BY <2>3, <2>6 DEF Sits, DispatchPC
    <2>8. stack[j].lvl = stack[k].lvl /\ stack[j].lvl = TimerLockTpl
      BY <1>3, <1>4, <1>10, <2>3, <2>6 DEF Sits, Placed, Plain, DispatchPC, TimersPC
    <2>9. l # i
      BY <1>4, <2>7 DEF RestorePC, SetTimerPC
    <2>10. i < l /\ l \in 1 .. n
      BY <1>4, <2>2, <2>4, <2>5, <2>9
    <2>11. stack[l].lvl >= TimerLockTpl
      BY <1>8, <2>10
    <2> QED
      BY <1>3, <1>6, <2>7, <2>8, <2>10, <2>11
  <1> QED
    BY <1>4, <1>9, <1>10 DEF TimersPC

\* mEfiTimerLock is never acquired while it is held: however ticks, calls and
\* notifications nest, one call at most is inside CoreSetTimer or past the
\* start of a timer check.
THEOREM OneTimerLockHolder ==
    ASSUME ReadOnce
    PROVE  Spec => []TimerLockNotReentered
  <1>1. IInv /\ Nested => TimerLockNotReentered
    <2> SUFFICES ASSUME IInv, Nested
                 PROVE  Cardinality(TimerLockHolders) <= 1
      BY DEF TimerLockNotReentered
    <2>1. \A i, j \in TimerLockHolders : i = j
      <3>1. \A i \in TimerLockHolders : i \in Int
        BY DEF TimerLockHolders
      <3>2. \A i, j \in TimerLockHolders : ~(i < j)
        BY OneHolder
      <3> QED
        BY <3>1, <3>2
    <2>2. CASE TimerLockHolders = {}
      BY <2>2, FS_EmptySet
    <2>3. CASE TimerLockHolders # {}
      <3>1. PICK i : TimerLockHolders = {i}
        BY <2>1, <2>3
      <3> QED
        BY <3>1, FS_Singleton
    <2> QED
      BY <2>2, <2>3
  <1> QED
    BY <1>1, Invariance, NestedInvariance, PTL

(***************************************************************************)
(* Most steps neither walk a group nor arm a timer: what they leave alone. *)
(***************************************************************************)

\* Calls about a timer that they have taken off the list.
ArmedPC == {"stArm", "stInsert", "ctRearm", "ctInsert"}

\* Events that have been created, and may have been freed.
Made(e) == state[e] # "none"

\* What a new frame may be, armed ones being among A.
Fresh(f, A) ==
    /\ f.pc # "gWalk" /\ (f.pc \in ArmedPC => f.pc \in A)
    /\ f.pc \in SetTimerPC \cup ArmedPC \cup ClosePC => Made(f.ev)

\* A step that keeps the frames up to k, and changes or adds those up to n.
Change(k, n, A) ==
    /\ Keeps(k, n) /\ n >= 1
    /\ \A i \in k + 1 .. n : Fresh(stack'[i], A)
    /\ \A i \in k + 1 .. Len(stack) : stack[i].pc # "gLock"
    /\ Top.pc # "gWalk"

LEMMA ChangeBecome ==
    ASSUME IInv, NEW n, NEW A, n = Len(stack), Keeps(n - 1, n), Fresh(stack'[n], A),
           Top.pc # "gLock", Top.pc # "gWalk"
    PROVE  Change(n - 1, n, A)
  <1>1. n \in Nat /\ n >= 1 /\ Top = stack[n]
    BY StackLen
  <1>2. \A i \in (n - 1) + 1 .. n : i = n
    BY <1>1
  <1> QED
    BY <1>1, <1>2 DEF Change

LEMMA ChangePush ==
    ASSUME IInv, NEW n, NEW A, n = Len(stack), Keeps(n, n + 1), Fresh(stack'[n + 1], A),
           Top.pc # "gWalk"
    PROVE  Change(n, n + 1, A)
  <1>1. n \in Nat /\ n + 1 >= 1
    BY StackLen
  <1>2. \A i \in n + 1 .. n + 1 : i = n + 1
    BY <1>1
  <1>3. \A i \in n + 1 .. n : FALSE
    BY <1>1
  <1> QED
    BY <1>1, <1>2, <1>3 DEF Change

LEMMA ChangePushTwo ==
    ASSUME IInv, NEW n, NEW A, n = Len(stack), Keeps(n, n + 2), Fresh(stack'[n + 1], A),
           Fresh(stack'[n + 2], A), Top.pc # "gWalk"
    PROVE  Change(n, n + 2, A)
  <1>1. n \in Nat /\ n + 2 >= 1
    BY StackLen
  <1>2. \A i \in n + 1 .. n + 2 : i = n + 1 \/ i = n + 2
    BY <1>1
  <1>3. \A i \in n + 1 .. n : FALSE
    BY <1>1
  <1> QED
    BY <1>1, <1>2, <1>3 DEF Change

LEMMA ChangeBecomePush ==
    ASSUME IInv, NEW n, NEW A, n = Len(stack), Keeps(n - 1, n + 1), Fresh(stack'[n], A),
           Fresh(stack'[n + 1], A), Top.pc # "gLock", Top.pc # "gWalk"
    PROVE  Change(n - 1, n + 1, A)
  <1>1. n \in Nat /\ n + 1 >= 1 /\ Top = stack[n]
    BY StackLen
  <1>2. \A i \in (n - 1) + 1 .. n + 1 : i = n \/ i = n + 1
    BY <1>1
  <1>3. \A i \in (n - 1) + 1 .. n : i = n
    BY <1>1
  <1> QED
    BY <1>1, <1>2, <1>3 DEF Change

LEMMA ChangeBecomePushTwo ==
    ASSUME IInv, NEW n, NEW A, n = Len(stack), Keeps(n - 1, n + 2), Fresh(stack'[n], A),
           Fresh(stack'[n + 1], A), Fresh(stack'[n + 2], A), Top.pc # "gLock", Top.pc # "gWalk"
    PROVE  Change(n - 1, n + 2, A)
  <1>1. n \in Nat /\ n + 2 >= 1 /\ Top = stack[n]
    BY StackLen
  <1>2. \A i \in (n - 1) + 1 .. n + 2 : i = n \/ i = n + 1 \/ i = n + 2
    BY <1>1
  <1>3. \A i \in (n - 1) + 1 .. n : i = n
    BY <1>1
  <1> QED
    BY <1>1, <1>2, <1>3 DEF Change

LEMMA ChangePop ==
    ASSUME IInv, NEW n, NEW A, n = Len(stack), n >= 2, Keeps(n - 1, n - 1),
           Top.pc # "gLock", Top.pc # "gWalk"
    PROVE  Change(n - 1, n - 1, A)
  <1>1. n \in Nat /\ n - 1 >= 1 /\ Top = stack[n]
    BY StackLen
  <1>2. \A i \in (n - 1) + 1 .. n - 1 : FALSE
    BY <1>1
  <1>3. \A i \in (n - 1) + 1 .. n : i = n
    BY <1>1
  <1> QED
    BY <1>1, <1>2, <1>3 DEF Change

LEMMA ChangePopTwo ==
    ASSUME IInv, NEW n, NEW A, n = Len(stack), n >= 3, Keeps(n - 2, n - 2),
           Top.pc # "gLock", Top.pc # "gWalk", stack[n - 1].pc # "gLock"
    PROVE  Change(n - 2, n - 2, A)
  <1>1. n \in Nat /\ n - 2 >= 1 /\ Top = stack[n]
    BY StackLen
  <1>2. \A i \in (n - 2) + 1 .. n - 2 : FALSE
    BY <1>1
  <1>3. \A i \in (n - 2) + 1 .. n : i = n \/ i = n - 1
    BY <1>1
  <1> QED
    BY <1>1, <1>2, <1>3 DEF Change

LEMMA ChangeReturn ==
    ASSUME IInv, NEW n, NEW A, n = Len(stack), n >= 3, Keeps(n - 2, n - 1), Fresh(stack'[n - 1], A),
           Top.pc # "gLock", Top.pc # "gWalk", stack[n - 1].pc # "gLock"
    PROVE  Change(n - 2, n - 1, A)
  <1>1. n \in Nat /\ n - 1 >= 1 /\ Top = stack[n]
    BY StackLen
  <1>2. \A i \in (n - 2) + 1 .. n - 1 : i = n - 1
    BY <1>1
  <1>3. \A i \in (n - 2) + 1 .. n : i = n \/ i = n - 1
    BY <1>1
  <1> QED
    BY <1>1, <1>2, <1>3 DEF Change

\* Frames that are fresh whatever they are about, and those about an event.
UsualPC ==
    UserPC \cup RestorePC \cup DispatchPC \cup {"gLock", "gReturn", "ASSERT", "ctStart", "ctLoop"}
        \cup CheckPC \cup WaitPC

MadePC == {"TimerCancel", "TimerRelative", "TimerPeriodic"} \cup ClosePC

LEMMA FreshFrames ==
    ASSUME NEW l, NEW e, NEW v, NEW A
    PROVE  /\ Fresh(Restore(l), A)
           /\ \A pc \in UsualPC : Fresh(F(pc, l, e, v), A)
           /\ \A pc \in MadePC : Made(e) => Fresh(F(pc, l, e, v), A)
  BY FrameFields DEF Fresh, Restore, ArmedPC, SetTimerPC, UserPC, RestorePC, DispatchPC, ClosePC,
     CheckPC, WaitPC, UsualPC, MadePC

\* Nothing is called, and nothing interrupts, while a group is being walked.
WalkOnTop ==
    /\ \A i \in 1 .. Len(stack) - 1 : stack[i].pc # "gWalk"
    /\ Top.pc = "gWalk" => tpl = TPL_HIGH_LEVEL

\* Calls of CoreSetTimer, CoreCheckTimers and CoreCloseEvent are about events
\* that exist.
MadeFrames ==
    \A i \in 1 .. Len(stack) :
        stack[i].pc \in SetTimerPC \cup ArmedPC \cup ClosePC => Made(stack[i].ev)

LEMMA RestorePickShape ==
    ASSUME IInv, NEW n, n = Len(stack), RestorePick
    PROVE  /\ Top.pc = "rPick"
           /\ \/ Keeps(n - 1, n) /\ stack'[n] = F("ASSERT", Top.lvl, Top.ev, Top.val)
              \/ /\ Keeps(n - 1, n + 1)
                 /\ stack'[n] = F("rCheck", Top.lvl, Top.ev, 0)
                 /\ \E p : stack'[n + 1] = F("dLoop", p, NoEvent, 0)
  <1>1. Top.pc = "rPick"
    BY DEF RestorePick, At
  <1>2. \/ stack' = Become(F("ASSERT", Top.lvl, Top.ev, Top.val))
        \/ \E p : stack' = Append(Become(F("rCheck", Top.lvl, Top.ev, 0)),
                                  F("dLoop", p, NoEvent, 0))
    BY TopUpdates DEF RestorePick, Goto
  <1> QED
    BY <1>1, <1>2, BecomeKeeps, BecomePushKeeps

\* The steps that neither walk a group nor arm a timer.
OtherStep ==
    \/ ClientCall \/ CoreTimerTick \/ UserRestoreTpl \/ NotifyReturn
    \/ GroupReturn \/ RestoreCheck \/ RestorePick \/ RestoreSet
    \/ DispatchTake \/ DispatchNotify \/ DispatchDone
    \/ CheckTimersStart \/ CheckTimersDone
    \/ CloseUnlink \/ CloseFree
    \/ CheckQueue \/ CheckRead \/ CheckClear \/ CheckReturn \/ WaitCheck \/ WaitIdle

LEMMA OtherChange ==
    ASSUME IInv, WalkOnTop, MadeFrames, OtherStep
    PROVE  \E k, m : Change(k, m, {})
  <1>1. PICK n : n = Len(stack)
    OBVIOUS
  <1>2. n \in Nat /\ n >= 1 /\ Top = stack[n]
    BY <1>1, StackLen
  <1>3. Top.pc # "user" => n >= 2
    BY <1>1, TopFacts
  <1>4. /\ {"raised", "user", "rCheck", "rPick", "rSet", "dLoop", "dNotify", "dCalled", "gLock",
            "gReturn", "ASSERT", "ctStart", "ctLoop", "ckQueue", "ckRead",
            "ckClear", "ckReturn", "wtNext"} \subseteq UsualPC
        /\ {"TimerCancel", "TimerRelative", "TimerPeriodic", "clUnlink", "clFree"}
              \subseteq MadePC
    BY DEF UserPC, RestorePC, DispatchPC, ClosePC, CheckPC, WaitPC, UsualPC, MadePC
  <1>5. ASSUME Running
        PROVE  Top.pc # "gWalk"
    BY <1>5 DEF Running, UserPC
  <1>6. CASE UserWaitForEvent
    BY <1>1, <1>4, <1>5, <1>6, UserWaitForEventMove, FreshFrames, ChangePush
  <1>7. ASSUME NEW e \in Event, UserCreateEvent(e)
        PROVE  \E k, m : Change(k, m, {})
    BY <1>1, <1>5, <1>7, UserCreateEventMove, FreshFrames, ChangePush
  <1>8. ASSUME NEW e \in Event, UserSignalEvent(e)
        PROVE  \E k, m : Change(k, m, {})
    <2>1. Fresh(F("gLock", tpl, e, 0), {}) /\ Fresh(Restore(tpl), {})
      BY <1>4, FreshFrames
    <2> QED
      BY <1>1, <1>5, <1>8, <2>1, UserSignalEventMove, ChangePush, ChangePushTwo
  <1>9. \A e, t : Fresh(CheckCall(e, t), {})
    BY <1>4, FreshFrames DEF CheckCall
  <1>10. ASSUME NEW e \in Event, UserCheckEvent(e)
         PROVE  \E k, m : Change(k, m, {})
    BY <1>1, <1>5, <1>9, <1>10, UserCheckEventMove, ChangePush
  <1>11. ASSUME NEW e \in Event, UserCloseEvent(e)
         PROVE  \E k, m : Change(k, m, {})
    <2>1. Made(e)
      BY <1>11 DEF UserCloseEvent, Usable, Made
    <2>2. Fresh(F("clUnlink", tpl, e, 0), {}) /\ Fresh(F("TimerCancel", tpl, e, 0), {})
      BY <1>4, <2>1, FreshFrames
    <2> QED
      BY <1>1, <1>5, <1>11, <2>2, UserCloseEventMove, ChangePush, ChangePushTwo
  <1>12. ASSUME NEW e \in Event, NEW Type \in {"TimerCancel", "TimerRelative", "TimerPeriodic"},
                NEW TriggerTime, UserSetTimer(e, Type, TriggerTime)
         PROVE  \E k, m : Change(k, m, {})
    <2>1. Made(e)
      <3>1. CASE Usable(e)
        BY <3>1 DEF Usable, Made
      <3>2. CASE Closing(e)
        BY <3>2 DEF Closing, MadeFrames
      <3> QED
        BY <1>12, <3>1, <3>2 DEF UserSetTimer
    <2>2. Fresh(F(Type, tpl, e, TriggerTime), {})
      BY <1>4, <2>1, FreshFrames
    <2> QED
      BY <1>1, <1>5, <1>12, <2>2, UserSetTimerMove, ChangePush
  <1>13. ASSUME NEW NewTpl, UserRaiseTpl(NewTpl)
         PROVE  \E k, m : Change(k, m, {})
    BY <1>1, <1>4, <1>5, <1>13, UserRaiseTplMove, FreshFrames, ChangePush
  <1>14. CASE ClientCall
    BY <1>6, <1>7, <1>8, <1>10, <1>11, <1>12, <1>13, <1>14 DEF ClientCall
  <1>15. CASE CoreTimerTick
    <2>1. Top.pc # "gWalk"
      BY <1>1, <1>15, CoreTimerTickMove DEF WalkOnTop
    <2> QED
      BY <1>1, <1>15, <2>1, CoreTimerTickMove, FreshFrames, ChangePush
  <1>16. CASE UserRestoreTpl \/ GroupReturn \/ DispatchDone
    <2>1. \E l : stack'[n] = Restore(l)
      BY <1>1, <1>16, UserRestoreTplMove, GroupReturnMove, DispatchDoneMove
    <2>2. Fresh(stack'[n], {})
      BY <2>1, FreshFrames
    <2> QED
      BY <1>1, <1>16, <2>2, UserRestoreTplMove, GroupReturnMove, DispatchDoneMove, ChangeBecome
  <1>17. CASE NotifyReturn \/ CheckTimersDone
    <2>1. Fresh(stack'[n - 1], {})
      BY <1>1, <1>4, <1>17, NotifyReturnMove, CheckTimersDoneMove, FreshFrames
    <2> QED
      BY <1>1, <1>17, <2>1, NotifyReturnMove, CheckTimersDoneMove, ChangeReturn
  <1>18. CASE RestoreCheck \/ CheckRead \/ CheckTimersStart
    <2>1. Fresh(stack'[n], {})
      BY <1>1, <1>4, <1>18, RestoreCheckMove, CheckReadMove, CheckTimersStartMove, FreshFrames
    <2> QED
      BY <1>1, <1>18, <2>1, RestoreCheckMove, CheckReadMove, CheckTimersStartMove, ChangeBecome
  <1>19. CASE RestorePick
    <2>1. CASE Keeps(n - 1, n) /\ stack'[n] = F("ASSERT", Top.lvl, Top.ev, Top.val)
      <3>1. Fresh(stack'[n], {})
        BY <1>4, <2>1, FreshFrames
      <3> QED
        BY <1>1, <1>19, <2>1, <3>1, RestorePickShape, ChangeBecome
    <2>2. ASSUME Keeps(n - 1, n + 1), stack'[n] = F("rCheck", Top.lvl, Top.ev, 0),
                 NEW p, stack'[n + 1] = F("dLoop", p, NoEvent, 0)
          PROVE  \E k, m : Change(k, m, {})
      <3>1. Fresh(stack'[n], {}) /\ Fresh(stack'[n + 1], {})
        BY <1>4, <2>2, FreshFrames
      <3> QED
        BY <1>1, <1>19, <2>2, <3>1, RestorePickShape, ChangeBecomePush
    <2> QED
      BY <1>1, <1>19, <2>1, <2>2, RestorePickShape
  <1>20. CASE RestoreSet \/ CloseFree
    <2>1. Top.pc \in {"rSet", "clFree"} /\ Keeps(n - 1, n - 1)
      BY <1>1, <1>20, RestoreSetMove, CloseFreeMove
    <2> QED
      BY <1>1, <1>3, <2>1, ChangePop
  <1>21. CASE DispatchTake
    <2>1. Fresh(stack'[n], {}) /\ Fresh(stack'[n + 1], {})
      BY <1>1, <1>4, <1>21, DispatchTakeMove, FreshFrames
    <2> QED
      BY <1>1, <1>21, <2>1, DispatchTakeMove, ChangeBecomePush
  <1>22. CASE DispatchNotify
    <2>1. Fresh(stack'[n], {}) /\ Fresh(stack'[n + 1], {})
      BY <1>1, <1>4, <1>22, DispatchNotifyMove, FreshFrames
    <2> QED
      BY <1>1, <1>22, <2>1, DispatchNotifyMove, ChangeBecomePush
  <1>23. CASE CloseUnlink
    <2>1. Made(Top.ev)
      <3>1. Top.pc \in ClosePC
        BY <1>1, <1>23, CloseUnlinkMove DEF ClosePC
      <3> QED
        BY <1>1, <1>2, <3>1 DEF MadeFrames
    <2>2. Fresh(stack'[n], {}) /\ Fresh(stack'[n + 1], {})
      BY <1>1, <1>4, <1>23, <2>1, CloseUnlinkMove, FreshFrames
    <2> QED
      BY <1>1, <1>23, <2>2, CloseUnlinkMove, ChangeBecomePush
  <1>24. CASE CheckQueue \/ CheckClear
    <2>1. Fresh(stack'[n], {}) /\ Fresh(stack'[n + 1], {})
      BY <1>1, <1>4, <1>24, CheckQueueMove, CheckClearMove, FreshFrames
    <2> QED
      BY <1>1, <1>24, <2>1, CheckQueueMove, CheckClearMove, ChangeBecomePush
  <1>25. CASE CheckReturn
    <2>2. PICK c : c = stack[n - 1]
      OBVIOUS
    <2>3. Fresh(F("wtNext", c.lvl, c.ev, c.val + 1), {})
      BY <1>4, FreshFrames
    <2>4. Top.pc = "ckReturn" /\ n >= 2
      BY <1>1, <1>25, CheckReturnMove
    <2>5. CASE Keeps(n - 1, n - 1)
      BY <1>1, <2>4, <2>5, ChangePop
    <2>6. CASE n >= 3 /\ c.pc = "wtNext" /\ Keeps(n - 2, n - 2)
      BY <1>1, <2>2, <2>4, <2>6, ChangePopTwo
    <2>7. CASE /\ n >= 3 /\ c.pc = "wtNext" /\ Keeps(n - 2, n - 1)
               /\ stack'[n - 1] = F("wtNext", c.lvl, c.ev, c.val + 1)
      BY <1>1, <2>2, <2>3, <2>4, <2>7, ChangeReturn
    <2> QED
      BY <1>1, <1>25, <2>2, <2>5, <2>6, <2>7, CheckReturnMove
  <1>26. CASE WaitCheck
    BY <1>1, <1>9, <1>26, WaitCheckMove, ChangePush
  <1>27. CASE WaitIdle
    <2>1. /\ Fresh(F("wtNext", Top.lvl, Top.ev, 1), {}) /\ Fresh(Restore(tpl), {})
          /\ Fresh(F("gLock", tpl, gIdleLoopEvent, 0), {})
      BY <1>4, FreshFrames
    <2> QED
      BY <1>1, <1>27, <2>1, WaitIdleMove, ChangeBecomePush, ChangeBecomePushTwo
  <1> QED
    BY <1>14, <1>15, <1>16, <1>17, <1>18, <1>19, <1>20, <1>21, <1>22, <1>23, <1>24, <1>25,
       <1>26, <1>27 DEF OtherStep

\* Events on the timer list, and those that are signalled, exist.
MadeTimers == \A e \in Event : Contains(timers, e) => Made(e)

\* The steps about timers.
TimersStep ==
    \/ TimerRemove \/ TimerArm \/ TimerInsert
    \/ CheckTimersFire \/ CheckTimersRearm \/ CheckTimersInsert \/ CheckTimersOnce

LEMMA TimersChange ==
    ASSUME IInv, MadeFrames, MadeTimers, TimersStep
    PROVE  \E k, m : Change(k, m, ArmedPC)
  <1>1. PICK n : n = Len(stack)
    OBVIOUS
  <1>2. n \in Nat /\ n >= 1 /\ Top = stack[n]
    BY <1>1, StackLen
  <1>3. ASSUME NEW pc \in ArmedPC, NEW e, Made(e), NEW l, NEW v
        PROVE  Fresh(F(pc, l, e, v), ArmedPC)
    BY <1>3, FrameFields DEF Fresh, ArmedPC
  <1>4. \A l, e, v : Fresh(Restore(l), ArmedPC) /\ Fresh(F("ctLoop", l, e, v), ArmedPC)
    BY FreshFrames DEF UsualPC
  <1>5. {"stArm", "stInsert", "ctRearm", "ctInsert"} \subseteq ArmedPC
    BY DEF ArmedPC
  <1>6. CASE CheckTimersFire
    <2>1. PICK e : e = Head(timers)
      OBVIOUS
    <2>2. e \in Event /\ Contains(timers, e)
      <3>1. timers \in Seq(Event) /\ timers # <<>>
        BY <1>6 DEF CheckTimersFire, CheckTimersExpired, IInv, DataOK
      <3>2. 1 \in 1 .. Len(timers) /\ timers[1] = e
        BY <2>1, <3>1, EmptySeq, LenProperties, HeadTailProperties
      <3> QED
        BY <3>1, <3>2, ListOnce, ElementOfSeq
    <2>3. Fresh(F("ctRearm", Top.lvl, e, Top.val), ArmedPC)
      BY <1>3, <1>5, <2>2 DEF MadeTimers
    <2>4. Fresh(F("gLock", tpl, e, 0), ArmedPC)
      BY FreshFrames DEF UsualPC
    <2>5. Top.pc = "ctLoop" /\ Fresh(stack'[n], ArmedPC)
      BY <1>1, <1>6, <2>1, <2>3, CheckTimersFireMove
    <2>6. CASE Keeps(n - 1, n + 1) /\ stack'[n + 1] = Restore(tpl)
      <3>1. Fresh(stack'[n + 1], ArmedPC)
        BY <1>4, <2>6
      <3> QED
        BY <1>1, <2>5, <2>6, <3>1, ChangeBecomePush
    <2>7. CASE /\ Keeps(n - 1, n + 2) /\ stack'[n + 1] = F("gLock", tpl, e, 0)
               /\ stack'[n + 2] = Restore(tpl)
      <3>1. Fresh(stack'[n + 1], ArmedPC) /\ Fresh(stack'[n + 2], ArmedPC)
        BY <1>4, <2>4, <2>7
      <3> QED
        BY <1>1, <2>5, <2>7, <3>1, ChangeBecomePushTwo
    <2> QED
      BY <1>1, <1>6, <2>1, <2>6, <2>7, CheckTimersFireMove
  <1>7. CASE \/ TimerRemove \/ TimerArm \/ TimerInsert
             \/ CheckTimersRearm \/ CheckTimersInsert \/ CheckTimersOnce
    <2>1. /\ Keeps(n - 1, n) /\ Top.pc # "gLock" /\ Top.pc # "gWalk"
          /\ Top.pc \in SetTimerPC \cup ArmedPC
      BY <1>1, <1>7, TimerRemoveMove, TimerArmMove, TimerInsertMove, CheckTimersRearmMove,
         CheckTimersInsertMove, CheckTimersOnceMove DEF SetTimerPC, ArmedPC
    <2>2. Made(Top.ev)
      BY <1>1, <1>2, <2>1 DEF MadeFrames
    <2>3. \/ \E l : stack'[n] = Restore(l)
          \/ \E l, e, v : stack'[n] = F("ctLoop", l, e, v)
          \/ \E pc \in ArmedPC : \E l, v : stack'[n] = F(pc, l, Top.ev, v)
      BY <1>1, <1>5, <1>7, TimerRemoveMove, TimerArmMove, TimerInsertMove, CheckTimersRearmMove,
         CheckTimersInsertMove, CheckTimersOnceMove
    <2>4. Fresh(stack'[n], ArmedPC)
      BY <1>3, <1>4, <2>2, <2>3
    <2> QED
      BY <1>1, <2>1, <2>4, ChangeBecome
  <1> QED
    BY <1>6, <1>7 DEF TimersStep

\* Every step but those that walk a group.
LEMMA AnyChange ==
    ASSUME IInv, WalkOnTop, MadeFrames, MadeTimers, Next
    PROVE  \/ \E k, m : Change(k, m, ArmedPC)
           \/ GroupLock \/ GroupWalk \/ GroupRelease
  <1>1. ASSUME NEW k, NEW m, Change(k, m, {})
        PROVE  Change(k, m, ArmedPC)
    BY <1>1 DEF Change, Fresh
  <1>2. OtherStep \/ TimersStep \/ GroupLock \/ GroupWalk \/ GroupRelease
    BY DEF Next, Continue, OtherStep, TimersStep
  <1> QED
    BY <1>1, <1>2, OtherChange, TimersChange

\* No event comes into being but by CoreCreateEvent, none ends but by
\* CoreCloseEvent,
LEMMA StateChange ==
    ASSUME [Next]_vars
    PROVE  state' = state \/ CloseFree \/ \E x \in Event : UserCreateEvent(x)
  <1>1. CASE ClientCall
    BY <1>1 DEF ClientCall, UserSignalEvent, UserCheckEvent, UserCloseEvent, UserSetTimer,
       UserWaitForEvent, UserRaiseTpl, eventVars
  <1>2. CASE CoreTimerTick \/ UNCHANGED vars
    BY <1>2 DEF CoreTimerTick, vars, eventVars
  <1>3. CASE GroupLock \/ GroupWalk \/ GroupRelease \/ GroupReturn \/ RestoreCheck
             \/ RestorePick \/ RestoreSet \/ DispatchTake \/ DispatchNotify \/ DispatchDone
    BY <1>3 DEF GroupLock, GroupWalk, GroupRelease, GroupReturn, RestoreCheck, RestorePick,
       RestoreSet, DispatchTake, DispatchNotify, DispatchDone, eventVars
  <1>4. CASE TimersStep \/ CheckTimersStart \/ CheckTimersDone
    BY <1>4 DEF TimersStep, TimerRemove, TimerArm, TimerInsert, CheckTimersFire,
       CheckTimersRearm, CheckTimersInsert, CheckTimersOnce, CheckTimersStart,
       CheckTimersDone, eventVars
  <1>5. CASE CloseUnlink \/ CheckQueue \/ CheckRead \/ CheckClear \/ CheckReturn
             \/ WaitCheck \/ WaitIdle \/ UserRestoreTpl \/ NotifyReturn
    BY <1>5 DEF CloseUnlink, CheckQueue, CheckRead, CheckClear, CheckReturn, WaitCheck,
       WaitIdle, UserRestoreTpl, NotifyReturn, eventVars
  <1> QED
    BY <1>1, <1>2, <1>3, <1>4, <1>5 DEF Next, Continue, TimersStep

\* and none is forgotten.
LEMMA MadeStays ==
    ASSUME IInv, [Next]_vars, NEW e \in Event, Made(e)
    PROVE  Made(e)'
  <1>1. CASE state' = state
    BY <1>1 DEF Made
  <1>2. ASSUME NEW x \in Event, NEW v \in {"open", "freed"}, state' = [state EXCEPT ![x] = v]
        PROVE  Made(e)'
    BY <1>2 DEF Made, IInv, DataOK
  <1>3. CASE CloseFree
    <2>1. Top.ev \in Event
      BY <1>3, TopFacts DEF CloseFree, At, GoodFrame, EventPC, ClosePC
    <2> QED
      BY <1>2, <1>3, <2>1 DEF CloseFree
  <1>4. CASE \E x \in Event : UserCreateEvent(x)
    BY <1>2, <1>4 DEF UserCreateEvent
  <1> QED
    BY <1>1, <1>3, <1>4, StateChange

\* What such a step preserves.
LEMMA ChangeFrames ==
    ASSUME IInv, IInv', WalkOnTop, MadeFrames, NEW k, NEW m, NEW A, Change(k, m, A),
           \A e \in Event : Made(e) => Made(e)'
    PROVE  /\ WalkOnTop' /\ MadeFrames'
           /\ Top'.pc # "gWalk"
           /\ \A e : (\E j \in 1 .. Len(stack) : stack[j].pc = "gLock" /\ stack[j].ev = e)
                => \E j \in 1 .. Len(stack') : stack'[j].pc = "gLock" /\ stack'[j].ev = e
  <1>1. PICK n \in Nat : n = Len(stack) /\ n >= 1 /\ Top = stack[n]
    BY StackLen
  <1>2. k \in Nat /\ m \in Nat /\ k <= n /\ k <= m /\ Len(stack') = m /\ m >= 1
    BY <1>1 DEF Change, Keeps
  <1>3. \A i \in 1 .. k : stack'[i] = stack[i] /\ i \in 1 .. n
    BY <1>1, <1>2 DEF Change, Keeps
  <1>4. \A i \in 1 .. m : i \in 1 .. k \/ i \in k + 1 .. m
    BY <1>2
  <1>5. \A i \in 1 .. n : stack[i].pc # "gWalk"
    <2>1. \A i \in 1 .. n : i = n \/ i \in 1 .. n - 1
      BY <1>1
    <2> QED
      BY <1>1, <2>1 DEF WalkOnTop, Change
  <1>6. \A i \in 1 .. m : stack'[i].pc # "gWalk"
    BY <1>3, <1>4, <1>5 DEF Change, Fresh
  <1>7. WalkOnTop' /\ Top'.pc # "gWalk"
    BY <1>2, <1>6 DEF WalkOnTop, Top
  <1>8. ASSUME NEW i \in 1 .. m, stack'[i].pc \in SetTimerPC \cup ArmedPC \cup ClosePC
        PROVE  Made(stack'[i].ev) /\ stack'[i].ev \in Event
    <2>1. i \in 1 .. k => Made(stack'[i].ev)
      BY <1>1, <1>3, <1>8 DEF MadeFrames
    <2>2. i \in k + 1 .. m => Made(stack'[i].ev)
      BY <1>8 DEF Change, Fresh
    <2>3. stack'[i] \in GoodFrame
      <3>1. stack' \in Seq(GoodFrame)
        BY DEF IInv, Fits, Shaped
      <3> QED
        BY <1>2, <3>1, ElementOfSeq
    <2>4. stack'[i].ev \in Event
      BY <1>8, <2>3 DEF GoodFrame, EventPC, ArmedPC, TimersPC, SetTimerPC
    <2> QED
      BY <1>4, <2>1, <2>2, <2>4
  <1>9. MadeFrames'
    BY <1>2, <1>8 DEF MadeFrames
  <1>10. ASSUME NEW e, NEW j \in 1 .. n, stack[j].pc = "gLock", stack[j].ev = e
         PROVE  \E i \in 1 .. m : stack'[i].pc = "gLock" /\ stack'[i].ev = e
    <2>1. j \in 1 .. k \/ j \in k + 1 .. n
      BY <1>2
    <2>2. j \in 1 .. k
      BY <1>1, <1>10, <2>1 DEF Change
    <2> QED
      BY <1>2, <1>3, <1>10, <2>2
  <1> QED
    BY <1>1, <1>2, <1>7, <1>9, <1>10


(***************************************************************************)
(* The event core implements the notification scheduler.  A dispatch frame *)
(* that has taken an event is the notification running at its level; all   *)
(* others leave the scheduler alone.                                       *)
(***************************************************************************)
Notifying(f) == f.pc \in {"dNotify", "dCalled"}

\* Event e is being notified at level p.
On(p, e) ==
    \E i \in 1 .. Len(stack) :
        Notifying(stack[i]) /\ stack[i].lvl = p /\ stack[i].ev = e

\* What the refinement shows of the stack.
Shown ==
    /\ RunningAt = [p \in TPL |-> RunningAt[p]]
    /\ \A p \in TPL : /\ RunningAt[p] \in Event \cup {NoEvent}
                      /\ \A e \in Event : RunningAt[p] = e <=> On(p, e)

\* The notifications in progress stay what they are.
SameOn == \A p, e : On(p, e)' <=> On(p, e)

LEMMA ShownIs ==
    ASSUME IInv, ReadOnce
    PROVE  Shown
  <1>1. stack \in Seq(GoodFrame) /\ Ordered(stack)
    BY TopFacts DEF Shaped
  <1>2. NoEvent \notin Event
    BY EventAssumption
  <1>3. ASSUME NEW i \in 1 .. Len(stack)
        PROVE  /\ Notifying(stack[i])
                    <=> stack[i].pc \in DispatchPC /\ stack[i].ev # NoEvent
               /\ Notifying(stack[i]) => stack[i].ev \in Event
    <2>1. stack[i] \in GoodFrame
      BY <1>1, ElementOfSeq
    <2> QED
      BY <1>2, <2>1 DEF GoodFrame, Notifying, DispatchPC, EventPC
  <1>4. ASSUME NEW p \in TPL
        PROVE  /\ RunningAt[p] \in Event \cup {NoEvent}
               /\ \A e \in Event : RunningAt[p] = e <=> On(p, e)
    <2> DEFINE Is(i) == i \in Dispatches /\ stack[i].lvl = p /\ stack[i].ev # NoEvent
    <2>1. \A i : Is(i) <=> i \in 1 .. Len(stack) /\ Notifying(stack[i]) /\ stack[i].lvl = p
      BY <1>3 DEF Dispatches
    <2>2. CASE \E i : Is(i)
      <3>1. PICK c : c = CHOOSE i \in Dispatches : stack[i].lvl = p /\ stack[i].ev # NoEvent
        OBVIOUS
      <3>2. Is(c)
        BY <2>2, <3>1
      <3>3. RunningAt[p] = stack[c].ev
        BY <2>2, <3>1 DEF RunningAt
      <3>4. ASSUME NEW i, Is(i)
            PROVE  i = c
        <4>1. /\ i \in 1 .. Len(stack) /\ c \in 1 .. Len(stack) /\ stack[i].lvl = stack[c].lvl
              /\ stack[i].pc \in DispatchPC /\ stack[c].pc \in DispatchPC
          BY <1>3, <2>1, <3>2, <3>4
        <4>2. stack[c].lvl \in TPL
          BY <3>2
        <4>3. ~(stack[c].lvl < stack[c].lvl)
          BY <4>2, Levels DEF TPL
        <4>4. i < c \/ c < i \/ i = c
          BY <1>1, <4>1, LenProperties
        <4> QED
          BY <1>1, <4>1, <4>3, <4>4 DEF Ordered
      <3> HIDE DEF Is
      <3>5. \A e \in Event : On(p, e) <=> stack[c].ev = e
        BY <2>1, <3>2, <3>4 DEF On
      <3> QED
        BY <1>3, <2>1, <3>2, <3>3, <3>5
    <2>3. CASE ~\E i : Is(i)
      <3>1. RunningAt[p] = NoEvent
        BY <2>3 DEF RunningAt
      <3>2. \A e : ~On(p, e)
        BY <2>1, <2>3 DEF On
      <3> QED
        BY <1>2, <3>1, <3>2
    <2> QED
      BY <2>2, <2>3
  <1>5. RunningAt = [p \in TPL |-> RunningAt[p]]
    BY DEF RunningAt
  <1> QED
    BY <1>4, <1>5 DEF Shown

\* A step that changes or drops no frame that notifies, and adds none.
Calm(k, n) ==
    /\ Keeps(k, n)
    /\ \A i \in k + 1 .. n : ~Notifying(stack'[i])
    /\ \A i \in k + 1 .. Len(stack) : ~Notifying(stack[i])

LEMMA CalmSame ==
    ASSUME IInv, NEW k, NEW m, Calm(k, m)
    PROVE  SameOn
  <1>1. PICK n \in Nat : n = Len(stack)
    BY StackLen
  <1>2. k \in Nat /\ m \in Nat /\ k <= n /\ k <= m /\ Len(stack') = m
    BY <1>1 DEF Calm, Keeps
  <1>3. \A i \in 1 .. k : stack'[i] = stack[i] /\ i \in 1 .. n /\ i \in 1 .. m
    BY <1>1, <1>2 DEF Calm, Keeps
  <1>4. \A i \in 1 .. m : Notifying(stack'[i]) => i \in 1 .. k
    <2>1. \A i \in 1 .. m : i \in 1 .. k \/ i \in k + 1 .. m
      BY <1>2
    <2> QED
      BY <2>1 DEF Calm
  <1>5. \A i \in 1 .. n : Notifying(stack[i]) => i \in 1 .. k
    <2>1. \A i \in 1 .. n : i \in 1 .. k \/ i \in k + 1 .. n
      BY <1>2
    <2> QED
      BY <1>1, <2>1 DEF Calm
  <1>6. ASSUME NEW p, NEW e
        PROVE  On(p, e)' <=> On(p, e)
    <2>1. On(p, e)' <=> \E i \in 1 .. m :
              Notifying(stack'[i]) /\ stack'[i].lvl = p /\ stack'[i].ev = e
      BY <1>2 DEF On, Notifying
    <2>2. On(p, e) <=> \E i \in 1 .. n :
              Notifying(stack[i]) /\ stack[i].lvl = p /\ stack[i].ev = e
      BY <1>1 DEF On
    <2> QED
      BY <1>3, <1>4, <1>5, <2>1, <2>2
  <1> QED
    BY <1>6 DEF SameOn

\* The shapes of such steps.
LEMMA CalmBecome ==
    ASSUME IInv, NEW n, n = Len(stack), Keeps(n - 1, n), ~Notifying(stack'[n]),
           ~Notifying(Top)
    PROVE  SameOn
  <1>1. n \in Nat /\ n >= 1 /\ Top = stack[n]
    BY StackLen
  <1>2. \A i \in (n - 1) + 1 .. n : i = n
    BY <1>1
  <1>3. \A i \in (n - 1) + 1 .. n : i = n
    BY <1>1
  <1>4. Calm(n - 1, n)
    BY <1>1, <1>2, <1>3 DEF Calm
  <1> QED
    BY <1>4, CalmSame

LEMMA CalmPush ==
    ASSUME IInv, NEW n, n = Len(stack), Keeps(n, n + 1), ~Notifying(stack'[n + 1])
    PROVE  SameOn
  <1>1. n \in Nat /\ n >= 1 /\ Top = stack[n]
    BY StackLen
  <1>2. \A i \in n + 1 .. n + 1 : i = n + 1
    BY <1>1
  <1>3. \A i \in n + 1 .. n : FALSE
    BY <1>1
  <1>4. Calm(n, n + 1)
    BY <1>1, <1>2, <1>3 DEF Calm
  <1> QED
    BY <1>4, CalmSame

LEMMA CalmPushTwo ==
    ASSUME IInv, NEW n, n = Len(stack), Keeps(n, n + 2), ~Notifying(stack'[n + 1]),
           ~Notifying(stack'[n + 2])
    PROVE  SameOn
  <1>1. n \in Nat /\ n >= 1 /\ Top = stack[n]
    BY StackLen
  <1>2. \A i \in n + 1 .. n + 2 : i = n + 1 \/ i = n + 2
    BY <1>1
  <1>3. \A i \in n + 1 .. n : FALSE
    BY <1>1
  <1>4. Calm(n, n + 2)
    BY <1>1, <1>2, <1>3 DEF Calm
  <1> QED
    BY <1>4, CalmSame

LEMMA CalmBecomePush ==
    ASSUME IInv, NEW n, n = Len(stack), Keeps(n - 1, n + 1), ~Notifying(stack'[n]),
           ~Notifying(stack'[n + 1]), ~Notifying(Top)
    PROVE  SameOn
  <1>1. n \in Nat /\ n >= 1 /\ Top = stack[n]
    BY StackLen
  <1>2. \A i \in (n - 1) + 1 .. n + 1 : i = n \/ i = n + 1
    BY <1>1
  <1>3. \A i \in (n - 1) + 1 .. n : i = n
    BY <1>1
  <1>4. Calm(n - 1, n + 1)
    BY <1>1, <1>2, <1>3 DEF Calm
  <1> QED
    BY <1>4, CalmSame

LEMMA CalmBecomePushTwo ==
    ASSUME IInv, NEW n, n = Len(stack), Keeps(n - 1, n + 2), ~Notifying(stack'[n]),
           ~Notifying(stack'[n + 1]), ~Notifying(stack'[n + 2]), ~Notifying(Top)
    PROVE  SameOn
  <1>1. n \in Nat /\ n >= 1 /\ Top = stack[n]
    BY StackLen
  <1>2. \A i \in (n - 1) + 1 .. n + 2 : i = n \/ i = n + 1 \/ i = n + 2
    BY <1>1
  <1>3. \A i \in (n - 1) + 1 .. n : i = n
    BY <1>1
  <1>4. Calm(n - 1, n + 2)
    BY <1>1, <1>2, <1>3 DEF Calm
  <1> QED
    BY <1>4, CalmSame

LEMMA CalmPop ==
    ASSUME IInv, NEW n, n = Len(stack), n >= 2, Keeps(n - 1, n - 1), ~Notifying(Top)
    PROVE  SameOn
  <1>1. n \in Nat /\ n >= 1 /\ Top = stack[n]
    BY StackLen
  <1>2. \A i \in (n - 1) + 1 .. n - 1 : FALSE
    BY <1>1
  <1>3. \A i \in (n - 1) + 1 .. n : i = n
    BY <1>1
  <1>4. Calm(n - 1, n - 1)
    BY <1>1, <1>2, <1>3 DEF Calm
  <1> QED
    BY <1>4, CalmSame

LEMMA CalmPopTwo ==
    ASSUME IInv, NEW n, n = Len(stack), n >= 3, Keeps(n - 2, n - 2), ~Notifying(Top),
           ~Notifying(stack[n - 1])
    PROVE  SameOn
  <1>1. n \in Nat /\ n >= 1 /\ Top = stack[n]
    BY StackLen
  <1>2. \A i \in (n - 2) + 1 .. n - 2 : FALSE
    BY <1>1
  <1>3. \A i \in (n - 2) + 1 .. n : i = n \/ i = n - 1
    BY <1>1
  <1>4. Calm(n - 2, n - 2)
    BY <1>1, <1>2, <1>3 DEF Calm
  <1> QED
    BY <1>4, CalmSame

LEMMA CalmReturn ==
    ASSUME IInv, NEW n, n = Len(stack), n >= 3, Keeps(n - 2, n - 1),
           ~Notifying(stack'[n - 1]), ~Notifying(Top), ~Notifying(stack[n - 1])
    PROVE  SameOn
  <1>1. n \in Nat /\ n >= 1 /\ Top = stack[n]
    BY StackLen
  <1>2. \A i \in (n - 2) + 1 .. n - 1 : i = n - 1
    BY <1>1
  <1>3. \A i \in (n - 2) + 1 .. n : i = n \/ i = n - 1
    BY <1>1
  <1>4. Calm(n - 2, n - 1)
    BY <1>1, <1>2, <1>3 DEF Calm
  <1> QED
    BY <1>4, CalmSame

\* Everything but the dispatcher, and the return to it.
StillStep ==
    \/ ClientCall \/ CoreTimerTick \/ UserRestoreTpl \/ TimersStep
    \/ GroupLock \/ GroupWalk \/ GroupRelease \/ GroupReturn
    \/ RestoreCheck \/ RestorePick \/ RestoreSet \/ DispatchDone \/ CheckTimersStart
    \/ CloseUnlink \/ CloseFree
    \/ CheckQueue \/ CheckRead \/ CheckClear \/ CheckReturn \/ WaitCheck \/ WaitIdle

LEMMA StillSame ==
    ASSUME IInv, ReadOnce, StillStep
    PROVE  SameOn
  <1>1. PICK n : n = Len(stack)
    OBVIOUS
  <1>2. n \in Nat /\ n >= 1 /\ Top = stack[n] /\ (Top.pc # "user" => n >= 2)
    BY <1>1, StackLen
  <1>3. ASSUME NEW pc, pc \notin {"dNotify", "dCalled"}, NEW l, NEW e, NEW v
        PROVE  ~Notifying(F(pc, l, e, v))
    BY <1>3, FrameFields DEF Notifying
  <1>4. \A l : ~Notifying(Restore(l))
    BY <1>3 DEF Restore
  <1>5. \A e, t : ~Notifying(CheckCall(e, t))
    BY <1>3 DEF CheckCall
  <1>6. CASE \/ GroupLock \/ GroupWalk \/ GroupReturn \/ RestoreCheck \/ CheckRead
             \/ UserRestoreTpl \/ DispatchDone \/ CheckTimersStart
    <2>1. Keeps(n - 1, n) /\ ~Notifying(Top)
      BY <1>1, <1>6, GroupLockMove, GroupWalkMove, GroupReturnMove, RestoreCheckMove,
         CheckReadMove, UserRestoreTplMove, DispatchDoneMove, CheckTimersStartMove DEF Notifying
    <2>2. ~Notifying(stack'[n])
      BY <1>1, <1>3, <1>4, <1>6, GroupLockMove, GroupWalkMove, GroupReturnMove, RestoreCheckMove,
         CheckReadMove, UserRestoreTplMove, DispatchDoneMove, CheckTimersStartMove
    <2> QED
      BY <1>1, <2>1, <2>2, CalmBecome
  <1>7. CASE \/ TimerRemove \/ TimerArm \/ TimerInsert \/ CheckTimersRearm
             \/ CheckTimersInsert \/ CheckTimersOnce
    <2>1. Keeps(n - 1, n) /\ ~Notifying(Top)
      BY <1>1, <1>7, TimerRemoveMove, TimerArmMove, TimerInsertMove, CheckTimersRearmMove,
         CheckTimersInsertMove, CheckTimersOnceMove DEF Notifying
    <2>2. ~Notifying(stack'[n])
      BY <1>1, <1>3, <1>4, <1>7, TimerRemoveMove, TimerArmMove, TimerInsertMove,
         CheckTimersRearmMove, CheckTimersInsertMove, CheckTimersOnceMove
    <2> QED
      BY <1>1, <2>1, <2>2, CalmBecome
  <1>8. CASE CoreTimerTick \/ UserWaitForEvent \/ WaitCheck
    <2>1. Keeps(n, n + 1) /\ ~Notifying(stack'[n + 1])
      BY <1>1, <1>3, <1>4, <1>5, <1>8, CoreTimerTickMove, UserWaitForEventMove, WaitCheckMove
    <2> QED
      BY <1>1, <2>1, CalmPush
  <1>9. ASSUME NEW e, UserCreateEvent(e) \/ UserCheckEvent(e)
        PROVE  SameOn
    <2>1. Keeps(n, n + 1) /\ ~Notifying(stack'[n + 1])
      BY <1>1, <1>4, <1>5, <1>9, UserCreateEventMove, UserCheckEventMove
    <2> QED
      BY <1>1, <2>1, CalmPush
  <1>10. ASSUME NEW e, NEW Type \in {"TimerCancel", "TimerRelative", "TimerPeriodic"},
                NEW TriggerTime, UserSetTimer(e, Type, TriggerTime)
         PROVE  SameOn
    <2>1. Keeps(n, n + 1) /\ ~Notifying(stack'[n + 1])
      BY <1>1, <1>3, <1>10, UserSetTimerMove
    <2> QED
      BY <1>1, <2>1, CalmPush
  <1>11. ASSUME NEW NewTpl, UserRaiseTpl(NewTpl)
         PROVE  SameOn
    <2>1. Keeps(n, n + 1) /\ ~Notifying(stack'[n + 1])
      BY <1>1, <1>3, <1>11, UserRaiseTplMove
    <2> QED
      BY <1>1, <2>1, CalmPush
  <1>12. ASSUME NEW e, UserSignalEvent(e)
         PROVE  SameOn
    <2>1. \/ Keeps(n, n + 1) /\ ~Notifying(stack'[n + 1])
          \/ Keeps(n, n + 2) /\ ~Notifying(stack'[n + 1]) /\ ~Notifying(stack'[n + 2])
      BY <1>1, <1>3, <1>4, <1>12, UserSignalEventMove
    <2> QED
      BY <1>1, <2>1, CalmPush, CalmPushTwo
  <1>13. ASSUME NEW e, UserCloseEvent(e)
         PROVE  SameOn
    <2>1. \/ Keeps(n, n + 1) /\ ~Notifying(stack'[n + 1])
          \/ Keeps(n, n + 2) /\ ~Notifying(stack'[n + 1]) /\ ~Notifying(stack'[n + 2])
      BY <1>1, <1>3, <1>13, UserCloseEventMove
    <2> QED
      BY <1>1, <2>1, CalmPush, CalmPushTwo
  <1>14. CASE ClientCall
    BY <1>8, <1>9, <1>10, <1>11, <1>12, <1>13, <1>14 DEF ClientCall
  <1>15. CASE GroupRelease \/ RestorePick \/ CloseUnlink \/ CheckQueue \/ CheckClear
    <2>1. Keeps(n - 1, n + 1) /\ ~Notifying(Top)
      BY <1>1, <1>15, GroupReleaseMove, RestorePickMove, CloseUnlinkMove, CheckQueueMove,
         CheckClearMove DEF Notifying
    <2>2. ~Notifying(stack'[n]) /\ ~Notifying(stack'[n + 1])
      BY <1>1, <1>3, <1>4, <1>15, GroupReleaseMove, RestorePickMove, CloseUnlinkMove,
         CheckQueueMove, CheckClearMove
    <2> QED
      BY <1>1, <2>1, <2>2, CalmBecomePush
  <1>16. CASE WaitIdle
    <2>1. ~Notifying(Top)
      BY <1>1, <1>16, WaitIdleMove DEF Notifying
    <2>2. \/ Keeps(n - 1, n + 1) /\ ~Notifying(stack'[n]) /\ ~Notifying(stack'[n + 1])
          \/ /\ Keeps(n - 1, n + 2) /\ ~Notifying(stack'[n])
             /\ ~Notifying(stack'[n + 1]) /\ ~Notifying(stack'[n + 2])
      BY <1>1, <1>3, <1>4, <1>16, WaitIdleMove
    <2> QED
      BY <1>1, <2>1, <2>2, CalmBecomePush, CalmBecomePushTwo
  <1>17. CASE CheckTimersFire
    <2>1. PICK e : e = Head(timers)
      OBVIOUS
    <2>2. ~Notifying(Top)
      BY <1>1, <1>17, <2>1, CheckTimersFireMove DEF Notifying
    <2>3. \/ Keeps(n - 1, n + 1) /\ ~Notifying(stack'[n]) /\ ~Notifying(stack'[n + 1])
          \/ /\ Keeps(n - 1, n + 2) /\ ~Notifying(stack'[n])
             /\ ~Notifying(stack'[n + 1]) /\ ~Notifying(stack'[n + 2])
      BY <1>1, <1>3, <1>4, <1>17, <2>1, CheckTimersFireMove
    <2> QED
      BY <1>1, <2>2, <2>3, CalmBecomePush, CalmBecomePushTwo
  <1>18. CASE RestoreSet \/ CloseFree
    <2>1. Keeps(n - 1, n - 1) /\ ~Notifying(Top) /\ Top.pc # "user"
      BY <1>1, <1>18, RestoreSetMove, CloseFreeMove DEF Notifying
    <2> QED
      BY <1>1, <1>2, <2>1, CalmPop
  <1>19. CASE CheckReturn
    <2>1. ~Notifying(Top) /\ n >= 2
      BY <1>1, <1>19, CheckReturnMove DEF Notifying
    <2>2. stack[n - 1].pc = "wtNext" => ~Notifying(stack[n - 1])
      BY DEF Notifying
    <2>3. \/ Keeps(n - 1, n - 1)
          \/ n >= 3 /\ ~Notifying(stack[n - 1]) /\ Keeps(n - 2, n - 2)
          \/ /\ n >= 3 /\ ~Notifying(stack[n - 1])
             /\ Keeps(n - 2, n - 1) /\ ~Notifying(stack'[n - 1])
      BY <1>1, <1>3, <1>19, <2>2, CheckReturnMove
    <2> QED
      BY <1>1, <2>1, <2>3, CalmPop, CalmPopTwo, CalmReturn
  <1> QED
    BY <1>6, <1>7, <1>8, <1>14, <1>15, <1>16, <1>17, <1>18, <1>19 DEF StillStep, TimersStep

\* The dispatcher takes an event,
LEMMA TakeOn ==
    ASSUME IInv, ReadOnce, DispatchTake, NEW l, l = Top.lvl, NEW e, e = Head(queue[l])
    PROVE  /\ \A q, x : On(q, x)' <=> On(q, x) \/ (q = l /\ x = e)
           /\ \A q \in TPL : q >= l => \A x : ~On(q, x)
  <1>1. PICK n \in Nat : n = Len(stack) /\ n >= 1 /\ Top = stack[n]
    BY StackLen
  <1>2. /\ Top.pc = "dLoop" /\ Keeps(n - 1, n + 1)
        /\ stack'[n] = F("dNotify", l, e, Top.val)
        /\ stack'[n + 1] = Restore(l)
    BY <1>1, DispatchTakeMove
  <1>3. /\ Notifying(stack'[n]) /\ stack'[n].lvl = l /\ stack'[n].ev = e
        /\ ~Notifying(stack'[n + 1]) /\ ~Notifying(stack[n])
    BY <1>1, <1>2, FrameFields DEF Notifying, Restore
  <1>4. /\ Len(stack') = n + 1
        /\ \A i \in 1 .. n - 1 : stack'[i] = stack[i] /\ i \in 1 .. n /\ i \in 1 .. n + 1
    BY <1>1, <1>2 DEF Keeps
  <1>5. /\ \A i \in 1 .. n + 1 : i \in 1 .. n - 1 \/ i = n \/ i = n + 1
        /\ \A i \in 1 .. n : i \in 1 .. n - 1 \/ i = n
        /\ n \in 1 .. n + 1
    BY <1>1
  <1>6. ASSUME NEW q, NEW x
        PROVE  On(q, x)' <=> On(q, x) \/ (q = l /\ x = e)
    <2>1. On(q, x)' <=> \E i \in 1 .. n + 1 :
              Notifying(stack'[i]) /\ stack'[i].lvl = q /\ stack'[i].ev = x
      BY <1>4 DEF On, Notifying
    <2>2. On(q, x) <=> \E i \in 1 .. n :
              Notifying(stack[i]) /\ stack[i].lvl = q /\ stack[i].ev = x
      BY <1>1 DEF On
    <2> QED
      BY <1>3, <1>4, <1>5, <2>1, <2>2
  <1>7. ASSUME NEW q \in TPL, q >= l, NEW x, On(q, x)
        PROVE  FALSE
    <2>1. PICK i \in 1 .. n : Notifying(stack[i]) /\ stack[i].lvl = q
      BY <1>1, <1>7 DEF On
    <2>2. i < n
      BY <1>1, <1>3, <2>1
    <2>3. stack[i].pc \in DispatchPC /\ stack[n].pc \in DispatchPC
      BY <1>1, <1>2, <2>1 DEF Notifying, DispatchPC
    <2>4. q < l
      BY <1>1, <2>1, <2>2, <2>3, TopFacts DEF Shaped, Ordered
    <2>5. l \in TPL
      BY TopFacts
    <2> QED
      BY <1>7, <2>4, <2>5 DEF TPL
  <1> QED
    BY <1>6, <1>7

\* calls its notification function,
LEMMA CalledSame ==
    ASSUME IInv, DispatchNotify
    PROVE  SameOn
  <1>1. PICK n \in Nat : n = Len(stack) /\ n >= 1 /\ Top = stack[n]
    BY StackLen
  <1>2. /\ Top.pc = "dNotify" /\ Keeps(n - 1, n + 1)
        /\ stack'[n] = F("dCalled", Top.lvl, Top.ev, Top.val)
        /\ \/ stack'[n + 1] = F("ctStart", Top.lvl, Top.ev, Top.lvl)
           \/ stack'[n + 1] = F("user", Top.lvl, Top.ev, Top.lvl)
    BY <1>1, DispatchNotifyMove
  <1>3. /\ Notifying(stack'[n]) /\ stack'[n].lvl = Top.lvl /\ stack'[n].ev = Top.ev
        /\ ~Notifying(stack'[n + 1]) /\ Notifying(stack[n])
    BY <1>1, <1>2, FrameFields DEF Notifying
  <1>4. /\ Len(stack') = n + 1
        /\ \A i \in 1 .. n - 1 : stack'[i] = stack[i] /\ i \in 1 .. n /\ i \in 1 .. n + 1
    BY <1>1, <1>2 DEF Keeps
  <1>5. /\ \A i \in 1 .. n + 1 : i \in 1 .. n - 1 \/ i = n \/ i = n + 1
        /\ \A i \in 1 .. n : i \in 1 .. n - 1 \/ i = n
        /\ n \in 1 .. n + 1 /\ n \in 1 .. n
    BY <1>1
  <1>6. ASSUME NEW q, NEW x
        PROVE  On(q, x)' <=> On(q, x)
    <2>1. On(q, x)' <=> \E i \in 1 .. n + 1 :
              Notifying(stack'[i]) /\ stack'[i].lvl = q /\ stack'[i].ev = x
      BY <1>4 DEF On, Notifying
    <2>2. On(q, x) <=> \E i \in 1 .. n :
              Notifying(stack[i]) /\ stack[i].lvl = q /\ stack[i].ev = x
      BY <1>1 DEF On
    <2> QED
      BY <1>1, <1>3, <1>4, <1>5, <2>1, <2>2
  <1> QED
    BY <1>6 DEF SameOn

\* and is returned to.
LEMMA ReturnOn ==
    ASSUME IInv, ReadOnce, NotifyReturn \/ CheckTimersDone
    PROVE  \E p \in TPL :
              /\ \A q, x : On(q, x)' <=> On(q, x) /\ q # p
              /\ \E x \in Event : On(p, x)
              /\ \A q \in TPL : q > p => \A x : ~On(q, x)
  <1>1. PICK n \in Nat : n = Len(stack) /\ n >= 1 /\ Top = stack[n]
    BY StackLen
  <1>2. PICK c : c = stack[n - 1]
    OBVIOUS
  <1>3. /\ Top.pc \in {"user", "ctLoop"} /\ n >= 3 /\ c.pc = "dCalled"
        /\ Keeps(n - 2, n - 1)
        /\ stack'[n - 1] = F("dLoop", c.lvl, NoEvent, c.val)
    BY <1>1, <1>2, NotifyReturnMove, CheckTimersDoneMove
  <1>4. /\ ~Notifying(stack'[n - 1]) /\ ~Notifying(stack[n]) /\ Notifying(stack[n - 1])
    BY <1>1, <1>2, <1>3, FrameFields DEF Notifying
  <1>5. /\ Len(stack') = n - 1
        /\ \A i \in 1 .. n - 2 : stack'[i] = stack[i] /\ i \in 1 .. n /\ i \in 1 .. n - 1
    BY <1>1, <1>3 DEF Keeps
  <1>6. /\ \A i \in 1 .. n - 1 : i \in 1 .. n - 2 \/ i = n - 1
        /\ \A i \in 1 .. n : i \in 1 .. n - 2 \/ i = n - 1 \/ i = n
        /\ n - 1 \in 1 .. n
        /\ \A i \in 1 .. n - 2 : i < n - 1
    BY <1>1, <1>3
  <1>7. stack \in Seq(GoodFrame) /\ Ordered(stack)
    BY TopFacts DEF Shaped
  <1>8. c \in GoodFrame /\ c.lvl \in TPL /\ c.ev \in Event
    <2>1. c \in GoodFrame
      BY <1>1, <1>2, <1>6, <1>7, ElementOfSeq
    <2> QED
      BY <1>3, <2>1 DEF GoodFrame, Frame, EventPC
  <1>9. PICK p \in TPL : p = c.lvl
    BY <1>8
  <1>10. ASSUME NEW i \in 1 .. n - 2, Notifying(stack[i])
         PROVE  stack[i].lvl < p
    <2>1. stack[i].pc \in DispatchPC /\ stack[n - 1].pc \in DispatchPC
      BY <1>2, <1>3, <1>10 DEF Notifying, DispatchPC
    <2>2. i \in 1 .. Len(stack) /\ n - 1 \in 1 .. Len(stack) /\ i < n - 1
      BY <1>1, <1>5, <1>6, <1>10
    <2> QED
      BY <1>2, <1>7, <1>9, <2>1, <2>2 DEF Ordered
  <1>11. ~(p < p)
    BY <1>9 DEF TPL
  <1>12. ASSUME NEW q, NEW x
         PROVE  On(q, x)' <=> On(q, x) /\ q # p
    <2>1. On(q, x)' <=> \E i \in 1 .. n - 1 :
              Notifying(stack'[i]) /\ stack'[i].lvl = q /\ stack'[i].ev = x
      BY <1>5 DEF On, Notifying
    <2>2. On(q, x) <=> \E i \in 1 .. n :
              Notifying(stack[i]) /\ stack[i].lvl = q /\ stack[i].ev = x
      BY <1>1 DEF On
    <2>3. On(q, x)' <=> \E i \in 1 .. n - 2 :
              Notifying(stack[i]) /\ stack[i].lvl = q /\ stack[i].ev = x
      BY <1>4, <1>5, <1>6, <2>1
    <2>4. On(q, x) /\ q # p => \E i \in 1 .. n - 2 :
              Notifying(stack[i]) /\ stack[i].lvl = q /\ stack[i].ev = x
      BY <1>2, <1>4, <1>6, <1>9, <2>2
    <2>5. (\E i \in 1 .. n - 2 :
              Notifying(stack[i]) /\ stack[i].lvl = q /\ stack[i].ev = x)
            => On(q, x) /\ q # p
      BY <1>5, <1>10, <1>11, <2>2
    <2> QED
      BY <2>3, <2>4, <2>5
  <1>13. On(p, c.ev)
    BY <1>1, <1>2, <1>4, <1>6, <1>9 DEF On
  <1>14. ASSUME NEW q \in TPL, q > p, NEW x, On(q, x)
         PROVE  FALSE
    <2>1. PICK i \in 1 .. n : Notifying(stack[i]) /\ stack[i].lvl = q
      BY <1>1, <1>14 DEF On
    <2>2. q < p \/ q = p
      BY <1>2, <1>4, <1>6, <1>9, <1>10, <2>1
    <2> QED
      BY <1>14, <2>2 DEF TPL
  <1> QED
    BY <1>8, <1>12, <1>13, <1>14

\* Where neither the queues nor the notifications in progress change, nothing
\* happens to the scheduler.
LEMMA SameRunning ==
    ASSUME Shown, Shown', SameOn
    PROVE  RunningAt' = RunningAt
  <1>1. ASSUME NEW p \in TPL
        PROVE  RunningAt'[p] = RunningAt[p]
    <2>1. /\ RunningAt[p] \in Event \cup {NoEvent}
          /\ RunningAt'[p] \in Event \cup {NoEvent}
          /\ \A e \in Event : RunningAt'[p] = e <=> RunningAt[p] = e
      BY DEF Shown, SameOn
    <2> QED
      BY <2>1
  <1> QED
    BY <1>1 DEF Shown

\* The scheduler's lines are the queues.
LEMMA WithoutIsUnlinked ==
    ASSUME NEW s, NEW e
    PROVE  Scheduler!Without(s, e) = Unlinked(s, e)
  BY DEF Scheduler!Without, Scheduler!Contains, Scheduler!RemoveAt,
     Unlinked, Contains, RemoveAt

LEMMA StartRefines ==
    ASSUME IInv, QueuesHold, ReadOnce, Shown, Shown', DispatchTake
    PROVE  \E e \in Event : Scheduler!Start(e)
  <1>1. PICK l, e : l = Top.lvl /\ e = Head(queue[l])
    OBVIOUS
  <1>2. e \in Event /\ NotifyTpl[e] = l
    BY <1>1, TakeHolds
  <1>3. /\ queue[NotifyTpl[e]] # <<>> /\ Head(queue[NotifyTpl[e]]) = e
        /\ queue' = [queue EXCEPT ![NotifyTpl[e]] = Tail(@)]
    BY <1>1, <1>2 DEF DispatchTake
  <1>4. /\ \A q, x : On(q, x)' <=> On(q, x) \/ (q = l /\ x = e)
        /\ \A q \in TPL : q >= l => \A x : ~On(q, x)
    BY <1>1, TakeOn
  <1>5. l \in TPL /\ l >= l
    <2>1. l \in TPL
      BY <1>1, TopFacts
    <2> QED
      BY <2>1 DEF TPL
  <1>6. ASSUME NEW p \in TPL, p >= l
        PROVE  RunningAt[p] = NoEvent
    BY <1>4, <1>6 DEF Shown
  <1>7. ASSUME NEW p \in TPL
        PROVE  RunningAt'[p] = IF p = l THEN e ELSE RunningAt[p]
    <2>1. CASE p = l
      BY <1>2, <1>4, <2>1 DEF Shown
    <2>2. CASE p # l
      <3>1. /\ RunningAt[p] \in Event \cup {NoEvent}
            /\ RunningAt'[p] \in Event \cup {NoEvent}
            /\ \A x \in Event : RunningAt'[p] = x <=> RunningAt[p] = x
        BY <1>4, <2>2 DEF Shown
      <3> QED
        BY <2>2, <3>1
    <2> QED
      BY <2>1, <2>2
  <1>8. RunningAt' = [RunningAt EXCEPT ![l] = e]
    BY <1>5, <1>7 DEF Shown
  <1>9. Scheduler!Quiet({p \in TPL : p >= NotifyTpl[e]})
    BY <1>2, <1>6 DEF Scheduler!Quiet
  <1>10. Scheduler!Start(e)
    BY <1>2, <1>3, <1>8, <1>9 DEF Scheduler!Start
  <1> QED
    BY <1>2, <1>10

LEMMA EndRefines ==
    ASSUME IInv, ReadOnce, Shown, Shown', NotifyReturn \/ CheckTimersDone
    PROVE  \E p \in TPL : Scheduler!End(p)
  <1>1. PICK p \in TPL :
              /\ \A q, x : On(q, x)' <=> On(q, x) /\ q # p
              /\ \E x \in Event : On(p, x)
              /\ \A q \in TPL : q > p => \A x : ~On(q, x)
    BY ReturnOn
  <1>2. NoEvent \notin Event
    BY EventAssumption
  <1>3. RunningAt[p] # NoEvent
    BY <1>1, <1>2 DEF Shown
  <1>4. Scheduler!Quiet({q \in TPL : q > p})
    <2>1. \A q \in TPL : q > p => RunningAt[q] = NoEvent
      BY <1>1 DEF Shown
    <2> QED
      BY <2>1 DEF Scheduler!Quiet
  <1>5. ASSUME NEW q \in TPL
        PROVE  RunningAt'[q] = IF q = p THEN NoEvent ELSE RunningAt[q]
    <2>1. CASE q = p
      BY <1>1, <2>1 DEF Shown
    <2>2. CASE q # p
      <3>1. /\ RunningAt[q] \in Event \cup {NoEvent}
            /\ RunningAt'[q] \in Event \cup {NoEvent}
            /\ \A x \in Event : RunningAt'[q] = x <=> RunningAt[q] = x
        BY <1>1, <2>2 DEF Shown
      <3> QED
        BY <2>2, <3>1
    <2> QED
      BY <2>1, <2>2
  <1>6. RunningAt' = [RunningAt EXCEPT ![p] = NoEvent]
    BY <1>5 DEF Shown
  <1>7. queue' = queue
    BY DEF NotifyReturn, CheckTimersDone
  <1>8. Scheduler!End(p)
    BY <1>3, <1>4, <1>6, <1>7 DEF Scheduler!End
  <1> QED
    BY <1>8

\* Every step is a step of the scheduler, or none.
LEMMA StepSchedules ==
    ASSUME IInv, QueuesHold, ReadOnce, Shown, Shown', [Next]_vars
    PROVE  [Scheduler!SchedulerNext]_(Scheduler!schedulerVars)
  <1>1. ASSUME queue' = queue, SameOn
        PROVE  UNCHANGED Scheduler!schedulerVars
    BY <1>1, SameRunning DEF Scheduler!schedulerVars
  <1>2. CASE UNCHANGED vars
    <2>1. SameOn
      BY <1>2 DEF SameOn, On, Notifying, vars
    <2> QED
      BY <1>1, <1>2, <2>1 DEF vars
  <1>3. CASE DispatchTake
    BY <1>3, StartRefines DEF Scheduler!SchedulerNext
  <1>4. CASE NotifyReturn \/ CheckTimersDone
    BY <1>4, EndRefines DEF Scheduler!SchedulerNext
  <1>5. CASE DispatchNotify
    BY <1>1, <1>5, CalledSame DEF DispatchNotify
  <1>6. CASE StillStep
    <2>1. RunningAt' = RunningAt
      BY <1>6, StillSame, SameRunning
    <2>2. CASE queue' = queue
      BY <1>1, <1>6, <2>2, StillSame
    <2>3. ASSUME NEW e \in Event, CoreNotifyEvent(e)
          PROVE  Scheduler!Signal(e)
      BY <2>1, <2>3, WithoutIsUnlinked DEF CoreNotifyEvent, Scheduler!Signal
    <2>4. CASE CloseUnlink
      <3>1. PICK e \in Event : e = Top.ev
        BY <2>4, CloseHolds
      <3>2. queue' = [queue EXCEPT ![NotifyTpl[e]] = Unlinked(@, e)]
        BY <2>4, <3>1 DEF CloseUnlink
      <3>3. Scheduler!Cancel(e)
        BY <2>1, <3>2, WithoutIsUnlinked DEF Scheduler!Cancel
      <3> QED
        BY <3>3 DEF Scheduler!SchedulerNext
    <2> QED
      BY <1>3, <2>2, <2>3, <2>4, QueueChange DEF Scheduler!SchedulerNext
  <1> QED
    BY <1>2, <1>3, <1>4, <1>5, <1>6 DEF Next, Continue, StillStep, TimersStep

\* Where CoreRestoreTpl loads gEventPending once per round, the event core
\* implements the notification scheduler: the events of a level are notified in
\* the order of their last signals, once for all signals before the
\* notification, never after CoreCloseEvent has unlinked them, and only while
\* nothing at that level or above is being notified.
THEOREM EventsAreScheduled ==
    ASSUME ReadOnce
    PROVE  Spec => ImplementsScheduler
  <1>1. Init => Scheduler!SchedulerInit
    <2> SUFFICES ASSUME Init
                 PROVE  Scheduler!SchedulerInit
      OBVIOUS
    <2>1. queue = [p \in TPL |-> <<>>]
      BY DEF Init
    <2>2. Dispatches = {}
      <3>1. Len(stack) = 1 /\ stack[1].pc = "user"
        BY DEF Init, F
      <3>2. \A i \in 1 .. Len(stack) : i = 1
        BY <3>1
      <3> QED
        BY <3>1, <3>2 DEF Dispatches, DispatchPC
    <2>3. RunningAt = [p \in TPL |-> NoEvent]
      BY <2>2 DEF RunningAt
    <2> QED
      BY <2>1, <2>3 DEF Scheduler!SchedulerInit
  <1>2. IInv => Shown
    BY ShownIs
  <1>3. IInv' => Shown'
    BY <1>2, PTL
  <1>4. IInv /\ IInv' /\ QueuesHold /\ [Next]_vars
            => [Scheduler!SchedulerNext]_(Scheduler!schedulerVars)
    BY <1>2, <1>3, StepSchedules
  <1> QED
    BY <1>1, <1>4, Invariance, QueuesInvariance, PTL
    DEF Spec, ImplementsScheduler, Scheduler!SchedulerSpec
==============================================================================
