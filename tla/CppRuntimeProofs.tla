-------------------------- MODULE CppRuntimeProofs --------------------------
(***************************************************************************)
(* Proofs about CppRuntime, for tables and numbers of objects of any size. *)
(***************************************************************************)
EXTENDS CppRuntime, SequenceTheorems, TLAPS

(***************************************************************************)
(* The inductive invariant.                                                *)
(***************************************************************************)
Frame == [fn : Tables \cup ProgramCode \cup {"ctors", "destroy"}, at : Nat]

\* The call the entry point has made: every other call is inside it.
Outermost(fn) == Len(stack) >= 1 /\ stack[1].fn = fn

\* The first k entries of table t have been called, once.
Walked(t, k) == ran[t] = [i \in 1 .. Size(t) |-> IF i <= k THEN 1 ELSE 0]

\* How many entries the walk at the bottom of the stack has called.
Made == IF Len(stack) >= 2 THEN stack[1].at ELSE stack[1].at - 1

\* Tables are walked, and objects initialized, by the entry point alone; only
\* the entry that a walk has called may be on top of it.
StackOK ==
    /\ stack \in Seq(Frame)
    /\ \A i \in 1 .. Len(stack) :
          /\ stack[i].fn \in Tables \cup {"ctors"} => i = 1
          /\ stack[i].fn = "entry" => i = 2
          /\ stack[i].fn \in {"ctor", "dtor"} => stack[i].at \in Object
    /\ Len(stack) >= 2 => (stack[1].fn \in Tables <=> stack[2].fn = "entry")
    /\ Len(stack) >= 1 => stack[1].fn # "entry"

\* What the entry point is doing, and the flags of crt.c.
PhaseOK ==
    /\ phase \in {"init", "objects", "main", "uninit", "over"}
    /\ initDone \in BOOLEAN /\ uninitDone \in BOOLEAN /\ failed \in BOOLEAN
    /\ initDone <=> phase # "init"
    /\ uninitDone => phase = "over"
    /\ Outermost("xt") => uninitDone
    /\ failed => phase = "over" /\ stack = <<>>
    /\ Len(stack) >= 1 =>
          \/ phase = "objects" /\ stack[1].fn \in {"xi", "xc"}
          \/ phase = "main" /\ stack[1].fn \in {"ctors", "ctor", "destroy"}
          \/ phase = "uninit" /\ stack[1].fn = "destroy"
          \/ phase = "over" /\ stack[1].fn = "xt"

\* How far each table has been walked.
TablesOK ==
    /\ DOMAIN ran = Tables
    /\ \A t \in Tables : \E k \in 0 .. Size(t) : Walked(t, k)
    /\ ~initDone \/ failed \/ Outermost("xi") => Walked("xc", 0)
    /\ ~initDone => Walked("xi", 0)
    /\ ~uninitDone => Walked("xt", 0)
    /\ Outermost("xc") => Walked("xi", CInits)
    /\ Walked("xc", 0) \/ Walked("xi", CInits)
    /\ \A t \in Tables : Outermost(t) =>
          /\ stack[1].at \in 1 .. Size(t) + 1
          /\ Len(stack) >= 2 => stack[1].at \in 1 .. Size(t)
          /\ Walked(t, Made)

\* The life of every object, against the calls in progress and the list.
LivesOK ==
    /\ life \in [Object -> {"unborn", "constructing", "live", "destroying", "dead"}]
    /\ \A i \in 1 .. Len(stack) :
          /\ stack[i].fn = "ctor" => life[stack[i].at] = "constructing"
          /\ stack[i].fn = "dtor" => life[stack[i].at] = "destroying"
    /\ \A i, j \in 1 .. Len(stack) :
          i < j /\ stack[i].fn \in {"ctor", "dtor"} /\ stack[j].fn \in {"ctor", "dtor"}
              => stack[i].at # stack[j].at
    /\ phase \in {"init", "objects"} => \A o \in 1 .. Statics : life[o] = "unborn"
    /\ Outermost("ctors") =>
          /\ stack[1].at \in 1 .. Statics + 1
          /\ \A o \in stack[1].at .. Statics : life[o] = "unborn"

ListsOK ==
    /\ order \in Seq(Object) /\ atexit \in Seq(Object)
    /\ IsInjective(order)
    /\ \A o \in Object :
          (\E k \in 1 .. Len(order) : order[k] = o)
              <=> life[o] \in {"live", "destroying", "dead"}
    /\ \A o \in Object :
          (\E k \in 1 .. Len(atexit) : atexit[k] = o)
              <=> life[o] = "live" /\ o \notin unregistered
    /\ unregistered \subseteq {o \in Object : life[o] = "live"}
    /\ \A i, j \in 1 .. Len(atexit) : i < j =>
          \E k, l \in 1 .. Len(order) :
              k > l /\ order[k] = atexit[i] /\ order[l] = atexit[j]
    /\ phase = "uninit" /\ stack = <<>> => atexit = <<>>

IInv == StackOK /\ PhaseOK /\ TablesOK /\ LivesOK /\ ListsOK

(***************************************************************************)
(* Stacks of calls.                                                        *)
(***************************************************************************)
LEMMA Sizes ==
    /\ \A t \in Tables : Size(t) \in Nat
    /\ Size("xi") = CInits /\ Size("xc") = CppInits /\ Size("xt") = Terminators
    /\ Statics \in Nat /\ Locals \in Nat
    /\ Object = 1 .. Statics + Locals /\ Local = Statics + 1 .. Statics + Locals
  BY RuntimeAssumption DEF Size, Tables, Object, Local

LEMMA SubSeqOfSeq ==
    ASSUME NEW S, NEW s \in Seq(S), NEW m \in Nat, m <= Len(s)
    PROVE  /\ SubSeq(s, 1, m) \in Seq(S)
           /\ Len(SubSeq(s, 1, m)) = m
           /\ \A i \in 1 .. m : SubSeq(s, 1, m)[i] = s[i]
  <1>1. Len(s) \in Nat
    BY LenProperties
  <1>2. \A i \in 1 .. m : i \in 1 .. Len(s)
    BY <1>1
  <1>3. \A i \in 1 .. m : s[i] \in S
    BY <1>2, ElementOfSeq
  <1>4. SubSeq(s, 1, m) = [i \in 1 .. m |-> s[i]]
    BY <1>1
  <1> QED
    BY <1>3, <1>4, IsASeq

LEMMA TopIs ==
    ASSUME StackOK, stack # <<>>
    PROVE  /\ Len(stack) \in Nat /\ Len(stack) >= 1 /\ Top = stack[Len(stack)]
           /\ Top \in Frame /\ stack[1] \in Frame
           /\ Top.fn \in Tables \cup {"ctors"} => Len(stack) = 1
           /\ Top.fn = "entry" => Len(stack) = 2
  <1>1. stack \in Seq(Frame)
    BY DEF StackOK
  <1>2. Len(stack) \in Nat /\ Len(stack) >= 1
    BY <1>1, EmptySeq, LenProperties
  <1>3. Top = stack[Len(stack)]
    BY DEF Top, Last
  <1>4. Len(stack) \in 1 .. Len(stack) /\ 1 \in 1 .. Len(stack)
    BY <1>2
  <1>5. Top \in Frame /\ stack[1] \in Frame
    BY <1>1, <1>3, <1>4, ElementOfSeq
  <1> QED
    BY <1>2, <1>3, <1>4, <1>5 DEF StackOK

LEMMA PushIs ==
    ASSUME StackOK, NEW c \in Frame, Push(c)
    PROVE  /\ stack' \in Seq(Frame) /\ stack' # <<>>
           /\ Len(stack) \in Nat /\ Len(stack') = Len(stack) + 1
           /\ \A i \in 1 .. Len(stack) : stack'[i] = stack[i]
           /\ stack'[Len(stack) + 1] = c
  <1>1. stack \in Seq(Frame)
    BY DEF StackOK
  <1> QED
    BY <1>1, AppendProperties, LenProperties DEF Push

LEMMA PopIs ==
    ASSUME StackOK, stack # <<>>, Pop
    PROVE  /\ stack' \in Seq(Frame)
           /\ Len(stack) \in Nat /\ Len(stack) >= 1 /\ Len(stack') = Len(stack) - 1
           /\ \A i \in 1 .. Len(stack) - 1 : stack'[i] = stack[i]
           /\ stack' = <<>> <=> Len(stack) = 1
  <1>1. stack \in Seq(Frame) /\ Len(stack) \in Nat /\ Len(stack) >= 1
    BY TopIs DEF StackOK
  <1>2. PICK m \in Nat : m = Len(stack) - 1
    BY <1>1
  <1>3. stack' = SubSeq(stack, 1, m)
    BY <1>2 DEF Pop, Front
  <1>4. /\ stack' \in Seq(Frame) /\ Len(stack') = m
        /\ \A i \in 1 .. m : stack'[i] = stack[i]
    BY <1>1, <1>2, <1>3, SubSeqOfSeq
  <1>5. stack' = <<>> <=> m = 0
    BY <1>4, EmptySeq
  <1> QED
    BY <1>1, <1>2, <1>4, <1>5

\* A stack of one call, and of two.
LEMMA OneFrame ==
    ASSUME NEW c \in Frame, NEW s, s = <<c>>
    PROVE  s \in Seq(Frame) /\ Len(s) = 1 /\ s[1] = c /\ s # <<>>
  BY SMT

LEMMA TwoFrames ==
    ASSUME NEW c \in Frame, NEW d \in Frame, NEW s, s = <<c, d>>
    PROVE  s \in Seq(Frame) /\ Len(s) = 2 /\ s[1] = c /\ s[2] = d /\ s # <<>>
  BY SMT

LEMMA CallIs ==
    ASSUME NEW fn, NEW at
    PROVE  /\ Call(fn, at).fn = fn /\ Call(fn, at).at = at
           /\ fn \in Tables \cup ProgramCode \cup {"ctors", "destroy"} /\ at \in Nat
                => Call(fn, at) \in Frame
  BY DEF Call, Frame

(***************************************************************************)
(* What a step that adds or drops a call leaves alone.                     *)
(***************************************************************************)
LEMMA StackPush ==
    ASSUME StackOK, NEW c \in Frame, Push(c),
           c.fn \in Tables \cup {"ctors"} => Len(stack) = 0,
           c.fn = "entry" => Len(stack) = 1,
           Len(stack) = 1 => (stack[1].fn \in Tables <=> c.fn = "entry"),
           c.fn \in {"ctor", "dtor"} => c.at \in Object
    PROVE  StackOK'
  <1>1. PICK n \in Nat : n = Len(stack)
    BY PushIs
  <1>2. /\ stack' \in Seq(Frame) /\ Len(stack') = n + 1 /\ stack'[n + 1] = c
        /\ \A i \in 1 .. n : stack'[i] = stack[i]
    BY <1>1, PushIs
  <1>3. \A i \in 1 .. n + 1 : i \in 1 .. n \/ i = n + 1
    BY <1>1
  <1>4. ASSUME NEW i \in 1 .. n + 1
        PROVE  /\ stack'[i].fn \in Tables \cup {"ctors"} => i = 1
               /\ stack'[i].fn = "entry" => i = 2
               /\ stack'[i].fn \in {"ctor", "dtor"} => stack'[i].at \in Object
    <2>1. CASE i \in 1 .. n
      BY <1>1, <1>2, <2>1 DEF StackOK
    <2>2. CASE i = n + 1
      BY <1>1, <1>2, <2>2
    <2> QED
      BY <1>3, <2>1, <2>2
  <1>5. n + 1 >= 2 => (stack'[1].fn \in Tables <=> stack'[2].fn = "entry")
    <2>1. CASE n >= 2
      <3>1. 1 \in 1 .. n /\ 2 \in 1 .. n
        BY <2>1
      <3> QED
        BY <1>1, <1>2, <2>1, <3>1 DEF StackOK
    <2>2. CASE n = 1
      BY <1>1, <1>2, <2>2
    <2> QED
      BY <1>1, <2>1, <2>2
  <1>6. stack'[1].fn # "entry"
    <2>1. 1 \in 1 .. n + 1
      BY <1>1
    <2> QED
      BY <1>4, <2>1
  <1> QED
    BY <1>2, <1>4, <1>5, <1>6 DEF StackOK

LEMMA StackPop ==
    ASSUME StackOK, stack # <<>>, Pop
    PROVE  /\ StackOK'
           /\ Len(stack') >= 1 => Len(stack) >= 2 /\ stack'[1] = stack[1]
  <1>1. PICK n \in Nat : n = Len(stack) /\ n >= 1
    BY PopIs
  <1>2. /\ stack' \in Seq(Frame) /\ Len(stack') = n - 1
        /\ \A i \in 1 .. n - 1 : stack'[i] = stack[i] /\ i \in 1 .. n
    BY <1>1, PopIs
  <1>3. ASSUME NEW i \in 1 .. n - 1
        PROVE  /\ stack'[i].fn \in Tables \cup {"ctors"} => i = 1
               /\ stack'[i].fn = "entry" => i = 2
               /\ stack'[i].fn \in {"ctor", "dtor"} => stack'[i].at \in Object
    BY <1>1, <1>2 DEF StackOK
  <1>4. n - 1 >= 2 => (stack'[1].fn \in Tables <=> stack'[2].fn = "entry")
    <2> SUFFICES ASSUME n - 1 >= 2
                 PROVE  stack'[1].fn \in Tables <=> stack'[2].fn = "entry"
      OBVIOUS
    <2>1. 1 \in 1 .. n - 1 /\ 2 \in 1 .. n - 1 /\ n >= 2
      BY <1>1
    <2> QED
      BY <1>1, <1>2, <2>1 DEF StackOK
  <1>5. n - 1 >= 1 => n >= 2 /\ stack'[1] = stack[1] /\ stack'[1].fn # "entry"
    <2> SUFFICES ASSUME n - 1 >= 1
                 PROVE  n >= 2 /\ stack'[1] = stack[1] /\ stack'[1].fn # "entry"
      OBVIOUS
    <2>1. 1 \in 1 .. n - 1 /\ n >= 2
      BY <1>1
    <2> QED
      BY <1>1, <1>2, <2>1 DEF StackOK
  <1> QED
    BY <1>1, <1>2, <1>3, <1>4, <1>5 DEF StackOK

\* The outermost call stays, or the last one returned.
LEMMA PhaseKeep ==
    ASSUME StackOK, PhaseOK, stack # <<>>,
           UNCHANGED <<initDone, uninitDone, failed, phase>>,
           Len(stack') >= 1 => stack'[1].fn = stack[1].fn
    PROVE  PhaseOK'
  <1>1. Len(stack) >= 1 /\ ~failed
    BY TopIs DEF PhaseOK
  <1>2. Outermost("xt")' => Outermost("xt")
    BY <1>1 DEF Outermost
  <1> QED
    BY <1>1, <1>2 DEF PhaseOK

LEMMA TablesKeep ==
    ASSUME TablesOK, UNCHANGED tables,
           \A t \in Tables : Outermost(t)' =>
              Outermost(t) /\ stack'[1] = stack[1] /\ Len(stack) >= 2 /\ Len(stack') >= 2
    PROVE  TablesOK'
  <1>1. \A t, k : Walked(t, k)' <=> Walked(t, k)
    BY DEF Walked, tables
  <1>2. Outermost("xi")' => Outermost("xi")
    BY DEF Tables
  <1>3. Outermost("xc")' => Outermost("xc")
    BY DEF Tables
  <1>4. /\ DOMAIN ran' = Tables
        /\ \A t \in Tables : \E k \in 0 .. Size(t) : Walked(t, k)'
        /\ ~initDone' => Walked("xi", 0)'
        /\ ~uninitDone' => Walked("xt", 0)'
        /\ Walked("xc", 0)' \/ Walked("xi", CInits)'
        /\ Outermost("xc")' => Walked("xi", CInits)'
        /\ ~initDone' \/ failed' \/ Outermost("xi")' => Walked("xc", 0)'
    BY <1>1, <1>2, <1>3 DEF TablesOK, tables
  <1>5. ASSUME NEW t \in Tables, Outermost(t)'
        PROVE  /\ stack'[1].at \in 1 .. Size(t) + 1
               /\ Len(stack') >= 2 => stack'[1].at \in 1 .. Size(t)
               /\ Walked(t, Made)'
    <2>1. Outermost(t) /\ stack'[1] = stack[1] /\ Len(stack) >= 2 /\ Len(stack') >= 2
      BY <1>5
    <2>2. stack[1].at \in 1 .. Size(t) + 1 /\ stack[1].at \in 1 .. Size(t) /\ Walked(t, stack[1].at)
      BY <2>1 DEF TablesOK, Made
    <2>3. PICK k : k = stack'[1].at /\ k = stack[1].at
      BY <2>1
    <2>4. Walked(t, k)' /\ Made' = k
      BY <1>1, <2>1, <2>2, <2>3 DEF Made
    <2> QED
      BY <2>1, <2>2, <2>3, <2>4 DEF Walked
  <1> QED
    BY <1>4, <1>5 DEF TablesOK

LEMMA LivesKeep ==
    ASSUME LivesOK, UNCHANGED life, Len(stack') \in Nat, Len(stack) \in Nat,
           \A i \in 1 .. Len(stack') : stack'[i].fn \in {"ctor", "dtor"} =>
              i \in 1 .. Len(stack) /\ stack'[i] = stack[i],
           phase' \in {"init", "objects"} => phase \in {"init", "objects"},
           Outermost("ctors")' => Outermost("ctors") /\ stack'[1] = stack[1]
    PROVE  LivesOK'
  BY DEF LivesOK, Outermost

LEMMA ListsKeep ==
    ASSUME ListsOK, UNCHANGED objects, phase' = "uninit" /\ stack' = <<>> => atexit = <<>>
    PROVE  ListsOK'
  BY DEF ListsOK, objects

(***************************************************************************)
(* The steps of crt.c.                                                     *)
(***************************************************************************)

\* The entry point makes a call.
LEMMA FirstCall ==
    ASSUME StackOK, stack = <<>>, NEW c \in Frame, c.fn \in Tables \cup {"ctors", "destroy"},
           Push(c)
    PROVE  /\ StackOK' /\ Len(stack) = 0 /\ Len(stack') = 1 /\ stack'[1] = c
           /\ stack' # <<>>
           /\ \A fn : Outermost(fn)' <=> fn = c.fn
           /\ \A i \in 1 .. Len(stack') : stack'[i].fn \notin {"ctor", "dtor"}
  <1>1. Len(stack) = 0
    BY EmptySeq DEF StackOK
  <1>2. Len(stack') = 1 /\ stack'[1] = c /\ stack' # <<>>
    BY <1>1, PushIs
  <1>3. c.fn # "entry" /\ c.fn \notin {"ctor", "dtor"}
    BY DEF Tables
  <1>4. StackOK'
    BY <1>1, <1>3, StackPush
  <1>5. \A i \in 1 .. Len(stack') : i = 1
    BY <1>2
  <1> QED
    BY <1>1, <1>2, <1>3, <1>4, <1>5 DEF Outermost

\* global_crt_init.
LEMMA StartInitStep ==
    ASSUME IInv, StartInit
    PROVE  IInv'
  <1>1. StackOK /\ PhaseOK /\ TablesOK /\ LivesOK /\ ListsOK
    BY DEF IInv
  <1>2. PICK c \in Frame : c = Call("xi", 1) /\ c.fn = "xi" /\ c.at = 1
    BY CallIs DEF Tables
  <1>3. ~initDone /\ ~failed /\ ~uninitDone
    BY <1>1 DEF StartInit, PhaseOK
  <1>4. /\ phase = "init" /\ phase' = "objects" /\ stack = <<>> /\ Push(c)
        /\ initDone' = TRUE /\ UNCHANGED <<uninitDone, ran, failed, objects>>
    BY <1>2, <1>3 DEF StartInit, GlobalCrtInit
  <1>5. /\ StackOK' /\ Len(stack) = 0 /\ Len(stack') = 1 /\ stack'[1] = c /\ stack' # <<>>
        /\ \A fn : Outermost(fn)' <=> fn = "xi"
        /\ \A i \in 1 .. Len(stack') : stack'[i].fn \notin {"ctor", "dtor"}
    BY <1>1, <1>2, <1>4, FirstCall DEF Tables
  <1>6. PhaseOK'
    BY <1>1, <1>2, <1>3, <1>4, <1>5 DEF PhaseOK
  <1>7. TablesOK'
    <2>1. \A t, k : Walked(t, k)' <=> Walked(t, k)
      BY <1>4 DEF Walked
    <2>2. Walked("xi", 0) /\ Walked("xc", 0) /\ Walked("xt", 0)
      BY <1>1, <1>3 DEF TablesOK
    <2>3. ASSUME NEW t \in Tables, Outermost(t)'
          PROVE  /\ stack'[1].at \in 1 .. Size(t) + 1
                 /\ Len(stack') >= 2 => stack'[1].at \in 1 .. Size(t)
                 /\ Walked(t, Made)'
      <3>1. t = "xi" /\ Size(t) \in Nat /\ stack'[1].at = 1
        BY <1>2, <1>5, <2>3, Sizes
      <3>2. Walked(t, Made)'
        <4>1. Made' = 0
          BY <1>5, <3>1 DEF Made
        <4>2. Walked(t, 0)'
          BY <2>1, <2>2, <3>1
        <4> QED
          BY <4>1, <4>2 DEF Walked
      <3> QED
        BY <1>5, <3>1, <3>2
    <2>4. /\ DOMAIN ran' = Tables
          /\ \A t \in Tables : \E k \in 0 .. Size(t) : Walked(t, k)'
      BY <1>1, <1>4, <2>1 DEF TablesOK
    <2> QED
      BY <1>3, <1>4, <1>5, <2>1, <2>2, <2>3, <2>4 DEF TablesOK
  <1>8. LivesOK'
    BY <1>1, <1>4, <1>5, LivesKeep DEF objects
  <1>9. ListsOK'
    BY <1>1, <1>4, ListsKeep
  <1> QED
    BY <1>5, <1>6, <1>7, <1>8, <1>9 DEF IInv

\* The program's own code runs when global_crt_init has been called.
LEMMA ProgramIs ==
    ASSUME IInv, InProgram
    PROVE  /\ initDone /\ ~failed
           /\ stack = <<>> => phase = "main"
           /\ stack # <<>> => /\ Top.fn \in ProgramCode
                              /\ Len(stack) = 1 => stack[1].fn \notin Tables \cup {"entry", "ctors"}
  <1>1. StackOK /\ PhaseOK
    BY DEF IInv
  <1>2. CASE stack = <<>>
    BY <1>1, <1>2 DEF InProgram, PhaseOK
  <1>3. CASE stack # <<>>
    <2>1. Len(stack) >= 1 /\ Top = stack[Len(stack)] /\ Top.fn \in ProgramCode
      BY <1>1, <1>3, TopIs DEF InProgram
    <2>2. Len(stack) = 1 => stack[1].fn \notin Tables \cup {"entry", "ctors"}
      BY <1>1, <2>1 DEF ProgramCode, StackOK, Tables
    <2> QED
      BY <1>1, <1>3, <2>1, <2>2 DEF PhaseOK
  <1> QED
    BY <1>2, <1>3

LEMMA SameStep ==
    ASSUME IInv, UNCHANGED vars
    PROVE  IInv'
  <1>1. StackOK' /\ PhaseOK'
    BY DEF vars, IInv, StackOK, PhaseOK, Outermost
  <1>2. TablesOK'
    BY DEF vars, IInv, TablesOK, Outermost, Walked, Made
  <1>3. LivesOK'
    BY DEF vars, IInv, LivesOK, Outermost
  <1>4. ListsOK'
    BY DEF vars, IInv, ListsOK
  <1> QED
    BY <1>1, <1>2, <1>3, <1>4 DEF IInv

LEMMA CallInitAgainStep ==
    ASSUME IInv, CallInitAgain
    PROVE  IInv'
  <1>1. UNCHANGED vars
    BY ProgramIs DEF CallInitAgain, GlobalCrtInit, vars, tables, objects
  <1> QED
    BY <1>1, SameStep

\* A walk stands alone, before its next entry or at its end.
LEMMA WalkIs ==
    ASSUME IInv, NEW t \in Tables, Running(t)
    PROVE  /\ Len(stack) = 1 /\ Top = stack[1] /\ stack[1] \in Frame /\ stack[1].fn = t
           /\ stack[1].at \in 1 .. Size(t) + 1 /\ Walked(t, stack[1].at - 1)
           /\ Size(t) \in Nat
           /\ initDone /\ ~failed /\ (t = "xt" => uninitDone)
           /\ t = "xi" => Walked("xc", 0)
           /\ t = "xc" => Walked("xi", CInits)
           /\ \A u : Outermost(u) <=> u = t
  <1>1. StackOK /\ PhaseOK /\ TablesOK
    BY DEF IInv
  <1>2. stack # <<>> /\ Top.fn = t
    BY DEF Running
  <1>3. Len(stack) = 1 /\ Top = stack[1] /\ stack[1] \in Frame /\ stack[1].fn = t
    BY <1>1, <1>2, TopIs
  <1>4. \A u : Outermost(u) <=> u = t
    BY <1>3 DEF Outermost
  <1>5. Made = stack[1].at - 1
    BY <1>3 DEF Made
  <1>6. stack[1].at \in 1 .. Size(t) + 1 /\ Walked(t, Made)
    BY <1>1, <1>4 DEF TablesOK
  <1>7. initDone /\ ~failed /\ (t = "xt" => uninitDone)
    <2>1. phase # "init"
      BY <1>1, <1>3 DEF PhaseOK
    <2> QED
      BY <1>1, <1>2, <1>4, <2>1 DEF PhaseOK
  <1>8. (t = "xi" => Walked("xc", 0)) /\ (t = "xc" => Walked("xi", CInits))
    BY <1>1, <1>4 DEF TablesOK
  <1> QED
    BY <1>3, <1>4, <1>5, <1>6, <1>7, <1>8, Sizes

\* _initterm: the next entry is called.
LEMMA CallEntryStep ==
    ASSUME IInv, NEW t \in Tables, CallEntry(t)
    PROVE  IInv'
  <1>1. StackOK /\ PhaseOK /\ TablesOK /\ LivesOK /\ ListsOK
    BY DEF IInv
  <1>2. /\ Len(stack) = 1 /\ Top = stack[1] /\ stack[1] \in Frame /\ stack[1].fn = t
        /\ Size(t) \in Nat /\ Walked(t, stack[1].at - 1)
        /\ initDone /\ ~failed /\ (t = "xt" => uninitDone)
        /\ \A u : Outermost(u) <=> u = t
    BY WalkIs DEF CallEntry
  <1>3. PICK n \in 1 .. Size(t) : n = stack[1].at
    BY <1>2, WalkIs DEF CallEntry
  <1>4. PICK c \in Frame : c = Call("entry", n) /\ c.fn = "entry" /\ c.at = n
    BY CallIs DEF ProgramCode
  <1>5. /\ Push(c) /\ ran' = [ran EXCEPT ![t][n] = @ + 1] /\ stack # <<>>
        /\ UNCHANGED <<initDone, uninitDone, failed, objects, phase>>
    BY <1>2, <1>3, <1>4 DEF CallEntry, Running
  <1>6. /\ stack' # <<>> /\ Len(stack') = 2 /\ stack'[1] = stack[1] /\ stack'[2] = c
    BY <1>1, <1>2, <1>5, PushIs
  <1>7. StackOK'
    BY <1>1, <1>2, <1>4, <1>5, StackPush DEF Tables
  <1>8. PhaseOK'
    BY <1>1, <1>5, <1>6, PhaseKeep
  <1>9. TablesOK'
    <2>1. DOMAIN ran = Tables
      BY <1>1 DEF TablesOK
    <2>2. \A u \in Tables \ {t} : ran'[u] = ran[u]
      BY <1>5, <2>1
    <2>3. \A u \in Tables \ {t} : \A k : Walked(u, k)' <=> Walked(u, k)
      BY <2>2 DEF Walked
    <2>4. Walked(t, n)'
      <3>1. ran[t] = [i \in 1 .. Size(t) |-> IF i <= n - 1 THEN 1 ELSE 0]
        BY <1>2, <1>3 DEF Walked
      <3>2. ran'[t] = [ran[t] EXCEPT ![n] = @ + 1]
        BY <1>5, <2>1
      <3>3. ran'[t] = [i \in 1 .. Size(t) |-> IF i <= n THEN 1 ELSE 0]
        BY <1>2, <3>1, <3>2
      <3> QED
        BY <3>3 DEF Walked
    <2>5. \A u : Outermost(u)' <=> u = t
      BY <1>2, <1>6 DEF Outermost
    <2>6. \A u \in Tables : \E k \in 0 .. Size(u) : Walked(u, k)'
      BY <1>1, <1>2, <2>3, <2>4 DEF TablesOK
    <2>7. Made' = n
      BY <1>3, <1>6 DEF Made
    <2>8. Walked(t, Made)'
      BY <2>4, <2>7 DEF Walked
    <2>9. ~initDone \/ failed \/ Outermost("xi") => Walked("xc", 0)
      BY <1>1 DEF TablesOK
    <2>10. ~initDone' \/ failed' \/ Outermost("xi")' => Walked("xc", 0)'
      BY <1>2, <1>5, <2>3, <2>5, <2>9 DEF Tables
    <2>11. ~uninitDone' => Walked("xt", 0)'
      BY <1>1, <1>2, <1>5, <2>3 DEF Tables, TablesOK
    <2>12. Outermost("xc")' => Walked("xi", CInits)'
      BY <1>1, <1>2, <2>3, <2>5 DEF Tables, TablesOK
    <2>13. Walked("xc", 0)' \/ Walked("xi", CInits)'
      <3>1. CASE t = "xi"
        BY <3>1, <1>1, <1>2, <2>3 DEF Tables, TablesOK
      <3>2. CASE t = "xc"
        BY <3>2, <1>1, <1>2, <2>3 DEF Tables, TablesOK
      <3>3. CASE t = "xt"
        BY <3>3, <1>1, <1>2, <2>3 DEF Tables, TablesOK
      <3> QED
        BY <3>1, <3>2, <3>3 DEF Tables
    <2>14. DOMAIN ran' = Tables
      BY <1>5, <2>1
    <2>15. stack'[1].at \in 1 .. Size(t) + 1 /\ stack'[1].at \in 1 .. Size(t)
      BY <1>2, <1>3, <1>6
    <2> QED
      BY <1>2, <1>5, <2>5, <2>6, <2>8, <2>10, <2>11, <2>12, <2>13, <2>14, <2>15 DEF TablesOK
  <1>10. LivesOK'
    <2>1. \A i \in 1 .. Len(stack') : i = 1 \/ i = 2
      BY <1>6
    <2>2. \A i \in 1 .. Len(stack') : stack'[i].fn \notin {"ctor", "dtor"}
      BY <1>2, <1>4, <1>6, <2>1 DEF Tables
    <2>3. ~Outermost("ctors")'
      BY <1>2, <1>6 DEF Outermost, Tables
    <2> QED
      BY <1>1, <1>2, <1>5, <1>6, <2>2, <2>3, LivesKeep DEF objects
  <1>11. ListsOK'
    BY <1>1, <1>5, <1>6, ListsKeep
  <1> QED
    BY <1>7, <1>8, <1>9, <1>10, <1>11 DEF IInv

\* An entry of a table runs on the walk that called it.
LEMMA EntryIs ==
    ASSUME IInv, Running("entry")
    PROVE  /\ Len(stack) = 2 /\ stack # <<>> /\ stack[1] \in Frame
           /\ stack[1].fn \in Tables
           /\ SubSeq(stack, 1, Len(stack) - 2) = <<>> /\ stack[Len(stack) - 1] = stack[1]
           /\ stack[1].at \in 1 .. Size(stack[1].fn)
           /\ Walked(stack[1].fn, stack[1].at)
           /\ stack[1].fn = "xi" => Walked("xc", 0)
           /\ initDone /\ ~failed
           /\ phase \in {"objects", "over"}
           /\ stack[1].fn \in {"xi", "xc"} => phase = "objects"
           /\ \A u : Outermost(u) <=> u = stack[1].fn
  <1>1. StackOK /\ PhaseOK /\ TablesOK
    BY DEF IInv
  <1>2. stack # <<>> /\ Top.fn = "entry"
    BY DEF Running
  <1>3. Len(stack) = 2 /\ stack[1] \in Frame /\ Top = stack[2] /\ stack \in Seq(Frame)
    BY <1>1, <1>2, TopIs DEF StackOK
  <1>4. stack[1].fn \in Tables
    BY <1>1, <1>2, <1>3 DEF StackOK
  <1>5. \A u : Outermost(u) <=> u = stack[1].fn
    BY <1>3 DEF Outermost
  <1>6. PICK t \in Tables : t = stack[1].fn /\ Outermost(t)
    BY <1>4, <1>5
  <1>7. Made = stack[1].at
    BY <1>3 DEF Made
  <1>8. stack[1].at \in 1 .. Size(t) /\ Walked(t, Made) /\ (t = "xi" => Walked("xc", 0))
    BY <1>1, <1>3, <1>6 DEF TablesOK
  <1>9. SubSeq(stack, 1, Len(stack) - 2) = <<>>
    <2>1. SubSeq(stack, 1, 0) \in Seq(Frame) /\ Len(SubSeq(stack, 1, 0)) = 0
      BY <1>3, SubSeqOfSeq
    <2> QED
      BY <1>3, <2>1, EmptySeq
  <1>10. /\ initDone /\ ~failed /\ phase \in {"objects", "over"}
         /\ stack[1].fn \in {"xi", "xc"} => phase = "objects"
    BY <1>1, <1>2, <1>3, <1>4 DEF PhaseOK, Tables
  <1> QED
    BY <1>2, <1>3, <1>4, <1>5, <1>6, <1>7, <1>8, <1>9, <1>10

\* The walk of table t, alone on the stack, has called the first k entries.
LEMMA OneWalk ==
    ASSUME TablesOK, UNCHANGED tables, initDone, ~failed, NEW t \in Tables,
           Size(t) \in Nat, NEW k \in 0 .. Size(t), Walked(t, k),
           Len(stack') = 1, stack'[1] = Call(t, k + 1),
           t = "xi" => Walked("xc", 0),
           t = "xc" => Walked("xi", CInits)
    PROVE  TablesOK'
  <1>1. \A u, j : Walked(u, j)' <=> Walked(u, j)
    BY DEF Walked, tables
  <1>2. stack'[1].fn = t /\ stack'[1].at = k + 1
    BY DEF Call
  <1>3. \A u : Outermost(u)' <=> u = t
    BY <1>2 DEF Outermost
  <1>4. Made' = k
    BY <1>2 DEF Made
  <1>5. Walked(t, k)'
    BY <1>1
  <1>6. Walked(t, Made)'
    BY <1>4, <1>5 DEF Walked
  <1>7. /\ DOMAIN ran' = Tables
        /\ \A u \in Tables : \E j \in 0 .. Size(u) : Walked(u, j)'
        /\ ~initDone' => Walked("xi", 0)'
        /\ ~uninitDone' => Walked("xt", 0)'
        /\ Walked("xc", 0)' \/ Walked("xi", CInits)'
        /\ Outermost("xc")' => Walked("xi", CInits)'
        /\ ~initDone' \/ failed' \/ Outermost("xi")' => Walked("xc", 0)'
    BY <1>1, <1>3 DEF TablesOK, tables
  <1>8. stack'[1].at \in 1 .. Size(t) + 1
    BY <1>2
  <1> QED
    BY <1>3, <1>6, <1>7, <1>8 DEF TablesOK

LEMMA EntryReturnsStep ==
    ASSUME IInv, EntryReturns
    PROVE  IInv'
  <1>1. StackOK /\ PhaseOK /\ TablesOK /\ LivesOK /\ ListsOK
    BY DEF IInv
  <1>2. /\ Len(stack) = 2 /\ stack # <<>> /\ stack[1] \in Frame
        /\ SubSeq(stack, 1, Len(stack) - 2) = <<>> /\ stack[Len(stack) - 1] = stack[1]
        /\ initDone /\ ~failed /\ phase \in {"objects", "over"}
    BY EntryIs DEF EntryReturns
  <1>3. PICK t \in Tables : t = stack[1].fn
    BY EntryIs DEF EntryReturns
  <1>4. PICK k \in 1 .. Size(t) : k = stack[1].at
    BY <1>3, EntryIs DEF EntryReturns
  <1>5. /\ Walked(t, k) /\ (t = "xi" => Walked("xc", 0)) /\ (t = "xc" => Walked("xi", CInits))
        /\ \A u : Outermost(u) <=> u = t
    BY <1>1, <1>3, <1>4, EntryIs DEF EntryReturns, TablesOK
  <1>6. Size(t) \in Nat /\ k \in Nat /\ k \in 0 .. Size(t)
    BY <1>4, Sizes
  <1>7. PICK c \in Frame : c = Call(t, k + 1) /\ c.fn = t /\ c.at = k + 1
    BY <1>6, CallIs
  <1>8. /\ stack' = <<c>> /\ UNCHANGED <<tables, objects, phase>>
    <2>1. [stack[1] EXCEPT !.at = @ + 1] = c
      BY <1>2, <1>3, <1>4, <1>7 DEF Call, Frame
    <2>2. stack' = Append(<<>>, [stack[1] EXCEPT !.at = @ + 1])
      BY <1>2 DEF EntryReturns
    <2>3. stack' = <<c>>
      BY <2>1, <2>2
    <2> QED
      BY <2>3 DEF EntryReturns
  <1>9. stack' \in Seq(Frame) /\ Len(stack') = 1 /\ stack'[1] = c /\ stack' # <<>>
    BY <1>8, OneFrame
  <1>10. \A i \in 1 .. Len(stack') : i = 1
    BY <1>9
  <1>11. c.fn \notin {"entry", "ctor", "dtor", "ctors"}
    BY <1>7 DEF Tables
  <1>12. StackOK'
    BY <1>9, <1>10, <1>11 DEF StackOK
  <1>13. PhaseOK'
    BY <1>1, <1>2, <1>3, <1>7, <1>8, <1>9, PhaseKeep DEF tables
  <1>14. TablesOK'
    BY <1>1, <1>2, <1>5, <1>6, <1>7, <1>8, <1>9, OneWalk
  <1>15. LivesOK'
    BY <1>1, <1>2, <1>8, <1>9, <1>10, <1>11, LivesKeep DEF objects, Outermost
  <1>16. ListsOK'
    BY <1>1, <1>8, <1>9, ListsKeep
  <1> QED
    BY <1>12, <1>13, <1>14, <1>15, <1>16 DEF IInv

LEMMA EntryFailsStep ==
    ASSUME IInv, EntryFails
    PROVE  IInv'
  <1>1. StackOK /\ PhaseOK /\ TablesOK /\ LivesOK /\ ListsOK
    BY DEF IInv
  <1>2. /\ stack[1].fn = "xi" /\ SubSeq(stack, 1, Len(stack) - 2) = <<>>
        /\ initDone /\ ~failed /\ phase = "objects" /\ Walked("xc", 0)
        /\ Len(stack) = 2
    BY EntryIs DEF EntryFails
  <1>3. /\ stack' = <<>> /\ failed' = TRUE /\ phase' = "over"
        /\ UNCHANGED <<initDone, uninitDone, ran, objects>>
    BY <1>2 DEF EntryFails
  <1>4. stack' \in Seq(Frame) /\ Len(stack') = 0
    BY <1>3
  <1>5. StackOK'
    BY <1>4 DEF StackOK
  <1>6. PhaseOK'
    BY <1>1, <1>2, <1>3, <1>4 DEF PhaseOK, Outermost
  <1>7. TablesOK'
    <2>1. \A t, k : Walked(t, k)' <=> Walked(t, k)
      BY <1>3 DEF Walked
    <2>2. \A u : ~Outermost(u)'
      BY <1>4 DEF Outermost
    <2> QED
      BY <1>1, <1>2, <1>3, <2>1, <2>2 DEF TablesOK
  <1>8. LivesOK'
    BY <1>1, <1>2, <1>3, <1>4, LivesKeep DEF objects, Outermost
  <1>9. ListsOK'
    BY <1>1, <1>3, ListsKeep
  <1> QED
    BY <1>5, <1>6, <1>7, <1>8, <1>9 DEF IInv

LEMMA WalkEndsStep ==
    ASSUME IInv, NEW t \in Tables, WalkEnds(t)
    PROVE  IInv'
  <1>1. StackOK /\ PhaseOK /\ TablesOK /\ LivesOK /\ ListsOK
    BY DEF IInv
  <1>2. /\ Len(stack) = 1 /\ Top = stack[1] /\ stack[1] \in Frame /\ stack[1].fn = t
        /\ Size(t) \in Nat /\ initDone /\ ~failed /\ (t = "xi" => Walked("xc", 0))
        /\ stack[1].at \in 1 .. Size(t) + 1 /\ Walked(t, stack[1].at - 1)
        /\ stack # <<>>
    BY WalkIs DEF WalkEnds, Running
  <1>3. Walked(t, Size(t))
    <2>1. stack[1].at - 1 = Size(t)
      BY <1>2 DEF WalkEnds
    <2> QED
      BY <1>2, <2>1
  <1>4. UNCHANGED <<tables, objects, phase>>
    BY DEF WalkEnds
  <1>5. phase # "uninit"
    BY <1>1, <1>2 DEF PhaseOK, Tables
  <1>6. CASE t = "xi"
    <2>1. PICK c \in Frame : c = Call("xc", 1) /\ c.fn = "xc" /\ c.at = 1
      BY CallIs DEF Tables
    <2>2. Front(stack) = <<>>
      <3>1. stack \in Seq(Frame) /\ Len(stack) - 1 = 0
        BY <1>1, <1>2 DEF StackOK
      <3>2. SubSeq(stack, 1, 0) \in Seq(Frame) /\ Len(SubSeq(stack, 1, 0)) = 0
        BY <1>2, <3>1, SubSeqOfSeq
      <3> QED
        BY <3>1, <3>2, EmptySeq DEF Front
    <2>3. stack' = <<c>>
      BY <1>6, <2>1, <2>2 DEF WalkEnds, Replace
    <2>4. stack' \in Seq(Frame) /\ Len(stack') = 1 /\ stack'[1] = c /\ stack' # <<>>
      BY <2>3, OneFrame
    <2>5. \A i \in 1 .. Len(stack') : i = 1
      BY <2>4
    <2>6. StackOK'
      BY <2>1, <2>4, <2>5 DEF StackOK
    <2>7. PhaseOK'
      BY <1>1, <1>2, <1>4, <1>6, <2>1, <2>4 DEF PhaseOK, Outermost, tables
    <2>8. TablesOK'
      <3>1. PICK u \in Tables : u = "xc"
        BY DEF Tables
      <3>2. PICK k \in 0 .. Size(u) : k = 0
        BY Sizes
      <3>3. Walked(u, k) /\ Walked("xi", CInits) /\ stack'[1] = Call(u, k + 1) /\ Size(u) \in Nat
        BY <1>2, <1>3, <1>6, <2>1, <2>4, <3>1, <3>2, Sizes
      <3> QED
        BY <1>1, <1>2, <1>4, <2>4, <3>1, <3>3, OneWalk
    <2>9. LivesOK'
      BY <1>1, <1>2, <1>4, <2>1, <2>4, <2>5, LivesKeep DEF objects, Outermost
    <2>10. ListsOK'
      BY <1>1, <1>4, <2>4, ListsKeep
    <2> QED
      BY <2>6, <2>7, <2>8, <2>9, <2>10 DEF IInv
  <1>7. CASE t # "xi"
    <2>1. Pop
      BY <1>7 DEF WalkEnds
    <2>2. stack' = <<>> /\ Len(stack') = 0
      BY <1>1, <1>2, <2>1, PopIs
    <2>3. StackOK'
      BY <1>1, <1>2, <2>1, StackPop
    <2>4. PhaseOK'
      BY <1>1, <1>2, <1>4, <2>2, PhaseKeep DEF tables
    <2>5. TablesOK'
      BY <1>1, <1>4, <2>2, TablesKeep DEF Outermost
    <2>6. LivesOK'
      BY <1>1, <1>2, <1>4, <2>2, LivesKeep DEF objects, Outermost
    <2>7. ListsOK'
      BY <1>1, <1>4, <1>5, ListsKeep
    <2> QED
      BY <2>3, <2>4, <2>5, <2>6, <2>7 DEF IInv
  <1> QED
    BY <1>6, <1>7

\* global_crt_uninit.
LEMMA StartUninitStep ==
    ASSUME IInv, StartUninit
    PROVE  IInv'
  <1>1. StackOK /\ PhaseOK /\ TablesOK /\ LivesOK /\ ListsOK
    BY DEF IInv
  <1>2. PICK c \in Frame : c = Call("xt", 1) /\ c.fn = "xt" /\ c.at = 1
    BY CallIs DEF Tables
  <1>3. /\ phase = "uninit" /\ phase' = "over" /\ stack = <<>> /\ ~uninitDone /\ ~failed /\ initDone
        /\ Push(c) /\ uninitDone' = TRUE /\ UNCHANGED <<initDone, ran, failed, objects>>
    BY <1>1, <1>2 DEF StartUninit, PhaseOK
  <1>4. /\ StackOK' /\ Len(stack) = 0 /\ Len(stack') = 1 /\ stack'[1] = c /\ stack' # <<>>
        /\ \A fn : Outermost(fn)' <=> fn = "xt"
        /\ \A i \in 1 .. Len(stack') : stack'[i].fn \notin {"ctor", "dtor"}
    BY <1>1, <1>2, <1>3, FirstCall DEF Tables
  <1>5. PhaseOK'
    BY <1>1, <1>2, <1>3, <1>4 DEF PhaseOK
  <1>6. TablesOK'
    <2>1. \A t, k : Walked(t, k)' <=> Walked(t, k)
      BY <1>3 DEF Walked
    <2>2. Walked("xt", 0)'
      BY <1>1, <1>3, <2>1 DEF TablesOK
    <2>3. Made' = 0
      BY <1>2, <1>4 DEF Made
    <2>4. stack'[1].at \in 1 .. Size("xt") + 1 /\ Walked("xt", Made)'
      <3>1. stack'[1].at \in 1 .. Size("xt") + 1
        BY <1>2, <1>4, Sizes DEF Tables
      <3>2. Walked("xt", Made)'
        BY <2>2, <2>3 DEF Walked
      <3> QED
        BY <3>1, <3>2
    <2>5. /\ DOMAIN ran' = Tables
          /\ \A t \in Tables : \E k \in 0 .. Size(t) : Walked(t, k)'
          /\ Walked("xc", 0)' \/ Walked("xi", CInits)'
      BY <1>1, <1>3, <2>1 DEF TablesOK
    <2> QED
      BY <1>3, <1>4, <2>4, <2>5 DEF TablesOK
  <1>7. LivesOK'
    BY <1>1, <1>3, <1>4, LivesKeep DEF objects
  <1>8. ListsOK'
    BY <1>1, <1>3, ListsKeep
  <1> QED
    BY <1>4, <1>5, <1>6, <1>7, <1>8 DEF IInv

(***************************************************************************)
(* The steps of CppBase.cpp.                                               *)
(***************************************************************************)

\* A constructor, a destructor or destroy_objs_cpp is called.
LEMMA CallKeeps ==
    ASSUME IInv, NEW c \in Frame, c.fn \in {"ctor", "dtor", "destroy"}, Push(c),
           c.fn \in {"ctor", "dtor"} => c.at \in Object,
           stack = <<>> => phase = "main" /\ c.fn # "dtor",
           Len(stack) = 1 => stack[1].fn \notin Tables,
           UNCHANGED <<tables, phase>>
    PROVE  /\ StackOK' /\ PhaseOK' /\ TablesOK'
           /\ Len(stack) \in Nat /\ Len(stack') = Len(stack) + 1 /\ stack' # <<>>
           /\ stack'[Len(stack) + 1] = c
           /\ \A i \in 1 .. Len(stack) : stack'[i] = stack[i]
           /\ Outermost("ctors")' => Outermost("ctors") /\ stack'[1] = stack[1]
  <1>1. StackOK /\ PhaseOK /\ TablesOK
    BY DEF IInv
  <1>2. /\ Len(stack) \in Nat /\ Len(stack') = Len(stack) + 1 /\ stack' # <<>>
        /\ stack'[Len(stack) + 1] = c
        /\ \A i \in 1 .. Len(stack) : stack'[i] = stack[i]
    BY <1>1, PushIs
  <1>3. c.fn \notin Tables \cup {"ctors", "entry"}
    BY DEF Tables
  <1>4. StackOK'
    BY <1>1, <1>3, StackPush
  <1>5. CASE stack = <<>>
    <2>1. Len(stack) = 0 /\ stack'[1] = c /\ Len(stack') = 1
      BY <1>2, <1>5
    <2>2. \A fn : Outermost(fn)' => fn = c.fn
      BY <2>1 DEF Outermost
    <2>3. PhaseOK'
      BY <1>1, <1>2, <1>3, <1>5, <2>1, <2>2 DEF PhaseOK, tables, Tables
    <2>4. TablesOK'
      BY <1>1, <1>3, <2>2, TablesKeep
    <2> QED
      BY <1>2, <1>3, <1>4, <2>2, <2>3, <2>4
  <1>6. CASE stack # <<>>
    <2>1. Len(stack) >= 1 /\ 1 \in 1 .. Len(stack)
      BY <1>1, <1>6, TopIs
    <2>2. stack'[1] = stack[1]
      BY <1>2, <2>1
    <2>3. PhaseOK'
      BY <1>1, <1>6, <2>2, PhaseKeep DEF tables
    <2>4. ASSUME NEW t \in Tables, Outermost(t)'
          PROVE  Outermost(t) /\ stack'[1] = stack[1] /\ Len(stack) >= 2 /\ Len(stack') >= 2
      <3>1. stack[1].fn = t
        BY <2>2, <2>4 DEF Outermost
      <3>2. Len(stack) # 1
        BY <3>1
      <3>3. Len(stack) >= 2 /\ Len(stack') >= 2
        <4>1. PICK n \in Nat : n = Len(stack) /\ Len(stack') = n + 1
          BY <1>2
        <4> QED
          BY <2>1, <3>2, <4>1
      <3> QED
        BY <2>1, <2>2, <3>1, <3>3 DEF Outermost
    <2>5. TablesOK'
      BY <1>1, <2>4, TablesKeep
    <2>6. Outermost("ctors")' => Outermost("ctors")
      BY <2>1, <2>2 DEF Outermost
    <2> QED
      BY <1>2, <1>4, <2>2, <2>3, <2>5, <2>6
  <1> QED
    BY <1>5, <1>6

\* It returns.
LEMMA ReturnKeeps ==
    ASSUME IInv, stack # <<>>, Top.fn \in {"ctor", "dtor", "destroy"}, Pop,
           UNCHANGED <<tables, phase>>
    PROVE  /\ StackOK' /\ PhaseOK' /\ TablesOK'
           /\ Len(stack) \in Nat /\ Len(stack) >= 1 /\ Len(stack') = Len(stack) - 1
           /\ Top = stack[Len(stack)]
           /\ \A i \in 1 .. Len(stack') : stack'[i] = stack[i] /\ i \in 1 .. Len(stack)
                                          /\ i < Len(stack)
           /\ Outermost("ctors")' => Outermost("ctors") /\ stack'[1] = stack[1]
           /\ phase' = "uninit" /\ stack' = <<>> => Top.fn = "destroy"
  <1>1. StackOK /\ PhaseOK /\ TablesOK
    BY DEF IInv
  <1>2. PICK n \in Nat : n = Len(stack) /\ n >= 1 /\ Top = stack[n]
    BY <1>1, TopIs
  <1>3. /\ Len(stack') = n - 1
        /\ \A i \in 1 .. n - 1 : stack'[i] = stack[i]
        /\ stack' = <<>> <=> n = 1
    BY <1>1, <1>2, PopIs
  <1>4. StackOK' /\ (Len(stack') >= 1 => n >= 2 /\ stack'[1] = stack[1])
    BY <1>1, <1>2, StackPop
  <1>5. PhaseOK'
    BY <1>1, <1>4, PhaseKeep DEF tables
  <1>6. ASSUME NEW t \in Tables, Outermost(t)'
        PROVE  Outermost(t) /\ stack'[1] = stack[1] /\ Len(stack) >= 2 /\ Len(stack') >= 2
    <2>1. n >= 2 /\ stack'[1] = stack[1] /\ stack[1].fn = t
      BY <1>4, <1>6 DEF Outermost
    <2>2. stack[2].fn = "entry"
      BY <1>1, <1>2, <2>1 DEF StackOK
    <2>3. n # 2
      BY <1>2, <2>2
    <2> QED
      BY <1>2, <1>3, <2>1, <2>3 DEF Outermost
  <1>7. TablesOK'
    BY <1>1, <1>6, TablesKeep
  <1>8. Outermost("ctors")' => Outermost("ctors") /\ stack'[1] = stack[1]
    BY <1>2, <1>4 DEF Outermost
  <1>9. phase' = "uninit" /\ stack' = <<>> => Top.fn = "destroy"
    BY <1>1, <1>2, <1>3 DEF PhaseOK
  <1>10. \A i \in 1 .. n - 1 : i \in 1 .. n /\ i < n
    BY <1>2
  <1> QED
    BY <1>2, <1>3, <1>4, <1>5, <1>7, <1>8, <1>9, <1>10

\* An object whose life changes is not one of those under way.
LEMMA LivesChange ==
    ASSUME LivesOK, NEW o \in Object, NEW v \in {"live", "destroying", "dead", "constructing"},
           life' = [life EXCEPT ![o] = v],
           Len(stack) \in Nat, Len(stack') \in Nat,
           \A i \in 1 .. Len(stack') : stack'[i].fn \in {"ctor", "dtor"} =>
              i \in 1 .. Len(stack) /\ stack'[i] = stack[i] /\ stack[i].at # o,
           StackOK',
           phase' \in {"init", "objects"} => phase \in {"init", "objects"},
           o \in 1 .. Statics => life[o] # "unborn",
           Outermost("ctors")' => Outermost("ctors") /\ stack'[1] = stack[1]
    PROVE  LivesOK'
  <1>1. life \in [Object -> {"unborn", "constructing", "live", "destroying", "dead"}]
    BY DEF LivesOK
  <1>2. \A u \in Object \ {o} : life'[u] = life[u]
    BY <1>1
  <1>3. \A i \in 1 .. Len(stack') : stack'[i].fn \in {"ctor", "dtor"} => stack'[i].at \in Object
    BY DEF StackOK
  <1>4. life' \in [Object -> {"unborn", "constructing", "live", "destroying", "dead"}]
    BY <1>1
  <1>5. ASSUME NEW i \in 1 .. Len(stack')
        PROVE  /\ stack'[i].fn = "ctor" => life'[stack'[i].at] = "constructing"
               /\ stack'[i].fn = "dtor" => life'[stack'[i].at] = "destroying"
    <2>1. ASSUME stack'[i].fn \in {"ctor", "dtor"}
          PROVE  life'[stack'[i].at] = life[stack[i].at] /\ i \in 1 .. Len(stack) /\ stack'[i] = stack[i]
      BY <2>1, <1>2, <1>3
    <2> QED
      BY <2>1 DEF LivesOK
  <1>6. \A i, j \in 1 .. Len(stack') :
           i < j /\ stack'[i].fn \in {"ctor", "dtor"} /\ stack'[j].fn \in {"ctor", "dtor"}
              => stack'[i].at # stack'[j].at
    BY DEF LivesOK
  <1>7. 1 .. Statics \subseteq Object
    BY Sizes
  <1>8. phase' \in {"init", "objects"} => \A u \in 1 .. Statics : life'[u] = "unborn"
    BY <1>2, <1>7 DEF LivesOK
  <1>9. Outermost("ctors")' =>
           /\ stack'[1].at \in 1 .. Statics + 1
           /\ \A u \in stack'[1].at .. Statics : life'[u] = "unborn"
    <2> SUFFICES ASSUME Outermost("ctors")'
                 PROVE  /\ stack'[1].at \in 1 .. Statics + 1
                        /\ \A u \in stack'[1].at .. Statics : life'[u] = "unborn"
      OBVIOUS
    <2>1. PICK k \in 1 .. Statics + 1 : k = stack[1].at /\ k = stack'[1].at
      BY DEF LivesOK
    <2>2. \A u \in k .. Statics : life[u] = "unborn" /\ u \in 1 .. Statics
      BY <2>1, Sizes DEF LivesOK
    <2> QED
      BY <1>2, <1>7, <2>1, <2>2
  <1> QED
    BY <1>4, <1>5, <1>6, <1>8, <1>9 DEF LivesOK

\* A change of life that the lists do not show.
LEMMA ListsChange ==
    ASSUME ListsOK, LivesOK, NEW o \in Object, NEW v,
           life' = [life EXCEPT ![o] = v],
           life[o] # "live", v # "live",
           life[o] \in {"destroying", "dead"} <=> v \in {"destroying", "dead"},
           UNCHANGED <<order, atexit, unregistered>>,
           phase' = "uninit" /\ stack' = <<>> => atexit = <<>>
    PROVE  ListsOK'
  <1>1. \A u \in Object : /\ life'[u] = "live" <=> life[u] = "live"
                          /\ life'[u] \in {"live", "destroying", "dead"}
                                <=> life[u] \in {"live", "destroying", "dead"}
    BY DEF LivesOK
  <1> QED
    BY <1>1 DEF ListsOK

LEMMA StartObjectsStep ==
    ASSUME IInv, StartObjects
    PROVE  IInv'
  <1>1. StackOK /\ PhaseOK /\ TablesOK /\ LivesOK /\ ListsOK
    BY DEF IInv
  <1>2. PICK c \in Frame : c = Call("ctors", 1) /\ c.fn = "ctors" /\ c.at = 1
    BY CallIs
  <1>3. /\ phase = "objects" /\ phase' = "main" /\ stack = <<>> /\ Push(c)
        /\ UNCHANGED <<tables, objects>>
    BY <1>2 DEF StartObjects
  <1>4. /\ StackOK' /\ Len(stack) = 0 /\ Len(stack') = 1 /\ stack'[1] = c /\ stack' # <<>>
        /\ \A fn : Outermost(fn)' <=> fn = "ctors"
        /\ \A i \in 1 .. Len(stack') : stack'[i].fn \notin {"ctor", "dtor"}
    BY <1>1, <1>2, <1>3, FirstCall
  <1>5. PhaseOK'
    BY <1>1, <1>2, <1>3, <1>4 DEF PhaseOK, tables
  <1>6. TablesOK'
    BY <1>1, <1>3, <1>4, TablesKeep DEF Tables
  <1>7. LivesOK'
    <2>1. \A o \in 1 .. Statics : life[o] = "unborn"
      BY <1>1, <1>3 DEF LivesOK
    <2>2. stack'[1].at = 1 /\ 1 \in 1 .. Statics + 1
      BY <1>2, <1>4, Sizes
    <2>3. phase' \notin {"init", "objects"} /\ UNCHANGED life
      BY <1>3 DEF objects
    <2> QED
      BY <1>1, <1>4, <2>1, <2>2, <2>3 DEF LivesOK
  <1>8. ListsOK'
    BY <1>1, <1>3, ListsKeep
  <1> QED
    BY <1>4, <1>5, <1>6, <1>7, <1>8 DEF IInv

LEMMA StartDestroyStep ==
    ASSUME IInv, StartDestroy
    PROVE  IInv'
  <1>1. StackOK /\ PhaseOK /\ TablesOK /\ LivesOK /\ ListsOK
    BY DEF IInv
  <1>2. PICK c \in Frame : c = Call("destroy", 0) /\ c.fn = "destroy" /\ c.at = 0
    BY CallIs
  <1>3. /\ phase = "main" /\ phase' = "uninit" /\ stack = <<>> /\ Push(c)
        /\ UNCHANGED <<tables, objects>>
    BY <1>2 DEF StartDestroy
  <1>4. /\ StackOK' /\ Len(stack) = 0 /\ Len(stack') = 1 /\ stack'[1] = c /\ stack' # <<>>
        /\ \A fn : Outermost(fn)' <=> fn = "destroy"
        /\ \A i \in 1 .. Len(stack') : stack'[i].fn \notin {"ctor", "dtor"}
    BY <1>1, <1>2, <1>3, FirstCall
  <1>5. PhaseOK'
    BY <1>1, <1>2, <1>3, <1>4 DEF PhaseOK, tables
  <1>6. TablesOK'
    BY <1>1, <1>3, <1>4, TablesKeep DEF Tables
  <1>7. LivesOK'
    BY <1>1, <1>3, <1>4, LivesKeep DEF objects
  <1>8. ListsOK'
    BY <1>1, <1>3, <1>4, ListsKeep
  <1> QED
    BY <1>4, <1>5, <1>6, <1>7, <1>8 DEF IInv

\* initial_objs_cpp: the next initializer is called, or the walk ends.
LEMMA InitialObjsCppStep ==
    ASSUME IInv, InitialObjsCpp
    PROVE  IInv'
  <1>1. StackOK /\ PhaseOK /\ TablesOK /\ LivesOK /\ ListsOK
    BY DEF IInv
  <1>2. /\ Len(stack) = 1 /\ Top = stack[1] /\ stack[1] \in Frame /\ stack[1].fn = "ctors"
        /\ stack # <<>> /\ stack \in Seq(Frame)
    BY <1>1, TopIs DEF InitialObjsCpp, Running, StackOK
  <1>3. \A u : Outermost(u) <=> u = "ctors"
    BY <1>2 DEF Outermost
  <1>4. PICK k \in 1 .. Statics + 1 : k = stack[1].at /\ \A o \in k .. Statics : life[o] = "unborn"
    BY <1>1, <1>3 DEF LivesOK
  <1>5. phase = "main" /\ phase' = "main" /\ UNCHANGED <<tables, order, atexit, unregistered, phase>>
    BY <1>1, <1>2 DEF PhaseOK, InitialObjsCpp
  <1>6. CASE k > Statics
    <2>1. Pop /\ UNCHANGED objects
      BY <1>2, <1>4, <1>6 DEF InitialObjsCpp, objects
    <2>2. stack' = <<>> /\ Len(stack') = 0
      BY <1>1, <1>2, <2>1, PopIs
    <2>3. StackOK'
      BY <1>1, <1>2, <2>1, StackPop
    <2>4. PhaseOK'
      BY <1>1, <1>2, <1>5, <2>2, PhaseKeep DEF tables
    <2>5. TablesOK'
      BY <1>1, <1>5, <2>2, TablesKeep DEF Outermost
    <2>6. LivesOK'
      BY <1>1, <1>2, <1>5, <2>1, <2>2, LivesKeep DEF objects, Outermost
    <2>7. ListsOK'
      BY <1>1, <1>5, <2>1, ListsKeep
    <2> QED
      BY <2>3, <2>4, <2>5, <2>6, <2>7 DEF IInv
  <1>7. CASE ~(k > Statics)
    <2>1. k \in 1 .. Statics /\ k \in Object /\ k \in Nat /\ k + 1 \in 1 .. Statics + 1
          /\ life[k] = "unborn"
      BY <1>4, <1>7, Sizes
    <2>2. PICK c \in Frame : c = Call("ctors", k + 1) /\ c.fn = "ctors" /\ c.at = k + 1
      BY <2>1, CallIs
    <2>3. PICK d \in Frame : d = Call("ctor", k) /\ d.fn = "ctor" /\ d.at = k
      BY <2>1, CallIs DEF ProgramCode
    <2>4. Front(stack) = <<>>
      <3>1. Len(stack) - 1 = 0
        BY <1>2
      <3>2. SubSeq(stack, 1, 0) \in Seq(Frame) /\ Len(SubSeq(stack, 1, 0)) = 0
        BY <1>2, SubSeqOfSeq
      <3> QED
        BY <3>1, <3>2, EmptySeq DEF Front
    <2>5. stack' = <<>> \o <<c, d>> /\ life' = [life EXCEPT ![k] = "constructing"]
      BY <1>2, <1>4, <1>7, <2>2, <2>3, <2>4 DEF InitialObjsCpp, Construct
    <2>6. stack' = <<c, d>>
      BY <2>5
    <2>7. /\ stack' \in Seq(Frame) /\ Len(stack') = 2 /\ stack'[1] = c /\ stack'[2] = d
          /\ stack' # <<>>
      BY <2>6, TwoFrames
    <2>8. \A i \in 1 .. Len(stack') : i = 1 \/ i = 2
      BY <2>7
    <2>9. StackOK'
      BY <2>1, <2>2, <2>3, <2>7, <2>8 DEF StackOK, Tables
    <2>10. \A u : Outermost(u)' <=> u = "ctors"
      BY <2>2, <2>7 DEF Outermost
    <2>11. PhaseOK'
      BY <1>1, <1>2, <1>5, <2>2, <2>7, PhaseKeep DEF tables
    <2>12. TablesOK'
      BY <1>1, <1>5, <2>10, TablesKeep DEF Tables
    <2>13. LivesOK'
      <3>1. life' \in [Object -> {"unborn", "constructing", "live", "destroying", "dead"}]
        BY <1>1, <2>5 DEF LivesOK
      <3>2. \A u \in Object \ {k} : life'[u] = life[u]
        BY <1>1, <2>5 DEF LivesOK
      <3>3. life'[k] = "constructing"
        BY <1>1, <2>1, <2>5 DEF LivesOK
      <3>4. \A o \in k + 1 .. Statics : life'[o] = "unborn"
        <4>1. \A o \in k + 1 .. Statics : o \in k .. Statics /\ o # k /\ o \in Object
          BY <2>1, Sizes
        <4> QED
          BY <1>4, <3>2, <4>1
      <3>5. ASSUME NEW i \in 1 .. Len(stack'), NEW j \in 1 .. Len(stack'), i < j,
                   stack'[i].fn \in {"ctor", "dtor"}
            PROVE  FALSE
        <4>1. i = 1
          BY <2>7, <2>8, <3>5
        <4> QED
          BY <2>2, <2>7, <3>5, <4>1
      <3>6. phase' \notin {"init", "objects"}
        BY <1>5
      <3>7. /\ stack'[1].at \in 1 .. Statics + 1
            /\ \A o \in stack'[1].at .. Statics : life'[o] = "unborn"
        BY <2>1, <2>2, <2>7, <3>4
      <3>8. \A i \in 1 .. Len(stack') : /\ stack'[i].fn = "ctor" => life'[stack'[i].at] = "constructing"
                                        /\ stack'[i].fn = "dtor" => life'[stack'[i].at] = "destroying"
        BY <2>2, <2>3, <2>7, <2>8, <3>3
      <3> QED
        BY <3>1, <3>5, <3>6, <3>7, <3>8 DEF LivesOK
    <2>14. ListsOK'
      BY <1>1, <1>5, <2>1, <2>5, ListsChange
    <2> QED
      BY <2>9, <2>11, <2>12, <2>13, <2>14 DEF IInv
  <1> QED
    BY <1>6, <1>7

\* A function-local static is constructed.
LEMMA ConstructLocalStep ==
    ASSUME IInv, NEW o \in Local, ConstructLocal(o)
    PROVE  IInv'
  <1>1. StackOK /\ PhaseOK /\ TablesOK /\ LivesOK /\ ListsOK
    BY DEF IInv
  <1>2. o \in Object /\ o \in Nat /\ o \notin 1 .. Statics /\ 1 .. Statics \subseteq Object
    BY Sizes
  <1>3. PICK c \in Frame : c = Call("ctor", o) /\ c.fn = "ctor" /\ c.at = o
    BY <1>2, CallIs DEF ProgramCode
  <1>4. /\ InProgram /\ life[o] = "unborn" /\ life' = [life EXCEPT ![o] = "constructing"]
        /\ Push(c) /\ UNCHANGED <<tables, order, atexit, unregistered, phase>>
    BY <1>3 DEF ConstructLocal, Construct
  <1>5. PICK n \in Nat : n = Len(stack)
    BY <1>1, <1>4, PushIs
  <1>6. (stack = <<>> => phase = "main") /\ (n = 1 => stack[1].fn \notin Tables)
    BY <1>1, <1>4, <1>5, ProgramIs
  <1>7. /\ StackOK' /\ PhaseOK' /\ TablesOK' /\ stack' # <<>>
        /\ Len(stack') = n + 1 /\ stack'[n + 1] = c
        /\ \A i \in 1 .. n : stack'[i] = stack[i]
        /\ Outermost("ctors")' => Outermost("ctors") /\ stack'[1] = stack[1]
    BY <1>2, <1>3, <1>4, <1>5, <1>6, CallKeeps
  <1>8. \A i \in 1 .. n + 1 : i \in 1 .. n \/ i = n + 1
    BY <1>5
  <1>9. LivesOK'
    <2>1. life' \in [Object -> {"unborn", "constructing", "live", "destroying", "dead"}]
      BY <1>1, <1>4 DEF LivesOK
    <2>2. (\A u \in Object \ {o} : life'[u] = life[u]) /\ life'[o] = "constructing"
      BY <1>1, <1>2, <1>4 DEF LivesOK
    <2>3. \A i \in 1 .. n : stack[i].fn \in {"ctor", "dtor"} =>
             stack[i].at \in Object \ {o} /\ life'[stack[i].at] = life[stack[i].at]
      BY <1>1, <1>4, <1>5, <2>2 DEF StackOK, LivesOK
    <2>4. ASSUME NEW i \in 1 .. n + 1
          PROVE  /\ stack'[i].fn = "ctor" => life'[stack'[i].at] = "constructing"
                 /\ stack'[i].fn = "dtor" => life'[stack'[i].at] = "destroying"
      <3>1. CASE i \in 1 .. n
        BY <1>1, <1>5, <1>7, <2>3, <3>1 DEF LivesOK
      <3>2. CASE i = n + 1
        BY <1>3, <1>7, <2>2, <3>2
      <3> QED
        BY <1>8, <3>1, <3>2
    <2>5. ASSUME NEW i \in 1 .. n + 1, NEW j \in 1 .. n + 1, i < j,
                 stack'[i].fn \in {"ctor", "dtor"}, stack'[j].fn \in {"ctor", "dtor"}
          PROVE  stack'[i].at # stack'[j].at
      <3>1. i \in 1 .. n
        BY <2>5
      <3>2. CASE j \in 1 .. n
        BY <1>1, <1>5, <1>7, <2>5, <3>1, <3>2 DEF LivesOK
      <3>3. CASE j = n + 1
        BY <1>3, <1>7, <2>3, <2>5, <3>1, <3>3
      <3> QED
        BY <1>8, <3>2, <3>3
    <2>6. phase' \in {"init", "objects"} => \A u \in 1 .. Statics : life'[u] = "unborn"
      BY <1>1, <1>2, <1>4, <2>2 DEF LivesOK
    <2>7. Outermost("ctors")' =>
             /\ stack'[1].at \in 1 .. Statics + 1
             /\ \A u \in stack'[1].at .. Statics : life'[u] = "unborn"
      <3> SUFFICES ASSUME Outermost("ctors")'
                   PROVE  /\ stack'[1].at \in 1 .. Statics + 1
                          /\ \A u \in stack'[1].at .. Statics : life'[u] = "unborn"
        OBVIOUS
      <3>1. PICK k \in 1 .. Statics + 1 : k = stack[1].at /\ k = stack'[1].at
        BY <1>1, <1>7 DEF LivesOK
      <3>2. \A u \in k .. Statics : life[u] = "unborn" /\ u \in 1 .. Statics
        BY <1>1, <1>7, <3>1, Sizes DEF LivesOK
      <3> QED
        BY <1>2, <2>2, <3>1, <3>2
    <2> QED
      BY <1>7, <2>1, <2>4, <2>5, <2>6, <2>7 DEF LivesOK
  <1>10. ListsOK'
    BY <1>1, <1>2, <1>4, <1>7, ListsChange
  <1> QED
    BY <1>7, <1>9, <1>10 DEF IInv

\* destroy_objs_cpp is called, and returns.
LEMMA CallDestroyStep ==
    ASSUME IInv, CallDestroy
    PROVE  IInv'
  <1>1. StackOK /\ PhaseOK /\ TablesOK /\ LivesOK /\ ListsOK
    BY DEF IInv
  <1>2. PICK c \in Frame : c = Call("destroy", 0) /\ c.fn = "destroy" /\ c.at = 0
    BY CallIs
  <1>3. InProgram /\ Push(c) /\ UNCHANGED <<tables, objects, phase>>
    BY <1>2 DEF CallDestroy
  <1>4. PICK n \in Nat : n = Len(stack)
    BY <1>1, <1>3, PushIs
  <1>5. (stack = <<>> => phase = "main") /\ (n = 1 => stack[1].fn \notin Tables)
    BY <1>1, <1>3, <1>4, ProgramIs
  <1>6. /\ StackOK' /\ PhaseOK' /\ TablesOK' /\ stack' # <<>>
        /\ Len(stack') = n + 1 /\ stack'[n + 1] = c
        /\ \A i \in 1 .. n : stack'[i] = stack[i]
        /\ Outermost("ctors")' => Outermost("ctors") /\ stack'[1] = stack[1]
    BY <1>2, <1>3, <1>4, <1>5, CallKeeps
  <1>7. \A i \in 1 .. n + 1 : stack'[i].fn \in {"ctor", "dtor"} => i \in 1 .. n
    <2>1. \A i \in 1 .. n + 1 : i \in 1 .. n \/ i = n + 1
      BY <1>4
    <2> QED
      BY <1>2, <1>6, <2>1
  <1>8. LivesOK'
    BY <1>1, <1>3, <1>4, <1>6, <1>7, LivesKeep DEF objects
  <1>9. ListsOK'
    BY <1>1, <1>3, <1>6, ListsKeep
  <1> QED
    BY <1>6, <1>8, <1>9 DEF IInv

LEMMA DestroyEndsStep ==
    ASSUME IInv, DestroyEnds
    PROVE  IInv'
  <1>1. StackOK /\ PhaseOK /\ TablesOK /\ LivesOK /\ ListsOK
    BY DEF IInv
  <1>2. /\ stack # <<>> /\ Top.fn = "destroy" /\ atexit = <<>> /\ Pop
        /\ UNCHANGED <<tables, objects, phase>>
    BY DEF DestroyEnds, Running
  <1>3. /\ StackOK' /\ PhaseOK' /\ TablesOK'
        /\ Len(stack) \in Nat /\ Len(stack) >= 1 /\ Len(stack') = Len(stack) - 1
        /\ \A i \in 1 .. Len(stack') : stack'[i] = stack[i] /\ i \in 1 .. Len(stack)
        /\ Outermost("ctors")' => Outermost("ctors") /\ stack'[1] = stack[1]
    BY <1>2, ReturnKeeps
  <1>4. Len(stack') \in Nat
    BY <1>3
  <1>5. LivesOK'
    BY <1>1, <1>2, <1>3, <1>4, LivesKeep DEF objects
  <1>6. ListsOK'
    BY <1>1, <1>2, ListsKeep
  <1> QED
    BY <1>3, <1>5, <1>6 DEF IInv

\* A constructor or a destructor that ends: the objects of the calls below it
\* are others.
LEMMA EndOfObject ==
    ASSUME IInv, stack # <<>>, Top.fn \in {"ctor", "dtor"}, Pop,
           UNCHANGED <<tables, phase>>, NEW v \in {"live", "dead"},
           life' = [life EXCEPT ![Top.at] = v]
    PROVE  /\ Top.at \in Object
           /\ Top.fn = "ctor" => life[Top.at] = "constructing"
           /\ Top.fn = "dtor" => life[Top.at] = "destroying"
           /\ StackOK' /\ PhaseOK' /\ TablesOK' /\ LivesOK'
           /\ ~(phase' = "uninit" /\ stack' = <<>>)
  <1>1. StackOK /\ LivesOK
    BY DEF IInv
  <1>2. /\ StackOK' /\ PhaseOK' /\ TablesOK' /\ Len(stack) \in Nat /\ Len(stack) >= 1
        /\ Len(stack') = Len(stack) - 1 /\ Top = stack[Len(stack)]
        /\ \A i \in 1 .. Len(stack') : stack'[i] = stack[i] /\ i \in 1 .. Len(stack)
                                       /\ i < Len(stack)
        /\ Outermost("ctors")' => Outermost("ctors") /\ stack'[1] = stack[1]
        /\ ~(phase' = "uninit" /\ stack' = <<>>)
    BY ReturnKeeps
  <1>3. PICK o : o = Top.at
    OBVIOUS
  <1>4. PICK n \in Nat : n = Len(stack) /\ n \in 1 .. Len(stack) /\ stack[n] = Top
    BY <1>2
  <1>5. /\ o \in Object
        /\ Top.fn = "ctor" => life[o] = "constructing"
        /\ Top.fn = "dtor" => life[o] = "destroying"
    BY <1>1, <1>3, <1>4 DEF StackOK, LivesOK
  <1>6. \A i \in 1 .. Len(stack') : stack'[i].fn \in {"ctor", "dtor"} =>
           i \in 1 .. Len(stack) /\ stack'[i] = stack[i] /\ stack[i].at # o
    BY <1>1, <1>2, <1>3, <1>4 DEF LivesOK
  <1>7. Len(stack') \in Nat /\ life[o] # "unborn"
    BY <1>2, <1>5
  <1>8. life' = [life EXCEPT ![o] = v]
    BY <1>3
  <1>9. UNCHANGED phase
    OBVIOUS
  <1>10. LivesOK'
    BY <1>1, <1>2, <1>5, <1>6, <1>7, <1>8, <1>9, LivesChange
  <1> QED
    BY <1>2, <1>3, <1>5, <1>10

LEMMA DestructedStep ==
    ASSUME IInv, Destructed
    PROVE  IInv'
  <1>1. LivesOK /\ ListsOK
    BY DEF IInv
  <1>2. /\ stack # <<>> /\ Top.fn = "dtor" /\ Pop /\ life' = [life EXCEPT ![Top.at] = "dead"]
        /\ UNCHANGED <<tables, order, atexit, unregistered, phase>>
    BY DEF Destructed, Running
  <1>3. /\ Top.at \in Object /\ life[Top.at] = "destroying"
        /\ StackOK' /\ PhaseOK' /\ TablesOK' /\ LivesOK'
        /\ ~(phase' = "uninit" /\ stack' = <<>>)
    BY <1>2, EndOfObject
  <1>4. PICK o \in Object : o = Top.at
    BY <1>3
  <1>5. ListsOK'
    BY <1>1, <1>2, <1>3, <1>4, ListsChange
  <1> QED
    BY <1>3, <1>5 DEF IInv

\* An element is appended to a sequence, or put before it.
LEMMA AppendIs ==
    ASSUME NEW S, NEW s \in Seq(S), NEW e \in S
    PROVE  /\ Append(s, e) \in Seq(S) /\ Len(s) \in Nat
           /\ Len(Append(s, e)) = Len(s) + 1
           /\ \A i \in 1 .. Len(s) : Append(s, e)[i] = s[i]
           /\ Append(s, e)[Len(s) + 1] = e
  BY AppendProperties, LenProperties

LEMMA PrependIs ==
    ASSUME NEW S, NEW s \in Seq(S), NEW e \in S
    PROVE  /\ <<e>> \o s \in Seq(S) /\ Len(s) \in Nat
           /\ Len(<<e>> \o s) = Len(s) + 1
           /\ (<<e>> \o s)[1] = e
           /\ \A i \in 1 .. Len(s) : (<<e>> \o s)[i + 1] = s[i]
  <1>1. <<e>> \in Seq(S) /\ Len(<<e>>) = 1 /\ <<e>>[1] = e
    OBVIOUS
  <1>2. Len(s) \in Nat
    BY LenProperties
  <1>3. /\ <<e>> \o s \in Seq(S) /\ Len(<<e>> \o s) = 1 + Len(s)
        /\ \A i \in 1 .. Len(<<e>>) + Len(s) :
              (<<e>> \o s)[i] = IF i <= Len(<<e>>) THEN <<e>>[i] ELSE s[i - Len(<<e>>)]
    BY <1>1, ConcatProperties
  <1>4. \A i \in 1 .. Len(s) : i + 1 \in 1 .. 1 + Len(s) /\ ~(i + 1 <= 1) /\ (i + 1) - 1 = i
    BY <1>2
  <1>5. 1 \in 1 .. 1 + Len(s)
    BY <1>2
  <1> QED
    BY <1>1, <1>2, <1>3, <1>4, <1>5

LEMMA TailIs ==
    ASSUME NEW S, NEW s \in Seq(S), s # <<>>
    PROVE  /\ Tail(s) \in Seq(S) /\ Len(s) \in Nat /\ Len(s) >= 1
           /\ Head(s) = s[1] /\ Head(s) \in S
           /\ Len(Tail(s)) = Len(s) - 1
           /\ \A i \in 1 .. Len(s) - 1 : Tail(s)[i] = s[i + 1]
  BY HeadTailProperties, EmptySeq, LenProperties

\* atexit_cpp: the new node heads the list, or there is none.
LEMMA ConstructedStep ==
    ASSUME IInv, Constructed
    PROVE  IInv'
  <1>1. LivesOK /\ ListsOK
    BY DEF IInv
  <1>2. /\ stack # <<>> /\ Top.fn = "ctor" /\ Pop /\ life' = [life EXCEPT ![Top.at] = "live"]
        /\ UNCHANGED <<tables, phase>>
    BY DEF Constructed, Running
  <1>3. /\ Top.at \in Object /\ life[Top.at] = "constructing"
        /\ StackOK' /\ PhaseOK' /\ TablesOK' /\ LivesOK'
        /\ ~(phase' = "uninit" /\ stack' = <<>>)
    BY <1>2, EndOfObject
  <1>4. PICK o \in Object : o = Top.at
    BY <1>3
  <1>5. order' = Append(order, o) /\ AtexitCpp(o) /\ life[o] = "constructing"
    BY <1>3, <1>4 DEF Constructed
  <1>6. /\ life'[o] = "live" /\ \A u \in Object \ {o} : life'[u] = life[u]
        /\ order \in Seq(Object) /\ atexit \in Seq(Object)
    BY <1>1, <1>2, <1>4 DEF LivesOK, ListsOK
  <1>6a. /\ \A u \in unregistered : u \in Object /\ life[u] = "live"
         /\ \A u \in Object : (\E k \in 1 .. Len(atexit) : atexit[k] = u)
                                <=> life[u] = "live" /\ u \notin unregistered
    BY <1>1 DEF ListsOK
  <1>7. PICK m \in Nat : m = Len(order)
    BY <1>6, LenProperties
  <1>8. /\ order' \in Seq(Object) /\ Len(order') = m + 1 /\ order'[m + 1] = o
        /\ \A k \in 1 .. m : order'[k] = order[k]
        /\ DOMAIN order' = 1 .. m + 1 /\ DOMAIN order = 1 .. m
    BY <1>5, <1>6, <1>7, AppendIs, LenProperties
  <1>9. /\ \A k \in 1 .. m + 1 : k \in 1 .. m \/ k = m + 1
        /\ \A k \in 1 .. m : k \in 1 .. m + 1
        /\ m + 1 \in 1 .. m + 1
    BY <1>7
  <1>10. \A k \in 1 .. m : order[k] # o
    BY <1>1, <1>5, <1>7 DEF ListsOK
  <1>11. IsInjective(order')
    <2> SUFFICES ASSUME NEW a \in 1 .. m + 1, NEW b \in 1 .. m + 1, order'[a] = order'[b]
                 PROVE  a = b
      BY <1>8 DEF IsInjective
    <2>1. \A x, y \in 1 .. m : order[x] = order[y] => x = y
      BY <1>1, <1>8 DEF ListsOK, IsInjective
    <2>2. CASE a \in 1 .. m /\ b \in 1 .. m
      <3>1. order[a] = order[b]
        BY <1>8, <2>2
      <3> QED
        BY <2>1, <2>2, <3>1
    <2>3. CASE a = m + 1 \/ b = m + 1
      BY <1>8, <1>9, <1>10, <2>3
    <2> QED
      BY <1>9, <2>2, <2>3
  <1>12. ASSUME NEW u \in Object
         PROVE  (\E k \in 1 .. Len(order') : order'[k] = u)
                   <=> life'[u] \in {"live", "destroying", "dead"}
    <2>1. CASE u = o
      BY <1>6, <1>8, <1>9, <2>1
    <2>2. CASE u # o
      <3>1. (\E k \in 1 .. m + 1 : order'[k] = u) <=> (\E k \in 1 .. m : order[k] = u)
        BY <1>8, <1>9, <2>2
      <3> QED
        BY <1>1, <1>6, <1>7, <1>8, <2>2, <3>1 DEF ListsOK
    <2> QED
      BY <2>1, <2>2
  <1>13. \A i, j \in 1 .. Len(atexit) : i < j =>
            \E k, l \in 1 .. Len(order') :
               k > l /\ order'[k] = atexit[i] /\ order'[l] = atexit[j]
    BY <1>1, <1>7, <1>8, <1>9 DEF ListsOK
  <1>14. \A i \in 1 .. Len(atexit) : atexit[i] # o /\ atexit[i] \in Object
         /\ \E l \in 1 .. m : order[l] = atexit[i]
    <2>1. \A i \in 1 .. Len(atexit) : atexit[i] \in Object
      BY <1>6, ElementOfSeq
    <2>2. \A i \in 1 .. Len(atexit) : life[atexit[i]] = "live"
      BY <1>1, <2>1 DEF ListsOK
    <2>3. \A i \in 1 .. Len(atexit) : \E l \in 1 .. m : order[l] = atexit[i]
      BY <1>1, <1>7, <2>1, <2>2 DEF ListsOK
    <2>4. \A i \in 1 .. Len(atexit) : atexit[i] # o
      BY <1>5, <2>2
    <2> QED
      BY <2>1, <2>3, <2>4
  <1>15. \A u \in unregistered : u \in Object /\ u # o /\ life'[u] = "live"
    <2>1. \A u \in unregistered : u # o
      BY <1>5, <1>6a
    <2> QED
      BY <1>6, <1>6a, <2>1
  <1>16. CASE atexit' = <<o>> \o atexit /\ UNCHANGED unregistered
    <2>1. PICK p \in Nat : p = Len(atexit)
      BY <1>6, LenProperties
    <2>2. /\ atexit' \in Seq(Object) /\ Len(atexit') = p + 1 /\ atexit'[1] = o
          /\ \A i \in 1 .. p : atexit'[i + 1] = atexit[i]
      BY <1>6, <1>16, <2>1, PrependIs
    <2>3. /\ \A i \in 1 .. p + 1 : i = 1 \/ \E h \in 1 .. p : i = h + 1
          /\ \A h \in 1 .. p : h + 1 \in 1 .. p + 1
          /\ 1 \in 1 .. p + 1
      <3>1. \A i \in 1 .. p + 1 : i = 1 \/ (i - 1 \in 1 .. p /\ i = (i - 1) + 1)
        BY <2>1
      <3> QED
        BY <2>1, <3>1
    <2>4. ASSUME NEW u \in Object
          PROVE  (\E k \in 1 .. Len(atexit') : atexit'[k] = u)
                    <=> life'[u] = "live" /\ u \notin unregistered'
      <3>1. CASE u = o
        <4>1. o \notin unregistered' /\ life'[o] = "live"
          BY <1>6, <1>15, <1>16
        <4>2. 1 \in 1 .. Len(atexit') /\ atexit'[1] = o
          BY <2>2, <2>3
        <4> QED
          BY <3>1, <4>1, <4>2
      <3>2. CASE u # o
        <4>1. (\E k \in 1 .. p + 1 : atexit'[k] = u) <=> (\E k \in 1 .. p : atexit[k] = u)
          <5>1. ASSUME NEW k \in 1 .. p + 1, atexit'[k] = u
                PROVE  \E h \in 1 .. p : atexit[h] = u
            <6>1. PICK h \in 1 .. p : k = h + 1
              BY <2>2, <2>3, <3>2, <5>1
            <6> QED
              BY <2>2, <5>1, <6>1
          <5>2. ASSUME NEW h \in 1 .. p, atexit[h] = u
                PROVE  \E k \in 1 .. p + 1 : atexit'[k] = u
            BY <2>2, <2>3, <5>2
          <5> QED
            BY <5>1, <5>2
        <4> QED
          <5>1. life'[u] = life[u] /\ (u \in unregistered' <=> u \in unregistered)
            BY <1>6, <1>16, <3>2
          <5>2. Len(atexit') = p + 1 /\ Len(atexit) = p
            BY <2>1, <2>2
          <5> QED
            BY <1>6a, <4>1, <5>1, <5>2
      <3> QED
        BY <3>1, <3>2
    <2>5. ASSUME NEW i \in 1 .. p + 1, NEW j \in 1 .. p + 1, i < j
          PROVE  \E k, l \in 1 .. Len(order') :
                    k > l /\ order'[k] = atexit'[i] /\ order'[l] = atexit'[j]
      <3>1. PICK h \in 1 .. p : j = h + 1
        BY <2>3, <2>5
      <3>2. atexit'[j] = atexit[h]
        BY <2>2, <3>1
      <3>3. CASE i = 1
        <4>1. PICK l \in 1 .. m : order[l] = atexit[h]
          BY <1>14, <2>1, <3>1
        <4>2. m + 1 > l /\ l \in 1 .. m + 1 /\ order'[l] = atexit[h]
          BY <1>8, <4>1
        <4> QED
          BY <1>8, <1>9, <2>2, <3>2, <3>3, <4>2
      <3>4. ASSUME NEW g \in 1 .. p, i = g + 1
            PROVE  \E k, l \in 1 .. Len(order') :
                      k > l /\ order'[k] = atexit'[i] /\ order'[l] = atexit'[j]
        <4>1. g < h /\ atexit'[i] = atexit[g]
          BY <2>2, <2>5, <3>1, <3>4
        <4> QED
          BY <1>13, <2>1, <3>1, <3>2, <4>1
      <3> QED
        BY <2>3, <3>3, <3>4
    <2>6. unregistered' \subseteq {u \in Object : life'[u] = "live"}
      BY <1>15, <1>16
    <2> QED
      BY <1>3, <1>8, <1>11, <1>12, <2>2, <2>4, <2>5, <2>6 DEF IInv, ListsOK
  <1>17. CASE unregistered' = unregistered \cup {o} /\ UNCHANGED atexit
    <2>1. ASSUME NEW u \in Object
          PROVE  (\E k \in 1 .. Len(atexit') : atexit'[k] = u)
                    <=> life'[u] = "live" /\ u \notin unregistered'
      <3>1. CASE u = o
        BY <1>14, <1>17, <3>1
      <3>2. CASE u # o
        BY <1>6, <1>6a, <1>17, <3>2
      <3> QED
        BY <3>1, <3>2
    <2>2. unregistered' \subseteq {u \in Object : life'[u] = "live"}
      BY <1>6, <1>15, <1>17
    <2> QED
      BY <1>3, <1>6, <1>8, <1>11, <1>12, <1>13, <1>17, <2>1, <2>2 DEF IInv, ListsOK
  <1> QED
    BY <1>5, <1>16, <1>17 DEF AtexitCpp

\* destroy_objs_cpp: the head of the list is removed and its destructor called.
LEMMA DestroyObjsCppStep ==
    ASSUME IInv, DestroyObjsCpp
    PROVE  IInv'
  <1>1. StackOK /\ PhaseOK /\ TablesOK /\ LivesOK /\ ListsOK
    BY DEF IInv
  <1>2. atexit \in Seq(Object) /\ atexit # <<>> /\ atexit' = Tail(atexit)
    BY <1>1 DEF ListsOK, DestroyObjsCpp
  <1>3. PICK p \in Nat : p = Len(atexit) /\ p >= 1 /\ p - 1 \in Nat
    BY <1>2, TailIs
  <1>4. PICK o \in Object : o = Head(atexit) /\ o = atexit[1]
    BY <1>2, TailIs
  <1>5. /\ atexit' \in Seq(Object) /\ Len(atexit') = p - 1
        /\ \A i \in 1 .. p - 1 : atexit'[i] = atexit[i + 1] /\ i + 1 \in 1 .. p
    BY <1>2, <1>3, TailIs
  <1>6. PICK c \in Frame : c = Call("dtor", o) /\ c.fn = "dtor" /\ c.at = o
    <2>1. o \in Nat
      BY Sizes
    <2> QED
      BY <2>1, CallIs DEF ProgramCode
  <1>7. /\ stack # <<>> /\ Top.fn = "destroy" /\ Push(c)
        /\ life' = [life EXCEPT ![o] = "destroying"]
        /\ UNCHANGED <<tables, order, unregistered, phase>>
    BY <1>4, <1>6 DEF DestroyObjsCpp, Running
  <1>8. life[o] = "live" /\ o \notin unregistered
    BY <1>1, <1>3, <1>4 DEF ListsOK
  <1>9. PICK n \in Nat : n = Len(stack) /\ Top = stack[n]
    BY <1>1, <1>7, TopIs
  <1>10. n = 1 => stack[1].fn \notin Tables
    BY <1>7, <1>9 DEF Tables
  <1>11. /\ StackOK' /\ PhaseOK' /\ TablesOK' /\ stack' # <<>>
         /\ Len(stack') = n + 1 /\ stack'[n + 1] = c
         /\ \A i \in 1 .. n : stack'[i] = stack[i]
         /\ Outermost("ctors")' => Outermost("ctors") /\ stack'[1] = stack[1]
    BY <1>6, <1>7, <1>9, <1>10, CallKeeps
  <1>12. \A i \in 1 .. n + 1 : i \in 1 .. n \/ i = n + 1
    BY <1>9
  <1>13. LivesOK'
    <2>1. life' \in [Object -> {"unborn", "constructing", "live", "destroying", "dead"}]
      BY <1>1, <1>7 DEF LivesOK
    <2>2. (\A u \in Object \ {o} : life'[u] = life[u]) /\ life'[o] = "destroying"
      BY <1>1, <1>7 DEF LivesOK
    <2>3. \A i \in 1 .. n : stack[i].fn \in {"ctor", "dtor"} =>
             stack[i].at \in Object \ {o} /\ life'[stack[i].at] = life[stack[i].at]
      BY <1>1, <1>8, <1>9, <2>2 DEF StackOK, LivesOK
    <2>4. ASSUME NEW i \in 1 .. n + 1
          PROVE  /\ stack'[i].fn = "ctor" => life'[stack'[i].at] = "constructing"
                 /\ stack'[i].fn = "dtor" => life'[stack'[i].at] = "destroying"
      <3>1. CASE i \in 1 .. n
        BY <1>1, <1>9, <1>11, <2>3, <3>1 DEF LivesOK
      <3>2. CASE i = n + 1
        BY <1>6, <1>11, <2>2, <3>2
      <3> QED
        BY <1>12, <3>1, <3>2
    <2>5. ASSUME NEW i \in 1 .. n + 1, NEW j \in 1 .. n + 1, i < j,
                 stack'[i].fn \in {"ctor", "dtor"}, stack'[j].fn \in {"ctor", "dtor"}
          PROVE  stack'[i].at # stack'[j].at
      <3>1. i \in 1 .. n
        BY <2>5
      <3>2. CASE j \in 1 .. n
        BY <1>1, <1>9, <1>11, <2>5, <3>1, <3>2 DEF LivesOK
      <3>3. CASE j = n + 1
        BY <1>6, <1>11, <2>3, <2>5, <3>1, <3>3
      <3> QED
        BY <1>12, <3>2, <3>3
    <2>6. 1 .. Statics \subseteq Object
      BY Sizes
    <2>7. phase' \in {"init", "objects"} => \A u \in 1 .. Statics : life'[u] = "unborn"
      BY <1>1, <1>7, <1>8, <2>2, <2>6 DEF LivesOK
    <2>8. Outermost("ctors")' =>
             /\ stack'[1].at \in 1 .. Statics + 1
             /\ \A u \in stack'[1].at .. Statics : life'[u] = "unborn"
      <3> SUFFICES ASSUME Outermost("ctors")'
                   PROVE  /\ stack'[1].at \in 1 .. Statics + 1
                          /\ \A u \in stack'[1].at .. Statics : life'[u] = "unborn"
        OBVIOUS
      <3>1. PICK k \in 1 .. Statics + 1 : k = stack[1].at /\ k = stack'[1].at
        BY <1>1, <1>11 DEF LivesOK
      <3>2. \A u \in k .. Statics : life[u] = "unborn" /\ u \in 1 .. Statics /\ u # o
        BY <1>1, <1>8, <1>11, <3>1, Sizes DEF LivesOK
      <3> QED
        BY <2>2, <2>6, <3>1, <3>2
    <2> QED
      BY <1>11, <2>1, <2>4, <2>5, <2>7, <2>8 DEF LivesOK
  <1>14. ListsOK'
    <2>1. \A u \in Object : life'[u] \in {"live", "destroying", "dead"}
                               <=> life[u] \in {"live", "destroying", "dead"}
      BY <1>1, <1>7, <1>8 DEF LivesOK
    <2>2. \A u \in Object : life'[u] = "live" <=> life[u] = "live" /\ u # o
      BY <1>1, <1>7, <1>8 DEF LivesOK
    <2>3. \A i \in 1 .. p : i # 1 => atexit[i] # o
      <3> SUFFICES ASSUME NEW i \in 1 .. p, i # 1
                   PROVE  atexit[i] # o
        OBVIOUS
      <3>1. 1 \in 1 .. p /\ 1 < i
        BY <1>3
      <3>5. \A x, y \in 1 .. p : x < y =>
               \E k, l \in 1 .. Len(order) :
                  k > l /\ order[k] = atexit[x] /\ order[l] = atexit[y]
        BY <1>1, <1>3 DEF ListsOK
      <3>2. PICK k \in 1 .. Len(order), l \in 1 .. Len(order) :
               k > l /\ order[k] = atexit[1] /\ order[l] = atexit[i]
        BY <3>1, <3>5
      <3>3. k # l /\ k \in DOMAIN order /\ l \in DOMAIN order
        <4>1. order \in Seq(Object)
          BY <1>1 DEF ListsOK
        <4>2. DOMAIN order = 1 .. Len(order) /\ Len(order) \in Nat
          BY <4>1, LenProperties
        <4> QED
          BY <3>2, <4>2
      <3>4. order[k] # order[l]
        BY <1>1, <3>3 DEF ListsOK, IsInjective
      <3> QED
        BY <1>4, <3>2, <3>4
    <2>4. ASSUME NEW u \in Object
          PROVE  (\E k \in 1 .. Len(atexit') : atexit'[k] = u)
                    <=> life'[u] = "live" /\ u \notin unregistered'
      <3>1. (\E k \in 1 .. Len(atexit') : atexit'[k] = u)
               <=> (\E k \in 1 .. p : atexit[k] = u) /\ u # o
        <4>1. ASSUME NEW k \in 1 .. Len(atexit'), atexit'[k] = u
              PROVE  (\E i \in 1 .. p : atexit[i] = u) /\ u # o
          <5>1. k + 1 \in 1 .. p /\ k + 1 # 1 /\ atexit[k + 1] = u
            BY <1>3, <1>5, <4>1
          <5> QED
            BY <2>3, <5>1
        <4>2. ASSUME NEW k \in 1 .. p, atexit[k] = u, u # o
              PROVE  \E i \in 1 .. Len(atexit') : atexit'[i] = u
          <5>1. k # 1
            BY <1>4, <4>2
          <5>2. PICK i \in 1 .. p - 1 : i + 1 = k
            BY <1>3, <5>1
          <5> QED
            BY <1>5, <4>2, <5>2
        <4> QED
          BY <4>1, <4>2
      <3> QED
        BY <1>1, <1>3, <1>7, <2>2, <3>1 DEF ListsOK
    <2>5. ASSUME NEW i \in 1 .. p - 1, NEW j \in 1 .. p - 1, i < j
          PROVE  \E k, l \in 1 .. Len(order) :
                    k > l /\ order[k] = atexit'[i] /\ order[l] = atexit'[j]
      <3>1. /\ i + 1 \in 1 .. p /\ j + 1 \in 1 .. p /\ i + 1 < j + 1
            /\ atexit'[i] = atexit[i + 1] /\ atexit'[j] = atexit[j + 1]
        BY <1>3, <1>5, <2>5
      <3>2. PICK g \in 1 .. p, h \in 1 .. p : g = i + 1 /\ h = j + 1 /\ g < h
        BY <3>1
      <3> QED
        BY <1>1, <1>3, <3>1, <3>2 DEF ListsOK
    <2>6. unregistered' \subseteq {u \in Object : life'[u] = "live"}
      BY <1>1, <1>7, <1>8, <2>2 DEF ListsOK
    <2> QED
      BY <1>1, <1>5, <1>7, <1>11, <2>1, <2>4, <2>5, <2>6 DEF ListsOK
  <1> QED
    BY <1>11, <1>13, <1>14 DEF IInv

(***************************************************************************)
(* The theorems.                                                           *)
(***************************************************************************)
LEMMA InitInv == Init => IInv
  <1> SUFFICES ASSUME Init
               PROVE  IInv
    OBVIOUS
  <1>1. stack = <<>> /\ stack \in Seq(Frame) /\ Len(stack) = 0 /\ \A u : ~Outermost(u)
    BY DEF Init, Outermost
  <1>2. StackOK
    BY <1>1 DEF StackOK
  <1>3. PhaseOK
    <2>1. phase = "init" /\ initDone = FALSE /\ uninitDone = FALSE /\ failed = FALSE
      BY DEF Init
    <2>2. ~Outermost("xt") /\ ~(Len(stack) >= 1)
      BY <1>1
    <2> QED
      BY <2>1, <2>2 DEF PhaseOK
  <1>4. TablesOK
    <2>1. \A t \in Tables : ran[t] = [i \in 1 .. Size(t) |-> 0]
      BY DEF Init
    <2>2. \A t \in Tables : Walked(t, 0)
      <3> SUFFICES ASSUME NEW t \in Tables
                   PROVE  [i \in 1 .. Size(t) |-> 0]
                             = [i \in 1 .. Size(t) |-> IF i <= 0 THEN 1 ELSE 0]
        BY <2>1 DEF Walked
      <3>1. \A i \in 1 .. Size(t) : ~(i <= 0)
        BY Sizes
      <3> QED
        BY <3>1
    <2>3. \A t \in Tables : 0 \in 0 .. Size(t)
      BY Sizes
    <2>4. "xi" \in Tables /\ "xc" \in Tables /\ "xt" \in Tables
      BY DEF Tables
    <2>5. DOMAIN ran = Tables
      BY DEF Init
    <2> QED
      BY <1>1, <2>2, <2>3, <2>4, <2>5 DEF TablesOK
  <1>5. LivesOK
    <2>1. \A o \in 1 .. Statics : o \in Object
      BY Sizes
    <2> QED
      BY <1>1, <2>1 DEF Init, LivesOK
  <1>6. ListsOK
    <2>1. /\ order = <<>> /\ atexit = <<>> /\ order \in Seq(Object) /\ atexit \in Seq(Object)
          /\ Len(order) = 0 /\ Len(atexit) = 0 /\ DOMAIN order = {}
      BY DEF Init
    <2>2. \A o \in Object : life[o] = "unborn"
      BY DEF Init
    <2>3. unregistered = {}
      BY DEF Init
    <2> QED
      BY <2>1, <2>2, <2>3 DEF ListsOK, IsInjective
  <1> QED
    BY <1>2, <1>3, <1>4, <1>5, <1>6 DEF IInv

LEMMA NextInv == IInv /\ [Next]_vars => IInv'
  <1> SUFFICES ASSUME IInv, [Next]_vars
               PROVE  IInv'
    OBVIOUS
  <1>1. ASSUME StartInit PROVE IInv'
    BY <1>1, StartInitStep
  <1>2. ASSUME StartObjects PROVE IInv'
    BY <1>2, StartObjectsStep
  <1>3. ASSUME StartDestroy PROVE IInv'
    BY <1>3, StartDestroyStep
  <1>4. ASSUME StartUninit PROVE IInv'
    BY <1>4, StartUninitStep
  <1>5. ASSUME NEW t \in Tables, CallEntry(t) PROVE IInv'
    BY <1>5, CallEntryStep
  <1>6. ASSUME NEW t \in Tables, WalkEnds(t) PROVE IInv'
    BY <1>6, WalkEndsStep
  <1>7. ASSUME EntryReturns PROVE IInv'
    BY <1>7, EntryReturnsStep
  <1>8. ASSUME EntryFails PROVE IInv'
    BY <1>8, EntryFailsStep
  <1>9. ASSUME InitialObjsCpp PROVE IInv'
    BY <1>9, InitialObjsCppStep
  <1>10. ASSUME Constructed PROVE IInv'
    BY <1>10, ConstructedStep
  <1>11. ASSUME DestroyObjsCpp PROVE IInv'
    BY <1>11, DestroyObjsCppStep
  <1>12. ASSUME DestroyEnds PROVE IInv'
    BY <1>12, DestroyEndsStep
  <1>13. ASSUME Destructed PROVE IInv'
    BY <1>13, DestructedStep
  <1>14. ASSUME CallInitAgain PROVE IInv'
    BY <1>14, CallInitAgainStep
  <1>15. ASSUME NEW o \in Local, ConstructLocal(o) PROVE IInv'
    BY <1>15, ConstructLocalStep
  <1>16. ASSUME CallDestroy PROVE IInv'
    BY <1>16, CallDestroyStep
  <1>17. ASSUME UNCHANGED vars PROVE IInv'
    BY <1>17, SameStep
  <1> QED
    BY <1>1, <1>2, <1>3, <1>4, <1>5, <1>6, <1>7, <1>8, <1>9, <1>10, <1>11, <1>12, <1>13, <1>14,
       <1>15, <1>16, <1>17 DEF Next, Runtime, CallBack, Over

\* The invariant holds throughout.
THEOREM Invariance == Spec => []IInv
  BY InitInv, NextInv, PTL DEF Spec

\* The tables, the lives of the objects, the lists and the stack keep their
\* types: crt.c and CppBase.cpp never call an entry outside its table.
THEOREM TypeCorrect == Spec => []TypeOK
  <1>1. IInv => TypeOK
    <2> SUFFICES ASSUME IInv
                 PROVE  TypeOK
      OBVIOUS
    <2>1. \A t \in Tables : ran[t] \in [1 .. Size(t) -> Nat]
      BY DEF IInv, TablesOK, Walked
    <2>2. \A i \in DOMAIN stack :
             /\ stack[i].fn \in Tables \cup ProgramCode \cup {"ctors", "destroy"}
             /\ stack[i].at \in Nat
      <3>1. stack \in Seq(Frame)
        BY DEF IInv, StackOK
      <3>2. \A i \in DOMAIN stack : stack[i] \in Frame
        BY <3>1, ElementOfSeq, LenProperties
      <3> QED
        BY <3>2 DEF Frame
    <2>3. unregistered \subseteq Object
      BY DEF IInv, ListsOK
    <2> QED
      BY <2>1, <2>2, <2>3 DEF IInv, TypeOK, PhaseOK, LivesOK, ListsOK
  <1> QED
    BY <1>1, Invariance, PTL

\* _initterm_e and _initterm call each entry of a table once and in order, the
\* C++ initializers only after every C initializer has succeeded, although an
\* initializer may call global_crt_init again.
THEOREM TablesInOrder == Spec => []TablesRunOnceInOrder
  <1>1. IInv => TablesRunOnceInOrder
    <2> SUFFICES ASSUME IInv
                 PROVE  TablesRunOnceInOrder
      OBVIOUS
    <2>1. TablesOK /\ PhaseOK
      BY DEF IInv
    <2>2. \A t, k : Walked(t, k) => \A i \in 1 .. Size(t) : ran[t][i] = IF i <= k THEN 1 ELSE 0
      BY DEF Walked
    <2>3. ASSUME NEW t \in Tables, NEW i \in 1 .. Size(t)
          PROVE  /\ ran[t][i] <= 1
                 /\ Called(t, i) => \A j \in 1 .. i - 1 : Called(t, j)
      <3>1. PICK k \in 0 .. Size(t) : Walked(t, k)
        BY <2>1 DEF TablesOK
      <3>2. \A j \in 1 .. Size(t) : ran[t][j] = IF j <= k THEN 1 ELSE 0
        BY <2>2, <3>1
      <3>3. Size(t) \in Nat
        BY Sizes
      <3>4. ran[t][i] <= 1 /\ (Called(t, i) => i <= k)
        BY <3>2 DEF Called
      <3>5. ASSUME NEW j \in 1 .. i - 1, i <= k
            PROVE  Called(t, j)
        <4>1. j \in 1 .. Size(t) /\ j <= k
          BY <3>1, <3>3, <3>5
        <4> QED
          BY <3>2, <4>1 DEF Called
      <3> QED
        BY <3>4, <3>5
    <2>4. ASSUME NEW i \in 1 .. CppInits, Called("xc", i)
          PROVE  ~failed /\ \A j \in 1 .. CInits : Called("xi", j)
      <3>1. ~Walked("xc", 0)
        <4>1. i \in 1 .. Size("xc") /\ ~(i <= 0)
          BY Sizes
        <4> QED
          BY <2>2, <2>4, <4>1 DEF Called
      <3>2. ~failed /\ Walked("xi", CInits)
        BY <2>1, <3>1 DEF TablesOK
      <3>3. \A j \in 1 .. CInits : ran["xi"][j] = 1
        BY <2>2, <3>2, Sizes
      <3> QED
        BY <3>2, <3>3 DEF Called
    <2> QED
      BY <2>3, <2>4 DEF TablesRunOnceInOrder
  <1> QED
    BY <1>1, Invariance, PTL

\* g_atexit_list holds the live objects that were registered, newest first,
\* however constructors, destructors and calls of destroy_objs_cpp nest.
THEOREM NewestFirst == Spec => []ListIsNewestFirst
  <1>1. IInv => ListIsNewestFirst
    <2> SUFFICES ASSUME IInv
                 PROVE  ListIsNewestFirst
      OBVIOUS
    <2>1. ListsOK
      BY DEF IInv
    <2>2. /\ DOMAIN atexit = 1 .. Len(atexit) /\ DOMAIN order = 1 .. Len(order)
          /\ \A k \in 1 .. Len(atexit) : atexit[k] \in Object
      BY <2>1, LenProperties, ElementOfSeq DEF ListsOK
    <2>3. ToSet(atexit) = {o \in Object : life[o] = "live"} \ unregistered
      <3>1. ToSet(atexit) = {atexit[k] : k \in 1 .. Len(atexit)}
        BY <2>2 DEF ToSet
      <3>2. \A o \in Object : (\E k \in 1 .. Len(atexit) : atexit[k] = o)
                                <=> life[o] = "live" /\ o \notin unregistered
        BY <2>1 DEF ListsOK
      <3> QED
        BY <2>2, <3>1, <3>2
    <2>4. \A i, j \in DOMAIN atexit : i < j =>
             \E k, l \in DOMAIN order :
                k > l /\ order[k] = atexit[i] /\ order[l] = atexit[j]
      <3>1. \A i, j \in 1 .. Len(atexit) : i < j =>
               \E k, l \in 1 .. Len(order) :
                  k > l /\ order[k] = atexit[i] /\ order[l] = atexit[j]
        BY <2>1 DEF ListsOK
      <3> SUFFICES ASSUME NEW i \in DOMAIN atexit, NEW j \in DOMAIN atexit, i < j
                   PROVE  \E k, l \in DOMAIN order :
                             k > l /\ order[k] = atexit[i] /\ order[l] = atexit[j]
        OBVIOUS
      <3>2. i \in 1 .. Len(atexit) /\ j \in 1 .. Len(atexit)
        BY <2>2
      <3>3. PICK k \in 1 .. Len(order), l \in 1 .. Len(order) :
               k > l /\ order[k] = atexit[i] /\ order[l] = atexit[j]
        BY <3>1, <3>2
      <3>4. k \in DOMAIN order /\ l \in DOMAIN order
        BY <2>2
      <3> QED
        BY <3>3, <3>4
    <2> QED
      BY <2>1, <2>3, <2>4 DEF ListsOK, ListIsNewestFirst
  <1> QED
    BY <1>1, Invariance, PTL

\* When the call of destroy_objs_cpp by the entry point has returned, only
\* objects whose registration failed are alive.
THEOREM AllDestroyed == Spec => []NothingLeftAlive
  <1>1. IInv => NothingLeftAlive
    <2> SUFFICES ASSUME IInv, phase = "uninit", stack = <<>>, NEW o \in Object, life[o] = "live"
                 PROVE  o \in unregistered
      BY DEF NothingLeftAlive
    <2>1. ListsOK
      BY DEF IInv
    <2>2. Len(atexit) = 0
      BY <2>1 DEF ListsOK
    <2>3. ~\E k \in 1 .. Len(atexit) : atexit[k] = o
      BY <2>2
    <2> QED
      BY <2>1, <2>3 DEF ListsOK
  <1> QED
    BY <1>1, Invariance, PTL
=============================================================================
