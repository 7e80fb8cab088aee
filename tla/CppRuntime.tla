----------------------------- MODULE CppRuntime -----------------------------
(***************************************************************************)
(* Start and end of a C++ program: the initializer tables of               *)
(* UStonePkg/Library/CrtSupportLib/crt.c (global_crt_init and              *)
(* global_crt_uninit) and the static objects of                            *)
(* UStonePkg/Library/CppBaseLib/CppBase.cpp (initial_objs_cpp, atexit_cpp  *)
(* and destroy_objs_cpp).                                                  *)
(*                                                                         *)
(* A table entry, a constructor and a destructor are code of the program,  *)
(* and may call back: construct a function-local static object, call       *)
(* global_crt_init, or call destroy_objs_cpp, as an exit does.  The        *)
(* compiler registers the destructor of every object with atexit_cpp when  *)
(* its constructor ends (#pragma init_seg in cppbase.hpp).                 *)
(*                                                                         *)
(* The entry point is not part of UStonePkg: it calls global_crt_init and  *)
(* gives up if that fails, initial_objs_cpp, the program, destroy_objs_cpp *)
(* and global_crt_uninit.                                                  *)
(*                                                                         *)
(* An operator whose name starts with "Bug" is a definition of the module  *)
(* with a plausible mistake in it; no specification uses it.               *)
(***************************************************************************)
EXTENDS Naturals, Sequences, FiniteSets, SequencesExt

CONSTANTS
    CInits,         \* entries between __xi_a and __xi_z
    CppInits,       \* entries between __xc_a and __xc_z
    Terminators,    \* entries of the __xp and __xt tables, walked in turn
    Statics,        \* objects constructed by initial_objs_cpp: 1 .. Statics
    Locals          \* function-local statics: the numbers after those

ASSUME RuntimeAssumption ==
    \A n \in {CInits, CppInits, Terminators, Statics, Locals} : n \in Nat

VARIABLES
    initDone,       \* g_crt_init_done
    uninitDone,     \* g_crt_uninit_done
    ran,            \* how often each table entry was called
    failed,         \* whether a C initializer returned an error
    life,           \* the life of every static object
    order,          \* the objects in the order their construction ended
    atexit,         \* g_atexit_list from its head, by object
    unregistered,   \* the objects whose registration found no memory
    phase,          \* what the entry point does next
    stack           \* the calls in progress, the innermost last

tables == <<initDone, uninitDone, ran, failed>>
objects == <<life, order, atexit, unregistered>>
vars == <<initDone, uninitDone, ran, failed, life, order, atexit,
          unregistered, phase, stack>>

Size(t) == CASE t = "xi" -> CInits [] t = "xc" -> CppInits
                                   [] t = "xt" -> Terminators
Tables == {"xi", "xc", "xt"}
Object == 1 .. Statics + Locals
Local == Statics + 1 .. Statics + Locals

\* A call: the walk of a table or of the object initializers, standing before
\* entry "at"; an entry, constructor or destructor; or destroy_objs_cpp.
Call(fn, at) == [fn |-> fn, at |-> at]
ProgramCode == {"entry", "ctor", "dtor"}

TypeOK ==
    /\ initDone \in BOOLEAN /\ uninitDone \in BOOLEAN /\ failed \in BOOLEAN
    /\ \A t \in Tables : ran[t] \in [1 .. Size(t) -> Nat]
    /\ life \in [Object -> {"unborn", "constructing", "live", "destroying",
                            "dead"}]
    /\ order \in Seq(Object) /\ atexit \in Seq(Object)
    /\ unregistered \subseteq Object
    /\ phase \in {"init", "objects", "main", "uninit", "over"}
    /\ \A i \in DOMAIN stack :
          /\ stack[i].fn \in Tables \cup ProgramCode \cup {"ctors", "destroy"}
          /\ stack[i].at \in Nat

Init ==
    /\ initDone = FALSE /\ uninitDone = FALSE /\ failed = FALSE
    /\ ran = [t \in Tables |-> [i \in 1 .. Size(t) |-> 0]]
    /\ life = [o \in Object |-> "unborn"]
    /\ order = <<>> /\ atexit = <<>> /\ unregistered = {}
    /\ phase = "init" /\ stack = <<>>

Top == Last(stack)
Running(fn) == stack # <<>> /\ Top.fn = fn
Push(c) == stack' = Append(stack, c)
Pop == stack' = Front(stack)
Replace(c) == stack' = Append(Front(stack), c)

\* Code of the program that may call the runtime.
InProgram == IF stack = <<>> THEN phase = "main" ELSE Top.fn \in ProgramCode

-----------------------------------------------------------------------------
(* crt.c                                                                   *)

\* Variant: the flag is left to the end of the function, too late for an
\* initializer that calls back.
BugGlobalCrtInit == Push(Call("xi", 1)) /\ UNCHANGED tables

\* global_crt_init, called: nothing the second time, also from an initializer.
GlobalCrtInit ==
    IF initDone
    THEN UNCHANGED <<tables, stack>>
    ELSE /\ initDone' = TRUE
         /\ Push(Call("xi", 1))
         /\ UNCHANGED <<uninitDone, ran, failed>>

StartInit ==
    /\ phase = "init" /\ stack = <<>>
    /\ phase' = "objects"
    /\ GlobalCrtInit
    /\ UNCHANGED objects

CallInitAgain ==
    /\ InProgram
    /\ GlobalCrtInit
    /\ UNCHANGED <<objects, phase>>

\* _initterm_e and _initterm: the next entry of a table is called.
CallEntry(t) ==
    /\ Running(t)
    /\ Top.at <= Size(t)
    /\ ran' = [ran EXCEPT ![t][Top.at] = @ + 1]
    /\ Push(Call("entry", Top.at))
    /\ UNCHANGED <<initDone, uninitDone, failed, objects, phase>>

\* The entry returns to its walk.
EntryReturns ==
    /\ Running("entry")
    /\ stack' = Append(SubSeq(stack, 1, Len(stack) - 2),
                       [stack[Len(stack) - 1] EXCEPT !.at = @ + 1])
    /\ UNCHANGED <<tables, objects, phase>>

\* A C initializer returns an error: the walk stops, global_crt_init returns
\* -1 and the entry point gives up.
EntryFails ==
    /\ Running("entry")
    /\ stack[Len(stack) - 1].fn = "xi"
    /\ stack' = SubSeq(stack, 1, Len(stack) - 2)
    /\ failed' = TRUE
    /\ phase' = "over"
    /\ UNCHANGED <<initDone, uninitDone, ran, objects>>

\* The C initializers are followed by the C++ ones; after those, and after
\* the terminators, the function returns.
WalkEnds(t) ==
    /\ Running(t)
    /\ Top.at > Size(t)
    /\ IF t = "xi" THEN Replace(Call("xc", 1)) ELSE Pop
    /\ UNCHANGED <<tables, objects, phase>>

\* global_crt_uninit.
StartUninit ==
    /\ phase = "uninit" /\ stack = <<>>
    /\ phase' = "over"
    /\ IF uninitDone THEN UNCHANGED <<uninitDone, stack>>
                     ELSE uninitDone' = TRUE /\ Push(Call("xt", 1))
    /\ UNCHANGED <<initDone, ran, failed, objects>>

-----------------------------------------------------------------------------
(* CppBase.cpp                                                             *)

\* Variant: the walk begins at the marker before the first entry.
BugStartObjects ==
    /\ phase = "objects" /\ stack = <<>>
    /\ phase' = "main"
    /\ Push(Call("ctors", 0))
    /\ UNCHANGED <<tables, objects>>

\* initial_objs_cpp is called, once.
StartObjects ==
    /\ phase = "objects" /\ stack = <<>>
    /\ phase' = "main"
    /\ Push(Call("ctors", 1))
    /\ UNCHANGED <<tables, objects>>

Construct(o) == life' = [life EXCEPT ![o] = "constructing"]

\* initial_objs_cpp calls the initializers between InitSegStart and InitSegEnd.
InitialObjsCpp ==
    /\ Running("ctors")
    /\ IF Top.at > Statics
       THEN Pop /\ UNCHANGED life
       ELSE /\ stack' = Front(stack) \o <<Call("ctors", Top.at + 1),
                                          Call("ctor", Top.at)>>
            /\ Construct(Top.at)
    /\ UNCHANGED <<tables, order, atexit, unregistered, phase>>

\* Code of the program meets a function-local static for the first time.
ConstructLocal(o) ==
    /\ InProgram
    /\ life[o] = "unborn"
    /\ Construct(o)
    /\ Push(Call("ctor", o))
    /\ UNCHANGED <<tables, order, atexit, unregistered, phase>>

\* Variant: the node goes to the end of the list.
BugAtexitCpp(o) ==
    \/ atexit' = Append(atexit, o) /\ UNCHANGED unregistered
    \/ unregistered' = unregistered \cup {o} /\ UNCHANGED atexit

\* atexit_cpp: a node at the head of the list, or 1 without memory.
AtexitCpp(o) ==
    \/ atexit' = <<o>> \o atexit /\ UNCHANGED unregistered
    \/ unregistered' = unregistered \cup {o} /\ UNCHANGED atexit

\* A constructor ends and the destructor is registered.
Constructed ==
    /\ Running("ctor")
    /\ life' = [life EXCEPT ![Top.at] = "live"]
    /\ order' = Append(order, Top.at)
    /\ AtexitCpp(Top.at)
    /\ Pop
    /\ UNCHANGED <<tables, phase>>

\* The program ends, or some of its code calls exit.
StartDestroy ==
    /\ phase = "main" /\ stack = <<>>
    /\ phase' = "uninit"
    /\ Push(Call("destroy", 0))
    /\ UNCHANGED <<tables, objects>>

CallDestroy ==
    /\ InProgram
    /\ Push(Call("destroy", 0))
    /\ UNCHANGED <<tables, objects, phase>>

\* Variants: the node is removed after its destructor has run; the loop counts
\* the nodes it found at first.
BugDestroyRemovesLate ==
    /\ Running("destroy")
    /\ atexit # <<>>
    /\ life' = [life EXCEPT ![Head(atexit)] = "destroying"]
    /\ Push(Call("dtor", Head(atexit)))
    /\ UNCHANGED <<tables, order, atexit, unregistered, phase>>

\* destroy_objs_cpp: the node at the head is removed before its destructor
\* runs,
DestroyObjsCpp ==
    /\ Running("destroy")
    /\ atexit # <<>>
    /\ atexit' = Tail(atexit)
    /\ life' = [life EXCEPT ![Head(atexit)] = "destroying"]
    /\ Push(Call("dtor", Head(atexit)))
    /\ UNCHANGED <<tables, order, unregistered, phase>>

\* Variant: the nodes registered while the loop runs are left.
BugDestroyEnds ==
    /\ Running("destroy")
    /\ \A i \in DOMAIN atexit : atexit[i] \in Local
    /\ Pop
    /\ UNCHANGED <<tables, objects, phase>>

\* until the list is empty, whoever emptied it.
DestroyEnds ==
    /\ Running("destroy")
    /\ atexit = <<>>
    /\ Pop
    /\ UNCHANGED <<tables, objects, phase>>

\* A destructor returns and its node is freed.
Destructed ==
    /\ Running("dtor")
    /\ life' = [life EXCEPT ![Top.at] = "dead"]
    /\ Pop
    /\ UNCHANGED <<tables, order, atexit, unregistered, phase>>

Runtime ==
    \/ StartInit \/ StartObjects \/ StartDestroy \/ StartUninit
    \/ \E t \in Tables : CallEntry(t) \/ WalkEnds(t)
    \/ EntryReturns \/ EntryFails
    \/ InitialObjsCpp \/ Constructed
    \/ DestroyObjsCpp \/ DestroyEnds \/ Destructed

CallBack ==
    \/ CallInitAgain
    \/ \E o \in Local : ConstructLocal(o)
    \/ CallDestroy

\* The entry point has returned.
Over == phase = "over" /\ stack = <<>> /\ UNCHANGED vars

Next == Runtime \/ CallBack \/ Over

Spec == Init /\ [][Next]_vars

\* Code of the program that ends.
ProgramReturns == EntryReturns \/ Constructed \/ Destructed \/ StartDestroy

\* The runtime goes on, and every piece of the program's code ends although
\* the runtime calls it makes on the way disable its return.
FairSpec == Spec /\ WF_vars(Runtime) /\ SF_vars(ProgramReturns)

-----------------------------------------------------------------------------
(* Properties.                                                             *)

Called(t, i) == ran[t][i] > 0

\* Every entry of the initializer and terminator tables is called at most
\* once and in the order of its table, the C++ initializers only after every
\* C initializer has succeeded, however often global_crt_init is called.
TablesRunOnceInOrder ==
    /\ \A t \in Tables : \A i \in 1 .. Size(t) :
          /\ ran[t][i] <= 1
          /\ Called(t, i) => \A j \in 1 .. i - 1 : Called(t, j)
    /\ (\E i \in 1 .. CppInits : Called("xc", i))
          => ~failed /\ \A i \in 1 .. CInits : Called("xi", i)

\* Every object is constructed once, and the list holds exactly the live objects
\* that could be registered, newest first, so that each is destroyed before the
\* objects it was built after, also when constructors and exits nest in
\* destructors.
ListIsNewestFirst ==
    /\ IsInjective(order)
    /\ ToSet(atexit) = {o \in Object : life[o] = "live"} \ unregistered
    /\ \A i, j \in DOMAIN atexit : i < j =>
          \E k, l \in DOMAIN order :
              k > l /\ order[k] = atexit[i] /\ order[l] = atexit[j]

\* When destroy_objs_cpp has returned to the entry point no registered object
\* is left alive, not even one built by a destructor that it ran.
NothingLeftAlive ==
    phase = "uninit" /\ stack = <<>> =>
        \A o \in Object : life[o] = "live" => o \in unregistered

\* The entry point reaches its end: the loop of destroy_objs_cpp ends although
\* destructors register further ones.
ProgramEnds == <>(phase = "over" /\ stack = <<>>)
=============================================================================
