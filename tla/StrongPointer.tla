---------------------------- MODULE StrongPointer ----------------------------
(***************************************************************************)
(* Reference counting of UStonePkg/Include/utils: the strong pointer sp<T> *)
(* (StrongPointer.hpp) and the counters LightRefBase and StrongRefBase.    *)
(*                                                                         *)
(* The program has strong pointers of its own (Global) and every object    *)
(* has one strong pointer member, which its destructor releases.  A member *)
(* is named by its object.  A destructor may itself clear and assign       *)
(* strong pointers, so releases nest; and an event notification function   *)
(* may, between any two steps, copy a strong pointer and drop the copy:    *)
(* mCount is volatile but its increment and decrement are a read and a     *)
(* write.                                                                  *)
(*                                                                         *)
(* What the classes require of their users, and the model assumes:         *)
(*   - the program works on objects that its own pointers lead to;         *)
(*   - a destructor does not make a strong pointer to its own object,      *)
(*     neither copies nor assigns the pointer whose release runs it, and   *)
(*     lets go of no pointer that leads to an object whose member is being *)
(*     assigned;                                                           *)
(*   - a notification function copies no pointer that the code it          *)
(*     interrupted is modifying, and leaves every count as it found it.    *)
(*                                                                         *)
(* An operator whose name starts with "Bug" is a definition of the module  *)
(* with a plausible mistake in it; no specification uses it.               *)
(***************************************************************************)
EXTENDS Integers, Sequences, FiniteSets, SequencesExt

CONSTANTS
    Object,     \* the addresses of the objects
    Global,     \* the program's strong pointers
    NULL        \* the null pointer

ASSUME PointerAssumption ==
    /\ IsFiniteSet(Object) /\ IsFiniteSet(Global)
    /\ Object \cap Global = {} /\ NULL \notin Object \cup Global

VARIABLES
    ptr,        \* m_ptr of every strong pointer
    count,      \* mCount of every object
    life,       \* "none", "alive", or "dying" while the destructor runs
    todo        \* the steps in progress, the innermost first

vars == <<ptr, count, life, todo>>

Pointer == Global \cup Object
Alive == {o \in Object : life[o] = "alive"}

\* A step: what it does, the object or pointer it is about, and the value it
\* has read.
Step(do, at, val) == [do |-> do, at |-> at, val |-> val]
Inc(o) == IF o = NULL THEN <<>> ELSE <<Step("inc", o, NULL)>>
Dec(o) == IF o = NULL THEN <<>> ELSE <<Step("dec", o, NULL)>>
Release(s) == Step("release", s, NULL)
Set(s, o) == Step("set", s, o)
Resume == Step("resume", NULL, NULL)

\* The pointers that an operation in progress will still write, and the
\* members whose object is being destroyed or does not exist.
Busy == {s \in Pointer : \E i \in DOMAIN todo : /\ todo[i].do = "set"
                                                /\ todo[i].at = s}
Stable == (Global \cup Alive) \ Busy

\* The objects that a pointer leads to, member by member, as far as no pointer
\* on the way is being modified: they are in every set that holds what the
\* pointer points to and, with each object, what its member points to.
Follow(s) == IF s \in Busy THEN NULL ELSE ptr[s]
Leads(s, S) == \A t \in {s} \cup S : Follow(t) \in S \cup {NULL}
Chain(s) == {o \in Object : \A S \in SUBSET Object : Leads(s, S) => o \in S}

\* The pointers that code can name: the program's, and the members of the
\* objects they lead to.
Reached == (Global \cup UNION {Chain(s) : s \in Global}) \ Busy

Interrupted == Resume \in ToSet(todo)

TypeOK ==
    /\ ptr \in [Pointer -> Object \cup {NULL}]
    /\ count \in [Object -> -1 .. Cardinality(Pointer) + 2]
    /\ life \in [Object -> {"none", "alive", "dying"}]
    /\ \A i \in DOMAIN todo :
          /\ todo[i].do \in {"inc", "incStore", "dec", "decStore", "release",
                             "set", "delete", "destruct", "free", "resume"}
          /\ todo[i].at \in Pointer \cup {NULL}

Init ==
    /\ ptr = [s \in Pointer |-> NULL]
    /\ count = [o \in Object |-> 0]
    /\ life = [o \in Object |-> "none"]
    /\ todo = <<>>

-----------------------------------------------------------------------------
(* The operations of sp<T>, as the steps they take.                        *)

\* Variant: the old object is released before the new one is counted.
BugAssign(s, o) == <<Release(s)>> \o Inc(o) \o <<Set(s, o)>>

\* operator=: the new object first, then the old one, then m_ptr.
Assign(s, o) == Inc(o) \o <<Release(s), Set(s, o)>>

\* clear: nothing for a null pointer.
Clear(s) == IF ptr[s] = NULL THEN <<>> ELSE <<Release(s), Set(s, NULL)>>

\* A copy that lives for the length of a block: the copy constructor and the
\* destructor.
Copy(s) == Inc(ptr[s]) \o Dec(ptr[s])

\* Between its operations the program assigns a pointer it can reach: one of
\* its own or a member of an object it has,
ProgramAssigns ==
    /\ todo = <<>>
    /\ \E s, t \in Reached : todo' = Assign(s, ptr[t])
    /\ UNCHANGED <<ptr, count, life>>

\* clears one,
ProgramClears ==
    /\ todo = <<>>
    /\ \E s \in Reached : ptr[s] # NULL /\ todo' = Clear(s)
    /\ UNCHANGED <<ptr, count, life>>

\* or makes an object: mCount is 0 until the first strong pointer.
ProgramCreates(o) ==
    /\ todo = <<>>
    /\ life[o] = "none"
    /\ life' = [life EXCEPT ![o] = "alive"]
    /\ count' = [count EXCEPT ![o] = 0]
    /\ ptr' = [ptr EXCEPT ![o] = NULL]
    /\ \E s \in Global : todo' = Assign(s, o)

\* A notification function runs in the middle of an operation.
Notify ==
    /\ todo # <<>>
    /\ ~Interrupted
    /\ \E s \in Reached :
          /\ ptr[s] # NULL
          /\ todo' = Copy(s) \o <<Resume>> \o todo
    /\ UNCHANGED <<ptr, count, life>>

-----------------------------------------------------------------------------
(* Steps.                                                                  *)

\* The next step is "do"; it is replaced by the steps "more".
Do(do, more) ==
    /\ todo # <<>>
    /\ todo[1].do = do
    /\ todo' = more \o Tail(todo)

At == todo[1].at
Val == todo[1].val

\* incStrong.
IncRead ==
    /\ Do("inc", <<Step("incStore", At, count[At])>>)
    /\ UNCHANGED <<ptr, count, life>>

IncStore ==
    /\ Do("incStore", <<>>)
    /\ count' = [count EXCEPT ![At] = Val + 1]
    /\ UNCHANGED <<ptr, life>>

\* decStrong: the object is deleted where the count read was one.
DecRead ==
    /\ Do("dec", <<Step("decStore", At, count[At])>>)
    /\ UNCHANGED <<ptr, count, life>>

\* Variant: a count that is already zero deletes again.
BugDecTestsBelow ==
    /\ Do("decStore", IF Val <= 1 THEN <<Step("delete", At, NULL)>> ELSE <<>>)
    /\ count' = [count EXCEPT ![At] = Val - 1]
    /\ UNCHANGED <<ptr, life>>

DecStore ==
    /\ Do("decStore", IF Val = 1 THEN <<Step("delete", At, NULL)>> ELSE <<>>)
    /\ count' = [count EXCEPT ![At] = Val - 1]
    /\ UNCHANGED <<ptr, life>>

\* The old object of a pointer that is cleared, assigned or destroyed.
ReleaseOld ==
    /\ Do("release", Dec(ptr[At]))
    /\ UNCHANGED <<ptr, count, life>>

\* Variant: the pointer keeps its old object.
BugSetPointer ==
    /\ Do("set", <<>>)
    /\ ptr' = [ptr EXCEPT ![At] = IF Val = NULL THEN ptr[At] ELSE Val]
    /\ UNCHANGED <<count, life>>

SetPointer ==
    /\ Do("set", <<>>)
    /\ ptr' = [ptr EXCEPT ![At] = Val]
    /\ UNCHANGED <<count, life>>

\* Variant: the member of a deleted object keeps its reference.
BugDelete ==
    /\ Do("delete", <<Step("destruct", At, NULL), Step("free", At, NULL)>>)
    /\ life' = [life EXCEPT ![At] = "dying"]
    /\ UNCHANGED <<ptr, count>>

\* delete: the body of the destructor, then the member, then the memory.
Delete ==
    /\ Do("delete", <<Step("destruct", At, NULL), Release(At),
                      Step("free", At, NULL)>>)
    /\ life' = [life EXCEPT ![At] = "dying"]
    /\ UNCHANGED <<ptr, count>>

\* What the body of a destructor does: nothing, clear a pointer (even the one
\* whose release runs it), or assign one.
DestructorBody ==
    /\ \/ Do("destruct", <<>>)
       \/ \E s \in Global :
             /\ Chain(s) \cap Busy = {}
             /\ \/ Do("destruct", Clear(s))
                \/ s \notin Busy /\ \E t \in Global \ Busy :
                                      Do("destruct", Assign(s, ptr[t]))
    /\ UNCHANGED <<ptr, count, life>>

FreeObject ==
    /\ Do("free", <<>>)
    /\ life' = [life EXCEPT ![At] = "none"]
    /\ UNCHANGED <<ptr, count>>

\* The notification function returns to the code it interrupted.
ReturnFromNotify ==
    /\ Do("resume", <<>>)
    /\ UNCHANGED <<ptr, count, life>>

Next ==
    \/ ProgramAssigns \/ ProgramClears \/ Notify
    \/ \E o \in Object : ProgramCreates(o)
    \/ IncRead \/ IncStore \/ DecRead \/ DecStore \/ ReleaseOld \/ SetPointer
    \/ Delete \/ DestructorBody \/ FreeObject \/ ReturnFromNotify

Spec == Init /\ [][Next]_vars

-----------------------------------------------------------------------------
(* Properties.                                                             *)

PointersTo(o) == {s \in Global \cup Alive : ptr[s] = o}

\* Between operations the count of every live object is the number of strong
\* pointers to it, whatever destructors and notification functions did on the
\* way.
CountIsExact ==
    todo = <<>> => \A o \in Alive : count[o] = Cardinality(PointersTo(o))

\* An object without strong pointers is gone once the operation is over: the
\* last release deletes it.
UnreferencedIsDeleted ==
    todo = <<>> => \A o \in Object : PointersTo(o) = {} => life[o] = "none"

\* At every moment a strong pointer that no operation is modifying leads to a
\* live object, so that a notification function may follow it.
StablePointsToLive == \A s \in Stable : ptr[s] \in Alive \cup {NULL}
=============================================================================
