----------------------------- MODULE VariableStore -----------------------------
(***************************************************************************)
(* The non-volatile store of the UEFI variable driver (MdeModulePkg/       *)
(* Universal/Variable/RuntimeDxe): SetVariable as the flash writes it is   *)
(* made of, reclaim through the Fault Tolerant Write protocol, the memory  *)
(* copy of the store, and a power failure possible between any two writes. *)
(*                                                                         *)
(* All variables are NV|BS|RT.  Offsets and sizes count units; the sum of  *)
(* the sizes in the store (CommonVariableTotalSize) is the offset of its   *)
(* end.  The services run one at a time: SetVariable holds the lock.       *)
(***************************************************************************)
EXTENDS Naturals, Sequences, FiniteSets, SequencesExt

CONSTANTS Name,             \* variables
          Data,             \* contents of a variable
          Absent,           \* contents of a variable that does not exist
          None,             \* no call, no image
          Size,             \* units an entry with these contents takes
          Space,            \* CommonVariableSpace
          RuntimeSpace,     \* CommonRuntimeVariableSpace
          MaxSize,          \* MaxVariableSize
          Faults            \* {"twice"}: see Interruptible

\* State 0xff, VAR_HEADER_VALID_ONLY, VAR_ADDED, VAR_ADDED & VAR_IN_DELETED_TRANSITION,
\* and any state with the VAR_DELETED bit cleared.
States == {"start", "header", "added", "moving", "deleted"}
Entry == [name : Name, data : Data, whole : BOOLEAN, state : States]

ASSUME VariableAssumption ==
    /\ Absent \notin Data
    /\ Size \in [Data -> 1 .. MaxSize]
    /\ {Space, RuntimeSpace, MaxSize} \subseteq Nat
    /\ RuntimeSpace <= Space
    /\ None \notin [name : Name, data : Data \cup {Absent}]
    /\ None \notin [blk : Name, data : Data \cup {Absent}, done : BOOLEAN]
    /\ None \notin Seq(Entry)

VARIABLES flash,        \* the entries of the store, in address order
          torn,         \* bytes behind the last entry are not erased
          pending,      \* the store that a failed FtwWrite left in the spare block
          cache,        \* mNvVariableCache
          last,         \* NonVolatileLastVariableOffset
          runtime,      \* AtRuntime()
          reclaimed,    \* static Reclaimed of ReclaimForOS
          pc, call,     \* next flash write; parameters of SetVariable
          curr, inDel,  \* Variable.CurrPtr and .InDeletedTransitionPtr, 0 for NULL
          status        \* how the last SetVariable ended

vars == <<flash, torn, pending, cache, last, runtime, reclaimed, pc, call, curr, inDel,
          status>>
mode == <<runtime, reclaimed>>
track == <<curr, inDel>>

-------------------------------------------------------------------------------
(* Reading the store.                                                      *)

\* A header that was not made valid counts without name and data.
EntrySize(e) == IF e.state = "start" THEN 1 ELSE Size[e.data]

\* The sum of the sizes: the units the entries take, entry by entry.
Used(s) == Cardinality({u \in (DOMAIN s) \X (1 .. MaxSize) : u[2] <= EntrySize(s[u[1]])})

Copies(s, n, st) == {i \in DOMAIN s : s[i].name = n /\ s[i].state = st}

Lowest(S) == CHOOSE i \in S : \A j \in S : i <= j
Highest(S) == CHOOSE i \in S : \A j \in S : i >= j

\* FindVariableEx: the first ADDED copy, with the last copy in transition before
\* it; without one, the last copy in transition.
Find(s, n) ==
    LET added == Copies(s, n, "added")
        moving == Copies(s, n, "moving")
        before == {i \in moving : i < Lowest(added)}
    IN  IF added # {}
        THEN [curr |-> Lowest(added), inDel |-> IF before = {} THEN 0 ELSE Highest(before)]
        ELSE [curr |-> IF moving = {} THEN 0 ELSE Highest(moving), inDel |-> 0]

Value(s, n) ==
    LET c == Find(s, n).curr
    IN  IF c = 0 \/ ~s[c].whole THEN Absent ELSE s[c].data

\* Reclaim's buffer, without copies c and d: the ADDED copies, then the first
\* copy in transition of each variable that has no ADDED one there.
Ascending(S) ==
    CHOOSE f \in [1 .. Cardinality(S) -> S] : \A k, l \in DOMAIN f : k < l => f[k] < f[l]

Added(s, c) == {i \in DOMAIN s : s[i].state = "added" /\ i # c}
Moving(s, c, d) == {i \in DOMAIN s : s[i].state = "moving" /\ i \notin {c, d}}
Promoted(s, c, d) ==
    {i \in Moving(s, c, d) :
        \A j \in Added(s, c) \cup {k \in Moving(s, c, d) : k < i} : s[j].name # s[i].name}

Order(s, c, d) == Ascending(Added(s, c)) \o Ascending(Promoted(s, c, d))
Kept(s, c, d) == [k \in DOMAIN Order(s, c, d) |->
                    [s[Order(s, c, d)[k]] EXCEPT !.state = "added"]]

Ended(n, d) == [name |-> n, data |-> d, whole |-> TRUE, state |-> "added"]

-------------------------------------------------------------------------------
Init ==
    /\ flash = <<>> /\ torn = FALSE /\ pending = None
    /\ cache = <<>> /\ last = 0 /\ runtime = FALSE /\ reclaimed = FALSE
    /\ pc = "off" /\ call = None /\ curr = 0 /\ inDel = 0 /\ status = "none"

Return(s) ==
    /\ pc' = "idle" /\ call' = None /\ curr' = 0 /\ inDel' = 0
    /\ status' = IF call = None THEN status ELSE s

Goto(l) == pc' = l /\ UNCHANGED <<call, curr, inDel, status>>

\* Reclaim uses the cache as its buffer, hands it to FtwVariableSpace, and
\* restores the cache from flash whatever comes of it.
StartReclaim(new) ==
    LET buffer == Kept(flash, curr, inDel)
    IN  IF Used(buffer) + (IF new = <<>> THEN 0 ELSE Size[new[1].data]) > Space
        THEN cache' = flash /\ Return("failed")
        ELSE cache' = buffer \o new /\ Goto("r_ftw")

\* The store as InitFtwProtocol leaves it: it restarts the write that is pending,
\* over whatever the store holds by then (FtwMisc.c:1363-1369).
Restarted == IF pending = None THEN flash ELSE pending

\* InitNonVolatileVariableStore: parse the store up to the first invalid header.
Boot ==
    /\ pc = "off"
    /\ flash' = Restarted /\ cache' = Restarted /\ last' = Used(Restarted)
    /\ torn' = (torn /\ pending = None) /\ pending' = None
    /\ Goto("b_check")
    /\ UNCHANGED mode

\* The free area is not checked.
BugCheckFreeArea ==
    /\ pc = "b_check"
    /\ cache' = cache /\ Return("none")
    /\ UNCHANGED <<flash, torn, pending, last, mode>>

\* VariableWriteServiceInitialize: reclaim when the free area is not really free.
CheckFreeArea ==
    /\ pc = "b_check"
    /\ IF torn THEN StartReclaim(<<>>) ELSE cache' = cache /\ Return("none")
    /\ UNCHANGED <<flash, torn, pending, last, mode>>

\* ReclaimForOS, once: is there room for one more variable at runtime?
ReadyToBoot ==
    /\ pc = "idle" /\ ~runtime /\ ~reclaimed
    /\ reclaimed' = TRUE
    /\ IF last + MaxSize > RuntimeSpace
       THEN StartReclaim(<<>>)
       ELSE UNCHANGED <<cache, pc, call, track, status>>
    /\ UNCHANGED <<flash, torn, pending, last, runtime>>

ExitBootServices ==
    /\ pc = "idle" /\ reclaimed /\ ~runtime
    /\ runtime' = TRUE
    /\ UNCHANGED <<flash, torn, pending, cache, last, reclaimed, pc, call, track, status>>

-------------------------------------------------------------------------------
(* FtwVariableSpace: the Write of AtomicBlockWrite.  It is refused (EFI_NOT_READY) *)
(* while a write that failed after SpareComplete is pending; nothing aborts it. *)

\* The old variable is marked after the reclaim that dropped it.
BugFtwSucceeds ==
    /\ pc = "r_ftw" /\ pending = None
    /\ flash' = cache /\ torn' = FALSE /\ last' = Used(cache)
    /\ IF call = None THEN Return("none") ELSE Goto(IF curr = 0 THEN "done" ELSE "o_curr")
    /\ UNCHANGED <<pending, cache, mode>>

FtwSucceeds ==
    /\ pc = "r_ftw" /\ pending = None
    /\ flash' = cache /\ torn' = FALSE /\ last' = Used(cache)
    /\ IF call = None THEN Return("none") ELSE Goto("done")
    /\ UNCHANGED <<pending, cache, mode>>

\* Two copies of a variable in transition.
Doubled(s) == \E n \in Name : \E i, j \in Copies(s, n, "moving") : i # j

\* An update that leaves two copies in transition until it is over is neither
\* interrupted nor refused, unless that fault is wanted.
Interruptible == "twice" \in Faults \/ ~Doubled(flash)

\* Reclaim does not restore the cache it used as its buffer.
BugFtwFails ==
    /\ pc = "r_ftw" /\ Interruptible /\ ~torn
    /\ last' = Used(flash)
    /\ Return("failed")
    /\ UNCHANGED <<flash, torn, pending, cache, mode>>

\* The write service goes on without a reclaim that fails; with a torn header
\* in the free area, which would be programmed over, it is not let fail.  FtwWrite
\* fails before it has changed anything, or after SpareComplete (EFI_ABORTED).
FtwFails ==
    /\ pc = "r_ftw" /\ Interruptible /\ ~torn
    /\ pending' \in IF pending = None THEN {None, cache} ELSE {pending}
    /\ cache' = flash /\ last' = Used(flash)
    /\ Return("failed")
    /\ UNCHANGED <<flash, torn, mode>>

-------------------------------------------------------------------------------
(* SetVariable, UpdateVariable.                                            *)

Limit == IF runtime THEN RuntimeSpace ELSE Space

\* See Interruptible: an update with two old copies finds room, and a reclaim that makes
\* room for it is not refused.
FindsRoom(n, d) ==
    LET old == Find(cache, n)
    IN  old.inDel # 0 /\ d # Absent /\ "twice" \notin Faults =>
            \/ last + Size[d] <= Limit
            \/ /\ ~runtime /\ pending = None
               /\ Used(Kept(flash, old.curr, old.inDel)) + Size[d] <= Space

\* d = Absent is a DataSize of zero.
CallSetVariable(n, d) ==
    /\ pc = "idle" /\ FindsRoom(n, d)
    /\ call' = [name |-> n, data |-> d] /\ status' = "none"
    /\ pc' = "find"
    /\ UNCHANGED <<flash, torn, pending, cache, last, mode, track>>

\* EFI_NOT_FOUND: there is nothing to delete.
DeleteNothing ==
    /\ pc = "find" /\ call.data = Absent
    /\ Find(cache, call.name).curr = 0
    /\ Return("failed")
    /\ UNCHANGED <<flash, torn, pending, cache, last, mode>>

FindVariable ==
    /\ pc = "find"
    /\ LET found == Find(cache, call.name)
       IN  /\ curr' = found.curr /\ inDel' = found.inDel
           /\ found.curr # 0 \/ call.data # Absent
           /\ pc' = IF call.data = Absent
                    THEN IF found.inDel # 0 THEN "d_indel" ELSE "d_curr"
                    ELSE IF found.curr = 0 THEN "u_room"
                    ELSE IF cache[found.curr].data = call.data THEN "done"
                    ELSE "u_mark"
    /\ UNCHANGED <<flash, torn, pending, cache, last, mode, call, status>>

\* Program the State byte of copy i, in flash and in the cache.
SetState(i, st) ==
    /\ flash' = [flash EXCEPT ![i].state = st]
    /\ cache' = [cache EXCEPT ![i].state = st]

DeleteInDel(at, next) ==
    /\ pc = at /\ SetState(inDel, "deleted")
    /\ Goto(next)
    /\ UNCHANGED <<torn, pending, last, mode>>

DeleteCurr(at) ==
    /\ pc = at /\ SetState(curr, "deleted")
    /\ Goto("done")
    /\ UNCHANGED <<torn, pending, last, mode>>

\* The old variable is deleted at once.
BugMarkOld ==
    /\ pc = "u_mark" /\ SetState(curr, "deleted")
    /\ Goto("u_room")
    /\ UNCHANGED <<torn, pending, last, mode>>

MarkOld ==
    /\ pc = "u_mark" /\ SetState(curr, "moving")
    /\ Goto("u_room")
    /\ UNCHANGED <<torn, pending, last, mode>>

\* EFI_OUT_OF_RESOURCES at runtime; before, reclaim with the new variable.
CheckRoom ==
    /\ pc = "u_room"
    /\ IF last + Size[call.data] <= Limit
       THEN Goto("u_header") /\ UNCHANGED cache
       ELSE IF runtime
       THEN Return("failed") /\ UNCHANGED cache
       ELSE StartReclaim(<<Ended(call.name, call.data)>>)
    /\ UNCHANGED <<flash, torn, pending, last, mode>>

\* The four steps, at NonVolatileLastVariableOffset.
WriteHeader ==
    /\ pc = "u_header"
    /\ flash' = Append(flash, [Ended(call.name, call.data) EXCEPT
                                  !.whole = FALSE, !.state = "start"])
    /\ Goto("u_valid")
    /\ UNCHANGED <<torn, pending, cache, last, mode>>

ValidateHeader ==
    /\ pc = "u_valid"
    /\ flash' = [flash EXCEPT ![Len(flash)].state = "header"]
    /\ Goto("u_data")
    /\ UNCHANGED <<torn, pending, cache, last, mode>>

WriteData ==
    /\ pc = "u_data"
    /\ flash' = [flash EXCEPT ![Len(flash)].whole = TRUE]
    /\ Goto("u_added")
    /\ UNCHANGED <<torn, pending, cache, last, mode>>

MarkAdded ==
    /\ pc = "u_added"
    /\ flash' = [flash EXCEPT ![Len(flash)].state = "added"]
    /\ last' = last + Size[call.data]
    /\ cache' = Append(cache, Ended(call.name, call.data))
    /\ Goto(IF curr = 0 THEN "done" ELSE IF inDel # 0 THEN "o_indel" ELSE "o_curr")
    /\ UNCHANGED <<torn, pending, mode>>

ReturnSuccess ==
    /\ pc = "done"
    /\ Return("written")
    /\ UNCHANGED <<flash, torn, pending, cache, last, mode>>

-------------------------------------------------------------------------------
\* A header interrupted before its StartId is complete leaves bytes that no
\* parse of the store sees; FtwWrite survives as the old or the new contents.
PowerFails ==
    /\ pc # "off" /\ Interruptible
    /\ pc' = "off" /\ call' = None /\ curr' = 0 /\ inDel' = 0 /\ status' = "none"
    /\ cache' = <<>> /\ last' = 0 /\ runtime' = FALSE /\ reclaimed' = FALSE
    /\ UNCHANGED <<flash, pending>>
    /\ torn' \in {torn, torn \/ pc = "u_header"}

Step ==
    \/ Boot \/ CheckFreeArea \/ FtwSucceeds
    \/ DeleteNothing \/ FindVariable
    \/ DeleteInDel("d_indel", "d_curr") \/ DeleteCurr("d_curr")
    \/ MarkOld \/ CheckRoom
    \/ WriteHeader \/ ValidateHeader \/ WriteData \/ MarkAdded
    \/ DeleteInDel("o_indel", "o_curr") \/ DeleteCurr("o_curr")
    \/ ReturnSuccess

Next ==
    \/ Step \/ FtwFails \/ PowerFails
    \/ \E n \in Name, d \in Data \cup {Absent} : CallSetVariable(n, d)
    \/ ReadyToBoot \/ ExitBootServices

Spec == Init /\ [][Next]_vars

-------------------------------------------------------------------------------
(* Properties.                                                             *)

Labels == {"off", "idle", "b_check", "r_ftw", "find", "d_indel", "d_curr", "u_mark",
           "u_room", "u_header", "u_valid", "u_data", "u_added", "o_indel", "o_curr",
           "done"}

\* Types of the store, its copy, the call and the variables found.
TypeOK ==
    /\ flash \in Seq(Entry) /\ cache \in Seq(Entry)
    /\ pending \in Seq(Entry) \cup {None}
    /\ {torn, runtime, reclaimed} \subseteq BOOLEAN
    /\ last \in Nat
    /\ pc \in Labels
    /\ call \in [name : Name, data : Data \cup {Absent}] \cup {None}
    /\ curr \in Nat /\ inDel \in Nat
    /\ pc # "done" => {curr, inDel} \subseteq 0 .. Len(flash)
    /\ status \in {"none", "written", "failed"}

\* Between two calls the memory copy that every read is served from is what the
\* flash holds, whichever way the last call ended (Variable.c:1255-1260).
CacheIsFlash == pc = "idle" => cache = flash

\* The next variable is programmed behind the last entry, into erased flash and
\* inside the store, after every interrupted or failed write.
NextIsErased ==
    pc \in {"idle", "u_header"} =>
        /\ last = Used(flash) /\ ~torn
        /\ pc = "u_header" => last + Size[call.data] <= Space

\* UefiSpec.h:702 "The firmware has successfully stored the variable and its
\* data": when SetVariable is about to return success, the variable reads as set.
StoredIsRead == pc = "done" /\ call # None => Value(cache, call.name) = call.data

\* SetVariable is atomic: a variable reads as its old or its new contents at
\* every moment, a power failure and a reclaim change no variable.  The one step that
\* does more is the boot after a reclaim whose FtwWrite failed behind SpareComplete: it
\* brings back every variable as that reclaim found it.
Content == [n \in Name |-> Value(flash, n)]
Called == IF call = None THEN None
          ELSE [blk |-> call.name, data |-> call.data,
                done |-> pc \in {"o_indel", "o_curr", "done"}]

Atomic == INSTANCE AtomicBlockWrite WITH
    Block <- Name,
    Data <- Data \cup {Absent},
    content <- Content,
    undo <- None,
    call <- Called,
    status <- status
ImplementsAtomicSet ==
    Atomic!Init /\ [][Atomic!Next \/ (pc = "off" /\ pending # None)]_(Atomic!vars)
===============================================================================
