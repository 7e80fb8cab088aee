-------------------------- MODULE FaultTolerantWrite --------------------------
(***************************************************************************)
(* The Fault Tolerant Write driver (MdeModulePkg/Universal/                *)
(* FaultTolerantWriteDxe): the write queue in the working block, the spare *)
(* block, the target blocks, every flash operation a step of its own, and  *)
(* a power failure possible between any two of them.                       *)
(*                                                                         *)
(* The queue is kept as the driver reads it back: the space taken by the   *)
(* completed headers, then the last header with the record it is at.  A    *)
(* header and a record take one unit each.  Memory copies of the queue are *)
(* re-read from flash by WorkSpaceRefresh at the start of every call.      *)
(***************************************************************************)
EXTENDS Naturals

CONSTANTS Block,        \* target blocks
          Data,         \* contents of a block
          Torn,         \* contents of an erased or half-written block
          None,         \* no block recorded, no call
          QueueSize,    \* units in the write queue
          AllocSizes    \* NumberOfWrites callers pass to Allocate

VARIABLES work,         \* working block: is its header valid, and the queue
          spare,        \* spare block: data, a copy of the working block, or Torn
          target,       \* target blocks
          pc, op,       \* next flash step; the protocol function it belongs to
          call,         \* parameters of that function
          ret,          \* where FtwReclaimWorkSpace returns to
          kept,         \* the queue FtwReclaimWorkSpace writes
          saved,        \* SpareBuffer
          offset,       \* local variable Offset of FtwAllocate
          status,       \* how the last FtwWrite ended
          starved       \* history: an initialization has found no memory

flash == <<work, spare, target>>
locals == <<ret, kept, saved, offset>>
vars == <<work, spare, target, pc, op, call, ret, kept, saved, offset, status, starved>>

\* used: units of the completed headers; n: NumberOfWrites of the last header, 0
\* when it is erased; done: its records that are DestinationComplete; blk, sp: the
\* block and SpareComplete of the next record; dirty: bytes in the free area.
Queue == [used : Nat, n : Nat, complete : BOOLEAN, done : Nat,
          blk : Block \cup {None}, sp : BOOLEAN, dirty : BOOLEAN]

EmptyQueue == [used |-> 0, n |-> 0, complete |-> FALSE, done |-> 0,
               blk |-> None, sp |-> FALSE, dirty |-> FALSE]

Copy == [q : Queue, ok : BOOLEAN]
SpareContents == Data \cup {Torn} \cup Copy

Size(n) == 1 + n

ASSUME FtwAssumption ==
    /\ QueueSize \in Nat /\ QueueSize >= 2
    /\ AllocSizes \subseteq Nat \ {0}
    /\ Torn \notin Data /\ None \notin Block
    /\ \A d \in Data \cup {Torn} : d \notin Copy
    /\ None \notin [blk : Block, data : Data] \cup [blk : Block, data : Data, done : BOOLEAN]

IsCopy(s) == s \notin Data \cup {Torn}
ValidCopy(s) == IsCopy(s) /\ s.ok

-------------------------------------------------------------------------------
(* Reading the queue.                                                      *)

\* FtwGetLastWriteHeader skips headers that are complete.
Advance(q) == IF q.complete THEN [EmptyQueue EXCEPT !.used = q.used + Size(q.n)] ELSE q

\* FtwGetLastWriteRecord: the first record that is not DestinationComplete.
AllDone(q) == q.n > 0 /\ q.done = q.n
SpareComplete(q) == q.n > 0 /\ q.done < q.n /\ q.sp

Aborted(q) == IF q.n > 0 THEN [q EXCEPT !.complete = TRUE] ELSE q

\* What a reclaim keeps: the last header, unless it is complete or erased.
Compact(q) == IF q.n > 0 /\ ~q.complete THEN [q EXCEPT !.used = 0, !.dirty = FALSE] ELSE EmptyQueue

-------------------------------------------------------------------------------
Init ==
    /\ work = [ok |-> FALSE, q |-> EmptyQueue]
    /\ spare = Torn
    /\ target \in [Block -> Data]
    /\ pc = "off" /\ op = "none" /\ call = None
    /\ ret = "idle" /\ kept = EmptyQueue /\ saved = Torn /\ offset = 0
    /\ status = "none" /\ starved = FALSE

Goto(l) == pc' = l /\ UNCHANGED <<op, call, status>>

Return(s) ==
    /\ pc' = "idle" /\ op' = "none" /\ call' = None
    /\ status' = IF op = "write" THEN s ELSE status

\* FtwReclaimWorkSpace has prepared the new queue in memory.
StartReclaim(q, next) == kept' = q /\ ret' = next /\ UNCHANGED <<saved, offset>>

\* There is no room for a header and a record behind the completed ones.
Full(q) == q.used + Size(1) > QueueSize

\* WorkSpaceRefresh: re-read the queue q, reclaim it when the last header has
\* no room for a record, and go on at next.
Refresh(q, next) ==
    LET last == Advance(q)
    IN  /\ work' = [work EXCEPT !.q = last]
        /\ IF Full(last)
           THEN pc' = "c_save" /\ StartReclaim(Compact(last), next)
           ELSE pc' = next /\ UNCHANGED locals

-------------------------------------------------------------------------------
(* FtwWrite.                                                               *)

\* "All writes must be completed or aborted before another fault tolerant write
\* can occur": a record that a failed or interrupted write left is used again for
\* its own block only, as a second block number would be programmed over the first.
RecordIsFree(b) == LET q == Advance(work.q) IN q.n = 0 \/ q.blk \in {None, b}

CallWrite(b, d) ==
    /\ pc = "idle" /\ RecordIsFree(b)
    /\ op' = "write" /\ call' = [blk |-> b, data |-> d] /\ status' = "none"
    /\ Refresh(work.q, "w_check")
    /\ UNCHANGED <<spare, target>>

WriteAllocates ==
    /\ pc = "w_check" /\ work.q.n = 0
    /\ work' = [work EXCEPT !.q.n = 1]
    /\ Goto("w_record")
    /\ UNCHANGED <<spare, target, locals>>

\* EFI_NOT_READY: private data but no header; EFI_ACCESS_DENIED; EFI_NOT_READY.
WriteRefused ==
    /\ pc = "w_check"
    /\ work.q.n = 0 \/ AllDone(work.q) \/ SpareComplete(work.q)
    /\ Return("failed")
    /\ UNCHANGED <<flash, locals>>

WriteProceeds ==
    /\ pc = "w_check" /\ work.q.n > 0
    /\ ~AllDone(work.q) /\ ~SpareComplete(work.q)
    /\ Goto("w_record")
    /\ UNCHANGED <<flash, locals>>

\* The record is written with SpareComplete already set.
BugWriteRecord ==
    /\ pc = "w_record"
    /\ work' = [work EXCEPT !.q.blk = call.blk, !.q.sp = TRUE]
    /\ Goto("w_save")
    /\ UNCHANGED <<spare, target, locals>>

WriteRecord ==
    /\ pc = "w_record"
    /\ work' = [work EXCEPT !.q.blk = call.blk]
    /\ Goto("w_save")
    /\ UNCHANGED <<spare, target, locals>>

\* FtwEraseSpareBlock, after the old contents went to SpareBuffer.
SaveSpare(at, next) ==
    /\ pc = at
    /\ saved' = spare /\ spare' = Torn
    /\ Goto(next)
    /\ UNCHANGED <<work, target, ret, kept, offset>>

FillSpare ==
    /\ pc = "w_fill"
    /\ spare' = call.data
    /\ Goto("w_mark")
    /\ UNCHANGED <<work, target, locals>>

\* SpareComplete is never recorded.
BugMarkSpareComplete ==
    /\ pc = "w_mark"
    /\ Goto("r_erase")
    /\ UNCHANGED <<flash, locals>>

MarkSpareComplete ==
    /\ pc = "w_mark"
    /\ work' = [work EXCEPT !.q.sp = TRUE]
    /\ Goto("r_erase")
    /\ UNCHANGED <<spare, target, locals>>

RestoreSpare(at, next) ==
    /\ pc = at
    /\ spare' = saved
    /\ IF next = "idle" THEN Return("written") ELSE Goto(next)
    /\ UNCHANGED <<work, target, locals>>

-------------------------------------------------------------------------------
(* FtwWriteRecord: spare block to target block, then the flags.            *)

EraseTarget ==
    /\ pc = "r_erase"
    /\ target' = [target EXCEPT ![call.blk] = Torn]
    /\ Goto("r_copy")
    /\ UNCHANGED <<work, spare, locals>>

\* Targets are neither the working block, for which FtwWriteRecord has a branch of
\* its own (FaultTolerantWrite.c:213-230), nor the boot block.
CopyTarget ==
    /\ pc = "r_copy"
    /\ target' = [target EXCEPT ![call.blk] = IF IsCopy(spare) THEN Torn ELSE spare]
    /\ Goto("r_dest")
    /\ UNCHANGED <<work, spare, locals>>

MarkDestComplete ==
    /\ pc = "r_dest"
    /\ work' = [work EXCEPT !.q.done = @ + 1, !.q.sp = FALSE, !.q.blk = None]
    /\ Goto(IF work'.q.done = work.q.n THEN "r_complete" ELSE "r_unspare")
    /\ UNCHANGED <<spare, target, locals>>

MarkComplete ==
    /\ pc = "r_complete"
    /\ work' = [work EXCEPT !.q.complete = TRUE]
    /\ Goto("r_unspare")
    /\ UNCHANGED <<spare, target, locals>>

\* FtwWrite goes on to restore the spare block; FtwRestart leaves it erased.
EraseSpare ==
    /\ pc = "r_unspare"
    /\ spare' = Torn
    /\ CASE op = "write" -> Goto("w_restore")
         [] op = "init" -> Goto("b_abort")
         [] OTHER -> Return("none")
    /\ UNCHANGED <<work, target, locals>>

-------------------------------------------------------------------------------
(* FtwAllocate, FtwRestart, FtwAbort, FtwGetLastWrite.                     *)

\* A caller reserves as many writes as fit behind the last header: a reclaim by
\* FtwAllocate itself leaves it with an Offset into the old queue.
Fits(n) ==
    LET u == Advance(work.q).used
    IN  u + Size(n) <= QueueSize \/ u + Size(1) > QueueSize

Enter(o, n, next) ==
    /\ pc = "idle"
    /\ op' = o /\ call' = [n |-> n] /\ UNCHANGED status
    /\ Refresh(work.q, next)
    /\ UNCHANGED <<spare, target>>

CallAllocate(n) == Fits(n) /\ Enter("allocate", n, "a_check")
CallRestart == Enter("restart", 0, "s_check")
CallAbort == Enter("abort", 0, "x_check")
CallGetLastWrite == Enter("query", 0, "g_check")

\* EFI_BUFFER_TOO_SMALL; EFI_ACCESS_DENIED while a header is not complete.
AllocateChecks ==
    /\ pc = "a_check"
    /\ UNCHANGED flash
    /\ IF Size(call.n) > QueueSize \/ work.q.n > 0
       THEN Return("none") /\ UNCHANGED locals
       ELSE /\ UNCHANGED <<op, call, status, saved>>
            /\ offset' = work.q.used
            /\ IF offset' + Size(call.n) > QueueSize
               THEN pc' = "c_save" /\ kept' = EmptyQueue /\ ret' = "a_header"
               ELSE pc' = "a_header" /\ UNCHANGED <<kept, ret>>

\* The header goes to Offset, which a reclaim in between does not recompute: it is
\* then no header of the queue.
WriteHeader ==
    /\ pc = "a_header"
    /\ work' = IF offset = work.q.used
               THEN [work EXCEPT !.q.n = call.n]
               ELSE [work EXCEPT !.q.dirty = TRUE]
    /\ Return("none")
    /\ UNCHANGED <<spare, target, locals>>

\* FtwRestart does not look at SpareComplete.
BugRestartChecks ==
    /\ pc = "s_check"
    /\ call' = [blk |-> work.q.blk] /\ pc' = "r_erase" /\ UNCHANGED <<op, status>>
    /\ UNCHANGED <<flash, locals>>

RestartChecks ==
    /\ pc = "s_check"
    /\ IF SpareComplete(work.q)
       THEN call' = [blk |-> work.q.blk] /\ pc' = "r_erase" /\ UNCHANGED <<op, status>>
       ELSE Return("none")
    /\ UNCHANGED <<flash, locals>>

AbortWrites ==
    /\ pc = "x_check"
    /\ work' = [work EXCEPT !.q = Aborted(@)]
    /\ Return("none")
    /\ UNCHANGED <<spare, target, locals>>

\* FtwGetLastWrite aborts a header whose records are all done, and one whose
\* first record cannot be restarted.
GetLastWrite ==
    /\ pc = "g_check"
    /\ work' = IF AllDone(work.q) \/ (work.q.done = 0 /\ ~SpareComplete(work.q))
               THEN [work EXCEPT !.q = Aborted(@)]
               ELSE work
    /\ Return("none")
    /\ UNCHANGED <<spare, target, locals>>

-------------------------------------------------------------------------------
(* FtwReclaimWorkSpace (c_), FlushSpareBlockToWorkingBlock (f_).           *)

CopyToSpare ==
    /\ pc = "c_fill"
    /\ spare' = [q |-> kept, ok |-> FALSE]
    /\ Goto("c_valid")
    /\ UNCHANGED <<work, target, locals>>

\* The working block is invalidated before its copy is valid.
BugValidateSpare ==
    /\ pc = "c_valid"
    /\ Goto("c_invalid")
    /\ UNCHANGED <<flash, locals>>

ValidateSpare ==
    /\ pc = "c_valid"
    /\ spare' = [spare EXCEPT !.ok = TRUE]
    /\ Goto("c_invalid")
    /\ UNCHANGED <<work, target, locals>>

InvalidateWork ==
    /\ pc = "c_invalid"
    /\ work' = [work EXCEPT !.ok = FALSE]
    /\ Goto("f_erase")
    /\ UNCHANGED <<spare, target, locals>>

EraseWork ==
    /\ pc = "f_erase"
    /\ work' = [ok |-> FALSE, q |-> EmptyQueue]
    /\ Goto("f_fill")
    /\ UNCHANGED <<spare, target, locals>>

FillWork ==
    /\ pc = "f_fill"
    /\ work' = [work EXCEPT !.q = spare.q]
    /\ Goto("f_valid")
    /\ UNCHANGED <<spare, target, locals>>

ValidateWork ==
    /\ pc = "f_valid"
    /\ work' = [work EXCEPT !.ok = TRUE]
    /\ Goto(IF ret = "b_adopt" THEN "b_adopt" ELSE "c_unspare")
    /\ UNCHANGED <<spare, target, locals>>

ReleaseSpare ==
    /\ pc = "c_unspare"
    /\ spare' = Torn
    /\ Goto("c_restore")
    /\ UNCHANGED <<work, target, locals>>

-------------------------------------------------------------------------------
(* InitFtwProtocol.                                                        *)

Boot ==
    /\ pc = "off"
    /\ op' = "init" /\ UNCHANGED <<call, status>>
    /\ Refresh(work.q, "b_check")
    /\ UNCHANGED <<spare, target>>

\* Initialisation cannot cope with two invalid blocks.
BugCheckWorkSpace ==
    /\ pc = "b_check"
    /\ UNCHANGED flash
    /\ \/ work.ok /\ Goto("b_tidy") /\ UNCHANGED locals
       \/ /\ ~work.ok /\ ValidCopy(spare)
          /\ Goto("f_erase") /\ ret' = "b_adopt" /\ UNCHANGED <<kept, saved, offset>>

\* A working block that is not valid is replaced by the copy in the spare
\* block, or formatted when there is none.
CheckWorkSpace ==
    /\ pc = "b_check"
    /\ UNCHANGED flash
    /\ IF work.ok
       THEN Goto("b_tidy") /\ UNCHANGED locals
       ELSE IF ValidCopy(spare)
       THEN Goto("f_erase") /\ ret' = "b_adopt" /\ UNCHANGED <<kept, saved, offset>>
       ELSE Goto("c_save") /\ StartReclaim(EmptyQueue, "b_tidy")

AdoptSpare ==
    /\ pc = "b_adopt"
    /\ Refresh(Aborted(work.q), "b_tidy")
    /\ UNCHANGED <<spare, target, op, call, status>>

\* Initialisation aborts whatever header is open.
BugTidyHeader ==
    /\ pc = "b_tidy"
    /\ work' = [work EXCEPT !.q = Aborted(@)]
    /\ Goto("b_clean")
    /\ UNCHANGED <<spare, target, locals>>

\* Abort a header whose first record has no data yet, or that has no open record.
TidyHeader ==
    /\ pc = "b_tidy"
    /\ work' = IF AllDone(work.q) \/ (work.q.done = 0 /\ ~SpareComplete(work.q))
               THEN [work EXCEPT !.q = Aborted(@)]
               ELSE work
    /\ Goto("b_clean")
    /\ UNCHANGED <<spare, target, locals>>

\* Anything behind the last header's records makes Init reclaim the queue.
CleanTail ==
    /\ pc = "b_clean"
    /\ UNCHANGED flash
    /\ IF work.q.dirty
       THEN Goto("c_save") /\ StartReclaim(Compact(work.q), "b_restart")
       ELSE Goto("b_restart") /\ UNCHANGED locals

\* Finish an interrupted write; the driver of its block is there.
RestartPending ==
    /\ pc = "b_restart"
    /\ UNCHANGED <<flash, locals, status>>
    /\ IF SpareComplete(work.q) /\ ~work.q.complete
       THEN call' = [blk |-> work.q.blk] /\ pc' = "r_erase" /\ UNCHANGED op
       ELSE pc' = "idle" /\ op' = "none" /\ call' = None

AbortPending ==
    /\ pc = "b_abort"
    /\ Refresh(work.q, "x_check")
    /\ UNCHANGED <<spare, target, op, call, status>>

-------------------------------------------------------------------------------
\* AllocatePool fails in FtwWrite, in FtwReclaimWorkSpace or in one of the two
\* Flush functions, always before their first flash operation.
PoolFails ==
    /\ op # "init"
    /\ pc \in {"w_save", "r_erase", "c_save", "f_erase"}
    /\ Return("failed")
    /\ UNCHANGED <<flash, locals>>

\* It fails in InitFtwProtocol, which asserts that it does not and goes on: without
\* the reclaim or the copy of the spare block, and, where it was to restart a write,
\* with the FtwAbort that gives this write up.
InitPoolFails ==
    /\ op = "init" /\ starved' = TRUE
    /\ \/ pc = "r_erase" /\ Goto("b_abort")
       \/ pc \in {"c_save", "f_erase"} /\ ret # "x_check" /\ Goto(ret)
       \/ pc \in {"c_save", "f_erase"} /\ ret = "x_check" /\ Return("none")
    /\ UNCHANGED <<flash, locals>>

\* The header that FtwAllocate is writing.
HeaderInProgress == pc = "a_header" \/ (pc = "w_check" /\ work.q.n = 0)

\* A header that is cut short is bytes behind the queue: it is assumed not to read as
\* allocated before its NumberOfWrites is there, which nothing in it could tell.  A
\* record that is cut short has its block or none, as its other fields are read only
\* once SpareComplete is set.
PowerFails ==
    /\ pc # "off"
    /\ pc' = "off" /\ op' = "none" /\ call' = None /\ status' = "none"
    /\ ret' = "idle" /\ kept' = EmptyQueue /\ saved' = Torn /\ offset' = 0
    /\ UNCHANGED <<spare, target>>
    /\ \E torn \in {FALSE, HeaderInProgress} :
            work' = [work EXCEPT !.q.dirty = @ \/ torn]

Step ==
    /\ UNCHANGED starved
    /\ \/ Boot \/ CheckWorkSpace \/ AdoptSpare \/ TidyHeader \/ CleanTail
       \/ RestartPending \/ AbortPending
       \/ WriteAllocates \/ WriteRefused \/ WriteProceeds \/ WriteRecord
       \/ SaveSpare("w_save", "w_fill") \/ FillSpare \/ MarkSpareComplete
       \/ EraseTarget \/ CopyTarget \/ MarkDestComplete \/ MarkComplete
       \/ EraseSpare \/ RestoreSpare("w_restore", "idle")
       \/ AllocateChecks \/ WriteHeader \/ RestartChecks \/ AbortWrites \/ GetLastWrite
       \/ SaveSpare("c_save", "c_fill") \/ CopyToSpare \/ ValidateSpare \/ InvalidateWork
       \/ EraseWork \/ FillWork \/ ValidateWork \/ ReleaseSpare
       \/ RestoreSpare("c_restore", ret)

Caller ==
    \/ \E b \in Block, d \in Data : CallWrite(b, d)
    \/ \E n \in AllocSizes : CallAllocate(n)
    \/ CallRestart \/ CallAbort \/ CallGetLastWrite

Next ==
    \/ Step
    \/ (Caller \/ PoolFails \/ PowerFails) /\ UNCHANGED starved
    \/ InitPoolFails

Spec == Init /\ [][Next]_vars

\* A function that was called goes on while there is power.
FairSpec == Spec /\ WF_vars(Step)

-------------------------------------------------------------------------------
(* Properties.  Those on the contents of the flash are about a driver whose *)
(* initializations have all found the memory they need: what InitFtwProtocol *)
(* leaves undone without it, and asserts (FtwMisc.c:1307, 1344, 1367), breaks *)
(* each of them.                                                           *)

Labels == {"off", "idle", "w_check", "w_record", "w_save", "w_fill", "w_mark",
           "w_restore", "r_erase", "r_copy", "r_dest", "r_complete", "r_unspare",
           "a_check", "a_header", "s_check", "x_check", "g_check",
           "c_save", "c_fill", "c_valid", "c_invalid", "c_unspare", "c_restore",
           "f_erase", "f_fill", "f_valid", "b_check", "b_adopt", "b_tidy",
           "b_clean", "b_restart", "b_abort"}
Ops == {"none", "init", "write", "allocate", "restart", "abort", "query"}

\* Types of the flash contents, of the control state and of the locals.
DriverTypes ==
    /\ work \in [ok : BOOLEAN, q : Queue]
    /\ spare \in SpareContents /\ saved \in SpareContents
    /\ target \in [Block -> Data \cup {Torn}]
    /\ pc \in Labels /\ ret \in Labels /\ op \in Ops
    /\ call \in [blk : Block, data : Data] \cup [blk : Block] \cup [n : Nat] \cup {None}
    /\ kept \in Queue /\ offset \in Nat
    /\ status \in {"none", "written", "failed"}

TypeOK == DriverTypes /\ starved \in BOOLEAN

\* The queue a reboot would find.
Found == IF work.ok THEN work.q ELSE IF ValidCopy(spare) THEN spare.q ELSE EmptyQueue
Pending == SpareComplete(Found) /\ ~Found.complete

\* A write whose record says SpareComplete and not DestinationComplete is backed
\* by a valid working block and by data in the spare block: the reclaim that
\* borrows the spare block never runs over it (FtwMisc.c:1350, FTW:566).
SpareBacksPending ==
    starved \/ (Pending => work.ok /\ spare \in Data /\ Found.blk \in Block)

\* Whenever the protocol is ready for a call, every target block is whole and the
\* next header goes to erased flash: nothing torn is left behind by a write, by one
\* that finds no memory, or by a recovery.
WholeWhenReady ==
    pc = "idle" /\ ~starved => target \in [Block -> Data] /\ ~work.q.dirty

HasWorkSpace == work.ok \/ ValidCopy(spare) \/ Full(Advance(work.q))

\* Once there is a write queue, there is one after every step: no order of
\* erasing, copying and setting the valid bits leaves both blocks invalid, but
\* for an intact full queue, which the next refresh reclaims before its header
\* is looked at.
WorkSpaceSurvives == [][HasWorkSpace /\ ~starved' => HasWorkSpace']_vars

\* Initialisation ends, or the power fails again: no recovery loops through
\* reclaim and restart.
BootSettles == op = "init" ~> pc \in {"idle", "off"}

\* What a block would read as once recovery is done.
Content == [b \in Block |->
    IF Pending /\ Found.blk = b /\ ~IsCopy(spare) THEN spare ELSE target[b]]

\* What the block of the pending write would hold if the write were given up.
Undo == IF Pending /\ Found.blk \in Block /\ target[Found.blk] # Torn
        THEN [blk |-> Found.blk, data |-> target[Found.blk]]
        ELSE None

\* FtwWrite takes effect when SpareComplete is set.
Committed == pc \in {"r_erase", "r_copy", "r_dest", "r_complete", "r_unspare", "w_restore"}
Called == IF op = "write"
          THEN [blk |-> call.blk, data |-> call.data, done |-> Committed]
          ELSE None

\* FaultTolerantWrite.c:287-290: "ensuring at all times that either the original
\* contents or the modified contents are available".  Until an initialization finds
\* no memory to restart a write, which FtwAbort then gives up (FtwMisc.c:1365-1369).
Atomic == INSTANCE AtomicBlockWrite WITH
    content <- Content, undo <- Undo, call <- Called, status <- status
ImplementsAtomicWrite ==
    Atomic!Init /\ [][Atomic!Next \/ starved']_(Atomic!vars)
===============================================================================
