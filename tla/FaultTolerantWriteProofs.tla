----------------------- MODULE FaultTolerantWriteProofs -----------------------
(***************************************************************************)
(* Proofs about FaultTolerantWrite for every set of blocks, of contents    *)
(* and of allocation sizes and for every size of the write queue.          *)
(***************************************************************************)
EXTENDS FaultTolerantWrite, TLAPS

BootPC == {"b_check", "b_adopt", "b_tidy", "b_clean", "b_restart", "b_abort"}
CopyPC == {"c_save", "c_fill", "c_valid", "c_invalid"}
FlushPC == {"f_erase", "f_fill", "f_valid"}
ReclaimPC == CopyPC \cup FlushPC \cup {"c_unspare", "c_restore"}
RecordPC == {"w_record", "w_save", "w_fill", "w_mark"}
TargetPC == {"r_erase", "r_copy", "r_dest"}
DonePC == {"r_complete", "r_unspare", "w_restore"}

\* A write whose data is in the spare block.
Open(q) == SpareComplete(q) /\ ~q.complete

\* A queue is well formed: a header that is not complete has all its records in
\* the queue, nothing follows an allocated header, a record with data has a block.
GoodQueue(q) ==
    /\ q.done <= q.n
    /\ q.n > 0 /\ ~q.complete => q.used + Size(q.n) <= QueueSize
    /\ q.dirty => q.n = 0
    /\ q.complete => q.n > 0
    /\ q.sp => q.n > 0 /\ q.blk \in Block

\* A reclaim never carries a header over: wherever one starts, the queue is full or
\* dirty behind complete headers only, so the queue it writes is the erased one.
ReclaimInv ==
    /\ kept = EmptyQueue
    /\ IsCopy(spare) => spare.q = EmptyQueue
    /\ IsCopy(saved) => saved.q = EmptyQueue
    /\ pc \in ReclaimPC => work.q.n = 0
    /\ pc = "c_fill" => spare = Torn
    /\ pc = "c_valid" => IsCopy(spare)
    /\ pc \in {"c_invalid"} \cup FlushPC => ValidCopy(spare)
    /\ pc \in {"f_fill", "f_valid", "c_unspare", "c_restore", "b_adopt"}
            => work.q = EmptyQueue
    /\ pc \in {"f_fill", "f_valid"} => ~work.ok

\* Where a reclaim returns to.
ReturnInv ==
    /\ pc \in ReclaimPC =>
            /\ op \in {"init", "write", "allocate", "restart", "abort", "query"}
            /\ op = "init" => ret \in {"b_check", "b_tidy", "b_restart", "b_adopt", "x_check"}
            /\ op = "write" => ret = "w_check"
            /\ op = "allocate" => ret = "a_check"
            /\ op = "restart" => ret = "s_check"
            /\ op = "abort" => ret = "x_check"
            /\ op = "query" => ret = "g_check"
            /\ ret = "b_adopt" => pc \in FlushPC
    /\ pc \in BootPC => op = "init"

\* Without a valid working block nothing is recorded, and the only calls that
\* are accepted find the queue full and reclaim it.
WorkInv ==
    ~work.ok =>
        /\ work.q.n = 0
        /\ pc \in {"off", "b_check", "idle"} \cup CopyPC \cup FlushPC
        /\ pc = "idle" => Full(work.q)
        /\ pc = "c_save" /\ ValidCopy(spare) => Full(work.q)

CallInv ==
    /\ op = "write" => call \in [blk : Block, data : Data]
    /\ op = "allocate" => call \in [n : Nat \ {0}]
    /\ op = "none" => call = None
    /\ pc \in {"off", "idle"} <=> op = "none"
    /\ pc \in {"w_check", "w_restore"} \cup RecordPC => op = "write"
    /\ pc \in {"a_check", "a_header"} => op = "allocate"
    /\ pc = "g_check" => op = "query"
    /\ pc = "s_check" => op = "restart"
    /\ pc = "x_check" => op \in {"abort", "init"}
    /\ pc \in TargetPC \cup {"r_complete", "r_unspare"} => op \in {"write", "restart", "init"}

\* FtwWrite up to SpareComplete.
RecordInv ==
    pc \in RecordPC =>
        /\ work.q.n > 0 /\ ~work.q.complete /\ work.q.done < work.q.n /\ ~work.q.sp
        /\ pc # "w_record" => work.q.blk = call.blk
        /\ pc = "w_mark" => spare = call.data

\* FtwWriteRecord: the record it works on is the pending one, until it says so.
TargetInv ==
    /\ pc \in TargetPC =>
            /\ Open(work.q)
            /\ call \in [blk : Block, data : Data] \cup [blk : Block]
            /\ call.blk = work.q.blk
            /\ pc = "r_dest" => target[call.blk] = spare
    /\ pc = "r_complete" => work.q.n > 0 /\ work.q.done = work.q.n /\ ~work.q.complete
    /\ pc \in {"r_unspare", "w_restore"} => ~Open(work.q)

\* Only FtwWriteRecord runs while there is data in the spare block that is not in
\* its target block yet: no reclaim, no other write.
OpenInv ==
    Open(work.q) =>
        /\ work.ok /\ spare \in Data
        /\ pc \in {"off", "idle", "w_check", "a_check", "s_check", "x_check", "g_check"}
                    \cup TargetPC \cup (BootPC \ {"b_adopt"})

\* A torn block is the target of the pending write, and is so only while it is
\* copied or until the next boot has restarted it.
TornInv ==
    \A b \in Block : target[b] = Torn =>
        /\ Open(work.q) /\ work.q.blk = b
        /\ pc \in {"off", "b_check", "b_tidy", "b_clean", "b_restart", "r_erase", "r_copy"}
        /\ pc = "r_erase" => op = "init"

\* Bytes behind the queue are there only until the next boot has reclaimed it.
DirtyInv ==
    work.q.dirty =>
        /\ pc \in {"off", "b_check", "b_tidy", "b_clean", "f_erase"} \cup CopyPC
        /\ pc \in CopyPC \cup {"f_erase"} => op = "init"

\* A function that was not sent through a reclaim finds the last header open or
\* erased, and room for what it writes.
RoomInv ==
    /\ pc \in {"w_check", "s_check"} => ~work.q.complete
    /\ pc = "w_check" /\ work.q.n = 0 => ~Full(work.q)
    /\ pc = "a_check" /\ work.q.n = 0 /\ Size(call.n) <= QueueSize
            => work.q.used + Size(call.n) <= QueueSize
    /\ pc = "a_header" => /\ work.q.n = 0 /\ offset = work.q.used
                          /\ offset + Size(call.n) <= QueueSize
    /\ pc \in CopyPC \cup {"f_erase"} /\ op # "init" => Full(work.q)

IInv ==
    /\ DriverTypes /\ GoodQueue(work.q)
    /\ ReclaimInv /\ ReturnInv /\ WorkInv /\ CallInv /\ RecordInv /\ TargetInv
    /\ OpenInv /\ TornInv /\ DirtyInv /\ RoomInv

(***************************************************************************)
(* The queue.                                                              *)
(***************************************************************************)

\* The types that the steps below use.
LEMMA Types ==
    ASSUME IInv
    PROVE  /\ work = [ok |-> work.ok, q |-> work.q]
           /\ work.ok \in BOOLEAN
           /\ work.q \in Queue
           /\ work.q.used \in Nat /\ work.q.n \in Nat /\ work.q.done \in Nat
           /\ work.q.complete \in BOOLEAN /\ work.q.sp \in BOOLEAN /\ work.q.dirty \in BOOLEAN
           /\ QueueSize \in Nat /\ QueueSize >= 2
  BY FtwAssumption DEF IInv, DriverTypes, Queue

\* An erased queue.
LEMMA Erased ==
    /\ EmptyQueue \in Queue /\ GoodQueue(EmptyQueue) /\ ~Open(EmptyQueue)
    /\ ~Full(EmptyQueue) /\ ~EmptyQueue.complete /\ EmptyQueue.n = 0
    /\ EmptyQueue.used = 0 /\ ~EmptyQueue.dirty
  BY FtwAssumption DEF EmptyQueue, Queue, GoodQueue, Open, SpareComplete, Full, Size

\* An abort completes the last header, if there is one.
LEMMA AbortedQueue ==
    ASSUME NEW q \in Queue, GoodQueue(q)
    PROVE  /\ Aborted(q) \in Queue /\ GoodQueue(Aborted(q))
           /\ ~Open(Aborted(q))
           /\ Aborted(q).dirty = q.dirty
           /\ Aborted(q) = q \/ (q.n > 0 /\ Aborted(q).n = q.n)
  <1>1. CASE q.n > 0
    <2>1. Aborted(q) = [q EXCEPT !.complete = TRUE]
      BY <1>1 DEF Aborted
    <2> QED
      BY <1>1, <2>1 DEF Queue, GoodQueue, Open, SpareComplete
  <1>2. CASE ~(q.n > 0)
    BY <1>2 DEF Aborted, Open, SpareComplete
  <1> QED
    BY <1>1, <1>2

(***************************************************************************)
(* FtwWrite.                                                               *)
(***************************************************************************)

\* An allocated header fits, as the queue is not full.
LEMMA WriteAllocatesStep ==
    ASSUME IInv, WriteAllocates
    PROVE  IInv'
  <1>1. pc = "w_check" /\ pc' = "w_record" /\ op = "write" /\ work.ok /\ work.q.n = 0
    BY DEF IInv, WriteAllocates, Goto, WorkInv, CallInv, CopyPC, FlushPC
  <1>2. /\ work'.ok = work.ok
        /\ work'.q = [work.q EXCEPT !.n = 1]
    BY Types, <1>1 DEF WriteAllocates
  <1>3. /\ work'.q.n = 1
        /\ UNCHANGED <<work.q.used, work.q.complete, work.q.done,
                       work.q.blk, work.q.sp, work.q.dirty>>
    BY Types, <1>2 DEF Queue
  <1>4. work'.q \in Queue
    BY Types, <1>1, <1>2 DEF Queue
  <1>5. work' \in [ok : BOOLEAN, q : Queue]
    BY Types, <1>4 DEF WriteAllocates
  <1>6. UNCHANGED <<spare, target, op, call, status, saved, offset, ret, kept>>
    BY DEF WriteAllocates, Goto, locals
  <1>7. ~Full(work.q) /\ ~work.q.complete
    BY Types, <1>1 DEF IInv, RoomInv
  <1>8. work.q.used + Size(1) <= QueueSize
    BY Types, <1>7 DEF Full, Size
  <1>9. work.q.done = 0 /\ ~work.q.sp
    BY Types, <1>1 DEF IInv, GoodQueue
  <1>10. ~work.q.dirty
    BY <1>1 DEF IInv, DirtyInv, CopyPC
  <1>11. DriverTypes' /\ GoodQueue(work.q)'
    BY Types, <1>1, <1>2, <1>3, <1>5, <1>6, <1>7, <1>8, <1>9, <1>10 DEF IInv, DriverTypes,
       Queue, Labels, Ops, GoodQueue, Size
  <1>12. ReclaimInv' /\ ReturnInv' /\ WorkInv'
    BY Types, <1>1, <1>2, <1>3, <1>5, <1>6, <1>7, <1>8, <1>9, <1>10 DEF IInv, ReclaimInv,
       ReclaimPC, CopyPC, FlushPC, IsCopy, ValidCopy, ReturnInv, BootPC, WorkInv,
       RoomInv, Full
  <1>13. CallInv' /\ RecordInv' /\ TargetInv'
    BY Types, <1>1, <1>2, <1>3, <1>5, <1>6, <1>7, <1>8, <1>9, <1>10 DEF IInv, CallInv,
       RecordPC, TargetPC, RecordInv, TargetInv, Open, SpareComplete
  <1>14. OpenInv' /\ TornInv' /\ DirtyInv' /\ RoomInv'
    BY Types, <1>1, <1>2, <1>3, <1>5, <1>6, <1>7, <1>8, <1>9, <1>10 DEF IInv, OpenInv,
       Open, SpareComplete, TargetPC, BootPC, TornInv, DirtyInv, CopyPC, RoomInv, Full,
       Size
  <1> QED
    BY <1>11, <1>12, <1>13, <1>14 DEF IInv

\* A refused write leaves the queue alone.
LEMMA WriteRefusedStep ==
    ASSUME IInv, WriteRefused
    PROVE  IInv'
  <1>1. /\ pc = "w_check" /\ pc' = "idle" /\ op = "write" /\ op' = "none" /\ call' = None
        /\ status' = "failed" /\ work.ok
    BY DEF IInv, WriteRefused, Return, WorkInv, CallInv, CopyPC, FlushPC
  <1>2. work' = work
    BY Types, <1>1 DEF WriteRefused, flash
  <1>3. UNCHANGED <<spare, target, saved, offset, ret, kept>>
    BY DEF WriteRefused, Return, locals, flash
  <1>4. DriverTypes' /\ GoodQueue(work.q)'
    BY Types, <1>1, <1>2, <1>3 DEF IInv, DriverTypes, Queue, Labels, Ops, GoodQueue, Size
  <1>5. ReclaimInv' /\ ReturnInv' /\ WorkInv'
    BY Types, <1>1, <1>2, <1>3 DEF IInv, ReclaimInv, ReclaimPC, CopyPC, FlushPC, IsCopy,
       ValidCopy, ReturnInv, BootPC, WorkInv, RoomInv, Full
  <1>6. CallInv' /\ RecordInv' /\ TargetInv'
    BY Types, <1>1, <1>2, <1>3 DEF IInv, CallInv, RecordPC, TargetPC, RecordInv,
       TargetInv, Open, SpareComplete
  <1>7. OpenInv' /\ TornInv' /\ DirtyInv' /\ RoomInv'
    BY Types, <1>1, <1>2, <1>3 DEF IInv, OpenInv, Open, SpareComplete, TargetPC, BootPC,
       TornInv, DirtyInv, CopyPC, RoomInv, Full, Size
  <1> QED
    BY <1>4, <1>5, <1>6, <1>7 DEF IInv

\* A header that was allocated before is used.
LEMMA WriteProceedsStep ==
    ASSUME IInv, WriteProceeds
    PROVE  IInv'
  <1>1. /\ pc = "w_check" /\ pc' = "w_record" /\ op = "write" /\ work.ok
        /\ ~AllDone(work.q) /\ ~SpareComplete(work.q) /\ work.q.n > 0
    BY DEF IInv, WriteProceeds, Goto, WorkInv, CallInv, CopyPC, FlushPC
  <1>2. work' = work
    BY Types, <1>1 DEF WriteProceeds, flash
  <1>3. UNCHANGED <<spare, target, op, call, status, saved, offset, ret, kept>>
    BY DEF WriteProceeds, Goto, locals, flash
  <1>4. DriverTypes' /\ GoodQueue(work.q)'
    BY Types, <1>1, <1>2, <1>3 DEF IInv, DriverTypes, Queue, Labels, Ops, GoodQueue, Size
  <1>5. ReclaimInv' /\ ReturnInv' /\ WorkInv'
    BY Types, <1>1, <1>2, <1>3 DEF IInv, ReclaimInv, ReclaimPC, CopyPC, FlushPC, IsCopy,
       ValidCopy, ReturnInv, BootPC, WorkInv, RoomInv, Full
  <1>6. CallInv' /\ RecordInv' /\ TargetInv'
    BY Types, <1>1, <1>2, <1>3 DEF IInv, CallInv, RecordPC, TargetPC, AllDone,
       SpareComplete, GoodQueue, RoomInv, RecordInv, TargetInv, Open
  <1>7. OpenInv' /\ TornInv' /\ DirtyInv' /\ RoomInv'
    BY Types, <1>1, <1>2, <1>3 DEF IInv, OpenInv, Open, SpareComplete, TargetPC, BootPC,
       TornInv, DirtyInv, CopyPC, RoomInv, Full, Size
  <1> QED
    BY <1>4, <1>5, <1>6, <1>7 DEF IInv

\* The record gets its block.
LEMMA WriteRecordStep ==
    ASSUME IInv, WriteRecord
    PROVE  IInv'
  <1>1. pc = "w_record" /\ pc' = "w_save" /\ op = "write" /\ work.ok /\ call.blk \in Block
    BY DEF IInv, WriteRecord, Goto, WorkInv, CallInv, CopyPC, FlushPC, RecordPC
  <1>2. /\ work'.ok = work.ok
        /\ work'.q = [work.q EXCEPT !.blk = call.blk]
    BY Types, <1>1 DEF WriteRecord
  <1>3. /\ work'.q.blk = call.blk
        /\ UNCHANGED <<work.q.used, work.q.n, work.q.complete,
                       work.q.done, work.q.sp, work.q.dirty>>
    BY Types, <1>2 DEF Queue
  <1>4. work'.q \in Queue
    BY Types, <1>1, <1>2 DEF Queue
  <1>5. work' \in [ok : BOOLEAN, q : Queue]
    BY Types, <1>4 DEF WriteRecord
  <1>6. UNCHANGED <<spare, target, op, call, status, saved, offset, ret, kept>>
    BY DEF WriteRecord, Goto, locals
  <1>7. DriverTypes' /\ GoodQueue(work.q)'
    BY Types, <1>1, <1>2, <1>3, <1>5, <1>6 DEF IInv, DriverTypes, Queue, Labels, Ops,
       GoodQueue, Size
  <1>8. ReclaimInv' /\ ReturnInv' /\ WorkInv'
    BY Types, <1>1, <1>2, <1>3, <1>5, <1>6 DEF IInv, ReclaimInv, ReclaimPC, CopyPC,
       FlushPC, IsCopy, ValidCopy, ReturnInv, BootPC, WorkInv, RoomInv, Full
  <1>9. CallInv' /\ RecordInv' /\ TargetInv'
    BY Types, <1>1, <1>2, <1>3, <1>5, <1>6 DEF IInv, CallInv, RecordPC, TargetPC,
       RecordInv, TargetInv, Open, SpareComplete
  <1>10. OpenInv' /\ TornInv' /\ DirtyInv' /\ RoomInv'
    BY Types, <1>1, <1>2, <1>3, <1>5, <1>6 DEF IInv, OpenInv, Open, SpareComplete,
       TargetPC, BootPC, TornInv, DirtyInv, CopyPC, RoomInv, Full, Size
  <1> QED
    BY <1>7, <1>8, <1>9, <1>10 DEF IInv

\* The spare block is erased while it holds nothing that is pending.
LEMMA SaveSpareStep ==
    ASSUME IInv, SaveSpare("w_save", "w_fill")
    PROVE  IInv'
  <1>1. pc = "w_save" /\ pc' = "w_fill" /\ op = "write" /\ work.ok
    BY DEF IInv, SaveSpare, Goto, WorkInv, CallInv, CopyPC, FlushPC, RecordPC
  <1>2. work' = work /\ saved' = spare /\ spare' = Torn
    BY Types, <1>1 DEF SaveSpare
  <1>3. UNCHANGED <<target, op, call, status, ret, kept, offset>>
    BY DEF SaveSpare, Goto
  <1>4. DriverTypes' /\ GoodQueue(work.q)'
    BY Types, <1>1, <1>2, <1>3 DEF IInv, DriverTypes, Queue, Labels, Ops, SpareContents,
       GoodQueue, Size
  <1>5. ReclaimInv' /\ ReturnInv' /\ WorkInv'
    BY Types, <1>1, <1>2, <1>3 DEF IInv, ReclaimInv, ReclaimPC, CopyPC, FlushPC, IsCopy,
       ValidCopy, ReturnInv, BootPC, WorkInv, RoomInv, Full
  <1>6. CallInv' /\ RecordInv' /\ TargetInv'
    BY Types, <1>1, <1>2, <1>3 DEF IInv, CallInv, RecordPC, TargetPC, RecordInv,
       TargetInv, Open, SpareComplete
  <1>7. OpenInv' /\ TornInv' /\ DirtyInv' /\ RoomInv'
    BY Types, <1>1, <1>2, <1>3 DEF IInv, OpenInv, Open, SpareComplete, TargetPC, BootPC,
       TornInv, DirtyInv, CopyPC, RoomInv, Full, Size
  <1> QED
    BY <1>4, <1>5, <1>6, <1>7 DEF IInv

\* The data goes to the spare block.
LEMMA FillSpareStep ==
    ASSUME IInv, FillSpare
    PROVE  IInv'
  <1>1. /\ pc = "w_fill" /\ pc' = "w_mark" /\ op = "write" /\ work.ok
        /\ call \in [blk : Block, data : Data]
    BY DEF IInv, FillSpare, Goto, WorkInv, CallInv, CopyPC, FlushPC, RecordPC
  <1>2. work' = work /\ spare' = call.data
    BY Types, <1>1 DEF FillSpare
  <1>3. UNCHANGED <<target, op, call, status, saved, offset, ret, kept>>
    BY DEF FillSpare, Goto, locals
  <1>4. DriverTypes' /\ GoodQueue(work.q)'
    BY Types, <1>1, <1>2, <1>3 DEF IInv, DriverTypes, Queue, Labels, Ops, SpareContents,
       GoodQueue, Size
  <1>5. ReclaimInv' /\ ReturnInv' /\ WorkInv'
    BY Types, <1>1, <1>2, <1>3 DEF IInv, ReclaimInv, ReclaimPC, CopyPC, FlushPC, IsCopy,
       ValidCopy, ReturnInv, BootPC, WorkInv, RoomInv, Full
  <1>6. CallInv' /\ RecordInv' /\ TargetInv'
    BY Types, <1>1, <1>2, <1>3 DEF IInv, CallInv, RecordPC, TargetPC, RecordInv,
       TargetInv, Open, SpareComplete
  <1>7. OpenInv' /\ TornInv' /\ DirtyInv' /\ RoomInv'
    BY Types, <1>1, <1>2, <1>3 DEF IInv, OpenInv, Open, SpareComplete, TargetPC, BootPC,
       TornInv, DirtyInv, CopyPC, RoomInv, Full, Size
  <1> QED
    BY <1>4, <1>5, <1>6, <1>7 DEF IInv

\* SpareComplete makes the write pending.
LEMMA MarkSpareCompleteStep ==
    ASSUME IInv, MarkSpareComplete
    PROVE  IInv'
  <1>1. /\ pc = "w_mark" /\ pc' = "r_erase" /\ op = "write" /\ work.ok
        /\ call \in [blk : Block, data : Data]
    BY DEF IInv, MarkSpareComplete, Goto, WorkInv, CallInv, CopyPC, FlushPC, RecordPC
  <1>2. /\ work'.ok = work.ok
        /\ work'.q = [work.q EXCEPT !.sp = TRUE]
    BY Types, <1>1 DEF MarkSpareComplete
  <1>3. /\ work'.q.sp = TRUE
        /\ UNCHANGED <<work.q.used, work.q.n, work.q.complete,
                       work.q.done, work.q.blk, work.q.dirty>>
    BY Types, <1>2 DEF Queue
  <1>4. work'.q \in Queue
    BY Types, <1>1, <1>2 DEF Queue
  <1>5. work' \in [ok : BOOLEAN, q : Queue]
    BY Types, <1>4 DEF MarkSpareComplete
  <1>6. UNCHANGED <<spare, target, op, call, status, saved, offset, ret, kept>>
    BY DEF MarkSpareComplete, Goto, locals
  <1>7. DriverTypes' /\ GoodQueue(work.q)'
    BY Types, <1>1, <1>2, <1>3, <1>5, <1>6 DEF IInv, DriverTypes, Queue, Labels, Ops,
       RecordInv, RecordPC, GoodQueue, Size
  <1>8. ReclaimInv' /\ ReturnInv' /\ WorkInv'
    BY Types, <1>1, <1>2, <1>3, <1>5, <1>6 DEF IInv, ReclaimInv, ReclaimPC, CopyPC,
       FlushPC, IsCopy, ValidCopy, ReturnInv, BootPC, WorkInv, RoomInv, Full
  <1>9. CallInv' /\ RecordInv' /\ TargetInv'
    BY Types, <1>1, <1>2, <1>3, <1>5, <1>6 DEF IInv, CallInv, RecordPC, TargetPC,
       RecordInv, TargetInv, Open, SpareComplete
  <1>10. OpenInv' /\ TornInv' /\ DirtyInv' /\ RoomInv'
    BY Types, <1>1, <1>2, <1>3, <1>5, <1>6 DEF IInv, OpenInv, Open, SpareComplete,
       TargetPC, BootPC, RecordInv, RecordPC, GoodQueue, Queue, TornInv, DirtyInv,
       CopyPC, RoomInv, Full, Size
  <1> QED
    BY <1>7, <1>8, <1>9, <1>10 DEF IInv

\* FtwWrite puts back what the spare block held.
LEMMA ReturnSpareStep ==
    ASSUME IInv, RestoreSpare("w_restore", "idle")
    PROVE  IInv'
  <1>1. /\ pc = "w_restore" /\ pc' = "idle" /\ op = "write" /\ op' = "none" /\ call' = None
        /\ status' = "written" /\ work.ok
    BY DEF IInv, RestoreSpare, Return, WorkInv, CallInv, CopyPC, FlushPC, RecordPC
  <1>2. work' = work /\ spare' = saved /\ ~Open(work.q)
    BY Types, <1>1 DEF RestoreSpare, IInv, TargetInv, DonePC
  <1>3. UNCHANGED <<target, saved, offset, ret, kept>>
    BY DEF RestoreSpare, Goto, Return, locals
  <1>4. DriverTypes' /\ GoodQueue(work.q)'
    BY Types, <1>1, <1>2, <1>3 DEF IInv, DriverTypes, Queue, Labels, Ops, GoodQueue, Size
  <1>5. ReclaimInv' /\ ReturnInv' /\ WorkInv'
    BY Types, <1>1, <1>2, <1>3 DEF IInv, ReclaimInv, ReclaimPC, CopyPC, FlushPC, IsCopy,
       ValidCopy, ReturnInv, BootPC, WorkInv, RoomInv, Full
  <1>6. CallInv' /\ RecordInv' /\ TargetInv'
    BY Types, <1>1, <1>2, <1>3 DEF IInv, CallInv, RecordPC, TargetPC, RecordInv,
       TargetInv, Open, SpareComplete
  <1>7. OpenInv' /\ TornInv' /\ DirtyInv' /\ RoomInv'
    BY Types, <1>1, <1>2, <1>3 DEF IInv, OpenInv, Open, SpareComplete, TargetPC, BootPC,
       TornInv, DirtyInv, CopyPC, RoomInv, Full, Size
  <1> QED
    BY <1>4, <1>5, <1>6, <1>7 DEF IInv

(***************************************************************************)
(* FtwWriteRecord.                                                         *)
(***************************************************************************)

\* The target block is torn while its data is in the spare block.
LEMMA EraseTargetStep ==
    ASSUME IInv, EraseTarget
    PROVE  IInv'
  <1>1. /\ pc = "r_erase" /\ pc' = "r_copy" /\ op \in {"write", "restart", "init"}
        /\ work.ok /\ Open(work.q) /\ call.blk = work.q.blk /\ call.blk \in Block
    BY DEF IInv, EraseTarget, Goto, WorkInv, CallInv, TargetInv, TargetPC, CopyPC,
       FlushPC, GoodQueue, Open, SpareComplete
  <1>2. work' = work /\ target' = [target EXCEPT ![call.blk] = Torn]
    BY Types, <1>1 DEF EraseTarget
  <1>3. UNCHANGED <<spare, op, call, status, saved, offset, ret, kept>>
    BY DEF EraseTarget, Goto, locals
  <1>4. DriverTypes' /\ GoodQueue(work.q)'
    BY Types, <1>1, <1>2, <1>3 DEF IInv, DriverTypes, Queue, Labels, Ops, GoodQueue, Size
  <1>5. ReclaimInv' /\ ReturnInv' /\ WorkInv'
    BY Types, <1>1, <1>2, <1>3 DEF IInv, ReclaimInv, ReclaimPC, CopyPC, FlushPC, IsCopy,
       ValidCopy, ReturnInv, BootPC, WorkInv, RoomInv, Full
  <1>6. CallInv' /\ RecordInv' /\ TargetInv'
    BY Types, <1>1, <1>2, <1>3 DEF IInv, CallInv, RecordPC, TargetPC, RecordInv,
       TargetInv, Open, SpareComplete
  <1>7. OpenInv' /\ TornInv' /\ DirtyInv' /\ RoomInv'
    BY Types, <1>1, <1>2, <1>3 DEF IInv, OpenInv, Open, SpareComplete, TargetPC, BootPC,
       TornInv, DirtyInv, CopyPC, RoomInv, Full, Size
  <1> QED
    BY <1>4, <1>5, <1>6, <1>7 DEF IInv

\* The target block gets the data.
LEMMA CopyTargetStep ==
    ASSUME IInv, CopyTarget
    PROVE  IInv'
  <1>1. /\ pc = "r_copy" /\ pc' = "r_dest" /\ op \in {"write", "restart", "init"}
        /\ work.ok /\ Open(work.q) /\ call.blk = work.q.blk /\ call.blk \in Block
        /\ spare \in Data
    BY DEF IInv, CopyTarget, Goto, WorkInv, CallInv, OpenInv, TargetInv, TargetPC, CopyPC,
       FlushPC, GoodQueue, Open, SpareComplete
  <1>2. work' = work /\ target' = [target EXCEPT ![call.blk] = spare]
    BY Types, <1>1 DEF CopyTarget, IInv, OpenInv, TargetInv, TargetPC, IsCopy
  <1>3. UNCHANGED <<spare, op, call, status, saved, offset, ret, kept>>
    BY DEF CopyTarget, Goto, locals
  <1>4. Torn \notin Data
    BY FtwAssumption
  <1>5. DriverTypes' /\ GoodQueue(work.q)'
    BY Types, <1>1, <1>2, <1>3, <1>4 DEF IInv, DriverTypes, Queue, Labels, Ops, GoodQueue, Size
  <1>6. ReclaimInv' /\ ReturnInv' /\ WorkInv'
    BY Types, <1>1, <1>2, <1>3, <1>4 DEF IInv, ReclaimInv, ReclaimPC, CopyPC, FlushPC,
       IsCopy, ValidCopy, ReturnInv, BootPC, WorkInv, RoomInv, Full
  <1>7. CallInv' /\ RecordInv' /\ TargetInv'
    BY Types, <1>1, <1>2, <1>3, <1>4 DEF IInv, CallInv, RecordPC, TargetPC, DriverTypes,
       RecordInv, TargetInv, Open, SpareComplete
  <1>8. OpenInv' /\ TornInv' /\ DirtyInv' /\ RoomInv'
    BY Types, <1>1, <1>2, <1>3, <1>4 DEF IInv, OpenInv, Open, SpareComplete, TargetPC,
       BootPC, DriverTypes, TornInv, DirtyInv, CopyPC, RoomInv, Full, Size
  <1> QED
    BY <1>5, <1>6, <1>7, <1>8 DEF IInv

\* The record is done: its block holds the data.
LEMMA MarkDestCompleteStep ==
    ASSUME IInv, MarkDestComplete
    PROVE  IInv'
  <1>1. /\ pc = "r_dest" /\ op \in {"write", "restart", "init"} /\ work.ok /\ Open(work.q)
        /\ pc' = IF work.q.done + 1 = work.q.n THEN "r_complete" ELSE "r_unspare"
    BY Types DEF IInv, MarkDestComplete, Goto, WorkInv, CallInv, TargetInv, TargetPC,
       CopyPC, FlushPC, DriverTypes, Queue
  <1>2. /\ work'.ok = work.ok
        /\ work'.q = [work.q EXCEPT !.done = @ + 1, !.sp = FALSE, !.blk = None]
    BY Types, <1>1 DEF MarkDestComplete
  <1>3. /\ work'.q.done = work.q.done + 1 /\ work'.q.sp = FALSE /\ work'.q.blk = None
        /\ UNCHANGED <<work.q.used, work.q.n, work.q.complete,
                       work.q.dirty>>
    BY Types, <1>2 DEF Queue
  <1>4. PICK m \in Nat : m = work.q.done + 1
    BY Types
  <1>5. work'.q \in Queue
    BY Types, <1>1, <1>2, <1>4 DEF Queue
  <1>6. work' \in [ok : BOOLEAN, q : Queue]
    BY Types, <1>5 DEF MarkDestComplete
  <1>7. UNCHANGED <<spare, target, op, call, status, saved, offset, ret, kept>>
    BY DEF MarkDestComplete, Goto, locals
  <1>8. work.q.done < work.q.n /\ work.q.n > 0
    BY <1>1 DEF Open, SpareComplete
  <1>9. work.q.done + 1 <= work.q.n
    BY Types, <1>8
  <1>10. DriverTypes' /\ GoodQueue(work.q)'
    BY Types, <1>1, <1>2, <1>3, <1>6, <1>7, <1>8, <1>9 DEF IInv, DriverTypes, Queue, Labels,
       Ops, GoodQueue, Size
  <1>11. ReclaimInv' /\ ReturnInv' /\ WorkInv'
    BY Types, <1>1, <1>2, <1>3, <1>6, <1>7, <1>8, <1>9 DEF IInv, ReclaimInv, ReclaimPC,
       CopyPC, FlushPC, IsCopy, ValidCopy, ReturnInv, BootPC, WorkInv, RoomInv, Full
  <1>12. CallInv' /\ RecordInv' /\ TargetInv'
    BY Types, <1>1, <1>2, <1>3, <1>6, <1>7, <1>8, <1>9 DEF IInv, CallInv, RecordPC,
       TargetPC, RecordInv, TargetInv, Open, SpareComplete
  <1>13. OpenInv' /\ TornInv' /\ DirtyInv' /\ RoomInv'
    BY Types, <1>1, <1>2, <1>3, <1>6, <1>7, <1>8, <1>9 DEF IInv, OpenInv, Open,
       SpareComplete, TargetPC, BootPC, TornInv, DirtyInv, CopyPC, RoomInv, Full, Size
  <1> QED
    BY <1>10, <1>11, <1>12, <1>13 DEF IInv

\* The header is complete when all its records are done.
LEMMA MarkCompleteStep ==
    ASSUME IInv, MarkComplete
    PROVE  IInv'
  <1>1. /\ pc = "r_complete" /\ pc' = "r_unspare" /\ op \in {"write", "restart", "init"}
        /\ work.ok /\ work.q.done = work.q.n /\ work.q.n > 0
    BY DEF IInv, MarkComplete, Goto, WorkInv, CallInv, TargetInv, TargetPC, CopyPC, FlushPC
  <1>2. /\ work'.ok = work.ok
        /\ work'.q = [work.q EXCEPT !.complete = TRUE]
    BY Types, <1>1 DEF MarkComplete
  <1>3. /\ work'.q.complete = TRUE
        /\ UNCHANGED <<work.q.used, work.q.n, work.q.done,
                       work.q.blk, work.q.sp, work.q.dirty>>
    BY Types, <1>2 DEF Queue
  <1>4. work'.q \in Queue
    BY Types, <1>1, <1>2 DEF Queue
  <1>5. work' \in [ok : BOOLEAN, q : Queue]
    BY Types, <1>4 DEF MarkComplete
  <1>6. UNCHANGED <<spare, target, op, call, status, saved, offset, ret, kept>>
    BY DEF MarkComplete, Goto, locals
  <1>7. DriverTypes' /\ GoodQueue(work.q)'
    BY Types, <1>1, <1>2, <1>3, <1>5, <1>6 DEF IInv, DriverTypes, Queue, Labels, Ops,
       GoodQueue, Size
  <1>8. ReclaimInv' /\ ReturnInv' /\ WorkInv'
    BY Types, <1>1, <1>2, <1>3, <1>5, <1>6 DEF IInv, ReclaimInv, ReclaimPC, CopyPC,
       FlushPC, IsCopy, ValidCopy, ReturnInv, BootPC, WorkInv, RoomInv, Full
  <1>9. CallInv' /\ RecordInv' /\ TargetInv'
    BY Types, <1>1, <1>2, <1>3, <1>5, <1>6 DEF IInv, CallInv, RecordPC, TargetPC,
       RecordInv, TargetInv, Open, SpareComplete
  <1>10. OpenInv' /\ TornInv' /\ DirtyInv' /\ RoomInv'
    BY Types, <1>1, <1>2, <1>3, <1>5, <1>6 DEF IInv, OpenInv, Open, SpareComplete,
       TargetPC, BootPC, TornInv, DirtyInv, CopyPC, RoomInv, Full, Size
  <1> QED
    BY <1>7, <1>8, <1>9, <1>10 DEF IInv

\* The spare block is erased when nothing is pending.
LEMMA EraseSpareStep ==
    ASSUME IInv, EraseSpare
    PROVE  IInv'
  <1>1. /\ pc = "r_unspare" /\ op \in {"write", "restart", "init"} /\ work.ok
        /\ ~Open(work.q)
        /\ \/ op = "write" /\ pc' = "w_restore" /\ UNCHANGED <<op, call, status>>
           \/ op = "init" /\ pc' = "b_abort" /\ UNCHANGED <<op, call, status>>
           \/ /\ op = "restart" /\ pc' = "idle" /\ op' = "none" /\ call' = None
              /\ UNCHANGED status
    BY DEF IInv, EraseSpare, Goto, Return, WorkInv, CallInv, TargetInv, TargetPC, CopyPC,
       FlushPC, DonePC
  <1>2. work' = work /\ spare' = Torn
    BY Types, <1>1 DEF EraseSpare
  <1>3. UNCHANGED <<target, saved, offset, ret, kept>>
    BY DEF EraseSpare, Goto, Return, locals
  <1>4. DriverTypes' /\ GoodQueue(work.q)'
    BY Types, <1>1, <1>2, <1>3 DEF IInv, DriverTypes, Queue, Labels, Ops, SpareContents,
       GoodQueue, Size
  <1>5. ReclaimInv' /\ ReturnInv' /\ WorkInv'
    BY Types, <1>1, <1>2, <1>3 DEF IInv, ReclaimInv, ReclaimPC, CopyPC, FlushPC, IsCopy,
       ValidCopy, ReturnInv, BootPC, WorkInv, RoomInv, Full
  <1>6. CallInv' /\ RecordInv' /\ TargetInv'
    BY Types, <1>1, <1>2, <1>3 DEF IInv, CallInv, RecordPC, TargetPC, RecordInv,
       TargetInv, Open, SpareComplete
  <1>7. OpenInv' /\ TornInv' /\ DirtyInv' /\ RoomInv'
    BY Types, <1>1, <1>2, <1>3 DEF IInv, OpenInv, Open, SpareComplete, TargetPC, BootPC,
       TornInv, DirtyInv, CopyPC, RoomInv, Full, Size
  <1> QED
    BY <1>4, <1>5, <1>6, <1>7 DEF IInv

(***************************************************************************)
(* Calls, and the refresh they start with.                                 *)
(***************************************************************************)

\* A refresh keeps a header that is open, and sends only a full queue through a
\* reclaim, in which there is then nothing to keep.
LEMMA Refreshed ==
    ASSUME IInv, NEW q \in Queue, GoodQueue(q), NEW next, Refresh(q, next)
    PROVE  /\ work' \in [ok : BOOLEAN, q : Queue] /\ work'.ok = work.ok
           /\ work'.q = Advance(q) /\ work'.q \in Queue /\ GoodQueue(work'.q)
           /\ ~work'.q.complete
           /\ ~q.complete => work'.q = q
           /\ q.complete => work'.q.n = 0 /\ ~work'.q.sp /\ ~work'.q.dirty
           /\ kept' = EmptyQueue /\ UNCHANGED <<saved, offset>>
           /\ \/ Full(work'.q) /\ work'.q.n = 0 /\ pc' = "c_save" /\ ret' = next
              \/ ~Full(work'.q) /\ pc' = next /\ ret' = ret
  <1> DEFINE last == Advance(q)
  <1>1. /\ last \in Queue /\ GoodQueue(last) /\ ~last.complete
        /\ ~q.complete => last = q
        /\ q.complete => last.n = 0 /\ ~last.sp /\ ~last.dirty
    <2>1. CASE q.complete
      <3>1. PICK u \in Nat : u = q.used + Size(q.n)
        BY DEF Queue, Size
      <3>2. last = [EmptyQueue EXCEPT !.used = u]
        BY <2>1, <3>1 DEF Advance
      <3> HIDE DEF last
      <3>3. last.n = 0 /\ last.done = 0 /\ ~last.complete /\ ~last.sp /\ ~last.dirty
        BY <3>2 DEF EmptyQueue
      <3>4. last \in Queue
        BY <3>2, Erased DEF Queue
      <3> QED
        BY <2>1, <3>3, <3>4 DEF GoodQueue
    <2>2. CASE ~q.complete
      BY <2>2 DEF Advance
    <2> QED
      BY <2>1, <2>2
  <1>2. /\ work' = [work EXCEPT !.q = last]
        /\ \/ /\ Full(last) /\ pc' = "c_save"
              /\ kept' = Compact(last) /\ ret' = next /\ UNCHANGED <<saved, offset>>
           \/ ~Full(last) /\ pc' = next /\ UNCHANGED locals
    BY DEF Refresh, StartReclaim
  <1> HIDE DEF last
  <1>3. Full(last) => last.n = 0
    <2> SUFFICES ASSUME last.n # 0
                 PROVE  ~Full(last)
      OBVIOUS
    <2>1. last.used \in Nat /\ last.n \in Nat /\ last.n >= 1
      BY <1>1 DEF Queue
    <2>2. last.used + Size(last.n) <= QueueSize
      BY <1>1, <2>1 DEF GoodQueue
    <2> QED
      BY <2>1, <2>2, Types DEF Full, Size
  <1>4. last.n = 0 => Compact(last) = EmptyQueue
    BY DEF Compact
  <1>5. work'.ok = work.ok /\ work'.q = last /\ work' \in [ok : BOOLEAN, q : Queue]
    BY <1>1, <1>2, Types
  <1> QED
    BY <1>1, <1>2, <1>3, <1>4, <1>5 DEF IInv, ReclaimInv, last, locals

\* A write is accepted.
LEMMA CallWriteStep ==
    ASSUME IInv, NEW b \in Block, NEW d \in Data, CallWrite(b, d)
    PROVE  IInv'
  <1>1. /\ pc = "idle" /\ op = "none" /\ op' = "write" /\ status' = "none"
        /\ call' \in [blk : Block, data : Data] /\ Refresh(work.q, "w_check")
    BY DEF CallWrite, IInv, CallInv
  <1>2. GoodQueue(work.q) /\ work.q \in Queue
    BY Types, <1>1, Erased DEF IInv
  <1>3. /\ work' \in [ok : BOOLEAN, q : Queue] /\ work'.ok = work.ok
        /\ work'.q = Advance(work.q) /\ work'.q \in Queue /\ GoodQueue(work'.q)
        /\ ~work'.q.complete
        /\ ~work.q.complete => work'.q = work.q
        /\ work.q.complete => work'.q.n = 0 /\ ~work'.q.sp /\ ~work'.q.dirty
        /\ kept' = EmptyQueue /\ UNCHANGED <<saved, offset>>
        /\ \/ Full(work'.q) /\ work'.q.n = 0 /\ pc' = "c_save" /\ ret' = "w_check"
           \/ ~Full(work'.q) /\ pc' = "w_check" /\ ret' = ret
    BY <1>1, <1>2, Refreshed
  <1>4. UNCHANGED <<spare, target>>
    BY <1>1 DEF CallWrite
  <1>5. DriverTypes' /\ GoodQueue(work.q)'
    BY Types, <1>1, <1>3, <1>4, Erased DEF IInv, DriverTypes, Labels, Ops, GoodQueue, Queue,
       Size
  <1>6. ReclaimInv' /\ ReturnInv' /\ WorkInv'
    BY Types, <1>1, <1>3, <1>4 DEF IInv, ReclaimInv, ReclaimPC, CopyPC, FlushPC, IsCopy,
       ValidCopy, GoodQueue, ReturnInv, BootPC, WorkInv, RoomInv, Full
  <1>7. CallInv' /\ RecordInv' /\ TargetInv'
    BY Types, <1>1, <1>3, <1>4 DEF IInv, CallInv, RecordPC, TargetPC, RecordInv,
       TargetInv, Open, SpareComplete
  <1>8. OpenInv' /\ TornInv' /\ DirtyInv' /\ RoomInv'
    BY Types, <1>1, <1>3, <1>4 DEF IInv, OpenInv, Open, SpareComplete, TargetPC, BootPC,
       TornInv, DirtyInv, CopyPC, RoomInv, Full, Size
  <1> QED
    BY <1>5, <1>6, <1>7, <1>8 DEF IInv

\* The other calls.
LEMMA EnterStep ==
    ASSUME IInv, NEW o, NEW n \in Nat, NEW next, Enter(o, n, next),
           \/ o = "allocate" /\ next = "a_check" /\ n # 0 /\ Fits(n)
           \/ o = "restart" /\ next = "s_check"
           \/ o = "abort" /\ next = "x_check"
           \/ o = "query" /\ next = "g_check"
    PROVE  IInv'
  <1>1. /\ pc = "idle" /\ op = "none" /\ op' = o /\ status' = status
        /\ call' = [n |-> n] /\ Refresh(work.q, next)
    BY DEF Enter, IInv, CallInv
  <1>2. GoodQueue(work.q) /\ work.q \in Queue
    BY Types, <1>1, Erased DEF IInv
  <1>3. /\ work' \in [ok : BOOLEAN, q : Queue] /\ work'.ok = work.ok
        /\ work'.q = Advance(work.q) /\ work'.q \in Queue /\ GoodQueue(work'.q)
        /\ ~work'.q.complete
        /\ ~work.q.complete => work'.q = work.q
        /\ work.q.complete => work'.q.n = 0 /\ ~work'.q.sp /\ ~work'.q.dirty
        /\ kept' = EmptyQueue /\ UNCHANGED <<saved, offset>>
        /\ \/ Full(work'.q) /\ work'.q.n = 0 /\ pc' = "c_save" /\ ret' = next
           \/ ~Full(work'.q) /\ pc' = next /\ ret' = ret
    BY <1>1, <1>2, Refreshed
  <1>4. UNCHANGED <<spare, target>>
    BY <1>1 DEF Enter
  <1>5. pc' = "a_check" => work'.q.used + Size(n) <= QueueSize
    BY <1>1, <1>3, Types DEF Fits, Full, Queue
  <1>6. DriverTypes' /\ GoodQueue(work.q)'
    BY Types, <1>1, <1>3, <1>4, Erased, <1>5 DEF IInv, DriverTypes, Labels, Ops, GoodQueue,
       Queue, Size
  <1>7. ReclaimInv' /\ ReturnInv' /\ WorkInv'
    BY Types, <1>1, <1>3, <1>4, <1>5 DEF IInv, ReclaimInv, ReclaimPC, CopyPC, FlushPC,
       IsCopy, ValidCopy, GoodQueue, ReturnInv, BootPC, WorkInv, RoomInv, Full
  <1>8. CallInv' /\ RecordInv' /\ TargetInv'
    BY Types, <1>1, <1>3, <1>4, <1>5 DEF IInv, CallInv, RecordPC, TargetPC, RecordInv,
       TargetInv, Open, SpareComplete
  <1>9. OpenInv' /\ TornInv' /\ DirtyInv' /\ RoomInv'
    BY Types, <1>1, <1>3, <1>4, <1>5 DEF IInv, OpenInv, Open, SpareComplete, TargetPC,
       BootPC, TornInv, DirtyInv, CopyPC, RoomInv, Full, Size
  <1> QED
    BY <1>6, <1>7, <1>8, <1>9 DEF IInv

\* Initialisation starts with a refresh.
LEMMA BootStep ==
    ASSUME IInv, Boot
    PROVE  IInv'
  <1>1. /\ pc = "off" /\ op = "none" /\ op' = "init" /\ call = None
        /\ UNCHANGED <<call, status>>
        /\ Refresh(work.q, "b_check")
    BY DEF Boot, IInv, CallInv
  <1>2. GoodQueue(work.q) /\ work.q \in Queue
    BY Types, <1>1, Erased DEF IInv
  <1>3. /\ work' \in [ok : BOOLEAN, q : Queue] /\ work'.ok = work.ok
        /\ work'.q = Advance(work.q) /\ work'.q \in Queue /\ GoodQueue(work'.q)
        /\ ~work'.q.complete
        /\ ~work.q.complete => work'.q = work.q
        /\ work.q.complete => work'.q.n = 0 /\ ~work'.q.sp /\ ~work'.q.dirty
        /\ kept' = EmptyQueue /\ UNCHANGED <<saved, offset>>
        /\ \/ Full(work'.q) /\ work'.q.n = 0 /\ pc' = "c_save" /\ ret' = "b_check"
           \/ ~Full(work'.q) /\ pc' = "b_check" /\ ret' = ret
    BY <1>1, <1>2, Refreshed
  <1>4. UNCHANGED <<spare, target>>
    BY <1>1 DEF Boot
  <1>5. DriverTypes' /\ GoodQueue(work.q)'
    BY Types, <1>1, <1>3, <1>4, Erased DEF IInv, DriverTypes, Labels, Ops, GoodQueue, Queue,
       Size
  <1>6. ReclaimInv' /\ ReturnInv' /\ WorkInv'
    BY Types, <1>1, <1>3, <1>4 DEF IInv, ReclaimInv, ReclaimPC, CopyPC, FlushPC, IsCopy,
       ValidCopy, ReturnInv, BootPC, WorkInv, RoomInv, Full
  <1>7. CallInv' /\ RecordInv' /\ TargetInv'
    BY Types, <1>1, <1>3, <1>4 DEF IInv, CallInv, RecordPC, TargetPC, RecordInv,
       TargetInv, Open, SpareComplete
  <1>8. OpenInv' /\ TornInv' /\ DirtyInv' /\ RoomInv'
    BY Types, <1>1, <1>3, <1>4 DEF IInv, OpenInv, Open, SpareComplete, TargetPC, BootPC,
       TornInv, DirtyInv, CopyPC, RoomInv, Full, Size
  <1> QED
    BY <1>5, <1>6, <1>7, <1>8 DEF IInv

\* What FtwRestart left is aborted.
LEMMA AbortPendingStep ==
    ASSUME IInv, AbortPending
    PROVE  IInv'
  <1>1. /\ pc = "b_abort" /\ op = "init" /\ UNCHANGED <<op, call, status>> /\ work.ok
        /\ Refresh(work.q, "x_check")
    BY DEF AbortPending, IInv, ReturnInv, BootPC, WorkInv, CopyPC, FlushPC
  <1>2. GoodQueue(work.q) /\ work.q \in Queue
    BY Types, <1>1, Erased DEF IInv
  <1>3. /\ work' \in [ok : BOOLEAN, q : Queue] /\ work'.ok = work.ok
        /\ work'.q = Advance(work.q) /\ work'.q \in Queue /\ GoodQueue(work'.q)
        /\ ~work'.q.complete
        /\ ~work.q.complete => work'.q = work.q
        /\ work.q.complete => work'.q.n = 0 /\ ~work'.q.sp /\ ~work'.q.dirty
        /\ kept' = EmptyQueue /\ UNCHANGED <<saved, offset>>
        /\ \/ Full(work'.q) /\ work'.q.n = 0 /\ pc' = "c_save" /\ ret' = "x_check"
           \/ ~Full(work'.q) /\ pc' = "x_check" /\ ret' = ret
    BY <1>1, <1>2, Refreshed
  <1>4. UNCHANGED <<spare, target>>
    BY <1>1 DEF AbortPending
  <1>5. DriverTypes' /\ GoodQueue(work.q)'
    BY Types, <1>1, <1>3, <1>4, Erased DEF IInv, DriverTypes, Labels, Ops, GoodQueue, Queue,
       Size
  <1>6. ReclaimInv' /\ ReturnInv' /\ WorkInv'
    BY Types, <1>1, <1>3, <1>4 DEF IInv, ReclaimInv, ReclaimPC, CopyPC, FlushPC, IsCopy,
       ValidCopy, ReturnInv, BootPC, WorkInv, RoomInv, Full
  <1>7. CallInv' /\ RecordInv' /\ TargetInv'
    BY Types, <1>1, <1>3, <1>4 DEF IInv, CallInv, RecordPC, TargetPC, RecordInv,
       TargetInv, Open, SpareComplete
  <1>8. OpenInv' /\ TornInv' /\ DirtyInv' /\ RoomInv'
    BY Types, <1>1, <1>3, <1>4 DEF IInv, OpenInv, Open, SpareComplete, TargetPC, BootPC,
       TornInv, DirtyInv, CopyPC, RoomInv, Full, Size
  <1> QED
    BY <1>5, <1>6, <1>7, <1>8 DEF IInv

\* The queue that came from the spare block is erased.
LEMMA AdoptSpareStep ==
    ASSUME IInv, AdoptSpare
    PROVE  IInv'
  <1>1. /\ pc = "b_adopt" /\ op = "init" /\ UNCHANGED <<op, call, status>> /\ work.ok
        /\ work.q = EmptyQueue /\ Refresh(EmptyQueue, "b_tidy")
    BY Erased DEF AdoptSpare, IInv, ReturnInv, BootPC, WorkInv, CopyPC, FlushPC,
       ReclaimInv, Aborted
  <1>2. GoodQueue(EmptyQueue) /\ EmptyQueue \in Queue
    BY Types, <1>1, Erased DEF IInv
  <1>3. /\ work' \in [ok : BOOLEAN, q : Queue] /\ work'.ok = work.ok
        /\ work'.q = Advance(EmptyQueue) /\ work'.q \in Queue /\ GoodQueue(work'.q)
        /\ ~work'.q.complete
        /\ ~EmptyQueue.complete => work'.q = EmptyQueue
        /\ EmptyQueue.complete => work'.q.n = 0 /\ ~work'.q.sp /\ ~work'.q.dirty
        /\ kept' = EmptyQueue /\ UNCHANGED <<saved, offset>>
        /\ \/ Full(work'.q) /\ work'.q.n = 0 /\ pc' = "c_save" /\ ret' = "b_tidy"
           \/ ~Full(work'.q) /\ pc' = "b_tidy" /\ ret' = ret
    BY <1>1, <1>2, Refreshed
  <1>4. UNCHANGED <<spare, target>>
    BY <1>1 DEF AdoptSpare
  <1>5. DriverTypes' /\ GoodQueue(work.q)'
    BY Types, <1>1, <1>3, <1>4, Erased DEF IInv, DriverTypes, Labels, Ops, GoodQueue, Queue,
       Size
  <1>6. ReclaimInv' /\ ReturnInv' /\ WorkInv'
    BY Types, <1>1, <1>3, <1>4 DEF IInv, ReclaimInv, ReclaimPC, CopyPC, FlushPC, IsCopy,
       ValidCopy, ReturnInv, BootPC, WorkInv, RoomInv, Full
  <1>7. CallInv' /\ RecordInv' /\ TargetInv'
    BY Types, <1>1, <1>3, <1>4 DEF IInv, CallInv, RecordPC, TargetPC, RecordInv,
       TargetInv, Open, SpareComplete
  <1>8. OpenInv' /\ TornInv' /\ DirtyInv' /\ RoomInv'
    BY Types, <1>1, <1>3, <1>4 DEF IInv, OpenInv, Open, SpareComplete, TargetPC, BootPC,
       TornInv, DirtyInv, CopyPC, RoomInv, Full, Size
  <1> QED
    BY <1>5, <1>6, <1>7, <1>8 DEF IInv

(***************************************************************************)
(* FtwAllocate, FtwRestart, FtwAbort, FtwGetLastWrite.                     *)
(***************************************************************************)

\* An allocation that is accepted fits where its Offset points.
LEMMA AllocateChecksStep ==
    ASSUME IInv, AllocateChecks
    PROVE  IInv'
  <1>1. /\ pc = "a_check" /\ op = "allocate" /\ work.ok /\ call \in [n : Nat \ {0}]
        /\ \/ pc' = "idle" /\ op' = "none" /\ call' = None /\ UNCHANGED <<status, offset>>
           \/ /\ pc' = "a_header" /\ offset' = work.q.used /\ UNCHANGED <<op, call, status>>
              /\ work.q.n = 0 /\ offset' + Size(call.n) <= QueueSize
        /\ UNCHANGED <<ret, kept, saved>>
    BY Types DEF IInv, AllocateChecks, Return, WorkInv, CallInv, CopyPC, FlushPC, RoomInv,
       locals, Size
  <1>2. work' = work
    BY Types, <1>1 DEF AllocateChecks, flash
  <1>3. UNCHANGED <<spare, target>>
    BY DEF AllocateChecks, Return, locals, flash
  <1>4. DriverTypes' /\ GoodQueue(work.q)'
    BY Types, <1>1, <1>2, <1>3 DEF IInv, DriverTypes, Queue, Labels, Ops, GoodQueue, Size
  <1>5. ReclaimInv' /\ ReturnInv' /\ WorkInv'
    BY Types, <1>1, <1>2, <1>3 DEF IInv, ReclaimInv, ReclaimPC, CopyPC, FlushPC, IsCopy,
       ValidCopy, ReturnInv, BootPC, WorkInv, RoomInv, Full
  <1>6. CallInv' /\ RecordInv' /\ TargetInv'
    BY Types, <1>1, <1>2, <1>3 DEF IInv, CallInv, RecordPC, TargetPC, RecordInv,
       TargetInv, Open, SpareComplete
  <1>7. OpenInv' /\ TornInv' /\ DirtyInv' /\ RoomInv'
    BY Types, <1>1, <1>2, <1>3 DEF IInv, OpenInv, Open, SpareComplete, TargetPC, BootPC,
       TornInv, DirtyInv, CopyPC, RoomInv, Full, Size
  <1> QED
    BY <1>4, <1>5, <1>6, <1>7 DEF IInv

\* The header becomes the last one of the queue.
LEMMA WriteHeaderStep ==
    ASSUME IInv, WriteHeader
    PROVE  IInv'
  <1>1. /\ pc = "a_header" /\ op = "allocate" /\ work.ok /\ call \in [n : Nat \ {0}]
        /\ pc' = "idle" /\ op' = "none" /\ call' = None /\ UNCHANGED status
        /\ work.q.n = 0 /\ offset = work.q.used /\ work.q.used + Size(call.n) <= QueueSize
    BY DEF IInv, WriteHeader, Return, WorkInv, CallInv, CopyPC, FlushPC, RoomInv
  <1>2. /\ work'.ok = work.ok
        /\ work'.q = [work.q EXCEPT !.n = call.n]
    BY Types, <1>1 DEF WriteHeader
  <1>3. /\ work'.q.n = call.n
        /\ UNCHANGED <<work.q.used, work.q.complete, work.q.done,
                       work.q.blk, work.q.sp, work.q.dirty>>
    BY Types, <1>2 DEF Queue
  <1>4. work'.q \in Queue
    BY Types, <1>1, <1>2 DEF Queue
  <1>5. work' \in [ok : BOOLEAN, q : Queue]
    BY Types, <1>4 DEF WriteHeader
  <1>6. UNCHANGED <<spare, target, saved, offset, ret, kept>>
    BY DEF WriteHeader, Return, locals
  <1>7. call.n \in Nat /\ call.n > 0 /\ work.q.done = 0 /\ ~work.q.sp
    BY Types, <1>1 DEF IInv, GoodQueue
  <1>8. ~work.q.dirty /\ ~work.q.complete
    BY <1>1 DEF IInv, DirtyInv, CopyPC, GoodQueue
  <1>9. DriverTypes' /\ GoodQueue(work.q)'
    BY Types, <1>1, <1>2, <1>3, <1>5, <1>6, <1>7, <1>8 DEF IInv, DriverTypes, Queue, Labels,
       Ops, GoodQueue, Size
  <1>10. ReclaimInv' /\ ReturnInv' /\ WorkInv'
    BY Types, <1>1, <1>2, <1>3, <1>5, <1>6, <1>7, <1>8 DEF IInv, ReclaimInv, ReclaimPC,
       CopyPC, FlushPC, IsCopy, ValidCopy, ReturnInv, BootPC, WorkInv, RoomInv, Full
  <1>11. CallInv' /\ RecordInv' /\ TargetInv'
    BY Types, <1>1, <1>2, <1>3, <1>5, <1>6, <1>7, <1>8 DEF IInv, CallInv, RecordPC,
       TargetPC, RecordInv, TargetInv, Open, SpareComplete
  <1>12. OpenInv' /\ TornInv' /\ DirtyInv' /\ RoomInv'
    BY Types, <1>1, <1>2, <1>3, <1>5, <1>6, <1>7, <1>8 DEF IInv, OpenInv, Open,
       SpareComplete, TargetPC, BootPC, TornInv, DirtyInv, CopyPC, RoomInv, Full, Size
  <1> QED
    BY <1>9, <1>10, <1>11, <1>12 DEF IInv

\* A restart is of the pending write.
LEMMA RestartChecksStep ==
    ASSUME IInv, RestartChecks
    PROVE  IInv'
  <1>1. /\ pc = "s_check" /\ op = "restart" /\ work.ok /\ ~work.q.complete
        /\ UNCHANGED status
        /\ \/ pc' = "idle" /\ op' = "none" /\ call' = None
           \/ /\ pc' = "r_erase" /\ op' = op /\ SpareComplete(work.q)
              /\ call' = [blk |-> work.q.blk] /\ work.q.blk \in Block
    BY DEF IInv, RestartChecks, Return, WorkInv, CallInv, CopyPC, FlushPC, RoomInv,
       SpareComplete, GoodQueue
  <1>2. work' = work
    BY Types, <1>1 DEF RestartChecks, flash
  <1>3. UNCHANGED <<spare, target, saved, offset, ret, kept>>
    BY DEF RestartChecks, Return, locals, flash
  <1>4. DriverTypes' /\ GoodQueue(work.q)'
    BY Types, <1>1, <1>2, <1>3 DEF IInv, DriverTypes, Queue, Labels, Ops, GoodQueue, Size
  <1>5. ReclaimInv' /\ ReturnInv' /\ WorkInv'
    BY Types, <1>1, <1>2, <1>3 DEF IInv, ReclaimInv, ReclaimPC, CopyPC, FlushPC, IsCopy,
       ValidCopy, ReturnInv, BootPC, WorkInv, RoomInv, Full
  <1>6. CallInv' /\ RecordInv' /\ TargetInv'
    BY Types, <1>1, <1>2, <1>3 DEF IInv, CallInv, RecordPC, TargetPC, RecordInv,
       TargetInv, Open, SpareComplete
  <1>7. OpenInv' /\ TornInv' /\ DirtyInv' /\ RoomInv'
    BY Types, <1>1, <1>2, <1>3 DEF IInv, OpenInv, Open, SpareComplete, TargetPC, BootPC,
       TornInv, DirtyInv, CopyPC, RoomInv, Full, Size
  <1> QED
    BY <1>4, <1>5, <1>6, <1>7 DEF IInv

\* An aborted header is complete.
LEMMA AbortWritesStep ==
    ASSUME IInv, AbortWrites
    PROVE  IInv'
  <1>1. /\ pc = "x_check" /\ op # "none" /\ work.ok
        /\ pc' = "idle" /\ op' = "none" /\ call' = None
        /\ status' \in {"none", "written", "failed"}
    BY DEF IInv, AbortWrites, Return, WorkInv, CallInv, CopyPC, FlushPC, DriverTypes
  <1>2. work' = [work EXCEPT !.q = Aborted(work.q)]
    BY Types, <1>1 DEF AbortWrites
  <1>3. UNCHANGED <<spare, target, saved, offset, ret, kept>>
    BY DEF AbortWrites, Return, locals
  <1>4. /\ work' \in [ok : BOOLEAN, q : Queue] /\ work'.ok = work.ok
        /\ GoodQueue(work'.q) /\ work'.q.dirty = work.q.dirty
        /\ Open(work'.q) => work'.q = work.q
        /\ work'.q = work.q \/ (work.q.n > 0 /\ work'.q.n = work.q.n)
    BY Types, <1>2, AbortedQueue DEF IInv
  <1>5. DriverTypes' /\ GoodQueue(work.q)'
    BY Types, <1>1, <1>2, <1>3, <1>4 DEF IInv, DriverTypes, Queue, Labels, Ops, GoodQueue, Size
  <1>6. ReclaimInv' /\ ReturnInv' /\ WorkInv'
    BY Types, <1>1, <1>2, <1>3, <1>4 DEF IInv, ReclaimInv, ReclaimPC, CopyPC, FlushPC,
       IsCopy, ValidCopy, ReturnInv, BootPC, WorkInv, RoomInv, Full
  <1>7. CallInv' /\ RecordInv' /\ TargetInv'
    BY Types, <1>1, <1>2, <1>3, <1>4 DEF IInv, CallInv, RecordPC, TargetPC, RecordInv,
       TargetInv, Open, SpareComplete
  <1>8. OpenInv' /\ TornInv' /\ DirtyInv' /\ RoomInv'
    BY Types, <1>1, <1>2, <1>3, <1>4 DEF IInv, OpenInv, Open, SpareComplete, TargetPC,
       BootPC, TornInv, DirtyInv, CopyPC, RoomInv, Full, Size
  <1> QED
    BY <1>5, <1>6, <1>7, <1>8 DEF IInv

\* Only what cannot be restarted is aborted.
LEMMA GetLastWriteStep ==
    ASSUME IInv, GetLastWrite
    PROVE  IInv'
  <1>1. /\ pc = "g_check" /\ op # "none" /\ work.ok
        /\ pc' = "idle" /\ op' = "none" /\ call' = None
        /\ status' \in {"none", "written", "failed"}
    BY DEF IInv, GetLastWrite, Return, WorkInv, CallInv, CopyPC, FlushPC, DriverTypes
  <1>2. work' = [work EXCEPT !.q = Aborted(work.q)] \/ work' = work
    BY Types, <1>1 DEF GetLastWrite
  <1>3. UNCHANGED <<spare, target, saved, offset, ret, kept>>
    BY DEF GetLastWrite, Return, locals
  <1>4. /\ work' \in [ok : BOOLEAN, q : Queue] /\ work'.ok = work.ok
        /\ GoodQueue(work'.q) /\ work'.q.dirty = work.q.dirty
        /\ Open(work'.q) => work'.q = work.q
        /\ work'.q = work.q \/ (work.q.n > 0 /\ work'.q.n = work.q.n)
    BY Types, <1>2, AbortedQueue DEF IInv
  <1>5. DriverTypes' /\ GoodQueue(work.q)'
    BY Types, <1>1, <1>2, <1>3, <1>4 DEF IInv, DriverTypes, Queue, Labels, Ops, GoodQueue, Size
  <1>6. ReclaimInv' /\ ReturnInv' /\ WorkInv'
    BY Types, <1>1, <1>2, <1>3, <1>4 DEF IInv, ReclaimInv, ReclaimPC, CopyPC, FlushPC,
       IsCopy, ValidCopy, ReturnInv, BootPC, WorkInv, RoomInv, Full
  <1>7. CallInv' /\ RecordInv' /\ TargetInv'
    BY Types, <1>1, <1>2, <1>3, <1>4 DEF IInv, CallInv, RecordPC, TargetPC, RecordInv,
       TargetInv, Open, SpareComplete
  <1>8. OpenInv' /\ TornInv' /\ DirtyInv' /\ RoomInv'
    BY Types, <1>1, <1>2, <1>3, <1>4 DEF IInv, OpenInv, Open, SpareComplete, TargetPC,
       BootPC, TornInv, DirtyInv, CopyPC, RoomInv, Full, Size
  <1> QED
    BY <1>5, <1>6, <1>7, <1>8 DEF IInv

(***************************************************************************)
(* FtwReclaimWorkSpace.                                                    *)
(***************************************************************************)

\* The spare block is borrowed only when nothing is pending.
LEMMA BorrowSpareStep ==
    ASSUME IInv, SaveSpare("c_save", "c_fill")
    PROVE  IInv'
  <1>1. pc = "c_save" /\ pc' = "c_fill" /\ work.q.n = 0
    BY DEF IInv, SaveSpare, Goto, WorkInv, CallInv, ReturnInv, ReclaimInv, ReclaimPC,
       CopyPC, FlushPC
  <1>2. work' = work /\ saved' = spare /\ spare' = Torn
    BY Types, <1>1 DEF SaveSpare
  <1>3. UNCHANGED <<target, ret, kept, offset, op, call, status>>
    BY DEF SaveSpare, Goto
  <1>4. DriverTypes' /\ GoodQueue(work.q)'
    BY Types, <1>1, <1>2, <1>3 DEF IInv, DriverTypes, Queue, Labels, Ops, SpareContents,
       GoodQueue, Size
  <1>5. ReclaimInv' /\ ReturnInv' /\ WorkInv'
    BY Types, <1>1, <1>2, <1>3 DEF IInv, ReclaimInv, ReclaimPC, CopyPC, FlushPC, IsCopy,
       ValidCopy, ReturnInv, BootPC, WorkInv, RoomInv, Full
  <1>6. CallInv' /\ RecordInv' /\ TargetInv'
    BY Types, <1>1, <1>2, <1>3 DEF IInv, CallInv, RecordPC, TargetPC, RecordInv,
       TargetInv, Open, SpareComplete
  <1>7. OpenInv' /\ TornInv' /\ DirtyInv' /\ RoomInv'
    BY Types, <1>1, <1>2, <1>3 DEF IInv, OpenInv, Open, SpareComplete, TargetPC, BootPC,
       TornInv, DirtyInv, CopyPC, RoomInv, Full, Size
  <1> QED
    BY <1>4, <1>5, <1>6, <1>7 DEF IInv

\* The copy in the spare block is not valid yet.
LEMMA CopyToSpareStep ==
    ASSUME IInv, CopyToSpare
    PROVE  IInv'
  <1>1. pc = "c_fill" /\ pc' = "c_valid" /\ work.q.n = 0
    BY DEF IInv, CopyToSpare, Goto, WorkInv, CallInv, ReturnInv, ReclaimInv, ReclaimPC,
       CopyPC, FlushPC
  <1>2. work' = work /\ spare' = [q |-> EmptyQueue, ok |-> FALSE]
    BY Types, <1>1 DEF CopyToSpare, IInv, ReclaimInv
  <1>3. UNCHANGED <<target, saved, offset, ret, kept, op, call, status>>
    BY DEF CopyToSpare, Goto, locals
  <1>4. spare' \in Copy /\ IsCopy(spare') /\ spare'.q = EmptyQueue
    BY <1>2, Erased, FtwAssumption DEF Copy, IsCopy
  <1>5. DriverTypes' /\ GoodQueue(work.q)'
    BY Types, <1>1, <1>2, <1>3, <1>4 DEF IInv, DriverTypes, Queue, Labels, Ops, SpareContents,
       GoodQueue, Size
  <1>6. ReclaimInv' /\ ReturnInv' /\ WorkInv'
    BY Types, <1>1, <1>2, <1>3, <1>4 DEF IInv, ReclaimInv, ReclaimPC, CopyPC, FlushPC,
       IsCopy, ValidCopy, ReturnInv, BootPC, WorkInv, RoomInv, Full
  <1>7. CallInv' /\ RecordInv' /\ TargetInv'
    BY Types, <1>1, <1>2, <1>3, <1>4 DEF IInv, CallInv, RecordPC, TargetPC, RecordInv,
       TargetInv, Open, SpareComplete
  <1>8. OpenInv' /\ TornInv' /\ DirtyInv' /\ RoomInv'
    BY Types, <1>1, <1>2, <1>3, <1>4 DEF IInv, OpenInv, Open, SpareComplete, TargetPC,
       BootPC, TornInv, DirtyInv, CopyPC, RoomInv, Full, Size
  <1> QED
    BY <1>5, <1>6, <1>7, <1>8 DEF IInv

\* The copy in the spare block becomes valid.
LEMMA ValidateSpareStep ==
    ASSUME IInv, ValidateSpare
    PROVE  IInv'
  <1>1. /\ pc = "c_valid" /\ pc' = "c_invalid" /\ work.q.n = 0 /\ spare \in Copy
        /\ spare.q = EmptyQueue
    BY DEF IInv, ValidateSpare, Goto, DriverTypes, SpareContents, IsCopy, WorkInv, CallInv,
       ReturnInv, ReclaimInv, ReclaimPC, CopyPC, FlushPC
  <1>2. work' = work /\ spare' = [spare EXCEPT !.ok = TRUE]
    BY Types, <1>1 DEF ValidateSpare
  <1>3. UNCHANGED <<target, saved, offset, ret, kept, op, call, status>>
    BY DEF ValidateSpare, Goto, locals
  <1>4. spare' \in Copy /\ IsCopy(spare') /\ spare'.q = EmptyQueue /\ spare'.ok
    BY <1>1, <1>2, Erased, FtwAssumption DEF Copy, IsCopy
  <1>5. DriverTypes' /\ GoodQueue(work.q)'
    BY Types, <1>1, <1>2, <1>3, <1>4 DEF IInv, DriverTypes, Queue, Labels, Ops, SpareContents,
       GoodQueue, Size
  <1>6. ReclaimInv' /\ ReturnInv' /\ WorkInv'
    BY Types, <1>1, <1>2, <1>3, <1>4 DEF IInv, ReclaimInv, ReclaimPC, CopyPC, FlushPC,
       IsCopy, ValidCopy, ReturnInv, BootPC, WorkInv, RoomInv, Full
  <1>7. CallInv' /\ RecordInv' /\ TargetInv'
    BY Types, <1>1, <1>2, <1>3, <1>4 DEF IInv, CallInv, RecordPC, TargetPC, RecordInv,
       TargetInv, Open, SpareComplete
  <1>8. OpenInv' /\ TornInv' /\ DirtyInv' /\ RoomInv'
    BY Types, <1>1, <1>2, <1>3, <1>4 DEF IInv, OpenInv, Open, SpareComplete, TargetPC,
       BootPC, TornInv, DirtyInv, CopyPC, RoomInv, Full, Size
  <1> QED
    BY <1>5, <1>6, <1>7, <1>8 DEF IInv

\* The working block is given up once its copy is valid.
LEMMA InvalidateWorkStep ==
    ASSUME IInv, InvalidateWork
    PROVE  IInv'
  <1>1. pc = "c_invalid" /\ pc' = "f_erase" /\ work.q.n = 0
    BY DEF IInv, InvalidateWork, Goto, WorkInv, CallInv, ReturnInv, ReclaimInv, ReclaimPC,
       CopyPC, FlushPC
  <1>2. work'.ok = FALSE /\ work'.q = work.q /\ work' \in [ok : BOOLEAN, q : Queue]
    BY Types, <1>1 DEF InvalidateWork
  <1>3. UNCHANGED <<spare, target, saved, offset, ret, kept, op, call, status>>
    BY DEF InvalidateWork, Goto, locals
  <1>4. DriverTypes' /\ GoodQueue(work.q)'
    BY Types, <1>1, <1>2, <1>3 DEF IInv, DriverTypes, Queue, Labels, Ops, GoodQueue, Size
  <1>5. ReclaimInv' /\ ReturnInv' /\ WorkInv'
    BY Types, <1>1, <1>2, <1>3 DEF IInv, ReclaimInv, ReclaimPC, CopyPC, FlushPC, IsCopy,
       ValidCopy, ReturnInv, BootPC, WorkInv, RoomInv, Full
  <1>6. CallInv' /\ RecordInv' /\ TargetInv'
    BY Types, <1>1, <1>2, <1>3 DEF IInv, CallInv, RecordPC, TargetPC, RecordInv,
       TargetInv, Open, SpareComplete
  <1>7. OpenInv' /\ TornInv' /\ DirtyInv' /\ RoomInv'
    BY Types, <1>1, <1>2, <1>3 DEF IInv, OpenInv, Open, SpareComplete, TargetPC, BootPC,
       TornInv, DirtyInv, CopyPC, RoomInv, Full, Size
  <1> QED
    BY <1>4, <1>5, <1>6, <1>7 DEF IInv

\* The working block is erased.
LEMMA EraseWorkStep ==
    ASSUME IInv, EraseWork
    PROVE  IInv'
  <1>1. pc = "f_erase" /\ pc' = "f_fill" /\ work.q.n = 0
    BY DEF IInv, EraseWork, Goto, WorkInv, CallInv, ReturnInv, ReclaimInv, ReclaimPC,
       CopyPC, FlushPC
  <1>2. work'.ok = FALSE /\ work'.q = EmptyQueue /\ work' \in [ok : BOOLEAN, q : Queue]
    BY Types, <1>1, Erased DEF EraseWork
  <1>3. UNCHANGED <<spare, target, saved, offset, ret, kept, op, call, status>>
    BY DEF EraseWork, Goto, locals
  <1>4. DriverTypes' /\ GoodQueue(work.q)'
    BY Types, <1>1, <1>2, <1>3, Erased DEF IInv, DriverTypes, Queue, Labels, Ops, GoodQueue,
       Size
  <1>5. ReclaimInv' /\ ReturnInv' /\ WorkInv'
    BY Types, <1>1, <1>2, <1>3, Erased DEF IInv, ReclaimInv, ReclaimPC, CopyPC, FlushPC,
       IsCopy, ValidCopy, ReturnInv, BootPC, WorkInv, RoomInv, Full
  <1>6. CallInv' /\ RecordInv' /\ TargetInv'
    BY Types, <1>1, <1>2, <1>3, Erased DEF IInv, CallInv, RecordPC, TargetPC, RecordInv,
       TargetInv, Open, SpareComplete
  <1>7. OpenInv' /\ TornInv' /\ DirtyInv' /\ RoomInv'
    BY Types, <1>1, <1>2, <1>3, Erased DEF IInv, OpenInv, Open, SpareComplete, TargetPC,
       BootPC, TornInv, DirtyInv, CopyPC, RoomInv, Full, Size
  <1> QED
    BY <1>4, <1>5, <1>6, <1>7 DEF IInv

\* The working block gets the copy.
LEMMA FillWorkStep ==
    ASSUME IInv, FillWork
    PROVE  IInv'
  <1>1. /\ pc = "f_fill" /\ pc' = "f_valid" /\ work.q.n = 0 /\ ~work.ok
        /\ spare.q = EmptyQueue
    BY DEF IInv, FillWork, Goto, ValidCopy, WorkInv, CallInv, ReturnInv, ReclaimInv,
       ReclaimPC, CopyPC, FlushPC
  <1>2. work'.ok = work.ok /\ work'.q = EmptyQueue /\ work' \in [ok : BOOLEAN, q : Queue]
    BY Types, <1>1, Erased DEF FillWork
  <1>3. UNCHANGED <<spare, target, saved, offset, ret, kept, op, call, status>>
    BY DEF FillWork, Goto, locals
  <1>4. DriverTypes' /\ GoodQueue(work.q)'
    BY Types, <1>1, <1>2, <1>3, Erased DEF IInv, DriverTypes, Queue, Labels, Ops, GoodQueue,
       Size
  <1>5. ReclaimInv' /\ ReturnInv' /\ WorkInv'
    BY Types, <1>1, <1>2, <1>3, Erased DEF IInv, ReclaimInv, ReclaimPC, CopyPC, FlushPC,
       IsCopy, ValidCopy, ReturnInv, BootPC, WorkInv, RoomInv, Full
  <1>6. CallInv' /\ RecordInv' /\ TargetInv'
    BY Types, <1>1, <1>2, <1>3, Erased DEF IInv, CallInv, RecordPC, TargetPC, RecordInv,
       TargetInv, Open, SpareComplete
  <1>7. OpenInv' /\ TornInv' /\ DirtyInv' /\ RoomInv'
    BY Types, <1>1, <1>2, <1>3, Erased DEF IInv, OpenInv, Open, SpareComplete, TargetPC,
       BootPC, TornInv, DirtyInv, CopyPC, RoomInv, Full, Size
  <1> QED
    BY <1>4, <1>5, <1>6, <1>7 DEF IInv

\* The working block is valid again.
LEMMA ValidateWorkStep ==
    ASSUME IInv, ValidateWork
    PROVE  IInv'
  <1>1. /\ pc = "f_valid" /\ pc' = (IF ret = "b_adopt" THEN "b_adopt" ELSE "c_unspare")
        /\ work.q = EmptyQueue /\ (ret = "b_adopt" => op = "init")
    BY DEF IInv, ValidateWork, Goto, WorkInv, CallInv, ReturnInv, ReclaimInv, ReclaimPC,
       CopyPC, FlushPC
  <1>2. work'.ok = TRUE /\ work'.q = EmptyQueue /\ work' \in [ok : BOOLEAN, q : Queue]
    BY Types, <1>1, Erased DEF ValidateWork
  <1>3. UNCHANGED <<spare, target, saved, offset, ret, kept, op, call, status>>
    BY DEF ValidateWork, Goto, locals
  <1>4. DriverTypes' /\ GoodQueue(work.q)'
    BY Types, <1>1, <1>2, <1>3, Erased DEF IInv, DriverTypes, Queue, Labels, Ops, GoodQueue,
       Size
  <1>5. ReclaimInv' /\ ReturnInv' /\ WorkInv'
    BY Types, <1>1, <1>2, <1>3, Erased DEF IInv, ReclaimInv, ReclaimPC, CopyPC, FlushPC,
       IsCopy, ValidCopy, ReturnInv, BootPC, WorkInv, RoomInv, Full
  <1>6. CallInv' /\ RecordInv' /\ TargetInv'
    BY Types, <1>1, <1>2, <1>3, Erased DEF IInv, CallInv, RecordPC, TargetPC, RecordInv,
       TargetInv, Open, SpareComplete
  <1>7. OpenInv' /\ TornInv' /\ DirtyInv' /\ RoomInv'
    BY Types, <1>1, <1>2, <1>3, Erased DEF IInv, OpenInv, Open, SpareComplete, TargetPC,
       BootPC, TornInv, DirtyInv, CopyPC, RoomInv, Full, Size
  <1> QED
    BY <1>4, <1>5, <1>6, <1>7 DEF IInv

\* The copy in the spare block is erased.
LEMMA ReleaseSpareStep ==
    ASSUME IInv, ReleaseSpare
    PROVE  IInv'
  <1>1. pc = "c_unspare" /\ pc' = "c_restore" /\ work.q = EmptyQueue /\ work.ok
    BY DEF IInv, ReleaseSpare, Goto, WorkInv, CallInv, ReturnInv, ReclaimInv, ReclaimPC,
       CopyPC, FlushPC
  <1>2. work' = work /\ spare' = Torn
    BY Types, <1>1 DEF ReleaseSpare
  <1>3. UNCHANGED <<target, saved, offset, ret, kept, op, call, status>>
    BY DEF ReleaseSpare, Goto, locals
  <1>4. DriverTypes' /\ GoodQueue(work.q)'
    BY Types, <1>1, <1>2, <1>3, Erased DEF IInv, DriverTypes, Queue, Labels, Ops,
       SpareContents, GoodQueue, Size
  <1>5. ReclaimInv' /\ ReturnInv' /\ WorkInv'
    BY Types, <1>1, <1>2, <1>3, Erased DEF IInv, ReclaimInv, ReclaimPC, CopyPC, FlushPC,
       IsCopy, ValidCopy, ReturnInv, BootPC, WorkInv, RoomInv, Full
  <1>6. CallInv' /\ RecordInv' /\ TargetInv'
    BY Types, <1>1, <1>2, <1>3, Erased DEF IInv, CallInv, RecordPC, TargetPC, RecordInv,
       TargetInv, Open, SpareComplete
  <1>7. OpenInv' /\ TornInv' /\ DirtyInv' /\ RoomInv'
    BY Types, <1>1, <1>2, <1>3, Erased DEF IInv, OpenInv, Open, SpareComplete, TargetPC,
       BootPC, TornInv, DirtyInv, CopyPC, RoomInv, Full, Size
  <1> QED
    BY <1>4, <1>5, <1>6, <1>7 DEF IInv

\* The interrupted function goes on with an erased queue.
LEMMA ReclaimReturnsStep ==
    ASSUME IInv, RestoreSpare("c_restore", ret)
    PROVE  IInv'
  <1>1. /\ pc = "c_restore" /\ pc' = ret /\ work.q = EmptyQueue /\ work.ok
        /\ UNCHANGED <<op, call, status>>
        /\ \/ op = "init" /\ ret \in {"b_check", "b_tidy", "b_restart", "x_check"}
           \/ op = "write" /\ ret = "w_check"
           \/ op = "allocate" /\ ret = "a_check"
           \/ op = "restart" /\ ret = "s_check"
           \/ op = "abort" /\ ret = "x_check"
           \/ op = "query" /\ ret = "g_check"
    BY DEF IInv, RestoreSpare, Goto, WorkInv, CallInv, ReturnInv, ReclaimInv, ReclaimPC,
       CopyPC, FlushPC
  <1>2. work' = work /\ spare' = saved
    BY Types, <1>1 DEF RestoreSpare
  <1>3. UNCHANGED <<target, saved, offset, ret, kept>>
    BY DEF RestoreSpare, Goto, Return, locals
  <1>4. op = "allocate" => call.n \in Nat
    BY DEF IInv, CallInv
  <1>5. DriverTypes' /\ GoodQueue(work.q)'
    BY Types, <1>1, <1>2, <1>3, <1>4, Erased DEF IInv, DriverTypes, Queue, Labels, Ops,
       GoodQueue, Size
  <1>6. ReclaimInv' /\ ReturnInv' /\ WorkInv'
    BY Types, <1>1, <1>2, <1>3, <1>4, Erased DEF IInv, ReclaimInv, ReclaimPC, CopyPC,
       FlushPC, IsCopy, ValidCopy, ReturnInv, BootPC, WorkInv, RoomInv, Full
  <1>7. CallInv' /\ RecordInv' /\ TargetInv'
    BY Types, <1>1, <1>2, <1>3, <1>4, Erased DEF IInv, CallInv, RecordPC, TargetPC,
       RecordInv, TargetInv, Open, SpareComplete
  <1>8. OpenInv' /\ TornInv' /\ DirtyInv' /\ RoomInv'
    BY Types, <1>1, <1>2, <1>3, <1>4, Erased DEF IInv, OpenInv, Open, SpareComplete,
       TargetPC, BootPC, TornInv, DirtyInv, CopyPC, RoomInv, Full, Size
  <1> QED
    BY <1>5, <1>6, <1>7, <1>8 DEF IInv

(***************************************************************************)
(* InitFtwProtocol.                                                        *)
(***************************************************************************)

\* A valid block is kept, adopted or, when there is none, made.
LEMMA CheckWorkSpaceStep ==
    ASSUME IInv, CheckWorkSpace
    PROVE  IInv'
  <1>1. /\ pc = "b_check" /\ op = "init" /\ UNCHANGED <<op, call, status>>
        /\ \/ work.ok /\ pc' = "b_tidy" /\ UNCHANGED <<ret, kept>>
           \/ /\ ~work.ok /\ work.q.n = 0 /\ ValidCopy(spare)
              /\ pc' = "f_erase" /\ ret' = "b_adopt" /\ UNCHANGED kept
           \/ /\ ~work.ok /\ work.q.n = 0 /\ ~ValidCopy(spare)
              /\ pc' = "c_save" /\ ret' = "b_tidy" /\ kept' = EmptyQueue
    BY DEF IInv, CheckWorkSpace, Goto, WorkInv, ReturnInv, BootPC, StartReclaim, locals
  <1>2. work' = work
    BY Types, <1>1 DEF CheckWorkSpace, flash
  <1>3. UNCHANGED <<spare, target, saved, offset>>
    BY DEF CheckWorkSpace, Goto, StartReclaim, locals, flash
  <1>4. DriverTypes' /\ GoodQueue(work.q)'
    BY Types, <1>1, <1>2, <1>3, Erased DEF IInv, DriverTypes, Queue, Labels, Ops, GoodQueue,
       Size
  <1>5. ReclaimInv' /\ ReturnInv' /\ WorkInv'
    BY Types, <1>1, <1>2, <1>3, Erased DEF IInv, ReclaimInv, ReclaimPC, CopyPC, FlushPC,
       IsCopy, ValidCopy, ReturnInv, BootPC, WorkInv, RoomInv, Full
  <1>6. CallInv' /\ RecordInv' /\ TargetInv'
    BY Types, <1>1, <1>2, <1>3, Erased DEF IInv, CallInv, RecordPC, TargetPC, RecordInv,
       TargetInv, Open, SpareComplete
  <1>7. OpenInv' /\ TornInv' /\ DirtyInv' /\ RoomInv'
    BY Types, <1>1, <1>2, <1>3, Erased DEF IInv, OpenInv, Open, SpareComplete, TargetPC,
       BootPC, TornInv, DirtyInv, CopyPC, RoomInv, Full, Size
  <1> QED
    BY <1>4, <1>5, <1>6, <1>7 DEF IInv

\* Only a header that cannot be restarted is aborted.
LEMMA TidyHeaderStep ==
    ASSUME IInv, TidyHeader
    PROVE  IInv'
  <1>1. pc = "b_tidy" /\ pc' = "b_clean" /\ op = "init" /\ work.ok
    BY DEF IInv, TidyHeader, Goto, WorkInv, ReturnInv, BootPC, CopyPC, FlushPC
  <1>2. /\ work' = [work EXCEPT !.q = Aborted(work.q)] \/ work' = work
        /\ Open(work.q) => work' = work
    BY Types, <1>1 DEF TidyHeader, AllDone, Open, SpareComplete
  <1>3. UNCHANGED <<spare, target, op, call, status, saved, offset, ret, kept>>
    BY DEF TidyHeader, Goto, locals
  <1>4. /\ work' \in [ok : BOOLEAN, q : Queue] /\ work'.ok = work.ok
        /\ GoodQueue(work'.q) /\ work'.q.dirty = work.q.dirty
        /\ Open(work'.q) => work'.q = work.q
        /\ work'.q = work.q \/ (work.q.n > 0 /\ work'.q.n = work.q.n)
    BY Types, <1>2, AbortedQueue DEF IInv
  <1>5. DriverTypes' /\ GoodQueue(work.q)'
    BY Types, <1>1, <1>2, <1>3, <1>4 DEF IInv, DriverTypes, Queue, Labels, Ops, GoodQueue, Size
  <1>6. ReclaimInv' /\ ReturnInv' /\ WorkInv'
    BY Types, <1>1, <1>2, <1>3, <1>4 DEF IInv, ReclaimInv, ReclaimPC, CopyPC, FlushPC,
       IsCopy, ValidCopy, ReturnInv, BootPC, WorkInv, RoomInv, Full
  <1>7. CallInv' /\ RecordInv' /\ TargetInv'
    BY Types, <1>1, <1>2, <1>3, <1>4 DEF IInv, CallInv, RecordPC, TargetPC, RecordInv,
       TargetInv, Open, SpareComplete
  <1>8. OpenInv' /\ TornInv' /\ DirtyInv' /\ RoomInv'
    BY Types, <1>1, <1>2, <1>3, <1>4 DEF IInv, OpenInv, Open, SpareComplete, TargetPC,
       BootPC, TornInv, DirtyInv, CopyPC, RoomInv, Full, Size
  <1> QED
    BY <1>5, <1>6, <1>7, <1>8 DEF IInv

\* Bytes behind the queue send it through a reclaim; they follow complete headers.
LEMMA CleanTailStep ==
    ASSUME IInv, CleanTail
    PROVE  IInv'
  <1>1. /\ pc = "b_clean" /\ op = "init" /\ work.ok
        /\ \/ ~work.q.dirty /\ pc' = "b_restart" /\ UNCHANGED <<ret, kept>>
           \/ /\ work.q.dirty /\ work.q.n = 0 /\ pc' = "c_save" /\ ret' = "b_restart"
              /\ kept' = EmptyQueue
    BY DEF IInv, CleanTail, Goto, WorkInv, ReturnInv, BootPC, CopyPC, FlushPC, GoodQueue,
       StartReclaim, Compact, locals
  <1>2. work' = work
    BY Types, <1>1 DEF CleanTail, flash
  <1>3. UNCHANGED <<spare, target, op, call, status, saved, offset>>
    BY DEF CleanTail, Goto, StartReclaim, locals, flash
  <1>4. DriverTypes' /\ GoodQueue(work.q)'
    BY Types, <1>1, <1>2, <1>3, Erased DEF IInv, DriverTypes, Queue, Labels, Ops, GoodQueue,
       Size
  <1>5. ReclaimInv' /\ ReturnInv' /\ WorkInv'
    BY Types, <1>1, <1>2, <1>3, Erased DEF IInv, ReclaimInv, ReclaimPC, CopyPC, FlushPC,
       IsCopy, ValidCopy, ReturnInv, BootPC, WorkInv, RoomInv, Full
  <1>6. CallInv' /\ RecordInv' /\ TargetInv'
    BY Types, <1>1, <1>2, <1>3, Erased DEF IInv, CallInv, RecordPC, TargetPC, RecordInv,
       TargetInv, Open, SpareComplete
  <1>7. OpenInv' /\ TornInv' /\ DirtyInv' /\ RoomInv'
    BY Types, <1>1, <1>2, <1>3, Erased DEF IInv, OpenInv, Open, SpareComplete, TargetPC,
       BootPC, TornInv, DirtyInv, CopyPC, RoomInv, Full, Size
  <1> QED
    BY <1>4, <1>5, <1>6, <1>7 DEF IInv

\* Initialisation is over, or it finishes the pending write.
LEMMA RestartPendingStep ==
    ASSUME IInv, RestartPending
    PROVE  IInv'
  <1>1. /\ pc = "b_restart" /\ op = "init" /\ work.ok /\ ~work.q.dirty
        /\ \/ ~Open(work.q) /\ pc' = "idle" /\ op' = "none" /\ call' = None
           \/ /\ Open(work.q) /\ pc' = "r_erase" /\ op' = op
              /\ call' = [blk |-> work.q.blk] /\ work.q.blk \in Block
    BY DEF IInv, RestartPending, Open, SpareComplete, WorkInv, ReturnInv, BootPC, CopyPC,
       FlushPC, GoodQueue, DirtyInv
  <1>2. work' = work
    BY Types, <1>1 DEF RestartPending, flash
  <1>3. UNCHANGED <<spare, target, status, saved, offset, ret, kept>>
    BY DEF RestartPending, locals, flash
  <1>4. DriverTypes' /\ GoodQueue(work.q)'
    BY Types, <1>1, <1>2, <1>3 DEF IInv, DriverTypes, Queue, Labels, Ops, GoodQueue, Size
  <1>5. ReclaimInv' /\ ReturnInv' /\ WorkInv'
    BY Types, <1>1, <1>2, <1>3 DEF IInv, ReclaimInv, ReclaimPC, CopyPC, FlushPC, IsCopy,
       ValidCopy, ReturnInv, BootPC, WorkInv, RoomInv, Full
  <1>6. CallInv' /\ RecordInv' /\ TargetInv'
    BY Types, <1>1, <1>2, <1>3 DEF IInv, CallInv, RecordPC, TargetPC, RecordInv,
       TargetInv, Open, SpareComplete
  <1>7. OpenInv' /\ TornInv' /\ DirtyInv' /\ RoomInv'
    BY Types, <1>1, <1>2, <1>3 DEF IInv, OpenInv, Open, SpareComplete, TargetPC, BootPC,
       TornInv, DirtyInv, CopyPC, RoomInv, Full, Size
  <1> QED
    BY <1>4, <1>5, <1>6, <1>7 DEF IInv

(***************************************************************************)
(* Failures.                                                               *)
(***************************************************************************)

\* A failed allocation leaves the flash alone.
LEMMA PoolFailsStep ==
    ASSUME IInv, PoolFails
    PROVE  IInv'
  <1>1. /\ op # "init" /\ pc \in {"w_save", "r_erase", "c_save", "f_erase"}
        /\ pc' = "idle" /\ op' = "none" /\ call' = None
        /\ status' \in {"none", "written", "failed"}
    BY DEF IInv, PoolFails, Return, DriverTypes
  <1>2. work' = work
    BY Types, <1>1 DEF PoolFails, flash
  <1>3. UNCHANGED <<spare, target, saved, offset, ret, kept>>
    BY DEF PoolFails, Return, locals, flash
  <1>4. DriverTypes' /\ GoodQueue(work.q)'
    BY Types, <1>1, <1>2, <1>3 DEF IInv, DriverTypes, Queue, Labels, Ops, GoodQueue, Size
  <1>5. ReclaimInv' /\ ReturnInv' /\ WorkInv'
    BY Types, <1>1, <1>2, <1>3 DEF IInv, ReclaimInv, ReclaimPC, CopyPC, FlushPC, IsCopy,
       ValidCopy, ReturnInv, BootPC, WorkInv, RoomInv, Full
  <1>6. CallInv' /\ RecordInv' /\ TargetInv'
    BY Types, <1>1, <1>2, <1>3 DEF IInv, CallInv, RecordPC, TargetPC, RecordInv,
       TargetInv, Open, SpareComplete
  <1>7. OpenInv' /\ TornInv' /\ DirtyInv' /\ RoomInv'
    BY Types, <1>1, <1>2, <1>3 DEF IInv, OpenInv, Open, SpareComplete, TargetPC, BootPC,
       TornInv, DirtyInv, CopyPC, RoomInv, Full, Size
  <1> QED
    BY <1>4, <1>5, <1>6, <1>7 DEF IInv

\* A power failure while a header is written leaves bytes behind the queue.
LEMMA PowerFailsQueue ==
    ASSUME IInv, PowerFails, HeaderInProgress => work.q.n = 0
    PROVE  /\ work' \in [ok : BOOLEAN, q : Queue] /\ work'.ok = work.ok
           /\ UNCHANGED <<work.q.used, work.q.n, work.q.complete, work.q.done,
                          work.q.blk, work.q.sp>>
           /\ work'.q.dirty => work.q.n = 0
  <1>1. PICK torn \in {FALSE, HeaderInProgress} : work' = [work EXCEPT !.q.dirty = @ \/ torn]
    BY DEF PowerFails
  <1>2. torn \in BOOLEAN /\ (torn => work.q.n = 0)
    <2>1. HeaderInProgress \in BOOLEAN
      BY DEF HeaderInProgress
    <2>2. CASE torn = FALSE
      BY <2>2
    <2>3. CASE torn = HeaderInProgress
      BY <2>1, <2>3
    <2> QED
      BY <1>1, <2>2, <2>3
  <1>3. work.q.dirty => work.q.n = 0
    BY DEF IInv, GoodQueue
  <1> DEFINE d == work.q.dirty \/ torn
  <1>4. d \in BOOLEAN /\ (d => work.q.n = 0)
    BY <1>2, <1>3, Types
  <1>5. work' = [work EXCEPT !.q = [work.q EXCEPT !.dirty = d]]
    BY <1>1
  <1> HIDE DEF d
  <1>6. [work.q EXCEPT !.dirty = d] \in Queue
    BY <1>4, Types DEF Queue
  <1>7. /\ work'.ok = work.ok /\ work'.q = [work.q EXCEPT !.dirty = d]
        /\ work' \in [ok : BOOLEAN, q : Queue]
    BY <1>5, <1>6, Types
  <1>8. /\ work'.q.dirty = d
        /\ UNCHANGED <<work.q.used, work.q.n, work.q.complete, work.q.done,
                       work.q.blk, work.q.sp>>
    BY <1>7, Types DEF Queue
  <1> QED
    BY <1>4, <1>7, <1>8

\* A power failure keeps the flash, but for bytes of a header that was being written.
LEMMA PowerFailsStep ==
    ASSUME IInv, PowerFails
    PROVE  IInv'
  <1>1. /\ pc # "off" /\ pc' = "off" /\ op' = "none" /\ call' = None /\ status' = "none"
        /\ ret' = "idle" /\ kept' = EmptyQueue /\ saved' = Torn /\ offset' = 0
        /\ HeaderInProgress => work.q.n = 0 /\ work.ok
    BY DEF IInv, PowerFails, HeaderInProgress, RoomInv, WorkInv, CopyPC, FlushPC
  <1>2. /\ work' \in [ok : BOOLEAN, q : Queue] /\ work'.ok = work.ok
        /\ UNCHANGED <<work.q.used, work.q.n, work.q.complete,
                       work.q.done, work.q.blk, work.q.sp>>
        /\ work'.q.dirty => work.q.n = 0
    BY <1>1, PowerFailsQueue
  <1>3. UNCHANGED <<spare, target>>
    BY DEF PowerFails
  <1>4. DriverTypes' /\ GoodQueue(work.q)'
    BY Types, <1>1, <1>2, <1>3, Erased DEF IInv, DriverTypes, Queue, Labels, Ops,
       SpareContents, GoodQueue, Size
  <1>5. ReclaimInv' /\ ReturnInv' /\ WorkInv'
    BY Types, <1>1, <1>2, <1>3, Erased DEF IInv, ReclaimInv, ReclaimPC, CopyPC, FlushPC,
       IsCopy, ValidCopy, ReturnInv, BootPC, WorkInv, RoomInv, Full
  <1>6. CallInv' /\ RecordInv' /\ TargetInv'
    BY Types, <1>1, <1>2, <1>3, Erased DEF IInv, CallInv, RecordPC, TargetPC, RecordInv,
       TargetInv, Open, SpareComplete
  <1>7. OpenInv' /\ TornInv' /\ DirtyInv' /\ RoomInv'
    BY Types, <1>1, <1>2, <1>3, Erased DEF IInv, OpenInv, Open, SpareComplete, TargetPC,
       BootPC, TornInv, DirtyInv, CopyPC, RoomInv, Full, Size
  <1> QED
    BY <1>4, <1>5, <1>6, <1>7 DEF IInv

(***************************************************************************)
(* The invariant.                                                          *)
(***************************************************************************)

\* The initial states satisfy it.
LEMMA InitInv ==
    ASSUME Init
    PROVE  IInv
  <1>1. DriverTypes /\ TornInv
    BY Erased, FtwAssumption DEF Init, DriverTypes, TornInv, SpareContents, Labels, Ops
  <1>2. GoodQueue(work.q) /\ OpenInv /\ DirtyInv
    BY Erased DEF Init, OpenInv, DirtyInv
  <1>3. ReclaimInv /\ ReturnInv /\ WorkInv /\ CallInv
    BY Erased DEF Init, ReclaimInv, ReturnInv, WorkInv, CallInv, ReclaimPC, CopyPC,
       FlushPC,
       BootPC, RecordPC, TargetPC, IsCopy
  <1>4. RecordInv /\ TargetInv /\ RoomInv
    BY DEF Init, RecordInv, TargetInv, RoomInv, RecordPC, TargetPC, CopyPC
  <1> QED
    BY <1>1, <1>2, <1>3, <1>4 DEF IInv

\* What an initialization that finds no memory leaves undone is remembered.
LEMMA StarvedStays ==
    ASSUME starved, [Next]_vars
    PROVE  starved'
  BY DEF Next, Step, InitPoolFails, vars

\* Every step preserves it, but for an initialization that finds no memory.
LEMMA NextInv ==
    ASSUME IInv, [Next]_vars, ~starved'
    PROVE  IInv'
  <1>1. CASE Step
    <2>1. CASE Boot \/ CheckWorkSpace \/ AdoptSpare \/ TidyHeader \/ CleanTail
                \/ RestartPending \/ AbortPending
      BY <2>1, BootStep, CheckWorkSpaceStep, AdoptSpareStep, TidyHeaderStep, CleanTailStep,
         RestartPendingStep, AbortPendingStep
    <2>2. CASE WriteAllocates \/ WriteRefused \/ WriteProceeds \/ WriteRecord
                \/ SaveSpare("w_save", "w_fill") \/ FillSpare \/ MarkSpareComplete
      BY <2>2, WriteAllocatesStep, WriteRefusedStep, WriteProceedsStep, WriteRecordStep,
         SaveSpareStep, FillSpareStep, MarkSpareCompleteStep
    <2>3. CASE EraseTarget \/ CopyTarget \/ MarkDestComplete \/ MarkComplete \/ EraseSpare
                \/ RestoreSpare("w_restore", "idle")
      BY <2>3, EraseTargetStep, CopyTargetStep, MarkDestCompleteStep, MarkCompleteStep,
         EraseSpareStep, ReturnSpareStep
    <2>4. CASE AllocateChecks \/ WriteHeader \/ RestartChecks \/ AbortWrites \/ GetLastWrite
      BY <2>4, AllocateChecksStep, WriteHeaderStep, RestartChecksStep, AbortWritesStep,
         GetLastWriteStep
    <2>5. CASE SaveSpare("c_save", "c_fill") \/ CopyToSpare \/ ValidateSpare
                \/ InvalidateWork \/ EraseWork \/ FillWork \/ ValidateWork \/ ReleaseSpare
                \/ RestoreSpare("c_restore", ret)
      BY <2>5, BorrowSpareStep, CopyToSpareStep, ValidateSpareStep, InvalidateWorkStep,
         EraseWorkStep, FillWorkStep, ValidateWorkStep, ReleaseSpareStep, ReclaimReturnsStep
    <2> QED
      BY <1>1, <2>1, <2>2, <2>3, <2>4, <2>5 DEF Step
  <1>2. CASE Caller
    <2>1. CASE \E b \in Block, d \in Data : CallWrite(b, d)
      BY <2>1, CallWriteStep
    <2>2. CASE \E n \in AllocSizes : CallAllocate(n)
      BY <2>2, EnterStep, FtwAssumption DEF CallAllocate
    <2>3. CASE CallRestart \/ CallAbort \/ CallGetLastWrite
      BY <2>3, EnterStep DEF CallRestart, CallAbort, CallGetLastWrite
    <2> QED
      BY <1>2, <2>1, <2>2, <2>3 DEF Caller
  <1>3. CASE PoolFails \/ PowerFails
    BY <1>3, PoolFailsStep, PowerFailsStep
  <1>4. CASE UNCHANGED vars
    BY <1>4 DEF vars, IInv, DriverTypes, ReclaimInv, ReturnInv, WorkInv, CallInv, RecordInv,
       TargetInv, OpenInv, TornInv, DirtyInv, RoomInv
  <1>5. CASE InitPoolFails
    BY <1>5 DEF InitPoolFails
  <1> QED
    BY <1>1, <1>2, <1>3, <1>4, <1>5 DEF Next

\* The driver keeps the inductive invariant, through every power failure and every
\* allocation that fails, until an initialization finds no memory.
SuppliedInv == starved \in BOOLEAN /\ (starved \/ IInv)

THEOREM Invariance == Spec => []SuppliedInv
  <1>1. Init => SuppliedInv
    BY InitInv DEF SuppliedInv, Init
  <1>2. SuppliedInv /\ [Next]_vars => SuppliedInv'
    <2>1. ASSUME starved \in BOOLEAN, [Next]_vars
          PROVE  starved' \in BOOLEAN
      BY <2>1 DEF Next, Step, InitPoolFails, vars
    <2> QED
      BY <2>1, NextInv, StarvedStays DEF SuppliedInv
  <1> QED
    BY <1>1, <1>2, PTL DEF Spec

\* The flash, the control state and the locals of the driver have their types,
\* while initializations find the memory they need.
THEOREM TypeCorrect == Spec => [](starved \/ TypeOK)
  <1>1. SuppliedInv => starved \/ TypeOK
    BY DEF SuppliedInv, IInv, TypeOK
  <1> QED
    BY <1>1, Invariance, PTL

\* The write that a reboot would find pending is the one in the working block.
LEMMA PendingIsOpen ==
    IInv => /\ Pending <=> Open(work.q)
            /\ Pending => Found = work.q
  <1> SUFFICES ASSUME IInv
               PROVE  /\ Pending <=> Open(work.q)
                      /\ Pending => Found = work.q
    OBVIOUS
  <1>1. CASE work.ok
    BY <1>1 DEF Pending, Found, Open
  <1>2. CASE ~work.ok
    <2>1. Found = EmptyQueue
      BY <1>2 DEF Found, IInv, ReclaimInv, ValidCopy
    <2>2. ~Open(work.q)
      BY <1>2 DEF IInv, WorkInv, Open, SpareComplete
    <2> QED
      BY <2>1, <2>2, Erased DEF Pending, Open
  <1> QED
    BY <1>1, <1>2

\* A record that says SpareComplete and not DestinationComplete always has its
\* data in the spare block, whatever reclaim, restart or failure comes between,
\* while initializations find the memory they need.
THEOREM PendingIsBacked == Spec => []SpareBacksPending
  <1>1. SuppliedInv => SpareBacksPending
    BY PendingIsOpen DEF SuppliedInv, SpareBacksPending, IInv, OpenInv, GoodQueue, Open, SpareComplete
  <1> QED
    BY <1>1, Invariance, PTL

\* Whenever the protocol is ready for a call no target block is torn, and the free
\* area behind the write queue is erased, while initializations find their memory.
THEOREM ReadyIsWhole == Spec => []WholeWhenReady
  <1>1. SuppliedInv => WholeWhenReady
    <2> SUFFICES ASSUME IInv, pc = "idle"
                 PROVE  target \in [Block -> Data] /\ ~work.q.dirty
      BY DEF WholeWhenReady, SuppliedInv
    <2>1. \A b \in Block : target[b] # Torn
      BY DEF IInv, TornInv
    <2>2. target \in [Block -> Data \cup {Torn}]
      BY DEF IInv, DriverTypes
    <2>3. ~work.q.dirty
      BY DEF IInv, DirtyInv, CopyPC
    <2> QED
      BY <2>1, <2>2, <2>3
  <1> QED
    BY <1>1, Invariance, PTL

(***************************************************************************)
(* The write queue survives.                                               *)
(***************************************************************************)

\* HasWorkSpace without the refresh.
HasQueue == work.ok \/ ValidCopy(spare) \/ Full(work.q)

\* When the working block is not valid, nothing is recorded in it.
LEMMA WorkSpaceIs == IInv => (HasWorkSpace <=> HasQueue)
  <1> SUFFICES ASSUME IInv, ~work.ok
               PROVE  Advance(work.q) = work.q
    BY DEF HasWorkSpace, HasQueue
  <1>1. ~work.q.complete
    BY Types DEF IInv, WorkInv, GoodQueue
  <1> QED
    BY <1>1 DEF Advance

\* Steps of a reclaim on the way from one valid copy to the other.
Migrates ==
    \/ SaveSpare("c_save", "c_fill") \/ CopyToSpare \/ ValidateSpare
    \/ InvalidateWork \/ EraseWork \/ FillWork

\* All other steps keep the valid working block, or change neither block.
LEMMA OthersKeep ==
    ASSUME IInv, [Next]_vars, ~starved', ~Migrates
    PROVE  \/ work'.ok
           \/ work'.ok = work.ok /\ Full(work'.q) = Full(work.q) /\ spare' = spare
  <1>1. CASE \/ CheckWorkSpace \/ CleanTail \/ RestartPending \/ WriteRefused
             \/ WriteProceeds \/ AllocateChecks \/ RestartChecks \/ PoolFails
             \/ UNCHANGED vars
    BY <1>1 DEF CheckWorkSpace, CleanTail, RestartPending, WriteRefused, WriteProceeds,
       AllocateChecks, RestartChecks, PoolFails, vars, flash
  <1>2. CASE Boot \/ Caller \/ AdoptSpare \/ AbortPending
    <2>1. PICK next : Refresh(work.q, next) /\ spare' = spare
      BY <1>2, Erased DEF Boot, Caller, AdoptSpare, AbortPending, CallWrite, CallAllocate,
         CallRestart, CallAbort, CallGetLastWrite, Enter, IInv, ReclaimInv, Aborted
    <2>2. work'.ok = work.ok /\ (~work.q.complete => work'.q = work.q)
      BY <2>1, Types, Refreshed DEF IInv
    <2>3. ~work.ok => ~work.q.complete
      BY Types DEF IInv, WorkInv, GoodQueue
    <2> QED
      BY <2>1, <2>2, <2>3, Types
  <1>3. CASE \/ TidyHeader \/ WriteHeader \/ AbortWrites \/ GetLastWrite
             \/ WriteAllocates \/ WriteRecord \/ SaveSpare("w_save", "w_fill") \/ FillSpare
             \/ MarkSpareComplete \/ RestoreSpare("w_restore", "idle")
             \/ EraseTarget \/ CopyTarget \/ MarkDestComplete \/ MarkComplete \/ EraseSpare
             \/ ReleaseSpare \/ RestoreSpare("c_restore", ret)
    <2>1. work.ok
      BY <1>3 DEF IInv, WorkInv, CopyPC, FlushPC, TidyHeader, WriteHeader, AbortWrites,
         GetLastWrite, WriteAllocates, WriteRecord, SaveSpare, FillSpare, MarkSpareComplete,
         RestoreSpare, EraseTarget, CopyTarget, MarkDestComplete, MarkComplete, EraseSpare,
         ReleaseSpare
    <2>2. work'.ok = work.ok
      BY <1>3, Types DEF TidyHeader, WriteHeader, AbortWrites, GetLastWrite,
         WriteAllocates,
         WriteRecord, SaveSpare, FillSpare, MarkSpareComplete, RestoreSpare, EraseTarget,
         CopyTarget, MarkDestComplete, MarkComplete, EraseSpare, ReleaseSpare
    <2> QED
      BY <2>1, <2>2
  <1>4. CASE PowerFails
    <2>1. HeaderInProgress => work.q.n = 0
      BY DEF HeaderInProgress, IInv, RoomInv
    <2>2. work'.ok = work.ok /\ UNCHANGED work.q.used
      BY <1>4, <2>1, PowerFailsQueue
    <2> QED
      BY <1>4, <2>2 DEF PowerFails, Full
  <1>5. CASE ValidateWork
    BY <1>5, Types DEF ValidateWork
  <1>6. CASE InitPoolFails
    BY <1>6 DEF InitPoolFails
  <1> QED
    BY <1>1, <1>2, <1>3, <1>4, <1>5, <1>6 DEF Next, Step, Migrates

\* A reclaim erases the block that is not valid, or the one whose copy is.
LEMMA ReclaimKeeps ==
    ASSUME IInv, Migrates, HasQueue
    PROVE  HasQueue'
  <1>1. CASE InvalidateWork \/ EraseWork \/ FillWork
    BY <1>1 DEF InvalidateWork, EraseWork, FillWork, IInv, ReclaimInv, FlushPC,
       HasQueue
  <1>2. CASE SaveSpare("c_save", "c_fill") \/ CopyToSpare \/ ValidateSpare
    <2>1. work' = work
      BY <1>2 DEF SaveSpare, CopyToSpare, ValidateSpare
    <2>2. CASE SaveSpare("c_save", "c_fill")
      BY <2>1, <2>2 DEF SaveSpare, IInv, WorkInv, HasQueue
    <2>3. CASE CopyToSpare
      BY <2>1, <2>3 DEF CopyToSpare, IInv, ReclaimInv, ValidCopy, IsCopy,
         HasQueue
    <2>4. CASE ValidateSpare
      <3>1. IsCopy(spare) /\ spare \in Copy
        BY <2>4 DEF ValidateSpare, IInv, DriverTypes, ReclaimInv, SpareContents, IsCopy
      <3>2. spare' = [spare EXCEPT !.ok = TRUE]
        BY <2>4 DEF ValidateSpare
      <3>3. spare' \in Copy /\ spare'.ok
        BY <3>1, <3>2 DEF Copy
      <3> QED
        BY <3>3, FtwAssumption DEF ValidCopy, IsCopy, HasQueue
    <2> QED
      BY <1>2, <2>2, <2>3, <2>4
  <1> QED
    BY <1>1, <1>2 DEF Migrates

\* Once there is a write queue, every step leaves one: a reclaim that is cut short
\* at any flash operation leaves a valid block, or a full queue that is intact,
\* while initializations find the memory they need.
THEOREM QueueSurvives == Spec => WorkSpaceSurvives
  <1>1. IInv => (HasWorkSpace <=> HasQueue)
    BY WorkSpaceIs
  <1>2. IInv' => (HasWorkSpace' <=> HasQueue')
    BY <1>1, PTL
  <1>3. ASSUME IInv, IInv', [Next]_vars, ~starved', HasWorkSpace
        PROVE  HasWorkSpace'
    <2>1. CASE Migrates
      BY <2>1, <1>1, <1>2, <1>3, ReclaimKeeps
    <2>2. CASE ~Migrates
      BY <2>2, <1>1, <1>2, <1>3, OthersKeep DEF HasQueue, ValidCopy, IsCopy
    <2> QED
      BY <2>1, <2>2
  <1>4. SuppliedInv /\ SuppliedInv' /\ [Next]_vars
            => [HasWorkSpace /\ ~starved' => HasWorkSpace']_vars
    BY <1>3, StarvedStays DEF SuppliedInv
  <1> QED
    BY <1>4, Invariance, PTL DEF Spec, WorkSpaceSurvives
(***************************************************************************)
(* FaultTolerantWrite implements AtomicBlockWrite.                         *)
(***************************************************************************)

\* The refinement mapping, read off the working block.
View == [b \in Block |-> IF Open(work.q) /\ work.q.blk = b THEN spare ELSE target[b]]
Fallback == IF Open(work.q) /\ target[work.q.blk] # Torn
            THEN [blk |-> work.q.blk, data |-> target[work.q.blk]]
            ELSE None

Mapped == Content = View /\ Undo = Fallback

\* It is what Content and Undo say of the queue that a reboot would find.
LEMMA ViewIs == IInv => Mapped
  <1> SUFFICES ASSUME IInv
               PROVE  Content = View /\ Undo = Fallback
    BY DEF Mapped
  <1>1. Pending <=> Open(work.q)
    BY PendingIsOpen
  <1>2. Open(work.q) => Found = work.q /\ ~IsCopy(spare) /\ Found.blk \in Block
    BY PendingIsOpen, <1>1 DEF IInv, OpenInv, GoodQueue, Open, SpareComplete, IsCopy
  <1>3. Content = View
    BY <1>1, <1>2 DEF Content, View
  <1>4. Undo = Fallback
    BY <1>1, <1>2 DEF Undo, Fallback
  <1> QED
    BY <1>3, <1>4

\* A step that neither writes a target block nor opens or closes a write with its
\* data in the spare block is not seen.
LEMMA SameView ==
    ASSUME UNCHANGED target, Open(work'.q) <=> Open(work.q),
           Open(work.q) => work'.q.blk = work.q.blk /\ spare' = spare
    PROVE  UNCHANGED <<View, Fallback>>
  BY DEF View, Fallback

\* A refresh keeps the open write.
LEMMA RefreshView ==
    ASSUME IInv, NEW next, Refresh(work.q, next), UNCHANGED <<spare, target>>
    PROVE  UNCHANGED <<View, Fallback>>
  <1>1. /\ ~work.q.complete => work'.q = work.q
        /\ work.q.complete => work'.q.n = 0
    BY Types, Refreshed DEF IInv
  <1>2. Open(work'.q) <=> Open(work.q)
    BY <1>1, Types DEF Open, SpareComplete
  <1>3. Open(work.q) => work'.q = work.q
    BY <1>1 DEF Open
  <1> QED
    BY <1>2, <1>3, SameView

\* Steps of FtwWrite and FtwWriteRecord that the abstract store does not see.
LEMMA WriteStutters ==
    ASSUME IInv,
           \/ WriteAllocates \/ WriteProceeds \/ WriteRecord
           \/ SaveSpare("w_save", "w_fill") \/ FillSpare \/ MarkComplete \/ EraseSpare
    PROVE  UNCHANGED <<View, Fallback, Called, status>>
  <1>1. CASE WriteProceeds
    BY <1>1 DEF WriteProceeds, Goto, View, Fallback, Called, Committed, flash
  <1>2. CASE WriteAllocates \/ WriteRecord \/ SaveSpare("w_save", "w_fill") \/ FillSpare
    <2>1. ~work.q.sp
      BY <1>2, Types DEF WriteAllocates, WriteRecord, SaveSpare, FillSpare, IInv,
         GoodQueue,
         RecordInv, RecordPC
    <2>2. work'.q.sp = work.q.sp
      BY <1>2, Types DEF WriteAllocates, WriteRecord, SaveSpare, FillSpare, Queue
    <2>4. ~Open(work.q) /\ ~Open(work'.q)
      BY <2>1, <2>2 DEF Open, SpareComplete
    <2>3. UNCHANGED <<target, Called, status>>
      BY <1>2 DEF WriteAllocates, WriteRecord, SaveSpare, FillSpare, Goto, Called,
         Committed
    <2> QED
      BY <2>3, <2>4, SameView
  <1>3. CASE MarkComplete
    <2>3. work.q.done = work.q.n /\ work'.q.done = work.q.done /\ work'.q.n = work.q.n
      BY <1>3, Types DEF MarkComplete, IInv, TargetInv, Queue
    <2>1. ~Open(work.q) /\ ~Open(work'.q)
      BY <2>3, Types DEF Open, SpareComplete
    <2>2. UNCHANGED <<target, Called, status>>
      BY <1>3 DEF MarkComplete, Goto, Called, Committed
    <2> QED
      BY <2>1, <2>2, SameView
  <1>4. CASE EraseSpare
    <2>1. ~Open(work.q) /\ work' = work /\ UNCHANGED target
      BY <1>4 DEF EraseSpare, IInv, TargetInv
    <2>2. UNCHANGED <<Called, status>>
      BY <1>4 DEF EraseSpare, Goto, Return, Called, Committed
    <2> QED
      BY <2>1, <2>2, SameView
  <1> QED
    BY <1>1, <1>2, <1>3, <1>4

\* Nor does it see the other functions.
LEMMA QueueStutters ==
    ASSUME IInv,
           \/ AllocateChecks \/ WriteHeader \/ RestartChecks \/ GetLastWrite
           \/ CheckWorkSpace \/ TidyHeader \/ CleanTail \/ RestartPending
    PROVE  UNCHANGED <<View, Fallback, Called, status>>
  <1>1. op # "write" /\ op' # "write" /\ UNCHANGED <<status, target, spare>>
    BY DEF AllocateChecks, WriteHeader, RestartChecks, GetLastWrite, CheckWorkSpace,
       TidyHeader, CleanTail, RestartPending, Return, Goto, flash, IInv, CallInv,
       ReturnInv, BootPC
  <1>2. UNCHANGED Called
    BY <1>1 DEF Called
  <1>3. CASE \/ AllocateChecks \/ RestartChecks \/ CheckWorkSpace \/ CleanTail \/ RestartPending
    BY <1>1, <1>2, <1>3 DEF AllocateChecks, RestartChecks, CheckWorkSpace, CleanTail,
       RestartPending, flash, View, Fallback
  <1>4. CASE WriteHeader
    <2>1. work.q.n = 0 /\ ~work.q.sp /\ work'.q.sp = work.q.sp
      BY <1>4, Types DEF WriteHeader, IInv, RoomInv, GoodQueue
    <2>2. ~Open(work.q) /\ ~Open(work'.q)
      BY <2>1 DEF Open, SpareComplete
    <2> QED
      BY <1>1, <1>2, <2>2, SameView
  <1>5. CASE GetLastWrite \/ TidyHeader
    <2>1. Open(work.q) => work' = work
      BY <1>5, Types DEF GetLastWrite, TidyHeader, AllDone, Open, SpareComplete
    <2>2. ~Open(work.q) => ~Open(work'.q)
      BY <1>5, Types, AbortedQueue DEF GetLastWrite, TidyHeader, IInv
    <2> QED
      BY <1>1, <1>2, <2>1, <2>2, SameView
  <1> QED
    BY <1>3, <1>4, <1>5

\* Nor a reclaim of the queue.
LEMMA ReclaimStutters ==
    ASSUME IInv,
           \/ Migrates \/ ValidateWork \/ ReleaseSpare \/ RestoreSpare("c_restore", ret)
    PROVE  UNCHANGED <<View, Fallback, Called, status>>
  <1>1. pc \in ReclaimPC /\ work.q.n = 0
    BY DEF Migrates, SaveSpare, CopyToSpare, ValidateSpare, InvalidateWork, EraseWork,
       FillWork, ValidateWork, ReleaseSpare, RestoreSpare, IInv, ReclaimInv, ReclaimPC,
       CopyPC, FlushPC
  <1>2. /\ UNCHANGED <<op, call, status, target>>
        /\ (pc' \in ReclaimPC \/ pc' = "b_adopt" \/ pc' = ret)
    BY <1>1 DEF Migrates, SaveSpare, CopyToSpare, ValidateSpare, InvalidateWork, EraseWork,
       FillWork, ValidateWork, ReleaseSpare, RestoreSpare, Goto, IInv, ReturnInv, ReclaimPC,
       CopyPC, FlushPC
  <1>3. work'.q.n = 0
    BY <1>1, Types, Erased DEF Migrates, SaveSpare, CopyToSpare, ValidateSpare,
       InvalidateWork, EraseWork, FillWork, ValidateWork, ReleaseSpare, RestoreSpare, IInv,
       ReclaimInv, FlushPC, ValidCopy
  <1>4. ~Open(work.q) /\ ~Open(work'.q)
    BY <1>1, <1>3 DEF Open, SpareComplete
  <1>5. Committed = FALSE /\ (op = "write" => Committed' = FALSE)
    BY <1>1, <1>2 DEF Committed, IInv, ReturnInv, ReclaimPC, CopyPC, FlushPC
  <1>6. UNCHANGED Called
    BY <1>2, <1>5 DEF Called
  <1> QED
    BY <1>2, <1>4, <1>6, SameView

\* Calls and boots: only CallWrite is seen, as the start of a write.
LEMMA CallsRefine ==
    ASSUME IInv, Boot \/ AdoptSpare \/ AbortPending \/ Caller
    PROVE  /\ UNCHANGED <<View, Fallback>>
           /\ \/ UNCHANGED <<Called, status>>
              \/ \E b \in Block, d \in Data :
                    /\ Called = None /\ status' = "none"
                    /\ Called' = [blk |-> b, data |-> d, done |-> FALSE]
  <1>1. CASE Boot \/ AdoptSpare \/ AbortPending
    <2>1. PICK next : Refresh(work.q, next) /\ UNCHANGED <<spare, target>>
      BY <1>1, Erased DEF Boot, AdoptSpare, AbortPending, IInv, ReclaimInv, Aborted
    <2>2. op # "write" /\ op' # "write" /\ UNCHANGED status
      BY <1>1 DEF Boot, AdoptSpare, AbortPending, IInv, CallInv, ReturnInv, BootPC
    <2> QED
      BY <2>1, <2>2, RefreshView DEF Called
  <1>2. ASSUME NEW b \in Block, NEW d \in Data, CallWrite(b, d)
        PROVE  /\ UNCHANGED <<View, Fallback>>
               /\ Called = None /\ status' = "none"
               /\ Called' = [blk |-> b, data |-> d, done |-> FALSE]
    <2>1. Refresh(work.q, "w_check") /\ UNCHANGED <<spare, target>>
      BY <1>2 DEF CallWrite
    <2>2. pc' \in {"c_save", "w_check"}
      BY <2>1 DEF Refresh
    <2>3. Called = None
      BY <1>2 DEF CallWrite, IInv, CallInv, Called
    <2>4. Called' = [blk |-> b, data |-> d, done |-> FALSE] /\ status' = "none"
      <3>1. Committed' = FALSE
        BY <2>2 DEF Committed
      <3> QED
        BY <1>2, <3>1 DEF CallWrite, Called
    <2> QED
      BY <2>1, <2>3, <2>4, RefreshView
  <1>3. ASSUME NEW o, NEW n, NEW next, Enter(o, n, next), o # "write"
        PROVE  UNCHANGED <<View, Fallback, Called, status>>
    BY <1>3, RefreshView DEF Enter, IInv, CallInv, Called
  <1>4. CASE \E n \in AllocSizes : CallAllocate(n)
    BY <1>3, <1>4 DEF CallAllocate
  <1>5. CASE CallRestart \/ CallAbort \/ CallGetLastWrite
    BY <1>3, <1>5 DEF CallRestart, CallAbort, CallGetLastWrite
  <1>6. CASE \E b \in Block, d \in Data : CallWrite(b, d)
    BY <1>2, <1>6
  <1> QED
    BY <1>1, <1>4, <1>5, <1>6 DEF Caller

\* Setting SpareComplete is the moment the block changes.
LEMMA CommitRefines ==
    ASSUME IInv, MarkSpareComplete
    PROVE  /\ Called # None => ~Called.done
           /\ Called = [blk |-> call.blk, data |-> call.data, done |-> FALSE]
           /\ Called' = [blk |-> call.blk, data |-> call.data, done |-> TRUE]
           /\ View' = [View EXCEPT ![call.blk] = call.data]
           /\ Fallback' \in {None, [blk |-> call.blk, data |-> View[call.blk]]}
           /\ UNCHANGED status
  <1>1. /\ pc = "w_mark" /\ pc' = "r_erase" /\ op = "write"
        /\ UNCHANGED <<op, call, status>>
        /\ work.q.blk = call.blk /\ call.blk \in Block /\ spare = call.data
        /\ ~work.q.sp /\ ~work.q.complete /\ work.q.n > 0 /\ work.q.done < work.q.n
        /\ UNCHANGED <<spare, target>>
    BY DEF MarkSpareComplete, Goto, IInv, CallInv, RecordInv, RecordPC
  <1>2. work'.q = [work.q EXCEPT !.sp = TRUE]
    BY Types DEF MarkSpareComplete
  <1>3. /\ work'.q.sp = TRUE /\ work'.q.blk = call.blk
        /\ UNCHANGED <<work.q.n, work.q.done, work.q.complete>>
    BY Types, <1>1, <1>2 DEF Queue
  <1>4. ~Open(work.q) /\ Open(work'.q)
    BY <1>1, <1>3 DEF Open, SpareComplete
  <1>5. View = [b \in Block |-> target[b]]
    BY <1>4 DEF View
  <1>6. View' = [b \in Block |-> IF call.blk = b THEN call.data ELSE target[b]]
    BY <1>1, <1>3, <1>4 DEF View
  <1>7. View' = [View EXCEPT ![call.blk] = call.data]
    BY <1>5, <1>6
  <1>8. Fallback' \in {None, [blk |-> call.blk, data |-> View[call.blk]]}
    BY <1>1, <1>3, <1>4, <1>5 DEF Fallback
  <1>9. /\ Called = [blk |-> call.blk, data |-> call.data, done |-> FALSE]
        /\ Called' = [blk |-> call.blk, data |-> call.data, done |-> TRUE]
    <2>1. Committed = FALSE /\ Committed' = TRUE
      BY <1>1 DEF Committed
    <2> QED
      BY <1>1, <2>1 DEF Called
  <1> QED
    BY <1>1, <1>7, <1>8, <1>9

\* Writing the target block changes only what the write could fall back to.
LEMMA TargetRefines ==
    ASSUME IInv, EraseTarget \/ CopyTarget \/ MarkDestComplete
    PROVE  /\ UNCHANGED <<View, Called, status>>
           /\ \/ Fallback' = None
              \/ \E b \in Block : Fallback' = [blk |-> b, data |-> View[b]]
  <1>1. /\ pc \in TargetPC /\ pc' \in TargetPC \cup DonePC
        /\ UNCHANGED <<op, call, status, spare>>
    BY DEF EraseTarget, CopyTarget, MarkDestComplete, Goto, TargetPC, DonePC
  <1>2. UNCHANGED Called
    BY <1>1 DEF Called, Committed, TargetPC, DonePC
  <1>3. /\ Open(work.q) /\ spare \in Data /\ spare # Torn /\ call.blk = work.q.blk
        /\ call.blk \in Block /\ target \in [Block -> Data \cup {Torn}]
    BY <1>1, FtwAssumption DEF IInv, DriverTypes, TargetInv, OpenInv, GoodQueue, Open,
       SpareComplete
  <1>4. CASE EraseTarget
    <2>1. work' = work /\ target' = [target EXCEPT ![call.blk] = Torn]
      BY <1>4 DEF EraseTarget
    <2>2. UNCHANGED View
      BY <1>1, <1>3, <2>1 DEF View
    <2>3. Fallback' = None
      BY <1>3, <2>1 DEF Fallback
    <2> QED
      BY <1>1, <1>2, <2>2, <2>3
  <1>5. CASE CopyTarget
    <2>1. work' = work /\ target' = [target EXCEPT ![call.blk] = spare]
      BY <1>3, <1>5 DEF CopyTarget, IsCopy
    <2>2. UNCHANGED View
      BY <1>1, <1>3, <2>1 DEF View
    <2>3. Fallback' = [blk |-> call.blk, data |-> View[call.blk]]
      BY <1>3, <2>1 DEF Fallback, View
    <2> QED
      BY <1>1, <1>2, <1>3, <2>2, <2>3
  <1>6. CASE MarkDestComplete
    <2>1. UNCHANGED target /\ target[call.blk] = spare
      BY <1>6 DEF MarkDestComplete, IInv, TargetInv, TargetPC
    <2>2. work'.q = [work.q EXCEPT !.done = @ + 1, !.sp = FALSE, !.blk = None]
      BY <1>6, Types DEF MarkDestComplete
    <2>3. ~work'.q.sp
      BY <2>2, Types DEF Queue
    <2>4. ~Open(work'.q)
      BY <2>3 DEF Open, SpareComplete
    <2>5. UNCHANGED View
      BY <1>3, <2>1, <2>4 DEF View
    <2>6. Fallback' = None
      BY <2>4 DEF Fallback
    <2> QED
      BY <1>1, <1>2, <2>5, <2>6
  <1> QED
    BY <1>4, <1>5, <1>6

\* FtwWrite returns success only when the block has changed.
LEMMA ReturnRefines ==
    ASSUME IInv,
           WriteRefused \/ RestoreSpare("w_restore", "idle") \/ (PoolFails /\ op = "write")
    PROVE  /\ UNCHANGED <<View, Fallback>>
           /\ Called # None /\ Called' = None
           /\ status' = "failed" \/ (status' = "written" /\ Called.done)
  <1>1. /\ op = "write" /\ op' = "none" /\ work' = work /\ target' = target
        /\ status' = "failed" \/ (status' = "written" /\ pc = "w_restore")
    BY DEF WriteRefused, RestoreSpare, PoolFails, Return, flash, IInv, CallInv
  <1>2. Called # None
    <2>1. call.blk \in Block /\ call.data \in Data /\ Committed \in BOOLEAN
      BY <1>1 DEF IInv, CallInv, Committed
    <2> QED
      BY <1>1, <2>1, FtwAssumption DEF Called
  <1>3. Called' = None /\ (pc = "w_restore" => Called.done)
    BY <1>1 DEF Called, Committed
  <1>4. ~Open(work.q) \/ spare' = spare
    BY DEF WriteRefused, RestoreSpare, PoolFails, flash, IInv, TargetInv
  <1> QED
    BY <1>1, <1>2, <1>3, <1>4, SameView

\* Giving up a pending write brings back what its block holds.
LEMMA AbortRefines ==
    ASSUME IInv, AbortWrites
    PROVE  /\ Called = None /\ UNCHANGED <<Called, status>>
           /\ \/ UNCHANGED <<View, Fallback>>
              \/ /\ Fallback # None /\ Fallback' = None
                 /\ View' = [View EXCEPT ![Fallback.blk] = Fallback.data]
  <1>1. /\ pc = "x_check" /\ op # "write" /\ op' # "write"
        /\ UNCHANGED <<spare, target, status>>
        /\ work'.q = Aborted(work.q)
    BY Types DEF AbortWrites, Return, IInv, CallInv
  <1>2. ~Open(work'.q)
    BY <1>1, Types, AbortedQueue DEF IInv
  <1>3. CASE ~Open(work.q)
    BY <1>1, <1>2, <1>3, SameView DEF Called
  <1>4. CASE Open(work.q)
    <2>1. work.q.blk \in Block /\ target[work.q.blk] # Torn
      BY <1>1, <1>4 DEF IInv, TornInv, GoodQueue, Open, SpareComplete
    <2>2. Fallback = [blk |-> work.q.blk, data |-> target[work.q.blk]] /\ Fallback' = None
      BY <1>2, <1>4, <2>1 DEF Fallback
    <2>3. Fallback # None
      <3>1. target[work.q.blk] \in Data
        BY <2>1 DEF IInv, DriverTypes
      <3> QED
        BY <2>1, <2>2, <3>1, FtwAssumption
    <2>4. View' = [View EXCEPT ![Fallback.blk] = Fallback.data]
      BY <1>1, <1>2, <1>4, <2>1, <2>2 DEF View
    <2> QED
      BY <1>1, <2>2, <2>3, <2>4 DEF Called
  <1> QED
    BY <1>3, <1>4

\* A power failure ends the call and changes nothing else.
LEMMA PowerRefines ==
    ASSUME IInv, PowerFails
    PROVE  /\ UNCHANGED <<View, Fallback>>
           /\ Called' = None /\ status' = "none"
  <1>1. HeaderInProgress => work.q.n = 0
    BY DEF HeaderInProgress, IInv, RoomInv
  <1>2. UNCHANGED <<work.q.n, work.q.complete, work.q.done, work.q.blk, work.q.sp>>
    BY <1>1, PowerFailsQueue
  <1>3. Open(work'.q) <=> Open(work.q)
    BY <1>2 DEF Open, SpareComplete
  <1>4. UNCHANGED <<target, spare>> /\ Called' = None /\ status' = "none"
    BY DEF PowerFails, Called
  <1> QED
    BY <1>2, <1>3, <1>4, SameView

\* Every step is a step of the abstract store or is not seen by it.
LEMMA StepRefines ==
    ASSUME IInv, [Next]_vars, ~starved', Mapped, Mapped'
    PROVE  [Atomic!Next]_(Atomic!vars)
  <1>1. /\ Content = View /\ Content' = View'
        /\ Undo = Fallback /\ Undo' = Fallback'
    BY DEF Mapped
  <1> DEFINE Same == UNCHANGED <<Content, Undo, Called, status>>
  <1>2. Same => UNCHANGED Atomic!vars
    BY DEF Atomic!vars
  <1>3. CASE \/ WriteAllocates \/ WriteProceeds \/ WriteRecord
             \/ SaveSpare("w_save", "w_fill") \/ FillSpare \/ MarkComplete \/ EraseSpare
    BY <1>2, <1>1, <1>3, WriteStutters
  <1>4. CASE \/ AllocateChecks \/ WriteHeader \/ RestartChecks \/ GetLastWrite
             \/ CheckWorkSpace \/ TidyHeader \/ CleanTail \/ RestartPending
    BY <1>2, <1>1, <1>4, QueueStutters
  <1>5. CASE \/ SaveSpare("c_save", "c_fill") \/ CopyToSpare \/ ValidateSpare
             \/ InvalidateWork \/ EraseWork \/ FillWork
             \/ ValidateWork \/ ReleaseSpare \/ RestoreSpare("c_restore", ret)
    BY <1>2, <1>1, <1>5, ReclaimStutters DEF Migrates
  <1>6. CASE Boot \/ AdoptSpare \/ AbortPending \/ Caller
    <2>1. CASE UNCHANGED <<Called, status>>
      BY <1>2, <1>6, <1>1, <2>1, CallsRefine
    <2>2. CASE \E b \in Block, d \in Data : Atomic!Begin(b, d)
      BY <2>2 DEF Atomic!Next
    <2>3. ASSUME NEW b \in Block, NEW d \in Data,
                 Called = None, status' = "none",
                 Called' = [blk |-> b, data |-> d, done |-> FALSE],
                 UNCHANGED <<Content, Undo>>
          PROVE  Atomic!Begin(b, d)
      BY <2>3 DEF Atomic!Begin
    <2> QED
      BY <1>1, <1>6, <2>1, <2>2, <2>3, CallsRefine
  <1>7. CASE MarkSpareComplete
    <2>1. Called # None
      <3>1. call.blk \in Block /\ call.data \in Data
        BY <1>7 DEF MarkSpareComplete, IInv, CallInv, RecordPC
      <3> QED
        <4>1. Called = [blk |-> call.blk, data |-> call.data, done |-> FALSE]
          BY <1>7, CommitRefines
        <4>2. Called \in [blk : Block, data : Data, done : BOOLEAN]
          BY <3>1, <4>1
        <4> QED
          BY <4>2, FtwAssumption
    <2>2. Atomic!Commit
      BY <1>7, <2>1, <1>1, CommitRefines DEF Atomic!Commit
    <2> QED
      BY <2>2 DEF Atomic!Next
  <1>8. CASE EraseTarget \/ CopyTarget \/ MarkDestComplete
    <2>1. Atomic!Settle
      BY <1>1, <1>8, TargetRefines DEF Atomic!Settle
    <2> QED
      BY <2>1 DEF Atomic!Next
  <1>9. CASE WriteRefused \/ RestoreSpare("w_restore", "idle") \/ (PoolFails /\ op = "write")
    <2>1. Atomic!Return
      BY <1>1, <1>9, ReturnRefines DEF Atomic!Return
    <2> QED
      BY <2>1 DEF Atomic!Next
  <1>10. CASE PoolFails /\ op # "write"
    <2>1. UNCHANGED <<View, Fallback, Called, status>>
      BY <1>10 DEF PoolFails, Return, flash, View, Fallback, Called
    <2> QED
      BY <1>2, <1>1, <2>1
  <1>11. CASE AbortWrites
    <2>1. CASE UNCHANGED <<View, Fallback>>
      BY <1>2, <1>11, <1>1, <2>1, AbortRefines
    <2>2. CASE ~UNCHANGED <<View, Fallback>>
      <3>1. Atomic!GiveUp
        BY <1>11, <1>1, <2>2, AbortRefines DEF Atomic!GiveUp
      <3> QED
        BY <3>1 DEF Atomic!Next
    <2> QED
      BY <2>1, <2>2
  <1>12. CASE PowerFails
    <2>1. Atomic!PowerFails
      BY <1>1, <1>12, PowerRefines DEF Atomic!PowerFails
    <2> QED
      BY <2>1 DEF Atomic!Next
  <1>13. CASE UNCHANGED vars
    <2>1. UNCHANGED <<View, Fallback, Called, status>>
      BY <1>13 DEF vars, View, Fallback, Called, Committed
    <2> QED
      BY <1>2, <1>1, <2>1
  <1>14. CASE InitPoolFails
    BY <1>14 DEF InitPoolFails
  <1> QED
    BY <1>3, <1>4, <1>5, <1>6, <1>7, <1>8, <1>9, <1>10, <1>11, <1>12, <1>13, <1>14
       DEF Next, Step

\* The driver implements the atomic store: after any power failure and recovery a
\* block holds its original or its modified contents, and a write that returned
\* EFI_SUCCESS is in place, for every number of blocks and every queue size, until an
\* initialization finds no memory to restart a write with.
THEOREM WritesAreAtomic == Spec => ImplementsAtomicWrite
  <1>1. Init => Atomic!Init
    <2> SUFFICES ASSUME Init
                 PROVE  Atomic!Init
      OBVIOUS
    <2>1. ~Open(work.q) /\ op = "none" /\ status = "none" /\ target \in [Block -> Data]
      BY Erased DEF Init
    <2>2. Content = View /\ Undo = Fallback
      BY InitInv, ViewIs DEF Mapped
    <2>3. View \in [Block -> Data] /\ Fallback = None /\ Called = None
      BY <2>1 DEF View, Fallback, Called
    <2> QED
      BY <2>1, <2>2, <2>3 DEF Atomic!Init
  <1>2. IInv => Mapped
    BY ViewIs
  <1>3. IInv' => Mapped'
    BY <1>2, PTL
  <1>4. SuppliedInv /\ SuppliedInv' /\ [Next]_vars
            => [Atomic!Next \/ starved']_(Atomic!vars)
    BY <1>2, <1>3, StepRefines, StarvedStays DEF SuppliedInv
  <1> QED
    BY <1>1, <1>4, Invariance, PTL DEF Spec, ImplementsAtomicWrite
===============================================================================
