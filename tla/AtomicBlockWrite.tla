--------------------------- MODULE AtomicBlockWrite ---------------------------
(***************************************************************************)
(* What a fault tolerant store promises: at every moment a block reads as  *)
(* its original or as its modified contents, a write that returned success *)
(* is in place, and a power failure changes neither.  FaultTolerantWrite   *)
(* promises it for flash blocks, VariableStore for variables.              *)
(***************************************************************************)
EXTENDS Naturals

CONSTANTS Block,        \* flash blocks, or variable names
          Data,         \* what one can hold
          None          \* no call, nothing to fall back to

VARIABLES content,      \* what each block would read as once recovery is done
          undo,         \* the contents an abandoned write would fall back to
          call,         \* the write in progress and whether it took effect
          status        \* how the last write ended

vars == <<content, undo, call, status>>

Call == [blk : Block, data : Data, done : BOOLEAN]

TypeOK ==
    /\ content \in [Block -> Data]
    /\ undo \in [blk : Block, data : Data] \cup {None}
    /\ call \in Call \cup {None}
    /\ status \in {"none", "written", "failed"}

Init ==
    /\ content \in [Block -> Data]
    /\ undo = None /\ call = None /\ status = "none"

Begin(b, d) ==
    /\ call = None
    /\ call' = [blk |-> b, data |-> d, done |-> FALSE]
    /\ status' = "none"
    /\ UNCHANGED <<content, undo>>

\* The one moment at which the block changes.
Commit ==
    /\ call # None /\ ~call.done
    /\ content' = [content EXCEPT ![call.blk] = call.data]
    /\ undo' \in {None, [blk |-> call.blk, data |-> content[call.blk]]}
    /\ call' = [call EXCEPT !.done = TRUE]
    /\ UNCHANGED status

Return ==
    /\ call # None /\ call' = None
    /\ \/ status' = "failed"
       \/ status' = "written" /\ call.done
    /\ UNCHANGED <<content, undo>>

PowerFails ==
    /\ call' = None /\ status' = "none"
    /\ UNCHANGED <<content, undo>>

\* Nothing to fall back to any more, or only to what the block already holds.
Settle ==
    /\ \/ undo' = None
       \/ \E b \in Block : undo' = [blk |-> b, data |-> content[b]]
    /\ UNCHANGED <<content, call, status>>

\* A caller gives up a write that failed half-way.
GiveUp ==
    /\ call = None /\ undo # None
    /\ content' = [content EXCEPT ![undo.blk] = undo.data]
    /\ undo' = None
    /\ UNCHANGED <<call, status>>

Next ==
    \/ \E b \in Block, d \in Data : Begin(b, d)
    \/ Commit \/ Return \/ PowerFails \/ Settle \/ GiveUp

Spec == Init /\ [][Next]_vars
===============================================================================
