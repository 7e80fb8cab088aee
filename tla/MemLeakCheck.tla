---------------------------- MODULE MemLeakCheck ----------------------------
(***************************************************************************)
(* The tracking allocator of UStonePkg/Library/MemLeakCheckLib             *)
(* (memleakcheck.c): every AllocatePool, malloc, ReallocatePool, realloc,  *)
(* FreePool and free of a debug build goes through it.  A tracked buffer   *)
(* lies between three structures with signatures and checksums and is on   *)
(* the list gMemListHead, which the library destructor walks to report     *)
(* leaks.                                                                  *)
(*                                                                         *)
(* The report is DEBUG output: it is seen in builds that set bit 1 of      *)
(* PcdDebugPropertyMask, as Nt32Pkg.dsc:259 (0x1f) and StdLib.dsc:39       *)
(* (0x0f) do.  With 0x0f a failing ASSERT prints and the code after it     *)
(* runs, as it does here; with 0x1f it is a breakpoint, and a build that   *)
(* stops there has prefixes of these behaviours.  Sizes and contents are   *)
(* abstracted; the pool and the C library (gBS->AllocatePool, StdLib       *)
(* malloc) may refuse any request.                                         *)
(*                                                                         *)
(* A call is a sequence of pending steps; the list writes of MdePkg        *)
(* LinkedList.c are one step each.  When Preempting, an event notification *)
(* function may call the library between any two of them: nothing in the   *)
(* library raises the TPL.                                                 *)
(*                                                                         *)
(* An operator whose name starts with "Bug" is a definition of the module  *)
(* with a plausible mistake in it; no specification uses it.               *)
(***************************************************************************)
EXTENDS Naturals, Sequences, FiniteSets, SequencesExt

CONSTANTS
    Buffer,         \* the addresses the pool can hand out
    ListHead,       \* gMemListHead
    NULL,           \* the null pointer
    Preempting      \* whether notification functions use the library

ASSUME MemAssumption ==
    /\ IsFiniteSet(Buffer)
    /\ ListHead \notin Buffer /\ NULL \notin Buffer
    /\ Preempting \in BOOLEAN

VARIABLES
    kind,       \* what the memory at an address is: free, a direct pool or C
                \* allocation, or a tracked one
    damage,     \* the first check that an out-of-bounds write makes fail
    nomsg,      \* MEMCHECK_FLAG_NOMSG as it was asked for (middle structure)
    hushed,     \* MEMCHECK_FLAG_NOMSG in the header, which the report reads
    fwd, bwd,   \* ForwardLink and BackLink of the list entries
    cut,        \* history: a stray write has hit the links of an entry
    held,       \* the buffers the program holds a pointer to
    calls,      \* the calls in progress, each the sequence of its steps to do
    report      \* what __memleak_deconstruct reported, NULL before it runs

vars == <<kind, damage, nomsg, hushed, fwd, bwd, cut, held, calls, report>>

Node == Buffer \cup {ListHead}
Kinds == {"free", "uefi", "c", "tracked"}

\* The checks in the order the free path makes them: the signature before the
\* buffer, the middle checksum, the header, the tail.
Checks == <<"up", "mid", "head", "tail", "none">>
CheckRank(d) == CHOOSE i \in DOMAIN Checks : Checks[i] = d

StepNames == {"link", "linkPrev", "linkLast", "unlinkNext", "unlinkPrev",
              "pool", "free", "FreePool", "return"}
Step(do, b) == [do |-> do, buf |-> b]

Track(b) == <<Step("link", b), Step("linkPrev", b), Step("linkLast", b)>>
Untrack(b) == <<Step("unlinkNext", b), Step("unlinkPrev", b)>>

\* What is_uefipool, is_cpool and is_mcpool find in front of a buffer.
Signature(b) == IF damage[b] = "up" THEN "unknown" ELSE kind[b]

TypeOK ==
    /\ kind \in [Buffer -> Kinds]
    /\ damage \in [Buffer -> ToSet(Checks)]
    /\ nomsg \in [Buffer -> BOOLEAN] /\ hushed \in [Buffer -> BOOLEAN]
    /\ fwd \in [Node -> Node] /\ bwd \in [Node -> Node] /\ cut \in BOOLEAN
    /\ held \in SUBSET Buffer
    /\ calls \in Seq(Seq([do : StepNames, buf : Buffer])) /\ Len(calls) <= 2
    /\ report \in (SUBSET Buffer) \cup {NULL}

Init ==
    /\ kind = [b \in Buffer |-> "free"]
    /\ damage = [b \in Buffer |-> "none"]
    /\ nomsg = [b \in Buffer |-> FALSE] /\ hushed = nomsg
    /\ fwd = [n \in Node |-> ListHead] /\ bwd = [n \in Node |-> ListHead]
    /\ cut = FALSE
    /\ held = {} /\ calls = <<>> /\ report = NULL

-----------------------------------------------------------------------------
(* Calls.                                                                  *)

\* The program calls when no call runs; a notification function may call in
\* the middle of one.
MayCall ==
    /\ report = NULL
    /\ \/ calls = <<>>
       \/ Preempting /\ Len(calls) = 1

Start(todo) == MayCall /\ calls' = Append(calls, todo)

\* The innermost call does its next step and goes on with "more" and the rest.
Do(do, b, more) ==
    /\ calls # <<>>
    /\ Last(calls) # <<>>
    /\ Head(Last(calls)) = Step(do, b)
    /\ LET rest == more \o Tail(Last(calls))
       IN calls' = IF rest = <<>> THEN Front(calls)
                                  ELSE Append(Front(calls), rest)

\* fill_data: the signatures, checksums and flags of a new tracked buffer.
FillData(b, quiet) ==
    /\ kind' = [kind EXCEPT ![b] = "tracked"]
    /\ damage' = [damage EXCEPT ![b] = "none"]
    /\ nomsg' = [nomsg EXCEPT ![b] = quiet]
    /\ hushed' = [hushed EXCEPT ![b] = quiet]

\* MemCheck_AllocatePool, AllocateZeroPool, AllocateCopyPool, malloc and
\* calloc without MEMCHECK_FLAG_DIRECT, and a reallocation of NULL.
AllocTracked(b, quiet) ==
    /\ kind[b] = "free"
    /\ FillData(b, quiet)
    /\ Start(Track(b) \o <<Step("return", b)>>)
    /\ UNCHANGED <<fwd, bwd, cut, held, report>>

\* The same with MEMCHECK_FLAG_DIRECT: straight from the pool or C library.
AllocDirect(b, k) ==
    /\ MayCall
    /\ kind[b] = "free"
    /\ kind' = [kind EXCEPT ![b] = k]
    /\ damage' = [damage EXCEPT ![b] = "none"]
    /\ held' = held \cup {b}
    /\ UNCHANGED <<nomsg, hushed, fwd, bwd, cut, calls, report>>

\* MemCheck_free and MemCheck_FreePool; either way the program gives up its
\* pointer.
Free(b, do) ==
    /\ b \in held
    /\ held' = held \ {b}
    /\ Start(<<Step(do, b)>>)
    /\ UNCHANGED <<kind, damage, nomsg, hushed, fwd, bwd, cut, report>>

\* The buffer a reallocation gets, if the request is not refused.
Request(n, o) == n \in Buffer /\ kind[n] = "free" /\ n # o

\* Reallocation of a direct buffer: ReallocatePool or realloc does it all.
ReallocDirect(o, n) ==
    /\ MayCall
    /\ o \in held
    /\ Signature(o) \in {"uefi", "c"}
    /\ Request(n, o)
    /\ kind' = [kind EXCEPT ![n] = kind[o], ![o] = "free"]
    /\ damage' = [damage EXCEPT ![n] = "none"]
    /\ held' = (held \ {o}) \cup {n}
    /\ UNCHANGED <<nomsg, hushed, fwd, bwd, cut, calls, report>>

\* Variant: the flags of the old buffer are forgotten.
BugReallocForgetsFlags(o, n) ==
    /\ o \in held
    /\ Signature(o) = "tracked"
    /\ held' = held \ {o}
    /\ Request(n, o)
    /\ FillData(n, FALSE)
    /\ Start(Track(n) \o <<Step("FreePool", o), Step("return", n)>>)
    /\ UNCHANGED <<fwd, bwd, cut, report>>

\* Where no intact middle structure precedes the buffer: it is damaged, or a C
\* buffer is given to ReallocatePool.
StrayFlags(o) == Signature(o) = "c" \/ damage[o] \in {"up", "mid"}

\* MemCheck_ReallocatePool and MemCheck_realloc of a tracked buffer: the new
\* buffer takes the flags of the old one, from a middle structure that is
\* used even when its checksum fails; then the old buffer is freed.
ReallocTracked(o, n) ==
    /\ o \in held
    /\ Signature(o) # "uefi"
    /\ held' = held \ {o}
    /\ Request(n, o)
    /\ \/ /\ \E quiet \in IF StrayFlags(o) THEN BOOLEAN ELSE {nomsg[o]} :
                FillData(n, quiet)
          /\ Start(Track(n) \o <<Step("FreePool", o), Step("return", n)>>)
       \/ /\ StrayFlags(o)                \* and they say DIRECT
          /\ kind' = [kind EXCEPT ![n] = "uefi"]
          /\ damage' = [damage EXCEPT ![n] = "none"]
          /\ Start(<<Step("FreePool", o), Step("return", n)>>)
          /\ UNCHANGED <<nomsg, hushed>>
    /\ UNCHANGED <<fwd, bwd, cut, report>>

\* The pool refuses, or NewSize is 0: NULL is returned and the old buffer
\* stays the caller's.
ReallocRefused(o) ==
    /\ MayCall
    /\ o \in held
    /\ UNCHANGED vars

-----------------------------------------------------------------------------
(* Steps.                                                                  *)

\* InsertTailList: the entry's own links,
Link(b) ==
    /\ Do("link", b, <<>>)
    /\ fwd' = [fwd EXCEPT ![b] = ListHead]
    /\ bwd' = [bwd EXCEPT ![b] = bwd[ListHead]]
    /\ UNCHANGED <<kind, damage, nomsg, hushed, cut, held, report>>

\* the entry before it,
LinkPrev(b) ==
    /\ Do("linkPrev", b, <<>>)
    /\ fwd' = [fwd EXCEPT ![bwd[b]] = b]
    /\ UNCHANGED <<kind, damage, nomsg, hushed, bwd, cut, held, report>>

\* and the head.
LinkLast(b) ==
    /\ Do("linkLast", b, <<>>)
    /\ bwd' = [bwd EXCEPT ![ListHead] = b]
    /\ UNCHANGED <<kind, damage, nomsg, hushed, fwd, cut, held, report>>

\* Variants: the entry of a damaged header is unlinked too; the tail is not
\* checked; the block is given back before it is off the list.
BugFreeWith(b, do, unlinked, returned, order(_)) ==
    LET direct == Signature(b) = "uefi" \/ (Signature(b) = "c" /\ do = "free")
        untrack == Signature(b) = "tracked" /\ damage[b] \in unlinked
    IN /\ Do(do, b, IF ~untrack THEN <<>>
                    ELSE IF damage[b] \in returned THEN order(b)
                    ELSE Untrack(b))
       /\ kind' = IF direct THEN [kind EXCEPT ![b] = "free"] ELSE kind
       /\ UNCHANGED <<damage, nomsg, hushed, fwd, bwd, cut, held, report>>

BugUntrackThenPool(b) == Append(Untrack(b), Step("pool", b))
BugPoolThenUntrack(b) == <<Step("pool", b)>> \o Untrack(b)

BugFreeUnlinksFirst(b, do) ==
    BugFreeWith(b, do, {"head", "tail", "none"}, {"none"}, BugUntrackThenPool)
BugFreeReleasesFirst(b, do) ==
    BugFreeWith(b, do, {"tail", "none"}, {"none"}, BugPoolThenUntrack)

\* MemCheck_FreePool and MemCheck_free up to __myfree, and its checks.  Direct
\* memory is released, except C memory given to FreePool.  A tracked buffer is
\* refused where the middle structure or the header is damaged, taken off the
\* list where only its tail is, and otherwise also given back.
BeginFree(b, do) ==
    LET direct == Signature(b) = "uefi" \/ (Signature(b) = "c" /\ do = "free")
        untrack == Signature(b) = "tracked" /\ damage[b] \in {"tail", "none"}
    IN /\ Do(do, b, IF ~untrack THEN <<>>
                    ELSE IF damage[b] = "tail" THEN Untrack(b)
                    ELSE Append(Untrack(b), Step("pool", b)))
       /\ kind' = IF direct THEN [kind EXCEPT ![b] = "free"] ELSE kind
       /\ UNCHANGED <<damage, nomsg, hushed, fwd, bwd, cut, held, report>>

\* RemoveEntryList.
UnlinkNext(b) ==
    /\ Do("unlinkNext", b, <<>>)
    /\ bwd' = [bwd EXCEPT ![fwd[b]] = bwd[b]]
    /\ UNCHANGED <<kind, damage, nomsg, hushed, fwd, cut, held, report>>

UnlinkPrev(b) ==
    /\ Do("unlinkPrev", b, <<>>)
    /\ fwd' = [fwd EXCEPT ![bwd[b]] = fwd[b]]
    /\ UNCHANGED <<kind, damage, nomsg, hushed, bwd, cut, held, report>>

\* FreePool of the whole block, whose flags nobody reads again.
ToPool(b) ==
    /\ Do("pool", b, <<>>)
    /\ kind' = [kind EXCEPT ![b] = "free"]
    /\ nomsg' = [nomsg EXCEPT ![b] = FALSE] /\ hushed' = [hushed EXCEPT ![b] = FALSE]
    /\ UNCHANGED <<damage, fwd, bwd, cut, held, report>>

\* The call returns the buffer to its caller.
Return(b) ==
    /\ Do("return", b, <<>>)
    /\ held' = held \cup {b}
    /\ UNCHANGED <<kind, damage, nomsg, hushed, fwd, bwd, cut, report>>

-----------------------------------------------------------------------------
(* The program's stray writes and its end.                                 *)

\* The entries of the list between calls: the buffers in use, and those that a
\* free refused to touch.
Kept == {b \in Buffer : kind[b] = "tracked" /\ (b \in held \/ damage[b] # "tail")}

\* A write outside the data of a buffer damages a structure around one in use:
\* the signature, the middle structure, the tail;
Damage(b, part) ==
    /\ MayCall
    /\ b \in held
    /\ kind[b] # "tracked" => part = "up"
    /\ CheckRank(part) < CheckRank(damage[b])
    /\ damage' = [damage EXCEPT ![b] = part]
    /\ UNCHANGED <<kind, nomsg, hushed, fwd, bwd, cut, held, calls, report>>

\* the header, flags included, from total_size to its end, where the checksum is;
DamageHeader(b, flag) ==
    /\ MayCall
    /\ b \in Kept
    /\ damage' = [damage EXCEPT ![b] =
                     IF CheckRank("head") < CheckRank(damage[b]) THEN "head" ELSE damage[b]]
    /\ hushed' = [hushed EXCEPT ![b] = flag]
    /\ UNCHANGED <<kind, nomsg, fwd, bwd, cut, held, calls, report>>

\* or its list entry, which no check covers.
DamageLinks(b, next, prev) ==
    /\ MayCall
    /\ b \in Kept
    /\ fwd' = [fwd EXCEPT ![b] = next] /\ bwd' = [bwd EXCEPT ![b] = prev]
    /\ cut' = TRUE
    /\ UNCHANGED <<kind, damage, nomsg, hushed, held, calls, report>>

\* The entries a walk along ForwardLink meets before it is back at the head:
\* they are in every set that holds the first entry and, with each entry, the
\* one it links to.
Walks(S) == /\ fwd[ListHead] \in S \cup {ListHead}
            /\ \A n \in S : fwd[n] \in S \cup {ListHead}
Listed == {b \in Buffer : \A S \in SUBSET Buffer : Walks(S) => b \in S}

\* Variant: the walk tests for the head after the body of the loop.
BugDeconstruct ==
    /\ report = NULL
    /\ calls = <<>>
    /\ report' = {n \in Listed : ~hushed[n]} \cup {ListHead}
    /\ UNCHANGED <<kind, damage, nomsg, hushed, fwd, bwd, cut, held, calls>>

\* __memleak_deconstruct, the library destructor, when the image ends.
Deconstruct ==
    /\ report = NULL
    /\ calls = <<>>
    /\ report' = {b \in Listed : ~hushed[b]}
    /\ UNCHANGED <<kind, damage, nomsg, hushed, fwd, bwd, cut, held, calls>>

Next ==
    \/ \E b \in Buffer :
          \/ \E quiet \in BOOLEAN : AllocTracked(b, quiet)
          \/ \E k \in {"uefi", "c"} : AllocDirect(b, k)
          \/ \E do \in {"free", "FreePool"} : Free(b, do) \/ BeginFree(b, do)
          \/ \E n \in Buffer : ReallocDirect(b, n) \/ ReallocTracked(b, n)
          \/ ReallocRefused(b)
          \/ Link(b) \/ LinkPrev(b) \/ LinkLast(b)
          \/ UnlinkNext(b) \/ UnlinkPrev(b) \/ ToPool(b) \/ Return(b)
          \/ \E part \in ToSet(Checks) \ {"head"} : Damage(b, part)
          \/ \E flag \in BOOLEAN : DamageHeader(b, flag)
          \/ \E next, prev \in Node : DamageLinks(b, next, prev)
    \/ Deconstruct

Spec == Init /\ [][Next]_vars

-----------------------------------------------------------------------------
(* Properties.  They are about histories in which no stray write has hit   *)
(* the links of an entry: nothing checks them, and a list with wrong links *)
(* has no promise to keep.                                                 *)

\* The leak report names exactly the tracked buffers that were never given
\* back and whose messages are wanted, whatever else of the structures around
\* them was overwritten; only where a stray write has changed the flag in the
\* header may a buffer be named or missing for it.  A buffer whose free found
\* only the tail damaged was announced then and is neither listed nor given back.
ReportIsExact ==
    report # NULL /\ ~cut =>
        /\ report \subseteq Kept
        /\ \A b \in Kept : hushed[b] = nomsg[b] => (b \in report <=> ~nomsg[b])

\* At every moment, also half way through an insertion or a removal, a walk of
\* the list (mem_checkoverride, the report) meets only live tracked buffers:
\* never memory given back to the pool or handed out again untracked.
ListedIsTracked == ~cut => \A b \in Listed : kind[b] = "tracked"

\* While a reallocation of a tracked buffer with an intact middle structure is
\* in progress the new buffer is tracked with the flags of the old one, and
\* the old one is not given back before the new one is on the list.
ReallocKeepsTracking ==
    ~cut => \A i \in DOMAIN calls : \A j, k \in DOMAIN calls[i] :
        LET old == calls[i][j]
            new == calls[i][k]
        IN /\ old.do = "FreePool" /\ new.do = "return"
           /\ kind[old.buf] = "tracked" /\ damage[old.buf] \notin {"up", "mid"}
           => /\ kind[new.buf] = "tracked" /\ nomsg[new.buf] = nomsg[old.buf]
              /\ hushed[new.buf] = nomsg[old.buf]
              /\ j = 1 => {old.buf, new.buf} \subseteq Listed

=============================================================================
