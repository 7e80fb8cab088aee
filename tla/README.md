# Formal models of the UStone UEFI tree

The repository is an EDK II tree (UDK 2016) with one package of its own,
`UStonePkg`, "UEFI USTONE Library": memory leak and override detection, C++
runtime support, reference counting, an STL and Lua for UEFI applications.
This directory holds TLA+ models of the parts whose correctness depends on
order, interleaving and failure, TLC configurations that check them on small
instances, and TLAPS proofs, for every instance, about each of the seven parts
that are modelled.

## 1. Inventory

| Component | State it keeps | Operations | Talks to | Hard behaviour | What makes it correct | Modelled |
|---|---|---|---|---|---|---|
| Events, TPL, timers (`MdeModulePkg/Core/Dxe/Event`) | `gEfiCurrentTpl`, `gEventPending`, `gEventQueue[32]`, `gEventSignalQueue`, `SignalCount` of each event, `mEfiTimerList`, `mEfiSystemTime`, two locks | CreateEvent, SignalEvent (with groups), CheckEvent, WaitForEvent, CloseEvent, SetTimer, RaiseTPL, RestoreTPL, the timer tick | notification functions (callbacks), the timer driver (interrupt), every other DXE component | ticks preempt any code below HIGH_LEVEL, and what they dispatch runs on top of it; callbacks call back | no signal is lost or delivered twice, notifications nest strictly upwards, lists stay consistent, freed events are unlinked, waits return | `DxeEvent` |
| Memory leak detection (`UStonePkg/Library/MemLeakCheckLib`) | `gMemListHead`; header, middle and tail structures of each tracked buffer | AllocatePool, AllocateZeroPool, AllocateCopyPool, ReallocatePool, FreePool, malloc, calloc, realloc, free, mem_checkoverride, report at exit | the pool, StdLib's malloc, `operator new` | failed reallocation, stray writes, address reuse, callbacks that allocate | the report is exact, the list reaches live tracked buffers only, damaged buffers do not return to the pool | `MemLeakCheck` |
| Reference counting (`UStonePkg/Include/utils`) | `m_ptr` of each `sp<T>`, `mCount` of each object | construct, copy, assign, clear, destroy | destructors of client classes | destructors re-enter, counts are read and written separately | counts are exact, objects are deleted once, when the last pointer goes | `StrongPointer` |
| C and C++ runtime (`CrtSupportLib`, `CppBaseLib`) | two "done" flags, `g_atexit_list` | global_crt_init, global_crt_uninit, initial_objs_cpp, atexit_cpp, destroy_objs_cpp, operator new and delete | static constructors and destructors, the pool | initializers fail or call back, destructors register and exit | tables run once in order, objects die once, newest first | `CppRuntime` |
| Fault tolerant write (`FaultTolerantWriteDxe`) | write headers and records in the working block, the spare block | Allocate, Write, Restart, Abort, reclaim, recovery | flash (FVB), the variable driver | power may fail at every write and erase | a block holds its old or its new contents; the queue survives; recovery can be interrupted | `FaultTolerantWrite` |
| Variable store (`Variable/RuntimeDxe`) | variable headers with state bits, last-offset counters, cache | Get, GetNext, Set, reclaim | FTW, flash | power loss between two state bits | a variable reads as set or as before; the memory copy is the flash; writes go to erased flash | `VariableStore` |
| Handle and protocol database (`Core/Dxe/Hand`) | handles, protocol entries and interfaces, open lists, registration lists | install, reinstall, uninstall, open, close, notify | drivers' Start and Stop, events | the lock is let go for drivers' code and notification functions, which change the database meanwhile | the two lists of an interface agree, registrations locate each interface once and are told of it, an interface has one driver | `HandleDatabase` |
| Dispatcher (`Core/Dxe/Dispatcher`) | discovered and scheduled queues | discover, evaluate, dispatch | firmware volumes, drivers | fixpoint | each driver starts once, after its dependencies | not planned yet |
| Pool and page allocator | memory map | allocate, free | everything | address arithmetic | regions do not overlap | external here |
| SMM rendezvous (`PiSmmCpuDxeSmm`) | arrival counters, busy locks | the barrier of processors | all processors | true parallelism | all arrive, all leave | candidate |
| FAT, network stack, StdLib, AppPkg, BaseTools, Lua, STL | | | | | | out of scope: vendored, protocol stacks or tools |

The first four modelled components interact through memory and preemption: the event
core runs notification functions in the middle of any code below their level,
so the allocator's list and the reference counts meet interleavings nobody
wrote down; `operator new` of the C++ runtime is a call of the tracking
allocator. Each module models the callers above it and the services below it
as an environment that may do anything its contract allows.

The two persistent stores interact through one call: reclaim of the variable
store hands the whole new store to `FtwWrite`. `AtomicBlockWrite` is the promise
between them. `FaultTolerantWrite` is proved to implement it; `VariableStore` uses
it (that write happens in one step, not at all, or, when it fails behind
SpareComplete, at the next boot) and is proved to implement it
again, one level up, with variables for blocks.

`PROJECT.json` lists the hazards at the lines where they bite, and the
properties for each.

## 2. Plan

1. **Done**: `DxeEvent` with `NotifyScheduler` (abstract) and `DxeEventProofs`.
2. **Done**: `MemLeakCheck`, `StrongPointer`, `CppRuntime`.
3. **Done**: `AtomicBlockWrite` (abstract), `FaultTolerantWrite`, and
   `FaultTolerantWriteProofs`, which proves the refinement.
4. **Done**: `VariableStore`, which implements `AtomicBlockWrite` for variables.
5. **Done**: `HandleDatabase`.
6. **Done**: proofs about `DxeEvent` (`DxeEventProofs`, `DxeEventSignalProofs`),
   `HandleDatabase`, `CppRuntime` and `VariableStore`: every safety property their
   runs check, and both refinements.
7. **Done**: `MemLeakCheckProofs` (the list after each of its writes) and
   `StrongPointerProofs` (the counts in the middle of every operation).

## 3. DxeEvent

### State and actions

There is one processor and no context switch: a tick's handler and what it
dispatches run on top of the interrupted code. So the control state of the
whole core is one `stack` of frames (`pc`, event, level, local value), whose top
runs. A step of the top frame is an action named after the piece of the C
function it stands for (`CoreSignalEvent`, `DispatchTake`, `TimerInsert`,
`RestorePick`, `CloseUnlink` and so on). Code under `gEventQueueLock` runs with interrupts
disabled and is one step. `mEfiTimerLock` only raises to HIGH_LEVEL - 1, so
ticks do arrive inside `CoreSetTimer` and `CoreCheckTimers`: those are split at
every point a tick can see. `CoreTimerTick` is an action of its own, enabled
where the TPL is below HIGH_LEVEL, and pushes frames. Client code (the boot flow
and notification functions) may make any call the model has in its population.

| Variable | Code |
|---|---|
| `tpl`, `pending` | `gEfiCurrentTpl`, `gEventPending` (as the set of its bits) |
| `queue[p]`, `signalq` | `gEventQueue[p]`, `gEventSignalQueue` |
| `state`, `count` | whether the IEVENT is open or freed, `SignalCount` |
| `timers`, `trigger`, `period`, `sysTime` | `mEfiTimerList`, `TriggerTime`, `Period`, `mEfiSystemTime` |
| `stack` | all calls in progress |

What the model assumes of clients: they balance RaiseTPL and RestoreTPL, call
services at levels where those are allowed, and touch no event they have
closed or are closing. They also close no event that a call in progress is about
(`InCall`), and none whose notification their own TPL may have preempted
(`Top.val <= NotifyTpl[e]`). CoreCloseEvent (Event.c:719-781) checks neither, and
CoreSignalEvent (Event.c:564) and the dispatcher (Event.c:194) would go on with the
freed structure: the model shows nothing about such closes. `FreedIsUnlinked` rests
on these guards too. Two constants select readings of the code: `ReadOnce` says whether
the compiler loads the (non-volatile) `gEventPending` once per round of the
loop in `CoreRestoreTpl`, and `RearmWhileClosing` whether a callback may re-arm
its own timer while the event is being closed. With `ReadOnce = FALSE` TLC finds
`NotificationsNestUpwards` violated: a tick between the loads of Tpl.c:126 and
127 dispatches the level the first one saw, and `HighBitSet64 (0)` is stored as
the TPL. Every run has `ReadOnce = TRUE`.

### Runs

| Run | Question | Bounds |
|---|---|---|
| `event_core` | do signals, groups, timers, close and TPL changes keep queues, nesting, timer list and structures consistent; is the whole a `NotifyScheduler`? | six events (a timer, two members of a group of which one is a timer, an event created by the client, the idle event, the check event), 3 client calls, time up to 2, nesting up to 6 frames |
| `event_wait` | under fairness: are queued notifications dispatched, do due timers fire, does a wait return? | six events, 2 calls, nesting up to 5 |
| `event_late_dispatch` | the promise of Tpl.c:93, refuted: a tick between loop test and store is left undispatched | three events |
| `event_close_rearmed` | the promise of Event.c:739, refuted: a callback re-arms the timer that is being closed | three events |

Why the bounds suffice: two notification levels below TPL_NOTIFY's neighbours
and the check event's level are all the levels that are treated differently;
depth 6 lets a tick preempt a dispatcher that preempted a locked section that a
client entered; three calls are a signal, a re-arm and a close in every
combination, which is what the hazards need. The proofs below remove the bounds
for the central invariants.

Fairness: the top frame goes on (`WF` on continuing: the processor runs);
below the depth bound, continuing at each depth is strongly fair, because ticks
keep interrupting but return; and ticks keep coming (`SF` on the tick, since
the level is lowered again and again). Client code need not call anything, but a
notification function returns. Nothing is assumed of which event is handled.

### Proofs

`DxeEventProofs`: `IInv` is inductive and has three parts.
 - `DataOK`: the types of every variable and of every frame by its `pc`.
 - `QueuesOK`: a level with a queued notification is pending.
 - `Fits(stack, tpl)`: each frame fits the one below it. Levels never decrease
   upwards; dispatchers strictly increase; between the two lines of
   `CoreRestoreTpl` the picked level lies above the level being restored; the
   TPL is at least the level of the top frame; a notification frame sits on the
   dispatcher that called it.

The invariants that the runs check are not inductive alone: that a tick cannot
start a second notification at the interrupted one's level follows from the
TPL, and that the TPL is right after a return follows from the levels saved in
the frames below, hence `Fits`. One lemma per function of the core shows its
steps preserve `IInv`; `NextInv` combines them. Each of the following rests on
`IInv`, and each adds what it needs:

| Invariant (module) | What it adds | Gives |
|---|---|---|
| `Nested` (`DxeEventProofs`) | which frame may sit on which, at which exact TPL; the lock's section has no frame of the lock above it | `LevelsRestored` (`TplIsRestored`), `OneTimerLockHolder` (`TimerLockNotReentered`) |
| `QueuesHold` (`DxeEventProofs`) | a queue holds events of its own level, each once | `EventsAreScheduled` (`ImplementsScheduler`), `SignalInv` |
| `SignalInv` (`DxeEventSignalProofs`) | a walk of a group is on top of the stack; what is on a list or in a frame was created | `SignalsAreKept` (`SignalNotLost`) |
| `TimersOK` (`DxeEventSignalProofs`) | a call that is to insert a timer does not find it on the list | `TimersStaySorted` (`TimersSorted`) |
| `CloseInv` (`DxeEventSignalProofs`) | what a frame below a closing one still uses; a cancel comes before the event is freed | `FreedStaysUnlinked` (`FreedIsUnlinked`) |

`EventsAreScheduled` maps a step to a step of `NotifyScheduler` or to none. The
abstract lines `owed` are the queues: at each level events are notified in the order of
their last signals. Which of two levels is served first is not promised, since
`event_late_dispatch` shows a dispatcher going on while a higher level waits. The
abstract `running` is read off the stack: `Shown` says that at each level
the event running is the one of the only notifying frame of that level, which
is where `NotificationsNestUpwards` is used.

Hypotheses. `TypeCorrect`, `QueuedIsFound` (`QueuedIsPending`) and `SignalsAreKept`
have none. `NotificationsNest`, and all that needs the nesting, have `ReadOnce`:
with two loads of `gEventPending` they are false, as said above. `FreedStaysUnlinked`
has `~RearmWhileClosing` as well, because `event_close_rearmed` refutes it without. All hold for every population, every bound and
every trigger time that the named assumptions of `DxeEvent` admit: the two events
the core creates for itself exist from the start, levels are those that
CoreCreateEventInternal accepts. Beyond those there are the guards on clients above.

Only model-checked: the liveness properties (`QueuedIsDispatched`, `TimerFires`,
`WaitReturns`); TLAPS proves neither liveness under fairness nor ENABLED.

## 4. MemLeakCheck

Addresses the pool hands out are model values. `kind` says what an address is:
free, a direct pool or C allocation, or tracked. The three structures around a
buffer are abstracted to `damage`, the first of the checks, in the order the free
path makes them, that fails: the signature before the buffer ("up"), the middle
checksum, the header, the tail. `fwd` and `bwd` are the links of the entries, kept
in the memory of the buffer and so surviving a free. `nomsg` is the flag in the
middle structure, `hushed` the one in the header, which the report reads. A call is
a sequence of steps still to do, and each list write of `LinkedList.c` that another
call can tell apart is a step. The pool may refuse any request. The report is the
last action: the image is unloaded.

Builds. The report is DEBUG output, so it appears where bit 1 of
`PcdDebugPropertyMask` is set: 0x0f in StdLib.dsc:39, 0x1f in Nt32Pkg.dsc:259. With
0x0f a failing ASSERT prints and the code after it runs, as in the model, including
the reallocation that goes on with flags from a damaged structure. With 0x1f
it is a breakpoint; a build that stops there has prefixes of the modelled
behaviours. With mask 0 nothing is printed and there is no report to speak of.

Stray writes are three actions: `Damage` (signature, middle structure, tail),
`DamageHeader` (what the header's checksum covers, and so its flags), and
`DamageLinks`: the list entry at the start of the header (memleakcheck.c:68), which no
check covers. The last sets `cut`, and the properties speak of histories without it:
a list with foreign links is followed by the next insertion, removal or walk wherever
they lead. For the flags, `ReportIsExact` exempts a buffer whose header flag was
overwritten with the other value. Not modelled are a write into `gMemListHead`
itself, and a write that leaves the checksum it falls under right.

`mem_tracking` (three addresses, calls one at a time, these stray writes, 0.89
million states; the constraint `Explored` does not follow histories after `cut`)
checks that the report names exactly what was not given back, that a walk of
the list meets live tracked buffers only at every moment, and that a reallocation
keeps the old buffer until the new one is listed with the same flags. Three entries are what
insertion and removal can tell apart: first, last, and between.
`mem_preempted` lets a notification function call the library between two
steps: a leaked buffer is missing from the report. README.md's "memory
leak/override detect support" holds for images whose notification functions
do not allocate.

The walk is stated without counting its steps: `Listed` is what every set holds
that has the first entry in it and, with each entry, the one it links to.

Not modelled: sizes, contents (so neither the overflow of `Num*Size` nor the
missing zero fill of `MemCheck_calloc`), and what is printed besides the report.

### Proofs (`MemLeakCheckProofs`)

`ListedIsTracked` does not say what the next list write will do, so it is not
inductive. `IInv` adds to the types
 - `Stage`: which step the call in progress has reached, with one disjunct for each
   state between two list writes. It names the buffers that form the list at that
   moment and the writes still to be done;
 - `Ring(fwd, N)`: the entries `N` and the head form one cycle, as the least set
   closed under the links; `Back(fwd, bwd, N)`: the links back are its inverse.
   `AtLinkLast` and `AtUnlinkPrev` state them for the links as the next write
   will leave them;
 - the report is the set of kept buffers whose messages are wanted, once there is
   one.

`Kept`, the list between calls, is the buffers in use and those that a free refused
to touch because of their damage. `RingAdd` and `RingRemove` are the two facts
about links that `LinkInsert` and `LinkRemove` rest on: a ring with an entry put in
behind the last one, or taken out, is a ring.

`TypeCorrect` has no hypothesis. `Invariance`, `ReportNamesLeaks` (`ReportIsExact`),
`WalkMeetsTracked` (`ListedIsTracked`) and `ReallocKeeps` (`ReallocKeepsTracking`)
have `~Preempting`: calls come one at a time. What is invariant is `LinkedInv`: the types, and
`cut` or `IInv`; the properties have `~cut` in their statement. `mem_preempted` refutes
`ReportIsExact` without it; whether the other two properties could hold then is
not examined.

## 5. StrongPointer

Each object has one `sp` member; the program has two pointers. `todo` is the
sequence of steps in progress, innermost first: a destructor's steps go in front
of the rest of the assignment that caused it, and so do those of a notification
function. `++mCount` and `mCount--` are a read and a write. The header of the
module lists what the classes require of their users. Without these clauses TLC
finds double deletions and writes into freed objects: for example, a
notification function that copies the pointer being released takes a dying
object from zero to one and back, and so deletes it again.

`refcount` (three objects, two pointers: chains, cycles, lists popped with
`p = p->next`, self-assignment) checks that counts equal the number of pointers
between operations, that objects are deleted as soon as nothing points to them, and
that pointers not being modified lead to live objects at every moment. Objects in a cycle of
members stay allocated; reference counting does not promise otherwise. What a
pointer leads to (`Chain`) is the least set that holds its object and, with each
object, what its member points to.

### Proofs (`StrongPointerProofs`)

Exactness of the counts holds between operations only, and an operation may be
interrupted by destructors and they by others, so the invariant must hold in the
middle of all of them. `IInv` says that the steps in progress are
 - a stage of one operation: the new object is to be counted (`AtInc`), the old one
   let go of (`AtRelease`), counted down (`AtDec`), deleted (`AtDelete`), its
   destructor run (`AtDestruct`), or none of these (`AtRest`);
 - in front of the operations it interrupted (`Pattern`): pointers still to be
   written, and objects whose member is still to be released before their memory;
 - possibly with a notification function's copy on top (`Copying`), which puts back
   every count before it resumes.

At each stage `Mid` relates the references to the counts:
 - `Counted`: the count of a live object is the pointers that hold it, the
   interrupted writes that will point to it, plus or minus the step in progress;
 - `Needed` and `Unneeded`: a live object without any of these is the one about to be
   deleted, and conversely. Together with `Counted`, a count of one at a
   decrement means that nothing else refers to the object;
 - `Behind`, `Targets`, `OnChains`, `Doomed`, `Held`: where the interrupted writes and
   destructions may point, at live objects or not;
 - `Spent` and `Single`: a dying object is counted 0, or -1 when its destructor
   cleared the one pointer whose release runs it.

The last is what makes `Mid` more than an equation of counts. A destructor may clear
the pointer that is being released: `mCount` is then decremented below zero, and
only because the test is for the value 1 before the decrement is the object not deleted
twice. Each step of an operation has its lemma (`CountUp`, `LetGo`, `CountDown`, `Destroy`, `LetGoMember`,
`FreeIt`, `SetIt`, `Begin`, `Create`), stated about `Mid` without the variables of the specification.

`TypeCorrect`, `CountsAreExact` (`CountIsExact`), `UnreferencedIsGone`
(`UnreferencedIsDeleted`) and `PointersAreSafe` (`StablePointsToLive`) follow for any
number of objects and pointers from `PointerAssumption` alone (finite, disjoint
sets; `NULL` in neither). What the classes require of their users is in the
guards of the model, not in hypotheses of the theorems.

## 6. CppRuntime

The walks of the tables, `destroy_objs_cpp` and the program's own code are calls
on a stack; the program's code may construct function-local statics, call
`global_crt_init` again, and exit. Registration may find no memory. The entry
point that calls these functions is outside `UStonePkg`; the model's one gives
up when initialization fails. `cpp_runtime` (two entries per initializer table,
two static and two local objects: a destructor that constructs an object whose
destructor constructs another) checks order and uniqueness of the table
entries, that the list is the live registered objects, newest first,
that nothing registered outlives `destroy_objs_cpp`, and,
under fairness, that the program ends. Fairness: the runtime goes on (`WF`), and
each piece of the program's code eventually returns although calling the
runtime disables its return for a while (`SF`); a program that calls exit for
ever is excluded by that.

### Proofs (`CppRuntimeProofs`)

`IInv` is inductive; its parts are
 - `StackOK`: tables are walked and objects initialized by the entry point alone,
   at the bottom of the stack, and only the entry a walk has called is on top of it;
 - `PhaseOK`: what the entry point is doing, against the two "done" flags, the
   bottom of the stack, and a failed initialization;
 - `TablesOK`: of each table the entries up to some point ran once and the others
   never; the point is where the walk in progress is;
 - `LivesOK`: an object under construction or destruction belongs to exactly one
   call, and static objects not yet reached are unborn;
 - `ListsOK`: the list is the live registered objects in the reverse order of
   their construction, and is empty when `destroy_objs_cpp` has returned.

`TablesRunOnceInOrder` needs `StackOK` and `PhaseOK` because an entry may call
`global_crt_init` again, which returns at once only because of the flag set
before the walk. `NothingLeftAlive` needs the last two: an object that a
destructor constructs puts itself at the head of the list that the loop is
emptying. The theorems are `Invariance`, `TypeCorrect`, `TablesInOrder`, `NewestFirst`
and `AllDestroyed`, for tables and objects of any number. `ProgramEnds` is liveness
and stays with TLC.

## 7. FaultTolerantWrite

### State and actions

Flash has three kinds of blocks: `work` (the working block: whether its header
is valid, and the write queue in it), `spare`, and the `target` blocks. Every
flash operation (an erase, a write of a block, a header or a record, a state bit)
is one step, and `PowerFails` may come before and after each. An erase and the
fill after it are two steps with `Torn` between them, so a block that is half
written reads as neither contents.

The queue is kept as the driver reads it back: `used` units of completed
headers, then the last header with `n` records, `done` of them
DestinationComplete, the block and the SpareComplete bit of the next record, and
`dirty`: bytes of a header that power cut short. The driver's own pointers
(`FtwLastWriteHeader`, `FtwLastWriteRecord`) are read again from flash by
`WorkSpaceRefresh` at the start of each function, so the model needs no copies.

`pc` names the next flash operation and `op` the protocol function it is part of.
`w_` steps are FtwWrite, `r_` FtwWriteRecord and FlushSpareBlockToTargetBlock,
`a_`, `s_`, `x_`, `g_` Allocate, Restart, Abort and GetLastWrite, `c_`
FtwReclaimWorkSpace, `f_` FlushSpareBlockToWorkingBlock, `b_` InitFtwProtocol.
`PoolFails` makes a function return where AllocatePool gives nothing: always
before the function's first flash operation, which may be in the middle of its
caller's. `InitPoolFails` is the same inside InitFtwProtocol, which asserts that it
does not happen (FtwMisc.c:1260, 1307, 1344, 1367) and goes on: without the reclaim,
without the copy of the spare block, or with FtwAbort after an FtwRestart that did
nothing. `starved` remembers that it has happened. The code may then read
`FtwLastWriteRecord` as it was before the failed refresh, or NULL; the model takes
that for "no record".

A record that power cuts short is `WriteRecord` and then `PowerFails`: its block is
there or not, and its other fields are not read before SpareComplete is set. A
header that power cuts short is bytes behind the queue.

What the model assumes of callers, as guards:
 - `RecordIsFree`: a record left by a write that failed is used again for the same
   block only. The code does not check it; a second block number would be
   programmed over the first. FaultTolerantWrite.c:62 states the rule.
 - `Fits`: Allocate is not asked for a number of writes that is more than what
   is left behind a header but less than a full queue. There the code goes on
   with an `Offset` into the old queue after the reclaim; `WriteHeader` models
   it, the guard keeps callers away from it.
 - The driver of every target block is there when the protocol initializes.

And of flash: a header that was cut short does not read as allocated. The first
byte of a header holds HeaderAllocated and NumberOfWrites follows it
(SystemNvDataGuid.h:77-84); the driver writes both in one call of the flash driver,
has no checksum over them, and would step through the queue with whatever number it
finds.

### Runs

`ftw_power` (two blocks, two contents, headers of one and two records, a queue
of five units, any number of power failures, 0.37 million states): a queue of
five holds a two-record header and a one-record one, or two one-record ones, and
the next allocation reclaims, so every function runs into a reclaim. Two blocks
show a write to one surviving a write to the other; two contents are what "old
or new" can tell apart. The constraint `Explored` follows an initialization that
found no memory through any number of further boots, and not through the calls
between them.

| Property | What it says |
|---|---|
| `SpareBacksPending` | a write past SpareComplete has its data in the spare block, although reclaim borrows it |
| `WholeWhenReady` | no torn target and no half-written header when a call can come |
| `WorkSpaceSurvives` | the queue is never lost, wherever reclaim is cut short |
| `ImplementsAtomicWrite` | refinement of `AtomicBlockWrite` |
| `BootSettles` | initialization ends, or power fails again |

The four properties about flash (all but `TypeOK` and `BootSettles`) speak of
histories without `starved`; TLC refutes each of them without that exception. One
initialization that finds no memory to restart a write gives up a write whose
target is erased, or leaves the bytes of a torn header where the next one goes.

The refinement maps a block to what it would read as after recovery: the spare
block's data while a record says SpareComplete and not DestinationComplete, else
the block itself. The single moment at which `FtwWrite` takes effect is the
write of SpareComplete. `undo` is there because a write whose copy to the target
fails for want of memory stays pending with both contents on flash, and
FtwAbort gives it up.

Fairness: `WF` on the steps of a function in progress: one processor runs it to
its end while there is power. Power failures may go on for ever; `BootSettles`
says that each boot ends or is cut short.

### Proofs (`FaultTolerantWriteProofs`)

`IInv` is inductive. Beside the types its parts are
 - `GoodQueue`: an open header has its records inside the queue, a record with
   data names a block, nothing follows an open header;
 - `ReclaimInv`, `ReturnInv`: a reclaim always writes the erased queue, since
   what starts one has made sure that no header is open, and returns into the
   function that started it;
 - `WorkInv`, `DirtyInv`, `RoomInv`: when the working block may be invalid,
   when there may be bytes behind the queue, and that there is room for what a
   function is about to write;
 - `CallInv`, `RecordInv`, `TargetInv`: which function a step belongs to, and how
   far the record is;
 - `OpenInv`, `TornInv`: while a write is pending the spare block holds data and
   only the copy to its target runs; a torn target is that write's.

`SpareBacksPending` alone is not inductive: that a reclaim does not overwrite
the data needs to know that it starts with no header open (`RoomInv`,
`ReclaimInv`), and that recovery finds the record needs `OpenInv` and `WorkInv`.
One lemma per action shows its step preserves `IInv`. The theorems are
`Invariance`, `TypeCorrect`, `PendingIsBacked`, `ReadyIsWhole`, `QueueSurvives` and
`WritesAreAtomic`: the full refinement, with one lemma per action that maps its
step to a step of `AtomicBlockWrite` or a stutter. They hold for any set of blocks
and contents, any queue size of two or more and any number of failures, from
the assumption `FtwAssumption` of `FaultTolerantWrite` alone (constants are distinct,
sizes are positive) and the guards above, until an initialization finds no memory:
what is invariant is `SuppliedInv`, `starved` or `IInv`. `TypeOK` after that, and
`BootSettles`, are only model-checked.

## 8. VariableStore

`flash` is the sequence of entries in address order, each with its state bits
(`start`: header without HEADER_VALID; `header`; `added`; `moving`: ADDED and
IN_DELETED_TRANSITION; `deleted`) and whether its data is complete. `cache`, `last`,
`runtime`, `reclaimed` are `mNvVariableCache`, `NonVolatileLastVariableOffset`,
`AtRuntime ()` and the static of `ReclaimForOS`. A call of SetVariable is one step
per flash write: mark the old copy, header, HEADER_VALID, data, ADDED, delete the
older copy in transition, delete the old one. Reclaim computes its buffer in
the cache and hands it to FTW: `FtwSucceeds` replaces the store in one step,
`FtwFails` leaves it and restores the cache. FtwWrite may fail before it has changed
anything, or behind SpareComplete (FaultTolerantWrite.c:584-588): then `pending` holds the
image in the spare block. Reclaim.c:150 aborts nothing, later reclaims are refused,
and the next `Boot` finds the store as InitFtwProtocol has restarted the write. The
variable driver's write is taken to be the only one, no other caller to restart or
abort it, and that initialization to find its memory (section 7 has the case that it
does not). `PowerFails` comes anywhere; a header
that was being written may leave bytes that no parse sees (`torn`).

`var_power` (two variables, contents of one and two units, four units of space,
three at runtime, 1.03 million states; symmetric in the variables; constraint
`Explored`) lets the store fill so that updates are refused at runtime and reclaim before.

| Property | What it says |
|---|---|
| `CacheIsFlash` | between calls the memory copy is the flash, also after a failed reclaim, which uses it as its buffer |
| `NextIsErased` | the next entry goes behind the last one, into erased flash, inside the store |
| `ImplementsAtomicSet` | refinement of `AtomicBlockWrite`: a variable reads as its old or its new contents at every moment, and success means set |

`ImplementsAtomicSet` excepts one step: a boot with a pending write puts back every
variable as the failed reclaim found it, over updates that had succeeded since. That
is what the code does; the call that reclaimed has returned an error, and nothing
tells the callers of the later updates. `Explored` stops a run with a write pending at
ExitBootServices and at stores of four entries.

`var_twice` shows what limits this: an update that finds an ADDED copy and an
older one in transition marks both in transition before it looks for room. If
it is refused or interrupted, a later deletion deletes the newer copy only and
returns EFI_SUCCESS; the older contents come back. `var_power` excludes that with
`Interruptible` and `FindsRoom` (`Faults = {}`), and nothing else.

Two more guards: a reclaim at boot that finds a torn header does not fail (the
code then goes on and programs over it), and the flash driver reports no
errors.

### Proofs (`VariableStoreProofs`)

`IInv` is inductive, whatever the faults:
 - `CallOK`: a call, and the copies found for it, belong to the labels of SetVariable;
 - `CacheOK`: the memory copy is the flash, except for the entry being written,
   in the state that the steps of the write have given it, and except for
   a reclaim;
 - `RoomOK`: `last` is the room the memory copy takes, what is in the store or is
   about to be fits, and bytes of a torn header are there only until the boot's
   reclaim;
 - `FoundOK`: the copies found were not cut short.

It gives `TypeCorrect`, `CopyIsFlash` (`CacheIsFlash`) and `SpaceIsErased`
(`NextIsErased`) without any hypothesis. That a reclaim fits is `UsedKept`: what it
keeps are entries of the store, each once, so that their units are mapped
one to one into the units of the store.

`SetIsAtomic` is the refinement, with the hypothesis `Once` (no fault "twice"): with
that fault `var_twice` shows it false. Its invariant `AInv` says what `IInv` does not
need to know:
 - `GoodStore`: the copies a reader looks at are complete, and an ADDED one is
   the last of its variable;
 - `OldOK`: at each label, which copies of the variable of the call there are, and
   in which states;
 - `MovingOK`: no other variable has two copies in transition;
 - `BufferOK`: a reclaim writes what the flash holds, less the copies found, and
   the new entry;
 - `PromiseOK`: an update with two old copies will find room.

Beside it `PendingOK` says that what is pending is a store as a reclaim writes it.

`ValueAdded`, `ValueMoving` and `ValueSame` reduce what a variable reads as to its
live copies; `KeptValue` says that a reclaim changes no variable, and `StateLive` and
`AppendAdded` what a state bit and a new entry change. The one step
that changes a variable is the ADDED bit of the new entry, or a reclaim that
carries it, or the deletion of the last copy. All results hold for any variables,
contents, sizes of entries and sizes of the store, with no bound on what follows a
failed reclaim, from `VariableAssumption`: an
entry fits MaxVariableSize, the space at runtime is part of the store, and `Absent`
and `None` are no contents and no call.

## 9. HandleDatabase

`protocols[h]` is the list `IHANDLE.Protocols` (a handle without interfaces does not
exist), `byProtocol[p]` the list `PROTOCOL_ENTRY.Protocols`, `of[i]` and `open[i]`
are `Protocol` and `OpenList` of a PROTOCOL_INTERFACE, `registered` and `position`
the PROTOCOL_NOTIFY records. `stack` holds the calls in progress, as in `DxeEvent`.
The lock of the database raises the TPL to TPL_NOTIFY and registrations notify
below it, so what happens under the lock is one step. Where the code lets
the lock go (`add`: between the check and the lock of InstallProtocolInterface;
`check`, `stop`: disconnecting a driver; `start`: connecting; `tell`: between the
connection and the notification of a reinstallation) `Preempt` runs a notification
function on top, which calls any service. Notification functions have one level
here, so they do not nest.

Of clients the model assumes: the function of a registration locates until
EFI_NOT_FOUND, and its event is signalled once after registering, as
EfiCreateProtocolNotifyEvent does; a driver whose Stop succeeds has closed what it
managed; drivers open and close in Start and Stop, and the boot flow,
applications and notification functions call everything else; nobody
uninstalls or reinstalls an interface while it is being uninstalled,
reinstalled or opened exclusively (`Busy`), where the code would go on with a
freed structure. Stop may fail, and memory may be short.

`handle_db` (two handles, two protocols, three interface structures, two drivers,
an application, a registration, 6 calls of services, 6 calls in progress; 0.34
million states; symmetric in handles, protocols, structures and drivers; it
stops when the calls are used up, so deadlock is not checked):

| Property | What it says |
|---|---|
| `TypeOK` | types; a structure is on one handle's list and on its protocol's, or on none |
| `PositionIsExact` | what a registration has still to locate is what was installed or reinstalled since it last located it, whatever was removed around its position |
| `InstallIsNoticed` | while there is something to locate the event is signalled, the function runs, or a reinstallation is about to signal |
| `OneDriver` | an interface has at most one BY_DRIVER opener |

Six calls in progress are an uninstallation that disconnects a driver, preempted
by a function that disconnects as well. Two things are reachable and are
no properties, because no text of the repository decides them: two EXCLUSIVE
openers of an interface (OpenProtocol looks again for drivers but not for
exclusive openers after it released the lock), and a protocol twice on a handle
(InstallProtocolInterface looks before it takes the lock).

### Proofs (`HandleDatabaseProofs`)

`IInv` is inductive; its parts are
 - `ListsOK`: a structure is on the list of its protocol and on that of one
   handle, each once, or free and on none;
 - `RegistrationsOK`: the exact position (`PositionIsExact`), a free record has
   nothing to locate;
 - `OpensOK`: only drivers open BY_DRIVER;
 - `StackOK`: which frame may sit on which, and a call that works on a structure
   holds one that is installed and that no other such call removes;
 - `Noticed` and `OneDriver`, for which two calls have to be compared: the one that
   installs, or opens, and the one it preempts.

`TypeCorrect`, `PositionCorrect`, `InstallNoticed` and `SingleDriver` follow, for any
number of handles, protocols, structures, drivers, applications, registrations
and calls, from `HandleAssumption` (`None` is no member of the sets) and the
guards above.

## 10. Not modelled

 - Dispatcher: a fixpoint over dependency expressions under one boot flow.
 - In the handle database: handle keys and ConnectHandlesByKey, OpenCount,
   installation without notification, the searches of LocateHandle other than
   ByRegisterNotify, the choice and order of drivers, and the calls for several
   protocols, which are loops over the modelled ones. LocateHandleBuffer calls
   LocateHandle twice and lets the lock go in between; its callers handle the
   error.
 - The race of two CheckEvent calls for one signal: `DxeEvent` has both steps, no run
   asks for it.
 - Fault tolerant write of the boot block and of the working block itself (the
   branches of FtwWriteRecord at FaultTolerantWrite.c:213-230), its SMM wrapper; volatile, HOB,
   authenticated and hardware error variables: variants of the modelled paths
   whose own state is small.
 - Errors of the firmware volume block driver. The flash model is power failures
   only; the code gives up at the first error and the README of no driver says
   what flash holds then.
 - Pool and page allocator: external to all models, may refuse.
 - SMM rendezvous, FAT, the network stack, StdLib, AppPkg, BaseTools, Lua and the
   STL: vendored or outside the library this repository adds.

## 11. What is proved and what is only checked

Every safety property that a passing run checks is also a theorem, and so are
the three refinements. Only checked by TLC, on the instances above, is liveness:
`QueuedIsDispatched`, `TimerFires`, `WaitReturns`, `ProgramEnds` and `BootSettles`.
TLAPS proves no liveness under fairness.

Besides the named assumptions on the constants, four hypotheses occur: `ReadOnce` and
`~RearmWhileClosing` (section 3), `~Preempting` (section 4) and `Once` (section 8).
TLC refutes at least one of the properties concerned without each of them; the
other theorems with that hypothesis rest on the same inductive invariant, which
is then false. Three properties name an exception in their statement: histories
after a stray write into list links (`cut`, section 4), after an initialization that
found no memory (`starved`, section 7), and the boot that restarts a failed reclaim
(section 8).

The induction theorems of the library take an operator and cannot be used, but
`WFMin` with the order of the natural numbers can: `VariableStoreProofs` proves
from it that a finite set of positions has an ascending enumeration (`Least`,
`Greatest`, `AscendingIs`).

## 12. Conventions

An operator whose name starts with `Bug` is the following definition with a
plausible mistake in it; no specification uses it. `PROJECT.json` pairs each property
with one that it must detect. `MC*` modules hold populations and symmetry sets;
`.cfg` files give every bound its value.
