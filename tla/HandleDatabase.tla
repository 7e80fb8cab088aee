---------------------------- MODULE HandleDatabase ----------------------------
(***************************************************************************)
(* The handle and protocol database of the DXE core (Core/Dxe/Hand):       *)
(* installing, reinstalling and uninstalling protocol interfaces, opening  *)
(* and closing them, and registrations for notification.                   *)
(*                                                                         *)
(* gProtocolDatabaseLock raises the TPL to TPL_NOTIFY, so what a service   *)
(* does while it holds the lock is one step.  Where it lets go, to call a  *)
(* driver's Start or Stop or on its way to the lock, other code runs on    *)
(* top: the driver, and notification functions.  The calls in progress are *)
(* a stack, as in DxeEvent.                                                *)
(***************************************************************************)
EXTENDS Naturals, Sequences, SequencesExt, FiniteSets

CONSTANTS Handle,       \* addresses of IHANDLE structures
          Protocol,     \* GUIDs
          Instance,     \* addresses of PROTOCOL_INTERFACE structures
          Driver,       \* (agent, controller) pairs of drivers
          Application,  \* agents that are no drivers
          Core,         \* gDxeCoreImageHandle
          Notify,       \* PROTOCOL_NOTIFY records, each with an event of its own
          None,
          MaxCalls,     \* bounds the calls of Install, Reinstall, Uninstall and Open
          MaxDepth      \* bounds the calls in progress

ASSUME HandleAssumption ==
    /\ None \notin Handle \cup Protocol \cup Instance \cup Driver \cup Application \cup Notify
    /\ MaxCalls \in Nat /\ MaxDepth \in Nat \ {0}

VARIABLES protocols,    \* the list IHANDLE.Protocols, empty when there is no such handle
          of,           \* Protocol of each structure, None when free
          byProtocol,   \* the list PROTOCOL_ENTRY.Protocols of each protocol
          open,         \* OpenList of each structure
          registered,   \* protocol each record waits for, None when free
          position,     \* PROTOCOL_NOTIFY.Position, None for the list head
          signalled,    \* records whose event is signalled and not yet notified
          stack,        \* calls in progress, the running one last
          calls,        \* calls made so far
          unseen        \* history: structures (re)installed since each record located them

database == <<protocols, of, byProtocol, position, unseen>>
vars == <<protocols, of, byProtocol, open, registered, position, signalled, stack, calls, unseen>>

\* EFI_OPEN_PROTOCOL_*: BY_DRIVER, EXCLUSIVE, BY_CHILD_CONTROLLER, and the three
\* that only record a use.
Attributes == {{"driver"}, {"driver", "exclusive"}, {"exclusive"}, {"child"}, {"get"}}
Opener == [agent : Driver \cup Application \cup {Core}, attr : Attributes]

\* A call: what it does next, its structure, handle and protocol, its agent, and
\* the attributes it opens with.
Client == {"boot", "start", "stop", "notify"}
Locked == {"disconnect", "reinstall", "open"}
Frame == [pc : Client \cup Locked \cup {"add", "check", "tell"},
          inst : Instance \cup {None}, han : Handle \cup {None}, prot : Protocol \cup {None},
          agent : Driver \cup Application \cup Notify \cup {None},
          attr : Attributes \cup {{}}]

NoCall == [pc |-> "boot", inst |-> None, han |-> None, prot |-> None, agent |-> None, attr |-> {}]

Top == Last(stack)
Replace(f) == stack' = Append(Front(stack), f)
Push(f) == Len(stack) < MaxDepth /\ stack' = Append(stack, f)
Pop == stack' = Front(stack)

-------------------------------------------------------------------------------
(* Linked lists: where a structure is, the list without it, and the part of the
   list after it (the whole list after its head).                          *)

Index(s, i) == CHOOSE k \in DOMAIN s : s[k] = i
Unlinked(s, i) == RemoveAt(s, Index(s, i))
After(s, i) == IF i = None THEN s ELSE SubSeq(s, Index(s, i) + 1, Len(s))

-------------------------------------------------------------------------------
(* Reading the database.                                                   *)

Free == {i \in Instance : of[i] = None}
On(h) == ToSet(protocols[h])
Valid(h) == On(h) # {}
HandleOf(i) == IF \E h \in Handle : i \in On(h) THEN CHOOSE h \in Handle : i \in On(h) ELSE None

\* CoreGetProtocolInterface finds the first structure of a protocol, if any.
Get(h, p) == LET Has(i) == of[i] = p IN SelectSeq(protocols[h], Has)
IsFound(i) == of[i] # None /\ i = Head(Get(HandleOf(i), of[i]))

Drives(i) == {o \in open[i] : "driver" \in o.attr}
Exclusively(i) == {o \in open[i] : "exclusive" \in o.attr}
Manages(d, h) == Valid(h) /\ \E i \in On(h) : \E o \in Drives(i) : o.agent = d

\* What a record has not located yet.
Ahead(n) == After(byProtocol[registered[n]], position[n])

Waiting(p) == {n \in Notify : registered[n] = p}

-------------------------------------------------------------------------------
(* Locked sections.                                                        *)

\* CoreNotifyProtocolEntry.
Signal(p) == signalled' = signalled \cup Waiting(p)

\* Position is left alone.
BugBackUp(i) == position' = position

\* CoreRemoveInterfaceFromProtocol: a position at the structure is backed up one.
BackUp(i) ==
    LET s == byProtocol[of[i]]
        before == IF Index(s, i) = 1 THEN None ELSE s[Index(s, i) - 1]
    IN  position' = [n \in Notify |-> IF position[n] = i THEN before ELSE position[n]]

New(i, p) == [n \in Notify |-> IF registered[n] = p THEN unseen[n] \cup {i} ELSE unseen[n]]

Insert(i, h, p) ==
    /\ protocols' = [protocols EXCEPT ![h] = <<i>> \o @] /\ of' = [of EXCEPT ![i] = p]
    /\ byProtocol' = [byProtocol EXCEPT ![p] = Append(@, i)]
    /\ open' = [open EXCEPT ![i] = {}]
    /\ unseen' = New(i, p)
    /\ Signal(p)
    /\ UNCHANGED position

\* The structure stays on its handle.
BugDelete(i) ==
    /\ BackUp(i)
    /\ of' = [of EXCEPT ![i] = None]
    /\ byProtocol' = [byProtocol EXCEPT ![of[i]] = Unlinked(@, i)]
    /\ open' = [open EXCEPT ![i] = {}]
    /\ unseen' = [n \in Notify |-> unseen[n] \ {i}]
    /\ UNCHANGED protocols

\* The structure leaves both lists; the last one of a handle takes it along.
Delete(i) ==
    /\ BackUp(i)
    /\ protocols' = [protocols EXCEPT ![HandleOf(i)] = Unlinked(@, i)]
    /\ of' = [of EXCEPT ![i] = None]
    /\ byProtocol' = [byProtocol EXCEPT ![of[i]] = Unlinked(@, i)]
    /\ open' = [open EXCEPT ![i] = {}]
    /\ unseen' = [n \in Notify |-> unseen[n] \ {i}]

Opens(i, a, attr) == open' = [open EXCEPT ![i] = @ \cup {[agent |-> a, attr |-> attr]}]

\* A new interface is put at the tail of the protocol's list.
Renew(i) ==
    /\ BackUp(i)
    /\ byProtocol' = [byProtocol EXCEPT ![of[i]] = Append(Unlinked(@, i), i)]
    /\ open' = [open EXCEPT ![i] = {}]
    /\ unseen' = New(i, of[i])
    /\ UNCHANGED <<protocols, of>>

-------------------------------------------------------------------------------
Init ==
    /\ protocols = [h \in Handle |-> <<>>] /\ of = [i \in Instance |-> None]
    /\ byProtocol = [p \in Protocol |-> <<>>]
    /\ open = [i \in Instance |-> {}]
    /\ registered = [n \in Notify |-> None] /\ position = [n \in Notify |-> None]
    /\ signalled = {} /\ stack = <<NoCall>> /\ calls = 0
    /\ unseen = [n \in Notify |-> {}]

\* A service is called by the boot flow, a driver or a notification function.
Call == calls < MaxCalls /\ calls' = calls + 1
Services == Top.pc \in {"boot", "notify"}

\* An interface whose drivers are being disconnected.  The owner of an interface
\* does not uninstall or reinstall it meanwhile: the structure would be freed under
\* a call that holds its address.
Busy(i) == \E k \in DOMAIN stack : stack[k].inst = i

-------------------------------------------------------------------------------
(* CoreInstallProtocolInterface.                                           *)

\* On a handle that has the protocol, CoreHandleProtocol opens it for the core.
InstallChecks(h, p) ==
    /\ Services /\ Valid(h) /\ Call
    /\ IF Get(h, p) # <<>>
       THEN /\ Opens(Head(Get(h, p)), Core, {"get"})
            /\ UNCHANGED stack
       ELSE /\ Push([NoCall EXCEPT !.pc = "add", !.han = h, !.prot = p])
            /\ UNCHANGED open
    /\ UNCHANGED <<database, registered, signalled>>

\* Under the lock only the handle is looked at again; or there is no memory.
InstallAdds ==
    /\ Top.pc = "add" /\ Pop
    /\ \/ /\ Valid(Top.han)
          /\ \E i \in Free : Insert(i, Top.han, Top.prot)
       \/ UNCHANGED <<database, open, signalled>>
    /\ UNCHANGED <<registered, calls>>

InstallOnNewHandle(h, p) ==
    /\ Services /\ ~Valid(h) /\ Call
    /\ \E i \in Free : Insert(i, h, p)
    /\ UNCHANGED <<registered, stack>>

-------------------------------------------------------------------------------
(* CoreUninstallProtocolInterface and CoreReinstallProtocolInterface.      *)

CallUninstall(i) ==
    /\ Services /\ i \notin Free /\ ~Busy(i) /\ Call
    /\ Push([NoCall EXCEPT !.pc = "disconnect", !.inst = i])
    /\ UNCHANGED <<database, open, registered, signalled>>

CallReinstall(i) ==
    /\ Services /\ i \notin Free /\ ~Busy(i) /\ Call
    /\ Push([NoCall EXCEPT !.pc = "reinstall", !.inst = i])
    /\ UNCHANGED <<database, open, registered, signalled>>

\* The first driver found is disconnected, without the lock.
Disconnect ==
    /\ Top.pc \in Locked
    /\ \E o \in Drives(Top.inst) :
            Push([NoCall EXCEPT !.pc = "check", !.han = HandleOf(Top.inst), !.agent = o.agent])
    /\ UNCHANGED <<database, open, registered, signalled, calls>>

\* What is left on OpenList when the drivers are gone.
Kept(i) == {o \in open[i] : o.attr # {"get"}}

\* EFI_ACCESS_DENIED: the drivers of the handle are connected again.
Refuse(h) == Replace([NoCall EXCEPT !.pc = "start", !.han = h])

StillOpen ==
    /\ Top.pc \in {"disconnect", "reinstall"} /\ Drives(Top.inst) = {}
    /\ Kept(Top.inst) # {}
    /\ open' = [open EXCEPT ![Top.inst] = Kept(Top.inst)]
    /\ Refuse(HandleOf(Top.inst))
    /\ UNCHANGED <<database, registered, signalled, calls>>

Uninstalls ==
    /\ Top.pc = "disconnect" /\ Drives(Top.inst) = {} /\ Kept(Top.inst) = {}
    /\ Delete(Top.inst)
    /\ Pop
    /\ UNCHANGED <<registered, signalled, calls>>

\* The registrations are never told of the new interface.
BugReinstalls ==
    /\ Top.pc = "reinstall" /\ Drives(Top.inst) = {} /\ Kept(Top.inst) = {}
    /\ Renew(Top.inst)
    /\ Replace([NoCall EXCEPT !.pc = "start", !.han = HandleOf(Top.inst)])
    /\ UNCHANGED <<registered, signalled, calls>>

\* The handle is connected before the registrations are told.
Reinstalls ==
    /\ Top.pc = "reinstall" /\ Drives(Top.inst) = {} /\ Kept(Top.inst) = {}
    /\ Len(stack) < MaxDepth
    /\ Renew(Top.inst)
    /\ LET tell == [NoCall EXCEPT !.pc = "tell", !.prot = of[Top.inst]]
           start == [NoCall EXCEPT !.pc = "start", !.han = HandleOf(Top.inst)]
       IN  stack' = Append(Append(Front(stack), tell), start)
    /\ UNCHANGED <<registered, signalled, calls>>

TellReinstalled ==
    /\ Top.pc = "tell" /\ Pop /\ Signal(Top.prot)
    /\ UNCHANGED <<database, open, registered, calls>>

-------------------------------------------------------------------------------
(* CoreDisconnectController (one driver) and CoreConnectController.        *)

CallConnect(h) ==
    /\ Services /\ Valid(h) /\ Call
    /\ Push([NoCall EXCEPT !.pc = "start", !.han = h])
    /\ UNCHANGED <<database, open, registered, signalled>>

CallDisconnect(h, d) ==
    /\ Services /\ Valid(h) /\ Call
    /\ Push([NoCall EXCEPT !.pc = "check", !.han = h, !.agent = d])
    /\ UNCHANGED <<database, open, registered, signalled>>

\* The caller of CoreDisconnectController gets an error: OpenProtocol gives up,
\* UninstallProtocolInterface and ReinstallProtocolInterface reconnect.
Fails ==
    LET rest == Front(stack)
        caller == Last(rest)
    IN  stack' = IF caller.pc = "open" THEN Front(rest)
                 ELSE IF caller.pc \in Locked
                 THEN Append(Front(rest),
                             [NoCall EXCEPT !.pc = "start", !.han = HandleOf(caller.inst)])
                 ELSE rest

DisconnectChecks ==
    /\ Top.pc = "check"
    /\ IF Manages(Top.agent, Top.han)
       THEN Replace([Top EXCEPT !.pc = "stop"])
       ELSE Fails
    /\ UNCHANGED <<database, open, registered, signalled, calls>>

\* Stop returns success when the driver has closed what it managed.
StopReturns ==
    /\ Top.pc = "stop"
    /\ \/ ~Manages(Top.agent, Top.han) /\ Pop
       \/ Fails
    /\ UNCHANGED <<database, open, registered, signalled, calls>>

StartReturns ==
    /\ Top.pc = "start" /\ Pop
    /\ UNCHANGED <<database, open, registered, signalled, calls>>

-------------------------------------------------------------------------------
(* CoreOpenProtocol, CoreCloseProtocol.                                    *)

\* Who opens what: drivers that are started open BY_DRIVER, with or without
\* EXCLUSIVE, and for their children; applications open EXCLUSIVE or just look.
MayOpen(i, a, attr) ==
    \/ Top.pc = "start" /\ HandleOf(i) = Top.han /\ a \in Driver /\ attr # {"exclusive"}
    \/ Services /\ a \in Application /\ attr \in {{"exclusive"}, {"get"}}

\* EFI_ACCESS_DENIED and EFI_ALREADY_STARTED change nothing, nor does opening
\* once more what is counted in OpenCount.
CallOpen(i, a, attr) ==
    /\ IsFound(i) /\ MayOpen(i, a, attr) /\ Call
    /\ [agent |-> a, attr |-> attr] \notin open[i]
    /\ "driver" \in attr \/ "exclusive" \in attr => Exclusively(i) = {}
    /\ attr = {"driver"} => Drives(i) = {}
    /\ IF "exclusive" \in attr /\ Drives(i) # {}
       THEN /\ Push([NoCall EXCEPT !.pc = "open", !.inst = i, !.agent = a, !.attr = attr])
            /\ UNCHANGED open
       ELSE Opens(i, a, attr) /\ UNCHANGED stack
    /\ UNCHANGED <<database, registered, signalled>>

\* The drivers are looked for only once.
BugOpenAlone ==
    /\ Top.pc = "open"
    /\ \/ Opens(Top.inst, Top.agent, Top.attr)
       \/ UNCHANGED open
    /\ Pop
    /\ UNCHANGED <<database, registered, signalled, calls>>

\* No driver is left, the open is recorded or there is no memory for it.
OpenAlone ==
    /\ Top.pc = "open" /\ Drives(Top.inst) = {}
    /\ \/ Opens(Top.inst, Top.agent, Top.attr)
       \/ UNCHANGED open
    /\ Pop
    /\ UNCHANGED <<database, registered, signalled, calls>>

\* A driver that is stopped closes what it opened; an application any time.
Close(i, o) ==
    /\ IsFound(i) /\ o \in open[i]
    /\ \/ Top.pc = "stop" /\ o.agent = Top.agent
       \/ Services /\ o.agent \in Application
    /\ open' = [open EXCEPT ![i] = {x \in @ : x.agent # o.agent}]
    /\ UNCHANGED <<database, registered, signalled, stack, calls>>

-------------------------------------------------------------------------------
(* Registrations.                                                          *)

\* RegisterProtocolNotify, and the signal its callers give their own event.
Register(n, p) ==
    /\ Services /\ registered[n] = None /\ Call
    /\ registered' = [registered EXCEPT ![n] = p]
    /\ position' = [position EXCEPT ![n] = None]
    /\ unseen' = [unseen EXCEPT ![n] = ToSet(byProtocol[p])]
    /\ signalled' = signalled \cup {n}
    /\ UNCHANGED <<protocols, of, byProtocol, open, stack>>

\* CoreCloseEvent of the event takes its records away.
Unregister(n) ==
    /\ Services /\ registered[n] # None
    /\ registered' = [registered EXCEPT ![n] = None]
    /\ position' = [position EXCEPT ![n] = None]
    /\ unseen' = [unseen EXCEPT ![n] = {}]
    /\ signalled' = signalled \ {n}
    /\ UNCHANGED <<protocols, of, byProtocol, open, stack, calls>>

\* A notification function preempts what holds no lock: that of a record, or one
\* of some other event.
Preempt(n) ==
    /\ Top.pc \notin Locked
    /\ \A k \in DOMAIN stack : stack[k].pc # "notify"
    /\ n \in signalled \cup {None}
    /\ n = None => calls < MaxCalls
    /\ Push([NoCall EXCEPT !.pc = "notify", !.agent = n])
    /\ signalled' = signalled \ {n}
    /\ UNCHANGED <<database, open, registered, calls>>

\* LocateHandle ByRegisterNotify returns the next structure and moves on.
Locate ==
    /\ Top.pc = "notify" /\ Top.agent # None /\ registered[Top.agent] # None
    /\ Ahead(Top.agent) # <<>>
    /\ LET n == Top.agent
       IN  /\ position' = [position EXCEPT ![n] = Head(Ahead(n))]
           /\ unseen' = [unseen EXCEPT ![n] = @ \ {Head(Ahead(n))}]
    /\ UNCHANGED <<protocols, of, byProtocol, open, registered, signalled, stack, calls>>

\* It locates until EFI_NOT_FOUND.
NotifyReturns ==
    /\ Top.pc = "notify" /\ Pop
    /\ Top.agent # None /\ registered[Top.agent] # None => Ahead(Top.agent) = <<>>
    /\ UNCHANGED <<database, open, registered, signalled, calls>>

-------------------------------------------------------------------------------
Next ==
    \/ \E h \in Handle, p \in Protocol : InstallChecks(h, p) \/ InstallOnNewHandle(h, p)
    \/ InstallAdds
    \/ \E i \in Instance : CallUninstall(i) \/ CallReinstall(i)
    \/ \E h \in Handle : CallConnect(h) \/ \E d \in Driver : CallDisconnect(h, d)
    \/ Disconnect \/ StillOpen \/ Uninstalls \/ Reinstalls \/ TellReinstalled
    \/ DisconnectChecks \/ StopReturns \/ StartReturns
    \/ \E i \in Instance, a \in Driver \cup Application, attr \in Attributes :
            CallOpen(i, a, attr)
    \/ OpenAlone
    \/ \E i \in Instance : \E o \in open[i] : Close(i, o)
    \/ \E n \in Notify, p \in Protocol : Register(n, p)
    \/ \E n \in Notify : Unregister(n)
    \/ \E n \in Notify \cup {None} : Preempt(n)
    \/ Locate \/ NotifyReturns

Spec == Init /\ [][Next]_vars

-------------------------------------------------------------------------------
(* Properties.                                                             *)

\* Types, and the agreement of the two lists a structure is on: its handle's and
\* its protocol's.
TypeOK ==
    /\ of \in [Instance -> Protocol \cup {None}]
    /\ \A p \in Protocol : /\ IsInjective(byProtocol[p])
                           /\ ToSet(byProtocol[p]) = {i \in Instance : of[i] = p}
    /\ \A h \in Handle : IsInjective(protocols[h])
    /\ \A i \in Instance :
            Cardinality({h \in Handle : i \in On(h)}) = IF i \in Free THEN 0 ELSE 1
    /\ open \in [Instance -> SUBSET Opener]
    /\ registered \in [Notify -> Protocol \cup {None}]
    /\ signalled \subseteq Notify
    /\ stack \in Seq(Frame) /\ stack # <<>> /\ calls \in Nat

\* What LocateHandle has still to return for a registration is what was installed
\* or reinstalled since it last returned it: backing up Position on a removal
\* neither skips a structure nor returns one twice.
PositionIsExact ==
    \A n \in Notify : registered[n] # None =>
        /\ position[n] \in {None} \cup ToSet(byProtocol[registered[n]])
        /\ ToSet(Ahead(n)) = unseen[n]

\* A structure a registration has not located is being announced: its event is
\* signalled, its function runs, or the reinstallation will signal it once the
\* drivers are connected.
InstallIsNoticed ==
    \A n \in Notify : unseen[n] # {} =>
        \/ n \in signalled
        \/ \E k \in DOMAIN stack :
               \/ stack[k].pc = "notify" /\ stack[k].agent = n
               \/ stack[k].pc = "tell" /\ stack[k].prot = registered[n]

\* However opens, disconnections and preempting functions interleave, at most one
\* driver manages an interface.
OneDriver == \A i \in Instance : \A o1, o2 \in Drives(i) : o1 = o2
===============================================================================
