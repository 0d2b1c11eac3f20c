------------------------------ MODULE AcmBinding ------------------------------
(***************************************************************************)
(* UsbCdcAcmDxe's driver binding: how a port gets its two interfaces, its  *)
(* child and its poll, keeps them while the USB bus driver, the NIC's      *)
(* driver and a console work on the same handles, and gives them back.     *)
(* Start and Stop run to their end, each call in them may fail.            *)
(***************************************************************************)
EXTENDS Integers, FiniteSets

CONSTANTS
  Ctx,        \* contexts that can be allocated
  Iface,      \* the UsbIo handles there can be, one per interface
  Number,     \* their order in the handle database and on the device
  Class,      \* "acm", "nic": control interfaces; "data": class 0x0A; "other"
  Gadget,     \* the interfaces of the BMC's device
  NicData,    \* the NIC function's own data interfaces
  Bulk,       \* the interfaces with a bulk pair
  Timeout,    \* what consumers pass for a timeout, in microseconds
  MaxFaults,  \* bound: calls that fail
  MaxEvents   \* bound: unplugs, disconnects and writes

ASSUME BindingAssumption ==
  /\ Iface # {}
  /\ Number \in [Iface -> Nat]
  /\ \A i, j \in Iface : Number[i] = Number[j] => i = j
  /\ Class \in [Iface -> {"acm", "nic", "data", "other"}]
  /\ Gadget \subseteq Iface /\ Bulk \subseteq Iface
  /\ NicData \subseteq {i \in Gadget : Class[i] = "data"}
  /\ Timeout \subseteq Nat
  /\ MaxFaults \in Nat /\ MaxEvents \in Nat

\* What a port is made of besides its two interfaces: its context, the scratch
\* buffer, the child's path, the child, the child's tie to the control
\* interface, the poll's event and its timer.
Piece == {"dev", "scratch", "path", "child", "tied", "event", "timer"}

ACM_DEFAULT_TIMEOUT == 1000000

VARIABLES
  plugged,   \* the BMC's device is there
  present,   \* the UsbIo handles
  tried,     \* interfaces the bus driver could not take down in this pass
  nic,       \* interfaces the NIC's driver has open BY_DRIVER
  opens,     \* interfaces this driver has open BY_DRIVER
  dev,       \* what there is of each USB_CDC_ACM_DEV
  ctrl,      \* its ControllerHandle
  data,      \* its DataHandle
  timeout,   \* its SerialMode.Timeout
  console,   \* contexts whose child a console has open BY_DRIVER
  waits,     \* milliseconds the write under way waits; 0: for ever; -1: none
  orphaned,  \* history: contexts whose interface was stopped without them
  unpolled,  \* history: contexts whose poll could not be put back
  faults, events

usbVars == <<plugged, present, tried>>
devVars == <<dev, ctrl, data, timeout>>
histVars == <<orphaned, unpolled>>
countVars == <<faults, events>>
vars == <<usbVars, nic, opens, devVars, console, waits, histVars, countVars>>

TypeOK ==
  /\ plugged \in BOOLEAN
  /\ present \subseteq Iface /\ tried \subseteq Iface
  /\ nic \subseteq Iface /\ opens \subseteq Iface
  /\ dev \in [Ctx -> SUBSET Piece]
  /\ ctrl \in [Ctx -> Iface] /\ data \in [Ctx -> Iface]
  /\ timeout \in [Ctx -> Nat]
  /\ console \subseteq Ctx
  /\ waits \in {-1} \cup Nat
  /\ orphaned \subseteq Ctx /\ unpolled \subseteq Ctx
  /\ faults \in Nat /\ events \in Nat

NoIface == CHOOSE i \in Iface : TRUE

Init ==
  /\ plugged = FALSE
  /\ present = Iface \ Gadget
  /\ tried = {}
  /\ nic = {}
  /\ opens = {}
  /\ dev = [p \in Ctx |-> {}]
  /\ ctrl = [p \in Ctx |-> NoIface]
  /\ data = [p \in Ctx |-> NoIface]
  /\ timeout = [p \in Ctx |-> ACM_DEFAULT_TIMEOUT]
  /\ console = {}
  /\ waits = -1
  /\ orphaned = {}
  /\ unpolled = {}
  /\ faults = 0
  /\ events = 0

Published(p) == "child" \in dev[p]
Interfaces(p) == {ctrl[p], data[p]}

Event == events < MaxEvents /\ events' = events + 1

Charge(fault) ==
  /\ fault => faults < MaxFaults
  /\ faults' = IF fault THEN faults + 1 ELSE faults

-----------------------------------------------------------------------------
(* Start. *)

IsAcmControlInterface(i) == Class[i] = "acm"

\* A handle that no driver has open BY_DRIVER; any other refuses the open.
Opens(i) == i \in present \ (nic \cup opens)

\* UsbCdcAcmDriverSupported().
Supported(i) == Opens(i) /\ IsAcmControlInterface(i)

\* DevicePathPrefixSize() and the comparison: the same device, whose path is the
\* interface's up to the last node.
SameDevice(i, c) == c # i /\ (i \in Gadget <=> c \in Gadget)

\* The siblings that open, and whose descriptor says CDC data.
Candidates(i) == {c \in Iface : SameDevice(i, c) /\ Opens(c) /\ Class[c] = "data"}

\* Mutant: a sibling that does not open ends the search.
FindDataInterfaceGivesUp(i, unread) ==
  {c \in Candidates(i) \ unread :
     \A b \in Iface : Number[b] <= Number[c] /\ SameDevice(i, b) => Opens(b)}

\* FindDataInterface(): the first of them in the handle database, if there is one;
\* those whose descriptor cannot be read are passed over.
FindDataInterface(i, unread) ==
  LET found == Candidates(i) \ unread
  IN {c \in found : \A b \in found : Number[c] <= Number[b]}

ResolveBulkEndpoints(c) == c \in Bulk

\* The calls of UsbCdcAcmDriverStart() and UsbCdcAcmInstallSerialIo() that can
\* fail, each with what the driver has by then.
Acquired ==
  LET found == {"dev", "ctrl", "data"}
      ready == found \cup {"scratch"}
  IN [AllocateDev |-> {}, OpenCtrl |-> {"dev"}, Descriptor |-> {"dev", "ctrl"},
      FindData |-> {"dev", "ctrl"}, ResolveBulk |-> found, AllocateScratch |-> found,
      ParentPath |-> ready, AppendPath |-> ready, InstallChild |-> ready \cup {"path"},
      OpenChild |-> ready \cup {"path", "child"},
      CreateEvent |-> ready \cup {"path", "child", "tied"},
      SetTimer |-> ready \cup {"path", "child", "tied", "event"}]

Call == DOMAIN Acquired

\* What UsbCdcAcmInstallSerialIo() takes back when one of its calls fails.
InstallSerialIoUndoes(call) ==
  CASE call = "InstallChild" -> {"path"}
    [] call = "OpenChild" -> {"child", "path"}
    [] call = "CreateEvent" -> {"tied", "child", "path"}
    [] call = "SetTimer" -> {"event", "tied", "child", "path"}
    [] OTHER -> {}

\* Mutant: without a bulk pair Start jumps past the data interface.
StartUndoesLess(call) ==
  CASE call = "AllocateDev" -> {}
    [] call = "OpenCtrl" -> {"dev"}
    [] call \in {"Descriptor", "FindData", "ResolveBulk"} -> {"ctrl", "dev"}
    [] call = "AllocateScratch" -> {"data", "ctrl", "dev"}
    [] OTHER -> {"scratch", "data", "ctrl", "dev"}

\* What the error labels of UsbCdcAcmDriverStart() take back.
StartUndoes(call) ==
  CASE call = "AllocateDev" -> {}
    [] call = "OpenCtrl" -> {"dev"}
    [] call \in {"Descriptor", "FindData"} -> {"ctrl", "dev"}
    [] call \in {"ResolveBulk", "AllocateScratch"} -> {"data", "ctrl", "dev"}
    [] OTHER -> {"scratch", "data", "ctrl", "dev"}

\* UsbCdcAcmDriverStart() fails: no sibling, one without a bulk pair, or a call
\* that can always fail.
StartFails(p, i, call, fault) ==
  LET has == Acquired[call]
      left == (has \ InstallSerialIoUndoes(call)) \ StartUndoes(call)
      found == FindDataInterface(i, {})
  IN /\ dev[p] = {}
     /\ Supported(i)
     /\ "data" \in has => found # {}
     /\ "scratch" \in has => found \subseteq Bulk
     /\ \/ fault
        \/ call = "FindData" /\ found = {}
        \/ call = "ResolveBulk" /\ ~\E c \in found : ResolveBulkEndpoints(c)
     /\ dev' = [dev EXCEPT ![p] = left \cap Piece]
     /\ opens' = opens \cup (IF "ctrl" \in left THEN {i} ELSE {})
                       \cup (IF "data" \in left THEN found ELSE {})
     /\ Charge(fault)
     /\ UNCHANGED <<usbVars, nic, ctrl, data, timeout, console, waits, histVars, events>>

\* It succeeds, once DTR and RTS are asserted.
Start(p, i, unread) ==
  /\ dev[p] = {}
  /\ Supported(i)
  /\ unread \subseteq Candidates(i)
  /\ \E c \in FindDataInterface(i, unread) :
       /\ ResolveBulkEndpoints(c)
       /\ opens' = opens \cup {i, c}
       /\ data' = [data EXCEPT ![p] = c]
  /\ ctrl' = [ctrl EXCEPT ![p] = i]
  /\ dev' = [dev EXCEPT ![p] = Piece]
  /\ timeout' = [timeout EXCEPT ![p] = ACM_DEFAULT_TIMEOUT]
  /\ Charge(unread # {})
  /\ UNCHANGED <<usbVars, nic, console, waits, histVars, events>>

-----------------------------------------------------------------------------
(* Stop. *)

\* Mutant: the poll is not put back.
RestorePortQuiet(p) == dev[p] \ {"event", "timer"}

\* A child that could not be uninstalled gets its tie and its poll again.
RestorePort(p) == dev[p] \cup {"tied", "event", "timer"}

\* Mutant: Stop goes on although the child is still there.
UninstallRefusedUnnoticed(p, fault) ==
  /\ p \in console
  /\ dev' = [dev EXCEPT ![p] = RestorePort(p)]
  /\ opens' = opens \ {data[p]}
  /\ UNCHANGED <<console, histVars>>

\* UsbCdcAcmUninstallSerialIo() when the console does not let go of the child.
\* Each of the three calls that restore the port may fail, which goes unreported.
UninstallRefused(p, fault) ==
  /\ p \in console
  /\ \E lost \in IF fault THEN {{"tied"}, {"timer"}, {"event", "timer"}} ELSE {{}} :
       /\ dev' = [dev EXCEPT ![p] = RestorePort(p) \ lost]
       /\ unpolled' = IF "timer" \in lost THEN unpolled \cup {p} ELSE unpolled \ {p}
  /\ UNCHANGED <<opens, console, orphaned>>

\* UsbCdcAcmDriverStop() of the child, its console disconnected on the way, and
\* the call without children that follows.
StopChild(p) ==
  /\ dev' = [dev EXCEPT ![p] = {}]
  /\ opens' = opens \ Interfaces(p)
  /\ console' = console \ {p}
  /\ orphaned' = IF p \in orphaned
                   THEN {q \in Ctx \ {p} : q \in orphaned \/ data[q] = data[p]}
                   ELSE orphaned
  /\ unpolled' = unpolled \ {p}

\* UsbCdcAcmDriverStop() of a handle without children closes the open, no more.
StopInterface(c) ==
  /\ opens' = opens \ {c}
  /\ orphaned' = orphaned \cup {p \in Ctx : Published(p) /\ c \in Interfaces(p)}
  /\ UNCHANGED <<dev, console, unpolled>>

\* DisconnectController() of a handle: the NIC's driver lets its pair go, this
\* one is stopped first with the child tied to the handle, if there is one.
Disconnects(c, fault, ok) ==
  LET tied == {p \in Ctx : ctrl[p] = c /\ "tied" \in dev[p]}
  IN /\ Charge(fault)
     /\ nic' = IF c \in nic THEN {} ELSE nic
     /\ UNCHANGED <<ctrl, data, timeout>>
     /\ \/ tied = {} /\ ok /\ ~fault /\ StopInterface(c)
        \/ \E p \in tied : \/ ok /\ ~fault /\ StopChild(p)
                           \/ ~ok /\ UninstallRefused(p, fault)

-----------------------------------------------------------------------------
(* The other users of the handles. *)

Plug ==
  /\ ~plugged
  /\ present \cap Gadget = {}
  /\ plugged' = TRUE
  /\ UNCHANGED <<present, tried, nic, opens, devVars, console, waits, histVars, countVars>>

\* The bus driver publishes the interfaces of a device one after another.
UsbBusPublishes(i) ==
  /\ plugged
  /\ i \in Gadget \ present
  /\ \A j \in Gadget \ present : Number[i] <= Number[j]
  /\ present' = present \cup {i}
  /\ UNCHANGED <<plugged, tried, nic, opens, devVars, console, waits, histVars, countVars>>

Unplug ==
  /\ plugged
  /\ Event
  /\ plugged' = FALSE
  /\ tried' = {}
  /\ UNCHANGED <<present, nic, opens, devVars, console, waits, histVars, faults>>

\* It takes them down in the same order; a handle that cannot be disconnected
\* stays until the next pass.
UsbBusRemoves(c, fault, ok) ==
  LET left == (present \cap Gadget) \ tried
  IN /\ ~plugged
     /\ c \in left
     /\ \A j \in left : Number[c] <= Number[j]
     /\ Disconnects(c, fault, ok)
     /\ present' = IF ok THEN present \ {c} ELSE present
     /\ tried' = IF ok THEN tried ELSE tried \cup {c}
     /\ UNCHANGED <<plugged, waits, events>>

UsbBusTriesAgain ==
  /\ ~plugged
  /\ tried # {} /\ present \cap Gadget \subseteq tried
  /\ tried' = {}
  /\ UNCHANGED <<plugged, present, nic, opens, devVars, console, waits, histVars,
                 countVars>>

\* Anybody may disconnect a handle.
Disconnect(c, fault, ok) ==
  /\ c \in present
  /\ Event
  /\ Disconnects(c, fault, ok)
  /\ UNCHANGED <<usbVars, waits>>

\* UsbCdcEcm or UsbCdcNcm binds the NIC's control interface with its data.
NicStarts(c) ==
  /\ Class[c] = "nic" /\ Opens(c)
  /\ \A d \in NicData : Opens(d)
  /\ nic' = {c} \cup NicData
  /\ UNCHANGED <<usbVars, opens, devVars, console, waits, histVars, countVars>>

ConsoleAttaches(p) ==
  /\ Published(p)
  /\ p \notin console
  /\ console' = console \cup {p}
  /\ UNCHANGED <<usbVars, nic, opens, devVars, waits, histVars, countVars>>

-----------------------------------------------------------------------------
(* The console's calls that this state depends on. *)

\* UsbCdcAcmSetAttributes(): 0 stands for the default.
SetAttributes(p, t) ==
  /\ p \in console
  /\ timeout' = [timeout EXCEPT ![p] = IF t = 0 THEN ACM_DEFAULT_TIMEOUT ELSE t]
  /\ UNCHANGED <<usbVars, nic, opens, dev, ctrl, data, console, waits, histVars,
                 countVars>>

\* UsbCdcAcmWrite() gives UsbBulkTransfer() its timeout in milliseconds, where 0
\* is none.
Write(p) ==
  /\ p \in console
  /\ waits = -1
  /\ Event
  /\ waits' = timeout[p] \div 1000
  /\ UNCHANGED <<usbVars, nic, opens, devVars, console, histVars, faults>>

\* The transfer ends: the BMC took the bytes, or its time is up.
WriteEnds ==
  /\ waits' = -1
  /\ UNCHANGED <<usbVars, nic, opens, devVars, console, histVars, countVars>>

BmcTakesBytes == waits # -1 /\ WriteEnds
TransferTimesOut == waits > 0 /\ WriteEnds

-----------------------------------------------------------------------------
Consoles ==
  \/ \E p \in Ctx : ConsoleAttaches(p) \/ Write(p)
  \/ \E p \in Ctx, t \in Timeout : SetAttributes(p, t)
  \/ BmcTakesBytes \/ TransferTimesOut

UsbBus ==
  \/ Plug \/ Unplug \/ UsbBusTriesAgain
  \/ \E i \in Iface : UsbBusPublishes(i)
  \/ \E c \in Iface, fault, ok \in BOOLEAN : UsbBusRemoves(c, fault, ok)

Next ==
  \/ UsbBus \/ Consoles
  \/ \E p \in Ctx, i \in Iface, unread \in SUBSET Iface : Start(p, i, unread)
  \/ \E p \in Ctx, i \in Iface, call \in Call, fault \in BOOLEAN :
       StartFails(p, i, call, fault)
  \/ \E c \in Iface, fault, ok \in BOOLEAN : Disconnect(c, fault, ok)
  \/ \E c \in Iface : NicStarts(c)

Spec == Init /\ [][Next]_vars

\* The bus driver enumerates what is plugged in and BDS connects what it finds; a
\* bulk transfer is ended by its timeout, if it has one.
FairSpec ==
  /\ Spec
  /\ WF_vars(\E i \in Iface : UsbBusPublishes(i))
  /\ WF_vars(\E p \in Ctx, i \in Iface : Start(p, i, {}))
  /\ WF_vars(TransferTimesOut)

-----------------------------------------------------------------------------
(* What the driver promises. *)

\* Whatever call of Start failed and whatever was stopped since, the driver has
\* nothing without a published child: no half-made context, and no interface
\* open that is not some port's ("all resources were released").
NothingLeaks ==
  /\ \A p \in Ctx : dev[p] # {} => {"dev", "scratch", "path", "child"} \subseteq dev[p]
  /\ \A c \in opens : \E p \in Ctx : Published(p) /\ c \in Interfaces(p)

\* A published port has both its interfaces, and nobody else has one of them, over
\* unplugs, refused stops and the NIC's driver, as long as no handle of it is
\* stopped by itself (FindDataInterface, Stop).
HoldsItsInterfaces ==
  \A p \in Ctx : Published(p) /\ p \notin orphaned =>
    Interfaces(p) \subseteq (present \cap opens) \ nic

\* A console's port is polled, also after Stop was refused because of it, unless
\* the poll could not be made again; and there is no poll without a port
\* (UsbCdcAcmUninstallSerialIo's restore).
PolledWhilePublished ==
  \A p \in Ctx : /\ "event" \in dev[p] => Published(p)
                 /\ Published(p) /\ p \notin unpolled => "timer" \in dev[p]

\* "this driver can never steal the RHI NIC's interfaces out from under
\* UsbCdcEcm/UsbCdcNcm" (UsbCdcAcmDxe.h:37-38): no port has the NIC function's data.
NeverStealsFromNic == \A p \in Ctx : Published(p) => data[p] \notin NicData

\* Beside a bound NIC the port comes up on the data interface of its own function,
\* in whatever order the handles are published and connected and however often
\* Start fails at first, unless the device or the NIC goes away or a handle is
\* stopped by itself (UsbCdcAcmDriverStart, FindDataInterface).
PortComesUp ==
  (plugged /\ NicData \subseteq nic) ~>
     \/ ~plugged \/ ~(NicData \subseteq nic) \/ orphaned # {}
     \/ \E p \in Ctx : Published(p) /\ data[p] \notin NicData

\* "Read/write timeout in microseconds" (UsbCdcAcmSetAttributes): a write ends, if
\* only by the timeout it was given.
WriteReturns == waits # -1 ~> waits = -1

=============================================================================
