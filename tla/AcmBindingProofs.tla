--------------------------- MODULE AcmBindingProofs ---------------------------
(***************************************************************************)
(* What UsbCdcAcmDxe's binding keeps for any set of interfaces and any     *)
(* number of contexts, faults and events.                                  *)
(***************************************************************************)
EXTENDS AcmBinding, TLAPS

\* An open is on a handle that is there and that the NIC's driver does not have.
OpenInv == opens \subseteq present /\ nic \cap opens = {}

\* The two roles of an interface.
RoleInv ==
  \A p \in Ctx : Published(p) => /\ Class[ctrl[p]] = "acm"
                                 /\ Class[data[p]] = "data"
                                 /\ SameDevice(ctrl[p], data[p])

\* A tied child's control interface is open, and it is no other sound or tied
\* port's.
TiedInv ==
  \A p \in Ctx : "tied" \in dev[p] =>
    /\ Published(p)
    /\ ctrl[p] \in opens
    /\ \A q \in Ctx \ {p} :
         Published(q) /\ (q \notin orphaned \/ "tied" \in dev[q]) => ctrl[p] # ctrl[q]

\* Two sound ports have no interface in common.
DisjointInv ==
  \A p, q \in Ctx :
    p # q /\ Published(p) /\ Published(q) /\ p \notin orphaned /\ q \notin orphaned =>
      data[p] # data[q]

-----------------------------------------------------------------------------
(* Start. *)

\* A failed Start leaves nothing, whichever call failed.
LEMMA LeftNothing ==
  ASSUME NEW call \in Call
  PROVE  (Acquired[call] \ InstallSerialIoUndoes(call)) \ StartUndoes(call) = {}
<1>1. Call = {"AllocateDev", "OpenCtrl", "Descriptor", "FindData", "ResolveBulk",
              "AllocateScratch", "ParentPath", "AppendPath", "InstallChild",
              "OpenChild", "CreateEvent", "SetTimer"}
  BY DEF Call, Acquired
<1>2. CASE call \in {"AllocateDev", "OpenCtrl", "Descriptor", "FindData"}
  BY <1>2 DEF Acquired, InstallSerialIoUndoes, StartUndoes
<1>3. CASE call \in {"ResolveBulk", "AllocateScratch"}
  BY <1>3 DEF Acquired, InstallSerialIoUndoes, StartUndoes
<1>4. CASE call \in {"ParentPath", "AppendPath"}
  BY <1>4 DEF Acquired, InstallSerialIoUndoes, StartUndoes
<1>5. CASE call \in {"InstallChild", "OpenChild"}
  BY <1>5 DEF Acquired, InstallSerialIoUndoes, StartUndoes
<1>6. CASE call \in {"CreateEvent", "SetTimer"}
  BY <1>6 DEF Acquired, InstallSerialIoUndoes, StartUndoes
<1>7. QED BY <1>1, <1>2, <1>3, <1>4, <1>5, <1>6

LEMMA FailedStartChangesNothing ==
  ASSUME TypeOK, NEW p \in Ctx, NEW i \in Iface, NEW call \in Call, NEW fault \in BOOLEAN,
         StartFails(p, i, call, fault)
  PROVE  dev' = dev /\ opens' = opens
<1> DEFINE left == (Acquired[call] \ InstallSerialIoUndoes(call)) \ StartUndoes(call)
<1>1. left = {} BY LeftNothing
<1>2. dev[p] = {} /\ dev' = [dev EXCEPT ![p] = left \cap Piece]
  BY DEF StartFails
<1>3. dev' = dev BY <1>1, <1>2 DEF TypeOK
<1>4. opens' = opens \cup (IF "ctrl" \in left THEN {i} ELSE {})
                     \cup (IF "data" \in left THEN FindDataInterface(i, {}) ELSE {})
  BY DEF StartFails
<1>5. opens' = opens BY <1>1, <1>4
<1>6. QED BY <1>3, <1>5

\* What a successful Start found.
LEMMA FoundData ==
  ASSUME NEW i \in Iface, NEW unread, NEW c \in FindDataInterface(i, unread)
  PROVE  c \in Iface /\ Opens(c) /\ Class[c] = "data" /\ SameDevice(i, c)
BY DEF FindDataInterface, Candidates

-----------------------------------------------------------------------------
(* Types. *)

LEMMA DisconnectTypes ==
  ASSUME TypeOK, NEW c \in Iface, NEW fault \in BOOLEAN, NEW ok \in BOOLEAN,
         Disconnects(c, fault, ok)
  PROVE  /\ faults' \in Nat
         /\ nic' \subseteq Iface /\ opens' \subseteq Iface
         /\ dev' \in [Ctx -> SUBSET Piece]
         /\ ctrl' = ctrl /\ data' = data /\ timeout' = timeout
         /\ console' \subseteq Ctx /\ orphaned' \subseteq Ctx /\ unpolled' \subseteq Ctx
<1>1. faults' \in Nat /\ nic' \subseteq Iface
      /\ ctrl' = ctrl /\ data' = data /\ timeout' = timeout
  BY DEF Disconnects, Charge, TypeOK
<1>2. CASE StopInterface(c)
  BY <1>1, <1>2 DEF StopInterface, TypeOK
<1>3. ASSUME NEW p \in Ctx, StopChild(p)
      PROVE  /\ opens' \subseteq Iface /\ dev' \in [Ctx -> SUBSET Piece]
             /\ console' \subseteq Ctx /\ orphaned' \subseteq Ctx /\ unpolled' \subseteq Ctx
  BY <1>3 DEF StopChild, TypeOK
<1>4. ASSUME NEW p \in Ctx, UninstallRefused(p, fault)
      PROVE  /\ opens' \subseteq Iface /\ dev' \in [Ctx -> SUBSET Piece]
             /\ console' \subseteq Ctx /\ orphaned' \subseteq Ctx /\ unpolled' \subseteq Ctx
  BY <1>4 DEF UninstallRefused, RestorePort, Piece, TypeOK
<1>5. StopInterface(c) \/ \E p \in Ctx : StopChild(p) \/ UninstallRefused(p, fault)
  BY DEF Disconnects
<1>6. QED BY <1>1, <1>2, <1>3, <1>4, <1>5

LEMMA TypeStep == TypeOK /\ [Next]_vars => TypeOK'
<1> SUFFICES ASSUME TypeOK, [Next]_vars PROVE TypeOK'
  OBVIOUS
<1>1. ASSUME NEW p \in Ctx, NEW i \in Iface, NEW unread \in SUBSET Iface,
             Start(p, i, unread)
      PROVE  TypeOK'
  <2>1. PICK c \in FindDataInterface(i, unread) :
          opens' = opens \cup {i, c} /\ data' = [data EXCEPT ![p] = c]
    BY <1>1 DEF Start
  <2>2. c \in Iface BY FoundData
  <2>3. QED BY <1>1, <2>1, <2>2
    DEF Start, TypeOK, Piece, ACM_DEFAULT_TIMEOUT, Charge, usbVars, histVars
<1>2. ASSUME NEW p \in Ctx, NEW i \in Iface, NEW call \in Call, NEW fault \in BOOLEAN,
             StartFails(p, i, call, fault)
      PROVE  TypeOK'
  <2>1. dev' = dev /\ opens' = opens BY <1>2, FailedStartChangesNothing
  <2>2. /\ Charge(fault)
        /\ UNCHANGED <<usbVars, nic, ctrl, data, timeout, console, waits, histVars,
                       events>>
    BY <1>2 DEF StartFails
  <2>3. QED BY <2>1, <2>2 DEF TypeOK, Charge, usbVars, histVars
<1>3. ASSUME NEW c \in Iface, NEW fault \in BOOLEAN, NEW ok \in BOOLEAN,
             Disconnect(c, fault, ok)
      PROVE  TypeOK'
  BY <1>3, DisconnectTypes DEF Disconnect, Event, TypeOK, usbVars
<1>4. ASSUME NEW c \in Iface, NEW fault \in BOOLEAN, NEW ok \in BOOLEAN,
             UsbBusRemoves(c, fault, ok)
      PROVE  TypeOK'
  BY <1>4, DisconnectTypes DEF UsbBusRemoves, TypeOK
<1>5. ASSUME NEW c \in Iface, NicStarts(c) PROVE TypeOK'
  BY <1>5, BindingAssumption
  DEF NicStarts, TypeOK, usbVars, devVars, histVars, countVars
<1>6. CASE Plug \/ Unplug \/ UsbBusTriesAgain \/ \E i \in Iface : UsbBusPublishes(i)
  <2>1. CASE Plug
    BY <2>1 DEF Plug, TypeOK, devVars, histVars, countVars
  <2>2. CASE Unplug
    <3>1. plugged' \in BOOLEAN BY <2>2, Zenon DEF Unplug
    <3>2. events' \in Nat BY <2>2 DEF Unplug, Event, TypeOK
    <3>3. QED BY <2>2, <3>1, <3>2, Zenon DEF Unplug, TypeOK, devVars, histVars
  <2>3. CASE UsbBusTriesAgain
    BY <2>3 DEF UsbBusTriesAgain, TypeOK, devVars, histVars, countVars
  <2>4. ASSUME NEW i \in Iface, UsbBusPublishes(i) PROVE TypeOK'
    BY <2>4 DEF UsbBusPublishes, TypeOK, devVars, histVars, countVars
  <2>5. QED BY <1>6, <2>1, <2>2, <2>3, <2>4
<1>7. ASSUME NEW p \in Ctx, NEW t \in Timeout, SetAttributes(p, t) PROVE TypeOK'
  BY <1>7, BindingAssumption
  DEF SetAttributes, ACM_DEFAULT_TIMEOUT, TypeOK, usbVars, histVars, countVars
<1>8. ASSUME NEW p \in Ctx, ConsoleAttaches(p) \/ Write(p) PROVE TypeOK'
  BY <1>8 DEF ConsoleAttaches, Write, Event, TypeOK, usbVars, devVars, histVars, countVars
<1>9. CASE BmcTakesBytes \/ TransferTimesOut
  BY <1>9 DEF BmcTakesBytes, TransferTimesOut, WriteEnds, TypeOK, usbVars, devVars,
               histVars, countVars
<1>10. CASE UNCHANGED vars
  BY <1>10 DEF vars, TypeOK, usbVars, devVars, histVars, countVars
<1>11. CASE Consoles
  BY <1>7, <1>8, <1>9, <1>11 DEF Consoles
<1>12. QED BY <1>1, <1>2, <1>3, <1>4, <1>5, <1>6, <1>10, <1>11 DEF Next, UsbBus

-----------------------------------------------------------------------------
(* The inductive invariant. *)

CInv ==
  /\ NothingLeaks /\ HoldsItsInterfaces /\ PolledWhilePublished
  /\ OpenInv /\ RoleInv /\ TiedInv /\ DisjointInv

coreVars == <<present, nic, opens, dev, ctrl, data, orphaned, unpolled>>

LEMMA CoreFrame == CInv /\ UNCHANGED coreVars => CInv'
BY DEF CInv, coreVars, NothingLeaks, HoldsItsInterfaces, PolledWhilePublished, OpenInv,
       RoleInv, TiedInv, DisjointInv, Published, Interfaces

LEMMA StartKeeps ==
  ASSUME TypeOK, CInv, NEW p \in Ctx, NEW i \in Iface, NEW unread \in SUBSET Iface,
         Start(p, i, unread)
  PROVE  CInv'
<1>1. PICK c \in FindDataInterface(i, unread) :
        opens' = opens \cup {i, c} /\ data' = [data EXCEPT ![p] = c]
  BY DEF Start
<1>2. c \in Iface /\ Opens(c) /\ Class[c] = "data" /\ SameDevice(i, c)
  BY FoundData
<1>3. /\ Opens(i) /\ Class[i] = "acm" /\ c # i
      /\ dev[p] = {} /\ dev' = [dev EXCEPT ![p] = Piece]
      /\ ctrl' = [ctrl EXCEPT ![p] = i]
      /\ present' = present /\ nic' = nic /\ orphaned' = orphaned /\ unpolled' = unpolled
  BY <1>2 DEF Start, Supported, IsAcmControlInterface, usbVars, histVars
<1>4. /\ dev'[p] = Piece /\ ctrl'[p] = i /\ data'[p] = c
      /\ \A q \in Ctx \ {p} : dev'[q] = dev[q] /\ ctrl'[q] = ctrl[q] /\ data'[q] = data[q]
  BY <1>1, <1>3 DEF TypeOK
<1>5. {i, c} \subseteq present \ (nic \cup opens)
  BY <1>2, <1>3 DEF Opens
<1>6. ~Published(p) /\ \A q \in Ctx \ {p} : Published(q)' <=> Published(q)
  BY <1>3, <1>4 DEF Published
<1>7. \A q \in Ctx \ {p} : Published(q) /\ q \notin orphaned =>
        Interfaces(q) \cap {i, c} = {}
  BY <1>5 DEF CInv, HoldsItsInterfaces
<1>8. NothingLeaks'
  BY <1>1, <1>3, <1>4, <1>6 DEF CInv, NothingLeaks, Published, Interfaces, Piece
<1>9. HoldsItsInterfaces'
  BY <1>1, <1>3, <1>4, <1>5, <1>6
  DEF CInv, HoldsItsInterfaces, Interfaces
<1>10. PolledWhilePublished'
  BY <1>3, <1>4 DEF CInv, PolledWhilePublished, Published, Piece
<1>11. OpenInv'
  BY <1>1, <1>3, <1>5 DEF CInv, OpenInv
<1>12. RoleInv'
  BY <1>2, <1>3, <1>4, <1>6 DEF CInv, RoleInv, SameDevice
<1>13. TiedInv'
  <2>1. \A q \in Ctx \ {p} :
          Published(q) /\ (q \notin orphaned \/ "tied" \in dev[q]) => ctrl[q] # i
    BY <1>5, <1>7 DEF CInv, TiedInv, Interfaces
  <2>2. \A q \in Ctx \ {p} : "tied" \in dev[q] =>
          /\ Published(q) /\ ctrl[q] \in opens
          /\ \A r \in Ctx \ {q} :
               Published(r) /\ (r \notin orphaned \/ "tied" \in dev[r]) => ctrl[q] # ctrl[r]
    BY DEF CInv, TiedInv
  <2>3. Published(p)' BY <1>4 DEF Published, Piece
  <2>4. QED BY <1>1, <1>3, <1>4, <1>6, <2>1, <2>2, <2>3 DEF TiedInv
<1>14. DisjointInv'
  <2>1. \A q \in Ctx \ {p} : Published(q) /\ q \notin orphaned => data[q] # c
    BY <1>7 DEF Interfaces
  <2>2. QED BY <1>3, <1>4, <1>6, <2>1 DEF CInv, DisjointInv
<1>15. QED BY <1>8, <1>9, <1>10, <1>11, <1>12, <1>13, <1>14 DEF CInv

LEMMA StopInterfaceKeeps ==
  ASSUME TypeOK, CInv, NEW c \in Iface, StopInterface(c),
         \A p \in Ctx : "tied" \in dev[p] => ctrl[p] # c,
         ctrl' = ctrl, data' = data, nic' \subseteq nic,
         present' = present \/ present' = present \ {c}
  PROVE  CInv'
<1>1. /\ opens' = opens \ {c} /\ dev' = dev /\ unpolled' = unpolled
      /\ orphaned' = orphaned \cup {p \in Ctx : Published(p) /\ c \in Interfaces(p)}
  BY DEF StopInterface
<1>2. NothingLeaks'
  BY <1>1 DEF CInv, NothingLeaks, Published, Interfaces
<1>3. HoldsItsInterfaces'
  BY <1>1 DEF CInv, HoldsItsInterfaces, Published, Interfaces
<1>4. PolledWhilePublished'
  BY <1>1 DEF CInv, PolledWhilePublished, Published
<1>5. OpenInv'
  BY <1>1 DEF CInv, OpenInv
<1>6. RoleInv'
  BY <1>1 DEF CInv, RoleInv, Published, SameDevice
<1>7. TiedInv'
  BY <1>1 DEF CInv, TiedInv, Published
<1>8. DisjointInv'
  BY <1>1 DEF CInv, DisjointInv, Published
<1>9. QED BY <1>2, <1>3, <1>4, <1>5, <1>6, <1>7, <1>8 DEF CInv

LEMMA StopChildKeeps ==
  ASSUME TypeOK, CInv, NEW c \in Iface, NEW p \in Ctx, StopChild(p),
         ctrl[p] = c, "tied" \in dev[p],
         ctrl' = ctrl, data' = data, nic' \subseteq nic,
         present' = present \/ present' = present \ {c}
  PROVE  CInv'
<1>1. /\ dev' = [dev EXCEPT ![p] = {}] /\ opens' = opens \ Interfaces(p)
      /\ unpolled' = unpolled \ {p}
  BY DEF StopChild
<1>2. dev'[p] = {} /\ \A q \in Ctx \ {p} : dev'[q] = dev[q]
  BY <1>1 DEF TypeOK
<1>3. ~Published(p)' /\ \A q \in Ctx \ {p} : Published(q)' <=> Published(q)
  BY <1>2 DEF Published
<1>4. \A q \in Ctx \ {p} : q \notin orphaned' => q \notin orphaned
  BY DEF StopChild
<1>5. \A q \in Ctx \ {p} : Published(q) /\ q \notin orphaned' => data[q] # data[p]
  BY DEF StopChild, CInv, DisjointInv, TiedInv
<1>6. \A q \in Ctx \ {p} : Published(q) /\ q \notin orphaned' => ctrl[q] # ctrl[p]
  BY <1>4 DEF CInv, TiedInv
<1>7. \A q \in Ctx \ {p} : Published(q) /\ q \notin orphaned' =>
        Interfaces(q) \cap Interfaces(p) = {}
  BY <1>5, <1>6 DEF CInv, TiedInv, RoleInv, Interfaces
<1>8. NothingLeaks'
  BY <1>1, <1>2, <1>3 DEF CInv, NothingLeaks, Interfaces
<1>9. HoldsItsInterfaces'
  BY <1>1, <1>3, <1>4, <1>7 DEF CInv, HoldsItsInterfaces, Interfaces
<1>10. PolledWhilePublished'
  BY <1>1, <1>2, <1>3 DEF CInv, PolledWhilePublished
<1>11. OpenInv'
  BY <1>1 DEF CInv, OpenInv, Interfaces
<1>12. RoleInv'
  BY <1>3 DEF CInv, RoleInv, SameDevice
<1>13. TiedInv'
  <2> SUFFICES ASSUME NEW r \in Ctx \ {p}, "tied" \in dev[r]
               PROVE  /\ Published(r)' /\ ctrl[r] \in opens'
                      /\ \A q \in Ctx \ {r} :
                           Published(q)' /\ (q \notin orphaned' \/ "tied" \in dev'[q]) =>
                             ctrl[r] # ctrl[q]
    BY <1>2 DEF TiedInv
  <2>2. Published(r) /\ ctrl[r] \in opens
    BY DEF CInv, TiedInv
  <2>3. ctrl[r] \notin Interfaces(p)
    BY <2>2 DEF CInv, TiedInv, RoleInv, Interfaces
  <2>4. QED BY <1>1, <1>2, <1>3, <1>4, <2>2, <2>3 DEF CInv, TiedInv
<1>14. DisjointInv'
  BY <1>3, <1>4 DEF CInv, DisjointInv
<1>15. QED BY <1>8, <1>9, <1>10, <1>11, <1>12, <1>13, <1>14 DEF CInv

LEMMA RefusedKeeps ==
  ASSUME TypeOK, CInv, NEW p \in Ctx, NEW fault \in BOOLEAN, UninstallRefused(p, fault),
         "tied" \in dev[p],
         ctrl' = ctrl, data' = data, nic' \subseteq nic, present' = present
  PROVE  CInv'
<1>1. PICK lost \in {{}, {"tied"}, {"timer"}, {"event", "timer"}} :
        /\ dev' = [dev EXCEPT ![p] = RestorePort(p) \ lost]
        /\ unpolled' = IF "timer" \in lost THEN unpolled \cup {p} ELSE unpolled \ {p}
  BY DEF UninstallRefused
<1>2. opens' = opens /\ orphaned' = orphaned
  BY DEF UninstallRefused
<1>3. /\ dev'[p] = (dev[p] \cup {"tied", "event", "timer"}) \ lost
      /\ \A q \in Ctx \ {p} : dev'[q] = dev[q]
  BY <1>1 DEF TypeOK, RestorePort
<1>4. Published(p) /\ {"dev", "scratch", "path", "child"} \subseteq dev[p]
  BY DEF CInv, TiedInv, NothingLeaks
<1>5. {"dev", "scratch", "path", "child"} \subseteq dev'[p]
  BY <1>1, <1>3, <1>4
<1>6. \A q \in Ctx : Published(q)' <=> Published(q)
  BY <1>3, <1>4, <1>5 DEF Published
<1>7. NothingLeaks'
  BY <1>2, <1>3, <1>5, <1>6 DEF CInv, NothingLeaks, Interfaces
<1>8. HoldsItsInterfaces'
  BY <1>2, <1>6 DEF CInv, HoldsItsInterfaces, Interfaces
<1>9. PolledWhilePublished'
  BY <1>1, <1>3, <1>4, <1>6 DEF CInv, PolledWhilePublished
<1>10. OpenInv'
  BY <1>2 DEF CInv, OpenInv
<1>11. RoleInv'
  BY <1>6 DEF CInv, RoleInv, SameDevice
<1>12. TiedInv'
  <2>1. \A q \in Ctx : "tied" \in dev'[q] => "tied" \in dev[q]
    BY <1>3
  <2>2. QED BY <1>2, <1>6, <2>1 DEF CInv, TiedInv
<1>13. DisjointInv'
  BY <1>2, <1>6 DEF CInv, DisjointInv
<1>14. QED BY <1>7, <1>8, <1>9, <1>10, <1>11, <1>12, <1>13 DEF CInv

LEMMA DisconnectKeeps ==
  ASSUME TypeOK, CInv, NEW c \in Iface, NEW fault \in BOOLEAN, NEW ok \in BOOLEAN,
         Disconnects(c, fault, ok),
         present' = present \/ (ok /\ present' = present \ {c})
  PROVE  CInv'
<1> DEFINE tied == {p \in Ctx : ctrl[p] = c /\ "tied" \in dev[p]}
<1>1. ctrl' = ctrl /\ data' = data /\ nic' \subseteq nic
  BY DEF Disconnects
<1>2. CASE tied = {} /\ StopInterface(c)
  BY <1>1, <1>2, StopInterfaceKeeps
<1>3. CASE \E p \in tied : StopChild(p)
  BY <1>1, <1>3, StopChildKeeps
<1>4. CASE ~ok /\ \E p \in tied : UninstallRefused(p, fault)
  BY <1>1, <1>4, RefusedKeeps
<1>5. QED BY <1>2, <1>3, <1>4 DEF Disconnects

LEMMA CoreStep == TypeOK /\ CInv /\ [Next]_vars => CInv'
<1> SUFFICES ASSUME TypeOK, CInv, [Next]_vars PROVE CInv'
  OBVIOUS
<1>1. ASSUME NEW p \in Ctx, NEW i \in Iface, NEW unread \in SUBSET Iface,
             Start(p, i, unread)
      PROVE  CInv'
  BY <1>1, StartKeeps
<1>2. ASSUME NEW p \in Ctx, NEW i \in Iface, NEW call \in Call, NEW fault \in BOOLEAN,
             StartFails(p, i, call, fault)
      PROVE  CInv'
  <2>1. dev' = dev /\ opens' = opens BY <1>2, FailedStartChangesNothing
  <2>2. UNCHANGED <<usbVars, nic, ctrl, data, histVars>>
    BY <1>2 DEF StartFails
  <2>3. QED BY <2>1, <2>2, CoreFrame DEF coreVars, usbVars, histVars
<1>3. ASSUME NEW c \in Iface, NEW fault \in BOOLEAN, NEW ok \in BOOLEAN,
             Disconnect(c, fault, ok) \/ UsbBusRemoves(c, fault, ok)
      PROVE  CInv'
  <2>1. Disconnects(c, fault, ok)
    BY <1>3 DEF Disconnect, UsbBusRemoves
  <2>2. present' = present \/ (ok /\ present' = present \ {c})
    BY <1>3 DEF Disconnect, UsbBusRemoves, usbVars
  <2>3. QED BY <2>1, <2>2, DisconnectKeeps
<1>4. ASSUME NEW c \in Iface, NicStarts(c) PROVE CInv'
  <2>1. /\ nic' \subseteq {d \in Iface : Opens(d)}
        /\ UNCHANGED <<present, opens, dev, ctrl, data, orphaned, unpolled>>
    BY <1>4, BindingAssumption DEF NicStarts, usbVars, devVars, histVars
  <2>2. nic' \cap opens = {}
    BY <2>1 DEF Opens
  <2>3. QED
    BY <2>1, <2>2 DEF CInv, NothingLeaks, HoldsItsInterfaces, PolledWhilePublished,
       OpenInv, RoleInv, TiedInv, DisjointInv, Published, Interfaces
<1>5. ASSUME NEW i \in Iface, UsbBusPublishes(i) PROVE CInv'
  <2>1. /\ present' = present \cup {i}
        /\ UNCHANGED <<nic, opens, dev, ctrl, data, orphaned, unpolled>>
    BY <1>5 DEF UsbBusPublishes, devVars, histVars
  <2>2. QED
    BY <2>1 DEF CInv, NothingLeaks, HoldsItsInterfaces, PolledWhilePublished,
       OpenInv, RoleInv, TiedInv, DisjointInv, Published, Interfaces
<1>6. CASE Plug \/ Unplug \/ UsbBusTriesAgain
  BY <1>6, CoreFrame DEF Plug, Unplug, UsbBusTriesAgain, coreVars, devVars, histVars
<1>7. CASE Consoles
  <2>1. UNCHANGED coreVars
    BY <1>7 DEF Consoles, ConsoleAttaches, Write, SetAttributes,
       BmcTakesBytes, TransferTimesOut, WriteEnds, coreVars, usbVars, devVars, histVars
  <2>2. QED BY <2>1, CoreFrame
<1>8. CASE UNCHANGED vars
  BY <1>8, CoreFrame DEF vars, coreVars, usbVars, devVars, histVars
<1>9. QED BY <1>1, <1>2, <1>3, <1>4, <1>5, <1>6, <1>7, <1>8 DEF Next, UsbBus

LEMMA InitHolds == Init => TypeOK /\ CInv
<1> SUFFICES ASSUME Init PROVE TypeOK /\ CInv
  OBVIOUS
<1>1. NoIface \in Iface
  BY BindingAssumption DEF NoIface
<1>2. TypeOK
  <2>1. plugged \in BOOLEAN BY Zenon DEF Init
  <2>2. QED BY <1>1, <2>1, BindingAssumption DEF Init, TypeOK, ACM_DEFAULT_TIMEOUT
<1>3. CInv
  BY DEF Init, CInv, NothingLeaks, HoldsItsInterfaces, PolledWhilePublished, OpenInv,
     RoleInv, TiedInv, DisjointInv, Published
<1>4. QED BY <1>2, <1>3

LEMMA Inductive == Spec => [](TypeOK /\ CInv)
BY InitHolds, TypeStep, CoreStep, PTL DEF Spec

-----------------------------------------------------------------------------
(* The theorems. *)

\* Types hold in every state of the binding.
THEOREM TypeCorrect == Spec => []TypeOK
BY Inductive, PTL

\* Whichever call of Start fails and whatever is stopped, unplugged or refused,
\* the driver keeps no context without a published child and no interface open
\* that is not a published port's (UsbCdcAcmDriverStart's and
\* UsbCdcAcmInstallSerialIo's labels, UsbCdcAcmDriverStop).
THEOREM StartAndStopRelease == Spec => []NothingLeaks
BY Inductive, PTL DEF CInv

\* A published port whose handles are not stopped by themselves has its two
\* interfaces, and the NIC's driver has neither (FindDataInterface,
\* UsbCdcAcmDriverStop).
THEOREM PortsHoldTheirInterfaces == Spec => []HoldsItsInterfaces
BY Inductive, PTL DEF CInv

\* A published port is polled unless the poll could not be restored, and nothing
\* polls without a port (UsbCdcAcmInstallSerialIo, UsbCdcAcmUninstallSerialIo).
THEOREM PortsArePolled == Spec => []PolledWhilePublished
BY Inductive, PTL DEF CInv
=============================================================================
