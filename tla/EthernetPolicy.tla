---------------------------- MODULE EthernetPolicy ----------------------------
(***************************************************************************)
(* The onboard NIC's IPv4 policy over boots: EthConfigDxe applies EthCfg,  *)
(* the EthernetInterface drivers exchange it with the BMC at ReadyToBoot,  *)
(* the feature core resets when a question changed.  Redfish clients write *)
(* the BMC's members at any moment, a user writes the questions in Setup,  *)
(* calls fail and the power goes.                                          *)
(***************************************************************************)
EXTENDS EthernetInterface, FiniteSets

CONSTANTS
  Body,         \* what a Redfish client makes of a member
  SetupConfig,  \* what a user makes of the questions
  Known,        \* what the BMC may hold of the host's members to begin with
  OwnIp4,       \* what the NICs may hold from their native form
  MaxWrites,    \* bound: writes by clients and users
  MaxFaults     \* bound: failed calls, power cuts and lost state

ASSUME PolicyAssumption ==
  /\ Body \subseteq Written
  /\ SetupConfig \subseteq Config
  /\ Known \subseteq Representation /\ \A b \in Known : b.ver > 0
  /\ OwnIp4 \subseteq Ip4Data
  /\ Member # {}
  /\ MaxWrites \in Nat /\ MaxFaults \in Nat

VARIABLES
  unbound,      \* NICs that BDS has not connected in this boot
  faulty,       \* history: a call failed in this boot
  resets,       \* history: resets by the feature core since the last write or
                \* fault
  writes, faults

countVars == <<faulty, resets, writes, faults>>
vars == <<configVars, exchangeVars, unbound, countVars>>

\* A call fails in this step, or none does.
Charge(fault) ==
  IF fault
    THEN /\ faults < MaxFaults
         /\ faults' = faults + 1
         /\ faulty' = TRUE
         /\ resets' = 0
         /\ UNCHANGED writes
    ELSE UNCHANGED countVars

TypeOK ==
  /\ ConfigTypeOK
  /\ bmc \in [Member -> Representation]
  /\ etag \in [Member -> Nat]
  /\ mapped \subseteq Member
  /\ rebootRequired \in BOOLEAN
  /\ pc \in {"off", "bds", "collection", "create", "members", "consume", "update",
             "etag", "end", "os"}
  /\ todo \subseteq Member
  /\ cur \in Member
  /\ got \in Representation
  /\ seen \in [Member -> Nat]
  /\ raced \subseteq Member
  /\ unbound \subseteq Nic
  /\ faulty \in BOOLEAN
  /\ resets \in Nat /\ writes \in Nat /\ faults \in Nat

\* A new or reflashed host against a BMC that may know it already.
Init ==
  /\ EthCfg = DefaultConfig
  /\ wellFormed \in BOOLEAN
  /\ nic \in [Nic -> OwnIp4]
  /\ mNicClaimed = FALSE
  /\ published = FALSE
  /\ managed = {}
  /\ bmc = [m \in Member |-> NoBody] \/ bmc \in [Member -> Known]
  /\ etag = [m \in Member |-> 0]
  /\ mapped = {}
  /\ rebootRequired = FALSE
  /\ pc = "off"
  /\ todo = {}
  /\ cur = CHOOSE m \in Member : TRUE
  /\ got = NoBody
  /\ seen = [m \in Member |-> 0]
  /\ raced = {}
  /\ unbound = {}
  /\ faulty = FALSE
  /\ resets = 0
  /\ writes = 0
  /\ faults = 0

-----------------------------------------------------------------------------
(* The firmware's boot. *)

\* A reset or a power cut: the configure-language map may survive it, and what
\* is in memory does not.
Off ==
  /\ pc' = "off"
  /\ mapped' \in {mapped, {}}
  /\ rebootRequired' = FALSE
  /\ mNicClaimed' = FALSE
  /\ published' = FALSE
  /\ managed' = {}
  /\ unbound' = {}
  /\ todo' = {}
  /\ got' = NoBody
  /\ UNCHANGED <<wellFormed, nic, bmcVars, cur, seen, raced>>

Boot(fault) ==
  /\ pc = "off"
  /\ pc' = "bds"
  /\ unbound' = Nic
  /\ EthConfigEntryPoint(fault)
  /\ fault => ~wellFormed
  /\ IF fault THEN Charge(TRUE)
     ELSE faulty' = FALSE /\ UNCHANGED <<resets, writes, faults>>
  /\ UNCHANGED <<bmcVars, mapped, rebootRequired, todo, cur, got, seen, raced>>

\* BDS connects a NIC and Ip4Dxe binds it, or fails to.
Connect(n, fault) ==
  /\ pc = "bds"
  /\ n \in unbound
  /\ unbound' = unbound \ {n}
  /\ Charge(fault)
  /\ \/ OnIp4Config2Installed(n, fault)
     \/ fault /\ UNCHANGED configVars
  /\ UNCHANGED exchangeVars

ReadyToBoot ==
  /\ pc = "bds"
  /\ unbound = {}
  /\ pc' = "collection"
  /\ UNCHANGED <<configVars, bmcVars, mapped, rebootRequired, todo, cur, got, seen,
                 raced, unbound, countVars>>

\* The handlers of the walk, over the questions as they are.
Walk(fault) ==
  /\ Charge(fault)
  /\ \/ /\ \/ RedfishCollectionFeatureCallback(fault)
           \/ CreateCollectionResource(fault)
           \/ \E m \in Member : HandleResource(m, fault)
           \/ RedfishResourceUpdate(fault)
           \/ SetEtagFromUri(fault)
           \/ ~fault /\ EndWalk
        /\ UNCHANGED EthCfg
     \/ RedfishResourceConsumeResource(fault)
  /\ UNCHANGED <<wellFormed, nic, mNicClaimed, published, managed, unbound>>

\* The feature core cold-resets, or the boot goes on to the OS.
CoreEnds ==
  /\ pc = "end"
  /\ IF rebootRequired
       THEN Off /\ resets' = resets + 1
       ELSE /\ pc' = "os"
            /\ UNCHANGED <<wellFormed, nic, mNicClaimed, published, managed, bmcVars,
                           mapped, rebootRequired, todo, cur, got, seen, raced,
                           unbound, resets>>
  /\ UNCHANGED <<EthCfg, faulty, writes, faults>>

-----------------------------------------------------------------------------
(* Everybody else. *)

\* The OS restarts the machine.
Restart ==
  /\ pc = "os"
  /\ Off
  /\ UNCHANGED <<EthCfg, countVars>>

Write == writes < MaxWrites /\ writes' = writes + 1 /\ resets' = 0

\* A client PATCHes a member; MACAddress is the host's to report.
ClientWrites(m, b) ==
  /\ Write
  /\ bmc[m] # NoBody
  /\ bmc' = [bmc EXCEPT ![m] =
                Stored(bmc[m], [dhcp |-> b.dhcp, mac |-> bmc[m].mac,
                                static |-> b.static, servers |-> b.servers])]
  /\ bmc' # bmc
  /\ raced' = IF m = cur /\ pc \in {"consume", "update", "etag"}
                THEN raced \cup {m} ELSE raced
  /\ UNCHANGED <<configVars, etag, mapped, rebootRequired, walkVars, seen, unbound,
                 faulty, faults>>

\* A user saves the page in Setup, which every question makes a reset.
SetupSaves(c) ==
  /\ Write
  /\ pc = "bds"
  /\ Readable
  /\ EthCfg' = [q \in Question |-> IF q = "mac" THEN EthCfg["mac"] ELSE c[q]]
  /\ Off
  /\ UNCHANGED <<faulty, faults>>

\* The power goes; what is persistent stays.
PowerCut ==
  /\ pc # "off"
  /\ Charge(TRUE)
  /\ Off
  /\ UNCHANGED EthCfg

\* The BMC's ETags change although its members do not, or the host's record of
\* them is lost.
ForgetEtags ==
  /\ Charge(TRUE)
  /\ etag' = [m \in Member |-> 0]
  /\ UNCHANGED <<configVars, bmc, mapped, rebootRequired, walkVars, seen, raced,
                 unbound>>

\* The variable store is reset, or another firmware left another layout.
LoseVariable ==
  /\ pc = "off"
  /\ Charge(TRUE)
  /\ wellFormed' = FALSE
  /\ UNCHANGED <<EthCfg, nic, mNicClaimed, published, managed, exchangeVars, unbound>>

Firmware == \E f \in BOOLEAN :
              Boot(f) \/ Walk(f) \/ \E n \in Nic : Connect(n, f)

Next ==
  \/ Firmware \/ ReadyToBoot \/ CoreEnds \/ Restart
  \/ \E m \in Member, b \in Body : ClientWrites(m, b)
  \/ \E c \in SetupConfig : SetupSaves(c)
  \/ PowerCut \/ ForgetEtags \/ LoseVariable

Spec == Init /\ [][Next]_vars

\* The firmware keeps executing; nothing else is assumed to happen.
Progress ==
  \/ Boot(FALSE) \/ Walk(FALSE) \/ ReadyToBoot \/ CoreEnds
  \/ \E n \in Nic : Connect(n, FALSE)

FairSpec == Spec /\ WF_vars(Progress)

-----------------------------------------------------------------------------
(* What the policy promises. *)

KeepsLink == \A n \in Usb : nic'[n] = nic[n] /\ EthCfg'["mac"] # n

\* The BMC's own USB link is never reconfigured, nor reported as the managed
\* NIC, whatever the order NICs bind in and whatever clients write
\* (OnIp4Config2Installed, ClassifyNicDevicePath).
BmcLinkUntouched == [][KeepsLink]_vars

Onboard == Nic \ (Usb \cup NoMac \cup NoPath)

\* The OS never starts over a NIC that runs something else than the questions
\* say: what a client changed in this boot is applied first, through the reset,
\* even if the exchange failed after the change; and in a boot without failures
\* an onboard NIC was given the questions (ApplyConfig, OnIp4Config2Installed,
\* the consume helpers' reboot request).  A NIC that refused a call is excluded.
OsRunsApplied ==
  pc = "os" => /\ \A n \in managed : Runs(nic[n], EthCfg)
               /\ ~faulty /\ Onboard # {} => managed # {}

\* When the OS starts after a boot without failures, each member that nobody
\* wrote since shows the configuration the host runs (HandleResource,
\* CreateCollectionResource).
OsRunsAgreed ==
  pc = "os" /\ ~faulty /\ Readable =>
    \A m \in Existing : seen[m] = bmc[m].ver => Patched(bmc[m]) = bmc[m]

\* Once clients and failures leave the host alone, the boots that follow bring it
\* and the BMC to one configuration for good, whatever was written between a GET
\* and a PATCH, consumed in part or not at all before (HandleResource, whose
\* update follows every consume).
AgreementSettles ==
  []<>(pc = "off") =>
    <>[](pc = "os" /\ Readable => \A m \in Existing : Patched(bmc[m]) = bmc[m])

\* The recorded ETag never hides a representation that the host did not take,
\* unless it was written between the host's first GET of the member and the
\* ETag's (RedfishConsumeResourceCommon's CheckEtag, SetEtagFromUri).
EtagIsHonest ==
  \A m \in Existing : etag[m] = bmc[m].ver => seen[m] = bmc[m].ver \/ m \in raced

Overwrites(m) ==
  /\ bmc[m] # NoBody
  /\ seen[m] # bmc[m].ver
  /\ bmc'[m] # bmc[m]
  /\ seen'[m] = bmc'[m].ver

ConsumesFirst ==
  \A m \in Member : Overwrites(m) => m \in raced \/ faulty' \/ bmc[m].dhcp = "absent"

\* The host overwrites what a client wrote only after taking it, except for a
\* write that races the exchange of that member, a boot with a failure, and a
\* member without the DHCPv4 marker, which is provisioned unread
\* (HandleResource: consume first, then patch).
ClientWritesAreTaken == [][ConsumesFirst]_vars

\* No boot loop: without a new write or failure the feature core resets at most
\* twice, since the boot after a reset records every member's ETag, and a member
\* with the recorded ETag is not consumed again (RedfishConsumeResourceCommon's
\* CheckEtag, SetEtagFromUri).
NoBootLoop == resets <= 2

Adopts == Existing' # Existing => Existing = {} /\ Cardinality(Existing') = 1

\* The host creates a member only on a BMC that has none, over power cuts,
\* failed GETs and lost answers: one that exists is adopted
\* (RedfishIdentifyResourceCommon, CollectionHandler).
NeverDuplicates == [][Adopts]_vars

\* What a client changed reaches the NIC in a later boot without anybody's help,
\* unless the NIC does not come up, refuses a call or the variable is lost (the
\* reset after the walk, ApplyConfig).
ChangeIsApplied ==
  rebootRequired ~> \/ ~rebootRequired /\ \E n \in managed : Runs(nic[n], EthCfg)
                    \/ pc = "os" /\ managed = {}
=============================================================================
