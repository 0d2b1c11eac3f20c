------------------------------- MODULE EthConfig -------------------------------
(***************************************************************************)
(* EthConfigDxe: the EthCfg variable behind the BMC-managed IPv4 questions *)
(* and its application to the onboard NIC.  The actions constrain this     *)
(* driver's variables only; EthernetPolicy composes them with the rest.    *)
(***************************************************************************)
EXTENDS Naturals

CONSTANTS
  Nic,       \* the NICs Ip4Dxe binds, each standing for its MAC address too
  Usb,       \* those with a USB node in their device path: the BMC's gadget
  NoMac,     \* those without a MAC node
  NoPath,    \* those whose handle has no device path
  Text,      \* what the string questions may hold
  Ip,        \* the texts NetLibStrToIp4() parses
  Unicast    \* pairs of an address and a mask of length 1..32 under which
             \* NetIp4IsUnicast() holds

\* The fields of NUC_ETH_CONFIG; "on" and "off" are the values of "dhcp".
Question == {"dhcp", "mac", "addr", "mask", "gw", "dns1", "dns2"}
Value == Text \cup Nic \cup {"", "on", "off"}
Config == [Question -> Value]

\* What Ip4Config2 keeps for a NIC, in non-volatile storage: the policy, the
\* manual address and mask, the gateway and the DNS list.
Ip4Field == Question \ {"mac"}
Ip4Data == [Ip4Field -> Value]

ASSUME EthConfigAssumption ==
  /\ Usb \subseteq Nic /\ NoMac \subseteq Nic /\ NoPath \subseteq Nic
  /\ Ip \subseteq Text
  /\ Unicast \subseteq Ip \X Ip
  /\ "" \notin Text \cup Nic

VARIABLES
  EthCfg,       \* the variable's content
  wellFormed,   \* it is there and has the layout's size
  nic,          \* what Ip4Config2 holds for each NIC
  mNicClaimed,
  published,    \* the formset is in the HII database
  managed       \* history: the NIC given the variable's content in this boot, every
                \* call having succeeded

configVars == <<EthCfg, wellFormed, nic, mNicClaimed, published, managed>>

ConfigTypeOK ==
  /\ EthCfg \in Config
  /\ wellFormed \in BOOLEAN
  /\ nic \in [Nic -> Ip4Data]
  /\ mNicClaimed \in BOOLEAN
  /\ published \in BOOLEAN
  /\ managed \subseteq Nic

DefaultConfig == [q \in Question |-> IF q = "dhcp" THEN "on" ELSE ""]

-----------------------------------------------------------------------------
(* Applying the variable to a NIC. *)

ParseIp4Field(s) ==
  IF s = "" THEN "NOT_FOUND" ELSE IF s \in Ip THEN "SUCCESS" ELSE "INVALID_PARAMETER"

\* SetData (Policy): a change of policy drops the manual address, the gateway
\* and the DNS list.
SetPolicy(x, dhcp) ==
  IF x["dhcp"] = dhcp THEN x
  ELSE [f \in Ip4Field |-> IF f = "dhcp" THEN dhcp ELSE ""]

StaticIsValid(c) ==
  /\ ParseIp4Field(c["addr"]) = "SUCCESS"
  /\ ParseIp4Field(c["mask"]) = "SUCCESS"
  /\ <<c["addr"], c["mask"]>> \in Unicast

SetManualAddress(x, c) == [x EXCEPT !["addr"] = c["addr"], !["mask"] = c["mask"]]

GatewayIsValid(c) ==
  ParseIp4Field(c["gw"]) = "SUCCESS" /\ <<c["gw"], c["mask"]>> \in Unicast

\* A gateway that is empty, does not parse or is not unicast leaves the NIC's.
SetGateway(x, c) == IF GatewayIsValid(c) THEN [x EXCEPT !["gw"] = c["gw"]] ELSE x

\* The servers that parse, compacted; none leaves the NIC's list.
SetDns(x, c) ==
  LET one == ParseIp4Field(c["dns1"]) = "SUCCESS"
      two == ParseIp4Field(c["dns2"]) = "SUCCESS"
  IN IF one \/ two
       THEN [x EXCEPT !["dns1"] = IF one THEN c["dns1"] ELSE c["dns2"],
                      !["dns2"] = IF one /\ two THEN c["dns2"] ELSE ""]
       ELSE x

\* Mutant: the policy is set last.
ApplyStaticConfigPolicyLast(x, c) ==
  IF StaticIsValid(c)
    THEN SetPolicy(SetDns(SetGateway(SetManualAddress(x, c), c), c), "off")
    ELSE x

\* ApplyStaticConfig() when every call succeeds.
ApplyStaticConfig(x, c) ==
  IF StaticIsValid(c)
    THEN SetDns(SetGateway(SetManualAddress(SetPolicy(x, "off"), c), c), c)
    ELSE x

\* What it leaves when a call fails: the policy is refused; an event cannot be
\* created, or the address is refused or not confirmed within 5 s; it is
\* confirmed after that; the gateway or the DNS list is refused.
ApplyStaticExits(x, c) ==
  LET static == SetPolicy(x, "off")
      manual == SetManualAddress(static, c)
  IN IF StaticIsValid(c)
       THEN {x, static, manual, SetGateway(manual, c), SetDns(manual, c)}
       ELSE {x}

\* ApplyConfig() to a NIC that holds x; fault says that some call failed.
ApplyConfig(x, c, fault) ==
  IF c["dhcp"] # "on" /\ c["addr"] = "" THEN {x}
  ELSE IF c["dhcp"] = "on"
    THEN {SetPolicy(x, "on")} \cup (IF fault THEN {x} ELSE {})
    ELSE {ApplyStaticConfig(x, c)} \cup (IF fault THEN ApplyStaticExits(x, c) ELSE {})

-----------------------------------------------------------------------------
(* The driver. *)

\* A variable that is absent or of another size is written anew, if SetVariable()
\* succeeds.
EnsureConfigVariable(fault) ==
  /\ wellFormed' = (wellFormed \/ ~fault)
  /\ EthCfg' = IF wellFormed THEN EthCfg ELSE DefaultConfig

EthConfigEntryPoint(fault) ==
  /\ EnsureConfigVariable(fault)
  /\ mNicClaimed' = FALSE
  /\ published' = FALSE
  /\ managed' = {}
  /\ UNCHANGED nic

\* Mutant: the USB test is dropped.
ClaimableAny(n) == ~mNicClaimed /\ n \notin NoPath /\ n \notin NoMac

\* ClassifyNicDevicePath() and the conditions before it.
Claimable(n) == ~mNicClaimed /\ n \notin NoPath /\ n \notin Usb /\ n \notin NoMac

\* The variable can be read: it is there, with the layout's size.
ReadConfigVariable == wellFormed

\* SeedMacAddress() with what SetVariable() answers.
SeedMacAddress(n, ok) ==
  IF ReadConfigVariable /\ ok THEN [EthCfg EXCEPT !["mac"] = n] ELSE EthCfg

\* The driver handle or the package list may be refused.
PublishFormset(fault) == published' \in {TRUE, ~fault}

\* OnIp4Config2Installed() for one NIC of its queue.  fault: some call fails.
OnIp4Config2Installed(n, fault) ==
  IF ~Claimable(n) THEN UNCHANGED configVars
  ELSE
    /\ mNicClaimed' = TRUE
    /\ \E seeded \in {TRUE, ~fault} : EthCfg' = SeedMacAddress(n, seeded)
    /\ PublishFormset(fault)
    /\ IF ReadConfigVariable
         THEN /\ \E x \in ApplyConfig(nic[n], EthCfg, fault) : nic' = [nic EXCEPT ![n] = x]
              /\ managed' = IF fault THEN {} ELSE {n}
         ELSE UNCHANGED <<nic, managed>>
    /\ UNCHANGED wellFormed

-----------------------------------------------------------------------------
(* What a NIC that holds x runs. *)

\* It runs the configuration c: DHCP, or c's address, mask and, as far as they are
\* valid, gateway and name servers.  DHCP off without a valid static address asks
\* for nothing: it leaves the NIC's own configuration alone ("the old Unmanaged
\* behavior").
Runs(x, c) ==
  IF c["dhcp"] = "on" THEN x["dhcp"] = "on"
  ELSE StaticIsValid(c) =>
         /\ x["dhcp"] = "off" /\ x["addr"] = c["addr"] /\ x["mask"] = c["mask"]
         /\ GatewayIsValid(c) => x["gw"] = c["gw"]
         /\ {c["dns1"], c["dns2"]} \cap Ip \subseteq {x["dns1"], x["dns2"]}

=============================================================================
