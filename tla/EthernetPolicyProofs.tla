------------------------- MODULE EthernetPolicyProofs -------------------------
(***************************************************************************)
(* The types, the BMC's link, what the OS starts over and the honesty of   *)
(* the recorded ETag, for any NICs, members, texts and numbers of writes   *)
(* and faults.                                                             *)
(***************************************************************************)
EXTENDS EthernetPolicy, FiniteSetTheorems, SequenceTheorems, TLAPS

-----------------------------------------------------------------------------
(* What the operators return. *)

LEMMA ApplyType ==
  ASSUME NEW x \in Ip4Data, NEW c \in Config, NEW fault \in BOOLEAN,
         NEW y \in ApplyConfig(x, c, fault)
  PROVE  y \in Ip4Data
<1> DEFINE static == SetPolicy(x, "off")
           manual == SetManualAddress(static, c)
<1>1. \A d \in {"on", "off"} : SetPolicy(x, d) \in Ip4Data
  BY Zenon DEF SetPolicy, Ip4Data, Ip4Field, Question, Value
<1>2. \A z \in Ip4Data : SetManualAddress(z, c) \in Ip4Data
  BY Zenon DEF SetManualAddress, Ip4Data, Ip4Field, Question, Config
<1>3. \A z \in Ip4Data : SetGateway(z, c) \in Ip4Data
  BY Zenon DEF SetGateway, Ip4Data, Ip4Field, Question, Config
<1>4. \A z \in Ip4Data : SetDns(z, c) \in Ip4Data
  BY Zenon DEF SetDns, Ip4Data, Ip4Field, Question, Config, Value
<1>5. static \in Ip4Data /\ manual \in Ip4Data
  BY <1>1, <1>2, Zenon
<1>6. ApplyStaticConfig(x, c) \in Ip4Data
  BY <1>3, <1>4, <1>5, Zenon DEF ApplyStaticConfig
<1>7. ApplyStaticExits(x, c) \subseteq Ip4Data
  BY <1>3, <1>4, <1>5, Zenon DEF ApplyStaticExits
<1> QED
  BY <1>1, <1>6, <1>7, Zenon DEF ApplyConfig

\* A NIC that was given a configuration without a failure runs it: the policy goes
\* first, since it drops the rest, and no later call undoes an earlier one.
LEMMA ApplyRuns ==
  ASSUME NEW x \in Ip4Data, NEW c \in Config, NEW y \in ApplyConfig(x, c, FALSE)
  PROVE  Runs(y, c)
<1> DEFINE a == SetPolicy(x, "off")
           b == SetManualAddress(a, c)
           g == SetGateway(b, c)
           d == SetDns(g, c)
<1>1. CASE c["dhcp"] = "on"
  <2>1. y = SetPolicy(x, "on")
    BY <1>1, Zenon DEF ApplyConfig
  <2>2. y["dhcp"] = "on"
    BY <2>1, Zenon DEF SetPolicy, Ip4Field, Question
  <2> QED
    BY <1>1, <2>2, Zenon DEF Runs
<1>2. CASE c["dhcp"] # "on" /\ StaticIsValid(c)
  <2>1. a \in [Ip4Field -> Value] /\ a["dhcp"] = "off"
    BY Zenon DEF SetPolicy, Ip4Data, Ip4Field, Question, Value
  <2> HIDE DEF a
  <2>2. /\ b \in [Ip4Field -> Value]
        /\ b["dhcp"] = "off" /\ b["addr"] = c["addr"] /\ b["mask"] = c["mask"]
    BY <2>1, Zenon DEF SetManualAddress, Ip4Field, Question, Config
  <2> HIDE DEF b
  <2>3. /\ g \in [Ip4Field -> Value]
        /\ g["dhcp"] = "off" /\ g["addr"] = c["addr"] /\ g["mask"] = c["mask"]
        /\ GatewayIsValid(c) => g["gw"] = c["gw"]
    BY <2>2, Zenon DEF SetGateway, Ip4Field, Question, Config
  <2> HIDE DEF g
  <2>4. /\ d["dhcp"] = "off" /\ d["addr"] = c["addr"] /\ d["mask"] = c["mask"]
        /\ GatewayIsValid(c) => d["gw"] = c["gw"]
    BY <2>3, Zenon DEF SetDns, Ip4Field, Question, Config
  <2>5. {c["dns1"], c["dns2"]} \cap Ip \subseteq {d["dns1"], d["dns2"]}
    <3>1. \A s \in Ip : ParseIp4Field(s) = "SUCCESS"
      BY EthConfigAssumption, Zenon DEF ParseIp4Field
    <3>2. c["dns1"] \in Ip => d["dns1"] = c["dns1"]
      BY <2>3, <3>1, Zenon DEF SetDns, Ip4Field, Question
    <3>3. c["dns2"] \in Ip => c["dns2"] \in {d["dns1"], d["dns2"]}
      BY <2>3, <3>1, Zenon DEF SetDns, Ip4Field, Question
    <3> QED
      BY <3>2, <3>3, Zenon
  <2>6. c["addr"] # ""
    BY <1>2, Zenon DEF StaticIsValid, ParseIp4Field
  <2>7. y = d
    BY <1>2, <2>6, Zenon DEF ApplyConfig, ApplyStaticConfig, d, g, b, a
  <2> QED
    BY <1>2, <2>4, <2>5, <2>7, Zenon DEF Runs
<1>3. CASE c["dhcp"] # "on" /\ ~StaticIsValid(c)
  BY <1>3, Zenon DEF Runs
<1> QED
  BY <1>1, <1>2, <1>3, Zenon

\* The reported MAC plays no part in it.
LEMMA RunsWhateverMac ==
  ASSUME NEW x, NEW c \in Config, NEW n, Runs(x, c)
  PROVE  Runs(x, [c EXCEPT !["mac"] = n])
<1> DEFINE e == [c EXCEPT !["mac"] = n]
<1>1. \A q \in Ip4Field : e[q] = c[q]
  BY Zenon DEF Config, Ip4Field
<1> HIDE DEF e
<1>2. /\ e["dhcp"] = c["dhcp"] /\ e["addr"] = c["addr"] /\ e["mask"] = c["mask"]
      /\ e["gw"] = c["gw"] /\ e["dns1"] = c["dns1"] /\ e["dns2"] = c["dns2"]
  BY <1>1, Zenon DEF Ip4Field, Question
<1>3. Runs(x, e)
  BY <1>2, Zenon DEF Runs, StaticIsValid, GatewayIsValid
<1> QED
  BY <1>3, Zenon DEF e

\* What the host writes to a member has the right shape and a version that is
\* not older.
LEMMA StoredType ==
  ASSUME NEW b \in Representation, NEW c,
         c.dhcp \in Value \cup {"none", "absent", "empty"}, c.mac \in Value,
         c.static \in Seq([StaticField -> Value] \cup {Unreadable}),
         c.servers \in Seq(Value)
  PROVE  /\ Stored(b, c) \in Representation
         /\ Stored(b, c).ver \in {b.ver, b.ver + 1}
<1>1. b.ver \in Nat
  BY Zenon DEF Representation
<1> QED
  BY <1>1 DEF Stored, Representation

LEMMA PatchedType ==
  ASSUME NEW b \in Representation, EthCfg \in Config
  PROVE  /\ Patched(b) \in Representation
         /\ Patched(b).ver \in {b.ver, b.ver + 1}
<1> DEFINE p == BuildPayload(EthCfg)
           El == [StaticField -> Value] \cup {Unreadable}
<1>1. \A q \in Question : EthCfg[q] \in Value
  BY Zenon DEF Config
<1>2. p.static \in Seq(El)
  <2>1. [f \in StaticField |-> EthCfg[f]] \in El
    BY <1>1, Zenon DEF StaticField, Question
  <2> HIDE DEF El
  <2>2. <<[f \in StaticField |-> EthCfg[f]]>> \in Seq(El) /\ <<>> \in Seq(El)
    BY <2>1
  <2> QED
    BY <2>2, Zenon DEF BuildPayload
<1>3. p.servers \in Seq(Value)
  <2>1. EthCfg["dns1"] \in Value /\ EthCfg["dns2"] \in Value
    BY <1>1, Zenon DEF Question
  <2>2. ASSUME NEW s \in Value PROVE IfSet(s) \in Seq(Value)
    <3>1. <<s>> \in Seq(Value) /\ <<>> \in Seq(Value)
      OBVIOUS
    <3> QED
      BY <3>1, Zenon DEF IfSet
  <2>3. IfSet(EthCfg["dns1"]) \o IfSet(EthCfg["dns2"]) \in Seq(Value)
    BY <2>1, <2>2
  <2> QED
    BY <2>3, Zenon DEF BuildPayload
<1>4. p.dhcp \in Value /\ p.mac \in Value
  BY <1>1, Zenon DEF BuildPayload, Question
<1>5. b.mac \in Value /\ b.dhcp \in Value \cup {"none", "absent", "empty"}
  BY Zenon DEF Representation
<1>6. CASE Readable
  <2> DEFINE c == [dhcp |-> p.dhcp, mac |-> IF p.mac = "" THEN b.mac ELSE p.mac,
                   static |-> p.static, servers |-> p.servers]
  <2> HIDE DEF p
  <2>1. Patched(b) = Stored(b, c)
    BY <1>6, Zenon DEF Patched, p
  <2>2. /\ c.dhcp \in Value /\ c.mac \in Value
        /\ c.static \in Seq(El) /\ c.servers \in Seq(Value)
    BY <1>2, <1>3, <1>4, <1>5, Zenon
  <2> HIDE DEF c
  <2> QED
    BY <2>1, <2>2, StoredType, Zenon
<1>7. CASE ~Readable
  <2> DEFINE c == [dhcp |-> b.dhcp, mac |-> b.mac, static |-> <<>>, servers |-> <<>>]
  <2>1. Patched(b) = Stored(b, c)
    BY <1>7, Zenon DEF Patched
  <2>2. /\ c.dhcp \in Value \cup {"none", "absent", "empty"} /\ c.mac \in Value
        /\ c.static \in Seq(El) /\ c.servers \in Seq(Value)
    BY <1>5
  <2> HIDE DEF c
  <2> QED
    BY <2>1, <2>2, StoredType, Zenon
<1> QED
  BY <1>6, <1>7, Zenon

\* What is consumed fits the questions, and never the reported MAC.
LEMMA ConsumedType ==
  ASSUME NEW b \in Representation, EthCfg \in Config, NEW failed
  PROVE  /\ Consumed(b, failed) \in Config
         /\ Consumed(b, failed)["mac"] = EthCfg["mac"]
<1>1. "mac" \notin DOMAIN Wanted(b)
  BY Zenon DEF Wanted, ConsumeStaticAddresses, StaticField
<1>2. \A q \in DOMAIN Wanted(b) : Wanted(b)[q] \in Value
  <2> DEFINE El == [StaticField -> Value] \cup {Unreadable}
             st == ConsumeStaticAddresses(b)
  <2>1. b.static \in Seq(El) /\ b.servers \in Seq(Value)
    BY Zenon DEF Representation
  <2>2. ASSUME b.static # <<>>, b.static[1] # Unreadable, NEW q \in StaticField
        PROVE  b.static[1][q] \in Value
    <3> HIDE DEF El
    <3>1. b.static[1] \in El
      BY <2>1, <2>2
    <3> QED
      BY <3>1, <2>2, Zenon DEF El
  <2>3. ASSUME b.servers # <<>>
        PROVE  /\ b.servers[1] \in Value
               /\ Len(b.servers) > 1 => b.servers[2] \in Value
    BY <2>1, <2>3
  <2>4. {"on", "off", ""} \subseteq Value
    BY Zenon DEF Value
  <2>5. DOMAIN st \subseteq StaticField /\ \A q \in DOMAIN st : st[q] \in Value
    <3> HIDE DEF El
    <3> QED
      BY <2>2, <2>4, Zenon DEF ConsumeStaticAddresses
  <2> HIDE DEF El, st
  <2> SUFFICES ASSUME NEW q \in DOMAIN Wanted(b) PROVE Wanted(b)[q] \in Value
    BY Zenon
  <2>6. CASE q = "dhcp"
    BY <2>4, <2>5, <2>6, Zenon DEF Wanted, StaticField, st
  <2>7. CASE q \in StaticField
    BY <2>5, <2>7, Zenon DEF Wanted, StaticField, st
  <2>8. CASE q = "dns1"
    BY <2>3, <2>5, <2>8, Zenon DEF Wanted, StaticField, st
  <2>9. CASE q = "dns2"
    BY <2>3, <2>4, <2>5, <2>9, Zenon DEF Wanted, StaticField, st
  <2>10. q \in StaticField \cup {"dhcp", "dns1", "dns2"}
    BY <2>5, Zenon DEF Wanted, st
  <2> QED
    BY <2>6, <2>7, <2>8, <2>9, <2>10, Zenon
<1>3. "mac" \in Question
  BY Zenon DEF Question
<1> QED
  BY <1>1, <1>2, <1>3, Zenon DEF Consumed, ConsumeStringProperty, Config

-----------------------------------------------------------------------------
(* Types. *)

LEMMA BareType ==
  /\ Bare \in Representation /\ NoBody \in Representation
  /\ Bare.ver = 1 /\ NoBody.ver = 0
<1>1. <<>> \in Seq([StaticField -> Value] \cup {Unreadable}) /\ <<>> \in Seq(Value)
  OBVIOUS
<1>2. "" \in Value
  BY Zenon DEF Value
<1> QED
  BY <1>1, <1>2, Zenon DEF Bare, NoBody, Representation

LEMMA InitType == Init => TypeOK
<1> SUFFICES ASSUME Init PROVE TypeOK
  BY Zenon
<1> USE EthConfigAssumption, PolicyAssumption
<1>1. {"on", "off", ""} \subseteq Value
  BY Zenon DEF Value
<1>2. DefaultConfig \in Config
  BY <1>1, Zenon DEF DefaultConfig, Config
<1>3. NoBody \in Representation
  BY BareType, Zenon
<1>4. bmc \in [Member -> Representation]
  BY <1>3, Zenon DEF Init
<1>5. cur \in Member
  BY Zenon DEF Init
<1>6. ConfigTypeOK
  BY <1>2, Zenon DEF Init, ConfigTypeOK
<1> QED
  BY <1>3, <1>4, <1>5, <1>6, Zenon DEF Init, TypeOK

LEMMA OffType ==
  ASSUME TypeOK, Off, EthCfg' \in Config, faulty' \in BOOLEAN,
         resets' \in Nat, writes' \in Nat, faults' \in Nat
  PROVE  TypeOK'
<1>1. got' \in Representation
  BY BareType, Zenon DEF Off
<1> QED
  BY <1>1, Zenon DEF TypeOK, ConfigTypeOK, Off, bmcVars

LEMMA ChargeType ==
  ASSUME TypeOK, NEW fault \in BOOLEAN, Charge(fault)
  PROVE  faulty' \in BOOLEAN /\ resets' \in Nat /\ writes' \in Nat /\ faults' \in Nat
<1>1. CASE fault
  <2>1. faulty' \in BOOLEAN
    BY <1>1, Zenon DEF Charge
  <2>2. resets' \in Nat /\ writes' \in Nat /\ faults' \in Nat
    BY <1>1 DEF TypeOK, Charge
  <2> QED
    BY <2>1, <2>2, Zenon
<1>2. CASE ~fault
  BY <1>2, Zenon DEF TypeOK, Charge, countVars
<1> QED
  BY <1>1, <1>2, Zenon

LEMMA TypeStep == TypeOK /\ [Next]_vars => TypeOK'
<1> SUFFICES ASSUME TypeOK, [Next]_vars PROVE TypeOK'
  BY Zenon
<1>1. ASSUME NEW f \in BOOLEAN, Boot(f) PROVE TypeOK'
  <2>1. faulty' \in BOOLEAN /\ resets' \in Nat /\ writes' \in Nat /\ faults' \in Nat
    <3>1. CASE f
      BY <1>1, <3>1, ChargeType, Zenon DEF Boot
    <3>2. CASE ~f
      <4>1. faulty' \in BOOLEAN
        BY <1>1, <3>2, Zenon DEF Boot
      <4> QED
        BY <1>1, <3>2, <4>1, Zenon DEF Boot, TypeOK
    <3> QED
      BY <3>1, <3>2, Zenon
  <2>2. EthCfg' \in Config
    <3>1. DefaultConfig \in Config
      BY Zenon DEF DefaultConfig, Config, Value
    <3> QED
      BY <1>1, <3>1, Zenon DEF Boot, EthConfigEntryPoint, EnsureConfigVariable, TypeOK, ConfigTypeOK
  <2>3. wellFormed' \in BOOLEAN
    BY <1>1, Zenon DEF Boot, EthConfigEntryPoint, EnsureConfigVariable, TypeOK, ConfigTypeOK
  <2> QED
    BY <1>1, <2>1, <2>2, <2>3, Zenon
    DEF Boot, EthConfigEntryPoint, TypeOK, ConfigTypeOK, bmcVars
<1>2. ASSUME NEW f \in BOOLEAN, NEW n \in Nic, Connect(n, f) PROVE TypeOK'
  <2>1. ConfigTypeOK'
    <3>1. CASE UNCHANGED configVars
      BY <3>1, Zenon DEF TypeOK, ConfigTypeOK, configVars
    <3>2. CASE OnIp4Config2Installed(n, f) /\ Claimable(n)
      <4> USE <3>2 DEF OnIp4Config2Installed, TypeOK, ConfigTypeOK
      <4>1. EthCfg' \in Config
        <5>1. n \in Value /\ "mac" \in Question
          BY Zenon DEF Value, Question
        <5> QED
          BY <5>1, Zenon DEF SeedMacAddress, Config
      <4>2. published' \in BOOLEAN
        BY Zenon DEF PublishFormset
      <4>3. nic' \in [Nic -> Ip4Data]
        <5>1. CASE ReadConfigVariable
          <6>1. PICK x \in ApplyConfig(nic[n], EthCfg, f) : nic' = [nic EXCEPT ![n] = x]
            BY <5>1, Zenon
          <6>2. x \in Ip4Data
            BY ApplyType, Zenon
          <6> QED
            BY <6>1, <6>2, Zenon
        <5> QED
          BY <5>1, Zenon
      <4>4. managed' \subseteq Nic
        BY Zenon
      <4>5. mNicClaimed' \in BOOLEAN /\ wellFormed' \in BOOLEAN
        BY Zenon
      <4> QED
        BY <4>1, <4>2, <4>3, <4>4, <4>5, Zenon
    <3> QED
      BY <1>2, <3>1, <3>2, Zenon DEF Connect, OnIp4Config2Installed
  <2> QED
    BY <1>2, <2>1, ChargeType, Zenon
    DEF Connect, TypeOK, exchangeVars, bmcVars, walkVars
<1>3. ASSUME NEW f \in BOOLEAN, Walk(f) PROVE TypeOK'
  <2>1. faulty' \in BOOLEAN /\ resets' \in Nat /\ writes' \in Nat /\ faults' \in Nat
    BY <1>3, ChargeType, Zenon DEF Walk
  <2> SUFFICES /\ EthCfg' \in Config
               /\ bmc' \in [Member -> Representation] /\ etag' \in [Member -> Nat]
               /\ mapped' \subseteq Member /\ rebootRequired' \in BOOLEAN
               /\ pc' \in {"off", "bds", "collection", "create", "members", "consume",
                           "update", "etag", "end", "os"}
               /\ todo' \subseteq Member /\ cur' \in Member /\ got' \in Representation
               /\ seen' \in [Member -> Nat] /\ raced' \subseteq Member
    BY <1>3, <2>1, Zenon DEF Walk, TypeOK, ConfigTypeOK
  <2> USE DEF TypeOK, ConfigTypeOK
  <2>2. CASE RedfishCollectionFeatureCallback(f) /\ UNCHANGED EthCfg
    BY <2>2, Zenon DEF RedfishCollectionFeatureCallback, CollectionHandler,
                HandleCollectionResource, Existing, bmcVars
  <2>3. CASE CreateCollectionResource(f) /\ UNCHANGED EthCfg
    <3>1. Patched(Bare) \in Representation /\ Patched(Bare).ver \in Nat
      <4>1. Patched(Bare) \in Representation
        BY BareType, PatchedType, Zenon
      <4> QED
        BY <4>1, Zenon DEF Representation
    <3>2. UNCHANGED <<EthCfg, etag, rebootRequired, todo, cur, got, raced>> /\ pc' = "end"
      BY <2>3, Zenon DEF CreateCollectionResource
    <3>3. CASE UNCHANGED <<bmc, mapped, seen>>
      BY <3>2, <3>3, Zenon
    <3>4. CASE \E m \in Member : ProvisioningEthernetInterfaceResource(m, f)
      <4>1. PICK m \in Member : ProvisioningEthernetInterfaceResource(m, f)
        BY <3>4, Zenon
      <4>2. /\ bmc' \in [Member -> Representation] /\ seen' \in [Member -> Nat]
            /\ mapped' \subseteq Member
        BY <3>1, <4>1, Zenon DEF ProvisioningEthernetInterfaceResource
      <4> QED
        BY <3>2, <4>2, Zenon
    <3> QED
      BY <2>3, <3>3, <3>4, Zenon DEF CreateCollectionResource, ProvisioningEthernetInterfaceResources
  <2>4. ASSUME NEW m \in Member, HandleResource(m, f) /\ UNCHANGED EthCfg
        PROVE  /\ cur' \in Member /\ mapped' \subseteq Member /\ got' \in Representation
               /\ pc' \in {"members", "consume", "update"} /\ todo' \subseteq Member
    <3>1. todo' \subseteq Member
      BY <2>4, Zenon DEF HandleResource, NextMember
    <3>2. CASE UNCHANGED <<pc, cur, got, mapped>>
      BY <2>4, <3>1, <3>2, Zenon DEF HandleResource
    <3>3. CASE ~UNCHANGED <<pc, cur, got, mapped>>
      <4>1. cur' = m /\ mapped' = {m}
        BY <2>4, <3>3, Zenon DEF HandleResource
      <4>2. \E present \in RedfishResourceCheck(bmc[m], f) :
              IF present THEN pc' = "consume" /\ got' = bmc[m]
                         ELSE pc' = "update" /\ UNCHANGED got
        BY <2>4, <3>3, Zenon DEF HandleResource
      <4>3. (pc' = "consume" /\ got' = bmc[m]) \/ (pc' = "update" /\ got' = got)
        BY <4>2, Zenon
      <4> QED
        BY <3>1, <4>1, <4>3, Zenon
    <3> QED
      BY <3>2, <3>3, Zenon
  <2>5. ASSUME NEW m \in Member, HandleResource(m, f) /\ UNCHANGED EthCfg
        PROVE  UNCHANGED <<EthCfg, bmc, etag, rebootRequired, seen, raced>>
    BY <2>5, Zenon DEF HandleResource, bmcVars
  <2>6. CASE RedfishResourceUpdate(f) /\ UNCHANGED EthCfg
    <3>1. Patched(bmc[cur]) \in Representation /\ Patched(bmc[cur]).ver \in Nat
      <4>1. bmc[cur] \in Representation
        BY Zenon
      <4>2. Patched(bmc[cur]) \in Representation
        BY <4>1, PatchedType, Zenon
      <4> QED
        BY <4>2, Zenon DEF Representation
    <3> QED
      BY <2>6, <3>1, Zenon DEF RedfishResourceUpdate
  <2>7. CASE SetEtagFromUri(f) /\ UNCHANGED EthCfg
    <3>1. bmc[cur].ver \in Nat
      BY Zenon DEF Representation
    <3> QED
      BY <2>7, <3>1, Zenon DEF SetEtagFromUri
  <2>8. CASE EndWalk /\ UNCHANGED EthCfg
    BY <2>8, Zenon DEF EndWalk, bmcVars
  <2>9. CASE RedfishResourceConsumeResource(f)
    <3>1. UNCHANGED <<bmc, etag, mapped, todo, cur>> /\ pc' = "update"
      BY <2>9, Zenon DEF RedfishResourceConsumeResource, bmcVars
    <3>2. got' \in Representation
      BY <2>9, BareType, Zenon DEF RedfishResourceConsumeResource
    <3>3. CASE UNCHANGED <<EthCfg, rebootRequired, seen, raced>>
      BY <3>1, <3>2, <3>3, Zenon
    <3>4. CASE ~UNCHANGED <<EthCfg, rebootRequired, seen, raced>>
      <4>1. PICK b \in {got, bmc[cur]}, failed \in SUBSET Question :
              /\ EthCfg' = Consumed(b, failed)
              /\ rebootRequired' = (rebootRequired \/ EthCfg' # EthCfg)
              /\ seen' = IF failed = {} THEN [seen EXCEPT ![cur] = b.ver] ELSE seen
              /\ raced' = IF failed = {} /\ b = bmc[cur] THEN raced \ {cur} ELSE raced
        BY <2>9, <3>4, Zenon DEF RedfishResourceConsumeResource
      <4>2. b \in Representation /\ b.ver \in Nat
        BY DEF Representation
      <4>3. EthCfg' \in Config
        BY <4>1, <4>2, ConsumedType, Zenon
      <4>4. rebootRequired' \in BOOLEAN
        BY <4>1, Zenon
      <4>5. seen' \in [Member -> Nat] /\ raced' \subseteq Member
        BY <4>1, <4>2, Zenon
      <4> QED
        BY <3>1, <3>2, <4>3, <4>4, <4>5, Zenon
    <3> QED
      BY <3>3, <3>4, Zenon
  <2> QED
    BY <1>3, <2>2, <2>3, <2>4, <2>5, <2>6, <2>7, <2>8, <2>9, Zenon DEF Walk
<1>4. CASE ReadyToBoot
  BY <1>4, Zenon DEF ReadyToBoot, TypeOK, ConfigTypeOK, configVars, bmcVars, countVars
<1>5. CASE CoreEnds
  <2>1. CASE rebootRequired
    <3>1. Off /\ resets' = resets + 1 /\ UNCHANGED <<EthCfg, faulty, writes, faults>>
      BY <1>5, <2>1, Zenon DEF CoreEnds
    <3>2. /\ EthCfg' \in Config /\ faulty' \in BOOLEAN
          /\ resets' \in Nat /\ writes' \in Nat /\ faults' \in Nat
      BY <3>1 DEF TypeOK, ConfigTypeOK
    <3> QED
      BY <3>1, <3>2, OffType, Zenon
  <2>2. CASE ~rebootRequired
    BY <1>5, <2>2, Zenon DEF CoreEnds, TypeOK, ConfigTypeOK, bmcVars
  <2> QED
    BY <2>1, <2>2, Zenon
<1>6. CASE Restart
  BY <1>6, OffType, Zenon DEF Restart, TypeOK, ConfigTypeOK, countVars
<1>7. ASSUME NEW m \in Member, NEW b \in Body, ClientWrites(m, b) PROVE TypeOK'
  <2> DEFINE c == [dhcp |-> b.dhcp, mac |-> bmc[m].mac, static |-> b.static,
                   servers |-> b.servers]
  <2>1. bmc[m] \in Representation /\ bmc[m].mac \in Value
    BY Zenon DEF TypeOK, Representation
  <2>2. /\ c.dhcp \in Value \cup {"none", "absent", "empty"} /\ c.mac \in Value
        /\ c.static \in Seq([StaticField -> Value] \cup {Unreadable})
        /\ c.servers \in Seq(Value)
    <3>1. b \in Written
      BY PolicyAssumption, Zenon
    <3>2. {"on", "off"} \subseteq Value /\ Text \subseteq Value
      BY Zenon DEF Value
    <3>3. b.static \in Seq([StaticField -> Value] \cup {Unreadable})
      <4> DEFINE El == [StaticField -> Value] \cup {Unreadable}
      <4>1. Element \subseteq El
        BY <3>2, Zenon DEF Element, Value
      <4>2. b.static \in Seq(Element)
        BY <3>1, Zenon DEF Written
      <4> HIDE DEF El
      <4>3. b.static \in Seq(El)
        BY <4>1, <4>2, SeqMonotonic, Zenon
      <4> QED
        BY <4>3, Zenon DEF El
    <3>4. b.servers \in Seq(Value)
      <4>1. b.servers \in Seq(Text)
        BY <3>1, Zenon DEF Written
      <4> QED
        BY <3>2, <4>1, SeqMonotonic, Zenon
    <3> QED
      BY <2>1, <3>1, <3>2, <3>3, <3>4, Zenon DEF Written
  <2> HIDE DEF c
  <2>3. Stored(bmc[m], c) \in Representation
    BY <2>1, <2>2, StoredType, Zenon
  <2>4. bmc' \in [Member -> Representation]
    BY <1>7, <2>3, Zenon DEF ClientWrites, TypeOK, c
  <2>5. raced' \subseteq Member /\ resets' \in Nat /\ writes' \in Nat
    <3>1. resets' = 0 /\ writes' = writes + 1
      BY <1>7, Zenon DEF ClientWrites, Write
    <3>2. raced' \subseteq raced \cup {m}
      BY <1>7, Zenon DEF ClientWrites
    <3> QED
      BY <3>1, <3>2 DEF TypeOK
  <2> QED
    BY <1>7, <2>4, <2>5, Zenon DEF ClientWrites, TypeOK, ConfigTypeOK, configVars, walkVars
<1>8. ASSUME NEW c \in SetupConfig, SetupSaves(c) PROVE TypeOK'
  <2>1. EthCfg' \in Config
    <3>1. c \in Config /\ EthCfg \in Config
      BY PolicyAssumption, Zenon DEF TypeOK, ConfigTypeOK
    <3>2. EthCfg' = [q \in Question |-> IF q = "mac" THEN EthCfg["mac"] ELSE c[q]]
      BY <1>8, Zenon DEF SetupSaves
    <3> QED
      BY <3>1, <3>2, Zenon DEF Config
  <2>2. /\ Off /\ faulty' \in BOOLEAN
        /\ resets' \in Nat /\ writes' \in Nat /\ faults' \in Nat
    BY <1>8 DEF SetupSaves, Write, TypeOK
  <2> QED
    BY <2>1, <2>2, OffType, Zenon
<1>9. CASE PowerCut
  BY <1>9, ChargeType, OffType, Zenon DEF PowerCut, TypeOK, ConfigTypeOK
<1>10. CASE ForgetEtags
  BY <1>10, ChargeType, Zenon
  DEF ForgetEtags, TypeOK, ConfigTypeOK, configVars, walkVars
<1>11. CASE LoseVariable
  BY <1>11, ChargeType, Zenon
  DEF LoseVariable, TypeOK, ConfigTypeOK, exchangeVars, bmcVars, walkVars
<1>12. CASE UNCHANGED vars
  BY <1>12, Zenon DEF vars, TypeOK, ConfigTypeOK, configVars, exchangeVars, bmcVars, walkVars,
               countVars
<1> QED
  BY <1>1, <1>2, <1>3, <1>4, <1>5, <1>6, <1>7, <1>8, <1>9, <1>10, <1>11, <1>12, Zenon
  DEF Next, Firmware

-----------------------------------------------------------------------------
(* The inductive invariant. *)

\* A change of the questions asks for the reset that applies it, and a claimed NIC
\* is given them unless a call fails.
AppliedInv ==
  /\ pc \in {"off", "bds", "os"} => ~rebootRequired
  /\ ~rebootRequired => \A n \in managed : Runs(nic[n], EthCfg)
  /\ pc # "off" /\ ~faulty /\ mNicClaimed /\ wellFormed => managed # {}

\* The managed NIC is reported, if one is.
LinkInv == EthCfg["mac"] \notin Usb

\* The walk is over members that exist.
MemberInv ==
  /\ \A m \in Existing : bmc[m].ver > 0
  /\ pc = "create" => Existing = {}
  /\ todo \subseteq Existing
  /\ pc \in {"consume", "update", "etag"} => cur \in Existing /\ mapped = {cur}

\* The recorded ETags are of versions that were taken, or raced.
EtagInv ==
  /\ \A m \in Member : etag[m] <= bmc[m].ver
  /\ EtagIsHonest
  /\ pc = "etag" => seen[cur] = bmc[cur].ver \/ cur \in raced
  /\ pc = "consume" => got = bmc[cur] \/ cur \in raced

\* Without a failure the questions are readable whenever a member is mapped.
ReadyInv ==
  /\ pc # "off" /\ ~faulty => wellFormed
  /\ mNicClaimed /\ ~faulty => published
  /\ pc = "bds" /\ ~faulty /\ ~mNicClaimed => Onboard \subseteq unbound
  /\ pc \notin {"off", "bds"} /\ ~faulty /\ ~mNicClaimed => Onboard = {}
  /\ Onboard = {} => ~published /\ mapped = {}

\* A member about to be patched was taken, or is one of the exceptions.
TakenInv ==
  pc = "update" => \/ seen[cur] = bmc[cur].ver \/ cur \in raced
                   \/ faulty \/ bmc[cur].dhcp = "absent"

\* What was taken is never newer than what is there.
SeenInv ==
  /\ \A m \in Member : seen[m] <= bmc[m].ver
  /\ pc = "consume" => got.ver <= bmc[cur].ver

IInv ==
  /\ TypeOK /\ AppliedInv /\ LinkInv /\ MemberInv /\ EtagInv /\ ReadyInv
  /\ TakenInv /\ SeenInv

\* The walk leaves the driver's state alone, but for the questions consumed.
LEMMA WalkFrame ==
  ASSUME NEW f \in BOOLEAN, Walk(f)
  PROVE  /\ pc \notin {"off", "bds", "os"} /\ pc' \notin {"off", "bds", "os"}
         /\ UNCHANGED <<wellFormed, nic, mNicClaimed, published, managed, unbound>>
         /\ \/ UNCHANGED <<EthCfg, rebootRequired>>
            \/ RedfishResourceConsumeResource(f)
<1>1. CASE RedfishCollectionFeatureCallback(f) /\ UNCHANGED EthCfg
  BY <1>1, Zenon DEF Walk, RedfishCollectionFeatureCallback, CollectionHandler,
              HandleCollectionResource
<1>2. CASE CreateCollectionResource(f) /\ UNCHANGED EthCfg
  BY <1>2, Zenon DEF Walk, CreateCollectionResource
<1>3. ASSUME NEW m \in Member, HandleResource(m, f) /\ UNCHANGED EthCfg
      PROVE  /\ pc = "members" /\ pc' \in {"members", "consume", "update"}
             /\ UNCHANGED <<EthCfg, rebootRequired>>
  <2>1. CASE pc' = pc
    BY <1>3, <2>1, Zenon DEF HandleResource
  <2>2. CASE pc' # pc
    <3>1. \E present \in RedfishResourceCheck(bmc[m], f) :
            IF present THEN pc' = "consume" /\ got' = bmc[m]
                       ELSE pc' = "update" /\ UNCHANGED got
      BY <1>3, <2>2, Zenon DEF HandleResource
    <3>2. pc' = "consume" \/ pc' = "update"
      BY <3>1, Zenon
    <3> QED
      BY <1>3, <3>2, Zenon DEF HandleResource
  <2> QED
    BY <2>1, <2>2, Zenon
<1>4. CASE RedfishResourceUpdate(f) /\ UNCHANGED EthCfg
  BY <1>4, Zenon DEF Walk, RedfishResourceUpdate
<1>5. CASE SetEtagFromUri(f) /\ UNCHANGED EthCfg
  BY <1>5, Zenon DEF Walk, SetEtagFromUri
<1>6. CASE EndWalk /\ UNCHANGED EthCfg
  BY <1>6, Zenon DEF Walk, EndWalk
<1>7. CASE RedfishResourceConsumeResource(f)
  BY <1>7, Zenon DEF Walk, RedfishResourceConsumeResource
<1> QED
  BY <1>1, <1>2, <1>3, <1>4, <1>5, <1>6, <1>7, Zenon DEF Walk

\* What a consume does: nothing, for a failure, a recorded ETag or unreadable
\* questions; or it takes a response.
LEMMA ConsumeCases ==
  ASSUME NEW f \in BOOLEAN, RedfishResourceConsumeResource(f)
  PROVE  /\ pc = "consume" /\ pc' = "update" /\ got' = NoBody
         /\ UNCHANGED <<bmc, etag, mapped, todo, cur>>
         /\ \/ /\ UNCHANGED <<EthCfg, rebootRequired, seen, raced>>
               /\ f \/ ~Readable \/ CheckEtag(got) \/ CheckEtag(bmc[cur])
            \/ \E b \in {got, bmc[cur]}, failed \in SUBSET Question :
                 /\ EthCfg' = Consumed(b, failed)
                 /\ rebootRequired' = (rebootRequired \/ EthCfg' # EthCfg)
                 /\ seen' = IF failed = {} THEN [seen EXCEPT ![cur] = b.ver] ELSE seen
                 /\ raced' = IF failed = {} /\ b = bmc[cur] THEN raced \ {cur} ELSE raced
                 /\ f \/ failed = {}
BY Zenon DEF RedfishResourceConsumeResource, bmcVars

\* A failure is remembered for the rest of the boot.
LEMMA StaysFaulty ==
  ASSUME NEW fault \in BOOLEAN, Charge(fault)
  PROVE  faulty => faulty'
BY Zenon DEF Charge, countVars

LEMMA AppliedStep == TypeOK /\ AppliedInv /\ [Next]_vars => AppliedInv'
<1> SUFFICES ASSUME TypeOK, AppliedInv, [Next]_vars PROVE AppliedInv'
  BY Zenon
<1> USE DEF AppliedInv
<1>1. ASSUME NEW f \in BOOLEAN, Boot(f) PROVE AppliedInv'
  BY <1>1, Zenon DEF Boot, EthConfigEntryPoint
<1>2. ASSUME NEW f \in BOOLEAN, NEW n \in Nic, Connect(n, f) PROVE AppliedInv'
  <2>1. pc = "bds" /\ UNCHANGED <<pc, rebootRequired>>
    BY <1>2, Zenon DEF Connect, exchangeVars, walkVars
  <2>2. CASE UNCHANGED configVars
    BY <1>2, <2>1, <2>2, StaysFaulty, Zenon DEF configVars, Connect
  <2>3. CASE OnIp4Config2Installed(n, f) /\ Claimable(n)
    <3>1. PICK ok \in BOOLEAN : EthCfg' = SeedMacAddress(n, ok)
      BY <2>3, Zenon DEF OnIp4Config2Installed
    <3>2. EthCfg \in Config /\ nic \in [Nic -> Ip4Data]
      BY Zenon DEF TypeOK, ConfigTypeOK
    <3>3. CASE ~wellFormed
      <4>1. EthCfg' = EthCfg /\ UNCHANGED <<wellFormed, nic, managed>>
        BY <2>3, <3>1, <3>3, Zenon DEF OnIp4Config2Installed, ReadConfigVariable, SeedMacAddress
      <4> QED
        BY <2>1, <3>3, <4>1, Zenon
    <3>4. CASE wellFormed /\ f
      <4>1. managed' = {} /\ faulty'
        BY <1>2, <2>3, <3>4, Zenon DEF OnIp4Config2Installed, ReadConfigVariable, Connect, Charge
      <4> QED
        BY <2>1, <4>1, Zenon
    <3>5. CASE wellFormed /\ ~f
      <4>1. PICK x \in ApplyConfig(nic[n], EthCfg, FALSE) : nic' = [nic EXCEPT ![n] = x]
        BY <2>3, <3>5, Zenon DEF OnIp4Config2Installed, ReadConfigVariable
      <4>2. managed' = {n} /\ nic'[n] = x
        BY <2>3, <3>2, <3>5, <4>1, Zenon DEF OnIp4Config2Installed, ReadConfigVariable
      <4>3. Runs(x, EthCfg)
        BY <3>2, ApplyRuns, Zenon
      <4>4. Runs(x, EthCfg')
        BY <3>1, <3>2, <4>3, RunsWhateverMac, Zenon DEF SeedMacAddress
      <4> QED
        BY <2>1, <4>2, <4>4, Zenon
    <3> QED
      BY <3>3, <3>4, <3>5, Zenon
  <2> QED
    BY <1>2, <2>2, <2>3, Zenon DEF Connect, OnIp4Config2Installed
<1>3. ASSUME NEW f \in BOOLEAN, Walk(f) PROVE AppliedInv'
  <2>1. /\ pc \notin {"off", "bds", "os"} /\ pc' \notin {"off", "bds", "os"}
        /\ UNCHANGED <<wellFormed, nic, mNicClaimed, managed>>
        /\ UNCHANGED <<EthCfg, rebootRequired>> \/ RedfishResourceConsumeResource(f)
    BY <1>3, WalkFrame, Zenon
  <2>2. (rebootRequired' = rebootRequired /\ EthCfg' = EthCfg) \/ rebootRequired'
    <3>1. CASE RedfishResourceConsumeResource(f)
      <4>1. CASE UNCHANGED <<EthCfg, rebootRequired, seen, raced>>
        BY <4>1, Zenon
      <4>2. CASE rebootRequired' = (rebootRequired \/ EthCfg' # EthCfg)
        BY <4>2, Zenon DEF TypeOK
      <4> QED
        BY <3>1, <4>1, <4>2, ConsumeCases, Zenon
    <3> QED
      BY <2>1, <3>1, Zenon
  <2>3. faulty => faulty'
    BY <1>3, StaysFaulty, Zenon DEF Walk
  <2> QED
    BY <2>1, <2>2, <2>3, Zenon
<1>4. CASE ReadyToBoot
  BY <1>4, Zenon DEF ReadyToBoot, configVars, countVars
<1>5. CASE CoreEnds
  BY <1>5, Zenon DEF CoreEnds, Off
<1>6. CASE Restart \/ PowerCut \/ \E c \in SetupConfig : SetupSaves(c)
  BY <1>6, Zenon DEF Restart, PowerCut, SetupSaves, Off
<1>7. ASSUME NEW m \in Member, NEW b \in Body, ClientWrites(m, b) PROVE AppliedInv'
  BY <1>7, Zenon DEF ClientWrites, configVars, walkVars
<1>8. CASE ForgetEtags
  BY <1>8, StaysFaulty, Zenon DEF ForgetEtags, configVars, walkVars
<1>9. CASE LoseVariable
  BY <1>9, Zenon DEF LoseVariable, exchangeVars, walkVars
<1>10. CASE UNCHANGED vars
  BY <1>10, Zenon DEF vars, configVars, exchangeVars, walkVars, countVars
<1> QED
  BY <1>1, <1>2, <1>3, <1>4, <1>5, <1>6, <1>7, <1>8, <1>9, <1>10, Zenon DEF Next, Firmware

LEMMA LinkStep == TypeOK /\ LinkInv /\ [Next]_vars => LinkInv' /\ [KeepsLink]_vars
<1> SUFFICES ASSUME TypeOK, LinkInv, [Next]_vars
             PROVE  EthCfg'["mac"] \notin Usb /\ \A n \in Usb : nic'[n] = nic[n]
  BY Zenon DEF LinkInv, KeepsLink
<1> USE DEF LinkInv
<1>1. ASSUME NEW f \in BOOLEAN, Boot(f)
      PROVE  EthCfg'["mac"] \notin Usb /\ nic' = nic
  <2>1. DefaultConfig["mac"] = "" /\ "" \notin Usb
    BY EthConfigAssumption, Zenon DEF DefaultConfig, Question
  <2> QED
    BY <1>1, <2>1, Zenon DEF Boot, EthConfigEntryPoint, EnsureConfigVariable
<1>2. ASSUME NEW f \in BOOLEAN, NEW n \in Nic, Connect(n, f)
      PROVE  EthCfg'["mac"] \notin Usb /\ \A k \in Usb : nic'[k] = nic[k]
  <2>1. CASE UNCHANGED configVars
    BY <2>1, Zenon DEF configVars
  <2>2. CASE OnIp4Config2Installed(n, f) /\ Claimable(n)
    <3>1. n \notin Usb
      BY <2>2, Zenon DEF Claimable
    <3>2. PICK ok \in BOOLEAN : EthCfg' = SeedMacAddress(n, ok)
      BY <2>2, Zenon DEF OnIp4Config2Installed
    <3>3. EthCfg'["mac"] \in {n, EthCfg["mac"]}
      BY <3>2, Zenon DEF SeedMacAddress, TypeOK, ConfigTypeOK, Config, Question
    <3>4. nic' = nic \/ \E x \in ApplyConfig(nic[n], EthCfg, f) : nic' = [nic EXCEPT ![n] = x]
      BY <2>2, Zenon DEF OnIp4Config2Installed
    <3>5. \A k \in Usb : nic'[k] = nic[k]
      BY <3>1, <3>4, EthConfigAssumption, Zenon DEF TypeOK, ConfigTypeOK
    <3> QED
      BY <3>1, <3>3, <3>5, Zenon
  <2> QED
    BY <1>2, <2>1, <2>2, Zenon DEF Connect, OnIp4Config2Installed
<1>3. ASSUME NEW f \in BOOLEAN, Walk(f)
      PROVE  EthCfg'["mac"] = EthCfg["mac"] /\ nic' = nic
  <2>1. nic' = nic /\ (EthCfg' = EthCfg \/ RedfishResourceConsumeResource(f))
    BY <1>3, WalkFrame, Zenon
  <2>2. CASE EthCfg' # EthCfg
    <3>1. PICK b \in {got, bmc[cur]}, failed \in SUBSET Question : EthCfg' = Consumed(b, failed)
      BY <2>1, <2>2, ConsumeCases, Zenon
    <3>2. b \in Representation /\ EthCfg \in Config
      BY Zenon DEF TypeOK, ConfigTypeOK
    <3> QED
      BY <2>1, <3>1, <3>2, ConsumedType, Zenon
  <2> QED
    BY <2>1, <2>2, Zenon
<1>4. CASE ReadyToBoot \/ Restart \/ PowerCut \/ ForgetEtags \/ LoseVariable
  BY <1>4, Zenon DEF ReadyToBoot, Restart, PowerCut, ForgetEtags, LoseVariable, Off, configVars
<1>5. CASE CoreEnds
  BY <1>5, Zenon DEF CoreEnds, Off
<1>6. ASSUME NEW c \in SetupConfig, SetupSaves(c)
      PROVE  EthCfg'["mac"] = EthCfg["mac"] /\ nic' = nic
  BY <1>6, Zenon DEF SetupSaves, Off, Question
<1>7. ASSUME NEW m \in Member, NEW b \in Body, ClientWrites(m, b)
      PROVE  EthCfg' = EthCfg /\ nic' = nic
  BY <1>7, Zenon DEF ClientWrites, configVars
<1>8. CASE UNCHANGED vars
  BY <1>8, Zenon DEF vars, configVars
<1> QED
  BY <1>1, <1>2, <1>3, <1>4, <1>5, <1>6, <1>7, <1>8, Zenon DEF Next, Firmware

\* What a PATCH leaves exists, and its version is not older.
LEMMA PatchedExists ==
  ASSUME NEW b \in Representation, EthCfg \in Config, b.ver > 0
  PROVE  Patched(b) # NoBody /\ Patched(b).ver > 0 /\ b.ver <= Patched(b).ver
<1>1. b.ver \in Nat
  BY Zenon DEF Representation
<1>2. Patched(b).ver \in {b.ver, b.ver + 1}
  BY PatchedType, Zenon
<1> QED
  BY <1>1, <1>2, BareType

\* What a client's write leaves, likewise.
LEMMA ClientStores ==
  ASSUME TypeOK, NEW m \in Member, NEW b \in Body, ClientWrites(m, b)
  PROVE  /\ bmc[m] # NoBody
         /\ bmc'[m].ver \in {bmc[m].ver, bmc[m].ver + 1}
         /\ \A k \in Member \ {m} : bmc'[k] = bmc[k]
<1> DEFINE c == [dhcp |-> b.dhcp, mac |-> bmc[m].mac, static |-> b.static,
                 servers |-> b.servers]
<1>1. bmc' = [bmc EXCEPT ![m] = Stored(bmc[m], c)] /\ bmc[m] # NoBody
  BY Zenon DEF ClientWrites
<1>2. Stored(bmc[m], c).ver \in {bmc[m].ver, bmc[m].ver + 1}
  BY Zenon DEF Stored
<1> HIDE DEF c
<1> QED
  BY <1>1, <1>2, Zenon DEF TypeOK

LEMMA MemberStep == TypeOK /\ MemberInv /\ [Next]_vars => MemberInv' /\ [Adopts]_vars
<1> SUFFICES ASSUME TypeOK, MemberInv, [Next]_vars PROVE MemberInv' /\ [Adopts]_vars
  BY Zenon
<1> USE DEF MemberInv
<1>1. ASSUME bmc' = bmc, pc' \notin {"create", "consume", "update", "etag"},
             todo' \subseteq Existing
      PROVE  MemberInv' /\ Adopts
  BY <1>1, Zenon DEF Existing, Adopts
<1>2. ASSUME NEW f \in BOOLEAN, Boot(f) PROVE MemberInv' /\ Adopts
  BY <1>1, <1>2, Zenon DEF Boot, bmcVars
<1>3. ASSUME NEW f \in BOOLEAN, NEW n \in Nic, Connect(n, f) PROVE MemberInv' /\ Adopts
  BY <1>1, <1>3, Zenon DEF Connect, exchangeVars, bmcVars, walkVars
<1>4. ASSUME NEW f \in BOOLEAN, Walk(f) PROVE MemberInv' /\ Adopts
  <2>1. CASE RedfishCollectionFeatureCallback(f) /\ UNCHANGED EthCfg
    <3>1. bmc' = bmc /\ pc = "collection"
      BY <2>1, Zenon DEF RedfishCollectionFeatureCallback, bmcVars
    <3>2. \/ pc' = "end" /\ todo' = {}
          \/ Existing = {} /\ pc' = "create" /\ todo' = {}
          \/ pc' = "members" /\ todo' = Existing
      BY <2>1, Zenon DEF RedfishCollectionFeatureCallback, CollectionHandler,
                  HandleCollectionResource
    <3> QED
      BY <3>1, <3>2, Zenon DEF Existing, Adopts
  <2>2. CASE CreateCollectionResource(f) /\ UNCHANGED EthCfg
    <3>1. pc = "create" /\ pc' = "end" /\ todo' = todo
      BY <2>2, Zenon DEF CreateCollectionResource
    <3>2. CASE bmc' = bmc
      BY <1>1, <3>1, <3>2, Zenon
    <3>3. CASE bmc' # bmc
      <4>1. PICK m \in Member : bmc' = [bmc EXCEPT ![m] = Patched(Bare)]
        BY <2>2, <3>3, Zenon DEF CreateCollectionResource, ProvisioningEthernetInterfaceResources,
                          ProvisioningEthernetInterfaceResource
      <4>2. Patched(Bare) # NoBody /\ Patched(Bare).ver > 0
        BY BareType, PatchedExists DEF TypeOK, ConfigTypeOK
      <4>3. Existing = {} /\ Existing' = {m}
        BY <3>1, <4>1, <4>2, Zenon DEF TypeOK, Existing
      <4>4. Cardinality({m}) = 1
        BY FS_Singleton, Zenon
      <4> QED
        BY <3>1, <4>1, <4>2, <4>3, <4>4, Zenon DEF TypeOK, Adopts
    <3> QED
      BY <3>2, <3>3, Zenon
  <2>3. ASSUME NEW m \in Member, HandleResource(m, f) /\ UNCHANGED EthCfg
        PROVE  MemberInv' /\ Adopts
    <3>1. bmc' = bmc /\ pc = "members" /\ m \in todo /\ todo' = todo \ {m}
      BY <2>3, Zenon DEF HandleResource, NextMember, bmcVars
    <3>2. CASE pc' = pc
      BY <1>1, <3>1, <3>2, Zenon
    <3>3. CASE pc' # pc
      <4>1. cur' = m /\ mapped' = {m}
        BY <2>3, <3>3, Zenon DEF HandleResource
      <4>2. \E present \in RedfishResourceCheck(bmc[m], f) :
              IF present THEN pc' = "consume" /\ got' = bmc[m]
                         ELSE pc' = "update" /\ UNCHANGED got
        BY <2>3, <3>3, Zenon DEF HandleResource
      <4>3. pc' = "consume" \/ pc' = "update"
        BY <4>2, Zenon
      <4> QED
        BY <3>1, <4>1, <4>3, Zenon DEF Existing, Adopts
    <3> QED
      BY <3>2, <3>3, Zenon
  <2>4. CASE RedfishResourceUpdate(f) /\ UNCHANGED EthCfg
    <3>1. pc = "update" /\ pc' \in {"members", "etag"} /\ UNCHANGED <<todo, cur, mapped>>
      BY <2>4, Zenon DEF RedfishResourceUpdate
    <3>2. bmc' = bmc \/ bmc' = [bmc EXCEPT ![cur] = Patched(bmc[cur])]
      BY <2>4, Zenon DEF RedfishResourceUpdate
    <3>3. Patched(bmc[cur]) # NoBody /\ Patched(bmc[cur]).ver > 0
      <4>1. bmc[cur] \in Representation /\ bmc[cur].ver > 0 /\ EthCfg \in Config
        BY <3>1, Zenon DEF TypeOK, ConfigTypeOK
      <4> QED
        BY <4>1, PatchedExists, Zenon
    <3>4. Existing' = Existing /\ \A m \in Existing : bmc'[m].ver > 0
      BY <3>1, <3>2, <3>3, Zenon DEF TypeOK, Existing
    <3> QED
      BY <3>1, <3>4, Zenon DEF Adopts
  <2>5. CASE SetEtagFromUri(f) /\ UNCHANGED EthCfg
    BY <1>1, <2>5, Zenon DEF SetEtagFromUri
  <2>6. CASE EndWalk /\ UNCHANGED EthCfg
    BY <1>1, <2>6, Zenon DEF EndWalk, bmcVars
  <2>7. CASE RedfishResourceConsumeResource(f)
    <3>1. pc = "consume" /\ pc' = "update" /\ UNCHANGED <<bmc, mapped, todo, cur>>
      BY <2>7, ConsumeCases, Zenon
    <3> QED
      BY <3>1, Zenon DEF Existing, Adopts
  <2> QED
    BY <1>4, <2>1, <2>2, <2>3, <2>4, <2>5, <2>6, <2>7, Zenon DEF Walk
<1>5. CASE ReadyToBoot
  BY <1>1, <1>5, Zenon DEF ReadyToBoot, bmcVars
<1>6. CASE CoreEnds \/ Restart \/ PowerCut \/ \E c \in SetupConfig : SetupSaves(c)
  BY <1>1, <1>6, Zenon DEF CoreEnds, Restart, PowerCut, SetupSaves, Off, bmcVars
<1>7. ASSUME NEW m \in Member, NEW b \in Body, ClientWrites(m, b) PROVE MemberInv' /\ Adopts
  <2>1. /\ bmc[m] # NoBody /\ bmc'[m].ver \in {bmc[m].ver, bmc[m].ver + 1}
        /\ \A k \in Member \ {m} : bmc'[k] = bmc[k]
    BY <1>7, ClientStores, Zenon
  <2>2. bmc[m].ver \in Nat /\ bmc[m].ver > 0
    BY <2>1, Zenon DEF TypeOK, Representation, Existing
  <2>3. Existing' = Existing /\ \A k \in Existing : bmc'[k].ver > 0
    BY <2>1, <2>2, BareType DEF Existing
  <2> QED
    BY <1>7, <2>3, Zenon DEF ClientWrites, walkVars, Adopts
<1>8. CASE ForgetEtags
  BY <1>8, Zenon DEF ForgetEtags, walkVars, Existing, Adopts
<1>9. CASE LoseVariable
  BY <1>9, Zenon DEF LoseVariable, exchangeVars, walkVars, bmcVars, Existing, Adopts
<1>10. CASE UNCHANGED vars
  BY <1>10, Zenon DEF vars, exchangeVars, walkVars, bmcVars, Existing
<1> QED
  BY <1>2, <1>3, <1>4, <1>5, <1>6, <1>7, <1>8, <1>9, <1>10, Zenon DEF Next, Firmware

\* HandleResource() leaves a member or starts on it.
LEMMA HandleCases ==
  ASSUME NEW f \in BOOLEAN, NEW m \in Member, HandleResource(m, f)
  PROVE  /\ pc = "members" /\ UNCHANGED <<bmc, etag, rebootRequired, seen, raced>>
         /\ \/ UNCHANGED <<pc, cur, got, mapped>>
            \/ /\ cur' = m /\ mapped' = {m} /\ (m \in mapped \/ published)
               /\ \/ pc' = "consume" /\ got' = bmc[m]
                  \/ pc' = "update" /\ got' = got /\ (f \/ bmc[m].dhcp = "absent")
<1>1. pc = "members" /\ UNCHANGED <<bmc, etag, rebootRequired, seen, raced>>
  BY Zenon DEF HandleResource, bmcVars
<1>2. CASE UNCHANGED <<pc, cur, got, mapped>>
  BY <1>1, <1>2, Zenon
<1>3. CASE ~UNCHANGED <<pc, cur, got, mapped>>
  <2>1. cur' = m /\ mapped' = {m} /\ (m \in mapped \/ TRUE \in RedfishResourceIdentify(f))
    BY <1>3, Zenon DEF HandleResource
  <2>2. \E present \in RedfishResourceCheck(bmc[m], f) :
          IF present THEN pc' = "consume" /\ got' = bmc[m]
                     ELSE pc' = "update" /\ UNCHANGED got
    BY <1>3, Zenon DEF HandleResource
  <2>3. TRUE \in RedfishResourceIdentify(f) => published
    BY Zenon DEF RedfishResourceIdentify, RedfishIdentifyResourceCommon
  <2>4. \A p \in RedfishResourceCheck(bmc[m], f) : ~p => f \/ bmc[m].dhcp = "absent"
    BY Zenon DEF RedfishResourceCheck, RedfishCheckResourceCommon
  <2>5. \/ pc' = "consume" /\ got' = bmc[m]
        \/ pc' = "update" /\ got' = got /\ (f \/ bmc[m].dhcp = "absent")
    BY <2>2, <2>4, Zenon
  <2> QED
    BY <1>1, <2>1, <2>3, <2>5, Zenon
<1> QED
  BY <1>2, <1>3, Zenon

LEMMA EtagStep == TypeOK /\ MemberInv /\ EtagInv /\ [Next]_vars => EtagInv'
<1> SUFFICES ASSUME TypeOK, MemberInv, EtagInv, [Next]_vars PROVE EtagInv'
  BY Zenon
<1> USE DEF EtagInv, EtagIsHonest, Existing
<1>1. ASSUME UNCHANGED <<bmc, etag, seen, raced>>, pc' \notin {"etag", "consume"}
      PROVE  EtagInv'
  BY <1>1, Zenon
<1>2. ASSUME NEW f \in BOOLEAN, Boot(f) PROVE EtagInv'
  BY <1>1, <1>2, Zenon DEF Boot, bmcVars
<1>3. ASSUME NEW f \in BOOLEAN, NEW n \in Nic, Connect(n, f) PROVE EtagInv'
  BY <1>1, <1>3, Zenon DEF Connect, exchangeVars, bmcVars, walkVars
<1>4. ASSUME NEW f \in BOOLEAN, Walk(f) PROVE EtagInv'
  <2>1. CASE RedfishCollectionFeatureCallback(f) /\ UNCHANGED EthCfg
    BY <1>1, <2>1, Zenon DEF RedfishCollectionFeatureCallback, CollectionHandler,
                      HandleCollectionResource, bmcVars
  <2>2. CASE CreateCollectionResource(f) /\ UNCHANGED EthCfg
    <3>1. pc = "create" /\ pc' = "end" /\ UNCHANGED <<etag, raced>>
      BY <2>2, Zenon DEF CreateCollectionResource
    <3>2. CASE UNCHANGED <<bmc, seen>>
      BY <1>1, <3>1, <3>2, Zenon
    <3>3. CASE ~UNCHANGED <<bmc, seen>>
      <4>1. PICK m \in Member \ Existing :
              /\ bmc' = [bmc EXCEPT ![m] = Patched(Bare)]
              /\ seen' = [seen EXCEPT ![m] = Patched(Bare).ver]
        BY <2>2, <3>3, Zenon DEF CreateCollectionResource, ProvisioningEthernetInterfaceResources,
                          ProvisioningEthernetInterfaceResource
      <4>2. Patched(Bare).ver \in {1, 2}
        BY BareType, PatchedType DEF TypeOK, ConfigTypeOK
      <4>3. bmc[m].ver = 0
        BY <4>1, BareType, Zenon
      <4> QED
        BY <3>1, <4>1, <4>2, <4>3 DEF TypeOK
    <3> QED
      BY <3>2, <3>3, Zenon
  <2>3. ASSUME NEW m \in Member, HandleResource(m, f) /\ UNCHANGED EthCfg PROVE EtagInv'
    <3>1. /\ pc = "members" /\ UNCHANGED <<bmc, etag, seen, raced>>
          /\ \/ pc' = pc \/ pc' = "update"
             \/ cur' = m /\ pc' = "consume" /\ got' = bmc[m]
      BY <2>3, HandleCases, Zenon
    <3> QED
      BY <3>1, Zenon
  <2>4. CASE RedfishResourceUpdate(f) /\ UNCHANGED EthCfg
    <3>1. pc = "update" /\ pc' \in {"members", "etag"} /\ UNCHANGED <<etag, cur>>
      BY <2>4, Zenon DEF RedfishResourceUpdate
    <3>2. CASE bmc' = [bmc EXCEPT ![cur] = Patched(bmc[cur])]
               /\ seen' = [seen EXCEPT ![cur] = Patched(bmc[cur]).ver]
               /\ raced' = raced \ {cur}
      <4>1. bmc[cur].ver <= Patched(bmc[cur]).ver /\ Patched(bmc[cur]).ver \in Nat
            /\ bmc[cur].ver \in Nat
        <5>1. bmc[cur] \in Representation /\ bmc[cur].ver > 0 /\ EthCfg \in Config
          BY <3>1, Zenon DEF TypeOK, ConfigTypeOK, MemberInv
        <5>2. bmc[cur].ver \in Nat /\ Patched(bmc[cur]).ver \in Nat
          BY <5>1, PatchedType, Zenon DEF Representation
        <5> QED
          BY <5>1, <5>2, PatchedExists, Zenon
      <4>2. etag[cur] \in Nat /\ etag[cur] <= Patched(bmc[cur]).ver
        BY <4>1 DEF TypeOK
      <4>3. \A m \in Member : etag[m] <= bmc'[m].ver
        BY <3>2, <4>2, Zenon DEF TypeOK
      <4>4. seen'[cur] = bmc'[cur].ver
        BY <3>2, Zenon DEF TypeOK
      <4>5. EtagIsHonest'
        BY <3>1, <3>2, <4>4, Zenon DEF TypeOK
      <4> QED
        BY <3>1, <4>3, <4>4, <4>5, Zenon
    <3>3. CASE f /\ UNCHANGED <<bmc, seen, raced>>
      BY <2>4, <3>1, <3>3, Zenon DEF RedfishResourceUpdate
    <3> QED
      BY <2>4, <3>2, <3>3, Zenon DEF RedfishResourceUpdate
  <2>5. CASE SetEtagFromUri(f) /\ UNCHANGED EthCfg
    <3>1. bmc[cur].ver \in Nat
      BY Zenon DEF TypeOK, Representation
    <3> QED
      BY <2>5, <3>1 DEF SetEtagFromUri, TypeOK
  <2>6. CASE EndWalk /\ UNCHANGED EthCfg
    BY <1>1, <2>6, Zenon DEF EndWalk, bmcVars
  <2>7. CASE RedfishResourceConsumeResource(f)
    <3>1. pc = "consume" /\ pc' = "update" /\ UNCHANGED <<bmc, etag, cur>>
      BY <2>7, ConsumeCases, Zenon
    <3>2. CASE UNCHANGED <<seen, raced>>
      BY <1>1, <3>1, <3>2, Zenon
    <3>3. CASE \E b \in {got, bmc[cur]}, failed \in SUBSET Question :
                 /\ seen' = IF failed = {} THEN [seen EXCEPT ![cur] = b.ver] ELSE seen
                 /\ raced' = IF failed = {} /\ b = bmc[cur] THEN raced \ {cur} ELSE raced
      BY <3>1, <3>3 DEF TypeOK
    <3> QED
      BY <2>7, <3>2, <3>3, ConsumeCases, Zenon
  <2> QED
    BY <1>4, <2>1, <2>2, <2>3, <2>4, <2>5, <2>6, <2>7, Zenon DEF Walk
<1>5. CASE ReadyToBoot
  BY <1>1, <1>5, Zenon DEF ReadyToBoot, bmcVars
<1>6. CASE CoreEnds \/ Restart \/ PowerCut \/ \E c \in SetupConfig : SetupSaves(c)
  BY <1>1, <1>6, Zenon DEF CoreEnds, Restart, PowerCut, SetupSaves, Off, bmcVars
<1>7. ASSUME NEW m \in Member, NEW b \in Body, ClientWrites(m, b) PROVE EtagInv'
  <2>1. /\ bmc[m] # NoBody /\ bmc'[m].ver \in {bmc[m].ver, bmc[m].ver + 1}
        /\ \A k \in Member \ {m} : bmc'[k] = bmc[k]
    BY <1>7, ClientStores, Zenon
  <2>2. bmc[m].ver \in Nat /\ etag[m] \in Nat /\ etag[m] <= bmc[m].ver
    BY Zenon DEF TypeOK, Representation
  <2>3. UNCHANGED <<etag, seen, pc, cur, got>> /\ raced \subseteq raced'
    BY <1>7, Zenon DEF ClientWrites, walkVars
  <2>4. m = cur /\ pc \in {"consume", "etag"} => m \in raced'
    BY <1>7, Zenon DEF ClientWrites
  <2>5. \A k \in Member : etag[k] <= bmc'[k].ver
    BY <2>1, <2>2
  <2>6. etag[m] = bmc'[m].ver => etag[m] = bmc[m].ver
    BY <2>1, <2>2
  <2>7. EtagIsHonest'
    BY <2>1, <2>3, <2>6, Zenon
  <2>8. cur \in Member
    BY Zenon DEF TypeOK
  <2> QED
    BY <2>1, <2>3, <2>4, <2>5, <2>7, <2>8, Zenon
<1>8. CASE ForgetEtags
  <2>1. \A m \in Member : bmc[m].ver \in Nat
    BY Zenon DEF TypeOK, Representation
  <2>2. UNCHANGED <<bmc, seen, raced, pc, cur, got>> /\ etag' = [m \in Member |-> 0]
    BY <1>8, Zenon DEF ForgetEtags, walkVars
  <2>3. \A m \in Existing : bmc[m].ver > 0
    BY Zenon DEF MemberInv
  <2> QED
    BY <2>1, <2>2, <2>3
<1>9. CASE LoseVariable
  BY <1>9, Zenon DEF LoseVariable, exchangeVars, walkVars, bmcVars
<1>10. CASE UNCHANGED vars
  BY <1>10, Zenon DEF vars, exchangeVars, walkVars, bmcVars
<1> QED
  BY <1>2, <1>3, <1>4, <1>5, <1>6, <1>7, <1>8, <1>9, <1>10, Zenon DEF Next, Firmware

LEMMA ReadyStep == TypeOK /\ ReadyInv /\ [Next]_vars => ReadyInv'
<1> SUFFICES ASSUME TypeOK, ReadyInv, [Next]_vars PROVE ReadyInv'
  BY Zenon
<1> USE DEF ReadyInv
<1>1. ASSUME Off PROVE ReadyInv'
  BY <1>1, Zenon DEF Off
<1>2. ASSUME NEW f \in BOOLEAN, Charge(f) PROVE faulty' = (faulty \/ f)
  <2>1. CASE f
    BY <1>2, <2>1, Zenon DEF Charge
  <2>2. CASE ~f
    BY <1>2, <2>2, Zenon DEF Charge, countVars, TypeOK
  <2> QED
    BY <2>1, <2>2, Zenon
<1>3. ASSUME NEW f \in BOOLEAN, Boot(f) PROVE ReadyInv'
  <2>1. /\ pc' = "bds" /\ unbound' = Nic /\ ~mNicClaimed' /\ ~published'
        /\ mapped' = mapped /\ wellFormed' = (wellFormed \/ ~f)
    BY <1>3, Zenon DEF Boot, EthConfigEntryPoint, EnsureConfigVariable
  <2>2. f => faulty'
    BY <1>3, Zenon DEF Boot, Charge
  <2>3. Onboard \subseteq Nic
    BY Zenon DEF Onboard
  <2> QED
    BY <2>1, <2>2, <2>3, Zenon
<1>4. ASSUME NEW f \in BOOLEAN, NEW n \in Nic, Connect(n, f) PROVE ReadyInv'
  <2>1. /\ pc = "bds" /\ UNCHANGED <<pc, mapped>> /\ unbound' = unbound \ {n}
        /\ faulty' = (faulty \/ f)
    BY <1>2, <1>4, Zenon DEF Connect, exchangeVars, walkVars
  <2>2. CASE OnIp4Config2Installed(n, f) /\ Claimable(n)
    <3>1. mNicClaimed' /\ (f \/ published') /\ wellFormed' = wellFormed
      BY <2>2, Zenon DEF OnIp4Config2Installed, PublishFormset
    <3>2. n \in Onboard
      BY <2>2, Zenon DEF Claimable, Onboard
    <3> QED
      BY <2>1, <3>1, <3>2, Zenon
  <2>3. CASE UNCHANGED configVars /\ (f \/ ~Claimable(n))
    <3>1. f \/ mNicClaimed \/ n \notin Onboard
      BY <2>3, Zenon DEF Claimable, Onboard
    <3> QED
      BY <2>1, <2>3, <3>1, Zenon DEF configVars
  <2> QED
    BY <1>4, <2>2, <2>3, Zenon DEF Connect, OnIp4Config2Installed
<1>5. ASSUME NEW f \in BOOLEAN, Walk(f) PROVE ReadyInv'
  <2>1. /\ pc \notin {"off", "bds"} /\ pc' \notin {"off", "bds"}
        /\ UNCHANGED <<wellFormed, mNicClaimed, published, unbound>>
    BY <1>5, WalkFrame, Zenon
  <2>2. faulty' = (faulty \/ f)
    BY <1>2, <1>5, Zenon DEF Walk
  <2>3. Onboard = {} => mapped' = {}
    <3>1. ASSUME NEW m \in Member, HandleResource(m, f)
          PROVE  mapped' = mapped \/ m \in mapped \/ published
      BY <3>1, HandleCases, Zenon
    <3>2. CASE RedfishResourceConsumeResource(f)
      BY <3>2, ConsumeCases, Zenon
    <3>3. CASE CreateCollectionResource(f)
      BY <3>3, Zenon DEF CreateCollectionResource, ProvisioningEthernetInterfaceResources
    <3> QED
      BY <1>5, <3>1, <3>2, <3>3, Zenon
      DEF Walk, RedfishCollectionFeatureCallback, RedfishResourceUpdate, SetEtagFromUri,
          EndWalk
  <2> QED
    BY <2>1, <2>2, <2>3, Zenon
<1>6. CASE ReadyToBoot
  BY <1>6, Zenon DEF ReadyToBoot, configVars, countVars
<1>7. CASE CoreEnds
  BY <1>1, <1>7, Zenon DEF CoreEnds
<1>8. CASE Restart \/ PowerCut \/ \E c \in SetupConfig : SetupSaves(c)
  BY <1>1, <1>8, Zenon DEF Restart, PowerCut, SetupSaves
<1>9. ASSUME NEW m \in Member, NEW b \in Body, ClientWrites(m, b) PROVE ReadyInv'
  BY <1>9, Zenon DEF ClientWrites, configVars, walkVars
<1>10. CASE ForgetEtags
  <2>1. faulty'
    BY <1>10, Zenon DEF ForgetEtags, Charge
  <2> QED
    BY <1>10, <2>1, Zenon DEF ForgetEtags, configVars, walkVars
<1>11. CASE LoseVariable
  <2>1. faulty'
    BY <1>11, Zenon DEF LoseVariable, Charge
  <2> QED
    BY <1>11, <2>1, Zenon DEF LoseVariable, exchangeVars, walkVars
<1>12. CASE UNCHANGED vars
  BY <1>12, Zenon DEF vars, configVars, exchangeVars, walkVars, countVars
<1> QED
  BY <1>3, <1>4, <1>5, <1>6, <1>7, <1>8, <1>9, <1>10, <1>11, <1>12, Zenon DEF Next, Firmware

LEMMA TakenStep ==
  TypeOK /\ MemberInv /\ EtagInv /\ ReadyInv /\ TakenInv /\ [Next]_vars => TakenInv'
<1> SUFFICES ASSUME TypeOK, MemberInv, EtagInv, ReadyInv, TakenInv, [Next]_vars
             PROVE  TakenInv'
  BY Zenon
<1> USE DEF TakenInv
<1>1. ASSUME NEW f \in BOOLEAN, NEW n \in Nic, Connect(n, f) PROVE TakenInv'
  BY <1>1, Zenon DEF Connect, exchangeVars, walkVars
<1>2. ASSUME NEW f \in BOOLEAN, Boot(f) PROVE TakenInv'
  BY <1>2, Zenon DEF Boot
<1>3. ASSUME NEW f \in BOOLEAN, Walk(f) PROVE TakenInv'
  <2>1. f => faulty'
    BY <1>3, Zenon DEF Walk, Charge
  <2>2. faulty => faulty'
    BY <1>3, Zenon DEF Walk, Charge, countVars
  <2>3. ASSUME NEW m \in Member, HandleResource(m, f) PROVE TakenInv'
    <3>1. /\ pc = "members" /\ bmc' = bmc
          /\ \/ pc' = pc \/ pc' = "consume"
             \/ cur' = m /\ (f \/ bmc[m].dhcp = "absent")
      BY <2>3, HandleCases, Zenon
    <3> QED
      BY <2>1, <3>1, Zenon
  <2>4. CASE RedfishResourceConsumeResource(f)
    <3>1. pc = "consume" /\ UNCHANGED <<bmc, cur>>
      BY <2>4, ConsumeCases, Zenon
    <3>2. cur \in Existing /\ mapped = {cur} /\ (got = bmc[cur] \/ cur \in raced)
      BY <3>1, Zenon DEF MemberInv, EtagInv
    <3>3. ~faulty => Readable
      BY <3>1, <3>2, Zenon DEF ReadyInv, Readable
    <3>4. etag[cur] = bmc[cur].ver => seen[cur] = bmc[cur].ver \/ cur \in raced
      BY <3>2, Zenon DEF EtagInv, EtagIsHonest
    <3>5. CASE /\ UNCHANGED <<EthCfg, rebootRequired, seen, raced>>
               /\ f \/ ~Readable \/ CheckEtag(got) \/ CheckEtag(bmc[cur])
      BY <2>1, <2>2, <3>1, <3>2, <3>3, <3>4, <3>5, Zenon DEF CheckEtag
    <3>6. CASE \E b \in {got, bmc[cur]}, failed \in SUBSET Question :
                 /\ seen' = IF failed = {} THEN [seen EXCEPT ![cur] = b.ver] ELSE seen
                 /\ raced' = IF failed = {} /\ b = bmc[cur] THEN raced \ {cur} ELSE raced
                 /\ f \/ failed = {}
      BY <2>1, <3>1, <3>2, <3>6, Zenon DEF TypeOK
    <3> QED
      BY <2>4, <3>5, <3>6, ConsumeCases, Zenon
  <2>5. CASE CreateCollectionResource(f) \/ RedfishResourceUpdate(f) \/ SetEtagFromUri(f)
             \/ EndWalk \/ RedfishCollectionFeatureCallback(f)
    <3>1. pc' # "update"
      BY <2>5, Zenon DEF CreateCollectionResource, RedfishResourceUpdate, SetEtagFromUri, EndWalk,
                  RedfishCollectionFeatureCallback, CollectionHandler,
                  HandleCollectionResource
    <3> QED
      BY <3>1, Zenon
  <2> QED
    BY <1>3, <2>3, <2>4, <2>5, Zenon DEF Walk
<1>4. CASE ReadyToBoot \/ CoreEnds \/ Restart \/ PowerCut
           \/ \E c \in SetupConfig : SetupSaves(c)
  <2>1. pc' # "update"
    BY <1>4, Zenon DEF ReadyToBoot, CoreEnds, Restart, PowerCut, SetupSaves, Off
  <2> QED
    BY <2>1, Zenon
<1>5. ASSUME NEW m \in Member, NEW b \in Body, ClientWrites(m, b) PROVE TakenInv'
  <2>1. \A k \in Member \ {m} : bmc'[k] = bmc[k]
    BY <1>5, ClientStores, Zenon
  <2>2. UNCHANGED <<pc, cur, seen, faulty>> /\ raced \subseteq raced'
    BY <1>5, Zenon DEF ClientWrites, walkVars
  <2>3. m = cur /\ pc = "update" => m \in raced'
    BY <1>5, Zenon DEF ClientWrites
  <2> QED
    BY <2>1, <2>2, <2>3, Zenon DEF TypeOK
<1>6. CASE ForgetEtags
  <2>1. faulty'
    BY <1>6, Zenon DEF ForgetEtags, Charge
  <2> QED
    BY <2>1, Zenon
<1>7. CASE LoseVariable
  BY <1>7, Zenon DEF LoseVariable, exchangeVars, walkVars
<1>8. CASE UNCHANGED vars
  BY <1>8, Zenon DEF vars, exchangeVars, walkVars, bmcVars, countVars
<1> QED
  BY <1>1, <1>2, <1>3, <1>4, <1>5, <1>6, <1>7, <1>8, Zenon DEF Next, Firmware

LEMMA SeenStep == TypeOK /\ MemberInv /\ SeenInv /\ [Next]_vars => SeenInv'
<1> SUFFICES ASSUME TypeOK, MemberInv, SeenInv, [Next]_vars PROVE SeenInv'
  BY Zenon
<1> USE DEF SeenInv
<1>1. \A m \in Member : bmc[m].ver \in Nat /\ seen[m] \in Nat
  BY Zenon DEF TypeOK, Representation
<1>2. ASSUME UNCHANGED <<bmc, seen>>, pc' # "consume" PROVE SeenInv'
  BY <1>2, Zenon
<1>3. ASSUME NEW f \in BOOLEAN, Walk(f) PROVE SeenInv'
  <2>1. CASE CreateCollectionResource(f)
    <3>1. pc' # "consume"
      BY <2>1, Zenon DEF CreateCollectionResource
    <3>2. CASE ~UNCHANGED <<bmc, seen>>
      <4>1. PICK m \in Member : /\ bmc' = [bmc EXCEPT ![m] = Patched(Bare)]
                                /\ seen' = [seen EXCEPT ![m] = Patched(Bare).ver]
        BY <2>1, <3>2, Zenon DEF CreateCollectionResource, ProvisioningEthernetInterfaceResources,
                          ProvisioningEthernetInterfaceResource
      <4>2. Patched(Bare).ver \in Nat
        BY BareType, PatchedType, Zenon DEF TypeOK, ConfigTypeOK, Representation
      <4> QED
        BY <3>1, <4>1, <4>2 DEF TypeOK
    <3> QED
      BY <1>2, <3>1, <3>2, Zenon
  <2>2. ASSUME NEW m \in Member, HandleResource(m, f) PROVE SeenInv'
    <3>1. /\ pc = "members" /\ UNCHANGED <<bmc, seen>>
          /\ pc' = pc \/ pc' = "update" \/ (cur' = m /\ got' = bmc[m])
      BY <2>2, HandleCases, Zenon
    <3> QED
      BY <1>1, <3>1
  <2>3. CASE RedfishResourceUpdate(f)
    <3>1. pc' # "consume"
      BY <2>3, Zenon DEF RedfishResourceUpdate
    <3>2. Patched(bmc[cur]).ver \in Nat
      <4>1. bmc[cur] \in Representation /\ EthCfg \in Config
        BY Zenon DEF TypeOK, ConfigTypeOK
      <4> QED
        BY <4>1, PatchedType, Zenon DEF Representation
    <3>3. CASE UNCHANGED <<bmc, seen>>
      BY <1>2, <3>1, <3>3, Zenon
    <3>4. CASE bmc' = [bmc EXCEPT ![cur] = Patched(bmc[cur])]
               /\ seen' = [seen EXCEPT ![cur] = Patched(bmc[cur]).ver]
      BY <3>1, <3>2, <3>4 DEF TypeOK
    <3> QED
      BY <2>3, <3>3, <3>4, Zenon DEF RedfishResourceUpdate
  <2>4. CASE RedfishResourceConsumeResource(f)
    <3>1. pc = "consume" /\ pc' = "update" /\ bmc' = bmc
      BY <2>4, ConsumeCases, Zenon
    <3>2. got.ver \in Nat
      BY Zenon DEF TypeOK, Representation
    <3>3. seen' = seen \/ \E b \in {got, bmc[cur]} : seen' = [seen EXCEPT ![cur] = b.ver]
      BY <2>4, ConsumeCases, Zenon
    <3> QED
      BY <1>1, <3>1, <3>2, <3>3 DEF TypeOK
  <2>5. CASE SetEtagFromUri(f) \/ EndWalk \/ RedfishCollectionFeatureCallback(f)
    <3>1. UNCHANGED <<bmc, seen>> /\ pc' # "consume"
      BY <2>5, Zenon DEF SetEtagFromUri, EndWalk, RedfishCollectionFeatureCallback,
                  CollectionHandler, HandleCollectionResource, bmcVars
    <3> QED
      BY <1>2, <3>1, Zenon
  <2> QED
    BY <1>3, <2>1, <2>2, <2>3, <2>4, <2>5, Zenon DEF Walk
<1>4. ASSUME NEW m \in Member, NEW b \in Body, ClientWrites(m, b) PROVE SeenInv'
  <2>1. /\ bmc'[m].ver \in {bmc[m].ver, bmc[m].ver + 1}
        /\ \A k \in Member \ {m} : bmc'[k] = bmc[k]
    BY <1>4, ClientStores, Zenon
  <2>2. UNCHANGED <<pc, cur, seen, got>>
    BY <1>4, Zenon DEF ClientWrites, walkVars
  <2>3. got.ver \in Nat /\ cur \in Member
    BY Zenon DEF TypeOK, Representation
  <2> QED
    BY <1>1, <2>1, <2>2, <2>3
<1>5. CASE \/ Firmware /\ ~\E f \in BOOLEAN : Walk(f)
           \/ ReadyToBoot \/ CoreEnds \/ Restart \/ PowerCut \/ LoseVariable
           \/ \E c \in SetupConfig : SetupSaves(c)
  <2>1. UNCHANGED <<bmc, seen>> /\ pc' # "consume"
    BY <1>5, Zenon
    DEF Firmware, Boot, Connect, ReadyToBoot, CoreEnds, Restart, PowerCut, LoseVariable,
        SetupSaves, Off, exchangeVars, walkVars, bmcVars
  <2> QED
    BY <1>2, <2>1, Zenon
<1>6. CASE ForgetEtags
  BY <1>6, Zenon DEF ForgetEtags, walkVars
<1>7. CASE UNCHANGED vars
  BY <1>7, Zenon DEF vars, exchangeVars, walkVars, bmcVars
<1> QED
  BY <1>3, <1>4, <1>5, <1>6, <1>7, Zenon DEF Next, Firmware

\* Only a PATCH after a consume overwrites what a client wrote.
LEMMA TakesFirst == IInv /\ [Next]_vars => [ConsumesFirst]_vars
<1> SUFFICES ASSUME IInv, Next, NEW m \in Member, Overwrites(m)
             PROVE  m \in raced \/ faulty' \/ bmc[m].dhcp = "absent"
  BY Zenon DEF ConsumesFirst
<1> USE DEF Overwrites
<1>1. CASE \E f \in BOOLEAN : Walk(f)
  <2>1. PICK f \in BOOLEAN : Walk(f)
    BY <1>1, Zenon
  <2>2. faulty => faulty'
    BY <2>1, Zenon DEF Walk, Charge, countVars
  <2>3. CASE RedfishResourceUpdate(f)
    <3>1. pc = "update" /\ m = cur
      BY <2>3, Zenon DEF RedfishResourceUpdate, IInv, TypeOK
    <3> QED
      BY <2>2, <3>1, Zenon DEF IInv, TakenInv
  <2>4. CASE CreateCollectionResource(f)
    <3>1. pc = "create" /\ m \in Existing
      BY <2>4, Zenon DEF CreateCollectionResource, Existing
    <3> QED
      BY <3>1, Zenon DEF IInv, MemberInv
  <2>5. CASE RedfishResourceConsumeResource(f)
    BY <2>5, ConsumeCases, Zenon
  <2>6. ASSUME NEW k \in Member, HandleResource(k, f) PROVE FALSE
    BY <2>6, HandleCases, Zenon
  <2>7. CASE SetEtagFromUri(f) \/ EndWalk \/ RedfishCollectionFeatureCallback(f)
    BY <2>7, Zenon DEF SetEtagFromUri, EndWalk, RedfishCollectionFeatureCallback, bmcVars
  <2> QED
    BY <2>1, <2>3, <2>4, <2>5, <2>6, <2>7, Zenon DEF Walk
<1>2. ASSUME NEW k \in Member, NEW b \in Body, ClientWrites(k, b) PROVE FALSE
  <2>1. /\ bmc'[k].ver \in {bmc[k].ver, bmc[k].ver + 1}
        /\ \A j \in Member \ {k} : bmc'[j] = bmc[j]
    BY <1>2, ClientStores, Zenon DEF IInv
  <2>2. k = m /\ seen' = seen
    BY <1>2, <2>1, Zenon DEF ClientWrites
  <2>3. seen[m] \in Nat /\ bmc[m].ver \in Nat /\ seen[m] <= bmc[m].ver
    BY Zenon DEF IInv, TypeOK, SeenInv, Representation
  <2> QED
    BY <2>1, <2>2, <2>3
<1>3. CASE bmc' = bmc
  BY <1>3, Zenon
<1>4. CASE \/ Firmware /\ ~\E f \in BOOLEAN : Walk(f)
           \/ ReadyToBoot \/ CoreEnds \/ Restart \/ PowerCut \/ LoseVariable \/ ForgetEtags
           \/ \E c \in SetupConfig : SetupSaves(c)
  <2>1. bmc' = bmc
    BY <1>4, Zenon
    DEF Firmware, Boot, Connect, ReadyToBoot, CoreEnds, Restart, PowerCut, LoseVariable,
        ForgetEtags, SetupSaves, Off, exchangeVars, bmcVars
  <2> QED
    BY <1>3, <2>1, Zenon
<1> QED
  BY <1>1, <1>2, <1>4, Zenon DEF Next, Firmware

-----------------------------------------------------------------------------
(* The theorems. *)

LEMMA InitInv == Init => IInv
<1> SUFFICES ASSUME Init PROVE IInv
  BY Zenon
<1>1. TypeOK
  BY InitType, Zenon
<1>2. AppliedInv /\ ReadyInv /\ TakenInv
  BY Zenon DEF Init, AppliedInv, ReadyInv, TakenInv
<1>3. LinkInv
  BY EthConfigAssumption, Zenon DEF Init, LinkInv, DefaultConfig, Question
<1>4. \A m \in Member : bmc[m].ver \in Nat /\ (bmc[m] # NoBody => bmc[m].ver > 0)
  <2>1. \A m \in Member : bmc[m].ver \in Nat
    BY <1>1, Zenon DEF TypeOK, Representation
  <2> QED
    BY <2>1, PolicyAssumption, Zenon DEF Init
<1>5. MemberInv /\ EtagInv /\ SeenInv
  BY <1>4 DEF Init, MemberInv, EtagInv, EtagIsHonest, SeenInv, Existing
<1> QED
  BY <1>1, <1>2, <1>3, <1>5, Zenon DEF IInv

LEMMA StepInv == IInv /\ [Next]_vars => IInv'
BY TypeStep, AppliedStep, LinkStep, MemberStep, EtagStep, ReadyStep, TakenStep, SeenStep, Zenon
DEF IInv

LEMMA AlwaysInv == Spec => []IInv
BY InitInv, StepInv, PTL DEF Spec

\* Every variable keeps its type, for any NICs, members and texts.
THEOREM TypeCorrect == Spec => []TypeOK
<1>1. IInv => TypeOK
  BY Zenon DEF IInv
<1> QED
  BY <1>1, AlwaysInv, PTL

\* When the OS starts, the NIC that took every call runs what the questions say,
\* and after a boot without failures there is one if the board has any
\* (ApplyConfig, OnIp4Config2Installed, the consume helpers' reboot request).
THEOREM OsRunsWhatWasApplied == Spec => []OsRunsApplied
<1>1. IInv => OsRunsApplied
  BY Zenon DEF IInv, AppliedInv, ReadyInv, OsRunsApplied
<1> QED
  BY <1>1, AlwaysInv, PTL

\* The recorded ETag hides nothing that was not taken or raced (CheckEtag,
\* SetEtagFromUri).
THEOREM EtagStaysHonest == Spec => []EtagIsHonest
<1>1. IInv => EtagIsHonest
  BY Zenon DEF IInv, EtagInv
<1> QED
  BY <1>1, AlwaysInv, PTL

\* No step touches the BMC's USB link, whatever else binds or is written
\* (ClassifyNicDevicePath, OnIp4Config2Installed).
THEOREM LinkStaysUntouched == Spec => BmcLinkUntouched
<1>1. IInv /\ [Next]_vars => [KeepsLink]_vars
  BY LinkStep, Zenon DEF IInv
<1> QED
  BY <1>1, AlwaysInv, PTL DEF Spec, BmcLinkUntouched

\* The host creates a member only on a BMC that has none (CollectionHandler,
\* RedfishIdentifyResourceCommon).
THEOREM MembersAreAdopted == Spec => NeverDuplicates
<1>1. IInv /\ [Next]_vars => [Adopts]_vars
  BY MemberStep, Zenon DEF IInv
<1> QED
  BY <1>1, AlwaysInv, PTL DEF Spec, NeverDuplicates

\* What a client wrote is overwritten only after it was taken, but for a race, a
\* failure and a member without the marker (HandleResource).
THEOREM WritesAreTakenFirst == Spec => ClientWritesAreTaken
BY TakesFirst, AlwaysInv, PTL DEF Spec, ClientWritesAreTaken

=============================================================================
