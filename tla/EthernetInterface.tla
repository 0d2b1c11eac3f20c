--------------------------- MODULE EthernetInterface ---------------------------
(***************************************************************************)
(* RedfishEthernetInterfaceDxe and its collection driver: the exchange of  *)
(* the EthCfg questions with the BMC's EthernetInterface members, member   *)
(* by member: identify, check, consume, update, record the ETag.           *)
(***************************************************************************)
EXTENDS EthConfig, Sequences

CONSTANTS
  Member     \* the members the BMC's collection can have

StaticField == {"addr", "mask", "gw"}

\* A member as the driver tells representations apart.  A missing array and an
\* empty one convert to the same structure; "absent" and "empty" are a member
\* without DHCPv4 and one whose DHCPv4 has no DHCPEnabled; a missing or null
\* string is "".  The version stands for the ETag.
NoBody == [ver |-> 0, dhcp |-> "none", mac |-> "", static |-> <<>>, servers |-> <<>>]
Bare == [ver |-> 1, dhcp |-> "absent", mac |-> "", static |-> <<>>, servers |-> <<>>]

\* An array element that is not JSON the driver can read.
Unreadable == [f \in StaticField |-> "unreadable"]

\* The properties a client writes, and a member with the ones it cannot.
Element == [StaticField -> Text \cup {""}] \cup {Unreadable}
Written == [dhcp : {"absent", "empty", "on", "off"}, static : Seq(Element),
            servers : Seq(Text)]
Representation ==
  [ver : Nat, dhcp : Value \cup {"none", "absent", "empty"}, mac : Value,
   static : Seq([StaticField -> Value] \cup {Unreadable}), servers : Seq(Value)]

\* The BMC gives b's member the content c: the ETag changes when it does.
Stored(b, c) ==
  LET same == /\ b.dhcp = c.dhcp /\ b.mac = c.mac
              /\ b.static = c.static /\ b.servers = c.servers
  IN [ver |-> IF same THEN b.ver ELSE b.ver + 1, dhcp |-> c.dhcp, mac |-> c.mac,
      static |-> c.static, servers |-> c.servers]

VARIABLES
  bmc,             \* each member's representation on the BMC; NoBody: none
  etag,            \* the ETag the host recorded for it; 0: none
  mapped,          \* the member the configure-language map points to, if any
  rebootRequired,  \* PcdRedfishSystemRebootRequired
  pc,              \* "off", "bds", "collection", "create", "members", "consume",
                   \* "update", "etag", "end", "os"
  todo,            \* members the collection's walk has not come to
  cur,             \* the member it is at
  got,             \* the response the HTTP layer cached for it
  seen,            \* history: the last version of each member that the questions
                   \* took or that the host wrote
  raced            \* history: members written by others while the host was
                   \* between its first GET of them and the ETag it recorded

bmcVars == <<bmc, etag>>
walkVars == <<pc, todo, cur, got>>
exchangeVars == <<bmcVars, mapped, rebootRequired, walkVars, seen, raced>>

-----------------------------------------------------------------------------
(* The conversions between the questions and a member. *)

\* A question can be read and written when the formset is there and the
\* variable behind it is well formed.
Readable == published /\ wellFormed

\* FetchStringProperty(), as the array elements it gives: an empty string is
\* none.
IfSet(s) == IF s = "" THEN <<>> ELSE <<s>>

\* BuildEthernetInterfacePayload(): a static entry only with an address, the
\* name servers compacted.
BuildPayload(c) ==
  [dhcp |-> c["dhcp"], mac |-> c["mac"],
   static |-> IF c["addr"] = "" THEN <<>> ELSE <<[f \in StaticField |-> c[f]]>>,
   servers |-> IfSet(c["dns1"]) \o IfSet(c["dns2"])]

\* The PATCH of member representation b.  Questions that cannot be read leave
\* MACAddress and DHCPv4 out and send both arrays empty.
Patched(b) ==
  LET p == BuildPayload(EthCfg)
  IN Stored(b, IF Readable
                 THEN [dhcp |-> p.dhcp, mac |-> IF p.mac = "" THEN b.mac ELSE p.mac,
                       static |-> p.static, servers |-> p.servers]
                 ELSE [dhcp |-> b.dhcp, mac |-> b.mac, static |-> <<>>, servers |-> <<>>])

\* What the array says of the static questions: an empty one clears them, an
\* element that cannot be read leaves them.
ConsumeStaticAddresses(b) ==
  [f \in IF b.static # <<>> /\ b.static[1] = Unreadable THEN {} ELSE StaticField |->
     IF b.static = <<>> THEN "" ELSE b.static[1][f]]

\* The questions a representation speaks about, with what it says.
Wanted(b) ==
  LET static == ConsumeStaticAddresses(b)
      servers == IF b.servers = <<>> THEN {} ELSE {"dns1", "dns2"}
      dhcp == IF b.dhcp \in {"on", "off"} THEN {"dhcp"} ELSE {}
  IN [q \in DOMAIN static \cup servers \cup dhcp |->
        CASE q = "dhcp" -> b.dhcp
          [] q \in StaticField -> static[q]
          [] q = "dns1" -> b.servers[1]
          [] q = "dns2" -> IF Len(b.servers) > 1 THEN b.servers[2] ELSE ""]

\* Mutant: every representation is taken for a new one.
CheckEtagNever(b) == FALSE

\* The representation is the one whose ETag was recorded.
CheckEtag(b) == b.ver = etag[cur]

\* A question is written by itself, and a write that fails is only logged.
ConsumeStringProperty(q, v, failed) == IF q \in failed THEN EthCfg[q] ELSE v

\* RedfishConsumeResourceCommon() of a representation with a new ETag.
Consumed(b, failed) ==
  [q \in Question |-> IF q \in DOMAIN Wanted(b)
                        THEN ConsumeStringProperty(q, Wanted(b)[q], failed)
                        ELSE EthCfg[q]]

-----------------------------------------------------------------------------
(* The collection. *)

Existing == {m \in Member : bmc[m] # NoBody}

\* Mutant: the loop over the members ends after the first.
HandleCollectionResourceFirst ==
  IF Existing = {} THEN pc' = "create" /\ todo' = {}
                   ELSE pc' = "members" /\ \E m \in Existing : todo' = {m}

\* A collection without members is to be filled.
HandleCollectionResource ==
  IF Existing = {} THEN pc' = "create" /\ todo' = {}
                   ELSE pc' = "members" /\ todo' = Existing

\* Mutant: a collection that cannot be read is taken for an empty one.
CollectionHandlerEager(fault) ==
  \/ fault /\ pc' = (IF Existing = Member THEN "end" ELSE "create") /\ todo' = {}
  \/ HandleCollectionResource

\* A collection that cannot be read ends the walk, as does an unreadable list of
\* members.
CollectionHandler(fault) ==
  \/ fault /\ pc' = "end" /\ todo' = {}
  \/ HandleCollectionResource

\* Without the service, or memory for its URI, there is no walk.
RedfishCollectionFeatureCallback(fault) ==
  /\ pc = "collection"
  /\ \/ fault /\ pc' = "end" /\ todo' = {}
     \/ CollectionHandler(fault)
  /\ UNCHANGED <<bmcVars, mapped, rebootRequired, cur, got, seen, raced>>

\* The POST that lands, as member m.  The answer may be lost or have no Location
\* header, and then the map is not seeded.
ProvisioningEthernetInterfaceResource(m, fault) ==
  /\ bmc' = [bmc EXCEPT ![m] = Patched(Bare)]
  /\ seen' = [seen EXCEPT ![m] = Patched(Bare).ver]
  /\ mapped' = IF fault THEN mapped ELSE {m}

\* The one instance is POSTed if its formset is published.
ProvisioningEthernetInterfaceResources(fault) ==
  \/ /\ fault \/ ~published
     /\ UNCHANGED <<bmc, mapped, seen>>
  \/ /\ published
     /\ \E m \in Member \ Existing : ProvisioningEthernetInterfaceResource(m, fault)

\* Provisioning in POST mode; the ETag it records is the collection's.
CreateCollectionResource(fault) ==
  /\ pc = "create"
  /\ pc' = "end"
  /\ ProvisioningEthernetInterfaceResources(fault)
  /\ UNCHANGED <<etag, rebootRequired, todo, cur, got, raced>>

-----------------------------------------------------------------------------
(* One member. *)

\* Mutant: the list is not advanced.
NextMemberStays(m) == m \in todo /\ UNCHANGED todo

\* The members are visited one by one.
NextMember(m) == m \in todo /\ todo' = todo \ {m}

\* A member is the host's if the instance it stands for is published.
RedfishIdentifyResourceCommon == published

\* What RedfishResourceIdentify() may answer: its GET or the map may fail.
RedfishResourceIdentify(fault) ==
  {RedfishIdentifyResourceCommon, RedfishIdentifyResourceCommon /\ ~fault}

\* Mutant: the marker is not found.
RedfishCheckResourceCommonBlind(b) == FALSE

\* DHCPv4 marks a member that carries the managed properties.
RedfishCheckResourceCommon(b) == b.dhcp # "absent"

\* What RedfishResourceCheck() may answer; a failed GET is like no marker.
RedfishResourceCheck(b, fault) ==
  {RedfishCheckResourceCommon(b), RedfishCheckResourceCommon(b) /\ ~fault}

\* HandleResource() up to its consume or provisioning: the schema, identify
\* unless the map knows the member, check.  Provisioning an existing member is
\* the same PATCH as an update.
HandleResource(m, fault) ==
  /\ pc = "members"
  /\ NextMember(m)
  /\ \/ /\ fault \/ (m \notin mapped /\ FALSE \in RedfishResourceIdentify(fault))
        /\ UNCHANGED <<pc, cur, got, mapped>>
     \/ /\ m \in mapped \/ TRUE \in RedfishResourceIdentify(fault)
        /\ cur' = m
        /\ mapped' = {m}
        /\ \E present \in RedfishResourceCheck(bmc[m], fault) :
             IF present THEN pc' = "consume" /\ got' = bmc[m]
                        ELSE pc' = "update" /\ UNCHANGED got
  /\ UNCHANGED <<bmcVars, rebootRequired, seen, raced>>

\* The cached response is consumed, or a new one.  A
\* failed GET or conversion consumes nothing and the update still follows; so
\* does an ETag that is the recorded one.
RedfishResourceConsumeResource(fault) ==
  /\ pc = "consume"
  /\ pc' = "update"
  /\ got' = NoBody
  /\ \/ /\ fault
        /\ UNCHANGED <<EthCfg, rebootRequired, seen, raced>>
     \/ \E b \in {got, bmc[cur]}, failed \in IF fault THEN SUBSET Question ELSE {{}} :
          /\ IF CheckEtag(b) \/ ~Readable
               THEN UNCHANGED <<EthCfg, rebootRequired, seen, raced>>
               ELSE /\ EthCfg' = Consumed(b, failed)
                    /\ rebootRequired' = (rebootRequired \/ EthCfg' # EthCfg)
                    /\ seen' = IF failed = {} THEN [seen EXCEPT ![cur] = b.ver] ELSE seen
                    /\ raced' = IF failed = {} /\ b = bmc[cur] THEN raced \ {cur} ELSE raced
  /\ UNCHANGED <<bmcVars, mapped, todo, cur>>

\* Mutant: the ETag is recorded after a PATCH that failed, too.
RedfishResourceUpdateRecords(fault) ==
  /\ pc = "update"
  /\ \/ /\ fault
        /\ UNCHANGED <<bmc, seen, raced>>
     \/ /\ bmc' = [bmc EXCEPT ![cur] = Patched(bmc[cur])]
        /\ seen' = [seen EXCEPT ![cur] = Patched(bmc[cur]).ver]
        /\ raced' = raced \ {cur}
  /\ pc' = "etag"
  /\ UNCHANGED <<etag, mapped, rebootRequired, todo, cur, got>>

\* Mutant: a member with the recorded ETag is not updated.
RedfishResourceUpdateIfNew(fault) ==
  /\ pc = "update"
  /\ \/ /\ fault \/ CheckEtag(bmc[cur])
        /\ UNCHANGED <<bmc, seen, raced>>
     \/ /\ ~CheckEtag(bmc[cur])
        /\ bmc' = [bmc EXCEPT ![cur] = Patched(bmc[cur])]
        /\ seen' = [seen EXCEPT ![cur] = Patched(bmc[cur]).ver]
        /\ raced' = raced \ {cur}
  /\ pc' = IF fault THEN "members" ELSE "etag"
  /\ UNCHANGED <<etag, mapped, rebootRequired, todo, cur, got>>

\* RedfishResourceUpdate() or RedfishResourceProvisioningResource(): the PATCH
\* of every managed property.  It fails, or lands and its answer is lost, and
\* the ETag is left as it was.
RedfishResourceUpdate(fault) ==
  /\ pc = "update"
  /\ \/ /\ fault
        /\ UNCHANGED <<bmc, seen, raced>>
     \/ /\ bmc' = [bmc EXCEPT ![cur] = Patched(bmc[cur])]
        /\ seen' = [seen EXCEPT ![cur] = Patched(bmc[cur]).ver]
        /\ raced' = raced \ {cur}
  /\ pc' = IF fault THEN "members" ELSE "etag"
  /\ UNCHANGED <<etag, mapped, rebootRequired, todo, cur, got>>

\* SetEtagFromUri(): a new GET, whose ETag is recorded.
SetEtagFromUri(fault) ==
  /\ pc = "etag"
  /\ pc' = "members"
  /\ etag' = IF fault THEN etag ELSE [etag EXCEPT ![cur] = bmc[cur].ver]
  /\ UNCHANGED <<bmc, mapped, rebootRequired, todo, cur, got, seen, raced>>

\* Every member was handled.
EndWalk ==
  /\ pc = "members"
  /\ todo = {}
  /\ pc' = "end"
  /\ UNCHANGED <<bmcVars, mapped, rebootRequired, todo, cur, got, seen, raced>>

=============================================================================
