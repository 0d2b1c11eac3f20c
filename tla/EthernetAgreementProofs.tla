------------------------ MODULE EthernetAgreementProofs ------------------------
(***************************************************************************)
(* The host and the BMC agree when the OS starts, and the exchange that    *)
(* makes them agree does not reset for ever: for any NICs, members, texts  *)
(* and numbers of writes and faults.                                       *)
(***************************************************************************)
EXTENDS EthernetPolicyProofs

\* The places of a walk over the members, and after it.
Visiting == {"members", "consume", "update", "etag", "end", "os"}

-----------------------------------------------------------------------------
(* What a PATCH leaves is what the host would send again. *)

\* The member shows the questions.
Shows(m) == Patched(bmc[m]) = bmc[m]

\* Storing the content that is there changes nothing.
LEMMA StoredAgain ==
  ASSUME NEW b, NEW c, NEW d,
         d.dhcp = c.dhcp, d.mac = c.mac, d.static = c.static, d.servers = c.servers
  PROVE  Stored(Stored(b, c), d) = Stored(b, c)
<1> DEFINE s == Stored(b, c)
<1>1. s.dhcp = c.dhcp /\ s.mac = c.mac /\ s.static = c.static /\ s.servers = c.servers
  BY DEF Stored
<1>2. Stored(s, d) = [ver |-> s.ver, dhcp |-> d.dhcp, mac |-> d.mac, static |-> d.static,
                      servers |-> d.servers]
  BY <1>1, Zenon DEF Stored
<1>3. s = [ver |-> s.ver, dhcp |-> c.dhcp, mac |-> c.mac, static |-> c.static,
           servers |-> c.servers]
  BY DEF Stored
<1> QED
  BY <1>2, <1>3, Zenon

\* A PATCH is idempotent.
LEMMA PatchedAgain ==
  ASSUME NEW b
  PROVE  Patched(Patched(b)) = Patched(b)
<1> DEFINE p == BuildPayload(EthCfg)
           Sent(x) == IF Readable
                        THEN [dhcp |-> p.dhcp, mac |-> IF p.mac = "" THEN x.mac ELSE p.mac,
                              static |-> p.static, servers |-> p.servers]
                        ELSE [dhcp |-> x.dhcp, mac |-> x.mac, static |-> <<>>,
                              servers |-> <<>>]
<1>1. \A x : Patched(x) = Stored(x, Sent(x))
  BY Zenon DEF Patched
<1> DEFINE s == Stored(b, Sent(b))
<1>2. s.dhcp = Sent(b).dhcp /\ s.mac = Sent(b).mac
  BY DEF Stored
<1> HIDE DEF p, s
<1>3. /\ Sent(s).dhcp = Sent(b).dhcp /\ Sent(s).mac = Sent(b).mac
      /\ Sent(s).static = Sent(b).static /\ Sent(s).servers = Sent(b).servers
  <2>1. CASE Readable
    BY <1>2, <2>1
  <2>2. CASE ~Readable
    BY <1>2, <2>2
  <2> QED
    BY <2>1, <2>2, Zenon
<1>4. Stored(s, Sent(s)) = s
  <2> HIDE DEF Sent
  <2> QED
    BY <1>3, StoredAgain, Zenon DEF s
<1>5. Patched(b) = s /\ Patched(s) = Stored(s, Sent(s))
  <2> HIDE DEF Sent
  <2> QED
    BY <1>1, Zenon DEF s
<1> QED
  BY <1>4, <1>5, Zenon

\* So a member that was just patched shows the questions.
LEMMA ShowsPatched ==
  ASSUME UNCHANGED <<EthCfg, published, wellFormed>>, NEW m, NEW b, bmc'[m] = Patched(b)
  PROVE  Shows(m)'
<1>1. Patched(bmc'[m]) = bmc'[m]
  BY PatchedAgain, Zenon
<1> QED
  BY <1>1, Zenon DEF Shows, Patched, Readable

\* And one that is left alone shows them as long as they stay.
LEMMA ShowsStill ==
  ASSUME UNCHANGED <<EthCfg, published, wellFormed>>, NEW m, bmc'[m] = bmc[m], Shows(m)
  PROVE  Shows(m)'
BY Zenon DEF Shows, Patched, Readable

\* A client's write changes the version.
LEMMA ClientMoves ==
  ASSUME TypeOK, NEW m \in Member, NEW b \in Body, ClientWrites(m, b)
  PROVE  bmc'[m].ver = bmc[m].ver + 1
<1> DEFINE c == [dhcp |-> b.dhcp, mac |-> bmc[m].mac, static |-> b.static,
                 servers |-> b.servers]
<1>1. bmc' = [bmc EXCEPT ![m] = Stored(bmc[m], c)] /\ bmc' # bmc
  BY Zenon DEF ClientWrites
<1>2. bmc \in [Member -> Representation]
  BY Zenon DEF TypeOK
<1>3. bmc[m] = [ver |-> bmc[m].ver, dhcp |-> bmc[m].dhcp, mac |-> bmc[m].mac,
                static |-> bmc[m].static, servers |-> bmc[m].servers]
  BY <1>2 DEF Representation
<1> HIDE DEF c
<1>4. Stored(bmc[m], c) # bmc[m]
  BY <1>1, <1>2
<1>5. ~ (/\ bmc[m].dhcp = c.dhcp /\ bmc[m].mac = c.mac
         /\ bmc[m].static = c.static /\ bmc[m].servers = c.servers)
  BY <1>3, <1>4, Zenon DEF Stored
<1>6. Stored(bmc[m], c).ver = bmc[m].ver + 1
  BY <1>5 DEF Stored
<1> QED
  BY <1>1, <1>2, <1>6, Zenon

-----------------------------------------------------------------------------
(* The host and the BMC agree. *)

\* The members behind the walk show the questions, unless somebody wrote them
\* since; a change of the questions excuses the rest of this boot.
AgreeInv ==
  /\ pc \in {"create", "end", "os"} => todo = {}
  /\ pc \in Visiting /\ ~faulty /\ Readable /\ ~rebootRequired =>
       \A m \in Existing : \/ Shows(m) \/ seen[m] # bmc[m].ver \/ m \in todo
                           \/ pc \in {"consume", "update"} /\ m = cur

\* What a charge says of the boot and of the resets.
LEMMA Charged ==
  ASSUME NEW f \in BOOLEAN, Charge(f)
  PROVE  /\ f => faulty' /\ resets' = 0
         /\ ~f => UNCHANGED <<faulty, resets>>
BY Zenon DEF Charge, countVars

\* Without a failure, HandleResource() passes over a member only where there is
\* no formset.
LEMMA HandleSkips ==
  ASSUME NEW m \in Member, HandleResource(m, FALSE), published
  PROVE  /\ cur' = m /\ todo' = todo \ {m}
         /\ pc' \in {"consume", "update"}
         /\ pc' = "consume" => got' = bmc[m]
<1>1. \A x \in RedfishResourceIdentify(FALSE) : x
  BY Zenon DEF RedfishResourceIdentify, RedfishIdentifyResourceCommon
<1>2. todo' = todo \ {m} /\ cur' = m
      /\ \E present \in RedfishResourceCheck(bmc[m], FALSE) :
           IF present THEN pc' = "consume" /\ got' = bmc[m]
                      ELSE pc' = "update" /\ UNCHANGED got
  BY <1>1, Zenon DEF HandleResource, NextMember
<1> QED
  BY <1>2, Zenon

LEMMA WalkAgrees ==
  ASSUME TypeOK, MemberInv, AgreeInv, NEW f \in BOOLEAN, Walk(f)
  PROVE  AgreeInv'
<1> USE DEF AgreeInv, Visiting
<1>1. f \/ faulty => faulty'
  <2>1. CASE f
    BY <2>1, Charged, Zenon DEF Walk
  <2>2. CASE ~f
    BY <2>2, Charged, Zenon DEF Walk
  <2> QED
    BY <2>1, <2>2, Zenon
<1>2. UNCHANGED <<published, wellFormed>> /\ (Readable' => Readable)
  <2>1. UNCHANGED <<published, wellFormed>>
    BY WalkFrame, Zenon
  <2> QED
    BY <2>1, Zenon DEF Readable
<1>3. ASSUME NEW m \in Member, UNCHANGED EthCfg, bmc'[m] = bmc[m], Shows(m) PROVE Shows(m)'
  BY <1>2, <1>3, ShowsStill, Zenon
<1>4. CASE RedfishCollectionFeatureCallback(f) /\ UNCHANGED EthCfg
  <2>1. /\ Existing' = Existing
        /\ \/ f /\ pc' = "end" /\ todo' = {}
           \/ pc' = "create" /\ todo' = {}
           \/ pc' = "members" /\ todo' = Existing
    BY <1>4, Zenon DEF RedfishCollectionFeatureCallback, CollectionHandler,
                HandleCollectionResource, bmcVars, Existing
  <2> QED
    BY <1>1, <2>1, Zenon
<1>5. CASE CreateCollectionResource(f) /\ UNCHANGED EthCfg
  <2>1. pc = "create" /\ pc' = "end" /\ UNCHANGED todo /\ Existing = {}
    BY <1>5, Zenon DEF CreateCollectionResource, MemberInv
  <2>2. CASE f
    BY <1>1, <2>1, <2>2, Zenon
  <2>3. CASE ~f /\ published
    <3>1. PICK m \in Member : bmc' = [bmc EXCEPT ![m] = Patched(Bare)]
      BY <1>5, <2>3, Zenon DEF CreateCollectionResource, ProvisioningEthernetInterfaceResources,
                        ProvisioningEthernetInterfaceResource
    <3>2. bmc'[m] = Patched(Bare) /\ \A k \in Member \ {m} : bmc'[k] = bmc[k]
      BY <3>1, Zenon DEF TypeOK
    <3>3. Shows(m)'
      BY <1>2, <1>5, <3>2, ShowsPatched, Zenon
    <3>4. Existing' \subseteq {m}
      BY <2>1, <3>2, Zenon DEF Existing
    <3> QED
      BY <2>1, <3>3, <3>4, Zenon
  <2>4. CASE ~f /\ ~published
    BY <1>2, <2>1, <2>4, Zenon DEF Readable
  <2> QED
    BY <2>2, <2>3, <2>4, Zenon
<1>6. ASSUME NEW m \in Member, HandleResource(m, f), UNCHANGED EthCfg PROVE AgreeInv'
  <2>1. /\ pc = "members" /\ pc' \in {"members", "consume", "update"}
        /\ UNCHANGED <<bmc, seen>> /\ (rebootRequired => rebootRequired')
    BY <1>6, HandleCases, Zenon
  <2>2. Existing' = Existing
    BY <2>1, Zenon DEF Existing
  <2>3. CASE ~f /\ published
    <3>1. cur' = m /\ todo' = todo \ {m} /\ pc' \in {"consume", "update"}
      BY <1>6, <2>3, HandleSkips, Zenon
    <3>2. \A k \in Existing : Shows(k) => Shows(k)'
      BY <1>3, <1>6, <2>1, Zenon DEF Existing
    <3> QED
      BY <1>1, <1>2, <2>1, <2>2, <2>3, <3>1, <3>2, Zenon
  <2>4. CASE f \/ ~published
    BY <1>1, <1>2, <2>1, <2>4, Zenon DEF Readable
  <2> QED
    BY <2>3, <2>4, Zenon
<1>7. CASE RedfishResourceUpdate(f) /\ UNCHANGED EthCfg
  <2>1. pc = "update" /\ pc' \in {"members", "etag"} /\ UNCHANGED <<todo, cur>>
        /\ (rebootRequired => rebootRequired')
    BY <1>7, Zenon DEF RedfishResourceUpdate
  <2>2. CASE f
    BY <1>1, <2>1, <2>2, Zenon
  <2>3. CASE ~f
    <3>1. /\ bmc' = [bmc EXCEPT ![cur] = Patched(bmc[cur])]
          /\ seen' = [seen EXCEPT ![cur] = Patched(bmc[cur]).ver]
      BY <1>7, <2>3, Zenon DEF RedfishResourceUpdate
    <3>2. /\ bmc'[cur] = Patched(bmc[cur])
          /\ \A k \in Member \ {cur} : bmc'[k] = bmc[k] /\ seen'[k] = seen[k]
      BY <3>1, Zenon DEF TypeOK
    <3>3. Shows(cur)'
      <4>1. bmc'[cur'] = Patched(bmc[cur])
        BY <2>1, <3>2, Zenon
      <4>2. \A k : bmc'[k] = Patched(bmc[cur]) => (Patched(bmc[k]) = bmc[k])'
        BY <1>2, <1>7, ShowsPatched, Zenon DEF Shows
      <4> QED
        BY <3>2, <4>1, <4>2, Zenon DEF Shows
    <3>4. \A k \in Member \ {cur} : Shows(k) => Shows(k)'
      BY <1>3, <1>7, <3>2, Zenon
    <3>5. \A k \in Existing' : k \in Member /\ (k # cur => k \in Existing)
      BY <3>2, Zenon DEF Existing
    <3> QED
      BY <1>1, <1>2, <2>1, <2>3, <3>2, <3>3, <3>4, <3>5, Zenon
  <2> QED
    BY <2>2, <2>3, Zenon
<1>8. CASE (SetEtagFromUri(f) \/ (~f /\ EndWalk)) /\ UNCHANGED EthCfg
  <2>1. /\ UNCHANGED <<bmc, seen, todo>> /\ (rebootRequired => rebootRequired')
        /\ \/ pc = "etag" /\ pc' = "members"
           \/ pc = "members" /\ pc' = "end" /\ todo = {}
    <3>1. CASE SetEtagFromUri(f)
      BY <3>1, Zenon DEF SetEtagFromUri
    <3>2. CASE EndWalk
      BY <3>2, Zenon DEF EndWalk, bmcVars
    <3> QED
      BY <1>8, <3>1, <3>2, Zenon
  <2>2. Existing' = Existing /\ \A k \in Existing : Shows(k) => Shows(k)'
    BY <1>3, <1>8, <2>1, Zenon DEF Existing
  <2> QED
    BY <1>1, <1>2, <2>1, <2>2, Zenon
<1>9. CASE RedfishResourceConsumeResource(f)
  <2>1. pc = "consume" /\ pc' = "update" /\ UNCHANGED <<bmc, todo, cur>> /\ cur \in Existing
    BY <1>9, ConsumeCases, Zenon DEF MemberInv
  <2>2. Existing' = Existing
    BY <2>1, Zenon DEF Existing
  <2>3. /\ \A k \in Member \ {cur} : seen'[k] = seen[k]
        /\ rebootRequired => rebootRequired'
        /\ ~rebootRequired' => UNCHANGED EthCfg
    <3>1. CASE UNCHANGED <<EthCfg, rebootRequired, seen>>
      BY <3>1, Zenon
    <3>2. CASE \E b \in {got, bmc[cur]}, failed \in SUBSET Question :
                 /\ rebootRequired' = (rebootRequired \/ EthCfg' # EthCfg)
                 /\ seen' = IF failed = {} THEN [seen EXCEPT ![cur] = b.ver] ELSE seen
      BY <3>2, Zenon DEF TypeOK
    <3> QED
      BY <1>9, <3>1, <3>2, ConsumeCases, Zenon
  <2>4. UNCHANGED EthCfg => \A k \in Existing : Shows(k) => Shows(k)'
    BY <1>3, <2>1, Zenon DEF Existing
  <2>5. \A k \in Existing : k \in Member
    BY Zenon DEF Existing
  <2> QED
    BY <1>1, <1>2, <2>1, <2>2, <2>3, <2>4, <2>5, Zenon
<1> QED
  BY <1>4, <1>5, <1>6, <1>7, <1>8, <1>9, Zenon DEF Walk

LEMMA AgreeStep == IInv /\ AgreeInv /\ [Next]_vars => AgreeInv'
<1> SUFFICES ASSUME IInv, AgreeInv, [Next]_vars PROVE AgreeInv'
  BY Zenon
<1>0. TypeOK /\ MemberInv /\ SeenInv
  BY Zenon DEF IInv
<1>1. ASSUME pc' \notin Visiting, pc' # "create" PROVE AgreeInv'
  BY <1>1, Zenon DEF AgreeInv, Visiting
<1>2. CASE \E f \in BOOLEAN : Walk(f)
  BY <1>0, <1>2, WalkAgrees, Zenon
<1>3. CASE \/ Firmware /\ ~\E f \in BOOLEAN : Walk(f)
           \/ ReadyToBoot \/ Restart \/ PowerCut \/ LoseVariable
           \/ \E c \in SetupConfig : SetupSaves(c)
  <2>1. pc' \in {"off", "bds", "collection"}
    BY <1>3, Zenon
    DEF Firmware, Boot, Connect, ReadyToBoot, Restart, PowerCut, LoseVariable, SetupSaves,
        Off, exchangeVars, walkVars
  <2> QED
    BY <1>1, <2>1, Zenon DEF Visiting
<1>4. ASSUME UNCHANGED <<EthCfg, published, wellFormed, bmc, seen, todo, cur, faulty,
                         rebootRequired>>,
             pc' = pc \/ (pc = "end" /\ pc' = "os")
      PROVE  AgreeInv'
  <2>1. Readable' = Readable /\ Existing' = Existing
    BY <1>4, Zenon DEF Readable, Existing
  <2>2. \A m \in Existing : Shows(m) => Shows(m)'
    BY <1>4, ShowsStill, Zenon
  <2> QED
    BY <1>4, <2>1, <2>2, Zenon DEF AgreeInv, Visiting
<1>5. CASE CoreEnds
  <2>1. CASE rebootRequired
    BY <1>1, <1>5, <2>1, Zenon DEF CoreEnds, Off, Visiting
  <2>2. CASE ~rebootRequired
    BY <1>4, <1>5, <2>2, Zenon DEF CoreEnds, bmcVars
  <2> QED
    BY <2>1, <2>2, Zenon
<1>6. ASSUME NEW m \in Member, NEW b \in Body, ClientWrites(m, b) PROVE AgreeInv'
  <2>1. /\ bmc[m] # NoBody /\ \A k \in Member \ {m} : bmc'[k] = bmc[k]
        /\ bmc'[m].ver = bmc[m].ver + 1
    BY <1>0, <1>6, ClientStores, ClientMoves, Zenon
  <2>2. UNCHANGED <<EthCfg, published, wellFormed, seen, pc, todo, cur, faulty, rebootRequired>>
    BY <1>6, Zenon DEF ClientWrites, configVars, walkVars
  <2>3. seen[m] \in Nat /\ bmc[m].ver \in Nat /\ seen[m] <= bmc[m].ver
    BY <1>0, Zenon DEF TypeOK, SeenInv, Representation
  <2>4. seen'[m] # bmc'[m].ver
    BY <2>1, <2>2, <2>3
  <2>5. Readable' = Readable /\ \A k \in Existing' : k \in Member /\ (k # m => k \in Existing)
    BY <2>1, <2>2, Zenon DEF Readable, Existing
  <2>6. \A k \in Member \ {m} : Shows(k) => Shows(k)'
    BY <2>1, <2>2, ShowsStill, Zenon
  <2> QED
    BY <2>1, <2>2, <2>4, <2>5, <2>6, Zenon DEF AgreeInv
<1>7. CASE ForgetEtags
  <2>1. faulty' /\ UNCHANGED <<pc, todo>>
    BY <1>7, Charged, Zenon DEF ForgetEtags, walkVars
  <2> QED
    BY <2>1, Zenon DEF AgreeInv
<1>8. CASE UNCHANGED vars
  BY <1>4, <1>8, Zenon DEF vars, configVars, exchangeVars, walkVars, bmcVars, countVars
<1> QED
  BY <1>2, <1>3, <1>5, <1>6, <1>7, <1>8, Zenon DEF Next, Firmware

-----------------------------------------------------------------------------
(* The exchange does not reset for ever. *)

\* The feature core reset since the last write or fault, once and twice.
Again == resets > 0
Twice == resets > 1

\* The recorded ETag is the member's.
Settled(m) == etag[m] = bmc[m].ver

\* A reset is asked for by a walk over readable questions.
RebootInv == rebootRequired => pc \in Visiting /\ Existing # {} /\ Readable

\* After one reset the boot is without failures, and so the members behind the
\* walk are settled; after two all are, and none is consumed any more.
LoopInv ==
  /\ Again => Existing # {}
  /\ Again /\ pc # "off" => ~faulty
  /\ Again /\ pc \in Visiting /\ Readable =>
       \A m \in Existing : \/ Settled(m) \/ m \in todo
                           \/ pc \in {"consume", "update", "etag"} /\ m = cur
  /\ Again /\ pc = "consume" => got = bmc[cur]
  /\ Twice => /\ ~rebootRequired
              /\ \A m \in Existing : Settled(m) \/ (pc = "etag" /\ m = cur)
  /\ NoBootLoop

\* The walk goes on, and takes a response only if it can write the questions and
\* the response has a new ETag.
LEMMA WalkGoesOn ==
  ASSUME NEW f \in BOOLEAN, Walk(f), pc \in Visiting
  PROVE  pc' \in Visiting
<1> USE DEF Visiting
<1>1. CASE RedfishCollectionFeatureCallback(f) \/ CreateCollectionResource(f)
  BY <1>1, Zenon DEF RedfishCollectionFeatureCallback, CreateCollectionResource
<1>2. ASSUME NEW m \in Member, HandleResource(m, f) PROVE pc' \in Visiting
  BY <1>2, HandleCases, Zenon
<1>3. CASE RedfishResourceUpdate(f)
  BY <1>3, Zenon DEF RedfishResourceUpdate
<1>4. CASE SetEtagFromUri(f) \/ EndWalk
  BY <1>4, Zenon DEF SetEtagFromUri, EndWalk
<1>5. CASE RedfishResourceConsumeResource(f)
  BY <1>5, ConsumeCases, Zenon
<1> QED
  BY <1>1, <1>2, <1>3, <1>4, <1>5, Zenon DEF Walk

LEMMA TakesNew ==
  ASSUME NEW f \in BOOLEAN, RedfishResourceConsumeResource(f)
  PROVE  \/ UNCHANGED <<EthCfg, rebootRequired, seen, raced>>
         \/ Readable /\ \E b \in {got, bmc[cur]} : ~CheckEtag(b)
BY Zenon DEF RedfishResourceConsumeResource

\* Members stay.
LEMMA MembersStay ==
  ASSUME TypeOK, MemberInv, [Next]_vars, Existing # {}
  PROVE  Existing' = Existing
<1>1. [Adopts]_vars
  BY MemberStep, Zenon
<1>2. CASE UNCHANGED vars
  BY <1>2, Zenon DEF vars, exchangeVars, bmcVars, Existing
<1> QED
  BY <1>1, <1>2, Zenon DEF Adopts

LEMMA RebootStep == IInv /\ RebootInv /\ [Next]_vars => RebootInv'
<1> SUFFICES ASSUME IInv, RebootInv, [Next]_vars, rebootRequired'
             PROVE  pc' \in Visiting /\ Existing' # {} /\ Readable'
  BY Zenon DEF RebootInv
<1>0. TypeOK /\ MemberInv /\ AppliedInv
  BY Zenon DEF IInv
<1>1. Existing # {} => Existing' # {}
  BY <1>0, MembersStay, Zenon
<1>2. ASSUME UNCHANGED <<published, wellFormed, pc>>, rebootRequired
      PROVE  pc' \in Visiting /\ Existing' # {} /\ Readable'
  BY <1>1, <1>2, Zenon DEF RebootInv, Readable
<1>3. ASSUME NEW f \in BOOLEAN, Walk(f)
      PROVE  pc' \in Visiting /\ Existing' # {} /\ Readable'
  <2>1. UNCHANGED <<published, wellFormed>>
    BY <1>3, WalkFrame, Zenon
  <2>2. Readable => Readable'
    BY <2>1, Zenon DEF Readable
  <2>3. CASE rebootRequired
    BY <1>1, <1>3, <2>2, <2>3, WalkGoesOn, Zenon DEF RebootInv
  <2>4. CASE ~rebootRequired
    <3>1. RedfishResourceConsumeResource(f)
      <4>1. UNCHANGED rebootRequired \/ RedfishResourceConsumeResource(f)
        BY <1>3, WalkFrame, Zenon
      <4> QED
        BY <2>4, <4>1, Zenon
    <3>2. Readable
      <4>1. UNCHANGED rebootRequired \/ Readable
        BY <3>1, TakesNew, Zenon
      <4> QED
        BY <2>4, <4>1, Zenon
    <3>3. pc' = "update" /\ Existing # {}
      BY <1>0, <3>1, ConsumeCases, Zenon DEF MemberInv
    <3> QED
      BY <1>1, <2>2, <3>2, <3>3, Zenon DEF Visiting
  <2> QED
    BY <2>3, <2>4, Zenon
<1>4. ASSUME pc \in {"off", "bds", "os"}, UNCHANGED rebootRequired PROVE FALSE
  <2>1. rebootRequired
    BY <1>4, Zenon
  <2> QED
    BY <1>0, <1>4, <2>1, Zenon DEF AppliedInv
<1>5. CASE Firmware /\ ~\E f \in BOOLEAN : Walk(f)
  <2>1. pc \in {"off", "bds"} /\ UNCHANGED rebootRequired
    BY <1>5, Zenon DEF Firmware, Boot, Connect, exchangeVars
  <2> QED
    BY <1>4, <2>1, Zenon
<1>6. CASE ReadyToBoot \/ LoseVariable
  <2>1. pc \in {"off", "bds"} /\ UNCHANGED rebootRequired
    BY <1>6, Zenon DEF ReadyToBoot, LoseVariable, exchangeVars
  <2> QED
    BY <1>4, <2>1, Zenon
<1>7. CASE Restart \/ PowerCut \/ \E c \in SetupConfig : SetupSaves(c)
  BY <1>7, Zenon DEF Restart, PowerCut, SetupSaves, Off
<1>8. CASE CoreEnds
  <2>1. CASE rebootRequired
    BY <1>8, <2>1, Zenon DEF CoreEnds, Off
  <2>2. CASE ~rebootRequired
    BY <1>8, <2>2, Zenon DEF CoreEnds
  <2> QED
    BY <2>1, <2>2, Zenon
<1>9. CASE ForgetEtags \/ \E m \in Member, b \in Body : ClientWrites(m, b)
  <2>1. UNCHANGED <<published, wellFormed, pc, rebootRequired>>
    BY <1>9, Zenon DEF ForgetEtags, ClientWrites, configVars, walkVars
  <2>2. rebootRequired
    BY <2>1, Zenon
  <2> QED
    BY <1>2, <2>1, <2>2, Zenon
<1>10. CASE UNCHANGED vars
  <2>1. UNCHANGED <<published, wellFormed, pc, rebootRequired>>
    BY <1>10, Zenon DEF vars, configVars, exchangeVars, walkVars
  <2>2. rebootRequired
    BY <2>1, Zenon
  <2> QED
    BY <1>2, <2>1, <2>2, Zenon
<1> QED
  BY <1>3, <1>5, <1>6, <1>7, <1>8, <1>9, <1>10, Zenon DEF Next, Firmware

\* What follows from the count of resets alone.
LEMMA ResetsAre ==
  ASSUME TypeOK
  PROVE  /\ resets' = 0 => ~Again' /\ ~Twice' /\ NoBootLoop'
         /\ UNCHANGED resets => /\ Again' => Again
                                /\ Twice' => Twice
                                /\ NoBootLoop => NoBootLoop'
         /\ Twice => Again
         /\ resets' = resets + 1 /\ ~Twice => /\ Twice' => Again
                                              /\ NoBootLoop'
<1>1. resets \in Nat
  BY Zenon DEF TypeOK
<1> QED
  BY <1>1 DEF Again, Twice, NoBootLoop

\* A step of the walk without a failure.
LEMMA WalkLoops ==
  ASSUME IInv, AgreeInv, LoopInv, Walk(FALSE)
  PROVE  LoopInv'
<1> USE DEF LoopInv, Visiting
<1>0. TypeOK /\ MemberInv
  BY Zenon DEF IInv
<1>1. /\ Again' => Again
      /\ Twice' => Twice /\ Again
      /\ NoBootLoop'
  BY <1>0, Charged, ResetsAre, Zenon DEF Walk
<1>2. CASE ~Again
  BY <1>1, <1>2, Zenon
<1> SUFFICES ASSUME Again PROVE LoopInv'
  BY <1>2, Zenon
<1>3. /\ Existing # {} /\ Existing' = Existing /\ pc # "create"
      /\ \A m \in Existing : m \in Member
  <2>1. Existing # {}
    BY Zenon
  <2>2. FALSE \in BOOLEAN
    OBVIOUS
  <2>3. Next
    BY <2>2, Zenon DEF Next, Firmware
  <2> QED
    BY <1>0, <2>1, <2>3, MembersStay, Zenon DEF MemberInv, Existing
<1>4. pc # "off" /\ UNCHANGED <<published, wellFormed>>
  BY WalkFrame, Zenon
<1>5. (Readable' => Readable) /\ ~faulty'
  <2>1. UNCHANGED faulty
    BY Charged, Zenon DEF Walk
  <2>2. ~faulty
    BY <1>4, Zenon
  <2> QED
    BY <1>4, <2>1, <2>2, Zenon DEF Readable
<1>6. ASSUME NEW m, bmc'[m] = bmc[m], etag'[m] = etag[m], Settled(m) PROVE Settled(m)'
  BY <1>6, Zenon DEF Settled
<1>7. CASE RedfishCollectionFeatureCallback(FALSE)
  <2>1. /\ UNCHANGED <<bmc, etag>> /\ pc = "collection" /\ pc' = "members"
        /\ todo' = Existing /\ (rebootRequired' => rebootRequired)
    BY <1>3, <1>7, Zenon DEF RedfishCollectionFeatureCallback, CollectionHandler,
                      HandleCollectionResource, bmcVars
  <2> QED
    BY <1>1, <1>3, <1>5, <1>6, <2>1, Zenon
<1>8. CASE CreateCollectionResource(FALSE)
  BY <1>3, <1>8, Zenon DEF CreateCollectionResource
<1>9. ASSUME NEW m \in Member, HandleResource(m, FALSE) PROVE LoopInv'
  <2>1. /\ pc = "members" /\ UNCHANGED <<bmc, etag>> /\ (rebootRequired' => rebootRequired)
        /\ pc' \in {"members", "consume", "update"}
        /\ pc' = "consume" => cur' = m /\ got' = bmc[m]
    BY <1>9, HandleCases, Zenon
  <2>2. \A k \in Existing : Settled(k) => Settled(k)'
    BY <1>6, <2>1, Zenon
  <2>3. pc' = "consume" => got' = bmc'[cur']
    BY <2>1, Zenon
  <2>4. CASE published
    <3>1. cur' = m /\ todo' = todo \ {m} /\ pc' \in {"consume", "update"}
      BY <1>9, <2>4, HandleSkips, Zenon
    <3> QED
      BY <1>1, <1>3, <1>5, <2>1, <2>2, <2>3, <3>1, Zenon
  <2>5. CASE ~published
    <3>1. ~Readable'
      BY <1>4, <2>5, Zenon DEF Readable
    <3> QED
      BY <1>1, <1>3, <1>5, <2>1, <2>2, <2>3, <3>1, Zenon
  <2> QED
    BY <2>4, <2>5, Zenon
<1>10. CASE RedfishResourceUpdate(FALSE)
  <2>1. /\ pc = "update" /\ pc' = "etag" /\ UNCHANGED <<etag, todo, cur>>
        /\ bmc' = [bmc EXCEPT ![cur] = Patched(bmc[cur])]
        /\ rebootRequired' => rebootRequired
    BY <1>10, Zenon DEF RedfishResourceUpdate
  <2>2. \A k \in Member \ {cur} : bmc'[k] = bmc[k]
    BY <1>0, <2>1, Zenon DEF TypeOK
  <2>3. \A k \in Existing : k # cur /\ Settled(k) => Settled(k)'
    BY <1>3, <1>6, <2>1, <2>2, Zenon
  <2> QED
    BY <1>1, <1>3, <1>5, <2>1, <2>3, Zenon
<1>11. CASE SetEtagFromUri(FALSE)
  <2>1. /\ pc = "etag" /\ pc' = "members" /\ UNCHANGED <<bmc, todo, cur>>
        /\ etag' = [etag EXCEPT ![cur] = bmc[cur].ver]
        /\ rebootRequired' => rebootRequired
    BY <1>11, Zenon DEF SetEtagFromUri
  <2>2. \A k \in Member : k = cur \/ Settled(k) => Settled(k)'
    BY <1>0, <2>1, Zenon DEF TypeOK, Settled
  <2> QED
    BY <1>1, <1>3, <1>5, <2>1, <2>2, Zenon
<1>12. CASE EndWalk
  <2>1. /\ pc = "members" /\ pc' = "end" /\ UNCHANGED <<bmc, etag, todo, cur>>
        /\ rebootRequired' => rebootRequired
    BY <1>12, Zenon DEF EndWalk, bmcVars
  <2>2. \A k \in Existing : Settled(k) => Settled(k)'
    BY <1>6, <2>1, Zenon
  <2> QED
    BY <1>1, <1>3, <1>5, <2>1, <2>2, Zenon
<1>13. CASE RedfishResourceConsumeResource(FALSE)
  <2>1. pc = "consume" /\ pc' = "update" /\ UNCHANGED <<bmc, etag, todo, cur>>
    BY <1>13, ConsumeCases, Zenon
  <2>2. \A k \in Existing : Settled(k) => Settled(k)'
    BY <1>6, <2>1, Zenon
  <2>3. Twice => ~rebootRequired'
    <3> SUFFICES ASSUME Twice PROVE ~rebootRequired'
      BY Zenon
    <3>1. cur \in Existing /\ got = bmc[cur] /\ ~rebootRequired
      BY <1>0, <2>1, Zenon DEF MemberInv
    <3>2. Settled(cur)
      BY <2>1, <3>1, Zenon
    <3>3. \A b \in {got, bmc[cur]} : CheckEtag(b)
      BY <3>1, <3>2, Zenon DEF CheckEtag, Settled
    <3>4. UNCHANGED rebootRequired
      BY <1>13, <3>3, TakesNew, Zenon
    <3> QED
      BY <3>1, <3>4, Zenon
  <2> QED
    BY <1>1, <1>3, <1>5, <2>1, <2>2, <2>3, Zenon
<1> QED
  BY <1>7, <1>8, <1>9, <1>10, <1>11, <1>12, <1>13, Zenon DEF Walk

LEMMA LoopStep == IInv /\ AgreeInv /\ RebootInv /\ LoopInv /\ [Next]_vars => LoopInv'
<1> SUFFICES ASSUME IInv, AgreeInv, RebootInv, LoopInv, [Next]_vars PROVE LoopInv'
  BY Zenon
<1> USE DEF LoopInv, Visiting
<1>0. TypeOK /\ MemberInv
  BY Zenon DEF IInv
<1>1. ASSUME resets' = 0 PROVE LoopInv'
  BY <1>0, <1>1, ResetsAre, Zenon
<1>2. ASSUME UNCHANGED <<resets, bmc, etag>>, rebootRequired' => rebootRequired,
             pc # "etag", pc' \notin Visiting,
             pc' = "off" \/ ~faulty' \/ (pc # "off" /\ (faulty' => faulty))
      PROVE  LoopInv'
  <2>1. (Again' => Again) /\ (Twice' => Twice) /\ NoBootLoop'
    BY <1>0, <1>2, ResetsAre, Zenon
  <2>2. Existing' = Existing /\ \A m : Settled(m) => Settled(m)'
    BY <1>2, Zenon DEF Existing, Settled
  <2> QED
    BY <1>2, <2>1, <2>2, Zenon
<1>3. ASSUME NEW f \in BOOLEAN, Boot(f) PROVE LoopInv'
  <2>1. CASE f
    BY <1>1, <1>3, <2>1, Zenon DEF Boot, Charge
  <2>2. CASE ~f
    <3>1. /\ UNCHANGED <<resets, bmc, etag>> /\ (rebootRequired' => rebootRequired)
          /\ pc = "off" /\ pc' = "bds" /\ ~faulty'
      BY <1>3, <2>2, Zenon DEF Boot, bmcVars
    <3> QED
      BY <1>2, <3>1, Zenon
  <2> QED
    BY <2>1, <2>2, Zenon
<1>4. ASSUME NEW f \in BOOLEAN, NEW n \in Nic, Connect(n, f) PROVE LoopInv'
  <2>1. CASE f
    BY <1>1, <1>4, <2>1, Zenon DEF Connect, Charge
  <2>2. CASE ~f
    <3>1. /\ UNCHANGED <<resets, bmc, etag>> /\ (rebootRequired' => rebootRequired)
          /\ pc = "bds" /\ pc' = "bds" /\ (faulty' => faulty)
      BY <1>4, <2>2, Zenon DEF Connect, Charge, countVars, exchangeVars, bmcVars, walkVars
    <3> QED
      BY <1>2, <3>1, Zenon
  <2> QED
    BY <2>1, <2>2, Zenon
<1>5. ASSUME NEW f \in BOOLEAN, Walk(f) PROVE LoopInv'
  <2>1. CASE f = TRUE
    BY <1>1, <1>5, <2>1, Charged, Zenon DEF Walk
  <2>2. CASE f = FALSE
    BY <1>5, <2>2, WalkLoops, Zenon
  <2> QED
    BY <2>1, <2>2, Zenon
<1>6. CASE ReadyToBoot
  <2>1. /\ UNCHANGED <<resets, bmc, etag>> /\ (rebootRequired' => rebootRequired)
        /\ pc = "bds" /\ pc' = "collection" /\ (faulty' => faulty)
    BY <1>6, Zenon DEF ReadyToBoot, countVars, bmcVars
  <2> QED
    BY <1>2, <2>1, Zenon
<1>7. CASE Restart
  <2>1. /\ UNCHANGED <<resets, bmc, etag>> /\ ~rebootRequired' /\ pc = "os" /\ pc' = "off"
    BY <1>7, Zenon DEF Restart, Off, countVars, bmcVars
  <2> QED
    BY <1>2, <2>1, Zenon
<1>8. CASE PowerCut \/ ForgetEtags \/ LoseVariable \/ \E c \in SetupConfig : SetupSaves(c)
  BY <1>1, <1>8, Zenon DEF PowerCut, ForgetEtags, LoseVariable, SetupSaves, Write, Charge
<1>9. ASSUME NEW m \in Member, NEW b \in Body, ClientWrites(m, b) PROVE LoopInv'
  BY <1>1, <1>9, Zenon DEF ClientWrites, Write
<1>10. CASE CoreEnds /\ rebootRequired
  <2>1. /\ pc = "end" /\ pc' = "off" /\ UNCHANGED <<bmc, etag>> /\ ~rebootRequired'
        /\ resets' = resets + 1
    BY <1>10, Zenon DEF CoreEnds, Off, bmcVars
  <2>2. /\ Existing' = Existing /\ Existing # {} /\ Readable /\ todo = {} /\ ~Twice
        /\ \A m : Settled(m) => Settled(m)'
    BY <1>10, <2>1, Zenon DEF Existing, Settled, RebootInv, AgreeInv
  <2>3. (Twice' => Again) /\ NoBootLoop'
    BY <1>0, <2>1, <2>2, ResetsAre, Zenon
  <2> QED
    BY <2>1, <2>2, <2>3, Zenon
<1>11. CASE CoreEnds /\ ~rebootRequired
  <2>1. /\ pc = "end" /\ pc' = "os" /\ UNCHANGED <<bmc, etag, resets, todo, cur>>
        /\ UNCHANGED <<published, wellFormed>>
        /\ (rebootRequired' => rebootRequired) /\ (faulty' => faulty)
    BY <1>11, Zenon DEF CoreEnds, bmcVars
  <2>2. /\ Existing' = Existing /\ (Readable' => Readable)
        /\ \A m : Settled(m) => Settled(m)'
    BY <2>1, Zenon DEF Existing, Settled, Readable
  <2>3. (Again' => Again) /\ (Twice' => Twice) /\ NoBootLoop'
    BY <1>0, <2>1, ResetsAre, Zenon
  <2> QED
    BY <2>1, <2>2, <2>3, Zenon
<1>12. CASE UNCHANGED vars
  <2>1. /\ UNCHANGED <<bmc, etag, resets, todo, cur, pc, got>>
        /\ UNCHANGED <<published, wellFormed>>
        /\ (rebootRequired' => rebootRequired) /\ (faulty' => faulty)
    BY <1>12, Zenon DEF vars, configVars, exchangeVars, walkVars, bmcVars, countVars
  <2>2. /\ Existing' = Existing /\ (Readable' => Readable)
        /\ \A m : Settled(m) => Settled(m)'
    BY <2>1, Zenon DEF Existing, Settled, Readable
  <2>3. (Again' => Again) /\ (Twice' => Twice) /\ NoBootLoop'
    BY <1>0, <2>1, ResetsAre, Zenon
  <2> QED
    BY <2>1, <2>2, <2>3, Zenon
<1> QED
  BY <1>3, <1>4, <1>5, <1>6, <1>7, <1>8, <1>9, <1>10, <1>11, <1>12, Zenon DEF Next, Firmware

-----------------------------------------------------------------------------
(* The theorems. *)

ExchangeInv == AgreeInv /\ RebootInv /\ LoopInv

LEMMA ExchangeStarts == Init => ExchangeInv
<1> SUFFICES ASSUME Init PROVE ExchangeInv
  BY Zenon
<1>1. ~Again /\ ~Twice /\ NoBootLoop
  BY DEF Init, Again, Twice, NoBootLoop
<1> QED
  BY <1>1, Zenon DEF Init, ExchangeInv, AgreeInv, RebootInv, LoopInv, Visiting

LEMMA ExchangeSteps == IInv /\ ExchangeInv /\ [Next]_vars => ExchangeInv'
BY AgreeStep, RebootStep, LoopStep, Zenon DEF ExchangeInv

LEMMA ExchangeAlways == Spec => []ExchangeInv
BY AlwaysInv, ExchangeStarts, ExchangeSteps, PTL DEF Spec

\* When the OS starts after a boot without failures, each member that nobody
\* wrote since shows the configuration the host runs, whatever clients, users
\* and earlier boots did (HandleResource, CreateCollectionResource).
THEOREM OsRunsWhatIsShown == Spec => []OsRunsAgreed
<1>1. IInv /\ ExchangeInv => OsRunsAgreed
  <2> SUFFICES ASSUME IInv, ExchangeInv, pc = "os", ~faulty, Readable, NEW m \in Existing,
                      seen[m] = bmc[m].ver
               PROVE  Patched(bmc[m]) = bmc[m]
    BY Zenon DEF OsRunsAgreed
  <2>1. ~rebootRequired /\ todo = {}
    BY Zenon DEF IInv, AppliedInv, ExchangeInv, AgreeInv
  <2> QED
    BY <2>1, Zenon DEF ExchangeInv, AgreeInv, Visiting, Shows
<1> QED
  BY <1>1, AlwaysInv, ExchangeAlways, PTL

\* Without a new write or failure the feature core resets at most twice: the
\* first boot after a reset records every member's ETag, and a member with the
\* recorded ETag is not consumed again (RedfishConsumeResourceCommon's
\* CheckEtag, SetEtagFromUri).
THEOREM ResetsEnd == Spec => []NoBootLoop
<1>1. ExchangeInv => NoBootLoop
  BY Zenon DEF ExchangeInv, LoopInv
<1> QED
  BY <1>1, ExchangeAlways, PTL
=============================================================================
