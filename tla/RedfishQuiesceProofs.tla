------------------------- MODULE RedfishQuiesceProofs -------------------------
(***************************************************************************)
(* RedfishQuiesce's invariants, for any set of handlers and any number of  *)
(* unplugs.                                                                *)
(***************************************************************************)
EXTENDS RedfishQuiesce, TLAPS

LEMMA TypeInit == Init => TypeOK
<1> SUFFICES ASSUME Init PROVE TypeOK
  OBVIOUS
<1>1. /\ gRedfishConfigQuiesced \in BOOLEAN
      /\ gReadyToBootEvent \in BOOLEAN
      /\ gAfterProvisioningEvent \in BOOLEAN
      /\ link \in BOOLEAN
      /\ token \in BOOLEAN
      /\ discovered \in BOOLEAN
      /\ freed \in BOOLEAN
  BY Zenon DEF Init
<1> QED
  BY <1>1 DEF Init, TypeOK, Feature

\* Stopping handlers keeps the handlers' types, over any services.
LEMMA StopType ==
  ASSUME NEW svc \in [Handler -> {"none", "live", "dead"}],
         RedfishConfigCommonStop(svc)
  PROVE  /\ marked' \subseteq Handler
         /\ service' \in [Handler -> {"none", "live", "dead"}]
         /\ registered' \subseteq registered
         /\ freed' \in BOOLEAN
<1>1. freed' \in BOOLEAN
  BY Zenon DEF RedfishConfigCommonStop
<1> QED
  BY <1>1 DEF RedfishConfigCommonStop, Stopped

LEMMA QuiesceType ==
  ASSUME TypeOK, RedfishConfigQuiesce
  PROVE  /\ gRedfishConfigQuiesced' \in BOOLEAN
         /\ marked' \subseteq Handler
         /\ service' \in [Handler -> {"none", "live", "dead"}]
         /\ registered' \subseteq registered
         /\ freed' \in BOOLEAN
<1>1. gRedfishConfigQuiesced' \in BOOLEAN
  BY Zenon DEF RedfishConfigQuiesce
<1>2. CASE gRedfishConfigQuiesced
  BY <1>1, <1>2 DEF RedfishConfigQuiesce, handlerVars, TypeOK
<1>3. CASE ~gRedfishConfigQuiesced
  BY <1>1, <1>3, StopType DEF RedfishConfigQuiesce, TypeOK
<1> QED
  BY <1>2, <1>3

LEMMA InitializeType ==
  ASSUME TypeOK, InitializeHandlers
  PROVE  /\ marked' \subseteq Handler
         /\ service' \in [Handler -> {"none", "live", "dead"}]
         /\ registered' = registered
         /\ freed' \in BOOLEAN
  BY DEF InitializeHandlers, TypeOK

LEMMA TypeStep == TypeOK /\ [Next]_vars => TypeOK'
<1> SUFFICES ASSUME TypeOK, [Next]_vars PROVE TypeOK'
  OBVIOUS
<1> USE DEF eventVars, discoveryVars, handlerVars, walkVars
<1>1. CASE RedfishConfigOnReadyToBoot
  <2>1. gReadyToBootEvent' \in BOOLEAN
    BY <1>1, Zenon DEF RedfishConfigOnReadyToBoot
  <2>2. CASE core # "absent"
    BY <1>1, <2>1, <2>2 DEF RedfishConfigOnReadyToBoot, TypeOK
  <2>3. CASE core = "absent"
    BY <1>1, <2>1, <2>3, QuiesceType DEF RedfishConfigOnReadyToBoot, TypeOK
  <2> QED
    BY <2>2, <2>3
<1>2. CASE RedfishConfigOnExitBootServices
  BY <1>2, QuiesceType DEF RedfishConfigOnExitBootServices, TypeOK
<1>3. CASE RedfishConfigHandlerInstalledCallback
  BY <1>3, InitializeType DEF RedfishConfigHandlerInstalledCallback, TypeOK
<1>4. CASE RedfishDiscoverProtocolInstalled
  <2>1. token' \in BOOLEAN
    BY <1>4, Zenon DEF RedfishDiscoverProtocolInstalled
  <2> QED
    BY <1>4, <2>1 DEF RedfishDiscoverProtocolInstalled, TypeOK
<1>5. CASE RedfishServiceDiscoveredCallback
  <2>1. token' \in BOOLEAN
    BY <1>5, Zenon DEF RedfishServiceDiscoveredCallback
  <2>2. CASE gRedfishConfigQuiesced \/ discovered
    BY <1>5, <2>1, <2>2 DEF RedfishServiceDiscoveredCallback, TypeOK
  <2>3. CASE ~(gRedfishConfigQuiesced \/ discovered)
    <3>1. discovered' \in BOOLEAN
      BY <1>5, <2>3, Zenon DEF RedfishServiceDiscoveredCallback
    <3> QED
      BY <1>5, <2>1, <2>3, <3>1, InitializeType DEF RedfishServiceDiscoveredCallback, TypeOK
  <2> QED
    BY <2>2, <2>3
<1>6. CASE Unplug
  <2> DEFINE svc == [h \in Handler |-> IF service[h] = "live" THEN "dead" ELSE service[h]]
  <2>1. link' \in BOOLEAN /\ token' \in BOOLEAN /\ discovered' \in BOOLEAN
    BY <1>6, Zenon DEF Unplug
  <2>2. svc \in [Handler -> {"none", "live", "dead"}]
    BY DEF TypeOK
  <2>3. RedfishConfigCommonStop(svc)
    BY <1>6 DEF Unplug
  <2> HIDE DEF svc
  <2>4. /\ marked' \subseteq Handler
        /\ service' \in [Handler -> {"none", "live", "dead"}]
        /\ registered' \subseteq registered
        /\ freed' \in BOOLEAN
    BY <2>2, <2>3, StopType
  <2> QED
    BY <1>6, <2>1, <2>4 DEF Unplug, TypeOK
<1>7. CASE Replug
  <2>1. link' \in BOOLEAN
    BY <1>7, Zenon DEF Replug
  <2> QED
    BY <1>7, <2>1 DEF Replug, TypeOK
<1>8. CASE SignalReadyToBoot
  BY <1>8 DEF SignalReadyToBoot, TypeOK
<1>9. CASE CoreFails
  BY <1>9 DEF CoreFails, TypeOK
<1>10. CASE CoreStarts
  BY <1>10 DEF CoreStarts, TypeOK
<1>11. CASE CoreSignals
  <2>1. CASE gAfterProvisioningEvent
    <3>1. gAfterProvisioningEvent' \in BOOLEAN
      BY <1>11, <2>1, Zenon DEF CoreSignals, RedfishConfigOnAfterProvisioning
    <3>2. RedfishConfigQuiesce
      BY <1>11, <2>1 DEF CoreSignals, RedfishConfigOnAfterProvisioning
    <3> QED
      BY <1>11, <3>1, <3>2, QuiesceType DEF CoreSignals, TypeOK
  <2>2. CASE ~gAfterProvisioningEvent
    BY <1>11, <2>2 DEF CoreSignals, TypeOK
  <2> QED
    BY <2>1, <2>2
<1>12. ASSUME NEW h \in Feature, CoreVisits(h) PROVE TypeOK'
  BY <1>12 DEF CoreVisits, TypeOK
<1>13. CASE StartImage
  BY <1>13 DEF StartImage, TypeOK
<1>14. CASE ImageReturns
  BY <1>14 DEF ImageReturns, TypeOK
<1>15. CASE UNCHANGED vars
  BY <1>15 DEF vars, TypeOK
<1> QED
  BY <1>1, <1>2, <1>3, <1>4, <1>5, <1>6, <1>7, <1>8, <1>9, <1>10, <1>11, <1>12,
     <1>13, <1>14, <1>15 DEF Next

\* The driver's state keeps its types, whatever handlers are registered
\* (RedfishConfigHandlerDriver's globals and the handlers' services).
THEOREM Typing == Spec => []TypeOK
<1> QED
  BY TypeInit, TypeStep, PTL DEF Spec

-----------------------------------------------------------------------------
\* A feature's service is live and its handler marked, or there is none; the
\* latch leaves none marked.  Stop ends a registration only at the latch or
\* in a crash.
HeldInv ==
  /\ \A h \in Feature : service[h] = IF h \in marked THEN "live" ELSE "none"
  /\ gRedfishConfigQuiesced => marked = {}
  /\ gRedfishConfigQuiesced \/ freed \/ registered = Feature

\* Which of the three triggers is still to come, at each place of a boot.
TriggerInv ==
  /\ phase = "os" => gRedfishConfigQuiesced
  /\ pending # {} \/ core = "walking" => phase = "ready"
  /\ "core" \in pending => core # "absent"
  /\ core = "absent" /\ ~gReadyToBootEvent => gRedfishConfigQuiesced
  /\ ~gAfterProvisioningEvent => gRedfishConfigQuiesced
  /\ phase = "ready" /\ gReadyToBootEvent => "config" \in pending
  /\ phase = "ready" /\ core = "idle" /\ "core" \notin pending => gRedfishConfigQuiesced
  /\ phase = "loader" => gRedfishConfigQuiesced \/ core = "failed"

\* What is owed keeps its service until the walk has come to it.
WalkInv ==
  /\ "core" \in pending \/ core = "walking" => \A h \in owed : service[h] = "live"
  /\ core = "walking" => "core" \notin pending /\ owed \subseteq served \cup todo
  /\ phase \in {"ready", "loader"} /\ core = "idle" /\ "core" \notin pending
       => owed \subseteq served

QuiesceInv == TypeOK /\ HeldInv /\ TriggerInv /\ WalkInv /\ LoaderIsCovered

LEMMA QuiesceInvInit == Init => QuiesceInv
<1> SUFFICES ASSUME Init PROVE QuiesceInv
  OBVIOUS
<1>1. TypeOK
  BY TypeInit
<1> QED
  BY <1>1 DEF Init, QuiesceInv, HeldInv, TriggerInv, WalkInv, LoaderIsCovered, Feature

\* Stopping every handler frees each feature's service over a live transport.
LEMMA Quiesces ==
  ASSUME QuiesceInv, RedfishConfigQuiesce, ~freed
  PROVE  /\ gRedfishConfigQuiesced'
         /\ marked' = {}
         /\ \A h \in Feature : service'[h] = "none"
         /\ ~freed'
<1> USE DEF RedfishConfigQuiesce, QuiesceInv, HeldInv, handlerVars
<1>1. CASE gRedfishConfigQuiesced
  BY <1>1
<1>2. CASE ~gRedfishConfigQuiesced
  <2>1. RedfishConfigCommonStop(service)
    BY <1>2
  <2>2. \A h \in marked \ Sync : service[h] # "dead"
    BY DEF TypeOK, Feature
  <2>3. ~freed'
    BY <2>1, <2>2, Zenon DEF RedfishConfigCommonStop
  <2>4. gRedfishConfigQuiesced' = TRUE
    OBVIOUS
  <2>5. marked' = {} /\ \A h \in Feature : service'[h] = "none"
    BY <2>1 DEF RedfishConfigCommonStop, Stopped, Feature
  <2> QED
    BY <2>3, <2>4, <2>5
<1> QED
  BY <1>1, <1>2

\* Initialising handlers only adds live services and marks.
LEMMA Initializes ==
  ASSUME QuiesceInv, InitializeHandlers
  PROVE  /\ \A h \in Feature : service'[h] = IF h \in marked' THEN "live" ELSE "none"
         /\ \A h \in Feature : service[h] = "live" => service'[h] = "live"
         /\ registered' = registered
         /\ freed' = freed
  BY DEF InitializeHandlers, Created, QuiesceInv, HeldInv, Feature

LEMMA QuiesceInvStep ==
  ASSUME QuiesceInv, [Next]_vars
  PROVE  QuiesceInv'
<1> USE DEF eventVars, discoveryVars, handlerVars, walkVars
<1>0. TypeOK'
  BY TypeStep DEF QuiesceInv
<1>t. TypeOK
  BY DEF QuiesceInv
<1>1. CASE RedfishConfigOnReadyToBoot
  <2>1. CASE core # "absent"
    BY <1>0, <1>1, <2>1 DEF RedfishConfigOnReadyToBoot, Alive, QuiesceInv, HeldInv, TriggerInv, WalkInv, LoaderIsCovered, TypeOK
  <2>2. CASE core = "absent"
    <3>1. ~freed /\ RedfishConfigQuiesce
      BY <1>1, <2>2 DEF RedfishConfigOnReadyToBoot, Alive
    <3>2. /\ gRedfishConfigQuiesced'
          /\ marked' = {}
          /\ \A h \in Feature : service'[h] = "none"
          /\ ~freed'
      BY <3>1, Quiesces
    <3> QED
      BY <1>0, <1>1, <2>2, <3>2 DEF RedfishConfigOnReadyToBoot, QuiesceInv, HeldInv, TriggerInv, WalkInv, LoaderIsCovered, TypeOK
  <2> QED
    BY <2>1, <2>2
<1>2. CASE RedfishConfigOnExitBootServices
  <2>1. ~freed /\ RedfishConfigQuiesce
    BY <1>2 DEF RedfishConfigOnExitBootServices, Alive
  <2>2. /\ gRedfishConfigQuiesced'
        /\ marked' = {}
        /\ \A h \in Feature : service'[h] = "none"
        /\ ~freed'
    BY <2>1, Quiesces
  <2> QED
    BY <1>0, <1>2, <2>2 DEF RedfishConfigOnExitBootServices, QuiesceInv, HeldInv, TriggerInv, WalkInv, LoaderIsCovered, TypeOK
<1>3. CASE RedfishConfigHandlerInstalledCallback
  BY <1>0, <1>3, Initializes DEF RedfishConfigHandlerInstalledCallback, Alive, QuiesceInv, HeldInv, TriggerInv, WalkInv, LoaderIsCovered, TypeOK
<1>4. CASE RedfishDiscoverProtocolInstalled
  BY <1>0, <1>4 DEF RedfishDiscoverProtocolInstalled, QuiesceInv, HeldInv, TriggerInv, WalkInv, LoaderIsCovered
<1>5. CASE RedfishServiceDiscoveredCallback
  <2>1. CASE gRedfishConfigQuiesced \/ discovered
    BY <1>0, <1>5, <2>1 DEF RedfishServiceDiscoveredCallback, QuiesceInv, HeldInv, TriggerInv, WalkInv, LoaderIsCovered
  <2>2. CASE ~(gRedfishConfigQuiesced \/ discovered)
    BY <1>0, <1>5, <2>2, Initializes DEF RedfishServiceDiscoveredCallback, Alive, QuiesceInv, HeldInv, TriggerInv, WalkInv, LoaderIsCovered, TypeOK
  <2> QED
    BY <2>1, <2>2
<1>6. CASE Unplug
  <2>1. /\ marked' = {}
        /\ \A h \in Feature : service'[h] = "none"
    BY <1>6, <1>t DEF Unplug, RedfishConfigCommonStop, Stopped, QuiesceInv, HeldInv, Feature, TypeOK
  <2>2. (freed' => marked # {}) /\ (gRedfishConfigQuiesced \/ freed' \/ registered' = Feature)
    <3> DEFINE svc == [h \in Handler |-> IF service[h] = "live" THEN "dead" ELSE service[h]]
    <3>1. /\ registered' = registered \ marked
          /\ freed' = \E h \in marked \ Sync : svc[h] = "dead"
      BY <1>6 DEF Unplug, RedfishConfigCommonStop
    <3>2. ASSUME NEW h \in marked \ Sync, service[h] = "live" PROVE svc[h] = "dead"
      BY <1>t, <3>2 DEF TypeOK
    <3>3. CASE marked \ Sync = {}
      <4>1. ~freed'
        BY <3>1, <3>3, Zenon
      <4>2. registered' = registered
        BY <1>t, <3>1, <3>3 DEF TypeOK, Feature
      <4>3. ~freed
        BY <1>6 DEF Unplug, Alive
      <4> QED
        BY <4>1, <4>2, <4>3 DEF QuiesceInv, HeldInv
    <3>4. ASSUME NEW h \in marked \ Sync PROVE freed' /\ marked # {}
      <4>1. service[h] = "live"
        BY <1>t, <3>4 DEF QuiesceInv, HeldInv, TypeOK, Feature
      <4>2. svc[h] = "dead"
        BY <3>2, <3>4, <4>1
      <4>3. freed'
        BY <3>1, <3>4, <4>2, Zenon
      <4> QED
        BY <3>4, <4>3
    <3> QED
      BY <3>3, <3>4
  <2> QED
    BY <1>0, <1>6, <2>1, <2>2 DEF Unplug, QuiesceInv, HeldInv, TriggerInv, WalkInv, LoaderIsCovered
<1>7. CASE Replug
  BY <1>0, <1>7 DEF Replug, QuiesceInv, HeldInv, TriggerInv, WalkInv, LoaderIsCovered
<1>8. CASE SignalReadyToBoot
  BY <1>0, <1>8 DEF SignalReadyToBoot, Alive, QuiesceInv, HeldInv, TriggerInv, WalkInv, LoaderIsCovered
<1>9. CASE CoreFails
  BY <1>0, <1>9 DEF CoreFails, Alive, QuiesceInv, HeldInv, TriggerInv, WalkInv, LoaderIsCovered
<1>10. CASE CoreStarts
  BY <1>0, <1>t, <1>10 DEF CoreStarts, Alive, QuiesceInv, HeldInv, TriggerInv, WalkInv, LoaderIsCovered, TypeOK
<1>11. CASE CoreSignals
  <2>1. CASE gAfterProvisioningEvent
    <3>1. ~freed /\ RedfishConfigQuiesce
      BY <1>11, <2>1 DEF CoreSignals, RedfishConfigOnAfterProvisioning, Alive
    <3>2. /\ gRedfishConfigQuiesced'
          /\ marked' = {}
          /\ \A h \in Feature : service'[h] = "none"
          /\ ~freed'
      BY <3>1, Quiesces
    <3> QED
      BY <1>0, <1>11, <3>2 DEF CoreSignals, QuiesceInv, HeldInv, TriggerInv, WalkInv, LoaderIsCovered, TypeOK
  <2>2. CASE ~gAfterProvisioningEvent
    BY <1>0, <1>11, <2>2 DEF CoreSignals, Alive, QuiesceInv, HeldInv, TriggerInv, WalkInv, LoaderIsCovered
  <2> QED
    BY <2>1, <2>2
<1>12. ASSUME NEW h \in Feature, CoreVisits(h) PROVE QuiesceInv'
  BY <1>0, <1>12 DEF CoreVisits, Alive, QuiesceInv, HeldInv, TriggerInv, WalkInv, LoaderIsCovered
<1>13. CASE StartImage
  BY <1>0, <1>t, <1>13 DEF StartImage, Alive, QuiesceInv, HeldInv, TriggerInv, WalkInv, LoaderIsCovered, TypeOK
<1>14. CASE ImageReturns
  BY <1>0, <1>14 DEF ImageReturns, Alive, QuiesceInv, HeldInv, TriggerInv, WalkInv, LoaderIsCovered
<1>15. CASE UNCHANGED vars
  BY <1>0, <1>15 DEF vars, QuiesceInv, HeldInv, TriggerInv, WalkInv, LoaderIsCovered
<1> QED
  BY <1>1, <1>2, <1>3, <1>4, <1>5, <1>6, <1>7, <1>8, <1>9, <1>10, <1>11, <1>12,
     <1>13, <1>14, <1>15 DEF Next

LEMMA QuiesceInvariant == Spec => []QuiesceInv
<1>1. QuiesceInv /\ [Next]_vars => QuiesceInv'
  BY QuiesceInvStep
<1> QED
  BY <1>1, QuiesceInvInit, PTL DEF Spec

\* However often the NIC goes and comes back, unplugging it under Setup or a
\* boot loader frees nothing twice, unless the feature core never signalled
\* (RedfishConfigQuiesce).
THEOREM TheLoaderIsCovered == Spec => []LoaderIsCovered
<1>1. QuiesceInv => LoaderIsCovered
  BY DEF QuiesceInv
<1> QED
  BY <1>1, QuiesceInvariant, PTL

\* Past the latch, and under the OS, no handler holds a service again
\* (gRedfishConfigQuiesced's guards, the ExitBootServices backstop).
THEOREM NothingIsHeld == Spec => []NothingHeld
<1>1. QuiesceInv => NothingHeld
  BY DEF QuiesceInv, HeldInv, TriggerInv, NothingHeld
<1> QED
  BY <1>1, QuiesceInvariant, PTL

\* The feature core's walk finds every service that ReadyToBoot found, if the
\* NIC stays (RedfishConfigOnReadyToBoot's deferral).
THEOREM ProvisioningIsNotCutShort == Spec => []ProvisioningIsWhole
<1>1. QuiesceInv => ProvisioningIsWhole
  BY DEF QuiesceInv, TriggerInv, WalkInv, ProvisioningIsWhole
<1> QED
  BY <1>1, QuiesceInvariant, PTL
=============================================================================
