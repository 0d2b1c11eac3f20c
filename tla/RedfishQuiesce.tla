---------------------------- MODULE RedfishQuiesce ----------------------------
(***************************************************************************)
(* When RedfishConfigHandlerDriver stops its config handlers (patch 0027): *)
(* ReadyToBoot, the feature core's provisioning and its signal, and        *)
(* ExitBootServices, against a NIC that can be unplugged and plugged back  *)
(* at any point and discoveries that complete late.                        *)
(***************************************************************************)
EXTENDS Naturals

CONSTANTS
  Handler,     \* the registered config handlers
  Sync,        \* those of NucRedfishSyncDxe, whose Stop frees nothing
  MaxUnplugs   \* bound: unplugs in a boot

Feature == Handler \ Sync   \* the feature drivers', whose Stop frees the service

ASSUME QuiesceAssumption ==
  /\ Sync \subseteq Handler
  /\ MaxUnplugs \in Nat

VARIABLES
  phase,        \* "bds", "ready" (ReadyToBoot is being handled), "loader", "os"
  gRedfishConfigQuiesced,
  gReadyToBootEvent,        \* the event exists
  gAfterProvisioningEvent,  \* the event exists
  pending,      \* ReadyToBoot callbacks queued at TPL_CALLBACK
  core,         \* the client feature core: "absent", "idle", "walking", "failed"
  link,         \* the NIC that carries the service is there
  token,        \* a discovery is outstanding
  discovered,   \* gRedfishServiceDiscovered
  marked,       \* handlers whose Init succeeded (gEfiCallerIdGuid)
  service,      \* each handler's RedfishService: "none", "live", or "dead" once
                \* the HTTP child under it was freed
  registered,   \* features registered with the core
  freed,        \* a Stop called through a freed HTTP child: the machine is gone
  \* history and bounds
  todo,         \* features the core's walk has not come to
  owed,         \* features with a service when ReadyToBoot was signalled
  served,       \* features the walk found with a service
  unplugs

eventVars == <<gReadyToBootEvent, gAfterProvisioningEvent>>
discoveryVars == <<token, discovered>>
handlerVars == <<marked, service, registered, freed>>
walkVars == <<todo, owed, served>>
vars == <<phase, gRedfishConfigQuiesced, eventVars, pending, core, link,
          discoveryVars, handlerVars, walkVars, unplugs>>

TypeOK ==
  /\ phase \in {"bds", "ready", "loader", "os"}
  /\ gRedfishConfigQuiesced \in BOOLEAN
  /\ gReadyToBootEvent \in BOOLEAN
  /\ gAfterProvisioningEvent \in BOOLEAN
  /\ pending \subseteq {"config", "core"}
  /\ core \in {"absent", "idle", "walking", "failed"}
  /\ link \in BOOLEAN
  /\ token \in BOOLEAN
  /\ discovered \in BOOLEAN
  /\ marked \subseteq Handler
  /\ service \in [Handler -> {"none", "live", "dead"}]
  /\ registered \subseteq Feature
  /\ freed \in BOOLEAN
  /\ todo \subseteq Feature
  /\ owed \subseteq Feature
  /\ served \subseteq Feature
  /\ unplugs \in Nat

Init ==
  /\ phase = "bds"
  /\ gRedfishConfigQuiesced = FALSE
  /\ gReadyToBootEvent = TRUE
  /\ gAfterProvisioningEvent = TRUE
  /\ pending = {}
  /\ core \in {"absent", "idle"}
  /\ link = TRUE
  /\ token = FALSE
  /\ discovered = FALSE
  /\ marked = {}
  /\ service = [h \in Handler |-> "none"]
  /\ registered = Feature
  /\ freed = FALSE
  /\ todo = {}
  /\ owed = {}
  /\ served = {}
  /\ unplugs = 0

\* Boot services are there and the machine has not crashed.
Alive == phase # "os" /\ ~freed

-----------------------------------------------------------------------------
(* Stopping the handlers. *)

\* What a handler's Stop leaves of its service.
Stopped(h, svc) == IF h \in marked \ Sync THEN "none" ELSE svc[h]

\* RedfishConfigCommonStop() over the services svc: the feature drivers'
\* RedfishCleanupService() goes through the HTTP child of each, and their
\* registration with the feature core ends.
RedfishConfigCommonStop(svc) ==
  /\ service' = [h \in Handler |-> Stopped(h, svc)]
  /\ marked' = {}
  /\ registered' = registered \ marked
  /\ freed' = \E h \in marked \ Sync : svc[h] = "dead"

RedfishConfigQuiesce ==
  /\ gRedfishConfigQuiesced' = TRUE
  /\ IF gRedfishConfigQuiesced
       THEN UNCHANGED handlerVars
       ELSE RedfishConfigCommonStop(service)

\* Mutant: quiesce whether the feature core is there or not.
RedfishConfigOnReadyToBootAlways ==
  /\ Alive
  /\ "config" \in pending
  /\ pending' = pending \ {"config"}
  /\ gReadyToBootEvent' = FALSE
  /\ RedfishConfigQuiesce
  /\ UNCHANGED <<phase, gAfterProvisioningEvent, core, link, discoveryVars,
                 walkVars, unplugs>>

\* Deferred to the after-provisioning signal when the feature core is there.
RedfishConfigOnReadyToBoot ==
  /\ Alive
  /\ "config" \in pending
  /\ pending' = pending \ {"config"}
  /\ gReadyToBootEvent' = FALSE
  /\ IF core # "absent"
       THEN UNCHANGED <<gRedfishConfigQuiesced, handlerVars>>
       ELSE RedfishConfigQuiesce
  /\ UNCHANGED <<phase, gAfterProvisioningEvent, core, link, discoveryVars,
                 walkVars, unplugs>>

RedfishConfigOnAfterProvisioning ==
  /\ RedfishConfigQuiesce
  /\ gAfterProvisioningEvent' = FALSE

\* Mutant: no backstop.
RedfishConfigOnExitBootServicesBare ==
  /\ Alive
  /\ phase = "loader"
  /\ phase' = "os"
  /\ UNCHANGED <<gRedfishConfigQuiesced, handlerVars, eventVars, pending, core,
                 link, discoveryVars, walkVars, unplugs>>

\* The backstop, when the loader hands over to the OS.
RedfishConfigOnExitBootServices ==
  /\ Alive
  /\ phase = "loader"
  /\ phase' = "os"
  /\ RedfishConfigQuiesce
  /\ UNCHANGED <<eventVars, pending, core, link, discoveryVars, walkVars, unplugs>>

-----------------------------------------------------------------------------
(* Discovery and the initialisation of handlers. *)

\* Init of a handler: a feature driver creates its service each time, and
\* NucRedfishSync, which latches its exchange, once.
Created(h) == h \in Feature \/ service[h] = "none"

\* RedfishConfigHandlerInitialization() calls Init of the handlers without a
\* mark; the ones that cannot create a service stay unmarked.
InitializeHandlers ==
  \E ok \in SUBSET (Handler \ marked) :
    /\ marked' = marked \cup ok
    /\ service' = [h \in Handler |-> IF h \in ok /\ Created(h) THEN "live" ELSE service[h]]
    /\ UNCHANGED <<registered, freed>>

RedfishConfigHandlerInstalledCallback ==
  /\ Alive
  /\ ~gRedfishConfigQuiesced
  /\ discovered
  /\ InitializeHandlers
  /\ UNCHANGED <<phase, gRedfishConfigQuiesced, eventVars, pending, core, link,
                 discoveryVars, walkVars, unplugs>>

\* The discover driver (re)installs its protocol: acquire a service.
RedfishDiscoverProtocolInstalled ==
  /\ Alive
  /\ ~gRedfishConfigQuiesced
  /\ link
  /\ ~token
  /\ token' = TRUE
  /\ UNCHANGED <<phase, gRedfishConfigQuiesced, eventVars, pending, core, link,
                 discovered, handlerVars, walkVars, unplugs>>

\* Mutant: a discovery that completes late is taken up.
RedfishServiceDiscoveredUnguarded ==
  /\ Alive
  /\ token
  /\ token' = FALSE
  /\ IF discovered
       THEN UNCHANGED <<discovered, handlerVars>>
       ELSE discovered' = TRUE /\ InitializeHandlers
  /\ UNCHANGED <<phase, gRedfishConfigQuiesced, eventVars, pending, core, link,
                 walkVars, unplugs>>

RedfishServiceDiscoveredCallback ==
  /\ Alive
  /\ token
  /\ token' = FALSE
  /\ IF gRedfishConfigQuiesced \/ discovered
       THEN UNCHANGED <<discovered, handlerVars>>
       ELSE discovered' = TRUE /\ InitializeHandlers
  /\ UNCHANGED <<phase, gRedfishConfigQuiesced, eventVars, pending, core, link,
                 walkVars, unplugs>>

-----------------------------------------------------------------------------
(* The NIC, the feature core and BDS. *)

\* The disconnect cascade frees the HTTP children before it comes to
\* RedfishConfigDriverBindingStop(), which aborts discovery and stops the
\* handlers.  What is unplugged is no longer owed to the walk.
Unplug ==
  /\ Alive
  /\ link
  /\ unplugs < MaxUnplugs
  /\ unplugs' = unplugs + 1
  /\ link' = FALSE
  /\ token' = FALSE
  /\ discovered' = FALSE
  /\ RedfishConfigCommonStop(
       [h \in Handler |-> IF service[h] = "live" THEN "dead" ELSE service[h]])
  /\ owed' = {}
  /\ UNCHANGED <<phase, gRedfishConfigQuiesced, eventVars, pending, core, todo,
                 served>>

Replug ==
  /\ Alive
  /\ ~link
  /\ link' = TRUE
  /\ UNCHANGED <<phase, gRedfishConfigQuiesced, eventVars, pending, core,
                 discoveryVars, handlerVars, walkVars, unplugs>>

\* EfiBootManagerBoot() signals ReadyToBoot before each option it starts.
SignalReadyToBoot ==
  /\ Alive
  /\ phase = "bds"
  /\ phase' = "ready"
  /\ pending' = {c \in {"config", "core"} :
                   IF c = "config" THEN gReadyToBootEvent ELSE core # "absent"}
  /\ owed' = {h \in Feature : service[h] = "live"}
  /\ served' = {}
  /\ UNCHANGED <<gRedfishConfigQuiesced, eventVars, core, link, discoveryVars,
                 handlerVars, todo, unplugs>>

\* The core lowers to TPL_APPLICATION first, which drains the other callback.
\* It fails before the walk, or has nothing registered and never signals.
CoreFails ==
  /\ Alive
  /\ pending = {"core"}
  /\ pending' = {}
  /\ core' = "failed"
  /\ UNCHANGED <<phase, gRedfishConfigQuiesced, eventVars, link, discoveryVars,
                 handlerVars, walkVars, unplugs>>

CoreStarts ==
  /\ Alive
  /\ pending = {"core"}
  /\ registered # {}
  /\ pending' = {}
  /\ core' = "walking"
  /\ todo' = registered
  /\ UNCHANGED <<phase, gRedfishConfigQuiesced, eventVars, link, discoveryVars,
                 handlerVars, owed, served, unplugs>>

\* A feature driver without a service returns EFI_NOT_READY.
CoreVisits(h) ==
  /\ Alive
  /\ core = "walking"
  /\ h \in todo
  /\ todo' = todo \ {h}
  /\ served' = IF service[h] = "live" THEN served \cup {h} ELSE served
  /\ UNCHANGED <<phase, gRedfishConfigQuiesced, eventVars, pending, core, link,
                 discoveryVars, handlerVars, owed, unplugs>>

\* The end of the walk signals the after-provisioning event, if it exists.
CoreSignals ==
  /\ Alive
  /\ core = "walking"
  /\ todo = {}
  /\ core' = "idle"
  /\ IF gAfterProvisioningEvent
       THEN RedfishConfigOnAfterProvisioning
       ELSE UNCHANGED <<gRedfishConfigQuiesced, gAfterProvisioningEvent, handlerVars>>
  /\ UNCHANGED <<phase, gReadyToBootEvent, pending, link, discoveryVars, walkVars,
                 unplugs>>

\* Every ReadyToBoot callback has returned: Setup or a boot loader runs.
StartImage ==
  /\ Alive
  /\ phase = "ready"
  /\ pending = {}
  /\ core # "walking"
  /\ phase' = "loader"
  /\ UNCHANGED <<gRedfishConfigQuiesced, eventVars, pending, core, link,
                 discoveryVars, handlerVars, walkVars, unplugs>>

\* The option fails or Setup is left; BDS tries the next.
ImageReturns ==
  /\ Alive
  /\ phase = "loader"
  /\ phase' = "bds"
  /\ UNCHANGED <<gRedfishConfigQuiesced, eventVars, pending, core, link,
                 discoveryVars, handlerVars, walkVars, unplugs>>

Next ==
  \/ RedfishConfigOnReadyToBoot \/ RedfishConfigOnExitBootServices
  \/ RedfishConfigHandlerInstalledCallback
  \/ RedfishDiscoverProtocolInstalled \/ RedfishServiceDiscoveredCallback
  \/ Unplug \/ Replug \/ SignalReadyToBoot
  \/ CoreFails \/ CoreStarts \/ CoreSignals \/ \E h \in Feature : CoreVisits(h)
  \/ StartImage \/ ImageReturns

Spec == Init /\ [][Next]_vars

-----------------------------------------------------------------------------
(* What the quiescing promises. *)

\* Unplugging the NIC while Setup or a boot loader runs never makes a handler's
\* Stop call through a freed HTTP child, whatever was discovered, unplugged or
\* plugged back before, unless the feature core failed to signal
\* (RedfishConfigQuiesce and the guards on its latch).
LoaderIsCovered ==
  freed /\ phase = "loader" => core = "failed" /\ ~gRedfishConfigQuiesced

\* Once quiesced, and at the latest when the OS takes over, no handler is
\* marked and no feature driver holds a service; a NIC that comes back, a late
\* discovery or a late handler changes nothing (gRedfishConfigQuiesced, the
\* ExitBootServices backstop).
NothingHeld ==
  gRedfishConfigQuiesced \/ phase = "os" =>
    marked = {} /\ \A h \in Feature : service[h] # "live"

\* Quiescing never cuts provisioning short: a feature that had its service when
\* ReadyToBoot was signalled has it when the core's walk gets to it, if the NIC
\* stays (RedfishConfigOnReadyToBoot's deferral).
ProvisioningIsWhole ==
  phase = "loader" /\ core = "idle" => owed \subseteq served

=============================================================================
