----------------------------- MODULE BootOverride -----------------------------
(***************************************************************************)
(* The exchange of NucRedfishSyncDxe.c with the BMC over many boots: the   *)
(* config handler's latch, the retried first GET, the reports, and the     *)
(* boot override that is read, acknowledged, staged in BootNext and booted *)
(* after a reset.  Requests of the operator are numbered; the link loses   *)
(* and delays messages; power can go at any point.                         *)
(***************************************************************************)
EXTENDS Integers, Sequences

CONSTANTS
  Target,                     \* BootSourceOverrideTarget values
  Options,                    \* the boot options, in BDS's order
  NUC_REDFISH_MEDIA_RETRIES,
  PatchTries,                 \* PcdHttpPatchRetry + 1
  MaxRequests,                \* bound: requests of the operator
  MaxFaults                   \* bound: power losses, unplugs and store failures

Enabled == {"Disabled", "Once", "Continuous"}
Node == {"usb", "mac", "harddrive", "storage"}

ASSUME OverrideAssumption ==
  /\ Options \in Seq([app : BOOLEAN, nodes : SUBSET Node])
  /\ NUC_REDFISH_MEDIA_RETRIES \in Nat \ {0}
  /\ PatchTries \in Nat \ {0}
  /\ MaxRequests \in Nat
  /\ MaxFaults \in Nat

None == 0   \* no option, no request
Override == [enabled : Enabled, target : Target \cup {"None"}, id : Nat]
NoOverride == [enabled |-> "Disabled", target |-> "None", id |-> None]

VARIABLES
  \* the BMC and the link
  bmc,        \* its Boot object, with the number of the request it holds
  clearing,   \* a PATCH that clears the override is on its way
  answered,   \* its answer is on its way back
  \* persistent: the variable store
  BootNext,   \* [option, id]: the staged option and the request behind it
  \* one boot
  pc,
  cached,     \* BootNext as BdsEntry read it
  restEx,     \* RedfishServiceRestExHandle is set
  marked,     \* the config handler's handle counts as initialised
  mSyncDone,
  Attempt,
  report,     \* the report that is next
  got,        \* the Boot object of the GET
  Match,
  \* history and bounds
  synced,     \* exchanges begun in this boot
  booted,     \* the last request whose option was booted
  resets,     \* resets of ApplyMatchedOption; stops past MaxRequests
  requests,
  faults

linkVars == <<bmc, clearing, answered>>
handlerVars == <<restEx, marked, mSyncDone, synced>>
exchangeVars == <<Attempt, report, got, Match>>
histVars == <<booted, resets, requests, faults>>
vars == <<linkVars, BootNext, pc, cached, handlerVars, exchangeVars, histVars>>

NoBootNext == [option |-> None, id |-> None]
Staged == [option : 0 .. Len(Options), id : Nat]

\* NucRedfishSync's reports, in order; each may fail and is forgotten.
Reports == <<"System", "Memory", "Processors", "Drives", "FirmwareInventory">>

Places ==
  {"off", "dxe", "bds", "root", "report", "system", "override", "ack", "wait",
   "apply", "reset", "os"}

TypeOK ==
  /\ bmc \in Override
  /\ clearing \in BOOLEAN
  /\ answered \in BOOLEAN
  /\ BootNext \in Staged
  /\ pc \in Places
  /\ cached \in Staged
  /\ restEx \in BOOLEAN
  /\ marked \in BOOLEAN
  /\ mSyncDone \in BOOLEAN
  /\ Attempt \in Nat
  /\ report \in Nat
  /\ got \in Override
  /\ Match \in 0 .. Len(Options)
  /\ synced \in Nat
  /\ booted \in Nat
  /\ resets \in Nat
  /\ requests \in Nat
  /\ faults \in Nat

Init ==
  /\ bmc = NoOverride
  /\ clearing = FALSE
  /\ answered = FALSE
  /\ BootNext = NoBootNext
  /\ pc = "off"
  /\ cached = NoBootNext
  /\ restEx = FALSE
  /\ marked = FALSE
  /\ mSyncDone = FALSE
  /\ Attempt = 0
  /\ report = 1
  /\ got = NoOverride
  /\ Match = None
  /\ synced = 0
  /\ booted = 0
  /\ resets = 0
  /\ requests = 0
  /\ faults = 0

-----------------------------------------------------------------------------
(* Matching an option. *)

OptionHasNode(Option, node) == node \in Option.nodes

\* Mutant: any network interface will do.
OptionIsNetworkBootAnyMac(Option) == OptionHasNode(Option, "mac")

OptionIsNetworkBoot(Option) ==
  OptionHasNode(Option, "mac") /\ ~OptionHasNode(Option, "usb")

OptionIsDiskBoot(Option) ==
  OptionHasNode(Option, "harddrive") \/ OptionHasNode(Option, "storage")

Matches(target, Option) ==
  \/ target = "BiosSetup" /\ Option.app
  \/ target = "Pxe" /\ OptionIsNetworkBoot(Option)
  \/ target = "Hdd" /\ OptionIsDiskBoot(Option)

\* The first option of the target's class.
IsMatch(target, i) ==
  /\ Matches(target, Options[i])
  /\ \A j \in 1 .. i - 1 : ~Matches(target, Options[j])

FindBootOverrideOption(target) == {i \in 1 .. Len(Options) : IsMatch(target, i)}

-----------------------------------------------------------------------------
(* The operator, the BMC, the link and the machine. *)

\* The operator sets or withdraws an override at the BMC.
OperatorSets ==
  /\ requests < MaxRequests
  /\ requests' = requests + 1
  /\ \E e \in Enabled, t \in Target : bmc' = [enabled |-> e, target |-> t, id |-> requests']
  /\ UNCHANGED <<clearing, answered, BootNext, pc, cached, handlerVars,
                 exchangeVars, booted, resets, faults>>

\* The BMC carries out the clearing PATCH, in time or late.
BmcClears ==
  /\ clearing
  /\ clearing' = FALSE
  /\ bmc' = [enabled |-> "Disabled", target |-> bmc.target, id |-> bmc.id]
  /\ answered' = (pc = "wait")
  /\ UNCHANGED <<BootNext, pc, cached, handlerVars, exchangeVars, histVars>>

LinkLoses ==
  /\ \/ clearing /\ clearing' = FALSE /\ UNCHANGED answered
     \/ answered /\ answered' = FALSE /\ UNCHANGED clearing
  /\ UNCHANGED <<bmc, BootNext, pc, cached, handlerVars, exchangeVars, histVars>>

GoesDown ==
  /\ pc' = "off"
  /\ answered' = FALSE
  /\ cached' = NoBootNext
  /\ restEx' = FALSE
  /\ marked' = FALSE
  /\ mSyncDone' = FALSE
  /\ synced' = 0
  /\ Attempt' = 0
  /\ report' = 1
  /\ got' = NoOverride
  /\ Match' = None

PowerFails ==
  /\ pc # "off"
  /\ faults < MaxFaults
  /\ faults' = faults + 1
  /\ GoesDown
  /\ UNCHANGED <<bmc, clearing, BootNext, booted, resets, requests>>

\* BdsEntry reads BootNext before the platform's BDS code runs.
PowerOn ==
  /\ pc = "off"
  /\ pc' = "dxe"
  /\ cached' = BootNext
  /\ UNCHANGED <<linkVars, BootNext, handlerVars, exchangeVars, histVars>>

\* BdsEntry deletes BootNext before it boots it, or boots the default.
BootOption ==
  /\ pc = "bds"
  /\ pc' = "os"
  /\ IF cached = NoBootNext
       THEN UNCHANGED <<BootNext, booted>>
       ELSE BootNext' = NoBootNext /\ booted' = cached.id
  /\ UNCHANGED <<linkVars, cached, handlerVars, exchangeVars, resets, requests, faults>>

Reboot ==
  /\ pc = "os"
  /\ GoesDown
  /\ UNCHANGED <<bmc, clearing, BootNext, histVars>>

-----------------------------------------------------------------------------
(* NucRedfishConfigHandlerInit, called by RedfishConfigHandlerDriver. *)

\* Mutant: the call before discovery is answered with EFI_SUCCESS.
InitBeforeDiscoverySucceeds ==
  /\ pc = "dxe"
  /\ pc' = "bds"
  /\ marked' = TRUE
  /\ UNCHANGED <<linkVars, BootNext, cached, restEx, mSyncDone, synced,
                 exchangeVars, histVars>>

\* The call that installing the protocol causes, before there is a service:
\* EFI_NOT_READY, and the handle stays unmarked.
InitBeforeDiscovery ==
  /\ pc = "dxe"
  /\ pc' = "bds"
  /\ UNCHANGED <<linkVars, BootNext, cached, handlerVars, exchangeVars, histVars>>

\* Discovery completes, perhaps again: a handle that is marked is not called.
DiscoveredAgain ==
  /\ pc = "bds"
  /\ restEx' = TRUE
  /\ \/ marked /\ UNCHANGED marked
     \/ ~marked /\ mSyncDone /\ marked' = TRUE
  /\ UNCHANGED <<linkVars, BootNext, pc, cached, mSyncDone, synced, exchangeVars,
                 histVars>>

\* Mutant: the exchange is not latched.
InitAfterDiscoveryUnlatched ==
  /\ pc = "bds"
  /\ ~marked
  /\ restEx' = TRUE
  /\ marked' = TRUE
  /\ synced' = synced + 1
  /\ \/ pc' = "root" /\ Attempt' = 0
     \/ pc' = "bds" /\ UNCHANGED Attempt
  /\ UNCHANGED <<linkVars, BootNext, cached, mSyncDone, report, got, Match, histVars>>

\* The first call with a service starts the exchange, or finds that
\* RedfishCreateService() fails.
InitAfterDiscovery ==
  /\ pc = "bds"
  /\ ~marked
  /\ ~mSyncDone
  /\ restEx' = TRUE
  /\ marked' = TRUE
  /\ mSyncDone' = TRUE
  /\ synced' = synced + 1
  /\ \/ pc' = "root" /\ Attempt' = 0
     \/ pc' = "bds" /\ UNCHANGED Attempt
  /\ UNCHANGED <<linkVars, BootNext, cached, report, got, Match, histVars>>

\* The NIC goes away: RedfishConfigHandlerDriver stops its handlers, which
\* unmarks them; this driver's Stop has nothing to undo.
HandlerStop ==
  /\ pc = "bds"
  /\ restEx
  /\ faults < MaxFaults
  /\ faults' = faults + 1
  /\ restEx' = FALSE
  /\ marked' = FALSE
  /\ UNCHANGED <<linkVars, BootNext, pc, cached, mSyncDone, synced, exchangeVars,
                 booted, resets, requests>>

-----------------------------------------------------------------------------
(* NucRedfishSync. *)

\* Every exit of the exchange but the reset goes back to BDS.
Exchange(place, next) ==
  /\ pc = place
  /\ pc' = next
  /\ UNCHANGED <<BootNext, cached, handlerVars, histVars>>

\* EFI_NO_MEDIA is retried.
RootNoMedia ==
  /\ Attempt < NUC_REDFISH_MEDIA_RETRIES - 1
  /\ Attempt' = Attempt + 1
  /\ Exchange("root", "root")
  /\ UNCHANGED <<linkVars, report, got, Match>>

RootFails ==
  /\ Exchange("root", "bds")
  /\ UNCHANGED <<linkVars, exchangeVars>>

RootAnswers ==
  /\ report' = 1
  /\ Exchange("root", "report")
  /\ UNCHANGED <<linkVars, Attempt, got, Match>>

\* One report, sent or not, answered or not.
ReportOne ==
  /\ report <= Len(Reports)
  /\ report' = report + 1
  /\ Exchange("report", "report")
  /\ UNCHANGED <<linkVars, Attempt, got, Match>>

ReportsDone ==
  /\ report > Len(Reports)
  /\ Exchange("report", "system")
  /\ UNCHANGED <<linkVars, exchangeVars>>

SystemFails ==
  /\ Exchange("system", "bds")
  /\ UNCHANGED <<linkVars, exchangeVars>>

SystemAnswers ==
  /\ got' = bmc
  /\ Exchange("system", "override")
  /\ UNCHANGED <<linkVars, Attempt, report, Match>>

-----------------------------------------------------------------------------
(* HandleBootOverride and ApplyMatchedOption. *)

\* Only "Once", and only a target some option has.
Honoured(b) == b.enabled = "Once" /\ FindBootOverrideOption(b.target) # {}

OverrideIgnored ==
  /\ ~Honoured(got)
  /\ Exchange("override", "bds")
  /\ UNCHANGED <<linkVars, exchangeVars>>

OverrideMatched ==
  /\ Honoured(got)
  /\ Match' \in FindBootOverrideOption(got.target)
  /\ Attempt' = 0
  /\ Exchange("override", "ack")
  /\ UNCHANGED <<linkVars, report, got>>

\* The PATCH that clears the override, tried PatchTries times.
AckSends ==
  /\ Attempt < PatchTries
  /\ Attempt' = Attempt + 1
  /\ clearing' = TRUE
  /\ answered' = FALSE
  /\ Exchange("ack", "wait")
  /\ UNCHANGED <<bmc, report, got, Match>>

\* Mutant: the tries are counted afresh.
AckTimesOutAfresh ==
  /\ ~answered
  /\ Attempt' = 0
  /\ Exchange("wait", "ack")
  /\ UNCHANGED <<linkVars, report, got, Match>>

AckTimesOut ==
  /\ ~answered
  /\ Exchange("wait", "ack")
  /\ UNCHANGED <<linkVars, exchangeVars>>

\* Mutant: the option is booted although the BMC did not accept the clear.
AckRefusedIgnored ==
  /\ Attempt = PatchTries
  /\ Exchange("ack", "apply")
  /\ UNCHANGED <<linkVars, exchangeVars>>

\* "not applying override, BMC did not accept the clear"
AckRefused ==
  /\ Attempt = PatchTries
  /\ Exchange("ack", "bds")
  /\ UNCHANGED <<linkVars, exchangeVars>>

AckSucceeds ==
  /\ answered
  /\ answered' = FALSE
  /\ Exchange("wait", "apply")
  /\ UNCHANGED <<bmc, clearing, exchangeVars>>

ApplySetVariable ==
  /\ pc = "apply"
  /\ pc' = "reset"
  /\ BootNext' = [option |-> Match, id |-> got.id]
  /\ UNCHANGED <<linkVars, cached, handlerVars, exchangeVars, histVars>>

ApplySetVariableFails ==
  /\ pc = "apply"
  /\ faults < MaxFaults
  /\ faults' = faults + 1
  /\ pc' = "bds"
  /\ UNCHANGED <<linkVars, BootNext, cached, handlerVars, exchangeVars,
                 booted, resets, requests>>

ApplyResets ==
  /\ pc = "reset"
  /\ GoesDown
  /\ resets' = IF resets <= MaxRequests THEN resets + 1 ELSE resets
  /\ UNCHANGED <<bmc, clearing, BootNext, booted, requests, faults>>

-----------------------------------------------------------------------------
Discovery == DiscoveredAgain \/ InitAfterDiscovery

\* What the host does by itself, whatever becomes of its messages.
Host ==
  \/ InitBeforeDiscovery \/ RootNoMedia \/ RootFails \/ RootAnswers
  \/ ReportOne \/ ReportsDone \/ SystemFails \/ SystemAnswers
  \/ OverrideIgnored \/ OverrideMatched
  \/ AckSends \/ AckTimesOut \/ AckRefused \/ AckSucceeds
  \/ ApplySetVariable \/ ApplySetVariableFails \/ ApplyResets

Next ==
  \/ OperatorSets \/ BmcClears \/ LinkLoses \/ PowerFails \/ PowerOn
  \/ BootOption \/ Reboot \/ Discovery \/ HandlerStop \/ Host

Spec == Init /\ [][Next]_vars

\* The machine runs; nothing is assumed of the BMC or the link.
FairHost ==
  /\ WF_vars(PowerOn)
  /\ WF_vars(Host)
  /\ WF_vars(BootOption)

HostSpec == Spec /\ FairHost

\* The machine is rebooted now and then, a service is discovered in some of
\* its boots, and requests made often enough are answered.
BmcAnswers ==
  /\ WF_vars(Reboot)
  /\ SF_vars(InitAfterDiscovery /\ pc' = "root")
  /\ SF_vars(RootAnswers)
  /\ SF_vars(SystemAnswers)
  /\ SF_vars(BmcClears)

-----------------------------------------------------------------------------
(* What the exchange promises. *)

\* A request is booted at most once, whatever is lost, delayed or repeated
\* between its acknowledgement and the boot (HandleBootOverride's order, and
\* ApplyMatchedOption's "safe to loop on").
OneShot ==
  [][pc = "bds" /\ pc' = "os" /\ cached # NoBootNext => cached.id > booted]_vars

\* Every reset is paid for by a request of its own: the BMC cannot hold the
\* host in a loop of overrides (HandleBootOverride, ApplyMatchedOption).
ResetsPaidFor == resets <= requests

\* Only "Once" is acted on (HandleBootOverride): what is staged was asked for
\* that way, and never leads to the management link (OptionIsNetworkBoot).
StagedAsAsked ==
  pc = "reset" =>
    /\ got.enabled = "Once"
    /\ ~({"usb", "mac"} \subseteq Options[BootNext.option].nodes)

\* One exchange per boot, however often discovery signals or the NIC comes
\* back (NucRedfishConfigHandlerInit's latch).
OneExchangePerBoot == synced <= 1

\* An unreachable, silent or unhappy BMC never keeps the host from booting
\* (the file's "everything here is fail-open").
FailOpen == pc = "dxe" ~> pc = "os"

\* With a BMC that answers, a request some option matches does not stay there
\* for ever: the host gets to it, although the handler is called once before
\* there is a service (NucRedfishConfigHandlerInit, HandleBootOverride).
RequestSettles ==
  BmcAnswers => \A r \in 1 .. MaxRequests :
    (bmc.id = r /\ Honoured(bmc)) ~> ~(bmc.id = r /\ bmc.enabled = "Once")

\* "apply it, then tell the BMC it has been consumed" (HandleBootOverride): a
\* request the BMC gives up at the host's word is the one the host has read.
ConsumedIsRead ==
  [][bmc.enabled = "Once" /\ bmc'.enabled # "Once" /\ bmc'.id = bmc.id /\ pc = "wait"
       => got.id = bmc.id]_vars

=============================================================================
