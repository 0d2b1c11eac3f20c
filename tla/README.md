# TLA+ models of nuc-bios-build

This directory models the firmware that nuc-bios-build puts on a NUC: an edk2
payload on coreboot, managed by a small BMC that is attached over USB and speaks
Redfish, presents a serial console and offers capsules on a mass-storage gadget.
The modules are translated from the C sources, not from their documentation.
Where a comment promises more than the code keeps, a run shows the difference.

## The system and its parts

| Part | Source | Modelled by |
|---|---|---|
| Capsule scanner | `NucCapsuleOnDiskLib.c` | `CapsuleOnDisk` |
| Capsule parser | `NucCapsuleParse.c` | not modelled; verdicts are constants of `CapsuleOnDisk` |
| Serial console, receive ring | `UsbCdcAcmDxe/SerialIo.c` | `SerialRing`, `SerialFifo` |
| Serial console, binding | `UsbCdcAcmDxe/UsbCdcAcmDxe.c`, `SerialIo.c` | `AcmBinding` |
| Redfish sync, boot override | `NucRedfishSyncDxe.c` | `BootOverride` |
| Redfish inventory | `NucRedfishInventory.c` | not modelled |
| Redfish quiesce | edk2 patch 0027 | `RedfishQuiesce` |
| Ethernet configuration | `EthConfigDxe.c` | `EthConfig` |
| EthernetInterface feature and collection | `RedfishEthernetInterface*Dxe` | `EthernetInterface`, composed with the driver over boots in `EthernetPolicy` |
| Region-manifest flash writer | edk2 patch 0034 | `FlashPlan`, `FlashUpdate`; `FmpWritesFlash` in `CapsuleOnDisk` is its outside |
| CDC-EEM, CDC-NCM drivers | edk2 patches 0033, 0031 | not modelled |
| SPI scripts, flasher | `scripts/nuc-spi.sh`, `flasher-init.sh` | not modelled |
| coreboot mainboard, CFR menu, recipes | `coreboot/`, patches 0011, 0025 | not modelled |

In one boot, coreboot starts the payload; drivers bind to the BMC's gadgets; a
discovered Redfish service triggers the sync (inventory out, boot override in),
which may reset the machine to boot a staged option. EthConfigDxe applies the
stored IPv4 policy when the onboard NIC binds. ReadyToBoot runs the capsule scan,
which hands capsules to the flash writer and may reset into new firmware, and the
EthernetInterface exchange, which may change the stored policy and reset to apply
it. Then an option is booted. The serial console polls throughout, at
`TPL_CALLBACK`.

## CapsuleOnDisk: the capsule scanner

Persistent state is the SPI flash (`flash`: an image, or `Torn`), the FMP's
last-attempt record (`rec`), the file-capsule bit of `OsIndications` (`osInd`) and
the staged files. The rest is one boot, one scan, and one `ApplyOneCapsule` call.

- `OnReadyToBootIdle`, `OnReadyToBootScan` and `OnReadyToBootAgain` are the three
  ways through `OnReadyToBoot` up to its scan; `ProcessDropBox` and `DropBoxDone`
  visit one volume; `ScanResets` and `ScanCarriesOn` are its ends.
- `ApplyOneCapsule` is cut where it calls out: `ApplyCannotRead`, `ApplySkips` and
  `ApplyStarts` up to `UpdateCapsule()`, the `Fmp...` actions inside it,
  `ApplyConfirmed` and `ApplyUnconfirmed` reading the record back, and
  `ApplyDeletes` and `ApplyDeleteFails`.
- External: the FMP (it records a version, writes the flash and then records a
  status; a fallback write overwrites the variable store), staging, power loss at
  any step, a store that is down for a boot, and an external reflash.

| Run | Checks | Shows |
|---|---|---|
| `capsule_scan` | `AppliedIsProven`, `LoopBreaker`, `RemovalJustified`, `OneAttemptPerBoot`, `IndicationConsumed`, `BootSettles` | a capsule counts as applied only when its image is whole in flash; each reset is paid for by a capsule that is gone; a capsule leaves a volume only written or already running; no cycle of scans and resets keeps the machine from booting |
| `capsule_blind_snapshot` | violates `AppliedIsProven` | with no snapshot, an old success record passes |

Bounds: four files (upgrade, capsule without a payload header, a non-capsule, an
upgrade on read-only media), two volumes, two stagings, one power loss. A
re-staging, a mixed scan and a cut at each step all occur. The three Boolean
constants choose which of the FMP's failures may happen. `capsule_scan` excludes the
two under which `AppliedIsProven` fails: an unreadable FMP before the attempt
(`SnapshotCanFail`, which `capsule_blind_snapshot` turns on) and a version recorded
without its status (`StatusWriteCanFail`). Fairness is weak and on the firmware's
own steps: the code is a loop without waits on the outside, and someone switches
the machine on again.

## SerialRing and SerialFifo: the receive ring

`SerialRing` has the poll callback and callers of `Read` and `Reset` at two levels.
Each store to the ring or to an index is a step, and so are the loads it depends on:
`RxCount` compares the indices in one step and subtracts them in the next, and an
increment loads its index in one step and stores it in the next. Two neighbouring loads
are one step where only one of them reads what somebody else may change meanwhile. `Runs`
and `PollRuns` say which of the steps the task priority levels let run. `SerialFifo` is
the promise, a bounded queue that only a Reset empties and nothing overflows;
`RingIsFifo` maps the ring onto it.

The indices are not volatile, so C leaves it to the build whether `RxCount` subtracts
what it compared or loads the indices again; `Reloads` is that choice. The runs have it
FALSE, for `edk2-uefipayload_2605.bb` builds with `-b RELEASE`, where the loads are kept
in registers. It matters only under a Read at `TPL_NOTIFY`: in an unoptimised build such a
Read between the comparison and the subtraction makes `RxCount` exceed the ring and
`RxFree` wrap, so that the poll asks for a packet that does not fit, and bytes are
dropped (TLC finds that with `Reloads` TRUE). `Exclusive` says that the caller at one
level does not call while the other's call is in progress: the port has one user, a
terminal driver, which may call at either level but not over a call of its own.

| Run | Checks | Shows |
|---|---|---|
| `serial_ring` | `RingIsFifo`, `PortDrains` | the timer may cut a caller anywhere and a Read may cut the timer anywhere: no byte is dropped, repeated or reordered, and every byte reaches a caller that keeps reading |
| `serial_reset_preempted` | violates `DeliveredInOrder` | a Read above a half-done Reset returns bytes that are older than what was delivered |

Bounds: a ring of four slots with packets of three and six bytes, so that the indices
wrap and the ring is full and empty more than once; arithmetic is modulo 256, which is to
four slots what 2^64 is to 4096. Strong fairness in `serial_ring` says that a preempted
level resumes, the timer keeps firing and a gadget that has data does not time out for
ever.

## BootOverride: the Redfish exchange

The BMC's `Boot` object carries the number of the request it holds, so that
requests can be told apart. `clearing` and `answered` are the acknowledging PATCH
and its answer under way; `BootNext` persists and `cached` is BdsEntry's copy of it.

- `InitBeforeDiscovery`, `InitAfterDiscovery`, `DiscoveredAgain` and `HandlerStop`
  are the config handler's calls, with the driver's latch (`mSyncDone`) and
  RedfishConfigHandlerDriver's mark on the handle (`marked`).
- `Root...`, `ReportOne`, `ReportsDone` and `System...` are `NucRedfishSync`;
  `Override...` and `Ack...` are `HandleBootOverride`; `Apply...` is
  `ApplyMatchedOption`. `FindBootOverrideOption` and its helpers are operators over
  the device-path nodes of an option.
- External: the operator, the BMC, a link that loses and delays, BdsEntry, power.

| Run | Checks | Shows |
|---|---|---|
| `override_exchange` | `ResetsPaidFor`, `StagedAsAsked`, `OneExchangePerBoot`, `OneShot`, `FailOpen`, `RequestSettles` | a request is booted at most once and resets at most once, whatever is lost or late; each boot reaches the OS with nothing assumed of the BMC; with one that answers, a request with a matching option is got to |
| `override_overtaken` | violates `ConsumedIsRead` | a request set between GET and PATCH is cleared unread |

Bounds: three requests, one fault, two tries of the retried calls (the code has 8
and 4: two are enough for a retry and a give-up). Four options with the BMC's own
NIC first. `FailOpen` assumes weak fairness of the host alone. `RequestSettles` also
assumes (as its hypothesis `BmcAnswers`) reboots, and that a request made in boot after boot is answered some time
(strong fairness), which is what an operator with a working BMC has.

## RedfishQuiesce: stopping the Redfish handlers

Patch 0027 stops the config handlers before the NIC under their services can go
away. One boot is modelled, with any number of boot attempts. `service` is each
handler's `RedfishService`: unplugging the NIC turns a live one into a dead one
before the handlers are stopped, and a feature driver's `Stop` over a dead service
sets `freed`, the crash the patch is about. `NucRedfishSyncDxe`'s `Stop` frees
nothing (`Sync`).

- `RedfishConfigOnReadyToBoot`, `RedfishConfigOnAfterProvisioning` (inside
  `CoreSignals`) and `RedfishConfigOnExitBootServices` are the triggers; the other
  `Redfish...` actions carry the guards on `gRedfishConfigQuiesced`.
- External: the cascade (`Unplug`), the feature core (`Core...`, present or absent
  from `Init` on) and BDS. The core lowers to `TPL_APPLICATION` before its walk, so
  `CoreStarts` waits for the other callback and everything else may interleave.

| Run | Checks | Shows |
|---|---|---|
| `redfish_quiesce` | `LoaderIsCovered`, `NothingHeld`, `ProvisioningIsWhole` | an unplug under Setup or a loader is harmless; nothing restarts past the latch; provisioning is not cut short |

`LoaderIsCovered` leaves out a feature core that never signals. The patch's own
comment at its `ExitBootServices` backstop names that case, and there the window it
calls covered stays open until `ExitBootServices`. An unplug before the latch is as
fatal as without the patch. Bounds: the sync driver and two features, two unplugs;
deadlock is not checked, since a boot ends in the OS or in the crash.

## EthConfig, EthernetInterface, EthernetPolicy: the onboard NIC's IPv4 policy

`EthConfig` is EthConfigDxe: the `EthCfg` variable (`EthCfg`, `wellFormed`), the claim
of the first NIC that is not the BMC's (`mNicClaimed`), the published formset and
what `Ip4Config2` keeps for each NIC (`nic`). `EthernetInterface` is the Redfish
feature driver and its collection driver, which exchange the questions with the
BMC's members (`bmc`) and remember ETags (`etag`). `EthernetPolicy` composes the two
over boots and adds the feature core's reset, clients, Setup and failures.

- `OnIp4Config2Installed` is one NIC of the notify's queue, with the MAC, the formset
  and `ApplyConfig` in it. `ApplyStaticExits` are the states a failed call leaves.
- `RedfishCollectionFeatureCallback` starts the walk, `HandleResource` takes the next
  member up to its check, and `RedfishResourceConsumeResource`,
  `RedfishResourceUpdate` and `SetEtagFromUri` are the three exchanges that a client's
  write can fall between. `CreateCollectionResource` fills an empty collection.
- Abstractions. A text is a model value; `Ip` and `Unicast` say what parses. A
  missing array and an empty one convert to the same structure. The ETag is a version
  that changes with the content. The GETs may be answered from the HTTP cache, so a
  consume takes the cached or the present representation. The questions a consume
  writes are one step of which any subset may fail. A PATCH or a POST may land with
  its answer lost. A failed GET in the check provisions the member unread, as a
  missing DHCPv4 marker does. The configure-language map may or may not survive a
  reset. Members with `@Redfish.Settings` are left out: the BMC of this project has
  none.
- External: `Ip4Config2`, BDS, the feature core, the BMC and its clients, Setup.

| Run | Checks | Shows |
|---|---|---|
| `ethernet_policy` | `OsRunsApplied`, `OsRunsAgreed`, `EtagIsHonest`, `NoBootLoop`, `BmcLinkUntouched`, `NeverDuplicates`, `ClientWritesAreTaken`, `ChangeIsApplied`, `AgreementSettles` | when the OS starts, the managed NIC runs what the questions say; after a boot without failures the BMC shows what the host runs; a recorded ETag hides only what was taken; the resets end; whatever raced or failed, host and BMC agree again once they are left alone; the BMC's own link is left alone |

Bounds: two NICs (onboard, gadget), two members, one write, one fault, four bodies
that cover a DHCP switch, a static configuration, an element that cannot be read and a
member that loses its marker. One write and one fault suffice for every race between
a client and one exchange; a second of either multiplies the states past what can be
explored and is left to the proofs, which bound neither. Fairness is weak, on
`Progress`: the firmware's own steps without failures. Nobody is assumed to write,
restart or repair anything. Deadlock is checked.

`managed` is the NIC that took every call of `ApplyConfig` in this boot, and `Runs` what a
NIC must hold for a configuration: `OsRunsApplied` and `ChangeIsApplied` compare the two
field by field, address, mask, gateway and name servers.

What the properties leave out is what the code gives up: a write that races the
exchange of its member (`raced`), a boot in which a call failed (`faulty`), a member
without the marker. The code sends no If-Match, so a racing write is lost;
`AgreementSettles` says that the disagreement it leaves is not. An address that is
confirmed after its 5 s leaves the NIC without gateway and DNS.

DHCP off without an address leaves the NIC as it was. `EthConfigDxe.c:498-499` says so on
purpose ("the old "Unmanaged" behavior"), while `EthernetInterfaceCommon.c:127-128` says
that an empty array "retires a static configuration": it clears the questions, and the
address of an earlier boot stays in use. `Runs` follows the code and asks nothing of the
NIC in this case, so no property shows the disagreement of the two comments.

## AcmBinding: binding the serial console

Each port has a context `dev`, the set of pieces it has acquired, and its two USB
interfaces `ctrl` and `data`; `opens` are the interfaces this driver has open,
`nic` those of the network function's driver. `Acquired`, `InstallSerialIoUndoes`
and `StartUndoes` are `Start`'s calls and error labels, as sets.

- `Start`, `StartFails`, `StopChild`, `StopInterface` and `UninstallRefused` are the
  driver binding; `SetAttributes` and `Write` are the console's calls (`Read`, `Reset`
  and the ring are in `SerialRing`). The control bits that `SetControl` keeps are sent to
  the gadget and decide nothing, and are left out.
- External: UsbBusDxe publishes and removes the interfaces of a device in their order
  and tries again those it could not remove; `Disconnect` is anybody; the network
  class driver; the terminal; the end of a transfer.
- `Start` and `Stop` are single steps. The hub's timer can preempt them in the
  firmware; the locking that matters there is UsbBusDxe's.

| Run | Checks | Shows |
|---|---|---|
| `acm_binding` | `NothingLeaks`, `HoldsItsInterfaces`, `PolledWhilePublished`, `PortComesUp` | whatever fails, nothing is left open; a port keeps its interfaces over unplugs and refused stops; a plugged device whose network function is bound gets its port, on interfaces that are not the network function's |
| `acm_takes_nic_data` | violates `NeverStealsFromNic` | before the network driver binds, `FindDataInterface` takes the network function's data interface, which has the same class |
| `acm_write_waits` | violates `WriteReturns` | 173 microseconds, TerminalDxe's timeout for 115200 8N1, become 0 ms, which is no timeout |

Bounds: an ACM function and a network function on one device, a foreign adapter with
a data interface, two contexts, one fault, three events (unplug, disconnect, write).
Fairness of `PortComesUp`: UsbBusDxe goes on publishing, and somebody connects again (BDS's `EfiBootManagerConnectAll`, `ConnectRedfishApp`), which the
driver needs on a hot plug, where its first `Start` finds no sibling yet.

A disconnect of the data interface alone also reaches the branch commented "Nothing
published under this controller any more", with the port still published; such ports
are in `orphaned` and `HoldsItsInterfaces` excludes them.

`UsbCdcAcmDxe.h:36-38` says that "this driver can never steal the RHI NIC's interfaces".
Binding on the control interface's class does not keep the search for the data interface
away from them: `acm_takes_nic_data` is a port on the network function's data interface.
`PortComesUp` is therefore about a gadget whose network function is bound (`nic`), and
asks for a port on another data interface.

## FlashPlan and FlashUpdate: the region-manifest flash writer

`FlashPlan` has what FmpDeviceSmmLib decides before it writes, as operators: the
manifest, the flash maps, the descriptor, the ranges (`Plan`) and whether the variable
store is outside them. `FlashUpdate` programs them, cell by block: `ReadBlock` compares
and merges, `EraseBlock` and `WriteBlock` are one try each, `VerifyFlashWrite` the read
back, with both retry loops (`tries` in `Attempt`). `SetImageAborts` and `SetImage` are
the ways into it, `Advance` and `IoError` its ends. Power can go at every step and
leave garbage in the block.

| Run | Checks | Shows |
|---|---|---|
| `flash_update` | `SuccessIsExact`, `StoreIsKept`, `ServicesHaveTheirStore`, `ProgressAddsUp`, `RepeatIsHarmless`, `OperationsRunOut`, `UpdateEnds` | success means the selected ranges and nothing else; a preserved store is untouched at every moment; the variable services go on only over the store they had when the firmware started, also after a second update; repeating an update erases nothing; a locked block ends the update, after no more operations than the nested retries allow |

Bounds: seven blocks of two cells with the board's areas in small (COREBOOT shares a
block with CONSOLE), the descriptor's block locked, two tries per loop (the code has
more; two are a retry and a give-up), two capsules, four faults, so that both loops run
out. Seven capsules: COREBOOT alone, three regions, one that contains the store, an
unknown region, a moved layout, another descriptor, another manifest version. Fairness
is weak, on the writer's own steps.

- A read with its retries is one step that succeeds or not; one that returns wrong
  bytes is only modelled for the verification (`WriteBlock` writes garbage).
- The rechecks inside the write loops (`goto InvalidImage`) cannot fail after the
  validation, and the third `!TriedBiosFallback` branch is dead; neither is an action.
- `StoreIsKept` needs SMMSTORE to consist of whole blocks, as in `board.fmd`
  (`PlanAssumption`): the code compares the ranges, not their blocks.
- `ServicesHaveTheirStore` needs two things of the images, which `LayoutAssumption` in
  `MCFlashUpdate` checks of the instance. `OneFmapPlace`: the images have their FMAP in
  one place. `MapKeepsStore`: a capsule that replaces the FMAP and keeps clear of the
  store has the store where the replaced map has it. The writer compares the listed
  regions only, so it does not see to the second. With a capsule that replaces FMAP
  alone by a map with SMMSTORE elsewhere the property fails: a second update in the same
  boot takes the new map's store for the live one, and rewrites the running firmware's
  with the services on. The manifest that the repository builds lists COREBOOT only.
- `OperationsLeft` is the most operations an update can still do: a read for each block
  that is left, and for each of its attempts the tries of the erase and of the write, and
  the verification.
- An unreadable or moved map makes the writer fall back to the BIOS region, SMMSTORE
  included; `coreboot_git.bb` wants SMMSTORE to "stay out of every write range". No
  property forbids that loss, which is what the fallback is for; `ServicesHaveTheirStore`
  is about what follows, that the services are replaced. After an I/O error they stay
  (`failed`).

## What is proved

The theorems hold for every value of the constants that satisfies the modules'
assumptions, so for any number of files, options, bytes, boots and faults.

- `CapsuleOnDiskProofs`: `Typing`; `AppliedProven` and `RemovalsAreJustified`,
  when snapshots work and a status follows its version; `ResetsArePaidFor`.
  `AppliedIsProven` is not inductive: `ProofInv` adds, for each step between the
  snapshot and the judgement, how the record, the snapshot, the outcome and the
  flash are related. `LoopBreaker` needs `BreakInv`, which counts an applied
  capsule of the current scan as a reset that is owed. `FileInv` carries what the
  file was checked for to its delete. `AttemptsAreSingle` rests on `AttemptInv`: a
  file is attempted out of a volume that is not visited again, and leaves the names as
  its attempt begins. `IndicationIsConsumed` rests on `IndicationInv`: BDS passes the
  latch only with the bit cleared or a store that cannot be written.
- `SerialRingProofs`: `Typing`; `DeliveryIsInOrder` and `RingImplementsFifo` under
  `SingleCaller`: no call comes from above the timer, or the callers exclude each other,
  none of them resets above the timer and the build does not reload the indices
  (`serial_reset_preempted`, and the drops described above, are what happens otherwise).
  `RingInv` says what each register still knows of its index at each step, `RxCount`'s
  included, and that the slots from tail to head hold consecutive bytes ending with the
  last one received (`QueueInv`). That nothing is dropped is part of the refinement: the
  room that the guard found is still there when `RxPut` measures it (`MeasuresPoll`). Each
  step is mapped to a step of `SerialFifo` or a stutter (`FifoSteps`): the bytes are
  queued one by one as `RxHead` is stored, and leave as `RxTail` is.
- `BootOverrideProofs`: `Typing`, `EveryResetIsPaidFor`, `ExchangesOnce`,
  `RequestsAreOneShot`, and `StagedIsAsAsked` when no option is both a USB NIC and
  an application or a disk. `OverrideInv` orders the requests' numbers: booted,
  then staged, then read, then held by the BMC. After an acknowledged clear the
  request that was read is no longer enabled at the BMC.
- `RedfishQuiesceProofs`: `Typing`, `TheLoaderIsCovered`, `NothingIsHeld`,
  `ProvisioningIsNotCutShort`, for any handlers and any number of unplugs.
  `QuiesceInv` ties a feature's service to its mark (`HeldInv`), says at each place
  of a boot which trigger is still to come (`TriggerInv`), and that what the walk
  owes keeps its service until the walk gets there (`WalkInv`).
- `EthernetPolicyProofs`: `TypeCorrect`, `OsRunsWhatWasApplied`, `EtagStaysHonest`,
  `LinkStaysUntouched`, `MembersAreAdopted`, `WritesAreTakenFirst`, for any NICs,
  members, texts, writes and faults. `IInv` adds to the types that the managed
  NIC runs what the questions say unless a reset is requested (`AppliedInv`, from
  `ApplyRuns`: what `ApplyConfig` leaves after calls that succeed), that the
  reported MAC is not a USB NIC's (`LinkInv`), that the walk is over members that exist
  (`MemberInv`), that without a failure the NIC is claimed and the formset published
  once all NICs are bound (`ReadyInv`), and what `seen` and `raced` say of the member at
  each place of its exchange (`EtagInv`, `TakenInv`, `SeenInv`).
- `EthernetAgreementProofs`: `OsRunsWhatIsShown` and `ResetsEnd`, on top of that `IInv`.
  The first rests on a PATCH being idempotent: what a member shows after one is what the host
  would send again (`PatchedAgain`), whatever the conversions do to the texts. `AgreeInv`
  says that the members behind the walk show the questions unless somebody wrote them
  since. `LoopInv` says what is settled after one reset and after two: a boot after a
  reset without a failure records the ETag of every member, and a member with the
  recorded ETag is not consumed, so that the third boot has no reason to reset.
- `AcmBindingProofs`: `TypeCorrect`, `StartAndStopRelease`, `PortsHoldTheirInterfaces`,
  `PortsArePolled`. `CInv` says that the opens are exactly
  those of ports that are not orphaned, that a port's interfaces have their roles and
  that no two ports share one.
- `FlashUpdateProofs`: `TypeCorrect`, `ExactSuccess`, `StoreKept`, `HarmlessRepeat`,
  `ProgressReachesItsEnd`, `OperationsAreBounded` and `ServicesKeepStore`, for any block
  size, maps, capsules, retries and faults. Every step of an update has one of four
  forms (`StepHasForm`): it begins a block, works on it, passes it or stops.
  `ChipInv` says what the cells outside the open block hold, given the cells that are
  `Left`; `BlockInv` says the same of what is going to be written into it, so that a
  verified block closes the gap; `StoreInv` keeps the ranges that are left off a
  preserved store, which is made of whole blocks by assumption, so that no open block
  has a cell of it; `RepeatInv` says that a repeated update opens no block.

  `ProgressInv` says that the steps are those of the ranges that are done and of the
  blocks before the current one. That the sum over the ranges exists and adds up
  (`SumExists`, `TotalUnfolds`) is an induction, done with a least counterexample
  (`LeastNumber`, `UpTo`) from the well-foundedness of the naturals. With it the blocks
  that are left are a natural number (`BlocksAfter`), which `LeavesFewer` needs.
  `ServicesKeepStore` assumes `OneFmapPlace` and `MapKeepsStore`; `ServiceInv` says that
  while the services are the real ones the chip's map names the store of the running
  firmware, and that a preserving plan was made from that map. `StoreSinceUpdate` and
  `StoreUntilUpdate` carry the store's content over the last update and over those before.

Only model-checked: the liveness properties `BootSettles`, `PortDrains`, `FailOpen`,
`RequestSettles`, `ChangeIsApplied`, `AgreementSettles`, `PortComesUp` and `UpdateEnds`.
Liveness under fairness is out of this prover's reach. For `UpdateEnds` the proofs have the part that is
not about fairness: an update cannot go on for ever (`OperationsAreBounded`), but that it
never blocks is only checked. Likewise the resets behind `BootSettles` and
`ChangeIsApplied` are bounded by proof (`ResetsArePaidFor`, `ResetsEnd`).

## Conventions

Definitions keep the source's names. Each component has a
type invariant `TypeOK`, which is proved. A definition whose comment starts with
"Mutant:" is a wrong version of the definition after it; it is in no next-state
relation, and replacing the right one by it violates the property it is listed with
in `PROJECT.json`. `MaxStagings`, `MaxFaults`,
`MaxRequests`, `MaxUnplugs`, `MaxBytes`, `MaxWrites`, `MaxEvents` and `MaxUpdates`
bound the environment. `PROJECT.json` also maps each definition to its lines and lists the
hazards each property is there for.

## Not modelled

- The capsule parser, the inventory, the host interface record and CFR forms are
  layouts: they compare or build bytes, keep no state, and a model would repeat the
  code. `CapsuleOnDisk` and `BootOverride` quantify over what they can answer.
- CDC-EEM and CDC-NCM depend on the USB stack's transfers, which are not in the
  repository; patch 0031 shows hunks of a driver, not the driver.
- The SPI scripts run one command after another under an operator's eyes.
  `ExternalReflash` and `Reprogram` are their effect.
- coreboot's mainboard code programs registers in straight lines.
- The retries of RedfishHttpDxe below the drivers (patch 0024 sets how many) are part of
  one request: a request is answered, fails, or lands with its answer lost.
- The entry points and unloads of the drivers install and remove protocols only.
- One boot pass with sync, scan, exchange and quiesce together is not composed: the
  parts share the reset and the NIC, and each module has the others' resets and
  unplugs as environment steps that can come at any time.
