---------------------------- MODULE CapsuleOnDisk ----------------------------
(***************************************************************************)
(* The boot-time capsule scanner, NucCapsuleOnDiskLib.c, over the whole    *)
(* life of a machine: boots, power losses in the middle of a scan, the     *)
(* capsules a BMC or an OS stages between boots, and an external reflash   *)
(* of a chip whose rewrite was cut short.                                  *)
(*                                                                         *)
(* A file stands for the capsule it carries and for the image that capsule *)
(* writes.  The FMP (FmpDxe above FmpDeviceSmmLib) is external: it appears *)
(* as the scanner sees it, through UpdateCapsule() and GetImageInfo().     *)
(***************************************************************************)
EXTENDS Integers, FiniteSets

CONSTANTS
  File,               \* names that can appear in \EFI\UpdateCapsule
  Volume,             \* handles carrying SimpleFileSystem
  VolumeOf,           \* the volume each file is staged on
  ReadOnlyVolume,     \* volumes whose files open for reading only
  VersionOf,          \* FW version in each capsule's payload header
  HasPayloadHeader,   \* files NucCapsuleGetPayloadVersion() finds a header in
  ValidHeader,        \* files NucCapsuleValidateHeader() accepts
  Candidate,          \* non-empty plain files NucCapsuleIsCandidateFile() takes
  Factory,            \* the image an external programmer writes
  FactoryVersion,
  Torn,               \* a flash whose rewrite stopped half way
  MAX_CAPSULES,       \* names collected per volume
  SnapshotCanFail,    \* may the FMP be unreadable before an attempt?
  StatusWriteCanFail, \* may the status go unrecorded after its version was?
  StoreCanBeDown,     \* may variable services be unavailable?
  MaxStagings,        \* bound: files staged in a behaviour
  MaxFaults           \* bound: power losses in a behaviour

Image == File \cup {Factory}

ASSUME ConstantsAssumption ==
  /\ IsFiniteSet(File)
  /\ VolumeOf \in [File -> Volume]
  /\ VersionOf \in [File -> Nat]
  /\ FactoryVersion \in Nat
  /\ ReadOnlyVolume \subseteq Volume
  /\ HasPayloadHeader \subseteq File
  /\ ValidHeader \subseteq File
  /\ Candidate \subseteq File
  /\ Factory \notin File
  /\ Torn \notin Image
  /\ MAX_CAPSULES \in Nat \ {0}
  /\ SnapshotCanFail \in BOOLEAN
  /\ StatusWriteCanFail \in BOOLEAN
  /\ StoreCanBeDown \in BOOLEAN
  /\ MaxStagings \in Nat
  /\ MaxFaults \in Nat

VARIABLES
  \* persistent: SPI flash, variable store, the volumes
  flash,      \* the image in SPI, or Torn
  rec,        \* the FMP's stored last-attempt record
  osInd,      \* the file-capsule bit of OsIndications
  staged,     \* files present in the drop boxes
  \* one boot
  pc,         \* where the machine is
  running,    \* the image this boot runs
  varsUp,     \* variable services answer
  osSupp,     \* the file-capsule bit of OsIndicationsSupported (volatile)
  mNucCodScanDone,
  \* one scan
  volumes,    \* volumes ProcessDropBox has not visited yet
  names,      \* collected names not applied yet
  Applied,
  Failed,
  \* one ApplyOneCapsule call
  file,
  CanDelete,
  HaveBefore,
  before,     \* (BeforeVersion, BeforeStatus)
  outcome,    \* what SetImage() returned inside UpdateCapsule()
  \* history and bounds
  attempted,  \* files handed to UpdateCapsule() in this boot
  resets,     \* cold resets the scanner issued; stops past MaxStagings
  stagings,
  faults

flashVars == <<flash, rec, osInd, staged>>
bootVars  == <<running, varsUp, osSupp, mNucCodScanDone>>
scanVars  == <<volumes, names, Applied, Failed>>
applyVars == <<file, CanDelete, HaveBefore, before, outcome>>
histVars  == <<attempted, resets, stagings, faults>>
vars == <<flashVars, pc, bootVars, scanVars, applyVars, histVars>>

-----------------------------------------------------------------------------
Status == {"success", "error"}
Record == [version : Nat, status : Status]

\* FmpDevicePkg's DEFAULT_LASTATTEMPTVERSION and DEFAULT_LASTATTEMPTSTATUS:
\* what GetImageInfo() reports when there is no record to read.
NoRecord == [version |-> 0, status |-> "success"]

ImageVersion(i) == IF i \in File THEN VersionOf[i] ELSE FactoryVersion

\* The pair GetFmpLastAttemptStatus() reads out of the FMP's descriptor.
LastAttempt == IF varsUp THEN rec ELSE NoRecord

ScanSteps == {"volumes", "names", "update", "write", "status", "judge", "delete"}
Places == {"off", "bds", "os"} \cup ScanSteps

TypeOK ==
  /\ flash \in Image \cup {Torn}
  /\ rec \in Record
  /\ osInd \in BOOLEAN
  /\ staged \subseteq File
  /\ pc \in Places
  /\ running \in Image
  /\ varsUp \in BOOLEAN
  /\ osSupp \in BOOLEAN
  /\ mNucCodScanDone \in BOOLEAN
  /\ volumes \subseteq Volume
  /\ names \subseteq Candidate
  /\ Applied \in Nat
  /\ Failed \in Nat
  /\ pc \in {"update", "write", "status", "judge", "delete"} => file \in File
  /\ CanDelete \in BOOLEAN
  /\ HaveBefore \in BOOLEAN
  /\ before \in Record
  /\ outcome \in Status
  /\ attempted \subseteq File
  /\ resets \in Nat
  /\ stagings \in Nat
  /\ faults \in Nat

Init ==
  /\ flash = Factory
  /\ rec = NoRecord
  /\ osInd = FALSE
  /\ staged = {}
  /\ pc = "off"
  /\ running = Factory
  /\ varsUp = TRUE
  /\ osSupp = FALSE
  /\ mNucCodScanDone = FALSE
  /\ volumes = {}
  /\ names = {}
  /\ Applied = 0
  /\ Failed = 0
  /\ file = Factory
  /\ CanDelete = FALSE
  /\ HaveBefore = FALSE
  /\ before = NoRecord
  /\ outcome = "error"
  /\ attempted = {}
  /\ resets = 0
  /\ stagings = 0
  /\ faults = 0

-----------------------------------------------------------------------------
(* The machine around the scanner. *)

\* Power goes, whatever RAM held goes with it.
LosePower ==
  /\ pc' = "off"
  /\ varsUp' = TRUE
  /\ osSupp' = FALSE
  /\ mNucCodScanDone' = FALSE
  /\ volumes' = {}
  /\ names' = {}
  /\ Applied' = 0
  /\ Failed' = 0
  /\ file' = Factory
  /\ CanDelete' = FALSE
  /\ HaveBefore' = FALSE
  /\ before' = NoRecord
  /\ outcome' = "error"
  /\ attempted' = {}
  /\ UNCHANGED <<running, stagings>>

\* coreboot starts whatever is in SPI; a torn image does not start.  The
\* store may be full or corrupt for the whole boot.
PowerOn ==
  /\ pc = "off"
  /\ flash # Torn
  /\ pc' = "bds"
  /\ running' = flash
  /\ varsUp' \in IF StoreCanBeDown THEN BOOLEAN ELSE {TRUE}
  /\ UNCHANGED <<flashVars, osSupp, mNucCodScanDone, scanVars, applyVars,
                 attempted, resets, stagings, faults>>

\* The BMC, or an OS that asks for a delivery scan, drops a capsule.
Stage(f) ==
  /\ pc \in {"off", "bds", "os"}
  /\ f \notin staged
  /\ stagings < MaxStagings
  /\ staged' = staged \cup {f}
  /\ stagings' = stagings + 1
  /\ osInd' \in IF pc = "os" THEN {osInd, TRUE} ELSE {osInd}
  /\ UNCHANGED <<flash, rec, pc, bootVars, scanVars, applyVars,
                 attempted, resets, faults>>

\* BDS boots an option once ReadyToBoot has been signalled.
BootOption ==
  /\ pc = "bds"
  /\ mNucCodScanDone
  /\ pc' = "os"
  /\ UNCHANGED <<flashVars, bootVars, scanVars, applyVars, histVars>>

Shutdown ==
  /\ pc = "os"
  /\ LosePower
  /\ UNCHANGED <<flashVars, resets, faults>>

\* Power fails in firmware; a rewrite in flight may be left half done.
PowerFails ==
  /\ pc \notin {"off", "os"}
  /\ faults < MaxFaults
  /\ faults' = faults + 1
  /\ flash' \in IF pc = "write" THEN {flash, Torn} ELSE {flash}
  /\ LosePower
  /\ UNCHANGED <<rec, osInd, staged, resets>>

\* A programmer on the SPI chip; rewriting the BIOS region may wipe the store.
ExternalReflash ==
  /\ pc = "off"
  /\ flash = Torn
  /\ flash' = Factory
  /\ \/ UNCHANGED <<rec, osInd>>
     \/ rec' = NoRecord /\ osInd' = FALSE
  /\ UNCHANGED <<staged, pc, bootVars, scanVars, applyVars, attempted, resets,
                 stagings, faults>>

-----------------------------------------------------------------------------
(* OnReadyToBoot and ProcessDropBox. *)

Capsules(v) == {f \in staged \cap Candidate : VolumeOf[f] = v}

AdvertiseFileCapsuleDelivery == osSupp' = (osSupp \/ varsUp)

\* Mutant: the bit is cleared in the copy that was read, not written back.
ClearFileCapsuleIndicationInCopy == osInd' = osInd

ClearFileCapsuleIndication == osInd' = (osInd /\ ~varsUp)

\* A later boot attempt of the same BDS pass.
OnReadyToBootAgain ==
  /\ pc = "bds"
  /\ mNucCodScanDone
  /\ UNCHANGED vars

\* Some of the volumes are found; none of them holds a capsule.
OnReadyToBootIdle ==
  /\ pc = "bds"
  /\ ~mNucCodScanDone
  /\ mNucCodScanDone' = TRUE
  /\ AdvertiseFileCapsuleDelivery
  /\ \E found \in SUBSET Volume : \A v \in found : Capsules(v) = {}
  /\ ClearFileCapsuleIndication
  /\ UNCHANGED <<flash, rec, staged, pc, running, varsUp, scanVars, applyVars,
                 histVars>>

\* Mutant: the latch is set only on the idle exit.
OnReadyToBootScanUnlatched ==
  /\ pc = "bds"
  /\ ~mNucCodScanDone
  /\ AdvertiseFileCapsuleDelivery
  /\ \E found \in SUBSET Volume :
       /\ \E v \in found : Capsules(v) # {}
       /\ volumes' = found
  /\ pc' = "volumes"
  /\ Applied' = 0
  /\ Failed' = 0
  /\ UNCHANGED <<flashVars, running, varsUp, mNucCodScanDone, names, applyVars,
                 histVars>>

OnReadyToBootScan ==
  /\ pc = "bds"
  /\ ~mNucCodScanDone
  /\ mNucCodScanDone' = TRUE
  /\ AdvertiseFileCapsuleDelivery
  /\ \E found \in SUBSET Volume :
       /\ \E v \in found : Capsules(v) # {}
       /\ volumes' = found
  /\ pc' = "volumes"
  /\ Applied' = 0
  /\ Failed' = 0
  /\ UNCHANGED <<flashVars, running, varsUp, names, applyVars, histVars>>

\* Names are collected before any is applied; a volume that does not open
\* and a name that finds no memory yield nothing.
ProcessDropBox(v) ==
  /\ pc = "volumes"
  /\ v \in volumes
  /\ volumes' = volumes \ {v}
  /\ \E collected \in SUBSET Capsules(v) :
       /\ Cardinality(collected) <= MAX_CAPSULES
       /\ names' = collected
  /\ pc' = "names"
  /\ UNCHANGED <<flashVars, bootVars, Applied, Failed, applyVars, histVars>>

DropBoxDone ==
  /\ pc = "names"
  /\ names = {}
  /\ pc' = "volumes"
  /\ UNCHANGED <<flashVars, bootVars, scanVars, applyVars, histVars>>

\* The end of the scan: reset into the new firmware, or carry on booting.
ScanResets ==
  /\ pc = "volumes"
  /\ volumes = {}
  /\ Applied > 0
  /\ ClearFileCapsuleIndication
  /\ LosePower
  /\ resets' = IF resets <= MaxStagings THEN resets + 1 ELSE resets
  /\ UNCHANGED <<flash, rec, staged, faults>>

ScanCarriesOn ==
  /\ pc = "volumes"
  /\ volumes = {}
  /\ Applied = 0
  /\ ClearFileCapsuleIndication
  /\ pc' = "bds"
  /\ UNCHANGED <<flash, rec, staged, bootVars, scanVars, applyVars, histVars>>

-----------------------------------------------------------------------------
(* ApplyOneCapsule. *)

NotApplied == Failed' = Failed + 1 /\ UNCHANGED Applied

\* Mutant: the gate as an anti-downgrade policy.
NotAnUpgrade(f, have) ==
  have /\ f \in HasPayloadHeader /\ VersionOf[f] <= ImageVersion(running)

\* The version gate: the payload header's version is the running one.
AlreadyRunning(f, have) ==
  have /\ f \in HasPayloadHeader /\ VersionOf[f] = ImageVersion(running)

Openable(f) == IF VolumeOf[f] \in ReadOnlyVolume THEN {FALSE} ELSE BOOLEAN
SnapshotTaken == IF SnapshotCanFail THEN BOOLEAN ELSE {TRUE}

\* The file does not open, has no plausible size, finds no memory, reads
\* short or carries a header that is refused.
ApplyCannotRead(f) ==
  /\ pc = "names"
  /\ f \in names
  /\ names' = names \ {f}
  /\ NotApplied
  /\ UNCHANGED <<flashVars, pc, bootVars, volumes, applyVars, histVars>>

\* The capsule of the running version is consumed where the media allow it.
ApplySkips(f) ==
  /\ pc = "names"
  /\ f \in names \cap ValidHeader
  /\ names' = names \ {f}
  /\ \E writable \in Openable(f), have \in SnapshotTaken :
       /\ AlreadyRunning(f, have)
       /\ staged' \in IF writable THEN {staged, staged \ {f}} ELSE {staged}
  /\ NotApplied
  /\ UNCHANGED <<flash, rec, osInd, pc, bootVars, volumes, applyVars, histVars>>

\* Everything up to the call of UpdateCapsule(), the snapshot included.
ApplyStarts(f) ==
  /\ pc = "names"
  /\ f \in names \cap ValidHeader
  /\ names' = names \ {f}
  /\ file' = f
  /\ CanDelete' \in Openable(f)
  /\ \E have \in SnapshotTaken :
       /\ ~AlreadyRunning(f, have)
       /\ HaveBefore' = have
       /\ before' = IF have THEN LastAttempt ELSE NoRecord
  /\ attempted' = attempted \cup {f}
  /\ pc' = "update"
  /\ UNCHANGED <<flashVars, bootVars, volumes, Applied, Failed, outcome,
                 resets, stagings, faults>>

\* External: the capsule is refused (signature, lowest supported version)
\* and the refusal recorded, or not; only some refusals make UpdateCapsule()
\* itself fail.
FmpRefuses ==
  /\ pc = "update"
  /\ \/ UNCHANGED rec
     \/ varsUp /\ rec' = [version |-> VersionOf[file], status |-> "error"]
  /\ \/ pc' = "judge" /\ UNCHANGED <<Applied, Failed>>
     \/ pc' = "names" /\ NotApplied
  /\ UNCHANGED <<flash, osInd, staged, bootVars, volumes, names, applyVars, histVars>>

\* External: FmpDxe writes LastAttemptVersion before it calls the device.
FmpRecordsVersion ==
  /\ pc = "update"
  /\ pc' = "write"
  /\ rec' = IF varsUp THEN [version |-> VersionOf[file], status |-> rec.status] ELSE rec
  /\ UNCHANGED <<flash, osInd, staged, bootVars, scanVars, applyVars, histVars>>

\* External: FmpDeviceSmmLib rewrites the chip.  A write through the manifest
\* leaves the variable store alone; a fallback write overwrites it and stubs
\* the variable services; an I/O error may leave the image torn.
FmpWritesFlash ==
  /\ pc = "write"
  /\ pc' = "status"
  /\ \/ /\ flash' = file
        /\ outcome' = "success"
        /\ \/ UNCHANGED <<rec, osInd, varsUp>>
           \/ rec' = NoRecord /\ osInd' = FALSE /\ varsUp' = FALSE
     \/ /\ flash' \in {flash, Torn}
        /\ outcome' = "error"
        /\ UNCHANGED <<rec, osInd, varsUp>>
  /\ UNCHANGED <<staged, running, osSupp, mNucCodScanDone, scanVars, file,
                 CanDelete, HaveBefore, before, histVars>>

\* External: the status follows the version into the record.
FmpRecordsStatus ==
  /\ pc = "status"
  /\ pc' = "judge"
  /\ \/ rec' = IF varsUp THEN [version |-> rec.version, status |-> outcome] ELSE rec
     \/ StatusWriteCanFail /\ UNCHANGED rec
  /\ UNCHANGED <<flash, osInd, staged, bootVars, scanVars, applyVars, histVars>>

\* Mutant: a recorded success is proof enough, whoever recorded it.
RecordSaysSuccess ==
  /\ LastAttempt.status = "success"
  /\ LastAttempt.version # 0

\* What the record must say before a capsule counts as applied.
RecordProvesApply ==
  /\ LastAttempt.status = "success"
  /\ LastAttempt.version # 0
  /\ ~(HaveBefore /\ LastAttempt = before)

\* UpdateCapsule() returned success: read the record back and decide.
ApplyConfirmed ==
  /\ pc = "judge"
  /\ RecordProvesApply
  /\ CanDelete
  /\ pc' = "delete"
  /\ UNCHANGED <<flashVars, bootVars, scanVars, applyVars, histVars>>

\* The record could not be read, proves nothing, or the media are read-only.
ApplyUnconfirmed ==
  /\ pc = "judge"
  /\ pc' = "names"
  /\ NotApplied
  /\ UNCHANGED <<flashVars, bootVars, volumes, names, applyVars, histVars>>

ApplyDeletes ==
  /\ pc = "delete"
  /\ pc' = "names"
  /\ staged' = staged \ {file}
  /\ Applied' = Applied + 1
  /\ UNCHANGED <<flash, rec, osInd, bootVars, volumes, names, Failed, applyVars,
                 histVars>>

\* Mutant: EFI_WARNING_DELETE_FAILURE passes for success.
ApplyDeleteWarningIgnored ==
  /\ pc = "delete"
  /\ pc' = "names"
  /\ Applied' = Applied + 1
  /\ UNCHANGED <<flashVars, bootVars, volumes, names, Failed, applyVars, histVars>>

ApplyDeleteFails ==
  /\ pc = "delete"
  /\ pc' = "names"
  /\ NotApplied
  /\ UNCHANGED <<flashVars, bootVars, volumes, names, applyVars, histVars>>

-----------------------------------------------------------------------------
ReadyToBoot == OnReadyToBootIdle \/ OnReadyToBootScan

Apply ==
  \/ \E f \in File : ApplyCannotRead(f) \/ ApplySkips(f) \/ ApplyStarts(f)
  \/ FmpRefuses \/ FmpRecordsVersion \/ FmpWritesFlash \/ FmpRecordsStatus
  \/ ApplyConfirmed \/ ApplyUnconfirmed \/ ApplyDeletes \/ ApplyDeleteFails

Scan ==
  \/ \E v \in Volume : ProcessDropBox(v)
  \/ DropBoxDone \/ ScanResets \/ ScanCarriesOn

Environment ==
  \/ \E f \in File : Stage(f)
  \/ Shutdown \/ PowerFails \/ ExternalReflash

Next ==
  \/ PowerOn \/ ReadyToBoot \/ OnReadyToBootAgain \/ Scan \/ Apply
  \/ BootOption \/ Environment

Spec == Init /\ [][Next]_vars

\* A powered machine runs its firmware to the end, and is switched on again.
FairSpec ==
  /\ Spec
  /\ WF_vars(PowerOn)
  /\ WF_vars(ReadyToBoot)
  /\ WF_vars(Scan)
  /\ WF_vars(Apply)
  /\ WF_vars(BootOption)

-----------------------------------------------------------------------------
(* What the scanner promises. *)

\* A capsule reaches the delete that reports it applied only while its own
\* image is what the chip holds, whole: neither UpdateCapsule()'s success, nor
\* a default record, nor a record left by an earlier attempt or by a power
\* loss between its two writes is taken for a write (ApplyOneCapsule,
\* the guards after UpdateCapsule()).
AppliedIsProven == pc = "delete" => flash = file

\* The loop breaker: each cold reset of the scanner is paid for by a capsule
\* that is gone from its volume, so no undeletable capsule can reset the
\* machine boot after boot (ApplyOneCapsule's delete tests, OnReadyToBoot).
LoopBreaker == resets + Cardinality(staged) <= stagings

\* A capsule leaves a volume only because its image has just been written, or
\* because the running firmware already has its version; a failed, refused or
\* unreadable one stays pending, and so does every file that is no candidate
\* (ApplyOneCapsule, ProcessDropBox).
RemovalStep ==
  \A f \in staged \ staged' :
    /\ f \in Candidate \cap ValidHeader
    /\ \/ flash = f
       \/ f \in HasPayloadHeader /\ VersionOf[f] = ImageVersion(running)

\* Every step of the machine removes capsules only so (ApplyOneCapsule).
RemovalJustified == [][RemovalStep]_vars

\* No boot hands the same file to UpdateCapsule() twice, however many boot
\* options BDS tries (the mNucCodScanDone latch, names collected first).
OneAttemptPerBoot ==
  [][pc # "update" /\ pc' = "update" => file' \notin attempted]_vars

\* A boot that gets as far as an option has consumed a delivery request left
\* in OsIndications, on each of the scanner's exits (OnReadyToBoot), so long
\* as the store can be written.
IndicationConsumed ==
  [][pc = "bds" /\ pc' = "os" => ~osInd \/ ~varsUp]_vars

\* Once BDS runs, an option is booted, unless a rewrite failed half way: no
\* sequence of staged, undeletable or refused capsules keeps the machine in a
\* cycle of scans and resets (OnReadyToBoot, ApplyOneCapsule).
BootSettles == pc = "bds" ~> (pc = "os" \/ flash = Torn)

=============================================================================
