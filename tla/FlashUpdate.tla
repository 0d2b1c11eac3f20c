------------------------------ MODULE FlashUpdate ------------------------------
(***************************************************************************)
(* FmpDeviceSmmLib (edk2 patch 0034) programming a chip over boots: what   *)
(* CapsuleOnDisk takes for one step is here every read, erase, write and   *)
(* verification of a block, each of which can fail, be retried, or be the  *)
(* moment the power goes.                                                  *)
(***************************************************************************)
EXTENDS FlashPlan

CONSTANTS
  Capsule,     \* what may be handed to the FMP
  Factory,     \* the image an external programmer writes
  Erased,      \* what an erased cell holds
  Garbage,     \* what an interrupted operation leaves
  Locked,      \* blocks the chip refuses to erase
  FMP_DEVICE_SMM_FLASH_RETRY_COUNT,
  MaxUpdates,  \* bound: capsules handed over
  MaxFaults    \* bound: failed operations and power cuts

RetryCount == FMP_DEVICE_SMM_FLASH_RETRY_COUNT

ASSUME UpdateAssumption ==
  /\ Capsule # {}
  /\ \A c \in Capsule : /\ c.image \in Image /\ c.rmap \in BOOLEAN
                        /\ c.names \in Seq(STRING)
                        /\ c.version \in Nat /\ c.size \in Nat
  /\ Factory \in Image
  /\ {Erased, Garbage} \subseteq Value
  /\ Locked \subseteq Block
  /\ RetryCount \in Nat \ {0}
  /\ MaxUpdates \in Nat /\ MaxFaults \in Nat

VARIABLES
  flash,
  pc,
  cap,        \* the capsule that is being applied
  plan,       \* its ranges, and whether the store is outside them
  todo,       \* the ranges that are left, the current one first
  Offset,
  Expected,   \* the block to program
  Attempt,    \* of FmpDeviceFlashProgramWithRetry
  tries,      \* of the erase or the write within it
  Step,
  services,   \* gRT's variable services are the real ones
  store,      \* the store of the running firmware
  result,     \* what the last update answered in this boot
  before,     \* history: the chip when the last update began
  misread,    \* history: a read failed in this update
  failed,     \* history: an update failed with an I/O error in this boot
  booted,     \* history: the chip when the firmware started
  updates, faults

cursorVars == <<todo, Offset, Step>>
retryVars == <<Expected, Attempt, tries>>
bootVars == <<services, store, failed, booted>>
vars == <<flash, pc, cap, plan, cursorVars, retryVars, bootVars, result, before,
          misread, updates, faults>>

Fault == faults < MaxFaults /\ faults' = faults + 1
Charge(fault) == IF fault THEN Fault ELSE UNCHANGED faults

\* The places inside FmpDeviceSetImageWithStatus.
Programming == {"block", "erase", "write", "verify"}

TypeOK ==
  /\ flash \in Image
  /\ pc \in {"off", "up"} \cup Programming
  /\ cap \in Capsule
  /\ plan.ranges \in Seq(Range) /\ plan.preserved \in BOOLEAN
  /\ todo \in Seq(Range)
  /\ Offset \in Nat
  /\ Attempt \in 0 .. RetryCount - 1
  /\ tries \in 0 .. RetryCount - 1
  /\ Step \in Nat
  /\ services \in BOOLEAN
  /\ store \in Range
  /\ result \in {"none", "success", "aborted", "error"}
  /\ before \in Image /\ booted \in Image
  /\ misread \in BOOLEAN /\ failed \in BOOLEAN
  /\ updates \in Nat /\ faults \in Nat
  /\ pc \in Programming => todo # <<>> /\ Offset \in Cells(Head(todo))
  /\ pc \in {"erase", "write", "verify"} =>
       Expected \in [{x \in Cell : x \div BlockSize = Offset \div BlockSize} -> Value]

NoBlock == <<>>

Init ==
  /\ flash = Factory
  /\ pc = "off"
  /\ cap = CHOOSE c \in Capsule : TRUE
  /\ plan = NoPlan
  /\ todo = <<>>
  /\ Offset = 0
  /\ Expected = NoBlock
  /\ Attempt = 0
  /\ tries = 0
  /\ Step = 0
  /\ services = TRUE
  /\ store = NoRange
  /\ result = "none"
  /\ before = Factory
  /\ misread = FALSE
  /\ failed = FALSE
  /\ booted = Factory
  /\ updates = 0
  /\ faults = 0

-----------------------------------------------------------------------------
(* The machine. *)

\* Some image's boot region is whole, as its FMAP on the chip delimits it.
Bootable ==
  LET fmap == LocateFmapInImage(flash, Cell)
      code == Cells(FindFmapRegion(fmap, "COREBOOT"))
  IN /\ code # {}
     /\ \E image \in {Factory} \cup {c.image : c \in Capsule} :
          /\ LocateFmapInImage(image, Cell) = fmap
          /\ \A x \in code : flash[x] = image[x]

Idle ==
  /\ todo' = <<>>
  /\ Offset' = 0
  /\ Expected' = NoBlock
  /\ Attempt' = 0
  /\ tries' = 0

Boot ==
  /\ pc = "off"
  /\ Bootable
  /\ pc' = "up"
  /\ services' = TRUE
  /\ store' = FindFmapRegion(LocateFmapInImage(flash, Cell), "SMMSTORE")
  /\ failed' = FALSE
  /\ booted' = flash
  /\ result' = "none"
  /\ plan' = NoPlan
  /\ before' = flash
  /\ Step' = 0
  /\ UNCHANGED <<flash, cap, todo, Offset, retryVars, misread, updates, faults>>

Reset ==
  /\ pc = "up"
  /\ pc' = "off"
  /\ UNCHANGED <<flash, cap, plan, cursorVars, retryVars, bootVars, result, before,
                 misread, updates, faults>>

\* A chip that does not boot is rewritten from outside.
Reprogram ==
  /\ pc = "off"
  /\ ~Bootable
  /\ flash' = Factory
  /\ before' = Factory
  /\ plan' = NoPlan
  /\ result' = "none"
  /\ UNCHANGED <<pc, cap, cursorVars, retryVars, bootVars, misread, updates, faults>>

-----------------------------------------------------------------------------
(* FmpDeviceSetImageWithStatus. *)

\* The image, its manifest or a buffer is refused before anything is written.
SetImageAborts(c, fault) ==
  /\ pc = "up"
  /\ updates < MaxUpdates
  /\ updates' = updates + 1
  /\ \/ ~FmpDeviceCheckImageWithStatus(c)
     \/ Listed(c) /\ ~ManifestAcceptable(c)
     \/ fault
  /\ Charge(fault)
  /\ cap' = c
  /\ plan' = NoPlan
  /\ result' = "aborted"
  /\ before' = flash
  /\ UNCHANGED <<flash, pc, cursorVars, retryVars, bootVars, misread>>

SetImage(c, fmapOk, ifdOk) ==
  /\ pc = "up"
  /\ updates < MaxUpdates
  /\ updates' = updates + 1
  /\ FmpDeviceCheckImageWithStatus(c)
  /\ Listed(c) => ManifestAcceptable(c)
  /\ Charge(~fmapOk \/ ~ifdOk)
  /\ cap' = c
  /\ plan' = Plan(c, flash, fmapOk, ifdOk)
  /\ todo' = plan'.ranges
  /\ Offset' = plan'.ranges[1].off
  /\ Step' = 0
  /\ pc' = "block"
  /\ result' = "none"
  /\ before' = flash
  /\ misread' = FALSE
  /\ UNCHANGED <<flash, retryVars, bootVars>>

FmpDeviceShouldDisableVariableServices == ~plan.preserved

\* Mutant: the last update alone decides.
ServicesAfterLast == ~FmpDeviceShouldDisableVariableServices

\* Success replaces the services by stubs, or leaves them as they are.
ServicesAfter == services /\ ~FmpDeviceShouldDisableVariableServices

RangeEnd == Head(todo).off + Head(todo).size
BlockBase == (Offset \div BlockSize) * BlockSize
InBlock == {x \in Cell : x \div BlockSize = Offset \div BlockSize}
Segment == {x \in InBlock : Offset <= x /\ x < RangeEnd}

\* The block is done: the next block, the next range, or success.
Advance ==
  /\ Step' = Step + 2
  /\ Expected' = NoBlock
  /\ Attempt' = 0
  /\ tries' = 0
  /\ IF BlockBase + BlockSize < RangeEnd
       THEN /\ Offset' = BlockBase + BlockSize
            /\ pc' = "block"
            /\ UNCHANGED <<todo, services, result>>
     ELSE IF Len(todo) > 1
       THEN /\ todo' = Tail(todo)
            /\ Offset' = todo[2].off
            /\ pc' = "block"
            /\ UNCHANGED <<services, result>>
     ELSE /\ todo' = <<>>
          /\ Offset' = 0
          /\ pc' = "up"
          /\ result' = "success"
          /\ services' = ServicesAfter
  /\ UNCHANGED <<store, failed, booted>>

IoError ==
  /\ Idle
  /\ pc' = "up"
  /\ result' = "error"
  /\ failed' = TRUE
  /\ UNCHANGED <<Step, services, store, booted>>

-----------------------------------------------------------------------------
(* UpdateFlashRangeFromImage and FmpDeviceFlashProgramWithRetry. *)

Fill(v) == [x \in Cell |-> IF x \in InBlock THEN v ELSE flash[x]]

\* Mutant: the block is taken from the image as a whole.
MergedWhole == [x \in InBlock |-> cap.image[x]]

\* The segment from the image, the rest of the block from the chip.
Merged == [x \in InBlock |-> IF x \in Segment THEN cap.image[x] ELSE flash[x]]

\* Mutant: nothing is compared.
SameNever == FALSE

Same == \A x \in Segment : flash[x] = cap.image[x]

\* A block that already has the content is left alone; one that cannot be read
\* is programmed if all of it is known.
ReadBlock(readable) ==
  /\ pc = "block"
  /\ Charge(~readable)
  /\ misread' = (misread \/ ~readable)
  /\ \/ readable /\ Same /\ Advance
     \/ ~readable /\ Segment # InBlock /\ IoError
     \/ /\ IF readable THEN ~Same ELSE Segment = InBlock
        /\ pc' = "erase"
        /\ Expected' = Merged
        /\ UNCHANGED <<cursorVars, Attempt, tries, bootVars, result>>
  /\ UNCHANGED <<flash, cap, plan, before, updates>>

\* Mutant: the attempts are not counted.
AttemptFailsUncounted ==
  /\ tries' = 0
  /\ pc' = "erase"
  /\ UNCHANGED <<cursorVars, Expected, Attempt, bootVars, result>>

\* From the erase again, or no more.
AttemptFails ==
  IF Attempt + 1 < RetryCount
    THEN /\ Attempt' = Attempt + 1
         /\ tries' = 0
         /\ pc' = "erase"
         /\ UNCHANGED <<cursorVars, Expected, bootVars, result>>
    ELSE IoError

\* The erase or the write once more, or the next attempt.
OperationFails ==
  IF tries + 1 < RetryCount
    THEN /\ tries' = tries + 1
         /\ UNCHANGED <<pc, cursorVars, Expected, Attempt, bootVars, result>>
    ELSE AttemptFails

\* FmpDeviceFlashEraseWithRetry, one try.
EraseBlock ==
  /\ pc = "erase"
  /\ \/ /\ Offset \div BlockSize \notin Locked
        /\ flash' = Fill(Erased)
        /\ tries' = 0
        /\ pc' = "write"
        /\ UNCHANGED <<cursorVars, Expected, Attempt, bootVars, result, faults>>
     \/ /\ Offset \div BlockSize \in Locked
        /\ OperationFails
        /\ UNCHANGED <<flash, faults>>
     \/ /\ Offset \div BlockSize \notin Locked
        /\ Fault
        /\ OperationFails
        /\ flash' \in {flash, Fill(Garbage)}
  /\ UNCHANGED <<cap, plan, before, misread, updates>>

\* FmpDeviceFlashWriteWithRetry, one try; the chip may also take other bytes
\* than it was given without saying so.
WriteBlock ==
  /\ pc = "write"
  /\ \/ /\ \/ /\ flash' = [x \in Cell |-> IF x \in InBlock THEN Expected[x] ELSE flash[x]]
              /\ UNCHANGED faults
           \/ flash' = Fill(Garbage) /\ Fault
        /\ tries' = 0
        /\ pc' = "verify"
        /\ UNCHANGED <<cursorVars, Expected, Attempt, bootVars, result>>
     \/ /\ Fault
        /\ OperationFails
        /\ flash' \in {flash, Fill(Garbage)}
  /\ UNCHANGED <<cap, plan, before, misread, updates>>

Verified == \A x \in InBlock : flash[x] = Expected[x]

VerifyFlashWrite(readable) ==
  /\ pc = "verify"
  /\ Charge(~readable)
  /\ IF readable /\ Verified THEN Advance ELSE AttemptFails
  /\ UNCHANGED <<flash, cap, plan, before, misread, updates>>

\* The power goes, perhaps in the middle of an erase or a write.
PowerCut ==
  /\ pc # "off"
  /\ Fault
  /\ pc' = "off"
  /\ Idle
  /\ flash' \in IF pc \in {"erase", "write"} THEN {flash, Fill(Garbage)} ELSE {flash}
  /\ UNCHANGED <<cap, plan, Step, bootVars, result, before, misread, updates>>

-----------------------------------------------------------------------------
Programs ==
  \/ EraseBlock \/ WriteBlock
  \/ \E readable \in BOOLEAN : ReadBlock(readable) \/ VerifyFlashWrite(readable)

Next ==
  \/ Boot \/ Reset \/ Reprogram \/ PowerCut
  \/ \E c \in Capsule, fault \in BOOLEAN : SetImageAborts(c, fault)
  \/ \E c \in Capsule, fmapOk, ifdOk \in BOOLEAN : SetImage(c, fmapOk, ifdOk)
  \/ Programs

Spec == Init /\ [][Next]_vars

\* The firmware keeps executing; nobody is assumed to hand over a capsule.
FairSpec == Spec /\ WF_vars(Programs)

-----------------------------------------------------------------------------
(* What an update promises. *)

Selected == UNION {Cells(plan.ranges[i]) : i \in DOMAIN plan.ranges}

\* An update that answers success has put the image into the selected ranges and
\* left every other cell as it was, also in a block that a range shares with a
\* neighbour, whatever had to be retried (UpdateFlashRangeFromImage,
\* FmpDeviceFlashProgramWithRetry).
SuccessIsExact ==
  pc = "up" /\ result = "success" =>
    \A x \in Cell : flash[x] = IF x \in Selected THEN cap.image[x] ELSE before[x]

LiveStore == FindFmapRegion(LoadFlashFmap(before, CapsuleFmap(cap), TRUE), "SMMSTORE")

\* When the plan says that the store is preserved, no cell of it changes at any
\* moment, also not for a while: neither a power cut nor an I/O error loses a
\* variable, although a range may start or end next to the store
\* (VariableStorePreserved, UpdateFlashRangeFromImage).
StoreIsKept == plan.preserved => \A x \in Cells(LiveStore) : flash[x] = before[x]

\* The images have their FMAP in cell p and nowhere else.
OneFmapPlace(p) ==
  /\ \A image \in {Factory} \cup {c.image : c \in Capsule} :
       \A x \in Cell : image[x] \in DOMAIN FmapIn => x = p
  /\ {Erased, Garbage} \cap DOMAIN FmapIn = {}

\* A capsule that replaces the FMAP and keeps clear of the store has the store
\* where the replaced one has it.  Images of one layout do; the writer compares
\* the listed regions only and does not see to it.
MapKeepsStore(p) ==
  \A c \in Capsule, v \in DOMAIN FmapIn :
    LET kept == FindFmapRegion(v, "SMMSTORE")
    IN /\ Listed(c) /\ LayoutMatches(c, v)
       /\ Fits(kept) /\ \A i \in DOMAIN c.names : Cells(Regions(c)[i]) \cap Cells(kept) = {}
       /\ \E i \in DOMAIN c.names : p \in Cells(Regions(c)[i])
       => FindFmapRegion(CapsuleFmap(c), "SMMSTORE") = kept

\* While the variable services are the real ones, the store of the running
\* firmware is as it was when the firmware started: no update of this boot changed
\* it, and none that comes after one that did hands the services back.  An I/O
\* error, after which they stay, is left out, and the maps are those of
\* OneFmapPlace and MapKeepsStore (FmpDeviceShouldDisableVariableServices, and the
\* comment where FmpDeviceSetImageWithStatus calls it).
ServicesHaveTheirStore ==
  pc = "up" /\ services /\ ~failed => \A x \in Cells(store) : flash[x] = booted[x]

\* Progress never passes its end and reaches it exactly on success, with ranges
\* that start and end inside a block or share one
\* (FmpDeviceGetFlashRangeStepCount, IncrementProgress).
ProgressAddsUp ==
  plan # NoPlan =>
    LET all == TotalSteps(plan.ranges)[Len(plan.ranges)]
    IN Step <= all /\ (pc = "up" /\ result = "success" => Step = all)

\* Applying what is already there never erases anything, so a cut during a
\* repeated update is harmless, unless a block could not be read
\* (UpdateFlashRangeFromImage's comparison).
RepeatIsHarmless ==
  plan # NoPlan /\ ~misread /\ (\A x \in Selected : before[x] = cap.image[x]) =>
    flash = before

\* The most operations that an attempt, and a block with its first read, can take.
PerAttempt == 2 * RetryCount + 1
PerBlock == RetryCount * PerAttempt + 1

\* The most that are left at the block, and with those of the blocks after it.
AtBlock ==
  LET attempts == (RetryCount - 1 - Attempt) * PerAttempt
  IN CASE pc = "block" -> PerBlock
       [] pc = "erase" -> attempts + 2 * RetryCount - tries + 1
       [] pc = "write" -> attempts + RetryCount - tries + 1
       [] pc = "verify" -> attempts + 1

OperationsLeft ==
  IF pc \in Programming
    THEN ((TotalSteps(plan.ranges)[Len(plan.ranges)] - Step) \div 2 - 1) * PerBlock + AtBlock
    ELSE 0

\* An update does no more reads, erases and writes than its blocks and the retries
\* of the two nested loops allow, whichever of them fail: each one it does leaves
\* fewer (FmpDeviceFlashProgramWithRetry).
OperationsRunOut ==
  [][Programs => OperationsLeft \in Nat /\ OperationsLeft' < OperationsLeft]_vars

\* An update ends, with success or an error, also on a block that never takes
\* an erase (FMP_DEVICE_SMM_FLASH_RETRY_COUNT in both loops).
UpdateEnds == pc \in Programming ~> pc \notin Programming

=============================================================================
