------------------------- MODULE CapsuleOnDiskProofs -------------------------
(***************************************************************************)
(* Theorems about CapsuleOnDisk, for any files, volumes, versions and      *)
(* bounds.                                                                 *)
(***************************************************************************)
EXTENDS CapsuleOnDisk, FiniteSetTheorems, TLAPS

Applying == {"update", "write", "status", "judge", "delete"}

\* Next, one disjunct per line, for the case splits below.
LEMMA NextCases ==
  ASSUME Next
  PROVE  \/ PowerOn
         \/ OnReadyToBootIdle
         \/ OnReadyToBootScan
         \/ OnReadyToBootAgain
         \/ \E v \in Volume : ProcessDropBox(v)
         \/ DropBoxDone
         \/ ScanResets
         \/ ScanCarriesOn
         \/ \E f \in File : ApplyCannotRead(f)
         \/ \E f \in File : ApplySkips(f)
         \/ \E f \in File : ApplyStarts(f)
         \/ FmpRefuses
         \/ FmpRecordsVersion
         \/ FmpWritesFlash
         \/ FmpRecordsStatus
         \/ ApplyConfirmed
         \/ ApplyUnconfirmed
         \/ ApplyDeletes
         \/ ApplyDeleteFails
         \/ BootOption
         \/ \E f \in File : Stage(f)
         \/ Shutdown
         \/ PowerFails
         \/ ExternalReflash
BY Zenon DEF Next, ReadyToBoot, Scan, Apply, Environment

LEMMA NoRecordType == NoRecord \in Record
BY DEF NoRecord, Record, Status

LEMMA TypeInit == Init => TypeOK
<1>1. 0 \in Nat
  OBVIOUS
<1> QED
  BY <1>1, ConstantsAssumption, NoRecordType, Zenon
  DEF Init, TypeOK, Image, Status, Places, ScanSteps

LEMMA TypeStep == TypeOK /\ [Next]_vars => TypeOK'
<1> SUFFICES ASSUME TypeOK, [Next]_vars PROVE TypeOK'
  OBVIOUS
<1> USE ConstantsAssumption, NoRecordType DEF TypeOK, Image, Status, Places, ScanSteps,
        flashVars, bootVars, scanVars, applyVars, histVars
<1>0. CASE UNCHANGED vars
  BY <1>0 DEF vars
<1>1. CASE PowerOn
  BY <1>1 DEF PowerOn
<1>2. CASE OnReadyToBootIdle
  BY <1>2 DEF OnReadyToBootIdle, AdvertiseFileCapsuleDelivery, ClearFileCapsuleIndication
<1>3. CASE OnReadyToBootScan
  BY <1>3 DEF OnReadyToBootScan, AdvertiseFileCapsuleDelivery
<1>4. CASE OnReadyToBootAgain
  BY <1>4 DEF OnReadyToBootAgain, vars
<1>5. ASSUME NEW v \in Volume, ProcessDropBox(v) PROVE TypeOK'
  BY <1>5 DEF ProcessDropBox, Capsules
<1>6. CASE DropBoxDone
  BY <1>6 DEF DropBoxDone
<1>7. CASE ScanResets
  <2>1. osInd' \in BOOLEAN
    BY <1>7, Zenon DEF ScanResets, ClearFileCapsuleIndication
  <2>2. resets' \in Nat
    BY <1>7 DEF ScanResets
  <2> QED
    BY <1>7, <2>1, <2>2 DEF ScanResets, LosePower
<1>8. CASE ScanCarriesOn
  BY <1>8 DEF ScanCarriesOn, ClearFileCapsuleIndication
<1>9. ASSUME NEW f \in File, ApplyCannotRead(f) PROVE TypeOK'
  BY <1>9 DEF ApplyCannotRead, NotApplied
<1>10. ASSUME NEW f \in File, ApplySkips(f) PROVE TypeOK'
  BY <1>10 DEF ApplySkips, NotApplied
<1>11. ASSUME NEW f \in File, ApplyStarts(f) PROVE TypeOK'
  BY <1>11 DEF ApplyStarts, Openable, SnapshotTaken, LastAttempt
<1>12. CASE FmpRefuses
  BY <1>12 DEF FmpRefuses, NotApplied, Record
<1>13. CASE FmpRecordsVersion
  BY <1>13 DEF FmpRecordsVersion, Record
<1>14. CASE FmpWritesFlash
  BY <1>14 DEF FmpWritesFlash
<1>15. CASE FmpRecordsStatus
  BY <1>15 DEF FmpRecordsStatus, Record
<1>16. CASE ApplyConfirmed
  BY <1>16 DEF ApplyConfirmed
<1>17. CASE ApplyUnconfirmed
  BY <1>17 DEF ApplyUnconfirmed, NotApplied
<1>18. CASE ApplyDeletes
  BY <1>18 DEF ApplyDeletes
<1>19. CASE ApplyDeleteFails
  BY <1>19 DEF ApplyDeleteFails, NotApplied
<1>20. CASE BootOption
  BY <1>20 DEF BootOption
<1>21. ASSUME NEW f \in File, Stage(f) PROVE TypeOK'
  <2>1. osInd' \in BOOLEAN
    BY <1>21, Zenon DEF Stage
  <2> QED
    BY <1>21, <2>1 DEF Stage
<1>22. CASE Shutdown
  BY <1>22 DEF Shutdown, LosePower
<1>23. CASE PowerFails
  <2>1. flash' \in Image \cup {Torn}
    BY <1>23, Zenon DEF PowerFails
  <2>2. faults' \in Nat
    BY <1>23 DEF PowerFails
  <2> QED
    BY <1>23, <2>1, <2>2 DEF PowerFails, LosePower
<1>24. CASE ExternalReflash
  BY <1>24 DEF ExternalReflash
<1> QED
  BY NextCases, <1>0, <1>1, <1>2, <1>3, <1>4, <1>5, <1>6, <1>7, <1>8, <1>9, <1>10,
     <1>11, <1>12, <1>13, <1>14, <1>15, <1>16, <1>17, <1>18, <1>19, <1>20, <1>21,
     <1>22, <1>23, <1>24, Zenon

\* Every behaviour of the scanner and its machine keeps the types of its state
\* (all of NucCapsuleOnDiskLib.c).
THEOREM Typing == Spec => []TypeOK
BY TypeInit, TypeStep, PTL DEF Spec

-----------------------------------------------------------------------------
(* AppliedIsProven. *)

\* Why the record can be trusted at each step of an attempt: the snapshot is
\* still what the FMP reports when UpdateCapsule() is entered; a device that
\* returned success has written the image; and a record that has changed into
\* a success can then only come from such a device.
ProofInv ==
  /\ pc = "update" => HaveBefore /\ before = LastAttempt
  /\ pc = "status" /\ outcome = "success" => flash = file
  /\ pc = "judge" /\ RecordProvesApply => flash = file
  /\ AppliedIsProven

LEMMA ProofInvStep ==
  ASSUME ~SnapshotCanFail, ~StatusWriteCanFail, TypeOK, ProofInv, [Next]_vars
  PROVE  ProofInv'
<1> USE DEF ProofInv, AppliedIsProven, flashVars, bootVars, scanVars, applyVars, histVars
<1>0. CASE UNCHANGED vars
  BY <1>0 DEF vars, LastAttempt, RecordProvesApply
<1>1. CASE PowerOn
  BY <1>1 DEF PowerOn
<1>2. CASE OnReadyToBootIdle
  BY <1>2 DEF OnReadyToBootIdle
<1>3. CASE OnReadyToBootScan
  BY <1>3 DEF OnReadyToBootScan
<1>4. CASE OnReadyToBootAgain
  BY <1>4 DEF OnReadyToBootAgain, vars, LastAttempt, RecordProvesApply
<1>5. ASSUME NEW v \in Volume, ProcessDropBox(v) PROVE ProofInv'
  BY <1>5 DEF ProcessDropBox
<1>6. CASE DropBoxDone
  BY <1>6 DEF DropBoxDone
<1>7. CASE ScanResets
  BY <1>7 DEF ScanResets, LosePower
<1>8. CASE ScanCarriesOn
  BY <1>8 DEF ScanCarriesOn
<1>9. ASSUME NEW f \in File, ApplyCannotRead(f) PROVE ProofInv'
  BY <1>9 DEF ApplyCannotRead
<1>10. ASSUME NEW f \in File, ApplySkips(f) PROVE ProofInv'
  BY <1>10 DEF ApplySkips
<1>11. ASSUME NEW f \in File, ApplyStarts(f) PROVE ProofInv'
  BY <1>11 DEF ApplyStarts, SnapshotTaken, LastAttempt
<1>12. CASE FmpRefuses
  BY <1>12 DEF FmpRefuses, LastAttempt, RecordProvesApply, NoRecord
<1>13. CASE FmpRecordsVersion
  BY <1>13 DEF FmpRecordsVersion
<1>14. CASE FmpWritesFlash
  BY <1>14 DEF FmpWritesFlash
<1>15. CASE FmpRecordsStatus
  BY <1>15 DEF FmpRecordsStatus, LastAttempt, RecordProvesApply, NoRecord, TypeOK, Status
<1>16. CASE ApplyConfirmed
  BY <1>16 DEF ApplyConfirmed
<1>17. CASE ApplyUnconfirmed
  BY <1>17 DEF ApplyUnconfirmed
<1>18. CASE ApplyDeletes
  BY <1>18 DEF ApplyDeletes
<1>19. CASE ApplyDeleteFails
  BY <1>19 DEF ApplyDeleteFails
<1>20. CASE BootOption
  BY <1>20 DEF BootOption
<1>21. ASSUME NEW f \in File, Stage(f) PROVE ProofInv'
  BY <1>21 DEF Stage
<1>22. CASE Shutdown
  BY <1>22 DEF Shutdown, LosePower
<1>23. CASE PowerFails
  BY <1>23 DEF PowerFails, LosePower
<1>24. CASE ExternalReflash
  BY <1>24 DEF ExternalReflash
<1> QED
  BY NextCases, <1>0, <1>1, <1>2, <1>3, <1>4, <1>5, <1>6, <1>7, <1>8, <1>9, <1>10,
     <1>11, <1>12, <1>13, <1>14, <1>15, <1>16, <1>17, <1>18, <1>19, <1>20, <1>21,
     <1>22, <1>23, <1>24, Zenon

\* With a readable FMP and a record whose two halves are both written or both
\* not, no capsule is reported applied unless the chip holds its image: the
\* guards after UpdateCapsule() in ApplyOneCapsule are sound for any drop box
\* and any sequence of boots, refusals, failed writes and power losses.
THEOREM AppliedProven ==
  ASSUME ~SnapshotCanFail, ~StatusWriteCanFail
  PROVE  Spec => []AppliedIsProven
<1>1. Init => ProofInv
  BY DEF Init, ProofInv, AppliedIsProven
<1>2. TypeOK /\ ProofInv /\ [Next]_vars => ProofInv'
  BY ProofInvStep
<1>3. ProofInv => AppliedIsProven
  BY DEF ProofInv
<1> QED
  BY <1>1, <1>2, <1>3, Typing, PTL DEF Spec

-----------------------------------------------------------------------------
(* LoopBreaker. *)

\* The collected names are still on their volumes, the file being applied is
\* too and is not among them, and a success not yet paid back by a reset has
\* its own share of the capsules that are gone.
Owed == IF Applied > 0 THEN 1 ELSE 0

BreakInv ==
  /\ names \subseteq staged
  /\ pc \in Applying => file \in staged \ names
  /\ pc \in {"off", "bds", "os"} => Applied = 0
  /\ resets + Cardinality(staged) + Owed <= stagings

LEMMA StagedFinite ==
  ASSUME TypeOK
  PROVE  IsFiniteSet(staged) /\ Cardinality(staged) \in Nat
BY ConstantsAssumption, FS_Subset, FS_CardinalityType DEF TypeOK

LEMMA RemoveOne ==
  ASSUME TypeOK, NEW f, f \in staged
  PROVE  Cardinality(staged \ {f}) = Cardinality(staged) - 1
BY StagedFinite, FS_RemoveElement

LEMMA BreakInvStep == TypeOK /\ BreakInv /\ [Next]_vars => BreakInv'
<1> SUFFICES ASSUME TypeOK, BreakInv, [Next]_vars PROVE BreakInv'
  OBVIOUS
<1> USE DEF Applying, flashVars, bootVars, scanVars, applyVars, histVars
<1>a. /\ Cardinality(staged) \in Nat
      /\ Applied \in Nat /\ resets \in Nat /\ stagings \in Nat
  BY StagedFinite DEF TypeOK
<1>0. CASE UNCHANGED vars
  BY <1>0 DEF vars, BreakInv, Owed
<1>1. CASE PowerOn
  BY <1>1, <1>a DEF PowerOn, BreakInv, Owed
<1>2. CASE OnReadyToBootIdle
  BY <1>2, <1>a DEF OnReadyToBootIdle, BreakInv, Owed
<1>3. CASE OnReadyToBootScan
  BY <1>3, <1>a DEF OnReadyToBootScan, BreakInv, Owed
<1>4. CASE OnReadyToBootAgain
  BY <1>4, <1>a DEF OnReadyToBootAgain, vars, BreakInv, Owed
<1>5. ASSUME NEW v \in Volume, ProcessDropBox(v) PROVE BreakInv'
  BY <1>5 DEF ProcessDropBox, Capsules, BreakInv, Owed
<1>6. CASE DropBoxDone
  BY <1>6, <1>a DEF DropBoxDone, BreakInv, Owed
<1>7. CASE ScanResets
  BY <1>7, <1>a DEF ScanResets, LosePower, BreakInv, Owed
<1>8. CASE ScanCarriesOn
  BY <1>8, <1>a DEF ScanCarriesOn, BreakInv, Owed
<1>9. ASSUME NEW f \in File, ApplyCannotRead(f) PROVE BreakInv'
  BY <1>9 DEF ApplyCannotRead, NotApplied, BreakInv, Owed
<1>10. ASSUME NEW f \in File, ApplySkips(f) PROVE BreakInv'
  <2>1. f \in staged
    BY <1>10 DEF ApplySkips, BreakInv
  <2>2. CASE staged' = staged
    BY <1>10, <2>2 DEF ApplySkips, NotApplied, BreakInv, Owed
  <2>3. CASE staged' = staged \ {f}
    BY <1>10, <1>a, <2>1, <2>3, RemoveOne DEF ApplySkips, NotApplied, BreakInv, Owed
  <2> QED
    BY <1>10, <2>2, <2>3 DEF ApplySkips
<1>11. ASSUME NEW f \in File, ApplyStarts(f) PROVE BreakInv'
  BY <1>11, <1>a DEF ApplyStarts, BreakInv, Owed
<1>12. CASE FmpRefuses
  BY <1>12 DEF FmpRefuses, NotApplied, BreakInv, Owed
<1>13. CASE FmpRecordsVersion
  BY <1>13, <1>a DEF FmpRecordsVersion, BreakInv, Owed
<1>14. CASE FmpWritesFlash
  BY <1>14, <1>a DEF FmpWritesFlash, BreakInv, Owed
<1>15. CASE FmpRecordsStatus
  BY <1>15, <1>a DEF FmpRecordsStatus, BreakInv, Owed
<1>16. CASE ApplyConfirmed
  BY <1>16, <1>a DEF ApplyConfirmed, BreakInv, Owed
<1>17. CASE ApplyUnconfirmed
  BY <1>17 DEF ApplyUnconfirmed, NotApplied, BreakInv, Owed
<1>18. CASE ApplyDeletes
  <2>1. file \in staged
    BY <1>18 DEF ApplyDeletes, BreakInv
  <2>2. Cardinality(staged') = Cardinality(staged) - 1
    BY <1>18, <2>1, RemoveOne DEF ApplyDeletes
  <2> QED
    BY <1>18, <1>a, <2>2 DEF ApplyDeletes, BreakInv, Owed
<1>19. CASE ApplyDeleteFails
  BY <1>19 DEF ApplyDeleteFails, NotApplied, BreakInv, Owed
<1>20. CASE BootOption
  BY <1>20, <1>a DEF BootOption, BreakInv, Owed
<1>21. ASSUME NEW f \in File, Stage(f) PROVE BreakInv'
  <2>1. Cardinality(staged') = Cardinality(staged) + 1
    BY <1>21, StagedFinite, FS_AddElement DEF Stage
  <2> QED
    BY <1>21, <1>a, <2>1 DEF Stage, BreakInv, Owed
<1>22. CASE Shutdown
  BY <1>22, <1>a DEF Shutdown, LosePower, BreakInv, Owed
<1>23. CASE PowerFails
  BY <1>23, <1>a DEF PowerFails, LosePower, BreakInv, Owed
<1>24. CASE ExternalReflash
  BY <1>24, <1>a DEF ExternalReflash, BreakInv, Owed
<1> QED
  BY NextCases, <1>0, <1>1, <1>2, <1>3, <1>4, <1>5, <1>6, <1>7, <1>8, <1>9, <1>10,
     <1>11, <1>12, <1>13, <1>14, <1>15, <1>16, <1>17, <1>18, <1>19, <1>20, <1>21,
     <1>22, <1>23, <1>24, Zenon

\* For any drop boxes, media and failures of deletes, each cold reset of the
\* scanner has cost one staged capsule (OnReadyToBoot, ApplyOneCapsule), so
\* the resets of a machine are bounded by what was staged on it.
THEOREM ResetsArePaidFor == Spec => []LoopBreaker
<1>1. Init => BreakInv
  BY FS_EmptySet DEF Init, BreakInv, Owed, Applying
<1>2. TypeOK /\ BreakInv => LoopBreaker
  <2> SUFFICES ASSUME TypeOK, BreakInv PROVE LoopBreaker
    OBVIOUS
  <2> QED
    BY StagedFinite DEF TypeOK, BreakInv, Owed, LoopBreaker
<1> QED
  BY <1>1, <1>2, BreakInvStep, Typing, PTL DEF Spec

-----------------------------------------------------------------------------
(* RemovalJustified. *)

\* The file being applied came through the candidate and the header tests.
FileInv == pc \in Applying => file \in Candidate \cap ValidHeader

LEMMA FileInvStep == TypeOK /\ FileInv /\ [Next]_vars => FileInv'
<1> SUFFICES ASSUME TypeOK, FileInv, [Next]_vars PROVE FileInv'
  OBVIOUS
<1> USE DEF FileInv, Applying, flashVars, bootVars, scanVars, applyVars, histVars
<1>0. CASE UNCHANGED vars
  BY <1>0 DEF vars
<1>1. CASE PowerOn
  BY <1>1 DEF PowerOn
<1>2. CASE OnReadyToBootIdle
  BY <1>2 DEF OnReadyToBootIdle
<1>3. CASE OnReadyToBootScan
  BY <1>3 DEF OnReadyToBootScan
<1>4. CASE OnReadyToBootAgain
  BY <1>4 DEF OnReadyToBootAgain, vars
<1>5. ASSUME NEW v \in Volume, ProcessDropBox(v) PROVE FileInv'
  BY <1>5 DEF ProcessDropBox
<1>6. CASE DropBoxDone
  BY <1>6 DEF DropBoxDone
<1>7. CASE ScanResets
  BY <1>7 DEF ScanResets, LosePower
<1>8. CASE ScanCarriesOn
  BY <1>8 DEF ScanCarriesOn
<1>9. ASSUME NEW f \in File, ApplyCannotRead(f) PROVE FileInv'
  BY <1>9 DEF ApplyCannotRead
<1>10. ASSUME NEW f \in File, ApplySkips(f) PROVE FileInv'
  BY <1>10 DEF ApplySkips
<1>11. ASSUME NEW f \in File, ApplyStarts(f) PROVE FileInv'
  BY <1>11 DEF ApplyStarts, TypeOK
<1>12. CASE FmpRefuses
  BY <1>12 DEF FmpRefuses
<1>13. CASE FmpRecordsVersion
  BY <1>13 DEF FmpRecordsVersion
<1>14. CASE FmpWritesFlash
  BY <1>14 DEF FmpWritesFlash
<1>15. CASE FmpRecordsStatus
  BY <1>15 DEF FmpRecordsStatus
<1>16. CASE ApplyConfirmed
  BY <1>16 DEF ApplyConfirmed
<1>17. CASE ApplyUnconfirmed
  BY <1>17 DEF ApplyUnconfirmed
<1>18. CASE ApplyDeletes
  BY <1>18 DEF ApplyDeletes
<1>19. CASE ApplyDeleteFails
  BY <1>19 DEF ApplyDeleteFails
<1>20. CASE BootOption
  BY <1>20 DEF BootOption
<1>21. ASSUME NEW f \in File, Stage(f) PROVE FileInv'
  BY <1>21 DEF Stage
<1>22. CASE Shutdown
  BY <1>22 DEF Shutdown, LosePower
<1>23. CASE PowerFails
  BY <1>23 DEF PowerFails, LosePower
<1>24. CASE ExternalReflash
  BY <1>24 DEF ExternalReflash
<1> QED
  BY NextCases, <1>0, <1>1, <1>2, <1>3, <1>4, <1>5, <1>6, <1>7, <1>8, <1>9, <1>10,
     <1>11, <1>12, <1>13, <1>14, <1>15, <1>16, <1>17, <1>18, <1>19, <1>20, <1>21,
     <1>22, <1>23, <1>24, Zenon

LEMMA RemovalSteps ==
  TypeOK /\ AppliedIsProven /\ FileInv /\ [Next]_vars => [RemovalStep]_vars
<1> SUFFICES ASSUME TypeOK, AppliedIsProven, FileInv, Next PROVE RemovalStep
  BY Zenon
<1> USE DEF RemovalStep, flashVars
<1>0. CASE staged' = staged
  BY <1>0
<1>1. CASE PowerOn
  BY <1>1 DEF PowerOn
<1>2. CASE OnReadyToBootIdle
  BY <1>2 DEF OnReadyToBootIdle
<1>3. CASE OnReadyToBootScan
  BY <1>3 DEF OnReadyToBootScan
<1>4. CASE OnReadyToBootAgain
  BY <1>4 DEF OnReadyToBootAgain, vars
<1>5. ASSUME NEW v \in Volume, ProcessDropBox(v) PROVE RemovalStep
  BY <1>5 DEF ProcessDropBox
<1>6. CASE DropBoxDone
  BY <1>6 DEF DropBoxDone
<1>7. CASE ScanResets
  BY <1>7 DEF ScanResets
<1>8. CASE ScanCarriesOn
  BY <1>8 DEF ScanCarriesOn
<1>9. ASSUME NEW f \in File, ApplyCannotRead(f) PROVE RemovalStep
  BY <1>9 DEF ApplyCannotRead
<1>10. ASSUME NEW f \in File, ApplySkips(f) PROVE RemovalStep
  BY <1>10 DEF ApplySkips, AlreadyRunning, TypeOK
<1>11. ASSUME NEW f \in File, ApplyStarts(f) PROVE RemovalStep
  BY <1>11 DEF ApplyStarts
<1>12. CASE FmpRefuses
  BY <1>12 DEF FmpRefuses
<1>13. CASE FmpRecordsVersion
  BY <1>13 DEF FmpRecordsVersion
<1>14. CASE FmpWritesFlash
  BY <1>14 DEF FmpWritesFlash
<1>15. CASE FmpRecordsStatus
  BY <1>15 DEF FmpRecordsStatus
<1>16. CASE ApplyConfirmed
  BY <1>16 DEF ApplyConfirmed
<1>17. CASE ApplyUnconfirmed
  BY <1>17 DEF ApplyUnconfirmed
<1>18. CASE ApplyDeletes
  BY <1>18 DEF ApplyDeletes, FileInv, Applying, AppliedIsProven
<1>19. CASE ApplyDeleteFails
  BY <1>19 DEF ApplyDeleteFails
<1>20. CASE BootOption
  BY <1>20 DEF BootOption
<1>21. ASSUME NEW f \in File, Stage(f) PROVE RemovalStep
  BY <1>21 DEF Stage
<1>22. CASE Shutdown
  BY <1>22 DEF Shutdown
<1>23. CASE PowerFails
  BY <1>23 DEF PowerFails
<1>24. CASE ExternalReflash
  BY <1>24 DEF ExternalReflash
<1> QED
  BY NextCases, <1>0, <1>1, <1>2, <1>3, <1>4, <1>5, <1>6, <1>7, <1>8, <1>9, <1>10,
     <1>11, <1>12, <1>13, <1>14, <1>15, <1>16, <1>17, <1>18, <1>19, <1>20, <1>21,
     <1>22, <1>23, <1>24, Zenon

\* Under the same two assumptions as AppliedProven, a capsule leaves its volume
\* only when its image is in the chip or its version is the running one
\* (ApplyOneCapsule's two deletes); every other outcome leaves it staged.
THEOREM RemovalsAreJustified ==
  ASSUME ~SnapshotCanFail, ~StatusWriteCanFail
  PROVE  Spec => RemovalJustified
<1>1. Init => FileInv
  BY DEF Init, FileInv, Applying
<1> QED
  BY <1>1, FileInvStep, RemovalSteps, Typing, AppliedProven, PTL
  DEF Spec, RemovalJustified
-----------------------------------------------------------------------------
(* OneAttemptPerBoot. *)

\* The latch covers the whole scan, so a boot scans once; within the scan a
\* file is attempted out of a volume that is not visited again, and leaves the
\* collected names as its attempt begins.
AttemptInv ==
  /\ pc = "off" => ~mNucCodScanDone
  /\ pc \in ScanSteps => mNucCodScanDone
  /\ ~mNucCodScanDone => attempted = {}
  /\ pc \notin {"names"} \cup Applying => names = {}
  /\ names \cap attempted = {}
  /\ \A f \in names \cup attempted : pc \in ScanSteps => VolumeOf[f] \notin volumes

LEMMA AttemptInvStep == TypeOK /\ AttemptInv /\ [Next]_vars => AttemptInv'
<1> SUFFICES ASSUME TypeOK, AttemptInv, [Next]_vars PROVE AttemptInv'
  OBVIOUS
<1> USE DEF AttemptInv, Applying, ScanSteps, flashVars, bootVars, scanVars, applyVars, histVars
<1>0. CASE UNCHANGED vars
  BY <1>0 DEF vars
<1>1. CASE PowerOn
  BY <1>1 DEF PowerOn
<1>2. CASE OnReadyToBootIdle
  BY <1>2 DEF OnReadyToBootIdle, ClearFileCapsuleIndication
<1>3. CASE OnReadyToBootScan
  BY <1>3 DEF OnReadyToBootScan
<1>4. CASE OnReadyToBootAgain
  BY <1>4 DEF OnReadyToBootAgain, vars
<1>5. ASSUME NEW v \in Volume, ProcessDropBox(v) PROVE AttemptInv'
  BY <1>5 DEF ProcessDropBox, Capsules
<1>6. CASE DropBoxDone
  BY <1>6 DEF DropBoxDone
<1>7. CASE ScanResets
  BY <1>7 DEF ScanResets, LosePower
<1>8. CASE ScanCarriesOn
  BY <1>8 DEF ScanCarriesOn, ClearFileCapsuleIndication
<1>9. ASSUME NEW f \in File, ApplyCannotRead(f) PROVE AttemptInv'
  BY <1>9 DEF ApplyCannotRead
<1>10. ASSUME NEW f \in File, ApplySkips(f) PROVE AttemptInv'
  BY <1>10 DEF ApplySkips
<1>11. ASSUME NEW f \in File, ApplyStarts(f) PROVE AttemptInv'
  BY <1>11 DEF ApplyStarts
<1>12. CASE FmpRefuses
  BY <1>12 DEF FmpRefuses
<1>13. CASE FmpRecordsVersion
  BY <1>13 DEF FmpRecordsVersion
<1>14. CASE FmpWritesFlash
  BY <1>14 DEF FmpWritesFlash
<1>15. CASE FmpRecordsStatus
  BY <1>15 DEF FmpRecordsStatus
<1>16. CASE ApplyConfirmed
  BY <1>16 DEF ApplyConfirmed
<1>17. CASE ApplyUnconfirmed
  BY <1>17 DEF ApplyUnconfirmed
<1>18. CASE ApplyDeletes
  BY <1>18 DEF ApplyDeletes
<1>19. CASE ApplyDeleteFails
  BY <1>19 DEF ApplyDeleteFails
<1>20. CASE BootOption
  BY <1>20 DEF BootOption
<1>21. ASSUME NEW f \in File, Stage(f) PROVE AttemptInv'
  BY <1>21 DEF Stage
<1>22. CASE Shutdown
  BY <1>22 DEF Shutdown, LosePower
<1>23. CASE PowerFails
  BY <1>23 DEF PowerFails, LosePower
<1>24. CASE ExternalReflash
  BY <1>24 DEF ExternalReflash
<1> QED
  BY NextCases, <1>0, <1>1, <1>2, <1>3, <1>4, <1>5, <1>6, <1>7, <1>8, <1>9, <1>10,
     <1>11, <1>12, <1>13, <1>14, <1>15, <1>16, <1>17, <1>18, <1>19, <1>20, <1>21,
     <1>22, <1>23, <1>24, Zenon

LEMMA AttemptSteps ==
  AttemptInv /\ [Next]_vars => [pc # "update" /\ pc' = "update" => file' \notin attempted]_vars
<1> SUFFICES ASSUME AttemptInv, Next, pc # "update", pc' = "update"
             PROVE  file' \notin attempted
  BY Zenon
<1>1. \/ PowerOn \/ OnReadyToBootIdle \/ OnReadyToBootScan \/ OnReadyToBootAgain
      => FALSE
  BY DEF PowerOn, OnReadyToBootIdle, OnReadyToBootScan, OnReadyToBootAgain, vars
<1>2. \/ BootOption \/ Shutdown \/ PowerFails \/ ExternalReflash
      \/ \E f \in File : Stage(f)
      => FALSE
  BY Zenon DEF BootOption, Shutdown, PowerFails, ExternalReflash, Stage, LosePower
<1>3. \/ DropBoxDone \/ ScanResets \/ ScanCarriesOn \/ \E v \in Volume : ProcessDropBox(v)
      => FALSE
  BY DEF DropBoxDone, ScanResets, ScanCarriesOn, ProcessDropBox, LosePower
<1>4. \/ FmpRefuses \/ FmpRecordsVersion \/ FmpWritesFlash \/ FmpRecordsStatus
      \/ ApplyConfirmed \/ ApplyUnconfirmed \/ ApplyDeletes \/ ApplyDeleteFails
      \/ \E f \in File : ApplyCannotRead(f) \/ ApplySkips(f)
      => FALSE
  BY DEF FmpRefuses, FmpRecordsVersion, FmpWritesFlash, FmpRecordsStatus, ApplyConfirmed,
         ApplyUnconfirmed, ApplyDeletes, ApplyDeleteFails, ApplyCannotRead, ApplySkips
<1>5. \E f \in File : ApplyStarts(f)
  BY NextCases, <1>1, <1>2, <1>3, <1>4, Zenon
<1> QED
  BY <1>5 DEF ApplyStarts, AttemptInv

\* However often BDS signals ReadyToBoot, whichever volumes are found and
\* whatever the FMP does with a file, no boot hands a file to UpdateCapsule()
\* twice (mNucCodScanDone, the names collected before any is applied).
THEOREM AttemptsAreSingle == Spec => OneAttemptPerBoot
<1>1. Init => AttemptInv
  BY DEF Init, AttemptInv, Applying, ScanSteps
<1> QED
  BY <1>1, AttemptInvStep, AttemptSteps, Typing, PTL DEF Spec, OneAttemptPerBoot

-----------------------------------------------------------------------------
(* IndicationConsumed. *)

\* BDS gets past the latch only with the bit cleared, or with a store that
\* cannot be written.
IndicationInv ==
  /\ pc = "off" => ~mNucCodScanDone
  /\ pc = "bds" /\ mNucCodScanDone => ~osInd \/ ~varsUp

LEMMA IndicationInvStep == TypeOK /\ IndicationInv /\ [Next]_vars => IndicationInv'
<1> SUFFICES ASSUME TypeOK, IndicationInv, [Next]_vars PROVE IndicationInv'
  OBVIOUS
<1> USE DEF IndicationInv, flashVars, bootVars, scanVars, applyVars, histVars
<1>0. CASE UNCHANGED vars
  BY <1>0 DEF vars
<1>1. CASE PowerOn
  BY <1>1 DEF PowerOn
<1>2. CASE OnReadyToBootIdle
  BY <1>2, Zenon DEF OnReadyToBootIdle, ClearFileCapsuleIndication
<1>3. CASE OnReadyToBootScan
  BY <1>3 DEF OnReadyToBootScan
<1>4. CASE OnReadyToBootAgain
  BY <1>4 DEF OnReadyToBootAgain, vars
<1>5. ASSUME NEW v \in Volume, ProcessDropBox(v) PROVE IndicationInv'
  BY <1>5 DEF ProcessDropBox, Capsules
<1>6. CASE DropBoxDone
  BY <1>6 DEF DropBoxDone
<1>7. CASE ScanResets
  BY <1>7 DEF ScanResets, LosePower
<1>8. CASE ScanCarriesOn
  BY <1>8, Zenon DEF ScanCarriesOn, ClearFileCapsuleIndication
<1>9. ASSUME NEW f \in File, ApplyCannotRead(f) PROVE IndicationInv'
  BY <1>9 DEF ApplyCannotRead
<1>10. ASSUME NEW f \in File, ApplySkips(f) PROVE IndicationInv'
  BY <1>10 DEF ApplySkips
<1>11. ASSUME NEW f \in File, ApplyStarts(f) PROVE IndicationInv'
  BY <1>11 DEF ApplyStarts
<1>12. CASE FmpRefuses
  BY <1>12 DEF FmpRefuses
<1>13. CASE FmpRecordsVersion
  BY <1>13 DEF FmpRecordsVersion
<1>14. CASE FmpWritesFlash
  BY <1>14 DEF FmpWritesFlash
<1>15. CASE FmpRecordsStatus
  BY <1>15 DEF FmpRecordsStatus
<1>16. CASE ApplyConfirmed
  BY <1>16 DEF ApplyConfirmed
<1>17. CASE ApplyUnconfirmed
  BY <1>17 DEF ApplyUnconfirmed
<1>18. CASE ApplyDeletes
  BY <1>18 DEF ApplyDeletes
<1>19. CASE ApplyDeleteFails
  BY <1>19 DEF ApplyDeleteFails
<1>20. CASE BootOption
  BY <1>20 DEF BootOption
<1>21. ASSUME NEW f \in File, Stage(f) PROVE IndicationInv'
  BY <1>21, Zenon DEF Stage
<1>22. CASE Shutdown
  BY <1>22 DEF Shutdown, LosePower
<1>23. CASE PowerFails
  BY <1>23 DEF PowerFails, LosePower
<1>24. CASE ExternalReflash
  BY <1>24 DEF ExternalReflash
<1> QED
  BY NextCases, <1>0, <1>1, <1>2, <1>3, <1>4, <1>5, <1>6, <1>7, <1>8, <1>9, <1>10,
     <1>11, <1>12, <1>13, <1>14, <1>15, <1>16, <1>17, <1>18, <1>19, <1>20, <1>21,
     <1>22, <1>23, <1>24, Zenon

LEMMA IndicationSteps ==
  IndicationInv /\ [Next]_vars => [pc = "bds" /\ pc' = "os" => ~osInd \/ ~varsUp]_vars
<1> SUFFICES ASSUME IndicationInv, Next, pc = "bds", pc' = "os"
             PROVE  ~osInd \/ ~varsUp
  BY Zenon
<1>1. BootOption
  BY NextCases
  DEF PowerOn, OnReadyToBootIdle, OnReadyToBootScan, OnReadyToBootAgain, ProcessDropBox,
      DropBoxDone, ScanResets, ScanCarriesOn, ApplyCannotRead, ApplySkips, ApplyStarts,
      FmpRefuses, FmpRecordsVersion, FmpWritesFlash, FmpRecordsStatus, ApplyConfirmed,
      ApplyUnconfirmed, ApplyDeletes, ApplyDeleteFails, Stage, Shutdown, PowerFails,
      ExternalReflash, LosePower, vars
<1> QED
  BY <1>1 DEF BootOption, IndicationInv

\* A boot option starts only after the delivery request was taken out of
\* OsIndications, on the idle exit and on the scan's, unless the store cannot
\* be written (OnReadyToBoot, ClearFileCapsuleIndication).
THEOREM IndicationIsConsumed == Spec => IndicationConsumed
<1>1. Init => IndicationInv
  BY DEF Init, IndicationInv
<1> QED
  BY <1>1, IndicationInvStep, IndicationSteps, Typing, PTL DEF Spec, IndicationConsumed
=============================================================================
