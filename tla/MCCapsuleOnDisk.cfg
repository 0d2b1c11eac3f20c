SPECIFICATION FairSpec

CONSTANTS
  File <- MCFile
  Volume <- MCVolume
  VolumeOf <- MCVolumeOf
  ReadOnlyVolume = {cd}
  VersionOf <- MCVersionOf
  HasPayloadHeader <- MCHasPayloadHeader
  ValidHeader <- MCCapsules
  Candidate <- MCCapsules
  Factory = Factory
  FactoryVersion = 1
  Torn = Torn
  MAX_CAPSULES = 2
  SnapshotCanFail = FALSE
  StatusWriteCanFail = FALSE
  StoreCanBeDown = TRUE
  MaxStagings = 2
  MaxFaults = 1
  up = up
  blind = blind
  note = note
  iso = iso
  bmc = bmc
  cd = cd

INVARIANT AppliedIsProven
INVARIANT LoopBreaker
PROPERTY RemovalJustified
PROPERTY OneAttemptPerBoot
PROPERTY IndicationConsumed
PROPERTY BootSettles
