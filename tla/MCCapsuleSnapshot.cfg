SPECIFICATION Spec

CONSTANTS
  File <- MCTwoFiles
  Volume <- MCVolume
  VolumeOf <- MCTwoVolumeOf
  ReadOnlyVolume = {cd}
  VersionOf <- MCTwoVersionOf
  HasPayloadHeader <- MCTwoFiles
  ValidHeader <- MCTwoFiles
  Candidate <- MCTwoFiles
  Factory = Factory
  FactoryVersion = 1
  Torn = Torn
  MAX_CAPSULES = 2
  SnapshotCanFail = TRUE
  StatusWriteCanFail = FALSE
  StoreCanBeDown = TRUE
  MaxStagings = 2
  MaxFaults = 1
  up = up
  blind = blind
  note = note
  iso = iso
  bmc = bmc
  cd = cd

INVARIANT AppliedIsProven
