SPECIFICATION FairSpec

CONSTANTS
  BlockSize = 2
  FlashSize = 14
  Value = {"ff", "garbage", "ifd", "other", "map", "moved", "mrc", "vars", "log", "old", "new", "same"}
  FmapIn <- MCFmapIn
  IfdIn <- MCIfdIn
  Capsule <- MCCapsule
  Factory <- MCFactory
  Erased = "ff"
  Garbage = "garbage"
  Locked = {0}
  FMP_DEVICE_SMM_FLASH_RETRY_COUNT = 2
  MaxUpdates = 2
  MaxFaults = 4

INVARIANT SuccessIsExact
INVARIANT StoreIsKept
INVARIANT ServicesHaveTheirStore
INVARIANT ProgressAddsUp
INVARIANT RepeatIsHarmless
PROPERTY OperationsRunOut
PROPERTY UpdateEnds
