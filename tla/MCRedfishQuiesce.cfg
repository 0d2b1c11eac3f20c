SPECIFICATION Spec

CONSTANTS
  Handler = {sync, eth, collection}
  Sync = {sync}
  MaxUnplugs = 2

INVARIANT LoaderIsCovered
INVARIANT NothingHeld
INVARIANT ProvisioningIsWhole

CHECK_DEADLOCK FALSE
