SPECIFICATION HostSpec

CONSTANTS
  Target = {"Pxe", "Hdd", "BiosSetup", "Usb"}
  Options <- MCOptions
  NUC_REDFISH_MEDIA_RETRIES = 2
  PatchTries = 2
  MaxRequests = 3
  MaxFaults = 1

INVARIANT ResetsPaidFor
INVARIANT StagedAsAsked
INVARIANT OneExchangePerBoot
PROPERTY OneShot
PROPERTY FailOpen
PROPERTY RequestSettles
