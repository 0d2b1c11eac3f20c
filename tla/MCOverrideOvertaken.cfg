SPECIFICATION Spec

CONSTANTS
  Target = {"Pxe", "Usb"}
  Options <- MCOptions
  NUC_REDFISH_MEDIA_RETRIES = 2
  PatchTries = 2
  MaxRequests = 2
  MaxFaults = 1

PROPERTY ConsumedIsRead
