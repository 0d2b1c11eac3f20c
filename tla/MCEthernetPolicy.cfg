SPECIFICATION FairSpec

CONSTANTS
  Nic = {"lan", "gadget"}
  Usb = {"gadget"}
  NoMac = {}
  NoPath = {}
  Text <- MCText
  Ip <- MCIp
  Unicast <- MCUnicast
  Member = {"eth0", "eth1"}
  Body <- MCBody
  SetupConfig <- MCSetupConfig
  Known <- MCKnown
  OwnIp4 <- MCOwnIp4
  MaxWrites = 1
  MaxFaults = 1

INVARIANT OsRunsApplied
INVARIANT OsRunsAgreed
INVARIANT EtagIsHonest
INVARIANT NoBootLoop
PROPERTY BmcLinkUntouched
PROPERTY NeverDuplicates
PROPERTY ClientWritesAreTaken
PROPERTY ChangeIsApplied
PROPERTY AgreementSettles
