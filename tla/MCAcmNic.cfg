SPECIFICATION Spec
CONSTANTS
  p1 = p1
  p2 = p2
  adapter = adapter
  acmCtrl = acmCtrl
  acmData = acmData
  nicCtrl = nicCtrl
  nicData = nicData
  Ctx <- MCCtx
  Iface <- MCIface
  Number <- MCNumber
  Class <- MCClass
  Gadget <- MCGadget
  NicData <- MCNicData
  Bulk <- MCBulk
  Timeout = {0, 173}
  MaxFaults = 0
  MaxEvents = 2
INVARIANT NeverStealsFromNic
