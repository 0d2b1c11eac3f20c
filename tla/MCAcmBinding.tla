----------------------------- MODULE MCAcmBinding -----------------------------
(* The BMC's device with an ACM and a network function, next to an adapter *)
(* with a data interface of its own.                                       *)
EXTENDS AcmBinding

CONSTANTS p1, p2, adapter, acmCtrl, acmData, nicCtrl, nicData

MCCtx == {p1, p2}
MCIface == {adapter, acmCtrl, acmData, nicCtrl, nicData}
MCGadget == MCIface \ {adapter}
MCNumber == [i \in MCIface |->
  CASE i = adapter -> 0 [] i = nicCtrl -> 1 [] i = nicData -> 2 [] i = acmCtrl -> 3
    [] i = acmData -> 4]
MCClass == [i \in MCIface |->
  CASE i = acmCtrl -> "acm" [] i = nicCtrl -> "nic" [] OTHER -> "data"]
MCNicData == {nicData}
MCBulk == {adapter, acmData, nicData}
=============================================================================
