---------------------------- MODULE MCBootOverride ----------------------------
(***************************************************************************)
(* BootOverride with the options of this board in an order that puts the   *)
(* BMC's USB NIC before the disk, the setup application and the onboard    *)
(* NIC.                                                                    *)
(***************************************************************************)
EXTENDS BootOverride

MCOptions ==
  << [app |-> FALSE, nodes |-> {"usb", "mac"}],
     [app |-> FALSE, nodes |-> {"storage"}],
     [app |-> TRUE, nodes |-> {}],
     [app |-> FALSE, nodes |-> {"mac"}] >>
=============================================================================
