--------------------------- MODULE MCRedfishQuiesce ---------------------------
(***************************************************************************)
(* RedfishQuiesce with the sync driver and two feature drivers, the        *)
(* EthernetInterface resource and its collection.                          *)
(***************************************************************************)
EXTENDS RedfishQuiesce
=============================================================================
