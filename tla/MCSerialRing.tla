----------------------------- MODULE MCSerialRing -----------------------------
(***************************************************************************)
(* SerialRing with a ring of four slots.                                   *)
(***************************************************************************)
EXTENDS SerialRing, TLC

MCReadAndReset == ("application" :> {"Read", "Reset"}) @@ ("notify" :> {"Read"})
MCResetBelowRead == ("application" :> {"Reset"}) @@ ("notify" :> {"Read"})
=============================================================================
