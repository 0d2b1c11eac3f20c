--------------------------- MODULE MCCapsuleOnDisk ---------------------------
(***************************************************************************)
(* CapsuleOnDisk on small drop boxes: the BMC's volume, which can be       *)
(* written, and a read-only one.                                           *)
(***************************************************************************)
EXTENDS CapsuleOnDisk, TLC

CONSTANTS up, blind, note, iso, bmc, cd

\* up is an upgrade and blind a capsule without a payload header the scanner
\* can find, both on the BMC's volume; note is a file there that is no
\* capsule; iso is a newer upgrade on the read-only volume.
MCFile == {up, blind, note, iso}
MCVolume == {bmc, cd}
MCVolumeOf == (up :> bmc) @@ (blind :> bmc) @@ (note :> bmc) @@ (iso :> cd)
MCVersionOf == (up :> 2) @@ (blind :> 2) @@ (note :> 0) @@ (iso :> 3)
MCHasPayloadHeader == {up, iso}
MCCapsules == {up, blind, iso}

\* Two capsules for the run of one claim.
MCTwoFiles == {up, iso}
MCTwoVolumeOf == (up :> bmc) @@ (iso :> cd)
MCTwoVersionOf == (up :> 2) @@ (iso :> 3)
=============================================================================
