----------------------------- MODULE MCFlashUpdate -----------------------------
(***************************************************************************)
(* FlashUpdate on board.fmd in small: two cells to a block, the descriptor *)
(* in block 0, then RW_MRC_CACHE, SMMSTORE, FMAP, CONSOLE and COREBOOT,    *)
(* which shares a block with CONSOLE as on the board.                      *)
(***************************************************************************)
EXTENDS FlashUpdate, TLC

At(o, s) == [off |-> o, size |-> s]

Board ==
  [BIOS |-> At(2, 11), RW_MRC_CACHE |-> At(2, 2), SMMSTORE |-> At(4, 2),
   FMAP |-> At(6, 1), CONSOLE |-> At(7, 2), COREBOOT |-> At(9, 3), TAIL |-> At(11, 2)]

\* The store and the boot region elsewhere.
Moved == [Board EXCEPT !["SMMSTORE"] = At(8, 2), !["COREBOOT"] = At(10, 2)]

MCFmapIn == "map" :> Board @@ "moved" :> Moved
MCIfdIn == "ifd" :> At(2, 12) @@ "other" :> At(4, 10)

\* An image: descriptor, FMAP, the content of the boot region.
Built(ifd, fmap, code) ==
  [x \in Cell |->
     CASE x \in {0, 1} -> ifd
       [] x = 6 -> fmap
       [] x \in {9, 10, 11} -> IF x = 10 THEN "same" ELSE code
       [] OTHER -> "ff"]

MCFactory == [x \in Cell |-> CASE x \in {2, 3} -> "mrc"
                               [] x \in {4, 5} -> "vars"
                               [] x \in {7, 8} -> "log"
                               [] OTHER -> Built("ifd", "map", "old")[x]]

Cap(image, rmap, names) ==
  [image |-> image, rmap |-> rmap, names |-> names, version |-> 1, size |-> FlashSize]

New == Built("ifd", "map", "new")

MCCapsule ==
  {Cap(New, TRUE, <<"COREBOOT">>),
   Cap(New, TRUE, <<"FMAP", "CONSOLE", "COREBOOT">>),
   Cap(New, TRUE, <<"BIOS">>),
   Cap(New, TRUE, <<"COREBOOT", "GBB">>),
   Cap(Built("ff", "moved", "new"), TRUE, <<"COREBOOT">>),
   Cap(Built("other", "map", "new"), FALSE, <<>>),
   [Cap(New, TRUE, <<"COREBOOT">>) EXCEPT !.version = 2]}

\* What ServicesHaveTheirStore takes for granted of the images holds of these.
ASSUME LayoutAssumption == OneFmapPlace(6) /\ MapKeepsStore(6)
=============================================================================
