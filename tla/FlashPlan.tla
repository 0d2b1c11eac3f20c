------------------------------- MODULE FlashPlan -------------------------------
(***************************************************************************)
(* What FmpDeviceSmmLib (edk2 patch 0034) decides before it touches the    *)
(* chip: whether a capsule is acceptable, which ranges it programs, and    *)
(* whether the variable store outlives that.                               *)
(*                                                                         *)
(* The chip is FlashSize cells, BlockSize to an erase block.  What a cell  *)
(* holds is a value; FmapIn and IfdIn say which values are a flash map or  *)
(* an Intel descriptor, and what they say.                                 *)
(***************************************************************************)
EXTENDS Integers, Sequences

CONSTANTS
  BlockSize,
  FlashSize,
  Value,       \* what a cell may hold
  FmapIn,      \* the areas, by name, in a value that is an FMAP
  IfdIn        \* the BIOS region in a value that is a descriptor

Cell == 0 .. FlashSize - 1
Block == 0 .. FlashSize \div BlockSize - 1
Range == [off : Nat, size : Nat]
NoRange == [off |-> 0, size |-> 0]
NoFmap == "no FMAP"
Image == [Cell -> Value]

Cells(r) == {x \in Cell : r.off <= x /\ x < r.off + r.size}

ASSUME PlanAssumption ==
  /\ BlockSize \in Nat \ {0}
  /\ FlashSize \in Nat \ {0}
  /\ FlashSize % BlockSize = 0
  /\ DOMAIN FmapIn \subseteq Value
  /\ \A v \in DOMAIN FmapIn : \A n \in DOMAIN FmapIn[v] : FmapIn[v][n] \in Range
  /\ IfdIn \in [DOMAIN IfdIn -> Range]
  \* a variable store consists of whole blocks
  /\ \A v \in DOMAIN FmapIn : "SMMSTORE" \in DOMAIN FmapIn[v] =>
       \A x, y \in Cell : x \div BlockSize = y \div BlockSize =>
         (x \in Cells(FmapIn[v]["SMMSTORE"]) <=> y \in Cells(FmapIn[v]["SMMSTORE"]))
  /\ NoFmap \notin Value

-----------------------------------------------------------------------------
(* The capsule: an image, and perhaps a trailer that lists regions.  A name *)
(* that is not printable or not padded is modelled as "".                   *)

RegionNameIsValid(name) == name # ""

\* EFI_NOT_FOUND is "absent"; the count fits the image and leaves it some bytes.
FmpDeviceLocateRegionManifest(c) ==
  IF ~c.rmap THEN "absent"
  ELSE IF /\ c.version = 1
          /\ c.names # <<>>
          /\ c.size > 0
          /\ \A i \in DOMAIN c.names : RegionNameIsValid(c.names[i])
          /\ \A i, j \in DOMAIN c.names : c.names[i] = c.names[j] => i = j
    THEN "valid"
    ELSE "compromised"

FmpDeviceCheckImageWithStatus(c) ==
  FmpDeviceLocateRegionManifest(c) # "compromised" /\ c.size = FlashSize

\* Mutant: the blocks the size alone would need.
FmpDeviceGetFlashRangeStepCountBySize(r) == 2 * ((r.size + BlockSize - 1) \div BlockSize)

\* Erase and write of each block the range touches.
FmpDeviceGetFlashRangeStepCount(r) ==
  2 * ((r.off + r.size - 1) \div BlockSize - r.off \div BlockSize + 1)

\* The steps of the first n ranges: TotalSteps, as the loop over the ranges adds
\* it up.
TotalSteps(ranges) ==
  LET total[n \in 0 .. Len(ranges)] ==
        IF n = 0 THEN 0 ELSE total[n - 1] + FmpDeviceGetFlashRangeStepCount(ranges[n])
  IN total

\* Mutant: only a range that starts inside the other one is noticed.
FmpDeviceFlashRangesOverlapStart(a, b) == b.off <= a.off /\ a.off < b.off + b.size

FmpDeviceFlashRangesOverlap(a, b) ==
  \/ a.size = 0 \/ b.size = 0
  \/ a.off < b.off + b.size /\ b.off < a.off + a.size

-----------------------------------------------------------------------------
(* Flash maps and the descriptor. *)

\* The first FMAP in some cells of an image or of the chip.
LocateFmapInImage(image, cells) ==
  LET found == {x \in cells : image[x] \in DOMAIN FmapIn}
  IN IF found = {} THEN NoFmap
     ELSE image[CHOOSE x \in found : \A y \in found : x <= y]

\* No area of the name, and an area of no size, come to the same.
FindFmapRegion(fmap, name) ==
  IF fmap \in DOMAIN FmapIn /\ name \in DOMAIN FmapIn[fmap]
    THEN FmapIn[fmap][name]
    ELSE NoRange

Fits(r) == r.size # 0 /\ r.off + r.size <= FlashSize

\* The chip's FMAP, looked for where the capsule's map has its FMAP area.
LoadFlashFmap(flash, fmap, readable) ==
  LET area == FindFmapRegion(fmap, "FMAP")
  IN IF readable /\ Fits(area) THEN LocateFmapInImage(flash, Cells(area)) ELSE NoFmap

FindIntelDescriptorBiosRegion(v) ==
  IF v \in DOMAIN IfdIn /\ Fits(IfdIn[v]) THEN IfdIn[v] ELSE NoRange

\* The chip's descriptor before the capsule's; none when the two disagree.
FindBiosFallbackRegion(flash, image, readable) ==
  LET live == IF readable THEN FindIntelDescriptorBiosRegion(flash[0]) ELSE NoRange
      own == FindIntelDescriptorBiosRegion(image[0])
  IN IF live = NoRange THEN own
     ELSE IF own \in {NoRange, live} THEN live ELSE NoRange

-----------------------------------------------------------------------------
(* FmpDeviceSetImageWithStatus up to its first write. *)

CapsuleFmap(c) == LocateFmapInImage(c.image, Cell)
Regions(c) == [i \in DOMAIN c.names |-> FindFmapRegion(CapsuleFmap(c), c.names[i])]
Listed(c) == FmpDeviceLocateRegionManifest(c) = "valid"

ManifestAcceptable(c) ==
  CapsuleFmap(c) # NoFmap /\ \A i \in DOMAIN c.names : Fits(Regions(c)[i])

\* Every region is where the chip's own FMAP has it.
LayoutMatches(c, live) ==
  /\ live # NoFmap
  /\ \A i \in DOMAIN c.names : FindFmapRegion(live, c.names[i]) = Regions(c)[i]

VariableStorePreserved(c, live) ==
  LET store == FindFmapRegion(live, "SMMSTORE")
  IN /\ Fits(store)
     /\ \A i \in DOMAIN c.names : ~FmpDeviceFlashRangesOverlap(Regions(c)[i], store)

NoPlan == [ranges |-> <<>>, preserved |-> FALSE]

\* The manifest's regions, or the BIOS region, or every whole block.  fmapOk and
\* ifdOk say whether the chip's FMAP and descriptor could be read.
Plan(c, flash, fmapOk, ifdOk) ==
  LET live == LoadFlashFmap(flash, CapsuleFmap(c), fmapOk)
      bios == FindBiosFallbackRegion(flash, c.image, ifdOk)
  IN IF Listed(c) /\ LayoutMatches(c, live)
       THEN [ranges |-> Regions(c), preserved |-> VariableStorePreserved(c, live)]
     ELSE IF bios # NoRange THEN [ranges |-> <<bios>>, preserved |-> FALSE]
     ELSE [ranges |-> <<[off |-> 0, size |-> FlashSize]>>, preserved |-> FALSE]

=============================================================================
