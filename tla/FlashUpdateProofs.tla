--------------------------- MODULE FlashUpdateProofs ---------------------------
(***************************************************************************)
(* Proofs about FlashUpdate, for every chip, flash map, capsule, number of *)
(* retries, updates and faults.                                            *)
(***************************************************************************)
EXTENDS FlashUpdate, WellFoundedInduction, TLAPS

(* Blocks. *)

\* A later block starts where the earlier one has ended.
LEMMA Monotone ==
  ASSUME NEW a \in Nat, NEW b \in Nat, NEW B \in Nat \ {0}, a > b
  PROVE  a * B >= b * B + B
  <1>1. (a - b - 1) * B \in Nat
    OBVIOUS
  <1>2. a * B = (a - b - 1) * B + b * B + B
    OBVIOUS
  <1> QED BY <1>1, <1>2

\* A cell's block contains it.
LEMMA DivMod ==
  ASSUME NEW x \in Nat, NEW B \in Nat \ {0}
  PROVE  /\ x \div B \in Nat
         /\ (x \div B) * B <= x
         /\ x < (x \div B) * B + B
  OBVIOUS

\* A cell is in block q exactly when it is between the block's ends.
LEMMA DivBlock ==
  ASSUME NEW x \in Nat, NEW q \in Nat, NEW B \in Nat \ {0}
  PROVE  x \div B = q <=> q * B <= x /\ x < q * B + B
  <1>1. x \div B > q => (x \div B) * B >= q * B + B
    BY DivMod, Monotone, Zenon
  <1>2. x \div B < q => q * B >= (x \div B) * B + B
    BY DivMod, Monotone, Zenon
  <1> QED BY <1>1, <1>2, DivMod

-----------------------------------------------------------------------------
(* Plans. *)

\* An area of a map, or its absence, is a range (FindFmapRegion).
LEMMA RegionIsRange ==
  ASSUME NEW fmap, NEW name
  PROVE  FindFmapRegion(fmap, name) \in Range
  BY PlanAssumption, Zenon DEF FindFmapRegion, NoRange, Range

\* The fallback region is on the chip (FindBiosFallbackRegion).
LEMMA BiosIsRange ==
  ASSUME NEW chip, NEW image, NEW ok,
         FindBiosFallbackRegion(chip, image, ok) # NoRange
  PROVE  /\ FindBiosFallbackRegion(chip, image, ok) \in Range
         /\ Fits(FindBiosFallbackRegion(chip, image, ok))
  <1>1. ASSUME NEW v, FindIntelDescriptorBiosRegion(v) # NoRange
        PROVE  /\ FindIntelDescriptorBiosRegion(v) \in Range
               /\ Fits(FindIntelDescriptorBiosRegion(v))
    BY <1>1, PlanAssumption, Zenon DEF FindIntelDescriptorBiosRegion
  <1> QED BY <1>1, Zenon DEF FindBiosFallbackRegion

\* A plan has a range, and all of its ranges are on the chip.
LEMMA PlanIsSound ==
  ASSUME NEW c \in Capsule, NEW chip, NEW fmapOk \in BOOLEAN, NEW ifdOk \in BOOLEAN,
         Listed(c) => ManifestAcceptable(c)
  PROVE  LET p == Plan(c, chip, fmapOk, ifdOk)
         IN /\ p.ranges \in Seq(Range) /\ p.ranges # <<>>
            /\ p.preserved \in BOOLEAN
            /\ \A i \in DOMAIN p.ranges : Fits(p.ranges[i])
  <1> DEFINE live == LoadFlashFmap(chip, CapsuleFmap(c), fmapOk)
             bios == FindBiosFallbackRegion(chip, c.image, ifdOk)
             p == Plan(c, chip, fmapOk, ifdOk)
  <1>1. CASE Listed(c) /\ LayoutMatches(c, live)
    <2>1. /\ p.ranges = Regions(c)
          /\ p.preserved = VariableStorePreserved(c, live)
      BY <1>1, Zenon DEF Plan
    <2>2. VariableStorePreserved(c, live) \in BOOLEAN
      BY Zenon DEF VariableStorePreserved
    <2>3. c.names \in Seq(STRING) /\ c.names # <<>>
      BY <1>1, UpdateAssumption, Zenon DEF Listed, FmpDeviceLocateRegionManifest
    <2>4. Regions(c) \in Seq(Range) /\ Regions(c) # <<>>
      BY <2>3, RegionIsRange DEF Regions
    <2>5. DOMAIN Regions(c) = DOMAIN c.names
      BY Zenon DEF Regions
    <2>6. \A i \in DOMAIN c.names : Fits(Regions(c)[i])
      BY <1>1, Zenon DEF ManifestAcceptable
    <2> QED BY <2>1, <2>2, <2>4, <2>5, <2>6, Zenon
  <1>2. CASE ~(Listed(c) /\ LayoutMatches(c, live)) /\ bios # NoRange
    <2>1. p = [ranges |-> <<bios>>, preserved |-> FALSE]
      BY <1>2, Zenon DEF Plan
    <2>2. bios \in Range /\ Fits(bios)
      BY <1>2, BiosIsRange, Zenon
    <2>3. /\ <<bios>> \in Seq(Range) /\ <<bios>> # <<>>
          /\ \A i \in DOMAIN <<bios>> : Fits(<<bios>>[i])
      BY <2>2
    <2> QED BY <2>1, <2>3
  <1>3. CASE ~(Listed(c) /\ LayoutMatches(c, live)) /\ bios = NoRange
    <2>1. p = [ranges |-> <<[off |-> 0, size |-> FlashSize]>>, preserved |-> FALSE]
      BY <1>3, Zenon DEF Plan
    <2>2. [off |-> 0, size |-> FlashSize] \in Range /\ Fits([off |-> 0, size |-> FlashSize])
      BY PlanAssumption DEF Range, Fits
    <2> DEFINE all == [off |-> 0, size |-> FlashSize]
    <2>3. /\ <<all>> \in Seq(Range) /\ <<all>> # <<>>
          /\ \A i \in DOMAIN <<all>> : Fits(<<all>>[i])
      <3> HIDE DEF all
      <3>1. all \in Range /\ Fits(all)
        BY <2>2, Zenon DEF all
      <3> QED BY <3>1
    <2> QED BY <2>1, <2>3
  <1> QED BY <1>1, <1>2, <1>3, Zenon

-----------------------------------------------------------------------------
(* The cursor. *)

\* The ranges that are left are on the chip and belong to the plan.
RangesInv ==
  pc \in Programming =>
    \A i \in DOMAIN todo : Fits(todo[i]) /\ Cells(todo[i]) \subseteq Selected

\* The cells that are left, the current block's included.
Left ==
  {x \in Cell : \/ x \in Cells(todo[1]) /\ Offset <= x
                \/ \E i \in 2 .. Len(todo) : x \in Cells(todo[i])}

CursorOK ==
  /\ pc \in {"off", "up"} \cup Programming
  /\ todo \in Seq(Range)
  /\ Offset \in Nat
  /\ Attempt \in 0 .. RetryCount - 1
  /\ tries \in 0 .. RetryCount - 1
  /\ Step \in Nat
  /\ result \in {"none", "success", "aborted", "error"}
  /\ pc \in Programming => todo # <<>> /\ Offset \in Cells(Head(todo))
  /\ RangesInv

BlockOK == pc \in {"erase", "write", "verify"} => Expected \in [InBlock -> Value]

FlagsOK == services \in BOOLEAN /\ misread \in BOOLEAN /\ failed \in BOOLEAN

ChipOK ==
  /\ flash \in Image /\ before \in Image /\ booted \in Image
  /\ cap \in Capsule
  /\ plan.ranges \in Seq(Range) /\ plan.preserved \in BOOLEAN
  /\ store \in Range
  /\ updates \in Nat /\ faults \in Nat

\* The type invariant with what is needed to keep it.
TypeInv == CursorOK /\ BlockOK /\ FlagsOK /\ ChipOK

\* The parts make up the type invariant.
LEMMA TypeInvIsTypeOK == TypeInv => TypeOK
  BY Zenon DEF TypeInv, CursorOK, BlockOK, FlagsOK, ChipOK, TypeOK, InBlock

\* Offset is in its block, and the segment is part of the current range.
LEMMA SegmentFacts ==
  ASSUME CursorOK, pc \in Programming
  PROVE  /\ Offset \in Cell
         /\ todo[1] \in Range /\ 1 \in DOMAIN todo /\ Head(todo) = todo[1]
         /\ BlockBase \in Nat /\ BlockBase <= Offset /\ Offset < BlockBase + BlockSize
         /\ RangeEnd \in Nat /\ RangeEnd <= FlashSize
         /\ \A x \in Cell : x \in InBlock <=> BlockBase <= x /\ x < BlockBase + BlockSize
         /\ Segment = {x \in Cells(todo[1]) : Offset <= x /\ x < BlockBase + BlockSize}
  <1>1. /\ todo[1] \in Range /\ 1 \in DOMAIN todo /\ Head(todo) = todo[1]
        /\ Offset \in Cell /\ Offset \in Cells(todo[1])
    BY DEF CursorOK, Cells
  <1>2. BlockSize \in Nat \ {0} /\ FlashSize \in Nat
    BY PlanAssumption, Zenon
  <1>3. Offset \in Nat
    BY Zenon DEF CursorOK
  <1>4. /\ Offset \div BlockSize \in Nat
        /\ BlockBase \in Nat /\ BlockBase <= Offset /\ Offset < BlockBase + BlockSize
    BY <1>2, <1>3, DivMod DEF BlockBase
  <1>5. RangeEnd \in Nat /\ RangeEnd <= FlashSize
    BY <1>1, <1>2 DEF RangeEnd, CursorOK, RangesInv, Fits, Range
  <1>6. ASSUME NEW x \in Cell
        PROVE  x \in InBlock <=> BlockBase <= x /\ x < BlockBase + BlockSize
    <2>1. x \in Nat
      BY <1>2 DEF Cell
    <2> QED BY <2>1, <1>2, <1>4, DivBlock, Zenon DEF InBlock, BlockBase
  <1>7. ASSUME NEW x
        PROVE  x \in Segment <=>
                 x \in Cells(todo[1]) /\ Offset <= x /\ x < BlockBase + BlockSize
    <2>1. x \in Segment => x \in Cell
      BY Zenon DEF Segment, InBlock
    <2>2. x \in Cells(todo[1]) => x \in Cell
      BY Zenon DEF Cells
    <2>3. ASSUME x \in Cell
          PROVE  x \in Segment <=>
                   x \in Cells(todo[1]) /\ Offset <= x /\ x < BlockBase + BlockSize
      <3>1. x \in Nat
        BY <2>3, <1>2 DEF Cell
      <3>2. todo[1].off <= Offset /\ todo[1].off \in Nat /\ todo[1].size \in Nat
        BY <1>1, Zenon DEF Cells, Range
      <3> QED BY <2>3, <3>1, <3>2, <1>1, <1>2, <1>3, <1>4, <1>6 DEF Segment, Cells, RangeEnd
    <2> QED BY <2>1, <2>2, <2>3, Zenon
  <1>8. Segment = {x \in Cells(todo[1]) : Offset <= x /\ x < BlockBase + BlockSize}
    BY <1>7, Zenon
  <1> QED BY <1>1, <1>4, <1>5, <1>6, <1>8, Zenon

\* The next block is in a range of the plan again, and only the segment that was
\* dealt with is no longer left.
LEMMA AdvanceFacts ==
  ASSUME CursorOK, pc \in Programming, Advance, plan' = plan
  PROVE  /\ CursorOK'
         /\ pc' \in {"block", "up"}
         /\ \A i \in DOMAIN todo' : \E j \in DOMAIN todo : todo'[i] = todo[j]
         /\ pc' = "block" => Left \subseteq Left' \cup Segment
         /\ pc' = "up" => Left \subseteq Segment /\ result' = "success"
         /\ pc' = "block" => result' = result
  <1> DEFINE next == BlockBase + BlockSize
  <1>1. /\ todo \in Seq(Range) /\ todo # <<>> /\ Len(todo) \in Nat
        /\ DOMAIN todo = 1 .. Len(todo)
        /\ Offset \in Nat /\ Offset \in Cells(todo[1])
        /\ \A i \in DOMAIN todo : todo[i] \in Range /\ Fits(todo[i])
                                  /\ Cells(todo[i]) \subseteq Selected
    BY DEF CursorOK, RangesInv
  <1>2. /\ BlockSize \in Nat \ {0} /\ FlashSize \in Nat
        /\ \A x \in Cell : x \in Nat
    BY PlanAssumption DEF Cell
  <1>3. /\ BlockBase \in Nat /\ RangeEnd \in Nat /\ RangeEnd <= FlashSize
        /\ Offset < next /\ next \in Nat
        /\ Segment = {x \in Cells(todo[1]) : Offset <= x /\ x < next}
        /\ RangeEnd = todo[1].off + todo[1].size
    BY <1>2, SegmentFacts DEF RangeEnd
  <1>4. Selected' = Selected
    BY Zenon DEF Selected
  <1>5. /\ Attempt' \in 0 .. RetryCount - 1 /\ tries' \in 0 .. RetryCount - 1
        /\ Step' \in Nat
    BY UpdateAssumption DEF Advance, CursorOK
  <1> HIDE DEF next
  <1>6. CASE next < RangeEnd
    <2>1. /\ todo' = todo /\ Offset' = next /\ pc' = "block" /\ result' = result
      BY <1>6, Zenon DEF Advance, next
    <2>2. Offset' \in Cells(todo'[1])
      <3>1. todo[1].off \in Nat /\ todo[1].size \in Nat /\ todo[1].off <= Offset
        BY <1>1 DEF Cells, Range
      <3>2. next \in Cell
        BY <1>2, <1>3, <1>6 DEF Cell
      <3> QED BY <1>1, <1>2, <1>3, <1>6, <2>1, <3>1, <3>2 DEF Cells
    <2>3. CursorOK'
      BY <1>1, <1>3, <1>4, <1>5, <2>1, <2>2 DEF CursorOK, RangesInv, Programming
    <2>4. Left \subseteq Left' \cup Segment
      <3>1. ASSUME NEW x \in Left
            PROVE  x \in Left' \/ x \in Segment
        <4>1. x \in Cell /\ x \in Nat
          BY <3>1, <1>2, Zenon DEF Left
        <4>2. CASE x \in Cells(todo[1]) /\ Offset <= x
          BY <4>1, <4>2, <2>1, <1>3 DEF Left
        <4>3. CASE \E i \in 2 .. Len(todo) : x \in Cells(todo[i])
          BY <4>1, <4>3, <2>1, Zenon DEF Left
        <4> QED BY <3>1, <4>2, <4>3, Zenon DEF Left
      <3> QED BY <3>1, Zenon
    <2> QED BY <2>1, <2>3, <2>4, Zenon
  <1>7. CASE ~(next < RangeEnd) /\ Len(todo) > 1
    <2>1. /\ todo' = Tail(todo) /\ Offset' = todo[2].off /\ pc' = "block"
          /\ result' = result
      BY <1>7, Zenon DEF Advance, next
    <2>2. /\ todo' \in Seq(Range) /\ Len(todo') = Len(todo) - 1 /\ todo' # <<>>
          /\ DOMAIN todo' = 1 .. Len(todo) - 1
          /\ \A i \in DOMAIN todo' : todo'[i] = todo[i + 1] /\ i + 1 \in DOMAIN todo
      BY <1>1, <1>7, <2>1
    <2>3. /\ 1 \in DOMAIN todo' /\ todo'[1] = todo[2] /\ Head(todo') = todo'[1]
          /\ todo[2] \in Range /\ Fits(todo[2])
      BY <1>1, <1>7, <2>2
    <2>4. Offset' \in Nat /\ Offset' \in Cells(todo'[1])
      BY <1>2, <2>1, <2>3 DEF Cells, Cell, Range, Fits
    <2>5. CursorOK'
      <3>1. RangesInv'
        BY <1>1, <1>4, <2>2, Zenon DEF RangesInv
      <3> QED BY <1>5, <2>1, <2>2, <2>3, <2>4, <3>1, Zenon DEF CursorOK, Programming
    <2>6. Left \subseteq Left' \cup Segment
      <3>1. ASSUME NEW x \in Left
            PROVE  x \in Left' \/ x \in Segment
        <4>1. x \in Cell /\ x \in Nat
          BY <3>1, <1>2, Zenon DEF Left
        <4>2. CASE x \in Cells(todo[1]) /\ Offset <= x
          <5>1. x < RangeEnd
            BY <4>2, <1>3, Zenon DEF Cells
          <5> QED BY <4>1, <4>2, <5>1, <1>3, <1>7
        <4>3. ASSUME NEW i \in 2 .. Len(todo), x \in Cells(todo[i])
              PROVE  x \in Left'
          <5>1. CASE i = 2
            BY <4>1, <4>3, <5>1, <2>1, <2>3, Zenon DEF Left, Cells
          <5>2. CASE i # 2
            <6>1. i - 1 \in 2 .. Len(todo') /\ todo'[i - 1] = todo[i]
              BY <1>1, <2>2, <5>2
            <6> QED BY <4>1, <4>3, <6>1, Zenon DEF Left
          <5> QED BY <5>1, <5>2, Zenon
        <4> QED BY <3>1, <4>2, <4>3, Zenon DEF Left
      <3> QED BY <3>1, Zenon
    <2> QED BY <2>1, <2>2, <2>5, <2>6, Zenon
  <1>8. CASE ~(next < RangeEnd) /\ ~(Len(todo) > 1)
    <2>1. todo' = <<>> /\ Offset' = 0 /\ pc' = "up" /\ result' = "success"
      BY <1>8, Zenon DEF Advance, next
    <2>2. CursorOK'
      BY <1>5, <2>1 DEF CursorOK, RangesInv, Programming
    <2>3. ASSUME NEW x \in Left
          PROVE  x \in Segment
      <3>1. x \in Cell /\ x \in Nat /\ x \in Cells(todo[1]) /\ Offset <= x
        BY <1>1, <1>2, <1>8 DEF Left
      <3>2. x < RangeEnd
        BY <3>1, <1>3, Zenon DEF Cells
      <3> QED BY <3>1, <3>2, <1>3, <1>8
    <2> QED BY <2>1, <2>2, <2>3
  <1> QED BY <1>6, <1>7, <1>8, Zenon

-----------------------------------------------------------------------------
(* The forms a step of an update takes, whatever operation it is: a block is *)
(* begun, worked on, or done with, or the update stops.                      *)

Writing == {"erase", "write", "verify"}

\* The update stays at its block.
Stays ==
  /\ pc \in Programming /\ pc' \in Writing
  /\ UNCHANGED <<todo, Offset, Step, result, services, store, failed, booted>>
  /\ Attempt' \in 0 .. RetryCount - 1 /\ tries' \in 0 .. RetryCount - 1

\* Only the block changes.
OutsideKept == flash' \in Image /\ \A x \in Cell \ InBlock : flash'[x] = flash[x]

Begins ==
  /\ pc = "block" /\ Stays
  /\ flash' = flash /\ Expected' = Merged
  /\ ~Same \/ misread'

Works ==
  /\ pc \in Writing /\ Stays
  /\ OutsideKept /\ Expected' = Expected

Passes ==
  /\ \/ pc = "block" /\ Same
     \/ pc = "verify" /\ Verified
  /\ Advance
  /\ flash' = flash

Stops ==
  /\ pc \in {"up"} \cup Programming
  /\ Idle
  /\ \/ pc' = "up" /\ result' = "error" /\ failed'
     \/ pc' = "off" /\ result' = result
  /\ Step' = Step /\ services' = services /\ store' = store /\ booted' = booted
  /\ IF pc \in Writing THEN OutsideKept ELSE flash' = flash

Common ==
  /\ UNCHANGED <<cap, plan, before, updates>>
  /\ faults' \in Nat
  /\ misread => misread'
  /\ misread' \in BOOLEAN /\ failed' \in BOOLEAN /\ services' \in BOOLEAN

Form == Common /\ (Begins \/ Works \/ Passes \/ Stops)

\* An erase or a spoilt block changes its block only.
LEMMA FillIsImage ==
  ASSUME TypeInv, NEW v \in Value
  PROVE  Fill(v) \in Image /\ \A x \in Cell \ InBlock : Fill(v)[x] = flash[x]
  BY Zenon DEF TypeInv, ChipOK, Fill, Image

\* A failed operation stays at its block or ends the update (the retry loops).
LEMMA FailsForm ==
  ASSUME TypeInv, pc \in Writing, AttemptFails \/ OperationFails
  PROVE  \/ Stays /\ Expected' = Expected
         \/ IoError
  <1>1. /\ RetryCount \in Nat \ {0} /\ Attempt \in 0 .. RetryCount - 1
        /\ tries \in 0 .. RetryCount - 1
    BY UpdateAssumption, Zenon DEF TypeInv, CursorOK
  <1>2. ASSUME AttemptFails
        PROVE  (Stays /\ Expected' = Expected) \/ IoError
    BY <1>1, <1>2 DEF AttemptFails, Stays, Writing, Programming, cursorVars, bootVars
  <1>3. ASSUME OperationFails
        PROVE  (Stays /\ Expected' = Expected) \/ IoError
    BY <1>1, <1>2, <1>3
    DEF OperationFails, Stays, Writing, Programming, cursorVars, bootVars
  <1> QED BY <1>2, <1>3, Zenon

\* An I/O error is a stop.
LEMMA StopsForm ==
  ASSUME TypeInv, pc \in Programming, IoError,
         IF pc \in Writing THEN OutsideKept ELSE flash' = flash
  PROVE  Stops
  BY Zenon DEF IoError, Stops

\* Faults are counted.
LEMMA FaultIsNat ==
  ASSUME TypeInv
  PROVE  /\ Fault => faults' \in Nat
         /\ \A b : Charge(b) => faults' \in Nat
         /\ faults' = faults => faults' \in Nat
  BY DEF TypeInv, ChipOK, Fault, Charge

\* Every operation on a block, and a power cut, has one of the forms.
LEMMA StepHasForm ==
  ASSUME TypeInv, Programs \/ PowerCut
  PROVE  Form
  <1> USE DEF Writing, Programming
  <1>0. /\ flash \in Image /\ Garbage \in Value /\ Erased \in Value
        /\ misread \in BOOLEAN /\ failed \in BOOLEAN /\ services \in BOOLEAN
    BY UpdateAssumption, Zenon DEF TypeInv, ChipOK, FlagsOK
  <1>1. ASSUME NEW readable \in BOOLEAN, ReadBlock(readable)
        PROVE  Form
    <2>1. /\ pc = "block" /\ flash' = flash /\ faults' \in Nat
          /\ UNCHANGED <<cap, plan, before, updates>>
      BY <1>1, FaultIsNat, Zenon DEF ReadBlock
    <2>2. misread' \in BOOLEAN /\ (misread => misread') /\ (~readable => misread')
      BY <1>1, <1>0, Zenon DEF ReadBlock
    <2>3. CASE readable /\ Same /\ Advance
      <3>1. Passes
        BY <2>1, <2>3, Zenon DEF Passes
      <3>2. failed' \in BOOLEAN /\ services' \in BOOLEAN
        BY <2>3, <1>0, Zenon DEF Advance, ServicesAfter
      <3> QED BY <2>1, <2>2, <3>1, <3>2, Zenon DEF Form, Common
    <2>4. CASE ~readable /\ Segment # InBlock /\ IoError
      <3>1. Stops
        BY <2>1, <2>4, StopsForm, Zenon
      <3>2. failed' \in BOOLEAN /\ services' \in BOOLEAN
        BY <2>4, <1>0, Zenon DEF IoError
      <3> QED BY <2>1, <2>2, <3>1, <3>2, Zenon DEF Form, Common
    <2>5. CASE /\ IF readable THEN ~Same ELSE Segment = InBlock
               /\ pc' = "erase"
               /\ Expected' = Merged
               /\ UNCHANGED <<cursorVars, Attempt, tries, bootVars, result>>
      <3>1. UNCHANGED <<todo, Offset, Step, Attempt, tries, services, store, failed, booted,
                        result>>
        BY <2>5, Zenon DEF cursorVars, bootVars
      <3>2. Stays
        BY <2>1, <2>5, <3>1, Zenon DEF Stays, TypeInv, CursorOK
      <3>3. ~Same \/ misread'
        BY <2>2, <2>5, Zenon
      <3>4. Begins
        BY <2>1, <2>5, <3>2, <3>3, Zenon DEF Begins
      <3>5. failed' \in BOOLEAN /\ services' \in BOOLEAN
        BY <3>1, <1>0, Zenon
      <3> QED BY <2>1, <2>2, <3>4, <3>5, Zenon DEF Form, Common
    <2> QED BY <1>1, <2>3, <2>4, <2>5, Zenon DEF ReadBlock
  <1>2. ASSUME pc \in Writing, OutsideKept, AttemptFails \/ OperationFails, faults' \in Nat,
               UNCHANGED <<cap, plan, before, misread, updates>>
        PROVE  Form
    <2>1. CASE Stays /\ Expected' = Expected
      <3>1. Works
        BY <1>2, <2>1, Zenon DEF Works
      <3>2. failed' \in BOOLEAN /\ services' \in BOOLEAN
        BY <2>1, <1>0, Zenon DEF Stays
      <3> QED BY <1>0, <1>2, <3>1, <3>2, Zenon DEF Form, Common
    <2>2. CASE IoError
      <3>1. Stops
        BY <1>2, <2>2, StopsForm, Zenon
      <3>2. failed' \in BOOLEAN /\ services' \in BOOLEAN
        BY <2>2, <1>0, Zenon DEF IoError
      <3> QED BY <1>0, <1>2, <3>1, <3>2, Zenon DEF Form, Common
    <2> QED BY <1>2, <2>1, <2>2, FailsForm, Zenon
  <1>3. ASSUME pc \in Writing, pc' \in Writing, OutsideKept, tries' = 0, faults' \in Nat,
               UNCHANGED <<cap, plan, before, misread, updates>>,
               UNCHANGED <<cursorVars, Expected, Attempt, bootVars, result>>
        PROVE  Form
    <2>1. UNCHANGED <<todo, Offset, Step, Attempt, Expected, services, store, failed, booted,
                      result>>
      BY <1>3, Zenon DEF cursorVars, bootVars
    <2>2. Stays
      BY <1>3, <2>1, UpdateAssumption DEF Stays, TypeInv, CursorOK
    <2>3. Works
      BY <1>3, <2>1, <2>2, Zenon DEF Works
    <2> QED BY <1>0, <1>3, <2>1, <2>3, Zenon DEF Form, Common
  <1>4. OutsideKept <=> flash' \in Image /\ \A x \in Cell \ InBlock : flash'[x] = flash[x]
    BY Zenon DEF OutsideKept
  <1>5. /\ flash' = flash => OutsideKept
        /\ \A v \in Value : flash' = Fill(v) => OutsideKept
        /\ flash' \in {flash, Fill(Garbage)} => OutsideKept
    BY <1>0, <1>4, FillIsImage, Zenon
  <1>6. ASSUME EraseBlock
        PROVE  Form
    <2>1. pc \in Writing /\ UNCHANGED <<cap, plan, before, misread, updates>>
      BY <1>6, Zenon DEF EraseBlock
    <2>2. CASE /\ flash' = Fill(Erased) /\ tries' = 0 /\ pc' = "write"
               /\ UNCHANGED <<cursorVars, Expected, Attempt, bootVars, result, faults>>
      BY <2>1, <2>2, <1>0, <1>3, <1>5, FaultIsNat, Zenon
    <2>3. CASE OperationFails /\ UNCHANGED <<flash, faults>>
      BY <2>1, <2>3, <1>2, <1>5, FaultIsNat, Zenon
    <2>4. CASE Fault /\ OperationFails /\ flash' \in {flash, Fill(Garbage)}
      BY <2>1, <2>4, <1>2, <1>5, FaultIsNat, Zenon
    <2> QED BY <1>6, <2>2, <2>3, <2>4, Zenon DEF EraseBlock
  <1>7. ASSUME WriteBlock
        PROVE  Form
    <2> DEFINE new == [x \in Cell |-> IF x \in InBlock THEN Expected[x] ELSE flash[x]]
    <2>1. pc = "write" /\ UNCHANGED <<cap, plan, before, misread, updates>>
      BY <1>7, Zenon DEF WriteBlock
    <2>2. flash' = new => OutsideKept
      <3>1. Expected \in [InBlock -> Value]
        BY <2>1, Zenon DEF TypeInv, BlockOK
      <3> QED BY <1>0, <1>4, <3>1, Zenon DEF Image
    <2> HIDE DEF new
    <2>3. CASE /\ \/ flash' = new /\ UNCHANGED faults
                  \/ flash' = Fill(Garbage) /\ Fault
               /\ tries' = 0 /\ pc' = "verify"
               /\ UNCHANGED <<cursorVars, Expected, Attempt, bootVars, result>>
      <3>1. OutsideKept /\ faults' \in Nat
        BY <2>2, <2>3, <1>0, <1>5, FaultIsNat, Zenon
      <3> QED BY <2>1, <2>3, <3>1, <1>3, Zenon
    <2>4. CASE Fault /\ OperationFails /\ flash' \in {flash, Fill(Garbage)}
      BY <2>1, <2>4, <1>2, <1>5, FaultIsNat, Zenon
    <2> QED BY <1>7, <2>3, <2>4, Zenon DEF WriteBlock, new
  <1>8. ASSUME NEW readable \in BOOLEAN, VerifyFlashWrite(readable)
        PROVE  Form
    <2>1. /\ pc = "verify" /\ flash' = flash /\ faults' \in Nat
          /\ UNCHANGED <<cap, plan, before, misread, updates>>
      BY <1>8, FaultIsNat, Zenon DEF VerifyFlashWrite
    <2>2. CASE Verified /\ Advance
      <3>1. Passes
        BY <2>1, <2>2, Zenon DEF Passes
      <3>2. failed' \in BOOLEAN /\ services' \in BOOLEAN
        BY <2>2, <1>0, Zenon DEF Advance, ServicesAfter
      <3> QED BY <1>0, <2>1, <3>1, <3>2, Zenon DEF Form, Common
    <2>3. CASE AttemptFails
      BY <2>1, <2>3, <1>2, <1>5, Zenon
    <2> QED BY <1>8, <2>2, <2>3, Zenon DEF VerifyFlashWrite
  <1>9. ASSUME PowerCut
        PROVE  Form
    <2>1. /\ pc # "off" /\ Idle /\ pc' = "off" /\ faults' \in Nat
          /\ UNCHANGED <<cap, plan, Step, services, store, failed, booted, result, before, misread,
                         updates>>
      BY <1>9, FaultIsNat, Zenon DEF PowerCut, bootVars
    <2>2. pc \in {"up"} \cup Programming
      BY <2>1, Zenon DEF TypeInv, CursorOK
    <2>3. IF pc \in Writing THEN OutsideKept ELSE flash' = flash
      BY <1>9, <1>5, Zenon DEF PowerCut
    <2>4. Stops
      BY <2>1, <2>2, <2>3, Zenon DEF Stops
    <2> QED BY <1>0, <2>1, <2>4, Zenon DEF Form, Common
  <1> QED BY <1>1, <1>6, <1>7, <1>8, <1>9, Zenon DEF Programs

-----------------------------------------------------------------------------
(* Types. *)

\* What a step that stays leaves alone.
LEMMA StaysFacts ==
  ASSUME CursorOK, Stays, plan' = plan
  PROVE  /\ CursorOK'
         /\ InBlock' = InBlock /\ Left' = Left /\ Segment' = Segment
         /\ Selected' = Selected /\ todo' = todo
  <1>1. InBlock' = InBlock /\ Left' = Left /\ RangeEnd' = RangeEnd /\ Selected' = Selected
    BY Zenon DEF Stays, InBlock, Left, RangeEnd, Selected
  <1>2. Segment' = Segment
    BY <1>1, Zenon DEF Segment, Stays
  <1>3. RangesInv'
    BY <1>1, Zenon DEF Stays, RangesInv, CursorOK, Writing, Programming
  <1> QED BY <1>1, <1>2, <1>3, Zenon DEF Stays, CursorOK, Writing, Programming

\* A plan selects the cells of its ranges.
LEMMA SelectedCells ==
  /\ \A i \in DOMAIN plan.ranges : Cells(plan.ranges[i]) \subseteq Selected
  /\ Selected \subseteq Cell
  BY Zenon DEF Selected, Cells

\* The block to program is complete (UpdateFlashRangeFromImage).
LEMMA MergedType ==
  ASSUME TypeInv
  PROVE  Merged \in [InBlock -> Value]
  <1>1. cap.image \in Image /\ flash \in Image
    BY UpdateAssumption, Zenon DEF TypeInv, ChipOK
  <1> QED BY <1>1, Zenon DEF Merged, InBlock, Image

\* Every form keeps the types.
LEMMA FormKeepsTypes ==
  ASSUME TypeInv, Form
  PROVE  TypeInv'
  <1>1. /\ plan' = plan /\ cap' = cap /\ before' = before /\ updates' = updates
        /\ faults' \in Nat
    BY Zenon DEF Form, Common
  <1>2. FlagsOK'
    BY Zenon DEF Form, Common, FlagsOK
  <1>3. flash \in Image /\ store \in Range /\ booted \in Image
    BY Zenon DEF TypeInv, ChipOK
  <1>4. flash' \in Image
    BY <1>3, Zenon DEF Form, Begins, Works, Passes, Stops, OutsideKept
  <1>5. store' = store /\ booted' = booted
    BY Zenon DEF Form, Begins, Works, Passes, Stops, Stays, Advance
  <1>6. ChipOK'
    BY <1>1, <1>3, <1>4, <1>5, Zenon DEF TypeInv, ChipOK
  <1>7. CASE Begins
    BY <1>1, <1>2, <1>6, <1>7, MergedType, StaysFacts, Zenon DEF Begins, TypeInv, BlockOK
  <1>8. CASE Works
    BY <1>1, <1>2, <1>6, <1>8, StaysFacts, Zenon DEF Works, TypeInv, BlockOK, Writing
  <1>9. CASE Passes
    <2>1. CursorOK' /\ pc' \in {"block", "up"}
      BY <1>1, <1>9, AdvanceFacts, Zenon DEF Passes, TypeInv, Programming
    <2> QED BY <1>2, <1>6, <2>1, Zenon DEF TypeInv, BlockOK
  <1>10. CASE Stops
    <2>1. CursorOK'
      BY <1>10, UpdateAssumption
      DEF Stops, Idle, TypeInv, CursorOK, RangesInv, Programming
    <2>2. BlockOK'
      BY <1>10, Zenon DEF Stops, BlockOK
    <2> QED BY <1>2, <1>6, <2>1, <2>2, Zenon DEF TypeInv
  <1> QED BY <1>7, <1>8, <1>9, <1>10, Zenon DEF Form

\* A range on the chip starts with a cell of its own.
LEMMA FirstCell ==
  ASSUME NEW r \in Range, Fits(r)
  PROVE  r.off \in Nat /\ r.off \in Cells(r)
  BY PlanAssumption DEF Range, Cells, Cell, Fits

\* An update starts at the first cell of its plan (FmpDeviceSetImageWithStatus).
LEMMA SetImageKeepsTypes ==
  ASSUME TypeInv, NEW c \in Capsule, NEW fmapOk \in BOOLEAN, NEW ifdOk \in BOOLEAN,
         SetImage(c, fmapOk, ifdOk)
  PROVE  TypeInv'
  <1> DEFINE p == Plan(c, flash, fmapOk, ifdOk)
  <1>1. /\ p.ranges \in Seq(Range) /\ p.ranges # <<>> /\ p.preserved \in BOOLEAN
        /\ \A i \in DOMAIN p.ranges : Fits(p.ranges[i])
    BY PlanIsSound, Zenon DEF SetImage
  <1> HIDE DEF p
  <1>2. /\ plan' = p /\ cap' = c /\ todo' = p.ranges /\ Offset' = p.ranges[1].off
        /\ pc' = "block" /\ result' = "none" /\ misread' = FALSE /\ Step' = 0
        /\ flash' = flash /\ before' = flash /\ updates' = updates + 1 /\ faults' \in Nat
        /\ UNCHANGED <<Expected, Attempt, tries, services, store, failed, booted>>
    BY FaultIsNat, Zenon DEF SetImage, p, retryVars, bootVars
  <1>3. p.ranges[1] \in Range /\ Fits(p.ranges[1]) /\ Head(p.ranges) = p.ranges[1]
    BY <1>1
  <1>4. Offset' \in Nat /\ Offset' \in Cells(p.ranges[1])
    BY <1>2, <1>3, FirstCell, Zenon
  <1>5. RangesInv'
    BY <1>1, <1>2, Zenon DEF RangesInv, Selected
  <1>6. CursorOK'
    BY <1>1, <1>2, <1>3, <1>4, <1>5, Zenon DEF CursorOK, TypeInv, Programming
  <1>7. BlockOK'
    BY <1>2, Zenon DEF BlockOK
  <1>8. FlagsOK'
    BY <1>2, Zenon DEF TypeInv, FlagsOK
  <1>9. ChipOK'
    BY <1>1, <1>2 DEF TypeInv, ChipOK
  <1> QED BY <1>6, <1>7, <1>8, <1>9, Zenon DEF TypeInv

\* The steps outside an update.
LEMMA MachineKeepsTypes ==
  ASSUME TypeInv,
         \/ Boot \/ Reset \/ Reprogram
         \/ \E c \in Capsule, fault \in BOOLEAN : SetImageAborts(c, fault)
         \/ UNCHANGED vars
  PROVE  TypeInv'
  <1> USE DEF TypeInv, CursorOK, BlockOK, FlagsOK, ChipOK, RangesInv, Programming,
              cursorVars, retryVars, bootVars
  <1>0. Factory \in Image /\ NoPlan.ranges \in Seq(Range) /\ NoPlan.preserved \in BOOLEAN
    BY UpdateAssumption DEF NoPlan
  <1>1. CASE Boot
    BY <1>0, <1>1, RegionIsRange, Zenon DEF Boot
  <1>2. CASE Reset
    BY <1>2, Zenon DEF Reset
  <1>3. CASE Reprogram
    BY <1>0, <1>3, Zenon DEF Reprogram
  <1>4. ASSUME NEW c \in Capsule, NEW fault \in BOOLEAN, SetImageAborts(c, fault)
        PROVE  TypeInv'
    BY <1>0, <1>4, FaultIsNat DEF SetImageAborts
  <1>5. CASE UNCHANGED vars
    <2>1. InBlock' = InBlock /\ Selected' = Selected
      BY <1>5, Zenon DEF vars, InBlock, Selected
    <2> QED BY <1>5, <2>1, Zenon DEF vars
  <1> QED BY <1>1, <1>2, <1>3, <1>4, <1>5, Zenon

-----------------------------------------------------------------------------
(* The inductive invariant. *)

\* The cells of the block that is being rewritten, which hold anything.
Open == IF pc \in Writing THEN InBlock ELSE {}

\* Outside the open block, what is done has the image and what is not selected
\* is as before.
ChipInv ==
  pc \in Programming =>
    \A x \in Cell \ Open : /\ x \in Selected \ Left => flash[x] = cap.image[x]
                           /\ x \notin Selected => flash[x] = before[x]

\* What is going to be written says the same of the open block.
BlockInv ==
  pc \in Writing =>
    \A x \in InBlock : /\ x \in Segment \/ x \in Selected \ Left => Expected[x] = cap.image[x]
                       /\ x \notin Selected => Expected[x] = before[x]

\* No range that is left touches a preserved store.
StoreInv ==
  plan.preserved =>
    /\ \A x \in Cells(LiveStore) : flash[x] = before[x]
    /\ pc \in Programming => \A i \in DOMAIN todo : Cells(todo[i]) \cap Cells(LiveStore) = {}

\* An update with what is there already opens no block.
Repeats == plan # NoPlan /\ ~misread /\ \A x \in Selected : before[x] = cap.image[x]
RepeatInv == Repeats => flash = before /\ pc \notin Writing

IInv == TypeInv /\ ChipInv /\ BlockInv /\ SuccessIsExact /\ StoreInv /\ RepeatInv

\* A segment is in its block, in the plan, and left.
LEMMA SegmentIsLeft ==
  ASSUME CursorOK, pc \in Programming
  PROVE  /\ Segment \subseteq Left /\ Segment \subseteq InBlock
         /\ Segment \subseteq Selected /\ Left \subseteq Selected /\ Left \subseteq Cell
         /\ Offset \in InBlock /\ Offset \in Cells(todo[1])
  <1>1. /\ todo \in Seq(Range) /\ 1 \in DOMAIN todo /\ Head(todo) = todo[1]
        /\ Offset \in Cell
    BY SegmentFacts, Zenon DEF CursorOK
  <1>2. Segment = {x \in Cells(todo[1]) : Offset <= x /\ x < BlockBase + BlockSize}
    BY SegmentFacts, Zenon
  <1>3. Cells(todo[1]) \subseteq Cell
    BY Zenon DEF Cells
  <1>4. Segment \subseteq Left
    BY <1>2, <1>3, Zenon DEF Left
  <1>5. \A i \in DOMAIN todo : Cells(todo[i]) \subseteq Selected
    BY Zenon DEF CursorOK, RangesInv
  <1>6. Left \subseteq Selected
    BY <1>1, <1>5 DEF Left
  <1>7. Offset \in InBlock /\ Offset \in Cells(todo[1])
    BY <1>1, Zenon DEF InBlock, CursorOK
  <1>8. Segment \subseteq InBlock
    BY Zenon DEF Segment
  <1>9. Left \subseteq Cell
    BY Zenon DEF Left
  <1> QED BY <1>4, <1>6, <1>7, <1>8, <1>9, Zenon

\* A preserved store consists of whole blocks, none of which is open.
LEMMA StoreIsClosed ==
  ASSUME CursorOK, pc \in Programming, StoreInv, plan.preserved
  PROVE  InBlock \cap Cells(LiveStore) = {}
  <1>1. Offset \in InBlock /\ Offset \in Cells(todo[1]) /\ 1 \in DOMAIN todo
    BY SegmentIsLeft, SegmentFacts, Zenon
  <1>2. Offset \notin Cells(LiveStore) /\ Offset \in Cell
    BY <1>1, Zenon DEF StoreInv, InBlock
  <1>3. ASSUME NEW x \in Cell, NEW y \in Cell, x \div BlockSize = y \div BlockSize,
               x \in Cells(LiveStore)
        PROVE  y \in Cells(LiveStore)
    <2> DEFINE fmap == LoadFlashFmap(before, CapsuleFmap(cap), TRUE)
    <2> HIDE DEF fmap
    <2>1. LiveStore = FindFmapRegion(fmap, "SMMSTORE")
      BY Zenon DEF LiveStore, fmap
    <2>2. CASE fmap \in DOMAIN FmapIn /\ "SMMSTORE" \in DOMAIN FmapIn[fmap]
      BY <1>3, <2>1, <2>2, PlanAssumption, Zenon DEF FindFmapRegion
    <2>3. CASE ~(fmap \in DOMAIN FmapIn /\ "SMMSTORE" \in DOMAIN FmapIn[fmap])
      <3>1. LiveStore = NoRange
        BY <2>1, <2>3, Zenon DEF FindFmapRegion
      <3>2. x \in Nat /\ ~(x < 0)
        BY PlanAssumption DEF Cell
      <3> QED BY <1>3, <3>1, <3>2 DEF Cells, NoRange
    <2> QED BY <2>2, <2>3, Zenon
  <1>4. ASSUME NEW x \in InBlock, x \in Cells(LiveStore)
        PROVE  FALSE
    BY <1>1, <1>2, <1>3, <1>4, Zenon DEF InBlock
  <1> QED BY <1>4, Zenon

\* What the types leave open.
SafeInv == ChipInv /\ BlockInv /\ SuccessIsExact /\ StoreInv /\ RepeatInv

\* Nothing that an update is measured against changes during it.
LEMMA CommonFacts ==
  ASSUME Common
  PROVE  /\ cap' = cap /\ plan' = plan /\ before' = before
         /\ Selected' = Selected /\ LiveStore' = LiveStore
         /\ Repeats' => Repeats
  BY Zenon DEF Common, Selected, LiveStore, Repeats

\* A block that is begun is merged from image and chip.
LEMMA BeginsKeeps ==
  ASSUME IInv, Common, Begins
  PROVE  SafeInv'
  <1>1. CursorOK /\ pc = "block" /\ pc \in Programming /\ pc' \in Writing /\ Stays
    BY Zenon DEF IInv, TypeInv, Begins, Stays, Programming
  <1>2. /\ InBlock' = InBlock /\ Left' = Left /\ Segment' = Segment /\ todo' = todo
        /\ flash' = flash /\ Expected' = Merged
    BY <1>1, CommonFacts, StaysFacts, Zenon DEF Begins
  <1>3. /\ Segment \subseteq Left /\ Segment \subseteq Selected
        /\ Left \subseteq Selected
    BY <1>1, SegmentIsLeft, Zenon
  <1>4. \A x \in Cell : /\ x \in Selected \ Left => flash[x] = cap.image[x]
                        /\ x \notin Selected => flash[x] = before[x]
    BY <1>1, Zenon DEF IInv, ChipInv, Open, Writing
  <1>5. ChipInv'
    BY <1>2, <1>4, CommonFacts, Zenon DEF ChipInv
  <1>6. BlockInv'
    <2>1. InBlock \subseteq Cell
      BY Zenon DEF InBlock
    <2> QED BY <1>2, <1>3, <1>4, <2>1, CommonFacts, Zenon DEF BlockInv, Merged
  <1>7. SuccessIsExact'
    BY <1>1, Zenon DEF SuccessIsExact, Writing
  <1>8. StoreInv'
    BY <1>1, <1>2, CommonFacts, Zenon DEF IInv, StoreInv
  <1>9. RepeatInv'
    <2>1. ASSUME Repeats'
          PROVE  FALSE
      <3>1. flash = before /\ (\A x \in Selected : before[x] = cap.image[x])
        BY <2>1, CommonFacts, Zenon DEF IInv, RepeatInv, Repeats
      <3>2. Same
        BY <1>3, <3>1, Zenon DEF Same
      <3>3. ~misread'
        BY <2>1, Zenon DEF Repeats
      <3> QED BY <3>2, <3>3, Zenon DEF Begins
    <2> QED BY <2>1, Zenon DEF RepeatInv
  <1> QED BY <1>5, <1>6, <1>7, <1>8, <1>9, Zenon DEF SafeInv

\* Retries, erases and writes stay in the open block.
LEMMA WorksKeeps ==
  ASSUME IInv, Common, Works
  PROVE  SafeInv'
  <1>1. CursorOK /\ pc \in Writing /\ pc \in Programming /\ pc' \in Writing /\ Stays
    BY Zenon DEF IInv, TypeInv, Works, Stays
  <1>2. /\ InBlock' = InBlock /\ Left' = Left /\ Segment' = Segment /\ todo' = todo
        /\ Expected' = Expected /\ \A x \in Cell \ InBlock : flash'[x] = flash[x]
    BY <1>1, CommonFacts, StaysFacts, Zenon DEF Works, OutsideKept
  <1>3. Open = InBlock /\ Open' = InBlock
    BY <1>1, <1>2, Zenon DEF Open
  <1>4. ChipInv'
    BY <1>1, <1>2, <1>3, CommonFacts, Zenon DEF IInv, ChipInv
  <1>5. BlockInv'
    BY <1>1, <1>2, CommonFacts, Zenon DEF IInv, BlockInv
  <1>6. SuccessIsExact'
    BY <1>1, Zenon DEF SuccessIsExact, Writing
  <1>7. StoreInv'
    <2>1. plan.preserved => InBlock \cap Cells(LiveStore) = {}
      BY <1>1, StoreIsClosed, Zenon DEF IInv
    <2>2. Cells(LiveStore) \subseteq Cell
      BY Zenon DEF Cells
    <2> QED BY <1>1, <1>2, <2>1, <2>2, CommonFacts, Zenon DEF IInv, StoreInv
  <1>8. RepeatInv'
    BY <1>1, CommonFacts, Zenon DEF IInv, RepeatInv
  <1> QED BY <1>4, <1>5, <1>6, <1>7, <1>8, Zenon DEF SafeInv

\* A block is passed only with its segment as in the image, and the rest kept.
LEMMA PassesKeeps ==
  ASSUME IInv, Common, Passes
  PROVE  SafeInv'
  <1>1. /\ CursorOK /\ pc \in Programming /\ Advance /\ plan' = plan /\ flash' = flash
    BY CommonFacts, Zenon DEF IInv, TypeInv, Passes, Programming
  <1>2. /\ pc' \in {"block", "up"}
        /\ \A i \in DOMAIN todo' : \E j \in DOMAIN todo : todo'[i] = todo[j]
        /\ pc' = "block" => Left \subseteq Left' \cup Segment
        /\ pc' = "up" => Left \subseteq Segment
    BY <1>1, AdvanceFacts, Zenon
  <1>3. /\ Segment \subseteq Left /\ Segment \subseteq InBlock
        /\ Segment \subseteq Selected /\ Left \subseteq Selected
    BY <1>1, SegmentIsLeft, Zenon
  <1>4. ASSUME NEW x \in Cell
        PROVE  /\ x \in Segment \/ x \in Selected \ Left => flash[x] = cap.image[x]
               /\ x \notin Selected => flash[x] = before[x]
    <2>1. CASE pc = "block" /\ Same
      BY <1>3, <2>1, Zenon DEF IInv, ChipInv, Open, Writing, Programming, Same
    <2>2. CASE pc = "verify" /\ Verified
      <3>1. pc \in Writing /\ Open = InBlock
        BY <2>2, Zenon DEF Open, Writing
      <3>2. CASE x \in InBlock
        BY <3>1, <3>2, <2>2, Zenon DEF IInv, BlockInv, Verified
      <3>3. CASE x \notin InBlock
        BY <1>1, <1>3, <3>1, <3>3, Zenon DEF IInv, ChipInv
      <3> QED BY <3>2, <3>3, Zenon
    <2> QED BY <2>1, <2>2, Zenon DEF Passes
  <1>5. Open' = {} /\ pc' \notin Writing
    BY <1>2, Zenon DEF Open, Writing
  <1>6. ChipInv'
    <2>1. CASE pc' = "block"
      BY <1>1, <1>2, <1>4, <2>1, CommonFacts, Zenon DEF ChipInv
    <2>2. CASE pc' = "up"
      BY <2>2, Zenon DEF ChipInv, Programming
    <2> QED BY <1>2, <2>1, <2>2, Zenon
  <1>7. BlockInv'
    BY <1>5, Zenon DEF BlockInv
  <1>8. SuccessIsExact'
    <2>1. CASE pc' = "up"
      BY <1>1, <1>2, <1>4, <2>1, CommonFacts, Zenon DEF SuccessIsExact
    <2>2. CASE pc' = "block"
      BY <2>2, Zenon DEF SuccessIsExact
    <2> QED BY <1>2, <2>1, <2>2, Zenon
  <1>9. StoreInv'
    BY <1>1, <1>2, CommonFacts, Zenon DEF IInv, StoreInv
  <1>10. RepeatInv'
    BY <1>1, <1>5, CommonFacts, Zenon DEF IInv, RepeatInv
  <1> QED BY <1>6, <1>7, <1>8, <1>9, <1>10, Zenon DEF SafeInv

\* A stop leaves at most the open block spoilt.
LEMMA StopsKeeps ==
  ASSUME IInv, Common, Stops
  PROVE  SafeInv'
  <1>1. pc' \in {"up", "off"} /\ (pc' = "up" => result' = "error")
    BY Zenon DEF Stops
  <1>2. ChipInv' /\ BlockInv' /\ SuccessIsExact' /\ pc' \notin Writing /\ pc' \notin Programming
    BY <1>1, Zenon DEF ChipInv, BlockInv, SuccessIsExact, Writing, Programming
  <1>3. CASE pc \in Writing
    <2>1. CursorOK /\ pc \in Programming
      BY <1>3, Zenon DEF IInv, TypeInv, Writing, Programming
    <2>2. plan.preserved => InBlock \cap Cells(LiveStore) = {}
      BY <2>1, StoreIsClosed, Zenon DEF IInv
    <2>3. Cells(LiveStore) \subseteq Cell /\ \A x \in Cell \ InBlock : flash'[x] = flash[x]
      BY <1>3, Zenon DEF Cells, Stops, OutsideKept
    <2>4. StoreInv'
      BY <1>2, <2>2, <2>3, CommonFacts, Zenon DEF IInv, StoreInv
    <2>5. RepeatInv'
      BY <1>3, CommonFacts, Zenon DEF IInv, RepeatInv
    <2> QED BY <1>2, <2>4, <2>5, Zenon DEF SafeInv
  <1>4. CASE pc \notin Writing
    <2>1. flash' = flash
      BY <1>4, Zenon DEF Stops
    <2>2. StoreInv' /\ RepeatInv'
      BY <1>2, <2>1, CommonFacts, Zenon DEF IInv, StoreInv, RepeatInv
    <2> QED BY <1>2, <2>2, Zenon DEF SafeInv
  <1> QED BY <1>3, <1>4, Zenon

\* Ranges that do not overlap share no cell.
LEMMA ApartIsDisjoint ==
  ASSUME NEW a \in Range, NEW b \in Range, ~FmpDeviceFlashRangesOverlap(a, b)
  PROVE  Cells(a) \cap Cells(b) = {}
  <1>1. \A x \in Cell : x \in Int
    BY PlanAssumption DEF Cell
  <1>2. a.off \in Nat /\ a.size \in Nat /\ b.off \in Nat /\ b.size \in Nat
    BY Zenon DEF Range
  <1>3. a.off >= b.off + b.size \/ b.off >= a.off + a.size
    BY <1>2 DEF FmpDeviceFlashRangesOverlap
  <1> QED BY <1>1, <1>2, <1>3 DEF Cells

\* A plan that preserves the store was made from the chip's own map, and none of
\* its ranges touches the store.
LEMMA PreservedPlan ==
  ASSUME NEW c \in Capsule, NEW chip, NEW fmapOk \in BOOLEAN, NEW ifdOk \in BOOLEAN,
         Listed(c) => ManifestAcceptable(c), Plan(c, chip, fmapOk, ifdOk).preserved
  PROVE  LET st == FindFmapRegion(LoadFlashFmap(chip, CapsuleFmap(c), TRUE), "SMMSTORE")
             p == Plan(c, chip, fmapOk, ifdOk)
         IN \A i \in DOMAIN p.ranges : Cells(p.ranges[i]) \cap Cells(st) = {}
  <1> DEFINE live == LoadFlashFmap(chip, CapsuleFmap(c), fmapOk)
             p == Plan(c, chip, fmapOk, ifdOk)
             st == FindFmapRegion(live, "SMMSTORE")
  <1>1. Listed(c) /\ LayoutMatches(c, live)
    <2>1. ASSUME ~(Listed(c) /\ LayoutMatches(c, live))
          PROVE  p.preserved = FALSE
      BY <2>1, Zenon DEF Plan
    <2> QED BY <2>1, Zenon
  <1>2. p.ranges = Regions(c) /\ VariableStorePreserved(c, live)
    BY <1>1, Zenon DEF Plan
  <1>3. fmapOk = TRUE
    <2>1. live # NoFmap
      BY <1>1, Zenon DEF LayoutMatches
    <2> QED BY <2>1, Zenon DEF LoadFlashFmap
  <1>4. ASSUME NEW i \in DOMAIN c.names
        PROVE  Cells(Regions(c)[i]) \cap Cells(st) = {}
    <2>1. ~FmpDeviceFlashRangesOverlap(Regions(c)[i], st)
      BY <1>2, Zenon DEF VariableStorePreserved
    <2>2. Regions(c)[i] \in Range /\ st \in Range
      BY RegionIsRange, Zenon DEF Regions
    <2> QED BY <2>1, <2>2, ApartIsDisjoint, Zenon
  <1>5. DOMAIN Regions(c) = DOMAIN c.names
    BY Zenon DEF Regions
  <1> QED BY <1>2, <1>3, <1>4, <1>5, Zenon

\* At the start of an update everything selected is left.
LEMMA SetImageKeeps ==
  ASSUME IInv, NEW c \in Capsule, NEW fmapOk \in BOOLEAN, NEW ifdOk \in BOOLEAN,
         SetImage(c, fmapOk, ifdOk)
  PROVE  SafeInv'
  <1> DEFINE p == Plan(c, flash, fmapOk, ifdOk)
             st == FindFmapRegion(LoadFlashFmap(flash, CapsuleFmap(c), TRUE), "SMMSTORE")
  <1>1. /\ plan' = p /\ cap' = c /\ todo' = p.ranges /\ Offset' = p.ranges[1].off
        /\ pc' = "block" /\ flash' = flash /\ before' = flash
        /\ Listed(c) => ManifestAcceptable(c)
    BY Zenon DEF SetImage
  <1>2. p.ranges \in Seq(Range) /\ p.ranges # <<>>
    BY <1>1, PlanIsSound, Zenon
  <1>3. p.preserved => \A i \in DOMAIN p.ranges : Cells(p.ranges[i]) \cap Cells(st) = {}
    BY <1>1, PreservedPlan, Zenon
  <1>4. LiveStore' = st
    BY <1>1, Zenon DEF LiveStore
  <1> HIDE DEF p, st
  <1>5. StoreInv'
    BY <1>1, <1>3, <1>4, Zenon DEF StoreInv
  <1>6. ASSUME NEW x \in Selected'
        PROVE  x \in Left'
    <2>1. PICK i \in DOMAIN p.ranges : x \in Cells(p.ranges[i])
      BY <1>1, Zenon DEF Selected
    <2>2. x \in Cell
      BY <2>1, Zenon DEF Cells
    <2>3. CASE i = 1
      BY <1>1, <2>1, <2>2, <2>3, Zenon DEF Left, Cells
    <2>4. CASE i # 1
      <3>1. i \in 2 .. Len(todo')
        BY <1>1, <1>2, <2>4
      <3> QED BY <1>1, <2>1, <2>2, <3>1, Zenon DEF Left
    <2> QED BY <2>3, <2>4, Zenon
  <1>7. ChipInv'
    BY <1>1, <1>6, Zenon DEF ChipInv
  <1>8. BlockInv' /\ SuccessIsExact' /\ RepeatInv'
    BY <1>1, Zenon DEF BlockInv, SuccessIsExact, RepeatInv, Writing
  <1> QED BY <1>5, <1>7, <1>8, Zenon DEF SafeInv

\* Boots, resets and refused capsules promise nothing new.
LEMMA MachineKeeps ==
  ASSUME IInv,
         \/ Boot \/ Reset \/ Reprogram
         \/ \E c \in Capsule, fault \in BOOLEAN : SetImageAborts(c, fault)
  PROVE  SafeInv'
  <1> USE DEF Writing, Programming
  <1>0. NoPlan.preserved = FALSE
    BY Zenon DEF NoPlan
  <1>1. ASSUME pc' \in {"up", "off"}, plan' = NoPlan, result' # "success"
        PROVE  SafeInv'
    <2>1. ChipInv' /\ BlockInv' /\ SuccessIsExact'
      BY <1>1, Zenon DEF ChipInv, BlockInv, SuccessIsExact
    <2>2. StoreInv' /\ RepeatInv'
      BY <1>0, <1>1, Zenon DEF StoreInv, RepeatInv, Repeats
    <2> QED BY <2>1, <2>2, Zenon DEF SafeInv
  <1>2. CASE Boot
    BY <1>1, <1>2, Zenon DEF Boot
  <1>3. CASE Reprogram
    BY <1>1, <1>3, Zenon DEF Reprogram
  <1>4. ASSUME NEW c \in Capsule, NEW fault \in BOOLEAN, SetImageAborts(c, fault)
        PROVE  SafeInv'
    BY <1>1, <1>4, Zenon DEF SetImageAborts
  <1>5. CASE Reset
    <2>1. pc' = "off" /\ UNCHANGED <<flash, cap, plan, before, misread>>
      BY <1>5, Zenon DEF Reset
    <2>2. LiveStore' = LiveStore /\ (Repeats' => Repeats)
      BY <2>1, Zenon DEF LiveStore, Repeats, Selected
    <2>3. ChipInv' /\ BlockInv' /\ SuccessIsExact'
      BY <2>1, Zenon DEF ChipInv, BlockInv, SuccessIsExact
    <2>4. StoreInv' /\ RepeatInv'
      BY <2>1, <2>2, Zenon DEF IInv, StoreInv, RepeatInv
    <2> QED BY <2>3, <2>4, Zenon DEF SafeInv
  <1> QED BY <1>2, <1>3, <1>4, <1>5, Zenon

\* Nothing changes.
LEMMA StutterKeeps ==
  ASSUME IInv, UNCHANGED vars
  PROVE  SafeInv'
  <1>1. /\ UNCHANGED <<flash, pc, cap, plan, todo, Offset, Expected, result, before, misread>>
    BY Zenon DEF vars, cursorVars, retryVars
  <1>2. /\ Selected' = Selected /\ Left' = Left /\ InBlock' = InBlock /\ Open' = Open
        /\ Segment' = Segment /\ LiveStore' = LiveStore /\ (Repeats' => Repeats)
    BY <1>1, Zenon DEF Selected, Left, InBlock, Open, Segment, RangeEnd, LiveStore, Repeats
  <1>3. ChipInv' /\ BlockInv'
    BY <1>1, <1>2, Zenon DEF IInv, ChipInv, BlockInv
  <1>4. SuccessIsExact' /\ StoreInv' /\ RepeatInv'
    BY <1>1, <1>2, Zenon DEF IInv, SuccessIsExact, StoreInv, RepeatInv
  <1> QED BY <1>3, <1>4, Zenon DEF SafeInv

-----------------------------------------------------------------------------
(* Progress.  What the recursive sum returns is shown by a least             *)
(* counterexample.                                                           *)

\* A set of numbers that is not empty has a least one.
LEMMA LeastNumber ==
  ASSUME NEW T, T \subseteq Nat, T # {}
  PROVE  \E x \in T : \A y \in T : x <= y
  <1>1. IsWellFoundedOn(OpToRel(<, Nat), Nat)
    BY NatLessThanWellFounded, Zenon
  <1>2. PICK x \in T : \A y \in T : ~(<<y, x>> \in OpToRel(<, Nat))
    BY <1>1, WFMin, Zenon
  <1>3. ASSUME NEW y \in T
        PROVE  x <= y
    <2>1. ~(<<y, x>> \in OpToRel(<, Nat))
      BY <1>2, Zenon
    <2> QED BY <2>1 DEF OpToRel
  <1> QED BY <1>3

\* A set with 0 and the successors of its elements, up to n, has all numbers up
\* to n.
LEMMA UpTo ==
  ASSUME NEW n \in Nat, NEW S, 0 \in S, \A k \in 1 .. n : k - 1 \in S => k \in S
  PROVE  \A k \in 0 .. n : k \in S
  <1> DEFINE T == {k \in 0 .. n : k \notin S}
  <1>1. T \subseteq Nat
    OBVIOUS
  <1>2. ASSUME T # {}
        PROVE  FALSE
    <2>1. PICK k \in T : \A j \in T : k <= j
      <3> HIDE DEF T
      <3> QED BY <1>1, <1>2, LeastNumber, Zenon
    <2>2. k \in 1 .. n /\ k \notin S
      BY <2>1
    <2>3. k - 1 \in S
      <3>1. k - 1 \in 0 .. n /\ ~(k <= k - 1)
        BY <2>2
      <3>2. k - 1 \notin T
        <4> HIDE DEF T
        <4> QED BY <2>1, <3>1
      <3> QED BY <3>1, <3>2
    <2> QED BY <2>2, <2>3
  <1> QED BY <1>2

\* Partial sums exist.
LEMMA SumExists ==
  ASSUME NEW L \in Nat, NEW s
  PROVE  \E g : g = [n \in 0 .. L |-> IF n = 0 THEN 0 ELSE g[n - 1] + s[n]]
  <1> DEFINE Sum(k, g) == g = [n \in 0 .. k |-> IF n = 0 THEN 0 ELSE g[n - 1] + s[n]]
             S == {k \in 0 .. L : \E g : Sum(k, g)}
  <1>1. 0 \in S
    <2> DEFINE g == [n \in 0 .. 0 |-> 0]
    <2>1. Sum(0, g)
      OBVIOUS
    <2> HIDE DEF g, Sum
    <2> QED BY <2>1
  <1>2. ASSUME NEW k \in 1 .. L, k - 1 \in S
        PROVE  k \in S
    <2>1. PICK g : Sum(k - 1, g)
      <3> HIDE DEF Sum
      <3> QED BY <1>2
    <2> DEFINE h == [n \in 0 .. k |-> IF n = k THEN g[k - 1] + s[k] ELSE g[n]]
    <2>2. ASSUME NEW n \in 0 .. k
          PROVE  h[n] = IF n = 0 THEN 0 ELSE h[n - 1] + s[n]
      <3>1. CASE n = k
        BY <3>1
      <3>2. CASE n # k
        <4>1. n \in 0 .. k - 1 /\ h[n] = g[n]
          BY <3>2
        <4>2. g[n] = IF n = 0 THEN 0 ELSE g[n - 1] + s[n]
          BY <4>1, <2>1
        <4>3. n # 0 => h[n - 1] = g[n - 1]
          BY <4>1
        <4> QED BY <4>1, <4>2, <4>3
      <3> QED BY <3>1, <3>2
    <2>3. Sum(k, h)
      <3>1. h = [n \in 0 .. k |-> h[n]]
        OBVIOUS
      <3> HIDE DEF h
      <3> QED BY <2>2, <3>1, Zenon
    <2>4. k \in 0 .. L
      OBVIOUS
    <2> HIDE DEF h, Sum
    <2> QED BY <2>3, <2>4
  <1>3. \A k \in 0 .. L : k \in S
    <2> HIDE DEF S
    <2> QED BY <1>1, <1>2, UpTo
  <1>4. L \in S
    <2> HIDE DEF S
    <2> QED BY <1>3
  <1> QED BY <1>4

\* A later cell is in no earlier block.
LEMMA DivGrows ==
  ASSUME NEW a \in Nat, NEW b \in Nat, NEW B \in Nat \ {0}, a <= b
  PROVE  a \div B <= b \div B
  <1>1. a \div B \in Nat /\ b \div B \in Nat
    BY DivMod
  <1>2. a \div B > b \div B => (a \div B) * B >= (b \div B) * B + B
    BY <1>1, Monotone, Zenon
  <1>3. (a \div B) * B <= a /\ b < (b \div B) * B + B
    BY DivMod, Zenon
  <1>4. (a \div B) * B \in Nat /\ (b \div B) * B \in Nat
    BY <1>1
  <1> DEFINE p == (a \div B) * B
             q == (b \div B) * B
             u == a \div B
             v == b \div B
  <1>5. /\ u \in Nat /\ v \in Nat /\ p \in Nat /\ q \in Nat
        /\ (u > v => p >= q + B) /\ p <= a /\ b < q + B
    BY <1>1, <1>2, <1>3, <1>4, Zenon
  <1> HIDE DEF p, q, u, v
  <1>6. u <= v
    BY <1>5
  <1> QED BY <1>6, Zenon DEF u, v

\* A range counts two steps for each block between its first and its last cell.
LEMMA CountIsNat ==
  ASSUME NEW r \in Range, Fits(r)
  PROVE  FmpDeviceGetFlashRangeStepCount(r) \in Nat
  <1>1. BlockSize \in Nat \ {0} /\ FlashSize \in Nat
    BY PlanAssumption, Zenon
  <1>2. r.off \in Nat /\ r.off + r.size - 1 \in Nat /\ r.off <= r.off + r.size - 1
    BY <1>1 DEF Range, Fits
  <1> DEFINE a == r.off
             b == r.off + r.size - 1
  <1> HIDE DEF a, b
  <1>3. a \div BlockSize \in Nat /\ b \div BlockSize \in Nat
        /\ a \div BlockSize <= b \div BlockSize
    <2>1. a \in Nat /\ b \in Nat /\ a <= b
      BY <1>2, Zenon DEF a, b
    <2> QED BY <1>1, <2>1, DivGrows, DivMod, Zenon
  <1>4. 2 * (b \div BlockSize - a \div BlockSize + 1) \in Nat
    BY <1>3
  <1> QED BY <1>4, Zenon DEF FmpDeviceGetFlashRangeStepCount, a, b

\* TotalSteps adds the counts up.
LEMMA TotalUnfolds ==
  ASSUME NEW r \in Seq(Range)
  PROVE  /\ TotalSteps(r)[0] = 0
         /\ \A n \in 1 .. Len(r) :
              TotalSteps(r)[n] = TotalSteps(r)[n - 1] + FmpDeviceGetFlashRangeStepCount(r[n])
  <1> DEFINE L == Len(r)
             s == [n \in 1 .. L |-> FmpDeviceGetFlashRangeStepCount(r[n])]
             Sum(g) == g = [n \in 0 .. L |->
                              IF n = 0 THEN 0
                              ELSE g[n - 1] + FmpDeviceGetFlashRangeStepCount(r[n])]
  <1>1. L \in Nat
    OBVIOUS
  <1>2. PICK g : g = [n \in 0 .. L |-> IF n = 0 THEN 0 ELSE g[n - 1] + s[n]]
    <2> HIDE DEF L, s
    <2> QED BY <1>1, SumExists, Zenon
  <1>3. \A n \in 0 .. L : n # 0 => s[n] = FmpDeviceGetFlashRangeStepCount(r[n])
    <2> HIDE DEF L
    <2> QED BY <1>1
  <1>4. Sum(g)
    <2> HIDE DEF L, s
    <2> QED BY <1>2, <1>3, Zenon
  <1>5. TotalSteps(r) = CHOOSE h : Sum(h)
    BY Zenon DEF TotalSteps
  <1>6. Sum(TotalSteps(r))
    <2> HIDE DEF Sum
    <2> QED BY <1>4, <1>5, Zenon
  <1> DEFINE t == TotalSteps(r)
  <1>7. t = [n \in 0 .. L |-> IF n = 0 THEN 0
                              ELSE t[n - 1] + FmpDeviceGetFlashRangeStepCount(r[n])]
    BY <1>6, Zenon
  <1> HIDE DEF t, L, s
  <1>8. t[0] = 0 /\ \A n \in 1 .. L : t[n] = t[n - 1] + FmpDeviceGetFlashRangeStepCount(r[n])
    BY <1>1, <1>7
  <1> QED BY <1>8, Zenon DEF t, L

\* It never falls.
LEMMA TotalGrows ==
  ASSUME NEW r \in Seq(Range), \A i \in DOMAIN r : Fits(r[i])
  PROVE  \A n \in 0 .. Len(r) : /\ TotalSteps(r)[n] \in Nat
                                /\ TotalSteps(r)[n] <= TotalSteps(r)[Len(r)]
  <1> DEFINE L == Len(r)
             t == TotalSteps(r)
             count(n) == FmpDeviceGetFlashRangeStepCount(r[n])
             S == {n \in 0 .. L : t[n] \in Nat}
             R == {d \in 0 .. L : t[L - d] <= t[L]}
  <1>1. L \in Nat /\ DOMAIN r = 1 .. L /\ \A n \in 1 .. L : r[n] \in Range /\ Fits(r[n])
    OBVIOUS
  <1>2. \A n \in 1 .. L : count(n) \in Nat
    BY <1>1, CountIsNat, Zenon
  <1>3. t[0] = 0 /\ \A n \in 1 .. L : t[n] = t[n - 1] + count(n)
    BY TotalUnfolds, Zenon
  <1> HIDE DEF t, L, count
  <1>4. \A n \in 0 .. L : n \in S
    <2>1. 0 \in S /\ \A k \in 1 .. L : k - 1 \in S => k \in S
      BY <1>1, <1>2, <1>3
    <2> HIDE DEF S
    <2> QED BY <1>1, <2>1, UpTo, Zenon
  <1>5. \A n \in 0 .. L : t[n] \in Nat
    BY <1>4
  <1>6. \A d \in 0 .. L : d \in R
    <2>1. 0 \in R
      <3>1. L - 0 = L /\ L \in 0 .. L
        BY <1>1
      <3> QED BY <1>1, <1>5, <3>1
    <2>2. ASSUME NEW d \in 1 .. L, d - 1 \in R
          PROVE  d \in R
      <3>1. /\ L - d \in 0 .. L /\ L - d + 1 \in 1 .. L /\ L - d + 1 - 1 = L - d
            /\ L - (d - 1) = L - d + 1 /\ L \in 0 .. L /\ L - d + 1 \in 0 .. L
            /\ d \in 0 .. L
        BY <1>1
      <3>2. t[L - d + 1] = t[L - d] + count(L - d + 1) /\ count(L - d + 1) \in Nat
        BY <1>2, <1>3, <3>1
      <3>3. t[L - d + 1] <= t[L]
        BY <2>2, <3>1
      <3>4. t[L - d] \in Nat /\ t[L - d + 1] \in Nat /\ t[L] \in Nat
        BY <1>5, <3>1
      <3>5. t[L - d] <= t[L]
        BY <3>2, <3>3, <3>4
      <3> QED BY <3>1, <3>5
    <2> HIDE DEF R
    <2> QED BY <1>1, <2>1, <2>2, UpTo, Zenon
  <1>7. ASSUME NEW n \in 0 .. L
        PROVE  t[n] <= t[L]
    <2>1. L - n \in 0 .. L /\ L - (L - n) = n
      BY <1>1
    <2>2. t[L - (L - n)] <= t[L]
      BY <1>6, <2>1
    <2> QED BY <2>1, <2>2
  <1> QED BY <1>5, <1>7, Zenon DEF t, L

\* The ranges that are done, and the steps of the block the update is at.
Done == Len(plan.ranges) - Len(todo)
PlanFits == \A i \in DOMAIN plan.ranges : Fits(plan.ranges[i])
ProgressInv ==
  /\ PlanFits
  /\ pc \in Programming =>
       /\ Len(todo) <= Len(plan.ranges)
       /\ \A i \in DOMAIN todo : todo[i] = plan.ranges[Done + i]
       /\ Step = TotalSteps(plan.ranges)[Done]
                 + 2 * (Offset \div BlockSize - todo[1].off \div BlockSize)
  /\ ProgressAddsUp

\* Where the update is in its current range.
LEMMA PlaceInRange ==
  ASSUME CursorOK, pc \in Programming
  PROVE  LET q == Offset \div BlockSize
             o == todo[1].off \div BlockSize
             e == (todo[1].off + todo[1].size - 1) \div BlockSize
         IN /\ q \in Nat /\ o \in Nat /\ e \in Nat /\ o <= q /\ q <= e
            /\ BlockBase + BlockSize < RangeEnd =>
                 (BlockBase + BlockSize) \div BlockSize = q + 1 /\ q + 1 <= e
            /\ ~(BlockBase + BlockSize < RangeEnd) => e = q
  <1> DEFINE q == Offset \div BlockSize
             f == todo[1].off
             l == todo[1].off + todo[1].size - 1
             next == BlockBase + BlockSize
  <1>1. BlockSize \in Nat \ {0} /\ Offset \in Nat
    BY PlanAssumption, Zenon DEF CursorOK
  <1>2. f \in Nat /\ l \in Nat /\ f <= Offset /\ Offset <= l /\ RangeEnd = l + 1
    <2>1. todo[1] \in Range /\ Head(todo) = todo[1] /\ Offset \in Cells(todo[1])
      BY SegmentFacts, SegmentIsLeft, Zenon
    <2>2. /\ todo[1].off \in Nat /\ todo[1].size \in Nat
          /\ todo[1].off <= Offset /\ Offset < todo[1].off + todo[1].size
      BY <2>1, Zenon DEF Range, Cells
    <2> QED BY <1>1, <2>1, <2>2 DEF RangeEnd
  <1>3. q \in Nat /\ BlockBase = q * BlockSize /\ BlockBase \in Nat
        /\ BlockBase <= Offset /\ Offset < next
    <2>1. q \in Nat /\ BlockBase = q * BlockSize
      BY <1>1, DivMod, Zenon DEF BlockBase
    <2> QED BY <2>1, SegmentFacts, Zenon
  <1>4. next \in Nat /\ next = (q + 1) * BlockSize /\ q + 1 \in Nat /\ next < next + BlockSize
    <2> HIDE DEF q
    <2> QED BY <1>1, <1>3
  <1> HIDE DEF f, l, next, q
  <1>5. f \div BlockSize \in Nat /\ l \div BlockSize \in Nat
        /\ f \div BlockSize <= q /\ q <= l \div BlockSize
    BY <1>1, <1>2, DivMod, DivGrows, Zenon DEF q
  <1>6. next \div BlockSize = q + 1
    BY <1>1, <1>4, DivBlock
  <1>7. ASSUME next < RangeEnd
        PROVE  q + 1 <= l \div BlockSize
    <2>1. next <= l
      BY <1>2, <1>4, <1>7
    <2>2. next \div BlockSize <= l \div BlockSize
      BY <1>1, <1>2, <1>4, <2>1, DivGrows, Zenon
    <2> QED BY <1>6, <2>2
  <1>8. ASSUME ~(next < RangeEnd)
        PROVE  l \div BlockSize = q
    <2>1. q * BlockSize <= l /\ l < q * BlockSize + BlockSize
      <3>1. BlockBase <= l
        BY <1>1, <1>2, <1>3
      <3>2. l < BlockBase + BlockSize
        BY <1>1, <1>2, <1>3, <1>8 DEF next
      <3> QED BY <1>3, <3>1, <3>2, Zenon
    <2> QED BY <1>1, <1>2, <1>3, <2>1, DivBlock, Zenon
  <1> QED BY <1>3, <1>5, <1>6, <1>7, <1>8, Zenon DEF f, l, next, q

\* A block that is passed is counted, and the last one of a range completes the
\* range's count.
LEMMA PassesCounts ==
  ASSUME CursorOK, plan.ranges \in Seq(Range), ProgressInv, pc \in Programming, Advance,
         plan' = plan
  PROVE  ProgressInv'
  <1> DEFINE r == plan.ranges
             t == TotalSteps(r)
             L == Len(r)
             N == Len(todo)
             k == L - N
             q == Offset \div BlockSize
             o == todo[1].off \div BlockSize
             e == (todo[1].off + todo[1].size - 1) \div BlockSize
             next == BlockBase + BlockSize
  <1>1. /\ todo \in Seq(Range) /\ todo # <<>> /\ N \in 1 .. L /\ L \in Nat
        /\ DOMAIN todo = 1 .. N
    BY DEF CursorOK, ProgressInv
  <1>2. k \in 0 .. L /\ k + 1 \in 1 .. L /\ k + 1 \in 0 .. L /\ k + 1 - 1 = k
    <2> HIDE DEF L, N
    <2> QED BY <1>1
  <1>3. /\ Done = k /\ Step = t[k] + 2 * (q - o) /\ \A i \in DOMAIN todo : todo[i] = r[k + i]
        /\ \A i \in DOMAIN r : Fits(r[i])
    BY Zenon DEF ProgressInv, Done, PlanFits
  <1>4. /\ q \in Nat /\ o \in Nat /\ e \in Nat /\ o <= q /\ q <= e
        /\ next < RangeEnd => next \div BlockSize = q + 1 /\ q + 1 <= e
        /\ ~(next < RangeEnd) => e = q
    BY PlaceInRange, Zenon
  <1>5. todo[1] = r[k + 1]
    <2> HIDE DEF r, k, N
    <2> QED BY <1>1, <1>3
  <1>6. /\ t[k + 1] = t[k] + 2 * (e - o + 1)
        /\ t[k] \in Nat /\ t[k + 1] \in Nat /\ t[L] \in Nat /\ t[k + 1] <= t[L]
    <2>1. FmpDeviceGetFlashRangeStepCount(r[k + 1]) = 2 * (e - o + 1)
      BY <1>5, Zenon DEF FmpDeviceGetFlashRangeStepCount
    <2>2. \A n \in 1 .. L : t[n] = t[n - 1] + FmpDeviceGetFlashRangeStepCount(r[n])
      BY TotalUnfolds, Zenon
    <2>3. \A n \in 0 .. L : t[n] \in Nat /\ t[n] <= t[L]
      BY <1>3, TotalGrows, Zenon
    <2>4. L \in 0 .. L
      BY <1>1
    <2> HIDE DEF t, L, k, e, o, r
    <2> QED BY <1>2, <2>1, <2>2, <2>3, <2>4
  <1>7. /\ Step' = Step + 2
        /\ TotalSteps(plan.ranges)' = t /\ Len(plan.ranges)' = L /\ PlanFits'
    BY Zenon DEF Advance, ProgressInv, PlanFits
  <1> HIDE DEF t, L, k, e, o, q, next, N
  <1>8. CASE next < RangeEnd
    <2>1. todo' = todo /\ Offset' = next /\ pc' = "block" /\ result' = result
      BY <1>8, Zenon DEF Advance, next
    <2>2. Step' = t[k] + 2 * (q + 1 - o) /\ Step' <= t[L]
      BY <1>3, <1>4, <1>6, <1>7, <1>8
    <2>3. Done' = k
      BY <2>1, Zenon DEF Done, k, L, N
    <2>4. Offset' \div BlockSize = q + 1 /\ todo'[1].off \div BlockSize = o
      BY <1>4, <1>8, <2>1, Zenon DEF o
    <2>5. ProgressAddsUp'
      BY <1>7, <2>1, <2>2, Zenon DEF ProgressAddsUp
    <2>6. Len(todo') <= L
      BY <1>1, <2>1 DEF N
    <2>7. \A i \in DOMAIN todo' : todo'[i] = r[k + i]
      BY <1>3, <2>1, Zenon
    <2>8. Step' = t[k] + 2 * (Offset' \div BlockSize - todo'[1].off \div BlockSize)
      <3> DEFINE x == Offset' \div BlockSize
                 y == todo'[1].off \div BlockSize
      <3>1. x = q + 1 /\ y = o
        BY <2>4, Zenon
      <3> HIDE DEF x, y
      <3>2. Step' = t[k] + 2 * (x - y)
        BY <1>4, <1>6, <2>2, <3>1
      <3> QED BY <3>2, Zenon DEF x, y
    <2> QED BY <1>7, <2>3, <2>5, <2>6, <2>7, <2>8, Zenon DEF ProgressInv
  <1>9. CASE ~(next < RangeEnd)
    <2>1. Step' = t[k + 1]
      BY <1>3, <1>4, <1>6, <1>7, <1>9
    <2>2. CASE N > 1
      <3>1. todo' = Tail(todo) /\ Offset' = todo[2].off /\ pc' = "block"
        BY <1>9, <2>2, Zenon DEF Advance, next, N
      <3>2. /\ Len(todo') = N - 1 /\ DOMAIN todo' = 1 .. N - 1
            /\ \A i \in DOMAIN todo' : todo'[i] = todo[i + 1] /\ i + 1 \in DOMAIN todo
        BY <1>1, <2>2, <3>1 DEF N
      <3>3. Done' = k + 1 /\ Len(todo') <= L
        <4>1. Done' = L - Len(todo')
          BY Zenon DEF Done, L
        <4> QED BY <1>1, <3>2, <4>1 DEF k
      <3>4. ASSUME NEW i \in DOMAIN todo'
            PROVE  todo'[i] = r[k + 1 + i]
        <4>1. todo'[i] = todo[i + 1] /\ i + 1 \in DOMAIN todo
          BY <3>2, Zenon
        <4>2. k + (i + 1) = k + 1 + i
          BY <1>2, <3>2
        <4> HIDE DEF r
        <4> QED BY <1>3, <4>1, <4>2, Zenon
      <3>5. todo'[1] = todo[2]
        <4>1. 1 \in DOMAIN todo' /\ 1 + 1 = 2
          BY <1>1, <2>2, <3>2
        <4> QED BY <3>2, <4>1
      <3>6. Step' = t[k + 1] + 2 * (Offset' \div BlockSize - todo'[1].off \div BlockSize)
        <4>1. todo[2].off \in Nat /\ BlockSize \in Nat \ {0}
          <5>1. 2 \in DOMAIN todo
            BY <1>1, <2>2
          <5>2. todo[2] \in Range
            BY <1>1, <5>1
          <5> QED BY <5>2, PlanAssumption, Zenon DEF Range
        <4>2. todo[2].off \div BlockSize \in Nat
          BY <4>1, DivMod, Zenon
        <4>3. 2 * (todo[2].off \div BlockSize - todo[2].off \div BlockSize) = 0
          BY <4>2
        <4>4. 2 * (Offset' \div BlockSize - todo'[1].off \div BlockSize) = 0
          BY <3>1, <3>5, <4>3, Zenon
        <4>5. t[k + 1] + 0 = t[k + 1]
          BY <1>6
        <4> QED BY <2>1, <4>4, <4>5, Zenon
      <3>7. ProgressAddsUp'
        BY <1>6, <1>7, <2>1, <3>1, Zenon DEF ProgressAddsUp
      <3> QED BY <1>7, <3>3, <3>4, <3>6, <3>7, Zenon DEF ProgressInv
    <2>3. CASE ~(N > 1)
      <3>1. pc' = "up" /\ result' = "success"
        BY <1>9, <2>3, Zenon DEF Advance, next, N
      <3>2. k + 1 = L
        BY <1>1, <2>3 DEF k
      <3>3. ProgressAddsUp'
        BY <1>6, <1>7, <2>1, <3>2, Zenon DEF ProgressAddsUp
      <3> QED BY <1>7, <3>1, <3>3, Zenon DEF ProgressInv, Programming
    <2> QED BY <2>2, <2>3, Zenon
  <1> QED BY <1>8, <1>9, Zenon

\* The invariant is inductive.
LEMMA ProgressStep == IInv /\ ProgressInv /\ [Next]_vars => ProgressInv'
  <1> SUFFICES ASSUME IInv, ProgressInv, [Next]_vars PROVE ProgressInv'
    BY Zenon
  <1>0. TypeInv /\ CursorOK /\ plan.ranges \in Seq(Range)
    BY Zenon DEF IInv, TypeInv, ChipOK
  <1>1. ASSUME UNCHANGED <<plan, todo, Offset, Step>>,
               pc' \in Programming => pc \in Programming,
               pc' = "up" /\ result' = "success" => pc = "up" /\ result = "success"
        PROVE  ProgressInv'
    BY <1>1, Zenon DEF ProgressInv, Done, PlanFits, ProgressAddsUp
  <1>2. ASSUME UNCHANGED <<plan, Step>>, pc' \notin Programming,
               pc' = "up" => result' # "success"
        PROVE  ProgressInv'
    BY <1>2, Zenon DEF ProgressInv, PlanFits, ProgressAddsUp
  <1>3. ASSUME plan' = NoPlan, pc' \notin Programming
        PROVE  ProgressInv'
    <2>1. PlanFits'
      BY <1>3 DEF PlanFits, NoPlan
    <2> QED BY <1>3, <2>1, Zenon DEF ProgressInv, ProgressAddsUp
  <1>4. CASE Programs \/ PowerCut
    <2>1. Form /\ plan' = plan
      BY <1>0, <1>4, StepHasForm, Zenon DEF Form, Common
    <2>2. CASE Begins \/ Works
      BY <1>1, <2>1, <2>2, Zenon DEF Begins, Works, Stays, Writing
    <2>3. CASE Passes
      BY <1>0, <2>1, <2>3, PassesCounts, Zenon DEF Passes, Programming
    <2>4. CASE Stops
      BY <1>2, <2>1, <2>4, Zenon DEF Stops, Programming
    <2> QED BY <2>1, <2>2, <2>3, <2>4, Zenon DEF Form
  <1>5. ASSUME NEW c \in Capsule, NEW fmapOk \in BOOLEAN, NEW ifdOk \in BOOLEAN,
               SetImage(c, fmapOk, ifdOk)
        PROVE  ProgressInv'
    <2> DEFINE p == Plan(c, flash, fmapOk, ifdOk)
               r == p.ranges
    <2>1. r \in Seq(Range) /\ r # <<>> /\ \A i \in DOMAIN r : Fits(r[i])
      BY <1>5, PlanIsSound, Zenon DEF SetImage
    <2>2. /\ plan' = p /\ todo' = r /\ Offset' = r[1].off /\ Step' = 0 /\ pc' = "block"
      BY <1>5, Zenon DEF SetImage
    <2>3. plan'.ranges = r /\ PlanFits'
      BY <2>1, <2>2, Zenon DEF PlanFits
    <2> HIDE DEF p, r
    <2>4. Len(r) \in Nat /\ Len(r) <= Len(r) /\ Len(r) - Len(r) = 0 /\ r[1] \in Range
          /\ (\A i \in DOMAIN r : r[0 + i] = r[i]) /\ 0 \in 0 .. Len(r)
      BY <2>1
    <2>5. Done' = 0
      BY <2>2, <2>3, <2>4, Zenon DEF Done
    <2>6. TotalSteps(r)[0] = 0 /\ 0 <= TotalSteps(r)[Len(r)]
      BY <2>1, <2>4, TotalUnfolds, TotalGrows, Zenon
    <2>7. 0 = 0 + 2 * (r[1].off \div BlockSize - r[1].off \div BlockSize)
      <3>1. r[1].off \div BlockSize \in Nat
        BY <2>4, PlanAssumption, DivMod, Zenon DEF Range
      <3> QED BY <3>1
    <2>8. ProgressAddsUp'
      BY <2>2, <2>3, <2>6, Zenon DEF ProgressAddsUp
    <2> QED BY <2>2, <2>3, <2>4, <2>5, <2>6, <2>7, <2>8, Zenon DEF ProgressInv
  <1>6. CASE Boot \/ \E c \in Capsule, fault \in BOOLEAN : SetImageAborts(c, fault)
    BY <1>3, <1>6, Zenon DEF Boot, SetImageAborts, Programming
  <1>7. CASE Reprogram
    BY <1>3, <1>7, Zenon DEF Reprogram, Programming
  <1>8. CASE Reset
    BY <1>2, <1>8, Zenon DEF Reset, cursorVars, Programming
  <1>9. CASE UNCHANGED vars
    BY <1>1, <1>9, Zenon DEF vars, cursorVars
  <1> QED BY <1>4, <1>5, <1>6, <1>7, <1>8, <1>9, Zenon DEF Next

\* Nothing is planned yet.
LEMMA InitProgress == Init => ProgressInv
  <1>1. Init => PlanFits
    BY DEF Init, PlanFits, NoPlan
  <1> QED BY <1>1, Zenon DEF Init, ProgressInv, ProgressAddsUp, Programming

-----------------------------------------------------------------------------
(* Operations run out. *)

\* The products that the measure is made of.
LEMMA Products ==
  ASSUME NEW R \in Nat \ {0}, NEW A \in 0 .. R - 1, NEW P \in Nat
  PROVE  /\ (R - 1 - A) * P \in Nat
         /\ (R - 1 - A) * P + P <= R * P
         /\ A + 1 < R => (R - 1 - (A + 1)) * P = (R - 1 - A) * P - P
  <1>1. R - 1 - A \in Nat /\ A * P \in Nat
    OBVIOUS
  <1>2. (R - 1 - A) * P \in Nat
    BY <1>1
  <1>3. (R - 1 - A) * P + P + A * P = R * P
    OBVIOUS
  <1>4. (R - 1 - (A + 1)) * P = (R - 1 - A) * P - P
    OBVIOUS
  <1> QED BY <1>1, <1>2, <1>3, <1>4

\* What is left of the attempts after the current one.
Attempts == (RetryCount - 1 - Attempt) * PerAttempt

\* The measure at each place.
LEMMA AtBlockIs ==
  ASSUME CursorOK
  PROVE  /\ RetryCount \in Nat \ {0} /\ PerAttempt = 2 * RetryCount + 1
         /\ Attempts \in Nat /\ PerBlock \in Nat /\ Attempts + PerAttempt + 1 <= PerBlock
         /\ pc = "block" => AtBlock = PerBlock
         /\ pc = "erase" => AtBlock = Attempts + 2 * RetryCount - tries + 1
         /\ pc = "write" => AtBlock = Attempts + RetryCount - tries + 1
         /\ pc = "verify" => AtBlock = Attempts + 1
         /\ pc \in Programming => AtBlock \in Nat \ {0}
  <1>1. /\ RetryCount \in Nat \ {0} /\ PerAttempt = 2 * RetryCount + 1
        /\ Attempt \in 0 .. RetryCount - 1 /\ tries \in 0 .. RetryCount - 1
    BY UpdateAssumption, Zenon DEF CursorOK, PerAttempt
  <1>2. PerAttempt \in Nat
    BY <1>1
  <1>3. Attempts \in Nat /\ Attempts + PerAttempt <= RetryCount * PerAttempt
    BY <1>1, <1>2, Products, Zenon DEF Attempts
  <1>4. RetryCount * PerAttempt \in Nat
    BY <1>1, <1>2
  <1>5. PerBlock \in Nat \ {0} /\ Attempts + PerAttempt + 1 <= PerBlock
    BY <1>2, <1>3, <1>4 DEF PerBlock
  <1>6. /\ pc = "block" => AtBlock = PerBlock
        /\ pc = "erase" => AtBlock = Attempts + 2 * RetryCount - tries + 1
        /\ pc = "write" => AtBlock = Attempts + RetryCount - tries + 1
        /\ pc = "verify" => AtBlock = Attempts + 1
    BY DEF AtBlock, Attempts
  <1> HIDE DEF Attempts
  <1>7. pc \in Programming => AtBlock \in Nat \ {0}
    BY <1>1, <1>3, <1>5, <1>6 DEF Programming
  <1> QED BY <1>1, <1>3, <1>5, <1>6, <1>7, Zenon

\* The blocks after the current one.
After == (TotalSteps(plan.ranges)[Len(plan.ranges)] - Step) \div 2 - 1

\* The block the update is at has not been counted yet.
LEMMA BlocksAfter ==
  ASSUME CursorOK, plan.ranges \in Seq(Range), ProgressInv, pc \in Programming
  PROVE  /\ TotalSteps(plan.ranges)[Len(plan.ranges)] \in Nat /\ Step \in Nat
         /\ After \in Nat
  <1> DEFINE r == plan.ranges
             t == TotalSteps(r)
             L == Len(r)
             q == Offset \div BlockSize
             o == todo[1].off \div BlockSize
             e == (todo[1].off + todo[1].size - 1) \div BlockSize
  <1>1. q \in Nat /\ o \in Nat /\ e \in Nat /\ o <= q /\ q <= e
    BY PlaceInRange, Zenon
  <1>2. /\ Len(todo) \in Nat \ {0} /\ L \in Nat /\ Len(todo) <= L
        /\ DOMAIN todo = 1 .. Len(todo) /\ 1 \in DOMAIN todo
    BY DEF CursorOK, ProgressInv
  <1>3. Done \in 0 .. L /\ Done + 1 \in 1 .. L /\ Done + 1 \in 0 .. L /\ Done + 1 - 1 = Done
    BY <1>2 DEF Done
  <1>4. todo[1] = r[Done + 1] /\ Step = t[Done] + 2 * (q - o) /\ Step \in Nat
    BY <1>2, Zenon DEF ProgressInv, CursorOK
  <1>5. /\ \A n \in 0 .. L : t[n] \in Nat /\ t[n] <= t[L]
        /\ t[Done + 1] = t[Done] + FmpDeviceGetFlashRangeStepCount(r[Done + 1])
    <2>1. \A i \in DOMAIN r : Fits(r[i])
      BY Zenon DEF ProgressInv, PlanFits
    <2>2. \A n \in 1 .. L : t[n] = t[n - 1] + FmpDeviceGetFlashRangeStepCount(r[n])
      BY TotalUnfolds, Zenon
    <2>3. \A n \in 0 .. L : t[n] \in Nat /\ t[n] <= t[L]
      BY <2>1, TotalGrows, Zenon
    <2> HIDE DEF t, L, r
    <2>4. t[Done + 1] = t[Done + 1 - 1] + FmpDeviceGetFlashRangeStepCount(r[Done + 1])
      BY <1>3, <2>2
    <2> QED BY <1>3, <2>3, <2>4, Zenon
  <1>6. FmpDeviceGetFlashRangeStepCount(todo[1]) = 2 * (e - o + 1)
    BY Zenon DEF FmpDeviceGetFlashRangeStepCount
  <1>7. t[Done] \in Nat /\ t[Done + 1] \in Nat /\ t[L] \in Nat /\ t[Done + 1] <= t[L]
    BY <1>2, <1>3, <1>5
  <1>8. t[Done + 1] = t[Done] + 2 * (e - o + 1)
    BY <1>4, <1>5, <1>6, Zenon
  <1> HIDE DEF q, o, e, t, L
  <1>9. Step + 2 <= t[L]
    BY <1>1, <1>4, <1>7, <1>8
  <1>10. (t[L] - Step) \div 2 - 1 \in Nat
    BY <1>4, <1>7, <1>9
  <1> QED BY <1>4, <1>7, <1>10, Zenon DEF After, t, L, r

\* Whatever an operation comes to, fewer are left.
LEMMA LeavesFewer ==
  ASSUME IInv, ProgressInv, Programs
  PROVE  OperationsLeft \in Nat /\ OperationsLeft' < OperationsLeft
  <1> DEFINE R == RetryCount
             all == TotalSteps(plan.ranges)[Len(plan.ranges)]
  <1>1. CursorOK /\ TypeInv /\ plan.ranges \in Seq(Range)
    BY Zenon DEF IInv, TypeInv, ChipOK
  <1>2. pc \in Programming /\ plan' = plan
    BY Zenon DEF Programs, ReadBlock, EraseBlock, WriteBlock, VerifyFlashWrite, Programming
  <1>3. /\ all \in Nat /\ Step \in Nat /\ After \in Nat
        /\ After = (all - Step) \div 2 - 1
    BY <1>1, <1>2, BlocksAfter, Zenon DEF After
  <1>4. /\ R \in Nat \ {0} /\ PerAttempt = 2 * R + 1
        /\ Attempts \in Nat /\ PerBlock \in Nat /\ Attempts + PerAttempt + 1 <= PerBlock
        /\ pc = "block" => AtBlock = PerBlock
        /\ pc = "erase" => AtBlock = Attempts + 2 * R - tries + 1
        /\ pc = "write" => AtBlock = Attempts + R - tries + 1
        /\ pc = "verify" => AtBlock = Attempts + 1
        /\ AtBlock \in Nat \ {0}
    BY <1>1, <1>2, AtBlockIs, Zenon
  <1>5. OperationsLeft = After * PerBlock + AtBlock
    BY <1>2, Zenon DEF OperationsLeft, After
  <1>6. After * PerBlock \in Nat
    BY <1>3, <1>4
  <1>7. OperationsLeft \in Nat \ {0}
    BY <1>4, <1>5, <1>6
  <1> SUFFICES OperationsLeft' < OperationsLeft
    BY <1>7, Zenon
  <1>8. ASSUME pc' \notin Programming
        PROVE  OperationsLeft' < OperationsLeft
    <2>1. OperationsLeft' = 0
      BY <1>8, Zenon DEF OperationsLeft
    <2> QED BY <1>7, <2>1
  <1>9. CASE Advance
    <2>1. pc' \in {"block", "up"} /\ Step' = Step + 2
      BY <1>1, <1>2, <1>9, AdvanceFacts, Zenon DEF Advance
    <2>2. CASE pc' = "up"
      BY <1>8, <2>2, Zenon DEF Programming
    <2>3. CASE pc' = "block"
      <3>1. pc' \in Programming /\ AtBlock' = PerBlock
        BY <2>3 DEF Programming, AtBlock
      <3>2. OperationsLeft' = ((all - (Step + 2)) \div 2 - 1) * PerBlock + PerBlock
        BY <1>2, <2>1, <3>1, Zenon DEF OperationsLeft
      <3> HIDE DEF all
      <3>3. (all - (Step + 2)) \div 2 - 1 = After - 1
        BY <1>3
      <3>4. (After - 1) * PerBlock + PerBlock = After * PerBlock
        BY <1>3, <1>4
      <3>5. OperationsLeft' = After * PerBlock
        BY <3>2, <3>3, <3>4, Zenon
      <3> QED BY <1>4, <1>5, <1>6, <3>5
    <2> QED BY <2>1, <2>2, <2>3, Zenon
  <1>10. ASSUME pc' \in Writing, Step' = Step, AtBlock' \in Int, AtBlock' < AtBlock
         PROVE  OperationsLeft' < OperationsLeft
    <2>1. OperationsLeft' = After * PerBlock + AtBlock'
      BY <1>2, <1>10, Zenon DEF OperationsLeft, After, Programming, Writing
    <2> QED BY <1>4, <1>5, <1>6, <1>10, <2>1
  <1>11. /\ Attempt \in 0 .. R - 1 /\ tries \in 0 .. R - 1
    BY <1>1, Zenon DEF CursorOK
  <1>12. CASE IoError
    BY <1>8, <1>12, Zenon DEF IoError, Programming
  <1>13. ASSUME pc \in Writing, AttemptFails
         PROVE  OperationsLeft' < OperationsLeft
    <2>1. CASE Attempt + 1 < R
      <3>1. Attempt' = Attempt + 1 /\ tries' = 0 /\ pc' = "erase" /\ Step' = Step
        BY <1>13, <2>1 DEF AttemptFails, cursorVars
      <3>2. Attempts' = Attempts - PerAttempt
        <4>1. Attempts' = (R - 1 - (Attempt + 1)) * PerAttempt
          BY <3>1, Zenon DEF Attempts, PerAttempt
        <4>2. PerAttempt \in Nat
          BY <1>4
        <4> QED BY <1>4, <1>11, <2>1, <4>1, <4>2, Products, Zenon DEF Attempts
      <3>3. AtBlock' = Attempts' + 2 * R - 0 + 1
        BY <3>1 DEF AtBlock, Attempts
      <3> HIDE DEF R
      <3>4. AtBlock' = Attempts
        BY <1>4, <3>2, <3>3
      <3>5. AtBlock' \in Int /\ AtBlock' < AtBlock
        BY <1>4, <1>11, <1>13, <3>4 DEF Writing
      <3> QED BY <1>10, <3>1, <3>5, Zenon DEF Writing
    <2>2. CASE ~(Attempt + 1 < R)
      BY <1>12, <1>13, <2>2, Zenon DEF AttemptFails
    <2> QED BY <2>1, <2>2, Zenon
  <1>14. ASSUME pc \in {"erase", "write"}, OperationFails
         PROVE  OperationsLeft' < OperationsLeft
    <2>1. CASE tries + 1 < R
      <3>1. Attempt' = Attempt /\ tries' = tries + 1 /\ pc' = pc /\ Step' = Step
        BY <1>14, <2>1 DEF OperationFails, cursorVars
      <3>2. Attempts' = Attempts
        BY <3>1, Zenon DEF Attempts
      <3>3. /\ pc = "erase" => AtBlock' = Attempts' + 2 * R - (tries + 1) + 1
            /\ pc = "write" => AtBlock' = Attempts' + R - (tries + 1) + 1
        BY <3>1 DEF AtBlock, Attempts
      <3> HIDE DEF R
      <3>4. AtBlock' \in Int /\ AtBlock' < AtBlock
        BY <1>4, <1>11, <1>14, <3>2, <3>3
      <3> QED BY <1>10, <1>14, <3>1, <3>4, Zenon DEF Writing
    <2>2. CASE ~(tries + 1 < R)
      BY <1>13, <1>14, <2>2, Zenon DEF OperationFails, Writing
    <2> QED BY <2>1, <2>2, Zenon
  <1>15. CASE EraseBlock
    <2>1. CASE tries' = 0 /\ pc' = "write" /\ UNCHANGED <<cursorVars, Attempt>>
      <3>1. Attempts' = Attempts /\ pc = "erase" /\ Step' = Step
        BY <1>15, <2>1, Zenon DEF Attempts, EraseBlock, cursorVars
      <3>2. AtBlock' = Attempts' + R - 0 + 1
        BY <2>1 DEF AtBlock, Attempts
      <3> HIDE DEF R
      <3>3. AtBlock' \in Int /\ AtBlock' < AtBlock
        BY <1>4, <1>11, <3>1, <3>2
      <3> QED BY <1>10, <2>1, <3>1, <3>3, Zenon DEF Writing
    <2>2. CASE OperationFails
      BY <1>14, <1>15, <2>2, Zenon DEF EraseBlock
    <2> QED BY <1>15, <2>1, <2>2, Zenon DEF EraseBlock
  <1>16. CASE WriteBlock
    <2>1. CASE tries' = 0 /\ pc' = "verify" /\ UNCHANGED <<cursorVars, Attempt>>
      <3>1. Attempts' = Attempts /\ pc = "write" /\ Step' = Step
        BY <1>16, <2>1, Zenon DEF Attempts, WriteBlock, cursorVars
      <3>2. AtBlock' = Attempts' + 1
        BY <2>1 DEF AtBlock, Attempts
      <3> HIDE DEF R
      <3>3. AtBlock' \in Int /\ AtBlock' < AtBlock
        BY <1>4, <1>11, <3>1, <3>2
      <3> QED BY <1>10, <2>1, <3>1, <3>3, Zenon DEF Writing
    <2>2. CASE OperationFails
      BY <1>14, <1>16, <2>2, Zenon DEF WriteBlock
    <2> QED BY <1>16, <2>1, <2>2, Zenon DEF WriteBlock
  <1>17. ASSUME NEW readable \in BOOLEAN, VerifyFlashWrite(readable)
         PROVE  OperationsLeft' < OperationsLeft
    BY <1>9, <1>13, <1>17, Zenon DEF VerifyFlashWrite, Writing
  <1>18. ASSUME NEW readable \in BOOLEAN, ReadBlock(readable)
         PROVE  OperationsLeft' < OperationsLeft
    <2>1. CASE pc' = "erase" /\ UNCHANGED <<cursorVars, Attempt, tries>>
      <3>1. Attempts' = Attempts /\ pc = "block" /\ Step' = Step
        BY <1>18, <2>1, Zenon DEF Attempts, ReadBlock, cursorVars
      <3>2. AtBlock' = Attempts' + 2 * R - tries + 1
        BY <2>1 DEF AtBlock, Attempts
      <3> HIDE DEF R
      <3>3. AtBlock' \in Int /\ AtBlock' < AtBlock
        BY <1>4, <1>11, <3>1, <3>2
      <3> QED BY <1>10, <2>1, <3>1, <3>3, Zenon DEF Writing
    <2> QED BY <1>9, <1>12, <1>18, <2>1, Zenon DEF ReadBlock
  <1> QED BY <1>7, <1>15, <1>16, <1>17, <1>18, Zenon DEF Programs

-----------------------------------------------------------------------------
(* The services and their store. *)

\* A chip whose only map, if it has one, is in cell p.
OnlyAt(p, chip) == \A x \in Cell : chip[x] \in DOMAIN FmapIn => x = p

\* The store that a chip's own map names.
StoreOn(chip) == FindFmapRegion(LocateFmapInImage(chip, Cell), "SMMSTORE")

\* The chip's map as an update finds it.
Live == LoadFlashFmap(before, CapsuleFmap(cap), TRUE)

\* What ServicesHaveTheirStore says, from the last update on.
StoreSinceUpdate ==
  pc = "up" /\ services /\ ~failed => \A x \in Cells(store) : flash[x] = before[x]

\* And up to the last update, while the firmware runs.
StoreUntilUpdate ==
  pc # "off" /\ services /\ ~failed => \A x \in Cells(store) : before[x] = booted[x]

\* While the services are the real ones, the chip's map names the store of the
\* running firmware, and a preserving plan was made from that map.
ServiceInv(p) ==
  /\ OnlyAt(p, flash) /\ OnlyAt(p, before)
  /\ pc \in Writing => \A x \in InBlock : Expected[x] \in DOMAIN FmapIn => x = p
  /\ plan.preserved => /\ Listed(cap) /\ ManifestAcceptable(cap) /\ LayoutMatches(cap, Live)
                       /\ VariableStorePreserved(cap, Live) /\ plan.ranges = Regions(cap)
  /\ services /\ ~failed =>
       /\ pc = "up" => store = StoreOn(flash)
       /\ pc \in Programming => store = StoreOn(before)
  /\ StoreSinceUpdate

\* The map is found wherever its cell is looked at.
LEMMA FoundAt ==
  ASSUME NEW p \in Cell, NEW chip, OnlyAt(p, chip), NEW cells, cells \subseteq Cell
  PROVE  LocateFmapInImage(chip, cells) =
           IF p \in cells /\ chip[p] \in DOMAIN FmapIn THEN chip[p] ELSE NoFmap
  <1> DEFINE found == {x \in cells : chip[x] \in DOMAIN FmapIn}
             first == CHOOSE x \in found : \A y \in found : x <= y
  <1>1. LocateFmapInImage(chip, cells) = IF found = {} THEN NoFmap ELSE chip[first]
    BY Zenon DEF LocateFmapInImage
  <1>2. found \subseteq {p}
    BY Zenon DEF OnlyAt
  <1>3. CASE p \in cells /\ chip[p] \in DOMAIN FmapIn
    <2>1. found = {p}
      BY <1>2, <1>3, Zenon
    <2>2. p <= p
      BY PlanAssumption DEF Cell
    <2>3. first \in found
      <3> HIDE DEF found
      <3> QED BY <2>1, <2>2, Zenon
    <2> QED BY <1>1, <1>3, <2>1, <2>3, Zenon
  <1>4. CASE ~(p \in cells /\ chip[p] \in DOMAIN FmapIn)
    <2>1. found = {}
      BY <1>2, <1>4, Zenon
    <2> QED BY <1>1, <1>4, <2>1, Zenon
  <1> QED BY <1>3, <1>4, Zenon

\* A map that was loaded is the chip's, and is one (LoadFlashFmap).
LEMMA LoadedIsLive ==
  ASSUME NEW p \in Cell, NEW chip, OnlyAt(p, chip), NEW fmap, NEW ok,
         LoadFlashFmap(chip, fmap, ok) # NoFmap
  PROVE  /\ LoadFlashFmap(chip, fmap, ok) = LocateFmapInImage(chip, Cell)
         /\ LoadFlashFmap(chip, fmap, ok) = chip[p]
         /\ chip[p] \in DOMAIN FmapIn
  <1> DEFINE area == Cells(FindFmapRegion(fmap, "FMAP"))
  <1>1. LoadFlashFmap(chip, fmap, ok) = LocateFmapInImage(chip, area)
    BY Zenon DEF LoadFlashFmap
  <1>2. area \subseteq Cell
    BY Zenon DEF Cells
  <1> HIDE DEF area
  <1>3. p \in area /\ chip[p] \in DOMAIN FmapIn /\ LocateFmapInImage(chip, area) = chip[p]
    BY <1>1, <1>2, FoundAt, Zenon
  <1>4. LocateFmapInImage(chip, Cell) = chip[p]
    BY <1>3, FoundAt, Zenon
  <1> QED BY <1>1, <1>3, <1>4, Zenon

\* What an operation leaves in a cell.
LEMMA CellSources ==
  ASSUME TypeInv, Programs \/ PowerCut, NEW x \in Cell
  PROVE  \/ flash'[x] = flash[x] \/ flash'[x] \in {Erased, Garbage}
         \/ pc \in Writing /\ x \in InBlock /\ flash'[x] = Expected[x]
  <1>1. ASSUME NEW v, flash' = Fill(v)
        PROVE  flash'[x] = flash[x] \/ flash'[x] = v
    BY <1>1, Zenon DEF Fill
  <1>2. CASE \E readable \in BOOLEAN : ReadBlock(readable) \/ VerifyFlashWrite(readable)
    BY <1>2, Zenon DEF ReadBlock, VerifyFlashWrite
  <1>3. CASE EraseBlock
    BY <1>1, <1>3, Zenon DEF EraseBlock
  <1>4. CASE WriteBlock
    <2>1. CASE flash' = [y \in Cell |-> IF y \in InBlock THEN Expected[y] ELSE flash[y]]
      BY <1>4, <2>1, Zenon DEF WriteBlock, Writing
    <2>2. CASE flash' \in {flash, Fill(Garbage)}
      BY <1>1, <2>2, Zenon
    <2> QED BY <1>4, <2>1, <2>2, Zenon DEF WriteBlock
  <1>5. CASE PowerCut
    BY <1>1, <1>5, Zenon DEF PowerCut
  <1> QED BY <1>2, <1>3, <1>4, <1>5, Zenon DEF Programs

\* An update that answers success and leaves the services leaves them their store,
\* and the map that names it.
LEMMA SuccessKeepsStore ==
  ASSUME NEW p \in Cell, OneFmapPlace(p), MapKeepsStore(p), IInv, IInv', ServiceInv(p),
         OnlyAt(p, flash'), Form, Passes, pc' = "up", services', ~failed'
  PROVE  store' = StoreOn(flash') /\ StoreSinceUpdate'
  <1>1. /\ pc \in Programming /\ Advance /\ flash' = flash /\ plan' = plan /\ cap' = cap
        /\ before' = before /\ cap \in Capsule
    BY Zenon DEF Form, Common, Passes, Programming, IInv, TypeInv, ChipOK
  <1>2. result' = "success" /\ store' = store
    BY <1>1, AdvanceFacts, Zenon DEF IInv, TypeInv, Advance
  <1>3. services /\ plan.preserved /\ ~failed
    <2>1. pc' # "block"
      BY Zenon
    <2>2. services' = (services /\ ~FmpDeviceShouldDisableVariableServices) /\ failed' = failed
      BY <1>1, <2>1, Zenon DEF Advance, ServicesAfter
    <2>3. services /\ ~FmpDeviceShouldDisableVariableServices /\ ~failed
      BY <2>2, Zenon
    <2> QED BY <2>3, Zenon DEF FmpDeviceShouldDisableVariableServices
  <1>4. /\ Listed(cap) /\ ManifestAcceptable(cap) /\ LayoutMatches(cap, Live)
        /\ VariableStorePreserved(cap, Live) /\ plan.ranges = Regions(cap)
        /\ store = StoreOn(before) /\ OnlyAt(p, before)
    BY <1>1, <1>3, Zenon DEF ServiceInv
  <1>5. Live = LocateFmapInImage(before, Cell) /\ Live = before[p] /\ Live \in DOMAIN FmapIn
    <2>1. Live # NoFmap
      BY <1>4, Zenon DEF LayoutMatches
    <2>2. /\ Live = LocateFmapInImage(before, Cell) /\ Live = before[p]
          /\ before[p] \in DOMAIN FmapIn
      BY <1>4, <2>1, LoadedIsLive, Zenon DEF Live
    <2> QED BY <2>2, Zenon
  <1>6. store = FindFmapRegion(Live, "SMMSTORE") /\ LiveStore = store
    BY <1>4, <1>5, Zenon DEF StoreOn, LiveStore, Live
  <1>7. StoreSinceUpdate'
    <2>1. \A x \in Cells(LiveStore) : flash[x] = before[x]
      BY <1>3, Zenon DEF IInv, StoreInv
    <2> QED BY <1>1, <1>2, <1>6, <2>1, Zenon DEF StoreSinceUpdate
  <1>8. \A x \in Cell : flash'[x] = IF x \in Selected THEN cap.image[x] ELSE before[x]
    <2>1. Selected' = Selected
      BY <1>1, Zenon DEF Selected
    <2>2. SuccessIsExact'
      BY Zenon DEF IInv
    <2> QED BY <1>1, <1>2, <2>1, <2>2, Zenon DEF SuccessIsExact
  <1>9. CASE p \in Selected
    <2>1. flash'[p] = cap.image[p]
      BY <1>8, <1>9, Zenon
    <2>2. OnlyAt(p, cap.image)
      BY <1>1, Zenon DEF OneFmapPlace, OnlyAt
    <2>3. Cell \subseteq Cell
      BY Zenon
    <2>4. CapsuleFmap(cap) = cap.image[p] /\ cap.image[p] \in DOMAIN FmapIn
      <3>1. CapsuleFmap(cap) # NoFmap /\ CapsuleFmap(cap) = LocateFmapInImage(cap.image, Cell)
        BY <1>4, Zenon DEF ManifestAcceptable, CapsuleFmap
      <3> QED BY <2>2, <2>3, <3>1, FoundAt, Zenon
    <2>5. LocateFmapInImage(flash', Cell) = CapsuleFmap(cap)
      BY <2>1, <2>3, <2>4, FoundAt, Zenon
    <2>6. \E i \in DOMAIN cap.names : p \in Cells(Regions(cap)[i])
      <3>1. \E i \in DOMAIN plan.ranges : p \in Cells(plan.ranges[i])
        BY <1>9, Zenon DEF Selected
      <3>2. DOMAIN Regions(cap) = DOMAIN cap.names
        BY Zenon DEF Regions
      <3> QED BY <1>4, <3>1, <3>2, Zenon
    <2>7. FindFmapRegion(CapsuleFmap(cap), "SMMSTORE") = store
      <3>1. Fits(store)
        BY <1>4, <1>6, Zenon DEF VariableStorePreserved
      <3>2. ASSUME NEW i \in DOMAIN cap.names
            PROVE  Cells(Regions(cap)[i]) \cap Cells(store) = {}
        <4>1. ~FmpDeviceFlashRangesOverlap(Regions(cap)[i], store)
          BY <1>4, <1>6, Zenon DEF VariableStorePreserved
        <4>2. Regions(cap)[i] \in Range /\ store \in Range
          BY <1>6, RegionIsRange, Zenon DEF Regions
        <4> QED BY <4>1, <4>2, ApartIsDisjoint, Zenon
      <3> QED BY <1>1, <1>4, <1>5, <1>6, <2>6, <3>1, <3>2, Zenon DEF MapKeepsStore
    <2> QED BY <1>2, <1>6, <1>7, <2>5, <2>7, Zenon DEF StoreOn
  <1>10. CASE p \notin Selected
    <2>1. flash'[p] = before[p]
      BY <1>8, <1>10, Zenon
    <2>2. LocateFmapInImage(flash', Cell) = Live
      <3>1. Cell \subseteq Cell
        BY Zenon
      <3> QED BY <1>5, <2>1, <3>1, FoundAt, Zenon
    <2> QED BY <1>2, <1>6, <1>7, <2>2, Zenon DEF StoreOn
  <1> QED BY <1>9, <1>10, Zenon

\* A preserving plan comes from the chip's map (FmpDeviceSetImageWithStatus).
LEMMA PlanComesFromMap ==
  ASSUME NEW c, NEW chip, NEW fmapOk \in BOOLEAN, NEW ifdOk \in BOOLEAN,
         Plan(c, chip, fmapOk, ifdOk).preserved
  PROVE  LET live == LoadFlashFmap(chip, CapsuleFmap(c), TRUE)
         IN /\ Listed(c) /\ LayoutMatches(c, live) /\ VariableStorePreserved(c, live)
            /\ Plan(c, chip, fmapOk, ifdOk).ranges = Regions(c)
  <1> DEFINE live == LoadFlashFmap(chip, CapsuleFmap(c), fmapOk)
  <1>1. Listed(c) /\ LayoutMatches(c, live)
    <2>1. ASSUME ~(Listed(c) /\ LayoutMatches(c, live))
          PROVE  Plan(c, chip, fmapOk, ifdOk).preserved = FALSE
      BY <2>1, Zenon DEF Plan
    <2> QED BY <2>1, Zenon
  <1>2. VariableStorePreserved(c, live) /\ Plan(c, chip, fmapOk, ifdOk).ranges = Regions(c)
    BY <1>1, Zenon DEF Plan
  <1>3. fmapOk = TRUE
    BY <1>1, Zenon DEF LayoutMatches, LoadFlashFmap
  <1> QED BY <1>1, <1>2, <1>3, Zenon

\* The invariant is inductive.
LEMMA ServiceStep ==
  ASSUME NEW p \in Cell, OneFmapPlace(p), MapKeepsStore(p)
  PROVE  IInv /\ IInv' /\ ServiceInv(p) /\ [Next]_vars => ServiceInv(p)'
  <1> SUFFICES ASSUME IInv, IInv', ServiceInv(p), [Next]_vars PROVE ServiceInv(p)'
    BY Zenon
  <1>0. TypeInv
    BY Zenon DEF IInv
  <1>1. CASE Programs \/ PowerCut
    <2>1. /\ Form /\ plan' = plan /\ cap' = cap /\ before' = before
      BY <1>0, <1>1, StepHasForm, Zenon DEF Form, Common
    <2>2. OnlyAt(p, flash')
      <3>1. ASSUME NEW x \in Cell, flash'[x] \in DOMAIN FmapIn
            PROVE  x = p
        BY <1>0, <1>1, <3>1, CellSources, Zenon DEF ServiceInv, OnlyAt, OneFmapPlace
      <3> QED BY <3>1, Zenon DEF OnlyAt
    <2>3. OnlyAt(p, before') /\ OnlyAt(p, cap.image)
      <3>1. cap \in Capsule
        BY <1>0, Zenon DEF TypeInv, ChipOK
      <3> QED BY <2>1, <3>1, Zenon DEF ServiceInv, OneFmapPlace, OnlyAt
    <2>4. plan'.preserved => /\ Listed(cap') /\ ManifestAcceptable(cap')
                             /\ LayoutMatches(cap', Live') /\ VariableStorePreserved(cap', Live')
                             /\ plan'.ranges = Regions(cap')
      BY <2>1, Zenon DEF ServiceInv, Live
    <2>5. CASE Begins \/ Works
      <3>1. /\ pc' \in Writing /\ pc \in Programming /\ InBlock' = InBlock
            /\ UNCHANGED <<services, store, failed, booted>>
        <4>1. Stays /\ CursorOK
          BY <1>0, <2>5, Zenon DEF Begins, Works, TypeInv
        <4> QED BY <2>1, <4>1, StaysFacts, Zenon DEF Stays
      <3>2. \A x \in InBlock : Expected'[x] \in DOMAIN FmapIn => x = p
        <4>1. CASE Begins
          <5>1. InBlock \subseteq Cell
            BY Zenon DEF InBlock
          <5> QED BY <2>3, <4>1, <5>1, Zenon DEF Begins, Merged, OnlyAt, ServiceInv
        <4>2. CASE Works
          BY <4>2, Zenon DEF Works, ServiceInv
        <4> QED BY <2>5, <4>1, <4>2, Zenon
      <3>3. services' /\ ~failed' => store' = StoreOn(before')
        BY <2>1, <3>1, Zenon DEF ServiceInv
      <3>4. pc' # "up"
        BY <3>1, Zenon DEF Writing
      <3>5. StoreSinceUpdate'
        BY <3>4, Zenon DEF StoreSinceUpdate
      <3> QED BY <2>2, <2>3, <2>4, <3>1, <3>2, <3>3, <3>4, <3>5, Zenon DEF ServiceInv, StoreOn
    <2>6. CASE Passes
      <3>1. /\ pc' \in {"block", "up"} /\ pc \in Programming /\ Advance
        BY <1>0, <2>1, <2>6, AdvanceFacts, Zenon DEF Passes, TypeInv, Programming
      <3>2. CASE pc' = "up"
        <4>1. services' /\ ~failed' => store' = StoreOn(flash') /\ StoreSinceUpdate'
          BY <2>1, <2>2, <2>6, <3>2, SuccessKeepsStore, Zenon
        <4>2. StoreSinceUpdate'
          BY <4>1, Zenon DEF StoreSinceUpdate
        <4> QED BY <2>2, <2>3, <2>4, <3>2, <4>1, <4>2, Zenon
                DEF ServiceInv, StoreOn, Writing, Programming
      <3>3. CASE pc' = "block"
        <4>1. UNCHANGED <<services, store, failed, booted>>
          BY <3>1, <3>3, Zenon DEF Advance
        <4>2. services' /\ ~failed' => store' = StoreOn(before')
          BY <2>1, <3>1, <4>1, Zenon DEF ServiceInv
        <4>3. StoreSinceUpdate'
          BY <3>3, Zenon DEF StoreSinceUpdate
        <4> QED BY <2>2, <2>3, <2>4, <3>3, <4>2, <4>3, Zenon DEF ServiceInv, StoreOn, Writing
      <3> QED BY <3>1, <3>2, <3>3, Zenon
    <2>7. CASE Stops
      <3>1. pc' = "off" \/ (pc' = "up" /\ failed')
        BY <2>7, Zenon DEF Stops
      <3>2. StoreSinceUpdate'
        BY <3>1, Zenon DEF StoreSinceUpdate
      <3> QED BY <2>2, <2>3, <2>4, <3>1, <3>2, Zenon DEF ServiceInv, StoreOn, Writing, Programming
    <2> QED BY <2>1, <2>5, <2>6, <2>7, Zenon DEF Form
  <1>2. ASSUME NEW c \in Capsule, NEW fmapOk \in BOOLEAN, NEW ifdOk \in BOOLEAN,
               SetImage(c, fmapOk, ifdOk)
        PROVE  ServiceInv(p)'
    <2>1. /\ plan' = Plan(c, flash, fmapOk, ifdOk) /\ cap' = c /\ pc = "up" /\ pc' = "block"
          /\ flash' = flash /\ before' = flash /\ UNCHANGED <<services, store, failed, booted>>
          /\ Listed(c) => ManifestAcceptable(c)
      BY <1>2, Zenon DEF SetImage, bootVars
    <2>2. plan'.preserved => /\ Listed(cap') /\ ManifestAcceptable(cap')
                             /\ LayoutMatches(cap', Live') /\ VariableStorePreserved(cap', Live')
                             /\ plan'.ranges = Regions(cap')
      BY <2>1, PlanComesFromMap, Zenon DEF Live
    <2>3. OnlyAt(p, flash') /\ OnlyAt(p, before') /\ pc' \notin Writing
      BY <2>1, Zenon DEF ServiceInv, Writing
    <2>4. services' /\ ~failed' => store' = StoreOn(before')
      BY <2>1, Zenon DEF ServiceInv
    <2>5. StoreSinceUpdate' /\ pc' # "up"
      BY <2>1, Zenon DEF StoreSinceUpdate
    <2> QED BY <2>2, <2>3, <2>4, <2>5, Zenon DEF ServiceInv, StoreOn
  <1>3. ASSUME plan' = NoPlan, pc' \in {"up", "off"}, OnlyAt(p, flash'), before' = flash',
               pc' = "up" /\ services' /\ ~failed' => store' = StoreOn(flash')
        PROVE  ServiceInv(p)'
    <2>1. ~plan'.preserved
      BY <1>3, Zenon DEF NoPlan
    <2>2. StoreSinceUpdate' /\ OnlyAt(p, before')
      BY <1>3, Zenon DEF StoreSinceUpdate
    <2> QED BY <1>3, <2>1, <2>2, Zenon DEF ServiceInv, StoreOn, Writing, Programming
  <1>4. CASE Boot
    BY <1>3, <1>4, Zenon DEF Boot, StoreOn, ServiceInv
  <1>5. CASE Reprogram
    <2>1. plan' = NoPlan /\ pc' = "off" /\ flash' = Factory /\ before' = Factory
      BY <1>5, Zenon DEF Reprogram
    <2>2. OnlyAt(p, Factory)
      BY Zenon DEF OneFmapPlace, OnlyAt
    <2> QED BY <1>3, <2>1, <2>2, Zenon
  <1>6. ASSUME NEW c \in Capsule, NEW fault \in BOOLEAN, SetImageAborts(c, fault)
        PROVE  ServiceInv(p)'
    BY <1>3, <1>6, Zenon DEF SetImageAborts, bootVars, ServiceInv
  <1>7. CASE Reset
    <2>1. pc' = "off" /\ UNCHANGED <<flash, cap, plan, before>>
      BY <1>7, Zenon DEF Reset
    <2>2. StoreSinceUpdate' /\ Live' = Live
      BY <2>1, Zenon DEF StoreSinceUpdate, Live
    <2> QED BY <2>1, <2>2, Zenon DEF ServiceInv, Writing, Programming, OnlyAt
  <1>8. CASE UNCHANGED vars
    <2>1. UNCHANGED <<flash, pc, cap, plan, Offset, Expected, before, services, store,
                      failed, booted>>
      BY <1>8, Zenon DEF vars, cursorVars, retryVars, bootVars
    <2>2. Live' = Live /\ InBlock' = InBlock
      BY <2>1, Zenon DEF Live, InBlock
    <2>3. StoreSinceUpdate'
      BY <2>1, Zenon DEF ServiceInv, StoreSinceUpdate
    <2> QED BY <2>1, <2>2, <2>3, Zenon DEF ServiceInv, StoreOn, OnlyAt
  <1> QED BY <1>1, <1>2, <1>4, <1>5, <1>6, <1>7, <1>8, Zenon DEF Next

\* An update starts from a store that no update of this boot changed.
LEMMA UntilStep ==
  ASSUME NEW p \in Cell, IInv, ServiceInv(p), StoreUntilUpdate, [Next]_vars
  PROVE  StoreUntilUpdate'
  <1>1. CASE Programs \/ PowerCut
    <2>1. Form /\ before' = before
      BY <1>1, StepHasForm, Zenon DEF IInv, Form, Common
    <2>2. /\ pc # "off" /\ store' = store /\ booted' = booted
          /\ pc' # "off" /\ services' /\ ~failed' => services /\ ~failed
      <3>1. CASE Begins \/ Works
        <4>1. pc \in Programming /\ UNCHANGED <<services, store, failed, booted>>
          BY <3>1, Zenon DEF Begins, Works, Stays
        <4> QED BY <4>1, Zenon DEF Programming
      <3>2. CASE Passes
        <4>1. pc # "off" /\ UNCHANGED <<store, failed, booted>>
          BY <3>2, Zenon DEF Passes, Advance
        <4>2. services' => services
          <5>1. UNCHANGED services \/ services' = ServicesAfter
            BY <3>2, Zenon DEF Passes, Advance
          <5> QED BY <5>1, Zenon DEF ServicesAfter
        <4> QED BY <4>1, <4>2, Zenon
      <3>3. CASE Stops
        BY <3>3, Zenon DEF Stops, Programming
      <3> QED BY <2>1, <3>1, <3>2, <3>3, Zenon DEF Form
    <2> QED BY <2>1, <2>2, Zenon DEF StoreUntilUpdate
  <1>2. ASSUME NEW c \in Capsule, \/ \E fault \in BOOLEAN : SetImageAborts(c, fault)
                                  \/ \E fmapOk, ifdOk \in BOOLEAN : SetImage(c, fmapOk, ifdOk)
        PROVE  StoreUntilUpdate'
    <2>1. pc = "up" /\ before' = flash /\ UNCHANGED <<services, store, failed, booted>>
      BY <1>2, Zenon DEF SetImageAborts, SetImage, bootVars
    <2>2. services /\ ~failed => \A x \in Cells(store) : flash[x] = before[x]
                                                     /\ before[x] = booted[x]
      BY <2>1, Zenon DEF StoreUntilUpdate, ServiceInv, StoreSinceUpdate
    <2> QED BY <2>1, <2>2, Zenon DEF StoreUntilUpdate
  <1>3. CASE Boot
    BY <1>3, Zenon DEF Boot, StoreUntilUpdate
  <1>4. CASE Reset \/ Reprogram
    BY <1>4, Zenon DEF Reset, Reprogram, StoreUntilUpdate
  <1>5. CASE UNCHANGED vars
    BY <1>5, Zenon DEF vars, bootVars, StoreUntilUpdate
  <1> QED BY <1>1, <1>2, <1>3, <1>4, <1>5, Zenon DEF Next

-----------------------------------------------------------------------------
(* The theorems. *)

\* The chip from the factory.
LEMMA InitIInv == Init => IInv
  <1> SUFFICES ASSUME Init PROVE IInv
    BY Zenon
  <1>1. cap \in Capsule
    BY UpdateAssumption, Zenon DEF Init
  <1>2. CursorOK /\ BlockOK /\ FlagsOK
    <2>1. CursorOK
      BY UpdateAssumption DEF Init, CursorOK, RangesInv, Programming
    <2>2. BlockOK
      BY Zenon DEF Init, BlockOK
    <2>3. FlagsOK
      BY Zenon DEF Init, FlagsOK
    <2> QED BY <2>1, <2>2, <2>3, Zenon
  <1>3. ChipOK
    BY <1>1, UpdateAssumption DEF Init, ChipOK, NoPlan, NoRange, Range
  <1>4. ChipInv /\ BlockInv /\ SuccessIsExact
    BY Zenon DEF Init, ChipInv, BlockInv, SuccessIsExact, Programming, Writing
  <1>5. StoreInv /\ RepeatInv
    BY Zenon DEF Init, StoreInv, RepeatInv, Repeats, NoPlan
  <1> QED BY <1>2, <1>3, <1>4, <1>5, Zenon DEF IInv, TypeInv

\* The invariant is inductive.
LEMMA NextIInv == IInv /\ [Next]_vars => IInv'
  <1> SUFFICES ASSUME IInv, [Next]_vars PROVE IInv'
    BY Zenon
  <1>0. TypeInv
    BY Zenon DEF IInv
  <1>1. CASE Programs \/ PowerCut
    <2>1. Form
      BY <1>0, <1>1, StepHasForm, Zenon
    <2>2. TypeInv'
      BY <1>0, <2>1, FormKeepsTypes, Zenon
    <2>3. SafeInv'
      BY <2>1, BeginsKeeps, WorksKeeps, PassesKeeps, StopsKeeps, Zenon DEF Form
    <2> QED BY <2>2, <2>3, Zenon DEF IInv, SafeInv
  <1>2. ASSUME NEW c \in Capsule, NEW fmapOk \in BOOLEAN, NEW ifdOk \in BOOLEAN,
               SetImage(c, fmapOk, ifdOk)
        PROVE  IInv'
    <2>1. TypeInv' /\ SafeInv'
      BY <1>0, <1>2, SetImageKeepsTypes, SetImageKeeps, Zenon
    <2> QED BY <2>1, Zenon DEF IInv, SafeInv
  <1>3. CASE \/ Boot \/ Reset \/ Reprogram
             \/ \E c \in Capsule, fault \in BOOLEAN : SetImageAborts(c, fault)
    <2>1. TypeInv' /\ SafeInv'
      BY <1>0, <1>3, MachineKeepsTypes, MachineKeeps, Zenon
    <2> QED BY <2>1, Zenon DEF IInv, SafeInv
  <1>4. CASE UNCHANGED vars
    <2>1. TypeInv' /\ SafeInv'
      BY <1>0, <1>4, MachineKeepsTypes, StutterKeeps, Zenon
    <2> QED BY <2>1, Zenon DEF IInv, SafeInv
  <1> QED BY <1>1, <1>2, <1>3, <1>4, Zenon DEF Next

\* The chip, the plan and the cursor stay well-formed: an update is always at a
\* cell of the range it is programming, and a block it is about to write is
\* complete (UpdateFlashRangeFromImage, FmpDeviceFlashProgramWithRetry).
THEOREM TypeCorrect == Spec => []TypeOK
  <1>1. IInv => TypeOK
    BY TypeInvIsTypeOK, Zenon DEF IInv
  <1> QED BY InitIInv, NextIInv, <1>1, PTL DEF Spec

\* An update that answers success has written exactly the selected ranges, for
\* every layout, alignment and number of retries (UpdateFlashRangeFromImage).
THEOREM ExactSuccess == Spec => []SuccessIsExact
  <1>1. IInv => SuccessIsExact
    BY Zenon DEF IInv
  <1> QED BY InitIInv, NextIInv, <1>1, PTL DEF Spec

\* A preserved variable store is never touched, at no moment of an update
\* (VariableStorePreserved, UpdateFlashRangeFromImage).
THEOREM StoreKept == Spec => []StoreIsKept
  <1>1. IInv => StoreIsKept
    BY Zenon DEF IInv, StoreInv, StoreIsKept
  <1> QED BY InitIInv, NextIInv, <1>1, PTL DEF Spec

\* An update with what is there already changes no cell
\* (UpdateFlashRangeFromImage's comparison).
THEOREM HarmlessRepeat == Spec => []RepeatIsHarmless
  <1>1. IInv => RepeatIsHarmless
    BY Zenon DEF IInv, RepeatInv, Repeats, RepeatIsHarmless
  <1> QED BY InitIInv, NextIInv, <1>1, PTL DEF Spec

\* The progress that is reported ends at its end, for every list of ranges
\* (FmpDeviceGetFlashRangeStepCount, IncrementProgress).
THEOREM ProgressReachesItsEnd == Spec => []ProgressAddsUp
  <1>1. ProgressInv => ProgressAddsUp
    BY Zenon DEF ProgressInv
  <1> QED BY InitIInv, NextIInv, InitProgress, ProgressStep, <1>1, PTL DEF Spec

\* An update's operations are bounded by its blocks and the retries, for every
\* retry count and whatever fails (FmpDeviceFlashProgramWithRetry).
THEOREM OperationsAreBounded == Spec => OperationsRunOut
  <1>1. IInv /\ ProgressInv /\ [Next]_vars =>
          [Programs => OperationsLeft \in Nat /\ OperationsLeft' < OperationsLeft]_vars
    BY LeavesFewer, Zenon
  <1> QED BY InitIInv, NextIInv, InitProgress, ProgressStep, <1>1, PTL DEF Spec, OperationsRunOut

\* The variable services that the updates of a boot leave in place have the store
\* they had when the firmware started, over any number of updates, for images
\* whose map is in one place and does not move a store it keeps
\* (FmpDeviceShouldDisableVariableServices).
THEOREM ServicesKeepStore ==
  ASSUME NEW p \in Cell, OneFmapPlace(p), MapKeepsStore(p)
  PROVE  Spec => []ServicesHaveTheirStore
  <1>1. Init => ServiceInv(p) /\ StoreUntilUpdate
    <2> SUFFICES ASSUME Init PROVE ServiceInv(p) /\ StoreUntilUpdate
      BY Zenon
    <2>1. OnlyAt(p, flash) /\ OnlyAt(p, before)
      BY Zenon DEF Init, OneFmapPlace, OnlyAt
    <2>2. ~plan.preserved /\ pc = "off"
      BY Zenon DEF Init, NoPlan
    <2>3. StoreSinceUpdate /\ StoreUntilUpdate
      BY <2>2, Zenon DEF StoreSinceUpdate, StoreUntilUpdate
    <2> QED BY <2>1, <2>2, <2>3, Zenon DEF ServiceInv, Writing, Programming
  <1>2. ServiceInv(p) /\ StoreUntilUpdate => ServicesHaveTheirStore
    BY Zenon DEF ServiceInv, StoreSinceUpdate, StoreUntilUpdate, ServicesHaveTheirStore
  <1>3. IInv /\ IInv' /\ ServiceInv(p) /\ [Next]_vars => ServiceInv(p)'
    BY ServiceStep, Zenon
  <1>4. IInv /\ ServiceInv(p) /\ StoreUntilUpdate /\ [Next]_vars => StoreUntilUpdate'
    BY UntilStep, Zenon
  <1> QED BY InitIInv, NextIInv, <1>1, <1>2, <1>3, <1>4, PTL DEF Spec

=============================================================================
