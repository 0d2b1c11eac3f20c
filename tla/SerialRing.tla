------------------------------ MODULE SerialRing ------------------------------
(***************************************************************************)
(* The receive ring of UsbCdcAcmDxe (SerialIo.c) and the code that runs on *)
(* it: the poll timer at TPL_CALLBACK and callers of Read and Reset at     *)
(* TPL_APPLICATION or TPL_NOTIFY.  A higher level preempts a lower one     *)
(* between any two steps and runs to its end first.  The steps are the     *)
(* stores to the ring and its indices and the loads they depend on; of two *)
(* neighbouring loads in one step, only one reads what somebody else may   *)
(* change meanwhile.                                                       *)
(*                                                                         *)
(* The gadget's bytes are numbered 1, 2, 3, ... in the order it sends them *)
(* and a byte is modelled by its number; 0 is the initial content of Rx.   *)
(***************************************************************************)
EXTENDS Integers, Sequences

CONSTANTS
  USB_CDC_ACM_RX_FIFO_SIZE,
  BulkInMaxPacket,
  UintnSize,   \* 2^64: UINTN arithmetic is modulo this
  Reloads,     \* the build loads both indices again for RxCount's subtraction
  Ops,         \* the operations called at each level
  Exclusive,   \* the caller at one level waits for the one at the other
  Wanted,      \* numbers of bytes a Read asks for
  MaxBytes     \* bound: bytes the gadget sends

N == USB_CDC_ACM_RX_FIFO_SIZE
Level == {"application", "notify"}
Context == Level \cup {"poll"}

ASSUME RingAssumption ==
  /\ USB_CDC_ACM_RX_FIFO_SIZE \in Nat \ {0, 1}
  /\ BulkInMaxPacket \in 1 .. USB_CDC_ACM_RX_FIFO_SIZE - 1
  /\ UintnSize \in Nat /\ UintnSize > 2 * USB_CDC_ACM_RX_FIFO_SIZE
  /\ Reloads \in BOOLEAN
  /\ Ops \in [Level -> SUBSET {"Read", "Reset"}]
  /\ Exclusive \in BOOLEAN
  /\ Wanted \subseteq Nat
  /\ MaxBytes \in Nat

VARIABLES
  Rx, RxHead, RxTail,
  cmpHead, cmpTail,  \* RxHead and RxTail as RxCount compared them, in each context
  sent,       \* bytes the gadget has handed to the bulk endpoint
  taken,      \* bytes bulk transfers have moved into RxScratch
  pollPc,     \* the poll callback
  Data,       \* the byte of RxScratch RxPut is at
  Left,       \* bytes of RxScratch RxPut has still to store
  headReg,    \* RxHead, loaded to be incremented
  callPc,     \* the caller at each level
  wanted,     \* bytes it still wants
  byte,       \* the byte it has copied out of the ring
  tailReg,    \* RxTail, loaded to be incremented
  delivered   \* the last byte a caller was given

ringVars == <<Rx, RxHead, RxTail>>
cmpVars == <<cmpHead, cmpTail>>
pollVars == <<taken, pollPc, Data, Left, headReg>>
callVars == <<callPc, wanted, byte, tailReg, delivered>>
vars == <<ringVars, cmpVars, sent, pollVars, callVars>>

Uintn(x) == x % UintnSize

\* RxCount() compares the indices and subtracts them, in a step of its own.  They
\* are not volatile: the build may keep what it compared, or load them again.
RxCountCompares(c) ==
  /\ cmpHead' = [cmpHead EXCEPT ![c] = RxHead]
  /\ cmpTail' = [cmpTail EXCEPT ![c] = RxTail]

\* What RxCount() compared is used up: a register out of use is modelled as 0.
RxCountEnds(c) ==
  /\ cmpHead' = [cmpHead EXCEPT ![c] = 0]
  /\ cmpTail' = [cmpTail EXCEPT ![c] = 0]

RxCount(c) ==
  LET head == IF Reloads THEN RxHead ELSE cmpHead[c]
      tail == IF Reloads THEN RxTail ELSE cmpTail[c]
  IN IF cmpHead[c] >= cmpTail[c] THEN Uintn(head - tail) ELSE Uintn(N - tail + head)

\* Mutant: no slot is kept free, so a full ring looks like an empty one.
RxFreeAll(c) == Uintn(N - RxCount(c))

RxFree(c) == Uintn(N - 1 - RxCount(c))

PollPlaces == {"idle", "measure", "guard", "bulk", "remeasure", "room", "put", "load",
               "store"}
CallPlaces == {"idle", "check", "count", "copy", "load", "store", "tail"}

TypeOK ==
  /\ Rx \in [0 .. N - 1 -> Nat]
  /\ RxHead \in 0 .. N - 1
  /\ RxTail \in 0 .. N - 1
  /\ cmpHead \in [Context -> 0 .. N - 1]
  /\ cmpTail \in [Context -> 0 .. N - 1]
  /\ sent \in Nat
  /\ taken \in Nat
  /\ pollPc \in PollPlaces
  /\ Data \in Nat
  /\ Left \in Nat
  /\ headReg \in 0 .. N - 1
  /\ callPc \in [Level -> CallPlaces]
  /\ wanted \in [Level -> Nat]
  /\ byte \in [Level -> Nat]
  /\ tailReg \in [Level -> 0 .. N - 1]
  /\ delivered \in Nat
  /\ pollPc \in {"load", "store"} => Left > 0
  /\ \A l \in Level : callPc[l] \in {"count", "copy", "load", "store"} => wanted[l] > 0

Init ==
  /\ Rx = [i \in 0 .. N - 1 |-> 0]
  /\ RxHead = 0
  /\ RxTail = 0
  /\ cmpHead = [c \in Context |-> 0]
  /\ cmpTail = [c \in Context |-> 0]
  /\ sent = 0
  /\ taken = 0
  /\ pollPc = "idle"
  /\ Data = 0
  /\ Left = 0
  /\ headReg = 0
  /\ callPc = [l \in Level |-> "idle"]
  /\ wanted = [l \in Level |-> 0]
  /\ byte = [l \in Level |-> 0]
  /\ tailReg = [l \in Level |-> 0]
  /\ delivered = 0

\* Who has the processor: nothing above this level is in progress.
PollRuns == callPc["notify"] = "idle"
Runs(l) == l = "application" => pollPc = "idle" /\ callPc["notify"] = "idle"

\* A caller at a level begins a call.
Calls(l, op) ==
  /\ Runs(l)
  /\ callPc[l] = "idle"
  /\ op \in Ops[l]
  /\ Exclusive => \A m \in Level : callPc[m] = "idle"

GadgetSends ==
  /\ sent < MaxBytes
  /\ sent' = sent + 1
  /\ UNCHANGED <<ringVars, cmpVars, pollVars, callVars>>

-----------------------------------------------------------------------------
(* UsbCdcAcmPoll. *)

PollStarts ==
  /\ PollRuns
  /\ pollPc = "idle"
  /\ pollPc' = "measure"
  /\ UNCHANGED <<ringVars, cmpVars, sent, taken, Data, Left, headReg, callVars>>

PollMeasures ==
  /\ PollRuns
  /\ pollPc = "measure"
  /\ RxCountCompares("poll")
  /\ pollPc' = "guard"
  /\ UNCHANGED <<ringVars, sent, taken, Data, Left, headReg, callVars>>

\* Mutant: the room must exceed a packet.
PollGuardStrict ==
  /\ PollRuns
  /\ pollPc = "guard"
  /\ pollPc' = IF RxFree("poll") <= BulkInMaxPacket THEN "idle" ELSE "bulk"
  /\ RxCountEnds("poll")
  /\ UNCHANGED <<ringVars, sent, taken, Data, Left, headReg, callVars>>

\* Only poll when a whole packet can be stored.
PollGuard ==
  /\ PollRuns
  /\ pollPc = "guard"
  /\ pollPc' = IF RxFree("poll") < BulkInMaxPacket THEN "idle" ELSE "bulk"
  /\ RxCountEnds("poll")
  /\ UNCHANGED <<ringVars, sent, taken, Data, Left, headReg, callVars>>

\* The transfer times out, fails, or returns up to a packet.
PollBulk ==
  /\ PollRuns
  /\ pollPc = "bulk"
  /\ \E Length \in 0 .. BulkInMaxPacket :
       /\ Length <= sent - taken
       /\ taken' = taken + Length
       /\ Data' = taken + 1
       /\ Left' = Length
       /\ pollPc' = IF Length = 0 THEN "idle" ELSE "remeasure"
  /\ UNCHANGED <<ringVars, cmpVars, sent, headReg, callVars>>

PutMeasures ==
  /\ PollRuns
  /\ pollPc = "remeasure"
  /\ RxCountCompares("poll")
  /\ pollPc' = "room"
  /\ UNCHANGED <<ringVars, sent, taken, Data, Left, headReg, callVars>>

\* RxPut drops what does not fit, the last bytes of the packet.
PutRoom ==
  /\ PollRuns
  /\ pollPc = "room"
  /\ Left' = IF Left > RxFree("poll") THEN RxFree("poll") ELSE Left
  /\ pollPc' = "put"
  /\ RxCountEnds("poll")
  /\ UNCHANGED <<ringVars, sent, taken, Data, headReg, callVars>>

PutByte ==
  /\ PollRuns
  /\ pollPc = "put"
  /\ Left > 0
  /\ Rx' = [Rx EXCEPT ![RxHead] = Data]
  /\ pollPc' = "load"
  /\ UNCHANGED <<RxHead, RxTail, cmpVars, sent, taken, Data, Left, headReg, callVars>>

PutLoadsHead ==
  /\ PollRuns
  /\ pollPc = "load"
  /\ headReg' = RxHead
  /\ pollPc' = "store"
  /\ UNCHANGED <<ringVars, cmpVars, sent, taken, Data, Left, callVars>>

PutStoresHead ==
  /\ PollRuns
  /\ pollPc = "store"
  /\ RxHead' = (headReg + 1) % N
  /\ Data' = Data + 1
  /\ headReg' = 0
  /\ Left' = Left - 1
  /\ pollPc' = "put"
  /\ UNCHANGED <<Rx, RxTail, cmpVars, sent, taken, callVars>>

PutDone ==
  /\ PollRuns
  /\ pollPc = "put"
  /\ Left = 0
  /\ pollPc' = "idle"
  /\ UNCHANGED <<ringVars, cmpVars, sent, taken, Data, Left, headReg, callVars>>

Poll ==
  \/ PollStarts \/ PollMeasures \/ PollGuard \/ PollBulk
  \/ PutMeasures \/ PutRoom \/ PutByte \/ PutLoadsHead \/ PutStoresHead \/ PutDone

-----------------------------------------------------------------------------
(* UsbCdcAcmRead and UsbCdcAcmReset. *)

Goto(l, place) == callPc' = [callPc EXCEPT ![l] = place]

ReadStarts(l) ==
  /\ Calls(l, "Read")
  /\ \E w \in Wanted : wanted' = [wanted EXCEPT ![l] = w]
  /\ Goto(l, "check")
  /\ UNCHANGED <<ringVars, cmpVars, sent, pollVars, byte, tailReg, delivered>>

\* The loop's condition; Read returns when either part of it fails.
ReadChecks(l) ==
  /\ Runs(l)
  /\ callPc[l] = "check"
  /\ IF wanted[l] > 0
       THEN RxCountCompares(l) /\ Goto(l, "count")
       ELSE UNCHANGED cmpVars /\ Goto(l, "idle")
  /\ UNCHANGED <<ringVars, sent, pollVars, wanted, byte, tailReg, delivered>>

ReadCounts(l) ==
  /\ Runs(l)
  /\ callPc[l] = "count"
  /\ RxCountEnds(l)
  /\ IF RxCount(l) > 0
       THEN Goto(l, "copy") /\ UNCHANGED wanted
       ELSE Goto(l, "idle") /\ wanted' = [wanted EXCEPT ![l] = 0]
  /\ UNCHANGED <<ringVars, sent, pollVars, byte, tailReg, delivered>>

ReadCopies(l) ==
  /\ Runs(l)
  /\ callPc[l] = "copy"
  /\ byte' = [byte EXCEPT ![l] = Rx[RxTail]]
  /\ Goto(l, "load")
  /\ UNCHANGED <<ringVars, cmpVars, sent, pollVars, wanted, tailReg, delivered>>

ReadLoadsTail(l) ==
  /\ Runs(l)
  /\ callPc[l] = "load"
  /\ tailReg' = [tailReg EXCEPT ![l] = RxTail]
  /\ Goto(l, "store")
  /\ UNCHANGED <<ringVars, cmpVars, sent, pollVars, wanted, byte, delivered>>

ReadStoresTail(l) ==
  /\ Runs(l)
  /\ callPc[l] = "store"
  /\ RxTail' = (tailReg[l] + 1) % N
  /\ delivered' = byte[l]
  /\ tailReg' = [tailReg EXCEPT ![l] = 0]
  /\ byte' = [byte EXCEPT ![l] = 0]
  /\ wanted' = [wanted EXCEPT ![l] = @ - 1]
  /\ Goto(l, "check")
  /\ UNCHANGED <<Rx, RxHead, cmpVars, sent, pollVars>>

\* Reset's two stores; SetControl(), which it ends with, leaves the ring alone.
ResetStoresHead(l) ==
  /\ Calls(l, "Reset")
  /\ RxHead' = 0
  /\ Goto(l, "tail")
  /\ UNCHANGED <<Rx, RxTail, cmpVars, sent, pollVars, wanted, byte, tailReg, delivered>>

ResetStoresTail(l) ==
  /\ Runs(l)
  /\ callPc[l] = "tail"
  /\ RxTail' = 0
  /\ Goto(l, "idle")
  /\ UNCHANGED <<Rx, RxHead, cmpVars, sent, pollVars, wanted, byte, tailReg, delivered>>

Read(l) ==
  \/ ReadStarts(l) \/ ReadChecks(l) \/ ReadCounts(l)
  \/ ReadCopies(l) \/ ReadLoadsTail(l) \/ ReadStoresTail(l)

Reset(l) == ResetStoresHead(l) \/ ResetStoresTail(l)

Callers == \E l \in Level : Read(l) \/ Reset(l)

Next == GadgetSends \/ Poll \/ Callers

Spec == Init /\ [][Next]_vars

PollReceives == PollBulk /\ taken' # taken

\* The timer keeps firing, a gadget with data answers some of the transfers,
\* and the callers keep calling; a preempted level resumes.
FairSpec ==
  /\ Spec
  /\ SF_vars(Poll)
  /\ SF_vars(PollReceives)
  /\ SF_vars(Callers)

-----------------------------------------------------------------------------
(* The ring as a queue. *)

\* The bytes from one index to another.
Between(tail, head) == IF head >= tail THEN head - tail ELSE N - tail + head

\* While a Reset has stored RxHead and not yet RxTail, the queue is what has
\* been put at the front of the ring since.
Resetting == \E l \in Level : callPc[l] = "tail"
First == IF Resetting THEN 0 ELSE RxTail
Buffered == IF Resetting THEN RxHead ELSE Between(RxTail, RxHead)

\* A packet is received byte by byte, as RxPut stores it.
Received ==
  IF pollPc \in {"remeasure", "room", "put", "load", "store"} THEN Data - 1 ELSE taken

Fifo == INSTANCE SerialFifo WITH
  Capacity <- N - 1,
  fifo <- [k \in 1 .. Buffered |-> Rx[(First + k - 1) % N]],
  received <- Received

\* The ring, its poll and its callers implement a bounded queue: no byte is
\* lost, repeated or reordered wherever the timer or a caller cuts in, also
\* between the two halves of RxCount (UsbCdcAcmPoll, RxPut, UsbCdcAcmRead,
\* UsbCdcAcmReset).
RingIsFifo == Fifo!FifoSpec

\* Whatever a Read returns came later from the gadget than anything a caller was
\* given before: no byte twice, and none that was never sent (UsbCdcAcmRead).
DeliveredInOrder == [][\A l \in Level : ReadStoresTail(l) => delivered' > delivered]_vars

\* Every byte the gadget sends gets through the ring, whichever position it lands
\* in and however full the ring gets: in the end it has been received and is no
\* longer buffered, so that a Read was given it or a Reset discarded it
\* (UsbCdcAcmPoll, UsbCdcAcmRead).
PortDrains == \A b \in 1 .. MaxBytes : sent >= b ~> Received - Buffered >= b

=============================================================================
