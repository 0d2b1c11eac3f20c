--------------------------- MODULE SerialRingProofs ---------------------------
(***************************************************************************)
(* Theorems about SerialRing, for every ring size, packet size and number  *)
(* of bytes.                                                               *)
(***************************************************************************)
EXTENDS SerialRing, SequenceTheorems, TLAPS

LEMMA RingSize == N \in Nat /\ N >= 2
BY RingAssumption DEF N

\* The increment of a ring index, without the modulus.
LEMMA Increment ==
  ASSUME NEW i \in 0 .. N - 1
  PROVE  (i + 1) % N = IF i = N - 1 THEN 0 ELSE i + 1
BY RingSize

LEMMA IndexInRing ==
  ASSUME NEW i \in 0 .. N - 1
  PROVE  (i + 1) % N \in 0 .. N - 1
BY RingSize, Increment

\* UINTN arithmetic on what is within its range, or below it.
LEMMA UintnFacts ==
  ASSUME NEW x \in Int, -UintnSize < x, x < UintnSize
  PROVE  Uintn(x) = IF x < 0 THEN x + UintnSize ELSE x
BY RingAssumption DEF Uintn

\* The bytes in the ring, and the room there is for more.
Held == Between(RxTail, RxHead)
Room == N - 1 - Held

LEMMA CountBounds ==
  ASSUME TypeOK
  PROVE  Held \in 0 .. N - 1 /\ Room \in 0 .. N - 1
BY RingSize DEF TypeOK, Held, Room, Between

\* What moving either index one place does to the number of bytes between them.
After(i) == IF i = N - 1 THEN 0 ELSE i + 1

LEMMA HeadMoves ==
  ASSUME NEW h \in 0 .. N - 1, NEW t \in 0 .. N - 1, Between(t, h) < N - 1
  PROVE  /\ After(h) # t
         /\ After(h) \in 0 .. N - 1
         /\ Between(t, After(h)) = Between(t, h) + 1
<1> USE RingSize DEF Between, After
<1>1. CASE h = N - 1
  BY <1>1
<1>2. CASE h # N - 1
  BY <1>2
<1> QED
  BY <1>1, <1>2

LEMMA TailMoves ==
  ASSUME NEW h \in 0 .. N - 1, NEW t \in 0 .. N - 1, h # t
  PROVE  /\ After(t) \in 0 .. N - 1
         /\ Between(t, h) > 0
         /\ Between(After(t), h) = Between(t, h) - 1
<1> USE RingSize DEF Between, After
<1>1. CASE t = N - 1
  BY <1>1
<1>2. CASE t # N - 1
  BY <1>2
<1> QED
  BY <1>1, <1>2

LEMMA FreeType ==
  ASSUME TypeOK, NEW c \in Context
  PROVE  RxCount(c) \in Nat /\ RxFree(c) \in Nat
<1>1. \A x \in Int : Uintn(x) \in Nat
  BY RingSize, RingAssumption DEF Uintn
<1>2. /\ cmpHead[c] \in Int /\ cmpTail[c] \in Int /\ RxHead \in Int
      /\ RxTail \in Int /\ N \in Int
  BY RingSize DEF TypeOK
<1>3. RxCount(c) \in Nat
  BY <1>1, <1>2 DEF RxCount
<1> QED
  BY <1>1, <1>2, <1>3 DEF RxFree

-----------------------------------------------------------------------------
LEMMA NextCases ==
  ASSUME Next
  PROVE  \/ GadgetSends
         \/ PollStarts
         \/ PollMeasures
         \/ PollGuard
         \/ PollBulk
         \/ PutMeasures
         \/ PutRoom
         \/ PutByte
         \/ PutLoadsHead
         \/ PutStoresHead
         \/ PutDone
         \/ \E l \in Level : ReadStarts(l)
         \/ \E l \in Level : ReadChecks(l)
         \/ \E l \in Level : ReadCounts(l)
         \/ \E l \in Level : ReadCopies(l)
         \/ \E l \in Level : ReadLoadsTail(l)
         \/ \E l \in Level : ReadStoresTail(l)
         \/ \E l \in Level : ResetStoresHead(l)
         \/ \E l \in Level : ResetStoresTail(l)
BY Zenon DEF Next, Poll, Callers, Read, Reset

LEMMA TypeInit == Init => TypeOK
BY RingSize DEF Init, TypeOK, Level, Context, CallPlaces, PollPlaces

LEMMA CompareType ==
  ASSUME TypeOK, NEW c \in Context, RxCountCompares(c) \/ RxCountEnds(c)
  PROVE  cmpHead' \in [Context -> 0 .. N - 1] /\ cmpTail' \in [Context -> 0 .. N - 1]
<1>1. 0 \in 0 .. N - 1
  BY RingSize
<1> QED
  BY <1>1, Zenon DEF TypeOK, RxCountCompares, RxCountEnds

LEMMA TypeStep == TypeOK /\ [Next]_vars => TypeOK'
<1> SUFFICES ASSUME TypeOK, [Next]_vars PROVE TypeOK'
  OBVIOUS
<1> USE RingSize, RingAssumption DEF TypeOK, CallPlaces, PollPlaces, ringVars, cmpVars,
        pollVars, callVars, Goto, Calls
<1> DEFINE Compared == cmpHead' \in [Context -> 0 .. N - 1] /\ cmpTail' \in [Context -> 0 .. N - 1]
<1>c. "poll" \in Context /\ Level \subseteq Context
  BY DEF Context
<1>0. CASE UNCHANGED vars
  BY <1>0 DEF vars
<1>1. CASE GadgetSends
  BY <1>1 DEF GadgetSends
<1>2. CASE PollStarts
  BY <1>2 DEF PollStarts
<1>3. CASE PollGuard
  <2>1. Compared
    BY <1>3, <1>c, CompareType DEF PollGuard
  <2> QED
    BY <1>3, <2>1 DEF PollGuard
<1>4. CASE PollBulk
  BY <1>4 DEF PollBulk
<1>5. CASE PutRoom
  <2>1. RxFree("poll") \in Nat
    BY FreeType DEF Context
  <2>2. Compared
    BY <1>5, <1>c, CompareType, Zenon DEF PutRoom
  <2> QED
    BY <1>5, <2>1, <2>2 DEF PutRoom
<1>6. CASE PutByte
  BY <1>6 DEF PutByte
<1>7. CASE PutLoadsHead
  BY <1>7 DEF PutLoadsHead
<1>8. CASE PutStoresHead
  BY <1>8, IndexInRing DEF PutStoresHead
<1>9. CASE PutDone
  BY <1>9 DEF PutDone
<1>10. ASSUME NEW l \in Level, ReadStarts(l) PROVE TypeOK'
  BY <1>10 DEF ReadStarts
<1>11. ASSUME NEW l \in Level, ReadChecks(l) PROVE TypeOK'
  <2>1. Compared
    BY <1>11, <1>c, CompareType, Zenon DEF ReadChecks
  <2>2. callPc' \in [Level -> CallPlaces]
    BY <1>11, Zenon DEF ReadChecks
  <2>3. \A m \in Level : callPc'[m] \in {"count", "copy", "load", "store"} => wanted'[m] > 0
    BY <1>11 DEF ReadChecks
  <2> QED
    BY <1>11, <2>1, <2>2, <2>3, Zenon DEF ReadChecks
<1>12. ASSUME NEW l \in Level, ReadCopies(l) PROVE TypeOK'
  BY <1>12 DEF ReadCopies
<1>13. ASSUME NEW l \in Level, ReadLoadsTail(l) PROVE TypeOK'
  BY <1>13 DEF ReadLoadsTail
<1>14. ASSUME NEW l \in Level, ReadStoresTail(l) PROVE TypeOK'
  <2>1. RxTail' \in 0 .. N - 1
    BY <1>14, IndexInRing, Zenon DEF ReadStoresTail
  <2>2. wanted' \in [Level -> Nat]
    BY <1>14 DEF ReadStoresTail
  <2>3. tailReg' \in [Level -> 0 .. N - 1] /\ byte' \in [Level -> Nat] /\ delivered' \in Nat
    BY <1>14 DEF ReadStoresTail
  <2>4. \A m \in Level : callPc'[m] \in {"count", "copy", "load", "store"} => wanted'[m] > 0
    BY <1>14 DEF ReadStoresTail
  <2> QED
    BY <1>14, <2>1, <2>2, <2>3, <2>4, Zenon DEF ReadStoresTail
<1>15. ASSUME NEW l \in Level, ResetStoresHead(l) PROVE TypeOK'
  BY <1>15 DEF ResetStoresHead
<1>16. ASSUME NEW l \in Level, ResetStoresTail(l) PROVE TypeOK'
  BY <1>16 DEF ResetStoresTail
<1>17. CASE PollMeasures
  <2>1. Compared
    BY <1>17, <1>c, CompareType DEF PollMeasures
  <2> QED
    BY <1>17, <2>1 DEF PollMeasures
<1>18. CASE PutMeasures
  <2>1. Compared
    BY <1>18, <1>c, CompareType DEF PutMeasures
  <2> QED
    BY <1>18, <2>1 DEF PutMeasures
<1>19. ASSUME NEW l \in Level, ReadCounts(l) PROVE TypeOK'
  <2>1. Compared
    BY <1>19, <1>c, CompareType, Zenon DEF ReadCounts
  <2>2. callPc' \in [Level -> CallPlaces] /\ wanted' \in [Level -> Nat]
    <3>1. CASE RxCount(l) > 0
      BY <1>19, <3>1, Zenon DEF ReadCounts
    <3>2. CASE ~(RxCount(l) > 0)
      <4>1. callPc' = [callPc EXCEPT ![l] = "idle"] /\ wanted' = [wanted EXCEPT ![l] = 0]
        BY <1>19, <3>2, Zenon DEF ReadCounts
      <4> QED
        BY <4>1
    <3> QED
      BY <3>1, <3>2
  <2>3. \A m \in Level : callPc'[m] \in {"count", "copy", "load", "store"} => wanted'[m] > 0
    BY <1>19 DEF ReadCounts
  <2> QED
    BY <1>19, <2>1, <2>2, <2>3 DEF ReadCounts
<1> QED
  BY NextCases, <1>0, <1>1, <1>2, <1>3, <1>4, <1>5, <1>6, <1>7, <1>8,
     <1>9, <1>10, <1>11, <1>12, <1>13, <1>14, <1>15, <1>16, <1>17, <1>18, <1>19, Zenon

\* Every interleaving of the timer and its callers keeps the indices inside
\* the ring (SerialIo.c).
THEOREM Typing == Spec => []TypeOK
BY TypeInit, TypeStep, PTL DEF Spec

-----------------------------------------------------------------------------
(* The ring as a queue of consecutive bytes. *)

\* One caller at a time, and the ring is reset only below the timer: there is no
\* caller above it, or the two exclude each other and the build keeps what RxCount
\* compared.
SingleCaller ==
  \/ Ops["notify"] = {}
  \/ Exclusive /\ "Reset" \notin Ops["notify"] /\ ~Reloads

Slot(x) == IF x < N THEN x ELSE x - N

CallInv ==
  /\ callPc["application"] = "idle" \/ callPc["notify"] = "idle"
  /\ \A l \in Level :
       /\ Ops[l] = {} => callPc[l] = "idle"
       /\ "Reset" \notin Ops[l] => callPc[l] # "tail"
       /\ callPc[l] = "count" /\ cmpHead[l] # cmpTail[l] => RxHead # RxTail
       /\ callPc[l] \in {"copy", "load", "store"} => RxHead # RxTail
       /\ callPc[l] \in {"load", "store"} => byte[l] = Rx[RxTail]
       /\ callPc[l] = "store" => tailReg[l] = RxTail

\* The room by what RxCount compared: a Read since then has only added to it.
Measured == N - 1 - Between(cmpTail["poll"], cmpHead["poll"])

PollInv ==
  /\ pollPc \in {"guard", "room"} =>
       Measured <= Room /\ (Reloads => cmpHead["poll"] = RxHead /\ cmpTail["poll"] = RxTail)
  /\ pollPc = "room" => Left <= Measured
  /\ pollPc = "bulk" => BulkInMaxPacket <= Room
  /\ pollPc \in {"remeasure", "room", "put", "load", "store"} =>
       Left <= Room /\ Data + Left = taken + 1
  /\ pollPc \in {"load", "store"} => Rx[RxHead] = Data
  /\ pollPc = "store" => headReg = RxHead

\* What is buffered are the last bytes received, in order; everything given
\* to a caller came before them.
QueueInv ==
  /\ Resetting => RxTail = 0 \/ RxHead < RxTail
  /\ delivered + Buffered <= Received
  /\ \A k \in 0 .. Buffered - 1 : Rx[Slot(First + k)] = Received - Buffered + k + 1

RingInv == TypeOK /\ CallInv /\ PollInv /\ QueueInv

LEMMA RingInvInit == Init => RingInv
<1> SUFFICES ASSUME Init PROVE RingInv
  OBVIOUS
<1> QED
  BY TypeInit, RingSize
  DEF Init, RingInv, CallInv, PollInv, QueueInv, Level, Resetting, Buffered, First,
      Received, Held, Between

\* Where the queue lies in the ring.
LEMMA Positions ==
  ASSUME RingInv
  PROVE  /\ Buffered \in 0 .. N - 1
         /\ First \in 0 .. N - 1
         /\ Slot(First + Buffered) = RxHead
         /\ \A k \in 0 .. Buffered - 1 :
              Slot(First + k) \in 0 .. N - 1 /\ Slot(First + k) # RxHead
<1> USE RingSize DEF RingInv, TypeOK, Slot
<1>1. CASE Resetting
  BY <1>1 DEF First, Buffered
<1>2. CASE ~Resetting
  BY <1>2 DEF First, Buffered, Held, Between
<1> QED
  BY <1>1, <1>2

LEMMA MeasuredType ==
  ASSUME RingInv
  PROVE  Measured \in Int
<1>1. cmpHead["poll"] \in 0 .. N - 1 /\ cmpTail["poll"] \in 0 .. N - 1
  BY DEF RingInv, TypeOK, Context
<1> QED
  BY <1>1, RingSize DEF Measured, Between

\* What the poll computes is the room by what it compared: nothing underflows.
LEMMA FreeIsMeasured ==
  ASSUME RingInv, pollPc \in {"guard", "room"}
  PROVE  RxFree("poll") = Measured /\ Measured \in 0 .. N - 1
<1> DEFINE h == cmpHead["poll"]
           t == cmpTail["poll"]
<1>1. h \in 0 .. N - 1 /\ t \in 0 .. N - 1
  BY DEF RingInv, TypeOK, Context
<1>2. Reloads => h = RxHead /\ t = RxTail
  BY DEF RingInv, PollInv
<1>3. RxCount("poll") = IF h >= t THEN Uintn(h - t) ELSE Uintn(N - t + h)
  BY <1>2 DEF RxCount
<1> HIDE DEF h, t
<1>4. Between(t, h) \in 0 .. N - 1
  BY <1>1, RingSize DEF Between
<1>5. \A x \in 0 .. N : Uintn(x) = x
  BY UintnFacts, RingSize, RingAssumption DEF N
<1>6. RxCount("poll") = Between(t, h)
  <2>1. CASE h >= t
    <3>1. h - t \in 0 .. N
      BY <1>1, <2>1, RingSize
    <3> QED
      BY <1>3, <1>5, <2>1, <3>1 DEF Between
  <2>2. CASE ~(h >= t)
    <3>1. N - t + h \in 0 .. N
      BY <1>1, <2>2, RingSize
    <3> QED
      BY <1>3, <1>5, <2>2, <3>1 DEF Between
  <2> QED
    BY <2>1, <2>2
<1>7. N - 1 - Between(t, h) \in 0 .. N - 1
  BY <1>4, RingSize
<1> QED
  BY <1>5, <1>6, <1>7, RingSize DEF RxFree, Measured, h, t

\* A Read that counts a byte has one, although the poll may have moved RxHead
\* between RxCount's comparison and its subtraction.
LEMMA CountedIsThere ==
  ASSUME RingInv, NEW l \in Level, callPc[l] = "count", RxCount(l) > 0
  PROVE  RxHead # RxTail
<1> SUFFICES ASSUME RxHead = RxTail PROVE FALSE
  OBVIOUS
<1>1. cmpHead[l] = cmpTail[l]
  BY DEF RingInv, CallInv
<1>2. cmpHead[l] \in Int /\ cmpTail[l] \in Int /\ RxTail \in Int
  BY RingSize DEF RingInv, TypeOK, Context
<1>3. RxCount(l) = Uintn(0)
  BY <1>1, <1>2 DEF RxCount
<1> QED
  BY <1>3, UintnFacts, RingAssumption, RingSize

LEMMA ReceivedType ==
  ASSUME RingInv
  PROVE  Received \in Int
BY DEF RingInv, TypeOK, Received

LEMMA BulkQueue ==
  ASSUME RingInv, PollBulk
  PROVE  QueueInv'
<1>1. Received' = Received
  BY DEF RingInv, TypeOK, PollBulk, Received
<1>2. /\ Resetting' = Resetting
      /\ Buffered' = Buffered
      /\ First' = First
  BY DEF PollBulk, ringVars, callVars, Resetting, Buffered, First, Held, Between
<1> QED
  BY <1>1, <1>2 DEF RingInv, QueueInv, PollBulk, ringVars, callVars, Slot

LEMMA PutByteQueue ==
  ASSUME RingInv, PutByte
  PROVE  QueueInv'
<1>1. /\ Resetting' = Resetting
      /\ Buffered' = Buffered
      /\ First' = First
      /\ Received' = Received
  BY DEF PutByte, callVars, Resetting, Buffered, First, Held, Between, Received
<1>2. \A k \in 0 .. Buffered - 1 : Rx'[Slot(First + k)] = Rx[Slot(First + k)]
  BY Positions DEF PutByte, RingInv, TypeOK
<1> QED
  BY <1>1, <1>2 DEF RingInv, QueueInv, PutByte, callVars, Slot

\* Storing RxHead adds a byte to the queue and takes one from the room.
LEMMA PutStoresHeadCount ==
  ASSUME RingInv, PutStoresHead
  PROVE  /\ RxHead' \in 0 .. N - 1
         /\ RxHead' # RxTail
         /\ Held' = Held + 1
         /\ Room' = Room - 1
         /\ Resetting' = Resetting
         /\ First' = First
         /\ Buffered' = Buffered + 1
         /\ Resetting => RxTail = 0 \/ RxHead' < RxTail
         /\ Received' = Received + 1
<1>1. RxHead' = After(RxHead)
  BY Increment DEF PutStoresHead, RingInv, TypeOK, PollInv, After
<1>2. Room >= 1
  BY CountBounds, RingSize DEF PutStoresHead, RingInv, TypeOK, PollInv
<1>3. Held' = Held + 1 /\ RxHead' # RxTail /\ RxHead' \in 0 .. N - 1
  <2>1. RxHead \in 0 .. N - 1 /\ RxTail \in 0 .. N - 1 /\ RxTail' = RxTail
    BY DEF PutStoresHead, RingInv, TypeOK
  <2>2. Held = Between(RxTail, RxHead) /\ Held' = Between(RxTail, RxHead')
    BY <2>1 DEF Held, Between
  <2>3. Between(RxTail, RxHead) < N - 1
    BY <1>2, <2>2, CountBounds, RingSize DEF Room, RingInv
  <2> QED
    BY <1>1, <2>1, <2>2, <2>3, HeadMoves
<1>4. Room' = Room - 1
  BY <1>3, CountBounds, RingSize DEF Room, RingInv
<1>5. Resetting' = Resetting /\ First' = First
  BY DEF PutStoresHead, callVars, Resetting, First
<1>6. Resetting => RxHead' = RxHead + 1 /\ (RxTail = 0 \/ RxHead' < RxTail)
  BY <1>1, <1>2, RingSize DEF RingInv, TypeOK, QueueInv, Held, Between, Room, After
<1>7. Buffered' = Buffered + 1
  BY <1>3, <1>5, <1>6 DEF Buffered, Held
<1>8. Received' = Received + 1
  BY DEF PutStoresHead, RingInv, TypeOK, Received
<1> QED
  BY <1>3, <1>4, <1>5, <1>6, <1>7, <1>8

LEMMA PutStoresHeadInv ==
  ASSUME RingInv, PutStoresHead
  PROVE  CallInv' /\ PollInv' /\ QueueInv'
<1>1. CallInv'
  BY PutStoresHeadCount DEF RingInv, PutStoresHead, callVars, CallInv
<1>2. PollInv'
  <2>1. Left' <= Room' /\ Data' + Left' = taken' + 1
    <3>1. /\ Left <= Room /\ Data + Left = taken + 1
          /\ Left \in Nat /\ Data \in Nat /\ taken \in Nat
      BY DEF RingInv, PutStoresHead, TypeOK, PollInv
    <3>2. Left' = Left - 1 /\ Data' = Data + 1 /\ taken' = taken
      BY DEF PutStoresHead
    <3>3. Room \in Int
      BY CountBounds, RingSize DEF RingInv
    <3> QED
      BY <3>1, <3>2, <3>3, PutStoresHeadCount
  <2>2. pollPc' = "put"
    BY DEF PutStoresHead
  <2> QED
    BY <2>1, <2>2 DEF PollInv
<1>3. Rx[Slot(First + Buffered)] = Received + 1
  BY Positions DEF RingInv, PutStoresHead, PollInv, TypeOK, Received
<1>4. QueueInv'
  <2>1. delivered' + Buffered' <= Received'
    <3>1. delivered' = delivered /\ delivered \in Int /\ delivered + Buffered <= Received
      BY DEF RingInv, TypeOK, QueueInv, PutStoresHead, callVars
    <3>2. Buffered \in Int
      BY Positions, RingSize
    <3> QED
      BY <3>1, <3>2, PutStoresHeadCount, ReceivedType
  <2>2. ASSUME NEW k \in 0 .. Buffered' - 1
        PROVE  Rx'[Slot(First' + k)] = Received' - Buffered' + k + 1
    <3>1. Rx' = Rx
      BY DEF PutStoresHead
    <3>2. CASE k = Buffered
      BY <1>3, <3>1, <3>2, PutStoresHeadCount, Positions, ReceivedType
    <3>3. CASE k \in 0 .. Buffered - 1
      BY <3>1, <3>3, PutStoresHeadCount, Positions, ReceivedType DEF RingInv, QueueInv
    <3> QED
      BY <3>2, <3>3, PutStoresHeadCount, Positions
  <2> QED
    BY <2>1, <2>2, PutStoresHeadCount DEF QueueInv, Slot, PutStoresHead
<1> QED
  BY <1>1, <1>2, <1>4

\* Storing RxTail takes the first byte off the queue and adds to the room.
LEMMA ReadStoresTailCount ==
  ASSUME SingleCaller, RingInv, NEW l \in Level, ReadStoresTail(l)
  PROVE  /\ ~Resetting /\ ~Resetting'
         /\ RxTail' = After(RxTail)
         /\ Held > 0
         /\ Held' = Held - 1
         /\ Room' = Room + 1
         /\ Received' = Received
         /\ delivered' = Rx[RxTail]
<1>1. ~Resetting /\ ~Resetting'
  BY DEF SingleCaller, RingInv, TypeOK, CallInv, Resetting, ReadStoresTail, Goto, Level
<1>2. RxTail' = After(RxTail)
  BY Increment DEF ReadStoresTail, RingInv, TypeOK, CallInv, After
<1>3. RxHead # RxTail
  BY DEF ReadStoresTail, RingInv, CallInv
<1>4. Held > 0 /\ Held' = Held - 1
  <2>1. RxHead \in 0 .. N - 1 /\ RxTail \in 0 .. N - 1 /\ RxHead' = RxHead
    BY DEF ReadStoresTail, RingInv, TypeOK
  <2>2. Held = Between(RxTail, RxHead) /\ Held' = Between(RxTail', RxHead)
    BY <2>1 DEF Held, Between
  <2> QED
    BY <1>2, <1>3, <2>1, <2>2, TailMoves
<1>5. Room' = Room + 1
  BY <1>4, CountBounds, RingSize DEF RingInv, Room
<1>6. Received' = Received
  BY DEF ReadStoresTail, pollVars, Received
<1>7. delivered' = Rx[RxTail]
  BY DEF ReadStoresTail, RingInv, CallInv
<1> QED
  BY <1>1, <1>2, <1>4, <1>5, <1>6, <1>7

LEMMA ReadStoresTailInv ==
  ASSUME SingleCaller, RingInv, NEW l \in Level, ReadStoresTail(l)
  PROVE  CallInv' /\ PollInv' /\ QueueInv'
<1>1. CallInv'
  BY DEF SingleCaller, RingInv, TypeOK, CallInv, ReadStoresTail, Goto, Level
<1>2. PollInv'
  <2>1. Room \in Int /\ BulkInMaxPacket \in Int /\ Left \in Int
    BY CountBounds, RingSize, RingAssumption DEF RingInv, TypeOK
  <2>2. \A x \in Int : x <= Room => x <= Room'
    BY <2>1, ReadStoresTailCount
  <2>3. pollPc \in {"guard", "room"} => ~Reloads
    BY DEF SingleCaller, RingInv, CallInv, ReadStoresTail, Runs, Level
  <2>4. Measured \in Int
    BY MeasuredType
  <2>5. Measured' = Measured
    BY DEF Measured, ReadStoresTail, cmpVars
  <2> QED
    BY <2>1, <2>2, <2>3, <2>4, <2>5 DEF RingInv, ReadStoresTail, pollVars, cmpVars, PollInv
<1>3. /\ Buffered = Held /\ Buffered' = Buffered - 1
      /\ First = RxTail /\ First' = RxTail'
  BY ReadStoresTailCount DEF Buffered, First, Held
<1>4. delivered' = Received - Buffered + 1
  <2>1. 0 \in 0 .. Buffered - 1
    BY <1>3, ReadStoresTailCount, Positions
  <2>2. Slot(First + 0) = RxTail
    BY <1>3, RingSize DEF RingInv, TypeOK, Slot
  <2> QED
    BY <2>1, <2>2, ReadStoresTailCount, Positions, ReceivedType DEF RingInv, QueueInv
<1>5. ASSUME NEW k \in 0 .. Buffered' - 1
      PROVE  Rx'[Slot(First' + k)] = Received' - Buffered' + k + 1
  <2>1. Slot(First' + k) = Slot(First + (k + 1))
    <3>1. RxTail \in 0 .. N - 1 /\ k \in 0 .. N - 2
      <4>1. RxTail \in 0 .. N - 1
        BY DEF RingInv, TypeOK
      <4>2. k \in Int /\ 0 <= k /\ k <= Buffered - 2
        BY <1>3, Positions, RingSize
      <4> QED
        BY <4>1, <4>2, Positions, RingSize
    <3>2. CASE RxTail = N - 1
      BY <1>3, <3>1, <3>2, ReadStoresTailCount, RingSize DEF Slot, After
    <3>3. CASE RxTail # N - 1
      BY <1>3, <3>1, <3>3, ReadStoresTailCount, RingSize DEF Slot, After
    <3> QED
      BY <3>2, <3>3
  <2>2. k + 1 \in 0 .. Buffered - 1
    BY <1>3, Positions
  <2> QED
    <3>1. Rx' = Rx
      BY DEF ReadStoresTail
    <3>2. Rx[Slot(First + (k + 1))] = Received - Buffered + (k + 1) + 1
      BY <2>2 DEF RingInv, QueueInv
    <3>3. Buffered \in Int /\ k \in Int
      BY <1>3, Positions, RingSize
    <3> QED
      BY <1>3, <2>1, <3>1, <3>2, <3>3, ReadStoresTailCount, ReceivedType
<1>6. QueueInv'
  BY <1>3, <1>4, <1>5, ReadStoresTailCount, Positions, ReceivedType DEF QueueInv, Slot
<1> QED
  BY <1>1, <1>2, <1>6

LEMMA ResetStoresHeadQueue ==
  ASSUME RingInv, NEW l \in Level, ResetStoresHead(l)
  PROVE  QueueInv'
<1>1. Resetting'
  BY DEF RingInv, TypeOK, Resetting, ResetStoresHead, Goto
<1>2. Buffered' = 0 /\ Received' = Received /\ RxHead' = 0
  BY <1>1 DEF Buffered, Received, ResetStoresHead, pollVars
<1>3. delivered' + Buffered' <= Received'
  <2>1. delivered \in Int /\ delivered + Buffered <= Received /\ delivered' = delivered
    BY DEF RingInv, TypeOK, QueueInv, ResetStoresHead
  <2> QED
    BY <1>2, <2>1, Positions, ReceivedType, RingSize
<1>4. RxTail' = 0 \/ RxHead' < RxTail'
  BY <1>2, RingSize DEF RingInv, TypeOK, ResetStoresHead
<1>5. 0 .. Buffered' - 1 = {}
  BY <1>2
<1> QED
  BY <1>3, <1>4, <1>5, Zenon DEF QueueInv

LEMMA ResetStoresTailQueue ==
  ASSUME SingleCaller, RingInv, NEW l \in Level, ResetStoresTail(l)
  PROVE  QueueInv'
<1>1. Resetting /\ ~Resetting'
  BY DEF SingleCaller, RingInv, TypeOK, CallInv, Resetting, ResetStoresTail, Goto, Level
<1>2. Held' = RxHead
  BY DEF ResetStoresTail, RingInv, TypeOK, Held, Between
<1>3. First' = First /\ Buffered' = Buffered /\ Received' = Received
  BY <1>1, <1>2 DEF First, Buffered, Held, ResetStoresTail, pollVars, Received
<1> QED
  BY <1>1, <1>3 DEF RingInv, QueueInv, ResetStoresTail, Slot

\* The guard asks for a packet that fits.
LEMMA GuardPoll ==
  ASSUME RingInv, PollGuard
  PROVE  PollInv'
<1>1. RxFree("poll") = Measured /\ Measured \in Int /\ Measured <= Room
  BY FreeIsMeasured, RingSize DEF RingInv, PollInv, PollGuard
<1>2. Room' = Room /\ Room \in Int /\ BulkInMaxPacket \in Int
  BY CountBounds, RingSize, RingAssumption DEF RingInv, PollGuard, ringVars, Room, Held
<1>3. pollPc' = "idle" \/ (pollPc' = "bulk" /\ BulkInMaxPacket <= Room')
  <2>1. CASE RxFree("poll") < BulkInMaxPacket
    BY <2>1 DEF PollGuard
  <2>2. CASE ~(RxFree("poll") < BulkInMaxPacket)
    <3>1. pollPc' = "bulk"
      BY <2>2 DEF PollGuard
    <3> QED
      BY <1>1, <1>2, <2>2, <3>1
  <2> QED
    BY <2>1, <2>2
<1> QED
  BY <1>3 DEF PollInv

LEMMA MeasuresPoll ==
  ASSUME RingInv, PollMeasures \/ PutMeasures
  PROVE  PollInv'
<1>1. cmpHead'["poll"] = RxHead /\ cmpTail'["poll"] = RxTail
  BY DEF RingInv, TypeOK, Context, PollMeasures, PutMeasures, RxCountCompares
<1>2. Room' = Room /\ RxHead' = RxHead /\ RxTail' = RxTail /\ Measured' = Room
  BY <1>1 DEF PollMeasures, PutMeasures, ringVars, Room, Held, Measured
<1>3. Measured' <= Room'
  BY <1>2, CountBounds, RingSize DEF RingInv
<1>4. pollPc' = "guard" \/ (pollPc' = "room" /\ Left' <= Room /\ Data' + Left' = taken' + 1)
  BY DEF RingInv, PollInv, PollMeasures, PutMeasures
<1> QED
  BY <1>1, <1>2, <1>3, <1>4, Zenon DEF PollInv

LEMMA PutDoneQueue ==
  ASSUME RingInv, PutDone
  PROVE  QueueInv'
<1>1. Received' = Received
  BY DEF RingInv, TypeOK, PollInv, PutDone, Received
<1>2. /\ Resetting' = Resetting
      /\ Buffered' = Buffered
      /\ First' = First
  BY DEF PutDone, ringVars, callVars, Resetting, Buffered, First, Between
<1> QED
  BY <1>1, <1>2 DEF RingInv, QueueInv, PutDone, ringVars, callVars, Slot

LEMMA BulkPoll ==
  ASSUME RingInv, PollBulk
  PROVE  PollInv'
<1>1. PICK Length \in 0 .. BulkInMaxPacket :
        /\ taken' = taken + Length
        /\ Data' = taken + 1
        /\ Left' = Length
        /\ pollPc' = IF Length = 0 THEN "idle" ELSE "remeasure"
  BY DEF PollBulk
<1>2. Room' = Room /\ Room \in Int /\ BulkInMaxPacket \in Int /\ taken \in Int
  BY CountBounds, RingSize, RingAssumption
  DEF RingInv, TypeOK, PollBulk, ringVars, Room, Held
<1>3. BulkInMaxPacket <= Room
  BY DEF RingInv, PollInv, PollBulk
<1>4. Left' <= Room' /\ Data' + Left' = taken' + 1
  BY <1>1, <1>2, <1>3
<1>5. pollPc' \in {"idle", "remeasure"}
  BY <1>1
<1> QED
  BY <1>4, <1>5 DEF PollInv

\* RxPut finds room for all of it.
LEMMA RoomPoll ==
  ASSUME RingInv, PutRoom
  PROVE  PollInv' /\ Left' = Left
<1>1. RxFree("poll") = Measured /\ Measured \in Int /\ Left <= Measured /\ Left \in Int
  BY FreeIsMeasured, RingSize DEF RingInv, TypeOK, PollInv, PutRoom
<1>2. Left' = Left
  BY <1>1 DEF PutRoom
<1>3. Room' = Room
  BY DEF PutRoom, ringVars, Room, Held
<1> QED
  BY <1>2, <1>3 DEF RingInv, PollInv, PutRoom

LEMMA ReadStartsCall ==
  ASSUME SingleCaller, RingInv, NEW l \in Level, ReadStarts(l)
  PROVE  CallInv'
<1>1. \A m \in Level : m # l => callPc[m] = "idle"
  BY DEF SingleCaller, RingInv, CallInv, ReadStarts, Calls, Runs, Level
<1> QED
  BY <1>1 DEF RingInv, TypeOK, CallInv, ReadStarts, Calls, Goto, Level, ringVars

LEMMA ReadChecksCall ==
  ASSUME SingleCaller, RingInv, NEW l \in Level, ReadChecks(l)
  PROVE  CallInv'
<1>1. \A m \in Level : m # l => callPc[m] = "idle"
  BY Zenon DEF RingInv, CallInv, ReadChecks, Level
<1>2. /\ callPc' \in [Level -> CallPlaces]
      /\ callPc'[l] \in {"count", "idle"}
      /\ \A m \in Level : m # l => callPc'[m] = "idle"
  BY <1>1, Zenon DEF RingInv, TypeOK, ReadChecks, Goto, CallPlaces
<1>3. callPc'[l] = "count" => cmpHead'[l] = RxHead /\ cmpTail'[l] = RxTail
  BY DEF RingInv, TypeOK, ReadChecks, Goto, RxCountCompares, Context
<1>4. Ops[l] # {}
  BY Zenon DEF RingInv, CallInv, ReadChecks
<1> QED
  BY <1>2, <1>3, <1>4 DEF CallInv, ReadChecks, ringVars, Level

LEMMA ReadCountsCall ==
  ASSUME SingleCaller, RingInv, NEW l \in Level, ReadCounts(l)
  PROVE  CallInv'
<1>1. \A m \in Level : m # l => callPc[m] = "idle"
  BY DEF RingInv, CallInv, ReadCounts, Level
<1>2. /\ callPc'[l] \in {"copy", "idle"}
      /\ \A m \in Level : m # l => callPc'[m] = "idle"
  BY <1>1 DEF RingInv, TypeOK, ReadCounts, Goto
<1>3. callPc'[l] = "copy" => RxHead # RxTail
  BY CountedIsThere DEF RingInv, TypeOK, ReadCounts, Goto
<1>4. Ops[l] # {}
  BY DEF RingInv, CallInv, ReadCounts
<1> QED
  BY <1>2, <1>3, <1>4 DEF CallInv, ReadCounts, ringVars, Level

\* Neither half of RxCount in a Read touches the queue.
LEMMA ReadCountsQueue ==
  ASSUME RingInv, NEW l \in Level, ReadChecks(l) \/ ReadCounts(l)
  PROVE  QueueInv'
<1>1. Resetting' = Resetting
  BY Zenon DEF RingInv, TypeOK, Resetting, ReadChecks, ReadCounts, Goto
<1>2. Buffered' = Buffered /\ First' = First /\ Received' = Received
  BY <1>1 DEF Buffered, First, Received, Between, ReadChecks, ReadCounts, ringVars, pollVars
<1> QED
  BY <1>1, <1>2 DEF RingInv, QueueInv, ReadChecks, ReadCounts, ringVars, Slot

LEMMA RingInvStep ==
  ASSUME SingleCaller, RingInv, [Next]_vars
  PROVE  CallInv' /\ PollInv' /\ QueueInv'
<1> USE RingSize, RingAssumption DEF RingInv, TypeOK, Level, ringVars, pollVars, callVars, Goto,
        Resetting, Buffered, First, Received, Held, Between, Room, PollRuns, Runs,
        Context, cmpVars, Calls, RxCountCompares, RxCountEnds, Measured
<1>0. CASE UNCHANGED vars
  BY <1>0, Zenon DEF vars, CallInv, PollInv, QueueInv
<1>1. CASE GadgetSends
  <2>1. CallInv'
    BY <1>1, Zenon DEF GadgetSends, CallInv
  <2>2. PollInv'
    BY <1>1 DEF GadgetSends, PollInv
  <2>3. QueueInv'
    BY <1>1 DEF GadgetSends, QueueInv
  <2> QED
    BY <2>1, <2>2, <2>3
<1>2. CASE PollStarts
  <2>1. CallInv'
    BY <1>2 DEF PollStarts, CallInv
  <2>2. PollInv'
    BY <1>2 DEF PollStarts, PollInv
  <2>3. QueueInv'
    BY <1>2 DEF PollStarts, QueueInv
  <2> QED
    BY <2>1, <2>2, <2>3
<1>3. CASE PollGuard
  <2>1. CallInv'
    BY <1>3, Zenon DEF PollGuard, CallInv, PollInv
  <2>2. PollInv'
    BY <1>3, GuardPoll, Zenon
  <2>3. QueueInv'
    BY <1>3, Zenon DEF PollGuard, QueueInv, PollInv
  <2> QED
    BY <2>1, <2>2, <2>3
<1>4. CASE PollBulk
  <2>1. CallInv'
    BY <1>4, Zenon DEF PollBulk, CallInv, PollInv
  <2>2. PollInv'
    BY <1>4, BulkPoll, Zenon
  <2>3. QueueInv'
    BY <1>4, BulkQueue, Zenon
  <2> QED
    BY <2>1, <2>2, <2>3
<1>5. CASE PutRoom
  <2>1. CallInv'
    BY <1>5 DEF PutRoom, CallInv, PollInv
  <2>2. PollInv'
    BY <1>5, RoomPoll, Zenon
  <2>3. QueueInv'
    BY <1>5, Zenon DEF PutRoom, QueueInv, PollInv
  <2> QED
    BY <2>1, <2>2, <2>3
<1>6. CASE PutByte
  <2>1. CallInv'
    BY <1>6, Zenon DEF PutByte, CallInv, PollInv, QueueInv
  <2>2. PollInv'
    BY <1>6, Zenon DEF PutByte, CallInv, PollInv, QueueInv
  <2>3. QueueInv'
    BY <1>6, PutByteQueue, Zenon
  <2> QED
    BY <2>1, <2>2, <2>3
<1>7. CASE PutLoadsHead
  <2>1. CallInv'
    BY <1>7 DEF PutLoadsHead, CallInv
  <2>2. PollInv'
    BY <1>7, Zenon DEF PutLoadsHead, PollInv
  <2>3. QueueInv'
    BY <1>7 DEF PutLoadsHead, QueueInv
  <2> QED
    BY <2>1, <2>2, <2>3
<1>8. CASE PutStoresHead
  BY <1>8, PutStoresHeadInv, Zenon
<1>9. CASE PutDone
  <2>1. CallInv'
    BY <1>9 DEF PutDone, CallInv, PollInv
  <2>2. PollInv'
    BY <1>9 DEF PutDone, PollInv
  <2>3. QueueInv'
    BY <1>9, PutDoneQueue, Zenon
  <2> QED
    BY <2>1, <2>2, <2>3
<1>10. ASSUME NEW l \in Level, ReadStarts(l) PROVE CallInv' /\ PollInv' /\ QueueInv'
  <2>1. CallInv'
    BY <1>10, ReadStartsCall, Zenon
  <2>2. PollInv'
    BY <1>10, Zenon DEF ReadStarts, PollInv
  <2>3. QueueInv'
    BY <1>10, Zenon DEF ReadStarts, QueueInv
  <2> QED
    BY <2>1, <2>2, <2>3
<1>11. ASSUME NEW l \in Level, ReadChecks(l) PROVE CallInv' /\ PollInv' /\ QueueInv'
  <2>1. CallInv'
    BY <1>11, ReadChecksCall, Zenon
  <2>2. PollInv'
    BY <1>11, Zenon DEF ReadChecks, CallInv, PollInv, QueueInv
  <2>3. QueueInv'
    BY <1>11, ReadCountsQueue, Zenon
  <2> QED
    BY <2>1, <2>2, <2>3
<1>12. ASSUME NEW l \in Level, ReadCopies(l) PROVE CallInv' /\ PollInv' /\ QueueInv'
  <2>1. CallInv'
    BY <1>12, Zenon DEF ReadCopies, CallInv
  <2>2. PollInv'
    BY <1>12, Zenon DEF ReadCopies, PollInv
  <2>3. QueueInv'
    BY <1>12, Zenon DEF ReadCopies, QueueInv
  <2> QED
    BY <2>1, <2>2, <2>3
<1>13. ASSUME NEW l \in Level, ReadLoadsTail(l) PROVE CallInv' /\ PollInv' /\ QueueInv'
  <2>1. CallInv'
    BY <1>13, Zenon DEF ReadLoadsTail, CallInv
  <2>2. PollInv'
    BY <1>13, Zenon DEF ReadLoadsTail, PollInv
  <2>3. QueueInv'
    BY <1>13, Zenon DEF ReadLoadsTail, QueueInv
  <2> QED
    BY <2>1, <2>2, <2>3
<1>14. ASSUME NEW l \in Level, ReadStoresTail(l) PROVE CallInv' /\ PollInv' /\ QueueInv'
  BY <1>14, ReadStoresTailInv, Zenon
<1>15. ASSUME NEW l \in Level, ResetStoresHead(l) PROVE CallInv' /\ PollInv' /\ QueueInv'
  <2>1. CallInv'
    BY <1>15, Zenon DEF ResetStoresHead, CallInv, PollInv, QueueInv, SingleCaller, Slot
  <2>2. PollInv'
    BY <1>15, Zenon DEF ResetStoresHead, CallInv, PollInv, QueueInv, SingleCaller, Slot
  <2>3. QueueInv'
    BY <1>15, ResetStoresHeadQueue, Zenon
  <2> QED
    BY <2>1, <2>2, <2>3
<1>16. ASSUME NEW l \in Level, ResetStoresTail(l) PROVE CallInv' /\ PollInv' /\ QueueInv'
  <2>1. CallInv'
    BY <1>16, Zenon DEF ResetStoresTail, CallInv, PollInv, QueueInv, SingleCaller, Slot
  <2>2. PollInv'
    BY <1>16, Zenon DEF ResetStoresTail, CallInv, PollInv, QueueInv, SingleCaller, Slot
  <2>3. QueueInv'
    BY <1>16, ResetStoresTailQueue, Zenon
  <2> QED
    BY <2>1, <2>2, <2>3
<1>17. CASE PollMeasures
  <2>1. CallInv'
    BY <1>17 DEF PollMeasures, CallInv
  <2>2. PollInv'
    BY <1>17, MeasuresPoll, Zenon
  <2>3. QueueInv'
    BY <1>17, Zenon DEF PollMeasures, QueueInv
  <2> QED
    BY <2>1, <2>2, <2>3
<1>18. CASE PutMeasures
  <2>1. CallInv'
    BY <1>18 DEF PutMeasures, CallInv
  <2>2. PollInv'
    BY <1>18, MeasuresPoll, Zenon
  <2>3. QueueInv'
    BY <1>18 DEF PutMeasures, QueueInv
  <2> QED
    BY <2>1, <2>2, <2>3
<1>19. ASSUME NEW l \in Level, ReadCounts(l) PROVE CallInv' /\ PollInv' /\ QueueInv'
  <2>1. CallInv'
    BY <1>19, ReadCountsCall, Zenon
  <2>2. PollInv'
    BY <1>19, Zenon DEF ReadCounts, PollInv
  <2>3. QueueInv'
    BY <1>19, ReadCountsQueue, Zenon
  <2> QED
    BY <2>1, <2>2, <2>3
<1> QED
  BY NextCases, <1>0, <1>1, <1>2, <1>3, <1>4, <1>5, <1>6, <1>7, <1>8,
     <1>9, <1>10, <1>11, <1>12, <1>13, <1>14, <1>15, <1>16, <1>17, <1>18, <1>19, Zenon

LEMMA RingInvariant ==
  ASSUME SingleCaller
  PROVE  Spec => []RingInv
<1>1. RingInv /\ [Next]_vars => RingInv'
  BY RingInvStep, TypeStep DEF RingInv
<1> QED
  BY <1>1, RingInvInit, PTL DEF Spec

DeliveryStep == \A l \in Level : ReadStoresTail(l) => delivered' > delivered

LEMMA DeliverySteps ==
  ASSUME SingleCaller, RingInv
  PROVE  DeliveryStep
<1>1. ASSUME NEW l \in Level, ReadStoresTail(l) PROVE delivered' > delivered
  <2>1. delivered' = Received - Held + 1
    <3>1. Buffered = Held /\ First = RxTail /\ 0 \in 0 .. Buffered - 1
      BY <1>1, ReadStoresTailCount, Positions, CountBounds, RingSize
      DEF Buffered, Held, First, RingInv
    <3>2. Slot(First + 0) = RxTail
      BY <3>1, RingSize DEF RingInv, TypeOK, Slot
    <3>3. Rx[Slot(First + 0)] = Received - Buffered + 0 + 1
      BY <3>1 DEF RingInv, QueueInv
    <3> QED
      BY <1>1, <3>1, <3>2, <3>3, ReadStoresTailCount, ReceivedType, CountBounds, RingSize
      DEF RingInv
  <2>2. delivered + Held <= Received /\ delivered \in Int /\ Held \in Int
    <3>1. Buffered = Held
      BY <1>1, ReadStoresTailCount DEF Buffered, Held
    <3>2. Held \in Int
      BY CountBounds, RingSize DEF RingInv
    <3> QED
      BY <3>1, <3>2 DEF RingInv, QueueInv, TypeOK
  <2> QED
    BY <2>1, <2>2, ReceivedType
<1> QED
  BY <1>1 DEF DeliveryStep

\* Each byte a Read returns was sent after every byte a caller was given before:
\* none is returned twice, wherever the timer interrupts a Read or a Read the timer
\* (UsbCdcAcmRead).
THEOREM DeliveryIsInOrder ==
  ASSUME SingleCaller
  PROVE  Spec => DeliveredInOrder
<1>1. Spec => [][DeliveryStep]_vars
  <2>1. RingInv /\ [Next]_vars => [DeliveryStep]_vars
    BY DeliverySteps
  <2> QED
    BY <2>1, RingInvariant, PTL DEF Spec
<1> QED
  BY <1>1 DEF DeliveredInOrder, DeliveryStep

-----------------------------------------------------------------------------
(* RingIsFifo. *)

\* The n bytes up to the r-th, as a sequence.
Run(n, r) == [k \in 1 .. n |-> r - n + k]

LEMMA RunIsSeq ==
  ASSUME NEW n \in Nat, NEW r \in Int
  PROVE  Run(n, r) \in Seq(Int) /\ Len(Run(n, r)) = n
BY DEF Run

LEMMA RunIsEmpty ==
  ASSUME NEW r \in Int
  PROVE  Run(0, r) = <<>>
<1>1. Run(0, r) \in Seq(Int) /\ Len(Run(0, r)) = 0
  BY RunIsSeq
<1> QED
  BY <1>1, EmptySeq

LEMMA RunGrows ==
  ASSUME NEW n \in Nat, NEW r \in Int
  PROVE  Append(Run(n, r), r + 1) = Run(n + 1, r + 1)
<1> DEFINE a == Append(Run(n, r), r + 1)
           b == Run(n + 1, r + 1)
<1>1. Run(n, r) \in Seq(Int) /\ Len(Run(n, r)) = n
  BY RunIsSeq
<1>2. b \in Seq(Int) /\ Len(b) = n + 1
  <2>1. n + 1 \in Nat /\ r + 1 \in Int
    OBVIOUS
  <2> QED
    BY <2>1, RunIsSeq
<1>3. /\ a \in Seq(Int) /\ Len(a) = n + 1
      /\ \A i \in 1 .. n : a[i] = Run(n, r)[i]
      /\ a[n + 1] = r + 1
  BY <1>1, AppendProperties
<1>4. ASSUME NEW i \in 1 .. n + 1 PROVE a[i] = b[i]
  <2>1. b[i] = r - n + i
    BY DEF Run
  <2>2. i \in 1 .. n => Run(n, r)[i] = r - n + i
    BY DEF Run
  <2> HIDE DEF a, b
  <2> QED
    BY <1>3, <2>1, <2>2
<1> HIDE DEF a, b
<1>5. a = b
  BY <1>2, <1>3, <1>4, SeqEqual
<1> QED
  BY <1>5 DEF a, b

LEMMA RunShrinks ==
  ASSUME NEW n \in Nat \ {0}, NEW r \in Int
  PROVE  /\ Run(n, r) # <<>>
         /\ Head(Run(n, r)) = r - n + 1
         /\ Tail(Run(n, r)) = Run(n - 1, r)
<1> DEFINE a == Tail(Run(n, r))
           b == Run(n - 1, r)
<1>1. Run(n, r) \in Seq(Int) /\ Len(Run(n, r)) = n
  BY RunIsSeq
<1>2. Run(n, r) # <<>>
  BY <1>1, EmptySeq
<1>3. Head(Run(n, r)) = r - n + 1
  <2>1. Head(Run(n, r)) = Run(n, r)[1]
    BY <1>1, <1>2
  <2>2. Run(n, r)[1] = r - n + 1
    BY DEF Run
  <2> QED
    BY <2>1, <2>2
<1>4. b \in Seq(Int) /\ Len(b) = n - 1
  <2>1. n - 1 \in Nat
    OBVIOUS
  <2> QED
    BY <2>1, RunIsSeq
<1>5. /\ a \in Seq(Int) /\ Len(a) = n - 1
      /\ \A i \in 1 .. Len(a) : a[i] = Run(n, r)[i + 1]
  BY <1>1, <1>2, HeadTailProperties
<1>6. ASSUME NEW i \in 1 .. n - 1 PROVE a[i] = b[i]
  <2>1. b[i] = r - (n - 1) + i /\ Run(n, r)[i + 1] = r - n + (i + 1)
    BY DEF Run
  <2>2. a[i] = Run(n, r)[i + 1]
    BY <1>5
  <2> HIDE DEF a, b
  <2> QED
    BY <2>1, <2>2
<1> HIDE DEF a, b
<1>7. a = b
  BY <1>4, <1>5, <1>6, SeqEqual
<1> QED
  BY <1>2, <1>3, <1>7 DEF a, b

Queue == [k \in 1 .. Buffered |-> Rx[(First + k - 1) % N]]

\* The slots that the ring buffers hold a run that ends with the last byte
\* received.
QueueFacts ==
  /\ Queue = Run(Buffered, Received)
  /\ Buffered \in 0 .. N - 1
  /\ Received \in Int

LEMMA QueueIsRun == RingInv => QueueFacts
<1> SUFFICES ASSUME RingInv PROVE QueueFacts
  OBVIOUS
<1>1. Buffered \in 0 .. N - 1 /\ First \in 0 .. N - 1 /\ Received \in Int
  BY Positions, ReceivedType
<1>2. ASSUME NEW k \in 1 .. Buffered
      PROVE  Rx[(First + k - 1) % N] = Received - Buffered + k
  <2>1. k - 1 \in 0 .. Buffered - 1 /\ First + k - 1 = First + (k - 1)
    BY <1>1, RingSize
  <2>2. (First + k - 1) % N = Slot(First + (k - 1))
    BY <1>1, <2>1, RingSize DEF Slot
  <2>3. Rx[Slot(First + (k - 1))] = Received - Buffered + (k - 1) + 1
    BY <2>1 DEF RingInv, QueueInv
  <2> QED
    BY <1>1, <2>1, <2>2, <2>3, RingSize
<1>3. Queue = Run(Buffered, Received)
  BY <1>2, Zenon DEF Queue, Run
<1> QED
  BY <1>1, <1>3 DEF QueueFacts

LEMMA QueueStaysRun == RingInv' => QueueFacts'
BY QueueIsRun, PTL

\* What a step does to the queue, in terms of its length and of the last byte
\* received.
Same == Buffered' = Buffered /\ Received' = Received /\ delivered' = delivered
Grows == Buffered' = Buffered + 1 /\ Received' = Received + 1 /\ delivered' = delivered
Shrinks ==
  /\ Buffered > 0
  /\ Buffered' = Buffered - 1
  /\ Received' = Received
  /\ delivered' = Received - Buffered + 1
Empties == Buffered' = 0 /\ Received' = Received /\ delivered' = delivered

LEMMA ReadShrinks ==
  ASSUME SingleCaller, RingInv, NEW l \in Level, ReadStoresTail(l)
  PROVE  Shrinks
<1>1. Buffered = Held /\ Buffered' = Held' /\ First = RxTail
  BY ReadStoresTailCount DEF Buffered, First, Held
<1>2. 0 \in 0 .. Buffered - 1
  BY <1>1, ReadStoresTailCount, Positions
<1>3. Slot(First + 0) = RxTail
  BY <1>1, RingSize DEF RingInv, TypeOK, Slot
<1>4. Rx[Slot(First + 0)] = Received - Buffered + 0 + 1
  BY <1>2 DEF RingInv, QueueInv
<1>5. Buffered \in Int
  BY Positions, RingSize
<1> QED
  BY <1>1, <1>3, <1>4, <1>5, ReadStoresTailCount, ReceivedType DEF Shrinks

LEMMA QueueSteps ==
  ASSUME SingleCaller, RingInv, [Next]_vars
  PROVE  Same \/ Grows \/ Shrinks \/ Empties
<1> USE DEF ringVars, pollVars, callVars, Buffered, Resetting, Held, Between, Received,
        Calls
<1>0. CASE UNCHANGED vars
  BY <1>0 DEF vars, Same
<1>1. CASE GadgetSends
  BY <1>1 DEF GadgetSends, Same
<1>2. CASE PollStarts
  BY <1>2 DEF PollStarts, Same
<1>3. CASE PollGuard
  BY <1>3 DEF PollGuard, Same
<1>4. CASE PollBulk
  BY <1>4 DEF PollBulk, Same, RingInv, TypeOK
<1>5. CASE PutRoom
  BY <1>5 DEF PutRoom, Same
<1>6. CASE PutByte
  BY <1>6 DEF PutByte, Same
<1>7. CASE PutLoadsHead
  BY <1>7 DEF PutLoadsHead, Same
<1>8. CASE PutStoresHead
  <2>1. delivered' = delivered
    BY <1>8 DEF PutStoresHead
  <2> QED
    BY <1>8, <2>1, PutStoresHeadCount, Zenon DEF Grows
<1>9. CASE PutDone
  BY <1>9 DEF PutDone, Same, RingInv, TypeOK, PollInv
<1>10. ASSUME NEW l \in Level, ReadStarts(l) PROVE Same
  BY <1>10 DEF ReadStarts, Goto, Same, RingInv, TypeOK, Level
<1>11. ASSUME NEW l \in Level, ReadChecks(l) PROVE Same
  BY <1>11 DEF ReadChecks, Goto, Same, RingInv, TypeOK, Level
<1>12. ASSUME NEW l \in Level, ReadCopies(l) PROVE Same
  BY <1>12 DEF ReadCopies, Goto, Same, RingInv, TypeOK, Level
<1>13. ASSUME NEW l \in Level, ReadLoadsTail(l) PROVE Same
  BY <1>13 DEF ReadLoadsTail, Goto, Same, RingInv, TypeOK, Level
<1>14. ASSUME NEW l \in Level, ReadStoresTail(l) PROVE Shrinks
  BY <1>14, ReadShrinks
<1>15. ASSUME NEW l \in Level, ResetStoresHead(l) PROVE Empties
  BY <1>15 DEF ResetStoresHead, Goto, Empties, RingInv, TypeOK, Level
<1>16. ASSUME NEW l \in Level, ResetStoresTail(l) PROVE Same
  <2>1. Resetting /\ ~Resetting'
    BY <1>16 DEF SingleCaller, RingInv, TypeOK, CallInv, ResetStoresTail, Goto, Level
  <2>2. Held' = RxHead /\ delivered' = delivered /\ Received' = Received
    BY <1>16 DEF ResetStoresTail, RingInv, TypeOK
  <2> QED
    BY <2>1, <2>2 DEF Same
<1>17. CASE PollMeasures
  BY <1>17 DEF PollMeasures, Same
<1>18. CASE PutMeasures
  BY <1>18 DEF PutMeasures, Same
<1>19. ASSUME NEW l \in Level, ReadCounts(l) PROVE Same
  BY <1>19 DEF ReadCounts, Goto, Same, RingInv, TypeOK, Level
<1> QED
  BY NextCases, <1>0, <1>1, <1>2, <1>3, <1>4, <1>5, <1>6, <1>7, <1>8,
     <1>9, <1>10, <1>11, <1>12, <1>13, <1>14, <1>15, <1>16, <1>17, <1>18, <1>19, Zenon

\* Each step of the ring is a step of the queue or leaves it alone.
LEMMA FifoSteps ==
  ASSUME SingleCaller, RingInv, RingInv', [Next]_vars
  PROVE  [Fifo!Receive \/ Fifo!Deliver \/ Fifo!Discard]_(Fifo!fifoVars)
<1>1. /\ Queue = Run(Buffered, Received)
      /\ Buffered \in Nat /\ Buffered \in 0 .. N - 1 /\ Received \in Int
  BY QueueIsRun, RingSize DEF QueueFacts
<1>2. Queue' = Run(Buffered', Received') /\ Buffered' \in 0 .. N - 1
  BY QueueStaysRun, Zenon DEF QueueFacts, Run
<1>3. CASE Same
  <2>1. Queue' = Queue
    BY <1>1, <1>2, <1>3, Zenon DEF Same
  <2>2. UNCHANGED Fifo!fifoVars
    BY <1>3, <2>1 DEF Fifo!fifoVars, Queue, Same, Received
  <2> QED
    BY <2>2
<1>4. CASE Grows
  <2>1. Queue' = Append(Queue, Received + 1)
    BY <1>1, <1>2, <1>4, RunGrows, Zenon DEF Grows
  <2>2. Len(Queue) < N - 1
    <3>1. Len(Queue) = Buffered
      BY <1>1, RunIsSeq
    <3> QED
      BY <1>1, <1>2, <1>4, <3>1, RingSize DEF Grows
  <2>3. Fifo!Receive
    BY <1>4, <2>1, <2>2, Zenon DEF Fifo!Receive, Queue, Grows, Received
  <2> QED
    BY <2>3
<1>5. CASE Shrinks
  <2>1. Queue # <<>> /\ delivered' = Head(Queue) /\ Queue' = Tail(Queue)
    <3>1. Buffered \in Nat \ {0}
      BY <1>1, <1>5 DEF Shrinks
    <3> QED
      BY <1>1, <1>2, <1>5, <3>1, RunShrinks, Zenon DEF Shrinks
  <2>2. Fifo!Deliver
    BY <1>5, <2>1, Zenon DEF Fifo!Deliver, Queue, Shrinks, Received
  <2> QED
    BY <2>2
<1>6. CASE Empties
  <2>1. Queue' = <<>>
    BY <1>1, <1>2, <1>6, RunIsEmpty, Zenon DEF Empties
  <2>2. Fifo!Discard
    BY <1>6, <2>1 DEF Fifo!Discard, Queue, Empties, Received
  <2> QED
    BY <2>2
<1> QED
  BY <1>3, <1>4, <1>5, <1>6, QueueSteps

LEMMA FifoStarts == Init => Fifo!FifoInit
<1> SUFFICES ASSUME Init PROVE Fifo!FifoInit
  OBVIOUS
<1>1. Buffered = 0 /\ Received = 0 /\ delivered = 0
  BY RingSize DEF Init, Buffered, Resetting, Held, Between, Received, Level
<1>2. Queue = <<>>
  BY <1>1, RingInvInit, QueueIsRun, RunIsEmpty DEF QueueFacts
<1> QED
  BY <1>1, <1>2 DEF Fifo!FifoInit, Queue, Received

\* The ring, the timer's poll and a single caller implement the bounded queue of
\* SerialFifo, for every ring and packet size: each byte the gadget sends is
\* queued once and in order, a Read takes the first, and only a Reset discards
\* any (RxPut, UsbCdcAcmRead, UsbCdcAcmReset).
THEOREM RingImplementsFifo ==
  ASSUME SingleCaller
  PROVE  Spec => RingIsFifo
<1>1. RingInv /\ RingInv' /\ [Next]_vars =>
        [Fifo!Receive \/ Fifo!Deliver \/ Fifo!Discard]_(Fifo!fifoVars)
  BY FifoSteps
<1> QED
  BY <1>1, FifoStarts, RingInvariant, PTL DEF Spec, RingIsFifo, Fifo!FifoSpec

=============================================================================
