-------------------------- MODULE BootOverrideProofs --------------------------
(***************************************************************************)
(* Theorems about BootOverride, for every list of boot options and every   *)
(* number of requests, retries and faults.                                 *)
(***************************************************************************)
EXTENDS BootOverride, TLAPS

LEMMA NextCases ==
  ASSUME Next
  PROVE  \/ OperatorSets
         \/ BmcClears
         \/ LinkLoses
         \/ PowerFails
         \/ PowerOn
         \/ BootOption
         \/ Reboot
         \/ DiscoveredAgain
         \/ InitAfterDiscovery
         \/ HandlerStop
         \/ InitBeforeDiscovery
         \/ RootNoMedia
         \/ RootFails
         \/ RootAnswers
         \/ ReportOne
         \/ ReportsDone
         \/ SystemFails
         \/ SystemAnswers
         \/ OverrideIgnored
         \/ OverrideMatched
         \/ AckSends
         \/ AckTimesOut
         \/ AckRefused
         \/ AckSucceeds
         \/ ApplySetVariable
         \/ ApplySetVariableFails
         \/ ApplyResets
BY Zenon DEF Next, Discovery, Host

LEMMA Constants ==
  /\ NoOverride \in Override
  /\ NoBootNext \in Staged
  /\ Len(Options) \in Nat
<1>1. Len(Options) \in Nat
  BY OverrideAssumption
<1> QED
  BY <1>1 DEF NoOverride, Override, Enabled, NoBootNext, Staged, None

LEMMA MatchInRange ==
  ASSUME NEW t
  PROVE  FindBootOverrideOption(t) \subseteq 0 .. Len(Options)
BY Constants DEF FindBootOverrideOption

LEMMA TypeInit == Init => TypeOK
<1> SUFFICES ASSUME Init PROVE TypeOK
  OBVIOUS
<1>1. /\ clearing \in BOOLEAN /\ answered \in BOOLEAN /\ restEx \in BOOLEAN
      /\ marked \in BOOLEAN /\ mSyncDone \in BOOLEAN
  BY Zenon DEF Init
<1>2. /\ bmc \in Override /\ BootNext \in Staged /\ cached \in Staged /\ got \in Override
      /\ pc \in Places
  BY Constants, Zenon DEF Init, Places
<1>3. /\ Attempt \in Nat /\ report \in Nat /\ Match \in 0 .. Len(Options) /\ synced \in Nat
      /\ booted \in Nat /\ resets \in Nat /\ requests \in Nat /\ faults \in Nat
  BY Constants DEF Init, None
<1> QED
  BY <1>1, <1>2, <1>3 DEF TypeOK

LEMMA GoesDownType ==
  ASSUME GoesDown
  PROVE  /\ pc' \in Places /\ answered' \in BOOLEAN /\ cached' \in Staged
         /\ restEx' \in BOOLEAN /\ marked' \in BOOLEAN /\ mSyncDone' \in BOOLEAN
         /\ synced' \in Nat /\ Attempt' \in Nat /\ report' \in Nat
         /\ got' \in Override /\ Match' \in 0 .. Len(Options)
<1>1. /\ answered' \in BOOLEAN /\ restEx' \in BOOLEAN /\ marked' \in BOOLEAN
      /\ mSyncDone' \in BOOLEAN
  BY Zenon DEF GoesDown
<1>2. pc' \in Places /\ cached' \in Staged /\ got' \in Override
  BY Constants, Zenon DEF GoesDown, Places
<1>3. synced' \in Nat /\ Attempt' \in Nat /\ report' \in Nat /\ Match' \in 0 .. Len(Options)
  BY Constants DEF GoesDown, None
<1> QED
  BY <1>1, <1>2, <1>3

LEMMA TypeStep == TypeOK /\ [Next]_vars => TypeOK'
<1> SUFFICES ASSUME TypeOK, [Next]_vars PROVE TypeOK'
  OBVIOUS
<1> USE Constants, OverrideAssumption
    DEF TypeOK, Places, linkVars, handlerVars, exchangeVars, histVars, Exchange, None
<1>0. CASE UNCHANGED vars
  BY <1>0 DEF vars
<1>1. CASE OperatorSets
  BY <1>1 DEF OperatorSets, Override, Enabled
<1>2. CASE BmcClears
  BY <1>2 DEF BmcClears, Override, Enabled
<1>3. CASE LinkLoses
  BY <1>3 DEF LinkLoses
<1>4. CASE PowerFails
  BY <1>4, GoesDownType DEF PowerFails
<1>5. CASE PowerOn
  BY <1>5 DEF PowerOn
<1>6. CASE BootOption
  BY <1>6 DEF BootOption, Staged
<1>7. CASE Reboot
  BY <1>7, GoesDownType DEF Reboot
<1>8. CASE DiscoveredAgain
  BY <1>8 DEF DiscoveredAgain
<1>9. CASE InitAfterDiscovery
  BY <1>9 DEF InitAfterDiscovery
<1>10. CASE HandlerStop
  <2>1. restEx' \in BOOLEAN /\ marked' \in BOOLEAN
    BY <1>10, Zenon DEF HandlerStop
  <2> QED
    BY <1>10, <2>1 DEF HandlerStop
<1>11. CASE InitBeforeDiscovery
  BY <1>11 DEF InitBeforeDiscovery
<1>12. CASE RootNoMedia
  BY <1>12 DEF RootNoMedia
<1>13. CASE RootFails
  BY <1>13 DEF RootFails
<1>14. CASE RootAnswers
  BY <1>14 DEF RootAnswers
<1>15. CASE ReportOne
  BY <1>15 DEF ReportOne
<1>16. CASE ReportsDone
  BY <1>16 DEF ReportsDone
<1>17. CASE SystemFails
  BY <1>17 DEF SystemFails
<1>18. CASE SystemAnswers
  BY <1>18 DEF SystemAnswers
<1>19. CASE OverrideIgnored
  BY <1>19 DEF OverrideIgnored
<1>20. CASE OverrideMatched
  BY <1>20, MatchInRange DEF OverrideMatched
<1>21. CASE AckSends
  <2>1. clearing' \in BOOLEAN /\ answered' \in BOOLEAN
    BY <1>21, Zenon DEF AckSends
  <2> QED
    BY <1>21, <2>1 DEF AckSends
<1>22. CASE AckTimesOut
  BY <1>22 DEF AckTimesOut
<1>23. CASE AckRefused
  BY <1>23 DEF AckRefused
<1>24. CASE AckSucceeds
  BY <1>24 DEF AckSucceeds
<1>25. CASE ApplySetVariable
  BY <1>25 DEF ApplySetVariable, Staged, Override
<1>26. CASE ApplySetVariableFails
  BY <1>26 DEF ApplySetVariableFails
<1>27. CASE ApplyResets
  BY <1>27, GoesDownType DEF ApplyResets
<1> QED
  BY NextCases, <1>0, <1>1, <1>2, <1>3, <1>4, <1>5, <1>6, <1>7, <1>8, <1>9, <1>10, <1>11, <1>12, <1>13, <1>14, <1>15, <1>16, <1>17, <1>18, <1>19, <1>20, <1>21, <1>22, <1>23, <1>24, <1>25, <1>26, <1>27, Zenon

\* The exchange, the link and the boots keep their types
\* (NucRedfishSyncDxe.c).
THEOREM Typing == Spec => []TypeOK
BY TypeInit, TypeStep, PTL DEF Spec

-----------------------------------------------------------------------------
(* Requests are honoured in the order of their numbers: what the BMC still *)
(* holds, what the host has read and not staged, what is staged and what   *)
(* was booted, newest first.                                               *)

Holding == {"override", "ack", "wait", "apply"}

\* The BMC's request, if it is live, is newer than everything staged or
\* booted; so is the one the host has read, until it is staged, and the BMC
\* has given it up before that.
OrderInv ==
  /\ bmc.id <= requests
  /\ got.id <= requests
  /\ BootNext.id <= requests
  /\ booted <= requests
  /\ BootNext = NoBootNext \/ BootNext.id > booted
  /\ bmc.enabled = "Once" => bmc.id > BootNext.id /\ bmc.id > booted
  /\ pc \in Holding /\ got.enabled = "Once" => got.id > BootNext.id /\ got.id > booted
  /\ (pc = "wait" /\ answered) \/ pc = "apply" =>
       (bmc.enabled = "Once" => bmc.id > got.id)

StagingInv ==
  /\ pc \notin {"off", "reset", "os"} => cached = BootNext
  /\ pc \in {"ack", "wait", "apply", "reset"} =>
       got.enabled = "Once" /\ Match \in FindBootOverrideOption(got.target)
  /\ pc = "reset" => BootNext.option = Match

\* The resets so far, with the one that is due, against the newest request
\* that was staged.
ResetInv ==
  /\ resets <= BootNext.id \/ resets <= booted
  /\ pc = "reset" => resets < BootNext.id

LatchInv == synced = IF mSyncDone THEN 1 ELSE 0

OverrideInv == TypeOK /\ OrderInv /\ StagingInv /\ ResetInv /\ LatchInv

LEMMA OverrideInvInit == Init => OverrideInv
<1> SUFFICES ASSUME Init PROVE OverrideInv
  OBVIOUS
<1>1. LatchInv
  BY DEF Init, LatchInv
<1>2. OrderInv /\ StagingInv /\ ResetInv
  BY DEF Init, OrderInv, StagingInv, ResetInv, NoOverride, NoBootNext, None, Holding
<1> QED
  BY <1>1, <1>2, TypeInit DEF OverrideInv

LEMMA OverrideInvStep ==
  ASSUME OverrideInv, [Next]_vars
  PROVE  OrderInv' /\ StagingInv' /\ ResetInv' /\ LatchInv'
<1> USE DEF OverrideInv, TypeOK, linkVars, handlerVars, exchangeVars, histVars, Exchange,
        Override, Staged, NoOverride, NoBootNext, None, Holding
<1>0. CASE UNCHANGED vars
  BY <1>0 DEF vars, OrderInv, StagingInv, ResetInv, LatchInv
<1>1. CASE OperatorSets
  <2>1. OrderInv'
    BY <1>1 DEF OperatorSets, StagingInv, OrderInv
  <2>2. StagingInv'
    BY <1>1 DEF OperatorSets, StagingInv
  <2>3. ResetInv'
    BY <1>1 DEF OperatorSets, ResetInv
  <2>4. LatchInv'
    BY <1>1 DEF OperatorSets, LatchInv
  <2> QED
    BY <2>1, <2>2, <2>3, <2>4
<1>2. CASE BmcClears
  <2>1. OrderInv'
    BY <1>2 DEF BmcClears, StagingInv, OrderInv
  <2>2. StagingInv'
    BY <1>2 DEF BmcClears, StagingInv
  <2>3. ResetInv'
    BY <1>2 DEF BmcClears, ResetInv
  <2>4. LatchInv'
    BY <1>2 DEF BmcClears, LatchInv
  <2> QED
    BY <2>1, <2>2, <2>3, <2>4
<1>3. CASE LinkLoses
  <2>1. OrderInv'
    BY <1>3 DEF LinkLoses, StagingInv, OrderInv
  <2>2. StagingInv'
    BY <1>3 DEF LinkLoses, StagingInv
  <2>3. ResetInv'
    BY <1>3 DEF LinkLoses, ResetInv
  <2>4. LatchInv'
    BY <1>3 DEF LinkLoses, LatchInv
  <2> QED
    BY <2>1, <2>2, <2>3, <2>4
<1>4. CASE PowerFails
  <2>1. OrderInv'
    BY <1>4 DEF PowerFails, GoesDown, StagingInv, OrderInv
  <2>2. StagingInv'
    BY <1>4 DEF PowerFails, GoesDown, StagingInv
  <2>3. ResetInv'
    BY <1>4 DEF PowerFails, GoesDown, ResetInv
  <2>4. LatchInv'
    BY <1>4 DEF PowerFails, GoesDown, LatchInv
  <2> QED
    BY <2>1, <2>2, <2>3, <2>4
<1>5. CASE PowerOn
  <2>1. OrderInv'
    BY <1>5 DEF PowerOn, StagingInv, OrderInv
  <2>2. StagingInv'
    BY <1>5 DEF PowerOn, StagingInv
  <2>3. ResetInv'
    BY <1>5 DEF PowerOn, ResetInv
  <2>4. LatchInv'
    BY <1>5 DEF PowerOn, LatchInv
  <2> QED
    BY <2>1, <2>2, <2>3, <2>4
<1>6. CASE BootOption
  <2>1. OrderInv'
    BY <1>6 DEF BootOption, StagingInv, OrderInv
  <2>2. StagingInv'
    BY <1>6 DEF BootOption, StagingInv
  <2>3. ResetInv'
    BY <1>6 DEF BootOption, OrderInv, StagingInv, ResetInv
  <2>4. LatchInv'
    BY <1>6 DEF BootOption, LatchInv
  <2> QED
    BY <2>1, <2>2, <2>3, <2>4
<1>7. CASE Reboot
  <2>1. OrderInv'
    BY <1>7 DEF Reboot, GoesDown, StagingInv, OrderInv
  <2>2. StagingInv'
    BY <1>7 DEF Reboot, GoesDown, StagingInv
  <2>3. ResetInv'
    BY <1>7 DEF Reboot, GoesDown, ResetInv
  <2>4. LatchInv'
    BY <1>7 DEF Reboot, GoesDown, LatchInv
  <2> QED
    BY <2>1, <2>2, <2>3, <2>4
<1>8. CASE DiscoveredAgain
  <2>1. OrderInv'
    BY <1>8 DEF DiscoveredAgain, StagingInv, OrderInv
  <2>2. StagingInv'
    BY <1>8 DEF DiscoveredAgain, StagingInv
  <2>3. ResetInv'
    BY <1>8 DEF DiscoveredAgain, ResetInv
  <2>4. LatchInv'
    BY <1>8 DEF DiscoveredAgain, LatchInv
  <2> QED
    BY <2>1, <2>2, <2>3, <2>4
<1>9. CASE InitAfterDiscovery
  <2>1. OrderInv'
    BY <1>9 DEF InitAfterDiscovery, StagingInv, OrderInv
  <2>2. StagingInv'
    BY <1>9 DEF InitAfterDiscovery, StagingInv
  <2>3. ResetInv'
    BY <1>9 DEF InitAfterDiscovery, ResetInv
  <2>4. LatchInv'
    BY <1>9 DEF InitAfterDiscovery, LatchInv
  <2> QED
    BY <2>1, <2>2, <2>3, <2>4
<1>10. CASE HandlerStop
  <2>1. OrderInv'
    BY <1>10 DEF HandlerStop, StagingInv, OrderInv
  <2>2. StagingInv'
    BY <1>10 DEF HandlerStop, StagingInv
  <2>3. ResetInv'
    BY <1>10 DEF HandlerStop, ResetInv
  <2>4. LatchInv'
    BY <1>10 DEF HandlerStop, LatchInv
  <2> QED
    BY <2>1, <2>2, <2>3, <2>4
<1>11. CASE InitBeforeDiscovery
  <2>1. OrderInv'
    BY <1>11 DEF InitBeforeDiscovery, StagingInv, OrderInv
  <2>2. StagingInv'
    BY <1>11 DEF InitBeforeDiscovery, StagingInv
  <2>3. ResetInv'
    BY <1>11 DEF InitBeforeDiscovery, ResetInv
  <2>4. LatchInv'
    BY <1>11 DEF InitBeforeDiscovery, LatchInv
  <2> QED
    BY <2>1, <2>2, <2>3, <2>4
<1>12. CASE RootNoMedia
  <2>1. OrderInv'
    BY <1>12 DEF RootNoMedia, StagingInv, OrderInv
  <2>2. StagingInv'
    BY <1>12 DEF RootNoMedia, StagingInv
  <2>3. ResetInv'
    BY <1>12 DEF RootNoMedia, ResetInv
  <2>4. LatchInv'
    BY <1>12 DEF RootNoMedia, LatchInv
  <2> QED
    BY <2>1, <2>2, <2>3, <2>4
<1>13. CASE RootFails
  <2>1. OrderInv'
    BY <1>13 DEF RootFails, StagingInv, OrderInv
  <2>2. StagingInv'
    BY <1>13 DEF RootFails, StagingInv
  <2>3. ResetInv'
    BY <1>13 DEF RootFails, ResetInv
  <2>4. LatchInv'
    BY <1>13 DEF RootFails, LatchInv
  <2> QED
    BY <2>1, <2>2, <2>3, <2>4
<1>14. CASE RootAnswers
  <2>1. OrderInv'
    BY <1>14 DEF RootAnswers, StagingInv, OrderInv
  <2>2. StagingInv'
    BY <1>14 DEF RootAnswers, StagingInv
  <2>3. ResetInv'
    BY <1>14 DEF RootAnswers, ResetInv
  <2>4. LatchInv'
    BY <1>14 DEF RootAnswers, LatchInv
  <2> QED
    BY <2>1, <2>2, <2>3, <2>4
<1>15. CASE ReportOne
  <2>1. OrderInv'
    BY <1>15 DEF ReportOne, StagingInv, OrderInv
  <2>2. StagingInv'
    BY <1>15 DEF ReportOne, StagingInv
  <2>3. ResetInv'
    BY <1>15 DEF ReportOne, ResetInv
  <2>4. LatchInv'
    BY <1>15 DEF ReportOne, LatchInv
  <2> QED
    BY <2>1, <2>2, <2>3, <2>4
<1>16. CASE ReportsDone
  <2>1. OrderInv'
    BY <1>16 DEF ReportsDone, StagingInv, OrderInv
  <2>2. StagingInv'
    BY <1>16 DEF ReportsDone, StagingInv
  <2>3. ResetInv'
    BY <1>16 DEF ReportsDone, ResetInv
  <2>4. LatchInv'
    BY <1>16 DEF ReportsDone, LatchInv
  <2> QED
    BY <2>1, <2>2, <2>3, <2>4
<1>17. CASE SystemFails
  <2>1. OrderInv'
    BY <1>17 DEF SystemFails, StagingInv, OrderInv
  <2>2. StagingInv'
    BY <1>17 DEF SystemFails, StagingInv
  <2>3. ResetInv'
    BY <1>17 DEF SystemFails, ResetInv
  <2>4. LatchInv'
    BY <1>17 DEF SystemFails, LatchInv
  <2> QED
    BY <2>1, <2>2, <2>3, <2>4
<1>18. CASE SystemAnswers
  <2>1. OrderInv'
    BY <1>18 DEF SystemAnswers, StagingInv, OrderInv
  <2>2. StagingInv'
    BY <1>18 DEF SystemAnswers, StagingInv
  <2>3. ResetInv'
    BY <1>18 DEF SystemAnswers, ResetInv
  <2>4. LatchInv'
    BY <1>18 DEF SystemAnswers, LatchInv
  <2> QED
    BY <2>1, <2>2, <2>3, <2>4
<1>19. CASE OverrideIgnored
  <2>1. OrderInv'
    BY <1>19 DEF OverrideIgnored, StagingInv, OrderInv
  <2>2. StagingInv'
    BY <1>19 DEF OverrideIgnored, StagingInv
  <2>3. ResetInv'
    BY <1>19 DEF OverrideIgnored, ResetInv
  <2>4. LatchInv'
    BY <1>19 DEF OverrideIgnored, LatchInv
  <2> QED
    BY <2>1, <2>2, <2>3, <2>4
<1>20. CASE OverrideMatched
  <2>1. OrderInv'
    BY <1>20 DEF OverrideMatched, Honoured, StagingInv, OrderInv
  <2>2. StagingInv'
    BY <1>20 DEF OverrideMatched, Honoured, StagingInv
  <2>3. ResetInv'
    BY <1>20 DEF OverrideMatched, Honoured, ResetInv
  <2>4. LatchInv'
    BY <1>20 DEF OverrideMatched, Honoured, LatchInv
  <2> QED
    BY <2>1, <2>2, <2>3, <2>4
<1>21. CASE AckSends
  <2>1. OrderInv'
    BY <1>21 DEF AckSends, StagingInv, OrderInv
  <2>2. StagingInv'
    BY <1>21 DEF AckSends, StagingInv
  <2>3. ResetInv'
    BY <1>21 DEF AckSends, ResetInv
  <2>4. LatchInv'
    BY <1>21 DEF AckSends, LatchInv
  <2> QED
    BY <2>1, <2>2, <2>3, <2>4
<1>22. CASE AckTimesOut
  <2>1. OrderInv'
    BY <1>22 DEF AckTimesOut, StagingInv, OrderInv
  <2>2. StagingInv'
    BY <1>22 DEF AckTimesOut, StagingInv
  <2>3. ResetInv'
    BY <1>22 DEF AckTimesOut, ResetInv
  <2>4. LatchInv'
    BY <1>22 DEF AckTimesOut, LatchInv
  <2> QED
    BY <2>1, <2>2, <2>3, <2>4
<1>23. CASE AckRefused
  <2>1. OrderInv'
    BY <1>23 DEF AckRefused, StagingInv, OrderInv
  <2>2. StagingInv'
    BY <1>23 DEF AckRefused, StagingInv
  <2>3. ResetInv'
    BY <1>23 DEF AckRefused, ResetInv
  <2>4. LatchInv'
    BY <1>23 DEF AckRefused, LatchInv
  <2> QED
    BY <2>1, <2>2, <2>3, <2>4
<1>24. CASE AckSucceeds
  <2>1. OrderInv'
    BY <1>24 DEF AckSucceeds, StagingInv, OrderInv
  <2>2. StagingInv'
    BY <1>24 DEF AckSucceeds, StagingInv
  <2>3. ResetInv'
    BY <1>24 DEF AckSucceeds, ResetInv
  <2>4. LatchInv'
    BY <1>24 DEF AckSucceeds, LatchInv
  <2> QED
    BY <2>1, <2>2, <2>3, <2>4
<1>25. CASE ApplySetVariable
  <2>1. OrderInv'
    BY <1>25 DEF ApplySetVariable, StagingInv, OrderInv
  <2>2. StagingInv'
    BY <1>25 DEF ApplySetVariable, StagingInv
  <2>3. ResetInv'
    BY <1>25 DEF ApplySetVariable, OrderInv, StagingInv, ResetInv
  <2>4. LatchInv'
    BY <1>25 DEF ApplySetVariable, LatchInv
  <2> QED
    BY <2>1, <2>2, <2>3, <2>4
<1>26. CASE ApplySetVariableFails
  <2>1. OrderInv'
    BY <1>26 DEF ApplySetVariableFails, StagingInv, OrderInv
  <2>2. StagingInv'
    BY <1>26 DEF ApplySetVariableFails, StagingInv
  <2>3. ResetInv'
    BY <1>26 DEF ApplySetVariableFails, ResetInv
  <2>4. LatchInv'
    BY <1>26 DEF ApplySetVariableFails, LatchInv
  <2> QED
    BY <2>1, <2>2, <2>3, <2>4
<1>27. CASE ApplyResets
  <2>1. OrderInv'
    BY <1>27 DEF ApplyResets, GoesDown, StagingInv, OrderInv
  <2>2. StagingInv'
    BY <1>27 DEF ApplyResets, GoesDown, StagingInv
  <2>3. ResetInv'
    BY <1>27 DEF ApplyResets, GoesDown, ResetInv
  <2>4. LatchInv'
    BY <1>27 DEF ApplyResets, GoesDown, LatchInv
  <2> QED
    BY <2>1, <2>2, <2>3, <2>4
<1> QED
  BY NextCases, <1>0, <1>1, <1>2, <1>3, <1>4, <1>5, <1>6, <1>7, <1>8, <1>9, <1>10, <1>11, <1>12, <1>13, <1>14, <1>15, <1>16, <1>17, <1>18, <1>19, <1>20, <1>21, <1>22, <1>23, <1>24, <1>25, <1>26, <1>27, Zenon

LEMMA OverrideInvariant == Spec => []OverrideInv
<1>1. OverrideInv /\ [Next]_vars => OverrideInv'
  BY OverrideInvStep, TypeStep DEF OverrideInv
<1> QED
  BY <1>1, OverrideInvInit, PTL DEF Spec

\* No sequence of losses, delays, retries and power failures makes the host
\* reset for a request twice (HandleBootOverride, ApplyMatchedOption).
THEOREM EveryResetIsPaidFor == Spec => []ResetsPaidFor
<1>1. OverrideInv => ResetsPaidFor
  BY DEF OverrideInv, TypeOK, OrderInv, ResetInv, ResetsPaidFor, Staged
<1> QED
  BY <1>1, OverrideInvariant, PTL

\* What is staged was asked for once and is not the management link
\* (HandleBootOverride, FindBootOverrideOption, OptionIsNetworkBoot).
THEOREM StagedIsAsAsked ==
  ASSUME \A i \in 1 .. Len(Options) :
           {"usb", "mac"} \subseteq Options[i].nodes =>
             ~Options[i].app /\ ~OptionIsDiskBoot(Options[i])
  PROVE  Spec => []StagedAsAsked
<1>1. OverrideInv => StagedAsAsked
  <2> SUFFICES ASSUME OverrideInv, pc = "reset" PROVE StagedAsAsked
    BY DEF StagedAsAsked
  <2>1. got.enabled = "Once" /\ BootNext.option = Match
    BY DEF OverrideInv, StagingInv
  <2>2. Match \in 1 .. Len(Options) /\ Matches(got.target, Options[Match])
    BY DEF OverrideInv, StagingInv, FindBootOverrideOption, IsMatch
  <2>3. ~({"usb", "mac"} \subseteq Options[Match].nodes)
    BY <2>2 DEF Matches, OptionIsNetworkBoot, OptionHasNode
  <2> QED
    BY <2>1, <2>3 DEF StagedAsAsked
<1> QED
  BY <1>1, OverrideInvariant, PTL

\* One exchange per boot, however often the NIC and its service come and go
\* (NucRedfishConfigHandlerInit).
THEOREM ExchangesOnce == Spec => []OneExchangePerBoot
<1>1. OverrideInv => OneExchangePerBoot
  BY DEF OverrideInv, LatchInv, OneExchangePerBoot
<1> QED
  BY <1>1, OverrideInvariant, PTL

BootStep == pc = "bds" /\ pc' = "os" /\ cached # NoBootNext => cached.id > booted

\* No request is booted a second time (BdsEntry consumes what
\* ApplyMatchedOption staged).
THEOREM RequestsAreOneShot == Spec => OneShot
<1>1. OverrideInv => (pc = "bds" /\ cached # NoBootNext => cached.id > booted)
  BY DEF OverrideInv, StagingInv, OrderInv
<1>2. OverrideInv /\ [Next]_vars => [BootStep]_vars
  BY <1>1 DEF BootStep
<1>3. Spec => [][BootStep]_vars
  BY <1>2, OverrideInvariant, PTL DEF Spec
<1> QED
  BY <1>3 DEF OneShot, BootStep

=============================================================================
