---------------------------- MODULE RacesProofs ----------------------------
(***************************************************************************)
(* What holds of the composition of MCRaces: every step is a step of each  *)
(* component or leaves it alone, so what is proved of the components holds *)
(* of the eight side by side, for every value of their constants.          *)
(***************************************************************************)
EXTENDS MCRaces, BackOfficeProofs, BrowserProofs, TabProofs

Component == {"alerts", "tenancy", "network", "lists", "roads", "client", "screens", "export"}

\* A step of the composition, as each of its components sees it.
LEMMA StepOfEach ==
    ASSUME [MCNext]_mcVars
    PROVE  /\ [AlertsNext]_alertsVars /\ [TenancyNext]_tenancyVars /\ [NetworkNext]_networkVars
           /\ [ListsNext]_listsVars /\ [RoadNext]_roadVars /\ [ClientNext]_clientVars
           /\ [ScreensNext]_screenVars /\ [ExportNext]_exportVars
           /\ focus \in Component => focus' \in Component
<1>1. CASE UNCHANGED mcVars
  BY <1>1 DEF mcVars
<1>2. CASE MCNext
  BY <1>2 DEF MCNext, Others
<1> QED
  BY <1>1, <1>2

LEMMA RacesCompose ==
    MCSpec => /\ AlertsSteps /\ TenancySpec /\ NetworkSpec /\ ListsSpec /\ RoadSpec /\ ClientSteps
              /\ ScreensSpec /\ ExportSpec
              /\ [](focus \in Component)
<1>1. MCInit => /\ AlertsInit /\ TenancyInit /\ NetworkInit /\ ListsInit /\ RoadInit /\ ClientInit
                /\ ScreensInit /\ ExportInit
                /\ focus \in Component
  BY DEF MCInit, Component
<1>2. [MCNext]_mcVars =>
           /\ [AlertsNext]_alertsVars /\ [TenancyNext]_tenancyVars /\ [NetworkNext]_networkVars
           /\ [ListsNext]_listsVars /\ [RoadNext]_roadVars /\ [ClientNext]_clientVars
           /\ [ScreensNext]_screenVars /\ [ExportNext]_exportVars
  BY StepOfEach
<1>3. focus \in Component /\ [MCNext]_mcVars => (focus \in Component)'
  BY StepOfEach
<1>4. MCSpec => AlertsSteps /\ TenancySpec /\ NetworkSpec /\ ListsSpec
  BY <1>1, <1>2, PTL DEF MCSpec, AlertsSteps, TenancySpec, NetworkSpec, ListsSpec
<1>5. MCSpec => RoadSpec /\ ClientSteps /\ ScreensSpec /\ ExportSpec
  BY <1>1, <1>2, PTL DEF MCSpec, RoadSpec, ClientSteps, ScreensSpec, ExportSpec
<1>6. MCSpec => [](focus \in Component)
  BY <1>1, <1>3, PTL DEF MCSpec
<1> QED
  BY <1>4, <1>5, <1>6, PTL

\* The rows, queues, queries and locals of every component keep their types in the composition.
THEOREM RacesTypeCorrect == MCSpec => []RacesTypeOK
<1>1. focus \in Component /\ AlertsTypeOK /\ TenancyTypeOK /\ NetworkTypeOK /\ ListsTypeOK /\ RoadTypeOK
        /\ ClientTypeOK /\ ScreensTypeOK /\ ExportTypeOK => RacesTypeOK
  BY DEF RacesTypeOK, Component
<1>2. AlertsSteps => []AlertsTypeOK
  <2>1. AlertsTyped => AlertsTypeOK
    BY DEF AlertsTyped
  <2> QED
    BY <2>1, AlertsTypes, PTL
<1> QED
  BY <1>1, <1>2, RacesCompose, TenancyTypeCorrect, NetworkTypeCorrect, ListsTypeCorrect, RoadTypeCorrect,
     ClientTypeStays, ScreensTypeCorrect, ExportTypeCorrect, PTL

\* What the eight components promise holds while they run side by side, for every value
\* of their constants: each other property of the composition's run.
THEOREM RacesAreSafe ==
    MCSpec => /\ [](OneOpenAlertPerWorker /\ StoredIsTold)
              /\ [](TwiceOnlyByOverlap /\ QuietListsAreCurrent)
              /\ [](OneCallPerLeg /\ LoadingHasACall)
              /\ [](ReuseNeedsCrossing /\ NoOrphanToken /\ QueuedHaveARefresh)
              /\ [](DoneIsShown /\ ScreensAreServed /\ ExportMissesOnlyByRace)
              /\ MisfitNeedsARace /\ OrphansNeedARace /\ ExpiryHitsOnlyLateLinks
              /\ MembersWereInvited /\ PassedStopsStay /\ UsedStaysOn
BY RacesCompose, OneOpenAlertStays, StoredStaysTold, TwiceNeedsOverlap, QuietScreensAreCurrent,
   LegsShareCalls, WhoLoadsWaitsForACall, ReuseStaysACrossing, TokensStayOwned, QueuedStayWithARefresh, DoneIsAlwaysShown,
   ScreensAreAlwaysServed, ExportsMissOnlyByRace, MisfitsComeFromRaces, OrphansComeFromRaces,
   OnlyLateLinksExpire, OnlyTheInvitedJoin, PassedCheckpointsStay, WhatIsUsedStaysOn, PTL
=============================================================================
