----------------------------- MODULE WebClientProofs -----------------------------
(***************************************************************************)
(* Proofs about the whole web client: a tab implements every one of its    *)
(* parts, so that what is proved of a part holds in the tab.               *)
(***************************************************************************)
EXTENDS MCWebClient, DocumentClientProofs, SessionAndChatProofs, AdminPageProofs,
        ClientPanelsProofs

-------------------------------------------------------------------------------
(* The composition.                                                        *)

\* The first state of the tab is one of every part ...
LEMMA PartsStart ==
    ClientInit => /\ SessionInit /\ ChatInit /\ DocumentInit /\ TreeInit /\ TablesInit /\ DrawerInit
                  /\ RuleInit /\ CronInit /\ GraphInit
                  /\ ViewerInit /\ DashboardInit /\ RatingInit /\ PaletteInit /\ ToastInit
BY DEF ClientInit

\* ... and its steps are steps of the part that is exercised, and leave the others
\* alone.
LEMMA PartsStep ==
    [ClientNext]_clientVars =>
        /\ [SessionNext]_sessionVars /\ [ChatNext]_chatVars /\ [DocumentNext]_docVars
        /\ [TreeNext]_treeVars /\ [TablesNext]_tableVars /\ [DrawerNext]_drawerVars
        /\ [RuleNext]_ruleVars /\ [CronNext]_cronVars /\ [GraphNext]_graphVars
        /\ [ViewerNext]_viewerVars /\ [DashboardNext]_dashboardVars /\ [RatingNext]_ratingVars
        /\ [PaletteNext]_paletteVars /\ [ToastNext]_toastVars
<1>1. CASE ClientNext
  BY <1>1 DEF ClientNext, TreeNext
<1>2. CASE UNCHANGED clientVars
  BY <1>2 DEF clientVars, panelVars
<1> QED  BY <1>1, <1>2

\* A tab implements each of its parts: whichever of them is exercised, the others
\* only ever stutter, so that everything a part promises holds in the tab.
THEOREM TabRunsItsParts ==
    ClientSpec =>
        /\ SessionSpec /\ ChatSpec /\ DocumentSpec /\ TreeSpec /\ TablesSpec /\ DrawerSpec
        /\ RuleSpec /\ CronSpec /\ GraphSpec
        /\ ViewerSpec /\ DashboardSpec /\ RatingSpec /\ PaletteSpec /\ ToastSpec
BY PartsStart, PartsStep, PTL
DEF ClientSpec, SessionSpec, ChatSpec, DocumentSpec, TreeSpec, TablesSpec, DrawerSpec, RuleSpec,
    CronSpec, GraphSpec, ViewerSpec, DashboardSpec, RatingSpec, PaletteSpec, ToastSpec

\* What was proved of the parts holds in the tab, for every value of the constants.
THEOREM TabKeepsPromises ==
    ClientSpec =>
        /\ []CookieIsLive /\ []SignOutLeavesNothing
        /\ []QuietViewIsLog /\ []FollowUpStays
        /\ []WatchedIsFresh /\ []TypedIsKept
        /\ []TableIsCurrent /\ []DrawerShowsLog /\ []TreeShowsDocuments
        /\ []EditorHoldsForm /\ []VerdictIsCurrent /\ []GraphIsCurrent
        /\ []ShownIsChosen /\ []DashboardKeepsUp /\ []AskedOnce /\ []NewestToastStays
BY TabRunsItsParts, CookieStaysLive, SignOutIsComplete, QuietPageShowsLog, FollowUpsStay,
   ShownIsFresh, TypingSurvives, TableStaysCurrent, DrawerShowsSession, TreeShown,
   EditorKeepsForm, VerdictStaysCurrent, GraphStaysCurrent, ViewersShowChoice, DashboardStaysUp,
   ThresholdsAskOnce, NewestToastRemains, PTL

\* The variables of every part, and so of the one that is exercised, have their types
\* (ClientTypeOK).
THEOREM TabKeepsTypes == ClientSpec => []ClientTypeOK
<1>1. /\ SessionTypeOK /\ ChatTypeOK /\ DocumentTypeOK /\ TreeTypeOK
      /\ TablesTypeOK /\ DrawerTypeOK /\ RuleTypeOK /\ CronTypeOK /\ GraphTypeOK
      /\ ViewerTypes /\ DashboardTypes /\ RatingTypes /\ PaletteTypes /\ ToastTypes
      => ClientTypeOK
  BY DEF ClientTypeOK, PanelsTypeOK
<1> QED
  BY <1>1, TabRunsItsParts, SessionTyping, ChatTyping, DocumentTyping, TreeTyping, TablesTyping,
     DrawerTypesKept, RuleTyping, CronTyping, GraphTyping, ViewerTyping, DashboardTyping,
     RatingTyping, PaletteTyping, ToastTyping, PTL
===============================================================================
