--------------------------- MODULE WebClient_proofs ---------------------------
(***************************************************************************)
(* Theorems about the machines of the web client together. They share no   *)
(* state: a behaviour of the client is one of each machine, so what was    *)
(* proved of a machine holds of the client.                                *)
(***************************************************************************)
EXTENDS MCWebClient, Pages_proofs, Lists_proofs, ItemSchedule_proofs

-----------------------------------------------------------------------------
(* The client                                                              *)

\* Each machine starts as it does alone; the tree of tags, if it rests, without a tag.
LEMMA WebStarts ==
    WebInit => /\ screen \in Screens
               /\ FocusInit /\ InboxInit /\ ShellInit /\ ListInit /\ ViewInit /\ DrawerInit
               /\ BoxInit /\ Init
               /\ TagInit \/ TagRests
  BY DEF WebInit, TagStarts

\* A step of the client is a step or a stutter of each machine.
LEMMA WebSteps ==
    ASSUME [WebNext]_webVars
    PROVE  /\ screen' = screen
           /\ [TagNext]_tagVars /\ [FocusNext]_focusVars /\ [InboxNext]_inboxVars
           /\ [ShellNext]_shellVars /\ [ListNext]_listVars /\ [ViewNext]_viewVars
           /\ [DrawerNext]_drawerVars /\ [BoxNext]_boxVars /\ [Next]_vars
  <1>1. ViewTriage => ViewNext  BY DEF ViewNext
  <1> QED  BY <1>1 DEF WebNext, webVars

\* The client implements each of its machines: whatever is true of one is true of the client.
THEOREM Machines ==
    WebSpec => /\ FocusSpec /\ InboxSpec /\ ShellSpec /\ ListSpec /\ ViewsSpec /\ DrawerSpec
               /\ BoxSpec /\ Spec
  BY WebStarts, WebSteps, PTL
     DEF WebSpec, FocusSpec, InboxSpec, ShellSpec, ListSpec, ViewsSpec, DrawerSpec, BoxSpec, Spec

LEMMA TagRestsInv == TagRests => TagInv /\ TagSync
  <1> SUFFICES ASSUME TagRests PROVE TagInv /\ TagSync
    OBVIOUS
  <1>1. TagTypeOK
    <2>1. tagSent \in 0..TagWrites  BY TagAssumption DEF TagRests
    <2>2. tagRows \in TagTables /\ tagList \in TagTables  BY TagNoTable DEF TagRests
    <2>3. tagFetch \in TagFetches  BY TagNoTable DEF TagRests
    <2>4. tagItem \in [tags : SUBSET TagIds, done : BOOLEAN, version : Nat]  BY DEF TagRests
    <2> QED  BY <2>1, <2>2, <2>3, <2>4 DEF TagRests, TagTypeOK, TagFetches
  <1>2. TagNamed /\ TagSync  BY DEF TagRests, TagNamed, TagSync, TagFetch
  <1> QED  BY <1>1, <1>2 DEF TagInv

LEMMA WebTags == WebSpec => [](TagTypeOK /\ TagTreeIsFresh)
  <1>1. WebInit => TagInv /\ TagSync
    BY WebStarts, TagRestsInv, TagInitType, TagInitSync
  <1>2. TagInv /\ TagSync /\ [WebNext]_webVars => TagInv' /\ TagSync'
    BY WebSteps, TagStep, TagSyncStep
  <1>3. TagInv /\ TagSync => TagTypeOK /\ TagTreeIsFresh
    BY DEF TagInv, TagSync, TagTreeIsFresh
  <1> QED  BY <1>1, <1>2, <1>3, PTL DEF WebSpec

LEMMA WebScreen == WebSpec => [](screen \in Screens)
  <1>1. WebInit => screen \in Screens  BY WebStarts
  <1>2. screen \in Screens /\ [WebNext]_webVars => (screen \in Screens)'  BY WebSteps
  <1> QED  BY <1>1, <1>2, PTL DEF WebSpec

\* Every variable of the client keeps its type, whichever machine the screen shows.
THEOREM WebTypes == WebSpec => []WebTypeOK
  <1>1. /\ screen \in Screens /\ TagTypeOK /\ FocusTypeOK /\ InboxTypeOK /\ ShellTypeOK
        /\ ListTypeOK /\ ViewTypeOK /\ DrawerTypeOK /\ BoxTypeOK /\ TypeOK
        => WebTypeOK
    BY ScreensAssumption DEF WebTypeOK
  <1>2. DrawerInv => DrawerTypeOK  BY DEF DrawerInv
  <1> QED
    BY <1>1, <1>2, Machines, WebScreen, WebTags, FocusType, InboxType, ShellType, ListType,
       ViewType, DrawerInvHolds, BoxType, TypeCorrectness, PTL

\* What the repository promises the user of the client, machine by machine: the safety
\* properties that were proved of one hold of the client.
THEOREM WebKeepsItsPromises ==
    WebSpec => [](/\ FocusBarShowsOpen /\ InboxSettles /\ InboxAckIsFinal
                  /\ ShellOpensFromAway /\ TagTreeIsFresh /\ ListSettles /\ ListUndoIsReal
                  /\ ViewsTodayOnce /\ ViewsShowOnce
                  /\ DrawerNoLostUpdate /\ DrawerTouchIsMeant /\ BoxReadsItsWrites
                  /\ EstimateIsRange /\ RingsAsShown /\ UneditedSaveKeeps /\ MirrorIsExact
                  /\ GesturesAccepted)
  BY Machines, WebTags, BarShowsOpen, BellSettles, AckIsFinal, OpensFromAway, ListSettlesRight,
     ListUndoHolds, ShownTodayOnce, ShownOnce, NoLostUpdate, TouchIsMeant, ReadsItsWrites,
     EstimatesAreRanges, AlarmsAsShown, UneditedSavesKeep, MirrorsAreExact,
     GesturesAreAccepted, PTL
=============================================================================
