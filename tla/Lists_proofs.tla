---------------------------- MODULE Lists_proofs ----------------------------
(***************************************************************************)
(* Theorems about the list pages of the web client, for any number of      *)
(* items, gestures, requests and writes of others. The drawer: a save      *)
(* overwrites no version it has not seen, and touches a reminder only      *)
(* where the user did. The list: once nothing is under way it shows the    *)
(* server's rows, and the toast offers to undo only what was done. The     *)
(* views: every open item is shown, once, and an empty page is explained.  *)
(***************************************************************************)
EXTENDS ItemDrawer, ItemList, ItemViews, FiniteSetTheorems, WellFoundedInduction, TLAPS
LOCAL INSTANCE FiniteSetsExt

-----------------------------------------------------------------------------
(* Drawer: renders                                                         *)

\* A render shows the item asked for, or nothing.
LEMMA DrawerRenderShows ==
    ASSUME NEW i, NEW rows, NEW rings, DrawerRender(i, rows, rings)
    PROVE  \/ i = DrawerNone /\ drawerForm' = DrawerNoForm
           \/ /\ i # DrawerNone
              /\ drawerForm' = DrawerFill(DrawerReset(drawerForm, i, rows), i, rings)
  BY DEF DrawerRender

\* The second effect changes the reminder of the draft only.
LEMMA DrawerFillKeeps ==
    ASSUME NEW form \in DrawerForm, NEW i, NEW rings
    PROVE  LET filled == DrawerFill(form, i, rings)
           IN  /\ filled \in DrawerForm
               /\ filled.item = form.item /\ filled.base = form.base
               /\ filled.tags = form.tags /\ filled.stray = form.stray
               /\ filled.touched = form.touched /\ filled.meant = form.meant
  BY DEF DrawerFill, DrawerForm

\* The first one starts a draft of the item as it is now, or the draft there is was made
\* from just that.
LEMMA DrawerResetDraft ==
    ASSUME NEW form \in DrawerForm, NEW i \in DrawerItems, NEW rows \in [DrawerItems -> Nat]
    PROVE  LET reset == DrawerReset(form, i, rows)
           IN  /\ reset \in DrawerForm /\ reset.item = i
               /\ \/ /\ reset.base = rows[i] /\ reset.tags = 0
                     /\ ~reset.touched /\ ~reset.meant
                  \/ reset = form /\ form.item = i /\ drawerList[i] = rows[i]
  BY DEF DrawerReset, DrawerDraft, DrawerForm

\* What a render does to the parts of the form that a save depends on.
LEMMA DrawerRenderDraft ==
    ASSUME drawerForm \in DrawerForm, NEW i \in DrawerItems,
           NEW rows \in [DrawerItems -> Nat], NEW rings, DrawerRender(i, rows, rings)
    PROVE  /\ drawerForm' \in DrawerForm /\ drawerForm'.item = i
           /\ \/ /\ drawerForm'.base = rows[i] /\ drawerForm'.tags = 0
                 /\ ~drawerForm'.touched
              \/ /\ drawerForm.item = i /\ drawerList[i] = rows[i]
                 /\ drawerForm'.base = drawerForm.base /\ drawerForm'.tags = drawerForm.tags
                 /\ drawerForm'.stray = drawerForm.stray
                 /\ drawerForm'.touched = drawerForm.touched
                 /\ drawerForm'.meant = drawerForm.meant
  <1> DEFINE reset == DrawerReset(drawerForm, i, rows)
  <1>1. i # DrawerNone  BY DrawerAssumption
  <1>2. drawerForm' = DrawerFill(reset, i, rings)  BY <1>1, DrawerRenderShows
  <1>3. /\ reset \in DrawerForm /\ reset.item = i
        /\ \/ reset.base = rows[i] /\ reset.tags = 0 /\ ~reset.touched /\ ~reset.meant
           \/ reset = drawerForm /\ drawerForm.item = i /\ drawerList[i] = rows[i]
    BY DrawerResetDraft
  <1> HIDE DEF reset
  <1>4. /\ drawerForm' \in DrawerForm
        /\ drawerForm'.item = reset.item /\ drawerForm'.base = reset.base
        /\ drawerForm'.tags = reset.tags /\ drawerForm'.stray = reset.stray
        /\ drawerForm'.touched = reset.touched /\ drawerForm'.meant = reset.meant
    BY <1>2, <1>3, DrawerFillKeeps
  <1> QED  BY <1>3, <1>4

\* Closing leaves an empty form.
LEMMA DrawerNoFormType == DrawerNoForm \in DrawerForm
  BY DEF DrawerNoForm, DrawerForm

-----------------------------------------------------------------------------
(* The invariant                                                           *)

\* The draft was made from the item as the list has it, its tags as well unless an overtaken
\* creation strayed; it counts as touched only where it was.
DrawerFresh ==
    /\ drawerForm.item # DrawerNone =>
          /\ drawerForm.base = drawerList[drawerForm.item]
          /\ drawerForm.stray \/ drawerForm.tags \in {0, drawerList[drawerForm.item]}
    /\ drawerForm.touched => drawerForm.meant

\* The same of a request, for the version it names.
DrawerFair(call) ==
    /\ call.op # "tag" => call.base = call.ver /\ (call.stray \/ call.tags \in {0, call.ver})
    /\ call.touched => call.meant

DrawerInv ==
    /\ DrawerTypeOK
    /\ DrawerFresh
    /\ \A call \in drawerCalls : DrawerFair(call)
    /\ ~drawerLost

\* A render keeps the draft fresh when the list becomes rows.
LEMMA DrawerRenderFresh ==
    ASSUME DrawerTypeOK, DrawerFresh, NEW i \in DrawerItems \cup {DrawerNone},
           NEW rows \in [DrawerItems -> Nat], NEW rings,
           DrawerRender(i, rows, rings), drawerList' = rows
    PROVE  drawerForm' \in DrawerForm /\ DrawerFresh'
  <1>1. CASE i = DrawerNone
    <2>1. drawerForm' = DrawerNoForm  BY <1>1, DrawerRenderShows
    <2> QED  BY <2>1, DrawerNoFormType DEF DrawerFresh, DrawerNoForm
  <1>2. CASE i \in DrawerItems
    <2>1. drawerForm \in DrawerForm  BY DEF DrawerTypeOK
    <2>2. /\ drawerForm' \in DrawerForm /\ drawerForm'.item = i
          /\ \/ /\ drawerForm'.base = rows[i] /\ drawerForm'.tags = 0
                /\ ~drawerForm'.touched
             \/ /\ drawerForm.item = i /\ drawerList[i] = rows[i]
                /\ drawerForm'.base = drawerForm.base /\ drawerForm'.tags = drawerForm.tags
                /\ drawerForm'.stray = drawerForm.stray
                /\ drawerForm'.touched = drawerForm.touched
                /\ drawerForm'.meant = drawerForm.meant
      BY <1>2, <2>1, DrawerRenderDraft
    <2> QED  BY <1>2, <2>2, DrawerAssumption DEF DrawerFresh
  <1> QED  BY <1>1, <1>2

\* A step that sends no request and leaves the history alone.
LEMMA DrawerQuietStep ==
    ASSUME DrawerInv, DrawerTypeOK', DrawerFresh', drawerCalls' \subseteq drawerCalls,
           UNCHANGED drawerLost
    PROVE  DrawerInv'
  BY DEF DrawerInv, DrawerFair

-----------------------------------------------------------------------------
(* Each action                                                             *)

LEMMA DrawerOpenStep ==
    ASSUME DrawerInv, DrawerOpen
    PROVE  DrawerInv'
  <1> PICK i \in DrawerItems : /\ DrawerRender(i, drawerList, drawerRings)
                               /\ drawerAsked' = drawerAsked \cup {i}
    BY DEF DrawerOpen
  <1>1. drawerForm' \in DrawerForm /\ DrawerFresh'
    BY DrawerRenderFresh DEF DrawerInv, DrawerTypeOK, DrawerOpen
  <1>2. DrawerTypeOK'  BY <1>1 DEF DrawerInv, DrawerTypeOK, DrawerOpen
  <1> QED  BY <1>1, <1>2, DrawerQuietStep DEF DrawerOpen

LEMMA DrawerCloseStep ==
    ASSUME DrawerInv, DrawerClose
    PROVE  DrawerInv'
  <1>1. drawerForm' \in DrawerForm /\ DrawerFresh'
    BY DrawerRenderFresh DEF DrawerInv, DrawerTypeOK, DrawerClose
  <1>2. drawerCalls' \subseteq drawerCalls  BY DEF DrawerClose
  <1>3. DrawerTypeOK'  BY <1>1, <1>2 DEF DrawerInv, DrawerTypeOK, DrawerClose
  <1> QED  BY <1>1, <1>2, <1>3, DrawerQuietStep DEF DrawerClose

LEMMA DrawerListedStep ==
    ASSUME DrawerInv, DrawerListed
    PROVE  DrawerInv'
  <1>0. /\ drawerFetch.rows \in [DrawerItems -> Nat]
        /\ drawerForm.item \in DrawerItems \cup {DrawerNone}
    BY DEF DrawerInv, DrawerTypeOK, DrawerForm
  <1>1. /\ drawerList' = drawerFetch.rows
        /\ DrawerRender(drawerForm.item, drawerFetch.rows, drawerRings)
    BY DEF DrawerListed
  <1>2. drawerForm' \in DrawerForm /\ DrawerFresh'
    BY <1>0, <1>1, DrawerRenderFresh DEF DrawerInv
  <1>3. drawerFetch' \in [at : {"idle", "asked", "answered"}, rows : [DrawerItems -> Nat]]
    BY DEF DrawerInv, DrawerTypeOK, DrawerListed
  <1>4. DrawerTypeOK'
    BY <1>0, <1>1, <1>2, <1>3 DEF DrawerInv, DrawerTypeOK, DrawerListed
  <1> QED  BY <1>2, <1>4, DrawerQuietStep DEF DrawerListed

LEMMA DrawerRangStep ==
    ASSUME DrawerInv, DrawerRang
    PROVE  DrawerInv'
  <1>0. drawerForm.item \in DrawerItems \cup {DrawerNone} /\ drawerList \in [DrawerItems -> Nat]
    BY DEF DrawerInv, DrawerTypeOK, DrawerForm
  <1>1. DrawerRender(drawerForm.item, drawerList, drawerRings') /\ drawerList' = drawerList
    BY DEF DrawerRang
  <1>2. drawerForm' \in DrawerForm /\ DrawerFresh'
    BY <1>0, <1>1, DrawerRenderFresh DEF DrawerInv
  <1>3. drawerRings' \in [DrawerItems -> DrawerRing] /\ drawerAsked' \subseteq DrawerItems
    BY DEF DrawerInv, DrawerTypeOK, DrawerRang, DrawerRing
  <1>4. DrawerTypeOK'  BY <1>2, <1>3 DEF DrawerInv, DrawerTypeOK, DrawerRang
  <1> QED  BY <1>2, <1>4, DrawerQuietStep DEF DrawerRang

\* Fields, the reminder and the tags of the form.
LEMMA DrawerFormStep ==
    ASSUME DrawerInv, DrawerEdit \/ DrawerTouch \/ DrawerToggleTag
    PROVE  DrawerInv'
  <1>0. drawerForm \in DrawerForm /\ drawerForm.item \in DrawerItems
    BY DEF DrawerInv, DrawerTypeOK, DrawerForm, DrawerEdit, DrawerTouch, DrawerToggleTag,
           DrawerShown
  <1>1. drawerForm' \in DrawerForm /\ drawerForm'.item = drawerForm.item
        /\ drawerForm'.base = drawerForm.base /\ drawerForm'.stray = drawerForm.stray
        /\ drawerForm'.tags \in {drawerForm.tags, drawerList[drawerForm.item]}
        /\ (drawerForm'.touched => drawerForm'.meant)
    <2>1. CASE DrawerEdit
      BY <1>0, <2>1 DEF DrawerEdit, DrawerForm, DrawerInv, DrawerFresh
    <2>2. CASE DrawerTouch
      BY <1>0, <2>2 DEF DrawerTouch, DrawerForm
    <2>3. CASE DrawerToggleTag
      <3>1. DrawerTagBase(drawerForm) \in {drawerForm.tags, drawerList[drawerForm.item]} \cap Nat
        BY <1>0 DEF DrawerTagBase, DrawerForm, DrawerInv, DrawerTypeOK
      <3> QED
        BY <1>0, <2>3, <3>1 DEF DrawerToggleTag, DrawerForm, DrawerInv, DrawerFresh
    <2> QED  BY <2>1, <2>2, <2>3
  <1>2. /\ UNCHANGED <<drawerRows, drawerBell, drawerList, drawerFetch, drawerRings,
                       drawerAsked, drawerCalls, drawerLost>>
        /\ drawerActs' \in Nat
    <2>1. drawerActs \in Nat  BY DEF DrawerInv, DrawerTypeOK
    <2>2. CASE DrawerEdit  BY <2>1, <2>2 DEF DrawerEdit, DrawerAct
    <2>3. CASE DrawerTouch
      <3>1. drawerActs' = drawerActs + 1  BY <2>3, Zenon DEF DrawerTouch, DrawerAct
      <3>2. UNCHANGED <<drawerRows, drawerBell, drawerList, drawerFetch, drawerRings,
                        drawerAsked, drawerCalls, drawerLost>>
        BY <2>3, Zenon DEF DrawerTouch
      <3> QED  BY <2>1, <3>1, <3>2
    <2>4. CASE DrawerToggleTag  BY <2>1, <2>4 DEF DrawerToggleTag, DrawerAct
    <2> QED  BY <2>2, <2>3, <2>4
  <1>3. DrawerTypeOK'  BY <1>1, <1>2 DEF DrawerInv, DrawerTypeOK
  <1>4. DrawerFresh'  BY <1>0, <1>1, <1>2 DEF DrawerInv, DrawerFresh
  <1> QED  BY <1>2, <1>3, <1>4, DrawerQuietStep

\* A save or a patch carries the version of the list, and what the draft has of it.
LEMMA DrawerSendStep ==
    ASSUME DrawerInv, DrawerSave \/ DrawerPatch
    PROVE  DrawerInv'
  <1>0. drawerForm \in DrawerForm /\ drawerForm.item \in DrawerItems
        /\ drawerList[drawerForm.item] \in Nat
    BY DEF DrawerInv, DrawerTypeOK, DrawerForm, DrawerSave, DrawerPatch, DrawerShown
  <1>1. PICK call \in DrawerCall : DrawerFair(call) /\ DrawerSend(call)
    <2>1. CASE DrawerSave
      <3> DEFINE call == DrawerRequest("save", drawerList[drawerForm.item], drawerForm.tags,
                                       drawerForm.touched, drawerForm.ring)
      <3>1. DrawerSend(call)  BY <2>1 DEF DrawerSave
      <3>2. call \in DrawerCall  BY <1>0 DEF DrawerRequest, DrawerCall, DrawerForm
      <3>3. DrawerFair(call)
        <4>1. /\ drawerForm.base = drawerList[drawerForm.item]
              /\ drawerForm.stray \/ drawerForm.tags \in {0, drawerList[drawerForm.item]}
              /\ drawerForm.touched => drawerForm.meant
          BY <1>0, DrawerAssumption DEF DrawerInv, DrawerFresh
        <4>2. /\ call.op = "save" /\ call.ver = drawerList[drawerForm.item]
              /\ call.base = drawerForm.base /\ call.tags = drawerForm.tags
              /\ call.stray = drawerForm.stray /\ call.touched = drawerForm.touched
              /\ call.meant = drawerForm.meant
          BY <1>0 DEF DrawerRequest, DrawerForm
        <4> HIDE DEF call
        <4> QED  BY <4>1, <4>2 DEF DrawerFair
      <3> HIDE DEF call
      <3> QED  BY <3>1, <3>2, <3>3
    <2>2. CASE DrawerPatch
      <3> DEFINE call == DrawerRequest("patch", drawerList[drawerForm.item], 0, FALSE, FALSE)
      <3>1. DrawerSend(call)  BY <2>2 DEF DrawerPatch
      <3>2. call \in DrawerCall  BY <1>0 DEF DrawerRequest, DrawerCall, DrawerForm
      <3>3. DrawerFair(call)  BY DEF DrawerFair, DrawerRequest
      <3> HIDE DEF call
      <3> QED  BY <3>1, <3>2, <3>3
    <2> QED  BY <2>1, <2>2
  <1>2. /\ UNCHANGED <<drawerRows, drawerBell, drawerList, drawerFetch, drawerRings,
                       drawerAsked, drawerForm, drawerLost>>
        /\ drawerActs' \in Nat /\ drawerCalls' = drawerCalls \cup {call}
    BY <1>1 DEF DrawerSend, DrawerAct, DrawerInv, DrawerTypeOK
  <1>3. DrawerTypeOK'  BY <1>1, <1>2 DEF DrawerInv, DrawerTypeOK
  <1>4. DrawerFresh'  BY <1>2 DEF DrawerInv, DrawerFresh
  <1>5. \A c \in drawerCalls' : DrawerFair(c)  BY <1>1, <1>2 DEF DrawerInv
  <1> QED  BY <1>2, <1>3, <1>4, <1>5 DEF DrawerInv, DrawerFair

\* A tag asked for gives the creation before it the item of this render, no more.
LEMMA DrawerCreateTagStep ==
    ASSUME DrawerInv, DrawerCreateTag
    PROVE  DrawerInv'
  <1>0. drawerForm \in DrawerForm /\ drawerForm.item \in DrawerItems
        /\ drawerList[drawerForm.item] \in Nat
    BY DEF DrawerInv, DrawerTypeOK, DrawerForm, DrawerCreateTag, DrawerShown
  <1> DEFINE new == DrawerRequest("tag", 0, 0, FALSE, FALSE)
  <1>1. new \in DrawerCall /\ DrawerFair(new)
    BY <1>0 DEF DrawerRequest, DrawerCall, DrawerForm, DrawerFair
  <1>2. ASSUME NEW call \in drawerCalls
        PROVE  DrawerOvertaken(call) \in DrawerCall /\ DrawerFair(DrawerOvertaken(call))
    <2>1. call \in DrawerCall /\ DrawerFair(call)  BY DEF DrawerInv, DrawerTypeOK
    <2> DEFINE moved == [call EXCEPT !.item = drawerForm.item, !.ver = drawerList[drawerForm.item]]
    <2>2. moved \in DrawerCall  BY <1>0, <2>1 DEF DrawerCall
    <2>3. call.op = "tag" => DrawerFair(moved)  BY <2>1 DEF DrawerFair, DrawerCall
    <2> QED  BY <2>1, <2>2, <2>3 DEF DrawerOvertaken
  <1> HIDE DEF new
  <1>3. drawerCalls' = {DrawerOvertaken(call) : call \in drawerCalls} \cup {new}
    BY DEF DrawerCreateTag, new
  <1>4. drawerCalls' \subseteq DrawerCall /\ \A c \in drawerCalls' : DrawerFair(c)
    BY <1>1, <1>2, <1>3
  <1>5. /\ UNCHANGED <<drawerRows, drawerBell, drawerList, drawerFetch, drawerRings,
                       drawerAsked, drawerForm, drawerLost>>
        /\ drawerActs' \in Nat
    BY DEF DrawerCreateTag, DrawerAct, DrawerInv, DrawerTypeOK
  <1>6. DrawerTypeOK' /\ DrawerFresh' /\ ~drawerLost'
    BY <1>4, <1>5 DEF DrawerInv, DrawerTypeOK, DrawerFresh
  <1> QED  BY <1>4, <1>6 DEF DrawerInv, DrawerFair

\* A request moves on without losing what it carries.
LEMMA DrawerMovedCall ==
    ASSUME DrawerInv, NEW call \in drawerCalls,
           NEW at \in {"sent", "patched", "ok", "bad"}, DrawerTo(call, at)
    PROVE  drawerCalls' \subseteq DrawerCall /\ \A c \in drawerCalls' : DrawerFair(c)
  <1>1. call \in DrawerCall /\ DrawerFair(call)  BY DEF DrawerInv, DrawerTypeOK
  <1>2. [call EXCEPT !.at = at] \in DrawerCall  BY <1>1 DEF DrawerCall
  <1>3. DrawerFair([call EXCEPT !.at = at])  BY <1>1 DEF DrawerFair, DrawerCall
  <1> QED  BY <1>2, <1>3 DEF DrawerTo, DrawerInv, DrawerTypeOK

LEMMA DrawerHandleStep ==
    ASSUME DrawerInv, NEW call \in drawerCalls, DrawerHandle(call)
    PROVE  DrawerInv'
  <1>0. call \in DrawerCall /\ DrawerFair(call)  BY DEF DrawerInv, DrawerTypeOK
  <1>1. \E at \in {"sent", "patched", "ok", "bad"} : DrawerTo(call, at)
    BY DEF DrawerHandle
  <1>2. drawerCalls' \subseteq DrawerCall /\ \A c \in drawerCalls' : DrawerFair(c)
    BY <1>1, DrawerMovedCall
  <1>3. drawerRows' \in [DrawerItems -> Nat]
    <2>1. CASE drawerRows' = drawerRows  BY <2>1 DEF DrawerInv, DrawerTypeOK
    <2>2. CASE drawerRows' = [drawerRows EXCEPT ![call.item] = @ + 1]
      BY <1>0, <2>2 DEF DrawerInv, DrawerTypeOK, DrawerCall
    <2> QED  BY <2>1, <2>2 DEF DrawerHandle
  <1>4. ~drawerLost'
    <2>1. call.op # "tag" => call.base = call.ver /\ (call.stray \/ call.tags \in {0, call.ver})
      BY <1>0 DEF DrawerFair
    <2>2. \/ drawerLost' = drawerLost
          \/ /\ call.op # "tag"
             /\ drawerLost' =
                   (drawerLost \/ call.base # call.ver
                    \/ (~call.stray /\ call.tags \notin {0, call.ver}))
      BY DEF DrawerHandle, DrawerConflict
    <2> QED  BY <2>1, <2>2 DEF DrawerInv
  <1>5. UNCHANGED <<drawerBell, drawerList, drawerFetch, drawerRings, drawerAsked, drawerForm,
                    drawerActs>>
    BY DEF DrawerHandle
  <1>6. drawerLost' \in BOOLEAN
    BY DEF DrawerHandle, DrawerInv, DrawerTypeOK
  <1>7. DrawerTypeOK'
    BY <1>2, <1>3, <1>5, <1>6 DEF DrawerInv, DrawerTypeOK
  <1>8. DrawerFresh'  BY <1>5 DEF DrawerInv, DrawerFresh
  <1> QED  BY <1>2, <1>4, <1>7, <1>8 DEF DrawerInv, DrawerFair

LEMMA DrawerReminderStep ==
    ASSUME DrawerInv, NEW call \in drawerCalls, DrawerPutReminder(call)
    PROVE  DrawerInv'
  <1>0. call.item \in DrawerItems  BY DEF DrawerInv, DrawerTypeOK, DrawerCall
  <1>1. DrawerTo(call, "ok") \/ DrawerTo(call, "bad")  BY DEF DrawerPutReminder
  <1>2. drawerCalls' \subseteq DrawerCall /\ \A c \in drawerCalls' : DrawerFair(c)
    BY <1>1, DrawerMovedCall
  <1>3. drawerBell' \subseteq DrawerItems /\ drawerAsked' \subseteq DrawerItems
    BY <1>0 DEF DrawerPutReminder, DrawerInv, DrawerTypeOK
  <1>4. UNCHANGED <<drawerRows, drawerList, drawerFetch, drawerRings, drawerForm, drawerActs,
                    drawerLost>>
    BY DEF DrawerPutReminder
  <1>5. DrawerTypeOK' /\ DrawerFresh' /\ ~drawerLost'
    BY <1>2, <1>3, <1>4 DEF DrawerInv, DrawerTypeOK, DrawerFresh
  <1> QED  BY <1>2, <1>5 DEF DrawerInv, DrawerFair

\* A request that is over is gone.
LEMMA DrawerGoneCall ==
    ASSUME DrawerInv, NEW call \in drawerCalls, drawerCalls' = drawerCalls \ {call}
    PROVE  drawerCalls' \subseteq DrawerCall /\ \A c \in drawerCalls' : DrawerFair(c)
  BY DEF DrawerInv, DrawerTypeOK

LEMMA DrawerSavedStep ==
    ASSUME DrawerInv, NEW call \in drawerCalls, DrawerSaved(call)
    PROVE  DrawerInv'
  <1>0. call.item \in DrawerItems /\ drawerList \in [DrawerItems -> Nat]
    BY DEF DrawerInv, DrawerTypeOK, DrawerCall
  <1>1. drawerCalls' \subseteq DrawerCall /\ \A c \in drawerCalls' : DrawerFair(c)
    BY DrawerGoneCall DEF DrawerSaved
  <1>2. drawerForm' \in DrawerForm /\ DrawerFresh'
    BY <1>0, DrawerRenderFresh DEF DrawerInv, DrawerSaved
  <1>3. /\ drawerFetch' \in [at : {"idle", "asked", "answered"}, rows : [DrawerItems -> Nat]]
        /\ drawerAsked' \subseteq DrawerItems
    BY <1>0 DEF DrawerSaved, DrawerAskList, DrawerInv, DrawerTypeOK
  <1>4. DrawerTypeOK' /\ ~drawerLost'
    BY <1>1, <1>2, <1>3 DEF DrawerInv, DrawerTypeOK, DrawerSaved
  <1> QED  BY <1>1, <1>2, <1>4 DEF DrawerInv, DrawerFair

LEMMA DrawerTaggedStep ==
    ASSUME DrawerInv, NEW call \in drawerCalls, DrawerTagged(call)
    PROVE  DrawerInv'
  <1>1. drawerCalls' \subseteq DrawerCall /\ \A c \in drawerCalls' : DrawerFair(c)
    BY DrawerGoneCall DEF DrawerTagged
  <1>2. drawerForm' \in DrawerForm /\ DrawerFresh'
    <2>1. drawerForm \in DrawerForm /\ drawerForm.item \in DrawerItems
      BY DEF DrawerInv, DrawerTypeOK, DrawerForm, DrawerShown, DrawerTagged
    <2>2. DrawerTagBase(drawerForm) \in {drawerForm.tags, drawerList[drawerForm.item]} \cap Nat
      BY <2>1 DEF DrawerTagBase, DrawerForm, DrawerInv, DrawerTypeOK
    <2>3. call.ver \in Nat /\ DrawerStrays(call) \in BOOLEAN
      BY DEF DrawerInv, DrawerTypeOK, DrawerCall, DrawerStrays
    <2>4. CASE DrawerStrays(call)
      <3>1. drawerForm' = [drawerForm EXCEPT !.tags = call.ver, !.stray = TRUE]
        BY <2>1, <2>4 DEF DrawerTagged, DrawerForm
      <3> QED  BY <2>1, <2>3, <3>1 DEF DrawerTagged, DrawerForm, DrawerInv, DrawerFresh
    <2>5. CASE ~DrawerStrays(call)
      <3>1. drawerForm' = [drawerForm EXCEPT !.tags = DrawerTagBase(drawerForm)]
        BY <2>1, <2>5 DEF DrawerTagged, DrawerForm
      <3> QED  BY <2>1, <2>2, <3>1 DEF DrawerTagged, DrawerForm, DrawerInv, DrawerFresh
    <2> QED  BY <2>4, <2>5
  <1>3. DrawerTypeOK' /\ ~drawerLost'
    BY <1>1, <1>2 DEF DrawerInv, DrawerTypeOK, DrawerTagged
  <1> QED  BY <1>1, <1>2, <1>3 DEF DrawerInv, DrawerFair

LEMMA DrawerRefusedStep ==
    ASSUME DrawerInv, NEW call \in drawerCalls, DrawerRefused(call)
    PROVE  DrawerInv'
  <1>1. drawerCalls' \subseteq DrawerCall /\ \A c \in drawerCalls' : DrawerFair(c)
    BY DrawerGoneCall DEF DrawerRefused
  <1>2. DrawerTypeOK' /\ DrawerFresh' /\ ~drawerLost'
    BY <1>1 DEF DrawerInv, DrawerTypeOK, DrawerFresh, DrawerRefused
  <1> QED  BY <1>1, <1>2 DEF DrawerInv, DrawerFair

\* The query, the page's polls and the writes of others.
LEMMA DrawerServerStep ==
    ASSUME DrawerInv, DrawerServe \/ DrawerElsewhere \/ DrawerRefetch \/ UNCHANGED drawerVars
    PROVE  DrawerInv'
  <1>1. DrawerTypeOK'
    <2>1. CASE DrawerServe  BY <2>1 DEF DrawerServe, DrawerInv, DrawerTypeOK
    <2>2. CASE DrawerElsewhere
      BY <2>2 DEF DrawerElsewhere, DrawerAct, DrawerInv, DrawerTypeOK
    <2>3. CASE DrawerRefetch
      BY <2>3 DEF DrawerRefetch, DrawerAskList, DrawerInv, DrawerTypeOK
    <2>4. CASE UNCHANGED drawerVars  BY <2>4 DEF drawerVars, DrawerInv, DrawerTypeOK
    <2> QED  BY <2>1, <2>2, <2>3, <2>4
  <1>2. UNCHANGED <<drawerForm, drawerList, drawerCalls, drawerLost>>
    BY DEF DrawerServe, DrawerElsewhere, DrawerRefetch, drawerVars
  <1>3. DrawerFresh'  BY <1>2 DEF DrawerInv, DrawerFresh
  <1> QED  BY <1>1, <1>2, <1>3, DrawerQuietStep

-----------------------------------------------------------------------------
(* The theorems                                                            *)

LEMMA DrawerInitInv == DrawerInit => DrawerInv
  <1> SUFFICES ASSUME DrawerInit PROVE DrawerInv
    OBVIOUS
  <1>1. drawerRows \in [DrawerItems -> Nat] /\ drawerRings \in [DrawerItems -> DrawerRing]
    BY DEF DrawerInit, DrawerRing
  <1>2. DrawerTypeOK  BY <1>1, DrawerNoFormType DEF DrawerInit, DrawerTypeOK
  <1> QED  BY <1>2 DEF DrawerInit, DrawerInv, DrawerFresh, DrawerNoForm

LEMMA DrawerStep ==
    ASSUME DrawerInv, [DrawerNext]_drawerVars
    PROVE  DrawerInv'
  BY DrawerOpenStep, DrawerCloseStep, DrawerListedStep, DrawerRangStep, DrawerFormStep,
     DrawerSendStep, DrawerCreateTagStep, DrawerHandleStep, DrawerReminderStep,
     DrawerSavedStep, DrawerTaggedStep, DrawerRefusedStep, DrawerServerStep DEF DrawerNext

LEMMA DrawerInvHolds == DrawerSpec => []DrawerInv
  BY DrawerInitInv, DrawerStep, PTL DEF DrawerSpec

\* A save that is accepted replaces the version its draft was made from, and with it tags
\* picked from that version, or ones that an overtaken creation brought from an earlier
\* render: for the rest the reset of the draft and the version check of the patch together
\* leave no way to overwrite what another client wrote.
THEOREM NoLostUpdate == DrawerSpec => []DrawerNoLostUpdate
  <1>1. DrawerInv => DrawerNoLostUpdate  BY DEF DrawerInv, DrawerNoLostUpdate
  <1> QED  BY <1>1, DrawerInvHolds, PTL

\* No save writes a reminder that the user did not touch on that item and that draft.
THEOREM TouchIsMeant == DrawerSpec => []DrawerTouchIsMeant
  <1>1. DrawerInv => DrawerTouchIsMeant  BY DEF DrawerInv, DrawerFair, DrawerTouchIsMeant
  <1> QED  BY <1>1, DrawerInvHolds, PTL

-----------------------------------------------------------------------------
(* Views                                                                   *)

ViewChoices == [view : {"current", "done", "archived"}, quick : ViewQuick, high : BOOLEAN,
                search : ViewSearch, panel : BOOLEAN, focus : -1..0, drawer : BOOLEAN]

\* Days are numbers, and no day is none of them.
LEMMA ViewDaysType ==
    /\ ViewDays \subseteq Int /\ ViewNoDay \notin Int
    /\ 0 \in ViewDays
    /\ \A item \in ViewItem : {item.start, item.due, item.follow} \subseteq ViewDay
  BY ViewAssumption DEF ViewDays, ViewDay, ViewItem

LEMMA ViewStartType == ViewPageStart \in ViewChoices /\ ViewFilters \in ViewSpec
  BY DEF ViewPageStart, ViewChoices, ViewFilters, ViewSpec, ViewQuick, ViewSearch

LEMMA ViewInitType == ViewInit => ViewTypeOK
  <1>1. ViewInit => viewClicks \in 0..ViewClicks  BY ViewAssumption DEF ViewInit
  <1> QED  BY <1>1, ViewStartType DEF ViewInit, ViewTypeOK, ViewChoices

\* The keys j and k keep the focus on the row there is, or on none.
LEMMA ViewFocusType ==
    ASSUME NEW focus \in -1..0
    PROVE  /\ ViewMin(focus + 1, ViewLength - 1) \in -1..0
           /\ ViewMax(focus - 1, 0) \in -1..0
  BY DEF ViewMin, ViewMax, ViewLength

LEMMA ViewStepType ==
    ASSUME ViewTypeOK, [ViewNext]_viewVars
    PROVE  ViewTypeOK'
  <1>0. viewPage \in ViewChoices /\ viewItem \in ViewItem /\ viewSaved \in ViewSpec
    BY DEF ViewTypeOK, ViewChoices
  <1>1. viewClicks' \in 0..ViewClicks
    <2>1. ViewClick \/ viewClicks' = viewClicks
      BY DEF ViewNext, ViewSetView, ViewSetSearch, ViewOpenFilters, ViewSetQuick, ViewSetHigh,
             ViewClearPanel, ViewSave, ViewApply, ViewClearEmpty, ViewKeys, ViewKeyRow,
             ViewCloseDrawer, ViewTriage, viewVars
    <2> QED  BY <2>1, ViewAssumption DEF ViewTypeOK, ViewClick
  <1>2. CASE ViewSetView \/ ViewSetSearch \/ ViewOpenFilters \/ ViewSetHigh \/ ViewCloseDrawer
    <2>1. viewPage' \in ViewChoices
      BY <1>0, <1>2 DEF ViewSetView, ViewSetSearch, ViewOpenFilters, ViewSetHigh,
                        ViewCloseDrawer, ViewChoices
    <2> QED
      BY <1>1, <1>2, <2>1 DEF ViewTypeOK, ViewChoices, ViewSetView, ViewSetSearch,
                              ViewOpenFilters, ViewSetHigh, ViewCloseDrawer
  <1>3. CASE ViewSetQuick \/ ViewClearPanel \/ ViewClearEmpty \/ ViewApply
    <2>1. viewPage' \in ViewChoices
      <3>1. CASE ViewSetQuick  BY <1>0, <3>1 DEF ViewSetQuick, ViewChoices
      <3>2. CASE ViewClearPanel  BY <1>0, <3>2 DEF ViewClearPanel, ViewChoices, ViewQuick
      <3>3. CASE ViewClearEmpty
        BY <1>0, <3>3 DEF ViewClearEmpty, ViewChoices, ViewQuick, ViewSearch
      <3>4. CASE ViewApply  BY <1>0, <3>4 DEF ViewApply, ViewChoices, ViewSpec
      <3> QED  BY <1>3, <3>1, <3>2, <3>3, <3>4
    <2> QED
      BY <1>1, <1>3, <2>1 DEF ViewTypeOK, ViewChoices, ViewSetQuick, ViewClearPanel,
                              ViewClearEmpty, ViewApply
  <1>4. CASE ViewSave
    <2>1. viewSaved' \in ViewSpec  BY <1>0, <1>4 DEF ViewSave, ViewSpec, ViewChoices
    <2> QED  BY <1>1, <1>4, <2>1 DEF ViewTypeOK, ViewSave
  <1>5. CASE ViewKeys
    <2>1. viewPage.focus \in -1..0  BY <1>0 DEF ViewChoices
    <2>2. PICK focus \in -1..0 : viewPage' = [viewPage EXCEPT !.focus = focus]
      BY <1>5, <2>1, ViewFocusType DEF ViewKeys
    <2>3. viewPage' \in ViewChoices  BY <1>0, <2>2 DEF ViewChoices
    <2> QED  BY <1>1, <1>5, <2>3 DEF ViewTypeOK, ViewChoices, ViewKeys
  <1>6. CASE ViewKeyRow
    <2>1. viewPage' \in ViewChoices  BY <1>0, <1>6 DEF ViewKeyRow, ViewChoices
    <2>2. viewItem' \in ViewItem  BY <1>0, <1>6 DEF ViewKeyRow, ViewItem, ViewStatus
    <2> QED  BY <1>1, <1>6, <2>1, <2>2 DEF ViewTypeOK, ViewChoices, ViewKeyRow
  <1>7. CASE ViewTriage
    <2>1. viewItem' \in ViewItem  BY <1>0, <1>7 DEF ViewTriage, ViewItem, ViewStatus
    <2> QED  BY <1>1, <1>7, <2>1, ViewStartType DEF ViewTypeOK, ViewChoices, ViewTriage
  <1>8. CASE UNCHANGED viewVars  BY <1>8 DEF ViewTypeOK, viewVars
  <1> QED  BY <1>2, <1>3, <1>4, <1>5, <1>6, <1>7, <1>8 DEF ViewNext

\* The item and what is chosen on its page keep their types.
THEOREM ViewType == ViewsSpec => []ViewTypeOK
  BY ViewInitType, ViewStepType, PTL DEF ViewsSpec

\* Of a set that holds at most one thing.
LEMMA AtMostOne ==
    ASSUME NEW S, \A x, y \in S : x = y
    PROVE  Cardinality(S) \in {0, 1} /\ (S # {} => Cardinality(S) = 1)
  <1>1. CASE S = {}  BY <1>1, FS_EmptySet
  <1>2. CASE S # {}
    <2>1. PICK x \in S : TRUE  BY <1>2
    <2>2. S = {x}  BY <2>1
    <2> QED  BY <2>2, FS_Singleton
  <1> QED  BY <1>1, <1>2

\* An instant of an open item is in the past, today, within the week or later.
LEMMA CalendarOnce ==
    ASSUME NEW day \in ViewDays
    PROVE  Cardinality(ViewCalendarGroup(day)) = 1
  <1>1. day \in Int  BY ViewDaysType
  <1>2. \A g, h \in ViewCalendarGroup(day) : g = h
    <2>1. ASSUME NEW g \in ViewCalendarGroup(day)
          PROVE  \/ g = "past" /\ day < 0
                 \/ g = "today" /\ day = 0
                 \/ g = "week" /\ day \in 1..7
                 \/ g = "later" /\ day > 7
      BY <2>1 DEF ViewCalendarGroup
    <2>2. /\ ~ (day < 0 /\ day = 0) /\ ~ (day < 0 /\ day \in 1..7) /\ ~ (day < 0 /\ day > 7)
          /\ ~ (day = 0 /\ day \in 1..7) /\ ~ (day = 0 /\ day > 7) /\ ~ (day \in 1..7 /\ day > 7)
      BY <1>1
    <2> QED  BY <2>1, <2>2, Zenon
  <1>3. ViewCalendarGroup(day) # {}
    <2>1. day < 0 => "past" \in ViewCalendarGroup(day)  BY DEF ViewCalendarGroup
    <2>2. day = 0 => "today" \in ViewCalendarGroup(day)  BY DEF ViewCalendarGroup
    <2>3. day \in 1..7 => "week" \in ViewCalendarGroup(day)  BY DEF ViewCalendarGroup
    <2>4. day > 7 => "later" \in ViewCalendarGroup(day)  BY DEF ViewCalendarGroup
    <2> QED  BY <1>1, <2>1, <2>2, <2>3, <2>4
  <1> QED  BY <1>2, <1>3, AtMostOne

\* The key of an item is a day or none.
LEMMA KeyType ==
    ASSUME NEW item \in ViewItem
    PROVE  ViewKey(item) \in ViewDay /\ ViewMust(item) \in ViewDay
  BY ViewDaysType DEF ViewKey, ViewMust, ViewItem

LEMMA DayKinds ==
    ASSUME NEW day \in ViewDay
    PROVE  /\ day \in ViewPastOrToday \/ day \in ViewFuture \/ ~ViewIs(day)
           /\ ~ (day \in ViewPastOrToday /\ day \in ViewFuture)
           /\ day \in ViewDays => ViewIs(day)
           /\ ViewPastOrToday \subseteq ViewDays /\ ViewFuture \subseteq ViewDays
           /\ ViewPast \subseteq ViewPastOrToday
  BY ViewDaysType DEF ViewDay, ViewIs, ViewPastOrToday, ViewPast, ViewFuture

\* An item that can be grouped is in one group of a personal page.
LEMMA PersonalOnce ==
    ASSUME NEW item \in ViewItem, ViewGroupable(item)
    PROVE  Cardinality(ViewPersonalGroups(item)) = 1
  <1> DEFINE key == ViewKey(item)
  <1>0. key \in ViewDay  BY KeyType
  <1>1. ViewPersonalGroups(item) =
            {g \in {"now", "future", "none"} :
                CASE g = "now"    -> key \in ViewPastOrToday
                  [] g = "future" -> key \in ViewFuture
                  [] g = "none"   -> ~ViewIs(key)}
    BY <1>0, DayKinds DEF ViewPersonalGroups, ViewKeyIn
  <1> HIDE DEF key
  <1>2. \A g, h \in ViewPersonalGroups(item) : g = h
    BY <1>0, <1>1, DayKinds
  <1>3. ViewPersonalGroups(item) # {}
    BY <1>0, <1>1, DayKinds
  <1> QED  BY <1>2, <1>3, AtMostOne

\* The review asks about an item once at most.
LEMMA ReviewOnce ==
    ASSUME NEW item \in ViewItem
    PROVE  Cardinality(ViewReview(item)) <= 1
  <1>0. item.follow \in ViewDay  BY ViewDaysType
  <1>1. \A b \in ViewReview(item) :
            CASE b = "overdue" -> item.status # "waiting"
              [] b = "waitingOverdue" -> item.status = "waiting" /\ item.follow \in ViewPast
              [] b = "waitingToday"   -> item.status = "waiting" /\ item.follow = 0
              [] b = "waitingFuture"  -> item.status = "waiting" /\ item.follow \in ViewFuture
              [] b = "waitingNoDate"  -> item.status = "waiting" /\ ~ViewIs(item.follow)
    BY DEF ViewReview, ViewReviewOverdue, ViewReviewWaits
  <1>2. ViewReview(item) \subseteq
            {"overdue", "waitingOverdue", "waitingToday", "waitingFuture", "waitingNoDate"}
    BY DEF ViewReview
  <1>3. 0 \notin ViewPast /\ 0 \in ViewDays /\ 0 \in ViewPastOrToday
    BY ViewDaysType DEF ViewPast, ViewPastOrToday
  <1>4. \A a, b \in ViewReview(item) : a = b
    BY <1>0, <1>1, <1>2, <1>3, DayKinds
  <1> QED  BY <1>4, AtMostOne

\* Every open item is in one group of its page or in the inbox, in one bucket of the review
\* at most, and each of its instants in one list of the calendar (groupWorkItems,
\* groupPersonalItems, buildReview, groupTimedSchedules).
THEOREM ShownOnce == ViewsSpec => []ViewsShowOnce
  <1>1. ASSUME ViewTypeOK PROVE ViewsShowOnce
    <2>0. viewItem \in ViewItem  BY <1>1 DEF ViewTypeOK
    <2>1. ASSUME ViewOpen(viewItem)
          PROVE  Cardinality(ViewGroups(viewItem))
                     + (IF ViewInbox(viewItem) THEN 1 ELSE 0) = 1
      <3>1. CASE viewItem.status = "inbox"
        <4>1. ViewGroups(viewItem) = {}
          BY <3>1 DEF ViewGroups, ViewWorkGroups, ViewPersonalGroups, ViewGroupable
        <4>2. ViewInbox(viewItem)  BY <2>1, <3>1 DEF ViewInbox, ViewOpen
        <4> QED  BY <4>1, <4>2, FS_EmptySet
      <3>2. CASE viewItem.status # "inbox"
        <4>1. ViewGroupable(viewItem) /\ ~ViewInbox(viewItem)
          BY <2>1, <3>2 DEF ViewGroupable, ViewOpen, ViewInbox
        <4>2. \/ ViewGroups(viewItem) = {"waiting"}
              \/ ViewGroups(viewItem) = ViewPersonalGroups(viewItem)
          BY DEF ViewGroups, ViewWorkGroups
        <4>3. Cardinality(ViewGroups(viewItem)) = 1
          BY <2>0, <4>1, <4>2, PersonalOnce, FS_Singleton
        <4> QED  BY <4>1, <4>3
      <3> QED  BY <3>1, <3>2
    <2>2. Cardinality(ViewReview(viewItem)) <= 1  BY <2>0, ReviewOnce
    <2>3. \A day \in ViewInstants(viewItem) : Cardinality(ViewCalendarGroup(day)) = 1
      BY CalendarOnce DEF ViewInstants
    <2>4. ViewDateOnly(viewItem) => ViewInstants(viewItem) = {}
      BY DEF ViewDateOnly, ViewInstants
    <2> QED  BY <2>1, <2>2, <2>3, <2>4 DEF ViewsShowOnce
  <1> QED  BY <1>1, ViewType, PTL

\* Today shows an open item once, or twice if it waits (buildTodayView).
THEOREM ShownTodayOnce == ViewsSpec => []ViewsTodayOnce
  <1>1. ASSUME ViewTypeOK PROVE ViewsTodayOnce
    <2> SUFFICES ASSUME ViewOpen(viewItem) PROVE ViewsTodayOnce
      BY Zenon DEF ViewsTodayOnce
    <2> DEFINE sections == ViewToday(viewItem)
    <2>0. viewItem \in ViewItem  BY <1>1 DEF ViewTypeOK
    <2>1. /\ viewItem.follow \in ViewDay /\ viewItem.start \in ViewDay
          /\ viewItem.due \in ViewDay
      BY <2>0, ViewDaysType
    <2>2. /\ "timed" \in sections <=> ViewTimed(viewItem)
          /\ "due" \in sections <=> ViewDue(viewItem)
          /\ "waiting" \in sections <=> ViewFollowUp(viewItem)
          /\ "unscheduled" \in sections <=> ViewUnscheduled(viewItem)
          /\ sections \subseteq {"timed", "due", "waiting", "unscheduled"}
      BY DEF ViewToday
    <2>3. ~(ViewTimed(viewItem) /\ ViewDue(viewItem))  BY DEF ViewDue
    <2>4. ViewUnscheduled(viewItem) => ~ViewTimed(viewItem) /\ ~ViewDue(viewItem)
      <3>1. ~ViewIs(ViewKey(viewItem)) =>
                viewItem.start = ViewNoDay /\ ViewMust(viewItem) = ViewNoDay
        BY DEF ViewKey, ViewMust, ViewIs
      <3>2. ViewNoDay # 0 /\ ViewNoDay \notin ViewPastOrToday
        BY ViewDaysType, DayKinds DEF ViewDay, ViewIs
      <3> QED  BY <3>1, <3>2 DEF ViewUnscheduled, ViewTimed, ViewDue
    <2> HIDE DEF sections
    <2>5. \A a, b \in sections \ {"waiting"} : a = b  BY <2>2, <2>3, <2>4
    <2>6. Cardinality(sections \ {"waiting"}) <= 1  BY <2>5, AtMostOne
    <2>7. ASSUME ~ViewWaits(viewItem)
          PROVE  /\ Cardinality(sections) <= 1
                 /\ ViewMust(viewItem) \in ViewPastOrToday => Cardinality(sections) = 1
      <3>1. "waiting" \notin sections  BY <2>2, <2>7 DEF ViewFollowUp
      <3>2. \A a, b \in sections : a = b  BY <2>5, <3>1
      <3>3. ViewMust(viewItem) \in ViewPastOrToday => sections # {}
        <4>1. ViewMust(viewItem) \in ViewPastOrToday => ViewTimed(viewItem) \/ ViewDue(viewItem)
          BY <2>7 DEF ViewDue
        <4> QED  BY <2>2, <4>1
      <3> QED  BY <3>2, <3>3, AtMostOne
    <2>8. ASSUME ViewWaits(viewItem)
          PROVE  /\ "due" \notin sections
                 /\ "waiting" \in sections <=> viewItem.follow \notin ViewFuture
      <3>1. ViewFollowUp(viewItem) <=> viewItem.follow \in ViewPastOrToday \cup {ViewNoDay}
        BY <2>8 DEF ViewFollowUp
      <3>2. viewItem.follow \in ViewPastOrToday \cup {ViewNoDay}
                <=> viewItem.follow \notin ViewFuture
        BY <2>1, DayKinds, ViewDaysType DEF ViewIs
      <3>3. ~ViewDue(viewItem)  BY <2>8 DEF ViewDue
      <3> QED  BY <2>2, <3>1, <3>2, <3>3
    <2> QED  BY <2>6, <2>7, <2>8, Zenon DEF ViewsTodayOnce, sections
  <1> QED  BY <1>1, ViewType, PTL

-----------------------------------------------------------------------------
(* The list: types                                                         *)

ListRows == [ListItems -> ListRow]
ListThens == {"none", "toggle", "skip", "archive", "delete"}
ListChoices == [view : {"current", "done", "archived"}, selecting : BOOLEAN,
                picked : SUBSET ListItems, open : ListItems \cup {0}]

\* The first of some rows is one of them.
LEMMA MinIsIn ==
    ASSUME NEW S \in SUBSET ListItems, S # {}
    PROVE  Min(S) \in S
  <1> DEFINE before == OpToRel(<, Nat)
  <1>1. IsWellFoundedOn(before, Nat)  BY NatLessThanWellFounded
  <1>2. \A x, y \in Nat : <<y, x>> \in before <=> y < x
    <2> TAKE x, y \in Nat
    <2>1. <<y, x>> \in {ss \in Nat \X Nat : ss[1] < ss[2]} <=> y < x  OBVIOUS
    <2> QED  BY <2>1, Zenon DEF OpToRel
  <1> HIDE DEF before
  <1>3. S \subseteq Nat  BY ListAssumption
  <1>4. PICK x \in S : \A y \in S : ~ (<<y, x>> \in before)  BY <1>1, <1>3, WFMin
  <1>5. ASSUME NEW y \in S PROVE x <= y
    <2>1. x \in Nat /\ y \in Nat  BY <1>3
    <2>2. ~ (y < x)  BY <1>2, <1>4, <2>1, Zenon
    <2> QED  BY <2>1, <2>2
  <1> QED  BY <1>5 DEF Min

\* Before anything was fetched there are rows without a version.
LEMMA ListNothingType ==
    /\ ListNoRows \in ListRows
    /\ \A i \in ListItems : ListNoRows[i].ver = 0
    /\ ListIdle \in [at : {"idle", "asked", "answered"}, rows : ListRows]
    /\ ListIdle.rows = ListNoRows
    /\ ListNoUndo \in ListUndoEntry /\ ListNoUndo.kind = "none" /\ ListNoUndo.items = {}
  <1>1. ListNoRows \in ListRows /\ \A i \in ListItems : ListNoRows[i].ver = 0
    BY DEF ListNoRows, ListRows, ListRow, ListStatus
  <1>2. ListNoUndo \in ListUndoEntry  BY DEF ListNoUndo, ListUndoEntry, ListStatus
  <1> QED  BY <1>1, <1>2 DEF ListIdle, ListNoUndo

\* What a request makes of a row is a row of the next version.
LEMMA ListWrittenType ==
    ASSUME NEW op, NEW row \in ListRow, NEW next \in ListStatus
    PROVE  /\ ListWritten(op, row, next) \in ListRow
           /\ ListWritten(op, row, next).ver = row.ver + 1
           /\ op \in {"toggle", "patch"} => ListWritten(op, row, next).status = next
  <1> DEFINE new == [row EXCEPT !.ver = @ + 1]
  <1>1. new \in ListRow /\ new.ver = row.ver + 1  BY DEF ListRow
  <1> HIDE DEF new
  <1>2. CASE op \in {"toggle", "patch"}
    <2>1. ListWritten(op, row, next) = [new EXCEPT !.status = next]
      BY <1>2 DEF ListWritten, new
    <2> QED  BY <1>1, <2>1 DEF ListRow
  <1>3. CASE op \in {"archive", "restore"}
    <2>1. ListWritten(op, row, next) = [new EXCEPT !.archived = (op = "archive")]
      BY <1>3 DEF ListWritten, new
    <2>2. (op = "archive") \in BOOLEAN  OBVIOUS
    <2> QED  BY <1>1, <1>3, <2>1, <2>2 DEF ListRow
  <1>4. CASE op \notin {"toggle", "patch", "archive", "restore"}
    <2>1. ListWritten(op, row, next) = [new EXCEPT !.deleted = (op = "delete")]
      BY <1>4 DEF ListWritten, new
    <2>2. (op = "delete") \in BOOLEAN  OBVIOUS
    <2> QED  BY <1>1, <1>4, <2>1, <2>2 DEF ListRow
  <1> QED  BY <1>2, <1>3, <1>4

\* Whatever is pushed is an entry about those rows, with their versions and statuses.
LEMMA ListPushType ==
    ASSUME NEW kind \in ListThens \cup ListBatches, NEW items \in SUBSET ListItems,
           NEW vers \in [ListItems -> Nat], NEW backs \in [ListItems -> ListStatus],
           ListPush(kind, items, vers, backs)
    PROVE  /\ listUndo' \in ListUndoEntry
           /\ listUndo'.kind = kind /\ listUndo'.items = items
           /\ \A i \in items : listUndo'.vers[i] = vers[i]
  <1> DEFINE v == [i \in ListItems |-> IF i \in items THEN vers[i] ELSE 0]
             b == [i \in ListItems |-> IF i \in items THEN backs[i] ELSE "planned"]
  <1>1. v \in [ListItems -> Nat] /\ \A i \in items : v[i] = vers[i]  OBVIOUS
  <1>2. b \in [ListItems -> ListStatus]  BY DEF ListStatus
  <1>3. listUndo' = [kind |-> kind, items |-> items, vers |-> v, backs |-> b]
    BY DEF ListPush
  <1> HIDE DEF v, b
  <1> QED  BY <1>1, <1>2, <1>3 DEF ListUndoEntry, ListThens

\* Two requests that differ at most in which of them was the latest.
ListSame(c, d) ==
    /\ c.op = d.op /\ c.item = d.item /\ c.ver = d.ver /\ c.next = d.next
    /\ c.then = d.then /\ c.at = d.at /\ c.previous = d.previous

\* A mutate adds its request, and keeps the others but for that.
LEMMA ListSentType ==
    ASSUME ListTypeOK, NEW op \in ListOps, NEW item \in ListItems, NEW ver \in Nat,
           NEW next \in ListStatus, NEW then \in ListThens, NEW was \in ListStatus,
           ListSent(op, item, ver, next, then, was)
    PROVE  /\ listCalls' \subseteq ListCall
           /\ listActs' \in 0..ListActs
           /\ \E c \in listCalls' : c.op = op /\ c.at = "sent"
           /\ \A c \in listCalls' :
                 \/ /\ c.op = op /\ c.next = next /\ c.then = then /\ c.at = "sent"
                    /\ c.previous \in {listCache, ListNoRows}
                 \/ \E d \in listCalls : ListSame(c, d)
           /\ \A d \in listCalls : \E c \in listCalls' : ListSame(c, d)
  <1> DEFINE new == [op |-> op, item |-> item, ver |-> ver, next |-> next, then |-> then,
                     was |-> was, latest |-> TRUE,
                     previous |-> IF op = "toggle" THEN listCache ELSE ListNoRows,
                     at |-> "sent"]
             kept(d) == IF d.op \in ListHook(op) THEN [d EXCEPT !.latest = FALSE] ELSE d
  <1>1. /\ new \in ListCall /\ new.op = op /\ new.next = next /\ new.then = then
        /\ new.at = "sent" /\ new.previous \in {listCache, ListNoRows}
    BY ListNothingType DEF ListCall, ListTypeOK, ListRows, ListThens
  <1>2. ASSUME NEW d \in listCalls
        PROVE  kept(d) \in ListCall /\ ListSame(kept(d), d)
    <2>1. d \in ListCall  BY DEF ListTypeOK
    <2>2. /\ [d EXCEPT !.latest = FALSE] \in ListCall
          /\ ListSame([d EXCEPT !.latest = FALSE], d)
      BY <2>1 DEF ListCall, ListSame
    <2>3. ListSame(d, d)  BY DEF ListSame
    <2> QED  BY <2>1, <2>2, <2>3
  <1>3. listCalls' = {kept(d) : d \in listCalls} \cup {new}  BY DEF ListSent
  <1>4. listActs' \in 0..ListActs  BY ListAssumption DEF ListSent, ListTypeOK
  <1> HIDE DEF new, kept
  <1> QED  BY <1>1, <1>2, <1>3, <1>4

-----------------------------------------------------------------------------
(* The list: its invariant                                                 *)

\* An entry of the toast, and a batch, are about some row.
ListAboutRows ==
    /\ listUndo.kind = "none" <=> listUndo.items = {}
    /\ \A run \in listRuns : run.todo \cup run.ok \cup run.bad # {}

\* No copy of a row is newer than the server's, also one that a toggle may put back.
ListCopiesAreOld ==
    \A i \in ListItems :
        /\ listRows[i].ver >= 1
        /\ listCache[i].ver <= listRows[i].ver
        /\ listFetch.rows[i].ver <= listRows[i].ver
        /\ \A call \in listCalls : call.previous[i].ver <= listRows[i].ver
        /\ \A run \in listRuns : ~run.revert => run.vers[i] <= listRows[i].ver

\* What an answered request says it did, it did; and an entry that goes back from done is
\* offered only by a request that asked for done.
ListCallIsReal(call) ==
    /\ call.at = "ok" =>
          /\ call.ver > 1 /\ listRows[call.item].ver >= call.ver
          /\ call.op \in {"toggle", "patch"} /\ listRows[call.item].ver = call.ver
                => listRows[call.item].status = call.next
    /\ call.then \in {"toggle", "skip"} => call.op \in {"toggle", "patch"} /\ call.next = "done"

\* The same of the rows a batch counts as done.
ListRunIsReal(run) ==
    ~run.revert => \A i \in run.ok :
        /\ listRows[i].ver > run.vers[i]
        /\ run.op = "done" /\ listRows[i].ver = run.vers[i] + 1 => listRows[i].status = "done"

ListInv ==
    /\ ListTypeOK
    /\ ListAboutRows
    /\ ListCopiesAreOld
    /\ \A call \in listCalls : ListCallIsReal(call)
    /\ \A run \in listRuns : ListRunIsReal(run)
    /\ ListUndoIsReal

\* The tab was told of every write: nothing is under way but requests that wait, failed or
\* do not touch the cached rows.
ListTold ==
    /\ ~listStale /\ listRuns = {}
    /\ \A call \in listCalls : call.op # "toggle" /\ call.at # "ok"

\* Then an answer in hand, or the page without one on its way, has the server's rows.
ListSync ==
    ListTold =>
        /\ listFetch.at = "answered" => listFetch.rows = listRows
        /\ listFetch.at = "idle" => listCache = listRows

\* A step leaves a row as it is, or makes its next version of it.
ListGrows ==
    \A i \in ListItems : listRows'[i] = listRows[i] \/ listRows'[i].ver = listRows[i].ver + 1

LEMMA ListVersions ==
    ASSUME ListTypeOK, listRows' \in ListRows, ListGrows
    PROVE  \A i \in ListItems : /\ listRows[i].ver \in Nat /\ listRows'[i].ver \in Nat
                                /\ listRows'[i].ver >= listRows[i].ver
                                /\ \/ listRows'[i] = listRows[i]
                                   \/ listRows'[i].ver > listRows[i].ver
  BY DEF ListTypeOK, ListRows, ListRow, ListGrows

\* What was real of a request, a batch and the toast stays real when rows grow.
LEMMA ListCallStays ==
    ASSUME ListInv, listRows' \in ListRows, ListGrows, NEW d \in listCalls,
           NEW c \in ListCall, ListSame(c, d)
    PROVE  ListCallIsReal(c)'
  <1>1. d \in ListCall /\ d.item \in ListItems /\ d.ver \in Nat
    BY DEF ListInv, ListTypeOK, ListCall
  <1>2. ListCallIsReal(d)  BY DEF ListInv
  <1>3. /\ listRows[d.item].ver \in Nat /\ listRows'[d.item].ver \in Nat
        /\ \/ listRows'[d.item] = listRows[d.item]
           \/ listRows'[d.item].ver > listRows[d.item].ver
    BY <1>1, ListVersions DEF ListInv
  <1> QED  BY <1>1, <1>2, <1>3 DEF ListCallIsReal, ListSame

LEMMA ListRunStays ==
    ASSUME ListInv, listRows' \in ListRows, ListGrows, NEW run \in listRuns
    PROVE  ListRunIsReal(run)'
  <1>1. run \in ListRun  BY DEF ListInv, ListTypeOK
  <1>2. ListRunIsReal(run)  BY DEF ListInv
  <1>3. ASSUME ~run.revert, NEW i \in run.ok
        PROVE  /\ listRows'[i].ver > run.vers[i]
               /\ run.op = "done" /\ listRows'[i].ver = run.vers[i] + 1
                     => listRows'[i].status = "done"
    <2>1. i \in ListItems /\ run.vers[i] \in Nat  BY <1>1, <1>3 DEF ListRun
    <2>2. /\ listRows[i].ver > run.vers[i]
          /\ run.op = "done" /\ listRows[i].ver = run.vers[i] + 1 => listRows[i].status = "done"
      BY <1>2, <1>3 DEF ListRunIsReal
    <2>3. /\ listRows[i].ver \in Nat /\ listRows'[i].ver \in Nat
          /\ \/ listRows'[i] = listRows[i]
             \/ listRows'[i].ver > listRows[i].ver
      BY <2>1, ListVersions DEF ListInv
    <2> QED  BY <2>1, <2>2, <2>3
  <1> QED  BY <1>3 DEF ListRunIsReal

LEMMA ListUndoStays ==
    ASSUME ListInv, listRows' \in ListRows, ListGrows, listUndo' = listUndo
    PROVE  ListUndoIsReal'
  <1>1. listUndo \in ListUndoEntry  BY DEF ListInv, ListTypeOK
  <1>2. ASSUME NEW i \in listUndo.items
        PROVE  CASE listUndo.kind \in {"toggle", "skip"} ->
                      /\ listRows'[i].ver >= listUndo.vers[i]
                      /\ listRows'[i].ver = listUndo.vers[i] => listRows'[i].status = "done"
                 [] listUndo.kind \in ListBatches ->
                      /\ listRows'[i].ver > listUndo.vers[i]
                      /\ listUndo.kind = "done" /\ listRows'[i].ver = listUndo.vers[i] + 1
                            => listRows'[i].status = "done"
                 [] OTHER -> listRows'[i].ver > 1
    <2>1. i \in ListItems /\ listUndo.vers[i] \in Nat  BY <1>1, <1>2 DEF ListUndoEntry
    <2>2. /\ listRows[i].ver \in Nat /\ listRows'[i].ver \in Nat
          /\ \/ listRows'[i] = listRows[i]
             \/ listRows'[i].ver > listRows[i].ver
      BY <2>1, ListVersions DEF ListInv
    <2>3. CASE listUndo.kind \in {"toggle", "skip"}
      <3>1. /\ listRows[i].ver >= listUndo.vers[i]
            /\ listRows[i].ver = listUndo.vers[i] => listRows[i].status = "done"
        BY <1>2, <2>3 DEF ListInv, ListUndoIsReal, ListBatches
      <3> QED  BY <2>1, <2>2, <2>3, <3>1 DEF ListBatches
    <2>4. CASE listUndo.kind \in ListBatches
      <3>1. /\ listRows[i].ver > listUndo.vers[i]
            /\ listUndo.kind = "done" /\ listRows[i].ver = listUndo.vers[i] + 1
                  => listRows[i].status = "done"
        BY <1>2, <2>4 DEF ListInv, ListUndoIsReal, ListBatches
      <3> QED  BY <2>1, <2>2, <2>4, <3>1 DEF ListBatches
    <2>5. CASE listUndo.kind \notin {"toggle", "skip"} \cup ListBatches
      <3>1. listRows[i].ver > 1  BY <1>2, <2>5 DEF ListInv, ListUndoIsReal
      <3> QED  BY <2>1, <2>2, <2>5, <3>1
    <2> QED  BY <2>3, <2>4, <2>5
  <1> QED  BY <1>2 DEF ListUndoIsReal

\* What a step has to show for the invariant: its copies are old ones, and what is new of
\* its requests, batches and toast is real.
LEMMA ListInvKept ==
    ASSUME ListInv, ListTypeOK', ListAboutRows', ListGrows,
           \A i \in ListItems : /\ listCache'[i].ver <= listRows[i].ver
                                /\ listFetch'.rows[i].ver <= listRows[i].ver,
           \A c \in listCalls' :
              \/ \E d \in listCalls : ListSame(c, d)
              \/ /\ ListCallIsReal(c)'
                 /\ \A i \in ListItems : c.previous[i].ver <= listRows[i].ver,
           \A run \in listRuns' :
              \/ run \in listRuns
              \/ /\ ListRunIsReal(run)'
                 /\ \A i \in ListItems : ~run.revert => run.vers[i] <= listRows[i].ver,
           listUndo' = listUndo \/ ListUndoIsReal'
    PROVE  ListInv'
  <1>0. listRows' \in ListRows  BY DEF ListTypeOK, ListRows
  <1>1. \A i \in ListItems : /\ listRows[i].ver \in Nat /\ listRows'[i].ver \in Nat
                             /\ listRows'[i].ver >= listRows[i].ver
    BY <1>0, ListVersions DEF ListInv
  <1>2. \A c \in listCalls' : ListCallIsReal(c)'
    BY <1>0, ListCallStays DEF ListTypeOK
  <1>3. \A c \in listCalls', i \in ListItems : c.previous[i].ver <= listRows[i].ver
    <2> TAKE c \in listCalls', i \in ListItems
    <2>1. ASSUME NEW d \in listCalls, ListSame(c, d)
          PROVE  c.previous[i].ver <= listRows[i].ver
      BY <2>1 DEF ListSame, ListInv, ListCopiesAreOld
    <2> QED  BY <2>1
  <1>4. \A run \in listRuns' : ListRunIsReal(run)'  BY <1>0, ListRunStays
  <1>5. \A run \in listRuns', i \in ListItems :
            ~run.revert => run.vers[i] <= listRows[i].ver
    BY DEF ListInv, ListCopiesAreOld
  <1>6. ListCopiesAreOld'
    <2> SUFFICES ASSUME NEW i \in ListItems
                 PROVE  /\ listRows'[i].ver >= 1
                        /\ listCache'[i].ver <= listRows'[i].ver
                        /\ listFetch'.rows[i].ver <= listRows'[i].ver
                        /\ \A c \in listCalls' : c.previous[i].ver <= listRows'[i].ver
                        /\ \A run \in listRuns' :
                               ~run.revert => run.vers[i] <= listRows'[i].ver
      BY DEF ListCopiesAreOld
    <2>1. listRows[i].ver >= 1  BY DEF ListInv, ListCopiesAreOld
    <2>2. /\ listCache'[i].ver \in Nat /\ listFetch'.rows[i].ver \in Nat
          /\ \A c \in listCalls' : c.previous[i].ver \in Nat
          /\ \A run \in listRuns' : run.vers[i] \in Nat
      BY DEF ListTypeOK, ListRow, ListCall, ListRun
    <2>3. ASSUME NEW n \in Nat, n <= listRows[i].ver
          PROVE  n <= listRows'[i].ver
      BY <1>1, <2>3
    <2> QED  BY <1>1, <1>3, <1>5, <2>1, <2>2, <2>3
  <1>7. ListUndoIsReal'  BY <1>0, ListUndoStays
  <1> QED  BY <1>2, <1>4, <1>6, <1>7 DEF ListInv

-----------------------------------------------------------------------------
(* The list: each action                                                   *)

ListQuery == [at : {"idle", "asked", "answered"}, rows : ListRows]

\* Nothing offered is nothing to be wrong about.
LEMMA ListNoUndoReal ==
    ASSUME listUndo' = ListNoUndo
    PROVE  ListUndoIsReal'
  BY ListNothingType DEF ListUndoIsReal

\* A step of the page or of its query: no row, request or batch changes.
LEMMA ListPageStep ==
    ASSUME ListInv, UNCHANGED <<listRows, listCalls, listRuns>>,
           listActs' \in 0..ListActs, listClicks' \in 0..ListClicks, listStale' \in BOOLEAN,
           listPage' \in ListChoices, listUndo' \in {listUndo, ListNoUndo},
           listCache' \in {listCache, listFetch.rows},
           listFetch' \in ListQuery,
           listFetch'.rows \in {listFetch.rows, listRows, ListNoRows}
    PROVE  ListInv'
  <1>0. /\ \A i \in ListItems : /\ listCache[i].ver <= listRows[i].ver
                                /\ listFetch.rows[i].ver <= listRows[i].ver
                                /\ listRows[i].ver \in Nat
    BY DEF ListInv, ListCopiesAreOld, ListTypeOK, ListRow
  <1>1. ListTypeOK'
    BY ListNothingType DEF ListInv, ListTypeOK, ListChoices, ListQuery, ListRows
  <1>2. ListAboutRows'  BY ListNothingType DEF ListInv, ListAboutRows
  <1>3. ListGrows  BY DEF ListGrows
  <1>4. \A i \in ListItems : /\ listCache'[i].ver <= listRows[i].ver
                             /\ listFetch'.rows[i].ver <= listRows[i].ver
    BY <1>0, ListNothingType
  <1>5. \A c \in listCalls' : \E d \in listCalls : ListSame(c, d)  BY DEF ListSame
  <1>6. listUndo' = listUndo \/ ListUndoIsReal'  BY ListNoUndoReal
  <1> QED  BY <1>1, <1>2, <1>3, <1>4, <1>5, <1>6, ListInvKept

\* A mutate: a request more, and with a toggle its optimistic change.
LEMMA ListSendStep ==
    ASSUME ListInv, NEW op \in ListOps, NEW item \in ListItems, NEW ver \in Nat,
           NEW next \in ListStatus, NEW then \in ListThens, NEW was \in ListStatus,
           \/ op = "toggle" /\ ListToggled(item, ver, next, then, was)
           \/ ListAsked(op, item, ver, next, then, was),
           then \in {"toggle", "skip"} => op \in {"toggle", "patch"} /\ next = "done",
           listUndo' \in {listUndo, ListNoUndo}, UNCHANGED <<listPage, listClicks>>
    PROVE  ListInv'
  <1>0. /\ \A i \in ListItems : /\ listCache[i].ver <= listRows[i].ver
                                /\ listFetch.rows[i].ver <= listRows[i].ver
                                /\ listRows[i].ver \in Nat
        /\ listCache \in ListRows /\ listFetch \in ListQuery
    BY DEF ListInv, ListCopiesAreOld, ListTypeOK, ListRow, ListRows, ListQuery
  <1>1. ListSent(op, item, ver, next, then, was)  BY DEF ListToggled, ListAsked
  <1>2. UNCHANGED <<listRows, listRuns, listStale>>  BY DEF ListToggled, ListAsked
  <1>3. listCache' \in ListRows /\ \A i \in ListItems : listCache'[i].ver = listCache[i].ver
    <2>1. CASE op = "toggle" /\ ListToggled(item, ver, next, then, was)
      <3>1. listCache' = [listCache EXCEPT ![item].status = next]  BY <2>1 DEF ListToggled
      <3>2. listCache \in ListRows  BY <1>0
      <3>3. [listCache EXCEPT ![item].status = next] \in ListRows
        BY <3>2 DEF ListRows, ListRow
      <3>4. \A i \in ListItems : [listCache EXCEPT ![item].status = next][i].ver = listCache[i].ver
        BY <3>2 DEF ListRows, ListRow
      <3> QED  BY <3>1, <3>3, <3>4
    <2>2. CASE ListAsked(op, item, ver, next, then, was)  BY <1>0, <2>2 DEF ListAsked
    <2> QED  BY <2>1, <2>2
  <1>4. listFetch' \in ListQuery /\ listFetch'.rows \in {listFetch.rows, ListNoRows}
    BY <1>0, ListNothingType DEF ListToggled, ListAsked, ListCancel, ListQuery
  <1>5. /\ listCalls' \subseteq ListCall /\ listActs' \in 0..ListActs
        /\ \A c \in listCalls' :
              \/ /\ c.op = op /\ c.next = next /\ c.then = then /\ c.at = "sent"
                 /\ c.previous \in {listCache, ListNoRows}
              \/ \E d \in listCalls : ListSame(c, d)
    BY <1>1, ListSentType DEF ListInv
  <1>6. ListTypeOK'
    BY <1>2, <1>3, <1>4, <1>5, ListNothingType DEF ListInv, ListTypeOK, ListRows, ListQuery
  <1>7. ListAboutRows'  BY <1>2, ListNothingType DEF ListInv, ListAboutRows
  <1>8. ListGrows  BY <1>2 DEF ListGrows
  <1>9. \A i \in ListItems : /\ listCache'[i].ver <= listRows[i].ver
                             /\ listFetch'.rows[i].ver <= listRows[i].ver
    BY <1>0, <1>3, <1>4, ListNothingType
  <1>10. \A c \in listCalls' :
            \/ \E d \in listCalls : ListSame(c, d)
            \/ /\ ListCallIsReal(c)'
               /\ \A i \in ListItems : c.previous[i].ver <= listRows[i].ver
    <2> SUFFICES ASSUME NEW c \in listCalls',
                        c.op = op, c.next = next, c.then = then, c.at = "sent",
                        c.previous \in {listCache, ListNoRows}
                 PROVE  /\ ListCallIsReal(c)'
                        /\ \A i \in ListItems : c.previous[i].ver <= listRows[i].ver
      BY <1>5
    <2>1. ListCallIsReal(c)'  BY DEF ListCallIsReal
    <2>2. \A i \in ListItems : c.previous[i].ver <= listRows[i].ver
      BY <1>0, ListNothingType
    <2> QED  BY <2>1, <2>2
  <1>11. listUndo' = listUndo \/ ListUndoIsReal'  BY ListNoUndoReal
  <1> QED  BY <1>2, <1>6, <1>7, <1>8, <1>9, <1>10, <1>11, ListInvKept

\* The server handles a request: a row of the next version, or a refusal.
LEMMA ListHandleStep ==
    ASSUME ListInv, NEW call \in listCalls, ListHandle(call), UNCHANGED listClicks
    PROVE  ListInv'
  <1> DEFINE row == listRows[call.item]
             ok == ListAccepts(call.op, row, call.ver, call.next)
             new == ListWritten(call.op, row, call.next)
  <1>0. /\ call \in ListCall /\ call.item \in ListItems /\ call.next \in ListStatus
        /\ call.ver \in Nat /\ row \in ListRow /\ row.ver \in Nat /\ row.ver >= 1
        /\ listRows \in ListRows
    BY DEF ListInv, ListTypeOK, ListCall, ListRow, ListRows, ListCopiesAreOld
  <1>1. /\ new \in ListRow /\ new.ver = row.ver + 1
        /\ call.op \in {"toggle", "patch"} => new.status = call.next
    BY <1>0, ListWrittenType
  <1>2. PICK lost \in BOOLEAN :
          /\ lost => ok
          /\ listRows' = IF ok THEN [listRows EXCEPT ![call.item] = new] ELSE listRows
          /\ listCalls' = (listCalls \ {call}) \cup
                {[call EXCEPT !.at = IF ok /\ ~lost THEN "ok" ELSE "bad",
                              !.ver = IF ok THEN new.ver ELSE call.ver]}
          /\ listStale' = (listStale \/ (lost /\ call.op # "toggle"))
    BY DEF ListHandle
  <1> DEFINE at == IF ok /\ ~lost THEN "ok" ELSE "bad"
             ver == IF ok THEN new.ver ELSE call.ver
             after == [call EXCEPT !.at = at, !.ver = ver]
  <1>3. /\ at \in {"ok", "bad"} /\ ver \in Nat
        /\ at = "ok" => ok /\ ver = row.ver + 1
    BY <1>0, <1>1
  <1>4. UNCHANGED <<listCache, listFetch, listRuns, listActs, listUndo, listPage>>
    BY DEF ListHandle
  <1>5. /\ listRows' \in ListRows
        /\ ok => listRows'[call.item] = new
        /\ ListGrows
    BY <1>0, <1>1, <1>2 DEF ListRows, ListGrows
  <1>6. listStale' \in BOOLEAN  BY <1>2
  <1>7. listCalls' = (listCalls \ {call}) \cup {after}  BY <1>2
  <1> HIDE DEF ok, at, ver
  <1>8. PICK gone \in ListCall :
          /\ listCalls' = (listCalls \ {call}) \cup {gone}
          /\ gone.at = at /\ gone.ver = ver
          /\ gone.op = call.op /\ gone.item = call.item /\ gone.next = call.next
          /\ gone.then = call.then /\ gone.previous = call.previous
    <2>1. /\ after \in ListCall /\ after.at = at /\ after.ver = ver
          /\ after.op = call.op /\ after.item = call.item /\ after.next = call.next
          /\ after.then = call.then /\ after.previous = call.previous
      BY <1>0, <1>3 DEF ListCall
    <2> HIDE DEF after
    <2> QED  BY <1>7, <2>1
  <1> HIDE DEF after, row, new
  <1>9. ListTypeOK'
    BY <1>4, <1>5, <1>6, <1>8 DEF ListInv, ListTypeOK, ListRows
  <1>10. ListAboutRows'  BY <1>4 DEF ListInv, ListAboutRows
  <1>11. ListCallIsReal(gone)'
    <2>1. call.then \in {"toggle", "skip"} =>
              call.op \in {"toggle", "patch"} /\ call.next = "done"
      BY DEF ListInv, ListCallIsReal
    <2>2. gone.at = "ok" =>
             /\ gone.ver > 1 /\ listRows'[gone.item].ver = gone.ver
             /\ gone.op \in {"toggle", "patch"} => listRows'[gone.item].status = gone.next
      BY <1>0, <1>1, <1>3, <1>5, <1>8
    <2> QED  BY <1>8, <2>1, <2>2 DEF ListCallIsReal, ListCall
  <1>12. \A i \in ListItems : gone.previous[i].ver <= listRows[i].ver
    BY <1>8 DEF ListInv, ListCopiesAreOld
  <1>13. \A c \in listCalls : ListSame(c, c)  BY DEF ListSame
  <1>14. \A c \in listCalls' :
            \/ \E d \in listCalls : ListSame(c, d)
            \/ /\ ListCallIsReal(c)'
               /\ \A i \in ListItems : c.previous[i].ver <= listRows[i].ver
    BY <1>8, <1>11, <1>12, <1>13
  <1>15. \A i \in ListItems : /\ listCache'[i].ver <= listRows[i].ver
                              /\ listFetch'.rows[i].ver <= listRows[i].ver
    BY <1>4 DEF ListInv, ListCopiesAreOld
  <1> QED  BY <1>4, <1>5, <1>9, <1>10, <1>14, <1>15, ListInvKept

\* An answer: the toast may get an entry, the page another drawer, the list is asked for.
LEMMA ListSucceededStep ==
    ASSUME ListInv, NEW call \in listCalls, ListSucceeded(call), UNCHANGED listClicks
    PROVE  ListInv'
  <1>0. /\ call \in ListCall /\ call.item \in ListItems /\ call.ver \in Nat
        /\ call.was \in ListStatus /\ call.then \in ListThens
        /\ listRows[call.item].ver \in Nat
        /\ listPage \in ListChoices
    BY DEF ListInv, ListTypeOK, ListCall, ListThens, ListRow, ListChoices
  <1>1. UNCHANGED <<listRows, listCache, listRuns, listActs>>  BY DEF ListSucceeded
  <1>2. listFetch' = [at |-> "asked", rows |-> ListNoRows] /\ listStale' = FALSE
    BY DEF ListSucceeded, ListAsk
  <1>3. listFetch' \in ListQuery  BY <1>2, ListNothingType DEF ListQuery
  <1>4. listPage' \in ListChoices
    <2>1. listPage' = ListOpened(call)  BY DEF ListSucceeded
    <2>2. CASE call.op \in {"patch", "restore"}
      <3>1. listPage' = [listPage EXCEPT !.open = call.item]  BY <2>1, <2>2 DEF ListOpened
      <3> QED  BY <1>0, <3>1 DEF ListChoices
    <2>3. CASE call.op \in {"archive", "delete"}
      <3>1. listPage' = [listPage EXCEPT !.open = 0]  BY <2>1, <2>3 DEF ListOpened
      <3> QED  BY <1>0, <3>1 DEF ListChoices
    <2>4. CASE call.op \notin {"patch", "restore", "archive", "delete"}
      BY <1>0, <2>1, <2>4 DEF ListOpened
    <2> QED  BY <2>2, <2>3, <2>4
  <1>5. listCalls' \subseteq listCalls  BY DEF ListSucceeded
  <1>6. \/ listUndo' = listUndo
        \/ /\ listUndo' \in ListUndoEntry /\ ListUndoIsReal'
           /\ listUndo'.kind # "none" /\ listUndo'.items # {}
    <2> SUFFICES ASSUME call.then # "none",
                        ListPush(call.then, {call.item}, [i \in ListItems |-> call.ver],
                                 [i \in ListItems |-> call.was])
                 PROVE  /\ listUndo' \in ListUndoEntry /\ ListUndoIsReal'
                        /\ listUndo'.kind # "none" /\ listUndo'.items # {}
      BY DEF ListSucceeded
    <2> DEFINE vers == [i \in ListItems |-> call.ver]
               backs == [i \in ListItems |-> call.was]
    <2>1. /\ call.then \in ListThens \cup ListBatches /\ {call.item} \in SUBSET ListItems
          /\ vers \in [ListItems -> Nat] /\ backs \in [ListItems -> ListStatus]
          /\ vers[call.item] = call.ver
          /\ ListPush(call.then, {call.item}, vers, backs)
      BY <1>0
    <2> HIDE DEF vers, backs
    <2>2. /\ listUndo' \in ListUndoEntry
          /\ listUndo'.kind = call.then /\ listUndo'.items = {call.item}
          /\ listUndo'.vers[call.item] = call.ver
      BY <2>1, ListPushType
    <2>3. /\ call.ver > 1 /\ listRows[call.item].ver >= call.ver
          /\ call.op \in {"toggle", "patch"} /\ listRows[call.item].ver = call.ver
                => listRows[call.item].status = call.next
          /\ call.then \in {"toggle", "skip"} =>
                call.op \in {"toggle", "patch"} /\ call.next = "done"
      BY DEF ListSucceeded, ListInv, ListCallIsReal
    <2>4. ListUndoIsReal'
      <3>1. CASE call.then \in {"toggle", "skip"}
        BY <1>1, <2>2, <2>3, <3>1 DEF ListUndoIsReal, ListBatches
      <3>2. CASE call.then \notin {"toggle", "skip"}
        <4>1. call.then \notin ListBatches  BY <1>0 DEF ListThens, ListBatches
        <4>2. listRows[call.item].ver > 1  BY <1>0, <2>3
        <4> QED  BY <1>1, <2>2, <3>2, <4>1, <4>2 DEF ListUndoIsReal
      <3> QED  BY <3>1, <3>2
    <2> QED  BY <2>2, <2>4
  <1>7. ListTypeOK'
    BY <1>1, <1>2, <1>3, <1>4, <1>5, <1>6 DEF ListInv, ListTypeOK, ListQuery, ListRows, ListChoices
  <1>8. ListAboutRows'  BY <1>1, <1>6 DEF ListInv, ListAboutRows
  <1>9. ListGrows  BY <1>1 DEF ListGrows
  <1>10. \A i \in ListItems : /\ listCache'[i].ver <= listRows[i].ver
                              /\ listFetch'.rows[i].ver <= listRows[i].ver
    BY <1>1, <1>2, ListNothingType DEF ListInv, ListCopiesAreOld, ListTypeOK, ListRow
  <1>11. \A c \in listCalls' : \E d \in listCalls : ListSame(c, d)  BY <1>5 DEF ListSame
  <1> QED  BY <1>1, <1>6, <1>7, <1>8, <1>9, <1>10, <1>11, ListInvKept

\* A failure: a toggle puts its list back, which is not newer than the server's.
LEMMA ListFailedStep ==
    ASSUME ListInv, NEW call \in listCalls, ListFailed(call), UNCHANGED listClicks
    PROVE  ListInv'
  <1>0. call \in ListCall /\ call.previous \in ListRows
    BY DEF ListInv, ListTypeOK, ListCall, ListRows
  <1>1. UNCHANGED <<listRows, listRuns, listActs, listUndo, listPage>>  BY DEF ListFailed
  <1>2. /\ listFetch' \in ListQuery /\ listFetch'.rows \in {listFetch.rows, ListNoRows}
        /\ listStale' \in BOOLEAN
    <2>1. \/ UNCHANGED <<listFetch, listStale>>
          \/ listFetch' = [at |-> "asked", rows |-> ListNoRows] /\ listStale' = FALSE
      BY DEF ListFailed, ListAsk
    <2>2. listFetch \in ListQuery /\ listStale \in BOOLEAN
      BY DEF ListInv, ListTypeOK, ListQuery, ListRows
    <2>3. CASE UNCHANGED <<listFetch, listStale>>  BY <2>2, <2>3
    <2>4. CASE listFetch' = [at |-> "asked", rows |-> ListNoRows] /\ listStale' = FALSE
      <3>1. listFetch' \in ListQuery  BY <2>4, ListNothingType DEF ListQuery
      <3>2. listFetch'.rows = ListNoRows  BY <2>4
      <3> QED  BY <2>4, <3>1, <3>2
    <2> QED  BY <2>1, <2>3, <2>4
  <1>3. listCache' \in {listCache, call.previous}  BY DEF ListFailed
  <1>4. listCalls' \subseteq listCalls  BY DEF ListFailed
  <1>5. ListTypeOK'
    BY <1>0, <1>1, <1>2, <1>3, <1>4 DEF ListInv, ListTypeOK, ListQuery, ListRows
  <1>6. ListAboutRows'  BY <1>1 DEF ListInv, ListAboutRows
  <1>7. ListGrows  BY <1>1 DEF ListGrows
  <1>8. \A i \in ListItems : /\ listCache'[i].ver <= listRows[i].ver
                             /\ listFetch'.rows[i].ver <= listRows[i].ver
    BY <1>2, <1>3, ListNothingType DEF ListInv, ListCopiesAreOld, ListTypeOK, ListRow
  <1>9. \A c \in listCalls' : \E d \in listCalls : ListSame(c, d)  BY <1>4 DEF ListSame
  <1> QED  BY <1>1, <1>5, <1>6, <1>7, <1>8, <1>9, ListInvKept

\* Somebody else's write of a row.
LEMMA ListElsewhereStep ==
    ASSUME ListInv, ListElsewhere, UNCHANGED listClicks
    PROVE  ListInv'
  <1>0. listRows \in ListRows  BY DEF ListInv, ListTypeOK, ListRows
  <1>1. PICK j \in ListItems, new \in ListRow :
          listRows' = [listRows EXCEPT ![j] = new] /\ new.ver = listRows[j].ver + 1
    <2>1. PICK j \in ListItems, next \in ListStatus,
               op \in {"patch", "archive", "delete", "undelete"} :
            listRows' = [listRows EXCEPT ![j] = ListWritten(op, listRows[j], next)]
      BY DEF ListElsewhere
    <2>2. listRows[j] \in ListRow  BY <1>0 DEF ListRows
    <2>3. /\ ListWritten(op, listRows[j], next) \in ListRow
          /\ ListWritten(op, listRows[j], next).ver = listRows[j].ver + 1
      BY <2>2, ListWrittenType
    <2> QED  BY <2>1, <2>3
  <1>2. listRows' \in ListRows /\ ListGrows  BY <1>0, <1>1 DEF ListRows, ListGrows
  <1>3. /\ UNCHANGED <<listCache, listFetch, listCalls, listRuns, listUndo, listPage>>
        /\ listActs' \in 0..ListActs /\ listStale' \in BOOLEAN
    BY ListAssumption DEF ListElsewhere, ListInv, ListTypeOK
  <1>4. ListTypeOK'  BY <1>2, <1>3 DEF ListInv, ListTypeOK, ListRows
  <1>5. ListAboutRows'  BY <1>3 DEF ListInv, ListAboutRows
  <1>6. \A i \in ListItems : /\ listCache'[i].ver <= listRows[i].ver
                             /\ listFetch'.rows[i].ver <= listRows[i].ver
    BY <1>3 DEF ListInv, ListCopiesAreOld
  <1>7. \A c \in listCalls' : \E d \in listCalls : ListSame(c, d)  BY <1>3 DEF ListSame
  <1> QED  BY <1>2, <1>3, <1>4, <1>5, <1>6, <1>7, ListInvKept

\* A batch starts with the rows the list has now.
LEMMA ListBatchClickStep ==
    ASSUME ListInv, ListBatchClick, UNCHANGED listClicks
    PROVE  ListInv'
  <1>0. listCache \in ListRows /\ listPage \in ListChoices
    BY DEF ListInv, ListTypeOK, ListRows, ListChoices
  <1>1. PICK op \in ListBatches :
          /\ ListTargets(op) # {}
          /\ listRuns' = listRuns \cup
                {[op |-> op, revert |-> FALSE, todo |-> ListTargets(op), ok |-> {}, bad |-> {},
                  vers |-> [i \in ListItems |-> listCache[i].ver],
                  backs |-> [i \in ListItems |-> listCache[i].status]]}
    BY DEF ListBatchClick
  <1>2. ListTargets(op) \in SUBSET ListItems
    BY <1>0 DEF ListTargets, ListSelected, ListBatches, ListChoices
  <1>3. PICK run \in ListRun :
          /\ listRuns' = listRuns \cup {run}
          /\ run.todo = ListTargets(op) /\ run.ok = {}
          /\ \A i \in ListItems : run.vers[i] = listCache[i].ver
    <2> DEFINE vers == [i \in ListItems |-> listCache[i].ver]
               backs == [i \in ListItems |-> listCache[i].status]
               run == [op |-> op, revert |-> FALSE, todo |-> ListTargets(op), ok |-> {},
                       bad |-> {}, vers |-> vers, backs |-> backs]
    <2>1. /\ vers \in [ListItems -> Nat] /\ backs \in [ListItems -> ListStatus]
          /\ \A i \in ListItems : vers[i] = listCache[i].ver
      BY <1>0 DEF ListRows, ListRow
    <2>2. listRuns' = listRuns \cup {run}  BY <1>1
    <2> HIDE DEF vers, backs
    <2>3. /\ run \in ListRun /\ run.vers = vers /\ run.todo = ListTargets(op) /\ run.ok = {}
      BY <1>2, <2>1 DEF ListRun
    <2> HIDE DEF run
    <2> QED  BY <2>1, <2>2, <2>3
  <1>4. /\ UNCHANGED <<listRows, listCache, listFetch, listStale, listCalls, listUndo, listPage>>
        /\ listActs' \in 0..ListActs
    BY ListAssumption DEF ListBatchClick, ListInv, ListTypeOK
  <1>5. ListTypeOK'  BY <1>3, <1>4 DEF ListInv, ListTypeOK
  <1>6. ListAboutRows'  BY <1>1, <1>3, <1>4 DEF ListInv, ListAboutRows
  <1>7. ListGrows  BY <1>4 DEF ListGrows
  <1>8. \A i \in ListItems : /\ listCache'[i].ver <= listRows[i].ver
                             /\ listFetch'.rows[i].ver <= listRows[i].ver
    BY <1>4 DEF ListInv, ListCopiesAreOld
  <1>9. \A c \in listCalls' : \E d \in listCalls : ListSame(c, d)  BY <1>4 DEF ListSame
  <1>10. \A r \in listRuns' :
            \/ r \in listRuns
            \/ /\ ListRunIsReal(r)'
               /\ \A i \in ListItems : ~r.revert => r.vers[i] <= listRows[i].ver
    <2>1. ListRunIsReal(run)'  BY <1>3 DEF ListRunIsReal
    <2>2. \A i \in ListItems : run.vers[i] <= listRows[i].ver
      BY <1>3 DEF ListInv, ListCopiesAreOld
    <2> QED  BY <1>3, <2>1, <2>2
  <1> QED  BY <1>4, <1>5, <1>6, <1>7, <1>8, <1>9, <1>10, ListInvKept

\* One row of a batch: what it counts as done is the next version of the row it knew.
LEMMA ListBatchStepStep ==
    ASSUME ListInv, NEW run \in listRuns, ListBatchStep(run), UNCHANGED listClicks
    PROVE  ListInv'
  <1> DEFINE i == Min(run.todo)
             row == listRows[i]
             op == ListBatchCall(run)
             next == ListBatchNext(run, i)
             new == ListWritten(op, row, next)
             ok == ListAccepts(op, row, run.vers[i], next)
             left == [run EXCEPT !.todo = @ \ {i}]
  <1>0. run \in ListRun /\ run.todo \in SUBSET ListItems /\ run.todo # {}
    BY DEF ListInv, ListTypeOK, ListRun, ListBatchStep
  <1>1. i \in run.todo /\ i \in ListItems  BY <1>0, MinIsIn
  <1>2. /\ listRows' = IF ok THEN [listRows EXCEPT ![i] = new] ELSE listRows
        /\ \E lost \in BOOLEAN :
              listRuns' = (listRuns \ {run}) \cup {ListNoted(left, i, ok /\ ~lost)}
    BY DEF ListBatchStep
  <1> HIDE DEF i
  <1>3. /\ row \in ListRow /\ row.ver \in Nat /\ listRows \in ListRows
        /\ run.vers[i] \in Nat /\ next \in ListStatus
    BY <1>0, <1>1 DEF ListInv, ListTypeOK, ListRows, ListRow, ListRun, ListBatchNext, ListStatus
  <1>4. /\ new \in ListRow /\ new.ver = row.ver + 1
        /\ op = "patch" => new.status = next
    BY <1>3, ListWrittenType
  <1>5. ok /\ ~run.revert =>
           /\ row.ver >= run.vers[i]
           /\ run.op = "done" => row.ver = run.vers[i] /\ op = "patch" /\ next = "done"
    <2>1. ~run.revert => run.vers[i] <= row.ver
      BY <1>1 DEF ListInv, ListCopiesAreOld
    <2>2. ~run.revert /\ run.op = "done" => op = "patch" /\ next = "done"
      BY DEF ListBatchCall, ListBatchNext
    <2>3. ok /\ op = "patch" => row.ver = run.vers[i]  BY DEF ListAccepts
    <2> QED  BY <1>3, <2>1, <2>2, <2>3
  <1>6. PICK done \in BOOLEAN :
          /\ done => ok
          /\ listRuns' = (listRuns \ {run}) \cup {ListNoted(left, i, done)}
    <2>1. PICK lost \in BOOLEAN :
            listRuns' = (listRuns \ {run}) \cup {ListNoted(left, i, ok /\ ~lost)}
      BY <1>2
    <2>2. (ok /\ ~lost) \in BOOLEAN  OBVIOUS
    <2> QED  BY <2>1, <2>2
  <1> HIDE DEF ok, next, op, new, row
  <1>7. PICK noted \in ListRun :
          /\ listRuns' = (listRuns \ {run}) \cup {noted}
          /\ noted.revert = run.revert /\ noted.op = run.op /\ noted.vers = run.vers
          /\ noted.ok \cup noted.bad # {}
          /\ noted.ok \subseteq run.ok \cup {i} /\ (i \in noted.ok => i \in run.ok \/ done)
    <2>1. /\ left \in ListRun /\ left.op = run.op /\ left.revert = run.revert
          /\ left.vers = run.vers /\ left.ok = run.ok /\ left.bad = run.bad
      BY <1>0 DEF ListRun
    <2> HIDE DEF left
    <2>2. CASE done
      <3> DEFINE noted == [left EXCEPT !.ok = @ \cup {i}]
      <3>1. listRuns' = (listRuns \ {run}) \cup {noted}  BY <1>6, <2>2 DEF ListNoted
      <3>2. /\ noted \in ListRun /\ noted.op = run.op /\ noted.revert = run.revert
            /\ noted.vers = run.vers /\ noted.ok = run.ok \cup {i}
        BY <1>1, <2>1 DEF ListRun
      <3> HIDE DEF noted
      <3> QED  BY <2>2, <3>1, <3>2
    <2>3. CASE ~done
      <3> DEFINE noted == [left EXCEPT !.bad = @ \cup {i}]
      <3>1. listRuns' = (listRuns \ {run}) \cup {noted}  BY <1>6, <2>3 DEF ListNoted
      <3>2. /\ noted \in ListRun /\ noted.op = run.op /\ noted.revert = run.revert
            /\ noted.vers = run.vers /\ noted.ok = run.ok /\ noted.bad = run.bad \cup {i}
        BY <1>1, <2>1 DEF ListRun
      <3> HIDE DEF noted
      <3> QED  BY <2>3, <3>1, <3>2
    <2> QED  BY <2>2, <2>3
  <1> HIDE DEF left
  <1>8. /\ listRows' \in ListRows /\ ListGrows
        /\ ok => listRows'[i] = new
    BY <1>1, <1>2, <1>3, <1>4 DEF ListRows, ListGrows, row
  <1>9. UNCHANGED <<listCache, listFetch, listStale, listCalls, listActs, listUndo, listPage>>
    BY DEF ListBatchStep
  <1>10. ListTypeOK'
    BY <1>7, <1>8, <1>9 DEF ListInv, ListTypeOK, ListRows
  <1>11. ListAboutRows'  BY <1>7, <1>9 DEF ListInv, ListAboutRows
  <1>12. \A j \in ListItems : /\ listCache'[j].ver <= listRows[j].ver
                              /\ listFetch'.rows[j].ver <= listRows[j].ver
    BY <1>9 DEF ListInv, ListCopiesAreOld
  <1>13. \A c \in listCalls' : \E d \in listCalls : ListSame(c, d)  BY <1>9 DEF ListSame
  <1>14. \A j \in ListItems : ~noted.revert => noted.vers[j] <= listRows[j].ver
    BY <1>7 DEF ListInv, ListCopiesAreOld
  <1>15. ListRunIsReal(noted)'
    <2>1. ASSUME ~run.revert, NEW j \in noted.ok
          PROVE  /\ listRows'[j].ver > run.vers[j]
                 /\ run.op = "done" /\ listRows'[j].ver = run.vers[j] + 1
                       => listRows'[j].status = "done"
      <3>1. CASE j \in run.ok
        <4>1. ListRunIsReal(run)'  BY <1>8, ListRunStays
        <4> QED  BY <2>1, <3>1, <4>1 DEF ListRunIsReal
      <3>2. CASE j \notin run.ok
        <4>1. j = i /\ ok  BY <1>6, <1>7, <2>1, <3>2
        <4>2. listRows'[j].ver = row.ver + 1 /\ (op = "patch" => listRows'[j].status = next)
          BY <1>4, <1>8, <4>1
        <4>3. /\ row.ver >= run.vers[i]
              /\ run.op = "done" => op = "patch" /\ next = "done"
          BY <1>5, <2>1, <4>1
        <4> QED  BY <1>3, <4>1, <4>2, <4>3
      <3> QED  BY <3>1, <3>2
    <2> QED  BY <1>7, <2>1 DEF ListRunIsReal
  <1>16. \A r \in listRuns' :
            \/ r \in listRuns
            \/ /\ ListRunIsReal(r)'
               /\ \A j \in ListItems : ~r.revert => r.vers[j] <= listRows[j].ver
    BY <1>7, <1>14, <1>15
  <1> QED  BY <1>8, <1>9, <1>10, <1>11, <1>12, <1>13, <1>16, ListInvKept

\* The end of a batch: what it offers to undo is all that it was about, and was done.
LEMMA ListBatchEndStep ==
    ASSUME ListInv, NEW run \in listRuns, ListBatchEnd(run), UNCHANGED listClicks
    PROVE  ListInv'
  <1>0. run \in ListRun /\ listPage \in ListChoices
    BY DEF ListInv, ListTypeOK, ListChoices
  <1>1. UNCHANGED <<listRows, listCache, listCalls, listActs>>  BY DEF ListBatchEnd
  <1>2. /\ listFetch' \in ListQuery /\ listFetch'.rows = ListNoRows
        /\ listStale' = FALSE
    BY ListNothingType DEF ListBatchEnd, ListAsk, ListQuery
  <1>3. listRuns' \subseteq listRuns  BY DEF ListBatchEnd
  <1>4. listPage' \in ListChoices
    <2>1. \/ listPage' = listPage
          \/ listPage' = [listPage EXCEPT !.picked = run.bad]
          \/ listPage' = [listPage EXCEPT !.selecting = FALSE, !.picked = {}]
      BY DEF ListBatchEnd, ListUnselected
    <2> QED  BY <1>0, <2>1 DEF ListChoices, ListRun
  <1>5. \/ listUndo' = listUndo
        \/ /\ listUndo' \in ListUndoEntry /\ ListUndoIsReal'
           /\ listUndo'.kind # "none" /\ listUndo'.items # {}
    <2> SUFFICES ASSUME ~run.revert, run.bad = {}, ListPush(run.op, run.ok, run.vers, run.backs)
                 PROVE  /\ listUndo' \in ListUndoEntry /\ ListUndoIsReal'
                        /\ listUndo'.kind # "none" /\ listUndo'.items # {}
      BY <1>0 DEF ListBatchEnd, ListRun
    <2>1. /\ run.op \in ListBatches /\ run.ok \in SUBSET ListItems
          /\ run.vers \in [ListItems -> Nat] /\ run.backs \in [ListItems -> ListStatus]
      BY <1>0 DEF ListRun
    <2>2. /\ listUndo' \in ListUndoEntry
          /\ listUndo'.kind = run.op /\ listUndo'.items = run.ok
          /\ \A i \in run.ok : listUndo'.vers[i] = run.vers[i]
      BY <2>1, ListPushType
    <2>3. run.ok # {}  BY DEF ListBatchEnd, ListInv, ListAboutRows
    <2>4. ListRunIsReal(run)  BY DEF ListInv
    <2>5. ListUndoIsReal'
      BY <1>1, <2>1, <2>2, <2>4 DEF ListUndoIsReal, ListRunIsReal, ListBatches
    <2> QED  BY <2>1, <2>2, <2>3, <2>5 DEF ListBatches
  <1>6. ListTypeOK'
    BY <1>1, <1>2, <1>3, <1>4, <1>5 DEF ListInv, ListTypeOK, ListQuery, ListRows, ListChoices
  <1>7. ListAboutRows'  BY <1>3, <1>5 DEF ListInv, ListAboutRows
  <1>8. ListGrows  BY <1>1 DEF ListGrows
  <1>9. \A i \in ListItems : /\ listCache'[i].ver <= listRows[i].ver
                             /\ listFetch'.rows[i].ver <= listRows[i].ver
    BY <1>1, <1>2, ListNothingType DEF ListInv, ListCopiesAreOld, ListTypeOK, ListRow
  <1>10. \A c \in listCalls' : \E d \in listCalls : ListSame(c, d)  BY <1>1 DEF ListSame
  <1> QED  BY <1>3, <1>5, <1>6, <1>7, <1>8, <1>9, <1>10, ListInvKept

\* One mutate: of a toggle, or of another request; a way back from done is offered only by a
\* request that asks for done.
ListMutates ==
    \E op \in ListOps, item \in ListItems, ver \in Nat, next \in ListStatus,
       then \in ListThens, was \in ListStatus :
        /\ \/ op = "toggle" /\ ListToggled(item, ver, next, then, was)
           \/ ListAsked(op, item, ver, next, then, was)
        /\ then \in {"toggle", "skip"} => op \in {"toggle", "patch"} /\ next = "done"

LEMMA ListMutatesStep ==
    ASSUME ListInv, ListMutates, listUndo' \in {listUndo, ListNoUndo},
           UNCHANGED <<listPage, listClicks>>
    PROVE  ListInv'
  BY ListSendStep DEF ListMutates

\* The toggle, the skip, the archive and the drawer's buttons are mutates of a row the page
\* shows.
LEMMA ListButtonMutates ==
    ASSUME ListTypeOK,
           ListToggleClick \/ ListSkipClick \/ ListArchiveClick \/ ListDrawerClick
    PROVE  ListMutates
  <1>0. /\ \A i \in ListItems : /\ listCache[i].ver \in Nat
                                /\ listCache[i].status \in ListStatus
        /\ ListVisible \subseteq ListItems
        /\ ListDrawer => listPage.open \in ListItems
    BY DEF ListTypeOK, ListRow, ListVisible, ListDrawer
  <1>1. ListThens = {"none", "toggle", "skip", "archive", "delete"}
        /\ ListStatus = {"planned", "waiting", "done"}
        /\ ListOps = {"toggle", "patch", "archive", "restore", "delete", "undelete"}
    BY DEF ListThens, ListStatus, ListOps
  <1>2. CASE ListToggleClick
    <2>1. PICK i \in ListVisible : ListToggleWithUndo(i)  BY <1>2 DEF ListToggleClick
    <2>2. PICK next \in {"planned", "done"}, then \in {"none", "toggle"} :
            /\ ListToggled(i, listCache[i].ver, next, then, listCache[i].status)
            /\ then = "toggle" => next = "done"
      BY <2>1 DEF ListToggleWithUndo
    <2> QED  BY <1>0, <1>1, <2>1, <2>2 DEF ListMutates
  <1>3. CASE ListSkipClick
    <2>1. PICK i \in ListVisible :
            ListAsked("patch", i, listCache[i].ver, "done", "skip", "planned")
      BY <1>3 DEF ListSkipClick
    <2> QED  BY <1>0, <1>1, <2>1 DEF ListMutates
  <1>4. CASE ListArchiveClick
    <2>1. PICK i \in ListVisible, op \in {"restore", "archive"}, then \in {"none", "archive"} :
            ListAsked(op, i, 0, "planned", then, "planned")
      BY <1>4 DEF ListArchiveClick
    <2> QED  BY <1>0, <1>1, <2>1 DEF ListMutates
  <1>5. CASE ListDrawerClick
    <2> DEFINE i == listPage.open
    <2>1. i \in ListItems  BY <1>0, <1>5 DEF ListDrawerClick
    <2>2. \/ ListAsked("delete", i, 0, "planned", "delete", "planned")
          \/ \E next \in ListStatus :
                ListAsked("patch", i, listCache[i].ver, next, "none", "planned")
      BY <1>5 DEF ListDrawerClick
    <2> HIDE DEF i
    <2>3. CASE ListAsked("delete", i, 0, "planned", "delete", "planned")
      BY <1>1, <2>1, <2>3 DEF ListMutates
    <2>4. CASE \E next \in ListStatus :
                  ListAsked("patch", i, listCache[i].ver, next, "none", "planned")
      BY <1>0, <1>1, <2>1, <2>4 DEF ListMutates
    <2> QED  BY <2>2, <2>3, <2>4
  <1> QED  BY <1>2, <1>3, <1>4, <1>5

LEMMA ListButtonStep ==
    ASSUME ListInv,
           ListToggleClick \/ ListSkipClick \/ ListArchiveClick \/ ListDrawerClick,
           UNCHANGED listClicks
    PROVE  ListInv'
  <1>1. ListMutates  BY ListButtonMutates DEF ListInv
  <1>2. UNCHANGED <<listUndo, listPage>>
    BY DEF ListToggleClick, ListSkipClick, ListArchiveClick, ListDrawerClick
  <1> QED  BY <1>1, <1>2, ListMutatesStep

\* What the closure of an entry of a batch starts: its revert.
ListReverts ==
    /\ listUndo.kind \in ListBatches
    /\ listActs < ListActs /\ listActs' = listActs + 1
    /\ listRuns' = listRuns \cup
          {[op |-> listUndo.kind, revert |-> TRUE, todo |-> listUndo.items,
            ok |-> {}, bad |-> {}, vers |-> listUndo.vers, backs |-> listUndo.backs]}
    /\ UNCHANGED <<listRows, listCache, listFetch, listStale, listCalls>>

\* The closure of the toast: a toggle, a request or the revert of a batch.
LEMMA ListRunUndoMutates ==
    ASSUME ListTypeOK, ListAboutRows, ListRunUndo
    PROVE  ListMutates \/ ListReverts
  <1> DEFINE i == Min(listUndo.items)
  <1>0. /\ listUndo \in ListUndoEntry /\ listUndo.items # {}
        /\ listUndo.items \in SUBSET ListItems
    BY DEF ListTypeOK, ListAboutRows, ListRunUndo, ListUndoEntry
  <1>1. i \in ListItems  BY <1>0, MinIsIn
  <1>2. listUndo.vers[i] \in Nat /\ listUndo.backs[i] \in ListStatus
    BY <1>0, <1>1 DEF ListUndoEntry
  <1>3. \/ ListToggled(i, listUndo.vers[i], listUndo.backs[i], "none", "planned")
        \/ ListAsked("patch", i, listUndo.vers[i], "planned", "none", "planned")
        \/ ListAsked("restore", i, 0, "planned", "none", "planned")
        \/ ListAsked("undelete", i, 0, "planned", "none", "planned")
        \/ ListReverts
    BY <1>0 DEF ListRunUndo, ListUndoEntry, ListReverts
  <1> HIDE DEF i
  <1>4. {"planned"} \subseteq ListStatus /\ "none" \in ListThens /\ 0 \in Nat
        /\ {"toggle", "patch", "restore", "undelete"} \subseteq ListOps
    BY DEF ListStatus, ListThens, ListOps
  <1>5. CASE ListToggled(i, listUndo.vers[i], listUndo.backs[i], "none", "planned")
    BY <1>1, <1>2, <1>4, <1>5 DEF ListMutates
  <1>6. CASE ListAsked("patch", i, listUndo.vers[i], "planned", "none", "planned")
    BY <1>1, <1>2, <1>4, <1>6 DEF ListMutates
  <1>7. CASE \E op \in {"restore", "undelete"} :
                ListAsked(op, i, 0, "planned", "none", "planned")
    BY <1>1, <1>2, <1>4, <1>7 DEF ListMutates
  <1> QED  BY <1>3, <1>5, <1>6, <1>7

LEMMA ListRunUndoStep ==
    ASSUME ListInv, ListRunUndo, UNCHANGED listClicks
    PROVE  ListInv'
  <1>0. /\ listUndo \in ListUndoEntry /\ listUndo.items # {}
        /\ listUndo' = ListNoUndo /\ UNCHANGED listPage
    BY DEF ListInv, ListTypeOK, ListAboutRows, ListRunUndo
  <1>1. CASE ListMutates  BY <1>0, <1>1, ListMutatesStep
  <1>2. CASE ListReverts
    <2>1. PICK run \in ListRun : /\ listRuns' = listRuns \cup {run}
                                 /\ run.revert /\ run.todo # {}
      <3> DEFINE run == [op |-> listUndo.kind, revert |-> TRUE, todo |-> listUndo.items,
                         ok |-> {}, bad |-> {}, vers |-> listUndo.vers,
                         backs |-> listUndo.backs]
      <3>1. run \in ListRun  BY <1>0, <1>2 DEF ListReverts, ListRun, ListUndoEntry
      <3>2. listRuns' = listRuns \cup {run} /\ run.revert /\ run.todo # {}
        BY <1>0, <1>2 DEF ListReverts
      <3> HIDE DEF run
      <3> QED  BY <3>1, <3>2
    <2>2. listActs' \in 0..ListActs  BY <1>2, ListAssumption DEF ListReverts, ListInv, ListTypeOK
    <2>3. ListTypeOK'
      BY <1>0, <1>2, <2>1, <2>2, ListNothingType DEF ListReverts, ListInv, ListTypeOK
    <2>4. ListAboutRows'  BY <1>0, <2>1, ListNothingType DEF ListInv, ListAboutRows
    <2>5. ListGrows  BY <1>2 DEF ListReverts, ListGrows
    <2>6. \A j \in ListItems : /\ listCache'[j].ver <= listRows[j].ver
                               /\ listFetch'.rows[j].ver <= listRows[j].ver
      BY <1>2 DEF ListReverts, ListInv, ListCopiesAreOld
    <2>7. \A c \in listCalls' : \E d \in listCalls : ListSame(c, d)
      BY <1>2 DEF ListReverts, ListSame
    <2>8. \A r \in listRuns' : r \in listRuns \/ r.revert  BY <2>1
    <2>9. ListUndoIsReal'  BY <1>0, ListNoUndoReal
    <2> QED  BY <2>3, <2>4, <2>5, <2>6, <2>7, <2>8, <2>9, ListInvKept DEF ListRunIsReal
  <1> QED
    BY <1>1, <1>2, ListRunUndoMutates DEF ListInv

\* The query, and what changes only the page.
LEMMA ListQuietStep ==
    ASSUME ListInv,
           \/ ListClick \/ UNCHANGED listVars
           \/ /\ UNCHANGED listClicks
              /\ ListServe \/ ListFetched \/ ListUndoGone \/ ListCloseDrawer
    PROVE  ListInv'
  <1>0. /\ listFetch \in ListQuery /\ listPage \in ListChoices /\ listRows \in ListRows
        /\ listActs \in 0..ListActs /\ listClicks \in 0..ListClicks /\ listStale \in BOOLEAN
    BY DEF ListInv, ListTypeOK, ListQuery, ListChoices, ListRows
  <1>1. CASE ListClick
    <2>1. listClicks' \in 0..ListClicks  BY <1>0, <1>1, ListAssumption DEF ListClick
    <2>2. UNCHANGED <<listRows, listCache, listFetch, listStale, listCalls, listRuns, listActs,
                      listUndo>>
      BY <1>1 DEF ListClick, ListRowClick, ListSetView, ListSelectMode
    <2>3. listPage' \in ListChoices
      <3>1. CASE ListRowClick
        <4>1. PICK i \in ListItems :
                \/ listPage' = [listPage EXCEPT !.open = i]
                \/ \E picked \in {listPage.picked \ {i}, listPage.picked \cup {i}} :
                      listPage' = [listPage EXCEPT !.picked = picked]
          BY <1>0, <3>1 DEF ListRowClick, ListPick, ListOpenRow, ListVisible, ListChoices
        <4> QED  BY <1>0, <4>1 DEF ListChoices
      <3>2. CASE ListSetView  BY <1>0, <3>2 DEF ListSetView, ListChoices
      <3>3. CASE ListSelectMode  BY <1>0, <3>3 DEF ListSelectMode, ListUnselected, ListChoices
      <3> QED  BY <1>1, <3>1, <3>2, <3>3 DEF ListClick
    <2> QED  BY <1>0, <2>1, <2>2, <2>3, ListPageStep
  <1>2. CASE UNCHANGED listClicks /\ ListServe
    <2>1. listFetch' \in ListQuery /\ listFetch'.rows = listRows
      BY <1>0, <1>2 DEF ListServe, ListQuery
    <2> QED  BY <1>0, <1>2, <2>1, ListPageStep DEF ListServe
  <1>3. CASE UNCHANGED listClicks /\ ListFetched
    BY <1>0, <1>3, ListNothingType, ListPageStep DEF ListFetched, ListQuery
  <1>4. CASE UNCHANGED listClicks /\ ListUndoGone
    BY <1>0, <1>4, ListPageStep DEF ListUndoGone
  <1>5. CASE UNCHANGED listClicks /\ ListCloseDrawer
    <2>1. listPage' \in ListChoices
      BY <1>0, <1>5 DEF ListCloseDrawer, ListOpenRow, ListChoices
    <2> QED  BY <1>0, <1>5, <2>1, ListPageStep DEF ListCloseDrawer
  <1>6. CASE UNCHANGED listVars
    BY <1>0, <1>6, ListPageStep DEF listVars
  <1> QED  BY <1>1, <1>2, <1>3, <1>4, <1>5, <1>6

LEMMA ListStep ==
    ASSUME ListInv, [ListNext]_listVars
    PROVE  ListInv'
  <1>1. CASE ListClick \/ UNCHANGED listVars  BY <1>1, ListQuietStep
  <1>2. CASE /\ UNCHANGED listClicks
             /\ \E call \in listCalls :
                    ListHandle(call) \/ ListSucceeded(call) \/ ListFailed(call)
    BY <1>2, ListHandleStep, ListSucceededStep, ListFailedStep
  <1>3. CASE /\ UNCHANGED listClicks
             /\ \E run \in listRuns : ListBatchStep(run) \/ ListBatchEnd(run)
    BY <1>3, ListBatchStepStep, ListBatchEndStep
  <1>4. CASE /\ UNCHANGED listClicks
             /\ ListServe \/ ListFetched \/ ListUndoGone \/ ListCloseDrawer
    BY <1>4, ListQuietStep
  <1>5. CASE /\ UNCHANGED listClicks
             /\ ListElsewhere \/ ListBatchClick \/ ListRunUndo
    BY <1>5, ListElsewhereStep, ListBatchClickStep, ListRunUndoStep
  <1>6. CASE /\ UNCHANGED listClicks
             /\ ListToggleClick \/ ListSkipClick \/ ListArchiveClick \/ ListDrawerClick
    BY <1>6, ListButtonStep
  <1> QED  BY <1>1, <1>2, <1>3, <1>4, <1>5, <1>6 DEF ListNext

LEMMA ListInitInv == ListInit => ListInv /\ ListSync
  <1> SUFFICES ASSUME ListInit PROVE ListInv /\ ListSync
    OBVIOUS
  <1>1. listRows \in ListRows /\ \A i \in ListItems : listRows[i].ver = 1
    BY DEF ListInit, ListRows, ListRow, ListStatus
  <1>2. ListTypeOK
    <2>1. listActs \in 0..ListActs /\ listClicks \in 0..ListClicks
      BY ListAssumption DEF ListInit
    <2>2. listPage \in ListChoices  BY DEF ListInit, ListChoices
    <2> QED
      BY <1>1, <2>1, <2>2, ListNothingType DEF ListInit, ListTypeOK, ListRows, ListChoices
  <1>3. ListAboutRows /\ ListUndoIsReal
    BY ListNothingType DEF ListInit, ListAboutRows, ListUndoIsReal
  <1>4. ListCopiesAreOld
    <2>1. /\ listCache = listRows /\ listFetch.rows = ListNoRows
          /\ listCalls = {} /\ listRuns = {}
      BY ListNothingType DEF ListInit
    <2>2. \A i \in ListItems : listRows[i].ver = 1 /\ ListNoRows[i].ver = 0
      BY <1>1, ListNothingType
    <2> QED  BY <2>1, <2>2 DEF ListCopiesAreOld
  <1>5. ListSync  BY ListNothingType DEF ListInit, ListSync, ListIdle
  <1> QED  BY <1>2, <1>3, <1>4, <1>5 DEF ListInit, ListInv

\* Rows, copies, requests, batches and the toast keep their types.
THEOREM ListType == ListSpec => []ListTypeOK
  <1>1. ListInv => ListTypeOK  BY DEF ListInv
  <1> QED  BY <1>1, ListInitInv, ListStep, PTL DEF ListSpec

\* Whatever is toggled, batched or written elsewhere, the toast offers to undo only what the
\* server did for this page (pushUndo after the answer, with the version it answered).
THEOREM ListUndoHolds == ListSpec => []ListUndoIsReal
  <1>1. ListInv => ListUndoIsReal  BY DEF ListInv
  <1> QED  BY <1>1, ListInitInv, ListStep, PTL DEF ListSpec

-----------------------------------------------------------------------------
(* The list: the page ends up with the server's rows                       *)

\* A step that asks again, or that the tab is not told the end of.
LEMMA ListUnsynced ==
    ASSUME listFetch'.at = "asked" \/ ~ListTold'
    PROVE  ListSync'
  BY DEF ListSync

\* A step that leaves rows, copies and batches alone, and brings no news of a request.
LEMMA ListUntouched ==
    ASSUME ListSync, UNCHANGED <<listRows, listCache, listFetch, listStale, listRuns>>,
           \A d \in listCalls : (d.op # "toggle" /\ d.at # "ok") \/ d \in listCalls'
                                \/ \E c \in listCalls' : ListSame(c, d)
    PROVE  ListSync'
  <1>1. ListTold' => ListTold
    <2> SUFFICES ASSUME ListTold', NEW d \in listCalls
                 PROVE  d.op # "toggle" /\ d.at # "ok"
      BY DEF ListTold
    <2> QED  BY DEF ListTold, ListSame
  <1> QED  BY <1>1 DEF ListSync

\* A mutate shows a toggle at once, and asks when it has settled.
LEMMA ListSendSync ==
    ASSUME ListTypeOK, ListSync, NEW op \in ListOps, NEW item \in ListItems, NEW ver \in Nat,
           NEW next \in ListStatus, NEW then \in ListThens, NEW was \in ListStatus,
           \/ op = "toggle" /\ ListToggled(item, ver, next, then, was)
           \/ ListAsked(op, item, ver, next, then, was)
    PROVE  ListSync'
  <1>1. /\ \E c \in listCalls' : c.op = op /\ c.at = "sent"
        /\ \A d \in listCalls : \E c \in listCalls' : ListSame(c, d)
    BY ListSentType DEF ListToggled, ListAsked
  <1>2. CASE op = "toggle"
    <2>1. ~ListTold'  BY <1>1, <1>2 DEF ListTold
    <2> QED  BY <2>1, ListUnsynced
  <1>3. CASE op # "toggle"
    <2>1. UNCHANGED <<listRows, listCache, listFetch, listStale, listRuns>>
      BY <1>3 DEF ListAsked
    <2> QED  BY <1>1, <2>1, ListUntouched
  <1> QED  BY <1>2, <1>3

\* An answer asks again; a refusal of anything but a toggle changed no row, and a lost answer
\* to it is what the page is not told of.
LEMMA ListHandleSync ==
    ASSUME ListTypeOK, ListSync, NEW call \in listCalls, ListHandle(call)
    PROVE  ListSync'
  <1>0. call \in ListCall  BY DEF ListTypeOK
  <1> DEFINE row == listRows[call.item]
             ok == ListAccepts(call.op, row, call.ver, call.next)
             new == ListWritten(call.op, row, call.next)
  <1>1. PICK lost \in BOOLEAN :
          /\ lost => ok
          /\ listRows' = IF ok THEN [listRows EXCEPT ![call.item] = new] ELSE listRows
          /\ listCalls' = (listCalls \ {call}) \cup
                {[call EXCEPT !.at = IF ok /\ ~lost THEN "ok" ELSE "bad",
                              !.ver = IF ok THEN new.ver ELSE call.ver]}
          /\ listStale' = (listStale \/ (lost /\ call.op # "toggle"))
    BY DEF ListHandle
  <1> DEFINE at == IF ok /\ ~lost THEN "ok" ELSE "bad"
             ver == IF ok THEN new.ver ELSE call.ver
             after == [call EXCEPT !.at = at, !.ver = ver]
  <1>2. /\ listCalls' = (listCalls \ {call}) \cup {after}
        /\ after.op = call.op /\ after.at = at
    BY <1>0, <1>1 DEF ListCall
  <1>3. CASE call.op = "toggle" \/ (ok /\ ~lost) \/ lost
    <2>1. after \in listCalls' /\ (after.op = "toggle" \/ after.at = "ok" \/ listStale')
      BY <1>1, <1>2, <1>3
    <2>2. ~ListTold'
      <3> DEFINE it == after
      <3> HIDE DEF after
      <3> QED  BY <2>1 DEF ListTold
    <2> QED  BY <2>2, ListUnsynced
  <1>4. CASE call.op # "toggle" /\ ~ok
    <2>1. call.at = "sent"  BY DEF ListHandle
    <2>2. UNCHANGED <<listRows, listCache, listFetch, listRuns>> /\ listStale' = listStale
      BY <1>1, <1>4 DEF ListHandle, ListTypeOK
    <2>3. \A d \in listCalls : (d.op # "toggle" /\ d.at # "ok") \/ d \in listCalls'
      BY <1>2, <1>4, <2>1
    <2> QED  BY <2>2, <2>3, ListUntouched
  <1> QED  BY <1>3, <1>4

LEMMA ListSyncStep ==
    ASSUME ListTypeOK, ListAboutRows, ListSync, [ListNext]_listVars
    PROVE  ListSync'
  <1>1. CASE \E call \in listCalls : ListHandle(call)  BY <1>1, ListHandleSync
  <1>2. CASE \E call \in listCalls : ListSucceeded(call)
    <2>1. listFetch'.at = "asked"  BY <1>2 DEF ListSucceeded, ListAsk
    <2> QED  BY <2>1, ListUnsynced
  <1>3. ASSUME NEW call \in listCalls, ListFailed(call)
        PROVE  ListSync'
    <2>1. CASE call.op = "toggle"
      <3>1. listFetch'.at = "asked"  BY <1>3, <2>1 DEF ListFailed, ListAsk
      <3> QED  BY <3>1, ListUnsynced
    <2>2. CASE call.op # "toggle"
      <3>1. call.at = "bad"  BY <1>3 DEF ListFailed
      <3>2. UNCHANGED <<listRows, listCache, listFetch, listStale, listRuns>>
        BY <1>3, <2>2 DEF ListFailed
      <3>3. \A d \in listCalls : (d.op # "toggle" /\ d.at # "ok") \/ d \in listCalls'
        BY <1>3, <2>2, <3>1 DEF ListFailed
      <3> QED  BY <3>2, <3>3, ListUntouched
    <2> QED  BY <2>1, <2>2
  <1>4. CASE (\E run \in listRuns : ListBatchStep(run)) \/ ListBatchClick
    <2>1. listRuns' # {}  BY <1>4 DEF ListBatchStep, ListBatchClick
    <2> QED  BY <2>1, ListUnsynced DEF ListTold
  <1>5. CASE \E run \in listRuns : ListBatchEnd(run)
    <2>1. listFetch'.at = "asked"  BY <1>5 DEF ListBatchEnd, ListAsk
    <2> QED  BY <2>1, ListUnsynced
  <1>6. CASE ListServe  BY <1>6 DEF ListServe, ListSync
  <1>7. CASE ListFetched
    <2>1. ListTold' => ListTold  BY <1>7 DEF ListFetched, ListTold
    <2> QED  BY <1>7, <2>1 DEF ListFetched, ListSync, ListIdle
  <1>8. CASE ListElsewhere
    <2>1. listStale' \/ listFetch'.at = "asked"  BY <1>8 DEF ListElsewhere
    <2> QED  BY <2>1, ListUnsynced DEF ListTold
  <1>9. CASE \/ ListClick \/ ListUndoGone \/ ListCloseDrawer \/ UNCHANGED listVars
    <2>1. UNCHANGED <<listRows, listCache, listFetch, listStale, listRuns, listCalls>>
      BY <1>9 DEF ListClick, ListRowClick, ListSetView, ListSelectMode, ListUndoGone,
                  ListCloseDrawer, listVars
    <2> QED  BY <2>1, ListUntouched
  <1>10. CASE ListToggleClick \/ ListSkipClick \/ ListArchiveClick \/ ListDrawerClick \/ ListRunUndo
    <2>1. ListMutates \/ listRuns' # {}
      BY <1>10, ListButtonMutates, ListRunUndoMutates DEF ListReverts
    <2>2. CASE ListMutates  BY <2>2, ListSendSync DEF ListMutates
    <2>3. CASE listRuns' # {}  BY <2>3, ListUnsynced DEF ListTold
    <2> QED  BY <2>1, <2>2, <2>3
  <1> QED
    BY <1>1, <1>2, <1>3, <1>4, <1>5, <1>6, <1>7, <1>8, <1>9, <1>10 DEF ListNext

\* With nothing under way, the page shows the rows of the server: a toggle that fails puts
\* its list back and asks again, and whatever else the page does asks when it has ended.
THEOREM ListSettlesRight == ListSpec => []ListSettles
  <1>1. ListInv => ListTypeOK /\ ListAboutRows  BY DEF ListInv
  <1>2. ListSync => ListSettles  BY DEF ListSync, ListTold, ListSettles, ListSettled
  <1> QED  BY <1>1, <1>2, ListInitInv, ListStep, ListSyncStep, PTL DEF ListSpec
=============================================================================
