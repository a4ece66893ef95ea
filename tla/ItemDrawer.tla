----------------------------- MODULE ItemDrawer -----------------------------
(***************************************************************************)
(* The drawer of an item, WorkItemDrawer or PersonalItemDrawer: a draft of *)
(* the item as the list last had it, the reminder that a query of its own  *)
(* fills in, the tags picked or created meanwhile, and the save that       *)
(* patches the item and then writes the reminder (useItemActions). Effects *)
(* run after every render whose item or reminder changed; here a render    *)
(* and its effects are one step, so no click falls in the moment between   *)
(* them. Others write the items as well.                                   *)
(***************************************************************************)
EXTENDS Naturals, FiniteSets

CONSTANTS
    DrawerItems,   \* items of the page
    DrawerNone,    \* no item, no draft, no tag set
    DrawerActs     \* bound: gestures in the form, requests, writes of others

ASSUME DrawerAssumption == DrawerNone \notin DrawerItems

VARIABLES
    drawerRows,    \* the server's items: their versions
    drawerBell,    \* the server's reminders: the items that have one
    drawerList,    \* the list's data
    drawerFetch,   \* the list's query: idle, asked, or answered with rows
    drawerRings,   \* item -> the reminder query's data
    drawerAsked,   \* items whose reminder query is under way
    drawerForm,    \* item shown, draft, reminderTouched, tagIds
    drawerCalls,   \* requests under way
    drawerActs,    \* bound counter for DrawerActs
    drawerLost     \* history: an accepted save overwrote a version it had not seen

drawerVars == <<drawerRows, drawerBell, drawerList, drawerFetch, drawerRings, drawerAsked,
                drawerForm, drawerCalls, drawerActs, drawerLost>>

DrawerRing == {"unknown", "off", "on"}
\* The draft: the version it was made from, whether it can be submitted, its reminder; tags
\* is the version whose tags tagIds starts from, 0 for null.  meant and stray are history:
\* the user touched the reminder of this item since its draft was started, and tagIds
\* starts from what an earlier render showed.
DrawerForm == [item : DrawerItems \cup {DrawerNone}, base : Nat, fit : BOOLEAN,
               ring : BOOLEAN, touched : BOOLEAN, tags : Nat, meant : BOOLEAN,
               stray : BOOLEAN]
DrawerCall == [op : {"save", "patch", "tag"}, item : DrawerItems, ver : Nat,
               base : Nat, tags : Nat, touched : BOOLEAN, ring : BOOLEAN, meant : BOOLEAN,
               stray : BOOLEAN, at : {"sent", "patched", "ok", "bad"}]

-----------------------------------------------------------------------------
(* What the drawer renders                                                 *)

\* The page's invalidation: the list is asked for again.
DrawerAskList == drawerFetch' = [at |-> "asked", rows |-> drawerList]

\* draftFromItem: the reminder is off until the query says otherwise.
DrawerDraft(form, i, rows) ==
    [form EXCEPT !.item = i, !.base = rows[i], !.fit = TRUE, !.ring = FALSE,
                 !.touched = FALSE, !.tags = 0, !.meant = FALSE, !.stray = FALSE]

\* The first effect: another item, or another version of it, starts a new draft.
DrawerKeepsTouched(form, i, rows) ==
    IF form.item # i \/ drawerList[i] # rows[i]
    THEN [DrawerDraft(form, i, rows) EXCEPT !.touched = form.touched] ELSE form
DrawerReset(form, i, rows) ==
    IF form.item # i \/ drawerList[i] # rows[i] THEN DrawerDraft(form, i, rows) ELSE form

\* The second one: a reminder that is new to the drawer, or that was touched until now, is
\* filled into the draft.
DrawerFill(form, i, rings) ==
    IF /\ rings[i] = "on"
       /\ \/ ~drawerForm.touched /\ (drawerForm.item # i \/ drawerRings[i] # rings[i])
          \/ drawerForm.touched /\ ~form.touched
    THEN [form EXCEPT !.ring = TRUE] ELSE form

DrawerNoForm == [item |-> DrawerNone, base |-> 0, fit |-> TRUE, ring |-> FALSE,
                 touched |-> FALSE, tags |-> 0, meant |-> FALSE, stray |-> FALSE]

\* A render with item i, or without a drawer.
DrawerRender(i, rows, rings) ==
    drawerForm' =
        IF i = DrawerNone
        THEN DrawerNoForm
        ELSE DrawerFill(DrawerReset(drawerForm, i, rows), i, rings)

\* Opening an item mounts its reminder query, which asks at once.
DrawerOpen ==
    /\ \E i \in DrawerItems \ {drawerForm.item} :
           /\ DrawerRender(i, drawerList, drawerRings)
           /\ drawerAsked' = drawerAsked \cup {i}
    /\ UNCHANGED <<drawerRows, drawerBell, drawerList, drawerFetch, drawerRings, drawerCalls,
                   drawerActs, drawerLost>>

\* Closing unmounts the form, and with it what its own mutation, createTag, does later; the
\* saves are the page's.
DrawerClose ==
    /\ drawerForm.item # DrawerNone
    /\ DrawerRender(DrawerNone, drawerList, drawerRings)
    /\ drawerCalls' = {c \in drawerCalls : c.op # "tag"}
    /\ UNCHANGED <<drawerRows, drawerBell, drawerList, drawerFetch, drawerRings, drawerAsked,
                   drawerActs, drawerLost>>

DrawerServe ==
    /\ drawerFetch.at = "asked"
    /\ drawerFetch' = [at |-> "answered", rows |-> drawerRows]
    /\ UNCHANGED <<drawerRows, drawerBell, drawerList, drawerRings, drawerAsked, drawerForm,
                   drawerCalls, drawerActs, drawerLost>>

\* The list's data is shared structurally: a row that did not change is the same object.
DrawerListed ==
    /\ drawerFetch.at = "answered"
    /\ drawerList' = drawerFetch.rows
    /\ drawerFetch' = [drawerFetch EXCEPT !.at = "idle"]
    /\ DrawerRender(drawerForm.item, drawerList', drawerRings)
    /\ UNCHANGED <<drawerRows, drawerBell, drawerRings, drawerAsked, drawerCalls, drawerActs,
                   drawerLost>>

\* getReminder: 404 is no reminder.
DrawerRang ==
    /\ \E i \in drawerAsked :
           /\ drawerAsked' = drawerAsked \ {i}
           /\ drawerRings' = [drawerRings EXCEPT ![i] = IF i \in drawerBell THEN "on" ELSE "off"]
    /\ DrawerRender(drawerForm.item, drawerList, drawerRings')
    /\ UNCHANGED <<drawerRows, drawerBell, drawerList, drawerFetch, drawerCalls, drawerActs,
                   drawerLost>>

-----------------------------------------------------------------------------
(* What the user does                                                      *)

DrawerShown == drawerForm.item # DrawerNone

DrawerAct == drawerActs < DrawerActs /\ drawerActs' = drawerActs + 1

\* Any field of the form; an empty title and dates out of order cannot be submitted.
DrawerEdit ==
    /\ DrawerShown
    /\ drawerForm' = [drawerForm EXCEPT !.fit = ~@]
    /\ DrawerAct
    /\ UNCHANGED <<drawerRows, drawerBell, drawerList, drawerFetch, drawerRings, drawerAsked,
                   drawerCalls, drawerLost>>

\* The reminder's switch, its offset and its channel.
DrawerTouch ==
    /\ DrawerShown
    /\ \E ring \in BOOLEAN :
           drawerForm' = [drawerForm EXCEPT !.touched = TRUE, !.ring = ring, !.meant = TRUE]
    /\ DrawerAct
    /\ UNCHANGED <<drawerRows, drawerBell, drawerList, drawerFetch, drawerRings, drawerAsked,
                   drawerCalls, drawerLost>>

\* tagIds, or the tags of the item as it is shown while they are null.
DrawerTagBase(form) == IF form.tags = 0 THEN drawerList[form.item] ELSE form.tags

\* toggleTag of the picker.
DrawerToggleTag ==
    /\ DrawerShown
    /\ drawerForm' = [drawerForm EXCEPT !.tags = DrawerTagBase(drawerForm)]
    /\ DrawerAct
    /\ UNCHANGED <<drawerRows, drawerBell, drawerList, drawerFetch, drawerRings, drawerAsked,
                   drawerCalls, drawerLost>>

DrawerRequest(op, ver, tags, touched, ring) ==
    [op |-> op, item |-> drawerForm.item, ver |-> ver,
     base |-> IF op = "save" THEN drawerForm.base ELSE ver, tags |-> tags,
     touched |-> touched, ring |-> ring, meant |-> drawerForm.meant,
     stray |-> op = "save" /\ drawerForm.stray, at |-> "sent"]

DrawerSend(request) ==
    /\ DrawerShown /\ DrawerAct
    /\ drawerCalls' = drawerCalls \cup {request}
    /\ UNCHANGED <<drawerRows, drawerBell, drawerList, drawerFetch, drawerRings, drawerAsked,
                   drawerForm, drawerLost>>

DrawerSaving == \E c \in drawerCalls : c.op # "tag"

\* submit: the draft, with the version of the item as the list has it now.
DrawerSave ==
    DrawerShown /\ drawerForm.fit /\ ~DrawerSaving
    /\ DrawerSend(DrawerRequest("save", drawerList[drawerForm.item], drawerForm.tags,
                                drawerForm.touched, drawerForm.ring))

\* The footer's status buttons and, while nothing is saved, the new dates.
DrawerPatch ==
    DrawerShown
    /\ DrawerSend(DrawerRequest("patch", drawerList[drawerForm.item], 0, FALSE, FALSE))

\* The picker's new tag; nothing waits for an earlier one.  The mutation hook gives each
\* render's callback to the creation it watches, the last; one that is overtaken keeps the
\* callback, and so the item, of the render before.
DrawerOvertaken(call) ==
    IF call.op = "tag" /\ call.ver = 0
    THEN [call EXCEPT !.item = drawerForm.item, !.ver = drawerList[drawerForm.item]]
    ELSE call

DrawerCreateTag ==
    /\ DrawerShown /\ DrawerAct
    /\ drawerCalls' = {DrawerOvertaken(call) : call \in drawerCalls}
                       \cup {DrawerRequest("tag", 0, 0, FALSE, FALSE)}
    /\ UNCHANGED <<drawerRows, drawerBell, drawerList, drawerFetch, drawerRings, drawerAsked,
                   drawerForm, drawerLost>>

-----------------------------------------------------------------------------
(* Requests                                                                *)

DrawerTo(call, at) == drawerCalls' = (drawerCalls \ {call}) \cup {[call EXCEPT !.at = at]}

\* patch_item's WHERE names the version; a server that took any would lose updates.
DrawerAnyVersion(call) == FALSE
DrawerConflict(call) == drawerRows[call.item] # call.ver

\* patchItem; a save may replace the tags.
DrawerHandle(call) ==
    /\ call.at = "sent"
    /\ IF call.op = "tag"
       THEN DrawerTo(call, "ok") /\ UNCHANGED <<drawerRows, drawerLost>>
       ELSE IF DrawerConflict(call)
       THEN DrawerTo(call, "bad") /\ UNCHANGED <<drawerRows, drawerLost>>
       ELSE /\ drawerRows' = [drawerRows EXCEPT ![call.item] = @ + 1]
            /\ drawerLost' =
                  (drawerLost
                   \/ call.base # drawerRows[call.item]
                   \/ (~call.stray /\ call.tags \notin {0, drawerRows[call.item]}))
            /\ DrawerTo(call, IF call.touched THEN "patched" ELSE "ok")
    /\ UNCHANGED <<drawerBell, drawerList, drawerFetch, drawerRings, drawerAsked, drawerForm,
                   drawerActs>>

\* putReminder or deleteReminder after the patch, and the reminder is asked for again; when
\* it fails the save has failed, with its patch done.
DrawerPutReminder(call) ==
    /\ call.at = "patched"
    /\ \/ /\ drawerBell' = IF call.ring THEN drawerBell \cup {call.item}
                         ELSE drawerBell \ {call.item}
          /\ drawerAsked' = drawerAsked \cup {call.item}
          /\ DrawerTo(call, "ok")
       \/ DrawerTo(call, "bad") /\ UNCHANGED <<drawerBell, drawerAsked>>
    /\ UNCHANGED <<drawerRows, drawerList, drawerFetch, drawerRings, drawerForm, drawerActs,
                   drawerLost>>

\* onSaved: the drawer shows the saved item, whatever was opened or closed meanwhile, and
\* the list is asked for again.
DrawerSaved(call) ==
    /\ call.at = "ok" /\ call.op # "tag"
    /\ drawerCalls' = drawerCalls \ {call}
    /\ DrawerRender(call.item, drawerList, drawerRings)
    /\ drawerAsked' = IF drawerForm.item = call.item THEN drawerAsked
                      ELSE drawerAsked \cup {call.item}
    /\ DrawerAskList
    /\ UNCHANGED <<drawerRows, drawerBell, drawerList, drawerRings, drawerActs, drawerLost>>

\* createTag's onSuccess adds the tag to tagIds, or to the tags of the item it knows: of
\* the last creation that is the one shown by then, of an overtaken one an earlier render's.
DrawerStrays(call) ==
    /\ drawerForm.tags = 0 /\ call.ver # 0
    /\ call.item # drawerForm.item \/ call.ver # drawerList[drawerForm.item]

DrawerTagged(call) ==
    /\ call.at = "ok" /\ call.op = "tag" /\ DrawerShown
    /\ drawerCalls' = drawerCalls \ {call}
    /\ drawerForm' = [drawerForm EXCEPT
          !.tags = IF DrawerStrays(call) THEN call.ver ELSE DrawerTagBase(drawerForm),
          !.stray = @ \/ DrawerStrays(call)]
    /\ UNCHANGED <<drawerRows, drawerBell, drawerList, drawerFetch, drawerRings, drawerAsked,
                   drawerActs, drawerLost>>

DrawerRefused(call) ==
    /\ call.at = "bad"
    /\ drawerCalls' = drawerCalls \ {call}
    /\ UNCHANGED <<drawerRows, drawerBell, drawerList, drawerFetch, drawerRings, drawerAsked,
                   drawerForm, drawerActs, drawerLost>>

\* Somebody else writes an item; or the page asks for the list again.
DrawerElsewhere ==
    /\ DrawerAct
    /\ \E i \in DrawerItems : drawerRows' = [drawerRows EXCEPT ![i] = @ + 1]
    /\ UNCHANGED <<drawerBell, drawerList, drawerFetch, drawerRings, drawerAsked, drawerForm,
                   drawerCalls, drawerLost>>

DrawerRefetch ==
    /\ drawerFetch.at = "idle" /\ DrawerAskList
    /\ UNCHANGED <<drawerRows, drawerBell, drawerList, drawerRings, drawerAsked, drawerForm,
                   drawerCalls, drawerActs, drawerLost>>

-----------------------------------------------------------------------------
(* Specification                                                           *)

DrawerInit ==
    /\ drawerRows = [i \in DrawerItems |-> 1]
    /\ drawerBell \in SUBSET DrawerItems
    /\ drawerList = drawerRows
    /\ drawerFetch = [at |-> "idle", rows |-> drawerRows]
    /\ drawerRings = [i \in DrawerItems |-> "unknown"]
    /\ drawerAsked = {}
    /\ drawerForm = DrawerNoForm
    /\ drawerCalls = {}
    /\ drawerActs = 0
    /\ drawerLost = FALSE

DrawerNext ==
    \/ DrawerOpen \/ DrawerClose \/ DrawerServe \/ DrawerListed \/ DrawerRang
    \/ DrawerEdit \/ DrawerTouch \/ DrawerToggleTag
    \/ DrawerSave \/ DrawerPatch \/ DrawerCreateTag
    \/ DrawerElsewhere \/ DrawerRefetch
    \/ \E call \in drawerCalls :
           \/ DrawerHandle(call) \/ DrawerPutReminder(call)
           \/ DrawerSaved(call) \/ DrawerTagged(call) \/ DrawerRefused(call)

DrawerSpec == DrawerInit /\ [][DrawerNext]_drawerVars

-----------------------------------------------------------------------------
(* Properties                                                              *)

DrawerTypeOK ==
    /\ drawerRows \in [DrawerItems -> Nat]
    /\ drawerBell \subseteq DrawerItems
    /\ drawerList \in [DrawerItems -> Nat]
    /\ drawerFetch \in [at : {"idle", "asked", "answered"}, rows : [DrawerItems -> Nat]]
    /\ drawerRings \in [DrawerItems -> DrawerRing]
    /\ drawerAsked \subseteq DrawerItems
    /\ drawerForm \in DrawerForm
    /\ drawerCalls \subseteq DrawerCall
    /\ drawerActs \in Nat
    /\ drawerLost \in BOOLEAN

\* A save that the server accepts was written over the version it replaces: a draft never
\* outlives the version of the item it was made from (the reset on [item] against the
\* version check of the patch), whatever is answered, refetched or opened meanwhile.  The
\* tags that are saved with it are that version's too, but for one case: tagIds that an
\* overtaken creation of a tag started from the tags of an earlier render.
DrawerNoLostUpdate == ~drawerLost

\* A save writes or deletes a reminder only when the user touched it on the item that is
\* saved, after the drawer last started a draft of it: reminderTouched never leaks from one
\* item, or one draft, to the next.
DrawerTouchIsMeant == \A call \in drawerCalls : call.touched => call.meant

=============================================================================
