----------------------------- MODULE InboxPage -----------------------------
(***************************************************************************)
(* InboxPage: the deck of the proposals agents have made (AgentProposalDeck) *)
(* and the list of the items nobody has put in their place yet.  Both show  *)
(* cached answers, which the page's own requests invalidate; agents and     *)
(* other clients decide, propose and write items meanwhile.                 *)
(***************************************************************************)
EXTENDS Naturals

CONSTANTS
    BoxProposals,   \* ids of proposals; the item that one creates has its id
    BoxItems,       \* ids of the items that were captured into the inbox
    BoxNone,        \* no request, no card, no item
    BoxClicks,      \* bound: requests of the page
    BoxElsewhere    \* bound: writes of agents and other clients

BoxIds == BoxProposals \cup BoxItems

ASSUME BoxAssumption == BoxNone \notin BoxIds /\ BoxClicks \in Nat /\ BoxElsewhere \in Nat

\* "planned" stands for every status but inbox, "deleted" for a row in the trash;
\* items that are archived are left out.
BoxRow == [status : {"unborn", "inbox", "planned", "deleted"}, version : Nat]

\* The requests of the page, one of a kind at a time: "decide" is the deck's mutation,
\* "triage" and "remove" are the list's, "save" and "delete" the drawer's.
BoxKinds == {"decide", "triage", "remove", "save", "delete"}
BoxCall == [what : {"approve", "refuse"} \cup BoxKinds, id : BoxIds, version : Nat,
            at : {"sent", "done", "failed"}]

VARIABLES
    boxTable,     \* agent_proposals: proposal -> state
    boxTarget,    \* proposal -> the item it creates or patches
    boxRows,      \* items: item -> row
    boxDeck,      \* the cached pending proposals, and the query behind them
    boxList,      \* the cached items, and the query behind them
    boxEditing,   \* editingId of the deck
    boxSelected,  \* selectedItemId of the page
    boxCalls,     \* kind -> its request
    boxClicked, boxWritten,  \* bound counters
    boxTold,      \* history: proposals the page was told are decided
    boxSeen       \* history: item -> the version the page was told it has now

boxServer  == <<boxTable, boxRows>>
boxHistory == <<boxTold, boxSeen>>
boxVars == <<boxServer, boxTarget, boxDeck, boxList, boxEditing, boxSelected, boxCalls,
             boxClicked, boxWritten, boxHistory>>

\* A query of the page: how far its fetch is, what it shows and what an answer in hand has.
BoxQueries(Rows) ==
    [at : {"idle", "asked", "read"}, loaded : BOOLEAN, shown : Rows, read : Rows]

BoxTypeOK ==
    /\ boxTable \in [BoxProposals -> {"none", "pending", "approved", "refused"}]
    /\ boxTarget \in [BoxProposals -> BoxIds]
    /\ boxRows \in [BoxIds -> BoxRow]
    /\ boxDeck \in BoxQueries(SUBSET BoxProposals)
    /\ boxList \in BoxQueries({boxList.shown, boxList.read})
    /\ \A rows \in {boxList.shown, boxList.read} :
           DOMAIN rows \subseteq BoxIds /\ rows \in [DOMAIN rows -> BoxRow]
    /\ boxEditing \in BoxProposals \cup {BoxNone}
    /\ boxSelected \in BoxIds \cup {BoxNone}
    /\ boxCalls \in [BoxKinds -> BoxCall \cup {BoxNone}]
    /\ boxClicked \in 0..BoxClicks /\ boxWritten \in 0..BoxElsewhere
    /\ boxTold \subseteq BoxProposals /\ boxSeen \in [BoxIds -> Nat]

-----------------------------------------------------------------------------
(* The server                                                              *)

\* GET /agent-proposals?state=pending
BoxPending == {p \in BoxProposals : boxTable[p] = "pending"}

\* GET /items of either scope, archived ones included
BoxAlive == [i \in {j \in BoxIds : boxRows[j].status \in {"inbox", "planned"}} |-> boxRows[i]]

BoxStored(i, status) ==
    boxRows' = [boxRows EXCEPT ![i] = [status |-> status, version |-> @.version + 1]]

\* LEGAL_TRANSITIONS: nothing goes back to the inbox.
BoxLater(status) == IF status = "inbox" THEN {"inbox", "planned"} ELSE {status}

\* approve of a pending proposal: it creates its item, or patches its target,
\* in the trash too.
BoxApplies(p) ==
    /\ boxTable[p] = "pending"
    /\ boxTable' = [boxTable EXCEPT ![p] = "approved"]
    /\ LET i == boxTarget[p]
       IN  \E s \in IF boxRows[i].status = "unborn" THEN {"inbox", "planned"}
                    ELSE BoxLater(boxRows[i].status) : BoxStored(i, s)

BoxRefuses(p) ==
    /\ boxTable[p] = "pending"
    /\ boxTable' = [boxTable EXCEPT ![p] = "refused"]
    /\ UNCHANGED boxRows

\* What a request of the page does if the server accepts it.  A proposal that
\* was approved before is answered as it is.  A PATCH asks for the version that
\* was shown, a DELETE for none.  (A triage also sends the scope it was clicked
\* for, which ItemPatch does not know and drops.)
BoxAccepted(call) ==
    LET row == boxRows[call.id]
    IN  CASE call.what = "approve" ->
               \/ BoxApplies(call.id)
               \/ boxTable[call.id] = "approved" /\ UNCHANGED boxServer
          [] call.what = "refuse" -> BoxRefuses(call.id)
          [] call.what \in {"remove", "delete"} ->
               /\ row.status # "deleted"
               /\ BoxStored(call.id, "deleted") /\ UNCHANGED boxTable
          [] call.what = "triage" ->
               /\ row.version = call.version
               /\ BoxStored(call.id, "planned") /\ UNCHANGED boxTable
          [] call.what = "save" ->
               /\ row.version = call.version
               /\ \E s \in BoxLater(row.status) : BoxStored(call.id, s)
               /\ UNCHANGED boxTable

-----------------------------------------------------------------------------
(* The queries of the page                                                 *)

\* invalidateQueries asks again, and drops the answer of a fetch that runs; but
\* the first fetch of a query, which has no data to show, is left to finish.
BoxAsked(query) ==
    IF query.loaded THEN [query EXCEPT !.at = "asked", !.read = query.shown] ELSE query

\* invalidateAll: the items, not the proposals.
BoxInvalidateItems == boxList' = BoxAsked(boxList) /\ UNCHANGED boxDeck

\* onSuccess of the deck.
BoxInvalidateDeck == boxList' = BoxAsked(boxList) /\ boxDeck' = BoxAsked(boxDeck)

BoxQuery(none) == [at |-> "asked", loaded |-> FALSE, shown |-> none, read |-> none]

BoxServed(query, rows) == [query EXCEPT !.at = "read", !.read = rows]

BoxShown(query) ==
    [query EXCEPT !.at = "idle", !.loaded = TRUE, !.shown = query.read]

\* The deck shows every cached proposal, the list the cached items in the inbox.
BoxCards == boxDeck.shown
BoxInbox == {i \in DOMAIN boxList.shown : boxList.shown[i].status = "inbox"}

\* selectedItem: the cached item, if the cache has it.
BoxDrawer == IF boxSelected \in DOMAIN boxList.shown THEN boxSelected ELSE BoxNone

BoxInit ==
    /\ boxTable \in [BoxProposals -> {"none", "pending"}]
    /\ boxTarget \in [BoxProposals -> BoxIds]
    /\ \A p \in BoxProposals : boxTarget[p] \in {p} \cup BoxItems
    /\ boxRows = [i \in BoxIds |-> IF i \in BoxItems THEN [status |-> "inbox", version |-> 1]
                                   ELSE [status |-> "unborn", version |-> 0]]
    /\ boxDeck = BoxQuery({}) /\ boxList = BoxQuery(<<>>)
    /\ boxEditing = BoxNone /\ boxSelected = BoxNone
    /\ boxCalls = [m \in BoxKinds |-> BoxNone]
    /\ boxClicked = 0 /\ boxWritten = 0
    /\ boxTold = {} /\ boxSeen = [i \in BoxIds |-> 0]

-----------------------------------------------------------------------------
(* Clicks                                                                  *)

\* isPending disables the buttons of the same kind.
BoxSend(kind, what, id, version) ==
    /\ boxClicked < BoxClicks
    /\ boxCalls[kind] = BoxNone
    /\ boxCalls' = [boxCalls EXCEPT ![kind] =
           [what |-> what, id |-> id, version |-> version, at |-> "sent"]]
    /\ boxClicked' = boxClicked + 1
    /\ UNCHANGED <<boxServer, boxTarget, boxDeck, boxList, boxEditing, boxSelected,
                   boxWritten, boxHistory>>

\* The card's buttons, or the submit of its form: an edited approval.
BoxDecide(p) ==
    /\ p \in BoxCards
    /\ \/ BoxSend("decide", "approve", p, 0)
       \/ boxEditing # p /\ BoxSend("decide", "refuse", p, 0)

\* Opening the form of a card closes that of another; or the form is cancelled.
BoxEdit ==
    /\ \/ /\ boxCalls["decide"] = BoxNone
          /\ boxEditing' \in BoxCards \ {boxEditing}
       \/ boxEditing \in BoxCards /\ boxEditing' = BoxNone
    /\ UNCHANGED <<boxServer, boxTarget, boxDeck, boxList, boxSelected, boxCalls, boxClicked,
                   boxWritten, boxHistory>>

\* A row of the list: into a scope, or into the trash.
BoxRowClick(i) ==
    /\ i \in BoxInbox
    /\ \E kind \in {"triage", "remove"} :
           BoxSend(kind, kind, i, boxList.shown[i].version)

\* The drawer of an item: a save, a status or a new schedule; or the trash.
BoxDrawerClick(i) ==
    /\ i = BoxDrawer
    /\ \E kind \in {"save", "delete"} :
           BoxSend(kind, kind, i, boxList.shown[i].version)

BoxClose ==
    /\ BoxDrawer # BoxNone
    /\ boxSelected' = BoxNone
    /\ UNCHANGED <<boxServer, boxTarget, boxDeck, boxList, boxEditing, boxCalls, boxClicked,
                   boxWritten, boxHistory>>

-----------------------------------------------------------------------------
(* Requests and answers                                                    *)

\* The request is lost or refused, is carried out and answered, or is carried
\* out and its answer lost.
BoxServe(kind) ==
    /\ boxCalls[kind] # BoxNone /\ boxCalls[kind].at = "sent"
    /\ \/ BoxAccepted(boxCalls[kind])
          /\ \E at \in {"done", "failed"} :
                boxCalls' = [boxCalls EXCEPT ![kind].at = at,
                                             ![kind].version = boxRows'[boxCalls[kind].id].version]
       \/ boxCalls' = [boxCalls EXCEPT ![kind].at = "failed"] /\ UNCHANGED boxServer
    /\ UNCHANGED <<boxTarget, boxDeck, boxList, boxEditing, boxSelected, boxClicked, boxWritten,
                   boxHistory>>

\* onSuccess: a decision closes whichever form is open and opens the item it was
\* applied to; a save opens its item again, a deletion in the drawer closes it.
BoxAnswer(kind) ==
    LET call == boxCalls[kind]
    IN  /\ call # BoxNone /\ call.at = "done"
        /\ boxCalls' = [boxCalls EXCEPT ![kind] = BoxNone]
        /\ IF kind = "decide" THEN BoxInvalidateDeck ELSE BoxInvalidateItems
        /\ boxEditing' = IF kind = "decide" THEN BoxNone ELSE boxEditing
        /\ boxSelected' = CASE call.what = "approve" -> boxTarget[call.id]
                            [] call.what = "save" -> call.id
                            [] call.what = "delete" -> BoxNone
                            [] OTHER -> boxSelected
        /\ boxTold' = IF kind = "decide" THEN boxTold \cup {call.id} ELSE boxTold
        /\ boxSeen' = IF kind = "decide" THEN boxSeen
                       ELSE [boxSeen EXCEPT ![call.id] = call.version]
        /\ UNCHANGED <<boxServer, boxTarget, boxClicked, boxWritten>>

\* onError shows the message and asks nothing again.
BoxFail(kind) ==
    /\ boxCalls[kind] # BoxNone /\ boxCalls[kind].at = "failed"
    /\ boxCalls' = [boxCalls EXCEPT ![kind] = BoxNone]
    /\ UNCHANGED <<boxServer, boxTarget, boxDeck, boxList, boxEditing, boxSelected, boxClicked,
                   boxWritten, boxHistory>>

BoxFetch ==
    /\ \/ boxDeck.at = "asked" /\ boxDeck' = BoxServed(boxDeck, BoxPending) /\ UNCHANGED boxList
       \/ boxList.at = "asked" /\ boxList' = BoxServed(boxList, BoxAlive) /\ UNCHANGED boxDeck
       \/ boxDeck.at = "read" /\ boxDeck' = BoxShown(boxDeck) /\ UNCHANGED boxList
       \/ boxList.at = "read" /\ boxList' = BoxShown(boxList) /\ UNCHANGED boxDeck
    /\ UNCHANGED <<boxServer, boxTarget, boxEditing, boxSelected, boxCalls, boxClicked,
                   boxWritten, boxHistory>>

-----------------------------------------------------------------------------
(* Agents and other clients                                                *)

BoxPropose(p) ==
    /\ boxTable[p] = "none"
    /\ boxTable' = [boxTable EXCEPT ![p] = "pending"]
    /\ UNCHANGED boxRows

BoxWrite(i) ==
    /\ boxRows[i].status \in {"inbox", "planned"}
    /\ \E s \in BoxLater(boxRows[i].status) \cup {"deleted"} : BoxStored(i, s)
    /\ UNCHANGED boxTable

\* The trash gives an item back, as it was: into the inbox or elsewhere.
BoxRestore(i) ==
    /\ boxRows[i].status = "deleted"
    /\ \E s \in {"inbox", "planned"} : BoxStored(i, s)
    /\ UNCHANGED boxTable

BoxOthers ==
    /\ boxWritten < BoxElsewhere
    /\ boxWritten' = boxWritten + 1
    /\ \/ \E p \in BoxProposals : BoxPropose(p) \/ BoxApplies(p) \/ BoxRefuses(p)
       \/ \E i \in BoxIds : BoxWrite(i) \/ BoxRestore(i)
    /\ UNCHANGED <<boxTarget, boxDeck, boxList, boxEditing, boxSelected, boxCalls, boxClicked,
                   boxHistory>>

BoxNext ==
    \/ \E p \in BoxProposals : BoxDecide(p)
    \/ \E i \in BoxIds : BoxRowClick(i) \/ BoxDrawerClick(i)
    \/ \E kind \in BoxKinds : BoxServe(kind) \/ BoxAnswer(kind) \/ BoxFail(kind)
    \/ BoxEdit \/ BoxClose \/ BoxFetch \/ BoxOthers

BoxSpec == BoxInit /\ [][BoxNext]_boxVars

-----------------------------------------------------------------------------
(* Properties                                                              *)

\* The page reads its own writes: once its queries are answered, the deck does not
\* offer a proposal whose decision has gone through, and the list shows no item as
\* it was before a triage, removal or save that has gone through, however fetches,
\* answers and other clients interleave.
BoxReadsItsWrites ==
    /\ boxDeck.at = "idle" => BoxCards \cap boxTold = {}
    /\ boxList.at = "idle" =>
           \A i \in DOMAIN boxList.shown : boxList.shown[i].version >= boxSeen[i]

\* Not so for what an approval makes: an item that was put into the inbox is
\* missing from the list when the decision came before the list's first answer.
BoxShowsApplied ==
    boxDeck.at = "idle" /\ boxList.at = "idle" =>
        \A p \in boxTold : boxRows[boxTarget[p]].status = "inbox" => boxTarget[p] \in BoxInbox
=============================================================================
