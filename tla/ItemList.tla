------------------------------ MODULE ItemList ------------------------------
(***************************************************************************)
(* The two list pages, WorkItemsPage and PersonalItemsPage, with the hooks *)
(* they share: the optimistic toggle, the undo toast, the selection and    *)
(* the batches that run one request after the other. The rows live on the  *)
(* server, which other clients write as well; the page shows its cached    *)
(* copy. Filters and the search are in ItemViews, the form of a drawer in  *)
(* ItemDrawer.                                                             *)
(***************************************************************************)
EXTENDS Naturals
LOCAL INSTANCE FiniteSetsExt

CONSTANTS
    ListItems,   \* items of the scope, numbered in the order of the list
    ListActs,    \* bound: requests and batches started, here or elsewhere
    ListClicks   \* bound: changes of the view, the selection and the drawer

ASSUME ListAssumption ==
    ListItems \subseteq Nat \ {0} /\ ListActs \in Nat /\ ListClicks \in Nat

VARIABLES
    listRows,      \* the rows of the server
    listCache,     \* the query's data: what the page shows
    listFetch,     \* the query: idle, asked, or answered with rows
    listStale,     \* history: a write the tab was not told of, after the last answer
    listCalls,     \* requests under way
    listRuns,      \* batches and their reverts under way
    listActs,      \* bound counter for ListActs
    listUndo,      \* the entry of the undo toast
    listPage,      \* view, selectMode, selectedIds, selectedId
    listClicks     \* bound counter for ListClicks

listVars == <<listRows, listCache, listFetch, listStale, listCalls, listRuns, listActs,
              listUndo, listPage, listClicks>>

\* Statuses told apart: two open ones, of which only one can be reached from done.
ListStatus == {"planned", "waiting", "done"}
ListRow == [ver : Nat, status : ListStatus, archived : BOOLEAN, deleted : BOOLEAN]
ListOps == {"toggle", "patch", "archive", "restore", "delete", "undelete"}
ListCall == [op : ListOps, item : ListItems, ver : Nat, next : ListStatus,
             then : {"none", "toggle", "skip", "archive", "delete"},  \* what it offers to undo
             was : ListStatus, latest : BOOLEAN, previous : [ListItems -> ListRow],
             at : {"sent", "ok", "bad"}]
ListBatches == {"done", "move", "shelve", "tag"}
ListRun == [op : ListBatches, revert : BOOLEAN,
            vers : [ListItems -> Nat], backs : [ListItems -> ListStatus],
            todo : SUBSET ListItems, ok : SUBSET ListItems, bad : SUBSET ListItems]
\* What the closure of an entry remembers: versions, and the statuses to go back to.
ListUndoEntry == [kind : {"none", "toggle", "skip", "archive", "delete"} \cup ListBatches,
                  items : SUBSET ListItems,
                  vers : [ListItems -> Nat], backs : [ListItems -> ListStatus]]

ListNoRows == [i \in ListItems |->
                  [ver |-> 0, status |-> "planned", archived |-> FALSE, deleted |-> FALSE]]

-----------------------------------------------------------------------------
(* The server                                                              *)

ListMoves(from, to) == from = "done" => to \in {"done", "planned"}

\* PATCH needs the version and a legal move of the status; archive and restore always
\* succeed; deleted rows can still be patched.
ListAccepts(op, row, ver, next) ==
    CASE op \in {"toggle", "patch"} -> row.ver = ver /\ ListMoves(row.status, next)
      [] op = "delete"   -> ~row.deleted
      [] op = "undelete" -> row.deleted
      [] OTHER -> TRUE

ListWritten(op, row, next) ==
    LET new == [row EXCEPT !.ver = @ + 1]
    IN  CASE op \in {"toggle", "patch"}     -> [new EXCEPT !.status = next]
          [] op \in {"archive", "restore"}  -> [new EXCEPT !.archived = (op = "archive")]
          [] OTHER                          -> [new EXCEPT !.deleted = (op = "delete")]

-----------------------------------------------------------------------------
(* The query and the undo toast                                            *)

\* invalidateWork, invalidatePersonal: the list is asked for again, whatever ran before.
ListAsk == listFetch' = [at |-> "asked", rows |-> ListNoRows] /\ listStale' = FALSE

ListIdle == [at |-> "idle", rows |-> ListNoRows]

\* cancelQueries: a running fetch brings nothing.
ListCancel == listFetch' = ListIdle

ListServe ==
    /\ listFetch.at = "asked"
    /\ listFetch' = [at |-> "answered", rows |-> listRows]
    /\ listStale' = FALSE
    /\ UNCHANGED <<listRows, listCache, listCalls, listRuns, listActs, listUndo, listPage>>

ListFetched ==
    /\ listFetch.at = "answered"
    /\ listFetch' = ListIdle
    /\ listCache' = listFetch.rows
    /\ UNCHANGED <<listRows, listStale, listCalls, listRuns, listActs, listUndo, listPage>>

ListNoUndo == [kind |-> "none", items |-> {}, vers |-> [i \in ListItems |-> 0],
               backs |-> [i \in ListItems |-> "planned"]]

\* pushUndo replaces the entry and its timer.
ListPush(kind, items, vers, backs) ==
    listUndo' = [kind |-> kind, items |-> items,
                 vers |-> [i \in ListItems |-> IF i \in items THEN vers[i] ELSE 0],
                 backs |-> [i \in ListItems |-> IF i \in items THEN backs[i] ELSE "planned"]]

\* The ten seconds are over, or the toast is closed.
ListUndoGone ==
    /\ listUndo.kind # "none"
    /\ listUndo' = ListNoUndo
    /\ UNCHANGED <<listRows, listCache, listFetch, listStale, listCalls, listRuns, listActs,
                   listPage>>

-----------------------------------------------------------------------------
(* Requests                                                                *)

ListHook(op) == IF op \in {"delete", "undelete"} THEN {} ELSE {op}

\* mutate: the callbacks given to an earlier mutate of the same hook are dropped.
ListSent(op, item, ver, next, then, was) ==
    /\ listActs < ListActs /\ listActs' = listActs + 1
    /\ listCalls' =
           {IF c.op \in ListHook(op) THEN [c EXCEPT !.latest = FALSE] ELSE c : c \in listCalls}
           \cup {[op |-> op, item |-> item, ver |-> ver, next |-> next, then |-> then,
                  was |-> was, latest |-> TRUE,
                  previous |-> IF op = "toggle" THEN listCache ELSE ListNoRows,
                  at |-> "sent"]}

\* onMutate of useToggleDone: cancel the fetch, remember the list, show the change.
ListToggled(item, ver, next, then, was) ==
    /\ ListSent("toggle", item, ver, next, then, was)
    /\ ListCancel
    /\ listCache' = [listCache EXCEPT ![item].status = next]
    /\ UNCHANGED <<listRows, listStale, listRuns>>

ListAsked(op, item, ver, next, then, was) ==
    /\ ListSent(op, item, ver, next, then, was)
    /\ UNCHANGED <<listRows, listCache, listFetch, listStale, listRuns>>

\* The server handles a request; its answer can be lost on the way.
ListHandle(call) ==
    /\ call.at = "sent"
    /\ \E lost \in BOOLEAN :
           LET row == listRows[call.item]
               ok  == ListAccepts(call.op, row, call.ver, call.next)
               new == ListWritten(call.op, row, call.next)
           IN /\ lost => ok
              /\ listRows' = IF ok THEN [listRows EXCEPT ![call.item] = new] ELSE listRows
              /\ listCalls' = (listCalls \ {call}) \cup
                    {[call EXCEPT !.at = IF ok /\ ~lost THEN "ok" ELSE "bad",
                                  !.ver = IF ok THEN new.ver ELSE @]}
              /\ listStale' = (listStale \/ (lost /\ call.op # "toggle"))
    /\ UNCHANGED <<listCache, listFetch, listRuns, listActs, listUndo, listPage>>

\* What the answer of a request does to selectedId.
ListOpened(call) ==
    CASE call.op \in {"patch", "restore"}  -> [listPage EXCEPT !.open = call.item]
      [] call.op \in {"archive", "delete"} -> [listPage EXCEPT !.open = 0]
      [] OTHER -> listPage

\* onSuccess: the hook's own part always, the part given to mutate only for the latest.
ListSucceeded(call) ==
    /\ call.at = "ok"
    /\ listCalls' = listCalls \ {call}
    /\ listPage' = ListOpened(call)
    /\ IF call.then # "none" /\ call.latest
       THEN ListPush(call.then, {call.item}, [i \in ListItems |-> call.ver],
                     [i \in ListItems |-> call.was])
       ELSE UNCHANGED listUndo
    /\ ListAsk
    /\ UNCHANGED <<listRows, listCache, listRuns, listActs>>

ListFailedQuietly(call) ==
    /\ call.at = "bad"
    /\ listCalls' = listCalls \ {call}
    /\ listCache' = IF call.op = "toggle" THEN call.previous ELSE listCache
    /\ UNCHANGED <<listRows, listFetch, listStale, listRuns, listActs, listUndo, listPage>>

\* onError and onSettled: a toggle puts its list back and asks again.
ListFailed(call) ==
    /\ call.at = "bad"
    /\ listCalls' = listCalls \ {call}
    /\ IF call.op = "toggle" THEN listCache' = call.previous /\ ListAsk
       ELSE UNCHANGED <<listCache, listFetch, listStale>>
    /\ UNCHANGED <<listRows, listRuns, listActs, listUndo, listPage>>

\* Somebody else writes a row.
ListElsewhere ==
    /\ listActs < ListActs /\ listActs' = listActs + 1
    /\ \E i \in ListItems, next \in ListStatus,
          op \in {"patch", "archive", "delete", "undelete"} :
           /\ ListAccepts(op, listRows[i], listRows[i].ver, next)
           /\ op # "patch" => next = "planned"
           /\ listRows' = [listRows EXCEPT ![i] = ListWritten(op, @, next)]
    /\ listStale' = (listStale \/ listFetch.at # "asked")
    /\ UNCHANGED <<listCache, listFetch, listCalls, listRuns, listUndo, listPage>>

-----------------------------------------------------------------------------
(* What the user does                                                      *)

\* filterItemsForView, without the search.
ListShows(view, row) ==
    /\ ~row.deleted
    /\ CASE view = "current"  -> ~row.archived /\ row.status # "done"
         [] view = "done"     -> ~row.archived /\ row.status = "done"
         [] view = "archived" -> row.archived

ListVisible == {i \in ListItems : ListShows(listPage.view, listCache[i])}

\* selected, and selectedItems: looked up in all the rows of the scope.
ListDrawer == listPage.open \in ListItems /\ ~listCache[listPage.open].deleted
ListSelected == {i \in listPage.picked : ~listCache[i].deleted}

\* toggleWithUndo offers to undo the way to done only.
ListToggleWithUndo(i) ==
    LET row  == listCache[i]
        next == IF row.status = "done" THEN "planned" ELSE "done"
    IN  ListToggled(i, row.ver, next, IF next = "done" THEN "toggle" ELSE "none", row.status)

ListToggleClick ==
    /\ \E i \in ListVisible : ListToggleWithUndo(i)
    /\ UNCHANGED <<listUndo, listPage>>

\* "Skip this one" of a row that recurs and is not closed: done, with a way back to planned.
ListSkipClick ==
    /\ \E i \in ListVisible :
           /\ listCache[i].status # "done"
           /\ ListAsked("patch", i, listCache[i].ver, "done", "skip", "planned")
    /\ UNCHANGED <<listUndo, listPage>>

\* archiveWithUndo, or the restore of an archived row.
ListArchiveClick ==
    /\ \E i \in ListVisible :
           IF listCache[i].archived
           THEN ListAsked("restore", i, 0, "planned", "none", "planned")
           ELSE ListAsked("archive", i, 0, "planned", "archive", "planned")
    /\ UNCHANGED <<listUndo, listPage>>

\* The drawer: deleteWithUndo, a status, or a new date.
ListDrawerClick ==
    /\ ListDrawer
    /\ LET i == listPage.open
       IN \/ ListAsked("delete", i, 0, "planned", "delete", "planned")
          \/ \E next \in ListStatus :
                ListAsked("patch", i, listCache[i].ver, next, "none", "planned")
    /\ UNCHANGED <<listUndo, listPage>>

ListOpenRow(i) == listPage' = [listPage EXCEPT !.open = i]

ListPick(i) ==
    listPage' = [listPage EXCEPT
                    !.picked = IF i \in @ THEN @ \ {i} ELSE @ \cup {i}]

\* A click on a row opens it, or picks it in select mode.
ListRowClick ==
    /\ \E i \in ListVisible : IF listPage.selecting THEN ListPick(i) ELSE ListOpenRow(i)
    /\ UNCHANGED <<listRows, listCache, listFetch, listStale, listCalls, listRuns, listActs,
                   listUndo>>

ListCloseDrawer ==
    /\ ListDrawer /\ ListOpenRow(0)
    /\ UNCHANGED <<listRows, listCache, listFetch, listStale, listCalls, listRuns, listActs,
                   listUndo>>

\* The tabs of the view keep the selection.
ListSetView ==
    /\ \E view \in {"current", "done", "archived"} : listPage' = [listPage EXCEPT !.view = view]
    /\ UNCHANGED <<listRows, listCache, listFetch, listStale, listCalls, listRuns, listActs,
                   listUndo>>

ListUnselected == [listPage EXCEPT !.selecting = FALSE, !.picked = {}]

\* The display menu enters select mode, or leaves it even while a batch runs.
ListSelectMode ==
    /\ listPage' = IF listPage.selecting THEN ListUnselected
                   ELSE [listPage EXCEPT !.selecting = TRUE]
    /\ UNCHANGED <<listRows, listCache, listFetch, listStale, listCalls, listRuns, listActs,
                   listUndo>>

-----------------------------------------------------------------------------
(* Batches                                                                 *)

ListBusy == \E run \in listRuns : ~run.revert

\* The rows each button acts on.
ListTargets(op) ==
    CASE op = "done" -> {i \in ListSelected : listCache[i].status # "done"
                                              /\ ~listCache[i].archived}
      [] op \in {"move", "shelve"} -> {i \in ListSelected : ~listCache[i].archived}
      [] op = "tag" -> ListSelected

\* runBatch, with the rows as the list has them now.
ListBatchClick ==
    /\ listPage.selecting /\ ListSelected # {} /\ ~ListBusy
    /\ listActs < ListActs /\ listActs' = listActs + 1
    /\ \E op \in ListBatches :
           /\ ListTargets(op) # {}
           /\ listRuns' = listRuns \cup
                 {[op |-> op, revert |-> FALSE, todo |-> ListTargets(op), ok |-> {}, bad |-> {},
                   vers |-> [i \in ListItems |-> listCache[i].ver],
                   backs |-> [i \in ListItems |-> listCache[i].status]]}
    /\ UNCHANGED <<listRows, listCache, listFetch, listStale, listCalls, listUndo, listPage>>

\* The request a batch or its revert makes for one row.
ListBatchCall(run) ==
    CASE run.op # "shelve" -> "patch"
      [] run.revert -> "restore"
      [] OTHER -> "archive"

ListBatchNext(run, i) ==
    CASE run.op # "done" -> listRows[i].status
      [] run.revert -> run.backs[i]
      [] OTHER -> "done"

ListNotedDone(run, i, done) == [run EXCEPT !.ok = @ \cup {i}]
ListNoted(run, i, done) ==
    IF done THEN [run EXCEPT !.ok = @ \cup {i}] ELSE [run EXCEPT !.bad = @ \cup {i}]

\* runBatchSequential: one row after the other, a refused one is noted and passed over.
ListBatchStep(run) ==
    /\ run.todo # {}
    /\ LET i    == Min(run.todo)
           row  == listRows[i]
           op   == ListBatchCall(run)
           next == ListBatchNext(run, i)
           ok   == ListAccepts(op, row, run.vers[i], next)
       IN /\ listRows' = IF ok THEN [listRows EXCEPT ![i] = ListWritten(op, row, next)]
                         ELSE listRows
          /\ \E lost \in BOOLEAN :
                listRuns' = (listRuns \ {run}) \cup
                   {ListNoted([run EXCEPT !.todo = @ \ {i}], i, ok /\ ~lost)}
    /\ UNCHANGED <<listCache, listFetch, listStale, listCalls, listActs, listUndo, listPage>>

\* After the last row: what failed stays selected; a whole success can be undone and ends
\* the select mode.  A revert only asks for the list again.
ListBatchEnd(run) ==
    /\ run.todo = {}
    /\ listRuns' = listRuns \ {run}
    /\ ListAsk
    /\ CASE run.revert -> UNCHANGED <<listUndo, listPage>>
         [] ~run.revert /\ run.bad # {} ->
               /\ listPage' = [listPage EXCEPT !.picked = run.bad]
               /\ UNCHANGED listUndo
         [] OTHER ->
               /\ ListPush(run.op, run.ok, run.vers, run.backs)
               /\ listPage' = ListUnselected
    /\ UNCHANGED <<listRows, listCache, listCalls, listActs>>

\* runUndo: the entry goes, its closure runs.
ListRunUndo ==
    /\ listUndo.kind # "none"
    /\ listUndo' = ListNoUndo
    /\ LET i == Min(listUndo.items)
       IN CASE listUndo.kind = "toggle" ->
                 ListToggled(i, listUndo.vers[i], listUndo.backs[i], "none", "planned")
            [] listUndo.kind = "skip" ->
                 ListAsked("patch", i, listUndo.vers[i], "planned", "none", "planned")
            [] listUndo.kind = "archive" ->
                 ListAsked("restore", i, 0, "planned", "none", "planned")
            [] listUndo.kind = "delete" ->
                 ListAsked("undelete", i, 0, "planned", "none", "planned")
            [] OTHER ->
                 /\ listActs < ListActs /\ listActs' = listActs + 1
                 /\ listRuns' = listRuns \cup
                       {[op |-> listUndo.kind, revert |-> TRUE, todo |-> listUndo.items,
                         ok |-> {}, bad |-> {}, vers |-> listUndo.vers, backs |-> listUndo.backs]}
                 /\ UNCHANGED <<listRows, listCache, listFetch, listStale, listCalls>>
    /\ UNCHANGED listPage

-----------------------------------------------------------------------------

ListInit ==
    /\ listRows = [i \in ListItems |->
                      [ver |-> 1, status |-> IF i = 1 THEN "planned" ELSE "waiting",
                       archived |-> FALSE, deleted |-> FALSE]]
    /\ listCache = listRows
    /\ listFetch = ListIdle /\ listStale = FALSE
    /\ listCalls = {} /\ listRuns = {} /\ listActs = 0 /\ listClicks = 0
    /\ listUndo = ListNoUndo
    /\ listPage = [view |-> "current", selecting |-> FALSE, picked |-> {}, open |-> 0]

\* What changes only the page is bounded apart.
ListClick ==
    /\ listClicks < ListClicks /\ listClicks' = listClicks + 1
    /\ ListRowClick \/ ListSetView \/ ListSelectMode

ListNext ==
    \/ ListClick
    \/ /\ UNCHANGED listClicks
       /\ \/ \E call \in listCalls : ListHandle(call) \/ ListSucceeded(call) \/ ListFailed(call)
          \/ \E run \in listRuns : ListBatchStep(run) \/ ListBatchEnd(run)
          \/ ListServe \/ ListFetched \/ ListElsewhere
          \/ ListToggleClick \/ ListSkipClick \/ ListArchiveClick \/ ListDrawerClick
          \/ ListBatchClick \/ ListRunUndo \/ ListUndoGone \/ ListCloseDrawer

ListSpec == ListInit /\ [][ListNext]_listVars

-----------------------------------------------------------------------------

ListTypeOK ==
    /\ listRows \in [ListItems -> ListRow] /\ listCache \in [ListItems -> ListRow]
    /\ listFetch \in [at : {"idle", "asked", "answered"}, rows : [ListItems -> ListRow]]
    /\ listStale \in BOOLEAN
    /\ listCalls \subseteq ListCall /\ listRuns \subseteq ListRun /\ listActs \in 0..ListActs
    /\ listUndo \in ListUndoEntry /\ listClicks \in 0..ListClicks
    /\ listPage \in [view : {"current", "done", "archived"}, selecting : BOOLEAN,
                     picked : SUBSET ListItems, open : ListItems \cup {0}]

ListSettled == listFetch.at = "idle" /\ ~listStale /\ listCalls = {} /\ listRuns = {}

\* Whatever was toggled, refused, rolled back, lost or cancelled on the way, once nothing is
\* under way the page shows the rows of the server (useToggleDone, invalidateWork).
ListSettles == ListSettled => listCache = listRows

\* The toast offers to undo only what the server did for this page: a row of the entry that
\* nobody has written since is the row the toggle or the batch made of it.
ListUndoIsReal ==
    \A i \in listUndo.items :
        CASE listUndo.kind \in {"toggle", "skip"} ->
               /\ listRows[i].ver >= listUndo.vers[i]
               /\ listRows[i].ver = listUndo.vers[i] => listRows[i].status = "done"
          [] listUndo.kind \in ListBatches ->
               /\ listRows[i].ver > listUndo.vers[i]
               /\ listUndo.kind = "done" /\ listRows[i].ver = listUndo.vers[i] + 1
                     => listRows[i].status = "done"
          [] OTHER -> listRows[i].ver > 1
=============================================================================
