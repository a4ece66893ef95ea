------------------------------- MODULE Focus --------------------------------
(***************************************************************************)
(* Focus sessions: FocusRepository, whose partial unique index allows one  *)
(* open session per user, and the controls of one browser tab that start,  *)
(* pause, stop and complete it: the floating bar, the button of each row   *)
(* and the control of a drawer. They share one cached answer of            *)
(* /focus/active.                                                          *)
(***************************************************************************)
EXTENDS Naturals, FiniteSets

CONSTANTS
    FocusItems,   \* items of the user
    NoFocus,      \* no session, no paused item
    FocusCalls    \* bound: requests sent, by the tab or elsewhere

ASSUME FocusAssumption == FocusCalls \in Nat /\ NoFocus \notin FocusItems

VARIABLES
    focusOpen,    \* items with a session whose ended_at is null
    focusEnded,   \* item -> number of ended sessions
    focusDone,    \* items marked done by the bar
    focusCalls,   \* requests under way
    focusSent,    \* bound counter for FocusCalls
    focusData,    \* active.data: the session the tab shows, by its item
    focusFetch,   \* the query behind it: idle, asked, or answered with an item
    focusStale,   \* history: a write that the last answer missed and nobody asks for
    focusStore,   \* pa-focus-paused in localStorage
    focusPaused   \* item -> pausedId of its row

focusVars == <<focusOpen, focusEnded, focusDone, focusCalls, focusSent, focusData, focusFetch,
               focusStale, focusStore, focusPaused>>

FocusShown == FocusItems \cup {NoFocus}
FocusCall == [from : {"bar", "row", "drawer", "elsewhere"}, item : FocusItems,
              op : {"start", "stop", "pause", "complete"},
              at : {"sent", "free", "done"}]
FocusQuery == [at : {"idle", "asked", "answered"}, item : FocusShown]

-----------------------------------------------------------------------------
(* The repository                                                          *)

\* FocusRepository.active.
FocusActive == IF focusOpen = {} THEN NoFocus ELSE CHOOSE i \in focusOpen : TRUE

FocusAt(call, at) == focusCalls' = (focusCalls \ {call}) \cup {[call EXCEPT !.at = at]}

\* A write that succeeded: the tab acts on the answer of its own later, and is not
\* told of the others.
FocusWritten(call) ==
    IF call.from = "elsewhere"
    THEN /\ focusCalls' = focusCalls \ {call}
         /\ focusStale' = (focusStale \/ focusFetch.at # "asked")
    ELSE FocusAt(call, "done") /\ UNCHANGED focusStale

FocusRefused(call) ==
    /\ focusCalls' = focusCalls \ {call}
    /\ UNCHANGED <<focusOpen, focusEnded, focusStale>>

\* start: a running session is answered as it is; otherwise one is inserted, and the
\* index refuses it when another start has committed meanwhile.
FocusLookup(call) ==
    /\ call.op = "start" /\ call.at = "sent"
    /\ CASE focusOpen = {} -> FocusAt(call, "free")
         [] focusOpen # {} /\ call.from # "elsewhere" -> FocusAt(call, "done")
         [] OTHER -> focusCalls' = focusCalls \ {call}
    /\ UNCHANGED <<focusOpen, focusEnded, focusDone, focusSent, focusData, focusFetch,
                   focusStale, focusStore, focusPaused>>

FocusIndexAllows(i) == focusOpen = {}

FocusInsert(call) ==
    /\ call.at = "free"
    /\ IF FocusIndexAllows(call.item)
       THEN /\ focusOpen' = focusOpen \cup {call.item}
            /\ FocusWritten(call) /\ UNCHANGED focusEnded
       ELSE FocusRefused(call)
    /\ UNCHANGED <<focusDone, focusSent, focusData, focusFetch, focusStore, focusPaused>>

\* stop: one UPDATE of the open session of the item, 404 when there is none.
FocusStop(call) ==
    /\ call.op # "start" /\ call.at = "sent"
    /\ IF call.item \in focusOpen
       THEN /\ focusOpen' = focusOpen \ {call.item}
            /\ focusEnded' = [focusEnded EXCEPT ![call.item] = @ + 1]
            /\ FocusWritten(call)
       ELSE FocusRefused(call)
    /\ UNCHANGED <<focusDone, focusSent, focusData, focusFetch, focusStore, focusPaused>>

-----------------------------------------------------------------------------
(* The tab                                                                 *)

FocusAfresh == focusFetch' = [at |-> "asked", item |-> NoFocus] /\ focusStale' = FALSE

\* An invalidation that joins the running fetch whether or not there is data.
FocusJoin == IF focusFetch.at = "idle" THEN FocusAfresh
             ELSE focusStale' = FALSE /\ UNCHANGED focusFetch

\* invalidateQueries: once the query has data, the answer of a running fetch is dropped
\* and the session asked again.  Before a session was ever answered there is none, and the
\* running fetch is joined, also one that was served before the write.
FocusAsk ==
    IF focusData = NoFocus /\ focusFetch.at # "idle"
    THEN /\ focusStale' = (focusStale
                \/ (focusFetch.at = "answered" /\ focusFetch.item # FocusActive))
         /\ UNCHANGED focusFetch
    ELSE FocusAfresh

\* persistPaused: the state of one row, and localStorage.
FocusPersist(row, id) ==
    /\ focusPaused' = [focusPaused EXCEPT ![row] = id]
    /\ focusStore' = id

\* onSuccess.  Complete marks the item of active.data as it is by then, if a list has
\* it cached; a refused patch ends the callback before the queries are invalidated.
FocusAnswered(call) ==
    /\ call.at = "done"
    /\ focusCalls' = focusCalls \ {call}
    /\ \/ /\ FocusAsk
          /\ IF call.from = "row"
             THEN FocusPersist(call.item, IF call.op = "pause" THEN call.item ELSE NoFocus)
             ELSE UNCHANGED <<focusStore, focusPaused>>
          /\ UNCHANGED focusDone
       \/ /\ call.op = "complete" /\ focusData # NoFocus
          /\ \/ focusDone' = focusDone \cup {focusData} /\ FocusAsk
             \/ focusStale' = TRUE /\ UNCHANGED <<focusDone, focusFetch>>
          /\ UNCHANGED <<focusStore, focusPaused>>
    /\ UNCHANGED <<focusOpen, focusEnded, focusSent, focusData>>

FocusServe ==
    /\ focusFetch.at = "asked"
    /\ focusFetch' = [at |-> "answered", item |-> FocusActive]
    /\ focusStale' = FALSE
    /\ UNCHANGED <<focusOpen, focusEnded, focusDone, focusCalls, focusSent, focusData,
                   focusStore, focusPaused>>

\* request answers undefined for 204, which a query refuses: it keeps its last data.
FocusFetched ==
    /\ focusFetch.at = "answered"
    /\ focusFetch' = [at |-> "idle", item |-> NoFocus]
    /\ focusData' = IF focusFetch.item = NoFocus THEN focusData ELSE focusFetch.item
    /\ UNCHANGED <<focusOpen, focusEnded, focusDone, focusCalls, focusSent, focusStale,
                   focusStore, focusPaused>>

\* Each mounted control asks again every 30 seconds.
FocusPoll ==
    /\ focusFetch.at = "idle"
    /\ FocusAfresh
    /\ UNCHANGED <<focusOpen, focusEnded, focusDone, focusCalls, focusSent, focusData,
                   focusStore, focusPaused>>

FocusReload ==
    /\ \A c \in focusCalls : c.from = "elsewhere"
    /\ focusData' = NoFocus /\ FocusAfresh
    /\ focusPaused' = [i \in FocusItems |-> focusStore]
    /\ UNCHANGED <<focusOpen, focusEnded, focusDone, focusCalls, focusSent, focusStore>>

FocusSend(from, op, i) ==
    /\ focusSent < FocusCalls
    /\ focusSent' = focusSent + 1
    /\ focusCalls' = focusCalls \cup {[from |-> from, op |-> op, item |-> i, at |-> "sent"]}
    /\ UNCHANGED <<focusOpen, focusEnded, focusDone, focusData, focusFetch, focusStale,
                   focusStore, focusPaused>>

\* isPending of one control's mutation.
FocusBusy(from, i) ==
    \E c \in focusCalls : c.from = from /\ (from = "bar" \/ c.item = i)

\* The bar shows only with a session.
FocusBarClick ==
    /\ focusData # NoFocus /\ ~FocusBusy("bar", focusData)
    /\ \E op \in {"stop", "complete"} : FocusSend("bar", op, focusData)

\* The button of a drawer toggles, unless another item is running.
FocusDrawerClick ==
    \E i \in FocusItems :
        /\ ~FocusBusy("drawer", i) /\ focusData \in {i, NoFocus}
        /\ FocusSend("drawer", IF focusData = i THEN "stop" ELSE "start", i)

\* The button of a row: pause and stop while it runs, resume and discard while it is
\* paused, start otherwise.
FocusRowClick ==
    \E i \in FocusItems :
        /\ ~FocusBusy("row", i)
        /\ \/ /\ focusData = i
              /\ \E op \in {"pause", "stop"} : FocusSend("row", op, i)
           \/ focusData = NoFocus /\ FocusSend("row", "start", i)
           \/ /\ focusData = NoFocus /\ focusPaused[i] = i
              /\ FocusPersist(i, NoFocus) /\ FocusAsk
              /\ UNCHANGED <<focusOpen, focusEnded, focusDone, focusCalls, focusSent, focusData>>

FocusElsewhere ==
    \E i \in FocusItems, op \in {"start", "stop"} : FocusSend("elsewhere", op, i)

FocusInit ==
    /\ focusOpen \in {{}} \cup {{i} : i \in FocusItems}
    /\ focusEnded = [i \in FocusItems |-> 0] /\ focusDone = {}
    /\ focusCalls = {} /\ focusSent = 0
    /\ focusData = NoFocus /\ focusFetch = [at |-> "asked", item |-> NoFocus]
    /\ focusStale = FALSE
    /\ focusStore \in FocusShown
    /\ focusPaused = [i \in FocusItems |-> focusStore]

FocusNext ==
    \/ \E call \in focusCalls :
           FocusLookup(call) \/ FocusInsert(call) \/ FocusStop(call) \/ FocusAnswered(call)
    \/ FocusServe \/ FocusFetched \/ FocusPoll \/ FocusReload
    \/ FocusBarClick \/ FocusDrawerClick \/ FocusRowClick \/ FocusElsewhere

FocusSpec == FocusInit /\ [][FocusNext]_focusVars

-----------------------------------------------------------------------------

FocusTypeOK ==
    /\ focusOpen \subseteq FocusItems /\ focusEnded \in [FocusItems -> Nat]
    /\ focusDone \subseteq FocusItems
    /\ focusCalls \subseteq FocusCall /\ focusSent \in 0..FocusCalls
    /\ focusData \in FocusShown /\ focusFetch \in FocusQuery /\ focusStale \in BOOLEAN
    /\ focusStore \in FocusShown /\ focusPaused \in [FocusItems -> FocusShown]

\* However starts interleave, one session of the user is open at a time.
FocusOneOpen == \A i, j \in focusOpen : i = j

FocusSettled ==
    focusFetch.at = "idle" /\ ~focusStale /\ \A c \in focusCalls : c.at # "done"

\* With no answer on its way to the tab, every control shows the open session, and there
\* is no other, whatever starts were under way together.  Until the next poll it may miss
\* two kinds of write: one of somebody else, and one of its own that was answered before
\* the tab had ever seen a session, while a fetch that was served earlier was under way.
FocusBarShowsOpen == FocusSettled /\ focusOpen # {} => focusOpen = {focusData}

\* "The server is the source of truth" (FocusControls.tsx:42): then the bar shows the
\* session that is open, or nothing.
FocusBarIsTrue == FocusSettled => focusData = FocusActive
=============================================================================
