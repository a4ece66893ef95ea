---------------------------- MODULE Pages_proofs ----------------------------
(***************************************************************************)
(* Theorems about the pages of the web client that show cached answers of  *)
(* the server, for any number of items, tags, proposals, deliveries,       *)
(* requests and gestures: the focus controls, the bell, the shell, the     *)
(* tree of tags and the inbox page. Each has an invariant that says what   *)
(* the answer in hand, or the page without one on its way, may lack.       *)
(***************************************************************************)
EXTENDS Shell, Focus, ReminderInbox, Tags, InboxPage, FiniteSetTheorems, TLAPS

-----------------------------------------------------------------------------
(* Focus                                                                   *)

\* What the repository answers is open, and depends on nothing else.
LEMMA FocusActiveIsOpen ==
    ASSUME FocusTypeOK
    PROVE  /\ focusOpen # {} => FocusActive \in focusOpen
           /\ FocusActive \in FocusShown
  BY DEF FocusTypeOK, FocusActive, FocusShown

LEMMA FocusActiveKept ==
    ASSUME focusOpen' = focusOpen
    PROVE  FocusActive' = FocusActive
  BY DEF FocusActive

-----------------------------------------------------------------------------
(* Types                                                                   *)

LEMMA FocusInitType == FocusInit => FocusTypeOK
  <1> SUFFICES ASSUME FocusInit PROVE FocusTypeOK
    OBVIOUS
  <1>1. focusOpen \subseteq FocusItems  BY DEF FocusInit
  <1>2. focusEnded \in [FocusItems -> Nat] /\ focusPaused \in [FocusItems -> FocusShown]
    BY DEF FocusInit
  <1>3. focusFetch \in FocusQuery  BY DEF FocusInit, FocusQuery, FocusShown
  <1>4. focusSent \in 0..FocusCalls /\ focusData \in FocusShown
    BY FocusAssumption DEF FocusInit, FocusShown
  <1> QED  BY <1>1, <1>2, <1>3, <1>4 DEF FocusInit, FocusTypeOK

LEMMA FocusSentType ==
    ASSUME FocusTypeOK,
           NEW from \in {"bar", "row", "drawer", "elsewhere"},
           NEW op \in {"start", "stop", "pause", "complete"}, NEW i \in FocusItems,
           FocusSend(from, op, i)
    PROVE  FocusTypeOK'
  BY FocusAssumption DEF FocusTypeOK, FocusSend, FocusCall

LEMMA FocusPausedType ==
    ASSUME FocusTypeOK, NEW row \in FocusItems, NEW id \in FocusShown, FocusPersist(row, id)
    PROVE  focusStore' \in FocusShown /\ focusPaused' \in [FocusItems -> FocusShown]
  BY DEF FocusTypeOK, FocusPersist

LEMMA FocusAskedType ==
    ASSUME FocusTypeOK, FocusAsk \/ FocusAfresh
    PROVE  focusFetch' \in FocusQuery /\ focusStale' \in BOOLEAN
  <1>1. CASE FocusAfresh  BY <1>1 DEF FocusAfresh, FocusQuery, FocusShown
  <1>2. CASE FocusAsk /\ ~FocusAfresh
    <2> DEFINE missed == focusStale
                \/ (focusFetch.at = "answered" /\ focusFetch.item # FocusActive)
    <2>1. focusFetch' = focusFetch /\ focusStale' = missed  BY <1>2 DEF FocusAsk
    <2>2. missed \in BOOLEAN
      <3>1. CASE missed  BY <3>1, Zenon
      <3>2. CASE ~missed  BY <3>2, Zenon
      <3> QED  BY <3>1, <3>2, Zenon
    <2> QED  BY <2>1, <2>2 DEF FocusTypeOK
  <1> QED  BY <1>1, <1>2

\* Each request's steps keep the types.
LEMMA FocusCallType ==
    ASSUME FocusTypeOK, NEW call \in focusCalls,
           FocusLookup(call) \/ FocusInsert(call) \/ FocusStop(call) \/ FocusAnswered(call)
    PROVE  FocusTypeOK'
  <1>0. /\ call \in FocusCall /\ call.item \in FocusItems
        /\ \A at \in {"free", "done"} : [call EXCEPT !.at = at] \in FocusCall
    BY DEF FocusTypeOK, FocusCall
  <1>1. CASE FocusLookup(call)
    <2>1. focusCalls' \subseteq FocusCall
      BY <1>0, <1>1 DEF FocusTypeOK, FocusLookup, FocusAt
    <2> QED  BY <1>1, <2>1 DEF FocusTypeOK, FocusLookup
  <1>2. CASE FocusInsert(call)
    <2>1. focusCalls' \subseteq FocusCall
      BY <1>0, <1>2 DEF FocusTypeOK, FocusInsert, FocusWritten, FocusRefused, FocusAt
    <2>2. /\ focusOpen' \subseteq FocusItems /\ focusStale' \in BOOLEAN
          /\ focusEnded' \in [FocusItems -> Nat]
      BY <1>0, <1>2 DEF FocusTypeOK, FocusInsert, FocusWritten, FocusRefused
    <2> QED  BY <1>2, <2>1, <2>2 DEF FocusTypeOK, FocusInsert
  <1>3. CASE FocusStop(call)
    <2>1. focusCalls' \subseteq FocusCall
      BY <1>0, <1>3 DEF FocusTypeOK, FocusStop, FocusWritten, FocusRefused, FocusAt
    <2>2. focusOpen' \subseteq FocusItems
      BY <1>3 DEF FocusTypeOK, FocusStop, FocusRefused
    <2>3. focusStale' \in BOOLEAN
      BY <1>3 DEF FocusTypeOK, FocusStop, FocusWritten, FocusRefused
    <2>4. focusEnded' \in [FocusItems -> Nat]
      BY <1>0, <1>3 DEF FocusTypeOK, FocusStop, FocusRefused
    <2> QED  BY <1>3, <2>1, <2>2, <2>3, <2>4 DEF FocusTypeOK, FocusStop
  <1>4. CASE FocusAnswered(call)
    <2>1. focusStore' \in FocusShown /\ focusPaused' \in [FocusItems -> FocusShown]
      BY <1>0, <1>4, FocusPausedType DEF FocusTypeOK, FocusAnswered, FocusShown
    <2>2. focusFetch' \in FocusQuery /\ focusStale' \in BOOLEAN
      BY <1>4, FocusAskedType DEF FocusTypeOK, FocusAnswered
    <2>3. focusDone' \subseteq FocusItems
      BY <1>4 DEF FocusTypeOK, FocusAnswered, FocusShown
    <2> QED  BY <1>4, <2>1, <2>2, <2>3 DEF FocusTypeOK, FocusAnswered
  <1> QED  BY <1>1, <1>2, <1>3, <1>4

LEMMA FocusStepType ==
    ASSUME FocusTypeOK, FocusNext
    PROVE  FocusTypeOK'
  <1>1. CASE \E call \in focusCalls :
                FocusLookup(call) \/ FocusInsert(call) \/ FocusStop(call) \/ FocusAnswered(call)
    BY <1>1, FocusCallType
  <1>2. CASE FocusServe
    BY <1>2, FocusActiveIsOpen DEF FocusTypeOK, FocusServe, FocusQuery
  <1>3. CASE FocusFetched
    <2>1. focusFetch.item \in FocusShown  BY DEF FocusTypeOK, FocusQuery
    <2> QED  BY <1>3, <2>1 DEF FocusTypeOK, FocusFetched, FocusQuery, FocusShown
  <1>4. CASE FocusPoll
    <2>1. focusFetch' \in FocusQuery /\ focusStale' \in BOOLEAN
      BY <1>4, FocusAskedType DEF FocusPoll
    <2> QED  BY <1>4, <2>1 DEF FocusTypeOK, FocusPoll
  <1>5. CASE FocusReload
    <2>1. focusFetch' \in FocusQuery /\ focusStale' \in BOOLEAN
      BY <1>5, FocusAskedType DEF FocusReload
    <2> QED  BY <1>5, <2>1 DEF FocusTypeOK, FocusReload, FocusShown
  <1>6. CASE FocusBarClick
    <2>1. focusData \in FocusItems  BY <1>6 DEF FocusTypeOK, FocusBarClick, FocusShown
    <2> QED  BY <1>6, <2>1, FocusSentType DEF FocusBarClick
  <1>7. CASE FocusDrawerClick  BY <1>7, FocusSentType DEF FocusDrawerClick
  <1>8. CASE FocusRowClick
    <2> PICK i \in FocusItems :
          \/ \E op \in {"pause", "stop"} : FocusSend("row", op, i)
          \/ FocusSend("row", "start", i)
          \/ /\ FocusPersist(i, NoFocus) /\ FocusAsk
             /\ UNCHANGED <<focusOpen, focusEnded, focusDone, focusCalls, focusSent, focusData>>
      BY <1>8 DEF FocusRowClick
    <2>1. CASE FocusPersist(i, NoFocus) /\ FocusAsk
               /\ UNCHANGED <<focusOpen, focusEnded, focusDone, focusCalls, focusSent, focusData>>
      <3>1. NoFocus \in FocusShown  BY DEF FocusShown
      <3> QED  BY <2>1, <3>1, FocusPausedType, FocusAskedType DEF FocusTypeOK
    <2> QED  BY <2>1, FocusSentType
  <1>9. CASE FocusElsewhere  BY <1>9, FocusSentType DEF FocusElsewhere
  <1> QED
    BY <1>1, <1>2, <1>3, <1>4, <1>5, <1>6, <1>7, <1>8, <1>9 DEF FocusNext

\* Requests, sessions, the query and the paused items keep their types, whatever the tab
\* and others send.
THEOREM FocusType == FocusSpec => []FocusTypeOK
  <1>1. FocusInit => FocusTypeOK  BY FocusInitType
  <1>2. FocusTypeOK /\ [FocusNext]_focusVars => FocusTypeOK'
    <2>1. CASE UNCHANGED focusVars  BY <2>1 DEF FocusTypeOK, focusVars
    <2> QED  BY <2>1, FocusStepType
  <1> QED  BY <1>1, <1>2, PTL DEF FocusSpec

-----------------------------------------------------------------------------
(* One open session                                                        *)

\* A start that the index refuses opens nothing.
LEMMA FocusOneOpenStep ==
    ASSUME FocusOneOpen, [FocusNext]_focusVars
    PROVE  FocusOneOpen'
  <1>1. ASSUME NEW call \in focusCalls, FocusInsert(call)
        PROVE  FocusOneOpen'
    BY <1>1 DEF FocusInsert, FocusIndexAllows, FocusRefused, FocusOneOpen
  <1>2. ASSUME NEW call \in focusCalls, FocusStop(call)
        PROVE  FocusOneOpen'
    BY <1>2 DEF FocusStop, FocusRefused, FocusOneOpen
  <1>3. \/ focusOpen' = focusOpen
        \/ \E call \in focusCalls : FocusInsert(call) \/ FocusStop(call)
    BY DEF FocusNext, focusVars, FocusLookup, FocusAnswered, FocusServe, FocusFetched,
                FocusPoll, FocusReload, FocusBarClick, FocusDrawerClick, FocusRowClick,
                FocusElsewhere, FocusSend
  <1> QED  BY <1>1, <1>2, <1>3 DEF FocusOneOpen

\* The unique index lets a start through only while nothing is open: whatever was looked up
\* before, two sessions are never open at once (014_focus_sessions.sql).
THEOREM FocusesOneOpen == FocusSpec => []FocusOneOpen
  <1>1. FocusInit => FocusOneOpen  BY DEF FocusInit, FocusOneOpen
  <1>2. FocusOneOpen /\ [FocusNext]_focusVars => FocusOneOpen'  BY FocusOneOpenStep
  <1> QED  BY <1>1, <1>2, PTL DEF FocusSpec

-----------------------------------------------------------------------------
(* The tab shows what is open                                              *)

\* No answer of the tab's own is still to be acted on, and it missed no write.
FocusTold == ~focusStale /\ \A c \in focusCalls : c.at # "done"

\* What an answer in hand says, and what the controls show when none is awaited.
FocusInv ==
    /\ FocusTypeOK
    /\ FocusTold =>
          /\ focusFetch.at = "answered" => focusFetch.item = FocusActive
          /\ focusFetch.at = "idle" /\ focusOpen # {} => focusData = FocusActive

\* A step that asks again, or is not known to the tab, leaves nothing to show.
LEMMA FocusUntold ==
    ASSUME FocusTypeOK', focusFetch'.at = "asked" \/ ~FocusTold'
    PROVE  FocusInv'
  BY DEF FocusInv

\* An invalidation asks again, or joins a fetch that is not served yet, says what is open,
\* or is known to miss something.
LEMMA FocusAsked ==
    ASSUME FocusTypeOK, FocusTypeOK', FocusAsk, focusOpen' = focusOpen
    PROVE  FocusInv'
  <1>1. FocusActive' = FocusActive  BY FocusActiveKept
  <1>2. focusFetch.at \in {"idle", "asked", "answered"}  BY DEF FocusTypeOK, FocusQuery
  <1>3. CASE focusFetch'.at = "asked"  BY <1>3, FocusUntold
  <1>4. CASE focusFetch'.at # "asked"
    <2>1. focusFetch'.at = "answered" /\ (focusStale' \/ focusFetch'.item = FocusActive)
      <3> DEFINE missed == focusStale
                  \/ (focusFetch.at = "answered" /\ focusFetch.item # FocusActive)
      <3>1. focusFetch.at = "answered" /\ focusFetch' = focusFetch /\ focusStale' = missed
        BY <1>2, <1>4 DEF FocusAsk, FocusAfresh
      <3>2. missed \/ focusFetch.item = FocusActive  BY <3>1
      <3> HIDE DEF missed
      <3> QED  BY <3>1, <3>2
    <2> QED  BY <1>1, <2>1 DEF FocusInv, FocusTold
  <1> QED  BY <1>3, <1>4

\* A step that leaves the sessions and the query alone and answers nothing.
LEMMA FocusUnseen ==
    ASSUME FocusInv, FocusTypeOK',
           UNCHANGED <<focusOpen, focusData, focusFetch, focusStale>>,
           \A c \in focusCalls : c.at = "done" => c \in focusCalls'
    PROVE  FocusInv'
  <1>1. FocusTold' => FocusTold  BY DEF FocusTold
  <1> QED  BY <1>1, FocusActiveKept DEF FocusInv

\* A write of the table is told later, or leaves the tab with an answer to come.
LEMMA FocusWrittenUntold ==
    ASSUME FocusTypeOK, NEW call \in focusCalls, FocusWritten(call), focusFetch' = focusFetch
    PROVE  focusFetch'.at = "asked" \/ ~FocusTold'
  <1>0. call \in FocusCall  BY DEF FocusTypeOK
  <1>1. CASE call.from = "elsewhere"  BY <1>1 DEF FocusWritten, FocusTold
  <1>2. CASE call.from # "elsewhere"
    <2>1. [call EXCEPT !.at = "done"] \in focusCalls'  BY <1>2 DEF FocusWritten, FocusAt
    <2>2. [call EXCEPT !.at = "done"].at = "done"  BY <1>0 DEF FocusCall
    <2> QED  BY <2>1, <2>2 DEF FocusTold
  <1> QED  BY <1>1, <1>2

LEMMA FocusCallShown ==
    ASSUME FocusInv, FocusTypeOK', NEW call \in focusCalls,
           FocusLookup(call) \/ FocusInsert(call) \/ FocusStop(call) \/ FocusAnswered(call)
    PROVE  FocusInv'
  <1>1. CASE FocusLookup(call)
    <2>1. call.at = "sent"  BY <1>1 DEF FocusLookup
    <2>2. \A c \in focusCalls : c.at = "done" => c \in focusCalls'
      BY <1>1, <2>1 DEF FocusLookup, FocusAt
    <2> QED  BY <1>1, <2>2, FocusUnseen DEF FocusLookup
  <1>2. CASE FocusInsert(call)
    <2>1. CASE FocusWritten(call)
      BY <1>2, <2>1, FocusWrittenUntold, FocusUntold DEF FocusInsert, FocusInv
    <2>2. CASE FocusRefused(call)
      <3>1. \A c \in focusCalls : c.at = "done" => c \in focusCalls'
        BY <1>2, <2>2 DEF FocusInsert, FocusRefused
      <3> QED  BY <1>2, <2>2, <3>1, FocusUnseen DEF FocusInsert, FocusRefused
    <2> QED  BY <1>2, <2>1, <2>2 DEF FocusInsert
  <1>3. CASE FocusStop(call)
    <2>1. CASE FocusWritten(call)
      BY <1>3, <2>1, FocusWrittenUntold, FocusUntold DEF FocusStop, FocusInv
    <2>2. CASE FocusRefused(call)
      <3>1. \A c \in focusCalls : c.at = "done" => c \in focusCalls'
        BY <1>3, <2>2 DEF FocusStop, FocusRefused
      <3> QED  BY <1>3, <2>2, <3>1, FocusUnseen DEF FocusStop, FocusRefused
    <2> QED  BY <1>3, <2>1, <2>2 DEF FocusStop
  <1>4. CASE FocusAnswered(call)
    <2>1. FocusAsk \/ ~FocusTold'  BY <1>4 DEF FocusAnswered, FocusTold
    <2>2. FocusTypeOK /\ focusOpen' = focusOpen  BY <1>4 DEF FocusInv, FocusAnswered
    <2> QED  BY <2>1, <2>2, FocusAsked, FocusUntold
  <1> QED  BY <1>1, <1>2, <1>3, <1>4

LEMMA FocusSendShown ==
    ASSUME FocusInv, FocusTypeOK', NEW from, NEW op, NEW i, FocusSend(from, op, i)
    PROVE  FocusInv'
  BY FocusUnseen DEF FocusSend

\* Every step keeps what the controls show.
LEMMA FocusInvStep ==
    ASSUME FocusInv, [FocusNext]_focusVars
    PROVE  FocusInv'
  <1>0. FocusTypeOK'
    <2>1. FocusTypeOK  BY DEF FocusInv
    <2>2. CASE UNCHANGED focusVars  BY <2>1, <2>2 DEF FocusTypeOK, focusVars
    <2> QED  BY <2>1, <2>2, FocusStepType
  <1>1. CASE \E call \in focusCalls :
                FocusLookup(call) \/ FocusInsert(call) \/ FocusStop(call) \/ FocusAnswered(call)
    BY <1>0, <1>1, FocusCallShown
  <1>2. CASE FocusServe
    <2>1. FocusActive' = FocusActive  BY <1>2, FocusActiveKept DEF FocusServe
    <2>2. focusFetch' = [at |-> "answered", item |-> FocusActive]
      BY <1>2 DEF FocusServe
    <2> QED  BY <1>0, <2>1, <2>2 DEF FocusInv
  <1>3. CASE FocusFetched
    <2>1. FocusActive' = FocusActive  BY <1>3, FocusActiveKept DEF FocusFetched
    <2>2. focusFetch' = [at |-> "idle", item |-> NoFocus]  BY <1>3 DEF FocusFetched
    <2>3. ASSUME FocusTold', focusOpen' # {}
          PROVE  focusData' = FocusActive
      <3>1. focusFetch.item = FocusActive
        BY <1>3, <2>3 DEF FocusInv, FocusFetched, FocusTold
      <3>2. FocusActive # NoFocus
        BY <1>3, <2>3, FocusActiveIsOpen, FocusAssumption
           DEF FocusInv, FocusTypeOK, FocusFetched
      <3> QED  BY <1>3, <3>1, <3>2 DEF FocusFetched
    <2> QED  BY <1>0, <2>1, <2>2, <2>3 DEF FocusInv
  <1>4. CASE FocusPoll \/ FocusReload
    <2>1. focusFetch'.at = "asked"  BY <1>4 DEF FocusPoll, FocusReload, FocusAfresh
    <2> QED  BY <1>0, <2>1, FocusUntold
  <1>5. CASE FocusBarClick \/ FocusDrawerClick \/ FocusElsewhere
    BY <1>0, <1>5, FocusSendShown DEF FocusBarClick, FocusDrawerClick, FocusElsewhere
  <1>6. CASE FocusRowClick
    <2>1. \/ FocusAsk /\ focusOpen' = focusOpen
          \/ \E i \in FocusItems, op \in {"pause", "stop", "start"} : FocusSend("row", op, i)
      BY <1>6 DEF FocusRowClick
    <2> QED  BY <1>0, <2>1, FocusSendShown, FocusAsked DEF FocusInv
  <1>7. CASE UNCHANGED focusVars
    BY <1>0, <1>7, FocusUnseen DEF focusVars
  <1> QED  BY <1>1, <1>2, <1>3, <1>4, <1>5, <1>6, <1>7 DEF FocusNext

\* Whoever starts and stops sessions, once the answers are in, the session that is open is
\* the one the bar, the rows and the drawers show (invalidateQueries after each answer); a
\* fetch that was joined, and served before the write, is known as one that missed it.
THEOREM BarShowsOpen == FocusSpec => []FocusBarShowsOpen
  <1>1. FocusInit => FocusInv
    BY FocusInitType DEF FocusInit, FocusInv
  <1>2. FocusInv /\ [FocusNext]_focusVars => FocusInv'  BY FocusInvStep
  <1>3. FocusInv /\ FocusOneOpen => FocusBarShowsOpen
    BY FocusActiveIsOpen DEF FocusInv, FocusOneOpen, FocusBarShowsOpen, FocusSettled, FocusTold
  <1> QED  BY <1>1, <1>2, <1>3, FocusesOneOpen, PTL DEF FocusSpec

-----------------------------------------------------------------------------
(* The bell                                                                *)

LEMMA InboxAskType ==
    ASSUME InboxTypeOK, InboxAsk
    PROVE  /\ inboxFetch' \in [at : {"idle", "asked", "answered"}, ids : SUBSET Notices]
           /\ inboxStale' \in BOOLEAN
           /\ inboxLoaded => inboxFetch'.at = "asked"
  <1>1. CASE ~inboxLoaded /\ inboxFetch.at # "idle"
    BY <1>1 DEF InboxAsk, InboxTypeOK
  <1>2. CASE ~(~inboxLoaded /\ inboxFetch.at # "idle")
    <2>1. inboxFetch' = [at |-> "asked", ids |-> {}] /\ inboxStale' = FALSE
      BY <1>2 DEF InboxAsk
    <2> QED  BY <2>1
  <1> QED  BY <1>1, <1>2

LEMMA InboxSendType ==
    ASSUME InboxTypeOK, NEW op \in {"ack", "snooze", "complete", "retry"}, NEW n \in Notices,
           InboxSend(op, n)
    PROVE  inboxCalls' \subseteq InboxCall /\ inboxSent' \in 0..InboxWrites
  BY InboxAssumption DEF InboxTypeOK, InboxSend, InboxCall

LEMMA InboxServeType ==
    ASSUME InboxTypeOK, NEW call \in inboxCalls, InboxServe(call)
    PROVE  InboxTypeOK'
  <1>1. call.id \in Notices /\ InboxAfter(call) \in InboxStates
    BY Zenon DEF InboxTypeOK, InboxCall, InboxAfter, InboxStates
  <1>2. inboxState' \in [Notices -> InboxStates]
    BY <1>1 DEF InboxTypeOK, InboxServe
  <1>3. /\ inboxFetch' \in [at : {"idle", "asked", "answered"}, ids : SUBSET Notices]
        /\ inboxStale' \in BOOLEAN
    BY InboxAskType DEF InboxTypeOK, InboxServe, InboxSettled
  <1> QED  BY <1>2, <1>3 DEF InboxTypeOK, InboxServe, inboxBell

LEMMA InboxGestureType ==
    ASSUME InboxTypeOK, NEW n \in Notices,
           InboxAck(n) \/ InboxSnooze(n) \/ InboxComplete(n) \/ InboxRetry(n)
    PROVE  InboxTypeOK'
  <1>1. CASE InboxAck(n)
    <2>1. inboxCalls' \subseteq InboxCall /\ inboxSent' \in 0..InboxWrites
      BY <1>1, InboxSendType DEF InboxAck
    <2>2. inboxNotes' \subseteq Notices  BY <1>1 DEF InboxTypeOK, InboxAck, InboxClick
    <2> QED  BY <1>1, <2>1, <2>2 DEF InboxTypeOK, InboxAck
  <1>2. CASE InboxSnooze(n)  BY <1>2, InboxSendType DEF InboxTypeOK, InboxSnooze
  <1>3. CASE InboxComplete(n)
    <2>1. inboxSent' \in 0..InboxWrites
      BY <1>3, InboxAssumption DEF InboxTypeOK, InboxComplete
    <2>2. inboxCalls' \subseteq InboxCall
      BY <1>3 DEF InboxTypeOK, InboxComplete, InboxCall
    <2> QED  BY <1>3, <2>1, <2>2 DEF InboxTypeOK, InboxComplete
  <1>4. CASE InboxRetry(n)  BY <1>4, InboxSendType DEF InboxTypeOK, InboxRetry, inboxBell
  <1> QED  BY <1>1, <1>2, <1>3, <1>4

LEMMA InboxAckAllType ==
    ASSUME InboxTypeOK, InboxAckAll
    PROVE  InboxTypeOK'
  <1>1. Cardinality(inboxList) \in Nat
    BY InboxAssumption, FS_Subset, FS_CardinalityType DEF InboxTypeOK
  <1>2. inboxSent' \in 0..InboxWrites
    BY <1>1, InboxAssumption DEF InboxTypeOK, InboxAckAll
  <1>3. inboxCalls' \subseteq InboxCall  BY DEF InboxTypeOK, InboxAckAll, InboxCall
  <1> QED  BY <1>2, <1>3 DEF InboxTypeOK, InboxAckAll

LEMMA InboxFetchedType ==
    ASSUME InboxTypeOK, InboxFetched
    PROVE  InboxTypeOK'
  <1>1. inboxFetch.ids \subseteq Notices  BY DEF InboxTypeOK
  <1>2. /\ inboxToasted' \subseteq Notices /\ inboxToasts' \subseteq inboxToasted'
        /\ inboxNotes' \subseteq Notices
    BY <1>1 DEF InboxTypeOK, InboxFetched, InboxToast
  <1> QED  BY <1>1, <1>2 DEF InboxTypeOK, InboxFetched

LEMMA InboxStepType ==
    ASSUME InboxTypeOK, [InboxNext]_inboxVars
    PROVE  InboxTypeOK'
  <1>1. CASE InboxServerSteps
    <2>1. inboxState' \in [Notices -> InboxStates]
      BY <1>1 DEF InboxTypeOK, InboxServerSteps, InboxStates
    <2> QED  BY <1>1, <2>1 DEF InboxTypeOK, InboxServerSteps, inboxBell
  <1>2. CASE InboxPoll
    <2>1. /\ inboxFetch' \in [at : {"idle", "asked", "answered"}, ids : SUBSET Notices]
          /\ inboxStale' \in BOOLEAN
      BY <1>2, InboxAskType DEF InboxPoll
    <2> QED  BY <1>2, <2>1 DEF InboxTypeOK, InboxPoll, inboxBell
  <1>3. CASE InboxAnswer \/ InboxFetchFails
    <2>1. CASE InboxAnswer
      BY <2>1 DEF InboxTypeOK, InboxAnswer, InboxUnseen, inboxBell
    <2>2. CASE InboxFetchFails
      BY <2>2 DEF InboxTypeOK, InboxFetchFails, inboxBell
    <2> QED  BY <1>3, <2>1, <2>2
  <1>4. CASE InboxFetched  BY <1>4, InboxFetchedType
  <1>5. CASE InboxAckAll  BY <1>5, InboxAckAllType
  <1>6. CASE \E call \in inboxCalls : InboxServe(call)  BY <1>6, InboxServeType
  <1>7. CASE \E n \in Notices :
                InboxAck(n) \/ InboxSnooze(n) \/ InboxComplete(n) \/ InboxRetry(n)
    BY <1>7, InboxGestureType
  <1>8. CASE UNCHANGED inboxVars  BY <1>8 DEF InboxTypeOK, inboxVars
  <1> QED  BY <1>1, <1>2, <1>3, <1>4, <1>5, <1>6, <1>7, <1>8 DEF InboxNext

LEMMA InboxInitType == InboxInit => InboxTypeOK
  <1> SUFFICES ASSUME InboxInit PROVE InboxTypeOK
    OBVIOUS
  <1>1. inboxState \in [Notices -> InboxStates]  BY DEF InboxInit, InboxStates
  <1>2. inboxSent \in 0..InboxWrites  BY InboxAssumption DEF InboxInit
  <1> QED  BY <1>1, <1>2 DEF InboxInit, InboxTypeOK

\* Deliveries, requests, the list and the toasts keep their types.
THEOREM InboxType == InboxSpec => []InboxTypeOK
  BY InboxInitType, InboxStepType, PTL DEF InboxSpec

-----------------------------------------------------------------------------
(* An acknowledgement is final                                             *)

\* What is listed or was acknowledged has been raised: only a snooze forgets that.
InboxRaised ==
    /\ InboxTypeOK
    /\ inboxList \subseteq inboxToasted
    /\ inboxAsked \subseteq inboxToasted
    /\ inboxToasts \cap inboxAsked = {}

LEMMA InboxRaisedStep ==
    ASSUME InboxRaised, [InboxNext]_inboxVars
    PROVE  InboxRaised'
  <1>0. InboxTypeOK'  BY InboxStepType DEF InboxRaised
  <1>1. CASE UNCHANGED <<inboxList, inboxAsked, inboxToasted, inboxToasts>>
    BY <1>0, <1>1 DEF InboxRaised
  <1>2. CASE InboxFetched
    BY <1>0, <1>2 DEF InboxRaised, InboxFetched, InboxToast
  <1>3. CASE InboxAckAll
    BY <1>0, <1>3 DEF InboxRaised, InboxAckAll
  <1>4. ASSUME NEW n \in Notices, InboxAck(n)
        PROVE  InboxRaised'
    BY <1>0, <1>4 DEF InboxRaised, InboxAck, InboxTypeOK
  <1>5. ASSUME NEW n \in Notices, InboxSnooze(n)
        PROVE  InboxRaised'
    BY <1>0, <1>5 DEF InboxRaised, InboxSnooze
  <1>6. ASSUME NEW n \in Notices, InboxComplete(n)
        PROVE  InboxRaised'
    BY <1>0, <1>6 DEF InboxRaised, InboxComplete, InboxTypeOK
  <1>7. \/ UNCHANGED <<inboxList, inboxAsked, inboxToasted, inboxToasts>>
        \/ InboxFetched \/ InboxAckAll
        \/ \E n \in Notices : InboxAck(n) \/ InboxSnooze(n) \/ InboxComplete(n)
    BY DEF InboxNext, inboxVars, inboxBell, InboxServerSteps, InboxPoll, InboxAnswer,
           InboxFetchFails, InboxServe, InboxRetry
  <1> QED  BY <1>1, <1>2, <1>3, <1>4, <1>5, <1>6, <1>7

\* A delivery that was acknowledged while toastedRef holds it raises no toast again until
\* it is snoozed, however late the answers that still list it come, and whether the toast,
\* the panel or an old notification acknowledged it.
THEOREM AckIsFinal == InboxSpec => []InboxAckIsFinal
  <1>1. InboxInit => InboxRaised  BY InboxInitType DEF InboxInit, InboxRaised
  <1>2. InboxRaised /\ [InboxNext]_inboxVars => InboxRaised'  BY InboxRaisedStep
  <1>3. InboxRaised => InboxAckIsFinal  BY DEF InboxRaised, InboxAckIsFinal
  <1> QED  BY <1>1, <1>2, <1>3, PTL DEF InboxSpec

-----------------------------------------------------------------------------
(* The list ends up right                                                  *)

\* Deliveries with a request under way that takes them out of the list.
InboxPending == {n \in Notices : \E c \in inboxCalls : c.id = n /\ c.op \in {"ack", "snooze"}}

\* Nothing is shown, and no request of the bell sent, before the query has data: those
\* that change what is unseen never join a fetch.
InboxUnloaded ==
    ~inboxLoaded =>
        /\ inboxList = {} /\ inboxToasts = {} /\ inboxNotes = {}
        /\ \A c \in inboxCalls : c.op \notin {"ack", "snooze"}

LEMMA InboxUnloadedStep ==
    ASSUME InboxTypeOK, InboxUnloaded, [InboxNext]_inboxVars
    PROVE  InboxUnloaded'
  <1>1. CASE inboxLoaded
    BY <1>1 DEF InboxUnloaded, InboxNext, inboxVars, inboxBell, InboxServerSteps, InboxPoll,
                InboxAnswer, InboxFetchFails, InboxFetched, InboxServe, InboxAck, InboxSnooze,
                InboxComplete, InboxAckAll, InboxRetry
  <1>2. CASE InboxFetched  BY <1>2 DEF InboxUnloaded, InboxFetched
  <1>3. CASE ~inboxLoaded
    <2>1. /\ ~InboxAckAll
          /\ \A n \in Notices : ~InboxAck(n) /\ ~InboxSnooze(n) /\ ~InboxComplete(n)
      BY <1>3 DEF InboxUnloaded, InboxAckAll, InboxAck, InboxClick, InboxSnooze, InboxComplete
    <2>2. CASE \E n \in Notices : InboxRetry(n)
      BY <1>3, <2>2 DEF InboxUnloaded, InboxRetry, InboxSend, inboxBell
    <2>3. CASE UNCHANGED <<inboxLoaded, inboxList, inboxToasts, inboxNotes>>
               /\ inboxCalls' \subseteq inboxCalls
      BY <1>3, <2>3 DEF InboxUnloaded
    <2>4. \/ \E n \in Notices : InboxRetry(n)
          \/ InboxFetched
          \/ UNCHANGED <<inboxLoaded, inboxList, inboxToasts, inboxNotes>>
             /\ inboxCalls' \subseteq inboxCalls
      BY <2>1 DEF InboxNext, inboxVars, inboxBell, InboxServerSteps, InboxPoll, InboxAnswer,
                  InboxFetchFails, InboxServe
    <2> QED  BY <1>2, <2>2, <2>3, <2>4
  <1> QED  BY <1>1, <1>3

\* While the tab knows of every change, an answer in hand is right, and the list lacks only
\* what it has taken out itself.
InboxInv ==
    /\ InboxTypeOK
    /\ ~inboxStale /\ inboxFetch.at = "answered" => inboxFetch.ids = InboxUnseen
    /\ ~inboxStale /\ inboxFetch.at = "idle" =>
          /\ inboxList \subseteq InboxUnseen
          /\ InboxUnseen \subseteq inboxList \cup InboxPending

LEMMA InboxAskedInv ==
    ASSUME InboxTypeOK', inboxStale' \/ inboxFetch'.at = "asked"
    PROVE  InboxInv'
  BY DEF InboxInv

\* Taking deliveries out of the list, with a request for each, keeps it.
LEMMA InboxTakenInv ==
    ASSUME InboxInv, InboxTypeOK', NEW taken \in SUBSET Notices,
           UNCHANGED <<inboxState, inboxFetch, inboxStale>>,
           inboxList' = inboxList \ taken,
           inboxCalls \subseteq inboxCalls',
           \A n \in taken : \E c \in inboxCalls' : c.id = n /\ c.op \in {"ack", "snooze"}
    PROVE  InboxInv'
  <1>1. InboxUnseen' = InboxUnseen  BY DEF InboxUnseen
  <1>2. InboxPending \cup taken \subseteq InboxPending'  BY DEF InboxPending
  <1> QED  BY <1>1, <1>2 DEF InboxInv

\* The answer of a request asks again, unless it changed nothing that is unseen.
LEMMA InboxServeInv ==
    ASSUME InboxInv, InboxUnloaded, InboxTypeOK', NEW call \in inboxCalls, InboxServe(call)
    PROVE  InboxInv'
  <1>1. CASE inboxFetch'.at = "asked"  BY <1>1, InboxAskedInv
  <1>2. CASE inboxFetch'.at # "asked"
    <2>1. call.op \notin {"ack", "snooze"} /\ UNCHANGED <<inboxFetch, inboxStale>>
      BY <1>2 DEF InboxServe, InboxSettled, InboxAsk, InboxUnloaded
    <2>2. call \in InboxCall /\ inboxState \in [Notices -> InboxStates]
      BY DEF InboxInv, InboxTypeOK
    <2>3. \/ InboxAfter(call) = inboxState[call.id]
          \/ inboxState[call.id] = "dead" /\ InboxAfter(call) = "waiting"
      BY <2>1 DEF InboxAfter
    <2>4. \A n \in Notices : inboxState'[n] = "unseen" <=> inboxState[n] = "unseen"
      <3> TAKE n \in Notices
      <3>1. \/ inboxState' = inboxState
            \/ inboxState' = [inboxState EXCEPT ![call.id] = InboxAfter(call)]
        BY DEF InboxServe
      <3>2. CASE call.id = n  BY <2>2, <2>3, <3>1, <3>2
      <3>3. CASE call.id # n  BY <2>2, <3>1, <3>3
      <3> QED  BY <3>2, <3>3
    <2>5. InboxPending' = InboxPending
      BY <2>1 DEF InboxPending, InboxServe
    <2>6. InboxUnseen' = InboxUnseen  BY <2>4 DEF InboxUnseen
    <2> QED  BY <2>1, <2>5, <2>6 DEF InboxInv, InboxServe
  <1> QED  BY <1>1, <1>2

LEMMA InboxGestureInv ==
    ASSUME InboxInv, InboxTypeOK', NEW n \in Notices,
           InboxAck(n) \/ InboxSnooze(n) \/ InboxComplete(n) \/ InboxRetry(n)
    PROVE  InboxInv'
  <1>1. CASE InboxAck(n) \/ InboxSnooze(n)
    <2>1. PICK op \in {"ack", "snooze"} : InboxSend(op, n)
      BY <1>1 DEF InboxAck, InboxSnooze
    <2>2. inboxCalls' = inboxCalls \cup {[op |-> op, id |-> n]}  BY <2>1 DEF InboxSend
    <2>3. /\ inboxCalls \subseteq inboxCalls'
          /\ \A m \in {n} : \E c \in inboxCalls' : c.id = m /\ c.op \in {"ack", "snooze"}
      <3>1. [op |-> op, id |-> n] \in inboxCalls'  BY <2>2
      <3>2. [op |-> op, id |-> n].id = n /\ [op |-> op, id |-> n].op \in {"ack", "snooze"}
        BY <2>1
      <3> QED  BY <2>2, <3>1, <3>2, Zenon
    <2>4. /\ UNCHANGED <<inboxState, inboxFetch, inboxStale>>
          /\ inboxList' = inboxList \ {n}
      BY <1>1 DEF InboxAck, InboxSnooze
    <2>5. {n} \in SUBSET Notices  OBVIOUS
    <2> QED  BY <2>3, <2>4, <2>5, InboxTakenInv, Zenon
  <1>2. CASE InboxComplete(n)
    <2>1. inboxCalls' = inboxCalls \cup [op : {"ack", "complete"}, id : {n}]
      BY <1>2 DEF InboxComplete
    <2>2. /\ inboxCalls \subseteq inboxCalls'
          /\ \A m \in {n} : \E c \in inboxCalls' : c.id = m /\ c.op \in {"ack", "snooze"}
      <3>1. [op |-> "ack", id |-> n] \in inboxCalls'  BY <2>1
      <3> QED  BY <2>1, <3>1
    <2>3. /\ UNCHANGED <<inboxState, inboxFetch, inboxStale>>
          /\ inboxList' = inboxList \ {n}
      BY <1>2 DEF InboxComplete
    <2>4. {n} \in SUBSET Notices  OBVIOUS
    <2> QED  BY <2>2, <2>3, <2>4, InboxTakenInv, Zenon
  <1>3. CASE InboxRetry(n)
    <2>1. /\ inboxCalls \subseteq inboxCalls' /\ inboxList' = inboxList \ {}
          /\ UNCHANGED <<inboxState, inboxFetch, inboxStale>>
          /\ {} \in SUBSET Notices
          /\ \A m \in {} : \E c \in inboxCalls' : c.id = m /\ c.op \in {"ack", "snooze"}
      BY <1>3 DEF InboxRetry, InboxSend, inboxBell
    <2> QED  BY <2>1, InboxTakenInv, Zenon
  <1> QED  BY <1>1, <1>2, <1>3

LEMMA InboxAckAllInv ==
    ASSUME InboxInv, InboxTypeOK', InboxAckAll
    PROVE  InboxInv'
  <1>1. inboxList \in SUBSET Notices  BY DEF InboxInv, InboxTypeOK
  <1>2. \A n \in inboxList : \E c \in inboxCalls' : c.id = n /\ c.op \in {"ack", "snooze"}
    <2>1. \A n \in inboxList : [op |-> "ack", id |-> n] \in inboxCalls'  BY DEF InboxAckAll
    <2> QED  BY <2>1
  <1>3. inboxList' = inboxList \ inboxList /\ inboxCalls \subseteq inboxCalls'
    BY DEF InboxAckAll
  <1>4. UNCHANGED <<inboxState, inboxFetch, inboxStale>>  BY DEF InboxAckAll
  <1> QED  BY <1>1, <1>2, <1>3, <1>4, InboxTakenInv, Zenon

\* Every step keeps what the bell lists.
LEMMA InboxInvStep ==
    ASSUME InboxInv, InboxUnloaded, [InboxNext]_inboxVars
    PROVE  InboxInv'
  <1>0. InboxTypeOK'  BY InboxStepType DEF InboxInv
  <1>1. CASE InboxServerSteps
    <2>1. inboxStale' \/ inboxFetch'.at = "asked"  BY <1>1 DEF InboxServerSteps
    <2> QED  BY <1>0, <2>1, InboxAskedInv
  <1>2. CASE InboxPoll \/ InboxFetchFails
    <2>1. inboxStale' \/ inboxFetch'.at = "asked"
      BY <1>2 DEF InboxPoll, InboxAsk, InboxFetchFails
    <2> QED  BY <1>0, <2>1, InboxAskedInv
  <1>3. CASE InboxAnswer
    <2>1. InboxUnseen' = InboxUnseen  BY <1>3 DEF InboxAnswer, InboxUnseen
    <2> QED  BY <1>0, <1>3, <2>1 DEF InboxAnswer, InboxInv
  <1>4. CASE InboxFetched
    <2>1. InboxUnseen' = InboxUnseen  BY <1>4 DEF InboxFetched, InboxUnseen
    <2> QED  BY <1>0, <1>4, <2>1 DEF InboxFetched, InboxInv
  <1>5. CASE InboxAckAll  BY <1>0, <1>5, InboxAckAllInv
  <1>6. CASE \E call \in inboxCalls : InboxServe(call)  BY <1>0, <1>6, InboxServeInv
  <1>7. CASE \E n \in Notices :
                InboxAck(n) \/ InboxSnooze(n) \/ InboxComplete(n) \/ InboxRetry(n)
    BY <1>0, <1>7, InboxGestureInv
  <1>8. CASE UNCHANGED inboxVars
    <2>1. InboxUnseen' = InboxUnseen /\ InboxPending' = InboxPending
      BY <1>8 DEF inboxVars, InboxUnseen, InboxPending
    <2> QED  BY <1>0, <1>8, <2>1 DEF inboxVars, InboxInv
  <1> QED  BY <1>1, <1>2, <1>3, <1>4, <1>5, <1>6, <1>7, <1>8 DEF InboxNext

\* Once the answers are in, the bell lists what the server has unseen: each mutation asks
\* again when it settles, also when it failed (onSettled of ack and snooze).
THEOREM BellSettles == InboxSpec => []InboxSettles
  <1>1. InboxInit => InboxInv /\ InboxUnloaded
    BY InboxInitType DEF InboxInit, InboxInv, InboxUnloaded
  <1>2. InboxInv /\ InboxUnloaded /\ [InboxNext]_inboxVars => (InboxInv /\ InboxUnloaded)'
    BY InboxInvStep, InboxUnloadedStep DEF InboxInv
  <1>3. InboxInv => InboxSettles
    BY DEF InboxInv, InboxSettles, InboxQuiet, InboxPending, InboxUnseen, InboxTypeOK, InboxCall
  <1> QED  BY <1>1, <1>2, <1>3, PTL DEF InboxSpec

-----------------------------------------------------------------------------
(* The shell                                                               *)

\* The answer of a search has at most one item of each scope.
LEMMA SearchResultsType ==
    ASSUME NEW r \in SearchResults
    PROVE  /\ r \in Seq(ShellItems)
           /\ Len(r) \in 0..2
  <1>1. CASE r = <<>>  BY <1>1
  <1>2. CASE \E i \in ShellItems : r = <<i>>  BY <1>2
  <1>3. CASE r \in WorkItems \X PersonalItems
    <2>1. PICK w \in WorkItems, p \in PersonalItems : r = <<w, p>>  BY <1>3
    <2>2. w \in ShellItems /\ p \in ShellItems  BY DEF ShellItems
    <2> QED  BY <2>1, <2>2
  <1> QED  BY <1>1, <1>2, <1>3 DEF SearchResults

ShellNote == [item : ShellItems \cup {NoItem}, view : ShellLists \cup {NoItem}]
ShellAsk == [item : ShellItems, by : {"bell", "search"}, away : BOOLEAN]
ShellSearch == [input : ShellTerms \cup {NoItem}, term : ShellTerms \cup {NoItem},
                results : SearchResults, index : -1..1]

\* A page that mounts has applied the view of its own note or none.
LEMMA MountType ==
    ASSUME ShellTypeOK, NEW page \in ShellPages, Mount(page)
    PROVE  /\ shellDrawer' \in ShellItems \cup {NoItem}
           /\ shellView' \in {page, NoItem}
           /\ shellNotes' \in ShellNote
  <1>1. shellNotes \in ShellNote  BY DEF ShellTypeOK, ShellNote
  <1>2. shellDrawer' \in ShellItems \cup {NoItem} /\ shellView' \in {page, NoItem}
    BY <1>1 DEF Mount, TakenItem, TakenView, ShellNote
  <1>3. ShellNotesLeft(page) \in ShellNote  BY <1>1 DEF ShellNotesLeft, ShellNote
  <1> QED  BY <1>2, <1>3 DEF Mount

\* The note for the page of an item, and who asked for it.
LEMMA AskForType ==
    ASSUME ShellTypeOK, NEW item \in ShellItems, NEW by \in {"bell", "search"},
           AskFor(item, by)
    PROVE  /\ shellHash' \in ShellPages
           /\ shellNotes' \in ShellNote
           /\ shellAsked' \in ShellAsk
  <1>1. shellNotes \in ShellNote  BY DEF ShellTypeOK, ShellNote
  <1>2. shellNotes' \in ShellNote  BY <1>1 DEF AskFor, ShellNote
  <1> QED  BY <1>2 DEF AskFor, ShellAsk, Navigate, ItemPage, ShellPages

\* Nothing is open, asked for or applied before the session is known; and an item asked for
\* from another page is in the note of the page that is to be rendered, then in its drawer.
ShellInv ==
    /\ ShellTypeOK
    /\ shellSession # "in" => shellDialogs = {} /\ shellAsked = NoItem /\ shellView = NoItem
    /\ shellAsked # NoItem /\ shellAsked.away =>
          IF shellHash = shellPage THEN shellDrawer = shellAsked.item
          ELSE shellNotes.item = shellAsked.item /\ shellHash = ItemPage(shellAsked.item)

\* A step that changes dialogs, the search or the counter only.
LEMMA ShellAsideStep ==
    ASSUME ShellInv,
           UNCHANGED <<shellSession, shellCookie, shellHash, shellPage, shellReview, shellNotes,
                       shellDrawer, shellView, shellAsked>>,
           shellDialogs' \subseteq ShellKinds, shellSession = "in",
           shellSearch' \in ShellSearch, shellActs' \in 0..ShellActs
    PROVE  ShellInv'
  BY DEF ShellInv, ShellTypeOK, ShellSearch, ShellNote, ShellAsk

LEMMA ShellSearchStep ==
    ASSUME ShellInv,
           SearchType \/ SearchDebounce \/ SearchAnswer \/ SearchMove
    PROVE  ShellInv'
  <1>1. /\ UNCHANGED <<shellSession, shellCookie, shellHash, shellPage, shellDialogs,
                       shellReview, shellNotes, shellDrawer, shellView, shellAsked>>
        /\ shellSession = "in"
    BY DEF ShellInv, SearchOpen, SearchType, SearchDebounce, SearchAnswer, SearchMove,
           SearchUnchanged
  <1>2. shellActs' \in 0..ShellActs
    BY ShellAssumption DEF ShellInv, ShellTypeOK, SearchType, SearchDebounce, SearchAnswer,
           SearchMove, ShellAct
  <1>3. shellSearch \in ShellSearch  BY DEF ShellInv, ShellTypeOK, ShellSearch
  <1>4. shellSearch' \in ShellSearch
    <2>1. CASE SearchType  BY <1>3, <2>1 DEF SearchType, ShellSearch
    <2>2. CASE SearchDebounce
      <3>1. <<>> \in SearchResults /\ 0 \in -1..1  BY DEF SearchResults
      <3>2. shellSearch.input \in ShellTerms \cup {NoItem}  BY <1>3 DEF ShellSearch
      <3>3. shellSearch' = [shellSearch EXCEPT !.term = shellSearch.input, !.results = <<>>,
                                               !.index = 0]
        BY <2>2 DEF SearchDebounce
      <3> QED  BY <1>3, <3>1, <3>2, <3>3 DEF ShellSearch
    <2>3. CASE SearchAnswer  BY <1>3, <2>3 DEF SearchAnswer, ShellSearch
    <2>4. CASE SearchMove
      <3>1. /\ shellSearch.results \in SearchResults
            /\ shellSearch.index \in -1..1
        BY <1>3 DEF ShellSearch
      <3>2. Len(shellSearch.results) \in 0..2  BY <3>1, SearchResultsType
      <3>3. PICK i \in -1..1 : shellSearch' = [shellSearch EXCEPT !.index = i]
        <4> DEFINE last == Len(shellSearch.results) - 1
                   i == shellSearch.index
        <4>1. \/ shellSearch' = [shellSearch EXCEPT !.index = IF i + 1 < last THEN i + 1 ELSE last]
              \/ shellSearch' = [shellSearch EXCEPT !.index = IF i > 0 THEN i - 1 ELSE 0]
          BY <2>4 DEF SearchMove
        <4>2. last \in -1..1 /\ i \in -1..1  BY <3>1, <3>2
        <4> HIDE DEF last, i
        <4>3. /\ (IF i + 1 < last THEN i + 1 ELSE last) \in -1..1
              /\ (IF i > 0 THEN i - 1 ELSE 0) \in -1..1
          BY <4>2
        <4> QED  BY <4>1, <4>3
      <3> QED  BY <1>3, <3>3 DEF ShellSearch
    <2> QED  BY <2>1, <2>2, <2>3, <2>4
  <1> QED  BY <1>1, <1>2, <1>4, ShellAsideStep DEF ShellInv, ShellTypeOK

\* Leaving a note and going to the page of the item.
LEMMA ShellAskStep ==
    ASSUME ShellInv, OpenFromBell \/ SearchEnter
    PROVE  ShellInv'
  <1>1. PICK item \in ShellItems, by \in {"bell", "search"} : AskFor(item, by)
    <2>1. CASE OpenFromBell  BY <2>1 DEF OpenFromBell
    <2>2. CASE SearchEnter
      <3>1. shellSearch.results \in Seq(ShellItems)
        BY SearchResultsType DEF ShellInv, ShellTypeOK
      <3>2. PICK i \in DOMAIN shellSearch.results : AskFor(shellSearch.results[i], "search")
        BY <2>2 DEF SearchEnter
      <3> QED  BY <3>1, <3>2
    <2> QED  BY <2>1, <2>2
  <1>2. /\ shellHash' \in ShellPages /\ shellNotes' \in ShellNote /\ shellAsked' \in ShellAsk
    BY <1>1, AskForType DEF ShellInv
  <1>3. /\ UNCHANGED <<shellSession, shellCookie, shellPage, shellReview, shellDrawer,
                       shellView>>
        /\ shellSession = "in"
        /\ shellDialogs' \subseteq shellDialogs
    BY DEF ShellInv, SearchOpen, OpenFromBell, SearchEnter
  <1>4. shellSearch' \in ShellSearch
    BY DEF ShellInv, ShellTypeOK, OpenFromBell, SearchEnter, ShellSearch, SearchStart,
           SearchResults
  <1>5. shellActs' \in 0..ShellActs
    BY ShellAssumption DEF ShellInv, ShellTypeOK, OpenFromBell, SearchEnter, ShellAct
  <1>6. ShellTypeOK'
    BY <1>2, <1>3, <1>4, <1>5 DEF ShellInv, ShellTypeOK, ShellNote, ShellAsk, ShellSearch
  <1>7. /\ shellNotes'.item = item /\ shellAsked'.item = item
        /\ shellHash' = ItemPage(item)
        /\ shellAsked'.away <=> shellPage # ItemPage(item)
    BY <1>1 DEF AskFor, Navigate, ShellInv, ShellTypeOK
  <1> QED  BY <1>3, <1>6, <1>7 DEF ShellInv

\* A page is rendered: after the answer of the session query, a login, or a new hash.
LEMMA ShellMountStep ==
    ASSUME ShellInv, SessionAnswer \/ Login \/ HashChange
    PROVE  ShellInv'
  <1>1. CASE UNCHANGED <<shellDrawer, shellView, shellNotes>> /\ shellSession' # "in"
    <2>1. shellView = NoItem /\ shellAsked = NoItem /\ shellDialogs = {}
          /\ UNCHANGED <<shellAsked, shellDialogs>>
      BY <1>1 DEF ShellInv, SessionAnswer, Login, HashChange
    <2>2. ShellTypeOK'
      BY <1>1, <2>1 DEF ShellInv, ShellTypeOK, SessionAnswer, Login, HashChange
    <2> QED  BY <1>1, <2>1, <2>2 DEF ShellInv
  <1>2. CASE Mount(shellPage') /\ shellSession' = "in"
    <2>1. shellPage' \in ShellPages  BY DEF ShellInv, ShellTypeOK, SessionAnswer, Login, HashChange
    <2>2. /\ shellDrawer' \in ShellItems \cup {NoItem} /\ shellView' \in {shellPage', NoItem}
          /\ shellNotes' \in ShellNote
      BY <1>2, <2>1, MountType DEF ShellInv
    <2>3. /\ UNCHANGED <<shellHash, shellDialogs, shellReview, shellSearch, shellAsked>>
          /\ shellCookie' \in BOOLEAN /\ shellActs' \in 0..ShellActs
      <3>1. shellCookie \in BOOLEAN /\ shellActs \in 0..ShellActs  BY DEF ShellInv, ShellTypeOK
      <3>2. CASE SessionAnswer  BY <3>1, <3>2 DEF SessionAnswer
      <3>3. CASE Login  BY <3>1, <3>3, ShellAssumption DEF Login, ShellAct
      <3>4. CASE HashChange  BY <3>1, <3>4 DEF HashChange
      <3> QED  BY <3>2, <3>3, <3>4
    <2>4. ShellTypeOK'  BY <1>2, <2>1, <2>2, <2>3 DEF ShellInv, ShellTypeOK, ShellNote
    <2>5. ASSUME shellAsked # NoItem, shellAsked.away
          PROVE  shellHash' = shellPage' /\ shellDrawer' = shellAsked.item
      <3>1. HashChange /\ shellSession = "in"
        BY <2>5 DEF ShellInv, SessionAnswer, Login, HashChange
      <3>2. shellNotes.item = shellAsked.item /\ shellHash = ItemPage(shellAsked.item)
        BY <2>5, <3>1 DEF ShellInv, HashChange
      <3> QED
        BY <1>2, <3>1, <3>2 DEF HashChange, Mount, TakenItem, ItemPage, ShellLists
    <2> QED  BY <1>2, <2>3, <2>4, <2>5 DEF ShellInv
  <1>3. \/ UNCHANGED <<shellDrawer, shellView, shellNotes>> /\ shellSession' # "in"
        \/ Mount(shellPage') /\ shellSession' = "in"
    <2>1. CASE SessionAnswer
      <3>1. shellPage' = shellPage  BY <2>1 DEF SessionAnswer
      <3> QED  BY <2>1, <3>1 DEF SessionAnswer
    <2>2. CASE Login
      <3>1. shellPage' = shellPage  BY <2>2 DEF Login
      <3> QED  BY <2>2, <3>1 DEF Login
    <2>3. CASE HashChange  BY <2>3 DEF HashChange
    <2> QED  BY <2>1, <2>2, <2>3
  <1> QED  BY <1>1, <1>2, <1>3

\* A step after which no item is asked for, or only the preference is another.
LEMMA ShellLeaveStep ==
    ASSUME ShellInv,
           Logout \/ SidebarClick \/ ShellCloseDrawer \/ OpenView \/ EnableReview
    PROVE  ShellInv'
  <1>1. shellActs' \in 0..ShellActs
    <2>1. shellActs' = shellActs \/ ShellAct
      BY DEF Logout, SidebarClick, ShellCloseDrawer, OpenView, EnableReview
    <2> QED  BY <2>1, ShellAssumption DEF ShellInv, ShellTypeOK, ShellAct
  <1>2. ShellTypeOK'
    <2>1. CASE Logout
      <3>1. SearchStart \in ShellSearch  BY DEF SearchStart, ShellSearch, SearchResults
      <3> QED
        BY <1>1, <2>1, <3>1 DEF ShellInv, ShellTypeOK, Logout, ShellPages, ShellSearch
    <2>2. CASE SidebarClick \/ ShellCloseDrawer \/ EnableReview
      BY <1>1, <2>2 DEF ShellInv, ShellTypeOK, SidebarClick, ShellCloseDrawer, EnableReview,
                        Navigate
    <2>3. CASE OpenView
      <3>1. shellNotes \in ShellNote  BY DEF ShellInv, ShellTypeOK, ShellNote
      <3>2. shellNotes' \in ShellNote /\ shellHash' \in ShellPages
        BY <2>3, <3>1 DEF OpenView, ShellNote, Navigate, ShellLists, ShellPages
      <3> QED  BY <1>1, <2>3, <3>2 DEF ShellInv, ShellTypeOK, OpenView, ShellNote
    <2> QED  BY <2>1, <2>2, <2>3
  <1>3. CASE EnableReview
    BY <1>2, <1>3 DEF ShellInv, EnableReview
  <1>4. CASE shellAsked' = NoItem
    BY <1>2, <1>4 DEF ShellInv, Logout, SidebarClick, ShellCloseDrawer, OpenView, EnableReview
  <1> QED
    BY <1>3, <1>4 DEF Logout, SidebarClick, ShellCloseDrawer, OpenView

LEMMA ShellStep ==
    ASSUME ShellInv, [ShellNext]_shellVars
    PROVE  ShellInv'
  <1>1. CASE ToggleDialog
    <2>1. SearchStart \in ShellSearch  BY DEF SearchStart, ShellSearch, SearchResults
    <2>2. shellSearch' \in ShellSearch /\ shellDialogs' \subseteq ShellKinds
      BY <1>1, <2>1 DEF ToggleDialog, ShellInv, ShellTypeOK, ShellSearch
    <2>3. shellActs' \in 0..ShellActs
      BY <1>1, ShellAssumption DEF ToggleDialog, ShellInv, ShellTypeOK, ShellAct
    <2> QED  BY <1>1, <2>2, <2>3, ShellAsideStep DEF ToggleDialog
  <1>2. CASE UNCHANGED shellVars
    BY <1>2 DEF ShellInv, ShellTypeOK, shellVars
  <1> QED
    BY <1>1, <1>2, ShellSearchStep, ShellAskStep, ShellMountStep, ShellLeaveStep DEF ShellNext

LEMMA ShellInitInv == ShellInit => ShellInv
  <1> SUFFICES ASSUME ShellInit PROVE ShellInv
    OBVIOUS
  <1>1. SearchStart \in ShellSearch  BY DEF SearchStart, ShellSearch, SearchResults
  <1>2. ShellTypeOK
    BY <1>1, ShellAssumption DEF ShellInit, ShellTypeOK, ShellSearch, ShellPages
  <1> QED  BY <1>2 DEF ShellInit, ShellInv

\* Session, pages, notes and the search keep their types.
THEOREM ShellType == ShellSpec => []ShellTypeOK
  <1>1. ShellInv => ShellTypeOK  BY DEF ShellInv
  <1> QED  BY <1>1, ShellInitInv, ShellStep, PTL DEF ShellSpec

\* An item asked for by the bell or the search, from any page but its own, is the one that
\* opens: the note is left before the hash changes, and read by the mount that follows.
THEOREM OpensFromAway == ShellSpec => []ShellOpensFromAway
  <1>1. ShellInv => ShellOpensFromAway  BY DEF ShellInv, ShellOpensFromAway
  <1> QED  BY <1>1, ShellInitInv, ShellStep, PTL DEF ShellSpec

-----------------------------------------------------------------------------
(* Tags: invariants                                                        *)

\* A call that makes a tag names it.
TagNamed == \A c \in tagCalls : c.op = "create" => c.name \in TagNames

\* Unless the page has still to hear of a write of its own, or a write was missed, an answer
\* in hand, or the page without one on its way, has the rows of the table.
TagSync ==
    ~tagStale /\ (\A c \in tagCalls : c.at # "written") =>
        /\ tagFetch.at = "answered" => tagFetch.rows = tagRows
        /\ tagFetch.at = "idle" => tagList = tagRows

TagInv == TagTypeOK /\ TagNamed
-----------------------------------------------------------------------------
(* Tags: types                                                             *)

TagFetches == [at : {"idle", "asked", "answered"}, rows : TagTables]
TagSelections == TagIds \cup {NoTag}

\* A table is a function from some tags to their rows.
LEMMA TagTable ==
    \A rows : rows \in TagTables
                <=> DOMAIN rows \subseteq TagIds /\ rows \in [DOMAIN rows -> TagRow]
  <1> SUFFICES ASSUME NEW rows
               PROVE  rows \in TagTables
                        <=> DOMAIN rows \subseteq TagIds /\ rows \in [DOMAIN rows -> TagRow]
    OBVIOUS
  <1>1. ASSUME rows \in TagTables
        PROVE  DOMAIN rows \subseteq TagIds /\ rows \in [DOMAIN rows -> TagRow]
    BY <1>1 DEF TagTables
  <1>2. ASSUME DOMAIN rows \subseteq TagIds, rows \in [DOMAIN rows -> TagRow]
        PROVE  rows \in TagTables
    BY <1>2 DEF TagTables
  <1> QED  BY <1>1, <1>2

LEMMA TagNoTable ==
    /\ <<>> \in TagTables /\ DOMAIN <<>> = {}
    /\ \A at \in {"idle", "asked"} : TagFetch(at, <<>>) \in TagFetches
  <1>1. DOMAIN <<>> = {} /\ <<>> \in [{} -> TagRow]  OBVIOUS
  <1>2. <<>> \in TagTables  BY <1>1, TagTable
  <1> QED  BY <1>1, <1>2 DEF TagFetch, TagFetches

\* What a write makes of a table is a table.
LEMMA TagWrittenType ==
    ASSUME NEW rows \in TagTables, NEW call \in TagCall,
           call.op = "create" => call.name \in TagNames
    PROVE  TagWritten(rows, call) \in TagTables
  <1>0. /\ DOMAIN rows \subseteq TagIds /\ rows \in [DOMAIN rows -> TagRow]
        /\ call.tag \in TagIds /\ call.parent \in TagIds \cup {NoTag}
        /\ call.name \in TagNames \cup {NoTag}
        /\ call.op \in {"create", "move", "patch", "delete"}
    BY TagTable DEF TagCall
  <1>1. CASE call.op = "create"
    <2> DEFINE new == [t \in DOMAIN rows \cup {call.tag} |->
                          IF t = call.tag THEN [name |-> call.name, parent |-> call.parent]
                          ELSE rows[t]]
    <2>1. TagWritten(rows, call) = new  BY <1>1 DEF TagWritten
    <2>2. new \in [DOMAIN rows \cup {call.tag} -> TagRow]  BY <1>0, <1>1 DEF TagRow
    <2> QED  BY <1>0, <2>1, <2>2 DEF TagTables
  <1>2. CASE call.op = "move"
    <2>1. TagWritten(rows, call) = [rows EXCEPT ![call.tag].parent = call.parent]
      BY <1>2 DEF TagWritten
    <2>2. [rows EXCEPT ![call.tag].parent = call.parent] \in [DOMAIN rows -> TagRow]
      BY <1>0 DEF TagRow
    <2> QED  BY <1>0, <2>1, <2>2 DEF TagTables
  <1>3. CASE call.op = "patch"
    <2> DEFINE new == [rows EXCEPT ![call.tag].name = IF call.name = NoTag THEN @ ELSE call.name]
    <2>1. TagWritten(rows, call) = new  BY <1>3 DEF TagWritten
    <2>2. new \in [DOMAIN rows -> TagRow]  BY <1>0 DEF TagRow
    <2> QED  BY <1>0, <2>1, <2>2 DEF TagTables
  <1>4. CASE call.op = "delete"
    <2> DEFINE left == DOMAIN rows \ TagBelow(rows, call.tag)
    <2>1. TagWritten(rows, call) = [t \in left |-> rows[t]]  BY <1>4 DEF TagWritten
    <2>2. [t \in left |-> rows[t]] \in [left -> TagRow]  BY <1>0
    <2> QED  BY <1>0, <2>1, <2>2 DEF TagTables
  <1> QED  BY <1>0, <1>1, <1>2, <1>3, <1>4

\* What the page selects is what was selected, or a root of the tree.
LEMMA TagSelectedType ==
    ASSUME NEW rows \in TagTables, NEW sel \in TagSelections
    PROVE  TagSelected(sel, rows) \subseteq TagSelections
  BY TagTable DEF TagSelected, TagRoots, TagSelections

LEMMA TagInitType == TagInit => TagInv
  <1> SUFFICES ASSUME TagInit PROVE TagInv
    OBVIOUS
  <1>1. PICK root \in TagIds, other \in TagIds, names \in [1..2 -> TagNames] :
          /\ \E parent \in {root, NoTag} :
                 tagRows = [t \in {root, other} |->
                     IF t = root THEN [name |-> names[1], parent |-> NoTag]
                     ELSE [name |-> names[2], parent |-> parent]]
          /\ tagItem = [tags |-> {other}, done |-> FALSE, version |-> 1]
          /\ tagSel \in TagSelected(NoTag, tagList) \cup {other}
    BY Zenon DEF TagInit
  <1>0. /\ tagCalls = {} /\ tagSent = 0
        /\ \/ tagLoaded = FALSE /\ tagList = <<>>
           \/ tagLoaded = TRUE /\ tagList = tagRows
        /\ tagFetch = TagFetch("asked", <<>>) /\ tagStale = FALSE
        /\ tagForm = NoTag /\ tagShown = NoTag
    BY Zenon DEF TagInit
  <1>2. tagRows \in TagTables
    <2>1. PICK parent \in {root, NoTag} :
            tagRows = [t \in {root, other} |->
                IF t = root THEN [name |-> names[1], parent |-> NoTag]
                ELSE [name |-> names[2], parent |-> parent]]
      BY <1>1
    <2>2. names[1] \in TagNames /\ names[2] \in TagNames  OBVIOUS
    <2>3. tagRows \in [{root, other} -> TagRow]  BY <2>1, <2>2 DEF TagRow
    <2> QED  BY <2>3 DEF TagTables
  <1>3. tagSent \in 0..TagWrites  BY <1>0, TagAssumption
  <1>4. tagFetch \in TagFetches  BY <1>0, TagNoTable
  <1>5. tagItem \in [tags : SUBSET TagIds, done : BOOLEAN, version : Nat]  BY <1>1
  <1>6. tagList \in TagTables /\ tagSel \in TagSelections
    <2>1. tagList \in TagTables  BY <1>0, <1>2, TagNoTable
    <2>2. NoTag \in TagSelections  BY DEF TagSelections
    <2>3. TagSelected(NoTag, tagList) \subseteq TagSelections
      BY <2>1, <2>2, TagSelectedType
    <2> QED  BY <1>1, <2>1, <2>3 DEF TagSelections
  <1>7. TagTypeOK
    BY <1>0, <1>1, <1>2, <1>3, <1>4, <1>5, <1>6 DEF TagTypeOK, TagFetches, TagSelections
  <1>8. TagNamed  BY <1>0 DEF TagNamed
  <1> QED  BY <1>7, <1>8 DEF TagInv

TagItems == [tags : SUBSET TagIds, done : BOOLEAN, version : Nat]

\* A step that leaves the table and the requests alone.
LEMMA TagQuietStep ==
    ASSUME TagInv, UNCHANGED <<tagRows, tagCalls>>,
           tagItem' \in TagItems, tagSent' \in 0..TagWrites,
           tagLoaded' \in BOOLEAN, tagList' \in TagTables,
           tagFetch' \in TagFetches, tagStale' \in BOOLEAN, tagSel' \in TagSelections,
           tagForm' \in TagForms \cup {NoTag}, tagShown' \in TagItems \cup {NoTag}
    PROVE  TagInv'
  <1>1. TagTypeOK'  BY DEF TagInv, TagTypeOK, TagItems, TagFetches, TagSelections
  <1>2. TagNamed'  BY DEF TagInv, TagNamed
  <1> QED  BY <1>1, <1>2 DEF TagInv

\* The parts of the type invariant, by the names used here.
LEMMA TagParts ==
    ASSUME TagInv
    PROVE  /\ tagRows \in TagTables /\ tagList \in TagTables /\ tagItem \in TagItems
           /\ tagLoaded \in BOOLEAN /\ tagCalls \subseteq TagCall /\ tagSent \in 0..TagWrites
           /\ tagFetch \in TagFetches /\ tagStale \in BOOLEAN /\ tagSel \in TagSelections
           /\ tagForm \in TagForms \cup {NoTag} /\ tagShown \in TagItems \cup {NoTag}
  BY DEF TagInv, TagTypeOK, TagItems, TagFetches, TagSelections

\* A request that is sent names the tag it makes.
LEMMA TagSendStep ==
    ASSUME TagInv, NEW call \in TagCall, TagSend(call),
           call.op = "create" => call.name \in TagNames,
           UNCHANGED <<tagServer, tagQuery, tagSel, tagShown>>,
           tagForm' \in TagForms \cup {NoTag}
    PROVE  TagInv'
  <1>1. /\ UNCHANGED <<tagRows, tagItem, tagLoaded, tagList, tagFetch, tagStale>>
        /\ tagCalls' = tagCalls \cup {call} /\ tagSent' \in 0..TagWrites
    BY TagParts, TagAssumption DEF TagSend, tagServer, tagQuery
  <1>2. TagTypeOK'
    BY <1>1, TagParts DEF TagTypeOK, TagItems, TagFetches, TagSelections
  <1>3. TagNamed'  BY <1>1 DEF TagInv, TagNamed
  <1> QED  BY <1>2, <1>3 DEF TagInv

\* A request that gets on, or is gone, keeps its tag and name.
LEMMA TagCallsKept ==
    ASSUME TagInv, NEW call \in tagCalls, NEW at \in {"sent", "checked", "written"},
           tagCalls' \subseteq tagCalls \cup {[call EXCEPT !.at = at]}
    PROVE  tagCalls' \subseteq TagCall /\ TagNamed'
  <1> DEFINE after == [call EXCEPT !.at = at]
  <1>0. call \in TagCall  BY TagParts
  <1>1. after \in TagCall /\ after.op = call.op /\ after.name = call.name
    BY <1>0 DEF TagCall
  <1>2. tagCalls' \subseteq tagCalls \cup {after}  BY DEF after
  <1> HIDE DEF after
  <1> QED  BY <1>1, <1>2, TagParts DEF TagInv, TagNamed

LEMMA TagCheckStep ==
    ASSUME TagInv, NEW call \in tagCalls, TagCheck(call)
    PROVE  TagInv'
  <1>1. tagCalls' \subseteq TagCall /\ TagNamed'  BY TagCallsKept DEF TagCheck
  <1>2. TagTypeOK'
    BY <1>1 DEF TagInv, TagTypeOK, TagCheck, tagServer, tagClient, tagQuery
  <1> QED  BY <1>1, <1>2 DEF TagInv

\* The write of a request leaves a table.
LEMMA TagWriteStep ==
    ASSUME TagInv, NEW call \in tagCalls, TagWrite(call)
    PROVE  TagInv'
  <1>1. tagCalls' \subseteq TagCall /\ TagNamed'  BY TagCallsKept DEF TagWrite
  <1>2. call \in TagCall /\ (call.op = "create" => call.name \in TagNames)
    BY TagParts DEF TagInv, TagNamed
  <1>3. tagRows' \in TagTables
    BY <1>2, TagParts, TagWrittenType DEF TagWrite, tagServer
  <1>4. tagItem' \in TagItems
    <2>1. tagItem \in TagItems  BY TagParts
    <2>2. [tagItem EXCEPT !.tags = @ \cap DOMAIN tagRows'] \in TagItems
      BY <2>1 DEF TagItems
    <2> QED  BY <2>1, <2>2 DEF TagWrite, tagServer
  <1>5. tagStale' \in BOOLEAN  BY TagParts DEF TagWrite
  <1>6. UNCHANGED <<tagSent, tagLoaded, tagList, tagFetch, tagSel, tagForm, tagShown>>
    BY DEF TagWrite
  <1>7. TagTypeOK'
    BY <1>1, <1>3, <1>4, <1>5, <1>6, TagParts
       DEF TagTypeOK, TagItems, TagFetches, TagSelections
  <1> QED  BY <1>1, <1>7 DEF TagInv

\* onSuccess selects what was selected or a root, and asks again or joins.
LEMMA TagAnsweredStep ==
    ASSUME TagInv, NEW call \in tagCalls, TagAnswered(call)
    PROVE  TagInv'
  <1>1. tagCalls' \subseteq TagCall /\ TagNamed'
    BY TagParts DEF TagAnswered, TagInv, TagNamed
  <1>2. tagFetch' \in TagFetches /\ tagStale' \in BOOLEAN
    BY TagParts, TagNoTable DEF TagAnswered, TagInvalidate
  <1>3. tagSel' \in TagSelections
    <2>1. (IF call.op = "delete" THEN NoTag ELSE tagSel) \in TagSelections
      BY TagParts DEF TagSelections
    <2> QED  BY <2>1, TagParts, TagSelectedType DEF TagAnswered
  <1>4. /\ UNCHANGED <<tagRows, tagItem, tagSent, tagLoaded, tagList, tagForm>>
        /\ tagShown' = NoTag
    BY DEF TagAnswered, tagServer
  <1>5. TagTypeOK'
    BY <1>1, <1>2, <1>3, <1>4, TagParts DEF TagTypeOK, TagItems, TagFetches, TagSelections
  <1> QED  BY <1>1, <1>5 DEF TagInv

\* A call of another client: a new tag, or a tag of the table moved or deleted.
LEMMA TagElsewhereStep ==
    ASSUME TagInv, TagCallElsewhere
    PROVE  TagInv'
  <1>1. PICK t \in TagIds, n \in TagNames, p \in TagIds \cup {NoTag} :
          \/ TagFresh(t) /\ TagSend(TagRequest("create", t, n, p, FALSE))
          \/ t \in DOMAIN tagRows /\ TagSend(TagRequest("move", t, NoTag, p, FALSE))
          \/ t \in DOMAIN tagRows /\ TagSend(TagRequest("delete", t, NoTag, NoTag, FALSE))
    BY DEF TagCallElsewhere
  <1>2. PICK call \in TagCall :
          /\ TagSend(call)
          /\ call.op = "create" => call.name \in TagNames
    <2>1. /\ TagRequest("create", t, n, p, FALSE) \in TagCall
          /\ TagRequest("move", t, NoTag, p, FALSE) \in TagCall
          /\ TagRequest("delete", t, NoTag, NoTag, FALSE) \in TagCall
      BY DEF TagRequest, TagCall
    <2> QED  BY <1>1, <2>1 DEF TagRequest
  <1>3. /\ UNCHANGED <<tagServer, tagQuery, tagSel, tagShown>>
        /\ tagForm' \in TagForms \cup {NoTag}
    BY TagParts DEF TagCallElsewhere, tagClient
  <1> QED  BY <1>2, <1>3, TagSendStep

\* The forms of the page send the row they were opened on.
LEMMA TagSubmitStep ==
    ASSUME TagInv, TagSubmitCreate \/ TagSubmitEdit \/ TagConfirmDelete
    PROVE  TagInv'
  <1>1. /\ UNCHANGED <<tagServer, tagQuery, tagSel, tagShown>>
        /\ tagForm' \in TagForms \cup {NoTag}
    BY TagParts DEF TagSubmitCreate, TagSubmitEdit, TagConfirmDelete, tagClient
  <1>2. tagForm \in TagForms
    BY TagParts DEF TagSubmitCreate, TagSubmitEdit, TagConfirmDelete
  <1>3. PICK call \in TagCall :
          /\ TagSend(call)
          /\ call.op = "create" => call.name \in TagNames
    <2>1. CASE TagSubmitCreate
      <3>1. PICK t \in TagIds, n \in TagNames :
              TagFresh(t) /\ TagSend(TagRequest("create", t, n, tagForm.tag, TRUE))
        BY <2>1 DEF TagSubmitCreate
      <3>2. tagForm.tag \in TagIds \cup {NoTag}  BY <1>2 DEF TagForms
      <3>3. TagRequest("create", t, n, tagForm.tag, TRUE) \in TagCall
        BY <3>2 DEF TagRequest, TagCall
      <3> QED  BY <3>1, <3>3 DEF TagRequest
    <2>2. CASE TagSubmitEdit
      <3>1. PICK n \in TagNames \cup {NoTag} :
              TagSend(TagRequest("patch", tagForm.tag, n, NoTag, TRUE))
        BY <2>2 DEF TagSubmitEdit
      <3>2. tagForm.tag \in TagIds  BY <1>2, <2>2 DEF TagForms, TagSubmitEdit
      <3>3. TagRequest("patch", tagForm.tag, n, NoTag, TRUE) \in TagCall
        BY <3>2 DEF TagRequest, TagCall
      <3> QED  BY <3>1, <3>3 DEF TagRequest
    <2>3. CASE TagConfirmDelete
      <3>1. TagSend(TagRequest("delete", tagForm.tag, NoTag, NoTag, TRUE))
        BY <2>3 DEF TagConfirmDelete
      <3>2. tagForm.tag \in TagIds  BY <1>2, <2>3 DEF TagForms, TagConfirmDelete
      <3>3. TagRequest("delete", tagForm.tag, NoTag, NoTag, TRUE) \in TagCall
        BY <3>2 DEF TagRequest, TagCall
      <3> QED  BY <3>1, <3>3 DEF TagRequest
    <2> QED  BY <2>1, <2>2, <2>3
  <1> QED  BY <1>1, <1>3, TagSendStep

\* The query, the selection, the item's row and the forms that are opened and closed.
LEMMA TagPageStep ==
    ASSUME TagInv,
           \/ TagFetchServe \/ TagFetchDone \/ TagSelect \/ TagItemsDone \/ TagToggleDone
           \/ TagOpenForm \/ TagAskDelete \/ TagCloseForm \/ UNCHANGED tagVars
    PROVE  TagInv'
  <1>1. CASE TagFetchServe
    <2>1. tagFetch' \in TagFetches
      BY <1>1, TagParts DEF TagFetchServe, TagFetch, TagFetches
    <2> QED  BY <1>1, <2>1, TagParts, TagQuietStep DEF TagFetchServe, tagServer
  <1>2. CASE TagFetchDone
    <2>1. tagFetch.rows \in TagTables  BY TagParts DEF TagFetches
    <2>2. tagSel' \in TagSelections
      BY <1>2, <2>1, TagParts, TagSelectedType DEF TagFetchDone
    <2> QED  BY <1>2, <2>1, <2>2, TagParts, TagNoTable, TagQuietStep DEF TagFetchDone, tagServer
  <1>3. CASE TagSelect
    <2>1. tagSel' \in TagSelections
      <3>1. TagDrawn(tagList) \subseteq TagIds
        BY TagParts, TagTable DEF TagDrawn, TagRoots, TagKids
      <3> QED  BY <1>3, <3>1 DEF TagSelect, TagSelections
    <2> QED  BY <1>3, <2>1, TagParts, TagQuietStep DEF TagSelect, tagServer, tagQuery
  <1>4. CASE TagItemsDone
    <2>1. tagShown' \in {tagItem, NoTag}  BY <1>4 DEF TagItemsDone
    <2> QED  BY <1>4, <2>1, TagParts, TagQuietStep DEF TagItemsDone, tagServer, tagQuery
  <1>5. CASE TagToggleDone
    <2>1. tagSent' \in 0..TagWrites  BY <1>5, TagParts, TagAssumption DEF TagToggleDone
    <2>2. tagItem' \in TagItems /\ tagShown' \in TagItems \cup {NoTag}
      <3>1. tagItem \in TagItems /\ tagShown \in TagItems
        BY <1>5, TagParts DEF TagToggleDone
      <3> DEFINE done == ~tagShown.done
                 half == [tagItem EXCEPT !.done = done]
      <3>2. [tagItem EXCEPT !.done = done, !.version = @ + 1] \in TagItems
        <4>1. done \in BOOLEAN
          <5>1. CASE tagShown.done  BY <5>1
          <5>2. CASE ~tagShown.done  BY <5>2
          <5> QED  BY <5>1, <5>2, Zenon
        <4> HIDE DEF done
        <4>2. half \in TagItems  BY <3>1, <4>1 DEF TagItems
        <4>3. [tagItem EXCEPT !.done = done, !.version = @ + 1]
                  = [half EXCEPT !.version = @ + 1]
          BY <3>1, <4>1 DEF TagItems
        <4> HIDE DEF half
        <4>4. [half EXCEPT !.version = @ + 1] \in TagItems  BY <4>2 DEF TagItems
        <4> QED  BY <4>3, <4>4
      <3>3. /\ tagItem' \in {tagItem, [tagItem EXCEPT !.done = done, !.version = @ + 1]}
            /\ tagShown' \in {tagShown, NoTag}
        BY <1>5 DEF TagToggleDone, TagToggled
      <3> QED  BY <3>1, <3>2, <3>3
    <2> QED  BY <1>5, <2>1, <2>2, TagParts, TagQuietStep DEF TagToggleDone, tagQuery
  <1>6. CASE TagOpenForm
    <2>1. tagForm' \in TagForms
      <3>1. TagDrawn(tagList) \subseteq TagIds /\ TagRoots(tagList) \subseteq TagIds
        BY TagParts, TagTable DEF TagDrawn, TagRoots, TagKids
      <3> QED  BY <1>6, <3>1 DEF TagOpenForm, TagForms
    <2>2. UNCHANGED <<tagRows, tagItem>>  BY <1>6 DEF TagOpenForm, tagServer
    <2> QED  BY <1>6, <2>1, <2>2, TagParts, TagQuietStep DEF TagOpenForm, tagQuery
  <1>7. CASE TagAskDelete
    <2>1. tagForm' \in TagForms
      <3>1. tagForm \in TagForms /\ tagForm.kind = "edit"  BY <1>7, TagParts DEF TagAskDelete
      <3>2. tagForm \in [kind : {"edit", "confirm"}, tag : TagIds]  BY <3>1 DEF TagForms
      <3>3. [tagForm EXCEPT !.kind = "confirm"] \in [kind : {"edit", "confirm"}, tag : TagIds]
        BY <3>2
      <3> QED  BY <1>7, <3>3 DEF TagAskDelete, TagForms
    <2>2. UNCHANGED <<tagRows, tagItem>>  BY <1>7 DEF TagAskDelete, tagServer
    <2> QED  BY <1>7, <2>1, <2>2, TagParts, TagQuietStep DEF TagAskDelete, tagQuery
  <1>8. CASE TagCloseForm
    <2>1. UNCHANGED <<tagRows, tagItem>> /\ tagForm' = NoTag
      BY <1>8 DEF TagCloseForm, tagServer
    <2> QED  BY <1>8, <2>1, TagParts, TagQuietStep DEF TagCloseForm, tagQuery
  <1>9. CASE UNCHANGED tagVars  BY <1>9, TagParts, TagQuietStep DEF tagVars
  <1> QED  BY <1>1, <1>2, <1>3, <1>4, <1>5, <1>6, <1>7, <1>8, <1>9

LEMMA TagStep ==
    ASSUME TagInv, [TagNext]_tagVars
    PROVE  TagInv'
  <1>1. CASE \E call \in tagCalls : TagCheck(call) \/ TagWrite(call) \/ TagAnswered(call)
    BY <1>1, TagCheckStep, TagWriteStep, TagAnsweredStep
  <1>2. CASE TagCallElsewhere  BY <1>2, TagElsewhereStep
  <1>3. CASE TagSubmitCreate \/ TagSubmitEdit \/ TagConfirmDelete  BY <1>3, TagSubmitStep
  <1>4. CASE \/ TagFetchServe \/ TagFetchDone \/ TagSelect \/ TagItemsDone \/ TagToggleDone
             \/ TagOpenForm \/ TagAskDelete \/ TagCloseForm \/ UNCHANGED tagVars
    BY <1>4, TagPageStep
  <1> QED  BY <1>1, <1>2, <1>3, <1>4 DEF TagNext

\* The table, the trees and forms of the page and the requests keep their types.
THEOREM TagType == TagSpec => []TagTypeOK
  <1>1. TagInv => TagTypeOK  BY DEF TagInv
  <1> QED  BY <1>1, TagInitType, TagStep, PTL DEF TagSpec

-----------------------------------------------------------------------------
(* Tags: the tree the page shows                                           *)

\* A write of the page waits for its answer, one of somebody else is missed unless the
\* tree is still to be served.
LEMMA TagWriteSync ==
    ASSUME TagInv, TagSync, NEW call \in tagCalls, TagWrite(call)
    PROVE  TagSync'
  <1>1. CASE ~TagWritable(tagRows, call)
    <2>1. /\ UNCHANGED <<tagRows, tagList, tagFetch, tagStale>>
          /\ tagCalls' = tagCalls \ {call} /\ call.at = "checked"
      BY <1>1 DEF TagWrite, tagServer
    <2> QED  BY <2>1 DEF TagSync
  <1>2. CASE TagWritable(tagRows, call) /\ call.page
    <2>1. call \in TagCall  BY TagParts
    <2>2. [call EXCEPT !.at = "written"].at = "written"  BY <2>1 DEF TagCall
    <2>3. [call EXCEPT !.at = "written"] \in tagCalls'  BY <1>2 DEF TagWrite
    <2> QED  BY <2>2, <2>3 DEF TagSync
  <1>3. CASE TagWritable(tagRows, call) /\ ~call.page
    <2>1. (tagStale' \/ tagFetch.at = "asked") /\ tagFetch' = tagFetch
      BY <1>3 DEF TagWrite
    <2> QED  BY <2>1 DEF TagSync
  <1> QED  BY <1>1, <1>2, <1>3

\* The answer of a write has the tree asked again, or joins a fetch that is not served yet,
\* that has the table's rows, or that is known to miss something.
LEMMA TagAnsweredSync ==
    ASSUME TagInv, NEW call \in tagCalls, TagAnswered(call)
    PROVE  TagSync'
  <1>1. tagFetch.at \in {"idle", "asked", "answered"}  BY TagParts DEF TagFetches
  <1>2. TagInvalidate /\ tagRows' = tagRows  BY DEF TagAnswered, tagServer
  <1>3. \/ tagFetch'.at = "asked"
        \/ tagFetch'.at = "answered" /\ (tagStale' \/ tagFetch'.rows = tagRows)
    <2>1. CASE TagJoinsFirst /\ tagFetch.at = "answered"
      <3> DEFINE missed == tagStale \/ (tagFetch.at = "answered" /\ tagFetch.rows # tagRows)
      <3>1. tagFetch' = tagFetch /\ tagStale' = missed  BY <1>2, <2>1 DEF TagInvalidate
      <3>2. missed \/ tagFetch.rows = tagRows  BY <2>1
      <3> HIDE DEF missed
      <3> QED  BY <1>2, <2>1, <3>1, <3>2
    <2>2. CASE ~(TagJoinsFirst /\ tagFetch.at = "answered")
      BY <1>1, <1>2, <2>2 DEF TagInvalidate, TagJoinsFirst, TagFetch
    <2> QED  BY <2>1, <2>2
  <1> QED  BY <1>2, <1>3 DEF TagSync

\* A step that leaves the table, the query and the answers to come alone.
LEMMA TagSyncKept ==
    ASSUME TagSync, UNCHANGED <<tagRows, tagQuery>>,
           \A c \in tagCalls : c.at = "written" => c \in tagCalls'
    PROVE  TagSync'
  BY DEF TagSync, tagQuery

LEMMA TagSyncStep ==
    ASSUME TagInv, TagSync, [TagNext]_tagVars
    PROVE  TagSync'
  <1>1. CASE \E call \in tagCalls : TagWrite(call) \/ TagAnswered(call)
    BY <1>1, TagWriteSync, TagAnsweredSync
  <1>2. ASSUME NEW call \in tagCalls, TagCheck(call)
        PROVE  TagSync'
    BY <1>2, TagSyncKept DEF TagCheck, tagServer, tagClient
  <1>3. CASE TagFetchServe
    BY <1>3 DEF TagFetchServe, TagFetch, TagSync, tagServer
  <1>4. CASE TagFetchDone  BY <1>4 DEF TagFetchDone, TagFetch, TagSync, tagServer
  <1>5. CASE UNCHANGED <<tagRows, tagQuery>> /\ tagCalls \subseteq tagCalls'
    BY <1>5, TagSyncKept
  <1>6. \/ \E call \in tagCalls : TagCheck(call) \/ TagWrite(call) \/ TagAnswered(call)
        \/ TagFetchServe \/ TagFetchDone
        \/ UNCHANGED <<tagRows, tagQuery>> /\ tagCalls \subseteq tagCalls'
    BY DEF TagNext, tagVars, TagCallElsewhere, TagSend, TagSelect, TagItemsDone,
           TagToggleDone, TagOpenForm, TagSubmitCreate, TagSubmitEdit, TagAskDelete,
           TagConfirmDelete, TagCloseForm, tagServer, tagClient, tagQuery
  <1> QED  BY <1>1, <1>2, <1>3, <1>4, <1>5, <1>6

LEMMA TagInitSync == TagInit => TagSync
  BY DEF TagInit, TagSync, TagFetch

\* The page's own writes are in the tree it shows once it has their answers and nothing is
\* fetched: every one asks again and drops what a fetch under way would bring (invalidate).
\* Only a first fetch is joined, and one that was served before the write is known as stale.
THEOREM TreeIsFresh == TagSpec => []TagTreeIsFresh
  <1>1. TagSync => TagTreeIsFresh  BY DEF TagSync, TagTreeIsFresh
  <1>2. TagInit => TagInv /\ TagSync  BY TagInitType, TagInitSync
  <1>3. TagInv /\ TagSync /\ [TagNext]_tagVars => (TagInv /\ TagSync)'
    BY TagStep, TagSyncStep
  <1> QED  BY <1>1, <1>2, <1>3, PTL DEF TagSpec
-----------------------------------------------------------------------------
(* The inbox page: its invariant                                           *)

BoxDecisions == {"approved", "refused"}

\* A query that was never answered shows nothing, so nothing can be asked from it.
BoxUnloaded ==
    /\ ~boxDeck.loaded => boxDeck.shown = {}
    /\ ~boxList.loaded => DOMAIN boxList.shown = {}

\* A request is of its kind, was made from a loaded query, and when it has gone through its
\* effect stands: the proposal is decided, the row has at least the version of the answer.
BoxCallIsReal(kind) ==
    LET call == boxCalls[kind]
    IN  call # BoxNone =>
            /\ kind = "decide" => /\ boxDeck.loaded /\ call.id \in BoxProposals
                                  /\ call.what \in {"approve", "refuse"}
                                  /\ call.at = "done" => boxTable[call.id] \in BoxDecisions
            /\ kind # "decide" => /\ boxList.loaded /\ call.what = kind
                                  /\ call.at = "done" => boxRows[call.id].version >= call.version

\* No answer in hand, and nothing shown without one on its way, is older than what the page
\* was told.
BoxSync ==
    /\ \A p \in boxTold : boxTable[p] \in BoxDecisions
    /\ \A i \in BoxIds : boxRows[i].version >= boxSeen[i]
    /\ boxDeck.at = "read" => boxDeck.read \cap boxTold = {}
    /\ boxDeck.at = "idle" => boxDeck.shown \cap boxTold = {}
    /\ boxList.at = "read" => \A i \in DOMAIN boxList.read :
                                  boxList.read[i].version >= boxSeen[i]
    /\ boxList.at = "idle" => \A i \in DOMAIN boxList.shown :
                                  boxList.shown[i].version >= boxSeen[i]

BoxInv == BoxTypeOK /\ BoxUnloaded /\ (\A kind \in BoxKinds : BoxCallIsReal(kind)) /\ BoxSync

-----------------------------------------------------------------------------
(* The inbox page: what the server does                                    *)

BoxStates == {"none", "pending", "approved", "refused"}
BoxStatus == {"unborn", "inbox", "planned", "deleted"}

\* Rows are written, never taken back; and what was decided stays decided.
BoxGoesOn ==
    /\ boxTable' \in [BoxProposals -> BoxStates] /\ boxRows' \in [BoxIds -> BoxRow]
    /\ \A i \in BoxIds : boxRows'[i].version >= boxRows[i].version
    /\ \A p \in BoxProposals : boxTable[p] \in BoxDecisions => boxTable'[p] \in BoxDecisions

LEMMA BoxStoredType ==
    ASSUME boxRows \in [BoxIds -> BoxRow], NEW i \in BoxIds,
           NEW s \in BoxStatus, BoxStored(i, s)
    PROVE  /\ boxRows' \in [BoxIds -> BoxRow]
           /\ \A j \in BoxIds : boxRows'[j].version >= boxRows[j].version
  <1>1. boxRows' = [boxRows EXCEPT ![i] = [status |-> s, version |-> boxRows[i].version + 1]]
    BY DEF BoxStored
  <1>2. [status |-> s, version |-> boxRows[i].version + 1] \in BoxRow  BY DEF BoxRow, BoxStatus
  <1>3. boxRows' \in [BoxIds -> BoxRow]  BY <1>1, <1>2
  <1>4. ASSUME NEW j \in BoxIds
        PROVE  boxRows'[j].version >= boxRows[j].version
    <2>1. boxRows[j].version \in Nat  BY DEF BoxRow
    <2>2. boxRows'[j] = IF j = i THEN [status |-> s, version |-> boxRows[i].version + 1]
                        ELSE boxRows[j]
      BY <1>1
    <2> QED  BY <2>1, <2>2
  <1> QED  BY <1>3, <1>4

LEMMA BoxLaterType ==
    \A s \in BoxStatus : BoxLater(s) \subseteq BoxStatus
  BY DEF BoxLater, BoxStatus

LEMMA BoxRowsStand ==
    ASSUME boxRows \in [BoxIds -> BoxRow], UNCHANGED boxRows
    PROVE  /\ boxRows' \in [BoxIds -> BoxRow]
           /\ \A j \in BoxIds : boxRows'[j].version >= boxRows[j].version
  BY DEF BoxRow

\* A decision is of a pending proposal.
LEMMA BoxAppliesStep ==
    ASSUME BoxTypeOK, NEW p \in BoxProposals, BoxApplies(p)
    PROVE  BoxGoesOn /\ boxTable'[p] \in BoxDecisions
  <1>1. /\ boxTable \in [BoxProposals -> BoxStates] /\ boxRows \in [BoxIds -> BoxRow]
        /\ boxTarget[p] \in BoxIds
    BY DEF BoxTypeOK, BoxStates
  <1>2. boxTable[p] = "pending" /\ boxTable' = [boxTable EXCEPT ![p] = "approved"]
    BY DEF BoxApplies
  <1>3. PICK s \in BoxStatus : BoxStored(boxTarget[p], s)
    <2> DEFINE i == boxTarget[p]
    <2>1. boxRows[i].status \in BoxStatus  BY <1>1 DEF BoxRow, BoxStatus
    <2>2. \E s \in IF boxRows[i].status = "unborn" THEN {"inbox", "planned"}
                   ELSE BoxLater(boxRows[i].status) : BoxStored(i, s)
      BY DEF BoxApplies
    <2> QED  BY <2>1, <2>2, BoxLaterType DEF BoxStatus
  <1>4. /\ boxTable' \in [BoxProposals -> BoxStates] /\ boxTable'[p] \in BoxDecisions
        /\ \A q \in BoxProposals :
              boxTable[q] \in BoxDecisions => boxTable'[q] \in BoxDecisions
    BY <1>1, <1>2 DEF BoxStates, BoxDecisions
  <1> QED  BY <1>1, <1>3, <1>4, BoxStoredType DEF BoxGoesOn

LEMMA BoxRefusesStep ==
    ASSUME BoxTypeOK, NEW p \in BoxProposals, BoxRefuses(p)
    PROVE  BoxGoesOn /\ boxTable'[p] \in BoxDecisions
  <1>1. boxTable \in [BoxProposals -> BoxStates] /\ boxRows \in [BoxIds -> BoxRow]
    BY DEF BoxTypeOK, BoxStates
  <1>2. /\ boxTable[p] = "pending" /\ boxTable' = [boxTable EXCEPT ![p] = "refused"]
        /\ UNCHANGED boxRows
    BY DEF BoxRefuses
  <1>3. /\ boxTable' \in [BoxProposals -> BoxStates] /\ boxTable'[p] \in BoxDecisions
        /\ \A q \in BoxProposals :
              boxTable[q] \in BoxDecisions => boxTable'[q] \in BoxDecisions
    BY <1>1, <1>2 DEF BoxStates, BoxDecisions
  <1> QED  BY <1>1, <1>2, <1>3, BoxRowsStand DEF BoxGoesOn

\* A row that is written while the proposals stand.
LEMMA BoxWritesStep ==
    ASSUME BoxTypeOK, NEW i \in BoxIds, NEW s \in BoxStatus,
           BoxStored(i, s), UNCHANGED boxTable
    PROVE  BoxGoesOn
  <1>1. boxTable \in [BoxProposals -> BoxStates] /\ boxRows \in [BoxIds -> BoxRow]
    BY DEF BoxTypeOK, BoxStates
  <1> QED  BY <1>1, BoxStoredType DEF BoxGoesOn

LEMMA BoxStandsStep ==
    ASSUME BoxTypeOK, UNCHANGED boxServer
    PROVE  BoxGoesOn
  <1>1. boxTable \in [BoxProposals -> BoxStates] /\ boxRows \in [BoxIds -> BoxRow]
    BY DEF BoxTypeOK, BoxStates
  <1>2. UNCHANGED <<boxTable, boxRows>>  BY DEF boxServer
  <1> QED  BY <1>1, <1>2, BoxRowsStand DEF BoxGoesOn

\* What the server does of a request of the page.
LEMMA BoxAcceptedStep ==
    ASSUME BoxTypeOK, NEW kind \in BoxKinds, BoxCallIsReal(kind), boxCalls[kind] # BoxNone,
           BoxAccepted(boxCalls[kind])
    PROVE  /\ BoxGoesOn
           /\ kind = "decide" => boxTable'[boxCalls[kind].id] \in BoxDecisions
  <1> DEFINE call == boxCalls[kind]
             taken == boxRows[call.id]
  <1>1. /\ call \in BoxCall /\ call.id \in BoxIds
        /\ taken.status \in BoxStatus
    BY DEF BoxTypeOK, BoxCall, BoxRow, BoxStatus
  <1>2. /\ kind = "decide" => call.id \in BoxProposals /\ call.what \in {"approve", "refuse"}
        /\ kind # "decide" => call.what = kind
    BY DEF BoxCallIsReal
  <1>3. BoxAccepted(call)  OBVIOUS
  <1> HIDE DEF call
  <1>4. CASE kind = "decide"
    <2>1. CASE BoxApplies(call.id)  BY <1>2, <1>4, <2>1, BoxAppliesStep DEF call
    <2>2. CASE boxTable[call.id] = "approved" /\ UNCHANGED boxServer
      <3>1. boxTable'[call.id] \in BoxDecisions  BY <2>2 DEF boxServer, BoxDecisions
      <3> QED  BY <2>2, <3>1, BoxStandsStep DEF call
    <2>3. CASE BoxRefuses(call.id)  BY <1>2, <1>4, <2>3, BoxRefusesStep DEF call
    <2> QED  BY <1>2, <1>3, <1>4, <2>1, <2>2, <2>3 DEF BoxAccepted
  <1>5. CASE kind # "decide"
    <2>1. call.what \in {"triage", "remove", "save", "delete"}
      BY <1>2, <1>5 DEF BoxKinds
    <2>2. PICK s \in BoxStatus :
            BoxStored(call.id, s) /\ UNCHANGED boxTable
      <3>1. CASE call.what \in {"remove", "delete"}
        <4>1. BoxStored(call.id, "deleted") /\ UNCHANGED boxTable
          BY <1>3, <3>1 DEF BoxAccepted
        <4> QED  BY <4>1 DEF BoxStatus
      <3>2. CASE call.what = "triage"
        <4>1. BoxStored(call.id, "planned") /\ UNCHANGED boxTable
          BY <1>3, <3>2 DEF BoxAccepted
        <4> QED  BY <4>1 DEF BoxStatus
      <3>3. CASE call.what = "save"
        <4>1. /\ \E s \in BoxLater(taken.status) : BoxStored(call.id, s)
              /\ UNCHANGED boxTable
          BY <1>3, <3>3 DEF BoxAccepted
        <4>2. PICK s \in BoxLater(taken.status) : BoxStored(call.id, s)  BY <4>1
        <4> QED  BY <1>1, <4>1, <4>2, BoxLaterType
      <3> QED  BY <2>1, <3>1, <3>2, <3>3
    <2> QED  BY <1>1, <1>5, <2>2, BoxWritesStep
  <1> QED  BY <1>4, <1>5

-----------------------------------------------------------------------------
(* The inbox page: its queries and its steps                               *)

BoxTables == UNION {[S -> BoxRow] : S \in SUBSET BoxIds}

LEMMA BoxTable ==
    \A rows : rows \in BoxTables
                <=> DOMAIN rows \subseteq BoxIds /\ rows \in [DOMAIN rows -> BoxRow]
  <1> SUFFICES ASSUME NEW rows
               PROVE  rows \in BoxTables
                        <=> DOMAIN rows \subseteq BoxIds /\ rows \in [DOMAIN rows -> BoxRow]
    OBVIOUS
  <1>1. ASSUME rows \in BoxTables
        PROVE  DOMAIN rows \subseteq BoxIds /\ rows \in [DOMAIN rows -> BoxRow]
    BY <1>1 DEF BoxTables
  <1>2. ASSUME DOMAIN rows \subseteq BoxIds, rows \in [DOMAIN rows -> BoxRow]
        PROVE  rows \in BoxTables
    BY <1>2 DEF BoxTables
  <1> QED  BY <1>1, <1>2

\* The type of the list's query, in one set.
BoxListOK(query) ==
    /\ query \in BoxQueries({query.shown, query.read})
    /\ \A rows \in {query.shown, query.read} :
           DOMAIN rows \subseteq BoxIds /\ rows \in [DOMAIN rows -> BoxRow]

LEMMA BoxListType == \A query : BoxListOK(query) <=> query \in BoxQueries(BoxTables)
  <1> SUFFICES ASSUME NEW query PROVE BoxListOK(query) <=> query \in BoxQueries(BoxTables)
    OBVIOUS
  <1>1. ASSUME BoxListOK(query) PROVE query \in BoxQueries(BoxTables)
    <2>1. query.shown \in BoxTables /\ query.read \in BoxTables
      BY <1>1, BoxTable DEF BoxListOK
    <2>2. query \in BoxQueries({query.shown, query.read})  BY <1>1 DEF BoxListOK
    <2> QED  BY <2>1, <2>2 DEF BoxQueries
  <1>2. ASSUME query \in BoxQueries(BoxTables) PROVE BoxListOK(query)
    <2>1. query.shown \in BoxTables /\ query.read \in BoxTables  BY <1>2 DEF BoxQueries
    <2>2. query \in BoxQueries({query.shown, query.read})  BY <1>2 DEF BoxQueries
    <2> QED  BY <2>1, <2>2, BoxTable DEF BoxListOK
  <1> QED  BY <1>1, <1>2

LEMMA BoxParts ==
    ASSUME BoxTypeOK
    PROVE  /\ boxTable \in [BoxProposals -> BoxStates] /\ boxRows \in [BoxIds -> BoxRow]
           /\ boxTarget \in [BoxProposals -> BoxIds]
           /\ boxDeck \in BoxQueries(SUBSET BoxProposals) /\ boxList \in BoxQueries(BoxTables)
           /\ boxEditing \in BoxProposals \cup {BoxNone} /\ boxSelected \in BoxIds \cup {BoxNone}
           /\ boxCalls \in [BoxKinds -> BoxCall \cup {BoxNone}]
           /\ boxClicked \in 0..BoxClicks /\ boxWritten \in 0..BoxElsewhere
           /\ boxTold \in SUBSET BoxProposals /\ boxSeen \in [BoxIds -> Nat]
  <1>1. boxList \in BoxQueries(BoxTables)  BY BoxListType DEF BoxTypeOK, BoxListOK
  <1> QED  BY <1>1 DEF BoxTypeOK, BoxStates

LEMMA BoxTyped ==
    ASSUME boxTable' \in [BoxProposals -> BoxStates], boxRows' \in [BoxIds -> BoxRow],
           boxTarget' \in [BoxProposals -> BoxIds],
           boxDeck' \in BoxQueries(SUBSET BoxProposals), boxList' \in BoxQueries(BoxTables),
           boxEditing' \in BoxProposals \cup {BoxNone}, boxSelected' \in BoxIds \cup {BoxNone},
           boxCalls' \in [BoxKinds -> BoxCall \cup {BoxNone}],
           boxClicked' \in 0..BoxClicks, boxWritten' \in 0..BoxElsewhere,
           boxTold' \in SUBSET BoxProposals, boxSeen' \in [BoxIds -> Nat]
    PROVE  BoxTypeOK'
  <1>1. BoxListOK(boxList')  BY BoxListType
  <1> QED  BY <1>1 DEF BoxTypeOK, BoxStates, BoxListOK

\* A query that is asked again keeps what it shows, one without an answer is left to finish.
LEMMA BoxAskedType ==
    ASSUME NEW Rows, NEW query \in BoxQueries(Rows)
    PROVE  /\ BoxAsked(query) \in BoxQueries(Rows)
           /\ BoxAsked(query).loaded = query.loaded /\ BoxAsked(query).shown = query.shown
           /\ query.loaded => BoxAsked(query).at = "asked"
  BY DEF BoxAsked, BoxQueries

LEMMA BoxServedType ==
    ASSUME NEW Rows, NEW query \in BoxQueries(Rows), NEW rows \in Rows
    PROVE  /\ BoxServed(query, rows) \in BoxQueries(Rows)
           /\ BoxServed(query, rows).loaded = query.loaded
           /\ BoxServed(query, rows).shown = query.shown
           /\ BoxServed(query, rows).at = "read" /\ BoxServed(query, rows).read = rows
  BY DEF BoxServed, BoxQueries

LEMMA BoxShownType ==
    ASSUME NEW Rows, NEW query \in BoxQueries(Rows)
    PROVE  /\ BoxShown(query) \in BoxQueries(Rows)
           /\ BoxShown(query).loaded /\ BoxShown(query).shown = query.read
           /\ BoxShown(query).at = "idle"
  BY DEF BoxShown, BoxQueries

\* The queries and what the page was told stand, while the server goes on.
LEMMA BoxKept ==
    ASSUME BoxInv, BoxGoesOn, UNCHANGED <<boxTarget, boxDeck, boxList, boxHistory>>,
           boxEditing' \in BoxProposals \cup {BoxNone}, boxSelected' \in BoxIds \cup {BoxNone},
           boxCalls' \in [BoxKinds -> BoxCall \cup {BoxNone}],
           boxClicked' \in 0..BoxClicks, boxWritten' \in 0..BoxElsewhere,
           \A kind \in BoxKinds : boxCalls'[kind] = boxCalls[kind] \/ BoxCallIsReal(kind)'
    PROVE  BoxInv'
  <1>0. BoxTypeOK /\ UNCHANGED <<boxTold, boxSeen>>  BY DEF BoxInv, boxHistory
  <1>1. BoxTypeOK'  BY <1>0, BoxParts, BoxTyped DEF BoxGoesOn
  <1>2. BoxUnloaded'  BY DEF BoxInv, BoxUnloaded
  <1>3. ASSUME NEW kind \in BoxKinds
        PROVE  BoxCallIsReal(kind)'
    <2> SUFFICES ASSUME boxCalls'[kind] = boxCalls[kind], boxCalls[kind] # BoxNone
                 PROVE  BoxCallIsReal(kind)'
      BY DEF BoxCallIsReal
    <2>1. boxCalls[kind] \in BoxCall  BY <1>0, BoxParts
    <2> DEFINE call == boxCalls[kind]
    <2>2. call.id \in BoxIds /\ call.version \in Nat  BY <2>1 DEF BoxCall
    <2>3. /\ boxRows'[call.id].version >= boxRows[call.id].version
          /\ boxRows[call.id].version \in Nat /\ boxRows'[call.id].version \in Nat
      BY <1>0, <2>2, BoxParts DEF BoxGoesOn, BoxRow
    <2>4. BoxCallIsReal(kind)  BY DEF BoxInv
    <2> QED  BY <2>2, <2>3, <2>4 DEF BoxCallIsReal, BoxGoesOn
  <1>4. BoxSync'
    <2>1. \A p \in boxTold : p \in BoxProposals  BY <1>0, BoxParts
    <2>2. \A i \in BoxIds : /\ boxSeen[i] \in Nat /\ boxRows[i].version \in Nat
                            /\ boxRows'[i].version \in Nat
      BY <1>0, BoxParts DEF BoxGoesOn, BoxRow
    <2> QED  BY <1>0, <2>1, <2>2 DEF BoxInv, BoxSync, BoxGoesOn
  <1> QED  BY <1>1, <1>2, <1>3, <1>4 DEF BoxInv

\* A click sends a request from a query that was answered.
LEMMA BoxSendStep ==
    ASSUME BoxInv, NEW kind \in BoxKinds, NEW what, NEW id \in BoxIds, NEW version \in Nat,
           BoxSend(kind, what, id, version),
           \/ /\ kind = "decide" /\ what \in {"approve", "refuse"}
              /\ id \in BoxProposals /\ boxDeck.loaded
           \/ kind # "decide" /\ what = kind /\ boxList.loaded
    PROVE  BoxInv'
  <1> DEFINE new == [what |-> what, id |-> id, version |-> version, at |-> "sent"]
  <1>0. BoxTypeOK  BY DEF BoxInv
  <1>1. /\ boxCalls' = [boxCalls EXCEPT ![kind] = new]
        /\ boxClicked < BoxClicks /\ boxClicked' = boxClicked + 1
        /\ UNCHANGED <<boxServer, boxTarget, boxDeck, boxList, boxEditing, boxSelected,
                       boxWritten, boxHistory>>
    BY DEF BoxSend
  <1>2. new \in BoxCall /\ new.what = what /\ new.id = id /\ new.at = "sent"
    BY DEF BoxCall, BoxKinds
  <1> HIDE DEF new
  <1>3. boxCalls' \in [BoxKinds -> BoxCall \cup {BoxNone}]  BY <1>0, <1>1, <1>2, BoxParts
  <1>4. boxClicked' \in 0..BoxClicks  BY <1>0, <1>1, BoxParts, BoxAssumption
  <1>5. ASSUME NEW k \in BoxKinds
        PROVE  boxCalls'[k] = boxCalls[k] \/ BoxCallIsReal(k)'
    <2>1. CASE k = kind
      <3>1. boxCalls'[k] = new  BY <1>0, <1>1, <2>1, BoxParts
      <3>2. boxDeck' = boxDeck /\ boxList' = boxList  BY <1>1
      <3> QED  BY <1>2, <2>1, <3>1, <3>2 DEF BoxCallIsReal
    <2>2. CASE k # kind  BY <1>0, <1>1, <2>2, BoxParts
    <2> QED  BY <2>1, <2>2
  <1>6. BoxGoesOn  BY <1>0, <1>1, BoxStandsStep
  <1> QED  BY <1>0, <1>1, <1>3, <1>4, <1>5, <1>6, BoxParts, BoxKept

LEMMA BoxClickStep ==
    ASSUME BoxInv,
           \/ \E p \in BoxProposals : BoxDecide(p)
           \/ \E i \in BoxIds : BoxRowClick(i) \/ BoxDrawerClick(i)
    PROVE  BoxInv'
  <1>0. /\ boxDeck.loaded \/ boxDeck.shown = {}
        /\ boxList.loaded \/ DOMAIN boxList.shown = {}
        /\ boxList.shown \in BoxTables
    BY BoxParts DEF BoxInv, BoxUnloaded, BoxQueries
  <1>1. ASSUME NEW p \in BoxProposals, BoxDecide(p)
        PROVE  BoxInv'
    <2>1. PICK what \in {"approve", "refuse"} : BoxSend("decide", what, p, 0)
      BY <1>1 DEF BoxDecide
    <2>2. boxDeck.loaded /\ p \in BoxIds /\ "decide" \in BoxKinds
      BY <1>0, <1>1 DEF BoxDecide, BoxCards, BoxIds, BoxKinds
    <2> QED  BY <2>1, <2>2, BoxSendStep
  <1>2. ASSUME NEW i \in BoxIds, BoxRowClick(i) \/ BoxDrawerClick(i)
        PROVE  BoxInv'
    <2>1. i \in DOMAIN boxList.shown
      BY <1>2, BoxAssumption DEF BoxRowClick, BoxDrawerClick, BoxInbox, BoxDrawer
    <2>2. boxList.loaded  BY <1>0, <2>1
    <2>3. boxList.shown[i].version \in Nat  BY <1>0, <2>1, BoxTable DEF BoxRow
    <2>4. PICK kind \in {"triage", "remove", "save", "delete"} :
            BoxSend(kind, kind, i, boxList.shown[i].version)
      BY <1>2 DEF BoxRowClick, BoxDrawerClick
    <2>5. kind \in BoxKinds /\ kind # "decide"  BY DEF BoxKinds
    <2> QED  BY <2>2, <2>3, <2>4, <2>5, BoxSendStep
  <1> QED  BY <1>1, <1>2

\* The server carries a request out, or does not.
LEMMA BoxServeStep ==
    ASSUME BoxInv, NEW kind \in BoxKinds, BoxServe(kind)
    PROVE  BoxInv'
  <1> DEFINE call == boxCalls[kind]
  <1>0. BoxTypeOK /\ BoxCallIsReal(kind) /\ call # BoxNone  BY DEF BoxInv, BoxServe
  <1>1. call \in BoxCall /\ call.id \in BoxIds  BY <1>0, BoxParts DEF BoxCall
  <1>2. UNCHANGED <<boxTarget, boxDeck, boxList, boxEditing, boxSelected, boxClicked,
                    boxWritten, boxHistory>>
    BY DEF BoxServe
  <1>3. CASE BoxAccepted(call) /\ \E at \in {"done", "failed"} :
                 boxCalls' = [boxCalls EXCEPT ![kind].at = at,
                                              ![kind].version = boxRows'[call.id].version]
    <2>1. BoxGoesOn /\ (kind = "decide" => boxTable'[call.id] \in BoxDecisions)
      BY <1>0, <1>3, BoxAcceptedStep
    <2>2. PICK at \in {"done", "failed"} :
            boxCalls' = [boxCalls EXCEPT ![kind].at = at,
                                         ![kind].version = boxRows'[call.id].version]
      BY <1>3
    <2>3. PICK version \in Nat : version = boxRows'[call.id].version
      BY <1>1, <2>1 DEF BoxGoesOn, BoxRow
    <2> DEFINE new == [call EXCEPT !.at = at, !.version = version]
    <2>4. /\ boxCalls' \in [BoxKinds -> BoxCall \cup {BoxNone}]
          /\ boxCalls'[kind] = new
          /\ \A k \in BoxKinds : k # kind => boxCalls'[k] = boxCalls[k]
      <3>1. boxCalls' = [boxCalls EXCEPT ![kind] = new]
        <4>1. boxCalls' = [boxCalls EXCEPT ![kind].at = at, ![kind].version = version]
          BY <2>2, <2>3
        <4> QED  BY <1>0, <4>1, BoxParts
      <3>2. new \in BoxCall  BY <1>1 DEF BoxCall
      <3> HIDE DEF new
      <3> QED  BY <1>0, <3>1, <3>2, BoxParts
    <2>5. new.what = call.what /\ new.id = call.id /\ new.version = version  BY <1>1 DEF BoxCall
    <2>6. boxRows'[new.id].version \in Nat  BY <1>1, <2>1, <2>5 DEF BoxGoesOn, BoxRow
    <2> HIDE DEF new
    <2>7. BoxCallIsReal(kind)'
      <3>1. boxDeck' = boxDeck /\ boxList' = boxList  BY <1>2
      <3> QED  BY <1>0, <2>1, <2>3, <2>4, <2>5, <2>6, <3>1 DEF BoxCallIsReal
    <2> QED  BY <1>0, <1>2, <2>1, <2>4, <2>7, BoxParts, BoxKept
  <1>4. CASE boxCalls' = [boxCalls EXCEPT ![kind].at = "failed"] /\ UNCHANGED boxServer
    <2>1. BoxGoesOn  BY <1>0, <1>4, BoxStandsStep
    <2> DEFINE new == [call EXCEPT !.at = "failed"]
    <2>2. /\ boxCalls' \in [BoxKinds -> BoxCall \cup {BoxNone}]
          /\ boxCalls'[kind] = new
          /\ \A k \in BoxKinds : k # kind => boxCalls'[k] = boxCalls[k]
      <3>1. boxCalls' = [boxCalls EXCEPT ![kind] = new]  BY <1>0, <1>4, BoxParts
      <3>2. new \in BoxCall  BY <1>1 DEF BoxCall
      <3> HIDE DEF new
      <3> QED  BY <1>0, <3>1, <3>2, BoxParts
    <2>3. new.what = call.what /\ new.id = call.id /\ new.at = "failed"  BY <1>1 DEF BoxCall
    <2> HIDE DEF new
    <2>4. BoxCallIsReal(kind)'
      <3>1. boxDeck' = boxDeck /\ boxList' = boxList  BY <1>2
      <3> QED  BY <1>0, <2>2, <2>3, <3>1 DEF BoxCallIsReal
    <2> QED  BY <1>0, <1>2, <2>1, <2>2, <2>4, BoxParts, BoxKept
  <1> QED  BY <1>3, <1>4 DEF BoxServe

\* What leaves queries, history and server alone.
LEMMA BoxQuietStep ==
    ASSUME BoxInv,
           \/ \E kind \in BoxKinds : BoxFail(kind)
           \/ BoxEdit \/ BoxClose \/ UNCHANGED boxVars
    PROVE  BoxInv'
  <1>0. BoxTypeOK  BY DEF BoxInv
  <1>1. /\ UNCHANGED <<boxServer, boxTarget, boxDeck, boxList, boxClicked, boxWritten,
                       boxHistory>>
        /\ boxEditing' \in BoxProposals \cup {BoxNone}
        /\ boxSelected' \in BoxIds \cup {BoxNone}
    BY <1>0, BoxParts DEF BoxFail, BoxEdit, BoxClose, boxVars, BoxCards, BoxQueries
  <1>2. /\ boxCalls' \in [BoxKinds -> BoxCall \cup {BoxNone}]
        /\ \A kind \in BoxKinds : boxCalls'[kind] = boxCalls[kind] \/ boxCalls'[kind] = BoxNone
    BY <1>0, BoxParts DEF BoxFail, BoxEdit, BoxClose, boxVars
  <1>3. \A kind \in BoxKinds : boxCalls'[kind] = boxCalls[kind] \/ BoxCallIsReal(kind)'
    BY <1>2 DEF BoxCallIsReal
  <1>4. BoxGoesOn  BY <1>0, <1>1, BoxStandsStep
  <1> QED  BY <1>0, <1>1, <1>2, <1>3, <1>4, BoxParts, BoxKept

\* Agents and other clients.
LEMMA BoxOthersStep ==
    ASSUME BoxInv, BoxOthers
    PROVE  BoxInv'
  <1>0. BoxTypeOK  BY DEF BoxInv
  <1>1. BoxGoesOn
    <2>1. ASSUME NEW p \in BoxProposals, BoxPropose(p)
          PROVE  BoxGoesOn
      <3>1. /\ boxTable[p] = "none" /\ boxTable' = [boxTable EXCEPT ![p] = "pending"]
            /\ UNCHANGED boxRows
        BY <2>1 DEF BoxPropose
      <3>2. /\ boxTable' \in [BoxProposals -> BoxStates]
            /\ \A q \in BoxProposals :
                  boxTable[q] \in BoxDecisions => boxTable'[q] \in BoxDecisions
        BY <1>0, <3>1, BoxParts DEF BoxStates, BoxDecisions
      <3> QED  BY <1>0, <3>1, <3>2, BoxParts, BoxRowsStand DEF BoxGoesOn
    <2>2. ASSUME NEW p \in BoxProposals, BoxApplies(p) \/ BoxRefuses(p)
          PROVE  BoxGoesOn
      BY <1>0, <2>2, BoxAppliesStep, BoxRefusesStep
    <2>3. ASSUME NEW i \in BoxIds, BoxWrite(i) \/ BoxRestore(i)
          PROVE  BoxGoesOn
      <3>1. PICK s \in BoxStatus : BoxStored(i, s) /\ UNCHANGED boxTable
        BY <2>3, BoxLaterType DEF BoxWrite, BoxRestore, BoxStatus
      <3> QED  BY <1>0, <3>1, BoxWritesStep
    <2> QED  BY <2>1, <2>2, <2>3 DEF BoxOthers
  <1>2. /\ UNCHANGED <<boxTarget, boxDeck, boxList, boxEditing, boxSelected, boxCalls,
                       boxClicked, boxHistory>>
        /\ boxWritten' \in 0..BoxElsewhere
    BY <1>0, BoxParts, BoxAssumption DEF BoxOthers
  <1> QED  BY <1>0, <1>1, <1>2, BoxParts, BoxKept

\* The server answers a query with what it has, or the page takes such an answer.
LEMMA BoxFetchStep ==
    ASSUME BoxInv, BoxFetch
    PROVE  BoxInv'
  <1>0. /\ BoxTypeOK /\ boxDeck \in BoxQueries(SUBSET BoxProposals)
        /\ boxList \in BoxQueries(BoxTables)
    BY BoxParts DEF BoxInv
  <1>1. /\ UNCHANGED <<boxTable, boxRows, boxTarget, boxEditing, boxSelected, boxCalls,
                       boxClicked, boxWritten, boxTold, boxSeen>>
    BY DEF BoxFetch, boxServer, boxHistory
  <1>2. ASSUME boxDeck' \in BoxQueries(SUBSET BoxProposals), boxList' \in BoxQueries(BoxTables),
               boxDeck.loaded => boxDeck'.loaded, boxList.loaded => boxList'.loaded
        PROVE  BoxTypeOK' /\ \A kind \in BoxKinds : BoxCallIsReal(kind)'
    <2>1. BoxTypeOK'  BY <1>0, <1>1, <1>2, BoxParts, BoxTyped
    <2>2. ASSUME NEW kind \in BoxKinds
          PROVE  BoxCallIsReal(kind)'
      BY <1>1, <1>2 DEF BoxInv, BoxCallIsReal
    <2> QED  BY <2>1, <2>2
  <1>3. CASE /\ boxDeck.at = "asked" /\ boxDeck' = BoxServed(boxDeck, BoxPending)
             /\ UNCHANGED boxList
    <2>1. BoxPending \in SUBSET BoxProposals /\ BoxPending \cap boxTold = {}
      BY DEF BoxPending, BoxInv, BoxSync, BoxDecisions
    <2>2. /\ boxDeck' \in BoxQueries(SUBSET BoxProposals) /\ boxDeck'.loaded = boxDeck.loaded
          /\ boxDeck'.shown = boxDeck.shown
          /\ boxDeck'.at = "read" /\ boxDeck'.read = BoxPending
      BY <1>0, <1>3, <2>1, BoxServedType
    <2>3. BoxUnloaded' /\ BoxSync'
      BY <1>1, <1>3, <2>1, <2>2 DEF BoxInv, BoxUnloaded, BoxSync
    <2> QED  BY <1>0, <1>2, <1>3, <2>2, <2>3 DEF BoxInv
  <1>4. CASE /\ boxList.at = "asked" /\ boxList' = BoxServed(boxList, BoxAlive)
             /\ UNCHANGED boxDeck
    <2>1. BoxAlive \in BoxTables
          /\ \A i \in DOMAIN BoxAlive : i \in BoxIds /\ BoxAlive[i] = boxRows[i]
      <3> DEFINE alive == {j \in BoxIds : boxRows[j].status \in {"inbox", "planned"}}
      <3>1. BoxAlive = [i \in alive |-> boxRows[i]] /\ alive \subseteq BoxIds  BY DEF BoxAlive
      <3> HIDE DEF alive
      <3>2. [i \in alive |-> boxRows[i]] \in [alive -> BoxRow]  BY <1>0, <3>1, BoxParts
      <3> QED  BY <3>1, <3>2 DEF BoxTables
    <2>2. /\ boxList' \in BoxQueries(BoxTables) /\ boxList'.loaded = boxList.loaded
          /\ boxList'.shown = boxList.shown
          /\ boxList'.at = "read" /\ boxList'.read = BoxAlive
      BY <1>0, <1>4, <2>1, BoxServedType
    <2>3. BoxUnloaded' /\ BoxSync'
      BY <1>1, <1>4, <2>1, <2>2 DEF BoxInv, BoxUnloaded, BoxSync
    <2> QED  BY <1>0, <1>2, <1>4, <2>2, <2>3 DEF BoxInv
  <1>5. CASE boxDeck.at = "read" /\ boxDeck' = BoxShown(boxDeck) /\ UNCHANGED boxList
    <2>1. /\ boxDeck' \in BoxQueries(SUBSET BoxProposals) /\ boxDeck'.loaded
          /\ boxDeck'.shown = boxDeck.read /\ boxDeck'.at = "idle"
      BY <1>0, <1>5, BoxShownType
    <2>2. BoxUnloaded' /\ BoxSync'
      BY <1>1, <1>5, <2>1 DEF BoxInv, BoxUnloaded, BoxSync
    <2> QED  BY <1>0, <1>2, <1>5, <2>1, <2>2 DEF BoxInv
  <1>6. CASE boxList.at = "read" /\ boxList' = BoxShown(boxList) /\ UNCHANGED boxDeck
    <2>1. /\ boxList' \in BoxQueries(BoxTables) /\ boxList'.loaded
          /\ boxList'.shown = boxList.read /\ boxList'.at = "idle"
      BY <1>0, <1>6, BoxShownType
    <2>2. BoxUnloaded' /\ BoxSync'
      BY <1>1, <1>6, <2>1 DEF BoxInv, BoxUnloaded, BoxSync
    <2> QED  BY <1>0, <1>2, <1>6, <2>1, <2>2 DEF BoxInv
  <1> QED  BY <1>3, <1>4, <1>5, <1>6 DEF BoxFetch

\* An answer asks the queries again, and the page was told: what they show from then on was
\* read after the request was carried out.
LEMMA BoxAnswerStep ==
    ASSUME BoxInv, NEW kind \in BoxKinds, BoxAnswer(kind)
    PROVE  BoxInv'
  <1> DEFINE call == boxCalls[kind]
  <1>0. /\ BoxTypeOK /\ boxDeck \in BoxQueries(SUBSET BoxProposals)
        /\ boxList \in BoxQueries(BoxTables)
        /\ call # BoxNone /\ call.at = "done" /\ BoxCallIsReal(kind)
    BY BoxParts DEF BoxInv, BoxAnswer
  <1>1. call \in BoxCall /\ call.id \in BoxIds /\ call.version \in Nat
    BY <1>0, BoxParts DEF BoxCall
  <1>2. /\ boxCalls' = [boxCalls EXCEPT ![kind] = BoxNone]
        /\ boxList' = BoxAsked(boxList)
        /\ boxDeck' = IF kind = "decide" THEN BoxAsked(boxDeck) ELSE boxDeck
        /\ boxEditing' = IF kind = "decide" THEN BoxNone ELSE boxEditing
        /\ boxTold' = IF kind = "decide" THEN boxTold \cup {call.id} ELSE boxTold
        /\ boxSeen' = IF kind = "decide" THEN boxSeen
                       ELSE [boxSeen EXCEPT ![call.id] = call.version]
        /\ UNCHANGED <<boxTable, boxRows, boxTarget, boxClicked, boxWritten>>
    BY DEF BoxAnswer, BoxInvalidateDeck, BoxInvalidateItems, boxServer
  <1>3. boxSelected' \in BoxIds \cup {BoxNone}
    <2>1. boxSelected' \in {boxTarget[call.id], call.id, BoxNone, boxSelected}
          /\ (call.what = "approve" \/ boxSelected' \in {call.id, BoxNone, boxSelected})
      BY DEF BoxAnswer
    <2>2. call.what = "approve" => call.id \in BoxProposals
      BY <1>0 DEF BoxCallIsReal, BoxKinds
    <2>3. call.what = "approve" => boxTarget[call.id] \in BoxIds  BY <1>0, <2>2, BoxParts
    <2> QED  BY <1>0, <1>1, <2>1, <2>3, BoxParts
  <1>4. /\ boxList' \in BoxQueries(BoxTables)
        /\ boxList'.loaded = boxList.loaded /\ boxList'.shown = boxList.shown
        /\ boxList.loaded => boxList'.at = "asked"
        /\ boxList' = boxList \/ boxList'.at = "asked"
    BY <1>0, <1>2, BoxAskedType DEF BoxAsked
  <1>5. /\ boxDeck' \in BoxQueries(SUBSET BoxProposals)
        /\ boxDeck'.loaded = boxDeck.loaded /\ boxDeck'.shown = boxDeck.shown
        /\ kind = "decide" /\ boxDeck.loaded => boxDeck'.at = "asked"
        /\ boxDeck' = boxDeck \/ boxDeck'.at = "asked"
    BY <1>0, <1>2, BoxAskedType DEF BoxAsked
  <1>6. kind = "decide" => /\ boxDeck'.at = "asked" /\ call.id \in BoxProposals
                           /\ boxTable[call.id] \in BoxDecisions
    BY <1>0, <1>5 DEF BoxCallIsReal
  <1>7. kind # "decide" => /\ boxList'.at = "asked"
                           /\ boxRows[call.id].version >= call.version
    BY <1>0, <1>4 DEF BoxCallIsReal
  <1>8. BoxTypeOK'
    <2>1. boxCalls' \in [BoxKinds -> BoxCall \cup {BoxNone}]  BY <1>0, <1>2, BoxParts
    <2>2. boxTold' \in SUBSET BoxProposals  BY <1>0, <1>2, <1>6, BoxParts
    <2>3. boxSeen' \in [BoxIds -> Nat]  BY <1>0, <1>1, <1>2, BoxParts
    <2>4. boxEditing' \in BoxProposals \cup {BoxNone}  BY <1>0, <1>2, BoxParts
    <2> QED  BY <1>0, <1>2, <1>3, <1>4, <1>5, <2>1, <2>2, <2>3, <2>4, BoxParts, BoxTyped
  <1>9. BoxUnloaded'  BY <1>4, <1>5 DEF BoxInv, BoxUnloaded
  <1>10. ASSUME NEW k \in BoxKinds
         PROVE  BoxCallIsReal(k)'
    <2>1. boxCalls'[k] \in {boxCalls[k], BoxNone}  BY <1>0, <1>2, BoxParts
    <2> QED  BY <1>2, <1>4, <1>5, <2>1 DEF BoxInv, BoxCallIsReal
  <1> HIDE DEF call
  <1>11. BoxSync'
    <2>1. CASE kind = "decide"
      <3>1. boxTold' = boxTold \cup {call.id} /\ boxSeen' = boxSeen
        BY <1>2, <2>1
      <3> QED  BY <1>2, <1>4, <1>6, <2>1, <3>1 DEF BoxInv, BoxSync
    <2>2. CASE kind # "decide"
      <3>1. boxTold' = boxTold /\ boxSeen' = [boxSeen EXCEPT ![call.id] = call.version]
            /\ boxDeck' = boxDeck
        BY <1>2, <2>2
      <3>2. \A i \in BoxIds : boxRows[i].version >= boxSeen'[i]
        BY <1>0, <1>1, <1>7, <2>2, <3>1, BoxParts DEF BoxInv, BoxSync
      <3> QED  BY <1>2, <1>7, <2>2, <3>1, <3>2 DEF BoxInv, BoxSync
    <2> QED  BY <2>1, <2>2
  <1> QED  BY <1>8, <1>9, <1>10, <1>11 DEF BoxInv

LEMMA BoxStep ==
    ASSUME BoxInv, [BoxNext]_boxVars
    PROVE  BoxInv'
  BY BoxClickStep, BoxServeStep, BoxAnswerStep, BoxQuietStep, BoxFetchStep, BoxOthersStep
     DEF BoxNext

LEMMA BoxInitInv == BoxInit => BoxInv
  <1> SUFFICES ASSUME BoxInit PROVE BoxInv
    OBVIOUS
  <1>1. <<>> \in BoxTables /\ DOMAIN <<>> = {}
    <2>1. DOMAIN <<>> = {} /\ <<>> \in [{} -> BoxRow]  OBVIOUS
    <2> QED  BY <2>1, BoxTable
  <1>2. /\ boxDeck = BoxQuery({}) /\ boxDeck \in BoxQueries(SUBSET BoxProposals)
        /\ boxList = BoxQuery(<<>>) /\ boxList \in BoxQueries(BoxTables)
    BY <1>1 DEF BoxInit, BoxQuery, BoxQueries
  <1>3. /\ boxDeck.at = "asked" /\ boxDeck.shown = {}
        /\ boxList.at = "asked" /\ DOMAIN boxList.shown = {}
    BY <1>1, <1>2 DEF BoxQuery
  <1>4. BoxTypeOK
    <2>1. boxRows \in [BoxIds -> BoxRow]  BY DEF BoxInit, BoxRow
    <2>2. boxClicked \in 0..BoxClicks /\ boxWritten \in 0..BoxElsewhere
      BY BoxAssumption DEF BoxInit
    <2>3. boxTable \in [BoxProposals -> BoxStates]  BY DEF BoxInit, BoxStates
    <2>4. BoxListOK(boxList)  BY <1>2, BoxListType
    <2> QED  BY <1>2, <2>1, <2>2, <2>3, <2>4 DEF BoxInit, BoxTypeOK, BoxListOK, BoxStates
  <1>5. BoxUnloaded  BY <1>3 DEF BoxUnloaded
  <1>6. \A kind \in BoxKinds : BoxCallIsReal(kind)  BY DEF BoxInit, BoxCallIsReal
  <1>7. BoxSync
    <2>1. /\ boxTold = {} /\ \A i \in BoxIds : boxSeen[i] = 0 /\ boxRows[i].version \in Nat
      BY <1>4, BoxParts DEF BoxInit, BoxRow
    <2> QED  BY <1>3, <2>1 DEF BoxSync
  <1> QED  BY <1>4, <1>5, <1>6, <1>7 DEF BoxInv

\* Proposals, rows, both queries, the form and the requests keep their types.
THEOREM BoxType == BoxSpec => []BoxTypeOK
  <1>1. BoxInv => BoxTypeOK  BY DEF BoxInv
  <1> QED  BY <1>1, BoxInitInv, BoxStep, PTL DEF BoxSpec

\* However fetches, answers and other writers interleave, the deck offers no proposal the page
\* was told is decided, and the list no row older than one the page was told of.
THEOREM ReadsItsWrites == BoxSpec => []BoxReadsItsWrites
  <1>1. BoxInv => BoxReadsItsWrites
    BY DEF BoxInv, BoxSync, BoxReadsItsWrites, BoxCards
  <1> QED  BY <1>1, BoxInitInv, BoxStep, PTL DEF BoxSpec
=============================================================================
