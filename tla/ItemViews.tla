----------------------------- MODULE ItemViews ------------------------------
(***************************************************************************)
(* Where one item is shown: the groups and filters of the two list pages,  *)
(* the sections of Today, the buckets of the weekly review, the inbox and  *)
(* the calendar's lists, with the toolbar and the keyboard of a list page. *)
(* Days are counted from today; of an instant only its day on the user's   *)
(* wall clock counts here.                                                 *)
(***************************************************************************)
EXTENDS Integers, FiniteSets

CONSTANTS
    ViewBack,      \* bound: days back from today
    ViewAhead,     \* days from today on, on which something may be
    ViewSunday,    \* days left until Sunday
    ViewNoDay,     \* no day
    ViewClicks     \* bound: clicks on one page

ASSUME ViewAssumption ==
    /\ ViewBack \in Nat /\ ViewAhead \subseteq Nat /\ 0 \in ViewAhead
    /\ ViewSunday \in 0..6 /\ ViewNoDay \notin Int /\ ViewClicks \in Nat

VARIABLES
    viewItem,      \* the item, as the cached list has it
    viewPage,      \* what is chosen on its list page
    viewSaved,     \* the filters of the last view saved from the page, and its handoff
    viewClicks     \* bound counter for ViewClicks

viewVars == <<viewItem, viewPage, viewSaved, viewClicks>>

ViewDays == (-ViewBack..-1) \cup ViewAhead
ViewDay == ViewDays \cup {ViewNoDay}
ViewStatus == {"inbox", "planned", "waiting", "done", "cancelled"}
ViewItem == [scope : {"work", "personal"}, status : ViewStatus, archived : BOOLEAN,
             all_day : BOOLEAN, start : ViewDay, due : ViewDay, follow : ViewDay,
             person : BOOLEAN,      \* somebody of the item is waited for
             high : BOOLEAN]        \* high or urgent
ViewQuick == {"all", "today", "week", "overdue", "waiting", "unscheduled"}
ViewSearch == {"none", "hit", "miss"}
ViewSpec == [quick : ViewQuick, high : BOOLEAN, search : ViewSearch]

-----------------------------------------------------------------------------
(* Dates of an item                                                        *)

ViewIs(day) == day # ViewNoDay

\* itemDateKey, and the key isMustDoToday looks at.
ViewKey(item)  == IF ViewIs(item.start) THEN item.start ELSE item.due
ViewMust(item) == IF ViewIs(item.due) THEN item.due ELSE item.start

ViewKeyIn(item, days) == ViewKey(item) \in days \cap ViewDays
ViewPast == {d \in ViewDays : d < 0}
ViewPastOrToday == ViewPast \cup {0}
ViewFuture == ViewDays \ ViewPastOrToday

\* isWaitingItem.
ViewWaits(item) == item.status = "waiting" \/ item.person

ViewOpen(item) == ~item.archived /\ item.status \notin {"done", "cancelled"}

-----------------------------------------------------------------------------
(* The list pages                                                          *)

\* matchesQuickFilter.
ViewMatches(item, quick) ==
    CASE quick = "all"         -> TRUE
      [] quick = "today"       -> ViewKey(item) = 0
      [] quick = "week"        -> ViewKeyIn(item, 0..ViewSunday)
      [] quick = "overdue"     -> ViewKeyIn(item, ViewPast) /\ item.status \notin {"waiting", "inbox"}
      [] quick = "waiting"     -> item.status = "waiting"
      [] quick = "unscheduled" -> ~ViewIs(ViewKey(item))

\* filterItemsForView.
ViewIn(item, view) ==
    CASE view = "current"  -> ViewOpen(item)
      [] view = "done"     -> ~item.archived /\ item.status = "done"
      [] view = "archived" -> item.archived

\* visibleItems.
ViewVisible(item, page) ==
    /\ ViewIn(item, page.view) /\ page.search # "miss"
    /\ ViewMatches(item, page.quick)
    /\ page.high => item.high

ViewGroupable(item) == item.status \notin {"done", "cancelled", "inbox"}

\* groupPersonalItems: today and overdue, future, no time.
ViewPersonalGroupsStrict(item) ==
    IF ~ViewGroupable(item) THEN {}
    ELSE {g \in {"now", "future", "none"} :
             CASE g = "now"    -> ViewKeyIn(item, ViewPast)
               [] g = "future" -> ViewKeyIn(item, ViewFuture)
               [] g = "none"   -> ~ViewIs(ViewKey(item))}

ViewPersonalGroups(item) ==
    IF ~ViewGroupable(item) THEN {}
    ELSE {g \in {"now", "future", "none"} :
             CASE g = "now"    -> ViewKeyIn(item, ViewPastOrToday)
               [] g = "future" -> ViewKeyIn(item, ViewFuture)
               [] g = "none"   -> ~ViewIs(ViewKey(item))}

\* groupWorkItems: those that wait have a group of their own.
ViewWorkGroups(item) ==
    IF item.status = "waiting" THEN {"waiting"} ELSE ViewPersonalGroups(item)

ViewGroups(item) ==
    IF item.scope = "work" THEN ViewWorkGroups(item) ELSE ViewPersonalGroups(item)

\* The rows drawn: one group for done and archived.
ViewDrawn(item, page) ==
    ViewVisible(item, page) /\ (page.view = "current" => ViewGroups(item) # {})

\* inboxItems of the inbox page.
ViewInbox(item) == item.status = "inbox" /\ ~item.archived

-----------------------------------------------------------------------------
(* Today, the review, the calendar                                         *)

\* timed: a concrete start today.
ViewTimed(item) == ViewOpen(item) /\ ~item.all_day /\ item.start = 0

\* due: what must be done today and is not among the timed.
ViewDueToo(item) == ViewOpen(item) /\ ~ViewWaits(item) /\ ViewMust(item) \in ViewPastOrToday
ViewDue(item) ==
    /\ ViewOpen(item) /\ ~ViewWaits(item)
    /\ ViewMust(item) \in ViewPastOrToday /\ ~ViewTimed(item)

\* waiting: to follow up by today, or with no date for it.
ViewFollowUp(item) ==
    ViewOpen(item) /\ ViewWaits(item) /\ item.follow \in ViewPastOrToday \cup {ViewNoDay}

ViewUnscheduled(item) == ViewOpen(item) /\ ~ViewIs(ViewKey(item))

\* buildTodayView: the sections an item is in.
ViewToday(item) ==
    {s \in {"timed", "due", "waiting", "unscheduled"} :
        CASE s = "timed"       -> ViewTimed(item)
          [] s = "due"         -> ViewDue(item)
          [] s = "waiting"     -> ViewFollowUp(item)
          [] s = "unscheduled" -> ViewUnscheduled(item)}

\* buildReview.  Only work items count as waiting.
ViewReviewWaits(item) == ViewOpen(item) /\ item.scope = "work" /\ item.status = "waiting"

ViewReviewOverdue(item) ==
    ViewOpen(item) /\ item.status # "waiting" /\ ViewKeyIn(item, ViewPast)

ViewReview(item) ==
    {b \in {"overdue", "waitingOverdue", "waitingToday", "waitingFuture", "waitingNoDate"} :
        CASE b = "overdue"        -> ViewReviewOverdue(item)
          [] b = "waitingOverdue" -> ViewReviewWaits(item) /\ item.follow \in ViewPast
          [] b = "waitingToday"   -> ViewReviewWaits(item) /\ item.follow = 0
          [] b = "waitingFuture"  -> ViewReviewWaits(item) /\ item.follow \in ViewFuture
          [] b = "waitingNoDate"  -> ViewReviewWaits(item) /\ ~ViewIs(item.follow)}

\* groupTimedSchedules: each instant of an open item, by its day.
ViewCalendarGroup(day) ==
    {g \in {"past", "today", "week", "later"} :
        CASE g = "past"  -> day < 0
          [] g = "today" -> day = 0
          [] g = "week"  -> day \in 1..7
          [] g = "later" -> day > 7}

ViewInstants(item) ==
    IF ViewOpen(item) /\ ~item.all_day THEN {item.start, item.due} \cap ViewDays ELSE {}

\* hasDateOnlySchedule.
ViewDateOnly(item) == ViewOpen(item) /\ item.all_day /\ ViewIs(ViewKey(item))

-----------------------------------------------------------------------------
(* The list page                                                           *)

ViewClick == viewClicks < ViewClicks /\ viewClicks' = viewClicks + 1

\* The tabs current, done, archived; the filters stay as they are.
ViewSetView ==
    /\ ViewClick
    /\ \E view \in {"current", "done", "archived"} : viewPage' = [viewPage EXCEPT !.view = view]
    /\ UNCHANGED <<viewItem, viewSaved>>

\* The search field is on every view.
ViewSetSearch ==
    /\ ViewClick
    /\ \E search \in ViewSearch : viewPage' = [viewPage EXCEPT !.search = search]
    /\ UNCHANGED <<viewItem, viewSaved>>

\* The filter panel is drawn on the current view only.
ViewOpenFilters ==
    /\ ViewClick /\ viewPage.view = "current"
    /\ viewPage' = [viewPage EXCEPT !.panel = ~@]
    /\ UNCHANGED <<viewItem, viewSaved>>

ViewPanel == viewPage.view = "current" /\ viewPage.panel

\* QuickFilterBar: a personal page has no filter for waiting.
ViewSetQuick ==
    /\ ViewClick /\ ViewPanel
    /\ \E quick \in ViewQuick \ (IF viewItem.scope = "work" THEN {} ELSE {"waiting"}) :
           viewPage' = [viewPage EXCEPT !.quick = quick]
    /\ UNCHANGED <<viewItem, viewSaved>>

ViewSetHigh ==
    /\ ViewClick /\ ViewPanel
    /\ viewPage' = [viewPage EXCEPT !.high = ~@]
    /\ UNCHANGED <<viewItem, viewSaved>>

ViewClearPanel ==
    /\ ViewClick /\ ViewPanel /\ (viewPage.quick # "all" \/ viewPage.high)
    /\ viewPage' = [viewPage EXCEPT !.quick = "all", !.high = FALSE]
    /\ UNCHANGED <<viewItem, viewSaved>>

\* SaveViewButton keeps the filters in force; the sidebar applies them to the page again.
ViewSave ==
    /\ ViewClick /\ ViewPanel
    /\ viewPage.quick # "all" \/ viewPage.high \/ viewPage.search # "none"
    /\ viewSaved' = [quick |-> viewPage.quick, high |-> viewPage.high, search |-> viewPage.search]
    /\ UNCHANGED <<viewItem, viewPage>>

ViewApply ==
    /\ ViewClick
    /\ viewPage' = [viewPage EXCEPT !.view = "current", !.search = viewSaved.search,
                                   !.quick = viewSaved.quick, !.high = viewSaved.high]
    /\ UNCHANGED <<viewItem, viewSaved>>

\* EmptyState: does it offer to clear the filters, or invite to create the first item?
ViewEmpty == ~ViewVisible(viewItem, viewPage)
ViewFiltered == viewPage.search # "none" \/ viewPage.quick # "all" \/ viewPage.view # "current"

ViewClearEmpty ==
    /\ ViewClick /\ ViewEmpty /\ ViewFiltered
    /\ viewPage' = [viewPage EXCEPT !.search = "none", !.quick = "all", !.view = "current"]
    /\ UNCHANGED <<viewItem, viewSaved>>

\* useListKeyboard with at most one row: j and k move the focus, Enter opens the focused
\* row, which disables the keyboard, x toggles it.
ViewLength == IF ViewDrawn(viewItem, viewPage) THEN 1 ELSE 0
ViewMin(a, b) == IF a < b THEN a ELSE b
ViewMax(a, b) == IF a < b THEN b ELSE a

ViewKeys ==
    /\ ViewClick /\ ~viewPage.drawer
    /\ viewPage' \in {[viewPage EXCEPT !.focus = ViewMin(@ + 1, ViewLength - 1)],
                     [viewPage EXCEPT !.focus = ViewMax(@ - 1, 0)]}
    /\ UNCHANGED <<viewItem, viewSaved>>

ViewKeyRow ==
    /\ ViewClick /\ ~viewPage.drawer
    /\ viewPage.focus \in 0..ViewLength-1
    /\ \/ viewPage' = [viewPage EXCEPT !.drawer = TRUE] /\ UNCHANGED viewItem
       \/ /\ viewItem' = [viewItem EXCEPT !.status = IF @ = "done" THEN "planned" ELSE "done"]
          /\ UNCHANGED viewPage
    /\ UNCHANGED viewSaved

ViewCloseDrawer ==
    /\ viewPage.drawer
    /\ viewPage' = [viewPage EXCEPT !.drawer = FALSE]
    /\ UNCHANGED <<viewItem, viewSaved, viewClicks>>

ViewFilters == [quick |-> "all", high |-> FALSE, search |-> "none"]

ViewPageStart == [view |-> "current", quick |-> "all", high |-> FALSE, search |-> "none",
                  panel |-> FALSE, focus |-> -1, drawer |-> FALSE]

\* triage of the inbox page: a scope and planned.  The list page of the scope is another
\* page, that starts when it is opened.
ViewTriage ==
    /\ ViewClick /\ ViewInbox(viewItem)
    /\ \E scope \in {"work", "personal"} :
           viewItem' = [viewItem EXCEPT !.scope = scope, !.status = "planned"]
    /\ viewPage' = ViewPageStart /\ viewSaved' = ViewFilters

\* Rows the backend stores: dates in order; a person waited for makes an open item wait,
\* until its status is patched.
ViewStored(item) ==
    /\ ViewIs(item.start) /\ ViewIs(item.due) => item.start <= item.due
    /\ ~item.all_day => ViewIs(ViewKey(item))
    /\ item.person => item.status \in {"planned", "waiting"}
    /\ ViewIs(item.follow) => item.status = "waiting"

ViewInit ==
    /\ viewItem \in {item \in ViewItem : ViewStored(item)}
    /\ viewPage = ViewPageStart
    /\ viewSaved = ViewFilters
    /\ viewClicks = 0

ViewNext ==
    \/ ViewSetView \/ ViewSetSearch \/ ViewOpenFilters \/ ViewSetQuick \/ ViewSetHigh
    \/ ViewClearPanel \/ ViewSave \/ ViewApply \/ ViewClearEmpty
    \/ ViewKeys \/ ViewKeyRow \/ ViewCloseDrawer \/ ViewTriage

ViewsSpec == ViewInit /\ [][ViewNext]_viewVars

-----------------------------------------------------------------------------

ViewTypeOK ==
    /\ viewItem \in ViewItem /\ viewSaved \in ViewSpec /\ viewClicks \in 0..ViewClicks
    /\ viewPage \in [view : {"current", "done", "archived"}, quick : ViewQuick, high : BOOLEAN,
                     search : ViewSearch, panel : BOOLEAN, focus : -1..0, drawer : BOOLEAN]

\* Today shows an open item that does not wait in one section at most, and in one if its due,
\* or its start when nothing is due, is today or before.  An item that waits is shown among
\* those to follow up unless its follow-up is later; it may be shown a second time, as one
\* that starts at a time of today or as unscheduled, but never as due.
ViewsTodayOnce ==
    LET sections == ViewToday(viewItem)
    IN  ViewOpen(viewItem) =>
            /\ Cardinality(sections \ {"waiting"}) <= 1
            /\ ~ViewWaits(viewItem) =>
                  /\ Cardinality(sections) <= 1
                  /\ ViewMust(viewItem) \in ViewPastOrToday => Cardinality(sections) = 1
            /\ ViewWaits(viewItem) =>
                  /\ "due" \notin sections
                  /\ "waiting" \in sections <=> viewItem.follow \notin ViewFuture

\* Every open item is found once: in one group of its list page, or in the inbox; the review
\* asks about it once at most, whatever it waits for, and the calendar puts an instant in one
\* of its lists.
ViewsShowOnce ==
    /\ ViewOpen(viewItem) =>
          Cardinality(ViewGroups(viewItem)) + (IF ViewInbox(viewItem) THEN 1 ELSE 0) = 1
    /\ Cardinality(ViewReview(viewItem)) <= 1
    /\ \A day \in ViewInstants(viewItem) : Cardinality(ViewCalendarGroup(day)) = 1
    /\ ViewDateOnly(viewItem) => ViewInstants(viewItem) = {}
=============================================================================
