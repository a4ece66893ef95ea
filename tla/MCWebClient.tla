---------------------------- MODULE MCWebClient ----------------------------
(***************************************************************************)
(* Small instances of the machines of the web client. They share no state: *)
(* a behaviour is that of one of them, its screen, while the others rest.  *)
(***************************************************************************)
EXTENDS Tags, Focus, ReminderInbox, Shell, ItemList, ItemViews, ItemDrawer,
        InboxPage, ItemSchedule

CONSTANT Screens   \* the machines of the instance
VARIABLE screen

ASSUME ScreensAssumption ==
    Screens \subseteq {"tags", "focus", "inbox", "shell", "lists", "views", "page", "drawer",
                       "box", "schedule"}

webVars == <<screen, tagVars, focusVars, inboxVars, shellVars, listVars, viewVars, drawerVars,
             boxVars, vars>>

\* A machine that is not the screen's has one initial state.
TagRests ==
    /\ tagRows = <<>> /\ tagItem = [tags |-> {}, done |-> FALSE, version |-> 1]
    /\ tagCalls = {} /\ tagSent = 0 /\ tagSel = NoTag
    /\ tagLoaded = FALSE /\ tagList = <<>> /\ tagFetch = TagFetch("asked", <<>>) /\ tagStale = FALSE
    /\ tagForm = NoTag /\ tagShown = NoTag

\* Identifiers and names are interchangeable: one choice of the tags that exist is enough,
\* a root and a tag below it or beside it.
TagPair == CHOOSE pair \in SUBSET TagIds : Cardinality(pair) = 2
TagOther == CHOOSE t \in TagPair : TRUE
TagStarts ==
    /\ TagInit
    /\ DOMAIN tagRows = TagPair /\ tagItem.tags = {TagOther}
    /\ tagRows[TagOther].name = CHOOSE n \in TagNames : TRUE
    /\ \A t \in TagPair \ {TagOther} : tagRows[t].name # tagRows[TagOther].name

\* The clicks of a list page are tried on items with a due date at most, the groups and
\* sections on all.
ViewPlain == viewItem.all_day /\ ~viewItem.person
             /\ viewItem.start = ViewNoDay /\ viewItem.follow = ViewNoDay

ViewRests == viewItem = [scope |-> "work", status |-> "inbox", archived |-> FALSE,
                         all_day |-> TRUE, start |-> ViewNoDay, due |-> ViewNoDay,
                         follow |-> ViewNoDay, person |-> FALSE, high |-> FALSE]

\* The drawer's page has an item with a reminder and others without.
DrawerRinging == {CHOOSE i \in DrawerItems : TRUE}

WebInit ==
    /\ screen \in Screens
    /\ IF screen = "tags" THEN TagStarts ELSE TagRests
    /\ FocusInit /\ (screen # "focus" => focusOpen = {} /\ focusStore = NoFocus)
    /\ InboxInit /\ (screen # "inbox" => \A n \in Notices : inboxState[n] = "waiting")
    /\ ShellInit /\ (screen # "shell" => ~shellCookie /\ shellHash = "today" /\ ~shellReview)
    /\ ListInit
    /\ ViewInit /\ (screen = "page" => ViewPlain) /\ (screen \notin {"views", "page"} => ViewRests)
    /\ DrawerInit /\ drawerBell = DrawerRinging
    /\ BoxInit /\ (screen # "box" => boxTable = [p \in BoxProposals |-> "none"]
                                     /\ \A p \in BoxProposals : boxTarget[p] = p)
    /\ Init

WebNext ==
    \/ screen = "tags" /\ TagNext
       /\ UNCHANGED <<screen, focusVars, inboxVars, shellVars, listVars,
                      viewVars, drawerVars, boxVars, vars>>
    \/ screen = "focus" /\ FocusNext
       /\ UNCHANGED <<screen, tagVars, inboxVars, shellVars, listVars,
                      viewVars, drawerVars, boxVars, vars>>
    \/ screen = "inbox" /\ InboxNext
       /\ UNCHANGED <<screen, tagVars, focusVars, shellVars, listVars,
                      viewVars, drawerVars, boxVars, vars>>
    \/ screen = "shell" /\ ShellNext
       /\ UNCHANGED <<screen, tagVars, focusVars, inboxVars, listVars,
                      viewVars, drawerVars, boxVars, vars>>
    \/ screen = "lists" /\ ListNext
       /\ UNCHANGED <<screen, tagVars, focusVars, inboxVars, shellVars,
                      viewVars, drawerVars, boxVars, vars>>
    \/ screen = "views" /\ ViewTriage
       /\ UNCHANGED <<screen, tagVars, focusVars, inboxVars, shellVars,
                      listVars, drawerVars, boxVars, vars>>
    \/ screen = "page" /\ ViewNext
       /\ UNCHANGED <<screen, tagVars, focusVars, inboxVars, shellVars,
                      listVars, drawerVars, boxVars, vars>>
    \/ screen = "drawer" /\ DrawerNext
       /\ UNCHANGED <<screen, tagVars, focusVars, inboxVars, shellVars,
                      listVars, viewVars, boxVars, vars>>
    \/ screen = "box" /\ BoxNext
       /\ UNCHANGED <<screen, tagVars, focusVars, inboxVars, shellVars,
                      listVars, viewVars, drawerVars, vars>>
    \/ screen = "schedule" /\ Next
       /\ UNCHANGED <<screen, tagVars, focusVars, inboxVars, shellVars,
                      listVars, viewVars, drawerVars, boxVars>>

WebSpec == WebInit /\ [][WebNext]_webVars

\* Each variable has its type; those of a machine that rests do not change.
WebTypeOK ==
    CASE screen = "tags"   -> TagTypeOK
      [] screen = "focus"  -> FocusTypeOK
      [] screen = "inbox"  -> InboxTypeOK
      [] screen = "shell"  -> ShellTypeOK
      [] screen = "lists"  -> ListTypeOK
      [] screen \in {"views", "page"} -> ViewTypeOK
      [] screen = "drawer" -> DrawerTypeOK
      [] screen = "box"    -> BoxTypeOK
      [] screen = "schedule" -> TypeOK
=============================================================================
