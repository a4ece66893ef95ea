-------------------------------- MODULE Shell --------------------------------
(***************************************************************************)
(* The frame of the web client: the session, the page named by the URL     *)
(* hash, the dialogs of the shell, the search dialog, and the two notes    *)
(* that the shell leaves in sessionStorage for the page it navigates to:   *)
(* the item to open (pa-open-item) and the saved view to apply (pa-apply-  *)
(* view).                                                                  *)
(***************************************************************************)
EXTENDS Integers, Sequences

CONSTANTS
    WorkItems, PersonalItems,   \* items of each scope
    ShellTerms,                 \* search terms
    NoItem,                     \* no item, no term, no note
    ShellActs                   \* bound: gestures of the user

ASSUME ShellAssumption == ShellActs \in Nat

VARIABLES
    shellSession,  \* the session query: "loading", "out" or "in"
    shellCookie,   \* the server still has the session
    shellHash,     \* the page the URL names
    shellPage,     \* the page that is rendered
    shellDialogs,  \* dialogs that are open
    shellReview,   \* weekly_review_enabled, as cached
    shellNotes,    \* what sessionStorage holds: an item, and the page of a view
    shellDrawer,   \* selectedId of the rendered page
    shellView,     \* the saved view the rendered page has applied, by its page
    shellSearch,   \* the search dialog: input, term, results and activeIndex
    shellAsked,    \* history: the item the user asked for last, and from where
    shellActs      \* bound counter for ShellActs

shellVars == <<shellSession, shellCookie, shellHash, shellPage, shellDialogs, shellReview,
               shellNotes, shellDrawer, shellView, shellSearch, shellAsked, shellActs>>

ShellItems == WorkItems \cup PersonalItems
ShellPages == {"today", "inbox", "work", "personal", "projects", "calendar", "tags",
               "settings", "review"}
ShellKinds == {"quickAdd", "search", "help", "diagnostics"}
ItemPage(item) == IF item \in WorkItems THEN "work" ELSE "personal"

SearchStart == [input |-> NoItem, term |-> NoItem, results |-> <<>>, index |-> 0]

\* What the query of a term can answer: the matches of both scopes, work first.
SearchResults ==
    {<<>>} \cup {<<i>> : i \in ShellItems} \cup (WorkItems \X PersonalItems)

ShellAct == shellActs < ShellActs /\ shellActs' = shellActs + 1

\* A page of items reads the note of the item when it mounts, whichever item that is, and
\* useApplyViewHandoff the note of a view that was saved for it.
ShellLists == {"work", "personal"}
TakenItem(page) == IF page \in ShellLists THEN shellNotes.item ELSE NoItem
TakenView(page) == IF shellNotes.view = page THEN page ELSE NoItem

\* The notes that are left once the page has taken its own.
ShellNotesLeft(page) ==
    [item |-> IF page \in ShellLists THEN NoItem ELSE shellNotes.item,
     view |-> IF shellNotes.view = page THEN NoItem ELSE shellNotes.view]

MountReadsTwice(page) ==
    /\ shellDrawer' = NoItem /\ shellView' = TakenView(page)
    /\ shellNotes' = ShellNotesLeft(page)

\* The state of a page starts anew with every mount.
Mount(page) ==
    /\ shellDrawer' = TakenItem(page) /\ shellView' = TakenView(page)
    /\ shellNotes' = ShellNotesLeft(page)

-----------------------------------------------------------------------------
(* Session                                                                 *)

\* The session query is not retried; Login shows when it fails.
SessionAnswer ==
    /\ shellSession = "loading"
    /\ IF shellCookie THEN shellSession' = "in" /\ Mount(shellPage)
       ELSE shellSession' = "out" /\ UNCHANGED <<shellNotes, shellDrawer, shellView>>
    /\ UNCHANGED <<shellCookie, shellHash, shellPage, shellDialogs, shellReview, shellSearch,
                   shellAsked, shellActs>>

\* Login puts the session in the cache of the query.
Login ==
    /\ shellSession = "out" /\ ShellAct
    /\ shellCookie' = TRUE /\ shellSession' = "in" /\ Mount(shellPage)
    /\ UNCHANGED <<shellHash, shellPage, shellDialogs, shellReview, shellSearch, shellAsked>>

\* Whatever the server answers, the cache is dropped and the page loads again at
\* /today; sessionStorage survives.
Logout ==
    /\ shellSession = "in" /\ ShellAct
    /\ shellCookie' \in {FALSE, shellCookie}
    /\ shellSession' = "loading"
    /\ shellHash' = "today" /\ shellPage' = "today"
    /\ shellDialogs' = {} /\ shellSearch' = SearchStart
    /\ shellDrawer' = NoItem /\ shellView' = NoItem /\ shellAsked' = NoItem
    /\ UNCHANGED <<shellReview, shellNotes>>

-----------------------------------------------------------------------------
(* Navigation                                                              *)

Navigate(page) == shellHash' = page

\* Only a click on another entry of the sidebar changes the hash; review is listed when
\* the preference is on.
SidebarClick ==
    /\ shellSession = "in" /\ ShellAct
    /\ \E page \in ShellPages : (page = "review" => shellReview) /\ Navigate(page)
    /\ shellAsked' = NoItem
    /\ UNCHANGED <<shellSession, shellCookie, shellPage, shellDialogs, shellReview, shellNotes,
                   shellDrawer, shellView, shellSearch>>

\* hashchange fires when the hash differs; the shell renders the page it names then.
HashChange ==
    /\ shellHash # shellPage
    /\ shellPage' = shellHash
    /\ IF shellSession = "in" THEN Mount(shellHash)
       ELSE UNCHANGED <<shellDrawer, shellView, shellNotes>>
    /\ UNCHANGED <<shellSession, shellCookie, shellHash, shellDialogs, shellReview,
                   shellSearch, shellAsked, shellActs>>

\* The drawer of the page opens and closes without the shell.
ShellCloseDrawer ==
    /\ shellDrawer # NoItem
    /\ shellDrawer' = NoItem /\ shellAsked' = NoItem
    /\ UNCHANGED <<shellSession, shellCookie, shellHash, shellPage, shellDialogs, shellReview,
                   shellNotes, shellView, shellSearch, shellActs>>

\* A saved view of the sidebar, for the page it was saved on.
OpenView ==
    /\ shellSession = "in" /\ ShellAct
    /\ \E page \in ShellLists :
          shellNotes' = [shellNotes EXCEPT !.view = page] /\ Navigate(page)
    /\ shellAsked' = NoItem
    /\ UNCHANGED <<shellSession, shellCookie, shellPage, shellDialogs, shellReview,
                   shellDrawer, shellView, shellSearch>>

\* openSearchItem, navigateToItem of the bell and openItem of the tags page: leave a note
\* and go to the page of the item.
AskFor(item, by) ==
    /\ shellNotes' = [shellNotes EXCEPT !.item = item]
    /\ Navigate(ItemPage(item))
    /\ shellAsked' = [item |-> item, by |-> by, away |-> shellPage # ItemPage(item)]

OpenFromBell ==
    /\ shellSession = "in" /\ ShellAct
    /\ \E item \in ShellItems : AskFor(item, "bell")
    /\ UNCHANGED <<shellSession, shellCookie, shellPage, shellDialogs, shellReview,
                   shellDrawer, shellView, shellSearch>>

\* ReviewGate: the answer of the preference patch is what opens the page.
EnableReview ==
    /\ shellSession = "in" /\ shellPage = "review" /\ ~shellReview
    /\ shellReview' = TRUE
    /\ UNCHANGED <<shellSession, shellCookie, shellHash, shellPage, shellDialogs, shellNotes,
                   shellDrawer, shellView, shellSearch, shellAsked, shellActs>>

-----------------------------------------------------------------------------
(* Dialogs                                                                 *)

\* The shortcuts toggle, the buttons open, and each dialog closes itself.
ToggleDialog ==
    /\ shellSession = "in" /\ ShellAct
    /\ \E kind \in ShellKinds :
          /\ shellDialogs' = IF kind \in shellDialogs THEN shellDialogs \ {kind}
                             ELSE shellDialogs \cup {kind}
          /\ shellSearch' = IF kind = "search" THEN SearchStart ELSE shellSearch
    /\ UNCHANGED <<shellSession, shellCookie, shellHash, shellPage, shellReview, shellNotes,
                   shellDrawer, shellView, shellAsked>>

SearchOpen == "search" \in shellDialogs

SearchUnchanged ==
    UNCHANGED <<shellSession, shellCookie, shellHash, shellPage, shellDialogs, shellReview,
                shellNotes, shellDrawer, shellView, shellAsked>>

SearchType ==
    /\ SearchOpen /\ ShellAct
    /\ \E t \in ShellTerms \cup {NoItem} : shellSearch' = [shellSearch EXCEPT !.input = t]
    /\ SearchUnchanged

\* 250 ms after the last key the term follows the input and the first row is active.
SearchDebounce ==
    /\ SearchOpen /\ shellSearch.term # shellSearch.input
    /\ shellSearch' = [shellSearch EXCEPT !.term = shellSearch.input, !.results = <<>>,
                                          !.index = 0]
    /\ UNCHANGED shellActs /\ SearchUnchanged

SearchAnswer ==
    /\ SearchOpen /\ shellSearch.term # NoItem
    /\ \E r \in SearchResults : shellSearch' = [shellSearch EXCEPT !.results = r]
    /\ UNCHANGED shellActs /\ SearchUnchanged

\* The arrows; down on an empty list leaves the index at -1.
SearchMove ==
    /\ SearchOpen
    /\ LET last == Len(shellSearch.results) - 1
           i == shellSearch.index
       IN  shellSearch' \in
              {[shellSearch EXCEPT !.index = IF i + 1 < last THEN i + 1 ELSE last],
               [shellSearch EXCEPT !.index = IF i > 0 THEN i - 1 ELSE 0]}
    /\ UNCHANGED shellActs /\ SearchUnchanged

\* Enter on the active row, or a click on any row, closes the dialog.
SearchEnter ==
    /\ SearchOpen
    /\ \E i \in DOMAIN shellSearch.results : AskFor(shellSearch.results[i], "search")
    /\ shellDialogs' = shellDialogs \ {"search"} /\ shellSearch' = SearchStart
    /\ UNCHANGED <<shellSession, shellCookie, shellPage, shellReview, shellDrawer, shellView,
                   shellActs>>

ShellInit ==
    /\ shellSession = "loading" /\ shellCookie \in BOOLEAN
    /\ shellHash \in {"today", "work", "review"} /\ shellPage = shellHash
    /\ shellDialogs = {} /\ shellReview \in BOOLEAN
    /\ shellNotes = [item |-> NoItem, view |-> NoItem]
    /\ shellDrawer = NoItem /\ shellView = NoItem
    /\ shellSearch = SearchStart /\ shellAsked = NoItem /\ shellActs = 0

ShellNext ==
    \/ SessionAnswer \/ Login \/ Logout
    \/ SidebarClick \/ HashChange \/ ShellCloseDrawer \/ OpenView \/ OpenFromBell \/ EnableReview
    \/ ToggleDialog \/ SearchType \/ SearchDebounce \/ SearchAnswer \/ SearchMove \/ SearchEnter

ShellSpec == ShellInit /\ [][ShellNext]_shellVars

-----------------------------------------------------------------------------

ShellTypeOK ==
    /\ shellSession \in {"loading", "out", "in"} /\ shellCookie \in BOOLEAN
    /\ shellHash \in ShellPages /\ shellPage \in ShellPages
    /\ shellDialogs \subseteq ShellKinds /\ shellReview \in BOOLEAN
    /\ shellNotes \in [item : ShellItems \cup {NoItem}, view : ShellLists \cup {NoItem}]
    /\ shellDrawer \in ShellItems \cup {NoItem}
    /\ shellView \in {shellPage, NoItem}
    /\ shellSearch \in [input : ShellTerms \cup {NoItem}, term : ShellTerms \cup {NoItem},
                        results : SearchResults, index : -1..1]
    /\ \/ shellAsked = NoItem
       \/ shellAsked \in [item : ShellItems, by : {"bell", "search"}, away : BOOLEAN]
    /\ shellActs \in 0..ShellActs

\* An item asked for from a page other than its own is the one whose drawer is open, as
\* soon as the page that the hash names is rendered.
ShellOpensFromAway ==
    shellAsked # NoItem /\ shellAsked.away /\ shellHash = shellPage
        => shellDrawer = shellAsked.item

\* "Enter opens the selected result" (SearchDialog.tsx:9), whatever page it is on.
ShellOpensFound ==
    shellAsked # NoItem /\ shellAsked.by = "search" /\ shellHash = shellPage
        => shellDrawer = shellAsked.item
=============================================================================
