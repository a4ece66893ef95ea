-------------------------------- MODULE Tags --------------------------------
(***************************************************************************)
(* The tag tree: TagService and TagsRepository behind PATCH, POST and      *)
(* DELETE /tags, and TagsPage, which shows a cached copy of the tree,      *)
(* edits tags through forms and lists the items of the selected tag.  The  *)
(* query of the tree is shared with the shell, which may have loaded it.    *)
(***************************************************************************)
EXTENDS Naturals, FiniteSets

CONSTANTS
    TagIds,       \* identifiers of tags
    TagNames,     \* names a form can submit
    NoTag,        \* no parent, no selection, no form, no item listed
    TagWrites     \* bound: calls sent, and changes of the item

ASSUME TagAssumption == NoTag \notin TagIds /\ TagWrites \in Nat

VARIABLES
    tagRows,    \* the table: a record for each live tag
    tagItem,    \* one item of the user, with its tags
    tagCalls,   \* requests of the API that are not answered yet
    tagSent,    \* bound counter for TagWrites
    tagLoaded,  \* the query of the tree has data: it was answered at least once
    tagList,    \* the page's cached tree
    tagFetch,   \* the query behind it: idle, asked, or answered with rows
    tagStale,   \* history: a write that the last answer missed and nobody asks for
    tagSel,     \* selectedId
    tagForm,    \* the open form, or NoTag
    tagShown    \* the item as the page lists it, or NoTag

tagVars == <<tagRows, tagItem, tagCalls, tagSent, tagLoaded, tagList, tagFetch, tagStale,
             tagSel, tagForm, tagShown>>
tagServer == <<tagRows, tagItem>>
tagQuery  == <<tagLoaded, tagList, tagFetch, tagStale>>
tagClient == <<tagQuery, tagSel, tagForm, tagShown>>

TagRow == [name : TagNames, parent : TagIds \cup {NoTag}]
TagTables == UNION {[S -> TagRow] : S \in SUBSET TagIds}

\* A patch without a name changes the colour or the pin, which are not modelled.
TagCall == [op : {"create", "move", "patch", "delete"}, tag : TagIds,
            name : TagNames \cup {NoTag}, parent : TagIds \cup {NoTag},
            page : BOOLEAN, at : {"sent", "checked", "written"}]

\* A form holds the tag it was opened on; TagsPage keeps a copy of the row.
TagForms == [kind : {"create"}, tag : TagIds \cup {NoTag}]
            \cup [kind : {"edit", "confirm"}, tag : TagIds]

-----------------------------------------------------------------------------
(* The table                                                               *)

TagKids(rows, t) == {u \in DOMAIN rows : rows[u].parent = t}

\* ON DELETE CASCADE of parent_id: whatever a set that holds t and the children of its
\* members cannot leave out.
TagBelow(rows, t) ==
    {u \in DOMAIN rows : \A S \in SUBSET DOMAIN rows :
        t \in S /\ (\A v \in S : TagKids(rows, v) \subseteq S) => u \in S}

\* The two unique indexes: one name per level.
TagNamesFree(rows) ==
    \A t, u \in DOMAIN rows :
        rows[t].name = rows[u].name /\ rows[t].parent = rows[u].parent => t = u

\* _build_tree: a tag whose parent is not in the answer is shown as a root.
TagRoots(rows) ==
    {t \in DOMAIN rows : rows[t].parent \notin DOMAIN rows}

\* The page draws the roots and their children.
TagDrawn(rows) == TagRoots(rows) \cup UNION {TagKids(rows, t) : t \in TagRoots(rows)}

\* validate_tag_parent, on what get and has_children read.
TagParentAnyRoot(rows, call) ==
    /\ call.parent \in DOMAIN rows
    /\ rows[call.parent].parent = NoTag
    /\ call.op = "move" => call.tag \in DOMAIN rows /\ call.tag # call.parent

TagParentAllowed(rows, call) ==
    /\ TagParentAnyRoot(rows, call)
    /\ call.op = "move" /\ rows[call.tag].parent = NoTag => TagKids(rows, call.tag) = {}

\* What TagService checks before the repository writes.
TagChecked(rows, call) ==
    CASE call.op = "create" -> call.parent = NoTag \/ TagParentAllowed(rows, call)
      [] call.op = "move" -> TagParentAllowed(rows, call)
      [] OTHER -> call.tag \in DOMAIN rows

TagWritten(rows, call) ==
    CASE call.op = "create" ->
             [t \in DOMAIN rows \cup {call.tag} |->
                 IF t = call.tag THEN [name |-> call.name, parent |-> call.parent]
                 ELSE rows[t]]
      [] call.op = "move" -> [rows EXCEPT ![call.tag].parent = call.parent]
      [] call.op = "patch" ->
             [rows EXCEPT ![call.tag].name = IF call.name = NoTag THEN @ ELSE call.name]
      [] call.op = "delete" ->
             [t \in DOMAIN rows \ TagBelow(rows, call.tag) |-> rows[t]]

\* The row is still there (an insert needs none), and so is the parent; the
\* indexes refuse a second tag of the name.
TagWritable(rows, call) ==
    /\ call.op # "create" => call.tag \in DOMAIN rows
    /\ call.parent \in DOMAIN rows \cup {NoTag}
    /\ TagNamesFree(TagWritten(rows, call))

-----------------------------------------------------------------------------
(* The page                                                                *)

\* The effect that keeps something selected, after a render with this tree.
TagSelected(sel, rows) ==
    IF sel = NoTag /\ TagRoots(rows) # {} THEN TagRoots(rows) ELSE {sel}

\* The switches of the page: the scope of the item is among those asked for, items that
\* are done, and items of the tags below.
TagFilters == [scope : BOOLEAN, done : BOOLEAN, recursive : BOOLEAN]

\* items_for_tag: the item is one of this tag's, as the switches want them.
TagLists(sel, filter) ==
    /\ sel \in DOMAIN tagRows /\ filter.scope
    /\ \/ sel \in tagItem.tags
       \/ filter.recursive /\ TagKids(tagRows, sel) \cap tagItem.tags # {}
    /\ tagItem.done => filter.done

TagFetch(at, rows) == [at |-> at, rows |-> rows]

\* An invalidation that joins the running fetch whether or not there is data.
TagJoinFetch ==
    /\ tagFetch' = IF tagFetch.at = "idle" THEN TagFetch("asked", <<>>) ELSE tagFetch
    /\ tagStale' = FALSE

\* The first fetch is joined, also one that was served before the write.
TagJoinsFirst == ~tagLoaded /\ tagFetch.at # "idle"

\* invalidate: once the query has data, the answer of a running fetch is dropped and the
\* tree asked again.
TagInvalidate ==
    IF TagJoinsFirst
    THEN /\ tagStale' = (tagStale \/ (tagFetch.at = "answered" /\ tagFetch.rows # tagRows))
         /\ UNCHANGED tagFetch
    ELSE tagFetch' = TagFetch("asked", <<>>) /\ tagStale' = FALSE

TagInit ==
    \E root, other \in TagIds, names \in [1..2 -> TagNames] :
        /\ root # other
        /\ \E parent \in {root, NoTag} :
               tagRows = [t \in {root, other} |->
                   IF t = root THEN [name |-> names[1], parent |-> NoTag]
                   ELSE [name |-> names[2], parent |-> parent]]
        /\ TagNamesFree(tagRows)
        /\ tagItem = [tags |-> {other}, done |-> FALSE, version |-> 1]
        /\ tagCalls = {} /\ tagSent = 0
        /\ \/ tagLoaded = FALSE /\ tagList = <<>>
           \/ tagLoaded = TRUE /\ tagList = tagRows    \* as the shell has loaded it
        \* pa-open-tag, left by the sidebar
        /\ tagSel \in TagSelected(NoTag, tagList) \cup {other}
        /\ tagFetch = TagFetch("asked", <<>>) /\ tagStale = FALSE
        /\ tagForm = NoTag /\ tagShown = NoTag

TagSend(call) ==
    /\ tagSent < TagWrites
    /\ tagCalls' = tagCalls \cup {call}
    /\ tagSent' = tagSent + 1

TagRequest(op, t, name, parent, page) ==
    [op |-> op, tag |-> t, name |-> name, parent |-> parent, page |-> page,
     at |-> "sent"]

\* A new identifier is one nobody holds.
TagFresh(t) ==
    /\ t \notin DOMAIN tagRows \cup DOMAIN tagList \cup DOMAIN tagFetch.rows \cup {tagSel}
    /\ \A c \in tagCalls : c.tag # t
    /\ tagForm # NoTag => tagForm.tag # t

\* submitting and isPending: one create and one delete of the page at a time.
TagPending(op) == \E c \in tagCalls : c.op = op /\ c.page

\* Another client: the API moves tags, the page never does.
TagCallElsewhere ==
    /\ \E t \in TagIds, n \in TagNames, p \in TagIds \cup {NoTag} :
          \/ TagFresh(t) /\ TagSend(TagRequest("create", t, n, p, FALSE))
          \/ t \in DOMAIN tagRows /\ TagSend(TagRequest("move", t, NoTag, p, FALSE))
          \/ t \in DOMAIN tagRows /\ TagSend(TagRequest("delete", t, NoTag, NoTag, FALSE))
    /\ UNCHANGED <<tagServer, tagClient>>

\* Two calls may be checked before either is written: nothing is locked in between.
TagCheck(call) ==
    /\ call.at = "sent"
    /\ tagCalls' = (tagCalls \ {call})
           \cup (IF TagChecked(tagRows, call) THEN {[call EXCEPT !.at = "checked"]} ELSE {})
    /\ UNCHANGED <<tagServer, tagSent, tagClient>>

\* The repository's statement.  A call of the page that is refused, here or by its check,
\* has no handler; one of somebody else the page hears nothing of.
TagWrite(call) ==
    /\ call.at = "checked"
    /\ IF TagWritable(tagRows, call)
       THEN /\ tagRows' = TagWritten(tagRows, call)
            /\ tagItem' = [tagItem EXCEPT !.tags = @ \cap DOMAIN tagRows']
            /\ tagCalls' = (tagCalls \ {call})
                   \cup (IF call.page THEN {[call EXCEPT !.at = "written"]} ELSE {})
            /\ tagStale' = (tagStale \/ (~call.page /\ tagFetch.at # "asked"))
       ELSE tagCalls' = tagCalls \ {call} /\ UNCHANGED <<tagServer, tagStale>>
    /\ UNCHANGED <<tagSent, tagLoaded, tagList, tagFetch, tagSel, tagForm, tagShown>>

\* The answer reaches the page, after whatever was written and fetched meanwhile: onSuccess.
\* A deletion also drops the selection, and the effect selects again from the tree that is
\* still cached.
TagAnswered(call) ==
    /\ call.at = "written"
    /\ tagCalls' = tagCalls \ {call}
    /\ TagInvalidate
    /\ tagSel' \in TagSelected(IF call.op = "delete" THEN NoTag ELSE tagSel, tagList)
    /\ tagShown' = NoTag
    /\ UNCHANGED <<tagServer, tagSent, tagLoaded, tagList, tagForm>>

TagFetchServe ==
    /\ tagFetch.at = "asked"
    /\ tagFetch' = TagFetch("answered", tagRows) /\ tagStale' = FALSE
    /\ UNCHANGED <<tagServer, tagCalls, tagSent, tagLoaded, tagList, tagSel, tagForm, tagShown>>

TagFetchDone ==
    /\ tagFetch.at = "answered"
    /\ tagLoaded' = TRUE
    /\ tagList' = tagFetch.rows /\ tagFetch' = TagFetch("idle", <<>>)
    /\ tagSel' \in TagSelected(tagSel, tagFetch.rows)
    /\ UNCHANGED <<tagServer, tagCalls, tagSent, tagStale, tagForm, tagShown>>

\* A click on a row of the tree; the items of another tag are asked for.
TagSelect ==
    /\ tagForm = NoTag
    /\ \E t \in TagDrawn(tagList) \ {tagSel} : tagSel' = t
    /\ tagShown' = NoTag
    /\ UNCHANGED <<tagServer, tagCalls, tagSent, tagQuery, tagForm>>

\* The answer of the item query for the selected tag, whatever the switches say.
TagItemsDone ==
    /\ tagSel # NoTag
    /\ tagShown' \in {IF TagLists(tagSel, filter) THEN tagItem ELSE NoTag : filter \in TagFilters}
    /\ UNCHANGED <<tagServer, tagCalls, tagSent, tagQuery, tagSel, tagForm>>

\* toggleDone sends the status and the version of the row as it is listed; patch_item
\* refuses another version.
TagToggled ==
    IF tagItem.version = tagShown.version
    THEN /\ tagItem' = [tagItem EXCEPT !.done = ~tagShown.done, !.version = @ + 1]
         /\ tagShown' = NoTag
    ELSE UNCHANGED <<tagItem, tagShown>>

TagToggleDone ==
    /\ tagForm = NoTag /\ tagShown # NoTag /\ tagSent < TagWrites
    /\ tagSent' = tagSent + 1
    /\ TagToggled
    /\ UNCHANGED <<tagRows, tagCalls, tagQuery, tagSel, tagForm>>

\* The buttons of a row and of the header open a form on a copy of the tag.
TagOpenForm ==
    /\ tagForm = NoTag
    /\ \/ \E p \in TagRoots(tagList) \cup {NoTag} :
             tagForm' = [kind |-> "create", tag |-> p]
       \/ \E t \in TagDrawn(tagList) : tagForm' = [kind |-> "edit", tag |-> t]
    /\ UNCHANGED <<tagServer, tagCalls, tagSent, tagQuery, tagSel, tagShown>>

TagSubmitCreate ==
    /\ tagForm # NoTag /\ tagForm.kind = "create" /\ ~TagPending("create")
    /\ \E t \in TagIds, n \in TagNames :
          TagFresh(t) /\ TagSend(TagRequest("create", t, n, tagForm.tag, TRUE))
    /\ UNCHANGED <<tagServer, tagClient>>

\* Saving sends a name; the pin button sends none and is never disabled.
TagSubmitEdit ==
    /\ tagForm # NoTag /\ tagForm.kind = "edit"
    /\ \E n \in TagNames \cup {NoTag} :
          /\ n # NoTag => ~\E c \in tagCalls : c.op = "patch" /\ c.name # NoTag
          /\ TagSend(TagRequest("patch", tagForm.tag, n, NoTag, TRUE))
    /\ UNCHANGED <<tagServer, tagClient>>

TagAskDelete ==
    /\ tagForm # NoTag /\ tagForm.kind = "edit"
    /\ tagForm' = [tagForm EXCEPT !.kind = "confirm"]
    /\ UNCHANGED <<tagServer, tagCalls, tagSent, tagQuery, tagSel, tagShown>>

TagConfirmDelete ==
    /\ tagForm # NoTag /\ tagForm.kind = "confirm" /\ ~TagPending("delete")
    /\ TagSend(TagRequest("delete", tagForm.tag, NoTag, NoTag, TRUE))
    /\ tagForm' = NoTag
    /\ UNCHANGED <<tagServer, tagQuery, tagSel, tagShown>>

TagCloseForm ==
    /\ tagForm # NoTag
    /\ tagForm' = NoTag
    /\ UNCHANGED <<tagServer, tagCalls, tagSent, tagQuery, tagSel, tagShown>>

TagNext ==
    \/ TagCallElsewhere
    \/ \E call \in tagCalls : TagCheck(call) \/ TagWrite(call) \/ TagAnswered(call)
    \/ TagFetchServe \/ TagFetchDone
    \/ TagSelect \/ TagItemsDone \/ TagToggleDone
    \/ TagOpenForm \/ TagSubmitCreate \/ TagSubmitEdit
    \/ TagAskDelete \/ TagConfirmDelete \/ TagCloseForm

TagSpec == TagInit /\ [][TagNext]_tagVars

-----------------------------------------------------------------------------

TagTypeOK ==
    /\ tagRows \in TagTables /\ tagList \in TagTables
    /\ tagItem \in [tags : SUBSET TagIds, done : BOOLEAN, version : Nat]
    /\ tagCalls \subseteq TagCall /\ tagSent \in 0..TagWrites
    /\ tagLoaded \in BOOLEAN
    /\ tagFetch \in [at : {"idle", "asked", "answered"}, rows : TagTables] /\ tagStale \in BOOLEAN
    /\ tagSel \in TagIds \cup {NoTag} /\ tagForm \in TagForms \cup {NoTag}
    /\ tagShown = NoTag \/ tagShown \in [tags : SUBSET TagIds, done : BOOLEAN, version : Nat]

\* "Enforce the two-level tag hierarchy" (validate_tag_parent): the parent of a tag exists
\* and has no parent itself.
TagTwoLevels ==
    \A t \in DOMAIN tagRows :
        tagRows[t].parent # NoTag =>
            /\ tagRows[t].parent \in DOMAIN tagRows
            /\ tagRows[tagRows[t].parent].parent = NoTag

\* Whatever writes, answers and fetches meet, a tree that is not being fetched is the
\* table's once the page has heard of its own writes.  Two kinds of write it may miss:
\* one of somebody else that no fetch was served after, and, of its own, only one that
\* was answered before the tree was loaded at all, when the invalidation joins the first
\* fetch although that was served before the write.
TagTreeIsFresh ==
    /\ tagFetch.at = "idle" /\ ~tagStale
    /\ \A c \in tagCalls : c.at # "written"
    => tagList = tagRows
=============================================================================
