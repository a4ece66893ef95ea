---------------------------- MODULE ItemLifecycle ----------------------------
(***************************************************************************)
(* The life of an item of EventFlowOS: creation with a client_request_id,   *)
(* PATCH under an If-Match version, archive, soft delete, restore, purge,   *)
(* and the next occurrence that completing a recurring item creates.        *)
(*                                                                         *)
(* A PATCH reads the row, decides on what it read and writes later: it is   *)
(* a BeginPatch and a FinishPatch (or a DropPatch).  So is a creation,      *)
(* which first looks up its client_request_id.  The other requests are one  *)
(* statement.  Reminders of the item are the matter of ReminderDelivery.    *)
(***************************************************************************)
EXTENDS Naturals, FiniteSets

CONSTANTS
    Item,         \* ids of item rows; an id is used once
    Key,          \* client_request_ids
    Session,      \* requests the API handles at the same time
    Asked,        \* bound: the statuses that requests ask for
    Named,        \* bound: what requests say of the people of an item
    Freqs,        \* bound: what requests say of recurrence_freq
    Counts,       \* bound: what requests say of recurrence_count
    MaxCount,     \* bound on recurrence_count
    MaxVersion,   \* bound on version
    NoItem, NoKey, NoWork,
    Keep          \* a count that a request does not name

Status   == {"inbox", "planned", "in_progress", "waiting", "done", "cancelled"}
Terminal == {"done", "cancelled"}
People   == {"keep", "nobody", "somebody_waiting"}

\* What a request says of recurrence: either field may be given, be taken
\* back (null) or not be named.  A count of 0 stands for null: no end.
Freq == {"keep", "none", "some"}
Rule == [freq : Freq, count : 0 .. MaxCount \cup {Keep}]

\* What a PATCH decided from the row it read.
Patch == [item : Item, expected : Nat, read : Status,
          to : Status \cup {"keep"}, people : People, rule : Rule]

Creation == [key : Key \cup {NoKey}, status : Status, people : People, rule : Rule]

\* The completion an occurrence was created by: an item at a version.
Completion == [item : Item, version : Nat]

ASSUME ConstantsAssumption ==
    /\ Asked \subseteq Status /\ Named \subseteq People
    /\ MaxCount \in Nat /\ MaxVersion \in Nat
    /\ Freqs \subseteq Freq /\ Counts \subseteq 0 .. MaxCount \cup {Keep}
    /\ Keep \notin 0 .. MaxCount
    /\ NoItem \notin Item /\ NoItem \notin Completion
    /\ NoKey \notin Key
    /\ NoWork \notin Patch /\ NoWork \notin Creation

VARIABLES
    status,      \* item -> status; "none" before it is created and once purged
    version,     \* item -> version; 0 as long as it was never created
    completed,   \* items with completed_at set
    cancelled,   \* items with cancelled_at set
    archived,    \* items with archived_at set
    deleted,     \* items with deleted_at set
    awaited,     \* items with a person of role waiting
    recurs,      \* items with a recurrence_freq
    count,       \* item -> recurrence_count; 0 when it is null
    patching,    \* session -> the PATCH it is in the middle of
    creating,    \* session -> the creation it is in the middle of
    record,      \* create_requests: client_request_id -> the item it made
    keyOf,       \* history: item -> the client_request_id of its creation
    origin,      \* history: item -> the completion it is the occurrence of
    series       \* history: item -> the count a client last gave its series, and
                 \* how many occurrences have been made since

rowVars     == <<status, version, completed, cancelled, archived, deleted, awaited,
                 recurs, count>>
requestVars == <<patching, creating, record>>
history     == <<keyOf, origin, series>>
vars == <<rowVars, requestVars, history>>

TypeOK ==
    /\ status \in [Item -> Status \cup {"none"}]
    /\ version \in [Item -> Nat]
    /\ completed \in SUBSET Item /\ cancelled \in SUBSET Item
    /\ archived \in SUBSET Item /\ deleted \in SUBSET Item
    /\ awaited \in SUBSET Item
    /\ recurs \in SUBSET Item /\ count \in [Item -> 0 .. MaxCount]
    /\ patching \in [Session -> Patch \cup {NoWork}]
    /\ creating \in [Session -> Creation \cup {NoWork}]
    /\ record \in [Key -> Item \cup {NoItem}]
    /\ keyOf \in [Item -> Key \cup {NoKey}]
    /\ origin \in [Item -> Completion \cup {NoItem}]
    /\ series \in [Item -> [told : 0 .. MaxCount, place : Nat]]

Init ==
    /\ status = [i \in Item |-> "none"]
    /\ version = [i \in Item |-> 0]
    /\ completed = {} /\ cancelled = {} /\ archived = {} /\ deleted = {} /\ awaited = {}
    /\ recurs = {} /\ count = [i \in Item |-> 0]
    /\ patching = [s \in Session |-> NoWork]
    /\ creating = [s \in Session |-> NoWork]
    /\ record = [k \in Key |-> NoItem]
    /\ keyOf = [i \in Item |-> NoKey]
    /\ origin = [i \in Item |-> NoItem]
    /\ series = [i \in Item |-> [told |-> 0, place |-> 0]]

Live(i) == status[i] # "none"
Unused  == {i \in Item : version[i] = 0}
Free(s) == patching[s] = NoWork /\ creating[s] = NoWork

-----------------------------------------------------------------------------
(* Policies                                                                *)

\* LEGAL_TRANSITIONS
Legal(before) ==
    IF before \in Terminal THEN {before, "planned"}
    ELSE IF before = "inbox" THEN Status ELSE Status \ {"inbox"}

\* One that takes the waiting status back and puts no other in its place.
StatusForPeopleTakenBack(asked, people, before) ==
    IF people = "nobody" /\ asked = "waiting" THEN "keep" ELSE asked

\* _apply_people_status: naming the people of an open item decides between
\* waiting and not; "keep" as a status means that none is asked for.
StatusForPeople(asked, people, before) ==
    IF people = "keep" \/ asked \in Terminal \/ before \in Terminal THEN asked
    ELSE IF people = "somebody_waiting" THEN "waiting"
    ELSE IF asked = "waiting" \/ (asked = "keep" /\ before = "waiting") THEN "planned"
    ELSE asked

Awaited(i, people) ==
    CASE people = "keep"             -> awaited
      [] people = "nobody"           -> awaited \ {i}
      [] people = "somebody_waiting" -> awaited \cup {i}

\* The recurrence of the row of item i once a request has written it.
RecursAfter(i, rule) ==
    CASE rule.freq = "keep" -> recurs
      [] rule.freq = "none" -> recurs \ {i}
      [] rule.freq = "some" -> recurs \cup {i}

CountAfter(i, rule) == IF rule.count = Keep THEN count[i] ELSE rule.count

\* A count that is named, also null, starts the series anew.
SeriesAfter(i, rule) ==
    IF rule.count = Keep THEN series[i] ELSE [told |-> rule.count, place |-> 0]

-----------------------------------------------------------------------------
(* Creation                                                                *)

\* No item was made for this client_request_id, as far as one can see: a
\* recorded one is answered with its item, or with IDEMPOTENCY_CONFLICT.
BeginCreate(s, key, asked, people, rule) ==
    /\ Free(s)
    /\ key # NoKey => record[key] = NoItem
    /\ creating' = [creating EXCEPT ![s] =
           [key |-> key, status |-> StatusForPeople(asked, people, "none"),
            people |-> people, rule |-> rule]]
    /\ UNCHANGED <<rowVars, patching, record, history>>

\* The row is inserted with no completed_at or cancelled_at, whatever its
\* status.  The record is an INSERT ... ON CONFLICT DO NOTHING.
FinishCreate(s, i) ==
    /\ creating[s] # NoWork /\ i \in Unused
    /\ LET c == creating[s]
       IN  /\ status' = [status EXCEPT ![i] = c.status]
           /\ awaited' = Awaited(i, c.people)
           /\ recurs' = RecursAfter(i, c.rule)
           /\ count' = [count EXCEPT ![i] = CountAfter(i, c.rule)]
           /\ record' = [k \in Key |-> IF k = c.key /\ record[k] = NoItem THEN i ELSE record[k]]
           /\ keyOf' = [keyOf EXCEPT ![i] = c.key]
           /\ series' = [series EXCEPT ![i] = SeriesAfter(i, c.rule)]
    /\ version' = [version EXCEPT ![i] = 1]
    /\ creating' = [creating EXCEPT ![s] = NoWork]
    /\ UNCHANGED <<completed, cancelled, archived, deleted, patching, origin>>

\* The transaction fails or its process dies.
DropCreate(s) ==
    /\ creating[s] # NoWork
    /\ creating' = [creating EXCEPT ![s] = NoWork]
    /\ UNCHANGED <<rowVars, patching, record, history>>

-----------------------------------------------------------------------------
(* PATCH, complete, reopen and cancel                                      *)

\* The client sends the version it has seen; the service reads the row and
\* validates the transition from the status it read.
BeginPatch(s, i, expected, asked, people, rule) ==
    /\ Free(s) /\ Live(i)
    /\ version[i] < MaxVersion
    /\ expected \in 1 .. version[i]
    /\ LET to == StatusForPeople(asked, people, status[i])
       IN  /\ to # "keep" => to \in Legal(status[i])
           /\ patching' = [patching EXCEPT ![s] =
                  [item |-> i, expected |-> expected, read |-> status[i],
                   to |-> to, people |-> people, rule |-> rule]]
    /\ UNCHANGED <<rowVars, creating, record, history>>

\* An UPDATE that asks for the id alone.
AcceptedAnyVersion(p) == Live(p.item)

\* UPDATE ... WHERE id = ... AND version = expected_version
Accepted(p) == Live(p.item) /\ version[p.item] = p.expected

\* An open status that takes back completed_at and forgets cancelled_at.
CancelledAfterKept(p) ==
    IF p.to = "cancelled" THEN cancelled \cup {p.item} ELSE cancelled

CompletedAfter(p) ==
    CASE p.to = "done"                  -> completed \cup {p.item}
      [] p.to \in {"keep", "cancelled"} -> completed
      [] OTHER                          -> completed \ {p.item}

CancelledAfter(p) ==
    CASE p.to = "cancelled"        -> cancelled \cup {p.item}
      [] p.to \in {"keep", "done"} -> cancelled
      [] OTHER                     -> cancelled \ {p.item}

StatusAfter(p) == [status EXCEPT ![p.item] = IF p.to = "keep" THEN @ ELSE p.to]

\* patch_item, replace_item_people.  A recurring item that is done may be
\* the last of its series: its count is used up, or its end date is passed.
FinishPatch(s) ==
    /\ patching[s] # NoWork
    /\ LET p == patching[s]
       IN  /\ Accepted(p)
           /\ status' = StatusAfter(p)
           /\ version' = [version EXCEPT ![p.item] = @ + 1]
           /\ completed' = CompletedAfter(p)
           /\ cancelled' = CancelledAfter(p)
           /\ awaited' = Awaited(p.item, p.people)
           /\ recurs' = RecursAfter(p.item, p.rule)
           /\ count' = [count EXCEPT ![p.item] = CountAfter(p.item, p.rule)]
           /\ series' = [series EXCEPT ![p.item] = SeriesAfter(p.item, p.rule)]
    /\ patching' = [patching EXCEPT ![s] = NoWork]
    /\ UNCHANGED <<archived, deleted, creating, record, keyOf, origin>>

Before(n) == IF n = 0 THEN 0 ELSE n - 1

\* A next occurrence that goes by the row the request read, not by the row
\* it wrote.
CountOfNextRead(p) == Before(count[p.item])

\* An endless series stays endless.
CountOfNext(p) == Before(CountAfter(p.item, p.rule))

\* The same with _materialize_next_occurrence: item j is the next of the
\* series, planned, with the people of the item and the rule of the row as
\* this request wrote it.  Nothing asks whether the item was done before
\* (done to done is legal).
FinishRecurring(s, j) ==
    /\ patching[s] # NoWork
    /\ LET p == patching[s]
       IN  /\ Accepted(p)
           /\ p.to = "done" /\ p.item \in RecursAfter(p.item, p.rule)
           /\ CountAfter(p.item, p.rule) # 1
           /\ j \in Unused
           /\ status' = [StatusAfter(p) EXCEPT ![j] = "planned"]
           /\ version' = [version EXCEPT ![p.item] = @ + 1, ![j] = 1]
           /\ completed' = CompletedAfter(p)
           /\ cancelled' = CancelledAfter(p)
           /\ awaited' = Awaited(p.item, p.people)
                             \cup {k \in {j} : p.item \in Awaited(p.item, p.people)}
           /\ recurs' = RecursAfter(p.item, p.rule) \cup {j}
           /\ count' = [count EXCEPT ![p.item] = CountAfter(p.item, p.rule),
                                    ![j] = CountOfNext(p)]
           /\ origin' = [origin EXCEPT ![j] =
                            [item |-> p.item, version |-> p.expected]]
           /\ LET now == SeriesAfter(p.item, p.rule)
              IN  series' = [series EXCEPT ![p.item] = now,
                                           ![j] = [now EXCEPT !.place = @ + 1]]
    /\ patching' = [patching EXCEPT ![s] = NoWork]
    /\ UNCHANGED <<archived, deleted, creating, record, keyOf>>

\* VERSION_CONFLICT, an item that was purged, or a request that dies.
DropPatch(s) ==
    /\ patching[s] # NoWork
    /\ patching' = [patching EXCEPT ![s] = NoWork]
    /\ UNCHANGED <<rowVars, creating, record, history>>

-----------------------------------------------------------------------------
(* Requests of one statement: none of them looks at the version, all but    *)
(* purge raise it                                                          *)

Bump(i) ==
    /\ version[i] < MaxVersion
    /\ version' = [version EXCEPT ![i] = @ + 1]

SetArchive(i, flag) ==
    /\ Live(i)
    /\ Bump(i)
    /\ archived' = IF flag THEN archived \cup {i} ELSE archived \ {i}
    /\ UNCHANGED <<status, completed, cancelled, deleted, awaited, recurs,
                   count, requestVars, history>>

SoftDelete(i) ==
    /\ Live(i) /\ i \notin deleted
    /\ Bump(i)
    /\ deleted' = deleted \cup {i}
    /\ UNCHANGED <<status, completed, cancelled, archived, awaited, recurs,
                   count, requestVars, history>>

RestoreDeleted(i) ==
    /\ Live(i) /\ i \in deleted
    /\ Bump(i)
    /\ deleted' = deleted \ {i}
    /\ UNCHANGED <<status, completed, cancelled, archived, awaited, recurs,
                   count, requestVars, history>>

Purge(i) ==
    /\ Live(i) /\ i \in deleted
    /\ status' = [status EXCEPT ![i] = "none"]
    /\ completed' = completed \ {i}
    /\ cancelled' = cancelled \ {i}
    /\ awaited' = awaited \ {i}
    /\ UNCHANGED <<version, archived, deleted, recurs, count, requestVars, history>>

-----------------------------------------------------------------------------
Rules == [freq : Freqs, count : Counts]

Create(s) ==
    \/ \E key \in Key \cup {NoKey}, asked \in Asked, people \in Named,
          rule \in Rules : BeginCreate(s, key, asked, people, rule)
    \/ \E i \in Item : FinishCreate(s, i)
    \/ DropCreate(s)

PatchItem(s) ==
    \/ \E i \in Item, expected \in 1 .. MaxVersion,
          asked \in Asked \cup {"keep"}, people \in Named, rule \in Rules :
              BeginPatch(s, i, expected, asked, people, rule)
    \/ FinishPatch(s)
    \/ \E j \in Item : FinishRecurring(s, j)
    \/ DropPatch(s)

ItemRequest(i) ==
    \/ \E flag \in BOOLEAN : SetArchive(i, flag)
    \/ SoftDelete(i)
    \/ RestoreDeleted(i)
    \/ Purge(i)

Next ==
    \/ \E s \in Session : Create(s) \/ PatchItem(s)
    \/ \E i \in Item : ItemRequest(i)

Spec == Init /\ [][Next]_vars

-----------------------------------------------------------------------------
(* Properties                                                              *)

\* Optimistic locking: a PATCH that will be accepted was validated on the row
\* as it is now, whatever other requests did between its read and its write
\* (the read takes no lock, and the version is compared only in the UPDATE).
ValidatedOnCurrent ==
    \A s \in Session :
        /\ patching[s] # NoWork
        /\ Accepted(patching[s])
        => patching[s].read = status[patching[s].item]

\* The status of an item only moves along LEGAL_TRANSITIONS, also when
\* several requests decide on it at the same time.
OnlyLegalSteps ==
    [][\A i \in Item : Live(i) /\ Live(i)' => status'[i] \in Legal(status[i])]_vars

\* completed_at and cancelled_at tell of the status the item has now: an item
\* that was reopened, cancelled or done again carries no stamp of before.
StampsTellStatus ==
    /\ \A i \in completed : status[i] = "done"
    /\ \A i \in cancelled : status[i] = "cancelled"

\* An item at a version is completed once: a complete that is sent twice, or
\* by two clients, with the same If-Match makes one next occurrence.
OneOccurrencePerCompletion ==
    \A j, k \in Item : origin[j] # NoItem /\ origin[j] = origin[k] => j = k

\* The length of a series: from the item a client last gave a count to, the
\* chain of next occurrences has at most that many items, whatever PATCHes
\* and completions met on the way; and where no count was given, or it was
\* taken back, no occurrence brings the series to an end.
SeriesEnds ==
    \A i \in Item :
        LET s == series[i]
        IN  IF s.told = 0 THEN count[i] = 0
            ELSE s.place < s.told /\ count[i] = s.told - s.place

\* "Create an item with optional client_request_id idempotency" (the OpenAPI
\* document): one item for one client_request_id.
CreatedOnce ==
    \A i, j \in Item : keyOf[i] # NoKey /\ keyOf[i] = keyOf[j] => i = j
=============================================================================
