# EventFlowOS in TLA+

A verification development for EventFlowOS: TLA+ modules translated from the
backend (`src/backend/src/personal_affairs`, its migrations) and the web client
(`src/frontend/src`), TLC configurations that check them on small
instances, and theorems that TLAPS checks for every value of the constants.
`PROJECT.json` maps every definition to the lines it stands for.

## 1. The system

EventFlowOS keeps one user's items (tasks, events, meetings), reminds of them
through in-app, Feishu and ntfy messages, tells subscribers of changes by
webhooks, and lets agents propose changes that a person approves. An API
process (FastAPI) and an MCP server handle requests; a reminder worker and a
webhook publisher poll the database; everything they share is in PostgreSQL.
A request is one transaction at READ COMMITTED (`api/dependencies.py`,
`storage/unit_of_work.py`); workers claim rows under a lease in one
transaction, call the outside world in none, and record the outcome in another.

| component | state | operations | what is hard about it |
|---|---|---|---|
| Reminder deliveries (`storage/repositories/reminders.py`, `application/reminder_service.py`, `workers/reminder_worker.py`, `domain/reminder_state.py`) | rows of `reminders` (one active per item) and `reminder_deliveries`: status, attempts, `next_attempt_at`, `locked_until`, acknowledgement | PUT/DELETE of a reminder, cancel sweeps when an item is closed or deleted, claim, send, mark, retry, recover an expired lease, acknowledge, snooze, retry a dead row | leases that expire while a worker is alive; updates by id alone; lost answers; a PUT that reads the item without a lock; crashes |
| Event outbox (`storage/repositories/event_outbox.py`, `workers/webhook_worker.py`, `storage/repositories/webhooks.py`) | rows of `event_outbox`, webhook subscriptions | record in the business transaction, claim the oldest due, POST to each subscription, publish, retry, give up | partial failure of several receivers; two publishers of one event; the attempt cap; subscriptions that come and go |
| Items (`application/item_service.py`, `storage/repositories/items.py`, `domain/policies.py`) | rows of `items` with status, version, stamps, people, recurrence; `create_requests` | create (idempotent by `client_request_id`), PATCH under `If-Match`, complete, cancel, reopen, archive, soft delete, restore, purge, materialize the next occurrence | decisions taken on a row read without a lock; two requests at once; retried requests |
| Agent proposals and Feishu intake (`application/agent_proposal_service.py`, `api/routes/integrations_feishu.py`, `storage/repositories/agent_*.py`) | rows of `agent_proposals` and `agent_ingest_events` | propose, receive a Feishu message, approve (with edits), reject, ignore | two decisions at once; repeated deliveries while a first one is still handled; items that change or vanish meanwhile |
| Tags (`application/tag_service.py`, `storage/repositories/tags.py`, `pages/TagsPage.tsx`) | rows of `tags` with a parent, `item_tags`; the page's cached tree, its selection and form | create, rename, pin, move, delete, filter items | a parent checked before it is written; a tree cached while others write |
| Focus sessions (`storage/repositories/focus.py`, `FocusControls.tsx`, `RowFocusButton.tsx`) | one open session by a unique index; a polled query, a paused item in the browser's storage | start, stop, stop and complete, pause, resume | two starts at once; a bar in every tab |
| Web client: the shell (`app/App.tsx`, `SearchDialog.tsx`, `SavedViews.tsx`) | session, hash, page, dialogs, two notes in the session storage | log in and out, navigate, search, open an item or a saved view on its page | a note written by one page and taken by the next |
| Web client: the bell (`ReminderInbox` in `app/App.tsx`, `ReminderDiagnosticsDialog.tsx`) | a polled list of deliveries, toasts, what was toasted | acknowledge one or all, snooze, complete, retry | rows taken out before the answer, polls in between |
| Web client: the lists (`WorkItemsPage.tsx`, `PersonalItemsPage.tsx`, `useToggleDone.ts`, `useUndo.tsx`, `lib/batch.ts`) | the query cache of a list, an undo entry, a selection | optimistic toggle, archive, delete, skip, batches, undo | rollback to a snapshot, cancelled fetches, partial batches |
| Web client: the views (`lib/itemFilters.ts`, `items.ts`, `today.ts`, `review.ts`, `calendar.ts`) | filters of a page, a saved view | set, clear, save and apply filters; sections of Today, review and calendar | one item classified by five functions; filters that are not shown |
| Web client: the drawers (`WorkItemDrawer.tsx`, `PersonalItemDrawer.tsx`, `useItemActions.ts`) | a draft, the reminder query, picked tags | edit, save with its reminder, status buttons, create a tag | a draft older than its item; an answer for another item |
| Web client: the inbox page (`InboxPage.tsx`, `AgentProposalDeck.tsx`) | cached proposals and items, an edit form, the open item | approve, edit, reject, ignore, triage, delete, save | two queries invalidated apart; fetches older than a decision |
| Web client: schedules (`lib/drafts.ts`, `lib/workSchedule.ts`, `lib/week.ts`) | drafts, calendar gestures | edit and save a drawer, drag, resize, reschedule | two sides that compute the same instant or rule; wall clock and UTC |
| Digests, push, projects, people, habits, preferences, tokens | rows of their own tables | CRUD by single statements | log-then-push of a digest; otherwise little |
| Recurrence, free slots, progress, rate limit | none, or a window of instants | pure functions | clamping, boundaries, zero |

How they meet: an item request cancels or reconciles deliveries in its own
transaction (`ReminderDelivery`'s item actions are those requests seen from the
deliveries); every change records its event in the same transaction (the
outbox); the reminder worker records `reminder.fired` and `delivery.failed` in
the transactions in which it claims and marks; an approval calls the item
service inside the transaction that marks the proposal.

What makes each correct: a delivery row never fires for nobody, is not
forgotten, and claims have one owner (2.1); an event reaches everyone it is
owed to before it counts as published (2.2); optimistic locking really covers
the decision a request took, and a completion makes one occurrence (2.3); a
proposal takes effect once, in the step that approves it (2.4); the forms and
the backend read one schedule alike (2.5). The web client shows cached answers
of a server that others write as well: once its requests are answered it must
show the server's rows again, never offer or overwrite what it has not read, and
find each item a place (2.6 to 2.13).

## 2. The modules

Conventions: one action per transaction or call of the outside; a request that
reads without a lock and writes later is a `Begin...` and a `Finish...` (or a
`Drop...`: a conflict, a failed validation, a process that dies). Time is
abstract: backoffs and leases are timers that elapse by an action of their own,
because nothing in the code bounds a pause of a process by a lease. Every
bound is a CONSTANT whose comment says "bound". History variables (`accepted`,
`armedBy`, `owed`, `received`, `posts`, `origin`, `series`, `source`,
`effects`) record what happened and guard nothing.

### 2.1 `ReminderDelivery`

A delivery is its unique key (reminder, instant, channel); `status[d] =
"absent"` is no row. Item requests (`Close`, `CompleteRecurring`, `Reopen`,
`SetArchive`, `DeleteReminder`, `SoftDelete`, `RestoreDeleted`, `Purge`) do to
the rows what the services do in the same transaction. `PutBegin` is
`upsert_for_item` and the read of the item, `PutFinish` the reconciliation with
`replace_pending_deliveries`, `PutFinishParked` the one of an item that was
closed or archived when it was read. A worker's `ClaimDue` is `deliver_once` up
to its commit (recovery of expired leases, claim, events), `Send` the provider
call with a lost answer possible, `MarkDelivered`, `MarkRetry` and `MarkDead`
the record, each `UPDATE ... WHERE id` and nothing else.

- `ClaimsDistinct`: (row, attempt count) has one owner although leases expire
  under a live worker and rows are re-armed, cancelled and retried by hand.
- `ArmedIsWanted`: an armed row belongs to the active reminder of an open
  item. It names the exceptions the code has: a late `mark_failure`, a retry by
  hand, and a PUT that raced with the closing of its item.
- `SingleAlarm`, `DeliveredWasAccepted`, `OutboxCoversRows`, and the liveness
  property `Settles`.

### 2.2 `EventOutbox` and the promise `AtLeastOnce`

`AtLeastOnce` is what the migration promises, with no word about workers:
recorded, owed, received, settled. `EventOutbox` has the claims, leases,
per-subscription posts and retries, and implements it (`KeepsPromise`, by
`INSTANCE AtLeastOnce WITH settled <- published`). `PostsAreUnique` is what the
headers `X-PA-Event-Id` and `X-PA-Retry-Count` give a receiver; `EventSettles`
says an event that shares its batch with no others ends published or dead.

### 2.3 `ItemLifecycle`

`BeginPatch` reads and validates (`validate_transition`, the status that people
imply), `FinishPatch` and `FinishRecurring` are the versioned UPDATE with what
follows in the transaction, `BeginCreate`/`FinishCreate` the creation with its
`create_requests` look-up. A request may carry a `Rule`: a frequency, a count, or
either set to null; `RecursAfter` and `CountAfter` are the row's recurrence once it
is written, from which the next occurrence is made (count 0 is the null of a series
without an end). `ValidatedOnCurrent`, `OnlyLegalSteps`, `StampsTellStatus`,
`OneOccurrencePerCompletion`, and

- `SeriesEnds`: from the item a client last gave a count to, the chain of
  occurrences has at most as many items as that count, whatever PATCHes of the rule
  and completions interleave; where no count was given, or it was taken back,
  completing an occurrence brings the series to no end. The history `series` keeps
  the count last `told` and the `place` of an item in the chain since.

### 2.4 `AgentProposals` and the promise `ProposalApproval`

`BeginDecision` takes the row lock of a pending proposal and reads the item of
a patch without one; `FinishCreate`, `FinishPatch` and `FinishRefusal` write
the item and mark the proposal. `Receive` is the upsert of the ingest row, on
which a repeated delivery waits; `ProposeMessage` makes the proposal and
commits. `ProposalApproval` says only: pending, then decided once, and applied
in the approving step; `DecidedOnce` is the refinement.

### 2.5 `ItemSchedule`

One item's schedule on both sides of the API. `row` is what the backend stores
(all-day dates, or instants), `draft` the form of an open drawer, `put` a reminder
request that a save has still to send. Dates are numbers, times are slots of a day
(the minutes the forms show), instants count in UTC the parts of a slot (its seconds,
`SlotParts`), which the API keeps and the forms drop (`SlotOf`); the wall clock is
`Offset` slots ahead. `DraftOf` and `RowOf` are `draftFromItem` and `buildSchedule`;
`WithDue` and `WithEstimate` the derivations of `lib/workSchedule.ts`; `DayDropPatch`,
`TimeDropPatch`, `ResizePatch`, `StartResizePatch`, `DateOnlyTimePatch` and
`QuickPatches` the patches of the calendar and the chips; `Target` the server's
`calculate_reminder_schedule`, `Preview` the client's announcement of it. `Save` is
the PATCH, `SendReminder` the request after it, with other writers in between.

- `EstimateIsRange`: due is derived from estimate and estimate from due, by
  which field was edited last; through any sequence the estimate stays the
  length of the range. Excepted (`loose`): writes by other clients, resizes,
  which send no estimate, and a time that `buildSchedule` fills in.
- `RingsAsShown`: a reminder that a save asked for rings when the drawer said, the
  preview being computed on the draft and the alarm on the row. They differ in one
  case, which the property states with its nine hours: a start date without a time
  beside a timed due is previewed at 09:00 and rings at 00:00. A request that fails
  arms nothing; another client's write before the request gives that row's alarm; a
  reminder that was not touched sends no request at all and keeps its old alarm
  (section 6).
- `UneditedSaveKeeps`: saving an unedited drawer drops the seconds of the schedule
  and changes nothing else, on either side of midnight in UTC.
- `MirrorIsExact`, `GesturesAccepted`: the client's order check is the backend's;
  every gesture's patch is valid once merged.

### 2.6 The web client

Each machine of the client has a module, with the server rows it talks to, its
requests under way and its cache. A query (`...Fetch`, `boxDeck`, ...) is asked,
served and taken over in three steps; `invalidateQueries` asks again and drops the
answer of a fetch that runs, except while the query has no data yet, when it joins the
running fetch, also one that was served before the write. A request is sent, served
(or refused, or its answer lost) and answered; `onMutate`, `onSuccess`, `onError` and
`onSettled` are parts of the step that runs them, trailing invalidations included.
Other tabs and clients write in between (`...Elsewhere`, `BoxOthers`). `MCWebClient`
puts the machines side by side: they share no state, so a behaviour is that of one of
them, its `screen`, while the others rest, and one run answers for all.

### 2.7 `Tags`

`TagCheck` is the read of a creation or a change (`validate_tag_parent`),
`TagWrite` the statement with the unique indexes and the cascade; in the page
`TagSubmitCreate`, `TagSubmitEdit`, `TagConfirmDelete` send, `TagAnswered` is the
answer, after any other fetches and writes, with `onSuccess` and its invalidation
(`TagInvalidate`, which joins a first fetch: `TagJoinsFirst`). `TagSelect`,
`TagItemsDone`, `TagToggleDone` are the items under the selected tag.

- `TagTreeIsFresh`: a tree that is not being fetched is the table's once the page
  was told of its own writes. It may miss a write of somebody else that no fetch was
  served after, and one of its own only if that was answered before the tree was
  loaded at all.
- `TagTwoLevels`: a parent exists and is a root. It is violated (run `TagLevels`,
  section 6).

### 2.8 `Focus`

`FocusLookup`, `FocusInsert` and `FocusStop` are `start` and `stop` as the
statements they are; `FocusFetched` keeps the old data when the answer is a 204
(section 6), and `FocusAsk` joins a running fetch while the tab has never seen a
session. `FocusOneOpen` is proved; `FocusBarShowsOpen`: once the answers are in,
every control shows the session that is open. Until the next poll it may miss a
write of somebody else, and one of its own that was answered before the tab had seen
any session, while a fetch that was served earlier was under way.

### 2.9 `ReminderInbox`

The bell of `App.tsx`: `InboxPoll`, `InboxAnswer` and `InboxFetched` the query,
`InboxFetchFails` a poll that fails, `InboxToast` the effect that toasts what it has
not toasted, on the desktop too (`inboxNotes`), `InboxAck`, `InboxSnooze`,
`InboxComplete`, `InboxAckAll`, `InboxRetry` the buttons, and `InboxServerSteps` what
the worker does to a delivery meanwhile. A desktop notification can be clicked at any
later time (`InboxClick`).

- `InboxSettles`: once the answers are in, the bell lists what is unseen; a
  failed acknowledgement comes back.
- `InboxAckIsFinal`: its toast does not. One acknowledgement is not held to this: a
  click on the desktop notification of a delivery that was put off since, which the
  tab has forgotten to have toasted (section 6).

### 2.10 `Shell`

The hash and the page rendered for it change in two steps (`Navigate`,
`HashChange`); `AskFor` writes an item's note and navigates, `Mount` is the
`useState` initialisers that take the notes. `ShellOpensFromAway`: an item asked
for from another page is the one whose drawer opens. `ShellOpensFound`, the same
from any page, does not hold (section 6).

### 2.11 `ItemList` and `ItemViews`

`ItemList` is a list of rows with versions: `ListToggled` (`onMutate`: cancel,
snapshot, write the cache), `ListFailed` (rollback and refetch), `ListSucceeded`,
`ListBatchStep` and `ListBatchEnd` (`runBatchSequential`, and the undo entry of
what succeeded), `ListRunUndo` with the handlers of either page.
`ListSettles`: nothing under way means the page shows the server's rows.
`ListUndoIsReal`: the toast offers to undo only what the server did.

`ItemViews` is one item and the functions that place it: the groups of a list,
the filters and quick filters, Today, the review, the inbox and the calendar,
with a page whose view, search, chips and panel are clicked, saved and applied.

- `ViewsTodayOnce`: Today shows an open item that does not wait in one section at
  most, and in one if it is due, or starts with nothing due, by today. One that waits
  is among those to follow up unless its follow-up is later, and may be shown a second
  time as timed or unscheduled, never as due.
- `ViewsShowOnce`: each open item is in one group of its list or in the inbox,
  at most in one bucket of the review, and each of its instants in one list of
  the calendar.

### 2.12 `ItemDrawer`

Rows are their versions; a draft remembers the version it was made from
(`base`), its tags the one they were read at. `DrawerReset` and `DrawerFill` are
the two effects, run by `DrawerRender` after whatever changes the item or its
reminder; `DrawerSave` sends the draft under the version of the item as the list
has it now, `DrawerHandle` is the versioned PATCH, `DrawerPutReminder` the
request after it, `DrawerSaved` the callback, whatever is shown by then. Several
creations of tags may be under way; one that was overtaken by a later one answers to
the callback of an earlier render (`DrawerOvertaken`), and starts the tags of the
draft from those of the item it knew (`DrawerStrays`). A render and its effects are
one step here: no click falls between them (section 6).

- `DrawerNoLostUpdate`: an accepted save replaces the version its draft and its
  tags were made from. The version check alone does not give that: the version
  sent is newer than the draft when a refetch came in between, and the reset
  must have thrown the draft away. The tags that a strayed creation brought are the
  exception (history `stray`, section 6): they are saved under a newer version.
- `DrawerTouchIsMeant`: a save that writes or deletes a reminder was asked to on
  that item, in that draft.

### 2.13 `InboxPage`

The deck of proposals and the list of untriaged items, over `boxTable` and
`boxRows`. `BoxAccepted` is what the server does with a request of the page, an
approval that was approved before included; `BoxInvalidateDeck` and
`BoxInvalidateItems` the two sets of queries that answers invalidate.
The drawer's requests are one of a kind at a time, which the buttons do not
enforce for deletions.

- `BoxReadsItsWrites`: a fetch that is over shows no proposal whose decision the
  page was told, and no item as it was before a write the page was told.

## 3. The runs and what they show

| run | instance | what it shows |
|---|---|---|
| `ReminderDelivery` | 1 row, 2 workers, 2 attempts, 1 crash, 2 re-arms; or 1 open item, 2 channels, 2 instants, 1 worker with a batch of 2 | claims have one owner; no unwanted alarm; delivered means accepted; moving a reminder leaves one alarm per channel; the outbox knows of every row |
| `ReminderDeliveryItems` | 2 items, 2 reminder rows, 1 worker that may crash, 2 attempts, fair | while reminders are replaced, copied, deleted and purged, every armed row settles |
| `ReminderDeliveryRecurring` (violation) | 2 items, fair | `OccurrenceFollowed` fails, see section 6 |
| `EventOutboxRace` | 1 event, 2 publishers, 2 subscriptions, 2 attempts, 1 crash, fair | implements `AtLeastOnce`; posts are unique; the event settles |
| `EventOutboxDead` (violation) | 1 event, 1 publisher, 1 attempt | `DeadIsDropped` fails |
| `ItemLifecycle` | every request on 1 item, 2 at a time, all statuses, 4 versions; or a series of 3 items whose rule is patched while they are completed, by 2 requests | validated on the current row; only legal steps; stamps tell the status; one occurrence per completion; the series ends |
| `ItemLifecycleCreate` (violation) | 2 creations with one key | `CreatedOnce` fails |
| `AgentProposals` | 2 proposals, 2 items, 2 deliveries, 2 callers, 2 handlers | implements `ProposalApproval`; one proposal per delivery; no purged item is named |
| `WebClient` | each machine of 2.5 and 2.7 to 2.13, one at a time | their properties, but for those of the violation runs |
| `ItemScheduleEdge` (violation) | the schedule of `WebClient`, one day more | `StartEdgeSameDay` fails |
| `FocusBarEnded` (violation) | the focus sessions of `WebClient` | `FocusBarIsTrue` fails |
| `TagLevels` (violation) | the tags of `WebClient`, 2 requests | `TagTwoLevels` fails |

Why the bounds are enough. Every hazard of the deliveries and of the outbox is between
two workers, or between a worker and a request, on one row: two workers and one row
have all of them. Two attempts are a retry and a last attempt, one crash makes every
recovery happen at every point; two instants and two channels are what moving a
reminder can confuse. Two workers, two items, two channels and crashes together are
beyond TLC: the action constraint `Scenario` of `MCReminderScenarios` keeps to the
states of two scenarios, one alarm (`Race`) or one worker and an open item (`Move`),
and the theorems cover the products. An item needs four versions for two requests that each act twice. A day of three slots has a
midnight of UTC inside the day of the wall clock, a first slot, a last slot and one
between; an estimate of three slots carries into the next day; two parts make an
instant that the forms do not show. The theorems are for days and slots of any length.
`MCItemLifecycle` restricts a behaviour to one of two scenarios, all requests on one
item, or the rules and completions of a series, since their product is beyond TLC; the
theorems have no such restriction.

The client's hazards are between one answer and one other event: two requests of the
user and one or two writes of others are enough to put any answer before or after any
other; three in the drawer pick a tag, save it, and let somebody else write between.
Of the drawer's two items one has a reminder at the start. Two items let an answer
come for the one that is not shown; three tags let a parent be moved under another,
and deletions cascade; three clicks in a list select, change the view and open a row
between the steps of a batch. `ViewBack`, `ViewAhead` and `ViewSunday` put a date
before today, today, on the last day of the week, and beyond; the clicks of a list
page are tried on items with at most a due date, the groups and sections on every
item. In `MCWebClient` the tags start as one choice of two tags, as their names are
interchangeable. `CHECK_DEADLOCK` is off throughout: with the bounds spent the system
rests, and a request-driven system may rest.

Symmetry is used only in runs without liveness.

## 4. Fairness

Only `ReminderDeliveryItems`, `ReminderDeliveryRecurring` and `EventOutboxRace`
assume any.

- Clocks: leases and backoffs elapse, instants come.
- Workers: `run_forever` of both workers polls in a loop with no condition, so
  polling, sending the next of a batch and recording an outcome are weakly
  fair. `ReminderDelivery` assumes the claim of a given due row strongly fair:
  `claim_due` takes the oldest rows first, so a row that becomes due again and
  again is in a batch in the end. `EventOutbox` has no such assumption for a
  given event, because the oldest rows may be dead ones that stay due (section
  6); this is why `EventSettles` speaks of events that fit in one batch.
- A request that has begun its transaction ends it.

Not fair: requests, crashes, lost answers, receivers and providers, which may
refuse for ever.

## 5. The proofs

`tlapm` proves the theorems of the eight `_proofs` modules for any number of
items, workers, channels, callers, requests and any bounds, from the assumptions on the
constants alone (`ConstantsAssumption`, `ScheduleAssumption`, `DrawerAssumption` and
the like, which TLC evaluates).

- `ReminderDelivery`. *Claims*: `ClaimsDistinct` is not inductive, since
  nothing in it says a new claim is new; `ClaimsNumbered` (no claim in flight
  is numbered above its row's attempt count) makes it so, and each action
  either adds no claim and lowers no count, or raises the count. *Alarms*:
  `ReminderOwnership` (an active reminder belongs to its item, and a PUT in
  progress holds the row it will make active) carries `ArmedIsWanted` and
  `SingleAlarm`. *Evidence*: every claim in flight already has its event, and
  every kept answer its acceptance; so do the rows that are marked later.
- `EventOutbox`. `OutboxKeepsPromise` is the refinement: `PromiseInv` says that
  an event is owed only to subscriptions a publisher will find, and that a
  publisher who has seen no failure has either posted to everyone owed or still
  has them to do. `PostsNeverRepeat` rests on `PostsNumbered`.
- `ItemLifecycle`. `LockInv`: a PATCH whose version still matches holds the
  status the row has now, because every write raises the version. From it
  `PatchesAreCurrent` and `StepsAreLegal`. `SeriesInv`: an occurrence was made
  at a version its origin has passed, and every row's count is what was last told less
  its place (`SeriesEnds` itself, inductive with the types), because the occurrence is
  made from the row as the completing request wrote it: `SeriesAreFinite`.
- `AgentProposals`. `LockInv`: decisions in progress are on distinct, pending
  proposals; `ProposalsDecidedOnce` is the refinement of `ProposalApproval`.
  `IntakeInv`: an ingest row belongs to one handler until it commits.
- `ItemSchedule`. `SlotScale` and `InstantSlot` relate an instant to its slot;
  `ReadBack` (reading the wall clock and building the instant gives the slot back,
  without its parts) gives `UneditedSavesKeep`, with the invariant `Opened`;
  `MirrorOfOrder` gives `MirrorsAreExact`. `PreviewIsTarget` goes through the cases of
  a draft, the start without a time among them, and `Announced` (the row of a request
  under way has the target that was announced) makes `AlarmsAsShown` inductive,
  `Derivation` (draft and row are both in step) `EstimatesAreRanges`.
  `GesturesAreAccepted` goes through the patches: a shift keeps the order of
  start and due, an edge that is dragged stays on its side of the other, and
  what merges into the row is valid with the fields the patch leaves alone.
- `Focus` (in `Pages_proofs`). `FocusesOneOpen` is what the unique index gives.
  `BarShowsOpen` needs `FocusInv`: while the tab has been told of every write, a
  fetch that was served carries the open session, and a settled one has it as its
  data. An invalidation asks again, joins a fetch that carries the open session, or
  joins one that does not, and then the tab counts as missing a write (`FocusAsked`).
- `ReminderInbox` (`Pages_proofs`). `AckIsFinal` rests on `InboxRaised`: what is
  listed or was acknowledged has been toasted before, and is not toasted again.
  `BellSettles` rests on `InboxInv`: unless the query is stale, a served fetch
  carries what is unseen, and the list lacks only what a request under way took out;
  `InboxUnloaded` says that those requests are made from a loaded query, so that none
  of them joins a first fetch.
- `Shell` (`Pages_proofs`). `OpensFromAway` speaks of the page that has opened;
  `ShellInv` follows the item on its way there: it is in the note of the page the
  hash names until that page is rendered, and in its drawer from then on, and
  nothing is asked for before the session is known.
- `Tags` (`Pages_proofs`). `TreeIsFresh` rests on `TagSync`: when the page has heard of
  its own writes and missed none, an answer in hand, or the page without one on its way,
  has the rows of the table. Any number of requests may be under way.
  `TagNamed` (the tag a creation makes is new to the table) keeps the types.
- `InboxPage` (`Pages_proofs`). `ReadsItsWrites` rests on `BoxSync` (neither an
  answer in hand nor what is shown is older than what the page was told), which
  holds because an answer that tells the page something also asks again
  (`BoxUnloaded` and `BoxCallIsReal`: a request is made from a loaded query, so the
  fetch that its answer drops is never a first one), and because rows are never
  taken back.
- `ItemDrawer` (`Lists_proofs`). `DrawerFresh` says the draft is of the row as the
  list has it, and `DrawerFair` that every request under way carries the version its
  draft was made from; both say so of the tags unless they strayed. Both are needed:
  the version check compares the request with the row, the reset keeps the draft in
  step with the list.
- `ItemList` (`Lists_proofs`). `ListUndoHolds` needs the history of an answer to
  survive other writers: `ListInv` says that no copy of a row, neither in the cache
  nor in a snapshot or a batch, is newer than the server's (`ListCopiesAreOld`),
  and that the row still has the status an answered request gave it or a newer
  version (`ListCallIsReal`, `ListRunIsReal`). `ListSettlesRight` rests on
  `ListSync`: when nothing is under way that has still to tell the page something
  (`ListTold`), an answer in hand or the page without one has the server's rows. The
  step to look at is the rollback, which puts an old snapshot back: it asks again.
- `ItemViews` (`Lists_proofs`). `ShownOnce` and `ShownTodayOnce` follow from the
  types: they are about functions of an item, by cases on its dates and status, here
  for any dates.
- `WebClient_proofs`. The machines share no state, so a step of the client is a step
  or a stutter of each (`WebSteps`), and `Machines` says that a behaviour of the
  client satisfies each specification. The tags are the exception, as they may start
  with an empty table; their invariants are proved of the client directly.
  `WebTypes` and `WebKeepsItsPromises` then state for the client what the run
  `WebClient` checks.

The constants are assumed to be what the code gives: identifiers distinct from the
value that stands for none (`TagAssumption`, `BoxAssumption`), items and bounds that
are numbers (`ListAssumption`, `ShellAssumption`). No assumption limits how many.

Only model-checked: `Settles` and `EventSettles`, which are liveness and out of
the prover's reach.

## 6. What the code does against its own words

- `OccurrenceFollowed`: "The active reminder rides along so the worker follows
  the new occurrence" (`item_service.py:203`), but the row is copied without
  reconciling and no worker ever sees it.
- `DeadIsDropped`: an event that ran out of attempts has `retry_at` NULL, which
  the claim reads as due now; it is posted again at every poll, and as many as
  fill a batch keep newer events from being claimed.
- `CreatedOnce`: two concurrent creations with one `client_request_id` make two
  items.
- `FocusBarIsTrue`: "服务端为真源" (`FocusControls.tsx:42`), but no active session is
  answered with 204, which `request` turns into `undefined` and the query library
  refuses as data: the bar keeps showing a session that is over.
- `StartEdgeSameDay`: the top edge of a calendar event is computed on UTC text
  and applied as wall-clock time, so every drag shifts by the offset, and an
  early event moves to the previous day.
- `TagTwoLevels`: "Enforce the two-level tag hierarchy" (`policies.py:87`, "两级嵌套",
  `TagsPage.tsx:103`), but the parent is checked by reads that lock nothing: two
  concurrent moves, each legal when it was checked, make a third level, or a cycle
  that no tree shows.

Stated in the modules or seen in the source, without a run of their own:

- `ShellOpensFound` (`Shell`): "Enter 打开选中结果" (`SearchDialog.tsx:9`). When the
  page of the item is already shown the hash does not change, nothing mounts,
  and the note waits for a later visit of the page.
- The empty state should tell "filtered empty" from "really empty"
  (`ListState.tsx:34`); the high-priority chip is missing from `filtered`
  (`WorkItemsPage.tsx:329`) and is not reset by the button that clears, so a list it
  empties is called empty.
- "保存时更新提醒" (`WorkItemDrawer.tsx:230`): a drawer whose dates moved while its
  reminder was not touched shows the new alarm under that label, but only a PUT of the
  reminder reconciles (`reminder_service.py:20`), and none is sent: the old alarm
  stays. So it does after any other PATCH that moves the item, or a drag.
- "服务端为真源" (`FocusControls.tsx:42`) fails a second way: a start that is answered
  while the first poll, served before it, is on its way joins that poll, and the bar
  shows nothing until the next one. The tree of tags misses a tag created before the
  first tree arrived in the same way, with no poll to correct it.
- `BoxShowsApplied` (`InboxPage`): an approval answered while the items are
  fetched for the first time joins that fetch, so what it made is not listed.
- Digests are to be sent "once per user per kind per local day"
  (`reminder_worker.py:137`): two workers can both push one, and a crash between
  log and push loses one.
- Triage is "选范围并转 planned" (`InboxPage.tsx:13`), but `ItemPatch` has no scope
  (`schemas.py:151`): the field is dropped, so a work item that is put under
  "个人" stays a work item and only loses its project.
- `GET /projects` names `archived_at` without its table while the two tables
  it joins both have one (`storage/repositories/projects.py:23`, migration
  012): PostgreSQL refuses the default list as ambiguous.

Noticed while modelling, with no document to hold them against:

- An acknowledgement or a snooze through MCP records no event. A re-armed or
  recovered row keeps its acknowledgement. Recovery of a lease ignores the
  attempt cap. Reopening an item does not re-arm its alarms. The first PUT of a
  reminder that races with a soft deletion leaves an alarm of a deleted item.
- One Feishu message under two event ids makes two proposals; `expires_at` of a
  proposal is never checked.
- The preview says 09:00 and the server 00:00 for a start date without a time
  beside a due time (`MidnightStart`; `RingsAsShown` states the nine hours). The forms
  drop the seconds of an instant (`dates.ts:36`) that the API accepted with them
  (`schemas.py:132`), so an unedited save rewrites it. A start
  time without a date makes the reminder request fail after the item was saved.
- A range longer than seven days derives an estimate that the API refuses.
  After a resize, editing the start derives the due from the old estimate. A
  range edited down to nothing keeps its estimate. Timed items without a date
  become all-day when saved.
- The undo of a batch sends the version from before the batch, which is always
  a conflict; the undo of a completed item that was waiting or in progress asks
  for a transition that is not legal; the undo of a deletion does not bring the
  reminder back. Leaving the selection during a batch leaves rows selected. A
  batch acts on selected rows that a filter hides. Deleted rows can be patched.
- A click on the desktop notification of a delivery that was put off acknowledges it,
  but the tab no longer counts it as toasted (`App.tsx:424`, `435`): an older answer
  that lists it toasts it again.
- Waiting personal items are in no bucket of the review. The quick filter stays
  in force on the done and archived views, where its panel is not shown. Today
  is not computed anew at midnight.
- A drawer that is reset keeps "reminder off" although its query answered "on".
  When the PUT of a reminder fails after its PATCH, every retry sends the old
  version. A new tag is picked for the item shown when it is answered; of two creations
  at once (`TagPicker.tsx:27`), the older one starts from the tags of an earlier render
  (`WorkItemDrawer.tsx:77`), and a save overwrites tags that were never shown. A click
  between a render and its effect acts on the draft of the item before. An answer
  opens a drawer that was closed. A write of somebody else discards what was
  typed, without a word.
- An edited approval replaces the whole payload by a form filled with defaults:
  that of a patch clears the schedule, notes and priority of its item, that of a
  creation loses tags and recurrence. Edits to a proposal that was approved
  elsewhere are dropped and answered as a success. Deciding on one card closes
  the form of another. A refused decision asks for nothing again, so its card
  stays. The deck says there is nothing to decide when its query failed.
- Monthly recurrence is computed on the UTC date: the first at 07:00 in
  Shanghai drifts to the end of the month before. The next occurrence drops the
  estimate.
- A tag PATCH with a null parent is always refused, so a tag never becomes a
  root again. Two groups of projects swap places by two requests of which one may
  fail, and do not when their order is equal. Restoring an archived group whose name was
  taken meets an unhandled unique violation. Updating a milestone writes before
  it compares the project.
- Preferences that are toggled while they are read leave the older answer in
  the cache; editing a person on a stale row takes back a toggle; a second new
  token or webhook replaces the secret that is shown once (`SettingsPage.tsx`).

## 7. Not modelled

Rendering, wording, formats, authentication and transport, name resolution of
webhook addresses, ICS and the parsing of meeting texts and quick-add lines: no
state that a property here would need. PostgreSQL itself is assumed: a
statement, or a transaction that holds its locks, is one step; so is the query
library of the client (react-query 5), from what the pages ask of it.

The projects page and the drawer of a project: their first query fails
(section 6), and what follows its answer cannot be reached. The settings page,
people, habits, preferences, tokens and webhooks: rows that one statement writes
and a page that shows them; what goes wrong there is in section 6. The digests
are a log and a push, with nothing that recovers either. The other components
are listed in `PROJECT.json` with their reason.

## 8. The plan

Done, in this order: `ReminderDelivery`, `EventOutbox` over `AtLeastOnce`,
`ItemLifecycle`, `AgentProposals` over `ProposalApproval`, `ItemSchedule`, with
their proofs; then the web client, `Tags`, `Focus`, `ReminderInbox`, `Shell`,
`ItemList`, `ItemViews`, `ItemDrawer` and `InboxPage`, run together by
`MCWebClient`, with proofs for each of them (`Pages_proofs`, `Lists_proofs`) and for
the client (`WebClient_proofs`).

What would come next:

1. Composition: an approval's call of the item service with `ItemLifecycle`
   instantiated, and the item requests of `ReminderDelivery` shown to be those of
   `ItemLifecycle`.
2. One specification of a cached query (asked, served, told, settled) that the
   tags, the bell, the list and the inbox page implement: `FocusInv`, `TagSync`,
   `InboxInv`, `ListSync` and `BoxSync` have the same shape.
3. `Recurrence`: `next_occurrence_date`, clamping, `until` and count, the UTC
   day, against a reference calendar; then `ItemLifecycle`'s occurrence with its
   dates.
4. Pure parts: free slots, project progress, the sliding window of the rate
   limiter, each against a reference definition.
