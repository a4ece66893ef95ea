-------------------------- MODULE ReminderDelivery --------------------------
(***************************************************************************)
(* Reminder deliveries of EventFlowOS: the rows of reminder_deliveries, the *)
(* requests of the API that create, cancel, re-arm and acknowledge them,    *)
(* and the reminder workers that claim them under a lease, call a provider  *)
(* and record the outcome.                                                  *)
(*                                                                         *)
(* A delivery is the row of UNIQUE(reminder_id, scheduled_for, channel).    *)
(* Every database transaction is one action, with one exception: the PUT    *)
(* of a reminder reads the item without locking it and writes the rows      *)
(* later, so it is a PutBegin and a PutFinish (or a PutAbort).              *)
(*                                                                         *)
(* Time.  scheduled_for is an instant of 1 .. Horizon and "now" counts the  *)
(* instants the clock has passed.  The short intervals (the retry backoff   *)
(* and the lease) are timers that elapse by an action of their own: nothing *)
(* in the code bounds a worker's pause or a batch's duration by the lease.  *)
(***************************************************************************)
EXTENDS Naturals, FiniteSets

CONSTANTS
    Item,         \* items that may come to exist
    Reminder,     \* ids of reminder rows; an id is used once
    Channel,      \* in_app, feishu, ntfy
    InApp,        \* the channel every reminder has
    Worker,       \* reminder worker processes
    Horizon,      \* bound: number of distinct instants reminders fire at
    MaxAttempts,  \* next_retry_at gives up from this attempt on (6 in the code)
    BatchSize,    \* reminder_batch_size
    MaxRearms,    \* bound: PUTs of a reminder and manual retries
    MaxCrashes,   \* bound: worker crashes
    NoReminder, NoItem, NoPut, NoJob

Instant  == 1 .. Horizon
Delivery == [reminder : Reminder, at : Instant, channel : Channel]
Job      == [delivery : Delivery, attempt : Nat]
Result   == {"ok", "retryable", "permanent"}
Outcome  == [job : Job, result : Result]
Put      == [reminder : Reminder, at : Instant,
             channels : SUBSET Channel, parked : BOOLEAN]

ASSUME ConstantsAssumption ==
    /\ Horizon \in Nat
    /\ MaxAttempts \in Nat
    /\ BatchSize \in Nat
    /\ MaxRearms \in Nat
    /\ MaxCrashes \in Nat
    /\ InApp \in Channel
    /\ NoReminder \notin Reminder
    /\ NoItem \notin Item
    /\ NoPut \notin Put
    /\ NoJob \notin Outcome

VARIABLES
    now,          \* the last instant the clock has reached
    stage,        \* item -> "unborn", "live" or "purged"
    closed,       \* items whose status is done or cancelled
    archived,     \* items with archived_at set
    deleted,      \* items with deleted_at set
    occurrences,  \* items created as the next occurrence of a recurring one
    active,       \* item -> its reminder row with active = true
    owner,        \* reminder -> item_id of its row, NoItem while unused
    put,          \* item -> the PUT transaction in progress on it
    status,       \* delivery -> status column, "absent" when there is no row
    attempts,     \* delivery -> attempt_count
    wake,         \* delivery -> what next_attempt_at waits for
    lease,        \* delivery -> locked_until: none, in the future, in the past
    seen,         \* delivery -> acknowledged_at / snooze_until
    batch,        \* worker -> claimed deliveries it has not sent yet
    sent,         \* worker -> the delivery it sent and has not recorded yet
    events,       \* event_outbox rows, by type and delivery
    accepted,     \* history: deliveries some provider accepted
    armedBy,      \* history: what last put the row in an armed status
    rearms,       \* bound counter for MaxRearms
    crashes       \* bound counter for MaxCrashes

itemVars     == <<stage, closed, archived, deleted, occurrences>>
reminderVars == <<active, owner, put>>
rowVars      == <<status, attempts, wake, lease, seen, armedBy>>
workerVars   == <<batch, sent, accepted, crashes>>
vars == <<now, itemVars, reminderVars, rowVars, workerVars, events, rearms>>

-----------------------------------------------------------------------------
(* Statuses                                                                *)

\* A CHECK constraint that was not extended with the last status.
StatusesBeforeDead == {"absent", "pending", "retry_wait", "delivering",
                       "delivered", "cancelled"}

Statuses == {"absent", "pending", "retry_wait", "delivering",
             "delivered", "dead", "cancelled"}

\* What the sweeps of cancel_pending_deliveries, deactivate_for_item and
\* replace_pending_deliveries cancel: a row that may still fire.
Armed == {"pending", "retry_wait", "delivering"}

TypeOK ==
    /\ now \in 0 .. Horizon
    /\ stage \in [Item -> {"unborn", "live", "purged"}]
    /\ closed \in SUBSET Item
    /\ archived \in SUBSET Item
    /\ deleted \in SUBSET Item
    /\ occurrences \in SUBSET Item
    /\ active \in [Item -> Reminder \cup {NoReminder}]
    /\ owner \in [Reminder -> Item \cup {NoItem}]
    /\ put \in [Item -> Put \cup {NoPut}]
    /\ status \in [Delivery -> Statuses]
    /\ attempts \in [Delivery -> Nat]
    /\ wake \in [Delivery -> {"schedule", "backoff", "now"}]
    /\ lease \in [Delivery -> {"none", "held", "expired"}]
    /\ seen \in [Delivery -> {"new", "acked", "snoozed"}]
    /\ batch \in [Worker -> SUBSET Job]
    /\ sent \in [Worker -> Outcome \cup {NoJob}]
    /\ events \in SUBSET ({"reminder.fired", "delivery.failed",
                           "reminder.acked", "reminder.snoozed"} \X Delivery)
    /\ accepted \in SUBSET Delivery
    /\ armedBy \in [Delivery -> {"nobody", "request", "race", "worker", "retry"}]
    /\ rearms \in Nat
    /\ crashes \in Nat

Init ==
    /\ now = 0
    /\ \E born \in Item : stage = [i \in Item |-> IF i = born THEN "live" ELSE "unborn"]
    /\ closed = {} /\ archived = {} /\ deleted = {} /\ occurrences = {}
    /\ active = [i \in Item |-> NoReminder]
    /\ owner = [r \in Reminder |-> NoItem]
    /\ put = [i \in Item |-> NoPut]
    /\ status = [d \in Delivery |-> "absent"]
    /\ attempts = [d \in Delivery |-> 0]
    /\ wake = [d \in Delivery |-> "schedule"]
    /\ lease = [d \in Delivery |-> "none"]
    /\ seen = [d \in Delivery |-> "new"]
    /\ batch = [w \in Worker |-> {}]
    /\ sent = [w \in Worker |-> NoJob]
    /\ events = {}
    /\ accepted = {}
    /\ armedBy = [d \in Delivery |-> "nobody"]
    /\ rearms = 0
    /\ crashes = 0

-----------------------------------------------------------------------------
(* Helpers on the rows                                                     *)

DeliveriesOf(i) == {d \in Delivery : owner[d.reminder] = i}

Cancelled(S) ==
    [d \in Delivery |->
        IF d \in S /\ status[d] \in Armed THEN "cancelled" ELSE status[d]]

FreshReminder == {r \in Reminder : owner[r] = NoItem}

-----------------------------------------------------------------------------
(* Requests on the item.  Any of them may find the item soft-deleted:       *)
(* get_item does not look at deleted_at.                                    *)

\* POST complete or cancel, or a PATCH that ends in a terminal status.
Close(i) ==
    /\ stage[i] = "live"
    /\ closed' = closed \cup {i}
    /\ status' = Cancelled(DeliveriesOf(i))
    /\ UNCHANGED <<now, stage, archived, deleted, occurrences, reminderVars,
                   attempts, wake, lease, seen, armedBy, workerVars, events, rearms>>

\* Completing a recurring item also creates item j, and copies the active
\* reminder to it: a row of reminders, and no row of reminder_deliveries.
CompleteRecurring(i, j) ==
    /\ stage[i] = "live" /\ stage[j] = "unborn"
    /\ stage' = [stage EXCEPT ![j] = "live"]
    /\ closed' = closed \cup {i}
    /\ occurrences' = occurrences \cup {j}
    /\ status' = Cancelled(DeliveriesOf(i))
    /\ IF active[i] = NoReminder
       THEN UNCHANGED <<active, owner>>
       ELSE \E r \in FreshReminder :
                /\ active' = [active EXCEPT ![j] = r]
                /\ owner' = [owner EXCEPT ![r] = j]
    /\ UNCHANGED <<now, archived, deleted, put, attempts, wake, lease, seen,
                   armedBy, workerVars, events, rearms>>

Reopen(i) ==
    /\ stage[i] = "live" /\ i \in closed
    /\ closed' = closed \ {i}
    /\ UNCHANGED <<now, stage, archived, deleted, occurrences, reminderVars,
                   rowVars, workerVars, events, rearms>>

SetArchive(i, flag) ==
    /\ stage[i] = "live"
    /\ archived' = IF flag THEN archived \cup {i} ELSE archived \ {i}
    /\ UNCHANGED <<now, stage, closed, deleted, occurrences, reminderVars,
                   rowVars, workerVars, events, rearms>>

\* deactivate_for_item.  It waits for a PUT that holds the active reminder's
\* row, and does not see the row that the first PUT has not committed yet.
Deactivate(i) ==
    /\ put[i] # NoPut => active[i] = NoReminder
    /\ active' = [active EXCEPT ![i] = NoReminder]
    /\ status' = Cancelled(DeliveriesOf(i))

DeleteReminder(i) ==
    /\ stage[i] = "live"
    /\ Deactivate(i)
    /\ UNCHANGED <<now, itemVars, owner, put, attempts, wake, lease, seen,
                   armedBy, workerVars, events, rearms>>

SoftDelete(i) ==
    /\ stage[i] = "live" /\ i \notin deleted
    /\ deleted' = deleted \cup {i}
    /\ Deactivate(i)
    /\ UNCHANGED <<now, stage, closed, archived, occurrences, owner, put, attempts,
                   wake, lease, seen, armedBy, workerVars, events, rearms>>

RestoreDeleted(i) ==
    /\ stage[i] = "live" /\ i \in deleted
    /\ deleted' = deleted \ {i}
    /\ UNCHANGED <<now, stage, closed, archived, occurrences, reminderVars,
                   rowVars, workerVars, events, rearms>>

\* DELETE of the item row; reminders and deliveries go by ON DELETE CASCADE.
Purge(i) ==
    /\ stage[i] = "live" /\ i \in deleted /\ put[i] = NoPut
    /\ stage' = [stage EXCEPT ![i] = "purged"]
    /\ active' = [active EXCEPT ![i] = NoReminder]
    /\ status' = [d \in Delivery |-> IF d \in DeliveriesOf(i) THEN "absent" ELSE status[d]]
    /\ UNCHANGED <<now, closed, archived, deleted, occurrences, owner, put, attempts,
                   wake, lease, seen, armedBy, workerVars, events, rearms>>

-----------------------------------------------------------------------------
(* PUT of a reminder: upsert_for_item locks the reminder's row until the    *)
(* end of the transaction; reconcile reads the item, which stays unlocked.  *)

Parked(i) == i \in closed \cup archived

PutBegin(i, r, t, chs) ==
    /\ stage[i] = "live" /\ put[i] = NoPut
    /\ rearms < MaxRearms
    /\ InApp \in chs
    /\ IF active[i] = NoReminder THEN r \in FreshReminder ELSE r = active[i]
    /\ put' = [put EXCEPT ![i] = [reminder |-> r, at |-> t,
                                  channels |-> chs, parked |-> Parked(i)]]
    /\ owner' = [owner EXCEPT ![r] = i]
    /\ rearms' = rearms + 1
    /\ UNCHANGED <<now, itemVars, active, rowVars, workerVars, events>>

\* The request fails (for instance REMINDER_TARGET_MISSING) or its process
\* dies: the transaction rolls back.
PutAbort(i) ==
    /\ put[i] # NoPut
    /\ put' = [put EXCEPT ![i] = NoPut]
    /\ UNCHANGED <<now, itemVars, active, owner, rowVars, workerVars, events, rearms>>

PutRows(i) ==
    {d \in Delivery : /\ d.reminder = put[i].reminder
                      /\ d.at = put[i].at
                      /\ d.channel \in put[i].channels}

\* The item was done, cancelled or archived when it was read.
PutFinishParked(i) ==
    /\ put[i] # NoPut /\ put[i].parked
    /\ active' = [active EXCEPT ![i] = put[i].reminder]
    /\ put' = [put EXCEPT ![i] = NoPut]
    /\ status' = Cancelled(DeliveriesOf(i))
    /\ UNCHANGED <<now, itemVars, owner, attempts, wake, lease, seen, armedBy,
                   workerVars, events, rearms>>

\* A sweep that only looks at the rows of the instant being written.
ReplacedSameInstant(i) ==
    {d \in Delivery : d.reminder = put[i].reminder /\ d.at = put[i].at}

\* The rows replace_pending_deliveries sweeps before it writes its own.
Replaced(i) == {d \in Delivery : d.reminder = put[i].reminder}

\* A replace_pending_deliveries that forgets the attempts already made.
AttemptsAfterRearmReset(d) == 0

\* ON CONFLICT DO UPDATE keeps attempt_count (and the acknowledgement).
AttemptsAfterRearm(d) == attempts[d]

\* replace_pending_deliveries: the reminder's armed rows are cancelled, then
\* the rows of the new schedule are inserted or set back to pending.
PutFinish(i) ==
    /\ put[i] # NoPut /\ ~ put[i].parked
    /\ active' = [active EXCEPT ![i] = put[i].reminder]
    /\ put' = [put EXCEPT ![i] = NoPut]
    /\ LET rows == PutRows(i)
       IN  /\ status' = [d \in Delivery |->
                            IF d \in rows THEN "pending" ELSE Cancelled(Replaced(i))[d]]
           /\ wake' = [d \in Delivery |-> IF d \in rows THEN "schedule" ELSE wake[d]]
           /\ attempts' = [d \in Delivery |->
                              IF d \in rows THEN AttemptsAfterRearm(d) ELSE attempts[d]]
           /\ armedBy' = [d \in Delivery |->
                             IF d \in rows
                             THEN IF i \in closed THEN "race" ELSE "request"
                             ELSE armedBy[d]]
    /\ UNCHANGED <<now, itemVars, owner, lease, seen, workerVars, events, rearms>>

-----------------------------------------------------------------------------
(* Requests on a delivery.  The routes of the API record an event for an    *)
(* acknowledgement and a snooze; the tools of the MCP server do not.        *)

Acknowledge(d) ==
    /\ status[d] = "delivered"
    /\ seen' = [seen EXCEPT ![d] = "acked"]
    /\ \/ events' = events \cup {<<"reminder.acked", d>>}
       \/ events' = events
    /\ UNCHANGED <<now, itemVars, reminderVars, status, attempts, wake, lease,
                   armedBy, workerVars, rearms>>

Snooze(d) ==
    /\ status[d] = "delivered"
    /\ seen' = [seen EXCEPT ![d] = "snoozed"]
    /\ \/ events' = events \cup {<<"reminder.snoozed", d>>}
       \/ events' = events
    /\ UNCHANGED <<now, itemVars, reminderVars, status, attempts, wake, lease,
                   armedBy, workerVars, rearms>>

\* Only the status of the delivery is looked at, not the item or the reminder.
RetryDead(d) ==
    /\ status[d] = "dead"
    /\ rearms < MaxRearms
    /\ rearms' = rearms + 1
    /\ status' = [status EXCEPT ![d] = "pending"]
    /\ wake' = [wake EXCEPT ![d] = "now"]
    /\ armedBy' = [armedBy EXCEPT ![d] = "retry"]
    /\ UNCHANGED <<now, itemVars, reminderVars, attempts, lease, seen,
                   workerVars, events>>

-----------------------------------------------------------------------------
(* Timers                                                                  *)

Tick ==
    /\ now < Horizon
    /\ now' = now + 1
    /\ UNCHANGED <<itemVars, reminderVars, rowVars, workerVars, events, rearms>>

BackoffElapses(d) ==
    /\ status[d] = "retry_wait" /\ wake[d] = "backoff"
    /\ wake' = [wake EXCEPT ![d] = "now"]
    /\ UNCHANGED <<now, itemVars, reminderVars, status, attempts, lease, seen,
                   armedBy, workerVars, events, rearms>>

LeaseExpires(d) ==
    /\ status[d] = "delivering" /\ lease[d] = "held"
    /\ lease' = [lease EXCEPT ![d] = "expired"]
    /\ UNCHANGED <<now, itemVars, reminderVars, status, attempts, wake, seen,
                   armedBy, workerVars, events, rearms>>

-----------------------------------------------------------------------------
(* Reminder workers                                                        *)

Idle(w) == batch[w] = {} /\ sent[w] = NoJob

Due == {d \in Delivery : /\ status[d] \in {"pending", "retry_wait"}
                         /\ \/ wake[d] = "now"
                            \/ wake[d] = "schedule" /\ d.at <= now}

\* A recovery that looks at the lease alone and ignores the status.
LeftBehindByLease == {d \in Delivery : lease[d] = "expired"}

\* A recovery that gives up on rows that have used their attempts.
LeftBehindBelowCap == {d \in Delivery : /\ status[d] = "delivering"
                                       /\ lease[d] = "expired"
                                       /\ attempts[d] < MaxAttempts}

\* recover_expired_leases: claimed, and not recorded within the lease.
LeftBehind == {d \in Delivery : status[d] = "delivering" /\ lease[d] = "expired"}

ClaimNumber(d) == attempts[d] + 1

\* deliver_once up to its commit: recover_expired_leases, claim_due and the
\* reminder.fired events, in one transaction.  Rows that other transactions
\* hold are skipped, so a claim may take any of the due rows.
ClaimDue(w, S) ==
    /\ Idle(w)
    /\ S # {} /\ S \subseteq Due \cup LeftBehind
    /\ Cardinality(S) <= BatchSize
    /\ status' = [d \in Delivery |-> IF d \in S THEN "delivering"
                                     ELSE IF d \in LeftBehind THEN "retry_wait"
                                     ELSE status[d]]
    /\ lease' = [d \in Delivery |-> IF d \in S THEN "held"
                                    ELSE IF d \in LeftBehind THEN "none"
                                    ELSE lease[d]]
    /\ wake' = [d \in Delivery |-> IF d \in LeftBehind THEN "now" ELSE wake[d]]
    /\ attempts' = [d \in Delivery |-> IF d \in S THEN ClaimNumber(d) ELSE attempts[d]]
    /\ batch' = [batch EXCEPT ![w] = {[delivery |-> d, attempt |-> ClaimNumber(d)] : d \in S}]
    /\ events' = events \cup {<<"reminder.fired", d>> : d \in S}
    /\ UNCHANGED <<now, itemVars, reminderVars, seen, armedBy, sent, accepted,
                   crashes, rearms>>

\* The call of the provider, outside any transaction.  A provider may have
\* accepted a message whose answer was lost, or whose row could not be
\* marked: both reach the worker as a retryable failure.  in_app has no
\* provider to refuse it.
Send(w, job, result) ==
    /\ sent[w] = NoJob /\ job \in batch[w]
    /\ result = "permanent" => job.delivery.channel # InApp
    /\ batch' = [batch EXCEPT ![w] = @ \ {job}]
    /\ sent' = [sent EXCEPT ![w] = [job |-> job, result |-> result]]
    /\ \/ result # "permanent" /\ accepted' = accepted \cup {job.delivery}
       \/ result # "ok" /\ accepted' = accepted
    /\ UNCHANGED <<now, itemVars, reminderVars, rowVars, events, crashes, rearms>>

\* UPDATE ... WHERE id = ...: a purged row stays absent, and nothing else is
\* asked of the row, neither its status nor who holds its lease.
Marked(d, new) == IF status[d] = "absent" THEN "absent" ELSE new

\* A classification that takes a call without an answer for a success.
SucceededUnlessRefused(outcome) == outcome.result # "permanent"

Succeeded(outcome) == outcome.result = "ok"

MarkDelivered(w) ==
    /\ sent[w] # NoJob /\ Succeeded(sent[w])
    /\ LET d == sent[w].job.delivery
       IN  /\ status' = [status EXCEPT ![d] = Marked(d, "delivered")]
           /\ lease' = [lease EXCEPT ![d] = "none"]
    /\ sent' = [sent EXCEPT ![w] = NoJob]
    /\ UNCHANGED <<now, itemVars, reminderVars, attempts, wake, seen, armedBy,
                   batch, accepted, crashes, events, rearms>>

\* The decision is taken on the attempt number the worker claimed, which may
\* be older than the row's.
GivesUp(outcome) ==
    \/ outcome.result = "permanent"
    \/ outcome.job.attempt >= MaxAttempts

MarkRetry(w) ==
    /\ sent[w] # NoJob /\ ~ Succeeded(sent[w]) /\ ~ GivesUp(sent[w])
    /\ LET d == sent[w].job.delivery
       IN  /\ status' = [status EXCEPT ![d] = Marked(d, "retry_wait")]
           /\ lease' = [lease EXCEPT ![d] = "none"]
           /\ wake' = [wake EXCEPT ![d] = "backoff"]
           /\ armedBy' = [armedBy EXCEPT ![d] =
                             IF status[d] \in Armed \cup {"absent"} THEN @ ELSE "worker"]
    /\ sent' = [sent EXCEPT ![w] = NoJob]
    /\ UNCHANGED <<now, itemVars, reminderVars, attempts, seen, batch, accepted,
                   crashes, events, rearms>>

\* A worker that reports exhausted retries, and not a provider's refusal.
FailureEventsIfExhausted(outcome) ==
    IF outcome.result = "permanent" THEN {}
    ELSE {<<"delivery.failed", outcome.job.delivery>>}

FailureEvents(outcome) == {<<"delivery.failed", outcome.job.delivery>>}

MarkDead(w) ==
    /\ sent[w] # NoJob /\ ~ Succeeded(sent[w]) /\ GivesUp(sent[w])
    /\ LET d == sent[w].job.delivery
       IN  /\ status' = [status EXCEPT ![d] = Marked(d, "dead")]
           /\ lease' = [lease EXCEPT ![d] = "none"]
           /\ events' = events \cup FailureEvents(sent[w])
    /\ sent' = [sent EXCEPT ![w] = NoJob]
    /\ UNCHANGED <<now, itemVars, reminderVars, attempts, wake, seen, armedBy,
                   batch, accepted, crashes, rearms>>

\* The process dies, or an exception leaves the loop; it is restarted.
Crash(w) ==
    /\ ~ Idle(w)
    /\ crashes < MaxCrashes
    /\ crashes' = crashes + 1
    /\ batch' = [batch EXCEPT ![w] = {}]
    /\ sent' = [sent EXCEPT ![w] = NoJob]
    /\ UNCHANGED <<now, itemVars, reminderVars, rowVars, accepted, events, rearms>>

-----------------------------------------------------------------------------
ItemRequest(i) ==
    \/ Close(i)
    \/ \E j \in Item : CompleteRecurring(i, j)
    \/ Reopen(i)
    \/ \E flag \in BOOLEAN : SetArchive(i, flag)
    \/ DeleteReminder(i)
    \/ SoftDelete(i)
    \/ RestoreDeleted(i)
    \/ Purge(i)

PutRequest(i) ==
    \/ \E r \in Reminder, t \in Instant, chs \in SUBSET Channel : PutBegin(i, r, t, chs)
    \/ PutAbort(i)
    \/ PutFinishParked(i)
    \/ PutFinish(i)

DeliveryRequest(d) == Acknowledge(d) \/ Snooze(d) \/ RetryDead(d)

Timer(d) == BackoffElapses(d) \/ LeaseExpires(d)

Record(w) == MarkDelivered(w) \/ MarkRetry(w) \/ MarkDead(w)

Work(w) ==
    \/ \E S \in SUBSET Delivery : ClaimDue(w, S)
    \/ \E job \in batch[w], result \in Result : Send(w, job, result)
    \/ Record(w)
    \/ Crash(w)

Next ==
    \/ \E i \in Item : ItemRequest(i) \/ PutRequest(i)
    \/ \E d \in Delivery : DeliveryRequest(d) \/ Timer(d)
    \/ Tick
    \/ \E w \in Worker : Work(w)

Spec == Init /\ [][Next]_vars

-----------------------------------------------------------------------------
(* Properties                                                              *)

InFlight(w) == batch[w] \cup (IF sent[w] = NoJob THEN {} ELSE {sent[w].job})

\* Two workers never hold the same claim: whatever expires, is cancelled,
\* re-armed, retried by hand or recovered, (id, attempt_count) names one claim
\* of claim_due.  A notification may be sent twice, an attempt may not.
ClaimsDistinct ==
    \A w1, w2 \in Worker : w1 # w2 => InFlight(w1) \cap InFlight(w2) = {}

\* A row that a request armed is the alarm of the item's active reminder, and
\* the item is not done or cancelled.  The exceptions are exactly the rows
\* that a worker's late failure brought back ("worker"), that were retried by
\* hand ("retry"), or whose PUT read the item before it was closed ("race"):
\* the three ways an update of reminder_deliveries ignores the item.
ArmedIsWanted ==
    \A d \in Delivery :
        /\ status[d] \in Armed
        /\ armedBy[d] \in {"request", "race"}
        => LET i == owner[d.reminder]
           IN  /\ i \in Item
               /\ active[i] = d.reminder
               /\ armedBy[d] = "request" => i \notin closed

\* Moving a reminder to another time or asking for it twice never leaves two
\* alarms of one item on one channel (replace_pending_deliveries).
SingleAlarm ==
    \A d, e \in Delivery :
        /\ status[d] \in Armed /\ armedBy[d] \in {"request", "race"}
        /\ status[e] \in Armed /\ armedBy[e] \in {"request", "race"}
        /\ owner[d.reminder] = owner[e.reminder]
        /\ d.channel = e.channel
        => d = e

\* A row says delivered, and can be acknowledged or snoozed, only if a
\* provider accepted a message for it, however late the answer was recorded.
DeliveredWasAccepted ==
    \A d \in Delivery :
        status[d] = "delivered" \/ seen[d] # "new" => d \in accepted

\* The transactional outbox: what a row says the worker did with it,
\* subscribers have an event for, and an acknowledgement or a snooze is never
\* told of a reminder that they were not told has fired.
OutboxCoversRows ==
    \A d \in Delivery :
        /\ status[d] \in {"delivering", "delivered", "dead"}
               => <<"reminder.fired", d>> \in events
        /\ status[d] = "dead" => <<"delivery.failed", d>> \in events
        /\ seen[d] # "new" => <<"reminder.fired", d>> \in events

-----------------------------------------------------------------------------
(* Liveness.  Clocks run.  A worker that is up goes through its batch, and  *)
(* polls again (run_forever), the oldest due rows first (ORDER BY), so that *)
(* a row that is due again and again is claimed.  Requests and crashes are  *)
(* not fair.                                                                *)

ClaimOf(d) == \E w \in Worker, S \in SUBSET Delivery : d \in S /\ ClaimDue(w, S)

SendNext(w) == \E job \in batch[w], result \in Result : Send(w, job, result)

Fairness ==
    /\ WF_vars(Tick)
    /\ \A i \in Item : WF_vars(PutAbort(i) \/ PutFinishParked(i) \/ PutFinish(i))
    /\ \A d \in Delivery : /\ WF_vars(BackoffElapses(d))
                           /\ WF_vars(LeaseExpires(d))
                           /\ SF_vars(ClaimOf(d))
    /\ \A w \in Worker : WF_vars(SendNext(w)) /\ WF_vars(Record(w))

FairSpec == Spec /\ Fairness

\* No armed row is forgotten: with finitely many crashes, each is delivered,
\* dead, cancelled or purged in the end, whichever worker dies or is slow.
Settles == \A d \in Delivery : status[d] \in Armed ~> status[d] \notin Armed

\* The reminder of a recurring item "rides along so the worker follows the
\* new occurrence" (_materialize_next_occurrence): the occurrence's active
\* reminder gets a row a worker can claim, unless the occurrence is closed,
\* archived or deleted first.
OccurrenceFollowed ==
    \A j \in Item :
        j \in occurrences /\ active[j] # NoReminder
            ~> \/ \E d \in DeliveriesOf(j) : status[d] # "absent"
               \/ active[j] = NoReminder \/ Parked(j) \/ j \in deleted
=============================================================================
