----------------------------- MODULE EventOutbox -----------------------------
(***************************************************************************)
(* The event outbox of EventFlowOS and its webhook publisher: rows of       *)
(* event_outbox written by business transactions, webhook subscriptions     *)
(* created and deleted by the user, and publisher processes that claim a    *)
(* batch of events, post each to the matching subscriptions and record the  *)
(* outcome.                                                                 *)
(*                                                                         *)
(* Each database transaction and each HTTP request is one action.  The      *)
(* backoff and the lease are timers that elapse by an action of their own.  *)
(***************************************************************************)
EXTENDS Naturals, FiniteSets

CONSTANTS
    Event,          \* outbox rows, numbered in the order of created_at
    Subscription,   \* ids of webhook subscriptions; an id is used once
    Interested,     \* subscription -> the events whose type it subscribes to
    Worker,         \* publisher processes
    MaxAttempts,    \* next_retry_at gives up from this attempt on (6 in the code)
    BatchSize,      \* webhook_batch_size
    MaxClaims,      \* bound: higher values of attempt_count are not told apart
    MaxCrashes,     \* bound: publisher crashes
    NoJob

Job  == [event : Event, attempt : Nat]
Post == [job : Job, todo : SUBSET Subscription, failed : BOOLEAN]

ASSUME ConstantsAssumption ==
    /\ Event \subseteq Nat
    /\ Interested \in [Subscription -> SUBSET Event]
    /\ MaxAttempts \in Nat /\ BatchSize \in Nat
    /\ MaxClaims \in Nat /\ MaxClaims >= MaxAttempts
    /\ MaxCrashes \in Nat
    /\ NoJob \notin Post

VARIABLES
    recorded,   \* events with a row
    published,  \* events with published_at set
    claimed,    \* event -> claimed_at: none, within the lease, older than it
    retry,      \* event -> retry_at: "due" (NULL or past) or "later"
    attempts,   \* event -> attempt_count
    code,       \* event -> last_error_code: none, an error, or DEAD:...
    subs,       \* subscriptions that exist (all are active)
    gone,       \* subscriptions that were deleted
    batch,      \* worker -> claimed events it has not begun
    current,    \* worker -> the event it is posting
    owed,       \* history: event -> subscriptions of its recording, not deleted since
    received,   \* history: subscription -> events it answered 2xx to
    posts,      \* history: posts tried, by subscription and (id, retry count) headers
    crashes     \* bound counter for MaxCrashes

rowVars    == <<published, claimed, retry, attempts, code>>
subVars    == <<subs, gone>>
workerVars == <<batch, current, crashes>>
history    == <<owed, received, posts>>
vars == <<recorded, rowVars, subVars, workerVars, history>>

TypeOK ==
    /\ recorded \in SUBSET Event
    /\ published \in SUBSET Event
    /\ claimed \in [Event -> {"none", "held", "expired"}]
    /\ retry \in [Event -> {"due", "later"}]
    /\ attempts \in [Event -> Nat]
    /\ code \in [Event -> {"none", "error", "dead"}]
    /\ subs \in SUBSET Subscription
    /\ gone \in SUBSET Subscription
    /\ batch \in [Worker -> SUBSET Job]
    /\ current \in [Worker -> Post \cup {NoJob}]
    /\ owed \in [Event -> SUBSET Subscription]
    /\ received \in [Subscription -> SUBSET Event]
    /\ posts \in SUBSET (Subscription \X Job)
    /\ crashes \in Nat

Init ==
    /\ recorded = {} /\ published = {}
    /\ claimed = [e \in Event |-> "none"]
    /\ retry = [e \in Event |-> "due"]
    /\ attempts = [e \in Event |-> 0]
    /\ code = [e \in Event |-> "none"]
    /\ subs = {} /\ gone = {}
    /\ batch = [w \in Worker |-> {}]
    /\ current = [w \in Worker |-> NoJob]
    /\ owed = [e \in Event |-> {}]
    /\ received = [s \in Subscription |-> {}]
    /\ posts = {}
    /\ crashes = 0

-----------------------------------------------------------------------------
(* The user and the business transactions                                  *)

\* list_active_for_event
Matching(e) == {s \in subs : e \in Interested[s]}

\* The row is inserted in the transaction of the change it tells of.
RecordEvent(e) ==
    /\ e \notin recorded
    /\ recorded' = recorded \cup {e}
    /\ owed' = [owed EXCEPT ![e] = Matching(e)]
    /\ UNCHANGED <<rowVars, subVars, workerVars, received, posts>>

CreateSubscription(s) ==
    /\ s \notin subs \cup gone
    /\ subs' = subs \cup {s}
    /\ UNCHANGED <<recorded, rowVars, gone, workerVars, history>>

DeleteSubscription(s) ==
    /\ s \in subs
    /\ subs' = subs \ {s}
    /\ gone' = gone \cup {s}
    /\ owed' = [e \in Event |-> owed[e] \ {s}]
    /\ UNCHANGED <<recorded, rowVars, workerVars, received, posts>>

-----------------------------------------------------------------------------
(* Timers                                                                  *)

RetryComesDue(e) ==
    /\ retry[e] = "later" /\ e \notin published
    /\ retry' = [retry EXCEPT ![e] = "due"]
    /\ UNCHANGED <<recorded, published, claimed, attempts, code, subVars,
                   workerVars, history>>

LeaseExpires(e) ==
    /\ claimed[e] = "held" /\ e \notin published
    /\ claimed' = [claimed EXCEPT ![e] = "expired"]
    /\ UNCHANGED <<recorded, published, retry, attempts, code, subVars,
                   workerVars, history>>

-----------------------------------------------------------------------------
(* Publishers                                                              *)

Idle(w) == batch[w] = {} /\ current[w] = NoJob

LeftBehind == {e \in recorded \ published : claimed[e] = "expired"}

\* A claim of the events that were never tried.
DueFirstTime == {e \in recorded \ published : claimed[e] = "none" /\ attempts[e] = 0}

\* A row that ran out of attempts has no retry_at, so it is due like a new one.
Due == {e \in recorded \ published : claimed[e] # "held" /\ retry[e] = "due"}

\* ORDER BY created_at, id LIMIT: the due rows that are older than the others.
OldestDue(S) ==
    /\ S \subseteq Due
    /\ \A e \in S, f \in Due \ S : e < f
    /\ \/ Cardinality(S) = BatchSize
       \/ S = Due /\ Cardinality(S) < BatchSize

\* A claim whose count is written when the outcome is recorded.
ClaimNumberLate(e) == attempts[e]

ClaimNumber(e) == IF attempts[e] < MaxClaims THEN attempts[e] + 1 ELSE MaxClaims

\* publish_once up to its commit: recover_expired_leases and claim_batch.
ClaimBatch(w, S) ==
    /\ Idle(w)
    /\ S # {} /\ OldestDue(S)
    /\ claimed' = [e \in Event |-> IF e \in S THEN "held"
                                   ELSE IF e \in LeftBehind THEN "none"
                                   ELSE claimed[e]]
    /\ attempts' = [e \in Event |-> IF e \in S THEN ClaimNumber(e) ELSE attempts[e]]
    /\ batch' = [batch EXCEPT ![w] = {[event |-> e, attempt |-> ClaimNumber(e)] : e \in S}]
    /\ UNCHANGED <<recorded, published, retry, code, subVars, current, crashes, history>>

\* _publish_event reads the subscriptions once, in a transaction of its own.
BeginEvent(w, job) ==
    /\ current[w] = NoJob /\ job \in batch[w]
    /\ batch' = [batch EXCEPT ![w] = @ \ {job}]
    /\ current' = [current EXCEPT ![w] =
                      [job |-> job, todo |-> Matching(job.event), failed |-> FALSE]]
    /\ UNCHANGED <<recorded, rowVars, subVars, crashes, history>>

\* The failures of one attempt that only remember the last subscription.
FailureOfLast(post, ok) == ~ ok

\* failures collects every subscription that did not answer 2xx.
FailureSoFar(post, ok) == post.failed \/ ~ ok

\* _deliver: one POST.  A receiver may have accepted a post whose answer was
\* lost or late; a URL that is no longer allowed is a failure without a post.
Deliver(w, s, ok) ==
    /\ current[w] # NoJob /\ s \in current[w].todo
    /\ current' = [current EXCEPT ![w] =
                      [job |-> @.job, todo |-> @.todo \ {s},
                       failed |-> FailureSoFar(@, ok)]]
    /\ posts' = posts \cup {<<s, current[w].job>>}
    /\ \/ received' = [received EXCEPT ![s] = @ \cup {current[w].job.event}]
       \/ ~ ok /\ received' = received
    /\ UNCHANGED <<recorded, rowVars, subVars, batch, crashes, owed>>

Posted(w) == current[w] # NoJob /\ current[w].todo = {}

\* mark_published, also when nobody subscribes.  The claim is left as it is.
MarkPublished(w) ==
    /\ Posted(w) /\ ~ current[w].failed
    /\ published' = published \cup {current[w].job.event}
    /\ current' = [current EXCEPT ![w] = NoJob]
    /\ UNCHANGED <<recorded, claimed, retry, attempts, code, subVars, batch,
                   crashes, history>>

\* mark_failure: the claim is dropped, whoever holds it by now, and
\* published_at is left alone.  From MaxAttempts on next_retry_at is None and
\* retry_at becomes NULL.
MarkFailure(w) ==
    /\ Posted(w) /\ current[w].failed
    /\ LET e    == current[w].job.event
           last == current[w].job.attempt >= MaxAttempts
       IN  /\ claimed' = [claimed EXCEPT ![e] = "none"]
           /\ retry' = [retry EXCEPT ![e] = IF last THEN "due" ELSE "later"]
           /\ code' = [code EXCEPT ![e] = IF last THEN "dead" ELSE "error"]
    /\ current' = [current EXCEPT ![w] = NoJob]
    /\ UNCHANGED <<recorded, published, attempts, subVars, batch, crashes, history>>

Crash(w) ==
    /\ ~ Idle(w) /\ crashes < MaxCrashes
    /\ crashes' = crashes + 1
    /\ batch' = [batch EXCEPT ![w] = {}]
    /\ current' = [current EXCEPT ![w] = NoJob]
    /\ UNCHANGED <<recorded, rowVars, subVars, history>>

-----------------------------------------------------------------------------
Publish(w) ==
    \/ \E S \in SUBSET Event : ClaimBatch(w, S)
    \/ \E job \in batch[w] : BeginEvent(w, job)
    \/ \E s \in Subscription, ok \in BOOLEAN : Deliver(w, s, ok)
    \/ MarkPublished(w)
    \/ MarkFailure(w)
    \/ Crash(w)

Next ==
    \/ \E e \in Event : RecordEvent(e) \/ RetryComesDue(e) \/ LeaseExpires(e)
    \/ \E s \in Subscription : CreateSubscription(s) \/ DeleteSubscription(s)
    \/ \E w \in Worker : Publish(w)

Spec == Init /\ [][Next]_vars

-----------------------------------------------------------------------------
(* Properties                                                              *)

InFlight(w) == batch[w] \cup (IF current[w] = NoJob THEN {} ELSE {current[w].job})

\* The outbox keeps the promise of AtLeastOnce: an event is published only
\* when every subscription that matched it when it was recorded, and was not
\* deleted since, has accepted it, whichever publishers crash, are late, or
\* retry some of the subscriptions.
Promise == INSTANCE AtLeastOnce
              WITH Receiver <- Subscription, settled <- published

KeepsPromise == Promise!Spec

\* A receiver can recognise a post by X-PA-Event-Id and X-PA-Retry-Count: no
\* publisher is about to send it a post that carries a pair already used
\* (as far as MaxClaims lets the model count).
PostsAreUnique ==
    \A w \in Worker, s \in Subscription :
        \A job \in InFlight(w) :
            /\ <<s, job>> \in posts
            /\ job.attempt < MaxClaims
            => /\ current[w] # NoJob /\ current[w].job = job
               /\ s \notin current[w].todo

\* What GET /webhooks/events calls dead (_event_status).
Dead(e) == e \notin published /\ code[e] = "dead"

\* The publisher "retries with backoff, and drops to dead after the attempt
\* cap": a dead event is not being delivered any more.
DeadIsDropped == \A w \in Worker : \A job \in InFlight(w) : ~ Dead(job.event)

-----------------------------------------------------------------------------
(* Liveness: timers run, and a publisher that is up polls and goes through  *)
(* its batch (run_forever).  Crashes, the user and the receivers' answers   *)
(* are not fair: a receiver may refuse for ever.                            *)

Fairness ==
    /\ \A e \in Event : WF_vars(RetryComesDue(e)) /\ WF_vars(LeaseExpires(e))
    /\ WF_vars(\E w \in Worker, S \in SUBSET Event : ClaimBatch(w, S))
    /\ \A w \in Worker :
           /\ WF_vars(\E job \in batch[w] : BeginEvent(w, job))
           /\ WF_vars(\E s \in Subscription, ok \in BOOLEAN : Deliver(w, s, ok))
           /\ WF_vars(MarkPublished(w))
           /\ WF_vars(MarkFailure(w))

FairSpec == Spec /\ Fairness

\* No event is forgotten: every recorded event ends up published or dead,
\* whichever publishers crash (finitely often) or outlive their lease.  It
\* holds while the events fit in one batch.  It fails with more: rows that
\* are out of attempts stay due and older than the others, and a batch of
\* them is claimed again and again, although events are promised to be
\* delivered "at-least-once" (020_event_outbox.sql).
EventSettles ==
    \A e \in Event : e \in recorded ~> e \in published \/ code[e] = "dead"
=============================================================================
