-------------------------- MODULE EventOutbox_proofs --------------------------
(***************************************************************************)
(* Proofs about EventOutbox, for any number of events, subscriptions and    *)
(* publishers, any batch size and any caps: its types, that it implements   *)
(* AtLeastOnce, and that a receiver can tell two posts apart.               *)
(***************************************************************************)
EXTENDS EventOutbox, TLAPS

-----------------------------------------------------------------------------
(* Types                                                                   *)

LEMMA ClaimNumberType ==
    ASSUME TypeOK, NEW e \in Event
    PROVE  ClaimNumber(e) \in Nat
  BY ConstantsAssumption DEF TypeOK, ClaimNumber

LEMMA ClaimBatchType ==
    ASSUME TypeOK, NEW w \in Worker, NEW S \in SUBSET Event, ClaimBatch(w, S)
    PROVE  TypeOK'
<1>1. {[event |-> e, attempt |-> ClaimNumber(e)] : e \in S} \subseteq Job
  BY ClaimNumberType DEF Job
<1>2. batch' \in [Worker -> SUBSET Job]
  BY <1>1 DEF ClaimBatch, TypeOK
<1>3. attempts' \in [Event -> Nat]
  BY ClaimNumberType DEF ClaimBatch, TypeOK
<1>4. claimed' \in [Event -> {"none", "held", "expired"}]
  BY DEF ClaimBatch, TypeOK
<1>5. QED
  BY <1>2, <1>3, <1>4 DEF ClaimBatch, TypeOK, subVars, history

LEMMA DeliverType ==
    ASSUME TypeOK, NEW w \in Worker, NEW s \in Subscription, NEW ok \in BOOLEAN,
           Deliver(w, s, ok)
    PROVE  TypeOK'
<1>1. current[w] \in Post /\ current[w].job \in Job
  BY DEF Deliver, TypeOK, Post
<1>2. FailureSoFar(current[w], ok) \in BOOLEAN
  BY <1>1 DEF FailureSoFar, Post
<1>3. current' \in [Worker -> Post \cup {NoJob}]
  BY <1>1, <1>2 DEF Deliver, TypeOK, Post
<1>4. posts' \in SUBSET (Subscription \X Job)
  BY <1>1 DEF Deliver, TypeOK
<1>5. received' \in [Subscription -> SUBSET Event]
  BY <1>1 DEF Deliver, TypeOK, Job
<1>6. QED
  BY <1>3, <1>4, <1>5 DEF Deliver, TypeOK, rowVars, subVars

LEMMA TypeStep == TypeOK /\ [Next]_vars => TypeOK'
<1> SUFFICES ASSUME TypeOK, [Next]_vars PROVE TypeOK'
  OBVIOUS
<1> USE DEF rowVars, subVars, workerVars, history
<1>1. ASSUME NEW e \in Event, RecordEvent(e) \/ RetryComesDue(e) \/ LeaseExpires(e)
      PROVE  TypeOK'
  BY <1>1 DEF RecordEvent, RetryComesDue, LeaseExpires, Matching, TypeOK
<1>2. ASSUME NEW s \in Subscription, CreateSubscription(s) \/ DeleteSubscription(s)
      PROVE  TypeOK'
  BY <1>2 DEF CreateSubscription, DeleteSubscription, TypeOK
<1>3. ASSUME NEW w \in Worker, NEW S \in SUBSET Event, ClaimBatch(w, S) PROVE TypeOK'
  BY <1>3, ClaimBatchType
<1>4. ASSUME NEW w \in Worker, NEW job \in batch[w], BeginEvent(w, job) PROVE TypeOK'
  <2>1. job \in Job
    BY DEF TypeOK
  <2>2. [job |-> job, todo |-> Matching(job.event), failed |-> FALSE] \in Post
    BY <2>1 DEF Matching, Post, TypeOK
  <2>3. QED
    BY <1>4, <2>2 DEF BeginEvent, TypeOK
<1>5. ASSUME NEW w \in Worker, NEW s \in Subscription, NEW ok \in BOOLEAN,
             Deliver(w, s, ok)
      PROVE  TypeOK'
  BY <1>5, DeliverType
<1>6. ASSUME NEW w \in Worker, MarkPublished(w) \/ MarkFailure(w) PROVE TypeOK'
  <2>1. current[w] \in Post /\ current[w].job.event \in Event
    BY <1>6 DEF MarkPublished, MarkFailure, Posted, TypeOK, Post, Job
  <2>2. QED
    BY <1>6, <2>1 DEF MarkPublished, MarkFailure, TypeOK
<1>7. ASSUME NEW w \in Worker, Crash(w) PROVE TypeOK'
  BY <1>7 DEF Crash, TypeOK
<1>8. CASE UNCHANGED vars
  BY <1>8 DEF vars, TypeOK
<1>9. QED
  BY <1>1, <1>2, <1>3, <1>4, <1>5, <1>6, <1>7, <1>8 DEF Next, Publish

LEMMA TypeInit == Init => TypeOK
  BY DEF Init, TypeOK

\* Every variable keeps its type.
THEOREM TypeCorrectness == Spec => []TypeOK
  BY TypeInit, TypeStep, PTL DEF Spec

-----------------------------------------------------------------------------
(* The promise.  A publisher publishes on what it remembers of one attempt: *)
(* for that to be enough, every subscription the event is owed to must be   *)
(* one it still has to post to, one that failed, or one that accepted it.   *)

\* An event is owed only to subscriptions that a publisher finds when it
\* looks for the matching ones, at any time after the recording.
OwedMatch == \A e \in Event : owed[e] \subseteq Matching(e)

\* Publishers work on recorded events, and skip nobody the event is owed to.
NobodySkipped ==
    \A w \in Worker :
        /\ \A job \in batch[w] : job.event \in recorded
        /\ current[w] # NoJob =>
               LET e == current[w].job.event
               IN  /\ e \in recorded
                   /\ \/ current[w].failed
                      \/ \A s \in owed[e] : s \in current[w].todo \/ e \in received[s]

PromiseInv == TypeOK /\ OwedMatch /\ NobodySkipped

LEMMA OwedMatchStep == PromiseInv /\ [Next]_vars => OwedMatch'
<1> SUFFICES ASSUME PromiseInv, [Next]_vars PROVE OwedMatch'
  OBVIOUS
<1> USE DEF rowVars, subVars, workerVars, history
<1>1. TypeOK /\ OwedMatch
  BY DEF PromiseInv
<1>2. CASE owed' = owed /\ subs \subseteq subs'
  BY <1>1, <1>2 DEF OwedMatch, Matching, TypeOK
<1>3. ASSUME NEW e \in Event, RecordEvent(e) PROVE OwedMatch'
  BY <1>1, <1>3 DEF RecordEvent, OwedMatch, Matching, TypeOK
<1>4. ASSUME NEW s \in Subscription, DeleteSubscription(s) PROVE OwedMatch'
  BY <1>1, <1>4 DEF DeleteSubscription, OwedMatch, Matching, TypeOK
<1>5. QED
  BY <1>2, <1>3, <1>4
  DEF Next, Publish, RetryComesDue, LeaseExpires, CreateSubscription, ClaimBatch,
      BeginEvent, Deliver, MarkPublished, MarkFailure, Crash, vars

LEMMA NobodySkippedStep == PromiseInv /\ [Next]_vars => NobodySkipped'
<1> SUFFICES ASSUME PromiseInv, [Next]_vars PROVE NobodySkipped'
  OBVIOUS
<1> USE DEF rowVars, subVars, workerVars, history
<1>1. TypeOK /\ OwedMatch /\ NobodySkipped
  BY DEF PromiseInv
<1>2. \A v \in Worker : current[v] # NoJob =>
          /\ current[v] \in Post /\ current[v].job.event \in Event
          /\ current[v].todo \in SUBSET Subscription
  BY <1>1 DEF TypeOK, Post, Job
<1>3. CASE UNCHANGED <<recorded, batch, current, owed, received>>
  BY <1>1, <1>3 DEF NobodySkipped
<1>4. ASSUME NEW e \in Event, RecordEvent(e) PROVE NobodySkipped'
  BY <1>1, <1>2, <1>4 DEF RecordEvent, NobodySkipped, TypeOK
<1>5. ASSUME NEW s \in Subscription, DeleteSubscription(s) PROVE NobodySkipped'
  BY <1>1, <1>2, <1>5 DEF DeleteSubscription, NobodySkipped, TypeOK
<1>6. ASSUME NEW w \in Worker, NEW S \in SUBSET Event, ClaimBatch(w, S)
      PROVE  NobodySkipped'
  <2>1. S \subseteq recorded
    BY <1>6 DEF ClaimBatch, OldestDue, Due
  <2>2. QED
    BY <1>1, <1>6, <2>1 DEF ClaimBatch, NobodySkipped, TypeOK
<1>7. ASSUME NEW w \in Worker, NEW job \in batch[w], BeginEvent(w, job)
      PROVE  NobodySkipped'
  <2>1. job \in Job /\ job.event \in recorded
    BY <1>1 DEF NobodySkipped, TypeOK
  <2>2. owed[job.event] \subseteq Matching(job.event)
    BY <1>1, <2>1 DEF OwedMatch, Job
  <2>3. QED
    BY <1>1, <1>2, <1>7, <2>1, <2>2 DEF BeginEvent, NobodySkipped, TypeOK
<1>8. ASSUME NEW w \in Worker, NEW s \in Subscription, NEW ok \in BOOLEAN,
             Deliver(w, s, ok)
      PROVE  NobodySkipped'
  <2>1. current[w] \in Post /\ ok \in BOOLEAN
    BY <1>2, <1>8 DEF Deliver
  <2>2. \A t \in Subscription : received[t] \subseteq received'[t]
    BY <1>1, <1>8 DEF Deliver, TypeOK
  <2>3. current'[w] = [job |-> current[w].job, todo |-> current[w].todo \ {s},
                       failed |-> FailureSoFar(current[w], ok)]
    BY <1>1, <1>8 DEF Deliver, TypeOK
  <2>4. \A v \in Worker : v # w => current'[v] = current[v]
    BY <1>1, <1>8 DEF Deliver, TypeOK
  <2>5. recorded' = recorded /\ batch' = batch /\ owed' = owed
    BY <1>8 DEF Deliver
  <2>6. ok => current[w].job.event \in received'[s]
    BY <1>1, <1>8 DEF Deliver, TypeOK
  <2>7. \A e \in Event : owed[e] \subseteq Subscription
    BY <1>1 DEF TypeOK
  <2>8. ASSUME NEW v \in Worker, v # w, current[v] # NoJob,
               ~ current[v].failed,
               NEW t \in owed[current[v].job.event]
        PROVE  t \in current[v].todo \/ current[v].job.event \in received'[t]
    BY <1>1, <1>2, <2>2, <2>7, <2>8 DEF NobodySkipped
  <2>9. ASSUME ~ FailureSoFar(current[w], ok), NEW t \in owed[current[w].job.event]
        PROVE  t \in current[w].todo \ {s} \/ current[w].job.event \in received'[t]
    BY <1>1, <1>2, <1>8, <2>1, <2>2, <2>6, <2>7, <2>9
    DEF NobodySkipped, FailureSoFar, Deliver
  <2>10. QED
    BY <1>1, <1>8, <2>3, <2>4, <2>5, <2>8, <2>9 DEF NobodySkipped, Deliver
<1>9. ASSUME NEW w \in Worker, MarkPublished(w) \/ MarkFailure(w) \/ Crash(w)
      PROVE  NobodySkipped'
  BY <1>1, <1>9 DEF MarkPublished, MarkFailure, Crash, NobodySkipped, TypeOK
<1>10. QED
  BY <1>3, <1>4, <1>5, <1>6, <1>7, <1>8, <1>9
  DEF Next, Publish, RetryComesDue, LeaseExpires, CreateSubscription, vars

LEMMA PromiseInvariant == Spec => []PromiseInv
<1>1. Init => PromiseInv
  BY TypeInit DEF Init, PromiseInv, OwedMatch, NobodySkipped
<1>2. PromiseInv /\ [Next]_vars => PromiseInv'
  BY TypeStep, OwedMatchStep, NobodySkippedStep DEF PromiseInv
<1>3. QED
  BY <1>1, <1>2, PTL DEF Spec

\* Recording, leaving, receiving and settling are the steps a receiver can
\* tell; claims, leases, retries and crashes are stutters.
LEMMA PromiseStep == PromiseInv /\ [Next]_vars => [Promise!Next]_(Promise!vars)
<1> SUFFICES ASSUME PromiseInv, [Next]_vars PROVE [Promise!Next]_(Promise!vars)
  OBVIOUS
<1> USE DEF rowVars, subVars, workerVars, history
<1>1. CASE UNCHANGED <<recorded, owed, received, published>>
  BY <1>1 DEF Promise!vars
<1>2. ASSUME NEW e \in Event, RecordEvent(e) PROVE Promise!Next
  <2>1. Promise!Record(e, Matching(e))
    BY <1>2 DEF RecordEvent, Promise!Record
  <2>2. Matching(e) \in SUBSET Subscription
    BY DEF Matching, PromiseInv, TypeOK
  <2>3. QED
    BY <2>1, <2>2 DEF Promise!Next
<1>3. ASSUME NEW s \in Subscription, DeleteSubscription(s) PROVE Promise!Next
  BY <1>3 DEF DeleteSubscription, Promise!Leave, Promise!Next
<1>4. ASSUME NEW w \in Worker, NEW s \in Subscription, NEW ok \in BOOLEAN,
             Deliver(w, s, ok)
      PROVE  [Promise!Next]_(Promise!vars)
  <2>1. current[w].job.event \in recorded \cap Event
    BY <1>4 DEF Deliver, PromiseInv, NobodySkipped, TypeOK, Post, Job
  <2>2. CASE received' = received
    BY <1>4, <2>2 DEF Deliver, Promise!vars
  <2>3. CASE received' # received
    BY <1>4, <2>1, <2>3 DEF Deliver, Promise!Receive, Promise!Next
  <2>4. QED
    BY <2>2, <2>3
<1>5. ASSUME NEW w \in Worker, MarkPublished(w) PROVE Promise!Next
  <2> DEFINE e == current[w].job.event
  <2>1. e \in recorded \cap Event
    BY <1>5 DEF MarkPublished, Posted, PromiseInv, NobodySkipped, TypeOK, Post, Job
  <2>2. \A s \in owed[e] : e \in received[s]
    BY <1>5 DEF MarkPublished, Posted, PromiseInv, NobodySkipped
  <2>3. Promise!Settle(e)
    BY <1>5, <2>1, <2>2 DEF MarkPublished, Promise!Settle
  <2>4. QED
    BY <2>1, <2>3 DEF Promise!Next
<1>6. QED
  BY <1>1, <1>2, <1>3, <1>4, <1>5
  DEF Next, Publish, RetryComesDue, LeaseExpires, CreateSubscription, ClaimBatch,
      BeginEvent, MarkFailure, Crash, vars

\* The outbox implements the promise: an event counts as published only when
\* every subscription it is owed to has accepted it.
THEOREM OutboxKeepsPromise == Spec => KeepsPromise
<1>1. Init => Promise!Init
  BY DEF Init, Promise!Init
<1>2. QED
  BY <1>1, PromiseInvariant, PromiseStep, PTL DEF Spec, KeepsPromise, Promise!Spec

-----------------------------------------------------------------------------
(* Posts.  Below MaxClaims a claim's number is new for its event, so it is  *)
(* above whatever was claimed or posted before.                             *)

\* Claims and posts were numbered by attempt_count, each by one claim.
PostsNumbered ==
    /\ \A e \in Event : attempts[e] <= MaxClaims
    /\ \A p \in posts : p[2].attempt <= attempts[p[2].event]
    /\ \A w \in Worker :
           /\ \A job \in InFlight(w) : job.attempt <= attempts[job.event]
           /\ current[w] # NoJob => current[w].job \notin batch[w]
    /\ \A v, w \in Worker : v # w =>
           \A job \in InFlight(v) \cap InFlight(w) : job.attempt >= MaxClaims

PostInv == TypeOK /\ PostsNumbered /\ PostsAreUnique

LEMMA ClaimBatchPosts ==
    ASSUME PostInv, NEW w \in Worker, NEW S \in SUBSET Event, ClaimBatch(w, S)
    PROVE  PostsNumbered' /\ PostsAreUnique'
<1>1. TypeOK /\ PostsNumbered /\ PostsAreUnique /\ TypeOK'
  BY ClaimBatchType DEF PostInv
<1>2. /\ current' = current /\ posts' = posts
      /\ current[w] = NoJob
      /\ \A v \in Worker : v # w => batch'[v] = batch[v]
      /\ batch'[w] = {[event |-> e, attempt |-> ClaimNumber(e)] : e \in S}
  BY <1>1 DEF ClaimBatch, Idle, TypeOK, history
<1>3. \A e \in Event : /\ attempts[e] \in Nat /\ attempts'[e] \in Nat
                       /\ attempts[e] <= attempts'[e] /\ attempts'[e] <= MaxClaims
                       /\ attempts'[e] < MaxClaims /\ e \in S => attempts[e] < attempts'[e]
                       /\ e \in S => attempts'[e] = ClaimNumber(e)
  BY <1>1, ConstantsAssumption DEF ClaimBatch, ClaimNumber, PostsNumbered, TypeOK
<1>4. \A v \in Worker : InFlight(v) \subseteq Job /\ (v # w => InFlight(v)' = InFlight(v))
  BY <1>1, <1>2 DEF InFlight, TypeOK, Post
<1>5. InFlight(w)' = {[event |-> e, attempt |-> ClaimNumber(e)] : e \in S}
  BY <1>2 DEF InFlight
<1>6. \A job \in InFlight(w)' : /\ job.event \in S /\ job.attempt = attempts'[job.event]
  BY <1>3, <1>5
<1>7. \A job \in InFlight(w)' : job.attempt < MaxClaims =>
          /\ \A p \in posts : p[2] # job
          /\ \A v \in Worker : v # w => job \notin InFlight(v)
  <2> TAKE job \in InFlight(w)'
  <2> HAVE job.attempt < MaxClaims
  <2>1. attempts[job.event] < job.attempt
    BY <1>3, <1>6
  <2>2. job.event \in Event /\ attempts[job.event] \in Nat /\ job.attempt \in Nat
    BY <1>3, <1>6
  <2>3. QED
    BY <1>1, <2>1, <2>2 DEF PostsNumbered
<1>8. PostsNumbered'
  <2>1. \A p \in posts : p[2] \in Job
    BY <1>1 DEF TypeOK
  <2>2. \A p \in posts' : p[2].attempt <= attempts'[p[2].event]
    BY <1>1, <1>2, <1>3, <2>1 DEF PostsNumbered, Job
  <2>3. \A v \in Worker : \A job \in InFlight(v)' : job.attempt <= attempts'[job.event]
    BY <1>1, <1>3, <1>4, <1>6 DEF PostsNumbered, Job
  <2>4. \A u, v \in Worker : u # v =>
            \A job \in InFlight(u)' \cap InFlight(v)' : job.attempt >= MaxClaims
    BY <1>1, <1>3, <1>4, <1>6, <1>7, ConstantsAssumption DEF PostsNumbered
  <2>5. QED
    BY <1>1, <1>2, <1>3, <2>2, <2>3, <2>4 DEF PostsNumbered
<1>9. PostsAreUnique'
  BY <1>1, <1>2, <1>4, <1>7 DEF PostsAreUnique
<1>10. QED
  BY <1>8, <1>9

\* A step that makes no claim and no post, and shortens what publishers hold.
LEMMA PostsKept ==
    ASSUME PostInv,
           attempts' = attempts, posts' = posts,
           \A v \in Worker : /\ batch'[v] \subseteq batch[v]
                             /\ current'[v] \in {current[v], NoJob}
    PROVE  PostsNumbered' /\ PostsAreUnique'
  BY DEF PostInv, PostsNumbered, PostsAreUnique, InFlight

LEMMA BeginEventPosts ==
    ASSUME PostInv, NEW w \in Worker, NEW job \in batch[w], BeginEvent(w, job)
    PROVE  PostsNumbered' /\ PostsAreUnique'
<1>1. TypeOK /\ PostsNumbered /\ PostsAreUnique /\ job \in Job
  BY DEF PostInv, TypeOK
<1>2. /\ attempts' = attempts /\ posts' = posts
      /\ \A v \in Worker : v # w => batch'[v] = batch[v] /\ current'[v] = current[v]
      /\ current[w] = NoJob
      /\ batch'[w] = batch[w] \ {job}
      /\ current'[w] = [job |-> job, todo |-> Matching(job.event), failed |-> FALSE]
  BY <1>1 DEF BeginEvent, TypeOK, rowVars, history
<1>3. current'[w] # NoJob
  <2>1. [job |-> job, todo |-> Matching(job.event), failed |-> FALSE] \in Post
    BY <1>1 DEF Matching, TypeOK, Post
  <2>2. QED
    BY <1>2, <2>1, ConstantsAssumption
<1>4. \A v \in Worker : InFlight(v)' = InFlight(v)
  BY <1>2, <1>3 DEF InFlight
<1>5. PostsNumbered'
  BY <1>1, <1>2, <1>4 DEF PostsNumbered
<1>6. \A s \in Subscription : job.attempt < MaxClaims => <<s, job>> \notin posts
  BY <1>1, <1>2 DEF PostsAreUnique, InFlight
<1>7. PostsAreUnique'
  BY <1>1, <1>2, <1>3, <1>4, <1>6 DEF PostsAreUnique
<1>8. QED
  BY <1>5, <1>7

LEMMA DeliverPosts ==
    ASSUME PostInv, NEW w \in Worker, NEW s \in Subscription, NEW ok \in BOOLEAN,
           Deliver(w, s, ok)
    PROVE  PostsNumbered' /\ PostsAreUnique'
<1>1. TypeOK /\ PostsNumbered /\ PostsAreUnique
  BY DEF PostInv
<1>2. current[w] \in Post /\ current[w] # NoJob /\ current[w].job \in Job
  BY <1>1 DEF Deliver, TypeOK, Post
<1>3. /\ attempts' = attempts /\ batch' = batch
      /\ posts' = posts \cup {<<s, current[w].job>>}
      /\ \A v \in Worker : v # w => current'[v] = current[v]
      /\ current'[w].job = current[w].job
      /\ current'[w].todo = current[w].todo \ {s}
  BY <1>1 DEF Deliver, TypeOK, rowVars
<1>4. current'[w] \in Post
  BY <1>1, <1>2 DEF Deliver, TypeOK, Post, FailureSoFar
<1>5. current'[w] # NoJob
  BY <1>4, ConstantsAssumption
<1>6. \A v \in Worker : InFlight(v)' = InFlight(v)
  BY <1>2, <1>3, <1>5 DEF InFlight
<1>7. current[w].job \in InFlight(w)
  BY <1>2 DEF InFlight
<1>8. PostsNumbered'
  BY <1>1, <1>2, <1>3, <1>5, <1>6, <1>7 DEF PostsNumbered
<1>9. PostsAreUnique'
  <2> SUFFICES ASSUME NEW v \in Worker, NEW t \in Subscription, NEW job \in InFlight(v),
                      <<t, job>> \in posts', job.attempt < MaxClaims
               PROVE  /\ current'[v] # NoJob /\ current'[v].job = job
                      /\ t \notin current'[v].todo
    BY <1>6 DEF PostsAreUnique
  <2>1. CASE <<t, job>> \in posts
    BY <1>1, <1>3, <1>5, <2>1 DEF PostsAreUnique
  <2>2. CASE t = s /\ job = current[w].job
    <3>1. v = w
      BY <1>1, <1>2, <1>7, <2>2, ConstantsAssumption DEF PostsNumbered, Job
    <3>2. QED
      BY <1>3, <1>5, <2>2, <3>1
  <2>3. QED
    BY <1>3, <2>1, <2>2
<1>10. QED
  BY <1>8, <1>9

LEMMA PostInvStep == PostInv /\ [Next]_vars => PostInv'
<1> SUFFICES ASSUME PostInv, [Next]_vars PROVE PostsNumbered' /\ PostsAreUnique'
  BY TypeStep DEF PostInv
<1> USE DEF rowVars, subVars, workerVars, history
<1>1. TypeOK
  BY DEF PostInv
<1>2. CASE UNCHANGED <<attempts, posts, batch, current>>
  BY <1>2, PostsKept
<1>3. ASSUME NEW w \in Worker, MarkPublished(w) \/ MarkFailure(w) \/ Crash(w)
      PROVE  PostsNumbered' /\ PostsAreUnique'
  <2>1. /\ attempts' = attempts /\ posts' = posts
        /\ \A v \in Worker : /\ batch'[v] \subseteq batch[v]
                             /\ current'[v] \in {current[v], NoJob}
    BY <1>1, <1>3 DEF MarkPublished, MarkFailure, Crash, TypeOK
  <2>2. QED
    BY <2>1, PostsKept
<1>4. QED
  BY <1>2, <1>3, ClaimBatchPosts, BeginEventPosts, DeliverPosts
  DEF Next, Publish, RecordEvent, RetryComesDue, LeaseExpires, CreateSubscription,
      DeleteSubscription, vars

\* No two posts to a subscription carry the same event id and retry count,
\* whatever leases expire and whichever publishers crash.
THEOREM PostsNeverRepeat == Spec => []PostsAreUnique
<1>1. Init => PostInv
  BY TypeInit, ConstantsAssumption
  DEF Init, PostInv, PostsNumbered, PostsAreUnique, InFlight
<1>2. PostInv => PostsAreUnique
  BY DEF PostInv
<1>3. QED
  BY <1>1, <1>2, PostInvStep, PTL DEF Spec
=============================================================================
