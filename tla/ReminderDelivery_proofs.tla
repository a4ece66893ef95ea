----------------------- MODULE ReminderDelivery_proofs -----------------------
(***************************************************************************)
(* Proofs about ReminderDelivery, for every set of items, reminders,        *)
(* channels and workers and every value of the bounds.                      *)
(***************************************************************************)
EXTENDS ReminderDelivery, TLAPS

-----------------------------------------------------------------------------
(* Type correctness                                                        *)

LEMMA CancelledType ==
    ASSUME TypeOK, NEW S
    PROVE  Cancelled(S) \in [Delivery -> Statuses]
BY DEF TypeOK, Cancelled, Statuses

\* The API requests keep every variable in its type.
LEMMA ItemRequestType ==
    ASSUME TypeOK, NEW i \in Item, ItemRequest(i)
    PROVE  TypeOK'
<1> USE DEF TypeOK, itemVars, reminderVars, rowVars, workerVars
<1>1. CASE Close(i)
  BY <1>1, CancelledType DEF Close
<1>2. ASSUME NEW j \in Item, CompleteRecurring(i, j) PROVE TypeOK'
  BY <1>2, CancelledType DEF CompleteRecurring, FreshReminder
<1>3. CASE Reopen(i)
  BY <1>3 DEF Reopen
<1>4. ASSUME NEW flag \in BOOLEAN, SetArchive(i, flag) PROVE TypeOK'
  BY <1>4 DEF SetArchive
<1>5. CASE DeleteReminder(i)
  BY <1>5, CancelledType DEF DeleteReminder, Deactivate
<1>6. CASE SoftDelete(i)
  BY <1>6, CancelledType DEF SoftDelete, Deactivate
<1>7. CASE RestoreDeleted(i)
  BY <1>7 DEF RestoreDeleted
<1>8. CASE Purge(i)
  BY <1>8 DEF Purge, Statuses
<1>9. QED
  BY <1>1, <1>2, <1>3, <1>4, <1>5, <1>6, <1>7, <1>8 DEF ItemRequest

LEMMA PutRequestType ==
    ASSUME TypeOK, NEW i \in Item, PutRequest(i)
    PROVE  TypeOK'
<1> USE DEF TypeOK, itemVars, reminderVars, rowVars, workerVars
<1>1. ASSUME NEW r \in Reminder, NEW t \in Instant, NEW chs \in SUBSET Channel,
             PutBegin(i, r, t, chs)
      PROVE  TypeOK'
  <2>1. [reminder |-> r, at |-> t, channels |-> chs, parked |-> Parked(i)] \in Put
    BY DEF Put, Parked
  <2>2. QED
    BY <1>1, <2>1 DEF PutBegin
<1>2. CASE PutAbort(i)
  BY <1>2 DEF PutAbort
<1>3. CASE PutFinishParked(i)
  BY <1>3, CancelledType DEF PutFinishParked, Put
<1>4. CASE PutFinish(i)
  <2>1. Cancelled(Replaced(i)) \in [Delivery -> Statuses]
    BY CancelledType
  <2>2. QED
    BY <1>4, <2>1 DEF PutFinish, Put, Statuses, AttemptsAfterRearm
<1>5. QED
  BY <1>1, <1>2, <1>3, <1>4 DEF PutRequest

LEMMA DeliveryStepType ==
    ASSUME TypeOK, NEW d \in Delivery, DeliveryRequest(d) \/ Timer(d)
    PROVE  TypeOK'
BY DEF TypeOK, itemVars, reminderVars, rowVars, workerVars, DeliveryRequest, Timer,
       Acknowledge, Snooze, RetryDead, BackoffElapses, LeaseExpires, Statuses

LEMMA WorkType ==
    ASSUME TypeOK, NEW w \in Worker, Work(w)
    PROVE  TypeOK'
<1> USE DEF TypeOK, itemVars, reminderVars, rowVars, workerVars
<1>1. ASSUME NEW S \in SUBSET Delivery, ClaimDue(w, S) PROVE TypeOK'
  <2>1. {[delivery |-> d, attempt |-> ClaimNumber(d)] : d \in S} \in SUBSET Job
    BY DEF Job, ClaimNumber
  <2>2. QED
    BY <1>1, <2>1 DEF ClaimDue, ClaimNumber, Statuses
<1>2. ASSUME NEW job \in batch[w], NEW result \in Result, Send(w, job, result)
      PROVE  TypeOK'
  <2>1. [job |-> job, result |-> result] \in Outcome /\ job.delivery \in Delivery
    BY DEF Outcome, Job
  <2>2. QED
    BY <1>2, <2>1 DEF Send
<1>3. CASE sent[w] # NoJob /\ Record(w)
  <2>1. sent[w].job.delivery \in Delivery
    BY <1>3 DEF Outcome, Job
  <2>2. CASE MarkDelivered(w)
    BY <2>1, <2>2 DEF MarkDelivered, Marked, Statuses
  <2>3. CASE MarkRetry(w)
    BY <2>1, <2>3 DEF MarkRetry, Marked, Statuses
  <2>4. CASE MarkDead(w)
    BY <2>1, <2>4 DEF MarkDead, Marked, FailureEvents, Statuses
  <2>5. QED
    BY <1>3, <2>2, <2>3, <2>4 DEF Record
<1>4. CASE Crash(w)
  BY <1>4 DEF Crash
<1>5. Record(w) => sent[w] # NoJob
  BY DEF Record, MarkDelivered, MarkRetry, MarkDead
<1>6. QED
  BY <1>1, <1>2, <1>3, <1>4, <1>5 DEF Work

LEMMA NextType == TypeOK /\ [Next]_vars => TypeOK'
<1> SUFFICES ASSUME TypeOK, [Next]_vars PROVE TypeOK'
  OBVIOUS
<1>1. CASE Tick
  BY <1>1, ConstantsAssumption
  DEF TypeOK, Tick, itemVars, reminderVars, rowVars, workerVars
<1>2. CASE UNCHANGED vars
  BY <1>2 DEF TypeOK, vars, itemVars, reminderVars, rowVars, workerVars
<1>3. QED
  BY <1>1, <1>2, ItemRequestType, PutRequestType, DeliveryStepType, WorkType DEF Next

LEMMA InitType == Init => TypeOK
BY ConstantsAssumption DEF Init, TypeOK, Statuses

\* Every variable of the model keeps its type, whatever the requests, the
\* workers and the timers do.
THEOREM TypeCorrectness == Spec => []TypeOK
BY InitType, NextType, PTL DEF Spec
-----------------------------------------------------------------------------
(* Claims.  ClaimsDistinct is not inductive: a new claim is distinct from   *)
(* the claims in flight because attempt_count never falls below any of them.*)

ClaimsNumbered ==
    \A w \in Worker : \A job \in InFlight(w) : job.attempt <= attempts[job.delivery]

ClaimInv == TypeOK /\ ClaimsNumbered /\ ClaimsDistinct

\* What every action but a claim does: no worker gains a job, and no
\* attempt_count goes down.
LEMMA ClaimInvPreserved ==
    ASSUME ClaimInv, TypeOK',
           \A w \in Worker : InFlight(w)' \subseteq InFlight(w),
           \A d \in Delivery : attempts'[d] >= attempts[d]
    PROVE  ClaimInv'
<1>1. ASSUME NEW w \in Worker, NEW job \in InFlight(w)'
      PROVE  job.attempt <= attempts'[job.delivery]
  <2>1. job \in InFlight(w)
    OBVIOUS
  <2>2. job \in Job
    BY <2>1 DEF ClaimInv, TypeOK, InFlight, Outcome
  <2>3. /\ job.attempt <= attempts[job.delivery]
        /\ job.attempt \in Nat /\ job.delivery \in Delivery
    BY <2>1, <2>2 DEF ClaimInv, ClaimsNumbered, Job
  <2>4. attempts[job.delivery] \in Nat /\ attempts'[job.delivery] \in Nat
    BY <2>3 DEF ClaimInv, TypeOK
  <2>5. QED
    BY <2>3, <2>4
<1>2. ClaimsNumbered'
  BY <1>1 DEF ClaimsNumbered
<1>3. ClaimsDistinct'
  BY DEF ClaimInv, ClaimsDistinct
<1>4. QED
  BY <1>2, <1>3 DEF ClaimInv

LEMMA ClaimDuePreserves ==
    ASSUME ClaimInv, NEW w \in Worker, NEW S \in SUBSET Delivery, ClaimDue(w, S)
    PROVE  ClaimsNumbered' /\ ClaimsDistinct'
<1> DEFINE New == {[delivery |-> d, attempt |-> attempts[d] + 1] : d \in S}
<1>1. /\ InFlight(w)' = New
      /\ \A v \in Worker : v # w => InFlight(v)' = InFlight(v)
  BY DEF ClaimDue, ClaimInv, TypeOK, InFlight, Idle, ClaimNumber
<1>2. \A d \in Delivery : attempts'[d] = IF d \in S THEN attempts[d] + 1 ELSE attempts[d]
  BY DEF ClaimDue, ClaimNumber
<1>3. \A d \in Delivery : attempts[d] \in Nat
  BY DEF ClaimInv, TypeOK
<1>4. \A v \in Worker : \A job \in InFlight(v) :
        /\ job.delivery \in Delivery /\ job.attempt \in Nat
        /\ job.attempt <= attempts[job.delivery]
  <2>1. \A v \in Worker : InFlight(v) \subseteq Job
    BY DEF ClaimInv, TypeOK, InFlight, Outcome
  <2>2. QED
    BY <2>1 DEF ClaimInv, ClaimsNumbered, Job
<1>5. ClaimsNumbered'
  <2>1. SUFFICES ASSUME NEW v \in Worker, NEW job \in InFlight(v)'
                 PROVE  job.attempt <= attempts'[job.delivery]
    BY DEF ClaimsNumbered
  <2>2. CASE v = w
    <3>1. PICK d \in S : job = [delivery |-> d, attempt |-> attempts[d] + 1]
      BY <1>1, <2>2
    <3>2. QED
      BY <3>1, <1>2, <1>3
  <2>3. CASE v # w
    <3>1. job \in InFlight(v)
      BY <1>1, <2>3
    <3>2. QED
      BY <3>1, <1>2, <1>3, <1>4
  <2>4. QED
    BY <2>2, <2>3
<1>6. \A v \in Worker : v # w => InFlight(v) \cap New = {}
  <2>1. SUFFICES ASSUME NEW v \in Worker, NEW d \in S,
                        [delivery |-> d, attempt |-> attempts[d] + 1] \in InFlight(v)
                 PROVE  FALSE
    OBVIOUS
  <2>2. attempts[d] + 1 <= attempts[d]
    BY <1>4, <2>1
  <2>3. QED
    BY <2>2, <1>3
<1>7. ClaimsDistinct'
  BY <1>1, <1>6 DEF ClaimInv, ClaimsDistinct
<1>8. QED
  BY <1>5, <1>7

LEMMA ClaimInvStep == ClaimInv /\ [Next]_vars => ClaimInv'
<1> SUFFICES ASSUME ClaimInv, [Next]_vars PROVE ClaimInv'
  OBVIOUS
<1> USE DEF itemVars, reminderVars, rowVars, workerVars, InFlight
<1>1. TypeOK /\ TypeOK'
  BY NextType DEF ClaimInv
<1>2. \A d \in Delivery : attempts[d] \in Nat
  BY <1>1 DEF TypeOK
<1> DEFINE Kept == /\ \A w \in Worker : InFlight(w)' \subseteq InFlight(w)
                  /\ \A d \in Delivery : attempts'[d] >= attempts[d]
<1>3. ASSUME NEW i \in Item, ItemRequest(i) PROVE Kept
  BY <1>2, <1>3 DEF ItemRequest, Close, CompleteRecurring, Reopen, SetArchive,
     DeleteReminder, SoftDelete, RestoreDeleted, Purge
<1>4. ASSUME NEW i \in Item, PutRequest(i) PROVE Kept
  BY <1>2, <1>4 DEF PutRequest, PutBegin, PutAbort, PutFinishParked, PutFinish,
     AttemptsAfterRearm
<1>5. ASSUME NEW d \in Delivery, DeliveryRequest(d) \/ Timer(d) PROVE Kept
  BY <1>2, <1>5 DEF DeliveryRequest, Timer, Acknowledge, Snooze, RetryDead,
     BackoffElapses, LeaseExpires
<1>6. ASSUME NEW w \in Worker, NEW job \in batch[w], NEW result \in Result,
             Send(w, job, result)
      PROVE  Kept
  BY <1>1, <1>2, <1>6 DEF Send, TypeOK
<1>7. ASSUME NEW w \in Worker, Record(w) \/ Crash(w) PROVE Kept
  BY <1>1, <1>2, <1>7 DEF Record, MarkDelivered, MarkRetry, MarkDead, Crash, TypeOK
<1>8. CASE Tick \/ UNCHANGED vars
  <2>1. Kept
    BY <1>2, <1>8 DEF Tick, vars
  <2>2. QED
    BY <1>1, <2>1, ClaimInvPreserved
<1>9. ASSUME NEW w \in Worker, NEW S \in SUBSET Delivery, ClaimDue(w, S)
      PROVE  ClaimInv'
  BY <1>1, <1>9, ClaimDuePreserves DEF ClaimInv
<1>10. ASSUME Kept PROVE ClaimInv'
  BY <1>1, <1>10, ClaimInvPreserved
<1>11. QED
  BY <1>3, <1>4, <1>5, <1>6, <1>7, <1>8, <1>9, <1>10 DEF Next, Work

\* (id, attempt_count) names one claim for ever: no two workers hold the same
\* one, whatever expires, is cancelled, re-armed, retried or recovered.
THEOREM ClaimsAreDistinct == Spec => []ClaimsDistinct
<1>1. Init => ClaimInv
  BY InitType DEF Init, ClaimInv, ClaimsNumbered, ClaimsDistinct, InFlight
<1>2. ClaimInv => ClaimsDistinct
  BY DEF ClaimInv
<1>3. QED
  BY <1>1, <1>2, ClaimInvStep, PTL DEF Spec
-----------------------------------------------------------------------------
(* Alarms.  ArmedIsWanted and SingleAlarm rest on who owns a reminder's row: *)
(* the lock of upsert_for_item keeps it from changing hands during a PUT.   *)

\* An active reminder is a row of its item; a PUT in progress holds the row it
\* will make, or leave, the active one; an item not created yet has none.
ReminderOwnership ==
    \A i \in Item :
        /\ active[i] # NoReminder => owner[active[i]] = i
        /\ stage[i] = "unborn" => active[i] = NoReminder
        /\ put[i] # NoPut =>
               /\ stage[i] # "unborn"
               /\ owner[put[i].reminder] = i
               /\ active[i] \in {NoReminder, put[i].reminder}

\* The rows the two properties are about.
Alarm(d) == status[d] \in Armed /\ armedBy[d] \in {"request", "race"}

AlarmInv == TypeOK /\ ReminderOwnership /\ ArmedIsWanted /\ SingleAlarm

\* A step that arms no row, and takes neither the reminder nor the openness
\* away from an item that keeps an alarm.
LEMMA AlarmsKept ==
    ASSUME AlarmInv,
           \A d \in Delivery : Alarm(d)' =>
               /\ Alarm(d)
               /\ armedBy'[d] = "request" => armedBy[d] = "request"
               /\ owner'[d.reminder] = owner[d.reminder]
               /\ active'[owner[d.reminder]] = active[owner[d.reminder]]
               /\ owner[d.reminder] \in closed' => owner[d.reminder] \in closed
    PROVE  ArmedIsWanted' /\ SingleAlarm'
<1>1. ArmedIsWanted'
  BY DEF AlarmInv, ArmedIsWanted, Alarm
<1>2. SingleAlarm'
  BY DEF AlarmInv, SingleAlarm, Alarm
<1>3. QED
  BY <1>1, <1>2

LEMMA ItemRequestAlarms ==
    ASSUME AlarmInv, NEW i \in Item, ItemRequest(i)
    PROVE  ReminderOwnership' /\ ArmedIsWanted' /\ SingleAlarm'
<1> USE DEF itemVars, reminderVars, rowVars, workerVars
<1>1. TypeOK /\ ReminderOwnership /\ ArmedIsWanted
  BY DEF AlarmInv
<1>2. \A d \in Delivery : d.reminder \in Reminder
  BY DEF Delivery
<1>3. CASE Close(i)
  <2>1. ReminderOwnership'
    BY <1>1, <1>3 DEF Close, ReminderOwnership
  <2>2. QED
    BY <1>1, <1>2, <1>3, <2>1, AlarmsKept
    DEF Close, Alarm, Cancelled, DeliveriesOf, Armed, TypeOK
<1>4. ASSUME NEW j \in Item, CompleteRecurring(i, j)
      PROVE  ReminderOwnership' /\ ArmedIsWanted' /\ SingleAlarm'
  <2>1. j # i /\ put[j] = NoPut /\ active[j] = NoReminder
    BY <1>1, <1>4 DEF CompleteRecurring, ReminderOwnership
  <2>2. ReminderOwnership'
    BY <1>1, <1>4, <2>1, ConstantsAssumption
    DEF CompleteRecurring, ReminderOwnership, FreshReminder, TypeOK, Put
  <2>3. ASSUME NEW d \in Delivery, Alarm(d)'
        PROVE  /\ Alarm(d) /\ owner[d.reminder] \in Item /\ owner[d.reminder] # j
               /\ owner[d.reminder] # i
    BY <1>1, <1>2, <1>4, <2>1, <2>3, ConstantsAssumption
    DEF CompleteRecurring, Alarm, Cancelled, DeliveriesOf, Armed, ArmedIsWanted, TypeOK
  <2>4. QED
    BY <1>1, <1>2, <1>4, <2>2, <2>3, ConstantsAssumption, AlarmsKept
    DEF CompleteRecurring, FreshReminder, TypeOK, Alarm
<1>5. CASE Reopen(i)
  <2>1. ReminderOwnership'
    BY <1>1, <1>5 DEF Reopen, ReminderOwnership
  <2>2. QED
    BY <1>5, <2>1, AlarmsKept DEF Reopen, Alarm
<1>6. ASSUME NEW flag \in BOOLEAN, SetArchive(i, flag)
      PROVE  ReminderOwnership' /\ ArmedIsWanted' /\ SingleAlarm'
  <2>1. ReminderOwnership'
    BY <1>1, <1>6 DEF SetArchive, ReminderOwnership
  <2>2. QED
    BY <1>6, <2>1, AlarmsKept DEF SetArchive, Alarm
<1>7. CASE DeleteReminder(i) \/ SoftDelete(i)
  <2>1. ReminderOwnership'
    BY <1>1, <1>7 DEF DeleteReminder, SoftDelete, Deactivate, ReminderOwnership, TypeOK
  <2>2. ASSUME NEW d \in Delivery, Alarm(d)'
        PROVE  Alarm(d) /\ owner[d.reminder] # i /\ owner[d.reminder] \in Item
    BY <1>1, <1>2, <1>7, <2>2
    DEF DeleteReminder, SoftDelete, Deactivate, Alarm, Cancelled, DeliveriesOf, Armed,
        ArmedIsWanted
  <2>3. /\ \A k \in Item : k # i => active'[k] = active[k]
        /\ armedBy' = armedBy /\ owner' = owner /\ closed' = closed
    BY <1>1, <1>7 DEF DeleteReminder, SoftDelete, Deactivate, TypeOK
  <2>4. QED
    BY <2>1, <2>2, <2>3, AlarmsKept
<1>8. CASE RestoreDeleted(i)
  <2>1. ReminderOwnership'
    BY <1>1, <1>8 DEF RestoreDeleted, ReminderOwnership
  <2>2. QED
    BY <1>8, <2>1, AlarmsKept DEF RestoreDeleted, Alarm
<1>9. CASE Purge(i)
  <2>1. ReminderOwnership'
    BY <1>1, <1>9 DEF Purge, ReminderOwnership, TypeOK
  <2>2. ASSUME NEW d \in Delivery, Alarm(d)'
        PROVE  Alarm(d) /\ owner[d.reminder] # i
    BY <1>1, <1>2, <1>9, <2>2 DEF Purge, Alarm, DeliveriesOf, Armed
  <2>3. QED
    BY <1>1, <1>9, <2>1, <2>2, AlarmsKept DEF Purge, Alarm, TypeOK
<1>10. QED
  BY <1>3, <1>4, <1>5, <1>6, <1>7, <1>8, <1>9 DEF ItemRequest

LEMMA PutFinishAlarms ==
    ASSUME AlarmInv, NEW i \in Item, PutFinish(i)
    PROVE  ReminderOwnership' /\ ArmedIsWanted' /\ SingleAlarm'
<1> USE DEF itemVars, reminderVars, rowVars, workerVars
<1> DEFINE r == put[i].reminder
<1>1. TypeOK /\ ReminderOwnership /\ ArmedIsWanted /\ SingleAlarm
  BY DEF AlarmInv
<1>2. \A d \in Delivery : d.reminder \in Reminder
  BY DEF Delivery
<1>3. /\ put[i] # NoPut /\ put[i] \in Put
      /\ r \in Reminder /\ owner[r] = i /\ active[i] \in {NoReminder, r}
  BY <1>1 DEF PutFinish, ReminderOwnership, TypeOK, Put
<1>4. /\ active' = [active EXCEPT ![i] = r]
      /\ put' = [put EXCEPT ![i] = NoPut]
      /\ owner' = owner /\ closed' = closed /\ stage' = stage
  BY DEF PutFinish
<1>5. ReminderOwnership'
  BY <1>1, <1>3, <1>4 DEF ReminderOwnership, TypeOK
<1>6. ASSUME NEW d \in Delivery, Alarm(d)'
      PROVE  \/ /\ d \in PutRows(i)
                /\ armedBy'[d] = "request" => i \notin closed
             \/ /\ Alarm(d) /\ d.reminder # r /\ owner[d.reminder] # i
                /\ armedBy'[d] = armedBy[d]
  <2>1. CASE d \in PutRows(i)
    BY <2>1 DEF PutFinish
  <2>2. CASE d \notin PutRows(i)
    <3>1. status'[d] = Cancelled(Replaced(i))[d] /\ armedBy'[d] = armedBy[d]
      BY <2>2 DEF PutFinish
    <3>2. Alarm(d) /\ d.reminder # r
      BY <1>6, <3>1 DEF Alarm, Cancelled, Replaced, Armed
    <3>3. owner[d.reminder] # i
      BY <1>1, <1>2, <1>3, <3>2, ConstantsAssumption DEF ArmedIsWanted, Alarm
    <3>4. QED
      BY <3>1, <3>2, <3>3
  <2>3. QED
    BY <2>1, <2>2
<1>7. \A d \in PutRows(i) : d.reminder = r /\ d.at = put[i].at
  BY DEF PutRows
<1>8. ArmedIsWanted'
  <2>1. SUFFICES ASSUME NEW d \in Delivery, Alarm(d)'
                 PROVE  /\ owner[d.reminder] \in Item
                        /\ active'[owner[d.reminder]] = d.reminder
                        /\ armedBy'[d] = "request" => owner[d.reminder] \notin closed
    BY <1>4 DEF ArmedIsWanted, Alarm
  <2>2. CASE d \in PutRows(i) /\ (armedBy'[d] = "request" => i \notin closed)
    BY <1>1, <1>3, <1>4, <1>7, <2>2 DEF TypeOK
  <2>3. CASE Alarm(d) /\ owner[d.reminder] # i /\ armedBy'[d] = armedBy[d]
    BY <1>1, <1>4, <2>3 DEF ArmedIsWanted, Alarm, TypeOK
  <2>4. QED
    BY <1>6, <2>1, <2>2, <2>3
<1>9. SingleAlarm'
  <2>1. SUFFICES ASSUME NEW d \in Delivery, NEW e \in Delivery, Alarm(d)', Alarm(e)',
                        owner[d.reminder] = owner[e.reminder], d.channel = e.channel
                 PROVE  d = e
    BY <1>4 DEF SingleAlarm, Alarm
  <2>2. CASE d \in PutRows(i)
    <3>1. e \in PutRows(i)
      BY <1>3, <1>6, <1>7, <2>1, <2>2
    <3>2. QED
      BY <1>7, <2>1, <2>2, <3>1 DEF Delivery
  <2>3. CASE d \notin PutRows(i)
    <3>1. Alarm(d) /\ Alarm(e)
      BY <1>3, <1>6, <1>7, <2>1, <2>3
    <3>2. QED
      BY <1>1, <2>1, <3>1 DEF SingleAlarm, Alarm
  <2>4. QED
    BY <2>2, <2>3
<1>10. QED
  BY <1>5, <1>8, <1>9

LEMMA PutRequestAlarms ==
    ASSUME AlarmInv, NEW i \in Item, PutRequest(i)
    PROVE  ReminderOwnership' /\ ArmedIsWanted' /\ SingleAlarm'
<1> USE DEF itemVars, reminderVars, rowVars, workerVars
<1>1. TypeOK /\ ReminderOwnership /\ ArmedIsWanted
  BY DEF AlarmInv
<1>2. \A d \in Delivery : d.reminder \in Reminder
  BY DEF Delivery
<1>3. ASSUME NEW r \in Reminder, NEW t \in Instant, NEW chs \in SUBSET Channel,
             PutBegin(i, r, t, chs)
      PROVE  ReminderOwnership' /\ ArmedIsWanted' /\ SingleAlarm'
  <2>1. owner[r] \in {i, NoItem}
    BY <1>1, <1>3 DEF PutBegin, ReminderOwnership, FreshReminder
  <2>2. ReminderOwnership'
    BY <1>1, <1>3, <2>1, ConstantsAssumption DEF PutBegin, ReminderOwnership, TypeOK, Put
  <2>3. ASSUME NEW d \in Delivery, Alarm(d) PROVE owner'[d.reminder] = owner[d.reminder]
    BY <1>1, <1>2, <1>3, <2>1, <2>3, ConstantsAssumption
    DEF PutBegin, ArmedIsWanted, Alarm, TypeOK
  <2>4. QED
    BY <1>3, <2>2, <2>3, AlarmsKept DEF PutBegin, Alarm
<1>4. CASE PutAbort(i)
  <2>1. ReminderOwnership'
    BY <1>1, <1>4 DEF PutAbort, ReminderOwnership, TypeOK
  <2>2. QED
    BY <1>4, <2>1, AlarmsKept DEF PutAbort, Alarm
<1>5. CASE PutFinishParked(i)
  <2>1. ReminderOwnership'
    BY <1>1, <1>5 DEF PutFinishParked, ReminderOwnership, TypeOK
  <2>2. ASSUME NEW d \in Delivery, Alarm(d)'
        PROVE  Alarm(d) /\ owner[d.reminder] # i
    BY <1>1, <1>2, <1>5, <2>2
    DEF PutFinishParked, Alarm, Cancelled, DeliveriesOf, Armed
  <2>3. QED
    BY <1>1, <1>5, <2>1, <2>2, AlarmsKept DEF PutFinishParked, Alarm, TypeOK
<1>6. QED
  BY <1>3, <1>4, <1>5, PutFinishAlarms DEF PutRequest

\* Retries, timers and workers touch neither items nor reminders, and arm a
\* row that was not armed only in the name of "retry" or "worker".
LEMMA OtherAlarms ==
    ASSUME AlarmInv, UNCHANGED <<itemVars, reminderVars>>,
           \A d \in Delivery : Alarm(d)' => Alarm(d) /\ armedBy'[d] = armedBy[d]
    PROVE  ReminderOwnership' /\ ArmedIsWanted' /\ SingleAlarm'
<1>1. ReminderOwnership'
  BY DEF AlarmInv, ReminderOwnership, itemVars, reminderVars
<1>2. QED
  BY <1>1, AlarmsKept DEF itemVars, reminderVars

LEMMA AlarmInvStep == AlarmInv /\ [Next]_vars => AlarmInv'
<1> SUFFICES ASSUME AlarmInv, [Next]_vars PROVE AlarmInv'
  OBVIOUS
<1>1. TypeOK /\ TypeOK'
  BY NextType DEF AlarmInv
<1> DEFINE Kept == /\ UNCHANGED <<itemVars, reminderVars>>
                  /\ \A d \in Delivery : Alarm(d)' => Alarm(d) /\ armedBy'[d] = armedBy[d]
<1>2. ASSUME Kept PROVE AlarmInv'
  BY <1>1, <1>2, OtherAlarms DEF AlarmInv
<1>3. ASSUME NEW d \in Delivery, DeliveryRequest(d) \/ Timer(d) PROVE Kept
  BY <1>1, <1>3 DEF DeliveryRequest, Timer, Acknowledge, Snooze, RetryDead,
     BackoffElapses, LeaseExpires, Alarm, rowVars, TypeOK
<1>4. ASSUME NEW w \in Worker, NEW S \in SUBSET Delivery, ClaimDue(w, S) PROVE Kept
  BY <1>1, <1>4 DEF ClaimDue, Due, LeftBehind, Alarm, Armed, TypeOK
<1>5. ASSUME NEW w \in Worker, NEW job \in batch[w], NEW result \in Result,
             Send(w, job, result)
      PROVE  Kept
  BY <1>5 DEF Send, Alarm, rowVars
<1>6. ASSUME NEW w \in Worker, Record(w) PROVE Kept
  <2>1. CASE MarkDelivered(w)
    BY <1>1, <2>1 DEF MarkDelivered, Marked, Alarm, Armed, TypeOK
  <2>2. CASE MarkRetry(w)
    BY <1>1, <2>2 DEF MarkRetry, Marked, Alarm, Armed, TypeOK
  <2>3. CASE MarkDead(w)
    BY <1>1, <2>3 DEF MarkDead, Marked, Alarm, Armed, TypeOK
  <2>4. QED
    BY <1>6, <2>1, <2>2, <2>3 DEF Record
<1>7. ASSUME NEW w \in Worker, Crash(w) PROVE Kept
  BY <1>7 DEF Crash, Alarm, rowVars
<1>8. CASE Tick \/ UNCHANGED vars
  <2>1. Kept
    BY <1>8 DEF Tick, vars, Alarm, rowVars
  <2>2. QED
    BY <2>1, <1>2
<1>9. QED
  BY <1>1, <1>2, <1>3, <1>4, <1>5, <1>6, <1>7, <1>8,
     ItemRequestAlarms, PutRequestAlarms DEF Next, Work, AlarmInv

LEMMA InitAlarms == Init => AlarmInv
BY InitType, ConstantsAssumption
DEF Init, AlarmInv, ReminderOwnership, ArmedIsWanted, SingleAlarm, Armed

\* An alarm a request set belongs to the active reminder of an item that is
\* still open, up to the race of PUT with the closing of the item.
THEOREM AlarmsAreWanted == Spec => []ArmedIsWanted
<1>1. AlarmInv => ArmedIsWanted
  BY DEF AlarmInv
<1>2. QED
  BY <1>1, InitAlarms, AlarmInvStep, PTL DEF Spec

\* No item ever has two alarms set on one channel.
THEOREM AlarmsAreSingle == Spec => []SingleAlarm
<1>1. AlarmInv => SingleAlarm
  BY DEF AlarmInv
<1>2. QED
  BY <1>1, InitAlarms, AlarmInvStep, PTL DEF Spec
-----------------------------------------------------------------------------
(* Evidence.  What a row claims is backed by an event of the outbox and by  *)
(* a provider, because the claims in flight already are.                    *)

Evidence ==
    \A w \in Worker :
        /\ \A job \in InFlight(w) : <<"reminder.fired", job.delivery>> \in events
        /\ sent[w] # NoJob /\ sent[w].result = "ok" => sent[w].job.delivery \in accepted

EvidenceInv == TypeOK /\ Evidence /\ DeliveredWasAccepted /\ OutboxCoversRows

\* A step in which no row advances to a status that needs evidence, and no
\* evidence is lost.
LEMMA EvidenceKept ==
    ASSUME EvidenceInv,
           events \subseteq events', accepted \subseteq accepted',
           \A w \in Worker : /\ InFlight(w)' \subseteq InFlight(w)
                             /\ sent'[w] \in {sent[w], NoJob},
           \A d \in Delivery :
               /\ seen'[d] = seen[d]
               /\ status'[d] \in {"delivering", "delivered", "dead"} => status'[d] = status[d]
    PROVE  Evidence' /\ DeliveredWasAccepted' /\ OutboxCoversRows'
<1>1. Evidence'
  BY DEF EvidenceInv, Evidence
<1>2. DeliveredWasAccepted'
  BY DEF EvidenceInv, DeliveredWasAccepted
<1>3. OutboxCoversRows'
  BY DEF EvidenceInv, OutboxCoversRows
<1>4. QED
  BY <1>1, <1>2, <1>3

LEMMA RecordEvidence ==
    ASSUME EvidenceInv, NEW w \in Worker, Record(w)
    PROVE  Evidence' /\ DeliveredWasAccepted' /\ OutboxCoversRows'
<1> USE DEF itemVars, reminderVars
<1> DEFINE d == sent[w].job.delivery
<1>1. TypeOK /\ Evidence /\ DeliveredWasAccepted /\ OutboxCoversRows
  BY DEF EvidenceInv
<1>2. sent[w] # NoJob
  BY DEF Record, MarkDelivered, MarkRetry, MarkDead
<1>3. d \in Delivery
  BY <1>1, <1>2 DEF TypeOK, Outcome, Job
<1>4. <<"reminder.fired", d>> \in events
  BY <1>1, <1>2 DEF Evidence, InFlight
<1>5. /\ sent' = [sent EXCEPT ![w] = NoJob] /\ batch' = batch
      /\ events \subseteq events' /\ accepted' = accepted /\ seen' = seen
  BY DEF Record, MarkDelivered, MarkRetry, MarkDead
<1>6. Evidence'
  BY <1>1, <1>5 DEF Evidence, InFlight, TypeOK
<1>7. CASE MarkDelivered(w)
  <2>1. d \in accepted
    BY <1>1, <1>2, <1>7 DEF MarkDelivered, Succeeded, Evidence
  <2>2. DeliveredWasAccepted'
    BY <1>1, <1>3, <1>5, <1>7, <2>1 DEF MarkDelivered, DeliveredWasAccepted, TypeOK
  <2>3. OutboxCoversRows'
    BY <1>1, <1>3, <1>4, <1>5, <1>7 DEF MarkDelivered, Marked, OutboxCoversRows, TypeOK
  <2>4. QED
    BY <1>6, <2>2, <2>3
<1>8. CASE MarkRetry(w)
  <2>1. \A e \in Delivery : status'[e] \in {"delivering", "delivered", "dead"}
                               => status'[e] = status[e]
    BY <1>1, <1>3, <1>8 DEF MarkRetry, Marked, TypeOK
  <2>2. DeliveredWasAccepted' /\ OutboxCoversRows'
    BY <1>1, <1>5, <2>1 DEF DeliveredWasAccepted, OutboxCoversRows
  <2>3. QED
    BY <1>6, <2>2
<1>9. CASE MarkDead(w)
  <2>1. <<"delivery.failed", d>> \in events'
    BY <1>9 DEF MarkDead, FailureEvents
  <2>2. \A e \in Delivery : e # d => status'[e] = status[e]
    BY <1>1, <1>3, <1>9 DEF MarkDead, TypeOK
  <2>3. status'[d] \in {"absent", "dead"}
    BY <1>1, <1>3, <1>9 DEF MarkDead, Marked, TypeOK
  <2>4. DeliveredWasAccepted'
    BY <1>1, <1>5, <2>2, <2>3 DEF DeliveredWasAccepted
  <2>5. OutboxCoversRows'
    BY <1>1, <1>4, <1>5, <2>1, <2>2, <2>3 DEF OutboxCoversRows
  <2>6. QED
    BY <1>6, <2>4, <2>5
<1>10. QED
  BY <1>7, <1>8, <1>9 DEF Record

LEMMA EvidenceStep == EvidenceInv /\ [Next]_vars => EvidenceInv'
<1> SUFFICES ASSUME EvidenceInv, [Next]_vars PROVE EvidenceInv'
  OBVIOUS
<1> USE DEF itemVars, reminderVars, rowVars, workerVars
<1>1. TypeOK /\ TypeOK' /\ Evidence /\ DeliveredWasAccepted /\ OutboxCoversRows
  BY NextType DEF EvidenceInv
<1> DEFINE Held == Evidence' /\ DeliveredWasAccepted' /\ OutboxCoversRows'
<1> DEFINE Kept ==
        /\ events' = events /\ accepted' = accepted /\ batch' = batch /\ sent' = sent
        /\ seen' = seen
        /\ \A d \in Delivery : status'[d] \in {"delivering", "delivered", "dead"}
                                 => status'[d] = status[d]
<1>2. ASSUME Kept PROVE Held
  BY <1>2, EvidenceKept DEF InFlight
<1>3. ASSUME NEW i \in Item, ItemRequest(i) PROVE Kept
  BY <1>1, <1>3 DEF ItemRequest, Close, CompleteRecurring, Reopen, SetArchive,
     DeleteReminder, SoftDelete, RestoreDeleted, Purge, Deactivate, Cancelled
<1>4. ASSUME NEW i \in Item, PutRequest(i) PROVE Kept
  BY <1>1, <1>4 DEF PutRequest, PutBegin, PutAbort, PutFinishParked, PutFinish, Cancelled
<1>5. ASSUME NEW d \in Delivery, RetryDead(d) \/ Timer(d) PROVE Kept
  BY <1>1, <1>5 DEF Timer, RetryDead, BackoffElapses, LeaseExpires, TypeOK
<1>6. ASSUME NEW d \in Delivery, Acknowledge(d) \/ Snooze(d) PROVE Held
  <2>1. d \in accepted
    BY <1>1, <1>6 DEF Acknowledge, Snooze, DeliveredWasAccepted
  <2>2. Evidence'
    BY <1>1, <1>6 DEF Acknowledge, Snooze, Evidence, InFlight
  <2>3. DeliveredWasAccepted'
    BY <1>1, <1>6, <2>1 DEF Acknowledge, Snooze, DeliveredWasAccepted, TypeOK
  <2>4. /\ status' = status /\ events \subseteq events'
        /\ \A e \in Delivery : e # d => seen'[e] = seen[e]
        /\ status[d] = "delivered"
    BY <1>1, <1>6 DEF Acknowledge, Snooze, TypeOK
  <2>5. OutboxCoversRows'
    BY <1>1, <2>4 DEF OutboxCoversRows
  <2>6. QED
    BY <2>2, <2>3, <2>5
<1>7. ASSUME NEW w \in Worker, NEW S \in SUBSET Delivery, ClaimDue(w, S) PROVE Held
  <2>1. \A d \in S : <<"reminder.fired", d>> \in events'
    BY <1>7 DEF ClaimDue
  <2>2. /\ events \subseteq events' /\ accepted' = accepted /\ seen' = seen /\ sent' = sent
        /\ \A v \in Worker : v # w => batch'[v] = batch[v]
        /\ \A job \in batch'[w] : job.delivery \in S
        /\ sent[w] = NoJob
    BY <1>1, <1>7 DEF ClaimDue, Idle, TypeOK
  <2>3. Evidence'
    BY <1>1, <2>1, <2>2 DEF Evidence, InFlight
  <2>4. DeliveredWasAccepted'
    BY <1>1, <1>7, <2>2 DEF ClaimDue, DeliveredWasAccepted
  <2>5. OutboxCoversRows'
    BY <1>1, <1>7, <2>1, <2>2 DEF ClaimDue, OutboxCoversRows
  <2>6. QED
    BY <2>3, <2>4, <2>5
<1>8. ASSUME NEW w \in Worker, NEW job \in batch[w], NEW result \in Result,
             Send(w, job, result)
      PROVE  Held
  <2>1. <<"reminder.fired", job.delivery>> \in events
    BY <1>1 DEF Evidence, InFlight
  <2>2. /\ events' = events /\ accepted \subseteq accepted' /\ seen' = seen
        /\ status' = status
        /\ result = "ok" => job.delivery \in accepted'
    BY <1>8 DEF Send
  <2>3. /\ \A v \in Worker : v # w => batch'[v] = batch[v] /\ sent'[v] = sent[v]
        /\ batch'[w] \subseteq batch[w]
        /\ sent'[w] = [job |-> job, result |-> result]
    BY <1>1, <1>8 DEF Send, TypeOK
  <2>4. Evidence'
    BY <1>1, <2>1, <2>2, <2>3 DEF Evidence, InFlight
  <2>5. DeliveredWasAccepted' /\ OutboxCoversRows'
    BY <1>1, <2>2 DEF DeliveredWasAccepted, OutboxCoversRows
  <2>6. QED
    BY <2>4, <2>5
<1>9. ASSUME NEW w \in Worker, Crash(w) PROVE Held
  <2>1. \A v \in Worker : InFlight(v)' \subseteq InFlight(v) /\ sent'[v] \in {sent[v], NoJob}
    BY <1>1, <1>9 DEF Crash, InFlight, TypeOK
  <2>2. QED
    BY <1>9, <2>1, EvidenceKept DEF Crash
<1>10. CASE Tick \/ UNCHANGED vars
  <2>1. Kept
    BY <1>10 DEF Tick, vars
  <2>2. QED
    BY <1>1, <1>2, <2>1 DEF EvidenceInv
<1>11. QED
  BY <1>1, <1>2, <1>3, <1>4, <1>5, <1>6, <1>7, <1>8, <1>9, <1>10, RecordEvidence
  DEF Next, DeliveryRequest, Work, EvidenceInv

LEMMA InitEvidence == Init => EvidenceInv
BY InitType DEF Init, EvidenceInv, Evidence, InFlight, DeliveredWasAccepted, OutboxCoversRows

\* A delivery shown as delivered, acknowledged or snoozed reached a provider.
THEOREM DeliveredMeansAccepted == Spec => []DeliveredWasAccepted
<1>1. EvidenceInv => DeliveredWasAccepted
  BY DEF EvidenceInv
<1>2. QED
  BY <1>1, InitEvidence, EvidenceStep, PTL DEF Spec

\* Every delivery that was claimed, died, was acknowledged or snoozed has the
\* event that tells subscribers.
THEOREM OutboxIsComplete == Spec => []OutboxCoversRows
<1>1. EvidenceInv => OutboxCoversRows
  BY DEF EvidenceInv
<1>2. QED
  BY <1>1, InitEvidence, EvidenceStep, PTL DEF Spec
=============================================================================
