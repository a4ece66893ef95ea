\* Two workers and one row: leases, late answers, crashes, cancels and retries.
\* Or one worker, two channels and two instants: a reminder is moved while it fires.
SPECIFICATION Spec
ACTION_CONSTRAINT Scenario
CONSTANTS
    Item = {i1}
    Reminder = {r1}
    Channel = {in_app, feishu}
    InApp = in_app
    Worker = {w1, w2}
    Horizon = 2
    MaxAttempts = 2
    BatchSize = 2
    MaxRearms = 2
    MaxCrashes = 1
    NoReminder = NoReminder
    NoItem = NoItem
    NoPut = NoPut
    NoJob = NoJob
SYMMETRY Interchangeable
INVARIANTS TypeOK ClaimsDistinct ArmedIsWanted DeliveredWasAccepted SingleAlarm OutboxCoversRows
CHECK_DEADLOCK FALSE
