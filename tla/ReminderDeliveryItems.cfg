\* Two items, two reminder rows, a worker that may crash: reminders are
\* copied, deleted and purged, and every armed row is settled.
SPECIFICATION LiveSpec
CONSTANTS
    Item = {i1, i2}
    Reminder = {r1, r2}
    Channel = {in_app}
    InApp = in_app
    Worker = {w1}
    Horizon = 1
    MaxAttempts = 2
    BatchSize = 1
    MaxRearms = 1
    MaxCrashes = 1
    NoReminder = NoReminder
    NoItem = NoItem
    NoPut = NoPut
    NoJob = NoJob
PROPERTY Settles
CHECK_DEADLOCK FALSE
