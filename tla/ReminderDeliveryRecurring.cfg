\* The reminder of a recurring item does not follow the next occurrence.
SPECIFICATION FairSpec
CONSTANTS
    Item = {i1, i2}
    Reminder = {r1, r2}
    Channel = {in_app}
    InApp = in_app
    Worker = {w1}
    Horizon = 1
    MaxAttempts = 1
    BatchSize = 1
    MaxRearms = 1
    MaxCrashes = 0
    NoReminder = NoReminder
    NoItem = NoItem
    NoPut = NoPut
    NoJob = NoJob
PROPERTIES OccurrenceFollowed
CHECK_DEADLOCK FALSE
