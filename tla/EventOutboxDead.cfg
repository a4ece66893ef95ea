\* A dead event is claimed again.
SPECIFICATION Spec
CONSTANTS
    Event = {1}
    Subscription = {s1}
    Interested <- EveryoneInterested
    Worker = {w1}
    MaxAttempts = 1
    BatchSize = 1
    MaxClaims = 2
    MaxCrashes = 0
    NoJob = NoJob
INVARIANT DeadIsDropped
CHECK_DEADLOCK FALSE
