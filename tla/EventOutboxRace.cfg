\* Two publishers, one event, two subscriptions: leases, late answers, partial
\* failures, crashes and the attempt cap.
SPECIFICATION FairSpec
CONSTANTS
    Event = {1}
    Subscription = {s1, s2}
    Interested <- EveryoneInterested
    Worker = {w1, w2}
    MaxAttempts = 2
    BatchSize = 1
    MaxClaims = 2
    MaxCrashes = 1
    NoJob = NoJob
INVARIANT PostsAreUnique
PROPERTIES KeepsPromise EventSettles
CHECK_DEADLOCK FALSE
