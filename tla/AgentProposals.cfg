\* Two proposals, two callers that decide at the same time, two handlers of
\* two deliveries, two items.
SPECIFICATION Spec
CONSTANTS
    Proposal = {p1, p2}
    Item = {i1, i2}
    Key = {k1, k2}
    Caller = {c1, c2}
    Handler = {h1, h2}
    MaxVersion = 3
    NoProposal = NoProposal
    NoItem = NoItem
    NoKey = NoKey
    NoWork = NoWork
SYMMETRY Interchangeable
INVARIANTS TypeOK OneProposalPerDelivery NoPurgedItemNamed
PROPERTY DecidedOnce
CHECK_DEADLOCK FALSE
