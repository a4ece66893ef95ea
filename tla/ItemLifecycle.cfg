\* Two concurrent requests on one item, of every kind; or a series of up to three items:
\* completions, twice or by two sessions, of what is done and beside PATCHes of its rule.
SPECIFICATION MergedSpec
CONSTANTS
    Item = {i1, i2, i3}
    Key = {}
    Session = {s1, s2}
    Asked = {"inbox", "planned", "in_progress", "waiting", "done", "cancelled"}
    Named = {"keep", "nobody", "somebody_waiting"}
    Freqs = {"keep", "none", "some"}
    Counts = {0, 3, Keep}
    MaxCount = 3
    MaxVersion = 4
    NoItem = NoItem
    NoKey = NoKey
    NoWork = NoWork
    Keep = Keep
SYMMETRY Interchangeable
INVARIANTS TypeOK ValidatedOnCurrent StampsTellStatus OneOccurrencePerCompletion SeriesEnds
PROPERTY OnlyLegalSteps
CHECK_DEADLOCK FALSE
