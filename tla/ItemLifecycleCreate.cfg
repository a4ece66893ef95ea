\* Two creations with one client_request_id.
SPECIFICATION Spec
CONSTANTS
    Item = {i1, i2}
    Key = {k1}
    Session = {s1, s2}
    Asked = {"inbox"}
    Named = {"keep"}
    Freqs = {"keep"}
    Counts = {Keep}
    MaxCount = 0
    MaxVersion = 1
    NoItem = NoItem
    NoKey = NoKey
    NoWork = NoWork
    Keep = Keep
INVARIANT CreatedOnce
CHECK_DEADLOCK FALSE
