\* Every machine of the web client.
SPECIFICATION WebSpec
CONSTANTS
    Screens = {"tags", "focus", "inbox", "shell", "lists", "views", "page", "drawer", "box", "schedule"}
    TagIds = {a, b, c}
    TagNames = {x, y}
    NoTag = NoTag
    TagWrites = 2
    FocusItems = {i, j}
    NoFocus = NoFocus
    FocusCalls = 2
    Notices = {m, n}
    ToastsShown = 1
    InboxWrites = 3
    WorkItems = {w}
    PersonalItems = {p}
    ShellTerms = {t}
    NoItem = NoItem
    ShellActs = 4
    ListItems = {1, 2}
    ListActs = 2
    ListClicks = 3
    ViewBack = 1
    ViewAhead = {0, 1, 8}
    ViewSunday = 1
    ViewNoDay = ViewNoDay
    ViewClicks = 4
    DrawerItems = {d, e}
    DrawerNone = DrawerNone
    DrawerActs = 3
    BoxProposals = {p}
    BoxItems = {c}
    BoxNone = BoxNone
    BoxClicks = 2
    BoxElsewhere = 1
    SlotParts = 2
    DayLength = 3
    Offset = 1
    AllDaySlot = 1
    MaxEstimate = 3
    LastDay = 2
    MaxEdits = 2
    None = None
INVARIANTS WebTypeOK TagTreeIsFresh FocusBarShowsOpen
    InboxSettles InboxAckIsFinal ShellOpensFromAway ListSettles ListUndoIsReal
    ViewsTodayOnce ViewsShowOnce
    DrawerNoLostUpdate DrawerTouchIsMeant BoxReadsItsWrites
    EstimateIsRange RingsAsShown UneditedSaveKeeps MirrorIsExact GesturesAccepted
CHECK_DEADLOCK FALSE
