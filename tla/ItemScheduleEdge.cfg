\* The top edge of an event on the week grid.
SPECIFICATION Spec
CONSTANTS
    SlotParts = 2
    DayLength = 3
    Offset = 1
    AllDaySlot = 1
    MaxEstimate = 4
    LastDay = 3
    MaxEdits = 2
    None = None
INVARIANT StartEdgeSameDay
CHECK_DEADLOCK FALSE
