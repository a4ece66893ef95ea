---------------------------- MODULE ItemSchedule ----------------------------
(***************************************************************************)
(* The schedule of one item between the web client and the backend: a row   *)
(* that is either all-day (dates) or timed (instants), the draft a drawer    *)
(* edits, the gestures of the calendar, and the reminder a save asks for.    *)
(*                                                                           *)
(* Dates are numbers and times of day are slots of the day, the minutes of   *)
(* the forms.  Instants count parts of a slot in UTC, the seconds that a     *)
(* stored instant may have and no form shows.  The wall clock is Offset      *)
(* slots ahead of UTC all year (Asia/Shanghai has no other offset).          *)
(***************************************************************************)
EXTENDS Integers, FiniteSets

CONSTANTS
    SlotParts,    \* parts of a slot
    DayLength,    \* slots of a day
    Offset,       \* slots by which the user's wall clock is ahead of UTC
    AllDaySlot,   \* 09:00, when an all-day item notifies
    MaxEstimate,  \* the longest estimated_minutes the API takes, in slots
    LastDay,      \* bound: the last date a schedule reaches
    MaxEdits,     \* bound: edits of one draft
    None

ASSUME ScheduleAssumption ==
    /\ SlotParts \in Nat \ {0}
    /\ DayLength \in Nat \ {0}
    /\ Offset \in 0..DayLength-1
    /\ AllDaySlot \in 0..DayLength-1
    /\ MaxEstimate \in Nat \ {0}
    /\ LastDay \in Nat \ {0}
    /\ MaxEdits \in Nat
    /\ None \notin Int

VARIABLES
    row,     \* the stored schedule and estimate, or None before the item exists
    draft,   \* the form of the open drawer, or None
    edits,   \* bound counter for MaxEdits
    put,     \* the reminder request a save is still to send, or None
    armed,   \* history, until the row is written again: what the last reminder request
             \* computed and had shown
    loose    \* history: the estimate was not kept in step with the range

vars == <<row, draft, edits, put, armed, loose>>

Date == 1..LastDay
Time == 0..DayLength-1
Opt(S) == S \cup {None}

-----------------------------------------------------------------------------
(* The wall clock                                                          *)

\* The slot an instant lies in.
SlotOf(instant) == instant \div SlotParts

\* The first ten and the next five characters of an ISO instant.
UtcDate(instant) == SlotOf(instant) \div DayLength
UtcTime(instant) == SlotOf(instant) % DayLength

\* localInputToISO gives the beginning of a slot; localDateTimeParts drops the parts of it.
Instant(date, time) == (date * DayLength + time - Offset) * SlotParts
LocalDate(instant) == (SlotOf(instant) + Offset) \div DayLength
LocalTime(instant) == (SlotOf(instant) + Offset) % DayLength

EndOfDay == DayLength - 1

-----------------------------------------------------------------------------
(* What the backend stores                                                 *)

Schedule == [all_day : BOOLEAN, start_at : Opt(Int), due_at : Opt(Int),
             start_date : Opt(Int), due_date : Opt(Int)]

Row == [all_day : BOOLEAN, start_at : Opt(Int), due_at : Opt(Int),
        start_date : Opt(Int), due_date : Opt(Int), estimate : Opt(Nat)]

InOrder(start, due) == start # None /\ due # None => start <= due

\* validate_schedule and the two check constraints of the table.
ValidSchedule(s) ==
    IF s.all_day
    THEN s.start_at = None /\ s.due_at = None /\ InOrder(s.start_date, s.due_date)
    ELSE s.start_date = None /\ s.due_date = None /\ InOrder(s.start_at, s.due_at)

Accepted(r) == ValidSchedule(r) /\ (r.estimate # None => r.estimate \in 1..MaxEstimate)

\* bound: a schedule within the dates of the model.
InWindow(r) ==
    /\ \A i \in {r.start_at, r.due_at} \ {None} : LocalDate(i) \in Date
    /\ \A d \in {r.start_date, r.due_date} \ {None} : d \in Date

\* ItemService.patch: the fields of the patch over those of the current row.
Merged(r, patch) == [f \in DOMAIN r |-> IF f \in DOMAIN patch THEN patch[f] ELSE r[f]]

Dated(start, due) == [all_day |-> TRUE, start_at |-> None, due_at |-> None,
                      start_date |-> start, due_date |-> due]

Timed(start, due) == [all_day |-> FALSE, start_at |-> start, due_at |-> due,
                      start_date |-> None, due_date |-> None]

-----------------------------------------------------------------------------
(* The draft of a drawer                                                   *)

Draft == [start_date : Opt(Int), start_time : Opt(Time),
          due_date : Opt(Int), due_time : Opt(Time),
          estimate : Opt(Nat), reminder : {"untouched", "on", "off"}]

\* draftFromItem, personalDraftFromItem.
DraftOf(r) ==
    [start_date |-> IF r.start_at # None THEN LocalDate(r.start_at) ELSE r.start_date,
     start_time |-> IF r.start_at # None THEN LocalTime(r.start_at) ELSE None,
     due_date   |-> IF r.due_at # None THEN LocalDate(r.due_at) ELSE r.due_date,
     due_time   |-> IF r.due_at # None THEN LocalTime(r.due_at) ELSE None,
     estimate   |-> r.estimate,
     reminder   |-> "untouched"]

\* A due time that does not carry into the next day.
WithDueUncarried(d) ==
    IF None \in {d.start_date, d.start_time, d.estimate} THEN d
    ELSE [d EXCEPT !.due_date = d.start_date, !.due_time = d.start_time + d.estimate]

\* deriveDueFromStart: after the start or the estimate was changed.
WithDue(d) ==
    IF None \in {d.start_date, d.start_time, d.estimate} THEN d
    ELSE LET end == d.start_time + d.estimate
         IN  [d EXCEPT !.due_date = d.start_date + (end \div DayLength),
                       !.due_time = end % DayLength]

\* A range that only looks at the times.
RangeOfTimes(d) == d.due_time - d.start_time

RangeLength(d) == (d.due_date - d.start_date) * DayLength + d.due_time - d.start_time

HasRange(d) == None \notin {d.start_date, d.start_time, d.due_date, d.due_time}

\* deriveEstimatedFromRange: after the due date or time was changed.
WithEstimate(d) ==
    IF HasRange(d) /\ RangeLength(d) > 0 THEN [d EXCEPT !.estimate = RangeLength(d)] ELSE d

IsTimed(d) == d.start_time # None \/ d.due_time # None

OrElse(value, default) == IF value = None THEN default ELSE value

DraftStart(d) ==
    IF d.start_date = None THEN None ELSE Instant(d.start_date, OrElse(d.start_time, 0))

DraftDue(d) ==
    IF d.due_date = None THEN None ELSE Instant(d.due_date, OrElse(d.due_time, EndOfDay))

\* buildSchedule.
ScheduleOf(d) ==
    IF IsTimed(d) THEN Timed(DraftStart(d), DraftDue(d)) ELSE Dated(d.start_date, d.due_date)

RowWith(s, estimate) ==
    [all_day |-> s.all_day, start_at |-> s.start_at, due_at |-> s.due_at,
     start_date |-> s.start_date, due_date |-> s.due_date, estimate |-> estimate]

\* The row a save of the draft leaves: buildWorkPatch and buildPersonalPatch
\* send every field.
RowOf(d) == RowWith(ScheduleOf(d), d.estimate)

\* One time is given and the other is not: buildSchedule fills it in.
HalfTimed(d) == (d.start_time = None) # (d.due_time = None)

\* A mirror that takes a due without a time for midnight.
OrderErrorAtMidnight(d) ==
    /\ None \notin {d.start_date, d.due_date}
    /\ \/ d.start_date > d.due_date
       \/ /\ IsTimed(d)
          /\ d.start_date = d.due_date
          /\ OrElse(d.start_time, 0) > OrElse(d.due_time, 0)

\* scheduleOrderError compares date and time as text, the date first.
OrderError(d) ==
    /\ None \notin {d.start_date, d.due_date}
    /\ \/ d.start_date > d.due_date
       \/ /\ IsTimed(d)
          /\ d.start_date = d.due_date
          /\ OrElse(d.start_time, 0) > OrElse(d.due_time, EndOfDay)
-----------------------------------------------------------------------------
(* Reminders                                                               *)

\* previewWorkReminder and previewPersonalReminder, less the offset that the
\* server subtracts as well; nothing is shown while the reminder is off.
Preview(d) ==
    IF d.reminder # "on" THEN None
    ELSE IF d.start_date # None THEN Instant(d.start_date, OrElse(d.start_time, AllDaySlot))
    ELSE IF d.due_date # None THEN Instant(d.due_date, OrElse(d.due_time, AllDaySlot))
    ELSE None

\* reminderTiming.
Timing(d) ==
    IF d.start_date # None \/ d.start_time # None THEN "before_start" ELSE "before_due"

\* An all-day item that notifies at nine o'clock UTC.
NotificationTimeUtc(day) == IF day = None THEN None ELSE day * DayLength + AllDaySlot

\* all_day_notification_time.
NotificationTime(day) == IF day = None THEN None ELSE Instant(day, AllDaySlot)

\* calculate_reminder_schedule; None is REMINDER_TARGET_MISSING.
Target(s, timing) ==
    IF s.all_day THEN NotificationTime(OrElse(s.start_date, s.due_date))
    ELSE IF timing = "before_start" THEN s.start_at
    ELSE s.due_at

HasSchedule(d) == d.start_date # None \/ d.due_date # None

\* A start without a time beside a due with one: previewed at 09:00 and stored at 00:00.
MidnightStart(d) == d.start_date # None /\ d.start_time = None /\ d.due_time # None

\* useSaveItemWithReminder: the PUT or DELETE that follows the PATCH.
RequestFor(d) ==
    [kind   |-> IF HasSchedule(d) /\ d.reminder = "on" THEN "put" ELSE "delete",
     timing |-> Timing(d),
     shown  |-> Preview(d),
     bare   |-> MidnightStart(d)]

\* shown and bare are history: the alarm that the drawer had announced, and whether it was
\* that of a start without a time.
Request == [kind : {"put", "delete"}, timing : {"before_start", "before_due"},
            shown : Opt(Int), bare : BOOLEAN]

-----------------------------------------------------------------------------
(* The patches of the calendar and of the quick options                    *)

\* buildReschedulePatch: tomorrow or next week, tonight, clear.
QuickPatches ==
    {Dated(date, None) : date \in Date}
        \cup {Timed(Instant(date, time), None) : date \in Date, time \in Time}
        \cup {Dated(None, None)}

Shifted(value, delta) == IF value = None THEN None ELSE value + delta

\* A drop that moves the due date alone.
DayDropPatchDueOnly(r, date) == Dated(r.start_date, date)

\* buildDragPatch, dropped on the all-day lane of a date.
DayDropPatch(r, date) ==
    IF ~ r.all_day THEN Dated(None, date)
    ELSE LET anchor == OrElse(r.due_date, r.start_date)
             delta == IF anchor = None THEN 0 ELSE date - anchor
         IN  Dated(Shifted(r.start_date, delta),
                   IF r.due_date = None THEN date ELSE r.due_date + delta)

\* buildDragPatch, dropped on a time of a date.
TimeDropPatch(r, date, time) ==
    LET anchor == OrElse(r.due_at, r.start_at)
        delta == Instant(date, time) - anchor
    IN  IF anchor = None THEN Timed(None, Instant(date, time))
        ELSE Timed(Shifted(r.start_at, delta), Shifted(r.due_at, delta))

\* buildResizePatch, for an event on the grid: what it starts at, longer or shorter.
ResizePatch(r, length) == [due_at |-> OrElse(r.start_at, r.due_at) + length * SlotParts]

\* eventDurationMinutes: up to midnight, and at least a slot.
Duration(r) ==
    LET end == IF LocalDate(r.start_at) = LocalDate(r.due_at)
               THEN LocalTime(r.due_at) ELSE DayLength
    IN  IF end > LocalTime(r.start_at) THEN end - LocalTime(r.start_at) ELSE 1

\* Where resizeStartEdge lets the top edge be dropped: the grid reads the time
\* of the ISO instant.  A time past midnight is no date and throws.
TopEdgeTimes(r) ==
    {t \in Time \ {UtcTime(r.start_at)} : t <= UtcTime(r.start_at) + Duration(r) - 1}

\* buildStartResizePatch.
StartResizePatch(r, time) == [start_at |-> Instant(UtcDate(r.start_at), time)]

HasLength(r) == ~ r.all_day /\ r.start_at # None /\ r.due_at # None

\* Only a start that leaves a slot before the due time is sent.
StartResizePatches(r) ==
    IF ~ HasLength(r) THEN {}
    ELSE {p \in {StartResizePatch(r, t) : t \in TopEdgeTimes(r)} :
              p.start_at <= r.due_at - SlotParts}

ResizePatches(r) ==
    IF r.all_day \/ OrElse(r.start_at, r.due_at) = None THEN {}
    ELSE {ResizePatch(r, length) : length \in 1..LastDay * DayLength}

\* buildDateOnlyTimePatch: a time for an item that has only dates.
DateOnlyTimePatch(r, time) ==
    IF r.start_date = None THEN Timed(None, Instant(r.due_date, time))
    ELSE IF r.due_date = None THEN Timed(Instant(r.start_date, time), None)
    ELSE Timed(Instant(r.start_date, time),
               Instant(r.due_date, IF r.due_date = r.start_date THEN time ELSE EndOfDay))

DateOnlyPatches(r) ==
    IF r.start_date = None /\ r.due_date = None THEN {}
    ELSE {DateOnlyTimePatch(r, time) : time \in Time}

DropPatches(r) ==
    {DayDropPatch(r, date) : date \in Date}
        \cup {TimeDropPatch(r, date, time) : date \in Date, time \in Time}

Gestures(r) ==
    QuickPatches \cup DropPatches(r) \cup ResizePatches(r)
        \cup StartResizePatches(r) \cup DateOnlyPatches(r)
-----------------------------------------------------------------------------
(* Actions                                                                 *)

Init ==
    /\ row = None
    /\ draft = None
    /\ edits = 0
    /\ put = None
    /\ armed = None
    /\ loose = FALSE

\* The backend takes the row; a refused request leaves everything as it was.
Store(r) == Accepted(r) /\ InWindow(r) /\ row' = r

\* QuickAddDialog: parseQuickAdd gives a time an estimate, normalizeCreateDraft
\* a due; the dialog shows no alarm.
QuickAdd(date, time, estimate, remind) ==
    /\ row = None /\ draft = None /\ put = None
    /\ time # None => estimate # None
    /\ LET d == WithDue([start_date |-> date, start_time |-> time, due_date |-> None,
                         due_time |-> None, estimate |-> estimate, reminder |-> "on"])
       IN  /\ Store(RowOf(d))
           /\ put' = IF remind /\ HasSchedule(d)
                     THEN [RequestFor(d) EXCEPT !.shown = None] ELSE None
    /\ UNCHANGED <<draft, edits, armed, loose>>

\* Rows that another client may write: an agent, an MCP tool, the API.
AnyInstant ==
    {Instant(date, time) + part : date \in Date, time \in Time, part \in 0..SlotParts-1}

AnySchedule ==
    {Timed(start, due) : start \in Opt(AnyInstant), due \in Opt(AnyInstant)}
        \cup {Dated(start, due) : start \in Opt(Date), due \in Opt(Date)}

AnyRow == {RowWith(s, estimate) : s \in AnySchedule, estimate \in Opt(1..MaxEstimate)}

\* An open drawer loses its draft to the item that is read again, which is a
\* CloseDrawer before and an OpenDrawer after; a save in between is a version
\* conflict and changes nothing (see ItemLifecycle).  A reminder request under
\* way will be computed on the new row, not on the one shown.
WriteElsewhere(r) ==
    /\ draft = None
    /\ Store(r)
    /\ put' = IF put = None THEN None ELSE [put EXCEPT !.shown = None]
    /\ loose' = TRUE
    /\ armed' = None
    /\ UNCHANGED <<draft, edits>>

OpenDrawer ==
    /\ row # None /\ draft = None /\ put = None
    /\ draft' = DraftOf(row)
    /\ edits' = 0
    /\ armed' = None
    /\ UNCHANGED <<row, put, loose>>

CloseDrawer ==
    /\ draft # None
    /\ draft' = None
    /\ edits' = 0
    /\ UNCHANGED <<row, put, armed, loose>>

Edit(d) ==
    /\ draft # None
    /\ edits < MaxEdits
    /\ d.due_date \in Opt(Date)
    /\ draft' = d
    /\ edits' = edits + 1
    /\ UNCHANGED <<row, put, armed, loose>>

EditStartDate(date) == Edit(WithDue([draft EXCEPT !.start_date = date]))
EditStartTime(time) == Edit(WithDue([draft EXCEPT !.start_time = time]))
EditEstimate(estimate) == Edit(WithDue([draft EXCEPT !.estimate = estimate]))
EditDueDate(date) == Edit(WithEstimate([draft EXCEPT !.due_date = date]))
EditDueTime(time) == Edit(WithEstimate([draft EXCEPT !.due_time = time]))

\* The check box, or the offset of a reminder that is on.
TouchReminder(choice) ==
    /\ draft # None
    /\ HasSchedule(draft) \/ choice = "on"
    /\ draft' = [draft EXCEPT !.reminder = choice]
    /\ UNCHANGED <<row, edits, put, armed, loose>>

\* submit and useSaveItemWithReminder, up to the answer of the PATCH.
Save ==
    /\ draft # None
    /\ Store(RowOf(draft))
    /\ draft' = None
    /\ edits' = 0
    /\ put' = IF draft.reminder = "untouched" THEN None ELSE RequestFor(draft)
    /\ loose' = (loose \/ HalfTimed(draft))
    /\ UNCHANGED armed

\* The PUT or DELETE of the reminder arrives; a PUT without a target fails.
SendReminder ==
    /\ put # None
    /\ put' = None
    /\ LET at == Target(row, put.timing)
       IN  armed' = IF put.kind = "put" /\ at # None
                    THEN [at |-> at, shown |-> put.shown, bare |-> put.bare]
                    ELSE armed
    /\ UNCHANGED <<row, draft, edits, loose>>

\* The page is closed after the PATCH.
LoseReminder ==
    /\ put # None
    /\ put' = None
    /\ UNCHANGED <<row, draft, edits, armed, loose>>

\* A chip of the drawer, which then shows the stored item again.
Reschedule(patch) ==
    /\ draft # None
    /\ Store(Merged(row, patch))
    /\ draft' = DraftOf(Merged(row, patch))
    /\ edits' = 0
    /\ UNCHANGED <<put, armed, loose>>

\* A drag on the calendar behind no drawer.
Gesture(patch) ==
    /\ row # None /\ draft = None /\ put = None
    /\ Store(Merged(row, patch))
    /\ armed' = None
    /\ UNCHANGED <<draft, edits, put>>

Drop(patch) == Gesture(patch) /\ UNCHANGED loose

\* The estimate is not sent along.
Stretch(patch) == Gesture(patch) /\ loose' = TRUE

Next ==
    \/ \E date \in Opt(Date), time \in Opt(Time), estimate \in Opt(1..MaxEstimate),
          remind \in BOOLEAN : QuickAdd(date, time, estimate, remind)
    \/ \E r \in AnyRow : WriteElsewhere(r)
    \/ OpenDrawer \/ CloseDrawer
    \/ \E date \in Opt(Date) : EditStartDate(date) \/ EditDueDate(date)
    \/ \E time \in Time : EditStartTime(time) \/ EditDueTime(time)
    \/ \E estimate \in Opt(1..MaxEstimate) : EditEstimate(estimate)
    \/ \E choice \in {"on", "off"} : TouchReminder(choice)
    \/ Save \/ SendReminder \/ LoseReminder
    \/ \E patch \in QuickPatches : Reschedule(patch)
    \/ row # None /\ \/ \E patch \in DropPatches(row) : Drop(patch)
                     \/ \E patch \in ResizePatches(row) : Stretch(patch)
                     \/ \E patch \in StartResizePatches(row) : Stretch(patch)
                     \/ \E patch \in DateOnlyPatches(row) : Stretch(patch)

Spec == Init /\ [][Next]_vars

-----------------------------------------------------------------------------
(* Properties                                                              *)

Stored == row \in Row /\ Accepted(row)

TypeOK ==
    /\ row = None \/ Stored
    /\ draft # None \/ put # None => Stored
    /\ draft \in Opt(Draft)
    /\ edits \in 0..MaxEdits
    /\ put \in Opt(Request)
    /\ armed \in Opt([at : Int, shown : Opt(Int), bare : BOOLEAN])
    /\ loose \in BOOLEAN

\* The estimate of an item is the length of its range, however the start, the
\* due and the estimate are edited in turn and the item is dragged about: the
\* forms derive one from the others.  A range that was edited down to nothing
\* keeps the old estimate.
EstimateIsRange ==
    row # None /\ HasLength(row) /\ ~ loose /\ row.estimate # None /\ row.start_at < row.due_at
        => row.estimate * SlotParts = row.due_at - row.start_at

\* A reminder that a save asked for rings when the drawer said it would: the preview is
\* computed on the draft, the alarm on the row that the save made of it.  They differ in one
\* case, by nine hours: a start date without a time, beside a due with one, is previewed at
\* 09:00 and rings at 00:00.  A request that fails arms nothing, and a row that another
\* client wrote before the request arrives has the alarm of that row.  A save whose reminder
\* was not touched asks for none: whatever the drawer shows, the old alarm stays.
RingsAsShown ==
    armed # None /\ armed.shown # None
        => armed.at = IF armed.bare THEN armed.shown - AllDaySlot * SlotParts ELSE armed.shown

\* A stored instant without the parts of its slot.
WholeSlot(instant) == IF instant = None THEN None ELSE SlotOf(instant) * SlotParts

\* Opening a drawer and saving it changes nothing but the seconds, which the forms do not
\* show and a save drops: dates and minutes come back as they were, on either side of
\* midnight in UTC, however often a drawer is opened and saved.
UneditedSaveKeeps ==
    draft # None /\ edits = 0 /\ HasSchedule(draft)
        => RowOf(draft) = [row EXCEPT !.start_at = WholeSlot(@), !.due_at = WholeSlot(@)]

\* scheduleOrderError refuses exactly what the backend's validate_schedule
\* would ("Client-side mirror of the backend ck_item_schedule_order rule").
MirrorIsExact == draft # None => (OrderError(draft) <=> ~ ValidSchedule(ScheduleOf(draft)))

\* Whatever the calendar and the quick options patch over the current row, the
\* merged schedule is valid ("so the merged payload stays valid").
GesturesAccepted == row # None => \A patch \in Gestures(row) : Accepted(Merged(row, patch))

\* "Resize from the top edge: move start_at to startMinutes (same day)".
StartEdgeSameDay ==
    row # None => \A patch \in StartResizePatches(row) :
                      LocalDate(patch.start_at) = LocalDate(row.start_at)
=============================================================================
