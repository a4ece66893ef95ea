------------------------ MODULE ItemSchedule_proofs ------------------------
(***************************************************************************)
(* Theorems about ItemSchedule, for days of any length and any offset of the *)
(* wall clock: the types, the derived estimate, the announced alarm, and     *)
(* that forms and backend read a schedule alike.                             *)
(***************************************************************************)
EXTENDS ItemSchedule, TLAPS

-----------------------------------------------------------------------------
(* The wall clock                                                          *)

\* Division by the length of a day.
LEMMA DivMod ==
    ASSUME NEW a \in Int
    PROVE  /\ a \div DayLength \in Int
           /\ a % DayLength \in 0..DayLength-1
           /\ a = ((a \div DayLength) * DayLength) + (a % DayLength)
  BY ScheduleAssumption, SMT

\* Dates and times are ordered as the slots they stand for.
LEMMA SlotOrder ==
    ASSUME NEW d1 \in Int, NEW t1 \in Time, NEW d2 \in Int, NEW t2 \in Time
    PROVE  d1 * DayLength + t1 <= d2 * DayLength + t2
               <=> (d1 < d2 \/ (d1 = d2 /\ t1 <= t2))
  <1>1. CASE d1 < d2
    <2>1. (d2 - d1 - 1) * DayLength >= 0  BY <1>1, ScheduleAssumption
    <2>2. d2 * DayLength >= d1 * DayLength + DayLength  BY <2>1, ScheduleAssumption
    <2> QED  BY <1>1, <2>2, ScheduleAssumption DEF Time
  <1>2. CASE d1 = d2  BY <1>2, ScheduleAssumption DEF Time
  <1>3. CASE d1 > d2
    <2>1. (d1 - d2 - 1) * DayLength >= 0  BY <1>3, ScheduleAssumption
    <2>2. d1 * DayLength >= d2 * DayLength + DayLength  BY <2>1, ScheduleAssumption
    <2> QED  BY <1>3, <2>2, ScheduleAssumption DEF Time
  <1> QED  BY <1>1, <1>2, <1>3

\* Division by the parts of a slot.
LEMMA PartsDivMod ==
    ASSUME NEW a \in Int
    PROVE  /\ SlotOf(a) \in Int
           /\ a % SlotParts \in 0..SlotParts-1
           /\ a = (SlotOf(a) * SlotParts) + (a % SlotParts)
  BY ScheduleAssumption, SMT DEF SlotOf

\* Slots are ordered as the instants they begin at.
LEMMA SlotScale ==
    ASSUME NEW x \in Int, NEW y \in Int
    PROVE  /\ x * SlotParts \in Int
           /\ (y - x) * SlotParts = y * SlotParts - x * SlotParts
           /\ x <= y <=> x * SlotParts <= y * SlotParts
           /\ x = y <=> x * SlotParts = y * SlotParts
  <1>1. /\ x * SlotParts \in Int /\ y * SlotParts \in Int /\ SlotParts \in Int /\ SlotParts > 0
    BY ScheduleAssumption
  <1>2. (y - x) * SlotParts = y * SlotParts - x * SlotParts  BY <1>1
  <1>3. x <= y => x * SlotParts <= y * SlotParts
    <2>1. x <= y => (y - x) * SlotParts >= 0  BY <1>1
    <2> QED  BY <1>1, <1>2, <2>1
  <1>4. x > y => x * SlotParts > y * SlotParts
    <2>1. x > y => (x - y - 1) * SlotParts >= 0  BY <1>1
    <2>2. (x - y - 1) * SlotParts = x * SlotParts - y * SlotParts - SlotParts  BY <1>1
    <2> QED  BY <1>1, <2>1, <2>2
  <1>5. y > x => y * SlotParts > x * SlotParts
    <2>1. y > x => (y - x - 1) * SlotParts >= 0  BY <1>1
    <2>2. (y - x - 1) * SlotParts = y * SlotParts - x * SlotParts - SlotParts  BY <1>1
    <2> QED  BY <1>1, <2>1, <2>2
  <1> QED  BY <1>1, <1>2, <1>3, <1>4, <1>5

LEMMA SlotSum ==
    ASSUME NEW x \in Int, NEW n \in Int
    PROVE  (x + n) * SlotParts = x * SlotParts + n * SlotParts
  BY ScheduleAssumption

\* An instant so many slots later lies that many slots later.
LEMMA SlotLater ==
    ASSUME NEW i \in Int, NEW n \in Int
    PROVE  SlotOf(i + n * SlotParts) = SlotOf(i) + n
  <1> DEFINE j == i + n * SlotParts
  <1>1. n * SlotParts \in Int /\ SlotParts \in Nat \ {0}  BY SlotScale, ScheduleAssumption
  <1>2. j \in Int  BY <1>1
  <1>3. i = (SlotOf(i) * SlotParts) + (i % SlotParts)  BY PartsDivMod
  <1>4. j = (SlotOf(j) * SlotParts) + (j % SlotParts)  BY <1>2, PartsDivMod
  <1>5. j = i + n * SlotParts  OBVIOUS
  <1> DEFINE x == SlotOf(i) + n  y == SlotOf(j)  p == i % SlotParts  q == j % SlotParts
  <1>6. x \in Int /\ y \in Int /\ p \in 0..SlotParts-1 /\ q \in 0..SlotParts-1
        /\ SlotOf(i) \in Int
    BY <1>2, PartsDivMod
  <1>7. x * SlotParts = SlotOf(i) * SlotParts + n * SlotParts
    <2> HIDE DEF j
    <2> QED  BY <1>6, SlotSum
  <1> HIDE DEF j
  <1>8. y * SlotParts + q = x * SlotParts + p
    <2> DEFINE s == SlotOf(i) * SlotParts  xs == x * SlotParts  ys == y * SlotParts
               ns == n * SlotParts
    <2>1. s \in Int /\ xs \in Int /\ ys \in Int  BY <1>6, SlotScale
    <2>2. i = s + p /\ j = ys + q /\ j = i + ns /\ xs = s + ns
      BY <1>3, <1>4, <1>5, <1>7
    <2>3. ns \in Int  BY <1>1
    <2> HIDE DEF s, xs, ys, ns, x, y, p, q
    <2>4. ys + q = xs + p  BY <1>6, <2>1, <2>2, <2>3
    <2> QED  BY <2>4 DEF xs, ys
  <1>9. x * SlotParts \in Int /\ y * SlotParts \in Int  BY <1>6, SlotScale
  <1> HIDE DEF x, y, p, q
  <1>10. ~ (x < y)
    <2>1. x < y => x + 1 <= y  BY <1>6
    <2>2. x + 1 <= y => (x + 1) * SlotParts <= y * SlotParts  BY <1>6, SlotScale
    <2>3. (x + 1) * SlotParts = x * SlotParts + SlotParts  BY <1>1, <1>6
    <2> QED  BY <1>1, <1>6, <1>8, <1>9, <2>1, <2>2, <2>3
  <1>11. ~ (y < x)
    <2>1. y < x => y + 1 <= x  BY <1>6
    <2>2. y + 1 <= x => (y + 1) * SlotParts <= x * SlotParts  BY <1>6, SlotScale
    <2>3. (y + 1) * SlotParts = y * SlotParts + SlotParts  BY <1>1, <1>6
    <2> QED  BY <1>1, <1>6, <1>8, <1>9, <2>1, <2>2, <2>3
  <1>12. x = y  BY <1>6, <1>10, <1>11
  <1> QED  BY <1>12 DEF x, y, j

LEMMA InstantSlot ==
    ASSUME NEW date \in Int, NEW time \in Time
    PROVE  date * DayLength + time - Offset \in Int
  BY ScheduleAssumption DEF Time

LEMMA InstantType ==
    ASSUME NEW date \in Int, NEW time \in Time
    PROVE  Instant(date, time) \in Int
  BY InstantSlot, SlotScale DEF Instant

\* localInputToISO keeps the order of dates and times.
LEMMA InstantOrder ==
    ASSUME NEW d1 \in Int, NEW t1 \in Time, NEW d2 \in Int, NEW t2 \in Time
    PROVE  Instant(d1, t1) <= Instant(d2, t2) <=> (d1 < d2 \/ (d1 = d2 /\ t1 <= t2))
  <1> DEFINE a == d1 * DayLength  b == d2 * DayLength
  <1>1. a \in Int /\ b \in Int  BY ScheduleAssumption
  <1>2. a + t1 <= b + t2 <=> (d1 < d2 \/ (d1 = d2 /\ t1 <= t2))  BY SlotOrder
  <1>3. t1 \in Int /\ t2 \in Int /\ Offset \in Int  BY ScheduleAssumption DEF Time
  <1>5. Instant(d1, t1) <= Instant(d2, t2) <=> a + t1 - Offset <= b + t2 - Offset
    BY InstantSlot, SlotScale DEF Instant
  <1> HIDE DEF a, b
  <1>4. a + t1 - Offset <= b + t2 - Offset <=> a + t1 <= b + t2  BY <1>1, <1>3
  <1> QED  BY <1>2, <1>4, <1>5

\* localInputToISO gives back what localDateTimeParts was given, less the parts of its slot.
LEMMA ReadBack ==
    ASSUME NEW i \in Int
    PROVE  /\ LocalDate(i) \in Int
           /\ LocalTime(i) \in Time
           /\ LocalDate(i) * DayLength + LocalTime(i) - Offset = SlotOf(i)
           /\ Instant(LocalDate(i), LocalTime(i)) = SlotOf(i) * SlotParts
  <1> DEFINE a == SlotOf(i) + Offset
  <1>0. SlotOf(i) \in Int /\ Offset \in Int  BY PartsDivMod, ScheduleAssumption
  <1>1. a \in Int  BY <1>0
  <1>3. SlotOf(i) = a - Offset  BY <1>0
  <1>4. LocalDate(i) = a \div DayLength /\ LocalTime(i) = a % DayLength
    BY DEF LocalDate, LocalTime
  <1> HIDE DEF a
  <1>2. /\ a \div DayLength \in Int
        /\ a % DayLength \in 0..DayLength-1
        /\ a = ((a \div DayLength) * DayLength) + (a % DayLength)
    BY <1>1, DivMod
  <1>5. LocalDate(i) * DayLength + LocalTime(i) - Offset = SlotOf(i)
    <2> DEFINE q == a \div DayLength  m == a % DayLength
    <2>1. q * DayLength \in Int /\ m \in Int  BY <1>2, ScheduleAssumption
    <2>2. a = q * DayLength + m  BY <1>2
    <2> HIDE DEF q, m
    <2>3. q * DayLength + m - Offset = SlotOf(i)  BY <1>0, <1>1, <1>3, <2>1, <2>2
    <2> QED  BY <1>4, <2>3 DEF q, m
  <1>6. Instant(LocalDate(i), LocalTime(i)) = SlotOf(i) * SlotParts
    BY <1>5 DEF Instant
  <1>7. LocalDate(i) \in Int /\ LocalTime(i) \in Time  BY <1>2, <1>4 DEF Time
  <1> QED  BY <1>5, <1>6, <1>7
-----------------------------------------------------------------------------
(* Drafts and rows                                                         *)

LEMMA DraftInstants ==
    ASSUME NEW d \in Draft
    PROVE  /\ OrElse(d.start_time, 0) \in Time
           /\ OrElse(d.due_time, EndOfDay) \in Time
           /\ DraftStart(d) \in Opt(Int) /\ (DraftStart(d) = None <=> d.start_date = None)
           /\ DraftDue(d) \in Opt(Int) /\ (DraftDue(d) = None <=> d.due_date = None)
  <1>1. 0 \in Time /\ EndOfDay \in Time  BY ScheduleAssumption DEF Time, EndOfDay
  <1>2. OrElse(d.start_time, 0) \in Time /\ OrElse(d.due_time, EndOfDay) \in Time
    BY <1>1 DEF Draft, Opt, OrElse
  <1>3. \A date \in Int, time \in Time : Instant(date, time) \in Int  BY InstantType
  <1> QED  BY <1>2, <1>3, ScheduleAssumption DEF Draft, Opt, DraftStart, DraftDue

LEMMA RowOfType ==
    ASSUME NEW d \in Draft
    PROVE  RowOf(d) \in Row
  BY DraftInstants DEF Draft, Opt, RowOf, RowWith, ScheduleOf, Timed, Dated, Row

LEMMA DraftOfType ==
    ASSUME NEW r \in Row
    PROVE  DraftOf(r) \in Draft
  <1>1. \A i \in Int : LocalDate(i) \in Int /\ LocalTime(i) \in Time  BY ReadBack
  <1> QED  BY <1>1 DEF Row, Opt, DraftOf, Draft

LEMMA WithDueType ==
    ASSUME NEW d \in Draft
    PROVE  WithDue(d) \in Draft
  <1>1. CASE None \in {d.start_date, d.start_time, d.estimate}
    BY <1>1 DEF WithDue
  <1>2. CASE None \notin {d.start_date, d.start_time, d.estimate}
    <2> DEFINE end == d.start_time + d.estimate
    <2>1. d.start_date \in Int /\ end \in Int
      BY <1>2, ScheduleAssumption DEF Draft, Opt, Time
    <2>2. end \div DayLength \in Int /\ end % DayLength \in 0..DayLength-1
      BY <2>1, DivMod
    <2> HIDE DEF end
    <2>3. WithDue(d) = [d EXCEPT !.due_date = d.start_date + (end \div DayLength),
                                 !.due_time = end % DayLength]
      BY <1>2 DEF end, WithDue
    <2>4. d.start_date + (end \div DayLength) \in Opt(Int) /\ end % DayLength \in Opt(Time)
      BY <2>1, <2>2 DEF Opt, Time
    <2> QED  BY <2>3, <2>4 DEF Draft
  <1> QED  BY <1>1, <1>2

LEMMA RangeType ==
    ASSUME NEW d \in Draft, HasRange(d)
    PROVE  RangeLength(d) \in Int
  BY ScheduleAssumption DEF Draft, Opt, Time, HasRange, RangeLength

LEMMA WithEstimateType ==
    ASSUME NEW d \in Draft
    PROVE  WithEstimate(d) \in Draft
  BY RangeType DEF WithEstimate, Draft, Opt

\* The patches of gestures name fields of a row and give them their type.
Patch == Schedule \cup [start_at : Int] \cup [due_at : Int]

LEMMA MergedType ==
    ASSUME NEW r \in Row, NEW p \in Patch
    PROVE  Merged(r, p) \in Row
  <1>1. CASE p \in Schedule  BY <1>1 DEF Merged, Row, Schedule, Opt
  <1>2. CASE p \in [start_at : Int]  BY <1>2 DEF Merged, Row, Opt
  <1>3. CASE p \in [due_at : Int]  BY <1>3 DEF Merged, Row, Opt
  <1> QED  BY <1>1, <1>2, <1>3 DEF Patch

LEMMA DatedType ==
    ASSUME NEW start \in Opt(Int), NEW due \in Opt(Int)
    PROVE  Dated(start, due) \in Schedule
  BY DEF Dated, Schedule, Opt

LEMMA TimedType ==
    ASSUME NEW start \in Opt(Int), NEW due \in Opt(Int)
    PROVE  Timed(start, due) \in Schedule
  BY DEF Timed, Schedule, Opt

\* Whoever writes elsewhere writes a row.
LEMMA AnyRowType == AnyRow \subseteq Row
  <1>1. AnyInstant \subseteq Int  BY InstantType DEF AnyInstant, Date
  <1>2. AnySchedule \subseteq Schedule
    BY <1>1, TimedType, DatedType DEF AnySchedule, Opt, Date
  <1>3. \A s \in Schedule, e \in Opt(1..MaxEstimate) : RowWith(s, e) \in Row
    BY ScheduleAssumption DEF RowWith, Schedule, Row, Opt
  <1> QED  BY <1>2, <1>3 DEF AnyRow

LEMMA ShiftedType ==
    ASSUME NEW value \in Opt(Int), NEW delta \in Int
    PROVE  Shifted(value, delta) \in Opt(Int)
  BY ScheduleAssumption DEF Shifted, Opt

LEMMA DropPatchesType ==
    ASSUME NEW r \in Row
    PROVE  DropPatches(r) \subseteq Schedule
  <1>1. ASSUME NEW date \in Date
        PROVE  DayDropPatch(r, date) \in Schedule
    <2>1. date \in Int  BY <1>1 DEF Date
    <2> DEFINE anchor == OrElse(r.due_date, r.start_date)
               delta == IF anchor = None THEN 0 ELSE date - anchor
    <2>2. delta \in Int  BY <2>1 DEF Row, Opt, OrElse
    <2>3. CASE ~ r.all_day
      BY <2>1, <2>3, DatedType DEF DayDropPatch, Opt
    <2>4. CASE r.all_day
      <3> DEFINE due == IF r.due_date = None THEN date ELSE r.due_date + delta
      <3>1. due \in Opt(Int)  BY <2>1, <2>2 DEF Row, Opt
      <3>2. Shifted(r.start_date, delta) \in Opt(Int)  BY <2>2, ShiftedType DEF Row
      <3>3. DayDropPatch(r, date) = Dated(Shifted(r.start_date, delta), due)
        BY <2>4 DEF DayDropPatch
      <3> HIDE DEF due, delta
      <3> QED  BY <3>1, <3>2, <3>3, DatedType
    <2> QED  BY <2>3, <2>4
  <1>2. ASSUME NEW date \in Date, NEW time \in Time
        PROVE  TimeDropPatch(r, date, time) \in Schedule
    <2> DEFINE anchor == OrElse(r.due_at, r.start_at)
               delta == Instant(date, time) - anchor
    <2>1. Instant(date, time) \in Int  BY InstantType DEF Date
    <2>2. anchor \in Opt(Int)  BY DEF OrElse, Row, Opt
    <2>3. CASE anchor = None
      BY <2>1, <2>3, TimedType DEF TimeDropPatch, Opt
    <2>4. CASE anchor # None
      <3>1. delta \in Int  BY <2>1, <2>2, <2>4 DEF Opt
      <3>2. TimeDropPatch(r, date, time)
                = Timed(Shifted(r.start_at, delta), Shifted(r.due_at, delta))
        BY <2>4 DEF TimeDropPatch
      <3> HIDE DEF delta
      <3> QED  BY <3>1, <3>2, ShiftedType, TimedType DEF Row
    <2> QED  BY <2>3, <2>4
  <1> QED  BY <1>1, <1>2 DEF DropPatches

LEMMA DateOnlyType ==
    ASSUME NEW r \in Row
    PROVE  DateOnlyPatches(r) \subseteq Schedule
  <1> SUFFICES ASSUME NEW time \in Time, ~ (r.start_date = None /\ r.due_date = None)
               PROVE  DateOnlyTimePatch(r, time) \in Schedule
    BY DEF DateOnlyPatches
  <1>1. \A date \in Int, t \in Time : Instant(date, t) \in Opt(Int)
    BY InstantType DEF Opt
  <1>2. EndOfDay \in Time  BY ScheduleAssumption DEF EndOfDay, Time
  <1>3. (IF r.due_date = r.start_date THEN time ELSE EndOfDay) \in Time  BY <1>2
  <1>4. None \in Opt(Int)  BY DEF Opt
  <1> QED  BY <1>1, <1>3, <1>4, TimedType DEF DateOnlyTimePatch, Row, Opt

LEMMA StretchPatchesType ==
    ASSUME NEW r \in Row
    PROVE  ResizePatches(r) \cup StartResizePatches(r) \cup DateOnlyPatches(r) \subseteq Patch
  <1>1. ResizePatches(r) \subseteq [due_at : Int]
    <2>1. LastDay * DayLength \in Int  BY ScheduleAssumption
    <2>2. OrElse(r.start_at, r.due_at) \in Opt(Int)  BY DEF OrElse, Row, Opt
    <2>3. \A n \in Int : n * SlotParts \in Int  BY SlotScale
    <2> QED  BY <2>1, <2>2, <2>3 DEF ResizePatches, ResizePatch, Opt
  <1>2. StartResizePatches(r) \subseteq [start_at : Int]
    <2>1. \A date \in Int, time \in Time : Instant(date, time) \in Int  BY InstantType
    <2>2. \A i \in Int : UtcDate(i) \in Int  BY DivMod, PartsDivMod DEF UtcDate
    <2>3. HasLength(r) => r.start_at \in Int  BY DEF HasLength, Row, Opt
    <2> QED
      BY <2>1, <2>2, <2>3 DEF StartResizePatches, StartResizePatch, TopEdgeTimes
  <1>3. DateOnlyPatches(r) \subseteq Schedule  BY DateOnlyType
  <1> QED  BY <1>1, <1>2, <1>3 DEF Patch

LEMMA QuickPatchesType == QuickPatches \subseteq Schedule
  <1>1. \A date \in Date, time \in Time : Instant(date, time) \in Opt(Int)
    BY InstantType DEF Date, Opt
  <1>2. None \in Opt(Int) /\ Date \subseteq Opt(Int)  BY DEF Opt, Date
  <1> QED  BY <1>1, <1>2, TimedType, DatedType DEF QuickPatches

LEMMA PreviewType ==
    ASSUME NEW d \in Draft
    PROVE  Preview(d) \in Opt(Int)
  <1>1. AllDaySlot \in Time  BY ScheduleAssumption DEF Time
  <1>2. OrElse(d.start_time, AllDaySlot) \in Time /\ OrElse(d.due_time, AllDaySlot) \in Time
    BY <1>1 DEF OrElse, Draft, Opt
  <1> QED  BY <1>2, InstantType DEF Preview, Draft, Opt

LEMMA RequestForType ==
    ASSUME NEW d \in Draft
    PROVE  RequestFor(d) \in Request
  BY PreviewType DEF RequestFor, Request, Timing, MidnightStart, Opt

LEMMA TargetType ==
    ASSUME NEW r \in Row, NEW timing \in {"before_start", "before_due"}
    PROVE  Target(r, timing) \in Opt(Int)
  <1>1. AllDaySlot \in Time  BY ScheduleAssumption DEF Time
  <1>2. OrElse(r.start_date, r.due_date) \in Opt(Int)  BY DEF OrElse, Row, Opt
  <1>3. \A day \in Opt(Int) : NotificationTime(day) \in Opt(Int)
    BY <1>1, InstantType DEF NotificationTime, Opt
  <1> QED  BY <1>2, <1>3 DEF Target, Row
-----------------------------------------------------------------------------
(* Types                                                                   *)

\* Every variable keeps its type, and the stored row is one the backend takes.
THEOREM TypeCorrectness == Spec => []TypeOK
  <1>1. Init => TypeOK
    <2> SUFFICES ASSUME Init PROVE TypeOK
      OBVIOUS
    <2>1. 0 \in 0..MaxEdits  BY ScheduleAssumption
    <2> QED  BY <2>1 DEF Init, TypeOK, Stored, Opt
  <1>2. TypeOK /\ [Next]_vars => TypeOK'
    <2> SUFFICES ASSUME TypeOK, [Next]_vars PROVE TypeOK'
      OBVIOUS
    <2>0. row # None => row \in Row  BY DEF TypeOK, Stored, Opt
    <2>1. ASSUME NEW date \in Opt(Date), NEW time \in Opt(Time),
                 NEW estimate \in Opt(1..MaxEstimate), NEW remind \in BOOLEAN,
                 QuickAdd(date, time, estimate, remind)
          PROVE  TypeOK'
      <3> DEFINE d0 == [start_date |-> date, start_time |-> time, due_date |-> None,
                        due_time |-> None, estimate |-> estimate, reminder |-> "on"]
                 d == WithDue(d0)
      <3>1. d0 \in Draft  BY ScheduleAssumption DEF Draft, Opt, Date
      <3>2. d \in Draft  BY <3>1, WithDueType
      <3>3. row' = RowOf(d) /\ Accepted(RowOf(d))  BY <2>1 DEF QuickAdd, Store
      <3>4. put' \in {None, [RequestFor(d) EXCEPT !.shown = None]}  BY <2>1 DEF QuickAdd
      <3>5. UNCHANGED <<draft, edits, armed, loose>>  BY <2>1 DEF QuickAdd
      <3> HIDE DEF d
      <3>6. row' \in Row  BY <3>2, <3>3, RowOfType
      <3>7. put' \in Opt(Request)  BY <3>2, <3>4, RequestForType DEF Request, Opt
      <3> QED  BY <3>3, <3>5, <3>6, <3>7 DEF TypeOK, Stored, Opt
    <2>2. ASSUME NEW r \in AnyRow, WriteElsewhere(r) PROVE TypeOK'
      <3>1. row' = r /\ Accepted(r) /\ r \in Row  BY <2>2, AnyRowType DEF WriteElsewhere, Store
      <3>2. put' \in Opt(Request)  BY <2>2 DEF WriteElsewhere, TypeOK, Stored, Request, Opt
      <3> QED  BY <2>2, <3>1, <3>2 DEF WriteElsewhere, TypeOK, Stored, Opt
    <2>3. CASE OpenDrawer
      BY <2>0, <2>3, DraftOfType, ScheduleAssumption DEF OpenDrawer, TypeOK, Stored, Opt
    <2>4. CASE CloseDrawer
      BY <2>4, ScheduleAssumption DEF CloseDrawer, TypeOK, Stored, Opt
    <2>5. ASSUME NEW d \in Draft, Edit(d) PROVE TypeOK'
      BY <2>5, ScheduleAssumption DEF Edit, TypeOK, Stored, Opt
    <2>6. ASSUME NEW date \in Opt(Date), EditStartDate(date) \/ EditDueDate(date)
          PROVE  TypeOK'
      <3>1. draft \in Draft  BY <2>6 DEF EditStartDate, EditDueDate, Edit, TypeOK, Stored, Opt
      <3>2. /\ [draft EXCEPT !.start_date = date] \in Draft
            /\ [draft EXCEPT !.due_date = date] \in Draft
        BY <3>1 DEF Draft, Opt, Date
      <3> QED
        BY <2>5, <2>6, <3>2, WithDueType, WithEstimateType DEF EditStartDate, EditDueDate
    <2>7. ASSUME NEW time \in Time, EditStartTime(time) \/ EditDueTime(time)
          PROVE  TypeOK'
      <3>1. draft \in Draft  BY <2>7 DEF EditStartTime, EditDueTime, Edit, TypeOK, Stored, Opt
      <3>2. /\ [draft EXCEPT !.start_time = time] \in Draft
            /\ [draft EXCEPT !.due_time = time] \in Draft
        BY <3>1 DEF Draft, Opt
      <3> QED
        BY <2>5, <2>7, <3>2, WithDueType, WithEstimateType DEF EditStartTime, EditDueTime
    <2>8. ASSUME NEW estimate \in Opt(1..MaxEstimate), EditEstimate(estimate)
          PROVE  TypeOK'
      <3>1. draft \in Draft  BY <2>8 DEF EditEstimate, Edit, TypeOK, Stored, Opt
      <3>2. [draft EXCEPT !.estimate = estimate] \in Draft
        BY <3>1, ScheduleAssumption DEF Draft, Opt
      <3> QED  BY <2>5, <2>8, <3>2, WithDueType DEF EditEstimate
    <2>9. ASSUME NEW choice \in {"on", "off"}, TouchReminder(choice) PROVE TypeOK'
      BY <2>9 DEF TouchReminder, TypeOK, Stored, Draft, Opt
    <2>10. CASE Save
      <3>1. draft \in Draft  BY <2>10 DEF Save, TypeOK, Stored, Opt
      <3>2. row' \in Row /\ Accepted(row')  BY <2>10, <3>1, RowOfType DEF Save, Store
      <3>3. put' \in Opt(Request)  BY <2>10, <3>1, RequestForType DEF Save, Opt
      <3>4. loose' \in BOOLEAN  BY <2>10 DEF Save
      <3> QED
        BY <2>10, <3>2, <3>3, <3>4, ScheduleAssumption DEF Save, TypeOK, Stored, Opt
    <2>11. CASE SendReminder
      <3>1. put \in Request  BY <2>11 DEF SendReminder, TypeOK, Stored, Opt
      <3>2. Target(row, put.timing) \in Opt(Int)
        BY <2>0, <2>11, <3>1, TargetType DEF SendReminder, TypeOK, Stored, Request
      <3>3. armed' \in Opt([at : Int, shown : Opt(Int), bare : BOOLEAN])
        BY <2>11, <3>1, <3>2 DEF SendReminder, TypeOK, Stored, Request, Opt
      <3> QED  BY <2>11, <3>3 DEF SendReminder, TypeOK, Stored, Opt
    <2>12. CASE LoseReminder
      BY <2>12 DEF LoseReminder, TypeOK, Stored, Opt
    <2>13. ASSUME NEW patch \in QuickPatches, Reschedule(patch) PROVE TypeOK'
      <3>1. row \in Row  BY <2>0, <2>13 DEF Reschedule, TypeOK, Stored
      <3>2. Merged(row, patch) \in Row  BY <3>1, QuickPatchesType, MergedType DEF Patch
      <3>3. row' = Merged(row, patch) /\ Accepted(row')  BY <2>13 DEF Reschedule, Store
      <3>4. draft' \in Draft  BY <2>13, <3>2, DraftOfType DEF Reschedule
      <3> QED
        BY <2>13, <3>2, <3>3, <3>4, ScheduleAssumption DEF Reschedule, TypeOK, Stored, Opt
    <2>14. ASSUME NEW patch \in Patch, row # None, Drop(patch) \/ Stretch(patch)
           PROVE  TypeOK'
      <3>1. row' = Merged(row, patch) /\ Accepted(row')
        BY <2>14 DEF Drop, Stretch, Gesture, Store
      <3>2. row' \in Row  BY <2>0, <2>14, <3>1, MergedType
      <3> QED  BY <2>14, <3>1, <3>2 DEF Drop, Stretch, Gesture, TypeOK, Stored, Opt
    <2>15. CASE UNCHANGED vars
      BY <2>15 DEF vars, TypeOK, Stored
    <2> QED
      BY <2>0, <2>1, <2>2, <2>3, <2>4, <2>6, <2>7, <2>8, <2>9, <2>10, <2>11, <2>12, <2>13,
         <2>14, <2>15, DropPatchesType, StretchPatchesType DEF Next, Patch
  <1> QED  BY <1>1, <1>2, PTL DEF Spec
-----------------------------------------------------------------------------
(* The alarm that was announced                                            *)

\* The alarm that a request announces: that of the preview, or midnight for a start whose
\* time was left out.
Announces(request) ==
    IF request.bare THEN request.shown - AllDaySlot * SlotParts ELSE request.shown

\* Nine o'clock of a day is so many slots after its midnight.
LEMMA NineOClock ==
    ASSUME NEW date \in Int
    PROVE  Instant(date, AllDaySlot) - AllDaySlot * SlotParts = Instant(date, 0)
  <1>1. AllDaySlot \in Time /\ 0 \in Time /\ AllDaySlot \in Int
    BY ScheduleAssumption DEF Time
  <1> DEFINE x == date * DayLength + 0 - Offset
  <1>2. x \in Int /\ date * DayLength + AllDaySlot - Offset = x + AllDaySlot
    BY <1>1, ScheduleAssumption
  <1>3. Instant(date, 0) = x * SlotParts  BY DEF Instant
  <1>4. Instant(date, AllDaySlot) = (x + AllDaySlot) * SlotParts  BY <1>2 DEF Instant
  <1> HIDE DEF x
  <1>5. Instant(date, AllDaySlot) = x * SlotParts + AllDaySlot * SlotParts
    BY <1>1, <1>2, <1>4, SlotSum
  <1>6. x * SlotParts \in Int /\ AllDaySlot * SlotParts \in Int  BY <1>1, <1>2, SlotScale
  <1> QED  BY <1>3, <1>5, <1>6

\* What the drawer shows is what the server computes from the row that the
\* save makes, or the server finds no target; a start without a time, beside a
\* due with one, is announced for nine o'clock and computed for midnight.
LEMMA PreviewIsTarget ==
    ASSUME NEW d \in Draft, Preview(d) # None
    PROVE  Target(RowOf(d), Timing(d)) \in {None, Announces(RequestFor(d))}
  <1> USE DEF Target, RowOf, RowWith, Timing
  <1>0. /\ d.reminder = "on"
        /\ RequestFor(d).shown = Preview(d) /\ RequestFor(d).bare = MidnightStart(d)
    BY DEF Preview, RequestFor
  <1>1. CASE ~ IsTimed(d)
    <2>1. Target(RowOf(d), Timing(d)) = NotificationTime(OrElse(d.start_date, d.due_date))
      BY <1>1 DEF ScheduleOf, Dated
    <2>2. d.start_time = None /\ d.due_time = None  BY <1>1 DEF IsTimed
    <2>3. ~ MidnightStart(d)  BY <2>2 DEF MidnightStart
    <2> QED  BY <1>0, <2>1, <2>2, <2>3 DEF NotificationTime, OrElse, Preview, Announces
  <1>2. CASE IsTimed(d) /\ d.start_date # None /\ ~ MidnightStart(d)
    <2>1. d.start_time # None  BY <1>2 DEF IsTimed, MidnightStart
    <2>2. Target(RowOf(d), Timing(d)) = DraftStart(d)
      BY <1>2 DEF ScheduleOf, Timed
    <2> QED  BY <1>0, <1>2, <2>1, <2>2 DEF DraftStart, OrElse, Preview, Announces
  <1>3. CASE IsTimed(d) /\ d.start_date = None
    <2>0. ~ MidnightStart(d)  BY <1>3 DEF MidnightStart
    <2>1. CASE d.start_time # None
      BY <1>3, <2>1 DEF ScheduleOf, Timed, DraftStart
    <2>2. CASE d.start_time = None
      <3>1. d.due_time # None  BY <1>3, <2>2 DEF IsTimed
      <3>2. Target(RowOf(d), Timing(d)) = DraftDue(d)
        BY <1>3, <2>2 DEF ScheduleOf, Timed
      <3> QED  BY <1>0, <1>3, <2>0, <3>1, <3>2 DEF DraftDue, OrElse, Preview, Announces
    <2> QED  BY <2>1, <2>2
  <1>4. CASE MidnightStart(d)
    <2>1. d.start_date \in Int /\ d.start_date # None /\ d.start_time = None /\ IsTimed(d)
      BY <1>4 DEF MidnightStart, IsTimed, Draft, Opt
    <2>2. Target(RowOf(d), Timing(d)) = Instant(d.start_date, 0)
      BY <2>1 DEF ScheduleOf, Timed, DraftStart, OrElse
    <2>3. Preview(d) = Instant(d.start_date, AllDaySlot)  BY <1>0, <2>1 DEF Preview, OrElse
    <2> QED  BY <1>0, <1>4, <2>1, <2>2, <2>3, NineOClock DEF Announces
  <1> QED  BY <1>1, <1>2, <1>3, <1>4

\* A request under way belongs to no open drawer, and the row still has the
\* target that was shown: this is what makes RingsAsShown inductive.
Announced ==
    /\ put # None => draft = None
    /\ put # None /\ put.shown # None => Target(row, put.timing) \in {None, Announces(put)}

\* A reminder rings when the drawer said it would.
THEOREM AlarmsAsShown == Spec => []RingsAsShown
  <1>1. Init => Announced /\ RingsAsShown
    BY DEF Init, Announced, RingsAsShown
  <1>2. TypeOK /\ Announced /\ RingsAsShown /\ [Next]_vars => (Announced /\ RingsAsShown)'
    <2> SUFFICES ASSUME TypeOK, Announced, RingsAsShown, [Next]_vars
                 PROVE  (Announced /\ RingsAsShown)'
      OBVIOUS
    <2>1. ASSUME NEW date \in Opt(Date), NEW time \in Opt(Time),
                 NEW estimate \in Opt(1..MaxEstimate), NEW remind \in BOOLEAN,
                 QuickAdd(date, time, estimate, remind)
          PROVE  (Announced /\ RingsAsShown)'
      <3>1. put' = None \/ put'.shown = None
        BY <2>1 DEF QuickAdd, RequestFor
      <3>2. draft = None /\ UNCHANGED <<draft, armed>>
        BY <2>1 DEF QuickAdd
      <3> QED  BY <3>1, <3>2 DEF Announced, RingsAsShown
    <2>2. ASSUME NEW r \in AnyRow, WriteElsewhere(r) PROVE (Announced /\ RingsAsShown)'
      <3>1. put' = None \/ put'.shown = None
        BY <2>2 DEF WriteElsewhere, TypeOK, Stored, Opt, Request
      <3> QED  BY <2>2, <3>1 DEF WriteElsewhere, Announced, RingsAsShown
    <2>3. CASE OpenDrawer
      BY <2>3 DEF OpenDrawer, Announced, RingsAsShown
    <2>4. CASE CloseDrawer
      BY <2>4 DEF CloseDrawer, Announced, RingsAsShown
    <2>5. ASSUME NEW d, Edit(d) PROVE (Announced /\ RingsAsShown)'
      BY <2>5 DEF Edit, Announced, RingsAsShown
    <2>6. ASSUME NEW choice \in {"on", "off"}, TouchReminder(choice)
          PROVE  (Announced /\ RingsAsShown)'
      BY <2>6 DEF TouchReminder, Announced, RingsAsShown
    <2>7. CASE Save
      <3>1. draft \in Draft /\ row' = RowOf(draft)  BY <2>7 DEF Save, Store, TypeOK, Stored, Opt
      <3>2. put' \in {None, RequestFor(draft)} /\ draft' = None /\ armed' = armed
        BY <2>7 DEF Save
      <3>3. RequestFor(draft).shown # None
                => Target(RowOf(draft), RequestFor(draft).timing)
                       \in {None, Announces(RequestFor(draft))}
        BY <3>1, PreviewIsTarget DEF RequestFor
      <3> QED  BY <3>1, <3>2, <3>3 DEF Announced, RingsAsShown
    <2>8. CASE SendReminder
      BY <2>8 DEF SendReminder, Announced, Announces, RingsAsShown
    <2>9. CASE LoseReminder
      BY <2>9 DEF LoseReminder, Announced, RingsAsShown
    <2>10. ASSUME NEW patch, Reschedule(patch) PROVE (Announced /\ RingsAsShown)'
      BY <2>10 DEF Reschedule, Announced, RingsAsShown
    <2>11. ASSUME NEW patch, Drop(patch) \/ Stretch(patch) PROVE (Announced /\ RingsAsShown)'
      BY <2>11 DEF Drop, Stretch, Gesture, Announced, RingsAsShown
    <2>12. CASE UNCHANGED vars
      BY <2>12 DEF vars, Announced, RingsAsShown
    <2>13. ASSUME NEW d, EditStartDate(d) \/ EditStartTime(d) \/ EditEstimate(d)
                             \/ EditDueDate(d) \/ EditDueTime(d)
           PROVE  (Announced /\ RingsAsShown)'
      BY <2>5, <2>13 DEF EditStartDate, EditStartTime, EditEstimate, EditDueDate, EditDueTime
    <2> QED
      BY <2>1, <2>2, <2>3, <2>4, <2>6, <2>7, <2>8, <2>9, <2>10, <2>11, <2>12, <2>13
         DEF Next
  <1> QED  BY <1>1, <1>2, TypeCorrectness, PTL DEF Spec
-----------------------------------------------------------------------------
(* Forms and backend read a schedule alike                                 *)

\* The client's order check refuses exactly what validate_schedule refuses.
LEMMA MirrorOfOrder ==
    ASSUME NEW d \in Draft
    PROVE  OrderError(d) <=> ~ ValidSchedule(ScheduleOf(d))
  <1>1. CASE ~ IsTimed(d)
    <2>1. ValidSchedule(ScheduleOf(d)) <=> InOrder(d.start_date, d.due_date)
      BY <1>1 DEF ScheduleOf, Dated, ValidSchedule
    <2>2. OrderError(d) <=> /\ None \notin {d.start_date, d.due_date}
                            /\ d.start_date > d.due_date
      BY <1>1 DEF OrderError
    <2> QED  BY <2>1, <2>2 DEF InOrder, Draft, Opt
  <1>2. CASE IsTimed(d)
    <2>1. ValidSchedule(ScheduleOf(d)) <=> InOrder(DraftStart(d), DraftDue(d))
      BY <1>2 DEF ScheduleOf, Timed, ValidSchedule
    <2>2. CASE None \in {d.start_date, d.due_date}
      BY <2>1, <2>2, DraftInstants DEF OrderError, InOrder
    <2>3. CASE None \notin {d.start_date, d.due_date}
      <3> DEFINE t1 == OrElse(d.start_time, 0)  t2 == OrElse(d.due_time, EndOfDay)
      <3>1. d.start_date \in Int /\ d.due_date \in Int  BY <2>3 DEF Draft, Opt
      <3>2. t1 \in Time /\ t2 \in Time  BY DraftInstants
      <3>3. /\ DraftStart(d) = Instant(d.start_date, t1)
            /\ DraftDue(d) = Instant(d.due_date, t2)
        BY <2>3 DEF DraftStart, DraftDue
      <3>4. DraftStart(d) # None /\ DraftDue(d) # None  BY <2>3, DraftInstants
      <3>5. OrderError(d) <=> \/ d.start_date > d.due_date
                              \/ d.start_date = d.due_date /\ t1 > t2
        BY <1>2, <2>3 DEF OrderError
      <3> HIDE DEF t1, t2
      <3>6. Instant(d.start_date, t1) <= Instant(d.due_date, t2)
                <=> (d.start_date < d.due_date \/ (d.start_date = d.due_date /\ t1 <= t2))
        BY <3>1, <3>2, InstantOrder
      <3>7. t1 \in Int /\ t2 \in Int  BY <3>2, ScheduleAssumption DEF Time
      <3> QED  BY <2>1, <3>1, <3>3, <3>4, <3>5, <3>6, <3>7 DEF InOrder
    <2> QED  BY <2>2, <2>3
  <1> QED  BY <1>1, <1>2

\* scheduleOrderError mirrors the backend on every draft a user can make.
THEOREM MirrorsAreExact == Spec => []MirrorIsExact
  <1>1. TypeOK => MirrorIsExact  BY MirrorOfOrder DEF TypeOK, Stored, Opt, MirrorIsExact
  <1> QED  BY <1>1, TypeCorrectness, PTL

\* A row without the parts of its slots.
Whole(r) == [r EXCEPT !.start_at = WholeSlot(@), !.due_at = WholeSlot(@)]

\* Reading a valid row into a drawer and building its schedule again drops the
\* parts of its slots and nothing else, if the row has a date at all.
LEMMA RoundTrip ==
    ASSUME NEW r \in Row, Accepted(r), HasSchedule(DraftOf(r))
    PROVE  RowOf(DraftOf(r)) = Whole(r)
  <1> DEFINE d == DraftOf(r)
  <1>1. ASSUME NEW i \in Int
        PROVE  LocalTime(i) # None /\ LocalDate(i) # None
               /\ Instant(LocalDate(i), LocalTime(i)) = WholeSlot(i)
    <2>1. Time \subseteq Int  BY ScheduleAssumption DEF Time
    <2> QED  BY <2>1, ReadBack, ScheduleAssumption DEF WholeSlot
  <1>0. WholeSlot(None) = None  BY DEF WholeSlot
  <1>4. Whole(r) = RowWith([all_day |-> r.all_day, start_at |-> WholeSlot(r.start_at),
                            due_at |-> WholeSlot(r.due_at), start_date |-> r.start_date,
                            due_date |-> r.due_date], r.estimate)
    <2> DEFINE start == WholeSlot(r.start_at)  due == WholeSlot(r.due_at)
    <2>1. Whole(r) = [r EXCEPT !.start_at = start, !.due_at = due]  BY DEF Whole
    <2> HIDE DEF start, due
    <2>2. [r EXCEPT !.start_at = start, !.due_at = due]
              = [all_day |-> r.all_day, start_at |-> start, due_at |-> due,
                 start_date |-> r.start_date, due_date |-> r.due_date, estimate |-> r.estimate]
      <3> DEFINE e == [r EXCEPT !.start_at = start, !.due_at = due]
      <3>1. /\ DOMAIN r = {"all_day", "start_at", "due_at", "start_date", "due_date", "estimate"}
            /\ DOMAIN e = DOMAIN r
        BY DEF Row
      <3>2. /\ e.all_day = r.all_day /\ e.start_at = start /\ e.due_at = due
            /\ e.start_date = r.start_date /\ e.due_date = r.due_date /\ e.estimate = r.estimate
        BY DEF Row
      <3>3. e = [f \in DOMAIN r |-> e[f]]  BY <3>1
      <3> HIDE DEF e
      <3>4. e = [f \in {"all_day", "start_at", "due_at", "start_date", "due_date", "estimate"}
                    |-> e[f]]
        BY <3>1, <3>3
      <3>5. e = [all_day |-> e.all_day, start_at |-> e.start_at, due_at |-> e.due_at,
                 start_date |-> e.start_date, due_date |-> e.due_date, estimate |-> e.estimate]
        BY <3>4
      <3>6. e = [all_day |-> r.all_day, start_at |-> start, due_at |-> due,
                 start_date |-> r.start_date, due_date |-> r.due_date, estimate |-> r.estimate]
        BY <3>2, <3>5
      <3> QED  BY <3>6 DEF e
    <2> QED  BY <2>1, <2>2 DEF RowWith, start, due
  <1>2. CASE r.all_day
    <2>1. r.start_at = None /\ r.due_at = None  BY <1>2 DEF Accepted, ValidSchedule
    <2>2. /\ d.start_time = None /\ d.due_time = None /\ d.estimate = r.estimate
          /\ d.start_date = r.start_date /\ d.due_date = r.due_date
      BY <2>1 DEF DraftOf
    <2> HIDE DEF d
    <2>3. RowOf(d) = RowWith(Dated(r.start_date, r.due_date), r.estimate)
      BY <2>2 DEF RowOf, ScheduleOf, IsTimed
    <2> QED  BY <1>0, <1>2, <1>4, <2>1, <2>3 DEF RowWith, Dated, Row, d
  <1>3. CASE ~ r.all_day
    <2>1. r.start_date = None /\ r.due_date = None  BY <1>3 DEF Accepted, ValidSchedule
    <2>2. r.start_at \in Opt(Int) /\ r.due_at \in Opt(Int)  BY DEF Row
    <2>3. DraftStart(d) = WholeSlot(r.start_at) /\ (d.start_time = None <=> r.start_at = None)
      BY <1>0, <1>1, <2>1, <2>2 DEF DraftOf, DraftStart, OrElse, Opt
    <2>4. DraftDue(d) = WholeSlot(r.due_at) /\ (d.due_time = None <=> r.due_at = None)
      BY <1>0, <1>1, <2>1, <2>2 DEF DraftOf, DraftDue, OrElse, Opt
    <2>5. IsTimed(d)  BY <2>1, <2>3, <2>4 DEF IsTimed, HasSchedule, DraftOf
    <2>6. d.estimate = r.estimate  BY DEF DraftOf
    <2> HIDE DEF d
    <2>7. RowOf(d) = RowWith(Timed(WholeSlot(r.start_at), WholeSlot(r.due_at)), r.estimate)
      BY <2>3, <2>4, <2>5, <2>6 DEF RowOf, ScheduleOf
    <2>8. r.all_day = FALSE  BY <1>3 DEF Row
    <2> QED  BY <1>4, <2>1, <2>7, <2>8 DEF RowWith, Timed, d
  <1> QED  BY <1>2, <1>3

\* A draft without edits is what its drawer read from the row.
Opened == draft # None /\ edits = 0 => draft = [DraftOf(row) EXCEPT !.reminder = draft.reminder]

\* Saving a drawer in which nothing was edited drops the seconds and changes nothing else.
THEOREM UneditedSavesKeep == Spec => []UneditedSaveKeeps
  <1>1. Init => Opened  BY DEF Init, Opened
  <1>2. TypeOK /\ Opened /\ [Next]_vars => Opened'
    <2> SUFFICES ASSUME TypeOK, Opened, [Next]_vars PROVE Opened'
      OBVIOUS
    <2>1. ASSUME NEW r \in Row, draft' = DraftOf(r), row' = r PROVE Opened'
      BY <2>1 DEF Opened, DraftOf
    <2>2. CASE draft' = None  BY <2>2 DEF Opened
    <2>3. CASE OpenDrawer
      BY <2>1, <2>3 DEF OpenDrawer, TypeOK, Stored, Opt
    <2>4. ASSUME NEW d, Edit(d) PROVE Opened'
      BY <2>4 DEF Edit, Opened, TypeOK, Stored
    <2>5. ASSUME NEW choice \in {"on", "off"}, TouchReminder(choice) PROVE Opened'
      <3>1. draft \in Draft /\ row \in Row  BY <2>5 DEF TouchReminder, TypeOK, Stored, Opt
      <3>2. draft' = [draft EXCEPT !.reminder = choice] /\ edits' = edits /\ row' = row
        BY <2>5 DEF TouchReminder
      <3>3. DraftOf(row) \in Draft  BY <3>1, DraftOfType
      <3> QED  BY <2>5, <3>1, <3>2, <3>3 DEF TouchReminder, Opened, Draft
    <2>6. ASSUME NEW patch \in QuickPatches, Reschedule(patch) PROVE Opened'
      <3>1. row \in Row  BY <2>6 DEF Reschedule, TypeOK, Stored
      <3>2. Merged(row, patch) \in Row  BY <3>1, QuickPatchesType, MergedType DEF Patch
      <3> QED  BY <2>1, <2>6, <3>2 DEF Reschedule, Store
    <2>7. CASE SendReminder \/ LoseReminder \/ UNCHANGED vars
      BY <2>7 DEF SendReminder, LoseReminder, vars, Opened
    <2>8. ASSUME NEW d, EditStartDate(d) \/ EditStartTime(d) \/ EditEstimate(d)
                            \/ EditDueDate(d) \/ EditDueTime(d)
          PROVE  Opened'
      BY <2>4, <2>8 DEF EditStartDate, EditStartTime, EditEstimate, EditDueDate, EditDueTime
    <2>9. ASSUME NEW patch, Drop(patch) \/ Stretch(patch) PROVE draft' = None
      BY <2>9 DEF Drop, Stretch, Gesture
    <2>10. ASSUME NEW date, NEW time, NEW estimate, NEW remind,
                  QuickAdd(date, time, estimate, remind)
           PROVE  draft' = None
      BY <2>10 DEF QuickAdd
    <2>11. ASSUME NEW r, WriteElsewhere(r) PROVE draft' = None
      BY <2>11 DEF WriteElsewhere
    <2>12. CASE CloseDrawer \/ Save  BY <2>2, <2>12 DEF CloseDrawer, Save
    <2> QED
      BY <2>2, <2>3, <2>5, <2>6, <2>7, <2>8, <2>9, <2>10, <2>11, <2>12 DEF Next
  <1>3. TypeOK /\ Opened => UneditedSaveKeeps
    <2> SUFFICES ASSUME TypeOK, Opened, draft # None, edits = 0, HasSchedule(draft)
                 PROVE  RowOf(draft) = Whole(row)
      BY DEF UneditedSaveKeeps, Whole
    <2>1. row \in Row /\ Accepted(row) /\ draft \in Draft
      BY DEF TypeOK, Stored, Opt
    <2>2. draft = [DraftOf(row) EXCEPT !.reminder = draft.reminder]  BY DEF Opened
    <2>3. DraftOf(row) \in Draft  BY <2>1, DraftOfType
    <2>4. /\ draft.start_date = DraftOf(row).start_date
          /\ draft.start_time = DraftOf(row).start_time
          /\ draft.due_date = DraftOf(row).due_date
          /\ draft.due_time = DraftOf(row).due_time
          /\ draft.estimate = DraftOf(row).estimate
      BY <2>2, <2>3 DEF Draft
    <2>5. HasSchedule(DraftOf(row))  BY <2>4 DEF HasSchedule
    <2>6. RowOf(draft) = RowOf(DraftOf(row))
      BY <2>4 DEF RowOf, RowWith, ScheduleOf, IsTimed, Timed, Dated, DraftStart, DraftDue
    <2> QED  BY <2>1, <2>5, <2>6, RoundTrip
  <1> QED  BY <1>1, <1>2, <1>3, TypeCorrectness, PTL DEF Spec
-----------------------------------------------------------------------------
(* The derived estimate                                                    *)

\* The estimate of a draft is the length of its range.
Derived(d) ==
    HasRange(d) /\ d.estimate # None /\ RangeLength(d) > 0 => d.estimate = RangeLength(d)

\* The estimate of a row is the length of its range.
InStep(r) ==
    HasLength(r) /\ r.estimate # None /\ r.start_at < r.due_at
        => r.estimate * SlotParts = r.due_at - r.start_at

\* The length of a range is what lies between its instants.
LEMMA RangeBetween ==
    ASSUME NEW d1 \in Int, NEW t1 \in Time, NEW d2 \in Int, NEW t2 \in Time
    PROVE  Instant(d2, t2) - Instant(d1, t1) = ((d2 - d1) * DayLength + t2 - t1) * SlotParts
  <1>1. t1 \in Int /\ t2 \in Int /\ Offset \in Int /\ DayLength \in Int
    BY ScheduleAssumption DEF Time
  <1>2. (d2 - d1) * DayLength = d2 * DayLength - d1 * DayLength  BY <1>1
  <1> DEFINE x == d1 * DayLength + t1 - Offset  y == d2 * DayLength + t2 - Offset
  <1>3. x \in Int /\ y \in Int  BY <1>1
  <1>4. y - x = (d2 - d1) * DayLength + t2 - t1
    <2>1. d1 * DayLength \in Int /\ d2 * DayLength \in Int  BY <1>1
    <2> QED  BY <1>1, <1>2, <2>1
  <1>5. Instant(d1, t1) = x * SlotParts /\ Instant(d2, t2) = y * SlotParts  BY DEF Instant
  <1> HIDE DEF x, y
  <1> QED  BY <1>3, <1>4, <1>5, SlotScale

\* deriveDueFromStart: the due is an estimate after the start.
LEMMA DerivedDue ==
    ASSUME NEW d \in Draft
    PROVE  Derived(WithDue(d))
  <1>1. CASE None \in {d.start_date, d.start_time, d.estimate}
    BY <1>1 DEF WithDue, Derived, HasRange
  <1>2. CASE None \notin {d.start_date, d.start_time, d.estimate}
    <2> DEFINE end == d.start_time + d.estimate
               q == end \div DayLength
               m == end % DayLength
    <2>1. d.start_date \in Int /\ d.start_time \in Int /\ d.estimate \in Int
      BY <1>2, ScheduleAssumption DEF Draft, Opt, Time
    <2>2. q \in Int /\ m \in Int /\ end = (q * DayLength) + m
      BY <2>1, DivMod
    <2>3. WithDue(d) = [d EXCEPT !.due_date = d.start_date + q, !.due_time = m]
      BY <1>2 DEF WithDue
    <2>4. end = d.start_time + d.estimate  OBVIOUS
    <2> HIDE DEF end, q, m
    <2>5. /\ WithDue(d).start_date = d.start_date /\ WithDue(d).start_time = d.start_time
          /\ WithDue(d).due_date = d.start_date + q /\ WithDue(d).due_time = m
          /\ WithDue(d).estimate = d.estimate
      BY <2>3 DEF Draft
    <2>6. (d.start_date + q) - d.start_date = q  BY <2>1, <2>2
    <2>7. RangeLength(WithDue(d)) = q * DayLength + m - d.start_time
      BY <2>5, <2>6 DEF RangeLength
    <2>8. q * DayLength \in Int  BY <2>2, ScheduleAssumption
    <2>9. RangeLength(WithDue(d)) = d.estimate
      BY <2>1, <2>2, <2>4, <2>7, <2>8
    <2> QED  BY <2>5, <2>9 DEF Derived
  <1> QED  BY <1>1, <1>2

\* deriveEstimatedFromRange: the estimate is the range, if there is one.
LEMMA DerivedEstimate ==
    ASSUME NEW d \in Draft
    PROVE  Derived(WithEstimate(d))
  <1>1. CASE HasRange(d) /\ RangeLength(d) > 0
    <2>1. WithEstimate(d) = [d EXCEPT !.estimate = RangeLength(d)]  BY <1>1 DEF WithEstimate
    <2> QED  BY <2>1 DEF Derived, RangeLength, Draft
  <1>2. CASE ~ (HasRange(d) /\ RangeLength(d) > 0)
    BY <1>2 DEF WithEstimate, Derived
  <1> QED  BY <1>1, <1>2

\* A drawer that opens on a row in step has a draft in step.
LEMMA DerivedDraft ==
    ASSUME NEW r \in Row, Accepted(r), InStep(r)
    PROVE  Derived(DraftOf(r))
  <1> SUFFICES ASSUME HasRange(DraftOf(r)), DraftOf(r).estimate # None,
                      RangeLength(DraftOf(r)) > 0
               PROVE  r.estimate = RangeLength(DraftOf(r))
    BY DEF Derived, DraftOf
  <1>1. r.start_at # None /\ r.due_at # None  BY DEF HasRange, DraftOf
  <1>2. HasLength(r)  BY <1>1 DEF HasLength, Accepted, ValidSchedule
  <1>3. r.start_at \in Int /\ r.due_at \in Int  BY <1>1 DEF Row, Opt
  <1>4. RangeLength(DraftOf(r)) = (LocalDate(r.due_at) - LocalDate(r.start_at)) * DayLength
                               + LocalTime(r.due_at) - LocalTime(r.start_at)
    BY <1>1 DEF RangeLength, DraftOf
  <1>5. RangeLength(DraftOf(r)) = SlotOf(r.due_at) - SlotOf(r.start_at)
    <2> DEFINE d1 == LocalDate(r.start_at)  t1 == LocalTime(r.start_at)
               d2 == LocalDate(r.due_at)  t2 == LocalTime(r.due_at)
    <2>1. /\ d1 \in Int /\ t1 \in Time /\ d1 * DayLength + t1 - Offset = SlotOf(r.start_at)
          /\ d2 \in Int /\ t2 \in Time /\ d2 * DayLength + t2 - Offset = SlotOf(r.due_at)
      BY <1>3, ReadBack
    <2> HIDE DEF d1, t1, d2, t2
    <2>2. /\ t1 \in Int /\ t2 \in Int /\ Offset \in Int
          /\ d1 * DayLength \in Int /\ d2 * DayLength \in Int
          /\ (d2 - d1) * DayLength = d2 * DayLength - d1 * DayLength
      BY <2>1, ScheduleAssumption DEF Time
    <2>3. (d2 - d1) * DayLength + t2 - t1 = SlotOf(r.due_at) - SlotOf(r.start_at)
      BY <2>1, <2>2
    <2> QED  BY <1>4, <2>3 DEF d1, t1, d2, t2
  <1>6. r.estimate # None /\ r.estimate \in Int  BY DEF DraftOf, Row, Opt
  <1>7. r.start_at < r.due_at
    <2>1. r.start_at <= r.due_at  BY <1>1, <1>2 DEF HasLength, Accepted, ValidSchedule, InOrder
    <2>2. r.start_at # r.due_at
      <3>1. SlotOf(r.start_at) \in Int  BY <1>3, PartsDivMod
      <3> QED  BY <1>5, <3>1
    <2> QED  BY <1>3, <2>1, <2>2
  <1>8. r.estimate * SlotParts = r.due_at - r.start_at  BY <1>2, <1>6, <1>7 DEF InStep
  <1>9. r.due_at = r.start_at + r.estimate * SlotParts
    <2>1. r.estimate * SlotParts \in Int  BY <1>6, SlotScale
    <2> QED  BY <1>3, <1>8, <2>1
  <1>10. SlotOf(r.due_at) = SlotOf(r.start_at) + r.estimate  BY <1>3, <1>6, <1>9, SlotLater
  <1>11. SlotOf(r.start_at) \in Int  BY <1>3, PartsDivMod
  <1> QED  BY <1>5, <1>6, <1>10, <1>11

\* A draft in step leaves a row in step, unless buildSchedule fills a time in.
LEMMA DerivedRow ==
    ASSUME NEW d \in Draft, Derived(d), None \in {d.start_date, d.due_date} \/ ~ HalfTimed(d)
    PROVE  InStep(RowOf(d))
  <1> SUFFICES ASSUME HasLength(RowOf(d)), d.estimate # None, RowOf(d).start_at < RowOf(d).due_at
               PROVE  d.estimate * SlotParts = RowOf(d).due_at - RowOf(d).start_at
    BY DEF InStep, RowOf, RowWith
  <1>1. IsTimed(d) /\ RowOf(d).start_at = DraftStart(d) /\ RowOf(d).due_at = DraftDue(d)
    BY DEF HasLength, RowOf, RowWith, ScheduleOf, Timed, Dated
  <1>2. d.start_date # None /\ d.due_date # None
    BY <1>1, DraftInstants DEF HasLength
  <1>3. d.start_time # None /\ d.due_time # None
    BY <1>1, <1>2 DEF IsTimed, HalfTimed
  <1>4. /\ d.start_date \in Int /\ d.due_date \in Int
        /\ d.start_time \in Time /\ d.due_time \in Time
    BY <1>2, <1>3 DEF Draft, Opt
  <1>5. /\ RowOf(d).start_at = Instant(d.start_date, d.start_time)
        /\ RowOf(d).due_at = Instant(d.due_date, d.due_time)
    BY <1>1, <1>2, <1>3 DEF DraftStart, DraftDue, OrElse
  <1>6. RowOf(d).due_at - RowOf(d).start_at = RangeLength(d) * SlotParts
    BY <1>4, <1>5, RangeBetween DEF RangeLength
  <1>7. RowOf(d).start_at \in Int /\ RowOf(d).due_at \in Int
    BY <1>4, <1>5, InstantType
  <1>8. RangeLength(d) > 0
    <2>1. RangeLength(d) \in Int  BY <1>2, <1>3, RangeType DEF HasRange
    <2>2. RangeLength(d) * SlotParts > 0  BY <1>6, <1>7
    <2>3. RangeLength(d) <= 0 => RangeLength(d) * SlotParts <= 0 * SlotParts
      BY <2>1, SlotScale
    <2>4. 0 * SlotParts = 0 /\ RangeLength(d) * SlotParts \in Int
      BY <2>1, SlotScale, ScheduleAssumption
    <2> QED  BY <2>1, <2>2, <2>3, <2>4
  <1> QED  BY <1>2, <1>3, <1>6, <1>8 DEF Derived, HasRange

\* The chips of the drawer leave no range.
LEMMA QuickInStep ==
    ASSUME NEW r \in Row, NEW patch \in QuickPatches
    PROVE  InStep(Merged(r, patch))
  <1>1. patch \in Schedule  BY QuickPatchesType
  <1>2. patch.due_at = None  BY DEF QuickPatches, Timed, Dated
  <1>3. Merged(r, patch).due_at = None  BY <1>1, <1>2 DEF Merged, Row, Schedule
  <1> QED  BY <1>3 DEF InStep, HasLength

\* A drop moves a range and keeps its length.
LEMMA DropInStep ==
    ASSUME NEW r \in Row, Accepted(r), InStep(r), NEW patch \in DropPatches(r)
    PROVE  InStep(Merged(r, patch))
  <1>1. patch \in Schedule  BY DropPatchesType
  <1>2. /\ Merged(r, patch).all_day = patch.all_day
        /\ Merged(r, patch).start_at = patch.start_at
        /\ Merged(r, patch).due_at = patch.due_at
        /\ Merged(r, patch).estimate = r.estimate
    BY <1>1 DEF Merged, Row, Schedule
  <1>3. CASE patch.all_day  BY <1>2, <1>3 DEF InStep, HasLength
  <1>4. CASE ~ patch.all_day
    <2>1. PICK date \in Date, time \in Time : patch = TimeDropPatch(r, date, time)
      BY <1>4 DEF DropPatches, DayDropPatch, Dated
    <2> DEFINE anchor == OrElse(r.due_at, r.start_at)
               delta == Instant(date, time) - anchor
    <2>2. CASE anchor = None
      BY <1>2, <2>1, <2>2 DEF TimeDropPatch, Timed, InStep, HasLength
    <2>3. CASE anchor # None
      <3>1. anchor \in Int  BY <2>3 DEF OrElse, Row, Opt
      <3>2. delta \in Int  BY <3>1, InstantType DEF Date
      <3>3. patch = Timed(Shifted(r.start_at, delta), Shifted(r.due_at, delta))
        BY <2>1, <2>3 DEF TimeDropPatch
      <3> HIDE DEF delta
      <3>4. /\ patch.start_at = Shifted(r.start_at, delta)
            /\ patch.due_at = Shifted(r.due_at, delta)
        BY <3>3 DEF Timed
      <3> SUFFICES ASSUME HasLength(Merged(r, patch)), r.estimate # None,
                          patch.start_at < patch.due_at
                   PROVE  r.estimate * SlotParts = patch.due_at - patch.start_at
        BY <1>2 DEF InStep
      <3>5. r.start_at # None /\ r.due_at # None
        BY <1>2, <3>4 DEF HasLength, Shifted
      <3>6. HasLength(r)  BY <3>5 DEF HasLength, Accepted, ValidSchedule
      <3>7. r.start_at \in Int /\ r.due_at \in Int  BY <3>5 DEF Row, Opt
      <3>8. patch.start_at = r.start_at + delta /\ patch.due_at = r.due_at + delta
        BY <3>4, <3>5 DEF Shifted
      <3> QED  BY <3>2, <3>6, <3>7, <3>8 DEF InStep
    <2> QED  BY <2>2, <2>3
  <1> QED  BY <1>3, <1>4

\* While nobody loosens it, the estimate of the draft is the length of its range:
\* this is what makes EstimateIsRange inductive.
Derivation ==
    ~ loose => /\ row # None => InStep(row)
               /\ draft # None => Derived(draft)

\* The estimate of an item is the length of its range, however the start, the due
\* and the estimate are edited in turn and the item is dragged about.
THEOREM EstimatesAreRanges == Spec => []EstimateIsRange
  <1>1. Init => Derivation  BY DEF Init, Derivation
  <1>2. TypeOK /\ Derivation /\ [Next]_vars => Derivation'
    <2> SUFFICES ASSUME TypeOK, Derivation, [Next]_vars PROVE Derivation'
      OBVIOUS
    <2>1. ASSUME NEW date \in Opt(Date), NEW time \in Opt(Time),
                 NEW estimate \in Opt(1..MaxEstimate), NEW remind \in BOOLEAN,
                 QuickAdd(date, time, estimate, remind)
          PROVE  Derivation'
      <3> DEFINE d0 == [start_date |-> date, start_time |-> time, due_date |-> None,
                        due_time |-> None, estimate |-> estimate, reminder |-> "on"]
                 d == WithDue(d0)
      <3>1. d0 \in Draft  BY ScheduleAssumption DEF Draft, Opt, Date
      <3>2. d \in Draft /\ Derived(d)  BY <3>1, WithDueType, DerivedDue
      <3>3. None \in {d.start_date, d.due_date} \/ ~ HalfTimed(d)
        <4>1. CASE None \in {date, time, estimate}
          <5>1. d = d0  BY <4>1 DEF WithDue
          <5> QED  BY <5>1
        <4>2. CASE None \notin {date, time, estimate}
          <5>1. d.start_time = time
            BY <4>2 DEF WithDue
          <5>2. d.due_time = (time + estimate) % DayLength
            BY <4>2 DEF WithDue
          <5>3. time + estimate \in Int
            BY <4>2, ScheduleAssumption DEF Opt, Time
          <5>4. (time + estimate) % DayLength \in Int  BY <5>3, DivMod, ScheduleAssumption
          <5>5. d.due_time # None  BY <5>2, <5>4, ScheduleAssumption
          <5> QED  BY <4>2, <5>1, <5>5 DEF HalfTimed
        <4> QED  BY <4>1, <4>2
      <3>4. row' = RowOf(d) /\ draft' = None  BY <2>1 DEF QuickAdd, Store
      <3> HIDE DEF d
      <3>5. InStep(row')  BY <3>2, <3>3, <3>4, DerivedRow
      <3> QED  BY <3>4, <3>5 DEF Derivation
    <2>2. ASSUME NEW r, WriteElsewhere(r) PROVE Derivation'
      BY <2>2 DEF WriteElsewhere, Derivation
    <2>3. CASE OpenDrawer
      <3>1. row \in Row /\ Accepted(row)  BY <2>3 DEF OpenDrawer, TypeOK, Stored
      <3> QED  BY <2>3, <3>1, DerivedDraft DEF OpenDrawer, Derivation
    <2>4. CASE CloseDrawer
      BY <2>4 DEF CloseDrawer, Derivation
    <2>5. ASSUME NEW d, Derived(d), Edit(d) PROVE Derivation'
      BY <2>5 DEF Edit, Derivation
    <2>6. ASSUME NEW date \in Opt(Date), EditStartDate(date) \/ EditDueDate(date)
          PROVE  Derivation'
      <3>1. draft \in Draft  BY <2>6 DEF EditStartDate, EditDueDate, Edit, TypeOK, Opt
      <3>2. /\ [draft EXCEPT !.start_date = date] \in Draft
            /\ [draft EXCEPT !.due_date = date] \in Draft
        BY <3>1 DEF Draft, Opt, Date
      <3> QED
        BY <2>5, <2>6, <3>2, DerivedDue, DerivedEstimate DEF EditStartDate, EditDueDate
    <2>7. ASSUME NEW time \in Time, EditStartTime(time) \/ EditDueTime(time)
          PROVE  Derivation'
      <3>1. draft \in Draft  BY <2>7 DEF EditStartTime, EditDueTime, Edit, TypeOK, Opt
      <3>2. /\ [draft EXCEPT !.start_time = time] \in Draft
            /\ [draft EXCEPT !.due_time = time] \in Draft
        BY <3>1 DEF Draft, Opt
      <3> QED
        BY <2>5, <2>7, <3>2, DerivedDue, DerivedEstimate DEF EditStartTime, EditDueTime
    <2>8. ASSUME NEW estimate \in Opt(1..MaxEstimate), EditEstimate(estimate)
          PROVE  Derivation'
      <3>1. draft \in Draft  BY <2>8 DEF EditEstimate, Edit, TypeOK, Opt
      <3>2. [draft EXCEPT !.estimate = estimate] \in Draft
        BY <3>1, ScheduleAssumption DEF Draft, Opt
      <3> QED  BY <2>5, <2>8, <3>2, DerivedDue DEF EditEstimate
    <2>9. ASSUME NEW choice \in {"on", "off"}, TouchReminder(choice) PROVE Derivation'
      <3>1. draft \in Draft  BY <2>9 DEF TouchReminder, TypeOK, Opt
      <3>2. Derived([draft EXCEPT !.reminder = choice]) <=> Derived(draft)
        BY <3>1 DEF Derived, HasRange, RangeLength, Draft
      <3> QED  BY <2>9, <3>2 DEF TouchReminder, Derivation
    <2>10. CASE Save
      <3>1. draft \in Draft /\ draft # None  BY <2>10 DEF Save, TypeOK, Opt
      <3>2. /\ row' = RowOf(draft) /\ draft' = None
            /\ loose' = (loose \/ HalfTimed(draft))
        BY <2>10 DEF Save, Store
      <3>3. ~ loose' => Derived(draft) /\ ~ HalfTimed(draft)
        BY <3>1, <3>2 DEF Derivation
      <3>4. ~ loose' => InStep(row')  BY <3>1, <3>2, <3>3, DerivedRow
      <3> QED  BY <3>2, <3>4 DEF Derivation
    <2>11. CASE SendReminder \/ LoseReminder \/ UNCHANGED vars
      BY <2>11 DEF SendReminder, LoseReminder, vars, Derivation
    <2>12. ASSUME NEW patch \in QuickPatches, Reschedule(patch) PROVE Derivation'
      <3>1. row \in Row  BY <2>12 DEF Reschedule, TypeOK, Stored
      <3>2. /\ row' = Merged(row, patch) /\ Accepted(row')
            /\ draft' = DraftOf(row') /\ loose' = loose
        BY <2>12 DEF Reschedule, Store
      <3>3. row' \in Row /\ InStep(row')
        BY <3>1, <3>2, QuickPatchesType, MergedType, QuickInStep DEF Patch
      <3>4. Derived(draft')  BY <3>2, <3>3, DerivedDraft
      <3> QED  BY <3>3, <3>4 DEF Derivation
    <2>13. ASSUME row # None, NEW patch \in DropPatches(row), Drop(patch) PROVE Derivation'
      <3>1. row \in Row /\ Accepted(row)  BY <2>13 DEF TypeOK, Stored
      <3>2. row' = Merged(row, patch) /\ draft' = None /\ loose' = loose
        BY <2>13 DEF Drop, Gesture, Store
      <3> QED  BY <2>13, <3>1, <3>2, DropInStep DEF Derivation
    <2>14. ASSUME NEW patch, Stretch(patch) PROVE Derivation'
      BY <2>14 DEF Stretch, Derivation
    <2> QED
      BY <2>1, <2>2, <2>3, <2>4, <2>6, <2>7, <2>8, <2>9, <2>10, <2>11, <2>12, <2>13, <2>14
         DEF Next
  <1>3. Derivation => EstimateIsRange  BY DEF Derivation, EstimateIsRange, InStep
  <1> QED  BY <1>1, <1>2, <1>3, TypeCorrectness, PTL DEF Spec

-----------------------------------------------------------------------------
(* Gestures                                                                *)

\* The fields of a whole schedule replace those of the row, whatever they were.
LEMMA MergedSchedule ==
    ASSUME NEW r \in Row, Accepted(r), NEW s \in Schedule, ValidSchedule(s)
    PROVE  Accepted(Merged(r, s))
  <1>1. /\ Merged(r, s).all_day = s.all_day /\ Merged(r, s).estimate = r.estimate
        /\ Merged(r, s).start_at = s.start_at /\ Merged(r, s).due_at = s.due_at
        /\ Merged(r, s).start_date = s.start_date /\ Merged(r, s).due_date = s.due_date
    BY DEF Merged, Row, Schedule
  <1> QED  BY <1>1 DEF Accepted, ValidSchedule

LEMMA DatedValid ==
    ASSUME NEW start, NEW due, InOrder(start, due)
    PROVE  ValidSchedule(Dated(start, due))
  BY DEF Dated, ValidSchedule

LEMMA TimedValid ==
    ASSUME NEW start, NEW due, InOrder(start, due)
    PROVE  ValidSchedule(Timed(start, due))
  BY DEF Timed, ValidSchedule

LEMMA QuickValid == \A patch \in QuickPatches : ValidSchedule(patch)
  <1>1. \A start : InOrder(start, None)  BY DEF InOrder
  <1> QED  BY <1>1, DatedValid, TimedValid DEF QuickPatches

\* Both ends of a range are moved by one distance.
LEMMA ShiftedOrder ==
    ASSUME NEW start \in Opt(Int), NEW due \in Opt(Int), NEW delta \in Int,
           InOrder(start, due)
    PROVE  InOrder(Shifted(start, delta), Shifted(due, delta))
  BY DEF InOrder, Shifted, Opt

LEMMA DayDropValid ==
    ASSUME NEW r \in Row, Accepted(r), NEW date \in Date
    PROVE  ValidSchedule(DayDropPatch(r, date))
  <1>0. date \in Int  BY DEF Date
  <1>1. CASE ~ r.all_day
    <2>1. InOrder(None, date)  BY DEF InOrder
    <2> QED  BY <1>1, <2>1, DatedValid DEF DayDropPatch
  <1>2. CASE r.all_day /\ r.due_date = None
    <2> DEFINE delta == IF r.start_date = None THEN 0 ELSE date - r.start_date
    <2>1. InOrder(Shifted(r.start_date, delta), date)
      BY <1>0 DEF InOrder, Shifted, Row, Opt
    <2>2. DayDropPatch(r, date) = Dated(Shifted(r.start_date, delta), date)
      BY <1>2 DEF DayDropPatch, OrElse
    <2> HIDE DEF delta
    <2> QED  BY <2>1, <2>2, DatedValid
  <1>3. CASE r.all_day /\ r.due_date # None
    <2> DEFINE delta == date - r.due_date
    <2>1. r.due_date \in Int /\ delta \in Int  BY <1>0, <1>3 DEF Row, Opt
    <2>2. InOrder(r.start_date, r.due_date)  BY <1>3 DEF Accepted, ValidSchedule
    <2>3. DayDropPatch(r, date) = Dated(Shifted(r.start_date, delta), Shifted(r.due_date, delta))
      BY <1>3 DEF DayDropPatch, OrElse, Shifted
    <2> HIDE DEF delta
    <2> QED  BY <2>1, <2>2, <2>3, ShiftedOrder, DatedValid DEF Row, Opt
  <1> QED  BY <1>1, <1>2, <1>3

LEMMA TimeDropValid ==
    ASSUME NEW r \in Row, Accepted(r), NEW date \in Date, NEW time \in Time
    PROVE  ValidSchedule(TimeDropPatch(r, date, time))
  <1> DEFINE anchor == OrElse(r.due_at, r.start_at)
             delta == Instant(date, time) - anchor
  <1>1. Instant(date, time) \in Int  BY InstantType DEF Date
  <1>2. CASE anchor = None
    <2>1. InOrder(None, Instant(date, time))  BY DEF InOrder
    <2> QED  BY <1>2, <2>1, TimedValid DEF TimeDropPatch
  <1>3. CASE anchor # None
    <2>1. delta \in Int  BY <1>1, <1>3 DEF OrElse, Row, Opt
    <2>2. InOrder(r.start_at, r.due_at)  BY <1>3 DEF Accepted, ValidSchedule, OrElse, InOrder
    <2>3. TimeDropPatch(r, date, time)
              = Timed(Shifted(r.start_at, delta), Shifted(r.due_at, delta))
      BY <1>3 DEF TimeDropPatch
    <2> HIDE DEF delta
    <2> QED  BY <2>1, <2>2, <2>3, ShiftedOrder, TimedValid DEF Row
  <1> QED  BY <1>2, <1>3

\* An item that has only dates is all-day, and its dates are in order.
LEMMA DateOnlyValid ==
    ASSUME NEW r \in Row, Accepted(r), NEW patch \in DateOnlyPatches(r)
    PROVE  ValidSchedule(patch)
  <1>1. PICK time \in Time : patch = DateOnlyTimePatch(r, time)
    BY DEF DateOnlyPatches
  <1>2. InOrder(r.start_date, r.due_date)
    BY DEF Accepted, ValidSchedule, DateOnlyPatches, InOrder
  <1>3. CASE r.start_date = None \/ r.due_date = None
    <2>1. \A i : InOrder(None, i) /\ InOrder(i, None)  BY DEF InOrder
    <2> QED  BY <1>1, <1>3, <2>1, TimedValid DEF DateOnlyTimePatch
  <1>4. CASE r.start_date # None /\ r.due_date # None
    <2> DEFINE late == IF r.due_date = r.start_date THEN time ELSE EndOfDay
    <2>1. EndOfDay \in Time  BY ScheduleAssumption DEF EndOfDay, Time
    <2>2. late \in Time  BY <2>1
    <2>3. r.start_date \in Int /\ r.due_date \in Int  BY <1>4 DEF Row, Opt
    <2>4. r.start_date <= r.due_date  BY <1>2, <1>4 DEF InOrder
    <2>5. r.start_date = r.due_date => late = time  OBVIOUS
    <2>6. Instant(r.start_date, time) <= Instant(r.due_date, late)
      <3> HIDE DEF late
      <3>1. time <= time  BY DEF Time
      <3>2. r.start_date < r.due_date \/ (r.start_date = r.due_date /\ time <= late)
        BY <2>3, <2>4, <2>5, <3>1
      <3> QED  BY <2>2, <2>3, <3>2, InstantOrder
    <2>7. patch = Timed(Instant(r.start_date, time), Instant(r.due_date, late))
      BY <1>1, <1>4 DEF DateOnlyTimePatch
    <2>8. InOrder(Instant(r.start_date, time), Instant(r.due_date, late))
      BY <2>6 DEF InOrder
    <2> HIDE DEF late
    <2> QED  BY <2>7, <2>8, TimedValid
  <1> QED  BY <1>3, <1>4

\* A drag of the bottom edge ends after the start.
LEMMA ResizeAccepted ==
    ASSUME NEW r \in Row, Accepted(r), NEW patch \in ResizePatches(r)
    PROVE  Accepted(Merged(r, patch))
  <1>1. ~ r.all_day /\ OrElse(r.start_at, r.due_at) # None  BY DEF ResizePatches
  <1>2. PICK length \in 1..LastDay * DayLength :
            patch = [due_at |-> OrElse(r.start_at, r.due_at) + length * SlotParts]
    BY <1>1 DEF ResizePatches, ResizePatch
  <1>3. length * SlotParts \in Int /\ length * SlotParts > 0
    <2>1. length \in Int /\ length > 0 /\ SlotParts \in Int /\ SlotParts > 0
      BY ScheduleAssumption
    <2> QED  BY <2>1
  <1> DEFINE end == OrElse(r.start_at, r.due_at) + length * SlotParts
  <1>4. InOrder(r.start_at, end)  BY <1>1, <1>3 DEF InOrder, OrElse, Row, Opt
  <1>5. /\ Merged(r, patch).all_day = r.all_day /\ Merged(r, patch).estimate = r.estimate
        /\ Merged(r, patch).start_at = r.start_at /\ Merged(r, patch).due_at = end
        /\ Merged(r, patch).start_date = r.start_date /\ Merged(r, patch).due_date = r.due_date
    BY <1>2 DEF Merged, Row
  <1> HIDE DEF end
  <1> QED  BY <1>1, <1>4, <1>5 DEF Accepted, ValidSchedule

\* One of the top edge starts before the due.
LEMMA StartResizeAccepted ==
    ASSUME NEW r \in Row, Accepted(r), NEW patch \in StartResizePatches(r)
    PROVE  Accepted(Merged(r, patch))
  <1>1. HasLength(r) /\ patch.start_at <= r.due_at - SlotParts  BY DEF StartResizePatches
  <1>2. PICK time \in Time : patch = [start_at |-> Instant(UtcDate(r.start_at), time)]
    BY <1>1 DEF StartResizePatches, StartResizePatch, TopEdgeTimes
  <1>3. r.start_at \in Int /\ r.due_at \in Int /\ ~ r.all_day
    BY <1>1 DEF HasLength, Row, Opt
  <1>4. UtcDate(r.start_at) \in Int  BY <1>3, DivMod, PartsDivMod DEF UtcDate
  <1>5. patch.start_at \in Int  BY <1>2, <1>4, InstantType
  <1>6. InOrder(patch.start_at, r.due_at)
    BY <1>1, <1>3, <1>5, ScheduleAssumption DEF InOrder
  <1>7. /\ Merged(r, patch).all_day = r.all_day /\ Merged(r, patch).estimate = r.estimate
        /\ Merged(r, patch).start_at = patch.start_at /\ Merged(r, patch).due_at = r.due_at
        /\ Merged(r, patch).start_date = r.start_date /\ Merged(r, patch).due_date = r.due_date
    BY <1>2 DEF Merged, Row
  <1> QED  BY <1>3, <1>6, <1>7 DEF Accepted, ValidSchedule

\* Whatever the calendar and the quick options patch over a row the backend has, it
\* takes: buildDragPatch, buildResizePatch, buildStartResizePatch,
\* buildDateOnlyTimePatch and buildReschedulePatch.
THEOREM GesturesAreAccepted == Spec => []GesturesAccepted
  <1>1. TypeOK => GesturesAccepted
    <2> SUFFICES ASSUME TypeOK, row # None, NEW patch \in Gestures(row)
                 PROVE  Accepted(Merged(row, patch))
      BY DEF GesturesAccepted
    <2>1. row \in Row /\ Accepted(row)  BY DEF TypeOK, Stored
    <2>2. CASE patch \in QuickPatches
      BY <2>1, <2>2, QuickPatchesType, QuickValid, MergedSchedule
    <2>3. CASE patch \in DropPatches(row)
      <3>1. patch \in Schedule  BY <2>1, <2>3, DropPatchesType
      <3>2. ValidSchedule(patch)  BY <2>1, <2>3, DayDropValid, TimeDropValid DEF DropPatches
      <3> QED  BY <2>1, <3>1, <3>2, MergedSchedule
    <2>4. CASE patch \in DateOnlyPatches(row)
      <3>1. patch \in Schedule  BY <2>1, <2>4, DateOnlyType
      <3> QED  BY <2>1, <2>4, <3>1, DateOnlyValid, MergedSchedule
    <2> QED
      BY <2>1, <2>2, <2>3, <2>4, ResizeAccepted, StartResizeAccepted DEF Gestures
  <1> QED  BY <1>1, TypeCorrectness, PTL
=============================================================================
