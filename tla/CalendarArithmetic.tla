-------------------------- MODULE CalendarArithmetic --------------------------
(***************************************************************************)
(* The arithmetic of the calendar: local times and dates of a zone         *)
(* (time.ts), what a drag makes of an event, and the lanes of a week       *)
(* (screens/calendar-direct-manipulation.ts).                              *)
(* A day has Day minutes, in quarters of Quarter; an instant is a whole    *)
(* minute, a date the number of a day. A zone has an offset, and a season  *)
(* in which another one holds: the clock is put forward or back at its     *)
(* start and the other way at its end.                                     *)
(***************************************************************************)
EXTENDS Sequences, FiniteSetsExt

CONSTANTS
  Quarter,    \* minutes in a quarter of a day
  Standards,  \* offsets of the zones
  Savings,    \* by how much a clock is put forward or back
  LastChange, \* the seasons begin and end up to this instant
  MaxRows     \* events on a day

Day == 4 * Quarter
Step == Day \div 4             \* six hours
Never == LastChange + 1000 * Day

(* No offset is longer than a day, and no change of one than six hours.    *)
ASSUME ArithmeticConstants ==
  /\ Quarter \in Nat \ {0} /\ LastChange \in Nat /\ MaxRows \in Nat
  /\ Standards \subseteq Int /\ Savings \subseteq 0 .. Step
  /\ \A standard \in Standards, saving \in Savings \cup {0} :
       standard - saving >= -Day /\ standard + saving <= Day

(* Nor are two changes of a zone closer than six hours.                    *)
Zones == {z \in [standard : Standards, saving : Savings \cup {-s : s \in Savings} \cup {0},
                 from : 0 .. LastChange, until : 0 .. LastChange \cup {Never}] :
            /\ z.from + Step <= z.until
            /\ z.saving = 0 => z.from = 0 /\ z.until = Never}
NoZone == [standard |-> 0, saving |-> 0, from |-> 0, until |-> 0]

VARIABLES zone, rows           \* the zone of the page (none before it opens), the events it shows

arithVars == <<zone, rows>>

Offset(t) == zone.standard + (IF zone.from <= t /\ t < zone.until THEN zone.saving ELSE 0)
utcToLocalDateTime(t) == t + Offset(t)
dateInZone(t) == utcToLocalDateTime(t) \div Day
minuteInZone(t) == utcToLocalDateTime(t) % Day

(* The offsets seen from a day and a half before to a day and a half after.*)
(* Mutant: only the one at the assumed instant.                            *)
OneOffset(local) == {Offset(local)}

Offsets(local) == {Offset(local + 6 * Step - i * Step) : i \in 0 .. 12}

(* The instants found for a local time: it is accepted when there is one.  *)
localDateTimeToUtc(local) ==
  {t \in {local - o : o \in Offsets(local)} : utcToLocalDateTime(t) = local}

(* Two instants that enclose the first one of a date are brought together: *)
(* after as many turns as there are minutes between them they are one      *)
(* minute apart, if not before.                                            *)
Bisection(date) ==
  LET enclosing[turn \in 0 .. 4 * Day] ==
        IF turn = 0 THEN [lower |-> date * Day - 2 * Day, upper |-> date * Day + 2 * Day]
        ELSE LET now == enclosing[turn - 1]
                 middle == (now.lower + now.upper) \div 2
             IN  CASE now.upper - now.lower <= 1 -> now
                   [] now.upper - now.lower > 1 /\ dateInZone(middle) < date
                        -> [now EXCEPT !.lower = middle]
                   [] OTHER -> [now EXCEPT !.upper = middle]
  IN  enclosing

(* A date that is not the one of its boundary is refused.                  *)
civilDateBoundary(date) == Bisection(date)[4 * Day].upper
isCivilDate(date) == dateInZone(civilDateBoundary(date)) = date

-------------------------------------------------------------------------------
(* Months: their first days, for a year whose day 0 is the given weekday   *)
(* (0 is a Sunday).                                                        *)
MonthStarts == <<0, 31, 59, 90, 120>>
MonthOf(date) == Max({m \in DOMAIN MonthStarts : MonthStarts[m] <= date})
DaysOf(m) == MonthStarts[m] .. MonthStarts[m + 1] - 1

navigateDate(date, view, direction) ==
  IF view = "week" THEN date + 7 * direction ELSE MonthStarts[MonthOf(date) + direction]

viewWindow(date, view, weekdayOfZero) ==
  LET initial == IF view = "month" THEN MonthStarts[MonthOf(date)] ELSE date
      start == initial - ((weekdayOfZero + initial + 6) % 7)
      count == IF view = "month" THEN 42 ELSE 7
  IN  [from |-> civilDateBoundary(start), to |-> civilDateBoundary(start + count),
       days |-> start .. start + count - 1]

-------------------------------------------------------------------------------
eventSpan(e) == [startDay |-> dateInZone(e.start), endDay |-> dateInZone(e.end - 1)]

snapQuarterMinute(m) ==
  LET clamped == Max({0, Min({Day, m})})
  IN  Min({Day, ((2 * clamped + Quarter) \div (2 * Quarter)) * Quarter})

(* A drag gives the instants that the new start or end may be; it is       *)
(* refused unless there is one of each.                                    *)
shiftedLocal(t, dayDelta, minuteDelta) ==
  LET total == minuteInZone(t) + minuteDelta
  IN  localDateTimeToUtc((dateInZone(t) + dayDelta + (total \div Day)) * Day + (total % Day))

applyMonthChange(e, day, dropDay, change) ==
  CASE change = "move"  -> [start |-> shiftedLocal(e.start, dropDay - day, 0),
                            end |-> shiftedLocal(e.end, dropDay - day, 0)]
    [] change = "start" -> [start |-> localDateTimeToUtc(dropDay * Day + minuteInZone(e.start)),
                            end |-> {e.end}]
    [] change = "end"   ->
         LET atMidnight == dateInZone(e.end) # eventSpan(e).endDay /\ minuteInZone(e.end) = 0
         IN  [start |-> {e.start},
              end |-> localDateTimeToUtc(dropDay * Day
                                         + IF atMidnight THEN Day ELSE minuteInZone(e.end))]

applyWeekMove(e, origin, drop) ==
  LET moved(t) == shiftedLocal(t, drop.day - origin.day,
                               snapQuarterMinute(drop.minute) - snapQuarterMinute(origin.minute))
  IN  [start |-> moved(e.start), end |-> moved(e.end)]

applyWeekResize(e, point, change) ==
  LET value == localDateTimeToUtc(point.day * Day + snapQuarterMinute(point.minute))
  IN  [start |-> IF change = "start" THEN value ELSE {e.start},
       end |-> IF change = "end" THEN value ELSE {e.end}]

(* Drops that resolve to one event, which does not end before it begins.   *)
Resolved(found) ==
  {[start |-> s, end |-> t] : s \in IF Cardinality(found.start) = 1 THEN found.start ELSE {},
                              t \in IF Cardinality(found.end) = 1 THEN found.end ELSE {}}
isValidChange(e) == e.start < e.end
Result(found) == {e \in Resolved(found) : isValidChange(e)}

-------------------------------------------------------------------------------
eventDayMinute(e, day) ==
  [start |-> IF dateInZone(e.start) < day THEN 0 ELSE minuteInZone(e.start),
   end |-> IF dateInZone(e.end) > day THEN Day ELSE minuteInZone(e.end)]

occurrencesOn(day) ==
  {e \in rows : eventSpan(e).startDay <= day /\ day <= eventSpan(e).endDay}

(* They are sorted by where they start, then by where they end.            *)
sortedOccurrences(day) ==
  LET O == occurrencesOn(day)
      earlier(a, b) == \/ a.start < b.start
                       \/ a.start = b.start /\ a.end < b.end
  IN  {seq \in Injection(1 .. Cardinality(O), O) : \A i, j \in DOMAIN seq :
         i < j => ~earlier(eventDayMinute(seq[j], day), eventDayMinute(seq[i], day))}

(* The first lane that is free when an occurrence starts, or a new one.    *)
freeLane(laneEnds, start) ==
  Min({l \in DOMAIN laneEnds : laneEnds[l] <= start} \cup {Len(laneEnds) + 1})

placed(layout, at) ==
  LET lane == freeLane(layout.laneEnds, at.start)
  IN  [laneEnds |-> IF lane > Len(layout.laneEnds) THEN Append(layout.laneEnds, at.end)
                    ELSE [layout.laneEnds EXCEPT ![lane] = at.end],
       lane |-> Append(layout.lane, lane)]

layoutWeekDay(seq, day) ==
  LET layout[n \in 0 .. Len(seq)] ==
        IF n = 0 THEN [laneEnds |-> <<>>, lane |-> <<>>]
        ELSE placed(layout[n - 1], eventDayMinute(seq[n], day))
  IN  layout[Len(seq)]

globalLaneCount(dayLaneCounts) == Max({1} \cup dayLaneCounts)
-------------------------------------------------------------------------------
(* The reader chooses a zone; the page shows one event in any zone, or     *)
(* several of a day in one whose clock is never changed.                   *)
Shown == {e \in [start : 0 .. LastChange, end : 0 .. LastChange] : isValidChange(e)}

ArithmeticInit == zone = NoZone /\ rows = {}

SetZone ==
  /\ rows = {}
  /\ \E z \in Zones : zone' = z
  /\ UNCHANGED rows

ShowEvent ==
  /\ zone # NoZone
  /\ rows = {} \/ (zone.saving = 0 /\ Cardinality(rows) < MaxRows)
  /\ \E e \in Shown \ rows : rows' = rows \cup {e}
  /\ UNCHANGED zone

ArithmeticNext == SetZone \/ ShowEvent

ArithmeticSpec == ArithmeticInit /\ [][ArithmeticNext]_arithVars
-------------------------------------------------------------------------------
Around == -Day .. LastChange + Day
CivilDatesAreOrdered == \A t \in -5 * Day .. LastChange + 5 * Day : dateInZone(t) <= dateInZone(t + 1)

(* A local time is accepted exactly when one instant has it, and stands    *)
(* for that one: the time the clock skips and the time it shows twice are  *)
(* refused, and no other is.                                               *)
LocalTimesAreTrue ==
  \A l \in Around : localDateTimeToUtc(l) = {t \in -2 * Day .. LastChange + 2 * Day :
                                               utcToLocalDateTime(t) = l}

(* The first instant of a date is found in every zone, and where dates are *)
(* in order the boundaries of a date enclose exactly the instants that     *)
(* have it: each instant is in one day of the grid.                        *)
DaysPartitionTime ==
  \A t \in Around : LET d == dateInZone(t) IN
    /\ isCivilDate(d)
    /\ CivilDatesAreOrdered => civilDateBoundary(d) <= t /\ t < civilDateBoundary(d + 1)

(* A window begins on a Monday, shows the date asked for and, for a month, *)
(* all of it, wherever the reader goes from there.                         *)
WindowsShowTheirPeriod ==
  \A weekday \in 0 .. 6, date \in DaysOf(2) \cup DaysOf(3), direction \in {-1, 0, 1} :
    /\ \A next \in {navigateDate(date, "week", direction)} :
         LET w == viewWindow(next, "week", weekday)
         IN  next \in w.days /\ (weekday + Min(w.days)) % 7 = 1
    /\ \A next \in {navigateDate(date, "month", direction)} :
         LET w == viewWindow(next, "month", weekday)
         IN  /\ DaysOf(MonthOf(date) + direction) \subseteq w.days
             /\ (weekday + Min(w.days)) % 7 = 1
             /\ w.from <= civilDateBoundary(next) /\ civilDateBoundary(next) < w.to

(* An event that is dropped is shown where it was dropped: a move shifts   *)
(* the days, or the clock, by the way it was dragged; an edge lands on the *)
(* day, or at the quarter, it was dropped on and the other edge stays. (In *)
(* a zone that changes its clock at midnight an end may land on the first  *)
(* instant of the day it was dropped on, and is shown on the one before.)  *)
DropsLandOn(dropDays, minutes) ==
  \A e \in rows : LET span == eventSpan(e) IN
    \A day \in span.startDay .. span.endDay, dropDay \in dropDays :
      /\ \A n \in Result(applyMonthChange(e, day, dropDay, "move")) :
           eventSpan(n).startDay - span.startDay = dropDay - day
      /\ \A n \in Result(applyMonthChange(e, day, dropDay, "start")) :
           eventSpan(n).startDay = dropDay /\ n.end = e.end
      /\ \A n \in Result(applyMonthChange(e, day, dropDay, "end")) :
           /\ n.start = e.start
           /\ eventSpan(n).endDay = dropDay
              \/ (zone.saving # 0 /\ n.end = civilDateBoundary(dropDay))
      /\ \A from, to \in minutes :
           \A n \in Result(applyWeekMove(e, [day |-> day, minute |-> from],
                                          [day |-> dropDay, minute |-> to])) :
             utcToLocalDateTime(n.start) - utcToLocalDateTime(e.start)
               = (dropDay - day) * Day + snapQuarterMinute(to) - snapQuarterMinute(from)
      /\ \A to \in 0 .. Day : \A n \in Result(applyWeekResize(e, [day |-> dropDay, minute |-> to], "end")) :
           n.start = e.start /\ utcToLocalDateTime(n.end) = dropDay * Day + snapQuarterMinute(to)

DropsLandWhereTheyPoint ==
  DropsLandOn(-1 .. (LastChange + Day) \div Day, {-1, 1, Quarter, Day - 1})

(* The occurrences of a day can be sorted, and however that is done those  *)
(* in one lane do not overlap, and there are no more lanes than            *)
(* occurrences at one time.                                                *)
LanesAreFewest ==
  zone.saving = 0 =>
    \A d \in UNION {{dateInZone(e.start), dateInZone(e.end - 1)} : e \in rows} :
      /\ sortedOccurrences(d) # {}
      /\ \A seq \in sortedOccurrences(d) :
           LET layout == layoutWeekDay(seq, d)
               at(i) == eventDayMinute(seq[i], d)
               together(m) == {i \in DOMAIN seq : at(i).start <= m /\ m < at(i).end}
           IN  /\ \A m \in 0 .. Day - 1 : \A i, j \in together(m) :
                    i # j => layout.lane[i] # layout.lane[j]
               /\ globalLaneCount({Len(layout.laneEnds)})
                    = Max({Cardinality(together(m)) : m \in 0 .. Day - 1})

(* The calendar agrees with its reference definitions in every zone: local *)
(* times, days and windows whatever it shows, drops of the one event it    *)
(* shows, and the lanes of all of them.                                    *)
ArithmeticIsExact ==
  zone # NoZone =>
    /\ rows = {} => LocalTimesAreTrue /\ DaysPartitionTime /\ WindowsShowTheirPeriod
    /\ Cardinality(rows) = 1 => DropsLandWhereTheyPoint
    /\ LanesAreFewest
===============================================================================
