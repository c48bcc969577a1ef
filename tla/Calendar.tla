------------------------------ MODULE Calendar ------------------------------
(***************************************************************************)
(* The calendar of common/basic/timeFunction.cpp and the date reader of    *)
(* stringFunctions.cpp, over localtime and mktime of the C library: the    *)
(* Gregorian calendar of 1970 to 2038, in a zone with or without summer    *)
(* time.  A time is a number of seconds since 1970.                        *)
(***************************************************************************)
EXTENDS Integers, FiniteSetsExt

CONSTANTS Days,     \* days since 1970 on which the calls fall
          Seconds   \* times of day at which they fall

ASSUME CalendarAssumption ==
  /\ Days \subseteq Nat /\ \A d \in Days : d <= 24800
  /\ Seconds \subseteq Nat /\ \A s \in Seconds : s < 86400

VARIABLE calendar  \* the last call: its arguments and what came of it

(***************************************************************************)
(* The C library.  In summer, April to October, clocks are an hour ahead.  *)
(* mktime takes the fields as tm_isdst says, whatever the season.          *)
(***************************************************************************)
Year  == 1969 .. 2039
Month == 0 .. 11

LeapDay(y)       == IF y % 4 = 0 THEN 1 ELSE 0
MonthLength(y)   == <<31, 28 + LeapDay(y), 31, 30, 31, 30, 31, 31, 30, 31, 30, 31>>
YearStart(y)     == 365 * (y - 1970) + (y - 1969) \div 4
MonthStart(y, m) == <<0, 31, 59, 90, 120, 151, 181, 212, 243, 273, 304, 334>>[m + 1]
                      + (IF m > 1 THEN LeapDay(y) ELSE 0)

Fields(t, dst) ==
  LET d    == t \div 86400
      year == Max({y \in Year : YearStart(y) <= d})
      mon  == Max({m \in Month : MonthStart(year, m) <= d - YearStart(year)})
  IN  [year |-> year, mon |-> mon, mday |-> d - YearStart(year) - MonthStart(year, mon) + 1,
       hour |-> (t % 86400) \div 3600, min |-> (t % 3600) \div 60, sec |-> t % 60,
       wday |-> (d + 4) % 7, yday |-> d - YearStart(year), isdst |-> dst]

Summer(zone, t) == zone = "summer" /\ Fields(t, 0).mon \in 3 .. 9

LocalTime(zone, t) == IF Summer(zone, t) THEN Fields(t + 3600, 1) ELSE Fields(t, 0)

MkTime(tm) ==
  LET y == tm.year + tm.mon \div 12 IN
  86400 * (YearStart(y) + MonthStart(y, tm.mon % 12) + tm.mday - 1)
    + 3600 * (tm.hour - tm.isdst) + 60 * tm.min + tm.sec

(***************************************************************************)
(* Differences.  The days between two years are counted year by year, each *)
(* by the day of the year on which the field set to 31 December ends up:   *)
(* tm_temp and iDay when the loop has come to the end of a year.           *)
(***************************************************************************)
YearEnds(zone, e, last) ==
  LET to[y \in e.year - 1 .. last] ==
        IF y < e.year
        THEN [end |-> [e EXCEPT !.year = @ - 1, !.mon = 11, !.mday = 31], days |-> -e.yday]
        ELSE LET before == to[y - 1]
                 end    == LocalTime(zone, MkTime([before.end EXCEPT !.year = @ + 1]))
             IN  [end |-> end, days |-> before.days + end.yday + 1]
  IN  to

DiffTimeDay(zone, early, late) ==
  LET e == LocalTime(zone, early)
      l == LocalTime(zone, late)
  IN  IF early = 0 \/ late = 0 \/ e.year > l.year THEN 0
      ELSE IF e.year = l.year THEN Max({l.yday - e.yday, 0})
      ELSE YearEnds(zone, e, l.year - 1)[l.year - 1].days + l.yday

\* Mutant of WeekEnd: a Sunday, whose tm_wday is 0, counts on to the next one.
WeekEndLate(tm) == [tm EXCEPT !.mday = @ + 7 - tm.wday]

\* The Sunday that ends the week.
WeekEnd(tm) == [tm EXCEPT !.mday = @ + ((7 - tm.wday) % 7)]

DiffTimeWeek(zone, early, late) ==
  LET e == LocalTime(zone, early)
      l == LocalTime(zone, late)
  IN  IF early = 0 \/ late = 0 \/ e.year > l.year \/ (e.year = l.year /\ e.yday = l.yday)
      THEN 0
      ELSE DiffTimeDay(zone, MkTime(WeekEnd(e)), MkTime(WeekEnd(l))) \div 7

DiffTimeMonth(zone, early, late) ==
  LET e == LocalTime(zone, early)
      l == LocalTime(zone, late)
  IN  IF early = 0 \/ late = 0 \/ e.year > l.year THEN 0
      ELSE (l.year - e.year) * 12 + l.mon - e.mon

IsDayExpired(zone, early, late, limit) == DiffTimeDay(zone, early, late) >= limit

(***************************************************************************)
(* Text and time.  A date is its six numbers, years and months as written. *)
(***************************************************************************)
TimeFormat(zone, t) ==
  LET tm == LocalTime(zone, t) IN
  <<tm.year, tm.mon + 1, tm.mday, tm.hour, tm.min, tm.sec>>

\* Months have no upper limit here, and every month has 31 days.
Readable(d) == /\ d[1] > 1900 /\ d[2] > 0 /\ d[3] \in 1 .. 31
               /\ d[4] \in 0 .. 23 /\ d[5] \in 0 .. 59 /\ d[6] \in 0 .. 59

ReadDateTime(d) ==
  IF ~Readable(d) THEN 0
  ELSE MkTime([year |-> d[1], mon |-> d[2] - 1, mday |-> d[3],
               hour |-> d[4], min |-> d[5], sec |-> d[6], isdst |-> 0])

DayBegin(zone, now) ==
  MkTime([LocalTime(zone, now) EXCEPT !.hour = 0, !.min = 0, !.sec = 0])

(***************************************************************************)
(* The calls.                                                              *)
(***************************************************************************)
Times == {86400 * d + s : d \in Days, s \in Seconds}
Zones == {"plain", "summer"}
Dates == {<<y, mon, d, h, 0, s>> :
            y \in {1900, 1999, 2000, 2001}, mon \in {0, 1, 2, 4, 12, 13, 26},
            d \in {0, 1, 28, 29, 30, 31, 32}, h \in {-1, 0, 23, 24}, s \in {59, 60}}

NoDate == [fn |-> "none"]

CalendarInit == calendar = NoDate

CallDiffTime ==
  \E zone \in Zones, early, late \in Times, limit \in {2} :
    calendar' = [fn |-> "diff", zone |-> zone, early |-> early, late |-> late,
                 day   |-> DiffTimeDay(zone, early, late),
                 week  |-> DiffTimeWeek(zone, early, late),
                 month |-> DiffTimeMonth(zone, early, late),
                 limit |-> limit, expired |-> IsDayExpired(zone, early, late, limit)]

CallTimeFormat ==
  \E zone \in Zones, t \in Times \ {0} :
    calendar' = [fn |-> "format", zone |-> zone, time |-> t,
                 back |-> ReadDateTime(TimeFormat(zone, t)), begin |-> DayBegin(zone, t)]

CallReadDateTime ==
  \E d \in Dates : calendar' = [fn |-> "read", date |-> d, out |-> ReadDateTime(d)]

CalendarNext ==
  IF calendar = NoDate THEN CallDiffTime \/ CallTimeFormat \/ CallReadDateTime
  ELSE calendar' = NoDate

CalendarSpec == CalendarInit /\ [][CalendarNext]_calendar

-----------------------------------------------------------------------------
(***************************************************************************)
(* Properties.                                                             *)
(***************************************************************************)
LocalDay(zone, t)  == (t + 3600 * LocalTime(zone, t).isdst) \div 86400
LocalWeek(zone, t) == (LocalDay(zone, t) + 3) \div 7
Sunday(zone, t)    == 86400 * (7 * LocalWeek(zone, t) + 3)

\* Counting from e to a later year goes astray when e is in the first hour of a
\* summer day: its 31 December is taken for the 30th, against the comment at
\* timeFunction.cpp:278.
Astray(e, l) == e.isdst = 1 /\ e.hour = 0 /\ e.year < l.year

\* Days apart are midnights apart, never negative, as timeFunction.h:41 has it; but
\* nothing is promised where the count goes astray.
DaysCounted ==
  calendar.fn = "diff" =>
    LET e == LocalTime(calendar.zone, calendar.early)
        l == LocalTime(calendar.zone, calendar.late)
        apart == LocalDay(calendar.zone, calendar.late) - LocalDay(calendar.zone, calendar.early)
    IN  /\ ~Astray(e, l) => calendar.day = IF calendar.early = 0 \/ calendar.late = 0 \/ apart < 0
                                           THEN 0 ELSE apart
        /\ calendar.expired <=> calendar.day >= calendar.limit

\* Weeks apart are Mondays apart, never negative.  That is what the code does; its
\* comments speak of Saturdays, and of a difference that 7 always divides
\* (timeFunction.cpp:317, 325), which it need not if the clocks change between one
\* of the days and the Sunday after it, or in the first hour of a summer day: then
\* nothing is promised.  Months apart are first days of a month apart, and negative
\* only backwards within a year.
WeeksCounted ==
  calendar.fn = "diff" /\ calendar.early # 0 /\ calendar.late # 0 =>
    LET zone == calendar.zone
        steady(t) == LocalTime(zone, t).isdst = LocalTime(zone, Sunday(zone, t) + 43200).isdst
        e == LocalTime(zone, calendar.early)
        l == LocalTime(zone, calendar.late)
        mondays == LocalWeek(zone, calendar.late) - LocalWeek(zone, calendar.early)
    IN  /\ steady(calendar.early) /\ steady(calendar.late) /\ ~(e.isdst = 1 /\ e.hour = 0)
           => calendar.week = Max({mondays, 0})
        /\ e.year <= l.year => calendar.month = 12 * (l.year - e.year) + l.mon - e.mon
        /\ calendar.month < 0 => e.year = l.year /\ calendar.early > calendar.late

\* What is formatted is read back, an hour later when it was written in summer, and
\* the day begins at midnight of the same day where it begins in the same season.
DatesReadBack ==
  calendar.fn = "format" =>
    LET zone == calendar.zone
        dst  == LocalTime(zone, calendar.time).isdst
    IN  /\ calendar.back = calendar.time + 3600 * dst
        /\ LocalTime(zone, calendar.begin).isdst = dst =>
             /\ LocalDay(zone, calendar.begin) = LocalDay(zone, calendar.time)
             /\ (calendar.begin + 3600 * dst) % 86400 = 0

\* A date is read as itself exactly when it is a date of the calendar; a day past
\* the end of its month or a month past the end of its year counts on, and any
\* other number out of range is refused.
DatesNormalised ==
  calendar.fn = "read" =>
    LET d == calendar.date
        isDate == Readable(d) /\ d[2] <= 12 /\ d[3] <= MonthLength(d[1])[d[2]]
    IN  /\ calendar.out # 0 <=> Readable(d)
        /\ calendar.out # 0 => (TimeFormat("plain", calendar.out) = d <=> isDate)

\* What the calendar promises its callers.
CalendarSound == DaysCounted /\ WeeksCounted /\ DatesReadBack /\ DatesNormalised
=============================================================================
