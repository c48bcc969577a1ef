-------------------------- MODULE Calendar_Proofs --------------------------
(***************************************************************************)
(* CalendarSound for all days and seconds: the calendar is an arithmetic   *)
(* of days, months and years, which the functions of timeFunction.cpp      *)
(* agree with.                                                             *)
(***************************************************************************)
EXTENDS Calendar, NaturalsInduction, WellFoundedInduction, TLAPS

\* The greatest of a set is what it looks like.
LEMMA MaxIs ==
  ASSUME NEW S \in SUBSET Int, NEW m \in S, \A x \in S : x <= m
  PROVE  Max(S) = m
<1>1. \E x \in S : \A y \in S : x >= y
  OBVIOUS
<1>2. Max(S) \in S /\ \A y \in S : Max(S) >= y
  BY <1>1, Zenon DEF Max
<1>. DEFINE most == Max(S)
<1>3. most \in S /\ most >= m
  BY <1>2
<1>. HIDE DEF most
<1>4. most = m
  BY <1>3
<1>. QED
  BY <1>4 DEF most

LEMMA DivIs ==
  ASSUME NEW x \in Int, NEW n \in Int, NEW k \in Int, n > 0, k = x \div n
  PROVE  n * k <= x /\ x < n * k + n
  OBVIOUS

(***************************************************************************)
(* Years and months.                                                       *)
(***************************************************************************)
LEMMA MonthIn ==
  /\ \A m : m \in Month <=> m \in Int /\ 0 <= m /\ m <= 11
  /\ 0 \in Month /\ 1 \in Month /\ 2 \in Month /\ 3 \in Month /\ 4 \in Month /\ 5 \in Month
  /\ 6 \in Month /\ 7 \in Month /\ 8 \in Month /\ 9 \in Month /\ 10 \in Month /\ 11 \in Month
  BY DEF Month

LEMMA YearIn == \A y : y \in Year <=> y \in Int /\ 1969 <= y /\ y <= 2039
  BY DEF Year

LEMMA YearIs ==
  ASSUME NEW y \in Int
  PROVE  LeapDay(y) \in Int /\ 0 <= LeapDay(y) /\ LeapDay(y) <= 1 /\ YearStart(y) \in Int
  BY DEF LeapDay, YearStart

\* A year ends where the next one starts.
LEMMA YearNext ==
  ASSUME NEW y \in Int, NEW z \in Int, z = y + 1
  PROVE  YearStart(z) = YearStart(y) + 365 + LeapDay(y)
<1>1. YearStart(y) = 365 * (y - 1970) + (y - 1969) \div 4
      /\ YearStart(z) = 365 * (y - 1969) + (y - 1968) \div 4
  BY DEF YearStart
<1>2. (y - 1968) \div 4 = (y - 1969) \div 4 + LeapDay(y)
  BY DEF LeapDay
<1>3. LeapDay(y) \in {0, 1}
  BY DEF LeapDay
<1>. QED
  BY <1>1, <1>2, <1>3

LEMMA YearsGrow ==
  ASSUME NEW x \in Int, NEW y \in Int, x < y
  PROVE  YearStart(x) + 365 + LeapDay(x) <= YearStart(y)
<1>1. PICK z \in Int : z = x + 1
  OBVIOUS
<1>2. YearStart(z) = YearStart(x) + 365 + LeapDay(x)
  BY <1>1, YearNext
<1>3. YearStart(z) <= YearStart(y)
  BY <1>1 DEF YearStart
<1>. QED
  BY <1>2, <1>3

\* A month has Long(y, m) days, all months of a year together 365 or 366.
Long(y, m) == MonthLength(y)[m + 1]

LEMMA MonthIs ==
  ASSUME NEW y \in Int, NEW m \in Month
  PROVE  /\ MonthStart(y, m) \in Int /\ 0 <= MonthStart(y, m)
         /\ Long(y, m) \in Int /\ 28 <= Long(y, m) /\ Long(y, m) <= 31
<1>1. m \in {0, 1, 2, 3, 4, 5, 6, 7, 8, 9, 10, 11}
  BY DEF Month
<1>2. LeapDay(y) \in {0, 1}
  BY DEF LeapDay
<1>. QED
  BY <1>1, <1>2 DEF MonthStart, MonthLength, Long

LEMMA MonthsGrow ==
  ASSUME NEW y \in Int, NEW m \in Month, NEW n \in Month, m < n
  PROVE  MonthStart(y, m) + Long(y, m) <= MonthStart(y, n)
<1>1. m \in {0, 1, 2, 3, 4, 5, 6, 7, 8, 9, 10, 11} /\ n \in {0, 1, 2, 3, 4, 5, 6, 7, 8, 9, 10, 11}
  BY DEF Month
<1>2. LeapDay(y) \in {0, 1}
  BY DEF LeapDay
<1>. QED
  BY <1>1, <1>2 DEF MonthStart, MonthLength, Long

LEMMA MonthNext ==
  ASSUME NEW y \in Int, NEW m \in Month, NEW n \in Month, n = m + 1
  PROVE  MonthStart(y, n) = MonthStart(y, m) + Long(y, m)
<1>1. m \in {0, 1, 2, 3, 4, 5, 6, 7, 8, 9, 10} /\ n = m + 1
  BY DEF Month
<1>2. LeapDay(y) \in {0, 1}
  BY DEF LeapDay
<1>. QED
  BY <1>1, <1>2 DEF MonthStart, MonthLength, Long

LEMMA MonthsEnd ==
  ASSUME NEW y \in Int
  PROVE  /\ MonthStart(y, 0) = 0
         /\ MonthStart(y, 11) = 334 + LeapDay(y)
         /\ Long(y, 11) = 31
<1>1. LeapDay(y) \in {0, 1}
  BY DEF LeapDay
<1>. QED
  BY <1>1 DEF MonthStart, MonthLength, Long

LEMMA MonthInYear ==
  ASSUME NEW y \in Int, NEW m \in Month
  PROVE  MonthStart(y, m) + Long(y, m) <= 365 + LeapDay(y)
<1>1. /\ MonthStart(y, m) \in Int /\ Long(y, m) \in Int /\ LeapDay(y) \in Int
      /\ MonthStart(y, 11) = 334 + LeapDay(y) /\ Long(y, 11) = 31
      /\ m \in Int /\ m <= 11 /\ 11 \in Month
  BY MonthIs, YearIs, MonthsEnd, MonthIn
<1>2. CASE m = 11
  BY <1>1, <1>2
<1>3. CASE m < 11
  BY <1>1, <1>3, MonthsGrow
<1>. QED
  BY <1>1, <1>2, <1>3

(***************************************************************************)
(* A day is one date, and Fields finds it.                                 *)
(***************************************************************************)
OfDate(y, m, mday) == YearStart(y) + MonthStart(y, m) + mday - 1

LEMMA OfDateIs ==
  ASSUME NEW y \in Int, NEW m \in Month, NEW mday \in Int
  PROVE  OfDate(y, m, mday) \in Int
  BY YearIs, MonthIs DEF OfDate

LEMMA MonthOf ==
  ASSUME NEW y \in Int, NEW r \in Nat, r < 365 + LeapDay(y)
  PROVE  \E m \in Month : MonthStart(y, m) <= r /\ r < MonthStart(y, m) + Long(y, m)
<1>1. SUFFICES ASSUME \A m \in Month : MonthStart(y, m) <= r => MonthStart(y, m) + Long(y, m) <= r
               PROVE  FALSE
  <2>1. ASSUME NEW m \in Month
        PROVE  r < MonthStart(y, m) + Long(y, m) \/ MonthStart(y, m) + Long(y, m) <= r
    <3>1. MonthStart(y, m) \in Int /\ Long(y, m) \in Int
      BY MonthIs
    <3>. QED
      BY <3>1
  <2>. QED
    BY <2>1
<1>2. ASSUME NEW m \in Month, NEW n \in Month, n = m + 1, MonthStart(y, m) <= r
      PROVE  MonthStart(y, n) <= r
  BY <1>1, <1>2, MonthNext
<1>3. MonthStart(y, 0) <= r
  BY MonthsEnd
<1>4. MonthStart(y, 1) <= r
  BY <1>2, <1>3, MonthIn, 1 = 0 + 1
<1>5. MonthStart(y, 2) <= r
  BY <1>2, <1>4, MonthIn, 2 = 1 + 1
<1>6. MonthStart(y, 3) <= r
  BY <1>2, <1>5, MonthIn, 3 = 2 + 1
<1>7. MonthStart(y, 4) <= r
  BY <1>2, <1>6, MonthIn, 4 = 3 + 1
<1>8. MonthStart(y, 5) <= r
  BY <1>2, <1>7, MonthIn, 5 = 4 + 1
<1>9. MonthStart(y, 6) <= r
  BY <1>2, <1>8, MonthIn, 6 = 5 + 1
<1>10. MonthStart(y, 7) <= r
  BY <1>2, <1>9, MonthIn, 7 = 6 + 1
<1>11. MonthStart(y, 8) <= r
  BY <1>2, <1>10, MonthIn, 8 = 7 + 1
<1>12. MonthStart(y, 9) <= r
  BY <1>2, <1>11, MonthIn, 9 = 8 + 1
<1>13. MonthStart(y, 10) <= r
  BY <1>2, <1>12, MonthIn, 10 = 9 + 1
<1>14. MonthStart(y, 11) <= r
  BY <1>2, <1>13, MonthIn, 11 = 10 + 1
<1>15. 365 + LeapDay(y) <= r
  BY <1>1, <1>14, MonthsEnd, MonthIn, YearIs
<1>. QED
  BY <1>15, YearIs

LEMMA YearOf ==
  ASSUME NEW d \in Nat, d <= 25000
  PROVE  \E y \in Int : /\ 1970 <= y /\ y <= 2038
                        /\ YearStart(y) <= d /\ d < YearStart(y) + 365 + LeapDay(y)
<1>1. PICK n \in Int : n = (4 * d + 2) \div 1461
  OBVIOUS
<1>2. 1461 * n <= 4 * d + 2 /\ 4 * d + 2 < 1461 * n + 1461
  <2>1. PICK x \in Int : x = 4 * d + 2
    OBVIOUS
  <2>2. 1461 * n <= x /\ x < 1461 * n + 1461
    BY <1>1, <2>1
  <2>. QED
    BY <2>1, <2>2
<1>3. 0 <= n /\ n <= 68
  BY <1>2
<1>4. PICK y \in Int : y = 1970 + n
  OBVIOUS
<1>5. PICK q \in Int : q = (n + 1) \div 4
  OBVIOUS
<1>6. 4 * q <= n + 1 /\ n + 1 < 4 * q + 4
  BY <1>5
<1>7. YearStart(y) = 365 * n + q
  BY <1>4, <1>5 DEF YearStart
<1>8. LeapDay(y) = IF n + 2 = 4 * q + 4 THEN 1 ELSE 0
  BY <1>4, <1>5, <1>6 DEF LeapDay
<1>9. 365 * n + q <= d /\ d < 365 * n + q + 365 + (IF n + 2 = 4 * q + 4 THEN 1 ELSE 0)
  BY <1>2, <1>6
<1>. QED
  BY <1>3, <1>4, <1>7, <1>8, <1>9

\* Every day is a date.
LEMMA DateOf ==
  ASSUME NEW d \in Nat, d <= 25000
  PROVE  \E y \in Int, m \in Month, mday \in Int :
           /\ 1970 <= y /\ y <= 2038 /\ 1 <= mday /\ mday <= Long(y, m)
           /\ d = OfDate(y, m, mday)
<1>1. PICK y \in Int : /\ 1970 <= y /\ y <= 2038
                       /\ YearStart(y) <= d /\ d < YearStart(y) + 365 + LeapDay(y)
  BY YearOf
<1>2. YearStart(y) \in Int /\ LeapDay(y) \in Int
  BY YearIs
<1>3. PICK r \in Int : r = d - YearStart(y)
  BY <1>2
<1>8. r \in Nat /\ r < 365 + LeapDay(y)
  BY <1>1, <1>2, <1>3
<1>4. PICK m \in Month : MonthStart(y, m) <= r /\ r < MonthStart(y, m) + Long(y, m)
  BY <1>8, MonthOf
<1>5. MonthStart(y, m) \in Int /\ Long(y, m) \in Int
  BY MonthIs
<1>6. PICK mday \in Int : mday = r - MonthStart(y, m) + 1
  BY <1>5
<1>7. 1 <= mday /\ mday <= Long(y, m) /\ d = OfDate(y, m, mday)
  BY <1>2, <1>3, <1>4, <1>5, <1>6 DEF OfDate
<1>. QED
  BY <1>1, <1>7

LEMMA YearFound ==
  ASSUME NEW y \in Year, NEW d \in Int, YearStart(y) <= d, d < YearStart(y) + 365 + LeapDay(y)
  PROVE  Max({z \in Year : YearStart(z) <= d}) = y
<1>. DEFINE Y == {z \in Year : YearStart(z) <= d}
<1>1. y \in Y /\ Y \in SUBSET Int
  BY YearIn
<1>2. ASSUME NEW z \in Y PROVE z <= y
  <2>1. y \in Int /\ z \in Int /\ YearStart(z) <= d
    BY YearIn
  <2>2. YearStart(y) \in Int /\ YearStart(z) \in Int /\ LeapDay(y) \in Int
    BY <2>1, YearIs
  <2>3. ~(y < z)
    BY <2>1, <2>2, YearsGrow
  <2>. QED
    BY <2>1, <2>3
<1>. HIDE DEF Y
<1>3. Max(Y) = y
  BY <1>1, <1>2, MaxIs
<1>. QED
  BY <1>3 DEF Y

LEMMA MonthFound ==
  ASSUME NEW y \in Int, NEW m \in Month, NEW r \in Int,
         MonthStart(y, m) <= r, r < MonthStart(y, m) + Long(y, m)
  PROVE  Max({k \in Month : MonthStart(y, k) <= r}) = m
<1>. DEFINE M == {k \in Month : MonthStart(y, k) <= r}
<1>1. m \in M /\ M \in SUBSET Int
  BY MonthIn
<1>2. ASSUME NEW k \in M PROVE k <= m
  <2>1. m \in Int /\ k \in Int /\ k \in Month /\ MonthStart(y, k) <= r
    BY MonthIn
  <2>2. MonthStart(y, m) \in Int /\ MonthStart(y, k) \in Int /\ Long(y, m) \in Int
    BY <2>1, MonthIs
  <2>3. ~(m < k)
    BY <2>1, <2>2, MonthsGrow
  <2>. QED
    BY <2>1, <2>3
<1>. HIDE DEF M
<1>3. Max(M) = m
  BY <1>1, <1>2, MaxIs
<1>. QED
  BY <1>3 DEF M

LEMMA FieldsOf ==
  ASSUME NEW y \in Year, NEW m \in Month, NEW mday \in Int, 1 <= mday, mday <= Long(y, m),
         NEW t \in Int, t \div 86400 = OfDate(y, m, mday), NEW dst
  PROVE  Fields(t, dst) =
           [year |-> y, mon |-> m, mday |-> mday,
            hour |-> (t % 86400) \div 3600, min |-> (t % 3600) \div 60, sec |-> t % 60,
            wday |-> (t \div 86400 + 4) % 7, yday |-> MonthStart(y, m) + mday - 1,
            isdst |-> dst]
<1>1. PICK d \in Int : d = t \div 86400
  OBVIOUS
<1>2. /\ YearStart(y) \in Int /\ Long(y, m) \in Int /\ LeapDay(y) \in Int
      /\ MonthStart(y, m) \in Int /\ 0 <= MonthStart(y, m) /\ d = OfDate(y, m, mday)
      /\ MonthStart(y, m) + Long(y, m) <= 365 + LeapDay(y)
  <2>1. y \in Int
    BY YearIn
  <2>. QED
    BY <1>1, <2>1, YearIs, MonthIs, MonthInYear
<1>3. Max({z \in Year : YearStart(z) <= d}) = y
  <2>1. YearStart(y) <= d /\ d < YearStart(y) + 365 + LeapDay(y)
    BY <1>2 DEF OfDate
  <2>. QED
    BY <2>1, YearFound
<1>4. Max({k \in Month : MonthStart(y, k) <= d - YearStart(y)}) = m
  <2>1. PICK r \in Int : r = d - YearStart(y)
    BY <1>2
  <2>2. MonthStart(y, m) <= r /\ r < MonthStart(y, m) + Long(y, m)
    BY <1>2, <2>1 DEF OfDate
  <2>. QED
    BY <2>1, <2>2, YearIn, MonthFound
<1>5. d - YearStart(y) - MonthStart(y, m) + 1 = mday /\ d - YearStart(y) = MonthStart(y, m) + mday - 1
  BY <1>2 DEF OfDate
<1>. DEFINE year == Max({z \in Year : YearStart(z) <= d})
            mon  == Max({k \in Month : MonthStart(year, k) <= d - YearStart(year)})
<1>6. Fields(t, dst) =
        [year |-> year, mon |-> mon, mday |-> d - YearStart(year) - MonthStart(year, mon) + 1,
         hour |-> (t % 86400) \div 3600, min |-> (t % 3600) \div 60, sec |-> t % 60,
         wday |-> (d + 4) % 7, yday |-> d - YearStart(year), isdst |-> dst]
  BY <1>1 DEF Fields
<1>7. year = y
  BY <1>3
<1>. HIDE DEF year
<1>8. mon = m
  BY <1>4, <1>7
<1>. HIDE DEF mon
<1>. QED
  BY <1>1, <1>5, <1>6, <1>7, <1>8

(***************************************************************************)
(* Clocks.                                                                 *)
(***************************************************************************)

\* Hours, minutes and seconds are the time of day.
LEMMA ClockIs ==
  ASSUME NEW t \in Int
  PROVE  LET h == (t % 86400) \div 3600
             m == (t % 3600) \div 60
             s == t % 60
         IN  /\ h \in Int /\ 0 <= h /\ h <= 23 /\ m \in Int /\ 0 <= m /\ m <= 59
             /\ s \in Int /\ 0 <= s /\ s <= 59
             /\ t = 86400 * (t \div 86400) + 3600 * h + 60 * m + s
<1>1. PICK d \in Int, w \in Int : d = t \div 86400 /\ w = t % 86400
  OBVIOUS
<1>2. t = 86400 * d + w /\ 0 <= w /\ w < 86400
  BY <1>1
<1>3. PICK h \in Int, r \in Int : h = w \div 3600 /\ r = w % 3600
  OBVIOUS
<1>4. w = 3600 * h + r /\ 0 <= r /\ r < 3600
  BY <1>3
<1>5. PICK m \in Int, s \in Int : m = r \div 60 /\ s = r % 60
  OBVIOUS
<1>6. r = 60 * m + s /\ 0 <= s /\ s < 60
  BY <1>5
<1>7. t % 3600 = r
  <2>1. PICK k \in Int : k = 24 * d + h
    OBVIOUS
  <2>2. t = 3600 * k + r
    BY <1>2, <1>4, <2>1
  <2>. QED
    BY <1>4, <2>2
<1>8. t % 60 = s
  <2>1. PICK k \in Int : k = 1440 * d + 60 * h + m
    OBVIOUS
  <2>2. t = 60 * k + s
    BY <1>2, <1>4, <1>6, <2>1
  <2>. QED
    BY <1>6, <2>2
<1>9. 0 <= h /\ h <= 23 /\ 0 <= m /\ m <= 59
  BY <1>2, <1>4, <1>6
<1>10. t = 86400 * d + 3600 * h + 60 * m + s
  BY <1>2, <1>4, <1>6
<1>. QED
  BY <1>1, <1>3, <1>5, <1>6, <1>7, <1>8, <1>9, <1>10

\* The fields of a clock that shows t.
Tm == [year : Int, mon : Month, mday : Int, hour : Int, min : Int, sec : Int,
       wday : Int, yday : Int, isdst : {0, 1}]

Shows(tm, t) ==
  /\ tm \in Tm
  /\ 1970 <= tm.year /\ tm.year <= 2038
  /\ 1 <= tm.mday /\ tm.mday <= Long(tm.year, tm.mon)
  /\ 0 <= tm.hour /\ tm.hour <= 23 /\ 0 <= tm.min /\ tm.min <= 59
  /\ 0 <= tm.sec /\ tm.sec <= 59
  /\ t \div 86400 = OfDate(tm.year, tm.mon, tm.mday)
  /\ t = 86400 * (t \div 86400) + 3600 * tm.hour + 60 * tm.min + tm.sec
  /\ tm.wday = (t \div 86400 + 4) % 7
  /\ tm.yday = MonthStart(tm.year, tm.mon) + tm.mday - 1

LEMMA FieldsAre ==
  ASSUME NEW t \in Int, NEW dst \in {0, 1}, NEW y \in Int, 1970 <= y, y <= 2038,
         NEW m \in Month, NEW mday \in Int, 1 <= mday, mday <= Long(y, m),
         t \div 86400 = OfDate(y, m, mday)
  PROVE  /\ Shows(Fields(t, dst), t) /\ Fields(t, dst).isdst = dst
         /\ Fields(t, dst).year = y /\ Fields(t, dst).mon = m /\ Fields(t, dst).mday = mday
<1>. DEFINE h == (t % 86400) \div 3600
            min == (t % 3600) \div 60
            s == t % 60
            w == (t \div 86400 + 4) % 7
            yday == MonthStart(y, m) + mday - 1
            tm == [year |-> y, mon |-> m, mday |-> mday, hour |-> h, min |-> min, sec |-> s,
                   wday |-> w, yday |-> yday, isdst |-> dst]
<1>1. y \in Year
  BY YearIn
<1>2. Fields(t, dst) = tm
  BY <1>1, FieldsOf
<1>3. /\ h \in Int /\ 0 <= h /\ h <= 23 /\ min \in Int /\ 0 <= min /\ min <= 59
      /\ s \in Int /\ 0 <= s /\ s <= 59
      /\ t = 86400 * (t \div 86400) + 3600 * h + 60 * min + s
  BY ClockIs
<1>4. w \in Int /\ yday \in Int
  BY MonthIs
<1>5. w = (t \div 86400 + 4) % 7 /\ yday = MonthStart(y, m) + mday - 1
  OBVIOUS
<1>. HIDE DEF h, min, s, w, yday
<1>6. tm \in Tm
  BY <1>3, <1>4 DEF Tm
<1>7. Shows(tm, t)
  BY <1>3, <1>5, <1>6 DEF Shows
<1>. QED
  BY <1>2, <1>7

\* A bound on times, in 2038.
InTime(t) == t \div 86400 < 25000

LEMMA FieldsShow ==
  ASSUME NEW t \in Nat, t \div 86400 <= 25000, NEW dst \in {0, 1}
  PROVE  Shows(Fields(t, dst), t) /\ Fields(t, dst).isdst = dst
<1>1. PICK d \in Int : d = t \div 86400
  OBVIOUS
<1>2. d \in Nat /\ d <= 25000
  BY <1>1
<1>3. PICK y \in Int, m \in Month, mday \in Int :
           /\ 1970 <= y /\ y <= 2038 /\ 1 <= mday /\ mday <= Long(y, m)
           /\ d = OfDate(y, m, mday)
  BY <1>2, DateOf
<1>. QED
  BY <1>1, <1>3, FieldsAre

\* What a clock shows belongs to one date.
LEMMA OneDate ==
  ASSUME NEW tm, NEW t \in Int, Shows(tm, t),
         NEW y \in Int, 1970 <= y, y <= 2038, NEW m \in Month, NEW mday \in Int,
         1 <= mday, mday <= Long(y, m), t \div 86400 = OfDate(y, m, mday)
  PROVE  tm.year = y /\ tm.mon = m /\ tm.mday = mday
<1>1. /\ tm.year \in Int /\ 1970 <= tm.year /\ tm.year <= 2038 /\ tm.mon \in Month
      /\ tm.mday \in Int /\ 1 <= tm.mday /\ tm.mday <= Long(tm.year, tm.mon)
      /\ t \div 86400 = OfDate(tm.year, tm.mon, tm.mday)
  BY DEF Shows, Tm
<1>2. /\ Fields(t, 0).year = y /\ Fields(t, 0).mon = m /\ Fields(t, 0).mday = mday
  BY FieldsAre
<1>3. /\ Fields(t, 0).year = tm.year /\ Fields(t, 0).mon = tm.mon /\ Fields(t, 0).mday = tm.mday
  BY <1>1, FieldsAre
<1>. QED
  BY <1>2, <1>3

(***************************************************************************)
(* Local time: Dst hours ahead.                                            *)
(***************************************************************************)
Dst(zone, t)  == IF Summer(zone, t) THEN 1 ELSE 0
Wall(zone, t) == t + 3600 * Dst(zone, t)

LEMMA LocalIs ==
  ASSUME NEW zone, NEW t \in Nat, InTime(t)
  PROVE  /\ Shows(LocalTime(zone, t), Wall(zone, t))
         /\ LocalTime(zone, t).isdst = Dst(zone, t)
         /\ LocalTime(zone, t) = Fields(Wall(zone, t), Dst(zone, t))
         /\ Wall(zone, t) \in Nat /\ Dst(zone, t) \in {0, 1}
         /\ LocalDay(zone, t) = Wall(zone, t) \div 86400
<1>1. t \in Nat
  OBVIOUS
<1>2. CASE Summer(zone, t)
  <2>1. Dst(zone, t) = 1 /\ Wall(zone, t) = t + 3600 /\ LocalTime(zone, t) = Fields(t + 3600, 1)
    BY <1>1, <1>2 DEF Dst, Wall, LocalTime
  <2>2. Shows(Fields(t + 3600, 1), t + 3600) /\ Fields(t + 3600, 1).isdst = 1
    BY FieldsShow DEF InTime
  <2>. QED
    BY <1>1, <2>1, <2>2 DEF LocalDay
<1>3. CASE ~Summer(zone, t)
  <2>1. Dst(zone, t) = 0 /\ Wall(zone, t) = t /\ LocalTime(zone, t) = Fields(t, 0)
    BY <1>1, <1>3 DEF Dst, Wall, LocalTime
  <2>2. Shows(Fields(t, 0), t) /\ Fields(t, 0).isdst = 0
    BY FieldsShow DEF InTime
  <2>. QED
    BY <1>1, <2>1, <2>2 DEF LocalDay
<1>. QED
  BY <1>2, <1>3

\* mktime takes a month of the year as it is.
LEMMA MkTimeIs ==
  ASSUME NEW tm, tm.year \in Int, tm.mon \in Month
  PROVE  MkTime(tm) = 86400 * OfDate(tm.year, tm.mon, tm.mday)
                        + 3600 * (tm.hour - tm.isdst) + 60 * tm.min + tm.sec
<1>1. /\ tm.year \in Int /\ tm.mon \in Int /\ 0 <= tm.mon /\ tm.mon <= 11
  BY MonthIn
<1>2. tm.mon \div 12 = 0 /\ tm.mon % 12 = tm.mon /\ tm.year + 0 = tm.year
  BY <1>1
<1>. QED
  BY <1>2 DEF MkTime, OfDate

LEMMA MkTimeShown ==
  ASSUME NEW tm, NEW t \in Int, Shows(tm, t)
  PROVE  MkTime(tm) = t - 3600 * tm.isdst
<1>1. /\ tm \in Tm /\ t \div 86400 = OfDate(tm.year, tm.mon, tm.mday)
      /\ t = 86400 * (t \div 86400) + 3600 * tm.hour + 60 * tm.min + tm.sec
  BY DEF Shows
<1>2. /\ tm.hour \in Int /\ tm.min \in Int /\ tm.sec \in Int /\ tm.isdst \in Int
  BY <1>1 DEF Tm
<1>3. PICK d \in Int : d = t \div 86400
  OBVIOUS
<1>4. MkTime(tm) = 86400 * d + 3600 * (tm.hour - tm.isdst) + 60 * tm.min + tm.sec
  BY <1>1, <1>3, MkTimeIs DEF Tm
<1>. QED
  BY <1>1, <1>2, <1>3, <1>4

\* mktime undoes localtime.
LEMMA MkTimeLocal ==
  ASSUME NEW zone, NEW t \in Nat, InTime(t)
  PROVE  MkTime(LocalTime(zone, t)) = t
<1>1. t \in Nat
  OBVIOUS
<1>2. MkTime(LocalTime(zone, t)) = Wall(zone, t) - 3600 * Dst(zone, t)
  BY LocalIs, MkTimeShown
<1>3. Dst(zone, t) \in Int
  BY DEF Dst
<1>. QED
  BY <1>1, <1>2, <1>3 DEF Wall

(***************************************************************************)
(* Text and time.                                                          *)
(***************************************************************************)
LEMMA Within ==
  ASSUME NEW a \in Int, NEW b \in Int, NEW x \in Int
  PROVE  x \in a .. b <=> a <= x /\ x <= b
  OBVIOUS

\* Six numbers are read when they are in range.
LEMMA ReadableIs ==
  ASSUME NEW d, d[3] \in Int, d[4] \in Int, d[5] \in Int, d[6] \in Int
  PROVE  Readable(d) <=>
           /\ d[1] > 1900 /\ d[2] > 0 /\ 1 <= d[3] /\ d[3] <= 31
           /\ 0 <= d[4] /\ d[4] <= 23 /\ 0 <= d[5] /\ d[5] <= 59 /\ 0 <= d[6] /\ d[6] <= 59
<1>1. /\ d[3] \in 1 .. 31 <=> 1 <= d[3] /\ d[3] <= 31
      /\ d[4] \in 0 .. 23 <=> 0 <= d[4] /\ d[4] <= 23
      /\ d[5] \in 0 .. 59 <=> 0 <= d[5] /\ d[5] <= 59
      /\ d[6] \in 0 .. 59 <=> 0 <= d[6] /\ d[6] <= 59
  <2>1. 0 \in Int /\ 1 \in Int /\ 31 \in Int /\ 23 \in Int /\ 59 \in Int
    OBVIOUS
  <2>. QED
    BY <2>1, Within, Zenon
<1>2. Readable(d) <=> /\ d[1] > 1900 /\ d[2] > 0 /\ d[3] \in 1 .. 31 /\ d[4] \in 0 .. 23
                      /\ d[5] \in 0 .. 59 /\ d[6] \in 0 .. 59
  BY DEF Readable
<1>. QED
  BY <1>1, <1>2

LEMMA ReadBack ==
  ASSUME NEW zone, NEW t \in Nat, InTime(t)
  PROVE  ReadDateTime(TimeFormat(zone, t)) = t + 3600 * Dst(zone, t)
<1>. DEFINE tm == LocalTime(zone, t)
            d  == TimeFormat(zone, t)
            asked == [year |-> d[1], mon |-> d[2] - 1, mday |-> d[3],
                      hour |-> d[4], min |-> d[5], sec |-> d[6], isdst |-> 0]
<1>1. Shows(tm, Wall(zone, t)) /\ Wall(zone, t) \in Nat
  BY LocalIs
<1>2. /\ d[1] = tm.year /\ d[2] = tm.mon + 1 /\ d[3] = tm.mday
      /\ d[4] = tm.hour /\ d[5] = tm.min /\ d[6] = tm.sec
  BY DEF TimeFormat
<1>3. ReadDateTime(d) = IF ~Readable(d) THEN 0 ELSE MkTime(asked)
  BY DEF ReadDateTime
<1>. HIDE DEF tm, d
<1>4. /\ tm.year \in Int /\ tm.mon \in Month /\ tm.mon \in Int /\ 0 <= tm.mon /\ tm.mday \in Int
      /\ tm.hour \in Int /\ tm.min \in Int /\ tm.sec \in Int /\ tm.year >= 1970
      /\ 1 <= tm.mday /\ tm.mday <= 31
      /\ 0 <= tm.hour /\ tm.hour <= 23 /\ 0 <= tm.min /\ tm.min <= 59
      /\ 0 <= tm.sec /\ tm.sec <= 59
  <2>1. tm \in Tm /\ tm.mday <= Long(tm.year, tm.mon)
    BY <1>1 DEF Shows
  <2>2. tm.year \in Int /\ tm.mon \in Month /\ tm.mday \in Int
    BY <2>1 DEF Tm
  <2>3. Long(tm.year, tm.mon) <= 31 /\ Long(tm.year, tm.mon) \in Int
    BY <2>2, MonthIs
  <2>4. tm.mon \in Int /\ 0 <= tm.mon
    BY <2>2, MonthIn
  <2>. QED
    BY <1>1, <2>1, <2>2, <2>3, <2>4 DEF Shows, Tm
<1>5. Readable(d)
  <2>1. d[3] \in Int /\ d[4] \in Int /\ d[5] \in Int /\ d[6] \in Int
    BY <1>2, <1>4
  <2>2. /\ d[1] > 1900 /\ d[2] > 0 /\ 1 <= d[3] /\ d[3] <= 31
        /\ 0 <= d[4] /\ d[4] <= 23 /\ 0 <= d[5] /\ d[5] <= 59 /\ 0 <= d[6] /\ d[6] <= 59
    BY <1>2, <1>4
  <2>. QED
    BY <2>1, <2>2, ReadableIs
<1>6. /\ asked.year = tm.year /\ asked.mon = tm.mon /\ asked.mday = tm.mday
      /\ asked.hour = tm.hour /\ asked.min = tm.min /\ asked.sec = tm.sec /\ asked.isdst = 0
  BY <1>2, <1>4
<1>7. ReadDateTime(d) = MkTime(asked)
  BY <1>3, <1>5
<1>. HIDE DEF asked
<1>8. MkTime(asked) = 86400 * OfDate(tm.year, tm.mon, tm.mday)
                        + 3600 * tm.hour + 60 * tm.min + tm.sec
  <2>1. MkTime(asked) = 86400 * OfDate(asked.year, asked.mon, asked.mday)
                        + 3600 * (asked.hour - asked.isdst) + 60 * asked.min + asked.sec
    BY <1>4, <1>6, MkTimeIs
  <2>2. OfDate(tm.year, tm.mon, tm.mday) \in Int
    <3>1. tm.year \in Int /\ tm.mon \in Month /\ tm.mday \in Int
      BY <1>4
    <3>. QED
      BY <3>1, OfDateIs
  <2>. QED
    BY <1>4, <1>6, <2>1, <2>2
<1>9. MkTime(asked) = Wall(zone, t)
  BY <1>1, <1>8 DEF Shows
<1>. QED
  BY <1>7, <1>9 DEF Wall, d

LEMMA BeginIs ==
  ASSUME NEW zone, NEW t \in Nat, InTime(t)
  PROVE  DayBegin(zone, t) = 86400 * LocalDay(zone, t) - 3600 * Dst(zone, t)
<1>. DEFINE tm == LocalTime(zone, t)
            begin == [tm EXCEPT !.hour = 0, !.min = 0, !.sec = 0]
<1>1. Shows(tm, Wall(zone, t)) /\ tm.isdst = Dst(zone, t) /\ Dst(zone, t) \in {0, 1}
      /\ LocalDay(zone, t) = Wall(zone, t) \div 86400 /\ Wall(zone, t) \in Nat
  BY LocalIs
<1>2. DayBegin(zone, t) = MkTime(begin)
  BY DEF DayBegin
<1>. HIDE DEF tm
<1>3. tm \in Tm /\ LocalDay(zone, t) = OfDate(tm.year, tm.mon, tm.mday)
  BY <1>1 DEF Shows
<1>4. /\ begin.year = tm.year /\ begin.mon = tm.mon /\ begin.mday = tm.mday
      /\ begin.hour = 0 /\ begin.min = 0 /\ begin.sec = 0 /\ begin.isdst = tm.isdst
      /\ tm.year \in Int /\ tm.mon \in Month /\ tm.mday \in Int
  BY <1>3 DEF Tm
<1>. HIDE DEF begin
<1>5. MkTime(begin) = 86400 * OfDate(begin.year, begin.mon, begin.mday)
                        + 3600 * (begin.hour - begin.isdst) + 60 * begin.min + begin.sec
  BY <1>4, MkTimeIs
<1>6. LocalDay(zone, t) \in Int
  <2>1. OfDate(tm.year, tm.mon, tm.mday) \in Int
    <3>1. tm.year \in Int /\ tm.mon \in Month /\ tm.mday \in Int
      BY <1>4
    <3>. QED
      BY <3>1, OfDateIs
  <2>. QED
    BY <1>3, <2>1
<1>. QED
  BY <1>1, <1>2, <1>3, <1>4, <1>5, <1>6

LEMMA FormatSound ==
  ASSUME NEW zone, NEW t \in Nat, InTime(t),
         calendar' = [fn |-> "format", zone |-> zone, time |-> t,
                      back |-> ReadDateTime(TimeFormat(zone, t)), begin |-> DayBegin(zone, t)]
  PROVE  DatesReadBack'
<1>. DEFINE dst == LocalTime(zone, t).isdst
            begin == DayBegin(zone, t)
            day   == LocalDay(zone, t)
<1>1. dst = Dst(zone, t) /\ dst \in Int /\ day \in Int /\ t \in Nat
  BY LocalIs
<1>2. ReadDateTime(TimeFormat(zone, t)) = t + 3600 * dst
  BY <1>1, ReadBack
<1>3. begin = 86400 * day - 3600 * dst
  BY <1>1, BeginIs
<1>4. ASSUME LocalTime(zone, begin).isdst = dst
      PROVE  LocalDay(zone, begin) = day /\ (begin + 3600 * dst) % 86400 = 0
  <2>1. LocalDay(zone, begin) = (begin + 3600 * dst) \div 86400
    BY <1>4 DEF LocalDay
  <2>. HIDE DEF begin, day, dst
  <2>2. begin + 3600 * dst = 86400 * day
    BY <1>1, <1>3
  <2>. QED
    BY <1>1, <2>1, <2>2
<1>. QED
  BY <1>2, <1>4 DEF DatesReadBack

\* mktime carries months past the end of a year over, and takes any day of the month.
LEMMA MkTimeCarries ==
  ASSUME NEW y \in Int, NEW mon \in Int, NEW mday \in Int, NEW h \in Int, NEW s \in Int
  PROVE  LET m == (mon - 1) % 12
             z == y + (mon - 1) \div 12
         IN  /\ m \in Month /\ z \in Int
             /\ MkTime([year |-> y, mon |-> mon - 1, mday |-> mday,
                        hour |-> h, min |-> 0, sec |-> s, isdst |-> 0])
                  = 86400 * OfDate(z, m, mday) + 3600 * h + s
<1>. DEFINE m == (mon - 1) % 12
            z == y + (mon - 1) \div 12
<1>1. m \in Int /\ 0 <= m /\ m <= 11 /\ z \in Int
  OBVIOUS
<1>2. m \in Month
  BY <1>1, MonthIn
<1>3. MkTime([year |-> y, mon |-> mon - 1, mday |-> mday,
              hour |-> h, min |-> 0, sec |-> s, isdst |-> 0])
        = 86400 * OfDate(z, m, mday) + 3600 * (h - 0) + 60 * 0 + s
  BY DEF MkTime, OfDate
<1>. HIDE DEF m, z
<1>4. OfDate(z, m, mday) \in Int
  BY <1>1, <1>2, OfDateIs
<1>5. MkTime([year |-> y, mon |-> mon - 1, mday |-> mday,
              hour |-> h, min |-> 0, sec |-> s, isdst |-> 0])
        = 86400 * OfDate(z, m, mday) + 3600 * h + s
  BY <1>3, <1>4
<1>. QED
  BY <1>1, <1>2, <1>5 DEF m, z

LEMMA DateBounds ==
  ASSUME NEW y \in Int, NEW m \in Month, NEW mday \in Int, 1971 <= y, y <= 2036,
         1 <= mday, mday <= 31
  PROVE  OfDate(y, m, mday) \in Int /\ 365 <= OfDate(y, m, mday) /\ OfDate(y, m, mday) <= 24800
<1>1. YearStart(y) \in Int /\ 365 <= YearStart(y) /\ YearStart(y) <= 24110
  BY DEF YearStart
<1>2. /\ MonthStart(y, m) \in Int /\ Long(y, m) \in Int /\ 0 <= MonthStart(y, m)
      /\ 28 <= Long(y, m) /\ MonthStart(y, m) + Long(y, m) <= 365 + LeapDay(y)
      /\ LeapDay(y) \in Int /\ LeapDay(y) <= 1
  BY MonthIs, MonthInYear, YearIs
<1>. QED
  BY <1>1, <1>2 DEF OfDate

LEMMA PlainTime ==
  ASSUME NEW t \in Nat
  PROVE  LocalTime("plain", t) = Fields(t, 0)
  BY DEF LocalTime, Summer

LEMMA ReadSound ==
  ASSUME NEW y \in Int, y <= 1900 \/ (1971 <= y /\ y <= 2030),
         NEW mon \in Int, mon <= 60, NEW mday \in Int, NEW h \in Int, NEW s \in Int,
         calendar' = [fn |-> "read", date |-> <<y, mon, mday, h, 0, s>>,
                      out |-> ReadDateTime(<<y, mon, mday, h, 0, s>>)]
  PROVE  DatesNormalised'
<1>. DEFINE d == <<y, mon, mday, h, 0, s>>
            isDate == Readable(d) /\ d[2] <= 12 /\ d[3] <= MonthLength(d[1])[d[2]]
            out == ReadDateTime(d)
<1>1. d[1] = y /\ d[2] = mon /\ d[3] = mday /\ d[4] = h /\ d[5] = 0 /\ d[6] = s
  OBVIOUS
<1>2. SUFFICES /\ out # 0 <=> Readable(d)
               /\ out # 0 => (TimeFormat("plain", out) = d <=> isDate)
  BY DEF DatesNormalised
<1>. HIDE DEF d
<1>3. Readable(d) <=> /\ y > 1900 /\ mon > 0 /\ 1 <= mday /\ mday <= 31
                      /\ 0 <= h /\ h <= 23 /\ 0 <= s /\ s <= 59
  <2>1. d[3] \in Int /\ d[4] \in Int /\ d[5] \in Int /\ d[6] \in Int
    BY <1>1
  <2>2. Readable(d) <=>
           /\ d[1] > 1900 /\ d[2] > 0 /\ 1 <= d[3] /\ d[3] <= 31
           /\ 0 <= d[4] /\ d[4] <= 23 /\ 0 <= d[5] /\ d[5] <= 59 /\ 0 <= d[6] /\ d[6] <= 59
    BY <2>1, ReadableIs
  <2>. QED
    BY <1>1, <2>2
<1>4. CASE ~Readable(d)
  BY <1>4 DEF ReadDateTime
<1>5. CASE Readable(d)
  <2>. DEFINE m == (mon - 1) % 12
              z == y + (mon - 1) \div 12
              tm == LocalTime("plain", out)
  <2>1. /\ m \in Month /\ z \in Int
        /\ out = 86400 * OfDate(z, m, mday) + 3600 * h + s
    <3>1. out = MkTime([year |-> y, mon |-> mon - 1, mday |-> mday,
                        hour |-> h, min |-> 0, sec |-> s, isdst |-> 0])
      BY <1>1, <1>5 DEF ReadDateTime
    <3>. HIDE DEF out
    <3>. QED
      BY <3>1, MkTimeCarries
  <2>2. /\ 1971 <= y /\ y <= 2030 /\ 1 <= mon /\ 1 <= mday /\ mday <= 31
        /\ 0 <= h /\ h <= 23 /\ 0 <= s /\ s <= 59
    BY <1>3, <1>5
  <2>3. 1971 <= z /\ z <= 2036
    BY <2>2
  <2>. HIDE DEF out
  <2>4. PICK day \in Int : day = OfDate(z, m, mday) /\ 365 <= day /\ day <= 24800
    <3>. HIDE DEF m, z
    <3>. QED
      BY <2>1, <2>2, <2>3, DateBounds
  <2>5. /\ out = 86400 * day + 3600 * h + 60 * 0 + s /\ out \in Nat /\ out # 0
        /\ out \div 86400 <= 25000 /\ out \div 86400 = day
    <3>1. out = 86400 * day + 3600 * h + s
      BY <2>1, <2>4
    <3>. HIDE DEF m, z
    <3>. QED
      BY <2>2, <2>4, <3>1
  <2>6. Shows(tm, out)
    BY <2>5, PlainTime, FieldsShow
  <2>. HIDE DEF tm
  <2>7. /\ tm.year \in Int /\ tm.mon \in Month /\ tm.mon \in Int /\ tm.mday \in Int
        /\ tm.hour \in Int /\ tm.min \in Int /\ tm.sec \in Int /\ 0 <= tm.mon /\ tm.mon <= 11
    <3>1. tm \in Tm
      BY <2>6 DEF Shows
    <3>. QED
      BY <3>1, MonthIn DEF Tm
  <2>8. tm.hour = h /\ tm.min = 0 /\ tm.sec = s
    <3>1. 3600 * tm.hour + 60 * tm.min + tm.sec = 3600 * h + 60 * 0 + s
      <4>1. out = 86400 * day + 3600 * tm.hour + 60 * tm.min + tm.sec
        BY <2>5, <2>6 DEF Shows
      <4>. QED
        BY <2>5, <2>7, <4>1
    <3>2. /\ 0 <= tm.hour /\ tm.hour <= 23 /\ 0 <= tm.min /\ tm.min <= 59
          /\ 0 <= tm.sec /\ tm.sec <= 59
      BY <2>6 DEF Shows
    <3>3. PICK i \in Int, n \in Int, r \in Int : i = tm.hour /\ n = tm.min /\ r = tm.sec
      BY <2>7
    <3>4. 3600 * i + 60 * n + r = 3600 * h + s
      BY <3>1, <3>3
    <3>5. /\ 0 <= i /\ i <= 23 /\ 0 <= n /\ n <= 59 /\ 0 <= r /\ r <= 59
      BY <3>2, <3>3
    <3>6. i = h /\ n = 0 /\ r = s
      BY <2>2, <3>4, <3>5
    <3>. QED
      BY <3>3, <3>6
  <2>9. TimeFormat("plain", out) = d <=> tm.year = y /\ tm.mon + 1 = mon /\ tm.mday = mday
    <3>1. TimeFormat("plain", out) =
             <<tm.year, tm.mon + 1, tm.mday, tm.hour, tm.min, tm.sec>>
      BY DEF TimeFormat, tm
    <3>. QED
      BY <2>8, <3>1 DEF d
  <2>10. ASSUME isDate PROVE tm.year = y /\ tm.mon + 1 = mon /\ tm.mday = mday
    <3>1. mon <= 12 /\ mday <= MonthLength(y)[mon]
      BY <1>1, <2>10
    <3>2. z = y /\ m = mon - 1
      BY <2>2, <3>1
    <3>3. mday <= Long(y, m)
      <4>1. m + 1 = mon
        BY <2>2, <3>2
      <4>. HIDE DEF m, z
      <4>. QED
        BY <3>1, <4>1 DEF Long
    <3>4. out \div 86400 = OfDate(y, m, mday)
      BY <2>4, <2>5, <3>2
    <3>5. tm.year = y /\ tm.mon = m /\ tm.mday = mday
      <4>. HIDE DEF m, z
      <4>1. out \in Int /\ 1970 <= y /\ y <= 2038
        BY <2>2, <2>5
      <4>. QED
        BY <2>1, <2>2, <2>6, <3>3, <3>4, <4>1, OneDate
    <3>. QED
      BY <3>2, <3>5
  <2>11. ASSUME tm.year = y, tm.mon + 1 = mon, tm.mday = mday PROVE isDate
    <3>1. mday <= Long(y, tm.mon)
      BY <2>6, <2>11 DEF Shows
    <3>2. mday <= MonthLength(y)[mon]
      BY <2>11, <3>1 DEF Long
    <3>3. mon <= 12
      BY <2>7, <2>11
    <3>. QED
      BY <1>1, <1>5, <3>2, <3>3
  <2>. QED
    BY <1>5, <2>5, <2>9, <2>10, <2>11
<1>. QED
  BY <1>4, <1>5

(***************************************************************************)
(* Days between two times: the years in between are counted one by one.    *)
(***************************************************************************)

\* A clock's day by its year and its day of the year.
LEMMA DayOfYear ==
  ASSUME NEW tm, NEW t \in Int, Shows(tm, t)
  PROVE  /\ tm.year \in Int /\ tm.yday \in Int /\ 0 <= tm.yday
         /\ tm.yday < 365 + LeapDay(tm.year)
         /\ t \div 86400 = YearStart(tm.year) + tm.yday
<1>1. /\ tm.year \in Int /\ tm.mon \in Month /\ tm.mday \in Int /\ tm.yday \in Int
  BY DEF Shows, Tm
<1>2. /\ 1 <= tm.mday /\ tm.mday <= Long(tm.year, tm.mon)
      /\ t \div 86400 = OfDate(tm.year, tm.mon, tm.mday)
      /\ tm.yday = MonthStart(tm.year, tm.mon) + tm.mday - 1
  BY DEF Shows
<1>3. /\ MonthStart(tm.year, tm.mon) \in Int /\ 0 <= MonthStart(tm.year, tm.mon)
      /\ Long(tm.year, tm.mon) \in Int
  BY <1>1, MonthIs
<1>4. /\ MonthStart(tm.year, tm.mon) + Long(tm.year, tm.mon) <= 365 + LeapDay(tm.year)
      /\ LeapDay(tm.year) \in Int /\ YearStart(tm.year) \in Int
  BY <1>1, YearIs, MonthInYear
<1>. QED
  BY <1>1, <1>2, <1>3, <1>4 DEF OfDate

\* At the end of a year it is winter.
LEMMA December ==
  ASSUME NEW zone, NEW y \in Int, 1970 <= y, y <= 2037, NEW mday \in Int, 30 <= mday, mday <= 31,
         NEW t \in Nat, t \div 86400 = OfDate(y, 11, mday)
  PROVE  /\ LocalTime(zone, t) = Fields(t, 0) /\ Shows(Fields(t, 0), t)
         /\ Fields(t, 0).year = y /\ Fields(t, 0).mon = 11 /\ Fields(t, 0).mday = mday
         /\ Fields(t, 0).isdst = 0
<1>1. 11 \in Month /\ Long(y, 11) = 31
  BY MonthIn, MonthsEnd
<1>2. /\ Shows(Fields(t, 0), t) /\ Fields(t, 0).isdst = 0
      /\ Fields(t, 0).year = y /\ Fields(t, 0).mon = 11 /\ Fields(t, 0).mday = mday
  <2>1. t \in Int /\ 1970 <= y /\ y <= 2038 /\ 1 <= mday /\ mday <= Long(y, 11)
    BY <1>1
  <2>. QED
    BY <1>1, <2>1, FieldsAre
<1>3. ~Summer(zone, t)
  BY <1>2 DEF Summer
<1>. QED
  BY <1>2, <1>3 DEF LocalTime

\* What the loop has come to at the end of year y: 31 December at the hour of e, or
\* the 30th if e is in the first hour of a summer day, which in winter is the day before.
Early(e)    == e.isdst = 1 /\ e.hour = 0
LastDay(e)  == IF Early(e) THEN 30 ELSE 31
Missed(e, n) == IF Early(e) THEN n ELSE 0
Moment(e, y) ==
  86400 * OfDate(y, 11, LastDay(e))
    + 3600 * (IF Early(e) THEN 23 ELSE e.hour - e.isdst) + 60 * e.min + e.sec

Came(e, y) ==
  IF y < e.year
  THEN [end |-> [e EXCEPT !.year = @ - 1, !.mon = 11, !.mday = 31], days |-> -e.yday]
  ELSE [end  |-> Fields(Moment(e, y), 0),
        days |-> YearStart(y + 1) - YearStart(e.year) - Missed(e, y + 1 - e.year) - e.yday]

\* A turn of the loop, from what the turns before have come to.
Turn(zone, e, to, y) ==
  IF y < e.year
  THEN [end |-> [e EXCEPT !.year = @ - 1, !.mon = 11, !.mday = 31], days |-> -e.yday]
  ELSE LET before == to[y - 1]
           end    == LocalTime(zone, MkTime([before.end EXCEPT !.year = @ + 1]))
       IN  [end |-> end, days |-> before.days + end.yday + 1]

LEMMA DayPart ==
  ASSUME NEW k \in Int, NEW r \in Int, 0 <= r, r < 86400, NEW x, x = 86400 * k + r
  PROVE  x \in Int /\ x \div 86400 = k /\ (k >= 0 => x >= 0)
  OBVIOUS

LEMMA MomentIs ==
  ASSUME NEW e, NEW w \in Int, Shows(e, w), NEW y \in Int, 1970 <= y, y <= 2037
  PROVE  /\ Moment(e, y) \in Nat
         /\ Moment(e, y) \div 86400 = OfDate(y, 11, LastDay(e))
         /\ Moment(e, y) = 86400 * OfDate(y, 11, 31)
                             + 3600 * (e.hour - e.isdst) + 60 * e.min + e.sec
<1>1. PICK h \in Int, m \in Int, s \in Int, i \in Int :
         h = e.hour /\ m = e.min /\ s = e.sec /\ i = e.isdst
  BY DEF Shows, Tm
<1>2. /\ 0 <= h /\ h <= 23 /\ 0 <= m /\ m <= 59 /\ 0 <= s /\ s <= 59 /\ (i = 0 \/ i = 1)
  BY <1>1 DEF Shows, Tm
<1>3. PICK d \in Int : d = OfDate(y, 11, 31) /\ d >= 30 /\ OfDate(y, 11, 30) = d - 1
  <2>1. 11 \in Month /\ MonthStart(y, 11) \in Int /\ 0 <= MonthStart(y, 11)
    BY MonthIn, MonthIs
  <2>2. YearStart(y) \in Int /\ 0 <= YearStart(y)
    BY DEF YearStart
  <2>. QED
    BY <2>1, <2>2 DEF OfDate
<1>4. CASE Early(e)
  <2>1. h = 0 /\ i = 1
    BY <1>1, <1>4 DEF Early
  <2>2. Moment(e, y) = 86400 * (d - 1) + 3600 * 23 + 60 * m + s /\ OfDate(y, 11, LastDay(e)) = d - 1
    BY <1>1, <1>3, <1>4 DEF Moment, LastDay
  <2>3. PICK k \in Int, r \in Int : k = d - 1 /\ r = 3600 * 23 + 60 * m + s
    OBVIOUS
  <2>4. 0 <= r /\ r < 86400 /\ k >= 0 /\ Moment(e, y) = 86400 * k + r
    BY <1>2, <1>3, <2>2, <2>3
  <2>5. Moment(e, y) = 86400 * d + 3600 * (h - i) + 60 * m + s
    BY <2>1, <2>3, <2>4
  <2>. QED
    BY <1>1, <1>3, <2>2, <2>3, <2>4, <2>5, DayPart
<1>5. CASE ~Early(e)
  <2>1. 0 <= h - i
    BY <1>1, <1>2, <1>5 DEF Early
  <2>2. Moment(e, y) = 86400 * d + 3600 * (h - i) + 60 * m + s /\ OfDate(y, 11, LastDay(e)) = d
    BY <1>1, <1>3, <1>5 DEF Moment, LastDay
  <2>3. PICK r \in Int : r = 3600 * (h - i) + 60 * m + s
    OBVIOUS
  <2>4. 0 <= r /\ r < 86400 /\ d >= 0 /\ Moment(e, y) = 86400 * d + r
    BY <1>2, <1>3, <2>1, <2>2, <2>3
  <2>. QED
    BY <1>1, <1>3, <2>2, <2>4, DayPart
<1>. QED
  BY <1>4, <1>5

\* From one year to the next.
LEMMA TurnIs ==
  ASSUME NEW zone, NEW e, NEW w \in Int, Shows(e, w), NEW y \in Int, e.year <= y, y <= 2037,
         NEW to, to[y - 1] = Came(e, y - 1)
  PROVE  Turn(zone, e, to, y) = Came(e, y)
<1>. DEFINE before == to[y - 1]
            asked  == [before.end EXCEPT !.year = @ + 1]
            end    == LocalTime(zone, MkTime(asked))
<1>1. /\ e \in Tm /\ e.year \in Int /\ 1970 <= e.year /\ 1970 <= y
      /\ e.yday \in Int /\ e.hour \in Int /\ e.min \in Int /\ e.sec \in Int /\ e.isdst \in Int
  BY DEF Shows, Tm
<1>2. /\ Moment(e, y) \in Nat
      /\ Moment(e, y) \div 86400 = OfDate(y, 11, LastDay(e))
      /\ Moment(e, y) = 86400 * OfDate(y, 11, 31)
                             + 3600 * (e.hour - e.isdst) + 60 * e.min + e.sec
  BY <1>1, MomentIs
<1>3. 11 \in Month /\ LastDay(e) \in Int /\ 30 <= LastDay(e) /\ LastDay(e) <= 31
  BY MonthIn DEF LastDay
<1>4. MkTime(asked) = Moment(e, y)
  <2>1. CASE y = e.year
    <3>1. before.end = [e EXCEPT !.year = @ - 1, !.mon = 11, !.mday = 31]
      BY <1>1, <2>1 DEF Came
    <3>. HIDE DEF before
    <3>2. /\ asked.year = y /\ asked.mon = 11 /\ asked.mday = 31 /\ asked.hour = e.hour
          /\ asked.min = e.min /\ asked.sec = e.sec /\ asked.isdst = e.isdst
      BY <1>1, <2>1, <3>1 DEF Tm
    <3>. HIDE DEF asked
    <3>3. MkTime(asked) = 86400 * OfDate(asked.year, asked.mon, asked.mday)
                        + 3600 * (asked.hour - asked.isdst) + 60 * asked.min + asked.sec
      BY <1>3, <3>2, MkTimeIs
    <3>. QED
      BY <1>2, <3>2, <3>3
  <2>2. CASE e.year < y
    <3>1. PICK x \in Int : x = y - 1 /\ 1970 <= x /\ x <= 2037
      BY <1>1, <2>2
    <3>. DEFINE was == Fields(Moment(e, x), 0)
    <3>2. /\ Moment(e, x) \in Nat
          /\ Moment(e, x) \div 86400 = OfDate(x, 11, LastDay(e))
      BY <3>1, MomentIs
    <3>3. /\ Shows(was, Moment(e, x)) /\ was.year = x /\ was.mon = 11 /\ was.mday = LastDay(e)
          /\ was.isdst = 0
      BY <1>3, <3>1, <3>2, December
    <3>4. before.end = was
      BY <1>1, <2>2, <3>1 DEF Came
    <3>. HIDE DEF before, was
    <3>5. /\ was \in Tm
          /\ Moment(e, x) = 86400 * (Moment(e, x) \div 86400) + 3600 * was.hour + 60 * was.min + was.sec
      BY <3>3 DEF Shows
    <3>6. /\ asked.year = y /\ asked.mon = 11 /\ asked.mday = LastDay(e) /\ asked.hour = was.hour
          /\ asked.min = was.min /\ asked.sec = was.sec /\ asked.isdst = 0
      BY <3>1, <3>3, <3>4, <3>5 DEF Tm
    <3>. HIDE DEF asked
    <3>7. MkTime(asked) = 86400 * OfDate(asked.year, asked.mon, asked.mday)
                        + 3600 * (asked.hour - asked.isdst) + 60 * asked.min + asked.sec
      BY <1>3, <3>6, MkTimeIs
    <3>8. /\ was.hour \in Int /\ was.min \in Int /\ was.sec \in Int
          /\ OfDate(y, 11, LastDay(e)) \in Int /\ OfDate(x, 11, LastDay(e)) \in Int
      BY <1>3, <3>5, OfDateIs DEF Tm
    <3>9. Moment(e, y) - 86400 * OfDate(y, 11, LastDay(e)) = Moment(e, x) - 86400 * OfDate(x, 11, LastDay(e))
      <4>. DEFINE rest == 3600 * (IF Early(e) THEN 23 ELSE e.hour - e.isdst) + 60 * e.min + e.sec
      <4>1. rest \in Int
        BY <1>1
      <4>2. /\ Moment(e, y) = 86400 * OfDate(y, 11, LastDay(e)) + rest
            /\ Moment(e, x) = 86400 * OfDate(x, 11, LastDay(e)) + rest
        BY <1>1, <3>8 DEF Moment
      <4>. HIDE DEF rest
      <4>. QED
        BY <3>8, <4>1, <4>2
    <3>10. PICK a \in Int, b \in Int : a = OfDate(y, 11, LastDay(e)) /\ b = OfDate(x, 11, LastDay(e))
      BY <3>8
    <3>11. PICK r \in Int : r = 3600 * was.hour + 60 * was.min + was.sec
      BY <3>8
    <3>12. Moment(e, x) = 86400 * b + r
      BY <3>2, <3>5, <3>8, <3>10, <3>11
    <3>13. MkTime(asked) = 86400 * a + r
      BY <3>6, <3>7, <3>8, <3>10, <3>11
    <3>14. Moment(e, y) - 86400 * a = Moment(e, x) - 86400 * b
      BY <3>9, <3>10
    <3>. QED
      BY <1>2, <3>2, <3>12, <3>13, <3>14
  <2>. QED
    BY <1>1, <2>1, <2>2
<1>. HIDE DEF asked
<1>5. end = Fields(Moment(e, y), 0) /\ Shows(end, Moment(e, y)) /\ end.year = y
      /\ end.mon = 11 /\ end.mday = LastDay(e)
  BY <1>1, <1>2, <1>3, <1>4, December
<1>6. end.yday = 364 + LeapDay(y) - Missed(e, 1) /\ LeapDay(y) \in Int
  <2>1. end.yday = MonthStart(y, 11) + LastDay(e) - 1 /\ MonthStart(y, 11) = 334 + LeapDay(y)
    BY <1>5, MonthsEnd DEF Shows
  <2>2. LeapDay(y) \in Int
    BY YearIs
  <2>. QED
    BY <2>1, <2>2 DEF LastDay, Missed
<1>7. before.days = YearStart(y) - YearStart(e.year) - Missed(e, y - e.year) - e.yday
  <2>1. CASE y = e.year
    <3>1. before.days = -e.yday
      BY <1>1, <2>1 DEF Came
    <3>2. Missed(e, y - e.year) = 0 /\ YearStart(e.year) \in Int
      BY <1>1, <2>1, YearIs DEF Missed
    <3>. QED
      BY <1>1, <2>1, <3>1, <3>2
  <2>2. CASE e.year < y
    BY <1>1, <2>2 DEF Came
  <2>. QED
    BY <1>1, <2>1, <2>2
<1>8. Turn(zone, e, to, y) = [end |-> end, days |-> before.days + end.yday + 1]
  BY <1>1 DEF Turn, asked
<1>9. before.days + end.yday + 1 =
        YearStart(y + 1) - YearStart(e.year) - Missed(e, y + 1 - e.year) - e.yday
  <2>1. YearStart(y + 1) = YearStart(y) + 365 + LeapDay(y)
    BY YearNext
  <2>2. YearStart(y) \in Int /\ YearStart(e.year) \in Int
    BY <1>1, YearIs
  <2>3. /\ Missed(e, y + 1 - e.year) = Missed(e, y - e.year) + Missed(e, 1)
        /\ Missed(e, y - e.year) \in Int /\ Missed(e, 1) \in Int
    BY <1>1 DEF Missed
  <2>. HIDE DEF before, end
  <2>. QED
    BY <1>1, <1>6, <1>7, <2>1, <2>2, <2>3
<1>. HIDE DEF before, end
<1>. QED
  BY <1>1, <1>5, <1>8, <1>9 DEF Came

\* A set of numbers has a least one.
LEMMA LeastOf ==
  ASSUME NEW W \in SUBSET Nat, W # {}
  PROVE  \E w \in W : \A v \in W : w <= v
<1>. DEFINE R == OpToRel(<, Nat)
<1>1. \A v, w \in Nat : v < w => <<v, w>> \in R
  BY DEF OpToRel
<1>2. IsWellFoundedOn(R, Nat)
  BY NatLessThanWellFounded, Zenon
<1>. HIDE DEF R
<1>3. PICK w \in W : \A v \in W : <<v, w>> \notin R
  BY <1>2, WFMin
<1>4. ASSUME NEW v \in W PROVE w <= v
  <2>1. ~(v < w)
    BY <1>1, <1>3, Zenon
  <2>. QED
    BY <2>1
<1>. QED
  BY <1>4

\* The loop comes to the end of each year as Came says.
Follows(last, e) == e.year <= last /\ last <= 2037

LEMMA YearEndsAre ==
  ASSUME NEW zone, NEW e, NEW w \in Int, Shows(e, w), NEW last \in Int, Follows(last, e)
  PROVE  YearEnds(zone, e, last)[last] = Came(e, last)
<1>. DEFINE first == e.year - 1
            S == first .. last
            its(to) == to = [y \in S |-> Turn(zone, e, to, y)]
            f == YearEnds(zone, e, last)
            came == [y \in S |-> Came(e, y)]
<1>1. f = CHOOSE to : its(to)
  BY DEF YearEnds, Turn
<1>2. e.year \in Int /\ first \in Int /\ first + 1 = e.year
  BY DEF Shows, Tm
<1>12. e.year <= last /\ last <= 2037
  BY DEF Follows
<1>. HIDE DEF f, first
<1>3. ASSUME NEW y \in S, NEW to, y < e.year \/ to[y - 1] = Came(e, y - 1)
      PROVE  Turn(zone, e, to, y) = Came(e, y)
  <2>1. CASE y < e.year
    BY <2>1 DEF Turn, Came
  <2>2. CASE ~(y < e.year)
    <3>1. y \in Int /\ e.year <= y /\ y <= 2037 /\ to[y - 1] = Came(e, y - 1)
      BY <1>2, <1>3, <1>12, <2>2
    <3>. QED
      BY <3>1, TurnIs
  <2>. QED
    BY <2>1, <2>2
<1>4. its(came)
  <2>1. ASSUME NEW y \in S PROVE Turn(zone, e, came, y) = Came(e, y)
    <3>1. y < e.year \/ came[y - 1] = Came(e, y - 1)
      BY <1>2
    <3>. HIDE DEF came, S
    <3>. QED
      BY <1>3, <3>1
  <2>. QED
    BY <2>1
<1>5. its(f)
  <2>. HIDE DEF its, came
  <2>. QED
    BY <1>1, <1>4, Zenon
<1>6. ASSUME NEW y \in S PROVE f[y] = Turn(zone, e, f, y)
  <2>. DEFINE turn(x) == Turn(zone, e, f, x)
  <2>1. f = [x \in S |-> turn(x)]
    BY <1>5
  <2>. HIDE DEF turn, S
  <2>2. f[y] = turn(y)
    BY <2>1
  <2>. QED
    BY <2>2 DEF turn
<1>7. SUFFICES ASSUME f[last] # Came(e, last) PROVE FALSE
  BY DEF f
<1>. HIDE DEF its, came
<1>. DEFINE W == {n \in Nat : first + n \in S /\ f[first + n] # Came(e, first + n)}
<1>8. PICK n \in W : \A m \in W : n <= m
  <2>1. PICK m \in Nat : m = last - first
    BY <1>2, <1>12
  <2>2. first + m = last
    BY <1>2, <2>1
  <2>3. last \in S
    BY <1>2, <1>12
  <2>4. m \in W
    BY <1>7, <2>2, <2>3
  <2>5. W \in SUBSET Nat
    OBVIOUS
  <2>. HIDE DEF W
  <2>. QED
    BY <2>4, <2>5, LeastOf
<1>9. PICK y \in Int : y = first + n /\ y \in S /\ f[y] # Came(e, y)
  BY <1>2
<1>10. y < e.year \/ f[y - 1] = Came(e, y - 1)
  <2>1. SUFFICES ASSUME y >= e.year, f[y - 1] # Came(e, y - 1) PROVE FALSE
    BY <1>2, <1>9
  <2>2. PICK m \in Nat : m = n - 1 /\ first + m = y - 1
    BY <1>2, <1>9, <2>1
  <2>3. y - 1 \in S
    BY <1>2, <1>9, <2>1
  <2>4. m \in W
    BY <2>1, <2>2, <2>3
  <2>5. n <= m
    BY <1>8, <2>4
  <2>. QED
    BY <2>2, <2>5
<1>11. f[y] = Came(e, y)
  <2>. HIDE DEF S
  <2>. QED
    BY <1>3, <1>6, <1>9, <1>10
<1>. QED
  BY <1>9, <1>11

LEMMA MaxZero ==
  ASSUME NEW x \in Int
  PROVE  Max({x, 0}) = IF x < 0 THEN 0 ELSE x
<1>1. CASE x < 0
  <2>1. Max({x, 0}) = 0
    BY <1>1, MaxIs
  <2>. QED
    BY <1>1, <2>1
<1>2. CASE ~(x < 0)
  <2>1. Max({x, 0}) = x
    BY <1>2, MaxIs
  <2>. QED
    BY <1>2, <2>1
<1>. QED
  BY <1>1, <1>2

\* Days apart are midnights apart, but for those missed.
LEMMA DaysApart ==
  ASSUME NEW zone, NEW early \in Nat, InTime(early), NEW late \in Nat, InTime(late)
  PROVE  LET apart == LocalDay(zone, late) - LocalDay(zone, early)
             e == LocalTime(zone, early)
             l == LocalTime(zone, late)
         IN  DiffTimeDay(zone, early, late) =
               IF early = 0 \/ late = 0 \/ apart < 0 THEN 0
               ELSE apart - Missed(e, l.year - e.year)
<1>. DEFINE e == LocalTime(zone, early)
            l == LocalTime(zone, late)
            apart == LocalDay(zone, late) - LocalDay(zone, early)
<1>1. /\ Shows(e, Wall(zone, early)) /\ Wall(zone, early) \in Int
      /\ LocalDay(zone, early) = Wall(zone, early) \div 86400
      /\ Shows(l, Wall(zone, late)) /\ Wall(zone, late) \in Int
      /\ LocalDay(zone, late) = Wall(zone, late) \div 86400
  BY LocalIs
<1>2. DiffTimeDay(zone, early, late) =
        IF early = 0 \/ late = 0 \/ e.year > l.year THEN 0
        ELSE IF e.year = l.year THEN Max({l.yday - e.yday, 0})
        ELSE YearEnds(zone, e, l.year - 1)[l.year - 1].days + l.yday
  BY DEF DiffTimeDay
<1>. HIDE DEF e, l
<1>3. /\ e.year \in Int /\ e.yday \in Int /\ 0 <= e.yday /\ e.yday < 365 + LeapDay(e.year)
      /\ LocalDay(zone, early) = YearStart(e.year) + e.yday
  BY <1>1, DayOfYear
<1>4. /\ l.year \in Int /\ l.yday \in Int /\ 0 <= l.yday /\ l.yday < 365 + LeapDay(l.year)
      /\ LocalDay(zone, late) = YearStart(l.year) + l.yday
  BY <1>1, DayOfYear
<1>5. /\ YearStart(e.year) \in Int /\ YearStart(l.year) \in Int
      /\ LeapDay(e.year) \in Int /\ LeapDay(l.year) \in Int
  BY <1>3, <1>4, YearIs
<1>6. apart = YearStart(l.year) + l.yday - YearStart(e.year) - e.yday
  BY <1>3, <1>4, <1>5
<1>. HIDE DEF apart
<1>7. CASE e.year > l.year
  <2>1. YearStart(l.year) + 365 + LeapDay(l.year) <= YearStart(e.year)
    BY <1>3, <1>4, <1>7, YearsGrow
  <2>2. apart < 0
    BY <1>3, <1>4, <1>5, <1>6, <2>1
  <2>. QED
    BY <1>2, <1>7, <2>2 DEF e, l, apart
<1>8. CASE e.year = l.year
  <2>1. apart = l.yday - e.yday /\ apart \in Int
    BY <1>3, <1>4, <1>5, <1>6, <1>8
  <2>2. Missed(e, l.year - e.year) = 0
    BY <1>3, <1>8 DEF Missed
  <2>3. Max({l.yday - e.yday, 0}) = IF apart < 0 THEN 0 ELSE apart
    BY <2>1, MaxZero
  <2>4. DiffTimeDay(zone, early, late) =
          IF early = 0 \/ late = 0 \/ apart < 0 THEN 0 ELSE apart - Missed(e, l.year - e.year)
    BY <1>2, <1>3, <1>8, <2>1, <2>2, <2>3
  <2>. QED
    BY <2>4 DEF e, l, apart
<1>9. CASE e.year < l.year
  <2>1. PICK last \in Int : last = l.year - 1
    BY <1>4
  <2>2. YearEnds(zone, e, last)[last] = Came(e, last)
    <3>1. e.year <= last /\ last <= 2037
      <4>1. l.year <= 2038
        BY <1>1 DEF Shows
      <4>. QED
        BY <1>3, <1>4, <1>9, <2>1, <4>1
    <3>. QED
      BY <1>1, <3>1, YearEndsAre DEF Follows
  <2>3. Came(e, last).days =
          YearStart(l.year) - YearStart(e.year) - Missed(e, l.year - e.year) - e.yday
    <3>1. ~(last < e.year) /\ last + 1 = l.year /\ last + 1 - e.year = l.year - e.year
      BY <1>3, <1>4, <1>9, <2>1
    <3>. QED
      BY <3>1 DEF Came
  <2>4. Missed(e, l.year - e.year) \in Int
    BY <1>3, <1>4 DEF Missed
  <2>5. Came(e, last).days + l.yday = apart - Missed(e, l.year - e.year)
    BY <1>3, <1>4, <1>5, <1>6, <2>3, <2>4
  <2>6. apart >= 0
    <3>1. YearStart(e.year) + 365 + LeapDay(e.year) <= YearStart(l.year)
      BY <1>3, <1>4, <1>9, YearsGrow
    <3>. QED
      BY <1>3, <1>4, <1>5, <1>6, <3>1
  <2>7. ~(e.year > l.year) /\ e.year # l.year /\ apart \in Int
    BY <1>3, <1>4, <1>5, <1>6, <1>9
  <2>8. DiffTimeDay(zone, early, late) =
          IF early = 0 \/ late = 0 \/ apart < 0 THEN 0 ELSE apart - Missed(e, l.year - e.year)
    BY <1>2, <2>1, <2>2, <2>5, <2>6, <2>7
  <2>. QED
    BY <2>8 DEF e, l, apart
<1>. QED
  BY <1>3, <1>4, <1>7, <1>8, <1>9

(***************************************************************************)
(* Summer is one stretch of each year.                                     *)
(***************************************************************************)
SummerDay(d) ==
  \E y \in Int : /\ 1970 <= y /\ y <= 2038
                 /\ YearStart(y) + 90 + LeapDay(y) <= d
                 /\ d < YearStart(y) + 304 + LeapDay(y)

LEMMA SummerMonths ==
  ASSUME NEW y \in Int, NEW m \in Month
  PROVE  /\ m \in 3 .. 9 => /\ 90 + LeapDay(y) <= MonthStart(y, m)
                            /\ MonthStart(y, m) + Long(y, m) <= 304 + LeapDay(y)
         /\ m < 3 => MonthStart(y, m) + Long(y, m) <= 90 + LeapDay(y)
         /\ m > 9 => 304 + LeapDay(y) <= MonthStart(y, m)
         /\ m > 10 => 334 + LeapDay(y) <= MonthStart(y, m)
<1>1. m \in {0, 1, 2, 3, 4, 5, 6, 7, 8, 9, 10, 11}
  BY DEF Month
<1>2. LeapDay(y) \in {0, 1}
  BY DEF LeapDay
<1>. QED
  BY <1>1, <1>2 DEF MonthStart, MonthLength, Long

\* Two years do not share a day.
LEMMA OneYear ==
  ASSUME NEW y \in Int, NEW z \in Int, NEW d \in Int,
         YearStart(y) <= d, d < YearStart(y) + 365 + LeapDay(y),
         YearStart(z) <= d, d < YearStart(z) + 365 + LeapDay(z)
  PROVE  y = z
<1>1. /\ YearStart(y) \in Int /\ YearStart(z) \in Int
      /\ LeapDay(y) \in Int /\ LeapDay(z) \in Int
  BY YearIs
<1>2. ~(y < z)
  BY <1>1, YearsGrow
<1>3. ~(z < y)
  BY <1>1, YearsGrow
<1>. QED
  BY <1>2, <1>3

LEMMA SummerIs ==
  ASSUME NEW zone, NEW t \in Nat, t \div 86400 <= 25000
  PROVE  Summer(zone, t) <=> zone = "summer" /\ SummerDay(t \div 86400)
<1>. DEFINE tm == Fields(t, 0)
<1>1. PICK d \in Int : d = t \div 86400
  OBVIOUS
<1>2. Shows(tm, t)
  BY FieldsShow
<1>3. Summer(zone, t) <=> zone = "summer" /\ tm.mon \in 3 .. 9
  BY DEF Summer
<1>. HIDE DEF tm
<1>4. PICK y \in Int, m \in Month : y = tm.year /\ m = tm.mon
  BY <1>2 DEF Shows, Tm
<1>5. /\ MonthStart(y, m) \in Int /\ Long(y, m) \in Int /\ m \in Int
      /\ 0 <= MonthStart(y, m) /\ YearStart(y) \in Int /\ LeapDay(y) \in Int
      /\ MonthStart(y, m) + Long(y, m) <= 365 + LeapDay(y)
  BY MonthIn, MonthIs, YearIs, MonthInYear
<1>6. /\ YearStart(y) + MonthStart(y, m) <= d
      /\ d < YearStart(y) + MonthStart(y, m) + Long(y, m) /\ 1970 <= y /\ y <= 2038
  <2>1. PICK k \in Int : k = tm.mday
    BY <1>2 DEF Shows, Tm
  <2>2. 1 <= k /\ k <= Long(y, m) /\ d = YearStart(y) + MonthStart(y, m) + k - 1
        /\ 1970 <= y /\ y <= 2038
    BY <1>1, <1>2, <1>4, <2>1 DEF Shows, OfDate
  <2>. QED
    BY <1>5, <2>2
<1>7. ASSUME m \in 3 .. 9 PROVE SummerDay(d)
  <2>1. 90 + LeapDay(y) <= MonthStart(y, m) /\ MonthStart(y, m) + Long(y, m) <= 304 + LeapDay(y)
    BY <1>7, SummerMonths
  <2>. QED
    BY <1>5, <1>6, <2>1 DEF SummerDay
<1>8. ASSUME SummerDay(d) PROVE m \in 3 .. 9
  <2>1. PICK z \in Int : /\ YearStart(z) + 90 + LeapDay(z) <= d
                         /\ d < YearStart(z) + 304 + LeapDay(z)
    BY <1>8 DEF SummerDay
  <2>2. YearStart(z) \in Int /\ LeapDay(z) \in Int /\ 0 <= LeapDay(z)
    BY YearIs
  <2>3. z = y
    <3>1. YearStart(z) <= d /\ d < YearStart(z) + 365 + LeapDay(z)
      BY <2>1, <2>2
    <3>2. YearStart(y) <= d /\ d < YearStart(y) + 365 + LeapDay(y)
      BY <1>5, <1>6
    <3>. QED
      BY <3>1, <3>2, OneYear
  <2>4. ~(m < 3)
    <3>1. SUFFICES ASSUME m < 3 PROVE FALSE
      OBVIOUS
    <3>2. MonthStart(y, m) + Long(y, m) <= 90 + LeapDay(y)
      BY <3>1, SummerMonths
    <3>. QED
      BY <1>5, <1>6, <2>1, <2>3, <3>2
  <2>5. ~(m > 9)
    <3>1. SUFFICES ASSUME m > 9 PROVE FALSE
      OBVIOUS
    <3>2. 304 + LeapDay(y) <= MonthStart(y, m)
      BY <3>1, SummerMonths
    <3>. QED
      BY <1>5, <1>6, <2>1, <2>3, <3>2
  <2>. QED
    BY <1>5, <2>4, <2>5
<1>. QED
  BY <1>1, <1>3, <1>4, <1>7, <1>8

LEMMA SummerConvex ==
  ASSUME NEW a \in Int, NEW b \in Int, NEW c \in Int, a <= b, b <= c, c <= a + 7,
         SummerDay(a), SummerDay(c)
  PROVE  SummerDay(b)
<1>1. PICK y \in Int : /\ 1970 <= y /\ y <= 2038
                       /\ YearStart(y) + 90 + LeapDay(y) <= a
                       /\ a < YearStart(y) + 304 + LeapDay(y)
  BY DEF SummerDay
<1>2. PICK z \in Int : /\ YearStart(z) + 90 + LeapDay(z) <= c
                       /\ c < YearStart(z) + 304 + LeapDay(z)
  BY DEF SummerDay
<1>3. /\ YearStart(y) \in Int /\ LeapDay(y) \in Int /\ 0 <= LeapDay(y) /\ LeapDay(y) <= 1
      /\ YearStart(z) \in Int /\ LeapDay(z) \in Int /\ 0 <= LeapDay(z) /\ LeapDay(z) <= 1
  BY YearIs
<1>4. ~(y < z)
  BY <1>1, <1>2, <1>3, YearsGrow
<1>5. ~(z < y)
  BY <1>1, <1>2, <1>3, YearsGrow
<1>6. y = z
  BY <1>4, <1>5
<1>. QED
  BY <1>1, <1>2, <1>3, <1>6 DEF SummerDay

(***************************************************************************)
(* Weeks: from Sunday to Sunday.                                           *)
(***************************************************************************)
ToSunday(d) == (7 - ((d + 4) % 7)) % 7

LEMMA SundayIs ==
  ASSUME NEW d \in Int
  PROVE  /\ ToSunday(d) \in Int /\ 0 <= ToSunday(d) /\ ToSunday(d) <= 6
         /\ d + ToSunday(d) = 7 * ((d + 3) \div 7) + 3
<1>1. PICK q \in Int, r \in Int : q = (d + 4) \div 7 /\ r = (d + 4) % 7
  OBVIOUS
<1>2. d + 4 = 7 * q + r /\ 0 <= r /\ r <= 6
  BY <1>1
<1>3. CASE r = 0
  <2>1. ToSunday(d) = 0
    BY <1>1, <1>3 DEF ToSunday
  <2>2. (d + 3) \div 7 = q - 1
    <3>1. PICK k \in Int : k = q - 1
      OBVIOUS
    <3>2. d + 3 = 7 * k + 6
      BY <1>2, <1>3, <3>1
    <3>3. (d + 3) \div 7 = k
      BY <3>2
    <3>. QED
      BY <3>1, <3>3
  <2>. QED
    BY <1>2, <1>3, <2>1, <2>2
<1>4. CASE r # 0
  <2>1. ToSunday(d) = 7 - r
    BY <1>1, <1>2, <1>4 DEF ToSunday
  <2>2. (d + 3) \div 7 = q
    <3>1. d + 3 = 7 * q + (r - 1) /\ 0 <= r - 1 /\ r - 1 < 7
      BY <1>2, <1>4
    <3>. QED
      BY <3>1
  <2>. QED
    BY <1>2, <1>4, <2>1, <2>2
<1>. QED
  BY <1>2, <1>3, <1>4

Steady(zone, t) == LocalTime(zone, t).isdst = LocalTime(zone, Sunday(zone, t) + 43200).isdst

\* A bound that leaves room for the rest of the week.
InWeek(t) == t \div 86400 < 24900

\* The Sunday of a time: days later, at the same hour of the same season.
LEMMA WeekEndIs ==
  ASSUME NEW zone, NEW t \in Nat, InWeek(t)
  PROVE  LET n == ToSunday(LocalDay(zone, t))
         IN  /\ LocalDay(zone, t) \in Int
             /\ MkTime(WeekEnd(LocalTime(zone, t))) = t + 86400 * n
<1>. DEFINE tm == LocalTime(zone, t)
            day == LocalDay(zone, t)
            n == ToSunday(day)
            asked == WeekEnd(tm)
<1>1. /\ Shows(tm, Wall(zone, t)) /\ Wall(zone, t) \in Nat /\ day = Wall(zone, t) \div 86400
  <2>1. InTime(t)
    BY DEF InTime, InWeek
  <2>. QED
    BY <2>1, LocalIs
<1>2. MkTime(tm) = t
  <2>1. InTime(t)
    BY DEF InTime, InWeek
  <2>. QED
    BY <2>1, MkTimeLocal
<1>. HIDE DEF tm, day
<1>3. tm \in Tm /\ tm.wday = (day + 4) % 7 /\ day \in Int
  BY <1>1 DEF Shows
<1>4. n \in Int
  BY <1>3, SundayIs
<1>5. /\ asked.year = tm.year /\ asked.mon = tm.mon /\ asked.mday = tm.mday + n
      /\ asked.hour = tm.hour /\ asked.min = tm.min /\ asked.sec = tm.sec
      /\ asked.isdst = tm.isdst
  BY <1>3 DEF WeekEnd, ToSunday, Tm
<1>6. /\ tm.year \in Int /\ tm.mon \in Month /\ tm.mday \in Int /\ tm.hour \in Int
      /\ tm.min \in Int /\ tm.sec \in Int /\ tm.isdst \in Int
  BY <1>3 DEF Tm
<1>. HIDE DEF asked, n
<1>7. MkTime(asked) = 86400 * OfDate(asked.year, asked.mon, asked.mday)
                        + 3600 * (asked.hour - asked.isdst) + 60 * asked.min + asked.sec
  BY <1>5, <1>6, MkTimeIs
<1>8. MkTime(tm) = 86400 * OfDate(tm.year, tm.mon, tm.mday)
                        + 3600 * (tm.hour - tm.isdst) + 60 * tm.min + tm.sec
  BY <1>6, MkTimeIs
<1>9. PICK a \in Int : /\ a = OfDate(tm.year, tm.mon, tm.mday)
                       /\ OfDate(asked.year, asked.mon, asked.mday) = a + n
  <2>1. YearStart(tm.year) \in Int /\ MonthStart(tm.year, tm.mon) \in Int
    BY <1>6, YearIs, MonthIs
  <2>. QED
    BY <1>4, <1>5, <1>6, <2>1 DEF OfDate
<1>10. PICK r \in Int : r = 3600 * (tm.hour - tm.isdst) + 60 * tm.min + tm.sec
  BY <1>6
<1>11. MkTime(tm) = 86400 * a + r /\ MkTime(asked) = 86400 * (a + n) + r
  <2>1. PICK h \in Int, i \in Int, m \in Int, s \in Int :
           h = tm.hour /\ i = tm.isdst /\ m = tm.min /\ s = tm.sec
    BY <1>6
  <2>2. MkTime(asked) = 86400 * (a + n) + 3600 * (h - i) + 60 * m + s
    BY <1>5, <1>7, <1>9, <2>1
  <2>3. MkTime(tm) = 86400 * a + 3600 * (h - i) + 60 * m + s
    BY <1>8, <1>9, <2>1
  <2>4. r = 3600 * (h - i) + 60 * m + s
    BY <1>10, <2>1
  <2>. QED
    BY <1>4, <2>2, <2>3, <2>4
<1>12. MkTime(asked) = t + 86400 * n
  BY <1>2, <1>4, <1>11
<1>. QED
  BY <1>3, <1>12 DEF asked, n, tm, day

\* By the Sunday of a steady time the clocks have not changed.
LEMMA SundayShows ==
  ASSUME NEW zone, NEW t \in Nat, InWeek(t), Steady(zone, t)
  PROVE  LET te == t + 86400 * ToSunday(LocalDay(zone, t))
         IN  /\ te \in Nat /\ InTime(te) /\ (te = 0 => t = 0)
             /\ LocalDay(zone, te) = 7 * LocalWeek(zone, t) + 3
             /\ Early(LocalTime(zone, te)) <=> Early(LocalTime(zone, t))
<1>. DEFINE day == LocalDay(zone, t)
            n == ToSunday(day)
            te == t + 86400 * n
            sun == 7 * LocalWeek(zone, t) + 3
            i == Dst(zone, t)
            noon == Sunday(zone, t) + 43200
            tm == LocalTime(zone, t)
            then == LocalTime(zone, te)
<1>1. /\ Shows(tm, Wall(zone, t)) /\ Wall(zone, t) \in Nat /\ tm.isdst = i /\ i \in {0, 1}
      /\ day = Wall(zone, t) \div 86400 /\ Wall(zone, t) = t + 3600 * i
  <2>1. InTime(t)
    BY DEF InTime, InWeek
  <2>. QED
    BY <2>1, LocalIs DEF Wall
<1>2. sun = 7 * ((day + 3) \div 7) + 3 /\ noon = 86400 * sun + 43200
  BY DEF LocalWeek, Sunday
<1>3. tm.isdst = LocalTime(zone, noon).isdst
  BY DEF Steady
<1>4. PICK d \in Int, r \in Int : d = t \div 86400 /\ r = t % 86400
  OBVIOUS
<1>5. t = 86400 * d + r /\ 0 <= r /\ r < 86400 /\ 0 <= d /\ d < 24900
  BY <1>4 DEF InWeek
<1>. HIDE DEF day, i, noon, tm
<1>6. /\ day \in Int /\ d <= day /\ day <= d + 1 /\ (i = 0 => day = d)
  BY <1>1, <1>5
<1>7. /\ n \in Int /\ 0 <= n /\ n <= 6 /\ day + n = sun /\ sun \in Int
  <2>1. n \in Int /\ 0 <= n /\ n <= 6 /\ day + n = 7 * ((day + 3) \div 7) + 3
    BY <1>6, SundayIs
  <2>2. sun \in Int
    BY <1>2, <1>6
  <2>. HIDE DEF n, sun
  <2>. QED
    BY <1>2, <2>1, <2>2
<1>. HIDE DEF n, sun
<1>8. te \in Nat /\ te \div 86400 = d + n /\ (te = 0 => t = 0)
  <2>1. PICK k \in Int : k = d + n
    BY <1>7
  <2>2. te = 86400 * k + r
    BY <1>5, <1>7, <2>1
  <2>. QED
    BY <1>5, <1>7, <2>1, <2>2, DayPart
<1>9. InTime(te)
  BY <1>5, <1>7, <1>8 DEF InTime
<1>10. noon \in Nat /\ noon \div 86400 = sun /\ InTime(noon)
  <2>1. noon \in Int /\ noon \div 86400 = sun /\ noon >= 0
    BY <1>2, <1>5, <1>6, <1>7, DayPart
  <2>. QED
    BY <1>5, <1>6, <1>7, <2>1 DEF InTime
<1>. HIDE DEF te
<1>11. i = Dst(zone, noon)
  BY <1>1, <1>3, <1>10, LocalIs
<1>12. /\ i = IF zone = "summer" /\ SummerDay(d) THEN 1 ELSE 0
       /\ i = IF zone = "summer" /\ SummerDay(sun) THEN 1 ELSE 0
       /\ Dst(zone, te) = IF zone = "summer" /\ SummerDay(d + n) THEN 1 ELSE 0
  <2>1. t \div 86400 <= 25000 /\ noon \div 86400 <= 25000 /\ te \div 86400 <= 25000
    <3>1. ASSUME NEW x \in Nat, InTime(x) PROVE x \div 86400 <= 25000
      BY <3>1 DEF InTime
    <3>2. t \div 86400 <= 25000
      BY <1>4, <1>5
    <3>. QED
      BY <1>8, <1>9, <1>10, <3>1, <3>2
  <2>2. Summer(zone, t) <=> zone = "summer" /\ SummerDay(d)
    BY <1>4, <2>1, SummerIs
  <2>3. Summer(zone, noon) <=> zone = "summer" /\ SummerDay(sun)
    BY <1>10, <2>1, SummerIs
  <2>4. Summer(zone, te) <=> zone = "summer" /\ SummerDay(d + n)
    BY <1>8, <2>1, SummerIs
  <2>5. /\ i = IF Summer(zone, t) THEN 1 ELSE 0
        /\ i = IF Summer(zone, noon) THEN 1 ELSE 0
        /\ Dst(zone, te) = IF Summer(zone, te) THEN 1 ELSE 0
    BY <1>11 DEF Dst, i
  <2>. QED
    BY <2>2, <2>3, <2>4, <2>5
<1>13. Dst(zone, te) = i
  <2>1. PICK b \in Int : b = d + n
    BY <1>7
  <2>2. CASE i = 0
    <3>1. b = sun
      BY <1>6, <1>7, <2>1, <2>2
    <3>. QED
      BY <1>12, <2>1, <2>2, <3>1
  <2>3. CASE i = 1
    <3>1. zone = "summer" /\ SummerDay(d) /\ SummerDay(sun)
      BY <1>12, <2>3
    <3>2. d <= b /\ b <= sun /\ sun <= d + 7
      BY <1>6, <1>7, <2>1
    <3>3. SummerDay(b)
      BY <1>7, <3>1, <3>2, SummerConvex
    <3>. QED
      BY <1>12, <2>1, <2>3, <3>1, <3>3
  <2>. QED
    BY <1>1, <2>2, <2>3
<1>14. /\ Shows(then, Wall(zone, te)) /\ Wall(zone, te) \in Nat /\ then.isdst = i
       /\ Wall(zone, te) = te + 3600 * i /\ LocalDay(zone, te) = Wall(zone, te) \div 86400
  BY <1>8, <1>9, <1>13, LocalIs DEF Wall
<1>. HIDE DEF then
<1>15. PICK w \in Nat, v \in Nat :
         /\ w = Wall(zone, t) /\ v = Wall(zone, te) /\ v = w + 86400 * n
  BY <1>1, <1>7, <1>14 DEF te
<1>16. v \div 86400 = sun
  <2>1. PICK x \in Int : x = w % 86400
    OBVIOUS
  <2>2. w = 86400 * day + x /\ 0 <= x /\ x < 86400
    BY <1>1, <1>6, <1>15, <2>1
  <2>3. v = 86400 * sun + x
    BY <1>6, <1>7, <1>15, <2>2
  <2>. QED
    BY <1>7, <2>1, <2>2, <2>3, DayPart
<1>17. LocalDay(zone, te) = sun
  BY <1>14, <1>15, <1>16
<1>18. then.hour = tm.hour
  <2>1. /\ tm \in Tm /\ 0 <= tm.hour /\ tm.hour <= 23 /\ 0 <= tm.min /\ tm.min <= 59
        /\ 0 <= tm.sec /\ tm.sec <= 59
        /\ w = 86400 * day + 3600 * tm.hour + 60 * tm.min + tm.sec
    BY <1>1, <1>15 DEF Shows
  <2>2. /\ then \in Tm /\ 0 <= then.hour /\ then.hour <= 23 /\ 0 <= then.min /\ then.min <= 59
        /\ 0 <= then.sec /\ then.sec <= 59
        /\ v = 86400 * sun + 3600 * then.hour + 60 * then.min + then.sec
    BY <1>14, <1>15, <1>16 DEF Shows
  <2>3. PICK h \in Int, x \in Int : h = tm.hour /\ x = 60 * tm.min + tm.sec
    BY <2>1 DEF Tm
  <2>4. PICK k \in Int, z \in Int : k = then.hour /\ z = 60 * then.min + then.sec
    BY <2>2 DEF Tm
  <2>5. 0 <= x /\ x < 3600 /\ w = 86400 * day + 3600 * h + x
    BY <1>6, <2>1, <2>3 DEF Tm
  <2>6. 0 <= z /\ z < 3600 /\ v = 86400 * sun + 3600 * k + z
    BY <1>7, <2>2, <2>4 DEF Tm
  <2>7. 3600 * h + x = 3600 * k + z
    BY <1>6, <1>7, <1>15, <2>5, <2>6
  <2>8. h = k
    BY <2>5, <2>6, <2>7
  <2>. QED
    BY <2>3, <2>4, <2>8
<1>19. Early(then) <=> Early(tm)
  BY <1>1, <1>14, <1>18 DEF Early
<1>. QED
  BY <1>8, <1>9, <1>17, <1>19 DEF te, n, day, sun, tm, then

\* Weeks apart are Mondays apart between steady times.
LEMMA WeeksApart ==
  ASSUME NEW zone, NEW early \in Nat, InWeek(early), NEW late \in Nat, InWeek(late),
         early # 0, late # 0, Steady(zone, early), Steady(zone, late),
         ~Early(LocalTime(zone, early))
  PROVE  DiffTimeWeek(zone, early, late)
           = Max({LocalWeek(zone, late) - LocalWeek(zone, early), 0})
<1>. DEFINE e == LocalTime(zone, early)
            l == LocalTime(zone, late)
            te == early + 86400 * ToSunday(LocalDay(zone, early))
            tl == late + 86400 * ToSunday(LocalDay(zone, late))
<1>1. /\ LocalDay(zone, early) \in Int /\ MkTime(WeekEnd(e)) = te
      /\ LocalDay(zone, late) \in Int /\ MkTime(WeekEnd(l)) = tl
  BY WeekEndIs
<1>2. /\ te \in Nat /\ InTime(te) /\ te # 0
      /\ LocalDay(zone, te) = 7 * LocalWeek(zone, early) + 3
      /\ ~Early(LocalTime(zone, te))
  BY SundayShows
<1>3. /\ tl \in Nat /\ InTime(tl) /\ tl # 0
      /\ LocalDay(zone, tl) = 7 * LocalWeek(zone, late) + 3
  BY SundayShows
<1>4. DiffTimeWeek(zone, early, late) =
        IF e.year > l.year \/ (e.year = l.year /\ e.yday = l.yday) THEN 0
        ELSE DiffTimeDay(zone, te, tl) \div 7
  BY <1>1 DEF DiffTimeWeek
<1>. HIDE DEF te, tl
<1>5. PICK d \in Int, c \in Int, v \in Int, w \in Int :
        /\ d = LocalDay(zone, early) /\ c = LocalDay(zone, late)
        /\ v = (d + 3) \div 7 /\ v = LocalWeek(zone, early)
        /\ w = (c + 3) \div 7 /\ w = LocalWeek(zone, late)
  BY <1>1 DEF LocalWeek
<1>6. d <= c => v <= w
  BY <1>5
<1>7. c <= d => w <= v
  BY <1>5
<1>8. Max({w - v, 0}) = IF w < v THEN 0 ELSE w - v
  <2>1. PICK x \in Int : x = w - v
    OBVIOUS
  <2>. QED
    BY <2>1, MaxZero
<1>9. DiffTimeDay(zone, te, tl) = IF w < v THEN 0 ELSE 7 * (w - v)
  <2>1. Missed(LocalTime(zone, te), LocalTime(zone, tl).year - LocalTime(zone, te).year) = 0
    BY <1>2 DEF Missed
  <2>2. PICK apart \in Int : apart = LocalDay(zone, tl) - LocalDay(zone, te) /\ apart = 7 * (w - v)
    BY <1>2, <1>3, <1>5
  <2>3. DiffTimeDay(zone, te, tl) = IF te = 0 \/ tl = 0 \/ apart < 0 THEN 0 ELSE apart - 0
    BY <1>2, <1>3, <2>1, <2>2, DaysApart
  <2>. QED
    BY <1>2, <1>3, <2>2, <2>3
<1>10. /\ e.year \in Int /\ e.yday \in Int /\ l.year \in Int /\ l.yday \in Int
       /\ d = YearStart(e.year) + e.yday /\ c = YearStart(l.year) + l.yday
       /\ 0 <= e.yday /\ l.yday < 365 + LeapDay(l.year)
  <2>1. InTime(early) /\ InTime(late)
    BY DEF InTime, InWeek
  <2>2. /\ Shows(e, Wall(zone, early)) /\ Wall(zone, early) \in Int /\ d = Wall(zone, early) \div 86400
        /\ Shows(l, Wall(zone, late)) /\ Wall(zone, late) \in Int /\ c = Wall(zone, late) \div 86400
    BY <1>5, <2>1, LocalIs
  <2>. HIDE DEF e, l
  <2>. QED
    BY <2>2, DayOfYear
<1>. HIDE DEF e, l
<1>11. CASE e.year > l.year
  <2>1. YearStart(l.year) + 365 + LeapDay(l.year) <= YearStart(e.year)
    BY <1>10, <1>11, YearsGrow
  <2>2. /\ YearStart(e.year) \in Int /\ YearStart(l.year) \in Int /\ LeapDay(l.year) \in Int
    BY <1>10, YearIs
  <2>3. c <= d
    BY <1>10, <2>1, <2>2
  <2>4. Max({w - v, 0}) = 0
    BY <1>7, <1>8, <2>3
  <2>. QED
    BY <1>4, <1>5, <1>11, <2>4
<1>12. CASE e.year = l.year /\ e.yday = l.yday
  <2>1. d = c
    BY <1>10, <1>12
  <2>2. Max({w - v, 0}) = 0
    BY <1>6, <1>7, <1>8, <2>1
  <2>. QED
    BY <1>4, <1>5, <1>12, <2>2
<1>13. CASE ~(e.year > l.year) /\ ~(e.year = l.year /\ e.yday = l.yday)
  <2>1. DiffTimeWeek(zone, early, late) = DiffTimeDay(zone, te, tl) \div 7
    BY <1>4, <1>13
  <2>2. PICK x \in Int : x = w - v
    OBVIOUS
  <2>3. (7 * x) \div 7 = x /\ 0 \div 7 = 0
    BY <2>2
  <2>4. DiffTimeWeek(zone, early, late) = IF w < v THEN 0 ELSE x
    BY <1>9, <2>1, <2>2, <2>3
  <2>. QED
    BY <1>5, <1>8, <2>2, <2>4
<1>. QED
  BY <1>11, <1>12, <1>13

\* Months go backwards only within a year, and then the times do too.
LEMMA MonthsApart ==
  ASSUME NEW zone, NEW early \in Nat, InWeek(early), NEW late \in Nat, InWeek(late),
         early # 0, late # 0, DiffTimeMonth(zone, early, late) < 0
  PROVE  LocalTime(zone, early).year = LocalTime(zone, late).year /\ early > late
<1>. DEFINE e == LocalTime(zone, early)
            l == LocalTime(zone, late)
<1>1. /\ Shows(e, Wall(zone, early)) /\ Wall(zone, early) \in Nat
      /\ Wall(zone, early) = early + 3600 * Dst(zone, early) /\ Dst(zone, early) \in {0, 1}
      /\ Shows(l, Wall(zone, late)) /\ Wall(zone, late) \in Nat
      /\ Wall(zone, late) = late + 3600 * Dst(zone, late) /\ Dst(zone, late) \in {0, 1}
  <2>1. InTime(early) /\ InTime(late)
    BY DEF InTime, InWeek
  <2>. QED
    BY <2>1, LocalIs DEF Wall
<1>2. ~(e.year > l.year) /\ (l.year - e.year) * 12 + l.mon - e.mon < 0
  BY DEF DiffTimeMonth
<1>3. Dst(zone, late) = 0 => l.mon = Fields(late, 0).mon
  BY DEF LocalTime, Dst
<1>. HIDE DEF e, l
<1>4. PICK y \in Int, z \in Int, m \in Month, n \in Month :
        y = e.year /\ z = l.year /\ m = e.mon /\ n = l.mon
  BY <1>1 DEF Shows, Tm
<1>5. m \in Int /\ 0 <= m /\ m <= 11 /\ n \in Int /\ 0 <= n /\ n <= 11
  BY MonthIn
<1>6. y = z /\ n < m
  BY <1>2, <1>4, <1>5
<1>7. PICK p \in Int, q \in Int, i \in Int, j \in Int :
         /\ p = Wall(zone, early) /\ q = Wall(zone, late)
         /\ i = Dst(zone, early) /\ j = Dst(zone, late)
  <2>1. 0 \in Int /\ 1 \in Int
    OBVIOUS
  <2>2. Dst(zone, early) \in Int /\ Dst(zone, late) \in Int
    BY <1>1, <2>1
  <2>3. Wall(zone, early) \in Int /\ Wall(zone, late) \in Int
    BY <1>1
  <2>. QED
    BY <2>2, <2>3, Zenon
<1>8. PICK d \in Int, c \in Int : d = p \div 86400 /\ c = q \div 86400
  OBVIOUS
<1>9. /\ d = Wall(zone, early) \div 86400 /\ c = Wall(zone, late) \div 86400
      /\ p = Wall(zone, early) /\ q = Wall(zone, late)
      /\ i = Dst(zone, early) /\ j = Dst(zone, late)
  BY <1>7, <1>8
<1>10. /\ 86400 * d <= p /\ p < 86400 * d + 86400 /\ 86400 * c <= q /\ q < 86400 * c + 86400
      /\ p = early + 3600 * i /\ q = late + 3600 * j /\ (i = 0 \/ i = 1) /\ (j = 0 \/ j = 1)
  <2>1. 86400 * d <= p /\ p < 86400 * d + 86400 /\ 86400 * c <= q /\ q < 86400 * c + 86400
    BY <1>8
  <2>. QED
    BY <1>1, <1>9, <2>1
<1>11. /\ MonthStart(y, m) \in Int /\ Long(y, m) \in Int /\ 0 <= MonthStart(y, m)
      /\ MonthStart(y, n) \in Int /\ Long(y, n) \in Int /\ 0 <= MonthStart(y, n)
      /\ MonthStart(y, n) + Long(y, n) <= MonthStart(y, m)
      /\ MonthStart(y, m) + Long(y, m) <= 365 + LeapDay(y)
      /\ YearStart(y) \in Int /\ LeapDay(y) \in Int
  BY <1>6, MonthIs, MonthsGrow, MonthInYear, YearIs
<1>12. /\ YearStart(y) + MonthStart(y, m) <= d
       /\ d < YearStart(y) + MonthStart(y, m) + Long(y, m)
  <2>1. PICK k \in Int : k = e.mday
    BY <1>1 DEF Shows, Tm
  <2>2. 1 <= k /\ k <= Long(y, m) /\ d = YearStart(y) + MonthStart(y, m) + k - 1
    BY <1>1, <1>4, <1>9, <2>1 DEF Shows, OfDate
  <2>. QED
    BY <1>11, <2>2
<1>13. /\ YearStart(y) + MonthStart(y, n) <= c
       /\ c < YearStart(y) + MonthStart(y, n) + Long(y, n)
  <2>1. PICK k \in Int : k = l.mday
    BY <1>1 DEF Shows, Tm
  <2>2. 1 <= k /\ k <= Long(y, n) /\ c = YearStart(y) + MonthStart(y, n) + k - 1
    BY <1>1, <1>4, <1>6, <1>9, <2>1 DEF Shows, OfDate
  <2>. QED
    BY <1>11, <2>2
<1>14. c + 1 <= d
  BY <1>11, <1>12, <1>13
<1>15. CASE i <= j
  BY <1>4, <1>6, <1>10, <1>14, <1>15 DEF e, l
<1>16. CASE i = 1 /\ j = 0
  <2>1. PICK a \in Int : a = early \div 86400
    OBVIOUS
  <2>2. 86400 * a <= early /\ early < 86400 * a + 86400 /\ a <= d /\ d <= a + 1
    BY <1>10, <1>16, <2>1
  <2>3. Summer(zone, early) /\ ~Summer(zone, late)
    BY <1>9, <1>16 DEF Dst
  <2>4. zone = "summer" /\ SummerDay(a)
    <3>1. early \div 86400 <= 25000
      BY DEF InWeek
    <3>. QED
      BY <2>1, <2>3, <3>1, SummerIs
  <2>5. n \notin 3 .. 9
    BY <1>3, <1>4, <1>9, <1>16, <2>3, <2>4 DEF Summer
  <2>6. YearStart(y) + 90 + LeapDay(y) <= a /\ a < YearStart(y) + 304 + LeapDay(y)
    <3>1. PICK x \in Int : YearStart(x) + 90 + LeapDay(x) <= a /\ a < YearStart(x) + 304 + LeapDay(x)
      BY <2>4 DEF SummerDay
    <3>2. YearStart(x) \in Int /\ LeapDay(x) \in Int /\ 0 <= LeapDay(x)
      BY YearIs
    <3>3. YearStart(x) <= d /\ d < YearStart(x) + 365 + LeapDay(x)
      BY <2>2, <3>1, <3>2
    <3>4. YearStart(y) <= d /\ d < YearStart(y) + 365 + LeapDay(y)
      BY <1>11, <1>12
    <3>5. x = y
      BY <3>3, <3>4, OneYear
    <3>. QED
      BY <3>1, <3>5
  <2>7. m <= 10
    <3>1. SUFFICES ASSUME m > 10 PROVE FALSE
      BY <1>5
    <3>2. 334 + LeapDay(y) <= MonthStart(y, m)
      BY <3>1, SummerMonths
    <3>. QED
      BY <1>11, <1>12, <2>2, <2>6, <3>2
  <2>8. n < 3
    BY <1>5, <1>6, <2>5, <2>7
  <2>9. MonthStart(y, n) + Long(y, n) <= 90 + LeapDay(y)
    BY <2>8, SummerMonths
  <2>10. c < a
    BY <1>11, <1>13, <2>6, <2>9
  <2>11. late < early
    BY <1>10, <1>16, <2>2, <2>10
  <2>. QED
    BY <1>4, <1>6, <2>11 DEF e, l
<1>. QED
  BY <1>10, <1>15, <1>16

(***************************************************************************)
(* The calls.                                                              *)
(***************************************************************************)
LEMMA TimesIs ==
  ASSUME NEW t \in Times
  PROVE  t \in Nat /\ InWeek(t) /\ InTime(t)
<1>1. PICK d \in Days, s \in Seconds : t = 86400 * d + s
  BY DEF Times
<1>2. d \in Nat /\ d <= 24800 /\ s \in Nat /\ s < 86400
  BY CalendarAssumption
<1>3. t \in Nat /\ t \div 86400 = d
  BY <1>1, <1>2, DayPart
<1>. QED
  BY <1>2, <1>3 DEF InWeek, InTime

LEMMA DiffSound ==
  ASSUME NEW zone \in Zones, NEW early \in Times, NEW late \in Times, NEW limit,
         calendar' = [fn |-> "diff", zone |-> zone, early |-> early, late |-> late,
                      day   |-> DiffTimeDay(zone, early, late),
                      week  |-> DiffTimeWeek(zone, early, late),
                      month |-> DiffTimeMonth(zone, early, late),
                      limit |-> limit, expired |-> IsDayExpired(zone, early, late, limit)]
  PROVE  DaysCounted' /\ WeeksCounted'
<1>. DEFINE e == LocalTime(zone, early)
            l == LocalTime(zone, late)
            day == DiffTimeDay(zone, early, late)
            month == DiffTimeMonth(zone, early, late)
            apart == LocalDay(zone, late) - LocalDay(zone, early)
            mondays == LocalWeek(zone, late) - LocalWeek(zone, early)
<1>1. /\ early \in Nat /\ InWeek(early) /\ InTime(early)
      /\ late \in Nat /\ InWeek(late) /\ InTime(late)
  BY TimesIs
<1>2. /\ calendar'.fn = "diff" /\ calendar'.zone = zone
      /\ calendar'.early = early /\ calendar'.late = late
      /\ calendar'.day = day /\ calendar'.week = DiffTimeWeek(zone, early, late)
      /\ calendar'.month = month /\ calendar'.limit = limit
      /\ calendar'.expired = (day >= limit)
  BY DEF IsDayExpired
<1>3. ~Astray(e, l) => day = IF early = 0 \/ late = 0 \/ apart < 0 THEN 0 ELSE apart
  <2>1. day = IF early = 0 \/ late = 0 \/ apart < 0 THEN 0 ELSE apart - Missed(e, l.year - e.year)
    BY <1>1, DaysApart
  <2>2. Shows(e, Wall(zone, early)) /\ Shows(l, Wall(zone, late))
    BY <1>1, LocalIs
  <2>3. e.year \in Int /\ l.year \in Int
    <3>. HIDE DEF e, l
    <3>. QED
      BY <2>2, YearIn DEF Shows, Tm
  <2>4. apart \in Int
    BY <1>1, LocalIs
  <2>5. e.year > l.year => day = 0
    BY DEF DiffTimeDay
  <2>. HIDE DEF e, l, day, apart
  <2>6. ASSUME ~Astray(e, l), early # 0, late # 0, ~(apart < 0)
        PROVE  day = apart
    <3>1. CASE ~Early(e)
      BY <2>1, <2>4, <2>6, <3>1 DEF Missed
    <3>2. CASE Early(e)
      <4>1. day = apart - (l.year - e.year)
        BY <2>1, <2>6, <3>2 DEF Missed
      <4>2. ~(e.year < l.year)
        BY <2>6, <3>2 DEF Astray, Early
      <4>. QED
        BY <2>3, <2>4, <2>5, <2>6, <4>1, <4>2
    <3>. QED
      BY <3>1, <3>2
  <2>. QED
    BY <2>1, <2>6
<1>4. ASSUME early # 0, late # 0
      PROVE  /\ Steady(zone, early) /\ Steady(zone, late) /\ ~(e.isdst = 1 /\ e.hour = 0)
                  => DiffTimeWeek(zone, early, late) = Max({mondays, 0})
             /\ e.year <= l.year => month = 12 * (l.year - e.year) + l.mon - e.mon
             /\ month < 0 => e.year = l.year /\ early > late
  <2>1. Steady(zone, early) /\ Steady(zone, late) /\ ~(e.isdst = 1 /\ e.hour = 0)
          => DiffTimeWeek(zone, early, late) = Max({mondays, 0})
    BY <1>1, <1>4, WeeksApart DEF Early
  <2>2. ASSUME e.year <= l.year PROVE month = 12 * (l.year - e.year) + l.mon - e.mon
    <3>1. month = IF early = 0 \/ late = 0 \/ e.year > l.year THEN 0
                  ELSE (l.year - e.year) * 12 + l.mon - e.mon
      BY DEF DiffTimeMonth
    <3>2. /\ e.year \in Int /\ l.year \in Int /\ e.mon \in Int /\ l.mon \in Int
      <4>1. Shows(e, Wall(zone, early)) /\ Shows(l, Wall(zone, late))
        BY <1>1, LocalIs
      <4>. HIDE DEF e, l
      <4>2. e \in Tm /\ l \in Tm
        BY <4>1 DEF Shows
      <4>. QED
        BY <4>2, MonthIn DEF Tm
    <3>. HIDE DEF e, l, month
    <3>. QED
      BY <1>4, <2>2, <3>1, <3>2
  <2>3. ASSUME month < 0 PROVE e.year = l.year /\ early > late
    BY <1>1, <1>4, <2>3, MonthsApart
  <2>. QED
    BY <2>1, <2>2, <2>3
<1>5. DaysCounted'
  <2>. HIDE DEF day, month
  <2>. QED
    BY <1>2, <1>3, Zenon DEF DaysCounted
<1>6. WeeksCounted'
  <2>. HIDE DEF day, month
  <2>. QED
    BY <1>2, <1>4 DEF WeeksCounted, Steady
<1>. QED
  BY <1>5, <1>6

\* Differences, formats and readings agree with the calendar, for all days and seconds.
THEOREM CalendarCorrect == CalendarSpec => []CalendarSound
<1>1. CalendarInit => CalendarSound
  BY DEF CalendarInit, NoDate, CalendarSound, DaysCounted, WeeksCounted, DatesReadBack,
         DatesNormalised
<1>2. CalendarSound /\ [CalendarNext]_calendar => CalendarSound'
  <2>. SUFFICES ASSUME CalendarSound, [CalendarNext]_calendar PROVE CalendarSound'
    OBVIOUS
  <2>1. CASE UNCHANGED calendar
    BY <2>1 DEF CalendarSound, DaysCounted, WeeksCounted, DatesReadBack, DatesNormalised
  <2>2. ASSUME calendar' = NoDate PROVE CalendarSound'
    <3>1. calendar'.fn = "none"
      BY <2>2 DEF NoDate
    <3>. QED
      BY <3>1 DEF CalendarSound, DaysCounted, WeeksCounted, DatesReadBack, DatesNormalised
  <2>3. CASE CallDiffTime
    <3>1. DaysCounted' /\ WeeksCounted'
      BY <2>3, DiffSound DEF CallDiffTime
    <3>2. calendar'.fn = "diff"
      BY <2>3 DEF CallDiffTime
    <3>. QED
      BY <3>1, <3>2 DEF CalendarSound, DatesReadBack, DatesNormalised
  <2>4. CASE CallTimeFormat
    <3>1. DatesReadBack'
      BY <2>4, TimesIs, FormatSound DEF CallTimeFormat
    <3>2. calendar'.fn = "format"
      BY <2>4 DEF CallTimeFormat
    <3>. QED
      BY <3>1, <3>2 DEF CalendarSound, DaysCounted, WeeksCounted, DatesNormalised
  <2>5. CASE CallReadDateTime
    <3>1. DatesNormalised'
      <4>1. PICK d \in Dates : calendar' = [fn |-> "read", date |-> d, out |-> ReadDateTime(d)]
        BY <2>5 DEF CallReadDateTime
      <4>2. /\ d = <<d[1], d[2], d[3], d[4], 0, d[6]>>
            /\ d[1] \in Int /\ (d[1] <= 1900 \/ (1971 <= d[1] /\ d[1] <= 2030))
            /\ d[2] \in Int /\ d[2] <= 60
            /\ d[3] \in Int /\ d[4] \in Int /\ d[6] \in Int
        BY DEF Dates
      <4>. QED
        BY <4>1, <4>2, ReadSound
    <3>2. calendar'.fn = "read"
      BY <2>5 DEF CallReadDateTime
    <3>. QED
      BY <3>1, <3>2 DEF CalendarSound, DaysCounted, WeeksCounted, DatesReadBack
  <2>. QED
    BY <2>1, <2>2, <2>3, <2>4, <2>5 DEF CalendarNext
<1>. QED
  BY <1>1, <1>2, PTL DEF CalendarSpec
=============================================================================
