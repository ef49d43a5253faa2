----------------------------- MODULE ClockProofs -----------------------------
(***************************************************************************)
(* What the registers of the chip keep of a date: all of it up to the hour *)
(* 19, and nothing a restart would accept from 20 o'clock on.  What the    *)
(* calendar makes of a time is the date of that time.  From both: the node *)
(* and the chip agree on a time written whole and undisturbed, a restart   *)
(* leaves it alone or gives the initial time, and no pulse amid a          *)
(* conversion takes a field out of its width.                              *)
(***************************************************************************)
EXTENDS Clock, TLAPS

-----------------------------------------------------------------------------
LEMMA DigitsOfByte ==
  ASSUME NEW n \in 0 .. 99
  PROVE  /\ Bcd(n) = (n \div 10) * 16 + (n % 10)
         /\ Bcd(n) % 16 = n % 10 /\ Bcd(n) \div 16 = n \div 10
         /\ FromBcd(Bcd(n)) = n
<1>1. n \div 10 \in 0 .. 9 /\ n % 10 \in 0 .. 9 /\ n = 10 * (n \div 10) + (n % 10)
  OBVIOUS
<1> DEFINE t == n \div 10
           o == n % 10
<1>2. Bcd(n) = (t * 16 + o) % 256
  BY DEF Bcd
<1>3. t \in 0 .. 9 /\ o \in 0 .. 9 /\ n = 10 * t + o
  BY <1>1
<1> HIDE DEF t, o
<1>4. (t * 16 + o) % 256 = t * 16 + o
  BY <1>3
<1>5. (t * 16 + o) % 16 = o /\ (t * 16 + o) \div 16 = t
  BY <1>3
<1>6. FromBcd(Bcd(n)) = n
  BY <1>2, <1>3, <1>4, <1>5 DEF FromBcd
<1>7. QED
  BY <1>2, <1>4, <1>5, <1>6 DEF t, o

\* The form of the hours of the chip keeps the hours before eight in the
\* evening (hal_system_time.c:51, 85).
LEMMA HoursKept ==
  ASSUME NEW h \in 0 .. 19 PROVE HourRead(HourForm(h)) = h
<1>1. HourForm(h) % 16 = h % 10 /\ HourForm(h) \div 16 = h \div 10
      /\ HourForm(h) = (h \div 10) * 16 + (h % 10)
  BY DigitsOfByte DEF HourForm
<1>2. HourForm(h) \div 32 = 0
  BY <1>1
<1>3. QED
  BY <1>1, <1>2 DEF HourRead

\* From then on what is read back is 40 and more, the hour of no date.
LEMMA HoursLost ==
  ASSUME NEW h \in 20 .. 23 PROVE HourRead(HourForm(h)) = h + 20
<1>1. CASE h = 20
  BY <1>1 DEF HourRead, HourForm, Bcd
<1>2. CASE h = 21
  BY <1>2 DEF HourRead, HourForm
<1>3. CASE h = 22
  BY <1>3 DEF HourRead, HourForm
<1>4. CASE h = 23
  BY <1>4 DEF HourRead, HourForm
<1>5. QED
  BY <1>1, <1>2, <1>3, <1>4

\* A year that a timestamp of 32 bits reaches: one of 1970 .. 2069 or of the
\* hundred years after, told apart by the bit of the century.
LEMMA YearDigits ==
  ASSUME NEW y \in 1970 .. 2105, NEW century \in 0 .. 1, NEW u \in 0 .. 99,
         y = 1970 + 100 * century + u
  PROVE  /\ YearForm(y) = Bcd(u)
         /\ \A m \in 1 .. 12 : MonthForm(m, y) = century * 128 + Bcd(m)
<1>1. (y - 1970) \div 100 = century /\ ((y - 1970) % 256) \div 100 = century
  OBVIOUS
<1>2. YearForm(y) = (((u % 256) \div 10) * 16 + (y % 10)) % 256
  <2>1. CASE century = 0
    BY <1>1, <2>1 DEF YearForm, EpochYear
  <2>2. CASE century = 1
    BY <1>1, <2>2 DEF YearForm, EpochYear
  <2>3. QED
    BY <2>1, <2>2
<1>3. u % 256 = u /\ y % 10 = u % 10
  OBVIOUS
<1>4. YearForm(y) = Bcd(u)
  BY <1>2, <1>3 DEF Bcd
<1>5. ASSUME NEW m \in 1 .. 12 PROVE MonthForm(m, y) = century * 128 + Bcd(m)
  <2>1. Bcd(m) \in 0 .. 18
    BY DigitsOfByte
  <2>2. (century * 128 + Bcd(m)) % 256 = century * 128 + Bcd(m)
    BY <2>1
  <2>3. QED
    BY <1>1, <2>2 DEF MonthForm, EpochYear
<1>6. QED
  BY <1>4, <1>5

LEMMA YearParts ==
  ASSUME NEW y \in 1970 .. 2105
  PROVE  \E century \in 0 .. 1, u \in 0 .. 99 : y = 1970 + 100 * century + u
<1>1. CASE y < 2070
  <2>1. y - 1970 \in 0 .. 99 /\ y = 1970 + 100 * 0 + (y - 1970)
    BY <1>1
  <2>2. QED
    BY <2>1
<1>2. CASE y >= 2070
  <2>1. y - 2070 \in 0 .. 99 /\ y = 1970 + 100 * 1 + (y - 2070)
    BY <1>2
  <2>2. QED
    BY <2>1
<1>3. QED
  BY <1>1, <1>2

LEMMA MonthKept ==
  ASSUME NEW m \in 1 .. 12, NEW century \in 0 .. 1
  PROVE  /\ MonthRead(century * 128 + Bcd(m)) = m
         /\ (century * 128 + Bcd(m)) \div 128 = century
<1>1. /\ Bcd(m) \in 0 .. 18 /\ Bcd(m) % 16 = m % 10 /\ Bcd(m) \div 16 = m \div 10
  BY DigitsOfByte
<1> DEFINE b == Bcd(m)
<1>2. b \in 0 .. 18 /\ b % 16 = m % 10 /\ b \div 16 = m \div 10
  BY <1>1
<1> HIDE DEF b
<1>3. (century * 128 + b) % 16 = b % 16
  BY <1>2
<1>4. ((century * 128 + b) \div 16) % 2 = b \div 16
  BY <1>2
<1>5. (century * 128 + b) \div 128 = century
  BY <1>2
<1>6. MonthRead(century * 128 + b) = m
  BY <1>2, <1>3, <1>4 DEF MonthRead
<1>7. QED
  BY <1>5, <1>6 DEF b

LEMMA DateKept ==
  ASSUME NEW d \in 1 .. 31
  PROVE  (Bcd(d) % 16) + 10 * ((Bcd(d) \div 16) % 4) = d
<1>1. Bcd(d) % 16 = d % 10 /\ Bcd(d) \div 16 = d \div 10
  BY DigitsOfByte
<1>2. QED
  BY <1>1

Date == [minute : Nat, hour : Nat, date : Nat, month : Nat, year : Nat]

LEMMA ValidRanges ==
  ASSUME NEW c \in Date, ValidDate(c)
  PROVE  /\ c.minute \in 0 .. 59 /\ c.hour \in 0 .. 23 /\ c.date \in 1 .. 31
         /\ c.month \in 1 .. 12 /\ c.year \in 1970 .. 2105
<1>1. \A leap \in BOOLEAN, m \in 1 .. 12 : MonthDays(leap)[m] \in 28 .. 31
  BY DEF MonthDays
<1>2. Leap(c.year) \in BOOLEAN
  BY DEF Leap
<1>3. MonthDays(Leap(c.year))[c.month] \in 28 .. 31
  BY <1>1, <1>2 DEF ValidDate
<1>4. QED
  BY <1>3 DEF ValidDate, Date, EpochYear

\* All but the hour of a date is what the chip's registers read back.
LEMMA OtherFieldsKept ==
  ASSUME NEW c \in Date, ValidDate(c), NEW old
  PROVE  LET read == RtcToCalendar(CalendarToRtc(c), old) IN
           /\ read.minute = c.minute /\ read.date = c.date
           /\ read.month = c.month /\ read.year = c.year
<1>1. /\ c.minute \in 0 .. 59 /\ c.hour \in 0 .. 23 /\ c.date \in 1 .. 31
      /\ c.month \in 1 .. 12 /\ c.year \in 1970 .. 2105
  BY ValidRanges
<1>2. PICK century \in 0 .. 1, u \in 0 .. 99 :
        c.year = 1970 + 100 * century + u
  BY <1>1, YearParts
<1>3. FromBcd(Bcd(c.minute)) = c.minute /\ FromBcd(Bcd(u)) = u
  BY <1>1, DigitsOfByte
<1>4. /\ YearForm(c.year) = Bcd(u)
      /\ MonthForm(c.month, c.year) = century * 128 + Bcd(c.month)
  BY <1>1, <1>2, YearDigits
<1>5. /\ MonthRead(MonthForm(c.month, c.year)) = c.month
      /\ MonthForm(c.month, c.year) \div 128 = century
  BY <1>1, <1>4, MonthKept
<1>6. (Bcd(c.date) % 16) + 10 * ((Bcd(c.date) \div 16) % 4) = c.date
  BY <1>1, DateKept
<1>7. EpochYear + FromBcd(YearForm(c.year)) + 100 * (MonthForm(c.month, c.year) \div 128)
        = c.year
  BY <1>2, <1>3, <1>4, <1>5 DEF EpochYear
<1>8. QED
  BY <1>3, <1>5, <1>6, <1>7 DEF RtcToCalendar, CalendarToRtc

LEMMA HourField ==
  ASSUME NEW c, NEW old, old.hour \in 0 .. 63
  PROVE  RtcToCalendar(CalendarToRtc(c), old).hour = HourRead(HourForm(c.hour))
<1>1. (old.hour \div 64) % 2 = 0
  OBVIOUS
<1>2. QED
  BY <1>1 DEF RtcToCalendar, CalendarToRtc

-----------------------------------------------------------------------------
\* A date before eight in the evening goes to the registers of the chip and
\* back unchanged, for every year a timestamp reaches (hal_system_time.c:35-90).
THEOREM DateSurvivesChip ==
  ASSUME NEW c \in Date, ValidDate(c), c.hour < 20, NEW old, old.hour \in 0 .. 63
  PROVE  RtcToCalendar(CalendarToRtc(c), old) = c
<1> DEFINE read == RtcToCalendar(CalendarToRtc(c), old)
<1>1. c.hour \in 0 .. 19
  BY ValidRanges
<1>2. read.hour = c.hour
  BY <1>1, HourField, HoursKept
<1>3. /\ read.minute = c.minute /\ read.date = c.date
      /\ read.month = c.month /\ read.year = c.year
  BY OtherFieldsKept
<1>4. read = [minute |-> read.minute, hour |-> read.hour, date |-> read.date,
              month |-> read.month, year |-> read.year]
  BY DEF RtcToCalendar
<1> HIDE DEF read
<1>5. c = [minute |-> c.minute, hour |-> c.hour, date |-> c.date,
           month |-> c.month, year |-> c.year]
  BY DEF Date
<1>6. read = c
  BY <1>2, <1>3, <1>4, <1>5
<1>7. QED
  BY <1>6 DEF read

\* One from eight in the evening on is read back as no date at all, so that a
\* restart puts the initial date in its place (hal_system_time.c:51, 123).
THEOREM EveningIsLost ==
  ASSUME NEW c \in Date, ValidDate(c), c.hour >= 20, NEW old, old.hour \in 0 .. 63
  PROVE  /\ DateToTimestamp(RtcToCalendar(CalendarToRtc(c), old)) = 0
         /\ NoTimeOrOld(0)
<1>1. c.hour \in 20 .. 23
  BY ValidRanges
<1>2. RtcToCalendar(CalendarToRtc(c), old).hour = c.hour + 20
  BY <1>1, HourField, HoursLost
<1>3. ~ValidDate(RtcToCalendar(CalendarToRtc(c), old))
  BY <1>1, <1>2 DEF ValidDate
<1>4. QED
  BY <1>3 DEF DateToTimestamp, NoTimeOrOld, Threshold

-----------------------------------------------------------------------------
(***************************************************************************)
(* The calendar: a time before 2106 lies in one year and one month, so its *)
(* date is valid and is the date of that time.                             *)
(***************************************************************************)
LEMMA LeapBoolean == ASSUME NEW y PROVE Leap(y) \in BOOLEAN
  BY DEF Leap

\* The sum over the years, from one to the next.
LEMMA YearAfter ==
  ASSUME NEW y \in Nat, y >= 1970
  PROVE  DaysBeforeYear(y + 1) = DaysBeforeYear(y) + YearDays(y)
<1>1. ((y + 1 - 1969) \div 4) - ((y - 1969) \div 4) = IF y % 4 = 0 THEN 1 ELSE 0
  OBVIOUS
<1>2. ((y + 1 - 1901) \div 100) - ((y - 1901) \div 100) = IF y % 100 = 0 THEN 1 ELSE 0
  OBVIOUS
<1>3. ((y + 1 - 1601) \div 400) - ((y - 1601) \div 400) = IF y % 400 = 0 THEN 1 ELSE 0
  OBVIOUS
<1>4. (y % 100 = 0 => y % 4 = 0) /\ (y % 400 = 0 => y % 100 = 0)
  OBVIOUS
<1> DEFINE a == (y - 1969) \div 4          a1 == (y + 1 - 1969) \div 4
           b == (y - 1901) \div 100        b1 == (y + 1 - 1901) \div 100
           c == (y - 1601) \div 400        c1 == (y + 1 - 1601) \div 400
<1>5. /\ a \in Int /\ a1 \in Int /\ b \in Int /\ b1 \in Int /\ c \in Int /\ c1 \in Int
  OBVIOUS
<1>6. /\ DaysBeforeYear(y) = 365 * (y - 1970) + a - b + c
      /\ DaysBeforeYear(y + 1) = 365 * (y + 1 - 1970) + a1 - b1 + c1
  BY DEF DaysBeforeYear, EpochYear
<1>7. /\ a1 - a = IF y % 4 = 0 THEN 1 ELSE 0
      /\ b1 - b = IF y % 100 = 0 THEN 1 ELSE 0
      /\ c1 - c = IF y % 400 = 0 THEN 1 ELSE 0
  BY <1>1, <1>2, <1>3
<1> HIDE DEF a, a1, b, b1, c, c1
<1>8. QED
  BY <1>4, <1>5, <1>6, <1>7 DEF YearDays, Leap

LEMMA YearBounds ==
  ASSUME NEW y \in Nat, y >= 1970
  PROVE  /\ DaysBeforeYear(y) \in Nat
         /\ 365 * (y - 1970) <= DaysBeforeYear(y)
         /\ DaysBeforeYear(y) <= 366 * (y - 1970)
<1> DEFINE a == (y - 1969) \div 4
           b == (y - 1901) \div 100
           c == (y - 1601) \div 400
<1>1. /\ a \in Int /\ 4 * a <= y - 1969 /\ y - 1969 < 4 * a + 4
      /\ b \in Int /\ 100 * b <= y - 1901 /\ y - 1901 < 100 * b + 100
      /\ c \in Int /\ 400 * c <= y - 1601 /\ y - 1601 < 400 * c + 400
  OBVIOUS
<1>2. DaysBeforeYear(y) = 365 * (y - 1970) + a - b + c
  BY DEF DaysBeforeYear, EpochYear
<1> HIDE DEF a, b, c
<1>3. 0 <= a - b + c /\ a - b + c <= y - 1970
  BY <1>1
<1>4. QED
  BY <1>1, <1>2, <1>3

LEMMA YearsEnds == DaysBeforeYear(1970) = 0 /\ DaysBeforeYear(2106) = 49673
  BY DEF DaysBeforeYear, EpochYear

InYear(days, y) == days >= DaysBeforeYear(y) /\ days < DaysBeforeYear(y + 1)

\* Days of n years running lie in one of them.
YearAmong(n) ==
  \A days \in Nat, y \in Nat :
    y >= 1970 /\ days >= DaysBeforeYear(y) /\ days < DaysBeforeYear(y + n)
    => \E z \in Nat : z >= 1970 /\ InYear(days, z)

LEMMA TwiceTheYears ==
  ASSUME NEW n \in Nat, NEW twice \in Nat, twice = n + n, YearAmong(n)
  PROVE  YearAmong(twice)
<1> SUFFICES ASSUME NEW days \in Nat, NEW y \in Nat, y >= 1970,
                    days >= DaysBeforeYear(y), days < DaysBeforeYear(y + twice)
             PROVE  \E z \in Nat : z >= 1970 /\ InYear(days, z)
  BY DEF YearAmong
<1>0. y + n \in Nat /\ y + n >= 1970 /\ (y + n) + n = y + twice
  OBVIOUS
<1>1. CASE days < DaysBeforeYear(y + n)
  BY <1>1 DEF YearAmong
<1>2. CASE ~(days < DaysBeforeYear(y + n))
  <2>1. DaysBeforeYear(y + n) \in Nat
    BY <1>0, YearBounds
  <2>2. days >= DaysBeforeYear(y + n) /\ days < DaysBeforeYear((y + n) + n)
    BY <1>0, <1>2, <2>1
  <2>3. QED
    BY <1>0, <2>2 DEF YearAmong
<1>3. QED
  BY <1>1, <1>2

LEMMA YearExists ==
  ASSUME NEW days \in Nat, days < 49673
  PROVE  \E y \in EpochYear + (days \div 366) .. EpochYear + (days \div 365) :
           InYear(days, y)
<1>1. YearAmong(1)
  BY DEF YearAmong, InYear
<1>2. YearAmong(2)
  BY <1>1, TwiceTheYears
<1>3. YearAmong(4)
  BY <1>2, TwiceTheYears
<1>4. YearAmong(8)
  BY <1>3, TwiceTheYears
<1>5. YearAmong(16)
  BY <1>4, TwiceTheYears
<1>6. YearAmong(32)
  BY <1>5, TwiceTheYears
<1>7. YearAmong(64)
  BY <1>6, TwiceTheYears
<1>8. YearAmong(128)
  BY <1>7, TwiceTheYears
<1>9. YearAmong(256)
  BY <1>8, TwiceTheYears
<1>10. DaysBeforeYear(1970) = 0 /\ days < DaysBeforeYear(1970 + 256)
  BY YearsEnds, YearBounds
<1>11. PICK z \in Nat : z >= 1970 /\ InYear(days, z)
  BY <1>9, <1>10 DEF YearAmong
<1>12. /\ 365 * (z - 1970) <= days /\ days < 366 * (z + 1 - 1970)
  <2>1. /\ 365 * (z - 1970) <= DaysBeforeYear(z) /\ DaysBeforeYear(z) \in Nat
        /\ DaysBeforeYear(z + 1) <= 366 * (z + 1 - 1970) /\ DaysBeforeYear(z + 1) \in Nat
    BY <1>11, YearBounds
  <2>2. QED
    BY <1>11, <2>1 DEF InYear
<1>13. z - 1970 >= days \div 366 /\ z - 1970 <= days \div 365
  BY <1>11, <1>12
<1>14. z \in EpochYear + (days \div 366) .. EpochYear + (days \div 365)
  BY <1>11, <1>13 DEF EpochYear
<1>15. QED
  BY <1>11, <1>14

\* The twelve months of a year, one after the other.
LEMMA MonthAfter ==
  ASSUME NEW leap \in BOOLEAN, NEW m \in 1 .. 12
  PROVE  /\ DaysBeforeMonth(m, leap) \in Nat
         /\ MonthDays(leap)[m] \in 28 .. 31
         /\ DaysBeforeMonth(m + 1, leap)
              = DaysBeforeMonth(m, leap) + MonthDays(leap)[m]
<1>1. CASE m \in 1 .. 6
  BY <1>1 DEF DaysBeforeMonth, MonthDays
<1>2. CASE m \in 7 .. 12
  BY <1>2 DEF DaysBeforeMonth, MonthDays
<1>3. QED
  BY <1>1, <1>2

LEMMA MonthsEnds ==
  ASSUME NEW y
  PROVE  /\ DaysBeforeMonth(1, Leap(y)) = 0
         /\ DaysBeforeMonth(13, Leap(y)) = YearDays(y)
<1>1. CASE Leap(y)
  BY <1>1 DEF DaysBeforeMonth, YearDays
<1>2. CASE ~Leap(y)
  BY <1>2 DEF DaysBeforeMonth, YearDays
<1>3. QED
  BY <1>1, <1>2

InMonth(left, y, m) ==
  /\ left >= DaysBeforeMonth(m, Leap(y))
  /\ left < DaysBeforeMonth(m + 1, Leap(y))

LEMMA MonthExists ==
  ASSUME NEW y, NEW left \in Nat, left < YearDays(y)
  PROVE  \E m \in 1 .. 12 : InMonth(left, y, m)
<1> DEFINE start(m) == DaysBeforeMonth(m, Leap(y))
<1>1. \A m \in 1 .. 12 : start(m) \in Nat
  BY LeapBoolean, MonthAfter
<1>2. left >= start(1) /\ left < start(13)
  BY MonthsEnds
<1>3. \A m \in 1 .. 12 : InMonth(left, y, m) <=> left >= start(m) /\ left < start(m + 1)
  BY DEF InMonth
<1> HIDE DEF start
<1> SUFFICES ASSUME \A m \in 1 .. 12 : ~(left >= start(m) /\ left < start(m + 1))
             PROVE  FALSE
  BY <1>3
<1>4. left >= start(2) /\ left >= start(3) /\ left >= start(4) /\ left >= start(5)
  BY <1>1, <1>2
<1>5. left >= start(6) /\ left >= start(7) /\ left >= start(8) /\ left >= start(9)
  BY <1>1, <1>4
<1>6. left >= start(10) /\ left >= start(11) /\ left >= start(12)
  BY <1>1, <1>5
<1>7. QED
  BY <1>1, <1>2, <1>6

\* The date put together from a day and the minutes of that day.
LEMMA DateOf ==
  ASSUME NEW t \in Nat, NEW c \in Date,
         c.minute = t % Hour, c.hour = (t % Day) \div Hour,
         c.year \in 1970 .. 2105, c.month \in 1 .. 12, c.date \in Nat, c.date >= 1,
         c.date <= MonthDays(Leap(c.year))[c.month],
         t \div Day = DaysBeforeYear(c.year) + DaysBeforeMonth(c.month, Leap(c.year))
                      + c.date - 1
  PROVE  ValidDate(c) /\ DateToTimestamp(c) = t
<1>1. /\ t % Hour \in 0 .. 59 /\ (t % Day) \div Hour \in 0 .. 23
      /\ t = Day * (t \div Day) + Hour * ((t % Day) \div Hour) + (t % Hour)
  <2>1. t = 1440 * (t \div 1440) + (t % 1440) /\ t % 1440 \in 0 .. 1439
    OBVIOUS
  <2>2. (t % 1440) % 60 = t % 60
    OBVIOUS
  <2>3. \A r \in 0 .. 1439 : r \div 60 \in 0 .. 23 /\ r = 60 * (r \div 60) + (r % 60)
    OBVIOUS
  <2>4. QED
    BY <2>1, <2>2, <2>3 DEF Day, Hour
<1>2. MonthDays(Leap(c.year))[c.month] \in 28 .. 31
  BY LeapBoolean, MonthAfter
<1>3. ValidDate(c)
  BY <1>1, <1>2 DEF ValidDate, EpochYear
<1>4. DateToTimestamp(c) = Day * (t \div Day) + Hour * c.hour + c.minute
  BY <1>3 DEF DateToTimestamp
<1>5. QED
  BY <1>1, <1>3, <1>4

\* Every time before 2106 has a date, which is valid and is the date of that
\* time: the loops of timestamp_to_calendar and the sums of
\* calendar_date_to_timestamp are inverse to each other (calendar.c:256-330).
THEOREM CalendarThereAndBack ==
  ASSUME NEW t \in Nat, t \div Day < 49673
  PROVE  /\ TimestampToCalendar(t) \in Date
         /\ ValidDate(TimestampToCalendar(t))
         /\ DateToTimestamp(TimestampToCalendar(t)) = t
<1> DEFINE days == t \div Day
           year == CHOOSE y \in EpochYear + (days \div 366) .. EpochYear + (days \div 365) :
                     days >= DaysBeforeYear(y) /\ days < DaysBeforeYear(y + 1)
           left == days - DaysBeforeYear(year)
           start == [m \in 1 .. 13 |-> DaysBeforeMonth(m, Leap(year))]
           month == CHOOSE m \in 1 .. 12 : left >= start[m] /\ left < start[m + 1]
           c == [minute |-> t % Hour, hour |-> (t % Day) \div Hour,
                 date |-> left - start[month] + 1, month |-> month, year |-> year]
<1>1. TimestampToCalendar(t) = c
  BY DEF TimestampToCalendar
<1>2. days \in Nat /\ days < 49673
  BY DEF Day, Hour
<1> HIDE DEF days
<1>3. /\ year \in EpochYear + (days \div 366) .. EpochYear + (days \div 365)
      /\ InYear(days, year)
  BY <1>2, YearExists DEF InYear
<1> HIDE DEF year
<1>4. year \in Nat /\ year >= 1970
  BY <1>2, <1>3 DEF EpochYear
<1>5. year \in 1970 .. 2105
  <2>1. /\ 365 * (year - 1970) <= DaysBeforeYear(year) /\ DaysBeforeYear(year) \in Nat
    BY <1>4, YearBounds
  <2>2. 365 * (year - 1970) <= 49672
    BY <1>2, <1>3, <2>1 DEF InYear
  <2>3. year < 2107
    BY <1>4, <2>2
  <2>4. year # 2106
    BY <1>2, <1>3, YearsEnds DEF InYear
  <2>5. QED
    BY <1>4, <2>3, <2>4
<1>6. left \in Nat /\ left < YearDays(year) /\ days = DaysBeforeYear(year) + left
  <2>1. DaysBeforeYear(year) \in Nat
    BY <1>4, YearBounds
  <2>2. DaysBeforeYear(year + 1) = DaysBeforeYear(year) + YearDays(year)
    BY <1>4, YearAfter
  <2>3. YearDays(year) \in Nat
    BY DEF YearDays
  <2>4. QED
    BY <1>2, <1>3, <2>1, <2>2, <2>3 DEF InYear
<1> HIDE DEF left
<1>7. \A m \in 1 .. 12 : InMonth(left, year, m)
                         <=> left >= start[m] /\ left < start[m + 1]
  BY DEF InMonth
<1>8. \E m \in 1 .. 12 : left >= start[m] /\ left < start[m + 1]
  BY <1>6, <1>7, MonthExists
<1>9. month \in 1 .. 12 /\ left >= start[month] /\ left < start[month + 1]
  <2> DEFINE here(m) == left >= start[m] /\ left < start[m + 1]
  <2>1. (\E m \in 1 .. 12 : here(m)) /\ month = CHOOSE m \in 1 .. 12 : here(m)
    BY <1>8
  <2> HIDE DEF month, here
  <2>2. month \in 1 .. 12 /\ here(month)
    BY <2>1
  <2>3. QED
    BY <2>2 DEF here
<1> HIDE DEF month
<1>10. /\ start[month] = DaysBeforeMonth(month, Leap(year)) /\ start[month] \in Nat
       /\ start[month + 1] = start[month] + MonthDays(Leap(year))[month]
       /\ MonthDays(Leap(year))[month] \in 28 .. 31
  BY <1>9, LeapBoolean, MonthAfter
<1> HIDE DEF start
<1>11. /\ left - start[month] + 1 \in Nat /\ left - start[month] + 1 >= 1
       /\ left - start[month] + 1 <= MonthDays(Leap(year))[month]
       /\ days = DaysBeforeYear(year) + DaysBeforeMonth(month, Leap(year))
                 + (left - start[month] + 1) - 1
  <2>1. DaysBeforeYear(year) \in Nat
    BY <1>4, YearBounds
  <2>2. QED
    BY <1>6, <1>9, <1>10, <2>1
<1>12. t % Hour \in Nat /\ (t % Day) \div Hour \in Nat
  BY DEF Day, Hour
<1>13. c \in Date
  BY <1>4, <1>9, <1>11, <1>12 DEF Date
<1>14. /\ c.minute = t % Hour /\ c.hour = (t % Day) \div Hour
       /\ c.year = year /\ c.month = month /\ c.date = left - start[month] + 1
  OBVIOUS
<1> HIDE DEF c
<1>15. ValidDate(c) /\ DateToTimestamp(c) = t
  BY <1>5, <1>9, <1>11, <1>13, <1>14, DateOf DEF days
<1>16. QED
  BY <1>1, <1>13, <1>15

-----------------------------------------------------------------------------
(***************************************************************************)
(* The invariant.  The hours registers only ever hold the forms of the     *)
(* hours 0 to 23, so that the bit of the twelve hour mode is never found.  *)
(***************************************************************************)
LastYear == YearWidth - 1

HourByte == (0 .. 9) \cup (16 .. 25) \cup (32 .. 35)

Registers == [minutes : 0 .. 255, hours : HourByte, date : 0 .. 255,
              month_century : 0 .. 255, year : 0 .. 255]

Fields == [minute : 0 .. 255, hour : 0 .. 63, date : 0 .. 255,
           month : 0 .. 255, year : 0 .. LastYear]

Held == [year : 0 .. LastYear, month : 0 .. 255]

Types ==
  /\ rtc \in Registers /\ regs \in Registers /\ cal \in Fields /\ held \in Held
  /\ secs \in Nat /\ day \in Nat /\ kept \in Nat /\ clean \in BOOLEAN
  /\ pc \in Setting \cup Booting \cup {"off", "idle"} /\ gps \in {"idle", "spin"}
  /\ agreed \in {"no", "writing", "yes"}
  /\ sets \in 0 .. MaxSets /\ hours \in 0 .. MaxHours

\* The steps after the four stores: the loops, and what makes the date of them.
Counting == Converting \ {"year", "month", "minute", "hour"}

\* Wherever the pulse comes, it leaves an hour of the day.  It only spins while
\* the main loop owns the bus.
Loops ==
  /\ pc \in Counting \cup {"form"} => cal.hour < 24
  /\ gps = "spin" => pc = "send"

\* The chip or its buffer holds the time kept.
HoldsKept(registers) ==
  \E c \in Date : ValidDate(c) /\ DateToTimestamp(c) = kept
                  /\ registers = CalendarToRtc(c)

\* What the main loop has made of the time it writes, if no pulse came: d days
\* are left at the start of a year, of a month of the calendar's year (the
\* first is 0), or are the days before the date.
ClockFieldsKept == cal.minute = kept % Hour /\ cal.hour = (kept % Day) \div Hour

YearIs(y, d) == kept \div Day = DaysBeforeYear(y) + d

MonthIs(m, d) ==
  /\ m \in 0 .. 11
  /\ kept \div Day
       = DaysBeforeYear(cal.year) + DaysBeforeMonth(m + 1, Leap(cal.year)) + d
  /\ DaysBeforeMonth(m + 1, Leap(cal.year)) + d < YearDays(cal.year)

DateIs(d) ==
  /\ d \in Nat /\ cal.month \in 0 .. 11
  /\ d < MonthDays(Leap(cal.year))[cal.month + 1]
  /\ kept \div Day
       = DaysBeforeYear(cal.year) + DaysBeforeMonth(cal.month + 1, Leap(cal.year)) + d

Undisturbed ==
  /\ pc \in Setting /\ gps = "idle" /\ secs = kept /\ kept \div Day < 49673
  /\ pc \in Converting \ Counting => day = kept
  /\ pc \in {"month", "minute", "hour"} => cal.year = EpochYear
  /\ pc \in {"minute", "hour", "years", "takeyear", "addyear"} => cal.month = 0
  /\ pc = "hour" => cal.minute = kept % Hour
  /\ pc \in Converting \ {"year"} => held.year = cal.year
  /\ pc \in Converting \ {"year", "month"} => held.month = cal.month
  /\ pc \in Counting => ClockFieldsKept /\ cal.year \in 1970 .. 2105
  /\ pc \in {"years", "takeyear"} => YearIs(cal.year, day)
  /\ pc = "takeyear" => day >= YearDays(cal.year)
  /\ pc = "addyear" => YearIs(cal.year + 1, day) /\ cal.year < 2105
  /\ pc \in {"months", "takemonth"} => MonthIs(cal.month, day)
  /\ pc = "takemonth" => day >= MonthDays(Leap(cal.year))[cal.month + 1]
  /\ pc = "addmonth" => MonthIs(cal.month + 1, day)
  /\ pc \in {"date", "adddate"} => DateIs(day)
  /\ pc = "adddate" => cal.date = day
  /\ pc = "lastmonth" => DateIs(cal.date - 1)
  /\ pc = "form" => ValidDate(cal) /\ DateToTimestamp(cal) = kept
  /\ pc = "send" => HoldsKept(regs)

Agreed ==
  /\ agreed = "yes" => HoldsKept(rtc)
  /\ agreed = "writing" => Undisturbed
  /\ pc = "idle" /\ agreed = "yes" => secs = kept

\* The time a whole read of the chip would give.
TimeOfChip == DateToTimestamp(RtcToCalendar(rtc, NoDate))

\* What the boot found.  A time read is one before eight in the evening, also
\* if the year did not arrive.
Boot ==
  /\ pc = "off" => cal = NoDate /\ regs = NoRegisters
  /\ pc = "check" => /\ secs # 0 => rtc.hours < 32
                     /\ clean => secs = TimeOfChip
  /\ pc = "reread" => /\ agreed = "yes" => rtc.hours < 32
                      /\ clean => TimeOfChip >= InitialTime

IInv == Types /\ Loops /\ Agreed /\ Boot

-----------------------------------------------------------------------------
\* What a transfer of k registers leaves, register by register.
LEMMA Transferred ==
  ASSUME NEW from \in Registers, NEW to \in Registers, NEW k \in Nat, k <= Whole
  PROVE  /\ Transfer(from, to, k) \in Registers
         /\ k >= 4 => Transfer(from, to, k).hours = from.hours
         /\ k < 4 => Transfer(from, to, k).month_century = to.month_century
         /\ k = Whole => Transfer(from, to, k) = from
<1>1. /\ Position("minutes") = 1 /\ Position("hours") = 2 /\ Position("date") = 3
      /\ Position("month_century") = 4 /\ Position("year") = 5
  BY DEF Position, Register, Whole
<1> DEFINE after == Transfer(from, to, k)
<1>2. DOMAIN to = {"minutes", "hours", "date", "month_century", "year"}
  BY DEF Registers
<1>3. after = [r \in {"minutes", "hours", "date", "month_century", "year"} |->
                 IF Position(r) <= k THEN from[r] ELSE to[r]]
  BY <1>2 DEF Transfer
<1> HIDE DEF after
<1>4. /\ after.minutes = IF 1 <= k THEN from.minutes ELSE to.minutes
      /\ after.hours = IF 2 <= k THEN from.hours ELSE to.hours
      /\ after.date = IF 3 <= k THEN from.date ELSE to.date
      /\ after.month_century = IF 4 <= k THEN from.month_century ELSE to.month_century
      /\ after.year = IF 5 <= k THEN from.year ELSE to.year
  BY <1>1, <1>3
<1>5. after = [minutes |-> after.minutes, hours |-> after.hours, date |-> after.date,
               month_century |-> after.month_century, year |-> after.year]
  BY <1>3
<1>6. /\ after.minutes \in 0 .. 255 /\ after.hours \in HourByte
      /\ after.date \in 0 .. 255 /\ after.month_century \in 0 .. 255
      /\ after.year \in 0 .. 255
  BY <1>4 DEF Registers
<1>7. after \in Registers
  BY <1>5, <1>6 DEF Registers
<1>8. ASSUME k = Whole PROVE after = from
  <2>1. from = [minutes |-> from.minutes, hours |-> from.hours, date |-> from.date,
                month_century |-> from.month_century, year |-> from.year]
    BY DEF Registers
  <2>2. QED
    BY <1>4, <1>5, <1>8, <2>1 DEF Whole
<1>9. QED
  BY <1>4, <1>7, <1>8 DEF after

LEMMA HourBytes ==
  /\ \A h \in 0 .. 23 : HourForm(h) \in HourByte /\ (HourForm(h) < 32 <=> h < 20)
  /\ \A b \in HourByte : HourRead(b) \in 0 .. 63 /\ (HourRead(b) < 24 <=> b < 32)
<1>1. ASSUME NEW h \in 0 .. 23
      PROVE  HourForm(h) \in HourByte /\ (HourForm(h) < 32 <=> h < 20)
  <2>1. CASE h <= 20
    <3>1. HourForm(h) = (h \div 10) * 16 + (h % 10)
      BY <2>1, DigitsOfByte DEF HourForm
    <3>2. QED
      BY <2>1, <3>1 DEF HourByte
  <2>2. CASE h > 20
    BY <2>2 DEF HourForm, HourByte
  <2>3. QED
    BY <2>1, <2>2
<1>2. ASSUME NEW b \in HourByte
      PROVE  HourRead(b) \in 0 .. 63 /\ (HourRead(b) < 24 <=> b < 32)
  <2>1. CASE b \in 0 .. 9
    BY <2>1 DEF HourRead
  <2>2. CASE b \in 16 .. 25
    BY <2>2 DEF HourRead
  <2>3. CASE b \in 32 .. 35
    BY <2>3 DEF HourRead
  <2>4. QED
    BY <1>2, <2>1, <2>2, <2>3 DEF HourByte
<1>3. QED
  BY <1>1, <1>2

\* The registers made of a date, and a date made of registers.
LEMMA ToRegisters ==
  ASSUME NEW c \in Date, c.hour < 24 PROVE CalendarToRtc(c) \in Registers
<1>1. \A n \in Nat : Bcd(n) \in 0 .. 255
  BY DEF Bcd
<1>2. /\ c.minute \in Nat /\ c.hour \in 0 .. 23 /\ c.date \in Nat
      /\ c.month \in Nat /\ c.year \in Nat
  BY DEF Date
<1>3. MonthForm(c.month, c.year) \in 0 .. 255
  <2>1. Bcd(c.month) \in Int /\ (((c.year - EpochYear) % 256) \div 100) * 128 \in Int
    BY <1>1, <1>2 DEF EpochYear
  <2>2. QED
    BY <2>1 DEF MonthForm
<1>4. YearForm(c.year) \in 0 .. 255
  <2> DEFINE base == IF (c.year - EpochYear) \div 100 = 0 THEN EpochYear
                     ELSE EpochYear + 100
             form == (((c.year - base) % 256) \div 10) * 16 + (c.year % 10)
  <2>1. base \in Int /\ YearForm(c.year) = form % 256
    BY DEF YearForm, EpochYear
  <2> HIDE DEF base
  <2>2. form \in Int
    BY <1>2, <2>1
  <2> HIDE DEF form
  <2>3. QED
    BY <2>1, <2>2
<1>5. QED
  BY <1>1, <1>2, <1>3, <1>4, HourBytes DEF CalendarToRtc, Registers

LEMMA ByteRead ==
  ASSUME NEW b \in Nat, b <= 255
  PROVE  /\ FromBcd(b) \in 0 .. 165 /\ MonthRead(b) \in 0 .. 25
         /\ (b % 16) + 10 * ((b \div 16) % 4) \in 0 .. 45
         /\ b \div 128 \in 0 .. 1
  BY DEF FromBcd, MonthRead

LEMMA YearFits == LastYear \in Nat /\ \A y \in Nat : y <= 3000 => y \in 0 .. LastYear
<1>1. LastYear \in Nat /\ 3000 <= LastYear
  BY SMT DEF LastYear, YearWidth
<1>2. QED
  BY <1>1

LEMMA ToFields ==
  ASSUME NEW r \in Registers, NEW old \in Fields
  PROVE  /\ RtcToCalendar(r, old) \in Fields
         /\ RtcToCalendar(r, old).hour = HourRead(r.hours)
         /\ RtcToCalendar(r, old).month = MonthRead(r.month_century)
         /\ RtcToCalendar(r, old) = RtcToCalendar(r, NoDate)
<1>1. (old.hour \div 64) % 2 = 0 /\ (NoDate.hour \div 64) % 2 = 0
  <2>1. old.hour \in 0 .. 63 /\ NoDate.hour = 0
    BY DEF Fields, NoDate
  <2>2. QED
    BY <2>1
<1>2. /\ r.minutes \in Nat /\ r.minutes <= 255 /\ r.date \in Nat /\ r.date <= 255
      /\ r.month_century \in Nat /\ r.month_century <= 255
      /\ r.year \in Nat /\ r.year <= 255 /\ r.hours \in HourByte
  BY DEF Registers
<1>3. /\ FromBcd(r.minutes) \in 0 .. 165 /\ FromBcd(r.year) \in 0 .. 165
      /\ MonthRead(r.month_century) \in 0 .. 25
      /\ (r.date % 16) + 10 * ((r.date \div 16) % 4) \in 0 .. 45
      /\ r.month_century \div 128 \in 0 .. 1
  <2>1. FromBcd(r.minutes) \in 0 .. 165
    BY <1>2, ByteRead
  <2>2. FromBcd(r.year) \in 0 .. 165
    BY <1>2, ByteRead
  <2>3. MonthRead(r.month_century) \in 0 .. 25
    BY <1>2, ByteRead
  <2>4. (r.date % 16) + 10 * ((r.date \div 16) % 4) \in 0 .. 45
    BY <1>2, ByteRead
  <2>5. r.month_century \div 128 \in 0 .. 1
    BY <1>2, ByteRead
  <2>6. QED
    BY <2>1, <2>2, <2>3, <2>4, <2>5
<1>4. HourRead(r.hours) \in 0 .. 63
  BY <1>2, HourBytes
<1> DEFINE c == [minute |-> FromBcd(r.minutes), hour |-> HourRead(r.hours),
                 date |-> (r.date % 16) + 10 * ((r.date \div 16) % 4),
                 month |-> MonthRead(r.month_century),
                 year |-> EpochYear + FromBcd(r.year) + 100 * (r.month_century \div 128)]
<1>5. RtcToCalendar(r, old) = c /\ RtcToCalendar(r, NoDate) = c
  BY <1>1 DEF RtcToCalendar
<1>6. EpochYear + FromBcd(r.year) + 100 * (r.month_century \div 128) \in 0 .. LastYear
  <2> DEFINE u == FromBcd(r.year)
             century == r.month_century \div 128
  <2>3. u \in 0 .. 165 /\ century \in 0 .. 1
    BY <1>3
  <2> HIDE DEF u, century
  <2>4. EpochYear + u + 100 * century \in Nat /\ EpochYear + u + 100 * century <= 3000
    BY <2>3 DEF EpochYear
  <2>5. QED
    BY <2>4, YearFits DEF u, century
<1>7. c \in Fields
  <2>1. /\ c.minute \in 0 .. 255 /\ c.hour \in 0 .. 63 /\ c.date \in 0 .. 255
        /\ c.month \in 0 .. 255
    BY <1>3, <1>4
  <2>2. c.year \in 0 .. LastYear
    BY <1>6
  <2> HIDE DEF c
  <2>3. c = [minute |-> c.minute, hour |-> c.hour, date |-> c.date,
             month |-> c.month, year |-> c.year]
    BY DEF c
  <2>4. QED
    BY <2>1, <2>2, <2>3 DEF Fields
<1>8. QED
  BY <1>5, <1>7

LEMMA FieldsAreDates == ASSUME NEW c \in Fields PROVE c \in Date
<1>1. c.minute \in Nat /\ c.hour \in Nat /\ c.date \in Nat /\ c.month \in Nat
      /\ c.year \in Nat
  BY YearFits DEF Fields
<1>2. c = [minute |-> c.minute, hour |-> c.hour, date |-> c.date,
           month |-> c.month, year |-> c.year]
  BY DEF Fields
<1>3. QED
  BY <1>1, <1>2 DEF Date

LEMMA TimeIsNat ==
  ASSUME NEW c \in Date PROVE DateToTimestamp(c) \in Nat
<1>1. CASE ValidDate(c)
  <2>1. /\ c.minute \in Nat /\ c.hour \in Nat /\ c.date - 1 \in Nat
        /\ c.month \in 1 .. 12 /\ c.year \in 1970 .. 2105
    BY <1>1, ValidRanges
  <2>2. DaysBeforeYear(c.year) \in Nat /\ DaysBeforeMonth(c.month, Leap(c.year)) \in Nat
    <3>1. c.year \in Nat /\ c.year >= 1970 /\ Leap(c.year) \in BOOLEAN
      BY <2>1, LeapBoolean
    <3>2. QED
      BY <2>1, <3>1, YearBounds, MonthAfter
  <2>3. QED
    BY <1>1, <2>1, <2>2 DEF DateToTimestamp, Day, Hour
<1>2. CASE ~ValidDate(c)
  BY <1>2 DEF DateToTimestamp
<1>3. QED
  BY <1>1, <1>2

\* The date the program puts into the chip.
LEMMA InitialDateHolds ==
  /\ InitialDate \in Registers /\ InitialDate.hours < 32
  /\ \E c \in Date : /\ ValidDate(c) /\ DateToTimestamp(c) = InitialTime
                     /\ InitialDate = CalendarToRtc(c)
  /\ InitialTime \in Nat /\ InitialTime <= Threshold
<1> DEFINE c == [minute |-> 33, hour |-> 16, date |-> 18, month |-> 10, year |-> 2013]
<1>1. c \in Date /\ InitialTime = DateToTimestamp(c)
  BY DEF Date, InitialTime
<1>2. ValidDate(c)
  <2>1. MonthDays(Leap(2013))[10] = 31
    BY DEF MonthDays, Leap
  <2>2. QED
    BY <2>1 DEF ValidDate, EpochYear
<1>3. InitialTime = 23035233
  <2>1. ~Leap(c.year)
    BY DEF Leap
  <2>2. DaysBeforeYear(c.year) = 15706
    BY DEF DaysBeforeYear, EpochYear
  <2>3. DaysBeforeMonth(c.month, Leap(c.year)) = 273
    BY <2>1 DEF DaysBeforeMonth
  <2>4. c.date = 18 /\ c.hour = 16 /\ c.minute = 33
    OBVIOUS
  <2> HIDE DEF c
  <2>5. DateToTimestamp(c) = Day * 15996 + Hour * 16 + 33
    BY <1>2, <2>1, <2>2, <2>3, <2>4 DEF DateToTimestamp, Day, Hour
  <2>6. QED
    BY <1>1, <2>5, SMT DEF Day, Hour
<1>4. CalendarToRtc(c) = [minutes |-> 51, hours |-> 22, date |-> 24,
                          month_century |-> 16, year |-> 67]
  BY DEF CalendarToRtc, Bcd, HourForm, MonthForm, YearForm, EpochYear
<1>5. InitialDate = [minutes |-> 51, hours |-> 22, date |-> 24,
                 month_century |-> 16, year |-> 67]
  BY DEF InitialDate
<1>6. InitialDate \in Registers
  BY <1>5 DEF Registers, HourByte
<1>7. QED
  <2>1. InitialTime \in Nat /\ InitialTime <= Threshold
    BY <1>3, SMT DEF Threshold
  <2>2. InitialDate.hours < 32
    BY <1>5
  <2>3. QED
    BY <1>1, <1>2, <1>4, <1>5, <1>6, <2>1, <2>2

\* A date whose form has no twenty is read back as it was.
LEMMA ReadBack ==
  ASSUME NEW c \in Date, ValidDate(c), CalendarToRtc(c).hours < 32
  PROVE  RtcToCalendar(CalendarToRtc(c), NoDate) = c
<1>1. c.hour \in 0 .. 23 /\ HourForm(c.hour) < 32
  BY ValidRanges DEF CalendarToRtc
<1>2. c.hour < 20 /\ NoDate.hour \in 0 .. 63
  BY <1>1, HourBytes DEF NoDate
<1>3. QED
  BY <1>2, DateSurvivesChip

-----------------------------------------------------------------------------
LEMMA InitTyped == Init => IInv
<1> SUFFICES ASSUME Init PROVE IInv
  OBVIOUS
<1>1. NoRegisters \in Registers /\ rtc \in Registers
  <2>1. NoRegisters \in Registers
    <3>1. 0 \in HourByte
      BY DEF HourByte
    <3>2. QED
      BY <3>1 DEF NoRegisters, Registers
  <2>2. \A r \in Registers : [r EXCEPT !.date = 1] \in Registers
    BY DEF Registers
  <2>3. \A r \in Registers : [r EXCEPT !.month_century = 1] \in Registers
    BY DEF Registers
  <2> DEFINE first == [NoRegisters EXCEPT !.date = 1]
  <2>4. rtc = [first EXCEPT !.month_century = 1]
    BY DEF Init
  <2>5. first \in Registers
    BY <2>1, <2>2
  <2> HIDE DEF first
  <2>6. QED
    BY <2>1, <2>3, <2>4, <2>5
<1>2. cal \in Fields /\ held \in Held
  BY YearFits DEF Init, NoDate, NoneHeld, Fields, Held
<1>3. Types
  BY <1>1, <1>2, ClockAssumption DEF Init, Types
<1>4. Loops /\ Agreed /\ Boot
  BY DEF Init, Loops, Counting, Converting, Agreed, Boot
<1>5. QED
  BY <1>3, <1>4 DEF IInv

LEMMA NotWriting ==
  ASSUME Agreed, pc \notin Setting PROVE agreed # "writing"
  BY DEF Agreed, Undisturbed

\* Steps of the boot leave the chip and its history alone.
LEMMA ChipAlone ==
  ASSUME Agreed, pc \notin Setting, pc' # "idle", UNCHANGED <<rtc, kept>>,
         agreed' \in {agreed, "no"}
  PROVE  Agreed'
<1>1. agreed' # "writing"
  BY NotWriting
<1>2. ASSUME agreed' = "yes" PROVE HoldsKept(rtc)'
  <2>1. HoldsKept(rtc)
    BY <1>2 DEF Agreed
  <2>2. QED
    BY <2>1 DEF HoldsKept
<1>3. QED
  BY <1>1, <1>2 DEF Agreed

LEMMA ReadTyped ==
  ASSUME Types, NEW k \in Transfers, regs' = Transfer(rtc, regs, k),
         cal' = RtcToCalendar(regs', cal), secs' = DateToTimestamp(cal')
  PROVE  /\ regs' \in Registers /\ cal' \in Fields /\ secs' \in Nat
         /\ cal' = RtcToCalendar(regs', NoDate)
         /\ cal'.hour = HourRead(regs'.hours)
         /\ cal'.month = MonthRead(regs'.month_century)
         /\ k >= 4 => regs'.hours = rtc.hours
         /\ k < 4 => regs'.month_century = regs.month_century
         /\ k = Whole => regs' = rtc
<1>1. k \in Nat /\ k <= Whole
  BY ClockAssumption DEF Whole
<1>2. /\ regs' \in Registers
      /\ k >= 4 => regs'.hours = rtc.hours
      /\ k < 4 => regs'.month_century = regs.month_century
      /\ k = Whole => regs' = rtc
  <2> DEFINE after == Transfer(rtc, regs, k)
  <2>1. rtc \in Registers /\ regs \in Registers
    BY DEF Types
  <2>2. /\ after \in Registers
        /\ k >= 4 => after.hours = rtc.hours
        /\ k < 4 => after.month_century = regs.month_century
        /\ k = Whole => after = rtc
    <3>1. after \in Registers /\ (k = Whole => after = rtc)
      BY <1>1, <2>1, Transferred
    <3>2. k >= 4 => after.hours = rtc.hours
      BY <1>1, <2>1, Transferred, Zenon
    <3>3. k < 4 => after.month_century = regs.month_century
      BY <1>1, <2>1, Transferred, Zenon
    <3>4. QED
      BY <3>1, <3>2, <3>3
  <2>3. regs' = after
    OBVIOUS
  <2> HIDE DEF after
  <2>4. QED
    BY <2>2, <2>3
<1>3. /\ cal' \in Fields /\ cal' = RtcToCalendar(regs', NoDate)
      /\ cal'.hour = HourRead(regs'.hours)
      /\ cal'.month = MonthRead(regs'.month_century)
  <2>1. cal \in Fields
    BY DEF Types
  <2>2. QED
    BY <1>2, <2>1, ToFields
<1>4. secs' \in Nat
  BY <1>3, FieldsAreDates, TimeIsNat
<1>5. QED
  BY <1>2, <1>3, <1>4

LEMMA FirstReadKeeps ==
  ASSUME IInv, NEW k \in Transfers, FirstRead(k) PROVE IInv'
<1> USE DEF IInv
<1>1. /\ regs' \in Registers /\ cal' \in Fields /\ secs' \in Nat
      /\ cal' = RtcToCalendar(regs', NoDate)
      /\ cal'.hour = HourRead(regs'.hours)
      /\ cal'.month = MonthRead(regs'.month_century)
      /\ k >= 4 => regs'.hours = rtc.hours
      /\ k < 4 => regs'.month_century = regs.month_century
      /\ k = Whole => regs' = rtc
  BY ReadTyped DEF FirstRead
<1>2. Types'
  BY <1>1 DEF FirstRead, Types, Booting, history
<1>3. Loops'
  BY DEF FirstRead, Loops, Counting, Converting, history
<1>4. Agreed'
  BY ChipAlone DEF FirstRead, Setting, Converting, history
<1>5. ASSUME secs' # 0 PROVE rtc'.hours < 32
  <2>1. ValidDate(cal')
    BY <1>5 DEF FirstRead, DateToTimestamp
  <2>2. MonthRead(regs'.month_century) # 0 /\ cal'.hour < 24
    BY <1>1, <2>1 DEF ValidDate
  <2>3. regs.month_century = 0 /\ MonthRead(0) = 0
    BY DEF FirstRead, Boot, NoRegisters, MonthRead
  <2>4. k >= 4
    <3>1. k \in 0 .. Whole
      BY ClockAssumption
    <3>2. k \in Int
      BY <3>1 DEF Whole
    <3>3. QED
      BY <1>1, <2>2, <2>3, <3>2
  <2>5. regs'.hours = rtc.hours /\ rtc.hours \in HourByte
    BY <1>1, <2>4 DEF Types, Registers
  <2>6. rtc.hours < 32
    BY <1>1, <2>2, <2>5, HourBytes
  <2>7. QED
    BY <2>6 DEF FirstRead
<1>6. ASSUME clean' PROVE secs' = TimeOfChip'
  <2>1. k = Whole
    BY <1>6, Zenon DEF FirstRead
  <2>2. QED
    BY <1>1, <2>1 DEF FirstRead, TimeOfChip
<1>7. Boot'
  BY <1>5, <1>6 DEF FirstRead, Boot
<1>8. QED
  BY <1>2, <1>3, <1>4, <1>7

LEMMA ResetDateKeeps ==
  ASSUME IInv, NEW k \in Transfers, ResetDate(k) PROVE IInv'
<1> USE DEF IInv
<1>1. k \in Nat /\ k <= Whole
  BY ClockAssumption DEF Whole
<1>2. InitialDate \in Registers
  BY InitialDateHolds
<1>3. rtc' = Transfer(InitialDate, rtc, k) /\ regs' = InitialDate
  BY DEF ResetDate
<1>4. rtc' \in Registers /\ (k = Whole => rtc' = InitialDate)
  <2>1. rtc \in Registers
    BY DEF Types
  <2>2. QED
    BY <1>1, <1>2, <1>3, <2>1, Transferred
<1>5. Types'
  BY <1>2, <1>3, <1>4, InitialDateHolds DEF ResetDate, Types, Booting
<1>6. Loops'
  BY DEF ResetDate, Loops, Counting, Converting
<1>7. PICK c \in Date : /\ ValidDate(c) /\ DateToTimestamp(c) = InitialTime
                        /\ InitialDate = CalendarToRtc(c)
  BY InitialDateHolds
<1>8. Agreed'
  <2>1. ASSUME agreed' = "yes" PROVE HoldsKept(rtc)'
    <3>1. rtc' = CalendarToRtc(c) /\ kept' = InitialTime
      BY <1>4, <1>7, <2>1 DEF ResetDate
    <3>2. QED
      BY <1>7, <3>1 DEF HoldsKept
  <2>2. QED
    BY <2>1 DEF ResetDate, Agreed
<1>9. ASSUME clean' PROVE TimeOfChip' >= InitialTime
  <2>1. rtc' = CalendarToRtc(c)
    <3>1. k = Whole
      BY <1>9, Zenon DEF ResetDate
    <3>2. QED
      BY <1>4, <1>7, <3>1
  <2>2. CalendarToRtc(c).hours < 32
    BY <1>7, InitialDateHolds
  <2>3. RtcToCalendar(rtc', NoDate) = c
    BY <1>7, <2>1, <2>2, ReadBack
  <2>4. TimeOfChip' = InitialTime
    BY <1>7, <2>3 DEF TimeOfChip
  <2>5. QED
    BY <2>4, InitialDateHolds
<1>10. ASSUME agreed' = "yes" PROVE rtc'.hours < 32
  BY <1>4, <1>10, InitialDateHolds DEF ResetDate
<1>11. Boot'
  BY <1>9, <1>10 DEF ResetDate, Boot
<1>12. QED
  BY <1>5, <1>6, <1>8, <1>11

LEMMA DateStandsKeeps ==
  ASSUME IInv, DateStands PROVE IInv'
<1> USE DEF IInv
<1>1. Types'
  BY DEF DateStands, Types, Booting, history
<1>2. Loops'
  BY DEF DateStands, Loops, Counting, Converting, history
<1>3. Agreed'
  BY ChipAlone DEF DateStands, Setting, Converting, history
<1>4. secs >= Threshold /\ Threshold > 0 /\ secs \in Nat /\ Threshold \in Nat
  <2>1. Threshold \in Nat /\ Threshold > 0
    BY SMT DEF Threshold
  <2>2. QED
    BY <2>1 DEF DateStands, NoTimeOrOld, Types
<1>5. rtc'.hours < 32
  <2>1. secs # 0
    BY <1>4
  <2>2. QED
    BY <2>1 DEF DateStands, Boot
<1>6. ASSUME clean' PROVE TimeOfChip' >= InitialTime
  <2>1. secs = TimeOfChip /\ TimeOfChip' = TimeOfChip
    BY <1>6 DEF DateStands, Boot, TimeOfChip
  <2>2. Threshold \in Nat /\ secs \in Nat
    BY SMT DEF Threshold, Types
  <2>3. QED
    BY <1>4, <2>1, <2>2, InitialDateHolds
<1>7. Boot'
  BY <1>5, <1>6 DEF DateStands, Boot
<1>8. QED
  BY <1>1, <1>2, <1>3, <1>7

LEMMA SecondReadKeeps ==
  ASSUME IInv, NEW k \in Transfers, SecondRead(k) PROVE IInv'
<1> USE DEF IInv
<1>1. /\ regs' \in Registers /\ cal' \in Fields /\ secs' \in Nat
      /\ cal' = RtcToCalendar(regs', NoDate)
      /\ k = Whole => regs' = rtc
  BY ReadTyped DEF SecondRead
<1>2. Types'
  BY <1>1 DEF SecondRead, Types
<1>3. Loops'
  BY DEF SecondRead, Loops, Counting, Converting
<1>4. agreed # "writing"
  BY NotWriting DEF SecondRead, Setting, Converting
<1>5. ASSUME agreed' = "yes" PROVE HoldsKept(rtc)' /\ secs' = kept'
  <2>1. k = Whole /\ agreed = "yes"
    BY <1>5 DEF SecondRead
  <2>2. PICK c \in Date : /\ ValidDate(c) /\ DateToTimestamp(c) = kept
                          /\ rtc = CalendarToRtc(c)
    BY <2>1 DEF Agreed, HoldsKept
  <2>3. CalendarToRtc(c).hours < 32
    BY <2>1, <2>2 DEF SecondRead, Boot
  <2>4. cal' = c
    BY <1>1, <2>1, <2>2, <2>3, ReadBack
  <2>5. QED
    BY <2>2, <2>4 DEF SecondRead, HoldsKept
<1>6. Agreed'
  BY <1>4, <1>5 DEF SecondRead, Agreed
<1>7. Boot'
  BY DEF SecondRead, Boot
<1>8. QED
  BY <1>2, <1>3, <1>6, <1>7

LEMMA SetTimeKeeps ==
  ASSUME IInv, NEW s \in Stamp, SetTime(s) PROVE IInv'
<1> USE DEF IInv
<1>1. s \in Nat /\ s \div Day < 49673
  BY ClockAssumption
<1>2. Types'
  BY <1>1, ClockAssumption DEF SetTime, Types, Setting, Converting
<1>3. Loops'
  BY <1>1 DEF SetTime, Loops, Counting, Converting
<1>4. gps = "idle" => Agreed'
  BY <1>1 DEF SetTime, Agreed, Undisturbed, Counting, Setting, Converting
<1>5. gps = "idle"
  BY DEF SetTime, Loops, Counting, Converting, Types
<1>6. Boot'
  BY DEF SetTime, Boot
<1>7. QED
  BY <1>2, <1>3, <1>4, <1>5, <1>6

-----------------------------------------------------------------------------
(***************************************************************************)
(* The conversion.  Undisturbed, it counts off years and months; disturbed *)
(* it keeps the fields in their widths.                                    *)
(***************************************************************************)
LEMMA ConvertKeeps ==
  ASSUME IInv, NEW from \in Converting, NEW to \in Converting \cup {"form"},
         Convert(from, to), cal' \in Fields, held' \in Held, day' \in Nat,
         to \in Counting \cup {"form"} => cal'.hour < 24,
         agreed = "writing" => Undisturbed'
  PROVE  IInv'
<1> USE DEF IInv
<1>1. /\ pc = from /\ pc' = to /\ gps = "idle"
      /\ UNCHANGED <<rtc, regs, secs, gps, clean, agreed, kept, sets, hours>>
  BY DEF Convert, history
<1>2. /\ from \notin {"off", "check", "reread", "idle"}
      /\ to \notin {"off", "check", "reread", "idle"}
  BY DEF Converting
<1>3. Types'
  BY <1>1 DEF Types, Setting, Converting
<1>4. Loops'
  BY <1>1 DEF Loops, Counting, Converting
<1>5. Agreed'
  <2>1. HoldsKept(rtc) => HoldsKept(rtc)'
    BY <1>1 DEF HoldsKept
  <2>2. QED
    BY <1>1, <1>2, <2>1 DEF Agreed
<1>6. Boot'
  BY <1>1, <1>2 DEF Boot
<1>7. QED
  BY <1>3, <1>4, <1>5, <1>6

\* One field changed.
LEMMA MonthSet ==
  ASSUME NEW c \in Fields, NEW m \in Nat, m <= 255,
         NEW after, after = [c EXCEPT !.month = m]
  PROVE  /\ after \in Fields /\ after.month = m /\ after.hour = c.hour
         /\ after.minute = c.minute /\ after.date = c.date /\ after.year = c.year
  BY DEF Fields

LEMMA YearSet ==
  ASSUME NEW c \in Fields, NEW y \in 0 .. LastYear, NEW after, after = [c EXCEPT !.year = y]
  PROVE  /\ after \in Fields /\ after.year = y /\ after.hour = c.hour
         /\ after.minute = c.minute /\ after.date = c.date /\ after.month = c.month
  BY DEF Fields

LEMMA DateSet ==
  ASSUME NEW c \in Fields, NEW d \in Nat, d <= 255,
         NEW after, after = [c EXCEPT !.date = d]
  PROVE  /\ after \in Fields /\ after.date = d /\ after.hour = c.hour
         /\ after.minute = c.minute /\ after.month = c.month /\ after.year = c.year
  BY DEF Fields

LEMMA MinuteSet ==
  ASSUME NEW c \in Fields, NEW d \in Nat, d <= 255,
         NEW after, after = [c EXCEPT !.minute = d]
  PROVE  /\ after \in Fields /\ after.minute = d /\ after.hour = c.hour
         /\ after.date = c.date /\ after.month = c.month /\ after.year = c.year
  BY DEF Fields

LEMMA HourSet ==
  ASSUME NEW c \in Fields, NEW d \in Nat, d <= 63,
         NEW after, after = [c EXCEPT !.hour = d]
  PROVE  /\ after \in Fields /\ after.hour = d /\ after.minute = c.minute
         /\ after.date = c.date /\ after.month = c.month /\ after.year = c.year
  BY DEF Fields

LEMMA HeldYearSet ==
  ASSUME NEW h \in Held, NEW y \in 0 .. LastYear, NEW after, after = [h EXCEPT !.year = y]
  PROVE  after \in Held /\ after.year = y /\ after.month = h.month
  BY DEF Held

LEMMA HeldMonthSet ==
  ASSUME NEW h \in Held, NEW m \in Nat, m <= 255, NEW after, after = [h EXCEPT !.month = m]
  PROVE  after \in Held /\ after.month = m /\ after.year = h.year
  BY DEF Held

LEMMA HeldBothSet ==
  ASSUME NEW y \in 0 .. LastYear, NEW m \in Nat, m <= 255,
         NEW after, after = [year |-> y, month |-> m]
  PROVE  after \in Held /\ after.year = y /\ after.month = m
  BY DEF Held

\* What the loads give has the types of the fields.
LEMMA LoadsTyped ==
  ASSUME Types
  PROVE  /\ \A y \in Years : y \in 0 .. LastYear /\ y \in Nat
         /\ \A m \in Months : m \in Nat /\ m <= 255
<1>1. cal \in Fields /\ held \in Held
  BY DEF Types
<1>2. cal.year \in 0 .. LastYear /\ held.year \in 0 .. LastYear
  BY <1>1 DEF Fields, Held
<1>3. cal.month \in 0 .. 255 /\ held.month \in 0 .. 255
  BY <1>1 DEF Fields, Held
<1>4. LastYear \in Nat
  BY YearFits
<1>5. QED
  BY <1>2, <1>3, <1>4 DEF Years, Months

LEMMA YearWraps ==
  ASSUME NEW y \in Nat
  PROVE  /\ (y + 1) % YearWidth \in 0 .. LastYear
         /\ y <= 3000 => (y + 1) % YearWidth = y + 1
<1>1. YearWidth \in Nat /\ 3001 < YearWidth
  BY SMT DEF YearWidth
<1>2. (y + 1) % YearWidth \in 0 .. YearWidth - 1
  BY <1>1
<1>3. y <= 3000 => (y + 1) % YearWidth = y + 1
  BY <1>1
<1>4. QED
  BY <1>2, <1>3 DEF LastYear

-----------------------------------------------------------------------------
LEMMA NextYear ==
  ASSUME NEW y \in Nat, y >= 1970, y <= 2105, NEW total \in Nat, total < 49673,
         NEW d \in Nat, total = DaysBeforeYear(y) + d, d >= YearDays(y)
  PROVE  /\ y < 2105 /\ total = DaysBeforeYear(y + 1) + (d - YearDays(y))
         /\ (d - YearDays(y)) % DayWidth = d - YearDays(y)
<1>1. DaysBeforeYear(y + 1) = DaysBeforeYear(y) + YearDays(y) /\ DaysBeforeYear(y) \in Nat
  BY YearAfter, YearBounds
<1>2. YearDays(y) \in Nat
  BY DEF YearDays
<1>3. total = DaysBeforeYear(y + 1) + (d - YearDays(y))
  BY <1>1, <1>2
<1>4. y # 2105
  <2>1. ASSUME y = 2105 PROVE FALSE
    <3>1. DaysBeforeYear(y + 1) = 49673
      BY <2>1, YearsEnds
    <3>2. QED
      BY <1>2, <1>3, <3>1
  <2>2. QED
    BY <2>1
<1>5. d - YearDays(y) \in Nat /\ d - YearDays(y) < DayWidth /\ DayWidth \in Nat
  BY <1>1, <1>2, ClockAssumption
<1> DEFINE less == d - YearDays(y)
<1>6. less \in Nat /\ less < DayWidth /\ DayWidth \in Nat
  BY <1>5
<1> HIDE DEF less
<1>7. less % DayWidth = less
  BY <1>6
<1>8. QED
  BY <1>3, <1>4, <1>7 DEF less

LEMMA EntryBehind ==
  ASSUME NEW at \in Nat, at >= 24, at <= 267
  PROVE  Memory(at) \in 0 .. 255
<1>1. ~(at < 12) /\ ~(at < 24) /\ at \in 24 .. 267
  OBVIOUS
<1>2. Memory(at) = Beyond[at]
  BY <1>1, Zenon DEF Memory
<1> DEFINE Places == 24 .. 267
           Bytes == 0 .. 255
<1>3. Beyond \in [Places -> Bytes] /\ at \in Places
  BY <1>1, BeyondAssumption, Zenon
<1>4. Beyond[at] \in Bytes
  <2> HIDE DEF Places, Bytes
  <2>1. QED
    BY <1>3, Zenon
<1>5. QED
  BY <1>2, <1>4, Zenon

LEMMA EntryFirst ==
  ASSUME NEW at \in Nat, at < 12
  PROVE  /\ Memory(at) = MonthDays(FALSE)[at + 1]
         /\ Memory(at) \in 0 .. 255
<1>1. Memory(at) = MonthDays(FALSE)[at + 1]
  BY Zenon DEF Memory
<1>2. at + 1 \in 1 .. 12
  OBVIOUS
<1>3. MonthDays(FALSE)[at + 1] \in 28 .. 31
  BY <1>2, MonthAfter, Zenon
<1>4. 28 .. 31 \subseteq 0 .. 255
  OBVIOUS
<1>5. QED
  BY <1>1, <1>3, <1>4, Zenon

LEMMA EntrySecond ==
  ASSUME NEW at \in Nat, at >= 12, at < 24
  PROVE  /\ Memory(at) = MonthDays(TRUE)[at - 11]
         /\ Memory(at) \in 0 .. 255
<1>1. ~(at < 12) /\ at - 11 \in 1 .. 12
  OBVIOUS
<1>2. Memory(at) = MonthDays(TRUE)[at - 11]
  BY <1>1, Zenon DEF Memory
<1>3. MonthDays(TRUE)[at - 11] \in 28 .. 31
  BY <1>1, MonthAfter, Zenon
<1>4. 28 .. 31 \subseteq 0 .. 255
  OBVIOUS
<1>5. QED
  BY <1>2, <1>3, <1>4, Zenon

LEMMA Entry ==
  ASSUME NEW leap \in BOOLEAN, NEW m \in Nat, m <= 255
  PROVE  /\ MonthTable(leap, m) \in 0 .. 255
         /\ m < 12 => MonthTable(leap, m) = MonthDays(leap)[m + 1]
<1>1. CASE leap = FALSE
  <2>1. MonthTable(FALSE, m) = Memory(m)
    <3>1. m + (IF FALSE THEN 12 ELSE 0) = m
      OBVIOUS
    <3>2. QED
      BY <3>1, Zenon DEF MonthTable
  <2>2. CASE m < 12
    BY <1>1, <2>1, <2>2, EntryFirst, Zenon
  <2>3. CASE ~(m < 12)
    <3>1. Memory(m) \in 0 .. 255
      <4>1. CASE m < 24
        <5>1. m >= 12
          BY <2>3
        <5>2. QED
          BY <4>1, <5>1, EntrySecond, Zenon
      <4>2. CASE ~(m < 24)
        <5>1. m >= 24 /\ m <= 267
          BY <4>2
        <5>2. QED
          BY <5>1, EntryBehind, Zenon
      <4>3. QED
        BY <4>1, <4>2
    <3>2. QED
      BY <1>1, <2>1, <2>3, <3>1, Zenon
  <2>4. QED
    BY <2>2, <2>3, Zenon
<1>2. CASE leap = TRUE
  <2>1. PICK at \in Nat : at = m + 12
    OBVIOUS
  <2>2. MonthTable(TRUE, m) = Memory(at)
    <3>1. m + (IF TRUE THEN 12 ELSE 0) = at
      BY <2>1
    <3>2. QED
      BY <3>1, Zenon DEF MonthTable
  <2>3. CASE m < 12
    <3>1. at >= 12 /\ at < 24 /\ at - 11 = m + 1
      BY <2>1, <2>3
    <3>2. QED
      BY <1>2, <2>2, <3>1, EntrySecond, Zenon
  <2>4. CASE ~(m < 12)
    <3>1. at >= 24 /\ at <= 267
      BY <2>1, <2>4
    <3>2. QED
      BY <1>2, <2>2, <2>4, <3>1, EntryBehind, Zenon
  <2>5. QED
    BY <2>3, <2>4, Zenon
<1>3. QED
  BY <1>1, <1>2, Zenon

LEMMA NextMonth ==
  ASSUME NEW y \in Nat, NEW m \in Nat, m <= 11, NEW d \in Nat,
         DaysBeforeMonth(m + 1, Leap(y)) + d < YearDays(y),
         d >= MonthDays(Leap(y))[m + 1], d < DayWidth
  PROVE  /\ m < 11 /\ (d - MonthDays(Leap(y))[m + 1]) % DayWidth = d - MonthDays(Leap(y))[m + 1]
         /\ d - MonthDays(Leap(y))[m + 1] \in Nat
         /\ DaysBeforeMonth(m + 1, Leap(y)) \in Nat
         /\ DaysBeforeMonth(m + 2, Leap(y))
              = DaysBeforeMonth(m + 1, Leap(y)) + MonthDays(Leap(y))[m + 1]
<1>1. PICK n \in 1 .. 12 : n = m + 1
  OBVIOUS
<1>2. Leap(y) \in BOOLEAN
  BY LeapBoolean
<1> DEFINE length == MonthDays(Leap(y))[n]
           before == DaysBeforeMonth(n, Leap(y))
           up == DaysBeforeMonth(n + 1, Leap(y))
<1>3. length \in 28 .. 31 /\ before \in Nat /\ up = before + length
  BY <1>2, MonthAfter
<1>4. n = 12 => up = YearDays(y)
  BY MonthsEnds
<1>5. YearDays(y) \in Nat
  BY DEF YearDays
<1>6. before + d < YearDays(y) /\ d >= length
  BY <1>1
<1>7. n + 1 = m + 2
  BY <1>1
<1> DEFINE less == d - length
<1> HIDE DEF before, up, length
<1>8. m < 11 /\ less \in Nat /\ less < DayWidth
  BY <1>1, <1>3, <1>4, <1>5, <1>6, ClockAssumption
<1> HIDE DEF less
<1>9. less % DayWidth = less
  BY <1>8, ClockAssumption
<1>10. QED
  BY <1>1, <1>3, <1>7, <1>8, <1>9 DEF before, up, length, less

-----------------------------------------------------------------------------
LEMMA StoreYearKeeps ==
  ASSUME IInv, StoreYear PROVE IInv'
<1> USE DEF IInv
<1>1. /\ Convert("year", "month") /\ day' = day
      /\ cal' = [cal EXCEPT !.year = EpochYear] /\ held' = [held EXCEPT !.year = EpochYear]
  BY DEF StoreYear
<1>2. cal \in Fields /\ held \in Held /\ day \in Nat /\ EpochYear \in 0 .. LastYear
  BY YearFits DEF Types, EpochYear
<1>3. /\ cal' \in Fields /\ cal'.year = EpochYear /\ held' \in Held /\ held'.year = EpochYear
  BY <1>1, <1>2, YearSet, HeldYearSet
<1>4. ASSUME agreed = "writing" PROVE Undisturbed'
  <2>1. /\ pc = "year" /\ pc' = "month" /\ gps' = "idle" /\ secs' = secs /\ kept' = kept
    BY <1>1 DEF Convert, history
  <2>2. day = kept /\ secs = kept /\ kept \div Day < 49673
    BY <1>4, <2>1 DEF Agreed, Undisturbed, Converting, Counting
  <2>3. QED
    BY <1>1, <1>3, <2>1, <2>2 DEF Undisturbed, Setting, Converting, Counting
<1>5. QED
  BY <1>1, <1>2, <1>3, <1>4, ConvertKeeps DEF Converting, Counting

LEMMA StoreMonthKeeps ==
  ASSUME IInv, StoreMonth PROVE IInv'
<1> USE DEF IInv
<1>1. /\ Convert("month", "minute") /\ day' = day
      /\ cal' = [cal EXCEPT !.month = 0] /\ held' = [held EXCEPT !.month = 0]
  BY DEF StoreMonth
<1>2. cal \in Fields /\ held \in Held /\ day \in Nat /\ 0 \in 0 .. LastYear
  BY YearFits DEF Types
<1>3. /\ cal' \in Fields /\ cal'.month = 0 /\ held' \in Held /\ held'.month = 0
      /\ cal'.year = cal.year /\ held'.year = held.year
  BY <1>1, <1>2, MonthSet, HeldMonthSet
<1>4. ASSUME agreed = "writing" PROVE Undisturbed'
  <2>1. /\ pc = "month" /\ pc' = "minute" /\ gps' = "idle" /\ secs' = secs /\ kept' = kept
    BY <1>1 DEF Convert, history
  <2>2. /\ day = kept /\ secs = kept /\ kept \div Day < 49673
        /\ cal.year = EpochYear /\ held.year = cal.year
    BY <1>4, <2>1 DEF Agreed, Undisturbed, Converting, Counting
  <2>3. QED
    BY <1>1, <1>3, <2>1, <2>2 DEF Undisturbed, Setting, Converting, Counting
<1>5. QED
  BY <1>1, <1>2, <1>3, <1>4, ConvertKeeps DEF Converting, Counting

LEMMA StoreMinuteKeeps ==
  ASSUME IInv, StoreMinute PROVE IInv'
<1> USE DEF IInv
<1>1. /\ Convert("minute", "hour") /\ day' = day /\ held' = held
      /\ cal' = [cal EXCEPT !.minute = day % Hour]
  BY DEF StoreMinute
<1>2. /\ cal \in Fields /\ held \in Held /\ day \in Nat
      /\ day % Hour \in Nat /\ day % Hour <= 255
  BY DEF Types, Hour
<1>3. /\ cal' \in Fields /\ cal'.minute = day % Hour
      /\ cal'.month = cal.month /\ cal'.year = cal.year
  BY <1>1, <1>2, MinuteSet
<1>4. ASSUME agreed = "writing" PROVE Undisturbed'
  <2>1. /\ pc = "minute" /\ pc' = "hour" /\ gps' = "idle" /\ secs' = secs /\ kept' = kept
    BY <1>1 DEF Convert, history
  <2>2. /\ day = kept /\ secs = kept /\ kept \div Day < 49673
        /\ cal.year = EpochYear /\ held.year = cal.year
        /\ cal.month = 0 /\ held.month = cal.month
    BY <1>4, <2>1 DEF Agreed, Undisturbed, Converting, Counting
  <2>3. QED
    BY <1>1, <1>3, <2>1, <2>2 DEF Undisturbed, Setting, Converting, Counting
<1>5. QED
  BY <1>1, <1>2, <1>3, <1>4, ConvertKeeps DEF Converting, Counting

LEMMA StoreHourKeeps ==
  ASSUME IInv, StoreHour PROVE IInv'
<1> USE DEF IInv
<1>1. /\ Convert("hour", "years") /\ day' = day \div Day /\ held' = held
      /\ cal' = [cal EXCEPT !.hour = (day % Day) \div Hour]
  BY DEF StoreHour
<1>2. (day % Day) \div Hour \in 0 .. 23 /\ day \div Day \in Nat
  <2>1. day \in Nat
    BY DEF Types
  <2>2. \A r \in 0 .. 1439 : r \div 60 \in 0 .. 23
    OBVIOUS
  <2>3. QED
    BY <2>1, <2>2 DEF Day, Hour
<1>3. /\ cal \in Fields /\ held \in Held /\ (day % Day) \div Hour \in Nat
      /\ (day % Day) \div Hour <= 63
  BY <1>2 DEF Types
<1>4. /\ cal' \in Fields /\ cal'.hour = (day % Day) \div Hour /\ cal'.hour < 24
      /\ cal'.minute = cal.minute /\ cal'.month = cal.month /\ cal'.year = cal.year
  <2>1. /\ cal' \in Fields /\ cal'.hour = (day % Day) \div Hour
        /\ cal'.minute = cal.minute /\ cal'.month = cal.month /\ cal'.year = cal.year
    BY <1>1, <1>3, HourSet
  <2>2. QED
    BY <1>2, <2>1
<1>5. ASSUME agreed = "writing" PROVE Undisturbed'
  <2>1. /\ pc = "hour" /\ pc' = "years" /\ gps' = "idle" /\ secs' = secs /\ kept' = kept
    BY <1>1 DEF Convert, history
  <2>2. /\ day = kept /\ secs = kept /\ kept \div Day < 49673
        /\ cal.year = 1970 /\ held.year = cal.year
        /\ cal.month = 0 /\ held.month = cal.month /\ cal.minute = kept % Hour
    BY <1>5, <2>1 DEF Agreed, Undisturbed, Converting, Counting, EpochYear
  <2>3. ClockFieldsKept'
    BY <1>4, <2>1, <2>2 DEF ClockFieldsKept
  <2>4. YearIs(cal.year, day)'
    <3>1. DaysBeforeYear(1970) = 0 /\ day' = kept \div Day
      BY <1>1, <2>2, YearsEnds
    <3>2. QED
      BY <1>2, <1>4, <2>1, <2>2, <3>1 DEF YearIs
  <2>5. cal'.year \in 1970 .. 2105
    BY <1>4, <2>2
  <2>6. QED
    BY <1>1, <1>4, <2>1, <2>2, <2>3, <2>4, <2>5
    DEF Undisturbed, Setting, Converting, Counting
<1>6. QED
  BY <1>1, <1>2, <1>3, <1>4, <1>5, ConvertKeeps DEF Converting, Counting

\* In the loops the hour stands and a load of the year or month gives, if no
\* pulse came, that of the calendar.
LEMMA Counts ==
  ASSUME IInv, pc \in Counting
  PROVE  /\ cal \in Fields /\ held \in Held /\ day \in Nat /\ kept \in Nat
         /\ cal.year \in Nat /\ cal.month \in Nat /\ cal.month <= 255 /\ cal.hour < 24
         /\ agreed = "writing" =>
              /\ secs = kept /\ kept \div Day < 49673 /\ kept \div Day \in Nat
              /\ held.year = cal.year /\ held.month = cal.month
              /\ ClockFieldsKept /\ cal.year \in 1970 .. 2105
              /\ \A y \in Years : y = cal.year
              /\ \A m \in Months : m = cal.month
<1>1. cal \in Fields /\ held \in Held /\ day \in Nat /\ kept \in Nat /\ cal.hour < 24
  BY DEF IInv, Types, Loops, Counting, Converting
<1>2. cal.year \in Nat /\ cal.month \in Nat /\ cal.month <= 255
  BY LoadsTyped DEF IInv, Years, Months
<1>3. ASSUME agreed = "writing"
      PROVE  /\ secs = kept /\ kept \div Day < 49673
             /\ held.year = cal.year /\ held.month = cal.month
             /\ ClockFieldsKept /\ cal.year \in 1970 .. 2105
  BY <1>3 DEF IInv, Agreed, Undisturbed, Counting
<1>4. kept \div Day \in Nat
  BY <1>1 DEF Day, Hour
<1>5. QED
  BY <1>1, <1>2, <1>3, <1>4 DEF Years, Months

LEMMA YearTestKeeps ==
  ASSUME IInv, YearTest PROVE IInv'
<1> USE DEF IInv
<1> DEFINE next(y) == IF day >= YearDays(y) THEN "takeyear" ELSE "months"
<1>1. PICK y \in Years :
        /\ Convert("years", next(y)) /\ held' = [held EXCEPT !.year = y]
        /\ cal' = cal /\ day' = day
  BY DEF YearTest
<1>2. /\ pc = "years" /\ pc' = next(y) /\ gps' = "idle" /\ secs' = secs /\ kept' = kept
  BY <1>1 DEF Convert, history
<1>3. pc \in Counting
  BY <1>2 DEF Counting, Converting
<1>4. /\ cal \in Fields /\ held \in Held /\ day \in Nat /\ cal.hour < 24
  BY <1>3, Counts
<1>5. held' \in Held /\ held'.year = y /\ held'.month = held.month
  <2>1. y \in 0 .. LastYear
    BY LoadsTyped
  <2>2. QED
    BY <1>1, <1>4, <2>1, HeldYearSet
<1>6. ASSUME agreed = "writing" PROVE Undisturbed'
  <2>1. /\ y = cal.year /\ secs = kept /\ kept \div Day < 49673 /\ kept \div Day \in Nat
        /\ held.month = cal.month /\ ClockFieldsKept /\ cal.year \in 1970 .. 2105
    BY <1>3, <1>6, Counts
  <2>2. YearIs(cal.year, day) /\ cal.month = 0
    BY <1>2, <1>6 DEF Agreed, Undisturbed
  <2>3. ClockFieldsKept' /\ YearIs(cal.year, day)'
    BY <1>1, <1>2, <2>1, <2>2 DEF ClockFieldsKept, YearIs
  <2>4. CASE day >= YearDays(y)
    <3>1. pc' = "takeyear"
      BY <1>2, <2>4
    <3>2. QED
      BY <1>1, <1>2, <1>5, <2>1, <2>2, <2>3, <2>4, <3>1
      DEF Undisturbed, Setting, Converting, Counting
  <2>5. CASE ~(day >= YearDays(y))
    <3>1. pc' = "months"
      BY <1>2, <2>5
    <3>2. MonthIs(cal.month, day)'
      <4>1. DaysBeforeMonth(1, Leap(cal.year)) = 0
        BY MonthsEnds
      <4>2. DaysBeforeYear(cal.year) \in Nat
        <5>1. PICK z \in Nat : z = cal.year /\ z >= 1970
          BY <2>1
        <5>2. DaysBeforeYear(z) \in Nat
          BY <5>1, YearBounds
        <5>3. QED
          BY <5>1, <5>2
      <4>3. YearDays(cal.year) \in Nat
        BY DEF YearDays
      <4>4. cal.month + 1 = 1 /\ cal.month \in 0 .. 11
        BY <2>2
      <4>5. /\ kept \div Day = DaysBeforeYear(cal.year) + 0 + day
            /\ 0 + day < YearDays(cal.year)
        BY <1>4, <2>1, <2>2, <2>5, <4>2, <4>3 DEF YearIs
      <4>6. MonthIs(cal.month, day)
        BY <4>1, <4>4, <4>5 DEF MonthIs
      <4>7. QED
        BY <1>1, <1>2, <4>6 DEF MonthIs
    <3>3. QED
      BY <1>1, <1>2, <1>5, <2>1, <2>2, <2>3, <3>1, <3>2
      DEF Undisturbed, Setting, Converting, Counting
  <2>6. QED
    BY <2>4, <2>5
<1>7. next(y) \in Converting /\ "years" \in Converting
  BY DEF Converting
<1> HIDE DEF next
<1>8. QED
  BY <1>1, <1>4, <1>5, <1>6, <1>7, ConvertKeeps

LEMMA YearTakenKeeps ==
  ASSUME IInv, YearTaken PROVE IInv'
<1> USE DEF IInv
<1>1. PICK y \in Years :
        /\ Convert("takeyear", "addyear") /\ held' = [held EXCEPT !.year = y]
        /\ cal' = cal /\ day' = Less(YearDays(y))
  BY DEF YearTaken
<1>2. /\ pc = "takeyear" /\ pc' = "addyear" /\ gps' = "idle" /\ secs' = secs /\ kept' = kept
  BY <1>1 DEF Convert, history
<1>3. pc \in Counting
  BY <1>2 DEF Counting, Converting
<1>4. /\ cal \in Fields /\ held \in Held /\ day \in Nat /\ cal.hour < 24
  BY <1>3, Counts
<1>5. held' \in Held /\ held'.year = y /\ held'.month = held.month
  <2>1. y \in 0 .. LastYear
    BY LoadsTyped
  <2>2. QED
    BY <1>1, <1>4, <2>1, HeldYearSet
<1>6. day' \in Nat
  <2>1. YearDays(y) \in Nat
    BY DEF YearDays
  <2>2. PICK n \in Int : n = day - YearDays(y)
    BY <1>4, <2>1
  <2>3. DayWidth \in Nat /\ DayWidth > 0
    BY ClockAssumption
  <2>4. n % DayWidth \in Nat
    BY <2>2, <2>3
  <2>5. QED
    BY <1>1, <2>2, <2>4 DEF Less
<1>7. ASSUME agreed = "writing" PROVE Undisturbed'
  <2>1. /\ y = cal.year /\ secs = kept /\ kept \div Day < 49673 /\ kept \div Day \in Nat
        /\ held.month = cal.month /\ ClockFieldsKept /\ cal.year \in 1970 .. 2105
    BY <1>3, <1>7, Counts
  <2>2. YearIs(cal.year, day) /\ cal.month = 0 /\ day >= YearDays(cal.year)
    BY <1>2, <1>7 DEF Agreed, Undisturbed
  <2>3. ClockFieldsKept'
    BY <1>1, <1>2, <2>1 DEF ClockFieldsKept
  <2>4. cal.year < 2105 /\ YearIs(cal.year + 1, day)'
    <3>1. PICK z \in Nat : z = cal.year /\ z >= 1970 /\ z <= 2105
      BY <2>1
    <3>2. PICK total \in Nat : total = kept \div Day
      BY <2>1
    <3>3. total < 49673 /\ total = DaysBeforeYear(z) + day /\ day >= YearDays(z)
      BY <2>1, <2>2, <3>1, <3>2 DEF YearIs
    <3>4. /\ z < 2105 /\ total = DaysBeforeYear(z + 1) + (day - YearDays(z))
          /\ (day - YearDays(z)) % DayWidth = day - YearDays(z)
      BY <1>4, <3>1, <3>3, NextYear
    <3>5. day' = day - YearDays(z)
      BY <1>1, <2>1, <3>1, <3>4 DEF Less
    <3>6. QED
      BY <1>1, <1>2, <3>1, <3>2, <3>4, <3>5 DEF YearIs
  <2>5. QED
    BY <1>1, <1>2, <1>5, <2>1, <2>2, <2>3, <2>4
    DEF Undisturbed, Setting, Converting, Counting
<1>8. QED
  BY <1>1, <1>4, <1>5, <1>6, <1>7, ConvertKeeps DEF Converting

LEMMA YearAddedKeeps ==
  ASSUME IInv, YearAdded PROVE IInv'
<1> USE DEF IInv
<1>1. PICK y \in Years :
        /\ Convert("addyear", "years") /\ day' = day
        /\ cal' = [cal EXCEPT !.year = (y + 1) % YearWidth]
        /\ held' = [held EXCEPT !.year = (y + 1) % YearWidth]
  BY DEF YearAdded
<1>2. /\ pc = "addyear" /\ pc' = "years" /\ gps' = "idle" /\ secs' = secs /\ kept' = kept
  BY <1>1 DEF Convert, history
<1>3. pc \in Counting
  BY <1>2 DEF Counting, Converting
<1>4. /\ cal \in Fields /\ held \in Held /\ day \in Nat /\ cal.hour < 24
  BY <1>3, Counts
<1>5. PICK z \in 0 .. LastYear : z = (y + 1) % YearWidth
  BY LoadsTyped, YearWraps
<1>6. held' \in Held /\ held'.year = z /\ held'.month = held.month
  BY <1>1, <1>4, <1>5, HeldYearSet
<1>7. /\ cal' \in Fields /\ cal'.year = z /\ cal'.hour = cal.hour
      /\ cal'.minute = cal.minute /\ cal'.month = cal.month
  BY <1>1, <1>4, <1>5, YearSet
<1>8. ASSUME agreed = "writing" PROVE Undisturbed'
  <2>1. /\ y = cal.year /\ secs = kept /\ kept \div Day < 49673
        /\ held.month = cal.month /\ ClockFieldsKept /\ cal.year \in 1970 .. 2105
    BY <1>3, <1>8, Counts
  <2>2. YearIs(cal.year + 1, day) /\ cal.month = 0 /\ cal.year < 2105
    BY <1>2, <1>8 DEF Agreed, Undisturbed
  <2>3. z = cal.year + 1 /\ z \in 1970 .. 2105
    <3>1. y \in Nat /\ y <= 3000
      BY <2>1
    <3>2. z = y + 1
      BY <1>5, <3>1, YearWraps
    <3>3. QED
      BY <2>1, <2>2, <3>2
  <2>4. ClockFieldsKept' /\ YearIs(cal.year, day)'
    BY <1>1, <1>2, <1>7, <2>1, <2>2, <2>3 DEF ClockFieldsKept, YearIs
  <2>5. cal'.month = 0 /\ held'.month = 0 /\ cal'.year = held'.year /\ cal'.year \in 1970 .. 2105
    BY <1>6, <1>7, <2>1, <2>2, <2>3
  <2>6. QED
    BY <1>2, <2>1, <2>4, <2>5 DEF Undisturbed, Setting, Converting, Counting
<1>9. QED
  BY <1>1, <1>4, <1>6, <1>7, <1>8, ConvertKeeps DEF Converting

LEMMA MonthTestKeeps ==
  ASSUME IInv, MonthTest PROVE IInv'
<1> USE DEF IInv
<1> DEFINE next(y, m) == IF day >= MonthTable(Leap(y), m) THEN "takemonth" ELSE "date"
<1>1. PICK y \in Years, m \in Months :
        /\ Convert("months", next(y, m)) /\ held' = [year |-> y, month |-> m]
        /\ cal' = cal /\ day' = day
  BY DEF MonthTest
<1>2. /\ pc = "months" /\ pc' = next(y, m) /\ gps' = "idle" /\ secs' = secs /\ kept' = kept
  BY <1>1 DEF Convert, history
<1>3. pc \in Counting
  BY <1>2 DEF Counting, Converting
<1>4. /\ cal \in Fields /\ held \in Held /\ day \in Nat /\ cal.hour < 24
  BY <1>3, Counts
<1>5. y \in 0 .. LastYear /\ m \in Nat /\ m <= 255
  BY LoadsTyped
<1>6. held' \in Held /\ held'.year = y /\ held'.month = m
  BY <1>1, <1>4, <1>5, HeldBothSet
<1>7. ASSUME agreed = "writing" PROVE Undisturbed'
  <2>1. /\ y = cal.year /\ m = cal.month /\ secs = kept /\ kept \div Day < 49673
        /\ ClockFieldsKept /\ cal.year \in 1970 .. 2105
    BY <1>3, <1>7, Counts
  <2>2. MonthIs(m, day)
    BY <1>2, <1>7, <2>1 DEF Agreed, Undisturbed
  <2>3. ClockFieldsKept' /\ MonthIs(cal.month, day)'
    BY <1>1, <1>2, <2>1, <2>2 DEF ClockFieldsKept, MonthIs
  <2>4. MonthTable(Leap(y), m) = MonthDays(Leap(y))[m + 1] /\ m \in 0 .. 11
    <3>1. Leap(y) \in BOOLEAN /\ m < 12 /\ m \in 0 .. 11
      BY <1>5, <2>2, LeapBoolean DEF MonthIs
    <3>2. QED
      BY <1>5, <3>1, Entry
  <2>5. CASE day >= MonthTable(Leap(y), m)
    <3>1. pc' = "takemonth"
      BY <1>2, <2>5
    <3>2. day' >= MonthDays(Leap(cal'.year))[cal'.month + 1]
      BY <1>1, <2>1, <2>4, <2>5
    <3>3. QED
      BY <1>1, <1>2, <1>6, <2>1, <2>3, <3>1, <3>2
      DEF Undisturbed, Setting, Converting, Counting
  <2>6. CASE ~(day >= MonthTable(Leap(y), m))
    <3>1. pc' = "date"
      BY <1>2, <2>6
    <3>2. DateIs(day)'
      <4>1. day < MonthDays(Leap(y))[m + 1]
        <5>1. PICK n \in 1 .. 12 : n = m + 1
          BY <2>4
        <5>2. Leap(y) \in BOOLEAN
          BY LeapBoolean
        <5>3. MonthDays(Leap(y))[n] \in 28 .. 31
          BY <5>2, MonthAfter
        <5>4. QED
          BY <1>4, <2>4, <2>6, <5>1, <5>3
      <4>2. DateIs(day)
        BY <1>4, <2>1, <2>2, <2>4, <4>1 DEF DateIs, MonthIs
      <4>3. QED
        BY <1>1, <1>2, <4>2 DEF DateIs
    <3>3. QED
      BY <1>1, <1>2, <1>6, <2>1, <2>3, <3>1, <3>2
      DEF Undisturbed, Setting, Converting, Counting
  <2>7. QED
    BY <2>5, <2>6
<1>8. next(y, m) \in Converting /\ "months" \in Converting
  BY DEF Converting
<1> HIDE DEF next
<1>9. QED
  BY <1>1, <1>4, <1>6, <1>7, <1>8, ConvertKeeps

LEMMA MonthTakenKeeps ==
  ASSUME IInv, MonthTaken PROVE IInv'
<1> USE DEF IInv
<1>1. PICK y \in Years, m \in Months :
        /\ Convert("takemonth", "addmonth") /\ held' = [year |-> y, month |-> m]
        /\ cal' = cal /\ day' = Less(MonthTable(Leap(y), m))
  BY DEF MonthTaken
<1>2. /\ pc = "takemonth" /\ pc' = "addmonth" /\ gps' = "idle" /\ secs' = secs /\ kept' = kept
  BY <1>1 DEF Convert, history
<1>3. pc \in Counting
  BY <1>2 DEF Counting, Converting
<1>4. /\ cal \in Fields /\ held \in Held /\ day \in Nat /\ cal.hour < 24
  BY <1>3, Counts
<1>5. y \in 0 .. LastYear /\ y \in Nat /\ m \in Nat /\ m <= 255 /\ Leap(y) \in BOOLEAN
  BY LoadsTyped, LeapBoolean
<1>6. held' \in Held /\ held'.year = y /\ held'.month = m
  BY <1>1, <1>4, <1>5, HeldBothSet
<1>7. day' \in Nat
  <2>1. MonthTable(Leap(y), m) \in 0 .. 255
    BY <1>5, Entry
  <2>2. PICK n \in Int : n = day - MonthTable(Leap(y), m)
    BY <1>4, <2>1
  <2>3. DayWidth \in Nat /\ DayWidth > 0
    BY ClockAssumption
  <2>4. n % DayWidth \in Nat
    BY <2>2, <2>3
  <2>5. QED
    BY <1>1, <2>2, <2>4 DEF Less
<1>8. ASSUME agreed = "writing" PROVE Undisturbed'
  <2>1. /\ y = cal.year /\ m = cal.month /\ secs = kept /\ kept \div Day < 49673
        /\ kept \div Day \in Nat /\ ClockFieldsKept /\ cal.year \in 1970 .. 2105
    BY <1>3, <1>8, Counts
  <2>2. MonthIs(m, day) /\ day >= MonthDays(Leap(y))[m + 1]
    BY <1>2, <1>8, <2>1 DEF Agreed, Undisturbed
  <2>3. ClockFieldsKept'
    BY <1>1, <1>2, <2>1 DEF ClockFieldsKept
  <2>4. m <= 11 /\ MonthTable(Leap(y), m) = MonthDays(Leap(y))[m + 1]
    <3>1. m < 12 /\ m <= 11
      BY <2>2 DEF MonthIs
    <3>2. QED
      BY <1>5, <3>1, Entry
  <2> DEFINE before == DaysBeforeMonth(m + 1, Leap(y))
             up == DaysBeforeMonth(m + 2, Leap(y))
             length == MonthDays(Leap(y))[m + 1]
             years == DaysBeforeYear(y)
  <2>5. before + day < YearDays(y) /\ kept \div Day = years + before + day
    BY <2>1, <2>2 DEF MonthIs
  <2>6. day < DayWidth
    <3>1. YearDays(y) \in Nat /\ YearDays(y) <= 366
      BY DEF YearDays
    <3>2. before \in Nat
      <4>1. PICK n \in 1 .. 12 : n = m + 1
        BY <1>5, <2>4
      <4>2. DaysBeforeMonth(n, Leap(y)) \in Nat
        BY <1>5, MonthAfter
      <4>3. QED
        BY <4>1, <4>2
    <3> HIDE DEF before, length, years, up
    <3>3. QED
      BY <1>4, <2>5, <3>1, <3>2, ClockAssumption
  <2>7. /\ m < 11 /\ (day - length) % DayWidth = day - length /\ day - length \in Nat
        /\ before \in Nat /\ up = before + length
    BY <1>4, <1>5, <2>2, <2>4, <2>5, <2>6, NextMonth
  <2>8. day' = day - length
    BY <1>1, <2>4, <2>7 DEF Less
  <2>9. years \in Nat
    <3>1. y >= 1970
      BY <2>1
    <3>2. QED
      BY <1>5, <3>1, YearBounds
  <2>10. length \in Nat
    <3>1. PICK n \in 1 .. 12 : n = m + 1
      BY <1>5, <2>4
    <3>2. MonthDays(Leap(y))[n] \in 28 .. 31
      BY <1>5, MonthAfter
    <3>3. QED
      BY <3>1, <3>2
  <2>11. up = DaysBeforeMonth((m + 1) + 1, Leap(y))
    <3>1. (m + 1) + 1 = m + 2
      BY <1>5
    <3>2. QED
      BY <3>1
  <2>12. MonthIs(cal.month + 1, day)'
    <3>1. cal'.month + 1 = m + 1 /\ cal'.year = y /\ m + 1 \in 0 .. 11
      BY <1>1, <1>5, <2>1, <2>7
    <3> DEFINE year == YearDays(y)
    <3>2. year \in Nat /\ before + day < year
      BY <2>5 DEF YearDays
    <3> HIDE DEF before, length, years, year
    <3>3. kept \div Day = years + up + day' /\ up + day' < year
      <4> HIDE DEF up
      <4>1. QED
        BY <1>4, <2>5, <2>7, <2>8, <2>9, <2>10, <3>2
    <3>4. QED
      BY <1>2, <2>11, <3>1, <3>3 DEF MonthIs, years, year
  <2>13. QED
    BY <1>1, <1>2, <1>6, <2>1, <2>3, <2>12
    DEF Undisturbed, Setting, Converting, Counting
<1>9. QED
  BY <1>1, <1>4, <1>6, <1>7, <1>8, ConvertKeeps DEF Converting

LEMMA MonthAddedKeeps ==
  ASSUME IInv, MonthAdded PROVE IInv'
<1> USE DEF IInv
<1>1. PICK m \in Months :
        /\ Convert("addmonth", "months") /\ day' = day
        /\ cal' = [cal EXCEPT !.month = (m + 1) % 256]
        /\ held' = [held EXCEPT !.month = (m + 1) % 256]
  BY DEF MonthAdded
<1>2. /\ pc = "addmonth" /\ pc' = "months" /\ gps' = "idle" /\ secs' = secs /\ kept' = kept
  BY <1>1 DEF Convert, history
<1>3. pc \in Counting
  BY <1>2 DEF Counting, Converting
<1>4. /\ cal \in Fields /\ held \in Held /\ day \in Nat /\ cal.hour < 24
  BY <1>3, Counts
<1>5. m \in Nat
  BY LoadsTyped
<1>6. PICK n \in Nat : n <= 255 /\ n = (m + 1) % 256
  BY <1>5
<1>7. held' \in Held /\ held'.month = n /\ held'.year = held.year
  BY <1>1, <1>4, <1>6, HeldMonthSet
<1>8. /\ cal' \in Fields /\ cal'.month = n /\ cal'.hour = cal.hour
      /\ cal'.minute = cal.minute /\ cal'.year = cal.year
  BY <1>1, <1>4, <1>6, MonthSet
<1>9. ASSUME agreed = "writing" PROVE Undisturbed'
  <2>1. /\ m = cal.month /\ secs = kept /\ kept \div Day < 49673
        /\ held.year = cal.year /\ ClockFieldsKept /\ cal.year \in 1970 .. 2105
    BY <1>3, <1>9, Counts
  <2>2. MonthIs(m + 1, day)
    BY <1>2, <1>9, <2>1 DEF Agreed, Undisturbed
  <2>3. n = m + 1
    BY <1>5, <1>6, <2>2 DEF MonthIs
  <2>4. ClockFieldsKept' /\ MonthIs(cal.month, day)'
    BY <1>1, <1>2, <1>8, <2>1, <2>2, <2>3 DEF ClockFieldsKept, MonthIs
  <2>5. /\ cal'.month = held'.month /\ cal'.year = held'.year /\ cal'.year \in 1970 .. 2105
    BY <1>7, <1>8, <2>1
  <2>6. QED
    BY <1>2, <2>1, <2>4, <2>5 DEF Undisturbed, Setting, Converting, Counting
<1>10. QED
  BY <1>1, <1>4, <1>7, <1>8, <1>9, ConvertKeeps DEF Converting

LEMMA StoreDateKeeps ==
  ASSUME IInv, StoreDate PROVE IInv'
<1> USE DEF IInv
<1>1. /\ Convert("date", "adddate") /\ cal' = [cal EXCEPT !.date = day % 256]
      /\ day' = day /\ held' = held
  BY DEF StoreDate
<1>2. /\ pc = "date" /\ pc' = "adddate" /\ gps' = "idle" /\ secs' = secs /\ kept' = kept
  BY <1>1 DEF Convert, history
<1>3. pc \in Counting
  BY <1>2 DEF Counting, Converting
<1>4. /\ cal \in Fields /\ held \in Held /\ day \in Nat /\ cal.hour < 24
  BY <1>3, Counts
<1>5. PICK d \in Nat : d <= 255 /\ d = day % 256
  BY <1>4
<1>6. /\ cal' \in Fields /\ cal'.date = d /\ cal'.hour = cal.hour
      /\ cal'.minute = cal.minute /\ cal'.month = cal.month /\ cal'.year = cal.year
  BY <1>1, <1>4, <1>5, DateSet
<1>7. ASSUME agreed = "writing" PROVE Undisturbed'
  <2>1. /\ secs = kept /\ kept \div Day < 49673 /\ held.year = cal.year
        /\ held.month = cal.month /\ ClockFieldsKept /\ cal.year \in 1970 .. 2105
    BY <1>3, <1>7, Counts
  <2>2. DateIs(day)
    BY <1>2, <1>7 DEF Agreed, Undisturbed
  <2>3. d = day
    <3>1. PICK n \in 1 .. 12 : n = cal.month + 1
      BY <2>2 DEF DateIs
    <3>2. MonthDays(Leap(cal.year))[n] \in 28 .. 31
      BY LeapBoolean, MonthAfter
    <3>3. day <= 31
      BY <1>4, <2>2, <3>1, <3>2 DEF DateIs
    <3>4. QED
      BY <1>4, <1>5, <3>3
  <2>4. ClockFieldsKept' /\ DateIs(day)'
    BY <1>1, <1>2, <1>6, <2>1, <2>2 DEF ClockFieldsKept, DateIs
  <2>5. /\ cal'.month = held'.month /\ cal'.year = held'.year
        /\ cal'.year \in 1970 .. 2105 /\ cal'.date = day'
    BY <1>1, <1>6, <2>1, <2>3
  <2>6. QED
    BY <1>2, <2>1, <2>4, <2>5 DEF Undisturbed, Setting, Converting, Counting
<1>8. QED
  BY <1>1, <1>4, <1>6, <1>7, ConvertKeeps DEF Converting

LEMMA DateAddedKeeps ==
  ASSUME IInv, DateAdded PROVE IInv'
<1> USE DEF IInv
<1>1. PICK d \in {day % 256, cal.date} :
        /\ Convert("adddate", "lastmonth") /\ cal' = [cal EXCEPT !.date = (d + 1) % 256]
        /\ day' = 0 /\ held' = held
  BY DEF DateAdded
<1>2. /\ pc = "adddate" /\ pc' = "lastmonth" /\ gps' = "idle" /\ secs' = secs /\ kept' = kept
  BY <1>1 DEF Convert, history
<1>3. pc \in Counting
  BY <1>2 DEF Counting, Converting
<1>4. /\ cal \in Fields /\ held \in Held /\ day \in Nat /\ cal.hour < 24
  BY <1>3, Counts
<1>5. d \in Nat
  <2>1. cal.date \in 0 .. 255
    BY <1>4 DEF Fields
  <2>2. QED
    BY <1>4, <2>1
<1>6. PICK n \in Nat : n <= 255 /\ n = (d + 1) % 256
  BY <1>5
<1>7. /\ cal' \in Fields /\ cal'.date = n /\ cal'.hour = cal.hour
      /\ cal'.minute = cal.minute /\ cal'.month = cal.month /\ cal'.year = cal.year
  BY <1>1, <1>4, <1>6, DateSet
<1>8. ASSUME agreed = "writing" PROVE Undisturbed'
  <2>1. /\ secs = kept /\ kept \div Day < 49673 /\ held.year = cal.year
        /\ held.month = cal.month /\ ClockFieldsKept /\ cal.year \in 1970 .. 2105
    BY <1>3, <1>8, Counts
  <2>2. DateIs(day) /\ cal.date = day
    BY <1>2, <1>8 DEF Agreed, Undisturbed
  <2>3. day <= 31
    <3>1. PICK k \in 1 .. 12 : k = cal.month + 1
      BY <2>2 DEF DateIs
    <3>2. MonthDays(Leap(cal.year))[k] \in 28 .. 31
      BY LeapBoolean, MonthAfter
    <3>3. QED
      BY <1>4, <2>2, <3>1, <3>2 DEF DateIs
  <2>4. d = day
    <3>1. day % 256 = day
      BY <1>4, <2>3
    <3>2. QED
      BY <2>2, <3>1
  <2>5. n - 1 = day
    BY <1>4, <1>6, <2>3, <2>4
  <2>6. ClockFieldsKept' /\ DateIs(cal.date - 1)'
    BY <1>2, <1>7, <2>1, <2>2, <2>5 DEF ClockFieldsKept, DateIs
  <2>7. /\ cal'.month = held'.month /\ cal'.year = held'.year /\ cal'.year \in 1970 .. 2105
    BY <1>1, <1>7, <2>1
  <2>8. QED
    BY <1>2, <2>1, <2>6, <2>7 DEF Undisturbed, Setting, Converting, Counting
<1>9. QED
  BY <1>1, <1>4, <1>7, <1>8, ConvertKeeps DEF Converting

LEMMA LastMonthKeeps ==
  ASSUME IInv, LastMonth PROVE IInv'
<1> USE DEF IInv
<1>1. PICK m \in Months :
        /\ Convert("lastmonth", "form") /\ cal' = [cal EXCEPT !.month = (m + 1) % 256]
        /\ held' = NoneHeld /\ day' = day
  BY DEF LastMonth
<1>2. /\ pc = "lastmonth" /\ pc' = "form" /\ gps' = "idle" /\ secs' = secs /\ kept' = kept
  BY <1>1 DEF Convert, history
<1>3. pc \in Counting
  BY <1>2 DEF Counting, Converting
<1>4. /\ cal \in Fields /\ day \in Nat /\ kept \in Nat /\ cal.hour < 24
  BY <1>3, Counts
<1>5. m \in Nat
  BY LoadsTyped
<1>6. PICK n \in Nat : n <= 255 /\ n = (m + 1) % 256
  BY <1>5
<1>7. held' \in Held
  BY <1>1, YearFits DEF NoneHeld, Held
<1>8. /\ cal' \in Fields /\ cal'.month = n /\ cal'.hour = cal.hour /\ cal'.date = cal.date
      /\ cal'.minute = cal.minute /\ cal'.year = cal.year
  BY <1>1, <1>4, <1>6, MonthSet
<1>9. ASSUME agreed = "writing" PROVE Undisturbed'
  <2>1. /\ m = cal.month /\ secs = kept /\ kept \div Day < 49673
        /\ ClockFieldsKept /\ cal.year \in 1970 .. 2105
    BY <1>3, <1>9, Counts
  <2>2. DateIs(cal.date - 1)
    BY <1>2, <1>9 DEF Agreed, Undisturbed
  <2>3. n = m + 1 /\ n \in 1 .. 12
    BY <1>5, <1>6, <2>1, <2>2 DEF DateIs
  <2>4. MonthDays(Leap(cal.year))[n] \in 28 .. 31
    BY <2>3, LeapBoolean, MonthAfter
  <2>5. PICK d \in Nat : d = cal.date
    <3>1. cal.date \in 0 .. 255
      BY <1>4 DEF Fields
    <3>2. QED
      BY <3>1
  <2>6. PICK c \in Date : c = cal'
    BY <1>8, FieldsAreDates
  <2>7. PICK t \in Nat : t = kept
    BY <1>4
  <2>8. /\ d - 1 \in Nat /\ d - 1 < MonthDays(Leap(cal.year))[n]
        /\ t \div Day = DaysBeforeYear(cal.year) + DaysBeforeMonth(n, Leap(cal.year)) + (d - 1)
    BY <2>1, <2>2, <2>3, <2>5, <2>7 DEF DateIs
  <2>9. /\ c.date >= 1 /\ c.date \in Nat /\ c.date <= MonthDays(Leap(c.year))[c.month]
    BY <1>8, <2>4, <2>5, <2>6, <2>8
  <2>10. /\ c.minute = t % Hour /\ c.hour = (t % Day) \div Hour
         /\ c.year \in 1970 .. 2105 /\ c.month \in 1 .. 12
    BY <1>8, <2>1, <2>3, <2>6, <2>7 DEF ClockFieldsKept
  <2>11. t \div Day = DaysBeforeYear(c.year) + DaysBeforeMonth(c.month, Leap(c.year))
                      + c.date - 1
    <3>1. /\ c.year = cal.year /\ c.month = n /\ c.date = d
      BY <1>8, <2>5, <2>6
    <3> DEFINE years == DaysBeforeYear(cal.year)
               before == DaysBeforeMonth(n, Leap(cal.year))
    <3>2. years \in Nat
      <4>1. PICK y \in Nat : y = cal.year /\ y >= 1970
        BY <2>1
      <4>2. DaysBeforeYear(y) \in Nat
        BY <4>1, YearBounds
      <4>3. QED
        BY <4>1, <4>2
    <3>3. before \in Nat
      BY <2>3, LeapBoolean, MonthAfter
    <3>4. t \div Day = years + before + (d - 1)
      BY <2>8
    <3> HIDE DEF years, before
    <3>5. years + before + (d - 1) = years + before + d - 1
      BY <3>2, <3>3
    <3>6. QED
      BY <3>1, <3>4, <3>5 DEF years, before
  <2>12. ValidDate(c) /\ DateToTimestamp(c) = t
    BY <2>9, <2>10, <2>11, DateOf
  <2>13. ValidDate(cal)' /\ (DateToTimestamp(cal) = kept)'
    BY <1>2, <2>6, <2>7, <2>12
  <2>14. QED
    BY <1>2, <2>1, <2>13 DEF Undisturbed, Setting, Converting, Counting
<1>10. QED
  BY <1>1, <1>4, <1>7, <1>8, <1>9, ConvertKeeps DEF Converting, Counting

\* The main loop's steps are all between a setting of the time and its answer.
LEMMA MainWhileSetting == ASSUME MainStep PROVE pc \in Setting
<1>1. CASE StoreYear \/ StoreMonth \/ StoreMinute \/ StoreHour
  BY <1>1 DEF StoreYear, StoreMonth, StoreMinute, StoreHour, Convert, Setting, Converting
<1>2. CASE YearTest \/ YearTaken \/ YearAdded
  BY <1>2 DEF YearTest, YearTaken, YearAdded, Convert, Setting, Converting
<1>3. CASE MonthTest \/ MonthTaken \/ MonthAdded
  BY <1>3 DEF MonthTest, MonthTaken, MonthAdded, Convert, Setting, Converting
<1>4. CASE StoreDate \/ DateAdded \/ LastMonth
  BY <1>4 DEF StoreDate, DateAdded, LastMonth, Convert, Setting, Converting
<1>5. CASE Formed \/ \E k \in Transfers : Sent(k)
  BY <1>5 DEF Formed, Sent, Setting, Converting
<1>6. QED
  BY <1>1, <1>2, <1>3, <1>4, <1>5 DEF MainStep

LEMMA ValidIsFields ==
  ASSUME NEW c \in Date, ValidDate(c)
  PROVE  c \in Fields /\ c.hour < 24 /\ c.year <= 2105 /\ c.year \in Nat
<1>1. /\ c.minute \in 0 .. 59 /\ c.hour \in 0 .. 23 /\ c.date \in 1 .. 31
      /\ c.month \in 1 .. 12 /\ c.year \in 1970 .. 2105
  BY ValidRanges
<1>2. c.year \in 0 .. LastYear /\ c.year <= 2105 /\ c.year \in Nat
  <2>1. c.year \in Nat /\ c.year <= 2105
    BY <1>1
  <2>2. QED
    BY <2>1, YearFits
<1>3. c = [minute |-> c.minute, hour |-> c.hour, date |-> c.date,
           month |-> c.month, year |-> c.year]
  BY DEF Date
<1>4. c \in Fields
  BY <1>1, <1>2, <1>3 DEF Fields
<1>5. QED
  BY <1>1, <1>2, <1>4

LEMMA FormedKeeps ==
  ASSUME IInv, Formed PROVE IInv'
<1> USE DEF IInv
<1>1. /\ pc = "form" /\ pc' = "send" /\ gps = "idle" /\ regs' = CalendarToRtc(cal)
      /\ UNCHANGED <<rtc, cal, secs, day, held, gps, clean, agreed, kept, sets, hours>>
  BY DEF Formed, history
<1>2. cal \in Date /\ cal.hour < 24
  BY <1>1, FieldsAreDates DEF Types, Loops, Counting, Converting
<1>3. regs' \in Registers
  BY <1>1, <1>2, ToRegisters
<1>4. Types'
  BY <1>1, <1>3 DEF Types, Setting, Converting
<1>5. Loops'
  BY <1>1 DEF Loops, Counting, Converting
<1>6. ASSUME agreed = "writing" PROVE Undisturbed'
  <2>1. /\ ValidDate(cal) /\ DateToTimestamp(cal) = kept /\ secs = kept
        /\ kept \div Day < 49673
    BY <1>1, <1>6 DEF Agreed, Undisturbed
  <2>2. HoldsKept(regs)'
    BY <1>1, <1>2, <2>1 DEF HoldsKept
  <2>3. QED
    BY <1>1, <2>1, <2>2 DEF Undisturbed, Counting, Setting, Converting
<1>7. Agreed'
  <2>1. HoldsKept(rtc) => HoldsKept(rtc)'
    BY <1>1 DEF HoldsKept
  <2>2. QED
    BY <1>1, <1>6, <2>1 DEF Agreed
<1>8. Boot'
  BY <1>1 DEF Boot
<1>9. QED
  BY <1>4, <1>5, <1>7, <1>8

LEMMA TransferTyped ==
  ASSUME NEW k \in Transfers, NEW from \in Registers, NEW to \in Registers
  PROVE  Transfer(from, to, k) \in Registers /\ (k = Whole => Transfer(from, to, k) = from)
<1>1. k \in Nat /\ k <= Whole
  BY ClockAssumption DEF Whole
<1>2. QED
  BY <1>1, Transferred

LEMMA SentKeeps ==
  ASSUME IInv, NEW k \in Transfers, Sent(k) PROVE IInv'
<1> USE DEF IInv
<1>1. /\ pc = "send" /\ pc' = "idle" /\ gps = "idle" /\ rtc' = Transfer(regs, rtc, k)
      /\ agreed' = IF agreed = "writing" /\ k = Whole THEN "yes" ELSE "no"
      /\ UNCHANGED <<regs, cal, secs, day, held, gps, clean, kept, sets, hours>>
  BY DEF Sent
<1>2. rtc' \in Registers /\ (k = Whole => rtc' = regs)
  <2>1. rtc \in Registers /\ regs \in Registers
    BY DEF Types
  <2>2. QED
    BY <1>1, <2>1, TransferTyped
<1>3. Types'
  BY <1>1, <1>2 DEF Types
<1>4. Loops'
  BY <1>1 DEF Loops, Counting, Converting
<1>5. ASSUME agreed' = "yes" PROVE HoldsKept(rtc)' /\ secs' = kept'
  <2>1. agreed = "writing" /\ rtc' = regs
    BY <1>1, <1>2, <1>5
  <2>2. HoldsKept(regs) /\ secs = kept
    BY <1>1, <2>1 DEF Agreed, Undisturbed
  <2>3. QED
    BY <1>1, <2>1, <2>2 DEF HoldsKept
<1>6. Agreed'
  BY <1>1, <1>5 DEF Agreed
<1>7. Boot'
  BY <1>1 DEF Boot
<1>8. QED
  BY <1>3, <1>4, <1>6, <1>7

\* What a pulse leaves in memory: the date of its time, wherever the main loop
\* was.
LEMMA PulseTyped ==
  ASSUME IInv, NEW s \in Stamp, GpsTime(s), Up, UNCHANGED pc
  PROVE  /\ regs' \in Registers /\ cal' \in Fields /\ cal'.hour < 24 /\ s \in Nat
         /\ \E c \in Date : ValidDate(c) /\ DateToTimestamp(c) = s
                            /\ regs' = CalendarToRtc(c)
<1> USE DEF IInv
<1>1. PICK c \in Date : c = TimestampToCalendar(s) /\ ValidDate(c) /\ DateToTimestamp(c) = s
  BY ClockAssumption, CalendarThereAndBack
<1>2. cal' = c /\ regs' = CalendarToRtc(c) /\ day' = day
  BY <1>1 DEF GpsTime
<1>3. c \in Fields /\ c.hour < 24 /\ c.year <= 2105 /\ c.year \in Nat
  BY <1>1, ValidIsFields
<1>4. regs' \in Registers
  BY <1>2, <1>3, ToRegisters
<1>5. s \in Nat
  BY ClockAssumption
<1>6. QED
  BY <1>1, <1>2, <1>3, <1>4, <1>5

LEMMA GpsSetsKeeps ==
  ASSUME IInv, NEW s \in Stamp, NEW k \in Transfers, GpsSets(s, k) PROVE IInv'
<1> USE DEF IInv
<1>1. /\ GpsTime(s) /\ Up /\ pc' = pc /\ gps' = "idle" /\ pc # "send"
      /\ rtc' = Transfer(regs', rtc, k) /\ kept' = s
      /\ agreed' = IF pc = "idle" /\ k = Whole THEN "yes" ELSE "no"
      /\ secs' = s /\ sets' = sets + 1 /\ sets < MaxSets
      /\ UNCHANGED <<day, held, clean, hours>>
  BY DEF GpsSets, GpsTime, BusLocked
<1>2. /\ regs' \in Registers /\ cal' \in Fields /\ cal'.hour < 24 /\ s \in Nat
      /\ \E c \in Date : ValidDate(c) /\ DateToTimestamp(c) = s
                         /\ regs' = CalendarToRtc(c)
  BY <1>1, PulseTyped
<1>3. rtc' \in Registers /\ (k = Whole => rtc' = regs')
  <2>1. rtc \in Registers
    BY DEF Types
  <2>2. QED
    BY <1>1, <1>2, <2>1, TransferTyped
<1>4. Types'
  BY <1>1, <1>2, <1>3, ClockAssumption DEF Types
<1>5. Loops'
  BY <1>1, <1>2 DEF Loops, Counting, Converting
<1>6. ASSUME agreed' = "yes" PROVE HoldsKept(rtc)' /\ secs' = kept'
  BY <1>1, <1>2, <1>3, <1>6 DEF HoldsKept
<1>7. Agreed'
  BY <1>1, <1>6 DEF Agreed
<1>8. Boot'
  BY <1>1 DEF Boot, Up, Setting, Converting
<1>9. QED
  BY <1>4, <1>5, <1>7, <1>8

LEMMA GpsSpinsKeeps ==
  ASSUME IInv, NEW s \in Stamp, NEW k \in Transfers, GpsSpins(s, k) PROVE IInv'
<1> USE DEF IInv
<1>1. /\ GpsTime(s) /\ Up /\ pc' = pc /\ gps' = "spin" /\ pc = "send"
      /\ rtc' = Transfer(regs, regs', k) /\ kept' = s /\ agreed' = "no"
      /\ secs' = s /\ sets' = sets + 1 /\ sets < MaxSets
      /\ UNCHANGED <<day, held, clean, hours>>
  BY DEF GpsSpins, GpsTime, BusLocked
<1>2. /\ regs' \in Registers /\ cal' \in Fields /\ cal'.hour < 24 /\ s \in Nat
  BY <1>1, PulseTyped
<1>3. rtc' \in Registers
  <2>1. regs \in Registers
    BY DEF Types
  <2>2. QED
    BY <1>1, <1>2, <2>1, TransferTyped
<1>4. Types'
  BY <1>1, <1>2, <1>3, ClockAssumption DEF Types
<1>5. Loops'
  BY <1>1 DEF Loops, Counting, Converting
<1>6. Agreed'
  BY <1>1 DEF Agreed
<1>7. Boot'
  BY <1>1 DEF Boot
<1>8. QED
  BY <1>4, <1>5, <1>6, <1>7

LEMMA StopKeeps ==
  ASSUME IInv, NEW k \in Transfers, pc # "off", Stop(k) PROVE IInv'
<1> USE DEF IInv
<1>1. /\ pc' = "off" /\ gps' = "idle" /\ regs' = NoRegisters /\ cal' = NoDate
      /\ secs' = 0 /\ day' = 0 /\ held' = NoneHeld /\ clean' = TRUE
      /\ rtc' = IF pc = "send" /\ gps = "idle" THEN Transfer(regs, rtc, k) ELSE rtc
      /\ agreed' = IF pc \in Setting THEN "no" ELSE agreed
      /\ UNCHANGED <<kept, sets, hours>>
  BY DEF Stop
<1>2. rtc' \in Registers
  <2>1. rtc \in Registers /\ regs \in Registers
    BY DEF Types
  <2>2. QED
    BY <1>1, <2>1, TransferTyped
<1>3. NoRegisters \in Registers /\ NoDate \in Fields /\ NoneHeld \in Held
  <2>1. 0 \in HourByte /\ 0 \in 0 .. LastYear
    BY YearFits DEF HourByte
  <2>2. QED
    BY <2>1 DEF NoRegisters, Registers, NoDate, Fields, NoneHeld, Held
<1>4. Types'
  BY <1>1, <1>2, <1>3 DEF Types
<1>5. Loops'
  BY <1>1 DEF Loops, Counting, Converting
<1>6. Agreed'
  <2>1. CASE pc \in Setting
    BY <1>1, <2>1 DEF Agreed
  <2>2. CASE pc \notin Setting
    <3>1. rtc' = rtc /\ agreed' = agreed /\ kept' = kept
      BY <1>1, <2>2 DEF Setting, Converting
    <3>2. QED
      BY <1>1, <2>2, <3>1, ChipAlone
  <2>3. QED
    BY <2>1, <2>2
<1>7. Boot'
  BY <1>1 DEF Boot
<1>8. QED
  BY <1>4, <1>5, <1>6, <1>7

\* The hour of the chip goes on in the form it is kept in.
LEMMA HourGoesOn ==
  ASSUME NEW h \in 0 .. 23, HourForm(h) # 35
  PROVE  /\ h < 23
         /\ HourForm(h + 1)
              = IF HourForm(h) % 16 = 9 THEN HourForm(h) + 7 ELSE HourForm(h) + 1
<1>1. h < 23
  <2>1. HourForm(23) = 35
    BY DEF HourForm
  <2>2. QED
    BY <2>1
<1>2. CASE h < 20
  <2>1. /\ HourForm(h) = (h \div 10) * 16 + (h % 10) /\ HourForm(h) % 16 = h % 10
    BY <1>2, DigitsOfByte DEF HourForm
  <2>2. HourForm(h + 1) = ((h + 1) \div 10) * 16 + ((h + 1) % 10)
    <3>1. PICK n \in 0 .. 99 : n = h + 1
      BY <1>2
    <3>2. HourForm(n) = (n \div 10) * 16 + (n % 10)
      BY <1>2, <3>1, DigitsOfByte DEF HourForm
    <3>3. QED
      BY <3>1, <3>2
  <2>3. CASE h % 10 = 9
    BY <1>2, <2>1, <2>2, <2>3
  <2>4. CASE h % 10 # 9
    <3>1. (h + 1) \div 10 = h \div 10 /\ (h + 1) % 10 = (h % 10) + 1
      BY <1>2, <2>4
    <3>2. QED
      BY <1>2, <2>1, <2>2, <2>4, <3>1
  <2>5. QED
    BY <2>3, <2>4
<1>3. CASE h \in {20, 21, 22}
  <2>1. HourForm(20) = 32 /\ HourForm(21) = 33 /\ HourForm(22) = 34 /\ HourForm(23) = 35
    BY DEF HourForm, Bcd
  <2>2. QED
    BY <1>3, <2>1
<1>4. QED
  BY <1>1, <1>2, <1>3

LEMMA HourPassesKeeps ==
  ASSUME IInv, HourPasses PROVE IInv'
<1> USE DEF IInv
<1> DEFINE b == rtc.hours
           on == IF b % 16 = 9 THEN b + 7 ELSE b + 1
<1>1. /\ pc \in {"off", "idle"} /\ pc' = pc /\ hours < MaxHours /\ hours' = hours + 1
      /\ b # 35 /\ rtc' = [rtc EXCEPT !.hours = on]
      /\ secs' = IF pc = "idle" THEN secs + Hour ELSE secs
      /\ kept' = kept + Hour
      /\ UNCHANGED <<regs, cal, pc, day, held, gps, clean, agreed, sets>>
  BY DEF HourPasses
<1>2. b \in HourByte /\ rtc \in Registers
  BY DEF Types, Registers
<1>3. on \in HourByte
  <2>1. CASE b \in 0 .. 9
    BY <2>1 DEF HourByte
  <2>2. CASE b \in 16 .. 25
    BY <2>2 DEF HourByte
  <2>3. CASE b \in 32 .. 35
    BY <1>1, <2>3 DEF HourByte
  <2>4. QED
    BY <1>2, <2>1, <2>2, <2>3 DEF HourByte
<1>4. rtc' \in Registers
  BY <1>1, <1>2, <1>3 DEF Registers
<1>5. Types'
  BY <1>1, <1>4, ClockAssumption DEF Types, Hour
<1>6. Loops'
  BY <1>1 DEF Loops, Counting, Converting
<1>7. ASSUME agreed = "yes" PROVE HoldsKept(rtc)'
  <2>1. PICK c \in Date : ValidDate(c) /\ DateToTimestamp(c) = kept
                          /\ rtc = CalendarToRtc(c)
    BY <1>7 DEF Agreed, HoldsKept
  <2>2. c.hour \in 0 .. 23 /\ b = HourForm(c.hour)
    BY <2>1, ValidRanges DEF CalendarToRtc
  <2>3. c.hour < 23 /\ HourForm(c.hour + 1) = on
    BY <1>1, <2>2, HourGoesOn
  <2> DEFINE later == [minute |-> c.minute, hour |-> c.hour + 1, date |-> c.date,
                       month |-> c.month, year |-> c.year]
  <2>4. later \in Date
    BY <2>2 DEF Date
  <2>5. ValidDate(later)
    BY <2>1, <2>2, <2>3 DEF ValidDate
  <2>6. DateToTimestamp(later) = kept + Hour
    <3>1. /\ DateToTimestamp(c)
               = Day * (DaysBeforeYear(c.year)
                        + DaysBeforeMonth(c.month, Leap(c.year)) + c.date - 1)
                 + Hour * c.hour + c.minute
          /\ DateToTimestamp(later)
               = Day * (DaysBeforeYear(c.year)
                        + DaysBeforeMonth(c.month, Leap(c.year)) + c.date - 1)
                 + Hour * (c.hour + 1) + c.minute
      BY <2>1, <2>5 DEF DateToTimestamp
    <3> DEFINE days == Day * (DaysBeforeYear(c.year)
                              + DaysBeforeMonth(c.month, Leap(c.year)) + c.date - 1)
    <3>2. days \in Int
      <4>1. /\ c.date \in Int /\ c.month \in 1 .. 12 /\ c.year \in 1970 .. 2105
        BY <2>1, ValidRanges
      <4>2. PICK y \in Nat : y = c.year /\ y >= 1970
        BY <4>1
      <4>3. DaysBeforeYear(y) \in Nat
        BY <4>2, YearBounds
      <4>4. DaysBeforeMonth(c.month, Leap(c.year)) \in Nat
        BY <4>1, LeapBoolean, MonthAfter
      <4>5. QED
        BY <4>1, <4>2, <4>3, <4>4 DEF Day, Hour
    <3>3. c.minute \in Int
      BY DEF Date
    <3> HIDE DEF days, later
    <3>4. /\ kept = days + Hour * c.hour + c.minute
          /\ DateToTimestamp(later) = days + Hour * (c.hour + 1) + c.minute
      BY <2>1, <3>1 DEF days
    <3>5. QED
      BY <2>2, <3>2, <3>3, <3>4 DEF Hour
  <2>7. rtc' = CalendarToRtc(later)
    <3>1. CalendarToRtc(c) = [minutes |-> Bcd(c.minute), hours |-> HourForm(c.hour),
                              date |-> Bcd(c.date),
                              month_century |-> MonthForm(c.month, c.year),
                              year |-> YearForm(c.year)]
      BY DEF CalendarToRtc
    <3>2. CalendarToRtc(later) = [minutes |-> Bcd(c.minute), hours |-> on,
                                  date |-> Bcd(c.date),
                                  month_century |-> MonthForm(c.month, c.year),
                                  year |-> YearForm(c.year)]
      BY <2>3 DEF CalendarToRtc
    <3> HIDE DEF on
    <3>3. QED
      BY <1>1, <2>1, <3>1, <3>2
  <2> HIDE DEF later
  <2>8. QED
    BY <1>1, <2>4, <2>5, <2>6, <2>7 DEF HoldsKept
<1>8. agreed # "writing"
  BY <1>1, NotWriting DEF Setting, Converting
<1>9. Agreed'
  BY <1>1, <1>7, <1>8 DEF Agreed
<1>10. Boot'
  BY <1>1 DEF Boot
<1>11. QED
  BY <1>5, <1>6, <1>9, <1>10

LEMMA Invariance == Spec => []IInv
<1>1. IInv /\ [Next]_vars => IInv'
  <2> SUFFICES ASSUME IInv, [Next]_vars PROVE IInv'
    OBVIOUS
  <2>1. CASE BootStep
    BY <2>1, DateStandsKeeps, FirstReadKeeps, ResetDateKeeps, SecondReadKeeps DEF BootStep
  <2>2. CASE \E s \in Stamp : SetTime(s)
    BY <2>2, SetTimeKeeps
  <2>3. CASE MainStep
    BY <2>3, StoreYearKeeps, StoreMonthKeeps, StoreMinuteKeeps, StoreHourKeeps,
       YearTestKeeps, YearTakenKeeps, YearAddedKeeps, MonthTestKeeps, MonthTakenKeeps,
       MonthAddedKeeps, StoreDateKeeps, DateAddedKeeps, LastMonthKeeps,
       FormedKeeps, SentKeeps
    DEF MainStep
  <2>4. CASE \E s \in Stamp, k \in Transfers : GpsSets(s, k)
    BY <2>4, GpsSetsKeeps
  <2>5. CASE \E s \in Stamp, k \in Transfers : GpsSpins(s, k)
    BY <2>5, GpsSpinsKeeps
  <2>6. CASE \E k \in Transfers : PowerFails(k)
    BY <2>6, StopKeeps DEF PowerFails
  <2>7. CASE Watchdog
    <3>1. pc # "off" /\ Whole \in Transfers
      BY <2>7, ClockAssumption DEF Watchdog, Starved, IInv, Loops, Counting, Converting
    <3>2. QED
      BY <2>7, <3>1, StopKeeps DEF Watchdog
  <2>8. CASE HourPasses
    BY <2>8, HourPassesKeeps
  <2>9. CASE UNCHANGED vars
    <3>1. Types' /\ Loops' /\ Boot'
      BY <2>9 DEF IInv, vars, Types, Loops, Counting, Converting, Boot, TimeOfChip
    <3>2. Agreed'
      <4>1. /\ HoldsKept(rtc) => HoldsKept(rtc)'
            /\ HoldsKept(regs) => HoldsKept(regs)'
        BY <2>9 DEF vars, HoldsKept
      <4>2. Undisturbed => Undisturbed'
        BY <2>9, <4>1 DEF vars, Undisturbed, ClockFieldsKept, YearIs, MonthIs, DateIs
      <4>3. QED
        BY <2>9, <4>1, <4>2 DEF IInv, vars, Agreed
    <3>3. QED
      BY <3>1, <3>2 DEF IInv
  <2>10. QED
    BY <2>1, <2>2, <2>3, <2>4, <2>5, <2>6, <2>7, <2>8, <2>9 DEF Next
<1>2. QED
  BY InitTyped, <1>1, PTL DEF Spec

-----------------------------------------------------------------------------
\* Registers and calendar keep their bytes and the counters their bounds,
\* wherever in the conversion of the main loop the pulse comes
\* (calendar.c:261-290).
THEOREM ClockTypes == Spec => []ClockTypeOK
<1>1. IInv => ClockTypeOK
  <2> SUFFICES ASSUME Types PROVE ClockTypeOK
    BY DEF IInv
  <2>1. ASSUME NEW r \in Registers
        PROVE  DOMAIN r = DOMAIN NoRegisters /\ \A f \in DOMAIN r : r[f] \in 0 .. 255
    <3>1. DOMAIN r = {"minutes", "hours", "date", "month_century", "year"}
      BY DEF Registers
    <3>2. DOMAIN NoRegisters = {"minutes", "hours", "date", "month_century", "year"}
      BY DEF NoRegisters
    <3>3. HourByte \subseteq 0 .. 255
      BY DEF HourByte
    <3>4. /\ r["minutes"] \in 0 .. 255 /\ r["hours"] \in 0 .. 255
          /\ r["date"] \in 0 .. 255 /\ r["month_century"] \in 0 .. 255
          /\ r["year"] \in 0 .. 255
      <4>1. r.hours \in HourByte
        BY DEF Registers
      <4>2. /\ r.minutes \in 0 .. 255 /\ r.date \in 0 .. 255
            /\ r.month_century \in 0 .. 255 /\ r.year \in 0 .. 255
        BY DEF Registers
      <4>3. r.hours \in 0 .. 255
        BY <3>3, <4>1
      <4>4. QED
        BY <4>2, <4>3
    <3>5. QED
      BY <3>1, <3>2, <3>4
  <2>2. /\ cal.minute \in 0 .. 255 /\ cal.hour \in 0 .. 255 /\ cal.date \in 0 .. 255
        /\ cal.month \in 0 .. 255 /\ cal.year \in 0 .. YearWidth - 1
        /\ held.month \in 0 .. 255 /\ held.year \in 0 .. YearWidth - 1
    BY DEF Types, Fields, Held, LastYear
  <2>3. rtc \in Registers /\ regs \in Registers
    BY DEF Types
  <2>4. \A r \in {rtc, regs} : DOMAIN r = DOMAIN NoRegisters
                               /\ \A f \in DOMAIN r : r[f] \in 0 .. 255
    BY <2>1, <2>3
  <2>5. QED
    BY <2>2, <2>4 DEF Types, ClockTypeOK
<1>2. QED
  BY Invariance, <1>1, PTL

\* The node goes by the time that was last written whole and undisturbed, also
\* after restarts that read the chip whole (hal_system_time.c:186-200).
THEOREM AgreementKept == Spec => []Agreement
<1>1. IInv => Agreement
  BY DEF IInv, Agreed, Agreement
<1>2. QED
  BY Invariance, <1>1, PTL

\* A restart that reads, whole, a new enough time from before eight in the
\* evening writes nothing to the chip (hal_system_time.c:116-137).
THEOREM RestartSurvived == Spec => SurvivesRestart
<1> DEFINE ToSurvive == /\ pc = "check" /\ agreed = "yes" /\ clean
                        /\ kept >= Threshold /\ kept % Day < 20 * Hour
<1>1. IInv /\ [Next]_vars => [ToSurvive => rtc' = rtc]_vars
  <2> SUFFICES ASSUME IInv, Next, ToSurvive PROVE rtc' = rtc
    OBVIOUS
  <2>1. PICK c \in Date : ValidDate(c) /\ DateToTimestamp(c) = kept
                          /\ rtc = CalendarToRtc(c)
    BY DEF IInv, Agreed, HoldsKept
  <2>2. c.hour < 20
    <3>1. /\ c.minute \in 0 .. 59 /\ c.hour \in 0 .. 23 /\ c.date \in 1 .. 31
          /\ c.month \in 1 .. 12 /\ c.year \in 1970 .. 2105
      BY <2>1, ValidRanges
    <3> DEFINE days == DaysBeforeYear(c.year) + DaysBeforeMonth(c.month, Leap(c.year))
                       + c.date - 1
    <3>2. days \in Int
      <4>1. PICK y \in Nat : y = c.year /\ y >= 1970
        BY <3>1
      <4>2. DaysBeforeYear(y) \in Nat
        BY <4>1, YearBounds
      <4>3. DaysBeforeMonth(c.month, Leap(c.year)) \in Nat
        BY <3>1, LeapBoolean, MonthAfter
      <4>4. QED
        BY <3>1, <4>1, <4>2, <4>3
    <3>3. kept = Day * days + Hour * c.hour + c.minute
      BY <2>1 DEF DateToTimestamp
    <3> HIDE DEF days
    <3>4. kept = 1440 * days + 60 * c.hour + c.minute
      BY <3>3 DEF Day, Hour
    <3>5. kept % 1440 = 60 * c.hour + c.minute
      BY <3>1, <3>2, <3>4
    <3>6. kept % 1440 < 1200
      BY DEF Day, Hour
    <3>7. QED
      BY <3>1, <3>5, <3>6
  <2>3. secs = kept
    <3>1. secs = TimeOfChip
      BY DEF IInv, Boot
    <3>2. CalendarToRtc(c).hours < 32
      <4>1. c.hour \in 0 .. 23
        BY <2>1, ValidRanges
      <4>2. QED
        BY <2>2, <4>1, HourBytes DEF CalendarToRtc
    <3>3. QED
      BY <2>1, <3>1, <3>2, ReadBack DEF TimeOfChip
  <2>4. ~NoTimeOrOld(secs)
    <3>1. Threshold \in Nat /\ kept \in Nat
      BY SMT DEF IInv, Types, Threshold
    <3>2. QED
      BY <2>3, <3>1 DEF NoTimeOrOld
  <2>5. CASE BootStep
    <3>1. CASE DateStands
      BY <3>1 DEF DateStands
    <3>2. CASE \E k \in Transfers : FirstRead(k) \/ ResetDate(k) \/ SecondRead(k)
      BY <2>4, <3>2 DEF FirstRead, ResetDate, SecondRead
    <3>3. QED
      BY <2>5, <3>1, <3>2 DEF BootStep
  <2>6. CASE MainStep
    BY <2>6, MainWhileSetting DEF Setting, Converting
  <2>7. CASE \E s \in Stamp, k \in Transfers : GpsSets(s, k) \/ GpsSpins(s, k)
    BY <2>7 DEF GpsSets, GpsSpins, Up, Setting, Converting
  <2>8. CASE (\E k \in Transfers : PowerFails(k)) \/ Watchdog
    BY <2>8 DEF PowerFails, Watchdog, Stop
  <2>9. CASE (\E s \in Stamp : SetTime(s)) \/ HourPasses
    BY <2>9 DEF SetTime, HourPasses
  <2>10. QED
    BY <2>5, <2>6, <2>7, <2>8, <2>9 DEF Next
<1>2. QED
  BY Invariance, <1>1, PTL DEF Spec, SurvivesRestart

\* Whatever mixture of two dates the chip holds, a restart whose transfers are
\* whole leaves the node with a time no older than the initial one
\* (hal_system_time.c:116-137).
THEOREM BootTime == Spec => BootGivesTime
<1> DEFINE NewEnough == pc = "reread" /\ pc' = "idle" /\ clean' => secs' >= InitialTime
<1>1. IInv /\ [Next]_vars => [NewEnough]_vars
  <2> SUFFICES ASSUME IInv, Next, pc = "reread", pc' = "idle", clean'
               PROVE  secs' >= InitialTime
    OBVIOUS
  <2>1. PICK k \in Transfers : SecondRead(k)
    <3>1. CASE BootStep
      BY <3>1 DEF BootStep, DateStands, FirstRead, ResetDate
    <3>2. CASE MainStep
      BY <3>2, MainWhileSetting DEF Setting, Converting
    <3>3. CASE \E s \in Stamp, k \in Transfers : GpsSets(s, k) \/ GpsSpins(s, k)
      BY <3>3 DEF GpsSets, GpsSpins, Up, Setting, Converting
    <3>4. CASE (\E k \in Transfers : PowerFails(k)) \/ Watchdog
      BY <3>4 DEF PowerFails, Watchdog, Stop
    <3>5. CASE (\E s \in Stamp : SetTime(s)) \/ HourPasses
      BY <3>5 DEF SetTime, HourPasses
    <3>6. QED
      BY <3>1, <3>2, <3>3, <3>4, <3>5 DEF Next
  <2>2. clean /\ k = Whole
    BY <2>1, Zenon DEF SecondRead
  <2>3. cal' = RtcToCalendar(regs', NoDate) /\ regs' = rtc
    BY <2>1, <2>2, ReadTyped DEF SecondRead, IInv
  <2>4. secs' = TimeOfChip
    BY <2>1, <2>3 DEF SecondRead, TimeOfChip
  <2>5. QED
    BY <2>2, <2>4 DEF IInv, Boot
<1>2. QED
  BY Invariance, <1>1, PTL DEF Spec, BootGivesTime
=============================================================================
