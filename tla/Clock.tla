------------------------------- MODULE Clock -------------------------------
(***************************************************************************)
(* The system time and its copy in the external RTC                        *)
(* (HAL/hal_system_time.c over services/calendar/calendar.c and the TWI    *)
(* driver twim.c): the clock is read from the chip at boot, set by a POST  *)
(* in the main loop or by the GPS pulse, a medium level interrupt, and     *)
(* written back to the chip through buffers both of them share.            *)
(*                                                                         *)
(* The unit of time is the minute; the seconds, coded as the minutes are,  *)
(* and the day of the week, which nothing reads, are left out.  Power may  *)
(* fail at any moment, a transfer may stop after any number of registers.  *)
(***************************************************************************)
EXTENDS Integers, Sequences

CONSTANTS
  Stamp,       \* times the clock is set to, in minutes since 1970: those of
               \* the years calendar_date has, before 2106
  Transfers,   \* how many registers a transfer may move: Whole, fewer if it fails
  Beyond,      \* the bytes that stand behind the table of months
  DayWidth,    \* day_number is kept modulo this; 2^32 in the program
  MaxSets,     \* bound: how often the clock is set
  MaxHours     \* bound: hours that pass

Hour == 60
Day  == 24 * Hour
EpochYear == 1970

Threshold == 23035416        \* 1382124960 seconds: 18/10/2013 19:36

Whole == 5

YearWidth == 65536           \* the year of a calendar_date has 16 bits

ASSUME ClockAssumption ==
  /\ Stamp \subseteq Nat /\ \A s \in Stamp : s \div Day < 49673
  /\ Transfers \subseteq 0 .. Whole /\ Whole \in Transfers
  /\ DayWidth \in Nat /\ DayWidth >= 49673
  /\ MaxSets \in Nat /\ MaxHours \in Nat

ASSUME BeyondAssumption == Beyond \in [24 .. 267 -> 0 .. 255]

-----------------------------------------------------------------------------
(***************************************************************************)
(* calendar.c.  A date has the fields of calendar_date.                     *)
(***************************************************************************)
Leap(y) == y % 4 = 0 /\ (y % 100 # 0 \/ y % 400 = 0)

MonthDays(leap) ==
  <<31, IF leap THEN 29 ELSE 28, 31, 30, 31, 30, 31, 31, 30, 31, 30, 31>>

YearDays(y) == IF Leap(y) THEN 366 ELSE 365

\* The sum over the years before y: every fourth is a leap year, but for the
\* centuries that 400 does not divide.
DaysBeforeYear(y) ==
  365 * (y - EpochYear)
  + ((y - 1969) \div 4) - ((y - 1901) \div 100) + ((y - 1601) \div 400)

\* Days before the first of month m; month 13 is the end of the year.
DaysBeforeMonth(m, leap) ==
  IF m <= 2 THEN 31 * (m - 1)
  ELSE <<59, 90, 120, 151, 181, 212, 243, 273, 304, 334, 365>>[m - 2]
       + (IF leap THEN 1 ELSE 0)

\* calendar_is_date_valid: what calendar_date_to_timestamp accepts.
ValidDate(c) ==
  /\ c.minute < 60 /\ c.hour < 24
  /\ c.month \in 1 .. 12
  /\ c.date \in 1 .. MonthDays(Leap(c.year))[c.month]
  /\ c.year \in EpochYear .. 2105

\* calendar_date_to_timestamp, in minutes; 0 for what is no date.
DateToTimestamp(c) ==
  IF ValidDate(c)
  THEN Day * (DaysBeforeYear(c.year) + DaysBeforeMonth(c.month, Leap(c.year))
              + c.date - 1)
       + Hour * c.hour + c.minute
  ELSE 0

\* timestamp_to_calendar, undisturbed.
TimestampToCalendar(t) ==
  LET days  == t \div Day
      year  == CHOOSE y \in EpochYear + (days \div 366) .. EpochYear + (days \div 365) :
                 days >= DaysBeforeYear(y) /\ days < DaysBeforeYear(y + 1)
      left  == days - DaysBeforeYear(year)
      start == [m \in 1 .. 13 |-> DaysBeforeMonth(m, Leap(year))]
      month == CHOOSE m \in 1 .. 12 : left >= start[m] /\ left < start[m + 1]
  IN [minute |-> t % Hour, hour |-> (t % Day) \div Hour,
      date |-> left - start[month] + 1, month |-> month, year |-> year]

NoDate == [minute |-> 0, hour |-> 0, date |-> 0, month |-> 0, year |-> 0]

-----------------------------------------------------------------------------
(***************************************************************************)
(* The registers of the chip, in the order of a transfer.                  *)
(***************************************************************************)
Register == <<"minutes", "hours", "date", "month_century", "year">>
Position(r) == CHOOSE k \in 1 .. Whole : Register[k] = r

NoRegisters == [minutes |-> 0, hours |-> 0, date |-> 0, month_century |-> 0,
                year |-> 0]

WideBcd(n) == (n \div 10) * 16 + (n % 10)   \* mutant: not cut to a byte

Bcd(n) == ((n \div 10) * 16 + (n % 10)) % 256
FromBcd(b) == (b % 16) + 10 * (b \div 16)

\* The three digits of the hours register: ones, a ten, a bit for twenty.
HourForm(h) == IF h > 20 THEN (h \div 20) * 32 + (h % 10) ELSE Bcd(h)
HourRead(b) == (b % 16) + ((b \div 16) % 2) * 10 + (((b \div 32) % 2) * 2) * 20

MonthForm(m, y) == ((((y - EpochYear) % 256) \div 100) * 128 + Bcd(m)) % 256

YearOfCentury(y) == (Bcd(y % 100)) % 256     \* mutant: the year as it is written

\* The year counts from 1970, with a bit for the century.
YearForm(y) ==
  LET base == IF (y - EpochYear) \div 100 = 0 THEN EpochYear ELSE EpochYear + 100
  IN ((((y - base) % 256) \div 10) * 16 + (y % 10)) % 256

\* calendar_to_rtc32_form.
CalendarToRtc(c) ==
  [minutes |-> Bcd(c.minute), hours |-> HourForm(c.hour),
   date |-> Bcd(c.date), month_century |-> MonthForm(c.month, c.year),
   year |-> YearForm(c.year)]

MonthOnly(b) == b % 16     \* mutant: the ten of the month is not read

MonthRead(b) == (b % 16) + 10 * ((b \div 16) % 2)

\* rtc32_to_calendar_form: the bit of the twelve hour mode is looked for in
\* the date read before, and when found there the hour stays as it was.
RtcToCalendar(r, old) ==
  [minute |-> FromBcd(r.minutes),
   hour   |-> IF (old.hour \div 64) % 2 = 0 THEN HourRead(r.hours) ELSE old.hour,
   date   |-> (r.date % 16) + 10 * ((r.date \div 16) % 4),
   month  |-> MonthRead(r.month_century),
   year   |-> EpochYear + FromBcd(r.year) + 100 * (r.month_century \div 128)]

\* What a transfer of the first k registers from one copy to another leaves.
Transfer(from, to, k) ==
  [r \in DOMAIN to |-> IF Position(r) <= k THEN from[r] ELSE to[r]]

\* 18/10/13 16:33, as hal_system_time_init writes it.
InitialDate ==
  [minutes |-> 51, hours |-> 22, date |-> 24, month_century |-> 16, year |-> 67]

InitialTime == DateToTimestamp([minute |-> 33, hour |-> 16, date |-> 18,
                                month |-> 10, year |-> 2013])

-----------------------------------------------------------------------------
VARIABLES
  rtc,     \* registers of the chip, which keep their values without power
  regs,    \* rtc_time, the buffer of the transfers
  cal,     \* temp_calendar
  secs,    \* system_global_time, in minutes
  pc,      \* where the main loop is: "off" without power, a step of
           \* hal_system_time_init, "idle", or the step that comes next of
           \* hal_system_time_write_time
  day,     \* the timestamp, then day_number, of the timestamp_to_calendar the
           \* main loop is in
  held,    \* the year and month it loaded or stored last, which the build may
           \* have kept in registers
  gps,     \* the pulse handler: "idle", or in the "spin" of twim_acquire
  clean,   \* history: every transfer since the power came was whole
  agreed,  \* history: the chip holds the time last set ("yes"), is about to
           \* ("writing"), or something came between ("no")
  kept,    \* history: the time last set, as it went on
  sets,    \* how often the clock was set
  hours    \* hours that passed

vars == <<rtc, regs, cal, secs, pc, day, held, gps, clean, agreed, kept, sets, hours>>
history == <<agreed, kept, sets, hours>>

Booting == {"check", "reread"}
Converting == {"year", "month", "minute", "hour", "years", "takeyear", "addyear",
               "months", "takemonth", "addmonth", "date", "adddate", "lastmonth"}
Setting == Converting \cup {"form", "send"}

NoneHeld == [year |-> 0, month |-> 0]

\* The chip as it leaves the factory, 1/1 of its year 0.
Init ==
  /\ rtc = [NoRegisters EXCEPT !.date = 1, !.month_century = 1]
  /\ regs = NoRegisters /\ cal = NoDate /\ secs = 0
  /\ pc = "off" /\ day = 0 /\ held = NoneHeld /\ gps = "idle"
  /\ clean = TRUE /\ agreed = "no" /\ kept = 0 /\ sets = 0 /\ hours = 0

-----------------------------------------------------------------------------
NoTimeAtAll(t) == t = 0       \* mutant: an old time is taken for a time

\* "checking if we have no time or very old time"
NoTimeOrOld(t) == t < Threshold

\* hal_system_time_init reads the chip; k registers arrive.  The conversion
\* counts date and month of temp_calendar down, which nothing reads before they
\* are set again.
FirstRead(k) ==
  /\ pc = "off"
  /\ regs' = Transfer(rtc, regs, k)
  /\ cal' = RtcToCalendar(regs', cal)
  /\ secs' = DateToTimestamp(cal')
  /\ pc' = "check"
  /\ clean' = (k = Whole)
  /\ UNCHANGED <<rtc, day, held, gps, history>>

\* A date that is none, or too old, is replaced in the chip.
ResetDate(k) ==
  /\ pc = "check" /\ NoTimeOrOld(secs)
  /\ regs' = InitialDate
  /\ rtc' = Transfer(regs', rtc, k)
  /\ pc' = "reread"
  /\ agreed' = IF k = Whole THEN "yes" ELSE "no"
  /\ kept' = InitialTime
  /\ clean' = (clean /\ k = Whole)
  /\ UNCHANGED <<cal, secs, day, held, gps, sets, hours>>

DateStands ==
  /\ pc = "check" /\ ~NoTimeOrOld(secs)
  /\ pc' = "reread"
  /\ UNCHANGED <<rtc, regs, cal, secs, day, held, gps, clean, history>>

SecondRead(k) ==
  /\ pc = "reread"
  /\ regs' = Transfer(rtc, regs, k)
  /\ cal' = RtcToCalendar(regs', cal)
  /\ secs' = DateToTimestamp(cal')
  /\ pc' = "idle"
  /\ agreed' = IF k = Whole THEN agreed ELSE "no"
  /\ clean' = (clean /\ k = Whole)
  /\ UNCHANGED <<rtc, day, held, gps, kept, sets, hours>>

\* hal_system_time_write_time called by the main loop: the time changes first.
SetTime(s) ==
  /\ pc = "idle" /\ sets < MaxSets
  /\ secs' = s /\ day' = s
  /\ pc' = "year"
  /\ agreed' = "writing" /\ kept' = s /\ sets' = sets + 1
  /\ UNCHANGED <<rtc, regs, cal, held, gps, clean, hours>>

\* timestamp_to_calendar works in the shared calendar and is in no critical
\* section: every access to it is a step, and the pulse may come before any.  (The two
\* bytes of the year are taken as one.)
Convert(from, to) ==
  /\ pc = from /\ gps = "idle"
  /\ pc' = to
  /\ UNCHANGED <<rtc, regs, secs, gps, clean, history>>

StoreYear ==
  /\ Convert("year", "month")
  /\ cal' = [cal EXCEPT !.year = EpochYear]
  /\ held' = [held EXCEPT !.year = EpochYear]
  /\ UNCHANGED day

StoreMonth ==
  /\ Convert("month", "minute")
  /\ cal' = [cal EXCEPT !.month = 0]
  /\ held' = [held EXCEPT !.month = 0]
  /\ UNCHANGED day

StoreMinute ==
  /\ Convert("minute", "hour")
  /\ cal' = [cal EXCEPT !.minute = day % Hour]
  /\ UNCHANGED <<day, held>>

StoreHour ==
  /\ Convert("hour", "years")
  /\ cal' = [cal EXCEPT !.hour = (day % Day) \div Hour]
  /\ day' = day \div Day
  /\ UNCHANGED held

\* What a load may give: the value in the register or that of the memory.
Years  == {held.year, cal.year}
Months == {held.month, cal.month}

Less(length) == (day - length) % DayWidth

YearTest ==
  \E y \in Years :
    /\ Convert("years", IF day >= YearDays(y) THEN "takeyear" ELSE "months")
    /\ held' = [held EXCEPT !.year = y]
    /\ UNCHANGED <<cal, day>>

\* The year is loaded again: it need not be the one of the test.
YearTaken ==
  \E y \in Years :
    /\ Convert("takeyear", "addyear")
    /\ day' = Less(YearDays(y))
    /\ held' = [held EXCEPT !.year = y]
    /\ UNCHANGED cal

YearAdded ==
  \E y \in Years :
    /\ Convert("addyear", "years")
    /\ cal' = [cal EXCEPT !.year = (y + 1) % YearWidth]
    /\ held' = [held EXCEPT !.year = (y + 1) % YearWidth]
    /\ UNCHANGED day

\* The table of months in memory: the row of the years of 365 days, that of the
\* leap years, and what stands behind it.
Memory(at) ==
  IF at < 12 THEN MonthDays(FALSE)[at + 1]
  ELSE IF at < 24 THEN MonthDays(TRUE)[at - 11] ELSE Beyond[at]

MonthTable(leap, m) == Memory(m + (IF leap THEN 12 ELSE 0))

MonthTest ==
  \E y \in Years, m \in Months :
    /\ Convert("months", IF day >= MonthTable(Leap(y), m) THEN "takemonth" ELSE "date")
    /\ held' = [year |-> y, month |-> m]
    /\ UNCHANGED <<cal, day>>

MonthTaken ==
  \E y \in Years, m \in Months :
    /\ Convert("takemonth", "addmonth")
    /\ day' = Less(MonthTable(Leap(y), m))
    /\ held' = [year |-> y, month |-> m]
    /\ UNCHANGED cal

MonthAdded ==
  \E m \in Months :
    /\ Convert("addmonth", "months")
    /\ cal' = [cal EXCEPT !.month = (m + 1) % 256]
    /\ held' = [held EXCEPT !.month = (m + 1) % 256]
    /\ UNCHANGED day

StoreDate ==
  /\ Convert("date", "adddate")
  /\ cal' = [cal EXCEPT !.date = day % 256]
  /\ UNCHANGED <<day, held>>

DateAdded ==
  \E d \in {day % 256, cal.date} :
    /\ Convert("adddate", "lastmonth")
    /\ cal' = [cal EXCEPT !.date = (d + 1) % 256]
    /\ day' = 0
    /\ UNCHANGED held

LastMonth ==
  \E m \in Months :
    /\ Convert("lastmonth", "form")
    /\ cal' = [cal EXCEPT !.month = (m + 1) % 256]
    /\ held' = NoneHeld
    /\ UNCHANGED day

\* A pulse amid the five conversions leaves what one after them does, but for
\* a register whose value was being computed.
Formed ==
  /\ pc = "form" /\ gps = "idle"
  /\ regs' = CalendarToRtc(cal)
  /\ pc' = "send"
  /\ UNCHANGED <<rtc, cal, secs, day, held, gps, clean, history>>

\* The transfer ends, whole or after k registers; the answer is true in both
\* cases.
Sent(k) ==
  /\ pc = "send" /\ gps = "idle"
  /\ rtc' = Transfer(regs, rtc, k)
  /\ pc' = "idle"
  /\ agreed' = IF agreed = "writing" /\ k = Whole THEN "yes" ELSE "no"
  /\ UNCHANGED <<regs, cal, secs, day, held, gps, clean, kept, sets, hours>>

-----------------------------------------------------------------------------
(***************************************************************************)
(* The GPS pulse sets the clock from a fix, between any two steps of the   *)
(* main loop.                                                              *)
(***************************************************************************)
\* The pulse is listened to once the clock was read.
Up == pc \in Setting \cup {"idle"}

BusLocked == pc = "send"

GpsTime(s) ==
  /\ secs' = s
  /\ cal' = TimestampToCalendar(s)
  /\ regs' = CalendarToRtc(TimestampToCalendar(s))
  /\ sets' = sets + 1
  /\ UNCHANGED <<day, held, clean, hours>>

\* The bus is free: the handler goes through to its end.
GpsSets(s, k) ==
  /\ Up /\ gps = "idle" /\ sets < MaxSets
  /\ ~BusLocked
  /\ GpsTime(s)
  /\ rtc' = Transfer(regs', rtc, k)
  /\ agreed' = IF pc = "idle" /\ k = Whole THEN "yes" ELSE "no"
  /\ kept' = s
  /\ UNCHANGED <<pc, gps>>

\* The main loop owns the bus and cannot give it back: the handler waits for
\* ever, while the high level interrupt of the bus goes on sending the
\* buffer, of which the first k registers had left before.
GpsSpins(s, k) ==
  /\ Up /\ gps = "idle" /\ sets < MaxSets
  /\ BusLocked
  /\ GpsTime(s)
  /\ rtc' = Transfer(regs, regs', k)
  /\ gps' = "spin"
  /\ agreed' = "no" /\ kept' = s
  /\ UNCHANGED pc

\* Power fails, or the watchdog, reset by the main loop, runs out: what the
\* program had in memory is gone.  A transfer under way may stop after k
\* registers.
Stop(k) ==
  /\ pc' = "off" /\ gps' = "idle"
  /\ rtc' = IF pc = "send" /\ gps = "idle" THEN Transfer(regs, rtc, k) ELSE rtc
  /\ agreed' = IF pc \in Setting THEN "no" ELSE agreed
  /\ regs' = NoRegisters /\ cal' = NoDate /\ secs' = 0 /\ day' = 0
  /\ held' = NoneHeld
  /\ clean' = TRUE
  /\ UNCHANGED <<kept, sets, hours>>

PowerFails(k) == pc # "off" /\ Stop(k)

NeverStarved == FALSE      \* mutant: no watchdog

\* Nothing but the watchdog ends the spin.
Starved == gps = "spin"

Watchdog == Starved /\ Stop(Whole)

\* An hour of the chip's day and of the node's; days end in no run.
HourPasses ==
  /\ pc \in {"off", "idle"} /\ hours < MaxHours
  /\ rtc.hours # 35
  /\ rtc' = [rtc EXCEPT !.hours = IF @ % 16 = 9 THEN @ + 7 ELSE @ + 1]
  /\ secs' = IF pc = "idle" THEN secs + Hour ELSE secs
  /\ kept' = kept + Hour
  /\ hours' = hours + 1
  /\ UNCHANGED <<regs, cal, pc, day, held, gps, clean, agreed, sets>>

MainStep ==
  \/ StoreYear \/ StoreMonth \/ StoreMinute \/ StoreHour
  \/ YearTest \/ YearTaken \/ YearAdded
  \/ MonthTest \/ MonthTaken \/ MonthAdded
  \/ StoreDate \/ DateAdded \/ LastMonth \/ Formed
  \/ \E k \in Transfers : Sent(k)

BootStep ==
  \/ DateStands
  \/ \E k \in Transfers : FirstRead(k) \/ ResetDate(k) \/ SecondRead(k)

Next ==
  \/ BootStep
  \/ \E s \in Stamp : SetTime(s)
  \/ MainStep
  \/ \E s \in Stamp, k \in Transfers : GpsSets(s, k)
  \/ \E s \in Stamp, k \in Transfers : GpsSpins(s, k)
  \/ \E k \in Transfers : PowerFails(k)
  \/ Watchdog
  \/ HourPasses

Spec == Init /\ [][Next]_vars

Fairness == WF_vars(MainStep) /\ WF_vars(Watchdog) /\ WF_vars(BootStep)

FairSpec == Spec /\ Fairness

-----------------------------------------------------------------------------
\* Type invariant.  The calendar keeps the widths of its fields and the table of
\* months is read within a byte's reach wherever the pulse comes between two
\* accesses of timestamp_to_calendar (calendar.c:255-286), also when a month
\* taken from another year makes day_number underflow.
ClockTypeOK ==
  /\ \A r \in {rtc, regs} : DOMAIN r = DOMAIN NoRegisters
                            /\ \A f \in DOMAIN r : r[f] \in 0 .. 255
  /\ cal.minute \in 0 .. 255 /\ cal.hour \in 0 .. 255 /\ cal.date \in 0 .. 255
  /\ cal.month \in 0 .. 255 /\ cal.year \in 0 .. YearWidth - 1
  /\ held.month \in 0 .. 255 /\ held.year \in 0 .. YearWidth - 1
  /\ secs \in Nat /\ day \in Nat /\ kept \in Nat
  /\ pc \in Setting \cup Booting \cup {"off", "idle"} /\ gps \in {"idle", "spin"}
  /\ agreed \in {"no", "writing", "yes"}
  /\ sets \in 0 .. MaxSets /\ hours \in 0 .. MaxHours

\* Once the chip was written whole and undisturbed (hal_system_time_write_time,
\* or the initial date of hal_system_time_init), the node's time is the time
\* set, as it went on, also after restarts that read the chip whole.
Agreement == pc = "idle" /\ agreed = "yes" => secs = kept

\* The time survives a loss of power: a restart that reads, whole, a time set
\* whole, new enough and before eight in the evening leaves the chip alone
\* (calendar and registers, there and back); Agreement says it goes on with it.
SurvivesRestart ==
  [][ pc = "check" /\ agreed = "yes" /\ clean
      /\ kept >= Threshold /\ kept % Day < 20 * Hour
      => rtc' = rtc ]_vars

\* A write cut short, by power, by the bus or by a pulse that starved the main
\* loop, may leave any mixture of two dates in the chip; a restart that reads
\* and writes the chip whole leaves the node with a time no older than the
\* initial one (hal_system_time_init).
BootGivesTime ==
  [][ pc = "reread" /\ pc' = "idle" /\ clean' => secs' >= InitialTime ]_vars

\* Setting the clock from the main loop ends, in the answer or in a restart,
\* even if the GPS pulse comes while the main loop owns the bus (twim_acquire).
SettingEnds == (pc \in Setting) ~> (pc \in {"idle", "off"})

\* "checking if we have no time or very old time": a restart only rewrites a
\* chip that holds a time older than the threshold.
RewrittenOnlyWhenOld ==
  [][ pc = "check" /\ agreed = "yes" /\ rtc' # rtc => kept < Threshold ]_vars

=============================================================================
