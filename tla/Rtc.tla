-------------------------------- MODULE Rtc --------------------------------
(***************************************************************************)
(* The algorithms of rtc.c: the calendar (rtc_time_to_tm, tm_to_time,      *)
(* rtc_valid_tm), walked day by day beside a date that is counted the way  *)
(* people do, and the coarse calibration of the oscillator, a binary       *)
(* search.  A time is its number of days and the seconds within the day.   *)
(***************************************************************************)
EXTENDS Integers, FiniteSetsExt

CONSTANTS
    LastDay,     \* the last day of the walk; day 0 is 1970-01-01
    Seconds,     \* seconds within a day that are tried
    Lows, Widths \* tunings for which the oscillator is right: Low .. Low + Width

VARIABLES
    part,                    \* "calendar" or "calibration"
    day, date,               \* the walk: days since the epoch, and the date
    ftune, offset, try, lo, hi   \* rtc_calibration; the tunings it should find

vars == <<part, day, date, ftune, offset, try, lo, hi>>

-----------------------------------------------------------------------------
is_leap_year(year) == (year % 4 = 0 /\ year % 100 # 0) \/ year % 400 = 0

days_in_month == <<31, 28, 31, 30, 31, 30, 31, 31, 30, 31, 30, 31>>

\* A wrong version for comparison: February is always the same.
month_daysPlain(month, year) == days_in_month[month + 1]

(* Months count from 0.                                                    *)
month_days(month, year) ==
    days_in_month[month + 1] + IF is_leap_year(year) /\ month = 1 THEN 1 ELSE 0

LEAPS_THRU_END_OF(y) == y \div 4 - y \div 100 + y \div 400

(* The first month that the remaining days do not fill, December at last.  *)
DaysBefore(month, year) == MapThenSumSet(LAMBDA m : month_days(m, year), 0..(month - 1))
MonthOf(days, year) == Min({m \in 0..10 : days < DaysBefore(m + 1, year)} \cup {11})

rtc_time_to_tm(days, secs) ==
    LET guess == 1970 + days \div 365
        left == days - ((guess - 1970) * 365
                        + LEAPS_THRU_END_OF(guess - 1) - LEAPS_THRU_END_OF(1970 - 1))
        year == IF left < 0 THEN guess - 1 ELSE guess
        yday == IF left < 0 THEN left + 365 + (IF is_leap_year(year) THEN 1 ELSE 0) ELSE left
        month == MonthOf(yday, year)
    IN  [wday |-> (days + 4) % 7, year |-> year - 1900, yday |-> yday + 1,
         mon |-> month, mday |-> yday - DaysBefore(month, year) + 1,
         hour |-> secs \div 3600, min |-> (secs % 3600) \div 60, sec |-> secs % 60]

(* February is counted last, as the month of the leap day; days and the    *)
(* seconds within the day.                                                 *)
tm_to_time(year0, mon0, day0, hour, min, sec) ==
    LET early == mon0 + 1 - 2 <= 0
        mon == IF early THEN mon0 + 11 ELSE mon0 - 1
        year == year0 + 1900 - IF early THEN 1 ELSE 0
    IN  <<LEAPS_THRU_END_OF(year) + (367 * mon) \div 12 + day0 + year * 365 - 719499,
          (hour * 60 + min) * 60 + sec>>

rtc_valid_tm(tm) ==
    /\ tm.year <= 199 /\ tm.mon \in 0..11
    /\ tm.mday \in 1..month_days(tm.mon, tm.year + 1900)
    /\ tm.hour \in 0..23 /\ tm.min \in 0..59 /\ tm.sec \in 0..59

-----------------------------------------------------------------------------
(* The date that follows, by the calendar's rules.                         *)
Leap(y) == y % 4 = 0 /\ (y % 100 = 0 => y % 400 = 0)
LengthOf(m, y) == CASE m = 2 -> IF Leap(y) THEN 29 ELSE 28 [] m \in {4, 6, 9, 11} -> 30 [] OTHER -> 31

Tomorrow(d) ==
    [wday |-> (d.wday + 1) % 7,
     y |-> IF d.m = 12 /\ d.d = 31 THEN d.y + 1 ELSE d.y,
     m |-> IF d.d < LengthOf(d.m, d.y) THEN d.m ELSE (d.m % 12) + 1,
     d |-> IF d.d < LengthOf(d.m, d.y) THEN d.d + 1 ELSE 1,
     n |-> IF d.m = 12 /\ d.d = 31 THEN 1 ELSE d.n + 1]

Walk ==
    /\ part = "calendar" /\ day < LastDay
    /\ day' = day + 1 /\ date' = Tomorrow(date)
    /\ UNCHANGED <<part, ftune, offset, try, lo, hi>>

(* rtc_calibration: measure, stop if right, else move by half the last     *)
(* step.  The measured value falls as the tuning rises.                    *)
FirstOffset == 128

Calibrate ==
    /\ part = "calibration" /\ try > 0
    /\ IF ftune \in lo..hi THEN try' = 0 /\ UNCHANGED <<ftune, offset>>
       ELSE /\ ftune' = IF ftune < lo THEN ftune + offset ELSE ftune - offset
            /\ offset' = offset \div 2
            /\ try' = try - 1
    /\ UNCHANGED <<part, day, date, lo, hi>>

Init ==
    /\ part \in {"calendar", "calibration"}
    /\ day = 0
    /\ date = [wday |-> 4, y |-> 1970, m |-> 1, d |-> 1, n |-> 1]
    /\ ftune = 256 /\ offset = FirstOffset /\ try = 8
    /\ IF part = "calendar" THEN lo = 0 /\ hi = 0
       ELSE lo \in Lows /\ \E w \in Widths : hi = lo + w

Next == Walk \/ Calibrate

Spec == Init /\ [][Next]_vars

(* The types: the tuning is always within the nine bits it is given.       *)
TypeOK ==
    /\ day \in 0..LastDay /\ try \in 0..8 /\ ftune \in 1..511 /\ offset \in 0..128

(* The time is turned into the date it is: year, month, day, day of the    *)
(* week and of the year, and hours, minutes and seconds; the broken-down   *)
(* time is valid as long as its year is, and tm_to_time turns it back.     *)
CalendarRight ==
    part = "calendar" => \A s \in Seconds :
        LET tm == rtc_time_to_tm(day, s)
        IN  /\ <<tm.year + 1900, tm.mon + 1, tm.mday>> = <<date.y, date.m, date.d>>
            /\ <<tm.wday, tm.yday>> = <<date.wday, date.n>>
            /\ rtc_valid_tm(tm) <=> date.y < 2100
            /\ tm_to_time(tm.year, tm.mon, tm.mday, tm.hour, tm.min, tm.sec) = <<day, s>>

(* The calibration leaves the oscillator on a tuning that is right, if     *)
(* there is one: eight steps reach every value of the search, though the   *)
(* value of the last step is no longer measured.                           *)
TuningFound == (part = "calibration" /\ try = 0) => ftune \in lo..hi
=============================================================================
