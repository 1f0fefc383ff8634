----------------------------- MODULE CivilDate -----------------------------
(***************************************************************************)
(* discovery.rs: fmt_days, which turns a count of days since 1970-01-01    *)
(* into a civil date by arithmetic alone, next to the calendar itself,     *)
(* which is advanced one day at a time by the rules everybody knows.       *)
(*                                                                         *)
(* StandaloneProofs shows that the two agree for ever.                      *)
(***************************************************************************)
EXTENDS Integers

CONSTANT LastDay  \* bound: the calendar is read up to this day

VARIABLES day,    \* days since 1970-01-01
          date    \* its date

calendar == <<day, date>>

-----------------------------------------------------------------------------
(* fmt_days()                                                              *)

\* The code divides towards zero, after taking 146096 off a negative count:
\* together that is \div, which rounds down.
DayOfEra(z) == z % 146097
Era(z) == z \div 146097

YearOfEraShort(doe) == (doe - doe \div 1460 + doe \div 36524) \div 365
YearOfEra(doe) == (doe - doe \div 1460 + doe \div 36524 - doe \div 146096) \div 365

FmtDays(days) ==
    LET z == days + 719468
        doe == DayOfEra(z)
        yoe == YearOfEra(doe)
        doy == doe - (365 * yoe + yoe \div 4 - yoe \div 100)
        mp == (5 * doy + 2) \div 153
        m == IF mp < 10 THEN mp + 3 ELSE mp - 9
    IN  [year  |-> yoe + Era(z) * 400 + IF m <= 2 THEN 1 ELSE 0,
         month |-> m,
         day   |-> doy - (153 * mp + 2) \div 5 + 1]

-----------------------------------------------------------------------------
(* The calendar                                                            *)

IsLeap(y) == y % 4 = 0 /\ (y % 100 # 0 \/ y % 400 = 0)

DaysIn(y, m) ==
    IF m = 2 THEN IF IsLeap(y) THEN 29 ELSE 28
    ELSE IF m \in {4, 6, 9, 11} THEN 30 ELSE 31

DayAfter(d) ==
    IF d.day < DaysIn(d.year, d.month) THEN [d EXCEPT !.day = @ + 1]
    ELSE IF d.month < 12 THEN [year |-> d.year, month |-> d.month + 1, day |-> 1]
    ELSE [year |-> d.year + 1, month |-> 1, day |-> 1]

CalendarInit == day = 0 /\ date = [year |-> 1970, month |-> 1, day |-> 1]

\* Midnight, UTC.
Midnight ==
    /\ day < LastDay
    /\ day' = day + 1
    /\ date' = DayAfter(date)

CalendarSpec == CalendarInit /\ [][Midnight]_calendar

-----------------------------------------------------------------------------
(* Properties                                                              *)

\* The date fmt_days computes is the one the calendar shows, leap days and turns
\* of centuries included.
FmtDaysIsTheDate == FmtDays(day) = date
=============================================================================
