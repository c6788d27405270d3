-------------------------------- MODULE Clock --------------------------------
(***************************************************************************)
(* A wall clock that advances by the rules of the Gregorian calendar, next *)
(* to what the server computes from the seconds since the epoch: the date  *)
(* it prints (Civil) and the codes it accepts (TotpCode).                  *)
(***************************************************************************)
EXTENDS Civil, TotpCode

CONSTANTS
    DetailDays,   \* bound: on the first days the clock moves by seconds
    WholeDays     \* bound: days whose seconds fit TLC's 32-bit integers

VARIABLES
    day, sod,     \* days since 1 January 1970 and seconds of the day
    date, time    \* what the calendar and the clock on the wall show

vars == <<day, sod, date, time>>

LeapYear(y) == y % 4 = 0 /\ (y % 100 # 0 \/ y % 400 = 0)

MonthDays(y, m) ==
    CASE m = 2 -> IF LeapYear(y) THEN 29 ELSE 28
      [] m \in {4, 6, 9, 11} -> 30
      [] OTHER -> 31

\* The day after a date.
Tomorrow(x) ==
    IF x.d < MonthDays(x.y, x.m) THEN [x EXCEPT !.d = @ + 1]
    ELSE IF x.m < 12 THEN [x EXCEPT !.d = 1, !.m = @ + 1]
    ELSE [y |-> x.y + 1, m |-> 1, d |-> 1]

\* The second after a time of day, before midnight.
NextSecond(x) ==
    IF x.ss < 59 THEN [x EXCEPT !.ss = @ + 1]
    ELSE IF x.mm < 59 THEN [x EXCEPT !.ss = 0, !.mm = @ + 1]
    ELSE [hh |-> x.hh + 1, mm |-> 0, ss |-> 0]

Midnight == [hh |-> 0, mm |-> 0, ss |-> 0]

Init ==
    /\ day = 0 /\ sod = 0
    /\ date = [y |-> 1970, m |-> 1, d |-> 1]
    /\ time = Midnight

Second ==
    /\ day < DetailDays /\ sod < DAY_SECS - 1
    /\ sod' = sod + 1
    /\ time' = NextSecond(time)
    /\ UNCHANGED <<day, date>>

NewDay ==
    /\ day < ERA_DAYS
    /\ sod = 0 \/ sod = DAY_SECS - 1
    /\ day' = day + 1 /\ sod' = 0
    /\ date' = Tomorrow(date)
    /\ time' = Midnight

\* The calendar repeats after 400 years.
NewEra ==
    /\ day = ERA_DAYS /\ sod = 0
    /\ day' = 0
    /\ date' = [date EXCEPT !.y = @ - 400]
    /\ UNCHANGED <<sod, time>>

Next == Second \/ NewDay \/ NewEra

Spec == Init /\ [][Next]_vars

-----------------------------------------------------------------------------
(* Properties *)

\* The fields format_iso prints are those on the calendar and on the clock, on
\* every day of a 400-year cycle and in every second of a day.
PrintsTheCalendar ==
    /\ civil_date(day) = date /\ civil_time(sod) = time
    /\ day < WholeDays => format_iso(day * DAY_SECS + sod) = [date |-> date, time |-> time]

\* The codes an authenticator shows while its clock is at most `skew' seconds
\* off the server's.
CodesShown(now, skew) == {code_at(q) : q \in {x \in (now - skew)..(now + skew) : x >= 0}}

\* verify accepts the codes of clocks that are at most PERIOD_SECS * DRIFT_STEPS
\* off, at every second of a step and at the epoch, and no other code of the
\* steps around.
AcceptsWithinDrift ==
    day < DetailDays =>
        LET now == day * DAY_SECS + sod
            shown == CodesShown(now, PERIOD_SECS * DRIFT_STEPS)
            step == now \div PERIOD_SECS
        IN  \A s \in {x \in (step - 4)..(step + 4) : x >= 0} :
                verify(now, code_at_step(s)) <=> code_at_step(s) \in shown
=============================================================================
