-------------------------------- MODULE Civil --------------------------------
(***************************************************************************)
(* The timestamps of profile summaries (format_iso and secs_to_civil of    *)
(* src/src/routes/profiles.rs): unix seconds to a date and a time of day,  *)
(* by arithmetic on eras of 400 years that begin on 1 March of year 0.     *)
(* The layout of the text, every field zero-padded, is left out.           *)
(***************************************************************************)
EXTENDS Integers

DAY_SECS == 86400

ERA_DAYS == 146097

\* Day of the era that begins on 1 March; days are counted from 1 January 1970.
era(days) == (days + 719468) \div ERA_DAYS
doe(days) == (days + 719468) - era(days) * ERA_DAYS

\* Mutant: the correction for the day that ends an era is missing.
yoeUncorrected(e) == (e - e \div 1460 + e \div 36524) \div 365

\* Year of the era, given the day of the era.
yoe(e) == (e - e \div 1460 + e \div 36524 - e \div 146096) \div 365

\* Day of the year and month, both counted from March.
doy(e) == e - (365 * yoe(e) + yoe(e) \div 4 - yoe(e) \div 100)
mp(e) == (5 * doy(e) + 2) \div 153

\* January and February belong to the next civil year.
civil_date(days) ==
    LET e == doe(days)
        m == IF mp(e) < 10 THEN mp(e) + 3 ELSE mp(e) - 9
        y == yoe(e) + era(days) * 400
    IN  [y |-> IF m <= 2 THEN y + 1 ELSE y,
         m |-> m,
         d |-> doy(e) - (153 * mp(e) + 2) \div 5 + 1]

civil_time(s) == [hh |-> s \div 3600, mm |-> (s \div 60) % 60, ss |-> s % 60]

secs_to_civil(secs) ==
    [date |-> civil_date(secs \div DAY_SECS), time |-> civil_time(secs % DAY_SECS)]

\* Negative timestamps count as the epoch.
format_iso(secs) == secs_to_civil(IF secs < 0 THEN 0 ELSE secs)
=============================================================================
