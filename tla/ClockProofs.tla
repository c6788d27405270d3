----------------------------- MODULE ClockProofs -----------------------------
(***************************************************************************)
(* The arithmetic of secs_to_civil is the Gregorian calendar, on every day *)
(* from the epoch on and in every second of a day; and the drift window of *)
(* verify, with the code's period and drift, is exact at every time.       *)
(***************************************************************************)
EXTENDS Clock, TLAPS

\* format_iso prints the date of the day and the time of the second of the day.
THEOREM SplitsSeconds ==
    ASSUME NEW n \in Nat, NEW s \in Int, 0 <= s, s < DAY_SECS
    PROVE  format_iso(n * DAY_SECS + s) = [date |-> civil_date(n), time |-> civil_time(s)]
<1> DEFINE secs == n * 86400 + s
<1>1. s < 86400
  BY DEF DAY_SECS
<1>2. secs \in Nat /\ secs \div 86400 = n /\ secs % 86400 = s
  BY <1>1, SMTT(30)
<1> HIDE DEF secs
<1>3. format_iso(secs) = secs_to_civil(secs)
  BY <1>2 DEF format_iso
<1>4. secs_to_civil(secs) = [date |-> civil_date(n), time |-> civil_time(s)]
  BY <1>2 DEF secs_to_civil, DAY_SECS
<1>5. QED
  BY <1>3, <1>4 DEF secs, DAY_SECS

-----------------------------------------------------------------------------

\* Integer division of a number that is one era larger.
LEMMA DivEra ==
    ASSUME NEW n \in Nat
    PROVE  /\ (n + 146097) \div 146097 = (n \div 146097) + 1
           /\ n \div 146097 \in Nat
BY SMTT(30)

\* A 400-year cycle later the day of the era is the same, the era the next.
LEMMA NextEra ==
    ASSUME NEW days \in Nat
    PROVE  /\ era(days) \in Nat
           /\ era(days + ERA_DAYS) = era(days) + 1
           /\ doe(days) \in Int
           /\ doe(days + ERA_DAYS) = doe(days)
<1> DEFINE n == days + 719468
<1>1. n \in Nat /\ (days + ERA_DAYS) + 719468 = n + 146097
  BY DEF ERA_DAYS
<1>2. era(days) = n \div 146097 /\ era(days + ERA_DAYS) = (n + 146097) \div 146097
  BY <1>1 DEF era, ERA_DAYS
<1>3. era(days) \in Nat /\ era(days + ERA_DAYS) = era(days) + 1
  BY <1>1, <1>2, DivEra
<1>4. doe(days) = n - era(days) * 146097
  BY DEF doe, ERA_DAYS
<1>5. doe(days + ERA_DAYS) = (n + 146097) - era(days + ERA_DAYS) * 146097
  BY <1>1 DEF doe, ERA_DAYS
<1>6. QED
  <2> HIDE DEF n
  <2>1. doe(days) \in Int
    BY <1>1, <1>3, <1>4
  <2>2. doe(days + ERA_DAYS) = doe(days)
    BY <1>1, <1>3, <1>4, <1>5
  <2>3. QED
    BY <1>3, <2>1, <2>2

\* The year of the era is a number.
LEMMA YoeType ==
    ASSUME NEW e \in Int
    PROVE  yoe(e) \in Int
BY SMTT(30) DEF yoe

\* secs_to_civil repeats every 400 years with the year moved on: what holds for
\* one cycle of the calendar holds for all that follow.
THEOREM EraPeriodic ==
    ASSUME NEW days \in Nat
    PROVE  LET x == civil_date(days)
               z == civil_date(days + ERA_DAYS)
           IN  z.y = x.y + 400 /\ z.m = x.m /\ z.d = x.d
<1>1. /\ era(days) \in Nat /\ era(days + ERA_DAYS) = era(days) + 1
      /\ doe(days) \in Int /\ doe(days + ERA_DAYS) = doe(days)
  BY NextEra
<1>2. yoe(doe(days)) \in Int
  BY <1>1, YoeType
<1> DEFINE e == doe(days)
           m == IF mp(e) < 10 THEN mp(e) + 3 ELSE mp(e) - 9
           Y(a) == IF m <= 2 THEN yoe(e) + a * 400 + 1 ELSE yoe(e) + a * 400
<1>3. /\ civil_date(days).y = Y(era(days))
      /\ civil_date(days).m = m
      /\ civil_date(days).d = doy(e) - (153 * mp(e) + 2) \div 5 + 1
  BY DEF civil_date
<1>4. /\ civil_date(days + ERA_DAYS).y = Y(era(days) + 1)
      /\ civil_date(days + ERA_DAYS).m = m
      /\ civil_date(days + ERA_DAYS).d = doy(e) - (153 * mp(e) + 2) \div 5 + 1
  BY <1>1 DEF civil_date
<1>5. Y(era(days) + 1) = Y(era(days)) + 400
  <2> HIDE DEF m
  <2>1. yoe(e) + (era(days) + 1) * 400 = yoe(e) + era(days) * 400 + 400
    BY <1>1, <1>2
  <2>2. yoe(e) + era(days) * 400 \in Int
    BY <1>1, <1>2
  <2>3. QED
    BY <2>1, <2>2
<1>6. QED
  BY <1>3, <1>4, <1>5

-----------------------------------------------------------------------------
(* The calendar *)

\* The last day of year y of an era, from March: the leap day that ends it is the
\* one of the next civil year.
LastDay(y) == IF LeapYear(y + 1) THEN 365 ELSE 364

\* Days of an era before its year y.
Before(y) == 365 * y + y \div 4 - y \div 100

\* The year that yoe computes, and what is left of the days: at most a year.
LEMMA YearArithmetic ==
    ASSUME NEW e \in Int, 0 <= e, e <= 146096, NEW y \in Int,
           y = (e - e \div 1460 + e \div 36524 - e \div 146096) \div 365
    PROVE  /\ 0 <= y /\ y <= 399
           /\ 0 <= e - (365 * y + y \div 4 - y \div 100)
           /\ e - (365 * y + y \div 4 - y \div 100) <= 365
           /\ e - (365 * y + y \div 4 - y \div 100) = 365
              => (y + 1) % 4 = 0 /\ ((y + 1) % 100 # 0 \/ (y + 1) % 400 = 0)
<1>1. 0 <= y /\ y <= 399
  BY SMTT(60)
<1>2. 0 <= e - (365 * y + y \div 4 - y \div 100)
  BY SMTT(60)
<1>3. e - (365 * y + y \div 4 - y \div 100) <= 365
  BY SMTT(60)
<1>4. e - (365 * y + y \div 4 - y \div 100) = 365
      => (y + 1) % 4 = 0 /\ ((y + 1) % 100 # 0 \/ (y + 1) % 400 = 0)
  BY SMTT(60)
<1>5. QED
  BY <1>1, <1>2, <1>3, <1>4

\* The last day of a year is its 365th or its 366th.
LEMMA LastDays ==
    ASSUME NEW y \in Int
    PROVE  LastDay(y) \in {364, 365} /\ (LastDay(y) = 365 <=> LeapYear(y + 1))
BY DEF LastDay

\* The year of the era and the day of the year, for every day of an era.
LEMMA YearOfEra ==
    ASSUME NEW e \in Int, 0 <= e, e <= 146096
    PROVE  /\ yoe(e) \in Int /\ 0 <= yoe(e) /\ yoe(e) <= 399
           /\ doy(e) = e - Before(yoe(e))
           /\ Before(yoe(e)) \in Int
           /\ doy(e) \in Int /\ 0 <= doy(e) /\ doy(e) <= LastDay(yoe(e))
<1> DEFINE y == yoe(e)
<1>2. y \in Int /\ y = (e - e \div 1460 + e \div 36524 - e \div 146096) \div 365
  BY SMTT(30) DEF yoe
<1>3. doy(e) = e - (365 * y + y \div 4 - y \div 100)
  BY DEF doy
<1> HIDE DEF y
<1>4. Before(y) = 365 * y + y \div 4 - y \div 100 /\ Before(y) \in Int
  BY <1>2 DEF Before
<1>5. /\ 0 <= y /\ y <= 399
      /\ 0 <= doy(e) /\ doy(e) <= 365
      /\ doy(e) = 365 => (y + 1) % 4 = 0 /\ ((y + 1) % 100 # 0 \/ (y + 1) % 400 = 0)
  BY <1>2, <1>3, YearArithmetic
<1>6. doy(e) = 365 => LastDay(y) = 365
  BY <1>5 DEF LastDay, LeapYear
<1>7. doy(e) \in Int
  BY <1>3, <1>4
<1>8. doy(e) <= LastDay(y)
  BY <1>2, <1>5, <1>6, <1>7, LastDays
<1>9. QED
  BY <1>2, <1>3, <1>4, <1>5, <1>7, <1>8 DEF y

\* The years of an era follow each other without a gap.
LEMMA YearsAdjoin ==
    ASSUME NEW y \in Int, 0 <= y, y <= 399, NEW z \in Int, z <= 399
    PROVE  /\ y < 399 => Before(y + 1) = Before(y) + LastDay(y) + 1
           /\ y < z => Before(y) + LastDay(y) < Before(z)
<1>2. Before(y) = 365 * y + y \div 4 - y \div 100 /\ Before(y) \in Int
  BY DEF Before
<1>3. Before(y + 1) = 365 * (y + 1) + (y + 1) \div 4 - (y + 1) \div 100 /\ Before(y + 1) \in Int
  BY DEF Before
<1>4. Before(z) = 365 * z + z \div 4 - z \div 100 /\ Before(z) \in Int
  BY DEF Before
<1>5. ASSUME y < 399 PROVE Before(y + 1) = Before(y) + LastDay(y) + 1
  <2>1. CASE LeapYear(y + 1)
    <3>1. (y + 1) % 4 = 0 /\ ((y + 1) % 100 # 0 \/ (y + 1) % 400 = 0)
      BY <2>1 DEF LeapYear
    <3>2. 365 * (y + 1) + (y + 1) \div 4 - (y + 1) \div 100
          = (365 * y + y \div 4 - y \div 100) + 366
      BY <1>5, <3>1, SMTT(30)
    <3>3. QED
      BY <1>2, <1>3, <2>1, <3>2 DEF LastDay
  <2>2. CASE ~LeapYear(y + 1)
    <3>1. ~((y + 1) % 4 = 0 /\ ((y + 1) % 100 # 0 \/ (y + 1) % 400 = 0))
      BY <2>2 DEF LeapYear
    <3>2. 365 * (y + 1) + (y + 1) \div 4 - (y + 1) \div 100
          = (365 * y + y \div 4 - y \div 100) + 365
      BY <1>5, <3>1, SMTT(30)
    <3>3. QED
      BY <1>2, <1>3, <2>2, <3>2 DEF LastDay
  <2>3. QED
    BY <2>1, <2>2
<1>6. ASSUME y < z PROVE Before(y) + LastDay(y) < Before(z)
  <2>1. 365 * (y + 1) + (y + 1) \div 4 - (y + 1) \div 100 <= 365 * z + z \div 4 - z \div 100
    BY <1>6, SMTT(30)
  <2>2. y < 399
    BY <1>6
  <2>3. LastDay(y) \in Int
    BY LastDays
  <2>4. QED
    BY <1>2, <1>3, <1>4, <1>5, <2>1, <2>2, <2>3
<1>7. QED
  BY <1>5, <1>6

\* A day later within an era: the next day of the year, or the first of the next.
LEMMA NextDayOfEra ==
    ASSUME NEW e \in Int, 0 <= e, e < 146096
    PROVE  /\ doy(e) < LastDay(yoe(e)) => yoe(e + 1) = yoe(e) /\ doy(e + 1) = doy(e) + 1
           /\ doy(e) = LastDay(yoe(e)) => yoe(e + 1) = yoe(e) + 1 /\ doy(e + 1) = 0
<1> DEFINE y == yoe(e)
           z == yoe(e + 1)
<1>1. e + 1 \in Int /\ 0 <= e + 1 /\ e + 1 <= 146096 /\ e <= 146096
  OBVIOUS
<1>2. /\ y \in Int /\ 0 <= y /\ y <= 399 /\ doy(e) = e - Before(y)
      /\ doy(e) \in Int /\ 0 <= doy(e) /\ doy(e) <= LastDay(y) /\ Before(y) \in Int
  BY <1>1, YearOfEra
<1>3. /\ z \in Int /\ 0 <= z /\ z <= 399 /\ doy(e + 1) = (e + 1) - Before(z)
      /\ doy(e + 1) \in Int /\ 0 <= doy(e + 1) /\ doy(e + 1) <= LastDay(z) /\ Before(z) \in Int
  BY <1>1, YearOfEra
<1> HIDE DEF y, z
<1>4. LastDay(y) \in {364, 365} /\ LastDay(z) \in {364, 365}
  BY <1>2, <1>3, LastDays
<1>5. /\ y < z => Before(y) + LastDay(y) < Before(z)
      /\ z < y => Before(z) + LastDay(z) < Before(y)
  BY <1>2, <1>3, YearsAdjoin
<1>6. ASSUME doy(e) < LastDay(y) PROVE z = y /\ doy(e + 1) = doy(e) + 1
  <2>1. ~(y < z)
    BY <1>1, <1>2, <1>3, <1>4, <1>5, <1>6
  <2>2. ~(z < y)
    BY <1>1, <1>2, <1>3, <1>4, <1>5, <1>6
  <2>3. QED
    BY <1>1, <1>2, <1>3, <2>1, <2>2
<1>7. ASSUME doy(e) = LastDay(y) PROVE z = y + 1 /\ doy(e + 1) = 0
  <2>1. y < z
    <3>1. ~(z < y)
      BY <1>1, <1>2, <1>3, <1>4, <1>5, <1>7
    <3>2. z # y
      BY <1>1, <1>2, <1>3, <1>4, <1>7
    <3>3. QED
      BY <1>2, <1>3, <3>1, <3>2
  <2>2. y < 399 /\ y + 1 \in Int /\ 0 <= y + 1 /\ y + 1 <= 399
    BY <1>2, <1>3, <2>1
  <2>3. Before(y + 1) = Before(y) + LastDay(y) + 1
    BY <1>2, <2>2, YearsAdjoin
  <2>4. LastDay(y + 1) \in {364, 365}
    BY <1>2, <2>2, LastDays
  <2>5. y + 1 < z => Before(y + 1) + LastDay(y + 1) < Before(z)
    BY <1>3, <2>2, YearsAdjoin
  <2>6. ~(y + 1 < z)
    BY <1>1, <1>2, <1>3, <1>4, <1>7, <2>3, <2>4, <2>5
  <2>7. z = y + 1
    BY <1>2, <1>3, <2>1, <2>6
  <2>8. QED
    BY <1>1, <1>2, <1>3, <1>4, <1>7, <2>3, <2>7
<1>8. QED
  BY <1>6, <1>7 DEF y, z

\* Days of month k, counted from March; the last one ends with the year.
DaysFromMarch(k) == IF k \in {1, 3, 6, 8} THEN 30 ELSE 31

\* The month that mp computes and the day in it, on a day n and the day after: the
\* arithmetic with 153 and 5 lays out months of 31, 30, 31, 30, 31 days.
LEMMA MonthArithmetic ==
    ASSUME NEW n \in Int, 0 <= n, n <= 365,
           NEW k \in Int, k = (5 * n + 2) \div 153,
           NEW d \in Int, d = n - (153 * k + 2) \div 5 + 1,
           NEW j \in Int, j = (5 * (n + 1) + 2) \div 153,
           NEW c \in Int, c = (n + 1) - (153 * j + 2) \div 5 + 1
    PROVE  /\ 0 <= k /\ k <= 11
           /\ 1 <= d
           /\ k = 11 => d = n - 336
           /\ n >= 364 => k = 11
           /\ k = 11 /\ n < 365 => j = 11 /\ c = d + 1
           /\ k < 11 => /\ d <= DaysFromMarch(k)
                        /\ d < DaysFromMarch(k) => j = k /\ c = d + 1
                        /\ d = DaysFromMarch(k) => j = k + 1 /\ c = 1
<1>1. /\ 0 <= k /\ k <= 11
      /\ 1 <= d
      /\ k = 11 => d = n - 336
      /\ n >= 364 => k = 11
  BY SMTT(60)
<1>2. k = 11 /\ n < 365 => j = 11 /\ c = d + 1
  BY SMTT(60)
<1>3. k < 11 => /\ d <= DaysFromMarch(k)
                /\ d < DaysFromMarch(k) => j = k /\ c = d + 1
                /\ d = DaysFromMarch(k) => j = k + 1 /\ c = 1
  <2>1. CASE k \in {1, 3, 6, 8}
    BY <1>1, <2>1, SMTT(60) DEF DaysFromMarch
  <2>2. CASE k \notin {1, 3, 6, 8}
    BY <1>1, <2>2, SMTT(60) DEF DaysFromMarch
  <2>3. QED
    BY <2>1, <2>2
<1>4. QED
  BY <1>1, <1>2, <1>3

\* Leap years repeat every 400 years.
LEMMA LeapYearsRepeat ==
    ASSUME NEW y \in Int, NEW a \in Int, NEW w \in Int, w = y + 400 * a + 1
    PROVE  LeapYear(w) <=> LeapYear(y + 1)
<1>1. w % 400 = (y + 1) % 400
  BY SMTT(30)
<1>2. w % 100 = (y + 1) % 100
  BY SMTT(30)
<1>3. w % 4 = (y + 1) % 4
  BY SMTT(30)
<1>4. QED
  BY <1>1, <1>2, <1>3 DEF LeapYear

\* Tomorrow's record at the end of a month.
LEMMA NextMonth ==
    ASSUME NEW Z, NEW m, NEW d
    PROVE  [[y |-> Z, m |-> m, d |-> d] EXCEPT !.d = 1, !.m = @ + 1]
           = [y |-> Z, m |-> m + 1, d |-> 1]
<1> DEFINE r == [y |-> Z, m |-> m, d |-> d]
           s == [r EXCEPT !.d = 1]
<1>1. s = [y |-> Z, m |-> m, d |-> 1]
  OBVIOUS
<1>2. [[y |-> Z, m |-> m, d |-> 1] EXCEPT !.m = @ + 1] = [y |-> Z, m |-> m + 1, d |-> 1]
  OBVIOUS
<1> HIDE DEF r
<1>3. [r EXCEPT !.d = 1, !.m = @ + 1] = [s EXCEPT !.m = @ + 1]
  OBVIOUS
<1> HIDE DEF s
<1>4. QED
  BY <1>1, <1>2, <1>3 DEF r

\* The date of day n of year y of era a, given the month k.
DateOf(a, y, n, k) ==
    [y |-> IF k < 10 THEN y + 400 * a ELSE y + 400 * a + 1,
     m |-> IF k < 10 THEN k + 3 ELSE k - 9,
     d |-> n - (153 * k + 2) \div 5 + 1]

\* civil_date in these terms.
LEMMA CivilDate ==
    ASSUME NEW days, NEW a \in Int, NEW y \in Int, NEW n \in Int, NEW k \in Int,
           a = era(days), y = yoe(doe(days)), n = doy(doe(days)),
           k = (5 * n + 2) \div 153, 0 <= k, k <= 11
    PROVE  civil_date(days) = DateOf(a, y, n, k)
<1>1. mp(doe(days)) = k
  BY DEF mp
<1>2. civil_date(days) =
        LET m == IF k < 10 THEN k + 3 ELSE k - 9
        IN  [y |-> IF m <= 2 THEN y + a * 400 + 1 ELSE y + a * 400,
             m |-> m,
             d |-> n - (153 * k + 2) \div 5 + 1]
  BY <1>1 DEF civil_date
<1>3. y + a * 400 = y + 400 * a
  OBVIOUS
<1>4. CASE k < 10
  BY <1>2, <1>3, <1>4 DEF DateOf
<1>5. CASE k >= 10
  BY <1>2, <1>3, <1>5 DEF DateOf
<1>6. QED
  BY <1>4, <1>5

\* The day after, in the same year from March.
LEMMA TomorrowSameYear ==
    ASSUME NEW a \in Int, NEW y \in Int, NEW n \in Int, 0 <= n, n < LastDay(y),
           NEW k \in Int, k = (5 * n + 2) \div 153,
           NEW j \in Int, j = (5 * (n + 1) + 2) \div 153
    PROVE  /\ 0 <= j /\ j <= 11
           /\ Tomorrow(DateOf(a, y, n, k)) = DateOf(a, y, n + 1, j)
<1> DEFINE d == n - (153 * k + 2) \div 5 + 1
           c == (n + 1) - (153 * j + 2) \div 5 + 1
           Y == y + 400 * a
<1>1. LastDay(y) \in {364, 365} /\ (LastDay(y) = 365 <=> LeapYear(y + 1))
  BY LastDays
<1>2. n < 365 /\ n + 1 <= 365
  BY <1>1
<1>3. d \in Int /\ c \in Int /\ Y \in Int
  OBVIOUS
<1>4. /\ DateOf(a, y, n, k) = [y |-> IF k < 10 THEN Y ELSE Y + 1,
                               m |-> IF k < 10 THEN k + 3 ELSE k - 9, d |-> d]
      /\ DateOf(a, y, n + 1, j) = [y |-> IF j < 10 THEN Y ELSE Y + 1,
                                   m |-> IF j < 10 THEN j + 3 ELSE j - 9, d |-> c]
  BY DEF DateOf
<1>5. LeapYear(Y + 1) <=> LeapYear(y + 1)
  <2>1. Y + 1 \in Int /\ Y + 1 = y + 400 * a + 1
    OBVIOUS
  <2> HIDE DEF Y
  <2>2. QED
    BY <2>1, LeapYearsRepeat
<1>6. d = n - (153 * k + 2) \div 5 + 1 /\ c = (n + 1) - (153 * j + 2) \div 5 + 1
  OBVIOUS
<1> HIDE DEF d, c, Y
<1>7. /\ 0 <= k /\ k <= 11 /\ 1 <= d
      /\ k = 11 => d = n - 336 /\ j = 11 /\ c = d + 1
      /\ k < 11 => /\ d <= DaysFromMarch(k)
                   /\ d < DaysFromMarch(k) => j = k /\ c = d + 1
                   /\ d = DaysFromMarch(k) => j = k + 1 /\ c = 1
  BY <1>2, <1>3, <1>6, MonthArithmetic
<1>8. DaysFromMarch(k) \in {30, 31}
  BY DEF DaysFromMarch
<1>9. CASE k = 11
  <2>1. MonthDays(Y + 1, 2) = IF LeapYear(y + 1) THEN 29 ELSE 28
    BY <1>5 DEF MonthDays
  <2>2. d < MonthDays(Y + 1, 2)
    BY <1>1, <1>7, <1>9, <2>1
  <2>3. DateOf(a, y, n, k) = [y |-> Y + 1, m |-> 2, d |-> d]
    BY <1>4, <1>9
  <2>4. DateOf(a, y, n + 1, j) = [y |-> Y + 1, m |-> 2, d |-> d + 1]
    BY <1>4, <1>7, <1>9
  <2>5. QED
    BY <1>7, <1>9, <2>2, <2>3, <2>4 DEF Tomorrow
<1>10. ASSUME k < 11, d < DaysFromMarch(k) PROVE Tomorrow(DateOf(a, y, n, k)) = DateOf(a, y, n + 1, j)
  <2> DEFINE Z == IF k < 10 THEN Y ELSE Y + 1
             m == IF k < 10 THEN k + 3 ELSE k - 9
  <2>1. DateOf(a, y, n, k) = [y |-> Z, m |-> m, d |-> d]
    BY <1>4
  <2>2. DateOf(a, y, n + 1, j) = [y |-> Z, m |-> m, d |-> d + 1]
    BY <1>4, <1>7, <1>10
  <2>3. MonthDays(Z, m) = DaysFromMarch(k)
    BY <1>7, <1>10 DEF MonthDays, DaysFromMarch
  <2> HIDE DEF Z, m
  <2>4. QED
    BY <1>10, <2>1, <2>2, <2>3 DEF Tomorrow
<1>11. ASSUME k < 11, d = DaysFromMarch(k) PROVE Tomorrow(DateOf(a, y, n, k)) = DateOf(a, y, n + 1, j)
  <2> DEFINE Z == IF k < 10 THEN Y ELSE Y + 1
             m == IF k < 10 THEN k + 3 ELSE k - 9
  <2>1. DateOf(a, y, n, k) = [y |-> Z, m |-> m, d |-> d]
    BY <1>4
  <2>2. MonthDays(Z, m) = DaysFromMarch(k)
    BY <1>7, <1>11 DEF MonthDays, DaysFromMarch
  <2>3. j = k + 1 /\ c = 1
    BY <1>7, <1>11
  <2>4. CASE k = 9
    <3>1. Z = Y /\ m = 12
      BY <2>4
    <3>2. DateOf(a, y, n + 1, j) = [y |-> Z + 1, m |-> 1, d |-> 1]
      BY <1>4, <2>3, <2>4, <3>1
    <3> HIDE DEF Z, m
    <3>3. QED
      BY <1>8, <1>11, <2>1, <2>2, <3>1, <3>2 DEF Tomorrow
  <2>5. CASE k # 9
    <3>1. m \in Int /\ m < 12
      BY <1>7, <1>11, <2>5
    <3>2. DateOf(a, y, n + 1, j) = [y |-> Z, m |-> m + 1, d |-> 1]
      BY <1>4, <1>7, <1>11, <2>3, <2>5
    <3> HIDE DEF Z, m
    <3>3. ~(d < MonthDays(Z, m))
      BY <1>8, <1>11, <2>2
    <3>4. Tomorrow([y |-> Z, m |-> m, d |-> d]) = [[y |-> Z, m |-> m, d |-> d] EXCEPT !.d = 1, !.m = @ + 1]
      BY <3>1, <3>3 DEF Tomorrow
    <3>5. [[y |-> Z, m |-> m, d |-> d] EXCEPT !.d = 1, !.m = @ + 1] = [y |-> Z, m |-> m + 1, d |-> 1]
      BY NextMonth
    <3>6. QED
      BY <2>1, <3>2, <3>4, <3>5
  <2>6. QED
    BY <2>4, <2>5
<1>12. 0 <= j /\ j <= 11
  BY <1>7, <1>8, <1>3
<1>13. QED
  BY <1>3, <1>7, <1>8, <1>9, <1>10, <1>11, <1>12

\* The day after the last day of February is 1 March.
LEMMA TomorrowIsMarch ==
    ASSUME NEW a \in Int, NEW y \in Int, NEW n \in Int, n = LastDay(y)
    PROVE  Tomorrow(DateOf(a, y, n, 11)) = [y |-> y + 400 * a + 1, m |-> 3, d |-> 1]
<1> DEFINE Y == y + 400 * a + 1
<1>1. n \in {364, 365} /\ (n = 365 <=> LeapYear(y + 1))
  BY LastDays
<1>2. (153 * 11 + 2) \div 5 = 337
  BY SMTT(30)
<1>3. DateOf(a, y, n, 11) = [y |-> Y, m |-> 2, d |-> n - 336]
  BY <1>1, <1>2 DEF DateOf
<1>4. Y \in Int /\ Y = y + 400 * a + 1
  OBVIOUS
<1> HIDE DEF Y
<1>5. LeapYear(Y) <=> LeapYear(y + 1)
  <2>1. \A w \in Int : w = y + 400 * a + 1 => (LeapYear(w) <=> LeapYear(y + 1))
    BY LeapYearsRepeat
  <2>2. QED
    BY <1>4, <2>1, Zenon
<1>6. MonthDays(Y, 2) = n - 336
  BY <1>1, <1>5 DEF MonthDays
<1>7. Tomorrow([y |-> Y, m |-> 2, d |-> n - 336]) = [y |-> Y, m |-> 3, d |-> 1]
  <2>1. ~(n - 336 < MonthDays(Y, 2))
    BY <1>1, <1>6
  <2>2. Tomorrow([y |-> Y, m |-> 2, d |-> n - 336])
        = [[y |-> Y, m |-> 2, d |-> n - 336] EXCEPT !.d = 1, !.m = @ + 1]
    BY <2>1 DEF Tomorrow
  <2>3. [[y |-> Y, m |-> 2, d |-> n - 336] EXCEPT !.d = 1, !.m = @ + 1]
        = [y |-> Y, m |-> 2 + 1, d |-> 1]
    BY NextMonth
  <2>4. QED
    BY <2>2, <2>3
<1>8. QED
  BY <1>3, <1>4, <1>7

\* Eras are 146097 days long.
LEMMA EraArithmetic ==
    ASSUME NEW N \in Nat, NEW a \in Int, a = N \div 146097, NEW e \in Int, e = N - a * 146097
    PROVE  /\ 0 <= e /\ e <= 146096
           /\ e < 146096 => (N + 1) \div 146097 = a /\ (N + 1) - a * 146097 = e + 1
           /\ e = 146096 => (N + 1) \div 146097 = a + 1 /\ (N + 1) - (a + 1) * 146097 = 0
BY SMTT(60)

\* The first and the last day of an era.
LEMMA EndsOfEra ==
    /\ yoe(0) = 0 /\ doy(0) = 0
    /\ yoe(146096) = 399 /\ doy(146096) = 365 /\ LastDay(399) = 365
<1>1. yoe(0) = 0
  BY SMTT(30) DEF yoe
<1>2. doy(0) = 0
  BY <1>1, SMTT(30) DEF doy
<1>3. yoe(146096) = 399
  BY SMTT(30) DEF yoe
<1>4. doy(146096) = 365
  BY <1>3, SMTT(30) DEF doy
<1>5. LastDay(399) = 365
  BY SMTT(30) DEF LastDay, LeapYear
<1>6. QED
  BY <1>1, <1>2, <1>3, <1>4, <1>5

\* secs_to_civil: the date of the next day is the next date of the calendar, on
\* every day from the epoch on.
THEOREM NextDateIsTomorrow ==
    ASSUME NEW days \in Nat
    PROVE  civil_date(days + 1) = Tomorrow(civil_date(days))
<1> DEFINE N == days + 719468
           a == era(days)
           e == doe(days)
           y == yoe(e)
           n == doy(e)
           k == (5 * n + 2) \div 153
<1>1. N \in Nat /\ a \in Int /\ a = N \div 146097 /\ e \in Int /\ e = N - a * 146097
  BY SMTT(30) DEF era, doe, ERA_DAYS
<1>2. era(days + 1) = (N + 1) \div 146097
  <2>1. (days + 1) + 719468 = N + 1
    OBVIOUS
  <2>2. QED
    BY <2>1 DEF era, ERA_DAYS
<1>3. doe(days + 1) = (N + 1) - era(days + 1) * 146097
  <2>1. (days + 1) + 719468 = N + 1
    OBVIOUS
  <2>2. QED
    BY <2>1 DEF doe, ERA_DAYS
<1> HIDE DEF N, a, e
<1>4. /\ 0 <= e /\ e <= 146096
      /\ e < 146096 => era(days + 1) = a /\ doe(days + 1) = e + 1
      /\ e = 146096 => era(days + 1) = a + 1 /\ doe(days + 1) = 0
  <2>1. /\ 0 <= e /\ e <= 146096
        /\ e < 146096 => (N + 1) \div 146097 = a /\ (N + 1) - a * 146097 = e + 1
        /\ e = 146096 => (N + 1) \div 146097 = a + 1 /\ (N + 1) - (a + 1) * 146097 = 0
    BY <1>1, EraArithmetic
  <2>2. QED
    BY <1>2, <1>3, <2>1
<1>5. /\ y \in Int /\ 0 <= y /\ y <= 399
      /\ n \in Int /\ 0 <= n /\ n <= LastDay(y)
      /\ LastDay(y) \in {364, 365}
  <2>1. /\ y \in Int /\ 0 <= y /\ y <= 399
        /\ n \in Int /\ 0 <= n /\ n <= LastDay(y)
    BY <1>1, <1>4, YearOfEra
  <2> HIDE DEF y, n
  <2>2. QED
    BY <2>1, LastDays
<1> HIDE DEF y, n
<1>6. k \in Int /\ k = (5 * n + 2) \div 153 /\ 0 <= k /\ k <= 11 /\ (n >= 364 => k = 11)
  BY <1>5, SMTT(30)
<1> HIDE DEF k
<1>7. civil_date(days) = DateOf(a, y, n, k)
  BY <1>1, <1>5, <1>6, CivilDate DEF a, y, n, e
<1>8. ASSUME e < 146096, n < LastDay(y) PROVE civil_date(days + 1) = Tomorrow(civil_date(days))
  <2> DEFINE j == (5 * (n + 1) + 2) \div 153
  <2>1. era(days + 1) = a /\ doe(days + 1) = e + 1
    BY <1>4, <1>8
  <2>2. yoe(e + 1) = y /\ doy(e + 1) = n + 1
    BY <1>1, <1>4, <1>8, NextDayOfEra DEF y, n
  <2>3. n + 1 \in Int /\ j \in Int /\ j = (5 * (n + 1) + 2) \div 153
    BY <1>5
  <2> HIDE DEF j
  <2>4. /\ 0 <= j /\ j <= 11
        /\ Tomorrow(DateOf(a, y, n, k)) = DateOf(a, y, n + 1, j)
    BY <1>1, <1>5, <1>6, <1>8, <2>3, TomorrowSameYear
  <2>5. civil_date(days + 1) = DateOf(a, y, n + 1, j)
    <3> DEFINE i == n + 1
    <3>1. i \in Int /\ i = doy(doe(days + 1)) /\ j = (5 * i + 2) \div 153
      BY <2>1, <2>2, <2>3
    <3> HIDE DEF i
    <3>2. y = yoe(doe(days + 1))
      BY <2>1, <2>2
    <3>3. civil_date(days + 1) = DateOf(a, y, i, j)
      BY <1>1, <1>5, <2>1, <2>3, <2>4, <3>1, <3>2, CivilDate
    <3>4. QED
      BY <3>3 DEF i
  <2>6. QED
    BY <1>7, <2>4, <2>5
<1>9. ASSUME n = LastDay(y),
             NEW z \in Int, z = yoe(doe(days + 1)), doy(doe(days + 1)) = 0,
             NEW b \in Int, b = era(days + 1), z + 400 * b = y + 400 * a + 1
      PROVE  civil_date(days + 1) = Tomorrow(civil_date(days))
  <2>1. k = 11
    BY <1>5, <1>6, <1>9
  <2>2. Tomorrow(DateOf(a, y, n, 11)) = [y |-> y + 400 * a + 1, m |-> 3, d |-> 1]
    BY <1>1, <1>5, <1>9, TomorrowIsMarch
  <2>3. 0 = (5 * 0 + 2) \div 153 /\ (153 * 0 + 2) \div 5 = 0
    BY SMTT(30)
  <2>4. civil_date(days + 1) = DateOf(b, z, 0, 0)
    BY <1>9, <2>3, CivilDate
  <2>5. DateOf(b, z, 0, 0) = [y |-> z + 400 * b, m |-> 3, d |-> 1]
    BY <2>3 DEF DateOf
  <2>6. QED
    BY <1>7, <1>9, <2>1, <2>2, <2>4, <2>5
<1>10. CASE e < 146096 /\ n = LastDay(y)
  <2>1. era(days + 1) = a /\ doe(days + 1) = e + 1
    BY <1>4, <1>10
  <2>2. yoe(doe(days + 1)) = y + 1 /\ doy(doe(days + 1)) = 0
    BY <1>1, <1>4, <1>10, <2>1, NextDayOfEra DEF y, n
  <2>3. y + 1 \in Int /\ (y + 1) + 400 * a = y + 400 * a + 1
    BY <1>1, <1>5
  <2>4. QED
    BY <1>1, <1>9, <1>10, <2>1, <2>2, <2>3
<1>11. CASE e = 146096
  <2>1. era(days + 1) = a + 1 /\ yoe(doe(days + 1)) = 0 /\ doy(doe(days + 1)) = 0
    BY <1>4, <1>11, EndsOfEra
  <2>2. y = 399 /\ n = LastDay(y)
    BY <1>11, EndsOfEra DEF y, n
  <2>3. a + 1 \in Int /\ 0 + 400 * (a + 1) = y + 400 * a + 1
    BY <1>1, <2>2
  <2>4. QED
    BY <1>9, <2>1, <2>2, <2>3
<1>12. QED
  BY <1>1, <1>4, <1>5, <1>8, <1>10, <1>11

-----------------------------------------------------------------------------

\* Steps of 30 seconds: times at most 30 seconds apart are at most one step apart,
\* and a step up or down is reached within 30 seconds.
LEMMA StepArithmetic ==
    ASSUME NEW n \in Nat, NEW q \in Nat
    PROVE  /\ n \div 30 \in Nat
           /\ q >= n - 30 /\ q <= n + 30 =>
                 /\ (q \div 30) - (n \div 30) >= -1
                 /\ (q \div 30) - (n \div 30) <= 1
           /\ (n + 30) \div 30 = (n \div 30) + 1
           /\ n \div 30 >= 1 => n >= 30 /\ (n - 30) \div 30 = (n \div 30) - 1
BY SMTT(30)

\* With the period and drift of the code, verify accepts the codes shown by
\* clocks that are at most 30 seconds off, before or after, and no other code,
\* at every time from the epoch on.
THEOREM DriftExact ==
    ASSUME PERIOD_SECS = 30, DRIFT_STEPS = 1,
           NEW now \in Nat, NEW c, c # Malformed
    PROVE  verify(now, c) <=> c \in CodesShown(now, PERIOD_SECS * DRIFT_STEPS)
<1> DEFINE step == now \div 30
<1>1. step \in Nat
  BY StepArithmetic
<1>2. verify(now, c) <=>
         \E delta \in {-1, 0, 1} : code_at_step(candidate(step + delta)) = c
  BY DEF verify, deltas
<1>3. c \in CodesShown(now, PERIOD_SECS * DRIFT_STEPS) <=>
         \E q \in Nat : q >= now - 30 /\ q <= now + 30 /\ code_at_step(q \div 30) = c
  BY DEF CodesShown, code_at
<1> HIDE DEF step
<1>4. ASSUME NEW delta \in {-1, 0, 1}
      PROVE  \E q \in Nat : /\ q >= now - 30 /\ q <= now + 30
                            /\ q \div 30 = candidate(step + delta)
  <2>1. CASE delta = 0 \/ (delta = -1 /\ step = 0)
    <3>1. candidate(step + delta) = step
      BY <1>1, <2>1 DEF candidate
    <3>2. QED
      BY <3>1 DEF step
  <2>2. CASE delta = 1
    <3>1. candidate(step + delta) = step + 1
      BY <1>1, <2>2 DEF candidate
    <3>2. (now + 30) \div 30 = step + 1
      BY StepArithmetic DEF step
    <3>3. QED
      BY <3>1, <3>2
  <2>3. CASE delta = -1 /\ step # 0
    <3>1. candidate(step + delta) = step - 1
      BY <1>1, <2>3 DEF candidate
    <3>2. now >= 30 /\ (now - 30) \div 30 = step - 1
      BY <1>1, <2>3, StepArithmetic DEF step
    <3>3. QED
      BY <3>1, <3>2
  <2>4. QED
    BY <2>1, <2>2, <2>3
<1>5. ASSUME NEW q \in Nat, q >= now - 30, q <= now + 30
      PROVE  \E delta \in {-1, 0, 1} : candidate(step + delta) = q \div 30
  <2> DEFINE s == q \div 30
  <2>1. s \in Nat /\ s - step >= -1 /\ s - step <= 1
    BY <1>5, StepArithmetic DEF step
  <2> HIDE DEF s
  <2>2. s - step \in {-1, 0, 1} /\ step + (s - step) = s
    BY <1>1, <2>1
  <2>3. candidate(s) = s
    BY <2>1 DEF candidate
  <2>4. QED
    BY <2>2, <2>3 DEF s
<1>6. QED
  BY <1>2, <1>3, <1>4, <1>5

\* Days and seconds are natural numbers.
TimeType == day \in Nat /\ sod \in Nat

\* The clock's steps keep them so.
LEMMA TimeInvariance == Spec => []TimeType
<1>1. Init => TimeType
  BY DEF Init, TimeType
<1>2. TimeType /\ [Next]_vars => TimeType'
  BY DEF TimeType, Next, vars, Second, NewDay, NewEra
<1>3. QED
  BY <1>1, <1>2, PTL DEF Spec

\* At every moment of the clock verify accepts, of the codes of the steps around,
\* those shown within the drift, whatever codes the seed produces.
THEOREM DriftHolds ==
    ASSUME PERIOD_SECS = 30, DRIFT_STEPS = 1, \A s \in Nat : Bin(s) \in Nat
    PROVE  Spec => []AcceptsWithinDrift
<1>1. TimeType => AcceptsWithinDrift
  <2> SUFFICES ASSUME TimeType
               PROVE  AcceptsWithinDrift
    OBVIOUS
  <2> DEFINE now == day * DAY_SECS + sod
  <2>1. now \in Nat
    BY DEF TimeType, DAY_SECS
  <2>2. \A s \in Nat : code_at_step(s) # Malformed
    <3>1. Modulus \in Nat \ {0} /\ Malformed \notin Nat
      BY TotpConstants
    <3>2. \A x \in Nat : x % Modulus \in Nat
      BY <3>1
    <3>3. QED
      BY <3>1, <3>2 DEF code_at_step
  <2>3. now \div PERIOD_SECS \in Nat
    BY <2>1, StepArithmetic
  <2> HIDE DEF now
  <2>4. \A s \in Nat : verify(now, code_at_step(s)) <=>
                        code_at_step(s) \in CodesShown(now, PERIOD_SECS * DRIFT_STEPS)
    BY <2>1, <2>2, DriftExact
  <2>5. \A k \in Nat : {x \in (k - 4)..(k + 4) : x >= 0} \subseteq Nat
    OBVIOUS
  <2>6. QED
    BY <2>3, <2>4, <2>5 DEF AcceptsWithinDrift, now
<1>2. QED
  BY <1>1, TimeInvariance, PTL

-----------------------------------------------------------------------------
(* The clock on the wall *)

\* The epoch, and the day 400 years after it.
LEMMA EpochDates ==
    /\ civil_date(0) = [y |-> 1970, m |-> 1, d |-> 1]
    /\ civil_date(ERA_DAYS) = [y |-> 2370, m |-> 1, d |-> 1]
<1>1. era(0) = 4 /\ era(ERA_DAYS) = 5
  BY SMTT(30) DEF era, ERA_DAYS
<1>2. doe(0) = 135080 /\ doe(ERA_DAYS) = 135080
  BY <1>1, SMTT(30) DEF doe, ERA_DAYS
<1>3. yoe(135080) = 369
  BY SMTT(30) DEF yoe
<1>4. doy(135080) = 306
  BY <1>3, SMTT(30) DEF doy
<1>5. 10 = (5 * 306 + 2) \div 153 /\ (153 * 10 + 2) \div 5 = 306
  BY SMTT(30)
<1>6. civil_date(0) = DateOf(4, 369, 306, 10) /\ civil_date(ERA_DAYS) = DateOf(5, 369, 306, 10)
  BY <1>1, <1>2, <1>3, <1>4, <1>5, CivilDate
<1>7. QED
  BY <1>5, <1>6 DEF DateOf

\* The time of the next second is the next time on the clock.
LEMMA NextTime ==
    ASSUME NEW s \in Int, 0 <= s, s < 86399
    PROVE  civil_time(s + 1) = NextSecond(civil_time(s))
<1> DEFINE h == s \div 3600
           n == s \div 60
           m == n % 60
           x == s % 60
<1>1. /\ h \in Int /\ n \in Int /\ m \in Int /\ x \in Int
      /\ 0 <= m /\ m <= 59 /\ 0 <= x /\ x <= 59
  BY SMTT(30)
<1>2. /\ x < 59 => (s + 1) % 60 = x + 1 /\ (s + 1) \div 60 = n /\ (s + 1) \div 3600 = h
      /\ x = 59 => (s + 1) % 60 = 0 /\ (s + 1) \div 60 = n + 1
  BY SMTT(30)
<1>3. /\ m < 59 => (n + 1) % 60 = m + 1
      /\ m = 59 => (n + 1) % 60 = 0
  BY SMTT(30)
<1>4. x = 59 /\ m < 59 => (s + 1) \div 3600 = h
  BY SMTT(30)
<1>5. x = 59 /\ m = 59 => (s + 1) \div 3600 = h + 1
  BY SMTT(30)
<1>6. /\ civil_time(s) = [hh |-> h, mm |-> m, ss |-> x]
      /\ civil_time(s + 1) = [hh |-> (s + 1) \div 3600, mm |-> ((s + 1) \div 60) % 60,
                              ss |-> (s + 1) % 60]
  BY DEF civil_time
<1> HIDE DEF h, n, m, x
<1>7. CASE x < 59
  <2>1. civil_time(s + 1) = [hh |-> h, mm |-> m, ss |-> x + 1]
    BY <1>2, <1>6, <1>7 DEF m
  <2>2. NextSecond([hh |-> h, mm |-> m, ss |-> x]) = [hh |-> h, mm |-> m, ss |-> x + 1]
    BY <1>7 DEF NextSecond
  <2>3. QED
    BY <1>6, <2>1, <2>2
<1>8. CASE x = 59 /\ m < 59
  <2>1. civil_time(s + 1) = [hh |-> h, mm |-> m + 1, ss |-> 0]
    BY <1>2, <1>3, <1>4, <1>6, <1>8
  <2>2. NextSecond([hh |-> h, mm |-> m, ss |-> x])
        = [[hh |-> h, mm |-> m, ss |-> x] EXCEPT !.ss = 0, !.mm = @ + 1]
    BY <1>8 DEF NextSecond
  <2>3. [[hh |-> h, mm |-> m, ss |-> x] EXCEPT !.ss = 0, !.mm = @ + 1]
        = [hh |-> h, mm |-> m + 1, ss |-> 0]
    <3> DEFINE r == [hh |-> h, mm |-> m, ss |-> x]
               q == [r EXCEPT !.ss = 0]
    <3>1. q = [hh |-> h, mm |-> m, ss |-> 0]
      OBVIOUS
    <3>2. [[hh |-> h, mm |-> m, ss |-> 0] EXCEPT !.mm = @ + 1]
          = [hh |-> h, mm |-> m + 1, ss |-> 0]
      OBVIOUS
    <3> HIDE DEF r
    <3>3. [r EXCEPT !.ss = 0, !.mm = @ + 1] = [q EXCEPT !.mm = @ + 1]
      OBVIOUS
    <3> HIDE DEF q
    <3>4. QED
      BY <3>1, <3>2, <3>3 DEF r
  <2>4. QED
    BY <1>6, <2>1, <2>2, <2>3
<1>9. CASE x = 59 /\ m = 59
  <2>1. civil_time(s + 1) = [hh |-> h + 1, mm |-> 0, ss |-> 0]
    BY <1>2, <1>3, <1>5, <1>6, <1>9
  <2>2. NextSecond([hh |-> h, mm |-> m, ss |-> x]) = [hh |-> h + 1, mm |-> 0, ss |-> 0]
    BY <1>9 DEF NextSecond
  <2>3. QED
    BY <1>6, <2>1, <2>2
<1>10. QED
  BY <1>1, <1>7, <1>8, <1>9

\* What the wall shows is what the server computes.
WallOK == /\ day \in Nat
          /\ sod \in Int /\ 0 <= sod /\ sod <= 86399
          /\ date = civil_date(day)
          /\ time = civil_time(sod)

\* Every step of the clock keeps the wall and the server together.
LEMMA WallStep == WallOK /\ [Next]_vars => WallOK'
<1> SUFFICES ASSUME WallOK, [Next]_vars PROVE WallOK'
  OBVIOUS
<1>0. civil_time(0) = Midnight
  <2>1. 0 \div 3600 = 0 /\ (0 \div 60) % 60 = 0 /\ 0 % 60 = 0
    BY SMTT(30)
  <2>2. QED
    BY <2>1 DEF civil_time, Midnight
<1>1. CASE UNCHANGED vars
  BY <1>1 DEF WallOK, vars
<1>2. CASE Second
  <2>1. sod < 86399 /\ sod' = sod + 1 /\ time' = NextSecond(time) /\ day' = day /\ date' = date
    BY <1>2 DEF Second, DAY_SECS
  <2>2. time' = civil_time(sod')
    BY <2>1, NextTime DEF WallOK
  <2>3. QED
    BY <2>1, <2>2 DEF WallOK
<1>3. CASE NewDay
  <2>1. day' = day + 1 /\ sod' = 0 /\ date' = Tomorrow(date) /\ time' = Midnight
    BY <1>3 DEF NewDay
  <2>2. date' = civil_date(day')
    BY <2>1, NextDateIsTomorrow DEF WallOK
  <2>3. QED
    BY <1>0, <2>1, <2>2 DEF WallOK
<1>4. CASE NewEra
  <2>1. /\ day = ERA_DAYS /\ day' = 0 /\ date' = [date EXCEPT !.y = @ - 400]
        /\ sod' = sod /\ time' = time
    BY <1>4 DEF NewEra
  <2>2. date = [y |-> 2370, m |-> 1, d |-> 1]
    BY <2>1, EpochDates DEF WallOK
  <2>3. date' = [y |-> 1970, m |-> 1, d |-> 1]
    BY <2>1, <2>2
  <2>4. QED
    BY <2>1, <2>3, EpochDates DEF WallOK
<1>5. QED
  BY <1>1, <1>2, <1>3, <1>4 DEF Next

\* format_iso prints what the calendar and the clock on the wall show, at every
\* moment and whatever the bounds of the run.
THEOREM CalendarIsPrinted == Spec => []PrintsTheCalendar
<1>1. Init => WallOK
  <2>1. 0 \div 3600 = 0 /\ (0 \div 60) % 60 = 0 /\ 0 % 60 = 0
    BY SMTT(30)
  <2>2. civil_time(0) = Midnight
    BY <2>1 DEF civil_time, Midnight
  <2>3. QED
    BY <2>2, EpochDates DEF Init, WallOK
<1>2. WallOK => PrintsTheCalendar
  <2>1. SUFFICES ASSUME WallOK
                 PROVE  format_iso(day * DAY_SECS + sod) = [date |-> date, time |-> time]
    BY DEF PrintsTheCalendar, WallOK
  <2>2. day \in Nat /\ sod \in Int /\ 0 <= sod /\ sod < DAY_SECS
    BY <2>1 DEF WallOK, DAY_SECS
  <2>3. QED
    BY <2>1, <2>2, SplitsSeconds DEF WallOK
<1>3. QED
  BY <1>1, <1>2, WallStep, PTL DEF Spec
=============================================================================
