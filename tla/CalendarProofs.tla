--------------------------- MODULE CalendarProofs ---------------------------
(***************************************************************************)
(* A time that a controller writes is the time that the webhook reads: the *)
(* two calendar conversions are inverse to each other, for every second    *)
(* from the epoch to the end of the year 9999.                             *)
(***************************************************************************)
EXTENDS Calendar, TLAPS

\* The year and the day of the year that civil_from_days computes are in range:
\* the comments of the source, "[0, 399]" and "[0, 365]".
LEMMA EraBounds ==
  ASSUME NEW doe \in Int, 0 <= doe /\ doe <= 146096
  PROVE  /\ YearOfEra(doe) \in Int
         /\ 0 <= YearOfEra(doe) /\ YearOfEra(doe) <= 399
         /\ 0 <= doe - DaysBefore(YearOfEra(doe))
         /\ doe - DaysBefore(YearOfEra(doe)) <= 365
<1> DEFINE a == doe \div 1460
           b == doe \div 36524
           c == doe \div 146096
           yoe == (doe - a + b - c) \div 365
           leap == yoe \div 4
           century == yoe \div 100
<1>1. a \in Int  BY SMT
<1>2. 1460 * a <= doe /\ doe < 1460 * a + 1460  BY SMT
<1>3. b \in Int  BY SMT
<1>4. 36524 * b <= doe /\ doe < 36524 * b + 36524  BY SMT
<1>5. c \in Int  BY SMT
<1>6. 146096 * c <= doe /\ doe < 146096 * c + 146096  BY SMT
<1>7. YearOfEra(doe) = yoe  BY SMT DEF YearOfEra
<1> HIDE DEF a, b, c
<1>8. yoe \in Int  BY SMT, <1>1, <1>3, <1>5
<1>9. 365 * yoe <= doe - a + b - c /\ doe - a + b - c < 365 * yoe + 365
  BY SMT, <1>1, <1>3, <1>5
<1> HIDE DEF yoe
<1>10. leap \in Int  BY SMT, <1>8
<1>11. 4 * leap <= yoe /\ yoe < 4 * leap + 4  BY SMT, <1>8
<1>12. century \in Int  BY SMT, <1>8
<1>13. 100 * century <= yoe /\ yoe < 100 * century + 100  BY SMT, <1>8
<1>14. DaysBefore(yoe) = yoe * 365 + leap - century  BY SMT, <1>8 DEF DaysBefore
<1> HIDE DEF leap, century
<1>15. 0 <= yoe /\ yoe <= 399
  BY SMT, <1>1, <1>2, <1>3, <1>4, <1>5, <1>6, <1>8, <1>9
<1>16. 0 <= doe - 365 * yoe - leap + century
  BY SMT, <1>1, <1>2, <1>3, <1>4, <1>5, <1>6, <1>8, <1>9, <1>10, <1>11, <1>12, <1>13
<1>17. doe - 365 * yoe - leap + century <= 365
  BY SMT, <1>1, <1>2, <1>3, <1>4, <1>5, <1>6, <1>8, <1>9, <1>10, <1>11, <1>12, <1>13
<1>18. doe - DaysBefore(yoe) = doe - 365 * yoe - leap + century
  BY SMT, <1>8, <1>10, <1>12, <1>14
<1>. QED
  BY SMT, <1>7, <1>8, <1>15, <1>16, <1>17, <1>18

\* The months of a year that starts in March.
LEMMA MonthBounds ==
  ASSUME NEW doy \in Int, 0 <= doy /\ doy <= 365
  PROVE  LET mp == (5 * doy + 2) \div 153
             start == (153 * mp + 2) \div 5
         IN /\ mp \in Int /\ 0 <= mp /\ mp <= 11
            /\ start \in Int /\ start <= doy /\ doy <= start + 30
<1> DEFINE mp == (5 * doy + 2) \div 153
           start == (153 * mp + 2) \div 5
<1>1. mp \in Int  BY SMT
<1>2. 153 * mp <= 5 * doy + 2 /\ 5 * doy + 2 < 153 * mp + 153  BY SMT
<1> HIDE DEF mp
<1>3. start \in Int  BY SMT, <1>1
<1>4. 5 * start <= 153 * mp + 2 /\ 153 * mp + 2 < 5 * start + 5  BY SMT, <1>1
<1> HIDE DEF start
<1>5. 0 <= mp /\ mp <= 11  BY SMT, <1>1, <1>2
<1>6. start <= doy /\ doy <= start + 30  BY SMT, <1>1, <1>2, <1>3, <1>4
<1>. QED  BY SMT, <1>1, <1>3, <1>5, <1>6 DEF mp, start

\* Eras of 400 years have 146097 days.
LEMMA EraSplit ==
  ASSUME NEW n \in Int, 719468 <= n
  PROVE  LET era == n \div 146097
         IN /\ era \in Int /\ 4 <= era
            /\ 0 <= n - era * 146097 /\ n - era * 146097 <= 146096
<1> DEFINE era == n \div 146097
<1>1. era \in Int  BY SMT
<1>2. era * 146097 <= n /\ n < era * 146097 + 146097  BY SMT
<1> HIDE DEF era
<1>3. 4 <= era  BY SMT, <1>1, <1>2
<1>. QED  BY SMT, <1>1, <1>2, <1>3 DEF era

\* days_from_civil finds the day again, given the year of the era, the month
\* counted from March and the day of the month.
LEMMA DayOfDate ==
  ASSUME NEW era \in Int, 0 <= era, NEW yoe \in Int, 0 <= yoe, yoe <= 399,
         NEW mp \in Int, 0 <= mp, mp <= 11, NEW d \in Int
  PROVE  LET m == IF mp < 10 THEN mp + 3 ELSE mp - 9
             y == yoe + era * 400
         IN DaysFromCivil(IF m <= 2 THEN y + 1 ELSE y, m, d)
              = era * 146097 + DaysBefore(yoe)
                  + ((153 * mp + 2) \div 5 + d - 1) - 719468
<1> DEFINE m == IF mp < 10 THEN mp + 3 ELSE mp - 9
           y == yoe + era * 400
           year == IF m <= 2 THEN y + 1 ELSE y
<1>1. y \in Int /\ y >= 0  BY SMT
<1>2. y \div 400 = era  BY SMT
<1>3. y - era * 400 = yoe  BY SMT
<1>4. (IF m > 2 THEN m - 3 ELSE m + 9) = mp  BY SMT
<1>5. (IF m <= 2 THEN year - 1 ELSE year) = y  BY SMT, <1>1
<1> HIDE DEF m, y, year
<1>6. Quotient(IF y >= 0 THEN y ELSE y - 399, 400) = era  BY SMT, <1>1, <1>2 DEF Quotient
<1>7. DaysFromCivil(year, m, d)
        = era * 146097 + DaysBefore(yoe) + ((153 * mp + 2) \div 5 + d - 1) - 719468
  BY ONLY <1>3, <1>4, <1>5, <1>6 DEF DaysFromCivil
<1>. QED  BY SMT, <1>7 DEF m, y, year

\* days_from_civil undoes civil_from_days, for every day since the epoch, and
\* the fields are in the ranges that parse_rfc3339 accepts.
LEMMA CivilRoundTrip ==
  ASSUME NEW z \in Int, 0 <= z, z <= 2932896
  PROVE  LET date == CivilFromDays(z)
         IN /\ date.year \in 1 .. 9999 /\ date.month \in 1 .. 12 /\ date.day \in 1 .. 31
            /\ DaysFromCivil(date.year, date.month, date.day) = z
<1> DEFINE shifted == z + 719468
           era == shifted \div 146097
           doe == shifted - era * 146097
           yoe == YearOfEra(doe)
           doy == doe - DaysBefore(yoe)
           mp  == (5 * doy + 2) \div 153
           start == (153 * mp + 2) \div 5
           m   == IF mp < 10 THEN mp + 3 ELSE mp - 9
           y   == yoe + era * 400
           year == IF m <= 2 THEN y + 1 ELSE y
           d   == doy - start + 1
<1>1. shifted \in Int /\ 719468 <= shifted /\ shifted >= 0  BY SMT
<1>2. CivilFromDays(z) = [year |-> year, month |-> m, day |-> d]
  BY SMT, <1>1 DEF CivilFromDays, Quotient
<1>3. shifted = z + 719468  OBVIOUS
<1> HIDE DEF shifted
<1>4. era \in Int  BY SMT, <1>1
<1>5. 4 <= era /\ 0 <= doe /\ doe <= 146096  BY SMT, <1>1, EraSplit
<1>6. doe \in Int  BY SMT, <1>1, <1>4
<1>7. shifted = era * 146097 + doe  BY SMT, <1>1, <1>4
<1> HIDE DEF era, doe
<1>8. yoe \in Int  BY <1>5, <1>6, EraBounds
<1>9. 0 <= yoe /\ yoe <= 399  BY <1>5, <1>6, EraBounds
<1>10. 0 <= doy /\ doy <= 365  BY <1>5, <1>6, EraBounds
<1>11. DaysBefore(yoe) \in Int  BY SMT, <1>8 DEF DaysBefore
<1>12. doy \in Int  BY SMT, <1>6, <1>11
<1>13. doe = DaysBefore(yoe) + doy  BY SMT, <1>6, <1>11
<1> HIDE DEF yoe, doy
<1>14. mp \in Int  BY SMT, <1>12
<1>15. start \in Int  BY SMT, <1>14
<1>15a. 153 * mp <= 5 * doy + 2  BY SMT, <1>12
<1>16. 0 <= mp /\ mp <= 11  BY <1>10, <1>12, MonthBounds
<1>17. start <= doy /\ doy <= start + 30  BY <1>10, <1>12, MonthBounds
<1> HIDE DEF mp
<1>18. d \in Int  BY SMT, <1>12, <1>15
<1>19. 1 <= d /\ d <= 31 /\ start + d - 1 = doy  BY SMT, <1>12, <1>15, <1>17
<1>20. DaysFromCivil(year, m, d)
         = era * 146097 + DaysBefore(yoe) + (start + d - 1) - 719468
  <2> HIDE DEF d
  <2>1. 0 <= era  BY SMT, <1>4, <1>5
  <2>. QED  BY <2>1, <1>4, <1>8, <1>9, <1>14, <1>16, <1>18, DayOfDate
<1>21. DaysFromCivil(year, m, d) = z
  <2> HIDE DEF d, start, m, year
  <2>1. start + d - 1 = doy  BY <1>19
  <2>2. DaysFromCivil(year, m, d) = era * 146097 + DaysBefore(yoe) + doy - 719468
    BY ONLY <2>1, <1>20
  <2>. QED
    BY SMT, <2>2, <1>1, <1>3, <1>4, <1>6, <1>7, <1>11, <1>12, <1>13
<1>22. m \in Int /\ 1 <= m /\ m <= 12  BY SMT, <1>14, <1>16
<1>24. year \in Int  BY SMT, <1>4, <1>8
<1>25. 1 <= year  BY SMT, <1>4, <1>5, <1>8, <1>9
<1>26. year <= 9999
  <2>1. era <= 24
    BY SMT, <1>3, <1>4, <1>5, <1>6, <1>7
  <2>2. CASE era <= 23 \/ yoe <= 398
    BY SMT, <2>1, <2>2, <1>4, <1>8, <1>9
  <2>3. CASE era = 24 /\ yoe = 399
    <3>1. DaysBefore(yoe) = 145731  BY SMT, <2>3 DEF DaysBefore
    <3>2. doy <= 305  BY SMT, <2>3, <3>1, <1>3, <1>6, <1>7, <1>12, <1>13
    <3>3. mp <= 9  BY SMT, <3>2, <1>12, <1>14, <1>15a
    <3>4. ~(m <= 2)  BY SMT, <3>3, <1>14, <1>16
    <3>5. year = y  BY <3>4
    <3>6. y = 9999  BY SMT, <2>3
    <3>. QED  BY SMT, <3>5, <3>6
  <2>. QED  BY SMT, <2>1, <2>2, <2>3, <1>4, <1>8, <1>9
<1> HIDE DEF m, y, year, d
<1>27. year \in 1 .. 9999 /\ m \in 1 .. 12 /\ d \in 1 .. 31
  BY SMT, <1>18, <1>19, <1>22, <1>24, <1>25, <1>26
<1>. QED  BY ONLY <1>2, <1>21, <1>27

\* The webhook reads back the second that a controller wrote, for every clock
\* from the epoch to the end of the year 9999: freshness is judged by the time of
\* the write (rfc3339_from_unix, parse_rfc3339).
THEOREM StampRoundTrip ==
  ASSUME NEW secs \in Int, 0 <= secs, secs \div 86400 <= 2932896
  PROVE  ParseRfc3339(Rfc3339FromUnix(secs)) = secs
<1> DEFINE z == secs \div 86400
           rest == secs % 86400
           hour == rest \div 3600
           late == rest % 3600
           minute == late \div 60
           second == rest % 60
           date == CivilFromDays(z)
           text == Rfc3339FromUnix(secs)
<1>1. z \in Int /\ 0 <= z /\ z <= 2932896  BY SMT
<1>2. rest \in Int /\ 0 <= rest /\ rest < 86400 /\ secs = z * 86400 + rest  BY SMT
<1>3. text = [year |-> date.year, month |-> date.month, day |-> date.day,
              hour |-> hour, minute |-> minute, second |-> second]
  BY DEF Rfc3339FromUnix
<1> HIDE DEF z, rest, text
<1>4. hour \in Int /\ 0 <= hour /\ hour <= 23  BY SMT, <1>2
<1>5. late \in Int /\ 0 <= late /\ late <= 3599 /\ rest = hour * 3600 + late  BY SMT, <1>2
<1>6. second \in Int /\ 0 <= second /\ second <= 59  BY SMT, <1>2
<1>7. minute \in Int /\ 0 <= minute /\ minute <= 59  BY SMT, <1>5
<1>8. rest = hour * 3600 + minute * 60 + second
  <2>1. second = late % 60  BY SMT, <1>2, <1>5
  <2>2. late = minute * 60 + (late % 60)  BY SMT, <1>5
  <2>. QED  BY SMT, <2>1, <2>2, <1>4, <1>5, <1>6, <1>7
<1> HIDE DEF hour, minute, second, late, date
<1>9. /\ date.year \in 1 .. 9999 /\ date.month \in 1 .. 12 /\ date.day \in 1 .. 31
      /\ DaysFromCivil(date.year, date.month, date.day) = z
  BY <1>1, CivilRoundTrip DEF date
<1>10. hour \in 0 .. 23 /\ minute \in 0 .. 59 /\ second \in 0 .. 59
  BY SMT, <1>4, <1>6, <1>7
<1>11. ParseRfc3339(text) = z * 86400 + hour * 3600 + minute * 60 + second
  BY ONLY <1>3, <1>9, <1>10 DEF ParseRfc3339
<1>. QED  BY SMT, <1>1, <1>2, <1>4, <1>6, <1>7, <1>8, <1>11 DEF text
=============================================================================
