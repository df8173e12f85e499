------------------------------ MODULE Calendar ------------------------------
(***************************************************************************)
(* Time stamps: Unix seconds written as RFC 3339 by the controllers and    *)
(* read back by the webhook.  A text of that form is a record of its six   *)
(* numbers; any other text is stale without being read.                    *)
(***************************************************************************)
EXTENDS Budget

\* Rust's integer division, towards zero.
Quotient(a, b) == IF a >= 0 THEN a \div b ELSE -((-a) \div b)

\* The year of the 400-year era that a day of the era lies in; years start in March.
YearOfEra(doe) ==
  (doe - doe \div 1460 + doe \div 36524 - doe \div 146096) \div 365

\* The days of the era before a year of the era.
DaysBefore(yoe) == yoe * 365 + yoe \div 4 - yoe \div 100

\* Day z after 1970-01-01 in the proleptic Gregorian calendar.
CivilFromDays(z) ==
  LET shifted == z + 719468
      era == Quotient(IF shifted >= 0 THEN shifted ELSE shifted - 146096, 146097)
      doe == shifted - era * 146097
      yoe == YearOfEra(doe)
      doy == doe - DaysBefore(yoe)
      mp  == (5 * doy + 2) \div 153
      m   == IF mp < 10 THEN mp + 3 ELSE mp - 9
      y   == yoe + era * 400
  IN [year |-> IF m <= 2 THEN y + 1 ELSE y, month |-> m,
      day |-> doy - (153 * mp + 2) \div 5 + 1]

DaysFromCivil(year, month, day) ==
  LET y   == IF month <= 2 THEN year - 1 ELSE year
      era == Quotient(IF y >= 0 THEN y ELSE y - 399, 400)
      yoe == y - era * 400
      doy == (153 * (IF month > 2 THEN month - 3 ELSE month + 9) + 2) \div 5 + day - 1
  IN era * 146097 + DaysBefore(yoe) + doy - 719468

Rfc3339FromUnix(secs) ==
  LET date == CivilFromDays(secs \div 86400)
      rest == secs % 86400
  IN [year |-> date.year, month |-> date.month, day |-> date.day,
      hour |-> rest \div 3600, minute |-> (rest % 3600) \div 60, second |-> rest % 60]

\* Fields out of range make no time; a day is checked against 31 only.
ParseRfc3339(text) ==
  IF /\ text.year \in 1 .. 9999 /\ text.month \in 1 .. 12
     /\ text.day \in 1 .. 31 /\ text.hour \in 0 .. 23
     /\ text.minute \in 0 .. 59 /\ text.second \in 0 .. 59
    THEN DaysFromCivil(text.year, text.month, text.day) * 86400
           + text.hour * 3600 + text.minute * 60 + text.second
  ELSE NULL
=============================================================================
