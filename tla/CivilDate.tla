------------------------------ MODULE CivilDate ------------------------------
(***************************************************************************)
(* The calendar date a request is signed with (s3/sigv4.rs): an S3 service *)
(* refuses a request whose date is not today's.                            *)
(*                                                                         *)
(* day counts from 1970-01-01; date is what a calendar shows on that day,  *)
(* advanced by the Gregorian rule and never by the code under test.        *)
(***************************************************************************)
EXTENDS Integers

CONSTANT MaxDay     \* bound: days

VARIABLES day, date

date_vars == <<day, date>>

\* Defect: the last day of 400 years is taken for a 366th of a common year.
civil_from_days_NoEra(z0) ==
  LET z == z0 + 719468
      era == z \div 146097
      doe == z - era * 146097
      yoe == (doe - doe \div 1460 + doe \div 36524) \div 365
      doy == doe - (365 * yoe + yoe \div 4 - yoe \div 100)
      mp == (5 * doy + 2) \div 153
      m == IF mp < 10 THEN mp + 3 ELSE mp - 9
  IN <<yoe + era * 400 + (IF m <= 2 THEN 1 ELSE 0), m, doy - (153 * mp + 2) \div 5 + 1>>

\* Years begin in March, so that the leap day is their last.
civil_from_days(z0) ==
  LET z == z0 + 719468
      era == z \div 146097
      doe == z - era * 146097
      yoe == (doe - doe \div 1460 + doe \div 36524 - doe \div 146096) \div 365
      doy == doe - (365 * yoe + yoe \div 4 - yoe \div 100)
      mp == (5 * doy + 2) \div 153
      m == IF mp < 10 THEN mp + 3 ELSE mp - 9
  IN <<yoe + era * 400 + (IF m <= 2 THEN 1 ELSE 0), m, doy - (153 * mp + 2) \div 5 + 1>>

-----------------------------------------------------------------------------
\* The calendar.
Leap(y) == y % 4 = 0 /\ (y % 100 # 0 \/ y % 400 = 0)
DaysIn(y, m) == CASE m = 2 -> IF Leap(y) THEN 29 ELSE 28
                  [] m \in {4, 6, 9, 11} -> 30
                  [] OTHER -> 31

DateInit == day = 0 /\ date = <<1970, 1, 1>>

NextDay ==
  /\ day < MaxDay /\ day' = day + 1
  /\ LET y == date[1] m == date[2] d == date[3]
     IN date' = IF d < DaysIn(y, m) THEN <<y, m, d + 1>>
                ELSE IF m < 12 THEN <<y, m + 1, 1>>
                ELSE <<y + 1, 1, 1>>

DateSpec == DateInit /\ [][NextDay]_date_vars

-----------------------------------------------------------------------------
\* Every day from 1970 on, across leap years, 2000 (leap) and 2100 (not), the
\* arithmetic of civil_from_days gives the date of the calendar.
DateAgrees == civil_from_days(day) = date
=============================================================================
