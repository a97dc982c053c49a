------------------------------ MODULE Rfc3339 ------------------------------
(***************************************************************************)
(* utility_time_rfc3339.c: seconds since the epoch to a civil date and     *)
(* time and back. The seconds are kept as days and the second of the day,  *)
(* their quotient and remainder by 86400. The text is the record of what   *)
(* stands at its positions: the six numbers, whose digits are plain        *)
(* decimal, and the digits of the fraction.                                *)
(***************************************************************************)
EXTENDS Integers, Sequences

(* MIN_RFC3339_SECONDS and MAX_RFC3339_SECONDS, divided by 86400.          *)
MinRfc3339Day == -719162
MaxRfc3339Day == 2932896

DaysFromCivil(year, month, day) ==
  LET y == IF month <= 2 THEN year - 1 ELSE year
      era == y \div 400
      year_of_era == y - era * 400
      day_of_year ==
        (153 * (IF month > 2 THEN month - 3 ELSE month + 9) + 2) \div 5 + day - 1
      day_of_era ==
        year_of_era * 365 + year_of_era \div 4 - year_of_era \div 100 + day_of_year
  IN era * 146097 + day_of_era - 719468

CivilFromDays(days) ==
  LET shifted == days + 719468
      era == shifted \div 146097
      day_of_era == shifted - era * 146097
      year_of_era ==
        (day_of_era - day_of_era \div 1460 + day_of_era \div 36524
           - day_of_era \div 146096) \div 365
      day_of_year ==
        day_of_era - (365 * year_of_era + year_of_era \div 4 - year_of_era \div 100)
      month_prime == (5 * day_of_year + 2) \div 153
      month == IF month_prime < 10 THEN month_prime + 3 ELSE month_prime - 9
  IN [year |-> year_of_era + era * 400 + (IF month <= 2 THEN 1 ELSE 0),
      month |-> month,
      day |-> day_of_year - (153 * month_prime + 2) \div 5 + 1]

IsLeapYear(year) == year % 4 = 0 /\ (year % 100 # 0 \/ year % 400 = 0)

MonthDays == <<31, 28, 31, 30, 31, 30, 31, 31, 30, 31, 30, 31>>

DaysIn(year, month) ==
  MonthDays[month] + (IF month = 2 /\ IsLeapYear(year) THEN 1 ELSE 0)

ValidDate(year, month, day) ==
  year \in 1 .. 9999 /\ month \in 1 .. 12 /\ day \in 1 .. DaysIn(year, month)

(* parse_fraction_and_zone(): up to nine digits, filled up with zeros.     *)
NanosecondOf(fraction) ==
  LET value[k \in 0 .. 9] ==
        IF k = 0 THEN 0
        ELSE 10 * value[k - 1] + (IF k <= Len(fraction) THEN fraction[k] ELSE 0)
  IN value[9]

(* ut_time_rfc3339_parse() of a text in the right format.                  *)
Accepts(text) ==
  /\ Len(text.fraction) <= 9
  /\ ValidDate(text.year, text.month, text.day)
  /\ text.hour <= 23 /\ text.minute <= 59 /\ text.second <= 59

Parse(text) ==
  [days |-> DaysFromCivil(text.year, text.month, text.day),
   second_of_day |-> text.hour * 3600 + text.minute * 60 + text.second,
   nanosecond |-> NanosecondOf(text.fraction)]

(* ut_time_rfc3339_format(), with all nine digits; OUT_OF_RANGE outside    *)
(* the years 1 to 9999.                                                    *)
InRange(utc) == utc.days \in MinRfc3339Day .. MaxRfc3339Day

Format(utc) ==
  LET civil == CivilFromDays(utc.days)
  IN [year |-> civil.year, month |-> civil.month, day |-> civil.day,
      hour |-> utc.second_of_day \div 3600,
      minute |-> utc.second_of_day \div 60 % 60,
      second |-> utc.second_of_day % 60,
      fraction |-> [k \in 1 .. 9 |-> utc.nanosecond \div 10 ^ (9 - k) % 10]]

-----------------------------------------------------------------------------

(* The calendar by counting: the first day of a year and, inside it, the   *)
(* days of the months before.                                              *)
FirstDayOf(year) ==
  365 * (year - 1970) + (year - 1969) \div 4 - (year - 1901) \div 100
    + (year - 1601) \div 400

DaysBefore(year, month) ==
  LET days[m \in 1 .. 12] == IF m = 1 THEN 0 ELSE days[m - 1] + DaysIn(year, m - 1)
  IN days[month]

(* Both directions of the conversion agree with the calendar on every day  *)
(* of a year: turns of months, leap days and the eras of 400 years.        *)
YearIsConverted(year) ==
  \A month \in 1 .. 12 : \A day \in 1 .. DaysIn(year, month) :
    LET days == FirstDayOf(year) + DaysBefore(year, month) + day - 1
    IN /\ DaysFromCivil(year, month, day) = days
       /\ CivilFromDays(days) = [year |-> year, month |-> month, day |-> day]

(* A formatted time is accepted and parsed to the same time.               *)
FormatIsParsed(utc) ==
  InRange(utc) => Accepts(Format(utc)) /\ Parse(Format(utc)) = utc
=============================================================================
