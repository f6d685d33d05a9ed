------------------------------- MODULE Calendar -------------------------------
(***************************************************************************)
(* Days and dates as the Arrow packer converts them (emit_pack.rs): Howard *)
(* Hinnant's civil_from_days and the year cache in front of it, next to    *)
(* the proleptic Gregorian calendar chrono's NaiveDate follows.            *)
(***************************************************************************)
EXTENDS Integers, Sequences

Date(year, month, day) == [year |-> year, month |-> month, day |-> day]

IsLeap(year) == year % 4 = 0 /\ (year % 100 # 0 \/ year % 400 = 0)

YearLength(leap) == IF leap THEN 366 ELSE 365

DaysBeforeMonth(leap) ==
  IF leap THEN <<0, 31, 60, 91, 121, 152, 182, 213, 244, 274, 305, 335>>
          ELSE <<0, 31, 59, 90, 120, 151, 181, 212, 243, 273, 304, 334>>

\* Mutant: the last day of a 400-year era opens the next year.
YearOfEraLate(doe) == (doe - doe \div 1460 + doe \div 36524) \div 365

\* civil_from_days: the year of an era of 400 years in which its day doe falls.
YearOfEra(doe) == (doe - doe \div 1460 + doe \div 36524 - doe \div 146096) \div 365

\* civil_from_days: years and eras start on the 1st of March.
CivilFromDays(days) ==
  LET z     == days + 719468
      doe   == z % 146097
      yoe   == YearOfEra(doe)
      doy   == doe - (365 * yoe + yoe \div 4 - yoe \div 100)
      mp    == (5 * doy + 2) \div 153
      month == IF mp < 10 THEN mp + 3 ELSE mp - 9
  IN  Date(yoe + (z \div 146097) * 400 + (IF month <= 2 THEN 1 ELSE 0), month,
           doy - (153 * mp + 2) \div 5 + 1)

-----------------------------------------------------------------------------
(* YearCache: the year of the last conversion.                             *)
NoYear == [start |-> 0, len |-> 0, year |-> 0, leap |-> FALSE]

\* Mutant: the first day of the next year still hits.
HitsLate(cache, days) == days >= cache.start /\ days <= cache.start + cache.len

Hits(cache, days) == days >= cache.start /\ days < cache.start + cache.len

\* The cache after a conversion of days.
YearOf(cache, days) ==
  IF Hits(cache, days) THEN cache
  ELSE LET date == CivilFromDays(days)
           leap == IsLeap(date.year)
       IN  [start |-> days - (DaysBeforeMonth(leap)[date.month] + date.day - 1),
            len |-> YearLength(leap), year |-> date.year, leap |-> leap]

\* The date a cache that holds its year finds in the month table.
DateIn(cache, days) ==
  LET doy    == days - cache.start
      before == DaysBeforeMonth(cache.leap)
      month  == CHOOSE m \in 1..12 : before[m] <= doy /\ (m < 12 => doy < before[m + 1])
  IN  Date(cache.year, month, doy - before[month] + 1)

-----------------------------------------------------------------------------
(* The calendar itself.                                                    *)
MonthLength(year, month) ==
  CASE month = 2             -> IF IsLeap(year) THEN 29 ELSE 28
    [] month \in {4, 6, 9, 11} -> 30
    [] OTHER                 -> 31

NextDay(date) ==
  IF date.day < MonthLength(date.year, date.month)
  THEN Date(date.year, date.month, date.day + 1)
  ELSE IF date.month < 12 THEN Date(date.year, date.month + 1, 1)
                          ELSE Date(date.year + 1, 1, 1)

LeapYearsUpTo(year) == year \div 4 - year \div 100 + year \div 400

DayNumber(date) ==
  365 * (date.year - 1970) + LeapYearsUpTo(date.year - 1) - LeapYearsUpTo(1969)
    + DaysBeforeMonth(IsLeap(date.year))[date.month] + date.day - 1

DateOf(days) ==
  CHOOSE date \in [year : LET y == 1970 + (400 * days) \div 146097 IN y - 1 .. y + 1,
                   month : 1..12, day : 1..31] :
    date.day <= MonthLength(date.year, date.month) /\ DayNumber(date) = days

(* civil_from_days follows the calendar on every day from one bound to the  *)
(* other: 1970-01-01 is day 0, each day's date is the one after its         *)
(* predecessor's, and DayNumber takes it back.                              *)
FollowsCalendar(first, last) ==
  /\ CivilFromDays(0) = Date(1970, 1, 1)
  /\ \A d \in first..last :
       /\ CivilFromDays(d + 1) = NextDay(CivilFromDays(d))
       /\ DayNumber(CivilFromDays(d)) = d
=============================================================================
