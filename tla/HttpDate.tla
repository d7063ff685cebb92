------------------------------- MODULE HttpDate -------------------------------
(***************************************************************************)
(* The HTTP-date form of a Retry-After header (httpdate_parse, imf_to_unix *)
(* and parse_retry_after_header of src/semantik/error.rs) against a        *)
(* calendar that a clock walks through day by day.                         *)
(*                                                                         *)
(* A header is the record of its fixed-width fields, Unreadable where the  *)
(* text at that place does not parse.  An instant is a number of days      *)
(* since 1970-01-01 and of milliseconds since midnight, rounded down, so   *)
(* that a wait in milliseconds is rounded up.                              *)
(*                                                                         *)
(* DaysOfYearNoCentury and PositiveHint are plausible slips of the         *)
(* definition that follows each of them.                                   *)
(***************************************************************************)
EXTENDS ErrorDecode

CONSTANTS
  LastYear,    \* bound: the clock stops at the end of this year
  Instants,    \* the milliseconds of the day at which a header is read
  Times        \* the times of day a header names: [hour, minute, second]

Time == [hour : 0..23, minute : 0..59, second : 0..59]

ASSUME LastYearAssumption == LastYear \in Int
ASSUME InstantsAssumption == Instants \subseteq {ms \in Nat : ms < 86400000}
ASSUME TimesAssumption == Times \subseteq Time

VARIABLES
  date,   \* today: [year, month, day]
  count   \* days since 1970-01-01

vars == <<date, count>>

Unreadable == -1
NoInstant == [days |-> -1, ms |-> 0]

(***************************************************************************)
(* imf_to_unix: years begin in March, so that a leap day ends one.         *)
(***************************************************************************)
MarchYear(year, month) == IF month <= 2 THEN year - 1 ELSE year
MarchMonth(month) == IF month > 2 THEN month - 3 ELSE month + 9

DaysOfYearNoCentury(y) ==
  LET era == y \div 400
      yoe == y - era * 400
  IN  era * 146097 + yoe * 365 + yoe \div 4
DaysOfYear(y) ==
  LET era == y \div 400
      yoe == y - era * 400
  IN  era * 146097 + yoe * 365 + yoe \div 4 - yoe \div 100

DayOfYear(month, day) == (153 * MarchMonth(month) + 2) \div 5 + day - 1

DaysFrom1970(year, month, day) ==
  DaysOfYear(MarchYear(year, month)) + DayOfYear(month, day) - 719468

InRange(h) ==
  /\ h.year >= 1970 /\ h.year <= 9999 /\ h.month \in 1..12 /\ h.day \in 1..31
  /\ h.hour < 24 /\ h.minute < 60 /\ h.second < 60

MsOfDay(t) == 1000 * (3600 * t.hour + 60 * t.minute + t.second)

ImfToUnix(h) ==
  IF InRange(h) /\ DaysFrom1970(h.year, h.month, h.day) >= 0
  THEN [days |-> DaysFrom1970(h.year, h.month, h.day), ms |-> MsOfDay(h)]
  ELSE NoInstant

Fields == {"year", "month", "day", "hour", "minute", "second"}

HttpDateParse(h) ==
  IF h.long /\ h.gmt /\ \A f \in Fields : h[f] # Unreadable
  THEN ImfToUnix(h)
  ELSE NoInstant

(* duration_since: the wait for an instant, nothing when it is past.  Two   *)
(* days ahead are more than an hour whatever the time of day.              *)
Wait(then, now) ==
  IF then.days \in now.days..(now.days + 1)
  THEN 86400000 * (then.days - now.days) + then.ms - now.ms
  ELSE NoHint

PositiveHint(h, now) ==
  IF HttpDateParse(h) = NoInstant THEN NoHint
  ELSE IF Wait(HttpDateParse(h), now) > 0 THEN Wait(HttpDateParse(h), now)
  ELSE NoHint
DateHint(h, now) ==
  IF HttpDateParse(h) = NoInstant THEN NoHint
                                  ELSE AcceptedHint(Wait(HttpDateParse(h), now))
-----------------------------------------------------------------------------
(* External: the Gregorian calendar the server writes its dates in.        *)
IsLeap(year) == year % 4 = 0 /\ (year % 100 # 0 \/ year % 400 = 0)

MonthLength(year, month) ==
  IF month = 2 THEN IF IsLeap(year) THEN 29 ELSE 28
               ELSE IF month \in {4, 6, 9, 11} THEN 30 ELSE 31

Tomorrow(d) ==
  IF d.day < MonthLength(d.year, d.month)
  THEN [year |-> d.year, month |-> d.month, day |-> d.day + 1]
  ELSE IF d.month < 12
  THEN [year |-> d.year, month |-> d.month + 1, day |-> 1]
  ELSE [year |-> d.year + 1, month |-> 1, day |-> 1]

Init == date = [year |-> 1970, month |-> 1, day |-> 1] /\ count = 0

Midnight ==
  /\ Tomorrow(date).year <= LastYear
  /\ date' = Tomorrow(date)
  /\ count' = count + 1

Next == Midnight
Spec == Init /\ [][Next]_vars

(* A well-formed header for a date and a time of day.                      *)
Header(d, t) ==
  [long |-> TRUE, gmt |-> TRUE, year |-> d.year, month |-> d.month, day |-> d.day,
   hour |-> t.hour, minute |-> t.minute, second |-> t.second]
-----------------------------------------------------------------------------
(* The closed formula of imf_to_unix counts days as the calendar does, over *)
(* leap days, centuries and the four-hundred-year cycle.                    *)
CalendarAgrees == DaysFrom1970(date.year, date.month, date.day) = count

(* A time of today or tomorrow within the next hour is waited for exactly, *)
(* also over midnight and the end of a month, of February or of a year;    *)
(* one of these two days that is past, now or more than an hour away is no *)
(* hint.  A header names a date of four digits.                            *)
Until(target, t, n) ==
  (IF target = date THEN 0 ELSE 86400000) + MsOfDay(t) - n

HintsExact ==
  \A target \in {date, Tomorrow(date)}, t \in Times, n \in Instants :
    target.year <= 9999 =>
      DateHint(Header(target, t), [days |-> count, ms |-> n])
        = IF Until(target, t, n) \in 1..MaxRetryAfter THEN Until(target, t, n)
                                                      ELSE NoHint
=============================================================================
