---------------------------- MODULE HttpDateProofs ----------------------------
(***************************************************************************)
(* Proofs about HttpDate: the day count of imf_to_unix is right for every  *)
(* date of the calendar from 1970 on, and the hint of a date header exact. *)
(***************************************************************************)
EXTENDS HttpDate, TLAPS

Date == [year : Nat, month : 1..12, day : 1..31]
Exists(d) == d \in Date /\ d.year >= 1970 /\ d.day <= MonthLength(d.year, d.month)

CalendarInv == Exists(date) /\ count \in Nat /\ CalendarAgrees

(* From one March to the next there are 365 days, and one more when the    *)
(* February in between has a leap day.                                     *)
LEMMA YearLength ==
  ASSUME NEW y \in Nat
  PROVE  DaysOfYear(y + 1) = DaysOfYear(y) + (IF IsLeap(y + 1) THEN 366 ELSE 365)
  BY DEF DaysOfYear, IsLeap

(* Within a year each month starts where the one before it ends.           *)
LEMMA MonthStarts ==
  ASSUME NEW m \in 1..12, m # 2, NEW y \in Nat
  PROVE  IF m < 12
         THEN DayOfYear(m + 1, 1) = DayOfYear(m, MonthLength(y, m)) + 1
         ELSE DayOfYear(1, 1) = DayOfYear(12, 31) + 1
  BY DEF DayOfYear, MarchMonth, MonthLength

(* Day counts are integers, so that they can be compared and subtracted.   *)
LEMMA CountsTyped ==
  ASSUME NEW d \in Date, d.year >= 1970
  PROVE  /\ MarchYear(d.year, d.month) \in Nat
         /\ DaysOfYear(MarchYear(d.year, d.month)) \in Int
         /\ DayOfYear(d.month, d.day) \in Int
<1>1. d.year \in Nat /\ d.month \in 1..12 /\ d.day \in 1..31
  BY DEF Date
<1>2. MarchYear(d.year, d.month) \in Nat
  BY <1>1 DEF MarchYear
<1>3. \A y \in Nat : DaysOfYear(y) \in Int
  BY DEF DaysOfYear
<1> QED
  BY <1>1, <1>2, <1>3 DEF DayOfYear, MarchMonth

(* A date is followed by a date.                                           *)
LEMMA TomorrowExists ==
  ASSUME NEW d, Exists(d)
  PROVE  Exists(Tomorrow(d)) /\ Tomorrow(d) # d
<1>1. /\ d.year \in Nat /\ d.month \in 1..12 /\ d.day \in 1..31
      /\ d.year >= 1970 /\ d.day <= MonthLength(d.year, d.month)
      /\ d = [year |-> d.year, month |-> d.month, day |-> d.day]
  BY DEF Exists, Date
<1>2. \A y \in Nat, m \in 1..12 : MonthLength(y, m) \in 28..31
  BY DEF MonthLength
<1>3. CASE d.day < MonthLength(d.year, d.month)
  <2>1. Tomorrow(d) = [year |-> d.year, month |-> d.month, day |-> d.day + 1]
    BY <1>1, <1>3 DEF Tomorrow
  <2> QED
    BY <2>1, <1>1, <1>2, <1>3 DEF Exists, Date
<1>4. CASE ~(d.day < MonthLength(d.year, d.month)) /\ d.month < 12
  <2>1. Tomorrow(d) = [year |-> d.year, month |-> d.month + 1, day |-> 1]
    BY <1>1, <1>4 DEF Tomorrow
  <2>2. MonthLength(d.year, d.month + 1) \in 28..31
    BY <1>1, <1>2, <1>4
  <2> QED
    BY <2>1, <2>2, <1>1, <1>4 DEF Exists, Date
<1>5. CASE ~(d.day < MonthLength(d.year, d.month)) /\ ~(d.month < 12)
  <2>1. Tomorrow(d) = [year |-> d.year + 1, month |-> 1, day |-> 1]
    BY <1>5 DEF Tomorrow
  <2>2. MonthLength(d.year + 1, 1) \in 28..31
    BY <1>1, <1>2
  <2> QED
    BY <2>1, <2>2, <1>1 DEF Exists, Date
<1> QED
  BY <1>3, <1>4, <1>5

(* The formula counts one day from each date to the next.                  *)
LEMMA OneDayMore ==
  ASSUME NEW d, Exists(d)
  PROVE  LET e == Tomorrow(d)
         IN  DaysFrom1970(e.year, e.month, e.day)
               = DaysFrom1970(d.year, d.month, d.day) + 1
<1> DEFINE e == Tomorrow(d)
<1>1. /\ d.year \in Nat /\ d.month \in 1..12 /\ d.day \in 1..31
      /\ d.year >= 1970 /\ d.day <= MonthLength(d.year, d.month)
  BY DEF Exists, Date
<1>2. /\ MarchYear(d.year, d.month) \in Nat
      /\ DaysOfYear(MarchYear(d.year, d.month)) \in Int
      /\ DayOfYear(d.month, d.day) \in Int
  BY CountsTyped DEF Exists
<1>3. MonthLength(d.year, d.month) \in 28..31
  BY <1>1 DEF MonthLength
<1>4. CASE d.day < MonthLength(d.year, d.month)
  <2>1. e.year = d.year /\ e.month = d.month /\ e.day = d.day + 1
    BY <1>1, <1>4 DEF Tomorrow, Exists, Date
  <2>2. DayOfYear(d.month, d.day + 1) = DayOfYear(d.month, d.day) + 1
    BY <1>1 DEF DayOfYear, MarchMonth
  <2> QED
    BY <2>1, <2>2, <1>2 DEF DaysFrom1970
<1>5. CASE d.day = MonthLength(d.year, d.month) /\ d.month = 2
  <2>1. e.year = d.year /\ e.month = 3 /\ e.day = 1
    BY <1>1, <1>5 DEF Tomorrow, Exists, Date
  <2>2. DayOfYear(3, 1) = 0
    BY DEF DayOfYear, MarchMonth
  <2>3. DayOfYear(2, d.day) = 336 + d.day
    BY <1>1 DEF DayOfYear, MarchMonth
  <2>4. MarchYear(d.year, 3) = d.year /\ MarchYear(d.year, 2) = d.year - 1
    BY DEF MarchYear
  <2>5. DaysOfYear(d.year)
          = DaysOfYear(d.year - 1) + (IF IsLeap(d.year) THEN 366 ELSE 365)
    <3>1. d.year - 1 \in Nat /\ (d.year - 1) + 1 = d.year
      BY <1>1
    <3> HIDE DEF e
    <3> QED
      BY <3>1, YearLength
  <2>6. d.day = IF IsLeap(d.year) THEN 29 ELSE 28
    BY <1>5 DEF MonthLength
  <2>7. DaysOfYear(d.year - 1) \in Int
    BY <1>2, <1>5, <2>4
  <2> QED
    BY <1>5, <2>1, <2>2, <2>3, <2>4, <2>5, <2>6, <2>7 DEF DaysFrom1970
<1>6. CASE d.day = MonthLength(d.year, d.month) /\ d.month # 2 /\ d.month < 12
  <2>1. e.year = d.year /\ e.month = d.month + 1 /\ e.day = 1
    BY <1>1, <1>6 DEF Tomorrow, Exists, Date
  <2>2. DayOfYear(d.month + 1, 1) = DayOfYear(d.month, d.day) + 1
    BY <1>1, <1>6, MonthStarts
  <2>3. MarchYear(d.year, d.month + 1) = MarchYear(d.year, d.month)
    BY <1>1, <1>6 DEF MarchYear
  <2> QED
    BY <2>1, <2>2, <2>3, <1>2 DEF DaysFrom1970
<1>7. CASE d.day = MonthLength(d.year, d.month) /\ d.month = 12
  <2>1. e.year = d.year + 1 /\ e.month = 1 /\ e.day = 1
    <3>1. ~(d.day < MonthLength(d.year, d.month)) /\ ~(d.month < 12)
      BY <1>1, <1>3, <1>7
    <3> QED
      BY <3>1 DEF Tomorrow
  <2>2. d.day = 31 /\ DayOfYear(1, 1) = DayOfYear(12, 31) + 1
    BY <1>7, <1>1 DEF MonthLength, DayOfYear, MarchMonth
  <2>3. MarchYear(d.year + 1, 1) = MarchYear(d.year, 12)
    BY <1>1 DEF MarchYear
  <2> QED
    BY <2>1, <2>2, <2>3, <1>2, <1>7 DEF DaysFrom1970
<1> QED
  BY <1>1, <1>3, <1>4, <1>5, <1>6, <1>7

(* 1970-01-01 is day zero, and each midnight adds one on both sides.       *)
LEMMA CalendarInvariant == Spec => []CalendarInv
<1>1. Init => CalendarInv
  <2> SUFFICES ASSUME Init PROVE CalendarInv
    OBVIOUS
  <2>1. Exists(date) /\ count \in Nat
    BY DEF Init, Exists, Date, MonthLength
  <2>2. CalendarAgrees
    BY DEF Init, CalendarAgrees, DaysFrom1970, MarchYear, DaysOfYear, DayOfYear, MarchMonth
  <2> QED
    BY <2>1, <2>2 DEF CalendarInv
<1>2. CalendarInv /\ [Next]_vars => CalendarInv'
  <2> SUFFICES ASSUME CalendarInv, [Next]_vars PROVE CalendarInv'
    OBVIOUS
  <2>1. CASE Midnight
    <3>1. date' = Tomorrow(date) /\ count' = count + 1 /\ Exists(date) /\ count \in Nat
      BY <2>1 DEF Midnight, CalendarInv
    <3>2. Exists(date')
      BY <3>1, TomorrowExists
    <3>3. CalendarAgrees'
      BY <3>1, OneDayMore DEF CalendarInv, CalendarAgrees
    <3> QED
      BY <3>1, <3>2, <3>3 DEF CalendarInv
  <2>2. CASE UNCHANGED vars
    BY <2>2 DEF vars, CalendarInv, CalendarAgrees
  <2> QED
    BY <2>1, <2>2 DEF Next
<1> QED
  BY <1>1, <1>2, PTL DEF Spec

(* imf_to_unix counts days as the calendar does, for every date from 1970  *)
(* on, however far the clock goes (error.rs, imf_to_unix).                 *)
THEOREM DaysCounted == Spec => []CalendarAgrees
<1>1. CalendarInv => CalendarAgrees
  BY DEF CalendarInv
<1> QED
  BY <1>1, CalendarInvariant, PTL

(* A well-formed header for a date that exists is parsed to its instant.   *)
LEMMA HeaderParsed ==
  ASSUME NEW d, Exists(d), d.year <= 9999, NEW t \in Time, NEW n \in Nat,
         DaysFrom1970(d.year, d.month, d.day) = n
  PROVE  HttpDateParse(Header(d, t)) = [days |-> n, ms |-> MsOfDay(t)]
<1> DEFINE h == Header(d, t)
<1>1. /\ h.long /\ h.gmt
      /\ h.year = d.year /\ h.month = d.month /\ h.day = d.day
      /\ h.hour = t.hour /\ h.minute = t.minute /\ h.second = t.second
  BY DEF Header
<1>2. /\ d.year \in Nat /\ d.year >= 1970 /\ d.month \in 1..12 /\ d.day \in 1..31
      /\ t.hour \in 0..23 /\ t.minute \in 0..59 /\ t.second \in 0..59
  <2>1. d \in Date /\ d.year >= 1970
    BY DEF Exists
  <2>2. d.year \in Nat /\ d.month \in 1..12 /\ d.day \in 1..31
    BY <2>1 DEF Date
  <2>3. t.hour \in 0..23 /\ t.minute \in 0..59 /\ t.second \in 0..59
    BY DEF Time
  <2> QED
    BY <2>1, <2>2, <2>3
<1> HIDE DEF h
<1>3. InRange(h)
  BY <1>1, <1>2 DEF InRange
<1>4. \A f \in Fields : h[f] # Unreadable
  <2>1. /\ h.year # -1 /\ h.month # -1 /\ h.day # -1
        /\ h.hour # -1 /\ h.minute # -1 /\ h.second # -1
    BY <1>1, <1>2
  <2> QED
    BY <2>1 DEF Fields, Unreadable
<1>5. MsOfDay(h) = MsOfDay(t)
  BY <1>1 DEF MsOfDay
<1>6. ImfToUnix(h) = [days |-> n, ms |-> MsOfDay(t)]
  BY <1>1, <1>3, <1>5 DEF ImfToUnix
<1>7. HttpDateParse(h) = ImfToUnix(h)
  <2>1. h.long /\ h.gmt /\ \A f \in Fields : h[f] # Unreadable
    BY <1>1, <1>4
  <2> QED
    BY <2>1 DEF HttpDateParse
<1> QED
  BY <1>6, <1>7 DEF h

(* A hint that names a time of today or tomorrow is the exact wait,        *)
(* whatever the day and the times, and none when it is past or more than   *)
(* an hour ahead (error.rs, parse_retry_after_header).                     *)
THEOREM DatesWaitedFor == Spec => []HintsExact
<1>1. CalendarInv => HintsExact
  <2> SUFFICES ASSUME CalendarInv,
                      NEW target \in {date, Tomorrow(date)}, NEW t \in Times,
                      NEW n \in Instants, target.year <= 9999
               PROVE  DateHint(Header(target, t), [days |-> count, ms |-> n])
                        = IF Until(target, t, n) \in 1..MaxRetryAfter
                          THEN Until(target, t, n) ELSE NoHint
    BY DEF HintsExact
  <2> DEFINE ahead == IF target = date THEN 0 ELSE 1
             now == [days |-> count, ms |-> n]
             then == HttpDateParse(Header(target, t))
  <2>1. t \in Time /\ n \in Nat /\ count \in Nat /\ Exists(date)
    BY TimesAssumption, InstantsAssumption DEF CalendarInv
  <2>2. Exists(target) /\ DaysFrom1970(target.year, target.month, target.day) = count + ahead
    BY <2>1, TomorrowExists, OneDayMore DEF CalendarInv, CalendarAgrees
  <2>3. then = [days |-> count + ahead, ms |-> MsOfDay(t)]
    BY <2>1, <2>2, HeaderParsed
  <2>4. then # NoInstant
    BY <2>1, <2>3, SMT DEF NoInstant
  <2>5. MsOfDay(t) \in Nat
    <3>1. t.hour \in Nat /\ t.minute \in Nat /\ t.second \in Nat
      BY <2>1, SMT DEF Time
    <3> QED
      BY <3>1, SMT DEF MsOfDay
  <2>6. Wait(then, now) = Until(target, t, n)
    <3>1. then.days = count + ahead /\ then.ms = MsOfDay(t)
      BY <2>3
    <3>2. now.days = count /\ now.ms = n
      OBVIOUS
    <3>3. ahead \in {0, 1} /\ count + ahead - count = ahead
      BY <2>1
    <3>4. Until(target, t, n) = 86400000 * ahead + MsOfDay(t) - n
      BY <2>1, <2>5, SMT DEF Until
    <3> HIDE DEF then, now, ahead
    <3> QED
      BY <2>1, <2>5, <3>1, <3>2, <3>3, <3>4, SMT DEF Wait
  <2>7. DateHint(Header(target, t), now) = AcceptedHint(Wait(then, now))
    BY <2>4 DEF DateHint
  <2> HIDE DEF then, now, ahead
  <2>8. DateHint(Header(target, t), now) = AcceptedHint(Until(target, t, n))
    BY <2>6, <2>7
  <2>9. DateHint(Header(target, t), now)
          = IF Until(target, t, n) \in 1..MaxRetryAfter
            THEN Until(target, t, n) ELSE NoHint
    BY <2>8 DEF AcceptedHint
  <2> QED
    BY <2>9 DEF now
<1> QED
  BY <1>1, CalendarInvariant, PTL
=============================================================================
