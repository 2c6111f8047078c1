---------------------- MODULE MaintenanceWindowsProofs ----------------------
(***************************************************************************)
(* For any calendar, schedules, windows, plans, intervals and faults:      *)
(*   - a window is open from its margin to its end, and at no other time,  *)
(*     over midnights and the ends of months, by the arithmetic of days    *)
(*     that its one, two or three periods are made of;                     *)
(*   - an instance is made to run only for a window that is told of, and   *)
(*     it is up in each one that could be known;                           *)
(*   - an RDS instance is asked to run in its preferred window;            *)
(*   - an instance that is answered for stays as it was asked to be.       *)
(***************************************************************************)
EXTENDS MaintenanceWindows, WellFoundedInduction, TLAPS

-----------------------------------------------------------------------------
(* Days *)

DayOf(m) == m \div DayLength

\* The minute a day begins with.
DayStart(m) == m - TimeOf(m)

LEMMA Lengths ==
    /\ DayLength \in Nat /\ DayLength > 1 /\ EndOfDay \in TimesOfDay /\ EndOfDay > 0
    /\ Early \in Nat /\ Early > 0 /\ Early < DayLength
  BY CalendarAssumption, WindowsAssumption DEF TimesOfDay, EndOfDay

\* A minute is one of its day.
LEMMA DayTime ==
    ASSUME NEW m \in Int
    PROVE  /\ DayOf(m) \in Int /\ TimeOf(m) \in TimesOfDay
           /\ TimeOf(m) \in Int /\ DayStart(m) \in Int
           /\ DayStart(m) = DayLength * DayOf(m)
           /\ DayStart(m) <= m /\ m < DayStart(m) + DayLength
<1>1. DayLength \in Nat \ {0}
  BY Lengths
<1>2. /\ m \div DayLength \in Int /\ m % DayLength \in 0..DayLength - 1
      /\ m = DayLength * (m \div DayLength) + (m % DayLength)
  BY <1>1
<1>3. QED
  BY <1>1, <1>2 DEF DayOf, TimeOf, DayStart, TimesOfDay

\* Days are in order.
LEMMA DayOrder ==
    ASSUME NEW a \in Int, NEW b \in Int
    PROVE  /\ DayOf(a) = DayOf(b) => DayStart(a) = DayStart(b)
           /\ DayOf(a) < DayOf(b) => DayStart(a) + DayLength <= DayStart(b)
           /\ DayOf(b) = DayOf(a) + 1 => DayStart(b) = DayStart(a) + DayLength
           /\ DayOf(b) = DayOf(a) + 2 => DayStart(b) = DayStart(a) + 2 * DayLength
           /\ DayOf(b) > DayOf(a) + 2 => DayStart(a) + 3 * DayLength <= DayStart(b)
<1>1. DayLength \in Nat \ {0}
  BY Lengths
<1>2. ASSUME NEW x \in Int, NEW y \in Int, x <= y PROVE DayLength * x <= DayLength * y
  BY <1>1, <1>2
<1>3. ASSUME NEW x \in Int PROVE /\ DayLength * (x + 1) = DayLength * x + DayLength
                                 /\ DayLength * (x + 2) = DayLength * x + 2 * DayLength
                                 /\ DayLength * (x + 3) = DayLength * x + 3 * DayLength
  BY <1>1
<1>4. DayOf(a) < DayOf(b) => DayStart(a) + DayLength <= DayStart(b)
  <2>1. ASSUME DayOf(a) < DayOf(b) PROVE DayStart(a) + DayLength <= DayStart(b)
    <3>1. DayLength * (DayOf(a) + 1) <= DayLength * DayOf(b)
      BY <1>2, <2>1, DayTime
    <3>2. QED
      BY <1>1, <1>3, <3>1, DayTime
  <2>2. QED
    BY <2>1
<1>5. DayOf(b) > DayOf(a) + 2 => DayStart(a) + 3 * DayLength <= DayStart(b)
  <2>1. ASSUME DayOf(b) > DayOf(a) + 2 PROVE DayStart(a) + 3 * DayLength <= DayStart(b)
    <3>1. DayLength * (DayOf(a) + 3) <= DayLength * DayOf(b)
      BY <1>2, <2>1, DayTime
    <3>2. QED
      BY <1>1, <1>3, <3>1, DayTime
  <2>2. QED
    BY <2>1
<1>6. /\ DayStart(a) = DayLength * DayOf(a) /\ DayStart(b) = DayLength * DayOf(b)
      /\ DayOf(a) \in Int /\ DayOf(b) \in Int
  BY DayTime
<1>7. DayOf(a) = DayOf(b) => DayStart(a) = DayStart(b)
  BY <1>6, Zenon
<1>8. DayOf(b) = DayOf(a) + 1 => DayStart(b) = DayStart(a) + DayLength
  <2>1. DayLength * (DayOf(a) + 1) = DayLength * DayOf(a) + DayLength
    BY <1>3, <1>6
  <2>2. QED
    BY <1>6, <2>1, Zenon
<1>9. DayOf(b) = DayOf(a) + 2 => DayStart(b) = DayStart(a) + 2 * DayLength
  <2>1. DayLength * (DayOf(a) + 2) = DayLength * DayOf(a) + 2 * DayLength
    BY <1>3, <1>6
  <2>2. QED
    BY <1>6, <2>1, Zenon
<1>10. QED
  BY <1>4, <1>5, <1>7, <1>8, <1>9

\* The day before has the same times, and days have dates.
LEMMA DayBefore ==
    ASSUME NEW m \in Int
    PROVE  DayOf(m - DayLength) = DayOf(m) - 1 /\ TimeOf(m - DayLength) = TimeOf(m)
<1>1. DayLength \in Nat \ {0}
  BY Lengths
<1>2. (m - DayLength) \div DayLength = (m \div DayLength) - 1
  BY <1>1
<1>3. DayLength * ((m \div DayLength) - 1) = DayLength * (m \div DayLength) - DayLength
  BY <1>1
<1>4. m - DayLength = DayLength * ((m - DayLength) \div DayLength) + ((m - DayLength) % DayLength)
  BY <1>1
<1>5. m = DayLength * (m \div DayLength) + (m % DayLength)
  BY <1>1
<1>6. (m - DayLength) % DayLength \in Int /\ m % DayLength \in Int /\ m \div DayLength \in Int
  BY <1>1
<1>7. QED
  BY <1>1, <1>2, <1>3, <1>4, <1>5, <1>6 DEF DayOf, TimeOf

LEMMA DayInCalendar ==
    ASSUME NEW m \in Minutes
    PROVE  m \in Nat /\ DayOf(m) \in Nat /\ DayOf(m) + 1 \in DOMAIN Calendar
<1>1. DayLength \in Nat \ {0} /\ Len(Calendar) \in Nat /\ DOMAIN Calendar = 1..Len(Calendar)
  BY Lengths, CalendarAssumption
<1>2. m \in Nat /\ m < Len(Calendar) * DayLength
  BY <1>1 DEF Minutes
<1>3. m \div DayLength \in Nat /\ (m \div DayLength) + 1 \in 1..Len(Calendar)
  BY <1>1, <1>2
<1>4. QED
  BY <1>1, <1>2, <1>3 DEF DayOf

\* The minutes about the present are in the calendar.
LEMMA NowInCalendar ==
    ASSUME now \in Start..Horizon
    PROVE  now - 1 \in Minutes /\ now \in Minutes /\ now + 1 \in Minutes
<1> DEFINE minutes == Len(Calendar) * DayLength
<1>1. Len(Calendar) \in Nat /\ minutes \in Nat /\ Minutes = 0..minutes - 1
  BY Lengths, CalendarAssumption DEF Minutes
<1>2. /\ Start \in Nat /\ Horizon \in Nat /\ 0 < Start
      /\ Horizon + 2 * DayLength < minutes
  BY WindowsAssumption
<1> HIDE DEF minutes
<1>3. QED
  BY <1>1, <1>2, Lengths

-----------------------------------------------------------------------------
(* Windows as schedules *)

\* A minute is on a date if it is of its day: no date comes twice.
LEMMA OnItsDate ==
    ASSUME NEW a \in Minutes, NEW m \in Minutes
    PROVE  Contains(OnDate(DateOf(a)), DateOf(m)) <=> DayOf(m) = DayOf(a)
<1> DEFINE i == DayOf(a) + 1
           j == DayOf(m) + 1
<1>1. i \in DOMAIN Calendar /\ j \in DOMAIN Calendar /\ i \in Nat /\ j \in Nat
  BY DayInCalendar
<1>2. DateOf(a) = Calendar[i] /\ DateOf(m) = Calendar[j]
  BY DEF DateOf, DayOf
<1> HIDE DEF i, j
<1>3. i # j => Calendar[i].month # Calendar[j].month \/ Calendar[i].day # Calendar[j].day
  BY <1>1, CalendarAssumption
<1>4. /\ MonthsContain(OnDate(Calendar[i]).months, Calendar[j]) <=> Calendar[j].month = Calendar[i].month
      /\ MonthdaysContain(OnDate(Calendar[i]).monthdays, Calendar[j]) <=> Calendar[j].day = Calendar[i].day
      /\ WeekdaysContain(OnDate(Calendar[i]).weekdays, Calendar[j])
  <2>1. ASSUME NEW n, NEW x, NEW lo, NEW hi
        PROVE  /\ Matches(Value(n), x, lo, hi) <=> x = n
               /\ Matches(All, x, lo, hi)
               /\ Value(n).kind \notin {"nearest", "nth", "lastweekday"}
    BY DEF Matches, Value, All
  <2>2. /\ OnDate(Calendar[i]).months = {Value(Calendar[i].month)}
        /\ OnDate(Calendar[i]).monthdays = {Value(Calendar[i].day)}
        /\ OnDate(Calendar[i]).weekdays = {All}
    BY DEF OnDate
  <2>3. QED
    BY <2>1, <2>2 DEF MonthsContain, MonthdaysContain, WeekdaysContain
<1>5. Contains(OnDate(Calendar[i]), Calendar[j]) <=> i = j
  BY <1>3, <1>4 DEF Contains
<1>6. i = j <=> DayOf(m) = DayOf(a)
  BY DayInCalendar DEF i, j
<1>7. QED
  BY <1>2, <1>5, <1>6

\* A period with both times runs from the one to the other; one with neither all day.
LEMMA PeriodRuns ==
    ASSUME NEW a \in Minutes, NEW m \in Minutes,
           NEW begin \in TimesOfDay, NEW end \in TimesOfDay
    PROVE  LET timed == RunFrom(begin, end, OnDate(DateOf(a)))
               daylong == RunFrom(NoTime, NoTime, OnDate(DateOf(a)))
           IN  /\ PeriodState(timed, m) = "running" <=>
                     DayOf(m) = DayOf(a) /\ begin <= TimeOf(m) /\ TimeOf(m) < end
               /\ PeriodState(daylong, m) = "running" <=> DayOf(m) = DayOf(a)
               /\ {PeriodState(timed, m), PeriodState(daylong, m)} \subseteq {"running", "stopped"}
<1>1. begin # NoTime /\ end # NoTime
  BY Lengths DEF TimesOfDay, NoTime
<1>2. QED
  BY <1>1, OnItsDate DEF PeriodState, CheckTime, RunFrom

\* A schedule of nothing but its periods runs when one of them does.
LEMMA OpenState ==
    ASSUME NEW periods, NEW m,
           \A i \in DOMAIN periods : PeriodState(periods[i], m) \in {"running", "stopped"}
    PROVE  /\ StateAt(Opening(periods), m).state = "running" <=>
                 \E i \in DOMAIN periods : PeriodState(periods[i], m) = "running"
           /\ StateAt(Opening(periods), m).state \in {"running", "stopped"}
<1>1. Opening(periods).periods = periods /\ Opening(periods).override = "none"
  BY DEF Opening
<1>2. QED
  BY <1>1 DEF StateAt, Answer

\* An execution that Systems Manager may tell of, and when its window is opened.
Ours(x) == x \in Execution /\ x.begin \in 2 * DayLength..Horizon
OpensAt(x) == x.begin - Margin

\* A window is opened the day before it begins at the earliest, and is over two days
\* later at the latest; every minute of it has a date.
LEMMA WindowSpan ==
    ASSUME NEW x, Ours(x), interval \in Intervals
    PROVE  /\ interval \in Nat /\ interval > 0 /\ Margin \in Nat /\ Margin < DayLength
           /\ Margin = interval + Early
           /\ x.begin \in Nat /\ x.length \in Nat /\ x.length > 0 /\ x.length <= DayLength
           /\ OpensAt(x) \in Minutes /\ OpensAt(x) >= DayLength /\ Over(x) \in Minutes
           /\ OpensAt(x) = x.begin - Margin /\ Over(x) = x.begin + x.length
           /\ Over(x) - DayLength \in Minutes
<1>1. /\ interval \in Nat \ {0} /\ interval + Early < DayLength
      /\ Horizon \in Nat /\ Horizon + 2 * DayLength < Len(Calendar) * DayLength
  BY WindowsAssumption
<1> DEFINE minutes == Len(Calendar) * DayLength
<1>2. Len(Calendar) \in Nat /\ minutes \in Nat /\ Minutes = 0..minutes - 1
  BY Lengths, CalendarAssumption DEF Minutes
<1>3. x.begin \in 2 * DayLength..Horizon /\ x.length \in 1..DayLength
  BY DEF Ours, Execution
<1>4. Horizon + 2 * DayLength < minutes
  BY <1>1
<1> HIDE DEF minutes
<1>5. /\ Margin \in Nat /\ Margin < DayLength /\ Margin = interval + Early
      /\ x.begin \in Nat /\ x.length \in Nat /\ x.length > 0 /\ x.length <= DayLength
      /\ OpensAt(x) = x.begin - Margin /\ Over(x) = x.begin + x.length
  BY <1>1, <1>3, Lengths DEF Margin, OpensAt, Over
<1>6. QED
  BY <1>1, <1>2, <1>3, <1>4, <1>5, Lengths

\* The minutes at which a period of the window runs.
Runs(x, m) ==
    LET begin == OpensAt(x)
        end == Over(x)
        first == DayOf(m) = DayOf(begin) /\ begin <= m /\ TimeOf(m) < EndOfDay
        last == DayOf(m) = DayOf(end) /\ m < end
    IN  IF DayOf(begin) = DayOf(end) THEN begin <= m /\ m < end
        ELSE \/ first \/ last
             \/ end - begin > DayLength /\ DayOf(m) = DayOf(end) - 1

LEMMA WindowRuns ==
    ASSUME NEW x, Ours(x), interval \in Intervals, NEW m \in Minutes
    PROVE  /\ StateAt(ToSchedule(x), m).state = "running" <=> Runs(x, m)
           /\ StateAt(ToSchedule(x), m).state \in {"running", "stopped"}
           /\ Len(ToSchedule(x).periods) > 1 <=> DayOf(OpensAt(x)) # DayOf(Over(x))
<1> DEFINE begin == OpensAt(x)
           end == Over(x)
           on == DateOf(begin)
           until == DateOf(end)
           only == RunFrom(TimeOf(begin), TimeOf(end), OnDate(on))
           first == RunFrom(TimeOf(begin), EndOfDay, OnDate(on))
           last == RunFrom(0, TimeOf(end), OnDate(until))
           between == RunFrom(NoTime, NoTime, OnDate(DateOf(end - DayLength)))
           Going(period) == PeriodState(period, m) = "running"
<1>1. /\ begin \in Minutes /\ end \in Minutes /\ end - DayLength \in Minutes
      /\ begin \in Int /\ end \in Int /\ m \in Int
      /\ begin < end /\ end - begin < 2 * DayLength
  BY WindowSpan, Lengths, DayInCalendar
<1>2. /\ TimeOf(begin) \in TimesOfDay /\ TimeOf(end) \in TimesOfDay
      /\ EndOfDay \in TimesOfDay /\ 0 \in TimesOfDay
  BY <1>1, DayTime, Lengths DEF TimesOfDay
<1>3. /\ Going(only) <=> DayOf(m) = DayOf(begin) /\ TimeOf(begin) <= TimeOf(m) /\ TimeOf(m) < TimeOf(end)
      /\ Going(first) <=> DayOf(m) = DayOf(begin) /\ TimeOf(begin) <= TimeOf(m) /\ TimeOf(m) < EndOfDay
      /\ Going(last) <=> DayOf(m) = DayOf(end) /\ 0 <= TimeOf(m) /\ TimeOf(m) < TimeOf(end)
      /\ Going(between) <=> DayOf(m) = DayOf(end - DayLength)
      /\ \A period \in {only, first, last, between} : PeriodState(period, m) \in {"running", "stopped"}
  BY <1>1, <1>2, PeriodRuns
<1>4. DayOf(begin) \in Nat /\ DayOf(end) \in Nat /\ DayOf(m) \in Nat
  BY <1>1, DayInCalendar
<1>5. /\ DayStart(begin) = begin - TimeOf(begin) /\ DayStart(end) = end - TimeOf(end)
      /\ DayStart(m) = m - TimeOf(m)
      /\ DayStart(begin) \in Int /\ DayStart(begin) <= begin /\ begin < DayStart(begin) + DayLength
      /\ DayStart(end) \in Int /\ DayStart(end) <= end /\ end < DayStart(end) + DayLength
      /\ DayStart(m) \in Int /\ DayStart(m) <= m /\ m < DayStart(m) + DayLength
      /\ TimeOf(begin) \in Int /\ TimeOf(end) \in Int /\ TimeOf(m) \in Int /\ 0 <= TimeOf(m)
  BY <1>1, DayTime, Lengths DEF DayStart, TimesOfDay
<1>6. DayOf(begin) <= DayOf(end) /\ DayOf(end) <= DayOf(begin) + 2
  <2>1. /\ DayOf(end) < DayOf(begin) => DayStart(end) + DayLength <= DayStart(begin)
        /\ DayOf(end) > DayOf(begin) + 2 => DayStart(begin) + 3 * DayLength <= DayStart(end)
    BY <1>1, DayOrder
  <2>2. QED
    BY <1>1, <1>4, <1>5, <2>1, Lengths
<1>7. /\ ToSchedule(x) = Opening(IF on.day = until.day THEN <<only>>
                                ELSE IF end - begin <= DayLength THEN <<first, last>>
                                ELSE <<first, between, last>>)
  BY DEF ToSchedule, OpensAt, Margin
<1>8. on.day = until.day <=> DayOf(begin) = DayOf(end)
  <2>1. on = Calendar[DayOf(begin) + 1] /\ until = Calendar[DayOf(end) + 1]
    BY DEF DateOf, DayOf
  <2>2. DayOf(begin) + 1 \in DOMAIN Calendar /\ DayOf(end) + 1 \in DOMAIN Calendar
    BY <1>1, DayInCalendar
  <2>3. QED
    BY <1>4, <1>6, <2>1, <2>2, CalendarAssumption
<1>9. DayOf(end - DayLength) = DayOf(end) - 1
  BY <1>1, DayBefore
<1>10. /\ DayOf(m) = DayOf(begin) => (TimeOf(begin) <= TimeOf(m) <=> begin <= m)
       /\ DayOf(m) = DayOf(end) => (TimeOf(m) < TimeOf(end) <=> m < end)
  BY <1>1, <1>5, DayOrder
<1> HIDE DEF only, first, last, between
<1>11. CASE DayOf(begin) = DayOf(end)
  <2>1. ToSchedule(x) = Opening(<<only>>)
    BY <1>7, <1>8, <1>11
  <2>2. ToSchedule(x).periods = <<only>>
    BY <2>1 DEF Opening
  <2>3. Going(only) <=> begin <= m /\ m < end
    <3>1. begin <= m /\ m < end => DayOf(m) = DayOf(begin)
      <4>1. /\ DayOf(m) < DayOf(begin) => DayStart(m) + DayLength <= DayStart(begin)
            /\ DayOf(end) < DayOf(m) => DayStart(end) + DayLength <= DayStart(m)
        BY <1>1, DayOrder
      <4>2. QED
        BY <1>1, <1>4, <1>5, <1>11, <4>1, Lengths
    <3>2. QED
      BY <1>1, <1>3, <1>10, <1>11, <3>1
  <2>4. /\ StateAt(ToSchedule(x), m).state = "running" <=> Going(only)
        /\ StateAt(ToSchedule(x), m).state \in {"running", "stopped"}
    BY <1>3, <2>1, OpenState
  <2>5. Going(only) <=> Runs(x, m)
    BY <1>11, <2>3 DEF Runs
  <2>6. ~(Len(ToSchedule(x).periods) > 1)
    BY <2>2
  <2>7. QED
    BY <1>11, <2>4, <2>5, <2>6
<1>12. CASE DayOf(begin) # DayOf(end) /\ end - begin <= DayLength
  <2>1. ToSchedule(x) = Opening(<<first, last>>)
    BY <1>7, <1>8, <1>12
  <2>2. ToSchedule(x).periods = <<first, last>>
    BY <2>1 DEF Opening
  <2>3. /\ StateAt(ToSchedule(x), m).state = "running" <=> Going(first) \/ Going(last)
        /\ StateAt(ToSchedule(x), m).state \in {"running", "stopped"}
    BY <1>3, <2>1, OpenState
  <2>4. Going(first) \/ Going(last) <=> Runs(x, m)
    BY <1>1, <1>3, <1>5, <1>10, <1>12, Lengths DEF Runs
  <2>5. QED
    BY <1>12, <2>2, <2>3, <2>4
<1>13. CASE DayOf(begin) # DayOf(end) /\ end - begin > DayLength
  <2>1. ToSchedule(x) = Opening(<<first, between, last>>)
    <3>1. ~(end - begin <= DayLength)
      BY <1>1, <1>13, Lengths
    <3>2. QED
      BY <1>7, <1>8, <1>13, <3>1
  <2>2. ToSchedule(x).periods = <<first, between, last>>
    BY <2>1 DEF Opening
  <2>3. /\ StateAt(ToSchedule(x), m).state = "running" <=>
              Going(first) \/ Going(between) \/ Going(last)
        /\ StateAt(ToSchedule(x), m).state \in {"running", "stopped"}
    BY <1>3, <2>1, OpenState
  <2>4. Going(first) \/ Going(between) \/ Going(last) <=> Runs(x, m)
    BY <1>1, <1>3, <1>5, <1>9, <1>10, <1>13, Lengths DEF Runs
  <2>5. QED
    BY <1>13, <2>2, <2>3, <2>4
<1>14. QED
  BY <1>1, <1>11, <1>12, <1>13, Lengths

\* What the days of a window's begin and end say of a minute.
LEMMA WindowDays ==
    ASSUME NEW x, Ours(x), interval \in Intervals, NEW m \in Minutes
    PROVE  LET begin == OpensAt(x)
               end == Over(x)
           IN  /\ begin \in Int /\ end \in Int /\ m \in Int /\ begin < end /\ end - begin < 2 * DayLength
               /\ DayOf(begin) \in Int /\ DayOf(end) \in Int /\ DayOf(m) \in Int
               /\ DayOf(begin) <= DayOf(end) /\ DayOf(end) <= DayOf(begin) + 2
               /\ end - begin <= DayLength => DayOf(end) <= DayOf(begin) + 1
               /\ end - begin > DayLength => DayOf(end) > DayOf(begin)
               /\ DayOf(m) < DayOf(begin) => m < DayStart(begin)
               /\ DayOf(m) > DayOf(begin) => begin < m
               /\ DayOf(m) = DayOf(begin) => DayStart(begin) <= m
               /\ DayOf(m) < DayOf(end) => m < end
               /\ DayOf(m) > DayOf(end) => end < m
               /\ DayStart(begin) = begin - TimeOf(begin) /\ DayStart(begin) \in Int
               /\ DayStart(begin) <= begin
<1> DEFINE begin == OpensAt(x)
           end == Over(x)
<1>1. /\ begin \in Minutes /\ end \in Minutes /\ begin \in Int /\ end \in Int /\ m \in Int
      /\ begin < end /\ end - begin < 2 * DayLength
  BY WindowSpan, Lengths, DayInCalendar
<1> HIDE DEF begin, end
<1>2. DayOf(begin) \in Int /\ DayOf(end) \in Int /\ DayOf(m) \in Int
  BY <1>1, DayInCalendar
<1>3. /\ DayStart(begin) = begin - TimeOf(begin)
      /\ DayStart(begin) \in Int /\ DayStart(begin) <= begin /\ begin < DayStart(begin) + DayLength
      /\ DayStart(end) \in Int /\ DayStart(end) <= end /\ end < DayStart(end) + DayLength
      /\ DayStart(m) \in Int /\ DayStart(m) <= m /\ m < DayStart(m) + DayLength
  BY <1>1, DayTime DEF DayStart
<1>4. /\ DayOf(end) < DayOf(begin) => DayStart(end) + DayLength <= DayStart(begin)
      /\ DayOf(end) > DayOf(begin) + 2 => DayStart(begin) + 3 * DayLength <= DayStart(end)
      /\ DayOf(end) = DayOf(begin) + 2 => DayStart(end) = DayStart(begin) + 2 * DayLength
      /\ DayOf(end) = DayOf(begin) => DayStart(end) = DayStart(begin)
  BY <1>1, DayOrder
<1>5. /\ DayOf(m) < DayOf(begin) => DayStart(m) + DayLength <= DayStart(begin)
      /\ DayOf(m) > DayOf(begin) => DayStart(begin) + DayLength <= DayStart(m)
      /\ DayOf(m) = DayOf(begin) => DayStart(begin) = DayStart(m)
      /\ DayOf(m) < DayOf(end) => DayStart(m) + DayLength <= DayStart(end)
      /\ DayOf(m) > DayOf(end) => DayStart(end) + DayLength <= DayStart(m)
  BY <1>1, DayOrder
<1>6. DayOf(begin) <= DayOf(end) /\ DayOf(end) <= DayOf(begin) + 2
  BY <1>1, <1>2, <1>3, <1>4, Lengths
<1>7. /\ end - begin <= DayLength => DayOf(end) <= DayOf(begin) + 1
      /\ end - begin > DayLength => DayOf(end) > DayOf(begin)
  BY <1>1, <1>2, <1>3, <1>4, <1>6, Lengths
<1>8. QED
  BY <1>1, <1>2, <1>3, <1>5, <1>6, <1>7, Lengths DEF begin, end

\* The window runs at no minute before it is opened or after it is over.
LEMMA RunsWithin ==
    ASSUME NEW x, Ours(x), interval \in Intervals, NEW m \in Minutes, Runs(x, m)
    PROVE  OpenedAt(x) <= m /\ m < Over(x)
<1> DEFINE begin == OpensAt(x)
           end == Over(x)
<1>1. /\ x.length + Margin = end - begin
      /\ OpenedAt(x) = IF end - begin > DayLength THEN DayStart(begin) ELSE begin
  <2>1. x.length + Margin = end - begin
    BY WindowSpan
  <2>2. QED
    BY <2>1 DEF OpenedAt, DayStart, OpensAt
<1> HIDE DEF begin, end
<1>2. \/ DayOf(begin) = DayOf(end) /\ begin <= m /\ m < end
      \/ DayOf(begin) # DayOf(end) /\ DayOf(m) = DayOf(begin) /\ begin <= m
      \/ DayOf(begin) # DayOf(end) /\ DayOf(m) = DayOf(end) /\ m < end
      \/ end - begin > DayLength /\ DayOf(m) = DayOf(end) - 1
  BY DEF Runs, begin, end
<1>3. QED
  BY <1>1, <1>2, WindowDays, Lengths DEF begin, end

LEMMA OpenAt ==
    ASSUME NEW x, Ours(x), interval \in Intervals, now \in Start..Horizon
    PROVE  /\ now - 1 \in Minutes /\ now \in Minutes /\ now + 1 \in Minutes
           /\ IsOpen(ToSchedule(x)) <=>
                 \/ Runs(x, now)
                 \/ DayOf(OpensAt(x)) # DayOf(Over(x)) /\ Runs(x, now - 1) /\ Runs(x, now + 1)
<1>1. now - 1 \in Minutes /\ now \in Minutes /\ now + 1 \in Minutes
  BY NowInCalendar
<1> DEFINE s == ToSchedule(x)
<1>2. ASSUME NEW m \in {now - 1, now, now + 1}
      PROVE  /\ StateAt(s, m).state = "running" <=> Runs(x, m)
             /\ StateAt(s, m).state \in {"running", "stopped"}
             /\ Len(s.periods) > 1 <=> DayOf(OpensAt(x)) # DayOf(Over(x))
  BY <1>1, <1>2, WindowRuns
<1> HIDE DEF s
<1>3. IsOpen(s) <=>
         \/ StateAt(s, now).state = "running"
         \/ /\ Len(s.periods) > 1 /\ StateAt(s, now).state = "stopped"
            /\ StateAt(s, now - 1).state = "running" /\ StateAt(s, now + 1).state = "running"
  BY DEF IsOpen, DesiredState
<1>4. /\ Len(s.periods) > 1 <=> DayOf(OpensAt(x)) # DayOf(Over(x))
      /\ StateAt(s, now).state = "running" <=> Runs(x, now)
      /\ StateAt(s, now).state \in {"running", "stopped"}
      /\ StateAt(s, now - 1).state = "running" <=> Runs(x, now - 1)
      /\ StateAt(s, now + 1).state = "running" <=> Runs(x, now + 1)
  BY <1>2
<1>5. QED
  BY <1>1, <1>3, <1>4 DEF s

\* The minute after one of a day, and the minute before one within it.
LEMMA NextMinutes ==
    ASSUME NEW m \in Int
    PROVE  /\ TimeOf(m) = EndOfDay => DayOf(m + 1) = DayOf(m) + 1 /\ TimeOf(m + 1) = 0
           /\ TimeOf(m) # EndOfDay => DayOf(m + 1) = DayOf(m) /\ TimeOf(m + 1) = TimeOf(m) + 1
           /\ TimeOf(m) > 0 => DayOf(m - 1) = DayOf(m) /\ TimeOf(m - 1) = TimeOf(m) - 1
<1> DEFINE after == m + 1
           before == m - 1
<1>1. /\ DayOf(m) \in Int /\ DayOf(after) \in Int /\ DayOf(before) \in Int
      /\ DayStart(m) \in Int /\ DayStart(after) \in Int /\ DayStart(before) \in Int
      /\ DayStart(m) <= m /\ m < DayStart(m) + DayLength
      /\ DayStart(after) <= m + 1 /\ m + 1 < DayStart(after) + DayLength
      /\ DayStart(before) <= m - 1 /\ m - 1 < DayStart(before) + DayLength
      /\ DayStart(m) = m - TimeOf(m) /\ DayStart(after) = (m + 1) - TimeOf(after)
      /\ DayStart(before) = (m - 1) - TimeOf(before)
      /\ TimeOf(m) \in Int /\ TimeOf(after) \in Int /\ TimeOf(before) \in Int
  BY DayTime DEF DayStart
<1>2. /\ DayOf(m) = DayOf(after) => DayStart(m) = DayStart(after)
      /\ DayOf(after) < DayOf(m) => DayStart(after) + DayLength <= DayStart(m)
      /\ DayOf(after) = DayOf(m) + 1 => DayStart(after) = DayStart(m) + DayLength
      /\ DayOf(after) = DayOf(m) + 2 => DayStart(after) = DayStart(m) + 2 * DayLength
      /\ DayOf(after) > DayOf(m) + 2 => DayStart(m) + 3 * DayLength <= DayStart(after)
  BY DayOrder
<1>3. /\ DayOf(m) = DayOf(before) => DayStart(m) = DayStart(before)
      /\ DayOf(m) < DayOf(before) => DayStart(m) + DayLength <= DayStart(before)
      /\ DayOf(before) < DayOf(m) => DayStart(before) + DayLength <= DayStart(m)
  BY DayOrder
<1>4. EndOfDay = DayLength - 1
  BY DEF EndOfDay
<1> HIDE DEF after, before
<1>5. TimeOf(m) = EndOfDay => DayOf(after) = DayOf(m) + 1 /\ TimeOf(after) = 0
  BY <1>1, <1>2, <1>4, Lengths
<1>6. TimeOf(m) > 0 => DayOf(before) = DayOf(m) /\ TimeOf(before) = TimeOf(m) - 1
  BY <1>1, <1>3, <1>4, Lengths
<1>7. TimeOf(m) # EndOfDay => DayOf(after) = DayOf(m) /\ TimeOf(after) = TimeOf(m) + 1
  BY <1>1, <1>2, <1>4, Lengths
<1>8. QED
  BY <1>5, <1>6, <1>7 DEF after, before

\* A window is taken for open at no minute before it is opened or after it is over.
LEMMA OpenWithin ==
    ASSUME NEW x, Ours(x), interval \in Intervals, now \in Start..Horizon,
           IsOpen(ToSchedule(x))
    PROVE  OpenedAt(x) <= now /\ now < Over(x)
<1>1. now \in Int /\ Over(x) \in Int /\ OpenedAt(x) \in Int
  <2>1. OpensAt(x) \in Int /\ Over(x) \in Int /\ x.length + Margin \in Int
    BY WindowSpan, DayInCalendar
  <2>2. OpensAt(x) - TimeOf(OpensAt(x)) \in Int
    BY <2>1, DayTime DEF DayStart
  <2>3. QED
    BY <2>1, <2>2, WindowsAssumption DEF OpenedAt, OpensAt
<1>2. CASE Runs(x, now)
  BY <1>2, OpenAt, RunsWithin
<1>3. CASE Runs(x, now - 1) /\ Runs(x, now + 1)
  <2>1. OpenedAt(x) <= now - 1 /\ now + 1 < Over(x)
    BY <1>3, OpenAt, RunsWithin
  <2>2. QED
    BY <1>1, <2>1
<1>4. QED
  BY <1>2, <1>3, OpenAt

\* It is open from its margin to its end, but for the last minute of a day.
LEMMA OpenDuring ==
    ASSUME NEW x, Ours(x), interval \in Intervals, now \in Start..Horizon,
           OpensAt(x) < now, now < Over(x),
           ~(now + 1 = Over(x) /\ TimeOf(Over(x)) = 0)
    PROVE  IsOpen(ToSchedule(x))
<1> DEFINE begin == OpensAt(x)
           end == Over(x)
<1>1. /\ now - 1 \in Minutes /\ now \in Minutes /\ now + 1 \in Minutes
      /\ IsOpen(ToSchedule(x)) <=>
            \/ Runs(x, now)
            \/ DayOf(begin) # DayOf(end) /\ Runs(x, now - 1) /\ Runs(x, now + 1)
  BY OpenAt
<1>2. now \in Int /\ begin \in Int /\ end \in Int /\ begin < now /\ now < end
  BY <1>1, WindowSpan, DayInCalendar
<1>3. /\ DayOf(begin) \in Int /\ DayOf(end) \in Int /\ DayOf(now) \in Int
      /\ DayOf(begin) <= DayOf(end) /\ DayOf(end) <= DayOf(begin) + 2
      /\ end - begin <= DayLength => DayOf(end) <= DayOf(begin) + 1
      /\ DayOf(now) >= DayOf(begin)
      /\ DayOf(now) <= DayOf(end)
  <2>1. /\ DayOf(now) < DayOf(begin) => now < DayStart(begin)
        /\ DayOf(now) > DayOf(end) => end < now
        /\ DayStart(begin) \in Int /\ DayStart(begin) <= begin
    BY <1>1, WindowDays
  <2>2. /\ DayOf(begin) \in Int /\ DayOf(end) \in Int /\ DayOf(now) \in Int
        /\ DayOf(begin) <= DayOf(end) /\ DayOf(end) <= DayOf(begin) + 2
        /\ end - begin <= DayLength => DayOf(end) <= DayOf(begin) + 1
    BY <1>1, WindowDays
  <2>3. QED
    BY <1>2, <2>1, <2>2
<1>4. /\ TimeOf(now) \in Int /\ 0 <= TimeOf(now) /\ TimeOf(now) <= EndOfDay
      /\ TimeOf(end) \in Int /\ TimeOf(end) >= 0
  BY <1>2, DayTime DEF TimesOfDay, EndOfDay
<1>5. EndOfDay = DayLength - 1 /\ DayLength \in Nat /\ DayLength > 1 /\ EndOfDay \in Int
  BY Lengths DEF EndOfDay
<1>6. DayLength < end - begin <=> ~(end - begin <= DayLength)
  BY <1>2, <1>5
<1>7. ~(now + 1 = end /\ TimeOf(end) = 0)
  OBVIOUS
<1>8. SUFFICES Runs(x, now) \/ (DayOf(begin) # DayOf(end) /\ Runs(x, now - 1) /\ Runs(x, now + 1))
  BY <1>1
<1> HIDE DEF begin, end
<1>9. CASE DayOf(begin) = DayOf(end)
  BY <1>2, <1>9 DEF Runs, begin, end
<1>10. CASE DayOf(begin) # DayOf(end) /\ DayOf(now) = DayOf(end)
  BY <1>2, <1>10 DEF Runs, begin, end
<1>11. CASE DayOf(begin) < DayOf(now) /\ DayOf(now) < DayOf(end)
  <2>1. end - begin > DayLength /\ DayOf(now) = DayOf(end) - 1 /\ DayOf(begin) # DayOf(end)
    BY <1>2, <1>3, <1>5, <1>11
  <2>2. QED
    BY <2>1 DEF Runs, begin, end
<1>12. CASE DayOf(begin) = DayOf(now) /\ DayOf(now) < DayOf(end) /\ TimeOf(now) # EndOfDay
  <2>1. TimeOf(now) < EndOfDay /\ begin <= now /\ DayOf(begin) # DayOf(end)
    BY <1>2, <1>3, <1>4, <1>5, <1>12
  <2>2. QED
    BY <1>12, <2>1 DEF Runs, begin, end
<1>13. CASE DayOf(begin) = DayOf(now) /\ DayOf(now) < DayOf(end) /\ TimeOf(now) = EndOfDay
  <2>1. /\ DayOf(now + 1) = DayOf(now) + 1 /\ TimeOf(now + 1) = 0
        /\ DayOf(now - 1) = DayOf(now) /\ TimeOf(now - 1) = EndOfDay - 1
    BY <1>2, <1>4, <1>5, <1>13, NextMinutes
  <2>2. DayOf(begin) # DayOf(end) /\ begin <= now - 1 /\ EndOfDay - 1 < EndOfDay
    BY <1>2, <1>3, <1>5, <1>13
  <2>3. Runs(x, now - 1)
    BY <1>13, <2>1, <2>2 DEF Runs, begin, end
  <2>4. Runs(x, now + 1)
    <3>1. CASE DayOf(now + 1) = DayOf(end)
      <4>1. now + 1 < end
        BY <1>2, <1>7, <2>1, <3>1
      <4>2. QED
        BY <2>2, <3>1, <4>1 DEF Runs, begin, end
    <3>2. CASE DayOf(now + 1) # DayOf(end)
      <4>1. DayOf(now + 1) = DayOf(end) - 1 /\ end - begin > DayLength
        BY <1>2, <1>3, <1>5, <1>13, <2>1, <3>2
      <4>2. QED
        BY <2>2, <4>1 DEF Runs, begin, end
    <3>3. QED
      BY <3>1, <3>2
  <2>5. QED
    BY <2>2, <2>3, <2>4
<1>14. QED
  BY <1>2, <1>3, <1>9, <1>10, <1>11, <1>12, <1>13

-----------------------------------------------------------------------------
(* Types *)

LEMMA LeastNatural ==
    ASSUME NEW T \in SUBSET Nat, T # {}
    PROVE  \E m \in T : \A k \in T : m <= k
<1>1. PICK m \in T : \A k \in T : <<k, m>> \notin OpToRel(<, Nat)
  BY NatLessThanWellFounded, WFMin, Zenon
<1>2. \A k \in T : ~(k < m)
  BY <1>1 DEF OpToRel
<1>3. QED
  BY <1>2

ExecutionAt(w, b) == [begin |-> b, length |-> plan[w].length]

\* An execution that is planned is one of the calendar's.
LEMMA PlannedAt ==
    ASSUME plan \in [Windows -> Plans \union {NoPlan}], NEW w \in Windows,
           plan[w] # NoPlan, NEW b \in plan[w].begins
    PROVE  /\ b \in Nat /\ Ours(ExecutionAt(w, b)) /\ plan[w].length \in 1..DayLength
           /\ b + plan[w].length \in Minutes
<1> DEFINE minutes == Len(Calendar) * DayLength
<1>1. Len(Calendar) \in Nat /\ minutes \in Nat /\ Minutes = 0..minutes - 1
  BY Lengths, CalendarAssumption DEF Minutes
<1>2. Horizon \in Nat /\ Horizon + 2 * DayLength < minutes
  BY WindowsAssumption
<1>3. plan[w] \in Plan /\ plan[w].begins \subseteq 2 * DayLength..Horizon
  BY WindowsAssumption
<1> HIDE DEF minutes
<1>4. b \in Minutes /\ b \in 2 * DayLength..Horizon /\ plan[w].length \in 1..DayLength
  BY <1>3 DEF Plan
<1>5. b \in Nat /\ b + plan[w].length \in Minutes
  BY <1>1, <1>2, <1>4, Lengths
<1>6. QED
  BY <1>4, <1>5 DEF Ours, Execution, ExecutionAt

\* What Systems Manager lists is no execution, or the next of those that are planned.
LEMMA ListedNext ==
    ASSUME plan \in [Windows -> Plans \union {NoPlan}], now \in Start..Horizon,
           NEW w \in Windows, Listed(w) # None
    PROVE  /\ plan[w] # NoPlan /\ Ours(Listed(w)) /\ now < Listed(w).begin
           /\ Listed(w).begin \in plan[w].begins /\ Listed(w) = ExecutionAt(w, Listed(w).begin)
           /\ \A b \in plan[w].begins : now < b => Listed(w).begin <= b
<1> DEFINE next == {b \in plan[w].begins : b > now}
<1>1. plan[w] # NoPlan /\ ~(\A b \in plan[w].begins : b <= now)
  BY DEF Listed
<1>2. plan[w].begins \in SUBSET Nat /\ now \in Int
  BY <1>1, PlannedAt, WindowsAssumption
<1>3. next \in SUBSET Nat /\ next # {}
  BY <1>1, <1>2
<1>4. Min(next) \in next /\ \A b \in next : Min(next) <= b
  BY <1>3, LeastNatural DEF Min
<1>5. Listed(w) = ExecutionAt(w, Min(next)) /\ Listed(w).begin = Min(next)
  BY <1>1 DEF Listed, ExecutionAt
<1> HIDE DEF next
<1>6. Min(next) \in plan[w].begins /\ now < Min(next)
  BY <1>2, <1>4 DEF next
<1>7. \A b \in plan[w].begins : now < b => Min(next) <= b
  BY <1>2, <1>4 DEF next
<1>8. QED
  BY <1>1, <1>5, <1>6, <1>7, PlannedAt

\* A window that is planned later than now is listed.
LEMMA SomeListed ==
    ASSUME plan \in [Windows -> Plans \union {NoPlan}], now \in Start..Horizon,
           NEW w \in Windows, plan[w] # NoPlan, NEW b \in plan[w].begins, now < b
    PROVE  Listed(w) # None
<1>1. b \in Nat /\ now \in Int
  BY PlannedAt, WindowsAssumption
<1>2. ~(\A c \in plan[w].begins : c <= now)
  BY <1>1
<1> DEFINE next == Min({c \in plan[w].begins : c > now})
<1>3. Listed(w) = ExecutionAt(w, next)
  BY <1>2 DEF Listed, ExecutionAt
<1>4. next \in plan[w].begins
  <2> DEFINE later == {c \in plan[w].begins : c > now}
  <2>1. \A c \in plan[w].begins : c \in Nat
    BY PlannedAt
  <2>2. later \in SUBSET Nat /\ later # {}
    BY <1>1, <2>1
  <2>3. Min(later) \in later
    BY <2>2, LeastNatural DEF Min
  <2>4. QED
    BY <2>3
<1> HIDE DEF next
<1>5. Ours(Listed(w))
  BY <1>3, <1>4, PlannedAt
<1>6. QED
  BY <1>5, WindowsAssumption DEF Ours

\* What a schedule asks for.
LEMMA DesiredType ==
    ASSUME definition \in Definitions
    PROVE  DesiredState(schedule, now).state \in ScheduleStates
<1>1. schedule.override \in {"none", "running", "stopped"}
  BY WindowsAssumption DEF schedule
<1>2. \A m : StateAt(schedule, m).state \in ScheduleStates
  BY <1>1 DEF StateAt, Answer, ScheduleStates
<1>3. QED
  BY <1>2 DEF DesiredState

LEMMA RequestType ==
    ASSUME definition \in Definitions, NEW known
    PROVE  Request(known) \in [window: BOOLEAN, state: ScheduleStates]
<1>1. InWindow(known) \in BOOLEAN
  BY DEF InWindow
<1>2. (IF InWindow(known) THEN "running" ELSE DesiredState(schedule, now).state) \in ScheduleStates
  BY DesiredType DEF ScheduleStates
<1>3. QED
  BY <1>1, <1>2 DEF Request

LEMMA VerdictType ==
    ASSUME NEW request
    PROVE  /\ VerdictOn(request).action \in {"start", "stop", "nothing"}
           /\ VerdictOn(request).stored \in InstanceStates
           /\ FailureState(VerdictOn(request)) \in InstanceStates
<1>1. /\ VerdictOn(request).action \in {"start", "stop", "nothing"}
      /\ VerdictOn(request).stored \in InstanceStates
  BY DEF VerdictOn, Decide, DecideRunning, DecideStopped, Verdict, InstanceStates
<1>2. QED
  BY <1>1 DEF FailureState, InstanceStates

LEMMA TypeInit == Init => TypeOK
<1> SUFFICES ASSUME Init PROVE TypeOK
  OBVIOUS
<1>1. plan \in [Windows -> Plans \union {NoPlan}]
  BY WindowsAssumption DEF Init
<1>2. /\ Start \in Start..Horizon /\ Start \in 0..Horizon /\ 0 \in 0..Horizon
      /\ 0 \in 0..MaxEdits /\ 0 \in 0..MaxTouches /\ 0 \in 0..MaxFaults
  BY WindowsAssumption
<1>3. NotAsked \in [window: BOOLEAN, state: ScheduleStates]
  BY DEF NotAsked, ScheduleStates
<1>4. QED
  BY <1>1, <1>2, <1>3 DEF Init, TypeOK, Statuses, InstanceStates

LEMMA FaultType ==
    ASSUME NEW happens, faults \in 0..MaxFaults, Fault(happens)
    PROVE  faults' \in 0..MaxFaults
  BY WindowsAssumption DEF Fault

LEMMA ListedType ==
    ASSUME TypeOK, NEW w \in Windows
    PROVE  Listed(w) \in Execution \union {None}
  BY ListedNext DEF TypeOK, Ours

LEMMA ReconciledType ==
    ASSUME TypeOK, NEW done
    PROVE  Reconciled(done) \in [Windows -> Execution \union {None}]
  BY ListedType DEF Reconciled, TypeOK

LEMMA ToldType == TypeOK => Told \in [Windows -> SUBSET Execution]
<1> SUFFICES ASSUME TypeOK, NEW w \in Windows PROVE Told[w] \subseteq Execution
  BY DEF Told
<1>1. planned[w] \subseteq Execution /\ Listed(w) \in Execution \union {None}
  BY ListedType DEF TypeOK
<1>2. QED
  BY <1>1 DEF Told

LEMMA ActType ==
    ASSUME TypeOK, NEW known, NEW call \in {"ok", "fails", "dies"}, Act(Request(known), call)
    PROVE  /\ status' \in Statuses /\ stored' \in InstanceStates
           /\ asked' \in [window: BOOLEAN, state: ScheduleStates] /\ at' \in 0..Horizon
           /\ {synced', touched'} \subseteq BOOLEAN
<1> DEFINE request == Request(known)
<1>1. request \in [window: BOOLEAN, state: ScheduleStates]
  BY RequestType DEF TypeOK
<1>2. now \in 0..Horizon
  BY WindowsAssumption DEF TypeOK
<1> HIDE DEF request
<1>3. Called(VerdictOn(request).action) \in Statuses
  BY VerdictType, WindowsAssumption DEF TypeOK, Called, Statuses
<1>4. status \in Statuses /\ stored \in InstanceStates
  BY DEF TypeOK
<1>5. Act(request, call)
  BY DEF request
<1>6. /\ status' \in {Called(VerdictOn(request).action), status}
      /\ stored' \in {VerdictOn(request).stored, FailureState(VerdictOn(request)), stored}
  BY <1>5 DEF Act
<1>7. synced' \in BOOLEAN /\ touched' \in BOOLEAN /\ asked' = request /\ at' = now
  BY <1>5 DEF Act
<1>8. QED
  BY <1>1, <1>2, <1>3, <1>4, <1>6, <1>7, VerdictType

LEMMA TypeStep == TypeOK /\ [Next]_vars => TypeOK'
<1> SUFFICES ASSUME TypeOK, [Next]_vars PROVE TypeOK'
  OBVIOUS
<1>1. CASE Cycle
  <2>1. PICK done \in SUBSET Accepted, call \in {"ok", "fails", "dies"} :
            /\ Fault(done # Accepted \/ call # "ok")
            /\ table' = Reconciled(done)
            /\ changed' = [w \in Windows |->
                              IF w \in Accepted \ done \/ call # "ok" THEN now ELSE changed[w]]
            /\ IF Schedulable THEN Act(Request(Reconciled(done)), call) ELSE Skip /\ call = "ok"
    BY <1>1 DEF Cycle
  <2>2. table' \in [Windows -> Execution \union {None}]
    BY <2>1, ReconciledType
  <2>3. changed' \in [Windows -> 0..Horizon]
    BY <2>1, WindowsAssumption DEF TypeOK
  <2>4. faults' \in 0..MaxFaults
    BY <2>1, FaultType DEF TypeOK
  <2>5. /\ status' \in Statuses /\ stored' \in InstanceStates
        /\ asked' \in [window: BOOLEAN, state: ScheduleStates] /\ at' \in 0..Horizon
        /\ {synced', touched'} \subseteq BOOLEAN
    <3>1. CASE Schedulable
      BY <2>1, <3>1, ActType
    <3>2. CASE ~Schedulable
      BY <2>1, <3>2 DEF Skip, instanceVars, TypeOK
    <3>3. QED
      BY <3>1, <3>2
  <2>6. planned' \in [Windows -> SUBSET Execution]
    BY <1>1, ToldType DEF Cycle
  <2>7. QED
    BY <1>1, <2>2, <2>3, <2>4, <2>5, <2>6 DEF Cycle, given, TypeOK
<1>2. CASE LostCycle
  <2>1. PICK done \in SUBSET Accepted : table' = Reconciled(done)
    BY <1>2 DEF LostCycle
  <2>2. table' \in [Windows -> Execution \union {None}]
    BY <2>1, ReconciledType
  <2>3. changed' \in [Windows -> 0..Horizon]
    BY <1>2, WindowsAssumption DEF LostCycle, TypeOK
  <2>4. faults' \in 0..MaxFaults
    BY <1>2, FaultType DEF LostCycle, TypeOK
  <2>5. planned' \in [Windows -> SUBSET Execution]
    BY <1>2, ToldType DEF LostCycle
  <2>6. QED
    BY <1>2, <2>2, <2>3, <2>4, <2>5 DEF LostCycle, given, instanceVars, TypeOK
<1>3. CASE Tick
  <2>1. now' \in Start..Horizon /\ due' \in BOOLEAN
    BY <1>3, WindowsAssumption DEF Tick, TypeOK
  <2>2. changed' \in [Windows -> 0..Horizon]
    BY <1>3, WindowsAssumption DEF Tick, TypeOK
  <2>3. \A x \in Begun(now + 1) : x.window \in Windows /\ x.end \in Minutes
    BY PlannedAt DEF TypeOK, Begun
  <2>4. \A x \in open' : x.window \in Windows /\ x.end \in Minutes
    BY <1>3, <2>3 DEF Tick, TypeOK
  <2>5. QED
    BY <1>3, <2>1, <2>2, <2>4 DEF Tick, given, instanceVars, bounds, TypeOK
<1>4. CASE Replan
  <2>1. edits' \in 0..MaxEdits
    BY <1>4, WindowsAssumption DEF Replan, TypeOK
  <2>2. /\ plan' \in [Windows -> Plans \union {NoPlan}]
        /\ changed' \in [Windows -> 0..Horizon]
    BY <1>4, WindowsAssumption DEF Replan, TypeOK
  <2>3. QED
    BY <1>4, <2>1, <2>2 DEF Replan, given, clockVars, instanceVars, TypeOK
<1>5. CASE Touch
  <2>1. touches' \in 0..MaxTouches
    BY <1>5, WindowsAssumption DEF Touch, TypeOK
  <2>2. status' \in Statuses
    BY <1>5 DEF Touch, Called, Statuses
  <2>3. QED
    BY <1>5, <2>1, <2>2 DEF Touch, given, clockVars, windowVars, TypeOK
<1>6. CASE Occupy
  <2>1. faults' \in 0..MaxFaults
    BY <1>6, FaultType DEF Occupy, TypeOK
  <2>2. QED
    BY <1>6, <2>1 DEF Occupy, given, clockVars, windowVars, TypeOK, Statuses
<1>7. CASE Settle
  BY <1>7 DEF Settle, given, clockVars, windowVars, bounds, TypeOK, Statuses
<1>8. CASE Done \/ UNCHANGED vars
  BY <1>8 DEF Done, vars, given, clockVars, windowVars, instanceVars, bounds, TypeOK
<1>9. QED
  BY <1>1, <1>2, <1>3, <1>4, <1>5, <1>6, <1>7, <1>8 DEF Next

\* Every cycle, edit and act leaves values of their types: for any windows and calendar,
\* what Systems Manager lists is an execution of the calendar or none
\* (describe_maintenance_windows), and what the table stores is one too.
THEOREM TypesSafe == Spec => []TypeOK
  BY TypeInit, TypeStep, PTL DEF Spec

-----------------------------------------------------------------------------
(* The windows of Systems Manager *)

\* An EC2 instance is up or down; an RDS instance has no windows of Systems Manager.
KindInv ==
    /\ kind = "ec2" => status \in {"available", "stopped"}
    /\ kind = "rds" => /\ \A w \in Windows : plan[w] = NoPlan /\ table[w] = None
                       /\ open = {}

\* What the table holds Systems Manager has told of, unless it is over.
Known(w) ==
    /\ \A x \in planned[w] : Ours(x)
    /\ table[w] # None => /\ Ours(table[w])
                          /\ table[w] \in planned[w] \/ Over(table[w]) <= now

TableKnown == \A w \in Windows : Known(w)

KnownInv == TypeOK /\ KindInv /\ TableKnown

LEMMA KnownInit == Init => KnownInv
<1> SUFFICES ASSUME Init PROVE KindInv /\ TableKnown
  BY TypeInit DEF KnownInv
<1>1. TableKnown
  BY DEF Init, TableKnown, Known
<1>2. KindInv
  BY DEF Init, KindInv
<1>3. QED
  BY <1>1, <1>2

\* Told are the execution that is listed and every one that is not over.
LEMMA ToldKeeps ==
    ASSUME KnownInv, NEW w \in Windows
    PROVE  /\ Listed(w) # None => Listed(w) \in Told[w]
           /\ \A x \in planned[w] : Over(x) > now - interval \/ Over(x) > at => x \in Told[w]
           /\ \A x \in Told[w] : Ours(x)
<1>1. \A x : Ours(x) => /\ x.begin \in Int /\ Over(x) = x.begin + x.length
                        /\ x.length \in Int /\ x.length > 0
  BY WindowSpan DEF KnownInv, TypeOK, Over
<1>2. now \in Int /\ interval \in Nat
  BY WindowsAssumption DEF KnownInv, TypeOK
<1>3. Listed(w) # None => Ours(Listed(w)) /\ Over(Listed(w)) > now - interval
  <2>1. Listed(w) # None => Ours(Listed(w)) /\ now < Listed(w).begin
    BY ListedNext DEF KnownInv, TypeOK
  <2>2. QED
    BY <1>1, <1>2, <2>1
<1>4. \A x \in planned[w] : Ours(x)
  BY DEF KnownInv, TableKnown, Known
<1>5. Told[w] = {x \in planned[w] \union ({Listed(w)} \ {None}) :
                    Over(x) > now - interval \/ Over(x) > at}
  BY DEF Told
<1>6. QED
  BY <1>3, <1>4, <1>5

\* What a cycle makes of the table is known.
LEMMA ReconciledKnown ==
    ASSUME KnownInv, NEW done, NEW w \in Windows, Reconciled(done)[w] # None
    PROVE  LET x == Reconciled(done)[w]
           IN  Ours(x) /\ (x \in Told[w] \/ Over(x) <= now)
<1>1. now \in Int /\ interval \in Nat /\ interval > 0
  BY WindowsAssumption DEF KnownInv, TypeOK
<1>2. CASE Reconciled(done)[w] = Listed(w)
  BY <1>2, ToldKeeps
<1>3. CASE Reconciled(done)[w] = table[w]
  <2>1. Ours(table[w]) /\ (table[w] \in planned[w] \/ Over(table[w]) <= now)
    BY <1>3 DEF KnownInv, TableKnown, Known
  <2>2. Over(table[w]) \in Int
    BY <2>1, WindowSpan, DayInCalendar DEF KnownInv, TypeOK
  <2>3. Over(table[w]) <= now \/ Over(table[w]) > now - interval
    BY <1>1, <2>2
  <2>4. QED
    BY <1>3, <2>1, <2>3, ToldKeeps
<1>4. QED
  BY <1>2, <1>3 DEF Reconciled

LEMMA TableStep == KnownInv /\ [Next]_vars => TableKnown'
<1> SUFFICES ASSUME KnownInv, [Next]_vars, NEW w \in Windows
             PROVE  Known(w)'
  BY DEF TableKnown
<1>1. /\ \A x \in planned[w] : Ours(x)
      /\ table[w] # None => /\ Ours(table[w])
                            /\ table[w] \in planned[w] \/ Over(table[w]) <= now
  BY DEF KnownInv, TableKnown, Known
<1>2. CASE Cycle \/ LostCycle
  <2>1. PICK done : table' = Reconciled(done)
    BY <1>2 DEF Cycle, LostCycle
  <2>2. planned' = Told /\ now' = now
    BY <1>2 DEF Cycle, LostCycle
  <2>3. \A x \in Told[w] : Ours(x)
    BY ToldKeeps
  <2>4. table'[w] # None => /\ Ours(table'[w])
                            /\ table'[w] \in Told[w] \/ Over(table'[w]) <= now
    BY <2>1, ReconciledKnown
  <2>5. QED
    BY <2>2, <2>3, <2>4 DEF Known, Ours, Over
<1>3. CASE Tick
  <2>1. table' = table /\ planned' = planned /\ now' = now + 1 /\ now \in Int
    BY <1>3, WindowsAssumption DEF Tick, KnownInv, TypeOK
  <2>2. table[w] # None => Over(table[w]) \in Int
    BY <1>1, WindowSpan, DayInCalendar DEF KnownInv, TypeOK
  <2>3. QED
    BY <1>1, <2>1, <2>2 DEF Known, Ours, Over
<1>4. CASE Replan \/ Touch \/ Occupy \/ Settle \/ Done \/ UNCHANGED vars
  <2>1. table' = table /\ planned' = planned /\ now' = now
    BY <1>4 DEF Replan, Touch, Occupy, Settle, Done, vars, clockVars, windowVars
  <2>2. QED
    BY <1>1, <2>1 DEF Known, Ours, Over
<1>5. QED
  BY <1>2, <1>3, <1>4 DEF Next

LEMMA KindStep == KnownInv /\ [Next]_vars => KindInv'
<1> SUFFICES ASSUME KnownInv, [Next]_vars PROVE KindInv'
  OBVIOUS
<1>0. kind \in {"ec2", "rds"} /\ kind' = kind
  <2>1. UNCHANGED given
    BY DEF Next, vars, Cycle, LostCycle, Tick, Replan, Touch, Occupy, Settle, Done
  <2>2. QED
    BY <2>1, WindowsAssumption DEF given, KnownInv, TypeOK
<1>1. CASE kind = "ec2"
  <2>1. status \in {"available", "stopped"}
    BY <1>1 DEF KnownInv, KindInv
  <2>2. \A action \in {"start", "stop"} : Called(action) \in {"available", "stopped"}
    BY <1>1 DEF Called
  <2>3. CASE Cycle
    <3>1. PICK request, call : Act(request, call) \/ Skip
      BY <2>3 DEF Cycle
    <3>2. CASE Act(request, call)
      <4>1. status' \in {"available", "stopped"}
        BY <2>1, <2>2, <3>2 DEF Act, Needed
      <4>2. QED
        BY <1>0, <1>1, <4>1 DEF KindInv
    <3>3. QED
      BY <1>0, <1>1, <2>1, <3>1, <3>2 DEF Skip, instanceVars, KindInv
  <2>4. CASE Touch
    <3>1. status' \in {"available", "stopped"}
      BY <2>2, <2>4 DEF Touch
    <3>2. QED
      BY <1>0, <1>1, <3>1 DEF KindInv
  <2>5. CASE Occupy \/ Settle
    BY <1>1, <2>1, <2>5 DEF Occupy, Settle, Schedulable
  <2>6. CASE LostCycle \/ Tick \/ Replan \/ Done \/ UNCHANGED vars
    <3>1. status' = status
      BY <2>6 DEF LostCycle, Tick, Replan, Done, vars, instanceVars
    <3>2. QED
      BY <1>0, <1>1, <2>1, <3>1 DEF KindInv
  <2>7. QED
    BY <2>3, <2>4, <2>5, <2>6 DEF Next
<1>2. CASE kind = "rds"
  <2>1. open = {} /\ \A w \in Windows : plan[w] = NoPlan /\ table[w] = None
    BY <1>2 DEF KnownInv, KindInv
  <2>2. plan' = plan
    BY <1>2 DEF Next, vars, Cycle, LostCycle, Tick, Replan, Touch, Occupy, Settle, Done
  <2>3. \A w \in Windows : table'[w] = None
    <3>1. CASE Cycle \/ LostCycle
      <4>1. PICK done : table' = Reconciled(done)
        BY <3>1 DEF Cycle, LostCycle
      <4>2. \A w \in Windows : Listed(w) = None
        BY <2>1 DEF Listed
      <4>3. QED
        BY <2>1, <4>1, <4>2 DEF Reconciled
    <3>2. CASE ~(Cycle \/ LostCycle)
      <4>1. table' = table
        BY <3>2 DEF Next, vars, windowVars, Tick, Replan, Touch, Occupy, Settle, Done
      <4>2. QED
        BY <2>1, <4>1
    <3>3. QED
      BY <3>1, <3>2
  <2>4. open' = {}
    <3>1. CASE Tick
      <4>1. Begun(now + 1) = {}
        BY <2>1 DEF Begun
      <4>2. QED
        BY <2>1, <3>1, <4>1 DEF Tick
    <3>2. CASE ~Tick
      BY <2>1, <3>2 DEF Next, vars, clockVars, Cycle, LostCycle, Replan, Touch, Occupy, Settle, Done
    <3>3. QED
      BY <3>1, <3>2
  <2>5. QED
    BY <1>0, <1>2, <2>1, <2>2, <2>3, <2>4 DEF KindInv
<1>3. QED
  BY <1>0, <1>1, <1>2

LEMMA KnownStep == KnownInv /\ [Next]_vars => KnownInv'
  BY TypeStep, KindStep, TableStep DEF KnownInv

\* A cycle asks for a window only if one that it knows is under way.
AskedInv == UpOnlyForWindow /\ at <= now

LEMMA AskedStep == KnownInv /\ AskedInv /\ [Next]_vars => AskedInv'
<1> SUFFICES ASSUME KnownInv, AskedInv, [Next]_vars PROVE AskedInv'
  OBVIOUS
<1>1. kind' = kind /\ interval' = interval /\ interval \in Intervals
  <2>1. UNCHANGED given
    BY DEF Next, vars, Cycle, LostCycle, Tick, Replan, Touch, Occupy, Settle, Done
  <2>2. QED
    BY <2>1 DEF given, KnownInv, TypeOK
<1>2. now \in Int /\ at \in Int /\ at <= now /\ now \in Start..Horizon
  BY WindowsAssumption DEF AskedInv, KnownInv, TypeOK
<1>3. \A x : Over(x)' = Over(x) /\ OpenedAt(x)' = OpenedAt(x)
  BY <1>1 DEF Over, OpenedAt, Margin
<1>4. CASE Cycle /\ Schedulable
  <2>1. PICK done, call : Act(Request(Reconciled(done)), call)
    BY <1>4 DEF Cycle
  <2>2. asked' = Request(Reconciled(done)) /\ at' = now /\ now' = now /\ planned' = Told
    BY <1>4, <2>1 DEF Act, Cycle
  <2>3. ASSUME kind = "ec2", InWindow(Reconciled(done))
        PROVE  \E w \in Windows : \E x \in Told[w] : OpenedAt(x) <= now /\ now < Over(x)
    <3>1. PICK w \in Windows : IsRunning(Reconciled(done)[w])
      BY <2>3 DEF InWindow
    <3> DEFINE x == Reconciled(done)[w]
    <3>2. x # None /\ IsOpen(ToSchedule(x))
      BY <3>1 DEF IsRunning
    <3>3. Ours(x) /\ (x \in Told[w] \/ Over(x) <= now)
      BY <3>2, ReconciledKnown
    <3>4. OpenedAt(x) <= now /\ now < Over(x)
      BY <1>1, <1>2, <3>2, <3>3, OpenWithin
    <3>5. Over(x) \in Int
      BY <1>1, <3>3, WindowSpan, DayInCalendar
    <3> HIDE DEF x
    <3>6. x \in Told[w]
      BY <1>2, <3>3, <3>4, <3>5
    <3>7. QED
      BY <3>4, <3>6
  <2>4. asked'.window <=> InWindow(Reconciled(done))
    BY <2>2 DEF Request
  <2>5. QED
    BY <1>1, <1>2, <1>3, <2>2, <2>3, <2>4 DEF AskedInv, UpOnlyForWindow
<1>5. CASE LostCycle \/ (Cycle /\ ~Schedulable)
  <2>1. asked' = asked /\ at' = at /\ now' = now /\ planned' = Told
    BY <1>5 DEF LostCycle, Cycle, Skip, instanceVars
  <2>2. ASSUME kind = "ec2", asked.window
        PROVE  \E w \in Windows : \E x \in Told[w] : OpenedAt(x) <= at /\ at < Over(x)
    <3>1. PICK w \in Windows : \E x \in planned[w] : OpenedAt(x) <= at /\ at < Over(x)
      BY <2>2 DEF AskedInv, UpOnlyForWindow
    <3>2. PICK x \in planned[w] : OpenedAt(x) <= at /\ at < Over(x)
      BY <3>1
    <3>3. Over(x) \in Int
      BY <1>1, WindowSpan, DayInCalendar DEF KnownInv, TableKnown, Known
    <3>4. x \in Told[w]
      BY <1>2, <3>2, <3>3, ToldKeeps
    <3>5. QED
      BY <3>2, <3>4
  <2>3. QED
    BY <1>1, <1>2, <1>3, <2>1, <2>2 DEF AskedInv, UpOnlyForWindow
<1>6. CASE Tick \/ Replan \/ Touch \/ Occupy \/ Settle \/ Done \/ UNCHANGED vars
  <2>1. asked' = asked /\ at' = at /\ now' \in {now, now + 1} /\ planned' = planned
    BY <1>6 DEF Tick, Replan, Touch, Occupy, Settle, Done, vars, clockVars, windowVars, instanceVars
  <2>2. at' <= now'
    BY <1>2, <2>1
  <2>3. QED
    BY <1>1, <1>3, <2>1, <2>2 DEF AskedInv, UpOnlyForWindow
<1>7. QED
  BY <1>4, <1>5, <1>6 DEF Next

\* make_scheduling_decision is told of an open window only for an execution that Systems
\* Manager told of, no earlier than to_schedule's margin before it, or the midnight
\* before for one beyond a day, and no later than its end.
THEOREM OnlyForWindowSafe == Spec => []UpOnlyForWindow
<1>1. Init => KnownInv /\ AskedInv
  <2>1. Init => AskedInv
    BY WindowsAssumption DEF Init, AskedInv, UpOnlyForWindow, NotAsked
  <2>2. QED
    BY <2>1, KnownInit
<1>2. KnownInv /\ AskedInv /\ [Next]_vars => (KnownInv /\ AskedInv)'
  BY KnownStep, AskedStep
<1>3. KnownInv /\ AskedInv => UpOnlyForWindow
  BY DEF AskedInv
<1>4. QED
  BY <1>1, <1>2, <1>3, PTL DEF Spec

\* Between a minute and the next at which no cycle lies, less than an interval passes.
LEMMA CycleComes ==
    ASSUME NEW i \in Nat \ {0}, NEW n \in Nat, NEW b \in Nat,
           \A m \in n + 1..b - 1 : m % i # 0
    PROVE  b - i <= n
<1> DEFINE q == n \div i
           m == i * q + i
<1>1. q \in Nat /\ n % i \in 0..i - 1 /\ n = i * q + (n % i)
  OBVIOUS
<1>2. i * q \in Nat /\ m \in Nat /\ n < m /\ m <= n + i
  BY <1>1
<1>3. m % i = 0
  <2> DEFINE d == m \div i
  <2>1. d \in Nat /\ m % i \in 0..i - 1 /\ m = i * d + (m % i)
    BY <1>2
  <2> HIDE DEF d
  <2>2. i * d = i * (q + 1) => m % i = 0
    BY <1>1, <2>1
  <2>3. d <= q => i * d <= i * q
    BY <1>1, <2>1
  <2>4. d >= q + 2 => i * d >= i * (q + 2) /\ i * (q + 2) = i * q + 2 * i
    BY <1>1, <2>1
  <2>5. d = q + 1
    <3> HIDE DEF q
    <3>1. i * d \in Int /\ i * q \in Int
      BY <1>1, <2>1
    <3>2. QED
      BY <1>1, <2>1, <2>3, <2>4, <3>1
  <2>6. QED
    BY <2>2, <2>5
<1> HIDE DEF m, q
<1>4. QED
  BY <1>2, <1>3

\* A user aside, an instance that uses its windows is up.
MeantUp == definition.use # "no" /\ ~touched => status = "available"

\* Of the window no other execution is known that is under way in the interval before b.
Alone(w, b) ==
    \A x \in planned[w] : x = ExecutionAt(w, b) \/ Over(x) <= b - interval \/ OpenedAt(x) >= b

\* After the last cycle before b, which dealt with the instance and was told of no
\* other execution, the table holds the one that begins at b, and has it open.
Ready(w, b) ==
    /\ now < b /\ \A m \in now + 1..b - 1 : m % interval # 0
    /\ changed[w] < b - interval /\ Alone(w, b)
    => table[w] = ExecutionAt(w, b) /\ MeantUp

ReadyInv ==
    ~due => \A w \in Windows : plan[w] # NoPlan => \A b \in plan[w].begins : Ready(w, b)

\* While an execution that could be known is under way, the table keeps it.
Kept(x) ==
    /\ now < x.end
    /\ \/ LastMinute(x)
       \/ /\ table[x.window] # None /\ Over(table[x.window]) = x.end
          /\ table[x.window].begin <= now
          /\ MeantUp

OpenInv == \A x \in open : Kept(x)

WindowInv == KnownInv /\ ReadyInv /\ OpenInv

\* A cycle that finds an EC2 instance in a window leaves it up, or a call failed in it.
LEMMA CycleUp ==
    ASSUME KnownInv, kind = "ec2", NEW done, NEW call \in {"ok", "fails", "dies"},
           IF Schedulable THEN Act(Request(Reconciled(done)), call) ELSE Skip /\ call = "ok",
           NEW w \in Windows, IsRunning(Reconciled(done)[w]), UNCHANGED given
    PROVE  MeantUp'
<1>1. status \in {"available", "stopped"} /\ Schedulable
  BY DEF KnownInv, KindInv, Schedulable
<1> DEFINE request == Request(Reconciled(done))
<1>2. Act(request, call) /\ definition' = definition
  BY <1>1 DEF given
<1>3. definition.use # "no" => request.window
  BY DEF Request, InWindow
<1> HIDE DEF request
<1>4. touched' = (call # "ok")
  BY <1>2 DEF Act
<1>5. CASE call = "ok" /\ definition.use # "no"
  <2>1. VerdictOn(request).action = "start"
    BY <1>3, <1>5 DEF VerdictOn, Decide, Verdict
  <2>2. Called("start") = "available"
    BY DEF Called
  <2>3. status' = IF Needed(VerdictOn(request)) THEN "available" ELSE status
    BY <1>2, <1>5, <2>1, <2>2 DEF Act
  <2>4. status' = "available"
    BY <1>1, <2>1, <2>3 DEF Needed
  <2>5. QED
    BY <2>4 DEF MeantUp
<1>6. QED
  BY <1>2, <1>4, <1>5 DEF MeantUp

\* The last cycle before an execution that it knows of, and no other, stores it.
LEMMA CycleReadies ==
    ASSUME KnownInv, Cycle, NEW w \in Windows, plan[w] # NoPlan,
           NEW b \in plan[w].begins, now < b, b - interval <= now,
           changed'[w] < b - interval, Alone(w, b)'
    PROVE  table'[w] = ExecutionAt(w, b) /\ MeantUp'
<1> DEFINE x == ExecutionAt(w, b)
<1>1. PICK done \in SUBSET Accepted, call \in {"ok", "fails", "dies"} :
          /\ table' = Reconciled(done)
          /\ changed' = [v \in Windows |->
                            IF v \in Accepted \ done \/ call # "ok" THEN now ELSE changed[v]]
          /\ IF Schedulable THEN Act(Request(Reconciled(done)), call) ELSE Skip /\ call = "ok"
  BY DEF Cycle
<1>2. /\ now \in Int /\ now \in Start..Horizon /\ interval \in Intervals /\ interval \in Nat
      /\ interval > 0 /\ plan \in [Windows -> Plans \union {NoPlan}]
  BY WindowsAssumption DEF KnownInv, TypeOK
<1>3. /\ b \in Nat /\ Ours(x) /\ x.begin = b /\ plan[w].length \in 1..DayLength
      /\ Over(x) = b + plan[w].length
  BY <1>2, PlannedAt DEF ExecutionAt, Over
<1>4. /\ planned' = Told /\ plan' = plan /\ UNCHANGED given
      /\ \A y \in Told[w] : y = x \/ Over(y) <= b - interval \/ OpenedAt(y) >= b
  <2>1. planned' = Told /\ plan' = plan /\ UNCHANGED given
    BY DEF Cycle
  <2>2. QED
    BY <2>1 DEF Alone, ExecutionAt, Over, OpenedAt, Margin, given
<1>5. w \notin Accepted \ done /\ call = "ok"
  BY <1>1, <1>2, <1>3
<1> HIDE DEF x
\* Every execution that is told of, and is not over before it is opened, is this one.
<1>6. ASSUME NEW y \in Told[w], Over(y) > now, OpenedAt(y) < b PROVE y = x
  <2>1. Ours(y) /\ Over(y) \in Int
    BY ToldKeeps, WindowSpan, DayInCalendar DEF KnownInv, TypeOK
  <2>2. OpenedAt(y) \in Int
    <3>1. OpensAt(y) \in Int /\ OpensAt(y) - TimeOf(OpensAt(y)) \in Int
      BY <1>2, <2>1, WindowSpan, DayInCalendar, DayTime DEF DayStart
    <3>2. QED
      BY <3>1 DEF OpenedAt, OpensAt
  <2>3. QED
    BY <1>2, <1>3, <1>4, <1>6, <2>1, <2>2
<1>7. Listed(w) = x
  <2> DEFINE y == Listed(w)
  <2>1. /\ y # None /\ Ours(y) /\ now < y.begin /\ y.begin <= b /\ y \in Told[w]
    BY <1>2, <1>3, SomeListed, ListedNext, ToldKeeps
  <2>2. /\ y.begin \in Nat /\ y.length \in Nat /\ y.length > 0 /\ Over(y) = y.begin + y.length
        /\ OpensAt(y) \in Int /\ OpensAt(y) = y.begin - Margin /\ Margin \in Nat /\ Margin > 0
        /\ DayStart(OpensAt(y)) <= OpensAt(y) /\ DayStart(OpensAt(y)) \in Int
    <3>1. OpensAt(y) \in Int
      BY <1>2, <2>1, WindowSpan, DayInCalendar
    <3>2. QED
      BY <1>2, <2>1, <3>1, WindowSpan, DayTime, Lengths
  <2>3. OpenedAt(y) <= OpensAt(y)
    BY <2>2 DEF OpenedAt, OpensAt, DayStart
  <2>4. OpenedAt(y) \in {OpensAt(y), DayStart(OpensAt(y))}
    BY DEF OpenedAt, OpensAt, DayStart
  <2> HIDE DEF y
  <2>5. Over(y) > now /\ OpenedAt(y) < b
    BY <1>2, <1>3, <2>1, <2>2, <2>3, <2>4
  <2>6. QED
    BY <1>6, <2>1, <2>5 DEF y
<1>8. table'[w] = x
  <2>1. CASE w \in done \/ w \notin Deltas
    BY <1>1, <1>7, <2>1 DEF Reconciled, Deltas
  <2>2. CASE IsRunning(table[w]) /\ w \notin done
    <3>1. /\ table[w] # None /\ IsOpen(ToSchedule(table[w])) /\ Ours(table[w])
          /\ table[w] \in planned[w] \/ Over(table[w]) <= now
      BY <2>2 DEF IsRunning, KnownInv, TableKnown, Known
    <3>2. OpenedAt(table[w]) <= now /\ now < Over(table[w]) /\ Over(table[w]) \in Int
      BY <1>2, <3>1, OpenWithin, WindowSpan, DayInCalendar
    <3>3. table[w] \in Told[w]
      BY <1>2, <3>1, <3>2, ToldKeeps
    <3>4. OpenedAt(table[w]) < b
      <4>1. OpensAt(table[w]) \in Int /\ OpensAt(table[w]) - TimeOf(OpensAt(table[w])) \in Int
        BY <1>2, <3>1, WindowSpan, DayInCalendar, DayTime DEF DayStart
      <4>2. OpenedAt(table[w]) \in Int
        BY <4>1 DEF OpenedAt, OpensAt
      <4>3. QED
        BY <1>2, <1>3, <3>2, <4>2
    <3>5. table[w] = x
      BY <1>2, <1>6, <3>2, <3>3, <3>4
    <3>6. QED
      BY <1>1, <2>2, <3>5 DEF Reconciled
  <2>3. QED
    BY <1>5, <2>1, <2>2 DEF Accepted
<1>9. IsRunning(table'[w])
  <2>1. /\ OpensAt(x) \in Int /\ OpensAt(x) = b - (interval + Early) /\ Early \in Nat /\ Early > 0
    BY <1>2, <1>3, WindowSpan, DayInCalendar, Lengths
  <2>2. OpensAt(x) < now /\ now < Over(x) /\ now + 1 # Over(x)
    BY <1>2, <1>3, <2>1, Lengths
  <2>3. IsOpen(ToSchedule(x)) /\ x # None
    BY <1>2, <1>3, <2>2, OpenDuring, WindowsAssumption DEF Ours
  <2>4. QED
    BY <1>8, <2>3 DEF IsRunning
<1>10. kind = "ec2"
  BY WindowsAssumption DEF KnownInv, KindInv, TypeOK
<1>11. MeantUp'
  BY <1>1, <1>4, <1>9, <1>10, CycleUp
<1>12. QED
  BY <1>8, <1>11 DEF x

LEMMA ReadyStep == WindowInv /\ [Next]_vars => ReadyInv'
<1> SUFFICES ASSUME WindowInv, [Next]_vars, ~due',
                    NEW w \in Windows, plan'[w] # NoPlan, NEW b \in plan'[w].begins,
                    now' < b, \A m \in now' + 1..b - 1 : m % interval' # 0,
                    changed'[w] < b - interval', Alone(w, b)'
             PROVE  table'[w] = ExecutionAt(w, b)' /\ MeantUp'
  BY DEF ReadyInv, Ready
<1>1. KnownInv /\ KnownInv'
  BY KnownStep DEF WindowInv
<1>2. /\ now \in Nat /\ interval \in Nat \ {0} /\ interval' = interval /\ UNCHANGED given
      /\ now' \in Nat /\ plan \in [Windows -> Plans \union {NoPlan}]
  <2>1. UNCHANGED given
    BY DEF Next, vars, Cycle, LostCycle, Tick, Replan, Touch, Occupy, Settle, Done
  <2>2. /\ now \in Start..Horizon /\ now' \in Start..Horizon /\ interval \in Intervals
        /\ plan \in [Windows -> Plans \union {NoPlan}]
    BY <1>1 DEF KnownInv, TypeOK
  <2>3. Start \in Nat /\ Horizon \in Nat /\ Intervals \subseteq Nat \ {0}
    BY WindowsAssumption
  <2>4. QED
    BY <2>1, <2>2, <2>3 DEF given
<1>3. b \in Nat
  <2>1. plan'[w] \in Plans
    BY <1>1 DEF KnownInv, TypeOK
  <2>2. b \in 2 * DayLength..Horizon
    BY <2>1, WindowsAssumption
  <2>3. QED
    BY <2>2, Lengths
<1>4. b - interval <= now'
  BY <1>2, <1>3, CycleComes
\* Where neither the window's plan nor what is known of it changes.
<1>5. ASSUME ~due, plan'[w] = plan[w], planned' = planned, table' = table,
             now < b, \A m \in now + 1..b - 1 : m % interval # 0,
             changed[w] < b - interval, MeantUp => MeantUp'
      PROVE  table'[w] = ExecutionAt(w, b)' /\ MeantUp'
  <2>1. Alone(w, b)
    BY <1>2, <1>5 DEF Alone, ExecutionAt, Over, OpenedAt, Margin, given
  <2>2. Ready(w, b)
    BY <1>5 DEF WindowInv, ReadyInv
  <2>3. table[w] = ExecutionAt(w, b) /\ MeantUp
    BY <1>5, <2>1, <2>2 DEF Ready
  <2>4. QED
    BY <1>5, <2>3 DEF ExecutionAt
<1>6. CASE Cycle
  <2>1. plan' = plan /\ now' = now
    BY <1>6 DEF Cycle
  <2>2. table'[w] = ExecutionAt(w, b) /\ MeantUp'
    BY <1>1, <1>2, <1>4, <1>6, <2>1, CycleReadies
  <2>3. QED
    BY <2>1, <2>2 DEF ExecutionAt
<1>7. CASE LostCycle
  <2>1. changed'[w] = now /\ now' = now
    BY <1>7 DEF LostCycle
  <2>2. QED
    BY <1>2, <1>3, <1>4, <2>1
<1>8. CASE Tick
  <2>1. /\ ~due /\ now' = now + 1 /\ due' = ((now + 1) % interval = 0)
        /\ plan' = plan /\ table' = table /\ planned' = planned /\ UNCHANGED instanceVars
        /\ changed' = [v \in Windows |-> IF changed[v] < now + 1 - interval THEN 0 ELSE changed[v]]
    BY <1>8 DEF Tick
  <2>2. \A m \in now + 1..b - 1 : m % interval # 0
    <3> SUFFICES ASSUME NEW m \in now + 1..b - 1 PROVE m % interval # 0
      OBVIOUS
    <3>1. CASE m = now + 1
      BY <2>1, <3>1
    <3>2. CASE m # now + 1
      BY <1>2, <1>3, <2>1, <3>2
    <3>3. QED
      BY <3>1, <3>2
  <2>3. changed[w] < b - interval
    <3>1. changed[w] \in Int
      BY <1>1, WindowsAssumption DEF KnownInv, TypeOK
    <3>2. changed'[w] = IF changed[w] < now + 1 - interval THEN 0 ELSE changed[w]
      BY <2>1
    <3>3. QED
      BY <1>2, <1>3, <2>1, <3>1, <3>2
  <2>4. MeantUp => MeantUp'
    BY <1>2, <2>1 DEF MeantUp, instanceVars, given
  <2>5. QED
    BY <1>2, <1>3, <1>5, <2>1, <2>2, <2>3, <2>4
<1>9. CASE Replan
  <2>1. PICK v \in Windows, p \in Plans \union {NoPlan} :
            plan' = [plan EXCEPT ![v] = p] /\ changed' = [changed EXCEPT ![v] = now]
    BY <1>9 DEF Replan
  <2>2. /\ now' = now /\ due' = due /\ table' = table /\ planned' = planned
        /\ UNCHANGED instanceVars
    BY <1>9 DEF Replan, clockVars
  <2>3. CASE v = w
    <3>1. changed'[w] = now
      BY <1>1, <2>1, <2>3 DEF KnownInv, TypeOK
    <3>2. QED
      BY <1>2, <1>3, <1>4, <2>2, <3>1
  <2>4. CASE v # w
    <3>1. plan'[w] = plan[w] /\ changed'[w] = changed[w]
      BY <1>1, <2>1, <2>4 DEF KnownInv, TypeOK
    <3>2. MeantUp => MeantUp'
      BY <1>2, <2>2 DEF MeantUp, instanceVars, given
    <3>3. QED
      BY <1>2, <1>5, <2>2, <3>1, <3>2
  <2>5. QED
    BY <2>3, <2>4
<1>10. CASE Touch \/ Occupy \/ Settle \/ Done \/ UNCHANGED vars
  <2>1. /\ plan' = plan /\ now' = now /\ due' = due /\ table' = table /\ planned' = planned
        /\ changed' = changed
    BY <1>10 DEF Touch, Occupy, Settle, Done, vars, clockVars, windowVars
  <2>2. kind = "ec2"
    BY <1>1, <2>1, WindowsAssumption DEF KnownInv, KindInv, TypeOK
  <2>3. Touch \/ UNCHANGED <<definition, status, touched>>
    BY <1>1, <1>10, <2>2 DEF Occupy, Settle, Schedulable, Done, KnownInv, KindInv, vars, given, instanceVars
  <2>4. MeantUp => MeantUp'
    BY <2>3 DEF Touch, MeantUp
  <2>5. QED
    BY <1>2, <1>5, <2>1, <2>4
<1>11. QED
  BY <1>6, <1>7, <1>8, <1>9, <1>10 DEF Next

LEMMA OpenStep == WindowInv /\ [Next]_vars => OpenInv'
<1> SUFFICES ASSUME WindowInv, [Next]_vars, NEW x \in open' PROVE Kept(x)'
  BY DEF OpenInv
<1>1. KnownInv /\ KnownInv' /\ x.window \in Windows /\ x.end \in Int
  <2>1. KnownInv /\ KnownInv'
    BY KnownStep DEF WindowInv
  <2>2. x.window \in Windows /\ x.end \in Minutes
    BY <2>1 DEF KnownInv, TypeOK
  <2>3. QED
    BY <2>1, <2>2, DayInCalendar
<1>2. /\ now \in Int /\ now \in Start..Horizon /\ interval \in Intervals
      /\ interval \in Nat \ {0} /\ UNCHANGED given
      /\ plan \in [Windows -> Plans \union {NoPlan}]
  <2>1. UNCHANGED given
    BY DEF Next, vars, Cycle, LostCycle, Tick, Replan, Touch, Occupy, Settle, Done
  <2>2. QED
    BY <1>1, <2>1, WindowsAssumption DEF KnownInv, TypeOK
<1>3. x \in open => Kept(x)
  BY DEF WindowInv, OpenInv
\* Where the execution was under way, and the table does not change for it.
<1>4. ASSUME x \in open, now' = now, table'[x.window] = table[x.window],
             ~LastMinute(x) => (MeantUp => MeantUp')
      PROVE  Kept(x)'
  BY <1>2, <1>3, <1>4 DEF Kept, LastMinute, Over
<1>5. ASSUME x \in open, ~LastMinute(x)
      PROVE  IsRunning(table[x.window]) /\ kind = "ec2"
  <2> DEFINE t == table[x.window]
  <2>1. t # None /\ Over(t) = x.end /\ t.begin <= now /\ now < x.end
    BY <1>3, <1>5 DEF Kept
  <2>2. Ours(t)
    BY <1>1, <2>1 DEF KnownInv, TableKnown, Known
  <2>3. OpensAt(t) < now
    <3>1. /\ OpensAt(t) = t.begin - Margin /\ t.begin \in Nat /\ Margin \in Nat
          /\ Margin = interval + Early
      BY <1>2, <2>2, WindowSpan
    <3>2. QED
      BY <1>2, <2>1, <3>1, Lengths
  <2>4. ~(now + 1 = Over(t) /\ TimeOf(Over(t)) = 0)
    BY <1>5, <2>1 DEF LastMinute
  <2>5. IsOpen(ToSchedule(t))
    BY <1>2, <2>1, <2>2, <2>3, <2>4, OpenDuring
  <2>6. kind = "ec2"
    BY <1>1, <1>5, WindowsAssumption DEF KnownInv, KindInv, TypeOK
  <2>7. QED
    BY <2>1, <2>5, <2>6 DEF IsRunning
<1>6. CASE Cycle \/ LostCycle
  <2>1. open' = open /\ now' = now
    BY <1>6 DEF Cycle, LostCycle
  <2>2. PICK done \in SUBSET Accepted : /\ table' = Reconciled(done)
            /\ \/ LostCycle
               \/ \E call \in {"ok", "fails", "dies"} :
                     IF Schedulable THEN Act(Request(Reconciled(done)), call) ELSE Skip /\ call = "ok"
    BY <1>6 DEF Cycle, LostCycle
  <2>3. CASE LastMinute(x)
    BY <1>2, <1>3, <2>1, <2>3 DEF Kept, LastMinute
  <2>4. CASE ~LastMinute(x)
    <3>1. IsRunning(table[x.window]) /\ kind = "ec2"
      BY <1>5, <2>1, <2>4
    <3>2. Reconciled(done)[x.window] = table[x.window]
      BY <1>1, <3>1 DEF Reconciled, Accepted
    <3>3. MeantUp => MeantUp'
      <4>1. CASE LostCycle
        BY <1>2, <4>1 DEF LostCycle, MeantUp, instanceVars, given
      <4>2. CASE ~LostCycle
        <5>1. PICK call \in {"ok", "fails", "dies"} :
                  IF Schedulable THEN Act(Request(Reconciled(done)), call) ELSE Skip /\ call = "ok"
          BY <2>2, <4>2
        <5>2. MeantUp'
          BY <1>1, <1>2, <3>1, <3>2, <5>1, CycleUp
        <5>3. QED
          BY <5>2
      <4>3. QED
        BY <4>1, <4>2
    <3>4. QED
      BY <1>4, <2>1, <2>2, <3>2, <3>3
  <2>5. QED
    BY <2>3, <2>4
<1>7. CASE Tick
  <2>1. /\ ~due /\ now' = now + 1 /\ table' = table /\ UNCHANGED instanceVars
        /\ open' = {y \in open : now + 1 < y.end} \union Begun(now + 1)
    BY <1>7 DEF Tick
  <2>2. MeantUp => MeantUp'
    BY <1>2, <2>1 DEF MeantUp, instanceVars, given
  <2>3. CASE x \in open /\ now + 1 < x.end
    <3>1. table[x.window] # None => table[x.window].begin \in Int
      BY <1>1, <1>2, WindowSpan DEF KnownInv, TableKnown, Known
    <3>2. ~LastMinute(x)
      BY <1>1, <1>2, <2>3 DEF LastMinute
    <3>3. QED
      BY <1>2, <1>3, <2>1, <2>2, <2>3, <3>1, <3>2 DEF Kept, Over
  <2>4. CASE x \in Begun(now + 1)
    <3> DEFINE b == now + 1
    <3>1. PICK w \in Windows : /\ plan[w] # NoPlan /\ b \in plan[w].begins /\ Knowable(w, b)
                               /\ x = [window |-> w, end |-> b + plan[w].length]
      BY <2>4 DEF Begun
    <3>2. plan[w].length \in 1..DayLength
      BY <1>2, <3>1, PlannedAt
    <3>3. Ready(w, b)
      BY <2>1, <3>1 DEF WindowInv, ReadyInv
    <3>4. changed[w] < b - interval /\ Alone(w, b)
      BY <3>1 DEF Knowable, Alone, ExecutionAt
    <3>5. now < b /\ \A m \in now + 1..b - 1 : m % interval # 0
      BY <1>2
    <3>6. table[w] = ExecutionAt(w, b) /\ MeantUp
      BY <3>3, <3>4, <3>5 DEF Ready
    <3>7. ExecutionAt(w, b) # None
      BY <1>2, <3>1, PlannedAt, WindowsAssumption DEF Ours
    <3>8. x.window = w /\ x.end = b + plan[w].length
      BY <3>1
    <3>9. QED
      BY <1>2, <2>1, <2>2, <3>2, <3>6, <3>7, <3>8, Lengths DEF Kept, Over, ExecutionAt
  <2>5. QED
    BY <2>1, <2>3, <2>4
<1>8. CASE Replan \/ Touch \/ Occupy \/ Settle \/ Done \/ UNCHANGED vars
  <2>1. open' = open /\ now' = now /\ table' = table
    BY <1>8 DEF Replan, Touch, Occupy, Settle, Done, vars, clockVars, windowVars
  <2>2. kind = "ec2"
    BY <1>1, <2>1, WindowsAssumption DEF KnownInv, KindInv, TypeOK
  <2>3. Touch \/ UNCHANGED <<definition, status, touched>>
    BY <1>1, <1>8, <2>2 DEF Replan, Occupy, Settle, Schedulable, Done, KnownInv, KindInv, vars,
                            given, instanceVars
  <2>4. MeantUp => MeantUp'
    BY <2>3 DEF Touch, MeantUp
  <2>5. QED
    BY <1>4, <2>1, <2>4
<1>9. QED
  BY <1>6, <1>7, <1>8 DEF Next

\* Because reconcile_ssm_with_dynamodb keeps what is under way, an EC2 instance is up in
\* every execution that the last cycle before it could know of, from begin to end.
THEOREM InWindowSafe == Spec => []UpInWindow
<1>1. Init => WindowInv
  BY KnownInit DEF Init, WindowInv, ReadyInv, OpenInv
<1>2. WindowInv /\ [Next]_vars => WindowInv'
  BY KnownStep, ReadyStep, OpenStep DEF WindowInv
<1>3. WindowInv => UpInWindow
  BY DEF WindowInv, OpenInv, Kept, MeantUp, UpInWindow
<1>4. QED
  BY <1>1, <1>2, <1>3, PTL DEF Spec

-----------------------------------------------------------------------------
(* The preferred window of RDS *)

LEMMA RemainderIs ==
    ASSUME NEW n \in Nat \ {0}, NEW y \in Int, 0 <= y, y < n, NEW x \in {y - n, y, y + n}
    PROVE  x % n = y
<1> DEFINE q == x \div n
<1>1. q \in Int /\ x % n \in 0..n - 1 /\ x = n * q + (x % n)
  OBVIOUS
<1> HIDE DEF q
<1>2. /\ q >= 2 => n * q >= 2 * n
      /\ q = 1 => n * q = n
      /\ q = 0 => n * q = 0
      /\ q = -1 => n * q = -n
      /\ q <= -2 => n * q <= -2 * n
  BY <1>1
<1>3. n * q \in Int
  BY <1>1
<1>4. QED
  BY <1>1, <1>2, <1>3

\* Days of the week.
LEMMA WeekdayDistance ==
    ASSUME NEW i \in 0..6, NEW j \in 0..6
    PROVE  /\ (i - j) % 7 \in 0..6
           /\ (i - j) % 7 = IF i >= j THEN i - j ELSE i - j + 7
           /\ (i - j) % 7 = 0 <=> i = j
           /\ (((i + 1) % 7) - j) % 7 = (((i - j) % 7) + 1) % 7
  OBVIOUS

LEMMA WholeDays ==
    ASSUME NEW i \in Int, NEW j \in Int
    PROVE  /\ i * DayLength \in Int /\ j * DayLength \in Int
           /\ (i - j) * DayLength = i * DayLength - j * DayLength
           /\ (i - j + 7) * DayLength = i * DayLength - j * DayLength + 7 * DayLength
           /\ (i - 1) * DayLength = i * DayLength - DayLength
           /\ (i + 1) * DayLength = i * DayLength + DayLength
           /\ i >= 1 => i * DayLength >= DayLength
           /\ i >= 2 => i * DayLength >= 2 * DayLength
           /\ i <= 6 => i * DayLength <= 6 * DayLength
           /\ i >= 0 => i * DayLength >= 0
<1>1. DayLength \in Nat
  BY Lengths
<1>2. QED
  BY <1>1

\* The day and the time a preferred window is opened, and how many days later it ends.
OpeningDay(p) == IF p.start >= Early THEN p.from ELSE (p.from - 1) % 7
OpeningTime(p) == (p.start - Early) % DayLength
DaysOpen(p) == (p.to - OpeningDay(p)) % 7

LEMMA OpeningOf ==
    ASSUME NEW p \in Preferred
    PROVE  /\ p.from \in 0..6 /\ p.to \in 0..6 /\ p.start \in Nat /\ p.start < DayLength
           /\ p.end \in Nat /\ p.end < DayLength /\ p.end \in TimesOfDay
           /\ OpeningDay(p) \in 0..6 /\ OpeningTime(p) \in TimesOfDay
           /\ OpeningTime(p) \in Nat /\ OpeningTime(p) < DayLength
           /\ OpeningTime(p) = IF p.start >= Early THEN p.start - Early
                                                  ELSE p.start - Early + DayLength
           /\ DaysOpen(p) \in 0..6 /\ (DaysOpen(p) = 0 <=> OpeningDay(p) = p.to)
<1>1. /\ p.from \in 0..6 /\ p.to \in 0..6 /\ p.start \in TimesOfDay /\ p.end \in TimesOfDay
  BY WindowsAssumption DEF PreferredWindow
<1>2. p.start \in Nat /\ p.start < DayLength /\ p.end \in Nat /\ p.end < DayLength
  BY <1>1, Lengths DEF TimesOfDay
<1>3. OpeningDay(p) \in 0..6
  BY <1>1 DEF OpeningDay
<1>4. OpeningTime(p) = IF p.start >= Early THEN p.start - Early ELSE p.start - Early + DayLength
  <2>1. CASE p.start >= Early
    BY <1>2, <2>1, Lengths, RemainderIs DEF OpeningTime
  <2>2. CASE ~(p.start >= Early)
    <3> DEFINE y == p.start - Early + DayLength
    <3>1. y \in Int /\ 0 <= y /\ y < DayLength /\ p.start - Early = y - DayLength
      BY <1>2, <2>2, Lengths
    <3> HIDE DEF y
    <3>2. (p.start - Early) % DayLength = y
      BY <3>1, Lengths, RemainderIs
    <3>3. QED
      BY <2>2, <3>2 DEF OpeningTime, y
  <2>3. QED
    BY <2>1, <2>2
<1>5. OpeningTime(p) \in Nat /\ OpeningTime(p) < DayLength /\ OpeningTime(p) \in TimesOfDay
  BY <1>2, <1>4, Lengths DEF TimesOfDay
<1>6. DaysOpen(p) \in 0..6 /\ (DaysOpen(p) = 0 <=> OpeningDay(p) = p.to)
  BY <1>1, <1>3, WeekdayDistance DEF DaysOpen
<1>7. QED
  BY <1>1, <1>2, <1>3, <1>4, <1>5, <1>6

LEMMA WeekLength == Week = 7 * DayLength /\ Week \in Nat \ {0}
  BY Lengths DEF Week

\* It ends on the day it is opened or on the next, as long after as it lasts.
LEMMA PreferredSpan ==
    ASSUME NEW p \in Preferred
    PROVE  /\ DaysOpen(p) \in {0, 1}
           /\ Lasting(p) + Early = DaysOpen(p) * DayLength + p.end - OpeningTime(p)
<1> DEFINE x == p.to * DayLength + p.end - (p.from * DayLength + p.start)
           c == DaysOpen(p)
           s == OpeningTime(p)
<1>1. /\ Lasting(p) = x % Week /\ Lasting(p) \in Nat /\ 1 <= Lasting(p) /\ Lasting(p) < DayLength
      /\ p.start < Early => p.from = p.to
  <2>1. Lasting(p) = x % Week
    BY DEF Lasting, BeginsAt
  <2>2. Lasting(p) \in 1..DayLength - 1 /\ (p.start < Early => p.from = p.to)
    BY WindowsAssumption
  <2>3. QED
    BY <2>1, <2>2, Lengths
<1>2. /\ p.from \in 0..6 /\ p.to \in 0..6 /\ p.start \in Nat /\ p.start < DayLength
      /\ p.end \in Nat /\ p.end < DayLength
      /\ s \in Nat /\ s = IF p.start >= Early THEN p.start - Early ELSE p.start - Early + DayLength
  BY OpeningOf
<1>3. /\ p.from * DayLength \in Int /\ p.to * DayLength \in Int
      /\ (p.to - p.from) * DayLength = p.to * DayLength - p.from * DayLength
      /\ (p.to - p.from + 7) * DayLength = p.to * DayLength - p.from * DayLength + 7 * DayLength
  <2>1. p.from \in Int /\ p.to \in Int
    BY <1>2
  <2>2. QED
    BY <2>1, WholeDays
<1>4. CASE p.start >= Early
  <2>1. c = (p.to - p.from) % 7 /\ c \in 0..6 /\ c = IF p.to >= p.from THEN p.to - p.from ELSE p.to - p.from + 7
    BY <1>2, <1>4, WeekdayDistance DEF DaysOpen, OpeningDay
  <2>2. /\ p.to >= p.from => c * DayLength = p.to * DayLength - p.from * DayLength
        /\ ~(p.to >= p.from) => c * DayLength = p.to * DayLength - p.from * DayLength + 7 * DayLength
    BY <1>3, <2>1
  <2> HIDE DEF c, s
  <2>3. /\ c * DayLength \in Int /\ (c >= 1 => c * DayLength >= DayLength)
        /\ (c >= 2 => c * DayLength >= 2 * DayLength) /\ c * DayLength <= 6 * DayLength
        /\ c * DayLength >= 0 /\ (c = 0 => c * DayLength = 0)
    BY <2>1, WholeDays, Lengths
  <2> DEFINE y == c * DayLength + p.end - p.start
  <2>4. CASE y >= 0
    <3>1. x \in {y, y - Week}
      BY <1>2, <1>3, <2>1, <2>2, <2>3, WeekLength
    <3>2. y \in Int /\ y < Week
      BY <1>2, <2>3, WeekLength, Lengths
    <3> HIDE DEF x, y
    <3>3. Lasting(p) = y
      BY <1>1, <2>4, <3>1, <3>2, WeekLength, RemainderIs
    <3>4. c < 2
      BY <1>1, <1>2, <2>1, <2>3, <3>3, Lengths DEF y
    <3>5. QED
      BY <1>2, <1>4, <2>1, <2>3, <3>3, <3>4, Lengths DEF c, s, y
  <2>5. CASE ~(y >= 0)
    <3>1. c = 0 /\ y = p.end - p.start
      BY <1>2, <2>1, <2>3, <2>5, Lengths
    <3>2. x = y
      <4>1. p.to = p.from
        BY <1>2, <2>1, <3>1
      <4>2. p.to * DayLength - p.from * DayLength = 0
        BY <1>3, <4>1
      <4>3. QED
        BY <1>2, <1>3, <3>1, <4>2
    <3> DEFINE z == y + Week
    <3>3. z \in Int /\ 0 <= z /\ z < Week /\ x = z - Week /\ z > DayLength
      BY <1>2, <2>5, <3>1, <3>2, WeekLength, Lengths
    <3> HIDE DEF x, y, z
    <3>4. x % Week = z
      BY <3>3, WeekLength, RemainderIs
    <3>5. QED
      BY <1>1, <3>3, <3>4, Lengths
  <2>6. QED
    BY <2>4, <2>5
<1>5. CASE ~(p.start >= Early)
  <2>1. p.from = p.to /\ x = p.end - p.start
    BY <1>1, <1>2, <1>3, <1>5, Lengths
  <2>2. c = 1
    BY <1>2, <1>5, <2>1 DEF DaysOpen, OpeningDay
  <2>3. x >= 0
    <3> DEFINE z == x + Week
    <3>1. SUFFICES ASSUME x < 0 PROVE FALSE
      BY <1>2, <2>1
    <3>2. z \in Int /\ 0 <= z /\ z < Week /\ x = z - Week /\ z > DayLength
      BY <1>2, <2>1, <3>1, WeekLength, Lengths
    <3> HIDE DEF x, z
    <3>3. x % Week = z
      BY <3>2, WeekLength, RemainderIs
    <3>4. QED
      BY <1>1, <3>2, <3>3, Lengths
  <2>4. x \in Int /\ x < Week
    BY <1>2, <2>1, WeekLength, Lengths
  <2> HIDE DEF x
  <2>5. Lasting(p) = x
    BY <1>1, <2>3, <2>4, WeekLength, RemainderIs
  <2>6. QED
    BY <1>2, <1>5, <2>1, <2>2, <2>5, Lengths
<1>6. QED
  BY <1>4, <1>5

\* Days since the preferred window was last opened.
DaysSince(p, m) == (DateOf(m).weekday - OpeningDay(p)) % 7

LEMMA DaysSinceType ==
    ASSUME NEW p \in Preferred, NEW m \in Minutes
    PROVE  /\ DateOf(m).weekday \in 0..6 /\ DaysSince(p, m) \in 0..6
           /\ DaysSince(p, m) = 0 <=> DateOf(m).weekday = OpeningDay(p)
           /\ DaysSince(p, m) = DaysOpen(p) <=> DateOf(m).weekday = p.to
<1>1. DateOf(m).weekday \in 0..6
  <2>1. DayOf(m) + 1 \in DOMAIN Calendar /\ DateOf(m) = Calendar[DayOf(m) + 1]
    BY DayInCalendar DEF DateOf, DayOf
  <2> DEFINE Date == [month: 1..12, day: 1..31, weekday: 0..6, length: 28..31]
  <2>2. Calendar[DayOf(m) + 1] \in Date
    <3>1. Calendar \in Seq(Date)
      BY CalendarAssumption
    <3> HIDE DEF Date
    <3>2. QED
      BY <2>1, <3>1
  <2>3. QED
    BY <2>1, <2>2
<1>2. OpeningDay(p) \in 0..6 /\ p.to \in 0..6
  BY OpeningOf
<1>3. \A i, j, k \in 0..6 : (i - k) % 7 = (j - k) % 7 <=> i = j
  OBVIOUS
<1>4. QED
  BY <1>1, <1>2, <1>3, WeekdayDistance DEF DaysSince, DaysOpen

\* From one minute to the next.
LEMMA DaysSinceNext ==
    ASSUME NEW p \in Preferred, NEW m \in Minutes, m + 1 \in Minutes
    PROVE  IF TimeOf(m) = EndOfDay
               THEN TimeOf(m + 1) = 0 /\ DaysSince(p, m + 1) = (DaysSince(p, m) + 1) % 7
               ELSE TimeOf(m + 1) = TimeOf(m) + 1 /\ DaysSince(p, m + 1) = DaysSince(p, m)
<1>1. m \in Int
  BY DayInCalendar
<1>2. CASE TimeOf(m) = EndOfDay
  <2> DEFINE i == DayOf(m) + 1
             j == DayOf(m + 1) + 1
  <2>1. j = i + 1 /\ TimeOf(m + 1) = 0
    BY <1>1, <1>2, NextMinutes, DayInCalendar
  <2>2. i \in DOMAIN Calendar /\ j \in DOMAIN Calendar /\ i \in Nat
    BY DayInCalendar
  <2>3. DateOf(m) = Calendar[i] /\ DateOf(m + 1) = Calendar[j]
    BY DEF DateOf, DayOf
  <2> HIDE DEF i, j
  <2>4. Calendar[j].weekday = (Calendar[i].weekday + 1) % 7
    BY <2>1, <2>2, CalendarAssumption
  <2>5. DateOf(m + 1).weekday = (DateOf(m).weekday + 1) % 7
    BY <2>3, <2>4
  <2>6. DateOf(m).weekday \in 0..6 /\ OpeningDay(p) \in 0..6
    BY DaysSinceType, OpeningOf
  <2>7. DaysSince(p, m + 1) = (DaysSince(p, m) + 1) % 7
    BY <2>5, <2>6, WeekdayDistance DEF DaysSince
  <2>8. QED
    BY <1>2, <2>1, <2>7
<1>3. CASE TimeOf(m) # EndOfDay
  <2>1. DayOf(m + 1) = DayOf(m) /\ TimeOf(m + 1) = TimeOf(m) + 1
    BY <1>1, <1>3, NextMinutes
  <2>2. DateOf(m + 1) = DateOf(m)
    BY <2>1 DEF DateOf, DayOf
  <2>3. QED
    BY <1>3, <2>1, <2>2 DEF DaysSince
<1>4. QED
  BY <1>2, <1>3

\* What the minutes since the margin began are, in days and minutes.
LEMMA SinceEarlyIs ==
    ASSUME NEW p \in Preferred, NEW m \in Minutes
    PROVE  LET y == DaysSince(p, m) * DayLength + TimeOf(m) - OpeningTime(p)
           IN  SinceEarly(p, m) = IF y >= 0 THEN y ELSE y + Week
<1> DEFINE weekday == DateOf(m).weekday
           a == DaysSince(p, m)
           s == OpeningTime(p)
           t == TimeOf(m)
           day == OpeningDay(p)
           x == weekday * DayLength + t - (p.from * DayLength + p.start) + Early
           y == a * DayLength + t - s
           z == IF y >= 0 THEN y ELSE y + Week
<1>1. weekday \in 0..6 /\ a \in 0..6 /\ day \in 0..6
  BY DaysSinceType, OpeningOf
<1>2. a = IF weekday >= day THEN weekday - day ELSE weekday - day + 7
  BY <1>1, WeekdayDistance DEF DaysSince
<1>3. /\ p.from \in 0..6 /\ p.start \in Nat /\ p.start < DayLength
      /\ s \in Nat /\ s < DayLength
      /\ s = IF p.start >= Early THEN p.start - Early ELSE p.start - Early + DayLength
  BY OpeningOf
<1>4. t \in Nat /\ t < DayLength
  BY DayTime, DayInCalendar, Lengths DEF TimesOfDay
<1>5. SinceEarly(p, m) = x % Week
  BY DEF SinceEarly, BeginsAt
<1>6. /\ p.start >= Early => day = p.from
      /\ ~(p.start >= Early) => day = IF p.from = 0 THEN 6 ELSE p.from - 1
  BY <1>3 DEF OpeningDay
<1> HIDE DEF weekday, a, s, t, day
<1>7. /\ weekday * DayLength \in Int /\ p.from * DayLength \in Int /\ day * DayLength \in Int
      /\ (weekday - day) * DayLength = weekday * DayLength - day * DayLength
      /\ (weekday - day + 7) * DayLength = weekday * DayLength - day * DayLength + 7 * DayLength
      /\ (p.from - 1) * DayLength = p.from * DayLength - DayLength
  <2>1. weekday \in Int /\ p.from \in Int /\ day \in Int
    BY <1>1, <1>3
  <2>2. QED
    BY <2>1, WholeDays
<1>8. /\ a * DayLength \in Int /\ a * DayLength >= 0 /\ a * DayLength <= 6 * DayLength
      /\ a >= 1 => a * DayLength >= DayLength
      /\ a * DayLength = IF weekday >= day THEN weekday * DayLength - day * DayLength
                         ELSE weekday * DayLength - day * DayLength + 7 * DayLength
  <2>1. a \in Int /\ a >= 0 /\ a <= 6
    BY <1>1
  <2>2. QED
    BY <1>2, <1>7, <2>1, WholeDays
<1>9. day * DayLength = IF p.start >= Early THEN p.from * DayLength
                        ELSE IF p.from = 0 THEN 6 * DayLength ELSE p.from * DayLength - DayLength
  BY <1>3, <1>6, <1>7
<1>10. p.from = 0 => p.from * DayLength = 0
  BY Lengths
<1>11. x - t + s \in {weekday * DayLength - day * DayLength,
                      weekday * DayLength - day * DayLength + 7 * DayLength}
  <2>1. CASE p.start >= Early
    BY <1>3, <1>4, <1>7, <1>9, <2>1, Lengths
  <2>2. CASE ~(p.start >= Early) /\ p.from # 0
    BY <1>3, <1>4, <1>7, <1>9, <2>2, Lengths
  <2>3. CASE ~(p.start >= Early) /\ p.from = 0
    BY <1>3, <1>4, <1>7, <1>9, <1>10, <2>3, Lengths
  <2>4. QED
    BY <2>1, <2>2, <2>3
<1>12. x \in Int /\ y \in Int /\ x \in {y - Week, y, y + Week}
  <2>1. x \in Int /\ y \in Int
    BY <1>3, <1>4, <1>7, <1>8, Lengths
  <2>2. QED
    BY <1>3, <1>4, <1>7, <1>8, <1>11, <2>1, WeekLength, Lengths
<1>13. z \in Int /\ 0 <= z /\ z < Week
  BY <1>3, <1>4, <1>8, <1>12, WeekLength, Lengths
<1>14. x \in {z - Week, z, z + Week}
  <2>1. CASE y >= 0
    BY <1>12, <2>1
  <2>2. CASE ~(y >= 0)
    <3>1. a = 0
      BY <1>1, <1>3, <1>4, <1>8, <2>2, Lengths
    <3>2. x # y - Week
      BY <1>1, <1>2, <1>3, <1>4, <1>7, <1>8, <1>11, <3>1, WeekLength, Lengths
    <3>3. QED
      BY <1>12, <2>2, <3>2, WeekLength
  <2>3. QED
    BY <2>1, <2>2
<1> HIDE DEF x, z
<1>15. x % Week = z
  BY <1>13, <1>14, WeekLength, RemainderIs
<1>16. QED
  BY <1>5, <1>15 DEF z, y, a, t, s

\* A minute is within the margin and the window: on the day it is opened, or the next.
Within(p, m) ==
    \/ /\ DaysSince(p, m) = 0 /\ OpeningTime(p) <= TimeOf(m)
       /\ DaysOpen(p) = 1 \/ TimeOf(m) < p.end
    \/ DaysSince(p, m) = 1 /\ DaysOpen(p) = 1 /\ TimeOf(m) < p.end

LEMMA WithinIs ==
    ASSUME NEW p \in Preferred, NEW m \in Minutes
    PROVE  SinceEarly(p, m) < Lasting(p) + Early <=> Within(p, m)
<1> DEFINE a == DaysSince(p, m)
           c == DaysOpen(p)
           s == OpeningTime(p)
           t == TimeOf(m)
           y == a * DayLength + t - s
           length == c * DayLength + p.end - s
<1>1. SinceEarly(p, m) = IF y >= 0 THEN y ELSE y + Week
  BY SinceEarlyIs
<1>2. Lasting(p) + Early = length /\ c \in {0, 1}
  BY PreferredSpan
<1>3. /\ a \in 0..6 /\ t \in Nat /\ t < DayLength /\ s \in Nat /\ s < DayLength
      /\ p.end \in Nat /\ p.end < DayLength
  <2>1. t \in TimesOfDay
    BY DayTime, DayInCalendar
  <2>2. QED
    BY <2>1, DaysSinceType, OpeningOf, Lengths DEF TimesOfDay
<1>4. /\ a * DayLength \in Int /\ a * DayLength >= 0 /\ (a >= 2 => a * DayLength >= 2 * DayLength)
      /\ (a = 1 => a * DayLength = DayLength) /\ (a = 0 => a * DayLength = 0)
      /\ (c = 1 => c * DayLength = DayLength) /\ (c = 0 => c * DayLength = 0)
  <2>1. a \in Int /\ a >= 0
    BY <1>3
  <2>2. QED
    BY <2>1, WholeDays, Lengths
<1>5. Within(p, m) <=> \/ a = 0 /\ s <= t /\ (c = 1 \/ t < p.end)
                       \/ a = 1 /\ c = 1 /\ t < p.end
  BY DEF Within
<1> HIDE DEF a, c, s, t
<1>6. CASE a = 0
  BY <1>1, <1>2, <1>3, <1>4, <1>5, <1>6, WeekLength, Lengths
<1>7. CASE a = 1
  BY <1>1, <1>2, <1>3, <1>4, <1>5, <1>7, WeekLength, Lengths
<1>8. CASE a >= 2
  BY <1>1, <1>2, <1>3, <1>4, <1>5, <1>8, WeekLength, Lengths
<1>9. QED
  BY <1>3, <1>6, <1>7, <1>8

LEMMA OnItsWeekday ==
    ASSUME NEW day, NEW begin \in TimesOfDay, NEW end \in TimesOfDay, NEW m
    PROVE  LET period == RunFrom(begin, end, OnWeekday(day))
           IN  /\ PeriodState(period, m) = "running" <=>
                     DateOf(m).weekday = day /\ begin <= TimeOf(m) /\ TimeOf(m) < end
               /\ PeriodState(period, m) \in {"running", "stopped"}
<1> DEFINE period == RunFrom(begin, end, OnWeekday(day))
           date == DateOf(m)
<1>1. /\ period.begin = begin /\ period.end = end /\ period.cron = OnWeekday(day)
      /\ begin # NoTime /\ end # NoTime
  BY Lengths DEF RunFrom, TimesOfDay, NoTime
<1>2. Contains(OnWeekday(day), date) <=> date.weekday = day
  <2>1. \A n, x, lo, hi : /\ Matches(Value(n), x, lo, hi) <=> x = n
                          /\ Matches(All, x, lo, hi)
                          /\ Value(n).kind \notin {"nearest", "nth", "lastweekday"}
    BY DEF Matches, Value, All
  <2>2. /\ OnWeekday(day).months = {All} /\ OnWeekday(day).monthdays = {All}
        /\ OnWeekday(day).weekdays = {Value(day)}
    BY DEF OnWeekday
  <2>3. QED
    BY <2>1, <2>2 DEF Contains, MonthsContain, MonthdaysContain, WeekdaysContain
<1> HIDE DEF period
<1>3. QED
  BY <1>1, <1>2 DEF PeriodState, CheckTime, period

\* The minutes at which a period of the preferred window runs.
PreferredRuns(p, m) ==
    IF DaysOpen(p) = 0 THEN Within(p, m)
    ELSE Within(p, m) /\ ~(DaysSince(p, m) = 0 /\ TimeOf(m) = EndOfDay)

LEMMA PreferredState ==
    ASSUME NEW p \in Preferred, NEW m \in Minutes
    PROVE  LET window == Opening(PreferredPeriods(p))
           IN  /\ StateAt(window, m).state = "running" <=> PreferredRuns(p, m)
               /\ StateAt(window, m).state \in {"running", "stopped"}
               /\ Len(window.periods) > 1 <=> DaysOpen(p) = 1
<1> DEFINE s == OpeningTime(p)
           day == OpeningDay(p)
           only == RunFrom(s, p.end, OnWeekday(day))
           first == RunFrom(s, EndOfDay, OnWeekday(day))
           last == RunFrom(0, p.end, OnWeekday(p.to))
           Going(period) == PeriodState(period, m) = "running"
<1>1. PreferredPeriods(p) = IF day = p.to THEN <<only>> ELSE <<first, last>>
  BY DEF PreferredPeriods, OpeningTime, OpeningDay
<1>2. /\ s \in TimesOfDay /\ p.end \in TimesOfDay /\ EndOfDay \in TimesOfDay /\ 0 \in TimesOfDay
      /\ DaysOpen(p) \in {0, 1} /\ (DaysOpen(p) = 0 <=> day = p.to)
  BY OpeningOf, PreferredSpan, Lengths DEF TimesOfDay
<1>3. /\ DaysSince(p, m) = 0 <=> DateOf(m).weekday = day
      /\ DaysSince(p, m) = DaysOpen(p) <=> DateOf(m).weekday = p.to
  BY DaysSinceType
<1>4. TimeOf(m) \in Int /\ 0 <= TimeOf(m) /\ TimeOf(m) <= EndOfDay /\ EndOfDay \in Int
  BY DayTime, DayInCalendar, Lengths DEF TimesOfDay, EndOfDay
<1>5. /\ Going(only) <=> DateOf(m).weekday = day /\ s <= TimeOf(m) /\ TimeOf(m) < p.end
      /\ Going(first) <=> DateOf(m).weekday = day /\ s <= TimeOf(m) /\ TimeOf(m) < EndOfDay
      /\ Going(last) <=> DateOf(m).weekday = p.to /\ 0 <= TimeOf(m) /\ TimeOf(m) < p.end
      /\ \A period \in {only, first, last} : PeriodState(period, m) \in {"running", "stopped"}
  BY <1>2, OnItsWeekday
<1> HIDE DEF only, first, last, s, day
<1>6. CASE day = p.to
  <2>1. Opening(PreferredPeriods(p)) = Opening(<<only>>) /\ Opening(<<only>>).periods = <<only>>
    BY <1>1, <1>6 DEF Opening
  <2>2. /\ StateAt(Opening(<<only>>), m).state = "running" <=> Going(only)
        /\ StateAt(Opening(<<only>>), m).state \in {"running", "stopped"}
    BY <1>5, OpenState
  <2>3. Going(only) <=> PreferredRuns(p, m)
    BY <1>2, <1>3, <1>5, <1>6 DEF PreferredRuns, Within, s
  <2>4. ~(Len(Opening(PreferredPeriods(p)).periods) > 1)
    <3>1. Opening(PreferredPeriods(p)).periods = <<only>>
      BY <1>1, <1>6 DEF Opening
    <3>2. QED
      BY <3>1
  <2>5. DaysOpen(p) # 1
    BY <1>2, <1>6
  <2>6. QED
    BY <2>1, <2>2, <2>3, <2>4, <2>5
<1>7. CASE day # p.to
  <2>1. /\ Opening(PreferredPeriods(p)) = Opening(<<first, last>>)
        /\ Opening(<<first, last>>).periods = <<first, last>>
    BY <1>1, <1>7 DEF Opening
  <2>2. /\ StateAt(Opening(<<first, last>>), m).state = "running" <=> Going(first) \/ Going(last)
        /\ StateAt(Opening(<<first, last>>), m).state \in {"running", "stopped"}
    BY <1>5, OpenState
  <2>3. TimeOf(m) < EndOfDay <=> TimeOf(m) # EndOfDay
    BY <1>4
  <2>4. Going(first) \/ Going(last) <=> PreferredRuns(p, m)
    BY <1>2, <1>3, <1>4, <1>5, <1>7, <2>3 DEF PreferredRuns, Within, s
  <2>5. Len(Opening(PreferredPeriods(p)).periods) > 1
    BY <2>1
  <2>6. DaysOpen(p) = 1
    BY <1>2, <1>7
  <2>7. QED
    BY <2>1, <2>2, <2>4, <2>5, <2>6
<1>8. QED
  BY <1>6, <1>7

\* But for a lost minute, the preferred window is open while a minute is within it.
LEMMA PreferredOpen ==
    ASSUME NEW p \in Preferred, now \in Start..Horizon, ~LostMinute(p, now)
    PROVE  IsOpen(Opening(PreferredPeriods(p))) <=> Within(p, now)
<1>1. /\ now - 1 \in Minutes /\ now \in Minutes /\ now + 1 \in Minutes
      /\ now \in Int /\ (now - 1) + 1 = now
  BY NowInCalendar, DayInCalendar
<1> DEFINE window == Opening(PreferredPeriods(p))
           Running(m) == StateAt(window, m).state = "running"
<1>2. ASSUME NEW m \in {now - 1, now, now + 1}
      PROVE  /\ Running(m) <=> PreferredRuns(p, m)
             /\ StateAt(window, m).state \in {"running", "stopped"}
             /\ Len(window.periods) > 1 <=> DaysOpen(p) = 1
  BY <1>1, <1>2, PreferredState
<1> SUFFICES IsOpen(window) <=> Within(p, now)
  OBVIOUS
<1> HIDE DEF window
<1>3. IsOpen(window) <=>
         \/ Running(now)
         \/ /\ Len(window.periods) > 1 /\ StateAt(window, now).state = "stopped"
            /\ Running(now - 1) /\ Running(now + 1)
  BY DEF IsOpen, DesiredState
<1>4. IsOpen(window) <=>
         \/ PreferredRuns(p, now)
         \/ DaysOpen(p) = 1 /\ PreferredRuns(p, now - 1) /\ PreferredRuns(p, now + 1)
  <2>1. /\ Running(now) <=> PreferredRuns(p, now)
        /\ Running(now - 1) <=> PreferredRuns(p, now - 1)
        /\ Running(now + 1) <=> PreferredRuns(p, now + 1)
        /\ StateAt(window, now).state \in {"running", "stopped"}
        /\ Len(window.periods) > 1 <=> DaysOpen(p) = 1
    BY <1>2
  <2>2. QED
    BY <1>3, <2>1
<1>5. DaysOpen(p) \in {0, 1}
  BY PreferredSpan
<1>6. CASE DaysOpen(p) = 0
  BY <1>4, <1>6 DEF PreferredRuns
<1>7. CASE DaysOpen(p) = 1
  <2> DEFINE a(m) == DaysSince(p, m)
             t(m) == TimeOf(m)
             s == OpeningTime(p)
  <2>1. ASSUME NEW m \in {now - 1, now, now + 1}
        PROVE  a(m) \in 0..6 /\ t(m) \in Int /\ 0 <= t(m) /\ t(m) <= EndOfDay
    <3>1. m \in Minutes /\ m \in Int
      BY <1>1, <2>1
    <3>2. a(m) \in 0..6 /\ t(m) \in TimesOfDay
      BY <3>1, DaysSinceType, DayTime
    <3>3. QED
      BY <3>2, Lengths DEF TimesOfDay, EndOfDay
  <2>2. /\ IF t(now - 1) = EndOfDay THEN t(now) = 0 /\ a(now) = (a(now - 1) + 1) % 7
                                   ELSE t(now) = t(now - 1) + 1 /\ a(now) = a(now - 1)
        /\ IF t(now) = EndOfDay THEN t(now + 1) = 0 /\ a(now + 1) = (a(now) + 1) % 7
                               ELSE t(now + 1) = t(now) + 1 /\ a(now + 1) = a(now)
    <3>1. \A m \in Minutes : m + 1 \in Minutes =>
              IF t(m) = EndOfDay THEN t(m + 1) = 0 /\ a(m + 1) = (a(m) + 1) % 7
                                 ELSE t(m + 1) = t(m) + 1 /\ a(m + 1) = a(m)
      BY DaysSinceNext
    <3> HIDE DEF a, t
    <3>2. QED
      BY <1>1, <3>1
  <2>3. \A m : /\ Within(p, m) <=> (a(m) = 0 /\ s <= t(m)) \/ (a(m) = 1 /\ t(m) < p.end)
               /\ PreferredRuns(p, m) <=> Within(p, m) /\ ~(a(m) = 0 /\ t(m) = EndOfDay)
    BY <1>7 DEF Within, PreferredRuns
  <2>4. t(now) = EndOfDay => p.end # 0 /\ s # EndOfDay
    BY DEF LostMinute, OpeningTime
  <2>5. /\ s \in Int /\ 0 <= s /\ s <= EndOfDay /\ p.end \in Int /\ 0 <= p.end
        /\ EndOfDay \in Int /\ EndOfDay > 0
    BY OpeningOf, Lengths DEF EndOfDay
  <2> HIDE DEF a, t, s
  <2>6. CASE a(now) = 0 /\ t(now) = EndOfDay
    <3>1. a(now - 1) = 0 /\ t(now - 1) = EndOfDay - 1
      BY <2>1, <2>2, <2>5, <2>6
    <3>2. a(now + 1) = 1 /\ t(now + 1) = 0
      BY <2>2, <2>6
    <3>3. s <= EndOfDay - 1 /\ 0 < p.end
      BY <2>4, <2>5, <2>6
    <3>4. PreferredRuns(p, now - 1) /\ PreferredRuns(p, now + 1) /\ Within(p, now)
      BY <2>3, <2>5, <2>6, <3>1, <3>2, <3>3
    <3>5. QED
      BY <1>4, <1>7, <3>4
  <2>7. CASE ~(a(now) = 0 /\ t(now) = EndOfDay)
    <3>1. PreferredRuns(p, now) <=> Within(p, now)
      BY <2>3, <2>7
    <3>2. PreferredRuns(p, now - 1) /\ PreferredRuns(p, now + 1) => Within(p, now)
      <4>1. SUFFICES ASSUME PreferredRuns(p, now - 1), PreferredRuns(p, now + 1)
                     PROVE  Within(p, now)
        OBVIOUS
      <4>2. /\ \/ a(now - 1) = 0 /\ s <= t(now - 1) /\ t(now - 1) # EndOfDay
               \/ a(now - 1) = 1 /\ t(now - 1) < p.end
            /\ a(now + 1) \in {0, 1}
            /\ a(now + 1) = 1 => t(now + 1) < p.end
        BY <2>3, <4>1
      <4>3. CASE a(now - 1) = 0
        BY <2>1, <2>2, <2>3, <2>5, <4>2, <4>3
      <4>4. CASE a(now - 1) = 1
        BY <2>1, <2>2, <2>3, <2>5, <4>2, <4>4
      <4>5. QED
        BY <4>2, <4>3, <4>4
    <3>3. QED
      BY <1>4, <3>1, <3>2
  <2>8. QED
    BY <2>6, <2>7
<1>8. QED
  BY <1>5, <1>6, <1>7

LEMMA PreferredStep == TypeOK /\ PreferredAsWritten /\ [Next]_vars => PreferredAsWritten'
<1> SUFFICES ASSUME TypeOK, PreferredAsWritten, [Next]_vars PROVE PreferredAsWritten'
  OBVIOUS
<1>1. UNCHANGED <<kind, definition, preferred>>
  <2>1. UNCHANGED given
    BY DEF Next, vars, Cycle, LostCycle, Tick, Replan, Touch, Occupy, Settle, Done
  <2>2. QED
    BY <2>1 DEF given
<1>2. CASE UNCHANGED <<asked, at>>
  BY <1>1, <1>2 DEF PreferredAsWritten
<1>3. CASE Cycle /\ Schedulable
  <2>1. PICK known, call : Act(Request(known), call)
    BY <1>3 DEF Cycle
  <2>2. at' = now /\ (asked'.window <=> InWindow(known))
    BY <2>1 DEF Act, Request
  <2>3. ASSUME kind = "rds", definition.use = "yes", ~LostMinute(preferred, now)
        PROVE  InWindow(known) <=> SinceEarly(preferred, now) < Lasting(preferred) + Early
    <3>1. preferred \in Preferred /\ now \in Start..Horizon
      BY <2>3 DEF TypeOK
    <3>2. now \in Minutes
      BY <3>1, NowInCalendar
    <3>3. InWindow(known) <=> IsOpen(Opening(PreferredPeriods(preferred)))
      BY <2>3 DEF InWindow
    <3>4. QED
      BY <2>3, <3>1, <3>2, <3>3, PreferredOpen, WithinIs
  <2>4. QED
    BY <1>1, <2>2, <2>3 DEF PreferredAsWritten
<1>4. CASE ~(Cycle /\ Schedulable)
  <2>1. UNCHANGED <<asked, at>>
    BY <1>4 DEF Next, vars, instanceVars, Cycle, Skip, LostCycle, Tick, Replan, Touch, Occupy, Settle, Done
  <2>2. QED
    BY <1>2, <2>1
<1>5. QED
  BY <1>3, <1>4

\* build_schedule_from_maintenance_window opens an RDS instance's preferred window as long
\* before its begin as it should, and no longer than to its end, over every midnight and
\* the end of the week.
THEOREM PreferredSafe == Spec => []PreferredAsWritten
<1>1. Init => TypeOK /\ PreferredAsWritten
  BY TypeInit DEF Init, PreferredAsWritten
<1>2. TypeOK /\ PreferredAsWritten /\ [Next]_vars => (TypeOK /\ PreferredAsWritten)'
  BY TypeStep, PreferredStep
<1>3. QED
  BY <1>1, <1>2, PTL DEF Spec

-----------------------------------------------------------------------------
(* What a schedule or a window answers for *)

Up == status \notin {"stopping", "stopped"}
Down == status \in {"stopping", "stopped"}

\* The invariant is about the stored state too: a cycle that makes no call relies on it.
SyncedInv ==
    /\ kind \in Kinds
    /\ synced => /\ asked.state = "running" \/ stored = "running" => Up
                 /\ asked.state = "stopped" \/ stored = "stopped" => Down

\* Where a decision governs without a call, the state it relies on was stored already.
LEMMA GovernedDecision ==
    ASSUME NEW request, Governs(request, VerdictOn(request)),
           request.window => request.state = "running"
    PROVE  LET verdict == VerdictOn(request)
           IN  /\ request.state = "running" \/ verdict.stored = "running" =>
                     verdict.action = "start" \/ (verdict.action = "nothing" /\ synced /\ stored = "running")
               /\ request.state = "stopped" \/ verdict.stored = "stopped" =>
                     verdict.action = "stop" \/ (verdict.action = "nothing" /\ synced /\ stored = "stopped")
<1> DEFINE verdict == VerdictOn(request)
<1>1. CASE request.window
  BY <1>1 DEF VerdictOn, Decide, Verdict
<1>2. CASE ~request.window /\ request.state = "running"
  <2>1. verdict = DecideRunning(definition.flags, stored, status = "available")
    BY <1>2 DEF VerdictOn, Decide
  <2>2. stored # "retain-running" /\ verdict.stored # "retain-running"
    BY <1>2 DEF Governs
  <2>3. synced \/ definition.flags.enforced \/ stored # "running"
    BY <1>2 DEF Governs
  <2>4. QED
    BY <1>2, <2>1, <2>2, <2>3 DEF DecideRunning, Verdict
<1>3. CASE ~request.window /\ request.state = "stopped"
  <2>1. verdict = DecideStopped(definition.flags, stored)
    BY <1>3 DEF VerdictOn, Decide
  <2>2. stored # "retain-running" /\ ~(stored = "unknown" /\ ~definition.flags.stopNew)
    BY <1>3 DEF Governs
  <2>3. synced \/ definition.flags.enforced \/ stored # "stopped"
    BY <1>3 DEF Governs
  <2>4. QED
    BY <1>3, <2>1, <2>2, <2>3 DEF DecideStopped, Verdict
<1>4. CASE ~request.window /\ request.state \notin {"running", "stopped"}
  BY <1>4 DEF VerdictOn, Decide, Verdict
<1>5. QED
  BY <1>1, <1>2, <1>3, <1>4

LEMMA ActSyncs ==
    ASSUME SyncedInv, Schedulable, NEW request, NEW call \in {"ok", "fails", "dies"},
           request.window => request.state = "running", Act(request, call),
           UNCHANGED given
    PROVE  SyncedInv'
<1>0. kind \in {"ec2", "rds"} /\ kind' = kind
  BY WindowsAssumption DEF SyncedInv, given
<1> SUFFICES ASSUME synced'
             PROVE  /\ asked'.state = "running" \/ stored' = "running" => Up'
                    /\ asked'.state = "stopped" \/ stored' = "stopped" => Down'
  BY DEF SyncedInv, given
<1> DEFINE verdict == VerdictOn(request)
<1>1. call = "ok" /\ Governs(request, verdict)
  BY DEF Act
<1>2. /\ asked' = request /\ stored' = verdict.stored
      /\ status' = IF Needed(verdict) THEN Called(verdict.action) ELSE status
  BY <1>1 DEF Act
<1>3. /\ request.state = "running" \/ verdict.stored = "running" =>
             verdict.action = "start" \/ (verdict.action = "nothing" /\ synced /\ stored = "running")
      /\ request.state = "stopped" \/ verdict.stored = "stopped" =>
             verdict.action = "stop" \/ (verdict.action = "nothing" /\ synced /\ stored = "stopped")
  BY <1>1, GovernedDecision
<1> HIDE DEF verdict
<1>4. verdict.action = "start" => Up'
  BY <1>0, <1>2 DEF Needed, Called, Schedulable, Up
<1>5. verdict.action = "stop" => Down'
  BY <1>2 DEF Needed, Called, Schedulable, Down
<1>6. verdict.action = "nothing" => status' = status
  BY <1>2 DEF Needed
<1>7. verdict.action = "nothing" /\ synced => /\ stored = "running" => Up'
                                              /\ stored = "stopped" => Down'
  BY <1>6 DEF SyncedInv, Up, Down
<1>8. QED
  BY <1>2, <1>3, <1>4, <1>5, <1>7

LEMMA NextSyncs == SyncedInv /\ [Next]_vars => SyncedInv'
<1> SUFFICES ASSUME SyncedInv, [Next]_vars PROVE SyncedInv'
  OBVIOUS
<1>1. CASE Cycle
  <2>1. CASE UNCHANGED instanceVars
    BY <1>1, <2>1 DEF Cycle, given, instanceVars, SyncedInv, Up, Down
  <2>2. CASE Schedulable
    <3>1. PICK done \in SUBSET Accepted, call \in {"ok", "fails", "dies"} :
              IF Schedulable THEN Act(Request(Reconciled(done)), call) ELSE Skip /\ call = "ok"
      BY <1>1 DEF Cycle
    <3>2. Request(Reconciled(done)).window => Request(Reconciled(done)).state = "running"
      BY DEF Request
    <3>3. UNCHANGED given
      BY <1>1 DEF Cycle
    <3>4. QED
      BY <2>2, <3>1, <3>2, <3>3, ActSyncs
  <2>3. QED
    BY <1>1, <2>1, <2>2 DEF Cycle, Skip
<1>2. CASE LostCycle \/ Tick \/ Replan \/ Done \/ UNCHANGED vars
  <2>1. UNCHANGED instanceVars /\ UNCHANGED given
    BY <1>2 DEF LostCycle, Tick, Done, Replan, vars
  <2>2. QED
    BY <2>1 DEF given, instanceVars, SyncedInv, Up, Down
<1>3. CASE Touch
  BY <1>3 DEF Touch, given, SyncedInv
<1>4. CASE Occupy \/ Settle
  <2>1. UNCHANGED <<stored, asked, synced, kind>>
    BY <1>4 DEF given, Occupy, Settle
  <2>2. (Up => Up') /\ (Down => Down')
    BY <1>4 DEF Occupy, Settle, Schedulable, Up, Down
  <2>3. QED
    BY <2>1, <2>2 DEF SyncedInv
<1>5. QED
  BY <1>1, <1>2, <1>3, <1>4 DEF Next

\* Once a schedule or a window answers for an instance, EC2 or RDS, it stays as it was
\* asked to be until a user acts or a call fails.
THEOREM FollowsSafe == Spec => []FollowsWindows
<1>1. Init => SyncedInv
  BY DEF Init, SyncedInv
<1>2. SyncedInv => FollowsWindows
  BY DEF SyncedInv, FollowsWindows, Up, Down
<1>3. QED
  BY <1>1, <1>2, NextSyncs, PTL DEF Spec
=============================================================================
