------------------------- MODULE MCScheduleTimeline -------------------------
(***************************************************************************)
(* Values for ScheduleTimeline: 25 February (Sunday) to 4 March (Monday)   *)
(* 2024, a leap year, with days of eight minutes, of which 7 stands for    *)
(* 23:59; and schedules whose periods meet these dates in every way.       *)
(***************************************************************************)
EXTENDS ScheduleTimeline

Feb(day, weekday) == [month |-> 2, day |-> day, weekday |-> weekday, length |-> 29]
Mar(day, weekday) == [month |-> 3, day |-> day, weekday |-> weekday, length |-> 31]

LeapWeek == <<Feb(25, 6), Feb(26, 0), Feb(27, 1), Feb(28, 2), Feb(29, 3),
              Mar(1, 4), Mar(2, 5), Mar(3, 6), Mar(4, 0)>>

EveryDay == [months |-> {All}, monthdays |-> {All}, weekdays |-> {All}]
OnWeekdays(field) == [EveryDay EXCEPT !.weekdays = field]
OnMonthdays(field) == [EveryDay EXCEPT !.monthdays = field]
InMonths(field) == [EveryDay EXCEPT !.months = field]

Span(start, end) == CronRange(start, Value(end), 1)

During(begin, end, cron) == [begin |-> begin, end |-> end, cron |-> cron, size |-> NoSize]
Sized(period, z) == [period EXCEPT !.size = z]

Plain == [enforced |-> FALSE, retainRunning |-> FALSE, stopNew |-> TRUE]
Enforcing == [Plain EXCEPT !.enforced = TRUE]
Retaining == [Plain EXCEPT !.retainRunning = TRUE]
Sparing == [Plain EXCEPT !.stopNew = FALSE]

Under(periods, flags) == [periods |-> periods, override |-> "none", flags |-> flags]

\* Periods that follow on each other within a day, and over midnight.
Adjacent == Under(<<During(1, 3, EveryDay), During(4, 6, EveryDay)>>, Plain)
OverMidnight == Under(<<During(5, 7, EveryDay), During(0, 2, EveryDay)>>, Sparing)
\* All day but for an hour on Tuesdays: the days of the third period wrap around.
ButTuesdays == Under(<<During(0, 5, OnWeekdays({Value(1)})),
                          During(6, 7, OnWeekdays({Value(1)})),
                          During(NoTime, NoTime, OnWeekdays({Span(2, 0)}))>>, Plain)
\* From Monday to Friday without a stop: a begin, whole days, an end.
WorkingWeek == Under(<<During(2, NoTime, OnWeekdays({Value(0)})),
                          During(NoTime, NoTime, OnWeekdays({Span(1, 3)})),
                          During(NoTime, 5, OnWeekdays({Value(4)}))>>, Retaining)
\* One sided, every day.
BeginOnly == Under(<<During(3, NoTime, EveryDay)>>, Plain)
EndOnly == Under(<<During(NoTime, 4, EveryDay)>>, Enforcing)
\* A period inside another, with types of their own.
Nested == Under(<<Sized(During(1, 6, EveryDay), "small"),
                     Sized(During(3, 5, EveryDay), "large")>>, Plain)
\* Days of the month, with steps, up to the end of whatever month it is.
Steps == Under(<<During(2, 5, OnMonthdays({CronRange(20, Last, 3), CronRange(1, NoEnd, 2)}))>>,
                  Retaining)
Workdays == Under(<<During(2, 5, OnWeekdays({CronRange(0, Value(4), 2), Value(5)}))>>, Plain)
MonthEnd == Under(<<During(1, 4, OnMonthdays({Last, NearestWeekday(2), Span(3, 31)})),
                       During(5, 6, OnWeekdays({NthWeekday(3, 5), NthWeekday(4, 1), LastWeekday(0)}))>>,
                     Plain)
Winter == Under(<<During(2, 6, InMonths({CronRange(11, Value(2), 3), Value(6)}))>>,
                [Sparing EXCEPT !.enforced = TRUE])
\* A day February does not have, and the end of the month besides.
ThirtiethNearest == Under(<<During(1, 4, OnMonthdays({NearestWeekday(30), Value(28)}))>>, Plain)
\* Every ten days, read as a step of zero, and the last of February besides.
EveryTen == Under(<<During(1, 4, OnMonthdays({CronRange(1, Value(31), 10), Value(29)}))>>, Plain)
AlwaysStopped == [Adjacent EXCEPT !.override = "stopped"]
AlwaysRunning == [Nested EXCEPT !.override = "running"]

Written == {Adjacent, OverMidnight, ButTuesdays, WorkingWeek, BeginOnly, EndOnly, Nested,
            Steps, Workdays, MonthEnd, Winter, ThirtiethNearest, EveryTen, AlwaysStopped, AlwaysRunning}

\* Every fifteen days from the first: the step has two digits.
Fortnightly == {Under(<<During(2, 5, OnMonthdays({CronRange(1, Value(31), 15)}))>>, Plain)}
=============================================================================
