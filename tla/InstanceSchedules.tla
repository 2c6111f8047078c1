-------------------------- MODULE InstanceSchedules --------------------------
(***************************************************************************)
(* What a schedule asks for at a minute: InstanceSchedule in               *)
(* configuration/instance_schedule.py and RunningPeriod in                 *)
(* configuration/running_period.py, and the rules that                     *)
(* period_to_actions in scheduling/asg/asg_service.py makes of the same    *)
(* periods for an AutoScaling group.  Pure operators.                      *)
(*                                                                         *)
(* A minute is counted from the first of the Calendar, in the time zone of *)
(* the schedule.  Periods begin and end on whole minutes, so that the      *)
(* seconds the code compares make no difference.                           *)
(***************************************************************************)
EXTENDS CronFields, Sequences

CONSTANTS
    DayLength,  \* minutes of a day (1440)
    Calendar,   \* the dates, in order
    NoSize      \* no instance type asked for

NoTime == -1
TimesOfDay == 0..DayLength - 1

DateOf(minute) == Calendar[minute \div DayLength + 1]
TimeOf(minute) == minute % DayLength

\* PeriodDefinition.to_running_period: the fields parsed from how they are written.
ToRunningPeriod(period) ==
    [period EXCEPT !.cron = [months    |-> {Parse(e) : e \in @.months},
                             monthdays |-> {Parse(e) : e \in @.monthdays},
                             weekdays  |-> {Parse(e) : e \in @.weekdays}]]

\* What PeriodDefinition.validate lets pass.
ValidPeriod(period) ==
    LET p == ToRunningPeriod(period)
    IN  /\ {p.begin, p.end} \subseteq TimesOfDay \union {NoTime}
        /\ p.begin # NoTime /\ p.end # NoTime => p.begin <= p.end
        /\ ValidMonths(p.cron.months)
        /\ ValidMonthdays(p.cron.monthdays)
        /\ ValidWeekdays(p.cron.weekdays)

\* to_instance_schedule, build_periods
ToInstanceSchedule(definition) ==
    [definition EXCEPT !.periods = [i \in DOMAIN @ |-> ToRunningPeriod(@[i])]]

-----------------------------------------------------------------------------
(* The desired state *)

\* check_time: begin and end, end only, begin only, or all day.
CheckTime(period, time) ==
    CASE period.begin = NoTime /\ period.end = NoTime -> "running"
      [] period.begin = NoTime /\ period.end # NoTime ->
            IF time >= period.end THEN "stopped" ELSE "any"
      [] period.begin # NoTime /\ period.end = NoTime ->
            IF time >= period.begin THEN "running" ELSE "any"
      [] OTHER ->
            IF period.begin <= time /\ time < period.end THEN "running" ELSE "stopped"

\* RunningPeriod.get_desired_state
PeriodState(period, minute) ==
    IF Contains(period.cron, DateOf(minute)) THEN CheckTime(period, TimeOf(minute))
                                             ELSE "stopped"

\* get_nearest_running_period: the period that began last, the first of several;
\* NoTime is before every time.
NearestRunning(periods, running) ==
    CHOOSE i \in running :
        \A j \in running : \/ periods[j].begin < periods[i].begin
                           \/ periods[j].begin = periods[i].begin /\ i <= j

Answer(state, size) == [state |-> state, size |-> size]

\* Mutant of StateAt: the override taken for the answer although there is none.
StateAtUnchecked(schedule, minute) == Answer(schedule.override, NoSize)

\* _get_desired_state_at_time: the override, else running before any before stopped.
StateAt(schedule, minute) ==
    LET In(state) == {i \in DOMAIN schedule.periods :
                        PeriodState(schedule.periods[i], minute) = state}
        running == In("running")
    IN  IF schedule.override # "none" THEN Answer(schedule.override, NoSize)
        ELSE IF running # {}
            THEN Answer("running", schedule.periods[NearestRunning(schedule.periods, running)].size)
        ELSE Answer(IF In("any") # {} THEN "any" ELSE "stopped", NoSize)

\* Mutant of DesiredState: the minutes between adjacent periods not kept.
DesiredStateUnjoined(schedule, minute) == StateAt(schedule, minute)

\* get_desired_state: a minute between two adjacent periods is running, of the
\* type of the period that is about to begin.
DesiredState(schedule, minute) ==
    LET now == StateAt(schedule, minute)
        before == StateAt(schedule, minute - 1)
        after == StateAt(schedule, minute + 1)
    IN  IF /\ Len(schedule.periods) > 1
           /\ now.state = "stopped"
           /\ before.state = "running"
           /\ after.state = "running"
            THEN after
            ELSE now

\* The minutes whose states are asked for.
Examined(schedule, minute) ==
    IF Len(schedule.periods) > 1 /\ StateAt(schedule, minute).state = "stopped"
        THEN {minute - 1, minute, minute + 1}
        ELSE {minute}

\* An expression of a period is not evaluated to an answer in one of these minutes:
\* the handler raises or never ends.
EvaluationMayFail(schedule, minute) ==
    /\ schedule.override = "none"
    /\ \E i \in DOMAIN schedule.periods, t \in Examined(schedule, minute) :
          MayFail(schedule.periods[i].cron, DateOf(t))

EvaluationMustFail(schedule, minute) ==
    /\ schedule.override = "none"
    /\ \E i \in DOMAIN schedule.periods, t \in Examined(schedule, minute) :
          MustFail(schedule.periods[i].cron, DateOf(t))

-----------------------------------------------------------------------------
(* Scheduled actions of an AutoScaling group *)

\* period_to_actions raises for one period: the group is not configured at all.
Configurable(schedule) ==
    \A i \in DOMAIN schedule.periods : Convertible(schedule.periods[i].cron)

\* On which dates AutoScaling runs a recurrence: as a crontab does, where a date
\* is to satisfy either of the two day fields when both are restricted.  It accepts
\* none with a step of zero.
Recurs(cron, date) ==
    /\ \A e \in cron.months \union cron.monthdays \union cron.weekdays :
          e.kind = "range" => e.interval > 0
    /\ MonthSays(cron.months, date)
    /\ IF Restricted(cron.monthdays) /\ Restricted(cron.weekdays)
          THEN MonthdaySays(cron.monthdays, date) \/ WeekdaySays(cron.weekdays, date)
          ELSE MonthdaySays(cron.monthdays, date) /\ WeekdaySays(cron.weekdays, date)

\* Mutant of Actions: begin and end times swapped.
ActionsSwapped(period) ==
    {[at |-> period.end, up |-> TRUE, cron |-> period.cron],
     [at |-> period.begin, up |-> FALSE, cron |-> period.cron]}

\* period_to_actions: a Start if the period has a begin, a Stop if it has an end.
Actions(period) ==
    {a \in {[at |-> period.begin, up |-> TRUE, cron |-> period.cron],
            [at |-> period.end, up |-> FALSE, cron |-> period.cron]} : a.at # NoTime}

\* What the rules of a group make of it in a minute: one outcome per rule that
\* fires, in whichever order they are applied.
Fired(schedule, minute) ==
    IF Configurable(schedule)
        THEN {a.up : a \in {b \in UNION {Actions(schedule.periods[i]) :
                                            i \in DOMAIN schedule.periods} :
                              b.at = TimeOf(minute) /\ Recurs(b.cron, DateOf(minute))}}
        ELSE {}
=============================================================================
