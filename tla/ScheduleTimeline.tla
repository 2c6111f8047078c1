-------------------------- MODULE ScheduleTimeline --------------------------
(***************************************************************************)
(* One schedule over some days, minute by minute: an EC2 instance under    *)
(* it, which a scheduling cycle looks at every few minutes, users who      *)
(* start and stop the instance, and an AutoScaling group with the rules    *)
(* made of the same periods.                                               *)
(*                                                                         *)
(* A cycle is one step here, its calls succeed, and the instance starts    *)
(* and stops at once: Ec2Scheduling has the steps and the failures of a    *)
(* cycle but leaves open what the schedule asks for, which is what this    *)
(* module is about.                                                        *)
(***************************************************************************)
EXTENDS InstanceSchedules, SchedulingDecision

CONSTANTS
    Definitions,    \* schedules as they are written
    Intervals,      \* choices of the minutes from one cycle to the next
    Start, Horizon, \* first and last minute of a behaviour
    Sizes,          \* instance types
    MaxTouches,     \* bound: acts of users
    NoAnswer        \* before the first cycle

Times == TimesOfDay \union {NoTime}
Answers == [state: ScheduleStates, size: Sizes \union {NoSize}]

Period == [begin: Times, end: Times, cron: Cron, size: Sizes \union {NoSize}]
Definition ==
    [periods: Seq(Period), override: {"none", "running", "stopped"}, flags: Flags]

ASSUME TimelineAssumption ==
    /\ DayLength \in Nat \ {0}
    /\ Intervals \subseteq Nat \ {0}
    /\ MaxTouches \in Nat
    /\ Start \in Nat /\ Horizon \in Nat
    /\ 0 < Start /\ Start <= Horizon /\ Horizon + 1 < Len(Calendar) * DayLength
    /\ NoSize \notin Sizes
    /\ NoAnswer \notin Answers
    /\ Definitions \subseteq Definition
    /\ \A d \in Definitions : \A i \in DOMAIN d.periods : ValidPeriod(d.periods[i])

\* Dates of real months and weekdays.
ASSUME CalendarAssumption ==
    /\ Calendar \in Seq([month: 1..12, day: 1..31, weekday: 0..6, length: 28..31])
    /\ \A i \in DOMAIN Calendar : Calendar[i].day <= Calendar[i].length

VARIABLES
    definition, \* the schedule, as it is written
    interval,   \* minutes from one cycle to the next
    now,        \* the minute
    due,        \* the cycle of this minute is still to come
    up,         \* the instance runs
    size,       \* its type
    stored,     \* its stored state
    asked,      \* history: what the last cycle took the schedule to ask for
    at,         \* history: the minute of the last cycle
    synced,     \* history: the schedule has changed since a user last touched the instance
    touches,    \* acts of users so far
    group,      \* the AutoScaling group runs
    fired       \* history: some rule of the group has fired

instanceVars == <<up, size, stored>>
cycleVars == <<asked, at, synced>>
groupVars == <<group, fired>>
given == <<definition, interval>>
vars == <<given, now, due, instanceVars, cycleVars, touches, groupVars>>

schedule == ToInstanceSchedule(definition)

TypeOK ==
    /\ definition \in Definitions
    /\ interval \in Intervals
    /\ now \in Start..Horizon
    /\ due \in BOOLEAN
    /\ up \in BOOLEAN
    /\ size \in Sizes
    /\ stored \in InstanceStates
    /\ asked \in Answers \union {NoAnswer}
    /\ at \in Nat
    /\ synced \in BOOLEAN
    /\ touches \in 0..MaxTouches
    /\ group \in BOOLEAN
    /\ fired \in BOOLEAN

Init ==
    /\ definition \in Definitions
    /\ interval \in Intervals
    /\ now = Start
    /\ due = TRUE
    /\ up \in BOOLEAN
    /\ size \in Sizes
    /\ stored = "unknown"
    /\ asked = NoAnswer
    /\ at = 0
    /\ synced = FALSE
    /\ touches = 0
    /\ group \in BOOLEAN
    /\ fired = FALSE

-----------------------------------------------------------------------------
(* The cycle *)

\* schedule_target for the instance: a running period that asks for another type
\* resizes, before the decision is asked.
Resizes(answer) == answer.state = "running" /\ answer.size \notin {NoSize, size}

VerdictOn(answer) ==
    IF Resizes(answer) THEN Verdict("resize", "running")
                       ELSE Decide(definition.flags, answer.state, FALSE, stored, up)

\* History: the schedule now answers for the instance, whatever users did before.
\* It does not for an instance retained, or a new one it leaves alone.
Governs(answer, verdict) ==
    /\ "retain-running" \notin {stored, verdict.stored}
    /\ ~(stored = "unknown" /\ answer.state = "stopped" /\ ~definition.flags.stopNew)
    /\ \/ synced
       \/ verdict.action = "resize"
       \/ answer.state # "any" /\ (definition.flags.enforced \/ answer.state # stored)

Cycle ==
    /\ due
    /\ ~EvaluationMustFail(schedule, now)
    /\ LET answer == DesiredState(schedule, now)
           verdict == VerdictOn(answer)
       IN  /\ up' = CASE verdict.action \in {"start", "resize"} -> TRUE
                      [] verdict.action = "stop" -> FALSE
                      [] OTHER -> up
           /\ size' = IF verdict.action = "resize" THEN answer.size ELSE size
           /\ stored' = verdict.stored
           /\ asked' = answer
           /\ synced' = Governs(answer, verdict)
    /\ at' = now
    /\ due' = FALSE
    /\ UNCHANGED <<given, now, touches, groupVars>>

\* The handler of a cycle that cannot evaluate the schedule raises, or runs until it
\* times out, each time it is invoked.
FailedCycle ==
    /\ due
    /\ EvaluationMayFail(schedule, now)
    /\ due' = FALSE
    /\ UNCHANGED <<given, now, instanceVars, cycleVars, touches, groupVars>>

-----------------------------------------------------------------------------
(* Time, rules and users *)

\* A minute passes; rules of the group that are due in the new one fire.
Tick ==
    /\ ~due /\ now < Horizon
    /\ now' = now + 1
    /\ due' = ((now + 1) % interval = 0)
    /\ IF Fired(schedule, now + 1) = {}
          THEN UNCHANGED groupVars
          ELSE group' \in Fired(schedule, now + 1) /\ fired' = TRUE
    /\ UNCHANGED <<given, instanceVars, cycleVars, touches>>

\* Somebody starts or stops the instance.
Touch ==
    /\ touches < MaxTouches
    /\ touches' = touches + 1
    /\ up' = ~up
    /\ synced' = FALSE
    /\ UNCHANGED <<given, now, due, size, stored, asked, at, groupVars>>

\* The behaviour ends with the last minute.
Done == ~due /\ now = Horizon /\ UNCHANGED vars

Next == Cycle \/ FailedCycle \/ Tick \/ Touch \/ Done

Spec == Init /\ [][Next]_vars

-----------------------------------------------------------------------------
(* The periods as written, laid out on the calendar *)

\* From which minute to which a period runs on the day-th date.
Midnight(day) == (day - 1) * DayLength
From(period, day) == Midnight(day) + IF period.begin = NoTime THEN 0 ELSE period.begin
Until(period, day) == IF period.end = NoTime THEN Midnight(day + 1)
                                             ELSE Midnight(day) + period.end

\* <<i, day>>: period i runs, or asks for nothing, at the minute as of that day.
RunningThen(minute) ==
    {x \in (DOMAIN definition.periods) \X (DOMAIN Calendar) :
        LET p == definition.periods[x[1]]
        IN  /\ DateSays(p.cron, Calendar[x[2]])
            /\ p.begin # NoTime \/ p.end = NoTime
            /\ From(p, x[2]) <= minute /\ minute < Until(p, x[2])}

OpenThen(minute) ==
    \E i \in DOMAIN definition.periods, day \in DOMAIN Calendar :
        LET p == definition.periods[i]
        IN  /\ DateSays(p.cron, Calendar[day])
            /\ Midnight(day) <= minute /\ minute < Midnight(day + 1)
            /\ \/ p.begin = NoTime /\ p.end # NoTime /\ minute < Until(p, day)
               \/ p.begin # NoTime /\ p.end = NoTime /\ minute < From(p, day)

\* No time in between two periods.
JoinedThen(minute) ==
    /\ Len(definition.periods) > 1
    /\ RunningThen(minute - 1) # {} /\ RunningThen(minute + 1) # {}
    /\ ~OpenThen(minute)

\* The type of a period that runs at the minute, none of which began later.
SizesThen(minute) ==
    {definition.periods[x[1]].size :
        x \in {y \in RunningThen(minute) :
                 \A z \in RunningThen(minute) :
                    From(definition.periods[z[1]], z[2]) <= From(definition.periods[y[1]], y[2])}}

AsksAt(answer, minute) ==
    IF definition.override # "none" THEN answer = Answer(definition.override, NoSize)
    ELSE IF RunningThen(minute) # {}
        THEN answer.state = "running" /\ answer.size \in SizesThen(minute)
    ELSE IF JoinedThen(minute)
        THEN answer.state = "running" /\ answer.size \in SizesThen(minute + 1)
    ELSE answer.state = IF OpenThen(minute) THEN "any" ELSE "stopped"

\* A cycle takes the schedule to ask for what its periods say when they are laid
\* out on the calendar, each from its first minute to its last: over midnights, in
\* short and long months, with ranges that wrap around and with steps, and with no
\* stop in the minute between two periods that follow on each other.
AsksAsWritten ==
    asked # NoAnswer => AsksAt(asked, at)

\* The schedule answers for the instance from its first transition after a user's
\* act on, and then has it in the state and of the type it asked for last, also
\* across minutes at which it asks for nothing and cycles that failed.
FollowsSchedule ==
    synced => /\ asked # NoAnswer
              /\ asked.state = "running" => up
              /\ asked.state = "stopped" => ~up
              /\ asked.size # NoSize => size = asked.size

-----------------------------------------------------------------------------
(* The group and the instance *)

\* Schedules whose meaning for a group is the same: periods with begin and end that
\* neither overlap nor follow on each other, with at most one day field restricted.
Comparable ==
    /\ definition.override = "none"
    /\ Configurable(schedule)
    /\ \A i \in DOMAIN definition.periods :
          LET p == definition.periods[i]
          IN  /\ p.begin # NoTime /\ p.end # NoTime /\ p.begin < p.end
              /\ ~(Restricted(p.cron.monthdays) /\ Restricted(p.cron.weekdays))
    /\ \A m \in Start..Horizon :
          /\ Cardinality(RunningThen(m)) <= 1
          /\ RunningThen(m) # RunningThen(m - 1) /\ RunningThen(m - 1) # {}
                => RunningThen(m) = {} /\ RunningThen(m + 1) = {}

\* Under such a schedule an AutoScaling group, once one of its rules has fired, and
\* an EC2 instance that the schedule answers for are up at the same times, although
\* the one is resized by recurrences and the other by comparing states.
GroupAgreesWithInstance ==
    fired /\ synced /\ ~due /\ at = now /\ Comparable => (group = up)
=============================================================================
