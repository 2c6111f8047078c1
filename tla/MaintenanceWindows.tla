------------------------- MODULE MaintenanceWindows -------------------------
(***************************************************************************)
(* Instances that are to run in maintenance windows, minute by minute: an  *)
(* EC2 instance whose schedule names Systems Manager windows, with the     *)
(* table that remembers the windows under way                              *)
(* (maint_win/maintenance_window_context.py, model/maint_win.py), or an    *)
(* RDS instance with the weekly window that RDS prefers                    *)
(* (scheduling/rds/rds.py).                                                *)
(*                                                                         *)
(* A cycle is one step, with the calls that fail in it; a handler may die  *)
(* in it.  Systems Manager, RDS and their users are external: they         *)
(* reschedule and delete windows, start, stop and occupy the instance at   *)
(* any minute.                                                             *)
(***************************************************************************)
EXTENDS InstanceSchedules, SchedulingDecision

CONSTANTS
    Early,          \* minutes before a window (10)
    Kinds,          \* a subset of {"ec2", "rds"}
    Definitions,    \* schedules, with the flag use: "yes", "no" or "unset"
    Intervals,      \* choices of the minutes from one cycle to the next
    Windows,        \* name-ids of the windows the schedule names
    Plans,          \* what a window may be planned as in Systems Manager
    FirstPlans,     \* how the windows are planned when the behaviour begins
    NoPlan,         \* deleted, disabled, or without another execution
    None,           \* no item in the table
    Preferred,      \* choices of the RDS instance's preferred window
    Start, Horizon, \* first and last minute of a behaviour
    MaxEdits,       \* bound: changes of plans
    MaxTouches,     \* bound: acts of users
    MaxFaults       \* bound: failed calls, dead handlers, times RDS is occupied

Week == 7 * DayLength
Minutes == 0..Len(Calendar) * DayLength - 1

\* The minutes a window begins in, and for how long it lasts.
Plan == [begins: SUBSET Minutes, length: 1..DayLength]
Execution == [begin: Minutes, length: 1..DayLength]
PreferredWindow == [from: 0..6, start: TimesOfDay, to: 0..6, end: TimesOfDay]

\* Minutes of the week (it begins on Monday) of a preferred window's begin, and to its end.
BeginsAt(p) == p.from * DayLength + p.start
Lasting(p) == (p.to * DayLength + p.end - BeginsAt(p)) % Week

\* Some days in a row, in which no date comes twice: less than a year.
ASSUME CalendarAssumption ==
    /\ DayLength \in Nat
    /\ Calendar \in Seq([month: 1..12, day: 1..31, weekday: 0..6, length: 28..31])
    /\ \A i, j \in DOMAIN Calendar : i < j =>
          /\ Calendar[i].month # Calendar[j].month \/ Calendar[i].day # Calendar[j].day
          /\ j <= i + 2 => Calendar[i].day # Calendar[j].day
          /\ j = i + 1 => Calendar[j].weekday = (Calendar[i].weekday + 1) % 7

\* RDS keeps preferred windows shorter than a day.  One that begins so soon after
\* midnight that it is opened the day before is to end on its day: the code opens
\* no other period for the day in between.
ASSUME WindowsAssumption ==
    /\ \A d \in Definitions : ToInstanceSchedule(d).override \in {"none", "running", "stopped"}
    /\ Early \in TimesOfDay \ {0}
    /\ Kinds \subseteq {"ec2", "rds"}
    /\ Intervals \subseteq Nat \ {0}
    /\ {MaxEdits, MaxTouches, MaxFaults} \subseteq Nat
    /\ Plans \subseteq Plan
    /\ \A p \in Plans : p.begins \subseteq 2 * DayLength..Horizon
    /\ \A i \in Intervals : i + Early < DayLength
    /\ NoPlan \notin Plans
    /\ None \notin Execution
    /\ FirstPlans \subseteq [Windows -> Plans \union {NoPlan}]
    /\ Preferred \subseteq PreferredWindow
    /\ \A p \in Preferred : /\ Lasting(p) \in 1..DayLength - 1
                            /\ p.start < Early => p.from = p.to
    /\ Start \in Nat /\ Horizon \in Nat
    /\ 0 < Start /\ Start <= Horizon /\ Horizon + 2 * DayLength < Len(Calendar) * DayLength

Statuses == {"available", "starting", "stopping", "stopped", "occupied"}

VARIABLES
    kind,       \* whether the instance is of EC2 or of RDS
    definition, \* its schedule
    interval,   \* minutes from one cycle to the next
    preferred,  \* its preferred window, if of RDS
    plan,       \* Systems Manager: how each window is planned
    now,        \* the minute
    due,        \* the cycle of this minute is still to come
    table,      \* the execution stored for each window, or None
    status,     \* the instance
    stored,     \* its stored state
    asked,      \* history: what the last cycle that dealt with the instance asked for
    at,         \* history: the minute of that cycle
    synced,     \* history: the instance has been made to be as asked
    planned,    \* history: the executions of each window that cycles were told of
    changed,    \* history: when each window was last changed or not dealt with, 0 if long ago
    open,       \* history: the executions under way that cycles could know of
    touched,    \* history: a user acted, or a call failed, since the last good cycle
    edits, touches, faults

given == <<kind, definition, interval, preferred>>
instanceVars == <<status, stored, asked, at, synced, touched>>
windowVars == <<table, planned, changed>>
clockVars == <<now, due, open>>
bounds == <<edits, touches, faults>>
vars == <<given, plan, clockVars, windowVars, instanceVars, bounds>>

NotAsked == [window |-> FALSE, state |-> "any"]

TypeOK ==
    /\ kind \in Kinds
    /\ definition \in Definitions
    /\ interval \in Intervals
    /\ preferred \in IF kind = "rds" THEN Preferred ELSE {None}
    /\ plan \in [Windows -> Plans \union {NoPlan}]
    /\ now \in Start..Horizon
    /\ due \in BOOLEAN
    /\ table \in [Windows -> Execution \union {None}]
    /\ status \in Statuses
    /\ stored \in InstanceStates
    /\ asked \in [window: BOOLEAN, state: ScheduleStates]
    /\ at \in 0..Horizon
    /\ {synced, touched} \subseteq BOOLEAN
    /\ planned \in [Windows -> SUBSET Execution]
    /\ changed \in [Windows -> 0..Horizon]
    /\ \A x \in open : x.window \in Windows /\ x.end \in Minutes
    /\ edits \in 0..MaxEdits /\ touches \in 0..MaxTouches /\ faults \in 0..MaxFaults

Init ==
    /\ kind \in Kinds
    /\ definition \in Definitions
    /\ interval \in Intervals
    /\ preferred \in IF kind = "rds" THEN Preferred ELSE {None}
    /\ plan \in IF kind = "ec2" THEN FirstPlans ELSE {[w \in Windows |-> NoPlan]}
    /\ now = Start /\ due = TRUE
    /\ table = [w \in Windows |-> None]
    /\ status \in {"available", "stopped"}
    /\ stored = "unknown"
    /\ asked = NotAsked /\ at = 0
    /\ synced = FALSE /\ touched = FALSE
    /\ planned = [w \in Windows |-> {}]
    /\ changed = [w \in Windows |-> Start]
    /\ open = {}
    /\ edits = 0 /\ touches = 0 /\ faults = 0

-----------------------------------------------------------------------------
(* Windows as schedules *)

EndOfDay == DayLength - 1    \* 23:59

RunFrom(begin, end, cron) == [begin |-> begin, end |-> end, cron |-> cron, size |-> NoSize]
OnDate(date) == [months |-> {Value(date.month)}, monthdays |-> {Value(date.day)},
                 weekdays |-> {All}]
OnWeekday(day) == [months |-> {All}, monthdays |-> {All}, weekdays |-> {Value(day)}]

Opening(periods) == [periods |-> periods, override |-> "none"]

\* How long before it begins a window is opened, and when it is over.
Margin == interval + Early
Over(x) == x.begin + x.length

\* Mutant of ToSchedule: three periods for every window that crosses a midnight.
ToScheduleInThree(x) ==
    LET begin == x.begin - Margin
        end == Over(x)
        first == RunFrom(TimeOf(begin), EndOfDay, OnDate(DateOf(begin)))
        last == RunFrom(0, TimeOf(end), OnDate(DateOf(end)))
    IN  Opening(IF DateOf(begin).day = DateOf(end).day
                    THEN <<RunFrom(TimeOf(begin), TimeOf(end), OnDate(DateOf(begin)))>>
                    ELSE <<first, RunFrom(NoTime, NoTime, OnDate(DateOf(end - DayLength))), last>>)

\* EC2SSMMaintenanceWindow.to_schedule: one period on the day, two over a midnight,
\* three beyond a day, of which the second is the whole day before the last: that is
\* the first day if only one midnight lies between.
ToSchedule(x) ==
    LET begin == x.begin - Margin
        end == Over(x)
        on == DateOf(begin)
        until == DateOf(end)
        first == RunFrom(TimeOf(begin), EndOfDay, OnDate(on))
        last == RunFrom(0, TimeOf(end), OnDate(until))
    IN  Opening(IF on.day = until.day
                    THEN <<RunFrom(TimeOf(begin), TimeOf(end), OnDate(on))>>
                ELSE IF end - begin <= DayLength
                    THEN <<first, last>>
                ELSE <<first, RunFrom(NoTime, NoTime, OnDate(DateOf(end - DayLength))), last>>)

IsOpen(window) == DesiredState(window, now).state = "running"

\* is_running_at, _is_running
IsRunning(x) == x # None /\ IsOpen(ToSchedule(x))

\* Mutant of PreferredPeriods: opened early, on the day the window begins.
PreferredPeriodsSameDay(p) ==
    LET start == (p.start - Early) % DayLength
    IN  IF p.from = p.to
            THEN <<RunFrom(start, p.end, OnWeekday(p.from))>>
            ELSE <<RunFrom(start, EndOfDay, OnWeekday(p.from)), RunFrom(0, p.end, OnWeekday(p.to))>>

\* build_schedule_from_maintenance_window: opened early, the day before if need be.
PreferredPeriods(p) ==
    LET start == (p.start - Early) % DayLength
        day == IF p.start >= Early THEN p.from ELSE (p.from - 1) % 7
    IN  IF day = p.to
            THEN <<RunFrom(start, p.end, OnWeekday(day))>>
            ELSE <<RunFrom(start, EndOfDay, OnWeekday(day)), RunFrom(0, p.end, OnWeekday(p.to))>>

-----------------------------------------------------------------------------
(* The windows a cycle knows *)

\* What describe_maintenance_windows lists: the next execution, never the current.
Listed(w) ==
    IF plan[w] = NoPlan \/ \A b \in plan[w].begins : b <= now
        THEN None
        ELSE [begin |-> Min({b \in plan[w].begins : b > now}), length |-> plan[w].length]

\* _compute_delta_between: what differs is updated or deleted.
Deltas == {w \in Windows : Listed(w) # table[w]}

\* Mutant of Accepted: a stored window that is under way is replaced.
AcceptedAlways == Deltas

\* Those that are not rejected because the stored window is under way.
Accepted == {w \in Deltas : ~IsRunning(table[w])}

\* reconcile_ssm_with_dynamodb: done are the windows whose put or deletion succeeded;
\* the table's copy in memory has the same windows.
Reconciled(done) == [w \in Windows |-> IF w \in done THEN Listed(w) ELSE table[w]]

\* History: what Systems Manager has told of, less what was over an interval ago and
\* when the instance was last dealt with.
Told == [w \in Windows |-> {x \in planned[w] \union ({Listed(w)} \ {None}) :
                              Over(x) > now - interval \/ Over(x) > at}]

\* _fetch_mw_schedules_for, schedule_target of RDS: a flag of None uses the windows
\* of an EC2 instance and not those of an RDS instance.
InWindow(known) ==
    IF kind = "ec2"
        THEN definition.use # "no" /\ \E w \in Windows : IsRunning(known[w])
        ELSE definition.use = "yes" /\ IsOpen(Opening(PreferredPeriods(preferred)))

-----------------------------------------------------------------------------
(* The cycle *)

schedule == ToInstanceSchedule(definition)

Request(known) ==
    LET window == InWindow(known)
    IN  [window |-> window,
         state |-> IF window THEN "running" ELSE DesiredState(schedule, now).state]

VerdictOn(request) ==
    Decide(definition.flags, request.state, request.window, stored, status = "available")

\* _process_decision: no call is made for what is so already.
Needed(verdict) ==
    \/ verdict.action = "start" /\ status = "stopped"
    \/ verdict.action = "stop" /\ status = "available"

\* An EC2 instance starts and stops at once here; an RDS instance takes its time.
Called(action) ==
    CASE action = "start" /\ kind = "ec2" -> "available"
      [] action = "start" /\ kind = "rds" -> "starting"
      [] action = "stop" /\ kind = "ec2" -> "stopped"
      [] OTHER -> "stopping"

\* History: the schedule answers for the instance as of this cycle.
Governs(request, verdict) ==
    \/ request.window
    \/ /\ "retain-running" \notin {stored, verdict.stored}
       /\ ~(stored = "unknown" /\ request.state = "stopped" /\ ~definition.flags.stopNew)
       /\ \/ synced
          \/ request.state # "any" /\ (definition.flags.enforced \/ request.state # stored)

Fault(happens) ==
    /\ happens => faults < MaxFaults
    /\ faults' = faults + IF happens THEN 1 ELSE 0

Schedulable == status \in {"available", "stopped"}

\* The call for the decision goes through, fails, or is the last thing the handler
\* does, before it writes the record.
Act(request, call) ==
    LET verdict == VerdictOn(request)
    IN  /\ call # "ok" => Needed(verdict)
        /\ status' = IF Needed(verdict) /\ call # "fails" THEN Called(verdict.action) ELSE status
        /\ stored' = CASE call = "ok" -> verdict.stored
                       [] call = "fails" -> FailureState(verdict)
                       [] call = "dies" -> stored
        /\ synced' = (call = "ok" /\ Governs(request, verdict))
        /\ touched' = (call # "ok")
        /\ asked' = request
        /\ at' = now

\* Mutant of Skip: the state the schedule asks for is stored.
SkipStoring ==
    /\ stored' = VerdictOn(Request(table)).stored
    /\ UNCHANGED <<status, asked, at, synced, touched>>

\* schedule_target of RDS for an instance that is on its way or occupied.
Skip == UNCHANGED instanceVars

\* One cycle of the target: the windows reconciled, and the instance dealt with.
Cycle ==
    LET accepted == Accepted IN
    /\ due
    /\ due' = FALSE
    /\ \E done \in SUBSET accepted, call \in {"ok", "fails", "dies"} :
        /\ Fault(done # accepted \/ call # "ok")
        /\ table' = Reconciled(done)
        /\ changed' = [w \in Windows |->
                          IF w \in accepted \ done \/ call # "ok" THEN now ELSE changed[w]]
        /\ IF Schedulable THEN Act(Request(Reconciled(done)), call) ELSE Skip /\ call = "ok"
    /\ planned' = Told
    /\ UNCHANGED <<given, plan, now, open, edits, touches>>

\* A cycle that deals with no instance: the handler raises or dies on its way, or the
\* instance is one that it cannot schedule or whose schedule it does not know.
LostCycle ==
    /\ due
    /\ due' = FALSE
    /\ Fault(TRUE)
    /\ \E done \in SUBSET Accepted : table' = Reconciled(done)
    /\ planned' = Told
    /\ changed' = [w \in Windows |-> now]
    /\ UNCHANGED <<given, plan, now, open, instanceVars, edits, touches>>

-----------------------------------------------------------------------------
(* Time, Systems Manager, RDS and their users *)

\* As of when the window of an execution is opened: of one that lasts more than a
\* day with its margin, as of the midnight before.
OpenedAt(x) ==
    LET begin == x.begin - Margin
    IN  IF x.length + Margin > DayLength THEN begin - TimeOf(begin) ELSE begin

\* History: the cycle of the last interval before b was told of the execution of w
\* at b and had no other execution of w under way.
Knowable(w, b) ==
    /\ changed[w] < b - interval
    /\ \A x \in planned[w] : x = [begin |-> b, length |-> plan[w].length]
                             \/ Over(x) <= b - interval \/ OpenedAt(x) >= b

Begun(b) ==
    {[window |-> w, end |-> b + plan[w].length] :
        w \in {v \in Windows : plan[v] # NoPlan /\ b \in plan[v].begins /\ Knowable(v, b)}}

Tick ==
    /\ ~due /\ now < Horizon
    /\ now' = now + 1
    /\ due' = ((now + 1) % interval = 0)
    /\ open' = {x \in open : now + 1 < x.end} \union Begun(now + 1)
    /\ changed' = [w \in Windows |-> IF changed[w] < now + 1 - interval THEN 0 ELSE changed[w]]
    /\ UNCHANGED <<given, plan, table, planned, instanceVars, bounds>>

\* A window is rescheduled, deleted, disabled or enabled, or the schedule names it
\* no more, or again.
Replan ==
    /\ edits < MaxEdits
    /\ edits' = edits + 1
    /\ kind = "ec2"
    /\ \E w \in Windows, p \in Plans \union {NoPlan} :
        /\ p # plan[w]
        /\ plan' = [plan EXCEPT ![w] = p]
        /\ changed' = [changed EXCEPT ![w] = now]
    /\ UNCHANGED <<given, clockVars, table, planned, instanceVars, touches, faults>>

\* A user, or RDS after seven days, starts or stops the instance.
Touch ==
    /\ touches < MaxTouches
    /\ Schedulable
    /\ status' = Called(IF status = "available" THEN "stop" ELSE "start")
    /\ synced' = FALSE
    /\ touched' = TRUE
    /\ touches' = touches + 1
    /\ UNCHANGED <<given, plan, clockVars, windowVars, stored, asked, at, edits, faults>>

\* RDS is busy with a running instance: it is modified, backed up, maintained.
Occupy ==
    /\ kind = "rds" /\ status = "available"
    /\ status' = "occupied"
    /\ Fault(TRUE)
    /\ UNCHANGED <<given, plan, clockVars, windowVars, stored, asked, at, synced, touched,
                   edits, touches>>

Settle ==
    /\ ~Schedulable
    /\ status' = IF status = "stopping" THEN "stopped" ELSE "available"
    /\ UNCHANGED <<given, plan, clockVars, windowVars, stored, asked, at, synced, touched, bounds>>

\* The behaviour ends with the last minute.
Done == ~due /\ now = Horizon /\ UNCHANGED vars

Next ==
    \/ Cycle \/ LostCycle \/ Tick
    \/ Replan \/ Touch \/ Occupy \/ Settle \/ Done

Spec == Init /\ [][Next]_vars

-----------------------------------------------------------------------------
(* Properties *)

\* The last minute of a day is lost to a window of two periods that ends with it.
LastMinute(x) == now + 1 = x.end /\ TimeOf(x.end) = 0

\* An EC2 instance runs from the begin to the end of each execution that the last
\* cycle before it could know of, though Systems Manager lists the next one by then, or
\* none at all, though handlers die and writes fail meanwhile, and whatever the
\* schedule itself asks for.
UpInWindow ==
    \A x \in open :
        definition.use # "no" /\ ~touched /\ ~LastMinute(x) => status = "available"

\* And only for such an execution, of which Systems Manager has told: no earlier than
\* its margin, or the midnight before for one beyond a day, and no later than its end,
\* over midnights and the ends of months.
UpOnlyForWindow ==
    kind = "ec2" /\ asked.window =>
        \E w \in Windows : \E x \in planned[w] : OpenedAt(x) <= at /\ at < Over(x)

\* The minutes since the margin of the preferred window began.
SinceEarly(p, minute) ==
    (DateOf(minute).weekday * DayLength + TimeOf(minute) - BeginsAt(p) + Early) % Week

\* The last minute of a day is lost if the window ends, or is opened, with it.
LostMinute(p, minute) ==
    /\ TimeOf(minute) = EndOfDay
    /\ p.end = 0 \/ (p.start - Early) % DayLength = EndOfDay

\* An RDS instance is asked to run from ten minutes before its preferred window to its
\* end, and only then: over midnight, on the day before, and from one week to the next.
PreferredAsWritten ==
    kind = "rds" /\ definition.use = "yes" /\ at # 0 /\ ~LostMinute(preferred, at) =>
        (asked.window <=> SinceEarly(preferred, at) < Lasting(preferred) + Early)

\* Once the schedule or a window answers for an instance it stays as they asked, also
\* through cycles that found it on its way or occupied, calls that failed and were
\* made again, and handlers that died.
FollowsWindows ==
    synced => /\ asked.state = "running" => status \notin {"stopping", "stopped"}
              /\ asked.state = "stopped" => status \in {"stopping", "stopped"}
=============================================================================
