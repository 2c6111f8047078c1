------------------------- MODULE SchedulingDecision -------------------------
(***************************************************************************)
(* What one scheduling cycle asks of one EC2 or RDS instance, and what it  *)
(* writes back to the registry: make_scheduling_decision in                *)
(* scheduling/scheduling_decision.py and the constructors of               *)
(* SchedulingResult in scheduling/scheduling_result.py.  Pure operators:   *)
(* the modules of the schedulers instantiate no state from here.           *)
(***************************************************************************)

\* ScheduleState: what a schedule asks for at an instant.
ScheduleStates == {"running", "any", "stopped"}

\* InstanceState, less the two states only an AutoScaling group's record takes
\* (configured, configuration_failed) and stopped_for_resize, which no code writes.
InstanceStates == {"running", "any", "stopped", "unknown", "retain-running",
                   "start_failed", "stop_failed"}

RequestedActions == {"start", "stop", "resize", "nothing"}

\* The schedule attributes the decision reads.
Flags == [enforced: BOOLEAN, retainRunning: BOOLEAN, stopNew: BOOLEAN]

Decisions == [action: RequestedActions, stored: InstanceStates]

Verdict(action, stored) == [action |-> action, stored |-> stored]

\* Mutants of the two branches below: the retain flag forgotten, enforcement
\* forgotten, retaining whatever describe reported, starting what runs already.
DecideStoppedNoRetain(flags, stored) ==
    IF stored = "unknown" /\ ~flags.stopNew
        THEN Verdict("nothing", "stopped")
    ELSE IF flags.enforced \/ stored # "stopped"
        THEN Verdict("stop", "stopped")
    ELSE Verdict("nothing", "stopped")

DecideStoppedNotEnforced(flags, stored) ==
    IF \/ stored = "unknown" /\ ~flags.stopNew
       \/ stored = "retain-running" /\ flags.retainRunning
       \/ stored = "stopped"
        THEN Verdict("nothing", "stopped")
    ELSE Verdict("stop", "stopped")

DecideRunningUnseen(flags, stored, isRunning) ==
    IF flags.enforced
        THEN Verdict("start", "running")
    ELSE IF stored = "retain-running" \/ (flags.retainRunning /\ stored = "stopped")
        THEN Verdict("nothing", "retain-running")
    ELSE IF stored # "running"
        THEN Verdict("start", "running")
    ELSE Verdict("nothing", "running")

DecideRunningAlways(flags, stored, isRunning) ==
    IF /\ ~flags.enforced
       /\ stored = "retain-running" \/ (flags.retainRunning /\ stored = "stopped" /\ isRunning)
        THEN Verdict("nothing", "retain-running")
    ELSE Verdict("start", "running")

\* The schedule asks for "stopped".
DecideStopped(flags, stored) ==
    IF stored = "unknown" /\ ~flags.stopNew
        THEN Verdict("nothing", "stopped")
    ELSE IF flags.enforced
        THEN Verdict("stop", "stopped")
    ELSE IF stored = "retain-running" /\ flags.retainRunning
        THEN Verdict("nothing", "stopped")
    ELSE IF stored # "stopped"
        THEN Verdict("stop", "stopped")
    ELSE Verdict("nothing", "stopped")

\* The schedule asks for "running"; isRunning is what describe reported.
DecideRunning(flags, stored, isRunning) ==
    IF flags.enforced
        THEN Verdict("start", "running")
    ELSE IF flags.retainRunning /\ stored = "stopped" /\ isRunning
        THEN Verdict("nothing", "retain-running")
    ELSE IF stored = "retain-running"
        THEN Verdict("nothing", "retain-running")
    ELSE IF stored # "running"     \* start_failed is one of these: it is retried
        THEN Verdict("start", "running")
    ELSE Verdict("nothing", "running")

\* make_scheduling_decision: window says that a maintenance window the schedule
\* uses is open; it takes precedence over the schedule's own state.
Decide(flags, desired, window, stored, isRunning) ==
    IF window
        THEN Verdict("start", "running")
    ELSE IF desired = "stopped"
        THEN DecideStopped(flags, stored)
    ELSE IF desired = "running"
        THEN DecideRunning(flags, stored, isRunning)
    ELSE Verdict("nothing", "any")

\* Mutants of FailureState: the action's name stored, success stored.
FailureStateNamesAction(decision) == decision.action
FailureStateIgnored(decision) == decision.stored

\* SchedulingResult.client_exception: the state stored when the call for a
\* decision failed.  A failed resize keeps the decision's own state.
FailureState(decision) ==
    IF decision.action = "start" THEN "start_failed"
    ELSE IF decision.action = "stop" THEN "stop_failed"
    ELSE decision.stored
=============================================================================
