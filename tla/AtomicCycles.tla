---------------------------- MODULE AtomicCycles ----------------------------
(***************************************************************************)
(* What scheduling promises of its instances, with nothing of how it is    *)
(* done: once in a while a cycle decides on an instance from the state     *)
(* stored for it, and its call and the new stored state are one step.      *)
(* There are no requests, caches, descriptions, call order or registry     *)
(* writes.  Between cycles the instances are their users'.                 *)
(*                                                                         *)
(* Two things of the code's cycle remain: what the schedule asks for may   *)
(* be out of date, and is left open here, and so may be what was seen of   *)
(* the instance, if somebody else has acted since.                         *)
(***************************************************************************)
EXTENDS SchedulingDecision

CONSTANTS Instances, Schedules, None, FlagsOf

VARIABLES
    schedule,   \* the schedule of each instance, or None
    power,      \* EC2 state of each instance
    owner,      \* who last changed the instance's power or type
    stored      \* the state stored for each instance

vars == <<schedule, power, owner, stored>>

Init ==
    /\ schedule \in [Instances -> Schedules \union {None}]
    /\ power \in [Instances -> {"running", "stopped"}]
    /\ owner = [i \in Instances |-> "user"]
    /\ stored = [i \in Instances |-> "unknown"]

PowerStates == {"pending", "running", "stopping", "stopped"}

Starts(i, who) ==
    /\ power[i] # "stopping"
    /\ IF power[i] = "stopped"
          THEN /\ power' = [power EXCEPT ![i] = "pending"]
               /\ owner' = [owner EXCEPT ![i] = who]
          ELSE UNCHANGED <<power, owner>>

Stops(i, who) ==
    /\ power[i] # "pending"
    /\ IF power[i] = "running"
          THEN /\ power' = [power EXCEPT ![i] = "stopping"]
               /\ owner' = [owner EXCEPT ![i] = who]
          ELSE UNCHANGED <<power, owner>>

Settle(i) ==
    /\ power[i] \in {"pending", "stopping"}
    /\ power' = [power EXCEPT ![i] = IF @ = "pending" THEN "running" ELSE "stopped"]
    /\ UNCHANGED <<schedule, owner, stored>>

\* People start, stop or modify an instance.
Use(i) ==
    /\ \/ Starts(i, "user")
       \/ Stops(i, "user")
       \/ power[i] = "stopped" /\ owner' = [owner EXCEPT ![i] = "user"] /\ UNCHANGED power
    /\ UNCHANGED <<schedule, stored>>

\* What a cycle may have seen of instance i.
MaySee(i, seen) ==
    owner[i] = "scheduler" => /\ seen = "running" => power[i] = "running"
                              /\ seen = "stopped" => power[i] = "stopped"

Store(i, state) == stored' = [stored EXCEPT ![i] = state]

\* The decision is carried out: the instance is on its way, or was seen to be as it
\* is to be, or is left alone.
Succeed(i, verdict, seen) ==
    /\ Store(i, verdict.stored)
    /\ \/ verdict.action = "start" /\ Starts(i, "scheduler")
       \/ verdict.action = "stop" /\ Stops(i, "scheduler")
       \/ /\ \/ verdict.action = "start" /\ seen = "running"
             \/ verdict.action = "stop" /\ seen = "stopped"
             \/ verdict.action = "nothing"
          /\ UNCHANGED <<power, owner>>

\* Or its call fails, which is stored.
Fail(i, verdict) ==
    /\ verdict.action \in {"start", "stop"}
    /\ Store(i, FailureState(verdict))
    /\ UNCHANGED <<power, owner>>

Cycle(i) ==
    /\ schedule[i] # None
    /\ \E desired \in ScheduleStates, window \in BOOLEAN, seen \in PowerStates :
          LET verdict == Decide(FlagsOf[schedule[i]], desired, window, stored[i], seen = "running")
          IN  MaySee(i, seen) /\ (Succeed(i, verdict, seen) \/ Fail(i, verdict))
    /\ UNCHANGED schedule

Next == \E i \in Instances : Settle(i) \/ Use(i) \/ Cycle(i)

Spec == Init /\ [][Next]_vars

-----------------------------------------------------------------------------
\* What the promise comes to: an instance is stored as retained only if somebody else
\* acted last, and otherwise the stored state is what the scheduler did to it last.
Truth ==
    \A i \in Instances :
        /\ stored[i] \in {"unknown", "retain-running"} => owner[i] = "user"
        /\ owner[i] = "scheduler" =>
              /\ stored[i] = "running" => power[i] \in {"pending", "running"}
              /\ stored[i] = "stopped" => power[i] \in {"stopping", "stopped"}
=============================================================================
