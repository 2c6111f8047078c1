--------------------------- MODULE MCEc2Scheduling ---------------------------
(***************************************************************************)
(* Values for the constants of Ec2Scheduling that a configuration file     *)
(* cannot write, for the runs on one or two instances.                     *)
(***************************************************************************)
EXTENDS Ec2Scheduling

Asks(state) == [state |-> state, size |-> None, window |-> FALSE]

\* A schedule that does not care, and one that runs and stops.
Unconcerned == {Asks("any")}
OnOff == {Asks("running"), Asks("stopped")}

\* The same with a maintenance window that opens while the schedule is stopped.
OnOffWindow == OnOff \union {[Asks("stopped") EXCEPT !.window = TRUE]}

Plain == [enforced |-> FALSE, retainRunning |-> FALSE, stopNew |-> TRUE]
Retaining == [Plain EXCEPT !.retainRunning = TRUE]
Enforcing == [Plain EXCEPT !.enforced = TRUE]

Adopting == [Retaining EXCEPT !.stopNew = FALSE]

AllPlain == [s \in Schedules |-> Plain]
AllEnforcing == [s \in Schedules |-> Enforcing]

\* Two schedules of different kinds, one instance under each.
OtherSchedule == CHOOSE s \in Schedules : s # (CHOOSE t \in Schedules : TRUE)
RetainingAndEnforcing == [s \in Schedules |-> IF s = OtherSchedule THEN Enforcing ELSE Retaining]
AdoptingAndPlain == [s \in Schedules |-> IF s = OtherSchedule THEN Plain ELSE Adopting]

NoPreference == [i \in Instances |-> <<>>]

\* Every instance would rather be of the first type, and may be of the others.
PreferenceOrder == CHOOSE q \in [1..Cardinality(Sizes) -> Sizes] :
                       \A j, k \in DOMAIN q : q[j] = q[k] => j = k
InOrder == [i \in Instances |-> PreferenceOrder]

\* A schedule whose periods ask for an instance type (period@type).
OneSize == PreferenceOrder[1]
SizedOrOff == {[Asks("running") EXCEPT !.size = OneSize], Asks("stopped")}

\* People retag one of the instances, at will or to another schedule.
OneInstance == CHOOSE i \in Instances : TRUE
RetagOne == {OneInstance} \X (Schedules \union {None})
RetagToOther == {OneInstance} \X {OtherSchedule}

OneSchedule == CHOOSE s \in Schedules : TRUE

\* All instances under one schedule, or each under any.
AllTagged == {[i \in Instances |-> OneSchedule]}
AnyTags == [Instances -> Schedules]
=============================================================================
