--------------------------- MODULE MCAsgScheduling ---------------------------
(***************************************************************************)
(* Values for the constants of AsgScheduling that a configuration file     *)
(* cannot write.                                                           *)
(***************************************************************************)
EXTENDS AsgScheduling

Between(b, e) == [begin |-> b, end |-> e]
OnePeriod == CHOOSE p \in Periods : TRUE
T1 == CHOOSE t \in Times : TRUE
T2 == CHOOSE t \in Times : t # T1

\* Definitions of a schedule: one period, the same at another time, and one that
\* scheduled actions cannot express.
Office == [p \in {OnePeriod} |-> Between(T1, T2)]
Late == [p \in {OnePeriod} |-> Between(T2, T1)]
Nth == [p \in Periods |-> Between(T1, T1)]

Two == {Office, Late}
WithNth == Two \union {Nth}
OnlyNth == {Nth}

\* People edit the schedule once; or by way of a definition that cannot be expressed,
\* or of none.
Edited == {<<Office, Late>>}
ByDetours == {<<Office, Nth>>, <<Nth, Late>>, <<Office, None>>, <<None, Late>>}

AllOffice == [s \in Schedules |-> Office]
OneSchedule == CHOOSE s \in Schedules : TRUE
AllTagged == [g \in Groups |-> OneSchedule]
NoMeta == [g \in Groups |-> None]
OneSize == CHOOSE z \in Sizes : TRUE
AllMeta == [g \in Groups |-> OneSize]
=============================================================================
