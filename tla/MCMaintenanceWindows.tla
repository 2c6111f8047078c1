----------------------- MODULE MCMaintenanceWindows -----------------------
(***************************************************************************)
(* Values for MaintenanceWindows: 25 February (Thursday) to 5 March        *)
(* (Friday) 2021, with the end of a week and of a month on the 28th, and   *)
(* with days of eight minutes, of which 7 stands for 23:59, and one minute *)
(* for the ten before a window.                                            *)
(***************************************************************************)
EXTENDS MaintenanceWindows

Feb(day, weekday) == [month |-> 2, day |-> day, weekday |-> weekday, length |-> 28]
Mar(day, weekday) == [month |-> 3, day |-> day, weekday |-> weekday, length |-> 31]

MonthEnd == <<Feb(25, 3), Feb(26, 4), Feb(27, 5), Feb(28, 6),
              Mar(1, 0), Mar(2, 1), Mar(3, 2), Mar(4, 3), Mar(5, 4)>>

EveryDay == [months |-> {All}, monthdays |-> {All}, weekdays |-> {All}]

During(begin, end) == [begin |-> begin, end |-> end, cron |-> EveryDay, size |-> NoSize]

Plain == [enforced |-> FALSE, retainRunning |-> FALSE, stopNew |-> TRUE]
Enforcing == [Plain EXCEPT !.enforced = TRUE]
Retaining == [Plain EXCEPT !.retainRunning = TRUE]

Under(periods, flags, use) ==
    [periods |-> periods, override |-> "none", flags |-> flags, use |-> use]

\* A schedule for some minutes of each day, one that asks for nothing in the morning,
\* one that always asks for "stopped", and one that uses no windows.
Daily == Under(<<During(2, 4)>>, Plain, "yes")
Open == Under(<<During(5, NoTime)>>, Retaining, "unset")
Stopped == [Under(<<>>, Enforcing, "yes") EXCEPT !.override = "stopped"]
Without == Under(<<During(2, 4)>>, Plain, "no")

Written == {Daily, Open, Stopped, Without}

At(begins, length) == [begins |-> begins, length |-> length]

\* Windows of part of a day; one over the end of the month; one of a whole day; one
\* each day of a whole day, so that each begins as the one before ends.
Short == At({28, 34}, 3)
Night == At({30}, 4)
Daylong == At({28}, 8)
Nightly == At({24, 32}, 8)

Windowed == {Short, Night, Daylong, Nightly}

\* A window of a day or more, or two that overlap, to begin with.
OneWindow == CHOOSE w \in Windows : TRUE
Of(p, q) == [w \in Windows |-> IF w = OneWindow THEN p ELSE q]
Firsts == {Of(Daylong, NoPlan), Of(Nightly, NoPlan), Of(Short, Night)}

Pref(from, start, to, end) == [from |-> from, start |-> start, to |-> to, end |-> end]

\* Preferred windows within a day, over midnight, over the week's end, from and to
\* midnight, and opened on the day before.
Preferences == {Pref(6, 3, 6, 5), Pref(5, 6, 6, 2), Pref(6, 5, 0, 3), Pref(6, 4, 0, 0),
                Pref(0, 0, 0, 2), Pref(6, 7, 0, 6)}
=============================================================================
