----------------------------- MODULE MCConfigStore -----------------------------
(* ConfigStore with small tables, for TLC. *)
EXTENDS ConfigStore, TLC

CONSTANTS s1, s2, h, p1, a, b, k1, c1, c2

\* Templates of the stack: one period, two that begin with another, a new name, one refused.
Small == [valid |-> TRUE, name |-> s1, content |-> a, periods |-> <<a>>]
Grown == [valid |-> TRUE, name |-> s1, content |-> b, periods |-> <<b, a>>]
Renamed == [valid |-> TRUE, name |-> s2, content |-> a, periods |-> <<b>>]
Invalid == [valid |-> FALSE, name |-> s1, content |-> b, periods |-> <<b>>]

PeriodAsk(op, n) == [op |-> op, name |-> n, content |-> a]
ScheduleAsk(op, s, P) == [op |-> op, name |-> s, content |-> a, periods |-> P]

\* People's own schedule and period, and what they may try on a stack's.
Own ==
    {PeriodAsk("create-period", p1), PeriodAsk("update-period", p1),
     PeriodAsk("delete-period", p1), ScheduleAsk("create-schedule", h, {p1}),
     ScheduleAsk("update-schedule", h, {p1, <<s1, 1>>}),
     ScheduleAsk("delete-schedule", h, {})}
Foreign ==
    {PeriodAsk("update-period", <<s1, 1>>), PeriodAsk("delete-period", <<s1, 2>>),
     ScheduleAsk("update-schedule", s1, {<<s1, 1>>}), ScheduleAsk("delete-schedule", s1, {})}
Asks == Own \union Foreign

Deployed == {Small, Grown, Renamed, Invalid}
Parsed == Deployed \ {Invalid}
AlikeClients == Permutations(Clients)
=============================================================================
