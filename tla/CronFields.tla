----------------------------- MODULE CronFields -----------------------------
(***************************************************************************)
(* The months, monthdays and weekdays of a period: how the written         *)
(* expressions are read (cron/parser.py), which are accepted               *)
(* (cron/validator.py), which days they match                              *)
(* (cron/cron_to_running_period.py), and which of them the recurrence of a *)
(* scheduled scaling action can express (cron/asg.py).  Pure operators.    *)
(*                                                                         *)
(* A field is a set of expressions, one of which must match: a CronUnion,  *)
(* however nested, is the union of its parts.  A date is a record of its   *)
(* month, its day, its weekday (0 is Monday) and the length of its month.  *)
(***************************************************************************)
EXTENDS Integers, FiniteSets, FiniteSetsExt

(* Expressions: cron/expression.py *)

All == [kind |-> "all"]
Last == [kind |-> "last"]
Value(n) == [kind |-> "value", value |-> n]
NearestWeekday(day) == [kind |-> "nearest", value |-> day]
NthWeekday(weekday, n) == [kind |-> "nth", value |-> weekday, n |-> n]
LastWeekday(weekday) == [kind |-> "lastweekday", value |-> weekday]

\* A range from start, every interval values, to end: a value, Last or NoEnd.
NoEnd == [kind |-> "none"]
CronRange(start, end, interval) ==
    [kind |-> "range", start |-> start, end |-> end, interval |-> interval]

Expression ==
    [kind: {"all", "last"}]
        \union [kind: {"value", "nearest", "lastweekday"}, value: Nat]
        \union [kind: {"nth"}, value: Nat, n: Nat]
        \union [kind: {"range"}, start: Nat, interval: Nat,
                end: [kind: {"none", "last"}] \union [kind: {"value"}, value: Nat]]

\* The fields of a period.
Cron == [months: SUBSET Expression, monthdays: SUBSET Expression, weekdays: SUBSET Expression]

\* An expression as parsed from how it is written.  Of a step "a-b/n" the pattern
\* "^(.+)/.*(\d+).*$" keeps the last digit of n only, since the ".*" before the
\* digits is greedy.
Parse(expr) ==
    IF expr.kind = "range" THEN [expr EXCEPT !.interval = @ % 10] ELSE expr

-----------------------------------------------------------------------------
(* What the fields accept *)

\* A value, a whole range or everything: what all three fields accept.
Bounded(expr, lo, hi) ==
    \/ expr.kind = "all"
    \/ expr.kind = "value" /\ expr.value \in lo..hi
    \/ /\ expr.kind = "range"
       /\ expr.start \in lo..hi
       /\ \/ expr.end.kind = "none"
          \/ expr.end.kind = "value" /\ expr.end.value \in lo..hi

ValidMonths(field) == \A e \in field : Bounded(e, 1, 12)

ValidMonthdays(field) ==
    \A e \in field :
        \/ /\ Bounded(e, 1, 31)
           /\ e.kind = "range" /\ e.end.kind = "value" => e.start <= e.end.value
        \/ e.kind = "range" /\ e.start \in 1..31 /\ e.end.kind = "last"
        \/ e.kind = "last"
        \/ e.kind = "nearest" /\ e.value \in 1..31

ValidWeekdays(field) ==
    \A e \in field :
        \/ Bounded(e, 0, 6)
        \/ e.kind = "last"
        \/ e.kind = "nth" /\ e.value \in 0..6 /\ e.n \in 1..5
        \/ e.kind = "lastweekday" /\ e.value \in 0..6

-----------------------------------------------------------------------------
(* What the fields match *)

\* _cron_single_val_to_int of the end of a range
EndOf(expr, hi) == IF expr.end.kind = "value" THEN expr.end.value ELSE hi

\* Mutant of Discrete: a range that starts after its end is empty.
DiscreteNoWrap(expr, lo, hi) ==
    {x \in expr.start..EndOf(expr, hi) : x \in lo..hi /\ (x - expr.start) % expr.interval = 0}

\* _range_to_discrete_values: the loop, once will_wrap is false and while it is true.
Discrete(expr, lo, hi) ==
    LET end == EndOf(expr, hi)
        UpToEnd[pointer \in Nat] ==
            IF pointer > end
                THEN {}
                ELSE ({pointer} \intersect lo..hi) \union UpToEnd[pointer + expr.interval]
        Around[pointer \in Nat] ==
            ({pointer} \intersect lo..hi)
                \union IF pointer + expr.interval > hi
                           THEN UpToEnd[pointer + expr.interval - (hi - lo + 1)]
                           ELSE Around[pointer + expr.interval]
    IN  IF expr.start > hi THEN {}
        ELSE IF expr.start > end THEN Around[expr.start]
        ELSE UpToEnd[expr.start]

\* With an interval of zero the loop never ends.
Endless(expr, hi) == expr.kind = "range" /\ expr.interval = 0 /\ expr.start <= hi

Matches(expr, x, lo, hi) ==
    \/ expr.kind = "all"
    \/ expr.kind = "value" /\ x = expr.value
    \/ expr.kind = "last" /\ x = hi
    \/ expr.kind = "range" /\ ~Endless(expr, hi) /\ x \in Discrete(expr, lo, hi)

\* The weekday of a day of the month of date.
WeekdayOf(day, date) == (date.weekday + day - date.day) % 7

\* resolve_nearest_weekday_as_monthday: never in another month; it raises
\* for a day that the month does not have.
ResolveNearest(day, date) ==
    CASE WeekdayOf(day, date) = 5 -> IF day = 1 THEN day + 2 ELSE day - 1
      [] WeekdayOf(day, date) = 6 -> IF day = date.length THEN day - 2 ELSE day + 1
      [] OTHER -> day

Raises(expr, date) == expr.kind = "nearest" /\ expr.value > date.length

ResolveLast(weekday, date) == Max({d \in 1..date.length : WeekdayOf(d, date) = weekday})

ResolveFirst(weekday, date) ==
    LET offset == weekday - WeekdayOf(1, date)
    IN  1 + IF offset < 0 THEN offset + 7 ELSE offset

\* -1 in a month without such a day.
ResolveNth(weekday, n, date) ==
    LET day == ResolveFirst(weekday, date) + 7 * (n - 1)
    IN  IF day <= date.length THEN day ELSE -1

MonthsContain(field, date) == \E e \in field : Matches(e, date.month, 1, 12)

MonthdaysContain(field, date) ==
    \E e \in field :
        \/ Matches(e, date.day, 1, date.length)
        \/ e.kind = "nearest" /\ ~Raises(e, date) /\ date.day = ResolveNearest(e.value, date)

WeekdaysContain(field, date) ==
    \E e \in field :
        \/ Matches(e, date.weekday, 0, 6)
        \/ e.kind = "nth" /\ date.day = ResolveNth(e.value, e.n, date)
        \/ e.kind = "lastweekday" /\ date.day = ResolveLast(e.value, date)

\* CronRecurrenceExpression.contains: the intersection of all three.
Contains(cron, date) ==
    /\ MonthdaysContain(cron.monthdays, date)
    /\ MonthsContain(cron.months, date)
    /\ WeekdaysContain(cron.weekdays, date)

\* Some expression is not evaluated to an answer; whether it is evaluated at all,
\* when another one matches, depends on the order of the set it was read from.
MayFail(cron, date) ==
    \/ \E e \in cron.months : Endless(e, 12)
    \/ \E e \in cron.monthdays : Endless(e, date.length) \/ Raises(e, date)
    \/ \E e \in cron.weekdays : Endless(e, 6)

MustFail(cron, date) ==
    \/ (\E e \in cron.months : Endless(e, 12)) /\ ~MonthsContain(cron.months, date)
    \/ /\ \E e \in cron.monthdays : Endless(e, date.length) \/ Raises(e, date)
       /\ ~MonthdaysContain(cron.monthdays, date)
    \/ (\E e \in cron.weekdays : Endless(e, 6)) /\ ~WeekdaysContain(cron.weekdays, date)

-----------------------------------------------------------------------------
(* Recurrences of scheduled actions *)

\* What to_asg_expr_months, _monthdays and _weekdays convert without an exception.
\* They keep the meaning of what they convert: names for numbers, "L" for Last.
Convertible(cron) ==
    /\ \A e \in cron.monthdays :
          /\ e.kind # "nearest"
          /\ e.kind = "range" => ~(e.end.kind = "none" /\ e.interval = 1)
    /\ \A e \in cron.weekdays :
          /\ e.kind \notin {"nth", "lastweekday"}
          /\ e.kind = "range" => ~(e.end.kind = "none" /\ e.interval = 1)

Restricted(field) == \A e \in field : e.kind # "all"

-----------------------------------------------------------------------------
(* What the expressions say, as cron defines them: the reference that the  *)
(* operators above are compared with.                                      *)

\* How many steps of one lie between start and x, going round from hi to lo.
Distance(start, x, lo, hi) == (x - start) % (hi - lo + 1)

Says(expr, x, lo, hi) ==
    \/ expr.kind = "all"
    \/ expr.kind = "value" /\ x = expr.value
    \/ expr.kind = "last" /\ x = hi
    \/ /\ expr.kind = "range" /\ expr.interval > 0 /\ expr.start <= hi
       /\ LET end == Min({EndOf(expr, hi), hi})
          IN  /\ Distance(expr.start, x, lo, hi) <= Distance(expr.start, end, lo, hi)
              /\ Distance(expr.start, x, lo, hi) % expr.interval = 0

\* The Monday to Friday day of the month nearest to day.
IsNearest(day, date) ==
    LET Weekdays == {d \in 1..date.length : WeekdayOf(d, date) <= 4}
        Away(d) == Max({d - day, day - d})
    IN  /\ day <= date.length
        /\ date.day \in Weekdays
        /\ \A d \in Weekdays : Away(date.day) <= Away(d)

MonthdaySays(field, date) ==
    \E e \in field : \/ Says(e, date.day, 1, date.length)
                     \/ e.kind = "nearest" /\ IsNearest(e.value, date)

WeekdaySays(field, date) ==
    \E e \in field :
        \/ Says(e, date.weekday, 0, 6)
        \/ /\ e.kind = "nth" /\ date.weekday = e.value
           /\ date.day \in 7 * (e.n - 1) + 1 .. 7 * e.n
        \/ /\ e.kind = "lastweekday" /\ date.weekday = e.value
           /\ date.day + 7 > date.length

MonthSays(field, date) == \E e \in field : Says(e, date.month, 1, 12)

\* A period asks for all its fields, unlike a line of a crontab.
DateSays(cron, date) ==
    /\ MonthSays(cron.months, date)
    /\ MonthdaySays(cron.monthdays, date)
    /\ WeekdaySays(cron.weekdays, date)
=============================================================================
