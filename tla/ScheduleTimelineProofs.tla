----------------------- MODULE ScheduleTimelineProofs -----------------------
(***************************************************************************)
(* Theorems about ScheduleTimeline, for any schedules, calendar, interval  *)
(* and acts of users.                                                      *)
(***************************************************************************)
EXTENDS ScheduleTimeline, WellFoundedInduction, TLAPS

-----------------------------------------------------------------------------
(* Answers *)

\* A set of naturals has a least element.
LEMMA LeastNatural ==
    ASSUME NEW T \in SUBSET Nat, T # {}
    PROVE  \E m \in T : \A k \in T : m <= k
<1>1. PICK m \in T : \A k \in T : <<k, m>> \notin OpToRel(<, Nat)
  BY NatLessThanWellFounded, WFMin, Zenon
<1>2. \A k \in T : ~(k < m)
  BY <1>1 DEF OpToRel
<1>3. QED
  BY <1>2

\* get_nearest_running_period returns one of the running periods, and none of them
\* began later: whatever periods run together, with or without begin times.
LEMMA NearestIsRunning ==
    ASSUME NEW periods, NEW running \in SUBSET Nat, running # {},
           \A j \in running : periods[j].begin \in Times
    PROVE  LET nearest == NearestRunning(periods, running)
           IN  /\ nearest \in running
               /\ \A j \in running : periods[j].begin <= periods[nearest].begin
<1> DEFINE Before(i) == DayLength - periods[i].begin
           Latest(i) ==
               \A j \in running :
                  \/ periods[j].begin < periods[i].begin
                  \/ periods[j].begin = periods[i].begin /\ i <= j
<1>1. DayLength \in Nat
  BY TimelineAssumption
<1>2. \A j \in running : periods[j].begin \in Int /\ Before(j) \in Nat
  BY <1>1 DEF Times, TimesOfDay, NoTime
<1>3. PICK l \in running : \A j \in running : Before(l) <= Before(j)
  <2> DEFINE T == {Before(j) : j \in running}
  <2>1. T \in SUBSET Nat /\ T # {}
    BY <1>2
  <2>2. PICK m \in T : \A k \in T : m <= k
    BY <2>1, LeastNatural
  <2>3. QED
    BY <2>2
<1>4. \A j \in running : periods[j].begin <= periods[l].begin
  BY <1>1, <1>2, <1>3
<1>5. PICK i \in running : /\ periods[i].begin = periods[l].begin
                           /\ \A j \in running :
                                 periods[j].begin = periods[l].begin => i <= j
  <2> DEFINE T == {j \in running : periods[j].begin = periods[l].begin}
  <2>1. T \in SUBSET Nat /\ T # {}
    OBVIOUS
  <2>2. QED
    BY <2>1, LeastNatural
<1>6. Latest(i)
  <2> SUFFICES ASSUME NEW j \in running
               PROVE  \/ periods[j].begin < periods[i].begin
                      \/ periods[j].begin = periods[i].begin /\ i <= j
    OBVIOUS
  <2>1. periods[j].begin <= periods[i].begin /\ periods[j].begin \in Int /\ periods[i].begin \in Int
    BY <1>2, <1>4, <1>5
  <2>2. QED
    BY <2>1, <1>5
<1> DEFINE nearest == NearestRunning(periods, running)
<1>7. nearest \in running /\ Latest(nearest)
  BY <1>6, Zenon DEF NearestRunning
<1> HIDE DEF nearest
<1>8. ASSUME NEW j \in running PROVE periods[j].begin <= periods[nearest].begin
  BY <1>2, <1>7
<1>9. QED
  BY <1>7, <1>8 DEF nearest

\* An answer that names a size asks for running.
Sensible(answer) == answer \in Answers /\ (answer.state # "running" => answer.size = NoSize)

\* get_desired_state answers with one of the three states, and with a size of some
\* period if any, for every schedule that can be written.
LEMMA AnswersAreSensible ==
    ASSUME NEW d \in Definitions, NEW minute
    PROVE  Sensible(DesiredState(ToInstanceSchedule(d), minute))
<1> DEFINE s == ToInstanceSchedule(d)
<1>1. d \in Definition
  BY TimelineAssumption
<1>2. /\ DOMAIN s.periods = DOMAIN d.periods
      /\ \A i \in DOMAIN s.periods : /\ s.periods[i].size = d.periods[i].size
                                     /\ s.periods[i].begin = d.periods[i].begin
  <2>1. s.periods = [i \in DOMAIN d.periods |-> ToRunningPeriod(d.periods[i])]
    BY <1>1 DEF ToInstanceSchedule, Definition
  <2>2. \A i \in DOMAIN d.periods : d.periods[i] \in Period
    BY <1>1 DEF Definition
  <2>3. \A i \in DOMAIN d.periods :
            /\ ToRunningPeriod(d.periods[i]).size = d.periods[i].size
            /\ ToRunningPeriod(d.periods[i]).begin = d.periods[i].begin
    BY <2>2 DEF ToRunningPeriod, Period
  <2> QED BY <2>1, <2>3
<1>3. \A i \in DOMAIN s.periods : /\ s.periods[i].size \in Sizes \union {NoSize}
                                  /\ s.periods[i].begin \in Times
  <2>1. \A i \in DOMAIN d.periods : d.periods[i] \in Period
    BY <1>1 DEF Definition
  <2> QED BY <1>2, <2>1 DEF Period
<1>4. s.override \in {"none", "running", "stopped"}
  BY <1>1 DEF ToInstanceSchedule, Definition
<1>5. DOMAIN s.periods \subseteq Nat
  BY <1>1, <1>2 DEF Definition
<1>6. ASSUME NEW m PROVE Sensible(StateAt(s, m))
  <2> DEFINE In(state) == {i \in DOMAIN s.periods : PeriodState(s.periods[i], m) = state}
             Nearest == NearestRunning(s.periods, In("running"))
  <2>1. StateAt(s, m) =
            CASE s.override # "none" -> Answer(s.override, NoSize)
              [] s.override = "none" /\ In("running") # {} ->
                    Answer("running", s.periods[Nearest].size)
              [] s.override = "none" /\ In("running") = {} /\ In("any") # {} ->
                    Answer("any", NoSize)
              [] OTHER -> Answer("stopped", NoSize)
    BY DEF StateAt
  <2>2. In("running") # {} => s.periods[Nearest].size \in Sizes \union {NoSize}
    <3> SUFFICES ASSUME In("running") # {} PROVE Nearest \in In("running")
      BY <1>3
    <3>1. In("running") \in SUBSET Nat
      BY <1>5
    <3>2. \A j \in In("running") : s.periods[j].begin \in Times
      BY <1>3
    <3> HIDE DEF In
    <3>3. QED
      BY <3>1, <3>2, NearestIsRunning
  <2> HIDE DEF s, In, Nearest
  <2>3. \A x \in {"stopped", "any", "running"} : Sensible(Answer(x, NoSize))
    BY DEF Sensible, Answers, Answer, ScheduleStates
  <2>4. In("running") # {} => Sensible(Answer("running", s.periods[Nearest].size))
    BY <2>2 DEF Sensible, Answers, Answer, ScheduleStates
  <2>5. QED
    BY <1>4, <2>1, <2>3, <2>4
<1> HIDE DEF s
<1>7. Sensible(DesiredState(s, minute))
  BY <1>6 DEF DesiredState
<1>8. QED
  BY <1>7 DEF s

-----------------------------------------------------------------------------
(* Types *)

\* A decision stores a state and asks for an action.
LEMMA DecisionTypes ==
    ASSUME NEW flags \in Flags, NEW state \in ScheduleStates, NEW old \in InstanceStates,
           NEW isRunning \in BOOLEAN
    PROVE  Decide(flags, state, FALSE, old, isRunning) \in Decisions
  BY DEF Decide, DecideStopped, DecideRunning, Verdict, Decisions, RequestedActions,
         InstanceStates

\* The rules of a group start or stop it.
LEMMA FiredTypes == ASSUME NEW s, NEW minute PROVE Fired(s, minute) \subseteq BOOLEAN
<1>1. ASSUME NEW period, NEW a \in Actions(period) PROVE a.up \in BOOLEAN
  <2>1. \/ a = [at |-> period.begin, up |-> TRUE, cron |-> period.cron]
        \/ a = [at |-> period.end, up |-> FALSE, cron |-> period.cron]
    BY DEF Actions
  <2>2. a.up = TRUE \/ a.up = FALSE
    BY <2>1
  <2>3. QED
    BY <2>2, Zenon
<1>2. QED
  BY <1>1 DEF Fired

\* A cycle keeps the types.
LEMMA CycleTypes == TypeOK /\ Cycle => TypeOK'
<1> SUFFICES ASSUME TypeOK, Cycle PROVE TypeOK'
  OBVIOUS
<1> DEFINE answer == DesiredState(schedule, now)
           verdict == VerdictOn(answer)
<1>1. Sensible(answer)
  BY AnswersAreSensible DEF TypeOK, schedule
<1> HIDE DEF answer
<1>2. verdict \in Decisions
  <2>1. definition.flags \in Flags
    BY TimelineAssumption DEF TypeOK, Definition
  <2>2. Decide(definition.flags, answer.state, FALSE, stored, up) \in Decisions
    BY <1>1, <2>1, DecisionTypes DEF TypeOK, Sensible, Answers
  <2>3. Verdict("resize", "running") \in Decisions
    BY DEF Verdict, Decisions, RequestedActions, InstanceStates
  <2>4. QED
    BY <2>2, <2>3 DEF VerdictOn
<1>3. verdict.action = "resize" => Resizes(answer)
  BY DEF VerdictOn, Decide, DecideStopped, DecideRunning, Verdict
<1> HIDE DEF verdict
<1>4. stored' \in InstanceStates /\ asked' \in Answers
  BY <1>1, <1>2 DEF Cycle, Decisions, Sensible, answer, verdict
<1>5. up' \in BOOLEAN
  BY DEF TypeOK, Cycle
<1>6. size' \in Sizes
  BY <1>1, <1>3 DEF TypeOK, Cycle, Resizes, Sensible, Answers, answer, verdict
<1>7. synced' \in BOOLEAN
  BY DEF TypeOK, Cycle, Governs
<1>8. at' \in Nat
  BY TimelineAssumption DEF TypeOK, Cycle
<1>9. QED
  BY <1>4, <1>5, <1>6, <1>7, <1>8 DEF TypeOK, Cycle, given, groupVars

LEMMA NextTypes == TypeOK /\ [Next]_vars => TypeOK'
<1> SUFFICES ASSUME TypeOK, [Next]_vars PROVE TypeOK'
  OBVIOUS
<1> USE DEF TypeOK, vars, given, instanceVars, cycleVars, groupVars
<1>1. CASE Cycle
  BY <1>1, CycleTypes
<1>2. CASE FailedCycle
  BY <1>2 DEF FailedCycle
<1>3. CASE Tick
  <2>1. now' \in Start..Horizon /\ due' \in BOOLEAN
    BY <1>3, TimelineAssumption DEF Tick
  <2>2. group' \in BOOLEAN /\ fired' \in BOOLEAN
    BY <1>3, FiredTypes DEF Tick
  <2>3. QED
    BY <1>3, <2>1, <2>2 DEF Tick
<1>4. CASE Touch
  <2>1. touches' \in 0..MaxTouches
    BY <1>4, TimelineAssumption DEF Touch
  <2>2. up' \in BOOLEAN /\ synced' \in BOOLEAN
    BY <1>4, Zenon DEF Touch
  <2>3. QED
    BY <1>4, <2>1, <2>2 DEF Touch
<1>5. CASE Done \/ UNCHANGED vars
  BY <1>5 DEF Done
<1>6. QED
  BY <1>1, <1>2, <1>3, <1>4, <1>5 DEF Next

LEMMA InitTypes == Init => TypeOK
<1>1. Start \in Start..Horizon /\ 0 \in 0..MaxTouches
  BY TimelineAssumption
<1>2. Init => {due, synced, fired} \subseteq BOOLEAN
  BY Zenon DEF Init
<1>3. QED
  BY <1>1, <1>2 DEF Init, TypeOK, InstanceStates

\* Every variable keeps its type.
THEOREM TypeCorrect == Spec => []TypeOK
<1>1. Init => TypeOK
  BY InitTypes
<1>2. QED
  BY <1>1, NextTypes, PTL DEF Spec

-----------------------------------------------------------------------------
(* The schedule answers for the instance *)

\* The stored state is what the last cycle asked for, or an instance retained
\* while running is asked for.
StoredIsAnswer ==
    /\ asked = NoAnswer => stored = "unknown" /\ ~synced
    /\ asked # NoAnswer =>
          /\ asked.state = "running" => stored \in {"running", "retain-running"}
          /\ asked.state # "running" => stored = asked.state

FollowInv == TypeOK /\ StoredIsAnswer /\ FollowsSchedule

\* A cycle that leaves the schedule answerable has the instance in the state asked
\* for: it acts on a transition, and an earlier one has acted if there is none.
LEMMA CycleFollows == FollowInv /\ Cycle => StoredIsAnswer' /\ FollowsSchedule'
<1> SUFFICES ASSUME FollowInv, Cycle PROVE StoredIsAnswer' /\ FollowsSchedule'
  OBVIOUS
<1> DEFINE answer == DesiredState(schedule, now)
           verdict == VerdictOn(answer)
<1>1. Sensible(answer) /\ answer # NoAnswer
  BY AnswersAreSensible, TimelineAssumption DEF FollowInv, TypeOK, schedule, Sensible
<1>2. /\ up' = CASE verdict.action \in {"start", "resize"} -> TRUE
                 [] verdict.action = "stop" -> FALSE
                 [] OTHER -> up
      /\ size' = IF verdict.action = "resize" THEN answer.size ELSE size
      /\ stored' = verdict.stored
      /\ asked' = answer
      /\ synced' = Governs(answer, verdict)
  BY DEF Cycle
<1> HIDE DEF answer
<1>3. StoredIsAnswer'
  <2>1. CASE Resizes(answer)
    BY <1>1, <1>2, <2>1 DEF StoredIsAnswer, VerdictOn, Verdict, Resizes
  <2>2. CASE ~Resizes(answer)
    <3>1. verdict = Decide(definition.flags, answer.state, FALSE, stored, up)
      BY <2>2 DEF VerdictOn
    <3>2. answer.state \in ScheduleStates
      BY <1>1 DEF Sensible, Answers
    <3> HIDE DEF verdict
    <3>3. /\ answer.state = "running" => verdict.stored \in {"running", "retain-running"}
          /\ answer.state # "running" => verdict.stored = answer.state
      BY <3>1, <3>2 DEF Decide, DecideStopped, DecideRunning, Verdict, ScheduleStates
    <3>4. QED
      BY <1>1, <1>2, <3>3 DEF StoredIsAnswer
  <2>3. QED
    BY <2>1, <2>2
<1>4. FollowsSchedule'
  <2> SUFFICES ASSUME synced' PROVE FollowsSchedule'
    BY DEF FollowsSchedule
  <2>1. CASE Resizes(answer)
    BY <1>1, <1>2, <2>1 DEF FollowsSchedule, VerdictOn, Verdict, Resizes
  <2>2. CASE ~Resizes(answer)
    <3>1. verdict = Decide(definition.flags, answer.state, FALSE, stored, up)
      BY <2>2 DEF VerdictOn
    <3>2. verdict.action # "resize"
      BY <3>1 DEF Decide, DecideStopped, DecideRunning, Verdict
    <3>3. answer.size # NoSize => size' = answer.size
      BY <1>1, <1>2, <2>2, <3>2 DEF Resizes, Sensible
    <3>4. Governs(answer, verdict)
      BY <1>2
    <3> HIDE DEF verdict
    <3>5. CASE answer.state = "running"
      <4>1. \/ verdict.action = "start"
            \/ verdict.action = "nothing" /\ stored = "running" /\ ~definition.flags.enforced
        BY <3>1, <3>4, <3>5 DEF Governs, Decide, DecideRunning, Verdict
      <4>2. CASE verdict.action = "start"
        BY <1>1, <1>2, <3>3, <3>5, <4>2 DEF FollowsSchedule
      <4>3. CASE verdict.action = "nothing" /\ stored = "running" /\ ~definition.flags.enforced
        <5>1. synced
          BY <3>2, <3>4, <3>5, <4>3 DEF Governs
        <5>2. asked # NoAnswer /\ asked.state = "running"
          BY <4>3, <5>1 DEF FollowInv, StoredIsAnswer
        <5>3. up
          BY <5>1, <5>2 DEF FollowInv, FollowsSchedule
        <5>4. QED
          BY <1>1, <1>2, <3>3, <3>5, <4>3, <5>3 DEF FollowsSchedule
      <4>4. QED
        BY <4>1, <4>2, <4>3
    <3>6. CASE answer.state = "stopped"
      <4>1. \/ verdict.action = "stop"
            \/ verdict.action = "nothing" /\ stored = "stopped" /\ ~definition.flags.enforced
        BY <3>1, <3>4, <3>6 DEF Governs, Decide, DecideStopped, Verdict
      <4>2. CASE verdict.action = "stop"
        BY <1>1, <1>2, <3>3, <3>6, <4>2 DEF FollowsSchedule
      <4>3. CASE verdict.action = "nothing" /\ stored = "stopped" /\ ~definition.flags.enforced
        <5>1. synced
          BY <3>2, <3>4, <3>6, <4>3 DEF Governs
        <5>2. asked # NoAnswer /\ asked.state = "stopped"
          BY <4>3, <5>1 DEF FollowInv, StoredIsAnswer, TypeOK, Answers, ScheduleStates
        <5>3. ~up
          BY <5>1, <5>2 DEF FollowInv, FollowsSchedule
        <5>4. QED
          BY <1>1, <1>2, <3>3, <3>6, <4>3, <5>3 DEF FollowsSchedule
      <4>4. QED
        BY <4>1, <4>2, <4>3
    <3>7. CASE answer.state = "any"
      BY <1>1, <1>2, <3>3, <3>7 DEF FollowsSchedule
    <3>8. QED
      BY <1>1, <3>5, <3>6, <3>7 DEF Sensible, Answers, ScheduleStates
  <2>3. QED
    BY <2>1, <2>2
<1>5. QED
  BY <1>3, <1>4

\* From its first transition after a user's act on, the schedule has the instance
\* in the state and of the type it asked for last: whatever the periods are, however
\* long the intervals, and whichever cycles fail.
THEOREM FollowsSafe == Spec => []FollowsSchedule
<1>1. Init => FollowInv
  BY InitTypes DEF Init, FollowInv, StoredIsAnswer, FollowsSchedule
<1>2. FollowInv /\ [Next]_vars => FollowInv'
  <2> SUFFICES ASSUME FollowInv, [Next]_vars PROVE StoredIsAnswer' /\ FollowsSchedule'
    BY NextTypes DEF FollowInv
  <2> USE DEF FollowInv, StoredIsAnswer, FollowsSchedule, vars, instanceVars, cycleVars
  <2>1. CASE Cycle
    BY <2>1, CycleFollows
  <2>2. CASE FailedCycle \/ Tick \/ Done \/ UNCHANGED vars
    BY <2>2 DEF FailedCycle, Tick, Done
  <2>3. CASE Touch
    BY <2>3 DEF Touch
  <2>4. QED
    BY <2>1, <2>2, <2>3 DEF Next
<1>3. FollowInv => FollowsSchedule
  BY DEF FollowInv
<1>4. QED
  BY <1>1, <1>2, <1>3, PTL DEF Spec

-----------------------------------------------------------------------------
(* What the loop over the values of a range computes *)

\* How the multiples of a step of one digit lie.
LEMMA Multiples ==
    ASSUME NEW k \in 1..9, NEW z \in Int
    PROVE  /\ (z - k) % k = 0 <=> z % k = 0
           /\ z % k = 0 /\ z > 0 => z >= k
           /\ 0 % k = 0
<1>1. CASE k = 1 BY <1>1
<1>2. CASE k = 2 BY <1>2
<1>3. CASE k = 3 BY <1>3
<1>4. CASE k = 4 BY <1>4
<1>5. CASE k = 5 BY <1>5
<1>6. CASE k = 6 BY <1>6
<1>7. CASE k = 7 BY <1>7
<1>8. CASE k = 8 BY <1>8
<1>9. CASE k = 9 BY <1>9
<1>10. QED
  BY <1>1, <1>2, <1>3, <1>4, <1>5, <1>6, <1>7, <1>8, <1>9

\* The two loops of Discrete, as equations for functions of the pointer.
IsUpToEnd(V, k, end, lo, hi) ==
    V = [pointer \in Nat |->
            IF pointer > end
                THEN {}
                ELSE ({pointer} \intersect lo..hi) \union V[pointer + k]]

IsAround(V, U, k, lo, hi) ==
    V = [pointer \in Nat |->
            ({pointer} \intersect lo..hi)
                \union IF pointer + k > hi THEN U[pointer + k - (hi - lo + 1)] ELSE V[pointer + k]]

\* Their values: every k-th from p on, up to the end; and before that, when the range
\* wraps around, up to hi.
TailFrom(p, k, end, lo, hi) == {x \in lo..hi : p <= x /\ x <= end /\ (x - p) % k = 0}

AroundFrom(p, k, end, lo, hi) ==
    {x \in lo..hi : \/ p <= x /\ (x - p) % k = 0
                    \/ LET y == x + (hi - lo + 1)
                       IN  x <= end /\ p + k <= y /\ (y - p) % k = 0}

LEMMA TailUnfolds ==
    ASSUME NEW k \in Nat, k \in 1..9, NEW end \in Nat, NEW lo \in Nat, NEW hi \in Nat, NEW p \in Nat
    PROVE  TailFrom(p, k, end, lo, hi) =
              IF p > end
                  THEN {}
                  ELSE ({p} \intersect lo..hi) \union TailFrom(p + k, k, end, lo, hi)
<1>1. ASSUME NEW x \in lo..hi
      PROVE  p <= x /\ x <= end /\ (x - p) % k = 0
                <=> p <= end /\ (x = p \/ (p + k <= x /\ x <= end /\ (x - (p + k)) % k = 0))
  <2>1. /\ x \in Int /\ x - p \in Int /\ (x - p) - k = x - (p + k)
        /\ x = p => x - p = 0
    OBVIOUS
  <2> DEFINE z == x - p
  <2>2. /\ (z - k) % k = 0 <=> z % k = 0
        /\ z % k = 0 /\ z > 0 => z >= k
        /\ 0 % k = 0
    BY <2>1, Multiples
  <2>3. QED
    BY <2>1, <2>2
<1>2. QED
  BY <1>1 DEF TailFrom

LEMMA AroundUnfolds ==
    ASSUME NEW k \in Nat, k \in 1..9, NEW end \in Nat, NEW lo \in Nat, NEW hi \in Nat,
           NEW p \in Nat,
           lo <= hi
    PROVE  AroundFrom(p, k, end, lo, hi) =
              ({p} \intersect lo..hi)
                  \union IF p + k > hi THEN TailFrom(p + k - (hi - lo + 1), k, end, lo, hi)
                                       ELSE AroundFrom(p + k, k, end, lo, hi)
<1> DEFINE span == hi - lo + 1
           First(q, x) == q <= x /\ (x - q) % k = 0
           Second(q, x) == x <= end /\ q + k <= x + span /\ ((x + span) - q) % k = 0
<1>1. ASSUME NEW x \in lo..hi
      PROVE  /\ First(p, x) <=> x = p \/ First(p + k, x)
             /\ p + k > hi => ~First(p + k, x)
             /\ p + k > hi => (Second(p, x) <=>
                                 /\ p + k - span <= x /\ x <= end
                                 /\ (x - (p + k - span)) % k = 0)
             /\ p + k <= hi => (Second(p, x) <=> Second(p + k, x))
  <2> DEFINE y == x - p
             z == (x + span) - p
  <2>1. /\ x \in Int /\ y \in Int /\ z \in Int /\ z - k \in Int
        /\ y - k = x - (p + k) /\ z - k = (x + span) - (p + k)
        /\ x - (p + k - span) = z - k
        /\ x = p <=> y = 0
    OBVIOUS
  <2>2. /\ (y - k) % k = 0 <=> y % k = 0
        /\ y % k = 0 /\ y > 0 => y >= k
        /\ 0 % k = 0
    BY <2>1, Multiples
  <2>3. /\ (z - k) % k = 0 <=> z % k = 0
        /\ (z - k) % k = 0 /\ z - k > 0 => z - k >= k
    <3>1. /\ (z - k) % k = 0 <=> z % k = 0
      BY <2>1, Multiples
    <3> DEFINE w == z - k
    <3>2. w % k = 0 /\ w > 0 => w >= k
      <4> HIDE DEF w
      <4> QED BY <2>1, Multiples DEF w
    <3> QED BY <3>1, <3>2
  <2> HIDE DEF y, z
  <2>4. First(p, x) <=> x = p \/ First(p + k, x)
    BY <2>1, <2>2 DEF y
  <2>5. p + k > hi => (Second(p, x) <=> /\ p + k - span <= x /\ x <= end
                                        /\ (x - (p + k - span)) % k = 0)
    BY <2>1, <2>3 DEF z
  <2>6. p + k <= hi => (Second(p, x) <=> Second(p + k, x))
    BY <2>1, <2>3 DEF z
  <2>7. QED
    BY <2>4, <2>5, <2>6
<1> DEFINE Rest(x) == p + k - span <= x /\ x <= end /\ (x - (p + k - span)) % k = 0
<1>2. /\ AroundFrom(p, k, end, lo, hi) = {x \in lo..hi : First(p, x) \/ Second(p, x)}
      /\ AroundFrom(p + k, k, end, lo, hi) = {x \in lo..hi : First(p + k, x) \/ Second(p + k, x)}
      /\ TailFrom(p + k - (hi - lo + 1), k, end, lo, hi) = {x \in lo..hi : Rest(x)}
  BY DEF AroundFrom, TailFrom
<1> HIDE DEF First, Second, Rest
<1>3. CASE p + k > hi
  <2>1. \A x \in lo..hi : (First(p, x) \/ Second(p, x)) <=> (x = p \/ Rest(x))
    BY <1>1, <1>3 DEF Rest
  <2> QED BY <2>1, <1>2, <1>3
<1>4. CASE ~(p + k > hi)
  <2>1. \A x \in lo..hi : (First(p, x) \/ Second(p, x))
                            <=> (x = p \/ First(p + k, x) \/ Second(p + k, x))
    BY <1>1, <1>4
  <2> QED BY <2>1, <1>2, <1>4
<1>5. QED
  BY <1>3, <1>4

\* What solves the equations has these values: a pointer at which it did not would be
\* followed by a later one, and none beyond the end is such a pointer.
LEMMA TailSolves ==
    ASSUME NEW k \in Nat, k \in 1..9, NEW end \in Nat, NEW lo \in Nat, NEW hi \in Nat
    PROVE  /\ \E V : IsUpToEnd(V, k, end, lo, hi)
           /\ \A V : IsUpToEnd(V, k, end, lo, hi)
                        => \A p \in Nat : V[p] = TailFrom(p, k, end, lo, hi)
<1> DEFINE Rest(p) == TailFrom(p, k, end, lo, hi)
<1>1. ASSUME NEW p \in Nat
      PROVE  Rest(p) = IF p > end THEN {} ELSE ({p} \intersect lo..hi) \union Rest(p + k)
  BY TailUnfolds
<1> HIDE DEF Rest
<1>2. \E V : IsUpToEnd(V, k, end, lo, hi)
  <2> DEFINE T == [p \in Nat |-> Rest(p)]
  <2>1. \A p \in Nat : p + k \in Nat
    OBVIOUS
  <2>2. T = [p \in Nat |-> IF p > end THEN {} ELSE ({p} \intersect lo..hi) \union T[p + k]]
    BY <1>1, <2>1
  <2> HIDE DEF T
  <2>3. QED
    BY <2>2 DEF IsUpToEnd
<1>3. ASSUME NEW V, IsUpToEnd(V, k, end, lo, hi), NEW p \in Nat, V[p] # Rest(p)
      PROVE  FALSE
  <2>1. \A q \in Nat : V[q] = IF q > end THEN {} ELSE ({q} \intersect lo..hi) \union V[q + k]
    BY <1>3 DEF IsUpToEnd
  <2> DEFINE Bad == {q \in Nat : V[q] # Rest(q)}
             Left == {end - q : q \in Bad}
  <2>2. \A q \in Bad : q \in Nat /\ q <= end /\ q + k \in Bad
    <3> SUFFICES ASSUME NEW q \in Bad PROVE q <= end /\ q + k \in Bad
      OBVIOUS
    <3>1. q \in Nat /\ q + k \in Nat /\ V[q] # Rest(q)
      OBVIOUS
    <3>2. CASE q > end
      <4>1. V[q] = {} /\ Rest(q) = {}
        BY <3>1, <3>2, <1>1, <2>1, Zenon
      <4> QED BY <3>1, <4>1
    <3>3. CASE ~(q > end)
      <4>1. /\ V[q] = ({q} \intersect lo..hi) \union V[q + k]
            /\ Rest(q) = ({q} \intersect lo..hi) \union Rest(q + k)
        BY <3>1, <3>3, <1>1, <2>1, Zenon
      <4>2. V[q + k] # Rest(q + k)
        BY <3>1, <4>1, Zenon
      <4> QED BY <3>1, <3>3, <4>2
    <3> QED BY <3>2, <3>3
  <2>3. p \in Bad
    BY <1>3
  <2> HIDE DEF Bad
  <2>4. Left \in SUBSET Nat /\ Left # {}
    BY <2>2, <2>3
  <2>5. PICK m \in Left : \A n \in Left : m <= n
    <3> HIDE DEF Left
    <3> QED BY <2>4, LeastNatural
  <2>6. PICK q \in Bad : m = end - q
    BY <2>5
  <2>7. q \in Nat /\ q + k \in Bad /\ end - (q + k) \in Left
    BY <2>2, <2>6
  <2>8. m <= end - (q + k)
    BY <2>5, <2>7
  <2>9. QED
    BY <2>6, <2>7, <2>8
<1>4. QED
  BY <1>2, <1>3 DEF Rest

LEMMA AroundSolves ==
    ASSUME NEW k \in Nat, k \in 1..9, NEW end \in Nat, NEW lo \in Nat, NEW hi \in Nat, lo <= hi,
           NEW U, IsUpToEnd(U, k, end, lo, hi)
    PROVE  /\ \E V : IsAround(V, U, k, lo, hi)
           /\ \A V : IsAround(V, U, k, lo, hi)
                        => \A p \in Nat : V[p] = AroundFrom(p, k, end, lo, hi)
<1> DEFINE Around(p) == AroundFrom(p, k, end, lo, hi)
<1>1. ASSUME NEW p \in Nat
      PROVE  /\ p + k \in Nat
             /\ Around(p) = ({p} \intersect lo..hi)
                              \union IF p + k > hi THEN U[p + k - (hi - lo + 1)]
                                                   ELSE Around(p + k)
  <2>1. p + k > hi => p + k - (hi - lo + 1) \in Nat
    OBVIOUS
  <2>0. \A q \in Nat : U[q] = TailFrom(q, k, end, lo, hi)
    BY TailSolves
  <2>2. p + k > hi => U[p + k - (hi - lo + 1)] = TailFrom(p + k - (hi - lo + 1), k, end, lo, hi)
    BY <2>0, <2>1
  <2>3. Around(p) = ({p} \intersect lo..hi)
                       \union IF p + k > hi THEN TailFrom(p + k - (hi - lo + 1), k, end, lo, hi)
                                            ELSE Around(p + k)
    BY AroundUnfolds
  <2> HIDE DEF Around
  <2>4. QED
    BY <2>2, <2>3
<1> HIDE DEF Around
<1>2. \E V : IsAround(V, U, k, lo, hi)
  <2> DEFINE T == [p \in Nat |-> Around(p)]
  <2>1. T = [p \in Nat |-> ({p} \intersect lo..hi)
                              \union IF p + k > hi THEN U[p + k - (hi - lo + 1)] ELSE T[p + k]]
    BY <1>1
  <2> HIDE DEF T
  <2>2. QED
    BY <2>1 DEF IsAround
<1>3. ASSUME NEW V, IsAround(V, U, k, lo, hi), NEW p \in Nat, V[p] # Around(p)
      PROVE  FALSE
  <2> DEFINE Unfolded(q) == ({q} \intersect lo..hi)
                              \union IF q + k > hi THEN U[q + k - (hi - lo + 1)] ELSE V[q + k]
  <2>1. \A q \in Nat : V[q] = Unfolded(q)
    <3>1. V = [q \in Nat |-> Unfolded(q)]
      BY <1>3, Zenon DEF IsAround
    <3> HIDE DEF Unfolded
    <3> QED BY <3>1
  <2> DEFINE Bad == {q \in Nat : V[q] # Around(q)}
             Left == {hi - q : q \in Bad}
  <2>2. \A q \in Bad : q \in Nat /\ q <= hi /\ q + k \in Bad
    <3> SUFFICES ASSUME NEW q \in Bad PROVE q <= hi /\ q + k \in Bad
      OBVIOUS
    <3>1. q \in Nat /\ q + k \in Nat /\ V[q] # Around(q)
      OBVIOUS
    <3>2. q + k > hi => V[q] = Around(q)
      BY <3>1, <1>1, <2>1, Zenon
    <3>3. ~(q + k > hi) => V[q + k] # Around(q + k)
      <4> SUFFICES ASSUME ~(q + k > hi), V[q + k] = Around(q + k) PROVE V[q] = Around(q)
        BY <3>1
      <4> QED BY <3>1, <1>1, <2>1, Zenon
    <3> QED BY <3>1, <3>2, <3>3
  <2>3. p \in Bad
    BY <1>3
  <2> HIDE DEF Bad
  <2>4. Left \in SUBSET Nat /\ Left # {}
    BY <2>2, <2>3
  <2>5. PICK m \in Left : \A n \in Left : m <= n
    <3> HIDE DEF Left
    <3> QED BY <2>4, LeastNatural
  <2>6. PICK q \in Bad : m = hi - q
    BY <2>5
  <2>7. q \in Nat /\ q + k \in Bad /\ hi - (q + k) \in Left
    BY <2>2, <2>6
  <2>8. m <= hi - (q + k)
    BY <2>5, <2>7
  <2>9. QED
    BY <2>6, <2>7, <2>8
<1>4. QED
  BY <1>2, <1>3 DEF Around

\* _range_to_discrete_values returns, for every range with a step of one digit, the values
\* up to the end in steps from the start, and if the end comes before the start, those
\* from the start round to the end.
LEMMA DiscreteValues ==
    ASSUME NEW expr, NEW lo \in Nat, NEW hi \in Nat, lo <= hi,
           expr.start \in Nat, expr.interval \in 1..9, EndOf(expr, hi) \in Nat
    PROVE  Discrete(expr, lo, hi) =
              IF expr.start > hi THEN {}
              ELSE IF expr.start > EndOf(expr, hi)
                  THEN AroundFrom(expr.start, expr.interval, EndOf(expr, hi), lo, hi)
              ELSE TailFrom(expr.start, expr.interval, EndOf(expr, hi), lo, hi)
<1> DEFINE k == expr.interval
           end == EndOf(expr, hi)
           U == CHOOSE V : IsUpToEnd(V, k, end, lo, hi)
           W == CHOOSE V : IsAround(V, U, k, lo, hi)
<1>1. Discrete(expr, lo, hi) = IF expr.start > hi THEN {}
                               ELSE IF expr.start > end THEN W[expr.start]
                               ELSE U[expr.start]
  BY Zenon DEF Discrete, IsUpToEnd, IsAround
<1>2. k \in Nat /\ k \in 1..9 /\ end \in Nat
  OBVIOUS
<1> HIDE DEF k, end
<1>3. IsUpToEnd(U, k, end, lo, hi)
  BY <1>2, TailSolves
<1>4. \A p \in Nat : U[p] = TailFrom(p, k, end, lo, hi)
  <2> HIDE DEF U
  <2> QED BY <1>2, <1>3, TailSolves
<1> HIDE DEF U
<1>5. IsAround(W, U, k, lo, hi)
  BY <1>2, <1>3, AroundSolves
<1> HIDE DEF W
<1>6. ASSUME NEW p \in Nat PROVE W[p] = AroundFrom(p, k, end, lo, hi)
  BY <1>2, <1>3, <1>5, AroundSolves
<1>7. QED
  BY <1>1, <1>4, <1>6 DEF k, end

-----------------------------------------------------------------------------
(* Expressions match the days they say *)

\* The remainder of what is within one turn of zero.
LEMMA WithinOneTurn ==
    ASSUME NEW n \in Nat, NEW z \in Int, -n < z, z < n
    PROVE  z % n = IF z >= 0 THEN z ELSE z + n
<1>1. n \in Nat \ {0} /\ z \div n \in Int /\ z % n \in 0..n - 1 /\ z = n * (z \div n) + (z % n)
  OBVIOUS
<1> DEFINE q == z \div n
<1>2. q >= 1 => n * q >= n
  BY <1>1
<1>3. q <= -2 => n * q <= -2 * n
  BY <1>1
<1>4. q = 0 \/ q = -1
  BY <1>1, <1>2, <1>3
<1>5. QED
  BY <1>1, <1>4

\* The parts that an expression of each kind has.
LEMMA ExpressionParts ==
    ASSUME NEW e \in Expression
    PROVE  /\ e.kind \in {"value", "nearest", "lastweekday", "nth"} => e.value \in Nat
           /\ e.kind = "nth" => e.n \in Nat
           /\ e.kind = "range" =>
                 /\ e.start \in Nat /\ e.interval \in Nat
                 /\ e.end.kind = "value" => e.end.value \in Nat
  BY DEF Expression

\* A step as it is written is the step as it is read, or is read as zero.
ReadAsWritten(e) == e.kind = "range" => e.interval % 10 \in {0, e.interval}

\* Parsing changes no more than the step of a range.
LEMMA ParsedParts ==
    ASSUME NEW e \in Expression
    PROVE  /\ Parse(e).kind = e.kind
           /\ e.kind # "range" => Parse(e) = e
           /\ e.kind = "range" => /\ Parse(e).start = e.start /\ Parse(e).end = e.end
                                  /\ Parse(e).interval = e.interval % 10
<1>1. CASE e.kind = "range"
  <2>1. e \in [kind: {"range"}, start: Nat, interval: Nat,
               end: [kind: {"none", "last"}] \union [kind: {"value"}, value: Nat]]
    BY <1>1 DEF Expression
  <2>2. Parse(e) = [e EXCEPT !.interval = @ % 10]
    BY <1>1 DEF Parse
  <2>3. QED
    BY <1>1, <2>1, <2>2
<1>2. CASE e.kind # "range"
  BY <1>2 DEF Parse
<1>3. QED
  BY <1>1, <1>2

\* A range is evaluated to the values that lie at its steps between start and end.
LEMMA RangeSays ==
    ASSUME NEW e, NEW lo \in Nat, NEW hi \in Nat, NEW x \in lo..hi,
           e.start \in Nat, e.interval \in 1..9, EndOf(e, hi) \in Nat,
           lo <= e.start, lo <= EndOf(e, hi)
    PROVE  x \in Discrete(e, lo, hi)
              <=> /\ e.start <= hi
                  /\ LET end == Min({EndOf(e, hi), hi})
                     IN  /\ Distance(e.start, x, lo, hi) <= Distance(e.start, end, lo, hi)
                         /\ Distance(e.start, x, lo, hi) % e.interval = 0
<1> DEFINE p == e.start
           k == e.interval
           to == EndOf(e, hi)
           span == hi - lo + 1
           end == Min({to, hi})
           Far(y) == Distance(p, y, lo, hi)
<1>1. Discrete(e, lo, hi) = IF p > hi THEN {}
                            ELSE IF p > to THEN AroundFrom(p, k, to, lo, hi)
                            ELSE TailFrom(p, k, to, lo, hi)
  BY DiscreteValues
<1>2. /\ p \in Nat /\ k \in Nat /\ k \in 1..9 /\ to \in Nat /\ span \in Nat
      /\ lo <= p /\ lo <= to /\ lo <= x /\ x <= hi /\ x \in Int
  OBVIOUS
<1>3. end = IF to <= hi THEN to ELSE hi
  <2> HIDE DEF to
  <2>1. \E m \in {to, hi} : \A y \in {to, hi} : m <= y
    BY <1>2
  <2>2. end \in {to, hi} /\ \A y \in {to, hi} : end <= y
    BY <2>1, Zenon DEF Min
  <2> HIDE DEF end
  <2>3. QED
    BY <1>2, <2>2
<1>4. QED
  <2>1. CASE p > hi
    BY <1>1, <2>1
  <2>2. CASE p <= hi
    <3> HIDE DEF p, k, to, end
    <3>1. end \in lo..hi /\ end \in Int
      BY <1>2, <1>3
    <3>2. ASSUME NEW y \in lo..hi
          PROVE  Far(y) = IF p <= y THEN y - p ELSE y + span - p
      <4>1. y - p \in Int /\ -span < y - p /\ y - p < span
        BY <1>2, <2>2
      <4>2. Far(y) = (y - p) % span
        BY DEF Distance
      <4>3. (y - p) % span = IF y - p >= 0 THEN y - p ELSE (y - p) + span
        BY <1>2, <4>1, WithinOneTurn
      <4>4. (y - p) + span = y + span - p
        BY <1>2
      <4>5. QED
        BY <1>2, <4>2, <4>3, <4>4
    <3>3. Far(x) = IF p <= x THEN x - p ELSE x + span - p
      BY <3>2
    <3>4. Far(end) = IF p <= end THEN end - p ELSE end + span - p
      BY <3>1, <3>2
    <3> DEFINE y == x + span - p
    <3>5. y \in Int /\ (y % k = 0 /\ y > 0 => y >= k)
      BY <1>2, Multiples
    <3> HIDE DEF Far
    <3>6. x \in Discrete(e, lo, hi) <=> Far(x) <= Far(end) /\ Far(x) % k = 0
      <4>1. CASE p > to
        <5>1. x \in AroundFrom(p, k, to, lo, hi)
                <=> \/ p <= x /\ (x - p) % k = 0
                    \/ x <= to /\ p + k <= x + span /\ (x + span - p) % k = 0
          <6> DEFINE z == x + (hi - lo + 1)
          <6>1. x \in AroundFrom(p, k, to, lo, hi)
                  <=> \/ p <= x /\ (x - p) % k = 0
                      \/ x <= to /\ p + k <= z /\ (z - p) % k = 0
            BY Zenon DEF AroundFrom
          <6>2. z = x + span /\ z - p = x + span - p
            BY <1>2
          <6> HIDE DEF z
          <6>3. QED
            BY <6>1, <6>2, Zenon
        <5>2. end = to /\ Far(end) = to + span - p
          BY <1>2, <1>3, <2>2, <3>4, <4>1
        <5>3. x \in Discrete(e, lo, hi) <=> x \in AroundFrom(p, k, to, lo, hi)
          BY <1>1, <1>2, <2>2, <4>1
        <5>4. CASE p <= x
          BY <1>2, <2>2, <3>3, <4>1, <5>1, <5>2, <5>3, <5>4
        <5>5. CASE x < p
          BY <1>2, <2>2, <3>3, <3>5, <4>1, <5>1, <5>2, <5>3, <5>5
        <5>6. QED
          BY <1>2, <5>4, <5>5
      <4>2. CASE p <= to
        <5>1. x \in TailFrom(p, k, to, lo, hi) <=> p <= x /\ x <= to /\ (x - p) % k = 0
          BY DEF TailFrom
        <5>2. p <= end /\ Far(end) = end - p
          BY <1>2, <1>3, <2>2, <3>4, <4>2
        <5>3. x \in Discrete(e, lo, hi) <=> x \in TailFrom(p, k, to, lo, hi)
          BY <1>1, <1>2, <2>2, <4>2
        <5>4. CASE p <= x
          BY <1>2, <1>3, <2>2, <3>3, <4>2, <5>1, <5>2, <5>3, <5>4
        <5>5. CASE x < p
          BY <1>2, <1>3, <2>2, <3>1, <3>3, <4>2, <5>1, <5>2, <5>3, <5>5
        <5>6. QED
          BY <1>2, <5>4, <5>5
      <4>3. QED
        BY <1>2, <4>1, <4>2
    <3>7. QED
      BY <2>2, <3>6 DEF Far, end, to, p, k
  <2>3. QED
    BY <2>1, <2>2

\* What a field may hold, for the values from lo to hi: what the ranges of a valid period are.
Ranged(e, lo, hi) ==
    e.kind = "range" => lo <= e.start /\ (e.end.kind = "value" => lo <= e.end.value)

\* An expression of a valid field matches what it says, unless its step is zero as it is
\* read, and then it matches nothing.
LEMMA MatchesSays ==
    ASSUME NEW e \in Expression, NEW lo \in Nat, NEW hi \in Nat, lo <= hi, NEW x \in lo..hi,
           ReadAsWritten(e), Ranged(e, lo, hi)
    PROVE  /\ Matches(Parse(e), x, lo, hi) => Says(e, x, lo, hi)
           /\ Says(e, x, lo, hi) => \/ Matches(Parse(e), x, lo, hi)
                                    \/ Endless(Parse(e), hi)
<1> DEFINE p == Parse(e)
<1>1. CASE e.kind # "range"
  BY <1>1, ParsedParts DEF Matches, Says
<1>2. CASE e.kind = "range"
  <2>1. /\ p.kind = "range" /\ p.start = e.start /\ p.end = e.end /\ p.interval = e.interval % 10
        /\ e.start \in Nat /\ e.interval \in Nat
        /\ e.end.kind = "value" => e.end.value \in Nat
    BY <1>2, ParsedParts, ExpressionParts
  <2>2. p.interval = e.interval \/ p.interval = 0
    BY <1>2, <2>1 DEF ReadAsWritten
  <2>3. EndOf(p, hi) = EndOf(e, hi) /\ EndOf(e, hi) \in Nat /\ lo <= EndOf(e, hi)
    BY <1>2, <2>1 DEF EndOf, Ranged
  <2>4. p.interval \in 0..9
    BY <2>1
  <2> HIDE DEF p
  <2>5. Matches(p, x, lo, hi) <=> ~Endless(p, hi) /\ x \in Discrete(p, lo, hi)
    BY <2>1 DEF Matches
  <2>6. CASE p.interval = 0
    <3>1. Endless(p, hi) <=> e.start <= hi
      BY <2>1, <2>6 DEF Endless
    <3>2. e.start > hi => Discrete(p, lo, hi) = {}
      BY <2>1, Zenon DEF Discrete
    <3>3. Says(e, x, lo, hi) => e.start <= hi
      BY <1>2 DEF Says
    <3>4. QED
      BY <2>1, <2>5, <3>1, <3>2, <3>3 DEF p
  <2>7. CASE p.interval # 0
    <3>1. p.interval \in 1..9 /\ e.interval = p.interval
      BY <2>2, <2>4, <2>7
    <3>2. ~Endless(p, hi)
      BY <2>7 DEF Endless
    <3>3. x \in Discrete(p, lo, hi)
              <=> /\ p.start <= hi
                  /\ LET end == Min({EndOf(p, hi), hi})
                     IN  /\ Distance(p.start, x, lo, hi) <= Distance(p.start, end, lo, hi)
                         /\ Distance(p.start, x, lo, hi) % p.interval = 0
      <4>1. /\ p.start \in Nat /\ EndOf(p, hi) \in Nat
            /\ lo <= p.start /\ lo <= EndOf(p, hi)
        BY <1>2, <2>1, <2>3 DEF Ranged
      <4>2. QED
        BY <3>1, <4>1, RangeSays
    <3>4. e.interval > 0
      BY <3>1
    <3>5. Says(e, x, lo, hi)
              <=> /\ e.start <= hi
                  /\ LET end == Min({EndOf(e, hi), hi})
                     IN  /\ Distance(e.start, x, lo, hi) <= Distance(e.start, end, lo, hi)
                         /\ Distance(e.start, x, lo, hi) % e.interval = 0
      BY <1>2, <3>4 DEF Says
    <3>6. QED
      BY <2>1, <2>3, <2>5, <3>1, <3>2, <3>3, <3>5, Zenon DEF p
  <2>8. QED
    BY <2>6, <2>7
<1>3. QED
  BY <1>1, <1>2

Date == {d \in [month: 1..12, day: 1..31, weekday: 0..6, length: 28..31] : d.day <= d.length}

\* How the weekdays of the days of a month follow from each other.
LEMMA Weekdays ==
    ASSUME NEW w \in 0..6, NEW b \in Int
    PROVE  /\ (w + b) % 7 \in 0..6
           /\ (w + (b - 2)) % 7 = (((w + b) % 7) + 5) % 7
           /\ (w + (b - 1)) % 7 = (((w + b) % 7) + 6) % 7
           /\ (w + (b + 1)) % 7 = (((w + b) % 7) + 1) % 7
           /\ (w + (b + 2)) % 7 = (((w + b) % 7) + 2) % 7
  OBVIOUS

\* resolve_nearest_weekday_as_monthday finds the weekday nearest to a day of the month.
LEMMA NearestSays ==
    ASSUME NEW d \in Date, NEW day \in 1..31, day <= d.length
    PROVE  d.day = ResolveNearest(day, d) <=> IsNearest(day, d)
<1> DEFINE weekday == d.weekday
           length == d.length
           today == d.day
           w(y) == (weekday + (y - today)) % 7
           Working == {y \in 1..length : w(y) <= 4}
           Away(y) == IF y >= day THEN y - day ELSE day - y
<1>1. today \in 1..31 /\ today <= length /\ weekday \in 0..6 /\ length \in 28..31 /\ day <= length
  BY DEF Date
<1>2. ASSUME NEW y \in Int PROVE Max({y - day, day - y}) = Away(y)
  <2>1. \E m \in {y - day, day - y} : \A z \in {y - day, day - y} : m >= z
    OBVIOUS
  <2> DEFINE m == Max({y - day, day - y})
  <2>2. m \in {y - day, day - y} /\ \A z \in {y - day, day - y} : m >= z
    BY <2>1, Zenon DEF Max
  <2> HIDE DEF m
  <2>3. m = Away(y)
    BY <2>2
  <2>4. QED
    BY <2>3 DEF m
<1>3. ASSUME NEW y \in Int PROVE WeekdayOf(y, d) = w(y)
  BY <1>1, <1>3 DEF WeekdayOf
<1>4. IsNearest(day, d) <=> /\ today \in Working
                            /\ \A y \in Working : Away(today) <= Away(y)
  <2> DEFINE Open == {y \in 1..length : WeekdayOf(y, d) <= 4}
             Far(y) == Max({y - day, day - y})
  <2>1. IsNearest(day, d) <=> today \in Open /\ \A y \in Open : Far(today) <= Far(y)
    BY <1>1 DEF IsNearest
  <2> HIDE DEF length, today
  <2>2. Open = Working
    <3>1. \A y \in 1..length : WeekdayOf(y, d) = w(y)
      BY <1>1, <1>3
    <3> HIDE DEF w
    <3>2. QED
      BY <3>1
  <2>3. \A y \in Int : Far(y) = Away(y)
    BY <1>2
  <2>4. today \in Int /\ \A y \in Working : y \in Int
    BY <1>1
  <2> HIDE DEF Far, Away, Working, Open
  <2>5. QED
    BY <2>1, <2>2, <2>3, <2>4
<1> DEFINE near == IF w(day) = 5 THEN (IF day = 1 THEN day + 2 ELSE day - 1)
                   ELSE IF w(day) = 6 THEN (IF day = length THEN day - 2 ELSE day + 1)
                   ELSE day
<1>5. ResolveNearest(day, d) = near
  <2>1. WeekdayOf(day, d) = w(day)
    BY <1>3
  <2> HIDE DEF w
  <2>2. QED
    BY <2>1 DEF ResolveNearest
<1> HIDE DEF weekday, length, today
<1>6. /\ w(day) \in 0..6
      /\ w(day - 2) = (w(day) + 5) % 7
      /\ w(day - 1) = (w(day) + 6) % 7
      /\ w(day + 1) = (w(day) + 1) % 7
      /\ w(day + 2) = (w(day) + 2) % 7
  <2> DEFINE b == day - today
  <2>1. /\ b \in Int /\ (day - 2) - today = b - 2 /\ (day - 1) - today = b - 1
        /\ (day + 1) - today = b + 1 /\ (day + 2) - today = b + 2
    BY <1>1
  <2> HIDE DEF b
  <2>2. /\ (weekday + b) % 7 \in 0..6
        /\ (weekday + (b - 2)) % 7 = (((weekday + b) % 7) + 5) % 7
        /\ (weekday + (b - 1)) % 7 = (((weekday + b) % 7) + 6) % 7
        /\ (weekday + (b + 1)) % 7 = (((weekday + b) % 7) + 1) % 7
        /\ (weekday + (b + 2)) % 7 = (((weekday + b) % 7) + 2) % 7
    BY <1>1, <2>1, Weekdays
  <2>3. w(day) = (weekday + b) % 7
    BY DEF b
  <2>4. QED
    BY <2>1, <2>2, <2>3
<1>7. day \in Int /\ \A y \in 1..length : y \in Int
  BY <1>1
<1> HIDE DEF w
<1>8. near \in 1..length /\ w(near) <= 4
  BY <1>1, <1>6, <1>7
<1>9. ASSUME NEW y \in Working, y # near PROVE Away(near) < Away(y)
  <2>1. y \in 1..length /\ y \in Int /\ w(y) <= 4
    BY <1>7
  <2>2. CASE w(day) \in 0..4
    BY <1>1, <1>9, <2>1, <2>2
  <2>3. CASE w(day) = 5
    <3>1. y # day /\ y # day + 1
      BY <1>6, <2>1, <2>3
    <3>2. QED
      BY <1>1, <1>9, <2>1, <2>3, <3>1
  <2>4. CASE w(day) = 6
    <3>1. y # day /\ y # day - 1
      BY <1>6, <2>1, <2>4
    <3>2. QED
      BY <1>1, <1>9, <2>1, <2>4, <3>1
  <2>5. QED
    BY <1>6, <2>2, <2>3, <2>4
<1> HIDE DEF near
<1>10. near \in Working /\ \A y \in Working : Away(y) \in Int
  BY <1>1, <1>7, <1>8
<1> HIDE DEF Away, Working
<1>11. today = near <=> today \in Working /\ \A y \in Working : Away(today) <= Away(y)
  BY <1>9, <1>10
<1>12. QED
  BY <1>4, <1>5, <1>11 DEF today

\* Which day of a month is the nth and which the last of a weekday.
LEMMA NthDay ==
    ASSUME NEW day \in 1..31, NEW w \in 0..6, NEW weekday \in 0..6, NEW n \in 1..5,
           NEW first \in 0..6, first = (w + (1 - day)) % 7,
           NEW t \in Int, t = IF weekday < first THEN weekday - first + 7 ELSE weekday - first
    PROVE  day = 1 + t + 7 * (n - 1) <=> w = weekday /\ 7 * (n - 1) + 1 <= day /\ day <= 7 * n
<1>1. w = (first + (day - 1)) % 7
  OBVIOUS
<1>2. QED
  BY <1>1

LEMMA NthSays ==
    ASSUME NEW d \in Date, NEW weekday \in 0..6, NEW n \in 1..5
    PROVE  d.day = ResolveNth(weekday, n, d)
              <=> d.weekday = weekday /\ d.day \in 7 * (n - 1) + 1 .. 7 * n
<1> DEFINE today == d.day
           w == d.weekday
           length == d.length
           first == (w + (1 - today)) % 7
           t == IF weekday < first THEN weekday - first + 7 ELSE weekday - first
<1>1. today \in 1..31 /\ today <= length /\ w \in 0..6 /\ length \in 28..31
  BY DEF Date
<1>2. WeekdayOf(1, d) = first
  BY <1>1 DEF WeekdayOf
<1> HIDE DEF first
<1>3. ResolveNth(weekday, n, d) = IF 1 + t + 7 * (n - 1) <= length
                                      THEN 1 + t + 7 * (n - 1) ELSE -1
  <2> HIDE DEF today, w
  <2>1. first \in 0..6
    BY <1>1 DEF first
  <2>2. ResolveFirst(weekday, d) = 1 + t
    BY <1>2, <2>1 DEF ResolveFirst
  <2>3. QED
    BY <2>2, Zenon DEF ResolveNth
<1> HIDE DEF today, w, length
<1>4. first \in 0..6 /\ t \in Int
  BY <1>1 DEF first
<1> HIDE DEF t
<1>5. today = 1 + t + 7 * (n - 1) <=> w = weekday /\ 7 * (n - 1) + 1 <= today /\ today <= 7 * n
  BY <1>1, <1>4, NthDay DEF first, t
<1>6. QED
  BY <1>1, <1>3, <1>4, <1>5 DEF today, w

LEMMA LastDay ==
    ASSUME NEW length \in 28..31, NEW day \in 1..31, day <= length,
           NEW w \in 0..6, NEW weekday \in 0..6
    PROVE  LET last == length - ((w + length - day - weekday) % 7)
           IN  /\ last \in 1..length
               /\ (w + last - day) % 7 = weekday
               /\ \A y \in 1..length : (w + y - day) % 7 = weekday => last >= y
               /\ last = day <=> w = weekday /\ day + 7 > length
  OBVIOUS

LEMMA LastSays ==
    ASSUME NEW d \in Date, NEW weekday \in 0..6
    PROVE  d.day = ResolveLast(weekday, d) <=> d.weekday = weekday /\ d.day + 7 > d.length
<1> DEFINE today == d.day
           w == d.weekday
           length == d.length
           last == length - ((w + length - today - weekday) % 7)
           Days == {y \in 1..length : (w + y - today) % 7 = weekday}
<1>1. today \in 1..31 /\ today <= length /\ w \in 0..6 /\ length \in 28..31
  BY DEF Date
<1>2. ResolveLast(weekday, d) = Max(Days)
  BY DEF ResolveLast, WeekdayOf
<1> HIDE DEF today, w, length
<1>3. /\ last \in 1..length
      /\ (w + last - today) % 7 = weekday
      /\ \A y \in 1..length : (w + y - today) % 7 = weekday => last >= y
      /\ last = today <=> w = weekday /\ today + 7 > length
  BY <1>1, LastDay
<1> HIDE DEF last
<1>4. last \in Days /\ \A y \in Days : last >= y
  BY <1>3
<1>5. \A y \in Days : y \in Int
  BY <1>1
<1> HIDE DEF Days
<1>6. Max(Days) \in Days /\ \A y \in Days : Max(Days) >= y
  BY <1>4, Zenon DEF Max
<1> DEFINE m == Max(Days)
<1> HIDE DEF m
<1>7. m = last
  <2>1. m \in Days /\ (\A y \in Days : m >= y) /\ m \in Int /\ last \in Int
    BY <1>4, <1>5, <1>6 DEF m
  <2>2. m >= last /\ last >= m
    BY <1>4, <2>1
  <2>3. QED
    BY <2>1, <2>2
<1>8. QED
  BY <1>2, <1>3, <1>7 DEF m, today, w, length

\* A field matches a date exactly if it says so, unless it cannot be evaluated.
LEMMA MonthsSay ==
    ASSUME NEW d \in Date, NEW field \in SUBSET Expression, \A e \in field : ReadAsWritten(e),
           NEW parsed, parsed = {Parse(e) : e \in field}, ValidMonths(parsed),
           (\E e \in parsed : Endless(e, 12)) => MonthsContain(parsed, d)
    PROVE  MonthsContain(parsed, d) <=> MonthSays(field, d)
<1>1. d.month \in 1..12
  BY DEF Date
<1>2. ASSUME NEW e \in field
      PROVE  /\ Matches(Parse(e), d.month, 1, 12) => Says(e, d.month, 1, 12)
             /\ Says(e, d.month, 1, 12) => \/ Matches(Parse(e), d.month, 1, 12)
                                           \/ Endless(Parse(e), 12)
  <2>1. Bounded(Parse(e), 1, 12)
    BY DEF ValidMonths
  <2>2. Ranged(e, 1, 12)
    BY <2>1, ParsedParts DEF Bounded, Ranged
  <2>3. QED
    BY <1>1, <2>2, MatchesSays
<1>3. QED
  BY <1>2, Zenon DEF MonthsContain, MonthSays

LEMMA MonthdaysSay ==
    ASSUME NEW d \in Date, NEW field \in SUBSET Expression, \A e \in field : ReadAsWritten(e),
           NEW parsed, parsed = {Parse(e) : e \in field}, ValidMonthdays(parsed),
           (\E e \in parsed : Endless(e, d.length) \/ Raises(e, d)) => MonthdaysContain(parsed, d)
    PROVE  MonthdaysContain(parsed, d) <=> MonthdaySays(field, d)
<1>1. d.day \in 1..d.length /\ d.length \in 28..31 /\ d.length \in Nat
  BY DEF Date
<1>2. ASSUME NEW e \in field
      PROVE  /\ Matches(Parse(e), d.day, 1, d.length) => Says(e, d.day, 1, d.length)
             /\ Says(e, d.day, 1, d.length) => \/ Matches(Parse(e), d.day, 1, d.length)
                                               \/ Endless(Parse(e), d.length)
  <2>1. /\ Parse(e).kind = e.kind
        /\ e.kind = "range" => Parse(e).start = e.start /\ Parse(e).end = e.end
    BY ParsedParts
  <2>2. /\ e.kind = "range" => e.start \in 1..31
        /\ e.kind = "range" /\ e.end.kind = "value" => e.start <= e.end.value
    BY <2>1 DEF ValidMonthdays, Bounded
  <2>3. e.kind = "range" /\ e.end.kind = "value" => e.end.value \in Nat
    BY ExpressionParts
  <2>4. Ranged(e, 1, d.length)
    BY <2>2, <2>3 DEF Ranged
  <2>5. QED
    BY <1>1, <2>4, MatchesSays
<1>3. ASSUME NEW e \in field, e.kind = "nearest"
      PROVE  /\ Parse(e) = e
             /\ Raises(e, d) => ~IsNearest(e.value, d)
             /\ ~Raises(e, d) => (d.day = ResolveNearest(e.value, d) <=> IsNearest(e.value, d))
  <2>1. Parse(e) = e
    BY <1>3, ParsedParts
  <2>2. e.value \in 1..31
    BY <1>3, <2>1 DEF ValidMonthdays, Bounded
  <2>3. Raises(e, d) <=> e.value > d.length
    BY <1>3 DEF Raises
  <2>4. Raises(e, d) => ~IsNearest(e.value, d)
    BY <1>1, <2>2, <2>3 DEF IsNearest
  <2>5. ~Raises(e, d) => e.value <= d.length
    BY <1>1, <2>2, <2>3
  <2>6. QED
    BY <2>1, <2>2, <2>4, <2>5, NearestSays
<1>4. ASSUME NEW e \in field, Parse(e).kind = "nearest" PROVE e.kind = "nearest"
  BY <1>4, ParsedParts
<1>5. MonthdaysContain(parsed, d) => MonthdaySays(field, d)
  BY <1>2, <1>3, <1>4, Zenon DEF MonthdaysContain, MonthdaySays
<1>6. MonthdaySays(field, d) => MonthdaysContain(parsed, d)
  BY <1>2, <1>3, Zenon DEF MonthdaysContain, MonthdaySays
<1>7. QED
  BY <1>5, <1>6

LEMMA WeekdaysSay ==
    ASSUME NEW d \in Date, NEW field \in SUBSET Expression, \A e \in field : ReadAsWritten(e),
           NEW parsed, parsed = {Parse(e) : e \in field}, ValidWeekdays(parsed),
           (\E e \in parsed : Endless(e, 6)) => WeekdaysContain(parsed, d)
    PROVE  WeekdaysContain(parsed, d) <=> WeekdaySays(field, d)
<1>1. d.weekday \in 0..6
  BY DEF Date
<1>2. ASSUME NEW e \in field
      PROVE  /\ Matches(Parse(e), d.weekday, 0, 6) => Says(e, d.weekday, 0, 6)
             /\ Says(e, d.weekday, 0, 6) => \/ Matches(Parse(e), d.weekday, 0, 6)
                                            \/ Endless(Parse(e), 6)
  <2>1. /\ Parse(e).kind = e.kind
        /\ e.kind = "range" => Parse(e).start = e.start /\ Parse(e).end = e.end
    BY ParsedParts
  <2>2. Parse(e).kind = "range" => Bounded(Parse(e), 0, 6)
    BY DEF ValidWeekdays
  <2>3. Ranged(e, 0, 6)
    BY <2>1, <2>2 DEF Bounded, Ranged
  <2>4. QED
    BY <1>1, <2>3, MatchesSays
<1>3. ASSUME NEW e \in field, e.kind \in {"nth", "lastweekday"}
      PROVE  /\ Parse(e) = e
             /\ e.kind = "nth" =>
                  (d.day = ResolveNth(e.value, e.n, d)
                     <=> d.weekday = e.value /\ d.day \in 7 * (e.n - 1) + 1 .. 7 * e.n)
             /\ e.kind = "lastweekday" =>
                  (d.day = ResolveLast(e.value, d)
                     <=> d.weekday = e.value /\ d.day + 7 > d.length)
  <2>1. Parse(e) = e
    BY <1>3, ParsedParts
  <2>2. e.value \in 0..6 /\ (e.kind = "nth" => e.n \in 1..5)
    BY <1>3, <2>1 DEF ValidWeekdays, Bounded
  <2>3. QED
    BY <2>1, <2>2, NthSays, LastSays
<1>4. ASSUME NEW e \in field PROVE Parse(e).kind = e.kind
  BY ParsedParts
<1>5. WeekdaysContain(parsed, d) => WeekdaySays(field, d)
  <2> SUFFICES ASSUME NEW e \in field,
                      \/ Matches(Parse(e), d.weekday, 0, 6)
                      \/ Parse(e).kind = "nth" /\ d.day = ResolveNth(Parse(e).value, Parse(e).n, d)
                      \/ Parse(e).kind = "lastweekday" /\ d.day = ResolveLast(Parse(e).value, d)
               PROVE  WeekdaySays(field, d)
    BY Zenon DEF WeekdaysContain
  <2>1. CASE Matches(Parse(e), d.weekday, 0, 6)
    BY <1>2, <2>1, Zenon DEF WeekdaySays
  <2>2. CASE Parse(e).kind = "nth" /\ d.day = ResolveNth(Parse(e).value, Parse(e).n, d)
    <3>1. e.kind = "nth"
      BY <1>4, <2>2
    <3>2. d.weekday = e.value /\ d.day \in 7 * (e.n - 1) + 1 .. 7 * e.n
      BY <1>3, <2>2, <3>1
    <3>3. QED
      BY <3>1, <3>2, Zenon DEF WeekdaySays
  <2>3. CASE Parse(e).kind = "lastweekday" /\ d.day = ResolveLast(Parse(e).value, d)
    <3>1. e.kind = "lastweekday"
      BY <1>4, <2>3
    <3>2. d.weekday = e.value /\ d.day + 7 > d.length
      BY <1>3, <2>3, <3>1
    <3>3. QED
      BY <3>1, <3>2, Zenon DEF WeekdaySays
  <2>4. QED
    BY <2>1, <2>2, <2>3
<1>6. WeekdaySays(field, d) => WeekdaysContain(parsed, d)
  <2> SUFFICES ASSUME NEW e \in field,
                      \/ Says(e, d.weekday, 0, 6)
                      \/ /\ e.kind = "nth" /\ d.weekday = e.value
                         /\ d.day \in 7 * (e.n - 1) + 1 .. 7 * e.n
                      \/ /\ e.kind = "lastweekday" /\ d.weekday = e.value
                         /\ d.day + 7 > d.length
               PROVE  WeekdaysContain(parsed, d)
    BY Zenon DEF WeekdaySays
  <2>1. CASE Says(e, d.weekday, 0, 6)
    BY <1>2, <2>1, Zenon DEF WeekdaysContain
  <2>2. CASE /\ e.kind = "nth" /\ d.weekday = e.value
             /\ d.day \in 7 * (e.n - 1) + 1 .. 7 * e.n
    <3>1. Parse(e) = e /\ d.day = ResolveNth(e.value, e.n, d)
      BY <1>3, <2>2
    <3>2. QED
      BY <2>2, <3>1, Zenon DEF WeekdaysContain
  <2>3. CASE /\ e.kind = "lastweekday" /\ d.weekday = e.value
             /\ d.day + 7 > d.length
    <3>1. Parse(e) = e /\ d.day = ResolveLast(e.value, d)
      BY <1>3, <2>3
    <3>2. QED
      BY <2>3, <3>1, Zenon DEF WeekdaysContain
  <2>4. QED
    BY <2>1, <2>2, <2>3
<1>7. QED
  BY <1>5, <1>6

\* The steps of a period are read as they are written, or as zero.
Readable(period) ==
    \A e \in period.cron.months \union period.cron.monthdays \union period.cron.weekdays :
        ReadAsWritten(e)

\* A period that is evaluated to an answer is taken for the dates that it says.
LEMMA PeriodSays ==
    ASSUME NEW p \in Period, ValidPeriod(p), Readable(p), NEW d \in Date,
           ~MustFail(ToRunningPeriod(p).cron, d)
    PROVE  Contains(ToRunningPeriod(p).cron, d) <=> DateSays(p.cron, d)
<1> DEFINE c == ToRunningPeriod(p).cron
<1>1. /\ c.months = {Parse(e) : e \in p.cron.months}
      /\ c.monthdays = {Parse(e) : e \in p.cron.monthdays}
      /\ c.weekdays = {Parse(e) : e \in p.cron.weekdays}
  BY DEF ToRunningPeriod, Period
<1>2. /\ p.cron.months \in SUBSET Expression
      /\ p.cron.monthdays \in SUBSET Expression
      /\ p.cron.weekdays \in SUBSET Expression
  BY DEF Period, Cron
<1>3. ValidMonths(c.months) /\ ValidMonthdays(c.monthdays) /\ ValidWeekdays(c.weekdays)
  BY DEF ValidPeriod
<1>4. /\ (\E e \in c.months : Endless(e, 12)) => MonthsContain(c.months, d)
      /\ (\E e \in c.monthdays : Endless(e, d.length) \/ Raises(e, d))
            => MonthdaysContain(c.monthdays, d)
      /\ (\E e \in c.weekdays : Endless(e, 6)) => WeekdaysContain(c.weekdays, d)
  BY Zenon DEF MustFail
<1> HIDE DEF c
<1>5. MonthsContain(c.months, d) <=> MonthSays(p.cron.months, d)
  BY <1>1, <1>2, <1>3, <1>4, MonthsSay DEF Readable
<1>6. MonthdaysContain(c.monthdays, d) <=> MonthdaySays(p.cron.monthdays, d)
  BY <1>1, <1>2, <1>3, <1>4, MonthdaysSay DEF Readable
<1>7. WeekdaysContain(c.weekdays, d) <=> WeekdaySays(p.cron.weekdays, d)
  BY <1>1, <1>2, <1>3, <1>4, WeekdaysSay DEF Readable
<1>8. QED
  BY <1>5, <1>6, <1>7 DEF Contains, DateSays, c

-----------------------------------------------------------------------------
(* A cycle takes the schedule to ask for what is written *)

Minutes == {m \in Nat : m < Len(Calendar) * DayLength}

\* The day of a minute, as the calendar counts them.
DayOf(m) == m \div DayLength + 1

\* A minute is in its day of the calendar and in no other.
LEMMA DayOfMinute ==
    ASSUME NEW m \in Minutes
    PROVE  /\ DayOf(m) \in DOMAIN Calendar /\ DateOf(m) = Calendar[DayOf(m)]
           /\ DateOf(m) \in Date
           /\ TimeOf(m) \in TimesOfDay /\ TimeOf(m) \in Int /\ Midnight(DayOf(m)) \in Int
           /\ m = Midnight(DayOf(m)) + TimeOf(m)
           /\ \A day \in DOMAIN Calendar :
                 /\ Midnight(day) \in Int /\ Midnight(day + 1) = Midnight(day) + DayLength
                 /\ Midnight(day) <= m /\ m < Midnight(day + 1) => day = DayOf(m)
<1>1. /\ DayLength \in Nat \ {0} /\ m \in Nat /\ m < Len(Calendar) * DayLength
      /\ Len(Calendar) \in Nat /\ DOMAIN Calendar = 1..Len(Calendar)
  BY TimelineAssumption, CalendarAssumption DEF Minutes
<1>2. /\ m \div DayLength \in Nat /\ m % DayLength \in 0..DayLength - 1
      /\ m = DayLength * (m \div DayLength) + (m % DayLength)
  BY <1>1
<1>3. DayOf(m) \in DOMAIN Calendar
  <2> DEFINE q == m \div DayLength
  <2>1. q < Len(Calendar)
    <3> SUFFICES ASSUME Len(Calendar) <= q PROVE FALSE
      BY <1>1, <1>2
    <3>1. Len(Calendar) * DayLength <= DayLength * q
      BY <1>1, <1>2
    <3>2. QED
      BY <1>1, <1>2, <3>1
  <2>2. QED
    BY <1>1, <1>2, <2>1 DEF DayOf
<1>4. DateOf(m) = Calendar[DayOf(m)]
  BY DEF DateOf, DayOf
<1>5. Calendar[DayOf(m)] \in Date
  <2> DEFINE D == [month: 1..12, day: 1..31, weekday: 0..6, length: 28..31]
  <2>1. Calendar \in Seq(D) /\ Calendar[DayOf(m)].day <= Calendar[DayOf(m)].length
    BY <1>3, CalendarAssumption
  <2> HIDE DEF D
  <2>2. Calendar[DayOf(m)] \in D
    BY <1>3, <2>1
  <2>3. QED
    BY <2>1, <2>2, Zenon DEF Date, D
<1>6. /\ Midnight(DayOf(m)) = DayLength * (m \div DayLength)
      /\ TimeOf(m) = m % DayLength
  BY <1>1, <1>2 DEF Midnight, DayOf, TimeOf
<1>7. ASSUME NEW day \in DOMAIN Calendar
      PROVE  /\ Midnight(day) \in Int /\ Midnight(day + 1) = Midnight(day) + DayLength
             /\ Midnight(day) <= m /\ m < Midnight(day + 1) => day = DayOf(m)
  <2> DEFINE q == m \div DayLength
  <2>1. day \in Int /\ q \in Int /\ DayOf(m) = q + 1 /\ Midnight(day) = (day - 1) * DayLength
        /\ Midnight(day + 1) = day * DayLength
    BY <1>1, <1>2 DEF DayOf, Midnight
  <2>2. m = DayLength * q + (m % DayLength) /\ m % DayLength \in 0..DayLength - 1
    BY <1>2
  <2> HIDE DEF q
  <2>3. (day - 1) * DayLength \in Int /\ day * DayLength = (day - 1) * DayLength + DayLength
    BY <1>1, <2>1
  <2>4. day - 1 >= q + 1 => (day - 1) * DayLength >= DayLength * q + DayLength
    <3>1. (q + 1) * DayLength = DayLength * q + DayLength
      BY <1>1, <2>1
    <3>2. \A c \in Int : c >= q + 1 => c * DayLength >= (q + 1) * DayLength
      BY <1>1, <2>1
    <3>3. day - 1 \in Int
      BY <2>1
    <3>4. QED
      BY <3>1, <3>2, <3>3
  <2>5. day <= q => day * DayLength <= DayLength * q
    BY <1>1, <2>1
  <2>6. DayLength * q \in Int
    BY <1>1, <2>1
  <2>7. QED
    BY <1>1, <2>1, <2>2, <2>3, <2>4, <2>5, <2>6
<1>8. QED
  BY <1>1, <1>2, <1>3, <1>4, <1>5, <1>6, <1>7 DEF TimesOfDay

\* The steps of all schedules are read as they are written, or as zero.
StepsAsWritten ==
    \A d \in Definitions : \A i \in DOMAIN d.periods : Readable(d.periods[i])

\* No period of the schedule fails to be evaluated at the minute.
Answered(s, m) == \A i \in DOMAIN s.periods : ~MustFail(s.periods[i].cron, DateOf(m))

\* The periods of a schedule, as written and as parsed.
LEMMA SchedulePeriods ==
    ASSUME definition \in Definitions
    PROVE  /\ definition \in Definition
           /\ schedule.override = definition.override
           /\ DOMAIN schedule.periods = DOMAIN definition.periods
           /\ Len(schedule.periods) = Len(definition.periods)
           /\ DOMAIN definition.periods \subseteq Nat
           /\ \A i \in DOMAIN definition.periods :
                 /\ definition.periods[i] \in Period /\ ValidPeriod(definition.periods[i])
                 /\ schedule.periods[i] = ToRunningPeriod(definition.periods[i])
                 /\ schedule.periods[i].begin = definition.periods[i].begin
                 /\ schedule.periods[i].end = definition.periods[i].end
                 /\ schedule.periods[i].size = definition.periods[i].size
<1>1. definition \in Definition
  BY TimelineAssumption
<1>2. /\ schedule.periods =
            [i \in DOMAIN definition.periods |-> ToRunningPeriod(definition.periods[i])]
      /\ schedule.override = definition.override
  BY <1>1 DEF schedule, ToInstanceSchedule, Definition
<1>3. definition.periods \in Seq(Period)
  BY <1>1 DEF Definition
<1>4. \A i \in DOMAIN definition.periods : definition.periods[i] \in Period
  BY <1>3
<1>5. \A p \in Period : /\ ToRunningPeriod(p).begin = p.begin
                        /\ ToRunningPeriod(p).end = p.end
                        /\ ToRunningPeriod(p).size = p.size
  BY DEF ToRunningPeriod, Period
<1>6. Len(schedule.periods) = Len(definition.periods)
  BY <1>2, <1>3
<1>7. \A i \in DOMAIN definition.periods : ValidPeriod(definition.periods[i])
  BY TimelineAssumption
<1>8. DOMAIN definition.periods \subseteq Nat
  BY <1>3
<1>9. QED
  BY <1>1, <1>2, <1>4, <1>5, <1>6, <1>7, <1>8

\* What a period asks for at a minute is what is written, laid out on the calendar.
LEMMA PeriodAsks ==
    ASSUME StepsAsWritten, definition \in Definitions, NEW m \in Minutes, Answered(schedule, m),
           NEW i \in DOMAIN definition.periods
    PROVE  LET p == definition.periods[i]
               state == PeriodState(schedule.periods[i], m)
           IN  /\ state = "running" <=>
                    /\ DateSays(p.cron, DateOf(m))
                    /\ p.begin # NoTime \/ p.end = NoTime
                    /\ From(p, DayOf(m)) <= m /\ m < Until(p, DayOf(m))
               /\ state = "any" <=>
                    /\ DateSays(p.cron, DateOf(m))
                    /\ \/ p.begin = NoTime /\ p.end # NoTime /\ m < Until(p, DayOf(m))
                       \/ p.begin # NoTime /\ p.end = NoTime /\ m < From(p, DayOf(m))
               /\ state \in {"running", "any", "stopped"}
<1> DEFINE p == definition.periods[i]
           r == schedule.periods[i]
           day == DayOf(m)
           t == TimeOf(m)
<1>1. /\ p \in Period /\ ValidPeriod(p) /\ r = ToRunningPeriod(p)
      /\ r.begin = p.begin /\ r.end = p.end
      /\ DOMAIN schedule.periods = DOMAIN definition.periods
  BY SchedulePeriods
<1>2. Readable(p)
  BY DEF StepsAsWritten
<1>3. ~MustFail(r.cron, DateOf(m))
  BY <1>1 DEF Answered
<1>4. Contains(r.cron, DateOf(m)) <=> DateSays(p.cron, DateOf(m))
  BY <1>1, <1>2, <1>3, DayOfMinute, PeriodSays
<1>5. /\ day \in DOMAIN Calendar /\ t \in TimesOfDay /\ t \in Int
      /\ Midnight(day) \in Int /\ Midnight(day + 1) = Midnight(day) + DayLength
      /\ m = Midnight(day) + t
      /\ DayLength \in Nat \ {0}
  BY DayOfMinute, TimelineAssumption
<1>6. p.begin \in Times /\ p.end \in Times
  BY <1>1 DEF Period
<1>7. /\ From(p, day) = Midnight(day) + IF p.begin = NoTime THEN 0 ELSE p.begin
      /\ Until(p, day) = IF p.end = NoTime THEN Midnight(day + 1) ELSE Midnight(day) + p.end
  BY DEF From, Until
<1> DEFINE b == p.begin
           e == p.end
<1>8. PeriodState(r, m) = IF DateSays(p.cron, DateOf(m)) THEN CheckTime(r, t) ELSE "stopped"
  BY <1>4, Zenon DEF PeriodState
<1>9. CheckTime(r, t) =
          CASE b = NoTime /\ e = NoTime -> "running"
            [] b = NoTime /\ e # NoTime -> IF t >= e THEN "stopped" ELSE "any"
            [] b # NoTime /\ e = NoTime -> IF t >= b THEN "running" ELSE "any"
            [] OTHER -> IF b <= t /\ t < e THEN "running" ELSE "stopped"
  BY <1>1, Zenon DEF CheckTime
<1> DEFINE midnight == Midnight(day)
           says == DateSays(p.cron, DateOf(m))
<1>10. /\ From(p, day) <= m <=> (IF b = NoTime THEN 0 ELSE b) <= t
       /\ m < Until(p, day) <=> (IF e = NoTime THEN t < DayLength ELSE t < e)
       /\ 0 <= t /\ t < DayLength
       /\ b \in Int /\ e \in Int /\ NoTime \in Int
  <2>1. b \in Int /\ e \in Int /\ NoTime \in Int /\ 0 <= t /\ t < DayLength
    BY <1>5, <1>6 DEF Times, TimesOfDay, NoTime
  <2> HIDE DEF b, e, day, t
  <2>2. QED
    BY <1>5, <1>7, <2>1 DEF b, e
<1> HIDE DEF says, b, e, t, day
<1>11. QED
  <2> HIDE DEF r, p
  <2> DEFINE state == PeriodState(r, m)
  <2>1. state = IF says THEN CheckTime(r, t) ELSE "stopped"
    BY <1>8 DEF says
  <2> HIDE DEF state
  <2>2. /\ state = "running" <=> /\ says
                                 /\ b # NoTime \/ e = NoTime
                                 /\ From(p, day) <= m /\ m < Until(p, day)
        /\ state = "any" <=> /\ says
                             /\ \/ b = NoTime /\ e # NoTime /\ m < Until(p, day)
                                \/ b # NoTime /\ e = NoTime /\ m < From(p, day)
        /\ state \in {"running", "any", "stopped"}
    <3>0. From(p, day) \in Int /\ m \in Int
      BY <1>5, <1>7, <1>10 DEF b
    <3>1. CASE ~says
      BY <2>1, <3>1
    <3>2. CASE says /\ b = NoTime /\ e = NoTime
      BY <1>5, <1>9, <1>10, <2>1, <3>0, <3>2
    <3>3. CASE says /\ b = NoTime /\ e # NoTime
      BY <1>5, <1>9, <1>10, <2>1, <3>0, <3>3
    <3>4. CASE says /\ b # NoTime /\ e = NoTime
      BY <1>5, <1>9, <1>10, <2>1, <3>0, <3>4
    <3>5. CASE says /\ b # NoTime /\ e # NoTime
      BY <1>5, <1>9, <1>10, <2>1, <3>0, <3>5
    <3>6. QED
      BY <3>1, <3>2, <3>3, <3>4, <3>5
  <2>3. QED
    BY <2>2 DEF state, says, b, e, t, day, p, r

\* The periods that run at a minute, and whether some asks for nothing.
LEMMA RunningPeriods ==
    ASSUME StepsAsWritten, definition \in Definitions, NEW m \in Minutes, Answered(schedule, m)
    PROVE  LET In(state) == {i \in DOMAIN schedule.periods :
                                PeriodState(schedule.periods[i], m) = state}
           IN  /\ RunningThen(m) = {<<i, DayOf(m)>> : i \in In("running")}
               /\ OpenThen(m) <=> In("any") # {}
<1> DEFINE OnDate(i) == DateSays(definition.periods[i].cron, DateOf(m))
           Begin(i) == definition.periods[i].begin
           End(i) == definition.periods[i].end
           State(i) == PeriodState(schedule.periods[i], m)
           In(state) == {i \in DOMAIN schedule.periods : State(i) = state}
           day == DayOf(m)
<1>1. DOMAIN schedule.periods = DOMAIN definition.periods
  BY SchedulePeriods
<1>2. /\ day \in DOMAIN Calendar /\ DateOf(m) = Calendar[day]
      /\ Midnight(day) <= m /\ m < Midnight(day + 1)
      /\ \A other \in DOMAIN Calendar :
            Midnight(other) <= m /\ m < Midnight(other + 1) => other = day
  <2>1. DayLength \in Nat \ {0}
    BY TimelineAssumption
  <2>2. QED
    BY <2>1, DayOfMinute DEF TimesOfDay
<1>3. ASSUME NEW i \in DOMAIN definition.periods, NEW other \in DOMAIN Calendar,
             From(definition.periods[i], other) <= m, m < Until(definition.periods[i], other)
      PROVE  other = day
  <2> DEFINE p == definition.periods[i]
             mid == Midnight(other)
  <2>1. /\ mid \in Int /\ Midnight(other + 1) = mid + DayLength
        /\ mid <= m /\ m < Midnight(other + 1) => other = day
    BY DayOfMinute
  <2>2. p.begin \in Times /\ p.end \in Times /\ DayLength \in Nat \ {0} /\ m \in Int
    BY SchedulePeriods, TimelineAssumption DEF Period, Minutes
  <2>3. /\ From(p, other) = mid + IF p.begin = NoTime THEN 0 ELSE p.begin
        /\ Until(p, other) = IF p.end = NoTime THEN mid + DayLength ELSE mid + p.end
    BY <2>1 DEF From, Until
  <2> DEFINE b == p.begin
             e == p.end
  <2>4. /\ b \in Int /\ e \in Int /\ (b # NoTime => b >= 0) /\ (e # NoTime => e < DayLength)
    BY <2>2 DEF Times, TimesOfDay, NoTime
  <2>5. From(p, other) <= m /\ m < Until(p, other)
    BY <1>3
  <2> HIDE DEF mid, b, e
  <2>6. mid <= m
    BY <2>1, <2>2, <2>3, <2>4, <2>5 DEF b
  <2>7. m < mid + DayLength
    BY <2>1, <2>2, <2>3, <2>4, <2>5 DEF e
  <2>8. QED
    BY <2>1, <2>6, <2>7 DEF mid
<1>4. ASSUME NEW i \in DOMAIN definition.periods
      PROVE  LET p == definition.periods[i]
             IN  /\ State(i) = "running" <=> /\ OnDate(i)
                                             /\ Begin(i) # NoTime \/ End(i) = NoTime
                                             /\ From(p, day) <= m /\ m < Until(p, day)
                 /\ State(i) = "any" <=>
                      /\ OnDate(i)
                      /\ \/ Begin(i) = NoTime /\ End(i) # NoTime /\ m < Until(p, day)
                         \/ Begin(i) # NoTime /\ End(i) = NoTime /\ m < From(p, day)
  BY PeriodAsks, Zenon
<1>5. RunningThen(m) = {<<i, day>> : i \in In("running")}
  <2>1. ASSUME NEW i \in DOMAIN definition.periods, NEW other \in DOMAIN Calendar
        PROVE  (LET p == definition.periods[i]
                IN  /\ DateSays(p.cron, Calendar[other])
                    /\ p.begin # NoTime \/ p.end = NoTime
                    /\ From(p, other) <= m /\ m < Until(p, other))
                  <=> other = day /\ State(i) = "running"
    <3>1. CASE other = day
      BY <1>2, <1>4, <3>1, Zenon
    <3>2. CASE other # day
      BY <1>3, <3>2, Zenon
    <3>3. QED
      BY <3>1, <3>2
  <2> DEFINE Runs(x) ==
                LET p == definition.periods[x[1]]
                IN  /\ DateSays(p.cron, Calendar[x[2]])
                    /\ p.begin # NoTime \/ p.end = NoTime
                    /\ From(p, x[2]) <= m /\ m < Until(p, x[2])
  <2>2. RunningThen(m) = {x \in (DOMAIN definition.periods) \X (DOMAIN Calendar) : Runs(x)}
    BY Zenon DEF RunningThen
  <2>3. \A i \in DOMAIN definition.periods, other \in DOMAIN Calendar :
            Runs(<<i, other>>) <=> other = day /\ State(i) = "running"
    BY <2>1
  <2> HIDE DEF Runs, State, day
  <2>4. QED
    BY <1>1, <1>2, <2>2, <2>3
<1>6. OpenThen(m) <=> In("any") # {}
  <2>1. ASSUME NEW i \in DOMAIN definition.periods, NEW other \in DOMAIN Calendar
        PROVE  (LET p == definition.periods[i]
                IN  /\ DateSays(p.cron, Calendar[other])
                    /\ Midnight(other) <= m /\ m < Midnight(other + 1)
                    /\ \/ p.begin = NoTime /\ p.end # NoTime /\ m < Until(p, other)
                       \/ p.begin # NoTime /\ p.end = NoTime /\ m < From(p, other))
                  <=> other = day /\ State(i) = "any"
    <3>1. CASE other = day
      BY <1>2, <1>4, <3>1, Zenon
    <3>2. CASE other # day
      BY <1>2, <3>2, Zenon
    <3>3. QED
      BY <3>1, <3>2
  <2>2. OpenThen(m) <=> \E i \in DOMAIN definition.periods : State(i) = "any"
    BY <1>2, <2>1, Zenon DEF OpenThen
  <2> HIDE DEF State
  <2>3. QED
    BY <1>1, <2>2
<1>7. QED
  BY <1>5, <1>6

\* Without an override, the answer for a minute is running for periods that run then, of
\* the size of one of those that began last; else any for one that asks for nothing.
LEMMA StateAsks ==
    ASSUME StepsAsWritten, definition \in Definitions, NEW m \in Minutes, Answered(schedule, m),
           definition.override = "none"
    PROVE  LET answer == StateAt(schedule, m)
           IN  /\ answer.state = "running" <=> RunningThen(m) # {}
               /\ RunningThen(m) # {} => answer.size \in SizesThen(m)
               /\ answer.state = "any" <=> RunningThen(m) = {} /\ OpenThen(m)
               /\ answer.state = "stopped" <=> RunningThen(m) = {} /\ ~OpenThen(m)
<1> DEFINE In(state) == {i \in DOMAIN schedule.periods :
                            PeriodState(schedule.periods[i], m) = state}
           running == In("running")
           nearest == NearestRunning(schedule.periods, running)
           answer == StateAt(schedule, m)
           day == DayOf(m)
<1>1. RunningThen(m) = {<<i, day>> : i \in running} /\ (OpenThen(m) <=> In("any") # {})
  BY RunningPeriods, Zenon
<1>2. answer = IF running # {}
                  THEN Answer("running", schedule.periods[nearest].size)
                  ELSE Answer(IF In("any") # {} THEN "any" ELSE "stopped", NoSize)
  <2>1. schedule.override = "none"
    BY SchedulePeriods
  <2>2. QED
    BY <2>1, Zenon DEF StateAt
<1>3. running \subseteq DOMAIN definition.periods /\ running \in SUBSET Nat
  BY SchedulePeriods
<1>4. \A j \in running : /\ schedule.periods[j].begin = definition.periods[j].begin
                         /\ schedule.periods[j].begin \in Times
                         /\ schedule.periods[j].size = definition.periods[j].size
  BY <1>3, SchedulePeriods DEF Period
<1> HIDE DEF In, day
<1>5. RunningThen(m) # {} <=> running # {}
  BY <1>1
<1>6. ASSUME running # {} PROVE schedule.periods[nearest].size \in SizesThen(m)
  <2>1. /\ nearest \in running
        /\ \A j \in running : schedule.periods[j].begin <= schedule.periods[nearest].begin
    BY <1>3, <1>4, <1>6, NearestIsRunning
  <2> HIDE DEF nearest, running
  <2>2. ASSUME NEW j \in running
        PROVE  From(definition.periods[j], day) <= From(definition.periods[nearest], day)
    <3>1. /\ definition.periods[j].begin <= definition.periods[nearest].begin
          /\ definition.periods[j].begin \in Times /\ definition.periods[nearest].begin \in Times
      BY <1>4, <2>1
    <3>2. Midnight(day) \in Int /\ DayLength \in Nat
      BY DayOfMinute, TimelineAssumption DEF day
    <3> DEFINE b == definition.periods[j].begin
               c == definition.periods[nearest].begin
    <3>3. /\ b \in Int /\ c \in Int /\ b <= c /\ NoTime = -1
          /\ (b # NoTime => b >= 0) /\ (c # NoTime => c >= 0)
      BY <3>1, <3>2 DEF Times, TimesOfDay, NoTime
    <3>4. /\ From(definition.periods[j], day) = Midnight(day) + IF b = NoTime THEN 0 ELSE b
          /\ From(definition.periods[nearest], day) = Midnight(day) + IF c = NoTime THEN 0 ELSE c
      BY DEF From
    <3> HIDE DEF b, c
    <3>5. QED
      BY <3>2, <3>3, <3>4
  <2> DEFINE x == <<nearest, day>>
             Latest(y) == \A z \in RunningThen(m) :
                             From(definition.periods[z[1]], z[2])
                                <= From(definition.periods[y[1]], y[2])
  <2>3. x \in RunningThen(m) /\ x[1] = nearest /\ x[2] = day
    BY <1>1, <2>1
  <2>4. \A z \in RunningThen(m) : z[1] \in running /\ z[2] = day
    BY <1>1
  <2>5. Latest(x)
    BY <2>2, <2>3, <2>4
  <2>6. definition.periods[x[1]].size = schedule.periods[nearest].size
    BY <1>4, <2>1, <2>3
  <2> HIDE DEF x
  <2>7. QED
    BY <2>3, <2>5, <2>6, Zenon DEF SizesThen
<1>7. \A s \in {"running", "any", "stopped"} :
          \A z : Answer(s, z).state = s /\ Answer(s, z).size = z
  BY DEF Answer
<1> HIDE DEF running, nearest, answer
<1>8. QED
  BY <1>1, <1>2, <1>5, <1>6, <1>7 DEF answer

\* A cycle that can evaluate the schedule takes it to ask for what is written.
LEMMA DesiredIsWritten ==
    ASSUME StepsAsWritten, TypeOK, ~EvaluationMustFail(schedule, now)
    PROVE  AsksAt(DesiredState(schedule, now), now)
<1> DEFINE before == now - 1
           after == now + 1
           answer == DesiredState(schedule, now)
           override == definition.override
           Here(m) == StateAt(schedule, m)
           joining == /\ Len(schedule.periods) > 1
                      /\ Here(now).state = "stopped"
                      /\ Here(before).state = "running"
                      /\ Here(after).state = "running"
<1>1. definition \in Definitions /\ before \in Minutes /\ now \in Minutes /\ after \in Minutes
  BY TimelineAssumption DEF TypeOK, Minutes
<1>2. schedule.override = override /\ Len(schedule.periods) = Len(definition.periods)
  BY <1>1, SchedulePeriods
<1>3. answer = IF joining THEN Here(after) ELSE Here(now)
  BY Zenon DEF DesiredState
<1>4. CASE override # "none"
  <2>1. \A m : Here(m) = Answer(override, NoSize)
    BY <1>2, <1>4, Zenon DEF StateAt
  <2>2. answer = Answer(override, NoSize)
    BY <1>3, <2>1, Zenon
  <2>3. QED
    BY <1>4, <2>2 DEF AsksAt
<1>5. CASE override = "none"
  <2>1. /\ Answered(schedule, now)
        /\ Len(schedule.periods) > 1 /\ Here(now).state = "stopped"
              => Answered(schedule, before) /\ Answered(schedule, after)
    <3>1. \A i \in DOMAIN schedule.periods, t \in Examined(schedule, now) :
              ~MustFail(schedule.periods[i].cron, DateOf(t))
      BY <1>2, <1>5, Zenon DEF EvaluationMustFail
    <3>2. now \in Examined(schedule, now)
      BY DEF Examined
    <3>3. Len(schedule.periods) > 1 /\ Here(now).state = "stopped"
              => before \in Examined(schedule, now) /\ after \in Examined(schedule, now)
      BY DEF Examined
    <3>4. QED
      BY <3>1, <3>2, <3>3, Zenon DEF Answered
  <2> HIDE DEF before, after, answer
  <2>2. /\ Here(now).state = "running" <=> RunningThen(now) # {}
        /\ RunningThen(now) # {} => Here(now).size \in SizesThen(now)
        /\ Here(now).state = "any" <=> RunningThen(now) = {} /\ OpenThen(now)
        /\ Here(now).state = "stopped" <=> RunningThen(now) = {} /\ ~OpenThen(now)
    BY <1>1, <1>5, <2>1, StateAsks
  <2>3. ASSUME Len(schedule.periods) > 1, Here(now).state = "stopped"
        PROVE  /\ Here(before).state = "running" <=> RunningThen(before) # {}
               /\ Here(after).state = "running" <=> RunningThen(after) # {}
               /\ RunningThen(after) # {} => Here(after).size \in SizesThen(after)
    <3>1. Answered(schedule, before) /\ Answered(schedule, after)
      BY <2>1, <2>3
    <3>2. /\ Here(before).state = "running" <=> RunningThen(before) # {}
      BY <1>1, <1>5, <3>1, StateAsks
    <3>3. /\ Here(after).state = "running" <=> RunningThen(after) # {}
          /\ RunningThen(after) # {} => Here(after).size \in SizesThen(after)
      BY <1>1, <1>5, <3>1, StateAsks
    <3>4. QED
      BY <3>2, <3>3
  <2>4. JoinedThen(now) <=> /\ Len(schedule.periods) > 1
                            /\ RunningThen(before) # {} /\ RunningThen(after) # {}
                            /\ ~OpenThen(now)
    BY <1>2 DEF JoinedThen, before, after
  <2>5. joining <=> RunningThen(now) = {} /\ JoinedThen(now)
    BY <2>2, <2>3, <2>4
  <2>6. AsksAt(answer, now) <=>
            IF RunningThen(now) # {}
                THEN answer.state = "running" /\ answer.size \in SizesThen(now)
            ELSE IF JoinedThen(now)
                THEN answer.state = "running" /\ answer.size \in SizesThen(after)
            ELSE answer.state = IF OpenThen(now) THEN "any" ELSE "stopped"
    BY <1>5 DEF AsksAt, after
  <2>7. CASE joining
    <3>1. answer = Here(after) /\ RunningThen(now) = {} /\ JoinedThen(now)
      BY <1>3, <2>5, <2>7
    <3>2. Here(after).state = "running" /\ Here(after).size \in SizesThen(after)
      BY <2>3, <2>4, <2>7, <3>1
    <3>3. QED
      BY <2>6, <3>1, <3>2 DEF answer
  <2>8. CASE ~joining
    <3>1. answer = Here(now) /\ (RunningThen(now) # {} \/ ~JoinedThen(now))
      BY <1>3, <2>5, <2>8
    <3> HIDE DEF joining, Here
    <3>2. QED
      BY <2>2, <2>6, <3>1 DEF answer
  <2>9. QED
    BY <2>7, <2>8
<1>6. QED
  BY <1>4, <1>5

\* Every answer that a cycle acts on is what the periods say when they are laid out on the
\* calendar: in the middle of a period, between two that follow on each other, over midnights
\* and ends of months, for any schedule and calendar, as long as steps are of one digit (or
\* a multiple of ten, which no cycle evaluates).
THEOREM AsksSafe == StepsAsWritten => (Spec => []AsksAsWritten)
<1> SUFFICES ASSUME StepsAsWritten PROVE Spec => []AsksAsWritten
  OBVIOUS
<1>1. Init => AsksAsWritten
  BY DEF Init, AsksAsWritten
<1>2. TypeOK /\ AsksAsWritten /\ [Next]_vars => AsksAsWritten'
  <2> SUFFICES ASSUME TypeOK, AsksAsWritten, [Next]_vars PROVE AsksAsWritten'
    OBVIOUS
  <2>1. CASE Cycle
    <3>1. ~EvaluationMustFail(schedule, now) /\ asked' = DesiredState(schedule, now)
          /\ at' = now /\ definition' = definition
      BY <2>1, Zenon DEF Cycle, given
    <3>2. AsksAt(asked', now)
      BY <3>1, DesiredIsWritten
    <3>3. AsksAsWritten' <=> (asked' # NoAnswer => AsksAt(asked', now))
      BY <3>1 DEF AsksAsWritten, AsksAt, RunningThen, JoinedThen, OpenThen, SizesThen
    <3>4. QED
      BY <3>2, <3>3
  <2>2. CASE ~Cycle
    <3>1. UNCHANGED <<definition, asked, at>>
      BY <2>2 DEF Next, FailedCycle, Tick, Touch, Done, vars, given, cycleVars
    <3>2. AsksAsWritten' <=> AsksAsWritten
      BY <3>1 DEF AsksAsWritten, AsksAt, RunningThen, JoinedThen, OpenThen, SizesThen
    <3>3. QED
      BY <3>2
  <2>3. QED
    BY <2>1, <2>2
<1>3. QED
  BY <1>1, <1>2, TypeCorrect, PTL DEF Spec

-----------------------------------------------------------------------------
(* The group and the instance *)

\* Every step is of one digit, and not zero.
OneDigitSteps ==
    \A d \in Definitions : \A i \in DOMAIN d.periods :
        LET cron == d.periods[i].cron
        IN  \A e \in cron.months \union cron.monthdays \union cron.weekdays :
                e.kind = "range" => e.interval \in 1..9

LEMMA ParsedAsWritten ==
    ASSUME OneDigitSteps, definition \in Definitions, NEW i \in DOMAIN definition.periods
    PROVE  /\ schedule.periods[i].cron = definition.periods[i].cron
           /\ LET cron == definition.periods[i].cron
              IN  \A e \in cron.months \union cron.monthdays \union cron.weekdays :
                      e.kind = "range" => e.interval \in 1..9
<1> DEFINE p == definition.periods[i]
           c == p.cron
<1>1. p \in Period /\ schedule.periods[i] = ToRunningPeriod(p)
  BY SchedulePeriods
<1>2. c \in Cron /\ c.months \subseteq Expression /\ c.monthdays \subseteq Expression
      /\ c.weekdays \subseteq Expression
  BY <1>1 DEF Period, Cron
<1>3. \A e \in c.months \union c.monthdays \union c.weekdays :
          e.kind = "range" => e.interval \in 1..9
  BY Zenon DEF OneDigitSteps
<1>4. ASSUME NEW e \in Expression, e.kind = "range" => e.interval \in 1..9 PROVE Parse(e) = e
  <2>1. CASE e.kind = "range"
    <3> DEFINE Ranges == [kind: {"range"}, start: Nat, interval: Nat,
                          end: [kind: {"none", "last"}] \union [kind: {"value"}, value: Nat]]
    <3>1. e \in Ranges
      BY <2>1 DEF Expression
    <3>2. Parse(e) = [e EXCEPT !.interval = e.interval % 10]
      BY <2>1 DEF Parse
    <3>3. e.interval % 10 = e.interval
      BY <1>4, <2>1
    <3>4. [e EXCEPT !.interval = e.interval] = e
      BY <3>1
    <3>5. QED
      BY <3>2, <3>3, <3>4
  <2>2. CASE e.kind # "range"
    BY <2>2 DEF Parse
  <2>3. QED
    BY <2>1, <2>2
<1>5. /\ {Parse(e) : e \in c.months} = c.months
      /\ {Parse(e) : e \in c.monthdays} = c.monthdays
      /\ {Parse(e) : e \in c.weekdays} = c.weekdays
  <2> HIDE DEF c
  <2>1. \A e \in c.months \union c.monthdays \union c.weekdays : Parse(e) = e
    BY <1>2, <1>3, <1>4
  <2>2. QED
    BY <2>1
<1>6. ToRunningPeriod(p).cron = [months    |-> {Parse(e) : e \in c.months},
                                 monthdays |-> {Parse(e) : e \in c.monthdays},
                                 weekdays  |-> {Parse(e) : e \in c.weekdays}]
  BY <1>1 DEF ToRunningPeriod, Period
<1>7. [months |-> c.months, monthdays |-> c.monthdays, weekdays |-> c.weekdays] = c
  BY <1>2 DEF Cron
<1>8. QED
  BY <1>1, <1>3, <1>5, <1>6, <1>7

\* Which rules of a group fire in a minute.
LEMMA FiredRules ==
    ASSUME OneDigitSteps, definition \in Definitions, Comparable, NEW m
    PROVE  LET OnDate(i) == DateSays(definition.periods[i].cron, DateOf(m))
           IN  /\ TRUE \in Fired(schedule, m)
                    <=> \E i \in DOMAIN definition.periods :
                           OnDate(i) /\ definition.periods[i].begin = TimeOf(m)
               /\ FALSE \in Fired(schedule, m)
                    <=> \E i \in DOMAIN definition.periods :
                           OnDate(i) /\ definition.periods[i].end = TimeOf(m)
<1> DEFINE P == definition.periods
           S == schedule.periods
           OnDate(i) == DateSays(P[i].cron, DateOf(m))
           Rules == UNION {Actions(S[i]) : i \in DOMAIN S}
           Due == {b \in Rules : b.at = TimeOf(m) /\ Recurs(b.cron, DateOf(m))}
           StartOf(i) == [at |-> P[i].begin, up |-> TRUE, cron |-> P[i].cron]
           StopOf(i) == [at |-> P[i].end, up |-> FALSE, cron |-> P[i].cron]
<1>1. Fired(schedule, m) = {a.up : a \in Due}
  BY DEF Fired, Comparable
<1>2. DOMAIN S = DOMAIN P
  BY SchedulePeriods
<1>3. ASSUME NEW i \in DOMAIN P
      PROVE  Actions(S[i]) = {StartOf(i), StopOf(i)}
  <2>1. S[i].begin = P[i].begin /\ S[i].end = P[i].end /\ S[i].cron = P[i].cron
    BY SchedulePeriods, ParsedAsWritten
  <2>2. P[i].begin # NoTime /\ P[i].end # NoTime
    BY DEF Comparable
  <2>3. QED
    BY <2>1, <2>2 DEF Actions
<1>4. ASSUME NEW i \in DOMAIN P
      PROVE  Recurs(P[i].cron, DateOf(m)) <=> OnDate(i)
  <2> DEFINE c == P[i].cron
  <2>1. ~(Restricted(c.monthdays) /\ Restricted(c.weekdays))
    BY DEF Comparable
  <2>2. \A e \in c.months \union c.monthdays \union c.weekdays : e.kind = "range" => e.interval > 0
    BY ParsedAsWritten
  <2>3. QED
    BY <2>1, <2>2, Zenon DEF Recurs, DateSays
<1>5. Rules = UNION {{StartOf(i), StopOf(i)} : i \in DOMAIN P}
  BY <1>2, <1>3
<1>6. \A i \in DOMAIN P :
          /\ StartOf(i).at = P[i].begin /\ StartOf(i).up = TRUE /\ StartOf(i).cron = P[i].cron
          /\ StopOf(i).at = P[i].end /\ StopOf(i).up = FALSE /\ StopOf(i).cron = P[i].cron
  OBVIOUS
<1> HIDE DEF StartOf, StopOf, P, OnDate
<1>7. ASSUME NEW i \in DOMAIN P, OnDate(i), P[i].begin = TimeOf(m)
      PROVE  TRUE \in {a.up : a \in Due}
  <2>1. StartOf(i) \in Due
    BY <1>4, <1>5, <1>6, <1>7
  <2>2. QED
    BY <1>6, <2>1
<1>8. ASSUME NEW i \in DOMAIN P, OnDate(i), P[i].end = TimeOf(m)
      PROVE  FALSE \in {a.up : a \in Due}
  <2>1. StopOf(i) \in Due
    BY <1>4, <1>5, <1>6, <1>8
  <2>2. QED
    BY <1>6, <2>1
<1>9. ASSUME NEW a \in Due
      PROVE  \E i \in DOMAIN P : /\ OnDate(i)
                                 /\ \/ a.up = TRUE /\ P[i].begin = TimeOf(m)
                                    \/ a.up = FALSE /\ P[i].end = TimeOf(m)
  <2>1. PICK i \in DOMAIN P : a = StartOf(i) \/ a = StopOf(i)
    BY <1>5
  <2>2. a.at = TimeOf(m) /\ Recurs(a.cron, DateOf(m))
    OBVIOUS
  <2>3. QED
    BY <1>4, <1>6, <2>1, <2>2
<1>10. QED
  BY <1>1, <1>7, <1>8, <1>9 DEF P, OnDate

\* Periods with begin and end begin to run when a Start rule fires, and cease when a Stop
\* rule does.
LEMMA RunningChanges ==
    ASSUME definition \in Definitions, Comparable, NEW m \in Minutes, m > 0,
           NEW i \in DOMAIN definition.periods, NEW day \in DOMAIN Calendar
    PROVE  LET x == <<i, day>>
               p == definition.periods[i]
               says == DateSays(p.cron, Calendar[day])
           IN  /\ x \in RunningThen(m) \ RunningThen(m - 1)
                    <=> says /\ day = DayOf(m) /\ p.begin = TimeOf(m)
               /\ x \in RunningThen(m - 1) \ RunningThen(m)
                    <=> says /\ day = DayOf(m) /\ p.end = TimeOf(m)
<1> DEFINE x == <<i, day>>
           p == definition.periods[i]
           says == DateSays(p.cron, Calendar[day])
           mid == Midnight(day)
           b == p.begin
           e == p.end
           t == TimeOf(m)
<1>1. /\ p \in Period /\ b # NoTime /\ e # NoTime /\ b < e
  BY SchedulePeriods DEF Comparable
<1>2. b \in TimesOfDay /\ e \in TimesOfDay /\ DayLength \in Nat \ {0} /\ m \in Int
  BY <1>1, TimelineAssumption DEF Period, Times, Minutes
<1>3. /\ mid \in Int /\ t \in Int /\ 0 <= t /\ t < DayLength
      /\ day = DayOf(m) => m = mid + t
      /\ mid <= m /\ m < mid + DayLength => day = DayOf(m)
  BY <1>2, DayOfMinute DEF TimesOfDay
<1>4. From(p, day) = mid + b /\ Until(p, day) = mid + e
  BY <1>1 DEF From, Until
<1>5. ASSUME NEW n \in Int
      PROVE  x \in RunningThen(n) <=> says /\ mid + b <= n /\ n < mid + e
  <2> DEFINE Runs(y) ==
                LET q == definition.periods[y[1]]
                IN  /\ DateSays(q.cron, Calendar[y[2]])
                    /\ q.begin # NoTime \/ q.end = NoTime
                    /\ From(q, y[2]) <= n /\ n < Until(q, y[2])
  <2>1. RunningThen(n) = {y \in (DOMAIN definition.periods) \X (DOMAIN Calendar) : Runs(y)}
    BY Zenon DEF RunningThen
  <2>2. x[1] = i /\ x[2] = day /\ x \in (DOMAIN definition.periods) \X (DOMAIN Calendar)
    OBVIOUS
  <2> HIDE DEF mid, x
  <2>3. Runs(x) <=> says /\ mid + b <= n /\ n < mid + e
    BY <1>1, <1>4, <2>2, Zenon
  <2> HIDE DEF Runs
  <2>4. QED
    BY <2>1, <2>2, <2>3
<1>6. /\ x \in RunningThen(m) <=> says /\ mid + b <= m /\ m < mid + e
      /\ x \in RunningThen(m - 1) <=> says /\ mid + b <= m - 1 /\ m - 1 < mid + e
  BY <1>2, <1>5
<1> HIDE DEF mid, b, e, t, says, x
<1>7. b \in Int /\ e \in Int /\ 0 <= b /\ e < DayLength /\ b < e
  BY <1>1, <1>2 DEF TimesOfDay, b, e
<1>8. /\ x \in RunningThen(m) \ RunningThen(m - 1) <=> says /\ m = mid + b
      /\ x \in RunningThen(m - 1) \ RunningThen(m) <=> says /\ m = mid + e
  BY <1>2, <1>3, <1>6, <1>7
<1>9. /\ m = mid + b <=> day = DayOf(m) /\ b = t
      /\ m = mid + e <=> day = DayOf(m) /\ e = t
  BY <1>2, <1>3, <1>7
<1>10. QED
  BY <1>8, <1>9 DEF x, says, b, e, t

\* What the rules that fire in a minute make of a group is whether periods run in it.
LEMMA RulesFollowPeriods ==
    ASSUME OneDigitSteps, definition \in Definitions, Comparable,
           NEW m \in Start..Horizon, m - 1 \in Start..Horizon
    PROVE  /\ Fired(schedule, m) = {} => (RunningThen(m) # {} <=> RunningThen(m - 1) # {})
           /\ \A outcome \in Fired(schedule, m) :
                 outcome \in BOOLEAN /\ (outcome <=> RunningThen(m) # {})
<1> DEFINE Now == RunningThen(m)
           Before == RunningThen(m - 1)
<1>1. m \in Minutes /\ m > 0
  BY TimelineAssumption DEF Minutes
<1>2. Before # {} /\ Now # Before => Now = {}
  BY DEF Comparable
<1>3. \A y \in Now \union Before :
          /\ y[1] \in DOMAIN definition.periods /\ y[2] \in DOMAIN Calendar
          /\ y = <<y[1], y[2]>>
  BY DEF RunningThen
<1>4. DayOf(m) \in DOMAIN Calendar /\ DateOf(m) = Calendar[DayOf(m)]
  BY <1>1, DayOfMinute
<1>5. TRUE \in Fired(schedule, m) <=> Now \ Before # {}
  <2>1. ASSUME TRUE \in Fired(schedule, m) PROVE Now \ Before # {}
    <3>1. PICK i \in DOMAIN definition.periods :
              /\ DateSays(definition.periods[i].cron, DateOf(m))
              /\ definition.periods[i].begin = TimeOf(m)
      BY <2>1, FiredRules, Zenon
    <3>2. <<i, DayOf(m)>> \in Now \ Before
      BY <1>1, <1>4, <3>1, RunningChanges
    <3>3. QED
      BY <3>2
  <2>2. ASSUME NEW y \in Now \ Before PROVE TRUE \in Fired(schedule, m)
    <3>1. /\ y[1] \in DOMAIN definition.periods /\ y[2] \in DOMAIN Calendar
          /\ <<y[1], y[2]>> \in Now \ Before
      BY <1>3
    <3>2. /\ DateSays(definition.periods[y[1]].cron, Calendar[y[2]]) /\ y[2] = DayOf(m)
          /\ definition.periods[y[1]].begin = TimeOf(m)
      BY <1>1, <3>1, RunningChanges
    <3>3. QED
      BY <1>4, <3>1, <3>2, FiredRules, Zenon
  <2>3. QED
    BY <2>1, <2>2
<1>6. FALSE \in Fired(schedule, m) <=> Before \ Now # {}
  <2>1. ASSUME FALSE \in Fired(schedule, m) PROVE Before \ Now # {}
    <3>1. PICK i \in DOMAIN definition.periods :
              /\ DateSays(definition.periods[i].cron, DateOf(m))
              /\ definition.periods[i].end = TimeOf(m)
      BY <2>1, FiredRules, Zenon
    <3>2. <<i, DayOf(m)>> \in Before \ Now
      BY <1>1, <1>4, <3>1, RunningChanges
    <3>3. QED
      BY <3>2
  <2>2. ASSUME NEW y \in Before \ Now PROVE FALSE \in Fired(schedule, m)
    <3>1. /\ y[1] \in DOMAIN definition.periods /\ y[2] \in DOMAIN Calendar
          /\ <<y[1], y[2]>> \in Before \ Now
      BY <1>3
    <3>2. /\ DateSays(definition.periods[y[1]].cron, Calendar[y[2]]) /\ y[2] = DayOf(m)
          /\ definition.periods[y[1]].end = TimeOf(m)
      BY <1>1, <3>1, RunningChanges
    <3>3. QED
      BY <1>4, <3>1, <3>2, FiredRules, Zenon
  <2>3. QED
    BY <2>1, <2>2
<1>7. Fired(schedule, m) \subseteq BOOLEAN
  BY FiredTypes
<1> HIDE DEF Now, Before
<1>8. CASE Now = Before
  <2>1. Fired(schedule, m) = {}
    BY <1>5, <1>6, <1>7, <1>8
  <2>2. QED
    BY <1>8, <2>1 DEF Now, Before
<1>9. CASE Now # Before /\ Before # {}
  <2>1. Now = {} /\ FALSE \in Fired(schedule, m) /\ TRUE \notin Fired(schedule, m)
    BY <1>2, <1>5, <1>6, <1>9
  <2>2. QED
    BY <1>7, <2>1 DEF Now
<1>10. CASE Now # Before /\ Before = {}
  <2>1. Now # {} /\ TRUE \in Fired(schedule, m) /\ FALSE \notin Fired(schedule, m)
    BY <1>5, <1>6, <1>10
  <2>2. QED
    BY <1>7, <2>1 DEF Now
<1>11. QED
  BY <1>8, <1>9, <1>10

\* Once a rule has fired, the group is up exactly while a period runs.
GroupFollows == fired /\ Comparable => (group <=> RunningThen(now) # {})

LEMMA TickFollows ==
    ASSUME OneDigitSteps, TypeOK, GroupFollows, Tick
    PROVE  GroupFollows'
<1> SUFFICES ASSUME fired', Comparable' PROVE group' <=> RunningThen(now + 1) # {}
  <2>1. now' = now + 1 /\ definition' = definition
    BY DEF Tick, given
  <2>2. RunningThen(now)' = RunningThen(now + 1)
    BY <2>1 DEF RunningThen
  <2>3. QED
    BY <2>2 DEF GroupFollows
<1>1. Comparable
  <2>1. definition' = definition
    BY DEF Tick, given
  <2>2. QED
    BY <2>1 DEF Comparable, RunningThen, schedule
<1> DEFINE m == now + 1
<1>2. m \in Start..Horizon /\ m - 1 = now /\ m - 1 \in Start..Horizon /\ definition \in Definitions
  BY TimelineAssumption DEF Tick, TypeOK
<1> HIDE DEF m
<1>3. /\ Fired(schedule, m) = {} => (RunningThen(m) # {} <=> RunningThen(m - 1) # {})
      /\ \A outcome \in Fired(schedule, m) :
            outcome \in BOOLEAN /\ (outcome <=> RunningThen(m) # {})
  BY <1>1, <1>2, RulesFollowPeriods
<1>4. CASE Fired(schedule, m) = {}
  <2>1. group' = group /\ fired' = fired
    BY <1>4 DEF Tick, groupVars, m
  <2>2. group <=> RunningThen(now) # {}
    BY <1>1, <2>1 DEF GroupFollows
  <2>3. QED
    BY <1>2, <1>3, <1>4, <2>1, <2>2 DEF m
<1>5. CASE Fired(schedule, m) # {}
  <2>1. group' \in Fired(schedule, m)
    BY <1>5 DEF Tick, m
  <2>2. QED
    BY <1>3, <2>1 DEF m
<1>6. QED
  BY <1>4, <1>5

\* Under a comparable schedule that was evaluated in this minute, the instance is up
\* exactly while a period runs.
LEMMA InstanceFollows ==
    ASSUME TypeOK, AsksAsWritten, FollowsSchedule, synced, at = now, Comparable
    PROVE  up <=> RunningThen(now) # {}
<1>1. asked # NoAnswer /\ AsksAt(asked, now)
  BY DEF FollowsSchedule, AsksAsWritten
<1>2. ~OpenThen(now)
  BY DEF OpenThen, Comparable
<1>3. RunningThen(now) = {} => ~JoinedThen(now)
  BY DEF JoinedThen, Comparable, TypeOK
<1>4. asked.state = IF RunningThen(now) # {} THEN "running" ELSE "stopped"
  BY <1>1, <1>2, <1>3 DEF AsksAt, Comparable
<1>5. QED
  BY <1>4 DEF FollowsSchedule

\* An AutoScaling group and an EC2 instance under the same schedule are up at the same times,
\* once a rule of the group has fired and the schedule answers for the instance: for any
\* comparable schedule whose steps are of one digit, on any calendar.
THEOREM GroupSafe == OneDigitSteps => (Spec => []GroupAgreesWithInstance)
<1> SUFFICES ASSUME OneDigitSteps PROVE Spec => []GroupAgreesWithInstance
  OBVIOUS
<1>1. StepsAsWritten
  BY DEF OneDigitSteps, StepsAsWritten, Readable, ReadAsWritten
<1>2. Init => GroupFollows
  BY DEF Init, GroupFollows
<1>3. TypeOK /\ GroupFollows /\ [Next]_vars => GroupFollows'
  <2> SUFFICES ASSUME TypeOK, GroupFollows, [Next]_vars PROVE GroupFollows'
    OBVIOUS
  <2>1. CASE Tick
    BY <2>1, TickFollows
  <2>2. CASE ~Tick
    <3>1. UNCHANGED <<definition, now, group, fired>>
      BY <2>2 DEF Next, Cycle, FailedCycle, Touch, Done, vars, given, groupVars
    <3>2. QED
      BY <3>1 DEF GroupFollows, Comparable, RunningThen, schedule
  <2>3. QED
    BY <2>1, <2>2
<1>4. TypeOK /\ AsksAsWritten /\ FollowsSchedule /\ GroupFollows => GroupAgreesWithInstance
  <2> SUFFICES ASSUME TypeOK, AsksAsWritten, FollowsSchedule, GroupFollows,
                      fired, synced, at = now, Comparable
               PROVE  group = up
    BY DEF GroupAgreesWithInstance
  <2>1. (up <=> RunningThen(now) # {}) /\ (group <=> RunningThen(now) # {})
    BY InstanceFollows DEF GroupFollows
  <2>2. QED
    BY <2>1 DEF TypeOK
<1>5. Spec => []AsksAsWritten
  BY <1>1, AsksSafe
<1>6. QED
  BY <1>2, <1>3, <1>4, <1>5, TypeCorrect, FollowsSafe, PTL DEF Spec
=============================================================================
