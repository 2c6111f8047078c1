--------------------------- MODULE Ec2CyclesProofs ---------------------------
(***************************************************************************)
(* One scheduling cycle at a time, without crashes, resizes and retagging: *)
(* Ec2Scheduling implements AtomicCycles, and what the registry says of an *)
(* instance is true, for any instances, schedules, flags and users.        *)
(***************************************************************************)
EXTENDS Ec2SchedulingProofs

\* One handler at a time, which does not die; tags stay as they are.
OneCycle ==
    /\ \A v, w \in Workers : v = w
    /\ "crash" \notin FaultKinds
    /\ TagChoices = {}

\* No schedule and no instance asks for an instance type.
NoResizes ==
    /\ Resizers = {}
    /\ \A p \in Phases : p.size = None
    /\ \A i \in Instances : Preferred[i] = <<>>

-----------------------------------------------------------------------------
(* The invariant: what a worker is about to do rests on the records as they are *)

HeldSteps == {"sent", "started", "stopped"}
ToCall == {"skipStart", "start", "skipStop", "stop", "nothing"}

\* The step for an action, given what was seen of the instance.
StepSeen(seen, action) ==
    IF action = "start" THEN IF seen = "running" THEN "skipStart" ELSE "start"
    ELSE IF action = "stop" THEN IF seen = "stopped" THEN "skipStop" ELSE "stop"
    ELSE action

\* What the schedule of instance i asks for in the request of worker w.
AskedOf(w, i) == request[w].view[tag[i]]

Decided(w, i, seen) ==
    Decide(FlagsOf[tag[i]], AskedOf(w, i).state, AskedOf(w, i).window, registry[i].stored,
           seen = "running")

\* What was seen is out of date only if somebody else acted since.
Fresh(i, seen) ==
    owner[i] = "scheduler" => /\ seen = "running" => power[i] = "running"
                              /\ seen = "stopped" => power[i] = "stopped"

OnPlan(w, i) ==
    \E seen \in PowerStates :
        /\ Fresh(i, seen)
        /\ todo[w][i].step = StepSeen(seen, Decided(w, i, seen).action)
        /\ todo[w][i].new = Stored(registry[i], Decided(w, i, seen).stored)

\* Nothing waits for the registration handler.
Quiet == registrar = NoRegistration /\ events = {}

RecordsFollowTags ==
    \A i \in Instances : /\ registry[i] = None <=> tag[i] = None
                         /\ registry[i] # None => registry[i].schedule = tag[i]

CachesAreCurrent == \A w \in Workers : pc[w] = "describe" => cache[w] = registry

PlansAreCurrent ==
    \A w \in Workers, i \in Instances :
        todo[w][i].step # "done" =>
            /\ tag[i] \in DOMAIN request[w].view
            /\ tag[i] # None
            /\ todo[w][i].old = registry[i]
            /\ todo[w][i].new.schedule = tag[i]
            /\ todo[w][i].step \in ToCall \union {"started", "stopped"}
            /\ todo[w][i].step \in ToCall => OnPlan(w, i)

CycleInv == Quiet /\ RecordsFollowTags /\ CachesAreCurrent /\ PlansAreCurrent

-----------------------------------------------------------------------------
(* Lemmas about the operators *)

\* A start stores running and a stop stopped; nothing else is decided.
LEMMA DecideOutcome ==
    ASSUME NEW flags, NEW desired \in ScheduleStates, NEW window \in BOOLEAN, NEW stored, NEW isRunning
    PROVE  LET v == Decide(flags, desired, window, stored, isRunning)
           IN  /\ v.action \in {"start", "stop", "nothing"}
               /\ v.action = "start" => v = Verdict("start", "running")
               /\ v.action = "stop" => v = Verdict("stop", "stopped")
BY DEF Decide, DecideStopped, DecideRunning, Verdict, ScheduleStates

\* The abstract specification decides as the detailed one does.
LEMMA SameDecision ==
    ASSUME NEW flags, NEW desired, NEW window, NEW stored, NEW isRunning
    PROVE  Atomic!Decide(flags, desired, window, stored, isRunning)
             = Decide(flags, desired, window, stored, isRunning)
BY DEF Decide, DecideStopped, DecideRunning, Verdict, Atomic!Decide, Atomic!DecideStopped,
       Atomic!DecideRunning, Atomic!Verdict

\* With one worker, the state of an instance is what that worker holds, or the record's.
LEMMA StoredForIs ==
    ASSUME OneCycle, NEW w \in Workers, NEW i \in Instances
    PROVE  StoredFor(i) = IF todo[w][i].step \in HeldSteps THEN todo[w][i].new.stored
                          ELSE IF registry[i] # None THEN registry[i].stored ELSE "unknown"
<1>1. CASE todo[w][i].step \in HeldSteps
  <2>1. Called(i) = {w}
    BY <1>1 DEF OneCycle, Called, HeldSteps
  <2>2. (CHOOSE v \in Called(i) : TRUE) = w
    BY <2>1
  <2>3. QED
    BY <1>1, <2>1, <2>2 DEF StoredFor
<1>2. CASE todo[w][i].step \notin HeldSteps
  <2>1. Called(i) = {}
    BY <1>2 DEF OneCycle, Called, HeldSteps
  <2>2. QED
    BY <1>2, <2>1 DEF StoredFor
<1>3. QED
  BY <1>1, <1>2

-----------------------------------------------------------------------------
(* The invariant holds initially and is preserved *)

LEMMA InitCycles == Init => CycleInv
<1> SUFFICES ASSUME Init PROVE CycleInv
  OBVIOUS
<1>1. registry = [i \in Instances |-> IF tag[i] = None THEN None
                        ELSE [schedule |-> tag[i], stored |-> "unknown"]]
  BY DEF Init
<1>2. tag \in [Instances -> Schedules \union {None}]
  BY Ec2Assumption DEF Init
<1>3. ASSUME NEW i \in Instances, tag[i] # None
      PROVE  [schedule |-> tag[i], stored |-> "unknown"] \in Record
  BY <1>2, <1>3 DEF Record, InstanceStates
<1>4. RecordsFollowTags
  BY <1>1, <1>3, Ec2Assumption DEF RecordsFollowTags
<1>5. \A w \in Workers, i \in Instances : todo[w][i].step = "done" /\ pc[w] = "idle"
  BY DEF Init, Idle, Done
<1>6. QED
  BY <1>4, <1>5 DEF Init, CycleInv, Quiet, CachesAreCurrent, PlansAreCurrent

\* The plan a worker makes from current records rests on what it sees.
LEMMA PlanIsOnPlan ==
    ASSUME TypeInv, CycleInv, NoResizes, NEW w \in Workers, NEW i \in Instances,
           pc[w] = "describe",
           NEW t, t = Plan(request[w].view, registry[i], i), t.step # "done"
    PROVE  /\ tag[i] \in DOMAIN request[w].view
           /\ tag[i] # None
           /\ t.old = registry[i]
           /\ t.new.schedule = tag[i]
           /\ t.step \in ToCall
           /\ \E seen \in PowerStates :
                 /\ Fresh(i, seen)
                 /\ t.step = StepSeen(seen, Decided(w, i, seen).action)
                 /\ t.new = Stored(registry[i], Decided(w, i, seen).stored)
<1> USE DEF TypeInv, TypeOK
<1> DEFINE decided == Decided(w, i, power[i])
<1>1. request[w].view \in View
  BY DEF Handling, Request
<1>2. tag[i] # None
  BY DEF Plan, Done
<1>3. registry[i] \in Record /\ registry[i] # None /\ registry[i].schedule = tag[i]
  BY <1>2 DEF CycleInv, RecordsFollowTags
<1>4. Fetch(registry[i], i) = registry[i]
  BY <1>3 DEF Fetch
<1>5. tag[i] \in DOMAIN request[w].view
  BY <1>2, <1>3, <1>4 DEF Plan, Done
<1>6. AskedOf(w, i) \in Phases /\ AskedOf(w, i).size = None
  BY <1>1, <1>5 DEF AskedOf, View, NoResizes
<1>7. AskedOf(w, i) \in Phase
  BY <1>6, Ec2Assumption
<1>8. t = [step |-> StepFor(i, decided.action), old |-> registry[i],
           new |-> Stored(registry[i], decided.stored)]
  BY <1>2, <1>3, <1>4, <1>5, <1>6 DEF Plan, AskedOf, Decided
<1>9. decided.action \in {"start", "stop", "nothing"}
  BY <1>7, DecideOutcome DEF Decided, Phase
<1>10. StepFor(i, decided.action) = StepSeen(power[i], decided.action)
  BY <1>9 DEF StepFor, StepSeen, PreferredSize, NoResizes
<1>11. t.step \in ToCall
  BY <1>8, <1>9, <1>10 DEF StepSeen, ToCall
<1>12. Stored(registry[i], decided.stored).schedule = tag[i]
  BY <1>3 DEF Stored, Record
<1>13. Fresh(i, power[i]) /\ power[i] \in PowerStates
  BY DEF Fresh
<1> HIDE DEF decided
<1>14. QED
  BY <1>2, <1>5, <1>8, <1>10, <1>11, <1>12, <1>13 DEF decided

\* What users and time do leaves what was seen fresh.
LEMMA EnvironmentCycles ==
    ASSUME TypeInv, CycleInv, OneCycle, Environment
    PROVE  CycleInv'
<1> USE DEF TypeInv, TypeOK
<1>1. /\ UNCHANGED <<tag, registry, requests, pc, request, cache, todo, events, registrar>>
      /\ \A i \in Instances, seen \in PowerStates : Fresh(i, seen) => Fresh(i, seen)'
  <2>1. CASE \E s \in Schedules, p \in Phases : PhaseChange(s, p)
    BY <2>1 DEF PhaseChange, ec2Vars, workerVars, tagVars, Fresh
  <2>2. CASE \E i \in Instances : Settle(i)
    BY <2>2 DEF Settle, workerVars, tagVars, Fresh
  <2>3. CASE \E i \in Instances : UserStart(i) \/ UserStop(i)
    BY <2>3 DEF UserStart, UserStop, StartsBy, StopsBy, workerVars, tagVars, Fresh
  <2>4. CASE \E i \in Instances, t \in Sizes : UserModify(i, t)
    BY <2>4 DEF UserModify, workerVars, tagVars, Fresh
  <2>5. QED
    BY <2>1, <2>2, <2>3, <2>4 DEF Environment, OneCycle
<1>2. \A w \in Workers, i \in Instances : OnPlan(w, i) => OnPlan(w, i)'
  BY <1>1 DEF OnPlan, Decided, AskedOf
<1>3. QED
  BY <1>1, <1>2 DEF CycleInv, Quiet, RecordsFollowTags, CachesAreCurrent, PlansAreCurrent

\* A call for one instance leaves the plans for the others as they were.
LEMMA CallCycles ==
    ASSUME TypeInv, CycleInv, OneCycle, NEW w \in Workers, NEW i \in Instances,
           todo[w][i].step \in ToCall,
           NEW step \in {"started", "stopped"}, NEW state, To(w, i, step, state),
           UNCHANGED <<tag, registry, pc, request, cache, events, registrar>>,
           \A j \in Instances \ {i} : power'[j] = power[j] /\ owner'[j] = owner[j]
    PROVE  CycleInv'
<1> USE DEF TypeInv, TypeOK
<1> DEFINE moved == [todo[w][i] EXCEPT !.step = step, !.new.stored = state]
<1>1. /\ todo[w][i] \in Todo /\ todo[w][i].new \in Record /\ todo[w][i].old = registry[i]
      /\ todo[w][i].new.schedule = tag[i] /\ tag[i] # None /\ tag[i] \in DOMAIN request[w].view
  BY DEF CycleInv, PlansAreCurrent, Planned, ToCall
<1>2. moved.step = step /\ moved.old = registry[i] /\ moved.new.schedule = tag[i]
  BY <1>1 DEF Todo, Record
<1>3. todo' = [todo EXCEPT ![w][i] = moved]
  BY DEF To
<1> HIDE DEF moved
<1>4. ASSUME NEW v \in Workers, NEW j \in Instances
      PROVE  v = w /\ todo'[v][j] = IF j = i THEN moved ELSE todo[v][j]
  BY <1>3 DEF OneCycle
<1>5. ASSUME NEW j \in Instances \ {i}, OnPlan(w, j) PROVE OnPlan(w, j)'
  <2>1. todo'[w][j] = todo[w][j]
    BY <1>4
  <2>2. QED
    BY <1>5, <2>1 DEF OnPlan, Decided, AskedOf, Fresh
<1>6. PlansAreCurrent'
  <2> SUFFICES ASSUME NEW v \in Workers, NEW j \in Instances, todo'[v][j].step # "done"
               PROVE  /\ tag'[j] \in DOMAIN request'[v].view
                      /\ tag'[j] # None
                      /\ todo'[v][j].old = registry'[j]
                      /\ todo'[v][j].new.schedule = tag'[j]
                      /\ todo'[v][j].step \in ToCall \union {"started", "stopped"}
                      /\ todo'[v][j].step \in ToCall => OnPlan(v, j)'
    BY DEF PlansAreCurrent
  <2>1. CASE j = i
    BY <1>1, <1>2, <1>4, <2>1 DEF ToCall
  <2>2. CASE j # i
    BY <1>4, <1>5, <2>2 DEF CycleInv, PlansAreCurrent
  <2>3. QED
    BY <2>1, <2>2
<1>7. QED
  BY <1>6 DEF CycleInv, Quiet, RecordsFollowTags, CachesAreCurrent

\* A record is written as it was planned, and only for its own instance.
LEMMA PutCycles ==
    ASSUME TypeInv, CycleInv, OneCycle, NEW w \in Workers, NEW i \in Instances, Put(w, i)
    PROVE  /\ CycleInv'
           /\ registry' = [registry EXCEPT ![i] = todo[w][i].new]
<1> USE DEF TypeInv, TypeOK
<1>1. /\ todo[w][i].step # "done" /\ pc[w] = "act" /\ todo[w][i].new \in Record
      /\ UNCHANGED <<tag, power, owner, pc, request, cache, events, registrar>>
      /\ todo' = [todo EXCEPT ![w][i] = Done]
  BY DEF Put, Turn, Planned, ec2Vars, tagVars
<1>2. todo[w][i].old = registry[i] /\ todo[w][i].new.schedule = tag[i] /\ tag[i] # None
  BY <1>1 DEF CycleInv, PlansAreCurrent
<1>3. registry' = [registry EXCEPT ![i] = todo[w][i].new]
  BY <1>2 DEF Put
<1>4. RecordsFollowTags'
  BY <1>1, <1>2, <1>3, Ec2Assumption DEF CycleInv, RecordsFollowTags
<1>5. ASSUME NEW v \in Workers, NEW j \in Instances
      PROVE  /\ v = w
             /\ todo'[v][j] = IF j = i THEN Done ELSE todo[v][j]
             /\ j # i => registry'[j] = registry[j]
  BY <1>1, <1>3 DEF OneCycle
<1>6. ASSUME NEW j \in Instances \ {i}, OnPlan(w, j) PROVE OnPlan(w, j)'
  <2>1. todo'[w][j] = todo[w][j] /\ registry'[j] = registry[j]
    BY <1>5
  <2>2. QED
    BY <1>1, <1>6, <2>1 DEF OnPlan, Decided, AskedOf, Fresh
<1>7. PlansAreCurrent'
  <2> SUFFICES ASSUME NEW v \in Workers, NEW j \in Instances, todo'[v][j].step # "done"
               PROVE  /\ tag'[j] \in DOMAIN request'[v].view
                      /\ tag'[j] # None
                      /\ todo'[v][j].old = registry'[j]
                      /\ todo'[v][j].new.schedule = tag'[j]
                      /\ todo'[v][j].step \in ToCall \union {"started", "stopped"}
                      /\ todo'[v][j].step \in ToCall => OnPlan(v, j)'
    BY DEF PlansAreCurrent
  <2>1. j # i
    BY <1>5 DEF Done
  <2>2. QED
    BY <1>1, <1>5, <1>6, <2>1 DEF CycleInv, PlansAreCurrent
<1>8. CachesAreCurrent'
  BY <1>1, <1>5 DEF CachesAreCurrent
<1>9. QED
  BY <1>1, <1>3, <1>4, <1>7, <1>8 DEF CycleInv, Quiet

\* Of the steps of a worker, those that there are when nothing is resized.
WorkerCalls(w, i) == StartOk(w, i) \/ StartFail(w, i) \/ StartIce(w, i) \/ StopOk(w, i) \/ StopFail(w, i)

LEMMA NoResizeSent ==
    ASSUME CycleInv, NEW w \in Workers, NEW i \in Instances
    PROVE  ~SendResize(w, i)
BY DEF CycleInv, PlansAreCurrent, SendResize, Turn, ToCall

LEMMA WorkerCycles ==
    ASSUME TypeInv, CycleInv, OneCycle, NoResizes, NEW w \in Workers, WorkerStep(w)
    PROVE  CycleInv'
<1> USE DEF TypeInv, TypeOK
<1>1. ASSUME NEW req \in requests, Preload(w, req) PROVE CycleInv'
  <2>1. \A v \in Workers, i \in Instances : v = w /\ todo[v][i].step = "done"
    BY <1>1 DEF Preload, Planned, OneCycle
  <2>2. cache'[w] = registry /\ UNCHANGED <<registry, tag, todo, events, registrar>>
    BY <1>1 DEF Preload, ec2Vars, tagVars
  <2>3. QED
    BY <2>1, <2>2 DEF OneCycle, CycleInv, Quiet, RecordsFollowTags, CachesAreCurrent, PlansAreCurrent
<1>2. CASE Describe(w)
  <2>1. /\ pc[w] = "describe" /\ cache[w] = registry
        /\ UNCHANGED <<registry, tag, power, owner, request, events, registrar>>
        /\ pc'[w] = "act"
    BY <1>2 DEF Describe, CycleInv, CachesAreCurrent, ec2Vars, tagVars
  <2>2. \A v \in Workers, i \in Instances :
            v = w /\ todo'[v][i] = Plan(request[w].view, registry[i], i)
    BY <1>2, <2>1 DEF Describe, OneCycle
  <2>3. PlansAreCurrent'
    <3> SUFFICES ASSUME NEW i \in Instances, todo'[w][i].step # "done"
                 PROVE  /\ tag'[i] \in DOMAIN request'[w].view
                        /\ tag'[i] # None
                        /\ todo'[w][i].old = registry'[i]
                        /\ todo'[w][i].new.schedule = tag'[i]
                        /\ todo'[w][i].step \in ToCall
                        /\ OnPlan(w, i)'
      BY <2>2 DEF PlansAreCurrent
    <3>1. \E seen \in PowerStates :
             /\ Fresh(i, seen)
             /\ todo'[w][i].step = StepSeen(seen, Decided(w, i, seen).action)
             /\ todo'[w][i].new = Stored(registry[i], Decided(w, i, seen).stored)
      BY <2>1, <2>2, PlanIsOnPlan
    <3>2. OnPlan(w, i)'
      BY <2>1, <3>1 DEF OnPlan, Decided, AskedOf, Fresh
    <3>3. QED
      BY <2>1, <2>2, <3>2, PlanIsOnPlan
  <2>4. CachesAreCurrent'
    BY <2>1 DEF OneCycle, CachesAreCurrent
  <2>5. QED
    BY <2>1, <2>3, <2>4 DEF CycleInv, Quiet, RecordsFollowTags
<1>3. ASSUME NEW i \in Instances, WorkerCalls(w, i) PROVE CycleInv'
  <2>1. todo[w][i].step \in ToCall
    BY <1>3 DEF WorkerCalls, StartOk, StartFail, StartIce, StopOk, StopFail, Turn, ToCall
  <2>2. /\ UNCHANGED <<tag, registry, pc, request, cache, events, registrar>>
        /\ \A j \in Instances \ {i} : power'[j] = power[j] /\ owner'[j] = owner[j]
    BY <1>3 DEF WorkerCalls, StartOk, StartFail, StartIce, StopOk, StopFail, StartsBy, StopsBy,
                ec2Vars, tagVars
  <2>3. \E step \in {"started", "stopped"}, state \in InstanceStates : To(w, i, step, state)
    BY <1>3 DEF WorkerCalls, StartOk, StartFail, StartIce, StopOk, StopFail, NoResizes,
                FailureState, Verdict, InstanceStates
  <2>4. QED
    BY <2>1, <2>2, <2>3, CallCycles
<1>4. ASSUME NEW i \in Instances, Put(w, i) PROVE CycleInv'
  BY <1>4, PutCycles
<1>5. CASE Finish(w)
  <2>1. \A i \in Instances : todo[w][i].step = "done"
    BY <1>5 DEF Finish, Idle, Done
  <2>2. \A v \in Workers : v = w
    BY DEF OneCycle
  <2>3. pc'[w] = "idle" /\ UNCHANGED <<registry, tag, cache, todo, events, registrar>>
    BY <1>5 DEF Finish, ec2Vars, tagVars
  <2>4. QED
    BY <2>1, <2>2, <2>3 DEF CycleInv, Quiet, RecordsFollowTags, CachesAreCurrent, PlansAreCurrent
<1>6. QED
  BY <1>1, <1>2, <1>3, <1>4, <1>5, NoResizeSent DEF WorkerStep, WorkerCalls

\* The steps there are.
LEMMA StepsThere ==
    ASSUME CycleInv, OneCycle, NoResizes, Next
    PROVE  Environment \/ Dispatch \/ \E w \in Workers : WorkerStep(w)
<1>1. ~RegistrarStep /\ ~RegistrarCrash
  BY DEF RegistrarStep, HandleEvent, Register, RegistrarCrash, CycleInv, Quiet
<1>2. \A w \in Workers : ~Crash(w)
  BY DEF Crash, Fault, OneCycle
<1>3. QED
  BY <1>1, <1>2 DEF Next, NoResizes

LEMMA NextCycles ==
    ASSUME TypeInv, CycleInv, OneCycle, NoResizes, [Next]_vars
    PROVE  CycleInv'
<1>1. CASE Dispatch \/ UNCHANGED vars
  <2>1. UNCHANGED <<tag, power, owner, registry, pc, request, cache, todo, events, registrar>>
    BY <1>1 DEF Dispatch, vars, ec2Vars, workerVars, tagVars
  <2>2. \A i \in Instances, seen \in PowerStates : Fresh(i, seen) => Fresh(i, seen)'
    BY <2>1 DEF Fresh
  <2>3. \A w \in Workers, i \in Instances : OnPlan(w, i) => OnPlan(w, i)'
    BY <2>1, <2>2 DEF OnPlan, Decided, AskedOf
  <2>4. QED
    BY <2>1, <2>3 DEF CycleInv, Quiet, RecordsFollowTags, CachesAreCurrent, PlansAreCurrent
<1>2. CASE Environment
  BY <1>2, EnvironmentCycles
<1>3. ASSUME NEW w \in Workers, WorkerStep(w) PROVE CycleInv'
  BY <1>3, WorkerCycles
<1>4. QED
  BY <1>1, <1>2, <1>3, StepsThere

-----------------------------------------------------------------------------
(* The refinement *)

StoredNow == [i \in Instances |-> StoredFor(i)]

\* StoredForIs, of the next state.
LEMMA StoredForNext ==
    ASSUME OneCycle, NEW w \in Workers, NEW i \in Instances
    PROVE  StoredFor(i)' = IF todo'[w][i].step \in HeldSteps THEN todo'[w][i].new.stored
                           ELSE IF registry'[i] # None THEN registry'[i].stored ELSE "unknown"
<1>1. CASE todo'[w][i].step \in HeldSteps
  <2>1. Called(i)' = {w}
    BY <1>1 DEF OneCycle, Called, HeldSteps
  <2>2. (CHOOSE v \in Called(i)' : TRUE) = w
    BY <2>1
  <2>3. QED
    BY <1>1, <2>1, <2>2 DEF StoredFor
<1>2. CASE todo'[w][i].step \notin HeldSteps
  <2>1. Called(i)' = {}
    BY <1>2 DEF OneCycle, Called, HeldSteps
  <2>2. QED
    BY <1>2, <2>1 DEF StoredFor
<1>3. QED
  BY <1>1, <1>2

\* A step about one instance leaves the states of the others as they were.
LEMMA StoredMoves ==
    ASSUME OneCycle, NEW w \in Workers, NEW i \in Instances,
           \A j \in Instances \ {i} : todo'[w][j] = todo[w][j] /\ registry'[j] = registry[j]
    PROVE  StoredNow' = [StoredNow EXCEPT ![i] = StoredFor(i)']
<1>1. \A j \in Instances \ {i} : StoredFor(j)' = StoredFor(j)
  BY StoredForIs, StoredForNext
<1>2. QED
  BY <1>1 DEF StoredNow

\* What the outcomes of an atomic cycle come to.
LEMMA FailIs ==
    ASSUME NEW i, NEW verdict, verdict \in {Verdict("start", "running"), Verdict("stop", "stopped")},
           StoredNow' = [StoredNow EXCEPT ![i] = FailureState(verdict)], UNCHANGED <<power, owner>>
    PROVE  Atomic!Fail(i, verdict)
BY DEF Atomic!Fail, Atomic!Store, Atomic!FailureState, FailureState, StoredNow, Verdict

LEMMA SucceedIs ==
    ASSUME NEW i, NEW verdict, NEW seen,
           StoredNow' = [StoredNow EXCEPT ![i] = verdict.stored],
           \/ verdict.action = "start" /\ Atomic!Starts(i, "scheduler")
           \/ verdict.action = "stop" /\ Atomic!Stops(i, "scheduler")
    PROVE  Atomic!Succeed(i, verdict, seen)
BY DEF Atomic!Succeed, Atomic!Store, StoredNow

\* What a worker does when its plan is carried out, or given up, is an atomic cycle.
LEMMA CallRefines ==
    ASSUME TypeInv, CycleInv, OneCycle, NoResizes, NEW w \in Workers, NEW i \in Instances,
           WorkerCalls(w, i)
    PROVE  Atomic!Cycle(i)
<1> USE DEF TypeInv, TypeOK
<1>1. /\ todo[w][i].step \in {"start", "stop"}
      /\ todo[w][i].new \in Record
      /\ UNCHANGED <<tag, registry>>
  BY DEF WorkerCalls, StartOk, StartFail, StartIce, StopOk, StopFail, Turn, Planned, ec2Vars
<1>2. tag[i] # None /\ registry[i] \in Record /\ registry[i] # None /\ OnPlan(w, i)
  BY <1>1, Ec2Assumption DEF CycleInv, PlansAreCurrent, RecordsFollowTags, ToCall
<1>3. PICK seen \in PowerStates :
          /\ Fresh(i, seen)
          /\ todo[w][i].step = StepSeen(seen, Decided(w, i, seen).action)
  BY <1>2 DEF OnPlan
<1> DEFINE asked == AskedOf(w, i)
           verdict == Decided(w, i, seen)
<1>4. asked.state \in ScheduleStates /\ asked.window \in BOOLEAN
  <2>1. request[w].view \in View /\ tag[i] \in DOMAIN request[w].view
    BY <1>1 DEF Planned, Handling, Request, CycleInv, PlansAreCurrent
  <2>2. asked \in Phase
    BY <2>1, Ec2Assumption DEF AskedOf, View
  <2>3. QED
    BY <2>2 DEF Phase
<1>5. /\ todo[w][i].step = "start" => verdict = Verdict("start", "running")
      /\ todo[w][i].step = "stop" => verdict = Verdict("stop", "stopped")
  BY <1>3, <1>4, DecideOutcome DEF Decided, StepSeen
<1>6. StoredNow[i] = registry[i].stored
  BY <1>1, <1>2, StoredForIs DEF StoredNow, HeldSteps
<1>7. verdict = Atomic!Decide(FlagsOf[tag[i]], asked.state, asked.window, StoredNow[i],
                              seen = "running")
  BY <1>6, SameDecision DEF Decided
<1>8. ASSUME NEW step \in {"started", "stopped"}, NEW state, To(w, i, step, state)
      PROVE  StoredNow' = [StoredNow EXCEPT ![i] = state]
  <2> DEFINE moved == [todo[w][i] EXCEPT !.step = step, !.new.stored = state]
  <2>1. moved.step = step /\ moved.new.stored = state
    BY <1>1 DEF Todo, Record
  <2>2. todo' = [todo EXCEPT ![w][i] = moved]
    BY <1>8 DEF To
  <2> HIDE DEF moved
  <2>3. /\ todo'[w][i] = moved
        /\ \A j \in Instances \ {i} : todo'[w][j] = todo[w][j]
    BY <2>2
  <2>4. StoredFor(i)' = state
    BY <2>1, <2>3, StoredForNext DEF HeldSteps
  <2>5. QED
    BY <1>1, <2>3, <2>4, StoredMoves
<1>9. Atomic!MaySee(i, seen)
  BY <1>3 DEF Fresh, Atomic!MaySee
<1> HIDE DEF verdict, asked
<1>10. Atomic!Succeed(i, verdict, seen) \/ Atomic!Fail(i, verdict)
  <2>1. CASE StartOk(w, i)
    <3>1. StoredNow' = [StoredNow EXCEPT ![i] = "running"]
      BY <2>1, <1>8 DEF StartOk
    <3>2. Atomic!Starts(i, "scheduler") /\ todo[w][i].step = "start"
      BY <2>1 DEF StartOk, Startable, StartsBy, Turn, Atomic!Starts
    <3>3. QED
      BY <1>5, <3>1, <3>2, SucceedIs DEF Verdict
  <2>2. CASE StartFail(w, i) \/ StartIce(w, i)
    <3>1. /\ StoredNow' = [StoredNow EXCEPT ![i] = "start_failed"]
          /\ todo[w][i].step = "start" /\ UNCHANGED <<power, owner>>
      BY <2>2, <1>8 DEF StartFail, StartIce, Turn, FailureState, Verdict, NoResizes, ec2Vars
    <3>2. QED
      BY <1>5, <3>1, FailIs DEF FailureState, Verdict
  <2>3. CASE StopOk(w, i)
    <3>1. StoredNow' = [StoredNow EXCEPT ![i] = "stopped"]
      BY <2>3, <1>8 DEF StopOk
    <3>2. Atomic!Stops(i, "scheduler") /\ todo[w][i].step = "stop"
      BY <2>3 DEF StopOk, Stoppable, StopsBy, Turn, Atomic!Stops
    <3>3. QED
      BY <1>5, <3>1, <3>2, SucceedIs DEF Verdict
  <2>4. CASE StopFail(w, i)
    <3>1. /\ StoredNow' = [StoredNow EXCEPT ![i] = "stop_failed"]
          /\ todo[w][i].step = "stop" /\ UNCHANGED <<power, owner>>
      BY <2>4, <1>8 DEF StopFail, Turn, FailureState, Verdict, ec2Vars
    <3>2. QED
      BY <1>5, <3>1, FailIs DEF FailureState, Verdict
  <2>5. QED
    BY <2>1, <2>2, <2>3, <2>4 DEF WorkerCalls
<1>11. QED
  BY <1>1, <1>2, <1>4, <1>7, <1>9, <1>10
     DEF Atomic!Cycle, StoredNow, Atomic!ScheduleStates, ScheduleStates, Atomic!PowerStates, PowerStates

\* A record written without a call is an atomic cycle; one of a call made is none.
LEMMA PutRefines ==
    ASSUME TypeInv, CycleInv, OneCycle, NEW w \in Workers, NEW i \in Instances, Put(w, i)
    PROVE  Atomic!Cycle(i) \/ UNCHANGED Atomic!vars
<1> USE DEF TypeInv, TypeOK
<1>1. /\ registry' = [registry EXCEPT ![i] = todo[w][i].new]
      /\ todo' = [todo EXCEPT ![w][i] = Done]
      /\ UNCHANGED <<tag, power, owner>>
      /\ todo[w][i].step \in {"sent", "skipStart", "started", "skipStop", "stopped", "nothing"}
      /\ todo[w][i].new \in Record /\ todo[w][i].new # None
  <2>1. registry' = [registry EXCEPT ![i] = todo[w][i].new]
    BY PutCycles
  <2>2. /\ todo' = [todo EXCEPT ![w][i] = Done]
        /\ UNCHANGED <<tag, power, owner>>
        /\ todo[w][i].step \in {"sent", "skipStart", "started", "skipStop", "stopped", "nothing"}
    BY DEF Put, Turn, ec2Vars
  <2>3. todo[w][i].new \in Record /\ todo[w][i].new # None
    BY <2>2, Ec2Assumption DEF Planned
  <2>4. QED
    BY <2>1, <2>2, <2>3
<1>2. tag[i] # None /\ registry[i] \in Record /\ registry[i] # None
  BY <1>1, Ec2Assumption DEF CycleInv, PlansAreCurrent, RecordsFollowTags
<1>3. /\ todo'[w][i] = Done
      /\ \A j \in Instances \ {i} : todo'[w][j] = todo[w][j] /\ registry'[j] = registry[j]
  BY <1>1
<1>4. StoredFor(i)' = todo[w][i].new.stored
  BY <1>1, <1>3, StoredForNext DEF HeldSteps, Done
<1>5. StoredNow' = [StoredNow EXCEPT ![i] = todo[w][i].new.stored]
  BY <1>3, <1>4, StoredMoves
<1>6. CASE todo[w][i].step \in HeldSteps
  <2>1. StoredNow[i] = todo[w][i].new.stored
    BY <1>6, StoredForIs DEF StoredNow
  <2>2. StoredNow' = StoredNow
    BY <1>5, <2>1 DEF StoredNow
  <2>3. QED
    BY <1>1, <2>2 DEF StoredNow, Atomic!vars
<1>7. CASE todo[w][i].step \notin HeldSteps
  <2>1. todo[w][i].step \in ToCall /\ OnPlan(w, i)
    BY <1>1, <1>7 DEF CycleInv, PlansAreCurrent, ToCall, HeldSteps
  <2>2. PICK seen \in PowerStates :
            /\ Fresh(i, seen)
            /\ todo[w][i].step = StepSeen(seen, Decided(w, i, seen).action)
            /\ todo[w][i].new = Stored(registry[i], Decided(w, i, seen).stored)
    BY <2>1 DEF OnPlan
  <2> DEFINE asked == AskedOf(w, i)
             verdict == Decided(w, i, seen)
  <2>3. asked.state \in ScheduleStates /\ asked.window \in BOOLEAN
    <3>1. request[w].view \in View /\ tag[i] \in DOMAIN request[w].view
      BY <1>1 DEF Planned, Handling, Request, CycleInv, PlansAreCurrent
    <3>2. asked \in Phase
      BY <3>1, Ec2Assumption DEF AskedOf, View
    <3>3. QED
      BY <3>2 DEF Phase
  <2>4. StoredNow[i] = registry[i].stored
    BY <1>2, <1>7, StoredForIs DEF StoredNow
  <2>5. verdict = Atomic!Decide(FlagsOf[tag[i]], asked.state, asked.window, StoredNow[i],
                                seen = "running")
    BY <2>4, SameDecision DEF Decided
  <2>6. StoredNow' = [StoredNow EXCEPT ![i] = verdict.stored]
    BY <1>2, <1>5, <2>2 DEF Stored, Record
  <2>7. \/ verdict.action = "start" /\ seen = "running"
        \/ verdict.action = "stop" /\ seen = "stopped"
        \/ verdict.action = "nothing"
    <3>1. verdict.action \in {"start", "stop", "nothing"}
      BY <2>3, DecideOutcome DEF Decided
    <3>2. QED
      BY <1>1, <2>2, <3>1 DEF StepSeen
  <2>8. Atomic!MaySee(i, seen) /\ Atomic!Succeed(i, verdict, seen)
    BY <1>1, <2>2, <2>6, <2>7 DEF Fresh, Atomic!MaySee, Atomic!Succeed, Atomic!Store, StoredNow
  <2> HIDE DEF verdict, asked
  <2>9. QED
    BY <1>1, <1>2, <2>3, <2>5, <2>8
       DEF Atomic!Cycle, StoredNow, Atomic!ScheduleStates, ScheduleStates, Atomic!PowerStates,
           PowerStates
<1>8. QED
  BY <1>6, <1>7

LEMMA StoredNowSame ==
    ASSUME UNCHANGED <<todo, registry>>
    PROVE  StoredNow' = StoredNow
BY DEF StoredNow, StoredFor, Called

\* Time and people do the same in both specifications.
LEMMA EnvironmentRefines ==
    ASSUME OneCycle, Environment
    PROVE  [Atomic!Next]_(Atomic!vars)
<1>1. CASE \E s \in Schedules, p \in Phases : PhaseChange(s, p)
  <2>1. UNCHANGED <<tag, power, owner>> /\ StoredNow' = StoredNow
    BY <1>1, StoredNowSame DEF PhaseChange, ec2Vars, workerVars
  <2>2. QED
    BY <2>1 DEF StoredNow, Atomic!vars
<1>2. ASSUME NEW i \in Instances, Settle(i) PROVE Atomic!Settle(i)
  <2>1. UNCHANGED <<tag, owner>> /\ StoredNow' = StoredNow
    BY <1>2, StoredNowSame DEF Settle, workerVars
  <2>2. QED
    BY <1>2, <2>1 DEF Settle, StoredNow, Atomic!Settle
<1>3. ASSUME NEW i \in Instances, UserStart(i) \/ UserStop(i) \/ \E t \in Sizes : UserModify(i, t)
      PROVE  Atomic!Use(i)
  <2>1. UNCHANGED tag /\ StoredNow' = StoredNow
    BY <1>3, StoredNowSame DEF UserStart, UserStop, UserModify, workerVars
  <2>2. \/ Atomic!Starts(i, "user")
        \/ Atomic!Stops(i, "user")
        \/ power[i] = "stopped" /\ owner' = [owner EXCEPT ![i] = "user"] /\ UNCHANGED power
    BY <1>3 DEF UserStart, UserStop, UserModify, StartsBy, StopsBy, Atomic!Starts, Atomic!Stops
  <2>3. QED
    BY <2>1, <2>2 DEF StoredNow, Atomic!Use
<1>4. QED
  BY <1>1, <1>2, <1>3 DEF Environment, OneCycle, Atomic!Next

LEMMA WorkerRefines ==
    ASSUME TypeInv, CycleInv, OneCycle, NoResizes, NEW w \in Workers, WorkerStep(w)
    PROVE  [Atomic!Next]_(Atomic!vars)
<1> USE DEF TypeInv, TypeOK
<1>1. CASE \/ \E req \in requests : Preload(w, req)
           \/ Finish(w)
  <2>1. UNCHANGED <<tag, power, owner>> /\ StoredNow' = StoredNow
    BY <1>1, StoredNowSame DEF Preload, Finish, ec2Vars
  <2>2. QED
    BY <2>1 DEF StoredNow, Atomic!vars
<1>2. CASE Describe(w)
  <2>1. UNCHANGED <<tag, power, owner, registry>> /\ pc[w] = "describe" /\ cache[w] = registry
    BY <1>2 DEF Describe, ec2Vars, CycleInv, CachesAreCurrent
  <2>2. ASSUME NEW i \in Instances PROVE StoredFor(i)' = StoredFor(i)
    <3>1. todo[w][i].step = "done"
      BY <2>1 DEF Planned
    <3>2. todo'[w][i] = Plan(request[w].view, registry[i], i)
      BY <1>2, <2>1 DEF Describe
    <3>3. todo'[w][i].step \in ToCall \union {"done"}
      BY <2>1, <3>2, PlanIsOnPlan
    <3>4. todo[w][i].step \notin HeldSteps /\ todo'[w][i].step \notin HeldSteps
      BY <3>1, <3>3 DEF HeldSteps, ToCall
    <3>5. StoredFor(i) = IF registry[i] # None THEN registry[i].stored ELSE "unknown"
      BY <3>4, StoredForIs
    <3>6. StoredFor(i)' = IF registry[i] # None THEN registry[i].stored ELSE "unknown"
      BY <2>1, <3>4, StoredForNext
    <3>7. QED
      BY <3>5, <3>6
  <2>3. StoredNow' = StoredNow
    BY <2>2 DEF StoredNow
  <2>4. QED
    BY <2>1, <2>3 DEF StoredNow, Atomic!vars
<1>3. ASSUME NEW i \in Instances, WorkerCalls(w, i) \/ Put(w, i)
      PROVE  Atomic!Cycle(i) \/ UNCHANGED Atomic!vars
  BY <1>3, CallRefines, PutRefines
<1>4. QED
  BY <1>1, <1>2, <1>3, NoResizeSent DEF WorkerStep, WorkerCalls, Atomic!Next

LEMMA NextRefines ==
    ASSUME TypeInv, CycleInv, OneCycle, NoResizes, [Next]_vars
    PROVE  [Atomic!Next]_(Atomic!vars)
<1>1. CASE Dispatch \/ UNCHANGED vars
  <2>1. UNCHANGED <<tag, power, owner>> /\ StoredNow' = StoredNow
    BY <1>1, StoredNowSame DEF Dispatch, vars, ec2Vars, workerVars
  <2>2. QED
    BY <2>1 DEF StoredNow, Atomic!vars
<1>2. CASE Environment
  BY <1>2, EnvironmentRefines
<1>3. ASSUME NEW w \in Workers, WorkerStep(w) PROVE [Atomic!Next]_(Atomic!vars)
  BY <1>3, WorkerRefines
<1>4. QED
  BY <1>1, <1>2, <1>3, StepsThere

LEMMA InitRefines == Init => Atomic!Init
<1> SUFFICES ASSUME Init PROVE Atomic!Init
  OBVIOUS
<1>1. ASSUME NEW i \in Instances PROVE StoredFor(i) = "unknown"
  <2>1. Called(i) = {}
    BY DEF Init, Idle, Done, Called
  <2>2. registry[i] # None => registry[i].stored = "unknown"
    BY DEF Init
  <2>3. QED
    BY <2>1, <2>2 DEF StoredFor
<1>2. tag \in [Instances -> Schedules \union {None}]
  BY Ec2Assumption DEF Init
<1>3. QED
  BY <1>1, <1>2 DEF Init, Atomic!Init

\* With one cycle at a time, that does not die, and no instance types to choose from,
\* the detailed specification implements the abstract one, for any number of instances
\* and schedules, whatever users and failing calls do between the steps of a cycle.
THEOREM CyclesAtomic == OneCycle /\ NoResizes => (Spec => CyclesAreAtomic)
<1> SUFFICES ASSUME OneCycle, NoResizes PROVE Spec => CyclesAreAtomic
  OBVIOUS
<1>1. Init => TypeInv /\ CycleInv /\ Atomic!Init
  BY InitTypes, InitCycles, InitRefines
<1>2. TypeInv /\ CycleInv /\ [Next]_vars => TypeInv' /\ CycleInv' /\ [Atomic!Next]_(Atomic!vars)
  BY NextTypes, NextCycles, NextRefines
<1>3. QED
  BY <1>1, <1>2, PTL DEF Spec, CyclesAreAtomic, Atomic!Spec

-----------------------------------------------------------------------------
(* What the registry says is true *)

TruthOf(i) ==
    /\ StoredNow[i] \in {"unknown", "retain-running"} => owner[i] = "user"
    /\ owner[i] = "scheduler" =>
          /\ StoredNow[i] = "running" => power[i] \in {"pending", "running"}
          /\ StoredNow[i] = "stopped" => power[i] \in {"stopping", "stopped"}

LEMMA TruthIs == Atomic!Truth <=> \A i \in Instances : TruthOf(i)
BY DEF Atomic!Truth, TruthOf, StoredNow

\* An atomic cycle keeps it: a call and its stored state go together, and an instance
\* nobody else touched is as it was seen.
LEMMA CycleTruth ==
    ASSUME TypeInv, NEW i \in Instances, TruthOf(i), Atomic!Cycle(i)
    PROVE  TruthOf(i)'
<1> USE DEF TypeInv, TypeOK
<1>1. PICK desired \in ScheduleStates, window \in BOOLEAN, seen \in PowerStates :
          LET verdict == Atomic!Decide(FlagsOf[tag[i]], desired, window, StoredNow[i],
                                       seen = "running")
          IN  Atomic!MaySee(i, seen) /\ (Atomic!Succeed(i, verdict, seen) \/ Atomic!Fail(i, verdict))
  BY DEF Atomic!Cycle, StoredNow, Atomic!ScheduleStates, ScheduleStates, Atomic!PowerStates,
         PowerStates
<1> DEFINE verdict == Decide(FlagsOf[tag[i]], desired, window, StoredNow[i], seen = "running")
<1>2. Atomic!MaySee(i, seen) /\ (Atomic!Succeed(i, verdict, seen) \/ Atomic!Fail(i, verdict))
  BY <1>1, SameDecision
<1>3. /\ verdict.action \in {"start", "stop", "nothing"}
      /\ verdict.action = "start" => verdict.stored = "running"
      /\ verdict.action = "stop" => verdict.stored = "stopped"
  BY DecideOutcome DEF Verdict
<1>4. verdict.action = "nothing" =>
          /\ verdict.stored \in {"any", "stopped", "running", "retain-running"}
          /\ verdict.stored = "running" => StoredNow[i] = "running"
          /\ verdict.stored = "stopped" => StoredNow[i] \in {"unknown", "retain-running", "stopped"}
          /\ verdict.stored = "retain-running" =>
                StoredNow[i] = "retain-running" \/ (StoredNow[i] = "stopped" /\ seen = "running")
  BY DEF Decide, DecideStopped, DecideRunning, Verdict, ScheduleStates
<1> HIDE DEF verdict
<1>5. i \in DOMAIN StoredNow
  BY DEF StoredNow
<1>6. CASE Atomic!Fail(i, verdict)
  <2>1. /\ verdict.action \in {"start", "stop"} /\ UNCHANGED <<power, owner>>
        /\ StoredNow' = [StoredNow EXCEPT ![i] = Atomic!FailureState(verdict)]
    BY <1>6 DEF Atomic!Fail, Atomic!Store, StoredNow
  <2>2. StoredNow'[i] \in {"start_failed", "stop_failed"}
    BY <1>5, <2>1 DEF Atomic!FailureState
  <2>3. QED
    BY <2>1, <2>2 DEF TruthOf
<1>7. CASE Atomic!Succeed(i, verdict, seen)
  <2>1. StoredNow' = [StoredNow EXCEPT ![i] = verdict.stored]
    BY <1>7 DEF Atomic!Succeed, Atomic!Store, StoredNow
  <2>2. StoredNow'[i] = verdict.stored
    BY <1>5, <2>1
  <2>3. owner[i] = "scheduler" => /\ seen = "running" => power[i] = "running"
                                  /\ seen = "stopped" => power[i] = "stopped"
    BY <1>2 DEF Atomic!MaySee
  <2>4. CASE verdict.action = "start" /\ Atomic!Starts(i, "scheduler")
    <3>1. power'[i] \in {"pending", "running"}
      BY <2>4 DEF Atomic!Starts, PowerStates
    <3>2. QED
      BY <1>3, <2>2, <2>4, <3>1 DEF TruthOf
  <2>5. CASE verdict.action = "stop" /\ Atomic!Stops(i, "scheduler")
    <3>1. power'[i] \in {"stopping", "stopped"}
      BY <2>5 DEF Atomic!Stops, PowerStates
    <3>2. QED
      BY <1>3, <2>2, <2>5, <3>1 DEF TruthOf
  <2>6. CASE /\ \/ verdict.action = "start" /\ seen = "running"
                \/ verdict.action = "stop" /\ seen = "stopped"
             /\ UNCHANGED <<power, owner>>
    BY <1>3, <2>2, <2>3, <2>6 DEF TruthOf
  <2>7. CASE verdict.action = "nothing" /\ UNCHANGED <<power, owner>>
    BY <1>4, <2>2, <2>3, <2>7 DEF TruthOf
  <2>8. QED
    BY <1>7, <2>4, <2>5, <2>6, <2>7 DEF Atomic!Succeed
<1>8. QED
  BY <1>2, <1>6, <1>7

\* So does everybody, for every instance.
LEMMA NextTruth == TypeInv /\ Atomic!Truth /\ [Atomic!Next]_(Atomic!vars) => Atomic!Truth'
<1> SUFFICES ASSUME TypeInv, Atomic!Truth, [Atomic!Next]_(Atomic!vars),
                    NEW i \in Instances
             PROVE  TruthOf(i)'
  BY TruthIs DEF Atomic!Truth, TruthOf, StoredNow
<1> USE DEF TypeInv, TypeOK
<1>1. TruthOf(i)
  BY TruthIs
<1>2. CASE UNCHANGED Atomic!vars
  BY <1>1, <1>2 DEF Atomic!vars, TruthOf, StoredNow
<1>3. ASSUME NEW j \in Instances, Atomic!Settle(j) PROVE TruthOf(i)'
  BY <1>1, <1>3 DEF Atomic!Settle, TruthOf, StoredNow
<1>4. ASSUME NEW j \in Instances, Atomic!Use(j) PROVE TruthOf(i)'
  <2>1. StoredNow' = StoredNow
    BY <1>4 DEF Atomic!Use, StoredNow
  <2>2. \/ power'[i] = power[i] /\ owner'[i] = owner[i]
        \/ owner'[i] = "user"
    BY <1>4 DEF Atomic!Use, Atomic!Starts, Atomic!Stops
  <2>3. QED
    BY <1>1, <2>1, <2>2 DEF TruthOf
<1>5. ASSUME NEW j \in Instances, Atomic!Cycle(j) PROVE TruthOf(i)'
  <2>1. CASE j = i
    BY <1>1, <1>5, <2>1, CycleTruth
  <2>2. CASE j # i
    <3>1. /\ power'[i] = power[i] /\ owner'[i] = owner[i]
          /\ \E x : StoredNow' = [StoredNow EXCEPT ![j] = x]
      BY <1>5, <2>2 DEF Atomic!Cycle, Atomic!Succeed, Atomic!Fail, Atomic!Store, Atomic!Starts,
                        Atomic!Stops, StoredNow
    <3>2. StoredNow'[i] = StoredNow[i]
      BY <2>2, <3>1 DEF StoredNow
    <3>3. QED
      BY <1>1, <3>1, <3>2 DEF TruthOf
  <2>3. QED
    BY <2>1, <2>2
<1>6. QED
  BY <1>2, <1>3, <1>4, <1>5 DEF Atomic!Next

LEMMA TruthThroughout ==
    ASSUME OneCycle, NoResizes
    PROVE  Spec => []Atomic!Truth
<1>1. Init => TypeInv /\ CycleInv /\ Atomic!Truth
  BY InitTypes, InitCycles, InitRefines DEF Atomic!Init, Atomic!Truth
<1>2. TypeInv /\ CycleInv /\ Atomic!Truth /\ [Next]_vars
        => TypeInv' /\ CycleInv' /\ Atomic!Truth'
  BY NextTypes, NextCycles, NextRefines, NextTruth
<1>3. QED
  BY <1>1, <1>2, PTL DEF Spec

\* Between cycles the state an instance has in the abstract specification is its record's.
LEMMA RecordIsStored ==
    ASSUME NEW i \in Instances, registry[i] # None, ~InHand(i)
    PROVE  StoredNow[i] = registry[i].stored
<1>1. Called(i) = {}
  BY DEF InHand, Called
<1>2. QED
  BY <1>1 DEF StoredNow, StoredFor

\* For any number of instances: between cycles a record in retain-running is that of an
\* instance its users started, whatever they and failing calls do meanwhile.
THEOREM RetainedSafe == OneCycle /\ NoResizes => (Spec => []RetainedIsUserStarted)
<1> SUFFICES ASSUME OneCycle, NoResizes PROVE Spec => []RetainedIsUserStarted
  OBVIOUS
<1>1. Atomic!Truth => RetainedIsUserStarted
  BY TruthIs, RecordIsStored DEF TruthOf, RetainedIsUserStarted
<1>2. QED
  BY <1>1, TruthThroughout, PTL

\* For any number of instances: between cycles the record of an instance that only the
\* scheduler touched says what was last done to it.
THEOREM StoredSafe == OneCycle /\ NoResizes => (Spec => []StoredIsLastAction)
<1> SUFFICES ASSUME OneCycle, NoResizes PROVE Spec => []StoredIsLastAction
  OBVIOUS
<1>1. Atomic!Truth => StoredIsLastAction
  BY TruthIs, RecordIsStored DEF TruthOf, StoredIsLastAction
<1>2. QED
  BY <1>1, TruthThroughout, PTL

-----------------------------------------------------------------------------
(* Calls are made on transitions *)

\* A stop that a worker is about to send changes what the record says, or is enforced.
LEMMA StopIsTransition ==
    ASSUME TypeInv, CycleInv, RetainInv, NEW w \in Workers, NEW i \in Instances,
           todo[w][i].step = "stop", registry[i] # None
    PROVE  \/ Has(registry[i], "enforced")
           \/ registry[i].stored \notin {"stopped", "retain-running"}
<1> USE DEF TypeInv, TypeOK
<1>1. tag[i] \in Schedules /\ registry[i].schedule = tag[i] /\ OnPlan(w, i)
  BY DEF CycleInv, PlansAreCurrent, RecordsFollowTags, ToCall
<1>2. PICK seen \in PowerStates : todo[w][i].step = StepSeen(seen, Decided(w, i, seen).action)
  BY <1>1 DEF OnPlan
<1>3. Decided(w, i, seen).action = "stop"
  BY <1>2 DEF StepSeen
<1>4. \/ FlagsOf[tag[i]].enforced
      \/ /\ registry[i].stored # "stopped"
         /\ registry[i].stored = "retain-running" => ~FlagsOf[tag[i]].retainRunning
  BY <1>3 DEF Decided, Decide, DecideStopped, DecideRunning, Verdict
<1>5. registry[i].stored = "retain-running" => FlagsOf[tag[i]].retainRunning
  BY <1>1 DEF RetainInv, RetainOK, Has
<1>6. QED
  BY <1>1, <1>4, <1>5 DEF Has

LEMMA StartIsTransition ==
    ASSUME TypeInv, CycleInv, NEW w \in Workers, NEW i \in Instances,
           todo[w][i].step = "start", registry[i] # None
    PROVE  \/ Has(registry[i], "enforced")
           \/ request[w].view[todo[w][i].old.schedule].window
           \/ registry[i].stored \notin {"running", "retain-running"}
<1> USE DEF TypeInv, TypeOK
<1>1. /\ tag[i] \in Schedules /\ registry[i].schedule = tag[i] /\ OnPlan(w, i)
      /\ todo[w][i].old = registry[i]
  BY DEF CycleInv, PlansAreCurrent, RecordsFollowTags, ToCall
<1>2. PICK seen \in PowerStates : todo[w][i].step = StepSeen(seen, Decided(w, i, seen).action)
  BY <1>1 DEF OnPlan
<1>3. Decided(w, i, seen).action = "start"
  BY <1>2 DEF StepSeen
<1>4. \/ FlagsOf[tag[i]].enforced
      \/ AskedOf(w, i).window
      \/ registry[i].stored \notin {"running", "retain-running"}
  BY <1>3 DEF Decided, Decide, DecideStopped, DecideRunning, Verdict
<1>5. QED
  BY <1>1, <1>4 DEF Has, AskedOf

LEMMA InvariantsThroughout ==
    ASSUME OneCycle, NoResizes
    PROVE  Spec => [](TypeInv /\ CycleInv /\ RetainInv)
<1>1. Init => TypeInv /\ CycleInv
  BY InitTypes, InitCycles
<1>2. Init => RetainInv
  BY DEF Init, RetainInv, RetainOK, NoCache, Idle, Done
<1>3. TypeInv /\ CycleInv /\ RetainInv /\ [Next]_vars => TypeInv' /\ CycleInv' /\ RetainInv'
  BY NextTypes, NextCycles, NextRetains
<1>4. QED
  BY <1>1, <1>2, <1>3, PTL DEF Spec

\* Without enforcement no instance is stopped whose record, at the moment of the call,
\* says that it is stopped or retained.
THEOREM StopsSafe == OneCycle /\ NoResizes => (Spec => StopsOnTransition)
<1> SUFFICES ASSUME OneCycle, NoResizes PROVE Spec => StopsOnTransition
  OBVIOUS
<1>1. TypeInv /\ CycleInv /\ RetainInv /\ [Next]_vars =>
        [\A i \in Instances : StopCall(i) /\ registry[i] # None =>
            \/ Has(registry[i], "enforced")
            \/ registry[i].stored \notin {"stopped", "retain-running"}]_vars
  BY StopIsTransition DEF StopCall
<1>2. QED
  BY <1>1, InvariantsThroughout, PTL DEF Spec, StopsOnTransition

\* Nor is one started, outside a maintenance window, that its record says is running.
THEOREM StartsSafe == OneCycle /\ NoResizes => (Spec => StartsOnTransition)
<1> SUFFICES ASSUME OneCycle, NoResizes PROVE Spec => StartsOnTransition
  OBVIOUS
<1>1. TypeInv /\ CycleInv /\ [Next]_vars =>
        [\A i \in Instances, w \in Workers : StartCall(i, w) /\ registry[i] # None =>
            \/ Has(registry[i], "enforced")
            \/ request[w].view[todo[w][i].old.schedule].window
            \/ registry[i].stored \notin {"running", "retain-running"}]_vars
  BY StartIsTransition DEF StartCall
<1>2. QED
  BY <1>1, InvariantsThroughout, PTL DEF Spec, StartsOnTransition
=============================================================================
