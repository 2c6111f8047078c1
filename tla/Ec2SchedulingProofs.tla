------------------------- MODULE Ec2SchedulingProofs -------------------------
(***************************************************************************)
(* Proofs about Ec2Scheduling, for any instances, schedules, workers and   *)
(* resize handlers, any flags and any bound.                               *)
(***************************************************************************)
EXTENDS Ec2Scheduling, SequenceTheorems, TLAPS

\* A worker that is busy holds a request.
Handling == \A w \in Workers : pc[w] # "idle" => request[w] \in Request

\* What a worker still has to do rests on a record whose schedule exists, and a
\* resize decision on a period that names a size.
Planned ==
    \A w \in Workers, i \in Instances :
        todo[w][i].step # "done" =>
            /\ pc[w] = "act"
            /\ todo[w][i].old \in Record /\ todo[w][i].new \in Record
            /\ todo[w][i].old.schedule \in Schedules
            /\ todo[w][i].step = "resize" =>
                  request[w].view[todo[w][i].old.schedule].size \in Sizes

\* A resize handler at work has a job, and a type to try until it writes.
Resizing ==
    \A r \in Resizers :
        rpc[r] # "idle" =>
            /\ job[r] \in Job
            /\ rpc[r] # "put" => job[r].types # <<>>

TypeInv == TypeOK /\ Handling /\ Planned /\ Resizing

-----------------------------------------------------------------------------
(* Lemmas about the operators *)

\* A verdict is a decision: its action and stored state are ones there are.
LEMMA DecideType ==
    ASSUME NEW flags \in Flags, NEW desired \in ScheduleStates, NEW window \in BOOLEAN,
           NEW stored \in InstanceStates, NEW isRunning \in BOOLEAN
    PROVE  Decide(flags, desired, window, stored, isRunning) \in
               [action: {"start", "stop", "nothing"}, stored: InstanceStates]
BY DEF Decide, DecideStopped, DecideRunning, Verdict, Flags, InstanceStates, ScheduleStates

\* A record fetched for an instance is a record.
LEMMA FetchType ==
    ASSUME TypeOK, NEW i \in Instances, NEW cached \in Record \union {None}
    PROVE  Fetch(cached, i) \in Record
BY DEF Fetch, TypeOK, Record, InstanceStates

\* The plan for an instance is well formed: it is done, or it rests on a record
\* whose schedule exists, and is a resize only for a period that names a size.
LEMMA PlanType ==
    ASSUME TypeOK, NEW i \in Instances, NEW cached \in Record \union {None},
           NEW view \in View
    PROVE  LET t == Plan(view, cached, i)
           IN  /\ t \in Todo
               /\ t.step # "done" =>
                     /\ t.old \in Record /\ t.new \in Record
                     /\ t.old.schedule \in Schedules
                     /\ t.step = "resize" => view[t.old.schedule].size \in Sizes
<1> DEFINE rec == Fetch(cached, i)
           asked == view[rec.schedule]
           resize == asked.state = "running" /\ asked.size \notin {None, size[i]}
           decided == Decide(FlagsOf[rec.schedule], asked.state, asked.window,
                             rec.stored, power[i] = "running")
           verdict == IF resize THEN Verdict("resize", "running") ELSE decided
<1>1. rec \in Record /\ DOMAIN view \subseteq Schedules
  BY FetchType DEF View
<1>2. CASE tag[i] = None \/ rec.schedule \notin DOMAIN view
  BY <1>2 DEF Plan, Done, Todo, Steps
<1>3. CASE ~(tag[i] = None \/ rec.schedule \notin DOMAIN view)
  <2>1. asked \in Phase /\ FlagsOf[rec.schedule] \in Flags /\ rec.stored \in InstanceStates
    BY <1>1, <1>3, Ec2Assumption DEF Record, View
  <2>2. decided \in [action: {"start", "stop", "nothing"}, stored: InstanceStates]
    BY <2>1, DecideType DEF Phase
  <2>3. /\ verdict.stored \in InstanceStates
        /\ verdict.action \in {"start", "stop", "nothing", "resize"}
        /\ verdict.action = "resize" => asked.size \in Sizes
    BY <2>1, <2>2 DEF Verdict, Phase, InstanceStates
  <2>4. /\ StepFor(i, verdict.action) \in Steps
        /\ StepFor(i, verdict.action) = "resize" => asked.size \in Sizes
    BY <2>3 DEF StepFor, Steps
  <2>5. Plan(view, cached, i) = [step |-> StepFor(i, verdict.action), old |-> rec,
                                 new |-> Stored(rec, verdict.stored)]
    BY <1>3 DEF Plan
  <2>6. Stored(rec, verdict.stored) \in Record
    BY <1>1, <2>3 DEF Stored, Record
  <2> HIDE DEF rec, verdict
  <2>7. QED
    BY <1>1, <1>3, <2>4, <2>5, <2>6 DEF Todo
<1>4. QED
  BY <1>2, <1>3

-----------------------------------------------------------------------------
(* Type correctness *)

\* Nothing the instances, the schedules and the people do touches a handler.
LEMMA EnvironmentTypes == TypeInv /\ Environment => TypeInv'
<1> SUFFICES ASSUME TypeInv, Environment PROVE TypeInv'
  OBVIOUS
<1> USE DEF TypeInv, TypeOK
<1>1. ASSUME NEW s \in Schedules, NEW p \in Phases, PhaseChange(s, p) PROVE TypeInv'
  BY <1>1 DEF PhaseChange, ec2Vars, workerVars, resizeVars, tagVars, Handling, Planned, Resizing
<1>2. ASSUME NEW i \in Instances, Settle(i) PROVE TypeInv'
  BY <1>2 DEF Settle, PowerStates, workerVars, resizeVars, tagVars, Handling, Planned, Resizing
<1>3. ASSUME NEW i \in Instances, UserStart(i) \/ UserStop(i) PROVE TypeInv'
  BY <1>3 DEF UserStart, UserStop, StartsBy, StopsBy, PowerStates, workerVars, resizeVars,
              tagVars, Handling, Planned, Resizing
<1>4. ASSUME NEW i \in Instances, NEW t \in Sizes, UserModify(i, t) PROVE TypeInv'
  BY <1>4 DEF UserModify, workerVars, resizeVars, tagVars, Handling, Planned, Resizing
<1>5. ASSUME NEW i \in Instances, NEW s \in Schedules \union {None}, UserTag(i, s)
      PROVE  TypeInv'
  <2>1. tag' \in [Instances -> Schedules \union {None}]
    BY <1>5 DEF UserTag
  <2>2. events' \subseteq Event
    <3> DEFINE put == s # None
    <3>1. put \in BOOLEAN
      OBVIOUS
    <3>2. events' = events \union {[instance |-> i, tagged |-> put]}
      BY <1>5 DEF UserTag
    <3> HIDE DEF put
    <3>3. [instance |-> i, tagged |-> put] \in Event
      BY <3>1 DEF Event
    <3>4. QED
      BY <3>2, <3>3
  <2>3. QED
    BY <1>5, <2>1, <2>2 DEF UserTag, workerVars, resizeVars, Handling, Planned, Resizing
<1>6. QED
  BY <1>1, <1>2, <1>3, <1>4, <1>5, Ec2Assumption DEF Environment

\* The registration handler writes records made of a tag and the unknown state.
LEMMA RegistrarTypes == TypeInv /\ (RegistrarStep \/ RegistrarCrash) => TypeInv'
<1> SUFFICES ASSUME TypeInv, RegistrarStep \/ RegistrarCrash PROVE TypeInv'
  OBVIOUS
<1> USE DEF TypeInv, TypeOK
<1>1. ASSUME NEW e \in events, Deregister(e) PROVE TypeInv'
  <2>1. e.instance \in Instances /\ events' \subseteq Event /\ faults' \in Nat
    BY <1>1 DEF Deregister, Deliver, Event, Fault
  <2>2. QED
    BY <1>1, <2>1 DEF Deregister, ec2Vars, workerVars, resizeVars, Handling, Planned, Resizing
<1>2. ASSUME NEW e \in events, DescribeForRegistration(e) PROVE TypeInv'
  <2>1. e.instance \in Instances /\ events' \subseteq Event /\ faults' \in Nat
    BY <1>2 DEF DescribeForRegistration, Deliver, Event, Fault
  <2>2. QED
    BY <1>2, <2>1 DEF DescribeForRegistration, ec2Vars, workerVars, resizeVars, Handling,
                      Planned, Resizing
<1>3. CASE Register
  BY <1>3 DEF Register, Record, InstanceStates, ec2Vars, workerVars, resizeVars, Handling,
              Planned, Resizing
<1>4. CASE RegistrarCrash
  <2>1. registrar.instance \in Instances
    BY <1>4 DEF RegistrarCrash
  <2>2. [instance |-> registrar.instance, tagged |-> TRUE] \in Event
    BY <2>1 DEF Event
  <2>3. events' \subseteq Event
    BY <1>4, <2>2 DEF RegistrarCrash
  <2>4. QED
    BY <1>4, <2>3 DEF RegistrarCrash, Fault, ec2Vars, workerVars, resizeVars, Handling,
                      Planned, Resizing
<1>5. QED
  BY <1>1, <1>2, <1>3, <1>4 DEF RegistrarStep, HandleEvent

\* Moving on one step of a plan keeps the plans well formed.
LEMMA ToTypes ==
    ASSUME TypeInv, NEW w \in Workers, NEW i \in Instances, todo[w][i].step # "done",
           NEW step \in Steps, step # "resize", NEW state \in InstanceStates,
           To(w, i, step, state), UNCHANGED <<pc, request>>
    PROVE  todo' \in [Workers -> [Instances -> Todo]] /\ Planned'
<1> DEFINE moved == [todo[w][i] EXCEPT !.step = step, !.new.stored = state]
<1>1. /\ todo[w][i] \in Todo /\ todo[w][i].old \in Record /\ todo[w][i].new \in Record
      /\ todo[w][i].old.schedule \in Schedules /\ pc[w] = "act"
  BY DEF TypeInv, TypeOK, Planned
<1>2. /\ moved \in Todo /\ moved.step = step /\ moved.old = todo[w][i].old
      /\ moved.new \in Record
  BY <1>1 DEF Todo, Record
<1>3. todo' = [todo EXCEPT ![w][i] = moved]
  BY DEF To
<1> HIDE DEF moved
<1>4. todo' \in [Workers -> [Instances -> Todo]]
  BY <1>2, <1>3 DEF TypeInv, TypeOK
<1>5. ASSUME NEW v \in Workers, NEW j \in Instances
      PROVE  todo'[v][j] = IF v = w /\ j = i THEN moved ELSE todo[v][j]
  BY <1>3 DEF TypeInv, TypeOK
<1>6. Planned'
  BY <1>1, <1>2, <1>5 DEF TypeInv, Planned
<1>7. QED
  BY <1>4, <1>6

\* The handlers' calls to EC2 move an instance between its states and a plan on.
LEMMA CallTypes ==
    ASSUME TypeInv, NEW w \in Workers, NEW i \in Instances,
           \/ StartOk(w, i) \/ StartFail(w, i) \/ StartIce(w, i)
           \/ StopOk(w, i) \/ StopFail(w, i) \/ SendResize(w, i)
    PROVE  TypeInv'
<1> USE DEF TypeInv, TypeOK
<1>1. todo[w][i].step # "done"
  BY DEF StartOk, StartFail, StartIce, StopOk, StopFail, SendResize, Turn
<1>2. ASSUME NEW step \in {"started", "stopped", "ice", "sent"}, NEW state \in InstanceStates,
             To(w, i, step, state), UNCHANGED <<pc, request>>
      PROVE  todo' \in [Workers -> [Instances -> Todo]] /\ Planned'
  BY <1>1, <1>2, ToTypes DEF Steps
<1>3. CASE StartOk(w, i)
  <2>1. todo' \in [Workers -> [Instances -> Todo]] /\ Planned'
    BY <1>2, <1>3 DEF StartOk, InstanceStates
  <2>2. QED
    BY <1>3, <2>1 DEF StartOk, StartsBy, PowerStates, resizeVars, tagVars, Handling, Resizing
<1>4. CASE StartFail(w, i)
  <2>1. todo' \in [Workers -> [Instances -> Todo]] /\ Planned'
    BY <1>2, <1>4 DEF StartFail, FailureState, Verdict, InstanceStates
  <2>2. faults' \in Nat
    BY <1>4 DEF StartFail, Fault
  <2>3. QED
    BY <1>4, <2>1, <2>2 DEF StartFail, ec2Vars, resizeVars, tagVars, Handling, Resizing
<1>5. CASE StartIce(w, i)
  <2>1. todo' \in [Workers -> [Instances -> Todo]] /\ Planned'
    <3>1. CASE Len(Preferred[i]) >= 2
      BY <1>2, <1>5, <3>1 DEF StartIce, InstanceStates
    <3>2. CASE ~(Len(Preferred[i]) >= 2)
      BY <1>2, <1>5, <3>2 DEF StartIce, FailureState, Verdict, InstanceStates
    <3>3. QED
      BY <3>1, <3>2
  <2>2. faults' \in Nat
    BY <1>5 DEF StartIce, Fault
  <2>3. QED
    BY <1>5, <2>1, <2>2 DEF StartIce, ec2Vars, resizeVars, tagVars, Handling, Resizing
<1>6. CASE StopOk(w, i)
  <2>1. todo' \in [Workers -> [Instances -> Todo]] /\ Planned'
    BY <1>2, <1>6 DEF StopOk, InstanceStates
  <2>2. QED
    BY <1>6, <2>1 DEF StopOk, StopsBy, PowerStates, resizeVars, tagVars, Handling, Resizing
<1>7. CASE StopFail(w, i)
  <2>1. todo' \in [Workers -> [Instances -> Todo]] /\ Planned'
    BY <1>2, <1>7 DEF StopFail, FailureState, Verdict, InstanceStates
  <2>2. faults' \in Nat
    BY <1>7 DEF StopFail, Fault
  <2>3. QED
    BY <1>7, <2>1, <2>2 DEF StopFail, ec2Vars, resizeVars, tagVars, Handling, Resizing
<1>8. CASE SendResize(w, i)
  <2>1. todo' \in [Workers -> [Instances -> Todo]] /\ Planned'
    BY <1>2, <1>8 DEF SendResize, InstanceStates
  <2>2. TypesFor(w, i) \in TypeLists
    BY <1>8, <1>1 DEF SendResize, TypesFor, TypeLists, Planned
  <2>3. messages' \subseteq Message
    BY <1>8, <2>2 DEF SendResize, Message
  <2>4. QED
    BY <1>8, <2>1, <2>3 DEF SendResize, ec2Vars, tagVars, Handling, Resizing
<1>9. QED
  BY <1>3, <1>4, <1>5, <1>6, <1>7, <1>8

\* What remains of a handler's cycle: the request it takes and the view in it, its
\* plan, its writes, and its end.
LEMMA CycleTypes ==
    ASSUME TypeInv, NEW w \in Workers,
           \/ \E req \in requests : Preload(w, req)
           \/ Describe(w) \/ Finish(w) \/ Crash(w)
           \/ \E i \in Instances : Put(w, i)
    PROVE  TypeInv'
<1> USE DEF TypeInv, TypeOK
<1>1. ASSUME NEW req \in requests, Preload(w, req) PROVE TypeInv'
  BY <1>1 DEF Preload, ec2Vars, resizeVars, tagVars, Handling, Planned, Resizing
<1>2. CASE Describe(w)
  <2>1. pc[w] = "describe" /\ request[w].view \in View
    BY <1>2 DEF Describe, Handling, Request
  <2> DEFINE plan == [i \in Instances |-> Plan(request[w].view, cache[w][i], i)]
  <2>2. ASSUME NEW i \in Instances
        PROVE  /\ plan[i] \in Todo
               /\ plan[i].step # "done" =>
                     /\ plan[i].old \in Record /\ plan[i].new \in Record
                     /\ plan[i].old.schedule \in Schedules
                     /\ plan[i].step = "resize" =>
                           request[w].view[plan[i].old.schedule].size \in Sizes
    BY <2>1, PlanType
  <2>3. todo' = [todo EXCEPT ![w] = plan]
    BY <1>2 DEF Describe
  <2>4. plan \in [Instances -> Todo]
    BY <2>2
  <2> HIDE DEF plan
  <2>5. Planned'
    BY <1>2, <2>2, <2>3, <2>4 DEF Describe, Planned
  <2>6. cache' \in [Workers -> [Instances -> Record \union {None}]]
    BY <1>2 DEF Describe, NoCache
  <2>7. QED
    BY <1>2, <2>1, <2>3, <2>4, <2>5, <2>6
       DEF Describe, ec2Vars, resizeVars, tagVars, Handling, Resizing
<1>3. CASE Finish(w)
  <2>1. \A i \in Instances : todo[w][i].step = "done"
    BY <1>3 DEF Finish, Idle, Done
  <2>2. QED
    <3>1. /\ pc' \in [Workers -> {"idle", "describe", "act"}]
          /\ request' \in [Workers -> Request \union {NoRequest}]
      BY <1>3 DEF Finish
    <3>2. \A v \in Workers : v # w => pc'[v] = pc[v] /\ request'[v] = request[v]
      BY <1>3 DEF Finish
    <3>3. Handling' /\ Planned'
      BY <1>3, <2>1, <3>2 DEF Finish, Handling, Planned
    <3>4. QED
      BY <1>3, <3>1, <3>3 DEF Finish, ec2Vars, resizeVars, tagVars, Resizing
<1>4. CASE Crash(w)
  <2>1. requests' \subseteq Request
    <3>1. request[w].view \in View /\ request[w].attempt \in 1..MaxAttempts
      BY <1>4 DEF Crash, Handling, Request
    <3>2. /\ request[w] \in Request
          /\ request[w].attempt < MaxAttempts => request[w].attempt + 1 \in 1..MaxAttempts
      BY <1>4, <3>1, Ec2Assumption DEF Crash, Handling
    <3>3. request[w].attempt < MaxAttempts =>
              [request[w] EXCEPT !.attempt = @ + 1] \in Request
      BY <3>1, <3>2 DEF Request
    <3>4. QED
      BY <1>4, <3>3 DEF Crash
  <2>2. Idle \in [Instances -> Todo] /\ NoCache \in [Instances -> Record \union {None}]
    BY DEF Idle, Done, Todo, Steps, NoCache
  <2>3. \A i \in Instances : Idle[i].step = "done"
    BY DEF Idle, Done
  <2>4. faults' \in Nat
    BY <1>4 DEF Crash, Fault
  <2>5. QED
    BY <1>4, <2>1, <2>2, <2>3, <2>4
       DEF Crash, ec2Vars, resizeVars, tagVars, Handling, Planned, Resizing
<1>5. ASSUME NEW i \in Instances, Put(w, i) PROVE TypeInv'
  <2>1. todo[w][i].new \in Record
    BY <1>5 DEF Put, Turn, Planned
  <2>2. registry' \in [Instances -> Record \union {None}]
    BY <1>5, <2>1 DEF Put
  <2>3. Done \in Todo /\ Done.step = "done"
    BY DEF Done, Todo, Steps
  <2>4. todo' = [todo EXCEPT ![w][i] = Done]
    BY <1>5 DEF Put
  <2>5. todo' \in [Workers -> [Instances -> Todo]]
    BY <2>3, <2>4
  <2>6. Planned'
    BY <1>5, <2>3, <2>4 DEF Put, Planned
  <2>7. QED
    BY <1>5, <2>2, <2>5, <2>6 DEF Put, ec2Vars, resizeVars, tagVars, Handling, Resizing
<1>6. QED
  BY <1>1, <1>2, <1>3, <1>4, <1>5

\* Stepping through a list of types keeps a job a job, with a type left to try
\* unless the handler is about to write.
LEMMA TryTypes ==
    ASSUME TypeInv, NEW r \in Resizers, NEW j \in Job, Try(r, j)
    PROVE  /\ rpc' \in [Resizers -> {"idle", "stop", "modify", "start", "put"}]
           /\ job' \in [Resizers -> Job \union {NoJob}]
           /\ Resizing'
<1>1. Ending(j) \in Job /\ Ending(j).types = j.types
  BY DEF Ending, Stored, Job, Record, InstanceStates
<1>2. /\ Attempt(j) \in {"stop", "modify", "put"}
      /\ Attempt(j) # "put" => j.types # <<>>
  BY DEF Attempt
<1>3. QED
  BY <1>1, <1>2 DEF Try, TypeInv, TypeOK, Resizing

\* A message is for an instance and lists instance types.
LEMMA MessageTypes ==
    ASSUME NEW m \in Message PROVE m.instance \in Instances /\ m.types \in Seq(Sizes)
<1>1. m.instance \in Instances /\ m.types \in TypeLists
  BY DEF Message
<1>2. \A t \in Sizes : <<t>> \in Seq(Sizes)
  OBVIOUS
<1>3. \A i \in Instances : Preferred[i] \in Seq(Sizes)
  BY Ec2Assumption
<1>4. QED
  BY <1>1, <1>2, <1>3 DEF TypeLists

\* A job with a type to try still is one without its first type.
LEMMA JobTail ==
    ASSUME NEW j \in Job, j.types # <<>>
    PROVE  /\ Head(j.types) \in Sizes
           /\ [j EXCEPT !.types = Tail(@)] \in Job
<1>1. j.types \in Seq(Sizes)
  BY DEF Job
<1>2. Head(j.types) \in Sizes /\ Tail(j.types) \in Seq(Sizes)
  BY <1>1, HeadTailProperties
<1>3. QED
  BY <1>2 DEF Job

\* The resize handlers keep the types.
LEMMA ResizerTypes ==
    ASSUME TypeInv, NEW r \in Resizers, ResizerStep(r) \/ ResizeCrash(r)
    PROVE  TypeInv'
<1> USE DEF TypeInv, TypeOK
<1>1. ASSUME NEW m \in messages, ResizeReceive(r, m) PROVE TypeInv'
  <2> DEFINE rec == Fetch(None, m.instance)
             j == [instance |-> m.instance, types |-> m.types, old |-> rec,
                   power |-> power[m.instance], size |-> size[m.instance], new |-> rec]
  <2>1. m.instance \in Instances /\ m.types \in Seq(Sizes)
    BY MessageTypes
  <2>2. rec \in Record
    BY <2>1, FetchType
  <2>3. j \in Job
    BY <2>1, <2>2 DEF Job
  <2>4. Try(r, j)
    BY <1>1 DEF ResizeReceive
  <2> HIDE DEF j, rec
  <2>5. /\ rpc' \in [Resizers -> {"idle", "stop", "modify", "start", "put"}]
        /\ job' \in [Resizers -> Job \union {NoJob}]
        /\ Resizing'
    BY <2>3, <2>4, TryTypes
  <2>6. faults' \in Nat /\ messages' \subseteq Message
    BY <1>1 DEF ResizeReceive, Fault
  <2>7. QED
    BY <1>1, <2>5, <2>6 DEF ResizeReceive, ec2Vars, workerVars, tagVars, Handling, Planned
<1>2. CASE ResizeStop(r)
  BY <1>2 DEF ResizeStop, StopsBy, PowerStates, workerVars, tagVars, Handling, Planned, Resizing
<1>3. CASE ResizeModify(r)
  <2>1. job[r] \in Job /\ job[r].types # <<>>
    BY <1>3 DEF ResizeModify, Resizing
  <2>2. Head(job[r].types) \in Sizes
    BY <2>1, JobTail
  <2>3. QED
    BY <1>3, <2>1, <2>2 DEF ResizeModify, workerVars, tagVars, Handling, Planned, Resizing
<1>4. CASE ResizeStart(r)
  BY <1>4 DEF ResizeStart, StartsBy, PowerStates, workerVars, tagVars, Handling, Planned, Resizing
<1>5. CASE ResizeIce(r)
  <2> DEFINE j == [job[r] EXCEPT !.types = Tail(@)]
  <2>1. job[r] \in Job /\ job[r].types # <<>>
    BY <1>5 DEF ResizeIce, Resizing
  <2>2. j \in Job
    BY <2>1, JobTail
  <2>3. Try(r, j)
    BY <1>5 DEF ResizeIce
  <2> HIDE DEF j
  <2>4. /\ rpc' \in [Resizers -> {"idle", "stop", "modify", "start", "put"}]
        /\ job' \in [Resizers -> Job \union {NoJob}]
        /\ Resizing'
    BY <2>2, <2>3, TryTypes
  <2>5. faults' \in Nat
    BY <1>5 DEF ResizeIce, Fault
  <2>6. QED
    BY <1>5, <2>4, <2>5 DEF ResizeIce, ec2Vars, workerVars, tagVars, Handling, Planned
<1>6. CASE ResizeFail(r)
  <2>1. faults' \in Nat
    BY <1>6 DEF ResizeFail, Fault
  <2>2. QED
    BY <1>6, <2>1 DEF ResizeFail, ec2Vars, workerVars, tagVars, Handling, Planned, Resizing
<1>7. CASE ResizePut(r)
  <2>1. job[r].instance \in Instances /\ job[r].new \in Record
    BY <1>7 DEF ResizePut, Resizing, Job
  <2>2. QED
    BY <1>7, <2>1 DEF ResizePut, ec2Vars, workerVars, tagVars, Handling, Planned, Resizing
<1>8. CASE ResizeCrash(r)
  BY <1>8 DEF ResizeCrash, Fault, ec2Vars, workerVars, tagVars, Handling, Planned, Resizing
<1>9. QED
  BY <1>1, <1>2, <1>3, <1>4, <1>5, <1>6, <1>7, <1>8 DEF ResizerStep

\* Nothing has happened when the behaviour begins.
LEMMA InitTypes == Init => TypeInv
<1> SUFFICES ASSUME Init PROVE TypeInv
  OBVIOUS
<1>1. /\ phase \in [Schedules -> Phases] /\ power \in [Instances -> PowerStates]
      /\ size \in [Instances -> Sizes] /\ owner \in [Instances -> {"user", "scheduler"}]
      /\ tag \in [Instances -> Schedules \union {None}]
      /\ registry \in [Instances -> Record \union {None}]
  BY Ec2Assumption DEF Init, PowerStates, Record, InstanceStates
<1>2. /\ requests \subseteq Request /\ messages \subseteq Message /\ events \subseteq Event
      /\ faults \in Nat /\ registrar = NoRegistration
      /\ rpc \in [Resizers -> {"idle"}] /\ pc \in [Workers -> {"idle"}]
      /\ request \in [Workers -> {NoRequest}] /\ job \in [Resizers -> {NoJob}]
  BY DEF Init
<1>3. Idle \in [Instances -> Todo] /\ NoCache \in [Instances -> Record \union {None}]
  BY DEF Idle, Done, Todo, Steps, NoCache
<1>4. /\ cache \in [Workers -> [Instances -> Record \union {None}]]
      /\ todo \in [Workers -> [Instances -> Todo]]
  BY <1>3 DEF Init
<1>5. Planned
  BY DEF Init, Planned, Idle, Done
<1>6. QED
  BY <1>1, <1>2, <1>4, <1>5 DEF TypeInv, TypeOK, Handling, Resizing

\* No step breaks the types.
LEMMA NextTypes == TypeInv /\ [Next]_vars => TypeInv'
<1> SUFFICES ASSUME TypeInv, [Next]_vars PROVE TypeInv'
  OBVIOUS
<1>1. CASE Dispatch
  <2>1. [view |-> [s \in Named |-> phase[s]], attempt |-> 1] \in Request
    <3>1. [s \in Named |-> phase[s]] \in [Named -> Phases] /\ Named \in SUBSET Schedules
      BY DEF Named, TypeInv, TypeOK
    <3>2. QED
      BY <3>1, Ec2Assumption DEF Request, View
  <2>2. QED
    BY <1>1, <2>1 DEF Dispatch, TypeInv, TypeOK, ec2Vars, workerVars, resizeVars, tagVars,
                      Handling, Planned, Resizing
<1>2. ASSUME NEW w \in Workers, WorkerStep(w) \/ Crash(w) PROVE TypeInv'
  BY <1>2, CallTypes, CycleTypes DEF WorkerStep
<1>3. ASSUME NEW r \in Resizers, ResizerStep(r) \/ ResizeCrash(r) PROVE TypeInv'
  BY <1>3, ResizerTypes
<1>4. CASE UNCHANGED vars
  BY <1>4 DEF vars, ec2Vars, workerVars, resizeVars, tagVars, TypeInv, TypeOK, Handling,
              Planned, Resizing
<1>5. QED
  BY <1>1, <1>2, <1>3, <1>4, EnvironmentTypes, RegistrarTypes DEF Next

\* Every variable keeps its type, however many instances, handlers, schedules and
\* faults there are.
THEOREM TypeCorrect == Spec => []TypeOK
<1>1. TypeInv => TypeOK
  BY DEF TypeInv
<1>2. Spec => []TypeInv
  BY InitTypes, NextTypes, PTL DEF Spec
<1>3. QED
  BY <1>1, <1>2, PTL

-----------------------------------------------------------------------------
(* Retain-running only where it was asked for *)

\* A record is in retain-running only if its own schedule retains and does not enforce.
RetainOK(rec) ==
    rec # None /\ rec.stored = "retain-running" => Has(rec, "retainRunning") /\ ~Has(rec, "enforced")

\* The property reaches the table through the copies that handlers hold of its
\* records, so it is about all of them.
RetainInv ==
    /\ \A i \in Instances : RetainOK(registry[i])
    /\ \A w \in Workers, i \in Instances :
          RetainOK(cache[w][i]) /\ RetainOK(todo[w][i].new)
    /\ \A r \in Resizers : rpc[r] # "idle" => RetainOK(job[r].old) /\ RetainOK(job[r].new)

\* A decision stores retain-running only for flags that ask for it, or when the
\* record said so already and nothing enforces.
LEMMA DecideRetains ==
    ASSUME NEW flags, NEW desired, NEW window, NEW stored, NEW isRunning,
           Decide(flags, desired, window, stored, isRunning).stored = "retain-running"
    PROVE  ~flags.enforced /\ (flags.retainRunning \/ stored = "retain-running")
BY DEF Decide, DecideStopped, DecideRunning, Verdict

\* A fetched record is the cached one, the table's, or a new one in "unknown".
LEMMA FetchRetains ==
    ASSUME RetainInv, NEW i \in Instances, NEW cached, RetainOK(cached)
    PROVE  RetainOK(Fetch(cached, i))
BY DEF RetainInv, Fetch, RetainOK

\* A plan made from a good record holds a good record.
LEMMA PlanRetains ==
    ASSUME TypeOK, RetainInv, NEW i \in Instances, NEW view \in View,
           NEW cached \in Record \union {None}, RetainOK(cached)
    PROVE  RetainOK(Plan(view, cached, i).new)
<1> DEFINE rec == Fetch(cached, i)
           asked == view[rec.schedule]
           decided == Decide(FlagsOf[rec.schedule], asked.state, asked.window,
                             rec.stored, power[i] = "running")
           verdict == IF asked.state = "running" /\ asked.size \notin {None, size[i]}
                          THEN Verdict("resize", "running") ELSE decided
<1>1. rec \in Record /\ rec # None /\ RetainOK(rec) /\ DOMAIN view \subseteq Schedules
  BY FetchType, FetchRetains, Ec2Assumption DEF View
<1>2. CASE tag[i] = None \/ rec.schedule \notin DOMAIN view
  BY <1>2 DEF Plan, Done, RetainOK
<1>3. CASE ~(tag[i] = None \/ rec.schedule \notin DOMAIN view)
  <2>1. verdict.stored = "retain-running" =>
            /\ ~FlagsOf[rec.schedule].enforced
            /\ FlagsOf[rec.schedule].retainRunning \/ rec.stored = "retain-running"
    BY DecideRetains DEF Verdict
  <2>2. Plan(view, cached, i).new = Stored(rec, verdict.stored)
    BY <1>3 DEF Plan
  <2> HIDE DEF rec, verdict
  <2>3. /\ Stored(rec, verdict.stored).schedule = rec.schedule
        /\ Stored(rec, verdict.stored).stored = verdict.stored
    BY <1>1 DEF Stored, Record
  <2>4. verdict.stored = "retain-running" => FlagsOf[rec.schedule].retainRunning
    BY <1>1, <2>1 DEF RetainOK, Has
  <2>5. QED
    BY <1>1, <1>3, <2>1, <2>2, <2>3, <2>4 DEF RetainOK, Has
<1>4. QED
  BY <1>2, <1>3

\* No step of anyone leaves retain-running where it was not asked for.
LEMMA NextRetains == TypeInv /\ RetainInv /\ [Next]_vars => RetainInv'
<1> SUFFICES ASSUME TypeInv, RetainInv, [Next]_vars PROVE RetainInv'
  OBVIOUS
<1> USE DEF TypeInv, TypeOK
<1>1. CASE Environment
  BY <1>1 DEF Environment, PhaseChange, Settle, UserStart, UserStop, UserModify, UserTag,
              workerVars, resizeVars, RetainInv
<1>2. CASE RegistrarStep \/ RegistrarCrash
  <2>1. ASSUME NEW e \in Event, HandleEvent(e) PROVE RetainInv'
    BY <2>1 DEF HandleEvent, Deregister, DescribeForRegistration, workerVars, resizeVars,
                RetainInv, RetainOK
  <2>2. CASE Register
    BY <2>2 DEF Register, workerVars, resizeVars, RetainInv, RetainOK
  <2>3. QED
    BY <1>2, <2>1, <2>2
       DEF RegistrarStep, RegistrarCrash, workerVars, resizeVars, RetainInv
<1>3. CASE Dispatch
  BY <1>3 DEF Dispatch, workerVars, resizeVars, RetainInv
<1>4. ASSUME NEW w \in Workers, WorkerStep(w) \/ Crash(w) PROVE RetainInv'
  <2>1. ASSUME NEW req \in requests, Preload(w, req) PROVE RetainInv'
    BY <2>1 DEF Preload, resizeVars, RetainInv
  <2>2. CASE Describe(w)
    <3> DEFINE plan == [i \in Instances |-> Plan(request[w].view, cache[w][i], i)]
    <3>1. \A i \in Instances : RetainOK(plan[i].new)
      <4>1. request[w].view \in View
        BY <2>2 DEF Describe, Handling, Request
      <4>2. QED
        BY <4>1, PlanRetains DEF RetainInv
    <3>2. todo' = [todo EXCEPT ![w] = plan]
      BY <2>2 DEF Describe
    <3> HIDE DEF plan
    <3>3. \A i \in Instances : RetainOK(NoCache[i])
      BY DEF NoCache, RetainOK
    <3>4. \A v \in Workers, i \in Instances :
              RetainOK(cache'[v][i]) /\ RetainOK(todo'[v][i].new)
      BY <2>2, <3>1, <3>2, <3>3 DEF Describe, RetainInv
    <3>5. QED
      BY <2>2, <3>4 DEF Describe, resizeVars, RetainInv
  <2>3. ASSUME NEW i \in Instances,
               \/ StartOk(w, i) \/ StartFail(w, i) \/ StartIce(w, i)
               \/ StopOk(w, i) \/ StopFail(w, i) \/ SendResize(w, i)
        PROVE  RetainInv'
    <3>1. todo[w][i].step # "done"
      BY <2>3 DEF StartOk, StartFail, StartIce, StopOk, StopFail, SendResize, Turn
    <3>2. todo[w][i] \in Todo /\ todo[w][i].new \in Record
      BY <3>1 DEF Planned
    <3>3. PICK step \in Steps, state \in InstanceStates \ {"retain-running"} :
              To(w, i, step, state)
      BY <2>3 DEF StartOk, StartFail, StartIce, StopOk, StopFail, SendResize, FailureState,
                  Verdict, InstanceStates, Steps
    <3>4. \A v \in Workers, j \in Instances : RetainOK(todo'[v][j].new)
      BY <3>2, <3>3 DEF To, Todo, Record, RetainOK, RetainInv
    <3>5. UNCHANGED <<registry, cache, rpc, job>>
      BY <2>3 DEF StartOk, StartFail, StartIce, StopOk, StopFail, SendResize, resizeVars
    <3>6. QED
      BY <3>4, <3>5 DEF RetainInv
  <2>4. ASSUME NEW i \in Instances, Put(w, i) PROVE RetainInv'
    <3>1. RetainOK(Done.new)
      BY DEF Done, RetainOK
    <3>2. QED
      BY <2>4, <3>1 DEF Put, resizeVars, RetainInv
  <2>5. CASE Finish(w)
    BY <2>5 DEF Finish, resizeVars, RetainInv
  <2>6. CASE Crash(w)
    <3>1. \A i \in Instances : RetainOK(NoCache[i]) /\ RetainOK(Idle[i].new)
      BY DEF NoCache, Idle, Done, RetainOK
    <3>2. QED
      BY <2>6, <3>1 DEF Crash, resizeVars, RetainInv
  <2>7. QED
    BY <1>4, <2>1, <2>2, <2>3, <2>4, <2>5, <2>6 DEF WorkerStep
<1>5. ASSUME NEW r \in Resizers, ResizerStep(r) \/ ResizeCrash(r) PROVE RetainInv'
  <2>1. ASSUME NEW j \in Job, RetainOK(j.old), Try(r, j), UNCHANGED <<registry, cache, todo>>
        PROVE  RetainInv'
    <3>1. Ending(j).old = j.old /\ RetainOK(Ending(j).new)
      BY <2>1 DEF Ending, Stored, Job, Record, RetainOK
    <3>2. job' = [job EXCEPT ![r] = Ending(j)] /\ rpc' = [rpc EXCEPT ![r] = Attempt(j)]
      BY <2>1 DEF Try
    <3>3. QED
      BY <2>1, <3>1, <3>2 DEF RetainInv
  <2>2. ASSUME NEW m \in messages, ResizeReceive(r, m) PROVE RetainInv'
    <3> DEFINE rec == Fetch(None, m.instance)
               j == [instance |-> m.instance, types |-> m.types, old |-> rec,
                     power |-> power[m.instance], size |-> size[m.instance], new |-> rec]
    <3>1. m.instance \in Instances /\ m.types \in Seq(Sizes)
      BY MessageTypes DEF Message
    <3>2. rec \in Record /\ RetainOK(rec)
      BY <3>1, FetchType, FetchRetains DEF RetainOK
    <3>3. j \in Job /\ j.old = rec
      BY <3>1, <3>2 DEF Job
    <3>4. Try(r, j) /\ UNCHANGED <<registry, cache, todo>>
      BY <2>2 DEF ResizeReceive, workerVars
    <3> HIDE DEF j, rec
    <3>5. QED
      BY <2>1, <3>2, <3>3, <3>4
  <2>3. CASE ResizeIce(r)
    <3> DEFINE j == [job[r] EXCEPT !.types = Tail(@)]
    <3>1. j \in Job /\ j.old = job[r].old /\ Try(r, j)
      <4>1. job[r] \in Job /\ job[r].types # <<>>
        BY <2>3 DEF ResizeIce, Resizing
      <4>2. j \in Job /\ Try(r, j)
        BY <2>3, <4>1, JobTail DEF ResizeIce
      <4>3. QED
        BY <4>1, <4>2 DEF Job
    <3> HIDE DEF j
    <3>2. RetainOK(job[r].old) /\ UNCHANGED <<registry, cache, todo>>
      BY <2>3 DEF ResizeIce, RetainInv, workerVars
    <3>3. QED
      BY <2>1, <3>1, <3>2
  <2>4. CASE ResizeStop(r) \/ ResizeModify(r) \/ ResizeStart(r) \/ ResizeFail(r)
    BY <2>4 DEF ResizeStop, ResizeModify, ResizeStart, ResizeFail, workerVars, RetainInv
  <2>5. CASE ResizePut(r) \/ ResizeCrash(r)
    BY <2>5 DEF ResizePut, ResizeCrash, workerVars, RetainInv
  <2>6. QED
    BY <1>5, <2>2, <2>3, <2>4, <2>5 DEF ResizerStep
<1>6. CASE UNCHANGED vars
  BY <1>6 DEF vars, workerVars, resizeVars, RetainInv
<1>7. QED
  BY <1>1, <1>2, <1>3, <1>4, <1>5, <1>6 DEF Next

\* Whoever writes whatever record over another's, retain-running is stored only
\* under a schedule that retains and does not enforce.
THEOREM RetainSafe == Spec => []RetainOnlyWhereAsked
<1>1. Init => RetainInv
  BY DEF Init, RetainInv, RetainOK, NoCache, Idle, Done
<1>2. RetainInv => RetainOnlyWhereAsked
  BY DEF RetainInv, RetainOK, RetainOnlyWhereAsked
<1>3. Spec => [](TypeInv /\ RetainInv)
  BY InitTypes, NextTypes, NextRetains, <1>1, PTL DEF Spec
<1>4. QED
  BY <1>2, <1>3, PTL
=============================================================================
