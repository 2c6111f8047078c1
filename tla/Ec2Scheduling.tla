---------------------------- MODULE Ec2Scheduling ----------------------------
(***************************************************************************)
(* The EC2 scheduling target of one account and region, with everything    *)
(* that touches its instances and their registry records:                  *)
(*                                                                         *)
(*  - the orchestrator, which dispatches a scheduling request carrying the *)
(*    schedules as they stood at the dispatch time;                        *)
(*  - scheduling request handlers (Workers): load the registry, describe   *)
(*    the tagged instances, decide, call EC2, write each record back;      *)
(*  - EC2 resize handlers (Resizers), fed by a queue the workers fill;     *)
(*  - the registration handler, fed by tagging events;                     *)
(*  - EC2 and the people who start, stop, resize and tag its instances.    *)
(*                                                                         *)
(* Every API call and every registry write is a step of its own, so that   *)
(* handlers interleave, and a handler may die between any two of them.     *)
(***************************************************************************)
EXTENDS Naturals, Sequences, FiniteSets, SchedulingDecision

CONSTANTS
    Instances,      \* EC2 instances of the target
    Schedules,      \* names of the schedules that exist
    Sizes,          \* instance types
    Workers,        \* scheduling request handlers that may run at once
    Resizers,       \* resize handlers that may run at once
    None,           \* no record, no schedule tag, no instance type
    FlagsOf,        \* the flags of each schedule
    Preferred,      \* IS-PreferredInstanceTypes of each instance, <<>> if absent
    Phases,         \* what a schedule may ask for: state, size, open window
    UserActs,       \* what people do: a subset of {"start", "stop", "modify"}
    TagsAtStart,    \* schedule tags the instances may have when the behaviour begins
    TagChoices,     \* <<instance, schedule tag>>: tags people put (None removes it)
    FaultKinds,     \* faults that happen: see FaultKind
    MaxFaults,      \* bound: faults of a behaviour
    MaxRequests,    \* bound: requests waiting or being handled
    MaxAttempts     \* attempts at an asynchronous invocation

FaultKind == {"crash", "start", "stop", "ice", "resize", "duplicate"}

Phase == [state: ScheduleStates, size: Sizes \union {None}, window: BOOLEAN]

\* An instance's item in the registry table, less what describes the instance.
Record == [schedule: Schedules \union {None}, stored: InstanceStates]

ASSUME Ec2Assumption ==
    /\ None \notin Instances \union Schedules \union Sizes \union Record
    /\ FlagsOf \in [Schedules -> Flags]
    /\ Preferred \in [Instances -> Seq(Sizes)]
    /\ Phases \subseteq Phase
    /\ Phases # {}
    /\ TagsAtStart \subseteq [Instances -> Schedules \union {None}]
    /\ TagChoices \subseteq Instances \X (Schedules \union {None})
    /\ UserActs \subseteq {"start", "stop", "modify"}
    /\ FaultKinds \subseteq FaultKind
    /\ MaxFaults \in Nat /\ MaxRequests \in Nat
    /\ MaxAttempts \in Nat \ {0}

VARIABLES
    phase,      \* what each schedule asks for now
    power,      \* EC2 state of each instance
    size,       \* instance type of each instance
    tag,        \* schedule tag on each instance
    owner,      \* history: who last changed the instance's power or type
    registry,   \* registry table: a record for each instance, or None
    requests,   \* scheduling requests waiting for a handler
    pc,         \* where each worker is
    request,    \* the request each worker handles
    cache,      \* the records each worker preloaded
    todo,       \* what each worker has yet to do for each instance
    messages,   \* the resize queue
    rpc,        \* where each resize handler is
    job,        \* what each resize handler knows
    events,     \* tagging events waiting, in no order
    registrar,  \* the registration handler (one, reservedConcurrentExecutions 1)
    faults      \* faults so far

ec2Vars == <<power, size, tag, owner>>
workerVars == <<pc, request, cache, todo>>
resizeVars == <<messages, rpc, job>>
tagVars == <<events, registrar>>
vars == <<phase, ec2Vars, registry, requests, workerVars, resizeVars, tagVars, faults>>

-----------------------------------------------------------------------------
(* Values *)

PowerStates == {"pending", "running", "stopping", "stopped"}
\* The schedules a request carries, at the instant it was made.
View == UNION {[S -> Phases] : S \in SUBSET Schedules}
Request == [view: View, attempt: 1..MaxAttempts]
NoRequest == [view |-> None, attempt |-> 0]

\* The order schedule_target drains its decisions in: chain(start_instances,
\* stop_instances, send_resize_requests, nothing), each filtering before it
\* calls.  A lower rank goes first; "sent" is a record to write right after
\* its message.
Rank == [sent |-> 0, size |-> 1, skipStart |-> 1, start |-> 2, started |-> 3, ice |-> 3,
         skipStop |-> 4, stop |-> 5, stopped |-> 6, resize |-> 7, nothing |-> 8, done |-> 9]
Steps == {"sent", "size", "skipStart", "start", "started", "ice", "skipStop", "stop",
          "stopped", "resize", "nothing", "done"}
Todo == [step: Steps, old: Record \union {None}, new: Record \union {None}]
Done == [step |-> "done", old |-> None, new |-> None]
Idle == [i \in Instances |-> Done]
NoCache == [i \in Instances |-> None]

TypeLists == {Preferred[i] : i \in Instances} \union {<<t>> : t \in Sizes}
Message == [instance: Instances, types: TypeLists]
Job == [instance: Instances, types: Seq(Sizes), old: Record, power: PowerStates,
        size: Sizes, new: Record]
NoJob == [instance |-> None]

Event == [instance: Instances, tagged: BOOLEAN]
NoRegistration == [instance |-> None, schedule |-> None]

Stored(rec, state) == [rec EXCEPT !.stored = state]

Fault(kind) ==
    /\ kind \in FaultKinds
    /\ faults < MaxFaults
    /\ faults' = faults + 1

-----------------------------------------------------------------------------
(* EC2 and its users *)

\* The schedules move on: time passes, a period begins or ends, a window opens.
PhaseChange(s, p) ==
    /\ phase' = [phase EXCEPT ![s] = p]
    /\ UNCHANGED <<ec2Vars, registry, requests, workerVars, resizeVars, tagVars, faults>>

Settle(i) ==
    /\ power[i] \in {"pending", "stopping"}
    /\ power' = [power EXCEPT ![i] = IF @ = "pending" THEN "running" ELSE "stopped"]
    /\ UNCHANGED <<phase, size, tag, owner, registry, requests, workerVars, resizeVars,
                   tagVars, faults>>

\* StartInstances and StopInstances as EC2 answers them: refused while the
\* instance is on its way the other way, without effect when it is there already.
Startable(i) == power[i] # "stopping"
Stoppable(i) == power[i] # "pending"

StartsBy(i, who) ==
    IF power[i] = "stopped"
        THEN /\ power' = [power EXCEPT ![i] = "pending"]
             /\ owner' = [owner EXCEPT ![i] = who]
        ELSE UNCHANGED <<power, owner>>

StopsBy(i, who) ==
    IF power[i] = "running"
        THEN /\ power' = [power EXCEPT ![i] = "stopping"]
             /\ owner' = [owner EXCEPT ![i] = who]
        ELSE UNCHANGED <<power, owner>>

UserStart(i) ==
    /\ "start" \in UserActs /\ power[i] = "stopped"
    /\ StartsBy(i, "user")
    /\ UNCHANGED <<phase, size, tag, registry, requests, workerVars, resizeVars, tagVars, faults>>

UserStop(i) ==
    /\ "stop" \in UserActs /\ power[i] = "running"
    /\ StopsBy(i, "user")
    /\ UNCHANGED <<phase, size, tag, registry, requests, workerVars, resizeVars, tagVars, faults>>

UserModify(i, t) ==
    /\ "modify" \in UserActs /\ power[i] = "stopped"
    /\ size' = [size EXCEPT ![i] = t]
    /\ owner' = [owner EXCEPT ![i] = "user"]
    /\ UNCHANGED <<phase, power, tag, registry, requests, workerVars, resizeVars, tagVars, faults>>

\* Someone puts, changes or removes the schedule tag; EventBridge sends the
\* event, which says whether the tag is there.
UserTag(i, s) ==
    /\ s # tag[i]
    /\ tag' = [tag EXCEPT ![i] = s]
    /\ events' = events \union {[instance |-> i, tagged |-> s # None]}
    /\ UNCHANGED <<phase, power, size, owner, registry, requests, workerVars, resizeVars,
                   registrar, faults>>

-----------------------------------------------------------------------------
(* The registration handler *)

\* The bus delivers the events in any order, and each at least once.
Deliver(e) ==
    /\ registrar = NoRegistration
    /\ \/ events' = events \ {e} /\ UNCHANGED faults
       \/ Fault("duplicate") /\ UNCHANGED events

\* A deletion event: the record is deleted, whatever the tag is by now.
Deregister(e) ==
    /\ ~e.tagged
    /\ Deliver(e)
    /\ registry' = [registry EXCEPT ![e.instance] = None]
    /\ UNCHANGED <<phase, ec2Vars, requests, workerVars, resizeVars, registrar>>

\* Any other event: the instance is described, and the tag it has now is taken.
DescribeForRegistration(e) ==
    /\ e.tagged
    /\ Deliver(e)
    /\ registrar' = [instance |-> e.instance, schedule |-> tag[e.instance]]
    /\ UNCHANGED <<phase, ec2Vars, registry, requests, workerVars, resizeVars>>

Register ==
    /\ registrar # NoRegistration
    /\ registry' = [registry EXCEPT ![registrar.instance] =
                        [schedule |-> registrar.schedule, stored |-> "unknown"]]
    /\ registrar' = NoRegistration
    /\ UNCHANGED <<phase, ec2Vars, requests, workerVars, resizeVars, events, faults>>

\* Mutant of RegistrarCrash: the event is lost with the handler.
RegistrarCrashLosesEvent ==
    /\ registrar # NoRegistration
    /\ Fault("crash")
    /\ registrar' = NoRegistration
    /\ UNCHANGED <<phase, ec2Vars, registry, requests, workerVars, resizeVars, events>>

\* The handler dies before its write; the event is delivered again.
RegistrarCrash ==
    /\ registrar # NoRegistration
    /\ Fault("crash")
    /\ events' = events \union {[instance |-> registrar.instance, tagged |-> TRUE]}
    /\ registrar' = NoRegistration
    /\ UNCHANGED <<phase, ec2Vars, registry, requests, workerVars, resizeVars>>

-----------------------------------------------------------------------------
(* The orchestrator and the scheduling request handlers *)

Busy == {w \in Workers : pc[w] # "idle"}

\* The target is scheduled only while the registry has a record of it, and the
\* request carries the schedules that its records name.
Named == {s \in Schedules : \E i \in Instances : registry[i] # None /\ registry[i].schedule = s}

Dispatch ==
    /\ \E i \in Instances : registry[i] # None
    /\ Cardinality(requests) + Cardinality(Busy) < MaxRequests
    /\ requests' = requests \union {[view |-> [s \in Named |-> phase[s]], attempt |-> 1]}
    /\ UNCHANGED <<phase, ec2Vars, registry, workerVars, resizeVars, tagVars, faults>>

\* A handler takes a request and preloads its cache with the target's records.
Preload(w, req) ==
    /\ pc[w] = "idle"
    /\ requests' = requests \ {req}
    /\ pc' = [pc EXCEPT ![w] = "describe"]
    /\ request' = [request EXCEPT ![w] = req]
    /\ cache' = [cache EXCEPT ![w] = registry]
    /\ UNCHANGED <<phase, ec2Vars, registry, todo, resizeVars, tagVars, faults>>

\* Mutant of Fetch: only registered instances are scheduled.
FetchRegistered(cached, i) ==
    IF cached # None THEN cached
    ELSE IF registry[i] # None THEN registry[i]
    ELSE [schedule |-> None, stored |-> "unknown"]

\* fetch_or_create_registry_data: the cached record, else the one in the table
\* now, else a new one made from the tag.
Fetch(cached, i) ==
    IF cached # None THEN cached
    ELSE IF registry[i] # None THEN registry[i]
    ELSE [schedule |-> tag[i], stored |-> "unknown"]

PreferredSize(i) == Preferred[i] = <<>> \/ size[i] = Head(Preferred[i])

\* The step that a verdict leads to, given what describe reports of instance i.
StepFor(i, action) ==
    IF action = "start"
        THEN IF power[i] = "running" THEN "skipStart"
             ELSE IF PreferredSize(i) THEN "start" ELSE "size"
    ELSE IF action = "stop"
        THEN IF power[i] = "stopped" THEN "skipStop" ELSE "stop"
    ELSE action

\* What schedule_target decides for instance i under the request's view: a
\* record whose schedule it does not carry is skipped, a period that asks for another
\* size is a resize, the rest is make_scheduling_decision.
Plan(view, cached, i) ==
    LET rec == Fetch(cached, i)
        asked == view[rec.schedule]
        verdict == IF asked.state = "running" /\ asked.size \notin {None, size[i]}
                       THEN Verdict("resize", "running")
                   ELSE Decide(FlagsOf[rec.schedule], asked.state, asked.window,
                               rec.stored, power[i] = "running")
    IN  IF tag[i] = None \/ rec.schedule \notin DOMAIN view
            THEN Done
        ELSE [step |-> StepFor(i, verdict.action), old |-> rec,
              new |-> Stored(rec, verdict.stored)]

Describe(w) ==
    /\ pc[w] = "describe"
    /\ todo' = [todo EXCEPT ![w] =
                    [i \in Instances |-> Plan(request[w].view, cache[w][i], i)]]
    /\ cache' = [cache EXCEPT ![w] = NoCache]
    /\ pc' = [pc EXCEPT ![w] = "act"]
    /\ UNCHANGED <<phase, ec2Vars, registry, requests, request, resizeVars, tagVars, faults>>

\* Instance i is at a step of the set and no instance is at an earlier one.
Turn(w, i, steps) ==
    /\ pc[w] = "act"
    /\ todo[w][i].step \in steps
    /\ \A j \in Instances : Rank[todo[w][i].step] <= Rank[todo[w][j].step]

To(w, i, step, state) ==
    todo' = [todo EXCEPT ![w][i] = [@ EXCEPT !.step = step, !.new.stored = state]]

StartOk(w, i) ==
    /\ Turn(w, i, {"start"}) /\ Startable(i)
    /\ StartsBy(i, "scheduler")
    /\ To(w, i, "started", "running")
    /\ UNCHANGED <<phase, size, tag, registry, requests, pc, request, cache, resizeVars, tagVars,
                   faults>>

\* The call is refused, or fails for a reason of EC2's own.
StartFail(w, i) ==
    /\ Turn(w, i, {"start"})
    /\ \/ ~Startable(i) /\ UNCHANGED faults
       \/ Startable(i) /\ Fault("start")
    /\ To(w, i, "started", FailureState(Verdict("start", "running")))
    /\ UNCHANGED <<phase, ec2Vars, registry, requests, pc, request, cache, resizeVars, tagVars>>

\* InsufficientInstanceCapacity: with two types to choose from, ask for a resize.
StartIce(w, i) ==
    /\ Turn(w, i, {"start"}) /\ power[i] = "stopped"
    /\ Fault("ice")
    /\ IF Len(Preferred[i]) >= 2
          THEN To(w, i, "ice", "running")
          ELSE To(w, i, "started", FailureState(Verdict("start", "running")))
    /\ UNCHANGED <<phase, ec2Vars, registry, requests, pc, request, cache, resizeVars, tagVars>>

\* stop_instances, and hibernate_instances with its fallback to a normal stop.
StopOk(w, i) ==
    /\ Turn(w, i, {"stop"}) /\ Stoppable(i)
    /\ StopsBy(i, "scheduler")
    /\ To(w, i, "stopped", "stopped")
    /\ UNCHANGED <<phase, size, tag, registry, requests, pc, request, cache, resizeVars, tagVars,
                   faults>>

StopFail(w, i) ==
    /\ Turn(w, i, {"stop"})
    /\ \/ ~Stoppable(i) /\ UNCHANGED faults
       \/ Stoppable(i) /\ Fault("stop")
    /\ To(w, i, "stopped", FailureState(Verdict("stop", "stopped")))
    /\ UNCHANGED <<phase, ec2Vars, registry, requests, pc, request, cache, resizeVars, tagVars>>

\* The size a message of worker w asks for instance i: the period's for a
\* resize decision, the instance's preferred ones when a start needs another type.
TypesFor(w, i) ==
    IF todo[w][i].step = "resize"
        THEN <<request[w].view[todo[w][i].old.schedule].size>>
        ELSE Preferred[i]

SendResize(w, i) ==
    /\ Turn(w, i, {"size", "ice", "resize"})
    /\ messages' = messages \union {[instance |-> i, types |-> TypesFor(w, i)]}
    /\ To(w, i, "sent", "running")
    /\ UNCHANGED <<phase, ec2Vars, registry, requests, pc, request, cache, rpc, job, tagVars,
                   faults>>

\* Mutant of Put: only the stored state is written, into the record there is now.
PutStateOnly(w, i) ==
    /\ Turn(w, i, {"sent", "skipStart", "started", "skipStop", "stopped", "nothing"})
    /\ registry' = [registry EXCEPT ![i] = IF @ = None THEN None
                                           ELSE Stored(@, todo[w][i].new.stored)]
    /\ todo' = [todo EXCEPT ![w][i] = Done]
    /\ UNCHANGED <<phase, ec2Vars, requests, pc, request, cache, resizeVars, tagVars, faults>>

\* Mutant of Put: the record of a call that failed is not written.
PutUnlessFailed(w, i) ==
    LET t == todo[w][i]
    IN  /\ Turn(w, i, {"sent", "skipStart", "started", "skipStop", "stopped", "nothing"})
        /\ registry' = IF t.new = t.old \/ t.new.stored \in {"start_failed", "stop_failed"}
                          THEN registry ELSE [registry EXCEPT ![i] = t.new]
        /\ todo' = [todo EXCEPT ![w][i] = Done]
        /\ UNCHANGED <<phase, ec2Vars, requests, pc, request, cache, resizeVars, tagVars, faults>>

\* The record is written only if the cycle changed it, and then overwrites
\* whatever the table holds.
Put(w, i) ==
    LET t == todo[w][i]
    IN  /\ Turn(w, i, {"sent", "skipStart", "started", "skipStop", "stopped", "nothing"})
        /\ registry' = IF t.new = t.old THEN registry ELSE [registry EXCEPT ![i] = t.new]
        /\ todo' = [todo EXCEPT ![w][i] = Done]
        /\ UNCHANGED <<phase, ec2Vars, requests, pc, request, cache, resizeVars, tagVars, faults>>

Finish(w) ==
    /\ pc[w] = "act" /\ todo[w] = Idle
    /\ pc' = [pc EXCEPT ![w] = "idle"]
    /\ request' = [request EXCEPT ![w] = NoRequest]
    /\ UNCHANGED <<phase, ec2Vars, registry, requests, cache, todo, resizeVars, tagVars, faults>>

\* Time-out or exception: the same event is invoked again, with the same view,
\* until its attempts are used up.
Crash(w) ==
    /\ pc[w] # "idle"
    /\ Fault("crash")
    /\ requests' = IF request[w].attempt < MaxAttempts
                      THEN requests \union {[request[w] EXCEPT !.attempt = @ + 1]}
                      ELSE requests
    /\ pc' = [pc EXCEPT ![w] = "idle"]
    /\ request' = [request EXCEPT ![w] = NoRequest]
    /\ cache' = [cache EXCEPT ![w] = NoCache]
    /\ todo' = [todo EXCEPT ![w] = Idle]
    /\ UNCHANGED <<phase, ec2Vars, registry, resizeVars, tagVars>>

-----------------------------------------------------------------------------
(* The resize handlers *)

\* Mutant of Attempt: a running instance is not stopped before it is modified.
AttemptWithoutStop(j) == IF j.types = <<>> THEN "put" ELSE "modify"

\* What attempt_ec2_resize does with the types left to try, by what describe
\* reported when the handler began (it does not describe again).
Attempt(j) ==
    IF j.types = <<>> THEN "put"
    ELSE IF j.power # "running" THEN "modify"
    ELSE IF j.size = Head(j.types) THEN "put" ELSE "stop"

\* All types failed: the record stays as it was.  Otherwise it says running.
Ending(j) == [j EXCEPT !.new = IF j.types = <<>> THEN j.old ELSE Stored(j.old, "running")]

Try(r, j) ==
    /\ rpc' = [rpc EXCEPT ![r] = Attempt(j)]
    /\ job' = [job EXCEPT ![r] = Ending(j)]

ResizeReceive(r, m) ==
    /\ rpc[r] = "idle"
    /\ \/ messages' = messages \ {m} /\ UNCHANGED faults
       \/ Fault("duplicate") /\ UNCHANGED messages
    /\ LET rec == Fetch(None, m.instance)
       IN  Try(r, [instance |-> m.instance, types |-> m.types, old |-> rec,
                   power |-> power[m.instance], size |-> size[m.instance], new |-> rec])
    /\ UNCHANGED <<phase, ec2Vars, registry, requests, workerVars, tagVars>>

ResizeStop(r) ==
    LET i == job[r].instance
    IN  /\ rpc[r] = "stop" /\ Stoppable(i)
        /\ StopsBy(i, "scheduler")
        /\ rpc' = [rpc EXCEPT ![r] = "modify"]
        /\ UNCHANGED <<phase, size, tag, registry, requests, workerVars, messages, job, tagVars,
                       faults>>

ResizeModify(r) ==
    LET i == job[r].instance
    IN  /\ rpc[r] = "modify" /\ power[i] = "stopped"
        /\ size' = [size EXCEPT ![i] = Head(job[r].types)]
        /\ owner' = [owner EXCEPT ![i] = "scheduler"]
        /\ rpc' = [rpc EXCEPT ![r] = "start"]
        /\ UNCHANGED <<phase, power, tag, registry, requests, workerVars, messages, job,
                       tagVars, faults>>

ResizeStart(r) ==
    LET i == job[r].instance
    IN  /\ rpc[r] = "start" /\ Startable(i)
        /\ StartsBy(i, "scheduler")
        /\ rpc' = [rpc EXCEPT ![r] = "put"]
        /\ UNCHANGED <<phase, size, tag, registry, requests, workerVars, messages, job, tagVars,
                       faults>>

\* No capacity for this type: on to the next one.
ResizeIce(r) ==
    /\ rpc[r] = "start" /\ power[job[r].instance] = "stopped"
    /\ Fault("ice")
    /\ Try(r, [job[r] EXCEPT !.types = Tail(@)])
    /\ UNCHANGED <<phase, ec2Vars, registry, requests, workerVars, messages, tagVars>>

\* Any other error ends the attempt: stop refused, instance not stopped when it
\* is modified, start refused, or a failure of EC2's own.
ResizeFail(r) ==
    LET i == job[r].instance
        refused == \/ rpc[r] = "stop" /\ ~Stoppable(i)
                   \/ rpc[r] = "modify" /\ power[i] # "stopped"
                   \/ rpc[r] = "start" /\ ~Startable(i)
    IN  /\ rpc[r] \in {"stop", "modify", "start"}
        /\ \/ refused /\ UNCHANGED faults
           \/ ~refused /\ Fault("resize")
        /\ rpc' = [rpc EXCEPT ![r] = "put"]
        /\ UNCHANGED <<phase, ec2Vars, registry, requests, workerVars, messages, job, tagVars>>

ResizePut(r) ==
    /\ rpc[r] = "put"
    /\ registry' = [registry EXCEPT ![job[r].instance] = job[r].new]
    /\ rpc' = [rpc EXCEPT ![r] = "idle"]
    /\ job' = [job EXCEPT ![r] = NoJob]
    /\ UNCHANGED <<phase, ec2Vars, requests, workerVars, messages, tagVars, faults>>

\* maxReceiveCount is 1: the message of a handler that dies goes to the
\* dead-letter queue.
ResizeCrash(r) ==
    /\ rpc[r] # "idle"
    /\ Fault("crash")
    /\ rpc' = [rpc EXCEPT ![r] = "idle"]
    /\ job' = [job EXCEPT ![r] = NoJob]
    /\ UNCHANGED <<phase, ec2Vars, registry, requests, workerVars, messages, tagVars>>

-----------------------------------------------------------------------------
(* The specification *)

\* Tagged instances have been registered and not scheduled yet.
Init ==
    /\ phase \in [Schedules -> Phases]
    /\ power \in [Instances -> {"running", "stopped"}]
    /\ size \in [Instances -> Sizes]
    /\ tag \in TagsAtStart
    /\ owner = [i \in Instances |-> "user"]
    /\ registry = [i \in Instances |-> IF tag[i] = None THEN None
                        ELSE [schedule |-> tag[i], stored |-> "unknown"]]
    /\ requests = {}
    /\ pc = [w \in Workers |-> "idle"]
    /\ request = [w \in Workers |-> NoRequest]
    /\ cache = [w \in Workers |-> NoCache]
    /\ todo = [w \in Workers |-> Idle]
    /\ messages = {}
    /\ rpc = [r \in Resizers |-> "idle"]
    /\ job = [r \in Resizers |-> NoJob]
    /\ events = {}
    /\ registrar = NoRegistration
    /\ faults = 0

Environment ==
    \/ \E s \in Schedules, p \in Phases : PhaseChange(s, p)
    \/ \E i \in Instances : Settle(i) \/ UserStart(i) \/ UserStop(i)
    \/ \E i \in Instances, t \in Sizes : UserModify(i, t)
    \/ \E t \in TagChoices : UserTag(t[1], t[2])

HandleEvent(e) == e \in events /\ (Deregister(e) \/ DescribeForRegistration(e))

RegistrarStep == Register \/ \E e \in Event : HandleEvent(e)

WorkerStep(w) ==
    \/ \E req \in requests : Preload(w, req)
    \/ Describe(w)
    \/ \E i \in Instances :
          \/ StartOk(w, i) \/ StartFail(w, i) \/ StartIce(w, i)
          \/ StopOk(w, i) \/ StopFail(w, i)
          \/ SendResize(w, i) \/ Put(w, i)
    \/ Finish(w)

ResizerStep(r) ==
    \/ \E m \in messages : ResizeReceive(r, m)
    \/ ResizeStop(r) \/ ResizeModify(r) \/ ResizeStart(r) \/ ResizeIce(r) \/ ResizeFail(r)
    \/ ResizePut(r)

Next ==
    \/ Environment
    \/ RegistrarStep \/ RegistrarCrash
    \/ Dispatch
    \/ \E w \in Workers : WorkerStep(w) \/ Crash(w)
    \/ \E r \in Resizers : ResizerStep(r) \/ ResizeCrash(r)

Spec == Init /\ [][Next]_vars

\* Instances settle, EventBridge fires every interval and delivers every event,
\* however busy the registration handler is, and Lambda runs what is queued.
\* Nobody has to use the instances, and no fault has to happen.
Fairness ==
    /\ \A i \in Instances : WF_vars(Settle(i))
    /\ WF_vars(Register)
    /\ \A e \in Event : SF_vars(HandleEvent(e))
    /\ WF_vars(Dispatch)
    /\ \A w \in Workers : WF_vars(WorkerStep(w))
    /\ \A r \in Resizers : WF_vars(ResizerStep(r))

FairSpec == Spec /\ Fairness

-----------------------------------------------------------------------------
(* Properties *)

\* Every variable has its type.
TypeOK ==
    /\ phase \in [Schedules -> Phases]
    /\ power \in [Instances -> PowerStates]
    /\ size \in [Instances -> Sizes]
    /\ tag \in [Instances -> Schedules \union {None}]
    /\ owner \in [Instances -> {"user", "scheduler"}]
    /\ registry \in [Instances -> Record \union {None}]
    /\ requests \subseteq Request
    /\ pc \in [Workers -> {"idle", "describe", "act"}]
    /\ request \in [Workers -> Request \union {NoRequest}]
    /\ cache \in [Workers -> [Instances -> Record \union {None}]]
    /\ todo \in [Workers -> [Instances -> Todo]]
    /\ messages \subseteq Message
    /\ rpc \in [Resizers -> {"idle", "stop", "modify", "start", "put"}]
    /\ job \in [Resizers -> Job \union {NoJob}]
    /\ events \subseteq Event
    /\ registrar \in [instance: Instances, schedule: Schedules \union {None}]
                       \union {NoRegistration}
    /\ faults \in Nat

\* What the flags of a record's schedule say; a record may name no schedule.
Has(rec, flag) == rec # None /\ rec.schedule \in Schedules /\ FlagsOf[rec.schedule][flag]

\* A record is in retain-running only under a schedule that retains and does
\* not enforce.  Whatever handler overwrites whatever record, the schedule and
\* the state it writes come from one decision, so no instance can be exempted
\* from its stop under a schedule that never asked for it.
RetainOnlyWhereAsked ==
    \A i \in Instances :
        registry[i] # None /\ registry[i].stored = "retain-running"
            => Has(registry[i], "retainRunning") /\ ~Has(registry[i], "enforced")

InHand(i) == \E w \in Workers : todo[w][i].step # "done"

\* retain-running is for an instance somebody else started: between cycles it
\* never marks one whose last start was the scheduler's own.
RetainedIsUserStarted ==
    \A i \in Instances :
        registry[i] # None /\ registry[i].stored = "retain-running" /\ ~InHand(i)
            => owner[i] = "user"

\* Between cycles the stored state is the truth about an instance that only the
\* scheduler touched: running if it is (or is becoming) running, stopped if stopped.
StoredIsLastAction ==
    \A i \in Instances :
        registry[i] # None /\ owner[i] = "scheduler" /\ ~InHand(i)
            => /\ registry[i].stored = "running" => power[i] \in {"pending", "running"}
               /\ registry[i].stored = "stopped" => power[i] \in {"stopping", "stopped"}

\* A worker's call changed the power of instance i.
StopCall(i) == /\ power'[i] # power[i]
               /\ \E w \in Workers : todo[w][i].step = "stop" /\ todo'[w][i].step = "stopped"
StartCall(i, w) == /\ power'[i] # power[i]
                   /\ todo[w][i].step = "start" /\ todo'[w][i].step = "started"

\* Without enforcement the scheduler acts on transitions only: it does not stop
\* an instance its record already says is stopped or retained, so an instance
\* somebody started outside its period, or before it, is left alone.
StopsOnTransition ==
    [][\A i \in Instances : StopCall(i) /\ registry[i] # None =>
          \/ Has(registry[i], "enforced")
          \/ registry[i].stored \notin {"stopped", "retain-running"}]_vars

\* Nor does it start, outside a maintenance window, an instance its record says
\* is running: one that somebody stopped inside its period stays stopped.
StartsOnTransition ==
    [][\A i \in Instances, w \in Workers : StartCall(i, w) /\ registry[i] # None =>
          \/ Has(registry[i], "enforced")
          \/ request[w].view[todo[w][i].old.schedule].window
          \/ registry[i].stored \notin {"running", "retain-running"}]_vars

\* Instance i stays under schedule s, which goes on asking for state x.
Settled(i, s, x) ==
    /\ tag[i] = s /\ registry[i] # None /\ registry[i].schedule = s
    /\ phase[s].state = x /\ ~phase[s].window

\* An enforced schedule wins: while it goes on asking for a state the instance is
\* brought to it again and again, whatever users and failed handlers did.
EnforcedConverges ==
    \A i \in Instances, s \in Schedules, x \in {"running", "stopped"} :
        FlagsOf[s].enforced => (<>[]Settled(i, s, x) => []<>(power[i] = x))

\* An instance the scheduler is answerable for follows its schedule: if nobody
\* touches it, it ends in the state that the schedule settles on.
TransitionsReachInstance ==
    \A i \in Instances, s \in Schedules, x \in {"running", "stopped"} :
        <>[](Settled(i, s, x) /\ owner[i] = "scheduler") => <>[](power[i] = x)

\* A period that goes on asking for an instance type gets it under enforcement,
\* although one resize message may find the instance not stopped yet, and fail,
\* as long as nobody else stops or modifies the instance meanwhile.
PeriodSizeConverges ==
    \A i \in Instances, s \in Schedules, t \in Sizes :
        FlagsOf[s].enforced =>
            (<>[](Settled(i, s, "running") /\ phase[s].size = t /\ owner[i] = "scheduler")
                => []<>(power[i] = "running" /\ size[i] = t))

\* A change of the tag of instance i is still to be handled, or being handled.
Changing(i) ==
    \/ \E e \in events : e.instance = i
    \/ registrar # NoRegistration /\ registrar.instance = i

\* No cycle and no resize is under way while the tag of instance i changes.
Undisturbed(i) ==
    Changing(i) => (\A w \in Workers : pc[w] = "idle") /\ (\A r \in Resizers : rpc[r] = "idle")

\* When its tag no longer changes, an instance ends up with a record of the tag's
\* schedule or none, and no record of an earlier tag stays, although events come
\* late, twice and in any order and the handler dies between two steps: as long as
\* no cycle and no resize runs between a change of the tag and its registration.
RegistryFollowsTags ==
    \A i \in Instances, s \in Schedules \union {None} :
        []Undisturbed(i) /\ <>[](tag[i] = s)
            => <>[](registry[i] # None => registry[i].schedule = s)

\* A tagged instance that a late deletion event unregistered is registered again
\* by the cycles of its target, as long as others are registered under its schedule.
TaggedIsRegistered ==
    \A i \in Instances, s \in Schedules :
        <>[](/\ tag[i] = s
             /\ \E j \in Instances \ {i} : registry[j] # None /\ registry[j].schedule = s)
            => <>[](registry[i] # None)
-----------------------------------------------------------------------------
(* The abstract specification that the cycle implements *)

\* The state of instance i as of the last call made for it: a worker that has made the
\* call holds it until it writes the record.
Called(i) == {w \in Workers : todo[w][i].step \in {"sent", "started", "stopped"}}

StoredFor(i) ==
    IF Called(i) # {} THEN todo[CHOOSE w \in Called(i) : TRUE][i].new.stored
    ELSE IF registry[i] # None THEN registry[i].stored
    ELSE "unknown"

Atomic == INSTANCE AtomicCycles WITH schedule <- tag, stored <- [i \in Instances |-> StoredFor(i)]

\* One cycle at a time is as good as an atomic one: whatever schedules and records the
\* request and the cache were filled with, and in whichever order the calls of the
\* other instances are made, each instance's call and stored state come from one
\* decision on the state stored for it, and no stored state is lost or written twice.
CyclesAreAtomic == Atomic!Spec
=============================================================================
