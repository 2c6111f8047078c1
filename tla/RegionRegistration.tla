------------------------- MODULE RegionRegistration -------------------------
(***************************************************************************)
(* The regions of a stack, in the hub or in a spoke account, in which      *)
(* resources are scheduled.  Two custom resources of the stack follow the  *)
(* list of regions of its template:                                        *)
(*                                                                         *)
(*  - the event rules, which one handler deletes and creates in region     *)
(*    after region (create_region_event_rules_handler.py);                 *)
(*  - the registrations: a handler asks the hub for each region to be      *)
(*    registered or deregistered (region_registration_events_handler.py),  *)
(*    hub functions do so and note how far they are in a parameter of the  *)
(*    account (spoke_registration.py), and a waiter polls the parameters   *)
(*    (region_registration_events_iscomplete_handler.py).                  *)
(*                                                                         *)
(* CloudFormation is external: it sends each operation to both resources,  *)
(* waits for both answers, and undoes what failed.                         *)
(***************************************************************************)
EXTENDS Naturals, FiniteSets, Sequences

CONSTANTS
    Regions,
    None,           \* no parameter
    NoOp,           \* no operation of the stack under way
    FaultKinds,     \* faults that happen: see FaultKind
    MaxOps,         \* bound: operations people ask of the stack
    MaxFaults       \* bound: faults of a behaviour

\* RegionRegistrationState, less those no code writes.
States == {"created", "registering", "managed", "deleting", "deleted"}

FaultKind == {"rule", "notify", "again", "dead", "twice", "clear", "timeout"}

ASSUME RegionsAssumption ==
    /\ None \notin States
    /\ FaultKinds \subseteq FaultKind
    /\ MaxOps \in Nat /\ MaxFaults \in Nat

VARIABLES
    stack,      \* what people see of the stack: its status and regions
    op,         \* the operation under way, or NoOp
    answers,    \* what each resource has answered to it
    rules,      \* what there is in each region of rules, targets and bus
    rulesJob,   \* what the handler of the rules has yet to do
    notify,     \* what the handler of the registrations has yet to ask the hub
    requests,   \* invocations of the hub function that wait or run
    parameter,  \* the parameter of each region, or None
    registered, \* whether the region's resources are in the registry: none, some, all
    calm,       \* history: no fault since the operation began
    stale,      \* history: an operation was answered while the hub still worked for it
    ops, faults

rulesVars == <<rules, rulesJob>>
hubVars == <<notify, requests, parameter, registered>>
vars == <<stack, op, answers, rulesVars, hubVars, calm, stale, ops, faults>>

-----------------------------------------------------------------------------
(* Values *)

Statuses == {"absent", "complete", "busy", "undeleted", "stuck"}
Resources == {"rules", "registrations"}

Operation == [type: {"Create", "Update", "Delete"}, regions: SUBSET Regions, old: SUBSET Regions,
              undo: BOOLEAN]

\* The calls of _create_event_rule and of _delete_event_rule, in order, named for
\* what they put there or take away.
Creation == <<"asg rule", "asg target", "tag rule", "tag target", "bus">>
Removal == <<"asg target", "asg rule", "tag target", "tag rule", "bus">>
Parts == {"asg rule", "asg target", "tag rule", "tag target", "bus"}
Calls == 0..5
First(calls, n) == {calls[i] : i \in 1..n}

Demand == [region: Regions, operation: {"Register", "Deregister"}]
Request == [region: Regions, operation: {"Register", "Deregister"},
            step: {"queued", "started", "worked"}]

TypeOK ==
    /\ stack \in [status: Statuses, regions: SUBSET Regions]
    /\ op \in Operation \union {NoOp}
    /\ answers \in [Resources -> {"none", "ok", "failed"}]
    /\ rules \in [Regions -> SUBSET Parts]
    /\ rulesJob \in [delete: SUBSET Regions, create: SUBSET Regions, made: SUBSET Regions]
    /\ notify \subseteq Demand
    /\ requests \subseteq Request
    /\ parameter \in [Regions -> States \union {None}]
    /\ registered \in [Regions -> {"none", "some", "all"}]
    /\ {calm, stale} \subseteq BOOLEAN
    /\ ops \in 0..MaxOps /\ faults \in 0..MaxFaults

NoJob == [delete |-> {}, create |-> {}, made |-> {}]

Init ==
    /\ stack = [status |-> "absent", regions |-> {}]
    /\ op = NoOp
    /\ answers = [x \in Resources |-> "none"]
    /\ rules = [r \in Regions |-> {}]
    /\ rulesJob = NoJob
    /\ notify = {} /\ requests = {}
    /\ parameter = [r \in Regions |-> None]
    /\ registered = [r \in Regions |-> "none"]
    /\ calm = TRUE /\ stale = FALSE
    /\ ops = 0 /\ faults = 0

Faults(kind, n) ==
    /\ n > 0 => kind \in FaultKinds
    /\ faults + n <= MaxFaults
    /\ faults' = faults + n
    /\ calm' = (calm /\ n = 0)

NoFault == UNCHANGED <<calm, faults>>

Answer(resource, answer) == answers' = [answers EXCEPT ![resource] = answer]
Waiting(resource) == op # NoOp /\ answers[resource] = "none"

-----------------------------------------------------------------------------
(* CloudFormation and the people who deploy the stack *)

\* What the operation is to change about the rules.
RulesFor(o) ==
    CASE o.type = "Create" -> [NoJob EXCEPT !.create = o.regions]
      [] o.type = "Update" -> [NoJob EXCEPT !.delete = o.old, !.create = o.regions]
      [] o.type = "Delete" -> [NoJob EXCEPT !.delete = o.regions]

\* Mutant of DemandsOf: an update registers all regions, without asking which are new.
DemandsOfAll(o) ==
    CASE o.type = "Create" -> [region: o.regions, operation: {"Register"}]
      [] o.type = "Update" -> [region: o.regions, operation: {"Register"}]
      [] o.type = "Delete" -> [region: o.regions, operation: {"Deregister"}]

\* _create_request, _update_request, _delete_request of the registrations.
DemandsOf(o) ==
    CASE o.type = "Create" -> [region: o.regions, operation: {"Register"}]
      [] o.type = "Update" -> [region: o.old \ o.regions, operation: {"Deregister"}]
                                  \union [region: o.regions \ o.old, operation: {"Register"}]
      [] o.type = "Delete" -> [region: o.regions, operation: {"Deregister"}]

\* An operation is sent to the resources, of which some may be deleted already.
Begin(o, to) ==
    /\ op' = o
    /\ answers' = [x \in Resources |-> IF x \in to THEN "none" ELSE "ok"]
    /\ rulesJob' = IF "rules" \in to THEN RulesFor(o) ELSE NoJob
    /\ notify' = IF "registrations" \in to THEN DemandsOf(o) ELSE {}
    /\ calm' = TRUE

\* People create, update or delete the stack; they delete again what could not be.
Deploy ==
    /\ op = NoOp /\ ops < MaxOps
    /\ ops' = ops + 1
    /\ stack' = [stack EXCEPT !.status = "busy"]
    /\ \/ /\ stack.status = "absent"
          /\ \E R \in SUBSET Regions \ {{}} :
                Begin([type |-> "Create", regions |-> R, old |-> {}, undo |-> FALSE], Resources)
       \/ /\ stack.status = "complete"
          /\ \E R \in SUBSET Regions \ {{}} :
                Begin([type |-> "Update", regions |-> R, old |-> stack.regions, undo |-> FALSE],
                      Resources)
       \/ /\ stack.status \in {"complete", "undeleted"}
          /\ Begin([type |-> "Delete", regions |-> stack.regions, old |-> {}, undo |-> FALSE],
                   IF stack.status = "complete" THEN Resources
                                                ELSE {x \in Resources : answers[x] # "ok"})
    /\ UNCHANGED <<rules, requests, parameter, registered, stale, faults>>

\* Both resources have answered.
Proceed ==
    /\ op # NoOp
    /\ \A x \in Resources : answers[x] # "none"
    /\ IF \A x \in Resources : answers[x] = "ok"
          THEN /\ stack' = IF op.type = "Delete" THEN [status |-> "absent", regions |-> {}]
                                                 ELSE [status |-> "complete", regions |-> op.regions]
               /\ op' = NoOp
               /\ UNCHANGED <<answers, rulesJob, notify, calm>>
          ELSE \/ /\ op.type = "Create"
                  /\ stack' = [stack EXCEPT !.regions = op.regions]
                  /\ Begin([op EXCEPT !.type = "Delete", !.undo = TRUE], Resources)
               \/ /\ op.type = "Update" /\ ~op.undo
                  /\ Begin([op EXCEPT !.regions = op.old, !.old = op.regions, !.undo = TRUE], Resources)
                  /\ UNCHANGED stack
               \/ /\ op.type = "Delete" \/ op.undo
                  /\ stack' = [stack EXCEPT !.status =
                                  IF op.type = "Delete" THEN "undeleted" ELSE "stuck"]
                  /\ op' = NoOp
                  /\ UNCHANGED <<answers, rulesJob, notify, calm>>
    /\ UNCHANGED <<rules, requests, parameter, registered, stale, ops, faults>>

-----------------------------------------------------------------------------
(* The event rules *)

\* How far _delete_event_rule comes without a fault: remove_targets raises for a rule
\* that is not there, so that what comes after it stays.
Reach(parts) ==
    CASE "asg rule" \notin parts -> 0
      [] "asg rule" \in parts /\ "tag rule" \notin parts -> 2
      [] OTHER -> 5

Removed(parts, n) == parts \ First(Removal, n)

\* _delete_event_rules: one region, whose errors are swallowed.
DeleteRules(r) ==
    /\ Waiting("rules") /\ r \in rulesJob.delete
    /\ \E n \in 0..Reach(rules[r]) :
        /\ rules' = [rules EXCEPT ![r] = Removed(@, n)]
        /\ Faults("rule", IF n < Reach(rules[r]) THEN 1 ELSE 0)
    /\ rulesJob' = [rulesJob EXCEPT !.delete = @ \ {r}]
    /\ UNCHANGED <<stack, op, answers, hubVars, stale, ops>>

\* Mutant of CreateGuard: the rules are created while old ones are being deleted.
CreateGuardNone(r) == r \in rulesJob.create
CreateGuard(r) == r \in rulesJob.create /\ rulesJob.delete = {}

\* _create_event_rules: one region.  If a call fails, the regions done before it are
\* rolled back, unless that raises; what there is in the region itself stays.
CreateRules(r) ==
    /\ Waiting("rules") /\ CreateGuard(r)
    /\ \/ /\ rules' = [rules EXCEPT ![r] = @ \union Parts]
          /\ rulesJob' = [rulesJob EXCEPT !.create = @ \ {r}, !.made = @ \union {r}]
          /\ NoFault
          /\ UNCHANGED answers
       \/ \E n \in 0..4, reach \in [rulesJob.made -> Calls] :
          /\ \A s, t \in rulesJob.made : s # t => ~({reach[s], reach[t]} \subseteq 1..4)
          /\ rules' = [s \in Regions |->
                         IF s = r THEN rules[s] \union First(Creation, n)
                         ELSE IF s \in rulesJob.made THEN Removed(rules[s], reach[s])
                         ELSE rules[s]]
          /\ rulesJob' = NoJob
          /\ Answer("rules", "failed")
          /\ Faults("rule", IF \A s \in rulesJob.made : reach[s] = 5 THEN 1 ELSE 2)
    /\ UNCHANGED <<stack, op, hubVars, stale, ops>>

AnswerRules ==
    /\ Waiting("rules") /\ rulesJob.delete = {} /\ rulesJob.create = {}
    /\ Answer("rules", "ok")
    /\ rulesJob' = NoJob
    /\ UNCHANGED <<stack, op, rules, hubVars, calm, stale, ops, faults>>

-----------------------------------------------------------------------------
(* The registrations: asking the hub *)

\* _put_ssm_parameter_for_region and _send_registration_request for one region: an
\* update first deregisters.  If a call raises, the operation fails.
Notify(d) ==
    /\ Waiting("registrations") /\ d \in notify
    /\ d.operation = "Register" => \A e \in notify : e.operation = "Register"
    /\ LET put == [parameter EXCEPT ![d.region] =
                      IF d.operation = "Register" THEN "created" ELSE "deleting"]
       IN  \/ /\ parameter' = put
              /\ requests' = requests \union
                    {[region |-> d.region, operation |-> d.operation, step |-> "queued"]}
              /\ notify' = notify \ {d}
              /\ NoFault
              /\ UNCHANGED <<answers, stale>>
           \/ /\ parameter' \in {put, parameter}
              /\ notify' = {}
              /\ Answer("registrations", "failed")
              /\ stale' = (stale \/ requests # {})
              /\ Faults("notify", 1)
              /\ UNCHANGED requests
    /\ UNCHANGED <<stack, op, rulesVars, registered, ops>>

-----------------------------------------------------------------------------
(* The hub function *)

At(q, step) == [q EXCEPT !.step = step]
Becomes(q, next) == requests' = (requests \ {q}) \union next

hubUnchanged == UNCHANGED <<stack, op, answers, rulesVars, notify, stale, ops>>

\* Mutant of UnderWay: a deregistration sets a state of its own.
UnderWayEither(q) == IF q.operation = "Register" THEN "registering" ELSE "deregistering"

\* set_registration_status to REGISTERING; a deregistration sets none.
UnderWay(q) == IF q.operation = "Register" THEN "registering" ELSE parameter[q.region]

HubStart(q) ==
    /\ q \in requests /\ q.step = "queued"
    /\ Becomes(q, {At(q, "started")})
    /\ parameter' = [parameter EXCEPT ![q.region] = UnderWay(q)]
    /\ NoFault
    /\ UNCHANGED registered
    /\ hubUnchanged

\* The resources of the three services are registered, or deregistered.
HubWork(q) ==
    /\ q \in requests /\ q.step = "started"
    /\ Becomes(q, {At(q, "worked")})
    /\ registered' = [registered EXCEPT ![q.region] =
                         IF q.operation = "Register" THEN "all" ELSE "none"]
    /\ NoFault
    /\ UNCHANGED parameter
    /\ hubUnchanged

\* set_registration_status to MANAGED or DELETED.  The event may be delivered twice.
HubFinish(q) ==
    /\ q \in requests /\ q.step = "worked"
    /\ parameter' = [parameter EXCEPT ![q.region] =
                        IF q.operation = "Register" THEN "managed" ELSE "deleted"]
    /\ \/ Becomes(q, {}) /\ NoFault
       \/ Becomes(q, {At(q, "queued")}) /\ Faults("twice", 1)
    /\ UNCHANGED registered
    /\ hubUnchanged

\* Some of a region's resources registered or deregistered, of which some, all or none
\* were.
Partly(operation, before) ==
    IF before = (IF operation = "Register" THEN "all" ELSE "none") THEN before ELSE "some"

\* A step raises, with some of the work done or none: Lambda tries again, or has tried
\* often enough.
HubFail(q) ==
    /\ q \in requests
    /\ \/ Becomes(q, {At(q, "queued")}) /\ Faults("again", 1)
       \/ Becomes(q, {}) /\ Faults("dead", 1)
    /\ registered' = [registered EXCEPT ![q.region] =
                         IF q.step = "started" THEN Partly(q.operation, @) ELSE @]
    /\ UNCHANGED parameter
    /\ hubUnchanged

-----------------------------------------------------------------------------
(* The waiter *)

\* Mutant of ExpectedAt: the regions an update leaves out are not expected to go.
ExpectedAtCurrent(o, r) ==
    CASE o.type = "Create" -> {"managed"}
      [] o.type = "Update" -> IF r \in o.regions THEN {"managed"} ELSE {}
      [] o.type = "Delete" -> {"deleted"}

\* What the three requests of the waiter want of a parameter that is there.
ExpectedAt(o, r) ==
    CASE o.type = "Create" -> {"managed"}
      [] o.type = "Update" -> IF r \in o.regions THEN {"managed"}
                              ELSE IF r \in o.old THEN {"deleted"} ELSE {}
      [] o.type = "Delete" -> {"deleted"}

IsComplete(o) == \A r \in Regions : parameter[r] # None => parameter[r] \in ExpectedAt(o, r)

\* The parameters it deletes then.
Cleared(o) == IF o.type = "Delete" THEN o.regions ELSE Regions

Poll ==
    /\ Waiting("registrations") /\ notify = {}
    /\ IsComplete(op)
    /\ \E gone \in SUBSET Cleared(op) :
        /\ parameter' = [r \in Regions |-> IF r \in gone THEN None ELSE parameter[r]]
        /\ Answer("registrations", IF gone = Cleared(op) THEN "ok" ELSE "failed")
        /\ Faults("clear", IF gone = Cleared(op) THEN 0 ELSE 1)
    /\ stale' = (stale \/ requests # {})
    /\ UNCHANGED <<stack, op, rulesVars, notify, requests, registered, ops>>

\* The provider gives up after its total timeout; while the hub works that is a fault.
Timeout ==
    /\ Waiting("registrations") /\ notify = {}
    /\ Answer("registrations", "failed")
    /\ stale' = (stale \/ requests # {})
    /\ calm' = FALSE
    /\ requests # {} => "timeout" \in FaultKinds /\ faults < MaxFaults
    /\ faults' = faults + IF requests = {} THEN 0 ELSE 1
    /\ UNCHANGED <<stack, op, rulesVars, hubVars, ops>>

\* Nothing is left to happen.
Done == op = NoOp /\ requests = {} /\ ops = MaxOps /\ UNCHANGED vars
Stuck == op = NoOp /\ requests = {} /\ stack.status = "stuck" /\ UNCHANGED vars

Rules == AnswerRules \/ \E r \in Regions : DeleteRules(r) \/ CreateRules(r)
Hub == \E q \in requests : HubStart(q) \/ HubWork(q) \/ HubFinish(q)

Next ==
    \/ Deploy \/ Proceed
    \/ AnswerRules \/ \E r \in Regions : DeleteRules(r) \/ CreateRules(r)
    \/ \E d \in notify : Notify(d)
    \/ \E q \in requests : HubStart(q) \/ HubWork(q) \/ HubFinish(q) \/ HubFail(q)
    \/ Poll \/ Timeout
    \/ Done \/ Stuck

\* CloudFormation, Lambda and the provider go on with what has begun.
Fairness ==
    /\ WF_vars(Proceed) /\ WF_vars(Rules) /\ WF_vars(Poll)
    /\ WF_vars(\E d \in notify : Notify(d))
    /\ WF_vars(Hub)

Spec == Init /\ [][Next]_vars /\ Fairness

-----------------------------------------------------------------------------
(* Properties *)

AtRest == op = NoOp /\ stack.status \in {"absent", "complete"}

\* When a stack is at rest, created, updated, rolled back or deleted, the registry has
\* the resources of exactly its regions, and no parameter is left that would hold up
\* another operation: whichever calls, handlers and events failed on the way, came
\* twice or ran out of time, unless the hub still worked for an operation when that
\* was answered.
RegisteredAsDeployed ==
    AtRest /\ ~stale =>
        \A r \in Regions : /\ registered[r] = IF r \in stack.regions THEN "all" ELSE "none"
                           /\ parameter[r] = None

\* When a stack is at rest every region of it has its rules, their targets and the bus,
\* whichever calls failed in deleting and creating them, and in rolling that back.
RulesWhereDeployed ==
    AtRest => \A r \in stack.regions : rules[r] = Parts

\* An operation in which nothing fails succeeds, though others have failed before it and
\* left their parameters: the waiter does not wait for what nobody is going to write.
CalmSucceeds ==
    (op # NoOp /\ calm /\ ~stale) ~> (AtRest \/ ~calm \/ stale)
=============================================================================
