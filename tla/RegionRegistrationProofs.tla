----------------------- MODULE RegionRegistrationProofs -----------------------
(***************************************************************************)
(* For any regions, number of operations and of faults: a stack at rest    *)
(* has the event rules of all its regions, and exactly its regions in the  *)
(* registry.                                                               *)
(***************************************************************************)
EXTENDS RegionRegistration, TLAPS

-----------------------------------------------------------------------------
(* Types *)

LEMMA InitTypes == Init => TypeOK
<1> SUFFICES ASSUME Init PROVE TypeOK
  OBVIOUS
<1>1. calm \in BOOLEAN /\ stale \in BOOLEAN
  BY Zenon DEF Init
<1>2. {calm, stale} \subseteq BOOLEAN
  BY <1>1
<1>3. QED
  BY <1>2, RegionsAssumption DEF Init, TypeOK, Statuses, Resources, NoJob

LEMMA FirstIsParts ==
    /\ \A n \in 0..4 : First(Creation, n) \subseteq Parts
    /\ \A n \in Calls, parts \in SUBSET Parts : Removed(parts, n) \subseteq Parts
<1>1. ASSUME NEW n \in 0..4, NEW i \in 1..n PROVE Creation[i] \in Parts
  <2>1. i = 1 \/ i = 2 \/ i = 3 \/ i = 4
    OBVIOUS
  <2>2. /\ Creation[1] \in Parts /\ Creation[2] \in Parts
        /\ Creation[3] \in Parts /\ Creation[4] \in Parts
    BY DEF Creation, Parts
  <2>3. QED
    BY <2>1, <2>2
<1>2. \A n \in 0..4 : First(Creation, n) \subseteq Parts
  BY <1>1 DEF First
<1>3. QED
  BY <1>2 DEF Removed

LEMMA ReachIsCalls ==
    ASSUME NEW parts
    PROVE  Reach(parts) \in {0, 2, 5} /\ 0..Reach(parts) \subseteq Calls
<1>1. Reach(parts) \in {0, 2, 5}
  <2>1. CASE "asg rule" \notin parts
    BY <2>1 DEF Reach
  <2>2. CASE "asg rule" \in parts /\ "tag rule" \notin parts
    BY <2>2 DEF Reach
  <2>3. CASE "asg rule" \in parts /\ "tag rule" \in parts
    BY <2>3 DEF Reach
  <2>4. QED
    BY <2>1, <2>2, <2>3
<1>2. QED
  BY <1>1 DEF Calls

\* What begins is an operation, with the jobs and demands that are its own.
LEMMA BeginTypes ==
    ASSUME NEW o \in Operation, NEW to, Begin(o, to), TypeOK
    PROVE  /\ op' \in Operation
           /\ answers' \in [Resources -> {"none", "ok", "failed"}]
           /\ rulesJob' \in [delete: SUBSET Regions, create: SUBSET Regions, made: SUBSET Regions]
           /\ notify' \subseteq Demand
           /\ calm' = TRUE
<1>1. RulesFor(o) \in [delete: SUBSET Regions, create: SUBSET Regions, made: SUBSET Regions]
  BY DEF RulesFor, NoJob, Operation
<1>2. DemandsOf(o) \subseteq Demand
  BY DEF DemandsOf, Demand, Operation
<1>3. NoJob \in [delete: SUBSET Regions, create: SUBSET Regions, made: SUBSET Regions]
  BY DEF NoJob
<1>4. QED
  BY <1>1, <1>2, <1>3 DEF Begin, Operation

LEMMA FaultTypes ==
    ASSUME TypeOK, NEW kind, NEW n \in Nat, Faults(kind, n)
    PROVE  faults' \in 0..MaxFaults
BY RegionsAssumption DEF TypeOK, Faults

LEMMA DeployTypes == TypeOK /\ Deploy => TypeOK'
<1> SUFFICES ASSUME TypeOK, Deploy PROVE TypeOK'
  OBVIOUS
<1>1. PICK o \in Operation : \E to : Begin(o, to)
  BY DEF Deploy, Operation, TypeOK
<1>2. stack' \in [status: Statuses, regions: SUBSET Regions] /\ ops' \in 0..MaxOps
  BY RegionsAssumption DEF Deploy, TypeOK, Statuses
<1>3. calm' \in BOOLEAN /\ UNCHANGED <<rules, requests, parameter, registered, stale, faults>>
  BY <1>1, BeginTypes DEF Deploy
<1>4. QED
  BY <1>1, <1>2, <1>3, BeginTypes DEF TypeOK

LEMMA ProceedTypes == TypeOK /\ Proceed => TypeOK'
<1> SUFFICES ASSUME TypeOK, Proceed PROVE TypeOK'
  OBVIOUS
<1>1. op \in Operation
  BY DEF Proceed, TypeOK
<1>2. stack' \in [status: Statuses, regions: SUBSET Regions]
  BY <1>1 DEF Proceed, TypeOK, Statuses, Operation
<1>3. CASE UNCHANGED <<answers, rulesJob, notify, calm>> /\ op' = NoOp
  BY <1>2, <1>3 DEF Proceed, TypeOK
<1>4. CASE \E o \in Operation : Begin(o, Resources)
  BY <1>2, <1>4, BeginTypes DEF Proceed, TypeOK
<1>5. QED
  BY <1>1, <1>3, <1>4 DEF Proceed, Operation

LEMMA RulesTypes == TypeOK /\ Rules => TypeOK'
<1> SUFFICES ASSUME TypeOK, Rules PROVE TypeOK'
  OBVIOUS
<1>1. ASSUME NEW r \in Regions, DeleteRules(r) PROVE TypeOK'
  <2>1. PICK n \in 0..Reach(rules[r]) :
            /\ rules' = [rules EXCEPT ![r] = Removed(@, n)]
            /\ Faults("rule", IF n < Reach(rules[r]) THEN 1 ELSE 0)
    BY <1>1 DEF DeleteRules
  <2>2. rules[r] \in SUBSET Parts /\ n \in Calls
    BY <2>1, ReachIsCalls DEF TypeOK
  <2>3. rules' \in [Regions -> SUBSET Parts]
    BY <2>1, <2>2, FirstIsParts DEF TypeOK
  <2>4. faults' \in 0..MaxFaults
    BY <2>1, FaultTypes
  <2>5. QED
    BY <1>1, <2>1, <2>3, <2>4 DEF DeleteRules, hubVars, Faults, TypeOK
<1>2. ASSUME NEW r \in Regions, CreateRules(r) PROVE TypeOK'
  <2>1. CASE /\ rules' = [rules EXCEPT ![r] = @ \union Parts]
             /\ rulesJob' = [rulesJob EXCEPT !.create = @ \ {r}, !.made = @ \union {r}]
             /\ NoFault
             /\ UNCHANGED answers
    BY <1>2, <2>1 DEF CreateRules, NoFault, hubVars, TypeOK
  <2>2. ASSUME NEW n \in 0..4, NEW reach \in [rulesJob.made -> Calls],
               rules' = [s \in Regions |->
                           IF s = r THEN rules[s] \union First(Creation, n)
                           ELSE IF s \in rulesJob.made THEN Removed(rules[s], reach[s])
                           ELSE rules[s]],
               rulesJob' = NoJob,
               Answer("rules", "failed"),
               Faults("rule", IF \A s \in rulesJob.made : reach[s] = 5 THEN 1 ELSE 2)
        PROVE  TypeOK'
    <3>1. ASSUME NEW s \in Regions
          PROVE  /\ rules[s] \union First(Creation, n) \in SUBSET Parts
                 /\ s \in rulesJob.made => Removed(rules[s], reach[s]) \in SUBSET Parts
      BY <2>2, FirstIsParts DEF TypeOK
    <3>2. rules' \in [Regions -> SUBSET Parts]
      BY <2>2, <3>1 DEF TypeOK
    <3>3. faults' \in 0..MaxFaults
      BY <2>2, FaultTypes
    <3>4. answers' \in [Resources -> {"none", "ok", "failed"}]
      BY <2>2 DEF Answer, TypeOK
    <3>5. QED
      BY <1>2, <2>2, <3>2, <3>3, <3>4 DEF CreateRules, Faults, hubVars, NoJob, TypeOK
  <2>3. QED
    BY <1>2, <2>1, <2>2 DEF CreateRules
<1>3. CASE AnswerRules
  BY <1>3 DEF AnswerRules, Answer, NoJob, hubVars, TypeOK
<1>4. QED
  BY <1>1, <1>2, <1>3 DEF Rules

LEMMA NotifyTypes == ASSUME TypeOK, NEW d \in notify, Notify(d) PROVE TypeOK'
<1> USE DEF TypeOK
<1>1. d \in Demand
  OBVIOUS
<1>2. [parameter EXCEPT ![d.region] = IF d.operation = "Register" THEN "created" ELSE "deleting"]
          \in [Regions -> States \union {None}]
  BY <1>1 DEF Demand, States
<1>3. parameter' \in [Regions -> States \union {None}]
  BY <1>2 DEF Notify
<1>4. requests' \subseteq Request /\ notify' \subseteq Demand
  BY <1>1 DEF Notify, Demand, Request
<1>5. faults' \in 0..MaxFaults /\ calm' \in BOOLEAN
  BY FaultTypes DEF Notify, NoFault, Faults
<1>6. answers' \in [Resources -> {"none", "ok", "failed"}] /\ stale' \in BOOLEAN
  BY DEF Notify, Answer
<1>7. QED
  BY <1>3, <1>4, <1>5, <1>6 DEF Notify, rulesVars

LEMMA HubTypes ==
    ASSUME TypeOK, NEW q \in requests, HubStart(q) \/ HubWork(q) \/ HubFinish(q) \/ HubFail(q)
    PROVE  TypeOK'
<1> USE DEF TypeOK
<1>1. q \in Request /\ At(q, "started") \in Request /\ At(q, "worked") \in Request
      /\ At(q, "queued") \in Request
  BY DEF Request, At
<1>2. requests' \subseteq Request
  BY <1>1 DEF HubStart, HubWork, HubFinish, HubFail, Becomes
<1>3. UnderWay(q) \in States \union {None}
  BY <1>1 DEF UnderWay, Request, States
<1>4. parameter' \in [Regions -> States \union {None}]
  BY <1>1, <1>3 DEF HubStart, HubWork, HubFinish, HubFail, States
<1>5. registered' \in [Regions -> {"none", "some", "all"}]
  <2>1. CASE HubFail(q)
    <3>1. registered[q.region] \in {"none", "some", "all"}
      BY <1>1 DEF Request
    <3>2. Partly(q.operation, registered[q.region]) \in {"none", "some", "all"}
      BY <3>1 DEF Partly
    <3>3. QED
      BY <2>1, <3>1, <3>2 DEF HubFail
  <2>2. QED
    BY <2>1 DEF HubStart, HubWork, HubFinish
<1>6. faults' \in 0..MaxFaults /\ calm' \in BOOLEAN
  BY FaultTypes DEF HubStart, HubWork, HubFinish, HubFail, NoFault, Faults
<1>7. QED
  BY <1>2, <1>4, <1>5, <1>6 DEF HubStart, HubWork, HubFinish, HubFail, hubUnchanged, rulesVars

LEMMA WaiterTypes == TypeOK /\ (Poll \/ Timeout) => TypeOK'
<1> SUFFICES ASSUME TypeOK, Poll \/ Timeout PROVE TypeOK'
  OBVIOUS
<1> USE DEF TypeOK
<1>1. CASE Poll
  <2>1. parameter' \in [Regions -> States \union {None}]
    BY <1>1 DEF Poll
  <2>2. faults' \in 0..MaxFaults /\ calm' \in BOOLEAN
    BY <1>1, FaultTypes DEF Poll, Faults
  <2>3. answers' \in [Resources -> {"none", "ok", "failed"}] /\ stale' \in BOOLEAN
    BY <1>1 DEF Poll, Answer
  <2>4. QED
    BY <1>1, <2>1, <2>2, <2>3 DEF Poll, rulesVars
<1>2. CASE Timeout
  <2>1. faults' \in 0..MaxFaults
    BY <1>2, RegionsAssumption DEF Timeout
  <2>2. QED
    BY <1>2, <2>1 DEF Timeout, Answer, rulesVars, hubVars
<1>3. QED
  BY <1>1, <1>2

LEMMA NextTypes == TypeOK /\ [Next]_vars => TypeOK'
<1>1. ASSUME TypeOK, UNCHANGED vars PROVE TypeOK'
  BY <1>1 DEF TypeOK, vars, rulesVars, hubVars
<1>2. QED
  BY <1>1, DeployTypes, ProceedTypes, RulesTypes, NotifyTypes, HubTypes, WaiterTypes
     DEF Next, Rules, Done, Stuck

\* Every variable keeps its type, for any regions, operations and faults.
THEOREM TypeCorrect == Spec => []TypeOK
  BY InitTypes, NextTypes, PTL DEF Spec

-----------------------------------------------------------------------------
(* The rules of the regions *)

Complete(R) == \A r \in R : rules[r] = Parts

\* While the handler works, the regions it has done are complete, and it does the first
\* one when nothing is left to delete; what it has answered well is done.
RulesInv ==
    /\ stack.status = "absent" => stack.regions = {}
    /\ op = NoOp /\ stack.status = "complete" => Complete(stack.regions)
    /\ op # NoOp => stack.status = "busy"
    /\ op # NoOp /\ op.type # "Delete" =>
          /\ answers["rules"] = "ok" => Complete(op.regions)
          /\ answers["rules"] = "none" =>
                /\ Complete(op.regions \ rulesJob.create)
                /\ op.regions \subseteq rulesJob.create \/ rulesJob.delete = {}

\* An operation begins with all its regions to be created.
LEMMA BeginRules ==
    ASSUME NEW o \in Operation, NEW to, Begin(o, to), o.type # "Delete" => "rules" \in to,
           stack'.status = "busy"
    PROVE  RulesInv'
<1>1. op' = o
  BY DEF Begin
<1>2. o.type # "Delete" => answers'["rules"] = "none" /\ rulesJob'.create = o.regions
  BY DEF Begin, Resources, RulesFor, NoJob, Operation
<1>3. QED
  BY <1>1, <1>2 DEF RulesInv, Complete

LEMMA DeployRules == TypeOK /\ Deploy => RulesInv'
<1> SUFFICES ASSUME TypeOK, Deploy PROVE RulesInv'
  OBVIOUS
<1>1. stack'.status = "busy"
  BY DEF Deploy, TypeOK
<1>2. PICK o \in Operation : \E to : Begin(o, to) /\ (o.type # "Delete" => to = Resources)
  <2>1. CASE \E R \in SUBSET Regions :
                Begin([type |-> "Create", regions |-> R, old |-> {}, undo |-> FALSE], Resources)
    BY <2>1 DEF Operation
  <2>2. CASE \E R \in SUBSET Regions :
                Begin([type |-> "Update", regions |-> R, old |-> stack.regions, undo |-> FALSE],
                      Resources)
    BY <2>2 DEF Operation, TypeOK
  <2>3. CASE \E to : Begin([type |-> "Delete", regions |-> stack.regions, old |-> {},
                           undo |-> FALSE], to)
    <3>1. PICK to : Begin([type |-> "Delete", regions |-> stack.regions, old |-> {},
                           undo |-> FALSE], to)
      BY <2>3
    <3>2. [type |-> "Delete", regions |-> stack.regions, old |-> {}, undo |-> FALSE] \in Operation
      BY DEF Operation, TypeOK
    <3>3. [type |-> "Delete", regions |-> stack.regions, old |-> {}, undo |-> FALSE].type = "Delete"
      OBVIOUS
    <3>4. QED
      BY <3>1, <3>2, <3>3
  <2>4. QED
    BY <2>1, <2>2, <2>3 DEF Deploy
<1>3. QED
  BY <1>1, <1>2, BeginRules DEF Resources

LEMMA ProceedRules == TypeOK /\ RulesInv /\ Proceed => RulesInv'
<1> SUFFICES ASSUME TypeOK, RulesInv, Proceed PROVE RulesInv'
  OBVIOUS
<1>1. op \in Operation /\ op # NoOp /\ stack.status = "busy"
  BY DEF Proceed, TypeOK, RulesInv
<1>2. CASE \A x \in Resources : answers[x] = "ok"
  <2>1. answers["rules"] = "ok"
    BY <1>2 DEF Resources
  <2>2. /\ stack' = IF op.type = "Delete" THEN [status |-> "absent", regions |-> {}]
                                          ELSE [status |-> "complete", regions |-> op.regions]
        /\ op' = NoOp /\ UNCHANGED rules
    BY <1>2 DEF Proceed
  <2>3. op.type # "Delete" => Complete(op.regions)
    BY <1>1, <2>1 DEF RulesInv
  <2>4. QED
    BY <2>2, <2>3 DEF RulesInv, Complete
<1>3. CASE ~\A x \in Resources : answers[x] = "ok"
  <2>1. CASE op' = NoOp
    <3>1. CASE stack'.status \in {"undeleted", "stuck"}
      BY <2>1, <3>1 DEF RulesInv
    <3>2. CASE \E o \in Operation : Begin(o, Resources) /\ stack'.status = "busy"
      BY <3>2, BeginRules DEF Resources
    <3>3. QED
      BY <1>1, <1>3, <3>1, <3>2 DEF Proceed, Operation, TypeOK
  <2>2. CASE op' # NoOp
    <3>1. \E o \in Operation : Begin(o, Resources) /\ stack'.status = "busy"
      BY <1>1, <1>3, <2>2 DEF Proceed, Operation, TypeOK
    <3>2. QED
      BY <3>1, BeginRules DEF Resources
  <2>3. QED
    BY <2>1, <2>2
<1>4. QED
  BY <1>2, <1>3

LEMMA HandlerRules == TypeOK /\ RulesInv /\ Rules => RulesInv'
<1> SUFFICES ASSUME TypeOK, RulesInv, Rules PROVE RulesInv'
  OBVIOUS
<1> USE DEF TypeOK
<1>1. /\ op # NoOp /\ answers["rules"] = "none" /\ stack.status = "busy"
      /\ UNCHANGED <<stack, op>>
  BY DEF Rules, DeleteRules, CreateRules, AnswerRules, Waiting, RulesInv
<1>2. CASE op.type = "Delete"
  BY <1>1, <1>2 DEF RulesInv
<1>3. ASSUME op.type # "Delete", NEW r \in Regions, DeleteRules(r) PROVE RulesInv'
  <2>1. op.regions \subseteq rulesJob.create
    BY <1>1, <1>3 DEF RulesInv, DeleteRules
  <2>2. rulesJob'.create = rulesJob.create /\ answers' = answers
    BY <1>3 DEF DeleteRules
  <2>3. QED
    BY <1>1, <2>1, <2>2 DEF RulesInv, Complete
<1>4. ASSUME op.type # "Delete", NEW r \in Regions, CreateRules(r) PROVE RulesInv'
  <2>1. CASE answers'["rules"] = "failed"
    BY <1>1, <2>1 DEF RulesInv
  <2>2. CASE /\ rules' = [rules EXCEPT ![r] = @ \union Parts]
             /\ rulesJob' = [rulesJob EXCEPT !.create = @ \ {r}, !.made = @ \union {r}]
             /\ UNCHANGED answers
    <3>1. \A s \in Regions : rules'[s] = IF s = r THEN Parts ELSE rules[s]
      BY <2>2
    <3>2. rulesJob'.create = rulesJob.create \ {r} /\ rulesJob'.delete = {}
      BY <1>4, <2>2 DEF CreateRules, CreateGuard
    <3>3. op.regions \subseteq Regions
      BY <1>1 DEF Operation
    <3>4. Complete(op.regions \ rulesJob.create)
      BY <1>1, <1>4 DEF RulesInv
    <3>5. Complete(op.regions \ rulesJob.create)'
      BY <1>1, <3>1, <3>2, <3>3, <3>4 DEF Complete
    <3>6. QED
      BY <1>1, <2>2, <3>2, <3>5 DEF RulesInv
  <2>3. QED
    BY <1>4, <2>1, <2>2 DEF CreateRules, Answer, Resources
<1>5. CASE op.type # "Delete" /\ AnswerRules
  <2>1. Complete(op.regions \ rulesJob.create) /\ rulesJob.create = {} /\ UNCHANGED rules
    BY <1>1, <1>5 DEF RulesInv, AnswerRules
  <2>2. answers'["rules"] = "ok"
    BY <1>5 DEF AnswerRules, Answer, Resources
  <2>3. Complete(op.regions)'
    BY <1>1, <2>1 DEF Complete
  <2>4. QED
    BY <1>1, <2>2, <2>3 DEF RulesInv
<1>6. QED
  BY <1>2, <1>3, <1>4, <1>5 DEF Rules

\* The other resource only answers for itself.
LEMMA RegistrationsRules ==
    ASSUME TypeOK, RulesInv, UNCHANGED <<stack, op, rules, rulesJob>>,
           answers'["rules"] = answers["rules"]
    PROVE  RulesInv'
BY DEF RulesInv, Complete

LEMMA NextRules == TypeOK /\ RulesInv /\ [Next]_vars => RulesInv'
<1> SUFFICES ASSUME TypeOK, RulesInv, [Next]_vars PROVE RulesInv'
  OBVIOUS
<1>1. CASE \/ \E d \in notify : Notify(d)
           \/ \E q \in requests : HubStart(q) \/ HubWork(q) \/ HubFinish(q) \/ HubFail(q)
           \/ Poll \/ Timeout \/ Done \/ Stuck \/ UNCHANGED vars
  <2>1. UNCHANGED <<stack, op, rules, rulesJob>>
    BY <1>1 DEF Notify, HubStart, HubWork, HubFinish, HubFail, hubUnchanged, Poll, Timeout, Done,
                Stuck, vars, rulesVars
  <2>2. answers'["rules"] = answers["rules"]
    BY <1>1 DEF Notify, Answer, HubStart, HubWork, HubFinish, HubFail, hubUnchanged, Poll, Timeout,
                Done, Stuck, vars, TypeOK, Resources
  <2>3. QED
    BY <2>1, <2>2, RegistrationsRules
<1>2. QED
  BY <1>1, DeployRules, ProceedRules, HandlerRules DEF Next, Rules

\* However many regions there are and whichever calls fail, a stack at rest has the
\* rules, targets and bus of each of its regions.
THEOREM RulesSafe == Spec => []RulesWhereDeployed
<1>1. Init => RulesInv
  BY DEF Init, RulesInv, Complete
<1>2. RulesInv => RulesWhereDeployed
  BY DEF RulesInv, RulesWhereDeployed, AtRest, Complete
<1>3. QED
  BY <1>1, <1>2, InitTypes, NextTypes, NextRules, PTL DEF Spec

-----------------------------------------------------------------------------
(* The registrations of the regions *)

\* A region is as it is to be, in the stack or not, and nothing of it is left over.
Clean(r, within) == registered[r] = (IF within THEN "all" ELSE "none") /\ parameter[r] = None

\* The regions of the stack once an operation has succeeded, and those it changes.
After(o) == IF o.type = "Delete" THEN {} ELSE o.regions
Touched(o) == {d.region : d \in DemandsOf(o)}

\* The states of a parameter from the demand on.
Way(operation) ==
    IF operation = "Register" THEN {"created", "registering", "managed"} ELSE {"deleting", "deleted"}

\* A parameter, or a request that has worked, tells the truth.
Told ==
    /\ \A r \in Regions : /\ parameter[r] = "managed" => registered[r] = "all"
                          /\ parameter[r] = "deleted" => registered[r] = "none"
    /\ \A q \in requests : q.step = "worked" =>
          registered[q.region] = IF q.operation = "Register" THEN "all" ELSE "none"

\* The hub works for what this operation has demanded, and for nothing else.
Working ==
    /\ op # NoOp /\ answers["registrations"] = "none" =>
          /\ notify \subseteq DemandsOf(op)
          /\ \A d \in DemandsOf(op) \ notify : parameter[d.region] \in Way(d.operation)
          /\ \A q \in requests :
                [region |-> q.region, operation |-> q.operation] \in DemandsOf(op) \ notify
    /\ op = NoOp \/ answers["registrations"] # "none" => requests = {}

\* While an operation runs the regions it does not change are as they are to be, and
\* all are once it has answered well.
Changing ==
    op # NoOp =>
        /\ op.type = "Delete" => stack.regions = op.regions
        /\ \A r \in Regions \ Touched(op) : Clean(r, r \in After(op))
        /\ answers["registrations"] = "ok" => \A r \in Regions : Clean(r, r \in After(op))

\* When none runs: a stack that could not be deleted may be deleted again.
Resting ==
    op = NoOp =>
        /\ stack.status \in {"absent", "complete"} => \A r \in Regions : Clean(r, r \in stack.regions)
        /\ stack.status = "undeleted" =>
              /\ \A r \in Regions \ stack.regions : Clean(r, FALSE)
              /\ answers["registrations"] = "ok" => \A r \in Regions : Clean(r, FALSE)

RegistrationsInv ==
    /\ stack.status = "absent" => stack.regions = {}
    /\ op # NoOp => stack.status = "busy"
    /\ ~stale => Told /\ Working /\ Changing /\ Resting

\* What is demanded of a region follows from whether it is to be in the stack, and is
\* what the waiter expects.
LEMMA DemandsAgree ==
    ASSUME NEW o \in Operation
    PROVE  /\ \A d \in DemandsOf(o) :
                /\ d.region \in Regions \intersect Touched(o)
                /\ d.operation = IF d.region \in After(o) THEN "Register" ELSE "Deregister"
                /\ ExpectedAt(o, d.region) = IF d.region \in After(o) THEN {"managed"} ELSE {"deleted"}
           /\ Touched(o) \subseteq Cleared(o) /\ Cleared(o) \subseteq Regions
           /\ o.type = "Delete" => Touched(o) = o.regions
<1>1. ASSUME NEW d \in DemandsOf(o)
      PROVE  /\ d.region \in Regions
             /\ d.operation = IF d.region \in After(o) THEN "Register" ELSE "Deregister"
             /\ ExpectedAt(o, d.region) = IF d.region \in After(o) THEN {"managed"} ELSE {"deleted"}
             /\ d.region \in Cleared(o)
  <2>1. CASE o.type = "Create"
    BY <1>1, <2>1 DEF DemandsOf, After, ExpectedAt, Operation, Cleared
  <2>2. CASE o.type = "Update"
    BY <1>1, <2>2 DEF DemandsOf, After, ExpectedAt, Operation, Cleared
  <2>3. CASE o.type = "Delete"
    BY <1>1, <2>3 DEF DemandsOf, After, ExpectedAt, Operation, Cleared
  <2>4. QED
    BY <2>1, <2>2, <2>3 DEF Operation
<1>2. ASSUME o.type = "Delete" PROVE Touched(o) = o.regions
  <2>1. \A r \in o.regions :
           /\ [region |-> r, operation |-> "Deregister"] \in DemandsOf(o)
           /\ [region |-> r, operation |-> "Deregister"].region = r
    BY <1>2 DEF DemandsOf
  <2>2. \A d \in DemandsOf(o) : d.region \in o.regions
    BY <1>2 DEF DemandsOf
  <2>3. QED
    BY <2>1, <2>2 DEF Touched
<1>3. Cleared(o) \subseteq Regions
  BY DEF Cleared, Operation
<1>4. QED
  BY <1>1, <1>2, <1>3 DEF Touched

\* A request of the hub while it counts: the operation waits for it, and the parameter
\* of its region is on the way that the operation demands.
LEMMA RequestsAgree ==
    ASSUME TypeOK, RegistrationsInv, ~stale, NEW q \in requests
    PROVE  /\ op # NoOp /\ op \in Operation /\ answers["registrations"] = "none"
           /\ q \in Request
           /\ q.region \in Touched(op)
           /\ q.operation = IF q.region \in After(op) THEN "Register" ELSE "Deregister"
           /\ parameter[q.region] \in Way(q.operation)
<1>1. op # NoOp /\ answers["registrations"] = "none"
  BY DEF RegistrationsInv, Working
<1>2. op \in Operation /\ q \in Request
  BY <1>1 DEF TypeOK
<1> DEFINE d == [region |-> q.region, operation |-> q.operation]
<1>3. d \in DemandsOf(op) \ notify
  BY <1>1 DEF RegistrationsInv, Working
<1>4. d.region = q.region /\ d.operation = q.operation
  OBVIOUS
<1>5. parameter[d.region] \in Way(d.operation)
  BY <1>1, <1>3 DEF RegistrationsInv, Working
<1>6. QED
  BY <1>1, <1>2, <1>3, <1>4, <1>5, DemandsAgree

\* A step of the hub for one region, after which the request is gone or is another of
\* the same demand, keeps what holds of the registrations if it tells the truth.
LEMMA HubKeeps ==
    ASSUME TypeOK, RegistrationsInv, NEW q \in requests, hubUnchanged,
           NEW next \in SUBSET Request, Becomes(q, next),
           \A n \in next : n.region = q.region /\ n.operation = q.operation,
           \A r \in Regions \ {q.region} :
              parameter'[r] = parameter[r] /\ registered'[r] = registered[r],
           ~stale => /\ parameter'[q.region] \in Way(q.operation)
                     /\ parameter'[q.region] = "managed" => registered'[q.region] = "all"
                     /\ parameter'[q.region] = "deleted" => registered'[q.region] = "none"
                     /\ (\E p \in requests' : p.region = q.region /\ p.step = "worked")
                           => registered'[q.region] =
                                 IF q.operation = "Register" THEN "all" ELSE "none"
    PROVE  RegistrationsInv'
<1>1. UNCHANGED <<stack, op, answers, notify, stale>>
  BY DEF hubUnchanged
<1>2. CASE stale
  BY <1>1, <1>2 DEF RegistrationsInv
<1>3. CASE ~stale
  <2> USE <1>3
  <2>1. /\ op # NoOp /\ op \in Operation /\ answers["registrations"] = "none"
        /\ q \in Request /\ q.region \in Touched(op)
    BY RequestsAgree
  <2>2. \A p \in requests :
           /\ p \in Request /\ p.region \in Regions
           /\ p.operation = IF p.region \in After(op) THEN "Register" ELSE "Deregister"
    BY RequestsAgree DEF Request
  <2>3. \A p \in requests' : \E o \in requests : p.region = o.region /\ p.operation = o.operation
    BY DEF Becomes
  <2>4. \A p \in requests' : p.region # q.region => p \in requests
    BY DEF Becomes
  <2>5. Told'
    <3>1. ASSUME NEW p \in requests', p.step = "worked"
          PROVE  registered'[p.region] = IF p.operation = "Register" THEN "all" ELSE "none"
      <4>1. CASE p.region = q.region
        <5>1. p.operation = q.operation
          BY <2>2, <2>3, <4>1
        <5>2. QED
          BY <3>1, <4>1, <5>1
      <4>2. CASE p.region # q.region
        BY <2>2, <2>4, <3>1, <4>2 DEF RegistrationsInv, Told
      <4>3. QED
        BY <4>1, <4>2
    <3>2. ASSUME NEW r \in Regions
          PROVE  /\ parameter'[r] = "managed" => registered'[r] = "all"
                 /\ parameter'[r] = "deleted" => registered'[r] = "none"
      BY DEF RegistrationsInv, Told
    <3>3. QED
      BY <3>1, <3>2 DEF Told
  <2>6. Working'
    <3>1. ASSUME NEW p \in requests'
          PROVE  [region |-> p.region, operation |-> p.operation] \in DemandsOf(op) \ notify
      BY <2>1, <2>3 DEF RegistrationsInv, Working
    <3>2. ASSUME NEW d \in DemandsOf(op) \ notify PROVE parameter'[d.region] \in Way(d.operation)
      <4>1. /\ d.region \in Regions
            /\ d.operation = IF d.region \in After(op) THEN "Register" ELSE "Deregister"
        BY <2>1, DemandsAgree
      <4>2. CASE d.region = q.region
        BY <2>2, <4>1, <4>2
      <4>3. CASE d.region # q.region
        BY <2>1, <4>1, <4>3 DEF RegistrationsInv, Working
      <4>4. QED
        BY <4>2, <4>3
    <3>3. notify \subseteq DemandsOf(op)
      BY <2>1 DEF RegistrationsInv, Working
    <3>4. QED
      BY <1>1, <2>1, <3>1, <3>2, <3>3 DEF Working
  <2>7. Changing'
    <3>1. \A r \in Regions \ Touched(op) : Clean(r, r \in After(op))'
      BY <1>1, <2>1 DEF RegistrationsInv, Changing, Clean
    <3>2. QED
      BY <1>1, <2>1, <3>1 DEF RegistrationsInv, Changing
  <2>8. Resting'
    BY <1>1, <2>1 DEF Resting
  <2>9. QED
    BY <1>1, <2>1, <2>5, <2>6, <2>7, <2>8 DEF RegistrationsInv
<1>4. QED
  BY <1>2, <1>3

LEMMA HubRegistrations ==
    ASSUME TypeOK, RegistrationsInv, NEW q \in requests,
           HubStart(q) \/ HubWork(q) \/ HubFinish(q) \/ HubFail(q)
    PROVE  RegistrationsInv'
<1>1. q \in Request /\ q.region \in Regions
  BY DEF TypeOK, Request
<1>2. \A step \in {"queued", "started", "worked"} :
         /\ At(q, step) \in Request
         /\ At(q, step).region = q.region /\ At(q, step).operation = q.operation
         /\ At(q, step).step = step
  BY <1>1 DEF At, Request
<1>3. ~stale => /\ q.operation \in {"Register", "Deregister"}
                /\ parameter[q.region] \in Way(q.operation)
                /\ \A p \in requests : p.region = q.region => p.operation = q.operation
  <2>1. ~stale => \A p \in requests :
           p.operation = IF p.region \in After(op) THEN "Register" ELSE "Deregister"
    BY RequestsAgree
  <2>2. ~stale => parameter[q.region] \in Way(q.operation)
    BY RequestsAgree
  <2>3. QED
    BY <1>1, <2>1, <2>2 DEF Request
<1>4. ~stale => /\ parameter[q.region] = "managed" => registered[q.region] = "all"
                /\ parameter[q.region] = "deleted" => registered[q.region] = "none"
                /\ \A p \in requests : p.region = q.region /\ p.step = "worked" =>
                      registered[q.region] = IF q.operation = "Register" THEN "all" ELSE "none"
  BY <1>1, <1>3 DEF RegistrationsInv, Told
<1>5. CASE HubStart(q)
  <2>1. /\ Becomes(q, {At(q, "started")}) /\ hubUnchanged /\ registered' = registered
        /\ parameter' = [parameter EXCEPT ![q.region] = UnderWay(q)]
    BY <1>5 DEF HubStart
  <2>2. ~stale => UnderWay(q) \in Way(q.operation)
    BY <1>3 DEF UnderWay, Way
  <2>3. \A p \in requests' : p.step = "worked" => p \in requests
    BY <1>2, <2>1 DEF Becomes
  <2>4. UnderWay(q) = "registering" \/ UnderWay(q) = parameter[q.region]
    BY DEF UnderWay
  <2>5. parameter'[q.region] = UnderWay(q) /\ \A r \in Regions \ {q.region} : parameter'[r] = parameter[r]
    BY <1>1, <2>1 DEF TypeOK
  <2>6. QED
    BY <1>2, <1>4, <2>1, <2>2, <2>3, <2>4, <2>5, HubKeeps
<1>6. CASE HubWork(q)
  <2> DEFINE goal == IF q.operation = "Register" THEN "all" ELSE "none"
  <2>1. /\ Becomes(q, {At(q, "worked")}) /\ hubUnchanged /\ parameter' = parameter
        /\ registered' = [registered EXCEPT ![q.region] = goal]
    BY <1>6 DEF HubWork
  <2>2. registered'[q.region] = goal /\ \A r \in Regions \ {q.region} : registered'[r] = registered[r]
    BY <1>1, <2>1 DEF TypeOK
  <2>3. ~stale => /\ parameter[q.region] = "managed" => q.operation = "Register"
                  /\ parameter[q.region] = "deleted" => q.operation = "Deregister"
    BY <1>3 DEF Way
  <2>4. QED
    BY <1>2, <1>3, <2>1, <2>2, <2>3, HubKeeps
<1>7. CASE HubFinish(q)
  <2> DEFINE told == IF q.operation = "Register" THEN "managed" ELSE "deleted"
  <2>1. /\ q.step = "worked" /\ hubUnchanged /\ registered' = registered
        /\ parameter' = [parameter EXCEPT ![q.region] = told]
        /\ Becomes(q, {}) \/ Becomes(q, {At(q, "queued")})
    BY <1>7 DEF HubFinish
  <2>2. parameter'[q.region] = told /\ \A r \in Regions \ {q.region} : parameter'[r] = parameter[r]
    BY <1>1, <2>1 DEF TypeOK
  <2>3. told \in Way(q.operation)
    BY DEF Way
  <2>4. ~stale => registered[q.region] = IF q.operation = "Register" THEN "all" ELSE "none"
    BY <1>4, <2>1
  <2>5. QED
    BY <1>2, <2>1, <2>2, <2>3, <2>4, HubKeeps
<1>8. CASE HubFail(q)
  <2> DEFINE left == IF q.step = "started" THEN Partly(q.operation, registered[q.region])
                                           ELSE registered[q.region]
  <2>1. /\ hubUnchanged /\ parameter' = parameter
        /\ registered' = [registered EXCEPT ![q.region] = left]
        /\ Becomes(q, {}) \/ Becomes(q, {At(q, "queued")})
    BY <1>8 DEF HubFail
  <2>2. registered'[q.region] = left /\ \A r \in Regions \ {q.region} : registered'[r] = registered[r]
    BY <1>1, <2>1 DEF TypeOK
  <2>3. registered[q.region] = (IF q.operation = "Register" THEN "all" ELSE "none")
           => left = registered[q.region]
    BY DEF Partly
  <2>4. ~stale => /\ parameter[q.region] = "managed" => q.operation = "Register"
                  /\ parameter[q.region] = "deleted" => q.operation = "Deregister"
    BY <1>3 DEF Way
  <2>5. \A p \in requests' : p.step = "worked" => p \in requests
    BY <1>2, <2>1 DEF Becomes
  <2>6. QED
    BY <1>2, <1>3, <1>4, <2>1, <2>2, <2>3, <2>4, <2>5, HubKeeps
<1>9. QED
  BY <1>5, <1>6, <1>7, <1>8

\* A demand is sent, or that fails.
LEMMA NotifyRegistrations ==
    ASSUME TypeOK, RegistrationsInv, NEW d \in notify, Notify(d)
    PROVE  RegistrationsInv'
<1>1. /\ op # NoOp /\ op \in Operation /\ answers["registrations"] = "none" /\ d \in Demand
      /\ UNCHANGED <<stack, op, registered>>
  BY DEF TypeOK, Notify, Waiting
<1> DEFINE put == [parameter EXCEPT ![d.region] =
                      IF d.operation = "Register" THEN "created" ELSE "deleting"]
           q == [region |-> d.region, operation |-> d.operation, step |-> "queued"]
<1>2. /\ put[d.region] \in Way(d.operation) \ {"managed", "deleted"}
      /\ \A r \in Regions : r # d.region => put[r] = parameter[r]
      /\ d.region \in Regions /\ d.operation \in {"Register", "Deregister"}
  BY <1>1 DEF TypeOK, Demand, Way
<1>3. CASE stale /\ stale'
  BY <1>1, <1>3 DEF RegistrationsInv
<1>4. CASE ~stale
  <2>1. Told /\ Working /\ Changing
    BY <1>4 DEF RegistrationsInv
  <2>2. notify \subseteq DemandsOf(op)
    BY <1>1, <2>1 DEF Working
  <2>3. d.region \in Touched(op)
    BY <2>2, <1>1, DemandsAgree
  <2>4. ASSUME parameter' \in {put, parameter}
        PROVE  /\ \A r \in Regions : /\ parameter'[r] = "managed" => registered'[r] = "all"
                                     /\ parameter'[r] = "deleted" => registered'[r] = "none"
               /\ \A r \in Regions \ Touched(op) : Clean(r, r \in After(op))'
    <3>1. CASE parameter' = put
      <4>1. \A r \in Regions \ Touched(op) : parameter'[r] = parameter[r] /\ registered'[r] = registered[r]
        BY <1>1, <1>2, <2>3, <3>1
      <4>2. \A r \in Regions \ Touched(op) : Clean(r, r \in After(op))'
        BY <1>1, <2>1, <4>1 DEF Changing, Clean
      <4>3. QED
        BY <1>1, <1>2, <2>1, <3>1, <4>2 DEF Told
    <3>2. CASE parameter' = parameter
      BY <1>1, <2>1, <3>2 DEF Told, Changing, Clean
    <3>3. QED
      BY <2>4, <3>1, <3>2
  <2>5. ASSUME parameter' = put, requests' = requests \union {q}, notify' = notify \ {d},
               UNCHANGED <<answers, stale>>
        PROVE  RegistrationsInv'
    <3>1. Told'
      BY <1>1, <2>1, <2>4, <2>5 DEF Told
    <3>2. ASSUME NEW e \in DemandsOf(op) \ notify' PROVE parameter'[e.region] \in Way(e.operation)
      <4>1. /\ e.region \in Regions
            /\ e.region = d.region => e.operation = d.operation
        BY <1>1, <2>2, DemandsAgree
      <4>2. CASE e.region = d.region
        BY <1>2, <2>5, <4>1, <4>2
      <4>3. CASE e.region # d.region
        BY <1>1, <1>2, <2>1, <2>5, <4>1, <4>3 DEF Working
      <4>4. QED
        BY <4>2, <4>3
    <3>3. [region |-> q.region, operation |-> q.operation] = d
      BY <1>1 DEF Demand
    <3>4. \A p \in requests' :
             [region |-> p.region, operation |-> p.operation] \in DemandsOf(op) \ notify'
      BY <1>1, <2>1, <2>2, <2>5, <3>3 DEF Working
    <3>5. Working'
      BY <1>1, <2>2, <2>5, <3>2, <3>4 DEF Working
    <3>6. Changing' /\ Resting'
      BY <1>1, <2>1, <2>4, <2>5 DEF Changing, Resting
    <3>7. QED
      BY <1>1, <3>1, <3>5, <3>6 DEF RegistrationsInv
  <2>6. ASSUME parameter' \in {put, parameter}, Answer("registrations", "failed"),
               stale' = (stale \/ requests # {}), UNCHANGED requests
        PROVE  RegistrationsInv'
    <3>1. answers'["registrations"] = "failed"
      BY <2>6 DEF Answer, TypeOK, Resources
    <3>2. ~stale' => Told' /\ Working'
      BY <1>1, <2>4, <2>6, <3>1 DEF Told, Working
    <3>3. Changing' /\ Resting'
      BY <1>1, <2>1, <2>4, <2>6, <3>1 DEF Changing, Resting
    <3>4. QED
      BY <1>1, <3>2, <3>3 DEF RegistrationsInv
  <2>7. QED
    BY <2>5, <2>6 DEF Notify
<1>5. stale => stale'
  BY DEF Notify
<1>6. QED
  BY <1>3, <1>4, <1>5

\* When everything is as expected each region that was changed is as it is to be, but
\* for its parameter.
LEMMA CompleteTells ==
    ASSUME TypeOK, RegistrationsInv, ~stale, Waiting("registrations"), notify = {}, IsComplete(op)
    PROVE  \A r \in Regions : registered[r] = IF r \in After(op) THEN "all" ELSE "none"
<1>1. op # NoOp /\ op \in Operation /\ answers["registrations"] = "none"
  BY DEF TypeOK, Waiting
<1>2. ASSUME NEW d \in DemandsOf(op)
      PROVE  registered[d.region] = IF d.region \in After(op) THEN "all" ELSE "none"
  <2>1. /\ d.region \in Regions
        /\ d.operation = IF d.region \in After(op) THEN "Register" ELSE "Deregister"
        /\ ExpectedAt(op, d.region) = IF d.region \in After(op) THEN {"managed"} ELSE {"deleted"}
    BY <1>1, DemandsAgree
  <2>2. parameter[d.region] \in Way(d.operation)
    BY <1>1 DEF RegistrationsInv, Working
  <2>3. parameter[d.region] # None
    BY <2>2, RegionsAssumption DEF Way, States
  <2>4. parameter[d.region] \in ExpectedAt(op, d.region)
    BY <2>1, <2>3 DEF IsComplete
  <2>5. QED
    BY <2>1, <2>4 DEF RegistrationsInv, Told
<1>3. \A r \in Touched(op) : \E d \in DemandsOf(op) : d.region = r
  BY DEF Touched
<1>4. \A r \in Regions \ Touched(op) : Clean(r, r \in After(op))
  BY <1>1 DEF RegistrationsInv, Changing
<1>5. QED
  BY <1>2, <1>3, <1>4 DEF Clean

LEMMA WaiterRegistrations == TypeOK /\ RegistrationsInv /\ (Poll \/ Timeout) => RegistrationsInv'
<1> SUFFICES ASSUME TypeOK, RegistrationsInv, Poll \/ Timeout PROVE RegistrationsInv'
  OBVIOUS
<1>1. /\ op # NoOp /\ op \in Operation /\ answers["registrations"] = "none"
      /\ Waiting("registrations") /\ notify = {}
      /\ UNCHANGED <<stack, op, notify, requests, registered>>
      /\ answers'["registrations"] \in {"ok", "failed"}
      /\ ~stale' => ~stale /\ requests = {}
  BY DEF Poll, Timeout, Waiting, TypeOK, Answer, Resources, hubVars
<1>2. CASE stale'
  BY <1>1, <1>2 DEF RegistrationsInv
<1>3. CASE ~stale'
  <2>1. ~stale /\ requests = {} /\ Told /\ Changing
    BY <1>1, <1>3 DEF RegistrationsInv
  <2>2. \A r \in Regions : parameter'[r] \in {None, parameter[r]}
    BY DEF Poll, Timeout, hubVars
  <2>3. Told'
    BY <1>1, <2>1, <2>2, RegionsAssumption DEF Told, States
  <2>4. Working'
    BY <1>1, <2>1 DEF Working
  <2>5. \A r \in Regions \ Touched(op) : Clean(r, r \in After(op))'
    BY <1>1, <2>1, <2>2 DEF Changing, Clean
  <2>6. ASSUME answers'["registrations"] = "ok", NEW r \in Regions PROVE Clean(r, r \in After(op))'
    <3>1. Poll /\ IsComplete(op)
      BY <2>6, <1>1 DEF Poll, Timeout, Answer, TypeOK, Resources
    <3>2. PICK gone \in SUBSET Cleared(op) :
             /\ parameter' = [s \in Regions |-> IF s \in gone THEN None ELSE parameter[s]]
             /\ Answer("registrations", IF gone = Cleared(op) THEN "ok" ELSE "failed")
      BY <3>1 DEF Poll
    <3>3. gone = Cleared(op)
      BY <2>6, <3>2 DEF Answer, TypeOK, Resources
    <3>4. CASE r \in Touched(op)
      <4>1. parameter'[r] = None
        BY <1>1, <3>2, <3>3, <3>4, DemandsAgree
      <4>2. registered[r] = IF r \in After(op) THEN "all" ELSE "none"
        BY <1>1, <2>1, <3>1, CompleteTells
      <4>3. QED
        BY <1>1, <4>1, <4>2 DEF Clean
    <3>5. QED
      BY <2>5, <3>4
  <2>7. Changing' /\ Resting'
    BY <1>1, <2>1, <2>5, <2>6 DEF Changing, Resting
  <2>8. QED
    BY <1>1, <2>1, <2>3, <2>4, <2>7 DEF RegistrationsInv
<1>4. QED
  BY <1>2, <1>3

\* What begins has no requests of another operation, and leaves alone what it does not
\* touch.
LEMMA BeginRegistrations ==
    ASSUME TypeOK, RegistrationsInv, NEW o \in Operation, NEW to \in SUBSET Resources, Begin(o, to),
           UNCHANGED <<requests, parameter, registered, stale>>,
           op = NoOp \/ answers["registrations"] # "none",
           stack'.status = "busy",
           o.type = "Delete" => stack'.regions = o.regions,
           ~stale => /\ \A r \in Regions \ Touched(o) : Clean(r, r \in After(o))
                     /\ "registrations" \notin to => \A r \in Regions : Clean(r, r \in After(o))
    PROVE  RegistrationsInv'
<1>1. /\ op' = o
      /\ answers'["registrations"] = IF "registrations" \in to THEN "none" ELSE "ok"
      /\ notify' = IF "registrations" \in to THEN DemandsOf(o) ELSE {}
  BY DEF Begin, Resources
<1>2. CASE stale
  BY <1>2 DEF RegistrationsInv
<1>3. CASE ~stale
  <2>1. requests = {} /\ Told'
    BY <1>3 DEF RegistrationsInv, Told, Working
  <2>2. Working'
    BY <1>1, <2>1 DEF Working
  <2>3. \A r \in Regions : Clean(r, r \in After(o))' <=> Clean(r, r \in After(o))
    BY DEF Clean
  <2>4. Changing'
    BY <1>1, <1>3, <2>3 DEF Changing
  <2>5. QED
    BY <1>1, <2>1, <2>2, <2>4 DEF RegistrationsInv, Resting
<1>4. QED
  BY <1>2, <1>3

LEMMA UpdateTouches ==
    ASSUME NEW o \in Operation, o.type = "Update"
    PROVE  Touched(o) = (o.regions \ o.old) \union (o.old \ o.regions)
<1>1. \A d \in DemandsOf(o) : d.region \in (o.regions \ o.old) \union (o.old \ o.regions)
  BY DEF DemandsOf
<1>2. ASSUME NEW r \in (o.regions \ o.old) \union (o.old \ o.regions)
      PROVE  \E d \in DemandsOf(o) : d.region = r
  <2>1. /\ [region |-> r, operation |-> "Register"].region = r
        /\ [region |-> r, operation |-> "Deregister"].region = r
    OBVIOUS
  <2>2. \/ [region |-> r, operation |-> "Register"] \in DemandsOf(o)
        \/ [region |-> r, operation |-> "Deregister"] \in DemandsOf(o)
    BY <1>2 DEF DemandsOf
  <2>3. QED
    BY <2>1, <2>2
<1>3. QED
  BY <1>1, <1>2 DEF Touched

LEMMA DeployRegistrations == TypeOK /\ RegistrationsInv /\ Deploy => RegistrationsInv'
<1> SUFFICES ASSUME TypeOK, RegistrationsInv, Deploy PROVE RegistrationsInv'
  OBVIOUS
<1>1. /\ op = NoOp /\ UNCHANGED <<requests, parameter, registered, stale>>
      /\ stack'.status = "busy" /\ stack'.regions = stack.regions
      /\ stack.regions \subseteq Regions
  BY DEF Deploy, TypeOK
<1>2. ASSUME ~stale, stack.status \in {"absent", "complete"}, NEW r \in Regions
      PROVE  Clean(r, r \in stack.regions)
  BY <1>1, <1>2 DEF RegistrationsInv, Resting
<1>3. ASSUME stack.status = "absent", NEW R \in SUBSET Regions,
             Begin([type |-> "Create", regions |-> R, old |-> {}, undo |-> FALSE], Resources)
      PROVE  RegistrationsInv'
  <2> DEFINE o == [type |-> "Create", regions |-> R, old |-> {}, undo |-> FALSE]
  <2>1. o \in Operation /\ o.type # "Delete" /\ After(o) = R
    BY DEF Operation, After
  <2>2. R \subseteq Touched(o)
    <3>1. \A r \in R : /\ [region |-> r, operation |-> "Register"] \in DemandsOf(o)
                       /\ [region |-> r, operation |-> "Register"].region = r
      BY DEF DemandsOf
    <3>2. QED
      BY <3>1 DEF Touched
  <2>3. ~stale => \A r \in Regions : Clean(r, FALSE)
    BY <1>2, <1>3 DEF RegistrationsInv, Clean
  <2>4. ~stale => \A r \in Regions \ Touched(o) : Clean(r, r \in After(o))
    BY <2>1, <2>2, <2>3 DEF Clean
  <2> HIDE DEF o
  <2>5. QED
    BY <1>1, <1>3, <2>1, <2>4, BeginRegistrations DEF Resources, o
<1>4. ASSUME stack.status = "complete", NEW R \in SUBSET Regions,
             Begin([type |-> "Update", regions |-> R, old |-> stack.regions, undo |-> FALSE], Resources)
      PROVE  RegistrationsInv'
  <2> DEFINE o == [type |-> "Update", regions |-> R, old |-> stack.regions, undo |-> FALSE]
  <2>1. o \in Operation /\ o.type # "Delete" /\ After(o) = R
    BY <1>1 DEF Operation, After
  <2>2. Touched(o) = (R \ stack.regions) \union (stack.regions \ R)
    BY <2>1, UpdateTouches
  <2>3. \A r \in Regions \ Touched(o) : r \in R <=> r \in stack.regions
    BY <2>2
  <2>4. ~stale => \A r \in Regions \ Touched(o) : Clean(r, r \in After(o))
    BY <1>2, <1>4, <2>1, <2>3 DEF Clean
  <2> HIDE DEF o
  <2>5. QED
    BY <1>1, <1>4, <2>1, <2>4, BeginRegistrations DEF Resources, o
<1>5. ASSUME stack.status \in {"complete", "undeleted"},
             NEW to \in SUBSET Resources,
             to = IF stack.status = "complete" THEN Resources
                                               ELSE {x \in Resources : answers[x] # "ok"},
             Begin([type |-> "Delete", regions |-> stack.regions, old |-> {}, undo |-> FALSE], to)
      PROVE  RegistrationsInv'
  <2> DEFINE o == [type |-> "Delete", regions |-> stack.regions, old |-> {}, undo |-> FALSE]
  <2>1. o \in Operation /\ o.type = "Delete" /\ After(o) = {} /\ o.regions = stack.regions
    BY <1>1 DEF Operation, After
  <2>2. Touched(o) = stack.regions
    BY <2>1, DemandsAgree
  <2>3. ~stale => \A r \in Regions \ stack.regions : Clean(r, FALSE)
    BY <1>1, <1>5 DEF RegistrationsInv, Resting, Clean
  <2>4. ~stale => \A r \in Regions \ Touched(o) : Clean(r, r \in After(o))
    BY <2>1, <2>2, <2>3 DEF Clean
  <2>5. ~stale /\ "registrations" \notin to => \A r \in Regions : Clean(r, r \in After(o))
    BY <1>1, <1>5, <2>1 DEF RegistrationsInv, Resting, Clean, Resources
  <2> HIDE DEF o
  <2>6. QED
    BY <1>1, <1>5, <2>1, <2>4, <2>5, BeginRegistrations DEF o
<1>6. QED
  <2>1. \A R : R \in SUBSET Regions \ {{}} => R \in SUBSET Regions
    OBVIOUS
  <2>2. (IF stack.status = "complete" THEN Resources ELSE {x \in Resources : answers[x] # "ok"})
           \in SUBSET Resources
    OBVIOUS
  <2>3. QED
    BY <1>3, <1>4, <1>5, <2>1, <2>2 DEF Deploy

LEMMA ProceedRegistrations == TypeOK /\ RegistrationsInv /\ Proceed => RegistrationsInv'
<1> SUFFICES ASSUME TypeOK, RegistrationsInv, Proceed PROVE RegistrationsInv'
  OBVIOUS
<1>1. /\ op # NoOp /\ op \in Operation /\ answers["registrations"] \in {"ok", "failed"}
      /\ UNCHANGED <<requests, parameter, registered, stale>>
      /\ stack.status = "busy"
  BY DEF Proceed, TypeOK, Resources, RegistrationsInv
<1>2. /\ op.regions \subseteq Regions /\ op.old \subseteq Regions
      /\ op.type \in {"Create", "Update", "Delete"} /\ op.undo \in BOOLEAN
  BY <1>1 DEF Operation
<1>3. ~stale => /\ requests = {} /\ Told
                /\ op.type = "Delete" => stack.regions = op.regions
                /\ \A r \in Regions \ Touched(op) : Clean(r, r \in After(op))
                /\ answers["registrations"] = "ok" => \A r \in Regions : Clean(r, r \in After(op))
  BY <1>1 DEF RegistrationsInv, Working, Changing
<1>4. ASSUME op' = NoOp, answers' = answers,
             stack'.status = "absent" => stack'.regions = {},
             ~stale => Resting'
      PROVE  RegistrationsInv'
  <2>1. ~stale => Told' /\ Working'
    BY <1>1, <1>3, <1>4 DEF Told, Working
  <2>2. Changing'
    BY <1>4 DEF Changing
  <2>3. QED
    BY <1>1, <1>4, <2>1, <2>2 DEF RegistrationsInv
<1>5. CASE \A x \in Resources : answers[x] = "ok"
  <2>1. /\ op' = NoOp /\ answers' = answers
        /\ stack' = IF op.type = "Delete" THEN [status |-> "absent", regions |-> {}]
                                          ELSE [status |-> "complete", regions |-> op.regions]
    BY <1>5 DEF Proceed
  <2>2. stack'.regions = After(op) /\ stack'.status \in {"absent", "complete"}
    BY <2>1 DEF After
  <2>3. ~stale => \A r \in Regions : Clean(r, r \in After(op))
    BY <1>3, <1>5 DEF Resources
  <2>4. ~stale => Resting'
    BY <1>1, <2>2, <2>3 DEF Resting, Clean
  <2>5. QED
    BY <1>4, <2>1, <2>4
<1>6. ASSUME op.type = "Create", stack' = [stack EXCEPT !.regions = op.regions],
             Begin([op EXCEPT !.type = "Delete", !.undo = TRUE], Resources)
      PROVE  RegistrationsInv'
  <2> DEFINE o == [op EXCEPT !.type = "Delete", !.undo = TRUE]
  <2>1. o \in Operation /\ o.type = "Delete" /\ o.regions = op.regions /\ After(o) = {}
    BY <1>1 DEF Operation, After
  <2>2. Touched(o) = op.regions
    BY <2>1, DemandsAgree
  <2>3. \A r \in Touched(op) : r \in op.regions
    BY <1>1, <1>6 DEF Touched, DemandsOf
  <2>4. ~stale => \A r \in Regions \ Touched(o) : Clean(r, r \in After(o))
    BY <1>3, <1>6, <2>1, <2>2, <2>3 DEF After, Clean
  <2>5. stack'.status = "busy" /\ stack'.regions = o.regions
    BY <1>1, <1>6, <2>1 DEF TypeOK
  <2> HIDE DEF o
  <2>6. QED
    BY <1>1, <1>6, <2>1, <2>4, <2>5, BeginRegistrations DEF Resources, o
<1>7. ASSUME op.type = "Update", UNCHANGED stack,
             Begin([op EXCEPT !.regions = op.old, !.old = op.regions, !.undo = TRUE], Resources)
      PROVE  RegistrationsInv'
  <2> DEFINE o == [op EXCEPT !.regions = op.old, !.old = op.regions, !.undo = TRUE]
  <2>1. o \in Operation /\ o.type = "Update" /\ o.regions = op.old /\ o.old = op.regions
    BY <1>1, <1>7 DEF Operation
  <2>2. Touched(o) = Touched(op) /\ Touched(op) = (op.regions \ op.old) \union (op.old \ op.regions)
    BY <1>1, <1>7, <2>1, UpdateTouches
  <2>3. \A r \in Regions \ Touched(op) : r \in After(o) <=> r \in After(op)
    BY <1>7, <2>1, <2>2 DEF After
  <2>4. ~stale => \A r \in Regions \ Touched(o) : Clean(r, r \in After(o))
    BY <1>3, <2>2, <2>3 DEF Clean
  <2> HIDE DEF o
  <2>5. QED
    BY <1>1, <1>7, <2>1, <2>4, BeginRegistrations DEF Resources, o
<1>8. ASSUME op.type = "Delete" \/ op.undo, op' = NoOp, answers' = answers,
             stack' = [stack EXCEPT !.status = IF op.type = "Delete" THEN "undeleted" ELSE "stuck"]
      PROVE  RegistrationsInv'
  <2>1. /\ stack'.status = IF op.type = "Delete" THEN "undeleted" ELSE "stuck"
        /\ stack'.regions = stack.regions
    BY <1>8 DEF TypeOK
  <2>2. CASE op.type = "Delete"
    <3>1. Touched(op) = op.regions /\ After(op) = {}
      BY <1>1, <2>2, DemandsAgree DEF After
    <3>2. ~stale => /\ \A r \in Regions \ stack.regions : Clean(r, FALSE)
                    /\ answers["registrations"] = "ok" => \A r \in Regions : Clean(r, FALSE)
      BY <1>3, <2>2, <3>1 DEF Clean
    <3>3. ~stale => Resting'
      BY <1>1, <1>8, <2>1, <2>2, <3>2 DEF Resting, Clean
    <3>4. QED
      BY <1>4, <1>8, <2>1, <3>3
  <2>3. CASE op.type # "Delete"
    BY <1>4, <1>8, <2>1, <2>3 DEF Resting
  <2>4. QED
    BY <2>2, <2>3
<1>9. QED
  BY <1>5, <1>6, <1>7, <1>8 DEF Proceed

\* The handler of the rules only answers for itself.
LEMMA RulesRegistrations == TypeOK /\ RegistrationsInv /\ Rules => RegistrationsInv'
<1> SUFFICES ASSUME TypeOK, RegistrationsInv, Rules PROVE RegistrationsInv'
  OBVIOUS
<1>1. /\ UNCHANGED <<stack, op, notify, requests, parameter, registered, stale>>
      /\ answers'["registrations"] = answers["registrations"]
  BY DEF Rules, AnswerRules, DeleteRules, CreateRules, Answer, hubVars, TypeOK, Resources
<1>2. QED
  BY <1>1 DEF RegistrationsInv, Told, Working, Changing, Resting, Clean

LEMMA NextRegistrations == TypeOK /\ RegistrationsInv /\ [Next]_vars => RegistrationsInv'
<1> SUFFICES ASSUME TypeOK, RegistrationsInv, [Next]_vars PROVE RegistrationsInv'
  OBVIOUS
<1>1. CASE Done \/ Stuck \/ UNCHANGED vars
  BY <1>1 DEF Done, Stuck, vars, hubVars, RegistrationsInv, Told, Working, Changing, Resting, Clean
<1>2. QED
  BY <1>1, DeployRegistrations, ProceedRegistrations, RulesRegistrations, NotifyRegistrations,
     HubRegistrations, WaiterRegistrations DEF Next, Rules

\* However many regions there are, and whichever calls, handlers and events fail, come
\* twice or run out of time: a stack at rest has exactly its regions in the registry,
\* and has left no parameter, if no operation was answered while the hub worked for it.
THEOREM RegistrationsSafe == Spec => []RegisteredAsDeployed
<1>1. Init => RegistrationsInv
  <2>1. Init => Told /\ Working /\ Changing
    BY RegionsAssumption DEF Init, Told, Working, Changing, States
  <2>2. Init => Resting
    BY DEF Init, Resting, Clean
  <2>3. QED
    BY <2>1, <2>2 DEF Init, RegistrationsInv
<1>2. RegistrationsInv => RegisteredAsDeployed
  BY DEF RegistrationsInv, RegisteredAsDeployed, AtRest, Resting, Clean
<1>3. QED
  BY <1>1, <1>2, InitTypes, NextTypes, NextRegistrations, PTL DEF Spec

=============================================================================
