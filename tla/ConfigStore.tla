------------------------------ MODULE ConfigStore ------------------------------
(***************************************************************************)
(* The configuration table: the schedules and the periods they name.       *)
(* Two parties write it, each believing it owns its own items:             *)
(*                                                                         *)
(*  - requests of the command line client, of which several may run at     *)
(*    once, call after call: handler/cli/cli_request_handler.py;           *)
(*  - CloudFormation, which sends the requests of a stack's schedule to    *)
(*    handler/cfn_schedule.py by way of util/custom_resource.py, one after *)
(*    the other, and undoes by further requests what did not succeed.      *)
(*                                                                         *)
(* An item says which stack wrote it (configured_in_stack), or None.       *)
(***************************************************************************)
EXTENDS Naturals, Sequences, FiniteSets

CONSTANTS
    None,           \* no item, stack, template, request or answer
    Schedules,      \* names of schedules
    Hand,           \* names people give to periods; no stack uses them
    Contents,       \* what an item says besides names, as far as it is told apart
    Templates,      \* what a stack's template may say of its schedule
    MaxPeriods,     \* bound: periods of a template
    Stacks,         \* stacks with one schedule each
    Clients,        \* requests of the command line client that may run at once
    CliRequests,    \* what people ask of the command line client
    FaultKinds,     \* faults that happen: see FaultKind
    MaxFaults,      \* bound: faults of a behaviour
    MaxDeploys,     \* bound: operations on stacks in a behaviour
    MaxAsks         \* bound: requests of the client in a behaviour

FaultKind ==
    { "reject",     \* DynamoDB refuses a transaction, or the timer is first
      "timer",      \* the timer answers FAILED and the transaction commits
      "killed",     \* the handler ends after the transaction, before it answers
      "other",      \* another resource of the stack fails
      "invoke" }    \* the invocation of a scheduling request handler raises

\* "{schedule}-period-NNNN": a stack numbers the periods of its schedule.
PeriodNames == Hand \union (Schedules \X (1 .. MaxPeriods))

Template == [valid: BOOLEAN, name: Schedules, content: Contents, periods: Seq(Contents)]
Owner == Stacks \union {None}
ScheduleItem == [owner: Owner, content: Contents, periods: SUBSET PeriodNames]
PeriodItem == [owner: Owner, content: Contents]

\* The states of a stack, as far as its schedule is concerned.
Statuses == {"absent", "creating", "updating", "rolling", "cleaning", "removing",
             "complete", "stuck"}

\* What CloudFormation asks of the handler, with the properties of the resource.
RequestType == [type: {"Create", "Update", "Delete"}, new: Templates,
                old: Templates \union {None}]

\* What people ask of the command line client.
PeriodRequest == [op: {"create-period", "update-period", "delete-period"},
                  name: Hand \union (Schedules \X (1 .. MaxPeriods)), content: Contents]
ScheduleRequest == [op: {"create-schedule", "update-schedule", "delete-schedule"},
                    name: Schedules, content: Contents, periods: SUBSET PeriodNames]

ASSUME ConfigAssumption ==
    /\ MaxPeriods \in Nat
    /\ \A t \in Templates : t \in Template /\ Len(t.periods) <= MaxPeriods
    /\ CliRequests \subseteq PeriodRequest \union ScheduleRequest
    /\ \A r \in CliRequests : r.op = "create-period" => r.name \in Hand
    /\ None \notin Stacks \union ScheduleItem \union PeriodItem \union Templates
                       \union CliRequests \union RequestType
                       \union {"SUCCESS", "FAILED"}
    /\ Hand \intersect (Schedules \X (1 .. MaxPeriods)) = {}
    /\ FaultKinds \subseteq FaultKind
    /\ MaxFaults \in Nat /\ MaxDeploys \in Nat /\ MaxAsks \in Nat

VARIABLES
    schedules,  \* the table's schedule items, or None
    periods,    \* the table's period items, or None
    client,     \* the request each client process handles, and where it is
    stack,      \* each stack as CloudFormation sees it, with the request pending
    raced,      \* history: periods deleted while a schedule naming them was written
    faults, deploys, asks   \* what has been used of each bound

tableVars == <<schedules, periods>>
vars == <<tableVars, client, stack, raced, faults, deploys, asks>>

Exists(p) == periods[p] # None

-----------------------------------------------------------------------------
(* What a template says, and the transactions of the handler *)

NamesOf(t) == {t.name} \X DOMAIN t.periods

\* Mutant of ScheduleOf: the name of the stack where its id belongs.
ScheduleOfName(k, t) == [owner |-> t.name, content |-> t.content, periods |-> NamesOf(t)]

ScheduleOf(k, t) == [owner |-> k, content |-> t.content, periods |-> NamesOf(t)]

PeriodsOf(k, t) == [p \in NamesOf(t) |-> [owner |-> k, content |-> t.periods[p[2]]]]

\* One transact_write_items: without overwrite an item that exists cancels it all.
CanPut(t, overwriteSchedule, overwritePeriods) ==
    /\ overwriteSchedule \/ schedules[t.name] = None
    /\ overwritePeriods \/ \A p \in NamesOf(t) : ~Exists(p)

\* Mutant of TransactPut: periods that exist are left as they are.
TransactPutAbsent(k, t) ==
    /\ schedules' = [schedules EXCEPT ![t.name] = ScheduleOf(k, t)]
    /\ periods' = [p \in PeriodNames |->
                      IF p \in NamesOf(t) /\ ~Exists(p) THEN PeriodsOf(k, t)[p] ELSE periods[p]]

TransactPut(k, t) ==
    /\ schedules' = [schedules EXCEPT ![t.name] = ScheduleOf(k, t)]
    /\ periods' = [p \in PeriodNames |->
                      IF p \in NamesOf(t) THEN PeriodsOf(k, t)[p] ELSE periods[p]]

\* Of an item that does not exist the deletion is a success.
TransactDelete(t) ==
    /\ schedules' = [schedules EXCEPT ![t.name] = None]
    /\ periods' = [p \in PeriodNames |-> IF p \in NamesOf(t) THEN None ELSE periods[p]]

\* A request: an update without a change of name overwrites its schedule, and an
\* update overwrites whatever periods it finds.  Both of its templates must parse.
Accepts(request) ==
    CASE request.type = "Create" ->
            request.new.valid /\ CanPut(request.new, FALSE, FALSE)
      [] request.type = "Update" ->
            /\ request.new.valid /\ request.old.valid
            /\ CanPut(request.new, request.new.name = request.old.name, TRUE)
      [] request.type = "Delete" -> request.new.valid

Transaction(k, request) ==
    IF request.type = "Delete" THEN TransactDelete(request.new)
                               ELSE TransactPut(k, request.new)

-----------------------------------------------------------------------------
(* The handler of a stack's requests *)

Pending(k) == stack[k].request # None /\ stack[k].answer = None

Answer(k, answer) == stack' = [stack EXCEPT ![k].answer = answer]

Fault(kind) ==
    /\ kind \in FaultKinds
    /\ faults < MaxFaults
    /\ faults' = faults + 1

\* _create_request, _update_request, _delete_request, and the answer that is sent.
Handle(k) ==
    LET request == stack[k].request IN
    /\ Pending(k)
    /\ \/ /\ Accepts(request)
          /\ Transaction(k, request)
          /\ Answer(k, "SUCCESS")
          /\ UNCHANGED faults
       \/ /\ ~Accepts(request)
          /\ Answer(k, "FAILED")
          /\ UNCHANGED <<tableVars, faults>>
    /\ UNCHANGED <<client, raced, deploys, asks>>

\* The transaction is refused although its conditions hold.
Reject(k) ==
    /\ Pending(k)
    /\ Accepts(stack[k].request)
    /\ Fault("reject")
    /\ Answer(k, "FAILED")
    /\ UNCHANGED <<tableVars, client, raced, deploys, asks>>

\* fn_timeout: half a second before its time is over the handler answers FAILED
\* from another thread, and the transaction it waits for goes through.
Timer(k) ==
    /\ Pending(k)
    /\ Accepts(stack[k].request)
    /\ Fault("timer")
    /\ Transaction(k, stack[k].request)
    /\ Answer(k, "FAILED")
    /\ UNCHANGED <<client, raced, deploys, asks>>

\* The handler ends before it answers; its invocation is asynchronous and the
\* request is delivered again.
Killed(k) ==
    /\ Pending(k)
    /\ Accepts(stack[k].request)
    /\ Fault("killed")
    /\ Transaction(k, stack[k].request)
    /\ UNCHANGED <<client, stack, raced, deploys, asks>>

-----------------------------------------------------------------------------
(* CloudFormation: external *)

Absent == [status |-> "absent", template |-> None, request |-> None, answer |-> None,
           id |-> None]

Request(type, new, old) == [type |-> type, new |-> new, old |-> old]

\* The stack moves on: template is the one it would return to.
Become(k, status, template, request, id) ==
    stack' = [stack EXCEPT ![k] = [status |-> status, template |-> template,
                                   request |-> request, answer |-> None, id |-> id]]

Deploy(k) ==
    /\ deploys < MaxDeploys
    /\ deploys' = deploys + 1
    /\ \/ /\ stack[k].status = "absent"
          /\ \E t \in Templates : Become(k, "creating", t, Request("Create", t, None), None)
       \/ /\ stack[k].status = "complete"
          /\ \E t \in Templates \ {stack[k].template} :
                Become(k, "updating", stack[k].template,
                       Request("Update", t, stack[k].template), stack[k].id)
       \/ /\ stack[k].status = "complete"
          /\ Become(k, "removing", stack[k].template,
                    Request("Delete", stack[k].template, None), stack[k].id)
    /\ UNCHANGED <<tableVars, client, raced, faults, asks>>

\* The physical id is the schedule's name after a success.  An id that changed is
\* followed by the deletion of what had the former one, with its properties.
Succeeded(k) ==
    LET s == stack[k]
        t == s.request.new IN
    /\ s.answer = "SUCCESS"
    /\ CASE s.status = "creating" -> Become(k, "complete", t, None, t.name)
         [] s.status \in {"updating", "rolling"} ->
                IF s.id = t.name
                THEN Become(k, "complete", t, None, t.name)
                ELSE Become(k, "cleaning", t, Request("Delete", s.request.old, None), t.name)
         [] s.status = "cleaning" -> Become(k, "complete", s.template, None, s.id)
         [] s.status = "removing" -> stack' = [stack EXCEPT ![k] = Absent]
    /\ UNCHANGED faults

\* What failed, here or in another resource, is undone by a request that swaps the
\* templates, or deletes.  A clean-up that fails is ignored.
Undo(k, id) ==
    LET s == stack[k] IN
    CASE s.status = "creating" ->
            Become(k, "removing", s.template, Request("Delete", s.template, None), id)
      [] s.status = "updating" ->
            Become(k, "rolling", s.template, Request("Update", s.template, s.request.new), id)
      [] s.status = "cleaning" -> Become(k, "complete", s.template, None, id)
      [] OTHER -> Become(k, "stuck", s.template, None, id)

Failed(k) ==
    \/ /\ stack[k].answer = "FAILED"
       /\ Undo(k, stack[k].id)
       /\ UNCHANGED faults
    \/ /\ stack[k].answer = "SUCCESS"
       /\ stack[k].status \in {"creating", "updating"}
       /\ Fault("other")
       /\ Undo(k, stack[k].request.new.name)

Proceed(k) ==
    /\ Succeeded(k) \/ Failed(k)
    /\ UNCHANGED <<tableVars, client, raced, deploys, asks>>

-----------------------------------------------------------------------------
(* Requests of the command line client *)

Idle == [at |-> "idle", request |-> None, unchecked |-> {}]
Busy(c) == client[c].at # "idle"

Writes == {"create-schedule", "update-schedule"}

\* The periods that one of two requests deletes and a schedule of the other names.
RacedBy(r, q) ==
    IF r.op = "delete-period" /\ q.op \in Writes THEN {r.name} \intersect q.periods
    ELSE IF q.op = "delete-period" /\ r.op \in Writes THEN {q.name} \intersect r.periods
    ELSE {}

RacedWith(r) == UNION {RacedBy(r, client[d].request) : d \in {e \in Clients : Busy(e)}}

\* handle_command: the command's first step is the check its code begins with.
Ask(c) ==
    /\ ~Busy(c)
    /\ asks < MaxAsks
    /\ asks' = asks + 1
    /\ \E r \in CliRequests :
          /\ client' = [client EXCEPT ![c] =
                [at |-> CASE r.op \in Writes -> "validate"
                          [] r.op = "create-period" -> "write"
                          [] OTHER -> "find",
                 request |-> r,
                 unchecked |-> IF r.op \in Writes THEN r.periods ELSE {}]]
          /\ raced' = raced \union RacedWith(r)
    /\ UNCHANGED <<tableVars, stack, faults, deploys>>

GoTo(c, at) == client' = [client EXCEPT ![c].at = at]
Return(c) == client' = [client EXCEPT ![c] = Idle]

\* validate_periods_exist: one read for each period.
ValidatePeriod(c) ==
    /\ client[c].at = "validate"
    /\ \E p \in client[c].unchecked :
          IF Exists(p) THEN client' = [client EXCEPT ![c].unchecked = @ \ {p}] ELSE Return(c)
    /\ UNCHANGED <<tableVars, stack, raced, faults, deploys, asks>>

Validated(c) ==
    /\ client[c].at = "validate"
    /\ client[c].unchecked = {}
    /\ GoTo(c, IF client[c].request.op = "create-schedule" THEN "write" ELSE "find")
    /\ UNCHANGED <<tableVars, stack, raced, faults, deploys, asks>>

\* Mutant of IsManagedByCfn: every item is taken for a person's.
IsManagedByNobody(item) == FALSE

IsManagedByCfn(item) == item.owner # None

\* What find_by_name returns: an item no stack manages, or the request is refused.
Find(c) ==
    LET r == client[c].request
        item == IF r.op \in {"update-period", "delete-period"} THEN periods[r.name]
                                                               ELSE schedules[r.name] IN
    /\ client[c].at = "find"
    /\ IF item = None \/ IsManagedByCfn(item) THEN Return(c)
       ELSE GoTo(c, IF r.op = "delete-period" THEN "unused" ELSE "write")
    /\ UNCHANGED <<tableVars, stack, raced, faults, deploys, asks>>

\* Mutant of FindByPeriod: a period is looked for in the schedules of stacks only.
FindByPeriodInStacks(p) ==
    {s \in Schedules : schedules[s] # None /\ schedules[s].owner # None
                           /\ p \in schedules[s].periods}

\* find_by_period: schedules of either kind that use the period protect it.
FindByPeriod(p) == {s \in Schedules : schedules[s] # None /\ p \in schedules[s].periods}

Unused(c) ==
    /\ client[c].at = "unused"
    /\ IF FindByPeriod(client[c].request.name) # {} THEN Return(c) ELSE GoTo(c, "write")
    /\ UNCHANGED <<tableVars, stack, raced, faults, deploys, asks>>

PersonalSchedule(r) == [owner |-> None, content |-> r.content, periods |-> r.periods]
PersonalPeriod(r) == [owner |-> None, content |-> r.content]

\* The last call, that of create commands with a condition; of the others the
\* condition was checked before.
Write(c) ==
    LET r == client[c].request IN
    /\ client[c].at = "write"
    /\ Return(c)
    /\ \/ /\ r.op = "create-period"
          /\ IF Exists(r.name) THEN UNCHANGED periods
             ELSE periods' = [periods EXCEPT ![r.name] = PersonalPeriod(r)]
          /\ UNCHANGED schedules
       \/ /\ r.op = "update-period"
          /\ periods' = [periods EXCEPT ![r.name] = PersonalPeriod(r)]
          /\ UNCHANGED schedules
       \/ /\ r.op = "delete-period"
          /\ periods' = [periods EXCEPT ![r.name] = None]
          /\ UNCHANGED schedules
       \/ /\ r.op = "create-schedule"
          /\ IF schedules[r.name] # None THEN UNCHANGED schedules
             ELSE schedules' = [schedules EXCEPT ![r.name] = PersonalSchedule(r)]
          /\ UNCHANGED periods
       \/ /\ r.op = "update-schedule"
          /\ schedules' = [schedules EXCEPT ![r.name] = PersonalSchedule(r)]
          /\ UNCHANGED periods
       \/ /\ r.op = "delete-schedule"
          /\ schedules' = [schedules EXCEPT ![r.name] = None]
          /\ UNCHANGED periods
    /\ UNCHANGED <<stack, raced, faults, deploys, asks>>

-----------------------------------------------------------------------------
Init ==
    /\ schedules = [s \in Schedules |-> None]
    /\ periods = [p \in PeriodNames |-> None]
    /\ client = [c \in Clients |-> Idle]
    /\ stack = [k \in Stacks |-> Absent]
    /\ raced = {}
    /\ faults = 0 /\ deploys = 0 /\ asks = 0

StackStep(k) ==
    Deploy(k) \/ Handle(k) \/ Reject(k) \/ Timer(k) \/ Killed(k) \/ Proceed(k)

ClientStep(c) == Ask(c) \/ ValidatePeriod(c) \/ Validated(c) \/ Find(c) \/ Unused(c) \/ Write(c)

Next ==
    \/ \E k \in Stacks : StackStep(k)
    \/ \E c \in Clients : ClientStep(c)

Spec == Init /\ [][Next]_vars

-----------------------------------------------------------------------------
(* Properties *)

\* Every item, process and stack is of its kind: the configuration table holds what
\* the two stores put there.
TypeOK ==
    /\ schedules \in [Schedules -> ScheduleItem \union {None}]
    /\ periods \in [PeriodNames -> PeriodItem \union {None}]
    /\ client \in [Clients -> [at: {"idle", "validate", "find", "unused", "write"},
                               request: CliRequests \union {None},
                               unchecked: SUBSET PeriodNames]]
    /\ stack \in [Stacks -> [status: Statuses, template: Templates \union {None},
                             request: RequestType \union {None},
                             answer: {"SUCCESS", "FAILED", None},
                             id: Schedules \union {None}]]
    /\ raced \subseteq PeriodNames
    /\ faults \in 0 .. MaxFaults /\ deploys \in 0 .. MaxDeploys /\ asks \in 0 .. MaxAsks

\* A schedule that a stack wrote has all its periods, whatever requests of the client
\* were checking items while stacks were updated, renamed, rolled back and removed.
StackSchedulesComplete ==
    \A s \in Schedules :
        schedules[s] # None /\ schedules[s].owner # None =>
            \A p \in schedules[s].periods : Exists(p)

\* A schedule of a person keeps the periods people defined: the check before a put
\* and the check before a deletion fail to exclude each other only when the two
\* requests are handled at the same time.
ReferencesKept ==
    \A s \in Schedules :
        schedules[s] # None /\ schedules[s].owner = None =>
            \A p \in schedules[s].periods \intersect Hand : Exists(p) \/ p \in raced

\* When a stack's operation has ended well, the table says what its template says:
\* also after a rollback, a failed clean-up and a request that was handled twice.
AtRest ==
    \A k \in Stacks : stack[k].status = "complete" =>
        LET t == stack[k].template IN
        /\ schedules[t.name] = ScheduleOf(k, t)
        /\ \A p \in NamesOf(t) : periods[p] = PeriodsOf(k, t)[p]
=============================================================================
