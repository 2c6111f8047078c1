# Instance Scheduler on AWS: TLA+ models, model checks and proofs

These modules model the scheduler in `src/source/app/instance_scheduler` (below:
`app/`) and what the CDK code in `src/source/instance-scheduler/lib` (below: `lib/`)
fixes about its concurrency: which Lambda functions run at once, which invocations
are retried, which queues lie between them. `PROJECT.json` lists the components, the
runs, the mutants that show each property can fail, the lines of code each definition
models, the findings, the hazards and the theorems.

    cd tla
    tlc -workers 2 -config Ec2Serial.cfg MCEc2Scheduling     # one run
    tlapm Ec2SchedulingProofs.tla                            # all proofs of a module

Contents: 1 the system; 2 the modules; 3 the runs; 4 the proofs; 5 findings;
6 what is abstracted or left out; 7 not modelled, and what could follow.

## 1. The system

### Parts, their state and their operations

| Part | State it keeps | Operations | Code |
|---|---|---|---|
| Orchestrator | none | every interval: for each target (account, region, service) with a registered resource, invoke a scheduling request asynchronously, carrying the definitions its records name | `app/handler/scheduling_orchestrator.py` |
| Scheduling request handler | registry cache, its decisions | build the context, `schedule_target` of the service, tags, events, metrics; raises so that Lambda retries | `app/handler/scheduling_request.py` |
| Decision | none | desired state + stored state + flags + present state -> action and state to store | `app/scheduling/scheduling_decision.py`, `scheduling_result.py` |
| EC2 scheduling | instances' power and type (EC2) | describe, decide, start, stop, hibernate, request a resize, write records | `app/scheduling/ec2/ec2.py` |
| EC2 resizing | an SQS queue | per message: stop, modify, start with the next type; write the record | `app/handler/resize_handler.py` |
| RDS scheduling | clusters' and instances' status (RDS) | describe, decide, start, stop with a snapshot | `app/scheduling/rds/` |
| AutoScaling scheduling | a group's scheduled actions, size and size tag | compare with the configuration on record, delete and put scheduled actions, roll back | `app/scheduling/asg/` |
| Resource registry | DynamoDB table: a record per resource with its schedule and stored state | get, put (overwriting or not), delete, find by target, preload | `app/model/store/*resource_registry.py` |
| Registration | none of its own | on a tagging event: register or deregister; migrate the tag of version 3.0 | `app/handler/resource_registration_handler.py`, `app/scheduling/resource_registration.py` |
| Schedules and periods | DynamoDB configuration table | create, update, delete by the command line and by CloudFormation | `app/handler/cli/`, `app/handler/cfn_schedule.py`, `app/model/` |
| Instance schedules | none | the desired state at an instant from the periods | `app/configuration/` |
| Cron expressions | none | parse and match; AutoScaling recurrences; cron to periods | `app/cron/` |
| Maintenance windows | DynamoDB table | reconcile with Systems Manager; make a schedule of a window | `app/maint_win/`, `app/model/maint_win.py` |
| Spoke registration | the progress parameter of an account's region | in the hub: register or deregister all resources of a region, noting the progress | `app/handler/spoke_registration.py` |
| Region registration | SSM parameters per account and region | ask the hub for each region of the stack's list, poll for the end | `app/handler/region_registration_*` |
| Region event rules | EventBridge rules per region | create, update, delete with a custom resource | `app/handler/create_region_event_rules_handler.py` |
| Informational tagging, events | buffers | push, flush by size and by failure | `app/observability/` |
| Custom resource framework | none | one answer per CloudFormation request | `app/util/custom_resource.py` |
| Batch bisection | none | retry a failed batch by halves | `app/util/batch.py` |

### How they interact

EventBridge invokes the orchestrator every interval. The orchestrator reads the
registry and the configuration table and invokes, per target, one request handler,
**asynchronously**: an invocation that fails or times out is run again, up to twice,
with the same payload, while the next interval's invocation may run already. Request
handlers share no memory, only the registry and the cloud APIs. A handler *reads* all
records of its target, *describes* the tagged resources, *decides* all of them, *calls*
EC2 in batches, and then *writes* records one by one, whole and overwriting. Between
any two of these:

- the registration handler (reserved concurrency 1, fed by EventBridge, so that events
  come late, twice or in another order) deletes and replaces records;
- resize handlers (SQS, `maxReceiveCount` 1) read and overwrite records and stop, modify
  and start instances;
- another request handler of the same target does the same;
- people start, stop, resize and tag resources, and edit schedules;
- the handler times out or raises.

There is no lock, no version on a record, and no conditional write after registration.
What correctness there is comes from the order of the steps and from the stored state.

### What is hard, and what should hold

- **Decision and stored state.** The scheduler acts on transitions: it does not restart
  what a user stopped inside a period, nor stop what a user started outside one,
  unless the schedule enforces. `retain_running` exempts an instance from its stop
  if it ran before its period. All of this is inferred from one stored word, so
  everything depends on that word telling the truth about the scheduler's own last act.
- **Whole-record overwrites** by four kinds of handlers from stale copies.
- **Retries and failures**: a call that failed must be tried again by a later cycle, a
  crash must not be taken for a user's act.
- **AutoScaling**: a group is *configured*, not scheduled; the record's configuration is
  trusted for a month, so it must match the group's actions although batches fail in
  part; the size to run at lives in a tag that may be missing when the scheduler itself
  has just set the group to 0-0-0.
- **Registration**: whatever the order of the events, the record should end up with
  the tag's schedule, and nothing should be left behind of a resource without tag.
- **Configuration**: a schedule should not name a period that is gone. Commands check
  and write in separate calls, CloudFormation writes the schedules of stacks, undoes what
  failed with further requests, and may deliver a request twice. The orchestrator reads
  schedules and periods in two passes while all this goes on.
- **Time**: a minute belongs to exactly one answer, over midnight and for periods
  without begin or end.
- **Maintenance windows**: a running window is not lost when Systems Manager already
  lists the next one; a window with its margin is made of periods of dates, over
  midnights and the ends of months; RDS windows are opened early, maybe on the day before.
- **Regions and rules**: rules and registrations are made region after region by three
  functions that fail, are retried and run out of time independently of each other, and
  CloudFormation rolls back on top of what they left.

`PROJECT.json` "hazards" gives each of these at its line with the properties about it.

## 2. The modules

| Module | Models |
|---|---|
| `SchedulingDecision` | `make_scheduling_decision` and the stored state of each kind of result: pure operators |
| `Ec2Scheduling` | one EC2 target: orchestrator dispatch, request handlers, resize handlers, registration, EC2, users |
| `MCEc2Scheduling` | values for its constants |
| `Ec2SchedulingProofs` | theorems about `Ec2Scheduling` |
| `AsgScheduling` | one AutoScaling target: dispatch, request handlers call by call, registration with migration, AutoScaling firing its actions, users |
| `MCAsgScheduling` | values for its constants |
| `AsgSchedulingProofs` | theorems about `AsgScheduling` |
| `CronFields` | the months, monthdays and weekdays of a period: reading, validation, matching, conversion to recurrences; and the reference reading they are compared with: pure operators |
| `InstanceSchedules` | `get_desired_state` of a schedule at a minute, and the scheduled actions of its periods: pure operators |
| `ScheduleTimeline` | one schedule over some days: an instance under its cycles, a group under its rules, users |
| `MCScheduleTimeline` | dates and schedules for its constants |
| `ScheduleTimelineProofs` | theorems about `ScheduleTimeline` |
| `AtomicCycles` | the abstract specification of scheduling: a cycle decides on an instance, calls and stores in one step |
| `Ec2CyclesProofs` | `Ec2Scheduling` implements `AtomicCycles`, and what follows from it |
| `ConfigStore` | the configuration table, the commands that change it, the custom resource of a stack's schedule, CloudFormation |
| `SchedulingRequests` | extends `ConfigStore`: the orchestrator's reads and requests, and the context of a request handler |
| `MCConfigStore`, `MCSchedulingRequests` | templates and commands for their constants |
| `ConfigStoreProofs` | theorems about `ConfigStore` |
| `SchedulingRequestsProofs` | theorems about `SchedulingRequests` |
| `MaintenanceWindows` | an instance of EC2 with Systems Manager's windows, or of RDS with its preferred window, minute by minute |
| `MCMaintenanceWindows` | dates, schedules and windows for its constants |
| `MaintenanceWindowsProofs` | a theorem about `MaintenanceWindows` |
| `RegionRegistration` | the two custom resources of a stack's regions, the hub function, the waiter, CloudFormation |
| `MCRegionRegistration` | two regions |
| `RegionRegistrationProofs` | theorems about `RegionRegistration` |

`MaintenanceWindows` extends `InstanceSchedules` and `SchedulingDecision`: a window is a schedule
evaluated by the same operators as any other. `ScheduleTimeline` and `Ec2Scheduling` are two views of the same handler that share
`SchedulingDecision`. `Ec2Scheduling` has every step, failure and interleaving of a cycle and
leaves open what the schedule answers; `ScheduleTimeline` has the answers, minute by
minute, and takes a cycle as one step that succeeds.

### SchedulingDecision

`Decide(flags, desired, window, stored, isRunning)` is `make_scheduling_decision`: an
open maintenance window first, then `DecideStopped` (`_handle_desired_stopped`) and
`DecideRunning`, branch by branch in the code's order, since earlier branches hide later
ones. A verdict is the action and the state to store if the action succeeds;
`FailureState` is the state `SchedulingResult.client_exception` stores instead. `Flags` are
the schedule's `enforced`, `retain_running` and `stop_new_instances`.

### Ec2Scheduling

State and code:

| Variable | In the code |
|---|---|
| `phase` | the answer of `get_desired_state` for each schedule at present, with the instance type of the running period and whether a maintenance window is open |
| `power`, `size`, `tag` | EC2's state, instance type and schedule tag of each instance |
| `registry` | the record of each instance in the registry table: schedule and stored state |
| `requests`, `request` | asynchronous invocations waiting, and the one a handler works on, with the schedules **as they stood at dispatch** and the attempt |
| `pc`, `cache`, `todo` | where each request handler is, its preloaded records, and the generator pipeline of `schedule_target`: for each instance the step it waits at, the record it decided on (`old`) and the one it will write (`new`) |
| `messages`, `rpc`, `job` | the resize queue and the local variables of `handle_resize_request` |
| `events`, `registrar` | tagging events under way, and what the registration handler described |
| `owner` | history: who last changed the power or type of an instance (scheduler or somebody else); read by properties only |
| `faults` | how many faults happened, for the bound |

Each EC2 call and each registry access is one action:

- `Dispatch`: orchestrator; `Preload`: `preload_cache`; `Describe`: `describe_tagged_instances`,
  the fetch or creation of each record, and all decisions, which happen while the
  generators of `schedule_target` are partitioned, before any call is made;
- `StartOk`, `StartFail`, `StartIce`, `StopOk`, `StopFail`: a call for one instance.
  `start_instances` batches with bisection on failure, so that an instance's call fails
  or not by itself; `Rank` keeps the order in which the chained generators are
  drained: all starts before all stops before all resizes before the rest;
- `SendResize`, `Put`: the message, and the write of a record that changed;
- `Finish`, `Crash`: the end of the handler; a crash puts the request back while it has
  attempts left;
- `ResizeReceive` .. `ResizePut`: the resize handler, with the types still to try;
- `Deregister`, `DescribeForRegistration`, `Register`, `RegistrarCrash`: the
  registration handler.

EC2 itself refuses a start while an instance is stopping and a stop while it is pending
(`Startable`, `Stoppable`), ignores a call for the state it is in, and settles (`Settle`).

### AsgScheduling

State and code:

| Variable | In the code |
|---|---|
| `definition` | the configuration table: each schedule as a function from its periods to begin and end times, or none |
| `size`, `rules`, `tag`, `mdm`, `meta` | a group's min-desired-max, its scheduled actions with the solution's prefix, its schedule tag, its `IS-MinDesiredMax` tag, its version 3.0 metadata tag |
| `registry` | schedule, stored state and `last_configured` (size, schedule hash, whether `valid_until` is more than a day ahead) |
| `request`, `cache`, `seen`, `left`, `plan` | a handler's payload, its cached records, what `describe_auto_scaling_groups` told it, the groups it has not come to, and the locals of `schedule_asg` and `configure_scheduled_scaling_rules` |
| `events`, `registrar` | tagging events, and the locals of `register_asg_resources` and `deregister_asg_resources` |

Here the code handles one group after another, so a handler has a program counter:
`Consider` (the size tag, the schedule, the comparison with `last_configured`),
`DescribeRules`, `DeleteRules`, `PutRules`, `Rollback`, `PutRecord`; `Abort` is an exception that
leaves the loop (a tag that does not parse, a failing tag call), after which Lambda
retries the whole request. A batch call succeeds or fails in part
(`BatchDelete`, `BatchPut`: any strict subset is done); deleting an action that is gone is a
failure of that name. `RuleFires` is AutoScaling resizing the group at any time: the clock
is not modelled, so any rule may fire at any moment.

The schedule hash is modelled by the definition itself: `to_hash` digests the definition
and the periods with all their fields.
`Incompatible` definitions (a `#` or `L` weekday or monthday) make the conversion raise
before any call, so the group keeps its rules and gets `configuration_failed`.

### CronFields and InstanceSchedules

A field (months, monthdays, weekdays) is a set of expressions, records of one of the kinds of
`cron/expression.py`; a `CronUnion` is the union of its parts. `Parse` turns an expression as it
is *written* into the one the code works with. It is the identity but for a step: the
pattern of `_step_re` keeps its last digit (finding `CronStep`). `Discrete` is the loop of
`_range_to_discrete_values`, one function of the pointer for each value of `will_wrap`; `Resolve*` compute weekdays as
the code does, from the first or last of the month. Two things keep the code from an
answer: the nearest weekday to a day the month does not have raises (`Raises`), and a step
of zero loops for ever (`Endless`). Since a field is read from a set in Python, whose
order is arbitrary, and `any` stops at the first match, `MayFail` and `MustFail` bound what
happens: between them either may.

`InstanceSchedules` follows `check_time`, `_get_desired_state_at_time` and `get_desired_state` case
by case: running before any before stopped, the period that began last, the minute between
two periods. A minute is a number; `Calendar` says which date each day is; `CalendarAssumption` asks only that
each is a date of a real month. Periods begin
and end on whole minutes and cycles' seconds are never before the minute they belong to, so
that seconds make no difference to any comparison. `Actions` are the rules of `period_to_actions`, and
`Recurs`, marked external, is how AutoScaling reads the recurrence: a crontab, in which either of
two restricted day fields is enough, while the code asks for both
(`cron_recurrence_expression.py:47`).

The reference (`Says`, `IsNearest`, `DateSays`) shares no loop and no branch with the above: a range
is a distance round the circle, a nearest weekday minimises a distance, the nth weekday lies
in the nth seven days. `ScheduleTimeline` lays the written periods out on the calendar
with it (`RunningThen`, `OpenThen`, `JoinedThen`), as intervals of absolute minutes, for
`AsksAsWritten`.

### ScheduleTimeline

| Variable | In the code |
|---|---|
| `definition` | the schedule and its periods in the configuration table, as written; fixed |
| `interval` | the stack's scheduling interval: cycles are at the minutes it divides |
| `now`, `due` | the minute, and whether its cycle is still to come |
| `up`, `size`, `stored` | the instance's power and type, the stored state of its record |
| `asked`, `at`, `synced` | history: the last cycle's answer and minute; whether the schedule has answered for the instance since a user last touched it (`Governs`) |
| `group`, `fired` | whether the AutoScaling group runs; history: some rule has fired |
| `touches` | bound on users' acts |

`Cycle` is the body of the loop of `Ec2Service.schedule_target` for the instance; `FailedCycle` a
cycle in which evaluating the schedule raised or did not end, and Lambda's retries with it;
`Tick` lets a minute pass and the rules of that minute fire, in any order; `Touch` is a user who
starts or stops the instance.

### AtomicCycles

What scheduling promises, in four variables: `schedule`, `power`, `owner`, `stored`. `Cycle(i)` is
one step: a decision on the state stored for `i`, which succeeds, with the call made, or fails,
with the failure stored. No requests, caches, plans or order. Two things are left open, as the
code leaves them: what the schedule asked for may be out of date (any request may have been
dispatched before the last change), and what was seen of an instance may be out of date *if
somebody else acted since* (`MaySee`).

`CyclesAreAtomic` is that specification with `schedule <- tag` and `stored <- StoredFor`. A
worker that has made its call for an instance and not yet written the record already *holds* the
new state: `StoredFor(i)` is what that worker holds, otherwise what the registry says. So the call
is the abstract cycle, and `Put` stutters, unless nothing was to be called: then `Put` itself
is the cycle. Preloading, describing and finishing stutter.

It holds of one worker that does not die (with a second, or after a death, a decision rests on
a state that is not the last one stored), with no instance types (a resize stores running with no
call) and no retagging.

### ConfigStore and SchedulingRequests

| Variable | In the code |
|---|---|
| `schedules`, `periods` | the configuration table: items with their owner (`configured_in_stack`), what else they say as far as it matters, and the periods a schedule names |
| `client` | each command under way: its next call, and the periods `validate_periods_exist` has still to read |
| `stack` | a stack as CloudFormation sees it: its status, the template it would go back to, the request under way with its answer, the physical id |
| `raced` | history: the periods that a deletion and a put naming them raced for |
| `orchestrator`, `handler` | the schedules and periods each reader has read, and where it is |
| `erased` | history: what was missing at some time since a reader's schedules were read |

A command is a sequence of reads and one write: `Ask`, then `ValidatePeriod` for each period,
`Find` (with `IsManagedByCfn`), `Unused` (`find_by_period`), `Write`, of which only creations are
conditional. A stack's request is one transaction (`Handle`), with its conditions
(`CanPut`); it may be refused (`Reject`), go through after the timer has answered FAILED
(`Timer`), or be delivered again because the handler died after it (`Killed`). CloudFormation, marked
external, follows a changed physical id by the deletion of what had the former one,
and undoes failures by requests with the templates swapped (`Undo`).

A template's periods are numbered in its schedule's name; people's periods have other names
(`Hand`): `ConfigAssumption`.

### MaintenanceWindows

`kind` says whether the behaviour is about an EC2 or an RDS instance. `plan` is external: when each
window begins; `Listed` is the *next* execution, all that `describe_maintenance_windows` gives.
`table` is the window table; `Deltas`, `Accepted` and `Reconciled` are
`reconcile_ssm_with_dynamodb`: what differs is written, but a stored window under way is kept.
`ToSchedule` and `PreferredPeriods` make periods of a window, with the code's cases; whether they
are running is asked of `InstanceSchedules`. `Cycle` is one cycle of the target, `LostCycle` one that
does not deal with the instance, and calls fail, or the handler dies in them, in `Act`. An RDS
instance takes its time and may be occupied (`Settle`, `Occupy`), and is skipped meanwhile (`Skip`).
`planned`, `changed` and `open` are histories of what cycles could know, used by the properties
only: an execution that Systems Manager first lists less than a cycle before it begins is known
to nobody. `Told`, the history of the executions cycles were told of, drops one only when it has been over for
an interval and was over at the last cycle that dealt with the instance. `CalendarAssumption` asks of the calendar
that dates do not come twice, that days near each other differ in their number (the code compares `day`
only), and that weekdays follow each other.

### RegionRegistration

`stack` and `op` are CloudFormation's; `answers` what each of the two custom resources answered.
`rulesJob` is what the rules' handler has still to do, `rules` what there is in each region of
its five calls, done in the order of the code (`Creation`, `Removal`), so that a failure leaves a
prefix; `Reach` is how far a deletion comes before it raises on what is not there. `notify` is
what the registrations' handler has still to ask for, `requests` the invocations of the hub
function with their progress, `parameter` the parameter each of them writes, `registered` what the
registry has. `Poll` is the waiter; `Timeout` ends it after its total timeout.

## 3. The runs

Bounds: `MaxRequests` caps requests waiting or in hand (1 = cycles never overlap, 2 = an old
and a new one), `MaxFaults` the faults of a behaviour of the kinds in `FaultKinds`,
`MaxAttempts` the attempts of an invocation (2 or 3; AWS makes 3). There is no bound on
users' acts, phase changes, deliveries or cycles: the state spaces are finite without.
One instance or group is enough for what only relates a record to its resource, and the
handlers meet in its record; two instances are used where they matter to each other
(`Ec2Registration`: the target is scheduled while another instance is registered). In
`Ec2Serial` the one instance begins under either of two schedules of different kinds, so one
run covers both, and its users also change its type. Bounds of the other models are given with their runs.

### EC2

| Run | Bounds | Shows |
|---|---|---|
| `Ec2Serial` | 1 instance, 2 schedules (retaining; enforcing), 1 worker, 2 failed calls | cycles one at a time, users and refused or failed calls in between: the stored state is the truth (`StoredIsLastAction`), retain-running is only for users' starts (`RetainedIsUserStarted`), an unenforced schedule acts on transitions only (`StopsOnTransition`, `StartsOnTransition`) and its transitions reach an instance nobody else touches (`TransitionsReachInstance`), an enforced one wins (`EnforcedConverges`); and each cycle does what one atomic step would (`CyclesAreAtomic`) |
| `Ec2Overlap` | 2 workers, 2 requests, 1 crash, retagging | stale caches, stale schedules, an old request invoked again: `TypeOK`, `RetainOnlyWhereAsked` |
| `Ec2Sizes` | 2 types, 1 worker, 1 resize handler, 1 fault of any kind | preferred types and a period that asks for a type: the instance runs with that type in the end (`PeriodSizeConverges`), although the resize handler always finds the instance still stopping at first |
| `Ec2Registration` | 2 instances (1 retagged), 2 schedules, 1 worker, 1 crash or duplicate | events in any order, twice, a crash: no record of an old tag stays (`RegistryFollowsTags`), and a tagged instance whose record a late deletion event removed is registered again by a cycle (`TaggedIsRegistered`) |

`StoredIsLastAction`, `RetainedIsUserStarted` and `CyclesAreAtomic` hold only without crashes
(section 5), which is why `Ec2Serial` has none. `RegistryFollowsTags` asks that no cycle is
under way while a tag changes (`Undisturbed`): a cycle writes whole records it loaded earlier, also
over one that was registered meanwhile under another schedule, and nothing corrects it.

### AutoScaling

| Run | Bounds | Shows |
|---|---|---|
| `AsgSerial` | 1 group left by version 3.0, 3 definitions, 1 worker, 2 faults | a schedule edited forward, also by way of one that cannot be expressed or of none, batches that fail in part, users resizing, a size tag that stops to parse: a record that says configured tells the truth about the rules (`ConfiguredIsInstalled`, with `TypeOK`), and the size of the version 3.0 tag survives the migration (`MigrationKeepsSize`) |
| `AsgLive` | 1 group, 2 definitions, 1 worker, 1 fault, informational tagging | a group untagged and tagged at will, rules firing at any time, deaths between delete and put, expiry: the group ends with its schedule's rules (`RulesFollowSchedule`), or without record and rules if it stays untagged (`UntaggedIsClean`); a group that ran when it was tagged never gets a Start rule of size 0-0-0 (`StartIsNeverStop`) |

`AsgSerial` lets people edit the schedule forward only, since an edit back breaks the
invariant (section 5); it has no dying cycle, since one that dies between delete and put
leaves the record as it was until the retry; and one group and no informational tagging,
since a second group or the tagging loses the migrated size (section 5). The liveness
properties of `AsgLive` ask that no cycle is under way while a tag changes (`Undisturbed`): a
cycle that saw the tag configures the group while it is deregistered and after, and both
record and rules stay. A failed batch deletion by the registration handler (the fault
"clean") is in neither run: `delete_existing_scheduled_actions` returns the failure and
`deregister_asg_resources` ignores it (`resource_registration.py:299`), so the rules would stay.

### Schedules

| Run | Bounds | Shows |
|---|---|---|
| `Timeline` | 15 schedules, 7 days of 8 minutes, intervals of 1 and 3 minutes, 2 acts of users | every answer is what the periods say when laid out on the calendar (`AsksAsWritten`); from its first transition after a user's act the schedule has the instance in the state and of the type it asked for last, also over minutes at which it asks for nothing and cycles that fail (`FollowsSchedule`); a group with the rules of the same periods is up when the instance is (`GroupAgreesWithInstance`); and `TypeOK` |
| `CronStep` | 1 schedule | violation: section 5 |

A day of eight minutes has 0 for midnight and 7 for 23:59, and room for two periods and the
minute between them. The calendar is 25 February (Sunday) to 4 March 2024: a month of 29 and one
of 31 days, a fifth Thursday, a last Monday, a first of the month on a Friday, a second on a
Saturday, a day (the 30th) that February lacks; behaviours start on the second day and end a
day before the last, so that the minutes before and after have a date. The schedules of
`MCScheduleTimeline` have overlapping, nested, adjacent and one-sided periods, over midnight
and over the end of the month, ranges that wrap, steps, every kind of expression, both
overrides and all flags. With an interval of three a boundary falls between two cycles; with one,
a cycle hits the minute in between. Two touches stop and start the instance again between
two transitions.

`GroupAgreesWithInstance` is about schedules for which it can hold (`Comparable`): section 6.

### Configuration

| Run | Bounds | Shows |
|---|---|---|
| `ConfigTable` | 1 stack of 4 templates (small, grown, renamed, invalid), 2 commands at once of 10, 4 in all; 3 deployments; 1 fault | whatever commands were checking while a stack changed, its schedule has all its periods (`StackSchedulesComplete`); a person's schedule loses a person's period only to a race of a deletion and a put (`ReferencesKept`); a stack whose operation ended well finds in the table what its template says (`AtRest`); and `TypeOK` |
| `ConfigReading` | 1 stack, 1 command at once, 3 in all; 2 deployments; 1 cycle; 1 fault; each size of request | the orchestrator leaves a schedule out only if a period of it was missing at some time since it read the schedules (`DroppedOnlyIfErased`), and a target's context lacks a period only if, moreover, the request was stripped (`ContextComplete`) |

Two commands are what it takes for one to write between another's check and its write; three
deployments are a creation, an update and a deletion, each with its rollback. These runs end when
the deployments and commands are used up, so deadlock is not checked.

### Windows and regions

| Run | Bounds | Shows |
|---|---|---|
| `Windows` | 2 windows of 4 plans, 6 preferred windows, 4 schedules, intervals of 2 and 3 minutes, 17 minutes of 8-minute days; 1 change of a plan, 1 act of a user, 1 fault | an EC2 instance runs throughout each execution that the last cycle before it could know of, though it is listed no more (`UpInWindow`), and for no other reason (`UpOnlyForWindow`); an RDS instance is asked to run from ten minutes before its preferred window to its end (`PreferredAsWritten`); both stay as they were asked to be (`FollowsWindows`); and `TypeOK` |
| `Regions` | 2 regions, 3 operations, 1 fault | a stack at rest has exactly its regions registered, and no parameter that would block another operation (`RegisteredAsDeployed`), and all rules of its regions (`RulesWhereDeployed`); an operation in which nothing fails succeeds, whatever failed before it (`CalmSucceeds`); and `TypeOK` |

The calendar of `Windows` is 25 February to 5 March 2021: the end of a week and of a month are the
same midnight. One minute stands for the ten before a window. The windows lie within a day, over
the end of the month, are a day long, or follow on each other; those of RDS begin and end at
midnight, cross it, and are opened on the day before. Cycles every two or three
minutes hit and miss begins and ends.

In `Regions`, one fault breaks an operation and the rollback must mend it; three operations are a
creation, an update and a deletion, or a deletion that is repeated. Failures that come in a
rollback as well are left to the theorems, which hold for any number of faults.

### Fairness

Liveness of EC2 and AutoScaling is checked under `FairSpec`, of regions under the fairness in
its `Spec`:

- `WF(Dispatch)`: EventBridge fires every interval; `WF(WorkerStep(w))`, `WF(ResizerStep(r))`:
  Lambda runs what is queued and handlers run to their end unless they crash;
- `WF(Settle(i))`: EC2 finishes what it began; `WF(Register)` / `WF(RegistrarStep)`: a
  registration under way ends;
- `SF(HandleEvent(e))` per event: EventBridge retries an event for 24 hours, so no event
  starves although a function with a reserved concurrency of 1 is busy with others time
  and again, which disables `HandleEvent(e)` in between. Weak fairness would allow an event
  never to be taken.

- regions: `WF(Proceed)`: CloudFormation goes on after the answers; `WF(Rules)`,
  `WF(\E d : Notify(d))`: the handlers run to their end; `WF(Hub)`: Lambda runs what is queued;
  `WF(Poll)`: the provider polls. The configuration and window models have safety properties only
  and no fairness.

No fairness is assumed of users, faults, phase changes or rules that fire. The
antecedents of the liveness properties say what must settle for them to hold
(`<>[]Settled(i, s, x)`), and every one of them has a mutant of the code that violates it.
The orchestrator invokes a target even if its previous handler is still at work. `WF`
of a whole `WorkerStep(w)` is enough since a worker is sequential.

Deadlock is checked in every run but the two of the configuration table, and never occurs;
`Done` and `Stuck` mark where the window and region models stop on purpose.

## 4. The proofs

Eight modules of theorems, for every value of the constants: any number of instances,
groups, stacks, regions, windows, schedules, handlers at once, faults and attempts. The only assumptions are
those named `...Assumption` in the modules, which TLC evaluates on every run, and where a theorem is an
implication, its left side, a named predicate of the constants (`NobodyStops`, `OneCycle`, `NoResizes`,
`LoneGroup`, `Forward`, `Serial`, `Steady`, `OwnNames`, `StepsAsWritten`, `OneDigitSteps`): the property is false
without it, and section 5 says how.

| Theorem | States | Argument |
|---|---|---|
| `Ec2SchedulingProofs!TypeCorrect` | `Spec => []TypeOK` | `TypeOK` is not inductive by itself; `TypeInv` adds that a busy worker holds a request (`Handling`), that a plan that is not done rests on a record whose schedule exists and, for a resize, on a period with a type (`Planned`), and that a resize handler at work has a job and a type to try (`Resizing`) |
| `Ec2SchedulingProofs!RetainSafe` | `Spec => []RetainOnlyWhereAsked` | the property reaches the table through stale copies, so `RetainInv` demands it of every copy: the cache and the plan of every worker, the job of every resize handler; `DecideRetains` shows when a decision stores retain-running |
| `AsgSchedulingProofs!TypeCorrect` | `Spec => []TypeOK` | `Handling`: a worker past describe has seen every group, one at work on a group has a plan, one that changes rules has a schedule its request carries; `Registering`: what is registered has a schedule, what is migrated a size |
| `AsgSchedulingProofs!StartsSafe` | `NobodyStops => (Spec => []StartIsNeverStop)` | see below |
| `AsgSchedulingProofs!MigrationSafe` | `LoneGroup => (Spec => []MigrationKeepsSize)` | `MigrationInv`: see below |
| `AsgSchedulingProofs!InstalledSafe` | `Forward /\ Serial /\ Steady => (Spec => []ConfiguredIsInstalled)` | `InstallInv`: see below |
| `ScheduleTimelineProofs!TypeCorrect` | `Spec => []TypeOK` | `AnswersAreSensible`: whatever the periods, the answer is one of three states, with the type of some period; it rests on `NearestIsRunning` |
| `ScheduleTimelineProofs!FollowsSafe` | `Spec => []FollowsSchedule` | see below |
| `ScheduleTimelineProofs!AsksSafe` | `StepsAsWritten => (Spec => []AsksAsWritten)` | see below |
| `ScheduleTimelineProofs!GroupSafe` | `OneDigitSteps => (Spec => []GroupAgreesWithInstance)` | see below |
| `Ec2CyclesProofs!CyclesAtomic` | `OneCycle /\ NoResizes => (Spec => CyclesAreAtomic)` | see below |
| `Ec2CyclesProofs!RetainedSafe`, `StoredSafe` | the same `=> (Spec => []RetainedIsUserStarted)`, `[]StoredIsLastAction` | proved of the abstract specification (`AtomicCycles!Truth`) and carried over by the refinement |
| `Ec2CyclesProofs!StopsSafe`, `StartsSafe` | the same `=> (Spec => StopsOnTransition)`, `StartsOnTransition` | the plan rests on the record as it is (`CycleInv`), and a retained record has a schedule that retains (`RetainInv`) |
| `ConfigStoreProofs!TypeCorrect` | `Spec => []TypeOK` | `Handling` and `Requesting`: what a command's next call and a stack's status say of the request |
| `ConfigStoreProofs!StacksKeepPeriods` | `Spec => []StackSchedulesComplete` | a name numbered in a schedule is only ever a stack's period (`OwnNumbering`), and a command that goes on after `Find` is about a name of people (`ChangesHand`): an owner cannot change between check and write in the dangerous direction |
| `ConfigStoreProofs!PersonsKeepPeriods` | `Spec => []ReferencesKept` | a period a put has validated is there, or raced (`ValidatedKept`); a period a deletion found unused is named by no schedule that is not raced (`UnusedKept`); two commands under way have recorded their race (`RacesSeen`) |
| `ConfigStoreProofs!RestSafe` | `OwnNames => (Spec => []AtRest)` | `RestInv`: see below |
| `SchedulingRequestsProofs!DroppedSafe`, `ContextSafe` | `SpecRequests => []DroppedOnlyIfErased`, `[]ContextComplete` | on top of `StackInv` of `ConfigStoreProofs`, which types what is read: a reader between its two reads has seen every period that is missing now (`MissingSeen`); what the orchestrator sends has all its periods (`SendsUsable`); a request that carries them is never completed from the table (`ReadsIfStripped`) |
| `MaintenanceWindowsProofs!TypesSafe` | `Spec => []TypeOK` | inductive; what is listed is typed because a set of planned minutes has a least one (`ListedNext`) |
| `MaintenanceWindowsProofs!OnlyForWindowSafe`, `InWindowSafe` | `Spec => []UpOnlyForWindow`, `[]UpInWindow` | see below |
| `MaintenanceWindowsProofs!PreferredSafe` | `Spec => []PreferredAsWritten` | see below |
| `MaintenanceWindowsProofs!FollowsSafe` | `Spec => []FollowsWindows` | `SyncedInv`: as long as the instance is answered for, the stored state agrees with it too, since a cycle that makes no call relies on the stored state |
| `RegionRegistrationProofs!TypeCorrect` | `Spec => []TypeOK` | inductive as it stands |
| `RegionRegistrationProofs!RegistrationsSafe` | `Spec => []RegisteredAsDeployed` | `RegistrationsInv`: as long as no request of an answered operation runs on (`~stale`), each region's parameter and registration are at one of the points the operation can have brought them to: told to the hub, worked on, changed, or at rest |
| `RegionRegistrationProofs!RulesSafe` | `Spec => []RulesWhereDeployed` | `RulesInv`: the regions an operation no longer has to create are complete, and either none has been created yet or nothing is left to delete; an answer "ok" means all of its regions are complete |

`StartsSafe`: the scheduler stops a group by a rule of size 0-0-0, and takes a group's
*present* size for the size to run at whenever the tag is missing. So it must never find
a stopped group without tag. `NobodyStops` says of the constants that people neither set a
group to 0-0-0 nor write that into the tag nor remove the tag. The invariant `SizeInv`:
a group without a tag has no rules at all and a size other than zero (`TagKnowsSize`);
whatever a handler has seen, however stale, is either a size to run at or a tag that is
still there (`SightingKnowsSize`); and a handler that changes rules works on a tagged group,
with a size to run at and a backup whose Start rules are good (`PlanKnowsSize`). The
run `AsgLive` checks the same with one handler and one group; the theorem covers
overlapping handlers, several groups and migration.

`MigrationSafe`: the size in a version 3.0 tag must reach the new tag or the record before the old tag goes.
`MigrationInv` follows the registration handler step by step: the old tag is there or gone; the handler that is to
migrate has its value; and once the old tag is gone, or the group has a record, or there is a request or a cycle,
the group's size tag holds that value or one people wrote, and so does what a cycle has seen of it. `LoneGroup` says
that there is one group, so that no cycle describes it before its migration on behalf of another, that
people do not remove the size tag, and that there is no informational tagging.

`InstalledSafe`: `last_configured` speaks of the rules of one moment. `InstallInv` says that between cycles
a group whose record says configured has the rules of that definition, or its schedule has moved on; and of a handler at
work, step by step, which of its rules are deleted, put and rolled back. A failed batch leaves a
record whose definition is not the present one; that it never is again is `Forward`: the
transitive closure of the edits people make has no cycle. `Serial` is one handler and one request at a time
that does not die; `Steady` that people do not untag groups and write nothing into a size tag but what does not
parse, and that there is no informational tagging: a handler would read a size that is not the rules'.

`RestSafe`: a stack at rest has in the table what its template says. Under way, `Underway(k)` says what the
request at hand, its rollback or its clean-up will still do to the stack's items, for each status and
physical id; `PersonsElsewhere` that people's items are under other names. `OwnNames` is one stack, and
no people who create a schedule under a name of its templates: a rollback deletes whatever has the name (section 5).
The invariant is inductive over handlers that die, answers that come too late and requests
handled twice.

Windows: everything rests on an arithmetic of days. `DayOrder` and `NextMinutes` say how minutes, days and times of day
relate; `WindowRuns` that the one, two or three periods of `to_schedule` run at exactly the minutes `Runs`;
hence a window is open at no minute outside its span (`OpenWithin`) and at each within it but the last of a
day it ends with (`OpenDuring`). For `UpOnlyForWindow`, the invariant adds that the table holds only
executions that were told of or are over (`TableKnown`). For `UpInWindow`, two more: `ReadyInv`, that
after the last cycle before an execution that could be known the table holds it and the instance is up, because
that cycle lies within an interval of it (`CycleComes`) and its margin is longer than the interval; and `OpenInv`, that
the table then keeps it to its end, since what is under way is not replaced (`Accepted`). For the preferred window of
RDS, `SinceEarlyIs` reduces the remainder by a week to days and minutes, `WithinIs` says what being
within the window is, and `PreferredOpen` that its one or two periods, with the minute
between them joined, are just that.

`FollowsSafe`: the cycle looks at the stored state to see whether there is a transition, so
that the instance is right only if the stored state is. The invariant is `FollowsSchedule` with
`StoredIsAnswer`: the stored state is the one last asked for, retain-running standing for
running. `CycleFollows` goes through the decision case by
case; `FailedCycle` and `Tick` change nothing it speaks of, and `Touch` ends it. `NearestIsRunning`
says that `get_nearest_running_period` returns one of the running periods and that none began
later; the choice exists because begin times are bounded and positions are well-ordered
(`LeastNatural`, from the well-foundedness of the naturals).

`AsksSafe`: a cycle's answer against the calendar. `Discrete` is recursive, and what it computes is proved
without induction: every k-th value from a pointer to the end (`TailFrom`), or round the circle (`AroundFrom`),
satisfies the equation of the loop (`TailUnfolds`, `AroundUnfolds`), so that there is a solution; and
a pointer at which another solution differed would be followed by a later one, while none beyond the end
differs, so that the least distance to it is a contradiction (`TailSolves`, `AroundSolves`). From
`DiscreteValues`, `RangeSays` gets the distances of the reference; `NearestSays`, `NthSays` and
`LastSays` are the arithmetic of weekdays for months of 28 to 31 days; `PeriodSays` puts the three
fields together, for dates on which the evaluation gives an answer. `PeriodAsks` goes from times of day to
intervals of absolute minutes, `StateAsks` from periods to the answer with its type, and
`DesiredIsWritten` adds the minute between two periods. `StepsAsWritten` says that the last digit of
every step is the whole step, or zero; without it `CronStep` is a counterexample.

`GroupSafe`: the same schedule for a group, whose rules fire at moments, and an instance, whose cycles compare
states. `RunningChanges`: a period begins to run in a minute exactly if its Start rule fires in it, and ceases
exactly if its Stop rule does; since comparable periods neither overlap nor touch, `RulesFollowPeriods`:
what fires in a minute is of one kind, and agrees with whether a period runs. So the group is up
exactly while one runs (`GroupFollows`), and by `AsksSafe` and `FollowsSafe` the instance is too. With
`OneDigitSteps` every step is from 1 to 9: AutoScaling accepts no step of zero, while the code answers
"running" if another expression of the field matches (section 5).

`CyclesAtomic`: the refinement mapping is `StoredFor` (section 2). `OneCycle` says that there is one
worker, no crash and no retagging, `NoResizes` that nobody asks for an instance type. The
invariant `CycleInv` says why a decision taken at describe time is still right when
it is carried out: nothing waits for the registration handler (`Quiet`), every record names its
instance's schedule (`RecordsFollowTags`), the cache is the table (`CachesAreCurrent`), and each step
that is still to do is what the decision gives on the record *as it is now*, with a sighting that
is fresh unless somebody else acted (`OnPlan`). The calls of other instances in between do
not disturb it (`CallCycles`), and `Put` writes only its own record (`PutCycles`). Then each
detailed step is an abstract one (`CallRefines`, `PutRefines`, `WorkerRefines`,
`EnvironmentRefines`). The abstract invariant `Truth` is preserved by the abstract steps alone:
that is the part the atomic view makes easy.

The proofs have one case per action, and under it one step per conjunct it disturbs.

Only model-checked, not proved: all liveness (`EnforcedConverges`, `TransitionsReachInstance`,
`PeriodSizeConverges`, `RegistryFollowsTags`, `TaggedIsRegistered`, `RulesFollowSchedule`, `UntaggedIsClean`,
`CalmSucceeds`), since fairness and `ENABLED` are beyond the proof system. Every other property of a passing run is
a theorem.

## 5. Findings

`CronStep` is a run of kind "violation"; its trace is the argument: a step of two digits is read
as its last digit: "1-31/15" means every five days, and "1-31/10" a step of zero, whose
loop never ends.
Beside an expression that matches the day, such a step of zero may go unread, since `any` stops at the
first match: the instances of the schedule then run on that day. AutoScaling accepts no rule with a step of
zero, so a group of the same schedule gets none from it. This is what `OneDigitSteps` leaves out of `GroupSafe`;
`AsksSafe` covers it.

The rest was met while modelling; the properties are stated so that they hold beside it.

EC2:

- A handler that dies between `start_instances` and its records leaves "stopped" on record for
  an instance it started; the retry takes this for a user's start and stores retain-running, so
  the next stop is skipped.
- A start that becomes a resize request stores "running" at once (`ec2.py:197`); when every type is
  out of capacity the record is kept, and nothing starts the instance again.
- Pending and stopping instances are decided about (`Describe` takes every instance), although the
  docstring of `describe_schedulable_instances` (`ec2.py:397`) says that only running and stopped ones
  are schedulable.

AutoScaling:

- A partly failed batch keeps the configuration that was last written on record; when the schedule
  is edited back to it, the group's incomplete rules pass for valid.
- The size rescued from the version 3.0 tag is overwritten with the present size by the
  informational tags of the same registration. With a second group, a cycle that described the
  group before its migration does the same.
- A cycle under way undoes a deregistration: see `Undisturbed`.

Configuration:

- A shrinking update leaves the periods it no longer numbers in the table, owned by the stack: the
  client refuses to delete them, and they make a later creation of the same schedule fail.
- The rollback of a creation that failed because the name was taken deletes the schedule of
  that name, whoever owns it.
- An update that renames a schedule cannot be rolled back: the rollback renames it back without
  overwriting, and the old schedule is still there, since it is cleaned up only at the end.
- A put and a deletion handled at the same time leave a schedule that names no period: `raced`.
- A creation that is handled again, because its handler died after the transaction, answers
  that its items exist already.
- An update parses the old properties too, and a deletion those it deletes: after properties that
  do not parse, the rollback of the update and the deletion of the failed creation fail as
  well. `test_cfn_schedule_handler.py:408` asks that one can get away from properties that have become
  invalid; it tries it with a key that is ignored.
- The docstring of `_delete_request` says that it fails for items that do not exist; it succeeds.
- `find_all` reads one page of the query.

Windows:

- Of windows of a whole day that follow on each other every second execution is missed: while one is
  under way its successor is not stored, and afterwards Systems Manager lists the one after
  it. `instance-scheduler-stack.ts:116` promises that instances run during windows.
- A window that lasts beyond a day, with its margin, is opened at the midnight before
  (`OpenedAt`): its second period is the day before its end, which is then the first day.
- The minute 23:59 is lost when a window of two periods ends at midnight (`LastMinute`, `LostMinute`).
- An execution that is cancelled or moved within its margin is kept to its end.
- The RDS window is opened ten minutes early, without the interval, so that with longer intervals
  the instance may be started late; CHANGELOG 266 speaks of ten minutes.
- A flag `use_maintenance_window` that is unset is false for RDS (`rds.py:187`) and true for EC2.
- An RDS window that begins before 00:10 and ends on a later day leaves out the day in
  between; so do windows of several days (`WindowsAssumption` excludes both).
- A handler that dies between the start of an RDS instance and its record, with the window seen
  only once, leaves the instance running, and the retain flag takes it for a user's.
- The snapshot of an RDS instance is deleted before its stop is known to succeed.

Regions:

- A hub request of an operation that has been answered may still run (`stale`), and leave parameters
  and registrations that belong to no stack or block later operations.
- `_delete_event_rule` raises at the first rule that is not there, so that what comes after it stays
  (`Reach`); the failing region's own first calls are not rolled back. Both leave orphans in
  regions that are not the stack's, which `RulesWhereDeployed` does not speak of.
- After a failed rollback (`stuck`) left-over parameters make the deletion of the stack wait
  until its timeout.

Hazards that no property covers, with nothing to model them by here: a buffered informational tag
that is lost when a flush raises (`informational_tagging.py:83`), a batch whose bisection meets an
error of another kind (`batch.py:41`), and a failed `GetItem` that reads as a missing
record (`dynamo_resource_registry.py:61`).

## 6. What is abstracted or left out

- The clock: schedules change their answer at any moment (`PhaseChange`), rules fire at any
  moment. What the answer is at a minute is in `InstanceSchedules` and `ScheduleTimeline`.
- Time zones and daylight saving: minutes are counted in the schedule's zone, and every day has as
  many. Years other than the calendar's.
- Groups and instances: the same schedule means something else for a group when periods overlap
  or follow on each other (a Stop rule of one fires inside the other), when they have no begin
  or no end, when both day fields are restricted, with an override, or when a field has no
  recurrence. `Comparable` leaves these out; the code makes no attempt at them.
- "L" as a weekday is the last of the code's domain, Sunday; no schedule of a run gives it to
  AutoScaling, which reads it otherwise.
- How an expression is spelled: names for numbers, case, blanks. What the validators refuse is in
  `ValidPeriod`, which `TimelineAssumption` asks of every schedule.
- Hibernation: `hibernate_instances` falls back to a normal stop, so it is a stop here.
- Terminated instances; a group deleted while it is registered.
- The ten seconds' delay of the resize queue: a message may be taken at once or never soon.
- A request without definitions reads them from the table when it is handled, so it sees
  later ones than at dispatch: that is in `SchedulingRequests`, not in `Ec2Scheduling`, whose cycles
  take them from the request.
- A failed `GetItem` of the registry, which reads as a missing record.
- Paging: a describe of all pages is one step.
- Periods missing from the table abort an AutoScaling cycle as a corrupt size tag does, so
  only the latter is modelled.
- Informational tags, events, metrics and logs have no effect on scheduling, with the one
  exception of `IS-MinDesiredMax` (`WriteSize`).
- RDS clusters and lone instances differ in the calls and not in the control; snapshots, and
  members of clusters, which are not scheduled by themselves, are left out.
- A stack's handler that is killed after its timer has answered: the retry would find the answer
  given. Two queries' pages, and DynamoDB's own retries.
- CloudFormation, Systems Manager and AutoScaling are modelled by what this code relies on: that
  CloudFormation waits for both answers and undoes what failed, that an exception in a handler of
  the provider framework ends as FAILED, that a window is listed with its next execution.
- The purge of the rules that versions 3.1.0 and 3.1.1 left, and the registration of accounts in the
  configuration table (`ddb_config_item_store.py`: its `register_spoke_accounts` is called by nothing
  in the handlers modelled here).

## 7. Not modelled, and what could follow

`PROJECT.json` lists each part with its reason. Left out for good: metrics, logs and dashboards,
sessions and environments, the CDK stacks as such, the command line client (argument parsing and
one invocation): nothing in them has state that the rest depends on. Informational tagging,
scheduling and registration events, and batch bisection have state, but within one call and one
handler; where they matter to others they appear in the models (`WriteSize`, calls that
fail one instance at a time).

What a continuation would take up first:

1. `BisectRetry` and `InfoTagging`: every item of a batch in exactly one result, every pushed tag
   flushed once; theorems by the length of the batch.
2. A refinement for AutoScaling as for EC2: configuring a group in one step, with `ConfiguredIsInstalled`
   as its consequence.
3. Composition of `SchedulingRequests` with `Ec2Scheduling`: a cycle whose definitions come from the
   request or the table.
