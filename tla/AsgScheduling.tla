---------------------------- MODULE AsgScheduling ----------------------------
(***************************************************************************)
(* The AutoScaling scheduling target of one account and region.  A group   *)
(* is not started and stopped: a cycle writes scheduled actions ("rules")  *)
(* into it, AutoScaling fires them, and the registry remembers the         *)
(* configuration last written so that later cycles can leave it alone.     *)
(*                                                                         *)
(*  - Workers, the scheduling request handlers: schedule_target in         *)
(*    scheduling/asg/asg_service.py, group after group, call after call;   *)
(*  - the registration handler, which also migrates the metadata tag of    *)
(*    version 3.0: handle_asg_tagging_event, register_asg_resources,       *)
(*    deregister_asg_resources, migrate_asg;                               *)
(*  - AutoScaling firing rules, people editing schedules, sizes and tags.  *)
(***************************************************************************)
EXTENDS Naturals, FiniteSets, Functions

CONSTANTS
    Groups,         \* AutoScaling groups of the target
    Schedules,      \* names of schedules
    Periods,        \* names of periods
    Times,          \* times of day a period may begin or end at
    Sizes,          \* sizes (min-desired-max) other than Zero
    Zero,           \* 0-0-0
    None,           \* no record, tag, schedule, configuration or time
    Corrupt,        \* an IS-MinDesiredMax tag that does not parse
    Workers,        \* scheduling request handlers that may run at once
    Definitions,    \* what the configuration table may say of a schedule
    Incompatible,   \* definitions no scheduled action can express (nth weekday)
    Edits,          \* <<from, to>>: how people edit a schedule, to None deletes it
    InfoTagging,    \* ENABLE_INFORMATIONAL_TAGGING
    DefinedAtStart, \* definition of each schedule when the behaviour begins
    TagAtStart,     \* schedule tag of each group when the behaviour begins
    TagChoices,     \* schedule tags people put on groups (None removes it)
    MetaAtStart,    \* size in the metadata tag of version 3.0, None without one
    SizesAtStart,   \* sizes a group may have when the behaviour begins
    MdmChoices,     \* values people write into IS-MinDesiredMax
    SizeChoices,    \* sizes people give a group
    FaultKinds,     \* faults that happen: see FaultKind
    MaxFaults,      \* bound: faults of a behaviour
    MaxRequests,    \* bound: requests waiting or being handled
    MaxAttempts     \* attempts at an asynchronous invocation

FaultKind == {"crash", "registrar", "delete", "clean", "put", "tag", "duplicate"}

\* A schedule's periods, each with a begin time, an end time or both.
Definition == UNION {[P -> [begin: Times \union {None}, end: Times \union {None}]] :
                        P \in SUBSET Periods}

AllSizes == Sizes \union {Zero}
MdmTags == AllSizes \union {None, Corrupt}

\* The configuration last written into a group; valid is false from a day before
\* valid_until on.
Configuration == [size: AllSizes, hash: Definitions, valid: BOOLEAN]
AsgStates == {"unknown", "configured", "configuration_failed"}
Record == [schedule: Schedules, stored: AsgStates, last: Configuration \union {None}]

ASSUME AsgAssumption ==
    /\ {None, Corrupt} \intersect AllSizes = {}
    /\ None # Corrupt
    /\ None \notin Schedules \union Groups \union Times \union Definitions \union Record
                      \union Configuration
    /\ Definitions \subseteq Definition
    /\ Incompatible \subseteq Definitions
    /\ Edits \subseteq (Definitions \union {None}) \X (Definitions \union {None})
    /\ InfoTagging \in BOOLEAN
    /\ DefinedAtStart \in [Schedules -> Definitions \union {None}]
    /\ TagAtStart \in [Groups -> Schedules \union {None}]
    /\ TagChoices \subseteq Schedules \union {None}
    /\ MetaAtStart \in [Groups -> AllSizes \union {None}]
    /\ SizesAtStart \subseteq AllSizes
    /\ MdmChoices \subseteq MdmTags
    /\ SizeChoices \subseteq AllSizes
    /\ FaultKinds \subseteq FaultKind
    /\ MaxFaults \in Nat /\ MaxRequests \in Nat /\ MaxAttempts \in Nat \ {0}

VARIABLES
    definition, \* configuration table: the definition of each schedule, or None
    size,       \* size of each group
    rules,      \* the group's scheduled actions that carry the solution's prefix
    tag,        \* schedule tag of each group
    mdm,        \* IS-MinDesiredMax tag of each group
    meta,       \* metadata tag of version 3.0, as the size in it
    registry,   \* registry table: a record for each group, or None
    requests,   \* scheduling requests waiting for a handler
    pc,         \* where each worker is
    request,    \* the request each worker handles
    cache,      \* the records each worker preloaded
    seen,       \* what each worker's describe reported of each group
    left,       \* the groups each worker has yet to come to
    plan,       \* what each worker is doing to its present group
    events,     \* tagging events waiting, in no order
    registrar,  \* the registration handler
    faults      \* faults so far

groupVars == <<size, rules, tag, mdm, meta>>
workerVars == <<pc, request, cache, seen, left, plan>>
tagVars == <<events, registrar>>
vars == <<definition, groupVars, registry, requests, workerVars, tagVars, faults>>

-----------------------------------------------------------------------------
(* Scheduled actions *)

RuleNames == Periods \X {"Start", "Stop"}
Rule == [at: Times, size: AllSizes]
Rules == UNION {[N -> Rule] : N \in SUBSET RuleNames}
NoRules == [n \in {} |-> n]

\* schedule_to_actions: a Start for each begin time, with the running size, and a
\* Stop for each end time, with 0-0-0.
RuleNamesOf(def) ==
    {<<p, "Start">> : p \in {q \in DOMAIN def : def[q].begin # None}}
        \union {<<p, "Stop">> : p \in {q \in DOMAIN def : def[q].end # None}}

Actions(def, running) ==
    [n \in RuleNamesOf(def) |->
        IF n[2] = "Start" THEN [at |-> def[n[1]].begin, size |-> running]
                          ELSE [at |-> def[n[1]].end, size |-> Zero]]

\* What a put of the rules of f leaves of the rules r: names are overwritten.
Overwrite(r, f) == [n \in DOMAIN r \union DOMAIN f |-> IF n \in DOMAIN f THEN f[n] ELSE r[n]]

Without(r, names) == Restrict(r, DOMAIN r \ names)

Fault(kind) ==
    /\ kind \in FaultKinds
    /\ faults < MaxFaults
    /\ faults' = faults + 1

\* A batch call about the given names: all of them succeed, or some fail, as do
\* the absent ones among those to be deleted.
BatchDelete(g, names, fault, ok, failed) ==
    \/ /\ names \subseteq DOMAIN rules[g]
       /\ rules' = [rules EXCEPT ![g] = Without(@, names)]
       /\ ok /\ UNCHANGED faults
    \/ /\ ~(names \subseteq DOMAIN rules[g])
       /\ rules' = [rules EXCEPT ![g] = Without(@, names)]
       /\ failed /\ UNCHANGED faults
    \/ \E done \in SUBSET names :
          /\ done # names
          /\ Fault(fault)
          /\ rules' = [rules EXCEPT ![g] = Without(@, done)]
          /\ failed

BatchPut(g, new, ok, failed) ==
    \/ /\ rules' = [rules EXCEPT ![g] = Overwrite(@, new)]
       /\ ok /\ UNCHANGED faults
    \/ \E done \in SUBSET DOMAIN new :
          /\ done # DOMAIN new
          /\ Fault("put")
          /\ rules' = [rules EXCEPT ![g] = Overwrite(@, Restrict(new, done))]
          /\ failed

-----------------------------------------------------------------------------
(* People and AutoScaling *)

EditSchedule(s, def) ==
    /\ <<definition[s], def>> \in Edits
    /\ definition' = [definition EXCEPT ![s] = def]
    /\ UNCHANGED <<groupVars, registry, requests, workerVars, tagVars, faults>>

RuleFires(g, n) ==
    /\ size' = [size EXCEPT ![g] = rules[g][n].size]
    /\ UNCHANGED <<definition, rules, tag, mdm, meta, registry, requests, workerVars, tagVars,
                   faults>>

UserResize(g, z) ==
    /\ size' = [size EXCEPT ![g] = z]
    /\ UNCHANGED <<definition, rules, tag, mdm, meta, registry, requests, workerVars, tagVars,
                   faults>>

UserWritesMdm(g, m) ==
    /\ mdm' = [mdm EXCEPT ![g] = m]
    /\ UNCHANGED <<definition, size, rules, tag, meta, registry, requests, workerVars, tagVars,
                   faults>>

UserTag(g, s) ==
    /\ s # tag[g]
    /\ tag' = [tag EXCEPT ![g] = s]
    /\ events' = events \union {g}
    /\ UNCHANGED <<definition, size, rules, mdm, meta, registry, requests, workerVars, registrar,
                   faults>>

\* The last day before a configuration's valid_until begins.
Expire(g) ==
    /\ registry[g] # None /\ registry[g].last # None
    /\ registry' = [registry EXCEPT ![g].last.valid = FALSE]
    /\ UNCHANGED <<definition, groupVars, requests, workerVars, tagVars, faults>>

-----------------------------------------------------------------------------
(* The orchestrator and the scheduling request handlers *)

Busy == {w \in Workers : pc[w] # "idle"}
Named == {s \in Schedules : definition[s] # None
                              /\ \E g \in Groups : registry[g] # None /\ registry[g].schedule = s}

View == UNION {[S -> Definitions] : S \in SUBSET Schedules}
Request == [view: View, attempt: 1..MaxAttempts]
NoRequest == [view |-> None, attempt |-> 0]
Sighting == [size: AllSizes, mdm: MdmTags]
NoCache == [g \in Groups |-> None]
Plan == [group: Groups, size: AllSizes, old: Record, new: Record, backup: Rules]
NoPlan == [group |-> None]

Dispatch ==
    /\ \E g \in Groups : registry[g] # None
    /\ Cardinality(requests) + Cardinality(Busy) < MaxRequests
    /\ requests' = requests \union {[view |-> [s \in Named |-> definition[s]], attempt |-> 1]}
    /\ UNCHANGED <<definition, groupVars, registry, workerVars, tagVars, faults>>

Preload(w, req) ==
    /\ pc[w] = "idle"
    /\ requests' = requests \ {req}
    /\ pc' = [pc EXCEPT ![w] = "describe"]
    /\ request' = [request EXCEPT ![w] = req]
    /\ cache' = [cache EXCEPT ![w] = registry]
    /\ UNCHANGED <<definition, groupVars, registry, seen, left, plan, tagVars, faults>>

Describe(w) ==
    /\ pc[w] = "describe"
    /\ seen' = [seen EXCEPT ![w] = [g \in Groups |-> [size |-> size[g], mdm |-> mdm[g]]]]
    /\ left' = [left EXCEPT ![w] = {g \in Groups : tag[g] # None}]
    /\ pc' = [pc EXCEPT ![w] = "next"]
    /\ UNCHANGED <<definition, groupVars, registry, requests, request, cache, plan, tagVars,
                   faults>>

Fetch(cached, g) == IF cached # None THEN cached ELSE registry[g]

\* Mutant of StillValid: the schedule is not compared.
StillValidAnySchedule(rec, z, def) ==
    rec.last # None /\ rec.last.valid /\ rec.last.size = z

\* schedule_asg when the size z is known: an unknown schedule leaves the record,
\* a valid configuration is confirmed, anything else is configured anew.
StillValid(rec, z, def) ==
    /\ rec.last # None
    /\ rec.last.valid /\ rec.last.size = z /\ rec.last.hash = def

Judge(w, g, rec, z) ==
    LET view == request[w].view
        def == view[rec.schedule]
        go(step, stored) ==
            /\ pc' = [pc EXCEPT ![w] = step]
            /\ plan' = [plan EXCEPT ![w] = [group |-> g, size |-> z, old |-> rec,
                                            new |-> [rec EXCEPT !.stored = stored],
                                            backup |-> NoRules]]
    IN  IF rec.schedule \notin DOMAIN view THEN go("record", rec.stored)
        ELSE IF StillValid(rec, z, def) THEN go("record", "configured")
        ELSE IF def \in Incompatible THEN go("record", "configuration_failed")
        ELSE go("rules", rec.stored)

\* Mutant of Wanted: the present size, whatever the tag says.
WantedPresent(sighting) == sighting.size

\* The size the group is to run at.
Wanted(sighting) == IF sighting.mdm = None THEN sighting.size ELSE sighting.mdm

\* The next group, in whatever order AutoScaling lists them; without a size tag
\* its present size is written into one.
Consider(w, g) ==
    LET rec == Fetch(cache[w][g], g)
        sighting == seen[w][g]
    IN  /\ pc[w] = "next" /\ g \in left[w]
        /\ left' = [left EXCEPT ![w] = @ \ {g}]
        /\ \/ rec = None /\ UNCHANGED <<mdm, pc, plan>>
           \/ /\ rec # None /\ sighting.mdm # Corrupt
              /\ mdm' = IF sighting.mdm = None THEN [mdm EXCEPT ![g] = sighting.size] ELSE mdm
              /\ Judge(w, g, rec, Wanted(sighting))
        /\ UNCHANGED <<definition, size, rules, tag, meta, registry, requests, request, cache,
                       seen, tagVars, faults>>

\* configure_scheduled_scaling_rules: back up, delete, put, and put back what
\* there was when the put fails.  A failed deletion is not rolled back.
DescribeRules(w) ==
    /\ pc[w] = "rules"
    /\ plan' = [plan EXCEPT ![w].backup = rules[plan[w].group]]
    /\ pc' = [pc EXCEPT ![w] = "delete"]
    /\ UNCHANGED <<definition, groupVars, registry, requests, request, cache, seen, left, tagVars,
                   faults>>

\* The next step of worker w, and the record that step leads to.
Goes(w, step, new) ==
    /\ pc' = [pc EXCEPT ![w] = step]
    /\ plan' = [plan EXCEPT ![w].new = new]

Configured(w) ==
    [plan[w].old EXCEPT !.stored = "configured",
        !.last = [size |-> plan[w].size, hash |-> request[w].view[plan[w].old.schedule],
                  valid |-> TRUE]]

\* Mutant of Failed: a failure is recorded as the new configuration.
FailedAsConfigured(w) == Configured(w)

\* Mutant of Failed: the name of the action is stored.
FailedNamesAction(w) == [plan[w].old EXCEPT !.stored = "configure"]

\* A failed batch: nothing but the state changes, the configuration stays.
Failed(w) == [plan[w].old EXCEPT !.stored = "configuration_failed"]

DeleteRules(w) ==
    /\ pc[w] = "delete"
    /\ BatchDelete(plan[w].group, DOMAIN plan[w].backup, "delete",
                   Goes(w, "put", plan[w].new), Goes(w, "record", Failed(w)))
    /\ UNCHANGED <<definition, size, tag, mdm, meta, registry, requests, request, cache, seen,
                   left, tagVars>>

PutRules(w) ==
    /\ pc[w] = "put"
    /\ BatchPut(plan[w].group,
                Actions(request[w].view[plan[w].old.schedule], plan[w].size),
                Goes(w, "record", Configured(w)), Goes(w, "rollback", Failed(w)))
    /\ UNCHANGED <<definition, size, tag, mdm, meta, registry, requests, request, cache, seen,
                   left, tagVars>>

Rollback(w) ==
    /\ pc[w] = "rollback"
    /\ BatchPut(plan[w].group, plan[w].backup,
                Goes(w, "record", plan[w].new), Goes(w, "record", plan[w].new))
    /\ UNCHANGED <<definition, size, tag, mdm, meta, registry, requests, request, cache, seen,
                   left, tagVars>>

PutRecord(w) ==
    LET p == plan[w]
    IN  /\ pc[w] = "record"
        /\ registry' = IF p.new = p.old THEN registry ELSE [registry EXCEPT ![p.group] = p.new]
        /\ pc' = [pc EXCEPT ![w] = "next"]
        /\ plan' = [plan EXCEPT ![w] = NoPlan]
        /\ UNCHANGED <<definition, groupVars, requests, request, cache, seen, left, tagVars,
                       faults>>

\* The handler is over: back to what it was before its request.
Reset(w) ==
    /\ pc' = [pc EXCEPT ![w] = "idle"]
    /\ request' = [request EXCEPT ![w] = NoRequest]
    /\ cache' = [cache EXCEPT ![w] = NoCache]
    /\ seen' = [seen EXCEPT ![w] = NoCache]
    /\ left' = [left EXCEPT ![w] = {}]
    /\ plan' = [plan EXCEPT ![w] = NoPlan]

Finish(w) ==
    /\ pc[w] = "next" /\ left[w] = {}
    /\ Reset(w)
    /\ UNCHANGED <<definition, groupVars, registry, requests, tagVars, faults>>

\* An exception or a time-out: the request is handled again while it has attempts.
Retry(w) ==
    /\ Reset(w)
    /\ requests' = IF request[w].attempt < MaxAttempts
                      THEN requests \union {[request[w] EXCEPT !.attempt = @ + 1]}
                      ELSE requests
    /\ UNCHANGED <<definition, groupVars, registry, tagVars>>

\* from_mdm_str raises, or the call that writes the tag does: the groups still
\* to come are not reached.
Abort(w, g) ==
    /\ pc[w] = "next" /\ g \in left[w] /\ Fetch(cache[w][g], g) # None
    /\ \/ seen[w][g].mdm = Corrupt /\ UNCHANGED faults
       \/ seen[w][g].mdm = None /\ Fault("tag")
    /\ Retry(w)

Crash(w) == pc[w] # "idle" /\ Fault("crash") /\ Retry(w)

-----------------------------------------------------------------------------
(* The registration handler *)

Registration == [step: {"migrate", "unmigrate", "register", "size", "clean", "deregister"},
                 group: Groups, schedule: Schedules \union {None},
                 size: AllSizes, mdm: MdmTags, meta: AllSizes \union {None},
                 backup: SUBSET RuleNames]
NoRegistration == [step |-> "idle"]

RegistrarTo(step) == registrar' = [registrar EXCEPT !.step = step]

\* The group is described for every event, of a creation or a deletion, and its
\* tag decides: with one it is migrated if need be and registered, without one its
\* record, if there is one, is removed.
Receive(g) ==
    /\ registrar = NoRegistration
    /\ \/ events' = events \ {g} /\ UNCHANGED faults
       \/ Fault("duplicate") /\ UNCHANGED events
    /\ registrar' =
         IF tag[g] = None /\ registry[g] = None THEN NoRegistration
         ELSE [step |-> IF tag[g] = None THEN "clean"
                        ELSE IF meta[g] # None THEN "migrate" ELSE "register",
               group |-> g, schedule |-> tag[g], size |-> size[g], mdm |-> mdm[g],
               meta |-> meta[g], backup |-> DOMAIN rules[g]]
    /\ UNCHANGED <<definition, groupVars, registry, requests, workerVars>>

\* Mutant of Migrate: the size that the group has now, not the one in the tag.
MigratePresentSize ==
    /\ registrar.step = "migrate"
    /\ mdm' = [mdm EXCEPT ![registrar.group] = registrar.size]
    /\ RegistrarTo("unmigrate")
    /\ UNCHANGED <<definition, size, rules, tag, meta, registry, requests, workerVars, events,
                   faults>>

\* migrate_asg: the size in the old tag goes to IS-MinDesiredMax, then the old
\* tag goes.
Migrate ==
    /\ registrar.step = "migrate"
    /\ mdm' = [mdm EXCEPT ![registrar.group] = registrar.meta]
    /\ RegistrarTo("unmigrate")
    /\ UNCHANGED <<definition, size, rules, tag, meta, registry, requests, workerVars, events,
                   faults>>

Unmigrate ==
    /\ registrar.step = "unmigrate"
    /\ meta' = [meta EXCEPT ![registrar.group] = None]
    /\ RegistrarTo("register")
    /\ UNCHANGED <<definition, size, rules, tag, mdm, registry, requests, workerVars, events,
                   faults>>

\* The record is overwritten.  What describe reported, before any migration,
\* decides whether the tag with the group's size is to be written.
Register ==
    LET def == definition[registrar.schedule]
        sized == InfoTagging /\ def # None /\ def \notin Incompatible /\ registrar.mdm = None
    IN  /\ registrar.step = "register"
        /\ registry' = [registry EXCEPT ![registrar.group] =
                           [schedule |-> registrar.schedule, stored |-> "unknown",
                            last |-> None]]
        /\ IF sized THEN RegistrarTo("size") ELSE registrar' = NoRegistration
        /\ UNCHANGED <<definition, groupVars, requests, workerVars, events, faults>>

\* InfoTaggingContext.flush swallows a failure.
WriteSize ==
    /\ registrar.step = "size"
    /\ \/ mdm' = [mdm EXCEPT ![registrar.group] = registrar.size] /\ UNCHANGED faults
       \/ Fault("tag") /\ UNCHANGED mdm
    /\ registrar' = NoRegistration
    /\ UNCHANGED <<definition, size, rules, tag, meta, registry, requests, workerVars, events>>

\* delete_existing_scheduled_actions reports a failure to nobody.
Clean ==
    /\ registrar.step = "clean"
    /\ BatchDelete(registrar.group, registrar.backup, "clean",
                   RegistrarTo("deregister"), RegistrarTo("deregister"))
    /\ UNCHANGED <<definition, size, tag, mdm, meta, registry, requests, workerVars, events>>

\* Mutant of Deregister: the record stays.
DeregisterForgets ==
    /\ registrar.step = "deregister"
    /\ registrar' = NoRegistration
    /\ UNCHANGED <<definition, groupVars, registry, requests, workerVars, events, faults>>

Deregister ==
    /\ registrar.step = "deregister"
    /\ registry' = [registry EXCEPT ![registrar.group] = None]
    /\ registrar' = NoRegistration
    /\ UNCHANGED <<definition, groupVars, requests, workerVars, events, faults>>

RegistrarCrash ==
    /\ registrar # NoRegistration
    /\ Fault("registrar")
    /\ events' = events \union {registrar.group}
    /\ registrar' = NoRegistration
    /\ UNCHANGED <<definition, groupVars, registry, requests, workerVars>>

-----------------------------------------------------------------------------
(* The specification *)

\* Tagged groups are registered, but for those that version 3.0 left a metadata
\* tag on: the upgrade sends an event for each of these.
Init ==
    /\ definition = DefinedAtStart
    /\ size \in [Groups -> SizesAtStart]
    /\ rules = [g \in Groups |-> NoRules]
    /\ tag = TagAtStart
    /\ mdm = [g \in Groups |-> None]
    /\ meta = MetaAtStart
    /\ registry = [g \in Groups |->
                     IF TagAtStart[g] = None \/ MetaAtStart[g] # None THEN None
                     ELSE [schedule |-> TagAtStart[g], stored |-> "unknown", last |-> None]]
    /\ requests = {}
    /\ pc = [w \in Workers |-> "idle"]
    /\ request = [w \in Workers |-> NoRequest]
    /\ cache = [w \in Workers |-> NoCache]
    /\ seen = [w \in Workers |-> NoCache]
    /\ left = [w \in Workers |-> {}]
    /\ plan = [w \in Workers |-> NoPlan]
    /\ events = {g \in Groups : TagAtStart[g] # None /\ MetaAtStart[g] # None}
    /\ registrar = NoRegistration
    /\ faults = 0

Environment ==
    \/ \E s \in Schedules, def \in Definitions \union {None} : EditSchedule(s, def)
    \/ \E g \in Groups : \E n \in DOMAIN rules[g] : RuleFires(g, n)
    \/ \E g \in Groups, z \in SizeChoices : UserResize(g, z)
    \/ \E g \in Groups, m \in MdmChoices : UserWritesMdm(g, m)
    \/ \E g \in Groups, s \in TagChoices : UserTag(g, s)
    \/ \E g \in Groups : Expire(g)

RegistrarStep ==
    Migrate \/ Unmigrate \/ Register \/ WriteSize \/ Clean \/ Deregister

HandleEvent(g) == g \in events /\ Receive(g)

WorkerStep(w) ==
    \/ \E req \in requests : Preload(w, req)
    \/ Describe(w)
    \/ \E g \in Groups : Consider(w, g) \/ Abort(w, g)
    \/ DescribeRules(w) \/ DeleteRules(w) \/ PutRules(w) \/ Rollback(w) \/ PutRecord(w)
    \/ Finish(w)

Next ==
    \/ Environment
    \/ RegistrarStep \/ RegistrarCrash
    \/ \E g \in Groups : HandleEvent(g)
    \/ Dispatch
    \/ \E w \in Workers : WorkerStep(w) \/ Crash(w)

Spec == Init /\ [][Next]_vars

\* EventBridge fires every interval and delivers every event, Lambda runs what is
\* queued.  No rule has to fire and nobody has to do anything.
Fairness ==
    /\ WF_vars(RegistrarStep)
    /\ \A g \in Groups : SF_vars(HandleEvent(g))
    /\ WF_vars(Dispatch)
    /\ \A w \in Workers : WF_vars(WorkerStep(w))

FairSpec == Spec /\ Fairness

-----------------------------------------------------------------------------
(* Properties *)

\* Every variable has its type.
TypeOK ==
    /\ definition \in [Schedules -> Definitions \union {None}]
    /\ size \in [Groups -> AllSizes]
    /\ rules \in [Groups -> Rules]
    /\ tag \in [Groups -> Schedules \union {None}]
    /\ mdm \in [Groups -> MdmTags]
    /\ meta \in [Groups -> AllSizes \union {None}]
    /\ registry \in [Groups -> Record \union {None}]
    /\ requests \subseteq Request
    /\ pc \in [Workers -> {"idle", "describe", "next", "rules", "delete", "put", "rollback",
                           "record"}]
    /\ request \in [Workers -> Request \union {NoRequest}]
    /\ cache \in [Workers -> [Groups -> Record \union {None}]]
    /\ seen \in [Workers -> [Groups -> Sighting \union {None}]]
    /\ left \in [Workers -> SUBSET Groups]
    /\ plan \in [Workers -> Plan \union {NoPlan}]
    /\ events \subseteq Groups
    /\ registrar \in Registration \union {NoRegistration}
    /\ faults \in Nat

InHand(g) == \E w \in Workers : plan[w] # NoPlan /\ plan[w].group = g

\* A group whose record says configured has the rules of the configuration in the
\* record, neither fewer nor others, whenever no handler is at work on it: that is
\* what lets later cycles leave the group alone for a month.
ConfiguredIsInstalled ==
    \A g \in Groups :
        registry[g] # None /\ registry[g].stored = "configured" /\ ~InHand(g)
            => rules[g] = Actions(registry[g].last.hash, registry[g].last.size)

\* A change of the tag of group g is still to be handled, or being handled.
Changing(g) == g \in events \/ (registrar # NoRegistration /\ registrar.group = g)

\* No cycle is under way while the tag of group g changes.
Undisturbed(g) == Changing(g) => \A w \in Workers : pc[w] = "idle"

\* When schedule, tag and size settle, the group ends up with the schedule's
\* rules for that size whenever no handler is rewriting them, although batches fail
\* in part, handlers die between two calls and configurations expire on the way, as
\* long as no cycle runs between a change of the tag and the end of its registration.
RulesFollowSchedule ==
    \A g \in Groups, s \in Schedules, def \in Definitions \ Incompatible, z \in AllSizes :
        /\ []Undisturbed(g)
        /\ <>[](tag[g] = s /\ definition[s] = def /\ mdm[g] = z /\ \A h \in Groups : mdm[h] # Corrupt)
        => <>[](~InHand(g) => rules[g] = Actions(def, z))

\* The scheduler never takes its own stop for the size to run at: while nobody
\* resizes a group that was running when it was tagged, its Start rules carry a
\* size other than 0-0-0, though its Stop rule may have fired at any time.
StartIsNeverStop ==
    \A g \in Groups : \A n \in DOMAIN rules[g] :
        n[2] = "Start" => rules[g][n].size # Zero

\* A group that version 3.0 left is registered with the size of its metadata tag,
\* not with the size it happened to have at the upgrade, unless people write another.
MigrationKeepsSize ==
    \A g \in Groups :
        MetaAtStart[g] # None /\ registry[g] # None /\ registrar = NoRegistration
            => mdm[g] \in {MetaAtStart[g]} \union MdmChoices

\* When a group stays untagged, no record and no rule of the solution stays behind,
\* although events are lost with a dying handler or come twice, as long as no cycle
\* runs between a change of the tag and the end of its registration.
UntaggedIsClean ==
    \A g \in Groups :
        []Undisturbed(g) /\ <>[](tag[g] = None) => <>[](registry[g] = None /\ rules[g] = NoRules)
=============================================================================
