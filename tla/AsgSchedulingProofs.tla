------------------------- MODULE AsgSchedulingProofs -------------------------
(***************************************************************************)
(* Proofs about AsgScheduling, for any groups, schedules, definitions and  *)
(* periods. What holds of a step or of a record's past is proved for any   *)
(* workers and faults, overlapping cycles and deaths included. Two results *)
(* need less of both, and the hypotheses that say so are named:            *)
(* MigrationSafe is about a lone group (LoneGroup), InstalledSafe about    *)
(* cycles that run one at a time, to the end, under schedules that are not *)
(* edited back (Serial, Steady, Forward).                                  *)
(***************************************************************************)
EXTENDS AsgScheduling, FiniteSetTheorems, TLAPS

\* Steps of a worker that is changing a group's scheduled actions.
Changes == {"rules", "delete", "put", "rollback"}

\* A worker that is busy holds a request, one that is past describe has seen every
\* group, and one at work on a group knows the group's record and, while it changes
\* the group, the schedule of that record.
Handling ==
    \A w \in Workers :
        /\ pc[w] # "idle" => request[w] \in Request
        /\ pc[w] \notin {"idle", "describe"} => seen[w] \in [Groups -> Sighting]
        /\ pc[w] \in Changes \union {"record"} => plan[w] \in Plan
        /\ pc[w] \in Changes => plan[w].old.schedule \in DOMAIN request[w].view

\* The registration handler registers under a schedule and migrates a size.
Registering ==
    /\ registrar.step \in {"migrate", "unmigrate", "register"} => registrar.schedule \in Schedules
    /\ registrar.step = "migrate" => registrar.meta \in AllSizes

TypeInv == TypeOK /\ Handling /\ Registering

-----------------------------------------------------------------------------
(* Lemmas about the operators *)

\* schedule_to_actions makes scheduled actions of any definition.
LEMMA ActionsType ==
    ASSUME NEW def \in Definitions, NEW z \in AllSizes
    PROVE  Actions(def, z) \in Rules
<1>1. PICK P \in SUBSET Periods : def \in [P -> [begin: Times \union {None},
                                                 end: Times \union {None}]]
  BY AsgAssumption DEF Definition
<1>2. RuleNamesOf(def) \subseteq RuleNames
  BY <1>1 DEF RuleNamesOf, RuleNames
<1>3. ASSUME NEW n \in RuleNamesOf(def)
      PROVE  (IF n[2] = "Start" THEN [at |-> def[n[1]].begin, size |-> z]
                                ELSE [at |-> def[n[1]].end, size |-> Zero]) \in Rule
  <2>1. CASE n \in {<<p, "Start">> : p \in {q \in DOMAIN def : def[q].begin # None}}
    <3>1. PICK p \in DOMAIN def : def[p].begin # None /\ n = <<p, "Start">>
      BY <2>1
    <3>2. def[p].begin \in Times
      BY <1>1, <3>1
    <3>3. QED
      BY <3>1, <3>2 DEF Rule
  <2>2. CASE n \in {<<p, "Stop">> : p \in {q \in DOMAIN def : def[q].end # None}}
    <3>1. PICK p \in DOMAIN def : def[p].end # None /\ n = <<p, "Stop">>
      BY <2>2
    <3>2. def[p].end \in Times
      BY <1>1, <3>1
    <3>3. QED
      BY <3>1, <3>2 DEF Rule, AllSizes
  <2>3. QED
    BY <2>1, <2>2 DEF RuleNamesOf
<1>4. Actions(def, z) \in [RuleNamesOf(def) -> Rule]
  BY <1>3 DEF Actions
<1>5. QED
  BY <1>2, <1>4 DEF Rules

\* What puts and deletions leave of a group's scheduled actions are scheduled actions.
LEMMA RulesType ==
    ASSUME NEW r \in Rules
    PROVE  /\ DOMAIN r \subseteq RuleNames
           /\ \A f \in Rules : Overwrite(r, f) \in Rules
           /\ \A names : Without(r, names) \in Rules
           /\ \A S \in SUBSET DOMAIN r : Restrict(r, S) \in Rules
<1>1. PICK N \in SUBSET RuleNames : r \in [N -> Rule]
  BY DEF Rules
<1>2. ASSUME NEW f \in Rules PROVE Overwrite(r, f) \in Rules
  <2>1. PICK M \in SUBSET RuleNames : f \in [M -> Rule]
    BY DEF Rules
  <2>2. Overwrite(r, f) \in [N \union M -> Rule]
    BY <1>1, <2>1 DEF Overwrite
  <2>3. QED
    BY <2>2 DEF Rules
<1>3. ASSUME NEW S, S \subseteq N PROVE Restrict(r, S) \in Rules
  <2>1. Restrict(r, S) \in [S -> Rule]
    BY <1>1, <1>3 DEF Restrict
  <2>2. QED
    BY <1>3, <2>1 DEF Rules
<1>4. QED
  BY <1>1, <1>2, <1>3 DEF Without

\* Calls that delete and put rules, whether they succeed or fail in part.
LEMMA BatchTypes ==
    ASSUME rules \in [Groups -> Rules], faults \in Nat, NEW g \in Groups,
           \/ \E names, fault : BatchDelete(g, names, fault, TRUE, TRUE)
           \/ \E new \in Rules : BatchPut(g, new, TRUE, TRUE)
    PROVE  rules' \in [Groups -> Rules] /\ faults' \in Nat
<1>1. faults' \in Nat
  BY DEF BatchDelete, BatchPut, Fault
<1>2. ASSUME NEW names, NEW fault, BatchDelete(g, names, fault, TRUE, TRUE) PROVE rules' \in [Groups -> Rules]
  BY <1>2, RulesType DEF BatchDelete
<1>3. ASSUME NEW new \in Rules, BatchPut(g, new, TRUE, TRUE) PROVE rules' \in [Groups -> Rules]
  <2>1. PICK f \in Rules : rules' = [rules EXCEPT ![g] = Overwrite(rules[g], f)]
    BY <1>3, RulesType DEF BatchPut
  <2>2. Overwrite(rules[g], f) \in Rules
    BY <2>1, RulesType
  <2>3. QED
    BY <2>1, <2>2
<1>4. QED
  BY <1>1, <1>2, <1>3

\* A cached or fetched record is a record, if there is one.
LEMMA FetchType ==
    ASSUME TypeOK, NEW g \in Groups, NEW cached \in Record \union {None}
    PROVE  Fetch(cached, g) \in Record \union {None}
BY DEF Fetch, TypeOK

-----------------------------------------------------------------------------
(* Every step keeps the types *)

\* People and AutoScaling.
LEMMA EnvironmentTypes == TypeInv /\ Environment => TypeInv'
<1> SUFFICES ASSUME TypeInv, Environment PROVE TypeInv'
  OBVIOUS
<1> USE DEF TypeInv, TypeOK, groupVars, workerVars, tagVars, Handling, Registering
<1>1. ASSUME NEW s \in Schedules, NEW def \in Definitions \union {None}, EditSchedule(s, def)
      PROVE  TypeInv'
  BY <1>1 DEF EditSchedule
<1>2. ASSUME NEW g \in Groups, NEW n \in DOMAIN rules[g], RuleFires(g, n) PROVE TypeInv'
  <2>1. rules[g][n].size \in AllSizes
    BY <1>2 DEF Rules, Rule
  <2>2. QED
    BY <1>2, <2>1 DEF RuleFires
<1>3. ASSUME NEW g \in Groups, NEW z \in SizeChoices, UserResize(g, z) PROVE TypeInv'
  BY <1>3, AsgAssumption DEF UserResize
<1>4. ASSUME NEW g \in Groups, NEW m \in MdmChoices, UserWritesMdm(g, m) PROVE TypeInv'
  BY <1>4, AsgAssumption DEF UserWritesMdm
<1>5. ASSUME NEW g \in Groups, NEW s \in TagChoices, UserTag(g, s) PROVE TypeInv'
  BY <1>5, AsgAssumption DEF UserTag
<1>6. ASSUME NEW g \in Groups, Expire(g) PROVE TypeInv'
  <2>1. registry[g] \in Record /\ registry[g].last \in Configuration
    BY <1>6 DEF Expire, Record
  <2>2. [registry[g].last EXCEPT !.valid = FALSE] \in Configuration
    BY <2>1 DEF Configuration
  <2>3. [registry[g] EXCEPT !.last = [registry[g].last EXCEPT !.valid = FALSE]] \in Record
    BY <2>1, <2>2 DEF Record
  <2>4. registry' = [registry EXCEPT ![g] =
                       [registry[g] EXCEPT !.last = [registry[g].last EXCEPT !.valid = FALSE]]]
    BY <1>6 DEF Expire
  <2>5. registry' \in [Groups -> Record \union {None}]
    BY <2>3, <2>4
  <2>6. QED
    BY <1>6, <2>5 DEF Expire
<1>7. QED
  BY <1>1, <1>2, <1>3, <1>4, <1>5, <1>6 DEF Environment

\* The registration handler goes on to another step and changes nothing else it knows.
LEMMA NextStep ==
    ASSUME registrar \in Registration,
           NEW step \in {"unmigrate", "register", "size", "deregister"},
           RegistrarTo(step),
           step \in {"unmigrate", "register"} => registrar.schedule \in Schedules
    PROVE  registrar' \in Registration /\ Registering'
<1>1. registrar' = [registrar EXCEPT !.step = step]
  BY DEF RegistrarTo
<1>2. registrar' \in Registration /\ registrar'.step = step
      /\ registrar'.schedule = registrar.schedule
  BY <1>1 DEF Registration
<1>3. QED
  BY <1>2 DEF Registering

\* The registration handler.
LEMMA RegistrarTypes ==
    ASSUME TypeInv, RegistrarStep \/ RegistrarCrash \/ \E g \in Groups : HandleEvent(g)
    PROVE  TypeInv'
<1> USE DEF TypeInv, TypeOK, groupVars, workerVars, tagVars, Handling, Registering
<1>1. ASSUME NEW g \in Groups, Receive(g) PROVE TypeInv'
  <2> DEFINE step == IF tag[g] = None THEN "clean"
                     ELSE IF meta[g] # None THEN "migrate" ELSE "register"
             new == [step |-> step, group |-> g, schedule |-> tag[g], size |-> size[g],
                     mdm |-> mdm[g], meta |-> meta[g], backup |-> DOMAIN rules[g]]
  <2>1. DOMAIN rules[g] \subseteq RuleNames
    BY RulesType
  <2>2. step \in {"clean", "migrate", "register"}
    OBVIOUS
  <2>3. new \in Registration
    BY <2>1, <2>2 DEF Registration
  <2>4. registrar' = new \/ registrar' = NoRegistration
    BY <1>1 DEF Receive
  <2>5. registrar' = new => Registering'
    BY AsgAssumption
  <2>6. registrar' = NoRegistration => Registering'
    BY DEF NoRegistration
  <2>7. events' \subseteq Groups /\ faults' \in Nat
    BY <1>1 DEF Receive, Fault
  <2>8. QED
    BY <1>1, <2>3, <2>4, <2>5, <2>6, <2>7 DEF Receive
<1>2. CASE Migrate
  <2>1. registrar \in Registration /\ registrar.meta \in MdmTags
    BY <1>2 DEF Migrate, NoRegistration, MdmTags
  <2>2. registrar' \in Registration /\ Registering'
    BY <1>2, <2>1, NextStep DEF Migrate
  <2>3. mdm' \in [Groups -> MdmTags]
    BY <1>2, <2>1 DEF Migrate
  <2>4. QED
    BY <1>2, <2>2, <2>3 DEF Migrate
<1>3. CASE Unmigrate
  <2>1. registrar \in Registration
    BY <1>3 DEF Unmigrate, NoRegistration
  <2>2. registrar' \in Registration /\ Registering'
    BY <1>3, <2>1, NextStep DEF Unmigrate
  <2>3. meta' \in [Groups -> AllSizes \union {None}]
    BY <1>3 DEF Unmigrate
  <2>4. QED
    BY <1>3, <2>2, <2>3 DEF Unmigrate
<1>4. CASE Register
  <2>1. registrar \in Registration
    BY <1>4 DEF Register, NoRegistration
  <2>2. [schedule |-> registrar.schedule, stored |-> "unknown", last |-> None] \in Record
    BY <1>4 DEF Register, Record, AsgStates
  <2>3. registry' \in [Groups -> Record \union {None}]
    BY <1>4, <2>2 DEF Register
  <2>4. registrar' \in Registration \union {NoRegistration} /\ Registering'
    <3>1. CASE RegistrarTo("size")
      BY <2>1, <3>1, NextStep
    <3>2. CASE registrar' = NoRegistration
      BY <3>2 DEF NoRegistration
    <3>3. QED
      BY <1>4, <3>1, <3>2 DEF Register
  <2>5. QED
    BY <1>4, <2>3, <2>4 DEF Register
<1>5. CASE WriteSize
  <2>1. registrar \in Registration
    BY <1>5 DEF WriteSize, NoRegistration
  <2>2. mdm' \in [Groups -> MdmTags] /\ faults' \in Nat
    BY <1>5, <2>1 DEF WriteSize, Registration, MdmTags, Fault
  <2>3. QED
    BY <1>5, <2>2 DEF WriteSize, NoRegistration
<1>6. CASE Clean
  <2>1. registrar \in Registration
    BY <1>6 DEF Clean, NoRegistration
  <2>2. rules' \in [Groups -> Rules] /\ faults' \in Nat
    <3>1. BatchDelete(registrar.group, registrar.backup, "clean", TRUE, TRUE)
      BY <1>6 DEF Clean, BatchDelete
    <3>2. registrar.group \in Groups
      BY <2>1 DEF Registration
    <3>3. QED
      BY <3>1, <3>2, BatchTypes
  <2>3. RegistrarTo("deregister")
    BY <1>6 DEF Clean, BatchDelete
  <2>4. registrar' \in Registration /\ Registering'
    BY <2>1, <2>3, NextStep
  <2>5. UNCHANGED <<definition, size, tag, mdm, meta, registry, requests, workerVars, events>>
    BY <1>6 DEF Clean
  <2>6. Handling'
    BY <2>5
  <2>7. QED
    BY <2>2, <2>4, <2>5, <2>6
<1>7. CASE Deregister
  BY <1>7 DEF Deregister, NoRegistration
<1>8. CASE RegistrarCrash
  <2>1. registrar \in Registration
    BY <1>8 DEF RegistrarCrash
  <2>2. events' \subseteq Groups /\ faults' \in Nat
    BY <1>8, <2>1 DEF RegistrarCrash, Registration, Fault
  <2>3. QED
    BY <1>8, <2>2 DEF RegistrarCrash, NoRegistration
<1>9. QED
  BY <1>1, <1>2, <1>3, <1>4, <1>5, <1>6, <1>7, <1>8 DEF RegistrarStep, HandleEvent

\* What a worker at work on a group becomes.
LEMMA GoesTypes ==
    ASSUME TypeInv, NEW w \in Workers, plan[w] \in Plan,
           NEW step \in {"put", "record", "rollback"}, NEW new \in Record,
           Goes(w, step, new),
           step # "record" => plan[w].old.schedule \in DOMAIN request[w].view
    PROVE  /\ pc' = [pc EXCEPT ![w] = step]
           /\ plan' \in [Workers -> Plan \union {NoPlan}]
           /\ plan'[w] \in Plan /\ plan'[w].old = plan[w].old
           /\ \A v \in Workers : v # w => plan'[v] = plan[v]
<1>1. plan' = [plan EXCEPT ![w] = [plan[w] EXCEPT !.new = new]]
  BY DEF Goes
<1>2. [plan[w] EXCEPT !.new = new] \in Plan /\ [plan[w] EXCEPT !.new = new].old = plan[w].old
  BY DEF Plan
<1>3. QED
  BY <1>1, <1>2 DEF Goes, TypeInv, TypeOK

\* The records a change of a group's rules may lead to.
LEMMA NewRecords ==
    ASSUME TypeInv, NEW w \in Workers, pc[w] \in Changes
    PROVE  /\ Failed(w) \in Record /\ Configured(w) \in Record
           /\ request[w].view[plan[w].old.schedule] \in Definitions
<1>1. plan[w] \in Plan /\ plan[w].old \in Record /\ plan[w].size \in AllSizes
  BY DEF TypeInv, Handling, Plan
<1>2. Failed(w) \in Record
  BY <1>1 DEF Failed, Record, AsgStates
<1>3. request[w].view[plan[w].old.schedule] \in Definitions
  <2>1. request[w].view \in View
    BY DEF TypeInv, TypeOK, Handling, Request, Changes
  <2>2. QED
    BY <2>1 DEF View, TypeInv, Handling
<1>4. [size |-> plan[w].size, hash |-> request[w].view[plan[w].old.schedule], valid |-> TRUE]
         \in Configuration
  BY <1>1, <1>3 DEF Configuration
<1>5. Configured(w) \in Record
  BY <1>1, <1>4 DEF Configured, Record, AsgStates
<1>6. QED
  BY <1>2, <1>3, <1>5

\* The calls that change the rules of a group.
LEMMA ChangeTypes ==
    ASSUME TypeInv, NEW w \in Workers,
           DescribeRules(w) \/ DeleteRules(w) \/ PutRules(w) \/ Rollback(w)
    PROVE  TypeInv'
<1> USE DEF TypeInv, TypeOK, groupVars, workerVars, tagVars, Handling
<1>0. pc[w] \in Changes /\ plan[w] \in Plan /\ plan[w].group \in Groups
      /\ plan[w].new \in Record /\ plan[w].backup \in Rules /\ plan[w].size \in AllSizes
      /\ plan[w].old.schedule \in DOMAIN request[w].view
  BY DEF DescribeRules, DeleteRules, PutRules, Rollback, Changes, Plan
<1>1. CASE DescribeRules(w)
  <2>1. [plan[w] EXCEPT !.backup = rules[plan[w].group]] \in Plan
        /\ [plan[w] EXCEPT !.backup = rules[plan[w].group]].old = plan[w].old
    BY <1>0 DEF Plan
  <2>2. plan' = [plan EXCEPT ![w] = [plan[w] EXCEPT !.backup = rules[plan[w].group]]]
    BY <1>1 DEF DescribeRules
  <2>3. QED
    BY <1>0, <1>1, <2>1, <2>2 DEF DescribeRules, Changes, Registering
<1>2. ASSUME rules' \in [Groups -> Rules], faults' \in Nat,
             \E step \in {"put", "record", "rollback"}, new \in Record : Goes(w, step, new),
             UNCHANGED <<definition, size, tag, mdm, meta, registry, requests, request, cache,
                         seen, left, tagVars>>
      PROVE  TypeInv'
  <2>1. PICK step \in {"put", "record", "rollback"}, new \in Record : Goes(w, step, new)
    BY <1>2
  <2>2. /\ pc' = [pc EXCEPT ![w] = step]
        /\ plan' \in [Workers -> Plan \union {NoPlan}]
        /\ plan'[w] \in Plan /\ plan'[w].old = plan[w].old
        /\ \A v \in Workers : v # w => plan'[v] = plan[v]
    BY <1>0, <2>1, GoesTypes
  <2>3. Handling'
    BY <1>0, <1>2, <2>2 DEF Changes
  <2>4. QED
    BY <1>2, <2>2, <2>3 DEF Registering
<1>3. CASE DeleteRules(w)
  <2>1. rules' \in [Groups -> Rules] /\ faults' \in Nat
    <3>1. BatchDelete(plan[w].group, DOMAIN plan[w].backup, "delete", TRUE, TRUE)
      BY <1>3 DEF DeleteRules, BatchDelete
    <3>2. QED
      BY <1>0, <3>1, BatchTypes
  <2>2. Goes(w, "put", plan[w].new) \/ Goes(w, "record", Failed(w))
    BY <1>3 DEF DeleteRules, BatchDelete
  <2>3. UNCHANGED <<definition, size, tag, mdm, meta, registry, requests, request, cache, seen,
                    left, tagVars>>
    BY <1>3 DEF DeleteRules
  <2>4. QED
    BY <1>0, <1>2, <2>1, <2>2, <2>3, NewRecords
<1>4. CASE PutRules(w)
  <2>1. Actions(request[w].view[plan[w].old.schedule], plan[w].size) \in Rules
    BY <1>0, NewRecords, ActionsType
  <2>2. rules' \in [Groups -> Rules] /\ faults' \in Nat
    <3>1. BatchPut(plan[w].group, Actions(request[w].view[plan[w].old.schedule], plan[w].size),
                   TRUE, TRUE)
      BY <1>4 DEF PutRules, BatchPut
    <3>2. QED
      BY <1>0, <2>1, <3>1, BatchTypes
  <2>3. Goes(w, "record", Configured(w)) \/ Goes(w, "rollback", Failed(w))
    BY <1>4 DEF PutRules, BatchPut
  <2>4. UNCHANGED <<definition, size, tag, mdm, meta, registry, requests, request, cache, seen,
                    left, tagVars>>
    BY <1>4 DEF PutRules
  <2>5. QED
    BY <1>0, <1>2, <2>2, <2>3, <2>4, NewRecords
<1>5. CASE Rollback(w)
  <2>1. rules' \in [Groups -> Rules] /\ faults' \in Nat
    <3>1. BatchPut(plan[w].group, plan[w].backup, TRUE, TRUE)
      BY <1>5 DEF Rollback, BatchPut
    <3>2. QED
      BY <1>0, <3>1, BatchTypes
  <2>2. Goes(w, "record", plan[w].new)
    BY <1>5 DEF Rollback, BatchPut
  <2>3. UNCHANGED <<definition, size, tag, mdm, meta, registry, requests, request, cache, seen,
                    left, tagVars>>
    BY <1>5 DEF Rollback
  <2>4. QED
    BY <1>0, <1>2, <2>1, <2>2, <2>3
<1>6. QED
  BY <1>1, <1>3, <1>4, <1>5

\* Judging a group gives its worker a plan whose schedule the request carries.
LEMMA JudgeTypes ==
    ASSUME TypeInv, NEW w \in Workers, NEW g \in Groups, NEW rec \in Record,
           NEW z \in AllSizes, request[w] \in Request, Judge(w, g, rec, z)
    PROVE  \E step \in {"record", "rules"} :
              /\ pc' = [pc EXCEPT ![w] = step]
              /\ plan' \in [Workers -> Plan \union {NoPlan}]
              /\ plan'[w] \in Plan
              /\ step = "rules" => plan'[w].old.schedule \in DOMAIN request[w].view
              /\ \A v \in Workers : v # w => plan'[v] = plan[v]
<1> DEFINE p(stored) == [group |-> g, size |-> z, old |-> rec,
                         new |-> [rec EXCEPT !.stored = stored], backup |-> NoRules]
<1>1. NoRules \in Rules
  BY DEF NoRules, Rules
<1>2. ASSUME NEW stored \in AsgStates PROVE p(stored) \in Plan /\ p(stored).old = rec
  <2>1. [rec EXCEPT !.stored = stored] \in Record
    BY DEF Record
  <2>2. QED
    BY <1>1, <2>1 DEF Plan
<1>3. rec.stored \in AsgStates /\ "configured" \in AsgStates
      /\ "configuration_failed" \in AsgStates
  BY DEF Record, AsgStates
<1>4. PICK step \in {"record", "rules"}, stored \in AsgStates :
         /\ pc' = [pc EXCEPT ![w] = step] /\ plan' = [plan EXCEPT ![w] = p(stored)]
         /\ step = "rules" => rec.schedule \in DOMAIN request[w].view
  BY <1>3 DEF Judge
<1> HIDE DEF p
<1>5. QED
  BY <1>2, <1>4 DEF TypeInv, TypeOK

\* The other steps of a cycle.
LEMMA CycleTypes ==
    ASSUME TypeInv, NEW w \in Workers, WorkerStep(w) \/ Crash(w)
    PROVE  TypeInv'
<1> USE DEF TypeInv, TypeOK, groupVars, workerVars, tagVars, Handling
<1>1. ASSUME NEW req \in requests, Preload(w, req) PROVE TypeInv'
  BY <1>1 DEF Preload, Changes, Registering
<1>2. CASE Describe(w)
  <2>1. [g \in Groups |-> [size |-> size[g], mdm |-> mdm[g]]] \in [Groups -> Sighting]
    BY DEF Sighting
  <2>2. seen' \in [Workers -> [Groups -> Sighting \union {None}]]
        /\ seen'[w] \in [Groups -> Sighting]
        /\ \A v \in Workers : v # w => seen'[v] = seen[v]
    BY <1>2, <2>1 DEF Describe
  <2>3. left' \in [Workers -> SUBSET Groups] /\ pc' = [pc EXCEPT ![w] = "next"]
    BY <1>2 DEF Describe
  <2>4. UNCHANGED <<definition, groupVars, registry, requests, request, cache, plan, tagVars,
                    faults>>
    BY <1>2 DEF Describe
  <2>5. pc[w] # "idle"
    BY <1>2 DEF Describe
  <2>6. Handling'
    BY <2>2, <2>3, <2>4, <2>5 DEF Changes
  <2>7. QED
    BY <2>2, <2>3, <2>4, <2>6 DEF Registering
<1>3. ASSUME NEW g \in Groups, Consider(w, g) PROVE TypeInv'
  <2> DEFINE rec == Fetch(cache[w][g], g)
             sighting == seen[w][g]
  <2>1. /\ pc[w] = "next" /\ request[w] \in Request /\ sighting \in Sighting
        /\ rec \in Record \union {None}
    BY <1>3, FetchType DEF Consider
  <2>2. left' \in [Workers -> SUBSET Groups]
    BY <1>3 DEF Consider
  <2>3. UNCHANGED <<definition, size, rules, tag, meta, registry, requests, request, cache, seen,
                    tagVars, faults>>
    BY <1>3 DEF Consider
  <2>4. CASE rec = None /\ UNCHANGED <<mdm, pc, plan>>
    BY <2>2, <2>3, <2>4 DEF Registering
  <2>5. CASE /\ rec # None /\ sighting.mdm # Corrupt
             /\ mdm' = IF sighting.mdm = None THEN [mdm EXCEPT ![g] = sighting.size] ELSE mdm
             /\ Judge(w, g, rec, Wanted(sighting))
    <3>1. Wanted(sighting) \in AllSizes
      BY <2>1, <2>5 DEF Wanted, Sighting, MdmTags
    <3>2. mdm' \in [Groups -> MdmTags]
      BY <2>1, <2>5 DEF Sighting, MdmTags
    <3>3. PICK step \in {"record", "rules"} :
              /\ pc' = [pc EXCEPT ![w] = step]
              /\ plan' \in [Workers -> Plan \union {NoPlan}]
              /\ plan'[w] \in Plan
              /\ step = "rules" => plan'[w].old.schedule \in DOMAIN request[w].view
              /\ \A v \in Workers : v # w => plan'[v] = plan[v]
      BY <2>1, <2>5, <3>1, JudgeTypes
    <3>4. Handling'
      BY <2>1, <2>3, <3>3 DEF Changes
    <3>5. QED
      BY <2>2, <2>3, <3>2, <3>3, <3>4 DEF Registering
  <2>6. QED
    BY <1>3, <2>4, <2>5 DEF Consider
<1>4. ASSUME Reset(w), faults' \in Nat, requests' \subseteq Request,
             UNCHANGED <<definition, groupVars, registry, tagVars>>
      PROVE  TypeInv'
  <2>1. NoCache \in [Groups -> Record \union {None}] /\ NoCache \in [Groups -> Sighting \union {None}]
    BY DEF NoCache
  <2>2. /\ pc' \in [Workers -> {"idle", "describe", "next", "rules", "delete", "put", "rollback",
                                "record"}]
        /\ request' \in [Workers -> Request \union {NoRequest}]
        /\ cache' \in [Workers -> [Groups -> Record \union {None}]]
        /\ seen' \in [Workers -> [Groups -> Sighting \union {None}]]
        /\ left' \in [Workers -> SUBSET Groups]
        /\ plan' \in [Workers -> Plan \union {NoPlan}]
    BY <1>4, <2>1 DEF Reset
  <2>3. Handling'
    BY <1>4 DEF Reset, Changes
  <2>4. QED
    BY <1>4, <2>2, <2>3 DEF Registering
<1>5. CASE PutRecord(w)
  <2>1. plan[w] \in Plan
    BY <1>5 DEF PutRecord
  <2>2. registry' \in [Groups -> Record \union {None}]
    BY <1>5, <2>1 DEF PutRecord, Plan
  <2>3. QED
    BY <1>5, <2>2 DEF PutRecord, Changes, Registering
<1>6. CASE Finish(w)
  BY <1>4, <1>6 DEF Finish
<1>7. ASSUME pc[w] # "idle", Retry(w), faults' \in Nat PROVE TypeInv'
  <2>1. request[w] \in Request
    BY <1>7
  <2>2. request[w].attempt < MaxAttempts
           => [request[w] EXCEPT !.attempt = @ + 1] \in Request
    <3>1. request[w].attempt \in 1..MaxAttempts /\ MaxAttempts \in Nat
      BY <2>1, AsgAssumption DEF Request
    <3>2. request[w].attempt < MaxAttempts => request[w].attempt + 1 \in 1..MaxAttempts
      BY <3>1
    <3>3. QED
      BY <2>1, <3>2 DEF Request
  <2>3. requests' \subseteq Request
    BY <1>7, <2>2 DEF Retry
  <2>4. QED
    BY <1>4, <1>7, <2>3 DEF Retry
<1>8. ASSUME NEW g \in Groups, Abort(w, g) PROVE TypeInv'
  BY <1>7, <1>8 DEF Abort, Fault
<1>9. CASE Crash(w)
  BY <1>7, <1>9 DEF Crash, Fault
<1>10. QED
  BY <1>1, <1>2, <1>3, <1>5, <1>6, <1>8, <1>9, ChangeTypes DEF WorkerStep

\* Nothing has happened when the behaviour begins.
LEMMA InitTypes == Init => TypeInv
<1> SUFFICES ASSUME Init PROVE TypeInv
  OBVIOUS
<1>1. NoRules \in Rules /\ NoCache \in [Groups -> Record \union {None}]
      /\ NoCache \in [Groups -> Sighting \union {None}]
  BY DEF NoRules, Rules, NoCache
<1>2. registry \in [Groups -> Record \union {None}]
  BY AsgAssumption DEF Init, Record, AsgStates
<1>3. /\ definition \in [Schedules -> Definitions \union {None}] /\ size \in [Groups -> AllSizes]
      /\ rules \in [Groups -> Rules] /\ tag \in [Groups -> Schedules \union {None}]
      /\ mdm \in [Groups -> MdmTags] /\ meta \in [Groups -> AllSizes \union {None}]
  BY <1>1, AsgAssumption DEF Init, MdmTags
<1>4. /\ requests \subseteq Request /\ pc \in [Workers -> {"idle"}]
      /\ request \in [Workers -> Request \union {NoRequest}]
      /\ cache \in [Workers -> [Groups -> Record \union {None}]]
      /\ seen \in [Workers -> [Groups -> Sighting \union {None}]]
      /\ left \in [Workers -> SUBSET Groups] /\ plan \in [Workers -> Plan \union {NoPlan}]
      /\ events \subseteq Groups /\ registrar = NoRegistration /\ faults \in Nat
  BY <1>1 DEF Init
<1>5. QED
  BY <1>2, <1>3, <1>4 DEF TypeInv, TypeOK, Handling, Registering, Changes, NoRegistration

\* No step breaks the types.
LEMMA NextTypes == TypeInv /\ [Next]_vars => TypeInv'
<1> SUFFICES ASSUME TypeInv, [Next]_vars PROVE TypeInv'
  OBVIOUS
<1>1. CASE Dispatch
  <2>1. [view |-> [s \in Named |-> definition[s]], attempt |-> 1] \in Request
    <3>1. [s \in Named |-> definition[s]] \in [Named -> Definitions] /\ Named \in SUBSET Schedules
      BY DEF Named, TypeInv, TypeOK
    <3>2. QED
      BY <3>1, AsgAssumption DEF Request, View
  <2>2. QED
    BY <1>1, <2>1 DEF Dispatch, TypeInv, TypeOK, groupVars, workerVars, tagVars, Handling,
                      Registering
<1>2. CASE UNCHANGED vars
  BY <1>2 DEF vars, groupVars, workerVars, tagVars, TypeInv, TypeOK, Handling, Registering
<1>3. QED
  BY <1>1, <1>2, EnvironmentTypes, RegistrarTypes, CycleTypes DEF Next

\* Every variable keeps its type, however many groups, handlers, schedules and faults
\* there are.
THEOREM TypeCorrect == Spec => []TypeOK
<1>1. TypeInv => TypeOK
  BY DEF TypeInv
<1>2. Spec => []TypeInv
  BY InitTypes, NextTypes, PTL DEF Spec
<1>3. QED
  BY <1>1, <1>2, PTL

-----------------------------------------------------------------------------
(* The scheduler's own stop is never taken for the size to run at *)

\* Nobody but the scheduler stops a group: no one gives it the size 0-0-0, writes
\* that size into its tag or removes the tag, and none was stopped at the beginning.
NobodyStops ==
    /\ Zero \notin SizesAtStart \union SizeChoices \union MdmChoices
    /\ None \notin MdmChoices
    /\ \A g \in Groups : MetaAtStart[g] # Zero

\* All Start rules among r carry a size to run at.
StartsRun(r) == \A n \in DOMAIN r : n[2] = "Start" => r[n].size # Zero

\* While a group has no size tag it has no rules that could stop it, so that its
\* present size is one to run at.
TagKnowsSize ==
    \A g \in Groups :
        /\ mdm[g] # Zero /\ meta[g] # Zero
        /\ mdm[g] = None => size[g] # Zero /\ DOMAIN rules[g] = {}
        /\ StartsRun(rules[g])

\* The same of what handlers have seen of groups, however long ago: a size seen
\* without a tag is one to run at, and a tag that was seen is still there.
SightingKnowsSize ==
    /\ \A w \in Workers, g \in Groups :
          pc[w] \notin {"idle", "describe"} =>
              /\ seen[w][g].mdm # Zero
              /\ seen[w][g].mdm = None => seen[w][g].size # Zero
              /\ seen[w][g].mdm # None => mdm[g] # None
    /\ registrar # NoRegistration =>
          /\ registrar.meta # Zero
          /\ registrar.mdm = None => registrar.size # Zero
          /\ registrar.step = "size" => registrar.mdm = None

\* A handler changes the rules of tagged groups only, to a size to run at, and
\* holds back rules of which that is true.
PlanKnowsSize ==
    \A w \in Workers :
        pc[w] \in Changes =>
            /\ plan[w].size # Zero
            /\ mdm[plan[w].group] # None
            /\ StartsRun(plan[w].backup)

SizeInv == TagKnowsSize /\ SightingKnowsSize /\ PlanKnowsSize

\* Puts and deletions keep Start rules at sizes to run at, if those put are.
LEMMA BatchStarts ==
    ASSUME rules \in [Groups -> Rules], NEW g \in Groups, StartsRun(rules[g]),
           \/ \E names, fault : BatchDelete(g, names, fault, TRUE, TRUE)
           \/ \E new \in Rules : StartsRun(new) /\ BatchPut(g, new, TRUE, TRUE)
    PROVE  /\ rules' \in [Groups -> Rules]
           /\ StartsRun(rules'[g])
           /\ \A h \in Groups : h # g => rules'[h] = rules[h]
<1>1. ASSUME NEW names, NEW fault, BatchDelete(g, names, fault, TRUE, TRUE)
      PROVE  \E r \in Rules : StartsRun(r) /\ rules' = [rules EXCEPT ![g] = r]
  <2>1. PICK gone : rules' = [rules EXCEPT ![g] = Without(rules[g], gone)]
    BY <1>1 DEF BatchDelete
  <2>2. Without(rules[g], gone) \in Rules
    BY RulesType
  <2>3. StartsRun(Without(rules[g], gone))
    BY DEF StartsRun, Without, Restrict
  <2>4. QED
    BY <2>1, <2>2, <2>3
<1>2. ASSUME NEW new \in Rules, StartsRun(new), BatchPut(g, new, TRUE, TRUE)
      PROVE  \E r \in Rules : StartsRun(r) /\ rules' = [rules EXCEPT ![g] = r]
  <2>1. PICK f \in Rules : StartsRun(f) /\ rules' = [rules EXCEPT ![g] = Overwrite(rules[g], f)]
    <3>1. ASSUME NEW done \in SUBSET DOMAIN new
          PROVE  Restrict(new, done) \in Rules /\ StartsRun(Restrict(new, done))
      BY <1>2, RulesType DEF StartsRun, Restrict
    <3>2. QED
      BY <1>2, <3>1 DEF BatchPut
  <2>2. Overwrite(rules[g], f) \in Rules
    BY <2>1, RulesType
  <2>3. StartsRun(Overwrite(rules[g], f))
    BY <2>1 DEF StartsRun, Overwrite
  <2>4. QED
    BY <2>1, <2>2, <2>3
<1>3. PICK r \in Rules : StartsRun(r) /\ rules' = [rules EXCEPT ![g] = r]
  BY <1>1, <1>2
<1>4. QED
  BY <1>3

\* People and AutoScaling stop no group that has no size tag.
LEMMA EnvironmentSizes ==
    ASSUME NobodyStops, TypeInv, SizeInv, Environment
    PROVE  SizeInv'
<1> USE DEF SizeInv, TagKnowsSize, SightingKnowsSize, PlanKnowsSize, StartsRun,
            groupVars, workerVars, tagVars
<1>1. ASSUME NEW s \in Schedules, NEW def \in Definitions \union {None}, EditSchedule(s, def)
      PROVE  SizeInv'
  BY <1>1 DEF EditSchedule
<1>2. ASSUME NEW g \in Groups, NEW n \in DOMAIN rules[g], RuleFires(g, n) PROVE SizeInv'
  <2>1. size' = [size EXCEPT ![g] = rules[g][n].size] /\ mdm[g] # None
    BY <1>2 DEF RuleFires
  <2>2. TagKnowsSize'
    BY <1>2, <2>1 DEF RuleFires, TypeInv, TypeOK
  <2>3. QED
    BY <1>2, <2>2 DEF RuleFires
<1>3. ASSUME NEW g \in Groups, NEW z \in SizeChoices, UserResize(g, z) PROVE SizeInv'
  BY <1>3 DEF UserResize, NobodyStops, TypeInv, TypeOK
<1>4. ASSUME NEW g \in Groups, NEW m \in MdmChoices, UserWritesMdm(g, m) PROVE SizeInv'
  <2>1. mdm' = [mdm EXCEPT ![g] = m] /\ m # None /\ m # Zero
    BY <1>4 DEF UserWritesMdm, NobodyStops
  <2>2. \A h \in Groups : mdm'[h] # Zero /\ (mdm'[h] = None => mdm[h] = None)
    BY <2>1 DEF TypeInv, TypeOK
  <2>3. \A w \in Workers : pc[w] \in Changes => plan[w].group \in Groups
    BY DEF TypeInv, Handling, Plan
  <2>4. UNCHANGED <<size, rules, meta, workerVars, tagVars>>
    BY <1>4 DEF UserWritesMdm
  <2>5. QED
    BY <2>2, <2>3, <2>4
<1>5. ASSUME NEW g \in Groups, NEW s \in TagChoices, UserTag(g, s) PROVE SizeInv'
  BY <1>5 DEF UserTag
<1>6. ASSUME NEW g \in Groups, Expire(g) PROVE SizeInv'
  BY <1>6 DEF Expire
<1>7. QED
  BY <1>1, <1>2, <1>3, <1>4, <1>5, <1>6 DEF Environment

\* The registration handler writes only sizes to run at into the tag.
LEMMA RegistrarSizes ==
    ASSUME NobodyStops, TypeInv, SizeInv,
           RegistrarStep \/ RegistrarCrash \/ \E g \in Groups : HandleEvent(g)
    PROVE  SizeInv'
<1> USE DEF SizeInv, groupVars, workerVars, tagVars
<1>1. ASSUME UNCHANGED <<groupVars, workerVars>> PROVE TagKnowsSize' /\ PlanKnowsSize'
  BY <1>1 DEF TagKnowsSize, PlanKnowsSize, StartsRun
<1>2. ASSUME NEW g \in Groups, Receive(g) PROVE SizeInv'
  <2>1. UNCHANGED <<groupVars, workerVars>>
    BY <1>2 DEF Receive
  <2>2. \/ registrar' = NoRegistration
        \/ /\ registrar'.meta = meta[g] /\ registrar'.mdm = mdm[g] /\ registrar'.size = size[g]
           /\ registrar'.step # "size"
    BY <1>2 DEF Receive
  <2>3. SightingKnowsSize'
    BY <2>1, <2>2 DEF SightingKnowsSize, TagKnowsSize
  <2>4. QED
    BY <1>1, <2>1, <2>3
\* A step that writes nothing or a size to run at into the tag of its group, and whose
\* registrar knows what it knew.
<1>3. ASSUME registrar \in Registration, NEW m, m # None, m # Zero,
             mdm' = mdm \/ mdm' = [mdm EXCEPT ![registrar.group] = m],
             UNCHANGED <<size, rules, workerVars>>,
             meta' = meta \/ meta' = [meta EXCEPT ![registrar.group] = None],
             \/ registrar' = NoRegistration
             \/ /\ registrar'.meta = registrar.meta /\ registrar'.mdm = registrar.mdm
                /\ registrar'.size = registrar.size
                /\ registrar'.step = "size" => registrar.mdm = None
      PROVE  SizeInv'
  <2>1. registrar # NoRegistration /\ registrar.group \in Groups /\ None # Zero
    BY <1>3, AsgAssumption DEF Registration, NoRegistration, AllSizes
  <2>2. \A h \in Groups : mdm'[h] # Zero /\ (mdm'[h] = None => mdm[h] = None)
    BY <1>3, <2>1 DEF TagKnowsSize, TypeInv, TypeOK
  <2>3. SightingKnowsSize'
    BY <1>3, <2>1, <2>2 DEF SightingKnowsSize
  <2>4. \A h \in Groups : meta'[h] # Zero
    BY <1>3, <2>1 DEF TagKnowsSize, TypeInv, TypeOK
  <2>5. TagKnowsSize'
    BY <1>3, <2>2, <2>4 DEF TagKnowsSize, StartsRun
  <2>6. \A w \in Workers : pc[w] \in Changes => plan[w].group \in Groups
    BY DEF TypeInv, Handling, Plan
  <2>7. PlanKnowsSize'
    BY <1>3, <2>2, <2>6 DEF PlanKnowsSize, StartsRun
  <2>8. QED
    BY <2>3, <2>5, <2>7
<1>4. Corrupt # None /\ Corrupt # Zero
  BY AsgAssumption DEF AllSizes
<1>5. registrar # NoRegistration => registrar \in Registration
  BY DEF TypeInv, TypeOK
<1>6. CASE Migrate
  <2>1. registrar \in Registration /\ registrar.meta # None /\ registrar.meta # Zero
    BY <1>5, <1>6, AsgAssumption DEF Migrate, NoRegistration, SightingKnowsSize, TypeInv, Registering
  <2>2. registrar' = [registrar EXCEPT !.step = "unmigrate"]
    BY <1>6 DEF Migrate, RegistrarTo
  <2>3. /\ registrar'.meta = registrar.meta /\ registrar'.mdm = registrar.mdm
        /\ registrar'.size = registrar.size /\ registrar'.step # "size"
    BY <2>1, <2>2 DEF Registration
  <2>4. QED
    BY <1>3, <1>6, <2>1, <2>3 DEF Migrate
<1>7. CASE Unmigrate
  <2>1. registrar \in Registration
    BY <1>5, <1>7 DEF Unmigrate, NoRegistration
  <2>2. registrar' = [registrar EXCEPT !.step = "register"]
    BY <1>7 DEF Unmigrate, RegistrarTo
  <2>3. /\ registrar'.meta = registrar.meta /\ registrar'.mdm = registrar.mdm
        /\ registrar'.size = registrar.size /\ registrar'.step # "size"
    BY <2>1, <2>2 DEF Registration
  <2>4. QED
    BY <1>3, <1>4, <1>7, <2>1, <2>3 DEF Unmigrate
<1>8. CASE Register
  <2>1. registrar \in Registration
    BY <1>5, <1>8 DEF Register, NoRegistration
  <2>2. \/ registrar' = NoRegistration
        \/ registrar' = [registrar EXCEPT !.step = "size"] /\ registrar.mdm = None
    BY <1>8 DEF Register, RegistrarTo
  <2>3. \/ registrar' = NoRegistration
        \/ /\ registrar'.meta = registrar.meta /\ registrar'.mdm = registrar.mdm
           /\ registrar'.size = registrar.size
           /\ registrar'.step = "size" => registrar.mdm = None
    BY <2>1, <2>2 DEF Registration
  <2>4. UNCHANGED <<size, rules, mdm, meta, workerVars>>
    BY <1>8 DEF Register
  <2>5. QED
    BY <1>3, <1>4, <2>1, <2>3, <2>4
<1>9. CASE WriteSize
  <2>1. registrar \in Registration
    BY <1>5, <1>9 DEF WriteSize, NoRegistration
  <2>2. registrar.size # Zero /\ registrar.size # None
    BY <1>9, <2>1, AsgAssumption DEF WriteSize, SightingKnowsSize, NoRegistration, Registration
  <2>3. QED
    BY <1>3, <1>9, <2>1, <2>2 DEF WriteSize
<1>10. CASE Clean
  <2>1. registrar \in Registration /\ registrar.group \in Groups
    BY <1>5, <1>10 DEF Clean, NoRegistration, Registration
  <2>2. BatchDelete(registrar.group, registrar.backup, "clean", TRUE, TRUE)
    BY <1>10 DEF Clean, BatchDelete
  <2>3. registrar' = [registrar EXCEPT !.step = "deregister"]
    BY <1>10 DEF Clean, BatchDelete, RegistrarTo
  <2>4. UNCHANGED <<size, mdm, meta, workerVars>>
    BY <1>10 DEF Clean
  <2>5. /\ rules' \in [Groups -> Rules] /\ StartsRun(rules'[registrar.group])
        /\ \A h \in Groups : h # registrar.group => rules'[h] = rules[h]
    BY <2>1, <2>2, BatchStarts DEF TypeInv, TypeOK, TagKnowsSize
  <2>6. DOMAIN rules[registrar.group] = {} => DOMAIN rules'[registrar.group] = {}
    BY <2>1, <2>2 DEF BatchDelete, Without, Restrict, TypeInv, TypeOK
  <2>7. TagKnowsSize'
    BY <2>1, <2>4, <2>5, <2>6 DEF TagKnowsSize, StartsRun
  <2>8. SightingKnowsSize'
    BY <2>1, <2>3, <2>4 DEF SightingKnowsSize, Registration, NoRegistration
  <2>9. PlanKnowsSize'
    BY <2>4 DEF PlanKnowsSize, StartsRun
  <2>10. QED
    BY <2>7, <2>8, <2>9
<1>11. ASSUME registrar' = NoRegistration, UNCHANGED <<groupVars, workerVars>> PROVE SizeInv'
  BY <1>1, <1>11 DEF SightingKnowsSize
<1>12. QED
  BY <1>2, <1>6, <1>7, <1>8, <1>9, <1>10, <1>11
     DEF RegistrarStep, HandleEvent, Deregister, RegistrarCrash

\* A worker that gives a group a size, or rules, gives it sizes to run at.
LEMMA CycleSizes ==
    ASSUME TypeInv, TypeInv', SizeInv, NEW w \in Workers, WorkerStep(w) \/ Crash(w)
    PROVE  SizeInv'
<1> USE DEF SizeInv, groupVars, workerVars, tagVars
<1>1. ASSUME NEW req \in requests, Preload(w, req) PROVE SizeInv'
  BY <1>1 DEF Preload, TagKnowsSize, SightingKnowsSize, PlanKnowsSize, StartsRun, Changes, TypeInv,
              TypeOK
<1>2. CASE Describe(w)
  <2>1. seen' = [seen EXCEPT ![w] = [g \in Groups |-> [size |-> size[g], mdm |-> mdm[g]]]]
        /\ pc' = [pc EXCEPT ![w] = "next"]
        /\ UNCHANGED <<groupVars, plan, tagVars>>
    BY <1>2 DEF Describe
  <2>2. SightingKnowsSize'
    BY <2>1 DEF SightingKnowsSize, TagKnowsSize, TypeInv, TypeOK
  <2>3. TagKnowsSize' /\ PlanKnowsSize'
    BY <2>1 DEF TagKnowsSize, PlanKnowsSize, StartsRun, Changes, TypeInv, TypeOK
  <2>4. QED
    BY <2>2, <2>3
<1>3. ASSUME NEW g \in Groups, Consider(w, g) PROVE SizeInv'
  <2> DEFINE rec == Fetch(cache[w][g], g)
             sighting == seen[w][g]
  <2>1. UNCHANGED <<size, rules, meta, seen, tagVars, request>>
    BY <1>3 DEF Consider
  <2>2. pc[w] = "next"
    BY <1>3 DEF Consider
  <2>3. CASE UNCHANGED <<mdm, pc, plan>>
    BY <2>1, <2>3 DEF TagKnowsSize, SightingKnowsSize, PlanKnowsSize, StartsRun
  <2>4. CASE /\ rec # None /\ sighting.mdm # Corrupt
             /\ mdm' = IF sighting.mdm = None THEN [mdm EXCEPT ![g] = sighting.size] ELSE mdm
             /\ Judge(w, g, rec, Wanted(sighting))
    <3>1. sighting \in Sighting /\ None \notin AllSizes /\ None # Corrupt
      BY <1>3, AsgAssumption DEF Consider, TypeInv, Handling
    <3>2. Wanted(sighting) # Zero /\ Wanted(sighting) # None
          /\ (sighting.mdm = None => Wanted(sighting) = sighting.size)
      BY <2>2, <2>4, <3>1, AsgAssumption DEF SightingKnowsSize, Wanted, Sighting
    <3>3. \A h \in Groups : mdm'[h] # Zero /\ (mdm'[h] = None => mdm[h] = None)
      BY <2>4, <3>2 DEF TagKnowsSize, TypeInv, TypeOK
    <3>4. TagKnowsSize'
      BY <2>1, <3>3 DEF TagKnowsSize, StartsRun
    <3>5. \A v \in Workers : pc[v] \in Changes => plan[v].group \in Groups
      BY DEF TypeInv, Handling, Plan
    <3>6. \A v \in Workers : v # w => pc'[v] = pc[v] /\ plan'[v] = plan[v]
      BY <2>4 DEF Judge, TypeInv, TypeOK
    <3>7. /\ plan'[w].size = Wanted(sighting) /\ plan'[w].group = g
          /\ plan'[w].backup = NoRules
      BY <2>4 DEF Judge, TypeInv, TypeOK
    <3>8. mdm'[g] # None
      <4>1. CASE sighting.mdm = None
        BY <2>4, <3>2, <4>1 DEF TypeInv, TypeOK
      <4>2. CASE sighting.mdm # None
        BY <2>2, <2>4, <4>2 DEF SightingKnowsSize
      <4>3. QED
        BY <4>1, <4>2
    <3>9. PlanKnowsSize'
      BY <3>2, <3>3, <3>5, <3>6, <3>7, <3>8 DEF PlanKnowsSize, StartsRun, NoRules
    <3>10. SightingKnowsSize'
      <4>1. pc'[w] \notin {"idle", "describe"} => pc[w] \notin {"idle", "describe"}
        BY <2>2
      <4>2. QED
        BY <2>1, <3>3, <3>6, <4>1 DEF SightingKnowsSize
    <3>11. QED
      BY <3>4, <3>9, <3>10
  <2>5. QED
    BY <1>3, <2>3, <2>4 DEF Consider
\* The handler is at its beginning again, or done with a group.
<1>4. ASSUME UNCHANGED <<groupVars, tagVars>>,
             \A v \in Workers : v # w => UNCHANGED <<pc[v], plan[v], seen[v]>>,
             pc'[w] \notin Changes,
             pc'[w] \notin {"idle", "describe"} =>
                 pc[w] \notin {"idle", "describe"} /\ seen'[w] = seen[w]
      PROVE  SizeInv'
  <2>1. SightingKnowsSize'
    BY <1>4 DEF SightingKnowsSize
  <2>2. TagKnowsSize' /\ PlanKnowsSize'
    BY <1>4 DEF TagKnowsSize, PlanKnowsSize, StartsRun
  <2>3. QED
    BY <2>1, <2>2
<1>5. ASSUME Reset(w), UNCHANGED <<groupVars, tagVars>> PROVE SizeInv'
  <2>1. pc' = [pc EXCEPT ![w] = "idle"] /\ seen' = [seen EXCEPT ![w] = NoCache]
        /\ plan' = [plan EXCEPT ![w] = NoPlan]
    BY <1>5 DEF Reset
  <2>2. /\ \A v \in Workers : v # w => UNCHANGED <<pc[v], plan[v], seen[v]>>
        /\ pc'[w] = "idle"
    BY <2>1 DEF TypeInv, TypeOK
  <2>3. QED
    BY <1>4, <1>5, <2>2 DEF Changes
<1>6. CASE PutRecord(w)
  <2>1. /\ \A v \in Workers : v # w => UNCHANGED <<pc[v], plan[v], seen[v]>>
        /\ pc[w] = "record" /\ pc'[w] = "next" /\ seen' = seen
    BY <1>6 DEF PutRecord, TypeInv, TypeOK
  <2>2. UNCHANGED <<groupVars, tagVars>>
    BY <1>6 DEF PutRecord
  <2>3. QED
    BY <1>4, <2>1, <2>2 DEF Changes
<1>7. CASE Finish(w)
  BY <1>5, <1>7 DEF Finish
<1>8. ASSUME NEW g \in Groups, Abort(w, g) PROVE SizeInv'
  BY <1>5, <1>8 DEF Abort, Retry
<1>9. CASE Crash(w)
  BY <1>5, <1>9 DEF Crash, Retry
<1>10. CASE DescribeRules(w)
  <2>1. plan[w] \in Plan /\ plan[w].group \in Groups
    BY <1>10 DEF DescribeRules, TypeInv, Handling, Changes, Plan
  <2>2. plan'[w].size = plan[w].size /\ plan'[w].group = plan[w].group
        /\ plan'[w].backup = rules[plan[w].group]
    BY <1>10, <2>1 DEF DescribeRules, TypeInv, TypeOK, Plan
  <2>3. \A v \in Workers : v # w => UNCHANGED <<pc[v], plan[v]>>
    BY <1>10 DEF DescribeRules, TypeInv, TypeOK
  <2>4. UNCHANGED <<groupVars, seen, tagVars>> /\ pc[w] = "rules" /\ pc'[w] = "delete"
    BY <1>10 DEF DescribeRules, TypeInv, TypeOK
  <2>5. PlanKnowsSize'
    BY <2>1, <2>2, <2>3, <2>4 DEF PlanKnowsSize, TagKnowsSize, StartsRun, Changes
  <2>6. SightingKnowsSize'
    BY <1>10, <2>3, <2>4 DEF SightingKnowsSize
  <2>7. TagKnowsSize'
    BY <2>4 DEF TagKnowsSize, StartsRun
  <2>8. QED
    BY <2>5, <2>6, <2>7
\* A batch call, and what its worker does next.
<1>11. ASSUME pc[w] \in Changes, plan[w].group \in Groups,
              \/ \E names, fault : BatchDelete(plan[w].group, names, fault, TRUE, TRUE)
              \/ \E new \in Rules : StartsRun(new) /\ BatchPut(plan[w].group, new, TRUE, TRUE),
              \E step \in {"put", "record", "rollback"}, new \in Record : Goes(w, step, new),
              UNCHANGED <<size, mdm, meta, seen, tagVars>>
       PROVE  SizeInv'
  <2>1. PICK step \in {"put", "record", "rollback"}, new \in Record : Goes(w, step, new)
    BY <1>11
  <2>2. plan[w] \in Plan
    BY <1>11 DEF TypeInv, Handling
  <2>3. /\ plan'[w].size = plan[w].size /\ plan'[w].group = plan[w].group
        /\ plan'[w].backup = plan[w].backup /\ pc'[w] = step
        /\ \A v \in Workers : v # w => UNCHANGED <<pc[v], plan[v]>>
    BY <2>1, <2>2 DEF Goes, Plan, TypeInv, TypeOK
  <2>4. /\ StartsRun(rules'[plan[w].group])
        /\ \A h \in Groups : h # plan[w].group => rules'[h] = rules[h]
    BY <1>11, BatchStarts DEF TagKnowsSize, TypeInv, TypeOK
  <2>5. mdm[plan[w].group] # None
    BY <1>11 DEF PlanKnowsSize
  <2>6. TagKnowsSize'
    BY <1>11, <2>4, <2>5 DEF TagKnowsSize, StartsRun
  <2>7. SightingKnowsSize'
    BY <1>11, <2>3 DEF SightingKnowsSize, Changes
  <2>8. PlanKnowsSize'
    BY <1>11, <2>3 DEF PlanKnowsSize, StartsRun
  <2>9. QED
    BY <2>6, <2>7, <2>8
<1>12. ASSUME pc[w] \in Changes
       PROVE  /\ plan[w].group \in Groups /\ plan[w].new \in Record /\ plan[w].backup \in Rules
              /\ plan[w].size \in AllSizes /\ plan[w].size # Zero /\ StartsRun(plan[w].backup)
  BY <1>12 DEF TypeInv, Handling, Plan, PlanKnowsSize
<1>13. CASE DeleteRules(w)
  <2>1. BatchDelete(plan[w].group, DOMAIN plan[w].backup, "delete", TRUE, TRUE)
    BY <1>13 DEF DeleteRules, BatchDelete
  <2>2. Goes(w, "put", plan[w].new) \/ Goes(w, "record", Failed(w))
    BY <1>13 DEF DeleteRules, BatchDelete
  <2>3. pc[w] \in Changes /\ UNCHANGED <<size, mdm, meta, seen, tagVars>>
    BY <1>13 DEF DeleteRules, Changes
  <2>4. QED
    BY <1>11, <1>12, <2>1, <2>2, <2>3, NewRecords
<1>14. CASE PutRules(w)
  <2> DEFINE new == Actions(request[w].view[plan[w].old.schedule], plan[w].size)
  <2>1. BatchPut(plan[w].group, new, TRUE, TRUE)
    BY <1>14 DEF PutRules, BatchPut
  <2>2. Goes(w, "record", Configured(w)) \/ Goes(w, "rollback", Failed(w))
    BY <1>14 DEF PutRules, BatchPut
  <2>3. pc[w] \in Changes /\ UNCHANGED <<size, mdm, meta, seen, tagVars>>
    BY <1>14 DEF PutRules, Changes
  <2>4. new \in Rules
    BY <1>12, <2>3, NewRecords, ActionsType
  <2>5. StartsRun(new)
    BY <1>12, <2>3 DEF StartsRun, Actions
  <2> HIDE DEF new
  <2>6. QED
    BY <1>11, <1>12, <2>1, <2>2, <2>3, <2>4, <2>5, NewRecords
<1>15. CASE Rollback(w)
  <2>1. BatchPut(plan[w].group, plan[w].backup, TRUE, TRUE)
    BY <1>15 DEF Rollback, BatchPut
  <2>2. Goes(w, "record", plan[w].new)
    BY <1>15 DEF Rollback, BatchPut
  <2>3. pc[w] \in Changes /\ UNCHANGED <<size, mdm, meta, seen, tagVars>>
    BY <1>15 DEF Rollback, Changes
  <2>4. QED
    BY <1>11, <1>12, <2>1, <2>2, <2>3
<1>16. QED
  BY <1>1, <1>2, <1>3, <1>6, <1>7, <1>8, <1>9, <1>10, <1>13, <1>14, <1>15 DEF WorkerStep

\* No group is stopped when the behaviour begins, and none is tagged with a size.
LEMMA InitSizes == NobodyStops /\ Init => SizeInv
<1> SUFFICES ASSUME NobodyStops, Init PROVE SizeInv
  OBVIOUS
<1>1. None # Zero
  BY AsgAssumption DEF AllSizes
<1>2. TagKnowsSize
  BY <1>1 DEF Init, NobodyStops, TagKnowsSize, StartsRun, NoRules
<1>3. SightingKnowsSize /\ PlanKnowsSize
  BY DEF Init, SightingKnowsSize, PlanKnowsSize, Changes
<1>4. QED
  BY <1>2, <1>3 DEF SizeInv

\* No step breaks the invariant.
LEMMA NextSizes == NobodyStops /\ TypeInv /\ SizeInv /\ [Next]_vars => SizeInv'
<1> SUFFICES ASSUME NobodyStops, TypeInv, SizeInv, [Next]_vars PROVE SizeInv'
  OBVIOUS
<1>1. TypeInv'
  BY NextTypes
<1>2. CASE Dispatch \/ UNCHANGED vars
  BY <1>2 DEF Dispatch, vars, groupVars, workerVars, tagVars, SizeInv, TagKnowsSize,
              SightingKnowsSize, PlanKnowsSize, StartsRun
<1>3. QED
  BY <1>1, <1>2, EnvironmentSizes, RegistrarSizes, CycleSizes DEF Next

\* If nobody but the scheduler stops a group, no Start rule of it ever carries the
\* size 0-0-0: with any number of overlapping cycles, retries and faults, while tags
\* come and go and groups are migrated.
THEOREM StartsSafe == NobodyStops => (Spec => []StartIsNeverStop)
<1> SUFFICES ASSUME NobodyStops PROVE Spec => []StartIsNeverStop
  OBVIOUS
<1>1. TypeInv /\ SizeInv => StartIsNeverStop
  BY DEF SizeInv, TagKnowsSize, StartsRun, StartIsNeverStop
<1>2. Init => TypeInv /\ SizeInv
  BY InitTypes, InitSizes
<1>3. TypeInv /\ SizeInv /\ [Next]_vars => TypeInv' /\ SizeInv'
  BY NextTypes, NextSizes
<1>4. QED
  BY <1>1, <1>2, <1>3, PTL DEF Spec

-----------------------------------------------------------------------------
(* A migrated group keeps the size of its metadata tag *)

\* There is one group, informational tagging is off, and nobody removes a size tag: what
\* else writes the tag of a group comes after its registration.
LoneGroup ==
    /\ \A g, h \in Groups : g = h
    /\ ~InfoTagging
    /\ None \notin MdmChoices

\* A size that the metadata tag had, or that people wrote.
Kept(g, m) == m \in {MetaAtStart[g]} \union MdmChoices

\* The old tag goes after its size was kept, a registration comes after that, and a cycle
\* after a registration.
MigrationInv ==
    \A g \in Groups : MetaAtStart[g] # None =>
        /\ meta[g] \in {None, MetaAtStart[g]}
        /\ meta[g] = None \/ registry[g] # None \/ requests # {} \/ Busy # {} => Kept(g, mdm[g])
        /\ \A w \in Workers : pc[w] \notin {"idle", "describe"} => Kept(g, seen[w][g].mdm)
        /\ registrar # NoRegistration =>
              /\ registrar.step # "size"
              /\ registrar.step = "migrate" => registrar.meta = MetaAtStart[g]
              /\ registrar.step \in {"unmigrate", "register"} => Kept(g, mdm[g])

LEMMA RegistrarMigrates ==
    ASSUME LoneGroup, TypeInv, MigrationInv,
           RegistrarStep \/ RegistrarCrash \/ \E g \in Groups : HandleEvent(g)
    PROVE  MigrationInv'
<1> SUFFICES ASSUME NEW g \in Groups, MetaAtStart[g] # None
             PROVE  /\ meta'[g] \in {None, MetaAtStart[g]}
                    /\ meta'[g] = None \/ registry'[g] # None \/ requests' # {} \/ Busy' # {}
                          => Kept(g, mdm'[g])
                    /\ \A w \in Workers : pc'[w] \notin {"idle", "describe"} => Kept(g, seen'[w][g].mdm)
                    /\ registrar' # NoRegistration =>
                          /\ registrar'.step # "size"
                          /\ registrar'.step = "migrate" => registrar'.meta = MetaAtStart[g]
                          /\ registrar'.step \in {"unmigrate", "register"} => Kept(g, mdm'[g])
  BY DEF MigrationInv, Kept
<1> USE DEF MigrationInv, workerVars, groupVars, tagVars, LoneGroup, TypeInv, TypeOK
<1>1. UNCHANGED <<requests, workerVars>> /\ Busy' = Busy
  BY DEF RegistrarStep, RegistrarCrash, HandleEvent, Receive, Migrate, Unmigrate, Register, WriteSize,
         Clean, Deregister, Busy
<1>2. registrar # NoRegistration =>
         registrar \in Registration /\ registrar.group = g /\ registrar.step # "size"
  BY DEF Registration
<1>3. ASSUME NEW step, step # "size", registrar # NoRegistration, RegistrarTo(step)
      PROVE  registrar'.step = step /\ registrar'.meta = registrar.meta
  BY <1>2, <1>3 DEF RegistrarTo, Registration
<1>4. ASSUME NEW h \in Groups, Receive(h) PROVE MigrationInv'
  <2>1. UNCHANGED <<groupVars, registry>>
    BY <1>4 DEF Receive
  <2>2. \/ registrar' = NoRegistration
        \/ /\ registrar'.step = IF tag[g] = None THEN "clean"
                                ELSE IF meta[g] # None THEN "migrate" ELSE "register"
           /\ registrar'.meta = meta[g]
    BY <1>4 DEF Receive
  <2>3. QED
    BY <1>1, <2>1, <2>2 DEF Kept
<1>5. CASE Migrate
  <2>1. mdm' = [mdm EXCEPT ![registrar.group] = registrar.meta]
    BY <1>5 DEF Migrate
  <2>2. registrar # NoRegistration /\ registrar.step = "migrate"
    BY <1>5 DEF Migrate, NoRegistration
  <2>3. Kept(g, mdm'[g])
    BY <1>2, <2>1, <2>2 DEF Kept
  <2>4. QED
    BY <1>1, <1>3, <1>5, <2>2, <2>3 DEF Migrate
<1>6. CASE Unmigrate
  <2>1. registrar # NoRegistration /\ registrar.step = "unmigrate"
    BY <1>6 DEF Unmigrate, NoRegistration
  <2>2. Kept(g, mdm[g]) /\ meta'[g] = None
    BY <1>2, <1>6, <2>1 DEF Unmigrate
  <2>3. mdm' = mdm /\ registry' = registry /\ registrar'.step = "register"
    BY <1>3, <1>6, <2>1 DEF Unmigrate
  <2>4. QED
    BY <1>1, <2>2, <2>3 DEF Kept
<1>7. CASE Register
  <2>1. registrar # NoRegistration /\ registrar.step = "register"
    BY <1>7 DEF Register, NoRegistration
  <2>2. Kept(g, mdm[g])
    BY <2>1
  <2>3. QED
    BY <1>1, <1>7, <2>2 DEF Register
<1>8. CASE Clean
  <2>1. registrar # NoRegistration /\ RegistrarTo("deregister")
    BY <1>8 DEF Clean, NoRegistration, BatchDelete
  <2>2. QED
    BY <1>1, <1>3, <1>8, <2>1 DEF Clean
<1>9. CASE Deregister
  <2>1. registry'[g] = None
    BY <1>2, <1>9 DEF Deregister, NoRegistration
  <2>2. QED
    BY <1>1, <1>9, <2>1 DEF Deregister
<1>10. CASE RegistrarCrash
  BY <1>1, <1>10 DEF RegistrarCrash
<1>11. CASE WriteSize
  BY <1>2, <1>11 DEF WriteSize, NoRegistration
<1>12. QED
  BY <1>4, <1>5, <1>6, <1>7, <1>8, <1>9, <1>10, <1>11 DEF RegistrarStep, HandleEvent

\* A worker's step is its own.
LEMMA StepOfWorker ==
    ASSUME TypeInv, NEW w \in Workers, WorkerStep(w) \/ Crash(w)
    PROVE  \E step : pc' = [pc EXCEPT ![w] = step]
<1> USE DEF TypeInv, TypeOK
<1>1. CASE pc' = pc
  BY <1>1
<1>2. ASSUME NEW req \in requests, Preload(w, req) PROVE \E step : pc' = [pc EXCEPT ![w] = step]
  BY <1>2 DEF Preload
<1>3. CASE Describe(w) \/ DescribeRules(w) \/ PutRecord(w) \/ Finish(w) \/ Crash(w)
  BY <1>3 DEF Describe, DescribeRules, PutRecord, Finish, Crash, Retry, Reset
<1>4. CASE DeleteRules(w) \/ PutRules(w) \/ Rollback(w)
  BY <1>4 DEF DeleteRules, PutRules, Rollback, BatchDelete, BatchPut, Goes
<1>5. ASSUME NEW g \in Groups, Consider(w, g) \/ Abort(w, g)
      PROVE  \E step : pc' = [pc EXCEPT ![w] = step]
  BY <1>1, <1>5 DEF Consider, Judge, Abort, Retry, Reset
<1>6. QED
  BY <1>2, <1>3, <1>4, <1>5 DEF WorkerStep

LEMMA NextMigrates == LoneGroup /\ TypeInv /\ MigrationInv /\ [Next]_vars => MigrationInv'
<1> SUFFICES ASSUME LoneGroup, TypeInv, MigrationInv, [Next]_vars PROVE MigrationInv'
  OBVIOUS
<1> USE DEF MigrationInv, workerVars, groupVars, tagVars, LoneGroup, TypeInv, TypeOK
<1>1. CASE UNCHANGED vars
  BY <1>1 DEF vars, Busy, Kept
<1>2. CASE Environment
  <2>1. UNCHANGED <<meta, requests, workerVars, registrar>> /\ Busy' = Busy
    BY <1>2 DEF Environment, EditSchedule, RuleFires, UserResize, UserWritesMdm, UserTag, Expire, Busy
  <2>2. \A g \in Groups : MetaAtStart[g] # None /\ Kept(g, mdm[g]) => Kept(g, mdm'[g])
    BY <1>2 DEF Environment, EditSchedule, RuleFires, UserResize, UserWritesMdm, UserTag, Expire, Kept
  <2>3. \A g \in Groups : registry'[g] # None => registry[g] # None
    BY <1>2 DEF Environment, EditSchedule, RuleFires, UserResize, UserWritesMdm, UserTag, Expire
  <2>4. QED
    BY <2>1, <2>2, <2>3 DEF Kept
<1>3. CASE Dispatch
  <2>1. \E h \in Groups : registry[h] # None
    BY <1>3 DEF Dispatch
  <2>2. \A g \in Groups : registry[g] # None
    BY <2>1
  <2>3. QED
    BY <1>3, <2>2 DEF Dispatch, Kept
<1>4. ASSUME NEW w \in Workers, WorkerStep(w) \/ Crash(w) PROVE MigrationInv'
  <2>1. UNCHANGED <<meta, registrar>>
    BY <1>4 DEF WorkerStep, Preload, Describe, Consider, Abort, DescribeRules, DeleteRules, PutRules,
                Rollback, PutRecord, Finish, Crash, Retry
  <2>2. requests # {} \/ Busy # {}
    BY <1>4 DEF WorkerStep, Preload, Describe, Consider, Abort, DescribeRules, DeleteRules, PutRules,
                Rollback, PutRecord, Finish, Crash, Busy
  <2>3. \A g \in Groups : MetaAtStart[g] # None => Kept(g, mdm[g])
    BY <2>2
  <2>5. \A v \in Workers : pc'[v] \notin {"idle", "describe"} =>
           pc[v] \notin {"idle", "describe"} \/ (v = w /\ Describe(w))
    <3>1. \E step : pc' = [pc EXCEPT ![w] = step]
      BY <1>4, StepOfWorker
    <3>2. \A v \in Workers : v # w => pc'[v] = pc[v]
      BY <3>1
    <3>3. CASE pc[w] \in {"idle", "describe"}
      <4>1. pc[w] = "idle" \/ pc[w] = "describe"
        BY <3>3
      <4>2. Describe(w) \/ Crash(w) \/ \E req \in requests : Preload(w, req)
        BY <1>4, <4>1 DEF WorkerStep, Consider, Abort, DescribeRules, DeleteRules, PutRules, Rollback,
                          PutRecord, Finish
      <4>3. Crash(w) => pc'[w] = "idle"
        BY DEF Crash, Retry, Reset
      <4>4. \A req \in requests : Preload(w, req) => pc'[w] = "describe"
        BY DEF Preload
      <4>5. QED
        BY <3>2, <4>2, <4>3, <4>4
    <3>4. QED
      BY <3>2, <3>3
  <2>6. ASSUME NEW v \in Workers, NEW g \in Groups, MetaAtStart[g] # None,
               pc'[v] \notin {"idle", "describe"}
        PROVE  Kept(g, seen'[v][g].mdm)
    <3>1. CASE v = w /\ Describe(w)
      <4>1. seen'[w][g].mdm = mdm[g]
        BY <3>1 DEF Describe
      <4>2. QED
        BY <2>3, <2>6, <3>1, <4>1 DEF Kept
    <3>2. CASE ~(v = w /\ Describe(w))
      <4>1. pc[v] \notin {"idle", "describe"}
        BY <2>5, <2>6, <3>2
      <4>2. seen'[v] = seen[v]
        BY <1>4, <2>6, <3>2 DEF WorkerStep, Preload, Describe, Consider, Abort, DescribeRules,
              DeleteRules, PutRules, Rollback, PutRecord, Finish, Crash, Retry, Reset
      <4>3. QED
        BY <2>6, <4>1, <4>2 DEF Kept
    <3>3. QED
      BY <3>1, <3>2
  <2>7. \A g \in Groups : MetaAtStart[g] # None => Kept(g, mdm'[g])
    <3>1. CASE mdm' = mdm
      BY <2>3, <3>1
    <3>2. CASE mdm' # mdm
      <4>1. PICK h \in Groups : Consider(w, h) /\ seen[w][h].mdm = None
        BY <1>4, <3>2 DEF WorkerStep, Preload, Describe, Consider, Abort, DescribeRules, DeleteRules,
                          PutRules, Rollback, PutRecord, Finish, Crash, Retry
      <4>2. pc[w] = "next"
        BY <4>1 DEF Consider
      <4>3. MetaAtStart[h] = None
        BY <4>1, <4>2 DEF Kept
      <4>4. QED
        BY <4>3
    <3>3. QED
      BY <3>1, <3>2
  <2>8. QED
    BY <2>1, <2>6, <2>7 DEF Kept
<1>5. QED
  BY <1>1, <1>2, <1>3, <1>4, RegistrarMigrates DEF Next

\* The only group of a target is migrated with the size of its metadata tag, however many
\* handlers, retries, deaths and duplicates there are, and whoever resizes it meanwhile.
THEOREM MigrationSafe == LoneGroup => (Spec => []MigrationKeepsSize)
<1> SUFFICES ASSUME LoneGroup PROVE Spec => []MigrationKeepsSize
  OBVIOUS
<1>1. Init => MigrationInv
  BY DEF Init, MigrationInv, Busy
<1>2. MigrationInv => MigrationKeepsSize
  BY DEF MigrationInv, MigrationKeepsSize, Kept
<1>3. TypeInv /\ MigrationInv /\ [Next]_vars => TypeInv' /\ MigrationInv'
  BY NextTypes, NextMigrates
<1>4. QED
  BY <1>1, <1>2, <1>3, InitTypes, PTL DEF Spec

-----------------------------------------------------------------------------
(* A record that says configured tells the truth *)

\* What the table may say of a schedule, and which of it people may have written before
\* which: the least transitive relation that contains the edits.
Choices == Definitions \union {None}
Transitive(R) == \A a, b, c \in Choices : <<a, b>> \in R /\ <<b, c>> \in R => <<a, c>> \in R
Earlier == {p \in Choices \X Choices :
              \A R \in SUBSET (Choices \X Choices) : Edits \subseteq R /\ Transitive(R) => p \in R}
UpTo(a, b) == a = b \/ <<a, b>> \in Earlier

\* Nobody edits a schedule back; one handler runs at a time, for one request, and does not
\* die; groups keep a tag, and people spoil size tags at most.
Forward == \A d \in Choices : <<d, d>> \notin Earlier
Serial ==
    /\ \A v, w \in Workers : v = w
    /\ MaxRequests <= 1
    /\ "crash" \notin FaultKinds
Steady ==
    /\ None \notin TagChoices
    /\ MdmChoices \subseteq {Corrupt}
    /\ ~InfoTagging

\* The definitions that requests carry, waiting or handled.
Views == {q.view : q \in requests} \union {request[w].view : w \in Busy}

\* Schedule s had definition d, and has it or has another that came later, in the table
\* and in every request; and it has it no more.
Reached(d, s) ==
    /\ UpTo(d, definition[s])
    /\ \A v \in Views : s \in DOMAIN v => UpTo(d, v[s])
Past(d, s) ==
    /\ <<d, definition[s]>> \in Earlier
    /\ \A v \in Views : s \in DOMAIN v => <<d, v[s]>> \in Earlier

Installed(g, config) == rules[g] = Actions(config.hash, config.size)

\* What a record says of its group is true: a configuration that may be confirmed is
\* installed, or is not what any cycle is going to ask for.
Honest(g, rec) ==
    /\ rec.stored = "configured" => rec.last # None /\ Installed(g, rec.last)
    /\ rec.last # None =>
          /\ Reached(rec.last.hash, rec.schedule)
          /\ mdm[g] \in {rec.last.size, Corrupt}
          /\ rec.last.valid => Installed(g, rec.last) \/ Past(rec.last.hash, rec.schedule)

\* The record of g is rec, or rec has expired or was overwritten by a registration.
Expired(rec) == [rec EXCEPT !.last.valid = FALSE]
Since(g, rec) ==
    \/ registry[g] = rec
    \/ registry[g] # None /\ registry[g].stored = "unknown" /\ registry[g].last = None
    \/ rec.last # None /\ registry[g] = Expired(rec)

\* There is one request, waiting or handled, with definitions of its time.
OneRequest ==
    /\ IsFiniteSet(requests) /\ \A q, r \in requests : q = r
    /\ requests = {} \/ Busy = {}
    /\ \A v \in Views, s \in Schedules : s \in DOMAIN v => UpTo(v[s], definition[s])

\* A registration is of a tagged group, and a group with the old tag has no record.
Migrating ==
    /\ \A g \in events : tag[g] # None
    /\ \A g \in Groups : meta[g] # None => registry[g] = None /\ mdm[g] \in {None, Corrupt, meta[g]}
    /\ registrar # NoRegistration =>
          /\ registrar.step \in {"migrate", "unmigrate", "register"} /\ tag[registrar.group] # None
          /\ registrar.step = "register" => meta[registrar.group] = None
          /\ registrar.step # "register" => meta[registrar.group] # None
                                              /\ registrar.meta = meta[registrar.group]

Truthful == \A g \in Groups : registry[g] # None /\ ~InHand(g) => Honest(g, registry[g])

\* So is what a handler preloaded of the groups it has yet to come to.
Remembered ==
    \A w \in Workers :
        /\ pc[w] \in {"idle", "describe"} => left[w] = {}
        /\ \A g \in Groups : (pc[w] = "describe" \/ g \in left[w]) /\ cache[w][g] # None
              => Honest(g, cache[w][g]) /\ Since(g, cache[w][g])

\* The size tag it saw of these is the one they have, and the one in their records.
Sighted ==
    \A w \in Workers : \A g \in left[w] :
        LET m == seen[w][g].mdm
        IN  /\ meta[g] # None => m \in {None, Corrupt, meta[g]}
            /\ m \notin {None, Corrupt} => mdm[g] \in {m, Corrupt}
            /\ \A rec \in {registry[g], cache[w][g]} :
                  rec # None /\ rec.last # None => m \in {rec.last.size, Corrupt}

\* The group at hand: nobody else writes its rules, its old configuration is not asked for
\* any more, and the record to be put is true.
AtWork ==
    \A w \in Workers :
        /\ plan[w] # NoPlan <=> pc[w] \in Changes \union {"record"}
        /\ pc[w] \in Changes \union {"record"} =>
              LET p == plan[w]
              IN  /\ p.group \notin left[w] /\ Since(p.group, p.old)
                  /\ pc[w] = "record" => Honest(p.group, p.new)
                  /\ pc[w] \in Changes =>
                        /\ mdm[p.group] \in {p.size, Corrupt}
                        /\ p.old.last # None =>
                              /\ p.old.last.size = p.size
                              /\ Reached(p.old.last.hash, p.old.schedule)
                              /\ p.old.last.valid => Past(p.old.last.hash, p.old.schedule)
                  /\ pc[w] = "delete" => p.backup = rules[p.group]
                  /\ pc[w] = "put" => DOMAIN rules[p.group] = {}
                  /\ pc[w] = "rollback" => p.new = Failed(w)

InstallInv == OneRequest /\ Migrating /\ Truthful /\ Remembered /\ Sighted /\ AtWork

LEMMA EarlierOrders ==
    /\ Edits \subseteq Earlier
    /\ \A a, b, c \in Choices : <<a, b>> \in Earlier /\ <<b, c>> \in Earlier => <<a, c>> \in Earlier
    /\ \A a, b, c \in Choices : UpTo(a, b) /\ UpTo(b, c) => UpTo(a, c)
    /\ \A a, b, c \in Choices : <<a, b>> \in Earlier /\ UpTo(b, c) => <<a, c>> \in Earlier
<1>1. Edits \subseteq Earlier
  BY AsgAssumption DEF Earlier, Choices
<1>2. ASSUME NEW a \in Choices, NEW b \in Choices, NEW c \in Choices,
             <<a, b>> \in Earlier, <<b, c>> \in Earlier
      PROVE  <<a, c>> \in Earlier
  <2>1. ASSUME NEW R \in SUBSET (Choices \X Choices), Edits \subseteq R, Transitive(R)
        PROVE  <<a, c>> \in R
    <3>1. <<a, b>> \in R /\ <<b, c>> \in R
      BY <1>2, <2>1 DEF Earlier
    <3>2. QED
      BY <2>1, <3>1 DEF Transitive
  <2>2. QED
    BY <2>1 DEF Earlier
<1>3. QED
  BY <1>1, <1>2 DEF UpTo

\* What was reached or is past stays so while the table moves on along the edits, and
\* requests carry what they carried or what the table says.
LEMMA ReachedStays ==
    ASSUME TypeInv, TypeInv', NEW s \in Schedules, NEW d \in Definitions,
           UpTo(definition[s], definition'[s]),
           \A v \in Views' : v \in Views \/ (s \in DOMAIN v => v[s] = definition[s])
    PROVE  /\ Reached(d, s) => Reached(d, s)'
           /\ Past(d, s) => Past(d, s)'
<1>1. d \in Choices /\ definition[s] \in Choices /\ definition'[s] \in Choices
  BY DEF TypeInv, TypeOK, Choices
<1>2. ASSUME Reached(d, s) PROVE Reached(d, s)'
  <2>1. UpTo(d, definition'[s])
    BY <1>1, <1>2, EarlierOrders DEF Reached
  <2>2. \A v \in Views' : s \in DOMAIN v => UpTo(d, v[s])
    BY <1>2 DEF Reached
  <2>3. QED
    BY <2>1, <2>2 DEF Reached
<1>3. ASSUME Past(d, s) PROVE Past(d, s)'
  <2>1. <<d, definition'[s]>> \in Earlier
    BY <1>1, <1>3, EarlierOrders DEF Past
  <2>2. \A v \in Views' : s \in DOMAIN v => <<d, v[s]>> \in Earlier
    BY <1>3 DEF Past
  <2>3. QED
    BY <2>1, <2>2 DEF Past
<1>4. QED
  BY <1>2, <1>3

\* Views and table go on as ReachedStays wants, for every schedule.
Onward ==
    \A s \in Schedules :
        /\ UpTo(definition[s], definition'[s])
        /\ \A v \in Views' : v \in Views \/ (s \in DOMAIN v => v[s] = definition[s])

LEMMA RecordParts ==
    ASSUME NEW rec \in Record, rec.last # None
    PROVE  /\ rec.last \in Configuration /\ rec.last.hash \in Definitions /\ rec.last.size \in AllSizes
           /\ Expired(rec) \in Record /\ Expired(rec) # None
           /\ Expired(rec).schedule = rec.schedule /\ Expired(rec).stored = rec.stored
           /\ Expired(rec).last # None /\ Expired(rec).last.valid = FALSE
           /\ Expired(rec).last.hash = rec.last.hash /\ Expired(rec).last.size = rec.last.size
           /\ Expired(Expired(rec)) = Expired(rec)
<1>1. rec.last \in Configuration
  BY DEF Record
<1> DEFINE old == [rec.last EXCEPT !.valid = FALSE]
<1>2. /\ old \in Configuration /\ old.valid = FALSE
      /\ old.hash = rec.last.hash /\ old.size = rec.last.size
      /\ [old EXCEPT !.valid = FALSE] = old
  BY <1>1 DEF Configuration
<1>3. Expired(rec) = [rec EXCEPT !.last = old]
  BY DEF Expired
<1>4. old # None
  BY <1>2, AsgAssumption
<1> HIDE DEF old
<1>5. /\ Expired(rec) \in Record /\ Expired(rec).last = old
      /\ Expired(rec).schedule = rec.schedule /\ Expired(rec).stored = rec.stored
  BY <1>2, <1>3 DEF Record
<1>6. Expired(Expired(rec)) = [Expired(rec) EXCEPT !.last = [old EXCEPT !.valid = FALSE]]
  BY <1>5 DEF Expired
<1>7. Expired(Expired(rec)) = Expired(rec)
  BY <1>2, <1>5, <1>6 DEF Record
<1>8. QED
  BY <1>1, <1>2, <1>4, <1>5, <1>7, AsgAssumption DEF Configuration

\* What a record says stays true while its group keeps its rules and its size tag.
LEMMA HonestStays ==
    ASSUME TypeInv, TypeInv', Onward, NEW g \in Groups, NEW rec \in Record, Honest(g, rec),
           rules'[g] = rules[g], rec.last # None => mdm'[g] \in {mdm[g], Corrupt}
    PROVE  Honest(g, rec)'
<1>1. CASE rec.last = None
  BY <1>1 DEF Honest
<1>2. CASE rec.last # None
  <2>1. rec.last.hash \in Definitions /\ rec.schedule \in Schedules
    BY <1>2, RecordParts DEF Record
  <2>2. Reached(rec.last.hash, rec.schedule)'
    BY <1>2, <2>1, ReachedStays DEF Honest, Onward
  <2>3. Past(rec.last.hash, rec.schedule) => Past(rec.last.hash, rec.schedule)'
    BY <2>1, ReachedStays DEF Onward
  <2>4. mdm'[g] \in {rec.last.size, Corrupt}
    BY <1>2 DEF Honest
  <2>5. Installed(g, rec.last)' <=> Installed(g, rec.last)
    BY DEF Installed
  <2>6. QED
    BY <1>2, <2>2, <2>3, <2>4, <2>5 DEF Honest
<1>3. QED
  BY <1>1, <1>2

\* If a record tells the truth, so does what became of it.
LEMMA SinceHonest ==
    ASSUME TypeOK, NEW g \in Groups, NEW rec \in Record, Since(g, rec)
    PROVE  /\ registry[g] \in Record /\ registry[g] # None
           /\ registry[g].last # None => rec.last # None /\ registry[g].last.size = rec.last.size
           /\ Honest(g, rec) => Honest(g, registry[g])
<1>1. CASE registry[g] = rec
  BY <1>1, AsgAssumption
<1>2. CASE registry[g] # None /\ registry[g].stored = "unknown" /\ registry[g].last = None
  BY <1>2 DEF TypeOK, Honest
<1>3. CASE rec.last # None /\ registry[g] = Expired(rec)
  BY <1>3, RecordParts DEF Honest, Installed
<1>4. QED
  BY <1>1, <1>2, <1>3 DEF Since

\* A record expires or is overwritten by a registration.
LEMMA SinceStays ==
    ASSUME TypeOK, NEW g \in Groups, NEW rec \in Record, Since(g, rec),
           \/ registry'[g] = registry[g]
           \/ registry'[g] # None /\ registry'[g].stored = "unknown" /\ registry'[g].last = None
           \/ registry[g].last # None /\ registry'[g] = Expired(registry[g])
    PROVE  Since(g, rec)'
<1>1. CASE registry[g].last # None /\ registry'[g] = Expired(registry[g])
  BY <1>1, RecordParts DEF Since
<1>2. QED
  BY <1>1 DEF Since

\* A record as a registration leaves it.
Fresh(rec) == rec # None /\ rec.stored = "unknown" /\ rec.last = None

\* What others may do to groups while a handler is at work: records expire and are
\* overwritten, size tags are spoilt and migrated.
Outside ==
    /\ Onward
    /\ UNCHANGED <<rules, workerVars>>
    /\ \A g \in Groups :
          /\ \/ registry'[g] = registry[g]
             \/ meta[g] = None /\ Fresh(registry'[g])
             \/ registry[g] # None /\ registry[g].last # None /\ registry'[g] = Expired(registry[g])
          /\ mdm'[g] \in {mdm[g], Corrupt} \/ (meta[g] # None /\ mdm'[g] = meta[g])
          /\ meta'[g] \in {meta[g], None}

LEMMA OutsideKeeps ==
    ASSUME TypeInv, TypeInv', InstallInv, Outside
    PROVE  Truthful' /\ Remembered' /\ Sighted' /\ AtWork'
<1> USE DEF InstallInv
<1>1. ASSUME NEW g \in Groups, NEW rec \in Record, Since(g, rec)
      PROVE  Since(g, rec)' /\ mdm'[g] \in {mdm[g], Corrupt} /\ (Honest(g, rec) => Honest(g, rec)')
  <2>1. registry[g] # None /\ TypeOK
    BY <1>1, SinceHonest DEF TypeInv
  <2>2. Since(g, rec)'
    BY <1>1, <2>1, SinceStays DEF Outside, Fresh
  <2>3. mdm'[g] \in {mdm[g], Corrupt}
    BY <2>1 DEF Outside, Migrating
  <2>4. QED
    BY <2>2, <2>3, HonestStays DEF Outside
<1>2. UNCHANGED workerVars /\ pc' = pc /\ plan' = plan /\ left' = left /\ cache' = cache /\ seen' = seen
      /\ request' = request
  BY DEF Outside, workerVars
<1>3. Truthful'
  <2>1. ASSUME NEW g \in Groups, registry'[g] # None, ~InHand(g) PROVE Honest(g, registry[g])'
    <3>1. CASE Fresh(registry'[g])
      BY <3>1 DEF Fresh, Honest
    <3>2. CASE registry'[g] = registry[g]
      <4>1. registry[g] \in Record /\ Honest(g, registry[g]) /\ Since(g, registry[g])
        BY <2>1, <3>2 DEF Truthful, TypeInv, TypeOK, Since
      <4>2. mdm'[g] \in {mdm[g], Corrupt}
        BY <1>1, <4>1
      <4>3. QED
        BY <3>2, <4>1, <4>2, HonestStays DEF Outside
    <3>3. CASE registry[g] # None /\ registry[g].last # None /\ registry'[g] = Expired(registry[g])
      <4> DEFINE rec == registry[g]
      <4>1. rec \in Record /\ Honest(g, rec) /\ Since(g, rec)
        BY <2>1, <3>3 DEF Truthful, TypeInv, TypeOK, Since
      <4>2. Expired(rec) \in Record /\ Honest(g, Expired(rec))
        BY <3>3, <4>1, RecordParts DEF Honest, Installed
      <4>3. mdm'[g] \in {mdm[g], Corrupt}
        BY <1>1, <4>1
      <4>4. QED
        BY <3>3, <4>2, <4>3, HonestStays DEF Outside
    <3>4. QED
      BY <3>1, <3>2, <3>3 DEF Outside
  <2>2. QED
    BY <1>2, <2>1 DEF Truthful, InHand
<1>4. Remembered'
  BY <1>1, <1>2 DEF Remembered, TypeInv, TypeOK
<1>5. Sighted'
  <2>1. ASSUME NEW w \in Workers, NEW g \in Groups, g \in left[w]
        PROVE  LET m == seen[w][g].mdm
               IN  /\ meta'[g] # None => m \in {None, Corrupt, meta'[g]}
                   /\ m \notin {None, Corrupt} => mdm'[g] \in {m, Corrupt}
                   /\ \A rec \in {registry'[g], cache[w][g]} :
                         rec # None /\ rec.last # None => m \in {rec.last.size, Corrupt}
    <3> DEFINE m == seen[w][g].mdm
    <3>1. /\ meta[g] # None => m \in {None, Corrupt, meta[g]}
          /\ m \notin {None, Corrupt} => mdm[g] \in {m, Corrupt}
          /\ registry[g] # None /\ registry[g].last # None => m \in {registry[g].last.size, Corrupt}
          /\ cache[w][g] # None /\ cache[w][g].last # None => m \in {cache[w][g].last.size, Corrupt}
      BY <2>1 DEF Sighted
    <3>2. registry[g] # None => registry[g] \in Record
      BY DEF TypeInv, TypeOK
    <3>3. registry'[g] # None /\ registry'[g].last # None => m \in {registry'[g].last.size, Corrupt}
      BY <3>1, <3>2, RecordParts DEF Outside, Fresh
    <3>4. QED
      BY <3>1, <3>3 DEF Outside
  <2>2. QED
    BY <1>2, <2>1 DEF Sighted, TypeInv, TypeOK
<1>6. AtWork'
  <2>1. ASSUME NEW w \in Workers, pc[w] \in Changes \union {"record"}, NEW p, p = plan[w]
        PROVE  /\ p.group \notin left[w] /\ Since(p.group, p.old)'
               /\ pc[w] = "record" => Honest(p.group, p.new)'
               /\ pc[w] \in Changes =>
                     /\ mdm'[p.group] \in {p.size, Corrupt}
                     /\ p.old.last # None =>
                           /\ p.old.last.size = p.size
                           /\ Reached(p.old.last.hash, p.old.schedule)'
                           /\ p.old.last.valid => Past(p.old.last.hash, p.old.schedule)'
               /\ pc[w] = "delete" => p.backup = rules[p.group]
               /\ pc[w] = "put" => DOMAIN rules[p.group] = {}
               /\ pc[w] = "rollback" => p.new = Failed(w)
    <3>1. p \in Plan /\ p.group \in Groups /\ p.old \in Record /\ p.new \in Record
      BY <2>1 DEF TypeInv, Handling, Plan
    <3>2. /\ p.group \notin left[w] /\ Since(p.group, p.old)
          /\ pc[w] = "record" => Honest(p.group, p.new)
          /\ pc[w] \in Changes => mdm[p.group] \in {p.size, Corrupt}
          /\ pc[w] \in Changes /\ p.old.last # None =>
                               /\ p.old.last.size = p.size
                               /\ Reached(p.old.last.hash, p.old.schedule)
                               /\ p.old.last.valid => Past(p.old.last.hash, p.old.schedule)
          /\ pc[w] = "delete" => p.backup = rules[p.group]
          /\ pc[w] = "put" => DOMAIN rules[p.group] = {}
          /\ pc[w] = "rollback" => p.new = Failed(w)
      BY <2>1 DEF AtWork
    <3>3. Since(p.group, p.old)' /\ mdm'[p.group] \in {mdm[p.group], Corrupt}
      BY <1>1, <3>1, <3>2
    <3>4. pc[w] = "record" => Honest(p.group, p.new)'
      BY <3>1, <3>2, <3>3, HonestStays DEF Outside
    <3>5. pc[w] \in Changes /\ p.old.last # None =>
             /\ Reached(p.old.last.hash, p.old.schedule)'
             /\ p.old.last.valid => Past(p.old.last.hash, p.old.schedule)'
      <4>1. p.old.last # None => p.old.last.hash \in Definitions /\ p.old.schedule \in Schedules
        BY <3>1, RecordParts DEF Record
      <4>2. QED
        BY <3>2, <4>1, ReachedStays DEF Outside, Onward
    <3>6. QED
      BY <3>2, <3>3, <3>4, <3>5
  <2>2. \A w \in Workers : plan[w] # NoPlan <=> pc[w] \in Changes \union {"record"}
    BY DEF AtWork
  <2>3. UNCHANGED rules /\ \A w \in Workers : Failed(w)' = Failed(w)
    BY <1>2 DEF Outside, Failed
  <2>4. QED
    BY <1>2, <2>1, <2>2, <2>3 DEF AtWork
<1>7. QED
  BY <1>3, <1>4, <1>5, <1>6

LEMMA ViewsType ==
    ASSUME TypeInv
    PROVE  Views \subseteq View /\ \A v \in View, s \in Schedules : s \in DOMAIN v => v[s] \in Definitions
<1>1. \A q \in Request : q.view \in View
  BY DEF Request
<1>2. Views \subseteq View
  BY <1>1 DEF Views, Busy, TypeInv, TypeOK, Handling
<1>3. QED
  BY <1>2 DEF View

\* As long as no request comes or goes, the table moves on.
LEMMA TableMoves ==
    ASSUME TypeInv, TypeInv', OneRequest, UNCHANGED <<requests, workerVars>>,
           \A s \in Schedules : UpTo(definition[s], definition'[s])
    PROVE  OneRequest' /\ Onward
<1>1. Views' = Views /\ Busy' = Busy
  BY DEF Views, Busy, workerVars
<1>2. ASSUME NEW v \in Views, NEW s \in Schedules, s \in DOMAIN v PROVE UpTo(v[s], definition'[s])
  <2>1. v[s] \in Choices /\ definition[s] \in Choices /\ definition'[s] \in Choices
    BY <1>2, ViewsType DEF TypeInv, TypeOK, Choices
  <2>2. UpTo(v[s], definition[s])
    BY <1>2 DEF OneRequest
  <2>3. QED
    BY <2>1, <2>2, EarlierOrders
<1>3. QED
  BY <1>1, <1>2 DEF OneRequest, Onward

LEMMA EnvironmentInstalls ==
    ASSUME Steady, TypeInv, TypeInv', InstallInv, Environment
    PROVE  InstallInv'
<1> USE DEF InstallInv, groupVars, tagVars
<1>1. ASSUME OneRequest', Onward, Migrating', UNCHANGED <<rules, workerVars, registry, meta>>,
             \A g \in Groups : mdm'[g] \in {mdm[g], Corrupt}
      PROVE  InstallInv'
  BY <1>1, OutsideKeeps DEF Outside
<1>2. ASSUME NEW s \in Schedules, NEW def \in Definitions \union {None}, EditSchedule(s, def)
      PROVE  InstallInv'
  <2>1. \A t \in Schedules : UpTo(definition[t], definition'[t])
    BY <1>2, EarlierOrders DEF EditSchedule, UpTo, TypeInv, TypeOK
  <2>2. OneRequest' /\ Onward
    BY <1>2, <2>1, TableMoves DEF EditSchedule
  <2>3. Migrating'
    BY <1>2 DEF EditSchedule, Migrating
  <2>4. QED
    BY <1>1, <1>2, <2>2, <2>3 DEF EditSchedule
<1>3. ASSUME UNCHANGED <<definition, requests, workerVars>> PROVE OneRequest' /\ Onward
  BY <1>3, TableMoves DEF UpTo
<1>4. ASSUME NEW g \in Groups, NEW n \in DOMAIN rules[g], RuleFires(g, n) PROVE InstallInv'
  BY <1>1, <1>3, <1>4 DEF RuleFires, Migrating
<1>5. ASSUME NEW g \in Groups, NEW z \in SizeChoices, UserResize(g, z) PROVE InstallInv'
  BY <1>1, <1>3, <1>5 DEF UserResize, Migrating
<1>6. ASSUME NEW g \in Groups, NEW m \in MdmChoices, UserWritesMdm(g, m) PROVE InstallInv'
  <2>1. \A h \in Groups : mdm'[h] \in {mdm[h], Corrupt}
    BY <1>6 DEF UserWritesMdm, Steady, TypeInv, TypeOK
  <2>2. Migrating'
    BY <1>6, <2>1 DEF UserWritesMdm, Migrating
  <2>3. QED
    BY <1>1, <1>3, <1>6, <2>1, <2>2 DEF UserWritesMdm
<1>7. ASSUME NEW g \in Groups, NEW s \in TagChoices, UserTag(g, s) PROVE InstallInv'
  <2>1. \A h \in Groups : tag[h] # None \/ h = g => tag'[h] # None
    BY <1>7 DEF UserTag, Steady, TypeInv, TypeOK
  <2>2. registrar # NoRegistration => registrar.group \in Groups
    BY DEF TypeInv, TypeOK, Registration
  <2>3. Migrating'
    BY <1>7, <2>1, <2>2 DEF UserTag, Migrating, TypeInv, TypeOK
  <2>4. QED
    BY <1>1, <1>3, <1>7, <2>3 DEF UserTag
<1>8. ASSUME NEW g \in Groups, Expire(g) PROVE InstallInv'
  <2>1. registry' = [registry EXCEPT ![g] = Expired(registry[g])] /\ registry[g] # None
        /\ registry[g].last # None
    BY <1>8 DEF Expire, Expired
  <2>2. meta[g] = None
    BY <2>1 DEF Migrating
  <2>3. Migrating'
    BY <1>8, <2>1, <2>2 DEF Expire, Migrating
  <2>4. Outside
    BY <1>3, <1>8, <2>1 DEF Expire, Outside, TypeInv, TypeOK
  <2>5. QED
    BY <1>3, <1>8, <2>3, <2>4, OutsideKeeps DEF Expire
<1>9. QED
  BY <1>2, <1>4, <1>5, <1>6, <1>7, <1>8 DEF Environment

LEMMA RegistrarInstalls ==
    ASSUME Steady, TypeInv, TypeInv', InstallInv,
           RegistrarStep \/ RegistrarCrash \/ \E g \in Groups : HandleEvent(g)
    PROVE  InstallInv'
<1> USE DEF InstallInv, groupVars
<1>1. ASSUME UNCHANGED <<definition, requests, rules, workerVars>>, Migrating',
             \A g \in Groups :
                /\ registry'[g] = registry[g] \/ (meta[g] = None /\ Fresh(registry'[g]))
                /\ mdm'[g] = mdm[g] \/ (meta[g] # None /\ mdm'[g] = meta[g])
                /\ meta'[g] \in {meta[g], None}
      PROVE  InstallInv'
  <2>1. OneRequest' /\ Onward
    BY <1>1, TableMoves DEF UpTo
  <2>2. Outside
    BY <1>1, <2>1 DEF Outside
  <2>3. QED
    BY <1>1, <2>1, <2>2, OutsideKeeps
<1>2. ASSUME registrar # NoRegistration
      PROVE  /\ registrar \in Registration /\ registrar.group \in Groups /\ tag[registrar.group] # None
             /\ registrar.step \in {"migrate", "unmigrate", "register"}
             /\ registrar.step = "register" => meta[registrar.group] = None
             /\ registrar.step # "register" => meta[registrar.group] # None
                                                 /\ registrar.meta = meta[registrar.group]
  BY <1>2 DEF Migrating, TypeInv, TypeOK, Registration
<1>3. ASSUME NEW g \in Groups, HandleEvent(g) PROVE InstallInv'
  <2>1. /\ tag[g] # None /\ registrar = NoRegistration /\ events' \subseteq events
        /\ UNCHANGED <<definition, groupVars, registry, requests, workerVars>>
    BY <1>3 DEF HandleEvent, Receive, Migrating
  <2>2. /\ registrar'.group = g /\ registrar'.step = IF meta[g] # None THEN "migrate" ELSE "register"
        /\ registrar'.meta = meta[g]
    BY <1>3, <2>1 DEF HandleEvent, Receive
  <2>3. Migrating'
    BY <2>1, <2>2 DEF Migrating
  <2>4. QED
    BY <1>1, <2>1, <2>3
<1>4. ASSUME NEW step, registrar # NoRegistration, RegistrarTo(step)
      PROVE  registrar'.step = step /\ registrar'.group = registrar.group /\ registrar'.meta = registrar.meta
  BY <1>2, <1>4 DEF RegistrarTo, Registration
<1>5. CASE Migrate
  <2>1. registrar # NoRegistration /\ registrar.step = "migrate" /\ RegistrarTo("unmigrate")
        /\ UNCHANGED <<definition, size, rules, tag, meta, registry, requests, workerVars, events>>
    BY <1>5 DEF Migrate, NoRegistration
  <2>2. /\ mdm' = [mdm EXCEPT ![registrar.group] = registrar.meta]
        /\ meta[registrar.group] # None /\ registrar.meta = meta[registrar.group]
    BY <1>2, <1>5, <2>1 DEF Migrate
  <2>3. \A g \in Groups : mdm'[g] = mdm[g] \/ (meta[g] # None /\ mdm'[g] = meta[g])
    BY <1>2, <2>1, <2>2 DEF TypeInv, TypeOK
  <2>4. Migrating'
    BY <1>2, <1>4, <2>1, <2>2, <2>3 DEF Migrating
  <2>5. QED
    BY <1>1, <2>1, <2>3, <2>4
<1>6. CASE Unmigrate
  <2>1. registrar # NoRegistration /\ registrar.step = "unmigrate" /\ RegistrarTo("register")
        /\ UNCHANGED <<definition, size, rules, tag, mdm, registry, requests, workerVars, events>>
    BY <1>6 DEF Unmigrate, NoRegistration
  <2>2. \A g \in Groups : meta'[g] = IF g = registrar.group THEN None ELSE meta[g]
    BY <1>2, <1>6, <2>1 DEF Unmigrate, TypeInv, TypeOK
  <2>3. Migrating'
    BY <1>2, <1>4, <2>1, <2>2 DEF Migrating
  <2>4. QED
    BY <1>1, <2>1, <2>2, <2>3
<1>7. CASE Register
  <2>1. registrar # NoRegistration /\ registrar.step = "register"
        /\ UNCHANGED <<definition, groupVars, requests, workerVars, events>>
    BY <1>7 DEF Register, NoRegistration
  <2>2. registrar' = NoRegistration
    BY <1>7 DEF Register, Steady
  <2>3. /\ meta[registrar.group] = None /\ registrar.schedule \in Schedules
    BY <1>2, <2>1 DEF TypeInv, Registering
  <2>4. \A g \in Groups : registry'[g] = registry[g] \/ (meta[g] = None /\ Fresh(registry'[g]))
    <3>1. [schedule |-> registrar.schedule, stored |-> "unknown", last |-> None] \in Record
      BY <2>3 DEF Record, AsgStates
    <3>2. Fresh([schedule |-> registrar.schedule, stored |-> "unknown", last |-> None])
      BY <3>1, AsgAssumption DEF Fresh
    <3>3. QED
      BY <1>7, <2>3, <3>2 DEF Register, TypeInv, TypeOK
  <2>5. Migrating'
    BY <2>1, <2>2, <2>4 DEF Migrating
  <2>6. QED
    BY <1>1, <2>1, <2>4, <2>5
<1>8. CASE RegistrarCrash
  <2>1. /\ registrar # NoRegistration /\ registrar' = NoRegistration
        /\ events' = events \union {registrar.group}
        /\ UNCHANGED <<definition, groupVars, registry, requests, workerVars>>
    BY <1>8 DEF RegistrarCrash
  <2>2. Migrating'
    BY <1>2, <2>1 DEF Migrating
  <2>3. QED
    BY <1>1, <2>1, <2>2
<1>9. CASE WriteSize \/ Clean \/ Deregister
  BY <1>2, <1>9 DEF WriteSize, Clean, Deregister, NoRegistration
<1>10. QED
  BY <1>3, <1>5, <1>6, <1>7, <1>8, <1>9 DEF RegistrarStep

LEMMA DispatchInstalls ==
    ASSUME Serial, TypeInv, TypeInv', InstallInv, Dispatch
    PROVE  InstallInv'
<1> DEFINE new == [view |-> [s \in Named |-> definition[s]], attempt |-> 1]
<1> USE DEF InstallInv
<1>1. requests' = requests \union {new}
      /\ UNCHANGED <<definition, groupVars, registry, workerVars, tagVars, faults>>
  BY DEF Dispatch
<1>2. requests = {} /\ Busy = {}
  <2>1. IsFiniteSet(Busy)
    <3>1. CASE Busy = {}
      BY <3>1, FS_EmptySet
    <3>2. CASE Busy # {}
      <4>1. PICK w : Busy = {w}
        BY <3>2 DEF Serial, Busy
      <4>2. QED
        BY <4>1, FS_Singleton
    <3>3. QED
      BY <3>1, <3>2
  <2>2. Cardinality(requests) \in Nat /\ Cardinality(Busy) \in Nat
    BY <2>1, FS_CardinalityType DEF OneRequest
  <2>3. Cardinality(requests) = 0 /\ Cardinality(Busy) = 0
    BY <2>2, AsgAssumption DEF Dispatch, Serial
  <2>4. QED
    BY <2>1, <2>3, FS_EmptySet DEF OneRequest
<1>3. Busy' = Busy /\ Views' = {new.view}
  BY <1>1, <1>2 DEF Busy, Views, workerVars
<1>4. \A s \in Schedules : s \in DOMAIN new.view => new.view[s] = definition[s]
  OBVIOUS
<1> HIDE DEF new
<1>5. OneRequest'
  <2>1. requests' = {new} /\ IsFiniteSet({new})
    BY <1>1, <1>2, FS_Singleton
  <2>2. \A v \in Views', s \in Schedules : s \in DOMAIN v => UpTo(v[s], definition'[s])
    BY <1>1, <1>3, <1>4 DEF UpTo
  <2>3. Busy' = {}
    BY <1>2, <1>3
  <2>4. QED
    BY <2>1, <2>2, <2>3 DEF OneRequest
<1>6. Outside
  BY <1>1, <1>3, <1>4 DEF Outside, Onward, UpTo, groupVars
<1>7. Migrating'
  BY <1>1 DEF Migrating, groupVars, tagVars
<1>8. QED
  BY <1>5, <1>6, <1>7, OutsideKeeps

LEMMA PlanIsPlan == NoPlan \notin Plan
<1>1. DOMAIN NoPlan = {"group"}
  BY DEF NoPlan
<1>2. \A p \in Plan : "old" \in DOMAIN p
  BY DEF Plan
<1>3. QED
  BY <1>1, <1>2

\* The only handler, busy, is the one whose request counts.
LEMMA OnlyHandler ==
    ASSUME Serial, TypeInv, InstallInv, NEW w \in Workers, pc[w] # "idle"
    PROVE  /\ Workers = {w} /\ Busy = {w} /\ requests = {} /\ Views = {request[w].view}
           /\ \A h \in Groups : InHand(h) <=> plan[w] # NoPlan /\ plan[w].group = h
<1>1. Workers = {w} /\ Busy = {w}
  BY DEF Serial, Busy
<1>2. requests = {}
  BY <1>1 DEF InstallInv, OneRequest
<1>3. QED
  BY <1>1, <1>2 DEF Views, InHand

\* A call about the rules of the group at hand leaves everything else as it was.
LEMMA AtHandKeeps ==
    ASSUME Serial, TypeInv, TypeInv', InstallInv, NEW w \in Workers,
           pc[w] \in Changes \union {"record"}, pc'[w] \in Changes \union {"record"},
           plan'[w].group = plan[w].group,
           \A h \in Groups : h # plan[w].group => rules'[h] = rules[h],
           UNCHANGED <<definition, size, tag, mdm, meta, registry, requests, request, cache, seen,
                       left, tagVars>>
    PROVE  /\ OneRequest' /\ Migrating' /\ Truthful' /\ Remembered' /\ Sighted'
           /\ Onward /\ plan'[w] \in Plan /\ plan'[w] # NoPlan
<1> USE DEF InstallInv
<1>1. /\ Workers = {w} /\ Busy = {w} /\ requests = {} /\ Views = {request[w].view}
      /\ \A h \in Groups : InHand(h) <=> plan[w] # NoPlan /\ plan[w].group = h
  BY OnlyHandler DEF Changes
<1>2. Busy' = {w} /\ Views' = Views
  BY <1>1 DEF Busy, Views, Changes
<1>3. plan[w] \in Plan /\ plan'[w] \in Plan
  BY DEF TypeInv, Handling
<1>4. plan[w] # NoPlan
  BY DEF AtWork
<1>5. plan'[w] # NoPlan
  BY <1>3, PlanIsPlan
<1>6. Onward
  BY <1>2 DEF Onward, UpTo
<1>7. OneRequest'
  BY <1>1, <1>2 DEF OneRequest
<1>8. Migrating' /\ Sighted'
  BY DEF Migrating, Sighted, tagVars
<1>9. ASSUME NEW h \in Groups, h # plan[w].group, NEW rec \in Record, Honest(h, rec)
      PROVE  Honest(h, rec)'
  BY <1>6, <1>9, HonestStays
<1>10. Truthful'
  <2>1. ASSUME NEW h \in Groups, registry[h] # None, h # plan[w].group PROVE Honest(h, registry[h])'
    <3>1. registry[h] \in Record /\ Honest(h, registry[h])
      BY <1>1, <2>1 DEF Truthful, TypeInv, TypeOK
    <3>2. QED
      BY <1>9, <2>1, <3>1
  <2>2. \A h \in Groups : ~InHand(h)' => h # plan[w].group
    BY <1>5 DEF InHand
  <2>3. QED
    BY <2>1, <2>2 DEF Truthful
<1>11. Remembered'
  <2>1. ASSUME NEW h \in left[w], cache[w][h] # None
        PROVE  Honest(h, cache[w][h])' /\ Since(h, cache[w][h])'
    <3>1. h \in Groups /\ h # plan[w].group /\ cache[w][h] \in Record
      BY <2>1 DEF AtWork, TypeInv, TypeOK
    <3>2. Honest(h, cache[w][h]) /\ Since(h, cache[w][h])
      BY <2>1, <3>1 DEF Remembered
    <3>3. Honest(h, cache[w][h])'
      BY <1>9, <3>1, <3>2
    <3>4. QED
      BY <3>2, <3>3 DEF Since
  <2>2. pc'[w] \notin {"idle", "describe"}
    BY DEF Changes
  <2>3. QED
    BY <1>1, <2>1, <2>2 DEF Remembered
<1>12. QED
  BY <1>3, <1>5, <1>6, <1>7, <1>8, <1>10, <1>11

\* The steps that change the rules of a group.
LEMMA ChangeInstalls ==
    ASSUME Serial, TypeInv, TypeInv', InstallInv, NEW w \in Workers,
           DescribeRules(w) \/ DeleteRules(w) \/ PutRules(w) \/ Rollback(w)
    PROVE  InstallInv'
<1> DEFINE same == UNCHANGED <<definition, size, tag, mdm, meta, registry, requests, request, cache,
                               seen, left, tagVars>>
<1> USE DEF InstallInv
<1>1. PICK p \in Plan : p = plan[w] /\ pc[w] \in Changes
  BY DEF DescribeRules, DeleteRules, PutRules, Rollback, Changes, TypeInv, Handling
<1>2. /\ p.group \in Groups /\ p.old \in Record /\ p.new \in Record /\ p.size \in AllSizes
      /\ p.backup \in Rules /\ p.old.schedule \in Schedules
      /\ p.old.last # None => p.old.last \in Configuration /\ p.old.last.hash \in Definitions
  BY RecordParts DEF Plan, Record
<1>3. /\ p.group \notin left[w] /\ Since(p.group, p.old) /\ mdm[p.group] \in {p.size, Corrupt}
      /\ p.old.last # None =>
            /\ p.old.last.size = p.size
            /\ Reached(p.old.last.hash, p.old.schedule)
            /\ p.old.last.valid => Past(p.old.last.hash, p.old.schedule)
      /\ pc[w] = "delete" => p.backup = rules[p.group]
      /\ pc[w] = "put" => DOMAIN rules[p.group] = {}
      /\ pc[w] = "rollback" => p.new = Failed(w)
  BY <1>1 DEF AtWork
<1>4. /\ Workers = {w} /\ Views = {request[w].view} /\ request[w] \in Request
      /\ \A h \in Groups : InHand(h) <=> plan[w] # NoPlan /\ plan[w].group = h
  BY <1>1, OnlyHandler DEF Changes, TypeInv, Handling
<1>5. /\ Failed(w) \in Record /\ Configured(w) \in Record
      /\ request[w].view[p.old.schedule] \in Definitions /\ p.old.schedule \in DOMAIN request[w].view
  BY <1>1, NewRecords DEF TypeInv, Handling
\* What a step that leaves other groups alone has to show of its own.
<1>6. ASSUME same, \A h \in Groups : h # p.group => rules'[h] = rules[h],
             NEW q \in Plan, plan' = [plan EXCEPT ![w] = q], q.group = p.group, q.old = p.old,
             q.size = p.size,
             NEW step \in {"delete", "put", "rollback", "record"}, pc' = [pc EXCEPT ![w] = step],
             Onward /\ step = "record" => Honest(p.group, q.new)',
             step = "delete" => q.backup = rules'[p.group],
             step = "put" => DOMAIN rules'[p.group] = {},
             step = "rollback" => q.new = Failed(w)
      PROVE  InstallInv'
  <2>1. plan'[w] = q /\ pc'[w] = step
    BY <1>6 DEF TypeInv, TypeOK
  <2>2. /\ OneRequest' /\ Migrating' /\ Truthful' /\ Remembered' /\ Sighted'
        /\ Onward /\ plan'[w] # NoPlan
    BY <1>1, <1>6, <2>1, AtHandKeeps DEF Changes
  <2>3. p.old.last # None =>
           /\ Reached(p.old.last.hash, p.old.schedule)'
           /\ p.old.last.valid => Past(p.old.last.hash, p.old.schedule)'
    BY <1>2, <1>3, <2>2, ReachedStays DEF Onward
  <2>4. Failed(w)' = Failed(w)
    BY <1>1, <1>6, <2>1 DEF Failed
  <2>5. Since(p.group, p.old)' /\ p.group \notin left'[w] /\ mdm'[p.group] \in {p.size, Corrupt}
    BY <1>3, <1>6 DEF Since
  <2>6. AtWork'
    BY <1>3, <1>4, <1>6, <2>1, <2>2, <2>3, <2>4, <2>5 DEF AtWork, Changes
  <2>7. QED
    BY <2>2, <2>6
<1>7. ASSUME same, Onward, NEW f \in Record, f = Failed(w) PROVE Honest(p.group, f)'
  <2>1. p.old.last # None =>
           /\ Reached(p.old.last.hash, p.old.schedule)'
           /\ p.old.last.valid => Past(p.old.last.hash, p.old.schedule)'
    BY <1>2, <1>3, <1>7, ReachedStays DEF Onward
  <2>2. f.stored = "configuration_failed" /\ f.last = p.old.last /\ f.schedule = p.old.schedule
    BY <1>1, <1>2, <1>7 DEF Failed, Record
  <2>3. p.old.last # None => mdm'[p.group] \in {p.old.last.size, Corrupt}
    BY <1>3, <1>7
  <2>4. QED
    BY <2>1, <2>2, <2>3 DEF Honest
<1>8. CASE DescribeRules(w)
  <2> DEFINE q == [p EXCEPT !.backup = rules[p.group]]
  <2>1. same /\ rules' = rules /\ pc' = [pc EXCEPT ![w] = "delete"] /\ plan' = [plan EXCEPT ![w] = q]
    BY <1>1, <1>8 DEF DescribeRules, groupVars
  <2>2. /\ q \in Plan /\ q.group = p.group /\ q.old = p.old /\ q.size = p.size
        /\ q.backup = rules[p.group]
    BY <1>2 DEF Plan, TypeInv, TypeOK
  <2> HIDE DEF q
  <2>3. QED
    BY <1>6, <2>1, <2>2
\* After a batch call.
<1>9. ASSUME NEW new \in Record, NEW step, Goes(w, step, new)
      PROVE  \E q \in Plan : /\ plan' = [plan EXCEPT ![w] = q] /\ pc' = [pc EXCEPT ![w] = step]
                             /\ q.group = p.group /\ q.old = p.old /\ q.size = p.size /\ q.new = new
                             /\ q.backup = p.backup
  <2> DEFINE q == [p EXCEPT !.new = new]
  <2>1. q \in Plan /\ q.group = p.group /\ q.old = p.old /\ q.size = p.size /\ q.new = new
        /\ q.backup = p.backup
    BY DEF Plan
  <2>2. plan' = [plan EXCEPT ![w] = q] /\ pc' = [pc EXCEPT ![w] = step]
    BY <1>1, <1>9 DEF Goes
  <2>3. QED
    BY <2>1, <2>2
<1>10. ASSUME same, NEW r, rules' = [rules EXCEPT ![p.group] = r], Goes(w, "record", Failed(w))
       PROVE  InstallInv'
  <2>1. PICK q \in Plan : /\ plan' = [plan EXCEPT ![w] = q] /\ pc' = [pc EXCEPT ![w] = "record"]
                          /\ q.group = p.group /\ q.old = p.old /\ q.size = p.size
                          /\ q.new = Failed(w)
    BY <1>5, <1>9, <1>10
  <2>2. Onward => Honest(p.group, q.new)'
    BY <1>5, <1>7, <1>10, <2>1
  <2>3. \A h \in Groups : h # p.group => rules'[h] = rules[h]
    BY <1>10 DEF TypeInv, TypeOK
  <2>4. QED
    BY <1>6, <1>10, <2>1, <2>2, <2>3
<1>11. CASE DeleteRules(w)
  <2>1. same /\ p.backup = rules[p.group]
    BY <1>3, <1>11 DEF DeleteRules
  <2>2. CASE /\ rules' = [rules EXCEPT ![p.group] = Without(@, DOMAIN p.backup)]
             /\ Goes(w, "put", p.new)
    <3>1. PICK q \in Plan : /\ plan' = [plan EXCEPT ![w] = q] /\ pc' = [pc EXCEPT ![w] = "put"]
                            /\ q.group = p.group /\ q.old = p.old /\ q.size = p.size
      BY <1>2, <1>9, <2>2
    <3>2. DOMAIN rules'[p.group] = {} /\ \A h \in Groups : h # p.group => rules'[h] = rules[h]
      BY <1>2, <2>1, <2>2 DEF Without, Restrict, TypeInv, TypeOK
    <3>3. QED
      BY <1>6, <2>1, <3>1, <3>2
  <2>3. ASSUME NEW gone, rules' = [rules EXCEPT ![p.group] = Without(@, gone)],
               Goes(w, "record", Failed(w))
        PROVE  InstallInv'
    BY <1>10, <2>1, <2>3
  <2>4. QED
    BY <1>1, <1>11, <2>2, <2>3 DEF DeleteRules, BatchDelete
<1>12. CASE PutRules(w)
  <2> DEFINE def == request[w].view[p.old.schedule]
             f == Actions(def, p.size)
  <2>1. same /\ DOMAIN rules[p.group] = {} /\ f \in Rules
    BY <1>2, <1>3, <1>5, <1>12, ActionsType DEF PutRules
  <2>2. CASE rules' = [rules EXCEPT ![p.group] = Overwrite(@, f)] /\ Goes(w, "record", Configured(w))
    <3>1. PICK q \in Plan : /\ plan' = [plan EXCEPT ![w] = q] /\ pc' = [pc EXCEPT ![w] = "record"]
                            /\ q.group = p.group /\ q.old = p.old /\ q.size = p.size
                            /\ q.new = Configured(w)
      BY <1>5, <1>9, <2>2
    <3>2. Overwrite(rules[p.group], f) = f
      BY <2>1 DEF Overwrite, Rules
    <3>3. rules'[p.group] = f /\ \A h \in Groups : h # p.group => rules'[h] = rules[h]
      BY <1>2, <2>2, <3>2 DEF TypeInv, TypeOK
    <3>4. PICK last \in Configuration : last = [size |-> p.size, hash |-> def, valid |-> TRUE]
      BY <1>2, <1>5 DEF Configuration
    <3>5. q.new.last = last /\ q.new.schedule = p.old.schedule
      BY <1>1, <1>2, <3>1, <3>4 DEF Configured, Record
    <3>6. Reached(def, p.old.schedule)
      BY <1>2, <1>4, <1>5 DEF Reached, OneRequest, UpTo
    <3>7. Onward => Reached(def, p.old.schedule)'
      <4>1. PICK d \in Definitions : d = def
        BY <1>5
      <4>2. request' = request
        BY <2>1
      <4>3. Onward => Reached(d, p.old.schedule)'
        BY <1>2, <3>6, <4>1, ReachedStays DEF Onward
      <4>4. QED
        BY <4>1, <4>2, <4>3
    <3>8. last # None
      BY AsgAssumption
    <3>9. last.hash = def /\ last.size = p.size
      BY <3>4
    <3>10. Onward => Honest(p.group, q.new)'
      BY <1>3, <2>1, <3>3, <3>5, <3>7, <3>8, <3>9 DEF Honest, Installed
    <3>11. QED
      BY <1>6, <2>1, <3>1, <3>3, <3>10
  <2>3. ASSUME NEW r, rules' = [rules EXCEPT ![p.group] = r], Goes(w, "rollback", Failed(w))
        PROVE  InstallInv'
    <3>1. PICK q \in Plan : /\ plan' = [plan EXCEPT ![w] = q] /\ pc' = [pc EXCEPT ![w] = "rollback"]
                            /\ q.group = p.group /\ q.old = p.old /\ q.size = p.size
                            /\ q.new = Failed(w)
      BY <1>5, <1>9, <2>3
    <3>2. \A h \in Groups : h # p.group => rules'[h] = rules[h]
      BY <2>3 DEF TypeInv, TypeOK
    <3>3. QED
      BY <1>6, <2>1, <3>1, <3>2
  <2>4. QED
    BY <1>1, <1>12, <2>2, <2>3 DEF PutRules, BatchPut
<1>13. CASE Rollback(w)
  <2>1. same /\ p.new = Failed(w)
    BY <1>3, <1>13 DEF Rollback
  <2>2. PICK r : rules' = [rules EXCEPT ![p.group] = r]
    BY <1>1, <1>13 DEF Rollback, BatchPut
  <2>3. Goes(w, "record", Failed(w))
    BY <1>1, <1>13, <2>1 DEF Rollback, BatchPut
  <2>4. QED
    BY <1>10, <2>1, <2>2, <2>3
<1>14. QED
  BY <1>8, <1>11, <1>12, <1>13

\* The next group is judged: what a valid configuration is compared with is what the size
\* tag and the request say.
LEMMA JudgeInstalls ==
    ASSUME Forward, Serial, TypeInv, TypeInv', InstallInv, NEW w \in Workers, NEW g \in Groups,
           Consider(w, g), Fetch(cache[w][g], g) # None
    PROVE  InstallInv'
<1> USE DEF InstallInv
<1>1. PICK rec \in Record, sighting \in Sighting, z \in AllSizes :
         rec = Fetch(cache[w][g], g) /\ sighting = seen[w][g] /\ z = Wanted(sighting)
         /\ rec # None /\ sighting.mdm # Corrupt
  <2>1. pc[w] = "next" /\ seen[w][g].mdm # Corrupt
    BY DEF Consider
  <2>2. Fetch(cache[w][g], g) \in Record
    BY FetchType DEF TypeInv, TypeOK
  <2>3. seen[w][g] \in Sighting
    BY <2>1 DEF TypeInv, Handling
  <2>4. Wanted(seen[w][g]) \in AllSizes
    BY <2>1, <2>3 DEF Wanted, Sighting, MdmTags
  <2>5. QED
    BY <2>1, <2>2, <2>3, <2>4
<1>2. /\ pc[w] = "next" /\ g \in left[w] /\ left' = [left EXCEPT ![w] = @ \ {g}]
      /\ mdm' = IF sighting.mdm = None THEN [mdm EXCEPT ![g] = sighting.size] ELSE mdm
      /\ Judge(w, g, rec, z)
      /\ UNCHANGED <<definition, size, rules, tag, meta, registry, requests, request, cache, seen,
                     tagVars, faults>>
  BY <1>1 DEF Consider
<1>3. /\ Workers = {w} /\ Busy = {w} /\ requests = {} /\ Views = {request[w].view}
      /\ plan[w] = NoPlan /\ \A h \in Groups : ~InHand(h)
  BY <1>2, OnlyHandler DEF AtWork, Changes
<1>4. Honest(g, rec) /\ Since(g, rec)
  BY <1>1, <1>2, <1>3 DEF Fetch, Remembered, Truthful, Since
<1>5. registry[g] # None /\ meta[g] = None
  BY <1>4, SinceHonest DEF TypeInv, Migrating
<1>6. rec.last # None => rec.last.size = z /\ mdm' = mdm
  <2>1. rec.last # None => sighting.mdm = rec.last.size
    BY <1>1, <1>2 DEF Sighted, Fetch
  <2>2. rec.last # None => rec.last.size # None
    BY RecordParts, AsgAssumption
  <2>3. QED
    BY <1>1, <1>2, <2>1, <2>2 DEF Wanted
<1>7. mdm'[g] \in {z, Corrupt} /\ \A h \in Groups : h # g => mdm'[h] = mdm[h]
  BY <1>1, <1>2 DEF Sighted, Wanted, TypeInv, TypeOK
<1>8. PICK step \in {"record", "rules"}, stored \in AsgStates :
         /\ pc' = [pc EXCEPT ![w] = step]
         /\ plan' = [plan EXCEPT ![w] = [group |-> g, size |-> z, old |-> rec,
                                         new |-> [rec EXCEPT !.stored = stored],
                                         backup |-> NoRules]]
         /\ step = "record" /\ stored = "configured" =>
               \/ stored = rec.stored
               \/ /\ StillValid(rec, z, request[w].view[rec.schedule])
                  /\ rec.schedule \in DOMAIN request[w].view
         /\ step = "rules" => /\ ~StillValid(rec, z, request[w].view[rec.schedule])
                              /\ rec.schedule \in DOMAIN request[w].view
  BY <1>2 DEF Judge, Record, AsgStates
<1>9. pc'[w] = step /\ Busy' = {w} /\ Views' = Views
  BY <1>2, <1>3, <1>8 DEF Busy, Views, TypeInv, TypeOK
<1>10. Onward
  BY <1>2, <1>9 DEF Onward, UpTo
<1>11. OneRequest'
  BY <1>2, <1>3, <1>9 DEF OneRequest
<1>12. Migrating'
  BY <1>2, <1>5, <1>7 DEF Migrating, tagVars
<1>13. \A h \in Groups, r \in Record : h # g /\ Honest(h, r) => Honest(h, r)'
  BY <1>2, <1>7, <1>10, HonestStays
<1>14. PICK q \in Plan : /\ q = plan'[w] /\ q.group = g /\ q.size = z /\ q.old = rec
                         /\ q.new = [rec EXCEPT !.stored = stored]
  BY <1>8, <1>9 DEF TypeInv, TypeOK, Handling, Changes
<1>15. q # NoPlan
  BY PlanIsPlan
<1>16. Truthful'
  <2>1. \A h \in Groups : ~InHand(h)' => h # g
    BY <1>14, <1>15 DEF InHand
  <2>2. ASSUME NEW h \in Groups, registry[h] # None, h # g PROVE Honest(h, registry[h])'
    <3>1. PICK r \in Record : r = registry[h]
      BY <2>2 DEF TypeInv, TypeOK
    <3>2. Honest(h, r)'
      BY <1>3, <1>13, <2>2, <3>1 DEF Truthful
    <3>3. QED
      BY <1>2, <3>1, <3>2
  <2>3. QED
    BY <1>2, <2>1, <2>2 DEF Truthful
<1>17. left'[w] = left[w] \ {g}
  BY <1>2 DEF TypeInv, TypeOK
<1>18. Remembered'
  <2>1. ASSUME NEW h \in left'[w], cache[w][h] # None
        PROVE  Honest(h, cache[w][h])' /\ Since(h, cache[w][h])'
    <3>1. h \in Groups /\ h \in left[w] /\ h # g /\ cache[w][h] \in Record
      BY <1>17, <2>1 DEF TypeInv, TypeOK
    <3>2. Honest(h, cache[w][h]) /\ Since(h, cache[w][h])
      BY <2>1, <3>1 DEF Remembered
    <3>3. PICK r \in Record : r = cache[w][h]
      BY <3>1
    <3>4. Honest(h, r)' /\ Since(h, r)'
      BY <1>2, <1>13, <3>1, <3>2, <3>3 DEF Since
    <3>5. QED
      BY <1>2, <3>3, <3>4
  <2>2. QED
    BY <1>2, <1>3, <1>9, <2>1 DEF Remembered
<1>19. Sighted'
  BY <1>2, <1>3, <1>7, <1>17 DEF Sighted, TypeInv, TypeOK
<1>20. q.old.last # None => Honest(g, rec)'
  BY <1>2, <1>4, <1>6, <1>10, <1>14, HonestStays
<1>21. rec.last # None => rec.last.hash \in Definitions /\ rec.schedule \in Schedules
  BY RecordParts DEF Record
<1>22. ASSUME step = "rules", rec.last # None, rec.last.valid
       PROVE  Past(rec.last.hash, rec.schedule)'
  <2> DEFINE def == request[w].view[rec.schedule]
  <2>1. def \in Definitions /\ def \in Choices /\ definition[rec.schedule] \in Choices
        /\ rec.last.hash \in Choices
    BY <1>3, <1>8, <1>21, <1>22, ViewsType DEF Choices, TypeInv, TypeOK
  <2>2. UpTo(rec.last.hash, def) /\ UpTo(def, definition[rec.schedule])
    BY <1>3, <1>4, <1>8, <1>21, <1>22 DEF Honest, Reached, OneRequest
  <2>3. rec.last.hash # def
    BY <1>6, <1>8, <1>22 DEF StillValid
  <2>4. <<rec.last.hash, def>> \in Earlier /\ <<rec.last.hash, definition[rec.schedule]>> \in Earlier
    BY <2>1, <2>2, <2>3, EarlierOrders DEF UpTo
  <2>5. Past(rec.last.hash, rec.schedule)
    BY <1>3, <2>4 DEF Past
  <2>6. QED
    BY <1>10, <1>21, <1>22, <2>5, ReachedStays DEF Onward
<1>23. ASSUME step = "record", StillValid(rec, z, request[w].view[rec.schedule]),
              rec.schedule \in DOMAIN request[w].view
       PROVE  rec.last # None /\ Installed(g, rec.last)
  <2>1. /\ rec.last # None /\ rec.last.valid /\ rec.last.hash = request[w].view[rec.schedule]
    BY <1>23 DEF StillValid
  <2>2. ~Past(rec.last.hash, rec.schedule)
    BY <1>3, <1>21, <1>23, <2>1 DEF Past, Forward, Choices
  <2>3. QED
    BY <1>4, <2>1, <2>2 DEF Honest
<1>24. step = "record" => Honest(g, q.new)'
  <2>1. q.new.last = rec.last /\ q.new.schedule = rec.schedule /\ q.new.stored = stored
    BY <1>14 DEF Record
  <2>2. step = "record" /\ stored = "configured" => rec.last # None /\ Installed(g, rec.last)
    BY <1>4, <1>8, <1>23 DEF Honest
  <2>3. Installed(g, rec.last)' <=> Installed(g, rec.last)
    BY <1>2 DEF Installed
  <2>4. QED
    BY <1>14, <1>20, <2>1, <2>2, <2>3 DEF Honest
<1>25. AtWork'
  <2>1. q.group \notin left'[w] /\ Since(q.group, q.old)'
    BY <1>2, <1>4, <1>14, <1>17 DEF Since
  <2>2. q.old.last # None => q.old.last.size = q.size /\ Reached(q.old.last.hash, q.old.schedule)'
    BY <1>6, <1>14, <1>20 DEF Honest
  <2>3. QED
    BY <1>3, <1>7, <1>8, <1>9, <1>14, <1>15, <1>22, <1>24, <2>1, <2>2 DEF AtWork, Changes
<1>26. QED
  BY <1>11, <1>12, <1>16, <1>18, <1>19, <1>25

\* A handler that has no group at hand, before and after, and changes none.
LEMMA FreeHandler ==
    ASSUME Serial, TypeInv, TypeInv', InstallInv, NEW w \in Workers,
           plan[w] = NoPlan, plan'[w] = NoPlan, pc'[w] \notin Changes \union {"record"},
           UNCHANGED <<definition, groupVars, registry, tagVars>>,
           \A v \in Views' : v \in Views
    PROVE  /\ Migrating' /\ Truthful' /\ AtWork'
           /\ \A h \in Groups : registry[h] # None => Honest(h, registry[h])
           /\ \A h \in Groups, r \in Record : Honest(h, r) => Honest(h, r)'
           /\ \A v \in Views', s \in Schedules : s \in DOMAIN v => UpTo(v[s], definition'[s])
<1> USE DEF InstallInv, groupVars, tagVars
<1>1. Workers = {w}
  BY DEF Serial
<1>2. Onward
  BY DEF Onward, UpTo
<1>3. \A h \in Groups, r \in Record : Honest(h, r) => Honest(h, r)'
  BY <1>2, HonestStays
<1>4. \A h \in Groups : registry[h] # None => registry[h] \in Record /\ Honest(h, registry[h])
  BY <1>1 DEF Truthful, InHand, TypeInv, TypeOK
<1>5. Truthful'
  <2>1. ASSUME NEW h \in Groups, registry[h] # None PROVE Honest(h, registry[h])'
    <3>1. PICK r \in Record : r = registry[h] /\ Honest(h, r)
      BY <1>4, <2>1
    <3>2. QED
      BY <1>3, <3>1
  <2>2. QED
    BY <2>1 DEF Truthful
<1>6. Migrating'
  BY DEF Migrating
<1>7. AtWork'
  BY <1>1 DEF AtWork
<1>8. \A v \in Views', s \in Schedules : s \in DOMAIN v => UpTo(v[s], definition'[s])
  BY DEF OneRequest
<1>9. QED
  BY <1>3, <1>4, <1>5, <1>6, <1>7, <1>8

\* A handler begins, sees the groups, passes one over and ends.
LEMMA FreeInstalls ==
    ASSUME Serial, TypeInv, TypeInv', InstallInv, NEW w \in Workers,
           \/ \E req \in requests : Preload(w, req)
           \/ Describe(w)
           \/ \E g \in Groups : Consider(w, g) /\ Fetch(cache[w][g], g) = None
           \/ \E g \in Groups : Abort(w, g)
           \/ Finish(w)
    PROVE  InstallInv'
<1> USE DEF InstallInv
<1>1. /\ Workers = {w} /\ plan[w] = NoPlan
      /\ UNCHANGED <<definition, groupVars, registry, tagVars>>
  BY DEF Serial, AtWork, Changes, Preload, Describe, Consider, Abort, Finish, Retry, groupVars
<1>2. ASSUME NEW req \in requests, Preload(w, req) PROVE InstallInv'
  <2>1. /\ requests = {req} /\ requests' = {} /\ pc[w] = "idle" /\ pc'[w] = "describe"
        /\ request'[w] = req /\ plan'[w] = NoPlan /\ left'[w] = {} /\ cache'[w] = registry
    BY <1>1, <1>2 DEF Preload, OneRequest, Remembered, TypeInv, TypeOK
  <2>2. Busy = {} /\ Busy' = {w} /\ Views' = {req.view} /\ req.view \in Views
    BY <1>1, <2>1 DEF Busy, Views
  <2>3. /\ Migrating' /\ Truthful' /\ AtWork'
        /\ \A h \in Groups : registry[h] # None => Honest(h, registry[h])
        /\ \A h \in Groups, r \in Record : Honest(h, r) => Honest(h, r)'
        /\ \A v \in Views', s \in Schedules : s \in DOMAIN v => UpTo(v[s], definition'[s])
    BY <1>1, <2>1, <2>2, FreeHandler DEF Changes
  <2>4. OneRequest'
    BY <2>1, <2>3, FS_EmptySet DEF OneRequest
  <2>5. ASSUME NEW h \in Groups, registry[h] # None
        PROVE  Honest(h, cache[w][h])' /\ Since(h, cache[w][h])'
    <3>1. PICK r \in Record : r = registry[h] /\ Honest(h, r)
      BY <2>3, <2>5 DEF TypeInv, TypeOK
    <3>2. Honest(h, r)' /\ Since(h, r)'
      BY <1>1, <2>3, <3>1 DEF Since
    <3>3. QED
      BY <2>1, <3>1, <3>2
  <2>6. Remembered' /\ Sighted'
    BY <1>1, <2>1, <2>5 DEF Remembered, Sighted
  <2>7. QED
    BY <2>3, <2>4, <2>6
<1>3. ASSUME requests' = requests, request' = request, cache' = cache, plan'[w] = NoPlan,
             pc[w] \in {"describe", "next"}, pc'[w] = "next",
             left'[w] \subseteq (IF pc[w] = "describe" THEN Groups ELSE left[w]), Sighted'
      PROVE  InstallInv'
  <2>1. Busy' = Busy /\ Views' = Views /\ Busy = {w}
    BY <1>1, <1>3 DEF Busy, Views
  <2>2. /\ Migrating' /\ Truthful' /\ AtWork'
        /\ \A h \in Groups, r \in Record : Honest(h, r) => Honest(h, r)'
        /\ \A v \in Views', s \in Schedules : s \in DOMAIN v => UpTo(v[s], definition'[s])
    BY <1>1, <1>3, <2>1, FreeHandler DEF Changes
  <2>3. OneRequest'
    BY <1>3, <2>1, <2>2 DEF OneRequest
  <2>4. ASSUME NEW h \in left'[w], cache[w][h] # None
        PROVE  Honest(h, cache[w][h])' /\ Since(h, cache[w][h])'
    <3>1. (h \in Groups /\ pc[w] = "describe") \/ h \in left[w]
      BY <1>3
    <3>2. PICK r \in Record : r = cache[w][h]
      BY <2>4, <3>1 DEF TypeInv, TypeOK
    <3>3. Honest(h, r) /\ Since(h, r) /\ h \in Groups
      BY <2>4, <3>1, <3>2 DEF Remembered, TypeInv, TypeOK
    <3>4. Honest(h, r)' /\ Since(h, r)'
      BY <1>1, <2>2, <3>3 DEF Since
    <3>5. QED
      BY <1>3, <3>2, <3>4
  <2>5. Remembered'
    BY <1>1, <1>3, <2>4 DEF Remembered
  <2>6. QED
    BY <1>3, <2>2, <2>3, <2>5
<1>4. CASE Describe(w)
  <2>1. /\ requests' = requests /\ request' = request /\ cache' = cache /\ plan'[w] = NoPlan
        /\ pc[w] = "describe" /\ pc'[w] = "next" /\ left'[w] \subseteq Groups
        /\ \A h \in Groups : seen'[w][h].mdm = mdm[h]
    BY <1>1, <1>4 DEF Describe, TypeInv, TypeOK
  <2>2. ASSUME NEW h \in Groups, NEW rec \in {registry[h], cache[w][h]}, rec # None, rec.last # None
        PROVE  mdm[h] \in {rec.last.size, Corrupt}
    <3>1. ~InHand(h)
      BY <1>1 DEF InHand
    <3>2. QED
      BY <2>1, <2>2, <3>1 DEF Truthful, Remembered, Honest
  <2>3. Sighted'
    BY <1>1, <2>1, <2>2 DEF Sighted, Migrating, groupVars
  <2>4. QED
    BY <1>3, <2>1, <2>3
<1>5. ASSUME NEW g \in Groups, Consider(w, g), Fetch(cache[w][g], g) = None PROVE InstallInv'
  <2>1. /\ requests' = requests /\ request' = request /\ cache' = cache /\ seen' = seen
        /\ plan'[w] = NoPlan /\ pc[w] = "next" /\ pc'[w] = "next" /\ left'[w] \subseteq left[w]
    BY <1>1, <1>5 DEF Consider, TypeInv, TypeOK
  <2>2. Sighted'
    BY <1>1, <2>1 DEF Sighted, groupVars
  <2>3. QED
    BY <1>3, <2>1, <2>2
<1>6. ASSUME pc[w] # "idle", Reset(w), IsFiniteSet(requests'), \A q, r \in requests' : q = r,
             \A q \in requests' : q.view = request[w].view
      PROVE  InstallInv'
  <2>1. pc'[w] = "idle" /\ plan'[w] = NoPlan /\ left'[w] = {}
    BY <1>6 DEF Reset, TypeInv, TypeOK
  <2>2. Busy' = {} /\ \A v \in Views' : v \in Views
    BY <1>1, <1>6, <2>1 DEF Busy, Views
  <2>3. /\ Migrating' /\ Truthful' /\ AtWork'
        /\ \A v \in Views', s \in Schedules : s \in DOMAIN v => UpTo(v[s], definition'[s])
    BY <1>1, <2>1, <2>2, FreeHandler DEF Changes
  <2>4. OneRequest'
    BY <1>6, <2>2, <2>3 DEF OneRequest
  <2>5. Remembered' /\ Sighted'
    BY <1>1, <2>1 DEF Remembered, Sighted
  <2>6. QED
    BY <2>3, <2>4, <2>5
<1>7. pc[w] # "idle" => requests = {}
  BY OnlyHandler
<1>8. CASE Finish(w)
  BY <1>6, <1>7, <1>8, FS_EmptySet DEF Finish
<1>9. ASSUME NEW g \in Groups, Abort(w, g) PROVE InstallInv'
  <2> DEFINE again == [request[w] EXCEPT !.attempt = @ + 1]
  <2>1. pc[w] = "next" /\ Reset(w) /\ requests' \in {{}, {again}}
    BY <1>7, <1>9 DEF Abort, Retry
  <2>2. again.view = request[w].view
    BY <2>1 DEF TypeInv, Handling, Request
  <2>3. IsFiniteSet({}) /\ IsFiniteSet({again})
    BY FS_EmptySet, FS_Singleton
  <2> HIDE DEF again
  <2>4. QED
    BY <1>6, <2>1, <2>2, <2>3
<1>10. QED
  BY <1>2, <1>4, <1>5, <1>8, <1>9

LEMMA PutInstalls ==
    ASSUME Serial, TypeInv, TypeInv', InstallInv, NEW w \in Workers, PutRecord(w)
    PROVE  InstallInv'
<1> USE DEF InstallInv
<1>1. PICK p \in Plan : p = plan[w] /\ p.group \in Groups /\ p.old \in Record /\ p.new \in Record
  BY DEF PutRecord, TypeInv, Handling, Plan
<1> DEFINE g == p.group
<1>2. /\ pc[w] = "record" /\ pc'[w] = "next" /\ plan'[w] = NoPlan
      /\ registry' = IF p.new = p.old THEN registry ELSE [registry EXCEPT ![g] = p.new]
      /\ UNCHANGED <<definition, groupVars, requests, request, cache, seen, left, tagVars, faults>>
  BY <1>1 DEF PutRecord, TypeInv, TypeOK
<1>3. g \notin left[w] /\ Since(g, p.old) /\ Honest(g, p.new)
  BY <1>1, <1>2 DEF AtWork
<1>4. /\ Workers = {w} /\ Busy = {w} /\ requests = {} /\ Views = {request[w].view}
      /\ \A h \in Groups : InHand(h) <=> plan[w] # NoPlan /\ plan[w].group = h
  BY <1>2, OnlyHandler
<1>5. Busy' = Busy /\ Views' = Views
  BY <1>2, <1>4 DEF Busy, Views
<1>6. Onward
  BY <1>2, <1>5 DEF Onward, UpTo
<1>7. OneRequest'
  BY <1>2, <1>5 DEF OneRequest
<1>8. registry[g] # None /\ meta[g] = None
  BY <1>1, <1>3, SinceHonest DEF TypeInv, Migrating
<1>9. \A h \in Groups : h # g => registry'[h] = registry[h]
  BY <1>1, <1>2 DEF TypeInv, TypeOK
<1>10. Migrating'
  BY <1>2, <1>8, <1>9 DEF Migrating, groupVars, tagVars
<1>11. \A h \in Groups, r \in Record : Honest(h, r) => Honest(h, r)'
  BY <1>2, <1>6, HonestStays DEF groupVars
<1>12. Truthful'
  <2>1. ASSUME NEW h \in Groups, registry'[h] # None PROVE Honest(h, registry[h])'
    <3>1. CASE h # g
      <4>1. PICK r \in Record : r = registry[h]
        BY <1>9, <2>1, <3>1 DEF TypeInv, TypeOK
      <4>2. Honest(h, r)'
        BY <1>1, <1>4, <1>9, <1>11, <2>1, <3>1, <4>1 DEF Truthful
      <4>3. QED
        BY <1>9, <3>1, <4>1, <4>2
    <3>2. CASE h = g /\ p.new # p.old
      <4>1. registry'[g] = p.new
        BY <1>1, <1>2, <3>2 DEF TypeInv, TypeOK
      <4>2. Honest(g, p.new)'
        BY <1>1, <1>3, <1>11
      <4>3. QED
        BY <3>2, <4>1, <4>2
    <3>3. CASE h = g /\ p.new = p.old
      <4>1. PICK r \in Record : r = registry[g] /\ Honest(g, r)
        BY <1>1, <1>3, <3>3, SinceHonest DEF TypeInv
      <4>2. Honest(g, r)'
        BY <1>1, <1>11, <4>1
      <4>3. QED
        BY <1>2, <3>3, <4>1, <4>2
    <3>4. QED
      BY <3>1, <3>2, <3>3
  <2>2. QED
    BY <2>1 DEF Truthful
<1>13. Remembered'
  <2>1. ASSUME NEW h \in left[w], cache[w][h] # None
        PROVE  Honest(h, cache[w][h])' /\ Since(h, cache[w][h])'
    <3>1. PICK r \in Record : r = cache[w][h] /\ h \in Groups /\ h # g
      BY <1>3, <2>1 DEF TypeInv, TypeOK
    <3>2. Honest(h, r) /\ Since(h, r)
      BY <2>1, <3>1 DEF Remembered
    <3>3. Honest(h, r)' /\ Since(h, r)'
      BY <1>9, <1>11, <3>1, <3>2 DEF Since
    <3>4. QED
      BY <1>2, <3>1, <3>3
  <2>2. QED
    BY <1>2, <1>4, <2>1 DEF Remembered
<1>14. Sighted'
  <2>1. \A h \in left[w] : h \in Groups /\ registry'[h] = registry[h]
    BY <1>3, <1>9 DEF TypeInv, TypeOK
  <2>2. QED
    BY <1>2, <1>4, <2>1 DEF Sighted, groupVars
<1>15. AtWork'
  BY <1>2, <1>4 DEF AtWork, Changes
<1>16. QED
  BY <1>7, <1>10, <1>12, <1>13, <1>14, <1>15

LEMMA InitInstalls == Steady /\ Init => InstallInv
<1> SUFFICES ASSUME Steady, Init PROVE InstallInv
  OBVIOUS
<1>1. Views = {} /\ Busy = {}
  BY DEF Init, Views, Busy
<1>2. OneRequest
  BY <1>1, FS_EmptySet DEF Init, OneRequest
<1>3. Migrating
  BY DEF Init, Migrating
<1>4. ASSUME NEW g \in Groups, registry[g] # None PROVE Honest(g, registry[g])
  BY <1>4 DEF Init, Honest
<1>5. Truthful
  BY <1>4 DEF Truthful
<1>6. Remembered /\ Sighted /\ AtWork
  BY DEF Init, Remembered, Sighted, AtWork, Changes
<1>7. QED
  BY <1>2, <1>3, <1>5, <1>6 DEF InstallInv

LEMMA NextInstalls ==
    Forward /\ Serial /\ Steady /\ TypeInv /\ InstallInv /\ [Next]_vars => InstallInv'
<1> SUFFICES ASSUME Forward, Serial, Steady, TypeInv, InstallInv, [Next]_vars PROVE InstallInv'
  OBVIOUS
<1>1. TypeInv'
  BY NextTypes
<1>2. CASE UNCHANGED vars
  <2>1. Onward /\ OneRequest'
    BY <1>1, <1>2, TableMoves DEF InstallInv, vars, UpTo
  <2>2. Outside
    BY <1>2, <2>1 DEF Outside, vars, groupVars
  <2>3. Migrating'
    BY <1>2 DEF InstallInv, Migrating, vars, groupVars, tagVars
  <2>4. QED
    BY <1>1, <2>1, <2>2, <2>3, OutsideKeeps DEF InstallInv
<1>3. ASSUME NEW w \in Workers, WorkerStep(w) \/ Crash(w) PROVE InstallInv'
  <2>1. ~Crash(w)
    BY DEF Crash, Fault, Serial
  <2>2. ASSUME NEW g \in Groups, Consider(w, g) PROVE InstallInv'
    BY <1>1, <2>2, JudgeInstalls, FreeInstalls
  <2>3. QED
    BY <1>1, <1>3, <2>1, <2>2, FreeInstalls, ChangeInstalls, PutInstalls DEF WorkerStep
<1>4. QED
  BY <1>1, <1>2, <1>3, EnvironmentInstalls, RegistrarInstalls, DispatchInstalls DEF Next

\* If nobody edits a schedule back, one cycle runs at a time and does not die, and groups
\* keep a tag and people their hands off the size tag: a record that says configured has
\* its configuration installed, for any number of groups, schedules and periods, while
\* groups are migrated, tagged anew, resized and registered twice, configurations expire,
\* and batches fail in part.
THEOREM InstalledSafe == Forward /\ Serial /\ Steady => (Spec => []ConfiguredIsInstalled)
<1> SUFFICES ASSUME Forward, Serial, Steady PROVE Spec => []ConfiguredIsInstalled
  OBVIOUS
<1>1. InstallInv => ConfiguredIsInstalled
  BY DEF InstallInv, Truthful, Honest, Installed, ConfiguredIsInstalled
<1>2. Init => TypeInv /\ InstallInv
  BY InitTypes, InitInstalls
<1>3. TypeInv /\ InstallInv /\ [Next]_vars => TypeInv' /\ InstallInv'
  BY NextTypes, NextInstalls
<1>4. QED
  BY <1>1, <1>2, <1>3, PTL DEF Spec
=============================================================================
