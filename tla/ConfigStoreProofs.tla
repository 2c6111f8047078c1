--------------------------- MODULE ConfigStoreProofs ---------------------------
(***************************************************************************)
(* Proofs about ConfigStore, for any tables, templates, stacks, requests   *)
(* and faults, and any number of requests of the client at once.  Only     *)
(* RestSafe, about what a stack at rest finds in the table, is of one      *)
(* stack with names of its own (OwnNames).                                 *)
(***************************************************************************)
EXTENDS ConfigStore, TLAPS

PeriodOps == {"create-period", "update-period", "delete-period"}
ScheduleOps == Writes \union {"delete-schedule"}

\* A request that has come past the steps of its command is one of those commands.
Handling ==
    \A c \in Clients : Busy(c) =>
        LET r == client[c].request IN
        /\ r \in CliRequests
        /\ client[c].at = "validate" => r.op \in Writes
        /\ client[c].at # "validate" => client[c].unchecked = {}
        /\ client[c].at = "find" => r.op # "create-period"
        /\ client[c].at = "unused" => r.op = "delete-period"

\* A stack has a request, with the templates its type is about, unless it rests.
Resting == {"absent", "complete", "stuck"}
Requesting ==
    \A k \in Stacks :
        /\ stack[k].status \notin Resting => stack[k].request \in RequestType
        /\ stack[k].status \in {"updating", "rolling"} => stack[k].request.old \in Templates
        /\ stack[k].request # None /\ stack[k].request.type = "Update"
              => stack[k].request.old \in Templates
        /\ stack[k].status \in Resting => stack[k].request = None /\ stack[k].answer = None
        /\ stack[k].status # "absent" => stack[k].template \in Templates

TypeInv == TypeOK /\ Handling /\ Requesting

\* Names people give are of people's periods, the others of stacks' periods.
OwnedNames ==
    \A p \in PeriodNames : Exists(p) => (p \in Hand <=> periods[p].owner = None)

\* A request that is to change a period has found it to be a person's.
ChangesHand ==
    \A c \in Clients :
        client[c].at \in {"unused", "write"} /\ client[c].request.op \in PeriodOps =>
            client[c].request.name \in Hand

\* A stack's schedule names periods of its own numbering.
OwnNumbering ==
    \A s \in Schedules :
        schedules[s] # None /\ schedules[s].owner # None =>
            schedules[s].periods \subseteq {s} \X (1 .. MaxPeriods)

\* What a request has validated is still there, or is in a race.
ValidatedKept ==
    \A c \in Clients : Busy(c) /\ client[c].request.op \in Writes =>
        \A p \in (client[c].request.periods \ client[c].unchecked) \intersect Hand :
            Exists(p) \/ p \in raced

\* What a request found unused is so, or is in a race.
UnusedKept ==
    \A c \in Clients : client[c].at = "write" /\ client[c].request.op = "delete-period" =>
        \A s \in FindByPeriod(client[c].request.name) : client[c].request.name \in raced

\* Requests that run at once race where the one deletes what the other names.
RacesSeen ==
    \A c, d \in Clients : c # d /\ Busy(c) /\ Busy(d) =>
        RacedBy(client[c].request, client[d].request) \subseteq raced

StackInv == TypeInv /\ OwnedNames /\ ChangesHand /\ OwnNumbering /\ StackSchedulesComplete
RaceInv == StackInv /\ ValidatedKept /\ UnusedKept /\ RacesSeen /\ ReferencesKept

-----------------------------------------------------------------------------
(* Lemmas about the operators *)

\* A template's periods have names of their own schedule.
LEMMA TemplateNames ==
    ASSUME NEW t \in Templates
    PROVE  /\ t \in Template
           /\ NamesOf(t) \subseteq {t.name} \X (1 .. MaxPeriods)
           /\ NamesOf(t) \subseteq PeriodNames
           /\ NamesOf(t) \intersect Hand = {}
<1>1. t \in Template /\ Len(t.periods) <= MaxPeriods /\ MaxPeriods \in Nat
  BY ConfigAssumption
<1>2. t.name \in Schedules /\ t.periods \in Seq(Contents)
  BY <1>1 DEF Template
<1>3. DOMAIN t.periods \subseteq 1 .. MaxPeriods
  BY <1>1, <1>2
<1>4. NamesOf(t) \subseteq {t.name} \X (1 .. MaxPeriods)
  BY <1>3 DEF NamesOf
<1>5. {t.name} \X (1 .. MaxPeriods) \subseteq Schedules \X (1 .. MaxPeriods)
  BY <1>2
<1>. QED
  BY <1>1, <1>4, <1>5, ConfigAssumption DEF PeriodNames

\* What a template is written as.
LEMMA TemplateItems ==
    ASSUME NEW k \in Stacks, NEW t \in Templates
    PROVE  /\ ScheduleOf(k, t) \in ScheduleItem
           /\ \A p \in NamesOf(t) : PeriodsOf(k, t)[p] \in PeriodItem
           /\ \A p \in NamesOf(t) : PeriodsOf(k, t)[p].owner = k
<1>1. t.content \in Contents /\ t.periods \in Seq(Contents) /\ NamesOf(t) \subseteq PeriodNames
  BY TemplateNames DEF Template
<1>2. ScheduleOf(k, t) \in ScheduleItem
  BY <1>1 DEF ScheduleOf, ScheduleItem, Owner
<1>3. ASSUME NEW p \in NamesOf(t)
      PROVE  PeriodsOf(k, t)[p] \in PeriodItem /\ PeriodsOf(k, t)[p].owner = k
  <2>1. p[2] \in DOMAIN t.periods
    BY <1>3 DEF NamesOf
  <2>2. t.periods[p[2]] \in Contents
    BY <1>1, <2>1
  <2>. QED
    BY <1>3, <2>2 DEF PeriodsOf, PeriodItem, Owner
<1>. QED
  BY <1>2, <1>3

\* A request of the client is about a period or about a schedule.
LEMMA AskedFor ==
    ASSUME NEW r \in CliRequests
    PROVE  /\ r.op \in PeriodOps \union ScheduleOps
           /\ r.op \in PeriodOps => /\ r.name \in PeriodNames /\ r.content \in Contents
                                    /\ PersonalPeriod(r) \in PeriodItem
           /\ r.op \in ScheduleOps => /\ r.name \in Schedules /\ r.content \in Contents
                                      /\ r.periods \subseteq PeriodNames
                                      /\ PersonalSchedule(r) \in ScheduleItem
           /\ r.op = "create-period" => r.name \in Hand
           /\ r # None
<1>1. r \in PeriodRequest \/ r \in ScheduleRequest
  BY ConfigAssumption
<1>2. CASE r \in PeriodRequest
  <2>1. r.op \in PeriodOps /\ r.name \in PeriodNames /\ r.content \in Contents
    BY <1>2 DEF PeriodRequest, PeriodOps, PeriodNames
  <2>. QED
    BY <2>1, ConfigAssumption
    DEF PeriodOps, ScheduleOps, Writes, PersonalPeriod, PeriodItem, Owner
<1>3. CASE r \in ScheduleRequest
  <2>1. r.op \in ScheduleOps /\ r.name \in Schedules /\ r.content \in Contents
        /\ r.periods \subseteq PeriodNames
    BY <1>3 DEF ScheduleRequest, ScheduleOps, Writes
  <2>. QED
    BY <2>1, ConfigAssumption
    DEF PeriodOps, ScheduleOps, Writes, PersonalSchedule, ScheduleItem, Owner
<1>. QED
  BY <1>1, <1>2, <1>3

-----------------------------------------------------------------------------
(* The table *)

TableType ==
    /\ schedules \in [Schedules -> ScheduleItem \union {None}]
    /\ periods \in [PeriodNames -> PeriodItem \union {None}]

TableInv == TableType /\ OwnedNames /\ OwnNumbering /\ StackSchedulesComplete

\* A transaction of a stack leaves people's periods alone and adds no use of them.
HandUntouched ==
    /\ \A p \in Hand : periods'[p] = periods[p]
    /\ \A s \in Schedules :
          \/ schedules'[s] = schedules[s]
          \/ schedules'[s] = None
          \/ /\ schedules'[s].owner # None
             /\ schedules'[s].periods \intersect Hand = {}

LEMMA PutKeepsTable ==
    ASSUME NEW k \in Stacks, NEW t \in Templates, TableInv, TransactPut(k, t)
    PROVE  TableInv' /\ HandUntouched
<1>1. t.name \in Schedules /\ NamesOf(t) \subseteq PeriodNames
      /\ NamesOf(t) \subseteq {t.name} \X (1 .. MaxPeriods) /\ NamesOf(t) \intersect Hand = {}
  BY TemplateNames DEF Template
<1>2. k # None /\ None \notin PeriodItem /\ None \notin ScheduleItem
  BY ConfigAssumption
<1>3. schedules' = [schedules EXCEPT ![t.name] = ScheduleOf(k, t)]
  BY DEF TransactPut
<1>4. /\ \A p \in NamesOf(t) : periods'[p] = PeriodsOf(k, t)[p]
      /\ \A p \in PeriodNames \ NamesOf(t) : periods'[p] = periods[p]
  BY <1>1 DEF TransactPut
<1>5. TableType'
  <2>1. periods' \in [PeriodNames -> PeriodItem \union {None}]
    BY TemplateItems DEF TransactPut, TableInv, TableType
  <2>. QED
    BY <1>1, <1>3, <2>1, TemplateItems DEF TableInv, TableType
<1>6. OwnedNames'
  BY <1>1, <1>2, <1>4, TemplateItems DEF TableInv, OwnedNames, Exists
<1>7. ASSUME NEW s \in Schedules
      PROVE  \/ s # t.name /\ schedules'[s] = schedules[s]
             \/ s = t.name /\ schedules'[s] = ScheduleOf(k, t)
  BY <1>1, <1>3 DEF TableInv, TableType
<1>8. /\ ScheduleOf(k, t).owner = k /\ ScheduleOf(k, t).periods = NamesOf(t)
  BY DEF ScheduleOf
<1>9. OwnNumbering'
  BY <1>1, <1>7, <1>8 DEF TableInv, OwnNumbering
<1>10. StackSchedulesComplete'
  <2>1. SUFFICES ASSUME NEW s \in Schedules, schedules'[s] # None,
                        schedules'[s].owner # None, NEW p \in schedules'[s].periods
                 PROVE  periods'[p] # None
    BY DEF StackSchedulesComplete, Exists
  <2>2. CASE s = t.name
    <3>1. p \in NamesOf(t)
      BY <1>7, <1>8, <2>1, <2>2
    <3>. QED
      BY <1>2, <1>4, <3>1, TemplateItems
  <2>3. CASE s # t.name
    <3>1. schedules'[s] = schedules[s]
      BY <1>7, <2>3
    <3>2. p \in {s} \X (1 .. MaxPeriods) /\ periods[p] # None
      BY <2>1, <3>1 DEF TableInv, OwnNumbering, StackSchedulesComplete, Exists
    <3>3. p \in PeriodNames \ NamesOf(t)
      BY <1>1, <2>3, <3>2 DEF PeriodNames
    <3>. QED
      BY <1>4, <3>2, <3>3
  <2>. QED
    BY <2>2, <2>3
<1>11. HandUntouched
  <2>1. ASSUME NEW p \in Hand PROVE periods'[p] = periods[p]
    BY <1>1, <1>4 DEF PeriodNames
  <2>. QED
    BY <1>1, <1>2, <1>7, <1>8, <2>1 DEF HandUntouched
<1>. QED
  BY <1>5, <1>6, <1>9, <1>10, <1>11 DEF TableInv

LEMMA DeleteKeepsTable ==
    ASSUME NEW t \in Templates, TableInv, TransactDelete(t)
    PROVE  TableInv' /\ HandUntouched
<1>1. t.name \in Schedules /\ NamesOf(t) \subseteq PeriodNames
      /\ NamesOf(t) \subseteq {t.name} \X (1 .. MaxPeriods) /\ NamesOf(t) \intersect Hand = {}
  BY TemplateNames DEF Template
<1>2. /\ schedules' = [schedules EXCEPT ![t.name] = None]
      /\ \A p \in NamesOf(t) : periods'[p] = None
      /\ \A p \in PeriodNames \ NamesOf(t) : periods'[p] = periods[p]
  BY <1>1 DEF TransactDelete
<1>3. TableType'
  BY <1>1 DEF TransactDelete, TableInv, TableType
<1>4. OwnedNames'
  BY <1>1, <1>2 DEF TableInv, OwnedNames, Exists
<1>5. ASSUME NEW s \in Schedules
      PROVE  \/ s # t.name /\ schedules'[s] = schedules[s]
             \/ s = t.name /\ schedules'[s] = None
  BY <1>1, <1>2 DEF TableInv, TableType
<1>6. OwnNumbering'
  BY <1>1, <1>5 DEF TableInv, OwnNumbering
<1>7. StackSchedulesComplete'
  <2>1. SUFFICES ASSUME NEW s \in Schedules, schedules'[s] # None,
                        schedules'[s].owner # None, NEW p \in schedules'[s].periods
                 PROVE  periods'[p] # None
    BY DEF StackSchedulesComplete, Exists
  <2>2. s # t.name /\ schedules'[s] = schedules[s]
    BY <1>5, <2>1
  <2>3. p \in {s} \X (1 .. MaxPeriods) /\ periods[p] # None
    BY <2>1, <2>2 DEF TableInv, OwnNumbering, StackSchedulesComplete, Exists
  <2>4. p \in PeriodNames \ NamesOf(t)
    BY <1>1, <2>2, <2>3 DEF PeriodNames
  <2>. QED
    BY <1>2, <2>3, <2>4
<1>8. HandUntouched
  <2>1. ASSUME NEW p \in Hand PROVE periods'[p] = periods[p]
    BY <1>1, <1>2 DEF PeriodNames
  <2>. QED
    BY <1>5, <2>1 DEF HandUntouched
<1>. QED
  BY <1>3, <1>4, <1>6, <1>7, <1>8 DEF TableInv

\* Whatever a stack's pending request does, or does not do, to the table.
LEMMA HandlerKeepsTable ==
    ASSUME NEW k \in Stacks, TypeInv, TableInv, Pending(k),
           Transaction(k, stack[k].request) \/ UNCHANGED tableVars
    PROVE  TableInv' /\ HandUntouched
<1>1. stack[k].request \in RequestType
  BY ConfigAssumption DEF TypeInv, TypeOK, Pending
<1>2. stack[k].request.new \in Templates
  BY <1>1 DEF RequestType
<1>3. CASE Transaction(k, stack[k].request)
  BY <1>2, <1>3, PutKeepsTable, DeleteKeepsTable DEF Transaction
<1>4. CASE UNCHANGED tableVars
  <2>1. UNCHANGED <<schedules, periods>>
    BY <1>4 DEF tableVars
  <2>. QED
    BY <2>1 DEF TableInv, TableType, OwnedNames, OwnNumbering, StackSchedulesComplete, Exists,
                HandUntouched
<1>. QED
  BY <1>3, <1>4

\* The last call of a command: a person's period is changed, or a schedule that the
\* table then holds for a person, or no longer.
LEMMA WriteKeepsTable ==
    ASSUME NEW c \in Clients, TypeInv, TableInv, ChangesHand, Write(c)
    PROVE  TableInv'
<1> DEFINE r == client[c].request
<1>1. r \in CliRequests /\ Busy(c)
  BY DEF Write, Busy, TypeInv, Handling
<1>2. None \notin PeriodItem /\ None \notin ScheduleItem
  BY ConfigAssumption
<1>3. CASE r.op \in PeriodOps
  <2>1. r.name \in Hand /\ r.name \in PeriodNames /\ PersonalPeriod(r) \in PeriodItem
        /\ PersonalPeriod(r).owner = None
    BY <1>1, <1>3, AskedFor DEF Write, ChangesHand, PersonalPeriod
  <2>2. /\ UNCHANGED schedules
        /\ \/ UNCHANGED periods
           \/ periods' = [periods EXCEPT ![r.name] = PersonalPeriod(r)]
           \/ periods' = [periods EXCEPT ![r.name] = None]
    BY <1>3 DEF Write, PeriodOps
  <2>3. /\ periods' \in [PeriodNames -> PeriodItem \union {None}]
        /\ \A p \in PeriodNames : p # r.name => periods'[p] = periods[p]
        /\ \/ periods'[r.name] = periods[r.name]
           \/ periods'[r.name] = None
           \/ periods'[r.name].owner = None
    BY <2>1, <2>2 DEF TableInv, TableType
  <2>4. TableType' /\ OwnedNames' /\ OwnNumbering'
    BY <2>1, <2>2, <2>3 DEF TableInv, TableType, OwnedNames, OwnNumbering, Exists
  <2>5. StackSchedulesComplete'
    <3>1. SUFFICES ASSUME NEW s \in Schedules, schedules[s] # None,
                          schedules[s].owner # None, NEW p \in schedules[s].periods
                   PROVE  periods'[p] # None
      BY <2>2 DEF StackSchedulesComplete, Exists
    <3>2. p \in {s} \X (1 .. MaxPeriods) /\ periods[p] # None
      BY <3>1 DEF TableInv, OwnNumbering, StackSchedulesComplete, Exists
    <3>3. p \notin Hand /\ p \in PeriodNames
      BY <3>2, ConfigAssumption DEF PeriodNames
    <3>. QED
      BY <2>1, <2>3, <3>2, <3>3
  <2>. QED
    BY <2>4, <2>5 DEF TableInv
<1>4. CASE r.op \in ScheduleOps
  <2>1. r.name \in Schedules /\ PersonalSchedule(r) \in ScheduleItem
        /\ PersonalSchedule(r).owner = None
    BY <1>1, <1>4, AskedFor DEF PersonalSchedule
  <2>2. /\ UNCHANGED periods
        /\ \/ UNCHANGED schedules
           \/ schedules' = [schedules EXCEPT ![r.name] = PersonalSchedule(r)]
           \/ schedules' = [schedules EXCEPT ![r.name] = None]
    BY <1>4 DEF Write, ScheduleOps, Writes
  <2>3. /\ schedules' \in [Schedules -> ScheduleItem \union {None}]
        /\ \A s \in Schedules : \/ schedules'[s] = schedules[s]
                                \/ schedules'[s] = None
                                \/ schedules'[s].owner = None
    BY <2>1, <2>2 DEF TableInv, TableType
  <2>. QED
    BY <2>2, <2>3 DEF TableInv, TableType, OwnedNames, OwnNumbering, StackSchedulesComplete,
                      Exists
<1>. QED
  BY <1>1, <1>3, <1>4, AskedFor

-----------------------------------------------------------------------------
(* Types *)

\* Steps of the client keep the types; at its last step the table keeps them by
\* WriteKeepsTable.
LEMMA ClientTypes ==
    ASSUME NEW c \in Clients, TypeInv, ClientStep(c), TableType'
    PROVE  TypeInv'
<1> USE DEF TypeInv, TypeOK
<1>1. UNCHANGED <<stack, faults, deploys>> /\ Requesting'
  BY DEF ClientStep, Ask, ValidatePeriod, Validated, Find, Unused, Write, Requesting
<1>2. CASE Ask(c)
  <2>1. PICK r \in CliRequests :
           /\ client' = [client EXCEPT ![c] =
                 [at |-> CASE r.op \in Writes -> "validate"
                           [] r.op = "create-period" -> "write"
                           [] OTHER -> "find",
                  request |-> r,
                  unchecked |-> IF r.op \in Writes THEN r.periods ELSE {}]]
           /\ raced' = raced \union RacedWith(r)
    BY <1>2 DEF Ask
  <2>2. r.op \in Writes => r.periods \subseteq PeriodNames
    BY AskedFor DEF ScheduleOps
  <2>3. asks' \in 0 .. MaxAsks
    BY <1>2, ConfigAssumption DEF Ask
  <2>4. raced' \subseteq PeriodNames
    <3>1. \A q \in CliRequests : RacedBy(r, q) \subseteq PeriodNames
      BY AskedFor DEF RacedBy, ScheduleOps
    <3>2. \A d \in Clients : Busy(d) => client[d].request \in CliRequests
      BY DEF Handling
    <3>3. RacedWith(r) \subseteq PeriodNames
      BY <3>1, <3>2 DEF RacedWith
    <3>. QED
      BY <2>1, <3>3
  <2>5. Handling'
    BY <2>1 DEF Handling, Busy, Writes
  <2>6. client' \in [Clients -> [at: {"idle", "validate", "find", "unused", "write"},
                                 request: CliRequests \union {None},
                                 unchecked: SUBSET PeriodNames]]
    BY <2>1, <2>2
  <2>. QED
    BY <1>1, <2>3, <2>4, <2>5, <2>6 DEF TableType
<1>3. CASE ~Ask(c)
  <2>1. UNCHANGED <<raced, asks>>
    BY <1>3 DEF ClientStep, ValidatePeriod, Validated, Find, Unused, Write
  <2>2. \/ client' = [client EXCEPT ![c] = Idle]
        \/ client[c].at = "validate"
              /\ \E p \in client[c].unchecked : client' = [client EXCEPT ![c].unchecked = @ \ {p}]
        \/ client[c].at = "validate" /\ client[c].unchecked = {} /\ client' =
              [client EXCEPT ![c].at =
                  IF client[c].request.op = "create-schedule" THEN "write" ELSE "find"]
        \/ client[c].at = "find" /\ client' = [client EXCEPT ![c].at =
                 IF client[c].request.op = "delete-period" THEN "unused" ELSE "write"]
        \/ client[c].at = "unused" /\ client' = [client EXCEPT ![c].at = "write"]
    BY <1>3 DEF ClientStep, ValidatePeriod, Validated, Find, Unused, Write, GoTo, Return
  <2>3. client' \in [Clients -> [at: {"idle", "validate", "find", "unused", "write"},
                                 request: CliRequests \union {None},
                                 unchecked: SUBSET PeriodNames]]
    BY <2>2 DEF Idle
  <2>4. Handling'
    BY <2>2 DEF Handling, Busy, Idle, Writes
  <2>. QED
    BY <1>1, <2>1, <2>3, <2>4 DEF TableType
<1>. QED
  BY <1>2, <1>3

\* Of CloudFormation and of the handler: the stack keeps its type.
LEMMA StackTypes ==
    ASSUME NEW k \in Stacks, TypeInv, StackStep(k), TableType'
    PROVE  TypeInv'
<1> USE DEF TypeInv, TypeOK
<1>1. UNCHANGED <<client, raced, asks>> /\ Handling'
  BY DEF StackStep, Deploy, Handle, Reject, Timer, Killed, Proceed, Handling, Busy
<1>2. faults' \in 0 .. MaxFaults /\ deploys' \in 0 .. MaxDeploys
  <2>1. /\ UNCHANGED faults \/ (faults < MaxFaults /\ faults' = faults + 1)
        /\ UNCHANGED deploys \/ (deploys < MaxDeploys /\ deploys' = deploys + 1)
    <3>1. CASE Deploy(k)
      BY <3>1 DEF Deploy
    <3>2. CASE Handle(k)
      BY <3>2 DEF Handle
    <3>3. CASE Reject(k) \/ Timer(k) \/ Killed(k)
      BY <3>3 DEF Reject, Timer, Killed, Fault
    <3>4. CASE Proceed(k)
      BY <3>4 DEF Proceed, Succeeded, Failed, Fault
    <3>. QED
      BY <3>1, <3>2, <3>3, <3>4 DEF StackStep
  <2>2. MaxFaults \in Nat /\ MaxDeploys \in Nat
    BY ConfigAssumption
  <2>. QED
    BY <2>1, <2>2
<1> DEFINE StackType == [status: Statuses, template: Templates \union {None},
                         request: RequestType \union {None},
                         answer: {"SUCCESS", "FAILED", None}, id: Schedules \union {None}]
<1>3. CASE \E answer \in {"SUCCESS", "FAILED"} : Pending(k) /\ Answer(k, answer)
  <2>1. stack' \in [Stacks -> StackType] /\ Requesting'
    BY <1>3 DEF Pending, Answer, Requesting
  <2>. QED
    BY <1>1, <1>2, <2>1 DEF TableType
<1>4. CASE UNCHANGED stack
  BY <1>1, <1>2, <1>4 DEF TableType, Requesting
<1> DEFINE Sound(s) ==
      /\ s \in StackType
      /\ s.status \notin Resting => s.request \in RequestType
      /\ s.status \in {"updating", "rolling"} => s.request.old \in Templates
      /\ s.request # None /\ s.request.type = "Update" => s.request.old \in Templates
      /\ s.status \in Resting => s.request = None /\ s.answer = None
      /\ s.status # "absent" => s.template \in Templates
<1>5. ASSUME NEW s, Sound(s), stack' = [stack EXCEPT ![k] = s]
      PROVE  TypeInv'
  <2>1. stack' \in [Stacks -> StackType] /\ Requesting'
    BY <1>5 DEF Requesting
  <2>. QED
    BY <1>1, <1>2, <2>1 DEF TableType
<1>6. Sound(stack[k])
  BY DEF Requesting
<1>7. ASSUME NEW t \in Templates PROVE t.name \in Schedules /\ t # None
  BY TemplateNames, ConfigAssumption DEF Template
<1>8. ASSUME NEW status \in Statuses, NEW t \in Templates, NEW q \in RequestType \union {None},
             NEW id \in Schedules \union {None}, Become(k, status, t, q, id),
             status \notin Resting => q # None,
             status \in Resting => q = None,
             q # None /\ q.type = "Update" => q.old \in Templates,
             status \in {"updating", "rolling"} => q.old \in Templates
      PROVE  TypeInv'
  <2>1. Sound([status |-> status, template |-> t, request |-> q, answer |-> None, id |-> id])
    BY <1>8
  <2>. QED
    BY <1>5, <1>8, <2>1 DEF Become
<1>9. CASE Deploy(k)
  <2>1. PICK t \in Templates :
          \/ Become(k, "creating", t, Request("Create", t, None), None)
          \/ /\ stack[k].status = "complete"
             /\ Become(k, "updating", stack[k].template,
                       Request("Update", t, stack[k].template), stack[k].id)
          \/ /\ stack[k].status = "complete"
             /\ Become(k, "removing", stack[k].template,
                       Request("Delete", stack[k].template, None), stack[k].id)
    BY <1>6, <1>9 DEF Deploy
  <2>2. ASSUME NEW old \in Templates
        PROVE  /\ Request("Create", t, None) \in RequestType
               /\ Request("Create", t, None).type = "Create"
               /\ Request("Update", t, old) \in RequestType
               /\ Request("Update", t, old).old = old
               /\ Request("Delete", old, None) \in RequestType
               /\ Request("Delete", old, None).type = "Delete"
    BY DEF Request, RequestType
  <2>3. stack[k].status = "complete" => stack[k].template \in Templates
    BY <1>6 DEF Resting
  <2>4. stack[k].id \in Schedules \union {None}
    OBVIOUS
  <2>5. None \notin RequestType
    BY ConfigAssumption
  <2>6. CASE Become(k, "creating", t, Request("Create", t, None), None)
    BY <1>8, <2>2, <2>5, <2>6 DEF Statuses, Resting
  <2>7. CASE /\ stack[k].status = "complete"
             /\ Become(k, "updating", stack[k].template,
                       Request("Update", t, stack[k].template), stack[k].id)
    BY <1>8, <2>2, <2>3, <2>4, <2>5, <2>7 DEF Statuses, Resting
  <2>8. CASE /\ stack[k].status = "complete"
             /\ Become(k, "removing", stack[k].template,
                       Request("Delete", stack[k].template, None), stack[k].id)
    BY <1>8, <2>2, <2>3, <2>4, <2>5, <2>8 DEF Statuses, Resting
  <2>. QED
    BY <2>1, <2>6, <2>7, <2>8
<1>10. CASE Proceed(k)
  <2> DEFINE x == stack[k]
             t == x.request.new
  <2>1. x.answer # None /\ x.status \notin Resting /\ x.request \in RequestType
    BY <1>6, <1>10, ConfigAssumption DEF Proceed, Succeeded, Failed
  <2>2. t \in Templates /\ t.name \in Schedules
    BY <1>7, <2>1 DEF RequestType
  <2>3. x.template \in Templates /\ x.id \in Schedules \union {None}
    BY <1>6, <2>1 DEF Resting
  <2>4. x.status \in {"updating", "rolling"} => x.request.old \in Templates
    BY <1>6
  <2>5. ASSUME NEW old \in Templates
        PROVE  /\ Request("Delete", old, None) \in RequestType
               /\ Request("Delete", old, None).type = "Delete"
               /\ Request("Update", old, t) \in RequestType
               /\ Request("Update", old, t).old = t
    BY <2>2 DEF Request, RequestType
  <2>6. None \notin RequestType
    BY ConfigAssumption
  <2>7. ASSUME Succeeded(k) PROVE TypeInv'
    <3>1. \/ Become(k, "complete", t, None, t.name)
          \/ /\ x.status \in {"updating", "rolling"}
             /\ Become(k, "cleaning", t, Request("Delete", x.request.old, None), t.name)
          \/ Become(k, "complete", x.template, None, x.id)
          \/ stack' = [stack EXCEPT ![k] = Absent]
      BY <2>1, <2>7 DEF Succeeded, Resting, Statuses
    <3>2. CASE Become(k, "complete", t, None, t.name)
      BY <1>8, <2>2, <3>2 DEF Statuses, Resting
    <3>3. CASE /\ x.status \in {"updating", "rolling"}
               /\ Become(k, "cleaning", t, Request("Delete", x.request.old, None), t.name)
      BY <1>8, <2>2, <2>4, <2>5, <2>6, <3>3 DEF Statuses, Resting
    <3>4. CASE Become(k, "complete", x.template, None, x.id)
      BY <1>8, <2>3, <3>4 DEF Statuses, Resting
    <3>5. CASE stack' = [stack EXCEPT ![k] = Absent]
      BY <1>5, <3>5 DEF Absent, Statuses, Resting
    <3>. QED
      BY <3>1, <3>2, <3>3, <3>4, <3>5
  <2>8. ASSUME Failed(k) PROVE TypeInv'
    <3>1. PICK id \in Schedules \union {None} : Undo(k, id)
      BY <2>2, <2>3, <2>8 DEF Failed
    <3>2. \/ Become(k, "removing", x.template, Request("Delete", x.template, None), id)
          \/ Become(k, "rolling", x.template, Request("Update", x.template, t), id)
          \/ Become(k, "complete", x.template, None, id)
          \/ Become(k, "stuck", x.template, None, id)
      BY <3>1 DEF Undo
    <3>3. CASE Become(k, "removing", x.template, Request("Delete", x.template, None), id)
      BY <1>8, <2>3, <2>5, <2>6, <3>3 DEF Statuses, Resting
    <3>4. CASE Become(k, "rolling", x.template, Request("Update", x.template, t), id)
      BY <1>8, <2>2, <2>3, <2>5, <2>6, <3>4 DEF Statuses, Resting
    <3>5. CASE \/ Become(k, "complete", x.template, None, id)
               \/ Become(k, "stuck", x.template, None, id)
      BY <1>8, <2>3, <3>5 DEF Statuses, Resting
    <3>. QED
      BY <3>2, <3>3, <3>4, <3>5
  <2>. QED
    BY <1>10, <2>7, <2>8 DEF Proceed
<1>. QED
  BY <1>3, <1>4, <1>9, <1>10 DEF StackStep, Handle, Reject, Timer, Killed

-----------------------------------------------------------------------------
(* Schedules of stacks *)

\* A request moves on to change a period only when it found a person's.
LEMMA ChangesHandStep ==
    ASSUME NEW c \in Clients, TypeInv, TableInv, ChangesHand, ClientStep(c)
    PROVE  ChangesHand'
<1>1. SUFFICES ASSUME NEW d \in Clients, client'[d].at \in {"unused", "write"},
                      client'[d].request.op \in PeriodOps
               PROVE  client'[d].request.name \in Hand
  BY DEF ChangesHand
<1>2. client \in [Clients -> [at: {"idle", "validate", "find", "unused", "write"},
                              request: CliRequests \union {None},
                              unchecked: SUBSET PeriodNames]]
  BY DEF TypeInv, TypeOK
<1>3. CASE client'[d] = client[d]
  BY <1>1, <1>3 DEF ChangesHand
<1>4. CASE client'[d] # client[d]
  <2>1. d = c
    BY <1>2, <1>4
       DEF ClientStep, Ask, ValidatePeriod, Validated, Find, Unused, Write, GoTo, Return
  <2>2. CASE Ask(c)
    <3>1. PICK r \in CliRequests :
             /\ client'[c].request = r
             /\ client'[c].at = CASE r.op \in Writes -> "validate"
                                  [] r.op = "create-period" -> "write"
                                  [] OTHER -> "find"
      BY <1>2, <2>2 DEF Ask
    <3>2. r.op = "create-period"
      BY <1>1, <2>1, <3>1
    <3>. QED
      BY <2>1, <3>1, <3>2, AskedFor
  <2>3. CASE Validated(c)
    BY <1>1, <1>2, <2>1, <2>3 DEF Validated, GoTo, TypeInv, Handling, Busy, Writes, PeriodOps
  <2>4. CASE Find(c)
    <3>1. client[c].request \in CliRequests /\ client[c].request.op # "create-period"
      BY <2>4 DEF Find, TypeInv, Handling, Busy
    <3>2. client'[c].request = client[c].request /\ client[c].request.op \in PeriodOps
      BY <1>1, <1>2, <2>1, <2>4 DEF Find, GoTo, Return, Idle
    <3>3. periods[client[c].request.name] # None
          /\ periods[client[c].request.name].owner = None
      BY <1>1, <1>2, <2>1, <2>4, <3>1, <3>2
         DEF Find, Return, Idle, IsManagedByCfn, PeriodOps
    <3>4. client[c].request.name \in PeriodNames
      BY <3>1, <3>2, AskedFor
    <3>. QED
      BY <2>1, <3>2, <3>3, <3>4 DEF TableInv, OwnedNames, Exists
  <2>5. CASE Unused(c)
    BY <1>1, <1>2, <2>1, <2>5 DEF Unused, GoTo, Return, Idle, ChangesHand
  <2>6. CASE ValidatePeriod(c) \/ Write(c)
    BY <1>1, <1>2, <2>1, <2>6 DEF ValidatePeriod, Write, Return, Idle
  <2>. QED
    BY <2>2, <2>3, <2>4, <2>5, <2>6 DEF ClientStep
<1>. QED
  BY <1>3, <1>4

LEMMA StackInvInit == Init => StackInv
<1> SUFFICES ASSUME Init PROVE StackInv
  OBVIOUS
<1>1. TypeInv
  BY ConfigAssumption
  DEF Init, TypeInv, TypeOK, Handling, Requesting, Resting, Idle, Busy, Absent, Statuses
<1>2. OwnedNames /\ ChangesHand /\ OwnNumbering /\ StackSchedulesComplete
  BY DEF Init, OwnedNames, Exists, ChangesHand, Idle, OwnNumbering, StackSchedulesComplete
<1>. QED
  BY <1>1, <1>2 DEF StackInv

LEMMA StackInvStep == StackInv /\ [Next]_vars => StackInv'
<1> SUFFICES ASSUME StackInv, [Next]_vars PROVE StackInv'
  OBVIOUS
<1>1. TypeInv /\ TableInv /\ ChangesHand
  BY DEF StackInv, TypeInv, TypeOK, TableInv, TableType
<1>2. ASSUME NEW k \in Stacks, StackStep(k) PROVE StackInv'
  <2>1. TableInv'
    <3>1. CASE Deploy(k) \/ Proceed(k)
      <4>1. UNCHANGED <<schedules, periods>>
        BY <3>1 DEF Deploy, Proceed, tableVars
      <4>. QED
        BY <1>1, <4>1 DEF TableInv, TableType, OwnedNames, OwnNumbering,
                          StackSchedulesComplete, Exists
    <3>2. CASE Handle(k) \/ Reject(k) \/ Timer(k) \/ Killed(k)
      <4>1. Pending(k) /\ (Transaction(k, stack[k].request) \/ UNCHANGED tableVars)
        BY <3>2 DEF Handle, Reject, Timer, Killed, tableVars
      <4>. QED
        BY <1>1, <4>1, HandlerKeepsTable
    <3>. QED
      BY <1>2, <3>1, <3>2 DEF StackStep
  <2>2. TypeInv'
    BY <1>1, <1>2, <2>1, StackTypes DEF TableInv
  <2>3. UNCHANGED client
    BY <1>2 DEF StackStep, Deploy, Handle, Reject, Timer, Killed, Proceed
  <2>4. ChangesHand'
    BY <1>1, <2>3 DEF ChangesHand
  <2>. QED
    BY <2>1, <2>2, <2>4 DEF StackInv, TableInv
<1>3. ASSUME NEW c \in Clients, ClientStep(c) PROVE StackInv'
  <2>1. TableInv'
    <3>1. CASE Write(c)
      BY <1>1, <3>1, WriteKeepsTable
    <3>2. CASE ~Write(c)
      <4>1. UNCHANGED <<schedules, periods>>
        BY <1>3, <3>2
        DEF ClientStep, Ask, ValidatePeriod, Validated, Find, Unused, tableVars
      <4>. QED
        BY <1>1, <4>1 DEF TableInv, TableType, OwnedNames, OwnNumbering,
                          StackSchedulesComplete, Exists
    <3>. QED
      BY <3>1, <3>2
  <2>2. TypeInv'
    BY <1>1, <1>3, <2>1, ClientTypes DEF TableInv
  <2>3. ChangesHand'
    BY <1>1, <1>3, ChangesHandStep
  <2>. QED
    BY <2>1, <2>2, <2>3 DEF StackInv, TableInv
<1>4. ASSUME UNCHANGED vars PROVE StackInv'
  BY <1>4 DEF vars, tableVars, StackInv, TypeInv, TypeOK, Handling, Requesting, Busy, OwnedNames,
              Exists, ChangesHand, OwnNumbering, StackSchedulesComplete
<1>. QED
  BY <1>2, <1>3, <1>4 DEF Next

\* The configuration table and its writers keep their types: the two stores of
\* model/store put schedules and periods and nothing else.
THEOREM TypeCorrect == Spec => []TypeOK
<1>1. StackInv => TypeOK
  BY DEF StackInv, TypeInv
<1>. QED
  BY <1>1, StackInvInit, StackInvStep, PTL DEF Spec

\* Whatever requests of the client and of any number of stacks are handled at once, and
\* whichever of them are rolled back or handled twice, a schedule of a stack has its
\* periods: delete_period_cmd refuses a stack's, also when its answer is old.
THEOREM StacksKeepPeriods == Spec => []StackSchedulesComplete
<1>1. StackInv => StackSchedulesComplete
  BY DEF StackInv
<1>. QED
  BY <1>1, StackInvInit, StackInvStep, PTL DEF Spec

-----------------------------------------------------------------------------
(* Schedules of persons *)

RacePart == ValidatedKept /\ UnusedKept /\ RacesSeen /\ ReferencesKept

ClientsType ==
    client \in [Clients -> [at: {"idle", "validate", "find", "unused", "write"},
                            request: CliRequests \union {None},
                            unchecked: SUBSET PeriodNames]]

\* Races are symmetric.
LEMMA RacedBoth ==
    ASSUME NEW r \in CliRequests, NEW q \in CliRequests
    PROVE  RacedBy(r, q) = RacedBy(q, r)
BY DEF RacedBy, Writes

\* Steps of stacks leave people's periods and schedules to people.
LEMMA StackRaces ==
    ASSUME RaceInv, HandUntouched, UNCHANGED <<client, raced>>
    PROVE  RacePart'
<1>1. ValidatedKept' /\ RacesSeen'
  BY DEF RaceInv, ValidatedKept, RacesSeen, Busy, Exists, HandUntouched
<1>2. UnusedKept'
  <2>1. SUFFICES ASSUME NEW d \in Clients, client[d].at = "write",
                        client[d].request.op = "delete-period", NEW s \in Schedules,
                        schedules'[s] # None, client[d].request.name \in schedules'[s].periods
                 PROVE  client[d].request.name \in raced
    BY DEF UnusedKept, FindByPeriod
  <2>2. client[d].request.name \in Hand
    BY <2>1 DEF RaceInv, StackInv, ChangesHand, PeriodOps
  <2>3. schedules'[s] = schedules[s]
    BY <2>1, <2>2 DEF HandUntouched
  <2>. QED
    BY <2>1, <2>3 DEF RaceInv, UnusedKept, FindByPeriod
<1>3. ReferencesKept'
  <2>1. SUFFICES ASSUME NEW s \in Schedules, schedules'[s] # None, schedules'[s].owner = None,
                        NEW p \in schedules'[s].periods \intersect Hand
                 PROVE  periods'[p] # None \/ p \in raced
    BY DEF ReferencesKept, Exists
  <2>2. schedules'[s] = schedules[s] /\ periods'[p] = periods[p]
    BY <2>1 DEF HandUntouched
  <2>. QED
    BY <2>1, <2>2 DEF RaceInv, ReferencesKept, Exists
<1>. QED
  BY <1>1, <1>2, <1>3 DEF RacePart

\* Steps of the client before its last.
LEMMA CheckRaces ==
    ASSUME NEW c \in Clients, RaceInv, ClientStep(c), ~Write(c)
    PROVE  RacePart'
<1>1. ClientsType /\ Handling
  BY DEF RaceInv, StackInv, TypeInv, TypeOK, ClientsType
<1>2. UNCHANGED <<schedules, periods>> /\ raced \subseteq raced'
  BY DEF ClientStep, Ask, ValidatePeriod, Validated, Find, Unused, tableVars
<1>3. \A d \in Clients \ {c} : client'[d] = client[d]
  BY <1>1 DEF ClientStep, Ask, ValidatePeriod, Validated, Find, Unused, GoTo, Return, ClientsType
<1>4. ReferencesKept'
  BY <1>2 DEF RaceInv, ReferencesKept, Exists
<1>5. CASE Ask(c)
  <2>1. PICK r \in CliRequests :
           /\ client'[c].request = r /\ client'[c].at # "unused"
           /\ client'[c].at = "write" => r.op = "create-period"
           /\ client'[c].unchecked = IF r.op \in Writes THEN r.periods ELSE {}
           /\ raced' = raced \union RacedWith(r)
    BY <1>1, <1>5 DEF Ask, ClientsType
  <2>2. ValidatedKept'
    BY <1>2, <1>3, <2>1 DEF RaceInv, ValidatedKept, Busy, Exists
  <2>3. UnusedKept'
    BY <1>2, <1>3, <2>1 DEF RaceInv, UnusedKept, FindByPeriod
  <2>4. ASSUME NEW d \in Clients, d # c, Busy(d)
        PROVE  /\ RacedBy(r, client[d].request) \subseteq raced'
               /\ RacedBy(client[d].request, r) \subseteq raced'
    <3>1. RacedBy(r, client[d].request) \subseteq raced'
      BY <2>1, <2>4 DEF RacedWith
    <3>2. client[d].request \in CliRequests
      BY <1>1, <2>4 DEF Handling
    <3>. QED
      BY <3>1, <3>2, RacedBoth
  <2>5. RacesSeen'
    <3>1. SUFFICES ASSUME NEW d \in Clients, NEW e \in Clients, d # e, Busy(d)', Busy(e)'
                   PROVE  RacedBy(client'[d].request, client'[e].request) \subseteq raced'
      BY DEF RacesSeen
    <3>2. CASE d # c /\ e # c
      BY <1>2, <1>3, <3>1, <3>2 DEF RaceInv, RacesSeen, Busy
    <3>3. CASE d = c
      BY <1>3, <2>1, <2>4, <3>1, <3>3 DEF Busy
    <3>4. CASE e = c
      BY <1>3, <2>1, <2>4, <3>1, <3>4 DEF Busy
    <3>. QED
      BY <3>2, <3>3, <3>4
  <2>. QED
    BY <1>4, <2>2, <2>3, <2>5 DEF RacePart
<1>6. CASE ~Ask(c)
  <2>1. \/ client'[c] = Idle
        \/ /\ client[c].at = "validate" /\ client'[c].at = "validate"
           /\ client'[c].request = client[c].request
           /\ \E p \in client[c].unchecked :
                 Exists(p) /\ client'[c].unchecked = client[c].unchecked \ {p}
        \/ /\ client[c].at \in {"validate", "find"}
           /\ client'[c].request = client[c].request
           /\ client'[c].unchecked = client[c].unchecked
           /\ client'[c].at = "write" => client[c].request.op # "delete-period"
        \/ /\ client[c].at = "unused" /\ FindByPeriod(client[c].request.name) = {}
           /\ client'[c].request = client[c].request
           /\ client'[c].unchecked = client[c].unchecked
    <3>1. CASE ValidatePeriod(c)
      BY <1>1, <3>1 DEF ValidatePeriod, Return, ClientsType
    <3>2. CASE Validated(c)
      BY <1>1, <3>2 DEF Validated, GoTo, ClientsType
    <3>3. CASE Find(c)
      BY <1>1, <3>3 DEF Find, GoTo, Return, ClientsType
    <3>4. CASE Unused(c)
      BY <1>1, <3>4 DEF Unused, GoTo, Return, ClientsType
    <3>. QED
      BY <1>6, <3>1, <3>2, <3>3, <3>4 DEF ClientStep
  <2>2. ValidatedKept'
    BY <1>2, <1>3, <2>1 DEF RaceInv, ValidatedKept, Busy, Exists, Idle
  <2>3. UnusedKept'
    BY <1>2, <1>3, <2>1 DEF RaceInv, UnusedKept, FindByPeriod, Idle
  <2>4. RacesSeen'
    BY <1>2, <1>3, <2>1 DEF RaceInv, RacesSeen, Busy, Idle
  <2>. QED
    BY <1>4, <2>2, <2>3, <2>4 DEF RacePart
<1>. QED
  BY <1>5, <1>6

\* The last step: of a deletion and a put that exclude each other by their checks,
\* one saw the other's write, or they were handled at once.
LEMMA WriteRaces ==
    ASSUME NEW c \in Clients, RaceInv, Write(c)
    PROVE  RacePart'
<1> DEFINE r == client[c].request
<1>1. ClientsType /\ Handling /\ TableType /\ ChangesHand
  BY DEF RaceInv, StackInv, TypeInv, TypeOK, ClientsType, TableType
<1>2. Busy(c) /\ r \in CliRequests /\ client[c].unchecked = {} /\ raced' = raced
  BY <1>1 DEF Write, Busy, Handling
<1>3. client'[c] = Idle /\ \A d \in Clients \ {c} : client'[d] = client[d]
  BY <1>1 DEF Write, Return, ClientsType
<1>4. RacesSeen'
  BY <1>2, <1>3 DEF RaceInv, RacesSeen, Busy, Idle
<1>5. ASSUME NEW d \in Clients \ {c}, Busy(d)
      PROVE  /\ RacedBy(client[d].request, r) \subseteq raced
             /\ client[d].request \in CliRequests
  BY <1>1, <1>2, <1>5 DEF RaceInv, RacesSeen, Handling
<1>6. CASE r.op = "delete-period"
  <2>1. r.name \in Hand /\ r.name \in PeriodNames
    BY <1>1, <1>2, <1>6, AskedFor DEF ChangesHand, Write, PeriodOps
  <2>2. schedules' = schedules /\ \A p \in PeriodNames : p # r.name => periods'[p] = periods[p]
    BY <1>1, <1>6 DEF Write, TableType
  <2>3. ReferencesKept'
    BY <1>1, <1>2, <1>6, <2>1, <2>2
    DEF RaceInv, ReferencesKept, UnusedKept, FindByPeriod, Exists, Write, PeriodNames
  <2>4. UnusedKept'
    BY <1>2, <1>3, <2>2 DEF RaceInv, UnusedKept, FindByPeriod, Idle
  <2>5. ValidatedKept'
    <3>1. SUFFICES ASSUME NEW d \in Clients \ {c}, Busy(d), client[d].request.op \in Writes,
                          NEW p \in (client[d].request.periods \ client[d].unchecked)
                                        \intersect Hand
                   PROVE  periods'[p] # None \/ p \in raced
      BY <1>2, <1>3 DEF ValidatedKept, Busy, Idle, Exists
    <3>2. p \in PeriodNames
      BY <3>1 DEF PeriodNames
    <3>3. p = r.name => p \in RacedBy(client[d].request, r)
      BY <1>6, <3>1 DEF RacedBy, Writes
    <3>. QED
      BY <1>5, <2>2, <3>1, <3>2, <3>3 DEF RaceInv, ValidatedKept, Exists
  <2>. QED
    BY <1>4, <2>3, <2>4, <2>5 DEF RacePart
<1>7. CASE r.op \in Writes
  <2>1. r.name \in Schedules /\ periods' = periods
    BY <1>2, <1>7, AskedFor DEF Write, Writes, ScheduleOps
  <2>2. \A s \in Schedules : \/ schedules'[s] = schedules[s]
                             \/ schedules'[s] = PersonalSchedule(r)
    BY <1>1, <1>7, <2>1 DEF Write, Writes, TableType
  <2>3. ValidatedKept'
    BY <1>2, <1>3, <2>1 DEF RaceInv, ValidatedKept, Busy, Idle, Exists
  <2>4. \A p \in r.periods \intersect Hand : Exists(p) \/ p \in raced
    BY <1>2, <1>7 DEF RaceInv, ValidatedKept
  <2>5. ReferencesKept'
    BY <1>2, <2>1, <2>2, <2>4 DEF RaceInv, ReferencesKept, PersonalSchedule, Exists
  <2>6. UnusedKept'
    <3>1. SUFFICES ASSUME NEW d \in Clients \ {c}, client[d].at = "write",
                          client[d].request.op = "delete-period", NEW s \in Schedules,
                          schedules'[s] # None, client[d].request.name \in schedules'[s].periods
                   PROVE  client[d].request.name \in raced
      BY <1>2, <1>3 DEF UnusedKept, FindByPeriod, Idle
    <3>2. CASE schedules'[s] = schedules[s]
      BY <3>1, <3>2 DEF RaceInv, UnusedKept, FindByPeriod
    <3>3. CASE schedules'[s] = PersonalSchedule(r)
      <4>1. client[d].request.name \in RacedBy(client[d].request, r)
        BY <1>7, <3>1, <3>3 DEF RacedBy, PersonalSchedule
      <4>. QED
        BY <1>5, <3>1, <4>1 DEF Busy
    <3>. QED
      BY <2>2, <3>2, <3>3
  <2>. QED
    BY <1>4, <2>3, <2>5, <2>6 DEF RacePart
<1>8. CASE r.op \in {"create-period", "update-period", "delete-schedule"}
  <2>1. /\ r.op # "delete-schedule" => r.name \in PeriodNames /\ PersonalPeriod(r) \in PeriodItem
        /\ r.op = "delete-schedule" => r.name \in Schedules
        /\ None \notin PeriodItem
    BY <1>2, <1>8, AskedFor, ConfigAssumption DEF PeriodOps, ScheduleOps
  <2>2. /\ \A p \in PeriodNames : periods'[p] = periods[p] \/ periods'[p] # None
        /\ \A s \in Schedules : schedules'[s] = schedules[s] \/ schedules'[s] = None
    BY <1>1, <1>8, <2>1 DEF Write, TableType
  <2>3. ValidatedKept' /\ UnusedKept'
    BY <1>2, <1>3, <2>2
    DEF RaceInv, ValidatedKept, UnusedKept, FindByPeriod, Busy, Idle, Exists, PeriodNames
  <2>4. ReferencesKept'
    BY <1>2, <2>2 DEF RaceInv, ReferencesKept, Exists, PeriodNames
  <2>. QED
    BY <1>4, <2>3, <2>4 DEF RacePart
<1>. QED
  BY <1>2, <1>6, <1>7, <1>8, AskedFor DEF PeriodOps, ScheduleOps, Writes

LEMMA RaceInvInit == Init => RaceInv
<1> SUFFICES ASSUME Init PROVE RaceInv
  OBVIOUS
<1>1. ValidatedKept /\ UnusedKept /\ RacesSeen /\ ReferencesKept
  BY DEF Init, ValidatedKept, UnusedKept, RacesSeen, ReferencesKept, Busy, Idle
<1>. QED
  BY <1>1, StackInvInit DEF RaceInv

LEMMA RaceInvStep == RaceInv /\ [Next]_vars => RaceInv'
<1> SUFFICES ASSUME RaceInv, [Next]_vars PROVE RaceInv'
  OBVIOUS
<1>1. StackInv'
  BY StackInvStep DEF RaceInv
<1>2. ASSUME NEW k \in Stacks, StackStep(k) PROVE RacePart'
  <2>1. TypeInv /\ TableInv
    BY DEF RaceInv, StackInv, TypeInv, TypeOK, TableInv, TableType
  <2>2. UNCHANGED <<client, raced>>
    BY <1>2 DEF StackStep, Deploy, Handle, Reject, Timer, Killed, Proceed
  <2>3. HandUntouched
    <3>1. CASE Deploy(k) \/ Proceed(k)
      BY <3>1 DEF Deploy, Proceed, tableVars, HandUntouched
    <3>2. CASE Handle(k) \/ Reject(k) \/ Timer(k) \/ Killed(k)
      <4>1. Pending(k) /\ (Transaction(k, stack[k].request) \/ UNCHANGED tableVars)
        BY <3>2 DEF Handle, Reject, Timer, Killed, tableVars
      <4>. QED
        BY <2>1, <4>1, HandlerKeepsTable
    <3>. QED
      BY <1>2, <3>1, <3>2 DEF StackStep
  <2>. QED
    BY <2>2, <2>3, StackRaces
<1>3. ASSUME NEW c \in Clients, ClientStep(c) PROVE RacePart'
  BY <1>3, CheckRaces, WriteRaces
<1>4. ASSUME UNCHANGED vars PROVE RacePart'
  BY <1>4 DEF vars, tableVars, RaceInv, RacePart, ValidatedKept, UnusedKept, RacesSeen,
              ReferencesKept, FindByPeriod, Busy, Exists
<1>5. RacePart'
  BY <1>2, <1>3, <1>4 DEF Next
<1>. QED
  BY <1>1, <1>5 DEF RaceInv, RacePart

\* However many requests of the client are handled at once: a schedule of a person
\* misses a person's period only if a deletion of the period and a put of a schedule
\* that names it were handled at the same time.
THEOREM PersonsKeepPeriods == Spec => []ReferencesKept
<1>1. RaceInv => ReferencesKept
  BY DEF RaceInv
<1>. QED
  BY <1>1, RaceInvInit, RaceInvStep, PTL DEF Spec
-----------------------------------------------------------------------------
(* What the table says of a stack at rest *)

StackNames == {t.name : t \in Templates}

\* One stack has templates with the names that Templates are about, and people create no
\* schedule with such a name.  Without the first, the rollback of a creation that found
\* the schedule of another stack deletes it; without the second, a command that found a
\* person's schedule overwrites or deletes what a stack wrote there since.
OwnNames ==
    /\ \A k, l \in Stacks : k = l
    /\ \A r \in CliRequests : r.op = "create-schedule" => r.name \notin StackNames

\* A schedule under a stack's name is a stack's, and no command goes on to write there.
PersonsElsewhere ==
    /\ \A s \in StackNames : schedules[s] # None => schedules[s].owner # None
    /\ \A c \in Clients :
          client[c].at = "write" /\ client[c].request.op \in {"update-schedule", "delete-schedule"}
              => client[c].request.name \notin StackNames

\* The table says what the template says.
InPlace(k, t) ==
    /\ schedules[t.name] = ScheduleOf(k, t)
    /\ \A p \in NamesOf(t) : periods[p] = PeriodsOf(k, t)[p]

\* What a stack's operation is about, and what of it is in the table.  A rename leaves the
\* former items until it is cleaned up, so that its rollback finds them in its way.
Underway(k) ==
    LET s == stack[k]
        q == s.request
        done == s.answer = "SUCCESS"
    IN  /\ s.status = "complete" => s.id = s.template.name /\ InPlace(k, s.template)
        /\ s.status = "creating" =>
              q.type = "Create" /\ q.new = s.template /\ (done => InPlace(k, q.new))
        /\ s.status = "updating" =>
              /\ q.type = "Update" /\ q.old = s.template /\ s.id = s.template.name
              /\ done => InPlace(k, q.new)
              /\ q.new.name # q.old.name => InPlace(k, q.old)
        /\ s.status = "rolling" =>
              /\ q.type = "Update" /\ q.new = s.template
              /\ IF q.new.name = q.old.name
                 THEN s.id = q.new.name /\ (done => InPlace(k, q.new))
                 ELSE schedules[q.new.name] # None /\ ~done
        /\ s.status = "cleaning" =>
              /\ q.type = "Delete" /\ q.new.name # s.template.name
              /\ s.id = s.template.name /\ InPlace(k, s.template)

RestInv == PersonsElsewhere /\ \A k \in Stacks : Underway(k)

\* Whatever stands under stacks' names stays as it is.
Spared ==
    /\ \A t \in Templates : schedules'[t.name] = schedules[t.name]
    /\ \A p \in PeriodNames \ Hand : periods'[p] = periods[p]

\* A put brings a template into place, and leaves those of other names in theirs.
LEMMA PutInPlace ==
    ASSUME NEW k \in Stacks, NEW t \in Templates, TableInv, TransactPut(k, t)
    PROVE  /\ InPlace(k, t)'
           /\ \A u \in Templates : u.name # t.name /\ InPlace(k, u) => InPlace(k, u)'
           /\ \A s \in Schedules : s # t.name => schedules'[s] = schedules[s]
           /\ schedules'[t.name] = ScheduleOf(k, t)
<1>1. \A u \in Templates : u.name \in Schedules /\ NamesOf(u) \subseteq PeriodNames
                              /\ NamesOf(u) \subseteq {u.name} \X (1 .. MaxPeriods)
  BY TemplateNames DEF Template
<1>2. /\ schedules'[t.name] = ScheduleOf(k, t)
      /\ \A s \in Schedules : s # t.name => schedules'[s] = schedules[s]
  BY <1>1 DEF TransactPut, TableInv, TableType
<1>3. /\ \A p \in NamesOf(t) : periods'[p] = PeriodsOf(k, t)[p]
      /\ \A p \in PeriodNames \ NamesOf(t) : periods'[p] = periods[p]
  BY <1>1 DEF TransactPut
<1>4. InPlace(k, t)'
  BY <1>2, <1>3 DEF InPlace
<1>5. ASSUME NEW u \in Templates, u.name # t.name, InPlace(k, u) PROVE InPlace(k, u)'
  <2>1. schedules'[u.name] = schedules[u.name]
    BY <1>1, <1>2, <1>5
  <2>2. \A p \in NamesOf(u) : p \in PeriodNames \ NamesOf(t)
    BY <1>1, <1>5
  <2>3. QED
    BY <1>3, <1>5, <2>1, <2>2 DEF InPlace
<1>6. QED
  BY <1>2, <1>4, <1>5

LEMMA DeleteInPlace ==
    ASSUME NEW k \in Stacks, NEW t \in Templates, TableInv, TransactDelete(t)
    PROVE  /\ \A u \in Templates : u.name # t.name /\ InPlace(k, u) => InPlace(k, u)'
           /\ \A s \in Schedules : schedules'[s] \in {None, schedules[s]}
<1>1. \A u \in Templates : u.name \in Schedules /\ NamesOf(u) \subseteq PeriodNames
                              /\ NamesOf(u) \subseteq {u.name} \X (1 .. MaxPeriods)
  BY TemplateNames DEF Template
<1>2. /\ \A s \in Schedules : schedules'[s] \in {None, schedules[s]}
      /\ \A s \in Schedules : s # t.name => schedules'[s] = schedules[s]
  BY <1>1 DEF TransactDelete, TableInv, TableType
<1>3. \A p \in PeriodNames \ NamesOf(t) : periods'[p] = periods[p]
  BY <1>1 DEF TransactDelete
<1>4. ASSUME NEW u \in Templates, u.name # t.name, InPlace(k, u) PROVE InPlace(k, u)'
  <2>1. schedules'[u.name] = schedules[u.name]
    BY <1>1, <1>2, <1>4
  <2>2. \A p \in NamesOf(u) : p \in PeriodNames \ NamesOf(t)
    BY <1>1, <1>4
  <2>3. QED
    BY <1>3, <1>4, <2>1, <2>2 DEF InPlace
<1>5. QED
  BY <1>2, <1>4
\* A command changes nothing under a stack's name: it creates no schedule there, goes on
\* to change a schedule only if it is a person's, and changes periods of people.
LEMMA ClientSpares ==
    ASSUME OwnNames, NEW c \in Clients, StackInv, PersonsElsewhere, ClientStep(c)
    PROVE  Spared /\ PersonsElsewhere'
<1> DEFINE r == client[c].request
<1>1. TypeInv /\ TableInv /\ ChangesHand
  BY DEF StackInv, TypeInv, TypeOK, TableInv, TableType
<1>2. /\ client \in [Clients -> [at: {"idle", "validate", "find", "unused", "write"},
                                 request: CliRequests \union {None},
                                 unchecked: SUBSET PeriodNames]]
      /\ StackNames \subseteq Schedules
  BY <1>1, TemplateNames DEF TypeInv, TypeOK, StackNames, Template
<1>3. CASE Write(c)
  <2>1. r \in CliRequests
    BY <1>1, <1>3 DEF Write, TypeInv, Handling, Busy
  <2>2. /\ \A d \in Clients : client'[d] \in {Idle, client[d]}
        /\ Idle.at = "idle"
    BY <1>2, <1>3 DEF Write, Return, Idle
  <2>3. CASE r.op \in PeriodOps
    <3>1. r.name \in Hand /\ UNCHANGED schedules
      BY <1>1, <1>3, <2>3 DEF Write, ChangesHand, PeriodOps
    <3>2. \A p \in PeriodNames : p # r.name => periods'[p] = periods[p]
      BY <1>1, <1>3, <2>3 DEF Write, PeriodOps, TableInv, TableType
    <3>3. QED
      BY <2>2, <3>1, <3>2 DEF Spared, PersonsElsewhere
  <2>4. CASE r.op \in ScheduleOps
    <3>1. r.name \notin StackNames
      BY <1>3, <2>1, <2>4 DEF Write, ScheduleOps, Writes, OwnNames, PersonsElsewhere
    <3>2. UNCHANGED periods /\ \A s \in StackNames : schedules'[s] = schedules[s]
      BY <1>1, <1>2, <1>3, <2>4, <3>1 DEF Write, ScheduleOps, Writes, TableInv, TableType
    <3>3. \A t \in Templates : t.name \in StackNames
      BY DEF StackNames
    <3>4. QED
      BY <2>2, <3>2, <3>3 DEF Spared, PersonsElsewhere
  <2>5. QED
    BY <2>1, <2>3, <2>4, AskedFor
<1>4. CASE ~Write(c)
  <2>1. UNCHANGED <<schedules, periods>>
    BY <1>4 DEF ClientStep, Ask, ValidatePeriod, Validated, Find, Unused, tableVars
  <2>2. ASSUME NEW d \in Clients, client'[d].at = "write",
               client'[d].request.op \in {"update-schedule", "delete-schedule"}
        PROVE  client'[d].request.name \notin StackNames
    <3>1. CASE client'[d] = client[d]
      BY <2>2, <3>1 DEF PersonsElsewhere
    <3>2. CASE client'[d] # client[d]
      <4>1. d = c
        BY <1>2, <1>4, <3>2
           DEF ClientStep, Ask, ValidatePeriod, Validated, Find, Unused, GoTo, Return
      <4>2. Find(c) /\ client'[c].request = r
        BY <1>1, <1>2, <1>4, <2>2, <4>1
           DEF ClientStep, Ask, ValidatePeriod, Validated, Find, Unused, GoTo, Return, Idle,
               TypeInv, Handling, Busy, Writes
      <4>3. schedules[r.name] # None /\ schedules[r.name].owner = None
        BY <1>2, <2>2, <4>1, <4>2 DEF Find, Return, Idle, IsManagedByCfn
      <4>4. QED
        BY <4>1, <4>2, <4>3 DEF PersonsElsewhere
    <3>3. QED
      BY <3>1, <3>2
  <2>3. QED
    BY <2>1, <2>2 DEF Spared, PersonsElsewhere
<1>5. QED
  BY <1>3, <1>4

\* A stack's transaction, or none: what it puts is its own.
LEMMA HandlerSpares ==
    ASSUME NEW k \in Stacks, StackInv, PersonsElsewhere, UNCHANGED client, Pending(k),
           Transaction(k, stack[k].request) \/ UNCHANGED tableVars
    PROVE  PersonsElsewhere'
<1>1. TypeInv /\ TableInv /\ k # None
  BY ConfigAssumption DEF StackInv, TypeInv, TypeOK, TableInv, TableType
<1>2. stack[k].request \in RequestType /\ stack[k].request.new \in Templates
  BY <1>1, ConfigAssumption DEF TypeInv, TypeOK, Pending, RequestType
<1>3. ASSUME NEW s \in Schedules
      PROVE  \/ schedules'[s] \in {None, schedules[s]}
             \/ schedules'[s] = ScheduleOf(k, stack[k].request.new)
  <2>1. CASE UNCHANGED tableVars
    BY <2>1 DEF tableVars
  <2>2. CASE Transaction(k, stack[k].request)
    BY <1>1, <1>2, <2>2, PutInPlace, DeleteInPlace DEF Transaction
  <2>3. QED
    BY <2>1, <2>2
<1>4. ScheduleOf(k, stack[k].request.new).owner = k
  BY DEF ScheduleOf
<1>5. StackNames \subseteq Schedules
  BY TemplateNames DEF StackNames, Template
<1>6. QED
  BY <1>1, <1>3, <1>4, <1>5 DEF PersonsElsewhere

\* Handle, Reject, Timer and Killed: what a success leaves in place, what a failed rename
\* leaves where it was, and why its rollback fails.
LEMMA HandlerUnderway ==
    ASSUME NEW k \in Stacks, StackInv, RestInv, Handle(k) \/ Reject(k) \/ Timer(k) \/ Killed(k)
    PROVE  Underway(k)'
<1> DEFINE x == stack[k]
           q == x.request
<1>1. TypeInv /\ TableInv /\ Underway(k)
  BY DEF StackInv, TypeInv, TypeOK, TableInv, TableType, RestInv
<1>2. /\ q \in RequestType /\ q.new \in Templates /\ x.answer = None
      /\ q.type = "Update" => q.old \in Templates
      /\ x.status \notin Resting
      /\ x.status # "absent" => x.template \in Templates
  BY <1>1, ConfigAssumption
     DEF TypeInv, TypeOK, Requesting, Handle, Reject, Timer, Killed, Pending, RequestType
<1>3. /\ stack'[k].status = x.status /\ stack'[k].template = x.template
      /\ stack'[k].request = q /\ stack'[k].id = x.id
      /\ stack'[k].answer \in {"SUCCESS", "FAILED", None}
      /\ stack'[k].answer = "SUCCESS" => Accepts(q) /\ Transaction(k, q)
      /\ \/ Accepts(q) /\ Transaction(k, q)
         \/ UNCHANGED <<schedules, periods>>
  BY <1>1, <1>2 DEF TypeInv, TypeOK, Handle, Reject, Timer, Killed, Answer, tableVars
<1>4. \A t \in Templates : t.name \in Schedules
  BY TemplateNames DEF Template
<1>5. CASE x.status = "creating"
  BY <1>1, <1>2, <1>3, <1>5, PutInPlace DEF Underway, Transaction, Resting
<1>6. CASE x.status = "updating"
  <2>1. q.type = "Update" /\ q.old = x.template /\ x.id = x.template.name
        /\ (q.new.name # q.old.name => InPlace(k, q.old))
    BY <1>1, <1>6 DEF Underway
  <2>2. stack'[k].answer = "SUCCESS" => InPlace(k, q.new)'
    BY <1>1, <1>2, <1>3, <2>1, PutInPlace DEF Transaction
  <2>3. q.new.name # q.old.name => InPlace(k, q.old)'
    <3>1. CASE Transaction(k, q)
      BY <1>1, <1>2, <1>3, <2>1, <3>1, PutInPlace DEF Transaction
    <3>2. CASE UNCHANGED <<schedules, periods>>
      BY <1>3, <2>1, <3>2 DEF InPlace
    <3>3. QED
      BY <1>3, <3>1, <3>2
  <2>4. QED
    BY <1>3, <1>6, <2>1, <2>2, <2>3 DEF Underway, InPlace
<1>7. CASE x.status = "rolling"
  <2>1. q.type = "Update" /\ q.new = x.template
    BY <1>1, <1>7 DEF Underway
  <2>2. CASE q.new.name = q.old.name
    BY <1>1, <1>2, <1>3, <1>7, <2>1, <2>2, PutInPlace DEF Underway, Transaction, InPlace
  <2>3. CASE q.new.name # q.old.name
    <3>1. schedules[q.new.name] # None
      BY <1>1, <1>7, <2>3 DEF Underway
    <3>2. ~Accepts(q)
      BY <2>1, <2>3, <3>1 DEF Accepts, CanPut
    <3>3. QED
      BY <1>3, <1>7, <2>1, <2>3, <3>1, <3>2 DEF Underway
  <2>4. QED
    BY <2>2, <2>3
<1>8. CASE x.status = "cleaning"
  <2>1. /\ q.type = "Delete" /\ q.new.name # x.template.name
        /\ x.id = x.template.name /\ InPlace(k, x.template)
    BY <1>1, <1>8 DEF Underway
  <2>2. InPlace(k, x.template)'
    <3>1. CASE Transaction(k, q)
      BY <1>1, <1>2, <1>3, <1>8, <2>1, <3>1, DeleteInPlace DEF Transaction
    <3>2. CASE UNCHANGED <<schedules, periods>>
      BY <1>3, <2>1, <3>2 DEF InPlace
    <3>3. QED
      BY <1>3, <3>1, <3>2
  <2>3. QED
    BY <1>3, <1>8, <2>1, <2>2 DEF Underway, InPlace
<1>9. CASE x.status = "removing"
  BY <1>3, <1>9 DEF Underway
<1>10. QED
  BY <1>1, <1>2, <1>5, <1>6, <1>7, <1>8, <1>9 DEF TypeInv, TypeOK, Resting, Statuses

\* CloudFormation moves a stack on: to rest with what succeeded, to clean up a name that
\* is not its template's, or to roll back.
LEMMA StackMoves ==
    ASSUME NEW k \in Stacks, StackInv, RestInv, Deploy(k) \/ Proceed(k)
    PROVE  Underway(k)'
<1> DEFINE x == stack[k]
           q == x.request
<1>1. TypeInv /\ Underway(k) /\ UNCHANGED <<schedules, periods>>
  BY DEF StackInv, RestInv, Deploy, Proceed, tableVars
<1>2. \A t \in Templates : InPlace(k, t) =>
         /\ schedules'[t.name] = ScheduleOf(k, t)
         /\ \A p \in NamesOf(t) : periods'[p] = PeriodsOf(k, t)[p]
  BY <1>1 DEF InPlace
<1>3. stack = [l \in Stacks |-> stack[l]]
  BY <1>1 DEF TypeInv, TypeOK
<1>4. None # "SUCCESS"
  BY ConfigAssumption
<1>5. /\ x.status # "absent" => x.template \in Templates
      /\ x.status \notin Resting =>
            /\ q \in RequestType /\ q.new \in Templates
            /\ x.status \in {"updating", "rolling"} => q.old \in Templates
  BY <1>1 DEF TypeInv, Requesting, RequestType
<1>6. CASE Deploy(k)
  <2>1. CASE \E t \in Templates :
                x.status = "absent" /\ Become(k, "creating", t, Request("Create", t, None), None)
    BY <1>3, <1>4, <2>1 DEF Become, Underway, Request
  <2>2. CASE \E t \in Templates :
                x.status = "complete" /\ Become(k, "updating", x.template,
                                                Request("Update", t, x.template), x.id)
    <3>1. PICK t \in Templates :
             Become(k, "updating", x.template, Request("Update", t, x.template), x.id)
      BY <2>2
    <3>2. x.id = x.template.name /\ InPlace(k, x.template)
      BY <1>1, <2>2 DEF Underway
    <3>3. QED
      BY <1>1, <1>3, <1>4, <3>1, <3>2 DEF Become, Underway, Request, InPlace
  <2>3. CASE Become(k, "removing", x.template, Request("Delete", x.template, None), x.id)
    BY <1>3, <2>3 DEF Become, Underway
  <2>4. QED
    BY <1>6, <2>1, <2>2, <2>3 DEF Deploy
<1>7. CASE Succeeded(k)
  <2>1. x.answer = "SUCCESS" /\ x.status \notin Resting
    BY <1>1, <1>4, <1>7 DEF Succeeded, TypeInv, Requesting
  <2>2. CASE x.status = "creating"
    <3>1. Become(k, "complete", q.new, None, q.new.name) /\ InPlace(k, q.new)
      BY <1>1, <1>7, <2>1, <2>2 DEF Succeeded, Underway
    <3>2. QED
      BY <1>1, <1>3, <3>1 DEF Become, Underway, InPlace
  <2>3. CASE x.status \in {"updating", "rolling"}
    <3>1. InPlace(k, q.new) /\ (x.id # q.new.name => q.old.name = x.id)
      BY <1>1, <2>1, <2>3 DEF Underway
    <3>2. \/ x.id = q.new.name /\ Become(k, "complete", q.new, None, q.new.name)
          \/ /\ x.id # q.new.name
             /\ Become(k, "cleaning", q.new, Request("Delete", q.old, None), q.new.name)
      BY <1>7, <2>3 DEF Succeeded
    <3>3. QED
      BY <1>1, <1>3, <3>1, <3>2 DEF Become, Underway, InPlace, Request
  <2>4. CASE x.status = "cleaning"
    <3>1. /\ Become(k, "complete", x.template, None, x.id)
          /\ x.id = x.template.name /\ InPlace(k, x.template)
      BY <1>1, <1>7, <2>4 DEF Succeeded, Underway
    <3>2. QED
      BY <1>1, <1>3, <3>1 DEF Become, Underway, InPlace
  <2>5. CASE x.status = "removing"
    <3>1. stack'[k] = Absent
      BY <1>1, <1>7, <2>5 DEF Succeeded, TypeInv, TypeOK
    <3>2. QED
      BY <3>1 DEF Underway, Absent
  <2>6. QED
    BY <1>1, <2>1, <2>2, <2>3, <2>4, <2>5 DEF TypeInv, TypeOK, Statuses, Resting
<1>8. CASE Failed(k)
  <2>1. PICK id \in {x.id, q.new.name} :
           Undo(k, id) /\ (id = x.id \/ x.status \in {"creating", "updating"})
    BY <1>8 DEF Failed
  <2>2. CASE x.status = "creating"
    BY <1>3, <2>1, <2>2 DEF Become, Undo, Underway
  <2>3. CASE x.status = "updating"
    <3>1. Become(k, "rolling", x.template, Request("Update", x.template, q.new), id)
      BY <2>1, <2>3 DEF Undo
    <3>2. /\ q.old = x.template /\ x.id = x.template.name
          /\ q.new.name # x.template.name => InPlace(k, x.template)
      BY <1>1, <2>3 DEF Underway
    <3>3. q.new.name # x.template.name => schedules[x.template.name] # None
      BY <1>5, <2>3, <3>2, TemplateItems, ConfigAssumption DEF InPlace
    <3>4. QED
      BY <1>1, <1>3, <1>4, <2>1, <3>1, <3>2, <3>3 DEF Become, Underway, Request
  <2>4. CASE x.status = "cleaning"
    <3>1. /\ Become(k, "complete", x.template, None, id)
          /\ id = x.template.name /\ InPlace(k, x.template)
      BY <1>1, <2>1, <2>4 DEF Undo, Underway
    <3>2. QED
      BY <1>1, <1>3, <3>1 DEF Become, Underway, InPlace
  <2>5. CASE x.status \notin {"creating", "updating", "cleaning"}
    BY <1>3, <2>1, <2>5 DEF Become, Undo, Underway
  <2>6. QED
    BY <2>2, <2>3, <2>4, <2>5
<1>9. QED
  BY <1>6, <1>7, <1>8 DEF Proceed

LEMMA RestInvInit == Init => RestInv
<1>1. Init => PersonsElsewhere
  BY TemplateNames DEF Init, PersonsElsewhere, Idle, StackNames, Template
<1>2. Init => \A k \in Stacks : Underway(k)
  BY DEF Init, Underway, Absent
<1>3. QED
  BY <1>1, <1>2 DEF RestInv

LEMMA RestInvStep == OwnNames /\ StackInv /\ RestInv /\ [Next]_vars => RestInv'
<1> SUFFICES ASSUME OwnNames, StackInv, RestInv, [Next]_vars PROVE RestInv'
  OBVIOUS
<1>1. ASSUME NEW k \in Stacks, StackStep(k) PROVE RestInv'
  <2>1. UNCHANGED client
    BY <1>1 DEF StackStep, Deploy, Handle, Reject, Timer, Killed, Proceed
  <2>2. Underway(k)'
    BY <1>1, HandlerUnderway, StackMoves DEF StackStep
  <2>3. PersonsElsewhere'
    <3>1. CASE Deploy(k) \/ Proceed(k)
      BY <2>1, <3>1 DEF Deploy, Proceed, tableVars, RestInv, PersonsElsewhere
    <3>2. CASE Handle(k) \/ Reject(k) \/ Timer(k) \/ Killed(k)
      <4>1. Pending(k) /\ (Transaction(k, stack[k].request) \/ UNCHANGED tableVars)
        BY <3>2 DEF Handle, Reject, Timer, Killed, tableVars
      <4>2. QED
        BY <2>1, <4>1, HandlerSpares DEF RestInv
    <3>3. QED
      BY <1>1, <3>1, <3>2 DEF StackStep
  <2>4. \A l \in Stacks : l = k
    BY DEF OwnNames
  <2>5. QED
    BY <2>2, <2>3, <2>4 DEF RestInv
<1>2. ASSUME UNCHANGED stack, Spared PROVE \A k \in Stacks : Underway(k)'
  <2>1. ASSUME NEW k \in Stacks PROVE Underway(k)'
    <3>1. \A t \in Templates : NamesOf(t) \subseteq PeriodNames \ Hand
      BY TemplateNames
    <3>2. \A t \in Templates :
             /\ schedules'[t.name] = schedules[t.name]
             /\ \A p \in NamesOf(t) : periods'[p] = periods[p]
      BY <1>2, <3>1 DEF Spared
    <3>3. Underway(k) /\ TypeInv
      BY DEF RestInv, StackInv
    <3>4. /\ stack[k].status # "absent" => stack[k].template \in Templates
          /\ stack[k].status \notin Resting => stack[k].request.new \in Templates
          /\ stack[k].status \in {"updating", "rolling"} => stack[k].request.old \in Templates
      BY <3>3 DEF TypeInv, Requesting, RequestType
    <3>5. QED
      BY <1>2, <3>2, <3>3, <3>4 DEF Underway, InPlace, Resting
  <2>2. QED
    BY <2>1
<1>3. ASSUME NEW c \in Clients, ClientStep(c) PROVE RestInv'
  <2>1. UNCHANGED stack
    BY <1>3 DEF ClientStep, Ask, ValidatePeriod, Validated, Find, Unused, Write
  <2>2. QED
    BY <1>2, <1>3, <2>1, ClientSpares DEF RestInv
<1>4. CASE UNCHANGED vars
  <2>1. UNCHANGED <<schedules, periods, client, stack>>
    BY <1>4 DEF vars, tableVars
  <2>2. QED
    BY <1>2, <2>1 DEF Spared, RestInv, PersonsElsewhere
<1>5. QED
  BY <1>1, <1>3, <1>4 DEF Next

\* A stack whose operation has ended well finds in the table what its template says,
\* after any number of updates, renames, rollbacks, failed clean-ups and requests handled
\* twice, whatever commands of people run at once: if no other stack and no person
\* creates a schedule with a name of its own.
THEOREM RestSafe == OwnNames => (Spec => []AtRest)
<1> SUFFICES ASSUME OwnNames PROVE Spec => []AtRest
  OBVIOUS
<1>1. RestInv => AtRest
  BY DEF RestInv, Underway, InPlace, AtRest
<1>2. Init => StackInv /\ RestInv
  BY StackInvInit, RestInvInit
<1>3. StackInv /\ RestInv /\ [Next]_vars => StackInv' /\ RestInv'
  BY StackInvStep, RestInvStep
<1>4. QED
  BY <1>1, <1>2, <1>3, PTL DEF Spec
=============================================================================
