------------------------ MODULE SchedulingRequestsProofs ------------------------
(***************************************************************************)
(* Proofs about SchedulingRequests, for any writers of the table, targets, *)
(* sizes of requests and faults: what a reader misses was missing while it *)
(* read.                                                                   *)
(***************************************************************************)
EXTENDS SchedulingRequests, ConfigStoreProofs

ScheduleTable == [Schedules -> ScheduleItem \union {None}]
PeriodTable == [PeriodNames -> PeriodItem \union {None}]
HandlerType == [at: {"none", "schedules", "periods", "ready"}, payload: Payload,
                schedules: ScheduleTable, periods: PeriodTable]

ReaderTypes ==
    /\ orchestrator \in [at: {"idle", "periods", "sending"}, schedules: ScheduleTable,
                         periods: PeriodTable, dropped: SUBSET ScheduleItem,
                         left: SUBSET Targets]
    /\ handler \in [Targets -> HandlerType]
    /\ erased \in [Readers -> SUBSET PeriodNames]

\* While it is about to read the periods, a reader has seen what is missing.
MissingSeen ==
    /\ orchestrator.at # "idle" => Missing(periods) \subseteq erased["orchestrator"]
    /\ \A t \in Targets : handler[t].at # "none" => Missing(periods) \subseteq erased[t]

\* The orchestrator sends schedules it has found the periods of.
SendsUsable ==
    orchestrator.at = "sending" =>
        \A s \in Schedules : orchestrator.schedules[s] # None =>
            Usable(orchestrator.schedules[s], orchestrator.periods)

\* A request with all in it is not completed from the table.
ReadsIfStripped ==
    \A t \in Targets : handler[t].payload = "all" => handler[t].at \in {"none", "ready"}

ReadersInv == ReaderTypes /\ MissingSeen /\ SendsUsable /\ ReadsIfStripped
              /\ DroppedOnlyIfErased /\ ContextComplete

-----------------------------------------------------------------------------
LEMMA TablesTyped == StackInv => schedules \in ScheduleTable /\ periods \in PeriodTable
BY DEF StackInv, TypeInv, TypeOK, ScheduleTable, PeriodTable

\* Writers do not step here, except that a fault is used up.
LEMMA RaiseKeepsStackInv == StackInv /\ InvokeRaises => StackInv'
<1> SUFFICES ASSUME StackInv, InvokeRaises PROVE StackInv'
  OBVIOUS
<1>1. UNCHANGED <<tableVars, client, stack, raced, deploys, asks>>
  BY DEF InvokeRaises
<1>2. faults' \in 0 .. MaxFaults
  BY ConfigAssumption DEF InvokeRaises, Fault, StackInv, TypeInv, TypeOK
<1>. QED
  BY <1>1, <1>2 DEF tableVars, StackInv, TypeInv, TypeOK, Handling, Requesting, Busy,
                    OwnedNames, Exists, ChangesHand, OwnNumbering, StackSchedulesComplete

LEMMA WritersKeep == StackInv /\ [NextRequests]_allVars => StackInv'
<1> SUFFICES ASSUME StackInv, [NextRequests]_allVars PROVE StackInv'
  OBVIOUS
<1>1. CASE InvokeRaises
  BY <1>1, RaiseKeepsStackInv
<1>2. CASE ~InvokeRaises
  <2>1. [Next]_vars
    BY <1>2 DEF NextRequests, allVars, WriterStep, PrefetchSchedules, PrefetchPeriods, Invoke,
                LoadSchedules, LoadPeriods, Schedule
  <2>. QED
    BY <2>1, StackInvStep
<1>. QED
  BY <1>1, <1>2

LEMMA ReadersInit == InitRequests => ReadersInv
<1> SUFFICES ASSUME InitRequests PROVE ReadersInv
  OBVIOUS
<1>1. NoSchedules \in ScheduleTable /\ NoPeriods \in PeriodTable
  BY DEF NoSchedules, NoPeriods, ScheduleTable, PeriodTable
<1>2. ReaderTypes
  BY <1>1 DEF InitRequests, ReaderTypes, HandlerType, NoRequest, Payload
<1>. QED
  BY <1>2 DEF InitRequests, ReadersInv, MissingSeen, SendsUsable, ReadsIfStripped, NoRequest,
              DroppedOnlyIfErased, ContextComplete

-----------------------------------------------------------------------------
(* Each step of a reader *)

\* What a reader has seen missing grows with each step of a writer.
LEMMA WriterKeepsReaders == ReadersInv /\ WriterStep => ReadersInv'
<1> SUFFICES ASSUME ReadersInv, WriterStep PROVE ReadersInv'
  OBVIOUS
<1>1. UNCHANGED <<orchestrator, handler>>
  BY DEF WriterStep
<1>2. /\ erased' = [x \in Readers |-> erased[x] \union Missing(periods')]
      /\ Missing(periods') \subseteq PeriodNames
      /\ "orchestrator" \in Readers /\ Targets \subseteq Readers
  BY DEF WriterStep, Missing, Readers
<1>3. /\ erased' \in [Readers -> SUBSET PeriodNames]
      /\ \A x \in Readers : erased[x] \subseteq erased'[x] /\ Missing(periods') \subseteq erased'[x]
  BY <1>2 DEF ReadersInv, ReaderTypes
<1>4. ReaderTypes'
  BY <1>1, <1>3 DEF ReadersInv, ReaderTypes
<1>5. MissingSeen'
  BY <1>2, <1>3 DEF MissingSeen
<1>6. SendsUsable' /\ ReadsIfStripped'
  BY <1>1 DEF ReadersInv, SendsUsable, ReadsIfStripped, Usable
<1>7. DroppedOnlyIfErased'
  <2>1. erased["orchestrator"] \subseteq erased'["orchestrator"]
    BY <1>2, <1>3
  <2>. QED
    BY <1>1, <2>1 DEF ReadersInv, DroppedOnlyIfErased
<1>8. ContextComplete'
  <2>1. \A t \in Targets : erased[t] \subseteq erased'[t]
    BY <1>2, <1>3
  <2>. QED
    BY <1>1, <2>1 DEF ReadersInv, ContextComplete
<1>. QED
  BY <1>4, <1>5, <1>6, <1>7, <1>8 DEF ReadersInv

LEMMA PrefetchSchedulesKeeps == StackInv /\ ReadersInv /\ PrefetchSchedules => ReadersInv'
<1> SUFFICES ASSUME StackInv, ReadersInv, PrefetchSchedules PROVE ReadersInv'
  OBVIOUS
<1>1. /\ orchestrator' = [at |-> "periods", schedules |-> schedules, periods |-> NoPeriods,
                          dropped |-> {}, left |-> {}]
      /\ UNCHANGED <<schedules, periods, handler>>
  BY DEF PrefetchSchedules, vars, tableVars
<1>2. /\ erased' \in [Readers -> SUBSET PeriodNames]
      /\ erased'["orchestrator"] = Missing(periods)
      /\ \A t \in Targets : erased'[t] = erased[t]
  BY RequestsAssumption DEF PrefetchSchedules, ReadersInv, ReaderTypes, Readers, Missing
<1>3. ReaderTypes'
  BY <1>1, <1>2, TablesTyped DEF ReadersInv, ReaderTypes, NoPeriods, PeriodTable
<1>4. MissingSeen'
  BY <1>1, <1>2 DEF ReadersInv, MissingSeen
<1>. QED
  BY <1>1, <1>2, <1>3, <1>4
  DEF ReadersInv, SendsUsable, ReadsIfStripped, DroppedOnlyIfErased, ContextComplete

LEMMA PrefetchPeriodsKeeps == StackInv /\ ReadersInv /\ PrefetchPeriods => ReadersInv'
<1> SUFFICES ASSUME StackInv, ReadersInv, PrefetchPeriods PROVE ReadersInv'
  OBVIOUS
<1> DEFINE read == orchestrator.schedules
           bad == {s \in Schedules : read[s] # None /\ ~Usable(read[s], periods)}
<1>1. /\ orchestrator.at = "periods"
      /\ orchestrator' = [at |-> IF Targets = {} THEN "idle" ELSE "sending",
                          schedules |-> [s \in Schedules |-> IF s \in bad THEN None ELSE read[s]],
                          periods |-> periods,
                          dropped |-> {read[s] : s \in bad},
                          left |-> Targets]
      /\ UNCHANGED <<schedules, periods, handler, erased>>
  BY DEF PrefetchPeriods, vars, tableVars
<1>2. /\ read \in ScheduleTable
      /\ \A s \in bad : read[s] \in ScheduleItem
      /\ Missing(periods) \subseteq erased["orchestrator"]
  BY <1>1 DEF ReadersInv, ReaderTypes, MissingSeen, ScheduleTable
<1>3. ReaderTypes'
  <2>1. orchestrator'.schedules \in ScheduleTable
    BY <1>1, <1>2 DEF ScheduleTable
  <2>2. orchestrator'.dropped \subseteq ScheduleItem
    BY <1>1, <1>2
  <2>. QED
    BY <1>1, <2>1, <2>2, TablesTyped DEF ReadersInv, ReaderTypes
<1>4. MissingSeen'
  BY <1>1, <1>2 DEF ReadersInv, MissingSeen
<1>5. SendsUsable'
  BY <1>1 DEF SendsUsable
<1>6. DroppedOnlyIfErased'
  <2>1. ASSUME NEW s \in bad
        PROVE  read[s].periods \intersect erased["orchestrator"] # {}
    <3>1. PICK p \in read[s].periods : periods[p] = None
      BY DEF Usable
    <3>2. p \in Missing(periods)
      BY <1>2, <3>1 DEF Missing, ScheduleItem
    <3>. QED
      BY <1>2, <3>1, <3>2
  <2>. QED
    BY <1>1, <2>1 DEF DroppedOnlyIfErased
<1>. QED
  BY <1>1, <1>3, <1>4, <1>5, <1>6 DEF ReadersInv, ReadsIfStripped, ContextComplete

\* A request carries what the orchestrator has found complete, or less.
LEMMA InvokeKeeps ==
    ASSUME NEW t \in Targets, ReadersInv, Invoke(t)
    PROVE  ReadersInv'
<1>1. PICK payload \in Payloads :
        handler' = [handler EXCEPT ![t] =
           [at |-> CASE payload = "all" -> "ready"
                     [] payload = "schedules" -> "periods"
                     [] payload = "neither" -> "schedules",
            payload |-> payload,
            schedules |-> IF payload = "neither" THEN NoSchedules ELSE SchedulesFor(t),
            periods |-> IF payload = "all" THEN PeriodsFor(t) ELSE NoPeriods]]
  BY DEF Invoke
<1>2. /\ payload \in Payload
      /\ t # "orchestrator" /\ t \in Readers /\ "orchestrator" \in Readers
      /\ orchestrator.at = "sending" /\ handler[t].at = "none"
      /\ orchestrator' = [orchestrator EXCEPT !.left = @ \ {t},
                             !.at = IF orchestrator.left = {t} THEN "idle" ELSE @]
      /\ erased' = [erased EXCEPT ![t] = erased["orchestrator"]]
      /\ UNCHANGED <<schedules, periods>>
  BY RequestsAssumption DEF Invoke, Readers, vars, tableVars
<1>3. /\ orchestrator.schedules \in ScheduleTable /\ orchestrator.periods \in PeriodTable
      /\ Missing(periods) \subseteq erased["orchestrator"]
      /\ erased \in [Readers -> SUBSET PeriodNames]
  BY <1>2 DEF ReadersInv, ReaderTypes, MissingSeen
<1>4. SchedulesFor(t) \in ScheduleTable /\ PeriodsFor(t) \in PeriodTable
      /\ NoSchedules \in ScheduleTable /\ NoPeriods \in PeriodTable
  BY <1>3 DEF SchedulesFor, PeriodsFor, NoSchedules, NoPeriods, ScheduleTable, PeriodTable
<1>5. /\ erased' \in [Readers -> SUBSET PeriodNames]
      /\ erased'["orchestrator"] = erased["orchestrator"] /\ erased'[t] = erased["orchestrator"]
      /\ \A u \in Targets \ {t} : erased'[u] = erased[u]
  BY <1>2, <1>3 DEF Readers
<1>6. /\ handler'[t] \in HandlerType /\ handler'[t].at # "none"
      /\ handler'[t].payload = payload
      /\ handler'[t].at = "ready" => payload = "all"
      /\ payload = "all" => /\ handler'[t].at = "ready"
                            /\ handler'[t].schedules = SchedulesFor(t)
                            /\ handler'[t].periods = PeriodsFor(t)
      /\ handler' \in [Targets -> HandlerType]
      /\ \A u \in Targets \ {t} : handler'[u] = handler[u]
  <2>1. handler \in [Targets -> HandlerType]
    BY DEF ReadersInv, ReaderTypes
  <2>2. CASE payload = "all"
    BY <1>1, <1>4, <2>1, <2>2 DEF HandlerType, Payload
  <2>3. CASE payload = "schedules"
    BY <1>1, <1>4, <2>1, <2>3 DEF HandlerType, Payload
  <2>4. CASE payload = "neither"
    BY <1>1, <1>4, <2>1, <2>4 DEF HandlerType, Payload
  <2>. QED
    BY <1>2, <2>2, <2>3, <2>4 DEF Payload
<1>7. /\ orchestrator'.at \in {"idle", "sending"}
      /\ orchestrator'.schedules = orchestrator.schedules
      /\ orchestrator'.periods = orchestrator.periods
      /\ orchestrator'.dropped = orchestrator.dropped
      /\ orchestrator' \in [at: {"idle", "periods", "sending"}, schedules: ScheduleTable,
                            periods: PeriodTable, dropped: SUBSET ScheduleItem,
                            left: SUBSET Targets]
  BY <1>2 DEF ReadersInv, ReaderTypes
<1>8. ReaderTypes'
  BY <1>5, <1>6, <1>7 DEF ReaderTypes
<1>9. MissingSeen'
  BY <1>2, <1>3, <1>5, <1>6 DEF ReadersInv, MissingSeen
<1>10. SendsUsable'
  BY <1>2, <1>7 DEF ReadersInv, SendsUsable, Usable
<1>11. ReadsIfStripped'
  BY <1>6 DEF ReadersInv, ReadsIfStripped
<1>12. DroppedOnlyIfErased'
  BY <1>5, <1>7 DEF ReadersInv, DroppedOnlyIfErased
<1>13. ContextComplete'
  <2>1. ASSUME NEW s \in Schedules, payload = "all", SchedulesFor(t)[s] # None,
               NEW p \in SchedulesFor(t)[s].periods
        PROVE  PeriodsFor(t)[p] # None
    <3>1. s \in Tagged[t] /\ SchedulesFor(t)[s] = orchestrator.schedules[s]
      BY <2>1 DEF SchedulesFor
    <3>2. orchestrator.schedules[s] \in ScheduleItem
      BY <1>3, <2>1, <3>1 DEF ScheduleTable
    <3>3. p \in PeriodNames
      BY <2>1, <3>1, <3>2 DEF ScheduleItem
    <3>4. orchestrator.periods[p] # None
      BY <1>2, <2>1, <3>1 DEF ReadersInv, SendsUsable, Usable
    <3>5. p \in UNION {orchestrator.schedules[r].periods :
                          r \in {q \in Tagged[t] : orchestrator.schedules[q] # None}}
      BY <2>1, <3>1
    <3>. QED
      BY <3>3, <3>4, <3>5 DEF PeriodsFor
  <2>. QED
    BY <1>5, <1>6, <2>1 DEF ReadersInv, ContextComplete
<1>. QED
  BY <1>8, <1>9, <1>10, <1>11, <1>12, <1>13 DEF ReadersInv

LEMMA InvokeRaisesKeeps == ReadersInv /\ InvokeRaises => ReadersInv'
<1> SUFFICES ASSUME ReadersInv, InvokeRaises PROVE ReadersInv'
  OBVIOUS
<1>1. /\ orchestrator' = [orchestrator EXCEPT !.at = "idle", !.left = {}]
      /\ UNCHANGED <<periods, handler, erased>>
  BY DEF InvokeRaises, tableVars
<1>2. ReaderTypes'
  BY <1>1 DEF ReadersInv, ReaderTypes
<1>3. orchestrator'.at = "idle" /\ orchestrator'.dropped = orchestrator.dropped
  BY <1>1 DEF ReadersInv, ReaderTypes
<1>. QED
  BY <1>1, <1>2, <1>3
  DEF ReadersInv, MissingSeen, SendsUsable, ReadsIfStripped, DroppedOnlyIfErased, ContextComplete

LEMMA LoadSchedulesKeeps ==
    ASSUME NEW t \in Targets, StackInv, ReadersInv, LoadSchedules(t)
    PROVE  ReadersInv'
<1>1. /\ handler[t].at = "schedules"
      /\ handler' = [handler EXCEPT ![t].schedules = schedules, ![t].at = "periods"]
      /\ erased' = [erased EXCEPT ![t] = Missing(periods)]
      /\ UNCHANGED <<periods, orchestrator>>
      /\ t # "orchestrator"
  BY RequestsAssumption DEF LoadSchedules, vars, tableVars
<1>2. schedules \in ScheduleTable /\ handler \in [Targets -> HandlerType]
  BY TablesTyped DEF ReadersInv, ReaderTypes
<1>3. /\ handler' \in [Targets -> HandlerType]
      /\ handler'[t].at = "periods" /\ handler'[t].payload = handler[t].payload
      /\ \A u \in Targets \ {t} : handler'[u] = handler[u]
  BY <1>1, <1>2 DEF HandlerType
<1>4. /\ erased' \in [Readers -> SUBSET PeriodNames]
      /\ erased'[t] = Missing(periods) /\ erased'["orchestrator"] = erased["orchestrator"]
      /\ \A u \in Targets \ {t} : erased'[u] = erased[u]
  BY <1>1 DEF ReadersInv, ReaderTypes, Readers, Missing
<1>5. ReaderTypes' /\ MissingSeen'
  BY <1>1, <1>3, <1>4 DEF ReadersInv, ReaderTypes, MissingSeen
<1>6. SendsUsable' /\ DroppedOnlyIfErased'
  BY <1>1, <1>4 DEF ReadersInv, SendsUsable, DroppedOnlyIfErased, Usable
<1>7. ReadsIfStripped'
  BY <1>1, <1>3 DEF ReadersInv, ReadsIfStripped
<1>8. ContextComplete'
  BY <1>3, <1>4 DEF ReadersInv, ContextComplete
<1>. QED
  BY <1>5, <1>6, <1>7, <1>8 DEF ReadersInv

\* What the table lacks when it is read has been missing since the schedules were.
LEMMA LoadPeriodsKeeps ==
    ASSUME NEW t \in Targets, StackInv, ReadersInv, LoadPeriods(t)
    PROVE  ReadersInv'
<1>1. /\ handler[t].at = "periods"
      /\ handler' = [handler EXCEPT ![t].periods = periods, ![t].at = "ready"]
      /\ UNCHANGED <<periods, orchestrator, erased>>
  BY DEF LoadPeriods, vars, tableVars
<1>2. /\ periods \in PeriodTable /\ handler \in [Targets -> HandlerType]
      /\ Missing(periods) \subseteq erased[t] /\ handler[t].payload # "all"
  BY <1>1, TablesTyped DEF ReadersInv, ReaderTypes, MissingSeen, ReadsIfStripped
<1>3. /\ handler' \in [Targets -> HandlerType]
      /\ handler'[t].at = "ready" /\ handler'[t].payload = handler[t].payload
      /\ handler'[t].schedules = handler[t].schedules /\ handler'[t].periods = periods
      /\ \A u \in Targets \ {t} : handler'[u] = handler[u]
  BY <1>1, <1>2 DEF HandlerType
<1>4. ReaderTypes' /\ MissingSeen'
  BY <1>1, <1>2, <1>3 DEF ReadersInv, ReaderTypes, MissingSeen
<1>5. SendsUsable' /\ DroppedOnlyIfErased' /\ ReadsIfStripped'
  BY <1>1, <1>2, <1>3 DEF ReadersInv, SendsUsable, DroppedOnlyIfErased, ReadsIfStripped, Usable
<1>6. ContextComplete'
  <2>1. ASSUME NEW s \in Schedules, handler[t].schedules[s] # None,
               NEW p \in handler[t].schedules[s].periods, periods[p] = None
        PROVE  p \in erased[t]
    <3>1. handler[t].schedules[s] \in ScheduleItem
      BY <1>2, <2>1 DEF HandlerType, ScheduleTable
    <3>2. p \in Missing(periods)
      BY <2>1, <3>1 DEF ScheduleItem, Missing
    <3>. QED
      BY <1>2, <3>2
  <2>. QED
    BY <1>1, <1>2, <1>3, <2>1 DEF ReadersInv, ContextComplete
<1>. QED
  BY <1>4, <1>5, <1>6 DEF ReadersInv

LEMMA ScheduleKeeps ==
    ASSUME NEW t \in Targets, ReadersInv, Schedule(t)
    PROVE  ReadersInv'
<1>1. /\ handler' = [handler EXCEPT ![t] = NoRequest]
      /\ UNCHANGED <<periods, orchestrator, erased>>
  BY DEF Schedule, vars, tableVars
<1>2. NoRequest \in HandlerType /\ NoRequest.at = "none"
  BY DEF NoRequest, HandlerType, NoSchedules, NoPeriods, ScheduleTable, PeriodTable, Payload
<1>3. /\ handler' \in [Targets -> HandlerType] /\ handler'[t].at = "none"
      /\ \A u \in Targets \ {t} : handler'[u] = handler[u]
  BY <1>1, <1>2 DEF ReadersInv, ReaderTypes
<1>4. ReaderTypes' /\ MissingSeen'
  BY <1>1, <1>3 DEF ReadersInv, ReaderTypes, MissingSeen
<1>. QED
  BY <1>1, <1>3, <1>4
  DEF ReadersInv, SendsUsable, DroppedOnlyIfErased, ReadsIfStripped, ContextComplete, Usable

LEMMA ReadersStep == StackInv /\ ReadersInv /\ [NextRequests]_allVars => ReadersInv'
<1> SUFFICES ASSUME StackInv, ReadersInv, [NextRequests]_allVars PROVE ReadersInv'
  OBVIOUS
<1>1. CASE WriterStep
  BY <1>1, WriterKeepsReaders
<1>2. CASE PrefetchSchedules
  BY <1>2, PrefetchSchedulesKeeps
<1>3. CASE PrefetchPeriods
  BY <1>3, PrefetchPeriodsKeeps
<1>4. CASE InvokeRaises
  BY <1>4, InvokeRaisesKeeps
<1>5. CASE \E t \in Targets : Invoke(t) \/ LoadSchedules(t) \/ LoadPeriods(t) \/ Schedule(t)
  BY <1>5, InvokeKeeps, LoadSchedulesKeeps, LoadPeriodsKeeps, ScheduleKeeps
<1>6. CASE UNCHANGED allVars
  BY <1>6 DEF allVars, readerVars, vars, tableVars, ReadersInv, ReaderTypes, MissingSeen, Usable,
              SendsUsable, DroppedOnlyIfErased, ReadsIfStripped, ContextComplete
<1>. QED
  BY <1>1, <1>2, <1>3, <1>4, <1>5, <1>6 DEF NextRequests

-----------------------------------------------------------------------------
LEMMA Reading == SpecRequests => [](StackInv /\ ReadersInv)
<1>1. InitRequests => StackInv /\ ReadersInv
  BY StackInvInit, ReadersInit DEF InitRequests
<1>2. StackInv /\ ReadersInv /\ [NextRequests]_allVars => (StackInv /\ ReadersInv)'
  BY WritersKeep, ReadersStep
<1>. QED
  BY <1>1, <1>2, PTL DEF SpecRequests

\* The orchestrator leaves a schedule out of a cycle only for a period that was
\* missing at some time since it read the schedules (_prefetch_schedules).
THEOREM DroppedSafe == SpecRequests => []DroppedOnlyIfErased
<1>1. ReadersInv => DroppedOnlyIfErased
  BY DEF ReadersInv
<1>. QED
  BY <1>1, Reading, PTL

\* A target's context misses a period of one of its schedules only if the request
\* was stripped and the period missing while it was read (build_scheduling_context).
THEOREM ContextSafe == SpecRequests => []ContextComplete
<1>1. ReadersInv => ContextComplete
  BY DEF ReadersInv
<1>. QED
  BY <1>1, Reading, PTL

=============================================================================
