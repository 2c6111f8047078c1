-------------------------- MODULE SchedulingRequests --------------------------
(***************************************************************************)
(* How the configuration table reaches a cycle of a target, while the      *)
(* parties of ConfigStore go on writing it: the orchestrator reads all     *)
(* schedules, then all periods, and sends each target those it needs       *)
(* (handler/scheduling_orchestrator.py); a request that is too large goes  *)
(* without its periods, or without either, and the handler reads those     *)
(* from the table (build_scheduling_context of                             *)
(* handler/scheduling_request.py).                                         *)
(***************************************************************************)
EXTENDS ConfigStore

CONSTANTS
    Targets,        \* an account, region and service each
    Tagged,         \* the schedules that registered resources of a target name
    Payloads,       \* sizes a request may have: see Payload
    MaxCycles       \* bound: cycles of the orchestrator

\* What of a request fits into LAMBDA_PAYLOAD_CAPACITY_BYTES.
Payload == {"all", "schedules", "neither"}

ASSUME RequestsAssumption ==
    /\ Tagged \in [Targets -> SUBSET Schedules]
    /\ Payloads \subseteq Payload
    /\ MaxCycles \in Nat
    /\ "orchestrator" \notin Targets

VARIABLES
    orchestrator,   \* where the orchestrator is, with what it has prefetched
    handler,        \* each target's scheduling request and its context
    erased,         \* history: periods missing since a reader's schedules were read
    cycles          \* what has been used of MaxCycles

readerVars == <<orchestrator, handler, erased, cycles>>
allVars == <<vars, readerVars>>

Readers == Targets \union {"orchestrator"}
Missing(table) == {p \in PeriodNames : table[p] = None}

NoSchedules == [s \in Schedules |-> None]
NoPeriods == [p \in PeriodNames |-> None]

\* Mutant of Usable: only periods of the schedule's own stack count.
UsableOfOwner(item, store) ==
    \A p \in item.periods : store[p] # None /\ store[p].owner = item.owner

\* to_instance_schedule: the periods of a schedule are all found, or it raises.
Usable(item, store) == \A p \in item.periods : store[p] # None

-----------------------------------------------------------------------------
(* The orchestrator *)

PrefetchSchedules ==
    /\ orchestrator.at = "idle"
    /\ cycles < MaxCycles
    /\ cycles' = cycles + 1
    /\ orchestrator' = [at |-> "periods", schedules |-> schedules, periods |-> NoPeriods,
                        dropped |-> {}, left |-> {}]
    /\ erased' = [erased EXCEPT !["orchestrator"] = Missing(periods)]
    /\ UNCHANGED <<vars, handler>>

\* Schedules that name a missing period are left out, with an error in the log.
PrefetchPeriods ==
    LET read == orchestrator.schedules
        bad == {s \in Schedules : read[s] # None /\ ~Usable(read[s], periods)} IN
    /\ orchestrator.at = "periods"
    /\ orchestrator' =
          [at |-> IF Targets = {} THEN "idle" ELSE "sending",
           schedules |-> [s \in Schedules |-> IF s \in bad THEN None ELSE read[s]],
           periods |-> periods,
           dropped |-> {read[s] : s \in bad},
           left |-> Targets]
    /\ UNCHANGED <<vars, handler, erased, cycles>>

\* The schedules of the target's resources, with the periods they name.
SchedulesFor(t) ==
    [s \in Schedules |-> IF s \in Tagged[t] THEN orchestrator.schedules[s] ELSE None]
PeriodsFor(t) ==
    LET named == UNION {orchestrator.schedules[s].periods :
                           s \in {r \in Tagged[t] : orchestrator.schedules[r] # None}} IN
    [p \in PeriodNames |-> IF p \in named THEN orchestrator.periods[p] ELSE None]

\* Mutant of Invoke: periods that are not in the request are taken for none.
InvokeComplete(t) ==
    /\ orchestrator.at = "sending"
    /\ t \in orchestrator.left
    /\ handler[t].at = "none"
    /\ orchestrator' = [orchestrator EXCEPT !.left = @ \ {t},
                                            !.at = IF orchestrator.left = {t} THEN "idle" ELSE @]
    /\ \E payload \in Payloads :
          handler' = [handler EXCEPT ![t] =
             [at |-> "ready", payload |-> payload, schedules |-> SchedulesFor(t),
              periods |-> IF payload = "all" THEN PeriodsFor(t) ELSE NoPeriods]]
    /\ erased' = [erased EXCEPT ![t] = erased["orchestrator"]]
    /\ UNCHANGED <<vars, cycles>>

\* _run_scheduling_lambda: too large a request goes without its periods, and if
\* that does not help, without its schedules.
Invoke(t) ==
    /\ orchestrator.at = "sending"
    /\ t \in orchestrator.left
    /\ handler[t].at = "none"
    /\ orchestrator' = [orchestrator EXCEPT !.left = @ \ {t},
                                            !.at = IF orchestrator.left = {t} THEN "idle" ELSE @]
    /\ \E payload \in Payloads :
          handler' = [handler EXCEPT ![t] =
             [at |-> CASE payload = "all" -> "ready"
                       [] payload = "schedules" -> "periods"
                       [] payload = "neither" -> "schedules",
              payload |-> payload,
              schedules |-> IF payload = "neither" THEN NoSchedules ELSE SchedulesFor(t),
              periods |-> IF payload = "all" THEN PeriodsFor(t) ELSE NoPeriods]]
    /\ erased' = [erased EXCEPT ![t] = erased["orchestrator"]]
    /\ UNCHANGED <<vars, cycles>>

\* An invocation that raises ends the loop: the other targets are not served.
InvokeRaises ==
    /\ orchestrator.at = "sending"
    /\ Fault("invoke")
    /\ orchestrator' = [orchestrator EXCEPT !.at = "idle", !.left = {}]
    /\ UNCHANGED <<tableVars, client, stack, raced, deploys, asks, handler, erased, cycles>>

-----------------------------------------------------------------------------
(* The scheduling request handler of a target: build_scheduling_context *)

LoadSchedules(t) ==
    /\ handler[t].at = "schedules"
    /\ handler' = [handler EXCEPT ![t].schedules = schedules, ![t].at = "periods"]
    /\ erased' = [erased EXCEPT ![t] = Missing(periods)]
    /\ UNCHANGED <<vars, orchestrator, cycles>>

LoadPeriods(t) ==
    /\ handler[t].at = "periods"
    /\ handler' = [handler EXCEPT ![t].periods = periods, ![t].at = "ready"]
    /\ UNCHANGED <<vars, orchestrator, erased, cycles>>

NoRequest == [at |-> "none", payload |-> "all", schedules |-> NoSchedules, periods |-> NoPeriods]

\* The cycle itself, of which nothing is kept here.
Schedule(t) ==
    /\ handler[t].at = "ready"
    /\ handler' = [handler EXCEPT ![t] = NoRequest]
    /\ UNCHANGED <<vars, orchestrator, erased, cycles>>

-----------------------------------------------------------------------------
InitRequests ==
    /\ Init
    /\ orchestrator = [at |-> "idle", schedules |-> NoSchedules, periods |-> NoPeriods,
                       dropped |-> {}, left |-> {}]
    /\ handler = [t \in Targets |-> NoRequest]
    /\ erased = [x \in Readers |-> {}]
    /\ cycles = 0

\* A step of the parties that write the table.
WriterStep ==
    /\ Next
    /\ erased' = [x \in Readers |-> erased[x] \union Missing(periods')]
    /\ UNCHANGED <<orchestrator, handler, cycles>>

NextRequests ==
    \/ WriterStep
    \/ PrefetchSchedules \/ PrefetchPeriods \/ InvokeRaises
    \/ \E t \in Targets : Invoke(t) \/ LoadSchedules(t) \/ LoadPeriods(t) \/ Schedule(t)

SpecRequests == InitRequests /\ [][NextRequests]_allVars

-----------------------------------------------------------------------------
(* Properties *)

\* A schedule is left out of a cycle only for a period that was missing at some time
\* since the schedules were read: what is created meanwhile makes none incomplete.
DroppedOnlyIfErased ==
    \A item \in orchestrator.dropped : item.periods \intersect erased["orchestrator"] # {}

\* A context misses a period of one of its schedules, which aborts the cycle of the
\* target, only if the request was stripped and the period was missing at some time
\* since the schedules were read, by the orchestrator or by the handler.
ContextComplete ==
    \A t \in Targets : handler[t].at = "ready" =>
        \A s \in Schedules : handler[t].schedules[s] # None =>
            \A p \in handler[t].schedules[s].periods :
                \/ handler[t].periods[p] # None
                \/ handler[t].payload # "all" /\ p \in erased[t]

=============================================================================
