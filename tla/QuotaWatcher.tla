----------------------------- MODULE QuotaWatcher -----------------------------
(***************************************************************************)
(* QuotaWatcher of internal/watchers.go, fed by the watches that           *)
(* cmd/quota-scaler/main.go starts anew when one of them ends, beside a    *)
(* cluster in which QuotaAutoscalers, ResourceQuotas and the Events of     *)
(* refused pods come, change and go.                                       *)
(*                                                                         *)
(* Objects are versions: what an evaluation makes of them is QuotaUpdate's *)
(* matter.  A watch delivers, in order, the objects that exist when it     *)
(* starts and then every change; watches are not ordered among each other. *)
(* A namespace has at most one QuotaAutoscaler.                            *)
(***************************************************************************)
EXTENDS Naturals, Sequences, FiniteSets, SequencesExt

CONSTANTS
  Namespaces,
  QuotaNames,  \* the names of the ResourceQuotas of a namespace
  Reasons,     \* the reasons of the Events watched, a watch for each
  Absent,      \* an object that does not exist, a key a Go map does not hold
  MaxChanges,  \* bound: changes of the cluster in a behaviour
  MaxCalls,    \* bound: evaluations running before another is started
  MaxFailures  \* bound: crashes and failed calls of the API server

ASSUME MaxChangesAssumption == MaxChanges \in Nat
ASSUME MaxCallsAssumption == MaxCalls \in Nat \ {0}
ASSUME MaxFailuresAssumption == MaxFailures \in Nat
ASSUME ReasonsAssumption == Reasons \subseteq {"FailedCreate", "PresentError"}
ASSUME NamesAssumption == IsFiniteSet(Namespaces) /\ IsFiniteSet(QuotaNames)

VARIABLES
  scaler,     \* scaler[ns]: the QuotaAutoscaler of ns
  quota,      \* quota[ns][q]: the version of the ResourceQuota q of ns
  refusal,    \* refusal[ns][r]: the version of the Event of reason r in ns
  changes,    \* how many changes the cluster has seen; the newest version
  failures,   \* how often the process crashed or a call failed
  stage,      \* where the loop of main is
  stream,     \* stream[k]: what the watch k has yet to deliver
  Scalers,    \* the maps of QuotaWatcher
  Quotas,
  Events,
  calls,      \* the goroutines that UpdateNs has started
  considered, \* history: the Events that an evaluation was given
  missed,     \* history: the scaler of ns was deleted between List and Watch
  uncoupled   \* history: the quota of ns is not the one its scaler asks for

cluster == <<scaler, quota, refusal, changes>>
maps    == <<Scalers, Quotas, Events>>
history == <<considered, missed, uncoupled>>
vars    == <<cluster, failures, stage, stream, maps, calls, history>>

-----------------------------------------------------------------------------
Version == 1..MaxChanges

\* A QuotaAutoscaler: the ResourceQuota it asks for; the version stands for the
\* rest of its spec.
Scaler == [quota : QuotaNames, version : Version]

Quota == [name : QuotaNames, version : Version]

Refusal == [ns : Namespaces, reason : Reasons, version : Version]

ASSUME AbsentAssumption == Absent \notin Version /\ Absent \notin Scaler

Watches == {"scalers", "quotas"} \cup Reasons

\* The stages of main, in order: set-up, List, the watches, List in WatchQuotas,
\* select.
Stages == {"start", "list", "watchScalers", "watchQuotas", "watchEvents", "listQuotas",
           "running"}

\* What watch k is about.
Object(k) ==
  CASE k = "scalers" -> Scaler
    [] k = "quotas" -> Quota
    [] OTHER -> Refusal

\* A watch event: the code tells deletions apart, and nothing else.
Change(type, ns, object) == [type |-> type, ns |-> ns, object |-> object]

Changes(k) == [type : {"Set", "Deleted"}, ns : Namespaces, object : Object(k)]

\* An evaluation: UpdateQuotaIfRequired with its arguments.
Call == [ns : Namespaces, scaler : Scaler, quota : Quota, events : SUBSET Refusal]

NoMap == [ns \in Namespaces |-> Absent]

NoStreams == [k \in Watches |-> <<>>]

\* Watch k has been started since main's loop last began.
Watching(k) ==
  CASE k = "scalers" -> stage \notin {"start", "list", "watchScalers"}
    [] k = "quotas" -> stage \notin {"start", "list", "watchScalers", "watchQuotas"}
    [] OTHER -> stage \in {"listQuotas", "running"}

Init ==
  /\ scaler = NoMap
  /\ quota = [ns \in Namespaces |-> [q \in QuotaNames |-> Absent]]
  /\ refusal = [ns \in Namespaces |-> [r \in Reasons |-> Absent]]
  /\ changes = 0
  /\ failures = 0
  /\ stage = "start"
  /\ stream = NoStreams
  /\ Scalers = NoMap /\ Quotas = NoMap /\ Events = NoMap
  /\ calls = {}
  /\ considered = {}
  /\ missed = {}
  /\ uncoupled = {}

-----------------------------------------------------------------------------
(* The cluster. *)

\* A change that the watch k reports, if it has been started.
Changed(k, change) ==
  /\ changes < MaxChanges
  /\ changes' = changes + 1
  /\ stream' = IF Watching(k) THEN [stream EXCEPT ![k] = Append(@, change)] ELSE stream
  /\ UNCHANGED <<failures, stage, maps, calls, considered, uncoupled>>

\* A QuotaAutoscaler is created or edited.
SetScaler(ns, q) ==
  LET s == [quota |-> q, version |-> changes + 1]
  IN  /\ Changed("scalers", Change("Set", ns, s))
      /\ scaler' = [scaler EXCEPT ![ns] = s]
      /\ missed' = missed \ {ns}
      /\ UNCHANGED <<quota, refusal>>

DeleteScaler(ns) ==
  /\ scaler[ns] # Absent
  /\ Changed("scalers", Change("Deleted", ns, scaler[ns]))
  /\ scaler' = [scaler EXCEPT ![ns] = Absent]
  /\ missed' = IF stage = "watchScalers" THEN missed \cup {ns} ELSE missed
  /\ UNCHANGED <<quota, refusal>>

\* A ResourceQuota is created, resized, or counts what is used.
SetQuota(ns, q) ==
  /\ Changed("quotas", Change("Set", ns, [name |-> q, version |-> changes + 1]))
  /\ quota' = [quota EXCEPT ![ns][q] = changes + 1]
  /\ UNCHANGED <<scaler, refusal, missed>>

DeleteQuota(ns, q) ==
  /\ quota[ns][q] # Absent
  /\ Changed("quotas", Change("Deleted", ns, [name |-> q, version |-> quota[ns][q]]))
  /\ quota' = [quota EXCEPT ![ns][q] = Absent]
  /\ UNCHANGED <<scaler, refusal, missed>>

\* A pod is refused: its Event is created, or updated with a new count.
RefusePod(ns, r) ==
  LET e == [ns |-> ns, reason |-> r, version |-> changes + 1]
  IN  /\ Changed(r, Change("Set", ns, e))
      /\ refusal' = [refusal EXCEPT ![ns][r] = changes + 1]
      /\ UNCHANGED <<scaler, quota, missed>>

\* The API server deletes an Event when its time has passed.
ExpireEvent(ns, r) ==
  /\ refusal[ns][r] # Absent
  /\ LET e == [ns |-> ns, reason |-> r, version |-> refusal[ns][r]]
     IN  Changed(r, Change("Deleted", ns, e))
  /\ refusal' = [refusal EXCEPT ![ns][r] = Absent]
  /\ UNCHANGED <<scaler, quota, missed>>

-----------------------------------------------------------------------------
(* main: list, watch, and serve the watches until one of them ends. *)

\* A call of the API server, which may fail.
Attempt(ok) ==
  \/ ok /\ UNCHANGED failures
  \/ ~ok /\ failures < MaxFailures /\ failures' = failures + 1

\* A configuration is found, in the cluster or in a file, and a client made of it.
GetKubernetesClient(ok) == Attempt(ok)

\* A process sets up its clients, or panics, starts the goroutine of the handler
\* and enters its loop.
StartProcess(ok) ==
  /\ stage = "start"
  /\ GetKubernetesClient(ok)
  /\ stage' = IF ok THEN "list" ELSE "start"
  /\ UNCHANGED <<cluster, stream, maps, calls, history>>

\* What watch k delivers first: the objects that exist.
Existing(k) ==
  CASE k = "scalers" ->
         {Change("Set", ns, scaler[ns]) : ns \in {n \in Namespaces : scaler[n] # Absent}}
    [] k = "quotas" ->
         {Change("Set", p[1], [name |-> p[2], version |-> quota[p[1]][p[2]]]) :
            p \in {p \in Namespaces \X QuotaNames : quota[p[1]][p[2]] # Absent}}
    [] OTHER ->
         {Change("Set", ns, [ns |-> ns, reason |-> k, version |-> refusal[ns][k]]) :
            ns \in {n \in Namespaces : refusal[n][k] # Absent}}

\* Faulty variant: the maps of the last watcher are kept.
ListIntoOldMaps ==
  /\ stage = "list"
  /\ stage' = "watchScalers"
  /\ Scalers' = [ns \in Namespaces |-> IF scaler[ns] = Absent THEN Scalers[ns] ELSE scaler[ns]]
  /\ missed' = {} /\ uncoupled' = {}
  /\ UNCHANGED <<cluster, failures, stream, Quotas, Events, calls, considered>>

\* The List of main, which the new watcher will start from.
ListScalers ==
  /\ stage = "list"
  /\ stage' = "watchScalers"
  /\ Scalers' = scaler
  /\ Quotas' = NoMap /\ Events' = NoMap
  /\ missed' = {} /\ uncoupled' = {}
  /\ UNCHANGED <<cluster, failures, stream, calls, considered>>

\* The Watch calls of main; the one for each reason of Events is made in one step.
Watch ==
  /\ \/ /\ stage = "watchScalers" /\ stage' = "watchQuotas"
        /\ \E s \in SetToSeqs(Existing("scalers")) : stream' = [stream EXCEPT !["scalers"] = s]
     \/ /\ stage = "watchQuotas" /\ stage' = "watchEvents"
        /\ \E s \in SetToSeqs(Existing("quotas")) : stream' = [stream EXCEPT !["quotas"] = s]
     \/ /\ stage = "watchEvents" /\ stage' = "listQuotas"
        /\ stream' = [k \in Watches |->
                        IF k \in Reasons THEN SetToSeq(Existing(k)) ELSE stream[k]]
  /\ UNCHANGED <<cluster, failures, maps, calls, history>>

\* The ResourceQuota q of ns as the API server has it.
Known(ns, q) ==
  IF quota[ns][q] = Absent THEN Absent ELSE [name |-> q, version |-> quota[ns][q]]

\* The List of WatchQuotas, whose error is ignored: then no quota is known.
ListQuotas(ok) ==
  /\ stage = "listQuotas"
  /\ stage' = "running"
  /\ Attempt(ok)
  /\ Quotas' = [ns \in Namespaces |->
                  IF ok /\ Scalers[ns] # Absent THEN Known(ns, Scalers[ns].quota) ELSE Absent]
  /\ UNCHANGED <<cluster, stream, Scalers, Events, calls, history>>

\* Faulty variant: the watches go on.
StreamLeft ==
  /\ stage = "running"
  /\ stage' = "list"
  /\ UNCHANGED <<cluster, failures, stream, maps, calls, history>>

\* A watch ends, hourly or earlier: WatchQuotas returns, main stops the watches.
StreamEnds ==
  /\ stage = "running"
  /\ stage' = "list"
  /\ stream' = NoStreams
  /\ UNCHANGED <<cluster, failures, maps, calls, history>>

\* The process ends and is started again: a watch sends an error, a List or a
\* Watch fails, two evaluations write one Status.Used at once.
Crash ==
  /\ stage # "start"
  /\ Attempt(FALSE)
  /\ stage' = "start"
  /\ stream' = NoStreams
  /\ calls' = {}
  /\ Scalers' = NoMap /\ Quotas' = NoMap /\ Events' = NoMap
  /\ missed' = {} /\ uncoupled' = {}
  /\ UNCHANGED <<cluster, considered>>

-----------------------------------------------------------------------------
(* WatchQuotas: the select, one branch at a time. *)

\* What watch k delivers next.
Delivered(k) ==
  IF stage = "running" /\ Cardinality(calls) < MaxCalls /\ stream[k] # <<>>
  THEN {Head(stream[k])} ELSE {}

Consume(k) ==
  /\ stream' = [stream EXCEPT ![k] = Tail(@)]
  /\ UNCHANGED <<cluster, stage, missed>>

\* Faulty variant: the Events of the namespace are not handed over.
UpdateNsOnly(ns, events) ==
  IF Scalers'[ns] # Absent /\ Quotas'[ns] # Absent
  THEN {[ns |-> ns, scaler |-> Scalers'[ns], quota |-> Quotas'[ns], events |-> {}]}
  ELSE {}

\* UpdateNs, with the maps as they are when it is called: an evaluation is
\* started when both the scaler and the quota are known.
UpdateNs(ns, events) ==
  IF Scalers'[ns] # Absent /\ Quotas'[ns] # Absent
  THEN {[ns |-> ns, scaler |-> Scalers'[ns], quota |-> Quotas'[ns], events |-> events]}
  ELSE {}

\* Faulty variant: the scaler stays in the map.
KeepScaler(change) ==
  /\ change.type = "Deleted"
  /\ UNCHANGED <<failures, maps, calls, considered, uncoupled>>

\* RegisterScalerEvent of a deletion.
ForgetScaler(change) ==
  /\ change.type = "Deleted"
  /\ Scalers' = [Scalers EXCEPT ![change.ns] = Absent]
  /\ uncoupled' = IF Quotas[change.ns] # Absent THEN uncoupled \cup {change.ns} ELSE uncoupled
  /\ UNCHANGED <<failures, Quotas, Events, calls, considered>>

\* RegisterMissingResourceQuota, whose Get may fail.
FetchQuota(ns, q, ok) ==
  /\ Quotas[ns] = Absent
  /\ Attempt(ok)
  /\ Quotas' = [Quotas EXCEPT ![ns] = IF ok THEN Known(ns, q) ELSE Absent]
  /\ uncoupled' = IF ok THEN uncoupled ELSE uncoupled \cup {ns}

KeepQuota(ns, q) ==
  /\ Quotas[ns] # Absent
  /\ uncoupled' = IF Quotas[ns].name # q THEN uncoupled \cup {ns} ELSE uncoupled
  /\ UNCHANGED <<failures, Quotas>>

\* RegisterScalerEvent of a scaler created or edited, and UpdateNs(ns, false).
RegisterScaler(change) ==
  /\ change.type = "Set"
  /\ Scalers' = [Scalers EXCEPT ![change.ns] = change.object]
  /\ \/ \E ok \in BOOLEAN : FetchQuota(change.ns, change.object.quota, ok)
     \/ KeepQuota(change.ns, change.object.quota)
  /\ calls' = calls \cup UpdateNs(change.ns, {})
  /\ UNCHANGED <<Events, considered>>

ScalerEvent ==
  \E change \in Delivered("scalers") :
    /\ Consume("scalers")
    /\ ForgetScaler(change) \/ RegisterScaler(change)

\* Faulty variant: any quota of a namespace that has a scaler.
HasScaler(change) == Scalers[change.ns] # Absent

\* The quota of the change is the one the scaler of its namespace asks for.
Targeted(change) ==
  Scalers[change.ns] # Absent /\ Scalers[change.ns].quota = change.object.name

\* RegisterQuotaEvent; the key in Events makes the ticker evaluate ns.
QuotaEvent ==
  \E change \in Delivered("quotas") :
    /\ Consume("quotas")
    /\ \/ /\ Targeted(change) /\ change.type = "Set"
          /\ Quotas' = [Quotas EXCEPT ![change.ns] = change.object]
          /\ Events' = [Events EXCEPT ![change.ns] = IF @ = Absent THEN {} ELSE @]
       \/ /\ Targeted(change) /\ change.type = "Deleted"
          /\ Quotas' = [Quotas EXCEPT ![change.ns] = Absent]
          /\ UNCHANGED Events
       \/ /\ ~Targeted(change)
          /\ UNCHANGED <<Quotas, Events>>
    /\ UNCHANGED <<failures, Scalers, calls, considered, uncoupled>>

\* RegisterNamespacedEvent, whatever the type of the change.
NamespacedEvent(r) ==
  \E change \in Delivered(r) :
    /\ Consume(r)
    /\ Events' = [Events EXCEPT ![change.ns] =
                    (IF @ = Absent THEN {} ELSE @) \cup {change.object}]
    /\ UNCHANGED <<failures, Scalers, Quotas, calls, considered, uncoupled>>

\* The ticker: UpdateNs(ns, true) for every key in Events, and the key is deleted.
Tick ==
  /\ stage = "running"
  /\ Cardinality(calls) < MaxCalls
  /\ UNCHANGED <<cluster, failures, stage, stream, Scalers, Quotas, missed, uncoupled>>
  /\ LET started == UNION {UpdateNs(ns, Events[ns]) : ns \in {n \in Namespaces : Events[n] # Absent}}
     IN  /\ calls' = calls \cup started
         /\ considered' = considered \cup UNION {c.events : c \in started}
  /\ Events' = NoMap

\* UpdateQuotaIfRequired ends; the resize handler has received its request, if
\* it made one.
EvaluationEnds(c) ==
  /\ c \in calls
  /\ calls' = calls \ {c}
  /\ UNCHANGED <<cluster, failures, stage, stream, maps, history>>

-----------------------------------------------------------------------------
ClusterChanges ==
  \E ns \in Namespaces :
    \/ \E q \in QuotaNames : SetScaler(ns, q) \/ SetQuota(ns, q) \/ DeleteQuota(ns, q)
    \/ DeleteScaler(ns)
    \/ \E r \in Reasons : RefusePod(ns, r) \/ ExpireEvent(ns, r)

Serve ==
  \/ ScalerEvent
  \/ QuotaEvent
  \/ \E r \in Reasons : NamespacedEvent(r)
  \/ Tick

Next ==
  \/ ClusterChanges
  \/ ListScalers \/ Watch \/ StreamEnds \/ Crash
  \/ \E ok \in BOOLEAN : StartProcess(ok) \/ ListQuotas(ok)
  \/ Serve
  \/ \E c \in calls : EvaluationEnds(c)

\* A tick with an Event of reason r in ns to hand over.
RefusalTick(ns, r) ==
  /\ Events[ns] # Absent
  /\ \E e \in Events[ns] : e.reason = r
  /\ Tick

\* main runs on, and its watches end within the hour; a goroutine is run.  Not
\* every hour ends before the watches have delivered an Event, nor in the five
\* seconds after it.  The cluster need not change.
Fairness ==
  /\ WF_vars(StartProcess(TRUE)) /\ WF_vars(ListScalers) /\ WF_vars(Watch) /\ WF_vars(ListQuotas(TRUE))
  /\ WF_vars(StreamEnds)
  /\ \A r \in Reasons : SF_vars(NamespacedEvent(r))
  /\ \A ns \in Namespaces, r \in Reasons : SF_vars(RefusalTick(ns, r))
  /\ WF_vars(\E c \in calls : EvaluationEnds(c))

Spec == Init /\ [][Next]_vars

FairSpec == Spec /\ Fairness

-----------------------------------------------------------------------------
TypeOK ==
  /\ scaler \in [Namespaces -> Scaler \cup {Absent}]
  /\ quota \in [Namespaces -> [QuotaNames -> Version \cup {Absent}]]
  /\ refusal \in [Namespaces -> [Reasons -> Version \cup {Absent}]]
  /\ changes \in 0..MaxChanges
  /\ failures \in 0..MaxFailures
  /\ stage \in Stages
  /\ DOMAIN stream = Watches
  /\ \A k \in Watches :
       /\ stream[k] \in Seq(Changes(k))
       /\ ~Watching(k) => stream[k] = <<>>
  /\ Scalers \in [Namespaces -> Scaler \cup {Absent}]
  /\ Quotas \in [Namespaces -> Quota \cup {Absent}]
  /\ DOMAIN Events = Namespaces
  /\ \A ns \in Namespaces : Events[ns] = Absent \/ Events[ns] \in SUBSET Refusal
  /\ calls \in SUBSET Call
  /\ considered \in SUBSET Refusal
  /\ missed \in SUBSET Namespaces
  /\ uncoupled \in SUBSET Namespaces

\* Watch k has something to deliver about ns.
Pending(k, ns) == \E i \in DOMAIN stream[k] : stream[k][i].ns = ns

\* When the watch of the scalers has delivered all it knows of a namespace, the
\* map holds its scaler as the cluster does, unless the scaler was deleted after
\* the List of main and before its Watch (RegisterScalerEvent, main).
ScalersFollow ==
  stage = "running" =>
    \A ns \in Namespaces \ missed :
      ~Pending("scalers", ns) => Scalers[ns] = scaler[ns]

\* The same for the quota that the scaler in the map asks for: List, Get and the
\* watch, racing, leave the last word to the watch, and a List that failed is
\* made up for.  The namespaces left out are those whose scaler was deleted or
\* asked for another quota while one was known, or whose Get failed
\* (RegisterQuotaEvent, RegisterMissingResourceQuota).
QuotasFollow ==
  stage = "running" =>
    \A ns \in Namespaces \ uncoupled :
      Scalers[ns] # Absent /\ ~Pending("quotas", ns) =>
        Quotas[ns] = Known(ns, Scalers[ns].quota)

\* Once the cluster rests, what the watcher holds of a namespace is what the
\* cluster has, whenever its watches have nothing more to deliver: the hourly
\* restart mends what the watcher got wrong (the loop of main).
InStep(ns) ==
  stage = "running" /\ ~Pending("scalers", ns) /\ ~Pending("quotas", ns) =>
    /\ Scalers[ns] = scaler[ns]
    /\ scaler[ns] # Absent => Quotas[ns] = Known(ns, scaler[ns].quota)

Mends == <>[](\A ns \in Namespaces : InStep(ns))

\* The Event of a refused pod is given to an evaluation as long as it exists, and
\* so do the scaler and the quota of its namespace: what the ticker threw away
\* or a restart lost is delivered again (WatchQuotas, main).
Outdated(ns, r, version) ==
  \/ refusal[ns][r] # version
  \/ scaler[ns] = Absent
  \/ scaler[ns] # Absent /\ Known(ns, scaler[ns].quota) = Absent

RefusalsConsidered ==
  \A ns \in Namespaces, r \in Reasons, n \in Version :
    refusal[ns][r] = n ~>
      \/ [ns |-> ns, reason |-> r, version |-> n] \in considered
      \/ Outdated(ns, r, n)

\* An evaluation measures the scaler against the quota that the scaler asks for,
\* which is the one the request will name (the comment in WatchQuotas).
Coupled == \A c \in calls : c.quota.name = c.scaler.quota

\* Where no scaler was deleted or changed its quota while one was known, and no
\* Get failed, it does, also while changes of both are under way: what an Event,
\* a tick or a new scaler starts takes the scaler and the quota from two maps that
\* different watches fill (UpdateNs, RegisterQuotaEvent).
StartsCoupled ==
  [][\A c \in calls' \ calls :
       c.ns \notin uncoupled' => c.quota.name = c.scaler.quota]_vars
=============================================================================
