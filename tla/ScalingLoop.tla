----------------------------- MODULE ScalingLoop -----------------------------
(***************************************************************************)
(* The control loop of one namespace: workloads start and stop pods, the   *)
(* quota admits or refuses them, and the autoscaler (internal/watchers.go, *)
(* scaling.go, pod_event.go) evaluates its policies and resizes the quota. *)
(*                                                                         *)
(* An evaluation and the resize it asks for are one step here, refused by  *)
(* resize() of resize_api.go when it shrinks a quota that was resized less *)
(* than a minute ago: ResizeHandler is about what happens when they are    *)
(* apart, this module about where the loop leads.                          *)
(***************************************************************************)
EXTENDS QuotaUpdate, FiniteSets

CONSTANTS
  Specs,       \* the specifications a QuotaAutoscaler may have
  Workloads,
  Kind,        \* Kind[w]: the Kubernetes kind of w
  Containers,  \* Containers[w]: the containers of a pod of w, by name
  MemoryKey,   \* the key by which the quota counts memory
  LimitUnit,   \* the unit in which the endpoint writes limits.memory
  StartHard,   \* the hard limits a namespace may start with
  MaxPods,     \* bound: pods of a workload
  MaxEvents,   \* bound: events between two ticks
  MaxFailures, \* bound: ticks that do not get all the objects they ask for
  MaxChanges   \* bound: changes of scaler and workloads in a behaviour

\* Neither quantities nor percentages are negative.
ASSUME SpecsAssumption ==
  \A s \in Specs :
    /\ \A f \in DOMAIN Defaults : s[f] \in Nat \cup {Unset}
    /\ s.scaleDown \in Seq(Policy) /\ s.scaleUp \in Seq(Policy)
ASSUME WorkloadsAssumption ==
  /\ IsFiniteSet(Workloads)
  /\ \A w \in Workloads :
       /\ Kind[w] \in {"ReplicaSet", "StatefulSet", "ReplicationController",
                       "Job", "Challenge", "DaemonSet"}
       /\ IsFiniteSet(DOMAIN Containers[w])
       /\ \A c \in DOMAIN Containers[w] :
            Containers[w][c] \in [requests : Quantities \cup {Absent},
                                 limits : Quantities \cup {Absent}]
\* An object is not the absence of one.
ASSUME AbsentAssumption ==
  \A w \in Workloads : \A m, n \in 0..MaxPods :
    Absent # [kind |-> Kind[w], wanted |-> m, running |-> n, containers |-> Containers[w]]
ASSUME StartHardAssumption == StartHard \subseteq Quantities
ASSUME BoundsAssumption ==
  MaxPods \in Nat /\ MaxEvents \in Nat /\ MaxFailures \in Nat /\ MaxChanges \in Nat
ASSUME MemoryKeyAssumption == MemoryKey \in {"memory", "limits.memory"}
ASSUME LimitUnitAssumption == LimitUnit \in {"m", "M"}

VARIABLES
  spec,      \* Spec of the QuotaAutoscaler
  hard,      \* Spec.Hard of the ResourceQuota: cpu and memory
  limits,    \* Spec.Hard["limits.cpu"] and Spec.Hard["limits.memory"]
  counted,   \* the quota controller has filled in the quota's status
  wanted,    \* wanted[w]: the replicas the workload should have
  running,   \* running[w]: those it has
  recent,    \* the last resize was less than a minute ago
  batch,     \* QuotaWatcher.Events: the workloads of FailedCreate events
  changes,   \* how many changes were made
  failures   \* how many ticks did not get all objects

vars == <<spec, hard, limits, counted, wanted, running, recent, batch, changes,
          failures>>

-----------------------------------------------------------------------------
(* What the quota counts for a pod, and for all of them. *)

Field(container, list, field) ==
  IF container[list] = Absent THEN 0 ELSE container[list][field]

\* Absent limits count for nothing; a quota on limits would refuse such a pod.
PodUse(w) ==
  LET Sum(list, field) ==
        SumFunction([c \in DOMAIN Containers[w] |-> Field(Containers[w][c], list, field)])
  IN  [cpu |-> Sum("requests", "cpu"),
       cpuLimit |-> Sum("limits", "cpu"),
       memory |-> Sum(IF MemoryKey = "memory" THEN "requests" ELSE "limits", "memory")]

UseOf(count) ==
  [f \in {"cpu", "cpuLimit", "memory"} |->
     SumFunction([w \in Workloads |-> count[w] * PodUse(w)[f]])]

\* limits.memory is in tenths of a megabyte, as use is: "%dm" is thousandths of
\* a byte, "%dM" would be megabytes.
MemoryLimit(memory) ==
  CASE LimitUnit = "M" -> 10 * memory
    [] LimitUnit = "m" -> (memory + 99999999) \div 100000000

\* Faulty variant: the limits of the quota are replaced by that of the memory.
OnlyMemoryLimit(new) == [memory |-> MemoryLimit(new.memory)]

\* The limits that InvokeResizeApiStub patches in along with cpu and memory.
PatchedLimits(new) ==
  [cpu |-> REQ_LIM_RATIO * new.cpu, memory |-> MemoryLimit(new.memory)]

\* The quota admits the use u.
Admits(u) ==
  /\ u.cpu <= hard.cpu
  /\ u.cpuLimit <= limits.cpu
  /\ u.memory <= 10 * hard.memory
  /\ MemoryKey = "limits.memory" => u.memory <= limits.memory

OneMore(w) == [running EXCEPT ![w] = @ + 1]

Quota == [hard |-> hard, used |-> UseOf(running), status |-> counted]

\* The objects the Events name, those unreached being as good as gone.
Objects(unreached) ==
  [w \in Workloads |->
     IF wanted[w] = 0 \/ w \in unreached THEN Absent
     ELSE [kind |-> Kind[w], wanted |-> wanted[w], running |-> running[w],
           containers |-> Containers[w]]]

Init ==
  /\ spec \in Specs
  /\ hard \in StartHard
  /\ limits = [cpu |-> REQ_LIM_RATIO * hard.cpu, memory |-> 10 * hard.memory]
  /\ counted = FALSE
  /\ wanted = [w \in Workloads |-> 0]
  /\ running = [w \in Workloads |-> 0]
  /\ recent = FALSE
  /\ batch = <<>>
  /\ changes = 0
  /\ failures = 0

-----------------------------------------------------------------------------
(* The cluster. *)

CountUse ==
  /\ ~counted
  /\ counted' = TRUE
  /\ UNCHANGED <<spec, hard, limits, wanted, running, recent, batch, changes,
                 failures>>

\* A workload is created, scaled or deleted; pods beyond its replicas end.
ScaleWorkload(w, replicas) ==
  /\ changes < MaxChanges
  /\ changes' = changes + 1
  /\ replicas # wanted[w]
  /\ wanted' = [wanted EXCEPT ![w] = replicas]
  /\ running' = [running EXCEPT ![w] = Smaller(@, replicas)]
  /\ UNCHANGED <<spec, hard, limits, counted, recent, batch, failures>>

Admissible(w) == running[w] < wanted[w] /\ Admits(UseOf(OneMore(w)))

PodStarts(w) ==
  /\ Admissible(w)
  /\ running' = OneMore(w)
  /\ UNCHANGED <<spec, hard, limits, counted, wanted, recent, batch, changes,
                 failures>>

\* The quota refuses a pod, and its FailedCreate event reaches the watcher.
PodRefused(w) ==
  /\ running[w] < wanted[w]
  /\ ~Admits(UseOf(OneMore(w)))
  /\ Len(batch) < MaxEvents
  /\ batch' = Append(batch, w)
  /\ UNCHANGED <<spec, hard, limits, counted, wanted, running, recent,
                 changes, failures>>

-----------------------------------------------------------------------------
(* The autoscaler. *)

\* The resources asked for, or NoResize.  Without events the sum is nothing.
Evaluation(s, events, unreached) ==
  UpdateQuotaIfRequired(Quota, s, GetResourcesFromPodEvents(events, Objects(unreached)))

\* resize() against the last resize, whose New the quota still has.
Refused(resize) ==
  resize # NoResize /\ recent /\ \E f \in {"cpu", "memory"} : resize[f] < hard[f]

\* The endpoint sets the quota to what was asked for.
Apply(resize) ==
  \/ /\ (resize = NoResize) \/ Refused(resize)
     /\ UNCHANGED <<hard, limits, recent>>
  \/ /\ resize # NoResize /\ ~Refused(resize)
     /\ hard' = resize
     /\ limits' = PatchedLimits(resize)
     /\ recent' = TRUE

\* The ticker: UpdateNs(ns, true), after which the events are forgotten, also
\* those of the objects that could not be fetched.
Tick ==
  /\ \E unreached \in SUBSET Range(batch) :
       /\ \/ unreached = {} /\ UNCHANGED failures
          \/ unreached # {} /\ failures < MaxFailures /\ failures' = failures + 1
       /\ \E resize \in {Evaluation(spec, batch, unreached)} : Apply(resize)
  /\ batch' = <<>>
  /\ UNCHANGED <<spec, counted, wanted, running, changes>>

\* The QuotaAutoscaler is edited: UpdateNs(ns, false) with the new one.
EditScaler(s) ==
  /\ changes < MaxChanges
  /\ changes' = changes + 1
  /\ s # spec
  /\ spec' = s
  /\ \E resize \in {Evaluation(s, <<>>, {})} : Apply(resize)
  /\ UNCHANGED <<counted, wanted, running, batch, failures>>

\* The minute after the last resize ends, whoever has retried by then.
MinutePasses ==
  /\ recent
  /\ recent' = FALSE
  /\ UNCHANGED <<spec, hard, limits, counted, wanted, running, batch, changes,
                 failures>>

Next ==
  \/ CountUse
  \/ MinutePasses
  \/ \E w \in Workloads :
       \/ \E n \in 0..MaxPods : ScaleWorkload(w, n)
       \/ PodStarts(w)
       \/ PodRefused(w)
  \/ Tick
  \/ \E s \in Specs : EditScaler(s)

\* When a tick is a step: ENABLED <<Tick>>_vars in plain terms.
TickMatters ==
  \/ batch # <<>>
  \/ \E resize \in {Evaluation(spec, batch, {})} : resize # NoResize /\ ~Refused(resize)

\* The controllers fill in the status, start the pods the quota admits and
\* retry.  A tick comes again and again: the changes of a quota and of what is
\* used of it are events that make the ticker look at the namespace, and so are
\* those that each new watch begins with, every hour.  Weak fairness of Tick,
\* its enabledness written out.  Nothing obliges a user to change anything.
Fairness ==
  /\ WF_vars(CountUse) /\ WF_vars(MinutePasses)
  /\ []<>~TickMatters \/ []<><<Tick>>_vars
  /\ \A w \in Workloads : WF_vars(PodStarts(w)) /\ WF_vars(PodRefused(w))

Spec == Init /\ [][Next]_vars

FairSpec == Spec /\ Fairness

-----------------------------------------------------------------------------
TypeOK ==
  /\ spec \in Specs
  /\ hard \in [{"cpu", "memory"} -> Nat]
  /\ limits \in [{"cpu", "memory"} -> Nat]
  /\ counted \in BOOLEAN
  /\ wanted \in [Workloads -> 0..MaxPods]
  /\ running \in [Workloads -> 0..MaxPods]
  /\ \A w \in Workloads : running[w] <= wanted[w]
  /\ recent \in BOOLEAN
  /\ batch \in Seq(Workloads)
  /\ Len(batch) <= MaxEvents
  /\ changes \in 0..MaxChanges
  /\ failures \in 0..MaxFailures

Fields == {"cpu", "memory"}

Bounds == ForceLimitToDefaultMax(ValidateQuotaScaler(spec))

Lowest  == [cpu |-> Bounds.minCpu, memory |-> Bounds.minMemory]
Highest == [cpu |-> Bounds.maxCpu, memory |-> Bounds.maxMemory]

Used == NormalizedUsed(UseOf(running))

\* A tick that handles events, and gets the objects they name.
HandlesEvents == batch # <<>> /\ batch' = <<>> /\ counted /\ failures' = failures

\* The workloads of the batch that are served: the others are gone, or DaemonSets,
\* which the readme says are not supported.
Served ==
  {w \in {batch[i] : i \in DOMAIN batch} : wanted[w] # 0 /\ Kind[w] # "DaemonSet"}

\* The pods that run once the refused pods of the batch do.  A Job and a Challenge
\* are given one pod at a time, if they miss one.
OneAtATime(w) == Kind[w] \in {"Job", "Challenge"}

Awaited ==
  [w \in Workloads |->
     CASE w \notin Served -> running[w]
       [] w \in Served /\ OneAtATime(w) -> Smaller(running[w] + 1, wanted[w])
       [] OTHER -> wanted[w]]

\* The Jobs and Challenges of the batch that have got all their pods meanwhile.
Overtaken == {w \in Served : OneAtATime(w) /\ running[w] = wanted[w]}

\* The pods that are paid for: those that are missing, and one of each Job that
\* misses none (the excessive quota of the known issues in the readme).
Paid ==
  [w \in Workloads |-> IF w \in Overtaken THEN 1 ELSE Awaited[w] - running[w]]

\* The CPU of a pod, container by container what it requests or a tenth of its limit.
PodCpu(w) ==
  SumFunction([c \in DOMAIN Containers[w] |->
                 Larger(Field(Containers[w][c], "requests", "cpu"),
                        Field(Containers[w][c], "limits", "cpu") \div REQ_LIM_RATIO)])

\* A resize never raises one resource and lowers the other, so that an endpoint
\* that refuses to scale down does not refuse what a pod waits for
\* (ForceNoScaleDownWhenScaleUp), and the clamping before it does not undo it.
NoMixedResize ==
  [][\A f, g \in Fields : hard'[f] > hard[f] => hard'[g] >= hard[g]]_vars

\* A resize leaves no resource above its maximum or below its minimum, unless
\* it leaves the resource as it was for the sake of the other one; a maximum
\* below the minimum wins (the clamping in UpdateQuotaIfRequired).
ResizeWithinBounds ==
  [][\A f \in Fields :
       \/ hard'[f] = hard[f]
       \/ hard'[f] = Highest'[f]
       \/ hard'[f] \in Lowest'[f]..Highest'[f]]_vars

\* After the tick that handles their events, the CPU and the memory requested
\* by the refused pods, if they request any, fit beside what is used, or the
\* maximum is reached (GetResourcesFromPodEvents, UpdateQuotaIfRequired).
EventsCovered ==
  [][HandlesEvents =>
       LET u == UseOf(Awaited)
       IN  (\E f \in Fields : u[f] # UseOf(running)[f]) =>
             /\ u.cpu <= hard'.cpu \/ hard'.cpu >= Highest.cpu
             /\ u.memory <= 10 * hard'.memory \/ hard'.memory >= Highest.memory]_vars

\* However often a workload is in the batch, a pod that is missing is paid for once
\* and one that runs is paid for by its use, but for one pod of a Job that has
\* overtaken its Event: beyond what policies and minima ask for, CPU and memory
\* cover what is used and the pods of Paid, the memory of each rounded up to a
\* megabyte (involvedObjects, missingReplicas).
EventsCountedOnce ==
  [][HandlesEvents =>
       LET most == [cpu |-> Used.cpu + SumFunction([w \in Workloads |-> Paid[w] * PodCpu(w)]),
                    memory |-> ScaledMega(UseOf(running).memory + UseOf(Paid).memory)
                                 + SumFunction(Paid)]
       IN  \A f \in Fields :
             \/ hard'[f] <= hard[f]
             \/ hard'[f] <= most[f]
             \/ hard'[f] <= Larger(Lowest[f], PolicyDesire(spec, hard, Used)[f])]_vars

\* With policies of 100 a quota is scaled down to what counts as used, and no
\* further (ActivatePolicy).  A tenth of the CPU limits counts, less what is lost
\* in the division: LimitsWithinHard is about that.
Full == \A i \in DOMAIN spec.scaleDown : spec.scaleDown[i].value = 100

UsedKeptWhenFull ==
  [][\A f \in Fields :
       Full' /\ hard'[f] < hard[f] => hard'[f] >= Used[f] \/ hard'[f] = Highest'[f]]_vars

\* What an evaluation without Events comes to when the quota has this size.
ResizeFrom(size) == UpdateQuotaIfRequired([Quota EXCEPT !.hard = size], spec, Nothing)

\* The policies of a resource leave a band: none scales down to what is used, and
\* the minimal step does not take a use above the one threshold below the other.
LeastStep ==
  [cpu |-> ValidateQuotaScaler(spec).minCpuStep,
   memory |-> ValidateQuotaScaler(spec).minMemoryStep]

LeavesBand(f) ==
  \A i \in DOMAIN spec.scaleDown :
    LET down == spec.scaleDown[i]
    IN  down.method = f =>
          /\ down.value # 100
          /\ \A j \in DOMAIN spec.scaleUp :
               LET up == spec.scaleUp[j]
               IN  up.method = f =>
                     /\ down.value < up.value
                     /\ down.value * (hard[f] + LeastStep[f]) < (up.value + 1) * hard[f]

\* A resource that the policies scale up is not scaled down again while what is
\* used stays as it is: the value CalculateScaleUp arrives at, through a percentage
\* rounded down, steps and limits, is one that CalculateScaleDown leaves alone.
ScaleUpNotUndone ==
  \A resize \in {Evaluation(spec, <<>>, {})} \ {NoResize} :
    \A again \in {ResizeFrom(resize)} \ {NoResize} :
      \A f \in Fields :
        resize[f] > hard[f] /\ LeavesBand(f) => again[f] >= resize[f]

\* Nor does the minimal step down, and the new size is not so small beside the old
\* that the percentage rounded down, a point of it at most, makes up for the band.
ShrinksGradually(f, size) ==
  \A i \in DOMAIN spec.scaleDown :
    LET down == spec.scaleDown[i]
    IN  down.method = f =>
          /\ down.value # 100
          /\ \A j \in DOMAIN spec.scaleUp :
               LET up == spec.scaleUp[j]
               IN  up.method = f =>
                     /\ down.value * hard[f] < (up.value + 1) * (hard[f] - LeastStep[f])
                     /\ hard[f] + down.value < (up.value + 1 - down.value) * size

\* A resource that the policies scale down that way is not scaled up again while
\* what is used stays as it is, whatever is lost in rounding (CalculateScaleDown;
\* UsedWithinHard is about what happens in larger steps).
ScaleDownNotUndone ==
  \A resize \in {Evaluation(spec, <<>>, {})} \ {NoResize} :
    \A again \in {ResizeFrom(resize)} \ {NoResize} :
      \A f \in Fields :
        resize[f] < hard[f] /\ ShrinksGradually(f, resize[f]) => again[f] <= resize[f]

\* No resize changes the CPU by more than the maximal step of the scaler, but to
\* respect a bound (maxCpuStep in the CRD, ValidateQuotaScaler).
MaxCpuStepKept ==
  [][LET step == ParseWithDefault(spec'.maxCpuStep, Defaults.maxCpuStep)
     IN  \/ batch # <<>>
         \/ hard'.cpu \in (hard.cpu - step)..(hard.cpu + step)
         \/ hard'.cpu \in {Lowest'.cpu, Highest'.cpu}]_vars

\* What is used of a quota never exceeds it: the quota admits no pod beyond it,
\* and no resize goes below it (the comment in ActivatePolicy).
UsedWithinHard == \A f \in Fields : Used[f] <= hard[f]

\* The CPU limits in use stay within the quota's: resizes that count a tenth of
\* them do not breach it (GetNormalizedUsedCpu).
LimitsWithinHard == UseOf(running).cpuLimit <= limits.cpu

\* The memory limits in use stay within limits.memory as the endpoint sets it,
\* next to memory (InvokeResizeApiStub).
MemoryLimitsWithinHard == UseOf(running).memory <= limits.memory

\* The maximum keeps out pods that are wanted, which are refused again and again.
AtMaximum == \E f \in Fields : hard[f] >= Highest[f]

KeptOut == AtMaximum /\ running # wanted

\* A scale down takes back room that a refused pod was given before it retried:
\* nothing makes a pod retry within the minute in which that is refused.
TakesBack == hard' # hard /\ \E w \in Workloads : Admissible(w) /\ ~Admissible(w)'

\* What keeps a namespace from coming to rest, if anything does.
Restless == []<>KeptOut \/ []<><<TakesBack>>_vars

\* Whatever the changes of scaler and workloads, once they end so do the resizes:
\* the policies do not work against each other (CalculateScaleUp,
\* CalculateScaleDown), nor against the events in any other way than by taking
\* room back that pods are slow to use.
Settles == Restless \/ <>[](Evaluation(spec, batch, {}) = NoResize)

\* The pods the quota refuses start in the end, unless the maximum keeps them out
\* or their room is taken back again and again: an event is worth what the pod is
\* counted for, one whose object could not be fetched is made up for by the next
\* (GetResourcesFromPodEvents).
PodsStart == Restless \/ <>[](running = wanted)

\* Once the workloads rest, the use of the quota is between the thresholds, to
\* the percent below, or at a bound, with the same exceptions (the behavior the
\* readme describes).
Threshold(policies, method) ==
  policies[CHOOSE i \in DOMAIN policies : policies[i].method = method].value

InBand(f) ==
  /\ \/ Used[f] * 100 < (Threshold(spec.scaleUp, f) + 1) * hard[f]
     \/ hard[f] >= Highest[f]
  /\ \/ Used[f] * 100 >= Threshold(spec.scaleDown, f) * hard[f]
     \/ hard[f] <= Lowest[f]

KeepsBand == Restless \/ <>[](\A f \in Fields : InBand(f))
=============================================================================
