------------------------------ MODULE PodEvents ------------------------------
(***************************************************************************)
(* internal/pod_event.go: how many resources the workloads need whose pods *)
(* the quota has refused, read from a batch of their events.               *)
(*                                                                         *)
(* CPU is in millicores, the granularity Kubernetes keeps; memory, before  *)
(* ScaledValue, in tenths of a megabyte, so that its rounding shows.       *)
(***************************************************************************)
EXTENDS Resources, Functions

CONSTANT Absent   \* a field a manifest does not have, an object that is gone

\* The ratio between the CPU limits and the CPU requests of a quota.
REQ_LIM_RATIO == 10

\* Faulty variant: rounded down.
ScaledMegaDown(tenths) == tenths \div 10

\* Quantity.ScaledValue(Mega) of a number of tenths: rounded up.
ScaledMega(tenths) == (tenths + 9) \div 10

\* A request counts as at least a tenth of its limit.
GetNormalizedUsedCpu(request, limit) == Larger(request, limit \div REQ_LIM_RATIO)

\* A container without requests counts for nothing; one that has limits is
\* measured by its memory limit, even when it has none.
ContainerNeed(container) ==
  CASE container.requests = Absent -> Nothing
    [] container.requests # Absent /\ container.limits = Absent -> container.requests
    [] OTHER ->
         [cpu |-> GetNormalizedUsedCpu(container.requests.cpu, container.limits.cpu),
          memory |-> container.limits.memory]

\* The sum of the needs of all x.
Total(need) ==
  [f \in {"cpu", "memory"} |-> SumFunction([x \in DOMAIN need |-> need[x][f]])]

\* containers is a function on the names of the containers.
CalculatePodResources(containers, missingReplicas) ==
  LET pod == Total([c \in DOMAIN containers |-> ContainerNeed(containers[c])])
  IN  IF missingReplicas <= 0
      THEN Nothing
      ELSE [cpu    |-> pod.cpu * missingReplicas,
            memory |-> ScaledMega(pod.memory) * missingReplicas]

\* What getPodTemplateSpecFromEv makes of the object as it is when asked for.
\* A Job and a Challenge miss one pod, whatever they are doing.
MissingReplicas(object) ==
  CASE object.kind \in {"ReplicaSet", "StatefulSet", "ReplicationController"} ->
         object.wanted - object.running
    [] object.kind \in {"Job", "Challenge"} -> 1

\* Faulty variant: an object is handled at each of its events.
ResourcesOfEveryEvent(events, objects) ==
  Total([i \in DOMAIN events |->
           IF objects[events[i]] = Absent THEN Nothing
           ELSE CalculatePodResources(objects[events[i]].containers,
                                      MissingReplicas(objects[events[i]]))])

\* events: the objects of the batch, in order.  Each is handled once; one that
\* is gone or that the API server does not deliver, of a DaemonSet or of a kind not supported, adds nothing.
GetResourcesFromPodEvents(events, objects) ==
  LET handled == {events[i] : i \in DOMAIN events}
      Need(o) ==
        CASE objects[o] = Absent -> Nothing
          [] objects[o] # Absent /\ objects[o].kind = "DaemonSet" -> Nothing
          [] OTHER -> CalculatePodResources(objects[o].containers,
                                            MissingReplicas(objects[o]))
  IN  Total([o \in handled |-> Need(o)])
=============================================================================
