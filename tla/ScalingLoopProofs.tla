-------------------------- MODULE ScalingLoopProofs --------------------------
(***************************************************************************)
(* The safety of the control loop, for every set of scalers and workloads, *)
(* every bound, and whatever int64(+Inf) is.                               *)
(***************************************************************************)
EXTENDS ScalingLoop, ScalingProofs

-----------------------------------------------------------------------------
(* What is used, and what the refused pods need. *)

\* The quantities of a container.
LEMMA FieldNat ==
  ASSUME NEW w \in Workloads, NEW c \in DOMAIN Containers[w]
  PROVE  /\ \A l \in {"requests", "limits"}, f \in {"cpu", "memory"} :
              Field(Containers[w][c], l, f) \in Nat
         /\ ContainerNeed(Containers[w][c]) \in Quantities
<1> DEFINE k == Containers[w][c]
<1>1. k \in [requests : Quantities \cup {Absent}, limits : Quantities \cup {Absent}]
  BY WorkloadsAssumption
<1> HIDE DEF k
<1>2. /\ k["requests"] = k.requests /\ k["limits"] = k.limits
      /\ k.requests \in Quantities \cup {Absent} /\ k.limits \in Quantities \cup {Absent}
  BY <1>1
<1>3. ASSUME NEW l \in {"requests", "limits"}, NEW f \in {"cpu", "memory"}
      PROVE  Field(k, l, f) \in Nat
  BY <1>2, PairFields DEF Field
<1>4. \A x, y \in Nat : GetNormalizedUsedCpu(x, y) \in Nat
  BY DEF GetNormalizedUsedCpu, Larger, REQ_LIM_RATIO
<1>5. ContainerNeed(k) \in Quantities
  <2>1. CASE k.requests = Absent
    BY <2>1, PairFields DEF ContainerNeed
  <2>2. CASE k.requests # Absent /\ k.limits = Absent
    BY <1>2, <2>2 DEF ContainerNeed
  <2>3. CASE k.requests # Absent /\ k.limits # Absent
    <3>1. /\ k.requests.cpu \in Nat /\ k.limits.cpu \in Nat /\ k.limits.memory \in Nat
      BY <1>2, <2>3 DEF Quantities
    <3>2. GetNormalizedUsedCpu(k.requests.cpu, k.limits.cpu) \in Nat
      BY <1>4, <3>1
    <3>3. ContainerNeed(k) = [cpu |-> GetNormalizedUsedCpu(k.requests.cpu, k.limits.cpu),
                              memory |-> k.limits.memory]
      BY <2>3 DEF ContainerNeed
    <3> QED
      BY <3>1, <3>2, <3>3 DEF Quantities
  <2> QED
    BY <2>1, <2>2, <2>3
<1> QED
  BY <1>3, <1>5 DEF k

\* The sum of the needs of finitely many.
LEMMA TotalType ==
  ASSUME NEW S, IsFiniteSet(S), NEW need \in [S -> Quantities]
  PROVE  Total(need) \in Quantities
<1>1. ASSUME NEW f \in {"cpu", "memory"}
      PROVE  SumFunction([x \in DOMAIN need |-> need[x][f]]) \in Nat
  <2>1. \A x \in S : need[x][f] \in Nat
    BY PairFields
  <2>2. [x \in DOMAIN need |-> need[x][f]] \in [S -> Nat]
    BY <2>1
  <2> QED
    BY <2>2, SumNat
<1>2. Total(need) \in [{"cpu", "memory"} -> Nat]
  BY <1>1 DEF Total
<1> QED
  BY <1>2, PairFields

\* What the status of a quota counts.
UseFields == {"cpu", "cpuLimit", "memory"}

\* A pod counts for natural numbers,
LEMMA PodUseType ==
  ASSUME NEW w \in Workloads
  PROVE  \A f \in UseFields : PodUse(w)[f] \in Nat
<1> DEFINE Sum(l, f) == SumFunction([c \in DOMAIN Containers[w] |-> Field(Containers[w][c], l, f)])
<1>1. ASSUME NEW l \in {"requests", "limits"}, NEW f \in {"cpu", "memory"}
      PROVE  Sum(l, f) \in Nat
  <2>1. [c \in DOMAIN Containers[w] |-> Field(Containers[w][c], l, f)]
          \in [DOMAIN Containers[w] -> Nat]
    BY FieldNat
  <2> QED
    BY <2>1, SumNat, WorkloadsAssumption
<1>2. PodUse(w) = [cpu |-> Sum("requests", "cpu"), cpuLimit |-> Sum("limits", "cpu"),
                   memory |-> Sum(IF MemoryKey = "memory" THEN "requests" ELSE "limits", "memory")]
  BY DEF PodUse
<1> HIDE DEF Sum
<1>3. /\ Sum("requests", "cpu") \in Nat /\ Sum("limits", "cpu") \in Nat
      /\ Sum(IF MemoryKey = "memory" THEN "requests" ELSE "limits", "memory") \in Nat
  BY <1>1
<1> QED
  BY <1>2, <1>3 DEF UseFields

\* and so do all the pods of all workloads.
LEMMA UseType ==
  ASSUME NEW count \in [Workloads -> Nat]
  PROVE  UseOf(count) \in [UseFields -> Nat]
<1>1. ASSUME NEW f \in UseFields
      PROVE  SumFunction([w \in Workloads |-> count[w] * PodUse(w)[f]]) \in Nat
  <2>1. \A w \in Workloads : count[w] * PodUse(w)[f] \in Nat
    <3> SUFFICES ASSUME NEW w \in Workloads
                 PROVE  count[w] * PodUse(w)[f] \in Nat
      OBVIOUS
    <3>1. count[w] \in Nat /\ PodUse(w)[f] \in Nat
      BY PodUseType
    <3> QED
      BY <3>1
  <2> QED
    BY <2>1, SumNat, WorkloadsAssumption
<1> QED
  BY <1>1 DEF UseOf, UseFields

\* What refused pods of a workload need are quantities, also when none is missing,
LEMMA PodNeedType ==
  ASSUME NEW w \in Workloads, NEW missing \in Int
  PROVE  CalculatePodResources(Containers[w], missing) \in Quantities
<1> DEFINE pod == Total([c \in DOMAIN Containers[w] |-> ContainerNeed(Containers[w][c])])
<1>1. pod \in Quantities
  <2>1. [c \in DOMAIN Containers[w] |-> ContainerNeed(Containers[w][c])]
          \in [DOMAIN Containers[w] -> Quantities]
    BY FieldNat
  <2> QED
    BY <2>1, TotalType, WorkloadsAssumption
<1>2. CalculatePodResources(Containers[w], missing) =
        IF missing <= 0 THEN Nothing
        ELSE [cpu |-> pod.cpu * missing, memory |-> ScaledMega(pod.memory) * missing]
  BY DEF CalculatePodResources
<1> HIDE DEF pod
<1>3. pod.cpu \in Nat /\ pod.memory \in Nat
  BY <1>1 DEF Quantities
<1>4. missing > 0 => pod.cpu * missing \in Nat /\ ScaledMega(pod.memory) * missing \in Nat
  <2>1. ScaledMega(pod.memory) \in Nat
    BY <1>3 DEF ScaledMega
  <2>2. \A x, y \in Nat : x * y \in Nat
    OBVIOUS
  <2> QED
    BY <1>3, <2>1, <2>2
<1> QED
  BY <1>2, <1>4, PairFields DEF Quantities

\* The needs that GetResourcesFromPodEvents adds up.
NeedOf(w, unreached) ==
  CASE Objects(unreached)[w] = Absent -> Nothing
    [] Objects(unreached)[w] # Absent /\ Objects(unreached)[w].kind = "DaemonSet" -> Nothing
    [] OTHER -> CalculatePodResources(Objects(unreached)[w].containers,
                                      MissingReplicas(Objects(unreached)[w]))

\* and what an Event of it asks for,
LEMMA NeedType ==
  ASSUME NEW w \in Workloads, NEW u, wanted \in [Workloads -> Nat], running \in [Workloads -> Nat]
  PROVE  NeedOf(w, u) \in Quantities
<1> DEFINE o == Objects(u)[w]
<1>1. CASE o = Absent
  BY <1>1, PairFields DEF NeedOf
<1>2. CASE o # Absent /\ o.kind = "DaemonSet"
  BY <1>2, PairFields DEF NeedOf
<1>3. CASE o # Absent /\ o.kind # "DaemonSet"
  <2>1. o = [kind |-> Kind[w], wanted |-> wanted[w], running |-> running[w],
             containers |-> Containers[w]]
    BY <1>3 DEF Objects
  <2>2. MissingReplicas(o) \in Int
    BY <1>3, <2>1, WorkloadsAssumption DEF MissingReplicas
  <2>3. NeedOf(w, u) = CalculatePodResources(Containers[w], MissingReplicas(o))
    BY <1>3, <2>1 DEF NeedOf
  <2> QED
    BY <2>2, <2>3, PodNeedType
<1> QED
  BY <1>1, <1>2, <1>3

\* and the Events of a batch, each workload counted once.
LEMMA EventsNeed ==
  ASSUME NEW events \in Seq(Workloads), NEW u,
         wanted \in [Workloads -> Nat], running \in [Workloads -> Nat]
  PROVE  /\ GetResourcesFromPodEvents(events, Objects(u))
              = Total([w \in {events[i] : i \in DOMAIN events} |-> NeedOf(w, u)])
         /\ GetResourcesFromPodEvents(events, Objects(u)) \in Quantities
<1> DEFINE handled == {events[i] : i \in DOMAIN events}
<1>1. handled \in SUBSET Workloads /\ IsFiniteSet(handled)
  <2>1. handled \in SUBSET Workloads
    OBVIOUS
  <2> QED
    BY <2>1, FS_Subset, WorkloadsAssumption
<1>2. GetResourcesFromPodEvents(events, Objects(u)) = Total([w \in handled |-> NeedOf(w, u)])
  BY DEF GetResourcesFromPodEvents, NeedOf
<1> HIDE DEF handled
<1>3. [w \in handled |-> NeedOf(w, u)] \in [handled -> Quantities]
  BY <1>1, NeedType
<1>4. Total([w \in handled |-> NeedOf(w, u)]) \in Quantities
  BY <1>1, <1>3, TotalType
<1> QED
  BY <1>2, <1>4 DEF handled
-----------------------------------------------------------------------------
(* Evaluations. *)

\* The size an evaluation finds right.
Size(s, events, u) ==
  DesiredSize(hard, UseOf(running), s, GetResourcesFromPodEvents(events, Objects(u)))

\* What the type invariant says of the quantities an evaluation works with.
LEMMA States ==
  ASSUME TypeOK
  PROVE  /\ hard \in Quantities /\ limits \in Quantities
         /\ wanted \in [Workloads -> Nat] /\ running \in [Workloads -> Nat]
         /\ UseOf(running) \in [UseFields -> Nat]
         /\ \A s \in Specs : IsSpec(s)
<1>1. wanted \in [Workloads -> Nat] /\ running \in [Workloads -> Nat]
  BY BoundsAssumption DEF TypeOK
<1> QED
  BY <1>1, UseType, PairFields, SpecsAssumption DEF TypeOK, IsSpec

\* An evaluation that resizes asks for the size that ScalingProofs is about.
LEMMA Evaluations ==
  ASSUME TypeOK, NEW s \in Specs, NEW events \in Seq(Workloads), NEW u
  PROVE  LET e == Evaluation(s, events, u)
             d == Size(s, events, u)
         IN  /\ e = IF counted /\ DiffersFrom(d, hard) THEN d ELSE NoResize
             /\ d \in Quantities
<1> DEFINE sum == GetResourcesFromPodEvents(events, Objects(u))
           d == Size(s, events, u)
<1>1. /\ IsSpec(s) /\ hard \in Quantities /\ sum \in Quantities
      /\ UseOf(running) \in [{"cpu", "cpuLimit", "memory"} -> Nat]
  BY States, EventsNeed DEF UseFields
<1>2. d = DesiredSize(hard, UseOf(running), s, sum)
  BY DEF Size
<1>3. Evaluation(s, events, u) = IF counted /\ DiffersFrom(d, hard) THEN d ELSE NoResize
  BY <1>2, Update DEF Evaluation, Quota
<1> HIDE DEF sum, d
<1>4. d \in Quantities
  BY <1>1, <1>2, Evaluated DEF GoodSize
<1> QED
  BY <1>3, <1>4 DEF d

\* What applying an evaluation leaves the quota with.
LEMMA Applies ==
  ASSUME TypeOK, NEW s \in Specs, NEW events \in Seq(Workloads), NEW u,
         Apply(Evaluation(s, events, u))
  PROVE  /\ hard' \in [{"cpu", "memory"} -> Nat]
         /\ limits' \in [{"cpu", "memory"} -> Nat]
         /\ recent' \in BOOLEAN
         /\ hard' \in {hard, Size(s, events, u)}
<1> DEFINE e == Evaluation(s, events, u)
           d == Size(s, events, u)
<1>1. d \in Quantities /\ e \in {d, NoResize}
  BY Evaluations
<1> HIDE DEF e, d
<1>2. CASE UNCHANGED <<hard, limits, recent>>
  BY <1>2 DEF TypeOK
<1>3. CASE e # NoResize /\ hard' = e /\ limits' = PatchedLimits(e) /\ recent' = TRUE
  <2>1. hard' = d /\ d \in [{"cpu", "memory"} -> Nat] /\ d.cpu \in Nat /\ d.memory \in Nat
    BY <1>1, <1>3, PairFields
  <2>2. 10 * d.cpu \in Nat /\ MemoryLimit(d.memory) \in Nat
    BY <2>1, LimitUnitAssumption DEF MemoryLimit
  <2>3. limits' = [cpu |-> 10 * d.cpu, memory |-> MemoryLimit(d.memory)]
    BY <1>1, <1>3 DEF PatchedLimits, REQ_LIM_RATIO
  <2>4. limits' \in Quantities
    BY <2>2, <2>3 DEF Quantities
  <2> QED
    BY <1>3, <2>1, <2>4, PairFields DEF d
<1> QED
  BY <1>2, <1>3 DEF Apply, e, d

-----------------------------------------------------------------------------
(* Types. *)

\* A namespace starts with the quota given and no pods.
LEMMA InitTypes == Init => TypeOK
<1> SUFFICES ASSUME Init
             PROVE  TypeOK
  OBVIOUS
<1> USE BoundsAssumption DEF Init
<1>1. hard \in Quantities /\ hard \in [{"cpu", "memory"} -> Nat] /\ hard.cpu \in Nat /\ hard.memory \in Nat
  BY StartHardAssumption, PairFields
<1>2. limits \in [{"cpu", "memory"} -> Nat]
  <2>1. limits \in Quantities
    BY <1>1 DEF Quantities, REQ_LIM_RATIO
  <2> QED
    BY <2>1, PairFields
<1>3. batch \in Seq(Workloads) /\ Len(batch) <= MaxEvents
  OBVIOUS
<1>4. /\ wanted \in [Workloads -> 0..MaxPods] /\ running \in [Workloads -> 0..MaxPods]
      /\ \A w \in Workloads : running[w] <= wanted[w]
  OBVIOUS
<1>5. spec \in Specs /\ counted \in BOOLEAN /\ recent \in BOOLEAN
  BY Zenon
<1>6. changes \in 0..MaxChanges /\ failures \in 0..MaxFailures
  OBVIOUS
<1> QED
  BY ONLY <1>1, <1>2, <1>3, <1>4, <1>5, <1>6 DEF TypeOK

\* Every step keeps the types: pods stay within their bounds, and the size an
\* evaluation asks for is a pair of natural numbers.
LEMMA NextTypes == TypeOK /\ [Next]_vars => TypeOK'
<1> SUFFICES ASSUME TypeOK, [Next]_vars
             PROVE  TypeOK'
  OBVIOUS
<1> USE BoundsAssumption DEF TypeOK
<1>1. CASE CountUse
  BY <1>1 DEF CountUse
<1>2. CASE MinutePasses
  BY <1>2 DEF MinutePasses
<1>3. ASSUME NEW w \in Workloads, NEW n \in 0..MaxPods, ScaleWorkload(w, n)
      PROVE  TypeOK'
  BY <1>3 DEF ScaleWorkload, Smaller
<1>4. ASSUME NEW w \in Workloads, PodStarts(w)
      PROVE  TypeOK'
  BY <1>4 DEF PodStarts, Admissible, OneMore
<1>5. ASSUME NEW w \in Workloads, PodRefused(w)
      PROVE  TypeOK'
  BY <1>5 DEF PodRefused
<1>6. CASE Tick
  <2>1. PICK u : Apply(Evaluation(spec, batch, u)) /\ failures' \in {failures, failures + 1}
                 /\ (failures' = failures \/ failures < MaxFailures)
    BY <1>6 DEF Tick
  <2>2. failures' \in 0..MaxFailures
    BY <2>1
  <2>3. <<>> \in Seq(Workloads) /\ Len(<<>>) <= MaxEvents
    OBVIOUS
  <2> QED
    BY <1>6, <2>1, <2>2, <2>3, Applies DEF Tick
<1>7. ASSUME NEW s \in Specs, EditScaler(s)
      PROVE  TypeOK'
  <2>1. <<>> \in Seq(Workloads)
    OBVIOUS
  <2>2. Apply(Evaluation(s, <<>>, {}))
    BY <1>7 DEF EditScaler
  <2>3. /\ hard' \in [{"cpu", "memory"} -> Nat] /\ limits' \in [{"cpu", "memory"} -> Nat]
        /\ recent' \in BOOLEAN
    BY <2>1, <2>2, Applies
  <2>4. changes' \in 0..MaxChanges
    BY <1>7 DEF EditScaler
  <2> QED
    BY <1>7, <2>3, <2>4 DEF EditScaler
<1>8. CASE UNCHANGED vars
  BY <1>8 DEF vars
<1> QED
  BY <1>1, <1>2, <1>3, <1>4, <1>5, <1>6, <1>7, <1>8 DEF Next

\* Whatever the scalers and the workloads, a resize is to a pair of naturals, so
\* no division by zero and no infinity reaches the quota.
THEOREM LoopTypes == Spec => []TypeOK
  BY InitTypes, NextTypes, PTL DEF Spec

-----------------------------------------------------------------------------
(* Resizes. *)

\* What changes the quota is an evaluation of the scaler as it is after the step.
LEMMA HardChanges ==
  ASSUME TypeOK, [Next]_vars, hard' # hard
  PROVE  /\ spec' \in Specs /\ running' = running
         /\ \E events \in Seq(Workloads) : \E u : hard' = Size(spec', events, u)
<1>1. CASE Tick
  <2>1. PICK u : Apply(Evaluation(spec, batch, u))
    BY <1>1 DEF Tick
  <2>2. spec \in Specs /\ batch \in Seq(Workloads)
    BY DEF TypeOK
  <2>3. hard' = Size(spec, batch, u)
    BY <2>1, <2>2, Applies
  <2> QED
    BY <1>1, <2>2, <2>3 DEF Tick
<1>2. ASSUME NEW s \in Specs, EditScaler(s)
      PROVE  /\ spec' \in Specs /\ running' = running
             /\ \E events \in Seq(Workloads) : \E u : hard' = Size(spec', events, u)
  <2>1. <<>> \in Seq(Workloads) /\ Apply(Evaluation(s, <<>>, {}))
    BY <1>2 DEF EditScaler
  <2>2. hard' = Size(s, <<>>, {})
    BY <2>1, Applies
  <2> QED
    BY <1>2, <2>1, <2>2 DEF EditScaler
<1> QED
  BY <1>1, <1>2
  DEF Next, vars, CountUse, MinutePasses, ScaleWorkload, PodStarts, PodRefused

\* So every resize is a good size, and keeps what is used if the policies say so.
LEMMA Resizes ==
  ASSUME TypeOK, [Next]_vars, hard' # hard
  PROVE  /\ hard \in Quantities /\ Used \in Quantities
         /\ GoodSize(hard', hard, Bounds')
         /\ Full' => KeepsUse(hard', hard, Used, Bounds')
<1>0. PICK events \in Seq(Workloads) : \E u : hard' = Size(spec', events, u)
  BY HardChanges
<1>1. PICK u : hard' = Size(spec', events, u)
  BY <1>0
<1> DEFINE sum == GetResourcesFromPodEvents(events, Objects(u))
<1>2. /\ hard \in Quantities /\ UseOf(running) \in [{"cpu", "cpuLimit", "memory"} -> Nat]
      /\ spec' \in Specs /\ IsSpec(spec') /\ sum \in Quantities
  BY HardChanges, States, EventsNeed DEF UseFields
<1>3. hard' = DesiredSize(hard, UseOf(running), spec', sum)
  BY <1>1 DEF Size
<1> HIDE DEF sum
<1>4. Used = NormalizedUsed(UseOf(running))
  BY DEF Used
<1>5. Bounds' = ForceLimitToDefaultMax(ValidateQuotaScaler(spec'))
  BY DEF Bounds
<1>6. Used \in Quantities
  BY <1>2, <1>4, Normalized
<1>7. Full' => AllFull(spec')
  BY DEF Full, AllFull
<1> QED
  BY <1>2, <1>3, <1>4, <1>5, <1>6, <1>7, Evaluated

\* The fields of quantities and of the bounds of the scaler.
LEMMA FieldsOf ==
  /\ \A q \in Quantities : /\ \A f \in Fields : q[f] \in Nat
                          /\ q["cpu"] = q.cpu /\ q["memory"] = q.memory
  /\ Highest["cpu"] = Bounds.maxCpu /\ Highest["memory"] = Bounds.maxMemory
  /\ Lowest["cpu"] = Bounds.minCpu /\ Lowest["memory"] = Bounds.minMemory
<1>1. \A q \in Quantities : /\ \A f \in Fields : q[f] \in Nat
                          /\ q["cpu"] = q.cpu /\ q["memory"] = q.memory
  BY PairFields DEF Fields
<1> QED
  BY <1>1 DEF Highest, Lowest

\* No resize raises one resource and lowers the other.
THEOREM NoMixedResizes == Spec => NoMixedResize
<1> DEFINE A == \A f, g \in Fields : hard'[f] > hard[f] => hard'[g] >= hard[g]
<1>1. TypeOK /\ [Next]_vars => [A]_vars
  <2> SUFFICES ASSUME TypeOK, [Next]_vars
               PROVE  A
    OBVIOUS
  <2>1. hard \in Quantities
    BY States
  <2>2. CASE hard' = hard
    BY <2>1, <2>2, FieldsOf
  <2>3. CASE hard' # hard
    BY <2>3, Resizes, FieldsOf DEF Fields, GoodSize, KeepsUse
  <2> QED
    BY <2>2, <2>3
<1> QED
  BY <1>1, LoopTypes, PTL DEF NoMixedResize, Spec

\* A resize keeps each resource, or sets it to its maximum or between its bounds.
THEOREM ResizesWithinBounds == Spec => ResizeWithinBounds
<1> DEFINE A == \A f \in Fields :
                  \/ hard'[f] = hard[f]
                  \/ hard'[f] = Highest'[f]
                  \/ hard'[f] \in Lowest'[f]..Highest'[f]
<1>1. TypeOK /\ [Next]_vars => [A]_vars
  <2> SUFFICES ASSUME TypeOK, [Next]_vars
               PROVE  A
    OBVIOUS
  <2>1. CASE hard' = hard
    BY <2>1
  <2>2. CASE hard' # hard
    <3>1. /\ Highest'["cpu"] = Bounds'.maxCpu /\ Highest'["memory"] = Bounds'.maxMemory
          /\ Lowest'["cpu"] = Bounds'.minCpu /\ Lowest'["memory"] = Bounds'.minMemory
      BY DEF Highest, Lowest
    <3> QED
      BY <2>2, <3>1, Resizes, FieldsOf DEF Fields, GoodSize, KeepsUse
  <2> QED
    BY <2>1, <2>2
<1> QED
  BY <1>1, LoopTypes, PTL DEF ResizeWithinBounds, Spec

\* Policies of 100 do not take away what is used, unless the maximum does.
THEOREM UsedIsKept == Spec => UsedKeptWhenFull
<1> DEFINE A == \A f \in Fields :
                  Full' /\ hard'[f] < hard[f] => hard'[f] >= Used[f] \/ hard'[f] = Highest'[f]
<1>1. TypeOK /\ [Next]_vars => [A]_vars
  <2> SUFFICES ASSUME TypeOK, [Next]_vars
               PROVE  A
    OBVIOUS
  <2>1. CASE hard' = hard
    <3>1. hard \in Quantities
      BY States
    <3> QED
      BY <2>1, <3>1, FieldsOf
  <2>2. CASE hard' # hard
    <3>1. Highest'["cpu"] = Bounds'.maxCpu /\ Highest'["memory"] = Bounds'.maxMemory
      BY DEF Highest
    <3> QED
      BY <2>2, <3>1, Resizes, FieldsOf DEF Fields, GoodSize, KeepsUse
  <2> QED
    BY <2>1, <2>2
<1> QED
  BY <1>1, LoopTypes, PTL DEF UsedKeptWhenFull, Spec

-----------------------------------------------------------------------------
(* Events. *)

\* The pods that run and those that are paid for.
Granted == [w \in Workloads |-> running[w] + Paid[w]]

\* Those that are paid for are those that the code finds missing in the objects it
\* fetches.
LEMMA PaidPods ==
  ASSUME TypeOK
  PROVE  /\ Granted \in [Workloads -> Nat] /\ Paid \in [Workloads -> Nat]
         /\ Awaited \in [Workloads -> Nat]
         /\ \A w \in Workloads :
              /\ Granted[w] = running[w] + Paid[w]
              /\ running[w] <= Awaited[w] /\ Awaited[w] <= Granted[w]
              /\ w \notin {batch[i] : i \in DOMAIN batch} => Paid[w] = 0
              /\ w \in {batch[i] : i \in DOMAIN batch} =>
                   NeedOf(w, {}) = CalculatePodResources(Containers[w], Paid[w])
<1>1. /\ running \in [Workloads -> Nat] /\ wanted \in [Workloads -> Nat]
      /\ \A w \in Workloads : running[w] <= wanted[w]
  BY States DEF TypeOK
<1> DEFINE handled == {batch[i] : i \in DOMAIN batch}
<1>2. ASSUME NEW w \in Workloads
      PROVE  /\ Paid[w] \in Nat /\ Awaited[w] \in Nat
             /\ running[w] <= Awaited[w] /\ Awaited[w] <= running[w] + Paid[w]
             /\ w \notin handled => Paid[w] = 0
             /\ w \in handled =>
                  NeedOf(w, {}) = CalculatePodResources(Containers[w], Paid[w])
  <2>1. /\ running[w] \in Nat /\ wanted[w] \in Nat /\ running[w] <= wanted[w]
        /\ Kind[w] \in {"ReplicaSet", "StatefulSet", "ReplicationController",
                        "Job", "Challenge", "DaemonSet"}
    BY <1>1, WorkloadsAssumption
  <2>2. Paid[w] = IF w \in Overtaken THEN 1 ELSE Awaited[w] - running[w]
    BY DEF Paid
  <2>3. w \in Served <=> w \in handled /\ wanted[w] # 0 /\ Kind[w] # "DaemonSet"
    BY DEF Served
  <2>4. w \in Overtaken <=> w \in Served /\ OneAtATime(w) /\ running[w] = wanted[w]
    BY DEF Overtaken
  <2> HIDE DEF handled
  <2>5. CalculatePodResources(Containers[w], 0) = Nothing
    BY DEF CalculatePodResources
  <2> DEFINE o == Objects({})[w]
  <2>6. o = IF wanted[w] = 0 THEN Absent
            ELSE [kind |-> Kind[w], wanted |-> wanted[w], running |-> running[w],
                  containers |-> Containers[w]]
    BY DEF Objects
  <2>7. NeedOf(w, {}) = CASE o = Absent -> Nothing
                          [] o # Absent /\ o.kind = "DaemonSet" -> Nothing
                          [] OTHER -> CalculatePodResources(o.containers, MissingReplicas(o))
    BY DEF NeedOf
  <2> HIDE DEF o
  <2>8. CASE w \notin Served
    <3>1. Awaited[w] = running[w]
      BY <2>8 DEF Awaited
    <3>2. Paid[w] = 0
      BY <2>1, <2>2, <2>4, <2>8, <3>1
    <3>3. w \in handled => NeedOf(w, {}) = Nothing
      BY <2>3, <2>6, <2>7, <2>8
    <3> QED
      BY <2>1, <2>5, <3>1, <3>2, <3>3
  <2>9. CASE w \in Served
    <3>1. wanted[w] # 0 /\ Kind[w] # "DaemonSet" /\ w \in handled
      BY <2>3, <2>9
    <3>2. Awaited[w] = IF OneAtATime(w) THEN Smaller(running[w] + 1, wanted[w]) ELSE wanted[w]
      BY <2>9 DEF Awaited
    <3>3. /\ o.kind = Kind[w] /\ o.wanted = wanted[w] /\ o.running = running[w]
          /\ o.containers = Containers[w]
      BY <2>6, <3>1
    <3>4. MissingReplicas(o) = IF OneAtATime(w) THEN 1 ELSE wanted[w] - running[w]
      BY <2>1, <3>1, <3>3 DEF MissingReplicas, OneAtATime
    <3>5. /\ Paid[w] = MissingReplicas(o) /\ Paid[w] \in Nat /\ Awaited[w] \in Nat
          /\ running[w] <= Awaited[w] /\ Awaited[w] <= running[w] + Paid[w]
      <4>1. CASE OneAtATime(w) /\ running[w] = wanted[w]
        <5>1. Awaited[w] = wanted[w] /\ Paid[w] = 1 /\ MissingReplicas(o) = 1
          BY <2>1, <2>2, <2>4, <2>9, <3>2, <3>4, <4>1 DEF Smaller
        <5> QED
          BY <2>1, <4>1, <5>1
      <4>2. CASE OneAtATime(w) /\ running[w] # wanted[w]
        <5>1. Awaited[w] = running[w] + 1 /\ MissingReplicas(o) = 1
          BY <2>1, <3>2, <3>4, <4>2 DEF Smaller
        <5>2. Paid[w] = 1
          BY <2>1, <2>2, <2>4, <4>2, <5>1
        <5> QED
          BY <2>1, <5>1, <5>2
      <4>3. CASE ~ OneAtATime(w)
        <5>1. /\ Awaited[w] = wanted[w] /\ Paid[w] = wanted[w] - running[w]
              /\ MissingReplicas(o) = wanted[w] - running[w]
          BY <2>2, <2>4, <3>2, <3>4, <4>3
        <5> QED
          BY <2>1, <5>1
      <4> QED
        BY <4>1, <4>2, <4>3
    <3>6. o # Absent
      <4>1. wanted[w] \in 0..MaxPods /\ running[w] \in 0..MaxPods
        BY DEF TypeOK
      <4> QED
        BY <2>6, <3>1, <4>1, AbsentAssumption
    <3> QED
      BY <2>7, <3>1, <3>3, <3>5, <3>6
  <2> QED
    BY <2>8, <2>9
<1>3. /\ Awaited = [w \in Workloads |-> Awaited[w]] /\ Paid = [w \in Workloads |-> Paid[w]]
      /\ \A w \in Workloads : Granted[w] = running[w] + Paid[w]
  BY DEF Awaited, Paid, Granted
<1> HIDE DEF handled
<1>4. Awaited \in [Workloads -> Nat] /\ Paid \in [Workloads -> Nat]
  BY <1>2, <1>3
<1>5. Granted \in [Workloads -> Nat]
  <2>1. \A w \in Workloads : running[w] + Paid[w] \in Nat
    BY <1>1, <1>4
  <2> QED
    BY <2>1 DEF Granted
<1> QED
  BY <1>2, <1>3, <1>4, <1>5 DEF handled

\* More pods use more, by what those pods count for.
LEMMA UseOfMore ==
  ASSUME NEW count \in [Workloads -> Nat], NEW more \in [Workloads -> Nat],
         NEW all \in [Workloads -> Nat], \A w \in Workloads : all[w] = count[w] + more[w],
         NEW f \in UseFields
  PROVE  /\ UseOf(all)[f]
              = UseOf(count)[f] + SumFunction([w \in Workloads |-> more[w] * PodUse(w)[f]])
         /\ SumFunction([w \in Workloads |-> more[w] * PodUse(w)[f]]) \in Nat
<1> DEFINE a == [w \in Workloads |-> count[w] * PodUse(w)[f]]
           b == [w \in Workloads |-> more[w] * PodUse(w)[f]]
           c == [w \in Workloads |-> all[w] * PodUse(w)[f]]
<1>1. ASSUME NEW w \in Workloads
      PROVE  /\ count[w] * PodUse(w)[f] \in Nat /\ more[w] * PodUse(w)[f] \in Nat
             /\ all[w] * PodUse(w)[f] = count[w] * PodUse(w)[f] + more[w] * PodUse(w)[f]
  <2>1. /\ count[w] \in Nat /\ more[w] \in Nat /\ PodUse(w)[f] \in Nat
        /\ all[w] = count[w] + more[w]
    BY PodUseType
  <2>2. \A x, y, z \in Nat : /\ x * z \in Nat /\ y * z \in Nat
                             /\ (x + y) * z = x * z + y * z
    OBVIOUS
  <2> QED
    BY <2>1, <2>2
<1>2. a \in [Workloads -> Nat] /\ b \in [Workloads -> Nat]
  BY <1>1
<1>3. c = [w \in Workloads |-> a[w] + b[w]]
  BY <1>1
<1>4. UseOf(all)[f] = SumFunction(c) /\ UseOf(count)[f] = SumFunction(a)
  BY DEF UseOf, UseFields
<1> HIDE DEF a, b, c
<1>5. SumFunction(c) = SumFunction(a) + SumFunction(b) /\ SumFunction(b) \in Nat
  BY <1>2, <1>3, SumAdd, SumNat, WorkloadsAssumption
<1> QED
  BY <1>4, <1>5 DEF b

\* And no pods less use no less.
LEMMA UseMonotone ==
  ASSUME NEW count \in [Workloads -> Nat], NEW all \in [Workloads -> Nat],
         \A w \in Workloads : count[w] <= all[w], NEW f \in UseFields
  PROVE  UseOf(count)[f] <= UseOf(all)[f]
<1> DEFINE a == [w \in Workloads |-> count[w] * PodUse(w)[f]]
           c == [w \in Workloads |-> all[w] * PodUse(w)[f]]
<1>1. ASSUME NEW w \in Workloads
      PROVE  /\ count[w] * PodUse(w)[f] \in Nat /\ all[w] * PodUse(w)[f] \in Nat
             /\ count[w] * PodUse(w)[f] <= all[w] * PodUse(w)[f]
  <2>1. /\ count[w] \in Nat /\ all[w] \in Nat /\ PodUse(w)[f] \in Nat
        /\ count[w] <= all[w]
    BY PodUseType
  <2> QED
    BY ONLY <2>1, TimesMonotone
<1>2. /\ a \in [Workloads -> Nat] /\ c \in [Workloads -> Nat]
      /\ \A w \in Workloads : a[w] <= c[w]
  BY <1>1
<1>3. UseOf(all)[f] = SumFunction(c) /\ UseOf(count)[f] = SumFunction(a)
  BY DEF UseOf, UseFields
<1>4. IsFiniteSet(Workloads)
  BY WorkloadsAssumption
<1> HIDE DEF a, c
<1>5. SumFunction(a) <= SumFunction(c)
  BY ONLY <1>2, <1>4, SumMonotone
<1> QED
  BY <1>3, <1>5

\* What a pod of w needs as the code reads its containers, before it is rounded.
PodNeed(w) == Total([c \in DOMAIN Containers[w] |-> ContainerNeed(Containers[w][c])])

\* A total is the sum by field,
LEMMA TotalFields ==
  ASSUME NEW S, NEW need \in [S -> Quantities]
  PROVE  /\ Total(need).cpu = SumFunction([x \in S |-> need[x].cpu])
         /\ Total(need).memory = SumFunction([x \in S |-> need[x].memory])
<1>1. DOMAIN need = S /\ \A x \in S : need[x]["cpu"] = need[x].cpu /\ need[x]["memory"] = need[x].memory
  BY PairFields
<1>2. /\ Total(need).cpu = SumFunction([x \in DOMAIN need |-> need[x]["cpu"]])
      /\ Total(need).memory = SumFunction([x \in DOMAIN need |-> need[x]["memory"]])
  BY DEF Total
<1>3. /\ [x \in DOMAIN need |-> need[x]["cpu"]] = [x \in S |-> need[x].cpu]
      /\ [x \in DOMAIN need |-> need[x]["memory"]] = [x \in S |-> need[x].memory]
  BY <1>1
<1> QED
  BY <1>2, <1>3

\* The needs of a pod, as sums over its containers.
LEMMA PodNeedFields ==
  ASSUME NEW w \in Workloads
  PROVE  /\ PodNeed(w) \in Quantities
         /\ PodNeed(w).cpu
              = SumFunction([c \in DOMAIN Containers[w] |-> ContainerNeed(Containers[w][c]).cpu])
         /\ PodNeed(w).memory
              = SumFunction([c \in DOMAIN Containers[w] |-> ContainerNeed(Containers[w][c]).memory])
<1> DEFINE need == [c \in DOMAIN Containers[w] |-> ContainerNeed(Containers[w][c])]
<1>1. need \in [DOMAIN Containers[w] -> Quantities] /\ IsFiniteSet(DOMAIN Containers[w])
  BY FieldNat, WorkloadsAssumption
<1>2. \A c \in DOMAIN Containers[w] : need[c] = ContainerNeed(Containers[w][c])
  OBVIOUS
<1> HIDE DEF need
<1>3. /\ Total(need) \in Quantities
      /\ Total(need).cpu = SumFunction([c \in DOMAIN Containers[w] |-> need[c].cpu])
      /\ Total(need).memory = SumFunction([c \in DOMAIN Containers[w] |-> need[c].memory])
  BY <1>1, TotalType, TotalFields
<1>4. /\ [c \in DOMAIN Containers[w] |-> need[c].cpu]
           = [c \in DOMAIN Containers[w] |-> ContainerNeed(Containers[w][c]).cpu]
      /\ [c \in DOMAIN Containers[w] |-> need[c].memory]
           = [c \in DOMAIN Containers[w] |-> ContainerNeed(Containers[w][c]).memory]
  BY <1>2
<1>5. PodNeed(w) = Total(need)
  BY DEF PodNeed, need
<1> QED
  BY <1>3, <1>4, <1>5

\* What the Events of a batch ask for: for each workload its missing pods.
LEMMA EventsSum ==
  ASSUME TypeOK
  PROVE  LET sum == GetResourcesFromPodEvents(batch, Objects({}))
         IN  /\ sum \in Quantities
             /\ sum.cpu = SumFunction([w \in Workloads |-> Paid[w] * PodNeed(w).cpu])
             /\ sum.memory
                  = SumFunction([w \in Workloads |-> Paid[w] * ScaledMega(PodNeed(w).memory)])
<1> DEFINE sum == GetResourcesFromPodEvents(batch, Objects({}))
           handled == {batch[i] : i \in DOMAIN batch}
           need == [w \in handled |-> NeedOf(w, {})]
           cpu == [w \in Workloads |-> Paid[w] * PodNeed(w).cpu]
           memory == [w \in Workloads |-> Paid[w] * ScaledMega(PodNeed(w).memory)]
<1>1. /\ batch \in Seq(Workloads)
      /\ running \in [Workloads -> Nat] /\ wanted \in [Workloads -> Nat]
  BY States DEF TypeOK
<1>2. sum = Total(need) /\ sum \in Quantities
  BY <1>1, EventsNeed
<1>3. handled \in SUBSET Workloads
  BY <1>1
<1>4. \A w \in Workloads : /\ Paid[w] \in Nat
                           /\ w \notin handled => Paid[w] = 0
                           /\ w \in handled =>
                                NeedOf(w, {}) = CalculatePodResources(Containers[w], Paid[w])
  BY PaidPods
<1> HIDE DEF handled
<1>5. need \in [handled -> Quantities] /\ \A w \in handled : need[w] = NeedOf(w, {})
  BY <1>1, <1>3, NeedType
<1> HIDE DEF sum, need
<1>6. ASSUME NEW w \in Workloads
      PROVE  /\ PodNeed(w).cpu \in Nat /\ ScaledMega(PodNeed(w).memory) \in Nat
             /\ Paid[w] * PodNeed(w).cpu \in Nat
             /\ Paid[w] * ScaledMega(PodNeed(w).memory) \in Nat
             /\ w \notin handled =>
                  /\ Paid[w] * PodNeed(w).cpu = 0
                  /\ Paid[w] * ScaledMega(PodNeed(w).memory) = 0
             /\ w \in handled =>
                  /\ need[w].cpu = Paid[w] * PodNeed(w).cpu
                  /\ need[w].memory = Paid[w] * ScaledMega(PodNeed(w).memory)
  <2> DEFINE m == Paid[w]
             x == PodNeed(w).cpu
             y == ScaledMega(PodNeed(w).memory)
  <2>1. m \in Nat /\ (w \notin handled => m = 0)
    BY <1>4
  <2>2. x \in Nat /\ y \in Nat
    <3>1. PodNeed(w).cpu \in Nat /\ PodNeed(w).memory \in Nat
      BY PodNeedFields, PairFields
    <3>2. \A n \in Nat : ScaledMega(n) \in Nat
      BY DEF ScaledMega
    <3> QED
      BY <3>1, <3>2
  <2>3. CalculatePodResources(Containers[w], m)
          = IF m <= 0 THEN Nothing ELSE [cpu |-> x * m, memory |-> y * m]
    BY DEF CalculatePodResources, PodNeed
  <2>4. w \in handled => need[w] = CalculatePodResources(Containers[w], m)
    BY <1>4, <1>5
  <2> HIDE DEF m, x, y
  <2>5. /\ m * x \in Nat /\ m * y \in Nat /\ x * m = m * x /\ y * m = m * y
        /\ m = 0 => m * x = 0 /\ m * y = 0
    BY <2>1, <2>2
  <2>6. w \in handled => need[w].cpu = m * x /\ need[w].memory = m * y
    <3>1. CASE m = 0
      BY <2>3, <2>4, <2>5, <3>1 DEF Nothing
    <3>2. CASE m # 0
      <4>1. ~ (m <= 0)
        BY <2>1, <3>2
      <4> QED
        BY <2>3, <2>4, <2>5, <4>1
    <3> QED
      BY <3>1, <3>2
  <2>7. /\ x \in Nat /\ y \in Nat /\ m * x \in Nat /\ m * y \in Nat
        /\ w \notin handled => m * x = 0 /\ m * y = 0
        /\ w \in handled => need[w].cpu = m * x /\ need[w].memory = m * y
    BY ONLY <2>1, <2>2, <2>5, <2>6
  <2> QED
    BY ONLY <2>7 DEF m, x, y
<1>7. /\ cpu \in [Workloads -> Nat] /\ memory \in [Workloads -> Nat]
      /\ \A w \in Workloads \ handled : cpu[w] = 0 /\ memory[w] = 0
  BY <1>6
<1>8. /\ [w \in handled |-> need[w].cpu] = [w \in handled |-> cpu[w]]
      /\ [w \in handled |-> need[w].memory] = [w \in handled |-> memory[w]]
  BY <1>3, <1>6
<1> HIDE DEF cpu, memory
<1>9. /\ SumFunction(cpu) = SumFunction([w \in handled |-> cpu[w]])
      /\ SumFunction(memory) = SumFunction([w \in handled |-> memory[w]])
  <2>1. /\ cpu \in [Workloads -> Nat] /\ \A w \in Workloads \ handled : cpu[w] = 0
        /\ memory \in [Workloads -> Nat] /\ \A w \in Workloads \ handled : memory[w] = 0
        /\ handled \in SUBSET Workloads /\ IsFiniteSet(Workloads)
    BY <1>3, <1>7, WorkloadsAssumption
  <2>2. SumFunction(cpu) = SumFunction([w \in handled |-> cpu[w]])
    BY ONLY <2>1, SumNarrow
  <2>3. SumFunction(memory) = SumFunction([w \in handled |-> memory[w]])
    BY ONLY <2>1, SumNarrow
  <2> QED
    BY <2>2, <2>3
<1>10. /\ sum.cpu = SumFunction([w \in handled |-> need[w].cpu])
       /\ sum.memory = SumFunction([w \in handled |-> need[w].memory])
  BY <1>2, <1>5, TotalFields
<1> QED
  BY <1>2, <1>8, <1>9, <1>10 DEF sum, cpu, memory

\* A tick that handles Events evaluates the whole batch.  The quota has the size
\* found right, or is left at no less, a scale down being refused.
LEMMA Handled ==
  ASSUME TypeOK, [Next]_vars, HandlesEvents
  PROVE  LET d == Size(spec, batch, {})
         IN  /\ d \in Quantities
             /\ \/ hard' = d
                \/ hard' = hard /\ d.cpu <= hard.cpu /\ d.memory <= hard.memory
<1> DEFINE d == Size(spec, batch, {})
           e == Evaluation(spec, batch, {})
<1>1. batch # <<>> /\ batch' = <<>> /\ counted /\ failures' = failures
  BY DEF HandlesEvents
<1>2. Tick
  <2>1. ASSUME NEW w \in Workloads, PodRefused(w)
        PROVE  FALSE
    <3>1. batch' = Append(batch, w) /\ batch \in Seq(Workloads)
      BY <2>1 DEF PodRefused, TypeOK
    <3>2. Append(batch, w) # <<>>
      BY ONLY <3>1, w \in Workloads
    <3> QED
      BY <1>1, <3>1, <3>2
  <2> QED
    BY <1>1, <2>1
    DEF Next, vars, CountUse, MinutePasses, ScaleWorkload, PodStarts, EditScaler
<1>3. Apply(e)
  <2>1. PICK u : /\ \/ u = {} /\ UNCHANGED failures
                    \/ u # {} /\ failures < MaxFailures /\ failures' = failures + 1
                 /\ Apply(Evaluation(spec, batch, u))
    BY <1>2 DEF Tick
  <2>2. failures \in Nat
    BY BoundsAssumption DEF TypeOK
  <2>3. u = {}
    BY <1>1, <2>1, <2>2
  <2> QED
    BY <2>1, <2>3
<1>4. /\ e = IF counted /\ DiffersFrom(d, hard) THEN d ELSE NoResize
      /\ d \in Quantities /\ hard \in Quantities
  <2>1. spec \in Specs /\ batch \in Seq(Workloads)
    BY DEF TypeOK
  <2> QED
    BY <2>1, Evaluations, States
<1>5. GoodSize(d, hard, Bounds)
  <2> DEFINE sum == GetResourcesFromPodEvents(batch, Objects({}))
  <2>1. /\ UseOf(running) \in [{"cpu", "cpuLimit", "memory"} -> Nat]
        /\ IsSpec(spec) /\ sum \in Quantities
    BY States, EventsNeed DEF TypeOK, UseFields
  <2>2. d = DesiredSize(hard, UseOf(running), spec, sum)
    BY DEF Size
  <2> HIDE DEF sum, d
  <2> QED
    BY <1>4, <2>1, <2>2, Evaluated DEF Bounds
<1> HIDE DEF d, e
<1>6. /\ d.cpu \in Nat /\ d.memory \in Nat /\ hard.cpu \in Nat /\ hard.memory \in Nat
      /\ d["cpu"] = d.cpu /\ d["memory"] = d.memory
      /\ hard["cpu"] = hard.cpu /\ hard["memory"] = hard.memory
  BY <1>4, PairFields
<1>7. CASE e = NoResize
  <2>1. hard' = hard
    BY <1>3, <1>7 DEF Apply
  <2>2. ~ DiffersFrom(d, hard)
    BY <1>1, <1>4, <1>7, NoResizeAssumption
  <2>3. d.cpu = hard.cpu /\ d.memory = hard.memory
    BY <1>6, <2>2 DEF DiffersFrom
  <2> QED
    BY <1>4, <1>6, <2>1, <2>3 DEF d
<1>8. CASE e # NoResize /\ Refused(e)
  <2>1. hard' = hard
    BY <1>3, <1>8 DEF Apply
  <2>2. e = d
    BY <1>4, <1>8
  <2>3. d.cpu < hard.cpu \/ d.memory < hard.memory
    BY <1>6, <1>8, <2>2 DEF Refused
  <2>4. d.cpu <= hard.cpu /\ d.memory <= hard.memory
    BY <1>5, <1>6, <2>3 DEF GoodSize
  <2> QED
    BY <1>4, <2>1, <2>4 DEF d
<1>9. CASE e # NoResize /\ ~ Refused(e)
  <2>1. hard' = e /\ e = d
    BY <1>3, <1>4, <1>9 DEF Apply
  <2> QED
    BY <1>4, <2>1 DEF d
<1> QED
  BY <1>7, <1>8, <1>9

\* A container with limits has requests, within its memory limit: what the code
\* reads of a container is then at least what the quota counts it for.
LimitsCoverRequests ==
  \A w \in Workloads : \A c \in DOMAIN Containers[w] :
    LET k == Containers[w][c]
    IN  k.limits # Absent => k.requests # Absent /\ k.requests.memory <= k.limits.memory

\* The quota counts the memory limits of containers, and those that request
\* something have limits: what the code reads is then at most what counts.
MemoryIsLimited ==
  /\ MemoryKey = "limits.memory"
  /\ \A w \in Workloads : \A c \in DOMAIN Containers[w] :
       Containers[w][c].requests # Absent => Containers[w][c].limits # Absent

\* What a container counts for, next to what the code reads of it.
LEMMA ContainerRead ==
  ASSUME NEW w \in Workloads, NEW c \in DOMAIN Containers[w]
  PROVE  LET k == Containers[w][c]
             list == IF MemoryKey = "memory" THEN "requests" ELSE "limits"
         IN  /\ ContainerNeed(k).cpu \in Nat /\ ContainerNeed(k).memory \in Nat
             /\ Field(k, "requests", "cpu") \in Nat /\ Field(k, list, "memory") \in Nat
             /\ Field(k, "requests", "cpu") <= ContainerNeed(k).cpu
             /\ LimitsCoverRequests => Field(k, list, "memory") <= ContainerNeed(k).memory
             /\ MemoryIsLimited => ContainerNeed(k).memory <= Field(k, list, "memory")
<1> DEFINE k == Containers[w][c]
           list == IF MemoryKey = "memory" THEN "requests" ELSE "limits"
<1>1. k \in [requests : Quantities \cup {Absent}, limits : Quantities \cup {Absent}]
  BY WorkloadsAssumption
<1>2. /\ Field(k, "requests", "cpu") \in Nat /\ Field(k, list, "memory") \in Nat
      /\ ContainerNeed(k).cpu \in Nat /\ ContainerNeed(k).memory \in Nat
  BY FieldNat, PairFields
<1>3. /\ LimitsCoverRequests =>
           (k.limits # Absent => k.requests # Absent /\ k.requests.memory <= k.limits.memory)
      /\ MemoryIsLimited => list = "limits" /\ (k.requests # Absent => k.limits # Absent)
  BY DEF LimitsCoverRequests, MemoryIsLimited
<1>4. list \in {"requests", "limits"}
  OBVIOUS
<1> HIDE DEF k, list
<1>5. /\ k["requests"] = k.requests /\ k["limits"] = k.limits
      /\ k.requests # Absent => k.requests \in Quantities
      /\ k.limits # Absent => k.limits \in Quantities
  BY <1>1
<1>6. /\ k.requests # Absent => k.requests.cpu \in Nat /\ k.requests.memory \in Nat
      /\ k.limits # Absent => k.limits.cpu \in Nat /\ k.limits.memory \in Nat
  BY <1>5, PairFields
<1>7. /\ Field(k, "requests", "cpu") = IF k.requests = Absent THEN 0 ELSE k.requests.cpu
      /\ Field(k, list, "memory")
           = IF list = "requests"
             THEN IF k.requests = Absent THEN 0 ELSE k.requests.memory
             ELSE IF k.limits = Absent THEN 0 ELSE k.limits.memory
  BY <1>4, <1>5, PairFields DEF Field
<1>8. CASE k.requests = Absent
  <2>1. ContainerNeed(k).cpu = 0 /\ ContainerNeed(k).memory = 0
    BY <1>8 DEF ContainerNeed, Nothing
  <2>2. LimitsCoverRequests => k.limits = Absent
    BY <1>3, <1>8
  <2> QED
    BY <1>2, <1>7, <1>8, <2>1, <2>2 DEF k, list
<1>9. CASE k.requests # Absent /\ k.limits = Absent
  <2>1. ContainerNeed(k) = k.requests
    BY <1>9 DEF ContainerNeed
  <2>2. ~ MemoryIsLimited
    BY <1>3, <1>9
  <2> QED
    BY <1>2, <1>6, <1>7, <1>9, <2>1, <2>2 DEF k, list
<1>10. CASE k.requests # Absent /\ k.limits # Absent
  <2>1. /\ ContainerNeed(k).cpu = GetNormalizedUsedCpu(k.requests.cpu, k.limits.cpu)
        /\ ContainerNeed(k).memory = k.limits.memory
    BY <1>10 DEF ContainerNeed
  <2>2. k.requests.cpu <= ContainerNeed(k).cpu
    BY <1>6, <1>10, <2>1 DEF GetNormalizedUsedCpu, Larger, REQ_LIM_RATIO
  <2>3. LimitsCoverRequests => k.requests.memory <= k.limits.memory
    BY <1>3, <1>10
  <2>4. MemoryIsLimited => list = "limits"
    BY <1>3
  <2>5. LimitsCoverRequests => Field(k, list, "memory") <= ContainerNeed(k).memory
    BY <1>4, <1>6, <1>7, <1>10, <2>1, <2>3
  <2>6. MemoryIsLimited => ContainerNeed(k).memory <= Field(k, list, "memory")
    BY <1>6, <1>7, <1>10, <2>1, <2>4
  <2> QED
    BY <1>2, <1>7, <1>10, <2>2, <2>5, <2>6 DEF k, list
<1> QED
  BY <1>8, <1>9, <1>10

\* The same of a pod.
LEMMA PodRead ==
  ASSUME NEW w \in Workloads
  PROVE  /\ PodUse(w).cpu <= PodNeed(w).cpu
         /\ LimitsCoverRequests => PodUse(w).memory <= PodNeed(w).memory
         /\ MemoryIsLimited => PodNeed(w).memory <= PodUse(w).memory
<1> DEFINE C == DOMAIN Containers[w]
           list == IF MemoryKey = "memory" THEN "requests" ELSE "limits"
           cpu == [c \in C |-> Field(Containers[w][c], "requests", "cpu")]
           memory == [c \in C |-> Field(Containers[w][c], list, "memory")]
           needCpu == [c \in C |-> ContainerNeed(Containers[w][c]).cpu]
           needMemory == [c \in C |-> ContainerNeed(Containers[w][c]).memory]
<1>1. PodUse(w).cpu = SumFunction(cpu) /\ PodUse(w).memory = SumFunction(memory)
  BY DEF PodUse
<1>2. PodNeed(w).cpu = SumFunction(needCpu) /\ PodNeed(w).memory = SumFunction(needMemory)
  BY PodNeedFields
<1>3. IsFiniteSet(C)
  BY WorkloadsAssumption
<1> HIDE DEF list
<1>4. /\ cpu \in [C -> Nat] /\ memory \in [C -> Nat]
      /\ needCpu \in [C -> Nat] /\ needMemory \in [C -> Nat]
      /\ \A c \in C : cpu[c] <= needCpu[c]
      /\ LimitsCoverRequests => \A c \in C : memory[c] <= needMemory[c]
      /\ MemoryIsLimited => \A c \in C : needMemory[c] <= memory[c]
  BY ContainerRead DEF list
<1> HIDE DEF cpu, memory, needCpu, needMemory, C
<1>5. SumFunction(cpu) <= SumFunction(needCpu)
  BY ONLY <1>3, <1>4, SumMonotone
<1>6. LimitsCoverRequests => SumFunction(memory) <= SumFunction(needMemory)
  BY ONLY <1>3, <1>4, SumMonotone
<1>7. MemoryIsLimited => SumFunction(needMemory) <= SumFunction(memory)
  BY ONLY <1>3, <1>4, SumMonotone
<1> QED
  BY <1>1, <1>2, <1>5, <1>6, <1>7

\* The code reads no more CPU of a pod than it requests, or a tenth of its limits.
LEMMA PodCpuRead ==
  ASSUME NEW w \in Workloads
  PROVE  PodCpu(w) \in Nat /\ PodNeed(w).cpu \in Nat /\ PodNeed(w).cpu <= PodCpu(w)
<1> DEFINE C == DOMAIN Containers[w]
           Most(k) == Larger(Field(k, "requests", "cpu"),
                             Field(k, "limits", "cpu") \div REQ_LIM_RATIO)
           most == [c \in C |-> Most(Containers[w][c])]
           need == [c \in C |-> ContainerNeed(Containers[w][c]).cpu]
<1>1. PodCpu(w) = SumFunction(most)
  BY DEF PodCpu
<1>2. PodNeed(w).cpu = SumFunction(need)
  BY PodNeedFields
<1>3. IsFiniteSet(C)
  BY WorkloadsAssumption
<1>4. ASSUME NEW c \in C
      PROVE  /\ Most(Containers[w][c]) \in Nat
             /\ ContainerNeed(Containers[w][c]).cpu \in Nat
             /\ ContainerNeed(Containers[w][c]).cpu <= Most(Containers[w][c])
  <2> DEFINE k == Containers[w][c]
             r == Field(k, "requests", "cpu")
             l == Field(k, "limits", "cpu")
  <2>1. k \in [requests : Quantities \cup {Absent}, limits : Quantities \cup {Absent}]
    BY WorkloadsAssumption
  <2>2. r \in Nat /\ l \in Nat /\ ContainerNeed(k).cpu \in Nat
    BY FieldNat, PairFields
  <2> HIDE DEF k
  <2>3. /\ k["requests"] = k.requests /\ k["limits"] = k.limits
        /\ k.requests # Absent => k.requests \in Quantities
        /\ k.limits # Absent => k.limits \in Quantities
    BY <2>1
  <2>4. /\ k.requests # Absent => r = k.requests.cpu
        /\ k.limits # Absent => l = k.limits.cpu
    BY <2>3, PairFields DEF Field
  <2> HIDE DEF r, l
  <2>5. l \div REQ_LIM_RATIO \in Nat
    BY <2>2 DEF REQ_LIM_RATIO
  <2>6. /\ Larger(r, l \div REQ_LIM_RATIO) \in Nat
        /\ Larger(r, l \div REQ_LIM_RATIO) >= r
    BY <2>2, <2>5 DEF Larger
  <2>7. CASE k.requests = Absent
    <3>1. ContainerNeed(k).cpu = 0
      BY <2>7 DEF ContainerNeed, Nothing
    <3> QED
      BY <2>2, <2>6, <3>1 DEF r, l, k
  <2>8. CASE k.requests # Absent /\ k.limits = Absent
    <3>1. ContainerNeed(k).cpu = r
      BY <2>4, <2>8 DEF ContainerNeed
    <3> QED
      BY <2>2, <2>6, <3>1 DEF r, l, k
  <2>9. CASE k.requests # Absent /\ k.limits # Absent
    <3>1. ContainerNeed(k).cpu = Larger(r, l \div REQ_LIM_RATIO)
      BY <2>4, <2>9 DEF ContainerNeed, GetNormalizedUsedCpu
    <3> QED
      BY <2>2, <2>6, <3>1 DEF r, l, k
  <2> QED
    BY <2>7, <2>8, <2>9
<1> HIDE DEF Most
<1>5. /\ most \in [C -> Nat] /\ need \in [C -> Nat]
      /\ \A c \in C : need[c] <= most[c]
  BY <1>4
<1> HIDE DEF most, need, C
<1>6. SumFunction(need) <= SumFunction(most) /\ SumFunction(need) \in Nat /\ SumFunction(most) \in Nat
  BY ONLY <1>3, <1>5, SumMonotone, SumNat
<1> QED
  BY <1>1, <1>2, <1>6

\* So what the Events ask for is at most the CPU of the pods that are paid for.
LEMMA CpuRead ==
  ASSUME TypeOK
  PROVE  /\ SumFunction([w \in Workloads |-> Paid[w] * PodCpu(w)]) \in Nat
         /\ GetResourcesFromPodEvents(batch, Objects({})).cpu
              <= SumFunction([w \in Workloads |-> Paid[w] * PodCpu(w)])
<1> DEFINE need == [w \in Workloads |-> Paid[w] * PodNeed(w).cpu]
           most == [w \in Workloads |-> Paid[w] * PodCpu(w)]
<1>1. GetResourcesFromPodEvents(batch, Objects({})).cpu = SumFunction(need)
  BY EventsSum
<1>2. ASSUME NEW w \in Workloads
      PROVE  /\ Paid[w] * PodNeed(w).cpu \in Nat /\ Paid[w] * PodCpu(w) \in Nat
             /\ Paid[w] * PodNeed(w).cpu <= Paid[w] * PodCpu(w)
  <2>1. Paid[w] \in Nat
    BY PaidPods
  <2>2. PodCpu(w) \in Nat /\ PodNeed(w).cpu \in Nat /\ PodNeed(w).cpu <= PodCpu(w)
    BY PodCpuRead
  <2> QED
    BY ONLY <2>1, <2>2, TimesMonotone
<1>3. /\ need \in [Workloads -> Nat] /\ most \in [Workloads -> Nat]
      /\ \A w \in Workloads : need[w] <= most[w]
  BY <1>2
<1>4. IsFiniteSet(Workloads)
  BY WorkloadsAssumption
<1> HIDE DEF need, most
<1>5. SumFunction(need) <= SumFunction(most) /\ SumFunction(most) \in Nat
  BY ONLY <1>3, <1>4, SumMonotone, SumNat
<1> QED
  BY <1>1, <1>5 DEF most

\* What the refused pods are counted for, next to what their Events ask for: CPU
\* and memory are covered, and the memory is not rounded up by more than nine
\* tenths of a megabyte a pod.
LEMMA EventsRead ==
  ASSUME TypeOK
  PROVE  LET sum == GetResourcesFromPodEvents(batch, Objects({}))
             all == UseOf(Granted)
             now == UseOf(running)
         IN  /\ sum \in Quantities
             /\ all.cpu \in Nat /\ all.memory \in Nat /\ now.cpu \in Nat /\ now.memory \in Nat
             /\ SumFunction(Paid) \in Nat
             /\ all.cpu >= now.cpu /\ all.cpu <= now.cpu + sum.cpu
             /\ all.memory >= now.memory
             /\ LimitsCoverRequests => all.memory <= now.memory + 10 * sum.memory
             /\ MemoryIsLimited =>
                  now.memory + 10 * sum.memory <= all.memory + 9 * SumFunction(Paid)
<1> DEFINE sum == GetResourcesFromPodEvents(batch, Objects({}))
           useCpu == [w \in Workloads |-> Paid[w] * PodUse(w).cpu]
           useMemory == [w \in Workloads |-> Paid[w] * PodUse(w).memory]
           needCpu == [w \in Workloads |-> Paid[w] * PodNeed(w).cpu]
           needMemory == [w \in Workloads |-> Paid[w] * ScaledMega(PodNeed(w).memory)]
           tenfold == [w \in Workloads |-> 10 * needMemory[w]]
           ninefold == [w \in Workloads |-> 9 * Paid[w]]
<1>1. /\ Granted \in [Workloads -> Nat] /\ Paid \in [Workloads -> Nat]
      /\ running \in [Workloads -> Nat]
      /\ \A w \in Workloads : Granted[w] = running[w] + Paid[w]
  BY PaidPods, States
<1>2. /\ sum \in Quantities
      /\ sum.cpu = SumFunction(needCpu) /\ sum.memory = SumFunction(needMemory)
  BY EventsSum
<1>3. /\ UseOf(Granted)["cpu"] = UseOf(running)["cpu"] + SumFunction(useCpu)
      /\ UseOf(Granted)["memory"] = UseOf(running)["memory"] + SumFunction(useMemory)
      /\ SumFunction(useCpu) \in Nat /\ SumFunction(useMemory) \in Nat
  <2>1. /\ UseOf(Granted)["cpu"] = UseOf(running)["cpu"]
                + SumFunction([w \in Workloads |-> Paid[w] * PodUse(w)["cpu"]])
        /\ SumFunction([w \in Workloads |-> Paid[w] * PodUse(w)["cpu"]]) \in Nat
    BY <1>1, UseOfMore DEF UseFields
  <2>2. /\ UseOf(Granted)["memory"] = UseOf(running)["memory"]
                + SumFunction([w \in Workloads |-> Paid[w] * PodUse(w)["memory"]])
        /\ SumFunction([w \in Workloads |-> Paid[w] * PodUse(w)["memory"]]) \in Nat
    BY <1>1, UseOfMore DEF UseFields
  <2>3. \A w \in Workloads : PodUse(w)["cpu"] = PodUse(w).cpu /\ PodUse(w)["memory"] = PodUse(w).memory
    BY DEF PodUse
  <2>4. /\ [w \in Workloads |-> Paid[w] * PodUse(w)["cpu"]] = useCpu
        /\ [w \in Workloads |-> Paid[w] * PodUse(w)["memory"]] = useMemory
    BY <2>3
  <2> HIDE DEF useCpu, useMemory
  <2> QED
    BY <2>1, <2>2, <2>4
<1>4. /\ UseOf(running)["cpu"] = UseOf(running).cpu /\ UseOf(Granted)["cpu"] = UseOf(Granted).cpu
      /\ UseOf(running)["memory"] = UseOf(running).memory
      /\ UseOf(Granted)["memory"] = UseOf(Granted).memory
      /\ UseOf(running).cpu \in Nat /\ UseOf(running).memory \in Nat
  <2>1. UseOf(running) \in [{"cpu", "cpuLimit", "memory"} -> Nat]
    BY <1>1, UseType DEF UseFields
  <2>2. UseOf(Granted) \in [{"cpu", "cpuLimit", "memory"} -> Nat]
    BY <1>1, UseType DEF UseFields
  <2> QED
    BY <2>1, <2>2
<1>5. ASSUME NEW w \in Workloads
      PROVE  /\ Paid[w] \in Nat
             /\ Paid[w] * PodUse(w).cpu \in Nat /\ Paid[w] * PodUse(w).memory \in Nat
             /\ Paid[w] * PodNeed(w).cpu \in Nat
             /\ Paid[w] * ScaledMega(PodNeed(w).memory) \in Nat
             /\ Paid[w] * PodUse(w).cpu <= Paid[w] * PodNeed(w).cpu
             /\ LimitsCoverRequests =>
                  Paid[w] * PodUse(w).memory <= 10 * (Paid[w] * ScaledMega(PodNeed(w).memory))
             /\ MemoryIsLimited =>
                  10 * (Paid[w] * ScaledMega(PodNeed(w).memory))
                    <= Paid[w] * PodUse(w).memory + 9 * Paid[w]
  <2> DEFINE m == Paid[w]
             uc == PodUse(w).cpu
             um == PodUse(w).memory
             nc == PodNeed(w).cpu
             nm == PodNeed(w).memory
             y == ScaledMega(nm)
  <2>1. m \in Nat
    BY <1>1
  <2>2. uc \in Nat /\ um \in Nat
    <3>1. PodUse(w)["cpu"] \in Nat /\ PodUse(w)["memory"] \in Nat
      BY PodUseType DEF UseFields
    <3> QED
      BY <3>1 DEF PodUse
  <2>3. nc \in Nat /\ nm \in Nat
    BY PodNeedFields, PairFields
  <2>4. /\ uc <= nc
        /\ LimitsCoverRequests => um <= nm
        /\ MemoryIsLimited => nm <= um
    BY PodRead
  <2>5. y \in Nat /\ 10 * y >= nm /\ 10 * y <= nm + 9
    BY <2>3 DEF ScaledMega
  <2> HIDE DEF m, uc, um, nc, nm, y
  <2>6. \A a, b, c \in Nat : /\ a * b \in Nat
                             /\ b <= c => a * b <= a * c
    <3> SUFFICES ASSUME NEW a \in Nat, NEW b \in Nat, NEW c \in Nat
                 PROVE  a * b \in Nat /\ (b <= c => a * b <= a * c)
      OBVIOUS
    <3>1. a * b \in Nat
      OBVIOUS
    <3>2. ASSUME b <= c
          PROVE  a * b <= a * c
      <4>1. PICK e \in Nat : c = b + e
        <5>1. c - b \in Nat /\ c = b + (c - b)
          BY <3>2
        <5> QED
          BY <5>1
      <4>2. a * c = a * b + a * e /\ a * e \in Nat
        BY <4>1
      <4> QED
        BY <3>1, <4>2
    <3> QED
      BY <3>1, <3>2
  <2>7. m * uc <= m * nc /\ m * uc \in Nat /\ m * nc \in Nat /\ m * um \in Nat /\ m * y \in Nat
    BY <2>1, <2>2, <2>3, <2>4, <2>5, <2>6
  <2>8. 10 * (m * y) = m * (10 * y)
    BY <2>1, <2>5
  <2>9. ASSUME LimitsCoverRequests
        PROVE  m * um <= 10 * (m * y)
    <3>1. um <= 10 * y /\ 10 * y \in Nat
      BY <2>2, <2>3, <2>4, <2>5, <2>9
    <3> QED
      BY <2>1, <2>2, <2>6, <2>8, <3>1
  <2>10. ASSUME MemoryIsLimited
         PROVE  10 * (m * y) <= m * um + 9 * m
    <3>1. 10 * y <= um + 9 /\ 10 * y \in Nat /\ um + 9 \in Nat
      BY <2>2, <2>3, <2>4, <2>5, <2>10
    <3>2. m * (10 * y) <= m * (um + 9)
      BY <2>1, <2>6, <3>1
    <3>3. m * (um + 9) = m * um + 9 * m
      BY <2>1, <2>2
    <3> QED
      BY <2>8, <3>2, <3>3
  <2> QED
    BY ONLY <2>1, <2>7, <2>9, <2>10 DEF m, uc, um, nc, nm, y
<1>6. /\ useCpu \in [Workloads -> Nat] /\ useMemory \in [Workloads -> Nat]
      /\ needCpu \in [Workloads -> Nat] /\ needMemory \in [Workloads -> Nat]
      /\ IsFiniteSet(Workloads)
      /\ \A w \in Workloads : useCpu[w] <= needCpu[w]
  BY <1>5, WorkloadsAssumption
<1>7. /\ tenfold \in [Workloads -> Nat] /\ \A w \in Workloads : tenfold[w] = 10 * needMemory[w]
      /\ ninefold \in [Workloads -> Nat] /\ \A w \in Workloads : ninefold[w] = 9 * Paid[w]
  <2>1. \A n \in Nat : 10 * n \in Nat /\ 9 * n \in Nat
    OBVIOUS
  <2> HIDE DEF needMemory
  <2> QED
    BY <1>1, <1>6, <2>1
<1>8. /\ LimitsCoverRequests => \A w \in Workloads : useMemory[w] <= tenfold[w]
      /\ MemoryIsLimited => \A w \in Workloads : tenfold[w] <= useMemory[w] + ninefold[w]
  BY <1>5
<1> HIDE DEF sum, useCpu, useMemory, needCpu, needMemory, tenfold, ninefold
<1>9. /\ SumFunction(needCpu) \in Nat /\ SumFunction(needMemory) \in Nat
      /\ SumFunction(Paid) \in Nat /\ SumFunction(useCpu) <= SumFunction(needCpu)
  BY ONLY <1>1, <1>6, SumNat, SumMonotone
<1>10. SumFunction(tenfold) = 10 * SumFunction(needMemory)
  BY ONLY <1>6, <1>7, 10 \in Nat, SumTimes
<1>11. SumFunction(ninefold) = 9 * SumFunction(Paid)
  <2>1. /\ IsFiniteSet(Workloads) /\ Paid \in [Workloads -> Nat] /\ 9 \in Nat
        /\ ninefold \in [Workloads -> Nat] /\ \A w \in Workloads : ninefold[w] = 9 * Paid[w]
    BY <1>1, <1>6, <1>7
  <2> QED
    BY ONLY <2>1, SumTimes
<1>12. LimitsCoverRequests => SumFunction(useMemory) <= 10 * SumFunction(needMemory)
  BY ONLY <1>6, <1>7, <1>8, <1>10, SumMonotone
<1>13. ASSUME MemoryIsLimited
       PROVE  10 * SumFunction(needMemory) <= SumFunction(useMemory) + 9 * SumFunction(Paid)
  <2> DEFINE both == [w \in Workloads |-> useMemory[w] + ninefold[w]]
  <2>1. \A w \in Workloads : useMemory[w] + ninefold[w] \in Nat
    BY <1>6, <1>7
  <2>2. both \in [Workloads -> Nat] /\ \A w \in Workloads : tenfold[w] <= both[w]
    BY <1>8, <1>13, <2>1
  <2>3. SumFunction(both) = SumFunction(useMemory) + SumFunction(ninefold)
    BY ONLY <1>6, <1>7, SumAdd
  <2> HIDE DEF both
  <2>4. SumFunction(tenfold) <= SumFunction(both)
    BY ONLY <1>6, <1>7, <2>2, SumMonotone
  <2> QED
    BY <1>10, <1>11, <2>3, <2>4
<1>14. sum.cpu \in Nat /\ sum.memory \in Nat
  BY <1>2, PairFields
<1>15. /\ UseOf(Granted).cpu = UseOf(running).cpu + SumFunction(useCpu)
       /\ UseOf(Granted).memory = UseOf(running).memory + SumFunction(useMemory)
  BY <1>3, <1>4
<1>16. /\ UseOf(Granted).cpu \in Nat /\ UseOf(Granted).memory \in Nat
       /\ UseOf(Granted).cpu >= UseOf(running).cpu
       /\ UseOf(Granted).cpu <= UseOf(running).cpu + sum.cpu
       /\ UseOf(Granted).memory >= UseOf(running).memory
  BY ONLY <1>2, <1>3, <1>4, <1>9, <1>15
<1>17. LimitsCoverRequests =>
         UseOf(Granted).memory <= UseOf(running).memory + 10 * sum.memory
  BY ONLY <1>2, <1>3, <1>4, <1>9, <1>12, <1>15
<1>18. MemoryIsLimited =>
         UseOf(running).memory + 10 * sum.memory
           <= UseOf(Granted).memory + 9 * SumFunction(Paid)
  BY ONLY <1>2, <1>3, <1>4, <1>9, <1>13, <1>15
<1> QED
  BY <1>2, <1>4, <1>9, <1>16, <1>17, <1>18 DEF sum

\* The pods that run once the refused ones do use at least what runs, and at most
\* what is granted.
LEMMA AwaitedUse ==
  ASSUME TypeOK, NEW f \in UseFields
  PROVE  /\ UseOf(Awaited)[f] \in Nat
         /\ UseOf(running)[f] <= UseOf(Awaited)[f] /\ UseOf(Awaited)[f] <= UseOf(Granted)[f]
<1>1. /\ running \in [Workloads -> Nat] /\ Awaited \in [Workloads -> Nat]
      /\ Granted \in [Workloads -> Nat]
      /\ \A w \in Workloads : running[w] <= Awaited[w] /\ Awaited[w] <= Granted[w]
  BY PaidPods, States
<1>2. UseOf(running)[f] <= UseOf(Awaited)[f] /\ UseOf(Awaited)[f] <= UseOf(Granted)[f]
  BY <1>1, UseMonotone
<1>3. UseOf(Awaited)[f] \in Nat
  BY <1>1, UseType
<1> QED
  BY <1>2, <1>3

\* What is used and what is paid for make up what is granted.
LEMMA PaidUse ==
  ASSUME TypeOK
  PROVE  /\ UseOf(Granted).memory = UseOf(running).memory + UseOf(Paid).memory
         /\ UseOf(Paid).memory \in Nat
<1> DEFINE p == SumFunction([w \in Workloads |-> Paid[w] * PodUse(w)["memory"]])
<1>1. /\ running \in [Workloads -> Nat] /\ Granted \in [Workloads -> Nat]
      /\ Paid \in [Workloads -> Nat]
      /\ \A w \in Workloads : Granted[w] = running[w] + Paid[w]
  BY PaidPods, States
<1>2. UseOf(Granted)["memory"] = UseOf(running)["memory"] + p /\ p \in Nat
  BY <1>1, UseOfMore DEF UseFields
<1>3. UseOf(Paid)["memory"] = p
  BY DEF UseOf
<1>4. \A count : UseOf(count)["memory"] = UseOf(count).memory
  BY DEF UseOf
<1> HIDE DEF p
<1> QED
  BY <1>2, <1>3, <1>4

\* A tick that gets the objects its Events name makes room for the refused pods,
\* for all workloads whose limits cover their requests.  For those that limit
\* their CPU only it does not, as the run cpu_limited_pods shows.
THEOREM EventsAreCovered ==
  ASSUME LimitsCoverRequests
  PROVE  Spec => EventsCovered
<1> DEFINE A == HandlesEvents =>
                  LET u == UseOf(Awaited)
                  IN  (\E f \in Fields : u[f] # UseOf(running)[f]) =>
                        /\ u.cpu <= hard'.cpu \/ hard'.cpu >= Highest.cpu
                        /\ u.memory <= 10 * hard'.memory \/ hard'.memory >= Highest.memory
<1>1. TypeOK /\ [Next]_vars => [A]_vars
  <2> DEFINE u == UseOf(Awaited)
             now == UseOf(running)
             sum == GetResourcesFromPodEvents(batch, Objects({}))
             used == NormalizedUsed(now)
             d == Size(spec, batch, {})
  <2> SUFFICES ASSUME TypeOK, [Next]_vars, HandlesEvents,
                      \E f \in Fields : u[f] # now[f]
               PROVE  /\ u.cpu <= hard'.cpu \/ hard'.cpu >= Highest.cpu
                      /\ u.memory <= 10 * hard'.memory \/ hard'.memory >= Highest.memory
    OBVIOUS
  <2>1. /\ hard \in Quantities /\ sum \in Quantities /\ IsSpec(spec)
        /\ now \in [{"cpu", "cpuLimit", "memory"} -> Nat]
    BY States, EventsRead DEF TypeOK, UseFields
  <2>2. d \in Quantities /\ (\/ hard' = d
                             \/ hard' = hard /\ d.cpu <= hard.cpu /\ d.memory <= hard.memory)
    BY Handled
  <2>3. MakesRoom(d, used, sum, Bounds)
    BY <2>1, Evaluated DEF Size, Bounds
  <2>4. Bounds.maxCpu \in Nat /\ Bounds.maxMemory \in Nat
    BY <2>1, ValidatedSettings DEF IsSpec, Settings, Bounds
  <2>5. /\ used \in Quantities
        /\ used.cpu >= now.cpu /\ 10 * used.memory >= now.memory
    BY <2>1, Normalized
  <2>6. /\ u.cpu \in Nat /\ u.memory \in Nat /\ now.cpu \in Nat /\ now.memory \in Nat
        /\ u.cpu >= now.cpu /\ u.cpu <= now.cpu + sum.cpu
        /\ u.memory >= now.memory /\ u.memory <= now.memory + 10 * sum.memory
    <3> DEFINE g == UseOf(Granted)
    <3>1. /\ g.cpu \in Nat /\ g.memory \in Nat /\ now.cpu \in Nat /\ now.memory \in Nat
          /\ g.cpu <= now.cpu + sum.cpu /\ g.memory <= now.memory + 10 * sum.memory
      BY EventsRead
    <3>2. /\ u["cpu"] \in Nat /\ now["cpu"] <= u["cpu"] /\ u["cpu"] <= g["cpu"]
          /\ u["memory"] \in Nat /\ now["memory"] <= u["memory"] /\ u["memory"] <= g["memory"]
      BY AwaitedUse DEF UseFields
    <3>3. /\ u["cpu"] = u.cpu /\ now["cpu"] = now.cpu /\ g["cpu"] = g.cpu
          /\ u["memory"] = u.memory /\ now["memory"] = now.memory /\ g["memory"] = g.memory
      BY DEF UseOf
    <3>4. sum.cpu \in Nat /\ sum.memory \in Nat
      BY <2>1, PairFields
    <3> HIDE DEF g, u, now, sum
    <3> QED
      BY <3>1, <3>2, <3>3, <3>4
  <2>7. /\ u["cpu"] = u.cpu /\ u["memory"] = u.memory
        /\ now["cpu"] = now.cpu /\ now["memory"] = now.memory
    BY DEF UseOf
  <2>8. Highest.cpu = Bounds.maxCpu /\ Highest.memory = Bounds.maxMemory
    BY DEF Highest
  <2>9. u.cpu # now.cpu \/ u.memory # now.memory
    BY <2>7 DEF Fields
  <2> HIDE DEF u, now, sum, used, d
  <2>10. /\ \A q \in {d, hard, used, sum} : q.cpu \in Nat /\ q.memory \in Nat
         /\ hard' = d \/ (hard' = hard /\ d.cpu <= hard.cpu /\ d.memory <= hard.memory)
    BY <2>1, <2>2, <2>5, PairFields
  <2>11. sum.cpu # 0 \/ sum.memory # 0
    BY <2>6, <2>9, <2>10
  <2>12. /\ d.cpu >= used.cpu + sum.cpu \/ d.cpu >= Bounds.maxCpu
         /\ d.memory >= used.memory + sum.memory \/ d.memory >= Bounds.maxMemory
    BY <2>3, <2>11 DEF MakesRoom
  <2>13. /\ u.cpu <= d.cpu \/ d.cpu >= Bounds.maxCpu
         /\ u.memory <= 10 * d.memory \/ d.memory >= Bounds.maxMemory
    BY <2>5, <2>6, <2>10, <2>12
  <2>14. hard'.cpu \in Nat /\ hard'.cpu >= d.cpu /\ hard'.memory \in Nat /\ hard'.memory >= d.memory
    BY <2>10
  <2> QED
    BY <2>4, <2>6, <2>8, <2>10, <2>13, <2>14
<1> QED
  BY <1>1, LoopTypes, PTL DEF EventsCovered, Spec

\* However many Events of a workload a batch has, its pods are paid for once, where
\* the quota counts memory limits and the containers have them; for CPU and memory
\* alike.  A Job that has overtaken its Event is paid a pod it does not miss.
THEOREM EventsAreCountedOnce ==
  ASSUME MemoryIsLimited
  PROVE  Spec => EventsCountedOnce
<1> DEFINE A == HandlesEvents =>
       LET most == [cpu |-> Used.cpu + SumFunction([w \in Workloads |-> Paid[w] * PodCpu(w)]),
                    memory |-> ScaledMega(UseOf(running).memory + UseOf(Paid).memory)
                                 + SumFunction(Paid)]
       IN  \A f \in Fields :
             \/ hard'[f] <= hard[f]
             \/ hard'[f] <= most[f]
             \/ hard'[f] <= Larger(Lowest[f], PolicyDesire(spec, hard, Used)[f])
<1>1. TypeOK /\ [Next]_vars => [A]_vars
  <2> DEFINE now == UseOf(running)
             sum == GetResourcesFromPodEvents(batch, Objects({}))
             d == Size(spec, batch, {})
             cpus == SumFunction([w \in Workloads |-> Paid[w] * PodCpu(w)])
             paid == UseOf(Paid).memory
             pods == SumFunction(Paid)
             most == [cpu |-> Used.cpu + cpus,
                      memory |-> ScaledMega(now.memory + paid) + pods]
             desire == PolicyDesire(spec, hard, Used)
  <2> SUFFICES ASSUME TypeOK, [Next]_vars, HandlesEvents
               PROVE  \A f \in Fields : \/ hard'[f] <= hard[f]
                                        \/ hard'[f] <= most[f]
                                        \/ hard'[f] <= Larger(Lowest[f], desire[f])
    OBVIOUS
  <2>1. /\ hard \in Quantities /\ sum \in Quantities /\ IsSpec(spec)
        /\ now \in [{"cpu", "cpuLimit", "memory"} -> Nat]
    BY States, EventsRead DEF TypeOK, UseFields
  <2>2. d \in Quantities /\ hard' \in {d, hard}
    BY Handled
  <2>3. Used = NormalizedUsed(now) /\ Used \in Quantities /\ Used.memory = ScaledMega(now.memory)
    BY <2>1, Normalized DEF Used, NormalizedUsed
  <2>4. /\ desire \in Quantities
        /\ Bounds.minCpu \in Nat /\ Bounds.minMemory \in Nat
        /\ Lowest["cpu"] = Bounds.minCpu /\ Lowest["memory"] = Bounds.minMemory
    BY <2>1, <2>3, Desire, ValidatedSettings DEF IsSpec, Settings, Bounds, Lowest
  <2>5. /\ \/ d.cpu <= hard.cpu
           \/ d.cpu <= Used.cpu + sum.cpu
           \/ d.cpu <= desire.cpu
           \/ d.cpu <= Bounds.minCpu
        /\ \/ d.memory <= hard.memory
           \/ d.memory <= Used.memory + sum.memory
           \/ d.memory <= desire.memory
           \/ d.memory <= Bounds.minMemory
    BY <2>1, <2>3, Frugal DEF Size, Bounds
  <2>6. /\ now.memory \in Nat /\ pods \in Nat /\ paid \in Nat
        /\ now.memory + 10 * sum.memory <= now.memory + paid + 9 * pods
    BY EventsRead, PaidUse
  <2>7. cpus \in Nat /\ sum.cpu <= cpus
    BY CpuRead
  <2>8. most["cpu"] = Used.cpu + cpus /\ most["memory"] = ScaledMega(now.memory + paid) + pods
    OBVIOUS
  <2> HIDE DEF now, sum, d, cpus, paid, pods, most, desire
  <2>9. \A q \in {d, hard, sum, desire, Used} :
          /\ q.cpu \in Nat /\ q.memory \in Nat
          /\ q["cpu"] = q.cpu /\ q["memory"] = q.memory
    BY <2>1, <2>2, <2>3, <2>4, PairFields
  <2>10. Used.cpu + sum.cpu <= most["cpu"] /\ most["cpu"] \in Nat
    BY <2>7, <2>8, <2>9
  <2>11. Used.memory + sum.memory <= most["memory"] /\ most["memory"] \in Nat
    BY <2>3, <2>6, <2>8, <2>9 DEF ScaledMega
  <2>12. \/ d["cpu"] <= hard["cpu"]
         \/ d["cpu"] <= most["cpu"]
         \/ d["cpu"] <= Larger(Lowest["cpu"], desire["cpu"])
    BY <2>4, <2>5, <2>9, <2>10 DEF Larger
  <2>13. \/ d["memory"] <= hard["memory"]
         \/ d["memory"] <= most["memory"]
         \/ d["memory"] <= Larger(Lowest["memory"], desire["memory"])
    BY <2>4, <2>5, <2>9, <2>11 DEF Larger
  <2>14. hard["cpu"] <= hard["cpu"] /\ hard["memory"] <= hard["memory"]
    BY <2>9
  <2> QED
    BY <2>2, <2>12, <2>13, <2>14 DEF Fields
<1> QED
  BY <1>1, LoopTypes, PTL DEF EventsCountedOnce, Spec

-----------------------------------------------------------------------------
(* Scaling up and down. *)

\* A sum of nothing is nothing.
LEMMA EmptySum ==
  ASSUME NEW g \in [{} -> Nat]
  PROVE  SumFunction(g) = 0
<1>1. IsFiniteSet({})
  BY FS_EmptySet
<1>2. PICK h : h = [T \in SUBSET {} |-> PartialSum(g, h, T)] /\ SumFunction(g) = h[{}]
  BY <1>1, SumFunctionDef
<1>3. h[{}] = PartialSum(g, h, {})
  BY <1>2
<1> QED
  BY <1>2, <1>3 DEF PartialSum

\* Without Events there is nothing to make room for.
LEMMA NoEvents ==
  ASSUME NEW objects
  PROVE  GetResourcesFromPodEvents(<<>>, objects) = Nothing
<1> DEFINE handled == {<<>>[i] : i \in DOMAIN <<>>}
           Need(o) ==
             CASE objects[o] = Absent -> Nothing
               [] objects[o] # Absent /\ objects[o].kind = "DaemonSet" -> Nothing
               [] OTHER -> CalculatePodResources(objects[o].containers,
                                                 MissingReplicas(objects[o]))
           need == [o \in handled |-> Need(o)]
<1>1. handled = {}
  OBVIOUS
<1>2. GetResourcesFromPodEvents(<<>>, objects) = Total(need)
  BY DEF GetResourcesFromPodEvents
<1> HIDE DEF handled, Need
<1>3. DOMAIN need = {}
  BY <1>1
<1> HIDE DEF need
<1>4. \A f \in {"cpu", "memory"} : SumFunction([x \in DOMAIN need |-> need[x][f]]) = 0
  <2> SUFFICES ASSUME NEW f \in {"cpu", "memory"}
               PROVE  SumFunction([x \in DOMAIN need |-> need[x][f]]) = 0
    OBVIOUS
  <2> DEFINE g == [x \in DOMAIN need |-> need[x][f]]
  <2>1. g \in [{} -> Nat]
    BY <1>3
  <2> HIDE DEF g
  <2>2. SumFunction(g) = 0
    BY <2>1, EmptySum
  <2> QED
    BY <2>2 DEF g
<1>5. Total(need) = [f \in {"cpu", "memory"} |-> 0]
  BY <1>4 DEF Total
<1>6. [f \in {"cpu", "memory"} |-> 0] = Nothing
  BY DEF Nothing
<1> QED
  BY <1>2, <1>5, <1>6

\* The band of ScalingProofs is that of the property.
LEMMA Bands ==
  ASSUME NEW f \in Fields, LeavesBand(f)
  PROVE  Apart(spec, hard[f], f)
<1>1. LeastStep[f] = Step(ValidateQuotaScaler(spec), f)
  BY DEF LeastStep, Step
<1> QED
  BY <1>1 DEF LeavesBand, Apart

\* Without Events an evaluation resizes to what the policies and the bounds say.
LEMMA EvaluatesPolicies ==
  ASSUME TypeOK, Evaluation(spec, <<>>, {}) # NoResize
  PROVE  Evaluation(spec, <<>>, {}) = DesiredSize(hard, UseOf(running), spec, Nothing)
<1>1. spec \in Specs
  BY DEF TypeOK
<1>2. <<>> \in Seq(Workloads)
  OBVIOUS
<1>3. Evaluation(spec, <<>>, {}) = Size(spec, <<>>, {})
  BY <1>1, <1>2, Evaluations
<1> QED
  BY <1>3, NoEvents DEF Size

\* And an evaluation of its result, if it resizes at all.
LEMMA EvaluatesAgain ==
  ASSUME NEW r
  PROVE  \/ ResizeFrom(r) = NoResize
         \/ ResizeFrom(r) = DesiredSize(r, UseOf(running), spec, Nothing)
<1> DEFINE u == UseOf(running)
           e == DesiredSize(r, u, spec, Nothing)
           again == ResizeFrom(r)
<1>1. [Quota EXCEPT !.hard = r] = [hard |-> r, used |-> u, status |-> counted]
  BY DEF Quota
<1>2. again = IF counted /\ DiffersFrom(e, r) THEN e ELSE NoResize
  BY <1>1, Update DEF ResizeFrom
<1> QED
  BY <1>2

\* What the policies scale a resource up to is not scaled down again.
THEOREM ScalingUpIsNotUndone == Spec => []ScaleUpNotUndone
<1>1. TypeOK => ScaleUpNotUndone
  <2> SUFFICES ASSUME TypeOK, NEW f \in Fields, LeavesBand(f),
                      Evaluation(spec, <<>>, {}) # NoResize,
                      Evaluation(spec, <<>>, {})[f] > hard[f],
                      ResizeFrom(Evaluation(spec, <<>>, {})) # NoResize
               PROVE  ResizeFrom(Evaluation(spec, <<>>, {}))[f] >= Evaluation(spec, <<>>, {})[f]
    BY DEF ScaleUpNotUndone
  <2> DEFINE r == Evaluation(spec, <<>>, {})
             u == UseOf(running)
             e == DesiredSize(r, u, spec, Nothing)
             again == ResizeFrom(r)
  <2>1. /\ spec \in Specs /\ IsSpec(spec) /\ hard \in Quantities
        /\ u \in [{"cpu", "cpuLimit", "memory"} -> Nat]
    BY States DEF TypeOK, UseFields
  <2>2. r = DesiredSize(hard, u, spec, Nothing)
    BY <2>1, EvaluatesPolicies
  <2>3. again = NoResize \/ again = e
    BY EvaluatesAgain
  <2> HIDE DEF r, u
  <2>4. e[f] >= r[f]
    <3>1. r[f] > hard[f]
      BY DEF r
    <3> QED
      BY <2>1, <2>2, <3>1, Bands, NotUndone DEF Fields
  <2> HIDE DEF e, again
  <2>5. again # NoResize => again[f] >= r[f]
    BY <2>3, <2>4
  <2> QED
    BY <2>5 DEF again, r
<1> QED
  BY <1>1, LoopTypes, PTL DEF Spec

\* The room of ScalingProofs is that of the property.
LEMMA Rooms ==
  ASSUME NEW f \in Fields, NEW n, ShrinksGradually(f, n)
  PROVE  Gradual(spec, hard[f], n, f)
<1>1. LeastStep[f] = Step(ValidateQuotaScaler(spec), f)
  BY DEF LeastStep, Step
<1> QED
  BY <1>1 DEF ShrinksGradually, Gradual

\* What the policies scale a resource down to, without taking it down to a small
\* part of what it was, is not scaled up again.
THEOREM ScalingDownIsNotUndone == Spec => []ScaleDownNotUndone
<1>1. TypeOK => ScaleDownNotUndone
  <2> SUFFICES ASSUME TypeOK, NEW f \in Fields,
                      Evaluation(spec, <<>>, {}) # NoResize,
                      Evaluation(spec, <<>>, {})[f] < hard[f],
                      ShrinksGradually(f, Evaluation(spec, <<>>, {})[f]),
                      ResizeFrom(Evaluation(spec, <<>>, {})) # NoResize
               PROVE  ResizeFrom(Evaluation(spec, <<>>, {}))[f] <= Evaluation(spec, <<>>, {})[f]
    BY DEF ScaleDownNotUndone
  <2> DEFINE r == Evaluation(spec, <<>>, {})
             u == UseOf(running)
             e == DesiredSize(r, u, spec, Nothing)
             again == ResizeFrom(r)
  <2>1. /\ spec \in Specs /\ IsSpec(spec) /\ hard \in Quantities
        /\ u \in [{"cpu", "cpuLimit", "memory"} -> Nat]
    BY States DEF TypeOK, UseFields
  <2>2. r = DesiredSize(hard, u, spec, Nothing)
    BY <2>1, EvaluatesPolicies
  <2>3. again = NoResize \/ again = e
    BY EvaluatesAgain
  <2> HIDE DEF r, u
  <2>4. e[f] <= r[f]
    <3>1. r[f] < hard[f] /\ ShrinksGradually(f, r[f])
      BY DEF r
    <3> QED
      BY <2>1, <2>2, <3>1, Rooms, NotTakenBack DEF Fields
  <2> HIDE DEF e, again
  <2>5. again # NoResize => again[f] <= r[f]
    BY <2>3, <2>4
  <2> QED
    BY <2>5 DEF again, r
<1> QED
  BY <1>1, LoopTypes, PTL DEF Spec
=============================================================================
