----------------------------- MODULE QuotaUpdate -----------------------------
(***************************************************************************)
(* UpdateQuotaIfRequired of internal/watchers.go: from a QuotaAutoscaler,  *)
(* its ResourceQuota and what refused pods need to the resources asked of  *)
(* the resize endpoint.                                                    *)
(***************************************************************************)
EXTENDS Scaling, PodEvents, Sequences

CONSTANT NoResize   \* no request is made

ASSUME NoResizeAssumption == NoResize \notin Quantities

\* Status.Used after the CPU has been normalised, in the units of Spec.Hard.
NormalizedUsed(used) ==
  [cpu    |-> GetNormalizedUsedCpu(used.cpu, used.cpuLimit),
   memory |-> ScaledMega(used.memory)]

\* What each policy asks for.
AskedBy(policies, scaler, scaleUp, hard, used) ==
  [i \in DOMAIN policies |->
     ActivateScalerPolicy(scaler, policies[i], scaleUp, hard, used)]

\* Each policy in turn replaces what those before it left: for each resource the
\* last policy that asks for a value wins.
ApplyPolicies(desired, asked) ==
  [f \in {"cpu", "memory"} |->
     LET asking == {i \in DOMAIN asked : asked[i][f] # 0}
     IN  IF asking = {} THEN desired[f]
         ELSE asked[CHOOSE i \in asking : \A j \in asking : j <= i][f]]

\* Scale down, then scale up, both measured against the same hard limits.
PolicyDesire(spec, hard, used) ==
  LET scaler == ValidateQuotaScaler(spec)
      down == ApplyPolicies(hard, AskedBy(spec.scaleDown, scaler, FALSE, hard, used))
  IN  ApplyPolicies(down, AskedBy(spec.scaleUp, scaler, TRUE, hard, used))

\* Faulty variant: what is used is not added to what the pods need.
WithEventsOnly(desired, used, sum) == AtLeast(sum, desired)

\* Refused pods need their resources beyond what is used.
WithEvents(desired, used, sum) ==
  IF sum.cpu = 0 /\ sum.memory = 0 THEN desired
                                   ELSE AtLeast(Add(used, sum), desired)

\* Faulty variant: only the minimum is enforced.
AboveMinimum(desired, scaler) ==
  AtLeast(desired, [cpu |-> scaler.minCpu, memory |-> scaler.minMemory])

\* The bounds of the scaler: the maximum wins over the minimum.
WithinBounds(desired, scaler) ==
  Limit(AtLeast(desired, [cpu |-> scaler.minCpu, memory |-> scaler.minMemory]),
        [cpu |-> scaler.maxCpu, memory |-> scaler.maxMemory])

\* Faulty variant: the bounds are enforced last.
UpdateBoundedLast(quota, spec, sum) ==
  LET used == NormalizedUsed(quota.used)
      wanted == WithEvents(PolicyDesire(spec, quota.hard, used), used, sum)
      desired == WithinBounds(ForceNoScaleDownWhenScaleUp(wanted, quota.hard),
                              ForceLimitToDefaultMax(ValidateQuotaScaler(spec)))
  IN  IF quota.status /\ DiffersFrom(desired, quota.hard) THEN desired ELSE NoResize

\* quota.status says whether the quota controller has filled in the status.
UpdateQuotaIfRequired(quota, spec, sum) ==
  LET used == NormalizedUsed(quota.used)
      wanted == WithEvents(PolicyDesire(spec, quota.hard, used), used, sum)
      bounded == WithinBounds(wanted, ForceLimitToDefaultMax(ValidateQuotaScaler(spec)))
      desired == ForceNoScaleDownWhenScaleUp(bounded, quota.hard)
  IN  IF quota.status /\ DiffersFrom(desired, quota.hard) THEN desired ELSE NoResize
=============================================================================
