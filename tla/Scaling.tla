------------------------------- MODULE Scaling -------------------------------
(***************************************************************************)
(* internal/scaling.go: what one policy of a QuotaAutoscaler asks for,     *)
(* given the hard limits and the use of a ResourceQuota.                   *)
(*                                                                         *)
(* Quantities are in the units the code converts them to.  A field of the  *)
(* spec that is empty or does not parse is Unset.  The value of a policy   *)
(* is a percentage.                                                        *)
(***************************************************************************)
EXTENDS Resources, Float64

CONSTANT Unset

\* QuotaScalePolicy; the method is any string.
Policy == [method : STRING, value : Nat]

\* The values ParseQuantityWithDefault falls back to.
Defaults ==
  [minCpu    |-> 400,  maxCpu    |-> 35000,  minCpuStep    |-> 10, maxCpuStep    |-> 35000,
   minMemory |-> 1000, maxMemory |-> 150000, minMemoryStep |-> 10, maxMemoryStep |-> 150000]

ParseWithDefault(value, default) == IF value = Unset THEN default ELSE value

\* The maximal CPU step is read from the field of the minimal one.
ValidateQuotaScaler(spec) ==
  [f \in DOMAIN Defaults |->
     ParseWithDefault(spec[IF f = "maxCpuStep" THEN "minCpuStep" ELSE f], Defaults[f])]

\* The default maxima are the largest maxima allowed; the minima are free.
ForceLimitToDefaultMax(scaler) ==
  [scaler EXCEPT !.maxMemory = Smaller(@, Defaults.maxMemory),
                 !.maxCpu = Smaller(@, Defaults.maxCpu)]

\* ToActivePolicy.  A method that is neither memory nor cpu leaves every field 0.
\* The use that counts for memory is that of its limits.
ActivePolicy(maximum, limit, minStep, maxStep, used) ==
  [maximum |-> maximum, limit |-> limit, minStep |-> minStep, maxStep |-> maxStep,
   used |-> used,
   percentage |-> IF maximum = 0 THEN 0 ELSE TruncatedProduct(used, maximum, 100)]

\* Faulty variant: the bounds of the two directions are swapped.
ToActivePolicySwapped(scaler, scaleUp, method, hard, used) ==
  CASE method = "memory" ->
         ActivePolicy(hard.memory, IF scaleUp THEN scaler.minMemory ELSE scaler.maxMemory,
                      scaler.minMemoryStep, scaler.maxMemoryStep, used.memory)
    [] method = "cpu" ->
         ActivePolicy(hard.cpu, IF scaleUp THEN scaler.minCpu ELSE scaler.maxCpu,
                      scaler.minCpuStep, scaler.maxCpuStep, used.cpu)
    [] OTHER -> ActivePolicy(0, 0, 0, 0, 0)

ToActivePolicy(scaler, scaleUp, method, hard, used) ==
  CASE method = "memory" ->
         ActivePolicy(hard.memory, IF scaleUp THEN scaler.maxMemory ELSE scaler.minMemory,
                      scaler.minMemoryStep, scaler.maxMemoryStep, used.memory)
    [] method = "cpu" ->
         ActivePolicy(hard.cpu, IF scaleUp THEN scaler.maxCpu ELSE scaler.minCpu,
                      scaler.minCpuStep, scaler.maxCpuStep, used.cpu)
    [] OTHER -> ActivePolicy(0, 0, 0, 0, 0)

\* Faulty variant: the value wanted is added to the one there is.
CalculateScaleUpBy(active, threshold) ==
  LET wanted == TruncatedProduct(active.percentage, threshold, active.maximum)
  IN  Smaller(active.maximum + Larger(wanted, active.minStep),
              Smaller(active.limit, active.maximum + active.maxStep))

\* At least the minimal step, within the limit and the maximal step.
CalculateScaleUp(active, threshold) ==
  LET wanted == TruncatedProduct(active.percentage, threshold, active.maximum)
  IN  Smaller(Larger(wanted, active.maximum + active.minStep),
              Smaller(active.limit, active.maximum + active.maxStep))

\* Faulty variant: scaled down to what is used, as if the threshold were 100.
CalculateScaleDownToUse(active, threshold) ==
  LET wanted == TruncatedProduct(active.percentage, 100, active.maximum)
  IN  Larger(Smaller(wanted, active.maximum - active.minStep),
             Larger(active.limit, active.maximum - active.maxStep))

CalculateScaleDown(active, threshold) ==
  LET wanted == TruncatedProduct(active.percentage, threshold, active.maximum)
  IN  Larger(Smaller(wanted, active.maximum - active.minStep),
             Larger(active.limit, active.maximum - active.maxStep))

\* Faulty variants: a policy of 100 scales down to the minimum; one below 100
\* scales down whatever is used.
ActivateToLimit(scaler, scaleUp, policy, hard, used) ==
  LET active == ToActivePolicy(scaler, scaleUp, policy.method, hard, used)
  IN  IF policy.value = 100 /\ ~scaleUp THEN active.limit ELSE 0

ActivateAlwaysDown(scaler, scaleUp, policy, hard, used) ==
  LET active == ToActivePolicy(scaler, scaleUp, policy.method, hard, used)
  IN  CASE scaleUp /\ active.percentage > policy.value ->
             CalculateScaleUp(active, policy.value)
        [] ~scaleUp -> CalculateScaleDown(active, policy.value)
        [] OTHER -> 0

\* The value asked for, 0 when the policy asks for nothing.  A policy of 100
\* never scales up, and scales down to what is used.
ActivatePolicy(scaler, scaleUp, policy, hard, used) ==
  LET active == ToActivePolicy(scaler, scaleUp, policy.method, hard, used)
  IN  CASE policy.value = 100 /\ ~scaleUp /\ active.used # active.maximum ->
             Larger(active.used, active.limit)
        [] policy.value # 100 /\ scaleUp /\ active.percentage > policy.value ->
             CalculateScaleUp(active, policy.value)
        [] policy.value # 100 /\ ~scaleUp /\ active.percentage < policy.value ->
             CalculateScaleDown(active, policy.value)
        [] OTHER -> 0

ActivateScalerPolicy(scaler, policy, scaleUp, hard, used) ==
  LET target == ActivatePolicy(scaler, scaleUp, policy, hard, used)
  IN  IF policy.method = "cpu" THEN [Nothing EXCEPT !.cpu = target]
                               ELSE [Nothing EXCEPT !.memory = target]
=============================================================================
