---------------------------- MODULE ScalingProofs ----------------------------
(***************************************************************************)
(* What UpdateQuotaIfRequired asks for, whatever the scaler, the quota and *)
(* its use: the lemmas ScalingLoopProofs rests on.                         *)
(***************************************************************************)
EXTENDS QuotaUpdate, SumTheorems

-----------------------------------------------------------------------------
(* Types. *)

\* A scaler whose fields ValidateQuotaScaler has filled in.
Settings ==
  [{"minCpu", "maxCpu", "minCpuStep", "maxCpuStep",
    "minMemory", "maxMemory", "minMemoryStep", "maxMemoryStep"} -> Nat]

\* A pair is a function on two fields, and the other way round.
LEMMA PairFields ==
  /\ \A r \in Quantities : /\ r.cpu \in Nat /\ r.memory \in Nat
                     /\ r \in [{"cpu", "memory"} -> Nat]
                     /\ r["cpu"] = r.cpu /\ r["memory"] = r.memory
  /\ [{"cpu", "memory"} -> Nat] = Quantities
  /\ Nothing \in Quantities
<1>1. \A r \in Quantities : /\ r.cpu \in Nat /\ r.memory \in Nat
                      /\ r \in [{"cpu", "memory"} -> Nat]
                      /\ r["cpu"] = r.cpu /\ r["memory"] = r.memory
  BY DEF Quantities
<1>2. \A r \in [{"cpu", "memory"} -> Nat] : r \in Quantities
  BY DEF Quantities
<1>3. Nothing \in Quantities
  BY DEF Nothing, Quantities
<1> QED
  BY <1>1, <1>2, <1>3

\* A field that is not set takes its default.
LEMMA ValidatedSettings ==
  ASSUME NEW spec, \A f \in DOMAIN Defaults : spec[f] \in Nat \cup {Unset}
  PROVE  /\ ValidateQuotaScaler(spec) \in Settings
         /\ ForceLimitToDefaultMax(ValidateQuotaScaler(spec)) \in Settings
         /\ LET s == ValidateQuotaScaler(spec)
                b == ForceLimitToDefaultMax(s)
            IN  /\ b.maxCpu <= s.maxCpu /\ b.maxMemory <= s.maxMemory
                /\ b.minCpu = s.minCpu /\ b.minMemory = s.minMemory
<1> DEFINE s == ValidateQuotaScaler(spec)
<1>1. DOMAIN Defaults = {"minCpu", "maxCpu", "minCpuStep", "maxCpuStep",
                         "minMemory", "maxMemory", "minMemoryStep", "maxMemoryStep"}
  BY DEF Defaults
<1>2. \A f \in DOMAIN Defaults : Defaults[f] \in Nat
  BY DEF Defaults
<1>3. s \in Settings
  <2>1. \A f \in DOMAIN Defaults :
          ParseWithDefault(spec[IF f = "maxCpuStep" THEN "minCpuStep" ELSE f], Defaults[f]) \in Nat
    BY <1>1, <1>2 DEF ParseWithDefault
  <2> QED
    BY <1>1, <2>1 DEF ValidateQuotaScaler, Settings
<1> HIDE DEF s
<1>4. Defaults.maxCpu \in Nat /\ Defaults.maxMemory \in Nat
  BY DEF Defaults
<1>5. ForceLimitToDefaultMax(s) \in Settings
  BY <1>3, <1>4 DEF ForceLimitToDefaultMax, Settings, Smaller
<1>6. LET b == ForceLimitToDefaultMax(s)
      IN  /\ b.maxCpu <= s.maxCpu /\ b.maxMemory <= s.maxMemory
          /\ b.minCpu = s.minCpu /\ b.minMemory = s.minMemory
  BY <1>3, <1>4 DEF ForceLimitToDefaultMax, Settings, Smaller
<1> QED
  BY <1>3, <1>5, <1>6 DEF s

-----------------------------------------------------------------------------
(* One policy. *)

\* Only a division by zero yields something negative.
LEMMA TruncatedNat ==
  ASSUME NEW p \in Nat, NEW t \in Nat, NEW c \in Nat
  PROVE  /\ TruncatedProduct(p, t, c) \in Int
         /\ t # 0 => TruncatedProduct(p, t, c) \in Nat
<1>1. CASE t = 0
  BY <1>1, IntOfInfinityAssumption DEF TruncatedProduct
<1>2. CASE t # 0
  <2>1. p * c \in Nat
    OBVIOUS
  <2>2. (p * c) \div t \in Nat
    BY <1>2, <2>1
  <2> QED
    BY <1>2, <2>2 DEF TruncatedProduct
<1> QED
  BY <1>1, <1>2

\* An active policy.
Active == [maximum : Nat, limit : Nat, minStep : Nat, maxStep : Nat, used : Nat, percentage : Nat]

\* The fields an active policy takes from the scaler and the quota.
LEMMA ActiveFields ==
  ASSUME NEW s \in Settings, NEW up \in BOOLEAN, NEW m \in STRING,
         NEW hard \in Quantities, NEW used \in Quantities
  PROVE  LET a == ToActivePolicy(s, up, m, hard, used)
         IN  /\ a \in Active
             /\ m = "cpu" => /\ a.maximum = hard.cpu /\ a.used = used.cpu
                             /\ a.limit = IF up THEN s.maxCpu ELSE s.minCpu
             /\ m = "memory" => /\ a.maximum = hard.memory /\ a.used = used.memory
                                /\ a.limit = IF up THEN s.maxMemory ELSE s.minMemory
             /\ m \notin {"cpu", "memory"} =>
                  a.used = 0 /\ a.maximum = 0 /\ a.limit = 0 /\ a.percentage = 0 /\ a.minStep = 0 /\ a.maxStep = 0
<1>2. /\ s.minCpu \in Nat /\ s.maxCpu \in Nat /\ s.minCpuStep \in Nat /\ s.maxCpuStep \in Nat
      /\ s.minMemory \in Nat /\ s.maxMemory \in Nat
      /\ s.minMemoryStep \in Nat /\ s.maxMemoryStep \in Nat
  BY DEF Settings
<1>3. hard.cpu \in Nat /\ hard.memory \in Nat /\ used.cpu \in Nat /\ used.memory \in Nat
  BY DEF Quantities
<1>4. CASE m = "cpu"
  <2> DEFINE l == IF up THEN s.maxCpu ELSE s.minCpu
  <2>1. ToActivePolicy(s, up, m, hard, used) =
          ActivePolicy(hard.cpu, l, s.minCpuStep, s.maxCpuStep, used.cpu)
    BY <1>4 DEF ToActivePolicy
  <2>2. l \in Nat
    BY <1>2
  <2> HIDE DEF l
  <2>3. (IF hard.cpu = 0 THEN 0 ELSE TruncatedProduct(used.cpu, hard.cpu, 100)) \in Nat
    BY <1>3, TruncatedNat
  <2>4. LET a == ToActivePolicy(s, up, m, hard, used)
        IN  a \in Active /\ a.maximum = hard.cpu /\ a.used = used.cpu /\ a.limit = l
    BY <1>2, <1>3, <2>1, <2>2, <2>3 DEF ActivePolicy, Active
  <2> QED
    BY <1>4, <2>4 DEF l
<1>5. CASE m = "memory"
  <2> DEFINE l == IF up THEN s.maxMemory ELSE s.minMemory
  <2>1. ToActivePolicy(s, up, m, hard, used) =
          ActivePolicy(hard.memory, l, s.minMemoryStep, s.maxMemoryStep, used.memory)
    BY <1>5 DEF ToActivePolicy
  <2>2. l \in Nat
    BY <1>2
  <2> HIDE DEF l
  <2>3. (IF hard.memory = 0 THEN 0 ELSE TruncatedProduct(used.memory, hard.memory, 100)) \in Nat
    BY <1>3, TruncatedNat
  <2>4. LET a == ToActivePolicy(s, up, m, hard, used)
        IN  a \in Active /\ a.maximum = hard.memory /\ a.used = used.memory /\ a.limit = l
    BY <1>2, <1>3, <2>1, <2>2, <2>3 DEF ActivePolicy, Active
  <2> QED
    BY <1>5, <2>4 DEF l
<1>6. CASE m \notin {"cpu", "memory"}
  BY <1>6 DEF ToActivePolicy, ActivePolicy, Active
<1> QED
  BY <1>4, <1>5, <1>6

\* A policy asks for a natural.  A scale up that lowers the resource ends at the
\* maximum of the scaler; a policy of 100 does not go below what is used.
LEMMA PolicyResult ==
  ASSUME NEW s \in Settings, NEW up \in BOOLEAN, NEW p \in Policy,
         NEW hard \in Quantities, NEW used \in Quantities
  PROVE  LET v == ActivatePolicy(s, up, p, hard, used)
             a == ToActivePolicy(s, up, p.method, hard, used)
         IN  /\ v \in Nat
             /\ up /\ v # 0 /\ v < a.maximum => v = a.limit
             /\ ~up /\ p.value = 100 /\ v # 0 => v >= a.used
<1> DEFINE a == ToActivePolicy(s, up, p.method, hard, used)
<1>1. a \in Active
  BY ActiveFields DEF Policy
<1>2. /\ a.maximum \in Nat /\ a.limit \in Nat /\ a.minStep \in Nat
      /\ a.maxStep \in Nat /\ a.used \in Nat /\ a.percentage \in Nat
  BY <1>1 DEF Active
<1>3. p.method \in STRING /\ p.value \in Nat
  BY DEF Policy
<1> HIDE DEF a
<1>4. /\ CalculateScaleUp(a, p.value) \in Nat
      /\ CalculateScaleUp(a, p.value) < a.maximum => CalculateScaleUp(a, p.value) = a.limit
  <2> DEFINE w == TruncatedProduct(a.percentage, p.value, a.maximum)
  <2>1. w \in Int
    BY <1>2, <1>3, TruncatedNat
  <2> HIDE DEF w
  <2> QED
    BY <1>2, <2>1 DEF CalculateScaleUp, Larger, Smaller, w
<1>5. a.percentage < p.value => CalculateScaleDown(a, p.value) \in Nat
  <2> DEFINE w == TruncatedProduct(a.percentage, p.value, a.maximum)
  <2>1. w \in Int
    BY <1>2, <1>3, TruncatedNat
  <2> HIDE DEF w
  <2> QED
    BY <1>1, <1>2, <2>1 DEF CalculateScaleDown, Larger, Smaller, w
<1> QED
  BY <1>2, <1>3, <1>4, <1>5 DEF ActivatePolicy, Larger, a

\* A policy of another method than those two asks for nothing.
LEMMA NoOtherMethod ==
  ASSUME NEW s \in Settings, NEW up \in BOOLEAN, NEW p \in Policy,
         p.method \notin {"cpu", "memory"}, NEW hard \in Quantities, NEW used \in Quantities
  PROVE  ActivatePolicy(s, up, p, hard, used) = 0
<1> DEFINE a == ToActivePolicy(s, up, p.method, hard, used)
<1>1. /\ p.method \in STRING /\ p.value \in Nat
  BY DEF Policy
<1>2. /\ a.used = 0 /\ a.maximum = 0 /\ a.limit = 0 /\ a.percentage = 0
      /\ a.minStep = 0 /\ a.maxStep = 0
  BY <1>1 DEF ToActivePolicy, ActivePolicy
<1> HIDE DEF a
<1>3. p.value > 0 => CalculateScaleDown(a, p.value) = 0
  <2>1. \A v \in Nat : v > 0 => TruncatedProduct(0, v, 0) \in Nat
    BY TruncatedNat
  <2> QED
    BY <1>1, <1>2, <2>1 DEF CalculateScaleDown, Larger, Smaller
<1> QED
  BY <1>1, <1>2, <1>3 DEF ActivatePolicy, a

\* What a policy asks for, by resource.
LEMMA Asked ==
  ASSUME NEW s \in Settings, NEW up \in BOOLEAN, NEW p \in Policy,
         NEW hard \in Quantities, NEW used \in Quantities
  PROVE  LET v == ActivateScalerPolicy(s, p, up, hard, used)
         IN  /\ v \in Quantities
             /\ up => /\ v.cpu \in {0, s.maxCpu} \/ v.cpu >= hard.cpu
                      /\ v.memory \in {0, s.maxMemory} \/ v.memory >= hard.memory
             /\ ~up /\ p.value = 100 => /\ v.cpu = 0 \/ v.cpu >= used.cpu
                                        /\ v.memory = 0 \/ v.memory >= used.memory
<1> DEFINE a == ToActivePolicy(s, up, p.method, hard, used)
           t == ActivatePolicy(s, up, p, hard, used)
           v == ActivateScalerPolicy(s, p, up, hard, used)
<1>1. p.method \in STRING /\ p.value \in Nat
  BY DEF Policy
<1>2. /\ t \in Nat
      /\ up /\ t # 0 /\ t < a.maximum => t = a.limit
      /\ ~up /\ p.value = 100 /\ t # 0 => t >= a.used
  BY <1>1, PolicyResult
<1>3. /\ p.method = "cpu" => /\ a.maximum = hard.cpu /\ a.used = used.cpu
                             /\ a.limit = IF up THEN s.maxCpu ELSE s.minCpu
      /\ p.method = "memory" => /\ a.maximum = hard.memory /\ a.used = used.memory
                                /\ a.limit = IF up THEN s.maxMemory ELSE s.minMemory
      /\ p.method \notin {"cpu", "memory"} => t = 0
  BY <1>1, ActiveFields, NoOtherMethod
<1>4. v = IF p.method = "cpu" THEN [Nothing EXCEPT !.cpu = t] ELSE [Nothing EXCEPT !.memory = t]
  BY DEF ActivateScalerPolicy
<1> HIDE DEF a, t, v
<1>5. /\ v \in Quantities
      /\ v.cpu = IF p.method = "cpu" THEN t ELSE 0
      /\ v.memory = IF p.method = "cpu" THEN 0 ELSE t
  BY <1>2, <1>4 DEF Nothing, Quantities
<1>6. hard \in [cpu : Nat, memory : Nat] /\ used \in [cpu : Nat, memory : Nat]
  BY DEF Quantities
<1> QED
  BY <1>2, <1>3, <1>5, <1>6 DEF v

-----------------------------------------------------------------------------
(* All policies. *)

\* A set of numbers up to n has a greatest one.
LEMMA Greatest ==
  ASSUME NEW n \in Nat, NEW I \in SUBSET (1..n), I # {}
  PROVE  \E i \in I : \A j \in I : j <= i
<1> DEFINE C == {n - i : i \in I}
<1>1. C \in SUBSET Nat /\ C # {}
  <2>1. \A i \in I : n - i \in Nat
    OBVIOUS
  <2>2. C # {}
    OBVIOUS
  <2> QED
    BY <2>1, <2>2
<1> HIDE DEF C
<1>2. PICK m \in C : \A k \in C : m <= k
  BY <1>1, LeastNatural
<1>3. PICK i \in I : m = n - i
  BY <1>2 DEF C
<1>4. \A j \in I : m <= n - j
  BY <1>2 DEF C
<1> QED
  BY <1>3, <1>4

\* Each resource keeps its value, or takes one that a policy asks for.
LEMMA Applied ==
  ASSUME NEW d \in Quantities, NEW asked, NEW n \in Nat, asked \in [1..n -> Quantities]
  PROVE  /\ ApplyPolicies(d, asked) \in Quantities
         /\ \A f \in {"cpu", "memory"} :
              \/ ApplyPolicies(d, asked)[f] = d[f]
              \/ \E i \in 1..n : asked[i][f] # 0 /\ ApplyPolicies(d, asked)[f] = asked[i][f]
<1> DEFINE r == ApplyPolicies(d, asked)
           asking(f) == {i \in DOMAIN asked : asked[i][f] # 0}
           last(f) == CHOOSE i \in asking(f) : \A j \in asking(f) : j <= i
<1>1. r = [f \in {"cpu", "memory"} |-> IF asking(f) = {} THEN d[f] ELSE asked[last(f)][f]]
  BY DEF ApplyPolicies
<1>2. ASSUME NEW f \in {"cpu", "memory"}, asking(f) # {}
      PROVE  last(f) \in asking(f)
  <2>1. asking(f) \in SUBSET (1..n)
    OBVIOUS
  <2> HIDE DEF asking
  <2> QED
    BY <1>2, <2>1, Greatest
<1> HIDE DEF r, last
<1>3. \A f \in {"cpu", "memory"} :
        \/ r[f] = d[f]
        \/ \E i \in 1..n : asked[i][f] # 0 /\ r[f] = asked[i][f]
  BY <1>1, <1>2
<1>4. \A i \in 1..n : asked[i] \in [{"cpu", "memory"} -> Nat]
  BY PairFields
<1>5. d \in [{"cpu", "memory"} -> Nat]
  BY PairFields
<1>6. r \in [{"cpu", "memory"} -> Nat]
  BY <1>1, <1>3, <1>4, <1>5
<1> QED
  BY <1>3, <1>6, PairFields DEF r

\* A specification whose quantities and percentages are naturals.
IsSpec(spec) ==
  /\ \A f \in DOMAIN Defaults : spec[f] \in Nat \cup {Unset}
  /\ spec.scaleDown \in Seq(Policy) /\ spec.scaleUp \in Seq(Policy)

\* The policies leave a pair.  When all that scale down are 100, a resource is
\* left at no less than it was or than what is used of it, or at its maximum.
LEMMA Desire ==
  ASSUME NEW spec, IsSpec(spec), NEW hard \in Quantities, NEW used \in Quantities
  PROVE  LET d == PolicyDesire(spec, hard, used)
             s == ValidateQuotaScaler(spec)
         IN  /\ d \in Quantities
             /\ (\A i \in DOMAIN spec.scaleDown : spec.scaleDown[i].value = 100) =>
                  /\ d.cpu >= hard.cpu \/ d.cpu >= used.cpu \/ d.cpu = s.maxCpu
                  /\ d.memory >= hard.memory \/ d.memory >= used.memory \/ d.memory = s.maxMemory
<1> DEFINE s == ValidateQuotaScaler(spec)
           A == AskedBy(spec.scaleDown, s, FALSE, hard, used)
           B == AskedBy(spec.scaleUp, s, TRUE, hard, used)
           down == ApplyPolicies(hard, A)
           d == ApplyPolicies(down, B)
           n == Len(spec.scaleDown)
           m == Len(spec.scaleUp)
<1>1. s \in Settings
  BY ValidatedSettings DEF IsSpec
<1>2. d = PolicyDesire(spec, hard, used)
  BY DEF PolicyDesire
<1>3. /\ n \in Nat /\ DOMAIN spec.scaleDown = 1..n
      /\ m \in Nat /\ DOMAIN spec.scaleUp = 1..m
      /\ \A i \in 1..n : spec.scaleDown[i] \in Policy
      /\ \A i \in 1..m : spec.scaleUp[i] \in Policy
  BY DEF IsSpec
<1> HIDE DEF s, n, m
<1>4. /\ A \in [1..n -> Quantities]
      /\ \A i \in 1..n : A[i] = ActivateScalerPolicy(s, spec.scaleDown[i], FALSE, hard, used)
  <2>1. \A i \in 1..n : ActivateScalerPolicy(s, spec.scaleDown[i], FALSE, hard, used) \in Quantities
    BY <1>1, <1>3, Asked
  <2> QED
    BY <1>3, <2>1 DEF AskedBy
<1>5. /\ B \in [1..m -> Quantities]
      /\ \A i \in 1..m : B[i] = ActivateScalerPolicy(s, spec.scaleUp[i], TRUE, hard, used)
  <2>1. \A i \in 1..m : ActivateScalerPolicy(s, spec.scaleUp[i], TRUE, hard, used) \in Quantities
    BY <1>1, <1>3, Asked
  <2> QED
    BY <1>3, <2>1 DEF AskedBy
<1> HIDE DEF A, B
<1>6. /\ down \in Quantities
      /\ \A f \in {"cpu", "memory"} :
           down[f] = hard[f] \/ \E i \in 1..n : A[i][f] # 0 /\ down[f] = A[i][f]
  BY <1>3, <1>4, Applied
<1> HIDE DEF down
<1>7. /\ d \in Quantities
      /\ \A f \in {"cpu", "memory"} :
           d[f] = down[f] \/ \E i \in 1..m : B[i][f] # 0 /\ d[f] = B[i][f]
  BY <1>3, <1>5, <1>6, Applied
<1> HIDE DEF d
<1>8. \A i \in 1..m : /\ B[i].cpu \in {0, s.maxCpu} \/ B[i].cpu >= hard.cpu
                      /\ B[i].memory \in {0, s.maxMemory} \/ B[i].memory >= hard.memory
  BY <1>1, <1>3, <1>5, Asked
<1>9. ASSUME \A i \in 1..n : spec.scaleDown[i].value = 100
      PROVE  \A i \in 1..n : /\ A[i].cpu = 0 \/ A[i].cpu >= used.cpu
                             /\ A[i].memory = 0 \/ A[i].memory >= used.memory
  <2> SUFFICES ASSUME NEW i \in 1..n
               PROVE  /\ A[i].cpu = 0 \/ A[i].cpu >= used.cpu
                      /\ A[i].memory = 0 \/ A[i].memory >= used.memory
    OBVIOUS
  <2> DEFINE p == spec.scaleDown[i]
  <2>1. p \in Policy /\ p.value = 100 /\ A[i] = ActivateScalerPolicy(s, p, FALSE, hard, used)
    BY <1>3, <1>4, <1>9
  <2> HIDE DEF p
  <2>2. LET v == ActivateScalerPolicy(s, p, FALSE, hard, used)
        IN  /\ v.cpu = 0 \/ v.cpu >= used.cpu
            /\ v.memory = 0 \/ v.memory >= used.memory
    BY <1>1, <2>1, Asked
  <2> QED
    BY <2>1, <2>2
<1>10. ASSUME \A i \in 1..n : spec.scaleDown[i].value = 100
       PROVE  d.cpu >= hard.cpu \/ d.cpu >= used.cpu \/ d.cpu = s.maxCpu
  <2>1. down.cpu = hard.cpu \/ down.cpu >= used.cpu
    BY <1>4, <1>6, <1>9, <1>10, PairFields
  <2>2. d.cpu = down.cpu \/ \E i \in 1..m : B[i].cpu # 0 /\ d.cpu = B[i].cpu
    BY <1>5, <1>6, <1>7, PairFields
  <2> QED
    BY <1>6, <1>7, <1>8, <2>1, <2>2, PairFields
<1>11. ASSUME \A i \in 1..n : spec.scaleDown[i].value = 100
       PROVE  d.memory >= hard.memory \/ d.memory >= used.memory \/ d.memory = s.maxMemory
  <2>1. down.memory = hard.memory \/ down.memory >= used.memory
    BY <1>4, <1>6, <1>9, <1>11, PairFields
  <2>2. d.memory = down.memory \/ \E i \in 1..m : B[i].memory # 0 /\ d.memory = B[i].memory
    BY <1>5, <1>6, <1>7, PairFields
  <2> QED
    BY <1>6, <1>7, <1>8, <2>1, <2>2, PairFields
<1> QED
  BY <1>2, <1>3, <1>7, <1>10, <1>11 DEF s

-----------------------------------------------------------------------------
(* UpdateQuotaIfRequired. *)

\* Nothing of what is used is lost when it is normalised.
LEMMA Normalized ==
  ASSUME NEW u \in [{"cpu", "cpuLimit", "memory"} -> Nat]
  PROVE  /\ NormalizedUsed(u) \in Quantities
         /\ NormalizedUsed(u).cpu >= u.cpu
         /\ 10 * NormalizedUsed(u).memory >= u.memory
<1>1. u.cpu \in Nat /\ u.cpuLimit \in Nat /\ u.memory \in Nat
  OBVIOUS
<1>2. \A x, y \in Nat : /\ GetNormalizedUsedCpu(x, y) \in Nat
                        /\ GetNormalizedUsedCpu(x, y) >= x
                        /\ ScaledMega(x) \in Nat
                        /\ 10 * ScaledMega(x) >= x
  BY DEF GetNormalizedUsedCpu, ScaledMega, REQ_LIM_RATIO, Larger
<1> QED
  BY <1>1, <1>2 DEF NormalizedUsed, Quantities

\* Events of refused pods only raise what is desired, above what is used.
LEMMA EventsRaise ==
  ASSUME NEW d \in Quantities, NEW used \in Quantities, NEW sum \in Quantities
  PROVE  LET w == WithEvents(d, used, sum)
         IN  /\ w \in Quantities
             /\ w.cpu >= d.cpu /\ w.memory >= d.memory
             /\ sum.cpu # 0 \/ sum.memory # 0 =>
                  w.cpu >= used.cpu + sum.cpu /\ w.memory >= used.memory + sum.memory
  BY PairFields DEF WithEvents, AtLeast, Add, Larger, Quantities

\* The maximum of the scaler is reached, or the value is between its bounds and
\* no less than what was asked for.
LEMMA Bounded ==
  ASSUME NEW w \in Quantities, NEW b \in Settings
  PROVE  LET r == WithinBounds(w, b)
         IN  /\ r \in Quantities
             /\ r.cpu = b.maxCpu \/ (r.cpu \in b.minCpu..b.maxCpu /\ r.cpu >= w.cpu)
             /\ r.memory = b.maxMemory
                \/ (r.memory \in b.minMemory..b.maxMemory /\ r.memory >= w.memory)
<1>1. /\ w.cpu \in Nat /\ w.memory \in Nat /\ w["cpu"] = w.cpu /\ w["memory"] = w.memory
      /\ b.minCpu \in Nat /\ b.maxCpu \in Nat /\ b.minMemory \in Nat /\ b.maxMemory \in Nat
  BY DEF Quantities, Settings
<1> QED
  BY <1>1 DEF WithinBounds, Limit, AtLeast, Larger, Smaller, Quantities

\* A resource is left alone rather than lowered while the other one is raised.
LEMMA Forced ==
  ASSUME NEW w \in Quantities, NEW hard \in Quantities
  PROVE  LET r == ForceNoScaleDownWhenScaleUp(w, hard)
         IN  /\ r \in Quantities
             /\ r.cpu = w.cpu \/ (r.cpu = hard.cpu /\ r.cpu > w.cpu)
             /\ r.memory = w.memory \/ (r.memory = hard.memory /\ r.memory > w.memory)
             /\ r.cpu > hard.cpu => r.memory >= hard.memory
             /\ r.memory > hard.memory => r.cpu >= hard.cpu
  BY DEF ForceNoScaleDownWhenScaleUp, Larger, Quantities

\* The size UpdateQuotaIfRequired compares the quota with.
DesiredSize(hard, u, spec, sum) ==
  LET used == NormalizedUsed(u)
      wanted == WithEvents(PolicyDesire(spec, hard, used), used, sum)
      bounded == WithinBounds(wanted, ForceLimitToDefaultMax(ValidateQuotaScaler(spec)))
  IN  ForceNoScaleDownWhenScaleUp(bounded, hard)

\* UpdateQuotaIfRequired asks for that size, or for nothing when the quota has it.
LEMMA Update ==
  ASSUME NEW hard, NEW u, NEW status, NEW spec, NEW sum
  PROVE  LET d == DesiredSize(hard, u, spec, sum)
         IN  UpdateQuotaIfRequired([hard |-> hard, used |-> u, status |-> status], spec, sum)
               = IF status /\ DiffersFrom(d, hard) THEN d ELSE NoResize
  BY DEF UpdateQuotaIfRequired, DesiredSize

\* What holds of it: it does not raise one resource and lower the other, and
\* leaves each as it is, at its maximum or between its bounds;
GoodSize(r, hard, b) ==
  /\ r \in Quantities
  /\ r.cpu > hard.cpu => r.memory >= hard.memory
  /\ r.memory > hard.memory => r.cpu >= hard.cpu
  /\ r.cpu \in {hard.cpu, b.maxCpu} \/ r.cpu \in b.minCpu..b.maxCpu
  /\ r.memory \in {hard.memory, b.maxMemory} \/ r.memory \in b.minMemory..b.maxMemory

\* policies of 100 take nothing away that is used;
KeepsUse(r, hard, used, b) ==
  /\ r.cpu >= hard.cpu \/ r.cpu >= used.cpu \/ r.cpu = b.maxCpu
  /\ r.memory >= hard.memory \/ r.memory >= used.memory \/ r.memory = b.maxMemory

\* and what refused pods need fits beside what is used.
MakesRoom(r, used, sum, b) ==
  sum.cpu # 0 \/ sum.memory # 0 =>
    /\ r.cpu >= used.cpu + sum.cpu \/ r.cpu >= b.maxCpu
    /\ r.memory >= used.memory + sum.memory \/ r.memory >= b.maxMemory

\* Every scale down policy is one of 100.
AllFull(spec) == \A i \in DOMAIN spec.scaleDown : spec.scaleDown[i].value = 100

\* The size that UpdateQuotaIfRequired asks for is good, and keeps and covers what
\* it should.
LEMMA Evaluated ==
  ASSUME NEW spec, IsSpec(spec), NEW hard \in Quantities, NEW sum \in Quantities,
         NEW u \in [{"cpu", "cpuLimit", "memory"} -> Nat]
  PROVE  LET r == DesiredSize(hard, u, spec, sum)
             b == ForceLimitToDefaultMax(ValidateQuotaScaler(spec))
         IN  /\ GoodSize(r, hard, b)
             /\ AllFull(spec) => KeepsUse(r, hard, NormalizedUsed(u), b)
             /\ MakesRoom(r, NormalizedUsed(u), sum, b)
<1> DEFINE s == ValidateQuotaScaler(spec)
           b == ForceLimitToDefaultMax(s)
           used == NormalizedUsed(u)
           d == PolicyDesire(spec, hard, used)
           w == WithEvents(d, used, sum)
           x == WithinBounds(w, b)
           r == ForceNoScaleDownWhenScaleUp(x, hard)
           Full == AllFull(spec)
<1>1. r = DesiredSize(hard, u, spec, sum)
  BY DEF DesiredSize
<1>2. /\ s \in Settings /\ b \in Settings
      /\ b.maxCpu <= s.maxCpu /\ b.maxMemory <= s.maxMemory
  BY ValidatedSettings DEF IsSpec
<1>3. used \in Quantities
  BY Normalized
<1> HIDE DEF used
<1>4. /\ d \in Quantities
      /\ Full => /\ d.cpu >= hard.cpu \/ d.cpu >= used.cpu \/ d.cpu = s.maxCpu
                 /\ d.memory >= hard.memory \/ d.memory >= used.memory \/ d.memory = s.maxMemory
  BY <1>3, Desire DEF AllFull
<1> HIDE DEF s, b, d, Full
<1>5. /\ w \in Quantities
      /\ w.cpu >= d.cpu /\ w.memory >= d.memory
      /\ sum.cpu # 0 \/ sum.memory # 0 =>
           w.cpu >= used.cpu + sum.cpu /\ w.memory >= used.memory + sum.memory
  BY <1>3, <1>4, EventsRaise
<1> HIDE DEF w
<1>6. /\ x \in Quantities
      /\ x.cpu = b.maxCpu \/ (x.cpu \in b.minCpu..b.maxCpu /\ x.cpu >= w.cpu)
      /\ x.memory = b.maxMemory \/ (x.memory \in b.minMemory..b.maxMemory /\ x.memory >= w.memory)
  BY <1>2, <1>5, Bounded
<1> HIDE DEF x
<1>7. /\ r \in Quantities
      /\ r.cpu = x.cpu \/ (r.cpu = hard.cpu /\ r.cpu > x.cpu)
      /\ r.memory = x.memory \/ (r.memory = hard.memory /\ r.memory > x.memory)
      /\ r.cpu > hard.cpu => r.memory >= hard.memory
      /\ r.memory > hard.memory => r.cpu >= hard.cpu
  BY <1>6, Forced
<1> HIDE DEF r
<1>8. /\ \A p \in {hard, used, d, w, x, r, sum} : p.cpu \in Nat /\ p.memory \in Nat
      /\ s.maxCpu \in Nat /\ s.maxMemory \in Nat /\ b.minCpu \in Nat /\ b.minMemory \in Nat
      /\ b.maxCpu \in Nat /\ b.maxMemory \in Nat
  BY <1>2, <1>3, <1>4, <1>5, <1>6, <1>7 DEF Quantities, Settings
<1>9. /\ r.cpu \in {hard.cpu, b.maxCpu} \/ r.cpu \in b.minCpu..b.maxCpu
      /\ r.memory \in {hard.memory, b.maxMemory} \/ r.memory \in b.minMemory..b.maxMemory
  BY <1>6, <1>7
<1>10. ASSUME Full
       PROVE  /\ r.cpu >= hard.cpu \/ r.cpu >= used.cpu \/ r.cpu = b.maxCpu
              /\ r.memory >= hard.memory \/ r.memory >= used.memory \/ r.memory = b.maxMemory
  BY <1>2, <1>4, <1>5, <1>6, <1>7, <1>8, <1>10
<1>11. ASSUME sum.cpu # 0 \/ sum.memory # 0
       PROVE  /\ r.cpu >= used.cpu + sum.cpu \/ r.cpu >= b.maxCpu
              /\ r.memory >= used.memory + sum.memory \/ r.memory >= b.maxMemory
  BY <1>5, <1>6, <1>7, <1>8, <1>11
<1> QED
  BY <1>1, <1>7, <1>9, <1>10, <1>11 DEF s, b, used, Full, GoodSize, KeepsUse, MakesRoom

\* And it asks for no more than the quota has, than what is used and refused, than
\* the policies desire or than the minimum.
LEMMA Frugal ==
  ASSUME NEW spec, IsSpec(spec), NEW hard \in Quantities, NEW sum \in Quantities,
         NEW u \in [{"cpu", "cpuLimit", "memory"} -> Nat]
  PROVE  LET r == DesiredSize(hard, u, spec, sum)
             used == NormalizedUsed(u)
             least == ForceLimitToDefaultMax(ValidateQuotaScaler(spec))
         IN  /\ \/ r.cpu <= hard.cpu
                \/ r.cpu <= used.cpu + sum.cpu
                \/ r.cpu <= PolicyDesire(spec, hard, used).cpu
                \/ r.cpu <= least.minCpu
             /\ \/ r.memory <= hard.memory
                \/ r.memory <= used.memory + sum.memory
                \/ r.memory <= PolicyDesire(spec, hard, used).memory
                \/ r.memory <= least.minMemory
<1> DEFINE b == ForceLimitToDefaultMax(ValidateQuotaScaler(spec))
           used == NormalizedUsed(u)
           d == PolicyDesire(spec, hard, used)
           w == WithEvents(d, used, sum)
           x == WithinBounds(w, b)
           r == ForceNoScaleDownWhenScaleUp(x, hard)
<1>1. r = DesiredSize(hard, u, spec, sum)
  BY DEF DesiredSize
<1>2. b \in Settings /\ used \in Quantities
  BY ValidatedSettings, Normalized DEF IsSpec
<1> HIDE DEF b, used
<1>3. d \in Quantities
  BY <1>2, Desire
<1> HIDE DEF d
<1>4. /\ w \in Quantities
      /\ w.cpu \in {d.cpu, used.cpu + sum.cpu}
      /\ w.memory \in {d.memory, used.memory + sum.memory}
  BY <1>2, <1>3, EventsRaise, PairFields DEF WithEvents, AtLeast, Add, Larger
<1> HIDE DEF w
<1>5. x \in Quantities
  BY <1>2, <1>4, Bounded
<1>6. /\ x.cpu <= w.cpu \/ x.cpu <= b.minCpu
      /\ x.memory <= w.memory \/ x.memory <= b.minMemory
  <2>1. /\ w.cpu \in Nat /\ w["cpu"] = w.cpu /\ w.memory \in Nat /\ w["memory"] = w.memory
        /\ b.minCpu \in Nat /\ b.maxCpu \in Nat /\ b.minMemory \in Nat /\ b.maxMemory \in Nat
    BY <1>2, <1>4 DEF Quantities, Settings
  <2>2. /\ x.cpu = Smaller(Larger(w.cpu, b.minCpu), b.maxCpu)
        /\ x.memory = Smaller(Larger(w.memory, b.minMemory), b.maxMemory)
    BY <2>1 DEF WithinBounds, Limit, AtLeast
  <2> HIDE DEF x
  <2> QED
    BY <2>1, <2>2 DEF Smaller, Larger
<1> HIDE DEF x
<1>7. r.cpu \in {x.cpu, hard.cpu} /\ r.memory \in {x.memory, hard.memory}
  BY <1>5, Forced
<1> HIDE DEF r
<1>8. /\ x.cpu \in Nat /\ w.cpu \in Nat /\ hard.cpu \in Nat /\ b.minCpu \in Nat
      /\ x.memory \in Nat /\ w.memory \in Nat /\ hard.memory \in Nat /\ b.minMemory \in Nat
  BY <1>2, <1>4, <1>5 DEF Quantities, Settings
<1>9. /\ \/ r.cpu <= hard.cpu
         \/ r.cpu <= used.cpu + sum.cpu
         \/ r.cpu <= d.cpu
         \/ r.cpu <= b.minCpu
      /\ \/ r.memory <= hard.memory
         \/ r.memory <= used.memory + sum.memory
         \/ r.memory <= d.memory
         \/ r.memory <= b.minMemory
  BY <1>4, <1>6, <1>7, <1>8
<1> QED
  BY <1>1, <1>9 DEF b, used, d

-----------------------------------------------------------------------------
(* Up and down. *)

\* Division by a positive number.
LEMMA Division ==
  ASSUME NEW a \in Nat, NEW t \in Nat, t # 0
  PROVE  /\ a \div t \in Nat /\ a % t \in Nat /\ a % t < t
         /\ a = t * (a \div t) + (a % t)
<1>1. a \div t \in Nat
  BY Z3
<1>2. a % t \in Nat /\ a % t < t
  BY Z3
<1>3. a = t * (a \div t) + (a % t)
  OBVIOUS
<1> QED
  BY <1>1, <1>2, <1>3

\* The truncated product is the quotient rounded down, or one less when there is
\* nothing to round: more than n times the divisor is enough for n.
LEMMA TruncatedBounds ==
  ASSUME NEW p \in Nat, NEW t \in Nat, NEW c \in Nat, t # 0
  PROVE  /\ TruncatedProduct(p, t, c) \in Nat
         /\ t * TruncatedProduct(p, t, c) <= p * c
         /\ \A n \in Nat : t * n < p * c => n <= TruncatedProduct(p, t, c)
<1> DEFINE v == TruncatedProduct(p, t, c)
           a == p * c
           k == a \div t
           m == a % t
<1>1. a \in Nat
  OBVIOUS
<1>2. v \in Nat
  BY TruncatedNat
<1>3. v = k \/ (m = 0 /\ v = k - 1)
  BY DEF TruncatedProduct
<1> HIDE DEF v, a
<1>4. k \in Nat /\ m \in Nat /\ m < t /\ a = t * k + m
  BY <1>1, Division
<1> HIDE DEF k, m
<1>5. \A x, y \in Nat : x <= y => t * x <= t * y
  <2> SUFFICES ASSUME NEW x \in Nat, NEW y \in Nat, x <= y
               PROVE  t * x <= t * y
    OBVIOUS
  <2>1. PICK e \in Nat : y = x + e
    <3>1. y - x \in Nat /\ y = x + (y - x)
      OBVIOUS
    <3> QED
      BY <3>1
  <2>2. t * y = t * x + t * e /\ t * e \in Nat
    BY <2>1
  <2> QED
    BY <2>2
<1>6. t * v <= a
  <2>1. v <= k
    BY <1>2, <1>3, <1>4
  <2>2. t * v <= t * k /\ t * v \in Nat /\ t * k \in Nat
    BY <1>2, <1>4, <1>5, <2>1
  <2> QED
    BY <1>4, <2>2
<1>7. ASSUME NEW n \in Nat, t * n < a
      PROVE  n <= v
  <2>1. CASE n <= k /\ n # k
    BY <1>2, <1>3, <1>4, <2>1
  <2>2. CASE n = k
    BY <1>2, <1>3, <1>4, <1>7, <2>2
  <2>3. CASE n > k
    <3>1. k + 1 <= n /\ k + 1 \in Nat
      BY <1>4, <2>3
    <3>2. t * (k + 1) <= t * n
      BY <1>5, <3>1
    <3>3. t * (k + 1) = t * k + t /\ t * k \in Nat /\ t * n \in Nat
      BY <1>4
    <3> QED
      BY <1>1, <1>4, <1>7, <3>2, <3>3
  <2> QED
    BY <1>4, <2>1, <2>2, <2>3
<1> QED
  BY <1>2, <1>6, <1>7 DEF v, a

\* A multiple of more is not less.
LEMMA TimesMonotone ==
  ASSUME NEW t \in Nat, NEW x \in Nat, NEW y \in Nat, x <= y
  PROVE  /\ t * x \in Nat /\ t * y \in Nat /\ t * x <= t * y
         /\ x * t \in Nat /\ y * t \in Nat /\ x * t <= y * t
<1>1. PICK e \in Nat : y = x + e
  <2>1. y - x \in Nat /\ y = x + (y - x)
    OBVIOUS
  <2> QED
    BY <2>1
<1>2. t * y = t * x + t * e /\ t * e \in Nat /\ t * x \in Nat
  BY <1>1
<1>3. t * x = x * t /\ t * y = y * t
  OBVIOUS
<1> QED
  BY <1>2, <1>3

\* A scale up from c, at a use of p percent beyond the threshold t, does not go so
\* far that the use is at the threshold d or less: w is what the policy wants, r
\* is no more than that or than the minimal step.
LEMMA NoOvershoot ==
  ASSUME NEW c \in Nat, NEW used \in Nat, NEW p \in Nat, NEW t \in Nat, NEW d \in Nat,
         NEW w \in Nat, NEW step \in Nat, NEW r \in Nat,
         c * p <= used * 100, t * w <= p * c, p > t, d < t,
         d * (c + step) < (t + 1) * c,
         r > 0, r <= w \/ r <= c + step
  PROVE  r * d < used * 100
<1>1. p * c = c * p /\ p * c \in Nat /\ r * d = d * r /\ d * r \in Nat /\ used * 100 \in Nat
  OBVIOUS
<1>2. CASE r <= w
  <2>1. t * r <= t * w /\ t * r \in Nat /\ t * w \in Nat
    BY <1>2, TimesMonotone
  <2>2. (d + 1) * r <= t * r
    BY TimesMonotone
  <2>3. (d + 1) * r = d * r + r
    OBVIOUS
  <2> QED
    BY <1>1, <2>1, <2>2, <2>3
<1>3. CASE r <= c + step
  <2>1. d * r <= d * (c + step) /\ d * (c + step) \in Nat
    BY <1>3, TimesMonotone
  <2>2. (t + 1) * c <= p * c /\ (t + 1) * c \in Nat
    BY TimesMonotone
  <2> QED
    BY <1>1, <2>1, <2>2
<1> QED
  BY <1>2, <1>3

\* The bounds of a resource, and its minimal step.
Top(s, f) == [cpu |-> s.maxCpu, memory |-> s.maxMemory][f]

Bottom(s, f) == [cpu |-> s.minCpu, memory |-> s.minMemory][f]

Step(s, f) == [cpu |-> s.minCpuStep, memory |-> s.minMemoryStep][f]

\* What a policy of a resource measures, and against what.
Measures(a, s, up, f, hard, used) ==
  /\ a \in Active
  /\ a.maximum = hard[f] /\ a.used = used[f] /\ a.minStep = Step(s, f)
  /\ up => a.limit = Top(s, f)
  /\ ~up => a.limit = Bottom(s, f)
  /\ a.percentage = IF hard[f] = 0 THEN 0 ELSE TruncatedProduct(used[f], hard[f], 100)

\* Every policy of that resource does.
LEMMA ActiveOf ==
  ASSUME NEW s \in Settings, NEW up \in BOOLEAN, NEW f \in {"cpu", "memory"},
         NEW p \in Policy, p.method = f, NEW hard \in Quantities, NEW used \in Quantities
  PROVE  Measures(ToActivePolicy(s, up, p.method, hard, used), s, up, f, hard, used)
<1> DEFINE a == ToActivePolicy(s, up, p.method, hard, used)
<1>1. p.method \in STRING
  BY DEF Policy
<1>2. a \in Active
  BY <1>1, ActiveFields
<1>3. CASE f = "cpu"
  BY <1>2, <1>3, PairFields DEF ToActivePolicy, ActivePolicy, Top, Bottom, Step, Measures
<1>4. CASE f = "memory"
  BY <1>2, <1>4, PairFields DEF ToActivePolicy, ActivePolicy, Top, Bottom, Step, Measures
<1> QED
  BY <1>3, <1>4

\* A resource is measured in naturals.
LEMMA ResourceNat ==
  ASSUME NEW s \in Settings, NEW f \in {"cpu", "memory"}, NEW r \in Quantities
  PROVE  r[f] \in Nat /\ Top(s, f) \in Nat /\ Bottom(s, f) \in Nat /\ Step(s, f) \in Nat
<1>1. r[f] \in Nat
  BY PairFields
<1>2. Top(s, f) \in Nat /\ Bottom(s, f) \in Nat /\ Step(s, f) \in Nat
  BY DEF Settings, Top, Bottom, Step
<1> QED
  BY <1>1, <1>2

\* Only a policy of the resource asks for some of it.
AsksFor(v, s, up, p, f, hard, used) ==
  v[f] # 0 => p.method = f /\ v[f] = ActivatePolicy(s, up, p, hard, used)

\* So it is.
LEMMA AskedField ==
  ASSUME NEW s \in Settings, NEW up \in BOOLEAN, NEW p \in Policy,
         NEW f \in {"cpu", "memory"}, NEW hard \in Quantities, NEW used \in Quantities
  PROVE  AsksFor(ActivateScalerPolicy(s, p, up, hard, used), s, up, p, f, hard, used)
<1> DEFINE t == ActivatePolicy(s, up, p, hard, used)
           v == ActivateScalerPolicy(s, p, up, hard, used)
<1>1. p.method \notin {"cpu", "memory"} => t = 0
  BY NoOtherMethod
<1>2. v = IF p.method = "cpu" THEN [Nothing EXCEPT !.cpu = t] ELSE [Nothing EXCEPT !.memory = t]
  BY DEF ActivateScalerPolicy
<1> HIDE DEF t, v
<1>3. /\ v["cpu"] = IF p.method = "cpu" THEN t ELSE 0
      /\ v["memory"] = IF p.method = "cpu" THEN 0 ELSE t
  BY <1>2 DEF Nothing
<1> QED
  BY <1>1, <1>3 DEF t, v, AsksFor

\* What a policy scales up to from c at a use above its threshold t: no more than
\* the use divided by the threshold, or than the minimal step away.
Reaches(v, t, c, used, step) ==
  \E u, w \in Nat : /\ c * u <= used * 100 /\ t * w <= u * c /\ u > t
                    /\ v <= w \/ v <= c + step

\* The use is above the threshold when a policy asks for anything.
LEMMA ScaledUp ==
  ASSUME NEW s \in Settings, NEW f \in {"cpu", "memory"}, NEW p \in Policy, p.method = f,
         NEW hard \in Quantities, NEW used \in Quantities, p.value # 0,
         ActivatePolicy(s, TRUE, p, hard, used) # 0
  PROVE  Reaches(ActivatePolicy(s, TRUE, p, hard, used), p.value, hard[f], used[f], Step(s, f))
<1> DEFINE a == ToActivePolicy(s, TRUE, p.method, hard, used)
           u == a.percentage
           t == p.value
           c == hard[f]
           w == TruncatedProduct(u, t, c)
           v == ActivatePolicy(s, TRUE, p, hard, used)
<1>1. /\ a \in Active /\ a.maximum = c /\ a.minStep = Step(s, f)
      /\ u = IF c = 0 THEN 0 ELSE TruncatedProduct(used[f], c, 100)
  <2>1. Measures(a, s, TRUE, f, hard, used)
    BY ActiveOf
  <2> HIDE DEF a
  <2> QED
    BY <2>1 DEF Measures
<1>2. /\ c \in Nat /\ used[f] \in Nat /\ Step(s, f) \in Nat
  BY ResourceNat
<1>3. t \in Nat /\ t # 0 /\ u \in Nat
  BY <1>1 DEF Policy, Active
<1>4. /\ u > t
      /\ v = CalculateScaleUp(a, t)
  BY <1>1, <1>3 DEF ActivatePolicy
<1>5. w \in Nat /\ t * w <= u * c
  BY <1>2, <1>3, TruncatedBounds
<1>6. v <= w \/ v <= c + Step(s, f)
  <2>1. a.limit \in Nat /\ a.maxStep \in Nat
    BY <1>1 DEF Active
  <2>2. v = Smaller(Larger(w, c + Step(s, f)), Smaller(a.limit, c + a.maxStep))
    BY <1>1, <1>4 DEF CalculateScaleUp
  <2> HIDE DEF a, u, t, c, w, v
  <2> QED
    BY <1>2, <1>5, <2>1, <2>2 DEF Larger, Smaller
<1>7. c * u <= used[f] * 100
  <2> HIDE DEF a, u, t, c, w, v
  <2>1. c # 0 /\ u = TruncatedProduct(used[f], c, 100)
    BY <1>1, <1>3, <1>4
  <2> QED
    BY <1>2, <2>1, TruncatedBounds
<1> HIDE DEF a, u, t, c, w, v
<1>8. /\ c * u <= used[f] * 100 /\ t * w <= u * c /\ u > t
      /\ v <= w \/ v <= c + Step(s, f)
  BY <1>4, <1>5, <1>6, <1>7
<1> QED
  BY <1>3, <1>5, <1>8 DEF t, c, v, Reaches

\* What a policy below 100 scales down to is not above what there is, but to reach
\* the minimum; and it leaves a use at its threshold alone.
LEMMA ScaledDown ==
  ASSUME NEW s \in Settings, NEW f \in {"cpu", "memory"}, NEW p \in Policy, p.method = f,
         NEW hard \in Quantities, NEW used \in Quantities, p.value # 100
  PROVE  LET v == ActivatePolicy(s, FALSE, p, hard, used)
         IN  /\ v <= hard[f] \/ v <= Bottom(s, f)
             /\ hard[f] # 0 /\ hard[f] * p.value < used[f] * 100 => v = 0
<1> DEFINE a == ToActivePolicy(s, FALSE, p.method, hard, used)
           u == a.percentage
           t == p.value
           c == hard[f]
           w == TruncatedProduct(u, t, c)
           v == ActivatePolicy(s, FALSE, p, hard, used)
<1>1. /\ a \in Active /\ a.maximum = c /\ a.limit = Bottom(s, f)
      /\ u = IF c = 0 THEN 0 ELSE TruncatedProduct(used[f], c, 100)
  <2>1. Measures(a, s, FALSE, f, hard, used)
    BY ActiveOf
  <2> HIDE DEF a
  <2> QED
    BY <2>1 DEF Measures
<1>2. c \in Nat /\ used[f] \in Nat /\ Bottom(s, f) \in Nat
  BY ResourceNat
<1>3. t \in Nat /\ t # 100 /\ u \in Nat
  BY <1>1 DEF Policy, Active
<1>4. v = IF u < t THEN CalculateScaleDown(a, t) ELSE 0
  BY <1>1, <1>3 DEF ActivatePolicy
<1>5. w \in Int
  BY <1>2, <1>3, TruncatedNat
<1>6. v <= c \/ v <= Bottom(s, f)
  <2>1. a.minStep \in Nat /\ a.maxStep \in Nat
    BY <1>1 DEF Active
  <2>2. CalculateScaleDown(a, t) =
          Larger(Smaller(w, c - a.minStep), Larger(Bottom(s, f), c - a.maxStep))
    BY <1>1 DEF CalculateScaleDown
  <2> HIDE DEF a, u, t, c, w, v
  <2> QED
    BY <1>2, <1>4, <1>5, <2>1, <2>2 DEF Larger, Smaller
<1>7. ASSUME c # 0, c * t < used[f] * 100
      PROVE  v = 0
  <2>1. u = TruncatedProduct(used[f], c, 100)
    BY <1>1, <1>7
  <2> HIDE DEF a, u, t, c, w, v
  <2>2. t <= u
    BY <1>2, <1>3, <1>7, <2>1, TruncatedBounds
  <2> QED
    BY <1>3, <1>4, <2>2
<1> QED
  BY <1>6, <1>7

\* What the policies leave of a resource comes from one of them, of that resource.
LeftBy(v, policies, s, up, f, hard, used) ==
  \E i \in DOMAIN policies :
    /\ policies[i] \in Policy /\ policies[i].method = f
    /\ v # 0 /\ v = ActivatePolicy(s, up, policies[i], hard, used)

\* It does, unless it is what there was.
LEMMA DesireField ==
  ASSUME NEW spec, IsSpec(spec), NEW hard \in Quantities, NEW used \in Quantities,
         NEW f \in {"cpu", "memory"}
  PROVE  LET v == PolicyDesire(spec, hard, used)[f]
             s == ValidateQuotaScaler(spec)
         IN  \/ v = hard[f]
             \/ LeftBy(v, spec.scaleDown, s, FALSE, f, hard, used)
             \/ LeftBy(v, spec.scaleUp, s, TRUE, f, hard, used)
<1> DEFINE s == ValidateQuotaScaler(spec)
           A == AskedBy(spec.scaleDown, s, FALSE, hard, used)
           B == AskedBy(spec.scaleUp, s, TRUE, hard, used)
           down == ApplyPolicies(hard, A)
           d == ApplyPolicies(down, B)
           n == Len(spec.scaleDown)
           m == Len(spec.scaleUp)
<1>1. s \in Settings
  BY ValidatedSettings DEF IsSpec
<1>2. d = PolicyDesire(spec, hard, used)
  BY DEF PolicyDesire
<1>3. /\ n \in Nat /\ DOMAIN spec.scaleDown = 1..n
      /\ m \in Nat /\ DOMAIN spec.scaleUp = 1..m
      /\ \A i \in 1..n : spec.scaleDown[i] \in Policy
      /\ \A i \in 1..m : spec.scaleUp[i] \in Policy
  BY DEF IsSpec
<1> HIDE DEF s, n, m
<1>4. /\ A \in [1..n -> Quantities]
      /\ \A i \in 1..n : A[i] = ActivateScalerPolicy(s, spec.scaleDown[i], FALSE, hard, used)
  <2>1. \A i \in 1..n : ActivateScalerPolicy(s, spec.scaleDown[i], FALSE, hard, used) \in Quantities
    BY <1>1, <1>3, Asked
  <2> QED
    BY <1>3, <2>1 DEF AskedBy
<1>5. /\ B \in [1..m -> Quantities]
      /\ \A i \in 1..m : B[i] = ActivateScalerPolicy(s, spec.scaleUp[i], TRUE, hard, used)
  <2>1. \A i \in 1..m : ActivateScalerPolicy(s, spec.scaleUp[i], TRUE, hard, used) \in Quantities
    BY <1>1, <1>3, Asked
  <2> QED
    BY <1>3, <2>1 DEF AskedBy
<1> HIDE DEF A, B
<1>6. /\ down \in Quantities
      /\ down[f] = hard[f] \/ \E i \in 1..n : A[i][f] # 0 /\ down[f] = A[i][f]
  BY <1>3, <1>4, Applied
<1> HIDE DEF down
<1>7. d[f] = down[f] \/ \E i \in 1..m : B[i][f] # 0 /\ d[f] = B[i][f]
  BY <1>3, <1>5, <1>6, Applied
<1> HIDE DEF d
<1>8. ASSUME NEW i \in 1..n, A[i][f] # 0
      PROVE  LeftBy(A[i][f], spec.scaleDown, s, FALSE, f, hard, used)
  <2> DEFINE p == spec.scaleDown[i]
  <2>1. p \in Policy /\ A[i] = ActivateScalerPolicy(s, p, FALSE, hard, used)
    BY <1>3, <1>4
  <2> HIDE DEF p
  <2>2. AsksFor(A[i], s, FALSE, p, f, hard, used)
    BY <1>1, <2>1, AskedField
  <2> QED
    BY <1>3, <1>8, <2>1, <2>2 DEF AsksFor, LeftBy, p
<1>9. ASSUME NEW i \in 1..m, B[i][f] # 0
      PROVE  LeftBy(B[i][f], spec.scaleUp, s, TRUE, f, hard, used)
  <2> DEFINE p == spec.scaleUp[i]
  <2>1. p \in Policy /\ B[i] = ActivateScalerPolicy(s, p, TRUE, hard, used)
    BY <1>3, <1>5
  <2> HIDE DEF p
  <2>2. AsksFor(B[i], s, TRUE, p, f, hard, used)
    BY <1>1, <2>1, AskedField
  <2> QED
    BY <1>3, <1>9, <2>1, <2>2 DEF AsksFor, LeftBy, p
<1> QED
  BY <1>2, <1>6, <1>7, <1>8, <1>9 DEF s

\* From what the policies leave to the size: bounded, or left alone for the sake
\* of the other resource.
Sizes(v, d, c, b, f) ==
  /\ v \in Nat
  /\ v = c \/ v <= d \/ v <= Bottom(b, f)
  /\ v = c \/ v <= Top(b, f)
  /\ v >= Top(b, f) \/ (v >= d /\ v >= Bottom(b, f))

\* Without events, those are the only steps.
LEMMA SizeField ==
  ASSUME NEW spec, IsSpec(spec), NEW hard \in Quantities,
         NEW u \in [{"cpu", "cpuLimit", "memory"} -> Nat], NEW f \in {"cpu", "memory"}
  PROVE  Sizes(DesiredSize(hard, u, spec, Nothing)[f],
               PolicyDesire(spec, hard, NormalizedUsed(u))[f], hard[f],
               ForceLimitToDefaultMax(ValidateQuotaScaler(spec)), f)
<1> DEFINE b == ForceLimitToDefaultMax(ValidateQuotaScaler(spec))
           used == NormalizedUsed(u)
           d == PolicyDesire(spec, hard, used)
           x == WithinBounds(d, b)
           r == ForceNoScaleDownWhenScaleUp(x, hard)
<1>1. r = DesiredSize(hard, u, spec, Nothing)
  BY DEF DesiredSize, WithEvents, Nothing
<1>2. b \in Settings /\ used \in Quantities
  BY ValidatedSettings, Normalized DEF IsSpec
<1> HIDE DEF b, used
<1>3. d \in Quantities
  BY <1>2, Desire
<1> HIDE DEF d
<1>4. x \in Quantities
  BY <1>2, <1>3, Bounded
<1>5. x[f] = Smaller(Larger(d[f], Bottom(b, f)), Top(b, f))
  BY DEF WithinBounds, Limit, AtLeast, Top, Bottom
<1> HIDE DEF x
<1>6. r[f] = x[f] \/ (r[f] = hard[f] /\ r[f] > x[f])
  <2>1. /\ r \in Quantities
        /\ r.cpu = x.cpu \/ (r.cpu = hard.cpu /\ r.cpu > x.cpu)
        /\ r.memory = x.memory \/ (r.memory = hard.memory /\ r.memory > x.memory)
    BY <1>4, Forced
  <2> HIDE DEF r
  <2> QED
    BY <1>4, <2>1, PairFields
<1>7. r \in Quantities
  BY <1>4, Forced
<1> HIDE DEF r
<1>8. /\ d[f] \in Nat /\ x[f] \in Nat /\ hard[f] \in Nat /\ r[f] \in Nat
      /\ Top(b, f) \in Nat /\ Bottom(b, f) \in Nat
  BY <1>2, <1>3, <1>4, <1>7, ResourceNat
<1>9. Sizes(r[f], d[f], hard[f], b, f)
  BY <1>5, <1>6, <1>8 DEF Sizes, Larger, Smaller
<1> QED
  BY <1>1, <1>9 DEF b, d, used

\* A policy that scales up goes to the maximum, or not down.
LEMMA UpField ==
  ASSUME NEW s \in Settings, NEW f \in {"cpu", "memory"}, NEW p \in Policy, p.method = f,
         NEW hard \in Quantities, NEW used \in Quantities,
         ActivatePolicy(s, TRUE, p, hard, used) # 0
  PROVE  \/ ActivatePolicy(s, TRUE, p, hard, used) >= hard[f]
         \/ ActivatePolicy(s, TRUE, p, hard, used) = Top(s, f)
<1> DEFINE a == ToActivePolicy(s, TRUE, p.method, hard, used)
           v == ActivatePolicy(s, TRUE, p, hard, used)
<1>1. a.maximum = hard[f] /\ a.limit = Top(s, f)
  <2>1. Measures(a, s, TRUE, f, hard, used)
    BY ActiveOf
  <2> HIDE DEF a
  <2> QED
    BY <2>1 DEF Measures
<1>2. v \in Nat /\ (v # 0 /\ v < a.maximum => v = a.limit)
  BY PolicyResult
<1>3. v # 0 /\ hard[f] \in Nat
  BY ResourceNat
<1> HIDE DEF a, v
<1>4. v >= hard[f] \/ v = Top(s, f)
  BY <1>1, <1>2, <1>3
<1> QED
  BY <1>4 DEF v

\* The bounds of the scaler with the default maxima imposed.
LEMMA BoundsField ==
  ASSUME NEW spec, IsSpec(spec), NEW f \in {"cpu", "memory"}
  PROVE  LET s == ValidateQuotaScaler(spec)
             b == ForceLimitToDefaultMax(s)
         IN  /\ Top(s, f) \in Nat /\ Bottom(s, f) \in Nat /\ Top(b, f) \in Nat
             /\ Top(b, f) <= Top(s, f) /\ Bottom(b, f) = Bottom(s, f)
<1> DEFINE s == ValidateQuotaScaler(spec)
           b == ForceLimitToDefaultMax(s)
<1>1. /\ s \in Settings /\ b \in Settings
      /\ b.maxCpu <= s.maxCpu /\ b.maxMemory <= s.maxMemory
      /\ b.minCpu = s.minCpu /\ b.minMemory = s.minMemory
  BY ValidatedSettings DEF IsSpec
<1> HIDE DEF s, b
<1>2. /\ Top(s, f) \in Nat /\ Bottom(s, f) \in Nat /\ Top(b, f) \in Nat
      /\ Top(b, f) <= Top(s, f) /\ Bottom(b, f) = Bottom(s, f)
  BY <1>1 DEF Top, Bottom, Settings
<1> QED
  BY <1>2 DEF s, b

\* The policies of a resource leave a band around what there is of it.
Apart(spec, c, f) ==
  \A i \in DOMAIN spec.scaleDown :
    LET p == spec.scaleDown[i]
    IN  p.method = f =>
          /\ p.value # 100
          /\ \A j \in DOMAIN spec.scaleUp :
               LET q == spec.scaleUp[j]
               IN  q.method = f =>
                     /\ p.value < q.value
                     /\ p.value * (c + Step(ValidateQuotaScaler(spec), f)) < (q.value + 1) * c

\* Then no policy scales down from where one of them has scaled up to.
LEMMA NoneDown ==
  ASSUME NEW spec, IsSpec(spec), NEW hard \in Quantities, NEW used \in Quantities,
         NEW f \in {"cpu", "memory"}, Apart(spec, hard[f], f),
         NEW d, LeftBy(d, spec.scaleUp, ValidateQuotaScaler(spec), TRUE, f, hard, used),
         NEW r \in Quantities, r[f] > 0, r[f] <= d,
         NEW v
  PROVE  ~ LeftBy(v, spec.scaleDown, ValidateQuotaScaler(spec), FALSE, f, r, used)
<1> DEFINE s == ValidateQuotaScaler(spec)
           step == Step(s, f)
<1>1. s \in Settings
  BY ValidatedSettings DEF IsSpec
<1>2. PICK j \in DOMAIN spec.scaleUp :
        /\ spec.scaleUp[j] \in Policy /\ spec.scaleUp[j].method = f
        /\ d # 0 /\ d = ActivatePolicy(s, TRUE, spec.scaleUp[j], hard, used)
  BY DEF LeftBy
<1> SUFFICES ASSUME NEW i \in DOMAIN spec.scaleDown,
                    spec.scaleDown[i] \in Policy, spec.scaleDown[i].method = f
             PROVE  ActivatePolicy(s, FALSE, spec.scaleDown[i], r, used) = 0
  BY DEF LeftBy
<1> DEFINE p == spec.scaleDown[i]
           q == spec.scaleUp[j]
<1>3. /\ p \in Policy /\ p.method = f /\ p.value # 100
      /\ q \in Policy /\ q.method = f /\ d # 0 /\ d = ActivatePolicy(s, TRUE, q, hard, used)
      /\ p.value < q.value /\ p.value * (hard[f] + step) < (q.value + 1) * hard[f]
  BY <1>2 DEF Apart
<1>4. r[f] \in Nat /\ hard[f] \in Nat /\ used[f] \in Nat /\ step \in Nat
  BY <1>1, ResourceNat
<1> HIDE DEF s, p, q, step
<1>5. p.value \in Nat /\ q.value \in Nat /\ q.value # 0
  BY <1>3 DEF Policy
<1>6. PICK u, w \in Nat :
        /\ hard[f] * u <= used[f] * 100 /\ q.value * w <= u * hard[f] /\ u > q.value
        /\ d <= w \/ d <= hard[f] + step
  <2>1. ActivatePolicy(s, TRUE, q, hard, used) # 0
    BY <1>3
  <2>2. Reaches(ActivatePolicy(s, TRUE, q, hard, used), q.value, hard[f], used[f], Step(s, f))
    BY <1>1, <1>3, <1>5, <2>1, ScaledUp
  <2> QED
    BY <1>3, <2>2 DEF step, Reaches
<1>7. d \in Nat
  <2>1. ActivatePolicy(s, TRUE, q, hard, used) \in Nat
    BY <1>1, <1>3, PolicyResult
  <2> QED
    BY <1>3, <2>1
<1>8. r[f] * p.value < used[f] * 100
  <2>1. r[f] <= w \/ r[f] <= hard[f] + step
    BY <1>4, <1>6, <1>7
  <2> QED
    BY <1>3, <1>4, <1>5, <1>6, <2>1, NoOvershoot
<1>9. r[f] # 0
  BY <1>4
<1>10. ActivatePolicy(s, FALSE, p, r, used) = 0
  <2>1. LET x == ActivatePolicy(s, FALSE, p, r, used)
        IN  /\ x <= r[f] \/ x <= Bottom(s, f)
            /\ r[f] # 0 /\ r[f] * p.value < used[f] * 100 => x = 0
    BY <1>1, <1>3, ScaledDown
  <2> QED
    BY <1>8, <1>9, <2>1
<1> QED
  BY <1>10 DEF p

\* What a resource has been scaled up to is not scaled down again at the same use.
LEMMA NotUndone ==
  ASSUME NEW spec, IsSpec(spec), NEW hard \in Quantities,
         NEW u \in [{"cpu", "cpuLimit", "memory"} -> Nat],
         NEW f \in {"cpu", "memory"}, Apart(spec, hard[f], f),
         NEW r, r = DesiredSize(hard, u, spec, Nothing), r[f] > hard[f]
  PROVE  DesiredSize(r, u, spec, Nothing)[f] >= r[f]
<1> DEFINE s == ValidateQuotaScaler(spec)
           b == ForceLimitToDefaultMax(s)
           used == NormalizedUsed(u)
           d == PolicyDesire(spec, hard, used)[f]
           e == PolicyDesire(spec, r, used)[f]
           again == DesiredSize(r, u, spec, Nothing)[f]
<1>1. /\ s \in Settings /\ used \in Quantities
      /\ Top(s, f) \in Nat /\ Bottom(s, f) \in Nat /\ Top(b, f) \in Nat
      /\ Top(b, f) <= Top(s, f) /\ Bottom(b, f) = Bottom(s, f)
  BY ValidatedSettings, BoundsField, Normalized DEF IsSpec
<1>2. r \in Quantities
  BY Evaluated, PairFields DEF GoodSize
<1>3. Sizes(r[f], d, hard[f], b, f) /\ Sizes(again, e, r[f], b, f)
  BY <1>2, SizeField
<1>4. /\ d = hard[f] \/ LeftBy(d, spec.scaleDown, s, FALSE, f, hard, used)
         \/ LeftBy(d, spec.scaleUp, s, TRUE, f, hard, used)
      /\ e = r[f] \/ LeftBy(e, spec.scaleDown, s, FALSE, f, r, used)
         \/ LeftBy(e, spec.scaleUp, s, TRUE, f, r, used)
  BY <1>1, <1>2, DesireField
<1>5. d \in Nat /\ e \in Nat /\ hard[f] \in Nat /\ r[f] \in Nat
  BY <1>1, <1>2, Desire, ResourceNat
<1> DEFINE n == r[f]
           c == hard[f]
           top == Top(b, f)
           most == Top(s, f)
           least == Bottom(s, f)
<1> HIDE DEF s, b, used, d, e, again
<1>6. /\ n \in Nat /\ c \in Nat /\ d \in Nat /\ e \in Nat /\ again \in Nat
      /\ top \in Nat /\ most \in Nat /\ least \in Nat
      /\ top <= most /\ n > c
      /\ n = c \/ n <= d \/ n <= least
      /\ n = c \/ n <= top
      /\ again >= top \/ (again >= e /\ again >= least)
  <2>1. again \in Nat
    BY <1>3 DEF Sizes
  <2>2. n = c \/ n <= d \/ n <= least
    BY <1>1, <1>3 DEF Sizes
  <2>3. n = c \/ n <= top
    BY <1>3 DEF Sizes
  <2>4. again >= top \/ (again >= e /\ again >= least)
    BY <1>1, <1>3 DEF Sizes
  <2> QED
    BY <1>1, <1>5, <2>1, <2>2, <2>3, <2>4
<1> HIDE DEF n, c, top, most, least
<1>7. ASSUME n <= least
      PROVE  again >= n
  BY ONLY <1>6, <1>7
<1>8. ASSUME ~(n <= least)
      PROVE  again >= n
  <2>1. n <= d /\ n <= top /\ d > c /\ d > least /\ n > 0
    BY ONLY <1>6, <1>8
  <2>2. ~ LeftBy(d, spec.scaleDown, s, FALSE, f, hard, used)
    <3> SUFFICES ASSUME NEW i \in DOMAIN spec.scaleDown,
                        spec.scaleDown[i] \in Policy, spec.scaleDown[i].method = f,
                        d = ActivatePolicy(s, FALSE, spec.scaleDown[i], hard, used)
                 PROVE  FALSE
      BY DEF LeftBy
    <3> DEFINE p == spec.scaleDown[i]
    <3>1. p.value # 100
      BY DEF Apart
    <3> HIDE DEF p
    <3>2. LET v == ActivatePolicy(s, FALSE, p, hard, used)
          IN  v <= hard[f] \/ v <= Bottom(s, f)
      BY <1>1, <3>1, ScaledDown DEF p
    <3>3. d <= c \/ d <= least
      BY <3>2 DEF p, c, least
    <3> QED
      BY ONLY <1>6, <2>1, <3>3
  <2>3. LeftBy(d, spec.scaleUp, s, TRUE, f, hard, used)
    <3>1. d # c
      BY ONLY <1>6, <2>1
    <3> QED
      BY <1>4, <2>2, <3>1 DEF c
  <2>4. r[f] > 0 /\ r[f] <= d
    BY <2>1 DEF n
  <2>5. ~ LeftBy(e, spec.scaleDown, s, FALSE, f, r, used)
    BY <1>2, <2>3, <2>4, <1>1, NoneDown DEF s
  <2>6. e >= n \/ e = most
    <3>1. CASE e = n
      BY ONLY <1>6, <3>1
    <3>2. CASE LeftBy(e, spec.scaleUp, s, TRUE, f, r, used)
      <4>1. PICK j \in DOMAIN spec.scaleUp :
              /\ spec.scaleUp[j] \in Policy /\ spec.scaleUp[j].method = f
              /\ e # 0 /\ e = ActivatePolicy(s, TRUE, spec.scaleUp[j], r, used)
        BY <3>2 DEF LeftBy
      <4> DEFINE q == spec.scaleUp[j]
      <4>2. /\ q \in Policy /\ q.method = f /\ ActivatePolicy(s, TRUE, q, r, used) # 0
            /\ e = ActivatePolicy(s, TRUE, q, r, used)
        BY <4>1
      <4> HIDE DEF q
      <4>3. \/ ActivatePolicy(s, TRUE, q, r, used) >= r[f]
            \/ ActivatePolicy(s, TRUE, q, r, used) = Top(s, f)
        BY <1>1, <1>2, <4>2, UpField
      <4> QED
        BY <4>2, <4>3 DEF n, most
    <3> QED
      BY <1>4, <2>5, <3>1, <3>2 DEF n
  <2> QED
    BY ONLY <1>6, <2>1, <2>6
<1> QED
  BY <1>7, <1>8 DEF again, n

\* A scale down from c, at a use of p percent below the threshold t, rounded down,
\* does not take the use above the threshold q: w is what the policy wants.
LEMMA NoUndershoot ==
  ASSUME NEW c \in Nat, NEW used \in Nat, NEW p \in Nat, NEW t \in Nat, NEW q \in Nat,
         NEW w \in Nat, NEW step \in Nat, NEW r \in Nat,
         used * 100 <= c * (p + 1), p * c <= t * (w + 1), p < t,
         t * c < (q + 1) * (c - step), c + t < (q + 1 - t) * r,
         r >= w \/ r >= c - step
  PROVE  used * 100 < r * (q + 1)
<1>1. used * 100 \in Nat /\ r * (q + 1) = (q + 1) * r /\ (q + 1) * r \in Nat
  OBVIOUS
<1>2. CASE r >= w
  <2>1. t * (w + 1) <= t * (r + 1) /\ t * (w + 1) \in Nat /\ t * (r + 1) \in Nat
    BY <1>2, TimesMonotone
  <2>2. c * (p + 1) = p * c + c /\ t * (r + 1) = t * r + t /\ p * c \in Nat /\ t * r \in Nat
    OBVIOUS
  <2>3. (q + 1) * r = t * r + (q + 1 - t) * r /\ (q + 1 - t) * r \in Int
    OBVIOUS
  <2> QED
    BY <1>1, <2>1, <2>2, <2>3
<1>3. CASE r >= c - step
  <2> DEFINE x == c - step
  <2>1. x \in Nat
    <3> SUFFICES ASSUME step > c
                 PROVE  FALSE
      OBVIOUS
    <3>1. PICK e \in Nat : step = c + e
      <4>1. step - c \in Nat /\ step = c + (step - c)
        OBVIOUS
      <4> QED
        BY <4>1
    <3>2. (q + 1) * (c - step) = -((q + 1) * e) /\ (q + 1) * e \in Nat /\ t * c \in Nat
      BY <3>1
    <3> QED
      BY <3>2
  <2>2. x <= r /\ t * c < (q + 1) * x
    BY <1>3
  <2> HIDE DEF x
  <2>3. (q + 1) * x <= (q + 1) * r /\ (q + 1) * x \in Nat
    BY <2>1, <2>2, TimesMonotone
  <2>4. c * (p + 1) <= c * t /\ c * (p + 1) \in Nat /\ c * t \in Nat /\ c * t = t * c
    BY TimesMonotone
  <2> QED
    BY <1>1, <2>2, <2>3, <2>4
<1> QED
  BY <1>2, <1>3

\* What a policy scales down to from c at a use below its threshold t: no less than
\* the use divided by the threshold, each rounded down, or than the minimal step away.
Lowers(v, t, c, used, step) ==
  \E u, w \in Nat : /\ used * 100 <= c * (u + 1) /\ u * c <= t * (w + 1) /\ u < t
                    /\ v >= w \/ v >= c - step

\* The use is below the threshold when a policy asks for anything.
LEMMA LoweredTo ==
  ASSUME NEW s \in Settings, NEW f \in {"cpu", "memory"}, NEW p \in Policy, p.method = f,
         NEW hard \in Quantities, NEW used \in Quantities, p.value # 100, hard[f] # 0,
         ActivatePolicy(s, FALSE, p, hard, used) # 0
  PROVE  Lowers(ActivatePolicy(s, FALSE, p, hard, used), p.value, hard[f], used[f], Step(s, f))
<1> DEFINE a == ToActivePolicy(s, FALSE, p.method, hard, used)
           u == a.percentage
           t == p.value
           c == hard[f]
           w == TruncatedProduct(u, t, c)
           v == ActivatePolicy(s, FALSE, p, hard, used)
<1>1. /\ a \in Active /\ a.maximum = c /\ a.minStep = Step(s, f)
      /\ u = IF c = 0 THEN 0 ELSE TruncatedProduct(used[f], c, 100)
  <2>1. Measures(a, s, FALSE, f, hard, used)
    BY ActiveOf
  <2> HIDE DEF a
  <2> QED
    BY <2>1 DEF Measures
<1>2. /\ c \in Nat /\ used[f] \in Nat /\ Step(s, f) \in Nat
  BY ResourceNat
<1>3. t \in Nat /\ t # 100 /\ u \in Nat
  BY <1>1 DEF Policy, Active
<1>4. u < t /\ v = CalculateScaleDown(a, t)
  BY <1>1, <1>3 DEF ActivatePolicy
<1>5. v >= w \/ v >= c - Step(s, f)
  <2>1. a.limit \in Nat /\ a.maxStep \in Nat
    BY <1>1 DEF Active
  <2>2. v = Larger(Smaller(w, c - Step(s, f)), Larger(a.limit, c - a.maxStep))
    BY <1>1, <1>4 DEF CalculateScaleDown
  <2>3. w \in Int
    BY <1>2, <1>3, TruncatedNat
  <2> HIDE DEF a, u, t, c, w, v
  <2> QED
    BY <1>2, <2>1, <2>2, <2>3 DEF Larger, Smaller
<1>6. t # 0 /\ c # 0 /\ u = TruncatedProduct(used[f], c, 100)
  <2>1. c # 0
    OBVIOUS
  <2> HIDE DEF a, u, t, c, w, v
  <2>2. t # 0
    BY <1>3, <1>4
  <2> QED
    BY <1>1, <2>1, <2>2
<1> HIDE DEF a, u, t, c, v
<1>7. w \in Nat /\ \A n \in Nat : t * n < u * c => n <= w
  BY <1>2, <1>3, <1>6, TruncatedBounds
<1> HIDE DEF w
<1>8. u * c <= t * (w + 1)
  <2>1. u * c \in Nat /\ w + 1 \in Nat /\ t * (w + 1) \in Nat /\ ~(w + 1 <= w)
    BY <1>2, <1>3, <1>7
  <2> QED
    BY <1>7, <2>1
<1>9. used[f] * 100 <= c * (u + 1)
  <2>1. \A n \in Nat : c * n < used[f] * 100 => n <= u
    BY <1>2, <1>6, TruncatedBounds
  <2>2. used[f] * 100 \in Nat /\ u + 1 \in Nat /\ c * (u + 1) \in Nat /\ ~(u + 1 <= u)
    BY <1>2, <1>3
  <2> QED
    BY <2>1, <2>2
<1>10. /\ used[f] * 100 <= c * (u + 1) /\ u * c <= t * (w + 1) /\ u < t
       /\ v >= w \/ v >= c - Step(s, f)
  BY <1>4, <1>5, <1>8, <1>9
<1> QED
  BY <1>3, <1>7, <1>10 DEF t, c, v, Lowers

\* A policy does not scale up at a use that is not a whole point above its threshold.
LEMMA UpAlone ==
  ASSUME NEW s \in Settings, NEW f \in {"cpu", "memory"}, NEW p \in Policy, p.method = f,
         NEW hard \in Quantities, NEW used \in Quantities,
         used[f] * 100 < hard[f] * (p.value + 1)
  PROVE  ActivatePolicy(s, TRUE, p, hard, used) = 0
<1> DEFINE a == ToActivePolicy(s, TRUE, p.method, hard, used)
           u == a.percentage
           t == p.value
           c == hard[f]
<1>1. /\ a \in Active
      /\ u = IF c = 0 THEN 0 ELSE TruncatedProduct(used[f], c, 100)
  <2>1. Measures(a, s, TRUE, f, hard, used)
    BY ActiveOf
  <2> HIDE DEF a
  <2> QED
    BY <2>1 DEF Measures
<1>2. c \in Nat /\ used[f] \in Nat
  BY ResourceNat
<1>3. t \in Nat /\ u \in Nat
  BY <1>1 DEF Policy, Active
<1>4. ~(u > t)
  <2> HIDE DEF a, u, t, c
  <2>1. used[f] * 100 < c * (t + 1)
    BY DEF t, c
  <2>2. CASE c = 0
    BY <1>1, <1>3, <2>2
  <2>3. CASE c # 0
    <3> SUFFICES ASSUME t + 1 <= u
                 PROVE  FALSE
      BY <1>3
    <3>1. c * u <= used[f] * 100
      BY <1>1, <1>2, <2>3, TruncatedBounds
    <3>2. c * (t + 1) <= c * u /\ c * (t + 1) \in Nat /\ c * u \in Nat
      BY <1>2, <1>3, TimesMonotone
    <3> QED
      BY <1>2, <2>1, <3>1, <3>2
  <2> QED
    BY <2>2, <2>3
<1> QED
  BY <1>1, <1>3, <1>4 DEF ActivatePolicy

\* Between the policies of a resource there is room for a scale down from c to n.
Gradual(spec, c, n, f) ==
  \A i \in DOMAIN spec.scaleDown :
    LET p == spec.scaleDown[i]
    IN  p.method = f =>
          /\ p.value # 100
          /\ \A j \in DOMAIN spec.scaleUp :
               LET q == spec.scaleUp[j]
               IN  q.method = f =>
                     /\ p.value * c < (q.value + 1) * (c - Step(ValidateQuotaScaler(spec), f))
                     /\ c + p.value < (q.value + 1 - p.value) * n

\* Then no policy scales up from where one of them has scaled down to.
LEMMA NoneUp ==
  ASSUME NEW spec, IsSpec(spec), NEW hard \in Quantities, NEW used \in Quantities,
         NEW f \in {"cpu", "memory"}, hard[f] # 0,
         NEW r \in Quantities, Gradual(spec, hard[f], r[f], f),
         NEW d, LeftBy(d, spec.scaleDown, ValidateQuotaScaler(spec), FALSE, f, hard, used),
         r[f] >= d, NEW v
  PROVE  ~ LeftBy(v, spec.scaleUp, ValidateQuotaScaler(spec), TRUE, f, r, used)
<1> DEFINE s == ValidateQuotaScaler(spec)
           step == Step(s, f)
<1>1. s \in Settings
  BY ValidatedSettings DEF IsSpec
<1>2. PICK i \in DOMAIN spec.scaleDown :
        /\ spec.scaleDown[i] \in Policy /\ spec.scaleDown[i].method = f
        /\ d # 0 /\ d = ActivatePolicy(s, FALSE, spec.scaleDown[i], hard, used)
  BY DEF LeftBy
<1> SUFFICES ASSUME NEW j \in DOMAIN spec.scaleUp,
                    spec.scaleUp[j] \in Policy, spec.scaleUp[j].method = f
             PROVE  ActivatePolicy(s, TRUE, spec.scaleUp[j], r, used) = 0
  BY DEF LeftBy
<1> DEFINE p == spec.scaleDown[i]
           q == spec.scaleUp[j]
<1>3. /\ p \in Policy /\ p.method = f /\ p.value # 100
      /\ q \in Policy /\ q.method = f /\ d # 0 /\ d = ActivatePolicy(s, FALSE, p, hard, used)
      /\ p.value * hard[f] < (q.value + 1) * (hard[f] - step)
      /\ hard[f] + p.value < (q.value + 1 - p.value) * r[f]
  BY <1>2 DEF Gradual
<1>4. r[f] \in Nat /\ hard[f] \in Nat /\ used[f] \in Nat /\ step \in Nat
  BY <1>1, ResourceNat
<1> HIDE DEF s, p, q, step
<1>5. p.value \in Nat /\ q.value \in Nat
  BY <1>3 DEF Policy
<1>6. PICK u, w \in Nat :
        /\ used[f] * 100 <= hard[f] * (u + 1) /\ u * hard[f] <= p.value * (w + 1) /\ u < p.value
        /\ d >= w \/ d >= hard[f] - step
  <2>1. ActivatePolicy(s, FALSE, p, hard, used) # 0
    BY <1>3
  <2>2. Lowers(ActivatePolicy(s, FALSE, p, hard, used), p.value, hard[f], used[f], Step(s, f))
    BY <1>1, <1>3, <2>1, LoweredTo
  <2> QED
    BY <1>3, <2>2 DEF step, Lowers
<1>7. d \in Nat
  <2>1. ActivatePolicy(s, FALSE, p, hard, used) \in Nat
    BY <1>1, <1>3, PolicyResult
  <2> QED
    BY <1>3, <2>1
<1>8. used[f] * 100 < r[f] * (q.value + 1)
  <2>1. r[f] >= w \/ r[f] >= hard[f] - step
    BY <1>4, <1>6, <1>7
  <2> QED
    BY <1>3, <1>4, <1>5, <1>6, <2>1, NoUndershoot
<1>9. ActivatePolicy(s, TRUE, q, r, used) = 0
  BY <1>1, <1>3, <1>8, UpAlone
<1> QED
  BY <1>9 DEF q

\* What a resource has been scaled down to is not scaled up again at the same use.
LEMMA NotTakenBack ==
  ASSUME NEW spec, IsSpec(spec), NEW hard \in Quantities,
         NEW u \in [{"cpu", "cpuLimit", "memory"} -> Nat],
         NEW f \in {"cpu", "memory"},
         NEW r, r = DesiredSize(hard, u, spec, Nothing), r[f] < hard[f],
         Gradual(spec, hard[f], r[f], f)
  PROVE  DesiredSize(r, u, spec, Nothing)[f] <= r[f]
<1> DEFINE s == ValidateQuotaScaler(spec)
           b == ForceLimitToDefaultMax(s)
           used == NormalizedUsed(u)
           d == PolicyDesire(spec, hard, used)[f]
           e == PolicyDesire(spec, r, used)[f]
           again == DesiredSize(r, u, spec, Nothing)[f]
<1>1. /\ s \in Settings /\ used \in Quantities
      /\ Top(s, f) \in Nat /\ Bottom(s, f) \in Nat /\ Top(b, f) \in Nat
      /\ Top(b, f) <= Top(s, f) /\ Bottom(b, f) = Bottom(s, f)
  BY ValidatedSettings, BoundsField, Normalized DEF IsSpec
<1>2. r \in Quantities
  BY Evaluated, PairFields DEF GoodSize
<1>3. Sizes(r[f], d, hard[f], b, f) /\ Sizes(again, e, r[f], b, f)
  BY <1>2, SizeField
<1>4. /\ d = hard[f] \/ LeftBy(d, spec.scaleDown, s, FALSE, f, hard, used)
         \/ LeftBy(d, spec.scaleUp, s, TRUE, f, hard, used)
      /\ e = r[f] \/ LeftBy(e, spec.scaleDown, s, FALSE, f, r, used)
         \/ LeftBy(e, spec.scaleUp, s, TRUE, f, r, used)
  BY <1>1, <1>2, DesireField
<1>5. d \in Nat /\ e \in Nat /\ hard[f] \in Nat /\ r[f] \in Nat
  BY <1>1, <1>2, Desire, ResourceNat
<1> DEFINE n == r[f]
           c == hard[f]
           top == Top(b, f)
           most == Top(s, f)
           least == Bottom(s, f)
<1> HIDE DEF s, b, used, d, e, again
<1>6. /\ n \in Nat /\ c \in Nat /\ d \in Nat /\ e \in Nat /\ again \in Nat
      /\ top \in Nat /\ most \in Nat /\ least \in Nat
      /\ top <= most /\ n < c
      /\ n >= top \/ (n >= d /\ n >= least)
      /\ again = n \/ again <= e \/ again <= least
      /\ again = n \/ again <= top
  <2>1. again \in Nat
    BY <1>3 DEF Sizes
  <2>2. n >= top \/ (n >= d /\ n >= least)
    BY <1>1, <1>3 DEF Sizes
  <2>3. again = n \/ again <= e \/ again <= least
    BY <1>1, <1>3 DEF Sizes
  <2>4. again = n \/ again <= top
    BY <1>3 DEF Sizes
  <2> QED
    BY <1>1, <1>5, <2>1, <2>2, <2>3, <2>4
<1> HIDE DEF n, c, top, most, least
<1>7. ASSUME n >= top
      PROVE  again <= n
  BY ONLY <1>6, <1>7
<1>8. ASSUME ~(n >= top)
      PROVE  again <= n
  <2>1. n >= d /\ n >= least /\ d < c /\ d < most
    BY ONLY <1>6, <1>8
  <2>2. ~ LeftBy(d, spec.scaleUp, s, TRUE, f, hard, used)
    <3> SUFFICES ASSUME NEW j \in DOMAIN spec.scaleUp,
                        spec.scaleUp[j] \in Policy, spec.scaleUp[j].method = f,
                        d # 0, d = ActivatePolicy(s, TRUE, spec.scaleUp[j], hard, used)
                 PROVE  FALSE
      BY DEF LeftBy
    <3> DEFINE q == spec.scaleUp[j]
    <3> HIDE DEF q
    <3>1. \/ ActivatePolicy(s, TRUE, q, hard, used) >= hard[f]
          \/ ActivatePolicy(s, TRUE, q, hard, used) = Top(s, f)
      BY <1>1, UpField DEF q
    <3>2. d >= c \/ d = most
      BY <3>1 DEF q, c, most
    <3> QED
      BY ONLY <1>6, <2>1, <3>2
  <2>3. LeftBy(d, spec.scaleDown, s, FALSE, f, hard, used)
    <3>1. d # c
      BY ONLY <1>6, <2>1
    <3> QED
      BY <1>4, <2>2, <3>1 DEF c
  <2>4. r[f] >= d /\ hard[f] # 0
    <3>1. c # 0
      BY ONLY <1>6
    <3> QED
      BY <2>1, <3>1 DEF n, c
  <2>5. ~ LeftBy(e, spec.scaleUp, s, TRUE, f, r, used)
    BY <1>1, <1>2, <2>3, <2>4, NoneUp DEF s
  <2>6. e <= n \/ e <= least
    <3>1. CASE e = n
      BY ONLY <1>6, <3>1
    <3>2. CASE LeftBy(e, spec.scaleDown, s, FALSE, f, r, used)
      <4>1. PICK i \in DOMAIN spec.scaleDown :
              /\ spec.scaleDown[i] \in Policy /\ spec.scaleDown[i].method = f
              /\ e = ActivatePolicy(s, FALSE, spec.scaleDown[i], r, used)
        BY <3>2 DEF LeftBy
      <4> DEFINE p == spec.scaleDown[i]
      <4>2. /\ p \in Policy /\ p.method = f /\ p.value # 100
            /\ e = ActivatePolicy(s, FALSE, p, r, used)
        BY <4>1 DEF Gradual
      <4> HIDE DEF p
      <4>3. LET v == ActivatePolicy(s, FALSE, p, r, used)
            IN  v <= r[f] \/ v <= Bottom(s, f)
        BY <1>1, <1>2, <4>2, ScaledDown
      <4> QED
        BY <4>2, <4>3 DEF n, least
    <3> QED
      BY <1>4, <2>5, <3>1, <3>2 DEF n
  <2> QED
    BY ONLY <1>6, <2>1, <2>6
<1> QED
  BY <1>7, <1>8 DEF again, n
=============================================================================
