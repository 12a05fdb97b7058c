------------------------------ MODULE Resources ------------------------------
(***************************************************************************)
(* pkg/resources: pairs of CPU (millicores) and memory (megabytes), and    *)
(* the Max and Min of pkg/utils.  Storage, carried for the log only, is    *)
(* left out.  A quota's Spec.Hard is such a pair, in the units ScaledValue *)
(* gives.                                                                  *)
(***************************************************************************)
EXTENDS Integers

\* Quantities are not negative.
Quantities == [cpu : Nat, memory : Nat]

Nothing == [cpu |-> 0, memory |-> 0]

\* utils.Max and utils.Min.
Larger(a, b) == IF a > b THEN a ELSE b

Smaller(a, b) == IF a < b THEN a ELSE b

Add(res, new) == [f \in {"cpu", "memory"} |-> res[f] + new[f]]

\* A zero in new says nothing about its field.
Replace(res, new) ==
  [f \in {"cpu", "memory"} |-> IF new[f] # 0 THEN new[f] ELSE res[f]]

Limit(res, limit) == [f \in {"cpu", "memory"} |-> Smaller(res[f], limit[f])]

\* Max: field by field.
AtLeast(res, new) == [f \in {"cpu", "memory"} |-> Larger(res[f], new[f])]

\* The quota has other limits, in CPU or in memory.
DiffersFrom(res, hard) == \E f \in {"cpu", "memory"} : res[f] # hard[f]

\* A resize that raises one resource does not lower the other: the endpoint may
\* refuse to scale down.
ForceNoScaleDownWhenScaleUp(res, hard) ==
  CASE res.cpu > hard.cpu -> [res EXCEPT !.memory = Larger(@, hard.memory)]
    [] res.cpu <= hard.cpu /\ res.memory > hard.memory ->
         [res EXCEPT !.cpu = Larger(@, hard.cpu)]
    [] OTHER -> res
=============================================================================
