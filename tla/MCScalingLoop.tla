---------------------------- MODULE MCScalingLoop ----------------------------
(* Small instances of ScalingLoop for TLC. *)
EXTENDS ScalingLoop

CONSTANTS web, job

MCWorkloads == {web, job}

MCKind == [w \in MCWorkloads |-> IF w = web THEN "ReplicaSet" ELSE "Job"]

Container(cpu, cpuLimit, memory) ==
  [requests |-> [cpu |-> cpu, memory |-> memory],
   limits |-> [cpu |-> cpuLimit, memory |-> memory]]

\* A pod of two containers, one of which is limited to more than ten times
\* what it requests, and the pod of a job.  The memory does not come in whole
\* megabytes.
MCContainers ==
  [w \in MCWorkloads |->
     IF w = web THEN [app |-> Container(300, 2000, 6711), proxy |-> Container(10, 200, 336)]
                ELSE [main |-> Container(900, 4000, 21475)]]

Empty == [f \in DOMAIN Defaults |-> Unset]

Policies(value) ==
  <<[method |-> "cpu", value |-> value], [method |-> "memory", value |-> value]>>

Behavior(fields, down, up) ==
  [f \in DOMAIN Defaults \cup {"scaleDown", "scaleUp"} |->
     CASE f = "scaleDown" -> Policies(down)
       [] f = "scaleUp" -> Policies(up)
       [] OTHER -> fields[f]]

\* The behaviors the readme describes: 100 for both, and a band; the maxima are
\* low enough to be reached, or above the default ones.
MCFull == Behavior([Empty EXCEPT !.maxCpu = 2000, !.maxMemory = 4000], 100, 100)
MCBand == Behavior([Empty EXCEPT !.maxCpu = 3000, !.maxMemory = 200000], 50, 70)
MCSpecs == {MCFull, MCBand}

\* A scale up at any use, in large steps.
MCGrow == Behavior([Empty EXCEPT !.maxCpu = 3000, !.maxMemory = 4000,
                                 !.minCpuStep = 1000, !.minMemoryStep = 2000], 50, 0)
MCBandOnly == {MCBand}
MCAllSpecs == {MCFull, MCBand, MCGrow}

\* int64(+Inf) on amd64 is the least integer.
MCLeastInteger == -2147483647

\* The smallest quota and one with room.
MCStartHard == {[cpu |-> 400, memory |-> 1000], [cpu |-> 2500, memory |-> 6000]}

\* A band with a maximal CPU step.
MCMaxStep == {Behavior([Empty EXCEPT !.maxCpuStep = 500], 50, 70)}
MCFullOnly == {MCFull}

\* A large quota that next to nothing uses.
MCLargeHard == {[cpu |-> 8000, memory |-> 150000]}

\* A pod whose CPU limit is not a multiple of ten, and one that limits its CPU
\* but not its memory.
MCOddContainers ==
  [w \in MCWorkloads |-> [main |-> Container(100, 2009, 6711)]]

MCCpuLimited ==
  [w \in MCWorkloads |->
     [main |-> [requests |-> [cpu |-> 300, memory |-> 6711],
                limits |-> [cpu |-> 2000, memory |-> 0]]]]
=============================================================================
