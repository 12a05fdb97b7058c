---------------------------- MODULE MCQuotaScaler ----------------------------
(* Small instances of QuotaScaler for TLC. *)
EXTENDS QuotaScaler

\* CPU and memory each take a low and a high value.
MCSizes == [cpu : {1, 2}, memory : {1, 2}]

\* Each leads to the other by way of the largest size, which pods may need.
MCDemands == {[cpu |-> 1, memory |-> 2], [cpu |-> 2, memory |-> 1]}

MCStartDemand == [cpu |-> 1, memory |-> 2]

\* The quota fits at first, or is the smallest.
MCStartHard == MCStartDemand
MCSmallest == [cpu |-> 1, memory |-> 1]
=============================================================================
