---------------------------- MODULE SerialResizes ----------------------------
(***************************************************************************)
(* What RunEventHandler (internal/resize_api.go) promises to the resize    *)
(* endpoint: the calls made for one namespace never overlap, and they are  *)
(* made in the order in which their requests were received.  A request may *)
(* be left out.  Namespaces are independent of each other.                 *)
(***************************************************************************)
EXTENDS Naturals

CONSTANTS
  Namespaces,
  Requests     \* the numbers of the requests, in the order they are received

VARIABLES calls,  \* calls[ns]: numbers of the requests the endpoint is executing
          last    \* last[ns]: number of the last request given to the endpoint

vars == <<calls, last>>

Init ==
  /\ calls = [ns \in Namespaces |-> {}]
  /\ last = [ns \in Namespaces |-> 0]

\* The endpoint is called for request k: no call for ns is executing, and k
\* was received after every request ns was resized for before.
Call(ns, k) ==
  /\ calls[ns] = {}
  /\ k > last[ns]
  /\ calls' = [calls EXCEPT ![ns] = {k}]
  /\ last' = [last EXCEPT ![ns] = k]

\* The call that is executing for ns returns.
Return(ns) ==
  /\ calls[ns] # {}
  /\ calls' = [calls EXCEPT ![ns] = {}]
  /\ UNCHANGED last

Next == \E ns \in Namespaces : Return(ns) \/ \E k \in Requests : Call(ns, k)

Spec == Init /\ [][Next]_vars
=============================================================================
