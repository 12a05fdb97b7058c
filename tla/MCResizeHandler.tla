--------------------------- MODULE MCResizeHandler ---------------------------
(* Small instances of ResizeHandler for TLC. *)
EXTENDS ResizeHandler

CONSTANTS n1, n2

MCNamespaces == {n1, n2}

\* CPU and memory each take a low and a high value, so that a request can
\* raise both, lower both, or raise one and lower the other.
MCSizes == [cpu : {1, 2}, memory : {1, 2}]
=============================================================================
