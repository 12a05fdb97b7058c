---------------------------- MODULE MCQuotaWatcher ----------------------------
(* Small instances of QuotaWatcher for TLC. *)
EXTENDS QuotaWatcher

CONSTANTS dev, q1, q2

MCNamespaces == {dev}
MCQuotaNames == {q1, q2}
MCReasons == {"FailedCreate"}
=============================================================================
