------------------------------ MODULE MCAlerts ------------------------------
(***************************************************************************)
(* Finite instances of Ingest and Alerts: every call but the last one      *)
(* retries one event, the last one carries another.                        *)
(***************************************************************************)
EXTENDS Alerts

CONSTANTS Again, Other, LastCall

MCKey == [c \in Calls |-> IF c = LastCall THEN Other ELSE Again]

\* Two thresholds of a budget of two events: the first event reaches one.
MCThresholds == {50, 100}
=============================================================================
