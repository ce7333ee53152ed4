------------------------------ MODULE MCAlerts ------------------------------
(* Price alerts over one or two symbols, on small instances. *)
EXTENDS Alerts

CONSTANTS alice, p1, p2, req1
=============================================================================
