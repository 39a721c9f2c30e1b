------------------------------ MODULE MCAlerts ------------------------------
(* Alerts on a small instance.                                             *)
EXTENDS Alerts

RateVal == {1}
=============================================================================
