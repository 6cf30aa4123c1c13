------------------------------- MODULE MCAlerts -------------------------------
(* Alerts under the name its runs use. *)
EXTENDS Alerts, TLC
=============================================================================
