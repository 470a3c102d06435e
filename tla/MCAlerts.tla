-------------------------------- MODULE MCAlerts --------------------------------
(* The instance of Alerts for TLC.                                                *)
EXTENDS Alerts, TLC

CONSTANTS a1, a2, a3

AlertSymmetry == Permutations({a1, a2})
=============================================================================
