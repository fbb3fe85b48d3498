-------------------------- MODULE MCStatusMonitor --------------------------
(***************************************************************************)
(* Instances of StatusMonitor for TLC: the states a monitor distinguishes   *)
(* and one of each kind it does not.                                        *)
(***************************************************************************)
EXTENDS StatusMonitor, TLC

CONSTANTS page, wizard

MCStates == {"STARTING_UP", "WAITING", "RUNNING", "DONE", "ERROR", "EXITED"}
=============================================================================
