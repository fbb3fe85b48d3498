------------------------ MODULE MCInstallerLifecycle ------------------------
(***************************************************************************)
(* Instances of InstallerLifecycle for TLC.  One state stands for the three *)
(* in which the server starts and one for the three in which it installs.   *)
(***************************************************************************)
EXTENDS InstallerLifecycle

MCMonitors == {"init", "load", "app", "install"}
MCStates == {"STARTING_UP", "WAITING", "NEEDS_CONFIRMATION", "RUNNING", "DONE", "ERROR", "EXITED"}
=============================================================================
