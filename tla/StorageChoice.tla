---------------------------- MODULE StorageChoice ----------------------------
(***************************************************************************)
(* What the storage pages promise to a user who waits for them: the         *)
(* configuration under review is the one that was chosen, nothing changes   *)
(* it while it is reviewed, and it is the one that is installed.            *)
(*                                                                          *)
(* StorageWizard implements this specification.                             *)
(***************************************************************************)
CONSTANTS
  Guided,  \* the configurations that the server makes for a choice
  Own,     \* those that the user makes
  Blank    \* nothing is configured, or nothing chosen: the user partitions on his own

VARIABLES
  stage,      \* choosing, loading (the review), reviewing, installing, installed, failed
  chosen,     \* the configuration that the choices so far stand for
  config,     \* the server's configuration
  reviewed,   \* what the user is shown
  installed   \* what the installation was started with

vars == <<stage, chosen, config, reviewed, installed>>

Init ==
  /\ stage = "choosing"
  /\ chosen = Blank
  /\ config = Blank /\ reviewed = Blank /\ installed = Blank

\* The last choice and the load of the review can be one step.
Choose ==
  /\ stage = "choosing"
  /\ stage' \in {"choosing", "loading"}
  /\ chosen' \in Guided \cup {Blank}
  /\ UNCHANGED <<config, reviewed, installed>>

Partition ==
  /\ stage = "choosing"
  /\ config' \in Own
  /\ UNCHANGED <<stage, chosen, reviewed, installed>>

\* A page that was returned to, or the load of a guided choice.
Reset ==
  /\ stage = "loading" => chosen # Blank
  /\ stage \in {"choosing", "loading"}
  /\ config' = Blank
  /\ UNCHANGED <<stage, chosen, reviewed, installed>>

Configure ==
  /\ stage = "loading" /\ chosen # Blank
  /\ config = Blank
  /\ config' = chosen
  /\ UNCHANGED <<stage, chosen, reviewed, installed>>

\* The review shows the server's configuration: the chosen one if there is one.
Review ==
  /\ stage = "loading"
  /\ chosen # Blank => config = chosen
  /\ stage' = "reviewing"
  /\ reviewed' = config
  /\ UNCHANGED <<chosen, config, installed>>

\* The server refuses the choice.
Fail ==
  /\ stage = "loading"
  /\ stage' = "failed"
  /\ UNCHANGED <<chosen, config, reviewed, installed>>

\* Going back may undo the last choice.
Revise ==
  /\ stage = "reviewing"
  /\ stage' = "choosing"
  /\ chosen' \in {chosen, Blank}
  /\ reviewed' = Blank
  /\ UNCHANGED <<config, installed>>

Confirm ==
  /\ stage = "reviewing"
  /\ stage' = "installing"
  /\ UNCHANGED <<chosen, config, reviewed, installed>>

\* The choices are forgotten, the passphrase among them.
Install ==
  /\ stage = "installing"
  /\ stage' = "installed"
  /\ installed' = reviewed
  /\ chosen' = Blank
  /\ UNCHANGED <<config, reviewed>>

Next == \/ Choose \/ Partition \/ Reset \/ Configure \/ Review
        \/ Fail \/ Revise \/ Confirm \/ Install

\* A review that loads is shown, or fails to.
Spec == Init /\ [][Next]_vars /\ WF_vars(Configure \/ Review \/ Fail)
=============================================================================
