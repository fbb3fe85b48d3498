-------------------------- MODULE InstallerRefresh --------------------------
(***************************************************************************)
(* The update of the installer itself: RefreshService, its check() and its  *)
(* refresh(), and the pages around the refresh page.                        *)
(*                                                                          *)
(* Both operations write the same state.  The loop of refresh() outlives    *)
(* the page: the user may leave it between the click and the first progress *)
(* and enter it again, which runs check() beside the loop.                  *)
(***************************************************************************)
EXTENDS Naturals

VARIABLES
  state,   \* RefreshService._state
  check,   \* a GET refresh of check() is outstanding
  loop,    \* refresh(): idle, or what the loop awaits
  page,    \* where the user is; "closed" after RefreshModel.quit
  shown,   \* the refresh page is in the history of the wizard
  change   \* the last change that POST refresh has started

vars == <<state, check, loop, page, shown, change>>

\* The answers of check(), an exception included.
Checked == {"available", "unavailable", "error"}

\* The states that leave the user a way on or back, see RefreshBar.
Leavable == {"checking", "available", "unavailable"}

TypeOK ==
  /\ state \in {"checking", "busy", "done"} \cup Checked
  /\ check \in BOOLEAN
  /\ loop \in {"idle", "start", "started", "poll", "delay"}
  /\ page \in {"before", "refresh", "after", "closed"}
  /\ shown \in BOOLEAN
  /\ change \in {"none", "doing", "finished", "failed"}
  /\ loop \in {"started", "poll", "delay"} => change # "none"
  /\ check => page = "before"
  /\ page = "refresh" => shown

Init ==
  /\ state = "checking" /\ check = FALSE /\ loop = "idle"
  /\ page = "before" /\ shown = FALSE
  /\ change = "none"

-----------------------------------------------------------------------------
(* check(), which the load of the page runs.                               *)

ClickNext ==
  /\ page = "before" /\ ~check
  /\ check' = TRUE
  /\ state' = "checking"
  /\ UNCHANGED <<loop, page, shown, change>>

\* Mutant: the page is loaded whatever the answer.
CheckReplyShows(r) ==
  /\ check
  /\ check' = FALSE
  /\ state' = r
  /\ page' = "refresh" /\ shown' = TRUE
  /\ UNCHANGED <<loop, change>>

\* Without an update the wizard goes on to the page after this one.
CheckReply(r) ==
  /\ check
  /\ check' = FALSE
  /\ state' = r
  /\ page' = IF r = "available" THEN "refresh" ELSE "after"
  /\ shown' = (r = "available")
  /\ UNCHANGED <<loop, change>>

-----------------------------------------------------------------------------
(* The user.                                                               *)

\* refresh() returns at once while another one is under way.
ClickUpdate ==
  /\ page = "refresh" /\ state = "available"
  /\ loop = "idle"
  /\ loop' = "start"
  /\ UNCHANGED <<state, check, page, shown, change>>

Skip ==
  /\ page = "refresh" /\ state \in Leavable
  /\ page' = "after"
  /\ UNCHANGED <<state, check, loop, shown, change>>

Back ==
  /\ page = "refresh" => state \in Leavable
  /\ page \in {"refresh", "after"}
  /\ page' = IF page = "after" /\ shown THEN "refresh" ELSE "before"
  /\ shown' = (page = "after" /\ shown)
  /\ UNCHANGED <<state, check, loop, change>>

\* RefreshModel.quit exits the process.
Quit ==
  /\ page = "refresh" /\ state = "done"
  /\ page' = "closed"
  /\ UNCHANGED <<state, check, loop, shown, change>>

-----------------------------------------------------------------------------
(* refresh().                                                              *)

Serve ==
  /\ loop = "start"
  /\ loop' = "started" /\ change' = "doing"
  /\ UNCHANGED <<state, check, page, shown>>

ChangeEnds ==
  /\ change = "doing"
  /\ change' \in {"finished", "failed"}
  /\ UNCHANGED <<state, check, loop, page, shown>>

StartReply ==
  /\ loop = "started"
  /\ loop' = "poll"
  /\ UNCHANGED <<state, check, page, shown, change>>

\* A change that has failed is ready as well.
Progress ==
  /\ loop = "poll"
  /\ state' = IF change = "doing" THEN "busy" ELSE "done"
  /\ loop' = "delay"
  /\ UNCHANGED <<check, page, shown, change>>

\* Mutant: the exception ends the loop and nothing else.
RequestFailsSilently ==
  /\ loop \in {"start", "started", "poll"}
  /\ loop' = "idle"
  /\ UNCHANGED <<state, check, page, shown, change>>

\* "subiquity restarted, consider the refresh done", whatever has failed.
RequestFails ==
  /\ loop \in {"start", "started", "poll"}
  /\ state' = "done"
  /\ loop' = "idle"
  /\ UNCHANGED <<check, page, shown, change>>

\* Mutant: the loop goes on only while the state shows its progress.
DelayEndsBusy ==
  /\ loop = "delay"
  /\ loop' = IF state = "busy" THEN "poll" ELSE "idle"
  /\ UNCHANGED <<state, check, page, shown, change>>

\* The state may be one that check() has written in the meantime.
DelayEnds ==
  /\ loop = "delay"
  /\ loop' = IF state = "done" THEN "idle" ELSE "poll"
  /\ UNCHANGED <<state, check, page, shown, change>>

-----------------------------------------------------------------------------

Running == page # "closed"

Refreshing == StartReply \/ Progress \/ RequestFails \/ DelayEnds

Next ==
  /\ Running
  /\ \/ ClickNext \/ ClickUpdate \/ Skip \/ Back \/ Quit
     \/ \E r \in Checked : CheckReply(r)
     \/ Serve \/ ChangeEnds
     \/ Refreshing

\* Requests are answered or fail, the timer fires, changes end.
Fairness ==
  /\ WF_vars(Running /\ \E r \in Checked : CheckReply(r))
  /\ WF_vars(Running /\ (Serve \/ Refreshing))
  /\ WF_vars(Running /\ ChangeEnds)

Spec == Init /\ [][Next]_vars /\ Fairness

-----------------------------------------------------------------------------
(* Properties.                                                             *)

\* The page of a busy update has neither bar nor button: whenever it is shown, the
\* loop that will end it still runs.
BusyIsPolled == state = "busy" => loop \in {"poll", "delay"}

\* Nor does the page have a way out of an error of check(): RefreshView hides the
\* button then.  So it is never shown in this state.
ErrorIsNotShown == page = "refresh" => state # "error"

\* A user who waits on the refresh page for an update under way gets to see that it
\* is over, although check() may have overwritten what the loop had found.
EndOfUpdateShown ==
  (page = "refresh" /\ loop # "idle") ~> (state = "done" \/ page # "refresh")
=============================================================================
