----------------------------- MODULE StatusFeed -----------------------------
(***************************************************************************)
(* What a subscriber of SubiquityClient.monitorStatus() may rely on: the    *)
(* events of a subscription are states the server was in, in the order it   *)
(* was in them, without immediate repetition; after a final state or a null *)
(* there are no more; and an active subscription does not stay behind.      *)
(*                                                                          *)
(* StatusMonitor implements this specification.                             *)
(***************************************************************************)
EXTENDS Naturals, Sequences

CONSTANTS Monitors, States

VARIABLES
  log,     \* every state the server has been in, the current one last
  seen,    \* seen[m]: the position in log of m's last event, 0 for none or null
  active   \* active[m]: more events may follow

vars == <<log, seen, active>>

Final == {"DONE", "EXITED"}

Init ==
  /\ log = <<"STARTING_UP">>
  /\ seen = [m \in Monitors |-> 0]
  /\ active = [m \in Monitors |-> FALSE]

Change ==
  /\ \E s \in States : log' = Append(log, s)
  /\ UNCHANGED <<seen, active>>

\* A subscription that cannot connect is over at once.
Subscribe(m) ==
  /\ ~active[m]
  /\ \E connected \in BOOLEAN : active' = [active EXCEPT ![m] = connected]
  /\ seen' = [seen EXCEPT ![m] = 0]
  /\ UNCHANGED log

Behind(m) == seen[m] # 0 => log[seen[m]] # log[Len(log)]

Report(m) ==
  /\ active[m]
  /\ \E n \in seen[m] + 1 .. Len(log) :
       /\ seen[m] # 0 => log[n] # log[seen[m]]
       /\ seen' = [seen EXCEPT ![m] = n]
       /\ active' = [active EXCEPT ![m] = log[n] \notin Final]
  /\ UNCHANGED log

\* The connection is lost, or the subscriber cancels.
GiveUp(m) ==
  /\ active[m]
  /\ active' = [active EXCEPT ![m] = FALSE]
  /\ \E n \in {0, seen[m]} : seen' = [seen EXCEPT ![m] = n]
  /\ UNCHANGED log

Next == Change \/ \E m \in Monitors : Subscribe(m) \/ Report(m) \/ GiveUp(m)

Spec ==
  /\ Init /\ [][Next]_vars
  /\ \A m \in Monitors : WF_vars(Behind(m) /\ Report(m))
=============================================================================
