--------------------------- MODULE StatusMonitor ---------------------------
(***************************************************************************)
(* SubiquityClient.monitorStatus() and the SubiquityStatusMonitor behind    *)
(* it, one monitor per subscription, over a server that changes state,      *)
(* breaks connections and restarts.                                         *)
(*                                                                          *)
(* A monitor first fetches the status and then polls: it sends the state it *)
(* knows and the server answers when its state differs.  The answer may be  *)
(* out of date when it is handled.  A status is a position in log, the      *)
(* history of the server's states; 0 is Dart's null.                        *)
(***************************************************************************)
EXTENDS Naturals, Sequences

CONSTANTS
  Monitors,    \* the subscriptions
  States,      \* the application states the server goes through
  MaxChanges,  \* bound: length of the history
  NoReply,     \* no request is outstanding
  Asked,       \* a request is outstanding
  Lost         \* it failed

ApplicationState ==
  {"STARTING_UP", "CLOUD_INIT_WAIT", "EARLY_COMMANDS", "NEEDS_CONFIRMATION", "WAITING",
   "RUNNING", "UU_RUNNING", "LATE_COMMANDS", "DONE", "ERROR", "EXITED"}

ASSUME MonitorAssumption ==
  /\ {"STARTING_UP", "DONE", "ERROR", "EXITED"} \subseteq States
  /\ States \subseteq ApplicationState
  /\ MaxChanges \in Nat \ {0}
  /\ NoReply # Asked /\ NoReply # Lost /\ Asked # Lost
  /\ {NoReply, Asked, Lost} \cap Nat = {}

VARIABLES
  log,      \* history of the server's states, the current one last
  up,       \* FALSE while the server restarts
  phase,    \* where monitorStatus() is, per monitor
  status,   \* SubiquityStatusMonitor._status
  reply,    \* the outstanding request: none, asked, lost, or the answer
  seen      \* the last event the subscriber received, 0 after it has cancelled

vars == <<log, up, phase, status, reply, seen>>

\* "open": polling has ended but the stream stays open for ever.
Phase == {"new", "start", "poll", "open", "closed", "failed"}

\* The states after which the monitor stops itself.
Final == {"DONE", "EXITED"}

Current == log[Len(log)]

Active(m) == phase[m] \in {"start", "poll"}

\* The values of the variables; a request is outstanding exactly while a monitor
\* fetches or polls, so stop() leaves none behind.
TypeOK ==
  /\ log \in Seq(States) /\ Len(log) \in 1..MaxChanges
  /\ up \in BOOLEAN
  /\ phase \in [Monitors -> Phase]
  /\ status \in [Monitors -> 0..MaxChanges]
  /\ reply \in [Monitors -> {NoReply, Asked, Lost} \cup (1..MaxChanges)]
  /\ seen \in [Monitors -> 0..MaxChanges]
  /\ \A m \in Monitors : reply[m] # NoReply <=> Active(m)

Init ==
  /\ log = <<"STARTING_UP">>
  /\ up = TRUE
  /\ phase = [m \in Monitors |-> "new"]
  /\ status = [m \in Monitors |-> 0]
  /\ reply = [m \in Monitors |-> NoReply]
  /\ seen = [m \in Monitors |-> 0]

-----------------------------------------------------------------------------
(* The server and the connection.                                          *)

\* The installation ends in DONE or ERROR, after which the server can only exit.
Follows(s) ==
  CASE s = "EXITED" -> {}
    [] s \in {"DONE", "ERROR"} -> {"EXITED"}
    [] OTHER -> States \ {s, "STARTING_UP"}

Change ==
  /\ up /\ Len(log) < MaxChanges
  /\ \E s \in Follows(Current) : log' = Append(log, s)
  /\ UNCHANGED <<up, phase, status, reply, seen>>

\* POST meta/restart replaces the server process; its connections are closed.
StopServer ==
  /\ up /\ Len(log) < MaxChanges
  /\ Current \notin Final
  /\ up' = FALSE
  /\ reply' = [m \in Monitors |-> IF reply[m] = Asked THEN Lost ELSE reply[m]]
  /\ UNCHANGED <<log, phase, status, seen>>

StartServer ==
  /\ ~up
  /\ up' = TRUE
  /\ log' = Append(log, "STARTING_UP")
  /\ UNCHANGED <<phase, status, reply, seen>>

\* GET meta/status: the first request has no "cur", a poll waits for a change.
Differs(m) == status[m] # 0 => log[status[m]] # Current

Answer(m) ==
  /\ up /\ reply[m] = Asked /\ Differs(m)
  /\ reply' = [reply EXCEPT ![m] = Len(log)]
  /\ UNCHANGED <<log, up, phase, status, seen>>

\* A status code other than 200, or a closed connection.
Break(m) ==
  /\ reply[m] = Asked
  /\ reply' = [reply EXCEPT ![m] = Lost]
  /\ UNCHANGED <<log, up, phase, status, seen>>

\* An answer that is not a status.  start() throws, and the stream ends with the
\* error; a poll takes it for a lost connection.
Garble(m) ==
  /\ up /\ reply[m] = Asked
  /\ \/ /\ phase[m] = "start"
        /\ phase' = [phase EXCEPT ![m] = "failed"]
        /\ reply' = [reply EXCEPT ![m] = NoReply]
     \/ /\ phase[m] = "poll"
        /\ reply' = [reply EXCEPT ![m] = Lost]
        /\ UNCHANGED phase
  /\ UNCHANGED <<log, up, status, seen>>

-----------------------------------------------------------------------------
(* The client.                                                             *)

\* A new subscription creates a new SubiquityStatusMonitor.  Its start() throws
\* when it cannot connect: the stream ends with the error.
Start(m) ==
  /\ phase[m] \in {"new", "open", "closed", "failed"}
  /\ phase' = [phase EXCEPT ![m] = IF up THEN "start" ELSE "failed"]
  /\ reply' = [reply EXCEPT ![m] = IF up THEN Asked ELSE NoReply]
  /\ status' = [status EXCEPT ![m] = 0]
  /\ seen' = [seen EXCEPT ![m] = 0]
  /\ UNCHANGED <<log, up>>

\* Mutant: the monitor does not stop itself after a final state.
PollingOn(m, n) == n # 0

\* _updateStatus followed by the condition of the loop in _listen: a status
\* that is null or final ends the polling.
Polling(m, n) == n # 0 /\ log[n] \notin Final

StatusOf(r) == IF r = Lost THEN 0 ELSE r

\* A poll that cannot connect fails at once.
Poll == IF up THEN Asked ELSE Lost

\* monitorStatus() yields the status that start() leaves.  A final status has
\* been reset by stop() by then, and onStatusChanged opens a stream that
\* nobody will ever write to or close.
StartReply(m) ==
  /\ phase[m] = "start" /\ reply[m] \notin {NoReply, Asked}
  /\ LET n == StatusOf(reply[m]) IN
     IF Polling(m, n)
     THEN /\ phase' = [phase EXCEPT ![m] = "poll"]
          /\ status' = [status EXCEPT ![m] = n]
          /\ seen' = [seen EXCEPT ![m] = n]
          /\ reply' = [reply EXCEPT ![m] = Poll]
     ELSE /\ phase' = [phase EXCEPT ![m] = "open"]
          /\ status' = [status EXCEPT ![m] = 0]
          /\ seen' = [seen EXCEPT ![m] = 0]
          /\ reply' = [reply EXCEPT ![m] = NoReply]
  /\ UNCHANGED <<log, up>>

\* Mutant: the loop ends without _updateStatus(null).
PollReplyQuiet(m) ==
  /\ phase[m] = "poll" /\ reply[m] \notin {NoReply, Asked}
  /\ LET n == StatusOf(reply[m]) IN
     IF Polling(m, n)
     THEN /\ seen' = [seen EXCEPT ![m] = n]
          /\ status' = [status EXCEPT ![m] = n]
          /\ reply' = [reply EXCEPT ![m] = Poll]
          /\ UNCHANGED phase
     ELSE /\ seen' = [seen EXCEPT ![m] = IF n = 0 THEN @ ELSE n]
          /\ status' = [status EXCEPT ![m] = 0]
          /\ reply' = [reply EXCEPT ![m] = NoReply]
          /\ phase' = [phase EXCEPT ![m] = IF n = 0 THEN "open" ELSE "closed"]
  /\ UNCHANGED <<log, up>>

\* The loop adds every new status to the stream; a final one closes it, a null
\* ends the loop and leaves it open.
PollReply(m) ==
  /\ phase[m] = "poll" /\ reply[m] \notin {NoReply, Asked}
  /\ LET n == StatusOf(reply[m]) IN
     /\ seen' = [seen EXCEPT ![m] = n]
     /\ IF Polling(m, n)
        THEN /\ status' = [status EXCEPT ![m] = n]
             /\ reply' = [reply EXCEPT ![m] = Poll]
             /\ UNCHANGED phase
        ELSE /\ status' = [status EXCEPT ![m] = 0]
             /\ reply' = [reply EXCEPT ![m] = NoReply]
             /\ phase' = [phase EXCEPT ![m] = IF n = 0 THEN "open" ELSE "closed"]
  /\ UNCHANGED <<log, up>>

\* The subscriber cancels; the answer of a request under way is dropped.
Cancel(m) ==
  /\ phase[m] \in {"start", "poll", "open"}
  /\ phase' = [phase EXCEPT ![m] = "closed"]
  /\ status' = [status EXCEPT ![m] = 0]
  /\ reply' = [reply EXCEPT ![m] = NoReply]
  /\ seen' = [seen EXCEPT ![m] = 0]
  /\ UNCHANGED <<log, up>>

-----------------------------------------------------------------------------

Server == Change \/ StopServer \/ StartServer
Client(m) == StartReply(m) \/ PollReply(m)

Next ==
  \/ Server
  \/ \E m \in Monitors : Answer(m) \/ Break(m) \/ Garble(m) \/ Start(m) \/ Cancel(m) \/ Client(m)

Fairness ==
  /\ WF_vars(StartServer)
  /\ \A m \in Monitors : WF_vars(Answer(m)) /\ WF_vars(Client(m))

Spec == Init /\ [][Next]_vars /\ Fairness
-----------------------------------------------------------------------------
(* Properties.                                                             *)

Feed == INSTANCE StatusFeed WITH active <- [m \in Monitors |-> Active(m)]

\* What a subscriber receives is a faithful excerpt of the server's history, in
\* order and never behind for long: the whole of StatusFeed.
FeedSpec == Feed!Spec

\* A stream that nobody will write to again has told its subscriber so: its last
\* event is null, and it never is a status that looks current.
SilentStreamSaidNull ==
  \A m \in Monitors : phase[m] = "open" => seen[m] = 0
=============================================================================
