----------------------------- MODULE GdmService -----------------------------
(***************************************************************************)
(* The gdm service of provd: LaunchDesktopSession begins a verification,   *)
(* answers GDM's query with the password and starts the session that GDM   *)
(* opens.  GDM speaks in signals on one private connection, so that every  *)
(* call under way sees the signals meant for any other.  The channel of a  *)
(* call is unbuffered: while the call waits for an answer on the bus, each *)
(* signal waits in a goroutine of its own, and they arrive in any order.   *)
(*                                                                         *)
(* GDM is external: it asks for a secret, checks it for the user of the    *)
(* latest verification, and reports a problem or an opened session.        *)
(***************************************************************************)
EXTENDS Naturals

CONSTANTS
  Requests,   \* what clients ask provd for, each once
  Launches,   \* the requests for LaunchDesktopSession
  Fits,       \* <<r, v>>: the password of r is right for the user of v
  NoLaunch,   \* no verification has begun, or no session is open
  Faults      \* whether calls on the bus fail

ASSUME LaunchesAssumption ==
  /\ Launches \subseteq Requests
  /\ Fits \subseteq Launches \X Launches
  /\ NoLaunch \notin Launches
  /\ Faults \in BOOLEAN

VARIABLES
  calls,     \* every request: where it is, its signals, whether its client left
  verifying, \* GDM's verification: the launch it was begun by, and its stage
  opened,    \* the launch whose session GDM has opened last
  started,   \* how often the session of a launch has been started
  mixed      \* a launch began before GDM was done with another one (history)

gdmVars == <<verifying, opened, started, mixed>>

\* A signal with the verification it is about, which the code does not see.
Signal == [kind: {"SecretInfoQuery", "Problem", "SessionOpened"}, of: Launches]

\* Where a request is: not sent, waiting at the socket, in its handler, over.
InLaunch == {"begin", "loop", "answer", "start"}
Running == InLaunch \cup {"running"}
Over == {"ok", "error", "unimplemented", "unavailable"}

Call == [pc: {"idle", "sent"} \cup Running \cup Over, inbox: SUBSET Signal, left: BOOLEAN]

\* A request that has no channel.
Bare(pc) == [pc |-> pc, inbox |-> {}, left |-> FALSE]
NewCall == Bare("idle")

Idle == [of |-> NoLaunch, stage |-> "idle"]

GdmInit ==
  /\ calls = [r \in Requests |-> NewCall]
  /\ verifying = Idle
  /\ opened = NoLaunch
  /\ started = [r \in Launches |-> 0]
  /\ mixed = FALSE

------------------------------------------------------------------------------
Listens(r) == calls[r].pc \in InLaunch

Go(r, pc) == calls' = [calls EXCEPT ![r].pc = pc]

\* A call that returns removes and closes its channel; signals in front of
\* it are dropped.
Return(r, pc) == calls' = [calls EXCEPT ![r] = Bare(pc)]

\* The handler starts: its channel is registered before anything else.
Enter(r) ==
  /\ Go(r, "begin")
  /\ mixed' = (mixed \/ verifying # Idle \/ \E s \in Launches \ {r} : Listens(s))
  /\ UNCHANGED <<verifying, opened, started>>

\* A call on the bus may fail before or after it had its effect.
BeginVerificationForUser(r) ==
  /\ calls[r].pc = "begin"
  /\ \/ verifying' = [of |-> r, stage |-> "query"] /\ Go(r, "loop")
     \/ Faults /\ verifying' = [of |-> r, stage |-> "query"] /\ Return(r, "error")
     \/ Faults /\ Return(r, "error") /\ UNCHANGED verifying
  /\ UNCHANGED <<opened, started, mixed>>

\* Mutant: a problem ends the call like an opened session.
ReceiveProblemAsSuccess(r) ==
  /\ calls[r].pc = "loop"
  /\ \E s \in calls[r].inbox :
       \/ s.kind = "Problem" /\ Return(r, "ok")
       \/ /\ s.kind # "Problem"
          /\ calls' = [calls EXCEPT ![r].inbox = @ \ {s},
                                    ![r].pc = IF s.kind = "SecretInfoQuery" THEN "answer" ELSE "start"]
  /\ UNCHANGED gdmVars

\* The loop takes one of the signals in front of the channel.
Receive(r) ==
  /\ calls[r].pc = "loop"
  /\ \E s \in calls[r].inbox :
       \/ s.kind = "Problem" /\ Return(r, "error")
       \/ /\ s.kind # "Problem"
          /\ calls' = [calls EXCEPT ![r].inbox = @ \ {s},
                                    ![r].pc = IF s.kind = "SecretInfoQuery" THEN "answer" ELSE "start"]
  /\ UNCHANGED gdmVars

\* The context ends with its client; the loop notices between two calls.
DeadlineExceeded(r) ==
  /\ calls[r].pc = "loop"
  /\ calls[r].left
  /\ Return(r, "error")
  /\ UNCHANGED gdmVars

\* GDM checks the answer for the verification it is busy with.
Checked(r) ==
  IF verifying.stage = "asked"
  THEN [verifying EXCEPT !.stage = IF <<r, verifying.of>> \in Fits THEN "right" ELSE "wrong"]
  ELSE verifying

AnswerQuery(r) ==
  /\ calls[r].pc = "answer"
  /\ \/ verifying' = Checked(r) /\ Go(r, "loop")
     \/ Faults /\ verifying' = Checked(r) /\ Return(r, "error")
     \/ Faults /\ Return(r, "error") /\ UNCHANGED verifying
  /\ UNCHANGED <<opened, started, mixed>>

\* The session is the one that GDM has open; its service name is all that
\* the signal says of it.
StartSessionWhenReady(r) ==
  /\ calls[r].pc = "start"
  /\ \/ started' = [started EXCEPT ![opened] = @ + 1] /\ Return(r, "ok")
     \/ Faults /\ started' = [started EXCEPT ![opened] = @ + 1] /\ Return(r, "error")
     \/ Faults /\ Return(r, "error") /\ UNCHANGED started
  /\ UNCHANGED <<verifying, opened, mixed>>

LaunchDesktopSession(r) ==
  \/ BeginVerificationForUser(r) \/ Receive(r) \/ DeadlineExceeded(r)
  \/ AnswerQuery(r) \/ StartSessionWhenReady(r)

------------------------------------------------------------------------------
\* Mutant: a signal that finds no loop waiting is lost.
EmitUnbuffered(kind) ==
  calls' = [r \in Requests |->
              IF calls[r].pc = "loop"
              THEN [calls[r] EXCEPT !.inbox = @ \cup {[kind |-> kind, of |-> verifying.of]}]
              ELSE calls[r]]

\* GDM's side.  A signal goes to the channel of every call under way.
Emit(kind) ==
  calls' = [r \in Requests |->
              IF Listens(r)
              THEN [calls[r] EXCEPT !.inbox = @ \cup {[kind |-> kind, of |-> verifying.of]}]
              ELSE calls[r]]

AskSecret ==
  /\ verifying.stage = "query"
  /\ Emit("SecretInfoQuery")
  /\ verifying' = [verifying EXCEPT !.stage = "asked"]
  /\ UNCHANGED <<opened, started, mixed>>

OpenSession ==
  /\ verifying.stage = "right"
  /\ Emit("SessionOpened")
  /\ opened' = verifying.of
  /\ verifying' = Idle
  /\ UNCHANGED <<started, mixed>>

ReportProblem ==
  /\ verifying.stage = "wrong"
  /\ Emit("Problem")
  /\ verifying' = Idle
  /\ UNCHANGED <<opened, started, mixed>>

Gdm == AskSecret \/ OpenSession \/ ReportProblem

------------------------------------------------------------------------------
(* The process that hosts the service, and its clients *)

\* What the end of a listener, or of the whole process, does to requests.
Drop(pcs) ==
  calls' = [r \in Requests |->
              IF calls[r].pc \in pcs THEN Bare("unavailable")
              ELSE calls[r]]

\* The client ends, or gives a launch up.  The handlers of other services do
\* not look at their context.
GiveUp(r) ==
  /\ Listens(r)
  /\ ~calls[r].left
  /\ calls' = [calls EXCEPT ![r].left = TRUE]
  /\ UNCHANGED gdmVars

\* A request is sent or turned away, or goes on in another service.
Pass(r) ==
  /\ \/ calls[r].pc = "idle" /\ \E pc \in {"sent", "unavailable"} : Go(r, pc)
     \/ calls[r].pc = "sent" /\ Go(r, "unimplemented")
     \/ calls[r].pc = "sent" /\ r \notin Launches /\ Go(r, "running")
     \/ calls[r].pc = "running" /\ \E pc \in {"ok", "error"} : Go(r, pc)
  /\ UNCHANGED gdmVars

CloseListener == Drop({"sent"}) /\ UNCHANGED gdmVars

\* The connection to GDM ends, with the whole process or between two launches.
Disconnect ==
  /\ verifying' = Idle
  /\ opened' = NoLaunch
  /\ \/ Drop({"sent"} \cup Running)
     \/ (\A r \in Launches : ~Listens(r)) /\ UNCHANGED calls
  /\ UNCHANGED <<started, mixed>>

GdmNext ==
  \/ \E r \in Requests : Pass(r)
  \/ \E r \in Launches : calls[r].pc = "sent" /\ Enter(r)
  \/ \E r \in Launches : LaunchDesktopSession(r) \/ GiveUp(r)
  \/ Gdm \/ CloseListener \/ Disconnect

\* The service in any process that does not cut GDM off while a launch is
\* under way.
GdmSpec == GdmInit /\ [][GdmNext]_<<calls, gdmVars>>

------------------------------------------------------------------------------
GdmTypeOK ==
  /\ calls \in [Requests -> Call]
  /\ verifying \in [of: Launches, stage: {"query", "asked", "right", "wrong"}] \cup {Idle}
  /\ opened \in Launches \cup {NoLaunch}
  /\ started \in [Launches -> Nat]
  /\ mixed \in BOOLEAN
  /\ \A r \in Launches : calls[r].pc = "start" => opened # NoLaunch

\* As long as GDM deals with one launch after the other, a launch that
\* reports success has been verified with its own password and has started
\* one session, its own; a launch that reports an error has started it once
\* at most.  Signals that overtake each other, failing calls and clients
\* that leave do not change this (the loop of LaunchDesktopSession).
LaunchedIsVerified ==
  ~mixed => \A r \in Launches :
              /\ calls[r].pc = "ok" => <<r, r>> \in Fits /\ started[r] = 1
              /\ started[r] > 0 => started[r] = 1 /\ <<r, r>> \in Fits
=============================================================================
