---------------------------- MODULE ProvdDaemon ----------------------------
(***************************************************************************)
(* provd as a process: main and its signal handler run side by side, the   *)
(* daemon listens on a socket file, the manager registers the services     *)
(* whose D-Bus objects answer, and requests are served in goroutines until *)
(* a signal asks for a graceful stop.  The session script starts provd and *)
(* runs the first-boot client as soon as the socket file exists; it may be *)
(* started again after provd has ended or was killed.                      *)
(***************************************************************************)
EXTENDS GdmService, ProvdApi, Sequences, FiniteSets

CONSTANTS
  MethodOf,     \* the service and the method that a request is for
  MaxSent,      \* bound on the requests sent
  MaxStarts,    \* bound on the starts of the script
  MaxSignals    \* bound on the signals sent

ASSUME DaemonAssumption ==
  /\ MethodOf \in [Requests -> Calls]
  /\ \A r \in Requests : r \in Launches <=> MethodOf[r][1] = "gdm"
  /\ MaxSent \in Nat
  /\ MaxStarts \in Nat
  /\ MaxSignals \in Nat

VARIABLES
  main,       \* see Steps
  code,       \* the exit code of this process
  ready,      \* a.ready is closed
  published,  \* a.daemon is set
  pending,    \* the channel of the signal handler, with room for one
  handler,    \* the goroutine of the signal handler
  server,     \* the gRPC server
  registered, \* its services
  bus,        \* the connection to the system bus
  socket,     \* the socket file: "stale" when nobody listens
  client,     \* the script has started the client
  starts, signals,  \* counted for the bounds
  asked       \* a signal to end this process was put in the channel (history)

processVars == <<main, code, ready, published, pending, handler, server, registered, bus, asked, signals>>
sessionVars == <<socket, client, starts>>
vars == <<calls, gdmVars, processVars, sessionVars>>

\* main: Run (keyring, execute), serve (manager, listen, publish), Serve
\* (notify, accept, serving), the deferred Stop (stop), the deferred end of
\* the signal handler (uninstall, wait), and the process that is gone.
Steps == {"keyring", "execute", "manager", "listen", "publish", "notify",
          "accept", "serving", "stop", "uninstall", "wait"}
Alive == main \in Steps

Init ==
  /\ GdmInit
  /\ main = "off"
  /\ code = 0
  /\ ready = FALSE
  /\ published = FALSE
  /\ pending = <<>>
  /\ handler = "done"
  /\ server = "none"
  /\ registered = {}
  /\ bus = "none"
  /\ socket = "none"
  /\ client = FALSE
  /\ starts = 0
  /\ signals = 0
  /\ asked = FALSE

------------------------------------------------------------------------------
\* The process ends: a listener that is still open leaves its file behind,
\* the connections to its clients, to the bus and to GDM are gone.
End(exit) ==
  /\ main' = exit
  /\ socket' = IF socket = "live" THEN "stale" ELSE socket
  /\ Drop({"sent"} \cup Running)
  /\ verifying' = Idle
  /\ opened' = NoLaunch
  /\ handler' = "done"
  /\ pending' = <<>>
  /\ bus' = "none"
  /\ ready' = FALSE
  /\ published' = FALSE
  /\ server' = "none"
  /\ registered' = {}

\* The script: it starts provd in the background.
Start ==
  /\ ~Alive
  /\ starts < MaxStarts
  /\ starts' = starts + 1
  /\ main' = "keyring"
  /\ handler' = "receive"
  /\ code' = 0
  /\ client' = FALSE
  /\ asked' = FALSE
  /\ UNCHANGED <<calls, gdmVars, signals, ready, published, pending, server, registered, bus, socket>>

\* Mutant: the script does not wait for the socket.
RunClientAtOnce ==
  /\ starts > 0
  /\ ~client
  /\ client' = TRUE
  /\ UNCHANGED <<calls, gdmVars, processVars, socket, starts>>

\* The script: the client runs once the socket file is there.
RunClient ==
  /\ starts > 0
  /\ ~client
  /\ socket # "none"
  /\ client' = TRUE
  /\ UNCHANGED <<calls, gdmVars, processVars, socket, starts>>

------------------------------------------------------------------------------
\* main.  Every step leaves the requests and the session alone unless it says
\* otherwise.
Step(from, to) == main = from /\ main' = to

Fail(from, to, exit) == Step(from, to) /\ code' = exit

\* Run: a keyring that cannot be unlocked ends it.  No command has been
\* parsed yet, so that UsageError takes this for an error of usage.
UnlockKeyring ==
  /\ \/ Step("keyring", "execute") /\ UNCHANGED code
     \/ Fail("keyring", "uninstall", 2)
  /\ UNCHANGED <<calls, gdmVars, sessionVars, ready, published, pending, handler, server, registered, bus, asked, signals>>

\* Execute: provd is started without arguments; a configuration file that
\* cannot be read or decoded ends it.
Execute ==
  /\ \/ Step("execute", "manager") /\ UNCHANGED code
     \/ Fail("execute", "uninstall", 1)
  /\ UNCHANGED <<calls, gdmVars, sessionVars, ready, published, pending, handler, server, registered, bus, asked, signals>>

\* The services whose constructors succeed, depending on what answers.
Working == {{s \in Services : Needs[s] \subseteq up} : up \in SUBSET Externals}

\* NewManager: the services are made one after the other.  A service that
\* cannot be made ends provd, an optional one is not registered.
NewManager ==
  /\ \/ /\ Step("manager", "listen")
        /\ \E made \in Working :
             Services \ Optional \subseteq made /\ registered' = made
        /\ UNCHANGED <<code, ready>>
     \/ /\ Fail("manager", "uninstall", 1)
        /\ \E made \in Working : ~ (Services \ Optional \subseteq made)
        /\ ready' = TRUE
        /\ UNCHANGED registered
  /\ bus' = "open"
  /\ UNCHANGED <<calls, gdmVars, sessionVars, published, pending, handler, server, asked, signals>>

\* Without a system bus, the error is kept for later and the first service
\* calls a method of no connection: provd panics.
NewManagerPanics ==
  /\ main = "manager"
  /\ End("exited")
  /\ code' = 2
  /\ UNCHANGED <<started, mixed, client, starts, asked, signals>>

\* daemon.New: a file at the path of the socket, left by an earlier process,
\* makes Listen fail; a socket that cannot be changed stays behind.
NewDaemon ==
  /\ \/ /\ socket = "none"
        /\ Step("listen", "publish")
        /\ socket' = "live"
        /\ server' = "new"
        /\ UNCHANGED <<code, ready>>
     \/ /\ Fail("listen", "stop", 1)
        /\ ready' = TRUE
        /\ socket' \in IF socket = "none" THEN {"none", "live"} ELSE {socket}
        /\ UNCHANGED server
  /\ UNCHANGED <<calls, gdmVars, client, starts, published, pending, handler, registered, bus, asked, signals>>

Publish ==
  /\ Step("publish", "notify")
  /\ published' = TRUE
  /\ ready' = TRUE
  /\ UNCHANGED <<calls, gdmVars, sessionVars, code, pending, handler, server, registered, bus, asked, signals>>

\* Serve: systemd is told first; an error leaves the listener open.
Notify ==
  /\ \/ Step("notify", "accept") /\ UNCHANGED code
     \/ Fail("notify", "stop", 1)
  /\ UNCHANGED <<calls, gdmVars, sessionVars, ready, published, pending, handler, server, registered, bus, asked, signals>>

\* A server that was stopped before it serves closes the listener.
Serve ==
  /\ \/ /\ server = "new"
        /\ Step("accept", "serving")
        /\ server' = "serving"
        /\ UNCHANGED <<calls, socket, code>>
     \/ /\ server = "stopped"
        /\ Fail("accept", "stop", 1)
        /\ Drop({"sent"})
        /\ socket' = "none"
        /\ UNCHANGED server
  /\ UNCHANGED <<gdmVars, client, starts, ready, published, pending, handler, registered, bus, asked, signals>>

\* The server's Serve returns when the stop is complete.
Served ==
  /\ Step("serving", "stop")
  /\ server = "stopped"
  /\ UNCHANGED <<calls, gdmVars, sessionVars, code, ready, published, pending, handler, server, registered, bus, asked, signals>>

\* The deferred Stop of the manager, also of its connection to GDM.
StopManager ==
  /\ Step("stop", "uninstall")
  /\ bus' = "closed"
  /\ verifying' = Idle
  /\ opened' = NoLaunch
  /\ UNCHANGED <<calls, started, mixed, sessionVars, code, ready, published, pending, handler, server, registered, asked, signals>>

\* signal.Stop and close(c); main then waits for the handler.
Uninstall ==
  /\ Step("uninstall", "wait")
  /\ UNCHANGED <<calls, gdmVars, sessionVars, code, ready, published, pending, handler, server, registered, bus, asked, signals>>

Exit ==
  /\ main = "wait"
  /\ handler = "done"
  /\ End("exited")
  /\ UNCHANGED <<started, mixed, client, starts, code, asked, signals>>

Main ==
  \/ UnlockKeyring \/ Execute \/ NewManager \/ NewManagerPanics \/ NewDaemon
  \/ Publish \/ Notify \/ Serve \/ Served \/ StopManager \/ Uninstall \/ Exit

------------------------------------------------------------------------------
\* A signal: dropped when the channel is full, deadly once signal.Stop has
\* restored its default.
Interrupt(s) ==
  /\ Alive
  /\ signals < MaxSignals
  /\ signals' = signals + 1
  /\ \/ /\ main # "wait"
        /\ pending' = IF pending = <<>> THEN <<s>> ELSE pending
        /\ asked' = (asked \/ (pending = <<>> /\ s = "SIGTERM"))
        /\ UNCHANGED <<calls, gdmVars, sessionVars, main, code, ready, published, handler, server, registered, bus>>
     \/ /\ main = "wait"
        /\ End("killed")
        /\ UNCHANGED <<started, mixed, client, starts, code, asked>>

\* A crash, or a signal that cannot be handled.
Kill ==
  /\ Alive
  /\ Faults
  /\ End("killed")
  /\ UNCHANGED <<started, mixed, client, starts, code, asked, signals>>

\* GDM ends the private connection under a launch.  godbus closes the channel
\* of the launch: the loop takes a signal that is nil, and a launch that waits
\* for an answer closes its channel a second time when it returns.  Either is
\* a panic.  Without a launch under way, only later launches notice: their
\* first call fails.
GdmLeaves ==
  /\ Faults
  /\ bus = "open"
  /\ \E r \in Launches : Listens(r)
  /\ End("exited")
  /\ code' = 2
  /\ UNCHANGED <<started, mixed, client, starts, asked, signals>>

Handle(from, to) ==
  /\ Alive
  /\ handler = from
  /\ handler' = to

\* Mutant: SIGHUP ends the handler.
TakeSignalOnce ==
  /\ \/ /\ pending # <<>>
        /\ Handle("receive", IF Head(pending) = "SIGTERM" THEN "quit" ELSE "done")
        /\ pending' = Tail(pending)
     \/ /\ pending = <<>>
        /\ main = "wait"
        /\ Handle("receive", "done")
        /\ UNCHANGED pending
  /\ UNCHANGED <<calls, gdmVars, sessionVars, main, code, ready, published, server, registered, bus, asked, signals>>

\* The handler takes the next signal; the channel is closed behind the last.
TakeSignal ==
  /\ \/ /\ pending # <<>>
        /\ Handle("receive", IF Head(pending) = "SIGTERM" THEN "quit" ELSE "hup")
        /\ pending' = Tail(pending)
     \/ /\ pending = <<>>
        /\ main = "wait"
        /\ Handle("receive", "done")
        /\ UNCHANGED pending
  /\ UNCHANGED <<calls, gdmVars, sessionVars, main, code, ready, published, server, registered, bus, asked, signals>>

\* Hup prints all stacks and never quits.
Hup ==
  /\ Handle("hup", "receive")
  /\ UNCHANGED <<calls, gdmVars, sessionVars, main, code, ready, published, pending, server, registered, bus, asked, signals>>

\* Mutant: closing the listener leaves its file.
QuitKeepsSocket ==
  /\ ready
  /\ \/ ~published /\ Handle("quit", "done") /\ UNCHANGED <<calls, server>>
     \/ /\ published
        /\ Handle("quit", "drain")
        /\ \/ server = "serving" /\ server' = "draining" /\ Drop({"sent"})
           \/ server # "serving" /\ server' = "stopped" /\ UNCHANGED calls
  /\ UNCHANGED <<gdmVars, socket, client, starts, main, code, ready, published, pending, registered, bus, asked, signals>>

\* Quit waits until serve has got somewhere.  GracefulStop closes the
\* listener of a server that serves; one that does not is stopped at once.
Quit ==
  /\ ready
  /\ \/ ~published /\ Handle("quit", "done") /\ UNCHANGED <<calls, server, socket>>
     \/ /\ published
        /\ Handle("quit", "drain")
        /\ \/ server = "serving" /\ server' = "draining" /\ Drop({"sent"}) /\ socket' = "none"
           \/ server # "serving" /\ server' = "stopped" /\ UNCHANGED <<calls, socket>>
  /\ UNCHANGED <<gdmVars, client, starts, main, code, ready, published, pending, registered, bus, asked, signals>>

Busy == {r \in Requests : calls[r].pc \in Running}

\* Mutant: Stop instead of GracefulStop.
DrainedAtOnce ==
  /\ Handle("drain", "done")
  /\ server' = "stopped"
  /\ UNCHANGED <<calls, gdmVars, sessionVars, main, code, ready, published, pending, registered, bus, asked, signals>>

\* GracefulStop waits for the requests under way.
Drained ==
  /\ Busy = {}
  /\ Handle("drain", "done")
  /\ server' = "stopped"
  /\ UNCHANGED <<calls, gdmVars, sessionVars, main, code, ready, published, pending, registered, bus, asked, signals>>

Handler == TakeSignal \/ Hup \/ Quit \/ Drained

------------------------------------------------------------------------------
\* Requests.  Connecting succeeds while somebody listens.
Send(r) ==
  /\ client
  /\ calls[r].pc = "idle"
  /\ Cardinality({q \in Requests : calls[q].pc # "idle"}) < MaxSent
  /\ Go(r, IF socket = "live" THEN "sent" ELSE "unavailable")
  /\ UNCHANGED <<gdmVars, processVars, sessionVars>>

\* A service that is registered has the method, or there is no handler.
Routed(r) ==
  LET service == MethodOf[r][1]
  IN  service \in registered /\ MethodOf[r][2] \in Methods[service]

\* The server starts a handler for it, or answers Unimplemented.
Dispatch(r) ==
  /\ server = "serving"
  /\ calls[r].pc = "sent"
  /\ \/ Routed(r) /\ r \in Launches /\ Enter(r)
     \/ Routed(r) /\ r \notin Launches /\ Go(r, "running") /\ UNCHANGED gdmVars
     \/ ~Routed(r) /\ Go(r, "unimplemented") /\ UNCHANGED gdmVars
  /\ UNCHANGED <<processVars, sessionVars>>

\* A handler of any other service: a few calls on the bus, each answered.
Answer(r) ==
  /\ calls[r].pc = "running"
  /\ \/ Go(r, "ok")
     \/ Faults /\ Go(r, "error")
  /\ UNCHANGED <<gdmVars, processVars, sessionVars>>

Leave(r) == GiveUp(r) /\ UNCHANGED <<processVars, sessionVars>>

Launch(r) == LaunchDesktopSession(r) /\ UNCHANGED <<processVars, sessionVars>>
GdmSteps == bus = "open" /\ Gdm /\ UNCHANGED <<processVars, sessionVars>>

Serving == \E r \in Requests : Dispatch(r) \/ Answer(r)
Launching == \E r \in Launches : Launch(r)

Next ==
  \/ Start \/ RunClient
  \/ Main \/ Handler
  \/ \E s \in {"SIGTERM", "SIGHUP"} : Interrupt(s)
  \/ Kill \/ GdmLeaves
  \/ \E r \in Requests : Send(r)
  \/ \E r \in Launches : Leave(r)
  \/ Serving \/ Launching \/ GdmSteps

\* The processes go on, and GDM answers; nobody owes a signal or a request.
Fairness ==
  /\ WF_vars(Main) /\ WF_vars(Handler)
  /\ WF_vars(Serving) /\ WF_vars(Launching) /\ WF_vars(GdmSteps)
  /\ WF_vars(RunClient)

Spec == Init /\ [][Next]_vars /\ Fairness

------------------------------------------------------------------------------
TypeOK ==
  /\ GdmTypeOK
  /\ main \in Steps \cup {"off", "exited", "killed"}
  /\ code \in 0..2
  /\ ready \in BOOLEAN
  /\ published \in BOOLEAN
  /\ pending \in Seq({"SIGTERM", "SIGHUP"}) /\ Len(pending) <= 1
  /\ handler \in {"receive", "hup", "quit", "drain", "done"}
  /\ server \in {"none", "new", "serving", "draining", "stopped"}
  /\ registered \subseteq Services
  /\ bus \in {"none", "open", "closed"}
  /\ socket \in {"none", "live", "stale"}
  /\ client \in BOOLEAN
  /\ starts \in 0..MaxStarts
  /\ signals \in 0..MaxSignals
  /\ asked \in BOOLEAN

\* No handler of a request outlives the connection to the bus it works with,
\* although main closes it as soon as Serve returns and the stop is asked for
\* by another goroutine (serve, Quit, Manager.Stop).
BusOutlivesRequests ==
  Busy # {} => bus = "open" /\ server \in {"serving", "draining"}

\* A process that ended by itself with 0 was asked to, and has removed its
\* socket, so that the script can start another one.
CleanExit ==
  (main = "exited" /\ code = 0) => asked /\ socket = "none"

\* During the first start, a client finds nobody at the socket only when
\* provd has failed, has been asked to end or was killed: the script has
\* waited long enough.
ClientFindsServer ==
  (\E r \in Requests : calls[r].pc = "unavailable") =>
     asked \/ code # 0 \/ main = "killed" \/ starts > 1

\* A process that has come to publish its daemon or its failure ends when it
\* is asked to, whatever it is doing and however many signals it gets.
AskedEnds == (asked /\ ready) ~> ~Alive

\* A request that has been sent is answered, or finds provd gone.
RequestsEnd == \A r \in Requests : (calls[r].pc = "sent" /\ server = "serving") ~> (calls[r].pc \in Over)
=============================================================================
