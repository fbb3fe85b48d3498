---------------------- MODULE InstallerLifecycleProofs ----------------------
(***************************************************************************)
(* Theorems about InstallerLifecycle, for any number of tries, histories of *)
(* any length and networks that break or not: typing, that the installer    *)
(* uses the monitors as they are specified on their own, that the pages are *)
(* those of a running server that is ready, and that the install page       *)
(* stays.                                                                   *)
(***************************************************************************)
EXTENDS InstallerLifecycle, StatusMonitorProofs

\* Where the restart and the wizard can be together.  The server is only down
\* for a restart, which an interactive wizard on its pages asks for; until the
\* restart is over, loadingProvider keeps what it has.
FlowOK ==
  /\ ~up => restart # "none" /\ interactive
  /\ restart # "none" => loading = "ready"
  /\ route \in {"pages", "confirm", "install"} => loading = "ready"
  /\ restart = "running" /\ interactive => route \notin {"confirm", "install"}

PositionsOK ==
  /\ boot <= Len(log)
  /\ modelStatus <= Len(log)
  /\ tries < MaxTries

\* The wizard for errors has one page.
ErrorOK == View(modelStatus) = "error" => route = "error"

\* What InstallerService.load is told, or will be, is of the running server.
LoadOK ==
  loading = "waiting" =>
    /\ reply["load"] \in Nat => boot <= reply["load"]
    /\ seen["load"] # 0 => boot <= seen["load"]

\* Some status of the running server was not a loading one.
Loaded == \E n \in boot .. Len(log) : ~IsLoading(n)

ReadyOK == loading = "ready" /\ restart = "none" => pagesFrom = boot /\ Loaded

LifeInv ==
  /\ IInv /\ LifeTypeOK
  /\ FlowOK /\ PositionsOK /\ ErrorOK /\ LoadOK /\ ReadyOK

-----------------------------------------------------------------------------
(* The monitors under the installer.                                       *)

Monitors4 == {"init", "load", "app", "install"}

\* Whatever one monitor does, it is not the server that does it.
MonitorStep(m) == Answer(m) \/ Break(m) \/ Start(m) \/ Cancel(m) \/ Client(m)

LEMMA MonitorKeeps ==
  ASSUME TypeOK, NEW m \in Monitors, MonitorStep(m)
  PROVE  /\ UNCHANGED <<log, up>>
         /\ \A k \in Monitors \ {m} : reply'[k] = reply[k] /\ seen'[k] = seen[k]
BY DEF TypeOK, MonitorStep, Answer, Break, Start, Cancel, Client, StartReply, PollReply

\* Every step of the installer is one of the monitors and their server, or
\* none of their business.
LEMMA StepOfMonitors ==
  ASSUME LifeNext
  PROVE  \/ ServerChanges \/ ServerRestarts \/ Restart
         \/ UNCHANGED vars
         \/ \E m \in Monitors : MonitorStep(m)
<1>1. \A m \in Monitors : Link(m) => MonitorStep(m)
  BY DEF Link, MonitorStep
<1>2. Monitors = Monitors4
  BY LifecycleAssumption DEF Monitors4
<1>3. \A m \in Monitors : Wait(m) => MonitorStep(m)
  BY DEF Wait, MonitorStep, Client
<1>4. \A m \in Monitors : Unsubscribe(m) => MonitorStep(m) \/ UNCHANGED vars
  BY DEF Unsubscribe, MonitorStep
<1>5. CASE Waits
  <2>1. WaitAgain \/ StartFails => UNCHANGED vars
    BY DEF WaitAgain, StartFails
  <2>2. Started => MonitorStep("init") \/ UNCHANGED vars
    BY DEF Started, MonitorStep
  <2>3. InitDone => MonitorStep("init") \/ UNCHANGED vars
    BY <1>2, <1>4 DEF InitDone, Monitors4
  <2> QED
    BY <1>2, <1>3, <1>5, <2>1, <2>2, <2>3 DEF Waits, Monitors4
<1>6. CASE Restarts
  BY <1>2, <1>6 DEF Restarts, Restarted, RestartFails, MonitorStep, Monitors4
<1>7. CASE ModelInit \/ ModelStatus \/ InstallStatus
  BY <1>2, <1>7 DEF ModelInit, ModelStatus, InstallStatus, MonitorStep, Client, Monitors4
<1>8. CASE Loads
  <2>1. LoadStarts => MonitorStep("load")
    BY DEF LoadStarts, MonitorStep
  <2>2. LoadDone => MonitorStep("load") \/ UNCHANGED vars
    BY <1>2, <1>4 DEF LoadDone, Monitors4
  <2>3. LeaveLoading => MonitorStep("install") \/ UNCHANGED vars
    BY DEF LeaveLoading, InstallPageLoads, MonitorStep
  <2> QED
    BY <1>2, <1>3, <1>8, <2>1, <2>2, <2>3 DEF Loads, Monitors4
<1>9. CASE LeavePages \/ Install
  BY <1>2, <1>9 DEF LeavePages, Install, InstallPageLoads, MonitorStep, Monitors4
<1> QED
  BY <1>1, <1>5, <1>6, <1>7, <1>8, <1>9 DEF LifeNext, User

LEMMA LifeStepsMonitors ==
  ASSUME [LifeNext]_allVars
  PROVE  [Next]_vars
<1>1. ServerChanges \/ ServerRestarts \/ Restart => Server
  BY DEF ServerChanges, ServerRestarts, Restart, Server
<1>2. UNCHANGED allVars => UNCHANGED vars
  BY DEF allVars
<1> QED
  BY <1>1, <1>2, StepOfMonitors DEF Next, MonitorStep

\* The installer uses the monitors as they are specified on their own: what
\* holds of them there holds here, that they implement StatusFeed included.
THEOREM LifeImplementsMonitors == LifeSpec => Init /\ [][Next]_vars
<1>1. LifeInit => Init
  BY DEF LifeInit
<1> QED
  BY <1>1, LifeStepsMonitors, PTL DEF LifeSpec

-----------------------------------------------------------------------------
(* The history under a step.                                               *)

LEMMA Typed ==
  ASSUME LifeInv
  PROVE  /\ log \in Seq(States) /\ Len(log) \in Nat /\ Len(log) >= 1
         /\ boot \in Nat /\ boot >= 1 /\ boot <= Len(log)
         /\ modelStatus \in Nat /\ modelStatus <= Len(log)
         /\ \A m \in Monitors : seen[m] \in Nat /\ seen[m] <= Len(log)
BY MonitorAssumption DEF LifeInv, IInv, TypeOK, LifeTypeOK, PollOK, MonitorOK, PositionsOK

\* What was at a position stays there.
LEMMA LogGrows ==
  ASSUME LifeInv, [LifeNext]_allVars
  PROVE  /\ Len(log') \in Nat /\ Len(log') >= Len(log)
         /\ \A n \in 1 .. Len(log) : log'[n] = log[n]
<1>1. log' = log \/ \E e \in States : log' = Append(log, e)
  <2>1. CASE ServerChanges
    BY <2>1, MonitorAssumption DEF ServerChanges, Change, Follows
  <2>2. CASE ServerRestarts
    BY <2>2, MonitorAssumption DEF ServerRestarts, StartServer
  <2>3. CASE Restart
    BY <2>3 DEF Restart, StopServer
  <2>4. CASE UNCHANGED vars
    BY <2>4 DEF vars
  <2>5. CASE \E m \in Monitors : MonitorStep(m)
    BY <2>5, MonitorKeeps DEF LifeInv, IInv
  <2>6. CASE UNCHANGED allVars
    BY <2>6 DEF allVars, vars
  <2> QED
    BY <2>1, <2>2, <2>3, <2>4, <2>5, <2>6, StepOfMonitors
<1>2. log \in Seq(States) /\ Len(log) \in Nat
  BY Typed
<1> QED
  BY <1>1, <1>2, AppendFacts

\* The statuses of the running server are read as before, unless it is another.
LEMMA SameReading ==
  ASSUME LifeInv, [LifeNext]_allVars, UNCHANGED <<boot, interactive>>
  PROVE  /\ \A n \in 1 .. Len(log) : IsLoading(n)' <=> IsLoading(n)
         /\ \A n \in 0 .. Len(log) : View(n)' = View(n)
         /\ Loaded => Loaded'
<1>1. /\ Len(log) \in Nat /\ Len(log') \in Nat /\ Len(log') >= Len(log)
      /\ \A n \in 1 .. Len(log) : log'[n] = log[n]
  BY Typed, LogGrows
<1>2. \A n \in 0 .. Len(log) : NonInteractive(n)' <=> NonInteractive(n)
  BY <1>1 DEF NonInteractive
<1>3. \A n \in 1 .. Len(log) : IsLoading(n)' <=> IsLoading(n)
  BY <1>1, <1>2 DEF IsLoading
<1>4. \A n \in 0 .. Len(log) : View(n)' = View(n)
  BY <1>1, <1>2 DEF View
<1>5. Loaded => Loaded'
  BY <1>1, <1>3, Typed DEF Loaded
<1> QED
  BY <1>3, <1>4, <1>5

LEMMA Views ==
  /\ \A n : View(n) \in {"error", "autoinstall", "install"}
  /\ interactive => \A n : View(n) # "autoinstall"
  /\ \A v : FirstRoute(v) \in {"error", "loading"}
BY DEF View, NonInteractive, FirstRoute

LEMMA Replies ==
  ASSUME LifeInv, [LifeNext]_allVars, NEW m \in Monitors
  PROVE  IInv' /\ seen'[m] \in 0 .. MaxChanges /\ seen'[m] <= Len(log')
<1>1. IInv'
  BY NextInv, LifeStepsMonitors DEF LifeInv
<1> QED
  BY <1>1 DEF IInv, TypeOK, PollOK, MonitorOK

-----------------------------------------------------------------------------
(* Typing.                                                                 *)

LEMMA InstallPageTypes ==
  ASSUME LifeInv, InstallPageLoads
  PROVE  /\ installStatus' \in 0 .. MaxChanges
         /\ installs' \in 0 .. 2
         /\ route' \in {"install", "error"}
BY MonitorAssumption DEF InstallPageLoads, pageVars, LifeInv, LifeTypeOK, TypeOK

LEMMA Tries ==
  ASSUME LifeInv, "again" \in WaitOutcomes
  PROVE  tries + 1 \in 0 .. MaxTries /\ tries + 1 < MaxTries
<1>1. ~LastTry
  BY DEF WaitOutcomes
<1> QED
  BY <1>1, LifecycleAssumption DEF LastTry, LifeInv, LifeTypeOK, PositionsOK

LEMMA TypeStep ==
  ASSUME LifeInv, [LifeNext]_allVars
  PROVE  LifeTypeOK'
<1> USE DEF serverVars, appVars, wizardVars, pageVars, lifeVars
<1>0. TypeOK'
  BY NextInv, LifeStepsMonitors DEF LifeInv, IInv
<1>1. LifeTypeOK /\ MaxChanges \in Nat /\ MaxTries \in Nat \ {0}
  BY MonitorAssumption, LifecycleAssumption DEF LifeInv
<1>2. \A m \in Monitors : seen'[m] \in 0 .. MaxChanges
  BY Replies
<1>3. CASE UNCHANGED lifeVars
  BY <1>0, <1>1, <1>3 DEF LifeTypeOK
<1>4. CASE ServerRestarts
  <2>1. boot' \in 1 .. MaxChanges
    BY <1>1, <1>4, Typed DEF ServerRestarts, StartServer, LifeInv, IInv, DownOK
  <2> QED
    BY <1>0, <1>1, <1>4, <2>1 DEF ServerRestarts, LifeTypeOK
<1>5. CASE Waits
  BY <1>0, <1>1, <1>5, Tries DEF Waits, WaitAgain, Started, StartFails, InitDone, Wait, LifeTypeOK
<1>6. CASE Restarts
  BY <1>0, <1>1, <1>6 DEF Restarts, Restarted, RestartFails, FirstRoute, LifeTypeOK
<1>7. CASE ModelStatus
  BY <1>0, <1>1, <1>2, <1>7, LifecycleAssumption DEF ModelStatus, FirstRoute, LifeTypeOK
<1>8. CASE InstallStatus
  BY <1>0, <1>1, <1>2, <1>8, LifecycleAssumption DEF InstallStatus, LifeTypeOK
<1>9. CASE LoadStarts \/ LoadDone
  BY <1>0, <1>1, <1>9 DEF LoadStarts, LoadDone, LifeTypeOK
<1>10. CASE LeaveLoading
  BY <1>0, <1>1, <1>10, InstallPageTypes DEF LeaveLoading, LifeTypeOK
<1>11. CASE Install
  BY <1>0, <1>1, <1>11, InstallPageTypes DEF Install, LifeTypeOK, TypeOK
<1>12. CASE LeavePages \/ Restart
  BY <1>0, <1>1, <1>12 DEF LeavePages, Restart, LifeTypeOK
<1>13. CASE ServerChanges \/ ModelInit \/ (\E m \in Monitors : Link(m)) \/ Wait("load") \/ UNCHANGED allVars
  BY <1>3, <1>13 DEF ServerChanges, ModelInit, Link, Wait, allVars
<1> QED
  BY <1>4, <1>5, <1>6, <1>7, <1>8, <1>9, <1>10, <1>11, <1>12, <1>13 DEF LifeNext, Loads, User

-----------------------------------------------------------------------------
(* The invariant under a step.                                             *)

\* Only the server, and the request to restart it, change whether it is up.
LEMMA UpKept ==
  ASSUME LifeInv, [LifeNext]_allVars, ~ServerRestarts, ~Restart
  PROVE  UNCHANGED up
<1>1. ServerChanges => UNCHANGED up
  BY DEF ServerChanges, Change
<1>2. UNCHANGED vars \/ UNCHANGED allVars => UNCHANGED up
  BY DEF vars, allVars
<1>3. (\E m \in Monitors : MonitorStep(m)) => UNCHANGED up
  BY MonitorKeeps DEF LifeInv, IInv
<1> QED
  BY <1>1, <1>2, <1>3, StepOfMonitors

LEMMA ReadyIsUp == "ready" \in WaitOutcomes => up
BY DEF WaitOutcomes

LEMMA FlowStep ==
  ASSUME LifeInv, [LifeNext]_allVars
  PROVE  FlowOK'
<1> USE DEF serverVars, appVars, wizardVars, pageVars, lifeVars
<1>1. FlowOK
  BY DEF LifeInv
<1>2. CASE ServerRestarts
  BY <1>1, <1>2 DEF ServerRestarts, StartServer, FlowOK
<1>3. CASE Restart
  BY <1>1, <1>3 DEF Restart, FlowOK
<1>4. CASE Restarts
  <2>1. UNCHANGED up
    BY <1>4, UpKept DEF Restarts, Restarted, RestartFails, ServerRestarts, Restart
  <2> QED
    BY <1>1, <1>4, <2>1, ReadyIsUp, Views DEF Restarts, Restarted, RestartFails, FlowOK
<1>5. CASE ~ServerRestarts /\ ~Restart /\ ~Restarts
  <2>1. UNCHANGED up
    BY <1>5, UpKept
  <2>2. CASE UNCHANGED <<interactive, restart, loading, route>>
    BY <1>1, <2>1, <2>2 DEF FlowOK
  <2>3. CASE ModelStatus
    BY <1>1, <2>1, <2>3, Views DEF ModelStatus, FlowOK
  <2>4. CASE LoadStarts \/ LoadDone
    BY <1>1, <2>1, <2>4 DEF LoadStarts, LoadDone, FlowOK
  <2>5. CASE LeaveLoading
    <3>1. route' = "error" \/ (route' = "pages" /\ loading = "ready")
            \/ (route' \in {"confirm", "install"} /\ loading = "ready" /\ ~interactive)
      BY <2>5, Views DEF LeaveLoading, InstallPageLoads
    <3> QED
      BY <1>1, <2>1, <2>5, <3>1 DEF LeaveLoading, FlowOK
  <2>6. CASE LeavePages \/ Install
    BY <1>1, <2>1, <2>6 DEF LeavePages, Install, InstallPageLoads, FlowOK
  <2> QED
    BY <1>5, <2>2, <2>3, <2>4, <2>5, <2>6
       DEF LifeNext, ServerChanges, Link, Waits, WaitAgain, Started, StartFails, InitDone, Wait, ModelInit,
           Loads, InstallStatus, User, allVars
<1> QED
  BY <1>2, <1>3, <1>4, <1>5

LEMMA PositionsStep ==
  ASSUME LifeInv, [LifeNext]_allVars
  PROVE  PositionsOK'
<1> USE DEF serverVars, appVars, wizardVars, pageVars, lifeVars
<1>1. PositionsOK /\ MaxTries \in Nat \ {0} /\ Len(log') \in Nat /\ Len(log') >= Len(log)
  BY LogGrows, LifecycleAssumption DEF LifeInv
<1>2. CASE ServerRestarts
  <2>1. Len(log') = Len(log) + 1
    BY <1>2, AppendFacts, Typed, MonitorAssumption DEF ServerRestarts, StartServer
  <2> QED
    BY <1>1, <1>2, <2>1, Typed DEF ServerRestarts, PositionsOK
<1>3. CASE ModelStatus
  <2>1. modelStatus' <= Len(log')
    BY <1>3, Replies, LifecycleAssumption DEF ModelStatus
  <2> QED
    BY <1>1, <1>3, <2>1, Typed DEF ModelStatus, PositionsOK
<1>4. CASE WaitAgain
  BY <1>1, <1>4, Tries, Typed DEF WaitAgain, PositionsOK
<1>5. CASE Restart
  BY <1>1, <1>5, Typed DEF Restart, PositionsOK
<1>6. CASE UNCHANGED <<boot, modelStatus, tries>>
  BY <1>1, <1>6, Typed DEF PositionsOK
<1> QED
  BY <1>2, <1>3, <1>4, <1>5, <1>6
     DEF LifeNext, ServerChanges, Link, Waits, Started, StartFails, InitDone, Wait, ModelInit, Restarts, Restarted,
         RestartFails, Loads, LoadStarts, LoadDone, LeaveLoading, InstallStatus, User, LeavePages, Install, allVars

\* Whether a status is an error does not depend on which server is running.
LEMMA ErrorStep ==
  ASSUME LifeInv, [LifeNext]_allVars
  PROVE  ErrorOK'
<1> USE DEF serverVars, appVars, wizardVars, pageVars, lifeVars
<1>1. \A n \in 0 .. Len(log) : View(n)' = "error" <=> View(n) = "error"
  BY LogGrows, Typed DEF View
<1>2. ErrorOK /\ modelStatus \in 0 .. Len(log)
  BY Typed DEF LifeInv
<1>3. CASE UNCHANGED <<modelStatus, route>>
  BY <1>1, <1>2, <1>3 DEF ErrorOK, View
<1>4. CASE ModelStatus
  <2>1. UNCHANGED <<log, boot, interactive>>
    BY <1>4 DEF ModelStatus, StartReply, PollReply
  <2>2. View(modelStatus)' = View(modelStatus')
    BY <2>1 DEF View, NonInteractive
  <2> QED
    BY <1>2, <1>4, <2>2 DEF ModelStatus, ErrorOK, FirstRoute
<1>5. CASE Restarted
  BY <1>1, <1>2, <1>5 DEF Restarted, ErrorOK, FirstRoute, View
<1>6. CASE LeaveLoading \/ LeavePages \/ Install
  <2>1. View(modelStatus) # "error" /\ UNCHANGED modelStatus
    BY <1>2, <1>6 DEF LeaveLoading, LeavePages, Install, ErrorOK
  <2> QED
    BY <1>1, <1>2, <2>1 DEF ErrorOK, View
<1> QED
  BY <1>3, <1>4, <1>5, <1>6
     DEF LifeNext, ServerChanges, ServerRestarts, Link, Waits, WaitAgain, Started, StartFails, InitDone, Wait, ModelInit,
         Restarts, RestartFails, Loads, LoadStarts, LoadDone, InstallStatus, User, Restart, allVars

\* A monitor is told of the running server what is asked from now on.
FromBoot ==
  /\ reply["load"] \in Nat => boot <= reply["load"]
  /\ seen["load"] # 0 => boot <= seen["load"]

LEMMA MonitorFromBoot ==
  ASSUME LifeInv, FromBoot, UNCHANGED boot, NEW m \in Monitors, MonitorStep(m)
  PROVE  FromBoot'
<1> DEFINE l == "load"
<1>1. l \in Monitors /\ NoReply \notin Nat /\ Asked \notin Nat /\ Lost \notin Nat
  BY LifecycleAssumption, MonitorAssumption
<1>2. TypeOK
  BY DEF LifeInv, IInv
<1>3. CASE m # l
  BY <1>1, <1>2, <1>3, MonitorKeeps DEF FromBoot
<1>4. CASE m = l
  <2>1. CASE Answer(l)
    <3>1. reply'[l] = Len(log) /\ seen'[l] = seen[l]
      BY <1>1, <1>2, <2>1 DEF Answer, TypeOK
    <3> QED
      BY <3>1, Typed DEF FromBoot
  <2>2. CASE Break(l)
    BY <1>1, <1>2, <2>2 DEF Break, TypeOK, FromBoot
  <2>3. CASE Start(l) \/ Cancel(l)
    BY <1>1, <1>2, <2>3 DEF Start, Cancel, TypeOK, FromBoot
  <2>4. CASE Client(l)
    <3>1. reply'[l] \notin Nat /\ seen'[l] \in {0, StatusOf(reply[l])}
      BY <1>1, <1>2, <2>4 DEF Client, StartReply, PollReply, Poll, TypeOK
    <3>2. reply[l] \notin {NoReply, Asked}
      BY <2>4 DEF Client, StartReply, PollReply
    <3> QED
      BY <1>1, <1>2, <3>1, <3>2, MonitorAssumption DEF StatusOf, TypeOK, FromBoot
  <2> QED
    BY <1>4, <2>1, <2>2, <2>3, <2>4 DEF MonitorStep
<1> QED
  BY <1>3, <1>4

LEMMA LoadStep ==
  ASSUME LifeInv, [LifeNext]_allVars
  PROVE  LoadOK'
<1> USE DEF serverVars, appVars, wizardVars, pageVars, lifeVars
<1>1. LoadOK /\ FlowOK
  BY DEF LifeInv
<1>2. CASE LoadStarts
  <2>1. "load" \in Monitors /\ TypeOK /\ NoReply \notin Nat /\ Asked \notin Nat
    BY LifecycleAssumption, MonitorAssumption DEF LifeInv, IInv
  <2>2. reply'["load"] \in {NoReply, Asked} /\ seen'["load"] = 0
    BY <1>2, <2>1 DEF LoadStarts, Start, TypeOK
  <2> QED
    BY <2>1, <2>2 DEF LoadOK
<1>3. CASE loading' # "waiting"
  BY <1>3 DEF LoadOK
<1>4. CASE loading = "waiting" /\ loading' = "waiting"
  <2>1. UNCHANGED boot
    BY <1>1, <1>4 DEF FlowOK, LifeNext, ServerChanges, ServerRestarts, StartServer, Link, Waits, WaitAgain, Started,
                      StartFails, InitDone, Wait, ModelInit, ModelStatus, Restarts, Restarted, RestartFails, Loads,
                      LoadStarts, LoadDone, LeaveLoading, InstallStatus, User, LeavePages, Install, Restart, allVars
  <2>2. FromBoot
    BY <1>1, <1>4 DEF LoadOK, FromBoot
  <2>3. CASE \E m \in Monitors : MonitorStep(m)
    BY <1>4, <2>1, <2>2, <2>3, MonitorFromBoot DEF LoadOK, FromBoot
  <2>4. CASE UNCHANGED <<reply, seen>>
    BY <2>1, <2>2, <2>4 DEF LoadOK, FromBoot
  <2>5. ~ServerRestarts /\ ~Restart
    BY <1>1, <1>4 DEF FlowOK, ServerRestarts, StartServer, Restart
  <2>6. ServerChanges \/ UNCHANGED vars \/ UNCHANGED allVars => UNCHANGED <<reply, seen>>
    BY DEF ServerChanges, Change, vars, allVars
  <2> QED
    BY <2>3, <2>4, <2>5, <2>6, StepOfMonitors
<1>5. loading = "waiting" \/ LoadStarts \/ loading' # "waiting"
  BY DEF LifeNext, ServerChanges, ServerRestarts, Link, Waits, WaitAgain, Started, StartFails, InitDone, Wait, ModelInit,
         ModelStatus, Restarts, Restarted, RestartFails, Loads, LoadDone, LeaveLoading, InstallStatus, User, LeavePages,
         Install, Restart, allVars
<1> QED
  BY <1>2, <1>3, <1>4, <1>5

LEMMA ReadyStep ==
  ASSUME LifeInv, [LifeNext]_allVars
  PROVE  ReadyOK'
<1> USE DEF serverVars, appVars, wizardVars, pageVars, lifeVars
<1>1. LoadOK /\ FlowOK /\ ReadyOK
  BY DEF LifeInv
<1>2. CASE LoadDone
  <2>1. "load" \in Monitors
    BY LifecycleAssumption
  <2>2. seen["load"] \in boot .. Len(log) /\ ~IsLoading(seen["load"])
    BY <1>1, <1>2, <2>1, Typed DEF LoadDone, Matched, LoadOK
  <2>3. Loaded
    BY <2>2 DEF Loaded
  <2>4. UNCHANGED <<boot, interactive>> /\ (loading' = "ready" => pagesFrom' = boot)
    BY <1>2 DEF LoadDone
  <2>5. Loaded'
    BY <2>3, <2>4, SameReading
  <2> QED
    BY <2>4, <2>5 DEF ReadyOK
<1>3. CASE ServerRestarts \/ Restart \/ Restarts
  BY <1>1, <1>3 DEF ServerRestarts, StartServer, Restart, Restarts, Restarted, RestartFails, FlowOK, ReadyOK
<1>4. CASE loading' # "ready"
  BY <1>4 DEF ReadyOK
<1>5. CASE UNCHANGED <<boot, interactive, restart, loading, pagesFrom>>
  BY <1>1, <1>5, SameReading DEF ReadyOK
<1> QED
  BY <1>2, <1>3, <1>4, <1>5
     DEF LifeNext, ServerChanges, Link, Waits, WaitAgain, Started, StartFails, InitDone, Wait, ModelInit,
         ModelStatus, Loads, LoadStarts, LeaveLoading, InstallPageLoads, InstallStatus, User, LeavePages, Install, allVars

LEMMA InitLifeInv == LifeInit => LifeInv
<1> SUFFICES ASSUME LifeInit PROVE LifeInv
  OBVIOUS
<1>1. IInv /\ Init
  BY InitInv DEF LifeInit
<1>2. Len(log) = 1 /\ log[1] = "STARTING_UP"
  BY <1>1 DEF Init
<1>3. LifeTypeOK
  <2>1. 1 \in 1 .. MaxChanges /\ 0 \in 0 .. MaxChanges /\ 0 \in 0 .. MaxTries /\ 0 \in 0 .. 2
    BY MonitorAssumption, LifecycleAssumption
  <2>2. TypeOK
    BY <1>1 DEF IInv
  <2> QED
    BY <2>1, <2>2 DEF LifeInit, LifeTypeOK
<1>4. View(modelStatus) = "install"
  BY DEF LifeInit, View, NonInteractive
<1> QED
  BY <1>1, <1>2, <1>3, <1>4, LifecycleAssumption
     DEF LifeInit, Init, LifeInv, FlowOK, PositionsOK, ErrorOK, LoadOK, ReadyOK

LEMMA LifeInvariance == LifeSpec => []LifeInv
<1>1. LifeInv /\ [LifeNext]_allVars => LifeInv'
  <2> SUFFICES ASSUME LifeInv, [LifeNext]_allVars PROVE LifeInv'
    OBVIOUS
  <2>1. IInv'
    BY NextInv, LifeStepsMonitors DEF LifeInv
  <2> QED
    BY <2>1, TypeStep, FlowStep, PositionsStep, ErrorStep, LoadStep, ReadyStep DEF LifeInv
<1> QED
  BY <1>1, InitLifeInv, PTL DEF LifeSpec

-----------------------------------------------------------------------------
(* Theorems.                                                               *)

\* The state of the installer stays well typed; the loop of waitSubiquity
\* counts to its bound and no further.
THEOREM LifeTypeCorrect == LifeSpec => []LifeTypeOK
<1>1. LifeInv => LifeTypeOK
  BY DEF LifeInv
<1> QED
  BY <1>1, LifeInvariance, PTL

\* InstallerService and the restart of the server: the list of pages is the
\* running server's, since whoever restarts it has loaded the list before and
\* is made to load it again.
THEOREM PagesOfServer == LifeSpec => []PagesOfRunningServer
<1>1. LifeInv => PagesOfRunningServer
  BY DEF LifeInv, FlowOK, ReadyOK, PagesOfRunningServer, PastLoading
<1> QED
  BY <1>1, LifeInvariance, PTL

\* InstallerService.load: no page before the running server has been seen in a
\* state that is not a loading one, although the monitor of the loading page
\* and the one that picks the wizard are not in step.
THEOREM PagesAfterLoad == LifeSpec => []PagesAfterLoading
<1>1. LifeInv => PagesAfterLoading
  BY DEF LifeInv, FlowOK, ReadyOK, PagesAfterLoading, PastLoading, Loaded
<1> QED
  BY <1>1, LifeInvariance, PTL

\* InstallerWizard.build keeps the install page of an interactive installation
\* but for an error: the null of a lost connection picks the same wizard, and a
\* restart is never under way there.
THEOREM InstallStays == LifeSpec => InstallPageStays
<1>1. ASSUME LifeInv, [LifeNext]_allVars, route = "install", interactive
      PROVE  route' = "install" \/ View(modelStatus') = "error"
  <2> USE DEF serverVars, appVars, wizardVars, pageVars, lifeVars
  <2>1. CASE ModelStatus
    <3>1. View(modelStatus) = "install" /\ View(modelStatus') \in {"error", "install"}
      BY <1>1, Views DEF LifeInv, ErrorOK
    <3> QED
      BY <1>1, <2>1, <3>1 DEF ModelStatus
  <2>2. CASE UNCHANGED route
    BY <1>1, <2>2
  <2>3. CASE Restarted \/ LeaveLoading \/ LeavePages \/ Install
    BY <1>1, <2>3 DEF Restarted, LeaveLoading, LeavePages, Install, LifeInv, FlowOK
  <2> QED
    BY <1>1, <2>1, <2>2, <2>3
       DEF LifeNext, ServerChanges, ServerRestarts, Link, Waits, WaitAgain, Started, StartFails, InitDone, Wait, ModelInit,
           Restarts, RestartFails, Loads, LoadStarts, LoadDone, InstallStatus, User, Restart, allVars
<1> QED
  BY <1>1, LifeInvariance, PTL DEF LifeSpec, InstallPageStays
============================================================================
