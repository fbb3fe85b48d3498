------------------------- MODULE InstallerLifecycle -------------------------
(***************************************************************************)
(* The life of the installer around its pages: waiting for the Subiquity    *)
(* server, InstallerService.init and load, the wizard that InstallerWizard  *)
(* picks by the status, the restart of server and wizard for an automated   *)
(* installation, and the install page.                                      *)
(*                                                                          *)
(* Four parts of the installer subscribe to the status, each with a         *)
(* monitor of its own: InstallerService.init and load wait for the first    *)
(* status that is not a loading one, InstallerModel chooses the wizard, and *)
(* InstallModel drives the install page.  Nothing keeps them in step.       *)
(***************************************************************************)
EXTENDS StatusMonitor

CONSTANTS
  MaxTries,     \* _kWaitTimes
  Networks,     \* the values breaks may have
  AutoConfirm   \* TRUE: the kernel command line has "autoinstall"

ASSUME LifecycleAssumption ==
  /\ Monitors = {"init", "load", "app", "install"}
  /\ MaxTries \in Nat \ {0}
  /\ Networks \subseteq BOOLEAN /\ AutoConfirm \in BOOLEAN

VARIABLES
  breaks,         \* a request to a live server may fail; never changes
  boot,           \* where in log the running server started
  interactive,    \* the flag in the statuses of the running server
  confirmed,      \* the server may touch the disks
  app,            \* runInstallerApp: waiting, initialising, wizard or error
  tries,          \* the loop counter of waitSubiquity
  restart,        \* AutoinstallService.restartSubiquity: not called, under way, or thrown
  modelStatus,    \* InstallerModel._status
  route,          \* the route of the visible wizard
  loading,        \* the state of loadingProvider
  pagesFrom,      \* boot of the server that InstallerService._pages comes from
  installStatus,  \* InstallModel._status
  installs        \* how often InstallModel.init has run

serverVars == <<breaks, boot, interactive, confirmed>>
appVars == <<app, tries, restart>>
wizardVars == <<modelStatus, route, loading, pagesFrom>>
pageVars == <<installStatus, installs>>
lifeVars == <<serverVars, appVars, wizardVars, pageVars>>
allVars == <<vars, lifeVars>>

Starting == {"STARTING_UP", "CLOUD_INIT_WAIT", "EARLY_COMMANDS"}
Installing == {"RUNNING", "UU_RUNNING", "LATE_COMMANDS"}

\* The flag is null while the server starts.  Only an interactive server is
\* ever restarted.
NonInteractive(n) ==
  n # 0 /\ log[n] \notin Starting /\ n >= boot /\ ~interactive

\* ApplicationStatusX.isLoading
IsLoading(n) == log[n] \in Starting \/ (NonInteractive(n) /\ log[n] = "WAITING")

\* InstallerWizard.build: the wizard for a status, "install" without one.
View(n) ==
  IF n # 0 /\ log[n] = "ERROR" THEN "error"
  ELSE IF NonInteractive(n) THEN "autoinstall" ELSE "install"

FirstRoute(v) == IF v = "error" THEN "error" ELSE "loading"

\* What InstallModel shows.
InstallState == IF installStatus = 0 THEN "null" ELSE log[installStatus]
IsDone == installs > 0 /\ InstallState \in {"DONE", "null"}
HasError == InstallState = "ERROR"

LifeTypeOK ==
  /\ TypeOK
  /\ breaks \in Networks
  /\ boot \in 1..MaxChanges
  /\ interactive \in BOOLEAN /\ confirmed \in BOOLEAN
  /\ app \in {"wait", "init", "wizard", "error"}
  /\ tries \in 0..MaxTries
  /\ restart \in {"none", "running", "thrown"}
  /\ modelStatus \in 0..MaxChanges
  /\ route \in {"loading", "pages", "confirm", "install", "error"}
  /\ loading \in {"none", "waiting", "ready", "failed"}
  /\ pagesFrom \in 0..MaxChanges
  /\ installStatus \in 0..MaxChanges
  /\ installs \in 0..2

LifeInit ==
  /\ Init
  /\ breaks \in Networks
  /\ boot = 1 /\ interactive \in BOOLEAN /\ confirmed = FALSE
  /\ app = "wait" /\ tries = 0 /\ restart = "none"
  /\ modelStatus = 0 /\ route = "loading" /\ loading = "none" /\ pagesFrom = 0
  /\ installStatus = 0 /\ installs = 0

-----------------------------------------------------------------------------
(* The server.                                                             *)

\* The disks are only touched after a confirmation, which a kernel command line
\* with "autoinstall" gives beforehand.
ServerChanges ==
  /\ Change
  /\ Current \in Starting => Current' \in Starting \cup {"WAITING", "NEEDS_CONFIRMATION", "ERROR"}
                                \cup (IF AutoConfirm /\ ~interactive THEN Installing ELSE {})
  /\ Current' \in Installing \cup {"DONE"} => confirmed \/ (AutoConfirm /\ ~interactive)
  /\ Current' # "EXITED"
  /\ UNCHANGED lifeVars

ServerRestarts ==
  /\ StartServer
  /\ boot' = Len(log) + 1
  /\ interactive' \in BOOLEAN
  /\ confirmed' = FALSE
  /\ UNCHANGED <<breaks, appVars, wizardVars, pageVars>>

Link(m) ==
  /\ Answer(m) \/ (breaks /\ Break(m))
  /\ UNCHANGED lifeVars

-----------------------------------------------------------------------------
(* Waiting for the server: SubiquityServer.waitSubiquity.                  *)

Waiting == app = "wait" \/ restart = "running"

LastTry == tries = MaxTries - 1

\* What one request of the loop can lead to.  The last try gives up on an exception,
\* but not on a server that is still starting up.
WaitOutcomes ==
  (IF up THEN {IF Current \notin Starting \/ LastTry THEN "ready" ELSE "again"} ELSE {})
  \cup (IF ~up \/ breaks THEN {IF LastTry THEN "throws" ELSE "again"} ELSE {})

WaitAgain ==
  /\ Waiting /\ "again" \in WaitOutcomes
  /\ tries' = tries + 1
  /\ UNCHANGED <<vars, serverVars, app, restart, wizardVars, pageVars>>

\* SubiquityServer.start, then _initInstallerApp: InstallerService.init sets the
\* variant and waits for a status.
Started ==
  /\ app = "wait" /\ "ready" \in WaitOutcomes
  /\ \/ Start("init") /\ app' = "init"
     \/ breaks /\ app' = "error" /\ UNCHANGED vars
  /\ UNCHANGED <<serverVars, tries, restart, wizardVars, pageVars>>

StartFails ==
  /\ app = "wait" /\ "throws" \in WaitOutcomes
  /\ app' = "error"
  /\ UNCHANGED <<vars, serverVars, tries, restart, wizardVars, pageVars>>

-----------------------------------------------------------------------------
(* monitorStatus().firstWhere((s) => s?.isLoading == false)                *)

\* Mutant: only a waiting server counts as loaded.
MatchedWaiting(m) == seen[m] # 0 /\ log[seen[m]] = "WAITING"

\* Mutant: firstWhere accepts any status.
MatchedAny(m) == seen[m] # 0

Matched(m) == seen[m] # 0 /\ ~IsLoading(seen[m])

Wait(m) ==
  /\ ~Matched(m)
  /\ StartReply(m) \/ PollReply(m)
  /\ UNCHANGED lifeVars

\* The match cancels the subscription, which a final status has already closed.
Unsubscribe(m) == IF phase[m] = "closed" THEN UNCHANGED vars ELSE Cancel(m)

\* InstallerService.init is done; the wizard appears and InstallerModel subscribes.
InitDone ==
  /\ app = "init" /\ Matched("init")
  /\ Unsubscribe("init")
  /\ app' = "wizard"
  /\ UNCHANGED <<serverVars, tries, restart, wizardVars, pageVars>>

\* InstallerModel.init, in the initState of a wizard with a new key.
ModelInit ==
  /\ app = "wizard" /\ phase["app"] = "new"
  /\ Start("app")
  /\ UNCHANGED lifeVars

\* Mutant: every status starts the wizard over.
ModelStatusResets ==
  /\ StartReply("app") \/ PollReply("app")
  /\ modelStatus' = seen'["app"]
  /\ route' = FirstRoute(View(seen'["app"]))
  /\ UNCHANGED <<serverVars, appVars, loading, pagesFrom, pageVars>>

\* A status for InstallerModel.  Another wizard starts at its first route.
ModelStatus ==
  /\ StartReply("app") \/ PollReply("app")
  /\ modelStatus' = seen'["app"]
  /\ route' = IF View(seen'["app"]) = View(modelStatus)
              THEN route ELSE FirstRoute(View(seen'["app"]))
  /\ UNCHANGED <<serverVars, appVars, loading, pagesFrom, pageVars>>

-----------------------------------------------------------------------------
(* The loading page and loadingProvider.                                   *)

LoadStarts ==
  /\ app = "wizard" /\ route = "loading" /\ loading = "none"
  /\ phase["load"] \in {"new", "open", "closed", "failed"}
  /\ Start("load")
  /\ loading' = "waiting"
  /\ UNCHANGED <<serverVars, appVars, modelStatus, route, pagesFrom, pageVars>>

\* InstallerService.load asks for the interactive sections next.
LoadDone ==
  /\ loading = "waiting" /\ Matched("load")
  /\ Unsubscribe("load")
  /\ \/ loading' = "ready" /\ pagesFrom' = boot
     \/ breaks /\ loading' = "failed" /\ UNCHANGED pagesFrom
  /\ UNCHANGED <<serverVars, appVars, modelStatus, route, pageVars>>

\* InstallModel.init: the status, a subscription, and a late final field that a
\* second call cannot assign again.  Nothing is done without the status.
InstallPageLoads ==
  \/ /\ up
     /\ Start("install")
     /\ installStatus' = Len(log)
     /\ installs' = IF installs < 2 THEN installs + 1 ELSE installs
     /\ route' = IF installs = 0 THEN "install" ELSE "error"
  \/ /\ ~up \/ breaks
     /\ route' = "error"
     /\ UNCHANGED <<vars, pageVars>>

\* The automated wizard asks for a confirmation unless its status says that the
\* installation runs.
LeaveLoading ==
  /\ app = "wizard" /\ route = "loading" /\ loading \in {"ready", "failed"}
  /\ \/ /\ loading = "failed" /\ route' = "error"
        /\ UNCHANGED <<vars, pageVars>>
     \/ /\ loading = "ready" /\ View(modelStatus) = "install"
        /\ route' = "pages"
        /\ UNCHANGED <<vars, pageVars>>
     \/ /\ loading = "ready" /\ View(modelStatus) = "autoinstall"
        /\ IF log[modelStatus] \in Installing
           THEN InstallPageLoads
           ELSE route' = "confirm" /\ UNCHANGED <<vars, pageVars>>
  /\ UNCHANGED <<serverVars, appVars, modelStatus, loading, pagesFrom>>

-----------------------------------------------------------------------------
(* The user.                                                               *)

LeavePages ==
  /\ route = "pages" /\ restart # "running"
  /\ route' = "confirm"
  /\ UNCHANGED <<vars, serverVars, appVars, modelStatus, loading, pagesFrom, pageVars>>

\* The install page comes next; ConfirmModel.startInstallation confirms behind its
\* back, and nobody notices when it fails.
Install ==
  /\ route = "confirm" /\ restart # "running"
  /\ InstallPageLoads
  /\ \/ confirmed' = up
     \/ breaks /\ UNCHANGED confirmed
  /\ UNCHANGED <<breaks, boot, interactive, appVars, modelStatus, loading, pagesFrom>>

\* AutoinstallModel.restart, from the autoinstall pages.
Restart ==
  /\ route = "pages" /\ restart # "running" /\ View(modelStatus) = "install" /\ interactive
  /\ Len(log) < MaxChanges - 1
  /\ StopServer
  /\ restart' = "running" /\ tries' = 0
  /\ UNCHANGED <<serverVars, app, wizardVars, pageVars>>

\* Mutant: loadingProvider is not invalidated.
RestartedCached ==
  /\ restart = "running" /\ "ready" \in WaitOutcomes
  /\ Start("app")
  /\ restart' = "none"
  /\ route' = FirstRoute(View(modelStatus))
  /\ UNCHANGED <<serverVars, app, tries, modelStatus, loading, pagesFrom, pageVars>>

\* The server is back: a wizard with a new key, whose initState subscribes again,
\* and a loadingProvider that has been invalidated.
Restarted ==
  /\ restart = "running" /\ "ready" \in WaitOutcomes
  /\ Start("app")
  /\ restart' = "none"
  /\ route' = FirstRoute(View(modelStatus))
  /\ loading' = "none"
  /\ UNCHANGED <<serverVars, app, tries, modelStatus, pagesFrom, pageVars>>

\* waitSubiquity throws: nobody catches it and the page stays.
RestartFails ==
  /\ restart = "running" /\ "throws" \in WaitOutcomes
  /\ restart' = "thrown"
  /\ UNCHANGED <<vars, serverVars, app, tries, wizardVars, pageVars>>

-----------------------------------------------------------------------------
(* The install page.                                                       *)

StateOf(n) == IF n = 0 THEN "null" ELSE log[n]

\* Mutant: a lost status is not a reason to update.
InstallStatusKept ==
  /\ StartReply("install") \/ PollReply("install")
  /\ LET n == seen'["install"] IN
     installStatus' = IF n = 0 \/ StateOf(n) = StateOf(installStatus) THEN installStatus ELSE n
  /\ UNCHANGED <<serverVars, appVars, wizardVars, installs>>

\* InstallModel._updateStatus
InstallStatus ==
  /\ StartReply("install") \/ PollReply("install")
  /\ LET n == seen'["install"] IN
     installStatus' = IF StateOf(n) = StateOf(installStatus) THEN installStatus ELSE n
  /\ UNCHANGED <<serverVars, appVars, wizardVars, installs>>

-----------------------------------------------------------------------------

Waits == WaitAgain \/ Started \/ StartFails \/ InitDone \/ Wait("init")
Restarts == Restarted \/ RestartFails
Loads == LoadStarts \/ Wait("load") \/ LoadDone \/ LeaveLoading
User == LeavePages \/ Install \/ Restart

LifeNext ==
  \/ ServerChanges \/ ServerRestarts
  \/ \E m \in Monitors : Link(m)
  \/ Waits \/ Restarts \/ ModelInit \/ ModelStatus
  \/ Loads \/ InstallStatus
  \/ User

\* The installer's own steps and the server's answers; a server that starts gets
\* further.  Neither the user nor the end of the installation is owed.
LifeFairness ==
  /\ WF_allVars(ServerRestarts)
  /\ WF_allVars(Current \in Starting /\ ServerChanges)
  /\ WF_allVars(Waits) /\ WF_allVars(Restarts)
  /\ WF_allVars(ModelInit) /\ WF_allVars(ModelStatus)
  /\ WF_allVars(Loads) /\ WF_allVars(InstallStatus)
  /\ \A m \in Monitors : WF_allVars(Answer(m) /\ UNCHANGED lifeVars)

LifeSpec == LifeInit /\ [][LifeNext]_allVars /\ LifeFairness

-----------------------------------------------------------------------------
(* Properties.                                                             *)

PastLoading == route \in {"pages", "confirm", "install"} /\ restart = "none"

\* The pages a wizard shows are those the running server asked for: a restart that
\* succeeds never leaves the wizard with the page list of the server it replaced.
PagesOfRunningServer == PastLoading => pagesFrom = boot

\* No page appears while the server is still starting up or, non-interactive,
\* waiting: some status since its start was not a loading one.
PagesAfterLoading ==
  PastLoading => \E n \in boot..Len(log) : ~IsLoading(n)

\* The user of an interactive installation who has reached the install page never sees
\* another page replace it, except the one for errors: neither a lost connection, which
\* InstallerModel hears of as a null, nor a restart takes him back.
InstallPageStays ==
  [][route = "install" /\ interactive => route' = "install" \/ View(modelStatus') = "error"]_allVars

\* A server that has got past its loading states gets the installer past its loading
\* screen, if only to the error page, while connections work.  A server that has already
\* finished does not: its final status reaches a new subscriber as null.
Ready == ~IsLoading(Len(log)) /\ Current \notin Final
StartUpEnds ==
  (~breaks /\ app \in {"wait", "init"} /\ Ready)
    ~> (app \in {"wizard", "error"} \/ ~Ready)

\* An install page does not stay with its slides once the installation is over.
EndIsShown ==
  (route = "install" /\ Current \in {"DONE", "ERROR"})
    ~> (IsDone \/ HasError \/ route # "install")
=============================================================================
