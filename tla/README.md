# Formal models of Ubuntu Desktop Provision

The repository holds the Ubuntu desktop installer (`apps/ubuntu_bootstrap`), the first-boot
wizard (`apps/ubuntu_init`) with its privileged daemon (`provd`), the factory-reset tools
(`apps/factory_reset_tools`) and the packages they share. This directory models the parts whose
correctness depends on the order of events: pages that share a service, requests that are awaited
while the user goes on, streams that end, servers that restart, calls of which one fails.

## Inventory

| Part | State | Operations | Hard behaviour | Correct when |
|---|---|---|---|---|
| Storage pages (`pages/storage`, `pages/confirm`, `pages/source`, `storage_service.dart`) | one `StorageService` (guided target, capability, passphrase) shared by the models of eight pages; the server's storage configuration | pages load, are skipped, save on Next, reset on return; the confirm page posts the choice | resets that nobody awaits; a nested page that reacts while the root wizard loads; choices that outlive what they were made for | what is installed is what was chosen and reviewed |
| Manual partitioning (`pages/storage/manual`) | a list of disks, a selection of two indexes, a boot disk, a waiting flag | add, change, wipe, delete, select boot disk, new table, revert, Next | answers that replace the list under indexes and dialogs, partition numbers that move | the user changes the partitions that are shown, and applies a complete layout |
| Status monitoring (`subiquity_client/status_monitor.dart`) | last status, a broadcast stream, a long poll | start, listen, stop | the end of the stream and the loss of the connection look alike; answers out of date | subscribers see states in order, and all that matter |
| Installer life cycle (`installer_service.dart`, `installer_wizard.dart`, `install_model.dart`, autoinstall, `subiquity_client/server.dart`) | application status, route, page list | wait for the server, choose the wizard, restart for an automated installation, follow the installation | four independent subscriptions; the server restarts under the client | pages fit the running server, and its progress is shown |
| Refresh of the installer (`refresh_service.dart`, `pages/refresh`) | refresh state, change id | check, refresh, poll the progress | `check()` and the loop of `refresh()` share one state | the user is never stuck on the page |
| First-boot wizard (`ubuntu_init`, `ubuntu_provision/identity`) | fields, remembered identity, page | validate, save, launch the session | a page that reacts while its request is under way; an identity remembered before it is created | the session logs in with an account that exists |
| `provd` user service (`services/user/user.go`) | the machine's accounts and host name | CreateUser, ValidateUsername | seven calls, each may fail, with a rollback; concurrent requests | a request happens as a whole or not at all |
| Settings pages of the first boot (`ubuntu_provision`: locale, accessibility, keyboard, time zone, telemetry) | the selection of each page | load, select, save on Next, go back; switches and input sources are set at once | a page reacts while it saves; requests nobody awaits; a page that is loaded twice | what a page shows is what is stored |
| `provd` settings services (`services/locale`, `keyboard`, `timezone`, `telemetry`, `accessibility`, `privacy`) | one value per key, kept by D-Bus services and GSettings | get, set, enable, disable | requests in goroutines of their own; reads of several properties; a call that fails after its effect | a request changes its own value and no other |
| `provd` GDM service (`services/gdm`) | a private bus connection, a channel per call | LaunchDesktopSession: begin, answer the query, start the session | signals overtake each other, and every call sees those of all; no deadline | a session is started for the password that was verified |
| `provd` process (`cmd/provd`, `internal/daemon`, `services/manager.go`) | listening socket, registered services, connection to the bus, signal handler | start, serve, quit, exit | signals at any point, a stop from another goroutine, services that do not answer, a socket file left behind | requests are not cut off; a signal ends it; a client finds it |
| Resize page | storage index, size | select, resize, save | the size of one storage saved for another | |
| Automated installation, Landscape | a watch on a stream | fetch, authenticate, install | asynchronous handlers of one stream overlap | |
| Settings kept in files (`post_install_service.dart`, `telemetry_service.dart`) | a JSON or key-value document | load, modify, save | two writers interleave at their awaits | no write is lost |
| Network pages (`ubuntu_provision/network`) | access points, active connection, scan timer | scan, select, connect | a list that scans replace under the selection | what is connected to is what was selected |
| Active Directory page | fields, validation result | typed input validated asynchronously | answers out of order | the result belongs to the input |
| Ubuntu Pro page | attach state, code | attach by token or by code | the stream of one is cancelled by the other | |
| Factory reset tools | target drive, copy progress | write media, reboot into a boot entry | a step of several fails and the next ones run | failed media are never reported as finished |
| Theme, licence, slides, error page, other shared services | one value each, or none | set | none worth a model | |

The parts meet in three places. All installer pages talk to one Subiquity server over HTTP, and the
storage pages also share `StorageService`. The pages after the start depend on the status stream.
The pages of the first boot talk to `provd` over gRPC, which talks to system services over D-Bus; a
session script starts `provd` and, once its socket file exists, the client.
`PROJECT.json` lists every component with its status, and the hazards at their lines.

## Modules

| Module | Models | Builds on |
|---|---|---|
| `StorageChoice` | what the storage pages promise to a user who waits (abstract) | |
| `StorageWizard` | the storage pages from the source page to the start of the installation | implements `StorageChoice` |
| `ManualStorage` | the manual partitioning page, which `StorageWizard` has as one action | |
| `StatusFeed` | what a subscriber of the status may rely on (abstract) | |
| `StatusMonitor` | `monitorStatus()` and its long poll, over a server that breaks and restarts | implements `StatusFeed` |
| `InstallerLifecycle` | start-up, the wizards, the restart, the install page | extends `StatusMonitor` with its four subscriptions |
| `InstallerRefresh` | `RefreshService` and the pages around the refresh page | |
| `Accounts` | what provd promises of accounts to any number of clients (abstract) | |
| `UserService` | `CreateUser` of provd, requests interleaved | implements `Accounts` |
| `FirstBoot` | the identity page to the launch of the session | extends `UserService`, and implements its specification |
| `ProvdApi` | the services of provd, what each needs to be registered, its methods, the key behind each switch | |
| `GdmService` | `LaunchDesktopSession` with its loop over GDM's signals | |
| `ProvdDaemon` | provd as a process: main, signal handler, socket, requests | extends `ProvdApi` and `GdmService`, and implements the latter's specification |
| `ProvdSettings` | the services that keep one value each, requests overlapping | extends `ProvdApi` |
| `SettingsPages` | the pages of the first boot that show and set these values | extends `ProvdSettings` |
| `MC*` | instances for TLC | |
| `*Proofs` | theorems | the module they are named after |

An operator marked `Mutant` is a plausible bug of the definition that follows it. No specification
uses it; put in place of that definition it breaks the property that `PROJECT.json` names.

### StorageWizard

*State.* `guidedTarget`, `guidedCapability`, `passphrase` are the fields of `StorageService`;
`incomplete` stands for its `_needRoot`/`_needBoot`, the only part of a storage response the pages
act on here. `type`, `targets`, `listed`, `reformatIndex`, `confirmed`, `reviewed` are fields of the
page models. `root` is the page of the root wizard, `trail` the stack of the nested storage wizard
(visible page first), `origin` the page whose Next opened the confirm page. `load` is the progress of
`ConfirmModel.init`: one value per `await`. `present` and `plan` are the server's: the targets it
sees and the configuration it holds. `resets` are the reset requests sent by an `onReturn` and not
yet served, `installed` records what the installation was started with.

*Actions.* One per button or handler. The chain of pages behind a Next button is the chain of
`onLoad` callbacks of `storage_wizard.dart`: `LoadCapabilities`, `LoadRecoveryKey`, `LoadPassphrase`,
`LoadConfirm`, each skipped when its callback returns false. Requests of one `onLoad` are one step
except those of the confirm page, whose interleaving with the user is the point of the model. The
operations of the manual page are one action, `EditPartitions`, whose result is a complete or an
incomplete plan.

`storage` and `confirm` are neighbours in the model. They are with the pages of an OEM image
(`installer_service.dart:49`) and in automated installations whose interactive sections ask for storage and
nothing behind it. With the default pages (`installation_step.dart:56`) identity and time zone lie in
between, and Back from the confirm page comes by them before the `onReturn` of the storage page runs. These
pages do not touch the storage; they take time, so that a reset which is late in the model mostly is served
before the next request. The model has the behaviours of the default pages and more of them.

*The user.* A nested page's Back button, radio buttons and partition table only look at the nested
wizard's loading state, hence they work while the root wizard loads the confirm page, and nobody
awaits `onReturn`. `UserWaits = FALSE` allows all of this; `UserWaits = TRUE` is a user who does
nothing while a request is outstanding. Left out: a second Next while the confirm page loads (its
effect is decided by the `wizard_router` package, which is not in the repository), and the late
answer of the `StorageService.init` that `setSourceId` does not await.

*The server* is external. What the pages rely on is modelled: a configured disk offers no target
but another reformat or manual partitioning (`Offered`), a choice is accepted when its target
allows the capability (`Accepts`, `CORE_BOOT_PREFER_ENCRYPTED` being for display only), a request
for a choice replaces the plan.

*Properties.* `ReviewedIsInstalled` and `ReviewedIsChosen` tie the confirm page to what comes before
and after it; `PassphraseFitsCapability` ties the passphrase to the request that encrypts;
`AllTargetsOffered` and `GuidedOnlyAfterReset` are the two reasons the pages give for resetting;
`LoadEnds` says that a started load ends with the page or an error. `CapabilitySupported` states a
promise that the code does not keep (see findings).

*`StorageChoice`* is the wizard as a user sees it who waits: he chooses, a configuration is made of the
choice, he reviews it, it is installed. Nothing writes the configuration between the review and the
installation, and a guided one is never written over one that was not reset. `ChoiceSpec` is the
refinement: `Stage` reads the stage off `root` and `load`, `Chosen` is the configuration that the fields
of `StorageService` stand for, `Shown` what the confirm page has shown. The eight pages, the seven
requests of the confirm page and the resets nobody awaits all map to one of its nine actions or to none.
Resets that are late for a user in a hurry are what the refinement excludes: it assumes `UserWaits`.

*Assumptions on the constants.* `ListsAssumption` says that the server's lists are finite and that no
two targets of them have the same position. What `EditPartitions` assumes of the manual page, that Next
leaves it with a complete layout only, is `LeftIsComplete` of `ManualStorage`.

### ManualStorage

*State.* `disks` is the list of `ManualStorageModel` together with what `needRoot` and `needBoot`
derive from the same answer; `selected` its two indexes, `bootDisk` and `waiting` further fields, and
`dialog` the request that an open dialog has captured. A disk is a row of `Slots`, each free or with a
partition; a gap is a run of free slots. `layout` is the server's, `requests` what is outstanding.
`history` collects what has happened in a behaviour, for the properties only.

*Actions.* The buttons and dialogs send requests; `Serve` carries the first outstanding one out, refuses
it, or carries it out and loses the answer; `AnswerArrives` handles any answer (`_updateDisks`, and the
selection after an added partition); `RequestFails` is the exception that nobody catches.

*External.* Subiquity carries requests out in the order they were sent and names partitions by number.
In the model the number is the rank on the disk, as for logical partitions, which move up when one in
front is deleted: the case in which a late request hits another partition. After a reset the last disk
may be gone, since the disks are probed again. Sizes, formats, mount points other than the root, and
`requiresReformat` are left out.

*Properties.* They say how much survives which user. `TargetIsShown` and `LeftIsComplete` need one who
waits for answers; `ListIsServers` only needs answers in order; `DeletesOneByOne`, `WaitingEnds` and
`SelectedDiskIsListed` hold for everybody.

### StatusFeed and StatusMonitor

A status is a position in `log`, the history of the server's states; 0 is Dart's null. A monitor is
created per subscription. `phase` is where `monitorStatus()` is: fetching the first status (`start`),
polling, `open` (the loop has ended, the stream stays open for ever), `closed`, or `failed` (the first
request has thrown). `Answer` lets the server reply when its state differs from the one in the poll,
and `StartReply` or `PollReply` handles the reply any number of changes later. `Break` is a lost
connection or an answer that is no success, `Garble` an answer that does not decode: it makes `start()` throw and is a lost poll
otherwise. A restart of the server closes all its connections at once. The server may go from any state to any other that is not a
start, except that an end of the installation is followed by an exit only.

`StatusFeed` promises: events are past states in order without immediate repetition, none after a
final state or a null, and an active subscription does not stay behind. `FeedSpec` is the refinement,
with `active` as the monitors that still fetch or poll. `SilentStreamSaidNull` is the part of the
monitor's state that the abstraction hides: whoever will hear no more has been told null.

### InstallerLifecycle

Four subscriptions of `StatusMonitor`: `init` and `load` (the `firstWhere` of `InstallerService.init` and
`load`), `app` (`InstallerModel`) and `install` (`InstallModel`). `app` is the progress of
`runInstallerApp` and of `waitSubiquity`; `route` the page of the wizard that `InstallerWizard` picks by
`modelStatus`; `loading` the state of `loadingProvider`; `pagesFrom` the server that the page list is
from. `Restart` is `AutoinstallService.restartSubiquity`: the process is replaced, `waitSubiquity` runs
again and a wizard with a new key appears. `modelStatus` outlives it because the provider is the same.
`breaks` is chosen at the start: with it any request may fail, without it only a restart closes
connections. So may the first `getStatus()` of the install page, whose load then ends on the error page, and
the request to start the installation, which nobody awaits: the confirm page goes on as if it had been sent. What does not decode
(`Garble`) is left to `StatusMonitor`: server and client come in one image. The user does nothing while the restart is under way, because its page shows a spinner.
The three starting states and the three installing ones are one each in the run: the
code compares them as sets.

### InstallerRefresh

`check` and `loop` are the two operations that write `state`. `Serve` and `StartReply` are the request
and the answer of `startRefresh`; a poll of the progress with its answer is one step, because nothing
else reads the change. Any failure counts as done, as in the code.

### UserService and FirstBoot

`calls` is the sequence of `CreateUser` requests, each with its program counter and its two local
variables. There is one action per call on the bus, which takes effect, fails, or takes effect and
fails, and one per step of the deferred rollback. A call of the rollback may also take effect and report an
error, which is only logged; `torn` remembers the error. `AccountsSpec` maps this to `Accounts`: a request is asked,
holding its name (`Owner`: it has made the account and answers for it), failing, granted or failed; a
name is free, taken, left behind or of the image; `book` shows an account from the moment it is granted. The
steps in between (password, uid, login, host name) are stutters, the rollback gives the name
back, and `Lose` and the second case of `Undo` are the gaps of the rollback. In `FirstBoot` the identity page stays live while a
request is under way: fields, Back, and after Back and Next the button again. `saved` is the identity
that `ProvdIdentityService` remembers, `awaiting` the request its button waits for, `checks` the
validations that are not answered. The pages for Ubuntu Pro, time zone and telemetry are positions here
(`SettingsPages` has the last two); the loop of `LaunchDesktopSession` over GDM's signals is one answer
(`GdmService` has it).

### ProvdApi, GdmService and ProvdDaemon

`ProvdApi` holds what is data in the code and what the other modules read: the eight services the manager
makes, the D-Bus names and schemas each constructor pings (`Needs`), the methods that gRPC routes to
them, and for each switch of the accessibility and privacy services its key and the values of on and
off. Protocols that clients know and nobody implements are `Unserved`.

*GdmService.* `calls` has every request a client sends: where it is, and for a launch the signals that
wait in front of its unbuffered channel (`inbox`, a set: each waits in a goroutine of its own) and whether
its client has left. `Enter`, `BeginVerificationForUser`, `Receive`, `AnswerQuery`, `StartSessionWhenReady`,
`DeadlineExceeded` are the statements of `LaunchDesktopSession` between two waits; each call on the bus may
fail before or after its effect. GDM is external: it asks for a secret, checks it for the user of the latest
verification, and reports; its signals go to every call under way. `mixed` remembers that a launch began
before GDM was done with another one. `GdmSpec` is the service in any process: requests come, go and are turned
away as the host likes (`Pass`, `CloseListener`), but the connection to GDM only ends with the whole process or
when no launch is under way (`Disconnect`). GDM leaving under a launch is the first of these: godbus closes
the channel of the launch, which panics on a nil signal or on closing its channel again (`GdmLeaves`).

*ProvdDaemon.* `main` is the position of the main goroutine from `Run` to the deferred end of the signal
handler; `handler` and `pending` are the handler and its channel with room for one; `server`,
`registered`, `bus` the gRPC server, its services and the connection to the system bus; `ready` and
`published` the two things `Quit` looks at; `socket` the file, "stale" when nobody listens. There is one
action per statement that other goroutines can come between. `Working` derives the services from the
external ones that answer, so that each constructor can fail. `End` is what the end of a process does to
its connections, however it ends. `Start` and `RunClient` are the session script.

What the model shows beyond its properties: a keyring that cannot be unlocked is reported as an error of
usage (exit code 2); a second SIGTERM after `signal.Stop` kills; a signal before `Serve` makes it return
`ErrServerStopped` and provd exit with 1; an error of `Chmod` or of `sdNotify` leaves the socket file, and
`Listen` fails on a stale one (`internal/daemon/daemon.go:74` has a TODO for it); without a system bus the
constructor of the user service panics; a GDM that is silent keeps `GracefulStop` waiting; `Quit` waits for
ever for `ready` when the keyring or the configuration has failed, so `AskedEnds` starts with `ready`.

### ProvdSettings and SettingsPages

*ProvdSettings.* One value per key that the external services keep: `locale`, `x11` (layout and variant),
`timezone`, `sources` (of the session), `gsettings`, `reported` (what the metrics server was told).
`requests` has one slot for the request the client awaits and `MaxLoose` for those it does not. Each
handler is an action of its own, `GetKeyboard` one per property that it reads; each may fail before its
effect (`Fail`) or after (`Finish`). `faulted` remembers a failure that is not a refusal.

*SettingsPages.* `page` is shown, `doing` the state of its Next button ("stuck" after an error nobody
catches), `todo` what the next page has yet to ask for; `language`, `keyboard`, `location`, `enabled` are
the selections, `active` how often an option is in the list of active ones. Loading a page, saving it,
going back (which leaves a request under way) and every selection is an action. Pages that keep nothing
in provd are one page, "others". `hidden` and `patient` are chosen at the start: whether the image hides the
accessibility page, and whether the user waits until nothing is under way. The initial locale is one that
`GetLocale` can read; `LanguagesAssumption` says that a name a locale is listed for has a language, which
`GetKeyboard` needs. The search that selects the stored time zone on the map is fuzzy and its ranking external, so
that any place, or none, may be selected when the page is loaded.

*Properties.* `SettingsAsShown` and `OffIsOff` are for the patient user without faults, `ErrorNeedsFault`,
`SwitchesIndependent` and `NextEnds` for everybody. `ShownIsOn` states a promise that the code does not keep.
What a hurried user can meet: `GetKeyboard` reads a layout and a variant of two different settings;
input sources and toggles that nobody awaits are carried out in another order.

## Runs

| Run | Question | Bounds |
|---|---|---|
| `storage_waits` | does a patient user review what was chosen and install what was reviewed? | six targets of all five kinds on two disks, two sources, four layouts of which one is encrypted and one TPM-backed, one passphrase |
| `storage_hurries` | what survives an impatient user? | five targets, two resets in flight, no advanced layouts: the pages for them only delay the race |
| `storage_stale_capability` | is a layout only sent for a target that allows it? (disagreement) | six targets, one source, two resets in flight |
| `manual` | which guarantees survive overlapping, failing and overtaking requests? | two disks of two slots, three requests, two of them outstanding |
| `status_feed` | does the monitor implement the feed? | two subscriptions, a history of five states |
| `lifecycle` | does the installer start, follow a restart, stay on the install page and show the end? | four subscriptions, a history of five states (a start, a restart and an installation fit), two tries of `waitSubiquity` |
| `refresh` | can the user get stuck on the refresh page? | none: the model is finite |
| `first_boot` | is an account created as a whole, whatever fails and whoever hurries? | two requests, of a name with two passwords and of a name in use |
| `first_boot_identity` | is the identity saved when the wizard goes on? (disagreement) | the same |
| `provd` | does the process serve, stop and start again without cutting requests off, and launch only what was verified? | four requests of which two are sent (a launch with the right and one with a wrong password, one for another service, one that is not served), two starts, two signals |
| `settings` | is what the pages show what is stored? | two switches, two languages, two layouts with a variant, two time zones of which the map has one; one request nobody awaits; an option up to twice in the list |
| `settings_toggle` | is an option that is shown as active on? (disagreement) | the same |

Each component has its type invariant; these are proved for every value of the constants (the theorems
named `...TypeCorrect`) and not run again.

Why these bounds are enough: two disks tell "the chosen one" from "the first one" and the shortcut for
a single disk from the page. Two sources let a target vanish and come back. Two resets in flight are
those of a nested page and of the page below it; a third repeats the second. Three requests of the
manual page are a delete, another request whose answer clears the flag, and the second delete; they
are also the three that a complete layout takes (a root, a boot disk, Next). Five states of history
are a start, a state in between, a restart, its start and a state after it. Two tries of 90 have both a
try that is not the last and the last. Two requests to `CreateUser` are one whose rollback can undo
another. Two launches are enough to be mixed, a second start meets the socket file of the first, and a
second signal the handler of the first. A loose request is one that the awaited one can overtake; an option
twice in the list is one more than the code expects. Most theorems below hold for any number of all of these. `CHECK_DEADLOCK FALSE` everywhere: a wizard
stops when its last page is left, and bounds stop the rest.

*Fairness.* Weak fairness of what the code or a server does by itself: a server answers each request or
the request fails (`Load`, `ServeReset`, `Answer`, `Serve`, `Reply`), a server that is starting gets on,
provd and GDM answer, timers fire and handlers run. The user and the end of an installation are owed
nothing. `LaunchEnds` and `RequestsEnd` depend on GDM's answer, for which the code sets no deadline.
`StartUpEnds` is about connections that work: `monitorStatus` never resumes after a lost poll. In
`ProvdDaemon` the goroutines are fair one by one (`Main`, `Handler`, `Serving`, `Launching`), and so are GDM and
the script's wait for the socket; nobody owes a signal, a request or a second start. In `SettingsPages` every
request is served (`Serve` of each slot) and the client goes on with its answer.

## Proofs

Each theorem is about every value of the constants that satisfies the module's named assumptions.

* `StorageWizardProofs`: `TypeCorrect`; `GuidedAfterReset` (`Spec => GuidedOnlyAfterReset`, any number of
  resets in flight, any user); with `UserWaits`, `ReviewInstalled`, `PassphraseFits` and `AllOffered` (each
  `Spec => []` of the property it is named after). All rest on
  `IInv == TypeOK /\ TrailOK /\ AllowedOK /\ ManualOK /\ LoadOK`. `TrailOK` is the shape of the
  nested stack: "storage" at the end and at most one page of a type, directly in front of it. It makes
  `ManualOK` inductive: on a trail with the manual page there is no guided target, and while a guided
  request is under way the manual page is not on the trail, so nobody can edit the plan between the
  reset and the request that follows it (`LoadOK`). `AllowedOK` keeps the fallback `allowed.first`
  defined. `ReviewOK` adds, for a patient user, that no reset is in flight once the confirm page
  loads. `TopOK` says that the passphrase page is never behind another one and only shown for a
  capability that may need it; with it `PassOK`, that an encrypted capability never reaches the confirm page without
  the passphrase page in between, and `OfferOK`, that where targets are offered the server holds no
  plan, are inductive. `PassphraseFits` assumes `HeadUnencrypted`: the first layout that a target allows, which is
  sent when none was selected, is not an encrypted one. There is one lemma per group of actions;
  `ShowKeepsShape`, `BackKeepsShape` and `ChainKeepsShape` are the lemmas about navigation that they share.
  `WizardImplementsChoice` is the safety part of the refinement. It rests on
  `PatientOK == ReviewOK /\ TopOK /\ OfferOK /\ QuietOK /\ MadeOK`: `QuietOK` says that a reset of a user
  who waits is only in flight on the page that sent it, `MadeOK` that after the request for a choice the
  server holds what `Chosen` stands for, up to the installation. `ReviewChosen` (`Spec => []ReviewedIsChosen`)
  adds `SettledOK`, which says what the pages in front of the confirm page leave behind: each
  page of the trail is of the selected type (`TypedOK`), lists are of the selected source (`SourceOK`),
  the manual page knows whether the configuration is complete (`ManualPlanOK`), and behind the page that settles
  the target there is one of the selected type (`ChosenOK`). The targets that pages pick by
  position or size exist by `FirstDefined`, `LargestDefined` (induction over finite sets is not available,
  so both follow from the least element of a set of naturals) and `NthDefined` (counting the targets in
  front is an injection into `0 .. n - 1`, hence a surjection). `ReviewChosen` assumes `SameDisks`: sources for
  which the reformat page is shown have equally many disks, as in the run. Without it
  the theorem is false: the index selected on that page outlives a change of the source, and of three disks
  the third is past the end of a list of two.
* `StatusMonitorProofs`: `TypeCorrect`, `OpenStreamsSaidNull`, and `MonitorImplementsFeed`, the safety part
  of the refinement, for any number of subscriptions and histories of any length. `PollOK` says that a
  monitor polls with the status its subscriber saw last and that an answer under way is a later,
  different state; `DownOK` that the history has room for the start after a stop.
* `InstallerLifecycleProofs`, on top of the former: `LifeImplementsMonitors` (every step of the installer is one
  of the monitors or leaves them alone), `LifeTypeCorrect`, `PagesOfServer`, `PagesAfterLoad`, `InstallStays`. `LifeInv`
  adds to the monitors' invariant how restart and wizard can be together (`FlowOK`: the server is only down
  for a restart that an interactive wizard has asked for on its pages, and until that is over
  `loadingProvider` keeps what it has), that the wizard for errors has one page (`ErrorOK`), that what
  `load` is or will be told is of the running server (`LoadOK`), and what a finished load stands for (`ReadyOK`).
* `InstallerRefreshProofs`: `TypeCorrect`, `BusyPolled`, `ErrorNotShown`. The inductive
  invariant is `TypeOK /\ BusyIsPolled /\ ErrorLeftHistory`: an error of `check()` belongs to a page that the
  wizard's history no longer holds, so `Back` cannot show it.
* `FirstBootProofs`: `ServiceKeepsAccounts`, `ServiceLeavesNoOrphans` and `ServiceRestoresHostName` about
  `UserService` on its own, for any clients and any number of interleaved requests; `WizardIsClient`, that
  the wizard implements that specification, whence `AccountsKept` and `WizardKeepsBook`; `LoginAccount`
  about the wizard; `ServiceTypeCorrect`, `TypeCorrect`. The service's invariant is `ServiceTypeOK /\ UidOK
  /\ ProgressOK /\ OwnersOK /\ ImageOK`. `OwnersOK` is the argument: at most one request per name is past
  the creation of the account, because creating refuses a name in use, and only such a request touches or
  deletes it; `UidOK` says that a known uid belongs to such a request. `HeldOK` is the other direction:
  every account the image did not have is held by a request that answers for it. `HostOK`: while requests
  come one after the other and no rollback has reported an error, the one under way is the last, and it has read the
  name that is to be restored. `ServiceKeepsBook` is the refinement of `Accounts`, for any clients:
  `MakingStatus`, `ReadingStatus` and `RollbackStatus` say what the step of a request is for its client
  (`BookEffect`), `NamesMove`, `RequestsMove` and `PromisesMove` carry one request's change to the mapped
  variables, and `ServeBook` finds the abstract action. Only the owner of a name may change its state, which
  is `OwnersOK`; `BookOK`, which follows from the service's invariant, ties the made accounts to the owners
  that the mapping looks at; `FaultOK` says that a request that knows its uid only fails for a fault. The
  wizard adds `SavedOK`, which ties the remembered identity to a request that was sent.
* `ManualStorageProofs`: `TypeCorrect`, `SelectionListed`, `OneDelete`, `ListServers`, `TargetShown`, `LeftComplete`, for any
  disks, any number of requests and any number of them outstanding. `FlagOK` ties the waiting flag to the
  deletes that are outstanding. `AnsweredFirst` (the server answers in order) and `OrderOK` (the last answer
  given is the configuration; before the first, the list is) give `ListServers`. `PatientOK`
  gives the two about a user who waits: there is at most one request, made for the configuration that the
  server has, and numbers tell its partitions apart. The boot disk is a least index, which exists by the
  well-foundedness of `<` on the naturals.
* `ProvdDaemonProofs`: `TypeCorrect`, `LaunchVerified`, `BusOutlives`, `CleanExits`, `ClientFinds`, for any
  number of requests, starts and signals. `ServiceVerifiesLaunches` is about `GdmSpec`, so about the service
  in any host, and `DaemonIsHost` (`Spec => GdmSpec`) gives `LaunchVerified`: provd is such a host because
  main closes the connection only after the graceful stop (`ProcessIsHost`, from `ServingOK`). `GdmInv` is
  about requests and GDM: until launches are mixed, GDM deals with the one under way, so that what it
  reports and the session it has open are about this launch (`LaunchOK`). `ProcessInv` is about main, its
  handler and the socket: a handler of a request only runs while main waits in `Serve` (`ServingOK`), only a
  SIGTERM leads to the end without an error (`AskedOK`), and in a first start that nothing has harmed a
  running client has a socket somebody listens to (`FoundOK`).
* `SettingsPagesProofs`: `TypeCorrect`, `ErrorFaulted`, `ShownIsStored`, `InactiveIsOff`, `SwitchesApartAlways`, for any
  languages, keyboards, switches and requests under way. `IInv` says which page asks for what
  (`ShapeOK`, `PageOK`), that a list has room for what is yet to be loaded (`RoomOK`), and that behind the locale page
  the locale has a language (`TerritoryOK`), whence the error page needs a fault. `PatientOK` has a part for
  each setting and says of a user who waits that one request at most is under way and that the page, the
  request or the store agree. `SwitchesApart`, a lemma about `ProvdApi`, says that no two switches share a key.

Only model-checked: all liveness, with it the liveness parts of `FeedSpec` and `ChoiceSpec`. Every safety
property of the passing runs is proved.

## Findings

Each is a run that TLC must find violated; `PROJECT.json` quotes the lines.

1. `storage_stale_capability`: a layout selected for one target is sent for another target that does not allow it.
2. `first_boot_identity`: the identity is remembered before it is created; after a failure a retry passes the page without an account, and the wizard ends in a failed login.
3. `settings_toggle`: coming back to the accessibility page appends the active options again; toggled once, an option is off and still shown as active.

Other behaviour that the models show and no run asserts:

* `onReturn` is not awaited; a user in a hurry finds a page that lists the targets of a configuration that is being reset (`AllTargetsOffered` needs one who waits).
* The flag that prevents a second delete is cleared by the answer of any request (`DeletesOneByOne` says how much is left).
* A lost connection makes the install page say that the installation is complete.
* With three disks, the index selected on the reformat page may point past the end of the list that a later source has: Next then saves no target, and the confirm page reviews an empty configuration (`ReviewedIsChosen` is proved for sources with equally many).
* A time zone that the search does not find leaves the page without a selection and without a way back; one that it takes for another zone is stored as that one, unless the user corrects it; a `SetLocale` that fails leaves the locale page with a Next button that has no effect.
* Two launches that overlap may answer each other's query (`LaunchedIsVerified` needs launches that do not).
* While the confirm page loads, the nested page still reacts, so the installed configuration can differ from the reviewed one (`ReviewedIsInstalled` needs a user who waits).
* The default `CORE_BOOT_PREFER_ENCRYPTED` is sent as it is when the user does not click it (`guided_capabilities_page.dart:210`), since `clean()` runs on a click only.
* The passphrase page appears for manual partitioning after an encrypted layout was selected, and the resize page without any target after a change of the source.
* An outstanding delete does not keep Next from applying the layout: it removes the root or the boot partition in front of the request of Next (`LeftIsComplete` needs that nothing is outstanding).
* Of two requests to `CreateUser` that overlap, the one that fails may restore a host name over the one that the other has set, or read as the name to restore what the other is about to take back (`HostNameRestored` needs requests that do not overlap).
* A failed delete leaves its button disabled until another answer; a failed `addBootPartition` leaves a boot disk selected that is none and cannot be selected again.
* After an added partition the selection is an index among partitions used among partitions and gaps, so that another object is selected when a gap is in front (the test says "select added partition").
* A monitor never resumes after a lost poll, though `status_monitor.dart:44` says "Emits the status whenever it changes"; a final status seen by `start()` becomes a null, so that an installer started after the end waits for ever.
* The confirm page of an automated installation may wait for the user though the installation runs, because two monitors of one server are not in step.
* "Update ready" is shown after an update that failed; coming back to the page can start a second update while the first runs.
* A late answer to a username validation replaces a newer one; the fields of the identity page stay editable while the account is created.

## Not modelled

Reasons are in `PROJECT.json`. Presentation (slides, themes, layout), wrappers of one call, generated code,
test helpers and the mock servers have no behaviour of their own. Of `provd`, the listener that systemd may
hand over is left out, and services that clients know and provd does not implement (Pro, Chown, EULA, Active
Directory, theme) are only `Unserved`. The privacy service is part of `ProvdApi`, and no page uses it.

The parts below have behaviour worth a module and have none yet. Of the job that writes reset media the
survey noted: the exit code tested after the script is that of `rsync`; errors of D-Bus calls that nobody
catches leave the creation page without Back; a failed or finished status stops the job; each change of
media recreates the notifier of the selection; the target is looked up by its path.

Hazards that `PROJECT.json` lists without a property are of two kinds: parts or details that are not modelled
yet, and things that do go wrong in the code. Of the latter the models have the behaviour, and the properties next to it say under which condition it cannot occur: a user who waits, requests that do not overlap, a GDM that answers, a first start.

## Plan

In this order:

1. `GuidedResize`: index, size and the saved target, composed with a change of the source.
2. `ResetMedia`: the job of the factory reset tools, whose steps fail one by one.
3. `Network`: the choice of a connect mode, and the list of access points that scans replace.
4. `ValidatedInput`: one module for fields that are validated asynchronously (Active Directory, user name), with an abstract specification "the result belongs to the input".
5. `SettingsFile`: two writers of one document, with an abstract atomic map.
6. `ProAttach`, and the Landscape session.
