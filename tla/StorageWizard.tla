--------------------------- MODULE StorageWizard ---------------------------
(***************************************************************************)
(* The storage pages of the Ubuntu installer, from the source page to the   *)
(* start of the installation: StorageService, the models of the pages in    *)
(* the nested storage wizard, ConfirmModel, and the storage endpoints of    *)
(* the Subiquity server they drive.                                         *)
(*                                                                          *)
(* The pages share one StorageService.  Going forward a page saves its      *)
(* choice there; going back calls the uncovered page's onReturn, which      *)
(* resets the server's configuration WITHOUT awaiting the answer.  Loading  *)
(* the confirm page sends the choice to the server in several requests,     *)
(* during which the nested page stays on screen and reacts to the user.     *)
(***************************************************************************)
EXTENDS Naturals, Sequences, FiniteSets

CONSTANTS
  Target,      \* the guided storage targets the server may offer
  Kind,        \* Kind[t]: which GuidedStorageTarget subclass t is
  Allowed,     \* Allowed[t]: its capabilities, in the server's order
  Rank,        \* Rank[t]: its position in the server's list of targets
  GapSize,     \* GapSize[t]: the size of the gap of a use_gap target
  TargetSets,  \* the sets of targets the server may see, one per source
  Passphrase,  \* the non-empty passphrases the user may type
  Empty,       \* the empty passphrase
  None,        \* Dart's null
  UserWaits,   \* TRUE: the user does nothing while a request is outstanding
  MaxResets    \* bound: resets in flight at once

Capability ==
  {"DIRECT", "LVM", "LVM_LUKS", "ZFS", "ZFS_LUKS_KEYSTORE", "DD",
   "CORE_BOOT_ENCRYPTED", "CORE_BOOT_UNENCRYPTED",
   "CORE_BOOT_PREFER_ENCRYPTED", "CORE_BOOT_PREFER_UNENCRYPTED", "MANUAL"}

ASSUME ConstantsAssumption ==
  /\ Kind \in [Target -> {"reformat", "resize", "use_gap", "erase_install", "manual"}]
  /\ Allowed \in [Target -> Seq(Capability)]
  /\ Rank \in [Target -> Nat]
  /\ GapSize \in [Target -> Nat]
  /\ TargetSets \in SUBSET (SUBSET Target)
  /\ None \notin Target \cup Passphrase \cup Capability
  /\ (Target \cup {None}) \cap {"alongside", "erase", "manual"} = {}
  /\ Empty \notin Passphrase \cup {None}
  /\ UserWaits \in BOOLEAN
  /\ MaxResets \in Nat \ {0}

\* The server sends finite lists: no two targets have the same position.
ASSUME ListsAssumption ==
  /\ \A S \in TargetSets : IsFiniteSet(S)
  /\ \A t, u \in Target : Rank[t] = Rank[u] => t = u

VARIABLES
  \* StorageService
  guidedTarget,      \* _guidedTarget
  guidedCapability,  \* _guidedCapability
  passphrase,        \* _passphrase
  incomplete,        \* _needRoot or _needBoot, from the last response
  \* page models
  type,              \* StorageModel._type
  targets,           \* StorageModel._targets
  listed,            \* _storages of the reformat or resize page on screen
  reformatIndex,     \* GuidedReformatModel._selectedIndex
  confirmed,         \* RecoveryKeyModel._confirmed
  reviewed,          \* the configuration ConfirmModel displays
  \* navigation
  root,              \* the page of the root wizard
  trail,             \* the nested wizard's stack, the visible page first
  origin,            \* the nested page whose Next opened the confirm page
  load,              \* progress of ConfirmModel.init, "idle" when not running
  choice,            \* the GuidedChoiceV2 being sent
  \* the server
  present,           \* the targets it sees
  plan,              \* its storage configuration
  resets,            \* the pages whose onReturn sent a reset not yet answered
  installed          \* the configuration the installation was started with

serviceVars == <<guidedTarget, guidedCapability, passphrase>>
pageVars    == <<type, targets, listed, reformatIndex, confirmed>>
navVars     == <<root, trail, origin>>
serverVars  == <<present, plan, resets, installed>>
vars == <<serviceVars, incomplete, pageVars, reviewed, navVars, load, choice, serverVars>>

-----------------------------------------------------------------------------
(* Data: targets, capabilities and server configurations. *)

\* The pages of the nested wizard, and those whose Next has an onReturn.
Page == {"storage", "reformat", "resize", "manual", "capabilities", "recovery", "passphrase"}
ResettingPage == {"storage", "reformat", "resize", "manual"}

EraseInstall == {t \in Target : Kind[t] = "erase_install"}
StorageType == {"alongside", "erase", "manual", None} \cup EraseInstall

Plan == [how    : {"none", "partial", "manual", "guided"},
         target : Target \cup {None},
         cap    : Capability \cup {None},
         pass   : Passphrase \cup {Empty, None}]

Unguided(h) == [how |-> h, target |-> None, cap |-> None, pass |-> None]
NoPlan == Unguided("none")

Caps(t) == {Allowed[t][i] : i \in 1 .. Len(Allowed[t])}

\* The targets of one kind among S that the server allows for anything.
Usable(S, k) == {t \in S : Kind[t] = k /\ Caps(t) # {}}

Leads(t, S) == t \in S /\ \A u \in S : Rank[t] <= Rank[u]
First(S) == IF \E t \in Target : Leads(t, S)
            THEN CHOOSE t \in Target : Leads(t, S) ELSE None

At(t, S, i) == t \in S /\ Cardinality({u \in S : Rank[u] < Rank[t]}) = i
Nth(S, i) == IF \E t \in Target : At(t, S, i)
             THEN CHOOSE t \in Target : At(t, S, i) ELSE None

Biggest(t, S) == /\ t \in S
                 /\ \A u \in S : \/ GapSize[u] < GapSize[t]
                                 \/ GapSize[u] = GapSize[t] /\ Rank[u] <= Rank[t]
Largest(S) == IF \E t \in Target : Biggest(t, S)
              THEN CHOOSE t \in Target : Biggest(t, S) ELSE None

Tpm == {"CORE_BOOT_ENCRYPTED", "CORE_BOOT_PREFER_ENCRYPTED"}
Luks == {"LVM_LUKS", "ZFS_LUKS_KEYSTORE"}

\* What the server offers: a configured disk has no room for anything but
\* another reformat or manual partitioning, hence the resets in the pages.
Offered(p) == IF p.how = "none" THEN present
              ELSE {t \in present : Kind[t] \in {"reformat", "manual"}}

\* CORE_BOOT_PREFER_ENCRYPTED only ever describes a target; the choice for it
\* is CORE_BOOT_ENCRYPTED.
Accepts(t, c) == \/ c \in Caps(t) \ {"CORE_BOOT_PREFER_ENCRYPTED"}
                 \/ c = "CORE_BOOT_ENCRYPTED" /\ "CORE_BOOT_PREFER_ENCRYPTED" \in Caps(t)

Incomplete(p) == p.how \in {"none", "partial"}

-----------------------------------------------------------------------------
(* StorageModel: what the storage page offers, given the fetched targets S. *)

HasDd(S) == \E t \in Usable(S, "reformat") : "DD" \in Caps(t)
CanInstallAlongside(S) ==
  Usable(S, "resize") \cup Usable(S, "use_gap") # {} /\ ~HasDd(S)
CanEraseAndInstall(S) == Usable(S, "erase_install") # {} /\ ~HasDd(S)
CanEraseDisk(S) == Usable(S, "reformat") # {}
CanManualPartition(S) == Usable(S, "manual") # {} /\ ~HasDd(S)

\* The types the storage page has a radio button for.
Selectable(t) ==
  \/ t = "alongside" /\ CanInstallAlongside(targets)
  \/ t \in Usable(targets, "erase_install") /\ CanEraseAndInstall(targets)
  \/ t = "erase" /\ CanEraseDisk(targets)
  \/ t = "manual" /\ CanManualPartition(targets)

DefaultType(S) == IF CanInstallAlongside(S) THEN "alongside"
                  ELSE IF CanEraseDisk(S) THEN "erase"
                  ELSE IF CanManualPartition(S) THEN "manual" ELSE None

DefaultCapability(S) ==
  LET t == First(Usable(S, "reformat"))
  IN  IF t = None THEN None ELSE Head(Allowed[t])

SupportsLvm(t) == Caps(t) \cap {"LVM", "LVM_LUKS"} # {}
SupportsZfs(t) == Caps(t) \cap {"ZFS", "ZFS_LUKS_KEYSTORE"} # {}
SupportsTpm(t) == Caps(t) \cap Tpm # {}

HasAdvancedFeatures(t) ==
  t # None /\ (SupportsLvm(t) \/ SupportsZfs(t) \/ SupportsTpm(t)) /\ ~HasDd(targets)

\* The option buttons of the capabilities page for target t.
Options(t) ==
  UNION { IF "DIRECT" \in Caps(t) THEN {"DIRECT"} ELSE {},
          IF SupportsLvm(t) THEN {"LVM", "LVM_LUKS"} ELSE {},
          IF SupportsZfs(t) THEN {"ZFS", "ZFS_LUKS_KEYSTORE"} ELSE {},
          IF SupportsTpm(t) THEN {"CORE_BOOT_ENCRYPTED"} ELSE {} }

-----------------------------------------------------------------------------
TypeOK ==
  /\ guidedTarget \in Target \cup {None}
  /\ guidedCapability \in Capability \cup {None}
  /\ passphrase \in Passphrase \cup {Empty, None}
  /\ incomplete \in BOOLEAN
  /\ type \in StorageType
  /\ targets \in SUBSET Target
  /\ listed \in SUBSET Target
  /\ reformatIndex \in Nat
  /\ confirmed \in BOOLEAN
  /\ reviewed \in Plan
  /\ root \in {"source", "storage", "confirm", "installing", "installed", "error"}
  /\ trail \in Seq(Page) /\ trail # <<>>
  /\ origin \in Page
  /\ load \in {"idle", "check", "reset", "choose", "guided", "set", "get", "originals"}
  /\ choice \in Plan
  /\ present \in SUBSET Target
  /\ plan \in Plan
  /\ resets \in Seq(ResettingPage) /\ Len(resets) <= MaxResets
  /\ installed \in Plan

Init ==
  /\ guidedTarget = None /\ guidedCapability = None /\ passphrase = None
  /\ incomplete = TRUE
  /\ type = None /\ targets = {} /\ listed = {} /\ reformatIndex = 0
  /\ confirmed = FALSE
  /\ reviewed = NoPlan
  /\ root = "source" /\ trail = <<"storage">> /\ origin = "storage"
  /\ load = "idle" /\ choice = NoPlan
  /\ present \in TargetSets
  /\ plan = NoPlan /\ resets = <<>> /\ installed = NoPlan

-----------------------------------------------------------------------------
(* Page transitions *)

page == Head(trail)

OnPage(p) == root = "storage" /\ page = p
OnTrail(p) == \E i \in 1 .. Len(trail) : trail[i] = p

\* The Next button: disabled while its wizard is loading.  A user who waits
\* also leaves the reset of an earlier onReturn the time to be answered.
CanGoOn == load = "idle" /\ (UserWaits => resets = <<>>)

\* Everything else on a nested page reacts at any time, also while the root
\* wizard is loading the confirm page.
CanTouch == UserWaits => load = "idle" /\ resets = <<>>

Show(p) == trail' = <<p>> \o trail /\ UNCHANGED <<root, origin, load>>

\* ConfirmPage.load: the nested wizard is at its end and calls the root wizard.
\* The confirm page is next to storage on OEM images and in automated
\* installations that ask for nothing in between.  The pages that otherwise lie
\* there do not touch the storage; they only leave a reset more time.
LoadConfirm == load' = "check" /\ origin' = page /\ UNCHANGED <<root, trail>>

\* Mutant: the passphrase of an earlier choice is kept when the page is skipped.
LoadPassphraseKept ==
  IF guidedCapability \in Luks \cup Tpm
  THEN Show("passphrase") /\ UNCHANGED passphrase
  ELSE LoadConfirm /\ UNCHANGED passphrase

\* The routes that follow the pages choosing a target t: each is loaded in
\* turn and skipped when its load returns false.
LoadPassphrase ==
  IF guidedCapability \in Luks \cup Tpm
  THEN Show("passphrase") /\ UNCHANGED passphrase
  ELSE LoadConfirm /\ passphrase' = None

LoadRecoveryKey ==
  IF guidedCapability \in Tpm /\ type # "manual"
  THEN Show("recovery") /\ UNCHANGED passphrase
  ELSE LoadPassphrase

LoadCapabilities(t) ==
  IF HasAdvancedFeatures(t)
  THEN Show("capabilities") /\ UNCHANGED passphrase
  ELSE LoadRecoveryKey

-----------------------------------------------------------------------------
(* The source page, which precedes the storage wizard *)

\* Another source needs another minimum size, so other targets are usable;
\* SourceModel.setSourceId and save reinitialize the storage service.
ChangeSource ==
  /\ root = "source" /\ CanTouch
  /\ present' \in TargetSets
  /\ guidedTarget' = None /\ guidedCapability' = None
  /\ incomplete' = Incomplete(plan)
  /\ UNCHANGED <<passphrase, pageVars, reviewed, navVars, load, choice, plan, resets, installed>>

\* StorageModel.init, when the storage wizard is pushed.
EnterStorage ==
  /\ root = "source" /\ CanGoOn
  /\ root' = "storage" /\ trail' = <<"storage">>
  /\ targets' = Offered(plan)
  /\ guidedTarget' = None
  /\ guidedCapability' = DefaultCapability(targets')
  /\ type' = IF type = None THEN DefaultType(targets') ELSE type
  /\ incomplete' = Incomplete(plan)
  /\ UNCHANGED <<passphrase, listed, reformatIndex, confirmed, reviewed, origin, load, choice, serverVars>>

-----------------------------------------------------------------------------
(* The pages of the nested wizard *)

SelectType(t) ==
  /\ OnPage("storage") /\ CanTouch
  /\ Selectable(t)
  /\ type' = t
  /\ UNCHANGED <<serviceVars, incomplete, targets, listed, reformatIndex, confirmed, reviewed, navVars, load, choice, serverVars>>

\* StorageModel.save
SavedTarget ==
  CASE type = "alongside" ->
         IF Usable(targets, "resize") # {} THEN First(Usable(targets, "resize"))
                                           ELSE First(Usable(targets, "use_gap"))
    [] type = "erase" -> First(Usable(targets, "reformat"))
    [] type \in EraseInstall -> type
    [] OTHER -> None

\* GuidedReformatModel.init: a single disk is taken without asking.
LoadReformat ==
  LET disks == Usable(Offered(plan), "reformat")
      t     == IF Cardinality(disks) = 1 THEN First(disks) ELSE SavedTarget
  IN  /\ type = "erase"
      /\ listed' = disks
      /\ guidedTarget' = t
      /\ IF Cardinality(disks) > 1
         THEN Show("reformat") /\ UNCHANGED passphrase
         ELSE LoadCapabilities(t)
      /\ incomplete' = Incomplete(plan)

\* GuidedResizeModel.init: the largest gap is taken without asking.
LoadResize ==
  LET gaps == Usable(Offered(plan), "use_gap")
  IN  /\ type = "alongside"
      /\ listed' = Usable(Offered(plan), "resize")
      /\ IF gaps # {}
         THEN guidedTarget' = Largest(gaps) /\ LoadCapabilities(Largest(gaps))
         ELSE guidedTarget' = SavedTarget /\ Show("resize") /\ UNCHANGED passphrase
      /\ incomplete' = Incomplete(plan)

\* ManualStorageModel.init
LoadManual ==
  /\ type = "manual"
  /\ guidedTarget' = None
  /\ Show("manual")
  /\ incomplete' = Incomplete(plan)
  /\ UNCHANGED <<listed, passphrase>>

LoadEraseInstall ==
  /\ type \in EraseInstall \cup {None}
  /\ guidedTarget' = SavedTarget
  /\ LoadCapabilities(SavedTarget)
  /\ UNCHANGED <<listed, incomplete>>

NextStorage ==
  /\ OnPage("storage") /\ CanGoOn
  /\ CanEraseDisk(targets) \/ CanInstallAlongside(targets) \/ CanManualPartition(targets)
  /\ LoadReformat \/ LoadResize \/ LoadManual \/ LoadEraseInstall
  /\ UNCHANGED <<guidedCapability, type, targets, reformatIndex, confirmed, reviewed, choice, serverVars>>

SelectDisk(i) ==
  /\ OnPage("reformat") /\ CanTouch
  /\ i < Cardinality(listed)
  /\ reformatIndex' = i
  /\ UNCHANGED <<serviceVars, incomplete, type, targets, listed, confirmed, reviewed, navVars, load, choice, serverVars>>

\* GuidedReformatModel.saveGuidedStorage
NextReformat ==
  LET t == Nth(listed, reformatIndex)
  IN  /\ OnPage("reformat") /\ CanGoOn
      /\ guidedTarget' = t
      /\ LoadCapabilities(t)
      /\ UNCHANGED <<guidedCapability, incomplete, pageVars, reviewed, choice, serverVars>>

\* GuidedResizeModel.save, which the page only calls with a storage selected.
NextResize(t) ==
  /\ OnPage("resize") /\ CanGoOn
  /\ t \in listed \/ (listed = {} /\ t = guidedTarget)
  /\ guidedTarget' = t
  /\ LoadCapabilities(t)
  /\ UNCHANGED <<guidedCapability, incomplete, pageVars, reviewed, choice, serverVars>>

\* Any operation of the manual page that edits the partitions.
EditPartitions(h) ==
  /\ OnPage("manual") /\ CanTouch
  /\ plan' = Unguided(h)
  /\ incomplete' = Incomplete(plan')
  /\ UNCHANGED <<serviceVars, pageVars, reviewed, navVars, load, choice, present, resets, installed>>

\* ManualStorageModel.setStorage
NextManual ==
  /\ OnPage("manual") /\ CanGoOn
  /\ ~incomplete
  /\ incomplete' = Incomplete(plan)
  /\ LoadCapabilities(guidedTarget)
  /\ UNCHANGED <<guidedTarget, guidedCapability, pageVars, reviewed, choice, serverVars>>

SelectCapability(c) ==
  /\ OnPage("capabilities") /\ CanTouch
  /\ guidedTarget # None /\ c \in Options(guidedTarget)
  /\ guidedCapability' = c
  /\ UNCHANGED <<guidedTarget, passphrase, incomplete, pageVars, reviewed, navVars, load, choice, serverVars>>

NextCapabilities ==
  /\ OnPage("capabilities") /\ CanGoOn
  /\ LoadRecoveryKey
  /\ UNCHANGED <<guidedTarget, guidedCapability, incomplete, pageVars, reviewed, choice, serverVars>>

ConfirmRecoveryKey(b) ==
  /\ OnPage("recovery") /\ CanTouch
  /\ confirmed' = b
  /\ UNCHANGED <<serviceVars, incomplete, type, targets, listed, reformatIndex, reviewed, navVars, load, choice, serverVars>>

NextRecoveryKey ==
  /\ OnPage("recovery") /\ CanGoOn
  /\ confirmed
  /\ LoadPassphrase
  /\ UNCHANGED <<guidedTarget, guidedCapability, incomplete, pageVars, reviewed, choice, serverVars>>

\* PassphraseModel.savePassphrase; p is what both fields hold.
NextPassphrase(p) ==
  /\ OnPage("passphrase") /\ CanGoOn
  /\ p \in Passphrase \/ (p = Empty /\ guidedCapability \in Tpm)
  /\ passphrase' = p
  /\ LoadConfirm
  /\ UNCHANGED <<guidedTarget, guidedCapability, incomplete, pageVars, reviewed, choice, serverVars>>

-----------------------------------------------------------------------------
(* Going back *)

\* Mutant: the storage page has no onReturn.
OnReturnNotStorage(p) ==
  IF p \in ResettingPage \ {"storage"}
  THEN Len(resets) < MaxResets /\ resets' = Append(resets, p) /\ guidedTarget' = None
  ELSE UNCHANGED <<resets, guidedTarget>>

\* What the uncovered page's onReturn does at once; the server serves the
\* reset later (ServeReset).
OnReturn(p) ==
  IF p \in ResettingPage
  THEN Len(resets) < MaxResets /\ resets' = Append(resets, p) /\ guidedTarget' = None
  ELSE UNCHANGED <<resets, guidedTarget>>

\* A nested Back button looks at the nested wizard's loading state only.
BackNested ==
  /\ root = "storage" /\ page # "storage" /\ CanTouch
  /\ trail' = Tail(trail)
  /\ OnReturn(Head(trail'))
  /\ UNCHANGED <<guidedCapability, passphrase, incomplete, pageVars, reviewed, root, origin, load, choice, present, plan, installed>>

BackToSource ==
  /\ OnPage("storage") /\ load = "idle" /\ CanTouch
  /\ root' = "source"
  /\ UNCHANGED <<serviceVars, incomplete, pageVars, reviewed, trail, origin, load, choice, serverVars>>

\* Back from the root page that follows storage: confirm, as LoadConfirm says.
BackFromConfirm ==
  /\ root = "confirm"
  /\ root' = "storage"
  /\ OnReturn(origin)
  /\ UNCHANGED <<guidedCapability, passphrase, incomplete, pageVars, reviewed, trail, origin, load, choice, present, plan, installed>>

\* The resize page fetches its targets again after its own reset.
ServeReset ==
  /\ resets # <<>>
  /\ resets' = Tail(resets)
  /\ plan' = NoPlan
  /\ incomplete' = TRUE
  /\ listed' = IF Head(resets) = "resize" /\ OnTrail("resize")
               THEN Usable(present, "resize") ELSE listed
  /\ UNCHANGED <<serviceVars, type, targets, reformatIndex, confirmed, reviewed, navVars, load, choice, present, installed>>

-----------------------------------------------------------------------------
(* ConfirmModel.init and StorageService.setGuidedStorage, one step per       *)
(* request.                                                                  *)

LoadFails == root' = "error" /\ load' = "idle" /\ UNCHANGED <<trail, origin>>

\* Mutant: setGuidedStorage does not reset first.
CheckTargetNoReset ==
  /\ load = "check"
  /\ load' = IF guidedTarget # None THEN "choose" ELSE "get"
  /\ UNCHANGED <<serviceVars, incomplete, pageVars, reviewed, navVars, choice, serverVars>>

CheckTarget ==
  /\ load = "check"
  /\ load' = IF guidedTarget # None THEN "reset" ELSE "get"
  /\ UNCHANGED <<serviceVars, incomplete, pageVars, reviewed, navVars, choice, serverVars>>

ResetPlan ==
  /\ load = "reset"
  /\ plan' = NoPlan
  /\ load' = "choose"
  /\ UNCHANGED <<serviceVars, incomplete, pageVars, reviewed, navVars, choice, present, resets, installed>>

\* Mutant: without a target the request is never made and never fails.
BuildChoiceOrWait ==
  /\ load = "choose" /\ guidedTarget # None
  /\ choice' = [how |-> "guided", target |-> guidedTarget,
                cap |-> IF guidedCapability = None THEN Head(Allowed[guidedTarget])
                        ELSE guidedCapability,
                pass |-> passphrase]
  /\ load' = "guided"
  /\ UNCHANGED <<serviceVars, incomplete, pageVars, reviewed, navVars, serverVars>>

\* The choice is read from the service after the reset was answered.
BuildChoice ==
  /\ load = "choose"
  /\ IF guidedTarget = None
     THEN LoadFails /\ UNCHANGED choice
     ELSE /\ choice' = [how |-> "guided", target |-> guidedTarget,
                        cap |-> IF guidedCapability = None THEN Head(Allowed[guidedTarget])
                                ELSE guidedCapability,
                        pass |-> passphrase]
          /\ load' = "guided" /\ UNCHANGED navVars
  /\ UNCHANGED <<serviceVars, incomplete, pageVars, reviewed, serverVars>>

\* Mutant: a rejected choice is taken for a successful one.
PostGuidedUnchecked ==
  /\ load = "guided"
  /\ plan' = IF Accepts(choice.target, choice.cap) THEN choice ELSE plan
  /\ load' = "set"
  /\ UNCHANGED <<serviceVars, incomplete, pageVars, reviewed, navVars, choice, present, resets, installed>>

PostGuided ==
  /\ load = "guided"
  /\ IF Accepts(choice.target, choice.cap)
     THEN plan' = choice /\ load' = "set" /\ UNCHANGED navVars
     ELSE LoadFails /\ UNCHANGED plan
  /\ UNCHANGED <<serviceVars, incomplete, pageVars, reviewed, choice, present, resets, installed>>

PostStorage ==
  /\ load = "set"
  /\ load' = "get"
  /\ UNCHANGED <<serviceVars, incomplete, pageVars, reviewed, navVars, choice, serverVars>>

\* Mutant: the page only fetches a configuration that it has just sent.
FetchStorageIfGuided ==
  /\ load = "get"
  /\ reviewed' = IF guidedTarget = None THEN reviewed ELSE plan
  /\ incomplete' = Incomplete(plan)
  /\ load' = "originals"
  /\ UNCHANGED <<serviceVars, pageVars, navVars, choice, serverVars>>

\* The disks on the confirm page are those of this last response.
FetchStorage ==
  /\ load = "get"
  /\ reviewed' = plan
  /\ incomplete' = Incomplete(plan)
  /\ load' = "originals"
  /\ UNCHANGED <<serviceVars, pageVars, navVars, choice, serverVars>>

\* The original partitions arrive and the confirm page is pushed.
ShowConfirm ==
  /\ load = "originals"
  /\ load' = "idle" /\ root' = "confirm"
  /\ UNCHANGED <<serviceVars, incomplete, pageVars, reviewed, trail, origin, choice, serverVars>>

\* The Install button: the installation starts after the page transition.
ClickInstall ==
  /\ root = "confirm" /\ CanGoOn
  /\ root' = "installing"
  /\ UNCHANGED <<serviceVars, incomplete, pageVars, reviewed, trail, origin, load, choice, serverVars>>

StartInstallation ==
  /\ root = "installing"
  /\ passphrase' = None
  /\ installed' = plan
  /\ root' = "installed"
  /\ UNCHANGED <<guidedTarget, guidedCapability, incomplete, pageVars, reviewed, trail, origin, load, choice, present, plan, resets>>

-----------------------------------------------------------------------------
Forward ==
  \/ ChangeSource \/ EnterStorage
  \/ \E t \in StorageType : SelectType(t)
  \/ NextStorage
  \/ \E i \in 0 .. Cardinality(Target) : SelectDisk(i)
  \/ NextReformat
  \/ \E t \in Target \cup {None} : NextResize(t)
  \/ \E h \in {"partial", "manual"} : EditPartitions(h)
  \/ NextManual
  \/ \E c \in Capability : SelectCapability(c)
  \/ NextCapabilities
  \/ \E b \in BOOLEAN : ConfirmRecoveryKey(b)
  \/ NextRecoveryKey
  \/ \E p \in Passphrase \cup {Empty} : NextPassphrase(p)
  \/ ClickInstall

Backward == BackNested \/ BackToSource \/ BackFromConfirm

Load == CheckTarget \/ ResetPlan \/ BuildChoice \/ PostGuided \/ PostStorage \/ FetchStorage \/ ShowConfirm

Next == Forward \/ Backward \/ Load \/ ServeReset \/ StartInstallation

\* The server answers and delayed callbacks run; the user owes nothing.
Fairness == WF_vars(Load) /\ WF_vars(ServeReset)

Spec == Init /\ [][Next]_vars /\ Fairness

-----------------------------------------------------------------------------
(* Properties *)

\* The confirm page says "Review your choices": the configuration the
\* installation starts with is the one the page displayed when the user
\* clicked Install.
ReviewedIsInstalled == root = "installed" => installed = reviewed

\* ConfirmModel displays what the pages collected: a manual plan stays the
\* user's own, a guided one has the chosen target, capability and passphrase.
ReviewedIsChosen ==
  root = "confirm" /\ Selectable(type) =>
    IF type = "manual" THEN reviewed.how = "manual"
    ELSE /\ reviewed.how = "guided"
         /\ reviewed.target = guidedTarget
         /\ reviewed.cap = guidedCapability \/ guidedCapability = None
         /\ reviewed.pass = passphrase
         /\ type = "erase" => Kind[guidedTarget] = "reformat"
         /\ type = "alongside" => Kind[guidedTarget] \in {"resize", "use_gap"}
         /\ type \in EraseInstall => guidedTarget = type

\* A LUKS installation is never requested without a passphrase, nor a
\* passphrase for an installation that encrypts nothing.
PassphraseFitsCapability ==
  load = "guided" => /\ choice.cap \in Luks => choice.pass \in Passphrase
                     /\ choice.cap \notin Luks \cup Tpm => choice.pass = None

\* "The previously configured storage must be reset to make all guided
\* partitioning targets available": the resize page lists all of them.
AllTargetsOffered == OnPage("resize") /\ CanGoOn => listed = Usable(present, "resize")

\* "... to avoid multiple disks being configured for guided partitioning":
\* a guided configuration is only ever replaced after a reset.
GuidedOnlyAfterReset ==
  [][plan'.how = "guided" /\ plan' # plan => plan = NoPlan]_vars

\* Every capability the installer sends is one the target supports, and none that is
\* for display only: "We shouldn't send CORE_BOOT_PREFER_ENCRYPTED to the server".
CapabilitySupported == load = "guided" => Accepts(choice.target, choice.cap)

\* A started load of the confirm page ends: with the page, or with an error when
\* the target was reset under it.
LoadEnds == load # "idle" ~> load = "idle"

-----------------------------------------------------------------------------
(* The specification that a user may go by *)

\* How far the user is with the review of his choices.
Stage ==
  CASE root = "confirm" -> "reviewing"
    [] root = "error" -> "failed"
    [] root \in {"installing", "installed"} -> root
    [] OTHER -> IF load = "idle" THEN "choosing" ELSE "loading"

\* The configuration that the fields of StorageService stand for.
Chosen ==
  IF guidedTarget = None \/ root = "installed" THEN NoPlan
  ELSE [how |-> "guided", target |-> guidedTarget,
        cap |-> IF guidedCapability = None THEN Head(Allowed[guidedTarget])
                ELSE guidedCapability,
        pass |-> passphrase]

\* The confirm page has been reached.
Shown == IF root \in {"confirm", "installing", "installed"} THEN reviewed ELSE NoPlan

\* The service that the pages share, the requests that load the confirm page and
\* the resets nobody awaits add up to StorageChoice for a user who waits.
Choice == INSTANCE StorageChoice WITH
  Guided   <- {p \in Plan : p.how = "guided"},
  Own      <- {Unguided("partial"), Unguided("manual")},
  Blank    <- NoPlan,
  stage    <- Stage,
  chosen   <- Chosen,
  config   <- plan,
  reviewed <- Shown

ChoiceSpec == Choice!Spec
=============================================================================
