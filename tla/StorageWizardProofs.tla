------------------------- MODULE StorageWizardProofs -------------------------
(***************************************************************************)
(* Theorems about StorageWizard, for every value of its constants: the      *)
(* typing of its state, that a guided configuration only ever replaces an   *)
(* empty one, and that a user who waits installs what was reviewed and       *)
(* reviews what was chosen, with a passphrase that fits, out of all the      *)
(* targets there are; for him the wizard implements StorageChoice.          *)
(***************************************************************************)
EXTENDS StorageWizard, SequenceTheorems, FiniteSetTheorems, TLAPS

-----------------------------------------------------------------------------
(* What the pages read from the lists of targets. *)

\* Every operator that picks a target picks one of the given ones, or none.
LEMMA PickedTargets ==
  ASSUME NEW S \in SUBSET Target, NEW i \in Nat
  PROVE  /\ First(S) \in S \cup {None}
         /\ Nth(S, i) \in S \cup {None}
         /\ Largest(S) \in S \cup {None}
<1>1. First(S) \in S \cup {None}
  BY DEF First, Leads
<1>2. Nth(S, i) \in S \cup {None}
  BY DEF Nth, At
<1>3. Largest(S) \in S \cup {None}
  BY DEF Largest, Biggest
<1> QED
  BY <1>1, <1>2, <1>3

\* The first capability of a target that allows any is a capability.
LEMMA FirstAllowed ==
  ASSUME NEW t \in Target, Caps(t) # {}
  PROVE  Head(Allowed[t]) \in Capability
<1>1. Allowed[t] \in Seq(Capability)
  BY ConstantsAssumption
<1>2. Allowed[t] # <<>>
  BY <1>1 DEF Caps
<1> QED
  BY <1>1, <1>2, HeadTailProperties

LEMMA UsableTargets ==
  ASSUME NEW S \in SUBSET Target, NEW k
  PROVE  /\ Usable(S, k) \in SUBSET S
         /\ \A t \in Usable(S, k) : Caps(t) # {}
BY DEF Usable

LEMMA DefaultCapabilityType ==
  ASSUME NEW S \in SUBSET Target
  PROVE  DefaultCapability(S) \in Capability \cup {None}
<1> DEFINE t == First(Usable(S, "reformat"))
<1>1. t \in Usable(S, "reformat") \cup {None}
  BY PickedTargets, UsableTargets
<1>2. CASE t = None
  BY <1>2 DEF DefaultCapability
<1>3. CASE t \in Usable(S, "reformat")
  <2>1. Head(Allowed[t]) \in Capability
    BY <1>3, UsableTargets, FirstAllowed
  <2> QED
    BY <2>1 DEF DefaultCapability
<1> QED
  BY <1>1, <1>2, <1>3

-----------------------------------------------------------------------------
(* Page transitions *)

\* Showing page p puts it in front of the trail and moves nothing else.
LEMMA ShowTrail ==
  ASSUME TypeOK, NEW p \in Page, Show(p)
  PROVE  /\ trail' \in Seq(Page) /\ trail' # <<>>
         /\ Len(trail') = Len(trail) + 1
         /\ trail'[1] = p
         /\ \A i \in 2 .. Len(trail) + 1 : trail'[i] = trail[i - 1]
<1>1. <<p>> \in Seq(Page) /\ Len(<<p>>) = 1 /\ <<p>>[1] = p
  OBVIOUS
<1>2. trail \in Seq(Page) /\ Len(trail) \in Nat
  BY DEF TypeOK
<1>3. trail' = <<p>> \o trail
  BY DEF Show
<1> QED
  BY <1>1, <1>2, <1>3, ConcatProperties

\* Going back removes the page in front of the trail.
LEMMA TailTrail ==
  ASSUME TypeOK, Len(trail) > 1, trail' = Tail(trail)
  PROVE  /\ trail' \in Seq(Page) /\ trail' # <<>>
         /\ Len(trail') = Len(trail) - 1
         /\ \A i \in 1 .. Len(trail) - 1 : trail'[i] = trail[i + 1]
<1>1. trail \in Seq(Page) /\ trail # <<>> /\ Len(trail) \in Nat
  BY DEF TypeOK
<1>2. /\ Tail(trail) \in Seq(Page)
      /\ Len(Tail(trail)) = Len(trail) - 1
      /\ \A i \in 1 .. Len(Tail(trail)) : Tail(trail)[i] = trail[i + 1]
  BY <1>1, HeadTailProperties
<1> QED
  BY <1>1, <1>2

\* The pages in between: the chain either shows one of them or loads the
\* confirm page.
LEMMA ChainEnds ==
  ASSUME NEW t, LoadCapabilities(t) \/ LoadRecoveryKey \/ LoadPassphrase
  PROVE  \/ /\ \E p \in {"capabilities", "recovery", "passphrase"} : Show(p)
            /\ passphrase' = passphrase
         \/ LoadConfirm /\ passphrase' = None
<1>1. ASSUME LoadPassphrase
      PROVE  \/ Show("passphrase") /\ passphrase' = passphrase
             \/ LoadConfirm /\ passphrase' = None
  BY <1>1 DEF LoadPassphrase
<1>2. ASSUME LoadRecoveryKey
      PROVE  \/ Show("recovery") /\ passphrase' = passphrase
             \/ LoadPassphrase
  BY <1>2 DEF LoadRecoveryKey
<1>3. ASSUME LoadCapabilities(t)
      PROVE  \/ Show("capabilities") /\ passphrase' = passphrase
             \/ LoadRecoveryKey
  BY <1>3 DEF LoadCapabilities
<1> QED
  BY <1>1, <1>2, <1>3

-----------------------------------------------------------------------------
(* The shape of the trail: "storage" is at its end, and the page of one of   *)
(* its types directly in front of it.                                        *)

Typed == {"reformat", "resize", "manual"}

TrailOK ==
  /\ trail[Len(trail)] = "storage"
  /\ \A i \in 1 .. Len(trail) :
       /\ trail[i] = "storage" => i = Len(trail)
       /\ trail[i] \in Typed => i = Len(trail) - 1

LEMMA ShowKeepsShape ==
  ASSUME TypeOK, TrailOK, NEW p \in Page, Show(p),
         p # "storage", p \in Typed => page = "storage"
  PROVE  /\ trail' \in Seq(Page) /\ trail' # <<>>
         /\ TrailOK'
         /\ OnTrail("manual")' <=> p = "manual" \/ OnTrail("manual")
<1> DEFINE n == Len(trail)
<1>1. n \in Nat \ {0} /\ page = trail[1] /\ trail \in Seq(Page)
  BY DEF TypeOK, page
<1>2. /\ trail' \in Seq(Page) /\ trail' # <<>>
      /\ Len(trail') = n + 1
      /\ trail'[1] = p
      /\ \A i \in 2 .. n + 1 : trail'[i] = trail[i - 1]
  BY ShowTrail
<1>3. \A i \in 1 .. n : trail'[i + 1] = trail[i]
  BY <1>1, <1>2
<1>4. trail'[n + 1] = "storage"
  BY <1>1, <1>3 DEF TrailOK
<1>5. ASSUME NEW i \in 1 .. n + 1
      PROVE  /\ trail'[i] = "storage" => i = n + 1
             /\ trail'[i] \in Typed => i = n
  <2>1. CASE i = 1
    <3>1. trail'[i] # "storage"
      BY <1>2, <2>1
    <3>2. ASSUME trail'[i] \in Typed PROVE i = n
      <4>1. page = "storage"
        BY <1>2, <2>1, <3>2
      <4>2. 1 \in 1 .. n /\ trail[1] = "storage"
        BY <1>1, <4>1
      <4> QED
        BY <1>1, <2>1, <4>2 DEF TrailOK
    <3> QED
      BY <3>1, <3>2
  <2>2. CASE i # 1
    BY <1>1, <1>2, <2>2 DEF TrailOK
  <2> QED
    BY <2>1, <2>2
<1>6. TrailOK'
  BY <1>1, <1>2, <1>4, <1>5 DEF TrailOK
<1>7. OnTrail("manual")' <=> p = "manual" \/ OnTrail("manual")
  <2>1. ASSUME OnTrail("manual")' PROVE p = "manual" \/ OnTrail("manual")
    BY <1>1, <1>2, <2>1 DEF OnTrail
  <2>2. ASSUME p = "manual" PROVE OnTrail("manual")'
    BY <1>1, <1>2, <2>2 DEF OnTrail
  <2>3. ASSUME OnTrail("manual") PROVE OnTrail("manual")'
    <3>1. PICK i \in 1 .. n : trail[i] = "manual"
      BY <2>3 DEF OnTrail
    <3>2. i + 1 \in 1 .. n + 1 /\ trail'[i + 1] = "manual"
      BY <1>1, <1>3, <3>1
    <3> QED
      BY <1>2, <3>2 DEF OnTrail
  <2> QED
    BY <2>1, <2>2, <2>3
<1> QED
  BY <1>2, <1>6, <1>7

LEMMA BackKeepsShape ==
  ASSUME TypeOK, TrailOK, page # "storage", trail' = Tail(trail)
  PROVE  /\ trail' \in Seq(Page) /\ trail' # <<>>
         /\ TrailOK'
         /\ OnTrail("manual")' => OnTrail("manual")
         /\ Head(trail') \in Page
<1> DEFINE n == Len(trail)
<1>1. n \in Nat \ {0} /\ page = trail[1] /\ trail \in Seq(Page)
  BY DEF TypeOK, page
<1>2. n > 1
  BY <1>1 DEF TrailOK
<1>3. /\ trail' \in Seq(Page) /\ trail' # <<>>
      /\ Len(trail') = n - 1
      /\ \A i \in 1 .. n - 1 : trail'[i] = trail[i + 1]
  BY <1>2, TailTrail
<1>4. trail'[n - 1] = "storage"
  <2>1. n - 1 \in 1 .. n - 1 /\ n - 1 + 1 = n
    BY <1>1, <1>2
  <2>2. trail'[n - 1] = trail[n]
    BY <1>3, <2>1
  <2> QED
    BY <2>2 DEF TrailOK
<1>5. ASSUME NEW i \in 1 .. n - 1
      PROVE  /\ trail'[i] = "storage" => i = n - 1
             /\ trail'[i] \in Typed => i = n - 1 - 1
  <2>1. i + 1 \in 1 .. n /\ trail'[i] = trail[i + 1]
    BY <1>1, <1>3
  <2>2. /\ trail[i + 1] = "storage" => i + 1 = n
        /\ trail[i + 1] \in Typed => i + 1 = n - 1
    BY <2>1 DEF TrailOK
  <2> QED
    BY <1>1, <2>1, <2>2
<1>6. TrailOK'
  BY <1>1, <1>3, <1>4, <1>5 DEF TrailOK
<1>7. OnTrail("manual")' => OnTrail("manual")
  BY <1>1, <1>3 DEF OnTrail
<1>8. Head(trail') \in Page
  BY <1>3, HeadTailProperties
<1> QED
  BY <1>3, <1>6, <1>7, <1>8

\* What the chain of pages does to the navigation.
NavType ==
  /\ root \in {"source", "storage", "confirm", "installing", "installed", "error"}
  /\ trail \in Seq(Page) /\ trail # <<>>
  /\ origin \in Page
  /\ load \in {"idle", "check", "reset", "choose", "guided", "set", "get", "originals"}
  /\ passphrase \in Passphrase \cup {Empty, None}

LEMMA ChainKeepsShape ==
  ASSUME TypeOK, TrailOK, NEW t,
         \/ LoadCapabilities(t) \/ LoadRecoveryKey \/ LoadPassphrase
         \/ LoadConfirm /\ passphrase' \in Passphrase \cup {Empty}
  PROVE  /\ NavType' /\ TrailOK'
         /\ OnTrail("manual")' <=> OnTrail("manual")
         /\ root' = root
         /\ load' = load \/ load' = "check"
<1>1. CASE \E p \in {"capabilities", "recovery", "passphrase"} :
              Show(p) /\ passphrase' = passphrase
  <2>1. PICK p \in {"capabilities", "recovery", "passphrase"} :
               Show(p) /\ passphrase' = passphrase
    BY <1>1
  <2>2. p \in Page /\ p # "storage" /\ p # "manual" /\ p \notin Typed
    BY DEF Page, Typed
  <2>3. /\ trail' \in Seq(Page) /\ trail' # <<>>
        /\ TrailOK'
        /\ OnTrail("manual")' <=> OnTrail("manual")
    BY <2>1, <2>2, ShowKeepsShape
  <2>4. root' = root /\ origin' = origin /\ load' = load
    BY <2>1 DEF Show
  <2> QED
    BY <2>1, <2>3, <2>4 DEF TypeOK, NavType
<1>2. CASE LoadConfirm /\ passphrase' \in Passphrase \cup {Empty, None}
  <2>1. load' = "check" /\ origin' = page /\ root' = root /\ trail' = trail
    BY <1>2 DEF LoadConfirm
  <2>2. page \in Page
    BY HeadTailProperties DEF TypeOK, page
  <2>3. NavType'
    BY <1>2, <2>1, <2>2 DEF TypeOK, NavType
  <2>4. TrailOK' /\ (OnTrail("manual")' <=> OnTrail("manual"))
    BY <2>1 DEF TrailOK, OnTrail
  <2> QED
    BY <2>1, <2>3, <2>4
<1> QED
  BY <1>1, <1>2, ChainEnds

-----------------------------------------------------------------------------
(* The inductive invariant *)

\* Only a target that allows some capability is ever chosen or offered, so the
\* service's fallback allowed.first exists.
AllowedOK ==
  /\ guidedTarget # None => Caps(guidedTarget) # {}
  /\ \A t \in listed : Caps(t) # {}
  /\ type \in EraseInstall => Caps(type) # {}

\* Manual partitioning has no guided target, and a guided request is only
\* under way when the manual page cannot be reached by going back.
ManualOK ==
  /\ OnTrail("manual") => guidedTarget = None
  /\ load \in {"reset", "choose", "guided", "set"} => ~OnTrail("manual")

\* Between the reset and the guided request the server stays unconfigured.
LoadOK == load \in {"choose", "guided"} => plan = NoPlan

IInv == TypeOK /\ TrailOK /\ AllowedOK /\ ManualOK /\ LoadOK

LEMMA UnguidedPlan ==
  ASSUME NEW h \in {"none", "partial", "manual"}
  PROVE  Unguided(h) \in Plan
BY DEF Unguided, Plan

LEMMA EmptyPlan == NoPlan \in Plan
BY UnguidedPlan DEF NoPlan

LEMMA OfferedTargets ==
  ASSUME TypeOK, NEW p
  PROVE  Offered(p) \in SUBSET Target
BY DEF Offered, TypeOK

LEMMA InitIInv == Init => IInv
<1> SUFFICES ASSUME Init PROVE IInv
  OBVIOUS
<1>1. trail = <<"storage">> /\ Len(trail) = 1 /\ trail[1] = "storage"
  BY DEF Init
<1>2. trail \in Seq(Page) /\ trail # <<>>
  BY <1>1 DEF Page
<1>3. resets \in Seq(ResettingPage) /\ Len(resets) <= MaxResets
  BY ConstantsAssumption DEF Init
<1>4. present \in SUBSET Target
  BY ConstantsAssumption DEF Init
<1>5. TypeOK
  BY <1>2, <1>3, <1>4, EmptyPlan DEF Init, TypeOK, StorageType, Page
<1>6. TrailOK
  BY <1>1 DEF TrailOK, Typed
<1>7. AllowedOK
  BY ConstantsAssumption DEF Init, AllowedOK, EraseInstall
<1>8. ManualOK /\ LoadOK
  BY <1>1 DEF Init, ManualOK, LoadOK, OnTrail
<1> QED
  BY <1>5, <1>6, <1>7, <1>8 DEF IInv

\* The source page.
LEMMA SourceStep ==
  ASSUME IInv, ChangeSource \/ EnterStorage \/ BackToSource
  PROVE  IInv'
<1> USE DEF IInv
<1>1. CASE ChangeSource
  <2> USE <1>1 DEF ChangeSource, pageVars, navVars
  <2>1. TypeOK'
    BY ConstantsAssumption DEF TypeOK, Incomplete
  <2>2. TrailOK'
    BY DEF TrailOK
  <2>3. AllowedOK'
    BY DEF AllowedOK
  <2>4. ManualOK' /\ LoadOK'
    BY DEF ManualOK, LoadOK, OnTrail
  <2> QED
    BY <2>1, <2>2, <2>3, <2>4
<1>2. CASE EnterStorage
  <2> USE <1>2 DEF EnterStorage, serverVars
  <2>1. targets' \in SUBSET Target
    BY OfferedTargets
  <2>2. guidedCapability' \in Capability \cup {None}
    BY <2>1, DefaultCapabilityType
  <2>3. DefaultType(targets') \in {"alongside", "erase", "manual", None}
    BY DEF DefaultType
  <2>4. type' \in StorageType
    BY <2>3 DEF StorageType, TypeOK
  <2>5. trail' \in Seq(Page) /\ trail' # <<>> /\ Len(trail') = 1 /\ trail'[1] = "storage"
    BY DEF Page
  <2>6. TypeOK'
    BY <2>1, <2>2, <2>4, <2>5 DEF TypeOK, Incomplete
  <2>7. TrailOK'
    BY <2>5 DEF TrailOK, Typed
  <2>8. AllowedOK'
    BY <2>3, ConstantsAssumption DEF AllowedOK, EraseInstall
  <2>9. ManualOK' /\ LoadOK'
    BY <2>5 DEF ManualOK, LoadOK, OnTrail, CanGoOn
  <2> QED
    BY <2>6, <2>7, <2>8, <2>9
<1>3. CASE BackToSource
  <2> USE <1>3 DEF BackToSource, serviceVars, pageVars, serverVars
  <2>1. TypeOK'
    BY DEF TypeOK
  <2>2. TrailOK' /\ AllowedOK' /\ ManualOK' /\ LoadOK'
    BY DEF TrailOK, AllowedOK, ManualOK, LoadOK, OnTrail
  <2> QED
    BY <2>1, <2>2
<1> QED
  BY <1>1, <1>2, <1>3

\* The storage page.
LEMMA SavedTargetAllowed ==
  ASSUME TypeOK, AllowedOK
  PROVE  /\ SavedTarget \in Target \cup {None}
         /\ SavedTarget # None => Caps(SavedTarget) # {}
<1> DEFINE pick(k) == First(Usable(targets, k))
<1>1. \A k \in {"resize", "use_gap", "reformat"} :
        /\ pick(k) \in Target \cup {None}
        /\ pick(k) # None => Caps(pick(k)) # {}
  <2>1. targets \in SUBSET Target
    BY DEF TypeOK
  <2>2. ASSUME NEW k PROVE pick(k) \in Usable(targets, k) \cup {None}
    BY <2>1, PickedTargets, UsableTargets
  <2> QED
    BY <2>1, <2>2, UsableTargets
<1>2. CASE type = "alongside"
  <2>1. type \notin EraseInstall
    BY <1>2, ConstantsAssumption DEF EraseInstall
  <2>2. SavedTarget = IF Usable(targets, "resize") # {} THEN pick("resize") ELSE pick("use_gap")
    BY <1>2, <2>1 DEF SavedTarget
  <2> QED
    BY <1>1, <2>2
<1>3. CASE type = "erase"
  <2>1. type \notin EraseInstall
    BY <1>3, ConstantsAssumption DEF EraseInstall
  <2>2. SavedTarget = pick("reformat")
    BY <1>3, <2>1 DEF SavedTarget
  <2> QED
    BY <1>1, <2>2
<1>4. CASE type \in EraseInstall
  <2>1. type \in Target /\ Caps(type) # {}
    BY <1>4 DEF EraseInstall, AllowedOK
  <2>2. type # "alongside" /\ type # "erase"
    BY <2>1, ConstantsAssumption
  <2> QED
    BY <1>4, <2>1, <2>2 DEF SavedTarget
<1>5. CASE type \notin {"alongside", "erase"} \cup EraseInstall
  BY <1>5 DEF SavedTarget
<1> QED
  BY <1>2, <1>3, <1>4, <1>5

LEMMA SelectTypeStep ==
  ASSUME IInv, NEW t \in StorageType, SelectType(t)
  PROVE  IInv'
<1> USE DEF IInv, SelectType, serviceVars, navVars, serverVars
<1>1. TypeOK'
  BY DEF TypeOK
<1>2. AllowedOK'
  BY ConstantsAssumption DEF AllowedOK, Selectable, EraseInstall, Usable
<1>3. TrailOK' /\ ManualOK' /\ LoadOK'
  BY DEF TrailOK, ManualOK, LoadOK, OnTrail
<1> QED
  BY <1>1, <1>2, <1>3

\* On the storage page nothing else is on the trail.
LEMMA OnStorage ==
  ASSUME TypeOK, TrailOK, page = "storage"
  PROVE  Len(trail) = 1 /\ ~OnTrail("manual")
<1>1. Len(trail) \in Nat \ {0} /\ trail[1] = "storage"
  BY DEF TypeOK, page
<1>2. Len(trail) = 1
  BY <1>1 DEF TrailOK
<1> QED
  BY <1>1, <1>2 DEF OnTrail

\* Page p shown in front of the storage page, or the chain loaded from it.
LEMMA LoadShape ==
  ASSUME IInv, page = "storage", NEW t, NEW p \in Typed,
         (Show(p) /\ passphrase' = passphrase) \/ LoadCapabilities(t)
  PROVE  /\ NavType' /\ TrailOK'
         /\ OnTrail("manual")' => p = "manual"
         /\ load' = load \/ load' = "check"
<1>1. CASE LoadCapabilities(t)
  BY <1>1, OnStorage, ChainKeepsShape DEF IInv
<1>2. CASE Show(p) /\ passphrase' = passphrase
  <2>1. p \in Page /\ p # "storage"
    BY DEF Typed, Page
  <2>2. /\ trail' \in Seq(Page) /\ trail' # <<>>
        /\ TrailOK'
        /\ OnTrail("manual")' <=> p = "manual" \/ OnTrail("manual")
    BY <1>2, <2>1, ShowKeepsShape DEF IInv
  <2>3. ~OnTrail("manual")
    BY OnStorage DEF IInv
  <2>4. root' = root /\ origin' = origin /\ load' = load
    BY <1>2 DEF Show
  <2> QED
    BY <1>2, <2>2, <2>3, <2>4 DEF IInv, TypeOK, NavType
<1> QED
  BY <1>1, <1>2

\* What holds once the page behind the storage page is loaded.
Loaded ==
  /\ guidedTarget \in Target \cup {None}
  /\ guidedTarget # None => Caps(guidedTarget) # {}
  /\ listed \in SUBSET Target /\ \A t \in listed : Caps(t) # {}
  /\ incomplete \in BOOLEAN
  /\ NavType /\ TrailOK
  /\ OnTrail("manual") => guidedTarget = None
  /\ load \in {"idle", "check"}

LEMMA LoadReformatShape ==
  ASSUME IInv, page = "storage", load = "idle", LoadReformat
  PROVE  Loaded'
<1> USE DEF IInv
<1> DEFINE disks == Usable(Offered(plan), "reformat")
           t     == IF Cardinality(disks) = 1 THEN First(disks) ELSE SavedTarget
<1>1. disks \in SUBSET Target /\ \A u \in disks : Caps(u) # {}
  BY OfferedTargets, UsableTargets
<1>2. /\ t \in Target \cup {None}
      /\ t # None => Caps(t) # {}
  BY <1>1, PickedTargets, SavedTargetAllowed
<1>3. guidedTarget' = t /\ listed' = disks /\ incomplete' = Incomplete(plan)
  BY DEF LoadReformat
<1>4. (Show("reformat") /\ passphrase' = passphrase) \/ LoadCapabilities(t)
  BY DEF LoadReformat
<1>5. /\ NavType' /\ TrailOK'
      /\ ~OnTrail("manual")'
      /\ load' = load \/ load' = "check"
  BY <1>4, LoadShape DEF Typed
<1> HIDE DEF disks, t
<1> QED
  BY <1>1, <1>2, <1>3, <1>5 DEF Loaded, Incomplete

LEMMA LoadResizeShape ==
  ASSUME IInv, page = "storage", load = "idle", LoadResize
  PROVE  Loaded'
<1> USE DEF IInv
<1> DEFINE gaps    == Usable(Offered(plan), "use_gap")
           shrinks == Usable(Offered(plan), "resize")
           t       == IF gaps # {} THEN Largest(gaps) ELSE SavedTarget
<1>1. /\ gaps \in SUBSET Target /\ \A u \in gaps : Caps(u) # {}
      /\ shrinks \in SUBSET Target /\ \A u \in shrinks : Caps(u) # {}
  BY OfferedTargets, UsableTargets
<1>2. /\ t \in Target \cup {None}
      /\ t # None => Caps(t) # {}
  BY <1>1, PickedTargets, SavedTargetAllowed
<1>3. guidedTarget' = t /\ listed' = shrinks /\ incomplete' = Incomplete(plan)
  BY DEF LoadResize
<1>4. (Show("resize") /\ passphrase' = passphrase) \/ LoadCapabilities(t)
  BY DEF LoadResize
<1>5. /\ NavType' /\ TrailOK'
      /\ ~OnTrail("manual")'
      /\ load' = load \/ load' = "check"
  BY <1>4, LoadShape DEF Typed
<1> HIDE DEF gaps, shrinks, t
<1> QED
  BY <1>1, <1>2, <1>3, <1>5 DEF Loaded, Incomplete

LEMMA LoadManualShape ==
  ASSUME IInv, page = "storage", load = "idle", LoadManual
  PROVE  Loaded'
<1> USE DEF IInv
<1>1. /\ guidedTarget' = None /\ listed' = listed /\ incomplete' = Incomplete(plan)
      /\ Show("manual") /\ passphrase' = passphrase
  BY DEF LoadManual
<1>2. NavType' /\ TrailOK' /\ (load' = load \/ load' = "check")
  BY <1>1, LoadShape DEF Typed
<1> QED
  BY <1>1, <1>2 DEF Loaded, TypeOK, AllowedOK, Incomplete

LEMMA LoadEraseInstallShape ==
  ASSUME IInv, page = "storage", load = "idle", LoadEraseInstall
  PROVE  Loaded'
<1> USE DEF IInv
<1>1. /\ guidedTarget' = SavedTarget /\ listed' = listed /\ incomplete' = incomplete
      /\ LoadCapabilities(SavedTarget)
  BY DEF LoadEraseInstall
<1>2. /\ NavType' /\ TrailOK'
      /\ ~OnTrail("manual")'
      /\ load' = load \/ load' = "check"
  <2>1. "reformat" \in Typed /\ "reformat" # "manual"
    BY DEF Typed
  <2> QED
    BY <1>1, <2>1, LoadShape
<1> QED
  BY <1>1, <1>2, SavedTargetAllowed DEF Loaded, TypeOK, AllowedOK

LEMMA NextStorageStep ==
  ASSUME IInv, NextStorage
  PROVE  IInv'
<1> USE DEF IInv
<1>1. page = "storage" /\ load = "idle"
  BY DEF NextStorage, OnPage, CanGoOn
<1>2. /\ UNCHANGED <<guidedCapability, type, targets, reformatIndex, confirmed, reviewed, choice>>
      /\ UNCHANGED <<present, plan, resets, installed>>
  BY DEF NextStorage, serverVars
<1>3. Loaded'
  BY <1>1, LoadReformatShape, LoadResizeShape, LoadManualShape, LoadEraseInstallShape DEF NextStorage
<1>4. TypeOK'
  BY <1>2, <1>3 DEF TypeOK, Loaded, NavType
<1>5. AllowedOK'
  BY <1>2, <1>3 DEF AllowedOK, Loaded
<1>6. TrailOK' /\ ManualOK' /\ LoadOK'
  BY <1>3 DEF ManualOK, LoadOK, Loaded
<1> QED
  BY <1>4, <1>5, <1>6

\* The pages that choose a disk or a partition.
LEMMA OnDisks ==
  ASSUME TypeOK, TrailOK, page \in {"reformat", "resize"}
  PROVE  ~OnTrail("manual")
<1>1. Len(trail) \in Nat \ {0} /\ trail[1] = page
  BY DEF TypeOK, page
<1>2. 1 \in 1 .. Len(trail) /\ trail[1] \in Typed
  BY <1>1 DEF Typed
<1>3. Len(trail) = 2
  <2>1. 1 = Len(trail) - 1
    BY <1>2 DEF TrailOK
  <2> QED
    BY <1>1, <2>1
<1>4. trail[1] # "manual" /\ trail[2] = "storage"
  BY <1>1, <1>3 DEF TrailOK
<1> QED
  BY <1>3, <1>4 DEF OnTrail

LEMMA NextDiskStep ==
  ASSUME IInv, NextReformat \/ \E t \in Target \cup {None} : NextResize(t)
  PROVE  IInv'
<1> USE DEF IInv
<1>1. page \in {"reformat", "resize"} /\ load = "idle"
  BY DEF NextReformat, NextResize, OnPage, CanGoOn
<1>2. PICK t \in Target \cup {None} :
        /\ t # None => Caps(t) # {}
        /\ guidedTarget' = t /\ LoadCapabilities(t)
        /\ UNCHANGED <<guidedCapability, incomplete, type, targets, listed, reformatIndex,
                       confirmed, reviewed, choice>>
        /\ UNCHANGED <<present, plan, resets, installed>>
  <2>1. CASE NextReformat
    <3>1. Nth(listed, reformatIndex) \in listed \cup {None}
      BY PickedTargets DEF TypeOK
    <3> QED
      BY <2>1, <3>1 DEF NextReformat, TypeOK, AllowedOK, pageVars, serverVars
  <2>2. CASE \E t \in Target \cup {None} : NextResize(t)
    BY <2>2 DEF NextResize, TypeOK, AllowedOK, pageVars, serverVars
  <2> QED
    BY <2>1, <2>2
<1>3. /\ NavType' /\ TrailOK'
      /\ ~OnTrail("manual")'
      /\ load' = load \/ load' = "check"
  BY <1>1, <1>2, OnDisks, ChainKeepsShape
<1>4. TypeOK'
  BY <1>2, <1>3 DEF TypeOK, NavType
<1>5. AllowedOK'
  BY <1>2 DEF AllowedOK
<1>6. ManualOK' /\ LoadOK'
  BY <1>1, <1>3 DEF ManualOK, LoadOK
<1> QED
  BY <1>3, <1>4, <1>5, <1>6

\* The Next buttons that keep the target.
LEMMA NextPageStep ==
  ASSUME IInv, NextManual \/ NextCapabilities \/ NextRecoveryKey
               \/ \E p \in Passphrase \cup {Empty} : NextPassphrase(p)
  PROVE  IInv'
<1> USE DEF IInv
<1>1. /\ UNCHANGED <<guidedTarget, guidedCapability, type, targets, listed, reformatIndex,
                     confirmed, reviewed, choice>>
      /\ UNCHANGED <<present, plan, resets, installed>>
      /\ incomplete' = incomplete \/ incomplete' = Incomplete(plan)
      /\ load = "idle"
  <2> USE DEF pageVars, serverVars, CanGoOn
  <2>1. CASE NextManual
    BY <2>1 DEF NextManual
  <2>2. CASE NextCapabilities
    BY <2>2 DEF NextCapabilities
  <2>3. CASE NextRecoveryKey
    BY <2>3 DEF NextRecoveryKey
  <2>4. CASE \E p \in Passphrase \cup {Empty} : NextPassphrase(p)
    BY <2>4 DEF NextPassphrase
  <2> QED
    BY <2>1, <2>2, <2>3, <2>4
<1>2. \/ LoadCapabilities(guidedTarget) \/ LoadRecoveryKey \/ LoadPassphrase
      \/ LoadConfirm /\ passphrase' \in Passphrase \cup {Empty}
  BY DEF NextManual, NextCapabilities, NextRecoveryKey, NextPassphrase
<1>3. /\ NavType' /\ TrailOK'
      /\ OnTrail("manual")' <=> OnTrail("manual")
      /\ load' = load \/ load' = "check"
  BY <1>2, ChainKeepsShape
<1>4. TypeOK'
  <2>1. incomplete' \in BOOLEAN
    <3>1. incomplete \in BOOLEAN
      BY DEF TypeOK
    <3>2. Incomplete(plan) \in BOOLEAN
      BY DEF Incomplete
    <3> QED
      BY <1>1, <3>1, <3>2
  <2> QED
    BY <1>1, <1>3, <2>1 DEF TypeOK, NavType
<1>5. AllowedOK' /\ ManualOK' /\ LoadOK'
  BY <1>1, <1>3 DEF AllowedOK, ManualOK, LoadOK
<1> QED
  BY <1>3, <1>4, <1>5

\* The widgets of the pages.
LEMMA WidgetStep ==
  ASSUME IInv,
         \/ \E i \in 0 .. Cardinality(Target) : i \in Nat /\ SelectDisk(i)
         \/ \E h \in {"partial", "manual"} : EditPartitions(h)
         \/ \E c \in Capability : SelectCapability(c)
         \/ \E b \in BOOLEAN : ConfirmRecoveryKey(b)
  PROVE  IInv'
<1> USE DEF IInv
<1>1. CASE \E h \in {"partial", "manual"} : EditPartitions(h)
  <2>1. PICK h \in {"partial", "manual"} : EditPartitions(h)
    BY <1>1
  <2>2. plan' \in Plan /\ incomplete' \in BOOLEAN
    BY <2>1, UnguidedPlan DEF EditPartitions, Incomplete
  <2>3. OnTrail("manual")
    <3>1. Len(trail) \in Nat \ {0} /\ trail[1] = "manual"
      BY <2>1 DEF EditPartitions, OnPage, page, TypeOK
    <3> QED
      BY <3>1 DEF OnTrail
  <2>4. TypeOK'
    BY <2>1, <2>2 DEF EditPartitions, serviceVars, pageVars, navVars, TypeOK
  <2>5. TrailOK' /\ AllowedOK' /\ ManualOK'
    BY <2>1 DEF EditPartitions, serviceVars, pageVars, navVars, TrailOK, AllowedOK, ManualOK, OnTrail
  <2>6. LoadOK'
    BY <2>1, <2>3 DEF EditPartitions, ManualOK, LoadOK
  <2> QED
    BY <2>4, <2>5, <2>6
<1>2. CASE \/ \E i \in 0 .. Cardinality(Target) : i \in Nat /\ SelectDisk(i)
           \/ \E c \in Capability : SelectCapability(c)
           \/ \E b \in BOOLEAN : ConfirmRecoveryKey(b)
  <2> USE <1>2 DEF SelectDisk, SelectCapability, ConfirmRecoveryKey, serviceVars, pageVars,
                   navVars, serverVars
  <2>1. TypeOK'
    BY DEF TypeOK
  <2>2. TrailOK' /\ AllowedOK' /\ ManualOK' /\ LoadOK'
    BY DEF TrailOK, AllowedOK, ManualOK, LoadOK, OnTrail
  <2> QED
    BY <2>1, <2>2
<1> QED
  BY <1>1, <1>2

\* Going back, and the resets this leaves to the server.
LEMMA OnReturnType ==
  ASSUME TypeOK, NEW p \in Page, OnReturn(p)
  PROVE  /\ resets' \in Seq(ResettingPage) /\ Len(resets') <= MaxResets
         /\ guidedTarget' = guidedTarget \/ guidedTarget' = None
<1>1. CASE p \in ResettingPage
  <2>1. Len(resets) < MaxResets /\ resets' = Append(resets, p) /\ guidedTarget' = None
    BY <1>1 DEF OnReturn
  <2>2. resets \in Seq(ResettingPage) /\ Len(resets) \in Nat
    BY DEF TypeOK
  <2>3. resets' \in Seq(ResettingPage) /\ Len(resets') = Len(resets) + 1
    BY <1>1, <2>1, <2>2, AppendProperties
  <2> QED
    BY <2>1, <2>2, <2>3, ConstantsAssumption
<1>2. CASE p \notin ResettingPage
  BY <1>2 DEF OnReturn, TypeOK
<1> QED
  BY <1>1, <1>2

LEMMA BackStep ==
  ASSUME IInv, BackNested \/ BackFromConfirm
  PROVE  IInv'
<1> USE DEF IInv
<1>1. /\ UNCHANGED <<guidedCapability, passphrase, incomplete, type, targets, listed,
                     reformatIndex, confirmed, reviewed, choice>>
      /\ UNCHANGED <<origin, load, present, plan, installed>>
      /\ root' \in {"source", "storage", "confirm", "installing", "installed", "error"}
  BY DEF BackNested, BackFromConfirm, pageVars, TypeOK
<1>2. /\ trail' \in Seq(Page) /\ trail' # <<>> /\ TrailOK'
      /\ OnTrail("manual")' => OnTrail("manual")
      /\ \E p \in Page : OnReturn(p)
  <2>1. CASE BackNested
    <3>1. page # "storage" /\ trail' = Tail(trail) /\ OnReturn(Head(trail'))
      BY <2>1 DEF BackNested
    <3> QED
      BY <3>1, BackKeepsShape
  <2>2. CASE BackFromConfirm
    BY <2>2 DEF BackFromConfirm, TypeOK, TrailOK, OnTrail
  <2> QED
    BY <2>1, <2>2
<1>3. /\ resets' \in Seq(ResettingPage) /\ Len(resets') <= MaxResets
      /\ guidedTarget' = guidedTarget \/ guidedTarget' = None
  BY <1>2, OnReturnType
<1>4. TypeOK'
  BY <1>1, <1>2, <1>3 DEF TypeOK
<1>5. AllowedOK' /\ ManualOK' /\ LoadOK'
  BY <1>1, <1>2, <1>3 DEF AllowedOK, ManualOK, LoadOK
<1> QED
  BY <1>2, <1>4, <1>5

LEMMA ServeResetStep ==
  ASSUME IInv, ServeReset
  PROVE  IInv'
<1> USE DEF IInv, ServeReset, serviceVars, navVars
<1>1. resets' \in Seq(ResettingPage) /\ Len(resets') <= MaxResets
  <2>1. resets \in Seq(ResettingPage) /\ resets # <<>> /\ Len(resets) <= MaxResets
    BY DEF TypeOK
  <2>2. resets' \in Seq(ResettingPage) /\ Len(resets') = Len(resets) - 1
    BY <2>1, HeadTailProperties
  <2> QED
    BY <2>1, <2>2, ConstantsAssumption
<1>2. listed' \in SUBSET Target /\ \A t \in listed' : Caps(t) # {}
  BY UsableTargets DEF TypeOK, AllowedOK
<1>3. TypeOK'
  BY <1>1, <1>2, EmptyPlan DEF TypeOK
<1>4. TrailOK' /\ AllowedOK' /\ ManualOK' /\ LoadOK'
  BY <1>2 DEF TrailOK, AllowedOK, ManualOK, LoadOK, OnTrail
<1> QED
  BY <1>3, <1>4

\* Loading the confirm page.
LEMMA GuidedChoice ==
  ASSUME IInv, BuildChoice, guidedTarget # None
  PROVE  choice' \in Plan
<1> DEFINE cap == IF guidedCapability = None THEN Head(Allowed[guidedTarget])
                  ELSE guidedCapability
<1>1. guidedTarget \in Target /\ passphrase \in Passphrase \cup {Empty, None}
  BY DEF IInv, TypeOK
<1>2. cap \in Capability
  BY <1>1, FirstAllowed DEF IInv, TypeOK, AllowedOK
<1>3. choice' = [how |-> "guided", target |-> guidedTarget, cap |-> cap, pass |-> passphrase]
  BY DEF BuildChoice
<1> HIDE DEF cap
<1> QED
  BY <1>1, <1>2, <1>3 DEF Plan

LEMMA LoadStep ==
  ASSUME IInv, Load
  PROVE  IInv'
<1> USE DEF IInv, serviceVars, pageVars, navVars, serverVars, LoadFails
<1>1. CASE CheckTarget
  <2> USE <1>1 DEF CheckTarget
  <2>1. TypeOK'
    BY DEF TypeOK
  <2>2. TrailOK' /\ AllowedOK' /\ ManualOK' /\ LoadOK'
    BY DEF TrailOK, AllowedOK, ManualOK, LoadOK, OnTrail
  <2> QED
    BY <2>1, <2>2
<1>2. CASE ResetPlan
  <2> USE <1>2 DEF ResetPlan
  <2>1. TypeOK'
    BY EmptyPlan DEF TypeOK
  <2>2. TrailOK' /\ AllowedOK' /\ ManualOK' /\ LoadOK'
    BY DEF TrailOK, AllowedOK, ManualOK, LoadOK, OnTrail
  <2> QED
    BY <2>1, <2>2
<1>3. CASE BuildChoice
  <2> USE <1>3
  <2>1. choice' \in Plan
    BY GuidedChoice DEF BuildChoice, TypeOK
  <2>2. /\ root' \in {root, "error"} /\ load' \in {"idle", "guided"} /\ load = "choose"
        /\ UNCHANGED <<guidedTarget, guidedCapability, passphrase, incomplete, type, targets,
                       listed, reformatIndex, confirmed, reviewed, trail, origin>>
        /\ UNCHANGED <<present, plan, resets, installed>>
    BY DEF BuildChoice
  <2>3. TypeOK'
    BY <2>1, <2>2 DEF TypeOK
  <2>4. TrailOK' /\ AllowedOK' /\ ManualOK' /\ LoadOK'
    BY <2>2 DEF TrailOK, AllowedOK, ManualOK, LoadOK, OnTrail
  <2> QED
    BY <2>3, <2>4
<1>4. CASE PostGuided
  <2> USE <1>4 DEF PostGuided
  <2>1. TypeOK'
    BY DEF TypeOK
  <2>2. TrailOK' /\ AllowedOK' /\ ManualOK' /\ LoadOK'
    BY DEF TrailOK, AllowedOK, ManualOK, LoadOK, OnTrail
  <2> QED
    BY <2>1, <2>2
<1>5. CASE PostStorage
  <2> USE <1>5 DEF PostStorage
  <2>1. TypeOK'
    BY DEF TypeOK
  <2>2. TrailOK' /\ AllowedOK' /\ ManualOK' /\ LoadOK'
    BY DEF TrailOK, AllowedOK, ManualOK, LoadOK, OnTrail
  <2> QED
    BY <2>1, <2>2
<1>6. CASE FetchStorage \/ ShowConfirm
  <2> USE <1>6 DEF FetchStorage, ShowConfirm
  <2>1. TypeOK'
    <3>1. Incomplete(plan) \in BOOLEAN
      BY DEF Incomplete
    <3> QED
      BY <3>1 DEF TypeOK
  <2>2. TrailOK' /\ AllowedOK' /\ ManualOK' /\ LoadOK'
    BY DEF TrailOK, AllowedOK, ManualOK, LoadOK, OnTrail
  <2> QED
    BY <2>1, <2>2
<1> QED
  BY <1>1, <1>2, <1>3, <1>4, <1>5, <1>6 DEF Load

LEMMA InstallStep ==
  ASSUME IInv, ClickInstall \/ StartInstallation \/ UNCHANGED vars
  PROVE  IInv'
<1> USE DEF IInv, ClickInstall, StartInstallation, vars, serviceVars, pageVars, navVars, serverVars
<1>1. TypeOK'
  BY DEF TypeOK
<1>2. TrailOK' /\ AllowedOK' /\ ManualOK' /\ LoadOK'
  BY DEF TrailOK, AllowedOK, ManualOK, LoadOK, OnTrail
<1> QED
  BY <1>1, <1>2

LEMMA NextIInv == IInv /\ [Next]_vars => IInv'
<1> SUFFICES ASSUME IInv, [Next]_vars PROVE IInv'
  OBVIOUS
<1>1. ASSUME NEW i \in 0 .. Cardinality(Target), SelectDisk(i) PROVE IInv'
  <2>1. i \in Nat
    OBVIOUS
  <2> QED
    BY <1>1, <2>1, WidgetStep
<1>2. CASE Forward
  <2>1. CASE ChangeSource \/ EnterStorage
    BY <2>1, SourceStep
  <2>2. CASE \E t \in StorageType : SelectType(t)
    BY <2>2, SelectTypeStep
  <2>3. CASE NextStorage
    BY <2>3, NextStorageStep
  <2>4. CASE NextReformat \/ \E t \in Target \cup {None} : NextResize(t)
    BY <2>4, NextDiskStep
  <2>5. CASE \/ \E h \in {"partial", "manual"} : EditPartitions(h)
             \/ \E c \in Capability : SelectCapability(c)
             \/ \E b \in BOOLEAN : ConfirmRecoveryKey(b)
    BY <2>5, WidgetStep
  <2>6. CASE NextManual \/ NextCapabilities \/ NextRecoveryKey
             \/ \E p \in Passphrase \cup {Empty} : NextPassphrase(p)
    BY <2>6, NextPageStep
  <2>7. CASE ClickInstall
    BY <2>7, InstallStep
  <2> QED
    BY <1>1, <1>2, <2>1, <2>2, <2>3, <2>4, <2>5, <2>6, <2>7 DEF Forward
<1>3. CASE Backward
  BY <1>3, BackStep, SourceStep DEF Backward
<1>4. CASE Load \/ ServeReset \/ StartInstallation \/ UNCHANGED vars
  BY <1>4, LoadStep, ServeResetStep, InstallStep
<1> QED
  BY <1>2, <1>3, <1>4 DEF Next

THEOREM Invariance == Spec => []IInv
BY InitIInv, NextIInv, PTL DEF Spec

\* Every behavior of the wizard keeps its state well typed.
THEOREM TypeCorrect == Spec => []TypeOK
<1>1. IInv => TypeOK
  BY DEF IInv
<1> QED
  BY <1>1, Invariance, PTL

-----------------------------------------------------------------------------
(* A guided configuration is only ever made of an empty one *)

LEMMA PlanSteps ==
  ASSUME IInv, [Next]_vars, plan' # plan, plan'.how = "guided"
  PROVE  plan = NoPlan
<1>1. CASE Forward
  <2>1. PICK h \in {"partial", "manual"} : EditPartitions(h)
    BY <1>1 DEF Forward, ChangeSource, EnterStorage, SelectType, NextStorage, SelectDisk,
                NextReformat, NextResize, NextManual, SelectCapability, NextCapabilities,
                ConfirmRecoveryKey, NextRecoveryKey, NextPassphrase, ClickInstall, serverVars
  <2>2. plan'.how = h
    BY <2>1 DEF EditPartitions, Unguided
  <2> QED
    BY <2>2
<1>2. CASE Backward
  BY <1>2 DEF Backward, BackNested, BackToSource, BackFromConfirm, serverVars
<1>3. CASE Load
  <2>1. CASE ResetPlan
    BY <2>1 DEF ResetPlan, NoPlan, Unguided
  <2>2. CASE PostGuided
    BY <2>2 DEF PostGuided, IInv, LoadOK
  <2>3. CASE CheckTarget \/ BuildChoice \/ PostStorage \/ FetchStorage \/ ShowConfirm
    BY <2>3 DEF CheckTarget, BuildChoice, PostStorage, FetchStorage, ShowConfirm, serverVars
  <2> QED
    BY <1>3, <2>1, <2>2, <2>3 DEF Load
<1>4. CASE ServeReset
  BY <1>4 DEF ServeReset, NoPlan, Unguided
<1>5. CASE StartInstallation \/ UNCHANGED vars
  BY <1>5 DEF StartInstallation, vars, serverVars
<1> QED
  BY <1>1, <1>2, <1>3, <1>4, <1>5 DEF Next

\* However the user hurries and whenever the server serves the resets that the
\* pages do not await, a guided configuration is never added to another one.
THEOREM GuidedAfterReset == Spec => GuidedOnlyAfterReset
<1>1. IInv /\ [Next]_vars => [plan'.how = "guided" /\ plan' # plan => plan = NoPlan]_vars
  BY PlanSteps
<1> QED
  BY <1>1, Invariance, PTL DEF Spec, GuidedOnlyAfterReset

-----------------------------------------------------------------------------
(* A user who waits installs what was reviewed *)

\* What the confirm page shows stays the server's configuration because no
\* reset is in flight from the moment the page starts to load.
ReviewOK ==
  /\ root \in {"confirm", "installing"} => load = "idle" /\ resets = <<>>
  /\ load # "idle" => root = "storage" /\ resets = <<>>
  /\ load = "originals" \/ root \in {"confirm", "installing"} => reviewed = plan
  /\ root = "installed" => installed = reviewed

\* The chain of pages starts loading the confirm page, or does not.
LEMMA ChainLoads ==
  ASSUME NEW t,
         \/ LoadCapabilities(t) \/ LoadRecoveryKey \/ LoadPassphrase
         \/ LoadConfirm \/ \E p \in Page : Show(p)
  PROVE  root' = root /\ load' \in {load, "check"}
BY ChainEnds DEF LoadConfirm, Show

LEMMA NextButtons ==
  ASSUME UserWaits, ReviewOK,
         \/ NextStorage \/ NextReformat \/ \E t \in Target \cup {None} : NextResize(t)
         \/ NextManual \/ NextCapabilities \/ NextRecoveryKey
         \/ \E p \in Passphrase \cup {Empty} : NextPassphrase(p)
  PROVE  ReviewOK'
<1> USE DEF CanGoOn, OnPage, serverVars
<1>1. /\ root = "storage" /\ load = "idle" /\ resets = <<>>
      /\ UNCHANGED <<reviewed, plan, resets, installed>>
      /\ root' = root /\ load' \in {load, "check"}
  <2>1. CASE NextStorage
    <3>1. ASSUME LoadReformat PROVE root' = root /\ load' \in {load, "check"}
      BY <3>1, ChainLoads DEF LoadReformat, Page
    <3>2. ASSUME LoadResize PROVE root' = root /\ load' \in {load, "check"}
      BY <3>2, ChainLoads DEF LoadResize, Page
    <3>3. ASSUME LoadManual PROVE root' = root /\ load' \in {load, "check"}
      BY <3>3, ChainLoads DEF LoadManual, Page
    <3>4. ASSUME LoadEraseInstall PROVE root' = root /\ load' \in {load, "check"}
      BY <3>4, ChainLoads DEF LoadEraseInstall
    <3> QED
      BY <2>1, <3>1, <3>2, <3>3, <3>4 DEF NextStorage
  <2>2. CASE NextReformat
    BY <2>2, ChainLoads DEF NextReformat
  <2>3. CASE \E t \in Target \cup {None} : NextResize(t)
    BY <2>3, ChainLoads DEF NextResize
  <2>4. CASE NextManual
    BY <2>4, ChainLoads DEF NextManual
  <2>5. CASE NextCapabilities
    BY <2>5, ChainLoads DEF NextCapabilities
  <2>6. CASE NextRecoveryKey
    BY <2>6, ChainLoads DEF NextRecoveryKey
  <2>7. CASE \E p \in Passphrase \cup {Empty} : NextPassphrase(p)
    BY <2>7, ChainLoads DEF NextPassphrase
  <2> QED
    BY <2>1, <2>2, <2>3, <2>4, <2>5, <2>6, <2>7
<1> QED
  BY <1>1 DEF ReviewOK

LEMMA ReviewStep ==
  ASSUME UserWaits, IInv, ReviewOK, [Next]_vars
  PROVE  ReviewOK'
<1> USE DEF serviceVars, pageVars, navVars, serverVars
<1>1. CASE Forward
  <2>1. CASE ChangeSource \/ EnterStorage
    BY <2>1 DEF ReviewOK, ChangeSource, EnterStorage, CanTouch, CanGoOn
  <2>2. CASE \/ NextStorage \/ NextReformat \/ \E t \in Target \cup {None} : NextResize(t)
             \/ NextManual \/ NextCapabilities \/ NextRecoveryKey
             \/ \E p \in Passphrase \cup {Empty} : NextPassphrase(p)
    BY <2>2, NextButtons
  <2>3. CASE \/ \E t \in StorageType : SelectType(t)
             \/ \E i \in 0 .. Cardinality(Target) : SelectDisk(i)
             \/ \E c \in Capability : SelectCapability(c)
             \/ \E b \in BOOLEAN : ConfirmRecoveryKey(b)
    BY <2>3 DEF ReviewOK, SelectType, SelectDisk, SelectCapability, ConfirmRecoveryKey
  <2>4. CASE \E h \in {"partial", "manual"} : EditPartitions(h)
    BY <2>4 DEF ReviewOK, EditPartitions, OnPage, CanTouch
  <2>5. CASE ClickInstall
    BY <2>5 DEF ReviewOK, ClickInstall, CanGoOn
  <2> QED
    BY <1>1, <2>1, <2>2, <2>3, <2>4, <2>5 DEF Forward
<1>2. CASE Backward
  <2>1. CASE BackNested
    BY <2>1 DEF ReviewOK, BackNested, CanTouch
  <2>2. CASE BackToSource
    BY <2>2 DEF ReviewOK, BackToSource, OnPage
  <2>3. CASE BackFromConfirm
    BY <2>3 DEF ReviewOK, BackFromConfirm
  <2> QED
    BY <1>2, <2>1, <2>2, <2>3 DEF Backward
<1>3. CASE Load
  BY <1>3 DEF ReviewOK, Load, CheckTarget, ResetPlan, BuildChoice, PostGuided, PostStorage,
              FetchStorage, ShowConfirm, LoadFails
<1>4. CASE ServeReset
  BY <1>4 DEF ReviewOK, ServeReset
<1>5. CASE StartInstallation \/ UNCHANGED vars
  BY <1>5 DEF ReviewOK, StartInstallation, vars
<1> QED
  BY <1>1, <1>2, <1>3, <1>4, <1>5 DEF Next

\* A user who lets the pages settle before the next click installs exactly the
\* configuration that the confirm page displayed.
THEOREM ReviewInstalled ==
  ASSUME UserWaits
  PROVE  Spec => []ReviewedIsInstalled
<1>1. Init => ReviewOK
  BY DEF Init, ReviewOK
<1>2. IInv /\ ReviewOK /\ [Next]_vars => ReviewOK'
  BY ReviewStep
<1>3. ReviewOK => ReviewedIsInstalled
  BY DEF ReviewOK, ReviewedIsInstalled
<1> QED
  BY <1>1, <1>2, <1>3, Invariance, PTL DEF Spec

-----------------------------------------------------------------------------
(* The passphrase of a choice fits its capability *)

Fits(cap, pass) == /\ cap \in Luks => pass \in Passphrase
                   /\ cap \notin Luks \cup Tpm => pass = None

\* A page that is left towards the confirm page leaves a passphrase that fits;
\* a user who waits changes neither until the choice is built.
PassOK ==
  /\ load \in {"check", "reset", "choose"} => Fits(guidedCapability, passphrase)
  /\ load = "guided" => Fits(choice.cap, choice.pass)

\* What is sent without a selected capability encrypts nothing by itself.
HeadUnencrypted == \A t \in Target : Caps(t) # {} => Head(Allowed[t]) \notin Luks

\* What a Next button of the nested wizard does to the navigation.
NextButton ==
  \/ NextStorage \/ NextReformat \/ \E t \in Target \cup {None} : NextResize(t)
  \/ NextManual \/ NextCapabilities \/ NextRecoveryKey
  \/ \E p \in Passphrase \cup {Empty} : NextPassphrase(p)

Shows(p) ==
  /\ p \in Page \ {"storage"} /\ Show(p)
  /\ p = "passphrase" => guidedCapability \in Luks \cup Tpm
  /\ p \in Typed => NextStorage
  /\ p = "resize" => listed' = Usable(Offered(plan), "resize")
  /\ page # "passphrase"

Leaves == LoadConfirm /\ Fits(guidedCapability, passphrase')

LEMMA ChainMoves ==
  ASSUME NEW t, LoadCapabilities(t) \/ LoadRecoveryKey \/ LoadPassphrase, page # "passphrase"
  PROVE  Leaves \/ \E p \in Page : Shows(p)
<1>1. ASSUME LoadPassphrase PROVE Leaves \/ \E p \in Page : Shows(p)
  BY <1>1 DEF LoadPassphrase, Leaves, Fits, Shows, Page, Typed
<1>2. ASSUME LoadRecoveryKey PROVE Leaves \/ \E p \in Page : Shows(p)
  BY <1>1, <1>2 DEF LoadRecoveryKey, Shows, Page, Typed
<1>3. ASSUME LoadCapabilities(t) PROVE Leaves \/ \E p \in Page : Shows(p)
  BY <1>2, <1>3 DEF LoadCapabilities, Shows, Page, Typed
<1> QED
  BY <1>1, <1>2, <1>3

LEMMA NextMoves ==
  ASSUME NextButton, page = "passphrase" => guidedCapability \in Luks \cup Tpm
  PROVE  /\ root = "storage" /\ CanGoOn
         /\ UNCHANGED <<guidedCapability, targets, choice, present, plan, resets, installed>>
         /\ Leaves \/ \E p \in Page : Shows(p)
         /\ ~NextStorage => UNCHANGED listed
<1> USE DEF OnPage, serverVars, pageVars
<1>1. CASE NextStorage
  <2>1. page # "passphrase"
    BY <1>1 DEF NextStorage
  <2>2. ASSUME LoadReformat PROVE Leaves \/ \E p \in Page : Shows(p)
    BY <1>1, <2>1, <2>2, ChainMoves DEF LoadReformat, Shows, Page
  <2>3. ASSUME LoadResize PROVE Leaves \/ \E p \in Page : Shows(p)
    BY <1>1, <2>1, <2>3, ChainMoves DEF LoadResize, Shows, Page
  <2>4. ASSUME LoadManual PROVE Leaves \/ \E p \in Page : Shows(p)
    BY <1>1, <2>1, <2>4 DEF LoadManual, Shows, Page
  <2>5. ASSUME LoadEraseInstall PROVE Leaves \/ \E p \in Page : Shows(p)
    BY <2>1, <2>5, ChainMoves DEF LoadEraseInstall
  <2> QED
    BY <1>1, <2>2, <2>3, <2>4, <2>5 DEF NextStorage
<1>2. CASE NextReformat
  BY <1>2, ChainMoves DEF NextReformat
<1>3. CASE \E t \in Target \cup {None} : NextResize(t)
  BY <1>3, ChainMoves DEF NextResize
<1>4. CASE NextManual
  BY <1>4, ChainMoves DEF NextManual
<1>5. CASE NextCapabilities
  BY <1>5, ChainMoves DEF NextCapabilities
<1>6. CASE NextRecoveryKey
  BY <1>6, ChainMoves DEF NextRecoveryKey
<1>7. CASE \E p \in Passphrase \cup {Empty} : NextPassphrase(p)
  <2>1. PICK p \in Passphrase \cup {Empty} : NextPassphrase(p)
    BY <1>7
  <2>2. Leaves
    <3>1. Luks \cap Tpm = {}
      BY DEF Luks, Tpm
    <3>2. page = "passphrase" /\ LoadConfirm /\ passphrase' = p /\ (p \in Passphrase \/ guidedCapability \in Tpm)
      BY <2>1 DEF NextPassphrase
    <3> QED
      BY <3>1, <3>2 DEF Leaves, Fits
  <2> QED
    BY <2>1, <2>2 DEF NextPassphrase
<1> QED
  BY <1>1, <1>2, <1>3, <1>4, <1>5, <1>6, <1>7 DEF NextButton

\* A page that is shown is in front of those that were.
LEMMA ShownTrail ==
  ASSUME TypeOK, NEW p \in Page, Show(p)
  PROVE  /\ page' = p
         /\ \A q : OnTrail(q)' <=> q = p \/ OnTrail(q)
         /\ \A q : (\A i \in 2 .. Len(trail') : trail'[i] # q) <=> ~OnTrail(q)
<1>1. trail \in Seq(Page) /\ trail # <<>> /\ Len(trail) \in Nat \ {0}
  BY DEF TypeOK
<1>2. /\ trail' \in Seq(Page) /\ trail' # <<>>
      /\ Len(trail') = Len(trail) + 1
      /\ trail'[1] = p
      /\ \A i \in 2 .. Len(trail) + 1 : trail'[i] = trail[i - 1]
  BY ShowTrail
<1>3. page' = p
  BY <1>2 DEF page
<1>4. ASSUME NEW q PROVE (\A i \in 2 .. Len(trail') : trail'[i] # q) <=> ~OnTrail(q)
  <2>1. ASSUME NEW i \in 1 .. Len(trail) PROVE i + 1 \in 2 .. Len(trail') /\ trail'[i + 1] = trail[i]
    BY <1>1, <1>2
  <2>2. ASSUME NEW i \in 2 .. Len(trail') PROVE i - 1 \in 1 .. Len(trail) /\ trail'[i] = trail[i - 1]
    BY <1>1, <1>2
  <2> QED
    BY <2>1, <2>2 DEF OnTrail
<1>5. ASSUME NEW q PROVE OnTrail(q)' <=> q = p \/ OnTrail(q)
  <2>1. \A i \in 1 .. Len(trail') : i = 1 \/ i \in 2 .. Len(trail')
    BY <1>1, <1>2
  <2>2. 1 \in 1 .. Len(trail') /\ 2 .. Len(trail') \subseteq 1 .. Len(trail')
    BY <1>1, <1>2
  <2>3. OnTrail(q)' <=> \E i \in 1 .. Len(trail') : trail'[i] = q
    BY DEF OnTrail
  <2> QED
    BY <1>2, <1>4, <2>1, <2>2, <2>3
<1> QED
  BY <1>3, <1>4, <1>5

\* The passphrase page is never behind another one, and is shown for a
\* capability that may need a passphrase; the source page follows the storage
\* page only.
TopOK ==
  /\ \A i \in 2 .. Len(trail) : trail[i] # "passphrase"
  /\ page = "passphrase" => guidedCapability \in Luks \cup Tpm
  /\ root = "source" => page = "storage"

LEMMA TopStep ==
  ASSUME IInv, TopOK, [Next]_vars
  PROVE  TopOK'
<1> USE DEF IInv, serviceVars, pageVars, navVars, serverVars
<1>1. ASSUME UNCHANGED <<trail, guidedCapability>>, root' \in {root, "storage", "confirm", "installing", "installed", "error"}
      PROVE  TopOK'
  BY <1>1 DEF TopOK, page
<1>2. CASE NextButton
  <2>1. root = "storage" /\ UNCHANGED guidedCapability /\ (Leaves \/ \E p \in Page : Shows(p))
    BY <1>2, NextMoves DEF TopOK
  <2>2. CASE Leaves
    BY <1>1, <2>1, <2>2 DEF Leaves, LoadConfirm
  <2>3. CASE \E p \in Page : Shows(p)
    <3>1. PICK p \in Page : Shows(p)
      BY <2>3
    <3>2. ~OnTrail("passphrase")
      <4>1. trail \in Seq(Page) /\ trail # <<>> /\ Len(trail) \in Nat \ {0} /\ trail[1] # "passphrase"
        BY <3>1 DEF TypeOK, Shows, page
      <4> QED
        BY <4>1 DEF OnTrail, TopOK
    <3>3. page' = p /\ \A i \in 2 .. Len(trail') : trail'[i] # "passphrase"
      BY <3>1, <3>2, ShownTrail DEF Shows
    <3> QED
      BY <2>1, <3>1, <3>3 DEF TopOK, Shows, Show
  <2> QED
    BY <2>1, <2>2, <2>3
<1>3. CASE BackNested
  <2>1. trail \in Seq(Page) /\ trail # <<>> /\ trail' = Tail(trail) /\ Len(trail) \in Nat /\ page # "storage"
    BY <1>3 DEF BackNested, TypeOK
  <2>2. Len(trail) > 1
    BY <2>1 DEF TrailOK, page
  <2>3. /\ trail' \in Seq(Page) /\ trail' # <<>> /\ Len(trail') = Len(trail) - 1
        /\ \A i \in 1 .. Len(trail) - 1 : trail'[i] = trail[i + 1]
    BY <2>1, <2>2, TailTrail
  <2>4. \A i \in 1 .. Len(trail') : trail'[i] # "passphrase"
    BY <2>1, <2>3 DEF TopOK
  <2>5. page' # "passphrase"
    <3>1. page' = trail'[1] /\ 1 \in 1 .. Len(trail')
      BY <2>1, <2>2, <2>3 DEF page
    <3> QED
      BY <2>4, <3>1
  <2> QED
    BY <1>3, <2>1, <2>3, <2>4, <2>5 DEF TopOK, BackNested
<1>4. CASE EnterStorage
  <2>1. trail' = <<"storage">>
    BY <1>4 DEF EnterStorage
  <2> QED
    BY <2>1 DEF TopOK, page
<1>5. CASE ChangeSource
  BY <1>5 DEF ChangeSource, TopOK, page
<1>6. CASE \E c \in Capability : SelectCapability(c)
  BY <1>6 DEF SelectCapability, OnPage, TopOK, page
<1>7. CASE \/ \E t \in StorageType : SelectType(t)
           \/ \E i \in 0 .. Cardinality(Target) : SelectDisk(i)
           \/ \E h \in {"partial", "manual"} : EditPartitions(h)
           \/ \E b \in BOOLEAN : ConfirmRecoveryKey(b)
           \/ ClickInstall
  BY <1>1, <1>7 DEF SelectType, SelectDisk, EditPartitions, ConfirmRecoveryKey, ClickInstall
<1>8. CASE BackToSource
  BY <1>8 DEF BackToSource, OnPage, TopOK, page
<1>9. CASE BackFromConfirm \/ ServeReset \/ StartInstallation \/ UNCHANGED vars
  BY <1>1, <1>9 DEF BackFromConfirm, ServeReset, StartInstallation, vars
<1>10. CASE Load
  BY <1>1, <1>10 DEF Load, CheckTarget, ResetPlan, BuildChoice, PostGuided, PostStorage, FetchStorage, ShowConfirm, LoadFails
<1> QED
  BY <1>2, <1>3, <1>4, <1>5, <1>6, <1>7, <1>8, <1>9, <1>10 DEF Next, Forward, Backward, NextButton

LEMMA PassStep ==
  ASSUME UserWaits, HeadUnencrypted, IInv, ReviewOK, TopOK, PassOK, [Next]_vars
  PROVE  PassOK'
<1> USE DEF serviceVars, pageVars, navVars, serverVars
<1>1. CASE Forward
  <2>1. CASE NextButton
    BY <2>1, NextMoves DEF TopOK, CanGoOn, Leaves, LoadConfirm, Shows, Show, PassOK, Fits
  <2>2. CASE ChangeSource \/ EnterStorage \/ ClickInstall
    BY <2>2 DEF PassOK, ChangeSource, EnterStorage, ClickInstall, CanTouch, CanGoOn
  <2>3. CASE \/ \E t \in StorageType : SelectType(t)
             \/ \E i \in 0 .. Cardinality(Target) : SelectDisk(i)
             \/ \E h \in {"partial", "manual"} : EditPartitions(h)
             \/ \E c \in Capability : SelectCapability(c)
             \/ \E b \in BOOLEAN : ConfirmRecoveryKey(b)
    BY <2>3 DEF PassOK, SelectType, SelectDisk, EditPartitions, SelectCapability, ConfirmRecoveryKey, CanTouch
  <2> QED
    BY <1>1, <2>1, <2>2, <2>3 DEF Forward, NextButton
<1>2. CASE Backward
  BY <1>2 DEF PassOK, Backward, BackNested, BackToSource, BackFromConfirm
<1>3. CASE Load
  <2>1. CASE BuildChoice
    <3>1. CASE guidedTarget = None
      BY <2>1, <3>1 DEF BuildChoice, LoadFails, PassOK
    <3>2. CASE guidedTarget # None
      <4>1. Head(Allowed[guidedTarget]) \notin Luks
        BY <3>2 DEF HeadUnencrypted, IInv, TypeOK, AllowedOK
      <4>2. load' = "guided" /\ choice'.pass = passphrase
            /\ choice'.cap = IF guidedCapability = None THEN Head(Allowed[guidedTarget]) ELSE guidedCapability
        BY <2>1, <3>2 DEF BuildChoice
      <4>3. Fits(guidedCapability, passphrase)
        BY <2>1 DEF BuildChoice, PassOK
      <4>4. None \notin Capability /\ Luks \cup Tpm \subseteq Capability
        BY ConstantsAssumption DEF Luks, Tpm, Capability
      <4> QED
        BY <4>1, <4>2, <4>3, <4>4 DEF PassOK, Fits
    <3> QED
      BY <3>1, <3>2
  <2>2. CASE CheckTarget \/ ResetPlan \/ PostGuided \/ PostStorage \/ FetchStorage \/ ShowConfirm
    BY <2>2 DEF PassOK, CheckTarget, ResetPlan, PostGuided, PostStorage, FetchStorage, ShowConfirm, LoadFails
  <2> QED
    BY <1>3, <2>1, <2>2 DEF Load
<1>4. CASE ServeReset
  BY <1>4 DEF PassOK, ServeReset
<1>5. CASE StartInstallation
  BY <1>5 DEF PassOK, ReviewOK, StartInstallation
<1>6. CASE UNCHANGED vars
  BY <1>6 DEF PassOK, vars
<1> QED
  BY <1>1, <1>2, <1>3, <1>4, <1>5, <1>6 DEF Next

\* A user who waits never has an encrypted installation requested without a
\* passphrase, nor a passphrase sent along with one that is not encrypted:
\* whatever he went back over, the page that asks for it is on the way.
THEOREM PassphraseFits ==
  ASSUME UserWaits, HeadUnencrypted
  PROVE  Spec => []PassphraseFitsCapability
<1>1. Init => ReviewOK /\ TopOK /\ PassOK
  BY DEF Init, ReviewOK, TopOK, PassOK, page
<1>2. IInv /\ ReviewOK /\ TopOK /\ PassOK /\ [Next]_vars => (ReviewOK /\ TopOK /\ PassOK)'
  BY ReviewStep, TopStep, PassStep
<1>3. PassOK => PassphraseFitsCapability
  BY DEF PassOK, Fits, PassphraseFitsCapability
<1> QED
  BY <1>1, <1>2, <1>3, Invariance, PTL DEF Spec

-----------------------------------------------------------------------------
(* The resize page lists all that can be resized *)

\* Where the pages that offer targets are on screen and nothing is under way,
\* the server is not configured, so that it offers all it has: the page that
\* the confirm page was opened from is the one that Back resets.
OfferOK ==
  /\ load # "idle" \/ root = "confirm" => origin = page
  /\ /\ root \in {"source", "storage"} /\ load = "idle" /\ resets = <<>>
     /\ page \in {"storage", "reformat", "resize"}
     => plan = NoPlan
  /\ OnTrail("resize") => listed = Usable(present, "resize")

\* The storage page is on screen only at the bottom of its wizard.
LEMMA StorageTop ==
  ASSUME TypeOK, TrailOK, page = "storage"
  PROVE  ~OnTrail("resize")
<1>1. Len(trail) \in Nat \ {0} /\ page = trail[1] /\ trail \in Seq(Page)
  BY DEF TypeOK, page
<1>2. 1 \in 1 .. Len(trail) /\ trail[1] = "storage"
  BY <1>1
<1>3. Len(trail) = 1
  BY <1>2 DEF TrailOK
<1>4. \A i \in 1 .. Len(trail) : trail[i] = "storage"
  BY <1>2, <1>3
<1> QED
  BY <1>4 DEF OnTrail

LEMMA OfferNext ==
  ASSUME UserWaits, IInv, TopOK, OfferOK, NextButton
  PROVE  OfferOK'
<1> USE DEF IInv
<1>1. /\ root = "storage" /\ load = "idle" /\ resets = <<>>
      /\ UNCHANGED <<present, plan, resets>>
      /\ ~NextStorage => UNCHANGED listed
      /\ Leaves \/ \E p \in Page : Shows(p)
  BY NextMoves DEF TopOK, CanGoOn
<1>2. NextStorage => page = "storage" /\ plan = NoPlan
  BY <1>1 DEF NextStorage, OnPage, OfferOK
<1>3. page = "storage" => ~OnTrail("resize")
  BY StorageTop
<1>4. CASE Leaves
  BY <1>1, <1>2, <1>3, <1>4 DEF Leaves, LoadConfirm, OfferOK, OnTrail, page
<1>5. CASE \E p \in Page : Shows(p)
  <2>1. PICK p \in Page : Shows(p)
    BY <1>5
  <2>2. page' = p /\ (OnTrail("resize")' <=> p = "resize" \/ OnTrail("resize"))
    BY <2>1, ShownTrail DEF Shows
  <2>3. load' = "idle" /\ root' = "storage"
    BY <1>1, <2>1 DEF Shows, Show
  <2>4. p \in {"reformat", "resize"} => plan = NoPlan
    BY <1>2, <2>1 DEF Shows, Typed
  <2>5. p = "resize" => listed' = Usable(present, "resize")
    BY <2>1, <2>4 DEF Shows, Offered, NoPlan, Unguided
  <2>6. OnTrail("resize") => UNCHANGED listed
    BY <1>1, <1>2, <1>3
  <2> QED
    BY <1>1, <2>1, <2>2, <2>3, <2>4, <2>5, <2>6 DEF OfferOK, Shows
<1> QED
  BY <1>1, <1>4, <1>5

LEMMA OfferBack ==
  ASSUME UserWaits, IInv, ReviewOK, OfferOK, BackNested \/ BackFromConfirm
  PROVE  OfferOK'
<1> USE DEF IInv, pageVars, navVars, serverVars
<1>1. ASSUME NEW p, OnReturn(p), p \in ResettingPage PROVE resets' # <<>>
  <2>1. resets \in Seq(ResettingPage) /\ resets' = Append(resets, p)
    BY <1>1 DEF OnReturn, TypeOK
  <2> QED
    BY <1>1, <2>1
<1>2. {"storage", "reformat", "resize"} \subseteq ResettingPage
  BY DEF ResettingPage
<1>3. CASE BackNested
  <2>1. /\ trail \in Seq(Page) /\ trail # <<>> /\ Len(trail) \in Nat /\ page = trail[1]
    BY DEF TypeOK, page
  <2>2. /\ page # "storage" /\ root = "storage" /\ load = "idle"
        /\ trail' = Tail(trail)
        /\ UNCHANGED <<root, load, listed, present, plan>>
    BY <1>3 DEF BackNested, CanTouch
  <2>3. OnReturn(page')
    BY <1>3 DEF BackNested, page
  <2>4. Len(trail) > 1
    BY <2>1, <2>2 DEF TrailOK
  <2>5. /\ trail' # <<>> /\ Len(trail') = Len(trail) - 1
        /\ \A i \in 1 .. Len(trail) - 1 : trail'[i] = trail[i + 1]
    BY <2>1, <2>2, <2>4, TailTrail
  <2>6. OnTrail("resize")' => OnTrail("resize")
    BY <2>1, <2>4, <2>5 DEF OnTrail
  <2>7. page' \in {"storage", "reformat", "resize"} => resets' # <<>>
    BY <1>1, <1>2, <2>3
  <2> QED
    BY <2>2, <2>6, <2>7 DEF OfferOK
<1>4. CASE BackFromConfirm
  <2>1. /\ load = "idle" /\ origin = page /\ page' = page /\ OnReturn(page)
        /\ load' = "idle" /\ root' = "storage"
        /\ UNCHANGED <<listed, present, plan, trail>>
    BY <1>4 DEF BackFromConfirm, ReviewOK, OfferOK, page
  <2>2. page' \in {"storage", "reformat", "resize"} => resets' # <<>>
    BY <1>1, <1>2, <2>1
  <2> QED
    BY <2>1, <2>2 DEF OfferOK, OnTrail
<1> QED
  BY <1>3, <1>4

LEMMA OfferStep ==
  ASSUME UserWaits, IInv, ReviewOK, TopOK, OfferOK, [Next]_vars
  PROVE  OfferOK'
<1> USE DEF IInv, serviceVars, pageVars, navVars, serverVars
<1>1. ASSUME UNCHANGED <<trail, root, load, origin, listed, present, plan, resets>>
      PROVE  OfferOK'
  BY <1>1 DEF OfferOK, OnTrail, page
<1>2. page = "storage" => ~OnTrail("resize")
  BY StorageTop
<1>3. CASE NextButton
  BY <1>3, OfferNext
<1>4. CASE BackNested \/ BackFromConfirm
  BY <1>4, OfferBack
<1>5. CASE \/ \E t \in StorageType : SelectType(t)
           \/ \E i \in 0 .. Cardinality(Target) : SelectDisk(i)
           \/ \E c \in Capability : SelectCapability(c)
           \/ \E b \in BOOLEAN : ConfirmRecoveryKey(b)
           \/ UNCHANGED vars
  BY <1>1, <1>5 DEF SelectType, SelectDisk, SelectCapability, ConfirmRecoveryKey, vars
<1>6. CASE \E h \in {"partial", "manual"} : EditPartitions(h)
  BY <1>6 DEF EditPartitions, OnPage, OfferOK, OnTrail, page
<1>7. CASE ChangeSource
  <2>1. ~OnTrail("resize") /\ ~OnTrail("resize")'
    BY <1>2, <1>7 DEF ChangeSource, TopOK, OnTrail
  <2> QED
    BY <1>7, <2>1 DEF ChangeSource, OfferOK, page
<1>8. CASE EnterStorage
  <2>1. page = "storage" /\ load = "idle" /\ resets = <<>> /\ root = "source"
    BY <1>8 DEF EnterStorage, TopOK, CanGoOn
  <2>2. plan = NoPlan
    BY <2>1 DEF OfferOK
  <2>3. page' = "storage" /\ ~OnTrail("resize")'
    BY <1>8 DEF EnterStorage, OnTrail, page
  <2> QED
    BY <1>8, <2>1, <2>2, <2>3 DEF EnterStorage, OfferOK
<1>9. CASE ClickInstall \/ StartInstallation
  BY <1>9 DEF ClickInstall, StartInstallation, CanGoOn, ReviewOK, OfferOK, OnTrail, page
<1>10. CASE BackToSource
  BY <1>10 DEF BackToSource, OnPage, OfferOK, OnTrail, page
<1>11. CASE ServeReset
  BY <1>11 DEF ServeReset, OfferOK, OnTrail, page
<1>12. CASE Load
  BY <1>12 DEF Load, CheckTarget, ResetPlan, BuildChoice, PostGuided, PostStorage, FetchStorage, ShowConfirm,
               LoadFails, OfferOK, OnTrail, page
<1> QED
  BY <1>3, <1>4, <1>5, <1>6, <1>7, <1>8, <1>9, <1>10, <1>11, <1>12 DEF Next, Forward, Backward, NextButton

\* "... to make all guided partitioning targets available": for a user who
\* waits the reset of the page he came back to has been served before the
\* resize page can be shown or left.
THEOREM AllOffered ==
  ASSUME UserWaits
  PROVE  Spec => []AllTargetsOffered
<1>1. Init => ReviewOK /\ TopOK /\ OfferOK
  <2> SUFFICES ASSUME Init PROVE ReviewOK /\ TopOK /\ OfferOK
    OBVIOUS
  <2>1. page = "storage" /\ ~OnTrail("resize")
    BY DEF Init, page, OnTrail
  <2> QED
    BY <2>1 DEF Init, ReviewOK, TopOK, OfferOK
<1>2. IInv /\ ReviewOK /\ TopOK /\ OfferOK /\ [Next]_vars => (ReviewOK /\ TopOK /\ OfferOK)'
  BY ReviewStep, TopStep, OfferStep
<1>3. IInv /\ OfferOK => AllTargetsOffered
  <2> SUFFICES ASSUME IInv, OfferOK, page = "resize" PROVE listed = Usable(present, "resize")
    BY DEF AllTargetsOffered, OnPage
  <2>1. trail \in Seq(Page) /\ trail # <<>> /\ Len(trail) \in Nat \ {0} /\ page = trail[1]
    BY DEF IInv, TypeOK, page
  <2> QED
    BY <2>1 DEF OfferOK, OnTrail
<1> QED
  BY <1>1, <1>2, <1>3, Invariance, PTL DEF Spec

-----------------------------------------------------------------------------
(* The requests that load the confirm page *)

\* The page that settles the target is left.
Decided ==
  load # "idle" \/ root = "confirm" \/ page \in {"capabilities", "recovery", "passphrase"}

\* A user who waits leaves a page only after its reset has been served.
QuietOK == resets # <<>> => root = "storage" /\ load = "idle" /\ page \in ResettingPage

\* The requests that load the confirm page make of the choice a configuration,
\* or there is none to be made.
MadeOK ==
  /\ load \in {"reset", "choose", "guided", "set"} => guidedTarget # None
  /\ load = "guided" => choice = Chosen
  /\ load \in {"set", "get", "originals"} \/ root \in {"confirm", "installing"}
     => guidedTarget = None \/ plan = Chosen

\* A reset is in flight only where the page that sent it is on screen.
LEMMA QuietStep ==
  ASSUME UserWaits, IInv, ReviewOK, OfferOK, QuietOK, [Next]_vars
  PROVE  QuietOK'
<1> USE DEF serviceVars, pageVars, navVars, serverVars
<1>1. ASSUME resets' = <<>> PROVE QuietOK'
  BY <1>1 DEF QuietOK
<1>2. CASE NextButton
  <2>1. resets = <<>> /\ resets' = resets
    BY <1>2 DEF NextButton, NextStorage, NextReformat, NextResize, NextManual, NextCapabilities,
                NextRecoveryKey, NextPassphrase, CanGoOn
  <2> QED
    BY <1>1, <2>1
<1>3. CASE BackNested
  <2>1. /\ root' = "storage" /\ load' = "idle" /\ resets = <<>> /\ OnReturn(page')
    BY <1>3 DEF BackNested, CanTouch, page
  <2> QED
    BY <2>1 DEF QuietOK, OnReturn
<1>4. CASE BackFromConfirm
  <2>1. /\ root' = "storage" /\ load' = "idle" /\ resets = <<>> /\ OnReturn(page) /\ page' = page
    BY <1>4 DEF BackFromConfirm, ReviewOK, OfferOK, page
  <2> QED
    BY <2>1 DEF QuietOK, OnReturn
<1>5. CASE \/ \E t \in StorageType : SelectType(t)
           \/ \E i \in 0 .. Cardinality(Target) : SelectDisk(i)
           \/ \E h \in {"partial", "manual"} : EditPartitions(h)
           \/ \E c \in Capability : SelectCapability(c)
           \/ \E b \in BOOLEAN : ConfirmRecoveryKey(b)
           \/ ChangeSource \/ EnterStorage \/ BackToSource \/ ClickInstall
  BY <1>1, <1>5 DEF SelectType, SelectDisk, EditPartitions, SelectCapability, ConfirmRecoveryKey,
                    ChangeSource, EnterStorage, BackToSource, ClickInstall, CanTouch, CanGoOn
<1>6. CASE ServeReset
  BY <1>6 DEF ServeReset, QuietOK, page
<1>7. CASE Load
  BY <1>7 DEF Load, CheckTarget, ResetPlan, BuildChoice, PostGuided, PostStorage, FetchStorage, ShowConfirm,
              LoadFails, ReviewOK, QuietOK, page
<1>8. CASE StartInstallation \/ UNCHANGED vars
  BY <1>8 DEF StartInstallation, vars, QuietOK, page
<1> QED
  BY <1>2, <1>3, <1>4, <1>5, <1>6, <1>7, <1>8 DEF Next, Forward, Backward, NextButton

\* No request is overtaken: what the server is asked for is what the fields say.
LEMMA MadeStep ==
  ASSUME UserWaits, IInv, ReviewOK, TopOK, MadeOK, [Next]_vars
  PROVE  MadeOK'
<1> USE DEF serviceVars, pageVars, navVars, serverVars
<1>1. ASSUME load' \in {"idle", "check"}, root' \notin {"confirm", "installing"} PROVE MadeOK'
  BY <1>1 DEF MadeOK
<1>2. CASE NextButton
  <2>1. root = "storage" /\ load = "idle" /\ (Leaves \/ \E p \in Page : Shows(p))
    BY <1>2, NextMoves DEF TopOK, CanGoOn
  <2>2. root' = "storage" /\ load' \in {"idle", "check"}
    BY <2>1 DEF Leaves, Shows, LoadConfirm, Show
  <2> QED
    BY <1>1, <2>2
<1>3. CASE \/ \E t \in StorageType : SelectType(t)
           \/ \E i \in 0 .. Cardinality(Target) : SelectDisk(i)
           \/ \E h \in {"partial", "manual"} : EditPartitions(h)
           \/ \E c \in Capability : SelectCapability(c)
           \/ \E b \in BOOLEAN : ConfirmRecoveryKey(b)
           \/ ChangeSource \/ EnterStorage \/ BackToSource \/ BackNested
  BY <1>1, <1>3 DEF SelectType, SelectDisk, EditPartitions, SelectCapability, ConfirmRecoveryKey,
                    ChangeSource, EnterStorage, BackToSource, BackNested, CanTouch, CanGoOn, OnPage
<1>4. CASE BackFromConfirm
  BY <1>1, <1>4 DEF BackFromConfirm, ReviewOK
<1>5. CASE ServeReset
  BY <1>1, <1>5 DEF ServeReset, ReviewOK
<1>6. CASE ClickInstall
  BY <1>6 DEF ClickInstall, MadeOK, Chosen, ReviewOK
<1>7. CASE StartInstallation
  BY <1>1, <1>7 DEF StartInstallation, ReviewOK
<1>8. CASE Load
  <2>1. root = "storage"
    BY <1>8 DEF Load, CheckTarget, ResetPlan, BuildChoice, PostGuided, PostStorage, FetchStorage, ShowConfirm, ReviewOK
  <2>2. CASE CheckTarget \/ ResetPlan
    BY <2>1, <2>2 DEF CheckTarget, ResetPlan, MadeOK
  <2>3. CASE BuildChoice
    BY <2>1, <2>3 DEF BuildChoice, MadeOK, Chosen
  <2>4. CASE PostGuided
    BY <2>1, <2>4 DEF PostGuided, LoadFails, MadeOK, Chosen
  <2>5. CASE PostStorage \/ FetchStorage \/ ShowConfirm
    BY <2>1, <2>5 DEF PostStorage, FetchStorage, ShowConfirm, MadeOK, Chosen
  <2> QED
    BY <1>8, <2>2, <2>3, <2>4, <2>5 DEF Load
<1>9. CASE UNCHANGED vars
  BY <1>9 DEF vars, MadeOK, Chosen
<1> QED
  BY <1>2, <1>3, <1>4, <1>5, <1>6, <1>7, <1>8, <1>9 DEF Next, Forward, Backward, NextButton

-----------------------------------------------------------------------------
(* The wizard implements StorageChoice *)

\* What the fields of the service stand for is a guided configuration, or none.
ChosenTyped == Chosen \in {p \in Plan : p.how = "guided"} \cup {NoPlan}

LEMMA ChosenType == IInv => ChosenTyped
<1> SUFFICES ASSUME IInv PROVE Chosen \in {p \in Plan : p.how = "guided"} \cup {NoPlan}
  BY DEF ChosenTyped
<1> DEFINE cap == IF guidedCapability = None THEN Head(Allowed[guidedTarget])
                  ELSE guidedCapability
<1>1. CASE guidedTarget = None \/ root = "installed"
  BY <1>1 DEF Chosen
<1>2. CASE guidedTarget # None /\ root # "installed"
  <2>1. guidedTarget \in Target /\ passphrase \in Passphrase \cup {Empty, None}
    BY <1>2 DEF IInv, TypeOK
  <2>2. cap \in Capability
    BY <1>2, <2>1, FirstAllowed DEF IInv, TypeOK, AllowedOK
  <2>3. Chosen = [how |-> "guided", target |-> guidedTarget, cap |-> cap, pass |-> passphrase]
    BY <1>2 DEF Chosen
  <2> HIDE DEF cap
  <2> QED
    BY <2>1, <2>2, <2>3 DEF Plan
<1> QED
  BY <1>1, <1>2

LEMMA ChoiceInit == Init => Choice!Init
BY DEF Init, Choice!Init, Stage, Chosen, Shown

\* Each step of the pages, of the requests and of the resets is one of
\* StorageChoice, or a stutter.
LEMMA ChoiceStep ==
  ASSUME UserWaits, IInv, ChosenTyped', ReviewOK, TopOK, QuietOK, MadeOK, [Next]_vars
  PROVE  [Choice!Next]_Choice!vars
<1> USE DEF serviceVars, pageVars, navVars, serverVars
\* Whatever happens on the pages changes at most the choice.
<1>1. ASSUME root \in {"source", "storage"}, root' \in {"source", "storage"},
             load = "idle", load' \in {"idle", "check"}, UNCHANGED <<plan, installed>>
      PROVE  Choice!Choose
  <2>1. Chosen' \in {p \in Plan : p.how = "guided"} \cup {NoPlan}
    BY DEF ChosenTyped
  <2>2. Stage = "choosing" /\ Stage' \in {"choosing", "loading"} /\ Shown' = Shown
    BY <1>1 DEF Stage, Shown
  <2> QED
    BY <1>1, <2>1, <2>2 DEF Choice!Choose
<1>2. CASE NextButton
  <2>1. root = "storage" /\ load = "idle" /\ UNCHANGED <<plan, installed>> /\ (Leaves \/ \E p \in Page : Shows(p))
    BY <1>2, NextMoves DEF TopOK, CanGoOn
  <2>2. root' = "storage" /\ load' \in {"idle", "check"}
    BY <2>1 DEF Leaves, Shows, LoadConfirm, Show
  <2> QED
    BY <1>1, <2>1, <2>2 DEF Choice!Next
<1>3. CASE \/ \E t \in StorageType : SelectType(t)
           \/ \E i \in 0 .. Cardinality(Target) : SelectDisk(i)
           \/ \E c \in Capability : SelectCapability(c)
           \/ \E b \in BOOLEAN : ConfirmRecoveryKey(b)
           \/ ChangeSource \/ EnterStorage \/ BackToSource \/ BackNested
  <2>1. /\ root \in {"source", "storage"} /\ root' \in {"source", "storage"}
        /\ load = "idle" /\ load' = "idle" /\ UNCHANGED <<plan, installed>>
    BY <1>3 DEF SelectType, SelectDisk, SelectCapability, ConfirmRecoveryKey,
                ChangeSource, EnterStorage, BackToSource, BackNested, CanTouch, CanGoOn, OnPage
  <2> QED
    BY <1>1, <2>1 DEF Choice!Next
<1>4. CASE \E h \in {"partial", "manual"} : EditPartitions(h)
  <2>1. root = "storage" /\ load = "idle" /\ UNCHANGED <<root, load, reviewed, installed, serviceVars>>
    BY <1>4 DEF EditPartitions, OnPage, CanTouch
  <2>2. Stage = "choosing" /\ Stage' = Stage /\ Chosen' = Chosen /\ Shown' = Shown
    BY <2>1 DEF Stage, Chosen, Shown
  <2>3. plan' \in {Unguided("partial"), Unguided("manual")}
    BY <1>4 DEF EditPartitions
  <2> QED
    BY <2>1, <2>2, <2>3 DEF Choice!Partition, Choice!Next
<1>5. CASE ServeReset
  <2>1. root = "storage" /\ load = "idle"
    BY <1>5 DEF ServeReset, QuietOK
  <2>2. UNCHANGED <<root, load, reviewed, installed, serviceVars>> /\ plan' = NoPlan
    BY <1>5 DEF ServeReset
  <2>3. Stage = "choosing" /\ Stage' = Stage /\ Chosen' = Chosen /\ Shown' = Shown
    BY <2>1, <2>2 DEF Stage, Chosen, Shown
  <2> QED
    BY <2>2, <2>3 DEF Choice!Reset, Choice!Next
<1>6. CASE BackFromConfirm
  <2>1. /\ root = "confirm" /\ root' = "storage" /\ load = "idle" /\ load' = "idle"
        /\ guidedTarget' \in {guidedTarget, None}
        /\ UNCHANGED <<guidedCapability, passphrase, plan, installed>>
    BY <1>6 DEF BackFromConfirm, OnReturn, ReviewOK
  <2>2. Stage = "reviewing" /\ Stage' = "choosing" /\ Chosen' \in {Chosen, NoPlan} /\ Shown' = NoPlan
    BY <2>1 DEF Stage, Chosen, Shown
  <2> QED
    BY <2>1, <2>2 DEF Choice!Revise, Choice!Next
<1>7. CASE ClickInstall
  <2>1. /\ root = "confirm" /\ root' = "installing"
        /\ UNCHANGED <<serviceVars, reviewed, plan, installed>>
    BY <1>7 DEF ClickInstall
  <2>2. Stage = "reviewing" /\ Stage' = "installing" /\ Chosen' = Chosen /\ Shown' = Shown
    BY <2>1 DEF Stage, Chosen, Shown
  <2> QED
    BY <2>1, <2>2 DEF Choice!Confirm, Choice!Next
<1>8. CASE StartInstallation
  <2>1. /\ root = "installing" /\ root' = "installed" /\ installed' = plan /\ reviewed = plan
        /\ UNCHANGED <<reviewed, plan>>
    BY <1>8 DEF StartInstallation, ReviewOK
  <2>2. Stage = "installing" /\ Stage' = "installed" /\ Chosen' = NoPlan /\ Shown' = Shown /\ Shown = reviewed
    BY <2>1 DEF Stage, Chosen, Shown
  <2> QED
    BY <2>1, <2>2 DEF Choice!Install, Choice!Next
<1>9. CASE Load
  <2>1. root = "storage" /\ load # "idle" /\ UNCHANGED <<serviceVars, installed>>
    BY <1>9 DEF Load, CheckTarget, ResetPlan, BuildChoice, PostGuided, PostStorage, FetchStorage, ShowConfirm, ReviewOK
  <2>2. Stage = "loading"
    BY <2>1 DEF Stage
  <2>3. root' = "storage" => Chosen' = Chosen /\ Shown' = Shown
    BY <2>1 DEF Chosen, Shown
  <2>4. CASE CheckTarget \/ PostStorage \/ FetchStorage
    <3>1. root' = root /\ load' # "idle" /\ plan' = plan
      BY <2>4 DEF CheckTarget, PostStorage, FetchStorage
    <3> QED
      BY <2>1, <2>2, <2>3, <3>1 DEF Stage, Choice!vars
  <2>5. ASSUME root' = "error" PROVE Stage' = "failed" /\ Chosen' = Chosen /\ Shown' = Shown
    BY <2>1, <2>5 DEF Stage, Chosen, Shown
  <2>6. CASE ResetPlan
    <3>1. root' = root /\ load' # "idle" /\ plan' = NoPlan /\ Chosen # NoPlan
      BY <2>1, <2>6 DEF ResetPlan, MadeOK, Chosen, NoPlan, Unguided
    <3>2. Stage' = "loading"
      BY <2>1, <3>1 DEF Stage
    <3> QED
      BY <2>1, <2>2, <2>3, <3>1, <3>2 DEF Choice!Reset, Choice!Next
  <2>7. CASE BuildChoice
    <3>1. root' = root /\ load' # "idle" /\ plan' = plan
      BY <2>7 DEF BuildChoice, MadeOK
    <3> QED
      BY <2>1, <2>2, <2>3, <3>1 DEF Stage, Choice!vars
  <2>8. CASE PostGuided
    <3>1. choice = Chosen /\ guidedTarget # None /\ plan = NoPlan
      BY <2>8 DEF PostGuided, MadeOK, IInv, LoadOK
    <3>2. CASE Accepts(choice.target, choice.cap)
      <4>1. root' = root /\ load' # "idle" /\ plan' = Chosen
        BY <2>8, <3>1, <3>2 DEF PostGuided
      <4>2. Chosen # NoPlan
        BY <2>1, <3>1 DEF Chosen, NoPlan, Unguided
      <4>3. Stage' = "loading"
        BY <2>1, <4>1 DEF Stage
      <4> QED
        BY <2>1, <2>2, <2>3, <3>1, <4>1, <4>2, <4>3 DEF Choice!Configure, Choice!Next
    <3>3. CASE ~Accepts(choice.target, choice.cap)
      <4>1. root' = "error" /\ plan' = plan
        BY <2>8, <3>3 DEF PostGuided, LoadFails
      <4> QED
        BY <2>1, <2>2, <2>5, <4>1 DEF Choice!Fail, Choice!Next
    <3> QED
      BY <3>2, <3>3
  <2>9. CASE ShowConfirm
    <3>1. root' = "confirm" /\ plan' = plan /\ reviewed' = reviewed /\ reviewed = plan /\ load = "originals"
      BY <2>9 DEF ShowConfirm, ReviewOK
    <3>2. Chosen # NoPlan => plan = Chosen
      BY <3>1 DEF MadeOK, Chosen
    <3>3. Stage' = "reviewing" /\ Chosen' = Chosen /\ Shown' = plan
      BY <2>1, <3>1 DEF Stage, Chosen, Shown
    <3> QED
      BY <2>1, <2>2, <3>1, <3>2, <3>3 DEF Choice!Review, Choice!Next
  <2> QED
    BY <1>9, <2>4, <2>6, <2>7, <2>8, <2>9 DEF Load
<1>10. CASE UNCHANGED vars
  BY <1>10 DEF vars, Choice!vars, Stage, Chosen, Shown
<1> QED
  BY <1>2, <1>3, <1>4, <1>5, <1>6, <1>7, <1>8, <1>9, <1>10 DEF Next, Forward, Backward, NextButton

\* What holds for a user who waits.
PatientOK == ReviewOK /\ TopOK /\ OfferOK /\ QuietOK /\ MadeOK

LEMMA PatientInductive ==
  ASSUME UserWaits
  PROVE  Spec => []PatientOK
<1>1. Init => PatientOK
  <2> SUFFICES ASSUME Init PROVE PatientOK
    OBVIOUS
  <2>1. page = "storage" /\ ~OnTrail("resize")
    BY DEF Init, page, OnTrail
  <2> QED
    BY <2>1 DEF Init, PatientOK, ReviewOK, TopOK, OfferOK, QuietOK, MadeOK
<1>2. IInv /\ PatientOK /\ [Next]_vars => PatientOK'
  BY ReviewStep, TopStep, OfferStep, QuietStep, MadeStep DEF PatientOK
<1> QED
  BY <1>1, <1>2, Invariance, PTL DEF Spec

\* For a user who waits the eight pages, their shared service, the seven requests
\* of the confirm page and the resets nobody awaits come to choosing, reviewing
\* and installing one configuration: StorageWizard implements StorageChoice.
THEOREM WizardImplementsChoice ==
  ASSUME UserWaits
  PROVE  Spec => Choice!Init /\ [][Choice!Next]_Choice!vars
<1>1. IInv /\ ChosenTyped' /\ PatientOK /\ [Next]_vars => [Choice!Next]_Choice!vars
  BY ChoiceStep DEF PatientOK
<1> QED
  BY <1>1, ChoiceInit, ChosenType, Invariance, PatientInductive, PTL DEF Spec

-----------------------------------------------------------------------------
(* The operators that pick a target of a list find one *)

\* A set of numbers has a least one.
LEMMA LeastOf ==
  ASSUME NEW T, T \subseteq Nat, T # {}
  PROVE  \E i \in T : \A j \in T : i <= j
<1>1. PICK i \in T : \A j \in T : ~(<<j, i>> \in OpToRel(<, Nat))
  BY WFMin, NatLessThanWellFounded, Zenon
<1>2. \A j \in T : ~(j < i)
  BY <1>1 DEF OpToRel
<1> QED
  BY <1>2

\* A list that is not empty has a first target.
LEMMA FirstDefined ==
  ASSUME NEW S \in SUBSET Target, S # {}
  PROVE  First(S) \in S
<1> DEFINE ranks == {Rank[t] : t \in S}
<1>1. \A t \in S : Rank[t] \in Nat
  BY ConstantsAssumption
<1>2. PICK i \in ranks : \A j \in ranks : i <= j
  <2>1. ranks \subseteq Nat /\ ranks # {}
    BY <1>1
  <2> QED
    BY <2>1, LeastOf
<1>3. PICK t \in S : Rank[t] = i
  BY <1>2
<1>4. Leads(t, S)
  BY <1>2, <1>3 DEF Leads
<1> QED
  BY <1>4 DEF First, Leads

\* Of the gaps, if there are any, one is the largest.
LEMMA LargestDefined ==
  ASSUME NEW S \in SUBSET Target, IsFiniteSet(S), S # {}
  PROVE  Largest(S) \in S
<1> DEFINE above(t) == {u \in S : GapSize[u] > GapSize[t] \/ (GapSize[u] = GapSize[t] /\ Rank[u] > Rank[t])}
           counts   == {Cardinality(above(t)) : t \in S}
<1>1. \A t \in S : Rank[t] \in Nat /\ GapSize[t] \in Nat
  BY ConstantsAssumption
<1>2. \A t \in S : IsFiniteSet(above(t)) /\ Cardinality(above(t)) \in Nat
  <2> TAKE t \in S
  <2>1. above(t) \in SUBSET S
    OBVIOUS
  <2> HIDE DEF above
  <2> QED
    BY <2>1, FS_Subset, FS_CardinalityType
<1>3. PICK i \in counts : \A j \in counts : i <= j
  <2>1. counts \subseteq Nat /\ counts # {}
    BY <1>2
  <2> HIDE DEF counts
  <2> QED
    BY <2>1, LeastOf
<1>4. PICK t \in S : Cardinality(above(t)) = i
  BY <1>3
<1>5. ASSUME NEW u \in above(t) PROVE FALSE
  <2>1. above(u) \in SUBSET above(t)
    BY <1>1
  <2>2. u \notin above(u) /\ u \in S
    BY <1>1
  <2>3. above(u) # above(t)
    BY <2>2
  <2>4. Cardinality(above(u)) \in counts
    BY <2>2
  <2> HIDE DEF above, counts
  <2>5. Cardinality(above(u)) <= Cardinality(above(t)) /\ Cardinality(above(u)) # Cardinality(above(t))
    BY <1>2, <2>1, <2>3, FS_Subset
  <2>6. i <= Cardinality(above(u))
    BY <1>3, <2>4
  <2> QED
    BY <1>2, <1>4, <2>2, <2>5, <2>6
<1>6. Biggest(t, S)
  BY <1>1, <1>5 DEF Biggest
<1> QED
  BY <1>6 DEF Largest, Biggest

\* The n targets of a list are at the positions 0 to n - 1.
LEMMA NthDefined ==
  ASSUME NEW S \in SUBSET Target, IsFiniteSet(S), NEW i \in Nat, i < Cardinality(S)
  PROVE  Nth(S, i) \in S
<1> DEFINE n        == Cardinality(S)
           below(t) == {u \in S : Rank[u] < Rank[t]}
           f        == [t \in S |-> Cardinality(below(t))]
<1>1. n \in Nat /\ IsFiniteSet(0 .. n - 1) /\ Cardinality(0 .. n - 1) = n
  <2>1. n \in Nat
    BY FS_CardinalityType
  <2> HIDE DEF n
  <2>2. 0 \in Int /\ n - 1 \in Int
    BY <2>1
  <2>3. IsFiniteSet(0 .. n - 1) /\ Cardinality(0 .. n - 1) = IF 0 > n - 1 THEN 0 ELSE (n - 1) - 0 + 1
    BY <2>2, FS_Interval
  <2> QED
    BY <2>1, <2>3
<1>2. \A t \in S : Rank[t] \in Nat
  BY ConstantsAssumption
<1>3. \A t \in S : IsFiniteSet(below(t)) /\ Cardinality(below(t)) \in 0 .. n - 1
  <2> TAKE t \in S
  <2>1. below(t) \in SUBSET S /\ below(t) # S
    BY <1>2
  <2> HIDE DEF below
  <2>2. /\ IsFiniteSet(below(t)) /\ Cardinality(below(t)) \in Nat
        /\ Cardinality(below(t)) <= n /\ Cardinality(below(t)) # n
    BY <2>1, FS_Subset, FS_CardinalityType
  <2> QED
    BY <1>1, <2>2
<1>4. ASSUME NEW t \in S, NEW u \in S, Rank[t] < Rank[u] PROVE f[t] # f[u]
  <2>1. below(t) \in SUBSET below(u) /\ t \in below(u) /\ t \notin below(t)
    BY <1>2, <1>4
  <2>2. f[t] = Cardinality(below(t)) /\ f[u] = Cardinality(below(u))
    OBVIOUS
  <2> HIDE DEF below, f
  <2>3. Cardinality(below(u)) = Cardinality(below(t)) => below(u) = below(t)
    BY <1>3, <2>1, FS_Subset
  <2> QED
    BY <2>1, <2>2, <2>3
<1>5. f \in Injection(S, 0 .. n - 1)
  <2>1. f \in [S -> 0 .. n - 1]
    BY <1>3
  <2> HIDE DEF f, below
  <2>2. ASSUME NEW t \in S, NEW u \in S, f[t] = f[u] PROVE t = u
    <3>1. ~(Rank[t] < Rank[u]) /\ ~(Rank[u] < Rank[t])
      BY <1>4, <2>2
    <3> QED
      BY <1>2, <3>1, ListsAssumption
  <2> QED
    BY <2>1, <2>2, Zenon DEF Injection, IsInjective
<1>6. f \in Surjection(S, 0 .. n - 1)
  <2> HIDE DEF f
  <2> QED
    BY <1>1, <1>5, FS_Injection
<1>7. PICK t \in S : f[t] = i
  <2>1. i \in 0 .. n - 1
    BY <1>1
  <2> HIDE DEF f
  <2> QED
    BY <1>6, <2>1 DEF Surjection
<1>8. At(t, S, i)
  BY <1>7 DEF At
<1> QED
  BY <1>8 DEF Nth, At

-----------------------------------------------------------------------------
(* What is reviewed is what the pages collected *)

\* A page of the wizard is on the trail of its own type only.
TypedOK ==
  /\ OnTrail("reformat") => type = "erase"
  /\ OnTrail("resize") => type = "alongside"
  /\ OnTrail("manual") => type = "manual"

Disks(S) == Usable(S, "reformat")

\* What the pages show is of the source they were opened for, except for the
\* selected index, which is one of some source's disks.
SourceOK ==
  /\ present \in TargetSets
  /\ root # "source" => targets \subseteq present
  /\ OnTrail("reformat") => listed = Disks(present) /\ Cardinality(listed) > 1
  /\ OnTrail("resize") => Usable(present, "use_gap") = {}
  /\ reformatIndex = 0 \/ \E S \in TargetSets : Cardinality(Disks(S)) > 1 /\ reformatIndex < Cardinality(Disks(S))

\* The manual page knows whether the server's configuration is complete.
ManualPlanOK ==
  OnTrail("manual") => plan.how # "guided" /\ (resets = <<>> => (incomplete <=> Incomplete(plan)))

TargetFits ==
  /\ guidedTarget # None
  /\ type = "erase" => Kind[guidedTarget] = "reformat"
  /\ type = "alongside" => Kind[guidedTarget] \in {"resize", "use_gap"}
  /\ type \in EraseInstall => guidedTarget = type

\* Behind the page that settles the target there is one of the selected type,
\* or a configuration of the user's own.
ChosenOK ==
  Decided /\ Selectable(type) =>
    IF type = "manual" THEN OnTrail("manual") /\ plan.how = "manual" ELSE TargetFits

\* Sources for which the disk has to be selected have equally many disks.
SameDisks ==
  \A S, T \in TargetSets :
    Cardinality(Disks(S)) > 1 /\ Cardinality(Disks(T)) > 1 => Cardinality(Disks(S)) = Cardinality(Disks(T))

\* At most one page of a type is on the trail, and none below the storage page.
LEMMA TypedPages ==
  ASSUME TypeOK, TrailOK
  PROVE  /\ page = "storage" => \A q \in Typed : ~OnTrail(q)
         /\ page \in Typed => OnTrail(page) /\ Len(trail) = 2
         /\ \A q, r \in Typed : OnTrail(q) /\ OnTrail(r) => q = r
<1>1. Len(trail) \in Nat \ {0} /\ page = trail[1] /\ trail \in Seq(Page) /\ 1 \in 1 .. Len(trail)
  BY DEF TypeOK, page
<1>2. "storage" \notin Typed
  BY DEF Typed
<1>3. ASSUME page = "storage", NEW q \in Typed PROVE ~OnTrail(q)
  <2>1. Len(trail) = 1 /\ trail[1] = "storage"
    BY <1>1, <1>3 DEF TrailOK
  <2>2. \A i \in 1 .. 1 : trail[i] = "storage"
    BY <2>1
  <2> QED
    BY <1>2, <2>1, <2>2 DEF OnTrail
<1>4. ASSUME page \in Typed PROVE OnTrail(page) /\ Len(trail) = 2
  <2>1. 1 = Len(trail) - 1
    BY <1>1, <1>4 DEF TrailOK
  <2> QED
    BY <1>1, <2>1 DEF OnTrail
<1>5. ASSUME NEW q \in Typed, NEW r \in Typed, OnTrail(q), OnTrail(r) PROVE q = r
  <2>1. PICK i \in 1 .. Len(trail) : trail[i] = q
    BY <1>5 DEF OnTrail
  <2>2. PICK j \in 1 .. Len(trail) : trail[j] = r
    BY <1>5 DEF OnTrail
  <2>3. i = j
    BY <2>1, <2>2 DEF TrailOK
  <2> QED
    BY <2>1, <2>2, <2>3
<1> QED
  BY <1>3, <1>4, <1>5

\* The pages behind those of the types leave these where they are.
LEMMA ChainTrail ==
  ASSUME TypeOK, NEW t,
         LoadCapabilities(t) \/ LoadRecoveryKey \/ LoadPassphrase \/ LoadConfirm
  PROVE  /\ \A q \in Typed : OnTrail(q)' <=> OnTrail(q)
         /\ root' = root
<1>1. CASE \E p \in {"capabilities", "recovery", "passphrase"} : Show(p)
  <2>1. PICK p \in {"capabilities", "recovery", "passphrase"} : Show(p)
    BY <1>1
  <2>2. p \in Page /\ p \notin Typed
    BY DEF Page, Typed
  <2> QED
    BY <2>1, <2>2, ShownTrail DEF Show
<1>2. CASE LoadConfirm
  BY <1>2 DEF LoadConfirm, OnTrail
<1> QED
  BY <1>1, <1>2, ChainEnds

\* The types that are no targets, and what makes each selectable.
LEMMA TypeIsNoTarget ==
  ASSUME TypeOK
  PROVE  /\ type \in {"alongside", "erase", "manual"} => type \notin EraseInstall
         /\ type = "alongside" /\ Selectable(type) => CanInstallAlongside(targets)
         /\ type = "erase" /\ Selectable(type) => CanEraseDisk(targets)
         /\ Selectable(type) => type # None
<1>1. (Target \cup {None}) \cap {"alongside", "erase", "manual"} = {} /\ None \notin Target
  BY ConstantsAssumption
<1>2. Usable(targets, "erase_install") \subseteq Target
  BY DEF Usable, TypeOK
<1> QED
  BY <1>1, <1>2 DEF Selectable, EraseInstall

\* The storage page: a page of its type is shown, or there is only one target
\* to choose.
LEMMA StorageChosen ==
  ASSUME UserWaits, IInv, OfferOK, TypedOK, SourceOK, NextStorage
  PROVE  (TypedOK /\ SourceOK /\ ManualPlanOK /\ ChosenOK)'
<1> USE DEF IInv, serverVars
<1>1. /\ page = "storage" /\ root = "storage" /\ load = "idle" /\ resets = <<>>
      /\ UNCHANGED <<type, targets, reformatIndex, present, plan, resets>>
      /\ LoadReformat \/ LoadResize \/ LoadManual \/ LoadEraseInstall
  BY DEF NextStorage, OnPage, CanGoOn
<1>2. plan = NoPlan /\ Offered(plan) = present
  BY <1>1 DEF OfferOK, Offered, NoPlan, Unguided
<1>3. \A q \in Typed : ~OnTrail(q)
  BY <1>1, TypedPages
<1>4. /\ present \in TargetSets /\ present \in SUBSET Target /\ IsFiniteSet(present)
      /\ targets \subseteq present
  BY <1>1, ListsAssumption DEF SourceOK, TypeOK
<1>5. ASSUME NEW p \in Typed, Show(p)
      PROVE  /\ \A q \in Typed : OnTrail(q)' <=> q = p
             /\ ~Decided' /\ root' = "storage"
  <2>1. p \in Page
    BY DEF Typed, Page
  <2>2. page' = p /\ \A q : OnTrail(q)' <=> q = p \/ OnTrail(q)
    BY <1>5, <2>1, ShownTrail
  <2>3. load' = "idle" /\ root' = "storage"
    BY <1>1, <1>5 DEF Show
  <2> QED
    BY <1>3, <2>2, <2>3 DEF Decided, Typed
<1>6. ASSUME NEW t, LoadCapabilities(t)
      PROVE  (\A q \in Typed : ~OnTrail(q)') /\ root' = "storage"
  BY <1>1, <1>3, <1>6, ChainTrail
<1>7. Typed = {"reformat", "resize", "manual"}
  BY DEF Typed
<1>8. ASSUME (\A q \in Typed : ~OnTrail(q)') /\ root' = "storage"
      PROVE  (TypedOK /\ SourceOK /\ ManualPlanOK)'
  BY <1>1, <1>4, <1>7, <1>8 DEF TypedOK, SourceOK, ManualPlanOK
<1>9. Selectable(type)' <=> Selectable(type)
  BY <1>1 DEF Selectable
<1>10. CASE LoadReformat
  <2>1. type = "erase" /\ listed' = Disks(present)
    BY <1>2, <1>10 DEF LoadReformat, Disks
  <2>2. CASE Cardinality(Disks(present)) > 1
    <3>1. Show("reformat")
      BY <1>2, <1>10, <2>2 DEF LoadReformat, Disks
    <3> QED
      BY <1>1, <1>4, <1>5, <1>7, <2>1, <2>2, <3>1 DEF TypedOK, SourceOK, ManualPlanOK, ChosenOK
  <2>3. CASE ~(Cardinality(Disks(present)) > 1)
    <3>1. PICK t : /\ guidedTarget' = t /\ LoadCapabilities(t)
                   /\ t = IF Cardinality(Disks(present)) = 1 THEN First(Disks(present)) ELSE SavedTarget
      BY <1>2, <1>10, <2>3 DEF LoadReformat, Disks
    <3>2. ASSUME Selectable(type) PROVE t \in Target /\ Kind[t] = "reformat"
      <4>1. ASSUME NEW S \in SUBSET Target, Disks(S) # {} PROVE First(Disks(S)) \in Target /\ Kind[First(Disks(S))] = "reformat"
        <5>1. Disks(S) \in SUBSET Target
          BY DEF Disks, Usable
        <5>2. First(Disks(S)) \in Disks(S)
          BY <4>1, <5>1, FirstDefined
        <5> QED
          BY <5>1, <5>2 DEF Disks, Usable
      <4>2. Cardinality(Disks(present)) = 1 => Disks(present) # {}
        BY FS_EmptySet
      <4>3. Disks(targets) # {}
        BY <2>1, <3>2, TypeIsNoTarget DEF CanEraseDisk, Disks
      <4>4. SavedTarget = First(Disks(targets))
        BY <2>1, TypeIsNoTarget DEF SavedTarget, Disks
      <4> QED
        BY <1>4, <3>1, <4>1, <4>2, <4>3, <4>4
    <3>3. Selectable(type) => TargetFits'
      BY <1>1, <2>1, <3>1, <3>2, ConstantsAssumption, TypeIsNoTarget DEF TargetFits
    <3> QED
      BY <1>1, <1>6, <1>8, <1>9, <2>1, <3>1, <3>3 DEF ChosenOK
  <2> QED
    BY <2>2, <2>3
<1>11. CASE LoadResize
  <2>1. type = "alongside"
    BY <1>11 DEF LoadResize
  <2>2. CASE Usable(present, "use_gap") = {}
    <3>1. Show("resize")
      BY <1>2, <1>11, <2>2 DEF LoadResize
    <3> QED
      BY <1>1, <1>4, <1>5, <1>7, <2>1, <2>2, <3>1 DEF TypedOK, SourceOK, ManualPlanOK, ChosenOK
  <2>3. CASE Usable(present, "use_gap") # {}
    <3>1. PICK t : guidedTarget' = t /\ LoadCapabilities(t) /\ t = Largest(Usable(present, "use_gap"))
      BY <1>2, <1>11, <2>3 DEF LoadResize
    <3>2. t \in Target /\ Kind[t] = "use_gap"
      <4>1. Usable(present, "use_gap") \in SUBSET present
        BY DEF Usable
      <4>2. IsFiniteSet(Usable(present, "use_gap")) /\ Usable(present, "use_gap") \in SUBSET Target
        BY <1>4, <4>1, FS_Subset
      <4>3. t \in Usable(present, "use_gap")
        BY <2>3, <3>1, <4>2, LargestDefined
      <4> QED
        BY <4>2, <4>3 DEF Usable
    <3>3. TargetFits'
      BY <1>1, <2>1, <3>1, <3>2, ConstantsAssumption, TypeIsNoTarget DEF TargetFits
    <3> QED
      BY <1>1, <1>6, <1>8, <2>1, <3>1, <3>3 DEF ChosenOK
  <2> QED
    BY <2>2, <2>3
<1>12. CASE LoadManual
  <2>1. type = "manual" /\ Show("manual") /\ incomplete' = Incomplete(plan)
    BY <1>12 DEF LoadManual
  <2>2. plan.how # "guided"
    BY <1>2 DEF NoPlan, Unguided
  <2>3. incomplete' <=> Incomplete(plan)'
    BY <1>1, <2>1 DEF Incomplete
  <2> QED
    BY <1>1, <1>4, <1>5, <1>7, <2>1, <2>2, <2>3 DEF TypedOK, SourceOK, ManualPlanOK, ChosenOK
<1>13. CASE LoadEraseInstall
  <2>1. type \in EraseInstall \cup {None} /\ guidedTarget' = SavedTarget /\ LoadCapabilities(SavedTarget)
    BY <1>13 DEF LoadEraseInstall
  <2>2. Selectable(type) => TargetFits' /\ type # "manual"
    <3>1. SUFFICES ASSUME Selectable(type) PROVE TargetFits' /\ type # "manual"
      OBVIOUS
    <3>2. type \in EraseInstall /\ type \in Target
      BY <2>1, <3>1, TypeIsNoTarget DEF EraseInstall
    <3>3. type \notin {"alongside", "erase", "manual", None}
      BY <3>2, ConstantsAssumption
    <3>4. SavedTarget = type
      BY <3>2, <3>3 DEF SavedTarget
    <3> QED
      BY <1>1, <2>1, <3>2, <3>3, <3>4 DEF TargetFits
  <2> QED
    BY <1>1, <1>6, <1>8, <1>9, <2>1, <2>2 DEF ChosenOK
<1> QED
  BY <1>1, <1>10, <1>11, <1>12, <1>13

\* The pages behind: the disk is the selected one of those the page shows, the
\* partition one of its list.
LEMMA DiskChosen ==
  ASSUME UserWaits, SameDisks, IInv, OfferOK, TypedOK, SourceOK,
         NextReformat \/ \E t \in Target \cup {None} : NextResize(t)
  PROVE  (TypedOK /\ SourceOK /\ ManualPlanOK /\ ChosenOK)'
<1> USE DEF IInv, pageVars, serverVars
<1>1. PICK t : /\ guidedTarget' = t /\ LoadCapabilities(t)
               /\ \/ NextReformat /\ t = Nth(listed, reformatIndex)
                  \/ NextResize(t) /\ (t \in listed \/ listed = {})
  BY DEF NextReformat, NextResize
<1>2. /\ page \in {"reformat", "resize"} /\ page \in Typed /\ root = "storage"
      /\ UNCHANGED <<type, targets, listed, reformatIndex, present, plan, resets>>
  BY <1>1 DEF NextReformat, NextResize, OnPage, Typed
<1>3. OnTrail(page) /\ \A q \in Typed : OnTrail(q) => q = page
  BY <1>2, TypedPages
<1>4. (\A q \in Typed : OnTrail(q)' <=> q = page) /\ root' = "storage"
  BY <1>1, <1>2, <1>3, ChainTrail
<1>5. Typed = {"reformat", "resize", "manual"}
  BY DEF Typed
<1>6. (TypedOK /\ SourceOK /\ ManualPlanOK)'
  BY <1>2, <1>3, <1>4, <1>5 DEF TypedOK, SourceOK, ManualPlanOK
<1>7. Selectable(type)' <=> Selectable(type)
  BY <1>2 DEF Selectable
<1>8. present \in TargetSets /\ present \in SUBSET Target /\ IsFiniteSet(present) /\ targets \subseteq present
  BY <1>2, ListsAssumption DEF SourceOK, TypeOK
<1>9. CASE page = "reformat"
  <2>1. type = "erase" /\ listed = Disks(present) /\ Cardinality(Disks(present)) > 1
    BY <1>3, <1>9 DEF TypedOK, SourceOK
  <2>2. Disks(present) \in SUBSET present /\ Disks(present) \in SUBSET Target
    BY <1>8 DEF Disks, Usable
  <2>3. IsFiniteSet(Disks(present))
    BY <1>8, <2>2, FS_Subset
  <2>4. reformatIndex \in Nat /\ reformatIndex < Cardinality(Disks(present))
    <3>1. Cardinality(Disks(present)) \in Nat /\ reformatIndex \in Nat
      BY <2>3, FS_CardinalityType DEF TypeOK
    <3>2. CASE reformatIndex = 0
      BY <2>1, <3>1, <3>2
    <3>3. CASE reformatIndex # 0
      <4>1. PICK S \in TargetSets : Cardinality(Disks(S)) > 1 /\ reformatIndex < Cardinality(Disks(S))
        BY <3>3 DEF SourceOK
      <4> QED
        BY <1>8, <2>1, <3>1, <4>1 DEF SameDisks
    <3> QED
      BY <3>2, <3>3
  <2>5. t = Nth(listed, reformatIndex)
    BY <1>1, <1>9 DEF NextResize, OnPage
  <2>6. t \in Disks(present)
    BY <2>1, <2>2, <2>3, <2>4, <2>5, NthDefined
  <2>7. t \in Target /\ Kind[t] = "reformat"
    BY <2>2, <2>6 DEF Disks, Usable
  <2>8. TargetFits' /\ type # "manual"
    BY <1>1, <1>2, <2>1, <2>7, ConstantsAssumption, TypeIsNoTarget DEF TargetFits
  <2> QED
    BY <1>2, <1>6, <2>8 DEF ChosenOK
<1>10. CASE page = "resize"
  <2>1. type = "alongside" /\ listed = Usable(present, "resize") /\ Usable(present, "use_gap") = {}
    BY <1>3, <1>10 DEF TypedOK, SourceOK, OfferOK
  <2>2. ASSUME Selectable(type) PROVE t \in Target /\ Kind[t] = "resize"
    <3>1. Usable(targets, "resize") \cup Usable(targets, "use_gap") # {}
      BY <2>1, <2>2, TypeIsNoTarget DEF CanInstallAlongside
    <3>2. listed # {}
      BY <1>8, <2>1, <3>1 DEF Usable
    <3>3. t \in listed
      BY <1>1, <1>10, <3>2 DEF NextReformat, OnPage
    <3> QED
      BY <1>8, <2>1, <3>3 DEF Usable
  <2>3. Selectable(type) => TargetFits' /\ type # "manual"
    BY <1>1, <1>2, <2>1, <2>2, ConstantsAssumption, TypeIsNoTarget DEF TargetFits
  <2> QED
    BY <1>2, <1>6, <1>7, <2>3 DEF ChosenOK
<1> QED
  BY <1>2, <1>6, <1>9, <1>10

\* The pages that come after the choice of a target leave it alone; so does the
\* manual page, whose Next button needs a complete configuration.
LEMMA PageChosen ==
  ASSUME UserWaits, IInv, TypedOK, SourceOK, ManualPlanOK, ChosenOK,
         NextManual \/ NextCapabilities \/ NextRecoveryKey
         \/ \E p \in Passphrase \cup {Empty} : NextPassphrase(p)
  PROVE  (TypedOK /\ SourceOK /\ ManualPlanOK /\ ChosenOK)'
<1> USE DEF IInv, pageVars, serverVars
<1>1. /\ root = "storage" /\ load = "idle" /\ resets = <<>>
      /\ LoadCapabilities(guidedTarget) \/ LoadRecoveryKey \/ LoadPassphrase \/ LoadConfirm
      /\ UNCHANGED <<guidedTarget, type, targets, listed, reformatIndex, present, plan, resets>>
      /\ incomplete' = incomplete \/ incomplete' = Incomplete(plan)
  BY DEF NextManual, NextCapabilities, NextRecoveryKey, NextPassphrase, OnPage, CanGoOn
<1>2. (\A q \in Typed : OnTrail(q)' <=> OnTrail(q)) /\ root' = "storage"
  BY <1>1, ChainTrail
<1>3. Typed = {"reformat", "resize", "manual"}
  BY DEF Typed
<1>4. Incomplete(plan)' <=> Incomplete(plan)
  BY <1>1 DEF Incomplete
<1>5. (TypedOK /\ SourceOK /\ ManualPlanOK)'
  BY <1>1, <1>2, <1>3, <1>4 DEF TypedOK, SourceOK, ManualPlanOK
<1>6. (Selectable(type)' <=> Selectable(type)) /\ (TargetFits' <=> TargetFits)
  BY <1>1 DEF Selectable, TargetFits
<1>7. CASE NextManual
  <2>1. page = "manual" /\ ~incomplete
    BY <1>7 DEF NextManual, OnPage
  <2>2. OnTrail("manual")
    BY <1>3, <2>1, TypedPages
  <2>3. type = "manual" /\ plan.how = "manual"
    <3>1. plan.how \notin {"guided", "none", "partial"}
      BY <1>1, <2>1, <2>2 DEF ManualPlanOK, Incomplete
    <3>2. plan.how \in {"none", "partial", "manual", "guided"}
      BY DEF TypeOK, Plan
    <3> QED
      BY <2>2, <3>1, <3>2 DEF TypedOK
  <2> QED
    BY <1>1, <1>2, <1>3, <1>5, <2>2, <2>3 DEF ChosenOK
<1>8. CASE NextCapabilities \/ NextRecoveryKey \/ \E p \in Passphrase \cup {Empty} : NextPassphrase(p)
  <2>1. Decided
    BY <1>8 DEF Decided, NextCapabilities, NextRecoveryKey, NextPassphrase, OnPage
  <2> QED
    BY <1>1, <1>2, <1>3, <1>5, <1>6, <2>1 DEF ChosenOK
<1> QED
  BY <1>7, <1>8

\* Going back to a page behind the choice undoes nothing of it.
LEMMA BackChosen ==
  ASSUME UserWaits, IInv, ReviewOK, OfferOK, TypedOK, SourceOK, ManualPlanOK, ChosenOK,
         BackNested \/ BackFromConfirm
  PROVE  (TypedOK /\ SourceOK /\ ManualPlanOK /\ ChosenOK)'
<1> USE DEF IInv, pageVars
<1>1. /\ UNCHANGED <<incomplete, type, targets, listed, reformatIndex, present, plan>>
      /\ root # "source" /\ root' = "storage" /\ load = "idle" /\ load' = "idle"
      /\ OnReturn(page') /\ resets = <<>>
  BY DEF BackNested, BackFromConfirm, CanTouch, ReviewOK, OfferOK, page
<1>2. Typed = {"reformat", "resize", "manual"}
  BY DEF Typed
<1>3. \A q \in Typed : OnTrail(q)' => OnTrail(q)
  <2>1. CASE BackFromConfirm
    BY <2>1 DEF BackFromConfirm, OnTrail
  <2>2. CASE BackNested
    <3>1. trail \in Seq(Page) /\ Len(trail) \in Nat \ {0} /\ trail' = Tail(trail) /\ page # "storage" /\ page = trail[1]
      BY <2>2 DEF BackNested, TypeOK, page
    <3>2. Len(trail) > 1
      BY <3>1 DEF TrailOK
    <3>3. Len(trail') = Len(trail) - 1 /\ \A i \in 1 .. Len(trail) - 1 : trail'[i] = trail[i + 1]
      BY <3>1, <3>2, TailTrail
    <3> QED
      BY <3>1, <3>3 DEF OnTrail
  <2> QED
    BY <2>1, <2>2
<1>4. (TypedOK /\ SourceOK)'
  BY <1>1, <1>2, <1>3 DEF TypedOK, SourceOK
<1>5. ManualPlanOK'
  BY <1>1, <1>2, <1>3 DEF ManualPlanOK, Incomplete
<1>6. ASSUME Decided' PROVE UNCHANGED guidedTarget /\ Decided /\ (OnTrail("manual") => OnTrail("manual")')
  <2>1. page' \in {"capabilities", "recovery", "passphrase"}
    BY <1>1, <1>6 DEF Decided
  <2>2. UNCHANGED guidedTarget
    BY <1>1, <2>1 DEF OnReturn, ResettingPage
  <2>3. CASE BackFromConfirm
    BY <2>2, <2>3 DEF BackFromConfirm, Decided, OnTrail
  <2>4. CASE BackNested
    <3>1. trail \in Seq(Page) /\ Len(trail) \in Nat \ {0} /\ trail' = Tail(trail) /\ page # "storage" /\ page = trail[1]
      BY <2>4 DEF BackNested, TypeOK, page
    <3>2. Len(trail) > 1
      BY <3>1 DEF TrailOK
    <3>3. /\ trail' # <<>> /\ Len(trail') = Len(trail) - 1
          /\ \A i \in 1 .. Len(trail) - 1 : trail'[i] = trail[i + 1]
      BY <3>1, <3>2, TailTrail
    <3>4. page' = trail[2]
      BY <3>1, <3>2, <3>3 DEF page
    <3>5. page \notin Typed
      BY <2>1, <3>2, <3>4, TypedPages DEF TrailOK
    <3>6. page \in Page
      BY <3>1, HeadTailProperties DEF page
    <3>7. Decided
      BY <1>2, <3>1, <3>5, <3>6 DEF Decided, Page
    <3>8. ASSUME OnTrail("manual") PROVE OnTrail("manual")'
      <4>1. PICK i \in 1 .. Len(trail) : trail[i] = "manual"
        BY <3>8 DEF OnTrail
      <4>2. i # 1
        BY <1>2, <3>1, <3>5, <4>1
      <4>3. i - 1 \in 1 .. Len(trail) - 1 /\ i - 1 + 1 = i
        BY <3>1, <4>1, <4>2
      <4>4. trail'[i - 1] = "manual"
        BY <3>3, <4>1, <4>3
      <4> QED
        BY <3>3, <4>3, <4>4 DEF OnTrail
    <3> QED
      BY <2>2, <3>7, <3>8
  <2> QED
    BY <2>3, <2>4
<1>7. ChosenOK'
  <2>1. Selectable(type)' <=> Selectable(type)
    BY <1>1 DEF Selectable
  <2>2. UNCHANGED guidedTarget => (TargetFits' <=> TargetFits)
    BY <1>1 DEF TargetFits
  <2> QED
    BY <1>1, <1>6, <2>1, <2>2 DEF ChosenOK
<1> QED
  BY <1>4, <1>5, <1>7

\* The pages, the type and the target belong together.
SettledOK == TypedOK /\ SourceOK /\ ManualPlanOK /\ ChosenOK

\* One step per group of actions; those that touch the choice have a lemma each.
LEMMA SettledStep ==
  ASSUME UserWaits, SameDisks, IInv, PatientOK, SettledOK, [Next]_vars
  PROVE  SettledOK'
<1> USE DEF IInv, PatientOK, SettledOK, serviceVars, pageVars, navVars, serverVars
<1>1. Typed = {"reformat", "resize", "manual"}
  BY DEF Typed
<1>2. page = "storage" => ~OnTrail("reformat") /\ ~OnTrail("resize") /\ ~OnTrail("manual")
  BY <1>1, TypedPages
\* Steps that leave the pages and what they have collected alone.
<1>3. ASSUME UNCHANGED <<type, targets, listed, reformatIndex, trail, present>>,
             root # "source" \/ root' = "source",
             TypedOK
      PROVE  (TypedOK /\ SourceOK)'
  BY <1>3 DEF TypedOK, SourceOK, OnTrail
<1>4. ASSUME UNCHANGED <<type, targets, trail, guidedTarget, plan>>, Decided' => Decided
      PROVE  ChosenOK'
  <2>1. Selectable(type)' <=> Selectable(type)
    BY <1>4 DEF Selectable
  <2>2. TargetFits' <=> TargetFits
    BY <1>4 DEF TargetFits
  <2> QED
    BY <1>4, <2>1, <2>2 DEF ChosenOK, OnTrail
<1>5. ASSUME UNCHANGED <<trail, plan, resets>>, incomplete' \in {incomplete, Incomplete(plan)}
      PROVE  ManualPlanOK'
  BY <1>5 DEF ManualPlanOK, OnTrail, Incomplete
<1>6. CASE NextButton
  BY <1>6, StorageChosen, DiskChosen, PageChosen DEF NextButton
<1>7. CASE BackNested \/ BackFromConfirm
  BY <1>7, BackChosen
<1>8. CASE ChangeSource
  <2>1. page = "storage" /\ page' = "storage" /\ load' = "idle" /\ root' = "source"
    BY <1>8 DEF ChangeSource, CanTouch, TopOK, page
  <2>2. ~OnTrail("reformat")' /\ ~OnTrail("resize")' /\ ~OnTrail("manual")'
    BY <1>2, <1>8, <2>1 DEF ChangeSource, OnTrail
  <2>3. ~Decided'
    BY <2>1 DEF Decided
  <2> QED
    BY <1>8, <2>1, <2>2, <2>3 DEF ChangeSource, TypedOK, SourceOK, ManualPlanOK, ChosenOK
<1>9. CASE EnterStorage
  <2>1. ~OnTrail("reformat")' /\ ~OnTrail("resize")' /\ ~OnTrail("manual")'
    BY <1>9 DEF EnterStorage, OnTrail
  <2>2. page' = "storage" /\ load' = "idle" /\ root' = "storage"
    BY <1>9 DEF EnterStorage, CanGoOn, page
  <2>3. ~Decided'
    BY <2>2 DEF Decided
  <2>4. targets' \subseteq present
    BY <1>9 DEF EnterStorage, Offered
  <2> QED
    BY <1>9, <2>1, <2>2, <2>3, <2>4 DEF EnterStorage, TypedOK, SourceOK, ManualPlanOK, ChosenOK
<1>10. CASE \E t \in StorageType : SelectType(t)
  <2>1. page = "storage" /\ page' = "storage" /\ load' = "idle" /\ root' = "storage"
    BY <1>10 DEF SelectType, OnPage, CanTouch, page
  <2>2. ~OnTrail("reformat")' /\ ~OnTrail("resize")' /\ ~OnTrail("manual")'
    BY <1>2, <1>10, <2>1 DEF SelectType, OnTrail
  <2>3. ~Decided'
    BY <2>1 DEF Decided
  <2> QED
    BY <1>10, <2>1, <2>2, <2>3 DEF SelectType, OnPage, TypedOK, SourceOK, ManualPlanOK, ChosenOK
<1>11. CASE \E i \in 0 .. Cardinality(Target) : SelectDisk(i)
  <2>1. PICK i \in 0 .. Cardinality(Target) : SelectDisk(i)
    BY <1>11
  <2>2. page = "reformat" /\ i < Cardinality(listed)
    BY <2>1 DEF SelectDisk, OnPage
  <2>3. present \in TargetSets /\ listed = Disks(present) /\ Cardinality(listed) > 1
    BY <1>1, <2>2, TypedPages DEF SourceOK
  <2>4. SourceOK' /\ TypedOK'
    BY <2>1, <2>2, <2>3 DEF SelectDisk, SourceOK, TypedOK, OnTrail
  <2>5. ManualPlanOK' /\ ChosenOK'
    BY <1>4, <1>5, <2>1 DEF SelectDisk, Decided, page
  <2> QED
    BY <2>4, <2>5
<1>12. CASE \E h \in {"partial", "manual"} : EditPartitions(h)
  <2>1. PICK h \in {"partial", "manual"} : EditPartitions(h)
    BY <1>12
  <2>2. page' = "manual" /\ load' = "idle" /\ root' = "storage" /\ root = "storage"
    BY <2>1 DEF EditPartitions, OnPage, CanTouch, page
  <2>3. ~Decided'
    BY <2>2 DEF Decided
  <2>4. TypedOK' /\ SourceOK'
    BY <1>3, <2>1, <2>2 DEF EditPartitions
  <2>5. plan'.how = h /\ incomplete' = Incomplete(plan')
    BY <2>1 DEF EditPartitions, Unguided
  <2>6. ManualPlanOK'
    BY <2>5 DEF ManualPlanOK, Incomplete
  <2> QED
    BY <2>3, <2>4, <2>6 DEF ChosenOK
<1>13. CASE \/ \E c \in Capability : SelectCapability(c)
            \/ \E b \in BOOLEAN : ConfirmRecoveryKey(b)
            \/ ClickInstall \/ StartInstallation \/ BackToSource
  <2>1. /\ UNCHANGED <<type, targets, listed, reformatIndex, trail, present, guidedTarget, plan, resets, incomplete, load>>
        /\ root # "source" /\ root' # "confirm"
    BY <1>13 DEF SelectCapability, ConfirmRecoveryKey, ClickInstall, StartInstallation, BackToSource, OnPage
  <2>2. Decided' => Decided
    BY <2>1 DEF Decided, page
  <2> QED
    BY <1>3, <1>4, <1>5, <2>1, <2>2
<1>14. CASE ServeReset
  <2>1. root = "storage" /\ load = "idle" /\ page \in ResettingPage /\ UNCHANGED <<root, load, trail>>
    BY <1>14 DEF ServeReset, QuietOK
  <2>2. ~Decided'
    BY <2>1 DEF Decided, ResettingPage, page
  <2>3. plan' = NoPlan /\ incomplete' = TRUE /\ NoPlan.how = "none"
    BY <1>14 DEF ServeReset, NoPlan, Unguided
  <2>4. ~(OnTrail("resize") /\ OnTrail("reformat"))
    BY <1>1, TypedPages
  <2>5. OnTrail("reformat") => UNCHANGED listed
    BY <1>14, <2>4 DEF ServeReset
  <2>6. TypedOK' /\ SourceOK'
    BY <1>14, <2>1, <2>5 DEF ServeReset, TypedOK, SourceOK, OnTrail
  <2>7. ManualPlanOK'
    BY <2>3 DEF ManualPlanOK, Incomplete
  <2> QED
    BY <2>2, <2>6, <2>7 DEF ChosenOK
<1>15. CASE Load
  <2>1. /\ root = "storage" /\ load # "idle" /\ resets = <<>>
        /\ UNCHANGED <<type, targets, listed, reformatIndex, trail, present, guidedTarget, resets>>
    BY <1>15 DEF Load, CheckTarget, ResetPlan, BuildChoice, PostGuided, PostStorage, FetchStorage, ShowConfirm,
                 LoadFails, ReviewOK
  <2>2. TypedOK' /\ SourceOK' /\ Decided
    BY <1>3, <2>1 DEF Decided
  <2>3. CASE UNCHANGED plan /\ incomplete' \in {incomplete, Incomplete(plan)}
    BY <1>4, <1>5, <2>1, <2>2, <2>3
  <2>4. CASE load \in {"reset", "guided"}
    <3>1. ~OnTrail("manual") /\ ~OnTrail("manual")'
      BY <2>1, <2>4 DEF ManualOK, OnTrail
    <3>2. (Selectable(type)' <=> Selectable(type)) /\ (TargetFits' <=> TargetFits)
      BY <2>1 DEF Selectable, TargetFits
    <3> QED
      BY <2>1, <2>2, <3>1, <3>2 DEF ChosenOK, ManualPlanOK
  <2> QED
    BY <1>15, <2>3, <2>4 DEF Load, CheckTarget, ResetPlan, BuildChoice, PostGuided, PostStorage, FetchStorage, ShowConfirm
<1>16. CASE UNCHANGED vars
  BY <1>3, <1>4, <1>5, <1>16 DEF vars, Decided, page
<1> QED
  BY <1>6, <1>7, <1>8, <1>9, <1>10, <1>11, <1>12, <1>13, <1>14, <1>15, <1>16 DEF Next, Forward, Backward, NextButton

\* The page that shows the review shows what was chosen.
LEMMA SettledReview ==
  ASSUME IInv, PatientOK, SettledOK
  PROVE  ReviewedIsChosen
<1> SUFFICES ASSUME root = "confirm", Selectable(type)
             PROVE  IF type = "manual" THEN reviewed.how = "manual"
                    ELSE /\ reviewed.how = "guided"
                         /\ reviewed.target = guidedTarget
                         /\ reviewed.cap = guidedCapability \/ guidedCapability = None
                         /\ reviewed.pass = passphrase
                         /\ TargetFits
  BY DEF ReviewedIsChosen, TargetFits
<1>1. Decided /\ reviewed = plan
  BY DEF Decided, PatientOK, ReviewOK
<1>2. CASE type = "manual"
  BY <1>1, <1>2 DEF SettledOK, ChosenOK
<1>3. CASE type # "manual"
  <2>1. TargetFits /\ guidedTarget # None
    BY <1>1, <1>3 DEF SettledOK, ChosenOK, TargetFits
  <2>2. plan = Chosen
    BY <2>1 DEF PatientOK, MadeOK
  <2>3. plan = [how |-> "guided", target |-> guidedTarget,
                cap |-> IF guidedCapability = None THEN Head(Allowed[guidedTarget]) ELSE guidedCapability,
                pass |-> passphrase]
    BY <2>1, <2>2 DEF Chosen
  <2> QED
    BY <1>1, <1>3, <2>1, <2>3
<1> QED
  BY <1>2, <1>3

\* What the confirm page shows to a user who waits is what he has chosen on the
\* pages before: his own partitions, or the target of the selected type with the
\* capability and the passphrase.  The index selected on the reformat page
\* outlives a change of the source, hence SameDisks.
THEOREM ReviewChosen ==
  ASSUME UserWaits, SameDisks
  PROVE  Spec => []ReviewedIsChosen
<1>1. Init => SettledOK
  <2> SUFFICES ASSUME Init PROVE SettledOK
    OBVIOUS
  <2>1. page = "storage" /\ ~OnTrail("reformat") /\ ~OnTrail("resize") /\ ~OnTrail("manual")
    BY DEF Init, page, OnTrail
  <2>2. ~Decided
    BY <2>1 DEF Init, Decided
  <2> QED
    BY <2>1, <2>2 DEF Init, SettledOK, TypedOK, SourceOK, ManualPlanOK, ChosenOK
<1>2. IInv /\ PatientOK /\ SettledOK /\ [Next]_vars => SettledOK'
  BY SettledStep
<1>3. IInv /\ PatientOK /\ SettledOK => ReviewedIsChosen
  BY SettledReview
<1> QED
  BY <1>1, <1>2, <1>3, Invariance, PatientInductive, PTL DEF Spec
=============================================================================
