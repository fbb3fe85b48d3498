------------------------------ MODULE ProvdApi ------------------------------
(***************************************************************************)
(* What provd offers on its socket: the services that its manager makes,   *)
(* what each of them needs before it is registered, the methods that gRPC  *)
(* routes to it, and the GSettings key behind each switch of the services  *)
(* for accessibility and privacy.                                          *)
(***************************************************************************)

UserMethods == {"CreateUser", "ValidateUsername"}
LocaleMethods == {"GetLocale", "SetLocale"}
KeyboardMethods == {"GetKeyboard", "SetKeyboard", "SetInputSource"}
TimezoneMethods == {"GetTimezone", "SetTimezone"}
TelemetryMethods == {"Collect", "CollectAndSend", "SendDecline"}
GdmMethods == {"LaunchDesktopSession"}

\* Described for clients, but no service of provd implements them.
ProMethods == {"ProMagicAttach", "ProAttach", "ProStatus"}
ChownMethods == {"ChownSettings"}
EulaMethods == {"AcceptEula"}
ThemeMethods == {"SetTheme", "GetTheme", "SetAccent", "GetAccent"}
AdMethods ==
  {"HasSupport", "IsUsed", "SetUsed", "GetConnectionInfo", "SetConnectionInfo", "CheckDomainName",
   "CheckAdminName", "CheckPassword", "PingDomainController", "GetJoinResult"}

------------------------------------------------------------------------------
\* A switch: where it is stored, and what is stored when it is on and off.
Key(schema, name, on, off) == [key |-> <<schema, name>>, on |-> on, off |-> off]

Seeing ==
  [HighContrast  |-> Key("a11y.interface", "high-contrast", "true", "false"),
   ReducedMotion |-> Key("interface", "enable-animations", "false", "true"),
   LargeText     |-> Key("interface", "text-scaling-factor", "1.25", "1.0"),
   ScreenReader  |-> Key("a11y.applications", "screen-reader-enabled", "true", "false")]

Hearing ==
  [VisualAlerts |-> Key("wm.preferences", "visual-bell", "true", "false")]

Typing ==
  [ScreenKeyboard |-> Key("a11y.applications", "screen-keyboard-enabled", "true", "false"),
   StickyKeys     |-> Key("a11y.keyboard", "stickykeys-enable", "true", "false"),
   SlowKeys       |-> Key("a11y.keyboard", "slowkeys-enable", "true", "false")]

Pointing ==
  [MouseKeys |-> Key("a11y.keyboard", "mousekeys-enable", "true", "false")]

Zoom ==
  [DesktopZoom |-> Key("a11y.applications", "screen-magnifier-enabled", "true", "false")]

Privacy ==
  [LocationServices |-> Key("system.location", "enabled", "true", "false")]

Groups == {Seeing, Hearing, Typing, Pointing, Zoom, Privacy}
Switches == UNION {DOMAIN g : g \in Groups}

\* Mutant: high contrast is stored with the key of reduced motion.
SwitchWithCopiedKey(s) ==
  IF s = "HighContrast" THEN Seeing["ReducedMotion"]
  ELSE (CHOOSE g \in Groups : s \in DOMAIN g)[s]

Switch(s) == (CHOOSE g \in Groups : s \in DOMAIN g)[s]

Verbs == {"Get", "Enable", "Disable"}
SeeingMethods == Verbs \X DOMAIN Seeing
HearingMethods == Verbs \X DOMAIN Hearing
TypingMethods == Verbs \X DOMAIN Typing
PointingMethods == Verbs \X DOMAIN Pointing
ZoomMethods == Verbs \X DOMAIN Zoom
PrivacyMethods == Verbs \X DOMAIN Privacy
AccessibilityMethods ==
  UNION {SeeingMethods, HearingMethods, TypingMethods, PointingMethods, ZoomMethods}

\* What the manager registers, and which methods gRPC finds there.
Methods ==
  [user |-> UserMethods, locale |-> LocaleMethods, keyboard |-> KeyboardMethods,
   privacy |-> PrivacyMethods, timezone |-> TimezoneMethods,
   accessibility |-> AccessibilityMethods, gdm |-> GdmMethods, telemetry |-> TelemetryMethods]

\* What a client may ask for and nobody registers.
Unserved ==
  [pro |-> ProMethods, chown |-> ChownMethods, eula |-> EulaMethods,
   theme |-> ThemeMethods, ad |-> AdMethods]

Calls == UNION {{s} \X Methods[s] : s \in DOMAIN Methods} \cup UNION {{s} \X Unserved[s] : s \in DOMAIN Unserved}

------------------------------------------------------------------------------
\* What New of a service pings, dials or asks whether it is writable.
UserNeeds == {"Accounts", "hostname1"}
LocaleNeeds == {"locale1"}
KeyboardNeeds == {"locale1", "input-sources"}
PrivacyNeeds == {"system.location"}
TimezoneNeeds == {"timedate1"}
AccessibilityNeeds ==
  {"a11y.interface", "a11y.applications", "interface", "wm.preferences", "a11y.keyboard"}
\* The verifier and the greeter answer on the bus whose address the display
\* manager gives away.
GdmNeeds == {"DisplayManager", "UserVerifier", "Greeter"}
TelemetryNeeds == {}

Needs ==
  [user |-> UserNeeds, locale |-> LocaleNeeds, keyboard |-> KeyboardNeeds,
   privacy |-> PrivacyNeeds, timezone |-> TimezoneNeeds,
   accessibility |-> AccessibilityNeeds, gdm |-> GdmNeeds, telemetry |-> TelemetryNeeds]

Services == DOMAIN Needs
Externals == UNION {Needs[s] : s \in Services}

\* A manager does without the service for GDM only.
Optional == {"gdm"}
=============================================================================
