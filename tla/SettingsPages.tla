--------------------------- MODULE SettingsPages ---------------------------
(***************************************************************************)
(* The pages of the first-boot wizard that show and set what provd keeps:  *)
(* locale, accessibility, keyboard, time zone and telemetry.  A page is    *)
(* loaded before it is shown and saves its selection on Next; switches and *)
(* input sources are set at once, and nobody waits for the answer.  A page *)
(* goes on reacting while it saves and while the next one is loaded.       *)
(***************************************************************************)
EXTENDS ProvdSettings

CONSTANTS
  Languages,    \* the list of the locale page
  NameOf,       \* the locale that is set for a language
  InitialLocales, InitialKeyboards, InitialTimezones,
  VariantsOf,   \* the variants of a layout
  FirstVariant, \* the first of them
  Located,      \* the time zones that the map has
  MaxActive     \* bound on how often an option is in the list

ASSUME PagesAssumption ==
  /\ NameOf \in [Languages -> Locales]
  /\ InitialLocales \subseteq Readable
  /\ InitialKeyboards \subseteq Keyboards
  /\ InitialTimezones \subseteq Timezones
  /\ \A l \in DOMAIN VariantsOf : l \in Layouts /\ FirstVariant[l] \in VariantsOf[l] /\ VariantsOf[l] \subseteq Variants
  /\ Located \subseteq Timezones
  /\ None \notin Layouts \cup Variants \cup Timezones
  /\ Languages # {} /\ Options # {}
  /\ MaxActive \in Nat \ {0}

\* A name that a locale is listed for has a territory, and so a language.
ASSUME LanguagesAssumption ==
  \A l \in Languages : NameOf[l] \in Supported => NameOf[l] \in Territorial

VARIABLES
  hidden,    \* the image hides the accessibility page
  patient,   \* the user waits until nothing is under way
  page,      \* the page that is shown
  doing,     \* of its Next button: "idle", "saving", "loading" or "stuck"
  todo,      \* what the next page has yet to ask for
  language,  \* selected, like the next three
  keyboard,  \* layout and variant
  location,  \* by its time zone
  enabled,   \* the choice about telemetry
  active     \* how often each option is in the list of active ones

selectedVars == <<language, keyboard, location, enabled, active>>
pageVars == <<page, doing, todo>>
vars == <<provdVars, hidden, patient, pageVars, selectedVars>>

\* Network, licence, identity and Ubuntu Pro are one page here.
Pages == {"start", "locale", "accessibility", "keyboard", "others", "timezone", "telemetry", "done", "error"}

Following ==
  [start |-> "locale",
   locale |-> IF hidden THEN "keyboard" ELSE "accessibility",
   accessibility |-> "keyboard",
   keyboard |-> "others",
   others |-> "timezone",
   timezone |-> "telemetry"]

Previous == [accessibility |-> "locale",
             keyboard |-> IF hidden THEN "locale" ELSE "accessibility",
             others |-> "keyboard"]

Init ==
  /\ locale \in InitialLocales
  /\ x11 \in InitialKeyboards
  /\ timezone \in InitialTimezones
  /\ sources = None
  /\ gsettings \in [Keys -> Values]
  /\ \A o \in Options : gsettings[Switch(o).key] \in {Switch(o).on, Switch(o).off}
  /\ reported = None
  /\ requests = [s \in Slots |-> IF s = Awaited THEN Request("GetLocale", None) ELSE NoRequest]
  /\ faulted = FALSE
  /\ hidden \in BOOLEAN
  /\ patient \in BOOLEAN
  /\ page = "start"
  /\ doing = "loading"
  /\ todo = {}
  /\ language = CHOOSE l \in Languages : TRUE
  /\ keyboard = <<None, None>>
  /\ location = None
  /\ enabled = TRUE
  /\ active = [o \in Options |-> 0]

------------------------------------------------------------------------------
\* Loading.  What a page asks for first, and what else.
FirstCall(p) ==
  CASE p = "accessibility" -> Request("Get", CHOOSE o \in Options : TRUE)
    [] p = "keyboard" -> Request("GetKeyboard", None)
    [] p = "timezone" -> Request("GetTimezone", None)
    [] OTHER -> NoRequest

OtherCalls(p) ==
  CASE p = "accessibility" -> Options \ {FirstCall(p).arg}
    [] p = "keyboard" -> {"setting"}
    [] OTHER -> {}

Show(p) ==
  /\ page' = p
  /\ doing' = "idle"
  /\ todo' = {}
  /\ requests' = [requests EXCEPT ![Awaited] = NoRequest]

Ask(request, rest) ==
  /\ doing' = "loading"
  /\ todo' = rest
  /\ requests' = [requests EXCEPT ![Awaited] = request]
  /\ UNCHANGED page

\* The following page is loaded, or has nothing to load.
Load(p) ==
  \/ FirstCall(p) = NoRequest /\ Show(p)
  \/ FirstCall(p) # NoRequest /\ Ask(FirstCall(p), OtherCalls(p))

Answered(op) == doing = "loading" /\ Handling(Awaited, op, "ok")

Value == requests[Awaited].value

\* The first answer only serves the list of layouts.
LoadLayouts ==
  /\ Answered("GetKeyboard")
  /\ todo # {}
  /\ Ask(Request("GetKeyboard", None), {})
  /\ UNCHANGED selectedVars

\* A layout that is not in the list leaves the variant as it was.
KeyboardOf(setting) ==
  IF setting[1] \notin DOMAIN VariantsOf THEN <<None, keyboard[2]>>
  ELSE <<setting[1], IF setting[2] \in VariantsOf[setting[1]] THEN setting[2] ELSE None>>

\* A variant that is not selected is sent as an empty one, here the first.
InputSource(k) == <<k[1], IF k[2] = None THEN FirstVariant[k[1]] ELSE k[2]>>

\* Mutant: the source of the session is left as it is.
LoadSettingOnly ==
  /\ Answered("GetKeyboard")
  /\ todo = {}
  /\ keyboard' = KeyboardOf(Value)
  /\ Show("keyboard")
  /\ UNCHANGED <<language, location, enabled, active>>

LoadSetting ==
  /\ Answered("GetKeyboard")
  /\ todo = {}
  /\ keyboard' = KeyboardOf(Value)
  /\ \/ keyboard'[1] = None /\ Show("keyboard")
     \/ keyboard'[1] # None /\ Ask(Request("SetInputSource", InputSource(keyboard')), {})
  /\ UNCHANGED <<language, location, enabled, active>>

UpdatedInputSource ==
  /\ Answered("SetInputSource")
  /\ Show("keyboard")
  /\ UNCHANGED selectedVars

\* The language with this name, or the best match.
LoadLanguage ==
  /\ Answered("GetLocale")
  /\ language' \in IF \E l \in Languages : NameOf[l] = Value
                   THEN {l \in Languages : NameOf[l] = Value} ELSE Languages
  /\ Show("locale")
  /\ UNCHANGED <<keyboard, location, enabled, active>>

\* An active option is appended to the list, whatever is in it already.
LoadOption ==
  /\ Answered("Get")
  /\ active' = [active EXCEPT ![requests[Awaited].arg] = IF Value THEN @ + 1 ELSE @]
  /\ \/ todo = {} /\ Show("accessibility")
     \/ todo # {} /\ LET o == CHOOSE o \in todo : TRUE IN Ask(Request("Get", o), todo \ {o})
  /\ UNCHANGED <<language, keyboard, location, enabled>>

\* The first hit of a fuzzy search, whose ranking is external: any place, or none.
LoadTimezone ==
  /\ Answered("GetTimezone")
  /\ location' \in Located \cup {None}
  /\ Show("timezone")
  /\ UNCHANGED <<language, keyboard, enabled, active>>

\* Mutant: the wizard has no page for errors.
LoadFailsQuietly ==
  /\ doing = "loading"
  /\ requests[Awaited].pc = "error"
  /\ requests' = [requests EXCEPT ![Awaited] = NoRequest]
  /\ UNCHANGED <<pageVars, selectedVars>>

LoadFails ==
  /\ doing = "loading"
  /\ requests[Awaited].pc = "error"
  /\ Show("error")
  /\ UNCHANGED selectedVars

Loading ==
  \/ LoadLanguage \/ LoadOption \/ LoadLayouts \/ LoadSetting \/ UpdatedInputSource
  \/ LoadTimezone \/ LoadFails

------------------------------------------------------------------------------
\* Saving.  Only the page of telemetry does not mind a failure.
Saved ==
  /\ doing = "saving"
  /\ \/ requests[Awaited].pc = "ok" /\ page # "telemetry" /\ Load(Following[page])
     \/ requests[Awaited].pc \in {"ok", "error"} /\ page = "telemetry" /\ Show("done")
  /\ UNCHANGED selectedVars

SaveFails ==
  /\ doing = "saving"
  /\ requests[Awaited].pc = "error"
  /\ page # "telemetry"
  /\ doing' = "stuck"
  /\ requests' = [requests EXCEPT ![Awaited] = NoRequest]
  /\ UNCHANGED <<page, todo, selectedVars>>

Client == (Loading \/ Saved \/ SaveFails) /\ UNCHANGED <<stored, faulted, hidden, patient>>

------------------------------------------------------------------------------
\* The user.
May == patient => Quiet

Save(request) ==
  /\ doing = "idle"
  /\ May
  /\ doing' = "saving"
  /\ requests' = [requests EXCEPT ![Awaited] = request]
  /\ UNCHANGED <<page, todo, selectedVars>>

SaveLocale ==
  /\ page = "locale"
  /\ \A o \in Options : active[o] < MaxActive
  /\ Save(Request("SetLocale", NameOf[language]))

SaveKeyboard ==
  /\ page = "keyboard"
  /\ keyboard[1] # None
  /\ keyboard[2] # None
  /\ Save(Request("SetKeyboard", keyboard))

SaveTimezone ==
  /\ page = "timezone"
  /\ location # None
  /\ Save(Request("SetTimezone", location))

SaveTelemetry ==
  /\ page = "telemetry"
  /\ Save(Request(IF enabled THEN "CollectAndSend" ELSE "SendDecline", None))

\* The other pages save nothing here.
PassOn ==
  /\ page \in {"accessibility", "others"}
  /\ doing = "idle"
  /\ May
  /\ Load(Following[page])
  /\ UNCHANGED selectedVars

\* Back leaves a request under way; nothing is loaded.
Back ==
  /\ page \in DOMAIN Previous
  /\ doing # "loading"
  /\ May
  /\ page' = Previous[page]
  /\ doing' = "idle"
  /\ \/ doing # "saving" /\ UNCHANGED requests
     \/ /\ doing = "saving"
        /\ \E s \in Free :
             requests' = [requests EXCEPT ![Awaited] = NoRequest,
                            ![s] = IF requests[Awaited].pc = "sent" THEN requests[Awaited] ELSE NoRequest]
  /\ UNCHANGED <<todo, selectedVars>>

Send(request) ==
  /\ \E s \in Free : requests' = [requests EXCEPT ![s] = request]
  /\ UNCHANGED <<page, doing, todo>>

SelectLanguage(l) ==
  /\ page = "locale"
  /\ May
  /\ language' = l
  /\ UNCHANGED <<requests, pageVars, keyboard, location, enabled, active>>

ToggleOption(o) ==
  /\ page = "accessibility"
  /\ May
  /\ \/ active[o] > 0 /\ active' = [active EXCEPT ![o] = @ - 1] /\ Send(Request("Disable", o))
     \/ active[o] = 0 /\ active' = [active EXCEPT ![o] = @ + 1] /\ Send(Request("Enable", o))
  /\ UNCHANGED <<language, keyboard, location, enabled>>

Select(k) ==
  /\ page = "keyboard"
  /\ May
  /\ keyboard' = k
  /\ Send(Request("SetInputSource", InputSource(k)))
  /\ UNCHANGED <<language, location, enabled, active>>

SelectLayout(l) == keyboard[1] # l /\ Select(<<l, FirstVariant[l]>>)

SelectVariant(v) ==
  /\ keyboard[1] # None
  /\ v \in VariantsOf[keyboard[1]] \ {keyboard[2]}
  /\ Select(<<keyboard[1], v>>)

SelectLocation(t) ==
  /\ page = "timezone"
  /\ May
  /\ location' = t
  /\ UNCHANGED <<requests, pageVars, language, keyboard, enabled, active>>

SetEnabled(b) ==
  /\ page = "telemetry"
  /\ May
  /\ enabled' = b
  /\ UNCHANGED <<requests, pageVars, language, keyboard, location, active>>

User ==
  /\ \/ SaveLocale \/ SaveKeyboard \/ SaveTimezone \/ SaveTelemetry \/ PassOn \/ Back
     \/ \E l \in Languages : SelectLanguage(l)
     \/ \E o \in Options : ToggleOption(o)
     \/ \E l \in DOMAIN VariantsOf : SelectLayout(l)
     \/ \E v \in Variants : SelectVariant(v)
     \/ \E t \in Located : SelectLocation(t)
     \/ \E b \in BOOLEAN : SetEnabled(b)
  /\ UNCHANGED <<stored, faulted, hidden, patient>>

Provd == \E s \in Slots : Serve(s) /\ UNCHANGED <<hidden, patient, pageVars, selectedVars>>

Next == Provd \/ Client \/ User

\* Every request is answered, and the client goes on; the user need not.
Fairness ==
  /\ \A s \in Slots : WF_vars(Serve(s) /\ UNCHANGED <<hidden, patient, pageVars, selectedVars>>)
  /\ WF_vars(Client)

Spec == Init /\ [][Next]_vars /\ Fairness

------------------------------------------------------------------------------
Args(op) ==
  CASE op = "SetLocale" -> Locales
    [] op = "SetKeyboard" -> Keyboards
    [] op = "SetInputSource" -> Keyboards
    [] op \in {"Get", "Enable", "Disable"} -> Options
    [] op = "SetTimezone" -> Timezones
    [] op \in {"none", "GetLocale", "GetKeyboard", "GetTimezone", "CollectAndSend", "SendDecline"} -> {None}

TypeOK ==
  /\ locale \in Locales
  /\ x11 \in Keyboards
  /\ timezone \in Timezones
  /\ sources \in Keyboards \cup {None}
  /\ gsettings \in [Keys -> Values]
  /\ reported \in {None, "CollectAndSend", "SendDecline"}
  /\ \A s \in Slots :
       /\ requests[s].pc \in {"sent", "layout", "variant", "ok", "error"}
       /\ requests[s].arg \in Args(requests[s].op)
  /\ page \in Pages
  /\ doing \in {"idle", "saving", "loading", "stuck"}
  /\ todo \subseteq Options \cup {"setting"}
  /\ language \in Languages
  /\ keyboard \in (DOMAIN VariantsOf \cup {None}) \X (Variants \cup {None})
  /\ location \in Located \cup {None}
  /\ enabled \in BOOLEAN
  /\ active \in [Options -> 0..MaxActive]

\* The wizard comes to its error page only when something has failed.  The
\* keyboard page could do so by itself: provd reads the language from the
\* locale that the first page has set, and not every name has one.
ErrorNeedsFault == page = "error" => faulted

Behind(p) ==
  page \in CASE p = "keyboard" -> {"others", "timezone", "telemetry", "done"}
             [] p = "locale" -> {"accessibility", "keyboard", "others", "timezone", "telemetry", "done"}
             [] p = "timezone" -> {"telemetry", "done"}
             [] p = "telemetry" -> {"done"}

\* For a user who waits, whatever way he takes: what the pages behind him
\* show is what provd has stored, and the session's input source is the
\* keyboard shown.  Pages load their selection and save it with different
\* requests, and going back saves nothing.
SettingsAsShown ==
  (patient /\ ~faulted /\ Quiet) =>
     /\ Behind("locale") => locale = NameOf[language]
     /\ Behind("keyboard") => x11 = keyboard
     /\ (page = "keyboard" \/ Behind("keyboard")) /\ keyboard[1] # None => sources = InputSource(keyboard)
     /\ Behind("timezone") => timezone = location
     /\ Behind("telemetry") => reported = IF enabled THEN "CollectAndSend" ELSE "SendDecline"

On(o) == gsettings[Switch(o).key] = Switch(o).on

\* For a user who waits: an option that the accessibility page shows as
\* inactive is off, although the list is not cleared when it is loaded again.
OffIsOff ==
  (patient /\ ~faulted /\ Quiet /\ page = "accessibility") =>
     \A o \in Options : active[o] = 0 => ~On(o)

\* The same of the options that are shown as active, which is what the
\* comment on toggleOption promises: "Toggles the given [option]".
ShownIsOn ==
  (patient /\ ~faulted /\ Quiet /\ page = "accessibility") =>
     \A o \in Options : active[o] > 0 => On(o)

\* A switch is changed by its own requests only.
SwitchesIndependent ==
  [][\A o \in Options :
       On(o)' # On(o) =>
         \E s \in Slots : requests[s].arg = o /\ requests[s].op \in {"Enable", "Disable"} /\ requests'[s] # requests[s]]_vars

\* Next gets somewhere, the error page included, unless Back takes its place.
NextEnds == doing \in {"saving", "loading"} ~> doing \in {"idle", "stuck"}
=============================================================================
