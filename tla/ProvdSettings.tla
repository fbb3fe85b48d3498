--------------------------- MODULE ProvdSettings ---------------------------
(***************************************************************************)
(* The services of provd that keep one value each: locale, keyboard, time  *)
(* zone, telemetry, and the switches of accessibility and privacy.  Every  *)
(* request is handled in a goroutine of its own, so that requests overlap  *)
(* in any order; GetKeyboard reads three properties one after the other.   *)
(* The client awaits one request at a time; of the others it drops the     *)
(* answers.                                                                *)
(***************************************************************************)
EXTENDS ProvdApi, Naturals

CONSTANTS
  Locales,      \* values of LANG
  Supported,    \* those that /usr/share/i18n/SUPPORTED lists
  Readable,     \* those in which GetLocale finds a name
  Territorial,  \* those in which GetKeyboard finds a language
  Layouts, Variants,  \* codes, as stored by locale1
  Timezones,    \* values of the time zone
  Listed,       \* those that timedate1 lists
  Options,      \* the switches that clients use
  None,         \* no argument, no value
  MaxLoose,     \* bound on the requests that nobody awaits
  Faults        \* whether provd and the services behind it may fail

ASSUME SettingsAssumption ==
  /\ Supported \subseteq Locales
  /\ Readable \subseteq Locales
  /\ Territorial \subseteq Locales
  /\ Listed \subseteq Timezones
  /\ Options \subseteq Switches
  /\ MaxLoose \in Nat
  /\ Faults \in BOOLEAN

VARIABLES
  locale, x11, timezone,  \* of locale1 and timedate1
  sources,    \* the input source of the session
  gsettings,  \* what is stored at each key
  reported,   \* what the metrics server was told
  requests,   \* the requests under way
  faulted     \* something failed that is neither provd's nor the client's doing (history)

stored == <<locale, x11, timezone, sources, gsettings, reported>>
provdVars == <<stored, requests, faulted>>

Keyboards == Layouts \X Variants
Keys == {Switch(o).key : o \in Options}
Values == UNION {{Switch(o).on, Switch(o).off} : o \in Options}

Awaited == 0
Slots == 0..MaxLoose

\* A request: its handler has not begun, has read the layout or both parts of
\* the keyboard, or it is answered and the client has yet to notice.
Request(op, arg) == [op |-> op, arg |-> arg, pc |-> "sent", value |-> None]
NoRequest == Request("none", None)

Free == {s \in Slots \ {Awaited} : requests[s] = NoRequest}
Quiet == \A s \in Slots : requests[s] = NoRequest

------------------------------------------------------------------------------
Handling(s, op, pc) == requests[s].op = op /\ requests[s].pc = pc

Answer(s, pc, value) ==
  requests' = [requests EXCEPT ![s] =
                 IF s = Awaited THEN [@ EXCEPT !.pc = pc, !.value = value] ELSE NoRequest]

Reject(s) == Answer(s, "error", None) /\ UNCHANGED <<stored, faulted>>

\* The handler ends after its effect; that the client hears of it may fail.
Finish(s) ==
  \/ Answer(s, "ok", None) /\ UNCHANGED faulted
  \/ Faults /\ Answer(s, "error", None) /\ faulted' = TRUE

\* A call to a service behind provd, or provd itself, fails before the effect.
Fail(s) ==
  /\ Faults
  /\ requests[s] # NoRequest
  /\ requests[s].pc \notin {"ok", "error"}
  /\ faulted' = TRUE
  /\ Answer(s, "error", None)
  /\ UNCHANGED stored

\* Mutant: the name is looked for with a territory, which C does not have.
GetLocaleTerritorial(s) ==
  /\ Handling(s, "GetLocale", "sent")
  /\ \/ locale \in Territorial /\ Answer(s, "ok", locale) /\ UNCHANGED <<stored, faulted>>
     \/ locale \notin Territorial /\ Reject(s)

GetLocale(s) ==
  /\ Handling(s, "GetLocale", "sent")
  /\ \/ locale \in Readable /\ Answer(s, "ok", locale) /\ UNCHANGED <<stored, faulted>>
     \/ locale \notin Readable /\ Reject(s)

SetLocale(s) ==
  /\ Handling(s, "SetLocale", "sent")
  /\ \/ requests[s].arg \notin Supported /\ Reject(s)
     \/ /\ requests[s].arg \in Supported
        /\ locale' = requests[s].arg
        /\ Finish(s)
        /\ UNCHANGED <<x11, timezone, sources, gsettings, reported>>

Read(s, pc, value) ==
  /\ requests' = [requests EXCEPT ![s].pc = pc, ![s].value = value]
  /\ UNCHANGED <<stored, faulted>>

\* A locale that cannot be read counts as C; one that has no language does
\* not.  Every list of names has the same layouts.
GetKeyboard(s) ==
  \/ Handling(s, "GetKeyboard", "sent") /\ Read(s, "layout", x11[1])
  \/ Handling(s, "GetKeyboard", "layout") /\ Read(s, "variant", <<requests[s].value, x11[2]>>)
  \/ /\ Handling(s, "GetKeyboard", "variant")
     /\ \/ /\ locale \in Territorial \/ Faults
           /\ Answer(s, "ok", requests[s].value)
           /\ UNCHANGED <<stored, faulted>>
        \/ locale \notin Territorial /\ Reject(s)

\* Model and options are read and written back: nothing else changes them.
SetKeyboard(s) ==
  /\ Handling(s, "SetKeyboard", "sent")
  /\ x11' = requests[s].arg
  /\ Finish(s)
  /\ UNCHANGED <<locale, timezone, sources, gsettings, reported>>

SetInputSource(s) ==
  /\ Handling(s, "SetInputSource", "sent")
  /\ sources' = requests[s].arg
  /\ Finish(s)
  /\ UNCHANGED <<locale, x11, timezone, gsettings, reported>>

\* Mutant: reduced motion is read like the key behind it.
IsOnUnnegated(o) == gsettings[Switch(o).key] \in {"true", "1.25"}

IsOn(o) == gsettings[Switch(o).key] = Switch(o).on

GetSwitch(s) ==
  /\ Handling(s, "Get", "sent")
  /\ Answer(s, "ok", IsOn(requests[s].arg))
  /\ UNCHANGED <<stored, faulted>>

SetSwitch(s) ==
  /\ \E verb \in {"Enable", "Disable"} :
       /\ Handling(s, verb, "sent")
       /\ LET switch == Switch(requests[s].arg)
          IN  gsettings' = [gsettings EXCEPT ![switch.key] =
                              IF verb = "Enable" THEN switch.on ELSE switch.off]
  /\ Finish(s)
  /\ UNCHANGED <<locale, x11, timezone, sources, reported>>

GetTimezone(s) ==
  /\ Handling(s, "GetTimezone", "sent")
  /\ Answer(s, "ok", timezone)
  /\ UNCHANGED <<stored, faulted>>

SetTimezone(s) ==
  /\ Handling(s, "SetTimezone", "sent")
  /\ \/ requests[s].arg \notin Listed /\ Reject(s)
     \/ /\ requests[s].arg \in Listed
        /\ timezone' = requests[s].arg
        /\ Finish(s)
        /\ UNCHANGED <<locale, x11, sources, gsettings, reported>>

\* A report that could not be sent is a kind of answer.
SendReport(s) ==
  /\ \E op \in {"CollectAndSend", "SendDecline"} :
       /\ Handling(s, op, "sent")
       /\ reported' = op
  /\ Finish(s)
  /\ UNCHANGED <<locale, x11, timezone, sources, gsettings>>

ReportFails(s) ==
  /\ Faults
  /\ requests[s].op \in {"CollectAndSend", "SendDecline"}
  /\ requests[s].pc = "sent"
  /\ faulted' = TRUE
  /\ Answer(s, "ok", "UNKNOWN_ERROR")
  /\ UNCHANGED stored

Serve(s) ==
  \/ GetLocale(s) \/ SetLocale(s)
  \/ GetKeyboard(s) \/ SetKeyboard(s) \/ SetInputSource(s)
  \/ GetSwitch(s) \/ SetSwitch(s)
  \/ GetTimezone(s) \/ SetTimezone(s)
  \/ SendReport(s) \/ ReportFails(s)
  \/ Fail(s)
=============================================================================
