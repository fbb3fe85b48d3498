------------------------ MODULE SettingsPagesProofs ------------------------
(***************************************************************************)
(* What the pages of the first-boot wizard can rely on, for any languages,  *)
(* keyboards, time zones and switches, and any number of requests under     *)
(* way: the error page needs a fault, and a user who waits is shown what is *)
(* stored.                                                                  *)
(***************************************************************************)
EXTENDS SettingsPages, TLAPS

\* The requests of a page that is loaded, of one that saves, and those that
\* nobody awaits: a save that was left, and what is set at once.
LoadOps == {"GetLocale", "GetKeyboard", "Get", "GetTimezone", "SetInputSource"}
ReportOps == {"CollectAndSend", "SendDecline"}
SaveOps == {"SetLocale", "SetKeyboard", "SetTimezone"} \cup ReportOps
LooseOps == {"none", "SetKeyboard", "SetInputSource", "Enable", "Disable"}

Answers == {None, "UNKNOWN_ERROR"} \cup Locales \cup Layouts \cup Keyboards \cup Timezones \cup BOOLEAN
Arguments == {None} \cup Locales \cup Keyboards \cup Options \cup Timezones

Current == requests[Awaited]
Loose == Slots \ {Awaited}

\* Which page asks for what, and with which answers.
RequestType ==
  [op: LoadOps \cup SaveOps \cup LooseOps, arg: Arguments,
   pc: {"sent", "layout", "variant", "ok", "error"}, value: Answers]

ShapeOK ==
  /\ requests \in [Slots -> RequestType]
  /\ doing = "loading" => Current.op \in LoadOps
  /\ doing = "saving" => Current.op \in SaveOps
  /\ doing \in {"idle", "stuck"} => Current = NoRequest
  /\ \A s \in Loose : requests[s].op \in LooseOps /\ requests[s].pc = "sent"
  /\ Current.op = "GetKeyboard" =>
       /\ Current.pc = "layout" => Current.value \in Layouts
       /\ Current.pc \in {"variant", "ok"} => Current.value \in Keyboards
       /\ todo \subseteq {"setting"}

PageOK ==
  /\ page = "start" <=> Current.op = "GetLocale"
  /\ page \in {"done", "error"} => doing = "idle"
  /\ Current.op = "GetTimezone" => page = "others"
  /\ Current.op \in {"GetKeyboard", "SetInputSource"} =>
       page = IF hidden THEN "locale" ELSE "accessibility"
  /\ Current.op = "Get" => page = "locale" /\ ~hidden /\ todo \subseteq Options \ {Current.arg}
  /\ Current.op = "SetLocale" => page = "locale" /\ Current.arg \in {NameOf[l] : l \in Languages}
  /\ Current.op = "SetKeyboard" => page = "keyboard"
  /\ Current.op = "SetTimezone" => page = "timezone"
  /\ Current.op \in ReportOps => page = "telemetry"
  /\ page = "accessibility" => ~hidden

\* An option that is yet to be loaded still fits into the list.
RoomOK ==
  /\ Current.op = "SetLocale" => \A o \in Options : active[o] < MaxActive
  /\ Current.op = "Get" => \A o \in todo \cup {Current.arg} : active[o] < MaxActive

\* The locale page has set a locale that has a language; behind it nothing
\* changes the locale.
LocaleIsSet == page \notin {"start", "locale", "error"} \/ (page = "locale" /\ doing = "loading")
LocaleJustSet == Current.op = "SetLocale" /\ Current.pc = "ok"

TerritoryOK ==
  /\ page = "start" => locale \in Readable
  /\ LocaleIsSet \/ LocaleJustSet => locale \in Territorial
  /\ doing = "loading" /\ ~faulted => Current.pc # "error"

IInv == TypeOK /\ ShapeOK /\ PageOK /\ RoomOK /\ TerritoryOK /\ ErrorNeedsFault

------------------------------------------------------------------------------
\* What a user who waits can rely on.
Pending(s) == requests[s] # NoRequest

OneAtATime ==
  /\ \A s, t \in Slots : Pending(s) /\ Pending(t) => s = t
  /\ \A s \in Loose : requests[s].op \in {"none", "SetInputSource", "Enable", "Disable"}

LocaleShown ==
  /\ Current.op = "SetLocale" => Current.arg = NameOf[language]
  /\ LocaleIsSet \/ LocaleJustSet => locale = NameOf[language]

KeyboardShown ==
  /\ Current.op = "SetKeyboard" => Current.arg = keyboard
  /\ (Current.op = "SetKeyboard" /\ Current.pc = "ok") \/ Behind("keyboard") => x11 = keyboard

SourceShown ==
  /\ Current.op = "SetInputSource" =>
       Current.arg = InputSource(keyboard) /\ (Current.pc = "ok" => sources = Current.arg)
  /\ \A s \in Loose : requests[s].op = "SetInputSource" => page = "keyboard" /\ requests[s].arg = InputSource(keyboard)
  /\ (page = "keyboard" \/ Behind("keyboard")) /\ keyboard[1] # None =>
       sources = InputSource(keyboard) \/ \E s \in Loose : requests[s].op = "SetInputSource"

TimezoneShown ==
  /\ Current.op = "SetTimezone" => Current.arg = location
  /\ (Current.op = "SetTimezone" /\ Current.pc = "ok") \/ Behind("timezone") => timezone = location

Choice == IF enabled THEN "CollectAndSend" ELSE "SendDecline"

ChoiceShown ==
  /\ Current.op \in ReportOps => Current.op = Choice /\ Current.pc # "error"
  /\ (Current.op \in ReportOps /\ Current.pc = "ok") \/ page = "done" => reported = Choice

\* The options that the accessibility page has loaded, also when it is behind.
Loaded(o) ==
  \/ page \notin {"start", "locale", "error"} /\ ~hidden
  \/ Current.op = "Get" /\ o \notin todo \cup {Current.arg}

OptionsShown ==
  /\ Current.op = "Get" /\ Current.pc = "ok" => Current.value = On(Current.arg)
  /\ \A s \in Loose : requests[s].op = "Enable" => active[requests[s].arg] > 0
  /\ \A o \in Options :
       Loaded(o) /\ active[o] = 0 /\ (\A s \in Loose : requests[s].op = "Disable" => requests[s].arg # o) => ~On(o)

Relied == OneAtATime /\ LocaleShown /\ KeyboardShown /\ SourceShown /\ TimezoneShown /\ ChoiceShown /\ OptionsShown

PatientOK == patient /\ ~faulted => Relied

------------------------------------------------------------------------------
(* Requests.                                                                *)

\* The slot of the awaited request is one of them.
LEMMA SlotsType == Awaited \in Slots /\ NoRequest \in RequestType
<1>1. MaxLoose \in Nat
  BY SettingsAssumption
<1> QED BY <1>1 DEF Slots, Awaited, NoRequest, Request, RequestType, Answers, Arguments, LooseOps

\* What an answer does to the requests.
Answered1(s, pc, value) ==
  /\ requests' \in [Slots -> RequestType]
  /\ \A t \in Slots : t # s => requests'[t] = requests[t]
  /\ s # Awaited => requests'[s] = NoRequest
  /\ s = Awaited => /\ requests'[s].op = requests[s].op
                    /\ requests'[s].arg = requests[s].arg
                    /\ requests'[s].pc = pc
                    /\ requests'[s].value = value

LEMMA AnswerEntry ==
  ASSUME NEW s \in Slots, NEW pc \in {"ok", "error"}, NEW value \in Answers,
         requests \in [Slots -> RequestType], Answer(s, pc, value)
  PROVE  Answered1(s, pc, value)
<1> DEFINE new == IF s = Awaited THEN [requests[s] EXCEPT !.pc = pc, !.value = value] ELSE NoRequest
<1>1. requests' = [requests EXCEPT ![s] = new]
  BY DEF Answer
<1>2. requests[s] \in RequestType
  OBVIOUS
<1>3. CASE s = Awaited
  <2>1. new = [requests[s] EXCEPT !.pc = pc, !.value = value]
    BY <1>3
  <2>2. /\ new \in RequestType
        /\ new.op = requests[s].op
        /\ new.arg = requests[s].arg
        /\ new.pc = pc
        /\ new.value = value
    BY <1>2, <2>1 DEF RequestType
  <2> HIDE DEF new
  <2> QED BY <1>1, <1>3, <2>2 DEF Answered1
<1>4. CASE s # Awaited
  <2>1. new = NoRequest /\ new \in RequestType
    BY <1>4, SlotsType
  <2> HIDE DEF new
  <2> QED BY <1>1, <1>4, <2>1 DEF Answered1
<1> QED BY <1>3, <1>4
------------------------------------------------------------------------------
(* provd.                                                                   *)

\* A step of the handler of one request.
Handled(s) ==
  /\ requests' \in [Slots -> RequestType]
  /\ \A t \in Slots : t # s => requests'[t] = requests[t]
  /\ s # Awaited => requests'[s] = NoRequest
  /\ s = Awaited => requests'[s].op = requests[s].op /\ requests'[s].arg = requests[s].arg

KeyboardRead ==
  Current.op = "GetKeyboard" =>
    /\ Current.pc = "layout" => Current.value \in Layouts
    /\ Current.pc \in {"variant", "ok"} => Current.value \in Keyboards

LEMMA HandledKeeps ==
  ASSUME ShapeOK, PageOK, RoomOK, \A t \in Slots : requests[t].arg \in Args(requests[t].op),
         NEW s \in Slots, requests[s] # NoRequest, Handled(s), KeyboardRead',
         UNCHANGED <<hidden, pageVars, selectedVars>>
  PROVE  /\ ShapeOK' /\ PageOK' /\ RoomOK'
         /\ \A t \in Slots : requests'[t].arg \in Args(requests'[t].op)
<1>1. Awaited \in Slots
  BY SlotsType
<1>2. Current.op = Current'.op /\ Current'.arg = Current.arg
  BY <1>1 DEF Handled, Current
<1>3. CASE s = Awaited
  <2>1. \A t \in Loose : requests'[t] = requests[t]
    BY <1>3 DEF Handled, Loose
  <2>2. ShapeOK'
    BY <1>1, <1>2, <1>3, <2>1 DEF ShapeOK, Handled, KeyboardRead, Current, pageVars, Loose
  <2>3. PageOK' /\ RoomOK'
    BY <1>2 DEF PageOK, RoomOK, pageVars, selectedVars
  <2>4. \A t \in Slots : requests'[t].arg \in Args(requests'[t].op)
    BY <1>3, <2>1 DEF Handled, Args, Loose
  <2> QED BY <2>2, <2>3, <2>4
<1>4. CASE s # Awaited
  <2>1. Current' = Current
    BY <1>1, <1>4 DEF Handled, Current
  <2>2. \A t \in Loose : requests'[t] = requests[t] \/ requests'[t] = NoRequest
    BY <1>4 DEF Handled, Loose
  <2>3. NoRequest.op = "none" /\ NoRequest.pc = "sent" /\ NoRequest.arg = None
    BY DEF NoRequest, Request
  <2>4. ShapeOK'
    BY <2>1, <2>2, <2>3 DEF ShapeOK, Handled, pageVars, Loose, LooseOps
  <2>5. PageOK' /\ RoomOK'
    BY <1>2 DEF PageOK, RoomOK, pageVars, selectedVars
  <2>6. \A t \in Slots : requests'[t].arg \in Args(requests'[t].op)
    BY <1>4, <2>3 DEF Handled, Args
  <2> QED BY <2>4, <2>5, <2>6
<1> QED BY <1>3, <1>4
\* What is stored, and that faults are not forgotten.
StoredOK ==
  /\ locale \in Locales
  /\ x11 \in Keyboards
  /\ timezone \in Timezones
  /\ sources \in Keyboards \cup {None}
  /\ gsettings \in [Keys -> Values]
  /\ reported \in {None, "CollectAndSend", "SendDecline"}

LEMMA AnswerHandles ==
  ASSUME NEW s \in Slots, NEW pc \in {"ok", "error"}, NEW value \in Answers,
         ShapeOK, Answer(s, pc, value),
         requests[s].op = "GetKeyboard" /\ pc = "ok" => value \in Keyboards
  PROVE  Answered1(s, pc, value) /\ Handled(s) /\ KeyboardRead'
<1>1. Answered1(s, pc, value)
  BY AnswerEntry DEF ShapeOK
<1>2. Handled(s)
  BY <1>1 DEF Answered1, Handled
<1>3. KeyboardRead'
  <2>1. CASE s = Awaited
    BY <1>1, <2>1 DEF Answered1, KeyboardRead, Current
  <2>2. CASE s # Awaited
    BY <1>1, <2>2, SlotsType DEF Answered1, KeyboardRead, Current, ShapeOK
  <2> QED BY <2>1, <2>2
<1> QED BY <1>1, <1>2, <1>3

\* A step that leaves the locale alone: an error without a fault is not one of
\* a page that is loaded.
LEMMA HandledTerritory ==
  ASSUME ShapeOK, PageOK, TerritoryOK, ErrorNeedsFault,
         NEW s \in Slots, Handled(s), locale' = locale, faulted => faulted',
         UNCHANGED <<hidden, pageVars, selectedVars>>,
         s = Awaited => /\ requests[s].op = "SetLocale" => requests'[s].pc # "ok"
                        /\ doing = "loading" /\ ~faulted' => requests'[s].pc # "error"
  PROVE  TerritoryOK' /\ ErrorNeedsFault'
<1>1. ErrorNeedsFault'
  BY DEF ErrorNeedsFault, pageVars
<1>2. CASE s = Awaited
  <2>1. Current' = requests'[s] /\ Current'.op = Current.op /\ Current = requests[s]
    BY <1>2 DEF Current, Handled
  <2>2. LocaleIsSet' = LocaleIsSet /\ ~LocaleJustSet'
    BY <1>2, <2>1 DEF LocaleIsSet, LocaleJustSet, pageVars
  <2> QED BY <1>1, <1>2, <2>1, <2>2 DEF TerritoryOK, pageVars
<1>3. CASE s # Awaited
  <2>1. Current' = Current
    BY <1>3, SlotsType DEF Current, Handled
  <2>2. LocaleIsSet' = LocaleIsSet /\ LocaleJustSet' = LocaleJustSet
    BY <2>1 DEF LocaleIsSet, LocaleJustSet, pageVars
  <2> QED BY <1>1, <2>1, <2>2 DEF TerritoryOK, pageVars
<1> QED BY <1>2, <1>3

\* Which slot a request for an operation can be in, and when.
LEMMA WhichSlot ==
  ASSUME TypeOK, ShapeOK, NEW s \in Slots
  PROVE  /\ requests[s].op \in {"GetLocale", "GetKeyboard", "Get", "GetTimezone"} => s = Awaited /\ doing = "loading"
         /\ requests[s].op \in {"SetLocale", "SetTimezone"} \cup ReportOps => s = Awaited /\ doing = "saving"
         /\ requests[s].op # "none" => requests[s] # NoRequest
<1>1. NoRequest.op = "none"
  BY DEF NoRequest, Request
<1>2. s # Awaited => requests[s].op \in LooseOps
  BY DEF ShapeOK, Loose
<1>3. s = Awaited => requests[s] = Current
  BY DEF Current
<1>4. \/ doing = "loading" /\ Current.op \in LoadOps
      \/ doing = "saving" /\ Current.op \in SaveOps
      \/ Current = NoRequest
  BY DEF ShapeOK, TypeOK
<1> QED BY <1>1, <1>2, <1>3, <1>4 DEF ShapeOK, LooseOps, LoadOps, SaveOps, ReportOps

\* The types of what an answer may carry.
LEMMA AnswerTypes ==
  ASSUME TypeOK, ShapeOK, NEW s \in Slots
  PROVE  /\ None \in Answers /\ "UNKNOWN_ERROR" \in Answers /\ locale \in Answers /\ timezone \in Answers
         /\ \A o : IsOn(o) \in Answers
         /\ x11[1] \in Layouts /\ x11[2] \in Variants
         /\ requests[s].op = "SetLocale" => requests[s].arg \in Locales
         /\ requests[s].op \in {"SetKeyboard", "SetInputSource"} => requests[s].arg \in Keyboards
         /\ requests[s].op \in {"Get", "Enable", "Disable"} => requests[s].arg \in Options
         /\ requests[s].op = "SetTimezone" => requests[s].arg \in Timezones
<1>1. \A o : IsOn(o) \in BOOLEAN
  BY Zenon DEF IsOn
<1>2. requests[s].arg \in Args(requests[s].op)
  BY DEF TypeOK
<1>3. x11 \in Keyboards /\ locale \in Locales /\ timezone \in Timezones
  BY DEF TypeOK
<1> QED BY <1>1, <1>2, <1>3 DEF Answers, Args, Keyboards

\* A handler that only reads.
LEMMA ReadStep ==
  ASSUME IInv, NEW s \in Slots, GetLocale(s) \/ GetKeyboard(s) \/ GetSwitch(s) \/ GetTimezone(s),
         UNCHANGED <<hidden, pageVars, selectedVars>>
  PROVE  /\ Handled(s) /\ KeyboardRead' /\ UNCHANGED stored
         /\ TerritoryOK' /\ ErrorNeedsFault'
<1> USE DEF IInv
<1>1. s = Awaited /\ doing = "loading" /\ requests[s] # NoRequest
  BY WhichSlot DEF GetLocale, GetKeyboard, GetSwitch, GetTimezone, Handling
<1>2. requests[s] = Current
  BY <1>1 DEF Current
<1>3. CASE GetLocale(s)
  <2>1. page = "start" /\ locale \in Readable
    BY <1>2, <1>3 DEF GetLocale, Handling, PageOK, TerritoryOK
  <2>2. Answer(s, "ok", locale) /\ UNCHANGED <<stored, faulted>>
    BY <1>3, <2>1 DEF GetLocale
  <2> QED BY <1>1, <1>3, <2>2, AnswerTypes, AnswerHandles, HandledTerritory DEF stored, Answered1, GetLocale, Handling
<1>4. CASE GetKeyboard(s)
  <2>1. requests[s].op = "GetKeyboard"
    BY <1>4 DEF GetKeyboard, Handling
  <2>2. locale \in Territorial
    BY <1>1, <1>2, <2>1 DEF TerritoryOK, LocaleIsSet, PageOK
  <2>3. ASSUME NEW pc \in {"layout", "variant"}, NEW value \in Answers, Read(s, pc, value),
               pc = "layout" => value \in Layouts, pc = "variant" => value \in Keyboards
        PROVE  Handled(s) /\ KeyboardRead' /\ UNCHANGED <<stored, faulted>> /\ requests'[s].pc = pc
    <3>1. requests' = [requests EXCEPT ![s].pc = pc, ![s].value = value]
      BY <2>3 DEF Read
    <3>2. requests \in [Slots -> RequestType] /\ requests[s] \in RequestType
      BY DEF ShapeOK
    <3> DEFINE new == [requests[s] EXCEPT !.pc = pc, !.value = value]
    <3>3. requests' = [requests EXCEPT ![s] = new]
      BY <3>1, <3>2
    <3>4. /\ new \in RequestType
          /\ new.op = requests[s].op /\ new.arg = requests[s].arg
          /\ new.pc = pc /\ new.value = value
      BY <3>2 DEF RequestType
    <3> HIDE DEF new
    <3>5. requests' \in [Slots -> RequestType] /\ requests'[s] = new /\ \A t \in Slots : t # s => requests'[t] = requests[t]
      BY <3>2, <3>3, <3>4
    <3> QED BY <1>1, <2>3, <3>4, <3>5 DEF Handled, KeyboardRead, Current, Read
  <2>4. CASE Handling(s, "GetKeyboard", "sent") /\ Read(s, "layout", x11[1])
    <3>1. x11[1] \in Layouts /\ x11[1] \in Answers
      BY AnswerTypes DEF Answers
    <3> QED BY <1>1, <2>1, <2>3, <2>4, <3>1, HandledTerritory DEF stored
  <2>5. CASE Handling(s, "GetKeyboard", "layout") /\ Read(s, "variant", <<requests[s].value, x11[2]>>)
    <3>1. requests[s].value \in Layouts
      BY <1>2, <2>5 DEF Handling, ShapeOK
    <3>2. <<requests[s].value, x11[2]>> \in Keyboards
      BY <3>1, AnswerTypes DEF Keyboards
    <3>3. <<requests[s].value, x11[2]>> \in Answers
      BY <3>2 DEF Answers
    <3> QED BY <1>1, <2>1, <2>3, <2>5, <3>2, <3>3, HandledTerritory DEF stored
  <2>6. CASE Handling(s, "GetKeyboard", "variant") /\ Answer(s, "ok", requests[s].value) /\ UNCHANGED <<stored, faulted>>
    <3>1. requests[s].value \in Keyboards /\ requests[s].value \in Answers
      BY <1>2, <2>6 DEF Handling, ShapeOK, Answers
    <3> QED BY <1>1, <2>1, <2>6, <3>1, AnswerHandles, HandledTerritory DEF stored, Answered1
  <2> QED BY <1>4, <2>2, <2>4, <2>5, <2>6 DEF GetKeyboard
<1>5. CASE GetSwitch(s)
  <2>1. Answer(s, "ok", IsOn(requests[s].arg)) /\ UNCHANGED <<stored, faulted>> /\ requests[s].op = "Get"
    BY <1>5 DEF GetSwitch, Handling
  <2>2. IsOn(requests[s].arg) \in Answers
    BY AnswerTypes
  <2> QED BY <1>1, <2>1, <2>2, AnswerHandles, HandledTerritory DEF stored, Answered1
<1>6. CASE GetTimezone(s)
  <2>1. Answer(s, "ok", timezone) /\ UNCHANGED <<stored, faulted>> /\ requests[s].op = "GetTimezone"
    BY <1>6 DEF GetTimezone, Handling
  <2> QED BY <1>1, <2>1, AnswerTypes, AnswerHandles, HandledTerritory DEF stored, Answered1
<1> QED BY <1>3, <1>4, <1>5, <1>6
\* The end of a handler that has had its effect.
LEMMA FinishHandles ==
  ASSUME NEW s \in Slots, ShapeOK, TypeOK, Finish(s), requests[s].op # "GetKeyboard"
  PROVE  /\ Handled(s) /\ KeyboardRead' /\ (faulted => faulted')
         /\ s = Awaited => \/ requests'[s].pc = "ok"
                           \/ requests'[s].pc = "error" /\ faulted'
<1>1. None \in Answers
  BY AnswerTypes
<1>2. CASE Answer(s, "ok", None) /\ UNCHANGED faulted
  BY <1>1, <1>2, AnswerHandles DEF Answered1
<1>3. CASE Answer(s, "error", None) /\ faulted' = TRUE
  BY <1>1, <1>3, AnswerHandles DEF Answered1
<1> QED BY <1>2, <1>3 DEF Finish

LEMMA RejectHandles ==
  ASSUME NEW s \in Slots, ShapeOK, TypeOK, Reject(s)
  PROVE  /\ Handled(s) /\ KeyboardRead' /\ UNCHANGED <<stored, faulted>>
         /\ s = Awaited => requests'[s].pc = "error"
BY AnswerTypes, AnswerHandles DEF Reject, Answered1

LEMMA WriteStep ==
  ASSUME IInv, NEW s \in Slots,
         \/ SetLocale(s) \/ SetKeyboard(s) \/ SetInputSource(s) \/ SetSwitch(s) \/ SetTimezone(s)
         \/ SendReport(s) \/ ReportFails(s) \/ Fail(s),
         UNCHANGED <<hidden, pageVars, selectedVars>>
  PROVE  /\ requests[s] # NoRequest
         /\ Handled(s) /\ KeyboardRead' /\ StoredOK'
         /\ TerritoryOK' /\ ErrorNeedsFault'
<1> USE DEF IInv
<1>0. StoredOK
  BY DEF TypeOK, StoredOK
<1>1. CASE SetLocale(s)
  <2>1. requests[s].op = "SetLocale"
    BY <1>1 DEF SetLocale, Handling
  <2>2. s = Awaited /\ doing = "saving" /\ requests[s] # NoRequest
    BY <2>1, WhichSlot
  <2>3. requests[s] = Current
    BY <2>2 DEF Current
  <2>4. CASE Reject(s)
    <3>1. TerritoryOK' /\ ErrorNeedsFault'
      BY <2>2, <2>4, RejectHandles, HandledTerritory DEF stored
    <3>2. StoredOK'
      BY <1>0, <2>4 DEF Reject, stored, StoredOK
    <3> QED BY <2>2, <2>4, <3>1, <3>2, RejectHandles
  <2>5. CASE requests[s].arg \in Supported /\ locale' = requests[s].arg /\ Finish(s)
             /\ UNCHANGED <<x11, timezone, sources, gsettings, reported>>
    <3>1. PICK l \in Languages : requests[s].arg = NameOf[l]
      BY <2>1, <2>3 DEF PageOK
    <3>2. locale' \in Territorial
      BY <2>5, <3>1, LanguagesAssumption
    <3>3. locale' \in Locales
      BY <2>1, <2>5, AnswerTypes
    <3>4. StoredOK'
      BY <1>0, <2>5, <3>3 DEF StoredOK
    <3>5. page = "locale"
      BY <2>1, <2>3 DEF PageOK
    <3>6. TerritoryOK'
      BY <2>2, <3>2, <3>5 DEF TerritoryOK, pageVars
    <3>7. ErrorNeedsFault'
      BY <3>5 DEF ErrorNeedsFault, pageVars
    <3>8. Handled(s) /\ KeyboardRead'
      BY <2>1, <2>5, FinishHandles
    <3> QED BY <2>2, <3>4, <3>6, <3>7, <3>8
  <2> QED BY <1>1, <2>4, <2>5 DEF SetLocale
<1>2. ASSUME NEW op, requests[s].op = op, op \notin LoadOps \ {"SetInputSource"}, op \notin {"none", "SetLocale"},
             Finish(s), StoredOK', locale' = locale
      PROVE  /\ requests[s] # NoRequest
             /\ Handled(s) /\ KeyboardRead' /\ StoredOK'
             /\ TerritoryOK' /\ ErrorNeedsFault'
  <2>1. requests[s] # NoRequest
    BY <1>2, WhichSlot
  <2>2. requests[s].op # "GetKeyboard"
    BY <1>2 DEF LoadOps
  <2> QED BY <1>2, <2>1, <2>2, FinishHandles, HandledTerritory
<1>3. CASE SetKeyboard(s)
  <2>1. requests[s].op = "SetKeyboard" /\ x11' \in Keyboards
    BY <1>3, AnswerTypes DEF SetKeyboard, Handling
  <2>2. StoredOK' /\ locale' = locale /\ Finish(s)
    BY <1>0, <1>3, <2>1 DEF StoredOK, SetKeyboard
  <2> QED BY <1>2, <2>1, <2>2 DEF LoadOps
<1>4. CASE SetInputSource(s)
  <2>1. requests[s].op = "SetInputSource" /\ sources' \in Keyboards
    BY <1>4, AnswerTypes DEF SetInputSource, Handling
  <2>2. StoredOK' /\ locale' = locale /\ Finish(s)
    BY <1>0, <1>4, <2>1 DEF StoredOK, SetInputSource
  <2> QED BY <1>2, <2>1, <2>2 DEF LoadOps
<1>5. CASE SetSwitch(s)
  <2>1. PICK verb \in {"Enable", "Disable"} :
          /\ Handling(s, verb, "sent")
          /\ gsettings' = [gsettings EXCEPT ![Switch(requests[s].arg).key] =
                             IF verb = "Enable" THEN Switch(requests[s].arg).on ELSE Switch(requests[s].arg).off]
    BY <1>5 DEF SetSwitch
  <2>2. requests[s].op = verb /\ requests[s].arg \in Options
    BY <2>1, AnswerTypes DEF Handling
  <2>3. Switch(requests[s].arg).key \in Keys /\ Switch(requests[s].arg).on \in Values /\ Switch(requests[s].arg).off \in Values
    BY <2>2 DEF Keys, Values
  <2>4. gsettings' \in [Keys -> Values]
    BY <1>0, <2>1, <2>3 DEF StoredOK
  <2>5. StoredOK' /\ locale' = locale /\ Finish(s)
    BY <1>0, <1>5, <2>4 DEF StoredOK, SetSwitch
  <2> QED BY <1>2, <2>2, <2>5 DEF LoadOps
<1>6. CASE SetTimezone(s)
  <2>1. requests[s].op = "SetTimezone"
    BY <1>6 DEF SetTimezone, Handling
  <2>2. s = Awaited /\ doing = "saving" /\ requests[s] # NoRequest
    BY <2>1, WhichSlot
  <2>3. CASE Reject(s)
    <3>1. TerritoryOK' /\ ErrorNeedsFault'
      BY <2>1, <2>2, <2>3, RejectHandles, HandledTerritory DEF stored
    <3>2. StoredOK'
      BY <1>0, <2>3 DEF Reject, stored, StoredOK
    <3> QED BY <2>2, <2>3, <3>1, <3>2, RejectHandles
  <2>4. CASE timezone' = requests[s].arg /\ Finish(s) /\ UNCHANGED <<locale, x11, sources, gsettings, reported>>
    <3>1. StoredOK' /\ locale' = locale
      BY <1>0, <2>1, <2>4, AnswerTypes DEF StoredOK
    <3> QED BY <1>2, <2>1, <2>4, <3>1 DEF LoadOps
  <2> QED BY <1>6, <2>3, <2>4 DEF SetTimezone
<1>7. CASE SendReport(s)
  <2>1. PICK op \in {"CollectAndSend", "SendDecline"} : Handling(s, op, "sent") /\ reported' = op
    BY <1>7 DEF SendReport
  <2>2. StoredOK' /\ locale' = locale /\ Finish(s)
    BY <1>0, <1>7, <2>1 DEF StoredOK, SendReport
  <2> QED BY <1>2, <2>1, <2>2 DEF LoadOps, Handling
<1>8. CASE ReportFails(s)
  <2>1. requests[s].op \in ReportOps /\ Answer(s, "ok", "UNKNOWN_ERROR") /\ faulted' /\ UNCHANGED stored
    BY <1>8 DEF ReportFails, ReportOps
  <2>2. requests[s] # NoRequest
    BY <2>1, WhichSlot DEF ReportOps
  <2>3. Handled(s) /\ KeyboardRead' /\ Answered1(s, "ok", "UNKNOWN_ERROR")
    BY <2>1, AnswerTypes, AnswerHandles DEF ReportOps
  <2>4. StoredOK' /\ locale' = locale
    BY <1>0, <2>1 DEF stored, StoredOK
  <2> QED BY <2>1, <2>2, <2>3, <2>4, HandledTerritory DEF Answered1, ReportOps
<1>9. CASE Fail(s)
  <2>1. requests[s] # NoRequest /\ Answer(s, "error", None) /\ faulted' /\ UNCHANGED stored
    BY <1>9 DEF Fail
  <2>2. Handled(s) /\ KeyboardRead' /\ Answered1(s, "error", None)
    BY <2>1, AnswerTypes, AnswerHandles
  <2>3. StoredOK' /\ locale' = locale
    BY <1>0, <2>1 DEF stored, StoredOK
  <2> QED BY <2>1, <2>2, <2>3, HandledTerritory DEF Answered1
<1> QED BY <1>1, <1>3, <1>4, <1>5, <1>6, <1>7, <1>8, <1>9

LEMMA ServeStep ==
  ASSUME IInv, NEW s \in Slots, Serve(s), UNCHANGED <<hidden, patient, pageVars, selectedVars>>
  PROVE  IInv'
<1>0. StoredOK
  BY DEF IInv, TypeOK, StoredOK
<1>1. /\ requests[s] # NoRequest
      /\ Handled(s) /\ KeyboardRead' /\ StoredOK'
      /\ TerritoryOK' /\ ErrorNeedsFault'
  <2>1. CASE GetLocale(s) \/ GetKeyboard(s) \/ GetSwitch(s) \/ GetTimezone(s)
    <3>1. requests[s] # NoRequest
      BY <2>1, WhichSlot DEF IInv, GetLocale, GetKeyboard, GetSwitch, GetTimezone, Handling
    <3> QED BY <1>0, <2>1, <3>1, ReadStep DEF StoredOK, stored
  <2> QED BY <2>1, WriteStep DEF Serve
<1>2. /\ ShapeOK' /\ PageOK' /\ RoomOK'
      /\ \A t \in Slots : requests'[t].arg \in Args(requests'[t].op)
  BY <1>1, HandledKeeps DEF IInv, TypeOK
<1>3. \A t \in Slots : requests'[t].pc \in {"sent", "layout", "variant", "ok", "error"}
  BY <1>1 DEF Handled, RequestType
<1>4. TypeOK'
  BY <1>1, <1>2, <1>3 DEF IInv, TypeOK, StoredOK, pageVars, selectedVars
<1> QED BY <1>1, <1>2, <1>4 DEF IInv
------------------------------------------------------------------------------
(* The client.                                                              *)

SelectedOK ==
  /\ language \in Languages
  /\ keyboard \in (DOMAIN VariantsOf \cup {None}) \X (Variants \cup {None})
  /\ location \in Located \cup {None}
  /\ enabled \in BOOLEAN
  /\ active \in [Options -> 0..MaxActive]

\* The request that is awaited is replaced.
Put(r) ==
  /\ requests' = [requests EXCEPT ![Awaited] = r]
  /\ UNCHANGED <<stored, faulted, hidden>>

LEMMA PutEntry ==
  ASSUME NEW r \in RequestType, requests \in [Slots -> RequestType],
         requests' = [requests EXCEPT ![Awaited] = r]
  PROVE  /\ requests' \in [Slots -> RequestType]
         /\ Current' = r
         /\ \A s \in Loose : requests'[s] = requests[s]
BY SlotsType DEF Current, Loose

LEMMA PutKeeps ==
  ASSUME IInv, NEW r \in RequestType, Put(r),
         r.pc = "sent", r.arg \in Args(r.op),
         SelectedOK', PageOK', RoomOK', TerritoryOK', ErrorNeedsFault',
         page' \in Pages, doing' \in {"idle", "saving", "loading", "stuck"}, todo' \subseteq Options \cup {"setting"},
         doing' = "loading" => r.op \in LoadOps,
         doing' = "saving" => r.op \in SaveOps,
         doing' \in {"idle", "stuck"} => r = NoRequest,
         r.op = "GetKeyboard" => todo' \subseteq {"setting"}
  PROVE  IInv'
<1>1. requests \in [Slots -> RequestType]
  BY DEF IInv, ShapeOK
<1>2. /\ requests' \in [Slots -> RequestType]
      /\ Current' = r
      /\ \A s \in Loose : requests'[s] = requests[s]
  BY <1>1, PutEntry DEF Put
<1>3. ShapeOK'
  BY <1>2 DEF IInv, ShapeOK
<1>4. \A s \in Slots : requests'[s].arg \in Args(requests'[s].op)
  <2>1. \A s \in Slots : requests[s].arg \in Args(requests[s].op)
    BY DEF IInv, TypeOK
  <2> QED BY <1>2, <2>1 DEF Loose, Current, Args
<1>5. \A s \in Slots : requests'[s].pc \in {"sent", "layout", "variant", "ok", "error"}
  BY <1>2 DEF RequestType
<1>6. TypeOK'
  BY <1>4, <1>5 DEF IInv, TypeOK, Put, stored, SelectedOK
<1> QED BY <1>3, <1>6 DEF IInv

\* A request that is sent, of an operation with its argument.
LEMMA SentType ==
  ASSUME NEW op \in LoadOps \cup SaveOps \cup LooseOps, NEW arg \in Arguments
  PROVE  /\ Request(op, arg) \in RequestType
         /\ Request(op, arg).op = op
         /\ Request(op, arg).arg = arg
         /\ Request(op, arg).pc = "sent"
BY DEF Request, RequestType, Answers

LEMMA ShowKeeps ==
  ASSUME IInv, NEW p \in Pages \ {"start"}, Show(p), UNCHANGED <<stored, faulted, hidden>>, SelectedOK',
         p = "error" => faulted,
         p = "accessibility" => ~hidden,
         p \notin {"locale", "error"} => locale \in Territorial
  PROVE  IInv'
<1>1. NoRequest \in RequestType /\ NoRequest.op = "none" /\ NoRequest.pc = "sent" /\ NoRequest.arg = None
  BY SlotsType DEF NoRequest, Request
<1>2. Put(NoRequest) /\ page' = p /\ doing' = "idle" /\ todo' = {}
  BY DEF Show, Put
<1>3. Current' = NoRequest
  BY <1>1, <1>2, PutEntry DEF IInv, ShapeOK, Put
<1>4. PageOK' /\ RoomOK'
  BY <1>1, <1>2, <1>3 DEF PageOK, RoomOK, ReportOps, Put
<1>5. TerritoryOK'
  BY <1>1, <1>2, <1>3 DEF TerritoryOK, LocaleIsSet, LocaleJustSet, Put, stored
<1>6. ErrorNeedsFault'
  BY <1>2 DEF ErrorNeedsFault, Put
<1>7. NoRequest.arg \in Args(NoRequest.op)
  BY <1>1 DEF Args
<1> QED BY <1>1, <1>2, <1>4, <1>5, <1>6, <1>7, PutKeeps

\* A page asks for something, while the one in front of it is shown.
LEMMA AskKeeps ==
  ASSUME IInv, NEW op \in LoadOps \ {"GetLocale"}, NEW arg \in Arguments, NEW rest \in SUBSET (Options \cup {"setting"}),
         Ask(Request(op, arg), rest), UNCHANGED <<stored, faulted, hidden>>, SelectedOK',
         page \notin {"start", "done", "error"}, arg \in Args(op), locale \in Territorial,
         op = "GetTimezone" => page = "others",
         op \in {"GetKeyboard", "SetInputSource"} => page = IF hidden THEN "locale" ELSE "accessibility",
         op = "GetKeyboard" => rest \subseteq {"setting"},
         op = "Get" => /\ page = "locale" /\ ~hidden /\ rest \subseteq Options \ {arg}
                       /\ \A o \in rest \cup {arg} : active'[o] < MaxActive
  PROVE  IInv'
<1> DEFINE r == Request(op, arg)
<1>1. r \in RequestType /\ r.op = op /\ r.pc = "sent" /\ r.arg = arg
  BY SentType
<1>2. Put(r) /\ page' = page /\ doing' = "loading" /\ todo' = rest
  BY DEF Ask, Put
<1>3. Current' = r
  BY <1>1, <1>2, PutEntry DEF IInv, ShapeOK, Put
<1> HIDE DEF r
<1>4. PageOK' /\ RoomOK'
  BY <1>1, <1>2, <1>3 DEF IInv, PageOK, RoomOK, ReportOps, Put, LoadOps
<1>5. TerritoryOK'
  BY <1>1, <1>2, <1>3 DEF TerritoryOK, LocaleIsSet, LocaleJustSet, Put, stored, LoadOps
<1>6. ErrorNeedsFault'
  BY <1>2 DEF ErrorNeedsFault, Put
<1>7. page' \in Pages
  BY <1>2 DEF IInv, TypeOK
<1> QED BY <1>1, <1>2, <1>4, <1>5, <1>6, <1>7, PutKeeps
------------------------------------------------------------------------------
\* Loading the following page.
LEMMA LoadKeeps ==
  ASSUME IInv, page \in {"locale", "accessibility", "keyboard", "others", "timezone"}, Load(Following[page]),
         locale \in Territorial, page = "locale" => \A o \in Options : active[o] < MaxActive,
         UNCHANGED <<stored, faulted, hidden, selectedVars>>
  PROVE  IInv'
<1>0. SelectedOK'
  BY DEF IInv, TypeOK, SelectedOK, selectedVars
<1>1. CASE Show(Following[page]) /\ FirstCall(Following[page]) = NoRequest
  <2>1. Following[page] \in {"accessibility", "keyboard", "others", "timezone", "telemetry"}
    BY DEF Following
  <2>2. \A op, arg : op # "none" => Request(op, arg) # NoRequest
    BY DEF NoRequest, Request
  <2>3. Following[page] \in {"others", "telemetry"}
    BY <1>1, <2>1, <2>2 DEF FirstCall
  <2> QED BY <1>0, <1>1, <2>3, ShowKeeps DEF Pages
<1>2. CASE Ask(FirstCall(Following[page]), OtherCalls(Following[page])) /\ FirstCall(Following[page]) # NoRequest
  <2>1. \/ Following[page] = "accessibility" /\ page = "locale" /\ ~hidden
        \/ Following[page] = "keyboard" /\ page = IF hidden THEN "locale" ELSE "accessibility"
        \/ Following[page] = "timezone" /\ page = "others"
        \/ Following[page] \in {"others", "telemetry"}
    BY DEF Following, IInv, PageOK
  <2>2. CASE Following[page] = "accessibility" /\ page = "locale" /\ ~hidden
    <3> DEFINE o == CHOOSE o \in Options : TRUE
    <3>1. o \in Options
      BY PagesAssumption
    <3>2. FirstCall("accessibility") = Request("Get", o) /\ OtherCalls("accessibility") = Options \ {o}
      BY DEF FirstCall, OtherCalls, Request
    <3> HIDE DEF o
    <3>3. o \in Arguments /\ o \in Args("Get") /\ "Get" \in LoadOps
      BY <3>1 DEF Arguments, Args, LoadOps
    <3>4. \A q \in Options : active'[q] < MaxActive
      BY <2>2 DEF selectedVars
    <3>5. Ask(Request("Get", o), Options \ {o})
      BY <1>2, <2>2, <3>2
    <3> QED BY <1>0, <2>2, <3>1, <3>3, <3>4, <3>5, AskKeeps
  <2>3. CASE Following[page] = "keyboard" /\ page = IF hidden THEN "locale" ELSE "accessibility"
    <3>1. FirstCall("keyboard") = Request("GetKeyboard", None) /\ OtherCalls("keyboard") = {"setting"}
      BY DEF FirstCall, OtherCalls
    <3>2. None \in Arguments /\ None \in Args("GetKeyboard") /\ "GetKeyboard" \in LoadOps
      BY DEF Arguments, Args, LoadOps
    <3> QED BY <1>0, <1>2, <2>3, <3>1, <3>2, AskKeeps
  <2>4. CASE Following[page] = "timezone" /\ page = "others"
    <3>1. FirstCall("timezone") = Request("GetTimezone", None) /\ OtherCalls("timezone") = {}
      BY DEF FirstCall, OtherCalls
    <3>2. None \in Arguments /\ None \in Args("GetTimezone") /\ "GetTimezone" \in LoadOps
      BY DEF Arguments, Args, LoadOps
    <3> QED BY <1>0, <1>2, <2>4, <3>1, <3>2, AskKeeps
  <2>5. CASE Following[page] \in {"others", "telemetry"}
    BY <1>2, <2>5 DEF FirstCall
  <2> QED BY <2>1, <2>2, <2>3, <2>4, <2>5
<1> QED BY <1>1, <1>2 DEF Load

\* While a page is loaded, its request is the one that is awaited.
LEMMA WhileLoading ==
  ASSUME IInv, NEW op, Answered(op)
  PROVE  /\ Current.op = op /\ Current.pc = "ok" /\ requests[Awaited] = Current
         /\ op # "GetLocale" => locale \in Territorial
<1>1. Current.op = op /\ Current.pc = "ok" /\ requests[Awaited] = Current /\ doing = "loading"
  BY DEF Answered, Handling, Current
<1>2. op # "GetLocale" => locale \in Territorial
  BY <1>1 DEF IInv, TerritoryOK, LocaleIsSet, PageOK, ShapeOK, LoadOps
<1> QED BY <1>1, <1>2

LEMMA PairParts ==
  ASSUME NEW A, NEW B, NEW k
  PROVE  k \in A \X B <=> k = <<k[1], k[2]>> /\ k[1] \in A /\ k[2] \in B
OBVIOUS

\* What the keyboard page selects, and what it sends, are keyboards.
LEMMA InputSourceType ==
  ASSUME NEW k \in (DOMAIN VariantsOf) \X (Variants \cup {None})
  PROVE  InputSource(k) \in Keyboards
<1>1. k[1] \in DOMAIN VariantsOf /\ k[2] \in Variants \cup {None}
  BY PairParts
<1>2. k[1] \in Layouts /\ FirstVariant[k[1]] \in Variants
  BY <1>1, PagesAssumption
<1> QED BY <1>1, <1>2 DEF InputSource, Keyboards

LEMMA KeyboardOfType ==
  ASSUME TypeOK, NEW setting \in Keyboards
  PROVE  KeyboardOf(setting) \in (DOMAIN VariantsOf \cup {None}) \X (Variants \cup {None})
<1>1. keyboard[2] \in Variants \cup {None}
  BY DEF TypeOK
<1>2. CASE setting[1] \notin DOMAIN VariantsOf
  BY <1>1, <1>2 DEF KeyboardOf
<1>3. CASE setting[1] \in DOMAIN VariantsOf
  <2>1. VariantsOf[setting[1]] \subseteq Variants
    BY <1>3, PagesAssumption
  <2> QED BY <1>3, <2>1 DEF KeyboardOf
<1> QED BY <1>2, <1>3

LEMMA LoadingStep ==
  ASSUME IInv, Loading, UNCHANGED <<stored, faulted, hidden>>
  PROVE  IInv'
<1> USE DEF IInv
<1>0. SelectedOK
  BY DEF TypeOK, SelectedOK
<1>1. CASE LoadLanguage
  <2>1. language' \in Languages
    BY <1>1 DEF LoadLanguage
  <2>2. SelectedOK'
    BY <1>0, <1>1, <2>1 DEF SelectedOK, LoadLanguage
  <2> QED BY <1>1, <2>2, ShowKeeps DEF LoadLanguage, Pages
<1>2. CASE LoadOption
  <2> DEFINE arg == requests[Awaited].arg
  <2>1. Current.op = "Get" /\ Current.arg = arg /\ locale \in Territorial /\ Awaited \in Slots
    BY <1>2, WhileLoading, SlotsType DEF LoadOption
  <2>2. arg \in Options /\ active[arg] < MaxActive /\ todo \subseteq Options \ {arg} /\ page = "locale" /\ ~hidden
    BY <2>1, AnswerTypes DEF RoomOK, PageOK, Current
  <2>3. active' = [active EXCEPT ![arg] = IF Value THEN @ + 1 ELSE @]
    BY <1>2 DEF LoadOption
  <2> HIDE DEF arg
  <2>4. active' \in [Options -> 0..MaxActive] /\ \A o \in Options \ {arg} : active'[o] = active[o]
    BY <1>0, <2>2, <2>3, PagesAssumption DEF SelectedOK
  <2>5. SelectedOK'
    BY <1>0, <1>2, <2>4 DEF SelectedOK, LoadOption
  <2>6. CASE todo = {} /\ Show("accessibility")
    BY <2>1, <2>2, <2>5, <2>6, ShowKeeps DEF Pages
  <2>7. CASE todo # {} /\ LET o == CHOOSE o \in todo : TRUE IN Ask(Request("Get", o), todo \ {o})
    <3> DEFINE o == CHOOSE o \in todo : TRUE
    <3>1. o \in todo /\ Ask(Request("Get", o), todo \ {o})
      BY <2>7
    <3> HIDE DEF o
    <3>2. o \in Options /\ o # arg
      BY <2>2, <3>1
    <3>3. o \in Arguments /\ o \in Args("Get") /\ "Get" \in LoadOps
      BY <3>2 DEF Arguments, Args, LoadOps
    <3>4. \A q \in (todo \ {o}) \cup {o} : active'[q] < MaxActive
      BY <2>1, <2>2, <2>4, <3>1 DEF RoomOK
    <3>5. todo \ {o} \subseteq Options \ {o} /\ todo \ {o} \in SUBSET (Options \cup {"setting"})
      BY <2>2
    <3> QED BY <2>1, <2>2, <2>5, <3>1, <3>3, <3>4, <3>5, AskKeeps
  <2> QED BY <1>2, <2>6, <2>7 DEF LoadOption
<1>3. CASE LoadLayouts
  <2>1. Current.op = "GetKeyboard" /\ locale \in Territorial
    BY <1>3, WhileLoading DEF LoadLayouts
  <2>2. page = IF hidden THEN "locale" ELSE "accessibility"
    BY <2>1 DEF PageOK
  <2>3. SelectedOK'
    BY <1>0, <1>3 DEF SelectedOK, LoadLayouts, selectedVars
  <2>4. None \in Arguments /\ None \in Args("GetKeyboard") /\ "GetKeyboard" \in LoadOps
    BY DEF Arguments, Args, LoadOps
  <2>5. Ask(Request("GetKeyboard", None), {})
    BY <1>3 DEF LoadLayouts
  <2> QED BY <2>1, <2>2, <2>3, <2>4, <2>5, AskKeeps
<1>4. CASE LoadSetting
  <2>1. Current.op = "GetKeyboard" /\ Current.pc = "ok" /\ locale \in Territorial
    BY <1>4, WhileLoading DEF LoadSetting
  <2>2. page = IF hidden THEN "locale" ELSE "accessibility"
    BY <2>1 DEF PageOK
  <2>3. Value \in Keyboards
    BY <2>1 DEF ShapeOK, Value, Current
  <2>4. keyboard' \in (DOMAIN VariantsOf \cup {None}) \X (Variants \cup {None})
    BY <1>4, <2>3, KeyboardOfType DEF LoadSetting
  <2>5. SelectedOK'
    BY <1>0, <1>4, <2>4 DEF SelectedOK, LoadSetting
  <2>6. CASE keyboard'[1] = None /\ Show("keyboard")
    BY <1>4, <2>1, <2>5, <2>6, ShowKeeps DEF Pages
  <2>7. CASE keyboard'[1] # None /\ Ask(Request("SetInputSource", InputSource(keyboard')), {})
    <3>1. keyboard' \in (DOMAIN VariantsOf) \X (Variants \cup {None})
      BY <2>4, <2>7, PairParts
    <3>1a. InputSource(keyboard') \in Keyboards
      BY <3>1, InputSourceType
    <3>2. InputSource(keyboard') \in Arguments /\ InputSource(keyboard') \in Args("SetInputSource") /\ "SetInputSource" \in LoadOps
      BY <3>1a DEF Arguments, Args, LoadOps
    <3> QED BY <2>1, <2>2, <2>5, <2>7, <3>2, AskKeeps
  <2> QED BY <1>4, <2>6, <2>7 DEF LoadSetting
<1>5. CASE UpdatedInputSource
  <2>1. locale \in Territorial
    BY <1>5, WhileLoading DEF UpdatedInputSource
  <2>2. SelectedOK' /\ Show("keyboard")
    BY <1>0, <1>5 DEF SelectedOK, UpdatedInputSource, selectedVars
  <2> QED BY <2>1, <2>2, ShowKeeps DEF Pages
<1>6. CASE LoadTimezone
  <2>1. locale \in Territorial
    BY <1>6, WhileLoading DEF LoadTimezone
  <2>2. SelectedOK' /\ Show("timezone")
    BY <1>0, <1>6 DEF SelectedOK, LoadTimezone
  <2> QED BY <2>1, <2>2, ShowKeeps DEF Pages
<1>7. CASE LoadFails
  <2>1. faulted
    BY <1>7 DEF LoadFails, TerritoryOK, Current
  <2>2. SelectedOK' /\ Show("error")
    BY <1>0, <1>7 DEF SelectedOK, LoadFails, selectedVars
  <2> QED BY <2>1, <2>2, ShowKeeps DEF Pages
<1> QED BY <1>1, <1>2, <1>3, <1>4, <1>5, <1>6, <1>7 DEF Loading

LEMMA SavedStep ==
  ASSUME IInv, Saved \/ SaveFails, UNCHANGED <<stored, faulted, hidden>>
  PROVE  IInv'
<1> USE DEF IInv
<1>0. SelectedOK' /\ UNCHANGED selectedVars
  BY DEF SelectedOK, TypeOK, Saved, SaveFails, selectedVars
<1>1. /\ doing = "saving" /\ requests[Awaited] = Current
      /\ \/ Current.op = "SetLocale" /\ page = "locale"
         \/ Current.op = "SetKeyboard" /\ page = "keyboard"
         \/ Current.op = "SetTimezone" /\ page = "timezone"
         \/ page = "telemetry"
  BY DEF Saved, SaveFails, ShapeOK, SaveOps, PageOK, Current
<1>2. CASE requests[Awaited].pc = "ok" /\ page # "telemetry" /\ Load(Following[page])
  <2>1. locale \in Territorial
    BY <1>1, <1>2 DEF TerritoryOK, LocaleIsSet, LocaleJustSet
  <2>2. page = "locale" => \A o \in Options : active[o] < MaxActive
    BY <1>1 DEF RoomOK
  <2>3. page = "timezone" => Show("telemetry")
    <3>1. Following["timezone"] = "telemetry" /\ FirstCall("telemetry") = NoRequest
      BY DEF Following, FirstCall
    <3> QED BY <1>2, <3>1 DEF Load
  <2>4. CASE page = "timezone"
    BY <1>0, <2>1, <2>3, <2>4, ShowKeeps DEF Pages
  <2>5. CASE page # "timezone"
    BY <1>0, <1>1, <1>2, <2>1, <2>2, <2>5, LoadKeeps
  <2> QED BY <2>4, <2>5
<1>3. CASE page = "telemetry" /\ Show("done")
  <2>1. locale \in Territorial
    BY <1>3 DEF TerritoryOK, LocaleIsSet
  <2> QED BY <1>0, <1>3, <2>1, ShowKeeps DEF Pages
<1>4. CASE SaveFails
  <2>1. NoRequest \in RequestType /\ NoRequest.op = "none" /\ NoRequest.pc = "sent" /\ NoRequest.arg = None
    BY SlotsType DEF NoRequest, Request
  <2>2. Put(NoRequest) /\ doing' = "stuck" /\ UNCHANGED <<page, todo>>
    BY <1>4 DEF SaveFails, Put
  <2>3. Current' = NoRequest
    BY <2>1, <2>2, PutEntry DEF ShapeOK, Put
  <2>4. PageOK' /\ RoomOK' /\ NoRequest.arg \in Args(NoRequest.op)
    BY <1>1, <2>1, <2>2, <2>3 DEF PageOK, RoomOK, ReportOps, Put, Args
  <2>5. TerritoryOK' /\ ErrorNeedsFault'
    BY <1>1, <2>1, <2>2, <2>3 DEF TerritoryOK, LocaleIsSet, LocaleJustSet, Put, stored, ErrorNeedsFault
  <2> QED BY <1>0, <2>1, <2>2, <2>4, <2>5, PutKeeps DEF TypeOK
<1> QED BY <1>2, <1>3, <1>4 DEF Saved
------------------------------------------------------------------------------
(* The user.                                                                *)

LEMMA SaveKeeps ==
  ASSUME IInv, NEW op \in SaveOps, NEW arg \in Arguments, Save(Request(op, arg)),
         UNCHANGED <<stored, faulted, hidden>>, arg \in Args(op),
         op = "SetLocale" => page = "locale" /\ arg \in {NameOf[l] : l \in Languages} /\ \A o \in Options : active[o] < MaxActive,
         op = "SetKeyboard" => page = "keyboard",
         op = "SetTimezone" => page = "timezone",
         op \in ReportOps => page = "telemetry"
  PROVE  IInv'
<1> USE DEF IInv
<1> DEFINE r == Request(op, arg)
<1>1. r \in RequestType /\ r.op = op /\ r.pc = "sent" /\ r.arg = arg
  BY SentType
<1>2. Put(r) /\ doing = "idle" /\ doing' = "saving" /\ UNCHANGED <<page, todo, selectedVars>>
  BY DEF Save, Put
<1>3. Current' = r
  BY <1>1, <1>2, PutEntry DEF ShapeOK, Put
<1> HIDE DEF r
<1>4. SelectedOK'
  BY <1>2 DEF TypeOK, SelectedOK, selectedVars
<1>5. PageOK'
  <2>1. page \notin {"start", "done", "error"} /\ (page = "accessibility" => ~hidden)
    BY DEF PageOK, SaveOps, ReportOps
  <2> QED BY <1>1, <1>2, <1>3, <2>1 DEF PageOK, Put, SaveOps, ReportOps
<1>6. RoomOK'
  BY <1>1, <1>2, <1>3 DEF RoomOK, SaveOps, ReportOps, selectedVars
<1>7. TerritoryOK' /\ ErrorNeedsFault'
  BY <1>1, <1>2, <1>3 DEF TerritoryOK, LocaleIsSet, LocaleJustSet, ErrorNeedsFault, Put, stored
<1>8. page' \in Pages /\ todo' \subseteq Options \cup {"setting"} /\ (r.op # "GetKeyboard")
  BY <1>1, <1>2 DEF TypeOK, SaveOps, ReportOps
<1> QED BY <1>1, <1>2, <1>4, <1>5, <1>6, <1>7, <1>8, PutKeeps

\* A request that nobody awaits, while the awaited one goes on.
LEMMA LooseKeeps ==
  ASSUME IInv, NEW s \in Loose, NEW r \in RequestType, r.op \in LooseOps, r.pc = "sent", r.arg \in Args(r.op),
         requests' = [requests EXCEPT ![s] = r],
         UNCHANGED <<stored, faulted, hidden, pageVars>>, SelectedOK', RoomOK'
  PROVE  IInv'
<1> USE DEF IInv
<1>1. Awaited \in Slots /\ Awaited # s /\ s \in Slots
  BY SlotsType DEF Loose
<1>2. /\ requests' \in [Slots -> RequestType]
      /\ Current' = Current
      /\ \A t \in Slots : requests'[t] = IF t = s THEN r ELSE requests[t]
  BY <1>1 DEF ShapeOK, Current
<1>3. ShapeOK'
  BY <1>2 DEF ShapeOK, pageVars, Loose
<1>4. PageOK' /\ TerritoryOK' /\ ErrorNeedsFault'
  BY <1>2 DEF PageOK, TerritoryOK, LocaleIsSet, LocaleJustSet, ErrorNeedsFault, pageVars, stored
<1>5. \A t \in Slots : requests'[t].arg \in Args(requests'[t].op)
  <2>1. \A t \in Slots : requests[t].arg \in Args(requests[t].op)
    BY DEF TypeOK
  <2> QED BY <1>2, <2>1 DEF Args
<1>6. TypeOK'
  BY <1>2, <1>5 DEF TypeOK, SelectedOK, stored, pageVars, RequestType
<1> QED BY <1>3, <1>4, <1>6

\* Nothing but a selection, or nothing at all.
LEMMA SelectKeeps ==
  ASSUME IInv, UNCHANGED <<provdVars, hidden, pageVars, active>>, SelectedOK'
  PROVE  IInv'
<1> USE DEF IInv
<1>1. TypeOK'
  BY DEF TypeOK, SelectedOK, provdVars, stored, pageVars
<1>2. ShapeOK' /\ PageOK' /\ RoomOK'
  BY DEF ShapeOK, PageOK, RoomOK, Current, Loose, provdVars, pageVars
<1>3. TerritoryOK' /\ ErrorNeedsFault'
  BY DEF TerritoryOK, LocaleIsSet, LocaleJustSet, ErrorNeedsFault, Current, provdVars, stored, pageVars
<1> QED BY <1>1, <1>2, <1>3

LEMMA BackStep ==
  ASSUME IInv, Back, UNCHANGED <<stored, faulted, hidden>>
  PROVE  IInv'
<1> USE DEF IInv
<1>1. /\ page \in {"accessibility", "keyboard", "others"}
      /\ page' \in {"locale", "accessibility", "keyboard"}
      /\ page' = "accessibility" => ~hidden
  BY DEF Back, Previous, PageOK
<1>2. SelectedOK' /\ doing' = "idle" /\ todo' = todo /\ doing # "loading"
  BY DEF Back, SelectedOK, selectedVars, TypeOK
<1>3. /\ Current' = NoRequest
      /\ requests' \in [Slots -> RequestType]
      /\ \A s \in Loose : requests'[s].op \in LooseOps /\ requests'[s].pc = "sent" /\ requests'[s].arg \in Args(requests'[s].op)
  <2>1. NoRequest.op \in LooseOps /\ NoRequest.pc = "sent" /\ NoRequest.arg \in Args(NoRequest.op)
    BY DEF NoRequest, Request, LooseOps, Args
  <2>2. CASE doing # "saving" /\ UNCHANGED requests
    BY <1>2, <2>1, <2>2 DEF ShapeOK, TypeOK, Current, Loose
  <2>3. CASE doing = "saving"
    <3> DEFINE left == IF requests[Awaited].pc = "sent" THEN requests[Awaited] ELSE NoRequest
    <3>1. PICK s \in Free : requests' = [requests EXCEPT ![Awaited] = NoRequest, ![s] = left]
      BY <2>3 DEF Back
    <3>2. s \in Loose /\ Awaited \in Slots
      BY SlotsType DEF Free, Loose
    <3>3. Current.op = "SetKeyboard" /\ requests[Awaited] = Current
      BY <1>1, <2>3 DEF ShapeOK, PageOK, SaveOps, ReportOps, Current
    <3>4. left \in RequestType /\ left.op \in LooseOps /\ left.pc = "sent" /\ left.arg \in Args(left.op)
      BY <2>1, <3>2, <3>3, SlotsType DEF ShapeOK, TypeOK, LooseOps
    <3> HIDE DEF left
    <3>5. /\ Current' = NoRequest
          /\ requests' \in [Slots -> RequestType]
          /\ \A t \in Loose : requests'[t] = IF t = s THEN left ELSE requests[t]
      BY <3>1, <3>2, <3>4, SlotsType DEF Current, Loose, ShapeOK
    <3> QED BY <3>4, <3>5 DEF ShapeOK, TypeOK, Loose
  <2> QED BY <2>2, <2>3 DEF Back
<1>4. NoRequest.op = "none" /\ NoRequest.pc = "sent" /\ NoRequest.arg \in Args(NoRequest.op)
  BY DEF NoRequest, Request, Args
<1>5. ShapeOK'
  BY <1>2, <1>3, <1>4 DEF ShapeOK
<1>6. PageOK' /\ RoomOK'
  BY <1>1, <1>2, <1>3, <1>4 DEF PageOK, RoomOK, ReportOps
<1>7. TerritoryOK' /\ ErrorNeedsFault'
  BY <1>1, <1>2, <1>3, <1>4 DEF TerritoryOK, LocaleIsSet, LocaleJustSet, ErrorNeedsFault, stored
<1>8. \A s \in Slots : requests'[s].arg \in Args(requests'[s].op)
  BY <1>3, <1>4 DEF Loose, Current
<1>9. \A s \in Slots : requests'[s].pc \in {"sent", "layout", "variant", "ok", "error"}
  BY <1>3 DEF RequestType
<1>10. TypeOK'
  BY <1>1, <1>2, <1>8, <1>9 DEF TypeOK, SelectedOK, stored, Pages
<1> QED BY <1>5, <1>6, <1>7, <1>10

\* Which keyboards the page sends while it is shown.
LEMMA SelectStep ==
  ASSUME IInv, NEW k \in (DOMAIN VariantsOf) \X (Variants \cup {None}), Select(k),
         UNCHANGED <<stored, faulted, hidden>>
  PROVE  IInv'
<1> USE DEF IInv
<1> DEFINE r == Request("SetInputSource", InputSource(k))
<1>1. PICK s \in Free : requests' = [requests EXCEPT ![s] = r]
  BY DEF Select, Send
<1>2. s \in Loose
  BY DEF Free, Loose
<1>3. InputSource(k) \in Keyboards
  BY InputSourceType
<1>4. InputSource(k) \in Arguments /\ InputSource(k) \in Args("SetInputSource") /\ "SetInputSource" \in LooseOps
  BY <1>3 DEF Arguments, Args, LooseOps
<1>5. r \in RequestType /\ r.op = "SetInputSource" /\ r.pc = "sent" /\ r.arg = InputSource(k)
  BY <1>4, SentType
<1> HIDE DEF r
<1>6. k \in (DOMAIN VariantsOf \cup {None}) \X (Variants \cup {None})
  BY PairParts
<1>7. SelectedOK' /\ UNCHANGED <<pageVars, active>>
  BY <1>6 DEF Select, Send, SelectedOK, TypeOK, pageVars
<1>8. RoomOK'
  <2>1. Current' = Current
    BY <1>1, <1>2, SlotsType DEF Current, Loose
  <2> QED BY <1>7, <2>1 DEF RoomOK, pageVars
<1> QED BY <1>1, <1>2, <1>4, <1>5, <1>7, <1>8, LooseKeeps

LEMMA ToggleStep ==
  ASSUME IInv, NEW o \in Options, ToggleOption(o), UNCHANGED <<stored, faulted, hidden>>
  PROVE  IInv'
<1> USE DEF IInv
<1>1. PICK op \in {"Enable", "Disable"} : Send(Request(op, o))
  BY DEF ToggleOption
<1> DEFINE r == Request(op, o)
<1>2. PICK s \in Free : requests' = [requests EXCEPT ![s] = r]
  BY <1>1 DEF Send
<1>3. s \in Loose
  BY DEF Free, Loose
<1>4. o \in Arguments /\ o \in Args(op) /\ op \in LooseOps
  BY <1>1 DEF Arguments, Args, LooseOps
<1>5. r \in RequestType /\ r.op = op /\ r.pc = "sent" /\ r.arg = o
  BY <1>4, SentType
<1> HIDE DEF r
<1>6. active' \in [Options -> 0..MaxActive]
  <2>1. active \in [Options -> 0..MaxActive] /\ MaxActive \in Nat \ {0}
    BY PagesAssumption DEF TypeOK
  <2>2. CASE active[o] > 0 /\ active' = [active EXCEPT ![o] = @ - 1]
    BY <2>1, <2>2
  <2>3. CASE active[o] = 0 /\ active' = [active EXCEPT ![o] = @ + 1]
    BY <2>1, <2>3
  <2> QED BY <2>2, <2>3 DEF ToggleOption
<1>7. SelectedOK' /\ UNCHANGED pageVars /\ page = "accessibility"
  BY <1>1, <1>6 DEF ToggleOption, Send, SelectedOK, TypeOK, pageVars
<1>8. RoomOK'
  <2>1. Current' = Current
    BY <1>2, <1>3, SlotsType DEF Current, Loose
  <2> QED BY <1>7, <2>1 DEF RoomOK, PageOK, pageVars
<1> QED BY <1>2, <1>3, <1>4, <1>5, <1>7, <1>8, LooseKeeps

LEMMA UserStep ==
  ASSUME IInv, User
  PROVE  IInv'
<1> USE DEF IInv
<1>0. UNCHANGED <<stored, faulted, hidden>> /\ SelectedOK
  BY DEF User, SelectedOK, TypeOK
<1>1. CASE SaveLocale
  <2>1. language \in Languages /\ NameOf[language] \in Locales
    BY PagesAssumption DEF TypeOK
  <2>2. NameOf[language] \in Arguments /\ NameOf[language] \in Args("SetLocale") /\ "SetLocale" \in SaveOps
    BY <2>1 DEF Arguments, Args, SaveOps
  <2>3. page = "locale" /\ \A o \in Options : active[o] < MaxActive
    BY <1>1 DEF SaveLocale
  <2> QED BY <1>0, <1>1, <2>1, <2>2, <2>3, SaveKeeps DEF SaveLocale, ReportOps
<1>2. CASE SaveKeyboard
  <2>1. keyboard[1] \in DOMAIN VariantsOf /\ keyboard[2] \in Variants /\ keyboard = <<keyboard[1], keyboard[2]>>
    BY <1>2, PairParts DEF SaveKeyboard, TypeOK
  <2>2. keyboard \in Keyboards
    BY <2>1, PagesAssumption DEF Keyboards
  <2>3. keyboard \in Arguments /\ keyboard \in Args("SetKeyboard") /\ "SetKeyboard" \in SaveOps
    BY <2>2 DEF Arguments, Args, SaveOps
  <2> QED BY <1>0, <1>2, <2>3, SaveKeeps DEF SaveKeyboard, ReportOps
<1>3. CASE SaveTimezone
  <2>1. location \in Timezones
    BY <1>3, PagesAssumption DEF SaveTimezone, TypeOK
  <2>2. location \in Arguments /\ location \in Args("SetTimezone") /\ "SetTimezone" \in SaveOps
    BY <2>1 DEF Arguments, Args, SaveOps
  <2> QED BY <1>0, <1>3, <2>2, SaveKeeps DEF SaveTimezone, ReportOps
<1>4. CASE SaveTelemetry
  <2> DEFINE op == IF enabled THEN "CollectAndSend" ELSE "SendDecline"
  <2>1. op \in SaveOps /\ None \in Args(op) /\ None \in Arguments /\ op \notin {"SetLocale", "SetKeyboard", "SetTimezone"}
    BY DEF SaveOps, ReportOps, Args, Arguments
  <2>2. Save(Request(op, None)) /\ page = "telemetry"
    BY <1>4 DEF SaveTelemetry
  <2> HIDE DEF op
  <2> QED BY <1>0, <2>1, <2>2, SaveKeeps
<1>5. CASE PassOn
  <2>1. page \in {"accessibility", "others"} /\ Load(Following[page]) /\ UNCHANGED selectedVars
    BY <1>5 DEF PassOn
  <2>2. locale \in Territorial
    BY <2>1 DEF TerritoryOK, LocaleIsSet
  <2> QED BY <1>0, <2>1, <2>2, LoadKeeps
<1>6. CASE Back
  BY <1>0, <1>6, BackStep
<1>7. ASSUME NEW l \in Languages, SelectLanguage(l) PROVE IInv'
  <2>1. SelectedOK' /\ UNCHANGED <<provdVars, hidden, pageVars, active>>
    BY <1>0, <1>7 DEF SelectLanguage, SelectedOK, provdVars
  <2> QED BY <2>1, SelectKeeps
<1>8. ASSUME NEW o \in Options, ToggleOption(o) PROVE IInv'
  BY <1>0, <1>8, ToggleStep
<1>9. ASSUME NEW l \in DOMAIN VariantsOf, SelectLayout(l) PROVE IInv'
  <2>1. <<l, FirstVariant[l]>> \in (DOMAIN VariantsOf) \X (Variants \cup {None})
    BY PagesAssumption
  <2> QED BY <1>0, <1>9, <2>1, SelectStep DEF SelectLayout
<1>10. ASSUME NEW v \in Variants, SelectVariant(v) PROVE IInv'
  <2>1. keyboard[1] \in DOMAIN VariantsOf
    BY <1>10, PairParts DEF SelectVariant, TypeOK
  <2>2. <<keyboard[1], v>> \in (DOMAIN VariantsOf) \X (Variants \cup {None})
    BY <2>1
  <2> QED BY <1>0, <1>10, <2>2, SelectStep DEF SelectVariant
<1>11. ASSUME NEW t \in Located, SelectLocation(t) PROVE IInv'
  <2>1. SelectedOK' /\ UNCHANGED <<provdVars, hidden, pageVars, active>>
    BY <1>0, <1>11 DEF SelectLocation, SelectedOK, provdVars
  <2> QED BY <2>1, SelectKeeps
<1>12. ASSUME NEW b \in BOOLEAN, SetEnabled(b) PROVE IInv'
  <2>1. SelectedOK' /\ UNCHANGED <<provdVars, hidden, pageVars, active>>
    BY <1>0, <1>12 DEF SetEnabled, SelectedOK, provdVars
  <2> QED BY <2>1, SelectKeeps
<1> QED BY <1>1, <1>2, <1>3, <1>4, <1>5, <1>6, <1>7, <1>8, <1>9, <1>10, <1>11, <1>12 DEF User

------------------------------------------------------------------------------
LEMMA InitStep ==
  ASSUME Init
  PROVE  IInv
<1> DEFINE first == Request("GetLocale", None)
<1>1. /\ first \in RequestType /\ first.op = "GetLocale" /\ first.arg = None /\ first.pc = "sent"
      /\ NoRequest \in RequestType /\ NoRequest.op = "none" /\ NoRequest.arg = None /\ NoRequest.pc = "sent"
  BY SlotsType DEF Request, NoRequest, RequestType, LoadOps, Arguments, Answers
<1>2. requests = [s \in Slots |-> IF s = Awaited THEN first ELSE NoRequest]
  BY DEF Init
<1> HIDE DEF first
<1>3. Current = first /\ requests \in [Slots -> RequestType] /\ \A s \in Loose : requests[s] = NoRequest
  BY <1>1, <1>2, SlotsType DEF Current, Loose
<1>4. locale \in Locales /\ locale \in Readable /\ x11 \in Keyboards /\ timezone \in Timezones
  BY PagesAssumption, SettingsAssumption DEF Init
<1>5. language \in Languages
  BY PagesAssumption DEF Init
<1>6. active \in [Options -> 0..MaxActive] /\ keyboard \in (DOMAIN VariantsOf \cup {None}) \X (Variants \cup {None})
  BY PagesAssumption DEF Init
<1>7. \A s \in Slots : requests[s].arg \in Args(requests[s].op) /\ requests[s].pc = "sent"
  BY <1>1, <1>2 DEF Args
<1>8. TypeOK
  BY <1>4, <1>5, <1>6, <1>7 DEF Init, TypeOK, Pages
<1>9. ShapeOK
  BY <1>1, <1>3 DEF Init, ShapeOK, LoadOps, LooseOps
<1>10. PageOK /\ RoomOK /\ TerritoryOK /\ ErrorNeedsFault
  BY <1>1, <1>3, <1>4 DEF Init, PageOK, RoomOK, TerritoryOK, LocaleIsSet, LocaleJustSet, ErrorNeedsFault, ReportOps
<1> QED BY <1>8, <1>9, <1>10 DEF IInv

LEMMA NextStep ==
  ASSUME IInv, [Next]_vars
  PROVE  IInv'
<1>1. CASE Provd
  BY <1>1, ServeStep DEF Provd
<1>2. CASE Client
  BY <1>2, LoadingStep, SavedStep DEF Client
<1>3. CASE User
  BY <1>3, UserStep
<1>4. CASE UNCHANGED vars
  <2>1. UNCHANGED <<provdVars, hidden, pageVars, active>> /\ SelectedOK'
    BY <1>4 DEF vars, selectedVars, SelectedOK, IInv, TypeOK
  <2> QED BY <2>1, SelectKeeps
<1> QED BY <1>1, <1>2, <1>3, <1>4 DEF Next

\* The pages, their requests and what provd stores stay what they are declared
\* to be, however requests overlap: a request carries an argument of its
\* operation, and a list holds an option no more often than it may.
THEOREM TypeCorrect == Spec => []TypeOK
<1>1. Spec => []IInv
  BY InitStep, NextStep, PTL DEF Spec
<1>2. IInv => TypeOK
  BY DEF IInv
<1> QED BY <1>1, <1>2, PTL

\* The wizard comes to its error page only after a fault: the locale that the
\* keyboard page has provd read has a language, since the page before it has
\* set one that is listed and no page behind that one sets another.
THEOREM ErrorFaulted == Spec => []ErrorNeedsFault
<1>1. Spec => []IInv
  BY InitStep, NextStep, PTL DEF Spec
<1>2. IInv => ErrorNeedsFault
  BY DEF IInv
<1> QED BY <1>1, <1>2, PTL
------------------------------------------------------------------------------
(* The user who waits.                                                      *)

LooseQuiet == \A s \in Loose : requests[s] = NoRequest

SourceQuiet ==
  /\ Current.op = "SetInputSource" =>
       Current.arg = InputSource(keyboard) /\ (Current.pc = "ok" => sources = Current.arg)
  /\ (page = "keyboard" \/ Behind("keyboard")) /\ keyboard[1] # None => sources = InputSource(keyboard)

OptionsQuiet ==
  /\ Current.op = "Get" /\ Current.pc = "ok" => Current.value = On(Current.arg)
  /\ \A o \in Options : Loaded(o) /\ active[o] = 0 => ~On(o)

QuietRelied == LocaleShown /\ KeyboardShown /\ SourceQuiet /\ TimezoneShown /\ ChoiceShown /\ OptionsQuiet

\* While only the awaited request is under way, if any.
LEMMA WhileQuiet ==
  ASSUME LooseQuiet, Relied
  PROVE  QuietRelied
<1>1. \A s \in Loose : requests[s].op = "none"
  BY DEF LooseQuiet, NoRequest, Request
<1>2. SourceQuiet
  BY <1>1 DEF Relied, SourceShown, SourceQuiet
<1>3. OptionsQuiet
  BY <1>1 DEF Relied, OptionsShown, OptionsQuiet
<1> QED BY <1>2, <1>3 DEF Relied, QuietRelied

LEMMA AfterQuiet ==
  ASSUME LooseQuiet', QuietRelied'
  PROVE  Relied'
<1>1. \A s \in Loose : requests'[s].op = "none"
  BY DEF LooseQuiet, NoRequest, Request, Loose
<1>2. OneAtATime'
  BY <1>1 DEF OneAtATime, LooseQuiet, Pending, Loose
<1>3. SourceShown'
  BY <1>1 DEF QuietRelied, SourceShown, SourceQuiet, Loose
<1>4. OptionsShown'
  BY <1>1 DEF QuietRelied, OptionsShown, OptionsQuiet, Loose
<1> QED BY <1>2, <1>3, <1>4 DEF QuietRelied, Relied

LEMMA OnlyOne ==
  ASSUME OneAtATime, NEW s \in Slots, requests[s] # NoRequest
  PROVE  \A t \in Slots : t # s => requests[t] = NoRequest
BY DEF OneAtATime, Pending

\* provd answers the request that is awaited.
LEMMA AwaitedServed ==
  ASSUME IInv, Relied, Serve(Awaited), ~faulted',
         UNCHANGED <<hidden, patient, pageVars, selectedVars>>
  PROVE  Relied'
<1> USE DEF IInv
<1>0. Awaited \in Slots /\ requests[Awaited] = Current
  BY SlotsType DEF Current
<1>1. requests[Awaited] # NoRequest /\ Handled(Awaited)
  <2>1. CASE GetLocale(Awaited) \/ GetKeyboard(Awaited) \/ GetSwitch(Awaited) \/ GetTimezone(Awaited)
    BY <1>0, <2>1, ReadStep, WhichSlot DEF GetLocale, GetKeyboard, GetSwitch, GetTimezone, Handling
  <2> QED BY <1>0, <2>1, WriteStep DEF Serve
<1>2. LooseQuiet /\ LooseQuiet'
  BY <1>0, <1>1, OnlyOne DEF Relied, LooseQuiet, Handled, Loose
<1>3. QuietRelied
  BY <1>2, WhileQuiet
<1>4. Current'.op = Current.op /\ Current'.arg = Current.arg
  BY <1>0, <1>1 DEF Handled, Current
<1>5. \A p : Behind(p)' = Behind(p)
  BY DEF Behind, pageVars
<1>6. LocaleIsSet' = LocaleIsSet /\ \A o : Loaded(o)' = Loaded(o)
  BY <1>4 DEF LocaleIsSet, Loaded, pageVars
<1>7. LocaleShown /\ KeyboardShown /\ SourceQuiet /\ TimezoneShown /\ ChoiceShown /\ OptionsQuiet
  BY <1>3 DEF QuietRelied
<1>8. UNCHANGED <<hidden, page, doing, todo, language, keyboard, location, enabled, active>>
  BY DEF pageVars, selectedVars
\* Nothing is stored, and the answer is not one of a save that succeeded.
<1>9. ASSUME UNCHANGED stored,
             Current.op \in {"SetLocale", "SetKeyboard", "SetInputSource", "SetTimezone"} => Current'.pc # "ok",
             Current.op \notin ReportOps,
             Current.op = "Get" /\ Current'.pc = "ok" => Current'.value = On(Current.arg)
      PROVE  Relied'
  <2>1. UNCHANGED <<locale, x11, timezone, sources, gsettings, reported>>
    BY <1>9 DEF stored
  <2>2. LocaleShown'
    BY <1>4, <1>6, <1>7, <1>8, <1>9, <2>1 DEF LocaleShown, LocaleJustSet
  <2>3. KeyboardShown' /\ TimezoneShown'
    BY <1>4, <1>5, <1>7, <1>8, <1>9, <2>1 DEF KeyboardShown, TimezoneShown
  <2>4. SourceQuiet'
    <3>1. InputSource(keyboard)' = InputSource(keyboard)
      BY <1>8 DEF InputSource
    <3> QED BY <1>4, <1>5, <1>7, <1>8, <1>9, <2>1, <3>1 DEF SourceQuiet
  <2>5. ChoiceShown'
    BY <1>4, <1>7, <1>8, <1>9, <2>1 DEF ChoiceShown, Choice
  <2>6. OptionsQuiet'
    <3>1. \A o : On(o)' = On(o)
      BY <2>1 DEF On
    <3> QED BY <1>4, <1>6, <1>7, <1>8, <1>9, <3>1 DEF OptionsQuiet
  <2> QED BY <1>2, <2>2, <2>3, <2>4, <2>5, <2>6, AfterQuiet DEF QuietRelied
<1>10. CASE GetLocale(Awaited) \/ GetKeyboard(Awaited) \/ GetTimezone(Awaited)
  <2>1. UNCHANGED stored /\ Current.op \in {"GetLocale", "GetKeyboard", "GetTimezone"}
    BY <1>0, <1>10, ReadStep DEF GetLocale, GetKeyboard, GetTimezone, Handling
  <2> QED BY <1>9, <2>1 DEF ReportOps
<1>11. CASE GetSwitch(Awaited)
  <2>1. UNCHANGED stored /\ Current.op = "Get" /\ Answer(Awaited, "ok", IsOn(Current.arg))
    BY <1>0, <1>11 DEF GetSwitch, Handling
  <2>2. Answered1(Awaited, "ok", IsOn(Current.arg))
    BY <1>0, <2>1, AnswerTypes, AnswerHandles
  <2>3. Current'.value = On(Current.arg)
    BY <2>2 DEF Answered1, Current, IsOn, On
  <2> QED BY <1>9, <2>1, <2>3 DEF ReportOps
<1>12. ASSUME Reject(Awaited), Current.op \in {"SetLocale", "SetTimezone"} PROVE Relied'
  <2>1. UNCHANGED stored /\ Current'.pc = "error"
    BY <1>0, <1>12, RejectHandles DEF Current
  <2> QED BY <1>9, <1>12, <2>1 DEF ReportOps
\* A save that succeeds: it has stored what it was sent with.
<1>13. ASSUME Finish(Awaited), Current.op \in SaveOps \cup {"SetInputSource"}, UNCHANGED gsettings,
              locale' = IF Current.op = "SetLocale" THEN Current.arg ELSE locale,
              x11' = IF Current.op = "SetKeyboard" THEN Current.arg ELSE x11,
              sources' = IF Current.op = "SetInputSource" THEN Current.arg ELSE sources,
              timezone' = IF Current.op = "SetTimezone" THEN Current.arg ELSE timezone,
              reported' = IF Current.op \in ReportOps THEN Current.op ELSE reported
       PROVE  Relied'
  <2>1. Current'.pc = "ok"
    BY <1>0, <1>13, FinishHandles DEF SaveOps, ReportOps, Current
  <2>2. /\ Current.op = "SetLocale" => page = "locale" /\ doing # "loading"
        /\ Current.op = "SetKeyboard" => page = "keyboard"
        /\ Current.op = "SetInputSource" => page \in {"locale", "accessibility"}
        /\ Current.op = "SetTimezone" => page = "timezone"
        /\ Current.op \in ReportOps => page = "telemetry"
    BY <1>0, WhichSlot DEF PageOK, Current, ShapeOK, LoadOps
  <2>3. LocaleShown'
    BY <1>4, <1>6, <1>7, <1>8, <1>13, <2>2 DEF LocaleShown, LocaleJustSet, LocaleIsSet
  <2>4. KeyboardShown' /\ TimezoneShown'
    BY <1>4, <1>5, <1>7, <1>8, <1>13, <2>2 DEF KeyboardShown, TimezoneShown, Behind
  <2>5. SourceQuiet'
    <3>1. InputSource(keyboard)' = InputSource(keyboard)
      BY <1>8 DEF InputSource
    <3> QED BY <1>4, <1>5, <1>7, <1>8, <1>13, <2>2, <3>1 DEF SourceQuiet, Behind
  <2>6. ChoiceShown'
    BY <1>4, <1>7, <1>8, <1>13, <2>1, <2>2 DEF ChoiceShown, Choice, ReportOps
  <2>7. OptionsQuiet'
    <3>1. \A o : On(o)' = On(o)
      BY <1>13 DEF On
    <3> QED BY <1>4, <1>6, <1>7, <1>8, <1>13, <3>1 DEF OptionsQuiet, SaveOps, ReportOps
  <2> QED BY <1>2, <2>3, <2>4, <2>5, <2>6, <2>7, AfterQuiet DEF QuietRelied
<1>14. CASE SetLocale(Awaited)
  BY <1>0, <1>12, <1>13, <1>14 DEF SetLocale, Handling, SaveOps, ReportOps
<1>15. CASE SetKeyboard(Awaited)
  BY <1>0, <1>13, <1>15 DEF SetKeyboard, Handling, SaveOps, ReportOps
<1>16. CASE SetInputSource(Awaited)
  BY <1>0, <1>13, <1>16 DEF SetInputSource, Handling, SaveOps, ReportOps
<1>17. CASE SetTimezone(Awaited)
  BY <1>0, <1>12, <1>13, <1>17 DEF SetTimezone, Handling, SaveOps, ReportOps
<1>18. CASE SendReport(Awaited)
  BY <1>0, <1>13, <1>18 DEF SendReport, Handling, SaveOps, ReportOps
<1>19. ~SetSwitch(Awaited)
  <2>1. Current.op \notin {"Enable", "Disable"}
    <3>1. Current.op \in LoadOps \cup SaveOps \cup {"none"}
      BY DEF ShapeOK, TypeOK, NoRequest, Request
    <3> QED BY <3>1 DEF LoadOps, SaveOps, ReportOps
  <2> QED BY <1>0, <2>1 DEF SetSwitch, Handling
<1> QED BY <1>10, <1>11, <1>14, <1>15, <1>16, <1>17, <1>18, <1>19 DEF Serve, ReportFails, Fail

\* Each switch belongs to one group.
LEMMA GroupDomains ==
  /\ DOMAIN Seeing = {"HighContrast", "ReducedMotion", "LargeText", "ScreenReader"}
  /\ DOMAIN Hearing = {"VisualAlerts"}
  /\ DOMAIN Typing = {"ScreenKeyboard", "StickyKeys", "SlowKeys"}
  /\ DOMAIN Pointing = {"MouseKeys"}
  /\ DOMAIN Zoom = {"DesktopZoom"}
  /\ DOMAIN Privacy = {"LocationServices"}
BY DEF Seeing, Hearing, Typing, Pointing, Zoom, Privacy

LEMMA SwitchOfGroup ==
  ASSUME NEW g \in Groups, NEW s \in DOMAIN g
  PROVE  Switch(s) = g[s]
<1>1. \A h \in Groups : s \in DOMAIN h => h = g
  BY GroupDomains DEF Groups
<1> QED BY <1>1 DEF Switch

\* No two switches are stored at the same key, and on is not off.
LEMMA SwitchesApart ==
  ASSUME NEW o \in Switches, NEW p \in Switches
  PROVE  /\ Switch(o).on # Switch(o).off
         /\ o # p => Switch(o).key # Switch(p).key
<1>1. /\ Switch("HighContrast") = Seeing.HighContrast /\ Switch("ReducedMotion") = Seeing.ReducedMotion
      /\ Switch("LargeText") = Seeing.LargeText /\ Switch("ScreenReader") = Seeing.ScreenReader
  BY GroupDomains, SwitchOfGroup DEF Groups
<1>2. Switch("VisualAlerts") = Hearing.VisualAlerts
  BY GroupDomains, SwitchOfGroup DEF Groups
<1>3. /\ Switch("ScreenKeyboard") = Typing.ScreenKeyboard /\ Switch("StickyKeys") = Typing.StickyKeys
      /\ Switch("SlowKeys") = Typing.SlowKeys
  BY GroupDomains, SwitchOfGroup DEF Groups
<1>4. Switch("MouseKeys") = Pointing.MouseKeys /\ Switch("DesktopZoom") = Zoom.DesktopZoom
      /\ Switch("LocationServices") = Privacy.LocationServices
  BY GroupDomains, SwitchOfGroup DEF Groups
<1>5. Switches = {"HighContrast", "ReducedMotion", "LargeText", "ScreenReader", "VisualAlerts", "ScreenKeyboard",
                  "StickyKeys", "SlowKeys", "MouseKeys", "DesktopZoom", "LocationServices"}
  BY GroupDomains DEF Switches, Groups
<1> QED BY <1>1, <1>2, <1>3, <1>4, <1>5 DEF Seeing, Hearing, Typing, Pointing, Zoom, Privacy, Key

\* provd answers a request that nobody awaits: a switch or an input source.
LEMMA LooseServed ==
  ASSUME IInv, Relied, NEW s \in Loose, Serve(s), ~faulted',
         UNCHANGED <<hidden, patient, pageVars, selectedVars>>
  PROVE  Relied'
<1> USE DEF IInv
<1>0. s \in Slots /\ s # Awaited
  BY DEF Loose
<1>1. requests[s] # NoRequest /\ Handled(s)
  <2>1. ~(GetLocale(s) \/ GetKeyboard(s) \/ GetSwitch(s) \/ GetTimezone(s))
    BY <1>0, WhichSlot DEF GetLocale, GetKeyboard, GetSwitch, GetTimezone, Handling
  <2> QED BY <1>0, <2>1, WriteStep DEF Serve
<1>2. \A t \in Slots : t # s => requests[t] = NoRequest
  BY <1>0, <1>1, OnlyOne DEF Relied
<1>3. LooseQuiet' /\ Current' = NoRequest /\ Current = NoRequest
  BY <1>0, <1>1, <1>2, SlotsType DEF LooseQuiet, Handled, Loose, Current
<1>4. requests[s].op \in {"SetInputSource", "Enable", "Disable"}
  <2>1. requests[s].op \in {"none", "SetInputSource", "Enable", "Disable"}
    BY DEF Relied, OneAtATime
  <2>2. requests[s].op # "none"
    BY DEF Serve, GetLocale, SetLocale, GetKeyboard, SetKeyboard, SetInputSource, GetSwitch, SetSwitch,
           GetTimezone, SetTimezone, SendReport, ReportFails, Fail, Handling
  <2> QED BY <2>1, <2>2
<1>5. NoRequest.op = "none" /\ NoRequest.pc = "sent"
  BY DEF NoRequest, Request
<1>6. \A p : Behind(p)' = Behind(p)
  BY DEF Behind, pageVars
<1>7. LocaleIsSet' = LocaleIsSet /\ \A o : Loaded(o)' = Loaded(o)
  BY <1>3 DEF LocaleIsSet, Loaded, pageVars
<1>8. UNCHANGED <<hidden, page, doing, todo, language, keyboard, location, enabled, active>>
  BY DEF pageVars, selectedVars
<1>9. InputSource(keyboard)' = InputSource(keyboard)
  BY <1>8 DEF InputSource
<1>10. SetInputSource(s) \/ SetSwitch(s)
  BY <1>4 DEF Serve, GetLocale, SetLocale, GetKeyboard, SetKeyboard, GetSwitch, GetTimezone, SetTimezone,
              SendReport, ReportFails, Fail, Handling
<1>11. UNCHANGED <<locale, x11, timezone, reported>>
  BY <1>10 DEF SetInputSource, SetSwitch
<1>12. LocaleShown' /\ KeyboardShown' /\ TimezoneShown' /\ ChoiceShown'
  BY <1>3, <1>5, <1>6, <1>7, <1>8, <1>11
     DEF Relied, LocaleShown, LocaleJustSet, KeyboardShown, TimezoneShown, ChoiceShown, Choice, ReportOps
<1>13. CASE SetInputSource(s)
  <2>1. requests[s].op = "SetInputSource" /\ sources' = requests[s].arg /\ UNCHANGED gsettings
    BY <1>13 DEF SetInputSource, Handling
  <2>2. sources' = InputSource(keyboard)
    BY <2>1 DEF Relied, SourceShown
  <2>3. SourceQuiet'
    BY <1>3, <1>5, <1>9, <2>2 DEF SourceQuiet
  <2>4. OptionsQuiet'
    <3>1. \A t \in Loose : requests[t].op # "Disable"
      BY <1>2, <1>5, <2>1 DEF Loose
    <3>2. \A o : On(o)' = On(o)
      BY <2>1 DEF On
    <3> QED BY <1>3, <1>5, <1>7, <1>8, <3>1, <3>2 DEF Relied, OptionsShown, OptionsQuiet
  <2> QED BY <1>3, <1>12, <2>3, <2>4, AfterQuiet DEF QuietRelied
<1>14. CASE SetSwitch(s)
  <2>0. requests[s].arg \in Options
    BY <1>0, <1>14, AnswerTypes DEF SetSwitch, Handling
  <2>0a. PICK a \in Options : a = requests[s].arg
    BY <2>0
  <2>1. PICK verb \in {"Enable", "Disable"} :
          /\ requests[s].op = verb
          /\ gsettings' = [gsettings EXCEPT ![Switch(a).key] = IF verb = "Enable" THEN Switch(a).on ELSE Switch(a).off]
    BY <1>14, <2>0a DEF SetSwitch, Handling
  <2>2. a \in Options /\ Options \subseteq Switches /\ gsettings \in [Keys -> Values]
    BY SettingsAssumption DEF TypeOK
  <2>3. ASSUME NEW o \in Options, o # a PROVE On(o)' = On(o)
    <3>1. Switch(o).key \in Keys /\ Switch(o).key # Switch(a).key
      BY <2>2, <2>3, SwitchesApart DEF Keys
    <3>2. gsettings'[Switch(o).key] = gsettings[Switch(o).key]
      BY <2>1, <2>2, <3>1
    <3> QED BY <3>2 DEF On
  <2>4. verb = "Disable" => ~On(a)'
    <3>1. Switch(a).key \in Keys /\ Switch(a).on # Switch(a).off
      BY <2>2, SwitchesApart DEF Keys
    <3>2. verb = "Disable" => gsettings'[Switch(a).key] = Switch(a).off
      BY <2>1, <2>2, <3>1
    <3> QED BY <3>1, <3>2 DEF On
  <2>5. verb = "Enable" => active[a] > 0
    BY <2>0a, <2>1 DEF Relied, OptionsShown
  <2>6. \A t \in Loose : requests[t].op = "Disable" => requests[t].arg = a /\ verb = "Disable"
    BY <1>2, <1>5, <2>0a, <2>1 DEF Loose
  <2>7. active \in [Options -> 0..MaxActive] /\ MaxActive \in Nat
    BY PagesAssumption DEF TypeOK
  <2>8. ASSUME NEW o \in Options, Loaded(o), active[o] = 0 PROVE ~On(o)'
    <3>1. CASE o = a
      BY <2>1, <2>4, <2>5, <2>8, <3>1 DEF On
    <3>2. CASE o # a
      BY <2>3, <2>6, <2>8, <3>2 DEF Relied, OptionsShown
    <3> QED BY <3>1, <3>2
  <2>9. OptionsQuiet'
    BY <1>3, <1>5, <1>7, <1>8, <2>8 DEF OptionsQuiet
  <2>10. SourceQuiet'
    <3>1. \A t \in Loose : requests[t].op # "SetInputSource"
      BY <1>2, <1>5, <2>1 DEF Loose
    <3>2. UNCHANGED sources
      BY <1>14 DEF SetSwitch
    <3> QED BY <1>3, <1>5, <1>6, <1>8, <1>9, <3>1, <3>2 DEF Relied, SourceShown, SourceQuiet
  <2> QED BY <1>3, <1>12, <2>9, <2>10, AfterQuiet DEF QuietRelied
<1> QED BY <1>10, <1>13, <1>14

\* A page is shown: what has to hold of the pages that are now behind the user.
LEMMA ShowRelied ==
  ASSUME IInv, LooseQuiet, NEW p, Show(p), UNCHANGED <<stored, hidden>>,
         p \notin {"start", "locale", "error"} => locale = NameOf[language'],
         p \in {"others", "timezone", "telemetry", "done"} => x11 = keyboard',
         p \in {"keyboard", "others", "timezone", "telemetry", "done"} /\ keyboard'[1] # None => sources = InputSource(keyboard'),
         p \in {"telemetry", "done"} => timezone = location',
         p = "done" => reported = Choice',
         p \notin {"start", "locale", "error"} /\ ~hidden => \A o \in Options : active'[o] = 0 => ~On(o)
  PROVE  Relied'
<1>1. NoRequest.op = "none" /\ NoRequest.pc = "sent" /\ NoRequest \in RequestType
  BY SlotsType DEF NoRequest, Request
<1>2. Current' = NoRequest /\ page' = p /\ doing' = "idle" /\ LooseQuiet'
  BY <1>1, PutEntry DEF Show, IInv, ShapeOK, LooseQuiet
<1>3. UNCHANGED <<locale, x11, timezone, sources, gsettings, reported>>
  BY DEF stored
<1>4. LocaleShown'
  BY <1>1, <1>2, <1>3 DEF LocaleShown, LocaleIsSet, LocaleJustSet
<1>5. KeyboardShown' /\ TimezoneShown' /\ ChoiceShown'
  BY <1>1, <1>2, <1>3 DEF KeyboardShown, TimezoneShown, ChoiceShown, Behind, ReportOps
<1>6. SourceQuiet'
  <2>1. InputSource(keyboard)' = InputSource(keyboard')
    BY DEF InputSource
  <2> QED BY <1>1, <1>2, <1>3, <2>1 DEF SourceQuiet, Behind
<1>7. OptionsQuiet'
  <2>1. \A o : On(o)' = On(o)
    BY <1>3 DEF On
  <2> QED BY <1>1, <1>2, <2>1 DEF OptionsQuiet, Loaded
<1> QED BY <1>2, <1>4, <1>5, <1>6, <1>7, AfterQuiet DEF QuietRelied

\* A page is loaded, or goes on being loaded, in front of the one shown.
LEMMA AskRelied ==
  ASSUME IInv, LooseQuiet, NEW op \in LoadOps, NEW arg \in Arguments, NEW rest, Ask(Request(op, arg), rest),
         UNCHANGED <<stored, hidden>>,
         page \in {"locale", "accessibility", "others"},
         locale = NameOf[language'],
         page = "others" => x11 = keyboard' /\ (keyboard'[1] # None => sources = InputSource(keyboard')),
         op = "SetInputSource" => arg = InputSource(keyboard'),
         page # "locale" /\ ~hidden => \A o \in Options : active'[o] = 0 => ~On(o),
         op = "Get" => page = "locale" /\ \A o \in Options \ (rest \cup {arg}) : active'[o] = 0 => ~On(o)
  PROVE  Relied'
<1> DEFINE r == Request(op, arg)
<1>1. r \in RequestType /\ r.op = op /\ r.pc = "sent" /\ r.arg = arg
  BY SentType
<1>2. Current' = r /\ page' = page /\ doing' = "loading" /\ todo' = rest /\ LooseQuiet'
  BY <1>1, PutEntry DEF Ask, IInv, ShapeOK, LooseQuiet
<1> HIDE DEF r
<1>3. UNCHANGED <<locale, x11, timezone, sources, gsettings, reported>>
  BY DEF stored
<1>4. LocaleShown'
  BY <1>1, <1>2, <1>3 DEF LocaleShown, LocaleIsSet, LocaleJustSet, LoadOps
<1>5. KeyboardShown' /\ TimezoneShown' /\ ChoiceShown'
  BY <1>1, <1>2, <1>3 DEF KeyboardShown, TimezoneShown, ChoiceShown, Behind, ReportOps, LoadOps
<1>6. SourceQuiet'
  <2>1. InputSource(keyboard)' = InputSource(keyboard')
    BY DEF InputSource
  <2> QED BY <1>1, <1>2, <1>3, <2>1 DEF SourceQuiet, Behind
<1>7. OptionsQuiet'
  <2>1. \A o : On(o)' = On(o)
    BY <1>3 DEF On
  <2> QED BY <1>1, <1>2, <2>1 DEF OptionsQuiet, Loaded
<1> QED BY <1>2, <1>4, <1>5, <1>6, <1>7, AfterQuiet DEF QuietRelied

\* What the pages behind the user show, while nothing is under way but the
\* awaited request.
LEMMA BehindShown ==
  ASSUME QuietRelied
  PROVE  /\ page \in {"accessibility", "keyboard", "others", "timezone", "telemetry", "done"} => locale = NameOf[language]
         /\ page \in {"others", "timezone", "telemetry", "done"} => x11 = keyboard
         /\ page \in {"keyboard", "others", "timezone", "telemetry", "done"} /\ keyboard[1] # None => sources = InputSource(keyboard)
         /\ page \in {"telemetry", "done"} => timezone = location
         /\ page \in {"accessibility", "keyboard", "others", "timezone", "telemetry", "done"} /\ ~hidden =>
              \A o \in Options : active[o] = 0 => ~On(o)
<1>1. LocaleIsSet => locale = NameOf[language]
  BY DEF QuietRelied, LocaleShown
<1>2. \A o \in Options : Loaded(o) /\ active[o] = 0 => ~On(o)
  BY DEF QuietRelied, OptionsQuiet
<1> QED BY <1>1, <1>2 DEF QuietRelied, KeyboardShown, SourceQuiet, TimezoneShown, Behind, LocaleIsSet, Loaded

\* The page that follows, when the selection of the one shown is stored.
LEMMA LoadRelied ==
  ASSUME IInv, LooseQuiet, QuietRelied,
         page \in {"locale", "accessibility", "keyboard", "others", "timezone"}, Load(Following[page]),
         UNCHANGED <<stored, hidden, selectedVars>>,
         locale = NameOf[language], page = "keyboard" => x11 = keyboard, page = "timezone" => timezone = location
  PROVE  Relied'
<1>0. UNCHANGED <<language, keyboard, location, enabled, active>>
  BY DEF selectedVars
<1>1. \/ Following[page] = "accessibility" /\ page = "locale" /\ ~hidden
      \/ Following[page] = "keyboard" /\ page = "locale" /\ hidden
      \/ Following[page] = "keyboard" /\ page = "accessibility" /\ ~hidden
      \/ Following[page] = "timezone" /\ page = "others"
      \/ Following[page] = "others" /\ page = "keyboard"
      \/ Following[page] = "telemetry" /\ page = "timezone"
  BY DEF Following, IInv, PageOK
<1>2. \A op, arg : op # "none" => Request(op, arg) # NoRequest
  BY DEF NoRequest, Request
<1>3. CASE Following[page] = "accessibility" /\ page = "locale" /\ ~hidden
  <2> DEFINE o == CHOOSE o \in Options : TRUE
  <2>1. o \in Options
    BY PagesAssumption
  <2>2. FirstCall("accessibility") = Request("Get", o) /\ OtherCalls("accessibility") = Options \ {o}
    BY DEF FirstCall, OtherCalls, Request
  <2> HIDE DEF o
  <2>3. o \in Arguments /\ "Get" \in LoadOps /\ Ask(Request("Get", o), Options \ {o})
    BY <1>2, <1>3, <2>1, <2>2 DEF Arguments, LoadOps, Load
  <2> QED BY <1>0, <1>3, <2>3, AskRelied
<1>4. CASE Following[page] = "keyboard" /\ page \in {"locale", "accessibility"} /\ (page = "locale" => hidden)
  <2>1. FirstCall("keyboard") = Request("GetKeyboard", None)
    BY DEF FirstCall
  <2>2. None \in Arguments /\ "GetKeyboard" \in LoadOps /\ Ask(Request("GetKeyboard", None), OtherCalls("keyboard"))
    BY <1>2, <1>4, <2>1 DEF Arguments, LoadOps, Load
  <2> QED BY <1>0, <1>4, <2>2, AskRelied, BehindShown
<1>5. CASE Following[page] = "timezone" /\ page = "others"
  <2>1. FirstCall("timezone") = Request("GetTimezone", None)
    BY DEF FirstCall
  <2>2. None \in Arguments /\ "GetTimezone" \in LoadOps /\ Ask(Request("GetTimezone", None), OtherCalls("timezone"))
    BY <1>2, <1>5, <2>1 DEF Arguments, LoadOps, Load
  <2> QED BY <1>0, <1>5, <2>2, AskRelied, BehindShown
<1>6. CASE Following[page] = "others" /\ page = "keyboard"
  <2>1. Show("others")
    BY <1>6 DEF Load, FirstCall
  <2> QED BY <1>0, <1>6, <2>1, ShowRelied, BehindShown
<1>7. CASE Following[page] = "telemetry" /\ page = "timezone"
  <2>1. Show("telemetry")
    BY <1>7 DEF Load, FirstCall
  <2> QED BY <1>0, <1>7, <2>1, ShowRelied, BehindShown
<1> QED BY <1>1, <1>3, <1>4, <1>5, <1>6, <1>7

LEMMA ClientServed ==
  ASSUME IInv, Relied, patient, Client, ~faulted'
  PROVE  Relied'
<1> USE DEF IInv
<1>0. UNCHANGED <<stored, hidden, faulted>> /\ Awaited \in Slots /\ requests[Awaited] = Current
  BY SlotsType DEF Client, Current
<1>1. doing \in {"loading", "saving"} /\ Current.pc \in {"ok", "error"}
  BY <1>0 DEF Client, Loading, LoadLanguage, LoadOption, LoadLayouts, LoadSetting, UpdatedInputSource, LoadTimezone,
                LoadFails, Answered, Handling, Saved, SaveFails
<1>2. LooseQuiet
  <2>1. Current # NoRequest
    BY <1>1 DEF NoRequest, Request
  <2> QED BY <1>0, <2>1, OnlyOne DEF Relied, LooseQuiet, Loose
<1>3. QuietRelied
  BY <1>2, WhileQuiet
<1>4. CASE LoadLanguage
  <2>1. Show("locale")
    BY <1>4 DEF LoadLanguage
  <2> QED BY <1>0, <1>2, <2>1, ShowRelied
<1>5. CASE LoadOption
  <2>0. PICK arg \in Options : arg = requests[Awaited].arg
    BY <1>0, <1>5, AnswerTypes DEF LoadOption, Answered, Handling
  <2>1. /\ Current.op = "Get" /\ Current.pc = "ok" /\ Current.arg = arg /\ doing = "loading"
        /\ page = "locale" /\ ~hidden /\ todo \subseteq Options \ {arg}
        /\ active' = [active EXCEPT ![arg] = IF Value THEN @ + 1 ELSE @]
        /\ UNCHANGED <<language, keyboard, location, enabled>>
    BY <1>0, <1>5, <2>0 DEF LoadOption, Answered, Handling, PageOK
  <2>2. active \in [Options -> 0..MaxActive] /\ MaxActive \in Nat
    BY PagesAssumption DEF TypeOK
  <2>3. Value = On(arg)
    BY <1>0, <1>3, <2>1 DEF QuietRelied, OptionsQuiet, Value
  <2>4. locale = NameOf[language]
    BY <1>3, <2>1 DEF QuietRelied, LocaleShown, LocaleIsSet
  <2>5. \A o \in Options \ todo : active'[o] = 0 => ~On(o)
    <3>1. ASSUME NEW o \in Options \ todo, active'[o] = 0 PROVE ~On(o)
      <4>1. CASE o = arg
        <5>1. ~Value
          BY <2>1, <2>2, <3>1, <4>1
        <5> QED BY <2>3, <4>1, <5>1
      <4>2. CASE o # arg
        <5>1. active[o] = 0
          BY <2>1, <2>2, <3>1, <4>2
        <5> QED BY <1>3, <2>1, <3>1, <4>2, <5>1 DEF QuietRelied, OptionsQuiet, Loaded
      <4> QED BY <4>1, <4>2
    <3> QED BY <3>1
  <2>6. CASE todo = {} /\ Show("accessibility")
    BY <1>0, <1>2, <2>1, <2>4, <2>5, <2>6, ShowRelied
  <2>7. CASE todo # {} /\ LET o == CHOOSE o \in todo : TRUE IN Ask(Request("Get", o), todo \ {o})
    <3> DEFINE o == CHOOSE o \in todo : TRUE
    <3>1. o \in todo /\ Ask(Request("Get", o), todo \ {o})
      BY <2>7
    <3> HIDE DEF o
    <3>2. o \in Arguments /\ "Get" \in LoadOps /\ (todo \ {o}) \cup {o} = todo
      BY <2>1, <3>1 DEF Arguments, LoadOps
    <3> QED BY <1>0, <1>2, <2>1, <2>4, <2>5, <3>1, <3>2, AskRelied
  <2> QED BY <1>5, <2>6, <2>7 DEF LoadOption
<1>6. ASSUME Current.op \in {"GetKeyboard", "SetInputSource"}, doing = "loading"
      PROVE  /\ page \in {"locale", "accessibility"} /\ (page = "locale" => hidden)
             /\ locale = NameOf[language]
             /\ ~hidden => \A o \in Options : active[o] = 0 => ~On(o)
  <2>1. page \in {"locale", "accessibility"} /\ (page = "locale" => hidden)
    BY <1>6 DEF PageOK
  <2>2. locale = NameOf[language]
    BY <1>3, <1>6, <2>1 DEF QuietRelied, LocaleShown, LocaleIsSet
  <2> QED BY <1>3, <2>1, <2>2, BehindShown
<1>7. CASE LoadLayouts
  <2>1. Current.op = "GetKeyboard" /\ doing = "loading" /\ Ask(Request("GetKeyboard", None), {}) /\ UNCHANGED selectedVars
    BY <1>0, <1>7 DEF LoadLayouts, Answered, Handling
  <2>2. None \in Arguments /\ "GetKeyboard" \in LoadOps
    BY DEF Arguments, LoadOps
  <2>3. UNCHANGED <<language, keyboard, location, enabled, active>>
    BY <2>1 DEF selectedVars
  <2> QED BY <1>0, <1>2, <1>6, <2>1, <2>2, <2>3, AskRelied
<1>8. CASE LoadSetting
  <2>1. Current.op = "GetKeyboard" /\ doing = "loading" /\ Current.pc = "ok" /\ UNCHANGED <<language, location, enabled, active>>
    BY <1>0, <1>8 DEF LoadSetting, Answered, Handling
  <2>2. CASE keyboard'[1] = None /\ Show("keyboard")
    BY <1>0, <1>2, <1>6, <2>1, <2>2, ShowRelied
  <2>3. CASE keyboard'[1] # None /\ Ask(Request("SetInputSource", InputSource(keyboard')), {})
    <3>1. Value \in Keyboards
      BY <1>0, <2>1 DEF ShapeOK, Value, Current
    <3>2. keyboard' \in (DOMAIN VariantsOf \cup {None}) \X (Variants \cup {None})
      BY <1>8, <3>1, KeyboardOfType DEF LoadSetting
    <3>3. InputSource(keyboard') \in Keyboards
      BY <2>3, <3>2, PairParts, InputSourceType
    <3>4. InputSource(keyboard') \in Arguments /\ "SetInputSource" \in LoadOps
      BY <3>3 DEF Arguments, LoadOps
    <3> QED BY <1>0, <1>2, <1>6, <2>1, <2>3, <3>4, AskRelied
  <2> QED BY <1>8, <2>2, <2>3 DEF LoadSetting
<1>9. CASE UpdatedInputSource
  <2>1. Current.op = "SetInputSource" /\ doing = "loading" /\ Current.pc = "ok" /\ Show("keyboard") /\ UNCHANGED selectedVars
    BY <1>0, <1>9 DEF UpdatedInputSource, Answered, Handling
  <2>2. UNCHANGED <<language, keyboard, location, enabled, active>>
    BY <2>1 DEF selectedVars
  <2>3. sources = InputSource(keyboard)
    BY <1>3, <2>1 DEF QuietRelied, SourceQuiet
  <2> QED BY <1>0, <1>2, <1>6, <2>1, <2>2, <2>3, ShowRelied
<1>10. CASE LoadTimezone
  <2>1. Current.op = "GetTimezone" /\ page = "others" /\ Show("timezone") /\ UNCHANGED <<language, keyboard, enabled, active>>
    BY <1>0, <1>10 DEF LoadTimezone, Answered, Handling, PageOK
  <2> QED BY <1>0, <1>2, <1>3, <2>1, ShowRelied, BehindShown
<1>11. ~LoadFails
  BY <1>0 DEF LoadFails, TerritoryOK
<1>12. CASE Saved
  <2>0. doing = "saving" /\ UNCHANGED selectedVars
    BY <1>12 DEF Saved
  <2>1. \/ Current.op = "SetLocale" /\ page = "locale"
        \/ Current.op = "SetKeyboard" /\ page = "keyboard"
        \/ Current.op = "SetTimezone" /\ page = "timezone"
        \/ Current.op \in ReportOps /\ page = "telemetry"
    BY <2>0 DEF ShapeOK, SaveOps, PageOK
  <2>2. UNCHANGED <<language, keyboard, location, enabled, active>>
    BY <2>0 DEF selectedVars
  <2>3. CASE Current.pc = "ok" /\ page # "telemetry" /\ Load(Following[page])
    <3>1. locale = NameOf[language]
      BY <1>3, <2>1, <2>3 DEF QuietRelied, LocaleShown, LocaleJustSet, LocaleIsSet
    <3>2. (page = "keyboard" => x11 = keyboard) /\ (page = "timezone" => timezone = location)
      BY <1>3, <2>1, <2>3 DEF QuietRelied, KeyboardShown, TimezoneShown, ReportOps
    <3> QED BY <1>0, <1>2, <1>3, <2>0, <2>1, <2>3, <3>1, <3>2, LoadRelied
  <2>4. CASE page = "telemetry" /\ Show("done")
    <3>1. Current.op \in ReportOps
      BY <2>1, <2>4
    <3>2. reported = Choice /\ Choice' = Choice
      BY <1>1, <1>3, <2>2, <3>1 DEF QuietRelied, ChoiceShown, Choice
    <3> QED BY <1>0, <1>2, <1>3, <2>2, <2>4, <3>2, ShowRelied, BehindShown
  <2> QED BY <1>0, <1>12, <2>3, <2>4 DEF Saved
<1>13. CASE SaveFails
  <2>1. NoRequest.op = "none" /\ NoRequest.pc = "sent" /\ NoRequest \in RequestType
    BY SlotsType DEF NoRequest, Request
  <2>2. Current' = NoRequest /\ LooseQuiet'
    BY <1>2, <1>13, <2>1, PutEntry DEF SaveFails, ShapeOK, LooseQuiet
  <2>3. doing = "saving" /\ doing' = "stuck" /\ UNCHANGED <<page, todo, hidden, language, keyboard, location, enabled, active>>
    BY <1>0, <1>13 DEF SaveFails, selectedVars
  <2>4. UNCHANGED <<locale, x11, timezone, sources, gsettings, reported>>
    BY <1>0 DEF stored
  <2>5. LocaleShown'
    BY <1>3, <2>1, <2>2, <2>3, <2>4 DEF QuietRelied, LocaleShown, LocaleIsSet, LocaleJustSet
  <2>6. KeyboardShown' /\ TimezoneShown' /\ ChoiceShown'
    BY <1>3, <2>1, <2>2, <2>3, <2>4 DEF QuietRelied, KeyboardShown, TimezoneShown, ChoiceShown, Choice, Behind, ReportOps
  <2>7. SourceQuiet'
    <3>1. InputSource(keyboard)' = InputSource(keyboard)
      BY <2>3 DEF InputSource
    <3> QED BY <1>3, <2>1, <2>2, <2>3, <2>4, <3>1 DEF QuietRelied, SourceQuiet, Behind
  <2>8. OptionsQuiet'
    <3>1. Current.op # "Get" /\ \A o : On(o)' = On(o)
      BY <2>3, <2>4 DEF On, ShapeOK, SaveOps, ReportOps
    <3> QED BY <1>3, <2>1, <2>2, <2>3, <3>1 DEF QuietRelied, OptionsQuiet, Loaded
  <2> QED BY <2>2, <2>5, <2>6, <2>7, <2>8, AfterQuiet DEF QuietRelied
<1> QED BY <1>4, <1>5, <1>7, <1>8, <1>9, <1>10, <1>11, <1>12, <1>13 DEF Client, Loading

\* The user acts while nothing is under way.
LEMMA UserServed ==
  ASSUME IInv, Relied, patient, User
  PROVE  Relied'
<1> USE DEF IInv
<1>0. /\ UNCHANGED <<stored, hidden>>
      /\ UNCHANGED <<locale, x11, timezone, sources, gsettings, reported>>
      /\ Awaited \in Slots /\ requests[Awaited] = Current
  BY SlotsType DEF User, stored, Current
<1>1. Quiet
  BY DEF User, May, SaveLocale, SaveKeyboard, SaveTimezone, SaveTelemetry, Save, PassOn, Back, SelectLanguage,
         ToggleOption, SelectLayout, SelectVariant, Select, SelectLocation, SetEnabled
<1>2. LooseQuiet /\ Current = NoRequest
  BY <1>0, <1>1 DEF Quiet, LooseQuiet, Loose
<1>3. NoRequest.op = "none" /\ NoRequest.pc = "sent" /\ NoRequest \in RequestType
  BY SlotsType DEF NoRequest, Request
<1>4. doing \in {"idle", "stuck"}
  BY <1>2, <1>3 DEF ShapeOK, TypeOK, LoadOps, SaveOps, ReportOps
<1>5. QuietRelied
  BY <1>2, WhileQuiet
<1>6. \A o : On(o)' = On(o)
  BY <1>0 DEF On
<1>7. InputSource(keyboard)' = InputSource(keyboard')
  BY DEF InputSource
\* A page is saved.
<1>8. ASSUME NEW op \in SaveOps, NEW arg \in Arguments, Save(Request(op, arg)),
             op = "SetLocale" => arg = NameOf[language], op = "SetKeyboard" => arg = keyboard,
             op = "SetTimezone" => arg = location, op \in ReportOps => op = Choice
      PROVE  Relied'
  <2> DEFINE r == Request(op, arg)
  <2>1. r \in RequestType /\ r.op = op /\ r.pc = "sent" /\ r.arg = arg
    BY SentType
  <2>2. /\ Current' = r /\ LooseQuiet'
        /\ doing' = "saving" /\ UNCHANGED <<page, todo, language, keyboard, location, enabled, active>>
    BY <1>2, <1>8, <2>1, PutEntry DEF Save, ShapeOK, LooseQuiet, selectedVars
  <2> HIDE DEF r
  <2>3. LocaleShown'
    BY <1>0, <1>4, <1>5, <1>8, <2>1, <2>2 DEF QuietRelied, LocaleShown, LocaleIsSet, LocaleJustSet
  <2>4. KeyboardShown' /\ TimezoneShown'
    BY <1>0, <1>5, <1>8, <2>1, <2>2 DEF QuietRelied, KeyboardShown, TimezoneShown, Behind
  <2>5. ChoiceShown'
    BY <1>0, <1>5, <1>8, <2>1, <2>2 DEF QuietRelied, ChoiceShown, Choice, ReportOps
  <2>6. SourceQuiet'
    BY <1>0, <1>5, <1>7, <1>8, <2>1, <2>2 DEF QuietRelied, SourceQuiet, Behind, SaveOps, ReportOps
  <2>7. OptionsQuiet'
    BY <1>0, <1>3, <1>2, <1>5, <1>6, <1>8, <2>1, <2>2 DEF QuietRelied, OptionsQuiet, Loaded, SaveOps, ReportOps
  <2> QED BY <2>2, <2>3, <2>4, <2>5, <2>6, <2>7, AfterQuiet DEF QuietRelied
<1>9. CASE SaveLocale
  <2>1. NameOf[language] \in Arguments /\ "SetLocale" \in SaveOps /\ "SetLocale" \notin ReportOps
    BY PagesAssumption DEF TypeOK, Arguments, SaveOps, ReportOps
  <2> QED BY <1>8, <1>9, <2>1 DEF SaveLocale
<1>10. CASE SaveKeyboard
  <2>1. keyboard[1] \in DOMAIN VariantsOf /\ keyboard[2] \in Variants /\ keyboard = <<keyboard[1], keyboard[2]>>
    BY <1>10, PairParts DEF SaveKeyboard, TypeOK
  <2>2. keyboard \in Arguments /\ "SetKeyboard" \in SaveOps /\ "SetKeyboard" \notin ReportOps
    BY <2>1, PagesAssumption DEF Keyboards, Arguments, SaveOps, ReportOps
  <2> QED BY <1>8, <1>10, <2>2 DEF SaveKeyboard
<1>11. CASE SaveTimezone
  <2>1. location \in Arguments /\ "SetTimezone" \in SaveOps /\ "SetTimezone" \notin ReportOps
    BY <1>11, PagesAssumption DEF SaveTimezone, TypeOK, Arguments, SaveOps, ReportOps
  <2> QED BY <1>8, <1>11, <2>1 DEF SaveTimezone
<1>12. CASE SaveTelemetry
  <2>1. Choice \in SaveOps /\ Choice \in ReportOps /\ None \in Arguments /\ Save(Request(Choice, None))
        /\ Choice \notin {"SetLocale", "SetKeyboard", "SetTimezone"}
    BY <1>12 DEF SaveTelemetry, Choice, SaveOps, ReportOps, Arguments
  <2> QED BY <1>8, <2>1
<1>13. CASE PassOn
  <2>1. page \in {"accessibility", "others"} /\ Load(Following[page]) /\ UNCHANGED selectedVars
    BY <1>13 DEF PassOn
  <2>2. locale = NameOf[language]
    BY <1>5, <2>1, BehindShown
  <2> QED BY <1>0, <1>2, <1>5, <2>1, <2>2, LoadRelied
\* Nothing is sent: what is behind the user now was so before, or is not a
\* selection that changes.
<1>14. ASSUME UNCHANGED <<requests, active>>, doing' \in {"idle", "stuck"},
              page' # page => page \in {"accessibility", "keyboard", "others"} /\ page' \in {"locale", "accessibility", "keyboard"},
              page' = "keyboard" /\ page # "keyboard" => page = "others",
              language' # language => page = "locale" /\ page' = "locale",
              location' # location => page = "timezone" /\ page' = "timezone",
              enabled' # enabled => page = "telemetry" /\ page' = "telemetry",
              UNCHANGED keyboard
       PROVE  Relied'
  <2>1. Current' = NoRequest /\ LooseQuiet'
    BY <1>2, <1>14 DEF Current, LooseQuiet, Loose
  <2>2. LocaleShown'
    BY <1>0, <1>3, <1>5, <1>14, <2>1 DEF QuietRelied, LocaleShown, LocaleIsSet, LocaleJustSet
  <2>3. KeyboardShown' /\ TimezoneShown'
    BY <1>0, <1>3, <1>5, <1>14, <2>1 DEF QuietRelied, KeyboardShown, TimezoneShown, Behind
  <2>4. ChoiceShown'
    BY <1>0, <1>3, <1>5, <1>14, <2>1 DEF QuietRelied, ChoiceShown, Choice, ReportOps
  <2>5. SourceQuiet'
    BY <1>0, <1>3, <1>5, <1>7, <1>14, <2>1, BehindShown DEF SourceQuiet, Behind
  <2>6. OptionsQuiet'
    <3>1. \A o \in Options : Loaded(o)' => Loaded(o)
      BY <1>0, <1>2, <1>3, <1>14, <2>1 DEF Loaded
    <3> QED BY <1>3, <1>5, <1>6, <1>14, <2>1, <3>1 DEF QuietRelied, OptionsQuiet
  <2> QED BY <2>1, <2>2, <2>3, <2>4, <2>5, <2>6, AfterQuiet DEF QuietRelied
<1>15. CASE Back
  <2>1. /\ page \in {"accessibility", "keyboard", "others"}
        /\ page' \in {"locale", "accessibility", "keyboard"}
        /\ page' = "keyboard" => page = "others"
    BY <1>15 DEF Back, Previous
  <2> QED BY <1>4, <1>14, <1>15, <2>1 DEF Back, selectedVars
<1>16. ASSUME NEW l \in Languages, SelectLanguage(l) PROVE Relied'
  BY <1>4, <1>14, <1>16 DEF SelectLanguage, pageVars
<1>17. ASSUME NEW t \in Located, SelectLocation(t) PROVE Relied'
  BY <1>4, <1>14, <1>17 DEF SelectLocation, pageVars
<1>18. ASSUME NEW b \in BOOLEAN, SetEnabled(b) PROVE Relied'
  BY <1>4, <1>14, <1>18 DEF SetEnabled, pageVars
\* What is sent at once is the only request under way.
<1>19. ASSUME NEW s \in Free, NEW r \in RequestType, requests' = [requests EXCEPT ![s] = r]
       PROVE  /\ s \in Loose /\ requests'[s] = r
              /\ \A t \in Slots : t # s => requests'[t] = NoRequest
              /\ Current' = NoRequest
  BY <1>0, <1>1, <1>19 DEF Free, Loose, Quiet, Current, ShapeOK
<1>20. ASSUME NEW k \in (DOMAIN VariantsOf) \X (Variants \cup {None}), Select(k) PROVE Relied'
  <2> DEFINE r == Request("SetInputSource", InputSource(k))
  <2>1. PICK s \in Free : requests' = [requests EXCEPT ![s] = r]
    BY <1>20 DEF Select, Send
  <2>2. InputSource(k) \in Arguments /\ "SetInputSource" \in LooseOps
    BY InputSourceType DEF Arguments, LooseOps
  <2>3. r \in RequestType /\ r.op = "SetInputSource" /\ r.arg = InputSource(k)
    BY <2>2, SentType
  <2> HIDE DEF r
  <2>4. /\ s \in Loose /\ requests'[s] = r
        /\ \A t \in Slots : t # s => requests'[t] = NoRequest
        /\ Current' = NoRequest
    BY <1>19, <2>1, <2>3
  <2>5. keyboard' = k /\ page = "keyboard" /\ UNCHANGED <<page, doing, todo, language, location, enabled, active>>
    BY <1>20 DEF Select, Send
  <2>6. OneAtATime'
    BY <1>0, <1>3, <2>3, <2>4 DEF OneAtATime, Pending, Loose
  <2>7. LocaleShown'
    BY <1>0, <1>3, <1>5, <2>4, <2>5 DEF QuietRelied, LocaleShown, LocaleIsSet, LocaleJustSet
  <2>8. KeyboardShown' /\ TimezoneShown' /\ ChoiceShown'
    BY <1>0, <1>3, <1>5, <2>4, <2>5 DEF QuietRelied, KeyboardShown, TimezoneShown, Behind, ChoiceShown, Choice, ReportOps
  <2>9. SourceShown'
    BY <1>3, <1>7, <2>3, <2>4, <2>5 DEF SourceShown, Loose
  <2>10. OptionsShown'
    <3>1. \A t \in Loose : requests'[t].op \notin {"Enable", "Disable"}
      BY <1>3, <2>3, <2>4 DEF Loose
    <3>2. \A o \in Options : Loaded(o)' => Loaded(o)
      BY <1>0, <1>2, <1>3, <2>4, <2>5 DEF Loaded
    <3> QED BY <1>3, <1>5, <1>6, <2>4, <2>5, <3>1, <3>2 DEF QuietRelied, OptionsQuiet, OptionsShown, Loose
  <2> QED BY <2>6, <2>7, <2>8, <2>9, <2>10 DEF Relied
<1>21. ASSUME NEW l \in DOMAIN VariantsOf, SelectLayout(l) PROVE Relied'
  <2>1. <<l, FirstVariant[l]>> \in (DOMAIN VariantsOf) \X (Variants \cup {None})
    BY PagesAssumption
  <2> QED BY <1>20, <1>21, <2>1 DEF SelectLayout
<1>22. ASSUME NEW v \in Variants, SelectVariant(v) PROVE Relied'
  <2>1. keyboard[1] \in DOMAIN VariantsOf
    BY <1>22, PairParts DEF SelectVariant, TypeOK
  <2>2. <<keyboard[1], v>> \in (DOMAIN VariantsOf) \X (Variants \cup {None})
    BY <2>1
  <2> QED BY <1>20, <1>22, <2>2 DEF SelectVariant
<1>23. ASSUME NEW a \in Options, ToggleOption(a) PROVE Relied'
  <2>1. PICK op \in {"Enable", "Disable"} :
          /\ Send(Request(op, a))
          /\ active' = [active EXCEPT ![a] = IF op = "Enable" THEN @ + 1 ELSE @ - 1]
          /\ op = "Enable" => active[a] = 0
    BY <1>23 DEF ToggleOption
  <2> DEFINE r == Request(op, a)
  <2>2. PICK s \in Free : requests' = [requests EXCEPT ![s] = r]
    BY <2>1 DEF Send
  <2>3. a \in Arguments /\ op \in LooseOps
    BY <2>1 DEF Arguments, LooseOps
  <2>4. r \in RequestType /\ r.op = op /\ r.arg = a
    BY <2>3, SentType
  <2> HIDE DEF r
  <2>5. /\ s \in Loose /\ requests'[s] = r
        /\ \A t \in Slots : t # s => requests'[t] = NoRequest
        /\ Current' = NoRequest
    BY <1>19, <2>2, <2>4
  <2>6. page = "accessibility" /\ UNCHANGED <<page, doing, todo, language, keyboard, location, enabled>>
    BY <1>23, <2>1 DEF ToggleOption, Send
  <2>7. OneAtATime'
    BY <1>0, <1>3, <2>1, <2>4, <2>5 DEF OneAtATime, Pending, Loose
  <2>8. LocaleShown'
    BY <1>0, <1>3, <1>5, <2>5, <2>6 DEF QuietRelied, LocaleShown, LocaleIsSet, LocaleJustSet
  <2>9. KeyboardShown' /\ TimezoneShown' /\ ChoiceShown'
    BY <1>0, <1>3, <1>5, <2>5, <2>6 DEF QuietRelied, KeyboardShown, TimezoneShown, Behind, ChoiceShown, Choice, ReportOps
  <2>10. SourceShown'
    <3>1. \A t \in Loose : requests'[t].op # "SetInputSource"
      BY <1>3, <2>1, <2>4, <2>5 DEF Loose
    <3> QED BY <1>3, <2>5, <2>6, <3>1 DEF SourceShown, Behind, Loose
  <2>11. active \in [Options -> 0..MaxActive] /\ MaxActive \in Nat
    BY PagesAssumption DEF TypeOK
  <2>12. OptionsShown'
    <3>1. \A t \in Loose : requests'[t].op \in {"Enable", "Disable"} => requests'[t].op = op /\ requests'[t].arg = a
      BY <1>3, <2>4, <2>5 DEF Loose
    <3>2. op = "Enable" => active'[a] > 0
      BY <2>1, <2>11
    <3>3. ASSUME NEW o \in Options, active'[o] = 0, ~(op = "Disable" /\ o = a) PROVE ~On(o)'
      <4>1. o # a
        BY <2>1, <3>2, <3>3
      <4>2. active[o] = 0
        BY <2>1, <2>11, <3>3, <4>1
      <4> QED BY <1>5, <1>6, <2>6, <4>2 DEF QuietRelied, OptionsQuiet, Loaded, PageOK
    <3> QED BY <1>3, <2>1, <2>4, <2>5, <3>1, <3>2, <3>3 DEF OptionsShown, Loose
  <2> QED BY <2>7, <2>8, <2>9, <2>10, <2>12 DEF Relied
<1> QED BY <1>9, <1>10, <1>11, <1>12, <1>13, <1>15, <1>16, <1>17, <1>18, <1>21, <1>22, <1>23 DEF User

LEMMA InitServed ==
  ASSUME Init
  PROVE  Relied
<1> DEFINE first == Request("GetLocale", None)
<1>1. NoRequest.op = "none" /\ first.op = "GetLocale"
  BY DEF NoRequest, Request
<1>2. requests = [s \in Slots |-> IF s = Awaited THEN first ELSE NoRequest]
  BY DEF Init
<1> HIDE DEF first
<1>3. Current = first /\ \A s \in Loose : requests[s] = NoRequest
  BY <1>2, SlotsType DEF Current, Loose
<1>4. page = "start"
  BY DEF Init
<1>5. OneAtATime
  BY <1>1, <1>3 DEF OneAtATime, Pending, Loose
<1>6. LocaleShown /\ KeyboardShown /\ TimezoneShown /\ ChoiceShown
  BY <1>1, <1>3, <1>4 DEF LocaleShown, LocaleIsSet, LocaleJustSet, KeyboardShown, TimezoneShown, ChoiceShown, Behind, ReportOps
<1>7. SourceShown /\ OptionsShown
  BY <1>1, <1>3, <1>4 DEF SourceShown, OptionsShown, Behind, Loaded
<1> QED BY <1>5, <1>6, <1>7 DEF Relied

LEMMA StepServed ==
  ASSUME IInv, PatientOK, [Next]_vars
  PROVE  PatientOK'
<1> SUFFICES ASSUME patient', ~faulted' PROVE Relied'
  BY DEF PatientOK
<1>1. CASE Provd
  <2>1. PICK s \in Slots : Serve(s) /\ UNCHANGED <<hidden, patient, pageVars, selectedVars>>
    BY <1>1 DEF Provd
  <2>2. ~faulted
    BY <2>1 DEF Serve, GetLocale, SetLocale, GetKeyboard, SetKeyboard, SetInputSource, GetSwitch, SetSwitch,
                GetTimezone, SetTimezone, SendReport, ReportFails, Fail, Finish, Read, Reject
  <2>3. Relied
    BY <2>1, <2>2 DEF PatientOK
  <2> QED BY <2>1, <2>3, AwaitedServed, LooseServed DEF Loose
<1>2. CASE Client
  BY <1>2, ClientServed DEF PatientOK, Client
<1>3. CASE User
  BY <1>3, UserServed DEF PatientOK, User
<1>4. CASE UNCHANGED vars
  <2>1. Relied
    BY <1>4 DEF PatientOK, vars, provdVars
  <2>2. UNCHANGED <<locale, x11, timezone, sources, gsettings, reported, requests, hidden, page, doing, todo,
                    language, keyboard, location, enabled, active>>
    BY <1>4 DEF vars, provdVars, stored, pageVars, selectedVars
  <2>3. \A o : On(o)' = On(o) /\ Loaded(o)' = Loaded(o)
    BY <2>2 DEF On, Loaded, Current
  <2>4. \A p : Behind(p)' = Behind(p)
    BY <2>2 DEF Behind
  <2>5. Current' = Current /\ InputSource(keyboard)' = InputSource(keyboard)
    BY <2>2 DEF Current, InputSource
  <2>6. OneAtATime' /\ LocaleShown' /\ KeyboardShown' /\ TimezoneShown' /\ ChoiceShown'
    BY <2>1, <2>2, <2>4, <2>5 DEF Relied, OneAtATime, Pending, Loose, LocaleShown, LocaleIsSet, LocaleJustSet,
                                  KeyboardShown, TimezoneShown, ChoiceShown, Choice
  <2>7. SourceShown'
    BY <2>1, <2>2, <2>4, <2>5 DEF Relied, SourceShown, Loose
  <2>8. OptionsShown'
    BY <2>1, <2>2, <2>3, <2>5 DEF Relied, OptionsShown, Loose
  <2> QED BY <2>6, <2>7, <2>8 DEF Relied
<1> QED BY <1>1, <1>2, <1>3, <1>4 DEF Next

LEMMA AlwaysPatient == Spec => [](IInv /\ PatientOK)
<1>1. Init => IInv /\ PatientOK
  BY InitStep, InitServed DEF PatientOK
<1>2. (IInv /\ PatientOK) /\ [Next]_vars => (IInv /\ PatientOK)'
  BY NextStep, StepServed
<1> QED BY <1>1, <1>2, PTL DEF Spec

\* A user who waits until nothing is under way, and meets no fault, has behind
\* him what is stored: locale, keyboard, time zone and choice, and the input
\* source of the session is the keyboard shown; back and forth as he likes.
THEOREM ShownIsStored == Spec => []SettingsAsShown
<1>1. IInv /\ PatientOK => SettingsAsShown
  <2> SUFFICES ASSUME IInv, Relied, Quiet PROVE SettingsAsShown
    BY DEF PatientOK, SettingsAsShown
  <2>1. LooseQuiet
    BY DEF Quiet, LooseQuiet, Loose
  <2>2. QuietRelied
    BY <2>1, WhileQuiet
  <2>3. page = "done" => reported = Choice
    BY <2>2 DEF QuietRelied, ChoiceShown
  <2> QED BY <2>2, <2>3, BehindShown DEF SettingsAsShown, Behind, Choice
<1> QED BY <1>1, AlwaysPatient, PTL

\* An option that the accessibility page shows as inactive is off, for a user
\* who waits: a switch is not changed by another's requests, and what is
\* loaded again is only added to the list.
THEOREM InactiveIsOff == Spec => []OffIsOff
<1>1. IInv /\ PatientOK => OffIsOff
  <2> SUFFICES ASSUME IInv, Relied, Quiet, page = "accessibility" PROVE \A o \in Options : active[o] = 0 => ~On(o)
    BY DEF PatientOK, OffIsOff
  <2>1. LooseQuiet
    BY DEF Quiet, LooseQuiet, Loose
  <2>2. QuietRelied
    BY <2>1, WhileQuiet
  <2> QED BY <2>2, BehindShown DEF IInv, PageOK
<1> QED BY <1>1, AlwaysPatient, PTL

\* No request changes a switch but those for it, whoever sends them and
\* whatever fails.
THEOREM SwitchesApartAlways == Spec => SwitchesIndependent
<1>1. ASSUME IInv, [Next]_vars, NEW o \in Options, On(o)' # On(o)
      PROVE  \E s \in Slots : requests[s].arg = o /\ requests[s].op \in {"Enable", "Disable"} /\ requests'[s] # requests[s]
  <2>1. UNCHANGED gsettings => On(o)' = On(o)
    BY DEF On
  <2>2. PICK s \in Slots : Serve(s) /\ UNCHANGED <<hidden, patient, pageVars, selectedVars>>
    BY <1>1, <2>1 DEF Next, Provd, Client, User, vars, provdVars, stored
  <2>3. SetSwitch(s)
    BY <1>1, <2>1, <2>2 DEF Serve, GetLocale, SetLocale, GetKeyboard, SetKeyboard, SetInputSource, GetSwitch,
                       GetTimezone, SetTimezone, SendReport, ReportFails, Fail, Read, Reject, stored
  <2>4. PICK verb \in {"Enable", "Disable"} :
          /\ requests[s].op = verb
          /\ gsettings' = [gsettings EXCEPT ![Switch(requests[s].arg).key] =
                             IF verb = "Enable" THEN Switch(requests[s].arg).on ELSE Switch(requests[s].arg).off]
    BY <2>3 DEF SetSwitch, Handling
  <2>5. requests[s].arg \in Options /\ Options \subseteq Switches /\ gsettings \in [Keys -> Values]
    BY <1>1, <2>4, AnswerTypes, SettingsAssumption DEF IInv, TypeOK
  <2>6. requests[s].arg = o
    <3>1. ASSUME requests[s].arg # o PROVE FALSE
      <4>1. Switch(o).key \in Keys /\ Switch(o).key # Switch(requests[s].arg).key
        BY <2>5, <3>1, SwitchesApart DEF Keys
      <4>2. gsettings'[Switch(o).key] = gsettings[Switch(o).key]
        BY <2>4, <2>5, <4>1
      <4> QED BY <1>1, <4>2 DEF On
    <3> QED BY <3>1
  <2>7. requests'[s] # requests[s]
    <3>1. s # Awaited
      <4>1. Current.op \in LoadOps \cup SaveOps \cup {"none"}
        BY <1>1 DEF IInv, ShapeOK, TypeOK, NoRequest, Request
      <4> QED BY <2>4, <4>1 DEF LoadOps, SaveOps, ReportOps, Current
    <3>2. requests'[s] = NoRequest
      BY <1>1, <2>2, <2>3, <2>4, <3>1, WriteStep DEF Handled
    <3> QED BY <2>4, <3>2 DEF NoRequest, Request
  <2> QED BY <2>4, <2>6, <2>7
<1>2. Spec => []IInv
  BY InitStep, NextStep, PTL DEF Spec
<1>3. IInv /\ [Next]_vars => \A o \in Options :
       On(o)' # On(o) =>
         \E s \in Slots : requests[s].arg = o /\ requests[s].op \in {"Enable", "Disable"} /\ requests'[s] # requests[s]
  BY <1>1
<1> QED BY <1>2, <1>3, PTL DEF Spec, SwitchesIndependent
============================================================================
